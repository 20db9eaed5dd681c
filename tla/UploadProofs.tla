---------------------------- MODULE UploadProofs ----------------------------
(***************************************************************************)
(* What holds of uploads, for any number of requests and faults.           *)
(***************************************************************************)
EXTENDS Upload, TLAPS

\* Every reachable state is well formed.
THEOREM UploadTypeCorrect == Spec => []TypeOK
<1>1. Init => TypeOK
  BY DEF Init, TypeOK, UploadPC
<1>2. TypeOK /\ [Next]_vars => TypeOK'
  <2> SUFFICES ASSUME TypeOK, [Next]_vars PROVE TypeOK'
    OBVIOUS
  <2> USE DEF TypeOK, UploadPC, Ended, Goto, Fault
  <2>1. CASE UNCHANGED vars
    BY <2>1 DEF vars
  <2>2. CASE Crash
    BY <2>2 DEF Crash
  <2>3. ASSUME NEW u \in Uploads, Step(u) PROVE TypeOK'
    BY <2>3 DEF Step, ReadBody, Validate, OpenFile, WriteFile, CommitRow, RowRefused,
                RefreshRow, DeleteFile, AfterFault
  <2>4. ASSUME NEW u \in Uploads, StatementFails(u) PROVE TypeOK'
    BY <2>4 DEF StatementFails, AfterFault
  <2> QED
    BY <2>1, <2>2, <2>3, <2>4 DEF Next
<1> QED
  BY <1>1, <1>2, PTL DEF Spec

\* The strengthening and the property about orphans together are inductive:
\* a request that fails its cleanup has already met what kept its row out.
LEMMA UploadInvariant == Spec => [](UploadInv /\ OrphanTakesFaults)
<1> DEFINE Inv == UploadInv /\ OrphanTakesFaults
<1> USE DEF UploadInv, OrphanTakesFaults
<1>1. Init => Inv
  BY DEF Init, Ended
<1>2. TypeOK /\ Inv /\ [Next]_vars => Inv'
  <2> SUFFICES ASSUME TypeOK, Inv, [Next]_vars PROVE Inv'
    OBVIOUS
  <2> USE DEF TypeOK, UploadPC, Ended, Goto, Fault
  <2>1. CASE UNCHANGED vars
    BY <2>1 DEF vars
  <2>2. CASE Crash
    BY <2>2 DEF Crash
  <2>3. ASSUME NEW u \in Uploads, ReadBody(u) \/ Validate(u) PROVE Inv'
    BY <2>3 DEF ReadBody, Validate
  <2>4. ASSUME NEW u \in Uploads, OpenFile(u) \/ WriteFile(u) PROVE Inv'
    BY <2>4 DEF OpenFile, WriteFile
  <2>5. ASSUME NEW u \in Uploads, CommitRow(u) \/ RowRefused(u) PROVE Inv'
    BY <2>5 DEF CommitRow, RowRefused, AfterFault
  <2>6. ASSUME NEW u \in Uploads, RefreshRow(u) \/ DeleteFile(u) PROVE Inv'
    BY <2>6 DEF RefreshRow, DeleteFile
  <2>7. ASSUME NEW u \in Uploads, StatementFails(u) PROVE Inv'
    BY <2>7 DEF StatementFails, AfterFault
  <2> QED
    BY <2>1, <2>2, <2>3, <2>4, <2>5, <2>6, <2>7 DEF Next, Step
<1> QED
  BY <1>1, <1>2, UploadTypeCorrect, PTL DEF Spec

\* A client that was told its document was created has a row and the file,
\* whatever else fails (upload_document answers after both).
THEOREM CreatedIsStoredAlways == Spec => []CreatedIsStored
<1>1. UploadInv => CreatedIsStored
  BY DEF UploadInv, CreatedIsStored
<1> QED
  BY <1>1, UploadInvariant, PTL

\* No file is orphaned without a fault, and no whole file by a single failed
\* statement (the cleanup in upload_document).
THEOREM OrphanTakesFaultsAlways == Spec => []OrphanTakesFaults
  BY UploadInvariant, PTL
=============================================================================
