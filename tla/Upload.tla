------------------------------- MODULE Upload -------------------------------
(***************************************************************************)
(* POST /documents: the body is read up to a cap and validated, the file   *)
(* is stored under a key of its own, and then the documents row is         *)
(* committed.  A failure after the file was stored deletes the file again. *)
(*                                                                         *)
(* Keys are generated (uuid4), so that uploads share nothing but the       *)
(* processes that serve them: one that dies ends all of its requests.      *)
(***************************************************************************)
EXTENDS Naturals

CONSTANTS
  Uploads,   \* upload requests
  MaxSize,   \* settings.max_upload_size_mb
  MaxFaults  \* bound: failed statements and crashes

ASSUME UploadAssumption == MaxSize \in Nat /\ MaxFaults \in Nat

\* What a client sends: whether its filename is acceptable metadata and ends
\* in .pdf, how large the body is, whether it starts with %PDF-, and whether
\* the declared content type fits the column (nobody checks that it does).
Upload ==
  [ name : BOOLEAN, extension : BOOLEAN, size : 0..MaxSize + 1, magic : BOOLEAN,
    typeFits : BOOLEAN ]

VARIABLES
  sent,    \* what each client sends
  pc,      \* the next statement of each request, or how it ended
  file,    \* the file in storage under the request's key
  row,     \* the documents row naming that key is committed
  faults   \* failed statements and crashes so far

vars == <<sent, pc, file, row, faults>>

Ended == {"created", "refused", "failed", "crashed"}
UploadPC ==
  {"read", "validate", "save", "writing", "commit", "committed", "cleanup"} \cup Ended

\* The values each variable takes, whatever a client sends and wherever a
\* request is.
TypeOK ==
  /\ sent \in [Uploads -> Upload]
  /\ pc \in [Uploads -> UploadPC]
  /\ file \in [Uploads -> {"none", "partial", "complete"}]
  /\ row \in [Uploads -> BOOLEAN]
  /\ faults \in Nat

Init ==
  /\ sent \in [Uploads -> Upload]
  /\ pc = [u \in Uploads |-> "read"]
  /\ file = [u \in Uploads |-> "none"]
  /\ row = [u \in Uploads |-> FALSE]
  /\ faults = 0

Goto(u, p) == pc' = [pc EXCEPT ![u] = p]

Fault ==
  /\ faults < MaxFaults
  /\ faults' = faults + 1

\* _read_capped gives up as soon as more than the maximum was read.
WithinCap(s) == s <= MaxSize

ReadBody(u) ==
  /\ pc[u] = "read"
  /\ Goto(u, IF WithinCap(sent[u].size) THEN "validate" ELSE "refused")
  /\ UNCHANGED <<sent, file, row, faults>>

\* run_upload_validation; the declared content type is not looked at.
PassesValidation(s) ==
  s.name /\ s.extension /\ s.size \in 1..MaxSize /\ s.magic

Validate(u) ==
  /\ pc[u] = "validate"
  /\ Goto(u, IF PassesValidation(sent[u]) THEN "save" ELSE "refused")
  /\ UNCHANGED <<sent, file, row, faults>>

\* storage.save creates an empty file ...
OpenFile(u) ==
  /\ pc[u] = "save"
  /\ file' = [file EXCEPT ![u] = "partial"]
  /\ Goto(u, "writing")
  /\ UNCHANGED <<sent, row, faults>>

\* ... and writes the body.
WriteFile(u) ==
  /\ pc[u] = "writing"
  /\ file' = [file EXCEPT ![u] = "complete"]
  /\ Goto(u, "commit")
  /\ UNCHANGED <<sent, row, faults>>

\* Mutation of AfterFault: a failed commit is answered without a cleanup.
AfterFaultNoCleanup(p) ==
  CASE p \in {"save", "writing", "cleanup"} -> "failed"
    [] p \in {"commit", "committed"}        -> "failed"

\* Mutation of AfterFault: a storage error is logged and the upload goes on.
AfterFaultIgnored(p) ==
  CASE p \in {"save", "writing"}     -> "commit"
    [] p = "cleanup"                 -> "failed"
    [] p \in {"commit", "committed"} -> "cleanup"

\* Where a statement that raises leads to: a storage error is answered at
\* once, whatever the file is like; a database error rolls back and cleans up.
AfterFault(p) ==
  CASE p \in {"save", "writing", "cleanup"} -> "failed"
    [] p \in {"commit", "committed"}        -> "cleanup"

CommitRow(u) ==
  /\ pc[u] = "commit"
  /\ sent[u].typeFits
  /\ row' = [row EXCEPT ![u] = TRUE]
  /\ Goto(u, "committed")
  /\ UNCHANGED <<sent, file, faults>>

\* PostgreSQL refuses a value too long for its column.
RowRefused(u) ==
  /\ pc[u] = "commit"
  /\ ~sent[u].typeFits
  /\ Goto(u, AfterFault("commit"))
  /\ UNCHANGED <<sent, file, row, faults>>

\* db.refresh reads the committed row for the response.
RefreshRow(u) ==
  /\ pc[u] = "committed"
  /\ Goto(u, "created")
  /\ UNCHANGED <<sent, file, row, faults>>

\* The handler of a failed commit or refresh deletes the file.
DeleteFile(u) ==
  /\ pc[u] = "cleanup"
  /\ file' = [file EXCEPT ![u] = "none"]
  /\ Goto(u, "failed")
  /\ UNCHANGED <<sent, row, faults>>

StatementFails(u) ==
  /\ pc[u] \in {"save", "writing", "cleanup", "commit", "committed"}
  /\ Fault
  /\ Goto(u, AfterFault(pc[u]))
  /\ UNCHANGED <<sent, file, row>>

\* A process dies: the requests it serves end, files and rows stay.
Crash ==
  /\ \E served \in SUBSET {u \in Uploads : pc[u] \notin Ended} :
       /\ served # {}
       /\ pc' = [u \in Uploads |-> IF u \in served THEN "crashed" ELSE pc[u]]
  /\ Fault
  /\ UNCHANGED <<sent, file, row>>

Step(u) ==
  \/ ReadBody(u) \/ Validate(u) \/ OpenFile(u) \/ WriteFile(u)
  \/ CommitRow(u) \/ RowRefused(u) \/ RefreshRow(u) \/ DeleteFile(u)

Next == Crash \/ \E u \in Uploads : Step(u) \/ StatementFails(u)

Spec == Init /\ [][Next]_vars

----------------------------------------------------------------------------
\* A client that was told its document was created has a row and the whole
\* file, whatever failed before and in other requests.
CreatedIsStored ==
  \A u \in Uploads : pc[u] = "created" => row[u] /\ file[u] = "complete"

\* A request that is over leaves a file without a row only after a fault: a
\* crash, a torn write, or, if the whole file was stored, a failed cleanup on
\* top of what kept the row out.
OrphanTakesFaults ==
  \A u \in Uploads :
    pc[u] \in Ended /\ file[u] # "none" /\ ~row[u] =>
      faults >= IF pc[u] = "failed" /\ file[u] = "complete" /\ sent[u].typeFits
                THEN 2 ELSE 1

\* document_service.py cleans the file up "if this fails", "this" being to
\* persist the row: so a row that was persisted keeps its file.
RowKeepsItsFile == \A u \in Uploads : row[u] => file[u] = "complete"

\* What makes the two inductive: which file a request has at each statement,
\* and that a row is kept out by its content type or by a fault.
UploadInv ==
  \A u \in Uploads :
    /\ pc[u] \in {"read", "validate", "save", "refused"} => file[u] = "none"
    /\ pc[u] = "writing" => file[u] = "partial"
    /\ pc[u] \in {"commit", "committed", "created"} => file[u] = "complete"
    /\ pc[u] \in {"committed", "created"} => row[u]
    /\ pc[u] = "cleanup" /\ sent[u].typeFits /\ ~row[u] => faults >= 1
=============================================================================
