----------------------- MODULE DocumentLifecycleProofs -----------------------
(***************************************************************************)
(* Proofs about DocumentLifecycle, for every number of documents, users    *)
(* and workers and every bound.                                            *)
(***************************************************************************)
EXTENDS DocumentLifecycle, SequenceTheorems, TLAPS

----------------------------------------------------------------------------
(* Lemmas about the helpers the actions are built from.                    *)

\* A worker whose pc is not "idle" is serving a request.
LEMMA ServingSession ==
  ASSUME TypeOK, NEW w \in Workers, sess[w].pc # "idle"
  PROVE  sess[w] \in Session /\ Doc(w) \in Documents
BY DEF TypeOK, NoSession, Session, Doc

\* Goto moves one worker to a statement of its request or ends the request.
LEMMA GotoMoves ==
  ASSUME TypeOK, NEW w \in Workers, sess[w] \in Session,
         NEW p \in RequestPC \cup {"idle"}, Goto(w, p)
  PROVE  /\ sess' \in [Workers -> Session \cup {NoSession}]
         /\ \A v \in Workers : v # w => sess'[v] = sess[v]
         /\ p = "idle" => sess'[w] = NoSession
         /\ p # "idle" =>
              /\ sess'[w] \in Session
              /\ sess'[w] = [sess[w] EXCEPT !.pc = p]
BY DEF TypeOK, Goto, Session

\* Inserting a job keeps the table well formed.
LEMMA InsertJobTyped ==
  ASSUME TypeOK, NEW w \in Workers, Doc(w) \in Documents,
         NEW stage \in ProcessingStage, InsertJob(w, stage)
  PROVE  jobs' \in Seq(Job)
BY DEF TypeOK, InsertJob, Job

\* So does ending one, which changes the status of that job alone.
LEMMA EndJobTyped ==
  ASSUME TypeOK, NEW w \in Workers, NEW s \in {"RUNNING", "SUCCESS", "FAILED"},
         EndJob(w, s)
  PROVE  /\ jobs' \in Seq(Job)
         /\ DOMAIN jobs' = DOMAIN jobs
         /\ \A i \in DOMAIN jobs :
              jobs'[i] = IF i = sess[w].job THEN [jobs[i] EXCEPT !.status = s]
                                            ELSE jobs[i]
<1> DEFINE i == sess[w].job
           e == [jobs[i] EXCEPT !.status = s]
<1>1. jobs \in Seq(Job) /\ DOMAIN jobs = 1 .. Len(jobs)
  BY DEF TypeOK
<1>2. jobs' = [jobs EXCEPT ![i] = e]
  BY DEF EndJob
<1>3. CASE i \in 1 .. Len(jobs)
  <2>1. jobs[i] \in Job
    BY <1>1, <1>3, ElementOfSeq
  <2>2. e \in Job
    BY <2>1 DEF Job
  <2>3. jobs' \in Seq(Job)
    BY <1>1, <1>2, <1>3, <2>2, ExceptSeq
  <2> QED
    BY <1>1, <1>2, <2>3
<1>4. CASE i \notin 1 .. Len(jobs)
  <2>1. jobs' = jobs
    BY <1>1, <1>2, <1>4
  <2> QED
    BY <1>1, <1>4, <2>1
<1> QED
  BY <1>3, <1>4

\* The status written is the one asked for, or the row stays as it is.
LEMMA WriteStatusTyped ==
  ASSUME TypeOK, NEW w \in Workers, Doc(w) \in Documents,
         NEW s \in DocumentStatus, WriteStatus(w, s)
  PROVE  /\ status' \in [Documents -> DocumentStatus]
         /\ \A d \in Documents : status'[d] \in {status[d], s}
         /\ \A d \in Documents : d # Doc(w) => status'[d] = status[d]
BY DEF TypeOK, WriteStatus

\* A refresh, a stage's first commit and an accepted call change one session.
LEMMA SessionUpdateTyped ==
  ASSUME TypeOK, NEW w \in Workers, NEW s \in Session, sess' = [sess EXCEPT ![w] = s]
  PROVE  /\ sess' \in [Workers -> Session \cup {NoSession}]
         /\ sess'[w] = s
         /\ \A v \in Workers : v # w => sess'[v] = sess[v]
BY DEF TypeOK

----------------------------------------------------------------------------
(* Type correctness.                                                       *)

LEMMA TypeInit == Init => TypeOK
BY StoreAssumption, EmptySeq DEF Init, TypeOK, DocumentStatus, NoSession

USE DEF At

LEMMA TypeAccept ==
  ASSUME TypeOK, NEW w \in Workers, Accept(w)
  PROVE  TypeOK'
<1>1. PICK u \in Users, d \in Documents :
        \/ AcceptExtraction(w, u, d) \/ BeginEdit(w, u, d)
        \/ BeginApprove(w, u, d) \/ BeginReject(w, u, d)
  BY DEF Accept
<1> DEFINE New(p) ==
      [ pc |-> p, doc |-> d, user |-> u, loaded |-> status[d],
        job |-> 0, held |-> NoDraft ]
<1>2. PICK p \in {"start", "load_edit", "load_approve", "load_reject"} :
        /\ sess' = [sess EXCEPT ![w] = New(p)]
        /\ UNCHANGED <<rowVars, jobs, pdf, artifact, faults>>
  BY <1>1 DEF AcceptExtraction, BeginEdit, BeginApprove, BeginReject, BeginReview
<1>3. New(p) \in Session
  BY <1>1 DEF TypeOK, Session, RequestPC, ExtractionPC, ReviewPC
<1> HIDE DEF New
<1>4. sess' \in [Workers -> Session \cup {NoSession}]
  BY <1>2, <1>3, SessionUpdateTyped
<1> QED
  BY <1>2, <1>4 DEF TypeOK, rowVars

\* A statement that only moves its session keeps the types.
LEMMA TypeMove ==
  ASSUME TypeOK, NEW w \in Workers, sess[w].pc # "idle",
         NEW p \in RequestPC \cup {"idle"}, Goto(w, p),
         faults' \in Nat, UNCHANGED <<rowVars, jobs, pdf, artifact>>
  PROVE  TypeOK'
BY ServingSession, GotoMoves DEF TypeOK, rowVars

LEMMA TypeBeginStage ==
  ASSUME TypeOK, NEW w \in Workers, sess[w].pc # "idle",
         NEW stage \in ProcessingStage, NEW s \in DocumentStatus,
         NEW p \in RequestPC, BeginStage(w, stage, s, p)
  PROVE  TypeOK'
<1>1. sess[w] \in Session /\ Doc(w) \in Documents
  BY ServingSession
<1> DEFINE t == [[sess[w] EXCEPT !.pc = p] EXCEPT !.job = Len(jobs) + 1]
<1>2. t \in Session
  <2>1. Len(jobs) + 1 \in Nat
    BY DEF TypeOK
  <2> QED
    BY <1>1, <2>1 DEF Session
<1>3. sess' = [sess EXCEPT ![w] = t]
  BY <1>1 DEF BeginStage, TypeOK, Session
<1> HIDE DEF t
<1>4. sess' \in [Workers -> Session \cup {NoSession}]
  BY <1>2, <1>3, SessionUpdateTyped
<1>5. jobs' \in Seq(Job)
  BY <1>1, InsertJobTyped DEF BeginStage
<1>6. status' \in [Documents -> DocumentStatus]
  BY <1>1, WriteStatusTyped DEF BeginStage
<1> QED
  BY <1>4, <1>5, <1>6 DEF BeginStage, TypeOK

\* So does a statement that also reads the row again.
LEMMA TypeReload ==
  ASSUME TypeOK, NEW w \in Workers, sess[w].pc # "idle", NEW p \in RequestPC,
         sess' = [sess EXCEPT ![w].pc = p, ![w].loaded = status[Doc(w)]],
         UNCHANGED <<rowVars, jobs, pdf, artifact, faults>>
  PROVE  TypeOK'
<1>1. sess[w] \in Session /\ Doc(w) \in Documents
  BY ServingSession
<1> DEFINE t == [[sess[w] EXCEPT !.pc = p] EXCEPT !.loaded = status[Doc(w)]]
<1>2. t \in Session
  <2>1. status[Doc(w)] \in DocumentStatus
    BY <1>1 DEF TypeOK
  <2> QED
    BY <1>1, <2>1 DEF Session
<1>3. sess' = [sess EXCEPT ![w] = t]
  BY <1>1 DEF TypeOK, Session
<1> HIDE DEF t
<1>4. sess' \in [Workers -> Session \cup {NoSession}]
  BY <1>2, <1>3, SessionUpdateTyped
<1> QED
  BY <1>4 DEF TypeOK, rowVars

LEMMA TypeExtractionStep ==
  ASSUME TypeOK, NEW w \in Workers, ExtractionStep(w)
  PROVE  TypeOK'
<1> USE DEF RequestPC, ExtractionPC, AIPC, ValidationPC, FailurePC
<1>1. CASE StartTextExtraction(w)
  BY <1>1, TypeBeginStage DEF StartTextExtraction, ProcessingStage, DocumentStatus
<1>2. CASE Refresh(w)
  <2>1. sess[w].pc \in DOMAIN AfterRefresh /\ sess[w].pc # "idle"
    BY <1>2 DEF Refresh, AfterRefresh
  <2>2. AfterRefresh[sess[w].pc] \in RequestPC
    BY <2>1 DEF AfterRefresh
  <2>3. sess' = [sess EXCEPT ![w].pc = AfterRefresh[sess[w].pc],
                             ![w].loaded = status[Doc(w)]]
    BY <1>2 DEF Refresh, TypeOK
  <2> QED
    BY <1>2, <2>1, <2>2, <2>3, TypeReload DEF Refresh
<1>3. CASE ReadPdf(w)
  <2>1. pdf[Doc(w)] \in PdfKind
    BY <1>3, ServingSession DEF ReadPdf, TypeOK
  <2>2. NativeOutcome(pdf[Doc(w)]) \in RequestPC \cup {"idle"}
    BY <2>1 DEF NativeOutcome, PdfKind
  <2> QED
    BY <1>3, <2>2, TypeMove DEF ReadPdf, TypeOK
<1>4. CASE StartOcr(w)
  BY <1>4, TypeBeginStage DEF StartOcr, ProcessingStage, DocumentStatus
<1>5. CASE RunOcr(w)
  <2>1. PICK p \in OcrOutcomes(pdf[Doc(w)]) : Goto(w, p)
    BY <1>5 DEF RunOcr
  <2>2. p \in RequestPC \cup {"idle"}
    BY <2>1 DEF OcrOutcomes
  <2> QED
    BY <1>5, <2>1, <2>2, TypeMove DEF RunOcr, TypeOK
<1>6. CASE OpenTextFile(w)
  BY <1>6, ServingSession, GotoMoves DEF OpenTextFile, TypeOK, rowVars
<1>7. CASE WriteTextFile(w)
  BY <1>7, ServingSession, GotoMoves DEF WriteTextFile, TypeOK, rowVars
<1>8. CASE DeleteText(w)
  BY <1>8, ServingSession, GotoMoves DEF DeleteText, TypeOK, rowVars
<1>9. CASE CommitText(w)
  BY <1>9, ServingSession, GotoMoves, WriteStatusTyped, EndJobTyped
     DEF CommitText, TypeOK, DocumentStatus
<1>10. CASE CommitOcrRequired(w)
  BY <1>10, ServingSession, GotoMoves, WriteStatusTyped, EndJobTyped
     DEF CommitOcrRequired, TypeOK, DocumentStatus
<1> QED
  BY <1>1, <1>2, <1>3, <1>4, <1>5, <1>6, <1>7, <1>8, <1>9, <1>10 DEF ExtractionStep

LEMMA TypeAIStep ==
  ASSUME TypeOK, NEW w \in Workers, AIStep(w)
  PROVE  TypeOK'
<1> USE DEF RequestPC, ExtractionPC, AIPC, ValidationPC, FailurePC
<1>1. CASE StopAfterText(w)
  BY <1>1, TypeMove DEF StopAfterText, TypeOK
<1>2. CASE QueryDraft(w)
  <2>1. AfterDraftQuery(w) \in RequestPC
    BY DEF AfterDraftQuery
  <2> QED
    BY <1>2, <2>1, TypeMove DEF QueryDraft, TypeOK
<1>3. CASE StartAiExtraction(w)
  BY <1>3, TypeBeginStage DEF StartAiExtraction, ProcessingStage, DocumentStatus
<1>4. CASE ReadText(w)
  <2>1. PICK p \in TextReadOutcomes(Doc(w)) : Goto(w, p)
    BY <1>4 DEF ReadText
  <2>2. p \in RequestPC
    BY <2>1 DEF TextReadOutcomes
  <2> QED
    BY <1>4, <2>1, <2>2, TypeMove DEF ReadText, TypeOK
<1>5. CASE AiAnswers(w)
  <2>1. PICK c \in Contents :
          sess' = [sess EXCEPT ![w].pc = "persist", ![w].held = c]
    BY <1>5 DEF AiAnswers
  <2>2. sess[w] \in Session
    BY <1>5, ServingSession DEF AiAnswers
  <2> DEFINE t == [[sess[w] EXCEPT !.pc = "persist"] EXCEPT !.held = c]
  <2>3. t \in Session
    BY <2>2 DEF Session
  <2>4. sess' = [sess EXCEPT ![w] = t]
    BY <2>1, <2>2 DEF TypeOK, Session
  <2> HIDE DEF t
  <2>5. sess' \in [Workers -> Session \cup {NoSession}]
    BY <2>3, <2>4, SessionUpdateTyped
  <2> QED
    BY <1>5, <2>5 DEF AiAnswers, TypeOK, rowVars
<1>6. CASE AiFails(w)
  BY <1>6, TypeMove DEF AiFails, TypeOK
<1>7. CASE PersistDraft(w)
  <2>1. sess[w] \in Session /\ Doc(w) \in Documents
    BY <1>7, ServingSession DEF PersistDraft
  <2> DEFINE t == [[sess[w] EXCEPT !.pc = "draft_committed"] EXCEPT !.held = NoDraft]
  <2>2. t \in Session
    BY <2>1 DEF Session
  <2>3. sess' = [sess EXCEPT ![w] = t]
    BY <1>7, <2>1 DEF PersistDraft, TypeOK, Session
  <2> HIDE DEF t
  <2>4. sess' \in [Workers -> Session \cup {NoSession}]
    BY <2>2, <2>3, SessionUpdateTyped
  <2>5. draft' \in [Documents -> Contents \cup {NoDraft}]
    BY <1>7, <2>1 DEF PersistDraft, TypeOK, Session
  <2> QED
    BY <1>7, <2>1, <2>4, <2>5, WriteStatusTyped, EndJobTyped
       DEF PersistDraft, TypeOK, DocumentStatus
<1>8. CASE DraftRefused(w)
  BY <1>8, TypeMove DEF DraftRefused, TypeOK
<1>9. CASE StartValidation(w)
  <2>1. sess[w] \in Session /\ Doc(w) \in Documents
    BY <1>9, ServingSession DEF StartValidation
  <2> DEFINE t == [[sess[w] EXCEPT !.pc = "validation_started"] EXCEPT !.job = Len(jobs) + 1]
  <2>2. t \in Session
    <3>1. Len(jobs) + 1 \in Nat
      BY DEF TypeOK
    <3> QED
      BY <2>1, <3>1 DEF Session
  <2>3. sess' = [sess EXCEPT ![w] = t]
    BY <1>9, <2>1 DEF StartValidation, TypeOK, Session
  <2> HIDE DEF t
  <2>4. sess' \in [Workers -> Session \cup {NoSession}]
    BY <2>2, <2>3, SessionUpdateTyped
  <2>5. jobs' \in Seq(Job)
    BY <1>9, <2>1, InsertJobTyped DEF StartValidation, ProcessingStage
  <2> QED
    BY <1>9, <2>4, <2>5 DEF StartValidation, TypeOK, rowVars
<1>10. CASE LoadDraft(w)
  BY <1>10, TypeReload DEF LoadDraft
<1>11. CASE Validate(w)
  BY <1>11, TypeMove DEF Validate, TypeOK
<1>12. CASE CommitReviewRequired(w)
  BY <1>12, ServingSession, GotoMoves, WriteStatusTyped, EndJobTyped
     DEF CommitReviewRequired, TypeOK, DocumentStatus
<1> QED
  BY <1>1, <1>2, <1>3, <1>4, <1>5, <1>6, <1>7, <1>8, <1>9, <1>10, <1>11, <1>12
     DEF AIStep

LEMMA TypeReviewStep ==
  ASSUME TypeOK, NEW w \in Workers, ReviewStep(w)
  PROVE  TypeOK'
<1> USE DEF RequestPC, ReviewPC
<1>1. CASE LoadInvoice(w)
  <2>1. AfterLoad(sess[w].pc, draft[Doc(w)]) \in RequestPC \cup {"idle"}
    BY <1>1 DEF LoadInvoice, AfterLoad
  <2> QED
    BY <1>1, <2>1, TypeMove DEF LoadInvoice, TypeOK
<1>2. CASE CommitEdit(w)
  BY <1>2, ServingSession, GotoMoves DEF CommitEdit, TypeOK
<1>3. CASE CommitApproval(w)
  <2>1. sess[w].user \in Users
    BY <1>3, ServingSession DEF CommitApproval, Session
  <2> QED
    BY <1>3, <2>1, ServingSession, GotoMoves, WriteStatusTyped
       DEF CommitApproval, TypeOK, DocumentStatus
<1>4. CASE CommitRejection(w)
  <2>1. sess[w].user \in Users
    BY <1>4, ServingSession DEF CommitRejection, Session
  <2> QED
    BY <1>4, <2>1, ServingSession, GotoMoves, WriteStatusTyped
       DEF CommitRejection, TypeOK, DocumentStatus
<1>5. CASE ReviewAborts(w)
  BY <1>5, TypeMove DEF ReviewAborts, TypeOK
<1> QED
  BY <1>1, <1>2, <1>3, <1>4, <1>5 DEF ReviewStep

LEMMA TypeFailureStep ==
  ASSUME TypeOK, NEW w \in Workers, FailureStep(w) \/ Respond(w)
  PROVE  TypeOK'
<1> USE DEF RequestPC, ExtractionPC, FailurePC
<1>1. CASE ReloadAfterRollback(w)
  BY <1>1, TypeReload DEF ReloadAfterRollback
<1>2. CASE MarkFailed(w)
  BY <1>2, ServingSession, GotoMoves, WriteStatusTyped, EndJobTyped
     DEF MarkFailed, TypeOK, DocumentStatus
<1>3. CASE Respond(w)
  BY <1>3, TypeMove DEF Respond, TypeOK
<1> QED
  BY <1>1, <1>2, <1>3 DEF FailureStep

LEMMA TypeInterrupt ==
  ASSUME TypeOK, NEW w \in Workers, Interrupt(w)
  PROVE  TypeOK'
<1>1. faults' \in Nat /\ UNCHANGED <<rowVars, jobs, pdf, artifact>>
  BY DEF Interrupt, ExtractionStatementFails, AIStatementFails,
         FailureNotRecorded, Crash, Fault, TypeOK
<1>2. sess[w].pc # "idle"
  BY DEF Interrupt, ExtractionStatementFails, AIStatementFails, FailureNotRecorded,
         Crash, TypeOK, Session, ExtractionPC, AIPC, ValidationPC, FailurePC,
         ReviewPC, RequestPC
<1>3. PICK p \in RequestPC \cup {"idle"} : Goto(w, p)
  <2>1. ExtractionFailure(sess[w].pc) \cup AIFailure(sess[w].pc) \subseteq RequestPC \cup {"idle"}
    BY DEF ExtractionFailure, AIFailure, RequestPC, FailurePC
  <2> QED
    BY <2>1 DEF Interrupt, ExtractionStatementFails, AIStatementFails,
                FailureNotRecorded, Crash
<1> QED
  BY <1>1, <1>2, <1>3, TypeMove

\* Every state of every behaviour is well typed.
THEOREM TypeCorrect == Spec => []TypeOK
<1>1. TypeOK /\ [Next]_vars => TypeOK'
  <2> SUFFICES ASSUME TypeOK, [Next]_vars PROVE TypeOK'
    OBVIOUS
  <2>1. CASE Next
    BY <2>1, TypeAccept, TypeExtractionStep, TypeAIStep, TypeReviewStep,
       TypeFailureStep, TypeInterrupt DEF Next, Step
  <2>2. CASE UNCHANGED vars
    BY <2>2 DEF vars, TypeOK
  <2> QED
    BY <2>1, <2>2
<1> QED
  BY TypeInit, <1>1, PTL DEF Spec

----------------------------------------------------------------------------
(* A step of one worker leaves the sessions of the others alone, and moves *)
(* its own to a known statement.                                           *)

LEMMA OthersUnchanged ==
  ASSUME TypeOK, NEW w \in Workers, Accept(w) \/ Step(w) \/ Interrupt(w)
  PROVE  \A v \in Workers : v # w => sess'[v] = sess[v]
<1>1. CASE Accept(w)
  BY <1>1 DEF Accept, AcceptExtraction, BeginEdit, BeginApprove, BeginReject,
              BeginReview, TypeOK
<1>2. CASE ExtractionStep(w)
  BY <1>2 DEF ExtractionStep, StartTextExtraction, Refresh, ReadPdf, StartOcr, RunOcr,
              OpenTextFile, WriteTextFile, DeleteText, CommitText, CommitOcrRequired,
              BeginStage, Goto, TypeOK
<1>3. CASE AIStep(w)
  BY <1>3 DEF AIStep, StopAfterText, QueryDraft, StartAiExtraction, ReadText, AiAnswers,
              AiFails, PersistDraft, DraftRefused, StartValidation, LoadDraft, Validate,
              CommitReviewRequired, BeginStage, Goto, TypeOK
<1>4. CASE ReviewStep(w)
  BY <1>4 DEF ReviewStep, LoadInvoice, CommitEdit, CommitApproval, CommitRejection,
              ReviewAborts, Goto, TypeOK
<1>5. CASE FailureStep(w) \/ Respond(w)
  BY <1>5 DEF FailureStep, ReloadAfterRollback, MarkFailed, Respond, Goto, TypeOK
<1>6. CASE Interrupt(w)
  BY <1>6 DEF Interrupt, ExtractionStatementFails, AIStatementFails, FailureNotRecorded,
              Crash, Goto, TypeOK
<1> QED
  BY <1>1, <1>2, <1>3, <1>4, <1>5, <1>6 DEF Step

\* Goto changes nothing of a session but its statement.
LEMMA GotoKeeps ==
  ASSUME TypeOK, NEW w \in Workers, sess[w].pc # "idle",
         NEW p \in RequestPC \cup {"idle"}, Goto(w, p)
  PROVE  /\ sess'[w].pc = p
         /\ p = "idle" => sess'[w] = NoSession
         /\ p # "idle" => /\ sess'[w].doc = Doc(w)
                          /\ sess'[w].user = sess[w].user
                          /\ sess'[w].loaded = sess[w].loaded
                          /\ sess'[w].job = sess[w].job
                          /\ sess'[w].held = sess[w].held
<1>1. sess[w] \in Session
  BY ServingSession
<1>2. CASE p = "idle"
  <2>1. sess'[w] = NoSession
    BY <1>1, <1>2, GotoMoves
  <2> QED
    BY <1>2, <2>1 DEF NoSession
<1>3. CASE p # "idle"
  <2>1. sess'[w] = [sess[w] EXCEPT !.pc = p]
    BY <1>1, <1>3, GotoMoves
  <2> QED
    BY <1>1, <1>3, <2>1 DEF Session, Doc
<1> QED
  BY <1>2, <1>3

----------------------------------------------------------------------------
(* A document under review, approved or rejected has its invoice.          *)

Reviewable == {"VALIDATING_RESULT", "REVIEW_REQUIRED", "APPROVED", "REJECTED"}

\* What a step of w must guarantee to preserve DraftInv.
LEMMA DraftFrame ==
  ASSUME TypeOK, DraftInv, NEW w \in Workers,
         \A v \in Workers : v # w => sess'[v] = sess[v],
         \A d \in Documents : draft[d] # NoDraft => draft'[d] # NoDraft,
         \A d \in Documents :
           status'[d] # status[d] /\ status'[d] \in Reviewable => draft'[d] # NoDraft,
         sess'[w].pc \in DraftPC => draft'[sess'[w].doc] # NoDraft,
         sess'[w].pc = "persist" => sess'[w].held \in Contents
  PROVE  DraftInv'
<1>1. ReviewableHasDraft'
  BY DEF DraftInv, ReviewableHasDraft, Reviewable
<1>2. ASSUME NEW v \in Workers
      PROVE  /\ sess'[v].pc \in DraftPC => draft'[sess'[v].doc] # NoDraft
             /\ sess'[v].pc = "persist" => sess'[v].held \in Contents
  <2>1. CASE v = w
    BY <2>1
  <2>2. CASE v # w
    <3>1. sess'[v] = sess[v]
      BY <2>2
    <3>2. sess[v].pc \in DraftPC => Doc(v) \in Documents
      BY ServingSession DEF DraftPC
    <3> QED
      BY <3>1, <3>2 DEF DraftInv, Doc
  <2> QED
    BY <2>1, <2>2
<1> QED
  BY <1>1, <1>2 DEF DraftInv, Doc

\* A statement that moves its session to p and leaves draft and status alone.
LEMMA DraftMove ==
  ASSUME TypeOK, DraftInv, NEW w \in Workers, sess[w].pc # "idle",
         NEW p \in RequestPC \cup {"idle"}, sess'[w].pc = p,
         sess'[w].pc # "idle" => sess'[w].doc = Doc(w),
         \A v \in Workers : v # w => sess'[v] = sess[v],
         p \in DraftPC => draft[Doc(w)] # NoDraft,
         p # "persist",
         draft' = draft,
         \A d \in Documents : status'[d] # status[d] => status'[d] \notin Reviewable
  PROVE  DraftInv'
BY DraftFrame DEF DraftPC

LEMMA DraftBeginStage ==
  ASSUME TypeOK, DraftInv, NEW w \in Workers, sess[w].pc # "idle",
         NEW stage, NEW s \in DocumentStatus \ Reviewable, NEW p \in RequestPC \ DraftPC,
         p # "persist", BeginStage(w, stage, s, p)
  PROVE  DraftInv'
<1>1. sess[w] \in Session /\ Doc(w) \in Documents
  BY ServingSession
<1>2. sess'[w].pc = p /\ sess'[w].doc = Doc(w)
  BY <1>1 DEF BeginStage, TypeOK, Session, Doc
<1>3. \A v \in Workers : v # w => sess'[v] = sess[v]
  BY DEF BeginStage, TypeOK
<1>4. \A d \in Documents : status'[d] \in {status[d], s}
  BY <1>1, WriteStatusTyped DEF BeginStage
<1> QED
  BY <1>1, <1>2, <1>3, <1>4, DraftMove DEF BeginStage

LEMMA DraftGoto ==
  ASSUME TypeOK, DraftInv, NEW w \in Workers, sess[w].pc # "idle",
         NEW p \in (RequestPC \cup {"idle"}) \ {"persist"}, Goto(w, p),
         p \in DraftPC => draft[Doc(w)] # NoDraft,
         draft' = draft,
         \A d \in Documents : status'[d] # status[d] => status'[d] \notin Reviewable
  PROVE  DraftInv'
<1>1. p \in RequestPC \cup {"idle"} /\ p # "persist"
  OBVIOUS
<1>2. sess'[w].pc = p /\ (p # "idle" => sess'[w].doc = Doc(w))
  BY <1>1, GotoKeeps
<1>3. \A v \in Workers : v # w => sess'[v] = sess[v]
  BY <1>1, ServingSession, GotoMoves
<1> QED
  BY <1>1, <1>2, <1>3, DraftMove

\* A failure is recorded with a status that promises no invoice.
LEMMA WriteOtherStatus ==
  ASSUME TypeOK, NEW w \in Workers, sess[w].pc # "idle",
         NEW s \in DocumentStatus \ Reviewable, WriteStatus(w, s)
  PROVE  \A d \in Documents : status'[d] # status[d] => status'[d] \notin Reviewable
BY ServingSession, WriteStatusTyped

LEMMA DraftAccept ==
  ASSUME TypeOK, DraftInv, NEW w \in Workers, Accept(w)
  PROVE  DraftInv'
<1>1. /\ sess'[w].pc \in {"start", "load_edit", "load_approve", "load_reject"}
      /\ UNCHANGED <<status, draft>>
  BY DEF Accept, AcceptExtraction, BeginEdit, BeginApprove, BeginReject, BeginReview,
         rowVars, TypeOK
<1> QED
  BY <1>1, OthersUnchanged, DraftFrame DEF DraftPC

LEMMA DraftExtractionStep ==
  ASSUME TypeOK, DraftInv, NEW w \in Workers, ExtractionStep(w)
  PROVE  DraftInv'
<1> USE DEF RequestPC, ExtractionPC, AIPC, ValidationPC, FailurePC, DraftPC,
            DocumentStatus, Reviewable
<1>1. CASE StartTextExtraction(w)
  BY <1>1, DraftBeginStage DEF StartTextExtraction
<1>2. CASE Refresh(w)
  <2>1. sess[w].pc \in DOMAIN AfterRefresh /\ sess[w].pc # "idle"
    BY <1>2 DEF Refresh, AfterRefresh
  <2>2. sess[w] \in Session
    BY <2>1, ServingSession
  <2>3. sess'[w].pc = AfterRefresh[sess[w].pc] /\ sess'[w].doc = Doc(w)
    BY <1>2, <2>2 DEF Refresh, TypeOK, Session, Doc
  <2>4. sess'[w].pc \in DraftPC => sess[w].pc \in DraftPC
    BY <2>1, <2>3 DEF AfterRefresh
  <2>5. sess'[w].pc \in RequestPC \ {"persist"}
    BY <2>1, <2>3 DEF AfterRefresh
  <2> QED
    BY <1>2, <2>1, <2>3, <2>4, <2>5, OthersUnchanged, DraftMove
       DEF Refresh, DraftInv, Step, rowVars
<1>3. CASE ReadPdf(w)
  <2>1. pdf[Doc(w)] \in PdfKind
    BY <1>3, ServingSession DEF ReadPdf, TypeOK
  <2>2. NativeOutcome(pdf[Doc(w)]) \in {"save_text", "commit_ocr_required", "mark_failed", "idle"}
    BY <2>1 DEF NativeOutcome, PdfKind
  <2> QED
    BY <1>3, <2>2, DraftGoto DEF ReadPdf, rowVars
<1>4. CASE StartOcr(w)
  BY <1>4, DraftBeginStage DEF StartOcr
<1>5. CASE RunOcr(w)
  <2>1. PICK p \in {"save_text", "mark_failed"} : Goto(w, p)
    BY <1>5 DEF RunOcr, OcrOutcomes
  <2> QED
    BY <1>5, <2>1, DraftGoto DEF RunOcr, rowVars
<1>6. CASE OpenTextFile(w)
  BY <1>6, DraftGoto DEF OpenTextFile, rowVars
<1>7. CASE WriteTextFile(w)
  BY <1>7, DraftGoto DEF WriteTextFile, rowVars
<1>8. CASE DeleteText(w)
  BY <1>8, DraftGoto DEF DeleteText, rowVars
<1>9. CASE CommitText(w)
  BY <1>9, WriteOtherStatus, DraftGoto DEF CommitText
<1>10. CASE CommitOcrRequired(w)
  BY <1>10, WriteOtherStatus, DraftGoto DEF CommitOcrRequired
<1> QED
  BY <1>1, <1>2, <1>3, <1>4, <1>5, <1>6, <1>7, <1>8, <1>9, <1>10 DEF ExtractionStep

LEMMA DraftAIStep ==
  ASSUME TypeOK, DraftInv, NEW w \in Workers, AIStep(w)
  PROVE  DraftInv'
<1> USE DEF RequestPC, ExtractionPC, AIPC, ValidationPC, FailurePC, DraftPC,
            DocumentStatus, Reviewable
<1>1. CASE StopAfterText(w)
  BY <1>1, DraftGoto DEF StopAfterText, rowVars
<1>2. CASE QueryDraft(w)
  <2>1. /\ AfterDraftQuery(w) \in {"start_ai", "start_validation", "respond"}
        /\ AfterDraftQuery(w) = "start_validation" => draft[Doc(w)] # NoDraft
    BY DEF AfterDraftQuery
  <2> QED
    BY <1>2, <2>1, DraftGoto DEF QueryDraft, rowVars
<1>3. CASE StartAiExtraction(w)
  BY <1>3, DraftBeginStage DEF StartAiExtraction
<1>4. CASE ReadText(w)
  <2>1. PICK p \in {"call_ai", "mark_failed"} : Goto(w, p)
    BY <1>4 DEF ReadText, TextReadOutcomes
  <2> QED
    BY <1>4, <2>1, DraftGoto DEF ReadText, rowVars
<1>5. CASE AiAnswers(w)
  <2>1. sess[w] \in Session
    BY <1>5, ServingSession DEF AiAnswers
  <2>2. sess'[w].pc = "persist" /\ sess'[w].held \in Contents
    BY <1>5, <2>1 DEF AiAnswers, TypeOK, Session
  <2> QED
    BY <1>5, <2>2, OthersUnchanged, DraftFrame DEF AiAnswers, Step, rowVars
<1>6. CASE AiFails(w)
  BY <1>6, DraftGoto DEF AiFails, rowVars
<1>7. CASE PersistDraft(w)
  <2>1. sess[w] \in Session /\ Doc(w) \in Documents
    BY <1>7, ServingSession DEF PersistDraft
  <2>2. sess[w].held \in Contents
    BY <1>7 DEF PersistDraft, DraftInv
  <2>3. draft'[Doc(w)] # NoDraft
    BY <1>7, <2>1, <2>2, StoreAssumption DEF PersistDraft, TypeOK
  <2>4. \A d \in Documents : draft[d] # NoDraft => draft'[d] # NoDraft
    BY <1>7, <2>1, <2>3 DEF PersistDraft, TypeOK
  <2>5. sess'[w].pc = "draft_committed" /\ sess'[w].doc = Doc(w)
    BY <1>7, <2>1 DEF PersistDraft, TypeOK, Session, Doc
  <2>6. \A d \in Documents : d # Doc(w) => status'[d] = status[d]
    BY <1>7, <2>1, WriteStatusTyped DEF PersistDraft
  <2> QED
    BY <1>7, <2>1, <2>3, <2>4, <2>5, <2>6, OthersUnchanged, DraftFrame DEF Step
<1>8. CASE DraftRefused(w)
  BY <1>8, DraftGoto DEF DraftRefused, rowVars
<1>9. CASE StartValidation(w)
  <2>1. sess[w] \in Session /\ sess[w].pc \in DraftPC
    BY <1>9, ServingSession DEF StartValidation
  <2>2. sess'[w].pc = "validation_started" /\ sess'[w].doc = Doc(w)
    BY <1>9, <2>1 DEF StartValidation, TypeOK, Session, Doc
  <2> QED
    BY <1>9, <2>1, <2>2, OthersUnchanged, DraftMove
       DEF StartValidation, DraftInv, Step, rowVars
<1>10. CASE LoadDraft(w)
  <2>1. sess[w] \in Session /\ sess[w].pc \in DraftPC
    BY <1>10, ServingSession DEF LoadDraft
  <2>2. sess'[w].pc \in {"mark_failed", "validate"} /\ sess'[w].doc = Doc(w)
    BY <1>10, <2>1 DEF LoadDraft, TypeOK, Session, Doc
  <2> QED
    BY <1>10, <2>1, <2>2, OthersUnchanged, DraftMove
       DEF LoadDraft, DraftInv, Step, rowVars
<1>11. CASE Validate(w)
  BY <1>11, DraftGoto DEF Validate, DraftInv, rowVars
<1>12. CASE CommitReviewRequired(w)
  <2>1. sess[w] \in Session /\ Doc(w) \in Documents /\ draft[Doc(w)] # NoDraft
    BY <1>12, ServingSession DEF CommitReviewRequired, DraftInv
  <2>2. sess'[w].pc = "review_committed" /\ sess'[w].doc = Doc(w)
    BY <1>12, GotoKeeps DEF CommitReviewRequired
  <2>3. \A d \in Documents : d # Doc(w) => status'[d] = status[d]
    BY <1>12, <2>1, WriteStatusTyped DEF CommitReviewRequired
  <2> QED
    BY <1>12, <2>1, <2>2, <2>3, OthersUnchanged, DraftFrame DEF CommitReviewRequired, Step
<1> QED
  BY <1>1, <1>2, <1>3, <1>4, <1>5, <1>6, <1>7, <1>8, <1>9, <1>10, <1>11, <1>12
     DEF AIStep

LEMMA DraftReviewStep ==
  ASSUME TypeOK, DraftInv, NEW w \in Workers, ReviewStep(w)
  PROVE  DraftInv'
<1> USE DEF RequestPC, ReviewPC, DraftPC
<1>1. CASE LoadInvoice(w)
  <2>1. /\ AfterLoad(sess[w].pc, draft[Doc(w)])
             \in {"idle", "commit_edit", "commit_reject", "commit_approve"}
        /\ AfterLoad(sess[w].pc, draft[Doc(w)]) \in DraftPC => draft[Doc(w)] # NoDraft
    BY <1>1 DEF LoadInvoice, AfterLoad
  <2> QED
    BY <1>1, <2>1, DraftGoto DEF LoadInvoice, rowVars
<1>2. CASE CommitEdit(w)
  <2>1. sess'[w].pc = "idle"
    BY <1>2, GotoKeeps DEF CommitEdit
  <2>2. \A d \in Documents : draft[d] # NoDraft => draft'[d] # NoDraft
    BY <1>2, StoreAssumption DEF CommitEdit, TypeOK
  <2> QED
    BY <1>2, <2>1, <2>2, OthersUnchanged, DraftFrame DEF CommitEdit, Step
<1>3. CASE CommitApproval(w) \/ CommitRejection(w)
  <2>1. Doc(w) \in Documents /\ draft[Doc(w)] # NoDraft
    BY <1>3, ServingSession DEF CommitApproval, CommitRejection, DraftInv
  <2>2. sess'[w].pc = "idle"
    BY <1>3, GotoKeeps DEF CommitApproval, CommitRejection
  <2>3. \A d \in Documents : d # Doc(w) => status'[d] = status[d]
    BY <1>3, <2>1, WriteStatusTyped DEF CommitApproval, CommitRejection, DocumentStatus
  <2> QED
    BY <1>3, <2>1, <2>2, <2>3, OthersUnchanged, DraftFrame
       DEF CommitApproval, CommitRejection, Step
<1>4. CASE ReviewAborts(w)
  BY <1>4, DraftGoto DEF ReviewAborts, rowVars
<1> QED
  BY <1>1, <1>2, <1>3, <1>4 DEF ReviewStep

LEMMA DraftFailureStep ==
  ASSUME TypeOK, DraftInv, NEW w \in Workers, FailureStep(w) \/ Respond(w)
  PROVE  DraftInv'
<1> USE DEF RequestPC, ExtractionPC, FailurePC, DraftPC, DocumentStatus, Reviewable
<1>1. CASE ReloadAfterRollback(w)
  <2>1. sess[w] \in Session
    BY <1>1, ServingSession DEF ReloadAfterRollback
  <2>2. sess'[w].pc \in {"delete_text", "mark_failed"} /\ sess'[w].doc = Doc(w)
    BY <1>1, <2>1 DEF ReloadAfterRollback, TypeOK, Session, Doc
  <2> QED
    BY <1>1, <2>2, OthersUnchanged, DraftMove DEF ReloadAfterRollback, Step, rowVars
<1>2. CASE MarkFailed(w)
  BY <1>2, WriteOtherStatus, DraftGoto DEF MarkFailed
<1>3. CASE Respond(w)
  BY <1>3, DraftGoto DEF Respond, rowVars
<1> QED
  BY <1>1, <1>2, <1>3 DEF FailureStep

\* Where a fault can send a request.
LEMMA InterruptGoto ==
  ASSUME TypeOK, NEW w \in Workers, Interrupt(w)
  PROVE  /\ sess[w].pc # "idle"
         /\ \E p \in FailurePC \cup {"idle"} : Goto(w, p)
         /\ UNCHANGED <<status, textKey, draft, approvedBy, rejectedBy, jobs, pdf, artifact>>
<1>1. sess[w].pc # "idle"
  BY DEF Interrupt, ExtractionStatementFails, AIStatementFails, FailureNotRecorded,
         Crash, TypeOK, Session, ExtractionPC, AIPC, ValidationPC, FailurePC,
         ReviewPC, RequestPC
<1>2. ExtractionFailure(sess[w].pc) \cup AIFailure(sess[w].pc) \subseteq FailurePC \cup {"idle"}
  BY DEF ExtractionFailure, AIFailure, FailurePC
<1> QED
  BY <1>1, <1>2 DEF Interrupt, ExtractionStatementFails, AIStatementFails,
                    FailureNotRecorded, Crash, rowVars

LEMMA DraftInterrupt ==
  ASSUME TypeOK, DraftInv, NEW w \in Workers, Interrupt(w)
  PROVE  DraftInv'
<1>1. PICK p \in FailurePC \cup {"idle"} : Goto(w, p)
  BY InterruptGoto
<1>2. p \in (RequestPC \cup {"idle"}) \ {"persist"} /\ p \notin DraftPC
  BY DEF RequestPC, FailurePC, DraftPC
<1> QED
  BY <1>1, <1>2, InterruptGoto, DraftGoto

\* DraftInv, the strengthening of ReviewableHasDraft, is inductive.
LEMMA DraftInvAlways == Spec => []DraftInv
<1>1. Init => DraftInv
  BY DEF Init, DraftInv, ReviewableHasDraft, NoSession, DraftPC
<1>2. TypeOK /\ DraftInv /\ [Next]_vars => DraftInv'
  <2> SUFFICES ASSUME TypeOK, DraftInv, [Next]_vars PROVE DraftInv'
    OBVIOUS
  <2>1. CASE Next
    BY <2>1, DraftAccept, DraftExtractionStep, DraftAIStep, DraftReviewStep,
       DraftFailureStep, DraftInterrupt DEF Next, Step
  <2>2. CASE UNCHANGED vars
    BY <2>2 DEF vars, DraftInv, ReviewableHasDraft, Doc
  <2> QED
    BY <2>1, <2>2
<1> QED
  BY TypeCorrect, <1>1, <1>2, PTL DEF Spec

\* Whatever fails and however calls of any number of workers overlap, a
\* document under review, approved or rejected has its invoice row.
THEOREM ReviewableHasDraftAlways == Spec => []ReviewableHasDraft
<1>1. DraftInv => ReviewableHasDraft
  BY DEF DraftInv
<1> QED
  BY DraftInvAlways, <1>1, PTL

----------------------------------------------------------------------------
(* Decisions.                                                              *)

\* Only the two commits of the review service decide: every other statement
\* leaves the decision columns alone and writes no deciding status.
UndecidingStep ==
  /\ UNCHANGED <<approvedBy, rejectedBy>>
  /\ \A d \in Documents :
       status'[d] # status[d] => status'[d] \notin {"APPROVED", "REJECTED"}

LEMMA WriteUndeciding ==
  ASSUME TypeOK, NEW w \in Workers, sess[w].pc # "idle",
         NEW s \in DocumentStatus \ {"APPROVED", "REJECTED"}, WriteStatus(w, s),
         UNCHANGED <<approvedBy, rejectedBy>>
  PROVE  UndecidingStep
BY ServingSession, WriteStatusTyped DEF UndecidingStep

LEMMA DecidingSteps ==
  ASSUME TypeOK, NEW w \in Workers, Accept(w) \/ Step(w) \/ Interrupt(w)
  PROVE  UndecidingStep \/ CommitApproval(w) \/ CommitRejection(w)
<1> USE DEF DocumentStatus
<1>1. CASE Accept(w)
  BY <1>1 DEF Accept, AcceptExtraction, BeginEdit, BeginApprove, BeginReject,
              BeginReview, UndecidingStep, rowVars
<1>2. CASE ExtractionStep(w)
  <2>1. CASE StartTextExtraction(w) \/ StartOcr(w)
    BY <2>1, WriteUndeciding DEF StartTextExtraction, StartOcr, BeginStage
  <2>2. CASE CommitText(w) \/ CommitOcrRequired(w)
    BY <2>2, WriteUndeciding DEF CommitText, CommitOcrRequired
  <2>3. CASE \/ Refresh(w) \/ ReadPdf(w) \/ RunOcr(w) \/ OpenTextFile(w)
             \/ WriteTextFile(w) \/ DeleteText(w)
    BY <2>3 DEF Refresh, ReadPdf, RunOcr, OpenTextFile, WriteTextFile, DeleteText,
                UndecidingStep, rowVars
  <2> QED
    BY <1>2, <2>1, <2>2, <2>3 DEF ExtractionStep
<1>3. CASE AIStep(w)
  <2>1. CASE StartAiExtraction(w)
    BY <2>1, WriteUndeciding DEF StartAiExtraction, BeginStage
  <2>2. CASE PersistDraft(w) \/ CommitReviewRequired(w)
    BY <2>2, WriteUndeciding DEF PersistDraft, CommitReviewRequired
  <2>3. CASE \/ StopAfterText(w) \/ QueryDraft(w) \/ ReadText(w) \/ AiAnswers(w)
             \/ AiFails(w) \/ DraftRefused(w) \/ StartValidation(w) \/ LoadDraft(w)
             \/ Validate(w)
    BY <2>3 DEF StopAfterText, QueryDraft, ReadText, AiAnswers, AiFails, DraftRefused,
                StartValidation, LoadDraft, Validate, UndecidingStep, rowVars
  <2> QED
    BY <1>3, <2>1, <2>2, <2>3 DEF AIStep
<1>4. CASE ReviewStep(w)
  BY <1>4 DEF ReviewStep, LoadInvoice, CommitEdit, ReviewAborts, UndecidingStep, rowVars
<1>5. CASE FailureStep(w) \/ Respond(w)
  <2>1. CASE MarkFailed(w)
    BY <2>1, WriteUndeciding DEF MarkFailed
  <2>2. CASE ReloadAfterRollback(w) \/ Respond(w)
    BY <2>2 DEF ReloadAfterRollback, Respond, UndecidingStep, rowVars
  <2> QED
    BY <1>5, <2>1, <2>2 DEF FailureStep
<1>6. CASE Interrupt(w)
  BY <1>6, InterruptGoto DEF UndecidingStep
<1> QED
  BY <1>1, <1>2, <1>3, <1>4, <1>5, <1>6 DEF Step

\* The commit of an approval and of a rejection.
LEMMA ApprovalEffect ==
  ASSUME TypeOK, NEW w \in Workers, CommitApproval(w)
  PROVE  /\ Doc(w) \in Documents /\ sess[w].user \in Users /\ sess'[w] = NoSession
         /\ UNCHANGED <<draft, rejectedBy>>
         /\ \A d \in Documents :
              /\ approvedBy'[d] = IF d = Doc(w) THEN sess[w].user ELSE approvedBy[d]
              /\ \/ status'[d] = status[d]
                 \/ d = Doc(w) /\ status'[d] = "APPROVED"
<1>1. sess[w] \in Session /\ Doc(w) \in Documents
  BY ServingSession DEF CommitApproval
<1>2. sess'[w] = NoSession
  BY <1>1, GotoMoves DEF CommitApproval
<1>3. sess[w].user \in Users
  BY <1>1 DEF CommitApproval, Session, NoSession
<1>4. \A d \in Documents :
        approvedBy'[d] = IF d = Doc(w) THEN sess[w].user ELSE approvedBy[d]
  BY <1>1 DEF CommitApproval, TypeOK
<1>5. \A d \in Documents :
        status'[d] = status[d] \/ (d = Doc(w) /\ status'[d] = "APPROVED")
  BY <1>1 DEF CommitApproval, WriteStatus, TypeOK
<1> QED
  BY <1>1, <1>2, <1>3, <1>4, <1>5 DEF CommitApproval

LEMMA RejectionEffect ==
  ASSUME TypeOK, NEW w \in Workers, CommitRejection(w)
  PROVE  /\ Doc(w) \in Documents /\ sess[w].user \in Users /\ sess'[w] = NoSession
         /\ UNCHANGED <<draft, approvedBy>>
         /\ \A d \in Documents :
              /\ rejectedBy'[d] = IF d = Doc(w) THEN sess[w].user ELSE rejectedBy[d]
              /\ \/ status'[d] = status[d]
                 \/ d = Doc(w) /\ status'[d] = "REJECTED"
<1>1. sess[w] \in Session /\ Doc(w) \in Documents
  BY ServingSession DEF CommitRejection
<1>2. sess'[w] = NoSession
  BY <1>1, GotoMoves DEF CommitRejection
<1>3. sess[w].user \in Users
  BY <1>1 DEF CommitRejection, Session, NoSession
<1>4. \A d \in Documents :
        rejectedBy'[d] = IF d = Doc(w) THEN sess[w].user ELSE rejectedBy[d]
  BY <1>1 DEF CommitRejection, TypeOK
<1>5. \A d \in Documents :
        status'[d] = status[d] \/ (d = Doc(w) /\ status'[d] = "REJECTED")
  BY <1>1 DEF CommitRejection, WriteStatus, TypeOK
<1> QED
  BY <1>1, <1>2, <1>3, <1>4, <1>5 DEF CommitRejection

\* APPROVED and REJECTED are never shown without the decision recorded.
THEOREM DecisionIsRecordedAlways == Spec => []DecisionIsRecorded
<1>1. Init => DecisionIsRecorded
  BY DEF Init, DecisionIsRecorded
<1>2. TypeOK /\ DecisionIsRecorded /\ [Next]_vars => DecisionIsRecorded'
  <2> SUFFICES ASSUME TypeOK, DecisionIsRecorded, [Next]_vars PROVE DecisionIsRecorded'
    OBVIOUS
  <2>1. ASSUME NEW w \in Workers, Accept(w) \/ Step(w) \/ Interrupt(w)
        PROVE  DecisionIsRecorded'
    <3>1. CASE UndecidingStep
      BY <3>1 DEF UndecidingStep, DecisionIsRecorded
    <3>2. CASE CommitApproval(w)
      BY <3>2, ApprovalEffect, StoreAssumption DEF DecisionIsRecorded
    <3>3. CASE CommitRejection(w)
      BY <3>3, RejectionEffect, StoreAssumption DEF DecisionIsRecorded
    <3> QED
      BY <2>1, <3>1, <3>2, <3>3, DecidingSteps
  <2>2. CASE UNCHANGED vars
    BY <2>2 DEF vars, DecisionIsRecorded
  <2> QED
    BY <2>1, <2>2 DEF Next
<1> QED
  BY TypeCorrect, <1>1, <1>2, PTL DEF Spec

----------------------------------------------------------------------------
(* Decisions come from the document's organization.                        *)

\* No session changes the document or the user it was opened for.
SameRequests ==
  \A v \in Workers :
    sess'[v] # NoSession =>
      /\ sess[v] # NoSession
      /\ sess'[v].doc = sess[v].doc
      /\ sess'[v].user = sess[v].user

LEMMA GotoSameRequest ==
  ASSUME TypeOK, NEW w \in Workers, sess[w].pc # "idle", NEW p, Goto(w, p)
  PROVE  SameRequests
BY ServingSession DEF TypeOK, Goto, SameRequests, Session, NoSession

\* Nor does a statement that updates what the session knows.
LEMMA UpdateSameRequest ==
  ASSUME TypeOK, NEW w \in Workers, sess[w].pc # "idle", NEW s,
         s.doc = sess[w].doc, s.user = sess[w].user, sess' = [sess EXCEPT ![w] = s]
  PROVE  SameRequests
BY ServingSession DEF TypeOK, SameRequests, Session, NoSession

LEMMA BeginStageSameRequest ==
  ASSUME TypeOK, NEW w \in Workers, sess[w].pc # "idle",
         NEW stage, NEW s, NEW next, BeginStage(w, stage, s, next)
  PROVE  SameRequests
BY ServingSession DEF BeginStage, TypeOK, SameRequests, Session, NoSession

\* No statement of a handler moves a session to another request.
LEMMA StepSameRequest ==
  ASSUME TypeOK, NEW w \in Workers, Step(w) \/ Interrupt(w)
  PROVE  SameRequests
<1>1. CASE ExtractionStep(w)
  <2>1. CASE StartTextExtraction(w) \/ StartOcr(w)
    BY <2>1, BeginStageSameRequest DEF StartTextExtraction, StartOcr
  <2>2. CASE Refresh(w)
    BY <2>2, ServingSession
       DEF Refresh, AfterRefresh, TypeOK, SameRequests, Session, NoSession
  <2>3. CASE RunOcr(w)
    BY <2>3, GotoSameRequest DEF RunOcr
  <2>4. CASE ReadPdf(w) \/ OpenTextFile(w) \/ WriteTextFile(w) \/ DeleteText(w)
    BY <2>4, GotoSameRequest DEF ReadPdf, OpenTextFile, WriteTextFile, DeleteText
  <2>5. CASE CommitText(w) \/ CommitOcrRequired(w)
    BY <2>5, GotoSameRequest DEF CommitText, CommitOcrRequired
  <2> QED
    BY <1>1, <2>1, <2>2, <2>3, <2>4, <2>5 DEF ExtractionStep
<1>2. CASE AIStep(w)
  <2>1. CASE StartAiExtraction(w)
    BY <2>1, BeginStageSameRequest DEF StartAiExtraction
  <2>2. CASE AiAnswers(w)
    BY <2>2, ServingSession DEF AiAnswers, TypeOK, SameRequests, Session, NoSession
  <2>3. CASE PersistDraft(w)
    BY <2>3, ServingSession DEF PersistDraft, TypeOK, SameRequests, Session, NoSession
  <2>4. CASE StartValidation(w)
    BY <2>4, ServingSession DEF StartValidation, TypeOK, SameRequests, Session, NoSession
  <2>5. CASE LoadDraft(w)
    <3> DEFINE p == IF draft[Doc(w)] = NoDraft THEN "mark_failed" ELSE "validate"
    <3>1. sess' = [sess EXCEPT ![w].pc = p, ![w].loaded = status[Doc(w)]]
      BY <2>5 DEF LoadDraft
    <3> HIDE DEF p
    <3> QED
      BY <2>5, <3>1, ServingSession
         DEF LoadDraft, TypeOK, SameRequests, Session, NoSession
  <2>6. CASE ReadText(w)
    BY <2>6, GotoSameRequest DEF ReadText
  <2>7. CASE \/ StopAfterText(w) \/ QueryDraft(w) \/ AiFails(w) \/ DraftRefused(w)
             \/ Validate(w) \/ CommitReviewRequired(w)
    BY <2>7, GotoSameRequest
       DEF StopAfterText, QueryDraft, AiFails, DraftRefused, Validate, CommitReviewRequired
  <2> QED
    BY <1>2, <2>1, <2>2, <2>3, <2>4, <2>5, <2>6, <2>7 DEF AIStep
<1>3. CASE ReviewStep(w)
  BY <1>3, GotoSameRequest
     DEF ReviewStep, LoadInvoice, CommitEdit, CommitApproval, CommitRejection,
         ReviewAborts, ReviewPC
<1>4. CASE ReloadAfterRollback(w)
  BY <1>4, ServingSession
     DEF ReloadAfterRollback, TypeOK, SameRequests, Session, NoSession
<1>5. CASE MarkFailed(w) \/ Respond(w)
  BY <1>5, GotoSameRequest DEF MarkFailed, Respond
<1>6. CASE Interrupt(w)
  <2>1. sess[w].pc # "idle"
    BY <1>6 DEF Interrupt, ExtractionStatementFails, AIStatementFails, FailureNotRecorded,
                Crash, TypeOK, Session, RequestPC, ExtractionPC, AIPC, ValidationPC,
                FailurePC, ReviewPC
  <2>2. \E p : Goto(w, p)
    BY <1>6 DEF Interrupt, ExtractionStatementFails, AIStatementFails, FailureNotRecorded,
                Crash
  <2> QED
    BY <2>1, <2>2, GotoSameRequest
<1> QED
  BY <1>1, <1>2, <1>3, <1>4, <1>5, <1>6 DEF Step, FailureStep

\* A new request was admitted by the organization-scoped lookup.
LEMMA AcceptedRequest ==
  ASSUME TypeOK, NEW w \in Workers, Accept(w), NEW v \in Workers, sess'[v] # sess[v]
  PROVE  OrgOf[sess'[v].user] = OrgOf[sess'[v].doc]
BY DEF Accept, AcceptExtraction, BeginEdit, BeginApprove, BeginReject, BeginReview,
       MayAccess, TypeOK

\* Whoever decided about a document is in its organization.
THEOREM DecidedWithinOrganizationAlways == Spec => []DecidedWithinOrganization
<1>1. Init => OrganizationInv
  BY StoreAssumption DEF Init, OrganizationInv, DecidedWithinOrganization
<1>2. TypeOK /\ OrganizationInv /\ [Next]_vars => OrganizationInv'
  <2> SUFFICES ASSUME TypeOK, OrganizationInv, [Next]_vars PROVE OrganizationInv'
    OBVIOUS
  <2> DEFINE Requests == \A v \in Workers :
               sess[v] # NoSession => OrgOf[sess[v].user] = OrgOf[Doc(v)]
  <2>1. ASSUME NEW w \in Workers, Accept(w) \/ Step(w) \/ Interrupt(w)
        PROVE  Requests'
    <3>1. CASE Accept(w)
      BY <3>1, AcceptedRequest DEF OrganizationInv, Doc
    <3>2. CASE Step(w) \/ Interrupt(w)
      BY <3>2, StepSameRequest DEF SameRequests, OrganizationInv, Doc
    <3> QED
      BY <2>1, <3>1, <3>2
  <2>2. ASSUME NEW w \in Workers, Accept(w) \/ Step(w) \/ Interrupt(w)
        PROVE  DecidedWithinOrganization'
    <3>1. CASE UndecidingStep
      BY <3>1 DEF UndecidingStep, OrganizationInv, DecidedWithinOrganization
    <3>2. CASE CommitApproval(w)
      <4>1. OrgOf[sess[w].user] = OrgOf[Doc(w)]
        BY <3>2 DEF CommitApproval, OrganizationInv, NoSession
      <4> QED
        BY <3>2, <4>1, ApprovalEffect DEF OrganizationInv, DecidedWithinOrganization
    <3>3. CASE CommitRejection(w)
      <4>1. OrgOf[sess[w].user] = OrgOf[Doc(w)]
        BY <3>3 DEF CommitRejection, OrganizationInv, NoSession
      <4> QED
        BY <3>3, <4>1, RejectionEffect DEF OrganizationInv, DecidedWithinOrganization
    <3> QED
      BY <2>2, <3>1, <3>2, <3>3, DecidingSteps
  <2>3. CASE UNCHANGED vars
    BY <2>3 DEF vars, OrganizationInv, DecidedWithinOrganization, Doc
  <2> QED
    BY <2>1, <2>2, <2>3 DEF Next, OrganizationInv
<1>3. OrganizationInv => DecidedWithinOrganization
  BY DEF OrganizationInv
<1> QED
  BY <1>1, <1>2, <1>3, TypeCorrect, PTL DEF Spec

----------------------------------------------------------------------------
(* The job history.                                                        *)

\* Statements of a request that has a job of its own, ...
JobPC == RequestPC \ (ReviewPC \cup {"start"})

\* ... those before which that job was ended, ...
EndedPC ==
  { "text_committed", "ocr_required_committed", "route", "start_ocr", "start_ai",
    "draft_committed", "start_validation", "review_committed", "respond" }

\* ... and those that lead to ending it as a text stage or as a validation.
TextPC ==
  { "started", "read_pdf", "save_text", "writing_text", "commit_text",
    "commit_ocr_required", "ocr_started", "run_ocr" }
CheckPC == {"validation_started", "validate", "commit_review"}

\* The job a session remembers is a job of its document, not failed yet.
OwnJob(w) ==
  /\ sess[w].pc \in JobPC =>
       /\ sess[w].job \in DOMAIN jobs
       /\ jobs[sess[w].job].doc = Doc(w)
       /\ jobs[sess[w].job].status # "FAILED"
  /\ sess[w].pc \in EndedPC => jobs[sess[w].job].status = "SUCCESS"
  /\ sess[w].pc \in TextPC => jobs[sess[w].job].stage \in {"TEXT_EXTRACTION", "OCR"}
  /\ sess[w].pc \in CheckPC => jobs[sess[w].job].stage = "RESULT_VALIDATION"

JobsAreOwned == \A w \in Workers : OwnJob(w)

JobsAreApart ==
  \A v, w \in Workers :
    v # w /\ sess[v].pc \in JobPC /\ sess[w].pc \in JobPC => sess[v].job # sess[w].job

\* A successful AI extraction left an invoice.
AiLeavesDraft ==
  \A i \in DOMAIN jobs :
    jobs[i].stage = "AI_EXTRACTION" /\ jobs[i].status = "SUCCESS"
      => draft[jobs[i].doc] # NoDraft

RunningIsHeld ==
  \A i \in DOMAIN jobs :
    jobs[i].status = "RUNNING" =>
      \/ \E w \in Workers : sess[w].pc \in JobPC /\ sess[w].job = i
      \/ faults > 0
      \/ pdf[jobs[i].doc] = "encrypted"

\* What makes OneAiSuccess, FailureIsExplained and RunningJobIsServed
\* inductive together.
JobInv ==
  /\ JobsAreOwned /\ JobsAreApart /\ AiLeavesDraft
  /\ OneAiSuccess /\ FailureIsExplained /\ RunningIsHeld

\* What a step of w does to a draft, a status and the faults, whatever it
\* does to the jobs.
RowsGrow(w) ==
  /\ \A v \in Workers : v # w => sess'[v] = sess[v]
  /\ \A d \in Documents : draft[d] # NoDraft => draft'[d] # NoDraft
  /\ faults' \in Nat /\ faults' >= faults
  /\ pdf' = pdf

NoNewFailure ==
  \A d \in Documents : status'[d] # status[d] => status'[d] # "FAILED"

JobMove(w, p) ==
  /\ sess'[w].pc = p
  /\ p # "idle" => sess'[w].doc = Doc(w)
  /\ p \in JobPC => sess[w].pc \in JobPC /\ sess'[w].job = sess[w].job
  /\ p \in EndedPC => sess[w].pc \in EndedPC
  /\ p \in TextPC => sess[w].pc \in TextPC
  /\ p \in CheckPC => sess[w].pc \in CheckPC
  /\ p \notin JobPC =>
       \/ sess[w].pc \notin JobPC \/ sess[w].pc \in EndedPC
       \/ faults' > 0 \/ pdf[Doc(w)] = "encrypted"

\* A row of the table is a job.
LEMMA JobRow ==
  ASSUME TypeOK, NEW i \in DOMAIN jobs
  PROVE  jobs[i] \in Job /\ i \in Nat \ {0} /\ DOMAIN jobs = 1 .. Len(jobs)
<1>1. jobs \in Seq(Job) /\ DOMAIN jobs = 1 .. Len(jobs)
  BY DEF TypeOK
<1> QED
  BY <1>1, ElementOfSeq

\* A statement that leaves the jobs alone.
LEMMA JobQuiet ==
  ASSUME TypeOK, JobInv, NEW w \in Workers,
         NEW p \in RequestPC \cup {"idle"}, JobMove(w, p),
         RowsGrow(w), NoNewFailure, jobs' = jobs
  PROVE  JobInv'
<1> USE DEF JobInv
<1>1. \A v \in Workers : v # w => sess'[v] = sess[v]
  BY DEF RowsGrow
<1>2. JobsAreOwned'
  <2>1. ASSUME NEW v \in Workers PROVE OwnJob(v)'
    <3>1. CASE v = w
      <4>1. OwnJob(w)
        BY DEF JobsAreOwned
      <4>2. p # "idle" => Doc(w)' = Doc(w)
        BY DEF JobMove, Doc
      <4>3. "idle" \notin JobPC \cup EndedPC \cup TextPC \cup CheckPC
        BY DEF JobPC, EndedPC, TextPC, CheckPC, RequestPC, ExtractionPC, AIPC,
               ValidationPC, FailurePC, ReviewPC
      <4>4. EndedPC \cup TextPC \cup CheckPC \subseteq JobPC
        BY DEF JobPC, EndedPC, TextPC, CheckPC, RequestPC, ExtractionPC, AIPC,
               ValidationPC, FailurePC, ReviewPC
      <4> QED
        BY <3>1, <4>1, <4>2, <4>3, <4>4 DEF JobMove, OwnJob
    <3>2. CASE v # w
      BY <1>1, <3>2 DEF JobsAreOwned, OwnJob, Doc
    <3> QED
      BY <3>1, <3>2
  <2> QED
    BY <2>1 DEF JobsAreOwned
<1>3. JobsAreApart'
  BY <1>1 DEF JobsAreApart, JobMove
<1>4. AiLeavesDraft'
  <2>1. \A i \in DOMAIN jobs : jobs[i].doc \in Documents
    BY JobRow DEF Job
  <2> QED
    BY <2>1 DEF AiLeavesDraft, RowsGrow
<1>5. OneAiSuccess' /\ FailureIsExplained'
  BY DEF OneAiSuccess, FailureIsExplained, NoNewFailure
<1>6. RunningIsHeld'
  <2> SUFFICES ASSUME NEW i \in DOMAIN jobs, jobs[i].status = "RUNNING"
               PROVE  \/ \E v \in Workers : sess'[v].pc \in JobPC /\ sess'[v].job = i
                      \/ faults' > 0 \/ pdf[jobs[i].doc] = "encrypted"
    BY DEF RunningIsHeld, RowsGrow
  <2>1. CASE faults > 0 \/ pdf[jobs[i].doc] = "encrypted"
    BY <2>1 DEF RowsGrow, TypeOK
  <2>2. ASSUME NEW v \in Workers, sess[v].pc \in JobPC, sess[v].job = i
        PROVE  \/ \E u \in Workers : sess'[u].pc \in JobPC /\ sess'[u].job = i
               \/ faults' > 0 \/ pdf[jobs[i].doc] = "encrypted"
    <3>1. CASE v # w
      BY <1>1, <2>2, <3>1
    <3>2. CASE v = w /\ p \notin JobPC
      <4>1. OwnJob(w)
        BY DEF JobsAreOwned
      <4>2. sess[w].pc \notin EndedPC /\ jobs[i].doc = Doc(w)
        BY <2>2, <3>2, <4>1 DEF OwnJob
      <4> QED
        BY <2>2, <3>2, <4>2 DEF JobMove
    <3>3. CASE v = w /\ p \in JobPC
      BY <2>2, <3>3 DEF JobMove
    <3> QED
      BY <3>1, <3>2, <3>3
  <2> QED
    BY <2>1, <2>2 DEF RunningIsHeld
<1> QED
  BY <1>2, <1>3, <1>4, <1>5, <1>6

\* A stage begins with a RUNNING job of its own.
LEMMA JobInsert ==
  ASSUME TypeOK, JobInv, NEW w \in Workers, sess[w].pc \in EndedPC \cup {"start"},
         NEW stage \in ProcessingStage, InsertJob(w, stage),
         NEW p \in JobPC \ EndedPC, sess'[w].pc = p, sess'[w].doc = Doc(w),
         sess'[w].job = Len(jobs) + 1,
         p \in TextPC => stage \in {"TEXT_EXTRACTION", "OCR"},
         p \in CheckPC => stage = "RESULT_VALIDATION",
         RowsGrow(w), NoNewFailure
  PROVE  JobInv'
<1> USE DEF JobInv
<1> DEFINE n == Len(jobs) + 1
           row == [doc |-> Doc(w), stage |-> stage, status |-> "RUNNING"]
<1>1. \A v \in Workers : v # w => sess'[v] = sess[v]
  BY DEF RowsGrow
<1>2. /\ n \in Nat /\ n \notin DOMAIN jobs /\ DOMAIN jobs' = DOMAIN jobs \cup {n}
      /\ jobs'[n] = row
      /\ \A i \in DOMAIN jobs : jobs'[i] = jobs[i]
  BY DEF InsertJob, TypeOK
<1>3. \A v \in Workers : v # w /\ sess[v].pc \in JobPC => sess[v].job \in DOMAIN jobs
  BY DEF JobsAreOwned, OwnJob
<1>4. JobsAreOwned'
  <2>1. ASSUME NEW v \in Workers PROVE OwnJob(v)'
    <3>1. CASE v = w
      <4>1. Doc(w)' = Doc(w)
        BY DEF Doc
      <4> QED
        BY <1>2, <3>1, <4>1 DEF OwnJob
    <3>2. CASE v # w
      <4>1. OwnJob(v) /\ EndedPC \cup TextPC \cup CheckPC \subseteq JobPC
        BY DEF JobsAreOwned, JobPC, EndedPC, TextPC, CheckPC, RequestPC, ExtractionPC,
               AIPC, ValidationPC, FailurePC, ReviewPC
      <4> QED
        BY <1>1, <1>2, <3>2, <4>1 DEF OwnJob, Doc
    <3> QED
      BY <3>1, <3>2
  <2> QED
    BY <2>1 DEF JobsAreOwned
<1>5. JobsAreApart'
  BY <1>1, <1>2, <1>3 DEF JobsAreApart
<1>6. AiLeavesDraft'
  <2>1. \A i \in DOMAIN jobs : jobs[i].doc \in Documents
    BY JobRow DEF Job
  <2> QED
    BY <1>2, <2>1 DEF AiLeavesDraft, RowsGrow
<1>7. OneAiSuccess'
  BY <1>2 DEF OneAiSuccess
<1>8. FailureIsExplained'
  BY <1>2 DEF FailureIsExplained, NoNewFailure
<1>9. RunningIsHeld'
  <2> SUFFICES ASSUME NEW i \in DOMAIN jobs', jobs'[i].status = "RUNNING"
               PROVE  \/ \E v \in Workers : sess'[v].pc \in JobPC /\ sess'[v].job = i
                      \/ faults' > 0 \/ pdf[jobs'[i].doc] = "encrypted"
    BY DEF RunningIsHeld, RowsGrow
  <2>1. CASE i = n
    BY <2>1
  <2>2. CASE i \in DOMAIN jobs /\ (faults > 0 \/ pdf[jobs[i].doc] = "encrypted")
    BY <1>2, <2>2 DEF RowsGrow, TypeOK
  <2>3. ASSUME i \in DOMAIN jobs, NEW v \in Workers, sess[v].pc \in JobPC, sess[v].job = i
        PROVE  sess'[v] = sess[v]
    <3>1. sess[w].pc \in EndedPC => jobs[sess[w].job].status = "SUCCESS"
      BY DEF JobsAreOwned, OwnJob
    <3>2. sess[w].pc \in JobPC => sess[w].pc \in EndedPC
      BY DEF JobPC
    <3> QED
      BY <1>1, <1>2, <2>3, <3>1, <3>2
  <2> QED
    BY <1>2, <2>1, <2>2, <2>3 DEF RunningIsHeld
<1> QED
  BY <1>4, <1>5, <1>6, <1>7, <1>8, <1>9

\* A stage ends its own job and no other.
LEMMA JobEnd ==
  ASSUME TypeOK, JobInv, NEW w \in Workers, sess[w].pc \in JobPC,
         NEW s \in {"SUCCESS", "FAILED"}, EndJob(w, s),
         NEW p \in EndedPC \cup {"idle"}, sess'[w].pc = p,
         p # "idle" => sess'[w].doc = Doc(w) /\ sess'[w].job = sess[w].job,
         p = "idle" <=> s = "FAILED",
         jobs[sess[w].job].stage = "AI_EXTRACTION" /\ s = "SUCCESS"
           => draft[Doc(w)] = NoDraft /\ draft'[Doc(w)] # NoDraft,
         RowsGrow(w),
         \A d \in Documents :
           status'[d] # status[d] /\ status'[d] = "FAILED" => d = Doc(w) /\ s = "FAILED"
  PROVE  JobInv'
<1> USE DEF JobInv
<1> DEFINE k == sess[w].job
<1>1. \A v \in Workers : v # w => sess'[v] = sess[v]
  BY DEF RowsGrow
<1>2. OwnJob(w) /\ k \in DOMAIN jobs /\ jobs[k].doc = Doc(w) /\ jobs[k].status # "FAILED"
  BY DEF JobsAreOwned, OwnJob
<1>3. \A i \in DOMAIN jobs : jobs[i] \in Job
  BY JobRow
<1>4. /\ DOMAIN jobs' = DOMAIN jobs
      /\ \A i \in DOMAIN jobs :
           jobs'[i] = IF i = k THEN [jobs[i] EXCEPT !.status = s] ELSE jobs[i]
  BY EndJobTyped
<1>5. /\ \A i \in DOMAIN jobs : jobs'[i].doc = jobs[i].doc /\ jobs'[i].stage = jobs[i].stage
      /\ jobs'[k].status = s
      /\ \A i \in DOMAIN jobs : i # k => jobs'[i].status = jobs[i].status
  BY <1>2, <1>3, <1>4 DEF Job
<1> HIDE DEF k
<1>6. EndedPC \cup TextPC \cup CheckPC \subseteq JobPC /\ "idle" \notin JobPC
  BY DEF JobPC, EndedPC, TextPC, CheckPC, RequestPC, ExtractionPC,
         AIPC, ValidationPC, FailurePC, ReviewPC
<1>7. \A v \in Workers : v # w /\ sess[v].pc \in JobPC => sess[v].job # k
  BY DEF JobsAreApart, k
<1>8. JobsAreOwned'
  <2>1. ASSUME NEW v \in Workers PROVE OwnJob(v)'
    <3>1. CASE v = w /\ p = "idle"
      BY <1>6, <3>1 DEF OwnJob
    <3>2. CASE v = w /\ p # "idle"
      <4>1. Doc(w)' = Doc(w) /\ sess'[w].job = k /\ p \in EndedPC /\ s = "SUCCESS"
        BY <3>2 DEF Doc, k
      <4>2. p \notin TextPC \cup CheckPC
        BY <4>1 DEF EndedPC, TextPC, CheckPC
      <4> QED
        BY <1>2, <1>4, <1>5, <3>2, <4>1, <4>2 DEF OwnJob
    <3>3. CASE v # w
      <4>1. OwnJob(v)
        BY DEF JobsAreOwned
      <4> QED
        BY <1>1, <1>4, <1>5, <1>6, <1>7, <3>3, <4>1 DEF OwnJob, Doc
    <3> QED
      BY <3>1, <3>2, <3>3
  <2> QED
    BY <2>1 DEF JobsAreOwned
<1>9. JobsAreApart'
  BY <1>1, <1>6, <1>7 DEF JobsAreApart, k
<1>10. AiLeavesDraft'
  <2> SUFFICES ASSUME NEW i \in DOMAIN jobs, jobs'[i].stage = "AI_EXTRACTION",
                      jobs'[i].status = "SUCCESS"
               PROVE  draft'[jobs'[i].doc] # NoDraft
    BY <1>4 DEF AiLeavesDraft
  <2>1. CASE i = k
    BY <1>2, <1>5, <2>1 DEF k
  <2>2. CASE i # k
    BY <1>3, <1>5, <2>2 DEF AiLeavesDraft, RowsGrow, Job
  <2> QED
    BY <2>1, <2>2
<1>11. OneAiSuccess'
  <2> SUFFICES ASSUME NEW i \in DOMAIN jobs, NEW j \in DOMAIN jobs,
                      jobs'[i].doc = jobs'[j].doc,
                      jobs'[i].stage = "AI_EXTRACTION", jobs'[j].stage = "AI_EXTRACTION",
                      jobs'[i].status = "SUCCESS", jobs'[j].status = "SUCCESS",
                      i # j
               PROVE  FALSE
    BY <1>4 DEF OneAiSuccess
  <2>1. CASE i # k /\ j # k
    BY <1>5, <2>1 DEF OneAiSuccess
  <2>2. CASE i = k \/ j = k
    <3>1. s = "SUCCESS" /\ jobs[k].stage = "AI_EXTRACTION" /\ draft[Doc(w)] = NoDraft
      BY <1>2, <1>5, <2>2 DEF k
    <3> QED
      BY <1>2, <1>5, <2>2, <3>1 DEF AiLeavesDraft
  <2> QED
    BY <2>1, <2>2
<1>12. FailureIsExplained'
  <2> SUFFICES ASSUME NEW d \in Documents, status'[d] = "FAILED"
               PROVE  \E i \in DOMAIN jobs : jobs'[i].doc = d /\ jobs'[i].status = "FAILED"
    BY <1>4 DEF FailureIsExplained
  <2>1. CASE status[d] = "FAILED"
    <3>1. PICK i \in DOMAIN jobs : jobs[i].doc = d /\ jobs[i].status = "FAILED"
      BY <2>1 DEF FailureIsExplained
    <3>2. i # k
      BY <1>2, <3>1
    <3> QED
      BY <1>5, <3>1, <3>2
  <2>2. CASE status[d] # "FAILED"
    BY <1>2, <1>5, <2>2
  <2> QED
    BY <2>1, <2>2
<1>13. RunningIsHeld'
  <2> SUFFICES ASSUME NEW i \in DOMAIN jobs, jobs'[i].status = "RUNNING"
               PROVE  \/ \E v \in Workers : sess'[v].pc \in JobPC /\ sess'[v].job = i
                      \/ faults' > 0 \/ pdf[jobs'[i].doc] = "encrypted"
    BY <1>4 DEF RunningIsHeld, RowsGrow
  <2>1. i # k /\ jobs[i].status = "RUNNING" /\ jobs'[i].doc = jobs[i].doc
    BY <1>5
  <2>2. \A v \in Workers : sess[v].pc \in JobPC /\ sess[v].job = i => sess'[v] = sess[v]
    BY <1>1, <2>1 DEF k
  <2> QED
    BY <2>1, <2>2 DEF RunningIsHeld, RowsGrow, TypeOK
<1> QED
  BY <1>8, <1>9, <1>10, <1>11, <1>12, <1>13

\* The statements a request may go on to from one of its statements.
JobFlow(w, p) ==
  /\ p \in JobPC => sess[w].pc \in JobPC
  /\ p \in EndedPC => sess[w].pc \in EndedPC
  /\ p \in TextPC => sess[w].pc \in TextPC
  /\ p \in CheckPC => sess[w].pc \in CheckPC
  /\ p \notin JobPC =>
       \/ sess[w].pc \notin JobPC \/ sess[w].pc \in EndedPC
       \/ faults' > 0 \/ pdf[Doc(w)] = "encrypted"

\* A statement that goes on to p and leaves document, draft and jobs alone.
LEMMA JobGoto ==
  ASSUME TypeOK, JobInv, NEW w \in Workers, sess[w].pc # "idle",
         NEW p \in RequestPC \cup {"idle"}, Goto(w, p), JobFlow(w, p),
         UNCHANGED <<status, draft, jobs, pdf>>, faults' \in Nat, faults' >= faults
  PROVE  JobInv'
<1>1. /\ \A v \in Workers : v # w => sess'[v] = sess[v]
      /\ sess'[w].pc = p
      /\ p # "idle" => sess'[w].doc = Doc(w) /\ sess'[w].job = sess[w].job
  BY ServingSession, GotoMoves, GotoKeeps
<1>2. "idle" \notin JobPC
  BY DEF JobPC, RequestPC, ExtractionPC, AIPC, ValidationPC, FailurePC, ReviewPC
<1>3. JobMove(w, p)
  BY <1>1, <1>2 DEF JobFlow, JobMove
<1>4. RowsGrow(w) /\ NoNewFailure
  BY <1>1 DEF RowsGrow, NoNewFailure
<1> QED
  BY <1>3, <1>4, JobQuiet

\* The same for one that also learns something.
LEMMA JobUpdate ==
  ASSUME TypeOK, JobInv, NEW w \in Workers, sess[w].pc # "idle",
         NEW p \in RequestPC, JobFlow(w, p), sess'[w].pc = p,
         sess'[w].doc = Doc(w), sess'[w].job = sess[w].job,
         \A v \in Workers : v # w => sess'[v] = sess[v],
         UNCHANGED <<status, draft, jobs, pdf, faults>>
  PROVE  JobInv'
<1>1. JobMove(w, p)
  BY DEF JobFlow, JobMove
<1>2. RowsGrow(w) /\ NoNewFailure
  BY DEF RowsGrow, NoNewFailure, TypeOK
<1> QED
  BY <1>1, <1>2, JobQuiet

\* The first commit of a stage.
LEMMA JobBeginStage ==
  ASSUME TypeOK, JobInv, NEW w \in Workers, sess[w].pc \in EndedPC \cup {"start"},
         NEW stage \in ProcessingStage, NEW s \in DocumentStatus \ {"FAILED"},
         NEW p \in JobPC \ EndedPC,
         p \in TextPC => stage \in {"TEXT_EXTRACTION", "OCR"}, p \notin CheckPC,
         BeginStage(w, stage, s, p)
  PROVE  JobInv'
<1>1. sess[w].pc # "idle"
  BY DEF EndedPC
<1>2. sess'[w].pc = p /\ sess'[w].doc = Doc(w) /\ sess'[w].job = Len(jobs) + 1
  BY <1>1, ServingSession DEF BeginStage, TypeOK, Session, Doc
<1>3. \A v \in Workers : v # w => sess'[v] = sess[v]
  BY DEF BeginStage, TypeOK
<1>4. NoNewFailure
  BY <1>1, ServingSession, WriteStatusTyped DEF BeginStage, NoNewFailure
<1>5. RowsGrow(w)
  BY <1>3 DEF BeginStage, RowsGrow, TypeOK
<1> QED
  BY <1>2, <1>4, <1>5, JobInsert DEF BeginStage

LEMMA JobAccept ==
  ASSUME TypeOK, JobInv, NEW w \in Workers, Accept(w)
  PROVE  JobInv'
<1>1. /\ sess[w] = NoSession
      /\ sess'[w].pc \in {"start", "load_edit", "load_approve", "load_reject"}
      /\ UNCHANGED <<status, draft, jobs, pdf, faults>>
  BY DEF Accept, AcceptExtraction, BeginEdit, BeginApprove, BeginReject, BeginReview,
         rowVars, TypeOK
<1>2. sess'[w].pc \notin JobPC \cup EndedPC \cup TextPC \cup CheckPC
  BY <1>1 DEF JobPC, EndedPC, TextPC, CheckPC, RequestPC, ReviewPC
<1>3. sess[w].pc \notin JobPC
  BY <1>1 DEF JobPC, RequestPC, ExtractionPC, AIPC, ValidationPC, FailurePC, ReviewPC,
              NoSession
<1>4. \A v \in Workers : v # w => sess'[v] = sess[v]
  BY OthersUnchanged
<1>5. JobsAreOwned' /\ JobsAreApart' /\ RunningIsHeld'
  BY <1>1, <1>2, <1>3, <1>4
     DEF JobInv, JobsAreOwned, OwnJob, JobsAreApart, RunningIsHeld, Doc
<1> QED
  BY <1>1, <1>5 DEF JobInv, AiLeavesDraft, OneAiSuccess, FailureIsExplained

LEMMA JobExtractionStep ==
  ASSUME TypeOK, JobInv, NEW w \in Workers, ExtractionStep(w)
  PROVE  JobInv'
<1> USE DEF RequestPC, ExtractionPC, AIPC, ValidationPC, FailurePC, ReviewPC,
            JobPC, EndedPC, TextPC, CheckPC
<1>0. faults \in Nat
  BY DEF TypeOK
<1>1. CASE StartTextExtraction(w) \/ StartOcr(w)
  BY <1>1, JobBeginStage DEF StartTextExtraction, StartOcr, ProcessingStage, DocumentStatus
<1>2. CASE Refresh(w)
  <2>1. sess[w].pc \in DOMAIN AfterRefresh /\ sess[w].pc # "idle"
    BY <1>2 DEF Refresh, AfterRefresh
  <2>2. sess[w] \in Session
    BY <2>1, ServingSession
  <2>3. /\ sess'[w].pc = AfterRefresh[sess[w].pc] /\ sess'[w].doc = Doc(w)
        /\ sess'[w].job = sess[w].job
    BY <1>2, <2>2 DEF Refresh, TypeOK, Session, Doc
  <2>4. AfterRefresh[sess[w].pc] \in RequestPC /\ JobFlow(w, AfterRefresh[sess[w].pc])
    BY <2>1 DEF AfterRefresh, JobFlow
  <2> QED
    BY <1>2, <2>1, <2>3, <2>4, OthersUnchanged, JobUpdate DEF Refresh, Step, rowVars
<1>3. CASE ReadPdf(w)
  <2>1. pdf[Doc(w)] \in PdfKind
    BY <1>3, ServingSession DEF ReadPdf, TypeOK
  <2>2. /\ NativeOutcome(pdf[Doc(w)]) \in RequestPC \cup {"idle"}
        /\ JobFlow(w, NativeOutcome(pdf[Doc(w)]))
    BY <1>3, <2>1 DEF ReadPdf, NativeOutcome, PdfKind, JobFlow
  <2> QED
    BY <1>0, <1>3, <2>2, JobGoto DEF ReadPdf, rowVars
<1>4. CASE RunOcr(w)
  <2>1. PICK p \in {"save_text", "mark_failed"} : Goto(w, p)
    BY <1>4 DEF RunOcr, OcrOutcomes
  <2>2. JobFlow(w, p)
    BY <1>4, <2>1 DEF RunOcr, JobFlow
  <2> QED
    BY <1>0, <1>4, <2>1, <2>2, JobGoto DEF RunOcr, rowVars
<1>5. CASE OpenTextFile(w) \/ WriteTextFile(w) \/ DeleteText(w)
  <2>1. PICK p \in {"writing_text", "commit_text", "mark_failed"} :
          Goto(w, p) /\ JobFlow(w, p)
    BY <1>5 DEF OpenTextFile, WriteTextFile, DeleteText, JobFlow
  <2> QED
    BY <1>0, <1>5, <2>1, JobGoto DEF OpenTextFile, WriteTextFile, DeleteText, rowVars
<1>6. CASE CommitText(w) \/ CommitOcrRequired(w)
  <2>1. PICK p \in {"text_committed", "ocr_required_committed"} : Goto(w, p)
    BY <1>6 DEF CommitText, CommitOcrRequired
  <2>2. sess'[w].pc = p /\ sess'[w].doc = Doc(w) /\ sess'[w].job = sess[w].job
    BY <1>6, <2>1, GotoKeeps DEF CommitText, CommitOcrRequired
  <2>3. \A d \in Documents : status'[d] # status[d] => status'[d] # "FAILED"
    BY <1>6, ServingSession, WriteStatusTyped DEF CommitText, CommitOcrRequired, DocumentStatus
  <2>4. RowsGrow(w)
    BY <1>0, <1>6, OthersUnchanged DEF RowsGrow, CommitText, CommitOcrRequired, Step
  <2>5. jobs[sess[w].job].stage # "AI_EXTRACTION"
    BY <1>6 DEF CommitText, CommitOcrRequired, JobInv, JobsAreOwned, OwnJob
  <2>6. EndJob(w, "SUCCESS") /\ sess[w].pc \in JobPC
    BY <1>6 DEF CommitText, CommitOcrRequired
  <2> QED
    BY <2>2, <2>3, <2>4, <2>5, <2>6, JobEnd
<1> QED
  BY <1>1, <1>2, <1>3, <1>4, <1>5, <1>6 DEF ExtractionStep

LEMMA JobAIStep ==
  ASSUME TypeOK, JobInv, DraftInv, NEW w \in Workers, AIStep(w)
  PROVE  JobInv'
<1> USE DEF RequestPC, ExtractionPC, AIPC, ValidationPC, FailurePC, ReviewPC,
            JobPC, EndedPC, TextPC, CheckPC
<1>0. faults \in Nat /\ \A v \in Workers : v # w => sess'[v] = sess[v]
  BY OthersUnchanged DEF TypeOK, Step
<1>1. CASE \/ StopAfterText(w) \/ QueryDraft(w) \/ ReadText(w) \/ AiFails(w)
           \/ DraftRefused(w) \/ Validate(w)
  <2>1. PICK p \in {"respond", "start_ai", "start_validation", "call_ai", "mark_failed",
                    "rolled_back", "commit_review"} :
          Goto(w, p) /\ JobFlow(w, p)
    BY <1>1 DEF StopAfterText, QueryDraft, AfterDraftQuery, ReadText, TextReadOutcomes,
                AiFails, DraftRefused, Validate, JobFlow
  <2> QED
    BY <1>0, <1>1, <2>1, JobGoto
       DEF StopAfterText, QueryDraft, ReadText, AiFails, DraftRefused, Validate, rowVars
<1>2. CASE StartAiExtraction(w)
  BY <1>2, JobBeginStage DEF StartAiExtraction, ProcessingStage, DocumentStatus
<1>3. CASE AiAnswers(w) \/ LoadDraft(w)
  <2>1. sess[w] \in Session
    BY <1>3, ServingSession DEF AiAnswers, LoadDraft
  <2>2. /\ sess'[w].pc \in {"persist", "mark_failed", "validate"}
        /\ sess'[w].doc = Doc(w) /\ sess'[w].job = sess[w].job
        /\ JobFlow(w, sess'[w].pc)
    BY <1>3, <2>1 DEF AiAnswers, LoadDraft, TypeOK, Session, Doc, JobFlow
  <2> QED
    BY <1>0, <1>3, <2>2, JobUpdate DEF AiAnswers, LoadDraft, rowVars
<1>4. CASE PersistDraft(w)
  <2>1. sess[w] \in Session /\ Doc(w) \in Documents
    BY <1>4, ServingSession DEF PersistDraft
  <2>2. /\ sess'[w].pc = "draft_committed" /\ sess'[w].doc = Doc(w)
        /\ sess'[w].job = sess[w].job
    BY <1>4, <2>1 DEF PersistDraft, TypeOK, Session, Doc
  <2>3. draft[Doc(w)] = NoDraft /\ draft'[Doc(w)] # NoDraft
    BY <1>4, <2>1, StoreAssumption DEF PersistDraft, InvoiceIsUnique, DraftInv, TypeOK
  <2>4. \A d \in Documents : draft[d] # NoDraft => draft'[d] # NoDraft
    BY <1>4, <2>1, <2>3 DEF PersistDraft, TypeOK
  <2>5. RowsGrow(w)
    <3>1. pdf' = pdf /\ faults' = faults
      BY <1>4 DEF PersistDraft
    <3> QED
      BY <1>0, <2>4, <3>1 DEF RowsGrow
  <2>6. \A d \in Documents : status'[d] # status[d] => status'[d] # "FAILED"
    BY <1>4, <2>1, WriteStatusTyped DEF PersistDraft, DocumentStatus
  <2>7. EndJob(w, "SUCCESS") /\ sess[w].pc \in JobPC
    BY <1>4 DEF PersistDraft
  <2> QED
    BY <2>2, <2>3, <2>5, <2>6, <2>7, JobEnd
<1>5. CASE StartValidation(w)
  <2>1. sess[w] \in Session
    BY <1>5, ServingSession DEF StartValidation
  <2>2. /\ sess'[w].pc = "validation_started" /\ sess'[w].doc = Doc(w)
        /\ sess'[w].job = Len(jobs) + 1
    BY <1>5, <2>1 DEF StartValidation, TypeOK, Session, Doc
  <2>3. RowsGrow(w) /\ NoNewFailure
    <3>1. UNCHANGED <<status, draft, pdf, faults>>
      BY <1>5 DEF StartValidation, rowVars
    <3> QED
      BY <1>0, <3>1 DEF RowsGrow, NoNewFailure
  <2> QED
    BY <1>5, <2>2, <2>3, JobInsert DEF StartValidation, ProcessingStage
<1>6. CASE CommitReviewRequired(w)
  <2>1. sess'[w].pc = "review_committed" /\ sess'[w].doc = Doc(w) /\ sess'[w].job = sess[w].job
    BY <1>6, GotoKeeps DEF CommitReviewRequired
  <2>2. \A d \in Documents : status'[d] # status[d] => status'[d] # "FAILED"
    BY <1>6, ServingSession, WriteStatusTyped DEF CommitReviewRequired, DocumentStatus
  <2>3. RowsGrow(w)
    BY <1>0, <1>6 DEF RowsGrow, CommitReviewRequired
  <2>4. jobs[sess[w].job].stage # "AI_EXTRACTION"
    BY <1>6 DEF CommitReviewRequired, JobInv, JobsAreOwned, OwnJob
  <2>5. EndJob(w, "SUCCESS") /\ sess[w].pc \in JobPC
    BY <1>6 DEF CommitReviewRequired
  <2> QED
    BY <2>1, <2>2, <2>3, <2>4, <2>5, JobEnd
<1> QED
  BY <1>1, <1>2, <1>3, <1>4, <1>5, <1>6 DEF AIStep

\* The review calls have no job and record no failure.
LEMMA JobReviewStep ==
  ASSUME TypeOK, JobInv, NEW w \in Workers, ReviewStep(w)
  PROVE  JobInv'
<1> USE DEF RequestPC, ReviewPC, JobPC, EndedPC, TextPC, CheckPC
<1>1. sess[w].pc \in ReviewPC /\ sess[w].pc \notin JobPC
  BY DEF ReviewStep, LoadInvoice, CommitEdit, CommitApproval, CommitRejection, ReviewAborts
<1>2. PICK p \in {"idle", "commit_edit", "commit_reject", "commit_approve"} : Goto(w, p)
  BY DEF ReviewStep, LoadInvoice, AfterLoad, CommitEdit, CommitApproval, CommitRejection,
         ReviewAborts
<1>3. p \in RequestPC \cup {"idle"} /\ p \notin JobPC \cup EndedPC \cup TextPC \cup CheckPC
  BY <1>2 DEF ExtractionPC, AIPC, ValidationPC, FailurePC
<1>4. sess'[w].pc = p /\ (p # "idle" => sess'[w].doc = Doc(w))
  BY <1>1, <1>2, <1>3, GotoKeeps
<1>5. JobMove(w, p)
  BY <1>1, <1>3, <1>4 DEF JobMove
<1>6. NoNewFailure /\ jobs' = jobs
  <2>1. CASE LoadInvoice(w) \/ CommitEdit(w) \/ ReviewAborts(w)
    BY <2>1 DEF LoadInvoice, CommitEdit, ReviewAborts, NoNewFailure, rowVars
  <2>2. CASE CommitApproval(w) \/ CommitRejection(w)
    BY <2>2, ApprovalEffect, RejectionEffect DEF CommitApproval, CommitRejection, NoNewFailure
  <2> QED
    BY <2>1, <2>2 DEF ReviewStep
<1>7. /\ \A d \in Documents : draft[d] # NoDraft => draft'[d] # NoDraft
      /\ UNCHANGED <<pdf, faults>>
  BY StoreAssumption
     DEF ReviewStep, LoadInvoice, CommitEdit, CommitApproval, CommitRejection, ReviewAborts,
         rowVars, TypeOK
<1>8. RowsGrow(w)
  BY <1>7, OthersUnchanged DEF RowsGrow, Step, TypeOK
<1> QED
  BY <1>3, <1>5, <1>6, <1>8, JobQuiet

LEMMA JobFailureStep ==
  ASSUME TypeOK, JobInv, NEW w \in Workers, FailureStep(w) \/ Respond(w)
  PROVE  JobInv'
<1> USE DEF RequestPC, ExtractionPC, FailurePC, ReviewPC, JobPC, EndedPC, TextPC, CheckPC
<1>0. faults \in Nat
  BY DEF TypeOK
<1>1. CASE ReloadAfterRollback(w)
  <2>1. sess[w] \in Session
    BY <1>1, ServingSession DEF ReloadAfterRollback
  <2>2. /\ sess'[w].pc \in {"delete_text", "mark_failed"} /\ sess'[w].doc = Doc(w)
        /\ sess'[w].job = sess[w].job /\ JobFlow(w, sess'[w].pc)
    BY <1>1, <2>1 DEF ReloadAfterRollback, TypeOK, Session, Doc, JobFlow
  <2> QED
    BY <1>1, <2>2, OthersUnchanged, JobUpdate
       DEF ReloadAfterRollback, Step, FailureStep, rowVars
<1>2. CASE MarkFailed(w)
  <2>1. sess'[w].pc = "idle"
    BY <1>2, GotoKeeps DEF MarkFailed
  <2>2. \A d \in Documents : status'[d] # status[d] => d = Doc(w)
    BY <1>2, ServingSession, WriteStatusTyped DEF MarkFailed, DocumentStatus
  <2>3. RowsGrow(w)
    BY <1>0, <1>2, OthersUnchanged DEF RowsGrow, MarkFailed, Step, FailureStep
  <2>4. EndJob(w, "FAILED") /\ sess[w].pc \in JobPC
    BY <1>2 DEF MarkFailed
  <2> QED
    BY <2>1, <2>2, <2>3, <2>4, JobEnd
<1>3. CASE Respond(w)
  <2>1. JobFlow(w, "idle")
    BY <1>3 DEF Respond, JobFlow, AIPC, ValidationPC
  <2> QED
    BY <1>0, <1>3, <2>1, JobGoto DEF Respond, rowVars
<1> QED
  BY <1>1, <1>2, <1>3 DEF FailureStep

LEMMA JobInterrupt ==
  ASSUME TypeOK, JobInv, NEW w \in Workers, Interrupt(w)
  PROVE  JobInv'
<1> USE DEF RequestPC, ExtractionPC, AIPC, ValidationPC, FailurePC, ReviewPC,
            JobPC, EndedPC, TextPC, CheckPC
<1>1. faults \in Nat /\ faults' = faults + 1
  BY DEF Interrupt, ExtractionStatementFails, AIStatementFails, FailureNotRecorded, Crash,
         Fault, TypeOK
<1>2. PICK p \in FailurePC \cup {"idle"} :
        Goto(w, p) /\ (p # "idle" => sess[w].pc \in JobPC)
  BY DEF Interrupt, ExtractionStatementFails, AIStatementFails, FailureNotRecorded, Crash,
         ExtractionFailure, AIFailure
<1>3. JobFlow(w, p)
  BY <1>1, <1>2 DEF JobFlow
<1> QED
  BY <1>1, <1>2, <1>3, InterruptGoto, JobGoto

\* JobInv is inductive.
LEMMA JobInvAlways == Spec => []JobInv
<1>1. Init => JobInv
  BY DEF Init, JobInv, JobsAreOwned, OwnJob, JobsAreApart, AiLeavesDraft, OneAiSuccess,
         FailureIsExplained, RunningIsHeld, NoSession, JobPC, EndedPC, TextPC, CheckPC,
         RequestPC, ExtractionPC, AIPC, ValidationPC, FailurePC, ReviewPC
<1>2. TypeOK /\ DraftInv /\ JobInv /\ [Next]_vars => JobInv'
  <2> SUFFICES ASSUME TypeOK, DraftInv, JobInv, [Next]_vars PROVE JobInv'
    OBVIOUS
  <2>1. CASE Next
    BY <2>1, JobAccept, JobExtractionStep, JobAIStep, JobReviewStep,
       JobFailureStep, JobInterrupt DEF Next, Step
  <2>2. CASE UNCHANGED vars
    BY <2>2 DEF vars, JobInv, JobsAreOwned, OwnJob, JobsAreApart, AiLeavesDraft,
                OneAiSuccess, FailureIsExplained, RunningIsHeld, Doc
  <2> QED
    BY <2>1, <2>2
<1> QED
  BY TypeCorrect, DraftInvAlways, <1>1, <1>2, PTL DEF Spec

\* However many workers pay for an extraction of one document at the same
\* time, one AI extraction of it is recorded as successful.
THEOREM OneAiSuccessAlways == Spec => []OneAiSuccess
<1>1. JobInv => OneAiSuccess
  BY DEF JobInv
<1> QED
  BY JobInvAlways, <1>1, PTL

\* A document that mark_failed made FAILED keeps a job that says which stage
\* failed, whatever is done with it later.
THEOREM FailureIsExplainedAlways == Spec => []FailureIsExplained
<1>1. JobInv => FailureIsExplained
  BY DEF JobInv
<1> QED
  BY JobInvAlways, <1>1, PTL

\* Without faults every RUNNING job has the request that works on it, unless
\* the PDF is one no handler catches.
THEOREM RunningJobIsServedAlways == Spec => []RunningJobIsServed
<1>1. JobInv => RunningJobIsServed
  BY DEF JobInv, RunningIsHeld, RunningJobIsServed, NoSession, JobPC, RequestPC,
         ExtractionPC, AIPC, ValidationPC, FailurePC, ReviewPC
<1> QED
  BY JobInvAlways, <1>1, PTL

----------------------------------------------------------------------------
(* Outcomes.                                                               *)

\* Statements after which the handler reads the row again, ...
ReloadingPC ==
  { "started", "ocr_started", "ai_started", "draft_committed", "start_validation",
    "validation_started", "rolled_back", "rolled_back_text" }

\* ... and those from which it goes on to write an outcome, which is sent to
\* the database only if it differs from the status last read.
OwingPC ==
  { "read_pdf", "save_text", "writing_text", "commit_text", "delete_text",
    "commit_ocr_required", "run_ocr", "read_text", "call_ai", "persist",
    "validate", "commit_review", "mark_failed" }

\* The request will take its document out of the middle of a stage.
Settling(w) ==
  \/ sess[w].pc \in ReloadingPC
  \/ sess[w].pc \in OwingPC /\ sess[w].loaded \in MidStage

\* What makes RestsSettled inductive.
SettleInv ==
  \A d \in Documents :
    faults = 0 /\ status[d] \in MidStage /\ pdf[d] # "encrypted"
      => \E w \in Workers : Settling(w) /\ Doc(w) = d

\* A step of w must leave w settling a document it is responsible for.
SettlesOn(w) ==
  /\ Settling(w) \/ status'[Doc(w)] # status[Doc(w)]
  /\ status'[Doc(w)] \in MidStage /\ pdf[Doc(w)] # "encrypted" /\ faults' = 0
  => Settling(w)' /\ Doc(w)' = Doc(w)

LEMMA SettleFrame ==
  ASSUME TypeOK, SettleInv, NEW w \in Workers,
         \A v \in Workers : v # w => sess'[v] = sess[v],
         pdf' = pdf, faults' \in Nat, faults' >= faults,
         \A d \in Documents : status'[d] # status[d] => d = Doc(w),
         SettlesOn(w)
  PROVE  SettleInv'
<1> SUFFICES ASSUME NEW d \in Documents, faults' = 0, status'[d] \in MidStage,
                    pdf[d] # "encrypted"
             PROVE  \E v \in Workers : Settling(v)' /\ Doc(v)' = d
  BY DEF SettleInv
<1>1. faults = 0
  BY DEF TypeOK
<1>2. CASE status'[d] # status[d]
  BY <1>2 DEF SettlesOn
<1>3. CASE status'[d] = status[d]
  <2>1. PICK v \in Workers : Settling(v) /\ Doc(v) = d
    BY <1>1, <1>3 DEF SettleInv
  <2>2. CASE v = w
    BY <2>1, <2>2 DEF SettlesOn
  <2>3. CASE v # w
    BY <2>1, <2>3 DEF Settling, Doc
  <2> QED
    BY <2>2, <2>3
<1> QED
  BY <1>2, <1>3

\* A statement that goes on to p without reading or writing the row.
LEMMA SettleGoto ==
  ASSUME TypeOK, SettleInv, NEW w \in Workers, sess[w].pc # "idle",
         NEW p \in RequestPC \cup {"idle"}, Goto(w, p),
         sess[w].pc \in ReloadingPC \cup OwingPC =>
           \/ p \in ReloadingPC
           \/ sess[w].pc \in OwingPC /\ p \in OwingPC
           \/ faults' > 0 \/ pdf[Doc(w)] = "encrypted",
         status' = status, pdf' = pdf, faults' \in Nat, faults' >= faults
  PROVE  SettleInv'
<1>1. /\ \A v \in Workers : v # w => sess'[v] = sess[v]
      /\ sess'[w].pc = p
      /\ p # "idle" => sess'[w].doc = Doc(w) /\ sess'[w].loaded = sess[w].loaded
  BY ServingSession, GotoMoves, GotoKeeps
<1>2. "idle" \notin ReloadingPC \cup OwingPC
  BY DEF ReloadingPC, OwingPC
<1>3. SettlesOn(w)
  <2> SUFFICES ASSUME Settling(w), pdf[Doc(w)] # "encrypted", faults' = 0
               PROVE  Settling(w)' /\ Doc(w)' = Doc(w)
    BY DEF SettlesOn
  <2>1. p # "idle" /\ (p \in ReloadingPC \/ (sess[w].pc \in OwingPC /\ p \in OwingPC))
    BY <1>2 DEF Settling
  <2>2. sess[w].pc \notin ReloadingPC \/ sess[w].pc \notin OwingPC
    BY DEF ReloadingPC, OwingPC
  <2> QED
    BY <1>1, <2>1, <2>2 DEF Settling, Doc
<1> QED
  BY <1>1, <1>3, SettleFrame

\* A statement that only reads the row.
LEMMA SettleReload ==
  ASSUME TypeOK, SettleInv, NEW w \in Workers,
         \A v \in Workers : v # w => sess'[v] = sess[v],
         sess'[w].doc = Doc(w), sess'[w].loaded = status[Doc(w)],
         Settling(w) => sess'[w].pc \in ReloadingPC \cup OwingPC,
         UNCHANGED <<status, pdf, faults>>
  PROVE  SettleInv'
<1>1. SettlesOn(w)
  BY DEF SettlesOn, Settling, Doc
<1>2. faults' \in Nat /\ faults' >= faults
  BY DEF TypeOK
<1> QED
  BY <1>1, <1>2, SettleFrame

\* A commit after which the row is read again.
LEMMA SettleCommit ==
  ASSUME TypeOK, SettleInv, NEW w \in Workers, sess[w].pc # "idle",
         \A v \in Workers : v # w => sess'[v] = sess[v],
         sess'[w].doc = Doc(w), sess'[w].pc \in ReloadingPC,
         NEW s \in DocumentStatus, WriteStatus(w, s) \/ status' = status,
         UNCHANGED <<pdf, faults>>
  PROVE  SettleInv'
<1>1. SettlesOn(w)
  BY DEF SettlesOn, Settling, Doc
<1>2. \A d \in Documents : status'[d] # status[d] => d = Doc(w)
  BY ServingSession, WriteStatusTyped
<1>3. faults' \in Nat /\ faults' >= faults
  BY DEF TypeOK
<1> QED
  BY <1>1, <1>2, <1>3, SettleFrame

\* The commit of an outcome: of a stage, of a failure, of a review.
LEMMA SettleOutcome ==
  ASSUME TypeOK, SettleInv, NEW w \in Workers, sess[w].pc \in OwingPC \cup ReviewPC,
         \A v \in Workers : v # w => sess'[v] = sess[v],
         NEW s \in DocumentStatus \ MidStage, WriteStatus(w, s),
         UNCHANGED <<pdf, faults>>
  PROVE  SettleInv'
<1>1. sess[w] \in Session /\ Doc(w) \in Documents
  BY ServingSession DEF OwingPC, ReviewPC
<1>2. \A d \in Documents : status'[d] # status[d] => d = Doc(w)
  BY <1>1, WriteStatusTyped
<1>3. status'[Doc(w)] = IF sess[w].loaded = s THEN status[Doc(w)] ELSE s
  BY <1>1 DEF WriteStatus, TypeOK
<1>4. Settling(w) => sess[w].loaded # s
  BY DEF Settling, ReloadingPC, OwingPC, ReviewPC
<1>5. SettlesOn(w)
  BY <1>3, <1>4 DEF SettlesOn
<1>6. faults' \in Nat /\ faults' >= faults
  BY DEF TypeOK
<1> QED
  BY <1>2, <1>5, <1>6, SettleFrame

LEMMA SettleAccept ==
  ASSUME TypeOK, SettleInv, NEW w \in Workers, Accept(w)
  PROVE  SettleInv'
<1>1. sess[w] = NoSession /\ UNCHANGED <<status, pdf, faults>>
  BY DEF Accept, AcceptExtraction, BeginEdit, BeginApprove, BeginReject, BeginReview, rowVars
<1>2. SettlesOn(w)
  BY <1>1 DEF SettlesOn, Settling, NoSession, ReloadingPC, OwingPC
<1>3. faults' \in Nat /\ faults' >= faults
  BY <1>1 DEF TypeOK
<1> QED
  BY <1>1, <1>2, <1>3, OthersUnchanged, SettleFrame

LEMMA SettleExtractionStep ==
  ASSUME TypeOK, SettleInv, NEW w \in Workers, ExtractionStep(w)
  PROVE  SettleInv'
<1> USE DEF RequestPC, ExtractionPC, AIPC, ValidationPC, FailurePC, ReloadingPC, OwingPC
<1>0. faults \in Nat /\ \A v \in Workers : v # w => sess'[v] = sess[v]
  BY OthersUnchanged DEF TypeOK, Step
<1>1. CASE StartTextExtraction(w) \/ StartOcr(w)
  <2>1. PICK s \in DocumentStatus, p \in {"started", "ocr_started"}, stage \in {"TEXT_EXTRACTION", "OCR"} :
          BeginStage(w, stage, s, p)
    BY <1>1 DEF StartTextExtraction, StartOcr, DocumentStatus
  <2>2. sess[w] \in Session /\ sess[w].pc # "idle"
    BY <1>1, ServingSession DEF StartTextExtraction, StartOcr
  <2>3. sess'[w].pc = p /\ sess'[w].doc = Doc(w)
    BY <2>1, <2>2 DEF BeginStage, TypeOK, Session, Doc
  <2> QED
    BY <1>0, <2>1, <2>2, <2>3, SettleCommit DEF BeginStage
<1>2. CASE Refresh(w)
  <2>1. sess[w].pc \in DOMAIN AfterRefresh /\ sess[w].pc # "idle"
    BY <1>2 DEF Refresh, AfterRefresh
  <2>2. sess[w] \in Session
    BY <2>1, ServingSession
  <2>3. /\ sess'[w].pc = AfterRefresh[sess[w].pc] /\ sess'[w].doc = Doc(w)
        /\ sess'[w].loaded = status[Doc(w)]
    BY <1>2, <2>2 DEF Refresh, TypeOK, Session, Doc
  <2>4. Settling(w) => AfterRefresh[sess[w].pc] \in ReloadingPC \cup OwingPC
    BY <2>1 DEF AfterRefresh, Settling
  <2> QED
    BY <1>0, <1>2, <2>3, <2>4, SettleReload DEF Refresh, rowVars
<1>3. CASE ReadPdf(w)
  <2>1. pdf[Doc(w)] \in PdfKind
    BY <1>3, ServingSession DEF ReadPdf, TypeOK
  <2>2. /\ NativeOutcome(pdf[Doc(w)]) \in {"save_text", "commit_ocr_required", "mark_failed", "idle"}
        /\ NativeOutcome(pdf[Doc(w)]) = "idle" => pdf[Doc(w)] = "encrypted"
    BY <2>1 DEF NativeOutcome, PdfKind
  <2> QED
    BY <1>0, <1>3, <2>2, SettleGoto DEF ReadPdf, rowVars
<1>4. CASE RunOcr(w) \/ OpenTextFile(w) \/ WriteTextFile(w) \/ DeleteText(w)
  <2>1. PICK p \in {"save_text", "mark_failed", "writing_text", "commit_text"} : Goto(w, p)
    BY <1>4 DEF RunOcr, OcrOutcomes, OpenTextFile, WriteTextFile, DeleteText
  <2> QED
    BY <1>0, <1>4, <2>1, SettleGoto
       DEF RunOcr, OpenTextFile, WriteTextFile, DeleteText, rowVars
<1>5. CASE CommitText(w) \/ CommitOcrRequired(w)
  BY <1>0, <1>5, SettleOutcome DEF CommitText, CommitOcrRequired, DocumentStatus, MidStage
<1> QED
  BY <1>1, <1>2, <1>3, <1>4, <1>5 DEF ExtractionStep

LEMMA SettleAIStep ==
  ASSUME TypeOK, SettleInv, NEW w \in Workers, AIStep(w)
  PROVE  SettleInv'
<1> USE DEF RequestPC, ExtractionPC, AIPC, ValidationPC, FailurePC, ReloadingPC, OwingPC
<1>0. faults \in Nat /\ \A v \in Workers : v # w => sess'[v] = sess[v]
  BY OthersUnchanged DEF TypeOK, Step
<1>1. CASE \/ StopAfterText(w) \/ QueryDraft(w) \/ ReadText(w) \/ AiFails(w)
           \/ DraftRefused(w) \/ Validate(w)
  <2>1. PICK p \in {"respond", "start_ai", "start_validation", "call_ai", "mark_failed",
                    "rolled_back", "commit_review"} :
          /\ Goto(w, p)
          /\ sess[w].pc = "route" \/ (sess[w].pc \in OwingPC /\ p \in ReloadingPC \cup OwingPC)
    BY <1>1 DEF StopAfterText, QueryDraft, AfterDraftQuery, ReadText, TextReadOutcomes,
                AiFails, DraftRefused, Validate
  <2> QED
    BY <1>0, <1>1, <2>1, SettleGoto
       DEF StopAfterText, QueryDraft, ReadText, AiFails, DraftRefused, Validate, rowVars
<1>2. CASE StartAiExtraction(w)
  <2>1. sess[w] \in Session /\ sess[w].pc # "idle"
    BY <1>2, ServingSession DEF StartAiExtraction
  <2>2. sess'[w].pc = "ai_started" /\ sess'[w].doc = Doc(w)
    BY <1>2, <2>1 DEF StartAiExtraction, BeginStage, TypeOK, Session, Doc
  <2> QED
    BY <1>0, <1>2, <2>1, <2>2, SettleCommit DEF StartAiExtraction, BeginStage, DocumentStatus
<1>3. CASE AiAnswers(w)
  <2>1. sess[w] \in Session
    BY <1>3, ServingSession DEF AiAnswers
  <2>2. sess'[w].pc = "persist" /\ sess'[w].doc = Doc(w) /\ sess'[w].loaded = sess[w].loaded
    BY <1>3, <2>1 DEF AiAnswers, TypeOK, Session, Doc
  <2>3. UNCHANGED <<status, pdf, faults>> /\ sess[w].pc = "call_ai"
    BY <1>3 DEF AiAnswers, rowVars
  <2>4. SettlesOn(w)
    BY <2>2, <2>3 DEF SettlesOn, Settling, Doc
  <2> QED
    BY <1>0, <2>3, <2>4, SettleFrame
<1>4. CASE PersistDraft(w) \/ StartValidation(w)
  <2>1. sess[w] \in Session /\ sess[w].pc # "idle"
    BY <1>4, ServingSession DEF PersistDraft, StartValidation
  <2>2. sess'[w].pc \in ReloadingPC /\ sess'[w].doc = Doc(w)
    BY <1>4, <2>1 DEF PersistDraft, StartValidation, TypeOK, Session, Doc
  <2>3. WriteStatus(w, "VALIDATING_RESULT") \/ status' = status
    BY <1>4 DEF PersistDraft, StartValidation, rowVars
  <2>4. UNCHANGED <<pdf, faults>>
    BY <1>4 DEF PersistDraft, StartValidation
  <2> QED
    BY <1>0, <2>1, <2>2, <2>3, <2>4, SettleCommit DEF DocumentStatus
<1>5. CASE LoadDraft(w)
  <2>1. sess[w] \in Session
    BY <1>5, ServingSession DEF LoadDraft
  <2>2. /\ sess'[w].pc \in {"mark_failed", "validate"} /\ sess'[w].doc = Doc(w)
        /\ sess'[w].loaded = status[Doc(w)]
    BY <1>5, <2>1 DEF LoadDraft, TypeOK, Session, Doc
  <2> QED
    BY <1>0, <1>5, <2>2, SettleReload DEF LoadDraft, rowVars
<1>6. CASE CommitReviewRequired(w)
  BY <1>0, <1>6, SettleOutcome DEF CommitReviewRequired, DocumentStatus, MidStage
<1> QED
  BY <1>1, <1>2, <1>3, <1>4, <1>5, <1>6 DEF AIStep

LEMMA SettleReviewStep ==
  ASSUME TypeOK, SettleInv, NEW w \in Workers, ReviewStep(w)
  PROVE  SettleInv'
<1> USE DEF RequestPC, ReviewPC, ReloadingPC, OwingPC
<1>0. faults \in Nat /\ \A v \in Workers : v # w => sess'[v] = sess[v]
  BY OthersUnchanged DEF TypeOK, Step
<1>1. CASE LoadInvoice(w) \/ CommitEdit(w) \/ ReviewAborts(w)
  <2>1. PICK p \in {"idle", "commit_edit", "commit_reject", "commit_approve"} : Goto(w, p)
    BY <1>1 DEF LoadInvoice, AfterLoad, CommitEdit, ReviewAborts
  <2> QED
    BY <1>0, <1>1, <2>1, SettleGoto DEF LoadInvoice, CommitEdit, ReviewAborts, rowVars
<1>2. CASE CommitApproval(w) \/ CommitRejection(w)
  BY <1>0, <1>2, SettleOutcome
     DEF CommitApproval, CommitRejection, DocumentStatus, MidStage
<1> QED
  BY <1>1, <1>2 DEF ReviewStep

LEMMA SettleFailureStep ==
  ASSUME TypeOK, SettleInv, NEW w \in Workers, FailureStep(w) \/ Respond(w)
  PROVE  SettleInv'
<1> USE DEF RequestPC, FailurePC, ReloadingPC, OwingPC
<1>0. faults \in Nat /\ \A v \in Workers : v # w => sess'[v] = sess[v]
  BY OthersUnchanged DEF TypeOK, Step
<1>1. CASE ReloadAfterRollback(w)
  <2>1. sess[w] \in Session
    BY <1>1, ServingSession DEF ReloadAfterRollback
  <2>2. /\ sess'[w].pc \in {"delete_text", "mark_failed"} /\ sess'[w].doc = Doc(w)
        /\ sess'[w].loaded = status[Doc(w)]
    BY <1>1, <2>1 DEF ReloadAfterRollback, TypeOK, Session, Doc
  <2> QED
    BY <1>0, <1>1, <2>2, SettleReload DEF ReloadAfterRollback, rowVars
<1>2. CASE MarkFailed(w)
  BY <1>0, <1>2, SettleOutcome DEF MarkFailed, DocumentStatus, MidStage
<1>3. CASE Respond(w)
  BY <1>0, <1>3, SettleGoto DEF Respond, rowVars
<1> QED
  BY <1>1, <1>2, <1>3 DEF FailureStep

LEMMA SettleInterrupt ==
  ASSUME TypeOK, SettleInv, NEW w \in Workers, Interrupt(w)
  PROVE  SettleInv'
<1>1. faults \in Nat /\ faults' = faults + 1
  BY DEF Interrupt, ExtractionStatementFails, AIStatementFails, FailureNotRecorded, Crash,
         Fault, TypeOK
<1>2. PICK p \in FailurePC \cup {"idle"} : Goto(w, p)
  BY InterruptGoto
<1> QED
  BY <1>1, <1>2, InterruptGoto, SettleGoto DEF RequestPC

\* SettleInv is inductive.
LEMMA SettleInvAlways == Spec => []SettleInv
<1>1. Init => SettleInv
  BY DEF Init, SettleInv, MidStage
<1>2. TypeOK /\ SettleInv /\ [Next]_vars => SettleInv'
  <2> SUFFICES ASSUME TypeOK, SettleInv, [Next]_vars PROVE SettleInv'
    OBVIOUS
  <2>1. CASE Next
    BY <2>1, SettleAccept, SettleExtractionStep, SettleAIStep, SettleReviewStep,
       SettleFailureStep, SettleInterrupt DEF Next, Step
  <2>2. CASE UNCHANGED vars
    BY <2>2 DEF vars, SettleInv, Settling, Doc
  <2> QED
    BY <2>1, <2>2
<1> QED
  BY TypeCorrect, <1>1, <1>2, PTL DEF Spec

\* Without faults, a document no request works on is not in the middle of a
\* stage, whichever of several workers wrote its status last.
THEOREM RestsSettledAlways == Spec => []RestsSettled
<1>1. SettleInv => RestsSettled
  BY DEF SettleInv, RestsSettled, AtRest, Settling, NoSession, ReloadingPC, OwingPC
<1> QED
  BY SettleInvAlways, <1>1, PTL
=============================================================================
