-------------------------- MODULE DocumentLifecycle --------------------------
(***************************************************************************)
(* The life of uploaded documents: workers serving extract-text, edit,     *)
(* approve and reject calls over one database and one storage directory,   *)
(* with statements that fail and processes that die at any point.          *)
(***************************************************************************)
EXTENDS AIExtraction, Review

Init ==
  /\ status = [d \in Documents |-> "UPLOADED"]
  /\ textKey = [d \in Documents |-> FALSE]
  /\ draft = [d \in Documents |-> NoDraft]
  /\ approvedBy = [d \in Documents |-> NoUser]
  /\ rejectedBy = [d \in Documents |-> NoUser]
  /\ jobs = << >>
  /\ pdf \in [Documents -> PdfKind]
  /\ artifact = [d \in Documents |-> "none"]
  /\ sess = [w \in Workers |-> NoSession]
  /\ faults = 0

\* A client's call arrives at an idle worker.
Accept(w) ==
  \E u \in Users, d \in Documents :
    \/ AcceptExtraction(w, u, d)
    \/ BeginEdit(w, u, d)
    \/ BeginApprove(w, u, d)
    \/ BeginReject(w, u, d)

\* The handler executes its next statement and the statement does not raise.
ExtractionStep(w) ==
  \/ StartTextExtraction(w) \/ Refresh(w) \/ ReadPdf(w)
  \/ StartOcr(w) \/ RunOcr(w)
  \/ OpenTextFile(w) \/ WriteTextFile(w) \/ DeleteText(w)
  \/ CommitText(w) \/ CommitOcrRequired(w)

AIStep(w) ==
  \/ StopAfterText(w) \/ QueryDraft(w)
  \/ StartAiExtraction(w) \/ ReadText(w) \/ AiAnswers(w) \/ AiFails(w)
  \/ PersistDraft(w) \/ DraftRefused(w)
  \/ StartValidation(w) \/ LoadDraft(w) \/ Validate(w)
  \/ CommitReviewRequired(w)

ReviewStep(w) ==
  \/ LoadInvoice(w) \/ CommitEdit(w) \/ CommitApproval(w)
  \/ CommitRejection(w) \/ ReviewAborts(w)

FailureStep(w) == ReloadAfterRollback(w) \/ MarkFailed(w)

Step(w) == ExtractionStep(w) \/ AIStep(w) \/ ReviewStep(w) \/ FailureStep(w) \/ Respond(w)

\* An infrastructure fault interrupts the request.
Interrupt(w) ==
  \/ ExtractionStatementFails(w) \/ AIStatementFails(w)
  \/ FailureNotRecorded(w) \/ Crash(w)

Next == \E w \in Workers : Accept(w) \/ Step(w) \/ Interrupt(w)

Spec == Init /\ [][Next]_vars

\* A handler that was started runs: nothing in it waits for another request.
\* No call has to arrive and no fault has to happen.
FairSpec == Spec /\ \A w \in Workers : WF_vars(Step(w))

----------------------------------------------------------------------------
(* Properties that hold for any number of workers.                         *)

\* A document whose status says that extraction produced an invoice has its
\* invoice row, whatever failed and however calls overlapped: review,
\* approval and export never find a document without data.
ReviewableHasDraft ==
  \A d \in Documents :
    status[d] \in {"VALIDATING_RESULT", "REVIEW_REQUIRED", "APPROVED", "REJECTED"}
      => draft[d] # NoDraft

\* APPROVED and REJECTED are never shown without the decision they stand
\* for: status and decision columns are committed together.
DecisionIsRecorded ==
  \A d \in Documents :
    /\ status[d] = "APPROVED" => approvedBy[d] # NoUser
    /\ status[d] = "REJECTED" => rejectedBy[d] # NoUser

\* Whoever decided about a document belongs to the document's organization.
DecidedWithinOrganization ==
  \A d \in Documents, u \in Users :
    u \in {approvedBy[d], rejectedBy[d]} => OrgOf[u] = OrgOf[d]

\* The job history never claims a second successful AI extraction of one
\* document, even when two workers pay for one at the same time.
OneAiSuccess ==
  \A i, j \in DOMAIN jobs :
    /\ jobs[i].doc = jobs[j].doc
    /\ jobs[i].stage = "AI_EXTRACTION" /\ jobs[j].stage = "AI_EXTRACTION"
    /\ jobs[i].status = "SUCCESS" /\ jobs[j].status = "SUCCESS"
    => i = j

\* A document is FAILED only if a stage of it is recorded as FAILED: the two
\* rows of mark_failed are one commit.
FailureIsExplained ==
  \A d \in Documents :
    status[d] = "FAILED" =>
      \E i \in DOMAIN jobs : jobs[i].doc = d /\ jobs[i].status = "FAILED"

\* A RUNNING job has a handler working on it, unless a fault cut the handler
\* short or the PDF needs a password, which no handler catches.
RunningJobIsServed ==
  \A i \in DOMAIN jobs :
    jobs[i].status = "RUNNING" =>
      \/ \E w \in Workers : sess[w] # NoSession /\ sess[w].job = i
      \/ faults > 0
      \/ pdf[jobs[i].doc] = "encrypted"

\* Without faults no document is left in the middle of a stage, except one
\* whose PDF needs a password: every handler ends by committing an outcome.
MidStage == {"EXTRACTING_TEXT", "OCR_PROCESSING", "AI_PROCESSING", "VALIDATING_RESULT"}

SettlesWithoutFaults ==
  \A d \in Documents :
    status[d] \in MidStage /\ pdf[d] # "encrypted"
      ~> status[d] \notin MidStage \/ faults > 0

\* Nobody works on the document.
AtRest(d) == \A w \in Workers : sess[w] # NoSession => Doc(w) # d

\* The same without fairness: whichever of several workers wrote last, a
\* document nobody works on shows the outcome of a stage and not its middle.
RestsSettled ==
  \A d \in Documents :
    AtRest(d) /\ faults = 0 /\ pdf[d] # "encrypted" => status[d] \notin MidStage

\* What makes ReviewableHasDraft inductive: a request past the point where
\* the draft was written or loaded works on a document that has one.
DraftPC ==
  { "draft_committed", "start_validation", "validation_started", "validate",
    "commit_review", "review_committed",
    "commit_edit", "commit_approve", "commit_reject" }

DraftInv ==
  /\ ReviewableHasDraft
  /\ \A w \in Workers :
       /\ sess[w].pc \in DraftPC => draft[Doc(w)] # NoDraft
       /\ At(w, "persist") => sess[w].held \in Contents

\* What makes DecidedWithinOrganization inductive.
OrganizationInv ==
  /\ DecidedWithinOrganization
  /\ \A w \in Workers :
       sess[w] # NoSession => OrgOf[sess[w].user] = OrgOf[Doc(w)]

----------------------------------------------------------------------------
(* Properties of the shipped deployment, which runs one worker.            *)

OneWorker == \A v, w \in Workers : v = w

ValidationCompleted(d) ==
  \E i \in DOMAIN jobs :
    jobs[i].doc = d /\ jobs[i].stage = "RESULT_VALIDATION" /\ jobs[i].status = "SUCCESS"

Decided(d) == approvedBy[d] # NoUser \/ rejectedBy[d] # NoUser

\* A document is under review, approved or rejected, or was ever decided
\* about, only after its draft went through a validation run, and that run
\* stays recorded as successful, whatever calls fail later.
ReviewFollowsValidation ==
  \A d \in Documents :
    status[d] \in {"REVIEW_REQUIRED", "APPROVED", "REJECTED"} \/ Decided(d)
      => ValidationCompleted(d)

\* No document is both approved and rejected.
OneDecision ==
  \A d \in Documents : approvedBy[d] = NoUser \/ rejectedBy[d] = NoUser

\* Approved data has no validation errors: the gate saw what was approved.
ApprovedIsClean ==
  \A d \in Documents : approvedBy[d] # NoUser => draft[d] \in Clean

\* Once a decision is recorded the invoice it was about never changes, not
\* even when the document is sent through extraction again.
DecidedDataIsFrozen ==
  [][\A d \in Documents :
       approvedBy[d] # NoUser \/ rejectedBy[d] # NoUser => draft'[d] = draft[d]]_vars

\* The paid provider is never called for a document that has a draft.
NoSecondPaidCall ==
  \A w \in Workers : At(w, "call_ai") => draft[Doc(w)] = NoDraft

\* One fault, whichever it is, never leaves a document that claims its text
\* was extracted without that text in storage, once the call that met the
\* fault is over.
ExtractedTextIsStored ==
  \A d \in Documents :
    status[d] = "TEXT_EXTRACTED" /\ AtRest(d) /\ faults <= 1
      => textKey[d] /\ artifact[d] = "complete"

\* What makes these inductive for one worker: a decision closes the way back
\* to review, and the request in progress saw the state as it still is.
DecisionClosesReview ==
  \A d \in Documents :
    Decided(d) => /\ status[d] \notin {"VALIDATING_RESULT", "REVIEW_REQUIRED"}
                  /\ draft[d] # NoDraft

CurrentRequest(w) ==
  /\ sess[w].pc \in ReviewPC =>
       sess[w].loaded = "REVIEW_REQUIRED" /\ status[Doc(w)] = "REVIEW_REQUIRED"
  /\ At(w, "commit_approve") => draft[Doc(w)] \in Clean
  /\ sess[w].pc \in AIPC \ {"draft_committed"} => draft[Doc(w)] = NoDraft
  /\ sess[w].pc \in ValidationPC \cup {"draft_committed"} => ~Decided(Doc(w))

RequestIsCurrent == \A w \in Workers : CurrentRequest(w)

\* What makes ReviewFollowsValidation inductive beside them: a request whose
\* job is a validation, which mark_failed may still take back, works on an
\* undecided document.
ValidatingIsUndecided ==
  \A w \in Workers :
    /\ sess[w].pc \in RequestPC \ (ReviewPC \cup {"start"})
    /\ jobs[sess[w].job].stage = "RESULT_VALIDATION"
    => ~Decided(Doc(w))

SoloInv == DecisionClosesReview /\ RequestIsCurrent /\ OneDecision /\ ApprovedIsClean

----------------------------------------------------------------------------
(* What one worker promises.                                               *)

PhaseOf(s) ==
  CASE s = "REVIEW_REQUIRED" -> "review"
    [] s = "APPROVED"        -> "approved"
    [] s = "REJECTED"        -> "rejected"
    [] OTHER                 -> "processing"

VerdictOn(d) ==
  CASE approvedBy[d] # NoUser -> "approved"
    [] rejectedBy[d] # NoUser -> "rejected"
    [] OTHER                  -> "none"

Workflow == INSTANCE DocumentWorkflow WITH
  phase   <- [d \in Documents |-> PhaseOf(status[d])],
  invoice <- draft,
  verdict <- [d \in Documents |-> VerdictOn(d)]

\* With one worker, faults and repeated calls included, a client who sees only
\* what may be done about a document, its invoice and the verdict sees the
\* simple workflow: every commit is one of its steps, every other statement
\* is invisible.
ImplementsWorkflow == Workflow!Spec

----------------------------------------------------------------------------
(* What the repository says and the code does not do.                      *)

\* models/invoice.py: approve and reject are terminal outcomes.
DecisionIsTerminal ==
  [][\A d \in Documents :
       status[d] \in {"APPROVED", "REJECTED"} => status'[d] = status[d]]_vars

\* invoice_extraction_service.py: a call that finds a draft whose validation
\* never completed resumes from validation.
DraftResumesAtValidation ==
  [][\A w \in Workers :
       At(w, "route") /\ ContinuesToAi(w) /\ draft[Doc(w)] # NoDraft
         /\ ~ValidationCompleted(Doc(w)) /\ faults' = faults /\ sess'[w] # sess[w]
       => sess'[w].pc = "start_validation"]_vars
=============================================================================
