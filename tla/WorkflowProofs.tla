--------------------------- MODULE WorkflowProofs ---------------------------
(***************************************************************************)
(* With one worker, DocumentLifecycle implements DocumentWorkflow, for     *)
(* every number of documents and users and every set of contents.  The     *)
(* five commits that write an invoice, offer it for review or decide are   *)
(* the abstract steps; any other statement changes at most one status, and *)
(* only to one that means the document is being processed.  Exports served *)
(* beside it meet no more than this, and their rows went through review.   *)
(***************************************************************************)
EXTENDS SingleWorkerProofs, ServedExport, SequenceTheorems, FiniteSetTheorems

USE DEF At

PhaseStatus == {"REVIEW_REQUIRED", "APPROVED", "REJECTED"}

WorkflowStep == [Workflow!Next]_(Workflow!workflowVars)

\* A step that at most sends the request's document back to processing.
QuietStep(w) ==
  /\ UNCHANGED <<draft, approvedBy, rejectedBy>>
  /\ \/ status' = status
     \/ /\ Doc(w) \in Documents
        /\ \E s \in DocumentStatus \ PhaseStatus : status' = [status EXCEPT ![Doc(w)] = s]

LEMMA QuietWrite ==
  ASSUME TypeOK, NEW w \in Workers, sess[w].pc # "idle",
         NEW s \in DocumentStatus \ PhaseStatus, WriteStatus(w, s),
         UNCHANGED <<draft, approvedBy, rejectedBy>>
  PROVE  QuietStep(w)
<1>1. Doc(w) \in Documents
  BY ServingSession
<1>2. CASE sess[w].loaded = s
  <2>1. status' = status
    BY <1>1, <1>2 DEF WriteStatus, TypeOK
  <2> QED
    BY <2>1 DEF QuietStep
<1>3. CASE sess[w].loaded # s
  <2>1. status' = [status EXCEPT ![Doc(w)] = s]
    BY <1>3 DEF WriteStatus
  <2> QED
    BY <1>1, <2>1 DEF QuietStep
<1> QED
  BY <1>2, <1>3

\* The commits that a client of the workflow can see.
VisibleCommit(w) ==
  \/ PersistDraft(w) \/ CommitReviewRequired(w)
  \/ CommitEdit(w) \/ CommitApproval(w) \/ CommitRejection(w)

\* Every other step is quiet.
LEMMA QuietSteps ==
  ASSUME TypeOK, NEW w \in Workers, Accept(w) \/ Step(w) \/ Interrupt(w), ~VisibleCommit(w)
  PROVE  QuietStep(w)
<1> USE DEF DocumentStatus, PhaseStatus
<1>1. CASE Accept(w)
  BY <1>1 DEF Accept, AcceptExtraction, BeginEdit, BeginApprove, BeginReject,
              BeginReview, QuietStep, rowVars
<1>2. CASE ExtractionStep(w)
  <2>1. CASE StartTextExtraction(w) \/ StartOcr(w)
    BY <2>1, QuietWrite DEF StartTextExtraction, StartOcr, BeginStage
  <2>2. CASE CommitText(w) \/ CommitOcrRequired(w)
    BY <2>2, QuietWrite DEF CommitText, CommitOcrRequired
  <2>3. CASE \/ Refresh(w) \/ ReadPdf(w) \/ RunOcr(w) \/ OpenTextFile(w)
             \/ WriteTextFile(w) \/ DeleteText(w)
    BY <2>3 DEF Refresh, ReadPdf, RunOcr, OpenTextFile, WriteTextFile, DeleteText,
                QuietStep, rowVars
  <2> QED
    BY <1>2, <2>1, <2>2, <2>3 DEF ExtractionStep
<1>3. CASE AIStep(w)
  <2>1. CASE StartAiExtraction(w)
    BY <2>1, QuietWrite DEF StartAiExtraction, BeginStage
  <2>2. CASE \/ StopAfterText(w) \/ QueryDraft(w) \/ ReadText(w) \/ AiAnswers(w)
             \/ AiFails(w) \/ DraftRefused(w) \/ StartValidation(w) \/ LoadDraft(w)
             \/ Validate(w)
    BY <2>2 DEF StopAfterText, QueryDraft, ReadText, AiAnswers, AiFails, DraftRefused,
                StartValidation, LoadDraft, Validate, QuietStep, rowVars
  <2> QED
    BY <1>3, <2>1, <2>2 DEF AIStep, VisibleCommit
<1>4. CASE ReviewStep(w)
  BY <1>4 DEF ReviewStep, VisibleCommit, LoadInvoice, ReviewAborts, QuietStep, rowVars
<1>5. CASE FailureStep(w) \/ Respond(w)
  <2>1. CASE MarkFailed(w)
    BY <2>1, QuietWrite DEF MarkFailed
  <2>2. CASE ReloadAfterRollback(w) \/ Respond(w)
    BY <2>2 DEF ReloadAfterRollback, Respond, QuietStep, rowVars
  <2> QED
    BY <1>5, <2>1, <2>2 DEF FailureStep
<1>6. CASE Interrupt(w)
  BY <1>6, InterruptGoto DEF QuietStep
<1> QED
  BY <1>1, <1>2, <1>3, <1>4, <1>5, <1>6 DEF Step

\* A quiet step is Reprocess, or is not seen.
LEMMA QuietIsReprocess ==
  ASSUME TypeOK, NEW w \in Workers, QuietStep(w)
  PROVE  WorkflowStep
<1> USE DEF WorkflowStep, Workflow!workflowVars
<1>1. /\ draft' = draft
      /\ [d \in Documents |-> VerdictOn(d)]' = [d \in Documents |-> VerdictOn(d)]
  BY DEF QuietStep, VerdictOn
<1>2. CASE status' = status
  BY <1>1, <1>2
<1>3. ASSUME NEW s \in DocumentStatus \ PhaseStatus, Doc(w) \in Documents,
             status' = [status EXCEPT ![Doc(w)] = s]
      PROVE  WorkflowStep
  <2>1. PhaseOf(s) = "processing"
    BY DEF PhaseOf, PhaseStatus, DocumentStatus
  <2>2. [d \in Documents |-> PhaseOf(status[d])]'
          = [[d \in Documents |-> PhaseOf(status[d])] EXCEPT ![Doc(w)] = "processing"]
    BY <1>3, <2>1 DEF TypeOK
  <2>3. Workflow!Reprocess(Doc(w))
    BY <1>1, <2>2 DEF Workflow!Reprocess
  <2> QED
    BY <1>3, <2>3 DEF Workflow!Next
<1> QED
  BY <1>2, <1>3 DEF QuietStep

\* Persisting the draft is Extract: with no invoice yet, the document was in
\* no phase that needs one.
LEMMA PersistIsExtract ==
  ASSUME OneWorker, TypeOK, DraftInv, NEW w \in Workers, PersistDraft(w)
  PROVE  WorkflowStep
<1>1. Doc(w) \in Documents /\ draft[Doc(w)] = NoDraft
  BY ServingSession DEF PersistDraft, InvoiceIsUnique
<1>2. PhaseOf(status[Doc(w)]) = "processing"
  BY <1>1 DEF DraftInv, ReviewableHasDraft, PhaseOf
<1>3. \A d \in Documents : PhaseOf(status'[d]) = PhaseOf(status[d])
  BY <1>1, <1>2 DEF PersistDraft, WriteStatus, TypeOK, PhaseOf
<1>4. sess[w].held \in Contents /\ draft' = [draft EXCEPT ![Doc(w)] = sess[w].held]
  BY DEF PersistDraft, DraftInv
<1>5. /\ [d \in Documents |-> PhaseOf(status[d])]' = [d \in Documents |-> PhaseOf(status[d])]
      /\ [d \in Documents |-> VerdictOn(d)]' = [d \in Documents |-> VerdictOn(d)]
  BY <1>3 DEF PersistDraft, VerdictOn
<1>6. Workflow!Extract(Doc(w))
  BY <1>1, <1>2, <1>4, <1>5 DEF Workflow!Extract
<1> QED
  BY <1>1, <1>6 DEF WorkflowStep, Workflow!Next

\* Offering the document is Offer: nobody has decided about it, so it showed
\* no verdict either.
LEMMA ReviewRequiredIsOffer ==
  ASSUME OneWorker, TypeOK, DraftInv, SoloInv, DecisionIsRecorded,
         NEW w \in Workers, CommitReviewRequired(w)
  PROVE  WorkflowStep
<1>1. Doc(w) \in Documents /\ draft[Doc(w)] # NoDraft
  BY ServingSession DEF CommitReviewRequired, DraftInv, DraftPC
<1>2. ~Decided(Doc(w))
  BY DEF CommitReviewRequired, SoloInv, RequestIsCurrent, CurrentRequest, ValidationPC
<1>3. VerdictOn(Doc(w)) = "none" /\ status[Doc(w)] \notin {"APPROVED", "REJECTED"}
  BY <1>1, <1>2 DEF VerdictOn, Decided, DecisionIsRecorded
<1>4. /\ draft' = draft
      /\ [d \in Documents |-> VerdictOn(d)]' = [d \in Documents |-> VerdictOn(d)]
  BY DEF CommitReviewRequired, VerdictOn
<1>5. CASE status'[Doc(w)] = status[Doc(w)]
  <2>1. status' = status
    BY <1>1, <1>5 DEF CommitReviewRequired, WriteStatus, TypeOK
  <2> QED
    BY <1>4, <2>1 DEF WorkflowStep, Workflow!workflowVars
<1>6. CASE status'[Doc(w)] # status[Doc(w)]
  <2>1. /\ status' = [status EXCEPT ![Doc(w)] = "REVIEW_REQUIRED"]
        /\ status[Doc(w)] # "REVIEW_REQUIRED"
    BY <1>1, <1>6 DEF CommitReviewRequired, WriteStatus, TypeOK
  <2>2. PhaseOf(status[Doc(w)]) = "processing"
    BY <1>3, <2>1 DEF PhaseOf
  <2>3. [d \in Documents |-> PhaseOf(status[d])]'
          = [[d \in Documents |-> PhaseOf(status[d])] EXCEPT ![Doc(w)] = "review"]
    BY <2>1 DEF PhaseOf, TypeOK
  <2>4. Workflow!Offer(Doc(w))
    BY <1>1, <1>3, <1>4, <2>2, <2>3 DEF Workflow!Offer
  <2> QED
    BY <1>1, <2>4 DEF WorkflowStep, Workflow!Next
<1> QED
  BY <1>5, <1>6

LEMMA EditIsEdit ==
  ASSUME OneWorker, TypeOK, SoloInv, NEW w \in Workers, CommitEdit(w)
  PROVE  WorkflowStep
<1>1. Doc(w) \in Documents /\ status[Doc(w)] = "REVIEW_REQUIRED"
  BY ServingSession DEF CommitEdit, SoloInv, RequestIsCurrent, CurrentRequest, ReviewPC
<1>2. PhaseOf(status[Doc(w)]) = "review"
  BY <1>1 DEF PhaseOf
<1>3. status' = status /\ approvedBy' = approvedBy /\ rejectedBy' = rejectedBy
  BY DEF CommitEdit
<1>4. [d \in Documents |-> VerdictOn(d)]' = [d \in Documents |-> VerdictOn(d)]
  BY <1>3 DEF VerdictOn
<1>5. \E c \in Contents : draft' = [draft EXCEPT ![Doc(w)] = c]
  BY DEF CommitEdit
<1>6. Workflow!Edit(Doc(w))
  BY <1>1, <1>2, <1>3, <1>4, <1>5 DEF Workflow!Edit
<1> QED
  BY <1>1, <1>6 DEF WorkflowStep, Workflow!Next

\* What both decisions have in common.
LEMMA Deciding ==
  ASSUME OneWorker, TypeOK, SoloInv, DraftInv, NEW w \in Workers,
         CommitApproval(w) \/ CommitRejection(w)
  PROVE  /\ Doc(w) \in Documents /\ sess[w].user \in Users
         /\ PhaseOf(status[Doc(w)]) = "review" /\ VerdictOn(Doc(w)) = "none"
         /\ approvedBy[Doc(w)] = NoUser /\ rejectedBy[Doc(w)] = NoUser
         /\ sess[w].loaded = "REVIEW_REQUIRED"
<1>1. Doc(w) \in Documents /\ sess[w].user \in Users
  BY ApprovalEffect, RejectionEffect
<1>2. sess[w].loaded = "REVIEW_REQUIRED" /\ status[Doc(w)] = "REVIEW_REQUIRED"
  BY DEF CommitApproval, CommitRejection, SoloInv, RequestIsCurrent, CurrentRequest, ReviewPC
<1>3. approvedBy[Doc(w)] = NoUser /\ rejectedBy[Doc(w)] = NoUser
  BY <1>1, <1>2 DEF SoloInv, DecisionClosesReview, Decided
<1> QED
  BY <1>1, <1>2, <1>3 DEF PhaseOf, VerdictOn

LEMMA ApprovalIsDecide ==
  ASSUME OneWorker, TypeOK, SoloInv, DraftInv, NEW w \in Workers, CommitApproval(w)
  PROVE  WorkflowStep
<1>1. draft[Doc(w)] \in Clean /\ draft' = draft
  BY DEF CommitApproval, SoloInv, RequestIsCurrent, CurrentRequest
<1>2. [d \in Documents |-> PhaseOf(status[d])]'
        = [[d \in Documents |-> PhaseOf(status[d])] EXCEPT ![Doc(w)] = "approved"]
  <2>1. status' = [status EXCEPT ![Doc(w)] = "APPROVED"]
    BY Deciding DEF CommitApproval, WriteStatus
  <2> QED
    BY <2>1 DEF PhaseOf, TypeOK
<1>3. [d \in Documents |-> VerdictOn(d)]'
        = [[d \in Documents |-> VerdictOn(d)] EXCEPT ![Doc(w)] = "approved"]
  <2>1. /\ \A d \in Documents :
             approvedBy'[d] = IF d = Doc(w) THEN sess[w].user ELSE approvedBy[d]
        /\ rejectedBy' = rejectedBy /\ sess[w].user # NoUser
        /\ rejectedBy[Doc(w)] = NoUser
    BY Deciding, ApprovalEffect, StoreAssumption
  <2>2. \A d \in Documents :
          VerdictOn(d)' = IF d = Doc(w) THEN "approved" ELSE VerdictOn(d)
    BY <2>1 DEF VerdictOn
  <2> QED
    BY Deciding, <2>2
<1>4. Workflow!Decide(Doc(w), "approved")
  BY Deciding, <1>1, <1>2, <1>3 DEF Workflow!Decide
<1> QED
  BY Deciding, <1>4 DEF WorkflowStep, Workflow!Next

LEMMA RejectionIsDecide ==
  ASSUME OneWorker, TypeOK, SoloInv, DraftInv, NEW w \in Workers, CommitRejection(w)
  PROVE  WorkflowStep
<1>1. [d \in Documents |-> PhaseOf(status[d])]'
        = [[d \in Documents |-> PhaseOf(status[d])] EXCEPT ![Doc(w)] = "rejected"]
  <2>1. status' = [status EXCEPT ![Doc(w)] = "REJECTED"]
    BY Deciding DEF CommitRejection, WriteStatus
  <2> QED
    BY <2>1 DEF PhaseOf, TypeOK
<1>2. [d \in Documents |-> VerdictOn(d)]'
        = [[d \in Documents |-> VerdictOn(d)] EXCEPT ![Doc(w)] = "rejected"]
  <2>1. /\ \A d \in Documents :
             rejectedBy'[d] = IF d = Doc(w) THEN sess[w].user ELSE rejectedBy[d]
        /\ approvedBy' = approvedBy /\ sess[w].user # NoUser
        /\ approvedBy[Doc(w)] = NoUser
    BY Deciding, RejectionEffect, StoreAssumption
  <2>2. \A d \in Documents :
          VerdictOn(d)' = IF d = Doc(w) THEN "rejected" ELSE VerdictOn(d)
    BY <2>1 DEF VerdictOn
  <2> QED
    BY Deciding, <2>2
<1>3. Workflow!Decide(Doc(w), "rejected")
  BY Deciding, <1>1, <1>2 DEF Workflow!Decide, CommitRejection
<1> QED
  BY Deciding, <1>3 DEF WorkflowStep, Workflow!Next

----------------------------------------------------------------------------
(* The refinement.                                                         *)

LEMMA WorkflowSteps ==
  ASSUME OneWorker, TypeOK, DraftInv, SoloInv, DecisionIsRecorded,
         NEW w \in Workers, Accept(w) \/ Step(w) \/ Interrupt(w)
  PROVE  WorkflowStep
<1>1. CASE VisibleCommit(w)
  BY <1>1, PersistIsExtract, ReviewRequiredIsOffer, EditIsEdit, ApprovalIsDecide,
     RejectionIsDecide DEF VisibleCommit
<1>2. CASE ~VisibleCommit(w)
  BY <1>2, QuietSteps, QuietIsReprocess
<1> QED
  BY <1>1, <1>2

\* One API process, whatever fails, crashes or is repeated, looks to a client
\* like the simple workflow of extract, offer, edit and decide.
THEOREM ImplementsWorkflowAlways == OneWorker => (Spec => ImplementsWorkflow)
<1> SUFFICES ASSUME OneWorker PROVE Spec => ImplementsWorkflow
  OBVIOUS
<1>1. Init => Workflow!Init
  BY DEF Init, Workflow!Init, PhaseOf, VerdictOn
<1>2. TypeOK /\ DraftInv /\ SoloInv /\ DecisionIsRecorded /\ [Next]_vars
        => [Workflow!Next]_(Workflow!workflowVars)
  <2> SUFFICES ASSUME TypeOK, DraftInv, SoloInv, DecisionIsRecorded, [Next]_vars
               PROVE  WorkflowStep
    BY DEF WorkflowStep
  <2>1. CASE UNCHANGED vars
    BY <2>1 DEF vars, WorkflowStep, Workflow!workflowVars, VerdictOn
  <2> QED
    BY <2>1, WorkflowSteps DEF Next
<1> QED
  BY TypeCorrect, DraftInvAlways, SoloInvAlways, DecisionIsRecordedAlways, <1>1, <1>2, PTL
     DEF Spec, ImplementsWorkflow, Workflow!Spec

----------------------------------------------------------------------------
(* Exports beside the services.                                            *)

\* Without the exports' own state the composition is the lifecycle.
LEMMA ServedIsSpec == ServedSpec => Spec
<1>1. ServedInit => Init
  BY DEF ServedInit
<1>2. [ServedNext]_servedVars => [Next]_vars
  <2> SUFFICES ASSUME [ServedNext]_servedVars PROVE [Next]_vars
    OBVIOUS
  <2>1. CASE UNCHANGED servedVars
    BY <2>1 DEF servedVars
  <2>2. ASSUME NEW w \in Workers, Serve(w) PROVE Next
    BY <2>2 DEF Serve, Committing, Next
  <2>3. ASSUME NEW x \in Exporters, ServeExport(x) PROVE UNCHANGED vars
    BY <2>3 DEF ServeExport
  <2> QED
    BY <2>1, <2>2, <2>3 DEF ServedNext
<1> QED
  BY <1>1, <1>2, PTL DEF ServedSpec, Spec

\* The lifecycle's invariants and a column of numbers.
NumberedInv ==
  /\ TypeOK /\ DraftInv /\ SoloInv /\ DecisionIsRecorded
  /\ DOMAIN approvedAt = Documents /\ approvedAt = [d \in Documents |-> approvedAt[d]]

LEMMA NumberedInvAlways == OneWorker => (ServedSpec => []NumberedInv)
<1> SUFFICES ASSUME OneWorker PROVE ServedSpec => []NumberedInv
  OBVIOUS
<1> DEFINE Column == DOMAIN approvedAt = Documents /\ approvedAt = [d \in Documents |-> approvedAt[d]]
<1>1. ServedInit => Column
  BY DEF ServedInit, Exports!NothingExported
<1>2. Column /\ [ServedNext]_servedVars => Column'
  <2> SUFFICES ASSUME Column, [ServedNext]_servedVars PROVE Column'
    OBVIOUS
  <2>1. CASE approvedAt' = approvedAt
    BY <2>1
  <2>2. CASE Exports!NumberApprovals
    BY <2>2 DEF Exports!NumberApprovals
  <2>3. approvedAt' = approvedAt \/ Exports!NumberApprovals
    BY DEF ServedNext, Serve, Committing, ServeExport, servedVars, Exports!ExportStep,
           Exports!BeginSingle, Exports!LoadInvoice, Exports!ListInvoices,
           Exports!FlattenNext, Exports!Deliver, Exports!ExportFails
  <2> QED
    BY <2>1, <2>2, <2>3
<1>3. ServedSpec => []Column
  BY <1>1, <1>2, PTL DEF ServedSpec
<1> QED
  BY <1>3, ServedIsSpec, TypeCorrect, DraftInvAlways, SoloInvAlways, DecisionIsRecordedAlways,
     PTL DEF NumberedInv

\* A statement of a service is a write an export is prepared for, or unseen.
LEMMA ServeIsWrite ==
  ASSUME OneWorker, NumberedInv, NEW w \in Workers, Serve(w)
  PROVE  [Exports!ExportNext]_(Exports!exportVars)
<1>1. /\ Accept(w) \/ Step(w) \/ Interrupt(w)
      /\ Exports!NumberApprovals /\ UNCHANGED export
  BY DEF Serve, Committing
<1>2. WorkflowStep
  BY <1>1, WorkflowSteps DEF NumberedInv
<1>3. CASE Workflow!Next
  <2>1. Exports!Next
    BY <1>3 DEF Workflow!Next, Workflow!Extract, Workflow!Offer, Workflow!Edit, Workflow!Decide,
                Workflow!Reprocess, Exports!Next, Exports!Extract, Exports!Offer,
                Exports!Edit, Exports!Decide, Exports!Reprocess
  <2> QED
    BY <1>1, <2>1 DEF Exports!ExportNext, Exports!Write
<1>4. CASE UNCHANGED Workflow!workflowVars
  <2>1. /\ [d \in Documents |-> VerdictOn(d)]' = [d \in Documents |-> VerdictOn(d)]
        /\ UNCHANGED Exports!workflowVars
    BY <1>4 DEF Workflow!workflowVars, Exports!workflowVars
  <2>2. approvedAt' = [d \in Documents |-> approvedAt[d]]
    BY <1>1, <2>1 DEF Exports!NumberApprovals
  <2>3. UNCHANGED Exports!exportVars
    BY <1>1, <2>1, <2>2 DEF Exports!exportVars, NumberedInv
  <2> QED
    BY <2>3
<1> QED
  BY <1>2, <1>3, <1>4 DEF WorkflowStep

\* With one API process, what exports meet in the database is what
\* InvoiceExport allows its other process to write.
LEMMA ServedIsExport == OneWorker => (ServedSpec => Exports!ExportSpec)
<1> SUFFICES ASSUME OneWorker PROVE ServedSpec => Exports!ExportSpec
  OBVIOUS
<1>1. ServedInit => Exports!ExportInit
  BY DEF ServedInit, Init, Exports!ExportInit, Exports!Init, PhaseOf, VerdictOn
<1>2. NumberedInv /\ [ServedNext]_servedVars => [Exports!ExportNext]_(Exports!exportVars)
  <2> SUFFICES ASSUME NumberedInv, [ServedNext]_servedVars
               PROVE  [Exports!ExportNext]_(Exports!exportVars)
    OBVIOUS
  <2>1. CASE UNCHANGED servedVars
    BY <2>1 DEF servedVars, vars, Exports!exportVars, Exports!workflowVars, VerdictOn
  <2>2. ASSUME NEW x \in Exporters, ServeExport(x) PROVE Exports!ExportNext
    BY <2>2 DEF ServeExport, Exports!ExportNext
  <2> QED
    BY <2>1, <2>2, ServeIsWrite DEF ServedNext
<1> QED
  BY NumberedInvAlways, <1>1, <1>2, PTL DEF ServedSpec, Exports!ExportSpec

----------------------------------------------------------------------------
(* What an export holds on to went through review.  A theorem about        *)
(* InvoiceExport cannot be cited for its instance here, so the argument    *)
(* follows the export's steps again, over the rows of the services.        *)

\* A document shown as approved carries the approval.
LEMMA ShownIsApproved ==
  ASSUME DecisionIsRecorded, NEW d \in Documents,
         [e \in Documents |-> PhaseOf(status[e])][d] = "approved"
  PROVE  approvedBy[d] # NoUser
<1>1. PhaseOf(status[d]) = "approved"
  OBVIOUS
<1>2. status[d] = "APPROVED"
  BY <1>1 DEF PhaseOf
<1> QED
  BY <1>2 DEF DecisionIsRecorded

\* A new export with these invoices and no rows yet.
LEMMA HoldsNew ==
  ASSUME NEW pc, NEW org, NEW since, NEW invoices \in Seq(Exports!Held),
         pc = "invoice" => invoices # <<>>,
         \A i \in DOMAIN invoices :
           /\ ApprovedBy(org, invoices[i].doc)
           /\ pc = "items" => invoices[i].content = draft[invoices[i].doc]
  PROVE  HoldsApproved(Exports!NewExport(pc, org, since, invoices))
<1> DEFINE e == Exports!NewExport(pc, org, since, invoices)
<1>1. /\ DOMAIN e = {"pc", "org", "since", "invoices", "rows"}
      /\ e.pc = pc /\ e.org = org /\ e.invoices = invoices /\ e.rows = <<>>
  BY DEF Exports!NewExport
<1> HIDE DEF e
<1>2. e.rows \in Seq(Exports!Row) /\ DOMAIN e.rows = {}
  BY <1>1
<1>3. HoldsApproved(e)
  BY <1>1, <1>2 DEF HoldsApproved
<1> QED
  BY <1>3 DEF e

LEMMA HoldsNothing == HoldsApproved(Exports!NoExport)
<1>1. <<>> \in Seq(Exports!Held) /\ DOMAIN <<>> = {}
  OBVIOUS
<1>2. "idle" # "invoice"
  OBVIOUS
<1> QED
  BY <1>1, <1>2, HoldsNew DEF Exports!NoExport

\* The invoices of approved documents, as read now.
LEMMA HoldsRead ==
  ASSUME TypeOK, NEW org, NEW list \in Seq(Documents), NEW since,
         \A i \in DOMAIN list : ApprovedBy(org, list[i]) /\ draft[list[i]] # NoDraft
  PROVE  HoldsApproved(Exports!NewExport("items", org, since, Exports!WithContent(list)))
<1> DEFINE read == Exports!WithContent(list)
<1>1. \A i \in DOMAIN list : list[i] \in Documents /\ draft[list[i]] \in Contents
  BY DEF TypeOK
<1>2. DOMAIN list = 1..Len(list) /\ Len(list) \in Nat
  OBVIOUS
<1>3. read = [i \in 1..Len(list) |-> [doc |-> list[i], content |-> draft[list[i]]]]
  BY <1>2 DEF Exports!WithContent
<1> HIDE DEF read
<1>4. \A i \in 1..Len(list) : [doc |-> list[i], content |-> draft[list[i]]] \in Exports!Held
  BY <1>1, <1>2 DEF Exports!Held
<1>5. read \in Seq(Exports!Held) /\ DOMAIN read = DOMAIN list
  BY <1>2, <1>3, <1>4
<1>6. \A i \in DOMAIN read : read[i].doc = list[i] /\ read[i].content = draft[list[i]]
  BY <1>2, <1>3, <1>5
<1>7. HoldsApproved(Exports!NewExport("items", org, since, read))
  BY <1>5, <1>6, HoldsNew
<1> QED
  BY <1>7 DEF read

\* Exports counts as this module does.
LEMMA SameCardinality == \A S : Exports!Cardinality(S) = Cardinality(S)
BY DEF Exports!Cardinality, Cardinality

\* A listing is a sequence of approved documents with invoices.
LEMMA ListedIsApproved ==
  ASSUME DecisionIsRecorded, NEW org, NEW list \in Exports!Listings(org)
  PROVE  /\ list \in Seq(Documents)
         /\ \A i \in DOMAIN list : ApprovedBy(org, list[i]) /\ draft[list[i]] # NoDraft
<1> DEFINE found == {d \in Documents : Exports!Exportable(d, org)}
<1>1. Cardinality(found) \in Nat
  <2>1. IsFiniteSet(found)
    BY ServedAssumption, FS_Subset
  <2> QED
    BY <2>1, FS_CardinalityType
<1>2. list \in [1..Cardinality(found) -> found]
  BY SameCardinality DEF Exports!Listings
<1>3. /\ found \subseteq Documents
      /\ \A d \in found : ApprovedBy(org, d) /\ draft[d] # NoDraft
  BY ShownIsApproved DEF Exports!Exportable, ApprovedBy
<1> HIDE DEF found
<1> QED
  BY <1>1, <1>2, <1>3

\* The rows of one invoice repeat its fields.
LEMMA RowsOfInvoice ==
  ASSUME NEW inv, inv.doc \in Documents, inv.content \in Contents, NEW c \in Contents
  PROVE  /\ Exports!RowsOf(inv, ItemsOf[c]) \in Seq(Exports!Row)
         /\ \A i \in DOMAIN Exports!RowsOf(inv, ItemsOf[c]) :
              /\ Exports!RowsOf(inv, ItemsOf[c])[i].doc = inv.doc
              /\ Exports!RowsOf(inv, ItemsOf[c])[i].content = inv.content
<1> DEFINE cells == IF ItemsOf[c] = <<>> THEN <<NoItem>> ELSE ItemsOf[c]
           rows  == Exports!RowsOf(inv, ItemsOf[c])
<1>1. cells \in Seq(Exports!Items)
  <2>1. \A i \in DOMAIN ItemsOf[c] : ItemsOf[c][i] \in Exports!Items
    BY DEF Exports!Items, Exports!Range
  <2>2. PICK S : ItemsOf[c] \in Seq(S)
    BY ServedAssumption
  <2>3. ItemsOf[c] \in Seq(Exports!Items)
    BY <2>1, <2>2
  <2>4. <<NoItem>> \in Seq(Exports!Items)
    BY DEF Exports!Items
  <2> QED
    BY <2>3, <2>4
<1>2. rows = [i \in DOMAIN cells |-> [doc |-> inv.doc, content |-> inv.content, item |-> cells[i]]]
  BY DEF Exports!RowsOf
<1> HIDE DEF cells, rows
<1>3. /\ DOMAIN cells = 1..Len(cells) /\ Len(cells) \in Nat
      /\ \A i \in DOMAIN cells : cells[i] \in Exports!Items
  BY <1>1
<1>4. rows \in [1..Len(cells) -> Exports!Row]
  BY <1>2, <1>3 DEF Exports!Row
<1>5. rows \in Seq(Exports!Row)
  BY <1>3, <1>4
<1>6. \A i \in DOMAIN rows : rows[i].doc = inv.doc /\ rows[i].content = inv.content
  BY <1>2, <1>3
<1> QED
  BY <1>5, <1>6 DEF rows

\* Flattening an invoice turns what is held into rows.
LEMMA HoldsFlattened ==
  ASSUME SoloInv, NEW e, HoldsApproved(e), e.pc = "items", e.invoices # <<>>
  PROVE  HoldsApproved(Exports!Flattened(e))
<1> DEFINE inv  == Head(e.invoices)
           rest == Tail(e.invoices)
           new  == Exports!RowsOf(inv, ItemsOf[draft[inv.doc]])
           f    == Exports!Flattened(e)
<1>1. e.invoices \in Seq(Exports!Held) /\ e.rows \in Seq(Exports!Row)
  BY DEF HoldsApproved
<1>2. /\ inv = e.invoices[1] /\ 1 \in DOMAIN e.invoices /\ rest \in Seq(Exports!Held)
      /\ \A i \in DOMAIN rest : i + 1 \in DOMAIN e.invoices /\ rest[i] = e.invoices[i + 1]
  BY <1>1, HeadTailProperties
<1>3. ApprovedBy(e.org, inv.doc) /\ inv.content = draft[inv.doc]
  BY <1>2 DEF HoldsApproved
<1> HIDE DEF inv, rest
<1>4. inv.doc \in Documents /\ inv.content \in Contents /\ draft[inv.doc] \in Contents
  BY <1>3, StoreAssumption DEF ApprovedBy, SoloInv, ApprovedIsClean
<1>5. /\ new \in Seq(Exports!Row)
      /\ \A i \in DOMAIN new : new[i].doc = inv.doc /\ new[i].content = inv.content
  BY <1>4, RowsOfInvoice
<1>6. /\ f.pc = e.pc /\ f.org = e.org /\ f.invoices = rest /\ f.rows = e.rows \o new
      /\ DOMAIN f = {"pc", "org", "since", "invoices", "rows"}
  BY DEF Exports!Flattened, inv, rest
<1> HIDE DEF new, f
<1>7. e.rows \o new \in Seq(Exports!Row)
  BY <1>1, <1>5, ConcatProperties
<1>8. \A i \in DOMAIN rest :
        ApprovedBy(e.org, rest[i].doc) /\ rest[i].content = draft[rest[i].doc]
  BY <1>2 DEF HoldsApproved
<1>9. \A i \in DOMAIN (e.rows \o new) :
        LET row == (e.rows \o new)[i]
        IN  ApprovedBy(e.org, row.doc) /\ row.content = draft[row.doc]
  <2>1. \A i \in DOMAIN (e.rows \o new) :
          \/ i \in DOMAIN e.rows /\ (e.rows \o new)[i] = e.rows[i]
          \/ \E j \in DOMAIN new : (e.rows \o new)[i] = new[j]
    BY <1>1, <1>5, ConcatProperties
  <2>2. \A i \in DOMAIN e.rows :
          ApprovedBy(e.org, e.rows[i].doc) /\ e.rows[i].content = draft[e.rows[i].doc]
    BY DEF HoldsApproved
  <2> QED
    BY <1>3, <1>5, <2>1, <2>2
<1>10. HoldsApproved(f)
  BY <1>2, <1>6, <1>7, <1>8, <1>9 DEF HoldsApproved
<1> QED
  BY <1>10 DEF f

LEMMA ServeExportKeeps ==
  ASSUME TypeOK, SoloInv, DecisionIsRecorded, ServedInv,
         NEW x \in Exporters, ServeExport(x)
  PROVE  ServedInv'
<1>0. UNCHANGED <<draft, approvedBy>>
  BY DEF ServeExport, vars
<1>1. ASSUME NEW e, HoldsApproved(e), export' = [export EXCEPT ![x] = e]
      PROVE  ServedInv'
  <2>1. /\ DOMAIN export' = Exporters
        /\ \A y \in Exporters : export'[y] = IF y = x THEN e ELSE export[y]
    BY <1>1 DEF ServedInv
  <2>2. ASSUME NEW y \in Exporters PROVE HoldsApproved(export[y])'
    <3>1. HoldsApproved(export'[y])
      BY <1>1, <2>1 DEF ServedInv
    <3> QED
      BY <1>0, <3>1 DEF HoldsApproved, ApprovedBy, Exports!Held, Exports!Row, Exports!Items
  <2> QED
    BY <2>1, <2>2 DEF ServedInv
<1>2. HoldsApproved(export[x])
  BY DEF ServedInv
<1>3. ASSUME NEW org, NEW d \in Documents, Exports!BeginSingle(x, org, d) PROVE ServedInv'
  <2>1. ApprovedBy(org, d)
    BY <1>3, ShownIsApproved DEF Exports!BeginSingle, ApprovedBy
  <2>2. /\ <<[doc |-> d]>> \in Seq(Exports!Held) /\ <<[doc |-> d]>> # <<>>
        /\ \A i \in DOMAIN <<[doc |-> d]>> : <<[doc |-> d]>>[i].doc = d
    BY DEF Exports!Held
  <2>3. HoldsApproved(Exports!NewExport("invoice", org, 0, <<[doc |-> d]>>))
    <3>1. "invoice" # "items"
      OBVIOUS
    <3> QED
      BY <2>1, <2>2, <3>1, HoldsNew
  <2> QED
    BY <1>1, <1>3, <2>3 DEF Exports!BeginSingle
<1>4. CASE Exports!LoadInvoice(x)
  <2> DEFINE d == export[x].invoices[1].doc
  <2>1. CASE draft[d] = NoDraft
    <3>1. export' = [export EXCEPT ![x] = Exports!NoExport]
      BY <1>4, <2>1 DEF Exports!LoadInvoice
    <3> QED
      BY <1>1, <3>1, HoldsNothing
  <2>2. CASE draft[d] # NoDraft
    <3>1. ApprovedBy(export[x].org, d)
      <4>1. export[x].invoices \in Seq(Exports!Held) /\ export[x].invoices # <<>>
        BY <1>2, <1>4 DEF HoldsApproved, Exports!LoadInvoice
      <4>2. 1 \in DOMAIN export[x].invoices
        BY <4>1
      <4> QED
        BY <1>2, <4>2 DEF HoldsApproved
    <3>2. <<d>> \in Seq(Documents) /\ \A i \in DOMAIN <<d>> : <<d>>[i] = d
      BY <3>1 DEF ApprovedBy
    <3> HIDE DEF d
    <3>3. HoldsApproved(Exports!NewExport("items", export[x].org, 0, Exports!WithContent(<<d>>)))
      BY <2>2, <3>1, <3>2, HoldsRead
    <3>4. export' = [export EXCEPT ![x] =
            Exports!NewExport("items", export[x].org, 0, Exports!WithContent(<<d>>))]
      BY <1>4, <2>2 DEF Exports!LoadInvoice, d
    <3> QED
      BY <1>1, <3>3, <3>4
  <2> QED
    BY <2>1, <2>2
<1>5. ASSUME NEW org, Exports!ListInvoices(x, org) PROVE ServedInv'
  <2>1. PICK list \in Exports!Listings(org) :
          export' = [export EXCEPT ![x] =
            Exports!NewExport("items", org, Exports!Approvals, Exports!WithContent(list))]
    BY <1>5 DEF Exports!ListInvoices
  <2>2. HoldsApproved(Exports!NewExport("items", org, Exports!Approvals,
                                        Exports!WithContent(list)))
    BY ListedIsApproved, HoldsRead
  <2> QED
    BY <1>1, <2>1, <2>2
<1>6. CASE Exports!FlattenNext(x)
  <2>1. HoldsApproved(Exports!Flattened(export[x]))
    BY <1>2, <1>6, HoldsFlattened DEF Exports!FlattenNext
  <2> QED
    BY <1>1, <1>6, <2>1 DEF Exports!FlattenNext
<1>7. CASE Exports!Deliver(x)
  <2> DEFINE e == [export[x] EXCEPT !.pc = "done"]
  <2>1. /\ DOMAIN e = DOMAIN export[x] /\ e.pc = "done" /\ e.org = export[x].org
        /\ e.invoices = export[x].invoices /\ e.rows = export[x].rows
    BY <1>2 DEF HoldsApproved
  <2>2. export' = [export EXCEPT ![x] = e]
    BY <1>7 DEF Exports!Deliver
  <2> HIDE DEF e
  <2>3. HoldsApproved(e)
    BY <1>2, <2>1 DEF HoldsApproved
  <2> QED
    BY <1>1, <2>2, <2>3
<1>8. CASE Exports!ExportFails(x)
  BY <1>1, <1>8, HoldsNothing DEF Exports!ExportFails
<1> QED
  BY <1>3, <1>4, <1>5, <1>6, <1>7, <1>8 DEF ServeExport, Exports!ExportStep

\* An approval is never taken back, and what it was about stays.
LEMMA ServeKeeps ==
  ASSUME TypeOK, SoloInv, ServedInv, NEW w \in Workers, Serve(w)
  PROVE  ServedInv'
<1>1. (Accept(w) \/ Step(w) \/ Interrupt(w)) /\ export' = export
  BY DEF Serve, Committing
<1>2. ASSUME NEW d \in Documents, approvedBy[d] # NoUser
      PROVE  approvedBy'[d] # NoUser /\ draft'[d] = draft[d]
  <2>1. draft'[d] = draft[d]
    BY <1>1, <1>2, DecidedIsFrozen DEF Decided
  <2>2. approvedBy'[d] # NoUser
    BY <1>1, <1>2, DecidingSteps, ApprovalEffect, RejectionEffect, StoreAssumption
       DEF UndecidingStep
  <2> QED
    BY <2>1, <2>2
<1>3. ASSUME NEW org, NEW d, ApprovedBy(org, d)
      PROVE  ApprovedBy(org, d)' /\ draft'[d] = draft[d]
  BY <1>2, <1>3 DEF ApprovedBy
<1>4. ASSUME NEW x \in Exporters PROVE HoldsApproved(export[x])'
  <2>1. HoldsApproved(export[x])
    BY DEF ServedInv
  <2> QED
    BY <1>1, <1>3, <2>1 DEF HoldsApproved, Exports!Held, Exports!Row, Exports!Items
<1> QED
  BY <1>1, <1>4 DEF ServedInv

LEMMA ServedInvAlways == OneWorker => (ServedSpec => []ServedInv)
<1> SUFFICES ASSUME OneWorker PROVE ServedSpec => []ServedInv
  OBVIOUS
<1>1. ServedInit => ServedInv
  <2> SUFFICES ASSUME ServedInit PROVE ServedInv
    OBVIOUS
  <2>1. export = [x \in Exporters |-> Exports!NoExport]
    BY DEF ServedInit, Exports!NothingExported
  <2> QED
    BY <2>1, HoldsNothing DEF ServedInv
<1>2. TypeOK /\ SoloInv /\ DecisionIsRecorded /\ ServedInv /\ [ServedNext]_servedVars
        => ServedInv'
  <2> SUFFICES ASSUME TypeOK, SoloInv, DecisionIsRecorded, ServedInv, [ServedNext]_servedVars
               PROVE  ServedInv'
    OBVIOUS
  <2>1. CASE UNCHANGED servedVars
    BY <2>1 DEF servedVars, vars, ServedInv, HoldsApproved, ApprovedBy, Exports!Held,
                Exports!Row, Exports!Items
  <2> QED
    BY <2>1, ServeKeeps, ServeExportKeeps DEF ServedNext
<1> QED
  BY ServedIsSpec, TypeCorrect, SoloInvAlways, DecisionIsRecordedAlways, <1>1, <1>2, PTL
     DEF ServedSpec

\* With one API process, whatever fails, crashes or is extracted again while
\* an export runs, its rows are what this organization validated and approved.
THEOREM ExportedWasReviewedAlways == OneWorker => (ServedSpec => []ExportedWasReviewed)
<1> SUFFICES ASSUME OneWorker PROVE ServedSpec => []ExportedWasReviewed
  OBVIOUS
<1>1. TypeOK /\ SoloInv /\ DecidedWithinOrganization /\ ReviewFollowsValidation /\ ServedInv
        => ExportedWasReviewed
  <2> SUFFICES ASSUME TypeOK, SoloInv, DecidedWithinOrganization, ReviewFollowsValidation,
                      ServedInv, NEW x \in Exporters, NEW i \in DOMAIN export[x].rows
               PROVE  LET row == export[x].rows[i] IN
                      /\ \E u \in Users : approvedBy[row.doc] = u /\ OrgOf[u] = export[x].org
                      /\ ValidationCompleted(row.doc)
                      /\ row.content = draft[row.doc] /\ row.content \in Clean
    BY DEF ExportedWasReviewed
  <2> DEFINE row == export[x].rows[i]
             u   == approvedBy[row.doc]
  <2>1. ApprovedBy(export[x].org, row.doc) /\ row.content = draft[row.doc]
    BY DEF ServedInv, HoldsApproved
  <2> HIDE DEF row
  <2>2. u \in Users /\ OrgOf[u] = OrgOf[row.doc]
    BY <2>1 DEF ApprovedBy, TypeOK, DecidedWithinOrganization
  <2>3. ValidationCompleted(row.doc)
    BY <2>1 DEF ApprovedBy, ReviewFollowsValidation, Decided
  <2>4. row.content \in Clean
    BY <2>1 DEF ApprovedBy, SoloInv, ApprovedIsClean
  <2>5. \E v \in Users : approvedBy[row.doc] = v /\ OrgOf[v] = export[x].org
    BY <2>1, <2>2 DEF ApprovedBy
  <2> QED
    BY <2>1, <2>3, <2>4, <2>5 DEF row
<1> QED
  BY ServedIsSpec, TypeCorrect, SoloInvAlways, DecidedWithinOrganizationAlways,
     ReviewFollowsValidationAlways, ServedInvAlways, <1>1, PTL
=============================================================================
