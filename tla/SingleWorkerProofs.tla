------------------------- MODULE SingleWorkerProofs -------------------------
(***************************************************************************)
(* Proofs about DocumentLifecycle with at most one worker, which is how    *)
(* the shipped image runs, for every number of documents and users, every  *)
(* set of contents and every bound.  Between two statements of a request   *)
(* nothing else happens, so what the request read is still so when it      *)
(* writes: this is RequestIsCurrent, and with it a decision can be shown   *)
(* to close the way back to review (DecisionClosesReview).                 *)
(***************************************************************************)
EXTENDS DocumentLifecycleProofs

USE DEF At

RequestSteps == ReviewPC \cup AIPC \cup ValidationPC

\* No status changes to one that leads to a decision.
NoNewReview ==
  \A d \in Documents :
    status'[d] = status[d] \/ status'[d] \notin {"VALIDATING_RESULT", "REVIEW_REQUIRED"}

\* A step that writes no invoice and offers no document for review keeps
\* what is known of decisions.
LEMMA SoloFrame ==
  ASSUME SoloInv, UNCHANGED <<draft, approvedBy, rejectedBy>>, NoNewReview
  PROVE  DecisionClosesReview' /\ OneDecision' /\ ApprovedIsClean'
<1>1. DecisionClosesReview'
  BY DEF SoloInv, NoNewReview, DecisionClosesReview, Decided
<1>2. OneDecision' /\ ApprovedIsClean'
  BY DEF SoloInv, OneDecision, ApprovedIsClean
<1> QED
  BY <1>1, <1>2

\* Nothing has to be known of a request outside the AI, validation and review
\* statements.
LEMMA SoloQuiet ==
  ASSUME OneWorker, SoloInv, NEW w \in Workers, sess'[w].pc \notin RequestSteps,
         UNCHANGED <<draft, approvedBy, rejectedBy>>, NoNewReview
  PROVE  SoloInv'
<1>1. CurrentRequest(w)'
  BY DEF CurrentRequest, RequestSteps, ReviewPC, AIPC, ValidationPC
<1>2. RequestIsCurrent'
  BY <1>1 DEF RequestIsCurrent, OneWorker
<1> QED
  BY <1>2, SoloFrame DEF SoloInv

\* For the other statements it is enough to look at the one request.
LEMMA SoloRequest ==
  ASSUME OneWorker, SoloInv, NEW w \in Workers, CurrentRequest(w)',
         UNCHANGED <<draft, approvedBy, rejectedBy>>, NoNewReview
  PROVE  SoloInv'
<1>1. RequestIsCurrent'
  BY DEF RequestIsCurrent, OneWorker
<1> QED
  BY <1>1, SoloFrame DEF SoloInv

\* A handler that goes on to a failure, to the response, or ends.
LEMMA SoloGoto ==
  ASSUME OneWorker, TypeOK, SoloInv, NEW w \in Workers, sess[w].pc # "idle",
         NEW p \in RequestPC \cup {"idle"}, p \notin RequestSteps, Goto(w, p),
         UNCHANGED <<draft, approvedBy, rejectedBy>>, NoNewReview
  PROVE  SoloInv'
<1>1. sess[w] \in Session
  BY ServingSession
<1>2. sess'[w].pc = p
  BY <1>1 DEF Goto, TypeOK, Session, NoSession
<1> QED
  BY <1>2, SoloQuiet

\* Writing a status that offers nothing for review.
LEMMA WriteOther ==
  ASSUME TypeOK, NEW w \in Workers, sess[w].pc # "idle",
         NEW s \in DocumentStatus \ {"VALIDATING_RESULT", "REVIEW_REQUIRED"},
         WriteStatus(w, s)
  PROVE  NoNewReview
BY ServingSession, WriteStatusTyped DEF NoNewReview

\* A stage's first commit.
LEMMA SoloBeginStage ==
  ASSUME OneWorker, TypeOK, SoloInv, NEW w \in Workers, sess[w].pc # "idle",
         NEW stage, NEW next, next \notin ReviewPC \cup ValidationPC \cup {"draft_committed"},
         next \in AIPC => draft[Doc(w)] = NoDraft,
         NEW s \in DocumentStatus \ {"VALIDATING_RESULT", "REVIEW_REQUIRED"},
         BeginStage(w, stage, s, next)
  PROVE  SoloInv'
<1>1. sess'[w].pc = next /\ sess'[w].doc = sess[w].doc
  BY ServingSession DEF BeginStage, TypeOK, Session
<1>2. CurrentRequest(w)'
  BY <1>1 DEF CurrentRequest, BeginStage, Doc, ReviewPC
<1> QED
  BY <1>2, WriteOther, SoloRequest DEF BeginStage

\* An accepted call: extraction, or a review of a document under review.
LEMMA SoloAccept ==
  ASSUME OneWorker, TypeOK, SoloInv, NEW w \in Workers, Accept(w)
  PROVE  SoloInv'
<1>1. NoNewReview /\ UNCHANGED <<draft, approvedBy, rejectedBy, status>>
  BY DEF Accept, AcceptExtraction, BeginEdit, BeginApprove, BeginReject, BeginReview,
         rowVars, NoNewReview
<1>2. PICK u \in Users, d \in Documents :
        AcceptExtraction(w, u, d) \/ BeginEdit(w, u, d) \/ BeginApprove(w, u, d)
          \/ BeginReject(w, u, d)
  BY DEF Accept
<1>3. CASE AcceptExtraction(w, u, d)
  <2>1. sess'[w].pc = "start"
    BY <1>3 DEF AcceptExtraction, TypeOK
  <2> QED
    BY <1>1, <2>1, SoloQuiet DEF RequestSteps, ReviewPC, AIPC, ValidationPC
<1>4. ASSUME NEW p \in {"load_edit", "load_approve", "load_reject"},
             BeginReview(w, u, d, p)
      PROVE  SoloInv'
  <2>1. sess'[w].pc = p /\ sess'[w].doc = d /\ sess'[w].loaded = status[d]
    BY <1>4 DEF BeginReview, TypeOK
  <2>2. CurrentRequest(w)'
    BY <1>1, <1>4, <2>1 DEF CurrentRequest, BeginReview, MayReview, Doc, AIPC, ValidationPC
  <2> QED
    BY <1>1, <2>2, SoloRequest
<1> QED
  BY <1>2, <1>3, <1>4 DEF BeginEdit, BeginApprove, BeginReject

\* A refresh reads the row again and goes on with the same document.
LEMMA SoloRefresh ==
  ASSUME OneWorker, TypeOK, SoloInv, NEW w \in Workers, Refresh(w)
  PROVE  SoloInv'
<1>1. NoNewReview /\ UNCHANGED <<draft, approvedBy, rejectedBy, status>>
  BY DEF Refresh, rowVars, NoNewReview
<1>2. sess[w].pc # "idle"
  BY DEF Refresh, AfterRefresh
<1>3. sess'[w].pc = AfterRefresh[sess[w].pc] /\ Doc(w)' = Doc(w)
  BY <1>2, ServingSession DEF Refresh, TypeOK, Doc, Session
<1>4. CASE sess[w].pc \in {"started", "text_committed", "ocr_required_committed",
                           "ocr_started", "review_committed"}
  <2>1. sess'[w].pc \notin RequestSteps
    BY <1>3, <1>4 DEF AfterRefresh, RequestSteps, ReviewPC, AIPC, ValidationPC
  <2> QED
    BY <1>1, <2>1, SoloQuiet
<1>5. CASE sess[w].pc = "ai_started"
  <2>1. sess'[w].pc = "read_text"
    BY <1>3, <1>5 DEF AfterRefresh
  <2>2. CurrentRequest(w)'
    BY <1>1, <1>3, <1>5, <2>1
       DEF SoloInv, RequestIsCurrent, CurrentRequest, ReviewPC, AIPC, ValidationPC, Doc
  <2> QED
    BY <1>1, <2>2, SoloRequest
<1>6. CASE sess[w].pc = "draft_committed"
  <2>1. sess'[w].pc = "start_validation"
    BY <1>3, <1>6 DEF AfterRefresh
  <2>2. CurrentRequest(w)'
    BY <1>1, <1>3, <1>6, <2>1
       DEF SoloInv, RequestIsCurrent, CurrentRequest, ReviewPC, AIPC, ValidationPC, Doc,
           Decided
  <2> QED
    BY <1>1, <2>2, SoloRequest
<1> QED
  BY <1>4, <1>5, <1>6 DEF Refresh, AfterRefresh

\* The statements of text extraction and OCR.
LEMMA SoloExtraction ==
  ASSUME OneWorker, TypeOK, SoloInv, NEW w \in Workers, ExtractionStep(w)
  PROVE  SoloInv'
<1> USE DEF RequestPC, ExtractionPC, FailurePC, RequestSteps, ReviewPC, AIPC, ValidationPC
<1>1. CASE StartTextExtraction(w) \/ StartOcr(w)
  BY <1>1, SoloBeginStage DEF StartTextExtraction, StartOcr, DocumentStatus
<1>2. CASE Refresh(w)
  BY <1>2, SoloRefresh
<1>3. CASE ReadPdf(w)
  <2>1. NativeOutcome(pdf[Doc(w)])
          \in {"save_text", "commit_ocr_required", "mark_failed", "idle"}
    BY <1>3, ServingSession DEF ReadPdf, NativeOutcome, TypeOK, PdfKind
  <2> QED
    BY <1>3, <2>1, SoloGoto DEF ReadPdf, NoNewReview, rowVars
<1>4. CASE RunOcr(w)
  <2>1. PICK p \in {"save_text", "mark_failed"} : Goto(w, p)
    BY <1>4 DEF RunOcr, OcrOutcomes
  <2> QED
    BY <1>4, <2>1, SoloGoto DEF RunOcr, NoNewReview, rowVars
<1>5. CASE OpenTextFile(w) \/ WriteTextFile(w) \/ DeleteText(w)
  BY <1>5, SoloGoto DEF OpenTextFile, WriteTextFile, DeleteText, NoNewReview, rowVars
<1>6. CASE CommitText(w)
  BY <1>6, SoloGoto, WriteOther DEF CommitText, DocumentStatus
<1>7. CASE CommitOcrRequired(w)
  BY <1>7, SoloGoto, WriteOther DEF CommitOcrRequired, DocumentStatus
<1> QED
  BY <1>1, <1>2, <1>3, <1>4, <1>5, <1>6, <1>7 DEF ExtractionStep

\* A statement that moves on within the AI or validation stage.
LEMMA SoloMove ==
  ASSUME OneWorker, TypeOK, SoloInv, NEW w \in Workers, sess[w].pc # "idle",
         NEW p \in AIPC \cup ValidationPC, p # "draft_committed",
         p \in AIPC => draft[Doc(w)] = NoDraft,
         p \in ValidationPC => ~Decided(Doc(w)),
         sess'[w].pc = p, sess'[w].doc = sess[w].doc,
         UNCHANGED <<draft, approvedBy, rejectedBy>>, NoNewReview
  PROVE  SoloInv'
<1>1. CurrentRequest(w)'
  BY DEF CurrentRequest, Doc, Decided, ReviewPC, AIPC, ValidationPC
<1> QED
  BY <1>1, SoloRequest

\* The draft is persisted for a document that had none, so that nobody has
\* decided about it.
LEMMA SoloPersist ==
  ASSUME OneWorker, TypeOK, SoloInv, NEW w \in Workers, PersistDraft(w)
  PROVE  SoloInv'
<1>1. sess[w] \in Session /\ Doc(w) \in Documents
  BY ServingSession DEF PersistDraft
<1>2. ~Decided(Doc(w))
  BY <1>1 DEF PersistDraft, InvoiceIsUnique, SoloInv, DecisionClosesReview
<1>3. /\ \A d \in Documents : d # Doc(w) => draft'[d] = draft[d] /\ status'[d] = status[d]
      /\ UNCHANGED <<approvedBy, rejectedBy>>
  BY <1>1 DEF PersistDraft, WriteStatus, TypeOK
<1>4. DecisionClosesReview' /\ OneDecision' /\ ApprovedIsClean'
  <2>1. DecisionClosesReview'
    BY <1>2, <1>3 DEF SoloInv, DecisionClosesReview, Decided
  <2>2. OneDecision'
    BY <1>3 DEF SoloInv, OneDecision
  <2>3. ApprovedIsClean'
    BY <1>2, <1>3 DEF SoloInv, ApprovedIsClean, Decided
  <2> QED
    BY <2>1, <2>2, <2>3
<1>5. sess'[w].pc = "draft_committed" /\ sess'[w].doc = sess[w].doc
  BY <1>1 DEF PersistDraft, TypeOK, Session
<1>6. CurrentRequest(w)'
  BY <1>2, <1>3, <1>5 DEF CurrentRequest, Doc, Decided, ReviewPC, AIPC, ValidationPC
<1>7. RequestIsCurrent'
  BY <1>6 DEF RequestIsCurrent, OneWorker
<1> QED
  BY <1>4, <1>7 DEF SoloInv

\* Validation offers an undecided document for review.
LEMMA SoloReviewRequired ==
  ASSUME OneWorker, TypeOK, SoloInv, NEW w \in Workers, CommitReviewRequired(w)
  PROVE  SoloInv'
<1>1. sess[w] \in Session /\ Doc(w) \in Documents
  BY ServingSession DEF CommitReviewRequired
<1>2. ~Decided(Doc(w))
  BY DEF CommitReviewRequired, SoloInv, RequestIsCurrent, CurrentRequest, ValidationPC
<1>3. /\ \A d \in Documents : d # Doc(w) => status'[d] = status[d]
      /\ UNCHANGED <<draft, approvedBy, rejectedBy>>
  BY <1>1 DEF CommitReviewRequired, WriteStatus, TypeOK
<1>4. DecisionClosesReview' /\ OneDecision' /\ ApprovedIsClean'
  BY <1>2, <1>3 DEF SoloInv, DecisionClosesReview, Decided, OneDecision, ApprovedIsClean
<1>5. sess'[w].pc = "review_committed" /\ sess'[w].doc = sess[w].doc
  BY <1>1 DEF CommitReviewRequired, Goto, TypeOK, Session
<1>6. CurrentRequest(w)'
  BY <1>2, <1>3, <1>5 DEF CurrentRequest, Doc, Decided, ReviewPC, AIPC, ValidationPC
<1>7. RequestIsCurrent'
  BY <1>6 DEF RequestIsCurrent, OneWorker
<1> QED
  BY <1>4, <1>7 DEF SoloInv

\* The statements of AI extraction and validation.
LEMMA SoloAI ==
  ASSUME OneWorker, TypeOK, SoloInv, NEW w \in Workers, AIStep(w)
  PROVE  SoloInv'
<1> USE DEF RequestPC, ExtractionPC, FailurePC, RequestSteps, ReviewPC, AIPC, ValidationPC
<1>1. CASE StopAfterText(w) \/ AiFails(w) \/ DraftRefused(w)
  BY <1>1, SoloGoto DEF StopAfterText, AiFails, DraftRefused, NoNewReview, rowVars
<1>2. CASE QueryDraft(w)
  <2>1. sess[w] \in Session /\ AfterDraftQuery(w) \in {"start_ai", "respond"}
    BY <1>2, ServingSession DEF QueryDraft, ContinuesToAi, AfterDraftQuery
  <2>2. CASE AfterDraftQuery(w) = "respond"
    BY <1>2, <2>2, SoloGoto DEF QueryDraft, NoNewReview, rowVars
  <2>3. CASE AfterDraftQuery(w) = "start_ai"
    <3>1. draft[Doc(w)] = NoDraft
      BY <1>2, <2>3 DEF QueryDraft, ContinuesToAi, AfterDraftQuery
    <3>2. sess'[w].pc = "start_ai" /\ sess'[w].doc = sess[w].doc
      BY <1>2, <2>1, <2>3 DEF QueryDraft, Goto, TypeOK, Session
    <3> QED
      BY <1>2, <3>1, <3>2, SoloMove DEF QueryDraft, NoNewReview, rowVars
  <2> QED
    BY <2>1, <2>2, <2>3
<1>3. CASE StartAiExtraction(w)
  <2>1. draft[Doc(w)] = NoDraft
    BY <1>3 DEF StartAiExtraction, SoloInv, RequestIsCurrent, CurrentRequest
  <2> QED
    BY <1>3, <2>1, SoloBeginStage DEF StartAiExtraction, DocumentStatus
<1>4. CASE ReadText(w)
  <2>1. draft[Doc(w)] = NoDraft
    BY <1>4 DEF ReadText, SoloInv, RequestIsCurrent, CurrentRequest
  <2>2. PICK p \in {"call_ai", "mark_failed"} : Goto(w, p)
    BY <1>4 DEF ReadText, TextReadOutcomes
  <2>3. CASE p = "mark_failed"
    BY <1>4, <2>2, <2>3, SoloGoto DEF ReadText, NoNewReview, rowVars
  <2>4. CASE p = "call_ai"
    <3>1. sess'[w].pc = "call_ai" /\ sess'[w].doc = sess[w].doc
      BY <1>4, <2>2, <2>4, ServingSession DEF ReadText, Goto, TypeOK, Session
    <3> QED
      BY <1>4, <2>1, <3>1, SoloMove DEF ReadText, NoNewReview, rowVars
  <2> QED
    BY <2>3, <2>4
<1>5. CASE AiAnswers(w)
  <2>1. draft[Doc(w)] = NoDraft
    BY <1>5 DEF AiAnswers, SoloInv, RequestIsCurrent, CurrentRequest
  <2>2. sess'[w].pc = "persist" /\ sess'[w].doc = sess[w].doc
    BY <1>5, ServingSession DEF AiAnswers, TypeOK, Session
  <2> QED
    BY <1>5, <2>1, <2>2, SoloMove DEF AiAnswers, NoNewReview, rowVars
<1>6. CASE PersistDraft(w)
  BY <1>6, SoloPersist
<1>7. CASE StartValidation(w) \/ LoadDraft(w) \/ Validate(w)
  <2>1. sess[w] \in Session /\ ~Decided(Doc(w))
    BY <1>7, ServingSession
       DEF StartValidation, LoadDraft, Validate, SoloInv, RequestIsCurrent, CurrentRequest
  <2>2. NoNewReview /\ UNCHANGED <<draft, approvedBy, rejectedBy>>
    BY <1>7 DEF StartValidation, LoadDraft, Validate, NoNewReview, rowVars
  <2>3. /\ sess'[w].pc \in {"validation_started", "validate", "commit_review", "mark_failed"}
        /\ sess'[w].doc = sess[w].doc
    BY <1>7, <2>1 DEF StartValidation, LoadDraft, Validate, Goto, TypeOK, Session
  <2>4. CASE sess'[w].pc = "mark_failed"
    BY <2>2, <2>4, SoloQuiet
  <2>5. CASE sess'[w].pc # "mark_failed"
    <3>1. sess[w].pc # "idle"
      BY <1>7 DEF StartValidation, LoadDraft, Validate
    <3> QED
      BY <2>1, <2>2, <2>3, <2>5, <3>1, SoloMove
  <2> QED
    BY <2>4, <2>5
<1>8. CASE CommitReviewRequired(w)
  BY <1>8, SoloReviewRequired
<1> QED
  BY <1>1, <1>2, <1>3, <1>4, <1>5, <1>6, <1>7, <1>8 DEF AIStep

\* The invoice the review call loaded is the one it then writes about.
LEMMA SoloLoadInvoice ==
  ASSUME OneWorker, TypeOK, SoloInv, NEW w \in Workers, LoadInvoice(w)
  PROVE  SoloInv'
<1>1. NoNewReview /\ UNCHANGED <<status, draft, approvedBy, rejectedBy>>
  BY DEF LoadInvoice, NoNewReview, rowVars
<1>2. sess[w] \in Session
  BY ServingSession DEF LoadInvoice
<1> DEFINE p == AfterLoad(sess[w].pc, draft[Doc(w)])
<1>3. /\ p \in {"idle", "commit_edit", "commit_reject", "commit_approve"}
      /\ p = "commit_approve" => draft[Doc(w)] \in Clean
  BY DEF LoadInvoice, AfterLoad, PassesGate
<1>4. Goto(w, p)
  BY DEF LoadInvoice
<1> HIDE DEF p
<1>5. CASE p = "idle"
  BY <1>1, <1>4, <1>5, SoloGoto
     DEF LoadInvoice, RequestSteps, ReviewPC, AIPC, ValidationPC
<1>6. CASE p # "idle"
  <2>1. sess'[w] = [sess[w] EXCEPT !.pc = p]
    BY <1>2, <1>4, <1>6 DEF Goto, TypeOK
  <2>2. sess'[w].pc = p /\ sess'[w].doc = sess[w].doc /\ sess'[w].loaded = sess[w].loaded
    BY <1>2, <2>1 DEF Session
  <2>3. sess[w].loaded = "REVIEW_REQUIRED" /\ status[Doc(w)] = "REVIEW_REQUIRED"
    BY DEF LoadInvoice, SoloInv, RequestIsCurrent, CurrentRequest, ReviewPC
  <2>4. CurrentRequest(w)'
    BY <1>1, <1>3, <1>6, <2>2, <2>3 DEF CurrentRequest, Doc, AIPC, ValidationPC
  <2> QED
    BY <1>1, <2>4, SoloRequest
<1> QED
  BY <1>5, <1>6

\* An edit changes the invoice of a document nobody has decided about.
LEMMA SoloEdit ==
  ASSUME OneWorker, TypeOK, SoloInv, DraftInv, NEW w \in Workers, CommitEdit(w)
  PROVE  SoloInv'
<1>1. sess[w] \in Session /\ Doc(w) \in Documents /\ sess'[w] = NoSession
  BY ServingSession DEF CommitEdit, Goto, TypeOK
<1>2. ~Decided(Doc(w))
  BY <1>1 DEF CommitEdit, SoloInv, RequestIsCurrent, CurrentRequest, ReviewPC,
              DecisionClosesReview
<1>3. /\ \A d \in Documents : d # Doc(w) => draft'[d] = draft[d]
      /\ UNCHANGED <<status, approvedBy, rejectedBy>>
  BY DEF CommitEdit, TypeOK
<1>4. DecisionClosesReview' /\ OneDecision' /\ ApprovedIsClean'
  BY <1>2, <1>3 DEF SoloInv, DecisionClosesReview, Decided, OneDecision, ApprovedIsClean
<1>5. RequestIsCurrent'
  BY <1>1 DEF RequestIsCurrent, CurrentRequest, OneWorker, NoSession,
              ReviewPC, AIPC, ValidationPC
<1> QED
  BY <1>4, <1>5 DEF SoloInv

\* A decision is the first about its document and takes it out of review.
LEMMA SoloDecision ==
  ASSUME OneWorker, TypeOK, SoloInv, DraftInv, NEW w \in Workers,
         CommitApproval(w) \/ CommitRejection(w)
  PROVE  SoloInv'
<1>1. sess[w] \in Session /\ Doc(w) \in Documents /\ sess'[w] = NoSession
  BY ServingSession DEF CommitApproval, CommitRejection, Goto, TypeOK
<1>2. /\ sess[w].loaded = "REVIEW_REQUIRED" /\ status[Doc(w)] = "REVIEW_REQUIRED"
      /\ draft[Doc(w)] # NoDraft
      /\ At(w, "commit_approve") => draft[Doc(w)] \in Clean
  BY DEF CommitApproval, CommitRejection, SoloInv, RequestIsCurrent, CurrentRequest,
         ReviewPC, DraftInv, DraftPC
<1>3. ~Decided(Doc(w))
  BY <1>1, <1>2 DEF SoloInv, DecisionClosesReview
<1>4. /\ \A d \in Documents : d # Doc(w) =>
           /\ status'[d] = status[d]
           /\ approvedBy'[d] = approvedBy[d] /\ rejectedBy'[d] = rejectedBy[d]
      /\ status'[Doc(w)] \in {"APPROVED", "REJECTED"}
      /\ UNCHANGED draft
  BY <1>1, <1>2 DEF CommitApproval, CommitRejection, WriteStatus, TypeOK
<1>5. DecisionClosesReview'
  BY <1>2, <1>4 DEF SoloInv, DecisionClosesReview, Decided
<1>6. RequestIsCurrent'
  BY <1>1 DEF RequestIsCurrent, CurrentRequest, OneWorker, NoSession,
              ReviewPC, AIPC, ValidationPC
<1>7. CASE CommitApproval(w)
  <2>1. rejectedBy'[Doc(w)] = NoUser /\ draft'[Doc(w)] \in Clean
    BY <1>2, <1>3, <1>4, <1>7 DEF CommitApproval, Decided
  <2>2. OneDecision' /\ ApprovedIsClean'
    BY <1>4, <2>1 DEF SoloInv, OneDecision, ApprovedIsClean
  <2> QED
    BY <1>5, <1>6, <2>2 DEF SoloInv
<1>8. CASE CommitRejection(w)
  <2>1. approvedBy'[Doc(w)] = NoUser
    BY <1>3, <1>8 DEF CommitRejection, Decided
  <2>2. OneDecision' /\ ApprovedIsClean'
    BY <1>4, <2>1 DEF SoloInv, OneDecision, ApprovedIsClean
  <2> QED
    BY <1>5, <1>6, <2>2 DEF SoloInv
<1> QED
  BY <1>7, <1>8

\* The review statements together.
LEMMA SoloReview ==
  ASSUME OneWorker, TypeOK, SoloInv, DraftInv, NEW w \in Workers, ReviewStep(w)
  PROVE  SoloInv'
<1>1. CASE ReviewAborts(w)
  BY <1>1, SoloGoto
     DEF ReviewAborts, NoNewReview, rowVars, RequestSteps, ReviewPC, AIPC, ValidationPC
<1> QED
  BY <1>1, SoloLoadInvoice, SoloEdit, SoloDecision DEF ReviewStep

\* A failure, the response and a fault leave rows alone or write FAILED.
LEMMA SoloFailure ==
  ASSUME OneWorker, TypeOK, SoloInv, NEW w \in Workers,
         FailureStep(w) \/ Respond(w) \/ Interrupt(w)
  PROVE  SoloInv'
<1> USE DEF RequestPC, FailurePC, RequestSteps, ReviewPC, AIPC, ValidationPC
<1>1. CASE ReloadAfterRollback(w)
  <2>1. sess'[w].pc \in {"delete_text", "mark_failed"}
    BY <1>1, ServingSession DEF ReloadAfterRollback, TypeOK, Session
  <2> QED
    BY <1>1, <2>1, SoloQuiet DEF ReloadAfterRollback, NoNewReview, rowVars
<1>2. CASE MarkFailed(w)
  BY <1>2, WriteOther, SoloGoto DEF MarkFailed, DocumentStatus
<1>3. CASE Respond(w)
  BY <1>3, SoloGoto DEF Respond, NoNewReview, rowVars
<1>4. CASE Interrupt(w)
  <2>1. PICK p \in {"idle", "mark_failed", "rolled_back", "rolled_back_text"} : Goto(w, p)
    BY <1>4, InterruptGoto
  <2>2. sess'[w].pc \in {"idle", "mark_failed", "rolled_back", "rolled_back_text"}
    BY <2>1 DEF Goto, TypeOK, Session, NoSession
  <2> QED
    BY <1>4, <2>2, InterruptGoto, SoloQuiet DEF NoNewReview, rowVars
<1> QED
  BY <1>1, <1>2, <1>3, <1>4 DEF FailureStep

\* Only a persisted draft and an edit write invoices.
LEMMA DraftUnwritten ==
  ASSUME TypeOK, NEW w \in Workers, Accept(w) \/ Step(w) \/ Interrupt(w),
         ~PersistDraft(w), ~CommitEdit(w)
  PROVE  draft' = draft
<1>1. CASE Accept(w)
  BY <1>1 DEF Accept, AcceptExtraction, BeginEdit, BeginApprove, BeginReject,
              BeginReview, rowVars
<1>2. CASE ExtractionStep(w)
  BY <1>2 DEF ExtractionStep, StartTextExtraction, StartOcr, BeginStage, Refresh, ReadPdf,
              RunOcr, OpenTextFile, WriteTextFile, DeleteText, CommitText,
              CommitOcrRequired, rowVars
<1>3. CASE AIStep(w)
  BY <1>3 DEF AIStep, StopAfterText, QueryDraft, StartAiExtraction, BeginStage, ReadText,
              AiAnswers, AiFails, DraftRefused, StartValidation, LoadDraft, Validate,
              CommitReviewRequired, rowVars
<1>4. CASE ReviewStep(w)
  BY <1>4 DEF ReviewStep, LoadInvoice, CommitApproval, CommitRejection, ReviewAborts, rowVars
<1>5. CASE FailureStep(w) \/ Respond(w)
  BY <1>5 DEF FailureStep, ReloadAfterRollback, MarkFailed, Respond, rowVars
<1>6. CASE Interrupt(w)
  BY <1>6, InterruptGoto
<1> QED
  BY <1>1, <1>2, <1>3, <1>4, <1>5, <1>6 DEF Step

----------------------------------------------------------------------------
(* Theorems about decisions.                                               *)

\* SoloInv is inductive when there is one worker.
LEMMA SoloInvAlways == OneWorker => (Spec => []SoloInv)
<1> SUFFICES ASSUME OneWorker PROVE Spec => []SoloInv
  OBVIOUS
<1>1. Init => SoloInv
  BY DEF Init, SoloInv, DecisionClosesReview, Decided, RequestIsCurrent, CurrentRequest,
         OneDecision, ApprovedIsClean, NoSession, ReviewPC, AIPC, ValidationPC
<1>2. TypeOK /\ DraftInv /\ SoloInv /\ [Next]_vars => SoloInv'
  <2> SUFFICES ASSUME TypeOK, DraftInv, SoloInv, [Next]_vars PROVE SoloInv'
    OBVIOUS
  <2>1. CASE Next
    BY <2>1, SoloAccept, SoloExtraction, SoloAI, SoloReview, SoloFailure DEF Next, Step
  <2>2. CASE UNCHANGED vars
    BY <2>2 DEF vars, SoloInv, DecisionClosesReview, Decided, RequestIsCurrent,
                CurrentRequest, OneDecision, ApprovedIsClean, Doc
  <2> QED
    BY <2>1, <2>2
<1> QED
  BY TypeCorrect, DraftInvAlways, <1>1, <1>2, PTL DEF Spec

\* No document is both approved and rejected, however often it is sent
\* through extraction again.
THEOREM OneDecisionAlways == OneWorker => (Spec => []OneDecision)
<1>1. SoloInv => OneDecision
  BY DEF SoloInv
<1> QED
  BY SoloInvAlways, <1>1, PTL

\* What approve_invoice approved has no validation errors, and stays so.
THEOREM ApprovedIsCleanAlways == OneWorker => (Spec => []ApprovedIsClean)
<1>1. SoloInv => ApprovedIsClean
  BY DEF SoloInv
<1> QED
  BY SoloInvAlways, <1>1, PTL

\* extract_invoice_from_document never calls the provider for a document that
\* has a draft.
THEOREM NoSecondPaidCallAlways == OneWorker => (Spec => []NoSecondPaidCall)
<1>1. SoloInv => NoSecondPaidCall
  BY DEF SoloInv, RequestIsCurrent, CurrentRequest, NoSecondPaidCall, AIPC
<1> QED
  BY SoloInvAlways, <1>1, PTL

LEMMA DecidedIsFrozen ==
  ASSUME TypeOK, SoloInv, NEW w \in Workers, Accept(w) \/ Step(w) \/ Interrupt(w),
         NEW d \in Documents, Decided(d)
  PROVE  draft'[d] = draft[d]
<1>1. CASE PersistDraft(w)
  <2>1. d # Doc(w)
    BY <1>1 DEF PersistDraft, InvoiceIsUnique, SoloInv, DecisionClosesReview
  <2> QED
    BY <1>1, <2>1 DEF PersistDraft, TypeOK
<1>2. CASE CommitEdit(w)
  <2>1. d # Doc(w)
    BY <1>2 DEF CommitEdit, SoloInv, RequestIsCurrent, CurrentRequest, ReviewPC,
                DecisionClosesReview
  <2> QED
    BY <1>2, <2>1 DEF CommitEdit, TypeOK
<1>3. CASE ~PersistDraft(w) /\ ~CommitEdit(w)
  BY <1>3, DraftUnwritten
<1> QED
  BY <1>1, <1>2, <1>3

\* The invoice a decision was about never changes afterwards.
THEOREM DecidedDataIsFrozenAlways == OneWorker => (Spec => DecidedDataIsFrozen)
<1>1. TypeOK /\ SoloInv /\ [Next]_vars =>
        [\A d \in Documents : approvedBy[d] # NoUser \/ rejectedBy[d] # NoUser
           => draft'[d] = draft[d]]_vars
  BY DecidedIsFrozen DEF Next, Decided
<1> QED
  BY TypeCorrect, SoloInvAlways, <1>1, PTL DEF Spec, DecidedDataIsFrozen

----------------------------------------------------------------------------
(* What a request read is still so when it writes an outcome.              *)

FreshPC == OwingPC \cup {"start"}

\* What the session loaded is what the row says.
FreshInv ==
  \A w \in Workers : sess[w].pc \in FreshPC => sess[w].loaded = status[Doc(w)]

LEMMA FreshFrame ==
  ASSUME OneWorker, NEW w \in Workers,
         sess'[w].pc \in FreshPC => sess'[w].loaded = status'[sess'[w].doc]
  PROVE  FreshInv'
BY DEF OneWorker, FreshInv, Doc

LEMMA FreshGoto ==
  ASSUME OneWorker, TypeOK, FreshInv, NEW w \in Workers, sess[w].pc # "idle",
         NEW p \in RequestPC \cup {"idle"}, Goto(w, p),
         p \in FreshPC => sess[w].pc \in FreshPC /\ status' = status
  PROVE  FreshInv'
<1>1. sess'[w].pc = p /\ (p # "idle" => sess'[w].doc = Doc(w) /\ sess'[w].loaded = sess[w].loaded)
  BY GotoKeeps
<1>2. "idle" \notin FreshPC
  BY DEF FreshPC, OwingPC
<1> QED
  BY <1>1, <1>2, FreshFrame DEF FreshInv

\* A session that has just read the row.
LEMMA FreshRead ==
  ASSUME OneWorker, NEW w \in Workers, NEW d,
         sess'[w].doc = d, sess'[w].loaded = status[d], status' = status
  PROVE  FreshInv'
BY FreshFrame

LEMMA FreshAccept ==
  ASSUME OneWorker, TypeOK, NEW w \in Workers, Accept(w)
  PROVE  FreshInv'
<1>1. status' = status
  BY DEF Accept, AcceptExtraction, BeginEdit, BeginApprove, BeginReject, BeginReview, rowVars
<1>2. sess'[w].loaded = status[sess'[w].doc]
  BY DEF Accept, AcceptExtraction, BeginEdit, BeginApprove, BeginReject, BeginReview, TypeOK
<1> QED
  BY <1>1, <1>2, FreshRead

LEMMA FreshExtraction ==
  ASSUME OneWorker, TypeOK, FreshInv, NEW w \in Workers, ExtractionStep(w)
  PROVE  FreshInv'
<1> USE DEF RequestPC, ExtractionPC, AIPC, ValidationPC, FailurePC, FreshPC, OwingPC
<1>1. CASE StartTextExtraction(w) \/ StartOcr(w)
  <2>1. sess[w] \in Session
    BY <1>1, ServingSession DEF StartTextExtraction, StartOcr
  <2>2. sess'[w].pc \in {"started", "ocr_started"}
    BY <1>1, <2>1 DEF StartTextExtraction, StartOcr, BeginStage, TypeOK, Session
  <2> QED
    BY <2>2, FreshFrame
<1>2. CASE Refresh(w)
  <2>1. sess[w] \in Session
    BY <1>2, ServingSession DEF Refresh, AfterRefresh
  <2>2. sess'[w].doc = Doc(w) /\ sess'[w].loaded = status[Doc(w)]
    BY <1>2, <2>1 DEF Refresh, TypeOK, Session, Doc
  <2> QED
    BY <1>2, <2>2, FreshRead DEF Refresh, rowVars
<1>3. CASE ReadPdf(w)
  <2>1. NativeOutcome(pdf[Doc(w)]) \in RequestPC \cup {"idle"}
    BY <1>3, ServingSession DEF ReadPdf, NativeOutcome, TypeOK, PdfKind
  <2> QED
    BY <1>3, <2>1, FreshGoto DEF ReadPdf, rowVars
<1>4. CASE \/ RunOcr(w) \/ OpenTextFile(w) \/ WriteTextFile(w) \/ DeleteText(w)
           \/ CommitText(w) \/ CommitOcrRequired(w)
  <2>1. PICK p \in {"save_text", "mark_failed", "writing_text", "commit_text",
                    "text_committed", "ocr_required_committed"} : Goto(w, p)
    BY <1>4 DEF RunOcr, OcrOutcomes, OpenTextFile, WriteTextFile, DeleteText,
                CommitText, CommitOcrRequired
  <2>2. sess[w].pc \in FreshPC
    BY <1>4 DEF RunOcr, OpenTextFile, WriteTextFile, DeleteText,
                CommitText, CommitOcrRequired
  <2>3. p \in FreshPC => status' = status
    BY <1>4, <2>1, GotoKeeps
       DEF RunOcr, OpenTextFile, WriteTextFile, DeleteText, CommitText,
           CommitOcrRequired, rowVars
  <2> QED
    BY <2>1, <2>2, <2>3, FreshGoto
<1> QED
  BY <1>1, <1>2, <1>3, <1>4 DEF ExtractionStep

LEMMA FreshAI ==
  ASSUME OneWorker, TypeOK, FreshInv, NEW w \in Workers, AIStep(w)
  PROVE  FreshInv'
<1> USE DEF RequestPC, ExtractionPC, AIPC, ValidationPC, FailurePC, FreshPC, OwingPC
<1>1. CASE \/ StopAfterText(w) \/ QueryDraft(w) \/ ReadText(w) \/ AiFails(w)
           \/ DraftRefused(w) \/ Validate(w)
  <2>1. PICK p \in {"respond", "start_ai", "start_validation", "call_ai", "mark_failed",
                    "rolled_back", "commit_review"} :
          Goto(w, p) /\ (p \in FreshPC => sess[w].pc \in FreshPC)
    BY <1>1 DEF StopAfterText, QueryDraft, AfterDraftQuery, ReadText, TextReadOutcomes,
                AiFails, DraftRefused, Validate
  <2> QED
    BY <1>1, <2>1, FreshGoto
       DEF StopAfterText, QueryDraft, ReadText, AiFails, DraftRefused, Validate, rowVars
<1>2. CASE StartAiExtraction(w) \/ PersistDraft(w) \/ StartValidation(w)
  <2>1. sess[w] \in Session
    BY <1>2, ServingSession DEF StartAiExtraction, PersistDraft, StartValidation
  <2>2. sess'[w].pc \in {"ai_started", "draft_committed", "validation_started"}
    BY <1>2, <2>1
       DEF StartAiExtraction, BeginStage, PersistDraft, StartValidation, TypeOK, Session
  <2> QED
    BY <2>2, FreshFrame
<1>3. CASE AiAnswers(w)
  <2>1. sess[w] \in Session
    BY <1>3, ServingSession DEF AiAnswers
  <2>2. sess'[w].doc = Doc(w) /\ sess'[w].loaded = sess[w].loaded
    BY <1>3, <2>1 DEF AiAnswers, TypeOK, Session, Doc
  <2>3. sess[w].loaded = status[Doc(w)] /\ status' = status
    BY <1>3 DEF AiAnswers, FreshInv, rowVars
  <2> QED
    BY <2>2, <2>3, FreshRead
<1>4. CASE LoadDraft(w)
  <2>1. sess[w] \in Session
    BY <1>4, ServingSession DEF LoadDraft
  <2>2. sess'[w].doc = Doc(w) /\ sess'[w].loaded = status[Doc(w)]
    BY <1>4, <2>1 DEF LoadDraft, TypeOK, Session, Doc
  <2> QED
    BY <1>4, <2>2, FreshRead DEF LoadDraft, rowVars
<1>5. CASE CommitReviewRequired(w)
  BY <1>5, FreshGoto DEF CommitReviewRequired
<1> QED
  BY <1>1, <1>2, <1>3, <1>4, <1>5 DEF AIStep

LEMMA FreshOther ==
  ASSUME OneWorker, TypeOK, FreshInv, NEW w \in Workers,
         ReviewStep(w) \/ FailureStep(w) \/ Respond(w) \/ Interrupt(w)
  PROVE  FreshInv'
<1> USE DEF RequestPC, ExtractionPC, AIPC, ValidationPC, FailurePC, ReviewPC, FreshPC, OwingPC
<1>1. CASE ReviewStep(w)
  <2>1. PICK p \in {"idle", "commit_edit", "commit_reject", "commit_approve"} : Goto(w, p)
    BY <1>1 DEF ReviewStep, LoadInvoice, AfterLoad, CommitEdit, CommitApproval,
                CommitRejection, ReviewAborts
  <2>2. sess[w].pc # "idle"
    BY <1>1 DEF ReviewStep, LoadInvoice, CommitEdit, CommitApproval, CommitRejection,
                ReviewAborts
  <2> QED
    BY <2>1, <2>2, FreshGoto
<1>2. CASE ReloadAfterRollback(w)
  <2>1. sess[w] \in Session
    BY <1>2, ServingSession DEF ReloadAfterRollback
  <2>2. sess'[w].doc = Doc(w) /\ sess'[w].loaded = status[Doc(w)]
    BY <1>2, <2>1 DEF ReloadAfterRollback, TypeOK, Session, Doc
  <2> QED
    BY <1>2, <2>2, FreshRead DEF ReloadAfterRollback, rowVars
<1>3. CASE MarkFailed(w) \/ Respond(w)
  BY <1>3, FreshGoto DEF MarkFailed, Respond
<1>4. CASE Interrupt(w)
  <2>1. PICK p \in {"idle", "mark_failed", "rolled_back", "rolled_back_text"} :
          Goto(w, p) /\ (p \in FreshPC => sess[w].pc \in FreshPC)
    BY <1>4 DEF Interrupt, ExtractionStatementFails, AIStatementFails, FailureNotRecorded,
                Crash, ExtractionFailure, AIFailure
  <2> QED
    BY <1>4, <2>1, InterruptGoto, FreshGoto
<1> QED
  BY <1>1, <1>2, <1>3, <1>4 DEF FailureStep

LEMMA FreshInvAlways == OneWorker => (Spec => []FreshInv)
<1> SUFFICES ASSUME OneWorker PROVE Spec => []FreshInv
  OBVIOUS
<1>1. Init => FreshInv
  BY DEF Init, FreshInv, FreshPC, OwingPC, NoSession
<1>2. TypeOK /\ FreshInv /\ [Next]_vars => FreshInv'
  <2> SUFFICES ASSUME TypeOK, FreshInv, [Next]_vars PROVE FreshInv'
    OBVIOUS
  <2>1. CASE Next
    BY <2>1, FreshAccept, FreshExtraction, FreshAI, FreshOther DEF Next, Step
  <2>2. CASE UNCHANGED vars
    BY <2>2 DEF vars, FreshInv, Doc
  <2> QED
    BY <2>1, <2>2
<1> QED
  BY TypeCorrect, <1>1, <1>2, PTL DEF Spec

\* A failure is then recorded whatever the document's status was.
LEMMA FailureIsWritten ==
  ASSUME TypeOK, FreshInv, NEW w \in Workers, MarkFailed(w)
  PROVE  /\ status'[Doc(w)] = "FAILED"
         /\ \A d \in Documents : d # Doc(w) => status'[d] = status[d]
<1>1. Doc(w) \in Documents /\ sess[w].loaded = status[Doc(w)]
  BY ServingSession DEF MarkFailed, FreshInv, FreshPC, OwingPC
<1> QED
  BY <1>1 DEF MarkFailed, WriteStatus, TypeOK

----------------------------------------------------------------------------
(* Review follows validation.                                              *)

Reviewed == {"REVIEW_REQUIRED", "APPROVED", "REJECTED"}

SuccessIsKept ==
  \A i \in DOMAIN jobs :
    /\ i \in DOMAIN jobs'
    /\ jobs'[i].doc = jobs[i].doc /\ jobs'[i].stage = jobs[i].stage
    /\ jobs[i].status = "SUCCESS" => jobs'[i].status = "SUCCESS"

\* Ending a job otherwise than as failed keeps the successes.
LEMMA EndKeepsSuccess ==
  ASSUME TypeOK, NEW w \in Workers, EndJob(w, "SUCCESS")
  PROVE  SuccessIsKept
<1>1. \A i \in DOMAIN jobs : jobs[i] \in Job
  BY JobRow
<1> QED
  BY <1>1, EndJobTyped DEF SuccessIsKept, Job

LEMMA InsertKeepsSuccess ==
  ASSUME TypeOK, NEW w \in Workers, NEW stage, InsertJob(w, stage)
  PROVE  SuccessIsKept
BY DEF TypeOK, InsertJob, SuccessIsKept

\* Only mark_failed takes a success back, and of the job of its own stage.
LEMMA SuccessKeptUnlessFailed ==
  ASSUME TypeOK, NEW w \in Workers, Accept(w) \/ Step(w) \/ Interrupt(w), ~MarkFailed(w)
  PROVE  SuccessIsKept
<1>1. CASE \/ StartTextExtraction(w) \/ StartOcr(w) \/ StartAiExtraction(w)
           \/ StartValidation(w)
  BY <1>1, InsertKeepsSuccess
     DEF StartTextExtraction, StartOcr, StartAiExtraction, StartValidation, BeginStage
<1>2. CASE \/ CommitText(w) \/ CommitOcrRequired(w) \/ PersistDraft(w)
           \/ CommitReviewRequired(w)
  BY <1>2, EndKeepsSuccess
     DEF CommitText, CommitOcrRequired, PersistDraft, CommitReviewRequired
<1>3. CASE jobs' = jobs
  BY <1>3 DEF SuccessIsKept
<1>4. Accept(w) => jobs' = jobs
  BY DEF Accept, AcceptExtraction, BeginEdit, BeginApprove, BeginReject, BeginReview
<1>5. ExtractionStep(w) =>
        \/ jobs' = jobs
        \/ StartTextExtraction(w) \/ StartOcr(w) \/ CommitText(w) \/ CommitOcrRequired(w)
  BY DEF ExtractionStep, Refresh, ReadPdf, RunOcr, OpenTextFile, WriteTextFile, DeleteText
<1>6. AIStep(w) =>
        \/ jobs' = jobs
        \/ StartAiExtraction(w) \/ StartValidation(w) \/ PersistDraft(w)
        \/ CommitReviewRequired(w)
  BY DEF AIStep, StopAfterText, QueryDraft, ReadText, AiAnswers, AiFails, DraftRefused,
         LoadDraft, Validate
<1>7. ReviewStep(w) => jobs' = jobs
  BY DEF ReviewStep, LoadInvoice, CommitEdit, CommitApproval, CommitRejection, ReviewAborts
<1>8. (FailureStep(w) /\ ~MarkFailed(w)) \/ Respond(w) => jobs' = jobs
  BY DEF FailureStep, ReloadAfterRollback, Respond
<1>9. Interrupt(w) => jobs' = jobs
  BY InterruptGoto
<1> QED
  BY <1>1, <1>2, <1>3, <1>4, <1>5, <1>6, <1>7, <1>8, <1>9 DEF Step

\* Only the end of a validation offers a document for review.
LEMMA OfferedByValidation ==
  ASSUME TypeOK, NEW w \in Workers, Accept(w) \/ Step(w) \/ Interrupt(w),
         NEW d \in Documents, status'[d] # status[d], status'[d] = "REVIEW_REQUIRED"
  PROVE  CommitReviewRequired(w)
<1> DEFINE Wrote(s) == WriteStatus(w, s) /\ sess[w].pc # "idle"
<1>1. ASSUME NEW s \in DocumentStatus \ {"REVIEW_REQUIRED"}, Wrote(s)
      PROVE  FALSE
  BY <1>1, ServingSession, WriteStatusTyped
<1> HIDE DEF Wrote
<1>2. CASE \/ StartTextExtraction(w) \/ StartOcr(w) \/ StartAiExtraction(w)
           \/ CommitText(w) \/ CommitOcrRequired(w) \/ PersistDraft(w) \/ MarkFailed(w)
           \/ CommitApproval(w) \/ CommitRejection(w)
  <2>1. \E s \in DocumentStatus \ {"REVIEW_REQUIRED"} : Wrote(s)
    BY <1>2
       DEF StartTextExtraction, StartOcr, StartAiExtraction, BeginStage, CommitText,
           CommitOcrRequired, PersistDraft, MarkFailed, CommitApproval, CommitRejection,
           Wrote, DocumentStatus
  <2> QED
    BY <1>1, <2>1
<1>3. ~Accept(w) /\ ~Interrupt(w)
  BY InterruptGoto
     DEF Accept, AcceptExtraction, BeginEdit, BeginApprove, BeginReject, BeginReview, rowVars
<1>4. CASE ExtractionStep(w)
  BY <1>2, <1>4 DEF ExtractionStep, Refresh, ReadPdf, RunOcr, OpenTextFile, WriteTextFile,
                    DeleteText, rowVars
<1>5. CASE AIStep(w)
  BY <1>2, <1>5 DEF AIStep, StopAfterText, QueryDraft, ReadText, AiAnswers, AiFails,
                    DraftRefused, StartValidation, LoadDraft, Validate, rowVars
<1>6. CASE ReviewStep(w)
  BY <1>2, <1>6 DEF ReviewStep, LoadInvoice, CommitEdit, ReviewAborts, rowVars
<1>7. CASE FailureStep(w) \/ Respond(w)
  BY <1>2, <1>7 DEF FailureStep, ReloadAfterRollback, Respond, rowVars
<1> QED
  BY <1>3, <1>4, <1>5, <1>6, <1>7 DEF Step

Opening(w) ==
  \/ StartTextExtraction(w) \/ StartOcr(w) \/ StartAiExtraction(w) \/ StartValidation(w)

\* What opens a stage has a job of that stage from then on.
LEMMA OpeningEffect ==
  ASSUME TypeOK, NEW w \in Workers, Opening(w)
  PROVE  /\ sess'[w].doc = Doc(w) /\ sess'[w].job = Len(jobs) + 1
         /\ jobs'[Len(jobs) + 1].stage = "RESULT_VALIDATION" => StartValidation(w)
<1>1. sess[w] \in Session
  BY ServingSession
     DEF Opening, StartTextExtraction, StartOcr, StartAiExtraction, StartValidation
<1>2. PICK stage \in ProcessingStage :
        InsertJob(w, stage) /\ (stage = "RESULT_VALIDATION" => StartValidation(w))
  BY DEF Opening, StartTextExtraction, StartOcr, StartAiExtraction, StartValidation,
         BeginStage, ProcessingStage
<1>3. jobs'[Len(jobs) + 1].stage = stage
  BY <1>2 DEF InsertJob, TypeOK
<1>4. sess'[w].doc = Doc(w) /\ sess'[w].job = Len(jobs) + 1
  BY <1>1 DEF Opening, StartTextExtraction, StartOcr, StartAiExtraction, StartValidation,
              BeginStage, TypeOK, Session, Doc
<1> QED
  BY <1>2, <1>3, <1>4

\* Any other statement leaves the request the job it has.
LEMMA JobStays ==
  ASSUME TypeOK, NEW w \in Workers, Step(w) \/ Interrupt(w), ~Opening(w), sess'[w].pc \in JobPC
  PROVE  sess[w].pc \in JobPC /\ sess'[w].job = sess[w].job /\ sess'[w].doc = Doc(w)
<1> USE DEF RequestPC, ExtractionPC, AIPC, ValidationPC, FailurePC, ReviewPC, JobPC
<1>1. ASSUME NEW p \in RequestPC \cup {"idle"}, Goto(w, p), sess[w].pc # "idle",
             p \in JobPC => sess[w].pc \in JobPC
      PROVE  sess[w].pc \in JobPC /\ sess'[w].job = sess[w].job /\ sess'[w].doc = Doc(w)
  <2>1. sess'[w].pc = p /\ p # "idle"
    BY <1>1, GotoKeeps
  <2> QED
    BY <1>1, <2>1, GotoKeeps
<1>2. CASE \/ Refresh(w) \/ AiAnswers(w) \/ PersistDraft(w) \/ LoadDraft(w)
           \/ ReloadAfterRollback(w)
  <2>1. sess[w].pc # "idle" /\ sess[w].pc \in JobPC
    BY <1>2 DEF Refresh, AfterRefresh, AiAnswers, PersistDraft, LoadDraft, ReloadAfterRollback
  <2>2. sess[w] \in Session
    BY <2>1, ServingSession
  <2>3. sess'[w].job = sess[w].job /\ sess'[w].doc = Doc(w)
    BY <1>2, <2>2 DEF Refresh, AiAnswers, PersistDraft, LoadDraft, ReloadAfterRollback,
                      TypeOK, Session, Doc
  <2> QED
    BY <2>1, <2>3
<1>3. CASE ReadPdf(w)
  <2>1. NativeOutcome(pdf[Doc(w)]) \in RequestPC \cup {"idle"}
    BY <1>3, ServingSession DEF ReadPdf, NativeOutcome, TypeOK, PdfKind
  <2> QED
    BY <1>1, <1>3, <2>1 DEF ReadPdf
<1>4. CASE ExtractionStep(w) /\ ~Refresh(w) /\ ~ReadPdf(w)
  <2>1. PICK p \in RequestPC : Goto(w, p)
    BY <1>4 DEF ExtractionStep, Opening, RunOcr, OcrOutcomes, OpenTextFile, WriteTextFile,
                DeleteText, CommitText, CommitOcrRequired
  <2>2. sess[w].pc \in JobPC /\ sess[w].pc # "idle"
    BY <1>4 DEF ExtractionStep, Opening, RunOcr, OpenTextFile, WriteTextFile, DeleteText,
                CommitText, CommitOcrRequired
  <2> QED
    BY <1>1, <2>1, <2>2
<1>5. CASE AIStep(w) /\ ~AiAnswers(w) /\ ~PersistDraft(w) /\ ~LoadDraft(w)
  <2>1. PICK p \in RequestPC : Goto(w, p)
    BY <1>5 DEF AIStep, Opening, StopAfterText, QueryDraft, AfterDraftQuery, ReadText,
                TextReadOutcomes, AiFails, DraftRefused, Validate, CommitReviewRequired
  <2>2. sess[w].pc \in JobPC /\ sess[w].pc # "idle"
    BY <1>5 DEF AIStep, Opening, StopAfterText, QueryDraft, ReadText, AiFails,
                DraftRefused, Validate, CommitReviewRequired
  <2> QED
    BY <1>1, <2>1, <2>2
<1>6. CASE ReviewStep(w)
  <2>1. PICK p \in ReviewPC \cup {"idle"} : Goto(w, p)
    BY <1>6 DEF ReviewStep, LoadInvoice, AfterLoad, CommitEdit, CommitApproval,
                CommitRejection, ReviewAborts
  <2>2. sess[w].pc # "idle"
    BY <1>6 DEF ReviewStep, LoadInvoice, CommitEdit, CommitApproval, CommitRejection,
                ReviewAborts
  <2> QED
    BY <1>1, <2>1, <2>2
<1>7. CASE MarkFailed(w) \/ Respond(w)
  BY <1>1, <1>7 DEF MarkFailed, Respond
<1>8. CASE Interrupt(w)
  <2>1. PICK p \in FailurePC \cup {"idle"} :
          Goto(w, p) /\ (p \in JobPC => sess[w].pc \in JobPC)
    BY <1>8 DEF Interrupt, ExtractionStatementFails, AIStatementFails, FailureNotRecorded,
                Crash, ExtractionFailure, AIFailure
  <2> QED
    BY <1>1, <1>8, <2>1, InterruptGoto
<1> QED
  BY <1>2, <1>3, <1>4, <1>5, <1>6, <1>7, <1>8 DEF Step, FailureStep

\* A decision ends its request, and a validation begins on an undecided
\* document.
LEMMA ValidatingStep ==
  ASSUME OneWorker, TypeOK, SoloInv, JobInv, ValidatingIsUndecided,
         NEW w \in Workers, Accept(w) \/ Step(w) \/ Interrupt(w)
  PROVE  ValidatingIsUndecided'
<1> SUFFICES ASSUME sess'[w].pc \in JobPC, jobs'[sess'[w].job].stage = "RESULT_VALIDATION"
             PROVE  ~Decided(Doc(w))'
  BY DEF ValidatingIsUndecided, OneWorker, JobPC, Doc
<1>1. ~Accept(w)
  <2> SUFFICES ASSUME Accept(w) PROVE sess'[w].pc \in ReviewPC \cup {"start"}
    BY DEF JobPC
  <2> QED
    BY DEF Accept, AcceptExtraction, BeginEdit, BeginApprove, BeginReject, BeginReview,
           TypeOK, ReviewPC
<1>2. CASE Opening(w)
  <2>1. StartValidation(w) /\ sess'[w].doc = Doc(w)
    BY <1>2, OpeningEffect
  <2>2. ~Decided(Doc(w)) /\ UNCHANGED <<approvedBy, rejectedBy>>
    BY <2>1 DEF StartValidation, rowVars, SoloInv, RequestIsCurrent, CurrentRequest, ValidationPC
  <2> QED
    BY <2>1, <2>2 DEF Decided, Doc
<1>3. CASE ~Opening(w)
  <2>1. sess[w].pc \in JobPC /\ sess'[w].job = sess[w].job /\ sess'[w].doc = Doc(w)
    BY <1>1, <1>3, JobStays
  <2>2. sess[w].job \in DOMAIN jobs
    BY <2>1 DEF JobInv, JobsAreOwned, OwnJob
  <2>3. jobs'[sess[w].job].stage = jobs[sess[w].job].stage
    <3>1. CASE MarkFailed(w)
      <4>1. jobs[sess[w].job] \in Job
        BY <2>2, JobRow
      <4>2. jobs'[sess[w].job] = [jobs[sess[w].job] EXCEPT !.status = "FAILED"]
        BY <2>2, <3>1, EndJobTyped DEF MarkFailed
      <4> QED
        BY <4>1, <4>2 DEF Job
    <3> QED
      BY <2>2, <3>1, SuccessKeptUnlessFailed DEF SuccessIsKept
  <2>4. ~Decided(Doc(w))
    BY <2>1, <2>3 DEF ValidatingIsUndecided, JobPC
  <2>5. ~CommitApproval(w) /\ ~CommitRejection(w)
    BY ApprovalEffect, RejectionEffect
       DEF NoSession, JobPC, RequestPC, ExtractionPC, AIPC, ValidationPC, FailurePC
  <2>6. UNCHANGED <<approvedBy, rejectedBy>>
    BY <2>5, DecidingSteps DEF UndecidingStep
  <2> QED
    BY <2>1, <2>4, <2>6 DEF Decided, Doc
<1> QED
  BY <1>2, <1>3

LEMMA ValidatingAlways == OneWorker => (Spec => []ValidatingIsUndecided)
<1> SUFFICES ASSUME OneWorker PROVE Spec => []ValidatingIsUndecided
  OBVIOUS
<1>1. Init => ValidatingIsUndecided
  BY DEF Init, ValidatingIsUndecided, NoSession, RequestPC, ExtractionPC, AIPC,
         ValidationPC, FailurePC
<1>2. TypeOK /\ SoloInv /\ JobInv /\ ValidatingIsUndecided /\ [Next]_vars
        => ValidatingIsUndecided'
  <2> SUFFICES ASSUME TypeOK, SoloInv, JobInv, ValidatingIsUndecided, [Next]_vars
               PROVE  ValidatingIsUndecided'
    OBVIOUS
  <2>1. CASE UNCHANGED vars
    BY <2>1 DEF vars, ValidatingIsUndecided, Decided, Doc
  <2> QED
    BY <2>1, ValidatingStep DEF Next
<1> QED
  BY TypeCorrect, SoloInvAlways, JobInvAlways, <1>1, <1>2, PTL DEF Spec

\* What has its validation behind it.
Validated(d) == status[d] \in Reviewed \/ Decided(d)

LEMMA ReviewFollowsStep ==
  ASSUME TypeOK, SoloInv, JobInv, FreshInv, ValidatingIsUndecided, ReviewFollowsValidation,
         NEW w \in Workers, Accept(w) \/ Step(w) \/ Interrupt(w)
  PROVE  ReviewFollowsValidation'
<1> SUFFICES ASSUME NEW d \in Documents, Validated(d)'
             PROVE  ValidationCompleted(d)'
  BY DEF ReviewFollowsValidation, Reviewed, Validated
<1>1. CASE MarkFailed(w)
  <2>1. UNCHANGED <<approvedBy, rejectedBy>>
    BY <1>1 DEF MarkFailed
  <2>2. Validated(d) /\ (d = Doc(w) => Decided(d))
    BY <1>1, <2>1, FailureIsWritten DEF Reviewed, Validated, Decided
  <2>3. PICK i \in DOMAIN jobs :
          /\ jobs[i].doc = d /\ jobs[i].stage = "RESULT_VALIDATION"
          /\ jobs[i].status = "SUCCESS"
    BY <2>2 DEF ReviewFollowsValidation, ValidationCompleted, Reviewed, Validated
  <2>4. sess[w].pc \in JobPC
    BY <1>1 DEF MarkFailed, JobPC, RequestPC, FailurePC, ReviewPC
  <2>5. i # sess[w].job
    <3>1. jobs[sess[w].job].doc = Doc(w)
      BY <2>4 DEF JobInv, JobsAreOwned, OwnJob
    <3>2. jobs[sess[w].job].stage = "RESULT_VALIDATION" => ~Decided(Doc(w))
      BY <2>4 DEF ValidatingIsUndecided, JobPC
    <3> QED
      BY <2>2, <2>3, <3>1, <3>2
  <2>6. DOMAIN jobs' = DOMAIN jobs /\ jobs'[i] = jobs[i]
    BY <1>1, <2>5, EndJobTyped DEF MarkFailed
  <2> QED
    BY <2>3, <2>6 DEF ValidationCompleted
<1>2. CASE CommitReviewRequired(w) /\ d = Doc(w)
  <2>1. /\ sess[w].job \in DOMAIN jobs /\ jobs[sess[w].job].doc = d
        /\ jobs[sess[w].job].stage = "RESULT_VALIDATION"
    BY <1>2 DEF CommitReviewRequired, JobInv, JobsAreOwned, OwnJob, JobPC, CheckPC,
                RequestPC, ValidationPC, ReviewPC
  <2>2. jobs[sess[w].job] \in Job
    BY <2>1, JobRow
  <2>3. /\ DOMAIN jobs' = DOMAIN jobs
        /\ jobs'[sess[w].job] = [jobs[sess[w].job] EXCEPT !.status = "SUCCESS"]
    BY <1>2, <2>1, EndJobTyped DEF CommitReviewRequired
  <2> QED
    BY <2>1, <2>2, <2>3 DEF ValidationCompleted, Job
<1>3. CASE ~MarkFailed(w) /\ ~(CommitReviewRequired(w) /\ d = Doc(w))
  <2>1. SuccessIsKept
    BY <1>3, SuccessKeptUnlessFailed
  <2>2. ASSUME CommitApproval(w) \/ CommitRejection(w), d = Doc(w)
        PROVE  Validated(d)
    BY <2>2 DEF CommitApproval, CommitRejection, SoloInv, RequestIsCurrent, CurrentRequest,
                ReviewPC, Reviewed, Validated
  <2>3. ASSUME ~CommitApproval(w), ~CommitRejection(w)
        PROVE  Validated(d)
    <3>1. UndecidingStep
      BY <2>3, DecidingSteps
    <3>2. CASE Decided(d)'
      BY <3>1, <3>2 DEF UndecidingStep, Decided, Validated, Reviewed
    <3>3. CASE status'[d] = status[d]
      BY <3>1, <3>3 DEF UndecidingStep, Decided, Validated, Reviewed
    <3>4. CASE status'[d] # status[d] /\ status'[d] = "REVIEW_REQUIRED"
      <4>1. CommitReviewRequired(w)
        BY <3>4, OfferedByValidation
      <4>2. d = Doc(w)
        BY <3>4, <4>1, ServingSession, WriteStatusTyped DEF CommitReviewRequired, DocumentStatus
      <4> QED
        BY <1>3, <4>1, <4>2
    <3> QED
      BY <3>1, <3>2, <3>3, <3>4 DEF UndecidingStep, Validated, Reviewed
  <2>4. ASSUME CommitApproval(w) \/ CommitRejection(w), d # Doc(w)
        PROVE  Validated(d)
    <3>1. status'[d] = status[d] /\ approvedBy'[d] = approvedBy[d] /\ rejectedBy'[d] = rejectedBy[d]
      BY <2>4, ApprovalEffect, RejectionEffect
    <3> QED
      BY <3>1 DEF Validated, Decided, Reviewed
  <2>5. ValidationCompleted(d)
    <3>1. Validated(d)
      BY <2>2, <2>3, <2>4
    <3> QED
      BY <3>1 DEF ReviewFollowsValidation, Reviewed, Validated
  <2> QED
    BY <2>1, <2>5 DEF SuccessIsKept, ValidationCompleted
<1> QED
  BY <1>1, <1>2, <1>3

\* With one worker no document is under review, approved or rejected before
\* run_result_validation has ended successfully for it, and what was decided
\* about keeps that run in its history, also when it is extracted again.
THEOREM ReviewFollowsValidationAlways == OneWorker => (Spec => []ReviewFollowsValidation)
<1> SUFFICES ASSUME OneWorker PROVE Spec => []ReviewFollowsValidation
  OBVIOUS
<1>1. Init => ReviewFollowsValidation
  BY DEF Init, ReviewFollowsValidation, Decided
<1>2. /\ TypeOK /\ SoloInv /\ JobInv /\ FreshInv /\ ValidatingIsUndecided
      /\ ReviewFollowsValidation /\ [Next]_vars
      => ReviewFollowsValidation'
  <2> SUFFICES ASSUME TypeOK, SoloInv, JobInv, FreshInv, ValidatingIsUndecided,
                      ReviewFollowsValidation, [Next]_vars
               PROVE  ReviewFollowsValidation'
    OBVIOUS
  <2>1. CASE Next
    BY <2>1, ReviewFollowsStep DEF Next
  <2>2. CASE UNCHANGED vars
    BY <2>2 DEF vars, ReviewFollowsValidation, ValidationCompleted, Decided
  <2> QED
    BY <2>1, <2>2
<1> QED
  BY TypeCorrect, SoloInvAlways, JobInvAlways, FreshInvAlways, ValidatingAlways, <1>1, <1>2,
     PTL DEF Spec

----------------------------------------------------------------------------
(* The text a status claims is in storage.                                 *)

\* Statements of a text stage before its commit.
BeforeTextPC == TextPC \cup {"ocr_required_committed", "start_ocr"}

\* A text stage under way is not shown as done, its commit comes after the
\* file, and the file is removed only on behalf of a fault.
TextRequest(w) ==
  /\ sess[w].pc \in BeforeTextPC => status[Doc(w)] # "TEXT_EXTRACTED"
  /\ At(w, "commit_text") => artifact[Doc(w)] = "complete"
  /\ sess[w].pc \in {"rolled_back_text", "delete_text"} => faults > 0

\* Between the removal of the file and mark_failed the status is wrong, which
\* only a second fault can leave so.
TextIsThere(d) ==
  status[d] = "TEXT_EXTRACTED" /\ faults <= 1 =>
    \/ textKey[d] /\ artifact[d] = "complete"
    \/ faults > 0 /\ \E w \in Workers : At(w, "mark_failed") /\ Doc(w) = d

\* What makes ExtractedTextIsStored inductive for one worker.
TextInv ==
  /\ \A w \in Workers : TextRequest(w)
  /\ \A d \in Documents : TextIsThere(d)

\* A statement that neither touches the file nor claims the text is there.
LEMMA TextQuiet ==
  ASSUME OneWorker, TypeOK, TextInv, NEW w \in Workers,
         ~At(w, "mark_failed") \/ faults' > faults,
         \A d \in Documents : status'[d] # status[d] => status'[d] # "TEXT_EXTRACTED",
         UNCHANGED <<textKey, artifact>>, faults' \in Nat, faults' >= faults,
         TextRequest(w)'
  PROVE  TextInv'
<1>1. \A v \in Workers : TextRequest(v)'
  BY DEF OneWorker
<1>2. ASSUME NEW d \in Documents, status'[d] = "TEXT_EXTRACTED", faults' <= 1
      PROVE  textKey[d] /\ artifact[d] = "complete"
  <2>1. status[d] = "TEXT_EXTRACTED" /\ faults <= 1
    BY <1>2 DEF TypeOK
  <2>2. ~(faults > 0 /\ \E v \in Workers : At(v, "mark_failed") /\ Doc(v) = d)
    BY <1>2 DEF OneWorker, TypeOK
  <2> QED
    BY <2>1, <2>2 DEF TextInv, TextIsThere
<1> QED
  BY <1>1, <1>2 DEF TextInv, TextIsThere

\* The same for one that goes on to p.
LEMMA TextGoto ==
  ASSUME OneWorker, TypeOK, TextInv, NEW w \in Workers, sess[w].pc # "idle",
         ~At(w, "mark_failed") \/ faults' > faults,
         NEW p \in RequestPC \cup {"idle"}, Goto(w, p),
         p \in BeforeTextPC => sess[w].pc \in BeforeTextPC, p # "commit_text",
         p \in {"rolled_back_text", "delete_text"} => faults' > 0,
         \A d \in Documents : status'[d] # status[d] => status'[d] # "TEXT_EXTRACTED",
         UNCHANGED <<textKey, artifact>>, faults' \in Nat, faults' >= faults
  PROVE  TextInv'
<1>1. sess'[w].pc = p /\ (p # "idle" => sess'[w].doc = Doc(w))
  BY GotoKeeps
<1>2. Doc(w) \in Documents
  BY ServingSession
<1>3. p \in BeforeTextPC => p # "idle" /\ status'[Doc(w)] # "TEXT_EXTRACTED"
  BY <1>2 DEF TextInv, TextRequest, BeforeTextPC, TextPC
<1>4. TextRequest(w)'
  BY <1>1, <1>3 DEF TextRequest, Doc
<1> QED
  BY <1>4, TextQuiet

\* A statement outside the text stages that updates its session.
LEMMA TextElsewhere ==
  ASSUME OneWorker, TypeOK, TextInv, NEW w \in Workers, ~At(w, "mark_failed"),
         sess'[w].pc \notin BeforeTextPC \cup {"rolled_back_text", "delete_text"},
         \A d \in Documents : status'[d] # status[d] => status'[d] # "TEXT_EXTRACTED",
         UNCHANGED <<textKey, artifact, faults>>
  PROVE  TextInv'
<1>1. TextRequest(w)'
  BY DEF TextRequest, BeforeTextPC, TextPC
<1>2. faults' \in Nat /\ faults' >= faults
  BY DEF TypeOK
<1> QED
  BY <1>1, <1>2, TextQuiet

LEMMA TextAccept ==
  ASSUME OneWorker, TypeOK, TextInv, NEW w \in Workers, Accept(w)
  PROVE  TextInv'
<1>1. /\ sess[w] = NoSession
      /\ sess'[w].pc \in {"start", "load_edit", "load_approve", "load_reject"}
      /\ UNCHANGED <<status, textKey, artifact, faults>>
  BY DEF Accept, AcceptExtraction, BeginEdit, BeginApprove, BeginReject, BeginReview,
         rowVars, TypeOK
<1> QED
  BY <1>1, TextElsewhere DEF NoSession, BeforeTextPC, TextPC

\* The first commit of a text stage takes the claim back.
LEMMA TextBegin ==
  ASSUME OneWorker, TypeOK, FreshInv, TextInv, NEW w \in Workers,
         StartTextExtraction(w) \/ StartOcr(w)
  PROVE  TextInv'
<1>1. sess[w] \in Session /\ Doc(w) \in Documents
  BY ServingSession DEF StartTextExtraction, StartOcr
<1>2. PICK s \in {"EXTRACTING_TEXT", "OCR_PROCESSING"} : WriteStatus(w, s)
  BY DEF StartTextExtraction, StartOcr, BeginStage
<1>3. \A d \in Documents : status'[d] # status[d] => status'[d] # "TEXT_EXTRACTED"
  BY <1>1, <1>2, WriteStatusTyped DEF DocumentStatus
<1>4. status'[Doc(w)] # "TEXT_EXTRACTED"
  <2>1. CASE StartTextExtraction(w)
    <3>1. sess[w].loaded = status[Doc(w)]
      BY <2>1 DEF StartTextExtraction, FreshInv, FreshPC
    <3> QED
      BY <1>1, <2>1, <3>1 DEF StartTextExtraction, BeginStage, WriteStatus, TypeOK
  <2>2. CASE StartOcr(w)
    <3>1. status[Doc(w)] # "TEXT_EXTRACTED"
      BY <2>2 DEF StartOcr, TextInv, TextRequest, BeforeTextPC
    <3> QED
      BY <1>1, <1>3, <3>1
  <2> QED
    BY <2>1, <2>2
<1>5. sess'[w].pc \in {"started", "ocr_started"} /\ sess'[w].doc = Doc(w)
  BY <1>1 DEF StartTextExtraction, StartOcr, BeginStage, TypeOK, Session, Doc
<1>6. TextRequest(w)'
  BY <1>4, <1>5 DEF TextRequest, Doc
<1>7. UNCHANGED <<textKey, artifact, faults>> /\ ~At(w, "mark_failed")
  BY DEF StartTextExtraction, StartOcr, BeginStage
<1> QED
  BY <1>3, <1>6, <1>7, TextQuiet DEF TypeOK

\* Opening, writing and removing the file.
LEMMA TextFile ==
  ASSUME OneWorker, TypeOK, TextInv, NEW w \in Workers,
         OpenTextFile(w) \/ WriteTextFile(w) \/ DeleteText(w)
  PROVE  TextInv'
<1>1. sess[w] \in Session /\ Doc(w) \in Documents /\ TextRequest(w)
  BY ServingSession DEF OpenTextFile, WriteTextFile, DeleteText, TextInv
<1>2. UNCHANGED <<status, textKey, faults>> /\ ~At(w, "mark_failed")
  BY DEF OpenTextFile, WriteTextFile, DeleteText, rowVars
<1>3. \A d \in Documents : d # Doc(w) => artifact'[d] = artifact[d]
  BY DEF OpenTextFile, WriteTextFile, DeleteText, TypeOK
<1>4. ASSUME NEW d \in Documents, d # Doc(w) PROVE TextIsThere(d)'
  BY <1>2, <1>3, <1>4 DEF TextInv, TextIsThere, OneWorker
<1>5. CASE OpenTextFile(w) \/ WriteTextFile(w)
  <2>1. status[Doc(w)] # "TEXT_EXTRACTED"
    BY <1>1, <1>5 DEF OpenTextFile, WriteTextFile, TextRequest, BeforeTextPC, TextPC
  <2>2. /\ sess'[w].pc = IF At(w, "save_text") THEN "writing_text" ELSE "commit_text"
        /\ sess'[w].doc = Doc(w)
    BY <1>1, <1>5 DEF OpenTextFile, WriteTextFile, Goto, TypeOK, Session, Doc
  <2>3. WriteTextFile(w) => artifact'[Doc(w)] = "complete"
    BY <1>1 DEF WriteTextFile, TypeOK
  <2>4. TextRequest(w)'
    BY <1>2, <1>5, <2>1, <2>2, <2>3 DEF OpenTextFile, WriteTextFile, TextRequest, Doc
  <2>5. TextIsThere(Doc(w))'
    BY <1>2, <2>1, <2>2 DEF TextIsThere, Doc
  <2>6. \A d \in Documents : TextIsThere(d)'
    <3>1. ASSUME NEW d \in Documents, d = Doc(w) PROVE TextIsThere(d)'
      BY <1>2, <2>1, <3>1 DEF TextIsThere
    <3> QED
      BY <1>4, <3>1
  <2> QED
    BY <2>4, <2>6 DEF TextInv, OneWorker
<1>6. CASE DeleteText(w)
  <2>1. sess'[w].pc = "mark_failed" /\ sess'[w].doc = Doc(w) /\ faults' > 0
    BY <1>1, <1>2, <1>6 DEF DeleteText, Goto, TypeOK, Session, Doc, TextRequest
  <2>2. TextRequest(w)'
    BY <2>1 DEF TextRequest, BeforeTextPC, TextPC
  <2>3. ASSUME NEW d \in Documents, d = Doc(w) PROVE TextIsThere(d)'
    BY <2>1, <2>3 DEF TextIsThere, Doc
  <2> QED
    BY <1>4, <2>2, <2>3 DEF TextInv, OneWorker
<1> QED
  BY <1>5, <1>6

\* The commit of the text stage: the file is complete by then.
LEMMA TextCommit ==
  ASSUME OneWorker, TypeOK, TextInv, NEW w \in Workers, CommitText(w)
  PROVE  TextInv'
<1>1. sess[w] \in Session /\ Doc(w) \in Documents /\ artifact[Doc(w)] = "complete"
  BY ServingSession DEF CommitText, TextInv, TextRequest
<1>2. sess'[w].pc = "text_committed"
  BY <1>1 DEF CommitText, Goto, TypeOK, Session
<1>3. TextRequest(w)'
  BY <1>2 DEF TextRequest, BeforeTextPC, TextPC
<1>4. /\ textKey'[Doc(w)] /\ UNCHANGED <<artifact, faults>>
      /\ \A d \in Documents : d # Doc(w) => status'[d] = status[d] /\ textKey'[d] = textKey[d]
  BY <1>1 DEF CommitText, WriteStatus, TypeOK
<1>5. ASSUME NEW d \in Documents PROVE TextIsThere(d)'
  <2>1. CASE d = Doc(w)
    BY <1>1, <1>4, <2>1 DEF TextIsThere
  <2>2. CASE d # Doc(w)
    <3>1. ~\E v \in Workers : At(v, "mark_failed") /\ Doc(v) = d
      BY DEF CommitText, OneWorker
    <3> QED
      BY <1>4, <2>2, <3>1 DEF TextInv, TextIsThere
  <2> QED
    BY <2>1, <2>2
<1> QED
  BY <1>3, <1>5 DEF TextInv, OneWorker

LEMMA TextExtraction ==
  ASSUME OneWorker, TypeOK, FreshInv, TextInv, NEW w \in Workers, ExtractionStep(w)
  PROVE  TextInv'
<1> USE DEF RequestPC, ExtractionPC, AIPC, ValidationPC, FailurePC, BeforeTextPC, TextPC
<1>0. faults \in Nat
  BY DEF TypeOK
<1>1. CASE Refresh(w)
  <2>1. sess[w].pc \in DOMAIN AfterRefresh /\ sess[w].pc # "idle"
    BY <1>1 DEF Refresh, AfterRefresh
  <2>2. sess[w] \in Session /\ Doc(w) \in Documents /\ TextRequest(w)
    BY <2>1, ServingSession DEF TextInv
  <2>3. sess'[w].pc = AfterRefresh[sess[w].pc] /\ sess'[w].doc = Doc(w)
    BY <1>1, <2>2 DEF Refresh, TypeOK, Session, Doc
  <2>4. /\ AfterRefresh[sess[w].pc] \in BeforeTextPC => sess[w].pc \in BeforeTextPC
        /\ AfterRefresh[sess[w].pc] \notin {"commit_text", "rolled_back_text", "delete_text"}
    BY <2>1 DEF AfterRefresh
  <2>5. UNCHANGED <<status, textKey, artifact, faults>> /\ ~At(w, "mark_failed")
    BY <1>1, <2>1 DEF Refresh, AfterRefresh, rowVars
  <2>6. TextRequest(w)'
    BY <2>2, <2>3, <2>4, <2>5 DEF TextRequest, Doc
  <2> QED
    BY <1>0, <2>5, <2>6, TextQuiet
<1>2. CASE ReadPdf(w)
  <2>1. NativeOutcome(pdf[Doc(w)])
          \in {"save_text", "commit_ocr_required", "mark_failed", "idle"}
    BY <1>2, ServingSession DEF ReadPdf, NativeOutcome, TypeOK, PdfKind
  <2> QED
    BY <1>0, <1>2, <2>1, TextGoto DEF ReadPdf, rowVars
<1>3. CASE RunOcr(w)
  <2>1. PICK p \in {"save_text", "mark_failed"} : Goto(w, p)
    BY <1>3 DEF RunOcr, OcrOutcomes
  <2> QED
    BY <1>0, <1>3, <2>1, TextGoto DEF RunOcr, rowVars
<1>4. CASE CommitOcrRequired(w)
  <2>1. \A d \in Documents : status'[d] # status[d] => status'[d] # "TEXT_EXTRACTED"
    BY <1>4, ServingSession, WriteStatusTyped DEF CommitOcrRequired, DocumentStatus
  <2> QED
    BY <1>0, <1>4, <2>1, TextGoto DEF CommitOcrRequired
<1> QED
  BY <1>1, <1>2, <1>3, <1>4, TextBegin, TextFile, TextCommit DEF ExtractionStep

\* The other stages and the reviews leave the file alone and claim nothing.
LEMMA TextAI ==
  ASSUME OneWorker, TypeOK, TextInv, NEW w \in Workers, AIStep(w)
  PROVE  TextInv'
<1> USE DEF RequestPC, ExtractionPC, AIPC, ValidationPC, FailurePC, BeforeTextPC, TextPC
<1>0. faults \in Nat
  BY DEF TypeOK
<1>1. CASE \/ StopAfterText(w) \/ QueryDraft(w) \/ ReadText(w) \/ AiFails(w)
           \/ DraftRefused(w) \/ Validate(w)
  <2>1. PICK p \in {"respond", "start_ai", "start_validation", "call_ai", "mark_failed",
                    "rolled_back", "commit_review"} : Goto(w, p)
    BY <1>1 DEF StopAfterText, QueryDraft, AfterDraftQuery, ReadText, TextReadOutcomes,
                AiFails, DraftRefused, Validate
  <2> QED
    BY <1>0, <1>1, <2>1, TextGoto
       DEF StopAfterText, QueryDraft, ReadText, AiFails, DraftRefused, Validate, rowVars
<1>2. CASE StartAiExtraction(w) \/ PersistDraft(w) \/ CommitReviewRequired(w)
  <2>1. sess[w] \in Session /\ Doc(w) \in Documents
    BY <1>2, ServingSession DEF StartAiExtraction, PersistDraft, CommitReviewRequired
  <2>2. sess'[w].pc \in {"ai_started", "draft_committed", "review_committed"}
    BY <1>2, <2>1 DEF StartAiExtraction, BeginStage, PersistDraft, CommitReviewRequired,
                      Goto, TypeOK, Session
  <2>3. \A d \in Documents : status'[d] # status[d] => status'[d] # "TEXT_EXTRACTED"
    BY <1>2, <2>1, WriteStatusTyped
       DEF StartAiExtraction, BeginStage, PersistDraft, CommitReviewRequired, DocumentStatus
  <2>4. UNCHANGED <<textKey, artifact, faults>> /\ ~At(w, "mark_failed")
    BY <1>2 DEF StartAiExtraction, BeginStage, PersistDraft, CommitReviewRequired
  <2> QED
    BY <2>2, <2>3, <2>4, TextElsewhere
<1>3. CASE AiAnswers(w) \/ StartValidation(w) \/ LoadDraft(w)
  <2>1. sess[w] \in Session
    BY <1>3, ServingSession DEF AiAnswers, StartValidation, LoadDraft
  <2>2. sess'[w].pc \in {"persist", "validation_started", "mark_failed", "validate"}
    BY <1>3, <2>1 DEF AiAnswers, StartValidation, LoadDraft, TypeOK, Session
  <2>3. UNCHANGED <<status, textKey, artifact, faults>> /\ ~At(w, "mark_failed")
    BY <1>3 DEF AiAnswers, StartValidation, LoadDraft, rowVars
  <2> QED
    BY <2>2, <2>3, TextElsewhere
<1> QED
  BY <1>1, <1>2, <1>3 DEF AIStep

LEMMA TextReview ==
  ASSUME OneWorker, TypeOK, TextInv, NEW w \in Workers, ReviewStep(w)
  PROVE  TextInv'
<1> USE DEF RequestPC, ReviewPC, BeforeTextPC, TextPC
<1>0. faults \in Nat
  BY DEF TypeOK
<1>1. PICK p \in {"idle", "commit_edit", "commit_reject", "commit_approve"} : Goto(w, p)
  BY DEF ReviewStep, LoadInvoice, AfterLoad, CommitEdit, CommitApproval, CommitRejection,
         ReviewAborts
<1>2. sess[w].pc \in ReviewPC /\ UNCHANGED <<textKey, artifact, faults>>
  BY DEF ReviewStep, LoadInvoice, CommitEdit, CommitApproval, CommitRejection,
         ReviewAborts, rowVars
<1>3. \A d \in Documents : status'[d] # status[d] => status'[d] # "TEXT_EXTRACTED"
  <2>1. CASE CommitApproval(w) \/ CommitRejection(w)
    BY <2>1, ServingSession, WriteStatusTyped DEF CommitApproval, CommitRejection, DocumentStatus
  <2>2. CASE LoadInvoice(w) \/ CommitEdit(w) \/ ReviewAborts(w)
    BY <2>2 DEF LoadInvoice, CommitEdit, ReviewAborts, rowVars
  <2> QED
    BY <2>1, <2>2 DEF ReviewStep
<1> QED
  BY <1>0, <1>1, <1>2, <1>3, TextGoto

LEMMA TextFailure ==
  ASSUME OneWorker, TypeOK, FreshInv, TextInv, NEW w \in Workers,
         FailureStep(w) \/ Respond(w) \/ Interrupt(w)
  PROVE  TextInv'
<1> USE DEF RequestPC, ExtractionPC, AIPC, ValidationPC, FailurePC, BeforeTextPC, TextPC
<1>0. faults \in Nat
  BY DEF TypeOK
<1>1. CASE ReloadAfterRollback(w)
  <2>1. sess[w] \in Session /\ TextRequest(w)
    BY <1>1, ServingSession DEF ReloadAfterRollback, TextInv
  <2>2. /\ sess'[w].pc \in {"delete_text", "mark_failed"}
        /\ sess'[w].pc = "delete_text" => At(w, "rolled_back_text")
    BY <1>1, <2>1 DEF ReloadAfterRollback, TypeOK, Session
  <2>3. UNCHANGED <<status, textKey, artifact, faults>> /\ ~At(w, "mark_failed")
    BY <1>1 DEF ReloadAfterRollback, rowVars
  <2>4. TextRequest(w)'
    BY <2>1, <2>2, <2>3 DEF TextRequest
  <2> QED
    BY <1>0, <2>3, <2>4, TextQuiet
<1>2. CASE MarkFailed(w)
  <2>1. sess'[w].pc = "idle"
    BY <1>2, GotoKeeps DEF MarkFailed
  <2>2. TextRequest(w)'
    BY <2>1 DEF TextRequest
  <2>3. UNCHANGED <<textKey, artifact, faults>>
    BY <1>2 DEF MarkFailed
  <2>4. ASSUME NEW d \in Documents PROVE TextIsThere(d)'
    BY <1>2, <2>3, FailureIsWritten DEF TextInv, TextIsThere, OneWorker
  <2> QED
    BY <2>2, <2>4 DEF TextInv, OneWorker
<1>3. CASE Respond(w)
  BY <1>0, <1>3, TextGoto DEF Respond, rowVars
<1>4. CASE Interrupt(w)
  <2>1. faults' = faults + 1
    BY <1>4 DEF Interrupt, ExtractionStatementFails, AIStatementFails, FailureNotRecorded,
                Crash, Fault
  <2>2. PICK p \in {"idle", "mark_failed", "rolled_back", "rolled_back_text"} : Goto(w, p)
    BY <1>4, InterruptGoto
  <2> QED
    BY <1>0, <1>4, <2>1, <2>2, InterruptGoto, TextGoto
<1> QED
  BY <1>1, <1>2, <1>3, <1>4 DEF FailureStep

LEMMA TextInvAlways == OneWorker => (Spec => []TextInv)
<1> SUFFICES ASSUME OneWorker PROVE Spec => []TextInv
  OBVIOUS
<1>1. Init => TextInv
  BY DEF Init, TextInv, TextRequest, TextIsThere, NoSession, BeforeTextPC, TextPC
<1>2. TypeOK /\ FreshInv /\ TextInv /\ [Next]_vars => TextInv'
  <2> SUFFICES ASSUME TypeOK, FreshInv, TextInv, [Next]_vars PROVE TextInv'
    OBVIOUS
  <2>1. CASE Next
    BY <2>1, TextAccept, TextExtraction, TextAI, TextReview, TextFailure DEF Next, Step
  <2>2. CASE UNCHANGED vars
    BY <2>2 DEF vars, TextInv, TextRequest, TextIsThere, Doc
  <2> QED
    BY <2>1, <2>2
<1> QED
  BY TypeCorrect, FreshInvAlways, <1>1, <1>2, PTL DEF Spec

\* With one worker and at most one fault, a document that says its text was
\* extracted has the text in storage once the call is over.
THEOREM ExtractedTextIsStoredAlways == OneWorker => (Spec => []ExtractedTextIsStored)
<1>1. TextInv => ExtractedTextIsStored
  BY DEF TextInv, TextIsThere, ExtractedTextIsStored, AtRest, NoSession
<1> QED
  BY TextInvAlways, <1>1, PTL
=============================================================================
