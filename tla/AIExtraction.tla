---------------------------- MODULE AIExtraction ----------------------------
(***************************************************************************)
(* The rest of the same call: the AI provider turns the extracted text     *)
(* into a draft invoice (extract_invoice_from_document), then the draft is *)
(* validated and offered for review (run_result_validation).               *)
(***************************************************************************)
EXTENDS ExtractText

----------------------------------------------------------------------------
(* extract_invoice_from_document                                           *)

\* The single continuation point after native extraction and OCR.
ContinuesToAi(w) == sess[w].loaded = "TEXT_EXTRACTED" /\ AiEnabled

StopAfterText(w) ==
  /\ At(w, "route")
  /\ ~ContinuesToAi(w)
  /\ Goto(w, "respond")
  /\ UNCHANGED <<rowVars, jobs, pdf, artifact, faults>>

\* Mutation of AfterDraftQuery: no query for an existing draft.
AlwaysExtract(w) == "start_ai"

\* Mutation of AfterDraftQuery: any existing draft is validated again.
ResumeAnyDraft(w) ==
  IF draft[Doc(w)] = NoDraft THEN "start_ai" ELSE "start_validation"

\* A draft is never extracted twice: with one in the table the call returns,
\* or resumes at validation if the loaded document was left there.
AfterDraftQuery(w) ==
  IF draft[Doc(w)] = NoDraft THEN "start_ai"
  ELSE IF sess[w].loaded = "VALIDATING_RESULT" THEN "start_validation"
  ELSE "respond"

QueryDraft(w) ==
  /\ At(w, "route")
  /\ ContinuesToAi(w)
  /\ Goto(w, AfterDraftQuery(w))
  /\ UNCHANGED <<rowVars, jobs, pdf, artifact, faults>>

StartAiExtraction(w) ==
  /\ At(w, "start_ai")
  /\ BeginStage(w, "AI_EXTRACTION", "AI_PROCESSING", "ai_started")

\* A missing key or file is recorded as a failure; a file another worker is
\* rewriting reads as empty, as broken UTF-8, or as a shorter text.
TextReadOutcomes(d) ==
  IF ~textKey[d] \/ artifact[d] = "none" THEN {"mark_failed"}
  ELSE IF artifact[d] = "partial" THEN {"call_ai", "mark_failed"}
  ELSE {"call_ai"}

ReadText(w) ==
  /\ At(w, "read_text")
  /\ \E p \in TextReadOutcomes(Doc(w)) : Goto(w, p)
  /\ UNCHANGED <<rowVars, jobs, pdf, artifact, faults>>

\* The provider answers with fields that fit the schema ...
AiAnswers(w) ==
  /\ At(w, "call_ai")
  /\ \E c \in Contents :
       sess' = [sess EXCEPT ![w].pc = "persist", ![w].held = c]
  /\ UNCHANGED <<rowVars, jobs, pdf, artifact, faults>>

\* ... or times out, refuses the key, answers nothing usable, or answers
\* fields that do not fit it.
AiFails(w) ==
  /\ At(w, "call_ai")
  /\ Goto(w, "mark_failed")
  /\ UNCHANGED <<rowVars, jobs, pdf, artifact, faults>>

\* Mutation of InvoiceIsUnique: the column has no UNIQUE constraint.
AnyInvoice(d) == TRUE

\* Invoice, line items, document status and job in one commit.  A document
\* has at most one invoice: invoices.document_id is UNIQUE.
InvoiceIsUnique(d) == draft[d] = NoDraft

\* Mutation of PersistDraft: the invoice is not added to the session.
PersistStatusOnly(w) ==
  /\ At(w, "persist")
  /\ WriteStatus(w, "VALIDATING_RESULT")
  /\ EndJob(w, "SUCCESS")
  /\ sess' = [sess EXCEPT ![w].pc = "draft_committed", ![w].held = NoDraft]
  /\ UNCHANGED <<textKey, draft, approvedBy, rejectedBy, pdf, artifact, faults>>

\* Mutation of PersistDraft: the draft is offered for review at once.
PersistForReview(w) ==
  /\ At(w, "persist")
  /\ InvoiceIsUnique(Doc(w))
  /\ draft' = [draft EXCEPT ![Doc(w)] = sess[w].held]
  /\ WriteStatus(w, "REVIEW_REQUIRED")
  /\ EndJob(w, "SUCCESS")
  /\ sess' = [sess EXCEPT ![w].pc = "draft_committed", ![w].held = NoDraft]
  /\ UNCHANGED <<textKey, approvedBy, rejectedBy, pdf, artifact, faults>>

PersistDraft(w) ==
  /\ At(w, "persist")
  /\ InvoiceIsUnique(Doc(w))
  /\ draft' = [draft EXCEPT ![Doc(w)] = sess[w].held]
  /\ WriteStatus(w, "VALIDATING_RESULT")
  /\ EndJob(w, "SUCCESS")
  /\ sess' = [sess EXCEPT ![w].pc = "draft_committed", ![w].held = NoDraft]
  /\ UNCHANGED <<textKey, approvedBy, rejectedBy, pdf, artifact, faults>>

\* The database refuses the rows: the document has an invoice by now, or a
\* value does not fit its column (Numeric(14, 2), String(255)).
DraftRefused(w) ==
  /\ At(w, "persist")
  /\ Goto(w, "rolled_back")
  /\ UNCHANGED <<rowVars, jobs, pdf, artifact, faults>>

----------------------------------------------------------------------------
(* run_result_validation                                                   *)

\* The job alone is committed; the status does not change.
StartValidation(w) ==
  /\ At(w, "start_validation")
  /\ InsertJob(w, "RESULT_VALIDATION")
  /\ sess' = [sess EXCEPT ![w].pc = "validation_started", ![w].job = Len(jobs) + 1]
  /\ UNCHANGED <<rowVars, pdf, artifact, faults>>

\* Querying the invoice reads document.id, which reloads the expired row.
LoadDraft(w) ==
  /\ At(w, "validation_started")
  /\ sess' = [sess EXCEPT
       ![w].pc = IF draft[Doc(w)] = NoDraft THEN "mark_failed" ELSE "validate",
       ![w].loaded = status[Doc(w)]]
  /\ UNCHANGED <<rowVars, jobs, pdf, artifact, faults>>

\* validate_invoice runs; its findings are not stored and change nothing.
Validate(w) ==
  /\ At(w, "validate")
  /\ Goto(w, "commit_review")
  /\ UNCHANGED <<rowVars, jobs, pdf, artifact, faults>>

CommitReviewRequired(w) ==
  /\ At(w, "commit_review")
  /\ WriteStatus(w, "REVIEW_REQUIRED")
  /\ EndJob(w, "SUCCESS")
  /\ Goto(w, "review_committed")
  /\ UNCHANGED <<textKey, draft, approvedBy, rejectedBy, pdf, artifact, faults>>

\* As in ExtractionFailure.  Loading the line items inside the validation's
\* handler may abort the transaction: mark_failed's commit then fails too.
AIFailure(p) ==
  CASE p \in {"route", "start_ai", "ai_started", "start_validation", "validation_started"}
                                                                     -> {"idle"}
    [] p = "read_text"                                               -> {"mark_failed"}
    [] p = "validate"                                                -> {"mark_failed", "idle"}
    [] p \in {"persist", "draft_committed", "commit_review", "review_committed"}
                                                                     -> {"rolled_back"}
    [] OTHER                                                         -> {}

AIStatementFails(w) ==
  /\ sess[w].pc \in AIPC \cup ValidationPC \cup {"route"}
  /\ Fault
  /\ \E p \in AIFailure(sess[w].pc) : Goto(w, p)
  /\ UNCHANGED <<rowVars, jobs, pdf, artifact>>
=============================================================================
