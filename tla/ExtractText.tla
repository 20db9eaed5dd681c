---------------------------- MODULE ExtractText ----------------------------
(***************************************************************************)
(* POST /documents/{id}/extract-text up to the decision to call the AI:    *)
(* native text extraction, the OCR fallback, and the extracted-text file,  *)
(* which has one fixed key per document and is rewritten in place.         *)
(***************************************************************************)
EXTENDS DocumentStore

\* Mutation of BeginStage: the stage's status is not set.
BeginStageJobOnly(w, stage, s, next) ==
  /\ InsertJob(w, stage)
  /\ sess' = [sess EXCEPT ![w].pc = next, ![w].job = Len(jobs) + 1]
  /\ UNCHANGED <<rowVars, pdf, artifact, faults>>

\* A stage begins: its RUNNING job and the document's status in one commit,
\* which nothing guards; "job" is the id the refresh of the new row reads.
BeginStage(w, stage, s, next) ==
  /\ InsertJob(w, stage)
  /\ WriteStatus(w, s)
  /\ sess' = [sess EXCEPT ![w].pc = next, ![w].job = Len(jobs) + 1]
  /\ UNCHANGED <<textKey, draft, approvedBy, rejectedBy, pdf, artifact, faults>>

Extractions == {i \in DOMAIN jobs : jobs[i].stage = "TEXT_EXTRACTION"}

\* A user asks for extraction.  Whatever the document's status is, it is
\* accepted: the handler only looks the row up.
AcceptExtraction(w, u, d) ==
  /\ sess[w] = NoSession
  /\ MayAccess(u, d)
  /\ Cardinality(Extractions) < MaxExtractions
  /\ sess' = [sess EXCEPT ![w] =
       [ pc |-> "start", doc |-> d, user |-> u, loaded |-> status[d],
         job |-> 0, held |-> NoDraft ]]
  /\ UNCHANGED <<rowVars, jobs, pdf, artifact, faults>>

StartTextExtraction(w) ==
  /\ At(w, "start")
  /\ BeginStage(w, "TEXT_EXTRACTION", "EXTRACTING_TEXT", "started")

\* db.refresh(document) after a commit: the session reads the row again, and
\* with it whatever another worker committed in between.
AfterRefresh ==
  [ started                |-> "read_pdf",
    text_committed         |-> "route",
    ocr_required_committed |-> IF OcrEnabled THEN "start_ocr" ELSE "route",
    ocr_started            |-> "run_ocr",
    ai_started             |-> "read_text",
    draft_committed        |-> "start_validation",
    review_committed       |-> "respond" ]

Refresh(w) ==
  /\ sess[w].pc \in DOMAIN AfterRefresh
  /\ sess' = [sess EXCEPT ![w].pc = AfterRefresh[@], ![w].loaded = status[Doc(w)]]
  /\ UNCHANGED <<rowVars, jobs, pdf, artifact, faults>>

\* Mutation of NativeOutcome: PdfOpenError is not caught.
NativeOutcomeUncaught(kind) ==
  CASE kind = "digital"              -> "save_text"
    [] kind \in {"scanned", "blank"} -> "commit_ocr_required"
    [] OTHER                         -> "idle"

\* What opening the PDF and counting its characters leads to.
NativeOutcome(kind) ==
  CASE kind = "digital"              -> "save_text"
    [] kind \in {"scanned", "blank"} -> "commit_ocr_required"
    [] kind = "corrupt"              -> "mark_failed"
    [] kind = "encrypted"            -> "idle"  \* raises past every handler

ReadPdf(w) ==
  /\ At(w, "read_pdf")
  /\ Goto(w, NativeOutcome(pdf[Doc(w)]))
  /\ UNCHANGED <<rowVars, jobs, pdf, artifact, faults>>

\* Rendering or the engine may fail on any scan; a blank one has no text.
OcrOutcomes(kind) ==
  IF kind = "scanned" THEN {"save_text", "mark_failed"} ELSE {"mark_failed"}

StartOcr(w) ==
  /\ At(w, "start_ocr")
  /\ BeginStage(w, "OCR", "OCR_PROCESSING", "ocr_started")

RunOcr(w) ==
  /\ At(w, "run_ocr")
  /\ \E p \in OcrOutcomes(pdf[Doc(w)]) : Goto(w, p)
  /\ UNCHANGED <<rowVars, jobs, pdf, artifact, faults>>

\* storage.save opens the file for writing, which empties it ...
OpenTextFile(w) ==
  /\ At(w, "save_text")
  /\ artifact' = [artifact EXCEPT ![Doc(w)] = "partial"]
  /\ Goto(w, "writing_text")
  /\ UNCHANGED <<rowVars, jobs, pdf, faults>>

\* ... and then writes the text.
WriteTextFile(w) ==
  /\ At(w, "writing_text")
  /\ artifact' = [artifact EXCEPT ![Doc(w)] = "complete"]
  /\ Goto(w, "commit_text")
  /\ UNCHANGED <<rowVars, jobs, pdf, faults>>

CommitText(w) ==
  /\ At(w, "commit_text")
  /\ textKey' = [textKey EXCEPT ![Doc(w)] = TRUE]
  /\ WriteStatus(w, "TEXT_EXTRACTED")
  /\ EndJob(w, "SUCCESS")
  /\ Goto(w, "text_committed")
  /\ UNCHANGED <<draft, approvedBy, rejectedBy, pdf, artifact, faults>>

\* Mutation of CommitOcrRequired: the job of the first stage is left open.
CommitOcrRequiredOnly(w) ==
  /\ At(w, "commit_ocr_required")
  /\ WriteStatus(w, "OCR_REQUIRED")
  /\ Goto(w, "ocr_required_committed")
  /\ UNCHANGED <<textKey, draft, approvedBy, rejectedBy, jobs, pdf, artifact, faults>>

CommitOcrRequired(w) ==
  /\ At(w, "commit_ocr_required")
  /\ WriteStatus(w, "OCR_REQUIRED")
  /\ EndJob(w, "SUCCESS")
  /\ Goto(w, "ocr_required_committed")
  /\ UNCHANGED <<textKey, draft, approvedBy, rejectedBy, pdf, artifact, faults>>

\* The artifact just written is removed before the failure is recorded.
DeleteText(w) ==
  /\ At(w, "delete_text")
  /\ artifact' = [artifact EXCEPT ![Doc(w)] = "none"]
  /\ Goto(w, "mark_failed")
  /\ UNCHANGED <<rowVars, jobs, pdf, faults>>

\* A statement of these stages raises.  Opening a stage, its refresh and the
\* cleanup's unlink are guarded by nothing, nor is importing the OCR engine;
\* storage errors are recorded; a failed result commit or refresh is rolled
\* back, and after a text file was written the file is removed too.
ExtractionFailure(p) ==
  CASE p \in {"start", "started", "start_ocr", "ocr_started", "delete_text"} -> {"idle"}
    [] p \in {"read_pdf", "save_text", "writing_text"}             -> {"mark_failed"}
    [] p = "run_ocr"                                               -> {"mark_failed", "idle"}
    [] p \in {"commit_ocr_required", "ocr_required_committed"}     -> {"rolled_back"}
    [] p \in {"commit_text", "text_committed"}                     -> {"rolled_back_text"}
    [] OTHER                                                       -> {}

ExtractionStatementFails(w) ==
  /\ sess[w].pc \in ExtractionPC
  /\ Fault
  /\ \E p \in ExtractionFailure(sess[w].pc) : Goto(w, p)
  /\ UNCHANGED <<rowVars, jobs, pdf, artifact>>
============================================================================
