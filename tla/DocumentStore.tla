--------------------------- MODULE DocumentStore ---------------------------
(***************************************************************************)
(* What the request handlers of the document API share: the rows of the    *)
(* documents, invoices and processing_jobs tables, the two files storage   *)
(* keeps for a document, and one database session per request in progress. *)
(*                                                                         *)
(* A worker is a process that serves the API.  Its handlers are coroutines *)
(* that never await while a service runs, so a worker is in at most one    *)
(* service call; several workers interleave at every statement they send   *)
(* to the database or to storage.  An action is one such statement, or one *)
(* commit, with the local computation that follows it.                     *)
(***************************************************************************)
EXTENDS Naturals, Sequences, FiniteSets

CONSTANTS
  Documents,      \* documents already uploaded
  Users,          \* authenticated users
  OrgOf,          \* the organization of each document and each user
  Workers,        \* API processes; the shipped image runs one
  Contents,       \* what an invoice row can say (header fields and line items)
  Clean,          \* the contents validate_invoice finds no error in
  OcrEnabled,     \* settings.ocr_enabled: an OCR engine is injected
  AiEnabled,      \* settings.ai_api_key is set: an AI provider is injected
  MaxExtractions, \* bound: extract-text runs recorded in processing_jobs
  MaxFaults,      \* bound: failed statements and crashes
  NoDraft,        \* there is no invoice row
  NoUser          \* a NULL approved_by_user_id or rejected_by_user_id

ASSUME StoreAssumption ==
  /\ Clean \subseteq Contents
  /\ NoDraft \notin Contents
  /\ NoUser \notin Users
  /\ OcrEnabled \in BOOLEAN /\ AiEnabled \in BOOLEAN
  /\ MaxExtractions \in Nat /\ MaxFaults \in Nat

DocumentStatus ==
  { "UPLOADED", "EXTRACTING_TEXT", "TEXT_EXTRACTED", "OCR_REQUIRED",
    "OCR_PROCESSING", "AI_PROCESSING", "VALIDATING_RESULT",
    "REVIEW_REQUIRED", "APPROVED", "REJECTED", "FAILED" }

ProcessingStage == {"TEXT_EXTRACTION", "OCR", "AI_EXTRACTION", "RESULT_VALIDATION"}

\* Kinds of uploaded PDF: with a text layer, page images with text, page
\* images without, a file that does not open, and one that opens but whose
\* pages cannot be iterated (a password is needed).
PdfKind == {"digital", "scanned", "blank", "corrupt", "encrypted"}

VARIABLES
  status,     \* documents.status
  textKey,    \* documents.extracted_text_storage_key is set
  draft,      \* the content of the document's invoice row, or NoDraft
  approvedBy, \* invoices.approved_by_user_id, written with approved_at
  rejectedBy, \* invoices.rejected_by_user_id, written with rejected_at
  jobs,       \* the processing_jobs rows, in order of creation
  pdf,        \* the stored PDF of each document; never rewritten
  artifact,   \* the extracted-text file of each document
  sess,       \* the request each worker is serving, with its session
  faults      \* failed statements and crashes so far

rowVars == <<status, textKey, draft, approvedBy, rejectedBy>>
vars == <<status, textKey, draft, approvedBy, rejectedBy,
          jobs, pdf, artifact, sess, faults>>

----------------------------------------------------------------------------
(* Sessions. "pc" names the statement the handler executes next; "loaded"  *)
(* is the status the session last read, "held" the invoice content in its  *)
(* memory, "job" the processing_jobs row of the stage in progress.         *)

NoSession == [pc |-> "idle"]

ExtractionPC ==
  { "start", "started", "read_pdf", "save_text", "writing_text", "commit_text",
    "text_committed", "delete_text", "commit_ocr_required",
    "ocr_required_committed", "start_ocr", "ocr_started", "run_ocr", "route" }
AIPC ==
  { "start_ai", "ai_started", "read_text", "call_ai", "persist", "draft_committed" }
ValidationPC ==
  { "start_validation", "validation_started", "validate", "commit_review",
    "review_committed" }
FailurePC == {"rolled_back", "rolled_back_text", "mark_failed"}
ReviewPC ==
  { "load_edit", "load_approve", "load_reject",
    "commit_edit", "commit_approve", "commit_reject" }

RequestPC == ExtractionPC \cup AIPC \cup ValidationPC \cup FailurePC
               \cup ReviewPC \cup {"respond"}

Session ==
  [ pc : RequestPC, doc : Documents, user : Users, loaded : DocumentStatus,
    job : Nat, held : Contents \cup {NoDraft} ]

Job ==
  [ doc : Documents, stage : ProcessingStage,
    status : {"RUNNING", "SUCCESS", "FAILED"} ]

TypeOK ==
  /\ status \in [Documents -> DocumentStatus]
  /\ textKey \in [Documents -> BOOLEAN]
  /\ draft \in [Documents -> Contents \cup {NoDraft}]
  /\ approvedBy \in [Documents -> Users \cup {NoUser}]
  /\ rejectedBy \in [Documents -> Users \cup {NoUser}]
  /\ jobs \in Seq(Job)
  /\ pdf \in [Documents -> PdfKind]
  /\ artifact \in [Documents -> {"none", "partial", "complete"}]
  /\ sess \in [Workers -> Session \cup {NoSession}]
  /\ faults \in Nat

At(w, p) == sess[w].pc = p
Doc(w) == sess[w].doc

\* Mutation of MayAccess: the row is selected by id alone.
AnyUserMayAccess(u, d) == TRUE

\* get_org_scoped_document: the row is selected by id and organization.
MayAccess(u, d) == OrgOf[u] = OrgOf[d]

\* The handler's next statement is p; "idle" ends the request and closes its
\* session, which rolls an open transaction back.
Goto(w, p) ==
  sess' = [sess EXCEPT ![w] = IF p = "idle" THEN NoSession ELSE [@ EXCEPT !.pc = p]]

\* An infrastructure fault: a statement, a commit or a file operation raises.
Fault ==
  /\ faults < MaxFaults
  /\ faults' = faults + 1

\* Mutation of InsertJob: the row keeps the column's default status.
InsertPendingJob(w, stage) ==
  jobs' = Append(jobs, [doc |-> Doc(w), stage |-> stage, status |-> "PENDING"])

\* INSERT a RUNNING row for a stage; the session keeps its id.
InsertJob(w, stage) ==
  jobs' = Append(jobs, [doc |-> Doc(w), stage |-> stage, status |-> "RUNNING"])

EndJob(w, s) == jobs' = [jobs EXCEPT ![sess[w].job].status = s]

\* The unit of work sends an UPDATE only for an attribute that differs from
\* the value the session loaded.
WriteStatus(w, s) ==
  status' = [status EXCEPT ![Doc(w)] = IF sess[w].loaded = s THEN @ ELSE s]

----------------------------------------------------------------------------
(* Recording a failure, shared by every stage.                             *)

\* A handler rolled back and logs document.id: the expired row is reloaded.
ReloadAfterRollback(w) ==
  /\ sess[w].pc \in {"rolled_back", "rolled_back_text"}
  /\ sess' = [sess EXCEPT
       ![w].pc = IF At(w, "rolled_back_text") THEN "delete_text" ELSE "mark_failed",
       ![w].loaded = status[Doc(w)]]
  /\ UNCHANGED <<rowVars, jobs, pdf, artifact, faults>>

\* Mutation of MarkFailed: the job row is forgotten.
MarkOnlyDocumentFailed(w) ==
  /\ At(w, "mark_failed")
  /\ WriteStatus(w, "FAILED")
  /\ Goto(w, "idle")
  /\ UNCHANGED <<textKey, draft, approvedBy, rejectedBy, jobs, pdf, artifact, faults>>

\* mark_failed: document and job become FAILED in one commit, then the
\* handler raises to the client.
MarkFailed(w) ==
  /\ At(w, "mark_failed")
  /\ WriteStatus(w, "FAILED")
  /\ EndJob(w, "FAILED")
  /\ Goto(w, "idle")
  /\ UNCHANGED <<textKey, draft, approvedBy, rejectedBy, pdf, artifact, faults>>

\* The reload or the commit of mark_failed raises: nothing is recorded.
FailureNotRecorded(w) ==
  /\ sess[w].pc \in FailurePC
  /\ Fault
  /\ Goto(w, "idle")
  /\ UNCHANGED <<rowVars, jobs, pdf, artifact>>

\* The process dies; the database rolls its open transaction back.  A new
\* process takes its place and finds only what was committed.
Crash(w) ==
  /\ sess[w] # NoSession
  /\ Fault
  /\ Goto(w, "idle")
  /\ UNCHANGED <<rowVars, jobs, pdf, artifact>>

\* The response is built from the loaded row; the session closes.
Respond(w) ==
  /\ At(w, "respond")
  /\ Goto(w, "idle")
  /\ UNCHANGED <<rowVars, jobs, pdf, artifact, faults>>
============================================================================
