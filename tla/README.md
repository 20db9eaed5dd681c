# A verification project for the document processing service

The service turns uploaded PDF invoices into reviewed data. A client uploads a PDF, asks for its
text to be extracted (with OCR as a fallback), an AI provider turns the text into a draft invoice,
deterministic rules validate the draft, a person edits, approves or rejects it, and approved
invoices are exported. This directory holds TLA+ modules of that system, TLC configurations that
check them on small instances, and proofs that TLAPS checks for instances of every size.

## 1. The system

| component | code (`src/app/`) | state | operations |
|---|---|---|---|
| upload | `services/document_service.py`, `processing/validation.py`, `api/v1/documents.py` | PDF file, `documents` row | upload |
| text extraction and OCR | `services/text_extraction_service.py`, `processing/pdf_extraction.py`, `ocr/` | document status, extracted-text file and its key, `processing_jobs` rows | extract-text |
| AI extraction | `services/invoice_extraction_service.py`, `processing/ai/` | `invoices` row with line items, status, jobs | called by extract-text |
| result validation | `services/invoice_validation_service.py` | status, jobs | called by AI extraction |
| validation rules | `processing/invoice_validation.py` | none | `validate_invoice` |
| review | `services/review_service.py` | invoice, decision columns, status | get review, edit, approve, reject |
| export | `services/export_service.py` | none (reads) | single and organization export, CSV and XLSX |
| accounts | `services/auth_service.py`, `core/security.py`, `api/deps.py` | users, organizations, tokens | register, login, current user |
| request serving | `api/deps.py`, `api/v1/documents.py`, `db/session.py` | event loop, threads, connection pool | every request's way through them |
| storage | `storage/local.py` | a directory of files | save, read, exists, delete |
| database session | `db/session.py` | one session per request | commit, rollback, refresh |

**How they interact.** Every request handler is an `async def` that calls a synchronous service
and never awaits while it runs, so an API process (a *worker* below) is in at most one service
call at a time; the image starts one process (`Dockerfile:21`). `extract-text` is one long call:
native extraction, then OCR, then AI, then validation, each stage opening its own job row and
committing its own result, so that a call is a chain of up to eight commits with file operations,
a rendering engine and a network call between them. The stages share the database rows and one
extracted-text file per document, which has a fixed key and is rewritten in place. Services find
their document through `get_org_scoped_document` and remember it in the session; what a session
loaded is read again only by a refresh, or after a commit or rollback expired it. No lock, version
column or `SELECT ... FOR UPDATE` is used anywhere.

**What is hard about it.**

* *Repeated calls.* `extract-text` accepts a document in any status (`text_extraction_service.py:76-86`).
* *Partial failure.* Any statement may raise between two commits; each has its own handler, or none.
* *Crashes.* A process may die anywhere in the chain; jobs stay RUNNING and nothing recovers them.
* *Interleaving.* With two processes, every check (the review status, the validation gate, the
  query for an existing draft) is a check-then-act.
* *Cleanup.* The handler of a failed commit deletes the file just written, which an earlier
  committed result may point to.
* *Liveness.* Every handler has to end by committing an outcome, and every request has to end although
  handlers block the one event loop, also while they wait for a connection of the pool.
* *Numbers.* Amounts are exact decimals when they are read and edited, and rounded when they are stored;
  what is validated, shown and approved are the stored ones.

What makes each component correct: a document that is shown for review has a validated draft; a
decision is made once, about clean data, by a member of the organization, and its data never
changes again; the paid provider is not called for a document that has a draft (a call whose result could not
be persisted is repeated and paid again); jobs and document status tell
the same story; a status that claims extracted text has it in storage; no document stays in the
middle of a stage. For upload: a row has its file, and only crashes orphan files. For review: what
is stored is what was last said about each field, findings are about what is stored, and what is approved
adds up. For accounts: one user per email and organization, and no request is let in that began after its
user was deactivated, whatever token it carries. For export: only approved invoices, complete and in order. For serving: one handler at a time, no lost
connection. `PROJECT.json` lists every
component with what is modelled of it, and every hazard at its line with the properties that cover it.

## 2. The modules

| module | models |
|---|---|
| `DocumentStore` | the rows, the jobs, the files, one session per worker; organization-scoped lookup, job records, the unit of work's dirty check, `mark_failed`, crashes |
| `ExtractText` | `extract_document_text` up to the decision about the AI, and `_run_ocr` |
| `AIExtraction` | `extract_invoice_from_document` and `run_result_validation` |
| `Review` | `update_invoice`, `approve_document`, `reject_document` |
| `DocumentLifecycle` | the composition: Init, Next, fairness, the refinement mapping, and the properties |
| `DocumentWorkflow` | the abstract specification: what a client may rely on about a document |
| `InvoiceValidation` | numeric columns and `validate_invoice`, as operators |
| `InvoiceReview` | one invoice's numbers: `get_review`, `update_invoice`, approve and reject on them |
| `InvoiceExport` | both exports, reading what a `DocumentWorkflow` writes |
| `ServedExport` | the exports beside the lifecycle, over the same rows: what `InvoiceExport` reads is what the services write |
| `Accounts` | `register_user`, `authenticate_user`, `get_current_user` |
| `RequestServing` | the event loop, threads and connection pool under all of these |
| `MCDocumentLifecycle`, `MCServedExport`, `MCInvoiceReview`, `MCInvoiceExport`, `MCAccounts`, `MCRequestServing` | small instances for TLC |
| `DocumentLifecycleProofs` | theorems about the lifecycle for any number of workers |
| `SingleWorkerProofs` | theorems about the lifecycle for one worker |
| `WorkflowProofs` | with one worker the lifecycle implements `DocumentWorkflow`, and the rows of exports beside it were reviewed |
| `InvoiceReviewProofs`, `ExportProofs`, `AccountsProofs`, `RequestServingProofs` | theorems about these modules |
| `Upload` | `POST /documents`: `_read_capped`, `run_upload_validation`, `upload_document` |
| `MCUpload` | small instances of `Upload` |
| `UploadProofs` | theorems for any number of uploads |

How they fit together: `RequestServing` shows that one process is one *worker*; the lifecycle composes the
services for any number of workers and implements `DocumentWorkflow`; `InvoiceExport` extends
`DocumentWorkflow`, so that what is checked of exports holds against everything the lifecycle can do to a
document. `ServedExport` puts that together: it extends the lifecycle, takes the steps of exports from an
instance of `InvoiceExport` under the lifecycle's own mapping of columns to phases and verdicts. What only the
two together can say, that an exported row has a validation run on record and an approver in the organization
that receives it, is `ExportedWasReviewed`. That the services write nothing which exports are not prepared for
is `ImplementsWorkflow` again, since the exports' steps are `InvoiceExport`'s own; it is a lemma of
`WorkflowProofs` (`ServedIsExport`) and not a property of a run.
`InvoiceReview` looks into what the lifecycle calls a content: `Clean` is the set of contents
without `Errors`. With one worker it implements `DocumentWorkflow` for its document
(`NumbersImplementWorkflow`), so that what the lifecycle does with contents as a whole holds of numbers that
are rounded and edited field by field. `Accounts` and `Upload` share no state with the others.

**State of the lifecycle.** `status`, `textKey` are columns of `documents`; `draft`, `approvedBy`, `rejectedBy` are the
invoice row (`NoDraft` when there is none) and its decision columns; `jobs` is the
`processing_jobs` table in order of creation; `artifact` is the extracted-text file (`none`,
`partial` between opening for write and writing, `complete`); `pdf` is what kind of PDF was
uploaded. `sess[w]` is the request a worker serves: the next statement (`pc`), the document and user,
the status the session last loaded (`loaded`), the id of the running stage's job and the invoice
content held in memory. `faults` only bounds and labels faults.

`Upload` is a system of its own, since uploads share neither rows nor keys with anything: `pc` is the
next statement of each request or how it ended, `file` the PDF under the request's key, `row` whether
its document was committed. What a client sends (`sent`) is chosen freely; a body is refused once it is
larger than the cap, anything that fails a check of the pipeline is refused, and a declared content type
that does not fit its column, which nobody checks, makes PostgreSQL refuse the row.

`InvoiceReview` has one document: its status, the `invoice` row with its line items, the `call` each worker
runs with its next statement (`pc`), the patch and what its session loaded, the findings a client was last
`told`, and the `log` of what was committed (a history variable; empty as long as there is no invoice). A
written amount is a whole number of units of `1/Cent` cent, so that amounts finer than the column exist.
Persisting the draft, validation, GET review, an edit and the two decisions are sequences of statements here as
well: the status is read, then the invoice, then (lazily) its line items, and an edit commits, refreshes and
reads its line items again before it answers. A validation may fail before its commit or in the refresh after
it, which leaves the document FAILED with its invoice (`ValidationFails`), and GET review answers about it;
any call may end without an answer at any statement (`CallEnds`). Sending the document through extraction again
is in the lifecycle only.

`Accounts` has the rows of both tables, the registration or login each worker runs, the authenticated requests
in progress (`req`), tokens and the clock. A login reads the user and then issues its token, a request decodes
its token, then reads the user, then is let in; deactivation, time and other calls fall anywhere between.
History in it are `told` (the clients that were answered 201), what was typed for a token, and of a request
when it began and whether its user had been deactivated by then (`barred`).
`InvoiceExport` adds the exports in progress to the workflow: the invoices still to be flattened and the
rows so far. `ServedExport` adds `approved_at` and these exports to the lifecycle's state; a step is a service's
(`Serve`, which also numbers the approval it may commit) or an export's, which writes no row. `RequestServing` has where each request is, whether its session has a connection, and who is
on the loop. A request is taken up when a thread is free for its dependencies; register and login have some as well
(the settings, a session), which wait for nothing.

**Steps.** An action is one statement sent to the database or to storage (or one commit) with the
local computation that follows. A commit is atomic, as PostgreSQL commits are; everything between two
commits can interleave with another worker and can be cut short. Attribute assignments take effect
at the commit, and only if they differ from what the session loaded (`WriteStatus`): SQLAlchemy sends
no UPDATE for an unchanged attribute, and this matters when another worker changed the row meanwhile.

**Inputs.** An extraction call names any document of the user's organization, in any status. In the lifecycle edits
leave an invoice with any content, the AI provider answers any content. Contents are abstract: all the
service asks of one is whether `validate_invoice` finds errors in it, so `Clean` is a subset of
`Contents`. The five `PdfKind`s are the outcomes of opening and reading a PDF that lead to different
control flow. The OCR engine, the provider and the PDF library are choices over their outcomes.

**Faults.** `Fault` allows a statement, commit or file operation to raise; where control goes is
`ExtractionFailure` and `AIFailure`, which translate the `try` blocks: a statement outside every
`try` ends the request, a storage error is recorded by `mark_failed`, a failed result commit is rolled
back, and after a text file was written the file is deleted first. A refresh inside the `try` can fail
after its commit succeeded: the model goes to the same handler with the commit kept.
`FailureNotRecorded` is `mark_failed`'s own failure. `Crash` is the end of a process at any point; the
database rolls its transaction back, files stay as they are. What fails without a fault is not
bounded: provider answers that are no use, OCR failures, values the database refuses, constraint
violations.

**Abstractions.** Timestamps, error categories and messages, `rejection_reason`, provider names and
response bodies are left out. A commit that raises is taken not to have happened. In the lifecycle the read of an
invoice and of its line items is one step; in `InvoiceReview` and `InvoiceExport` they are two. In the lifecycle documents are already uploaded, users are authenticated, and reads that change nothing are no
actions; `get_review` and the exports are actions of `InvoiceReview` and `InvoiceExport`, where what they
answer is state. In `InvoiceReview` one text field stands for the eight texts and dates, and documents that
are sent through extraction again are left to the lifecycle. `RequestServing` has no clock: a timeout may
pass whenever somebody waits. `Deactivate` in `Accounts` stands for an operator, since nothing in the
program writes `is_active` again.

## 3. What the runs check

| run | instance | what it shows |
|---|---|---|
| `single` | 1 worker, 1 exporter, 1 document, 2 users of two organizations, 3 extractions, 2 faults, weak fairness of the worker | the properties of the shipped deployment, liveness, the refinement, and exports beside the services |
| `replicas` | 2 workers, 2 extractions, 1 fault, symmetric workers | the properties that must not depend on the number of processes |
| `terminal` | 1 worker, 2 extractions, no faults | violation of `DecisionIsTerminal` |
| `resume` | 1 worker, 2 extractions, 1 fault | violation of `DraftResumesAtValidation` |
| `upload` | 2 uploads, bodies of up to one unit more than the cap of 2, 2 faults | uploads keep rows and files together |
| `upload_refresh` | the same, 1 fault | violation of `RowKeepsItsFile` |
| `review` | 1 worker, 56 drafts, 10 patches, 2 edits, amounts to half a cent, quantities to a quarter of a piece, columns up to 6 and 16 | an invoice's numbers through storing, editing and approval |
| `review_rounding` | the same | violation of `LineSurvivesRounding` |
| `serving` | 3 requests of any kinds, 2 connections, 2 threads, 2 commits each, weak fairness | one handler at a time, no lost connection, every request ends |
| `accounts` | 2 workers, 1 authenticated request, 3 emails, 2 registrations, passwords of 3, 8 and 40 characters, tokens of one minute | one account per email, tokens and deactivated users |
| `accounts_password` | the same with two passwords that differ after their 72nd byte | violation of `LoginNeedsThePassword` |
| `export` | 3 documents of 2 organizations, 3 contents, 1 exporter, any writes between its statements | what is exported is approved, whole and complete |

Any number of workers (`replicas`):

* `ReviewableHasDraft` - a document in validation, under review or decided has its invoice row.
* `DecisionIsRecorded` - APPROVED and REJECTED come with who decided.
* `DecidedWithinOrganization` - a decision comes from the document's organization.
* `OneAiSuccess` - the job history shows at most one successful AI extraction of a document; this is the
  unique constraint at work when two workers both paid for one.
* `FailureIsExplained` - a FAILED document has a FAILED job.
* `RunningJobIsServed` - a RUNNING job has a handler working on it, unless there was a fault or the PDF
  needs a password.
* `RestsSettled` - without faults, a document nobody works on is not in the middle of a stage, whichever of
  several workers wrote last and whichever writes the dirty check left out.

One worker (`single`):

* `ReviewFollowsValidation` - a document that is under review, or that was ever decided about, has a validation
  run that succeeded, and no later failure takes that record back.
* `OneDecision` - never both approved and rejected, however often the document is extracted again.
* `ApprovedIsClean` - the approved invoice has no validation errors, now and later.
* `DecidedDataIsFrozen` - the invoice somebody decided about never changes again.
* `NoSecondPaidCall` - the provider is not called for a document that has a draft.
* `ExtractedTextIsStored` - after a call that met at most one fault, TEXT_EXTRACTED has its text in storage.
* `SettlesWithoutFaults` - without faults, a document leaves the middle of a stage (liveness).
* `ImplementsWorkflow` - every behaviour of the lifecycle is one of `DocumentWorkflow`, under the mapping of
  statuses to phases (`PhaseOf`) and of decision columns to a verdict (`VerdictOn`): an invoice is created
  once, offered before it is decided about, approved only without errors, decided about once and frozen;
  processing may start again at any time, but then nothing is offered that was decided.
* `ExportedWasReviewed` - each row an export has made is about an invoice that has a successful validation on
  record, was approved by a user of the organization that gets the file, and says what was approved, without
  errors, even if the document is being extracted again by now.

`ApprovedIsClean`, `OneDecision`, `NoSecondPaidCall` and `DecidedDataIsFrozen` are stated for one worker
because they need it: with two, the gate, the status check and the draft query are separated from the
commits that rely on them, and TLC finds each of them violated if `Workers <- MCTwoWorkers` is put into
`single.cfg` (two extractions and one fault suffice); so are `ReviewFollowsValidation`, `ExtractedTextIsStored`
and `ExportedWasReviewed`. Whoever runs a second process has to add a lock or a version check first.

Uploads (`upload`):

* `CreatedIsStored` - a client told that its document was created has the row and the whole file.
* `OrphanTakesFaults` - a request that is over leaves a file without a row only after a crash or a torn
  write, or after a failed cleanup on top of what kept the row out.

Numbers (`review`, one worker):

* `TypeOK` - what is stored is in whole cents, of the header and of each line item, quantities have the digits
  of their column, and all are within their limits, whatever is sent: it is rounded or refused.
* `ApprovedAddsUp` - an approved invoice adds up within a cent, in total and line by line, after any edits;
  stated with plain arithmetic and not with the operators of the gate.
* `AnswerIsCurrent` - the findings a client was last given are those of the stored invoice, though they are put
  together from separate reads and any statement may raise.
* `StoredIsLastWord` - each field is what the last commit that named it said: omitted fields stay, null
  clears, lists replace, refused edits leave no trace.
* `TotalSurvivesRounding` - a total that is exactly right as written is not reported once it is rounded.
* `WholePriceSurvivesRounding` - neither is a line item that multiplies exactly, if its unit price is in whole
  cents and its quantity one that its column holds, although its amount is rounded.
* `NumbersImplementWorkflow` - the refinement of `DocumentWorkflow`: the numbers change from clean to erroneous
  and back only under review, and what is approved is clean when the verdict is committed, also if a validation
  failed and left its invoice behind.

`ApprovedAddsUp`, `AnswerIsCurrent`, `StoredIsLastWord` and `NumbersImplementWorkflow` need one worker. With
`Workers <- TwoWorkers` TLC finds an edit that commits between the gate and the approval, an answer about a row
that an edit has replaced since it was read, an edit whose value is not written because it equals what its
session loaded before another edit (SQLAlchemy's dirty check), and two replacements of the line items of
which both remain. `TypeOK` and what is said of rounding do not depend on the number of workers.

Serving (`serving`): `OneHandlerAtATime`, `TimeoutTakesCrowd` (a request fails for want of a connection only
if more requests than connections were in progress), `EveryRequestEnds`. TLC shows that the pool can run out
between two commits of a handler, with the loop waiting for requests that need the loop; only the pool's
timeout ends that.

Accounts (`accounts`): `CreatedIsTheAccount` (a client told "created" has the one account of that email, with
its password), `OrganizationsHaveTheirUser`, `LetInIsEntitled` (no request is let in that began after its user was
deactivated, by a token issued before or by a login that overlapped the deactivation; and its token was earned
with a password of the user's hash, less than a lifetime before the request began). A request whose user is
deactivated after the row was read is served; the code promises nothing else.

Exports (`export`): `ExportedIsApproved` (every row is about an approved, clean invoice of the caller's
organization as it still is), `FileIsWhole` (rows together and in order, of one state of each invoice),
`NothingApprovedIsMissing`. They hold whatever is written between the statements of an export because a
decided invoice is frozen, which is where the refinement is used.

Five runs show where the code differs from what it says:

* `terminal` - `models/invoice.py:70` calls approve and reject terminal outcomes and
  `review_service.py:19` allows only transitions from REVIEW_REQUIRED, but extract-text takes a decided
  document to EXTRACTING_TEXT. The decision columns and the data survive (`OneDecision`,
  `DecidedDataIsFrozen` hold), but the document ends at TEXT_EXTRACTED or FAILED and is no longer
  exported. A document under review is taken out of review the same way.
* `resume` - `invoice_extraction_service.py:71` promises that a draft without a completed validation is
  resumed from validation; the branch tests for VALIDATING_RESULT while its only caller requires
  TEXT_EXTRACTED, so the call returns and the document stays at TEXT_EXTRACTED.
* `review_rounding` - `models/invoice.py:30` uses fixed precision against rounding drift, but unit prices are
  rounded to the cent as well: 100 pieces at 0.125 for 12.50 are stored with a price of 0.13, no longer
  multiply, and the finding blocks approval. With a unit price in whole cents this cannot happen
  (`WholePriceSurvivesRounding`).
* `accounts_password` - `schemas/auth.py:15` caps passwords because bcrypt truncates after 72 bytes, but the
  cap counts characters.
* `upload_refresh` - `document_service.py:77` cleans the file up if persisting the row fails, but the
  refresh after the commit is in the same `try`: if it raises, the file of a committed row is deleted. The
  document stays UPLOADED and its extraction can only fail.

**Bounds.** `MaxExtractions` bounds extract-text calls (each leaves a TEXT_EXTRACTION job, so the bound
counts those): two are needed for a repeated call to meet the result of a first or to overlap with it,
three for a repetition after a failed repetition. `MaxFaults`: one for each handler, two for a fault in
the handler of a fault or in two calls. One document is enough because no service reads two documents;
the theorems do not have these bounds. Two users in two organizations make the lookup matter, two
contents make the gate matter. Edits, approvals and rejections are not bounded.
Two uploads show one ending while another, served by the same process or not, is in progress or crashed;
`MaxSize` of 2 has bodies that are empty, within the cap, at the cap and beyond it. Two faults are a failed
commit with a failed cleanup.
In `review` two edits let one overwrite or follow another; `Cent = 2` has amounts that are rounded (1, 3, 5),
limits of 6 and 16 have amounts and quantities that are refused, and lists have lines that add up, do not,
lack a price, or only add up unrounded. `One = 4` writes quantities in quarters and `QuantityStep = 2` stores
halves, so that quantities are rounded as well, and half a piece at a cent is half a cent: a line item that only
the tolerance accepts. In `serving` one more request than connections is what makes the pool run out, and one
more than threads makes a request wait for a thread; two commits are a commit of work and one of failure. In
`accounts` two registrations or logins are all that can overlap with two workers, and one request is enough, as
requests share nothing they write; a password of three characters can be typed at a login but not chosen; one
minute of clock is before and after a token's expiry. In `export` two documents of one organization have an order,
the third is foreign; contents have two line items, none, and an error. One exporter is enough, as exports
change nothing another could read. In `single` it
exports one document or all, between any two statements of the worker, with one line item in clean contents and
none in others. Deadlock is checked in `export` and `single`, where another export can always begin. It is not
checked elsewhere: when the calls are used up and the workers are idle the bounded system stops.

**Fairness.** `FairSpec` of the lifecycle has weak fairness of `Step(w)` for each worker: a handler that was
started runs, since nothing in it waits for another request. External calls return (the provider call has a
timeout). `ServedFairSpec` is the same beside exports, which need neither begin nor end. No call has to arrive, no fault has to happen, and the model is not fair to any particular outcome.
`FairSpec` of `RequestServing` has weak fairness of each request's steps: the loop takes up what is ready,
threads run, and a wait for the pool times out (SQLAlchemy's default of 30 s, which `db/session.py` leaves
in place). Without the last, `EveryRequestEnds` fails. Requests that arrived are taken up because they are
finitely many; nothing is claimed about a stream of them.

## 4. What is proved

From `StoreAssumption` only (`Clean` is a subset of `Contents`, the two NULL values are not contents or
users, the bounds are naturals), for every set of documents, users and workers:

* `TypeCorrect`: `Spec => []TypeOK`, one lemma per group of actions.
* `ReviewableHasDraftAlways`. The property alone is not inductive: the commit that writes
  VALIDATING_RESULT or REVIEW_REQUIRED has to find the draft still there. `DraftInv` adds that a request
  past the persisting or loading of the draft (`DraftPC`) works on a document that has one, and that what
  is about to be persisted is a content. No action removes a draft, so other workers keep it.
* `DecisionIsRecordedAlways`: every step is either an `UndecidingStep`, which leaves the decision columns
  alone and writes no deciding status, or one of the two commits of the review service.
* `DecidedWithinOrganizationAlways`, from `OrganizationInv`: every session's user is in the organization of
  its document. Accepting a call establishes it, and no statement moves a session to another document or
  user (`StepSameRequest`).

* `OneAiSuccessAlways`, `FailureIsExplainedAlways` and `RunningJobIsServedAlways`, from `JobInv`. Every
  request that has started a stage has a job of its own (`JobsAreOwned`: of its document, not FAILED, ended
  at the statements after a result's commit), no two requests have the same one (`JobsAreApart`), and a job
  that is RUNNING is held by a request (`RunningIsHeld`). An AI job ends in SUCCESS only in the commit that
  inserts the invoice (`AiLeavesDraft`), which the unique constraint lets through once. A FAILED job never
  changes again, as nobody holds it, so it goes on explaining its document.
* `RestsSettledAlways`, from `SettleInv`: without faults a document in the middle of a stage has a request
  that will read the row again (`ReloadingPC`), or that goes on to write an outcome (`OwingPC`) and loaded a
  status of the middle of a stage. The second part is what the dirty check needs: a request that loaded the
  status it sets writes nothing.

And with one worker (`OneWorker`), from `SoloInv`:

* `OneDecisionAlways`, `ApprovedIsCleanAlways`, `NoSecondPaidCallAlways`, `DecidedDataIsFrozenAlways`.
  `SoloInv` says that what the request in progress read is still so (`RequestIsCurrent`: a review call's
  document is under review, an approval's invoice is clean, an AI call's document has no draft, a
  validation's document is undecided), and that a decided document has a draft and is neither being
  validated nor under review (`DecisionClosesReview`). The second is what keeps repeated extractions
  harmless: a decided document has a draft, so the AI stage never persists another, so VALIDATING_RESULT
  and REVIEW_REQUIRED are never written for it again.
* `ReviewFollowsValidationAlways`. REVIEW_REQUIRED is written by the commit that ends the validation's job,
  and decisions are made from there (`SoloInv`). A validation whose commit took effect can still be recorded
  as failed, if the refresh after it raises; `FreshInv` says that what the session loaded is what the row
  says whenever an outcome is written, so that the document becomes FAILED in the same commit. A decision could
  still lose its run that way, if a validation were under way for a decided document; `ValidatingIsUndecided`
  says that none is.
* `ExtractedTextIsStoredAlways`, from `TextInv`: a text stage under way is not shown as done, its commit
  comes after the complete file, the file is only deleted on behalf of a fault, and between that deletion
  and `mark_failed` only a second fault can leave TEXT_EXTRACTED behind.

For uploads, from `UploadAssumption` (naturals) and for every set of requests: `UploadTypeCorrect`,
`CreatedIsStoredAlways` and `OrphanTakesFaultsAlways`. `UploadInv` says which file a request has at each
statement, and that a request in its cleanup was refused for its content type or met a fault; together with
`OrphanTakesFaults` it is inductive.

The refinement: `ImplementsWorkflowAlways` (`OneWorker => (Spec => ImplementsWorkflow)`) shows for each action
which step of `DocumentWorkflow` it is or that it is a stutter, from `TypeOK`, `SoloInv` and `DraftInv`; those
are what make the commits' guards hold in the abstract state.

Exports beside the services, for every number of documents, users and exporting processes, from `OneWorker` and
`ServedAssumption` (finitely many documents, line items are sequences): `ExportedWasReviewedAlways`. `ServedInv`
follows an export's own steps and says that what it holds on to is approved already and stays as it was read. It
stays because no step removes an approver and none changes a decided invoice; the approver's organization and
the validation run are then `DecidedWithinOrganization` and `ReviewFollowsValidation` of a document that was
decided about, whatever its status is by now, which is why the latter speaks of those. The lemma
`ServedIsExport` says that exports beside the services behave as `InvoiceExport` allows, so that what
`ExportProofs` shows is meant for them too; TLAPS cannot cite a theorem of an instance, so nothing here rests on
it.

For requests, from `ServingAssumption`: `OneHandlerAtATimeAlways` and `TimeoutTakesCrowdAlways`. `ServingInv`
says that the loop names the one handler on it, that a connection belongs to a request in progress that is
past its authentication, and that more requests than connections were noticed. The pool is full only if each
of its connections belongs to another request in progress and the one asking is a further one, which is a
count of finite sets.

For accounts, from `AccountsAssumption`, for any number of processes, requests, users and emails:
`CreatedIsTheAccountAlways`, `OrganizationsHaveTheirUserAlways` and `LetInIsEntitledAlways`, from `AccountsInv`.
Ids and emails are unique, a user has the organization it was inserted with, a registration past its commit has
its row, a token or a login about to issue one has its user with the hash of what was typed (`TokensAreEarned`).
`RequestsAreFollowed` is what `LetInIsEntitled` needs: nothing activates a user again, so a row that was read as
active was active when the request began, and a request that began barred never reads one.

For an invoice's numbers, from `UnitAssumption` and `RequestAssumption`, for any drafts, patches, precision and
limits: `ReviewTypes`, `TotalSurvivesRoundingAlways` and `WholePriceSurvivesRoundingAlways` with any number of
workers, from `ReviewInv`: rows come from `Rows` and `StoredField`, which round, and are checked by `AllFit`
before a commit; an invoice exists exactly after a draft was committed (`QuietBeforeInvoice`), and is that draft
as stored until the first edit (`DraftIsStored`). With `SoleWorker`: `AnswerIsCurrentAlways`,
`ApprovedAddsUpAlways`, `NumbersImplementWorkflowAlways` and `StoredIsLastWordAlways`, from `SoloInv` (a call that
looked at the status finds it unchanged, what it loaded is what the row has, an approval past its gate has an
approvable row) and `EditInv` (each field has a last commit that named it). `TotalSurvivesRounding`
rests on lemmas about `Round`: a rounded amount is a multiple of a cent and at most half a cent away, so three
of them are off by less than two cents and hence by at most one, the tolerance. `WholePriceSurvivesRounding`
rests on two more: a multiple is not rounded again, so that quantity and price are stored as they are written,
and the amount alone is off by at most half a cent, which the tolerance covers whatever `One` is. The steps of
`NumbersImplementWorkflowAlways` are the commits: the draft's is `Extract`, validation's `Offer`, a failure of
validation `Reprocess`, which keeps the invoice, and `SoloInv` finds each edit and decision under review, an
approval with its gate still true; every other step leaves the abstract state alone.

For exports on their own, from `ExportAssumption`: `ExportedIsApprovedAlways`, from `ExportInv` (an approved invoice stays
approved and clean, and what an export holds on to is approved already), and
`NothingApprovedIsMissingAlways`, from `CoverInv`: each document the file has to have is still held on to or
has a row. A listing is complete because it is as long as what the query finds and names nothing twice
(`ListingComplete`, an injection between finite sets of one size), and it stays complete because an approval
written later has a later number and nothing shows a document as approved again (`WriteOwesNothing`).
`FileIsWholeAlways` comes from `WholeInv`: what is held on to is in the order of approval and after all rows, names
no invoice twice and none that has rows, and the rows of each invoice are one block, that of the invoice as it is.
Appending the next block keeps this, and a write keeps it because it changes no approved invoice and no number.

Only model-checked: the liveness properties `SettlesWithoutFaults` and `EveryRequestEnds`, which are out of the
prover's reach. Every other property of a passing run is a theorem.

## 5. Not modelled

The provider and OCR adapters and page rendering are external calls, modelled by their outcomes; that the
provider's client retries inside one call is not modelled. Error responses, configuration, logging and health
keep no state. Prompts are data. The migrations are run once, offline; the constraints they create (unique
emails, one invoice per document, column widths) are modelled where they bite. Of storage, the containment of
keys and `exists` are left out, as keys are generated by the server. The bytes of exported files and how texts
are formatted are left out. Times are not modelled beyond the order of events.

## 6. Plan

Everything planned first is done: the lifecycle and its stages, uploads, the validation rules and numbers,
the abstract workflow and its refinement, exports, accounts, request serving. What could follow:

1. A lock or version column in the review service, for which `review` and `single` with two workers would be
   the acceptance test.
2. The schema history: upgrades and downgrades as steps on the tables, with rows in them.

## 7. Running it

    tlc -workers 2 -config single.cfg MCServedExport.tla
    tlc -workers 2 -config review.cfg MCInvoiceReview.tla
    tlc -workers 2 -config upload.cfg MCUpload.tla
    tlapm DocumentLifecycleProofs.tla
    tlapm SingleWorkerProofs.tla
    tlapm UploadProofs.tla
    tlapm WorkflowProofs.tla
    tlapm ExportProofs.tla
