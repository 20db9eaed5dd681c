---------------------------- MODULE InvoiceReview ----------------------------
(***************************************************************************)
(* The numbers of one invoice: persisted as a draft, edited with PATCH,    *)
(* shown to a reviewer with their findings, approved or rejected.          *)
(*                                                                         *)
(* Review.tla has the documents, users and faults around these calls and   *)
(* only tells clean data from data with errors; here the data is numbers   *)
(* and line items, and the database rounds them.                           *)
(***************************************************************************)
EXTENDS InvoiceValidation

CONSTANTS
  Workers,   \* API processes; each runs one call at a time
  Drafts,    \* what the AI provider may have read from the document
  Patches,   \* bodies of PATCH requests: functions on the fields they name
  MaxEdits   \* bound: edits that are committed

Fields == ScalarFields \cup {"line_items"}

ASSUME RequestAssumption ==
  /\ \A d \in Drafts :
       /\ DOMAIN d = Fields
       /\ \A f \in MoneyFields : d[f] \in Number
       /\ d.line_items \in Seq(LineItem)
  /\ \A p \in Patches :
       /\ DOMAIN p \subseteq Fields
       /\ \A f \in DOMAIN p \cap MoneyFields : p[f] \in Number
       /\ "line_items" \in DOMAIN p => p.line_items \in Seq(LineItem) \cup {NULL}
  /\ NULL \notin Seq(LineItem)
  /\ MaxEdits \in Nat

VARIABLES
  status,   \* documents.status
  invoice,  \* the invoices row and its line items
  call,     \* what each worker is doing
  told,     \* the findings a client was last given, if that is known
  log       \* the draft and the edits committed, the latest last

vars == <<status, invoice, call, told, log>>

ReviewStatus ==
  {"EXTRACTING_DATA", "VALIDATING_RESULT", "REVIEW_REQUIRED", "APPROVED",
   "REJECTED", "FAILED"}

NoInvoice == [f \in Fields |-> IF f = "line_items" THEN {} ELSE NULL]
NoCall == [pc |-> "idle", patch |-> <<>>, loaded |-> NoInvoice]
Silence == [known |-> FALSE, errors |-> NoErrors]

\* The next statement of a call: of an extraction that stored its draft, of
\* GET review, of an edit, of an approval, of a rejection.
EditPC == {"load_edit", "items_edit", "commit_edit", "refresh_edit", "answer_edit"}

CallPC ==
  {"idle", "validate", "refresh_document", "answer_review", "load_approve",
   "gate", "commit_approve", "load_reject", "commit_reject"} \cup EditPC

HasInvoice == log # <<>>

InCents(x) == x # NULL => x % Cent = 0

\* The columns hold whole cents and quantities of their last digit, within
\* their limits, whatever is sent; the log holds what was sent.
TypeOK ==
  /\ status \in ReviewStatus
  /\ \A f \in MoneyFields : InCents(invoice[f]) /\ Fits(invoice[f], MaxMoney)
  /\ \A row \in invoice.line_items :
       /\ InCents(row.unit_price) /\ InCents(row.amount)
       /\ row.quantity # NULL => row.quantity % QuantityStep = 0
       /\ RowFits(row) /\ row.order \in Nat
  /\ \A w \in Workers : call[w].pc \in CallPC /\ DOMAIN call[w].patch \subseteq Fields
  /\ told.known \in BOOLEAN
  /\ Len(log) <= MaxEdits + 1

Init ==
  /\ status = "EXTRACTING_DATA"
  /\ invoice = NoInvoice
  /\ call = [w \in Workers |-> NoCall]
  /\ told = Silence
  /\ log = <<>>

Put(w, p, patch, loaded) ==
  call' = [call EXCEPT ![w] = [pc |-> p, patch |-> patch, loaded |-> loaded]]

Goto(w, p) == Put(w, p, call[w].patch, call[w].loaded)
Finish(w)  == call' = [call EXCEPT ![w] = NoCall]

----------------------------------------------------------------------------
\* The draft as rows: the invoice, and its line items by their index.
DraftRows(d) ==
  [f \in Fields |-> IF f = "line_items" THEN Rows(d[f], 1) ELSE StoredField(f, d[f])]

AllFit(rows) ==
  /\ \A f \in MoneyFields : Fits(rows[f], MaxMoney)
  /\ \A row \in rows.line_items : RowFits(row)

\* The draft is committed as a whole ...
PersistDraft(w) ==
  /\ call[w] = NoCall /\ status = "EXTRACTING_DATA"
  /\ \E d \in Drafts :
       /\ AllFit(DraftRows(d))
       /\ invoice' = DraftRows(d)
       /\ log' = <<d>>
  /\ status' = "VALIDATING_RESULT"
  /\ Goto(w, "validate")
  /\ UNCHANGED told

\* ... or refused, because of its numbers or for any other reason.
DraftFails ==
  /\ status = "EXTRACTING_DATA"
  /\ status' = "FAILED"
  /\ UNCHANGED <<invoice, call, told, log>>

\* run_result_validation reports nothing and blocks nothing.
RunValidation(w) ==
  /\ call[w].pc = "validate"
  /\ status' = "REVIEW_REQUIRED"
  /\ Goto(w, "refresh_document")
  /\ UNCHANGED <<invoice, told, log>>

\* A statement of the validation raises, before its commit or in the refresh
\* after it: the document is marked as failed and keeps its invoice.
ValidationFails(w) ==
  /\ call[w].pc \in {"validate", "refresh_document"}
  /\ status' = "FAILED"
  /\ Finish(w)
  /\ UNCHANGED <<invoice, told, log>>

----------------------------------------------------------------------------
Scalars(row) == [row EXCEPT !.line_items = {}]

\* A call's invoice object, once its line items are read as well.
Filled(w) == [call[w].loaded EXCEPT !.line_items = invoice.line_items]

\* GET review, in any status: reads the invoice if there is one.
GetReview(w) ==
  /\ call[w] = NoCall
  /\ HasInvoice
  /\ Put(w, "answer_review", <<>>, Scalars(invoice))
  /\ UNCHANGED <<status, invoice, told, log>>

\* Mutation of BeginEdit: an edit is accepted in any status.
BeginEditAnytime(w, patch) ==
  /\ call[w] = NoCall /\ HasInvoice
  /\ Put(w, "load_edit", patch, NoInvoice)
  /\ UNCHANGED <<status, invoice, told, log>>

\* PATCH, approve and reject read the document and look at its status ...
BeginEdit(w, patch) ==
  /\ call[w] = NoCall /\ status = "REVIEW_REQUIRED"
  /\ Put(w, "load_edit", patch, NoInvoice)
  /\ UNCHANGED <<status, invoice, told, log>>

BeginApprove(w) ==
  /\ call[w] = NoCall /\ status = "REVIEW_REQUIRED"
  /\ Goto(w, "load_approve")
  /\ UNCHANGED <<status, invoice, told, log>>

BeginReject(w) ==
  /\ call[w] = NoCall /\ status = "REVIEW_REQUIRED"
  /\ Goto(w, "load_reject")
  /\ UNCHANGED <<status, invoice, told, log>>

AfterLoad(c) ==
  IF c.pc = "load_approve" THEN "gate"
  ELSE IF c.pc = "load_reject" THEN "commit_reject"
  ELSE IF "line_items" \in DOMAIN c.patch THEN "items_edit" ELSE "commit_edit"

\* ... and then the invoice.
LoadInvoice(w) ==
  /\ call[w].pc \in {"load_edit", "load_approve", "load_reject"}
  /\ Put(w, AfterLoad(call[w]), call[w].patch, Scalars(invoice))
  /\ UNCHANGED <<status, invoice, told, log>>

\* line_items.clear() reads the rows it is going to delete.
LoadItems(w) ==
  /\ call[w].pc = "items_edit"
  /\ Put(w, "commit_edit", call[w].patch, Filled(w))
  /\ UNCHANGED <<status, invoice, told, log>>

\* Mutation of Assigns: every field of the request model is written, those
\* the client left out as null.
AssignsAll(c, f) == TRUE

\* A field is written if the client sent it and it is not what was loaded.
Assigns(c, f) == f \in DOMAIN c.patch /\ c.patch[f] # c.loaded[f]

PatchValue(patch, f) == IF f \in DOMAIN patch THEN patch[f] ELSE NULL

\* Only the scalars written change; the line items loaded are deleted, and
\* those of the request inserted.  A null list means none.
Edited(row, c, n) ==
  [f \in Fields |->
     IF f # "line_items"
     THEN IF Assigns(c, f) THEN StoredField(f, PatchValue(c.patch, f)) ELSE row[f]
     ELSE IF f \notin DOMAIN c.patch THEN row[f]
     ELSE (row[f] \ c.loaded[f])
            \cup IF c.patch[f] = NULL THEN {} ELSE Rows(c.patch[f], n)]

\* The flush of the scalars and deletions, the insertions and the commit are
\* one transaction; row locks order it with any other.
CommitEdit(w) ==
  LET edited == Edited(invoice, call[w], Len(log) + 1) IN
  /\ call[w].pc = "commit_edit"
  /\ Len(log) <= MaxEdits
  /\ AllFit(edited)
  /\ invoice' = edited
  /\ log' = Append(log, call[w].patch)
  /\ Goto(w, "refresh_edit")
  /\ UNCHANGED <<status, told>>

\* Mutation of RefreshInvoice: the session goes on with what it sent.
KeepInvoice(w) ==
  LET c == call[w] IN
  /\ c.pc = "refresh_edit"
  /\ Put(w, "answer_edit", c.patch,
         [f \in Fields |-> IF f \in DOMAIN c.patch /\ f # "line_items" THEN c.patch[f]
                           ELSE c.loaded[f]])
  /\ UNCHANGED <<status, invoice, told, log>>

\* The refresh reads the invoice's row; its line items stay unloaded.
RefreshInvoice(w) ==
  /\ call[w].pc = "refresh_edit"
  /\ Put(w, "answer_edit", call[w].patch, Scalars(invoice))
  /\ UNCHANGED <<status, invoice, told, log>>

Tell(row) == told' = [known |-> TRUE, errors |-> ValidateInvoice(row).errors]

\* Validation reads the line items; its findings are the answer of GET review
\* and of an edit.
Answer(w) ==
  /\ call[w].pc \in {"answer_review", "answer_edit"}
  /\ Tell(Filled(w))
  /\ Finish(w)
  /\ UNCHANGED <<status, invoice, log>>

Approvable(row) == ValidateInvoice(row).is_valid

\* The gate of an approval reads the line items and validates; with errors
\* the client is told them.
Gate(w) ==
  /\ call[w].pc = "gate"
  /\ \/ /\ Approvable(Filled(w))
        /\ Goto(w, "commit_approve")
        /\ UNCHANGED told
     \/ /\ ~Approvable(Filled(w))
        /\ Tell(Filled(w))
        /\ Finish(w)
  /\ UNCHANGED <<status, invoice, log>>

\* A decision is written whatever the row says by now.
CommitDecision(w, p, decision) ==
  /\ call[w].pc = p
  /\ status' = decision
  /\ Finish(w)
  /\ UNCHANGED <<invoice, told, log>>

CommitApproval(w)  == CommitDecision(w, "commit_approve", "APPROVED")
CommitRejection(w) == CommitDecision(w, "commit_reject", "REJECTED")

\* A call ends without an answer about the row: a statement raises, the
\* database refuses a number, or an extraction is done.  What was not
\* committed is rolled back; after an edit's commit the client cannot know.
CallEnds(w) ==
  /\ call[w] # NoCall
  /\ told' = IF call[w].pc \in {"refresh_edit", "answer_edit"} THEN Silence ELSE told
  /\ Finish(w)
  /\ UNCHANGED <<status, invoice, log>>

Step(w) ==
  \/ PersistDraft(w) \/ RunValidation(w) \/ ValidationFails(w)
  \/ GetReview(w)
  \/ \E patch \in Patches : BeginEdit(w, patch)
  \/ BeginApprove(w) \/ BeginReject(w)
  \/ LoadInvoice(w) \/ LoadItems(w) \/ CommitEdit(w) \/ RefreshInvoice(w)
  \/ Answer(w) \/ Gate(w)
  \/ CommitApproval(w) \/ CommitRejection(w)
  \/ CallEnds(w)

Next == DraftFails \/ \E w \in Workers : Step(w)

Spec == Init /\ [][Next]_vars

----------------------------------------------------------------------------
\* An approved invoice adds up: its total within a cent, and each of its
\* line items, wherever all three values are present.
ApprovedAddsUp ==
  status = "APPROVED" =>
    /\ \/ \E f \in MoneyFields : invoice[f] = NULL
       \/ invoice.subtotal + invoice.tax - invoice.total \in -Cent..Cent
    /\ \A row \in invoice.line_items :
         \/ NULL \in {row.quantity, row.unit_price, row.amount}
         \/ row.quantity * row.unit_price - One * row.amount \in -(One * Cent)..(One * Cent)

\* In one process the findings a client was last given are those the row
\* has: an answer, put together from a row and line items read separately, is
\* about the numbers as stored, and a failed edit leaves it true.
AnswerIsCurrent ==
  told.known /\ (\A w \in Workers : call[w].pc \notin {"refresh_edit", "answer_edit"}) =>
    told.errors = Errors(invoice)

\* The last commit, of the draft or of an edit, that named field f.
LastNamed(f) ==
  CHOOSE i \in DOMAIN log :
    f \in DOMAIN log[i] /\ \A j \in DOMAIN log : j > i => f \notin DOMAIN log[j]

\* Each field of the row is what the last commit that named it said: a field
\* left out is untouched, null clears, a list of line items replaces the old
\* one in its order, and a refused edit leaves no trace.
StoredIsLastWord ==
  HasInvoice =>
    /\ \A f \in ScalarFields : invoice[f] = StoredField(f, log[LastNamed(f)][f])
    /\ LET n == LastNamed("line_items")
           list == log[n].line_items
       IN  invoice.line_items = IF list = NULL THEN {} ELSE Rows(list, n)

WrittenTotalIsRight(draft) ==
  /\ \A f \in MoneyFields : draft[f] # NULL
  /\ draft.subtotal + draft.tax = draft.total

WrittenLineIsRight(line) ==
  /\ NULL \notin {line.quantity, line.unit_price, line.amount}
  /\ line.quantity * line.unit_price = One * line.amount

\* Rounding each amount to the cent never makes a total wrong that was
\* exactly right as written: with fixed precision the check stays meaningful.
TotalSurvivesRounding ==
  Len(log) = 1 => (WrittenTotalIsRight(log[1]) => ~TotalMismatch(invoice))

\* models/invoice.py: "fixed precision, never float, to avoid rounding drift
\* on financial data": a line item that multiplies exactly as written is not
\* reported as a mismatch once stored.
LineSurvivesRounding ==
  Len(log) = 1 =>
    \A i \in DOMAIN log[1].line_items :
      WrittenLineIsRight(log[1].line_items[i]) => i - 1 \notin Errors(invoice).lines

\* It is the unit price that does not survive: in whole cents, and with a
\* quantity its column holds, a line item that multiplies exactly as written
\* is not reported, although its amount is rounded as well.
WholePriceSurvivesRounding ==
  Len(log) = 1 =>
    \A i \in DOMAIN log[1].line_items :
      LET line == log[1].line_items[i] IN
      /\ WrittenLineIsRight(line)
      /\ line.unit_price % Cent = 0 /\ line.quantity % QuantityStep = 0
      => i - 1 \notin Errors(invoice).lines

----------------------------------------------------------------------------
(* What one process promises about the invoice's document.                 *)

Phase ==
  CASE status = "REVIEW_REQUIRED" -> "review"
    [] status = "APPROVED"        -> "approved"
    [] status = "REJECTED"        -> "rejected"
    [] OTHER                      -> "processing"

Verdict == IF Phase \in {"approved", "rejected"} THEN Phase ELSE "none"

\* All that the workflow tells apart in the numbers.
Content ==
  IF ~HasInvoice THEN "none"
  ELSE IF Errors(invoice) = NoErrors THEN "clean" ELSE "errors"

Workflow == INSTANCE DocumentWorkflow WITH
  Documents <- {"this"}, Contents <- {"clean", "errors"}, Clean <- {"clean"},
  NoDraft   <- "none",
  phase     <- [d \in {"this"} |-> Phase],
  invoice   <- [d \in {"this"} |-> Content],
  verdict   <- [d \in {"this"} |-> Verdict]

\* With one process, the numbers and their partial edits behind the word
\* "clean" behave as the workflow says: the invoice changes from clean to
\* erroneous and back only while it is under review, and the one verdict
\* approves it only if it is clean when the verdict is committed.
NumbersImplementWorkflow == Workflow!Spec

\* What makes TypeOK and what is said of rounding inductive.
Row ==
  [commit : Nat, order : Nat, quantity : Number, unit_price : Number, amount : Number]

InvoiceHasNumbers ==
  /\ invoice = [f \in Fields |-> invoice[f]]
  /\ \A f \in MoneyFields : invoice[f] \in Number
  /\ invoice.line_items \subseteq Row

CallsHavePatches ==
  /\ DOMAIN call = Workers
  /\ \A w \in Workers :
       /\ DOMAIN call[w] = {"pc", "patch", "loaded"}
       /\ call[w].pc \in CallPC
       /\ call[w].patch \in Patches \/ call[w].patch = <<>>
       /\ call[w].pc \in EditPC => call[w].patch \in Patches

LogBeginsWithDraft ==
  /\ log \in Seq(Drafts \cup Patches)
  /\ HasInvoice => log[1] \in Drafts

DraftIsStored == Len(log) = 1 => invoice = DraftRows(log[1])

QuietBeforeInvoice ==
  /\ HasInvoice => status # "EXTRACTING_DATA"
  /\ ~HasInvoice =>
       /\ status \in {"EXTRACTING_DATA", "FAILED"} /\ told = Silence
       /\ \A w \in Workers : call[w] = NoCall

ReviewInv ==
  /\ TypeOK /\ InvoiceHasNumbers /\ CallsHavePatches
  /\ LogBeginsWithDraft /\ DraftIsStored /\ QuietBeforeInvoice

\* What makes the rest inductive, in one process: a call that looked at the
\* status finds it unchanged, what it loaded is what the row has, and what
\* the gate has let pass is approvable until it is approved.
SoleWorker == \A v, w \in Workers : v = w

StatusOf(p) ==
  CASE p \in {"idle", "answer_review"} -> ReviewStatus
    [] p = "validate"                  -> {"VALIDATING_RESULT"}
    [] OTHER                           -> {"REVIEW_REQUIRED"}

LoadedPC == {"answer_review", "items_edit", "commit_edit", "answer_edit", "gate"}

LoadedIsCurrent ==
  \A w \in Workers : call[w].pc \in LoadedPC =>
    /\ Filled(w) = invoice
    /\ call[w].pc = "commit_edit" /\ "line_items" \in DOMAIN call[w].patch =>
         call[w].loaded = invoice

SoloInv ==
  /\ \A w \in Workers : status \in StatusOf(call[w].pc)
  /\ LoadedIsCurrent
  /\ status = "APPROVED" \/ (\E w \in Workers : call[w].pc = "commit_approve") =>
       Approvable(invoice)
  /\ AnswerIsCurrent

\* What makes StoredIsLastWord inductive: each field was named.
IsLastNamed(f, i) ==
  /\ i \in DOMAIN log /\ f \in DOMAIN log[i]
  /\ \A j \in DOMAIN log : j > i => f \notin DOMAIN log[j]

EditInv ==
  /\ HasInvoice => \A f \in Fields : \E i \in DOMAIN log : IsLastNamed(f, i)
  /\ StoredIsLastWord
=============================================================================
