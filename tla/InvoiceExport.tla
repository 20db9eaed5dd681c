---------------------------- MODULE InvoiceExport ----------------------------
(***************************************************************************)
(* CSV and XLSX export of approved invoices.  An export reads the status,  *)
(* the invoices and each invoice's line items in statements of its own,    *)
(* while another process writes.  What that process may do to a document   *)
(* is DocumentWorkflow, which DocumentLifecycle implements with one        *)
(* worker.                                                                 *)
(***************************************************************************)
EXTENDS DocumentWorkflow, Integers, FiniteSets, SequencesExt

CONSTANTS
  Exporters,  \* processes that serve exports, one at a time
  OrgOf,      \* the organization of each document
  ItemsOf,    \* the line items of each content, in line_order
  NoItem      \* the line item columns of a row are empty

ASSUME ExportAssumption ==
  /\ IsFiniteSet(Documents)
  /\ Clean \subseteq Contents /\ NoDraft \notin Contents
  /\ \A c \in Contents :
       ItemsOf[c] \in Seq(Range(ItemsOf[c])) /\ NoItem \notin Range(ItemsOf[c])

Organizations == {OrgOf[d] : d \in Documents}

VARIABLES
  approvedAt,  \* invoices.approved_at: the number of the approval, 0 for NULL
  export       \* the export each process is serving, or served last

exportVars == <<workflowVars, approvedAt, export>>

NewExport(pc, org, since, invoices) ==
  [pc |-> pc, org |-> org, since |-> since, invoices |-> invoices, rows |-> <<>>]

NoExport == NewExport("idle", "none", 0, <<>>)

Held == [doc : Documents] \cup [doc : Documents, content : Contents]
Items == {NoItem} \cup UNION {Range(ItemsOf[c]) : c \in Contents}
Row  == [doc : Documents, content : Contents, item : Items]
Export ==
  [ pc : {"idle", "invoice", "items", "done"}, org : Organizations \cup {"none"},
    since : Nat, invoices : Seq(Held), rows : Seq(Row) ]

TypeOK ==
  /\ phase \in [Documents -> {"processing", "review", "approved", "rejected"}]
  /\ invoice \in [Documents -> Contents \cup {NoDraft}]
  /\ verdict \in [Documents -> {"none", "approved", "rejected"}]
  /\ approvedAt \in [Documents -> Nat]
  /\ export \in [Exporters -> Export]
  /\ \A x \in Exporters : export[x].pc = "invoice" => export[x].invoices # <<>>

NothingExported ==
  /\ approvedAt = [d \in Documents |-> 0]
  /\ export = [x \in Exporters |-> NoExport]

ExportInit == Init /\ NothingExported

Approvals == Cardinality({d \in Documents : approvedAt[d] > 0})

\* approve_invoice writes approved_at with the decision; no two are equal.
NumberApprovals ==
  approvedAt' = [d \in Documents |->
    IF verdict[d] # "approved" /\ verdict'[d] = "approved" THEN Approvals + 1
    ELSE approvedAt[d]]

Write == Next /\ NumberApprovals /\ UNCHANGED export

\* Documents with the fields of their invoices as read now.
WithContent(list) == [i \in DOMAIN list |-> [doc |-> list[i], content |-> invoice[list[i]]]]

Idle(x) == export[x].pc \in {"idle", "done"}

----------------------------------------------------------------------------
\* The export of one document: found within the organization, and APPROVED.
BeginSingle(x, org, d) ==
  /\ Idle(x)
  /\ OrgOf[d] = org /\ phase[d] = "approved"
  /\ export' = [export EXCEPT ![x] = NewExport("invoice", org, 0, <<[doc |-> d]>>)]
  /\ UNCHANGED <<workflowVars, approvedAt>>

\* Its invoice; without one the call is answered 409.
LoadInvoice(x) ==
  /\ export[x].pc = "invoice"
  /\ LET d == export[x].invoices[1].doc
     IN  export' = [export EXCEPT ![x] =
           IF invoice[d] = NoDraft THEN NoExport
           ELSE NewExport("items", @.org, 0, WithContent(<<d>>))]
  /\ UNCHANGED <<workflowVars, approvedAt>>

\* Mutation of Exportable: decided documents, whatever the decision.
DecidedIsExportable(d, org) ==
  OrgOf[d] = org /\ phase[d] \in {"approved", "rejected"}

\* The filters of list_organization_approved_invoices; the join leaves out a
\* document without an invoice.
Exportable(d, org) ==
  OrgOf[d] = org /\ phase[d] = "approved" /\ invoice[d] # NoDraft

\* Mutation of Before: newest first.
After(d, e) == approvedAt[d] > approvedAt[e]

\* ORDER BY approved_at.
Before(d, e) == approvedAt[d] < approvedAt[e]

\* The answer to the query, as a sequence of documents in that order.
Listings(org) ==
  LET found == {d \in Documents : Exportable(d, org)}
  IN  {list \in [1..Cardinality(found) -> found] :
         \A i, j \in DOMAIN list : i < j => Before(list[i], list[j])}

\* The export of an organization selects its invoices in one statement.
ListInvoices(x, org) ==
  /\ Idle(x)
  /\ \E list \in Listings(org) :
       export' = [export EXCEPT ![x] = NewExport("items", org, Approvals, WithContent(list))]
  /\ UNCHANGED <<workflowVars, approvedAt>>

\* Mutation of RowsOf: an invoice without line items has no row.
RowsOfItems(inv, items) ==
  [i \in DOMAIN items |-> [doc |-> inv.doc, content |-> inv.content, item |-> items[i]]]

\* One row for each line item, the invoice's fields repeated in it; one row
\* with blanks if there is none.
RowsOf(inv, items) ==
  LET cells == IF items = <<>> THEN <<NoItem>> ELSE items
  IN  [i \in DOMAIN cells |-> [doc |-> inv.doc, content |-> inv.content, item |-> cells[i]]]

\* invoice.line_items is loaded when flatten_invoices_to_rows gets there.
Flattened(e) ==
  LET inv == Head(e.invoices)
  IN  [ pc |-> e.pc, org |-> e.org, since |-> e.since, invoices |-> Tail(e.invoices),
        rows |-> e.rows \o RowsOf(inv, ItemsOf[invoice[inv.doc]]) ]

FlattenNext(x) ==
  /\ export[x].pc = "items" /\ export[x].invoices # <<>>
  /\ export' = [export EXCEPT ![x] = Flattened(@)]
  /\ UNCHANGED <<workflowVars, approvedAt>>

\* The rows are written to a file, which is the answer.
Deliver(x) ==
  /\ export[x].pc = "items" /\ export[x].invoices = <<>>
  /\ export' = [export EXCEPT ![x] = [@ EXCEPT !.pc = "done"]]
  /\ UNCHANGED <<workflowVars, approvedAt>>

\* A statement raises, or a text has a character no XLSX cell can hold.
ExportFails(x) ==
  /\ ~Idle(x)
  /\ export' = [export EXCEPT ![x] = NoExport]
  /\ UNCHANGED <<workflowVars, approvedAt>>

ExportStep(x) ==
  \/ \E org \in Organizations, d \in Documents : BeginSingle(x, org, d)
  \/ LoadInvoice(x)
  \/ \E org \in Organizations : ListInvoices(x, org)
  \/ FlattenNext(x) \/ Deliver(x) \/ ExportFails(x)

ExportNext == Write \/ \E x \in Exporters : ExportStep(x)

ExportSpec == ExportInit /\ [][ExportNext]_exportVars

----------------------------------------------------------------------------
DocsIn(rows) == {rows[i].doc : i \in DOMAIN rows}

RowIsApproved(org, row) ==
  /\ OrgOf[row.doc] = org
  /\ verdict[row.doc] = "approved"
  /\ row.content = invoice[row.doc] /\ row.content \in Clean

\* Whatever is written between the statements of an export, each row it has
\* made is about an approved invoice of the caller's organization, as it was
\* approved and still is, without errors.
ExportedIsApproved ==
  \A x \in Exporters : \A i \in DOMAIN export[x].rows :
    RowIsApproved(export[x].org, export[x].rows[i])

\* All rows about d are together, and they are those of its invoice as it is.
BlockOf(rows, d) ==
  LET block == RowsOf([doc |-> d, content |-> invoice[d]], ItemsOf[invoice[d]])
  IN  \E s \in 0..Len(rows) :
        /\ {i \in DOMAIN rows : rows[i].doc = d} = (s + 1)..(s + Len(block))
        /\ \A k \in DOMAIN block : rows[s + k] = block[k]

InOrder(rows) ==
  \A i, j \in DOMAIN rows : i < j => approvedAt[rows[i].doc] <= approvedAt[rows[j].doc]

\* A file has the rows of each invoice together and in the order of its line
\* items, those of this invoice and of no earlier state of it, and the
\* invoices in the order in which they were approved.
FileIsWhole ==
  \A x \in Exporters : export[x].pc = "done" =>
    /\ InOrder(export[x].rows)
    /\ \A d \in DocsIn(export[x].rows) : BlockOf(export[x].rows, d)

\* An organization's file leaves out no invoice that was approved before the
\* export began and is still shown as approved, with or without line items.
NothingApprovedIsMissing ==
  \A x \in Exporters : export[x].pc = "done" =>
    \A d \in Documents :
      /\ phase[d] = "approved" /\ OrgOf[d] = export[x].org
      /\ approvedAt[d] <= export[x].since
      => d \in DocsIn(export[x].rows)

\* What makes ExportedIsApproved inductive: how phase, verdict and invoice go
\* together, and that what an export holds on to is approved already.
ApprovedStays ==
  \A d \in Documents :
    /\ phase[d] = "approved" => verdict[d] = "approved"
    /\ phase[d] = "review" => verdict[d] = "none"
    /\ verdict[d] = "approved" => invoice[d] \in Clean

HeldInvoice(e, inv) ==
  /\ OrgOf[inv.doc] = e.org
  /\ verdict[inv.doc] = "approved"
  /\ e.pc = "items" => inv.content = invoice[inv.doc]

HeldIsApproved ==
  \A x \in Exporters : \A i \in DOMAIN export[x].invoices :
    HeldInvoice(export[x], export[x].invoices[i])

ExportInv == ApprovedStays /\ HeldIsApproved /\ ExportedIsApproved
=============================================================================
