---------------------------- MODULE ServedExport ----------------------------
(***************************************************************************)
(* Exports of what the document API really writes: DocumentLifecycle with  *)
(* InvoiceExport beside it, over the same rows.  InvoiceExport reads what  *)
(* any DocumentWorkflow may write; here every write is a statement of one  *)
(* of the services, with its faults and crashes.  An export may fall       *)
(* between any two statements of a service, as from a process of its own;  *)
(* the one process of the image has fewer behaviours.                      *)
(***************************************************************************)
EXTENDS DocumentLifecycle

CONSTANTS
  Exporters,  \* processes that serve exports, one at a time
  ItemsOf,    \* the line items of each content, in line_order
  NoItem      \* the line item columns of a row are empty

VARIABLES
  approvedAt,  \* invoices.approved_at, written with approved_by_user_id
  export       \* the export each process is serving, or served last

servedVars == <<vars, approvedAt, export>>

Exports == INSTANCE InvoiceExport WITH
  phase   <- [d \in Documents |-> PhaseOf(status[d])],
  invoice <- draft,
  verdict <- [d \in Documents |-> VerdictOn(d)]

ASSUME ServedAssumption ==
  /\ IsFiniteSet(Documents)
  /\ \A c \in Contents :
       /\ ItemsOf[c] \in Seq({ItemsOf[c][i] : i \in DOMAIN ItemsOf[c]})
       /\ \A i \in DOMAIN ItemsOf[c] : ItemsOf[c][i] # NoItem

ServedInit == Init /\ Exports!NothingExported

\* A step of a service; approved_at is a column of the row it approves.
Committing(A) == A /\ Exports!NumberApprovals /\ UNCHANGED export

Serve(w) == Committing(Accept(w) \/ Step(w) \/ Interrupt(w))

\* A step of an export writes no row.
ServeExport(x) == UNCHANGED vars /\ Exports!ExportStep(x)

ServedNext ==
  \/ \E w \in Workers : Serve(w)
  \/ \E x \in Exporters : ServeExport(x)

ServedSpec == ServedInit /\ [][ServedNext]_servedVars

\* A handler that was started runs; exports need not be asked for or end.
ServedFairSpec ==
  ServedSpec /\ \A w \in Workers : WF_servedVars(Committing(Step(w)))

----------------------------------------------------------------------------
\* Every row an export has made is about an invoice that went through a
\* validation run recorded as successful, that a member of the organization
\* receiving the file approved, and that says what was approved, without
\* errors: whatever failed, crashed or was sent through extraction again in
\* the meantime.
ExportedWasReviewed ==
  \A x \in Exporters : \A i \in DOMAIN export[x].rows :
    LET row == export[x].rows[i] IN
    /\ \E u \in Users : approvedBy[row.doc] = u /\ OrgOf[u] = export[x].org
    /\ ValidationCompleted(row.doc)
    /\ row.content = draft[row.doc] /\ row.content \in Clean

\* What makes it inductive: what an export holds on to is approved already,
\* and stays as it was read.
ApprovedBy(org, d) == d \in Documents /\ OrgOf[d] = org /\ approvedBy[d] # NoUser

HoldsApproved(e) ==
  /\ DOMAIN e = {"pc", "org", "since", "invoices", "rows"}
  /\ e.invoices \in Seq(Exports!Held) /\ e.rows \in Seq(Exports!Row)
  /\ e.pc = "invoice" => e.invoices # <<>>
  /\ \A i \in DOMAIN e.invoices :
       /\ ApprovedBy(e.org, e.invoices[i].doc)
       /\ e.pc = "items" => e.invoices[i].content = draft[e.invoices[i].doc]
  /\ \A i \in DOMAIN e.rows :
       ApprovedBy(e.org, e.rows[i].doc) /\ e.rows[i].content = draft[e.rows[i].doc]

ServedInv == DOMAIN export = Exporters /\ \A x \in Exporters : HoldsApproved(export[x])
=============================================================================
