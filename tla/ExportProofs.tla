---------------------------- MODULE ExportProofs ----------------------------
(***************************************************************************)
(* What the rows of an export hold, for every number of documents,         *)
(* organizations, exporting processes and line items.                      *)
(***************************************************************************)
EXTENDS InvoiceExport, FiniteSetTheorems, SequenceTheorems, TLAPS

USE DEF NothingExported, NumberApprovals

\* Approved invoices are counted.
LEMMA ApprovalsCounted == Approvals \in Nat
<1>1. IsFiniteSet({d \in Documents : approvedAt[d] > 0})
  BY ExportAssumption, FS_Subset
<1> QED
  BY <1>1, FS_CardinalityType DEF Approvals

\* A listing is a sequence of the documents the query finds.
LEMMA ListingTyped ==
  ASSUME NEW org, NEW list \in Listings(org)
  PROVE  /\ list \in Seq(Documents)
         /\ \A i \in DOMAIN list : Exportable(list[i], org)
<1> DEFINE found == {d \in Documents : Exportable(d, org)}
<1>1. Cardinality(found) \in Nat
  BY ExportAssumption, FS_Subset, FS_CardinalityType
<1>2. list \in [1..Cardinality(found) -> found]
  BY DEF Listings
<1> HIDE DEF found
<1>3. list \in Seq(found)
  BY <1>1, <1>2
<1>4. \A i \in DOMAIN list : list[i] \in found
  BY <1>2
<1>5. found \subseteq Documents /\ \A d \in found : Exportable(d, org)
  BY DEF found
<1> QED
  BY <1>3, <1>4, <1>5

\* The rows of one invoice repeat its fields.
LEMMA RowsTyped ==
  ASSUME NEW inv, inv.doc \in Documents, inv.content \in Contents, NEW c \in Contents
  PROVE  /\ RowsOf(inv, ItemsOf[c]) \in Seq(Row)
         /\ \A i \in DOMAIN RowsOf(inv, ItemsOf[c]) :
              /\ RowsOf(inv, ItemsOf[c])[i].doc = inv.doc
              /\ RowsOf(inv, ItemsOf[c])[i].content = inv.content
<1> DEFINE cells == IF ItemsOf[c] = <<>> THEN <<NoItem>> ELSE ItemsOf[c]
<1>1. cells \in Seq(Items)
  <2>1. ItemsOf[c] \in Seq(Range(ItemsOf[c])) /\ Range(ItemsOf[c]) \subseteq Items
    BY ExportAssumption DEF Items
  <2>2. ItemsOf[c] \in Seq(Items) /\ <<NoItem>> \in Seq(Items)
    BY <2>1 DEF Items
  <2> QED
    BY <2>2
<1>2. RowsOf(inv, ItemsOf[c])
        = [i \in DOMAIN cells |-> [doc |-> inv.doc, content |-> inv.content, item |-> cells[i]]]
  BY DEF RowsOf
<1> HIDE DEF cells
<1>3. DOMAIN cells = 1..Len(cells) /\ Len(cells) \in Nat
      /\ \A i \in DOMAIN cells : cells[i] \in Items
  BY <1>1
<1>4. RowsOf(inv, ItemsOf[c]) \in [1..Len(cells) -> Row]
  BY <1>2, <1>3 DEF Row
<1> QED
  BY <1>2, <1>3, <1>4

LEMMA NoExportTyped == NoExport \in Export
BY DEF NoExport, NewExport, Export

----------------------------------------------------------------------------
(* The exports that the steps make: each is well typed, and each invoice   *)
(* and each row in it is an approved one.                                  *)

ApprovedExport(e) ==
  /\ e \in Export
  /\ e.pc = "invoice" => e.invoices # <<>>
  /\ \A i \in DOMAIN e.invoices : HeldInvoice(e, e.invoices[i])
  /\ \A i \in DOMAIN e.rows : RowIsApproved(e.org, e.rows[i])

LEMMA CurrentExport ==
  ASSUME TypeOK, ExportInv, NEW x \in Exporters
  PROVE  ApprovedExport(export[x])
BY DEF TypeOK, ExportInv, HeldIsApproved, ExportedIsApproved, ApprovedExport

LEMMA NewExportApproved ==
  ASSUME NEW pc \in {"idle", "invoice", "items"}, NEW org \in Organizations \cup {"none"},
         NEW since \in Nat, NEW invoices \in Seq(Held), pc = "invoice" => invoices # <<>>,
         \A i \in DOMAIN invoices :
           /\ OrgOf[invoices[i].doc] = org /\ verdict[invoices[i].doc] = "approved"
           /\ pc = "items" => invoices[i].content = invoice[invoices[i].doc]
  PROVE  ApprovedExport(NewExport(pc, org, since, invoices))
<1> DEFINE e == NewExport(pc, org, since, invoices)
<1>1. /\ e.pc = pc /\ e.org = org /\ e.invoices = invoices /\ e.rows = <<>>
      /\ e \in Export
  BY DEF NewExport, Export
<1> HIDE DEF e
<1>2. \A i \in DOMAIN e.rows : RowIsApproved(e.org, e.rows[i])
  <2>1. \A i \in DOMAIN e.rows : FALSE
    BY <1>1
  <2> QED
    BY <2>1
<1>3. \A i \in DOMAIN e.invoices : HeldInvoice(e, e.invoices[i])
  BY <1>1 DEF HeldInvoice
<1>4. e.pc = "invoice" => e.invoices # <<>>
  BY <1>1
<1>5. ApprovedExport(e)
  BY <1>1, <1>2, <1>3, <1>4 DEF ApprovedExport
<1> QED
  BY <1>5 DEF e

\* Documents with their invoices.
LEMMA WithContentHeld ==
  ASSUME TypeOK, NEW list \in Seq(Documents), \A i \in DOMAIN list : invoice[list[i]] # NoDraft
  PROVE  /\ WithContent(list) \in Seq(Held)
         /\ DOMAIN WithContent(list) = DOMAIN list
         /\ \A i \in DOMAIN list :
              /\ WithContent(list)[i].doc = list[i]
              /\ WithContent(list)[i].content = invoice[list[i]]
<1>1. \A i \in DOMAIN list : list[i] \in Documents /\ invoice[list[i]] \in Contents
  BY DEF TypeOK
<1>2. DOMAIN list = 1..Len(list) /\ Len(list) \in Nat
  OBVIOUS
<1>3. WithContent(list) = [i \in 1..Len(list) |-> [doc |-> list[i], content |-> invoice[list[i]]]]
  BY <1>2 DEF WithContent
<1>4. \A i \in 1..Len(list) : [doc |-> list[i], content |-> invoice[list[i]]] \in Held
  BY <1>1, <1>2 DEF Held
<1>5. WithContent(list) \in [1..Len(list) -> Held]
  BY <1>3, <1>4
<1>6. WithContent(list) \in Seq(Held)
  BY <1>2, <1>5
<1> QED
  BY <1>2, <1>3, <1>6

LEMMA FlattenedApproved ==
  ASSUME TypeOK, ApprovedStays, NEW e, ApprovedExport(e), e.pc = "items", e.invoices # <<>>
  PROVE  ApprovedExport(Flattened(e))
<1> DEFINE inv  == Head(e.invoices)
           rest == Tail(e.invoices)
           new  == RowsOf(inv, ItemsOf[invoice[inv.doc]])
           f    == Flattened(e)
<1>1. e \in Export /\ e.invoices \in Seq(Held) /\ e.rows \in Seq(Row)
  BY DEF ApprovedExport, Export
<1>2. /\ inv = e.invoices[1] /\ 1 \in DOMAIN e.invoices /\ rest \in Seq(Held)
      /\ \A i \in DOMAIN rest : i + 1 \in DOMAIN e.invoices /\ rest[i] = e.invoices[i + 1]
  BY <1>1, HeadTailProperties
<1>3. inv.doc \in Documents
  BY <1>1, <1>2 DEF Held
<1>4. HeldInvoice(e, inv)
  BY <1>2 DEF ApprovedExport
<1> HIDE DEF inv, rest
<1>5. RowIsApproved(e.org, inv) /\ inv.content \in Contents /\ invoice[inv.doc] \in Contents
  BY <1>3, <1>4, ExportAssumption DEF HeldInvoice, RowIsApproved, ApprovedStays
<1>6. /\ new \in Seq(Row)
      /\ \A i \in DOMAIN new : new[i].doc = inv.doc /\ new[i].content = inv.content
  BY <1>3, <1>5, RowsTyped
<1>7. /\ f.pc = e.pc /\ f.org = e.org /\ f.since = e.since
      /\ f.invoices = rest /\ f.rows = e.rows \o new
      /\ f = [pc |-> f.pc, org |-> f.org, since |-> f.since, invoices |-> f.invoices,
              rows |-> f.rows]
  BY DEF Flattened, inv, rest
<1> HIDE DEF new, f
<1>8. e.rows \o new \in Seq(Row)
  BY <1>1, <1>6, ConcatProperties
<1>9. f \in Export
  BY <1>1, <1>2, <1>7, <1>8 DEF Export
<1>10. \A i \in DOMAIN f.invoices : HeldInvoice(f, f.invoices[i])
  BY <1>2, <1>7 DEF ApprovedExport, HeldInvoice
<1>11. \A i \in DOMAIN f.rows : RowIsApproved(f.org, f.rows[i])
  <2>1. \A i \in DOMAIN new : RowIsApproved(e.org, new[i])
    BY <1>5, <1>6 DEF RowIsApproved
  <2>2. \A i \in DOMAIN e.rows : RowIsApproved(e.org, e.rows[i])
    BY DEF ApprovedExport
  <2>3. \A i \in DOMAIN (e.rows \o new) :
          \/ i \in DOMAIN e.rows /\ (e.rows \o new)[i] = e.rows[i]
          \/ \E j \in DOMAIN new : (e.rows \o new)[i] = new[j]
    BY <1>1, <1>6, ConcatProperties
  <2> QED
    BY <1>7, <2>1, <2>2, <2>3
<1> QED
  BY <1>7, <1>9, <1>10, <1>11 DEF ApprovedExport, f

----------------------------------------------------------------------------
(* The invariant.                                                          *)

\* A step of one export keeps the invariant if what it makes is approved.
LEMMA ExportMoves ==
  ASSUME TypeOK, ExportInv, UNCHANGED <<workflowVars, approvedAt>>,
         NEW x \in Exporters, NEW e, ApprovedExport(e), export' = [export EXCEPT ![x] = e]
  PROVE  (TypeOK /\ ExportInv)'
<1>1. \A y \in Exporters : export'[y] = IF y = x THEN e ELSE export[y]
  BY DEF TypeOK
<1>2. TypeOK'
  BY <1>1 DEF TypeOK, ApprovedExport, workflowVars
<1>3. ApprovedStays'
  BY DEF ExportInv, ApprovedStays, workflowVars
<1>4. HeldIsApproved'
  BY <1>1 DEF ExportInv, HeldIsApproved, HeldInvoice, ApprovedExport, workflowVars
<1>5. ExportedIsApproved'
  BY <1>1 DEF ExportInv, ExportedIsApproved, RowIsApproved, ApprovedExport, workflowVars
<1> QED
  BY <1>2, <1>3, <1>4, <1>5 DEF ExportInv

\* What was approved stays as it is, whatever is written.
LEMMA WriteKeepsApproved ==
  ASSUME TypeOK, ApprovedStays, Write
  PROVE  /\ ApprovedStays'
         /\ \A d \in Documents :
              verdict[d] = "approved" => verdict'[d] = "approved" /\ invoice'[d] = invoice[d]
<1>1. PICK d \in Documents :
        \/ Extract(d) \/ Offer(d) \/ Edit(d) \/ Reprocess(d)
        \/ Decide(d, "approved") \/ Decide(d, "rejected")
  BY DEF Write, Next
<1> USE ExportAssumption DEF TypeOK, ApprovedStays
<1>2. CASE Extract(d)
  BY <1>2 DEF Extract
<1>3. CASE Offer(d)
  BY <1>3 DEF Offer
<1>4. CASE Edit(d)
  BY <1>4 DEF Edit
<1>5. CASE Reprocess(d)
  BY <1>5 DEF Reprocess
<1>6. CASE Decide(d, "approved")
  BY <1>6 DEF Decide
<1>7. CASE Decide(d, "rejected")
  BY <1>7 DEF Decide
<1> QED
  BY <1>1, <1>2, <1>3, <1>4, <1>5, <1>6, <1>7

LEMMA WriteTyped ==
  ASSUME TypeOK, Write
  PROVE  TypeOK'
<1>1. approvedAt' \in [Documents -> Nat] /\ export' = export
  BY ApprovalsCounted DEF Write, TypeOK
<1>2. /\ phase' \in [Documents -> {"processing", "review", "approved", "rejected"}]
      /\ invoice' \in [Documents -> Contents \cup {NoDraft}]
      /\ verdict' \in [Documents -> {"none", "approved", "rejected"}]
  BY DEF Write, Next, Extract, Offer, Edit, Decide, Reprocess, TypeOK
<1> QED
  BY <1>1, <1>2 DEF TypeOK

LEMMA WriteKeepsExports ==
  ASSUME TypeOK, ExportInv, Write
  PROVE  (TypeOK /\ ExportInv)'
<1>1. export' = export /\ ApprovedStays'
  BY WriteKeepsApproved DEF Write, ExportInv
<1>2. \A d \in Documents :
        verdict[d] = "approved" => verdict'[d] = "approved" /\ invoice'[d] = invoice[d]
  BY WriteKeepsApproved DEF ExportInv
<1>3. HeldIsApproved'
  <2>1. ASSUME NEW y \in Exporters, NEW i \in DOMAIN export[y].invoices
        PROVE  HeldInvoice(export[y], export[y].invoices[i])'
    <3>1. export[y].invoices[i].doc \in Documents
      BY DEF TypeOK, Export, Held
    <3> QED
      BY <1>1, <1>2, <3>1 DEF ExportInv, HeldIsApproved, HeldInvoice
  <2> QED
    BY <1>1, <2>1 DEF HeldIsApproved
<1>4. ExportedIsApproved'
  <2>1. ASSUME NEW y \in Exporters, NEW i \in DOMAIN export[y].rows
        PROVE  RowIsApproved(export[y].org, export[y].rows[i])'
    <3>1. export[y].rows \in Seq(Row)
      BY DEF TypeOK, Export
    <3>2. export[y].rows[i] \in Row
      BY <3>1
    <3>3. export[y].rows[i].doc \in Documents
      BY <3>2 DEF Row
    <3> QED
      BY <1>1, <1>2, <3>3 DEF ExportInv, ExportedIsApproved, RowIsApproved
  <2> QED
    BY <1>1, <2>1 DEF ExportedIsApproved
<1> QED
  BY <1>1, <1>3, <1>4, WriteTyped DEF ExportInv

LEMMA ExportStepKeeps ==
  ASSUME TypeOK, ExportInv, NEW x \in Exporters, ExportStep(x)
  PROVE  (TypeOK /\ ExportInv)'
<1>1. ASSUME NEW org \in Organizations, NEW d \in Documents, BeginSingle(x, org, d)
      PROVE  (TypeOK /\ ExportInv)'
  <2> DEFINE list == <<[doc |-> d]>>
  <2>1. /\ list \in Seq(Held) /\ list # <<>>
        /\ \A i \in DOMAIN list : list[i].doc = d
    BY DEF Held
  <2>2. OrgOf[d] = org /\ verdict[d] = "approved"
    BY <1>1 DEF BeginSingle, ExportInv, ApprovedStays
  <2>3. export' = [export EXCEPT ![x] = NewExport("invoice", org, 0, list)]
    BY <1>1 DEF BeginSingle
  <2> HIDE DEF list
  <2>4. ApprovedExport(NewExport("invoice", org, 0, list))
    BY <2>1, <2>2, NewExportApproved
  <2> QED
    BY <1>1, <2>3, <2>4, ExportMoves DEF BeginSingle
<1>2. ApprovedExport(NoExport)
  <2>1. <<>> \in Seq(Held) /\ \A i \in DOMAIN <<>> : FALSE
    OBVIOUS
  <2> QED
    BY <2>1, NewExportApproved DEF NoExport
<1>3. CASE LoadInvoice(x)
  <2> DEFINE d == export[x].invoices[1].doc
             next == NewExport("items", export[x].org, 0, WithContent(<<d>>))
  <2>1. HeldInvoice(export[x], export[x].invoices[1]) /\ d \in Documents
    <3>1. /\ export[x].invoices \in Seq(Held) /\ export[x].invoices # <<>>
      BY <1>3 DEF LoadInvoice, TypeOK, Export
    <3>2. 1 \in DOMAIN export[x].invoices /\ export[x].invoices[1] \in Held
      BY <3>1
    <3> QED
      BY <3>2 DEF Held, ExportInv, HeldIsApproved
  <2>2. OrgOf[d] = export[x].org /\ verdict[d] = "approved"
    BY <2>1 DEF HeldInvoice
  <2>3. export[x].org \in Organizations
    BY <2>1, <2>2 DEF Organizations
  <2> HIDE DEF d
  <2>4. CASE invoice[d] = NoDraft
    BY <1>2, <1>3, <2>4, ExportMoves DEF LoadInvoice, d
  <2>5. CASE invoice[d] # NoDraft
    <3>1. <<d>> \in Seq(Documents) /\ \A i \in DOMAIN <<d>> : <<d>>[i] = d
      BY <2>1
    <3>2. ApprovedExport(next)
      <4> DEFINE list == <<d>>
                 held == WithContent(list)
      <4>1. list \in Seq(Documents) /\ \A i \in DOMAIN list : list[i] = d
        BY <3>1
      <4> HIDE DEF list
      <4>2. /\ held \in Seq(Held)
            /\ \A i \in DOMAIN held : held[i].doc = d /\ held[i].content = invoice[d]
        BY <2>5, <4>1, WithContentHeld
      <4> HIDE DEF held
      <4>3. ApprovedExport(NewExport("items", export[x].org, 0, held))
        BY <2>2, <2>3, <4>2, NewExportApproved
      <4> QED
        BY <4>3 DEF held, list
    <3>3. export' = [export EXCEPT ![x] = next]
      BY <1>3, <2>5 DEF LoadInvoice, d
    <3> QED
      BY <1>3, <3>2, <3>3, ExportMoves DEF LoadInvoice
  <2> QED
    BY <2>4, <2>5
<1>4. ASSUME NEW org \in Organizations, ListInvoices(x, org)
      PROVE  (TypeOK /\ ExportInv)'
  <2>1. PICK list \in Listings(org) :
          export' = [export EXCEPT ![x] = NewExport("items", org, Approvals, WithContent(list))]
    BY <1>4 DEF ListInvoices
  <2>2. /\ list \in Seq(Documents)
        /\ \A i \in DOMAIN list :
             OrgOf[list[i]] = org /\ verdict[list[i]] = "approved" /\ invoice[list[i]] # NoDraft
    BY ListingTyped DEF Exportable, ExportInv, ApprovedStays
  <2>3. ApprovedExport(NewExport("items", org, Approvals, WithContent(list)))
    BY <2>2, WithContentHeld, ApprovalsCounted, NewExportApproved
  <2> QED
    BY <1>4, <2>1, <2>3, ExportMoves DEF ListInvoices
<1>5. CASE FlattenNext(x)
  <2>1. ApprovedExport(Flattened(export[x]))
    BY <1>5, CurrentExport, FlattenedApproved DEF FlattenNext, ExportInv
  <2> QED
    BY <1>5, <2>1, ExportMoves DEF FlattenNext
<1>6. CASE Deliver(x)
  <2> DEFINE e == [export[x] EXCEPT !.pc = "done"]
  <2>1. ApprovedExport(export[x])
    BY CurrentExport
  <2>2. /\ e \in Export /\ e.pc = "done" /\ e.org = export[x].org
        /\ e.invoices = export[x].invoices /\ e.rows = export[x].rows
    BY <2>1 DEF ApprovedExport, Export
  <2>3. export' = [export EXCEPT ![x] = e]
    BY <1>6 DEF Deliver
  <2> HIDE DEF e
  <2>4. ApprovedExport(e)
    BY <2>1, <2>2 DEF ApprovedExport, HeldInvoice
  <2> QED
    BY <1>6, <2>3, <2>4, ExportMoves DEF Deliver
<1>7. CASE ExportFails(x)
  BY <1>2, <1>7, ExportMoves DEF ExportFails
<1> QED
  BY <1>1, <1>3, <1>4, <1>5, <1>6, <1>7 DEF ExportStep

\* Both hold of every state of every behaviour.
LEMMA ExportInvAlways == ExportSpec => [](TypeOK /\ ExportInv)
<1>1. ExportInit => TypeOK /\ ExportInv
  <2> SUFFICES ASSUME ExportInit PROVE TypeOK /\ ExportInv
    OBVIOUS
  <2>1. TypeOK
    BY NoExportTyped DEF ExportInit, Init, TypeOK, NoExport, NewExport
  <2>2. ExportInv
    BY DEF ExportInit, Init, ExportInv, ApprovedStays, HeldIsApproved, ExportedIsApproved,
           NoExport, NewExport
  <2> QED
    BY <2>1, <2>2
<1>2. TypeOK /\ ExportInv /\ [ExportNext]_exportVars => (TypeOK /\ ExportInv)'
  <2> SUFFICES ASSUME TypeOK, ExportInv, [ExportNext]_exportVars PROVE (TypeOK /\ ExportInv)'
    OBVIOUS
  <2>1. CASE UNCHANGED exportVars
    BY <2>1 DEF exportVars, workflowVars, TypeOK, ExportInv, ApprovedStays, HeldIsApproved,
                HeldInvoice, ExportedIsApproved, RowIsApproved
  <2> QED
    BY <2>1, WriteKeepsExports, ExportStepKeeps DEF ExportNext
<1> QED
  BY <1>1, <1>2, PTL DEF ExportSpec

\* A row of an export, finished or not, is about an invoice of the caller's
\* organization as it was approved, whatever another process writes between
\* the statements of the export.
THEOREM ExportedIsApprovedAlways == ExportSpec => []ExportedIsApproved
<1>1. ExportInv => ExportedIsApproved
  BY DEF ExportInv
<1> QED
  BY <1>1, ExportInvAlways, PTL

----------------------------------------------------------------------------
(* What an export leaves out.  An approval that is written after an export *)
(* began has a number beyond the export's, and nothing shows a document as *)
(* approved again: what an export has to have is known when it begins, and *)
(* it is either still held on to or in the rows.                           *)

ApprovalsNumbered == \A d \in Documents : approvedAt[d] > 0 <=> verdict[d] = "approved"

Owed(e, d) == phase[d] = "approved" /\ OrgOf[d] = e.org /\ approvedAt[d] <= e.since

Covers(e) ==
  /\ e.since <= Approvals
  /\ e.pc = "done" => e.invoices = <<>>
  /\ e.pc \in {"items", "done"} =>
       \A d \in Documents : Owed(e, d) => d \in DocsIn(e.invoices) \cup DocsIn(e.rows)

CoverInv == ApprovalsNumbered /\ \A x \in Exporters : Covers(export[x])

\* A listing names every document the query finds, as it is as long as their
\* set and names none twice.
LEMMA ListingComplete ==
  ASSUME TypeOK, NEW org, NEW list \in Listings(org),
         NEW d \in Documents, Exportable(d, org)
  PROVE  \E i \in DOMAIN list : list[i] = d
<1> DEFINE found == {e \in Documents : Exportable(e, org)}
           n     == Cardinality(found)
<1>1. IsFiniteSet(found) /\ n \in Nat /\ d \in found /\ found \subseteq Documents
  BY ExportAssumption, FS_Subset, FS_CardinalityType
<1>2. /\ list \in [1..n -> found]
      /\ \A i, j \in DOMAIN list : i < j => Before(list[i], list[j])
  BY DEF Listings
<1> HIDE DEF found
<1>3. \A i, j \in 1..n : i < j => list[i] # list[j]
  <2>1. \A e \in Documents : ~Before(e, e)
    BY DEF Before, TypeOK
  <2> QED
    BY <1>1, <1>2, <2>1
<1>4. list \in Injection(1..n, found)
  BY <1>1, <1>2, <1>3 DEF Injection, IsInjective
<1>5. IsFiniteSet(1..n) /\ Cardinality(1..n) = n
  BY <1>1, FS_Interval
<1>6. list \in Surjection(1..n, found)
  BY <1>1, <1>4, <1>5, FS_Injection
<1> QED
  BY <1>1, <1>2, <1>6 DEF Surjection

\* Every invoice has a row, without line items too.
LEMMA RowsPresent ==
  ASSUME NEW inv, inv.doc \in Documents, inv.content \in Contents, NEW c \in Contents
  PROVE  inv.doc \in DocsIn(RowsOf(inv, ItemsOf[c]))
<1> DEFINE rows == RowsOf(inv, ItemsOf[c])
<1>1. ItemsOf[c] \in Seq(Range(ItemsOf[c]))
  BY ExportAssumption
<1>2. 1 \in DOMAIN rows
  BY <1>1 DEF RowsOf
<1>3. rows[1].doc = inv.doc
  BY <1>2, RowsTyped
<1> QED
  BY <1>2, <1>3 DEF DocsIn

\* Nothing that is written adds to what an export in progress has to have.
LEMMA WriteOwesNothing ==
  ASSUME TypeOK, ApprovedStays, ApprovalsNumbered, Write
  PROVE  /\ ApprovalsNumbered'
         /\ Approvals <= Approvals'
         /\ \A d \in Documents :
              phase'[d] = "approved" =>
                \/ (phase[d] = "approved" /\ approvedAt'[d] = approvedAt[d])
                \/ approvedAt'[d] > Approvals
<1>1. \A d \in Documents :
        /\ verdict[d] = "approved" => verdict'[d] = "approved"
        /\ phase'[d] = "approved" =>
             phase[d] = "approved" \/ (verdict[d] # "approved" /\ verdict'[d] = "approved")
  BY DEF Write, Next, Extract, Offer, Edit, Decide, Reprocess, TypeOK
<1>2. \A d \in Documents :
        approvedAt'[d] = IF verdict[d] # "approved" /\ verdict'[d] = "approved"
                         THEN Approvals + 1 ELSE approvedAt[d]
  BY DEF Write
<1>3. Approvals \in Nat
  BY ApprovalsCounted
<1>4. ApprovalsNumbered'
  BY <1>1, <1>2, <1>3 DEF ApprovalsNumbered
<1>5. Approvals <= Approvals'
  <2> DEFINE before == {d \in Documents : approvedAt[d] > 0}
             after  == {d \in Documents : approvedAt'[d] > 0}
  <2>1. before \subseteq after
    BY <1>1, <1>4 DEF ApprovalsNumbered
  <2>2. IsFiniteSet(after)
    BY ExportAssumption, FS_Subset
  <2>3. Approvals = Cardinality(before) /\ Approvals' = Cardinality(after)
    BY DEF Approvals
  <2> HIDE DEF before, after
  <2> QED
    BY <2>1, <2>2, <2>3, FS_Subset
<1>6. ASSUME NEW d \in Documents, phase'[d] = "approved"
      PROVE  \/ (phase[d] = "approved" /\ approvedAt'[d] = approvedAt[d])
             \/ approvedAt'[d] > Approvals
  <2>1. CASE verdict[d] # "approved" /\ verdict'[d] = "approved"
    BY <1>2, <1>3, <2>1
  <2>2. CASE ~(verdict[d] # "approved" /\ verdict'[d] = "approved")
    BY <1>1, <1>2, <1>6, <2>2
  <2> QED
    BY <2>1, <2>2
<1> QED
  BY <1>4, <1>5, <1>6

LEMMA WriteKeepsCover ==
  ASSUME TypeOK, ExportInv, CoverInv, Write
  PROVE  CoverInv'
<1>1. ApprovalsNumbered' /\ export' = export
  BY WriteOwesNothing DEF ExportInv, CoverInv, Write
<1>2. ASSUME NEW x \in Exporters
      PROVE  Covers(export[x])'
  <2> DEFINE e == export[x]
  <2>1. Covers(e) /\ e.since \in Nat /\ Approvals \in Nat /\ Approvals' \in Nat
    <3>1. approvedAt' \in [Documents -> Nat]
      BY WriteTyped DEF TypeOK
    <3>2. IsFiniteSet({d \in Documents : approvedAt'[d] > 0})
      BY ExportAssumption, FS_Subset
    <3>3. Approvals' \in Nat
      BY <3>2, FS_CardinalityType DEF Approvals
    <3> QED
      BY <3>3, ApprovalsCounted DEF CoverInv, TypeOK, Export
  <2>2. e.since <= Approvals'
    BY <2>1, WriteOwesNothing DEF Covers, ExportInv, CoverInv
  <2>3. ASSUME NEW d \in Documents, Owed(e, d)'
        PROVE  Owed(e, d)
    <3>1. phase'[d] = "approved" /\ OrgOf[d] = e.org /\ approvedAt'[d] <= e.since
      BY <1>1, <2>3 DEF Owed
    <3>2. /\ e.since <= Approvals
          /\ approvedAt'[d] \in Nat
      BY <2>1, WriteTyped DEF Covers, TypeOK
    <3>3. phase[d] = "approved" /\ approvedAt'[d] = approvedAt[d]
      BY <2>1, <3>1, <3>2, WriteOwesNothing DEF ExportInv, CoverInv
    <3> QED
      BY <3>1, <3>3 DEF Owed
  <2> QED
    BY <1>1, <2>1, <2>2, <2>3 DEF Covers
<1> QED
  BY <1>1, <1>2 DEF CoverInv

\* A step of one export keeps the invariant if what it makes is covered.
LEMMA CoverMoves ==
  ASSUME TypeOK, CoverInv, UNCHANGED <<workflowVars, approvedAt>>,
         NEW x \in Exporters, NEW e, Covers(e), export' = [export EXCEPT ![x] = e]
  PROVE  CoverInv'
<1>1. \A y \in Exporters : export'[y] = IF y = x THEN e ELSE export[y]
  BY DEF TypeOK
<1>2. Approvals' = Approvals
  BY DEF Approvals
<1>3. \A y \in Exporters : Covers(export[y])'
  BY <1>1, <1>2 DEF CoverInv, Covers, Owed, workflowVars
<1> QED
  BY <1>3 DEF CoverInv, ApprovalsNumbered, workflowVars

LEMMA FlattenedCovers ==
  ASSUME TypeOK, ApprovedStays, NEW e, ApprovedExport(e), Covers(e),
         e.pc = "items", e.invoices # <<>>
  PROVE  Covers(Flattened(e))
<1> DEFINE inv  == Head(e.invoices)
           rest == Tail(e.invoices)
           new  == RowsOf(inv, ItemsOf[invoice[inv.doc]])
           f    == Flattened(e)
<1>1. e.invoices \in Seq(Held) /\ e.rows \in Seq(Row)
  BY DEF ApprovedExport, Export
<1>2. /\ inv = e.invoices[1] /\ 1 \in DOMAIN e.invoices
      /\ \A i \in DOMAIN e.invoices :
           i = 1 \/ (i - 1 \in DOMAIN rest /\ rest[i - 1] = e.invoices[i])
  BY <1>1, HeadTailProperties
<1>3. inv.doc \in Documents
  BY <1>1, <1>2 DEF Held
<1>4. HeldInvoice(e, inv)
  BY <1>2 DEF ApprovedExport
<1> HIDE DEF inv, rest
<1>5. inv.content \in Contents /\ invoice[inv.doc] \in Contents
  BY <1>3, <1>4, ExportAssumption DEF HeldInvoice, ApprovedStays
<1>6. new \in Seq(Row) /\ inv.doc \in DocsIn(new)
  BY <1>3, <1>5, RowsTyped, RowsPresent
<1>7. /\ f.pc = e.pc /\ f.org = e.org /\ f.since = e.since
      /\ f.invoices = rest /\ f.rows = e.rows \o new
  BY DEF Flattened, inv, rest
<1> HIDE DEF new, f
<1>8. DocsIn(e.invoices) \subseteq {inv.doc} \cup DocsIn(rest)
  BY <1>2 DEF DocsIn
<1>9. DocsIn(e.rows \o new) = DocsIn(e.rows) \cup DocsIn(new)
  <2>1. \A i \in DOMAIN e.rows :
          i \in DOMAIN (e.rows \o new) /\ (e.rows \o new)[i] = e.rows[i]
    BY <1>1, <1>6, ConcatProperties
  <2>2. \A i \in DOMAIN new :
          /\ Len(e.rows) + i \in DOMAIN (e.rows \o new)
          /\ (e.rows \o new)[Len(e.rows) + i] = new[i]
    BY <1>1, <1>6, ConcatProperties
  <2>3. \A i \in DOMAIN (e.rows \o new) :
          \/ i \in DOMAIN e.rows /\ (e.rows \o new)[i] = e.rows[i]
          \/ \E j \in DOMAIN new : (e.rows \o new)[i] = new[j]
    BY <1>1, <1>6, ConcatProperties
  <2> QED
    BY <2>1, <2>2, <2>3 DEF DocsIn
<1>10. \A d \in Documents : Owed(f, d) => d \in DocsIn(f.invoices) \cup DocsIn(f.rows)
  BY <1>6, <1>7, <1>8, <1>9 DEF Covers, Owed
<1>11. Covers(f)
  BY <1>7, <1>10 DEF Covers
<1> QED
  BY <1>11 DEF f

LEMMA ExportStepCovers ==
  ASSUME TypeOK, ExportInv, CoverInv, NEW x \in Exporters, ExportStep(x)
  PROVE  CoverInv'
<1>1. 0 <= Approvals
  BY ApprovalsCounted
<1>2. Covers(export[x]) /\ ApprovalsNumbered
  BY DEF CoverInv
<1>3. Covers(NoExport)
  BY <1>1 DEF Covers, NoExport, NewExport
<1>4. ASSUME NEW org \in Organizations, NEW d \in Documents, BeginSingle(x, org, d)
      PROVE  CoverInv'
  <2>1. Covers(NewExport("invoice", org, 0, <<[doc |-> d]>>))
    BY <1>1 DEF Covers, NewExport
  <2> QED
    BY <1>4, <2>1, CoverMoves DEF BeginSingle
<1>5. CASE LoadInvoice(x)
  <2> DEFINE d == export[x].invoices[1].doc
             next == NewExport("items", export[x].org, 0, WithContent(<<d>>))
  <2>1. \A e \in Documents : phase[e] = "approved" => ~(approvedAt[e] <= 0)
    BY DEF TypeOK, ExportInv, ApprovedStays, CoverInv, ApprovalsNumbered
  <2>2. next.pc = "items" /\ next.since = 0
    BY DEF NewExport
  <2> HIDE DEF next
  <2>3. Covers(next)
    BY <1>1, <2>1, <2>2 DEF Covers, Owed
  <2>4. CASE invoice[d] = NoDraft
    BY <1>3, <1>5, <2>4, CoverMoves DEF LoadInvoice
  <2>5. CASE invoice[d] # NoDraft
    BY <1>5, <2>3, <2>5, CoverMoves DEF LoadInvoice, next
  <2> QED
    BY <2>4, <2>5
<1>6. ASSUME NEW org \in Organizations, ListInvoices(x, org)
      PROVE  CoverInv'
  <2>1. PICK list \in Listings(org) :
          export' = [export EXCEPT ![x] = NewExport("items", org, Approvals, WithContent(list))]
    BY <1>6 DEF ListInvoices
  <2> DEFINE held == WithContent(list)
             e    == NewExport("items", org, Approvals, held)
  <2>2. list \in Seq(Documents) /\ \A i \in DOMAIN list : invoice[list[i]] # NoDraft
    BY ListingTyped DEF Exportable
  <2>3. DOMAIN held = DOMAIN list /\ \A i \in DOMAIN list : held[i].doc = list[i]
    BY <2>2, WithContentHeld
  <2>4. /\ e.pc = "items" /\ e.org = org /\ e.since = Approvals
        /\ e.invoices = held /\ e.rows = <<>>
    BY DEF NewExport
  <2> HIDE DEF e, held
  <2>5. ASSUME NEW d \in Documents, Owed(e, d)
        PROVE  d \in DocsIn(e.invoices)
    <3>1. Exportable(d, org)
      BY <2>4, <2>5, ExportAssumption DEF Owed, Exportable, ExportInv, ApprovedStays
    <3>2. PICK i \in DOMAIN list : list[i] = d
      BY <3>1, ListingComplete
    <3> QED
      BY <2>3, <2>4, <3>2 DEF DocsIn
  <2>6. Covers(e)
    BY <2>4, <2>5, ApprovalsCounted DEF Covers
  <2> QED
    BY <1>6, <2>1, <2>6, CoverMoves DEF ListInvoices, e, held
<1>7. CASE FlattenNext(x)
  <2>1. Covers(Flattened(export[x]))
    BY <1>2, <1>7, CurrentExport, FlattenedCovers DEF FlattenNext, ExportInv
  <2> QED
    BY <1>7, <2>1, CoverMoves DEF FlattenNext
<1>8. CASE Deliver(x)
  <2> DEFINE e == [export[x] EXCEPT !.pc = "done"]
  <2>1. export[x] \in Export /\ export[x].pc = "items" /\ export[x].invoices = <<>>
    BY <1>8 DEF Deliver, TypeOK
  <2>2. /\ e.pc = "done" /\ e.org = export[x].org /\ e.since = export[x].since
        /\ e.invoices = <<>> /\ e.rows = export[x].rows
    BY <2>1 DEF Export
  <2>3. export' = [export EXCEPT ![x] = e]
    BY <1>8 DEF Deliver
  <2> HIDE DEF e
  <2>4. Covers(e)
    BY <1>2, <2>1, <2>2 DEF Covers, Owed
  <2> QED
    BY <1>8, <2>3, <2>4, CoverMoves DEF Deliver
<1>9. CASE ExportFails(x)
  BY <1>3, <1>9, CoverMoves DEF ExportFails
<1> QED
  BY <1>4, <1>5, <1>6, <1>7, <1>8, <1>9 DEF ExportStep

\* An organization's file has every invoice that was approved before the
\* export began and is still shown as approved, whatever is approved, taken
\* back to processing or edited between its statements.
THEOREM NothingApprovedIsMissingAlways == ExportSpec => []NothingApprovedIsMissing
<1>1. ExportInit => CoverInv
  <2> SUFFICES ASSUME ExportInit PROVE CoverInv
    OBVIOUS
  <2>1. ApprovalsNumbered
    <3>1. \A d \in Documents : approvedAt[d] = 0 /\ verdict[d] = "none"
      BY DEF ExportInit, Init
    <3>2. ~(0 > 0) /\ "none" # "approved"
      OBVIOUS
    <3> QED
      BY <3>1, <3>2, Zenon DEF ApprovalsNumbered
  <2>2. Covers(NoExport)
    BY ApprovalsCounted DEF Covers, NoExport, NewExport
  <2> QED
    BY <2>1, <2>2 DEF ExportInit, CoverInv
<1>2. TypeOK /\ ExportInv /\ CoverInv /\ [ExportNext]_exportVars => CoverInv'
  <2> SUFFICES ASSUME TypeOK, ExportInv, CoverInv, [ExportNext]_exportVars PROVE CoverInv'
    OBVIOUS
  <2>1. CASE UNCHANGED exportVars
    BY <2>1 DEF exportVars, workflowVars, CoverInv, ApprovalsNumbered, Covers, Owed, Approvals
  <2> QED
    BY <2>1, WriteKeepsCover, ExportStepCovers DEF ExportNext
<1>3. CoverInv => NothingApprovedIsMissing
  <2> SUFFICES ASSUME CoverInv, NEW x \in Exporters, export[x].pc = "done",
                      NEW d \in Documents, Owed(export[x], d)
               PROVE  d \in DocsIn(export[x].rows)
    BY DEF NothingApprovedIsMissing, Owed
  <2>1. export[x].invoices = <<>> /\ d \in DocsIn(export[x].invoices) \cup DocsIn(export[x].rows)
    BY DEF CoverInv, Covers
  <2> QED
    BY <2>1 DEF DocsIn
<1> QED
  BY <1>1, <1>2, <1>3, ExportInvAlways, PTL DEF ExportSpec

----------------------------------------------------------------------------
(* The order of the rows.  What is still to be flattened was approved      *)
(* after everything that has rows, and what has rows has all of them.      *)

RowsComeFirst(e) ==
  \A i \in DOMAIN e.rows, j \in DOMAIN e.invoices : Before(e.rows[i].doc, e.invoices[j].doc)

Whole(e) ==
  e.pc \in {"items", "done"} =>
    /\ InOrder(e.rows)
    /\ \A d \in DocsIn(e.rows) : BlockOf(e.rows, d)
    /\ \A i, j \in DOMAIN e.invoices : i < j => Before(e.invoices[i].doc, e.invoices[j].doc)
    /\ RowsComeFirst(e)

WholeInv == \A x \in Exporters : Whole(export[x])

LEMMA BlockTyped ==
  ASSUME NEW d \in Documents, NEW c \in Contents
  PROVE  LET block == RowsOf([doc |-> d, content |-> c], ItemsOf[c])
         IN  block \in Seq(Row) /\ \A k \in DOMAIN block : block[k].doc = d
<1> DEFINE inv == [doc |-> d, content |-> c]
<1>1. inv.doc = d /\ inv.content = c
  OBVIOUS
<1> HIDE DEF inv
<1>2. /\ RowsOf(inv, ItemsOf[c]) \in Seq(Row)
      /\ \A k \in DOMAIN RowsOf(inv, ItemsOf[c]) : RowsOf(inv, ItemsOf[c])[k].doc = d
  BY <1>1, RowsTyped
<1> QED
  BY <1>2 DEF inv

\* The block of the invoice that is flattened next.
LEMMA AppendBlock ==
  ASSUME NEW rows \in Seq(Row), NEW d \in Documents, NEW c \in Contents,
         invoice[d] = c, d \notin DocsIn(rows),
         \A e \in DocsIn(rows) : e \in Documents /\ invoice[e] \in Contents
  PROVE  LET new == RowsOf([doc |-> d, content |-> c], ItemsOf[c])
         IN  /\ BlockOf(rows \o new, d)
             /\ \A e \in DocsIn(rows) : BlockOf(rows, e) => BlockOf(rows \o new, e)
<1> DEFINE new == RowsOf([doc |-> d, content |-> c], ItemsOf[c])
           all == rows \o new
<1>1. /\ new \in Seq(Row)
      /\ \A k \in DOMAIN new : new[k].doc = d
  BY BlockTyped
<1>2. new = RowsOf([doc |-> d, content |-> invoice[d]], ItemsOf[invoice[d]])
  OBVIOUS
<1> HIDE DEF new
<1>3. /\ Len(rows) \in Nat /\ Len(new) \in Nat /\ Len(all) = Len(rows) + Len(new)
      /\ DOMAIN rows = 1..Len(rows) /\ DOMAIN new = 1..Len(new)
      /\ DOMAIN all = 1..(Len(rows) + Len(new))
      /\ \A i \in 1..Len(rows) : all[i] = rows[i]
      /\ \A k \in 1..Len(new) : all[Len(rows) + k] = new[k]
  BY <1>1, ConcatProperties
<1> HIDE DEF all
<1>4. \A i \in DOMAIN all : i > Len(rows) => all[i].doc = d
  <2> SUFFICES ASSUME NEW i \in DOMAIN all, i > Len(rows) PROVE all[i].doc = d
    OBVIOUS
  <2>1. i - Len(rows) \in 1..Len(new) /\ i = Len(rows) + (i - Len(rows))
    BY <1>3
  <2> QED
    BY <1>1, <1>3, <2>1
<1>5. \A i \in DOMAIN rows : rows[i].doc # d
  BY DEF DocsIn
<1>6. {i \in DOMAIN all : all[i].doc = d} = (Len(rows) + 1)..(Len(rows) + Len(new))
  BY <1>3, <1>4, <1>5
<1>7. BlockOf(all, d)
  <2>1. Len(rows) \in 0..Len(all)
    BY <1>3
  <2> QED
    BY <1>2, <1>3, <1>6, <2>1 DEF BlockOf
<1>8. ASSUME NEW e \in DocsIn(rows), BlockOf(rows, e)
      PROVE  BlockOf(all, e)
  <2> DEFINE block == RowsOf([doc |-> e, content |-> invoice[e]], ItemsOf[invoice[e]])
  <2>1. PICK s \in 0..Len(rows) :
          /\ {i \in DOMAIN rows : rows[i].doc = e} = (s + 1)..(s + Len(block))
          /\ \A k \in DOMAIN block : rows[s + k] = block[k]
    BY <1>8 DEF BlockOf
  <2>2. e # d
    BY DEF DocsIn
  <2>3. {i \in DOMAIN all : all[i].doc = e} = {i \in DOMAIN rows : rows[i].doc = e}
    BY <1>3, <1>4, <2>2
  <2>4. DOMAIN block = 1..Len(block) /\ Len(block) \in Nat
    <3>1. block \in Seq(Row)
      BY BlockTyped
    <3> QED
      BY <3>1
  <2> HIDE DEF block
  <2>5. ASSUME NEW k \in DOMAIN block
        PROVE  all[s + k] = block[k]
    <3>1. s + k \in (s + 1)..(s + Len(block))
      BY <1>3, <2>4
    <3>2. s + k \in DOMAIN rows
      BY <2>1, <3>1
    <3> QED
      BY <1>3, <2>1, <3>2
  <2>6. s \in 0..Len(all)
    BY <1>3
  <2> QED
    BY <2>1, <2>3, <2>5, <2>6 DEF BlockOf, block
<1> QED
  BY <1>7, <1>8 DEF all, new

LEMMA FlattenedWhole ==
  ASSUME TypeOK, ApprovedStays, NEW e, ApprovedExport(e), Whole(e),
         e.pc = "items", e.invoices # <<>>
  PROVE  Whole(Flattened(e))
<1> DEFINE inv  == Head(e.invoices)
           rest == Tail(e.invoices)
           d    == inv.doc
           new  == RowsOf(inv, ItemsOf[invoice[inv.doc]])
           f    == Flattened(e)
<1>1. e.invoices \in Seq(Held) /\ e.rows \in Seq(Row)
  BY DEF ApprovedExport, Export
<1>2. /\ inv = e.invoices[1] /\ 1 \in DOMAIN e.invoices
      /\ \A i \in DOMAIN rest :
           i \in Nat /\ i > 0 /\ i + 1 \in DOMAIN e.invoices /\ rest[i] = e.invoices[i + 1]
  BY <1>1, HeadTailProperties
<1>3. d \in Documents
  BY <1>1, <1>2 DEF Held
<1>4. HeldInvoice(e, inv)
  BY <1>2 DEF ApprovedExport
<1>5. /\ \A i, j \in DOMAIN e.invoices : i < j => Before(e.invoices[i].doc, e.invoices[j].doc)
      /\ RowsComeFirst(e) /\ InOrder(e.rows)
      /\ \A c \in DocsIn(e.rows) : BlockOf(e.rows, c)
  BY DEF Whole
<1>6. /\ f.pc = e.pc /\ f.org = e.org /\ f.since = e.since
      /\ f.invoices = rest /\ f.rows = e.rows \o new
  BY DEF Flattened
<1>7. /\ \A i, j \in DOMAIN rest : i < j => Before(rest[i].doc, rest[j].doc)
      /\ \A j \in DOMAIN rest : Before(d, rest[j].doc)
      /\ \A i \in DOMAIN e.rows : Before(e.rows[i].doc, d)
      /\ \A i \in DOMAIN e.rows, j \in DOMAIN rest : Before(e.rows[i].doc, rest[j].doc)
  <2>1. \A i, j \in DOMAIN rest : i < j => Before(rest[i].doc, rest[j].doc)
    BY <1>2, <1>5
  <2>2. \A j \in DOMAIN rest : Before(d, rest[j].doc)
    BY <1>2, <1>5
  <2> QED
    BY <1>2, <1>5, <2>1, <2>2 DEF RowsComeFirst
<1> HIDE DEF inv, rest
<1>8. inv.content = invoice[d] /\ invoice[d] \in Contents
  BY <1>3, <1>4, ExportAssumption DEF HeldInvoice, ApprovedStays
<1>9. new = RowsOf([doc |-> d, content |-> invoice[d]], ItemsOf[invoice[d]])
  BY <1>8 DEF RowsOf
<1>10. \A c \in DocsIn(e.rows) : c \in Documents /\ invoice[c] \in Contents
  <2> SUFFICES ASSUME NEW i \in DOMAIN e.rows
               PROVE  e.rows[i].doc \in Documents /\ invoice[e.rows[i].doc] \in Contents
    BY DEF DocsIn
  <2>1. e.rows[i] \in Row /\ RowIsApproved(e.org, e.rows[i])
    BY <1>1 DEF ApprovedExport
  <2> QED
    BY <2>1, ExportAssumption DEF Row, RowIsApproved
<1>11. d \notin DocsIn(e.rows)
  BY <1>3, <1>7 DEF DocsIn, Before, TypeOK
<1>12. /\ new \in Seq(Row) /\ \A k \in DOMAIN new : new[k].doc = d
       /\ BlockOf(e.rows \o new, d)
       /\ \A c \in DocsIn(e.rows) : BlockOf(e.rows \o new, c)
  BY <1>1, <1>3, <1>5, <1>8, <1>9, <1>10, <1>11, BlockTyped, AppendBlock
<1> HIDE DEF new, f, d
<1>13. /\ Len(e.rows) \in Nat /\ DOMAIN e.rows = 1..Len(e.rows)
       /\ \A i \in DOMAIN (e.rows \o new) :
            \/ i \in DOMAIN e.rows /\ (e.rows \o new)[i] = e.rows[i]
            \/ i > Len(e.rows) /\ i \in Nat /\ (e.rows \o new)[i].doc = d
  <2>1. /\ DOMAIN (e.rows \o new) = 1..(Len(e.rows) + Len(new))
        /\ Len(e.rows) \in Nat /\ Len(new) \in Nat
        /\ DOMAIN e.rows = 1..Len(e.rows) /\ DOMAIN new = 1..Len(new)
        /\ \A i \in 1..Len(e.rows) : (e.rows \o new)[i] = e.rows[i]
        /\ \A k \in 1..Len(new) : (e.rows \o new)[Len(e.rows) + k] = new[k]
    BY <1>1, <1>12, ConcatProperties
  <2>2. ASSUME NEW i \in DOMAIN (e.rows \o new), i > Len(e.rows)
        PROVE  (e.rows \o new)[i].doc = d
    <3>1. i - Len(e.rows) \in 1..Len(new) /\ i = Len(e.rows) + (i - Len(e.rows))
      BY <2>1, <2>2
    <3> QED
      BY <1>12, <2>1, <3>1
  <2> QED
    BY <2>1, <2>2
<1>14. InOrder(f.rows)
  <2> SUFFICES ASSUME NEW i \in DOMAIN (e.rows \o new), NEW j \in DOMAIN (e.rows \o new), i < j
               PROVE  approvedAt[(e.rows \o new)[i].doc] <= approvedAt[(e.rows \o new)[j].doc]
    BY <1>6 DEF InOrder
  <2>1. CASE j \in DOMAIN e.rows
    BY <1>5, <1>13, <2>1 DEF InOrder
  <2>2. CASE i \in DOMAIN e.rows /\ j \notin DOMAIN e.rows
    <3>1. (e.rows \o new)[i] = e.rows[i] /\ (e.rows \o new)[j].doc = d
      BY <1>13, <2>2
    <3>2. approvedAt[e.rows[i].doc] < approvedAt[d]
      BY <1>7, <2>2 DEF Before
    <3>3. approvedAt[e.rows[i].doc] \in Nat /\ approvedAt[d] \in Nat
      BY <1>3, <1>10, <2>2 DEF TypeOK, DocsIn
    <3> QED
      BY <3>1, <3>2, <3>3
  <2>3. CASE i \notin DOMAIN e.rows /\ j \notin DOMAIN e.rows
    BY <1>3, <1>13, <2>3 DEF TypeOK
  <2> QED
    BY <1>13, <2>1, <2>2, <2>3
<1>15. RowsComeFirst(f)
  BY <1>6, <1>7, <1>13 DEF RowsComeFirst
<1>16. \A c \in DocsIn(f.rows) : BlockOf(f.rows, c)
  <2>1. \A c \in DocsIn(e.rows \o new) : c = d \/ c \in DocsIn(e.rows)
    BY <1>13 DEF DocsIn
  <2> QED
    BY <1>6, <1>12, <2>1
<1>17. Whole(f)
  BY <1>6, <1>7, <1>14, <1>15, <1>16 DEF Whole
<1> QED
  BY <1>17 DEF f

\* The documents an export is about were approved, so nothing that is written
\* changes their invoices or the order of their approvals.
LEMMA WriteKeepsWhole ==
  ASSUME TypeOK, ExportInv, WholeInv, Write
  PROVE  WholeInv'
<1>1. export' = export
  BY DEF Write
<1>2. \A d \in Documents :
        verdict[d] = "approved" => invoice'[d] = invoice[d] /\ approvedAt'[d] = approvedAt[d]
  BY WriteKeepsApproved DEF ExportInv, Write
<1>3. ASSUME NEW x \in Exporters
      PROVE  Whole(export[x])'
  <2> DEFINE e == export[x]
  <2>1. e.rows \in Seq(Row) /\ e.invoices \in Seq(Held)
    BY DEF TypeOK, Export
  <2>2. \A i \in DOMAIN e.rows :
          /\ invoice'[e.rows[i].doc] = invoice[e.rows[i].doc]
          /\ approvedAt'[e.rows[i].doc] = approvedAt[e.rows[i].doc]
    <3> SUFFICES ASSUME NEW i \in DOMAIN e.rows
                 PROVE  e.rows[i].doc \in Documents /\ verdict[e.rows[i].doc] = "approved"
      BY <1>2
    <3>1. e.rows[i] \in Row
      BY <2>1
    <3> QED
      BY <3>1 DEF Row, ExportInv, ExportedIsApproved, RowIsApproved
  <2>3. \A i \in DOMAIN e.invoices : approvedAt'[e.invoices[i].doc] = approvedAt[e.invoices[i].doc]
    <3> SUFFICES ASSUME NEW i \in DOMAIN e.invoices
                 PROVE  /\ e.invoices[i].doc \in Documents
                        /\ verdict[e.invoices[i].doc] = "approved"
      BY <1>2
    <3>1. e.invoices[i] \in Held
      BY <2>1
    <3> QED
      BY <3>1 DEF Held, ExportInv, HeldIsApproved, HeldInvoice
  <2> SUFFICES ASSUME e.pc \in {"items", "done"} PROVE Whole(export[x])'
    BY <1>1 DEF Whole
  <2>4. Whole(e)
    BY DEF WholeInv
  <2>5. InOrder(e.rows)'
    BY <1>1, <2>2, <2>4 DEF Whole, InOrder
  <2>6. ASSUME NEW d \in DocsIn(e.rows)
        PROVE  BlockOf(e.rows, d)'
    <3>1. invoice'[d] = invoice[d] /\ BlockOf(e.rows, d)
      BY <2>2, <2>4 DEF Whole, DocsIn
    <3> QED
      BY <1>1, <3>1 DEF BlockOf
  <2>7. /\ (\A i, j \in DOMAIN e.invoices :
              i < j => Before(e.invoices[i].doc, e.invoices[j].doc))'
        /\ RowsComeFirst(e)'
    BY <1>1, <2>2, <2>3, <2>4 DEF Whole, RowsComeFirst, Before
  <2> QED
    BY <1>1, <2>5, <2>6, <2>7 DEF Whole, DocsIn
<1> QED
  BY <1>1, <1>3 DEF WholeInv

LEMMA WholeStays ==
  ASSUME UNCHANGED <<workflowVars, approvedAt>>,
         NEW x \in Exporters, NEW e, Whole(e), export'[x] = e
  PROVE  Whole(export[x])'
<1>1. invoice' = invoice /\ approvedAt' = approvedAt
  BY DEF workflowVars
<1> SUFFICES ASSUME e.pc \in {"items", "done"} PROVE Whole(export[x])'
  BY DEF Whole
<1>2. (\A d \in DocsIn(export[x].rows) : BlockOf(export[x].rows, d))'
  <2> SUFFICES ASSUME NEW d \in DocsIn(e.rows) PROVE BlockOf(export[x].rows, d)'
    BY DEF DocsIn
  <2>1. BlockOf(e.rows, d)
    BY DEF Whole
  <2> QED
    BY <1>1, <2>1 DEF BlockOf
<1>3. (/\ InOrder(export[x].rows) /\ RowsComeFirst(export[x])
       /\ \A i, j \in DOMAIN export[x].invoices :
            i < j => Before(export[x].invoices[i].doc, export[x].invoices[j].doc))'
  BY <1>1 DEF Whole, InOrder, RowsComeFirst, Before
<1> QED
  BY <1>2, <1>3 DEF Whole

LEMMA WholeMoves ==
  ASSUME TypeOK, WholeInv, UNCHANGED <<workflowVars, approvedAt>>,
         NEW x \in Exporters, NEW e, Whole(e), export' = [export EXCEPT ![x] = e]
  PROVE  WholeInv'
<1>1. \A y \in Exporters : export'[y] = IF y = x THEN e ELSE export[y]
  BY DEF TypeOK
<1>2. \A y \in Exporters : Whole(export[y])'
  BY <1>1, WholeStays DEF WholeInv
<1> QED
  BY <1>2 DEF WholeInv

\* An export without rows is whole if what it holds on to is in order.
LEMMA NewExportWhole ==
  ASSUME NEW pc, NEW org, NEW since, NEW invoices,
         pc = "items" =>
           \A i, j \in DOMAIN invoices : i < j => Before(invoices[i].doc, invoices[j].doc),
         pc # "done"
  PROVE  Whole(NewExport(pc, org, since, invoices))
<1> DEFINE e == NewExport(pc, org, since, invoices)
<1>1. e.pc = pc /\ e.invoices = invoices /\ e.rows = <<>>
  BY DEF NewExport
<1>2. \A i \in DOMAIN <<>> : FALSE
  OBVIOUS
<1> HIDE DEF e
<1>3. InOrder(e.rows) /\ RowsComeFirst(e) /\ DocsIn(e.rows) = {}
  BY <1>1, <1>2 DEF InOrder, RowsComeFirst, DocsIn
<1>4. Whole(e)
  BY <1>1, <1>3 DEF Whole
<1> QED
  BY <1>4 DEF e

LEMMA ExportStepWhole ==
  ASSUME TypeOK, ExportInv, WholeInv, NEW x \in Exporters, ExportStep(x)
  PROVE  WholeInv'
<1>1. Whole(export[x])
  BY DEF WholeInv
<1>2. Whole(NoExport)
  BY NewExportWhole DEF NoExport
<1>3. ASSUME NEW org \in Organizations, NEW d \in Documents, BeginSingle(x, org, d)
      PROVE  WholeInv'
  <2>1. Whole(NewExport("invoice", org, 0, <<[doc |-> d]>>))
    BY NewExportWhole
  <2> QED
    BY <1>3, <2>1, WholeMoves DEF BeginSingle
<1>4. CASE LoadInvoice(x)
  <2> DEFINE d == export[x].invoices[1].doc
             list == <<d>>
  <2>1. DOMAIN WithContent(list) = {1}
    BY DEF WithContent
  <2>2. Whole(NewExport("items", export[x].org, 0, WithContent(list)))
    BY <2>1, NewExportWhole
  <2>3. CASE invoice[d] = NoDraft
    BY <1>2, <1>4, <2>3, WholeMoves DEF LoadInvoice
  <2>4. CASE invoice[d] # NoDraft
    BY <1>4, <2>2, <2>4, WholeMoves DEF LoadInvoice
  <2> QED
    BY <2>3, <2>4
<1>5. ASSUME NEW org \in Organizations, ListInvoices(x, org)
      PROVE  WholeInv'
  <2>1. PICK list \in Listings(org) :
          export' = [export EXCEPT ![x] = NewExport("items", org, Approvals, WithContent(list))]
    BY <1>5 DEF ListInvoices
  <2>2. list \in Seq(Documents) /\ \A i \in DOMAIN list : invoice[list[i]] # NoDraft
    BY ListingTyped DEF Exportable
  <2>3. /\ DOMAIN WithContent(list) = DOMAIN list
        /\ \A i \in DOMAIN list : WithContent(list)[i].doc = list[i]
    BY <2>2, WithContentHeld
  <2>4. \A i, j \in DOMAIN list : i < j => Before(list[i], list[j])
    BY DEF Listings
  <2>5. Whole(NewExport("items", org, Approvals, WithContent(list)))
    BY <2>3, <2>4, NewExportWhole
  <2> QED
    BY <1>5, <2>1, <2>5, WholeMoves DEF ListInvoices
<1>6. CASE FlattenNext(x)
  <2>1. Whole(Flattened(export[x]))
    BY <1>1, <1>6, CurrentExport, FlattenedWhole DEF FlattenNext, ExportInv
  <2> QED
    BY <1>6, <2>1, WholeMoves DEF FlattenNext
<1>7. CASE Deliver(x)
  <2> DEFINE e == [export[x] EXCEPT !.pc = "done"]
  <2>1. export[x] \in Export /\ export[x].pc = "items"
    BY <1>7 DEF Deliver, TypeOK
  <2>2. e.pc = "done" /\ e.invoices = export[x].invoices /\ e.rows = export[x].rows
    BY <2>1 DEF Export
  <2>3. export' = [export EXCEPT ![x] = e]
    BY <1>7 DEF Deliver
  <2> HIDE DEF e
  <2>4. Whole(e)
    BY <1>1, <2>1, <2>2 DEF Whole, RowsComeFirst
  <2> QED
    BY <1>7, <2>3, <2>4, WholeMoves DEF Deliver
<1>8. CASE ExportFails(x)
  BY <1>2, <1>8, WholeMoves DEF ExportFails
<1> QED
  BY <1>3, <1>4, <1>5, <1>6, <1>7, <1>8 DEF ExportStep

\* A file has the rows of each of its invoices together, in the order of the
\* line items and all from the same state of the invoice, and the invoices in
\* the order of their approvals, whatever is written while the rows are made.
THEOREM FileIsWholeAlways == ExportSpec => []FileIsWhole
<1>1. ExportInit => WholeInv
  <2> SUFFICES ASSUME ExportInit PROVE WholeInv
    OBVIOUS
  <2>1. Whole(NoExport)
    BY NewExportWhole DEF NoExport
  <2> QED
    BY <2>1 DEF ExportInit, WholeInv
<1>2. TypeOK /\ ExportInv /\ WholeInv /\ [ExportNext]_exportVars => WholeInv'
  <2> SUFFICES ASSUME TypeOK, ExportInv, WholeInv, [ExportNext]_exportVars PROVE WholeInv'
    OBVIOUS
  <2>1. CASE UNCHANGED exportVars
    <3>1. UNCHANGED <<workflowVars, approvedAt>> /\ export' = export
      BY <2>1 DEF exportVars
    <3> QED
      BY <3>1, WholeStays DEF WholeInv
  <2> QED
    BY <2>1, WriteKeepsWhole, ExportStepWhole DEF ExportNext
<1>3. WholeInv => FileIsWhole
  BY DEF WholeInv, Whole, FileIsWhole
<1> QED
  BY <1>1, <1>2, <1>3, ExportInvAlways, PTL DEF ExportSpec
=============================================================================
