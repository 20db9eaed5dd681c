-------------------------- MODULE InvoiceReviewProofs --------------------------
(***************************************************************************)
(* InvoiceReview, for any drafts, patches and units.  ReviewInv, with what *)
(* the rows hold and what rounding does, is for any number of processes;   *)
(* that answers are current, that an approved invoice adds up, and that    *)
(* the invoice follows its edits and the workflow, takes one.              *)
(***************************************************************************)
EXTENDS InvoiceReview, TLAPS

(* Rounding to the cent.                                                   *)

LEMMA Rounds ==
  ASSUME NEW step \in Nat \ {0}, NEW x \in Int
  PROVE  \E k \in Int : /\ Round(step, x) = step * k
                        /\ 2 * (Round(step, x) - x) <= step
                        /\ 2 * (Round(step, x) - x) >= -step
<1>1. ASSUME NEW y \in Nat
      PROVE  \E k \in Int : /\ RoundUpHalf(step, y) = step * k
                            /\ 2 * (RoundUpHalf(step, y) - y) <= step
                            /\ 2 * (RoundUpHalf(step, y) - y) >= -step
  <2> DEFINE q == y \div step
             r == y % step
  <2>1. /\ q \in Int /\ r \in 0..(step - 1)
        /\ y = step * q + r
    OBVIOUS
  <2>2. RoundUpHalf(step, y) = IF 2 * r < step THEN y - r ELSE y - r + step
    BY DEF RoundUpHalf
  <2> HIDE DEF q, r
  <2>3. PICK m \in Int : m = step * q /\ m + step = step * (q + 1)
    BY <2>1
  <2>4. y = m + r /\ q + 1 \in Int /\ r \in Int /\ 0 <= r /\ r < step
    BY <2>1, <2>3
  <2>5. CASE 2 * r < step
    <3>1. RoundUpHalf(step, y) = m
      BY <2>2, <2>4, <2>5
    <3>2. 2 * (m - y) <= step /\ 2 * (m - y) >= -step
      BY <2>4, <2>5
    <3> QED
      BY <2>1, <2>3, <3>1, <3>2
  <2>6. CASE ~(2 * r < step)
    <3>1. RoundUpHalf(step, y) = m + step
      BY <2>2, <2>4, <2>6
    <3>2. 2 * (m + step - y) <= step /\ 2 * (m + step - y) >= -step
      BY <2>4, <2>6
    <3>3. PICK k \in Int : m + step = step * k
      BY <2>3, <2>4
    <3> QED
      BY <3>1, <3>2, <3>3
  <2> QED
    BY <2>5, <2>6
<1>2. CASE x >= 0
  <2>1. x \in Nat /\ Round(step, x) = RoundUpHalf(step, x)
    BY <1>2 DEF Round
  <2> QED
    BY <1>1, <2>1
<1>3. CASE x < 0
  <2>1. -x \in Nat /\ Round(step, x) = -RoundUpHalf(step, -x)
    BY <1>3 DEF Round
  <2>2. PICK k \in Int : /\ RoundUpHalf(step, -x) = step * k
                         /\ 2 * (RoundUpHalf(step, -x) - (-x)) <= step
                         /\ 2 * (RoundUpHalf(step, -x) - (-x)) >= -step
    BY <1>1, <2>1
  <2>3. step * k \in Int /\ -(step * k) = step * (-k) /\ -k \in Int
    OBVIOUS
  <2>4. 2 * (Round(step, x) - x) <= step /\ 2 * (Round(step, x) - x) >= -step
    BY <2>1, <2>2, <2>3
  <2>5. Round(step, x) = step * (-k)
    BY <2>1, <2>2, <2>3
  <2> QED
    BY <2>3, <2>4, <2>5
<1> QED
  BY <1>2, <1>3

LEMMA RoundIsMultiple ==
  ASSUME NEW step \in Nat \ {0}, NEW x \in Int
  PROVE  Round(step, x) \in Int /\ Round(step, x) % step = 0
<1>1. PICK k \in Int : Round(step, x) = step * k
  BY Rounds
<1>2. step * k \in Int /\ (step * k) % step = 0
  OBVIOUS
<1> QED
  BY <1>1, <1>2

LEMMA DivisionIs ==
  ASSUME NEW x \in Int, NEW step \in Nat \ {0}
  PROVE  x \div step \in Int /\ x = step * (x \div step) + (x % step)
OBVIOUS

\* What is a multiple already is not rounded.
LEMMA MultipleIsKept ==
  ASSUME NEW step \in Nat \ {0}, NEW x \in Int, x % step = 0
  PROVE  Round(step, x) = x
<1>1. PICK k \in Int : x = step * k
  <2>1. /\ x \div step \in Int
        /\ x = step * (x \div step) + (x % step)
    BY DivisionIs
  <2>2. step * (x \div step) \in Int /\ x = step * (x \div step) + 0
    BY <2>1
  <2>3. x = step * (x \div step)
    BY <2>2
  <2> QED
    BY <2>1, <2>3, Zenon
<1>2. (-x) % step = 0
  <2>1. -(step * k) = step * (-k) /\ -k \in Int
    OBVIOUS
  <2>2. (step * (-k)) % step = 0
    BY <2>1
  <2> QED
    BY <1>1, <2>1, <2>2
<1> QED
  BY <1>2 DEF Round, RoundUpHalf

LEMMA StoredMoneyIsCents ==
  ASSUME NEW x \in Number
  PROVE  /\ StoredMoney(x) \in Number
         /\ InCents(StoredMoney(x))
BY RoundIsMultiple, UnitAssumption DEF StoredMoney, Number, InCents

LEMMA StoredQuantityTyped ==
  ASSUME NEW x \in Number
  PROVE  /\ StoredQuantity(x) \in Number
         /\ StoredQuantity(x) # NULL => StoredQuantity(x) % QuantityStep = 0
BY RoundIsMultiple, UnitAssumption DEF StoredQuantity, Number

\* Three roundings together are off by no more than a cent and a half, and
\* what they leave is whole cents.
LEMMA WholeCents ==
  ASSUME NEW k \in Int, 2 * (Cent * k) <= 3 * Cent, 2 * (Cent * k) >= -(3 * Cent)
  PROVE  Cent * k <= Cent /\ Cent * k >= -Cent
<1>0. Cent \in Nat \ {0}
  BY UnitAssumption
<1>1. k <= 1
  <2> SUFFICES ASSUME k >= 2 PROVE FALSE
    OBVIOUS
  <2>1. Cent * k >= Cent * 2
    BY <1>0
  <2> QED
    BY <1>0, <2>1
<1>2. k >= -1
  <2> SUFFICES ASSUME k <= -2 PROVE FALSE
    OBVIOUS
  <2>1. Cent * k <= Cent * (-2)
    BY <1>0
  <2> QED
    BY <1>0, <2>1
<1> QED
  BY <1>0, <1>1, <1>2

LEMMA RoundedSum ==
  ASSUME NEW a \in Int, NEW b \in Int
  PROVE  Abs(Round(Cent, a) + Round(Cent, b) - Round(Cent, a + b)) <= Cent
<1>0. Cent \in Nat \ {0}
  BY UnitAssumption
<1> DEFINE ra == Round(Cent, a)
           rb == Round(Cent, b)
           rc == Round(Cent, a + b)
<1>1. PICK i \in Int : /\ ra = Cent * i
                       /\ 2 * (ra - a) <= Cent /\ 2 * (ra - a) >= -Cent
  BY <1>0, Rounds
<1>2. PICK j \in Int : /\ rb = Cent * j
                       /\ 2 * (rb - b) <= Cent /\ 2 * (rb - b) >= -Cent
  BY <1>0, Rounds
<1>3. a + b \in Int
  OBVIOUS
<1>4. PICK k \in Int : /\ rc = Cent * k
                       /\ 2 * (rc - (a + b)) <= Cent /\ 2 * (rc - (a + b)) >= -Cent
  BY <1>0, <1>3, Rounds
<1> HIDE DEF ra, rb, rc
<1>5. /\ ra \in Int /\ rb \in Int /\ rc \in Int
      /\ ra + rb - rc = Cent * (i + j - k) /\ i + j - k \in Int
  BY <1>0, <1>1, <1>2, <1>4
<1>6. 2 * (ra + rb - rc) <= 3 * Cent /\ 2 * (ra + rb - rc) >= -(3 * Cent)
  BY <1>0, <1>1, <1>2, <1>4, <1>5
<1>7. ra + rb - rc <= Cent /\ ra + rb - rc >= -Cent
  BY <1>5, <1>6, WholeCents
<1> QED
  BY <1>0, <1>5, <1>7 DEF Abs, ra, rb, rc

----------------------------------------------------------------------------
(* Rows.                                                                   *)

\* What the tables may hold: numbers of the columns' last digits.
RowStored(row) ==
  /\ row \in Row
  /\ InCents(row.unit_price) /\ InCents(row.amount)
  /\ row.quantity # NULL => row.quantity % QuantityStep = 0

RowsAreStored(inv) ==
  /\ inv = [f \in Fields |-> inv[f]]
  /\ \A f \in MoneyFields : inv[f] \in Number /\ InCents(inv[f])
  /\ \A row \in inv.line_items : RowStored(row)

\* ... and within the columns' limits.
StoredType(inv) ==
  /\ RowsAreStored(inv)
  /\ \A f \in MoneyFields : Fits(inv[f], MaxMoney)
  /\ \A row \in inv.line_items : RowFits(row)

LEMMA RowsTyped ==
  ASSUME NEW list \in Seq(LineItem), NEW n \in Nat
  PROVE  \A row \in Rows(list, n) : RowStored(row)
<1> SUFFICES ASSUME NEW i \in DOMAIN list
             PROVE  RowStored([ commit     |-> n,
                                order      |-> i - 1,
                                quantity   |-> StoredQuantity(list[i].quantity),
                                unit_price |-> StoredMoney(list[i].unit_price),
                                amount     |-> StoredMoney(list[i].amount) ])
  BY DEF Rows
<1>1. list[i] \in LineItem /\ i - 1 \in Nat
  OBVIOUS
<1>2. /\ list[i].quantity \in Number /\ list[i].unit_price \in Number
      /\ list[i].amount \in Number
  BY <1>1 DEF LineItem
<1>3. PICK q, p, a :
        /\ q = StoredQuantity(list[i].quantity) /\ p = StoredMoney(list[i].unit_price)
        /\ a = StoredMoney(list[i].amount)
  OBVIOUS
<1>4. /\ q \in Number /\ p \in Number /\ a \in Number
      /\ InCents(p) /\ InCents(a) /\ (q # NULL => q % QuantityStep = 0)
  BY <1>2, <1>3, StoredMoneyIsCents, StoredQuantityTyped
<1>5. RowStored([commit |-> n, order |-> i - 1, quantity |-> q, unit_price |-> p, amount |-> a])
  BY <1>1, <1>4 DEF Row, RowStored
<1> QED
  BY <1>3, <1>5

LEMMA FieldsAre ==
  /\ MoneyFields \subseteq ScalarFields /\ ScalarFields \subseteq Fields
  /\ "line_items" \in Fields /\ "line_items" \notin ScalarFields
BY DEF MoneyFields, ScalarFields, Fields

LEMMA AllFitIsStored ==
  ASSUME NEW inv, RowsAreStored(inv), AllFit(inv)
  PROVE  StoredType(inv)
BY DEF AllFit, StoredType

LEMMA CurrentInvoice ==
  ASSUME TypeOK, InvoiceHasNumbers
  PROVE  StoredType(invoice)
BY DEF TypeOK, InvoiceHasNumbers, StoredType, RowsAreStored, RowStored

LEMMA DraftRowsStored ==
  ASSUME NEW d \in Drafts
  PROVE  RowsAreStored(DraftRows(d))
<1>1. d.line_items \in Seq(LineItem) /\ \A f \in MoneyFields : d[f] \in Number
  BY RequestAssumption
<1>2. \A row \in Rows(d.line_items, 1) : RowStored(row)
  BY <1>1, RowsTyped
<1>3. /\ DraftRows(d) = [f \in Fields |-> DraftRows(d)[f]]
      /\ DraftRows(d).line_items = Rows(d.line_items, 1)
      /\ \A f \in MoneyFields : DraftRows(d)[f] = StoredMoney(d[f])
  BY FieldsAre DEF DraftRows, StoredField
<1> QED
  BY <1>1, <1>2, <1>3, StoredMoneyIsCents DEF RowsAreStored

LEMMA EditedStored ==
  ASSUME RowsAreStored(invoice), NEW w \in Workers, call[w].patch \in Patches, NEW n \in Nat
  PROVE  RowsAreStored(Edited(invoice, call[w], n))
<1> DEFINE c == call[w]
           e == Edited(invoice, c, n)
<1>1. /\ DOMAIN c.patch \subseteq Fields
      /\ \A f \in DOMAIN c.patch \cap MoneyFields : c.patch[f] \in Number
      /\ "line_items" \in DOMAIN c.patch => c.patch.line_items \in Seq(LineItem) \cup {NULL}
  BY RequestAssumption
<1>2. e = [f \in Fields |-> e[f]]
  BY DEF Edited
<1>3. ASSUME NEW f \in MoneyFields
      PROVE  e[f] \in Number /\ InCents(e[f])
  <2>1. e[f] = IF Assigns(c, f) THEN StoredMoney(PatchValue(c.patch, f)) ELSE invoice[f]
    BY FieldsAre DEF Edited, StoredField
  <2>2. CASE Assigns(c, f)
    <3>1. PatchValue(c.patch, f) \in Number
      BY <1>1, <2>2 DEF Assigns, PatchValue
    <3> QED
      BY <2>1, <2>2, <3>1, StoredMoneyIsCents
  <2>3. CASE ~Assigns(c, f)
    BY <2>1, <2>3 DEF RowsAreStored
  <2> QED
    BY <2>2, <2>3
<1>4. \A row \in e.line_items : RowStored(row)
  <2>1. e.line_items =
          IF "line_items" \notin DOMAIN c.patch THEN invoice.line_items
          ELSE (invoice.line_items \ c.loaded.line_items)
                 \cup IF c.patch.line_items = NULL THEN {} ELSE Rows(c.patch.line_items, n)
    BY FieldsAre DEF Edited
  <2>2. ASSUME "line_items" \in DOMAIN c.patch, c.patch.line_items # NULL
        PROVE  \A row \in Rows(c.patch.line_items, n) : RowStored(row)
    BY <1>1, <2>2, RowsTyped
  <2>3. \A row \in invoice.line_items : RowStored(row)
    BY DEF RowsAreStored
  <2> HIDE DEF c, e
  <2> QED
    BY <2>1, <2>2, <2>3
<1> QED
  BY <1>2, <1>3, <1>4 DEF RowsAreStored

----------------------------------------------------------------------------
(* The steps, in any number of processes.                                  *)

\* What makes up ReviewInv once the calls are known to be in order.
LEMMA Reassembled ==
  ASSUME status \in ReviewStatus, StoredType(invoice), CallsHavePatches,
         told.known \in BOOLEAN, Len(log) <= MaxEdits + 1,
         LogBeginsWithDraft, DraftIsStored, QuietBeforeInvoice
  PROVE  ReviewInv
<1>1. \A w \in Workers : call[w].pc \in CallPC /\ DOMAIN call[w].patch \subseteq Fields
  <2> SUFFICES ASSUME NEW w \in Workers PROVE DOMAIN call[w].patch \subseteq Fields
    BY DEF CallsHavePatches
  <2>1. CASE call[w].patch \in Patches
    BY <2>1, RequestAssumption
  <2>2. CASE call[w].patch = <<>>
    <3>1. DOMAIN <<>> = {}
      OBVIOUS
    <3> QED
      BY <2>2, <3>1
  <2> QED
    BY <2>1, <2>2 DEF CallsHavePatches
<1>2. /\ \A f \in MoneyFields : InCents(invoice[f]) /\ Fits(invoice[f], MaxMoney)
      /\ \A row \in invoice.line_items : RowStored(row) /\ RowFits(row)
  BY DEF StoredType, RowsAreStored
<1>3. \A row \in invoice.line_items : row.order \in Nat
  BY <1>2 DEF RowStored, Row
<1>4. TypeOK
  BY <1>1, <1>2, <1>3 DEF TypeOK, RowStored
<1>5. InvoiceHasNumbers
  BY DEF InvoiceHasNumbers, StoredType, RowsAreStored, RowStored
<1> QED
  BY <1>4, <1>5 DEF ReviewInv

LEMMA ReassembledNext ==
  ( /\ status \in ReviewStatus /\ StoredType(invoice) /\ CallsHavePatches
    /\ told.known \in BOOLEAN /\ Len(log) <= MaxEdits + 1
    /\ LogBeginsWithDraft /\ DraftIsStored /\ QuietBeforeInvoice
    => ReviewInv )'
BY Reassembled, PTL

LEMMA NoCallIs ==
  /\ NoCall = [pc |-> "idle", patch |-> <<>>, loaded |-> NoInvoice]
  /\ NoCall.pc = "idle" /\ NoCall.patch = <<>> /\ "idle" \in CallPC /\ "idle" \notin EditPC
BY DEF NoCall, CallPC, EditPC

LEMMA InitReviewInv == Init => ReviewInv
<1> SUFFICES ASSUME Init PROVE ReviewInv
  OBVIOUS
<1>1. /\ NoInvoice = [f \in Fields |-> NoInvoice[f]] /\ NoInvoice.line_items = {}
      /\ \A f \in MoneyFields : NoInvoice[f] = NULL
  BY FieldsAre DEF NoInvoice
<1>2. StoredType(invoice)
  BY <1>1 DEF Init, StoredType, RowsAreStored, Number, InCents, Fits
<1>3. CallsHavePatches
  BY NoCallIs DEF Init, CallsHavePatches
<1>4. /\ status \in ReviewStatus /\ told.known \in BOOLEAN
      /\ log \in Seq(Drafts \cup Patches) /\ Len(log) = 0 /\ ~HasInvoice
  BY DEF Init, ReviewStatus, Silence, HasInvoice
<1>5. Len(log) <= MaxEdits + 1
  BY <1>4, RequestAssumption
<1>6. LogBeginsWithDraft /\ DraftIsStored
  BY <1>4 DEF LogBeginsWithDraft, DraftIsStored
<1>7. QuietBeforeInvoice
  BY <1>4 DEF Init, QuietBeforeInvoice
<1> QED
  BY <1>2, <1>3, <1>4, <1>5, <1>6, <1>7, Reassembled

\* What a call becomes, and that the other calls stay.
LEMMA CallAfter ==
  ASSUME CallsHavePatches, NEW w \in Workers, NEW p \in CallPC, NEW patch, NEW loaded,
         Put(w, p, patch, loaded), patch \in Patches \/ patch = <<>>,
         p \in EditPC => patch \in Patches
  PROVE  /\ CallsHavePatches' /\ call'[w] = [pc |-> p, patch |-> patch, loaded |-> loaded]
         /\ call'[w].pc = p /\ call'[w].patch = patch /\ call'[w].loaded = loaded
         /\ \A v \in Workers : v # w => call'[v] = call[v]
<1> DEFINE c == [pc |-> p, patch |-> patch, loaded |-> loaded]
<1>1. /\ DOMAIN c = {"pc", "patch", "loaded"} /\ c.pc = p /\ c.patch = patch /\ c.loaded = loaded
  OBVIOUS
<1>2. DOMAIN call' = Workers /\ \A v \in Workers : call'[v] = IF v = w THEN c ELSE call[v]
  BY DEF CallsHavePatches, Put
<1> HIDE DEF c
<1>3. CallsHavePatches'
  BY <1>1, <1>2 DEF CallsHavePatches
<1> QED
  BY <1>1, <1>2, <1>3 DEF c

LEMMA CallMoves ==
  ASSUME CallsHavePatches, NEW w \in Workers, NEW p \in CallPC, Goto(w, p),
         p \in EditPC => call[w].pc \in EditPC
  PROVE  /\ CallsHavePatches' /\ call'[w].pc = p /\ call'[w].patch = call[w].patch
         /\ call'[w].loaded = call[w].loaded
         /\ \A v \in Workers : v # w => call'[v] = call[v]
<1>1. /\ call[w].patch \in Patches \/ call[w].patch = <<>>
      /\ p \in EditPC => call[w].patch \in Patches
  BY DEF CallsHavePatches
<1> QED
  BY <1>1, CallAfter DEF Goto

LEMMA CallFinishes ==
  ASSUME CallsHavePatches, NEW w \in Workers, Finish(w)
  PROVE  /\ CallsHavePatches' /\ call'[w] = NoCall /\ call'[w].pc = "idle"
         /\ \A v \in Workers : v # w => call'[v] = call[v]
<1>1. Put(w, "idle", <<>>, NoInvoice)
  BY NoCallIs DEF Finish, Put
<1> QED
  BY <1>1, NoCallIs, CallAfter

\* A step that leaves the invoice and the log alone, once there is an invoice.
LEMMA QuietStep ==
  ASSUME ReviewInv, HasInvoice, UNCHANGED <<invoice, log>>,
         status' \in ReviewStatus \ {"EXTRACTING_DATA"}, CallsHavePatches',
         told'.known \in BOOLEAN
  PROVE  ReviewInv'
<1>1. StoredType(invoice') /\ Len(log') <= MaxEdits + 1
  BY CurrentInvoice DEF ReviewInv, TypeOK
<1>2. LogBeginsWithDraft' /\ DraftIsStored'
  BY DEF ReviewInv, LogBeginsWithDraft, DraftIsStored, HasInvoice, DraftRows
<1>3. QuietBeforeInvoice'
  BY DEF QuietBeforeInvoice, HasInvoice
<1> QED
  BY <1>1, <1>2, <1>3, ReassembledNext

LEMMA PersistDraftKeeps ==
  ASSUME ReviewInv, NEW w \in Workers, PersistDraft(w)
  PROVE  ReviewInv'
<1>1. PICK d \in Drafts :
        /\ AllFit(DraftRows(d)) /\ invoice' = DraftRows(d) /\ log' = <<d>>
        /\ status' = "VALIDATING_RESULT" /\ Goto(w, "validate") /\ UNCHANGED told
  BY DEF PersistDraft
<1>2. StoredType(invoice')
  BY <1>1, DraftRowsStored, AllFitIsStored
<1>3. CallsHavePatches' /\ told'.known \in BOOLEAN
  BY <1>1, CallMoves DEF CallPC, EditPC, ReviewInv, TypeOK
<1>4. /\ log' \in Seq(Drafts \cup Patches) /\ Len(log') = 1 /\ log'[1] = d /\ log' # <<>>
  BY <1>1
<1>5. Len(log') <= MaxEdits + 1 /\ status' \in ReviewStatus \ {"EXTRACTING_DATA"}
  BY <1>1, <1>4, RequestAssumption DEF ReviewStatus
<1>6. LogBeginsWithDraft' /\ QuietBeforeInvoice'
  BY <1>4, <1>5 DEF LogBeginsWithDraft, QuietBeforeInvoice, HasInvoice
<1>7. DraftIsStored'
  BY <1>1, <1>4 DEF DraftIsStored, DraftRows
<1> QED
  BY <1>2, <1>3, <1>5, <1>6, <1>7, ReassembledNext

LEMMA CommitEditKeeps ==
  ASSUME ReviewInv, NEW w \in Workers, CommitEdit(w)
  PROVE  ReviewInv'
<1>0. /\ TypeOK /\ InvoiceHasNumbers /\ CallsHavePatches /\ LogBeginsWithDraft
      /\ call[w].pc = "commit_edit" /\ MaxEdits \in Nat
  BY RequestAssumption DEF ReviewInv, CommitEdit
<1>1. HasInvoice /\ status # "EXTRACTING_DATA"
  BY <1>0, NoCallIs DEF ReviewInv, QuietBeforeInvoice
<1>2. call[w].patch \in Patches
  BY <1>0 DEF CallsHavePatches, EditPC
<1>3. Len(log) \in Nat /\ Len(log) >= 1 /\ log[1] \in Drafts
  BY <1>0, <1>1 DEF LogBeginsWithDraft, HasInvoice
<1>4. StoredType(invoice')
  <2>1. RowsAreStored(invoice)
    BY <1>0, CurrentInvoice DEF StoredType
  <2>2. RowsAreStored(Edited(invoice, call[w], Len(log) + 1))
    BY <1>2, <1>3, <2>1, EditedStored
  <2> QED
    BY <2>2, AllFitIsStored DEF CommitEdit
<1>5. CallsHavePatches'
  BY <1>0, CallMoves DEF CommitEdit, CallPC, EditPC
<1>6. /\ log' \in Seq(Drafts \cup Patches) /\ Len(log') = Len(log) + 1
      /\ log'[1] = log[1] /\ log' # <<>>
  BY <1>0, <1>2, <1>3 DEF CommitEdit, LogBeginsWithDraft
<1>7. Len(log') <= MaxEdits + 1 /\ Len(log') # 1
  BY <1>0, <1>3, <1>6 DEF CommitEdit
<1>8. status' \in ReviewStatus \ {"EXTRACTING_DATA"} /\ told'.known \in BOOLEAN
  BY <1>0, <1>1 DEF CommitEdit, TypeOK
<1>9. LogBeginsWithDraft' /\ DraftIsStored' /\ QuietBeforeInvoice'
  BY <1>3, <1>6, <1>7, <1>8 DEF LogBeginsWithDraft, DraftIsStored, QuietBeforeInvoice, HasInvoice
<1> QED
  BY <1>4, <1>5, <1>7, <1>8, <1>9, ReassembledNext

\* All other steps of a worker leave the invoice and the log alone.
LEMMA OtherSteps ==
  ASSUME ReviewInv, NEW w \in Workers, Step(w), ~PersistDraft(w), ~CommitEdit(w)
  PROVE  /\ HasInvoice /\ UNCHANGED <<invoice, log>>
         /\ status' \in ReviewStatus \ {"EXTRACTING_DATA"}
         /\ CallsHavePatches' /\ told'.known \in BOOLEAN
<1>0. /\ CallsHavePatches /\ told.known \in BOOLEAN /\ status \in ReviewStatus
      /\ status \notin {"EXTRACTING_DATA", "FAILED"} => HasInvoice
      /\ call[w] # NoCall => HasInvoice
      /\ HasInvoice => status # "EXTRACTING_DATA"
  BY DEF ReviewInv, TypeOK, QuietBeforeInvoice
<1>1. /\ UNCHANGED <<invoice, log>>
      /\ status' = status \/ status' \in {"REVIEW_REQUIRED", "FAILED", "APPROVED", "REJECTED"}
  BY DEF Step, RunValidation, ValidationFails, GetReview, BeginEdit, BeginApprove, BeginReject,
         LoadInvoice, LoadItems, RefreshInvoice, Answer, Gate, CommitApproval, CommitRejection,
         CommitDecision, CallEnds
<1>2. HasInvoice
  <2>1. CASE call[w] # NoCall
    BY <1>0, <2>1
  <2>2. CASE call[w] = NoCall
    <3>1. HasInvoice \/ status = "REVIEW_REQUIRED"
      BY <2>2, NoCallIs
         DEF Step, RunValidation, ValidationFails, GetReview, BeginEdit, BeginApprove,
             BeginReject, LoadInvoice, LoadItems, RefreshInvoice, Answer, Gate, CommitApproval,
             CommitRejection, CommitDecision, CallEnds
    <3> QED
      BY <1>0, <3>1
  <2> QED
    BY <2>1, <2>2
<1>3. told'.known \in BOOLEAN
  <2>1. UNCHANGED told \/ told' = Silence \/ \E e : told' = [known |-> TRUE, errors |-> e]
    BY DEF Step, RunValidation, ValidationFails, GetReview, BeginEdit, BeginApprove, BeginReject,
           LoadInvoice, LoadItems, RefreshInvoice, Answer, Gate, CommitApproval, CommitRejection,
           CommitDecision, CallEnds, Tell
  <2>2. Silence.known = FALSE /\ \A e : [known |-> TRUE, errors |-> e].known = TRUE
    BY DEF Silence
  <2> QED
    BY <1>0, <2>1, <2>2, Zenon
<1>4. CallsHavePatches'
  <2>0. Gate(w) => Finish(w) \/ Goto(w, "commit_approve")
    BY DEF Gate
  <2>1. CASE \/ ValidationFails(w) \/ Answer(w) \/ CommitApproval(w) \/ CommitRejection(w)
             \/ CallEnds(w) \/ Finish(w)
    <3>1. Finish(w)
      BY <2>1 DEF ValidationFails, Answer, CommitApproval, CommitRejection, CommitDecision, CallEnds
    <3> QED
      BY <1>0, <3>1, CallFinishes
  <2>2. CASE RunValidation(w) \/ BeginApprove(w) \/ BeginReject(w)
             \/ Goto(w, "commit_approve")
    <3>1. \E p \in {"refresh_document", "load_approve", "load_reject", "commit_approve"} :
            Goto(w, p)
      BY <2>2 DEF RunValidation, BeginApprove, BeginReject
    <3> QED
      BY <1>0, <3>1, CallMoves DEF CallPC, EditPC
  <2>3. CASE GetReview(w)
    <3>1. Put(w, "answer_review", <<>>, Scalars(invoice))
      BY <2>3 DEF GetReview
    <3> QED
      BY <1>0, <3>1, CallAfter DEF CallPC, EditPC
  <2>4. ASSUME NEW patch \in Patches, BeginEdit(w, patch) PROVE CallsHavePatches'
    <3>1. Put(w, "load_edit", patch, NoInvoice)
      BY <2>4 DEF BeginEdit
    <3> QED
      BY <1>0, <3>1, CallAfter DEF CallPC, EditPC
  <2>5. CASE LoadInvoice(w)
    <3> DEFINE p == AfterLoad(call[w])
    <3>1. Put(w, p, call[w].patch, Scalars(invoice))
      BY <2>5 DEF LoadInvoice
    <3>2. p \in CallPC /\ (p \in EditPC => call[w].pc \in EditPC)
      BY <2>5 DEF LoadInvoice, AfterLoad, CallPC, EditPC
    <3> HIDE DEF p
    <3>3. /\ call[w].patch \in Patches \/ call[w].patch = <<>>
          /\ p \in EditPC => call[w].patch \in Patches
      BY <1>0, <3>2 DEF CallsHavePatches
    <3> QED
      BY <1>0, <3>1, <3>2, <3>3, CallAfter
  <2>6. CASE LoadItems(w) \/ RefreshInvoice(w)
    <3>1. /\ call[w].pc \in EditPC
          /\ \E p \in {"commit_edit", "answer_edit"}, loaded \in {Filled(w), Scalars(invoice)} :
               Put(w, p, call[w].patch, loaded)
      BY <2>6 DEF LoadItems, RefreshInvoice, EditPC
    <3>2. call[w].patch \in Patches
      BY <1>0, <3>1 DEF CallsHavePatches
    <3> QED
      BY <1>0, <3>1, <3>2, CallAfter DEF CallPC, EditPC
  <2> QED
    BY <2>0, <2>1, <2>2, <2>3, <2>4, <2>5, <2>6 DEF Step
<1> QED
  BY <1>0, <1>1, <1>2, <1>3, <1>4 DEF ReviewStatus

LEMMA ReviewInvStep == ReviewInv /\ [Next]_vars => ReviewInv'
<1> SUFFICES ASSUME ReviewInv, [Next]_vars PROVE ReviewInv'
  OBVIOUS
<1>1. ASSUME NEW w \in Workers, Step(w), ~PersistDraft(w), ~CommitEdit(w) PROVE ReviewInv'
  BY <1>1, OtherSteps, QuietStep
<1>2. CASE DraftFails \/ UNCHANGED vars
  <2>1. UNCHANGED <<invoice, call, told, log>> /\ status' \in {status, "FAILED"}
    BY <1>2 DEF DraftFails, vars
  <2>2. /\ StoredType(invoice') /\ Len(log') <= MaxEdits + 1 /\ told'.known \in BOOLEAN
        /\ status' \in ReviewStatus
    BY <2>1, CurrentInvoice DEF ReviewInv, TypeOK, ReviewStatus
  <2>3. CallsHavePatches' /\ LogBeginsWithDraft' /\ DraftIsStored'
    BY <2>1 DEF ReviewInv, CallsHavePatches, LogBeginsWithDraft, DraftIsStored, HasInvoice, DraftRows
  <2>4. QuietBeforeInvoice'
    BY <1>2, <2>1 DEF ReviewInv, QuietBeforeInvoice, HasInvoice
  <2> QED
    BY <2>2, <2>3, <2>4, ReassembledNext
<1> QED
  BY <1>1, <1>2, PersistDraftKeeps, CommitEditKeeps DEF Next

LEMMA ReviewInvAlways == Spec => []ReviewInv
BY InitReviewInv, ReviewInvStep, PTL DEF Spec
----------------------------------------------------------------------------
\* The rows in the database hold whole cents and quantities of their last
\* digit, within their columns' limits, whatever numbers the AI provider and
\* the clients send.
THEOREM ReviewTypes == Spec => []TypeOK
<1>1. ReviewInv => TypeOK
  BY DEF ReviewInv
<1> QED
  BY <1>1, ReviewInvAlways, PTL

\* In any number of processes: the findings of an answer are those of the

LEMMA OnlyDraft ==
  ASSUME ReviewInv, Len(log) = 1
  PROVE  invoice = DraftRows(log[1]) /\ log[1] \in Drafts
<1>1. log # <<>>
  OBVIOUS
<1> QED
  BY <1>1 DEF ReviewInv, DraftIsStored, LogBeginsWithDraft, HasInvoice

\* However fine the numbers are written, and however many units make a cent:
\* a total that is exactly right as written is not reported once stored.
THEOREM TotalSurvivesRoundingAlways == Spec => []TotalSurvivesRounding
<1>1. ReviewInv => TotalSurvivesRounding
  <2> SUFFICES ASSUME ReviewInv, Len(log) = 1,
                      WrittenTotalIsRight(log[1])
               PROVE  ~TotalMismatch(invoice)
    BY DEF TotalSurvivesRounding
  <2> DEFINE d == log[1]
  <2>1. invoice = DraftRows(d) /\ d \in Drafts
    BY OnlyDraft
  <2>2. /\ {"subtotal", "tax", "total"} = MoneyFields
        /\ \A f \in MoneyFields : d[f] \in Int
    BY <2>1, RequestAssumption DEF WrittenTotalIsRight, MoneyFields, Number
  <2>3. \A f \in MoneyFields : invoice[f] = StoredMoney(d[f])
    BY <2>1, FieldsAre DEF DraftRows, StoredField
  <2>4. /\ invoice.subtotal = Round(Cent, d.subtotal)
        /\ invoice.tax = Round(Cent, d.tax)
        /\ invoice.total = Round(Cent, d.subtotal + d.tax)
    BY <2>2, <2>3, UnitAssumption DEF StoredMoney, WrittenTotalIsRight
  <2>5. Abs(invoice.subtotal + invoice.tax - invoice.total) <= Cent
    BY <2>2, <2>4, RoundedSum
  <2>6. /\ invoice.subtotal \in Int /\ invoice.tax \in Int /\ invoice.total \in Int
        /\ Cent \in Nat \ {0}
    <3>1. Cent \in Nat \ {0}
      BY UnitAssumption
    <3>2. d.subtotal \in Int /\ d.tax \in Int /\ d.subtotal + d.tax \in Int
      BY <2>2
    <3> QED
      BY <2>4, <3>1, <3>2, RoundIsMultiple
  <2> QED
    BY <2>5, <2>6 DEF TotalMismatch, Abs
<1> QED
  BY <1>1, ReviewInvAlways, PTL

LEMMA ScaledWithin ==
  ASSUME NEW n \in Nat, NEW c \in Nat, NEW x \in Int, x <= c, x >= -c
  PROVE  n * x <= n * c /\ n * x >= -(n * c)
<1>1. n * (c - x) >= 0 /\ n * (c + x) >= 0
  OBVIOUS
<1>2. n * (c - x) = n * c - n * x /\ n * (c + x) = n * c + n * x
  OBVIOUS
<1>3. n * c \in Int /\ n * x \in Int
  OBVIOUS
<1> QED
  BY <1>1, <1>2, <1>3

\* An amount that is right as written is right as stored, if only the amount
\* is rounded.
LEMMA RoundedAmount ==
  ASSUME NEW q \in Int, NEW p \in Int, NEW a \in Int, q * p = One * a
  PROVE  Abs(q * p - One * Round(Cent, a)) <= One * Cent
<1>0. Cent \in Nat \ {0} /\ One \in Nat
  BY UnitAssumption
<1> DEFINE r == Round(Cent, a)
<1>1. r \in Int
  BY <1>0, RoundIsMultiple
<1>2. a - r <= Cent /\ a - r >= -Cent
  <2>1. 2 * (r - a) <= Cent /\ 2 * (r - a) >= -Cent
    BY <1>0, Rounds
  <2> HIDE DEF r
  <2> QED
    BY <1>0, <1>1, <2>1
<1> HIDE DEF r
<1>3. One * (a - r) <= One * Cent /\ One * (a - r) >= -(One * Cent)
  BY <1>0, <1>1, <1>2, ScaledWithin
<1>4. q * p - One * r = One * (a - r)
  BY <1>0, <1>1
<1>5. PICK m \in Int, n \in Int : m = One * Cent /\ n = One * (a - r)
  BY <1>0, <1>1
<1>6. Abs(n) <= m
  BY <1>3, <1>5 DEF Abs
<1> QED
  BY <1>4, <1>5, <1>6 DEF r

\* However fine amounts and quantities are written: a unit price in whole
\* cents and a storable quantity keep their line item right.
THEOREM WholePriceSurvivesRoundingAlways == Spec => []WholePriceSurvivesRounding
<1>1. ReviewInv => WholePriceSurvivesRounding
  <2> SUFFICES ASSUME ReviewInv, Len(log) = 1,
                      NEW i \in DOMAIN log[1].line_items,
                      WrittenLineIsRight(log[1].line_items[i]),
                      log[1].line_items[i].unit_price % Cent = 0,
                      log[1].line_items[i].quantity % QuantityStep = 0
               PROVE  i - 1 \notin Errors(invoice).lines
    BY DEF WholePriceSurvivesRounding
  <2> DEFINE list == log[1].line_items
             line == list[i]
  <2>1. invoice.line_items = Rows(list, 1) /\ list \in Seq(LineItem)
    <3>1. invoice = DraftRows(log[1]) /\ log[1] \in Drafts
      BY OnlyDraft
    <3> QED
      BY <3>1, FieldsAre, RequestAssumption DEF DraftRows
  <2>2. line \in LineItem /\ i \in Int /\ \A j \in DOMAIN list : j \in Int
    BY <2>1
  <2>3. /\ line.quantity \in Int /\ line.unit_price \in Int /\ line.amount \in Int
        /\ line.quantity * line.unit_price = One * line.amount
    BY <2>2 DEF WrittenLineIsRight, LineItem, Number
  <2>4. ASSUME NEW row \in Rows(list, 1), row.order = i - 1
        PROVE  ~LineMismatch(row)
    <3>1. PICK j \in DOMAIN list :
            /\ row.order = j - 1
            /\ row.quantity = StoredQuantity(list[j].quantity)
            /\ row.unit_price = StoredMoney(list[j].unit_price)
            /\ row.amount = StoredMoney(list[j].amount)
      BY DEF Rows
    <3>2. j = i
      BY <2>2, <2>4, <3>1
    <3> HIDE DEF list, line
    <3>3. /\ row.quantity = line.quantity /\ row.unit_price = line.unit_price
          /\ row.amount = Round(Cent, line.amount)
      BY <2>3, <3>1, <3>2, MultipleIsKept, UnitAssumption
         DEF StoredQuantity, StoredMoney, line, list
    <3>4. Abs(row.quantity * row.unit_price - One * row.amount) <= One * Cent
      BY <2>3, <3>3, RoundedAmount
    <3>5. PICK n \in Int : n = Abs(row.quantity * row.unit_price - One * row.amount)
      <4>1. row.amount \in Int /\ One \in Int
        BY <2>3, <3>3, RoundIsMultiple, UnitAssumption
      <4>2. row.quantity * row.unit_price - One * row.amount \in Int
        BY <2>3, <3>3, <4>1
      <4> QED
        BY <4>2 DEF Abs
    <3>6. PICK m \in Int : m = One * Cent
      BY UnitAssumption
    <3> QED
      BY <3>4, <3>5, <3>6 DEF LineMismatch
  <2>5. Errors(invoice).lines = {row.order : row \in {r \in Rows(list, 1) : LineMismatch(r)}}
    BY <2>1 DEF Errors
  <2> QED
    BY <2>4, <2>5
<1> QED
  BY <1>1, ReviewInvAlways, PTL

----------------------------------------------------------------------------
(* One process.                                                            *)

LEMMA SameErrors ==
  ASSUME UNCHANGED invoice
  PROVE  Errors(invoice)' = Errors(invoice) /\ Approvable(invoice)' = Approvable(invoice)
BY DEF Approvable, ValidateInvoice, Errors, TotalMismatch, LineMismatch, FieldsMissing, NoErrors

\* An invoice object whose scalars are the row's becomes the row once its
\* line items are read.
LEMMA FilledIs ==
  ASSUME InvoiceHasNumbers, NEW w \in Workers,
         call[w].loaded = Scalars(invoice) \/ call[w].loaded = invoice
  PROVE  Filled(w) = invoice
<1>1. /\ invoice = [f \in Fields |-> invoice[f]] /\ "line_items" \in Fields
  BY FieldsAre DEF InvoiceHasNumbers
<1>2. [Scalars(invoice) EXCEPT !.line_items = invoice.line_items] = invoice
  BY <1>1 DEF Scalars
<1>3. [invoice EXCEPT !.line_items = invoice.line_items] = invoice
  BY <1>1
<1> QED
  BY <1>2, <1>3 DEF Filled

LEMMA FilledIsNext ==
  ASSUME InvoiceHasNumbers, NEW w \in Workers, UNCHANGED invoice,
         call'[w].loaded = Scalars(invoice) \/ call'[w].loaded = invoice
  PROVE  Filled(w)' = invoice'
<1>1. /\ invoice = [f \in Fields |-> invoice[f]] /\ "line_items" \in Fields
  BY FieldsAre DEF InvoiceHasNumbers
<1>2. [Scalars(invoice) EXCEPT !.line_items = invoice.line_items] = invoice
  BY <1>1 DEF Scalars
<1>3. [invoice EXCEPT !.line_items = invoice.line_items] = invoice
  BY <1>1
<1> QED
  BY <1>2, <1>3 DEF Filled

\* SoloInv, said of the only worker there is.
Solo(w) ==
  /\ status \in StatusOf(call[w].pc)
  /\ call[w].pc \in LoadedPC =>
       /\ Filled(w) = invoice
       /\ call[w].pc = "commit_edit" /\ "line_items" \in DOMAIN call[w].patch =>
            call[w].loaded = invoice
  /\ status = "APPROVED" \/ call[w].pc = "commit_approve" => Approvable(invoice)
  /\ told.known /\ call[w].pc \notin {"refresh_edit", "answer_edit"} =>
       told.errors = Errors(invoice)

LEMMA SoloIs ==
  ASSUME SoleWorker, NEW w \in Workers
  PROVE  SoloInv <=> Solo(w)
<1>1. \A v \in Workers : v = w
  BY DEF SoleWorker
<1> QED
  BY <1>1 DEF SoloInv, Solo, LoadedIsCurrent, AnswerIsCurrent

LEMMA SoloIsNext ==
  ASSUME SoleWorker, NEW w \in Workers
  PROVE  SoloInv' <=> Solo(w)'
<1>1. \A v \in Workers : v = w
  BY DEF SoleWorker
<1> QED
  BY <1>1 DEF SoloInv, Solo, LoadedIsCurrent, AnswerIsCurrent

LEMMA StatusOfIs ==
  /\ \A p \in {"idle", "answer_review"} : StatusOf(p) = ReviewStatus
  /\ StatusOf("validate") = {"VALIDATING_RESULT"}
  /\ \A p \in CallPC \ {"idle", "answer_review", "validate"} : StatusOf(p) = {"REVIEW_REQUIRED"}
BY DEF StatusOf

LEMMA InitSolo == Init => SoloInv
<1> SUFFICES ASSUME Init PROVE SoloInv
  OBVIOUS
<1>1. \A w \in Workers : call[w].pc = "idle"
  BY NoCallIs DEF Init
<1>2. status = "EXTRACTING_DATA" /\ told.known = FALSE
  BY DEF Init, Silence
<1>3. \A w \in Workers : status \in StatusOf(call[w].pc)
  BY <1>1, <1>2, StatusOfIs DEF ReviewStatus
<1> QED
  BY <1>1, <1>2, <1>3 DEF SoloInv, LoadedIsCurrent, LoadedPC, AnswerIsCurrent

\* A step of the only worker that leaves the invoice alone and moves its call
\* to where nothing is loaded.
LEMMA SoloUnloaded ==
  ASSUME NEW w \in Workers, Solo(w), UNCHANGED invoice,
         call'[w].pc \in CallPC \ LoadedPC, status' \in StatusOf(call'[w].pc),
         status' = "APPROVED" \/ call'[w].pc = "commit_approve" => Approvable(invoice),
         \/ told'.known = FALSE
         \/ told'.errors = Errors(invoice)
         \/ UNCHANGED told /\ call[w].pc \notin {"refresh_edit", "answer_edit"}
         \/ call'[w].pc \in {"refresh_edit", "answer_edit"}
  PROVE  Solo(w)'
<1>1. told'.known /\ call'[w].pc \notin {"refresh_edit", "answer_edit"} =>
        told'.errors = Errors(invoice)
  BY DEF Solo
<1> QED
  BY <1>1, SameErrors DEF Solo

\* ... or to where it has loaded the row.
LEMMA SoloLoaded ==
  ASSUME NEW w \in Workers, Solo(w), InvoiceHasNumbers, UNCHANGED <<status, invoice, told>>,
         call'[w].pc \in LoadedPC, status \in StatusOf(call'[w].pc),
         call'[w].loaded = Scalars(invoice) \/ call'[w].loaded = invoice,
         call'[w].pc = "commit_edit" /\ "line_items" \in DOMAIN call'[w].patch =>
           call'[w].loaded = invoice,
         \/ call[w].pc \notin {"refresh_edit", "answer_edit"}
         \/ call'[w].pc \in {"refresh_edit", "answer_edit"}
  PROVE  Solo(w)'
<1>1. Filled(w)' = invoice'
  BY FilledIsNext
<1>2. call'[w].pc # "commit_approve"
  BY DEF LoadedPC
<1> QED
  BY <1>1, <1>2, SameErrors DEF Solo

LEMMA SoloStep ==
  ASSUME SoleWorker, ReviewInv, NEW w \in Workers, Solo(w), Step(w)
  PROVE  Solo(w)'
<1>0. /\ TypeOK /\ CallsHavePatches /\ InvoiceHasNumbers /\ call[w].pc \in CallPC
      /\ status \in ReviewStatus /\ status \in StatusOf(call[w].pc)
  BY DEF ReviewInv, CallsHavePatches, TypeOK, Solo
<1>1. CASE PersistDraft(w)
  <2>1. call'[w].pc = "validate" /\ status' = "VALIDATING_RESULT" /\ UNCHANGED told
    BY <1>0, <1>1, CallMoves DEF PersistDraft, CallPC, EditPC
  <2>2. told.known = FALSE
    BY <1>1 DEF PersistDraft, ReviewInv, QuietBeforeInvoice, Silence
  <2> QED
    BY <2>1, <2>2, StatusOfIs DEF Solo, LoadedPC
<1>2. CASE CommitEdit(w)
  <2>1. /\ call'[w].pc = "refresh_edit" /\ UNCHANGED status /\ status = "REVIEW_REQUIRED"
    BY <1>0, <1>2, CallMoves, StatusOfIs DEF CommitEdit, CallPC, EditPC
  <2>2. StatusOf("refresh_edit") = {"REVIEW_REQUIRED"}
    BY StatusOfIs DEF CallPC, EditPC
  <2> QED
    BY <2>1, <2>2 DEF Solo, LoadedPC
<1>3. CASE RunValidation(w)
  <2>1. /\ call[w].pc = "validate" /\ call'[w].pc = "refresh_document"
        /\ status' = "REVIEW_REQUIRED" /\ UNCHANGED <<invoice, told>>
    BY <1>0, <1>3, CallMoves DEF RunValidation, CallPC, EditPC
  <2>2. "refresh_document" \in CallPC \ LoadedPC /\ StatusOf("refresh_document") = {"REVIEW_REQUIRED"}
    BY StatusOfIs DEF CallPC, EditPC, LoadedPC
  <2> QED
    BY <2>1, <2>2, SoloUnloaded
<1>4. CASE BeginApprove(w) \/ BeginReject(w) \/ \E patch \in Patches : BeginEdit(w, patch)
  <2>1. /\ call[w] = NoCall /\ status = "REVIEW_REQUIRED" /\ UNCHANGED <<status, invoice, told>>
    BY <1>4 DEF BeginApprove, BeginReject, BeginEdit
  <2>2. call'[w].pc \in {"load_approve", "load_reject", "load_edit"}
    <3>1. \/ \E p \in {"load_approve", "load_reject"} : Goto(w, p)
          \/ \E patch \in Patches : Put(w, "load_edit", patch, NoInvoice)
      BY <1>4 DEF BeginApprove, BeginReject, BeginEdit
    <3> QED
      BY <1>0, <3>1, CallMoves, CallAfter DEF CallPC, EditPC
  <2>3. \A p \in {"load_approve", "load_reject", "load_edit"} :
          p \in CallPC \ LoadedPC /\ StatusOf(p) = {"REVIEW_REQUIRED"}
    BY StatusOfIs DEF CallPC, EditPC, LoadedPC
  <2> QED
    BY <2>1, <2>2, <2>3, NoCallIs, SoloUnloaded
<1>5. CASE GetReview(w)
  <2>1. /\ call'[w].pc = "answer_review" /\ call'[w].loaded = Scalars(invoice)
        /\ call[w] = NoCall /\ UNCHANGED <<status, invoice, told>>
    <3>1. Put(w, "answer_review", <<>>, Scalars(invoice))
      BY <1>5 DEF GetReview
    <3>2. "answer_review" \in CallPC \ EditPC
      BY DEF CallPC, EditPC
    <3>3. call'[w].pc = "answer_review" /\ call'[w].loaded = Scalars(invoice)
      BY <1>0, <3>1, <3>2, CallAfter
    <3> QED
      BY <1>5, <3>3 DEF GetReview
  <2>2. "answer_review" \in LoadedPC /\ StatusOf("answer_review") = ReviewStatus
    BY StatusOfIs DEF LoadedPC
  <2> QED
    BY <1>0, <2>1, <2>2, NoCallIs, SoloLoaded
<1>6. CASE LoadInvoice(w)
  <2> DEFINE p == AfterLoad(call[w])
  <2>1. /\ Put(w, p, call[w].patch, Scalars(invoice))
        /\ call[w].pc \in {"load_edit", "load_approve", "load_reject"}
        /\ UNCHANGED <<status, invoice, told>>
    BY <1>6 DEF LoadInvoice
  <2>2. /\ p \in {"gate", "commit_reject", "items_edit", "commit_edit"}
        /\ p \in EditPC => call[w].pc \in EditPC
        /\ p = "commit_edit" => "line_items" \notin DOMAIN call[w].patch
    BY <2>1 DEF AfterLoad, EditPC
  <2>3. /\ status = "REVIEW_REQUIRED"
        /\ StatusOf(p) = {"REVIEW_REQUIRED"} /\ p \in CallPC
    BY <1>0, <2>1, <2>2, StatusOfIs DEF CallPC, EditPC
  <2> HIDE DEF p
  <2>4. /\ call'[w].pc = p /\ call'[w].loaded = Scalars(invoice)
        /\ call'[w].patch = call[w].patch
    <3>1. /\ call[w].patch \in Patches \/ call[w].patch = <<>>
          /\ p \in EditPC => call[w].patch \in Patches
      BY <1>0, <2>2 DEF CallsHavePatches
    <3> QED
      BY <1>0, <2>1, <2>3, <3>1, CallAfter
  <2>5. CASE p = "commit_reject"
    BY <2>1, <2>3, <2>4, <2>5, SoloUnloaded DEF LoadedPC
  <2>6. CASE p # "commit_reject"
    BY <1>0, <2>1, <2>2, <2>3, <2>4, <2>6, SoloLoaded DEF LoadedPC
  <2> QED
    BY <2>5, <2>6
<1>7. CASE LoadItems(w) \/ RefreshInvoice(w)
  <2>1. /\ call[w].patch \in Patches /\ UNCHANGED <<status, invoice, told>>
        /\ status = "REVIEW_REQUIRED"
    BY <1>0, <1>7, StatusOfIs DEF LoadItems, RefreshInvoice, CallsHavePatches, EditPC, CallPC
  <2>2. \/ /\ call[w].pc = "items_edit"
           /\ Put(w, "commit_edit", call[w].patch, invoice)
        \/ /\ call[w].pc = "refresh_edit"
           /\ Put(w, "answer_edit", call[w].patch, Scalars(invoice))
    BY <1>7 DEF LoadItems, RefreshInvoice, Solo, LoadedPC
  <2>3. \/ /\ call[w].pc = "items_edit" /\ call'[w].pc = "commit_edit"
           /\ call'[w].loaded = invoice
        \/ /\ call[w].pc = "refresh_edit" /\ call'[w].pc = "answer_edit"
           /\ call'[w].loaded = Scalars(invoice)
    BY <1>0, <2>1, <2>2, CallAfter DEF CallPC, EditPC
  <2>4. \A p \in {"commit_edit", "answer_edit"} :
          p \in LoadedPC /\ StatusOf(p) = {"REVIEW_REQUIRED"}
    BY StatusOfIs DEF CallPC, EditPC, LoadedPC
  <2> QED
    BY <1>0, <2>1, <2>3, <2>4, SoloLoaded
<1>8. CASE Gate(w) /\ Approvable(Filled(w))
  <2>1. /\ call[w].pc = "gate" /\ call'[w].pc = "commit_approve"
        /\ UNCHANGED <<status, invoice, told>>
    BY <1>0, <1>8, CallMoves DEF Gate, CallPC, EditPC
  <2>2. Approvable(invoice) /\ status = "REVIEW_REQUIRED"
    BY <1>0, <1>8, <2>1, StatusOfIs DEF Solo, LoadedPC, CallPC
  <2>3. "commit_approve" \in CallPC \ LoadedPC /\ StatusOf("commit_approve") = {"REVIEW_REQUIRED"}
    BY StatusOfIs DEF CallPC, EditPC, LoadedPC
  <2> QED
    BY <2>1, <2>2, <2>3, SoloUnloaded
<1>9. CASE \/ Gate(w) /\ ~Approvable(Filled(w))
           \/ ValidationFails(w) \/ Answer(w)
           \/ CommitApproval(w) \/ CommitRejection(w) \/ CallEnds(w)
  <2>1. Finish(w) /\ UNCHANGED invoice
    BY <1>9 DEF Gate, ValidationFails, Answer, CommitApproval, CommitRejection, CommitDecision,
                CallEnds
  <2>2. call'[w].pc = "idle"
    BY <1>0, <2>1, CallFinishes
  <2>3. status' \in ReviewStatus
    BY <1>0, <1>9 DEF Gate, ValidationFails, Answer, CommitApproval, CommitRejection,
                      CommitDecision, CallEnds, ReviewStatus
  <2>4. status' = "APPROVED" => Approvable(invoice)
    BY <1>9 DEF Gate, ValidationFails, Answer, CommitApproval, CommitRejection, CommitDecision,
                CallEnds, Solo
  <2>5. \/ told'.known = FALSE
        \/ told'.errors = Errors(invoice)
        \/ UNCHANGED told /\ call[w].pc \notin {"refresh_edit", "answer_edit"}
    <3>1. CASE Gate(w) \/ Answer(w)
      <4>1. CASE UNCHANGED told /\ call[w].pc = "gate"
        BY <4>1
      <4>2. CASE Tell(Filled(w)) /\ call[w].pc \in LoadedPC
        <5>1. told' = [known |-> TRUE, errors |-> Errors(invoice)]
          BY <4>2 DEF Solo, Tell, ValidateInvoice
        <5> QED
          BY <5>1
      <4> QED
        BY <3>1, <4>1, <4>2 DEF Gate, Answer, LoadedPC
    <3>2. CASE CallEnds(w)
      BY <3>2 DEF CallEnds, Silence
    <3>3. CASE ValidationFails(w) \/ CommitApproval(w) \/ CommitRejection(w)
      BY <3>3 DEF ValidationFails, CommitApproval, CommitRejection, CommitDecision
    <3> QED
      BY <1>9, <3>1, <3>2, <3>3
  <2>6. "idle" \in CallPC \ LoadedPC /\ StatusOf("idle") = ReviewStatus
    BY StatusOfIs, NoCallIs DEF LoadedPC
  <2> QED
    BY <2>1, <2>2, <2>3, <2>4, <2>5, <2>6, SoloUnloaded
<1> QED
  BY <1>1, <1>2, <1>3, <1>4, <1>5, <1>6, <1>7, <1>8, <1>9 DEF Step

LEMMA SoloInvStep ==
  ASSUME SoleWorker, ReviewInv, SoloInv, [Next]_vars
  PROVE  SoloInv'
<1>1. ASSUME NEW w \in Workers, Step(w) PROVE SoloInv'
  BY <1>1, SoloIs, SoloIsNext, SoloStep
<1>2. CASE DraftFails
  <2>1. /\ UNCHANGED <<invoice, call, told>> /\ status' = "FAILED"
        /\ \A w \in Workers : call[w] = NoCall
    BY <1>2 DEF DraftFails, ReviewInv, QuietBeforeInvoice
  <2>2. StatusOf("idle") = ReviewStatus
    BY StatusOfIs
  <2> QED
    BY <2>1, <2>2, NoCallIs, SameErrors
       DEF SoloInv, LoadedIsCurrent, LoadedPC, AnswerIsCurrent, ReviewStatus
<1>3. CASE UNCHANGED vars
  BY <1>3, SameErrors DEF vars, SoloInv, LoadedIsCurrent, Filled, AnswerIsCurrent
<1> QED
  BY <1>1, <1>2, <1>3 DEF Next

LEMMA SoloInvAlways == SoleWorker => (Spec => []SoloInv)
<1> SUFFICES ASSUME SoleWorker PROVE Spec => []SoloInv
  OBVIOUS
<1>1. ReviewInv /\ SoloInv /\ [Next]_vars => SoloInv'
  BY SoloInvStep
<1> QED
  BY <1>1, InitSolo, ReviewInvAlways, PTL DEF Spec

\* In one process: the findings a client was last given are those of the
\* numbers as stored, although an answer is put together from a row and line
\* items read in separate statements, and after an edit read again.
THEOREM AnswerIsCurrentAlways == SoleWorker => (Spec => []AnswerIsCurrent)
<1> SUFFICES ASSUME SoleWorker PROVE Spec => []AnswerIsCurrent
  OBVIOUS
<1>1. SoloInv => AnswerIsCurrent
  BY DEF SoloInv
<1> QED
  BY <1>1, SoloInvAlways, PTL

LEMMA ApprovableAddsUp == ReviewInv /\ SoloInv => ApprovedAddsUp
<1> SUFFICES ASSUME ReviewInv, Approvable(invoice)
             PROVE  ApprovedAddsUp
  BY DEF SoloInv, ApprovedAddsUp
<1>0. /\ Cent \in Nat \ {0} /\ One \in Nat \ {0}
      /\ \A f \in MoneyFields : invoice[f] \in Number
      /\ invoice.line_items \subseteq Row
  BY UnitAssumption DEF ReviewInv, InvoiceHasNumbers
<1>1. Errors(invoice) = NoErrors
  BY DEF Approvable, ValidateInvoice
<1>2. ~TotalMismatch(invoice) /\ \A row \in invoice.line_items : ~LineMismatch(row)
  BY <1>1 DEF Errors, NoErrors
<1>3. \/ \E f \in MoneyFields : invoice[f] = NULL
      \/ invoice.subtotal + invoice.tax - invoice.total \in -Cent..Cent
  <2> SUFFICES ASSUME \A f \in MoneyFields : invoice[f] # NULL
               PROVE  invoice.subtotal + invoice.tax - invoice.total \in -Cent..Cent
    OBVIOUS
  <2>1. invoice.subtotal \in Int /\ invoice.tax \in Int /\ invoice.total \in Int
    BY <1>0 DEF MoneyFields, Number
  <2> QED
    BY <1>0, <1>2, <2>1 DEF TotalMismatch, Abs
<1>4. ASSUME NEW row \in invoice.line_items, NULL \notin {row.quantity, row.unit_price, row.amount}
      PROVE  row.quantity * row.unit_price - One * row.amount \in -(One * Cent)..(One * Cent)
  <2>1. row.quantity \in Int /\ row.unit_price \in Int /\ row.amount \in Int
    BY <1>0, <1>4 DEF Row, Number
  <2>2. PICK n \in Int : n = row.quantity * row.unit_price - One * row.amount
    BY <1>0, <2>1
  <2>3. PICK m \in Int : m = One * Cent
    BY <1>0
  <2>4. ~(Abs(n) > m)
    BY <1>2, <1>4, <2>2, <2>3 DEF LineMismatch
  <2>5. n \in -m..m
    BY <2>4 DEF Abs
  <2> QED
    BY <2>2, <2>3, <2>5
<1> QED
  BY <1>3, <1>4 DEF ApprovedAddsUp

\* In one process, whatever is edited and in whichever order: what is
\* approved adds up.
THEOREM ApprovedAddsUpAlways == SoleWorker => (Spec => []ApprovedAddsUp)
BY SoloInvAlways, ReviewInvAlways, ApprovableAddsUp, PTL

----------------------------------------------------------------------------
(* One process: the workflow.  Each commit is one of its steps.            *)

NumbersStep == [Workflow!Next]_(Workflow!workflowVars)

\* A step that leaves the invoice alone, and what its status shows.
LEMMA UnseenStep ==
  ASSUME Content' = Content, Phase' = Phase
  PROVE  NumbersStep
BY DEF NumbersStep, Workflow!workflowVars, Verdict

LEMMA SameContent ==
  ASSUME UNCHANGED <<invoice, log>>
  PROVE  Content' = Content
BY SameErrors DEF Content, NoErrors, HasInvoice

LEMMA PersistIsExtract ==
  ASSUME ReviewInv, NEW w \in Workers, PersistDraft(w)
  PROVE  NumbersStep
<1>1. /\ status = "EXTRACTING_DATA" /\ status' = "VALIDATING_RESULT"
      /\ ~HasInvoice /\ HasInvoice'
  BY DEF PersistDraft, ReviewInv, QuietBeforeInvoice, HasInvoice
<1>2. /\ Phase = "processing" /\ Phase' = "processing"
      /\ Content = "none" /\ Content' \in {"clean", "errors"}
  BY <1>1 DEF Phase, Content
<1>3. Verdict = "none" /\ Verdict' = "none"
  BY <1>2 DEF Verdict
<1>4. Workflow!Extract("this")
  BY <1>2, <1>3 DEF Workflow!Extract
<1> QED
  BY <1>4 DEF NumbersStep, Workflow!Next

LEMMA ValidationIsOffer ==
  ASSUME HasInvoice, status = "VALIDATING_RESULT", status' = "REVIEW_REQUIRED",
         UNCHANGED <<invoice, log>>
  PROVE  NumbersStep
<1>1. Content' = Content /\ Content # "none"
  BY SameContent DEF Content
<1>2. Phase = "processing" /\ Phase' = "review"
  BY DEF Phase
<1>3. Verdict = "none" /\ Verdict' = "none"
  BY <1>2 DEF Verdict
<1>4. Workflow!Offer("this")
  BY <1>1, <1>2, <1>3 DEF Workflow!Offer
<1> QED
  BY <1>4 DEF NumbersStep, Workflow!Next

LEMMA FailureIsReprocess ==
  ASSUME status \in {"VALIDATING_RESULT", "REVIEW_REQUIRED"}, status' = "FAILED",
         UNCHANGED <<invoice, log>>
  PROVE  NumbersStep
<1>1. Content' = Content
  BY SameContent
<1>2. Phase \in {"processing", "review"} /\ Phase' = "processing"
  BY DEF Phase
<1>3. Verdict = "none" /\ Verdict' = "none"
  BY <1>2 DEF Verdict
<1>4. Workflow!Reprocess("this")
  BY <1>1, <1>2, <1>3 DEF Workflow!Reprocess
<1> QED
  BY <1>4 DEF NumbersStep, Workflow!Next

LEMMA CommitIsEdit ==
  ASSUME status = "REVIEW_REQUIRED", UNCHANGED status, HasInvoice'
  PROVE  NumbersStep
<1>1. Phase = "review" /\ Phase' = "review" /\ Content' \in {"clean", "errors"}
  BY DEF Phase, Content
<1>2. Verdict = "none" /\ Verdict' = "none"
  BY <1>1 DEF Verdict
<1>3. Workflow!Edit("this")
  BY <1>1, <1>2 DEF Workflow!Edit
<1> QED
  BY <1>3 DEF NumbersStep, Workflow!Next

LEMMA DecisionIsDecide ==
  ASSUME HasInvoice, status = "REVIEW_REQUIRED", UNCHANGED <<invoice, log>>,
         \/ status' = "APPROVED" /\ Approvable(invoice)
         \/ status' = "REJECTED"
  PROVE  NumbersStep
<1>1. Content' = Content
  BY SameContent
<1>2. Phase = "review" /\ Phase' \in {"approved", "rejected"}
  BY DEF Phase
<1>3. Verdict = "none" /\ Verdict' = Phase'
  BY <1>2 DEF Verdict
<1>4. Phase' = "approved" => Content = "clean"
  BY DEF Phase, Content, Approvable, ValidateInvoice
<1>5. Workflow!Decide("this", Phase')
  BY <1>1, <1>2, <1>3, <1>4 DEF Workflow!Decide
<1> QED
  BY <1>2, <1>5 DEF NumbersStep, Workflow!Next

LEMMA NumbersStepIs ==
  ASSUME SoleWorker, ReviewInv, SoloInv, [Next]_vars
  PROVE  NumbersStep
<1>1. ASSUME NEW w \in Workers, Step(w), ~PersistDraft(w), ~CommitEdit(w) PROVE NumbersStep
  <2>1. HasInvoice /\ UNCHANGED <<invoice, log>>
    BY <1>1, OtherSteps
  <2>2. status \in StatusOf(call[w].pc)
    BY DEF SoloInv
  <2>3. CASE RunValidation(w)
    <3>1. status = "VALIDATING_RESULT" /\ status' = "REVIEW_REQUIRED"
      BY <2>2, <2>3, StatusOfIs DEF RunValidation
    <3> QED
      BY <2>1, <3>1, ValidationIsOffer
  <2>4. CASE ValidationFails(w)
    <3>1. status \in {"VALIDATING_RESULT", "REVIEW_REQUIRED"} /\ status' = "FAILED"
      BY <2>2, <2>4, StatusOfIs DEF ValidationFails, CallPC
    <3> QED
      BY <2>1, <3>1, FailureIsReprocess
  <2>5. CASE CommitApproval(w) \/ CommitRejection(w)
    <3>1. /\ status = "REVIEW_REQUIRED"
          /\ \/ status' = "APPROVED" /\ Approvable(invoice)
             \/ status' = "REJECTED"
      BY <2>2, <2>5, StatusOfIs
         DEF CommitApproval, CommitRejection, CommitDecision, SoloInv, CallPC
    <3> QED
      BY <2>1, <3>1, DecisionIsDecide
  <2>6. CASE /\ ~RunValidation(w) /\ ~ValidationFails(w)
             /\ ~CommitApproval(w) /\ ~CommitRejection(w)
    <3>1. UNCHANGED status
      BY <1>1, <2>6 DEF Step, GetReview, BeginEdit, BeginApprove, BeginReject, LoadInvoice,
                        LoadItems, RefreshInvoice, Answer, Gate, CallEnds
    <3> QED
      BY <2>1, <3>1, SameContent, UnseenStep DEF Phase
  <2> QED
    BY <2>3, <2>4, <2>5, <2>6
<1>2. ASSUME NEW w \in Workers, CommitEdit(w) PROVE NumbersStep
  <2>1. status = "REVIEW_REQUIRED" /\ UNCHANGED status
    BY <1>2, StatusOfIs DEF CommitEdit, SoloInv, CallPC, EditPC
  <2>2. HasInvoice'
    <3>1. log \in Seq(Drafts \cup Patches) /\ log' = Append(log, call[w].patch)
      BY <1>2 DEF ReviewInv, LogBeginsWithDraft, CommitEdit
    <3> QED
      BY <3>1 DEF HasInvoice
  <2> QED
    BY <2>1, <2>2, CommitIsEdit
<1>3. CASE DraftFails \/ UNCHANGED vars
  <2>1. UNCHANGED <<invoice, log>> /\ Phase' = Phase
    BY <1>3 DEF DraftFails, vars, Phase
  <2> QED
    BY <2>1, SameContent, UnseenStep
<1> QED
  BY <1>1, <1>2, <1>3, PersistIsExtract DEF Next

\* In one process, an invoice's numbers go through extraction, validation
\* that may fail with the invoice kept, edits and the verdict as the workflow
\* says, for any drafts, patches and units.
THEOREM NumbersImplementWorkflowAlways == SoleWorker => (Spec => NumbersImplementWorkflow)
<1> SUFFICES ASSUME SoleWorker PROVE Spec => NumbersImplementWorkflow
  OBVIOUS
<1>1. Init => Workflow!Init
  <2> SUFFICES ASSUME Init PROVE Workflow!Init
    OBVIOUS
  <2>1. Phase = "processing" /\ Content = "none"
    BY DEF Init, Phase, Content, HasInvoice
  <2>2. Verdict = "none"
    BY <2>1 DEF Verdict
  <2> QED
    BY <2>1, <2>2 DEF Workflow!Init
<1>2. ReviewInv /\ SoloInv /\ [Next]_vars => [Workflow!Next]_(Workflow!workflowVars)
  BY NumbersStepIs DEF NumbersStep
<1> QED
  BY <1>1, <1>2, SoloInvAlways, ReviewInvAlways, PTL
     DEF Spec, NumbersImplementWorkflow, Workflow!Spec

----------------------------------------------------------------------------
(* One process: edits.                                                     *)

LEMMA LastNamedIs ==
  ASSUME LogBeginsWithDraft, NEW f, NEW i, IsLastNamed(f, i)
  PROVE  LastNamed(f) = i
<1>1. \A j : IsLastNamed(f, j) => j = i
  BY DEF IsLastNamed, LogBeginsWithDraft
<1> QED
  BY <1>1 DEF LastNamed, IsLastNamed

\* What is stored is not rounded again.
LEMMA StoredAgain ==
  ASSUME StoredType(invoice), NEW f \in ScalarFields
  PROVE  StoredField(f, invoice[f]) = invoice[f]
<1>1. CASE f \in MoneyFields /\ invoice[f] # NULL
  <2>1. invoice[f] \in Int /\ invoice[f] % Cent = 0 /\ Cent \in Nat \ {0}
    BY <1>1, UnitAssumption DEF StoredType, RowsAreStored, Number, InCents
  <2> QED
    BY <1>1, <2>1, MultipleIsKept DEF StoredField, StoredMoney
<1>2. CASE ~(f \in MoneyFields /\ invoice[f] # NULL)
  BY <1>2 DEF StoredField, StoredMoney
<1> QED
  BY <1>1, <1>2

\* What the row should be, with the commit that named each field.
Says(inv, f, i) ==
  IF f = "line_items"
  THEN inv[f] = IF log[i][f] = NULL THEN {} ELSE Rows(log[i][f], i)
  ELSE inv[f] = StoredField(f, log[i][f])

EachFieldWasNamed == \A f \in Fields : \E i \in DOMAIN log : IsLastNamed(f, i)

StoredIsWhatWasSaid ==
  \A f \in Fields : \A i : IsLastNamed(f, i) => Says(invoice, f, i)

LEMMA StoredIsSaid ==
  ASSUME LogBeginsWithDraft, HasInvoice, EachFieldWasNamed
  PROVE  StoredIsLastWord <=> StoredIsWhatWasSaid
<1>1. \A f \in Fields : \E i : IsLastNamed(f, i)
  BY DEF EachFieldWasNamed
<1>2. \A f, i : IsLastNamed(f, i) => LastNamed(f) = i
  BY LastNamedIs
<1>3. (\A f \in Fields : \A i : IsLastNamed(f, i) => Says(invoice, f, i))
        <=> \A f \in Fields : Says(invoice, f, LastNamed(f))
  BY <1>1, <1>2
<1> QED
  BY <1>3, FieldsAre DEF StoredIsLastWord, StoredIsWhatWasSaid, Says, Fields

LEMMA StoredIsSaidNext ==
  ( LogBeginsWithDraft /\ HasInvoice /\ EachFieldWasNamed =>
      (StoredIsLastWord <=> StoredIsWhatWasSaid) )'
BY StoredIsSaid, PTL

LEMMA InitEdit == Init => EditInv
BY DEF Init, HasInvoice, EditInv, StoredIsLastWord

LEMMA PersistDraftSays ==
  ASSUME ReviewInv, NEW w \in Workers, PersistDraft(w)
  PROVE  EditInv'
<1>1. PICK d \in Drafts : invoice' = DraftRows(d) /\ log' = <<d>>
  BY DEF PersistDraft
<1>2. LogBeginsWithDraft' /\ HasInvoice' /\ DOMAIN log' = {1} /\ log'[1] = d
  BY <1>1, PersistDraftKeeps DEF ReviewInv, HasInvoice
<1>3. DOMAIN d = Fields /\ d.line_items # NULL
  BY RequestAssumption
<1>4. EachFieldWasNamed'
  BY <1>2, <1>3 DEF EachFieldWasNamed, IsLastNamed
<1>5. \A f, i : IsLastNamed(f, i)' => i = 1
  BY <1>2 DEF IsLastNamed
<1>6. /\ \A f \in ScalarFields : DraftRows(d)[f] = StoredField(f, d[f])
      /\ DraftRows(d).line_items = Rows(d.line_items, 1)
  BY FieldsAre DEF DraftRows
<1>7. \A f \in Fields : Says(invoice, f, 1)'
  BY <1>1, <1>2, <1>3, <1>6, FieldsAre DEF Says, Fields
<1>8. StoredIsLastWord'
  BY <1>2, <1>4, <1>5, <1>7, StoredIsSaidNext DEF StoredIsWhatWasSaid
<1> QED
  BY <1>4, <1>8 DEF EditInv, EachFieldWasNamed

LEMMA CommitEditSays ==
  ASSUME ReviewInv, SoloInv, EditInv, NEW w \in Workers, CommitEdit(w)
  PROVE  EditInv'
<1> DEFINE c == call[w]
           p == c.patch
<1>0. PICK n \in Nat : n = Len(log) + 1
  BY DEF ReviewInv, LogBeginsWithDraft
<1>1. /\ c.pc = "commit_edit" /\ log' = Append(log, p) /\ Goto(w, "refresh_edit")
      /\ invoice' = Edited(invoice, c, n)
  BY <1>0 DEF CommitEdit
<1>2. /\ LogBeginsWithDraft /\ CallsHavePatches /\ TypeOK /\ p \in Patches
      /\ DOMAIN p \subseteq Fields /\ StoredType(invoice) /\ LogBeginsWithDraft'
      /\ HasInvoice /\ EachFieldWasNamed
  <2>1. HasInvoice
    BY <1>1, NoCallIs DEF ReviewInv, QuietBeforeInvoice
  <2> QED
    BY <1>1, <2>1, CurrentInvoice, CommitEditKeeps, RequestAssumption
       DEF ReviewInv, CallsHavePatches, EditPC, EditInv, EachFieldWasNamed
<1>3. /\ log \in Seq(Drafts \cup Patches) /\ Len(log) \in Nat /\ Len(log) >= 1
  BY <1>2 DEF LogBeginsWithDraft, HasInvoice
<1>4. /\ DOMAIN log = 1..Len(log) /\ DOMAIN log' = 1..n /\ log'[n] = p
      /\ \A i \in DOMAIN log : log'[i] = log[i]
  BY <1>0, <1>1, <1>2, <1>3
<1>5. /\ \A f \in ScalarFields : c.loaded[f] = invoice[f]
      /\ "line_items" \in DOMAIN p => c.loaded.line_items = invoice.line_items
  <2>1. /\ Filled(w) = invoice /\ invoice = [f \in Fields |-> invoice[f]]
        /\ "line_items" \in DOMAIN p => c.loaded = invoice
    BY <1>1, <1>2 DEF SoloInv, LoadedIsCurrent, LoadedPC, StoredType, RowsAreStored
  <2> QED
    BY <2>1, FieldsAre DEF Filled
<1>6. HasInvoice'
  BY <1>1, <1>2, <1>3 DEF HasInvoice
<1> HIDE DEF c, p
<1>8. ASSUME NEW f \in DOMAIN p
      PROVE  (n \in DOMAIN log' /\ IsLastNamed(f, n)') /\ \A i : IsLastNamed(f, i)' => i = n
  <2>1. n \in DOMAIN log' /\ \A j \in DOMAIN log' : j \in Nat /\ j <= n
    BY <1>3, <1>4, <1>0
  <2>2. n \in DOMAIN log' /\ f \in DOMAIN log'[n]
    BY <1>4, <2>1
  <2>3. \A j \in DOMAIN log' : ~(j > n)
    BY <1>0, <2>1
  <2>4. \A i \in DOMAIN log' : i # n => n > i
    BY <1>0, <2>1
  <2> QED
    BY <2>2, <2>3, <2>4 DEF IsLastNamed
<1>9. \A f : f \notin DOMAIN p =>
         \A i : IsLastNamed(f, i)' <=> IsLastNamed(f, i)
  BY <1>3, <1>4, <1>0 DEF IsLastNamed
<1>10. EachFieldWasNamed'
  <2>1. \A f \in Fields : \E i \in DOMAIN log' : IsLastNamed(f, i)'
    <3> SUFFICES ASSUME NEW f \in Fields PROVE \E i \in DOMAIN log' : IsLastNamed(f, i)'
      OBVIOUS
    <3>1. CASE f \in DOMAIN p
      BY <1>3, <1>4, <1>0, <1>8, <3>1
    <3>2. CASE f \notin DOMAIN p
      <4>1. PICK i \in DOMAIN log : IsLastNamed(f, i)
        BY <1>2 DEF EachFieldWasNamed
      <4>2. i \in DOMAIN log' /\ IsLastNamed(f, i)'
        BY <1>3, <1>4, <1>0, <1>9, <3>2, <4>1
      <4> QED
        BY <4>2
    <3> QED
      BY <3>1, <3>2
  <2> QED
    BY <1>1, <2>1 DEF EachFieldWasNamed
<1>11. ASSUME NEW f \in Fields, NEW i, IsLastNamed(f, i)' PROVE Says(invoice, f, i)'
  <2>1. CASE f \in DOMAIN p
    <3>1. i = n /\ log'[i] = p
      BY <1>4, <1>8, <1>11, <2>1
    <3>2. CASE f = "line_items"
      <4>1. invoice'[f] = (invoice[f] \ c.loaded[f])
                            \cup IF p[f] = NULL THEN {} ELSE Rows(p[f], n)
        BY <1>1, <2>1, <3>2, FieldsAre DEF Edited, p
      <4>2. invoice[f] \ c.loaded[f] = {}
        BY <1>5, <2>1, <3>2
      <4> QED
        BY <3>1, <3>2, <4>1, <4>2 DEF Says
    <3>3. CASE f # "line_items"
      <4>1. f \in ScalarFields
        BY <3>3 DEF Fields
      <4>2. invoice'[f] = IF Assigns(c, f) THEN StoredField(f, p[f]) ELSE invoice[f]
        BY <1>1, <2>1, <3>3 DEF Edited, PatchValue, p
      <4>3. ~Assigns(c, f) => p[f] = invoice[f]
        BY <1>5, <2>1, <4>1 DEF Assigns, p
      <4>4. invoice'[f] = StoredField(f, p[f])
        BY <1>2, <4>1, <4>2, <4>3, StoredAgain
      <4> QED
        BY <3>1, <3>3, <4>4 DEF Says
    <3> QED
      BY <3>2, <3>3
  <2>2. CASE f \notin DOMAIN p
    <3>1. IsLastNamed(f, i) /\ log'[i] = log[i]
      BY <1>4, <1>9, <1>11, <2>2 DEF IsLastNamed
    <3>2. invoice'[f] = invoice[f]
      BY <1>1, <2>2 DEF Edited, Assigns, p
    <3>3. Says(invoice, f, i)
      BY <1>1, <1>2, <3>1, StoredIsSaid DEF EditInv, StoredIsWhatWasSaid
    <3> QED
      BY <3>1, <3>2, <3>3 DEF Says
  <2> QED
    BY <2>1, <2>2
<1>12. StoredIsLastWord'
  BY <1>2, <1>6, <1>10, <1>11, StoredIsSaidNext DEF StoredIsWhatWasSaid
<1> QED
  BY <1>10, <1>12 DEF EditInv, EachFieldWasNamed

LEMMA EditStep ==
  ASSUME ReviewInv, SoloInv, EditInv, [Next]_vars
  PROVE  EditInv'
<1>1. ASSUME UNCHANGED <<invoice, log>> PROVE EditInv'
  BY <1>1 DEF EditInv, HasInvoice, IsLastNamed, StoredIsLastWord, LastNamed
<1>2. ASSUME NEW w \in Workers, Step(w), ~PersistDraft(w), ~CommitEdit(w) PROVE EditInv'
  BY <1>1, <1>2, OtherSteps
<1>3. CASE DraftFails \/ UNCHANGED vars
  BY <1>1, <1>3 DEF DraftFails, vars
<1> QED
  BY <1>2, <1>3, PersistDraftSays, CommitEditSays DEF Next

\* In one process each field of the invoice is what the last commit that
\* named it said: no edit is lost, half applied or applied to a field it does
\* not name.
THEOREM StoredIsLastWordAlways == SoleWorker => (Spec => []StoredIsLastWord)
<1> SUFFICES ASSUME SoleWorker PROVE Spec => []StoredIsLastWord
  OBVIOUS
<1>1. ReviewInv /\ SoloInv /\ EditInv /\ [Next]_vars => EditInv'
  BY EditStep
<1>2. EditInv => StoredIsLastWord
  BY DEF EditInv
<1> QED
  BY <1>1, <1>2, InitEdit, SoloInvAlways, ReviewInvAlways, PTL DEF Spec
=============================================================================
