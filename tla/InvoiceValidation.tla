-------------------------- MODULE InvoiceValidation --------------------------
(***************************************************************************)
(* What storing an invoice does to its numbers, and the deterministic      *)
(* checks of validate_invoice.                                             *)
(*                                                                         *)
(* Decimals are exact.  A written amount is a whole number of units of     *)
(* 1/Cent cent, so that it may be finer than the column that stores it; a  *)
(* written quantity is a whole number of units of 1/One.                   *)
(***************************************************************************)
EXTENDS Integers, Sequences

CONSTANTS
  Cent,          \* units of an amount in one cent, the last stored digit
  One,           \* units of a quantity in 1
  QuantityStep,  \* units of a quantity in its last stored digit, 0.0001
  MaxMoney,      \* the largest amount Numeric(14, 2) holds
  MaxQuantity,   \* the largest quantity Numeric(14, 4) holds
  NULL           \* a field without a value

ASSUME UnitAssumption ==
  /\ Cent \in Nat \ {0} /\ One \in Nat \ {0} /\ QuantityStep \in Nat \ {0}
  /\ MaxMoney \in Nat /\ MaxQuantity \in Nat
  /\ NULL \notin Int

Number   == Int \cup {NULL}
LineItem == [quantity : Number, unit_price : Number, amount : Number]

Abs(x) == IF x < 0 THEN -x ELSE x

\* A numeric column rounds half away from zero.
RoundUpHalf(step, x) ==
  LET r == x % step
  IN  IF 2 * r < step THEN x - r ELSE x - r + step

Round(step, x) == IF x < 0 THEN -RoundUpHalf(step, -x) ELSE RoundUpHalf(step, x)

\* Mutation of StoredMoney: the column keeps every digit it is given.
KeptMoney(x) == x

StoredMoney(x)    == IF x = NULL THEN NULL ELSE Round(Cent, x)
StoredQuantity(q) == IF q = NULL THEN NULL ELSE Round(QuantityStep, q)

\* PostgreSQL refuses a number that is too large once it is rounded.
Fits(stored, max) == stored # NULL => Abs(stored) <= max

\* The top-level fields of an invoice.  vendor_name stands for the eight
\* texts and dates: nothing is computed from them.
ScalarFields == {"vendor_name", "subtotal", "tax", "total"}
MoneyFields  == {"subtotal", "tax", "total"}

StoredField(f, value) == IF f \in MoneyFields THEN StoredMoney(value) ELSE value

\* The rows that commit n inserts for a list of line items: line_order is the
\* index in the list.
Rows(list, n) ==
  { [ commit     |-> n,
      order      |-> i - 1,
      quantity   |-> StoredQuantity(list[i].quantity),
      unit_price |-> StoredMoney(list[i].unit_price),
      amount     |-> StoredMoney(list[i].amount) ] : i \in DOMAIN list }

RowFits(row) ==
  /\ Fits(row.quantity, MaxQuantity)
  /\ Fits(row.unit_price, MaxMoney)
  /\ Fits(row.amount, MaxMoney)

----------------------------------------------------------------------------
\* validate_invoice compares with a tolerance of one cent.
FieldsMissing(invoice) ==
  {f \in ScalarFields : invoice[f] = NULL}
    \cup IF invoice.line_items = {} THEN {"line_items"} ELSE {}

\* Mutation of TotalMismatch: only a total that is too small is noticed.
TotalTooSmall(invoice) ==
  /\ \A f \in MoneyFields : invoice[f] # NULL
  /\ invoice.subtotal + invoice.tax - invoice.total > Cent

\* Mutation of TotalMismatch: a difference of one cent is too much already.
TotalNotExact(invoice) ==
  /\ \A f \in MoneyFields : invoice[f] # NULL
  /\ Abs(invoice.subtotal + invoice.tax - invoice.total) >= Cent

\* Without all three values there is nothing to compare.
TotalMismatch(invoice) ==
  /\ \A f \in MoneyFields : invoice[f] # NULL
  /\ Abs(invoice.subtotal + invoice.tax - invoice.total) > Cent

\* Mutation of LineMismatch: line items are compared exactly.
LineNotExact(row) ==
  /\ row.quantity # NULL /\ row.unit_price # NULL /\ row.amount # NULL
  /\ row.quantity * row.unit_price # One * row.amount

LineMismatch(row) ==
  /\ row.quantity # NULL /\ row.unit_price # NULL /\ row.amount # NULL
  /\ Abs(row.quantity * row.unit_price - One * row.amount) > One * Cent

\* The ERROR findings, which block approval: the total's, and those of the
\* line items by their position.
Errors(invoice) ==
  [ total |-> TotalMismatch(invoice),
    lines |-> {row.order : row \in {r \in invoice.line_items : LineMismatch(r)}} ]

NoErrors == [total |-> FALSE, lines |-> {}]

ValidateInvoice(invoice) ==
  [ errors          |-> Errors(invoice),
    warnings        |-> FieldsMissing(invoice),
    is_valid        |-> Errors(invoice) = NoErrors,
    requires_review |-> Errors(invoice) # NoErrors \/ FieldsMissing(invoice) # {} ]
=============================================================================
