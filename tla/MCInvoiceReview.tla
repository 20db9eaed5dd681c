--------------------------- MODULE MCInvoiceReview ---------------------------
(***************************************************************************)
(* Small instances of InvoiceReview: an amount is written to half a cent,  *)
(* so that 1, 3 and 5 are rounded, and no column holds more than 6; a      *)
(* quantity is written to a quarter of a piece and stored to half a piece, *)
(* so that 3, 5 and 17 are rounded, the last to more than 16.              *)
(***************************************************************************)
EXTENDS InvoiceReview

CONSTANTS w1, w2

OneWorker == {w1}
TwoWorkers == {w1, w2}

Line(q, p, a) == [quantity |-> q, unit_price |-> p, amount |-> a]

\* Lines that add up, the second to half a cent, one that does not, one
\* without a price, one that only adds up before it is rounded.
MCLines ==
  {Line(8, 2, 4), Line(2, 2, 1), Line(5, 2, 6), Line(8, NULL, 2), Line(16, 1, 4)}

MCLists == {<<>>} \cup {<<l>> : l \in MCLines} \cup {<<Line(4, 2, 2), Line(4, 4, 4)>>}

MCDrafts ==
  { [vendor_name |-> v, subtotal |-> s, tax |-> t, total |-> s + t + e, line_items |-> l] :
      v \in {"Acme"}, s \in {1, 3}, t \in {0, 1}, e \in {0, 5}, l \in MCLists }

MCPatches ==
  { [total |-> 2], [total |-> 3], [total |-> NULL], [total |-> 7],
    [subtotal |-> 5, tax |-> 1], [subtotal |-> 4, line_items |-> <<>>],
    [vendor_name |-> NULL, line_items |-> NULL],
    [line_items |-> <<Line(3, 1, 1)>>],
    [line_items |-> <<Line(4, 2, 6), Line(4, 2, 2)>>],
    [total |-> 4, line_items |-> <<Line(17, 1, NULL)>>] }
=============================================================================
