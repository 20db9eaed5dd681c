--------------------------- MODULE MCInvoiceExport ---------------------------
(***************************************************************************)
(* Small instances of InvoiceExport: three documents of two organizations, *)
(* invoices without errors that have two line items and none, and one with *)
(* an error.                                                               *)
(***************************************************************************)
EXTENDS InvoiceExport

CONSTANTS d1, d2, d3, two, none, wrong, i1, i2

MCDocuments == {d1, d2, d3}
MCOrgOf == [d \in MCDocuments |-> IF d = d3 THEN "other" ELSE "acme"]
MCContents == {two, none, wrong}
MCItemsOf == [c \in MCContents |-> CASE c = two -> <<i1, i2>> [] c = none -> <<>> [] c = wrong -> <<i2>>]
=============================================================================
