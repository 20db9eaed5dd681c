--------------------------- MODULE MCServedExport ---------------------------
(***************************************************************************)
(* Small instances of ServedExport: one process serves the API and one     *)
(* exports; clean contents have a line item, the others have none.         *)
(***************************************************************************)
EXTENDS ServedExport

CONSTANTS d1, u1, u2, w1, w2, x1, good, bad, i1

MCDocuments == {d1}
MCUsers == {u1, u2}
\* u1 and the document are in the same organization, u2 is in another.
MCOrgOf == [x \in {d1, u1, u2} |-> IF x = u2 THEN "theirs" ELSE "ours"]
MCContents == {good, bad}
MCClean == {good}
MCItemsOf == [c \in MCContents |-> IF c = good THEN <<i1>> ELSE <<>>]
MCOneWorker == {w1}
MCTwoWorkers == {w1, w2}
MCExporters == {x1}
=============================================================================
