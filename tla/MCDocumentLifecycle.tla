------------------------- MODULE MCDocumentLifecycle -------------------------
(***************************************************************************)
(* Small instances of DocumentLifecycle for TLC.                           *)
(***************************************************************************)
EXTENDS DocumentLifecycle, TLC

CONSTANTS d1, u1, u2, w1, w2, good, bad

MCDocuments == {d1}
MCUsers == {u1, u2}
\* u1 and the document are in the same organization, u2 is in another.
MCOrgOf == [x \in {d1, u1, u2} |-> IF x = u2 THEN 2 ELSE 1]
MCContents == {good, bad}
MCClean == {good}
MCOneWorker == {w1}
MCTwoWorkers == {w1, w2}

\* Two workers differ in name only.
MCSymmetry == Permutations(MCTwoWorkers)
=============================================================================
