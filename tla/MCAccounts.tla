------------------------------ MODULE MCAccounts ------------------------------
(***************************************************************************)
(* Small instances of Accounts: an email two clients register, one whose   *)
(* organization's name is too long, and passwords of which two differ only *)
(* after their 72nd byte: 40 characters of two bytes each.                 *)
(***************************************************************************)
EXTENDS Accounts

CONSTANTS w1, w2, r1

MCWorkers == {w1, w2}
MCRequests == {r1}
MCEmails == {"ann", "bob", "long"}
MCLongEmails == {"long"}

Short == [head |-> "short", tail |-> "", chars |-> 8]
Tiny == [head |-> "tiny", tail |-> "", chars |-> 3]
Wide(t) == [head |-> "wide", tail |-> t, chars |-> 40]

\* What clients type; one could not be registered with.
ShortPasswords == {Short, Wide("x"), Tiny}
WidePasswords == {Wide("x"), Wide("y")}
=============================================================================
