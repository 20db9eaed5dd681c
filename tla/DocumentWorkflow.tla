--------------------------- MODULE DocumentWorkflow ---------------------------
(***************************************************************************)
(* What the system promises about a document, without requests, jobs,      *)
(* files, sessions or faults: it gets an invoice at most once, the invoice *)
(* is offered for review before anybody decides about it, only invoices    *)
(* without errors are approved, and there is one verdict, after which the  *)
(* invoice does not change.  Processing can start again at any time.       *)
(***************************************************************************)

CONSTANTS Documents, Contents, Clean, NoDraft

VARIABLES
  phase,    \* what may be done about each document
  invoice,  \* its invoice, or NoDraft
  verdict   \* what was decided about it

workflowVars == <<phase, invoice, verdict>>

Init ==
  /\ phase = [d \in Documents |-> "processing"]
  /\ invoice = [d \in Documents |-> NoDraft]
  /\ verdict = [d \in Documents |-> "none"]

\* The document gets the only invoice it will have.
Extract(d) ==
  /\ phase[d] = "processing" /\ invoice[d] = NoDraft
  /\ \E c \in Contents : invoice' = [invoice EXCEPT ![d] = c]
  /\ UNCHANGED <<phase, verdict>>

Offer(d) ==
  /\ phase[d] = "processing" /\ invoice[d] # NoDraft /\ verdict[d] = "none"
  /\ phase' = [phase EXCEPT ![d] = "review"]
  /\ UNCHANGED <<invoice, verdict>>

Edit(d) ==
  /\ phase[d] = "review"
  /\ \E c \in Contents : invoice' = [invoice EXCEPT ![d] = c]
  /\ UNCHANGED <<phase, verdict>>

Decide(d, v) ==
  /\ phase[d] = "review" /\ verdict[d] = "none"
  /\ v = "approved" => invoice[d] \in Clean
  /\ phase' = [phase EXCEPT ![d] = v]
  /\ verdict' = [verdict EXCEPT ![d] = v]
  /\ UNCHANGED invoice

\* Text is extracted again: the document leaves review, or its verdict is no
\* longer shown, but the verdict and the invoice stay.
Reprocess(d) ==
  /\ phase' = [phase EXCEPT ![d] = "processing"]
  /\ UNCHANGED <<invoice, verdict>>

Next ==
  \E d \in Documents :
    \/ Extract(d) \/ Offer(d) \/ Edit(d) \/ Reprocess(d)
    \/ Decide(d, "approved") \/ Decide(d, "rejected")

Spec == Init /\ [][Next]_workflowVars
=============================================================================
