------------------------------- MODULE Review -------------------------------
(***************************************************************************)
(* Human review: PATCH invoice, approve and reject.  Each call looks the   *)
(* document up, requires REVIEW_REQUIRED, loads the invoice, and commits.  *)
(***************************************************************************)
EXTENDS DocumentStore

\* Mutation of MayReview: any document with a draft can be reviewed.
AnyDraftMayBeReviewed(d) == draft[d] # NoDraft

\* Only a document that was REVIEW_REQUIRED when the call looked it up may
\* be edited, approved or rejected; any other is answered 409.
MayReview(d) == status[d] = "REVIEW_REQUIRED"

BeginReview(w, u, d, loadPC) ==
  /\ sess[w] = NoSession
  /\ MayAccess(u, d)
  /\ MayReview(d)
  /\ sess' = [sess EXCEPT ![w] =
       [ pc |-> loadPC, doc |-> d, user |-> u, loaded |-> status[d],
         job |-> 0, held |-> NoDraft ]]
  /\ UNCHANGED <<rowVars, jobs, pdf, artifact, faults>>

BeginEdit(w, u, d)    == BeginReview(w, u, d, "load_edit")
BeginApprove(w, u, d) == BeginReview(w, u, d, "load_approve")
BeginReject(w, u, d)  == BeginReview(w, u, d, "load_reject")

\* Mutation of PassesGate: validation is not run again before approval.
NoGate(content) == TRUE

\* Approval re-runs validate_invoice on the invoice it loaded, and is
\* answered 409 if there are errors.
PassesGate(content) == content \in Clean

\* The invoice and its line items as this session sees them; without an
\* invoice the call raises MissingDraftInvoiceError.
AfterLoad(p, content) ==
  IF content = NoDraft THEN "idle"
  ELSE CASE p = "load_edit"    -> "commit_edit"
         [] p = "load_reject"  -> "commit_reject"
         [] p = "load_approve" -> IF PassesGate(content) THEN "commit_approve" ELSE "idle"

LoadInvoice(w) ==
  /\ sess[w].pc \in {"load_edit", "load_approve", "load_reject"}
  /\ Goto(w, AfterLoad(sess[w].pc, draft[Doc(w)]))
  /\ UNCHANGED <<rowVars, jobs, pdf, artifact, faults>>

\* The fields sent replace those of the row, line items as a whole; with
\* the fields left alone the row may come to say anything.
CommitEdit(w) ==
  /\ At(w, "commit_edit")
  /\ \E c \in Contents : draft' = [draft EXCEPT ![Doc(w)] = c]
  /\ Goto(w, "idle")
  /\ UNCHANGED <<status, textKey, approvedBy, rejectedBy, jobs, pdf, artifact, faults>>

\* Mutation of CommitApproval: only the document is updated.
ApproveDocumentOnly(w) ==
  /\ At(w, "commit_approve")
  /\ WriteStatus(w, "APPROVED")
  /\ Goto(w, "idle")
  /\ UNCHANGED <<textKey, draft, approvedBy, rejectedBy, jobs, pdf, artifact, faults>>

CommitApproval(w) ==
  /\ At(w, "commit_approve")
  /\ approvedBy' = [approvedBy EXCEPT ![Doc(w)] = sess[w].user]
  /\ WriteStatus(w, "APPROVED")
  /\ Goto(w, "idle")
  /\ UNCHANGED <<textKey, draft, rejectedBy, jobs, pdf, artifact, faults>>

CommitRejection(w) ==
  /\ At(w, "commit_reject")
  /\ rejectedBy' = [rejectedBy EXCEPT ![Doc(w)] = sess[w].user]
  /\ WriteStatus(w, "REJECTED")
  /\ Goto(w, "idle")
  /\ UNCHANGED <<textKey, draft, approvedBy, jobs, pdf, artifact, faults>>

\* The database refuses the edit's values, or a statement raises: the
\* handler rolls back and answers DatabaseError; no row changes.
ReviewAborts(w) ==
  /\ sess[w].pc \in ReviewPC
  /\ Goto(w, "idle")
  /\ UNCHANGED <<rowVars, jobs, pdf, artifact, faults>>
=============================================================================
