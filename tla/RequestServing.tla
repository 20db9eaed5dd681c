---------------------------- MODULE RequestServing ----------------------------
(***************************************************************************)
(* One API process serving requests: an event loop, worker threads and the *)
(* connection pool of the engine.                                          *)
(*                                                                         *)
(* get_current_user is a plain function: it runs in a thread, and reading  *)
(* the user checks a connection out of the pool that the session keeps.    *)
(* The handlers are coroutines that never await a statement: each runs on  *)
(* the event loop until it returns, except that upload awaits its body.    *)
(* A commit returns the connection; the next statement asks the pool again *)
(* and, when the pool is exhausted, blocks the whole loop until another    *)
(* connection is returned or the pool's timeout has passed.                *)
(***************************************************************************)
EXTENDS Naturals, FiniteSets

CONSTANTS
  Requests,    \* requests that arrive
  PoolSize,    \* connections of the pool: pool_size and max_overflow
  Threads,     \* worker threads of the process
  MaxCommits,  \* bound: commits of one handler
  Nobody       \* the event loop is free

ASSUME ServingAssumption ==
  /\ IsFiniteSet(Requests) /\ Nobody \notin Requests
  /\ PoolSize \in Nat \ {0} /\ Threads \in Nat \ {0} /\ MaxCommits \in Nat

\* register and login need no user; upload is the handler that awaits.
Kinds == {"public", "protected", "upload"}

VARIABLES
  kind,      \* the endpoint of each request
  pc,        \* where each request is
  conn,      \* its session has a connection checked out
  commits,   \* commits of its handler so far
  outcome,   \* how it was answered
  loop,      \* the request whose handler the event loop is running
  crowded    \* more requests than connections were in progress at once

vars == <<kind, pc, conn, commits, outcome, loop, crowded>>

RequestPC ==
  {"arrived", "authenticating", "ready", "body", "body_read", "denied",
   "running", "recovering", "closing", "done"}

Outcomes == {"none", "answered", "timed_out", "half_done"}

InThread == {r \in Requests : pc[r] = "authenticating"}
CheckedOut == {r \in Requests : conn[r]}
InProgress == {r \in Requests : pc[r] \notin {"arrived", "done"}}
OnLoop == {r \in Requests : pc[r] \in {"running", "recovering"}}

\* The values each variable takes; the loop names a handler that is running.
TypeOK ==
  /\ kind \in [Requests -> Kinds]
  /\ pc \in [Requests -> RequestPC]
  /\ conn \in [Requests -> BOOLEAN]
  /\ commits \in [Requests -> 0..MaxCommits]
  /\ outcome \in [Requests -> Outcomes]
  /\ loop \in Requests \cup {Nobody}
  /\ loop # Nobody => loop \in OnLoop
  /\ crowded \in BOOLEAN

Init ==
  /\ kind \in [Requests -> Kinds]
  /\ pc = [r \in Requests |-> "arrived"]
  /\ conn = [r \in Requests |-> FALSE]
  /\ commits = [r \in Requests |-> 0]
  /\ outcome = [r \in Requests |-> "none"]
  /\ loop = Nobody
  /\ crowded = FALSE

Goto(r, p) == pc' = [pc EXCEPT ![r] = p]
Answer(r, o) == outcome' = [outcome EXCEPT ![r] = o]

PoolHasRoom == Cardinality(CheckedOut) < PoolSize
ThreadIsFree == Cardinality(InThread) < Threads

CheckOut(r) ==
  /\ PoolHasRoom
  /\ conn' = [conn EXCEPT ![r] = TRUE]

----------------------------------------------------------------------------
\* The loop looks at a new request and has its dependencies called in a
\* thread; register and login depend on the settings and on a session, which
\* are made there without waiting for anything.
Dispatch(r) ==
  /\ pc[r] = "arrived"
  /\ loop = Nobody
  /\ ThreadIsFree
  /\ Goto(r, IF kind[r] = "public" THEN "ready" ELSE "authenticating")
  /\ crowded' = (crowded \/ Cardinality(InProgress) >= PoolSize)
  /\ UNCHANGED <<kind, conn, commits, outcome, loop>>

\* Without a valid token get_current_user raises before it needs a connection.
BadToken(r) ==
  /\ pc[r] = "authenticating"
  /\ Goto(r, "denied")
  /\ Answer(r, "answered")
  /\ UNCHANGED <<kind, conn, commits, loop, crowded>>

\* db.get(User): the session keeps the connection, whether or not the user
\* is found active.
LoadUser(r) ==
  /\ pc[r] = "authenticating"
  /\ CheckOut(r)
  /\ \/ Goto(r, "ready") /\ UNCHANGED outcome
     \/ Goto(r, "denied") /\ Answer(r, "answered")
  /\ UNCHANGED <<kind, commits, loop, crowded>>

\* The pool gives up waiting for a connection in the thread.
ThreadTimesOut(r) ==
  /\ pc[r] = "authenticating"
  /\ ~PoolHasRoom
  /\ Goto(r, "denied")
  /\ Answer(r, "timed_out")
  /\ UNCHANGED <<kind, conn, commits, loop, crowded>>

\* The coroutine goes on with the dependency's exception.
Deny(r) ==
  /\ pc[r] = "denied"
  /\ loop = Nobody
  /\ Goto(r, "closing")
  /\ UNCHANGED <<kind, conn, commits, outcome, loop, crowded>>

----------------------------------------------------------------------------
\* upload first awaits its body, which is read in a thread; meanwhile its
\* session keeps the connection.
AwaitBody(r) ==
  /\ pc[r] = "ready" /\ kind[r] = "upload"
  /\ loop = Nobody
  /\ Goto(r, "body")
  /\ UNCHANGED <<kind, conn, commits, outcome, loop, crowded>>

ReadBody(r) ==
  /\ pc[r] = "body"
  /\ ThreadIsFree
  /\ Goto(r, "body_read")
  /\ UNCHANGED <<kind, conn, commits, outcome, loop, crowded>>

MayRun(r) == pc[r] = IF kind[r] = "upload" THEN "body_read" ELSE "ready"

\* Mutation of Run: the handlers are plain functions, run in threads.
RunInThread(r) ==
  /\ MayRun(r)
  /\ loop' = r
  /\ Goto(r, "running")
  /\ UNCHANGED <<kind, conn, commits, outcome, crowded>>

\* The handler runs from here on without leaving the loop.
Run(r) ==
  /\ MayRun(r)
  /\ loop = Nobody
  /\ loop' = r
  /\ Goto(r, "running")
  /\ UNCHANGED <<kind, conn, commits, outcome, crowded>>

\* A statement of a session without a connection waits for one; the loop
\* waits with it.
Reconnect(r) ==
  /\ r \in OnLoop
  /\ ~conn[r]
  /\ CheckOut(r)
  /\ UNCHANGED <<kind, pc, commits, outcome, loop, crowded>>

\* A handler that ends was answered for, unless it ran out of connections.
Settle(r) == outcome' = [outcome EXCEPT ![r] = IF @ = "none" THEN "answered" ELSE @]

\* The session gives its connection back at each commit.  The handlers go on
\* with a refresh, except after mark_failed, which ends them.
Commit(r) ==
  /\ r \in OnLoop
  /\ conn[r] /\ commits[r] < MaxCommits
  /\ conn' = [conn EXCEPT ![r] = FALSE]
  /\ commits' = [commits EXCEPT ![r] = @ + 1]
  /\ \/ UNCHANGED <<pc, outcome, loop>>
     \/ /\ Goto(r, "closing")
        /\ Settle(r)
        /\ loop' = Nobody
  /\ UNCHANGED <<kind, crowded>>

\* Mutation of PoolTimesOut: a statement waits for a connection for ever.
PoolWaits(r) == FALSE /\ UNCHANGED vars

\* The pool gives up: the statement raises.  A handler that catches it rolls
\* back and may try to record the failure; the second time it just raises.
PoolTimesOut(r) ==
  /\ r \in OnLoop
  /\ ~conn[r] /\ ~PoolHasRoom
  /\ Answer(r, IF commits[r] = 0 THEN "timed_out" ELSE "half_done")
  /\ \/ /\ pc[r] = "running"
        /\ Goto(r, "recovering")
        /\ UNCHANGED loop
     \/ /\ Goto(r, "closing")
        /\ loop' = Nobody
  /\ UNCHANGED <<kind, conn, commits, crowded>>

\* The handler returns its answer or raises an error of its own.
Return(r) ==
  /\ r \in OnLoop
  /\ conn[r]
  /\ Goto(r, "closing")
  /\ Settle(r)
  /\ loop' = Nobody
  /\ UNCHANGED <<kind, conn, commits, crowded>>

\* Mutation of Close: the session is not closed and keeps its connection.
CloseWithoutSession(r) ==
  /\ pc[r] = "closing"
  /\ Goto(r, "done")
  /\ UNCHANGED <<kind, conn, commits, outcome, loop, crowded>>

\* get_db closes the session, in a thread that is not one of the workers.
Close(r) ==
  /\ pc[r] = "closing"
  /\ conn' = [conn EXCEPT ![r] = FALSE]
  /\ Goto(r, "done")
  /\ UNCHANGED <<kind, commits, outcome, loop, crowded>>

Step(r) ==
  \/ Dispatch(r) \/ BadToken(r) \/ LoadUser(r) \/ ThreadTimesOut(r) \/ Deny(r)
  \/ AwaitBody(r) \/ ReadBody(r) \/ Run(r) \/ Reconnect(r) \/ Commit(r)
  \/ PoolTimesOut(r) \/ Return(r) \/ Close(r)

Next == \E r \in Requests : Step(r)

Spec == Init /\ [][Next]_vars

\* The loop and the threads go on with whatever can go on, and the pool's
\* timeout passes.
FairSpec == Spec /\ \A r \in Requests : WF_vars(Step(r))

----------------------------------------------------------------------------
\* A request fails for want of a connection, and in particular half done,
\* after a first commit, only if more requests than the pool has connections
\* were in progress at once: every session is closed, so none is lost.
TimeoutTakesCrowd ==
  \A r \in Requests : outcome[r] \in {"timed_out", "half_done"} => crowded

\* At most one handler has begun with its statements and not returned: a
\* process serves one call of a service at a time, whatever waits around it.
\* What the models of the services call one worker is one process.
OneHandlerAtATime == \A r, s \in OnLoop : r = s

\* However the loop, the threads and the pool wait for each other, every
\* request ends: what looks like a deadlock lasts until a timeout.
EveryRequestEnds == \A r \in Requests : <>(pc[r] = "done")

\* What makes TimeoutTakesCrowd and OneHandlerAtATime inductive: the loop
\* names the one handler on it, a connection belongs to a request in progress
\* that is past reading its user, and too many of those are a crowd.
LoopRunsOne == \A r \in Requests : r \in OnLoop <=> r = loop

ConnectionIsOwned ==
  \A r \in Requests : conn[r] => pc[r] \notin {"arrived", "authenticating", "done"}

CrowdIsNoticed == Cardinality(InProgress) > PoolSize => crowded

ServingInv == TypeOK /\ LoopRunsOne /\ ConnectionIsOwned /\ CrowdIsNoticed /\ TimeoutTakesCrowd
=============================================================================
