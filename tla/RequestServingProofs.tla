------------------------- MODULE RequestServingProofs -------------------------
(***************************************************************************)
(* RequestServing, for any number of requests, threads and connections:    *)
(* one handler runs at a time, and requests run out of connections only in *)
(* a crowd.  ServingInv is inductive.                                      *)
(***************************************************************************)
EXTENDS RequestServing, FiniteSetTheorems, TLAPS

\* Without its last conjunct, which counts.
LoopInv == TypeOK /\ LoopRunsOne /\ ConnectionIsOwned

LEMMA InitLoopInv == Init => LoopInv
<1> SUFFICES ASSUME Init PROVE LoopInv
  OBVIOUS
<1>1. TypeOK
  <2>1. conn \in [Requests -> BOOLEAN] /\ crowded \in BOOLEAN /\ loop = Nobody
    BY DEF Init
  <2>2. commits \in [Requests -> 0..MaxCommits]
    BY ServingAssumption DEF Init
  <2> QED
    BY <2>1, <2>2 DEF Init, TypeOK, RequestPC, Outcomes
<1>2. LoopRunsOne /\ ConnectionIsOwned
  BY ServingAssumption DEF Init, LoopRunsOne, OnLoop, ConnectionIsOwned
<1> QED
  BY <1>1, <1>2 DEF LoopInv

\* A step of one request that leaves the loop alone and does not move that
\* request onto it.
LEMMA OffLoopStep ==
  ASSUME LoopInv, NEW r \in Requests, NEW p \in RequestPC \ {"running", "recovering"},
         r \notin OnLoop, pc' = [pc EXCEPT ![r] = p], UNCHANGED <<kind, commits, loop>>,
         conn' \in [Requests -> BOOLEAN], \A s \in Requests : s # r => conn'[s] = conn[s],
         conn'[r] => p \notin {"arrived", "authenticating", "done"},
         outcome' \in [Requests -> Outcomes], crowded' \in BOOLEAN
  PROVE  LoopInv'
<1>1. /\ \A s \in Requests : pc'[s] = IF s = r THEN p ELSE pc[s]
      /\ pc' \in [Requests -> RequestPC]
  BY DEF LoopInv, TypeOK
<1>2. \A s \in Requests : s \in OnLoop' <=> s \in OnLoop
  BY <1>1 DEF OnLoop
<1>3. loop # Nobody => loop \in OnLoop
  BY DEF LoopInv, TypeOK
<1>4. loop' = loop /\ (loop' # Nobody => loop' \in OnLoop')
  BY <1>2, <1>3 DEF OnLoop
<1>5. TypeOK'
  BY <1>1, <1>4 DEF LoopInv, TypeOK
<1>6. LoopRunsOne'
  BY <1>2, <1>4 DEF LoopInv, LoopRunsOne
<1>7. ConnectionIsOwned'
  BY <1>1 DEF LoopInv, ConnectionIsOwned
<1> QED
  BY <1>5, <1>6, <1>7 DEF LoopInv

\* A step of the handler on the loop that stays on it.
LEMMA OnLoopStep ==
  ASSUME LoopInv, NEW r \in Requests, r \in OnLoop,
         NEW p \in {"running", "recovering"}, pc' = [pc EXCEPT ![r] = p],
         UNCHANGED <<kind, loop, crowded>>,
         conn' \in [Requests -> BOOLEAN], \A s \in Requests : s # r => conn'[s] = conn[s],
         commits' \in [Requests -> 0..MaxCommits], outcome' \in [Requests -> Outcomes]
  PROVE  LoopInv'
<1>1. /\ \A s \in Requests : pc'[s] = IF s = r THEN p ELSE pc[s]
      /\ pc' \in [Requests -> RequestPC]
  BY DEF LoopInv, TypeOK, RequestPC
<1>2. \A s \in Requests : s \in OnLoop' <=> s \in OnLoop
  BY <1>1 DEF OnLoop
<1>3. loop = r /\ loop' = r
  BY DEF LoopInv, LoopRunsOne
<1>4. TypeOK'
  BY <1>1, <1>2, <1>3 DEF LoopInv, TypeOK, OnLoop
<1>5. LoopRunsOne'
  BY <1>2, <1>3 DEF LoopInv, LoopRunsOne
<1>6. ConnectionIsOwned'
  BY <1>1 DEF LoopInv, ConnectionIsOwned, OnLoop
<1> QED
  BY <1>4, <1>5, <1>6 DEF LoopInv

\* The handler on the loop ends.
LEMMA LeaveLoopStep ==
  ASSUME LoopInv, NEW r \in Requests, r \in OnLoop,
         pc' = [pc EXCEPT ![r] = "closing"], loop' = Nobody, UNCHANGED <<kind, crowded>>,
         conn' \in [Requests -> BOOLEAN], \A s \in Requests : s # r => conn'[s] = conn[s],
         commits' \in [Requests -> 0..MaxCommits], outcome' \in [Requests -> Outcomes]
  PROVE  LoopInv'
<1>1. /\ \A s \in Requests : pc'[s] = IF s = r THEN "closing" ELSE pc[s]
      /\ pc' \in [Requests -> RequestPC]
  BY DEF LoopInv, TypeOK, RequestPC
<1>2. \A s \in Requests : s \in OnLoop => s = r
  BY DEF LoopInv, LoopRunsOne
<1>3. \A s \in Requests : s \notin OnLoop'
  BY <1>1, <1>2 DEF OnLoop
<1>4. TypeOK'
  BY <1>1 DEF LoopInv, TypeOK
<1>5. LoopRunsOne'
  BY <1>3, ServingAssumption DEF LoopRunsOne
<1>6. ConnectionIsOwned'
  BY <1>1 DEF LoopInv, ConnectionIsOwned
<1> QED
  BY <1>4, <1>5, <1>6 DEF LoopInv

LEMMA LoopInvStep ==
  ASSUME LoopInv, NEW r \in Requests, Step(r)
  PROVE  LoopInv'
<1>1. /\ pc \in [Requests -> RequestPC] /\ conn \in [Requests -> BOOLEAN]
      /\ outcome \in [Requests -> Outcomes] /\ commits \in [Requests -> 0..MaxCommits]
      /\ crowded \in BOOLEAN /\ ConnectionIsOwned
  BY DEF LoopInv, TypeOK
<1>2. \A o \in Outcomes : [outcome EXCEPT ![r] = o] \in [Requests -> Outcomes]
  BY <1>1
<1>3. \A c \in BOOLEAN : /\ [conn EXCEPT ![r] = c] \in [Requests -> BOOLEAN]
                         /\ \A s \in Requests : s # r => [conn EXCEPT ![r] = c][s] = conn[s]
  BY <1>1
<1>4. {"answered", "timed_out", "half_done"} \subseteq Outcomes
  BY DEF Outcomes
<1>5. [outcome EXCEPT ![r] = IF @ = "none" THEN "answered" ELSE @] \in [Requests -> Outcomes]
  BY <1>1 DEF Outcomes
<1>6. CASE Dispatch(r)
  <2>1. ~conn[r] /\ r \notin OnLoop
    BY <1>1, <1>6 DEF Dispatch, ConnectionIsOwned, OnLoop
  <2>2. PICK p \in {"ready", "authenticating"} : pc' = [pc EXCEPT ![r] = p]
    BY <1>6 DEF Dispatch, Goto
  <2>3. crowded' \in BOOLEAN
    BY <1>1, <1>6 DEF Dispatch
  <2> QED
    BY <1>1, <1>6, <2>1, <2>2, <2>3, OffLoopStep DEF Dispatch, RequestPC
<1>7. CASE BadToken(r) \/ ThreadTimesOut(r)
  <2>1. ~conn[r] /\ r \notin OnLoop
    BY <1>1, <1>7 DEF BadToken, ThreadTimesOut, ConnectionIsOwned, OnLoop
  <2>2. outcome' \in [Requests -> Outcomes]
    BY <1>2, <1>4, <1>7 DEF BadToken, ThreadTimesOut, Answer
  <2> QED
    BY <1>1, <1>7, <2>1, <2>2, OffLoopStep DEF BadToken, ThreadTimesOut, Goto, RequestPC
<1>8. CASE LoadUser(r)
  <2>1. PICK p \in {"ready", "denied"} : pc' = [pc EXCEPT ![r] = p]
    BY <1>8 DEF LoadUser, Goto
  <2>2. outcome' \in [Requests -> Outcomes]
    BY <1>1, <1>2, <1>4, <1>8 DEF LoadUser, Answer
  <2>3. /\ conn' \in [Requests -> BOOLEAN] /\ \A s \in Requests : s # r => conn'[s] = conn[s]
        /\ UNCHANGED <<kind, commits, loop, crowded>> /\ r \notin OnLoop
    BY <1>3, <1>8 DEF LoadUser, CheckOut, OnLoop
  <2> QED
    BY <1>1, <2>1, <2>2, <2>3, OffLoopStep DEF RequestPC
<1>9. CASE Deny(r) \/ AwaitBody(r) \/ ReadBody(r)
  <2>1. PICK p \in {"closing", "body", "body_read"} : pc' = [pc EXCEPT ![r] = p]
    BY <1>9 DEF Deny, AwaitBody, ReadBody, Goto
  <2>2. r \notin OnLoop
    BY <1>9 DEF Deny, AwaitBody, ReadBody, OnLoop
  <2> QED
    BY <1>1, <1>9, <2>1, <2>2, OffLoopStep DEF Deny, AwaitBody, ReadBody, RequestPC
<1>10. CASE Run(r)
  <2>1. /\ loop = Nobody /\ loop' = r /\ UNCHANGED <<kind, conn, commits, outcome, crowded>>
        /\ \A s \in Requests : pc'[s] = IF s = r THEN "running" ELSE pc[s]
        /\ pc' \in [Requests -> RequestPC]
    BY <1>1, <1>10 DEF Run, Goto, RequestPC
  <2>2. \A s \in Requests : s \notin OnLoop
    BY <2>1, ServingAssumption DEF LoopInv, LoopRunsOne
  <2>3. \A s \in Requests : s \in OnLoop' <=> s = r
    BY <2>1, <2>2 DEF OnLoop
  <2>4. TypeOK'
    BY <2>1, <2>3 DEF LoopInv, TypeOK
  <2>5. LoopRunsOne' /\ ConnectionIsOwned'
    BY <1>1, <2>1, <2>3 DEF LoopRunsOne, ConnectionIsOwned
  <2> QED
    BY <2>4, <2>5 DEF LoopInv
<1>11. CASE Reconnect(r)
  <2>1. /\ conn' \in [Requests -> BOOLEAN] /\ \A s \in Requests : s # r => conn'[s] = conn[s]
        /\ r \in OnLoop /\ UNCHANGED <<kind, pc, commits, outcome, loop, crowded>>
    BY <1>3, <1>11 DEF Reconnect, CheckOut
  <2>2. pc[r] \in {"running", "recovering"} /\ pc' = [pc EXCEPT ![r] = pc[r]]
    BY <1>1, <2>1 DEF OnLoop
  <2> QED
    BY <1>1, <2>1, <2>2, OnLoopStep
<1>12. CASE Commit(r)
  <2>1. /\ conn' \in [Requests -> BOOLEAN] /\ \A s \in Requests : s # r => conn'[s] = conn[s]
        /\ r \in OnLoop /\ UNCHANGED <<kind, crowded>>
    BY <1>3, <1>12 DEF Commit
  <2>2. commits' \in [Requests -> 0..MaxCommits]
    BY <1>1, <1>12, ServingAssumption DEF Commit
  <2>3. pc[r] \in {"running", "recovering"} /\ pc = [pc EXCEPT ![r] = pc[r]]
    BY <1>1, <2>1 DEF OnLoop
  <2>4. CASE UNCHANGED <<pc, outcome, loop>>
    BY <1>1, <2>1, <2>2, <2>3, <2>4, OnLoopStep
  <2>5. CASE Goto(r, "closing") /\ Settle(r) /\ loop' = Nobody
    BY <1>5, <2>1, <2>2, <2>5, LeaveLoopStep DEF Goto, Settle
  <2> QED
    BY <1>12, <2>4, <2>5 DEF Commit
<1>13. CASE PoolTimesOut(r)
  <2>1. r \in OnLoop /\ UNCHANGED <<kind, conn, commits, crowded>>
    BY <1>13 DEF PoolTimesOut
  <2>2. outcome' \in [Requests -> Outcomes]
    BY <1>2, <1>4, <1>13 DEF PoolTimesOut, Answer
  <2>3. CASE Goto(r, "recovering") /\ UNCHANGED loop
    BY <1>1, <2>1, <2>2, <2>3, OnLoopStep DEF Goto
  <2>4. CASE Goto(r, "closing") /\ loop' = Nobody
    BY <1>1, <2>1, <2>2, <2>4, LeaveLoopStep DEF Goto
  <2> QED
    BY <1>13, <2>3, <2>4 DEF PoolTimesOut
<1>14. CASE Return(r)
  BY <1>1, <1>5, <1>14, LeaveLoopStep DEF Return, Goto, Settle
<1>15. CASE Close(r)
  <2>1. r \notin OnLoop /\ conn' = [conn EXCEPT ![r] = FALSE] /\ ~conn'[r]
    BY <1>1, <1>15 DEF Close, OnLoop
  <2> QED
    BY <1>1, <1>3, <1>15, <2>1, OffLoopStep DEF Close, Goto, RequestPC
<1> QED
  BY <1>6, <1>7, <1>8, <1>9, <1>10, <1>11, <1>12, <1>13, <1>14, <1>15 DEF Step

----------------------------------------------------------------------------
(* Counting requests and connections.                                      *)

LEMMA RequestsAreFinite ==
  ASSUME NEW S \in SUBSET Requests
  PROVE  IsFiniteSet(S) /\ Cardinality(S) \in Nat
BY FS_Subset, FS_CardinalityType, ServingAssumption

\* Only the dispatch of a request adds to those in progress, and it looks.
LEMMA CrowdStep ==
  ASSUME LoopInv, CrowdIsNoticed, NEW r \in Requests, Step(r)
  PROVE  CrowdIsNoticed'
<1>1. pc \in [Requests -> RequestPC]
  BY DEF LoopInv, TypeOK
<1>2. InProgress \subseteq Requests /\ IsFiniteSet(InProgress) /\ Cardinality(InProgress) \in Nat
  BY RequestsAreFinite DEF InProgress
<1>3. InProgress' \subseteq Requests /\ IsFiniteSet(InProgress') /\ Cardinality(InProgress') \in Nat
  <2>1. InProgress' \subseteq Requests
    BY DEF InProgress
  <2> QED
    BY <2>1, RequestsAreFinite
<1>4. CASE Dispatch(r)
  <2>1. crowded' = (crowded \/ Cardinality(InProgress) >= PoolSize)
    BY <1>4 DEF Dispatch
  <2>2. \A s \in Requests : s # r => pc'[s] = pc[s]
    BY <1>1, <1>4 DEF Dispatch, Goto
  <2>3. InProgress' \subseteq InProgress \cup {r}
    BY <2>2 DEF InProgress
  <2>4. /\ IsFiniteSet(InProgress \cup {r})
        /\ Cardinality(InProgress \cup {r}) \in Nat
    BY <1>2, RequestsAreFinite
  <2>5. Cardinality(InProgress') <= Cardinality(InProgress \cup {r})
    BY <2>3, <2>4, FS_Subset
  <2>6. Cardinality(InProgress \cup {r}) <= Cardinality(InProgress) + 1
    <3>1. Cardinality(InProgress \cup {r}) =
            IF r \in InProgress THEN Cardinality(InProgress) ELSE Cardinality(InProgress) + 1
      BY <1>2, FS_AddElement
    <3> QED
      BY <1>2, <3>1
  <2>7. ASSUME Cardinality(InProgress') > PoolSize PROVE Cardinality(InProgress) >= PoolSize
    BY <1>2, <1>3, <2>4, <2>5, <2>6, <2>7, ServingAssumption
  <2> QED
    BY <2>1, <2>7 DEF CrowdIsNoticed
<1>5. CASE ~Dispatch(r)
  <2>1. /\ crowded' = crowded
        /\ \A s \in Requests : pc'[s] \notin {"arrived", "done"} => pc[s] \notin {"arrived", "done"}
    BY <1>1, <1>5
       DEF Step, BadToken, LoadUser, ThreadTimesOut, Deny, AwaitBody, ReadBody, Run, MayRun,
           Reconnect, Commit, PoolTimesOut, Return, Close, Goto, OnLoop
  <2>2. InProgress' \subseteq InProgress
    BY <2>1 DEF InProgress
  <2>3. Cardinality(InProgress') <= Cardinality(InProgress)
    BY <1>2, <2>2, FS_Subset
  <2> QED
    BY <1>2, <1>3, <2>1, <2>3, ServingAssumption DEF CrowdIsNoticed
<1> QED
  BY <1>4, <1>5

\* When the pool has no room for r, its connections and r are too many.
LEMMA ExhaustedTakesCrowd ==
  ASSUME LoopInv, CrowdIsNoticed, NEW r \in Requests, ~PoolHasRoom, ~conn[r], r \in InProgress
  PROVE  crowded
<1>1. CheckedOut \subseteq InProgress /\ r \notin CheckedOut
  BY DEF LoopInv, ConnectionIsOwned, CheckedOut, InProgress
<1>2. /\ IsFiniteSet(CheckedOut) /\ Cardinality(CheckedOut) \in Nat
      /\ IsFiniteSet(InProgress) /\ Cardinality(InProgress) \in Nat
  BY RequestsAreFinite DEF CheckedOut, InProgress
<1>3. Cardinality(CheckedOut \cup {r}) = Cardinality(CheckedOut) + 1
  BY <1>1, <1>2, FS_AddElement
<1>4. Cardinality(CheckedOut \cup {r}) <= Cardinality(InProgress)
  BY <1>1, <1>2, FS_Subset
<1>5. Cardinality(CheckedOut) >= PoolSize
  BY <1>2, ServingAssumption DEF PoolHasRoom
<1> QED
  BY <1>2, <1>3, <1>4, <1>5, ServingAssumption DEF CrowdIsNoticed

LEMMA TimeoutStep ==
  ASSUME LoopInv, CrowdIsNoticed, TimeoutTakesCrowd, NEW r \in Requests, Step(r)
  PROVE  TimeoutTakesCrowd'
<1>1. /\ outcome \in [Requests -> Outcomes] /\ conn \in [Requests -> BOOLEAN]
      /\ ConnectionIsOwned
  BY DEF LoopInv, TypeOK
<1>2. crowded => crowded'
  BY DEF Step, Dispatch, BadToken, LoadUser, ThreadTimesOut, Deny, AwaitBody, ReadBody, Run,
         Reconnect, Commit, PoolTimesOut, Return, Close
<1>3. CASE ThreadTimesOut(r) \/ PoolTimesOut(r)
  <2>1. ~PoolHasRoom /\ ~conn[r] /\ r \in InProgress
    BY <1>1, <1>3 DEF ThreadTimesOut, PoolTimesOut, ConnectionIsOwned, InProgress, OnLoop
  <2> QED
    BY <1>2, <2>1, ExhaustedTakesCrowd DEF TimeoutTakesCrowd
<1>4. CASE ~ThreadTimesOut(r) /\ ~PoolTimesOut(r)
  <2>1. \A s \in Requests :
          outcome'[s] \in {"timed_out", "half_done"} => outcome[s] \in {"timed_out", "half_done"}
    BY <1>1, <1>4
       DEF Step, Dispatch, BadToken, LoadUser, Deny, AwaitBody, ReadBody, Run, Reconnect,
           Commit, Return, Close, Answer, Settle, Outcomes
  <2> QED
    BY <1>2, <2>1 DEF TimeoutTakesCrowd
<1> QED
  BY <1>3, <1>4

----------------------------------------------------------------------------
LEMMA InitServingInv == Init => ServingInv
<1> SUFFICES ASSUME Init PROVE ServingInv
  OBVIOUS
<1>1. LoopInv
  BY InitLoopInv
<1>2. InProgress = {}
  BY DEF Init, InProgress
<1>3. CrowdIsNoticed
  BY <1>2, FS_EmptySet, ServingAssumption DEF CrowdIsNoticed
<1>4. TimeoutTakesCrowd
  BY DEF Init, TimeoutTakesCrowd
<1> QED
  BY <1>1, <1>3, <1>4 DEF ServingInv, LoopInv

LEMMA ServingInvStep == ServingInv /\ [Next]_vars => ServingInv'
<1> SUFFICES ASSUME ServingInv, [Next]_vars PROVE ServingInv'
  OBVIOUS
<1>1. CASE UNCHANGED vars
  BY <1>1
     DEF vars, ServingInv, TypeOK, LoopRunsOne, ConnectionIsOwned, CrowdIsNoticed,
         TimeoutTakesCrowd, OnLoop, InProgress
<1>2. ASSUME NEW r \in Requests, Step(r) PROVE ServingInv'
  <2>1. LoopInv'
    BY <1>2, LoopInvStep DEF ServingInv, LoopInv
  <2>2. CrowdIsNoticed'
    BY <1>2, CrowdStep DEF ServingInv, LoopInv
  <2>3. TimeoutTakesCrowd'
    BY <1>2, TimeoutStep DEF ServingInv, LoopInv
  <2> QED
    BY <2>1, <2>2, <2>3 DEF ServingInv, LoopInv
<1> QED
  BY <1>1, <1>2 DEF Next

LEMMA ServingInvAlways == Spec => []ServingInv
BY InitServingInv, ServingInvStep, PTL DEF Spec

\* The values of the variables, and that the loop names a running handler.
THEOREM ServingTypes == Spec => []TypeOK
<1>1. ServingInv => TypeOK
  BY DEF ServingInv
<1> QED
  BY <1>1, ServingInvAlways, PTL

\* With any pool and any number of requests, threads and commits: a request
\* is refused a connection only after more requests than the pool has
\* connections were in progress at once.
THEOREM TimeoutTakesCrowdAlways == Spec => []TimeoutTakesCrowd
<1>1. ServingInv => TimeoutTakesCrowd
  BY DEF ServingInv
<1> QED
  BY <1>1, ServingInvAlways, PTL

\* Handlers never interleave within a process, which is what lets one worker
\* of the service models stand for a process.
THEOREM OneHandlerAtATimeAlways == Spec => []OneHandlerAtATime
<1>1. ServingInv => OneHandlerAtATime
  BY DEF ServingInv, LoopRunsOne, OneHandlerAtATime, OnLoop
<1> QED
  BY <1>1, ServingInvAlways, PTL
=============================================================================
