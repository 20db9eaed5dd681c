---------------------------- MODULE AccountsProofs ----------------------------
(***************************************************************************)
(* Accounts, for any number of processes, emails and passwords: who was    *)
(* told of an account has it, registration leaves no organization behind,  *)
(* and requests are let in only for users that were active when they       *)
(* began.  AccountsInv is inductive.                                       *)
(***************************************************************************)
EXTENDS Accounts, TLAPS

LEMMA InitAccountsInv == Init => AccountsInv
<1> SUFFICES ASSUME Init PROVE AccountsInv
  OBVIOUS
<1>1. TypeOK
  BY AccountsAssumption DEF Init, TypeOK, UserIds
<1>2. UsersAreDistinct /\ UsersHaveOrganizations
  BY DEF Init, UsersAreDistinct, UsersHaveOrganizations
<1>3. CommittedHasAccount
  BY DEF Init, CommittedHasAccount, NoCall
<1>4. TokensAreEarned /\ RequestsAreFollowed
  BY DEF Init, TokensAreEarned, NoCall, RequestsAreFollowed
<1> QED
  BY <1>1, <1>2, <1>3, <1>4 DEF AccountsInv

\* What a step that writes no user keeps.
LEMMA AccountsKept ==
  ASSUME AccountsInv, UNCHANGED <<orgs, users>>
  PROVE  /\ orgs' \subseteq UserIds' /\ users' \subseteq User'
         /\ UsersAreDistinct' /\ UsersHaveOrganizations'
         /\ \A r : HasAccount(r)' <=> HasAccount(r)
         /\ \A id, typed : Earned(id, typed)' <=> Earned(id, typed)
         /\ \A id : IsActive(id)' <=> IsActive(id)
BY DEF AccountsInv, TypeOK, UserIds, User, Heads, UsersAreDistinct, UsersHaveOrganizations,
       HasAccount, Earned, IsActive

LEMMA RequestsKept ==
  ASSUME RequestsAreFollowed, UNCHANGED <<users, req>>, tokens \subseteq tokens'
  PROVE  RequestsAreFollowed'
BY DEF RequestsAreFollowed, IsActive

\* A step that only moves one worker's call.
LEMMA MoveCall ==
  ASSUME AccountsInv, NEW w \in Workers, NEW c \in {NoCall} \cup Registration \cup Login,
         c.pc # "refresh", c.pc = "issue" => Earned(c.user, c.password),
         call' = [call EXCEPT ![w] = c],
         UNCHANGED <<orgs, users, told, tokens, req, now>>
  PROVE  AccountsInv'
<1>1. TypeOK'
  BY AccountsKept DEF AccountsInv, TypeOK
<1>2. \A v \in Workers : call'[v] = IF v = w THEN c ELSE call[v]
  BY DEF AccountsInv, TypeOK
<1>3. CommittedHasAccount'
  BY <1>2, AccountsKept DEF AccountsInv, CommittedHasAccount
<1>4. TokensAreEarned'
  BY <1>2, AccountsKept DEF AccountsInv, TokensAreEarned
<1> QED
  BY <1>1, <1>3, <1>4, AccountsKept, RequestsKept DEF AccountsInv

LEMMA CommitUserKeeps ==
  ASSUME AccountsInv, NEW w \in Workers, CommitUser(w)
  PROVE  AccountsInv'
<1> DEFINE c == call[w]
<1>1. PICK id \in UserIds \ orgs :
        /\ orgs' = orgs \cup {id}
        /\ users' = users \cup
             {[ id |-> id, org |-> id, email |-> c.email, active |-> TRUE,
                password |-> c.password, hashed |-> HashPassword(c.password) ]}
  BY DEF CommitUser
<1>2. c \in Registration /\ c.pc = "commit"
  BY DEF AccountsInv, TypeOK, CommitUser, NoCall, Login
<1> DEFINE new == [ id |-> id, org |-> id, email |-> c.email, active |-> TRUE,
                    password |-> c.password, hashed |-> HashPassword(c.password) ]
           moved == [c EXCEPT !.pc = "refresh"]
<1>3. moved \in Registration /\ moved.email = c.email /\ moved.password = c.password
  BY <1>2 DEF Registration
<1>4. /\ call' = [call EXCEPT ![w] = moved]
      /\ UNCHANGED <<told, tokens, req, now>>
      /\ \A u \in users : u.email # c.email
  BY DEF CommitUser, EmailIsFree
<1>5. HashPassword(c.password) \in Heads
  BY <1>2 DEF Registration, HashPassword, Heads
<1>6. /\ new \in User /\ new.id = id /\ new.org = id
      /\ new.email = c.email /\ new.password = c.password
  BY <1>1, <1>2, <1>5 DEF Registration, User
<1>13. moved.pc = "refresh"
  BY <1>2 DEF Registration
<1>7. users' = users \cup {new}
  BY <1>1
<1> HIDE DEF c, new, moved
<1>8. TypeOK'
  <2>1. users' \subseteq User'
    BY <1>6, <1>7 DEF AccountsInv, TypeOK, User, UserIds, Heads
  <2>2. orgs' \subseteq UserIds' /\ call' \in [Workers -> {NoCall} \cup Registration \cup Login]
    BY <1>1, <1>3, <1>4 DEF AccountsInv, TypeOK, UserIds
  <2> QED
    BY <1>4, <2>1, <2>2 DEF AccountsInv, TypeOK, UserIds
<1>9. UsersAreDistinct'
  <2>1. \A u \in users : u.id # id /\ u.email # c.email
    BY <1>1, <1>4 DEF AccountsInv, UsersHaveOrganizations
  <2> QED
    BY <1>6, <1>7, <2>1 DEF AccountsInv, UsersAreDistinct
<1>10. UsersHaveOrganizations'
  BY <1>1, <1>6, <1>7 DEF AccountsInv, UsersHaveOrganizations
<1>11. \A r : HasAccount(r) => HasAccount(r)'
  BY <1>7 DEF HasAccount
<1>12. CommittedHasAccount'
  <2>1. \E u \in users' : u.email = moved.email /\ u.password = moved.password
    BY <1>3, <1>6, <1>7
  <2>2. \A v \in Workers : call'[v] = IF v = w THEN moved ELSE call[v]
    BY <1>4 DEF AccountsInv, TypeOK
  <2>3. ASSUME NEW v \in Workers, call'[v].pc = "refresh"
        PROVE  \E u \in users' : u.email = call'[v].email /\ u.password = call'[v].password
    <3>1. CASE v = w
      BY <2>1, <2>2, <3>1
    <3>2. CASE v # w
      <4>1. call'[v] = call[v] /\ HasAccount(call[v])
        BY <2>2, <2>3, <3>2 DEF AccountsInv, CommittedHasAccount
      <4> QED
        BY <1>7, <4>1 DEF HasAccount
    <3> QED
      BY <3>1, <3>2
  <2>4. \A t \in told' : HasAccount(t)'
    BY <1>4, <1>11 DEF AccountsInv, CommittedHasAccount
  <2> QED
    BY <2>3, <2>4 DEF CommittedHasAccount, HasAccount
<1>14. TokensAreEarned'
  <2>1. \A v \in Workers : call'[v].pc = "issue" => call'[v] = call[v]
    BY <1>4, <1>13 DEF AccountsInv, TypeOK
  <2>2. \A i, typed : Earned(i, typed) => Earned(i, typed)'
    BY <1>7 DEF Earned
  <2> QED
    BY <1>4, <2>1, <2>2 DEF AccountsInv, TokensAreEarned
<1>15. RequestsAreFollowed'
  <2>1. \A t \in tokens : t.user # id
    BY <1>1 DEF AccountsInv, TokensAreEarned, Earned, UsersHaveOrganizations
  <2>2. \A t \in tokens : IsActive(t.user)' => IsActive(t.user)
    BY <1>6, <1>7, <2>1 DEF IsActive
  <2> QED
    BY <1>4, <2>2 DEF AccountsInv, RequestsAreFollowed
<1> QED
  BY <1>8, <1>9, <1>10, <1>12, <1>14, <1>15 DEF AccountsInv

LEMMA AnswerCreatedKeeps ==
  ASSUME AccountsInv, NEW w \in Workers, AnswerCreated(w)
  PROVE  AccountsInv'
<1> DEFINE new == [email |-> call[w].email, password |-> call[w].password]
<1>1. call[w] \in Registration /\ HasAccount(call[w])
  BY DEF AccountsInv, TypeOK, AnswerCreated, NoCall, Login, CommittedHasAccount
<1>2. /\ told' = told \cup {new} /\ call' = [call EXCEPT ![w] = NoCall]
      /\ UNCHANGED <<orgs, users, tokens, req, now>>
  BY DEF AnswerCreated, Finish
<1>3. new \in [email : Emails, password : Passwords] /\ HasAccount(new)
  BY <1>1 DEF Registration, HasAccount
<1> HIDE DEF new
<1>4. TypeOK'
  BY <1>2, <1>3, AccountsKept DEF AccountsInv, TypeOK
<1>5. \A v \in Workers : call'[v] = call[v] \/ call'[v].pc = "idle"
  BY <1>2 DEF AccountsInv, TypeOK, NoCall
<1>6. CommittedHasAccount'
  BY <1>2, <1>3, <1>5, AccountsKept DEF AccountsInv, CommittedHasAccount
<1>7. TokensAreEarned'
  BY <1>2, <1>5, AccountsKept DEF AccountsInv, TokensAreEarned
<1> QED
  BY <1>2, <1>4, <1>6, <1>7, AccountsKept, RequestsKept DEF AccountsInv

LEMMA IssueTokenKeeps ==
  ASSUME AccountsInv, NEW w \in Workers, IssueToken(w)
  PROVE  AccountsInv'
<1> DEFINE c == call[w]
           new == [user |-> c.user, iat |-> now, exp |-> now + Lifetime, typed |-> c.password]
<1>1. c \in Login /\ Earned(c.user, c.password) /\ now \in Nat /\ Lifetime \in Nat
  BY AccountsAssumption
     DEF AccountsInv, TypeOK, IssueToken, NoCall, Registration, TokensAreEarned
<1>2. /\ tokens' = tokens \cup {new} /\ call' = [call EXCEPT ![w] = NoCall]
      /\ UNCHANGED <<orgs, users, told, req, now>>
  BY DEF IssueToken, Finish
<1>3. /\ new \in Token /\ new.exp = new.iat + Lifetime
      /\ Earned(new.user, new.typed)
  BY <1>1 DEF Login, Token
<1> HIDE DEF c, new
<1>4. TypeOK'
  BY <1>2, <1>3, AccountsKept DEF AccountsInv, TypeOK
<1>5. \A v \in Workers : call'[v] = call[v] \/ call'[v].pc = "idle"
  BY <1>2 DEF AccountsInv, TypeOK, NoCall
<1>6. CommittedHasAccount'
  BY <1>2, <1>5, AccountsKept DEF AccountsInv, CommittedHasAccount
<1>7. TokensAreEarned'
  BY <1>2, <1>3, <1>5, AccountsKept DEF AccountsInv, TokensAreEarned
<1> QED
  BY <1>2, <1>4, <1>6, <1>7, AccountsKept, RequestsKept DEF AccountsInv

LEMMA CallKeeps ==
  ASSUME AccountsInv, NEW w \in Workers, Call(w)
  PROVE  AccountsInv'
<1>1. ASSUME NEW e \in Emails, NEW p \in Passwords, BeginRegister(w, e, p)
      PROVE  AccountsInv'
  <2>1. [pc |-> "flush", email |-> e, password |-> p] \in Registration
    BY DEF Registration
  <2> QED
    BY <1>1, <2>1, MoveCall DEF BeginRegister
<1>2. CASE FlushOrganization(w)
  <2>1. call[w] \in Registration
    BY <1>2 DEF FlushOrganization, AccountsInv, TypeOK, NoCall, Login
  <2>2. /\ [call[w] EXCEPT !.pc = "commit"] \in Registration
        /\ [call[w] EXCEPT !.pc = "commit"].pc = "commit"
    BY <2>1 DEF Registration
  <2>3. call' = [call EXCEPT ![w] = [call[w] EXCEPT !.pc = "commit"]]
    BY <1>2 DEF FlushOrganization
  <2> QED
    BY <1>2, <2>2, <2>3, MoveCall DEF FlushOrganization
<1>3. ASSUME NEW e \in Emails, NEW p \in Passwords, BeginLogin(w, e, p)
      PROVE  AccountsInv'
  <2>1. PICK u \in users :
          /\ Matches(u, e, p)
          /\ call' = [call EXCEPT ![w] = [pc |-> "issue", user |-> u.id, password |-> p]]
    BY <1>3 DEF BeginLogin
  <2>2. Earned(u.id, p) /\ u.id \in UserIds
    BY <2>1 DEF Earned, Matches, AccountsInv, TypeOK, User
  <2>3. [pc |-> "issue", user |-> u.id, password |-> p] \in Login
    BY <2>2 DEF Login
  <2> QED
    BY <1>3, <2>1, <2>2, <2>3, MoveCall DEF BeginLogin
<1>4. CASE CallFails(w)
  BY <1>4, MoveCall DEF CallFails, Finish, NoCall
<1> QED
  BY <1>1, <1>2, <1>3, <1>4, CommitUserKeeps, AnswerCreatedKeeps, IssueTokenKeeps DEF Call

LEMMA DeactivateKeeps ==
  ASSUME AccountsInv, Deactivate
  PROVE  AccountsInv'
<1>1. PICK u \in users : users' = (users \ {u}) \cup {[u EXCEPT !.active = FALSE]}
  BY DEF Deactivate
<1> DEFINE new == [u EXCEPT !.active = FALSE]
<1>2. /\ new \in User /\ new.id = u.id /\ new.org = u.org
      /\ new.email = u.email /\ new.password = u.password
      /\ new.hashed = u.hashed /\ new.active = FALSE
  BY DEF AccountsInv, TypeOK, User
<1>3. users' = (users \ {u}) \cup {new}
  BY <1>1
<1> HIDE DEF new
<1>4. UNCHANGED <<orgs, call, told, tokens, req, now>>
  BY DEF Deactivate
<1>5. TypeOK'
  BY <1>2, <1>3, <1>4 DEF AccountsInv, TypeOK, UserIds, User, Heads
<1>6. UsersAreDistinct'
  BY <1>2, <1>3 DEF AccountsInv, UsersAreDistinct
<1>7. UsersHaveOrganizations'
  BY <1>2, <1>3, <1>4 DEF AccountsInv, UsersHaveOrganizations
<1>8. /\ \A r : HasAccount(r) => HasAccount(r)'
      /\ \A id, typed : Earned(id, typed) => Earned(id, typed)'
      /\ \A id : IsActive(id)' => IsActive(id)
  BY <1>2, <1>3 DEF HasAccount, Earned, IsActive
<1>9. CommittedHasAccount' /\ TokensAreEarned' /\ RequestsAreFollowed'
  BY <1>4, <1>8 DEF AccountsInv, CommittedHasAccount, TokensAreEarned, RequestsAreFollowed
<1> QED
  BY <1>5, <1>6, <1>7, <1>9 DEF AccountsInv

LEMMA AuthenticateKeeps ==
  ASSUME AccountsInv, NEW r \in Requests, Authenticate(r)
  PROVE  AccountsInv'
<1>0. /\ UNCHANGED <<orgs, users, call, told, tokens, now>>
      /\ now \in Nat /\ req \in [Requests -> {NoRequest} \cup Request]
  BY AccountsAssumption
     DEF Authenticate, DecodeToken, LoadUser, LetIn, EndRequest, AccountsInv, TypeOK
<1>1. ASSUME NEW q, q = NoRequest \/
               /\ q \in Request /\ q.token \in tokens /\ q.began < q.token.exp
               /\ q.barred => ~IsActive(q.token.user)
               /\ q.active => ~q.barred
               /\ q.pc = "in" => q.active,
             req' = [req EXCEPT ![r] = q]
      PROVE  AccountsInv'
  <2>1. TypeOK'
    BY <1>0, <1>1, AccountsKept DEF AccountsInv, TypeOK
  <2>2. \A p \in Requests : req'[p] = IF p = r THEN q ELSE req[p]
    BY <1>0, <1>1
  <2>3. RequestsAreFollowed'
    BY <1>0, <1>1, <2>2, AccountsKept DEF AccountsInv, RequestsAreFollowed
  <2>4. CommittedHasAccount' /\ TokensAreEarned'
    BY <1>0, AccountsKept DEF AccountsInv, CommittedHasAccount, TokensAreEarned
  <2> QED
    BY <1>0, <2>1, <2>3, <2>4, AccountsKept DEF AccountsInv
<1>2. ASSUME NEW t \in tokens, DecodeToken(r, t) PROVE AccountsInv'
  <2> DEFINE q == [ pc |-> "load", token |-> t, began |-> now, active |-> FALSE,
                    barred |-> ~IsActive(t.user) ]
  <2>1. t \in Token /\ now < t.exp /\ req' = [req EXCEPT ![r] = q]
    BY <1>2 DEF DecodeToken, AccountsInv, TypeOK
  <2>2. (~IsActive(t.user)) \in BOOLEAN
    BY DEF IsActive
  <2>3. q \in Request /\ q.token = t /\ q.began = now /\ q.pc = "load"
    BY <1>0, <2>1, <2>2 DEF Request
  <2>4. (q.barred <=> ~IsActive(t.user)) /\ ~q.active
    BY Zenon
  <2> HIDE DEF q
  <2> QED
    BY <1>1, <2>1, <2>3, <2>4
<1>3. ASSUME req[r].pc \in {"load", "check"}
      PROVE  /\ req[r] \in Request /\ req[r].token \in tokens
             /\ req[r].began < req[r].token.exp
             /\ req[r].barred => ~IsActive(req[r].token.user)
             /\ req[r].active => ~req[r].barred
  BY <1>0, <1>3 DEF NoRequest, AccountsInv, RequestsAreFollowed
<1>4. CASE LoadUser(r)
  <2>1. PICK u \in users :
          /\ u.id = req[r].token.user
          /\ req' = [req EXCEPT ![r] = [req[r] EXCEPT !.pc = "check", !.active = u.active]]
    BY <1>0, <1>4 DEF LoadUser
  <2> DEFINE q == [req[r] EXCEPT !.pc = "check", !.active = u.active]
  <2>2. u.active \in BOOLEAN /\ req[r] \in Request
    BY <1>3, <1>4 DEF LoadUser, AccountsInv, TypeOK, User
  <2>3. /\ q \in Request /\ q.token = req[r].token /\ q.began = req[r].began /\ q.pc = "check"
        /\ q.barred = req[r].barred /\ q.active = u.active
    BY <2>2 DEF Request
  <2>4. u.active => IsActive(req[r].token.user)
    BY <2>1 DEF IsActive
  <2> HIDE DEF q
  <2>5. q.active => ~q.barred
    BY <1>3, <1>4, <2>3, <2>4 DEF LoadUser
  <2> QED
    BY <1>1, <1>3, <1>4, <2>1, <2>3, <2>5 DEF LoadUser, q
<1>5. CASE LetIn(r)
  <2> DEFINE q == [req[r] EXCEPT !.pc = "in"]
  <2>1. req' = [req EXCEPT ![r] = q] /\ req[r].active /\ req[r].pc = "check"
    BY <1>0, <1>5 DEF LetIn
  <2>2. /\ q \in Request /\ q.token = req[r].token /\ q.began = req[r].began
        /\ q.barred = req[r].barred /\ q.active = req[r].active
    BY <1>3, <2>1 DEF Request
  <2> HIDE DEF q
  <2> QED
    BY <1>1, <1>3, <2>1, <2>2
<1>6. CASE EndRequest(r)
  BY <1>1, <1>6 DEF EndRequest
<1> QED
  BY <1>2, <1>4, <1>5, <1>6 DEF Authenticate

LEMMA AccountsInvStep == AccountsInv /\ [Next]_vars => AccountsInv'
<1> SUFFICES ASSUME AccountsInv, [Next]_vars PROVE AccountsInv'
  OBVIOUS
<1>1. CASE Tick \/ UNCHANGED vars
  <2>1. UNCHANGED <<orgs, users, call, told, tokens, req>> /\ now' \in 0..MaxTime
    BY <1>1, AccountsAssumption DEF Tick, vars, AccountsInv, TypeOK
  <2>2. TypeOK'
    BY <2>1, AccountsKept DEF AccountsInv, TypeOK
  <2>3. CommittedHasAccount' /\ TokensAreEarned'
    BY <2>1, AccountsKept DEF AccountsInv, CommittedHasAccount, TokensAreEarned
  <2> QED
    BY <2>1, <2>2, <2>3, AccountsKept, RequestsKept DEF AccountsInv
<1> QED
  BY <1>1, CallKeeps, AuthenticateKeeps, DeactivateKeeps DEF Next

LEMMA AccountsInvAlways == Spec => []AccountsInv
BY InitAccountsInv, AccountsInvStep, PTL DEF Spec

----------------------------------------------------------------------------
\* However many processes register an email at once: a client that was
\* answered 201 has the one account of that email, with its own password.
THEOREM CreatedIsTheAccountAlways == Spec => []CreatedIsTheAccount
<1>1. AccountsInv => CreatedIsTheAccount
  BY DEF AccountsInv, CommittedHasAccount, HasAccount, UsersAreDistinct, CreatedIsTheAccount
<1> QED
  BY <1>1, AccountsInvAlways, PTL

\* No interleaving and no failed registration leaves an organization without
\* its user, or gives it a second one.
THEOREM OrganizationsHaveTheirUserAlways == Spec => []OrganizationsHaveTheirUser
<1>1. AccountsInv => OrganizationsHaveTheirUser
  BY DEF AccountsInv, UsersHaveOrganizations, UsersAreDistinct, OrganizationsHaveTheirUser
<1> QED
  BY <1>1, AccountsInvAlways, PTL

\* However logins, deactivations and requests overlap: no request that began
\* after its user was deactivated is let in, and none without the password.
THEOREM LetInIsEntitledAlways == Spec => []LetInIsEntitled
<1>1. AccountsInv => LetInIsEntitled
  <2> SUFFICES ASSUME AccountsInv, NEW r \in Requests, req[r].pc = "in"
               PROVE  LET t == req[r].token IN
                      /\ ~req[r].barred
                      /\ req[r].began - t.iat < Lifetime
                      /\ \E u \in users : u.id = t.user /\ u.hashed = HashPassword(t.typed)
    BY DEF LetInIsEntitled
  <2>1. /\ req[r] \in Request /\ req[r].token \in tokens /\ ~req[r].barred
        /\ req[r].began < req[r].token.exp
    BY DEF AccountsInv, TypeOK, NoRequest, RequestsAreFollowed
  <2>2. PICK t \in tokens : t = req[r].token
    BY <2>1
  <2>3. Earned(t.user, t.typed) /\ t.exp = t.iat + Lifetime /\ t.iat \in Nat
    BY DEF AccountsInv, TokensAreEarned, TypeOK, Token
  <2>4. req[r].began \in Nat /\ Lifetime \in Nat
    BY <2>1, AccountsAssumption DEF Request
  <2>5. req[r].began - t.iat < Lifetime
    BY <2>1, <2>2, <2>3, <2>4
  <2> QED
    BY <2>1, <2>2, <2>3, <2>5 DEF Earned
<1> QED
  BY <1>1, AccountsInvAlways, PTL
=============================================================================
