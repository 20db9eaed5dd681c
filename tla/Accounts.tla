------------------------------- MODULE Accounts -------------------------------
(***************************************************************************)
(* Registration, login and the requests bearer tokens let in.              *)
(*                                                                         *)
(* Registering looks the email up, and then inserts an organization and    *)
(* its user in one transaction; the unique index on users.email decides    *)
(* between two that overlap.  A token names its user and when it expires;  *)
(* whether the user is still active is read at every use.  Login reads the *)
(* user and then issues the token, a request decodes the token and then    *)
(* reads the user: time passes, and users change, in between.              *)
(*                                                                         *)
(* A password is what fills its first 72 bytes (head), what follows        *)
(* (tail), and how many characters it has, which take one to four bytes.   *)
(***************************************************************************)
EXTENDS Integers

CONSTANTS
  Workers,     \* API processes; each runs one registration or login at a time
  Requests,    \* authenticated requests that may be in progress
  Emails,      \* email addresses
  LongEmails,  \* those that make the organization's name exceed its column
  Passwords,   \* what clients type
  MinLength,   \* the schemas' limits on the characters of a password, the
  MaxLength,   \* shorter one when it is chosen
  Lifetime,    \* settings.jwt_access_token_expire_minutes
  MaxTime,     \* bound: how far the clock runs
  MaxUsers     \* bound: registrations that commit

ASSUME AccountsAssumption ==
  /\ LongEmails \subseteq Emails
  /\ \A p \in Passwords : DOMAIN p = {"head", "tail", "chars"} /\ p.chars \in Nat
  /\ Lifetime \in Nat /\ MaxTime \in Nat /\ MaxUsers \in Nat
  /\ MinLength \in Nat /\ MaxLength \in Nat

VARIABLES
  orgs,       \* ids of the organizations rows
  users,      \* the users rows
  call,       \* the registration or login each worker is running
  told,       \* emails and passwords of the clients that were answered 201
  tokens,     \* tokens issued, each with the password that was typed for it
  req,        \* the requests: the token, when it was decoded, what was read
  now         \* the clock, in minutes

vars == <<orgs, users, call, told, tokens, req, now>>

UserIds == 1..MaxUsers
NoCall == [pc |-> "idle"]
NoRequest == [pc |-> "idle"]

Heads == {p.head : p \in Passwords}

User ==
  [ id : UserIds, org : UserIds, email : Emails, active : BOOLEAN,
    password : Passwords, hashed : Heads ]

Registration ==
  [pc : {"flush", "commit", "refresh"}, email : Emails, password : Passwords]

Login == [pc : {"issue"}, user : UserIds, password : Passwords]

Token == [user : UserIds, iat : Nat, exp : Nat, typed : Passwords]

\* A request that was let into its handler, or is not yet; barred says that
\* its token's user had been deactivated when it began.
Request ==
  [pc : {"load", "check", "in"}, token : Token, began : Nat, active : BOOLEAN, barred : BOOLEAN]

\* The values each variable takes.
TypeOK ==
  /\ orgs \subseteq UserIds
  /\ users \subseteq User
  /\ call \in [Workers -> {NoCall} \cup Registration \cup Login]
  /\ told \subseteq [email : Emails, password : Passwords]
  /\ tokens \subseteq Token
  /\ req \in [Requests -> {NoRequest} \cup Request]
  /\ now \in 0..MaxTime

Init ==
  /\ orgs = {} /\ users = {} /\ told = {} /\ tokens = {}
  /\ call = [w \in Workers |-> NoCall]
  /\ req = [r \in Requests |-> NoRequest]
  /\ now = 0

Finish(w) == call' = [call EXCEPT ![w] = NoCall]

----------------------------------------------------------------------------
\* What bcrypt makes of a password: nothing after its first 72 bytes.
HashPassword(p) == p.head

\* The schemas limit the characters.
AcceptedBySchema(p, min) == p.chars \in min..MaxLength

\* An email that is found is answered 400.
BeginRegister(w, e, p) ==
  /\ call[w] = NoCall
  /\ AcceptedBySchema(p, MinLength)
  /\ \A u \in users : u.email # e
  /\ call' = [call EXCEPT ![w] = [pc |-> "flush", email |-> e, password |-> p]]
  /\ UNCHANGED <<orgs, users, told, tokens, req, now>>

\* Mutation of FlushOrganization: the organization is committed on its own.
CommitOrganization(w) ==
  /\ call[w].pc = "flush" /\ call[w].email \notin LongEmails
  /\ \E id \in UserIds \ orgs : orgs' = orgs \cup {id}
  /\ call' = [call EXCEPT ![w].pc = "commit"]
  /\ UNCHANGED <<users, told, tokens, req, now>>

\* The organization, whose name holds the email, is inserted and not
\* committed; a name that is too long is refused here.
FlushOrganization(w) ==
  /\ call[w].pc = "flush" /\ call[w].email \notin LongEmails
  /\ call' = [call EXCEPT ![w].pc = "commit"]
  /\ UNCHANGED <<orgs, users, told, tokens, req, now>>

\* Mutation of EmailIsFree: users.email has no unique index.
AnyEmail(e) == TRUE

\* The unique index on users.email.
EmailIsFree(e) == \A u \in users : u.email # e

\* The user is inserted and both rows are committed.
CommitUser(w) ==
  LET c == call[w] IN
  /\ c.pc = "commit"
  /\ EmailIsFree(c.email)
  /\ \E id \in UserIds \ orgs :
       /\ orgs' = orgs \cup {id}
       /\ users' = users \cup
            {[ id |-> id, org |-> id, email |-> c.email, active |-> TRUE,
               password |-> c.password, hashed |-> HashPassword(c.password) ]}
  /\ call' = [call EXCEPT ![w].pc = "refresh"]
  /\ UNCHANGED <<told, tokens, req, now>>

\* The refreshed row is the answer.
AnswerCreated(w) ==
  /\ call[w].pc = "refresh"
  /\ told' = told \cup {[email |-> call[w].email, password |-> call[w].password]}
  /\ Finish(w)
  /\ UNCHANGED <<orgs, users, tokens, req, now>>

\* A statement of a registration or a login raises: the name is too long,
\* the email was taken meanwhile, or the database fails.  Nothing catches it;
\* the session is closed.
CallFails(w) ==
  /\ call[w] # NoCall
  /\ Finish(w)
  /\ UNCHANGED <<orgs, users, told, tokens, req, now>>

----------------------------------------------------------------------------
\* The row a query for an email returns first.
Matches(u, e, p) == u.email = e /\ u.hashed = HashPassword(p)

\* Login reads the user and checks the password and that it is active ...
BeginLogin(w, e, p) ==
  /\ call[w] = NoCall
  /\ AcceptedBySchema(p, 1)
  /\ \E u \in users :
       /\ Matches(u, e, p) /\ u.active
       /\ call' = [call EXCEPT ![w] = [pc |-> "issue", user |-> u.id, password |-> p]]
  /\ UNCHANGED <<orgs, users, told, tokens, req, now>>

\* ... and issues a token.
IssueToken(w) ==
  LET c == call[w] IN
  /\ c.pc = "issue"
  /\ tokens' = tokens \cup
       {[user |-> c.user, iat |-> now, exp |-> now + Lifetime, typed |-> c.password]}
  /\ Finish(w)
  /\ UNCHANGED <<orgs, users, told, req, now>>

IsActive(id) == \E u \in users : u.id = id /\ u.active

\* get_current_user decodes the token, which must not have expired ...
DecodeToken(r, t) ==
  /\ req[r] = NoRequest
  /\ now < t.exp
  /\ req' = [req EXCEPT ![r] =
       [pc |-> "load", token |-> t, began |-> now, active |-> FALSE, barred |-> ~IsActive(t.user)]]
  /\ UNCHANGED <<orgs, users, call, told, tokens, now>>

\* Mutation of LoadUser: the token is trusted about its user.
TrustToken(r) ==
  /\ req[r].pc = "load"
  /\ req' = [req EXCEPT ![r].pc = "check", ![r].active = TRUE]
  /\ UNCHANGED <<orgs, users, call, told, tokens, now>>

\* ... reads its user, in a session of the request's own ...
LoadUser(r) ==
  /\ req[r].pc = "load"
  /\ \E u \in users :
       /\ u.id = req[r].token.user
       /\ req' = [req EXCEPT ![r].pc = "check", ![r].active = u.active]
  /\ UNCHANGED <<orgs, users, call, told, tokens, now>>

\* ... and lets the request in if the row it has read is active.
LetIn(r) ==
  /\ req[r].pc = "check" /\ req[r].active
  /\ req' = [req EXCEPT ![r].pc = "in"]
  /\ UNCHANGED <<orgs, users, call, told, tokens, now>>

\* A request that is served, refused, or whose statement raises.
EndRequest(r) ==
  /\ req[r] # NoRequest
  /\ req' = [req EXCEPT ![r] = NoRequest]
  /\ UNCHANGED <<orgs, users, call, told, tokens, now>>

\* Nothing in the program deactivates a user: an operator does.
Deactivate ==
  /\ \E u \in users :
       u.active /\ users' = (users \ {u}) \cup {[u EXCEPT !.active = FALSE]}
  /\ UNCHANGED <<orgs, call, told, tokens, req, now>>

Tick ==
  /\ now < MaxTime
  /\ now' = now + 1
  /\ UNCHANGED <<orgs, users, call, told, tokens, req>>

Call(w) ==
  \/ \E e \in Emails, p \in Passwords : BeginRegister(w, e, p) \/ BeginLogin(w, e, p)
  \/ FlushOrganization(w) \/ CommitUser(w) \/ AnswerCreated(w)
  \/ IssueToken(w)
  \/ CallFails(w)

Authenticate(r) ==
  \/ \E t \in tokens : DecodeToken(r, t)
  \/ LoadUser(r) \/ LetIn(r) \/ EndRequest(r)

Next ==
  \/ \E w \in Workers : Call(w)
  \/ \E r \in Requests : Authenticate(r)
  \/ Deactivate \/ Tick

Spec == Init /\ [][Next]_vars

----------------------------------------------------------------------------
\* A client that was told its account was created has the one account of
\* that email, with the password it chose, whoever else registers the email.
CreatedIsTheAccount ==
  \A t \in told : \E u \in users :
    /\ u.email = t.email /\ u.password = t.password
    /\ \A v \in users : v.email = t.email => v = u

\* Every organization has exactly one user and every user its organization:
\* a registration that fails, or loses the email to another, leaves neither.
OrganizationsHaveTheirUser ==
  /\ \A o \in orgs : \E u \in users : u.org = o /\ \A v \in users : v.org = o => v = u
  /\ \A u \in users : u.org \in orgs

\* A request that begins after its user was deactivated is never let in, by
\* whatever token: one issued long before, or one issued since by a login
\* that had read the user earlier.  Who is let in gave a password with the
\* user's hash for that token, less than a token's lifetime before.
LetInIsEntitled ==
  \A r \in Requests : req[r].pc = "in" =>
    LET t == req[r].token IN
    /\ ~req[r].barred
    /\ req[r].began - t.iat < Lifetime
    /\ \E u \in users : u.id = t.user /\ u.hashed = HashPassword(t.typed)

\* schemas/auth.py: "bcrypt silently truncates beyond 72 bytes; capping here
\* avoids a confusing silent-truncation surprise": who logs in typed the
\* password the account was registered with.
LoginNeedsThePassword ==
  \A t \in tokens, u \in users : t.user = u.id => t.typed = u.password

\* What makes the invariants inductive: ids and emails are unique, a user has
\* the organization it was inserted with, a registration that has committed
\* has its row, and a token its user.
UsersAreDistinct ==
  \A u, v \in users : u.id = v.id \/ u.email = v.email => u = v

UsersHaveOrganizations ==
  /\ \A u \in users : u.org = u.id /\ u.id \in orgs
  /\ \A o \in orgs : \E u \in users : u.id = o

HasAccount(c) == \E u \in users : u.email = c.email /\ u.password = c.password

CommittedHasAccount ==
  /\ \A w \in Workers : call[w].pc = "refresh" => HasAccount(call[w])
  /\ \A t \in told : HasAccount(t)

Earned(id, typed) == \E u \in users : u.id = id /\ u.hashed = HashPassword(typed)

TokensAreEarned ==
  /\ \A w \in Workers : call[w].pc = "issue" => Earned(call[w].user, call[w].password)
  /\ \A t \in tokens : Earned(t.user, t.typed) /\ t.exp = t.iat + Lifetime

\* A user that was deactivated stays so: what a request has read as active
\* was active when it began.
RequestsAreFollowed ==
  \A r \in Requests : req[r] # NoRequest =>
    /\ req[r].token \in tokens /\ req[r].began < req[r].token.exp
    /\ req[r].barred => ~IsActive(req[r].token.user)
    /\ req[r].active => ~req[r].barred
    /\ req[r].pc = "in" => req[r].active

AccountsInv ==
  /\ TypeOK /\ UsersAreDistinct /\ UsersHaveOrganizations /\ CommittedHasAccount
  /\ TokensAreEarned /\ RequestsAreFollowed
=============================================================================
