-------------------------------- MODULE Access --------------------------------
(***************************************************************************)
(* Who may use an account: sessions, passwords, API keys and reset tokens. *)
(*   session.py                the sessions table                          *)
(*   routes/auth.py            login, logout, reset by e-mail              *)
(*   services/user_service.py  password changes, freeze, deletion          *)
(*   routes/user.py, routes/admin.py   the handlers behind a session       *)
(*                                                                         *)
(* Handlers are coroutines without an await that matters, so one at a time *)
(* runs on the event loop (loop).  Two things come in between: a handler   *)
(* of two transactions may be cut by a crash, and the dependencies         *)
(* require_user_csrf and require_csrf run get_session in threads: theirs   *)
(* are pc, cookie, who.  What a handler acts on was granted in a thread    *)
(* some time before.  The daily jobs are a process of their own.           *)
(***************************************************************************)
EXTENDS Integers, FiniteSets

CONSTANTS
  Users, Admins, NoOne,
  Threads,       \* dependency calls under way
  MaxConcurrent, \* plans.max_concurrent of the users' plan
  Idle, Life,    \* ticks of the sliding and of the absolute timeout
  TokenLife,     \* ticks of a reset token
  MaxSessions,   \* bound: sessions ever created
  MaxBusy,       \* bound: once there were more sessions, no dependency call comes
  MaxChanges     \* bound: once a password has changed so often, none does any more

Owners == Users \union Admins

ASSUME AccessAssumption ==
  /\ Users \intersect Admins = {} /\ NoOne \notin Owners
  /\ Admins # {}
  /\ MaxConcurrent \in Nat \ {0}
  /\ Idle \in Nat \ {0} /\ Life \in Nat /\ Idle <= Life
  /\ TokenLife \in Nat
  /\ MaxSessions \in Nat /\ MaxBusy \in Nat /\ MaxChanges \in Nat

VARIABLES
  active,      \* users.is_active
  left,        \* users that have deleted their account
  gone,        \* users whose row is deleted
  listed,      \* users the purge job has listed and not yet deleted
  epoch,       \* epoch[o]: how often the password of o has changed
  key,         \* key[u]: the epoch in which the key u has issued is from, or Revoked
  supers,      \* admin_users.is_super_admin
  frozen,      \* settings.global_freeze
  session,     \* session[s]: the row of session s
  born,        \* sessions 1..born have been created
  token,       \* token[u]: ticks u's reset token is good for
  loop, client,        \* what the handler on the event loop has still to do, and for whom
  pc, cookie, who,     \* a dependency call: where it is, its session, whose it was
  over,        \* users whose last login was not settled
  cut          \* users a crash or an error has kept from losing their credentials

accounts == <<active, left, gone, listed>>
secrets == <<epoch, key, token>>
calls == <<pc, cookie, who>>
handler == <<loop, client>>
faults == <<over, cut>>
vars == <<accounts, secrets, supers, frozen, session, born, handler, calls, faults>>

Sessions == 1..MaxSessions
Epochs == 0..MaxChanges
Revoked == -1
Blank == [owner |-> NoOne, epoch |-> 0, idle |-> 0, life |-> 0]

Rows == [owner : Owners \union {NoOne}, epoch : Epochs, idle : 0..Life, life : 0..Life]

TypeOK ==
  /\ active \subseteq Users /\ left \subseteq Users
  /\ gone \subseteq Users /\ listed \subseteq Users
  /\ epoch \in [Owners -> Epochs]
  /\ key \in [Users -> Epochs \union {Revoked}]
  /\ supers \subseteq Admins
  /\ frozen \in BOOLEAN
  /\ session \in [Sessions -> Rows]
  \* The sliding timeout never reaches beyond the absolute one.
  /\ \A s \in Sessions : session[s].idle <= session[s].life
  /\ born \in 0..MaxSessions
  /\ token \in [Users -> 0..TokenLife]
  /\ loop \in {"idle", "capping", "revoking"}
  /\ client \in Owners \union {NoOne}
  /\ pc \in [Threads -> {"idle", "looking", "read", "granted"}]
  /\ cookie \in [Threads -> 0..MaxSessions]
  /\ who \in [Threads -> Owners \union {NoOne}]
  /\ over \subseteq Users /\ cut \subseteq Users

\* One super admin: /admin/init promotes the first.
Init ==
  /\ active = Users /\ left = {} /\ gone = {} /\ listed = {}
  /\ epoch = [o \in Owners |-> 0]
  /\ key = [u \in Users |-> Revoked]
  /\ \E a \in Admins : supers = {a}
  /\ frozen = FALSE
  /\ session = [s \in Sessions |-> Blank]
  /\ born = 0
  /\ token = [u \in Users |-> 0]
  /\ loop = "idle" /\ client = NoOne
  /\ pc = [w \in Threads |-> "idle"]
  /\ cookie = [w \in Threads |-> 0]
  /\ who = [w \in Threads |-> NoOne]
  /\ over = {} /\ cut = {}

Lesser(x, y) == IF x < y THEN x ELSE y
Of(o) == {s \in Sessions : session[s].owner = o}
OfAny(O) == {s \in Sessions : session[s].owner \in O}
Drop(S) == session' = [s \in Sessions |-> IF s \in S THEN Blank ELSE session[s]]
Leave(w) ==
  /\ pc' = [pc EXCEPT ![w] = "idle"]
  /\ cookie' = [cookie EXCEPT ![w] = 0]
  /\ who' = [who EXCEPT ![w] = NoOne]

----------------------------------------------------------------------------
(* get_session, in a thread *)

\* global_freeze ends the session of whoever comes.
FrozenOut(w) ==
  /\ pc[w] = "idle" /\ frozen
  /\ \E s \in 1..born : Drop({s})
  /\ UNCHANGED <<accounts, secrets, supers, frozen, born, handler, calls, faults>>

Arrive(w) ==
  /\ pc[w] = "idle" /\ ~frozen /\ born <= MaxBusy
  /\ \E s \in 1..born : cookie' = [cookie EXCEPT ![w] = s]
  /\ pc' = [pc EXCEPT ![w] = "looking"]
  /\ UNCHANGED <<accounts, secrets, supers, frozen, session, born, handler, who, faults>>

ReadRow(w) ==
  LET r == session[cookie[w]] IN
  /\ pc[w] = "looking"
  /\ r.owner # NoOne /\ r.idle > 0 /\ r.life > 0
  /\ pc' = [pc EXCEPT ![w] = "read"]
  /\ who' = [who EXCEPT ![w] = r.owner]
  /\ UNCHANGED <<accounts, secrets, supers, frozen, session, born, handler,
                 cookie, faults>>

\* No row, a row that has expired, or another User-Agent: the row is deleted.
Reject(w) ==
  /\ pc[w] = "looking"
  /\ Drop({cookie[w]}) /\ Leave(w)
  /\ UNCHANGED <<accounts, secrets, supers, frozen, born, handler, faults>>

\* _maybe_refresh_session: in the second half of the sliding timeout it is restarted, up
\* to the absolute one.
Refreshed(r) ==
  IF 2 * r.idle <= Idle /\ Lesser(Idle, r.life) > r.idle THEN Lesser(Idle, r.life) ELSE r.idle

Inactive(o) == o \in Users \ (active \union gone)

\* Faulty variant: writes the row as it was read, also when it has been deleted since.
GrantBack(w) ==
  LET s == cookie[w]  r == session[s] IN
  /\ pc[w] = "read" /\ ~Inactive(who[w])
  /\ session' = [session EXCEPT ![s] =
       IF r.owner = NoOne THEN [Blank EXCEPT !.owner = who[w], !.idle = 1, !.life = 1] ELSE r]
  /\ pc' = [pc EXCEPT ![w] = "granted"]
  /\ UNCHANGED <<accounts, secrets, supers, frozen, born, handler, cookie, who, faults>>

\* The refresh is an UPDATE of whatever row there is by now.
Grant(w) ==
  LET s == cookie[w]  r == session[s] IN
  /\ pc[w] = "read" /\ ~Inactive(who[w])
  /\ session' = IF r.owner = NoOne THEN session
                  ELSE [session EXCEPT ![s].idle = Refreshed(r)]
  /\ pc' = [pc EXCEPT ![w] = "granted"]
  /\ UNCHANGED <<accounts, secrets, supers, frozen, born, handler, cookie, who, faults>>

\* delete_session opens a connection of its own: when the refresh has already written, it
\* waits for its caller's lock until that times out, and both are rolled back.
Refuse(w) ==
  LET r == session[cookie[w]] IN
  /\ pc[w] = "read" /\ Inactive(who[w])
  /\ IF r.owner # NoOne /\ Refreshed(r) # r.idle
       THEN UNCHANGED session
       ELSE Drop({cookie[w]})
  /\ Leave(w)
  /\ UNCHANGED <<accounts, secrets, supers, frozen, born, handler, faults>>

----------------------------------------------------------------------------
(* Login: the session is committed, then the others are cut down to the cap *)

\* A remembered session has both timeouts the same, and never slides: as with Idle = Life.
Open(o) ==
  /\ loop = "idle" /\ born < MaxSessions
  /\ born < MaxBusy \/ \A w \in Threads : pc[w] = "idle"
  /\ session' = [session EXCEPT ![born + 1] =
       [owner |-> o, epoch |-> epoch[o], idle |-> Idle, life |-> Life]]
  /\ born' = born + 1
  /\ loop' = "capping" /\ client' = o
  /\ UNCHANGED <<accounts, secrets, supers, frozen, calls, faults>>

Login(u) == u \in active /\ Open(u)

\* users.api_key_hash: the key that every account is given when it is created.  Nothing
\* writes it again, and only the row of the user takes it along.
AccountKey(u) == IF u \in gone THEN Revoked ELSE 0

\* login-api-key knows this key only; the API takes it besides the issued ones.
LoginByKey(u) == u \in active /\ AccountKey(u) # Revoked /\ Open(u)
AdminLogin(a) == Open(a)

\* Faulty variant: keeps one session more.
ExcessButOne(u) ==
  LET others == Of(u) \ {born} IN
  {s \in others : Cardinality({x \in others : x > s}) > MaxConcurrent}

\* The sessions beyond the cap, the newest login not counted.
Excess(u) ==
  LET others == Of(u) \ {born} IN
  {s \in others : Cardinality({x \in others : x > s}) >= MaxConcurrent}

\* The browser may hold a session of the other role: it is ended too.
Settle ==
  /\ loop = "capping"
  /\ \E other \in SUBSET OfAny(IF client \in Users THEN Admins ELSE Users) :
       /\ Cardinality(other) <= 1
       /\ Drop(other \union IF client \in Users THEN Excess(client) ELSE {})
  /\ loop' = "idle" /\ client' = NoOne
  /\ over' = over \ {client}
  /\ UNCHANGED <<accounts, secrets, supers, frozen, born, calls, cut>>

\* The cap is best effort.
SettleFails ==
  /\ loop = "capping"
  /\ loop' = "idle" /\ client' = NoOne
  /\ over' = over \union ({client} \intersect Users)
  /\ UNCHANGED <<accounts, secrets, supers, frozen, session, born, calls, cut>>

----------------------------------------------------------------------------
(* A new password is committed, then the credentials are revoked *)

CanChange == \A o \in Owners : epoch[o] < MaxChanges

NewPassword(u) ==
  /\ loop = "idle" /\ CanChange
  /\ epoch' = [epoch EXCEPT ![u] = @ + 1]
  /\ loop' = "revoking" /\ client' = u

\* reset_password: the token is used up.  Another one may still be good.
ResetPassword(u) ==
  /\ token[u] > 0 /\ u \in active
  /\ NewPassword(u)
  /\ \E other \in {0, token[u]} : token' = [token EXCEPT ![u] = other]
  /\ UNCHANGED <<accounts, key, supers, frozen, session, born, calls, faults>>

\* _invalidate_all_user_credentials, invalidate_all_credentials: sessions, tokens and
\* api_keys.  The key of the account is none of these, and stays good.
Revoke ==
  /\ loop = "revoking"
  /\ Drop(Of(client))
  /\ key' = [key EXCEPT ![client] = Revoked]
  /\ loop' = "idle" /\ client' = NoOne
  /\ cut' = cut \ {client}
  /\ UNCHANGED <<accounts, epoch, token, supers, frozen, born, calls, over>>

\* A database error: the second try ends the sessions only, and may fail as well.
RevokeFails ==
  /\ loop = "revoking"
  /\ \E S \in {{}, Of(client)} : Drop(S)
  /\ loop' = "idle" /\ client' = NoOne
  /\ cut' = cut \union {client}
  /\ UNCHANGED <<accounts, secrets, supers, frozen, born, calls, over>>

\* Forgot: only an active account is sent a token.
Forgot(u) ==
  /\ loop = "idle" /\ u \in active \ left
  /\ token' = [token EXCEPT ![u] = TokenLife]
  /\ UNCHANGED <<accounts, epoch, key, supers, frozen, session, born, handler, calls, faults>>

----------------------------------------------------------------------------
(* What a granted request does on the event loop *)

\* The handler of w runs for o, whom the dependency found.
Handles(w, o) == loop = "idle" /\ pc[w] = "granted" /\ who[w] = o /\ Leave(w)
ByUser(w) == \E u \in Users \ gone : Handles(w, u)
ByAdmin(w) == \E a \in Admins : Handles(w, a)

\* Every handler that leaves all this alone.
Serve(w) ==
  /\ \E o \in Owners : Handles(w, o)
  /\ UNCHANGED <<accounts, secrets, supers, frozen, session, born, handler, faults>>

\* A session of the other role goes with the one of the request.
Logout(w) ==
  /\ \E o \in Owners :
       /\ Handles(w, o)
       /\ \E other \in {{}} \union {{s} : s \in OfAny(IF o \in Users THEN Admins ELSE Users)} :
            Drop({cookie[w]} \union other)
  /\ UNCHANGED <<accounts, secrets, supers, frozen, born, handler, faults>>

ChangePassword(w) ==
  /\ ByUser(w) /\ NewPassword(who[w])
  /\ UNCHANGED <<accounts, key, token, supers, frozen, session, born, faults>>

\* One transaction: is_active = 0, no e-mail, another name, no credentials.
DeleteAccount(w) ==
  /\ ByUser(w)
  /\ LET u == who[w] IN
       /\ active' = active \ {u} /\ left' = left \union {u}
       /\ Drop(Of(u)) /\ key' = [key EXCEPT ![u] = Revoked]
  /\ UNCHANGED <<gone, listed, epoch, token, supers, frozen, born, handler, faults>>

\* issue_key and rotate_key, which also brings a revoked key back.
IssueKey(w) ==
  /\ ByUser(w)
  /\ key' = [key EXCEPT ![who[w]] = epoch[who[w]]]
  /\ UNCHANGED <<accounts, epoch, token, supers, frozen, session, born, handler, faults>>

RevokeKey(w, u) ==
  /\ Handles(w, u) \/ ByAdmin(w)
  /\ key' = [key EXCEPT ![u] = Revoked]
  /\ UNCHANGED <<accounts, epoch, token, supers, frozen, session, born, handler, faults>>

\* Hash and sessions in one transaction.
ChangeAdminPassword(w) ==
  /\ ByAdmin(w) /\ CanChange
  /\ epoch' = [epoch EXCEPT ![who[w]] = @ + 1]
  /\ Drop(Of(who[w]))
  /\ UNCHANGED <<accounts, key, token, supers, frozen, born, handler, faults>>

\* admin_reset_user_password, and update_user with a password.
AdminResetsPassword(w, u) ==
  /\ ByAdmin(w) /\ u \notin gone /\ NewPassword(u)
  /\ UNCHANGED <<accounts, key, token, supers, frozen, session, born, faults>>

SendReset(w, u) ==
  /\ ByAdmin(w) /\ u \notin gone
  /\ token' = [token EXCEPT ![u] = TokenLife]
  /\ UNCHANGED <<accounts, epoch, key, supers, frozen, session, born, handler, faults>>

\* Faulty variant: get_session looks at is_active anyway.
FreezeOnly(w, u) ==
  /\ ByAdmin(w) /\ u \notin gone
  /\ active' = active \ {u}
  /\ UNCHANGED <<left, gone, listed, secrets, supers, frozen, session, born, handler, faults>>

\* freeze_user, and update_user with is_active = false: one transaction.
Freeze(w, u) ==
  /\ ByAdmin(w) /\ u \notin gone
  /\ active' = active \ {u} /\ Drop(Of(u))
  /\ UNCHANGED <<left, gone, listed, secrets, supers, frozen, born, handler, faults>>

\* unfreeze_user also ends sessions, update_user with is_active = true does not.
Unfreeze(w, u) ==
  /\ ByAdmin(w) /\ u \notin gone
  /\ active' = active \union {u}
  /\ \E S \in {{}, Of(u)} : Drop(S)
  /\ UNCHANGED <<left, gone, listed, secrets, supers, frozen, born, handler, faults>>

KillSwitch(w) ==
  /\ ByAdmin(w) /\ frozen' = TRUE
  /\ UNCHANGED <<accounts, secrets, supers, session, born, handler, faults>>

\* Needs a session, as every admin endpoint: only a request that was granted before the
\* switch can still release it.
ReleaseSwitch(w) ==
  /\ ByAdmin(w) /\ frozen /\ frozen' = FALSE
  /\ UNCHANGED <<accounts, secrets, supers, session, born, handler, faults>>

RevokeSession(w, s) ==
  /\ ByAdmin(w) /\ s # cookie[w] /\ session[s].idle > 0
  /\ Drop({s})
  /\ UNCHANGED <<accounts, secrets, supers, frozen, born, handler, faults>>

RevokeAllSessions(w) ==
  /\ ByAdmin(w)
  /\ Drop({s \in Sessions \ {cookie[w]} : session[s].idle > 0})
  /\ UNCHANGED <<accounts, secrets, supers, frozen, born, handler, faults>>

Promote(w, a) ==
  /\ ByAdmin(w) /\ who[w] \in supers
  /\ supers' = supers \union {a}
  /\ UNCHANGED <<accounts, secrets, frozen, session, born, handler, faults>>

\* Faulty variant: any admin may demote another.
DemoteUnchecked(w, a) ==
  /\ ByAdmin(w) /\ a # who[w]
  /\ supers' = supers \ {a}
  /\ UNCHANGED <<accounts, secrets, frozen, session, born, handler, faults>>

\* _require_super_admin reads the flag in the handler, not when the request was granted.
Demote(w, a) ==
  /\ ByAdmin(w) /\ who[w] \in supers /\ a # who[w]
  /\ supers' = supers \ {a}
  /\ UNCHANGED <<accounts, secrets, frozen, session, born, handler, faults>>

\* delete_user: every row of the user.
Erase(u) ==
  /\ gone' = gone \union {u} /\ active' = active \ {u} /\ left' = left \ {u}
  /\ Drop(Of(u))
  /\ key' = [key EXCEPT ![u] = Revoked] /\ token' = [token EXCEPT ![u] = 0]
  /\ UNCHANGED <<epoch, supers, frozen, born, handler, faults>>

DeleteUser(w, u) == ByAdmin(w) /\ u \notin gone /\ Erase(u) /\ UNCHANGED listed

----------------------------------------------------------------------------
(* The jobs, the clock, and the end of the server *)

\* purge_soft_deleted_users lists the accounts, then deletes them one by one without
\* looking again.
ListDeleted ==
  /\ listed = {} /\ left \ (active \union gone) # {}
  /\ listed' = left \ (active \union gone)
  /\ UNCHANGED <<active, left, gone, secrets, supers, frozen, session, born,
                 handler, calls, faults>>

Purge(u) ==
  /\ u \in listed
  /\ listed' = listed \ {u}
  /\ Erase(u)
  /\ UNCHANGED calls

\* sweep_expired_sessions.
Sweep(s) ==
  /\ session[s].owner # NoOne /\ (session[s].idle = 0 \/ session[s].life = 0)
  /\ Drop({s})
  /\ UNCHANGED <<accounts, secrets, supers, frozen, born, handler, calls, faults>>

Before(n) == IF n = 0 THEN 0 ELSE n - 1

Tick ==
  /\ (\E s \in Sessions : session[s].life > 0) \/ (\E u \in Users : token[u] > 0)
  /\ session' = [s \in Sessions |->
       [session[s] EXCEPT !.idle = Before(@), !.life = Before(@)]]
  /\ token' = [u \in Users |-> Before(token[u])]
  /\ UNCHANGED <<accounts, epoch, key, supers, frozen, born, handler, calls, faults>>

\* What the handler had still to do is not done later.
Crash ==
  /\ over' = IF loop = "capping" THEN over \union ({client} \intersect Users) ELSE over
  /\ cut' = IF loop = "revoking" THEN cut \union {client} ELSE cut
  /\ loop' = "idle" /\ client' = NoOne
  /\ pc' = [w \in Threads |-> "idle"] /\ cookie' = [w \in Threads |-> 0]
  /\ who' = [w \in Threads |-> NoOne]
  /\ UNCHANGED <<accounts, secrets, supers, frozen, session, born>>

Check(w) ==
  \/ FrozenOut(w) \/ Arrive(w) \/ ReadRow(w) \/ Reject(w)
  \/ Grant(w) \/ Refuse(w)

Handle(w) ==
  \/ Serve(w) \/ Logout(w) \/ ChangePassword(w) \/ DeleteAccount(w) \/ IssueKey(w)
  \/ ChangeAdminPassword(w) \/ KillSwitch(w) \/ ReleaseSwitch(w) \/ RevokeAllSessions(w)
  \/ \E s \in Sessions : RevokeSession(w, s)
  \/ \E a \in Admins : Promote(w, a) \/ Demote(w, a)
  \/ \E u \in Users : AdminResetsPassword(w, u) \/ SendReset(w, u) \/ Freeze(w, u)
       \/ Unfreeze(w, u) \/ DeleteUser(w, u) \/ RevokeKey(w, u)

Next ==
  \/ \E w \in Threads : Check(w) \/ Handle(w)
  \/ \E u \in Users : Login(u) \/ LoginByKey(u) \/ ResetPassword(u) \/ Forgot(u) \/ Purge(u)
  \/ \E a \in Admins : AdminLogin(a)
  \/ Settle \/ SettleFails \/ Revoke \/ RevokeFails
  \/ ListDeleted \/ Tick \/ Crash
  \/ \E s \in Sessions : Sweep(s)

Spec == Init /\ [][Next]_vars

----------------------------------------------------------------------------
(* What the component promises *)

\* A user whose last login was settled has at most one session more than the plan allows.
SessionCap ==
  \A u \in Users \ over :
    (loop = "capping" /\ client = u) \/ Cardinality(Of(u)) <= MaxConcurrent + 1

\* Nobody who is frozen, deactivated or deleted has a session, whatever was under way.
InactiveHasNone == OfAny(Users \ active) = {}

\* Sessions and issued keys that were there before a password was changed do not outlive the
\* handler that changed it, unless it was cut short.  The key of the account does, whatever
\* the handler does: AccountKey is not spoken of here.
OldSessionsAndKeysEnd ==
  \A o \in Owners \ cut : (loop = "revoking" /\ client = o) \/
    /\ \A s \in Of(o) : session[s].epoch = epoch[o]
    /\ o \in Users => key[o] \in {epoch[o], Revoked}

\* Admins that demote each other at the same time do not leave the platform without a
\* super admin.
SomeSuperAdmin == supers # {}
=============================================================================
