------------------------------ MODULE AccessProofs ------------------------------
(***************************************************************************)
(* Theorems about Access, for any number of users, admins, threads and     *)
(* sessions, any cap on the sessions and any timeouts.                     *)
(***************************************************************************)
EXTENDS Access, FiniteSetTheorems, WellFoundedInduction, TLAPS

USE AccessAssumption
USE DEF accounts, secrets, calls, handler, faults, Owners, Sessions, Epochs, Revoked

----------------------------------------------------------------------------
(* Types, with what a call and a handler under way have in their hands *)

\* A dependency call that has begun has a session's id, and one that has read the row
\* knows whose it is.
CallsKnow ==
  \A w \in Threads :
    /\ pc[w] # "idle" => cookie[w] \in Sessions
    /\ pc[w] \in {"read", "granted"} => who[w] \in Owners

\* A handler in the middle of its two transactions knows for whom; only users' credentials
\* are revoked in a transaction of their own.
HandlerKnows ==
  /\ loop = "capping" => client \in Owners
  /\ loop = "revoking" => client \in Users

\* The rows, and all the rest.
RowsTyped ==
  /\ session \in [Sessions -> Rows]
  /\ \A s \in Sessions : session[s].idle <= session[s].life

RestTyped ==
  /\ active \subseteq Users /\ left \subseteq Users
  /\ gone \subseteq Users /\ listed \subseteq Users
  /\ epoch \in [Owners -> Epochs]
  /\ key \in [Users -> Epochs \union {Revoked}]
  /\ supers \subseteq Admins
  /\ frozen \in BOOLEAN
  /\ born \in 0..MaxSessions
  /\ token \in [Users -> 0..TokenLife]
  /\ loop \in {"idle", "capping", "revoking"}
  /\ client \in Owners \union {NoOne}
  /\ pc \in [Threads -> {"idle", "looking", "read", "granted"}]
  /\ cookie \in [Threads -> 0..MaxSessions]
  /\ who \in [Threads -> Owners \union {NoOne}]
  /\ over \subseteq Users /\ cut \subseteq Users
  /\ CallsKnow /\ HandlerKnows

Typed == RowsTyped /\ RestTyped

\* Together they are the type invariant and the two facts above.
LEMMA TypedParts == Typed <=> TypeOK /\ CallsKnow /\ HandlerKnows
BY DEF Typed, RowsTyped, RestTyped, TypeOK

\* The refreshed timeout stays within the absolute one.
LEMMA RefreshedRow ==
  ASSUME NEW r \in Rows, r.idle <= r.life
  PROVE Refreshed(r) \in 0..r.life
BY DEF Rows, Refreshed, Lesser

\* A timeout that runs down stays in its range.
LEMMA BeforeRange ==
  ASSUME NEW m \in Nat, NEW n \in 0..m
  PROVE Before(n) \in 0..m
BY DEF Before

\* Deleting rows leaves rows.
LEMMA DroppedRows ==
  ASSUME RowsTyped, NEW S, Drop(S)
  PROVE RowsTyped'
BY DEF RowsTyped, Rows, Drop, Blank

\* What a step can do to the sessions.
LEMMA SessionStep ==
  ASSUME [Next]_vars
  PROVE \/ UNCHANGED session
        \/ \E S : Drop(S)
        \/ \E o \in Owners : Open(o)
        \/ \E w \in Threads : Grant(w)
        \/ Tick
<1>1. ASSUME NEW w \in Threads, Check(w)
      PROVE UNCHANGED session \/ (\E S : Drop(S)) \/ Grant(w)
  BY <1>1 DEF Check, FrozenOut, Arrive, ReadRow, Reject, Refuse
<1>2. ASSUME NEW w \in Threads, Handle(w)
      PROVE UNCHANGED session \/ (\E S : Drop(S))
  BY <1>2 DEF Handle, Serve, Logout, ChangePassword, DeleteAccount, IssueKey, ChangeAdminPassword,
    KillSwitch, ReleaseSwitch, RevokeAllSessions, RevokeSession, Promote, Demote,
    AdminResetsPassword, SendReset, Freeze, Unfreeze, DeleteUser, RevokeKey, Erase
<1>3. ASSUME NEW u \in Users, ResetPassword(u) \/ Forgot(u) \/ Purge(u)
      PROVE UNCHANGED session \/ (\E S : Drop(S))
  BY <1>3 DEF ResetPassword, Forgot, Purge, Erase
<1>4. CASE Settle \/ SettleFails \/ Revoke \/ RevokeFails \/ ListDeleted \/ Crash \/ UNCHANGED vars
           \/ \E s \in Sessions : Sweep(s)
  BY <1>4 DEF Settle, SettleFails, Revoke, RevokeFails, ListDeleted, Crash, vars, Sweep
<1> QED
  BY <1>1, <1>2, <1>3, <1>4 DEF Next, Login, LoginByKey, AdminLogin

\* No step spoils a row: a new one and a refreshed one have their timeouts in order too.
LEMMA RowsStep ==
  ASSUME Typed, [Next]_vars
  PROVE RowsTyped'
<1> USE DEF Typed
<1>1. CASE UNCHANGED session
  BY <1>1 DEF RowsTyped
<1>2. ASSUME NEW S, Drop(S)
      PROVE RowsTyped'
  BY <1>2, DroppedRows
<1>3. ASSUME NEW o \in Owners, Open(o)
      PROVE RowsTyped'
  <2>1. [owner |-> o, epoch |-> epoch[o], idle |-> Idle, life |-> Life] \in Rows
    BY DEF RestTyped, Rows
  <2>2. born + 1 \in Sessions
    BY <1>3 DEF Open, RestTyped
  <2> QED
    BY <1>3, <2>1, <2>2 DEF Open, RowsTyped
<1>4. ASSUME NEW w \in Threads, Grant(w)
      PROVE RowsTyped'
  <2>1. cookie[w] \in Sessions
    BY <1>4 DEF Grant, RestTyped, CallsKnow
  <2>2. Refreshed(session[cookie[w]]) \in 0..session[cookie[w]].life
    BY <2>1, RefreshedRow DEF RowsTyped
  <2>3. session[cookie[w]] \in Rows
    BY <2>1 DEF RowsTyped
  <2>4. Refreshed(session[cookie[w]]) \in 0..Life
    BY <2>2, <2>3 DEF Rows
  <2>5. ASSUME NEW i \in 0..Life
        PROVE [session[cookie[w]] EXCEPT !.idle = i] \in Rows
    BY <2>3 DEF Rows
  <2>6. session' \in [Sessions -> Rows]
    BY <1>4, <2>1, <2>4, <2>5 DEF Grant, RowsTyped
  <2>7. ASSUME NEW s \in Sessions
        PROVE session'[s].idle <= session'[s].life
    BY <1>4, <2>1, <2>2, <2>3 DEF Grant, RowsTyped, Rows
  <2> QED
    BY <2>6, <2>7 DEF RowsTyped
<1>5. CASE Tick
  <2>1. ASSUME NEW s \in Sessions
        PROVE session'[s] \in Rows /\ session'[s].idle <= session'[s].life
    <3>1. /\ session[s] \in Rows /\ session[s].idle <= session[s].life
          /\ session[s].idle \in 0..Life /\ session[s].life \in 0..Life
      BY DEF RowsTyped, Rows
    <3>2. Before(session[s].idle) \in 0..Life /\ Before(session[s].life) \in 0..Life
      BY <3>1, BeforeRange
    <3>3. Before(session[s].idle) <= Before(session[s].life)
      BY <3>1 DEF Before
    <3>4. session'[s] = [session[s] EXCEPT !.idle = Before(@), !.life = Before(@)]
      BY <1>5 DEF Tick
    <3>5. session'[s].idle = Before(session[s].idle) /\ session'[s].life = Before(session[s].life)
      BY <3>1, <3>4 DEF Rows
    <3>6. session'[s] \in Rows
      BY <3>1, <3>2, <3>4 DEF Rows
    <3> QED
      BY <3>3, <3>5, <3>6
  <2>2. session' = [s \in Sessions |-> session'[s]]
    BY <1>5 DEF Tick
  <2> QED
    BY <2>1, <2>2 DEF RowsTyped
<1> QED
  BY <1>1, <1>2, <1>3, <1>4, <1>5, SessionStep

\* The steps of a dependency call keep the types of the rest.
LEMMA CheckStep ==
  ASSUME Typed, NEW w \in Threads, Check(w)
  PROVE RestTyped'
<1> USE DEF Typed, RestTyped, CallsKnow, HandlerKnows
<1>1. CASE FrozenOut(w) \/ Grant(w)
  BY <1>1 DEF FrozenOut, Grant
<1>2. CASE Arrive(w)
  BY <1>2 DEF Arrive
<1>3. CASE ReadRow(w)
  BY <1>3 DEF ReadRow, RowsTyped, Rows
<1>4. CASE Reject(w) \/ Refuse(w)
  BY <1>4 DEF Reject, Refuse, Leave
<1> QED
  BY <1>1, <1>2, <1>3, <1>4 DEF Check

\* So do the handlers of a granted request.
LEMMA HandleStep ==
  ASSUME Typed, NEW w \in Threads, Handle(w)
  PROVE RestTyped'
<1> USE DEF Typed, RestTyped, CallsKnow, HandlerKnows, ByUser, ByAdmin, Handles, Leave
<1>1. CASE Serve(w) \/ Logout(w) \/ RevokeAllSessions(w)
  BY <1>1 DEF Serve, Logout, RevokeAllSessions
<1>10. CASE KillSwitch(w) \/ ReleaseSwitch(w)
  <2>1. frozen' \in BOOLEAN
    BY <1>10 DEF KillSwitch, ReleaseSwitch
  <2> QED
    BY <1>10, <2>1 DEF KillSwitch, ReleaseSwitch
<1>2. CASE ChangePassword(w) \/ ChangeAdminPassword(w)
  BY <1>2 DEF ChangePassword, ChangeAdminPassword, NewPassword, CanChange
<1>3. CASE DeleteAccount(w) \/ IssueKey(w)
  BY <1>3 DEF DeleteAccount, IssueKey
<1>4. ASSUME NEW s \in Sessions, RevokeSession(w, s)
      PROVE RestTyped'
  BY <1>4 DEF RevokeSession
<1>5. ASSUME NEW a \in Admins, Promote(w, a) \/ Demote(w, a)
      PROVE RestTyped'
  BY <1>5 DEF Promote, Demote
<1>6. ASSUME NEW u \in Users, AdminResetsPassword(w, u)
      PROVE RestTyped'
  BY <1>6 DEF AdminResetsPassword, NewPassword, CanChange
<1>7. ASSUME NEW u \in Users, SendReset(w, u) \/ RevokeKey(w, u)
      PROVE RestTyped'
  BY <1>7 DEF SendReset, RevokeKey
<1>8. ASSUME NEW u \in Users, Freeze(w, u) \/ Unfreeze(w, u)
      PROVE RestTyped'
  BY <1>8 DEF Freeze, Unfreeze
<1>9. ASSUME NEW u \in Users, DeleteUser(w, u)
      PROVE RestTyped'
  BY <1>9 DEF DeleteUser, Erase
<1> QED
  BY <1>1, <1>2, <1>3, <1>4, <1>5, <1>6, <1>7, <1>8, <1>9, <1>10 DEF Handle

\* Every step keeps the types.
LEMMA TypeStep ==
  ASSUME Typed, [Next]_vars
  PROVE Typed'
<1> USE DEF RestTyped, CallsKnow, HandlerKnows
<1>1. ASSUME NEW o \in Owners, Open(o)
      PROVE RestTyped'
  BY <1>1 DEF Typed, Open
<1>2. ASSUME Settle \/ SettleFails
      PROVE RestTyped'
  BY <1>2 DEF Typed, Settle, SettleFails
<1>3. ASSUME Revoke \/ RevokeFails
      PROVE RestTyped'
  BY <1>3 DEF Typed, Revoke, RevokeFails
<1>4. ASSUME NEW u \in Users, ResetPassword(u)
      PROVE RestTyped'
  BY <1>4 DEF Typed, ResetPassword, NewPassword, CanChange
<1>5. ASSUME NEW u \in Users, Forgot(u) \/ Purge(u)
      PROVE RestTyped'
  BY <1>5 DEF Typed, Forgot, Purge, Erase
<1>6. ASSUME ListDeleted \/ UNCHANGED vars \/ \E s \in Sessions : Sweep(s)
      PROVE RestTyped'
  BY <1>6 DEF Typed, ListDeleted, vars, Sweep
<1>7. ASSUME Tick
      PROVE RestTyped'
  <2>1. token' \in [Users -> 0..TokenLife]
    BY <1>7, BeforeRange DEF Typed, Tick
  <2> QED
    BY <1>7, <2>1 DEF Typed, Tick
<1>8. ASSUME Crash
      PROVE RestTyped'
  BY <1>8 DEF Typed, Crash
<1> QED
  BY <1>1, <1>2, <1>3, <1>4, <1>5, <1>6, <1>7, <1>8, CheckStep, HandleStep, RowsStep
  DEF Next, Login, LoginByKey, AdminLogin, Typed

\* The first state.
LEMMA TypeStart == Init => Typed
<1> SUFFICES ASSUME Init PROVE Typed
  OBVIOUS
<1>1. RowsTyped
  BY DEF Init, RowsTyped, Rows, Blank
<1>2. RestTyped
  <2>1. frozen \in BOOLEAN
    BY DEF Init
  <2>2. supers \subseteq Admins
    BY DEF Init
  <2> QED
    BY <2>1, <2>2 DEF Init, RestTyped, CallsKnow, HandlerKnows
<1> QED
  BY <1>1, <1>2 DEF Typed

\* The types and what a call and a handler know hold in every state.
THEOREM TypesAlways == Spec => []Typed
BY TypeStart, TypeStep, PTL DEF Spec

\* Type correctness.
THEOREM TypeCorrect == Spec => []TypeOK
BY TypesAlways, TypedParts, PTL

----------------------------------------------------------------------------
(* Somebody can always administer the platform *)

\* Only a super admin demotes, and never itself, at the moment of the UPDATE.
LEMMA SuperStep ==
  ASSUME Typed, SomeSuperAdmin, [Next]_vars
  PROVE SomeSuperAdmin'
<1> USE DEF SomeSuperAdmin
<1>1. ASSUME NEW w \in Threads, Check(w)
      PROVE UNCHANGED supers
  BY <1>1 DEF Check, FrozenOut, Arrive, ReadRow, Reject, Grant, Refuse
<1>2. ASSUME NEW w \in Threads, Handle(w)
      PROVE SomeSuperAdmin'
  <2>1. ASSUME NEW a \in Admins, Promote(w, a) \/ Demote(w, a)
        PROVE SomeSuperAdmin'
    BY <2>1 DEF Promote, Demote
  <2> QED
    BY <1>2, <2>1 DEF Handle, Serve, Logout, ChangePassword, DeleteAccount, IssueKey,
      ChangeAdminPassword, KillSwitch, ReleaseSwitch, RevokeAllSessions, RevokeSession,
      AdminResetsPassword, SendReset, Freeze, Unfreeze, DeleteUser, RevokeKey, Erase
<1> QED
  BY <1>1, <1>2 DEF Next, Login, LoginByKey, AdminLogin, Open, ResetPassword, Forgot, Purge, Erase,
    Settle, SettleFails, Revoke, RevokeFails, ListDeleted, Tick, Crash, Sweep, vars

\* Whatever demotions interleave, a super admin is left.
THEOREM SuperAdminRemains == Spec => []SomeSuperAdmin
<1>1. Init => SomeSuperAdmin
  BY DEF Init, SomeSuperAdmin
<1> QED
  BY <1>1, SuperStep, TypesAlways, PTL DEF Spec

----------------------------------------------------------------------------
(* Who is not active has no session *)

\* A step gives a session to nobody but an active user or an admin, and whoever it
\* deactivates loses all of them.
LEMMA InactiveStep ==
  ASSUME Typed, InactiveHasNone, [Next]_vars
  PROVE InactiveHasNone'
<1> DEFINE Clear(S) == \A s \in Sessions : session[s].owner \notin S
<1>1. InactiveHasNone <=> \A s \in Sessions : session[s].owner \notin Users \ active
  BY DEF InactiveHasNone, OfAny
<1>2. InactiveHasNone' <=> \A s \in Sessions : session'[s].owner \notin Users \ active'
  BY DEF InactiveHasNone, OfAny
<1>3. ASSUME NEW S, Drop(S), active \subseteq active'
      PROVE InactiveHasNone'
  BY <1>1, <1>2, <1>3 DEF Drop, Blank
<1>4. ASSUME NEW u \in Users, Drop(Of(u)), active' = active \ {u}
      PROVE InactiveHasNone'
  BY <1>1, <1>2, <1>4 DEF Drop, Blank, Of
<1>5. ASSUME UNCHANGED session, active \subseteq active'
      PROVE InactiveHasNone'
  BY <1>1, <1>2, <1>5
<1>6. ASSUME NEW w \in Threads, Check(w)
      PROVE InactiveHasNone'
  <2>1. CASE Grant(w)
    <3>1. \A s \in Sessions : session'[s].owner = session[s].owner
      BY <2>1 DEF Grant, Typed, RowsTyped, Rows
    <3> QED
      BY <1>1, <1>2, <2>1, <3>1 DEF Grant
  <2> QED
    BY <1>3, <1>5, <1>6, <2>1 DEF Check, FrozenOut, Arrive, ReadRow, Reject, Refuse
<1>7. ASSUME NEW w \in Threads, Handle(w)
      PROVE InactiveHasNone'
  <2>1. CASE DeleteAccount(w)
    BY <1>4, <2>1 DEF DeleteAccount, ByUser, Handles
  <2>2. ASSUME NEW u \in Users, Freeze(w, u) \/ Unfreeze(w, u) \/ DeleteUser(w, u)
        PROVE InactiveHasNone'
    BY <1>3, <1>4, <2>2 DEF Freeze, Unfreeze, DeleteUser, Erase
  <2> QED
    BY <1>3, <1>5, <1>7, <2>1, <2>2 DEF Handle, Serve, Logout, ChangePassword, IssueKey,
      ChangeAdminPassword, KillSwitch, ReleaseSwitch, RevokeAllSessions, RevokeSession, Promote,
      Demote, AdminResetsPassword, SendReset, RevokeKey
<1>8. ASSUME NEW o \in Owners, Open(o), o \in active \union Admins
      PROVE InactiveHasNone'
  <2>1. session' = [session EXCEPT ![born + 1] =
          [owner |-> o, epoch |-> epoch[o], idle |-> Idle, life |-> Life]]
    BY <1>8 DEF Open
  <2>2. \A s \in Sessions : session'[s].owner \in {session[s].owner, o}
    BY <2>1 DEF Typed, RowsTyped
  <2> QED
    BY <1>1, <1>2, <1>8, <2>2 DEF Open
<1>9. ASSUME NEW u \in Users, ResetPassword(u) \/ Forgot(u) \/ Purge(u)
      PROVE InactiveHasNone'
  BY <1>4, <1>5, <1>9 DEF ResetPassword, Forgot, Purge, Erase
<1>10. CASE Tick
  <2>1. \A s \in Sessions : session'[s].owner = session[s].owner
    BY <1>10 DEF Tick, Typed, RowsTyped, Rows
  <2> QED
    BY <1>1, <1>2, <1>10, <2>1 DEF Tick
<1>11. CASE \/ Settle \/ SettleFails \/ Revoke \/ RevokeFails \/ ListDeleted \/ Crash
            \/ UNCHANGED vars \/ \E s \in Sessions : Sweep(s)
  BY <1>3, <1>5, <1>11 DEF Settle, SettleFails, Revoke, RevokeFails, ListDeleted, Crash, vars, Sweep
<1> QED
  BY <1>6, <1>7, <1>8, <1>9, <1>10, <1>11 DEF Next, Login, LoginByKey, AdminLogin, Typed, RestTyped

\* A frozen or deleted account has no session, though dependency calls act on rows they read
\* before and two transactions make a login.
THEOREM NoSessionOfTheInactive == Spec => []InactiveHasNone
<1>1. Init => InactiveHasNone
  BY DEF Init, InactiveHasNone, OfAny, Blank
<1> QED
  BY <1>1, InactiveStep, TypesAlways, PTL DEF Spec

----------------------------------------------------------------------------
(* Nothing outlives a change of password *)

\* What Revoke leaves of o.
Fresh(o) ==
  /\ \A s \in Sessions : session[s].owner = o => session[s].epoch = epoch[o]
  /\ o \in Users => key[o] \in {epoch[o], Revoked}

\* The property in terms of Fresh.
LEMMA FreshOrRevoking ==
  OldSessionsAndKeysEnd <=> \A o \in Owners \ cut : (loop = "revoking" /\ client = o) \/ Fresh(o)
BY DEF OldSessionsAndKeysEnd, Fresh, Of

\* The same in the next state.
LEMMA FreshOrRevokingNext ==
  OldSessionsAndKeysEnd' <=>
    \A o \in Owners \ cut' : (loop' = "revoking" /\ client' = o) \/ Fresh(o)'
BY DEF OldSessionsAndKeysEnd, Fresh, Of

\* A key is issued with the epoch of the moment, or revoked.
LEMMA KeyStep ==
  ASSUME Typed, [Next]_vars
  PROVE \A u \in Users : key'[u] \in {key[u], epoch[u], Revoked}
<1> USE DEF Typed, RestTyped
<1>1. ASSUME NEW w \in Threads, Check(w)
      PROVE UNCHANGED key
  BY <1>1 DEF Check, FrozenOut, Arrive, ReadRow, Reject, Grant, Refuse
<1>2. ASSUME NEW w \in Threads, Handle(w)
      PROVE \A u \in Users : key'[u] \in {key[u], epoch[u], Revoked}
  <2>1. CASE DeleteAccount(w) \/ IssueKey(w)
    BY <2>1 DEF DeleteAccount, IssueKey, ByUser, Handles
  <2>2. ASSUME NEW v \in Users, DeleteUser(w, v) \/ RevokeKey(w, v)
        PROVE \A u \in Users : key'[u] \in {key[u], epoch[u], Revoked}
    BY <2>2 DEF DeleteUser, Erase, RevokeKey
  <2> QED
    BY <1>2, <2>1, <2>2 DEF Handle, Serve, Logout, ChangePassword, ChangeAdminPassword,
      KillSwitch, ReleaseSwitch, RevokeAllSessions, RevokeSession, Promote, Demote,
      AdminResetsPassword, SendReset, Freeze, Unfreeze
<1>3. ASSUME NEW v \in Users, Purge(v)
      PROVE \A u \in Users : key'[u] \in {key[u], epoch[u], Revoked}
  BY <1>3 DEF Purge, Erase
<1>4. CASE Revoke
  BY <1>4 DEF Revoke
<1> QED
  BY <1>1, <1>2, <1>3, <1>4 DEF Next, Login, LoginByKey, AdminLogin, Open, ResetPassword, Forgot,
    Settle, SettleFails, RevokeFails, ListDeleted, Tick, Crash, Sweep, vars

\* The steps that change a password.
LEMMA EpochStep ==
  ASSUME [Next]_vars
  PROVE \/ UNCHANGED epoch
        \/ \E u \in Users : NewPassword(u)
        \/ \E w \in Threads : ChangeAdminPassword(w)
<1>1. ASSUME NEW w \in Threads, Check(w)
      PROVE UNCHANGED epoch
  BY <1>1 DEF Check, FrozenOut, Arrive, ReadRow, Reject, Grant, Refuse
<1>2. ASSUME NEW w \in Threads, Handle(w)
      PROVE UNCHANGED epoch \/ (\E u \in Users : NewPassword(u)) \/ ChangeAdminPassword(w)
  <2>1. CASE ChangePassword(w)
    BY <2>1 DEF ChangePassword, ByUser, Handles
  <2> QED
    BY <1>2, <2>1 DEF Handle, Serve, Logout, DeleteAccount, IssueKey,
      KillSwitch, ReleaseSwitch, RevokeAllSessions, RevokeSession, Promote, Demote,
      AdminResetsPassword, SendReset, Freeze, Unfreeze, DeleteUser, RevokeKey, Erase
<1> QED
  BY <1>1, <1>2 DEF Next, Login, LoginByKey, AdminLogin, Open, ResetPassword, Forgot, Purge, Erase,
    Settle, SettleFails, Revoke, RevokeFails, ListDeleted, Tick, Crash, Sweep, vars

\* What ends the revocation after a change of password.
LEMMA HandlerStep ==
  ASSUME [Next]_vars
  PROVE Revoke \/ RevokeFails \/ Crash \/ (UNCHANGED cut /\ (UNCHANGED handler \/ loop # "revoking"))
<1>1. ASSUME NEW w \in Threads, Check(w)
      PROVE UNCHANGED <<cut, handler>>
  BY <1>1 DEF Check, FrozenOut, Arrive, ReadRow, Reject, Grant, Refuse
<1>2. ASSUME NEW w \in Threads, Handle(w)
      PROVE UNCHANGED cut /\ (UNCHANGED handler \/ loop # "revoking")
  BY <1>2 DEF Handle, Serve, Logout, ChangePassword, ChangeAdminPassword, DeleteAccount, IssueKey,
    KillSwitch, ReleaseSwitch, RevokeAllSessions, RevokeSession, Promote, Demote,
    AdminResetsPassword, SendReset, Freeze, Unfreeze, DeleteUser, RevokeKey, Erase, NewPassword
<1> QED
  BY <1>1, <1>2 DEF Next, Login, LoginByKey, AdminLogin, Open, ResetPassword, Forgot, Purge, Erase,
    NewPassword, Settle, SettleFails, ListDeleted, Tick, Sweep, vars

\* A step that changes no password makes nothing stale: a session and a key are issued with
\* the epoch of the moment.
LEMMA FreshStays ==
  ASSUME Typed, [Next]_vars, NEW o \in Owners, Fresh(o), epoch'[o] = epoch[o]
  PROVE Fresh(o)'
<1>1. \A s \in Sessions : session'[s].owner = o => session'[s].epoch = epoch[o]
  <2>1. CASE UNCHANGED session
    BY <2>1 DEF Fresh
  <2>2. ASSUME NEW S, Drop(S)
        PROVE \A s \in Sessions : session'[s].owner = o => session'[s].epoch = epoch[o]
    BY <2>2 DEF Fresh, Drop, Blank
  <2>3. ASSUME NEW p \in Owners, Open(p)
        PROVE \A s \in Sessions : session'[s].owner = o => session'[s].epoch = epoch[o]
    <3>1. session' = [session EXCEPT ![born + 1] =
            [owner |-> p, epoch |-> epoch[p], idle |-> Idle, life |-> Life]]
      BY <2>3 DEF Open
    <3> QED
      BY <3>1 DEF Fresh, Typed, RowsTyped
  <2>4. ASSUME NEW w \in Threads, Grant(w)
        PROVE \A s \in Sessions : session'[s].owner = o => session'[s].epoch = epoch[o]
    <3>1. \A s \in Sessions : /\ session'[s].owner = session[s].owner
                              /\ session'[s].epoch = session[s].epoch
      BY <2>4 DEF Grant, Typed, RowsTyped, Rows
    <3> QED
      BY <3>1 DEF Fresh
  <2>5. CASE Tick
    <3>1. \A s \in Sessions : /\ session'[s].owner = session[s].owner
                              /\ session'[s].epoch = session[s].epoch
      BY <2>5 DEF Tick, Typed, RowsTyped, Rows
    <3> QED
      BY <3>1 DEF Fresh
  <2> QED
    BY <2>1, <2>2, <2>3, <2>4, <2>5, SessionStep
<1>2. o \in Users => key'[o] \in {epoch[o], Revoked}
  <2>1. \A u \in Users : key'[u] \in {key[u], epoch[u], Revoked}
    BY KeyStep
  <2> QED
    BY <2>1 DEF Fresh
<1> QED
  BY <1>1, <1>2 DEF Fresh

\* The revocation, when nothing cuts it short, leaves nothing stale.
LEMMA RevokedIsFresh ==
  ASSUME Typed, NEW o \in Owners, Revoke, client = o
  PROVE Fresh(o)'
<1>1. \A s \in Sessions : session'[s].owner # o
  BY DEF Revoke, Drop, Of, Blank
<1>2. o \in Users => key'[o] = Revoked
  BY DEF Revoke, Typed, RestTyped
<1> QED
  BY <1>1, <1>2 DEF Fresh

\* Whoever changes a password has the credentials to revoke next, or is cut.
LEMMA FreshStep ==
  ASSUME Typed, OldSessionsAndKeysEnd, [Next]_vars
  PROVE OldSessionsAndKeysEnd'
<1> SUFFICES ASSUME NEW o \in Owners, o \notin cut', ~(loop' = "revoking" /\ client' = o)
             PROVE Fresh(o)'
  BY FreshOrRevokingNext
<1>1. CASE epoch'[o] # epoch[o]
  <2>1. ~\E u \in Users : NewPassword(u)
    BY <1>1 DEF NewPassword, Typed, RestTyped
  <2>2. PICK w \in Threads : ChangeAdminPassword(w)
    BY <1>1, <2>1, EpochStep
  <2>3. who[w] = o /\ o \in Admins
    BY <1>1, <2>2 DEF ChangeAdminPassword, ByAdmin, Handles, Typed, RestTyped
  <2>4. \A s \in Sessions : session'[s].owner # o
    BY <2>2, <2>3 DEF ChangeAdminPassword, Drop, Of, Blank
  <2> QED
    BY <2>3, <2>4 DEF Fresh
<1>2. CASE epoch'[o] = epoch[o] /\ Fresh(o)
  BY <1>2, FreshStays
<1>3. CASE epoch'[o] = epoch[o] /\ ~Fresh(o)
  <2>1. o \in cut \/ (loop = "revoking" /\ client = o)
    BY <1>3, FreshOrRevoking
  <2>2. Revoke /\ client = o
    BY <2>1, HandlerStep DEF Revoke, RevokeFails, Crash
  <2> QED
    BY <2>2, RevokedIsFresh
<1> QED
  BY <1>1, <1>2, <1>3

\* Once its handler has finished, no session from before a change of password is left, and no
\* key that was issued before it is good.  The account's own key is not spoken of: it stays.
THEOREM ChangeRevokes == Spec => []OldSessionsAndKeysEnd
<1>1. Init => OldSessionsAndKeysEnd
  BY DEF Init, OldSessionsAndKeysEnd, Of, Blank
<1> QED
  BY <1>1, FreshStep, TypesAlways, PTL DEF Spec

----------------------------------------------------------------------------
(* The cap on the sessions *)

\* A set of numbers that is not empty has a least one.
LEMMA HasLeast ==
  ASSUME NEW K, K \subseteq Nat, K # {}
  PROVE \E m \in K : \A k \in K : m <= k
<1>1. PICK m \in K : \A k \in K : ~ (<<k, m>> \in OpToRel(<, Nat))
  BY WFMin, NatLessThanWellFounded
<1>2. \A k \in K : ~ (k < m)
  BY <1>1 DEF OpToRel
<1> QED
  BY <1>2

\* At most n members of a finite set have fewer than n above them.
LEMMA AtMostTop ==
  ASSUME NEW T, T \subseteq Nat, IsFiniteSet(T), NEW n \in Nat
  PROVE LET K == {s \in T : Cardinality({x \in T : x > s}) < n}
        IN  IsFiniteSet(K) /\ Cardinality(K) <= n
<1> DEFINE K == {s \in T : Cardinality({x \in T : x > s}) < n}
<1>1. IsFiniteSet(K) /\ Cardinality(K) \in Nat
  BY FS_Subset, FS_CardinalityType
<1>2. CASE K = {}
  <2>1. Cardinality(K) = 0
    BY <1>2, FS_EmptySet
  <2> QED
    BY <1>1, <2>1
<1>3. CASE K # {}
  <2>1. K \subseteq Nat
    OBVIOUS
  <2>2. PICK m \in K : \A k \in K : m <= k
    BY <1>3, <2>1, HasLeast
  <2> DEFINE Above == {x \in T : x > m}
  <2>3. IsFiniteSet(Above) /\ Cardinality(Above) \in Nat /\ Cardinality(Above) < n
    BY <2>2, FS_Subset, FS_CardinalityType
  <2>4. K \ {m} \subseteq Above
    BY <2>1, <2>2
  <2>5. Cardinality(K \ {m}) <= Cardinality(Above)
    BY <2>3, <2>4, FS_Subset
  <2>6. Cardinality(K \ {m}) = Cardinality(K) - 1
    BY <1>1, <2>2, FS_RemoveElement
  <2> HIDE DEF K, Above
  <2> QED
    BY <1>1, <2>3, <2>5, <2>6 DEF K
<1> QED
  BY <1>1, <1>2, <1>3

\* A user has finitely many sessions.
LEMMA OfIsFinite ==
  ASSUME NEW u
  PROVE IsFiniteSet(Of(u)) /\ Of(u) \subseteq Nat
<1>1. IsFiniteSet(Sessions)
  BY FS_Interval
<1> QED
  BY <1>1, FS_Subset DEF Of

\* What the cap leaves, and the login itself.
LEMMA CapLeaves ==
  ASSUME NEW u
  PROVE Cardinality(Of(u) \ Excess(u)) <= MaxConcurrent + 1
<1> DEFINE others == Of(u) \ {born}
           K == {s \in others : Cardinality({x \in others : x > s}) < MaxConcurrent}
<1>1. IsFiniteSet(others) /\ others \subseteq Nat
  BY OfIsFinite, FS_Subset
<1>2. IsFiniteSet(K) /\ Cardinality(K) <= MaxConcurrent
  BY <1>1, AtMostTop
<1>3. ASSUME NEW s \in others
      PROVE Cardinality({x \in others : x > s}) \in Nat
  BY <1>1, FS_Subset, FS_CardinalityType
<1>4. Of(u) \ Excess(u) \subseteq K \union {born}
  BY <1>3 DEF Excess
<1>5. IsFiniteSet(K \union {born}) /\ Cardinality(K \union {born}) <= Cardinality(K) + 1
  <2>1. Cardinality(K) \in Nat
    BY <1>2, FS_CardinalityType
  <2>2. /\ IsFiniteSet(K \union {born})
        /\ Cardinality(K \union {born})
             = IF born \in K THEN Cardinality(K) ELSE Cardinality(K) + 1
    BY <1>2, FS_AddElement, Zenon
  <2> HIDE DEF K
  <2> QED
    BY <2>1, <2>2
<1>6. Cardinality(Of(u) \ Excess(u)) <= Cardinality(K \union {born})
  BY <1>4, <1>5, FS_Subset
<1>7. /\ Cardinality(Of(u) \ Excess(u)) \in Nat
      /\ Cardinality(K \union {born}) \in Nat
      /\ Cardinality(K) \in Nat
  BY <1>2, <1>5, OfIsFinite, FS_Subset, FS_CardinalityType
<1> HIDE DEF K
<1> QED
  BY <1>2, <1>5, <1>6, <1>7

\* Only a login adds a session.
LEMMA OfShrinks ==
  ASSUME Typed, [Next]_vars, NEW u \in Users, ~Open(u)
  PROVE Of(u)' \subseteq Of(u)
<1> SUFFICES ASSUME NEW s \in Sessions, session'[s].owner = u
             PROVE session[s].owner = u
  BY DEF Of
<1> USE DEF Typed, RowsTyped
<1>1. ASSUME NEW S, Drop(S)
      PROVE session[s].owner = u
  BY <1>1 DEF Drop, Blank
<1>2. ASSUME NEW o \in Owners, Open(o)
      PROVE session[s].owner = u
  <2>1. session' = [session EXCEPT ![born + 1] =
          [owner |-> o, epoch |-> epoch[o], idle |-> Idle, life |-> Life]]
    BY <1>2 DEF Open
  <2> QED
    BY <1>2, <2>1
<1>3. ASSUME NEW w \in Threads, Grant(w)
      PROVE session[s].owner = u
  BY <1>3 DEF Grant, Rows
<1>4. CASE Tick
  BY <1>4 DEF Tick, Rows
<1> QED
  BY <1>1, <1>2, <1>3, <1>4, SessionStep

\* What ends the handler of a login.
LEMMA CappingStep ==
  ASSUME [Next]_vars
  PROVE Settle \/ SettleFails \/ Crash \/ (over' = over /\ (UNCHANGED handler \/ loop # "capping"))
<1>1. ASSUME NEW w \in Threads, Check(w)
      PROVE UNCHANGED <<over, handler>>
  BY <1>1 DEF Check, FrozenOut, Arrive, ReadRow, Reject, Grant, Refuse
<1>2. ASSUME NEW w \in Threads, Handle(w)
      PROVE UNCHANGED over /\ (UNCHANGED handler \/ loop # "capping")
  BY <1>2 DEF Handle, Serve, Logout, ChangePassword, ChangeAdminPassword, DeleteAccount, IssueKey,
    KillSwitch, ReleaseSwitch, RevokeAllSessions, RevokeSession, Promote, Demote,
    AdminResetsPassword, SendReset, Freeze, Unfreeze, DeleteUser, RevokeKey, Erase, NewPassword
<1> QED
  BY <1>1, <1>2 DEF Next, Login, LoginByKey, AdminLogin, Open, ResetPassword, Forgot, Purge, Erase,
    NewPassword, Revoke, RevokeFails, ListDeleted, Tick, Sweep, vars

\* Between two logins a user's sessions only become fewer, and a settled login is capped.
LEMMA CapStep ==
  ASSUME Typed, SessionCap, [Next]_vars
  PROVE SessionCap'
<1> SUFFICES ASSUME NEW u \in Users, u \notin over', ~(loop' = "capping" /\ client' = u)
             PROVE Cardinality(Of(u)') <= MaxConcurrent + 1
  BY DEF SessionCap
<1>1. Of(u)' \subseteq Of(u)
  BY OfShrinks DEF Open
<1>2. CASE u \notin over /\ ~(loop = "capping" /\ client = u)
  <2>1. Cardinality(Of(u)) <= MaxConcurrent + 1
    BY <1>2 DEF SessionCap
  <2>2. IsFiniteSet(Of(u)) /\ Cardinality(Of(u)) \in Nat
    BY OfIsFinite, FS_CardinalityType
  <2>3. IsFiniteSet(Of(u)') /\ Cardinality(Of(u)') <= Cardinality(Of(u))
    BY <1>1, <2>2, FS_Subset
  <2>4. Cardinality(Of(u)') \in Nat
    BY <2>3, FS_CardinalityType
  <2> QED
    BY <2>1, <2>2, <2>3, <2>4
<1>3. CASE u \in over \/ (loop = "capping" /\ client = u)
  <2>1. Settle /\ client = u
    BY <1>3, CappingStep DEF Settle, SettleFails, Crash
  <2>2. Of(u)' \subseteq Of(u) \ Excess(u)
    BY <1>1, <2>1 DEF Settle, Drop, Of, Blank
  <2>3. IsFiniteSet(Of(u) \ Excess(u))
    BY OfIsFinite, FS_Subset
  <2>4. Cardinality(Of(u) \ Excess(u)) <= MaxConcurrent + 1
    BY CapLeaves
  <2>5. IsFiniteSet(Of(u)') /\ Cardinality(Of(u)') <= Cardinality(Of(u) \ Excess(u))
    BY <2>2, <2>3, FS_Subset
  <2>6. Cardinality(Of(u)') \in Nat /\ Cardinality(Of(u) \ Excess(u)) \in Nat
    BY <2>3, <2>5, FS_CardinalityType
  <2> QED
    BY <2>4, <2>5, <2>6
<1> QED
  BY <1>2, <1>3

\* A user whose last login was settled has at most one session more than its plan's cap,
\* whatever other steps come between the two transactions of the login.
THEOREM CapHolds == Spec => []SessionCap
<1>1. Init => SessionCap
  <2> SUFFICES ASSUME Init, NEW u \in Users
               PROVE Cardinality(Of(u)) <= MaxConcurrent + 1
    BY DEF SessionCap
  <2>1. Of(u) = {}
    BY DEF Init, Of, Blank
  <2>2. Cardinality(Of(u)) = 0
    BY <2>1, FS_EmptySet
  <2> QED
    BY <2>2
<1> QED
  BY <1>1, CapStep, TypesAlways, PTL DEF Spec
=============================================================================
