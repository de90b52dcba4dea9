-------------------------------- MODULE SignIn --------------------------------
(***************************************************************************)
(* Getting in: registration with a code by e-mail, and the lockout.        *)
(*   routes/auth.py             register, verify, resend, both logins      *)
(*   routes/admin.py            the admins' login and confirmations        *)
(*   services/lockout.py        the auth_failures table                    *)
(*   services/redis_service.py  the cache of codes and pending data        *)
(*                                                                         *)
(* The handlers do not await: each is one step.  Time goes by in ticks.    *)
(* Codes go by number, in the order they are made, and a registration has  *)
(* the number of its first code.  Every call to Redis may fail for itself. *)
(* The two limits on resending are left out: MaxCodes bounds it.           *)
(***************************************************************************)
EXTENDS Integers

CONSTANTS
  Names,         \* what users log in with
  Others,        \* API keys, admins' logins and confirmations: no captcha
  Ips,
  Mail,          \* the address, as the verify_email scope counts its failures
  MaxFailures, MaxGuesses,       \* failures that lock a login, and a verification
  CaptchaAt,                     \* failures that call for a captcha
  Window, VerifyWindow,          \* ticks a login, and a verification, stays locked
  CodeLife, PendingLife,         \* ticks of the code and of the pending data
  Warm,                          \* ticks a hit in Redis stays in the fallback
  MaxCodes                       \* bound: codes ever made

ASSUME SignInAssumption ==
  /\ Names \intersect Others = {} /\ (Names \union Others) \intersect Ips = {}
  /\ Mail \notin Names \union Others \union Ips
  /\ {MaxFailures, MaxGuesses, Window, VerifyWindow, CodeLife, PendingLife, Warm}
       \subseteq Nat \ {0}
  /\ CaptchaAt \in Nat /\ MaxCodes \in Nat
  /\ Window <= VerifyWindow /\ Warm <= CodeLife

VARIABLES
  fails,      \* auth_failures: how often, and ticks since the last
  redis,      \* what Redis has for the code and the pending data
  memory,     \* the fallback of the process
  account,    \* the registration the account was made from, or none
  given,      \* the code that was given for it
  codes,      \* codes made
  meant,      \* meant[c]: the registration code c was mailed for
  torn,       \* registrations whose pending data did not reach Redis
  age         \* age[c]: ticks since code c was stored

locks == fails
stores == <<redis, memory>>
users == <<account, given>>
mails == <<codes, meant, torn, age>>
vars == <<locks, stores, users, mails>>

Subjects == Names \union Others \union Ips \union {Mail}
Codes == 1..MaxCodes
None == 0
Slots == {"code", "pending"}
NoFailure == [count |-> 0, quiet |-> 0]
Nothing == [value |-> None, left |-> 0]

Limit(s) == IF s = Mail THEN MaxGuesses ELSE MaxFailures
Old == CodeLife + Warm + 1       \* every later age is the same
Quiet == VerifyWindow + 1        \* every later one is the same
Failures == [count : Nat, quiet : 0..Quiet]
Entry == [value : Codes \union {None}, left : 0..(CodeLife + PendingLife)]

TypeOK ==
  /\ fails \in [Subjects -> Failures] /\ \A s \in Subjects : fails[s].count <= Limit(s)
  /\ redis \in [Slots -> Entry] /\ memory \in [Slots -> Entry]
  /\ account \in Codes \union {None} /\ given \in Codes \union {None}
  /\ codes \in 0..MaxCodes
  /\ meant \in [Codes -> Codes \union {None}]
  /\ torn \subseteq Codes
  /\ age \in [Codes -> 0..Old]

Init ==
  /\ fails = [s \in Subjects |-> NoFailure]
  /\ redis = [x \in Slots |-> Nothing] /\ memory = [x \in Slots |-> Nothing]
  /\ account = None /\ given = None
  /\ codes = 0
  /\ meant = [c \in Codes |-> None]
  /\ torn = {}
  /\ age = [c \in Codes |-> 0]

----------------------------------------------------------------------------
(* lockout.py *)

\* _prune_window: the rows of every scope, by the window of the caller.
Pruned(w, f) == [s \in Subjects |-> IF f[s].quiet > w THEN NoFailure ELSE f[s]]

Locked(s, f) == f[s].count >= Limit(s)
Bumped(S, f) ==
  [s \in Subjects |-> IF s \in S THEN [count |-> f[s].count + 1, quiet |-> 0] ELSE f[s]]
Reset(S, f) == [s \in Subjects |-> IF s \in S THEN NoFailure ELSE f[s]]

----------------------------------------------------------------------------
(* Logins and confirmations *)

\* Faulty variant: a refused attempt counts, too.
RefusedCounting(s, ip) ==
  LET f == Pruned(Window, fails) IN
  /\ Locked(s, f) \/ Locked(ip, f)
  /\ fails' = [x \in Subjects |-> IF x \in {s, ip} THEN [f[x] EXCEPT !.quiet = 0] ELSE f[x]]
  /\ UNCHANGED <<stores, users, mails>>

Refused(s, ip) ==
  LET f == Pruned(Window, fails) IN
  /\ Locked(s, f) \/ Locked(ip, f)
  /\ fails' = f
  /\ UNCHANGED <<stores, users, mails>>

\* Unknown, inactive, a wrong password or second factor, or no answer to the captcha that
\* a user is asked from CaptchaAt failures on: the subject and the address both count.
Fails(s, ip) ==
  LET f == Pruned(Window, fails) IN
  /\ ~Locked(s, f) /\ ~Locked(ip, f)
  /\ fails' = Bumped({s, ip}, f)
  /\ UNCHANGED <<stores, users, mails>>

Asked(s, ip, f) == s \in Names /\ (f[s].count >= CaptchaAt \/ f[ip].count >= CaptchaAt)

\* Faulty variant: the address is not looked at.
SucceedsAnywhere(s, ip, solved) ==
  LET f == Pruned(Window, fails) IN
  /\ ~Locked(s, f)
  /\ Asked(s, ip, f) => solved
  /\ s \in Names => account # None
  /\ fails' = Reset({s, ip}, f)
  /\ UNCHANGED <<stores, users, mails>>

\* The failures of everyone else at the address are forgiven as well.
Succeeds(s, ip, solved) ==
  LET f == Pruned(Window, fails) IN
  /\ ~Locked(s, f) /\ ~Locked(ip, f)
  /\ Asked(s, ip, f) => solved
  /\ s \in Names => account # None
  /\ fails' = Reset({s, ip}, f)
  /\ UNCHANGED <<stores, users, mails>>

----------------------------------------------------------------------------
(* redis_service.py: reached tells whether Redis answers the call *)

Hit(x, reached) == reached /\ redis[x].left > 0
Got(x, reached) ==
  IF Hit(x, reached) THEN redis[x].value
  ELSE IF memory[x].left > 0 THEN memory[x].value ELSE None

\* Faulty variant: every hit is kept warm, those in the fallback as well.
WarmedAlways(x, reached, m) ==
  IF Hit(x, reached) THEN [m EXCEPT ![x] = [value |-> redis[x].value, left |-> Warm]]
  ELSE IF m[x].left > 0 THEN [m EXCEPT ![x].left = Warm] ELSE m

\* Only a hit in Redis is kept in the fallback; nobody asks how long it had left.
Warmed(x, reached, m) ==
  IF Hit(x, reached) THEN [m EXCEPT ![x] = [value |-> redis[x].value, left |-> Warm]] ELSE m

\* set_with_expiry writes the fallback, then Redis; delete likewise.
Stored(x, v, life, st) == [st EXCEPT ![x] = [value |-> v, left |-> life]]
Removed(X, st) == [x \in Slots |-> IF x \in X THEN Nothing ELSE st[x]]

----------------------------------------------------------------------------
(* Registration *)

\* A new code; the address it is mailed for is told by meant.
NewCode(regn) ==
  /\ codes < MaxCodes
  /\ codes' = codes + 1
  /\ meant' = [meant EXCEPT ![codes + 1] = regn]
  /\ age' = [age EXCEPT ![codes + 1] = 0]

\* Faulty variant: the pending data first.
RegisterPendingFirst(stored, mailed, kept) ==
  LET c == codes + 1 IN
  /\ account = None
  /\ NewCode(IF stored /\ mailed THEN c ELSE None)
  /\ memory' = Stored("pending", c, PendingLife, Stored("code", c, CodeLife, memory))
  /\ redis' =
       LET r == IF kept THEN Stored("pending", c, PendingLife, redis) ELSE redis IN
       IF stored THEN Stored("code", c, CodeLife, r) ELSE r
  /\ torn' = IF kept THEN torn ELSE torn \union {c}
  /\ UNCHANGED <<locks, users>>

\* The code is stored, then mailed, then the data is: whoever cannot store the code or mail
\* it gives up, whoever cannot store the data does not notice.
Register(stored, mailed, kept) ==
  LET c == codes + 1  sent == stored /\ mailed IN
  /\ account = None
  /\ NewCode(IF sent THEN c ELSE None)
  /\ memory' = LET m == Stored("code", c, CodeLife, memory) IN
               IF sent THEN Stored("pending", c, PendingLife, m) ELSE m
  /\ redis' = LET r == IF stored THEN Stored("code", c, CodeLife, redis) ELSE redis IN
              IF sent /\ kept THEN Stored("pending", c, PendingLife, r) ELSE r
  /\ torn' = IF sent /\ ~kept THEN torn \union {c} ELSE torn
  /\ UNCHANGED <<locks, users>>

\* With email_verification_enabled off the account is made at once.
RegisterDirectly ==
  /\ account = None /\ codes < MaxCodes
  /\ codes' = codes + 1 /\ account' = codes + 1
  /\ UNCHANGED <<locks, stores, given, meant, torn, age>>

\* A code that cannot be mailed is taken back, from Redis if that can be reached.
Resend(found, stored, mailed, removed) ==
  LET c == codes + 1  p == Got("pending", found)  m == Warmed("pending", found, memory) IN
  /\ p # None
  /\ NewCode(IF stored /\ mailed THEN p ELSE None)
  /\ memory' = IF stored /\ ~mailed THEN Removed({"code"}, m) ELSE Stored("code", c, CodeLife, m)
  /\ redis' =
       IF ~stored THEN redis
       ELSE IF mailed \/ ~removed THEN Stored("code", c, CodeLife, redis)
       ELSE Removed({"code"}, redis)
  /\ UNCHANGED <<locks, users, torn>>

VerifyRefused ==
  LET f == Pruned(VerifyWindow, fails) IN
  /\ Locked(Mail, f)
  /\ fails' = f
  /\ UNCHANGED <<stores, users, mails>>

\* A wrong code, or one that is not there.
VerifyFails(c, reached) ==
  LET f == Pruned(VerifyWindow, fails) IN
  /\ ~Locked(Mail, f)
  /\ c # Got("code", reached) \/ c = None
  /\ memory' = Warmed("code", reached, memory)
  /\ fails' = Bumped({Mail}, f)
  /\ UNCHANGED <<redis, users, mails>>

\* The right code.  Without pending data the failures are forgiven; when there is an
\* account, the unique index refuses another.
VerifyStale(c, reached, found) ==
  LET f == Pruned(VerifyWindow, fails)  m == Warmed("code", reached, memory) IN
  /\ ~Locked(Mail, f)
  /\ c = Got("code", reached) /\ c # None
  /\ Got("pending", found) = None \/ account # None
  /\ memory' = Warmed("pending", found, m)
  /\ fails' = IF Got("pending", found) = None THEN Reset({Mail}, f) ELSE f
  /\ UNCHANGED <<redis, users, mails>>

Verify(c, reached, found, X) ==
  LET f == Pruned(VerifyWindow, fails) IN
  /\ ~Locked(Mail, f)
  /\ c = Got("code", reached) /\ c # None
  /\ Got("pending", found) # None /\ account = None
  /\ account' = Got("pending", found) /\ given' = c
  /\ memory' = Removed(Slots, memory)
  /\ redis' = Removed(X, redis)
  /\ fails' = Reset({Mail}, f)
  /\ UNCHANGED mails

\* Codes that were mailed are known; others are guessed.
Known == {c \in 1..codes : meant[c] # None}

----------------------------------------------------------------------------
Less(n) == IF n = 0 THEN 0 ELSE n - 1
Later(st) ==
  [x \in Slots |-> IF st[x].left <= 1 THEN Nothing ELSE [st[x] EXCEPT !.left = @ - 1]]
Upto(n, max) == IF n < max THEN n + 1 ELSE max

Tick ==
  /\ fails' = [s \in Subjects |->
       IF fails[s].count = 0 THEN fails[s] ELSE [fails[s] EXCEPT !.quiet = Upto(@, Quiet)]]
  /\ redis' = Later(redis) /\ memory' = Later(memory)
  /\ age' = [c \in Codes |-> IF c <= codes THEN Upto(age[c], Old) ELSE age[c]]
  /\ UNCHANGED <<users, codes, meant, torn>>

\* The process starts again, with an empty fallback.
Restart ==
  /\ memory' = [x \in Slots |-> Nothing]
  /\ UNCHANGED <<locks, redis, users, mails>>

Next ==
  \/ \E s \in Names \union Others, ip \in Ips :
       \/ Refused(s, ip) \/ Fails(s, ip)
       \/ \E solved \in BOOLEAN : Succeeds(s, ip, solved)
  \/ \E stored, mailed, kept \in BOOLEAN : Register(stored, mailed, kept)
  \/ RegisterDirectly
  \/ \E found, stored, mailed, removed \in BOOLEAN : Resend(found, stored, mailed, removed)
  \/ VerifyRefused
  \/ \E c \in Known \union {None}, reached \in BOOLEAN :
       \/ VerifyFails(c, reached)
       \/ \E found \in BOOLEAN :
            \/ VerifyStale(c, reached, found)
            \/ \E X \in SUBSET Slots : Verify(c, reached, found, X)
  \/ Tick \/ Restart

Spec == Init /\ [][Next]_vars

----------------------------------------------------------------------------
(* What the component promises *)

\* The account has the password of the registration whose code was mailed, whatever else
\* was registered for the address - unless its data did not reach Redis.
RightPassword == given # None => account = meant[given] \/ meant[given] \in torn

\* No code is served longer than its life and a stay in the fallback, however often it is
\* read and however Redis comes and goes.
ServedInTime ==
  \A st \in {redis, memory} :
    st["code"].left > 0 => age[st["code"].value] + st["code"].left <= CodeLife + Warm

\* Held: locked, and within the time that takes.
Held(s, f) == Locked(s, f) /\ f[s].quiet <= IF s = Mail THEN VerifyWindow ELSE Window

\* Whoever is locked out is let in again by time alone: no attempt puts that off.
LockRunsOut ==
  [][\A s \in Subjects : Held(s, fails) =>
       fails'[s].count = 0 \/ fails'[s].quiet >= fails[s].quiet]_vars

\* And by nothing else: not by logins of others from the same address, nor by one of the
\* other scopes - but a login ends the lock of a verification after Window.
LockHolds ==
  [][\A s \in Subjects : Held(s, fails) =>
       fails'[s].count > 0 \/ (s = Mail /\ fails[s].quiet > Window)]_vars
=============================================================================
