------------------------------ MODULE SignInProofs ------------------------------
(***************************************************************************)
(* Theorems about SignIn, for any names, addresses, limits, windows and    *)
(* lives of a code.                                                        *)
(***************************************************************************)
EXTENDS SignIn, TLAPS

USE SignInAssumption
USE DEF locks, stores, users, mails, Subjects, Codes, None, Slots

----------------------------------------------------------------------------
(* Types *)

Table == [Subjects -> Failures]

FailsTyped == fails \in Table /\ \A s \in Subjects : fails[s].count <= Limit(s)
StoresTyped == redis \in [Slots -> Entry] /\ memory \in [Slots -> Entry]
RestTyped ==
  /\ account \in Codes \union {None} /\ given \in Codes \union {None}
  /\ codes \in 0..MaxCodes
  /\ meant \in [Codes -> Codes \union {None}]
  /\ torn \subseteq Codes
  /\ age \in [Codes -> 0..Old]

\* The type invariant in three parts.
LEMMA TypeParts == TypeOK <=> FailsTyped /\ StoresTyped /\ RestTyped
BY DEF TypeOK, FailsTyped, Table, StoresTyped, RestTyped

\* The numbers are numbers.
LEMMA Numbers ==
  /\ MaxFailures \in Nat \ {0} /\ MaxGuesses \in Nat \ {0}
  /\ Window \in Nat \ {0} /\ VerifyWindow \in Nat \ {0}
  /\ CodeLife \in Nat \ {0} /\ PendingLife \in Nat \ {0} /\ Warm \in Nat \ {0}
  /\ Window <= VerifyWindow /\ Warm <= CodeLife
  /\ \A s : Limit(s) \in Nat \ {0}
BY DEF Limit

\* Pruning leaves a table, in which a row is as it was or empty.
LEMMA PrunedRows ==
  ASSUME NEW f \in Table, NEW w
  PROVE /\ Pruned(w, f) \in Table
        /\ \A s \in Subjects : Pruned(w, f)[s] = IF f[s].quiet > w THEN NoFailure ELSE f[s]
<1>1. NoFailure \in Failures
  BY Numbers DEF Failures, NoFailure, Quiet
<1> QED
  BY <1>1 DEF Pruned, Table

\* So does counting a failure for some.
LEMMA BumpedRows ==
  ASSUME NEW f \in Table, NEW S
  PROVE /\ Bumped(S, f) \in Table
        /\ \A s \in Subjects : Bumped(S, f)[s].count = f[s].count + IF s \in S THEN 1 ELSE 0
        /\ \A s \in Subjects : s \notin S => Bumped(S, f)[s] = f[s]
<1>1. Bumped(S, f) \in Table
  BY Numbers DEF Bumped, Table, Failures, Quiet
<1>2. ASSUME NEW s \in Subjects
      PROVE /\ Bumped(S, f)[s].count = f[s].count + IF s \in S THEN 1 ELSE 0
            /\ s \notin S => Bumped(S, f)[s] = f[s]
  BY DEF Bumped, Table, Failures
<1> QED
  BY <1>1, <1>2

\* And forgiving some.
LEMMA ResetRows ==
  ASSUME NEW f \in Table, NEW S
  PROVE /\ Reset(S, f) \in Table
        /\ \A s \in Subjects : Reset(S, f)[s] = IF s \in S THEN NoFailure ELSE f[s]
<1>1. NoFailure \in Failures
  BY Numbers DEF Failures, NoFailure, Quiet
<1> QED
  BY <1>1 DEF Reset, Table

\* An attempt of subjects S, in a scope of window w: they are not locked when it counts.
Attempt(S, w) ==
  LET f == Pruned(w, fails) IN
  \/ fails' = f
  \/ (\A s \in S : ~Locked(s, f)) /\ fails' \in {Bumped(S, f), Reset(S, f)}

\* What a step can do to the failures.
LEMMA FailsStep ==
  ASSUME [Next]_vars
  PROVE \/ UNCHANGED fails
        \/ \E s \in Names \union Others, ip \in Ips : Attempt({s, ip}, Window)
        \/ Attempt({Mail}, VerifyWindow)
        \/ Tick
<1>1. ASSUME NEW s \in Names \union Others, NEW ip \in Ips,
             Refused(s, ip) \/ Fails(s, ip) \/ \E solved \in BOOLEAN : Succeeds(s, ip, solved)
      PROVE Attempt({s, ip}, Window)
  BY <1>1 DEF Refused, Fails, Succeeds, Attempt
<1>2. CASE VerifyRefused
  BY <1>2 DEF VerifyRefused, Attempt
<1>3. ASSUME NEW c, NEW reached, VerifyFails(c, reached)
      PROVE Attempt({Mail}, VerifyWindow)
  BY <1>3 DEF VerifyFails, Attempt
<1>4. ASSUME NEW c, NEW reached, NEW found, VerifyStale(c, reached, found)
      PROVE Attempt({Mail}, VerifyWindow)
  BY <1>4 DEF VerifyStale, Attempt
<1>5. ASSUME NEW c, NEW reached, NEW found, NEW X, Verify(c, reached, found, X)
      PROVE Attempt({Mail}, VerifyWindow)
  BY <1>5 DEF Verify, Attempt
<1>6. ASSUME NEW stored, NEW mailed, NEW kept, Register(stored, mailed, kept)
      PROVE UNCHANGED fails
  BY <1>6 DEF Register
<1>7. ASSUME NEW found, NEW stored, NEW mailed, NEW removed, Resend(found, stored, mailed, removed)
      PROVE UNCHANGED fails
  BY <1>7 DEF Resend
<1>8. CASE RegisterDirectly \/ Restart \/ UNCHANGED vars
  BY <1>8 DEF RegisterDirectly, Restart, vars
<1> QED
  BY <1>1, <1>2, <1>3, <1>4, <1>5, <1>6, <1>7, <1>8, Zenon DEF Next

\* An attempt keeps the types, and leaves alone who is locked within its window.
LEMMA AttemptKeeps ==
  ASSUME FailsTyped, NEW S \in SUBSET Subjects, NEW w, Attempt(S, w)
  PROVE /\ FailsTyped'
        /\ \A s \in Subjects : Locked(s, fails) /\ ~(fails[s].quiet > w) => fails'[s] = fails[s]
        /\ \A s \in Subjects \ S : fails'[s] = IF fails[s].quiet > w THEN NoFailure ELSE fails[s]
<1> DEFINE f == Pruned(w, fails)
<1>1. /\ f \in Table
      /\ \A s \in Subjects : f[s] = IF fails[s].quiet > w THEN NoFailure ELSE fails[s]
  BY PrunedRows DEF FailsTyped
<1>2. \A s \in Subjects : f[s].count \in Nat /\ f[s].count <= Limit(s)
  BY <1>1, Numbers DEF FailsTyped, NoFailure, Table, Failures
<1> HIDE DEF f
<1>3. CASE fails' = f
  BY <1>1, <1>2, <1>3 DEF FailsTyped
<1>4. CASE (\A s \in S : ~Locked(s, f)) /\ fails' = Bumped(S, f)
  <2>1. /\ fails' \in Table
        /\ \A s \in Subjects : fails'[s].count = f[s].count + IF s \in S THEN 1 ELSE 0
        /\ \A s \in Subjects : s \notin S => fails'[s] = f[s]
    BY <1>1, <1>4, BumpedRows
  <2>2. \A s \in Subjects : fails'[s].count <= Limit(s)
    BY <1>2, <1>4, <2>1, Numbers DEF Locked
  <2>3. \A s \in Subjects : Locked(s, fails) /\ ~(fails[s].quiet > w) => s \notin S
    BY <1>1, <1>4 DEF Locked
  <2> QED
    BY <1>1, <2>1, <2>2, <2>3 DEF FailsTyped
<1>5. CASE (\A s \in S : ~Locked(s, f)) /\ fails' = Reset(S, f)
  <2>1. /\ fails' \in Table
        /\ \A s \in Subjects : fails'[s] = IF s \in S THEN NoFailure ELSE f[s]
    BY <1>1, <1>5, ResetRows
  <2>2. \A s \in Subjects : fails'[s].count <= Limit(s)
    BY <1>2, <2>1, Numbers DEF NoFailure
  <2>3. \A s \in Subjects : Locked(s, fails) /\ ~(fails[s].quiet > w) => s \notin S
    BY <1>1, <1>5 DEF Locked
  <2> QED
    BY <1>1, <2>1, <2>2, <2>3 DEF FailsTyped
<1> QED
  BY <1>3, <1>4, <1>5 DEF Attempt, f

\* Time leaves the counts alone.
LEMMA TickKeeps ==
  ASSUME FailsTyped, Tick
  PROVE /\ FailsTyped'
        /\ \A s \in Subjects : /\ fails'[s].count = fails[s].count
                               /\ fails'[s].quiet >= fails[s].quiet
<1>1. ASSUME NEW s \in Subjects
      PROVE /\ fails'[s] \in Failures
            /\ fails'[s].count = fails[s].count /\ fails'[s].quiet >= fails[s].quiet
  <2>1. fails[s] \in Failures
    BY DEF FailsTyped, Table
  <2>2. fails'[s] = IF fails[s].count = 0 THEN fails[s]
                    ELSE [fails[s] EXCEPT !.quiet = Upto(@, Quiet)]
    BY DEF Tick
  <2>3. Upto(fails[s].quiet, Quiet) \in 0..Quiet /\ Upto(fails[s].quiet, Quiet) >= fails[s].quiet
    BY <2>1, Numbers DEF Upto, Quiet, Failures
  <2> QED
    BY <2>1, <2>2, <2>3 DEF Failures
<1>2. fails' = [s \in Subjects |-> fails'[s]]
  BY DEF Tick
<1> QED
  BY <1>1, <1>2 DEF FailsTyped, Table

\* The failures keep their types.
LEMMA FailsStepTyped ==
  ASSUME FailsTyped, [Next]_vars
  PROVE FailsTyped'
<1>1. CASE UNCHANGED fails
  BY <1>1 DEF FailsTyped
<1> QED
  BY <1>1, FailsStep, AttemptKeeps, TickKeeps

\* Who is locked is not touched by an attempt, and time only brings the end nearer.
LEMMA HeldStep ==
  ASSUME FailsTyped, [Next]_vars, NEW s \in Subjects, Held(s, fails)
  PROVE /\ fails'[s].count = 0 \/ fails'[s].quiet >= fails[s].quiet
        /\ fails'[s].count > 0 \/ (s = Mail /\ fails[s].quiet > Window)
<1>1. fails[s].count \in Nat \ {0} /\ fails[s].quiet \in Nat
  BY Numbers DEF Held, Locked, FailsTyped, Table, Failures, Quiet
<1>2. CASE UNCHANGED fails
  BY <1>1, <1>2
<1>3. CASE Tick
  BY <1>1, <1>3, TickKeeps
<1>4. CASE Attempt({Mail}, VerifyWindow)
  <2>1. ~(fails[s].quiet > VerifyWindow)
    BY <1>1, Numbers DEF Held
  <2>2. fails'[s] = fails[s]
    BY <1>4, <2>1, AttemptKeeps DEF Held
  <2> QED
    BY <1>1, <2>2
<1>5. ASSUME NEW n \in Names \union Others, NEW ip \in Ips, Attempt({n, ip}, Window)
      PROVE /\ fails'[s].count = 0 \/ fails'[s].quiet >= fails[s].quiet
            /\ fails'[s].count > 0 \/ (s = Mail /\ fails[s].quiet > Window)
  <2>1. CASE ~(fails[s].quiet > Window)
    <3>1. fails'[s] = fails[s]
      BY <1>5, <2>1, AttemptKeeps DEF Held
    <3> QED
      BY <1>1, <3>1
  <2>2. CASE fails[s].quiet > Window
    <3>1. s = Mail
      BY <1>1, <2>2, Numbers DEF Held
    <3>2. {n, ip} \subseteq Subjects /\ s \in Subjects \ {n, ip}
      BY <3>1
    <3>3. fails'[s] = NoFailure
      BY <1>5, <2>2, <3>2, AttemptKeeps
    <3> QED
      BY <2>2, <3>1, <3>3 DEF NoFailure
  <2> QED
    BY <2>1, <2>2
<1> QED
  BY <1>2, <1>3, <1>4, <1>5, FailsStep

----------------------------------------------------------------------------
(* The stores: what is in a slot after a step *)

\* Slot x of st has value v, for some time yet.
Holds(st, x, v) == st[x].left > 0 /\ st[x].value = v

\* Both stores have as much time for a code as its age allows.
InTime ==
  /\ redis["code"].left > 0 => age[redis["code"].value] + redis["code"].left <= CodeLife
  /\ memory["code"].left > 0 => age[memory["code"].value] + memory["code"].left <= CodeLife + Warm

\* Values are numbers of codes made.
Made == \A st \in {redis, memory}, x \in Slots : st[x].left > 0 => st[x].value \in 1..codes

\* Writing a slot.
LEMMA StoredSlots ==
  ASSUME NEW st \in [Slots -> Entry], NEW x \in Slots, NEW v \in Codes \union {None},
         NEW life \in 0..(CodeLife + PendingLife)
  PROVE /\ Stored(x, v, life, st) \in [Slots -> Entry]
        /\ Stored(x, v, life, st)[x] = [value |-> v, left |-> life]
        /\ \A y \in Slots : y # x => Stored(x, v, life, st)[y] = st[y]
BY DEF Stored, Entry

\* Deleting slots.
LEMMA RemovedSlots ==
  ASSUME NEW st \in [Slots -> Entry], NEW X
  PROVE /\ Removed(X, st) \in [Slots -> Entry]
        /\ \A y \in Slots : Removed(X, st)[y] = IF y \in X THEN Nothing ELSE st[y]
<1>1. Nothing \in Entry
  BY Numbers DEF Nothing, Entry
<1> QED
  BY <1>1 DEF Removed

\* Keeping a hit warm.
LEMMA WarmedSlots ==
  ASSUME StoresTyped, NEW x \in Slots, NEW reached, NEW m \in [Slots -> Entry]
  PROVE /\ Warmed(x, reached, m) \in [Slots -> Entry]
        /\ \A y \in Slots : y # x => Warmed(x, reached, m)[y] = m[y]
        /\ Warmed(x, reached, m)[x]
             = IF Hit(x, reached) THEN [value |-> redis[x].value, left |-> Warm] ELSE m[x]
<1>1. [value |-> redis[x].value, left |-> Warm] \in Entry
  BY Numbers DEF StoresTyped, Entry
<1> QED
  BY <1>1 DEF Warmed

\* Time.
LEMMA LaterSlots ==
  ASSUME NEW st \in [Slots -> Entry]
  PROVE /\ Later(st) \in [Slots -> Entry]
        /\ \A x \in Slots : Later(st)[x].left > 0 =>
             /\ st[x].left > 0 /\ Later(st)[x].value = st[x].value
             /\ Later(st)[x].left = st[x].left - 1
<1>1. Nothing \in Entry
  BY Numbers DEF Nothing, Entry
<1>2. ASSUME NEW x \in Slots
      PROVE /\ Later(st)[x] \in Entry
            /\ Later(st)[x].left > 0 =>
                 /\ st[x].left > 0 /\ Later(st)[x].value = st[x].value
                 /\ Later(st)[x].left = st[x].left - 1
  <2>1. st[x] \in Entry
    OBVIOUS
  <2>2. CASE st[x].left <= 1
    <3>1. Later(st)[x] = Nothing
      BY <2>2 DEF Later
    <3> QED
      BY <1>1, <3>1 DEF Nothing
  <2>3. CASE ~(st[x].left <= 1)
    <3>1. Later(st)[x] = [st[x] EXCEPT !.left = @ - 1]
      BY <2>3 DEF Later
    <3> QED
      BY <2>1, <2>3, <3>1, Numbers DEF Entry
  <2> QED
    BY <2>2, <2>3
<1>3. Later(st) = [x \in Slots |-> Later(st)[x]]
  BY DEF Later
<1> QED
  BY <1>2, <1>3

----------------------------------------------------------------------------
(* Codes and pending data fit *)

\* Code c may be given for the pending data p.
Fit(c, p) == meant[c] \in {None, p} \/ meant[c] \in torn

\* Any code a store serves fits any pending data a store serves, and where the stores differ
\* the data did not reach Redis.
Fits ==
  /\ \A st, st2 \in {redis, memory} :
       st["code"].left > 0 /\ st2["pending"].left > 0 =>
         Fit(st["code"].value, st2["pending"].value)
  /\ redis["pending"].left > 0 /\ memory["pending"].left > 0 =>
       \/ memory["pending"].value = redis["pending"].value
       \/ memory["pending"].value \in torn

Typed == FailsTyped /\ StoresTyped /\ RestTyped
Sound == Made /\ InTime /\ Fits

\* A step that stores no code only copies from store to store.
Copied ==
  /\ codes' \in {codes, codes + 1} /\ UNCHANGED <<meant, torn>>
  /\ \A x \in Slots :
       /\ redis'[x].left > 0 => Holds(redis, x, redis'[x].value)
       /\ memory'[x].left > 0 => \/ Holds(memory, x, memory'[x].value)
                                 \/ Holds(redis, x, memory'[x].value)

\* What is copied still fits.
LEMMA CopyFits ==
  ASSUME Typed, Made, Fits, Copied
  PROVE Made' /\ Fits'
<1>1. Made'
  <2>1. 1..codes \subseteq 1..codes'
    BY DEF Copied, Typed, RestTyped
  <2> QED
    BY <2>1 DEF Made, Copied, Holds
<1>2. Fits'
  BY DEF Fits, Copied, Holds, Fit
<1> QED
  BY <1>1, <1>2

\* A slot keeps its time, is emptied, or gets a new code; the fallback may also take a code
\* over from Redis for a while.
LEMMA TimesKept ==
  ASSUME Typed, Made, InTime,
         \A c \in 1..codes : age'[c] = age[c],
         \/ redis'["code"] = redis["code"] \/ redis'["code"].left = 0
         \/ redis'["code"] = [value |-> codes + 1, left |-> CodeLife] /\ age'[codes + 1] = 0,
         \/ memory'["code"] = memory["code"] \/ memory'["code"].left = 0
         \/ memory'["code"] = [value |-> codes + 1, left |-> CodeLife] /\ age'[codes + 1] = 0
         \/ Hit("code", TRUE) /\ memory'["code"] = [value |-> redis["code"].value, left |-> Warm]
  PROVE InTime'
<1>1. /\ redis["code"] \in Entry /\ memory["code"] \in Entry
      /\ codes \in Nat /\ \A c \in 1..codes : age[c] \in Nat
  BY DEF Typed, StoresTyped, RestTyped, Old
<1>2. /\ redis["code"].left > 0 => redis["code"].value \in 1..codes
      /\ memory["code"].left > 0 => memory["code"].value \in 1..codes
  BY DEF Made
<1>3. /\ redis["code"].left \in Nat /\ memory["code"].left \in Nat
  BY <1>1, Numbers DEF Entry
<1>4. redis'["code"].left > 0 => age'[redis'["code"].value] + redis'["code"].left <= CodeLife
  BY <1>1, <1>2, <1>3, Numbers DEF InTime
<1>5. memory'["code"].left > 0 =>
        age'[memory'["code"].value] + memory'["code"].left <= CodeLife + Warm
  BY <1>1, <1>2, <1>3, Numbers DEF InTime, Hit
<1> QED
  BY <1>4, <1>5 DEF InTime

\* Time passes for codes and for stores.
LEMMA TickSound ==
  ASSUME Typed, Sound, Tick
  PROVE StoresTyped' /\ RestTyped' /\ Sound'
<1>1. StoresTyped'
  BY LaterSlots DEF Typed, StoresTyped, Tick
<1>2. \A c \in Codes : age[c] \in 0..Old /\ age'[c] \in 0..Old /\ age'[c] <= age[c] + 1
  <2>1. \A c \in Codes : age[c] \in 0..Old
    BY DEF Typed, RestTyped
  <2>2. \A c \in Codes : Upto(age[c], Old) \in 0..Old /\ Upto(age[c], Old) <= age[c] + 1
    BY <2>1, Numbers DEF Upto, Old
  <2> QED
    BY <2>1, <2>2 DEF Tick
<1>3. RestTyped'
  <2>1. age' = [c \in Codes |-> age'[c]]
    BY DEF Tick
  <2>2. age' \in [Codes -> 0..Old]
    BY <1>2, <2>1
  <2> QED
    BY <2>2 DEF Typed, RestTyped, Tick
<1>4. Copied
  BY LaterSlots DEF Tick, Copied, Holds, Typed, StoresTyped
<1>5. InTime'
  <2>1. /\ redis["code"].left > 0 => redis["code"].value \in Codes
        /\ memory["code"].left > 0 => memory["code"].value \in Codes
    BY SMTT(40) DEF Sound, Made, Typed, RestTyped
  <2>2. /\ redis["code"].left \in Nat /\ memory["code"].left \in Nat
    BY Numbers DEF Typed, StoresTyped, Entry
  <2>3. redis'["code"].left > 0 =>
          /\ redis["code"].left > 0 /\ redis'["code"].value = redis["code"].value
          /\ redis'["code"].left = redis["code"].left - 1
    BY LaterSlots DEF Tick, Typed, StoresTyped
  <2>4. memory'["code"].left > 0 =>
          /\ memory["code"].left > 0 /\ memory'["code"].value = memory["code"].value
          /\ memory'["code"].left = memory["code"].left - 1
    BY LaterSlots DEF Tick, Typed, StoresTyped
  <2>5. Old \in Nat
    BY Numbers DEF Old
  <2> QED
    BY <1>2, <2>1, <2>2, <2>3, <2>4, <2>5, Numbers DEF Sound, InTime
<1> QED
  BY <1>1, <1>3, <1>4, <1>5, CopyFits DEF Sound

\* A login, a verification and a restart only copy and delete.
LEMMA VerifySound ==
  ASSUME Typed, Sound, NEW c, NEW reached, NEW found, NEW X,
         VerifyFails(c, reached) \/ VerifyStale(c, reached, found) \/ Verify(c, reached, found, X)
  PROVE StoresTyped' /\ Sound' /\ UNCHANGED <<codes, meant, torn, age>>
<1> USE DEF Typed, StoresTyped
<1>1. UNCHANGED <<codes, meant, torn, age>>
  BY DEF VerifyFails, VerifyStale, Verify
<1>2. CASE VerifyFails(c, reached)
  <2>1. redis' = redis /\ memory' = Warmed("code", reached, memory)
    BY <1>2 DEF VerifyFails
  <2>2. StoresTyped'
    BY <2>1, WarmedSlots
  <2>3. Copied
    BY <1>1, <2>1, WarmedSlots DEF Copied, Holds, Hit
  <2>4. InTime'
    BY <1>1, <2>1, WarmedSlots, TimesKept DEF Sound, Hit
  <2> QED
    BY <1>1, <2>2, <2>3, <2>4, CopyFits DEF Sound
<1>3. CASE VerifyStale(c, reached, found)
  <2> DEFINE m == Warmed("code", reached, memory)
  <2>1. redis' = redis /\ memory' = Warmed("pending", found, m)
    BY <1>3 DEF VerifyStale
  <2>2. /\ m \in [Slots -> Entry] /\ m["pending"] = memory["pending"]
        /\ m["code"] = IF Hit("code", reached) THEN [value |-> redis["code"].value, left |-> Warm]
                        ELSE memory["code"]
    BY WarmedSlots
  <2> HIDE DEF m
  <2>3. /\ memory' \in [Slots -> Entry] /\ memory'["code"] = m["code"]
        /\ memory'["pending"] = IF Hit("pending", found)
                                THEN [value |-> redis["pending"].value, left |-> Warm]
                                ELSE memory["pending"]
    BY <2>1, <2>2, WarmedSlots
  <2>4. Copied
    BY <1>1, <2>1, <2>2, <2>3 DEF Copied, Holds, Hit
  <2>5. InTime'
    BY <1>1, <2>1, <2>2, <2>3, TimesKept DEF Sound, Hit
  <2> QED
    BY <1>1, <2>1, <2>3, <2>4, <2>5, CopyFits DEF Sound
<1>4. CASE Verify(c, reached, found, X)
  <2>1. redis' = Removed(X, redis) /\ memory' = Removed(Slots, memory)
    BY <1>4 DEF Verify
  <2>2. StoresTyped'
    BY <2>1, RemovedSlots
  <2>3. Copied
    BY <1>1, <2>1, RemovedSlots DEF Copied, Holds, Nothing
  <2>4. /\ redis'["code"] = redis["code"] \/ redis'["code"].left = 0
        /\ memory'["code"].left = 0
    BY <2>1, RemovedSlots DEF Nothing
  <2>5. InTime'
    BY <1>1, <2>4, TimesKept DEF Sound
  <2> QED
    BY <1>1, <2>2, <2>3, <2>5, CopyFits DEF Sound
<1> QED
  BY <1>1, <1>2, <1>3, <1>4

\* The numbers a new code changes.
LEMMA NewCodeTyped ==
  ASSUME Typed, NEW regn \in Codes \union {None}, NewCode(regn)
  PROVE /\ codes + 1 \in Codes /\ codes' \in 0..MaxCodes
        /\ meant' \in [Codes -> Codes \union {None}] /\ meant'[codes + 1] = regn
        /\ age' \in [Codes -> 0..Old] /\ age'[codes + 1] = 0
        /\ \A c \in 1..codes : meant'[c] = meant[c] /\ age'[c] = age[c]
<1>1. Old \in Nat /\ 0 \in 0..Old
  BY Numbers DEF Old
<1>2. /\ codes + 1 \in Codes /\ codes' = codes + 1 /\ codes \in Nat
      /\ meant' = [meant EXCEPT ![codes + 1] = regn]
      /\ age' = [age EXCEPT ![codes + 1] = 0]
  BY DEF NewCode, Typed, RestTyped, Codes
<1>3. /\ meant' \in [Codes -> Codes \union {None}] /\ meant'[codes + 1] = regn
      /\ age' \in [Codes -> 0..Old] /\ age'[codes + 1] = 0
  BY <1>1, <1>2 DEF Typed, RestTyped
<1>4. ASSUME NEW c \in 1..codes
      PROVE meant'[c] = meant[c] /\ age'[c] = age[c]
  <2>1. c \in Codes /\ c # codes + 1
    BY <1>2 DEF Codes
  <2> QED
    BY <1>2, <2>1 DEF Typed, RestTyped
<1>5. codes' \in 0..MaxCodes
  BY <1>2 DEF Codes
<1> QED
  BY <1>2, <1>3, <1>4, <1>5

\* A registration: its code fits its own data, or the data of none.
LEMMA RegisterSound ==
  ASSUME Typed, Sound, NEW stored \in BOOLEAN, NEW mailed \in BOOLEAN, NEW kept \in BOOLEAN,
         Register(stored, mailed, kept)
  PROVE StoresTyped' /\ RestTyped' /\ Sound'
<1> DEFINE c == codes + 1
           sent == stored /\ mailed
           m == Stored("code", c, CodeLife, memory)
           r == IF stored THEN Stored("code", c, CodeLife, redis) ELSE redis
<1>1. NewCode(IF sent THEN c ELSE None) /\ codes' = c
  BY DEF Register, NewCode
<1>2. /\ c \in Codes /\ codes' \in 0..MaxCodes /\ codes \in Nat
      /\ meant' \in [Codes -> Codes \union {None}]
      /\ meant'[c] = IF sent THEN c ELSE None
      /\ age' \in [Codes -> 0..Old] /\ age'[c] = 0
      /\ \A d \in 1..codes : meant'[d] = meant[d] /\ age'[d] = age[d]
  <2>1. c \in Codes /\ codes \in Nat
    BY <1>1 DEF NewCode, Typed, RestTyped
  <2> QED
    BY <1>1, <2>1, NewCodeTyped
<1>3. /\ torn' = IF sent /\ ~kept THEN torn \union {c} ELSE torn
      /\ UNCHANGED <<account, given>>
  BY DEF Register
<1>4. RestTyped'
  BY <1>2, <1>3 DEF Typed, RestTyped
<1>5. /\ m \in [Slots -> Entry] /\ m["code"] = [value |-> c, left |-> CodeLife]
      /\ m["pending"] = memory["pending"]
  BY <1>2, StoredSlots, Numbers DEF Typed, StoresTyped
<1>6. /\ r \in [Slots -> Entry] /\ r["pending"] = redis["pending"]
      /\ r["code"] = IF stored THEN [value |-> c, left |-> CodeLife] ELSE redis["code"]
  BY <1>2, StoredSlots, Numbers DEF Typed, StoresTyped
<1>7. /\ memory' = IF sent THEN Stored("pending", c, PendingLife, m) ELSE m
      /\ redis' = IF sent /\ kept THEN Stored("pending", c, PendingLife, r) ELSE r
  BY DEF Register
<1> HIDE DEF m, r
<1>8. /\ memory' \in [Slots -> Entry] /\ memory'["code"] = [value |-> c, left |-> CodeLife]
      /\ memory'["pending"] = IF sent THEN [value |-> c, left |-> PendingLife]
                              ELSE memory["pending"]
  BY <1>2, <1>5, <1>7, StoredSlots, Numbers
<1>9. /\ redis' \in [Slots -> Entry]
      /\ redis'["code"] = IF stored THEN [value |-> c, left |-> CodeLife] ELSE redis["code"]
      /\ redis'["pending"] = IF sent /\ kept THEN [value |-> c, left |-> PendingLife]
                             ELSE redis["pending"]
  BY <1>2, <1>6, <1>7, StoredSlots, Numbers
<1>10. InTime'
  BY <1>2, <1>8, <1>9, TimesKept DEF Sound
<1>11. Made'
  <2>1. \A x \in Slots : /\ redis'[x].left > 0 => redis'[x].value = c \/ redis'[x] = redis[x]
                         /\ memory'[x].left > 0 => memory'[x].value = c \/ memory'[x] = memory[x]
    BY <1>8, <1>9
  <2>2. 1..codes \subseteq 1..codes' /\ c \in 1..codes'
    BY <1>1, <1>2
  <2> QED
    BY <2>1, <2>2 DEF Sound, Made
<1>12. Fits'
  <2>1. CASE sent
    BY <1>1, <1>2, <1>3, <1>8, <1>9, <2>1 DEF Sound, Made, Fits, Fit
  <2>2. CASE ~sent
    <3>1. /\ torn' = torn /\ meant'[c] = None
          /\ redis'["pending"] = redis["pending"] /\ memory'["pending"] = memory["pending"]
          /\ memory'["code"].value = c
          /\ redis'["code"].value = c \/ redis'["code"] = redis["code"]
      BY <1>2, <1>3, <1>8, <1>9, <2>2
    <3>2. redis["code"].left > 0 => meant'[redis["code"].value] = meant[redis["code"].value]
      BY <1>2 DEF Sound, Made
    <3> QED
      BY <3>1, <3>2 DEF Sound, Fits, Fit
  <2> QED
    BY <2>1, <2>2
<1> QED
  BY <1>4, <1>8, <1>9, <1>10, <1>11, <1>12 DEF StoresTyped, Sound

\* A resend: the new code is for the data that was found, or for none; data found in the
\* fallback only differs from what Redis has when it did not reach Redis.
LEMMA ResendSound ==
  ASSUME Typed, Sound, NEW found \in BOOLEAN, NEW stored \in BOOLEAN, NEW mailed \in BOOLEAN,
         NEW removed \in BOOLEAN, Resend(found, stored, mailed, removed)
  PROVE StoresTyped' /\ RestTyped' /\ Sound'
<1> DEFINE c == codes + 1
           sent == stored /\ mailed
           p == Got("pending", found)
           m == Warmed("pending", found, memory)
<1>1. NewCode(IF sent THEN p ELSE None) /\ codes' = c /\ UNCHANGED <<account, given, torn>>
  BY DEF Resend, NewCode
<1>2. /\ p \in Codes
      /\ IF Hit("pending", found) THEN p = redis["pending"].value
         ELSE memory["pending"].left > 0 /\ p = memory["pending"].value
  BY DEF Resend, Got, Typed, StoresTyped, Entry
<1>3. /\ c \in Codes /\ codes' \in 0..MaxCodes /\ codes \in Nat
      /\ meant' \in [Codes -> Codes \union {None}]
      /\ meant'[c] = IF sent THEN p ELSE None
      /\ age' \in [Codes -> 0..Old] /\ age'[c] = 0
      /\ \A d \in 1..codes : meant'[d] = meant[d] /\ age'[d] = age[d]
  <2>1. c \in Codes /\ codes \in Nat
    BY <1>1 DEF NewCode, Typed, RestTyped
  <2>2. (IF sent THEN p ELSE None) \in Codes \union {None}
    BY <1>2
  <2> QED
    BY <1>1, <2>1, <2>2, NewCodeTyped
<1>4. RestTyped'
  BY <1>1, <1>3 DEF Typed, RestTyped
<1>5. /\ m \in [Slots -> Entry] /\ m["code"] = memory["code"]
      /\ m["pending"] = IF Hit("pending", found)
                        THEN [value |-> redis["pending"].value, left |-> Warm]
                        ELSE memory["pending"]
  BY WarmedSlots DEF Typed, StoresTyped
<1>6. /\ memory' = IF stored /\ ~mailed THEN Removed({"code"}, m) ELSE Stored("code", c, CodeLife, m)
      /\ redis' = IF ~stored THEN redis
                  ELSE IF mailed \/ ~removed THEN Stored("code", c, CodeLife, redis)
                  ELSE Removed({"code"}, redis)
  BY DEF Resend
<1> HIDE DEF m, p
<1>7. /\ memory' \in [Slots -> Entry] /\ memory'["pending"] = m["pending"]
      /\ memory'["code"] = IF stored /\ ~mailed THEN Nothing
                           ELSE [value |-> c, left |-> CodeLife]
  BY <1>3, <1>5, <1>6, StoredSlots, RemovedSlots, Numbers
<1>8. /\ redis' \in [Slots -> Entry] /\ redis'["pending"] = redis["pending"]
      /\ redis'["code"] = IF ~stored THEN redis["code"]
                          ELSE IF mailed \/ ~removed THEN [value |-> c, left |-> CodeLife]
                          ELSE Nothing
  BY <1>3, <1>6, StoredSlots, RemovedSlots, Numbers DEF Typed, StoresTyped
<1>9. InTime'
  <2>1. /\ redis'["code"] = redis["code"] \/ redis'["code"].left = 0
           \/ redis'["code"] = [value |-> c, left |-> CodeLife]
        /\ memory'["code"].left = 0 \/ memory'["code"] = [value |-> c, left |-> CodeLife]
    BY <1>7, <1>8 DEF Nothing
  <2> QED
    BY <1>3, <2>1, TimesKept DEF Sound
<1>10. \A x \in Slots :
         /\ redis'[x].left > 0 => redis'[x].value = c \/ redis'[x] = redis[x]
         /\ memory'[x].left > 0 => \/ memory'[x].value = c \/ memory'[x] = memory[x]
                                   \/ redis[x].left > 0 /\ memory'[x].value = redis[x].value
  <2>1. /\ redis'["code"].left > 0 => redis'["code"].value = c \/ redis'["code"] = redis["code"]
        /\ memory'["code"].left > 0 => memory'["code"].value = c
    BY <1>7, <1>8 DEF Nothing
  <2>2. /\ redis'["pending"] = redis["pending"]
        /\ \/ memory'["pending"] = memory["pending"]
           \/ redis["pending"].left > 0 /\ memory'["pending"].value = redis["pending"].value
    BY <1>5, <1>7, <1>8 DEF Hit
  <2> QED
    BY <2>1, <2>2
<1>11. Made'
  <2>1. 1..codes \subseteq 1..codes' /\ c \in 1..codes'
    BY <1>1, <1>3
  <2>2. ASSUME NEW x \in Slots
        PROVE /\ redis'[x].left > 0 => redis'[x].value \in 1..codes'
              /\ memory'[x].left > 0 => memory'[x].value \in 1..codes'
    BY <1>10, <2>1 DEF Sound, Made
  <2> QED
    BY <2>2 DEF Made
<1>12. Fits'
  <2>1. /\ redis'["code"].left > 0 => redis'["code"].value = c \/ redis'["code"] = redis["code"]
        /\ memory'["code"].left > 0 => memory'["code"].value = c
    BY <1>7, <1>8 DEF Nothing
  <2>2. redis["code"].left > 0 => meant'[redis["code"].value] = meant[redis["code"].value]
    BY <1>3 DEF Sound, Made
  <2>3. /\ redis'["pending"] = redis["pending"]
        /\ \/ redis["pending"].left > 0 /\ memory'["pending"].value = redis["pending"].value
              /\ p = redis["pending"].value
           \/ memory'["pending"] = memory["pending"] /\ memory["pending"].left > 0
              /\ p = memory["pending"].value
    BY <1>2, <1>5, <1>7, <1>8 DEF Hit
  <2>4. meant'[c] \in {None, p} /\ torn' = torn
    BY <1>1, <1>3
  <2>5. /\ memory'["pending"].value = p
        /\ redis["pending"].left > 0 => p = redis["pending"].value \/ p \in torn
    BY <2>3 DEF Sound, Fits
  <2>6. \/ meant'[c] = None
        \/ meant'[c] = p
    BY <2>4
  <2> QED
    BY <2>1, <2>2, <2>3, <2>4, <2>5, <2>6 DEF Sound, Fits, Fit
<1> QED
  BY <1>4, <1>7, <1>8, <1>9, <1>11, <1>12 DEF StoresTyped, Sound

\* Every step.
LEMMA SoundStep ==
  ASSUME Typed, Sound, [Next]_vars
  PROVE Typed' /\ Sound'
<1>1. FailsTyped'
  BY FailsStepTyped DEF Typed
<1>2. ASSUME NEW s, NEW ip, NEW solved, Refused(s, ip) \/ Fails(s, ip) \/ Succeeds(s, ip, solved)
      PROVE UNCHANGED <<stores, users, mails>>
  BY <1>2 DEF Refused, Fails, Succeeds
<1>3. CASE UNCHANGED <<stores, users, mails>> \/ VerifyRefused \/ UNCHANGED vars
  BY <1>1, <1>3 DEF VerifyRefused, vars, Typed, StoresTyped, RestTyped, Sound, Made, InTime, Fits, Fit
<1>4. ASSUME NEW stored \in BOOLEAN, NEW mailed \in BOOLEAN, NEW kept \in BOOLEAN,
             Register(stored, mailed, kept)
      PROVE Typed' /\ Sound'
  BY <1>1, <1>4, RegisterSound DEF Typed
<1>5. ASSUME NEW found \in BOOLEAN, NEW stored \in BOOLEAN, NEW mailed \in BOOLEAN,
             NEW removed \in BOOLEAN, Resend(found, stored, mailed, removed)
      PROVE Typed' /\ Sound'
  BY <1>1, <1>5, ResendSound DEF Typed
<1>6. ASSUME NEW c, NEW reached, NEW found, NEW X,
             VerifyFails(c, reached) \/ VerifyStale(c, reached, found) \/ Verify(c, reached, found, X)
      PROVE Typed' /\ Sound'
  <2>1. StoresTyped' /\ Sound' /\ UNCHANGED <<codes, meant, torn, age>>
    BY <1>6, VerifySound
  <2>2. account' \in Codes \union {None} /\ given' \in Codes \union {None}
    <3>1. CASE Verify(c, reached, found, X)
      <4>1. Got("code", reached) \in Codes \union {None} /\ Got("pending", found) \in Codes \union {None}
        BY DEF Got, Typed, StoresTyped, Entry
      <4> QED
        BY <3>1, <4>1 DEF Verify
    <3>2. CASE VerifyFails(c, reached) \/ VerifyStale(c, reached, found)
      BY <3>2 DEF VerifyFails, VerifyStale, Typed, RestTyped
    <3> QED
      BY <1>6, <3>1, <3>2
  <2> QED
    BY <1>1, <2>1, <2>2 DEF Typed, RestTyped
<1>7. CASE Tick
  BY <1>1, <1>7, TickSound DEF Typed
<1>8. CASE RegisterDirectly
  <2>1. StoresTyped' /\ RestTyped'
    BY <1>8 DEF RegisterDirectly, Typed, StoresTyped, RestTyped
  <2>2. Copied
    BY <1>8 DEF RegisterDirectly, Copied, Holds
  <2>3. InTime'
    BY <1>8 DEF RegisterDirectly, Sound, InTime
  <2> QED
    BY <1>1, <2>1, <2>2, <2>3, CopyFits DEF Typed, Sound
<1>9. CASE Restart
  <2>1. memory' = [x \in Slots |-> Nothing] /\ redis' = redis /\ UNCHANGED <<users, mails>>
    BY <1>9 DEF Restart
  <2>2. \A x \in Slots : memory'[x] \in Entry /\ memory'[x].left = 0
    BY <2>1, Numbers DEF Nothing, Entry
  <2>3. StoresTyped' /\ RestTyped'
    BY <2>1, <2>2 DEF Typed, StoresTyped, RestTyped
  <2>4. Copied
    BY <2>1, <2>2 DEF Copied, Holds
  <2>5. InTime'
    BY <2>1, <2>2 DEF Sound, InTime
  <2> QED
    BY <1>1, <2>3, <2>4, <2>5, CopyFits DEF Typed, Sound
<1> QED
  BY <1>2, <1>3, <1>4, <1>5, <1>6, <1>7, <1>8, <1>9, Zenon DEF Next

\* The first state.
LEMMA SoundStart == Init => Typed /\ Sound
<1> SUFFICES ASSUME Init PROVE Typed /\ Sound
  OBVIOUS
<1>1. NoFailure \in Failures /\ NoFailure.count = 0
  BY Numbers DEF NoFailure, Failures, Quiet
<1>2. FailsTyped
  BY <1>1, Numbers DEF Init, FailsTyped, Table
<1>3. Nothing \in Entry /\ Nothing.left = 0
  BY Numbers DEF Nothing, Entry
<1>4. StoresTyped
  BY <1>3 DEF Init, StoresTyped
<1>5. RestTyped
  BY Numbers DEF Init, RestTyped, Old
<1>6. Sound
  BY <1>3 DEF Init, Sound, Made, InTime, Fits
<1> QED
  BY <1>2, <1>4, <1>5, <1>6 DEF Typed

\* The types and what the stores hold, in every state.
THEOREM SoundAlways == Spec => [](Typed /\ Sound)
BY SoundStart, SoundStep, PTL DEF Spec

\* Type correctness.
THEOREM TypeCorrect == Spec => []TypeOK
BY SoundAlways, TypeParts, PTL DEF Typed

\* However codes are kept warm, and however often Redis fails, no code is served after its life
\* and one stay in the fallback.
THEOREM CodesExpire == Spec => []ServedInTime
<1>1. Typed /\ Sound => ServedInTime
  <2> SUFFICES ASSUME Typed, Sound PROVE ServedInTime
    OBVIOUS
  <2>1. redis["code"].left > 0 => age[redis["code"].value] \in Nat
    BY SMTT(40) DEF Sound, Made, Typed, RestTyped, Old
  <2>2. redis["code"].left \in Nat
    BY Numbers DEF Typed, StoresTyped, Entry
  <2> QED
    BY <2>1, <2>2, Numbers DEF Sound, InTime, ServedInTime
<1> QED
  BY <1>1, SoundAlways, PTL

\* No attempt touches a lock that runs, whoever makes it and in whatever scope.
THEOREM LocksHold == Spec => LockHolds
<1>1. Typed /\ [Next]_vars =>
        [\A s \in Subjects : Held(s, fails) =>
           fails'[s].count > 0 \/ (s = Mail /\ fails[s].quiet > Window)]_vars
  BY HeldStep DEF Typed
<1> QED
  BY <1>1, SoundAlways, PTL DEF Spec, LockHolds

\* And none makes it last longer.
THEOREM LocksRunOut == Spec => LockRunsOut
<1>1. Typed /\ [Next]_vars =>
        [\A s \in Subjects : Held(s, fails) =>
           fails'[s].count = 0 \/ fails'[s].quiet >= fails[s].quiet]_vars
  BY HeldStep DEF Typed
<1> QED
  BY <1>1, SoundAlways, PTL DEF Spec, LockRunsOut

----------------------------------------------------------------------------
(* The account has the password of the registration whose code was given *)

\* The code that was given is one of those made, and there is an account.
Owned ==
  /\ given \in 0..codes
  /\ given # None => account # None

\* A code that is known was mailed; it fits the data it brings to the account.
LEMMA PasswordStep ==
  ASSUME Typed, Sound, Owned, RightPassword, [Next]_vars
  PROVE Owned' /\ RightPassword'
<1>1. ASSUME UNCHANGED <<account, given>>, codes' \in {codes, codes + 1}, torn \subseteq torn',
             \A c \in 1..codes : meant'[c] = meant[c]
      PROVE Owned' /\ RightPassword'
  <2>1. codes \in Nat /\ given \in 0..codes
    BY DEF Owned, Typed, RestTyped
  <2>2. given' \in 0..codes'
    BY <1>1, <2>1
  <2>3. given # None => meant'[given] = meant[given]
    BY <1>1, <2>1 DEF None
  <2> QED
    BY <1>1, <2>2, <2>3 DEF Owned, RightPassword
<1>2. ASSUME NEW c \in Known \union {None}, NEW reached, NEW found, NEW X, Verify(c, reached, found, X)
      PROVE Owned' /\ RightPassword'
  <2>1. c \in Known /\ account' = Got("pending", found) /\ given' = c /\ account' # None
        /\ UNCHANGED <<codes, meant, torn>>
    BY <1>2 DEF Verify
  <2>2. \/ redis["code"].left > 0 /\ c = redis["code"].value
        \/ memory["code"].left > 0 /\ c = memory["code"].value
    BY <1>2 DEF Verify, Got, Hit
  <2>3. \/ redis["pending"].left > 0 /\ account' = redis["pending"].value
        \/ memory["pending"].left > 0 /\ account' = memory["pending"].value
    BY <2>1 DEF Got, Hit
  <2>4. Fit(c, account')
    BY <2>2, <2>3 DEF Sound, Fits
  <2> QED
    BY <2>1, <2>4 DEF Fit, Known, Owned, RightPassword, Typed, RestTyped
<1>3. ASSUME NEW stored \in BOOLEAN, NEW mailed \in BOOLEAN, NEW kept \in BOOLEAN,
             Register(stored, mailed, kept)
      PROVE Owned' /\ RightPassword'
  BY <1>1, <1>3 DEF Register, NewCode, Typed, RestTyped
<1>4. ASSUME NEW found \in BOOLEAN, NEW stored \in BOOLEAN, NEW mailed \in BOOLEAN,
             NEW removed \in BOOLEAN, Resend(found, stored, mailed, removed)
      PROVE Owned' /\ RightPassword'
  BY <1>1, <1>4 DEF Resend, NewCode, Typed, RestTyped
<1>5. CASE RegisterDirectly
  BY <1>5 DEF RegisterDirectly, Owned, RightPassword, Typed, RestTyped
<1>6. ASSUME UNCHANGED <<users, codes, meant, torn>>
      PROVE Owned' /\ RightPassword'
  BY <1>1, <1>6
<1>7. ASSUME NEW s, NEW ip, NEW solved, Refused(s, ip) \/ Fails(s, ip) \/ Succeeds(s, ip, solved)
      PROVE UNCHANGED <<users, codes, meant, torn>>
  BY <1>7 DEF Refused, Fails, Succeeds
<1>8. ASSUME NEW c, NEW reached, NEW found, VerifyFails(c, reached) \/ VerifyStale(c, reached, found)
      PROVE UNCHANGED <<users, codes, meant, torn>>
  BY <1>8 DEF VerifyFails, VerifyStale
<1>9. CASE VerifyRefused \/ Tick \/ Restart \/ UNCHANGED vars
  BY <1>6, <1>9 DEF VerifyRefused, Tick, Restart, vars
<1> QED
  BY <1>2, <1>3, <1>4, <1>5, <1>6, <1>7, <1>8, <1>9, Zenon DEF Next

\* The account never has the password of another registration than the one whose code was
\* mailed and given - unless its data did not reach Redis.
THEOREM PasswordIsRight == Spec => []RightPassword
<1>1. Init => Owned /\ RightPassword
  BY DEF Init, Owned, RightPassword
<1> QED
  BY <1>1, PasswordStep, SoundAlways, PTL DEF Spec
=============================================================================
