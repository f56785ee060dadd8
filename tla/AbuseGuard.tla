----------------------------- MODULE AbuseGuard -----------------------------
(***************************************************************************)
(* The guard around login and forgot-password.  Failures are counted for   *)
(* the account name and for the address; beyond the free attempts each one *)
(* opens a cooldown that grows by a factor up to a maximum, during which   *)
(* further attempts are turned away unverified.  A success forgets both    *)
(* counters, and so does a quiet reset window.                             *)
(*                                                                         *)
(* In Redis, Check reads the two counters one after the other and          *)
(* RegisterFailure counts them one after the other, each with one time     *)
(* stamp taken at its start; any of these calls may fail.  In memory each  *)
(* of the three is atomic.  The entry in Redis outlives the reset window   *)
(* by a minute, when it means nothing any more, so its expiry is left out. *)
(* Login and forgot have separate counters and the same guard: one of the  *)
(* two is looked at, chosen at the start.                                  *)
(***************************************************************************)
EXTENDS Clock, Sequences

CONSTANTS
  Attempts,    \* requests in progress at the same time
  Identities,  \* account names, as normalizeAuthIdentity leaves them
  Addresses,   \* what clientIP says: the first X-Forwarded-For, else the peer's address
               \* and port, so that one client may have many
  GuardPolicies,  \* [free, base, multiplier, max, reset]
  GuardHorizon,  \* bound: the clock stops here
  Hold,        \* bound: how long a call to Redis may take, retries included
  MaxDuration, \* the largest time.Duration
  MaxFailures, \* bound: failures counted for one key
  NoEntry

ASSUME GuardPoliciesAssumption ==
  \A p \in GuardPolicies :
    /\ p.free \in Nat /\ p.base \in Nat \ {0} /\ p.multiplier \in Nat \ {0}
    /\ p.max \in Nat /\ p.reset \in Nat \ {0}
\* A state key names its dimension, "id" or "ip".
ASSUME AddressesAssumption == Addresses \cap Identities = {}
ASSUME NoEntryAssumption == NoEntry \notin [count : Nat, last : Nat, until : Int]
ASSUME GuardBoundsAssumption ==
  GuardHorizon \in Nat /\ Hold \in Nat /\ MaxDuration \in Nat /\ MaxFailures \in Nat

VARIABLES
  guard,   \* the policy in force; chosen at start-up, as are the next two
  store,   \* "memory" or "redis"
  scope,   \* "login" or "forgot"
  entry,   \* entry[k]: [count, last, until], or NoEntry
  try,     \* the requests
  log      \* history: stamps of the failures counted for k since it was reset,
           \*          or quiet for a reset window

guardVars == <<guard, store, scope, entry, try, log>>
chosen == <<guard, store, scope>>

GuardKeys == Identities \cup Addresses
Idle ==
  [pc |-> "idle", id |-> NoEntry, ip |-> NoEntry, stamp |-> 0, barred |-> FALSE,
   due |-> 0, dueAddress |-> 0]

\* normalizeAuthAbusePolicy, in ticks.
normalizeAuthAbusePolicy(p) ==
  LET base == IF p.base <= 0 THEN 2 * TicksPerSec ELSE p.base
  IN [free       |-> Greatest(p.free, 0),
      base       |-> base,
      multiplier |-> IF p.multiplier < 1 THEN 2 ELSE p.multiplier,
      max        |-> IF p.max < base THEN 300 * TicksPerSec ELSE p.max,
      reset      |-> IF p.reset <= 0 THEN 1800 * TicksPerSec ELSE p.reset]

-----------------------------------------------------------------------------
(* Counting.                                                               *)

\* The delay after the n-th failure before it is cut to an integer.
Power(n) ==
  LET grown[i \in 0 .. n - guard.free - 1] ==
        IF i = 0 THEN guard.base ELSE guard.multiplier * grown[i - 1]
  IN grown[n - guard.free - 1]

\* Faulty: a delay beyond the maximum is dropped.
DelaysDropped(n) == IF n <= guard.free \/ Power(n) > guard.max THEN {0} ELSE {Power(n)}

\* computeDelay, and the same in the script.  In memory the product becomes a
\* time.Duration before it is compared with the maximum: when it does not fit,
\* the conversion gives either the largest or the smallest int64.
Delays(n) ==
  CASE n <= guard.free -> {0}
    [] n > guard.free /\ store = "memory" /\ Power(n) > MaxDuration -> {guard.max, -MaxDuration}
    [] OTHER -> {Least(Power(n), guard.max)}

\* Faulty: every failure starts a count of its own.
CountedAfresh(e, t) == 1

\* fail_count after one more failure stamped t.
Counted(e, t) ==
  IF e = NoEntry \/ (e # NoEntry /\ t - e.last > guard.reset) THEN 1 ELSE e.count + 1

\* bumpLocked and the script.
Bumped(e, t) ==
  {[count |-> Counted(e, t), last |-> t, until |-> t + d] : d \in Delays(Counted(e, t))}

\* activeCooldownLocked and cooldownForKey.
Cooling(e, t) == e # NoEntry /\ t - e.last <= guard.reset /\ e.until > t

-----------------------------------------------------------------------------
(* What the guard promises, from the stamps of the counted failures alone. *)

\* Until when k is to be left alone; a cooldown longer than the reset window
\* ends with it.
Due(s) ==
  IF Len(s) <= guard.free THEN 0
  ELSE s[Len(s)] + Least(Least(Power(Len(s)), guard.max), guard.reset + 1)

\* A streak of failures ends when none was counted for a reset window.
Recalled(s, t) == IF s # <<>> /\ t - s[Len(s)] > guard.reset THEN <<>> ELSE s

-----------------------------------------------------------------------------
(* Requests: LocalLogin and LocalPasswordForgot.                           *)

GuardInit ==
  /\ now = 0
  /\ guard \in {normalizeAuthAbusePolicy(p) : p \in GuardPolicies}
  /\ store \in {"memory", "redis"}
  /\ scope \in {"login", "forgot"}
  /\ entry = [k \in GuardKeys |-> NoEntry]
  /\ try = [q \in Attempts |-> Idle]
  /\ log = [k \in GuardKeys |-> <<>>]

At(q, pc) == try[q].pc = pc
Goto(q, pc) == try' = [try EXCEPT ![q].pc = pc]
Finish(q) == try' = [try EXCEPT ![q] = Idle]

\* A request arrives, as trusted actors do unseen by the guard.
Bypassed == UNCHANGED <<now, guardVars>>

Arrival(id, ip) ==
  [Idle EXCEPT !.id = id, !.ip = ip, !.stamp = now,
               !.due = Due(log[id]), !.dueAddress = Due(log[ip])]

\* Check in memory, atomic; it also drops entries past the reset window.
CheckMemory(q, id, ip) ==
  LET stale(k) == entry[k] # NoEntry /\ now - entry[k].last > guard.reset
      bars == \E k \in {id, ip} : Cooling(entry[k], now)
  IN /\ store = "memory" /\ At(q, "idle")
     /\ entry' = [k \in GuardKeys |->
          IF k \in {id, ip} /\ stale(k) THEN NoEntry ELSE entry[k]]
     /\ try' = [try EXCEPT ![q] =
          IF bars THEN Idle ELSE [Arrival(id, ip) EXCEPT !.pc = "verify"]]
     /\ UNCHANGED <<now, chosen, log>>

\* Check in Redis: the counter of the account name, then that of the address.
\* An error turns the request away.
CheckIdentity(q, id, ip) ==
  /\ store = "redis" /\ At(q, "idle")
  /\ try' = [try EXCEPT ![q] =
       [Arrival(id, ip) EXCEPT !.pc = "check", !.barred = Cooling(entry[id], now)]]
  /\ UNCHANGED <<now, chosen, entry, log>>
CheckAddress(q) ==
  /\ At(q, "check")
  /\ IF try[q].barred \/ Cooling(entry[try[q].ip], try[q].stamp)
     THEN Finish(q) ELSE Goto(q, "verify")
  /\ UNCHANGED <<now, chosen, entry, log>>
CheckFails(q) == At(q, "check") /\ Finish(q) /\ UNCHANGED <<now, chosen, entry, log>>

\* LoginWithLocalPassword refuses, or ForgotLocalPassword succeeds: counted.
Verify(q) ==
  /\ At(q, "verify")
  /\ try' = [try EXCEPT ![q].pc = "count", ![q].stamp = now]
  /\ UNCHANGED <<now, chosen, entry, log>>

\* One counter.
Register(k, t) ==
  /\ \E e \in Bumped(entry[k], t) : entry' = [entry EXCEPT ![k] = e]
  /\ log' = [log EXCEPT ![k] = Recalled(Append(@, t), now)]

\* RegisterFailure in memory, under the mutex.
RegisterMemory(q) ==
  /\ store = "memory" /\ At(q, "count")
  /\ \A k \in {try[q].id, try[q].ip} : Counted(entry[k], try[q].stamp) <= MaxFailures
  /\ \E a \in Bumped(entry[try[q].id], try[q].stamp), b \in Bumped(entry[try[q].ip], try[q].stamp) :
       entry' = [entry EXCEPT ![try[q].id] = a, ![try[q].ip] = b]
  /\ log' = [log EXCEPT ![try[q].id] = Recalled(Append(@, try[q].stamp), now),
                        ![try[q].ip] = Recalled(Append(@, try[q].stamp), now)]
  /\ Finish(q)
  /\ UNCHANGED <<now, chosen>>

\* RegisterFailure in Redis: the account name, then the address.
RegisterIdentity(q) ==
  /\ store = "redis" /\ At(q, "count") /\ Counted(entry[try[q].id], try[q].stamp) <= MaxFailures
  /\ Register(try[q].id, try[q].stamp) /\ Goto(q, "count address")
  /\ UNCHANGED <<now, chosen>>
RegisterAddress(q) ==
  /\ At(q, "count address") /\ Counted(entry[try[q].ip], try[q].stamp) <= MaxFailures
  /\ Register(try[q].ip, try[q].stamp) /\ Finish(q)
  /\ UNCHANGED <<now, chosen>>
RegisterFails(q) ==
  /\ store = "redis" /\ try[q].pc \in {"count", "count address"} /\ Finish(q)
  /\ UNCHANGED <<now, chosen, entry, log>>

\* A successful login: Reset deletes both counters at once, and with them
\* whatever they call for.
Reset(q) ==
  /\ At(q, "verify") /\ scope = "login"
  /\ entry' = [entry EXCEPT ![try[q].id] = NoEntry, ![try[q].ip] = NoEntry]
  /\ log' = [log EXCEPT ![try[q].id] = <<>>, ![try[q].ip] = <<>>]
  /\ try' = [p \in Attempts |->
       IF p = q THEN Idle
       ELSE [try[p] EXCEPT !.due = IF try[p].id = try[q].id THEN 0 ELSE @,
                              !.dueAddress = IF try[p].ip = try[q].ip THEN 0 ELSE @]]
  /\ UNCHANGED <<now, chosen>>

\* Reset fails, or ForgotLocalPassword does: nothing is counted.
NotCounted(q) ==
  /\ At(q, "verify") /\ (scope = "forgot" \/ store = "redis") /\ Finish(q)
  /\ UNCHANGED <<now, chosen, entry, log>>

\* Time passes; the timeouts of the Redis client bound how old a stamp gets.
GuardTick ==
  /\ now < GuardHorizon /\ now' = now + 1
  /\ \A q \in Attempts :
       try[q].pc \in {"check", "count", "count address"} => now - try[q].stamp < Hold
  /\ log' = [k \in GuardKeys |-> Recalled(log[k], now + 1)]
  /\ UNCHANGED <<chosen, entry, try>>

GuardNext ==
  \/ GuardTick \/ Bypassed
  \/ \E q \in Attempts :
       \/ \E id \in Identities, ip \in Addresses : CheckMemory(q, id, ip) \/ CheckIdentity(q, id, ip)
       \/ CheckAddress(q) \/ CheckFails(q) \/ Verify(q)
       \/ RegisterMemory(q) \/ RegisterIdentity(q) \/ RegisterAddress(q) \/ RegisterFails(q)
       \/ Reset(q) \/ NotCounted(q)

GuardSpec == GuardInit /\ [][GuardNext]_<<now, guardVars>>

-----------------------------------------------------------------------------
(* Properties.                                                             *)

\* No password is verified, and no reset mail sent, while a cooldown runs that
\* the failures counted before the request arrived call for: neither the two
\* separate reads of Check, nor resets, lost calls or expired streaks let an
\* attempt through.  The cooldown may be short by what a call to Redis takes,
\* since a failure that is counted late, with an earlier stamp, moves it back.
\* Only attempts that arrived before the failure was counted pass; in memory
\* also those after a delay that did not fit a Duration.
Overflows ==
  store = "memory" /\ \E n \in guard.free + 1 .. MaxFailures : Power(n) > MaxDuration
GuessesAreSpaced ==
  \A q \in Attempts :
    (At(q, "verify") /\ ~Overflows) =>
      Greatest(try[q].due, try[q].dueAddress) <= now + Hold

\* Counting one more failure never ends a running cooldown early, except by as
\* long as the request held its time stamp before it was counted; again unless
\* a delay did not fit a Duration.
CooldownNeverShrinks ==
  [][\A k \in GuardKeys :
       (entry[k] # NoEntry /\ entry'[k] \notin {NoEntry, entry[k]} /\ ~Overflows) =>
         entry'[k].until >= Least(entry[k].until, entry[k].last + guard.reset)
                              - (now - entry'[k].last)]_<<now, guardVars>>

=============================================================================
