---------------------------- MODULE LoginLimiter ----------------------------
(***************************************************************************)
(* The limits on local logins (app.rs).  login_limited is asked before the *)
(* password is verified and record_login_failure is called after it, with  *)
(* the table unlocked in between.  The password is hashed by a blocking    *)
(* task that nothing can stop and that holds a permit of auth_slots.       *)
(***************************************************************************)
EXTENDS Naturals, FiniteSets

CONSTANTS
  Attempts,    \* login requests
  Addresses,   \* client addresses
  Limit,       \* failures that close an address (5 in the code)
  Window,      \* how long a failure counts (600 s in the code)
  TableLimit,  \* addresses remembered (4096 in the code)
  Concurrency, \* requests handled at once (ConcurrencyLimitLayer, 8)
  AuthSlots,   \* permits of auth_slots (16 in the code)
  MaxClock,    \* bound: the clock stops there
  None

ASSUME LimiterAssumption ==
  /\ {Limit, Window, TableLimit, Concurrency, AuthSlots} \subseteq Nat \ {0}
  /\ MaxClock \in Nat
  /\ None \notin Addresses

VARIABLES
  clock,
  failed,  \* Attempts -> the time of the failure recorded for it, or None
  address, \* Attempts -> the client's address
  slots,   \* attempts that hold a permit of auth_slots
  step     \* Attempts -> position; "orphan" is a verification whose request is gone

vars == <<clock, failed, address, slots, step>>

Steps == {"idle", "slot", "check", "verify", "orphan", "record", "forgive", "done"}

TypeOK ==
  /\ clock \in 0 .. MaxClock
  /\ failed \in [Attempts -> (0 .. MaxClock) \cup {None}]
  /\ address \in [Attempts -> Addresses]
  /\ slots \subseteq Attempts
  /\ step \in [Attempts -> Steps]

Init ==
  /\ clock = 0
  /\ failed = [a \in Attempts |-> None]
  /\ address \in [Attempts -> Addresses]
  /\ slots = {}
  /\ step = [a \in Attempts |-> "idle"]

Goto(a, to) == step' = [step EXCEPT ![a] = to]

\* The failures remembered of an address, and the addresses in the table.
Failures(ip) == {a \in Attempts : failed[a] # None /\ address[a] = ip}
Table == {address[a] : a \in {b \in Attempts : failed[b] # None}}
Forgotten(S) == [a \in Attempts |-> IF a \in S THEN None ELSE failed[a]]

Handled == {a \in Attempts : step[a] \notin {"idle", "orphan", "done"}}

Arrive(a) ==
  /\ step[a] = "idle"
  /\ Cardinality(Handled) < Concurrency
  /\ Goto(a, "slot")
  /\ UNCHANGED <<clock, failed, address, slots>>

\* A permit is taken or the request refused with 429; OIDC logins compete for
\* the same permits.
TryAcquire(a) ==
  /\ step[a] = "slot"
  /\ \/ /\ Cardinality(slots) < AuthSlots
        /\ slots' = slots \cup {a}
        /\ Goto(a, "check")
     \/ /\ Goto(a, "done")
        /\ UNCHANGED slots
  /\ UNCHANGED <<clock, failed, address>>

\* Failures outside the window are dropped, of every address; then the ones
\* of this address are counted.
Outdated == {a \in Attempts : failed[a] # None /\ clock - failed[a] >= Window}

\* Mutation: one failure too many.
LimitedLate(ip) == Cardinality(Failures(ip) \ Outdated) > Limit

Limited(ip) == Cardinality(Failures(ip) \ Outdated) >= Limit

login_limited(a) ==
  /\ step[a] = "check"
  /\ failed' = Forgotten(Outdated)
  /\ \/ /\ Limited(address[a])
        /\ Goto(a, "done")
        /\ slots' = slots \ {a}
     \/ /\ ~Limited(address[a])
        /\ Goto(a, "verify")
        /\ UNCHANGED slots
  /\ UNCHANGED <<clock, address>>

\* An oversized form is a failure at once; the permit goes with the request.
Oversized(a) ==
  /\ step[a] = "verify"
  /\ Goto(a, "record")
  /\ UNCHANGED <<clock, failed, address, slots>>

\* The blocking task ends and gives the permit back: right or wrong password,
\* or no verdict (users file unreadable), or nobody left to tell.
Verify(a) ==
  /\ \/ step[a] = "verify" /\ \E to \in {"record", "forgive", "done"} : Goto(a, to)
     \/ step[a] = "orphan" /\ Goto(a, "done")
  /\ slots' = slots \ {a}
  /\ UNCHANGED <<clock, failed, address>>

\* A full table forgets some address to take in a new one.
record_login_failure(a) ==
  /\ step[a] = "record"
  /\ \E out \in Addresses \cup {None} :
       /\ IF Cardinality(Table) >= TableLimit /\ address[a] \notin Table
          THEN out \in Table ELSE out = None
       /\ failed' = [Forgotten(Failures(out)) EXCEPT ![a] = clock]
  /\ Goto(a, "done")
  /\ slots' = slots \ {a}
  /\ UNCHANGED <<clock, address>>

\* A success clears the failures of its address.
Forgive(a) ==
  /\ step[a] = "forgive"
  /\ failed' = Forgotten(Failures(address[a]))
  /\ Goto(a, "done")
  /\ UNCHANGED <<clock, address, slots>>

\* Mutation: the permit stays with the request and not with the hashing.
AbandonReleases(a) ==
  /\ step[a] \in {"slot", "check", "verify", "record", "forgive"}
  /\ Goto(a, IF step[a] = "verify" THEN "orphan" ELSE "done")
  /\ slots' = slots \ {a}
  /\ UNCHANGED <<clock, failed, address>>

\* The client leaves or the timeout ends the request: nothing is recorded, the
\* permit is free again, unless the hashing has begun, which goes on with it.
Abandon(a) ==
  /\ step[a] \in {"slot", "check", "verify", "record", "forgive"}
  /\ \/ Goto(a, "done") /\ slots' = slots \ {a}
     \/ step[a] = "verify" /\ Goto(a, "orphan") /\ UNCHANGED slots
  /\ UNCHANGED <<clock, failed, address>>

Tick ==
  /\ clock < MaxClock
  /\ clock' = clock + 1
  /\ UNCHANGED <<failed, address, slots, step>>

Next ==
  \/ Tick
  \/ \E a \in Attempts :
       \/ Arrive(a) \/ TryAcquire(a) \/ login_limited(a) \/ Oversized(a) \/ Verify(a)
       \/ record_login_failure(a) \/ Forgive(a) \/ Abandon(a)

Spec == Init /\ [][Next]_vars

\* Checking and recording are not one step, so an address can collect more
\* than Limit failures, but never more than the requests that passed the check
\* together with the last one it allowed: Limit - 1 + Concurrency.
FailuresBounded ==
  \A ip \in Addresses : Cardinality(Failures(ip)) <= Limit - 1 + Concurrency

\* No more passwords are hashed at once than there are permits, however many
\* clients hang up while theirs is being hashed: the permit is moved into the
\* blocking task and does not return with the request.
HashingBounded ==
  Cardinality({a \in Attempts : step[a] \in {"verify", "orphan"}}) <= AuthSlots
=============================================================================
