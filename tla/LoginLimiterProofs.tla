------------------------- MODULE LoginLimiterProofs -------------------------
(***************************************************************************)
(* What LoginLimiter.tla guarantees for any number of login attempts and   *)
(* addresses, and any limits.                                              *)
(***************************************************************************)
EXTENDS LoginLimiter, FiniteSetTheorems, TLAPS

-----------------------------------------------------------------------------
(* The inductive invariants                                                *)

\* An attempt holds a permit from before the check until its password has been
\* hashed, whether or not its request is still there.
PermitInv ==
  /\ \A a \in Attempts : step[a] \in {"check", "verify", "orphan"} => a \in slots
  /\ IsFiniteSet(slots)
  /\ Cardinality(slots) <= AuthSlots

\* No more requests are handled at once than the layer lets in.
HandledInv == IsFiniteSet(Handled) /\ Cardinality(Handled) <= Concurrency

\* The attempts that are charged to an address: those whose failure is
\* remembered, and those that have passed the check and may yet fail.
Charged(ip) ==
  Failures(ip) \cup {a \in Attempts : step[a] \in {"verify", "record"} /\ address[a] = ip}
ChargeInv ==
  \A ip \in Addresses :
    IsFiniteSet(Charged(ip)) /\ Cardinality(Charged(ip)) <= Limit - 1 + Concurrency

-----------------------------------------------------------------------------
(* Types, and what a step does to the sets                                 *)

\* The limiter starts well typed.
LEMMA InitType == Init => TypeOK
BY LimiterAssumption DEF Init, TypeOK, Steps

\* Every step keeps the types.
LEMMA NextType == TypeOK /\ [Next]_vars => TypeOK'
<1> SUFFICES ASSUME TypeOK, [Next]_vars PROVE TypeOK'
  OBVIOUS
<1>1. CASE Tick
  BY <1>1, LimiterAssumption DEF Tick, TypeOK
<1>2. ASSUME NEW a \in Attempts, Arrive(a) \/ TryAcquire(a) \/ Oversized(a) \/ Verify(a)
                                 \/ Abandon(a)
      PROVE  TypeOK'
  BY <1>2 DEF Arrive, TryAcquire, Oversized, Verify, Abandon, Goto, TypeOK, Steps
<1>3. ASSUME NEW a \in Attempts, login_limited(a) \/ Forgive(a) PROVE TypeOK'
  BY <1>3 DEF login_limited, Forgive, Forgotten, Goto, TypeOK, Steps
<1>4. ASSUME NEW a \in Attempts, record_login_failure(a) PROVE TypeOK'
  <2>1. PICK out \in Addresses \cup {None} :
          failed' = [Forgotten(Failures(out)) EXCEPT ![a] = clock]
    BY <1>4 DEF record_login_failure
  <2>2. failed' \in [Attempts -> (0 .. MaxClock) \cup {None}]
    BY <2>1 DEF Forgotten, TypeOK
  <2> QED BY <1>4, <2>2 DEF record_login_failure, Goto, TypeOK, Steps
<1>5. CASE UNCHANGED vars
  BY <1>5 DEF vars, TypeOK
<1> QED BY <1>1, <1>2, <1>3, <1>4, <1>5 DEF Next

\* A part of a bounded set is bounded.
LEMMA Smaller ==
  ASSUME NEW S, IsFiniteSet(S), NEW N \in Nat, Cardinality(S) <= N, NEW T \in SUBSET S
  PROVE  IsFiniteSet(T) /\ Cardinality(T) <= N
<1>1. IsFiniteSet(T) /\ Cardinality(T) <= Cardinality(S)
  BY FS_Subset
<1>2. Cardinality(T) \in Nat /\ Cardinality(S) \in Nat
  BY <1>1, FS_CardinalityType
<1> QED BY <1>1, <1>2

\* There is room for one more in a set below its bound.
LEMMA OneMore ==
  ASSUME NEW S, IsFiniteSet(S), NEW N \in Nat, Cardinality(S) < N, NEW a
  PROVE  IsFiniteSet(S \cup {a}) /\ Cardinality(S \cup {a}) <= N
<1>1. Cardinality(S) \in Nat
  BY FS_CardinalityType
<1>2. /\ IsFiniteSet(S \cup {a})
      /\ Cardinality(S \cup {a}) = IF a \in S THEN Cardinality(S) ELSE Cardinality(S) + 1
  BY FS_AddElement
<1> QED BY <1>1, <1>2

-----------------------------------------------------------------------------
(* Hashing                                                                 *)

\* A permit is taken only if one is left, and goes with the hashing.
LEMMA PermitInvKept == TypeOK /\ PermitInv /\ [Next]_vars => PermitInv'
<1> SUFFICES ASSUME TypeOK, PermitInv, [Next]_vars PROVE PermitInv'
  OBVIOUS
<1>1. ASSUME NEW a \in Attempts, slots' \in {slots, slots \ {a}},
             NEW to \in Steps \ {"check", "verify", "orphan"}, Goto(a, to)
      PROVE  PermitInv'
  <2>1. IsFiniteSet(slots') /\ Cardinality(slots') <= AuthSlots
    BY <1>1, Smaller, LimiterAssumption DEF PermitInv
  <2> QED BY <1>1, <2>1 DEF PermitInv, Goto, TypeOK
<1>2. ASSUME NEW a \in Attempts, UNCHANGED slots, NEW to \in {"verify", "orphan"},
             Goto(a, to), step[a] \in {"check", "verify"}
      PROVE  PermitInv'
  BY <1>2 DEF PermitInv, Goto, TypeOK
<1>3. ASSUME NEW a \in Attempts, TryAcquire(a) PROVE PermitInv'
  <2>1. CASE Cardinality(slots) < AuthSlots /\ slots' = slots \cup {a} /\ Goto(a, "check")
    <3>1. IsFiniteSet(slots') /\ Cardinality(slots') <= AuthSlots
      BY <2>1, OneMore, LimiterAssumption DEF PermitInv
    <3> QED BY <2>1, <3>1 DEF PermitInv, Goto, TypeOK
  <2>2. CASE Goto(a, "done") /\ UNCHANGED slots
    BY <1>1, <2>2 DEF Steps
  <2> QED BY <1>3, <2>1, <2>2 DEF TryAcquire
<1>4. ASSUME NEW a \in Attempts,
             \/ Arrive(a) \/ login_limited(a) \/ Oversized(a) \/ Verify(a)
             \/ record_login_failure(a) \/ Forgive(a) \/ Abandon(a)
      PROVE  PermitInv'
  <2>1. \/ /\ slots' \in {slots, slots \ {a}}
           /\ \E to \in {"slot", "record", "forgive", "done"} : Goto(a, to)
        \/ /\ UNCHANGED slots /\ step[a] \in {"check", "verify"}
           /\ \E to \in {"verify", "orphan"} : Goto(a, to)
    BY <1>4 DEF Arrive, login_limited, Oversized, Verify, record_login_failure, Forgive,
                Abandon
  <2> QED BY <1>1, <1>2, <2>1 DEF Steps
<1>5. CASE UNCHANGED <<slots, step>>
  BY <1>5 DEF PermitInv
<1> QED BY <1>3, <1>4, <1>5 DEF Next, Tick, vars

\* No more passwords are hashed at once than auth_slots has permits, however many
\* clients hang up and whatever the timeouts end: verify_password's blocking task
\* owns the permit.
THEOREM HashingStaysBounded == Spec => []HashingBounded
<1>1. Init => PermitInv
  BY FS_EmptySet, LimiterAssumption DEF Init, PermitInv
<1>2. PermitInv => HashingBounded
  <2> SUFFICES ASSUME PermitInv PROVE HashingBounded
    OBVIOUS
  <2> DEFINE S == {a \in Attempts : step[a] \in {"verify", "orphan"}}
  <2>1. S \in SUBSET slots
    BY DEF PermitInv
  <2> HIDE DEF S
  <2>2. Cardinality(S) <= AuthSlots
    BY <2>1, Smaller, LimiterAssumption DEF PermitInv
  <2> QED BY <2>2 DEF HashingBounded, S
<1> QED BY <1>1, <1>2, InitType, NextType, PermitInvKept, PTL DEF Spec

-----------------------------------------------------------------------------
(* Failures                                                                *)

\* Concurrent requests stay within the router's limit.
LEMMA HandledInvKept == TypeOK /\ HandledInv /\ [Next]_vars => HandledInv'
<1> SUFFICES ASSUME TypeOK, HandledInv, [Next]_vars PROVE HandledInv'
  OBVIOUS
<1>1. ASSUME NEW a \in Attempts, Arrive(a) PROVE HandledInv'
  <2>1. Handled' \subseteq Handled \cup {a}
    BY <1>1 DEF Arrive, Goto, Handled, TypeOK
  <2>2. IsFiniteSet(Handled \cup {a}) /\ Cardinality(Handled \cup {a}) <= Concurrency
    BY <1>1, OneMore, LimiterAssumption DEF Arrive, HandledInv
  <2> QED BY <2>1, <2>2, Smaller, LimiterAssumption DEF HandledInv
<1>2. CASE Handled' \subseteq Handled
  BY <1>2, Smaller, LimiterAssumption DEF HandledInv
<1>3. ASSUME NEW a \in Attempts,
             \/ TryAcquire(a) \/ login_limited(a) \/ Oversized(a) \/ Verify(a)
             \/ record_login_failure(a) \/ Forgive(a) \/ Abandon(a)
      PROVE  Handled' \subseteq Handled
  <2>1. /\ \E to \in Steps : Goto(a, to)
        /\ a \in Handled \/ Goto(a, "done")
    BY <1>3 DEF TryAcquire, login_limited, Oversized, Verify, record_login_failure, Forgive,
                Abandon, Handled, Steps
  <2> QED BY <2>1 DEF Goto, Handled, TypeOK
<1>4. CASE UNCHANGED step
  BY <1>2, <1>4 DEF Handled
<1> QED BY <1>1, <1>2, <1>3, <1>4 DEF Next, Tick, vars

\* Every step but one only takes attempts off an address's charge; an attempt is
\* added when it passes the check, and then few failures are remembered.
LEMMA ChargeChange ==
  ASSUME TypeOK, [Next]_vars, NEW ip \in Addresses
  PROVE  \/ Charged(ip)' \subseteq Charged(ip)
         \/ \E a \in Attempts : /\ login_limited(a) /\ ~Limited(ip)
                                /\ Failures(ip)' \subseteq Failures(ip) \ Outdated
<1> DEFINE Going == {a \in Attempts : step[a] \in {"verify", "record"} /\ address[a] = ip}
<1>1. ASSUME NEW S, failed' = Forgotten(S), UNCHANGED address
      PROVE  Failures(ip)' \subseteq Failures(ip) \ S
  BY <1>1 DEF Forgotten, Failures
<1>2. CASE UNCHANGED <<failed, address>> /\ Going' \subseteq Going
  BY <1>2 DEF Charged, Failures
<1>3. ASSUME NEW a \in Attempts, login_limited(a)
      PROVE  \/ Charged(ip)' \subseteq Charged(ip)
             \/ ~Limited(ip) /\ Failures(ip)' \subseteq Failures(ip) \ Outdated
  <2>1. Failures(ip)' \subseteq Failures(ip) \ Outdated
    BY <1>1, <1>3 DEF login_limited
  <2>2. CASE Goto(a, "done") \/ address[a] # ip
    <3>1. /\ \E to \in Steps : Goto(a, to)
          /\ UNCHANGED address
      BY <1>3 DEF login_limited, Steps
    <3>2. Going' \subseteq Going
      BY <2>2, <3>1 DEF Goto, TypeOK
    <3> QED BY <2>1, <3>2 DEF Charged
  <2>3. CASE ~Limited(address[a]) /\ address[a] = ip
    BY <2>1, <2>3
  <2> QED BY <1>3, <2>2, <2>3 DEF login_limited
<1>4. ASSUME NEW a \in Attempts, record_login_failure(a)
      PROVE  Charged(ip)' \subseteq Charged(ip)
  <2>1. PICK out \in Addresses \cup {None} :
          failed' = [Forgotten(Failures(out)) EXCEPT ![a] = clock]
    BY <1>4 DEF record_login_failure
  <2>2. step[a] = "record" /\ step' = [step EXCEPT ![a] = "done"] /\ UNCHANGED address
    BY <1>4 DEF record_login_failure, Goto
  <2>3. \A b \in Attempts : b # a /\ failed'[b] # None => failed[b] # None
    BY <2>1 DEF Forgotten
  <2>4. Going' \subseteq Going
    BY <2>2 DEF TypeOK
  <2>5. Failures(ip)' \subseteq Failures(ip) \cup Going
    BY <2>2, <2>3 DEF Failures
  <2> QED BY <2>4, <2>5 DEF Charged
<1>5. ASSUME NEW a \in Attempts, Forgive(a) PROVE Charged(ip)' \subseteq Charged(ip)
  <2>1. Failures(ip)' \subseteq Failures(ip)
    BY <1>1, <1>5 DEF Forgive
  <2>2. Going' \subseteq Going
    BY <1>5 DEF Forgive, Goto, TypeOK
  <2> QED BY <2>1, <2>2 DEF Charged
<1>6. ASSUME NEW a \in Attempts,
             Arrive(a) \/ TryAcquire(a) \/ Oversized(a) \/ Verify(a) \/ Abandon(a)
      PROVE  UNCHANGED <<failed, address>> /\ Going' \subseteq Going
  <2>1. /\ UNCHANGED <<failed, address>>
        /\ \/ \E to \in Steps \ {"verify", "record"} : Goto(a, to)
           \/ step[a] = "verify" /\ Goto(a, "record")
    BY <1>6 DEF Arrive, TryAcquire, Oversized, Verify, Abandon, Steps
  <2> QED BY <2>1 DEF Goto, TypeOK
<1>7. CASE UNCHANGED <<failed, address, step>>
  BY <1>2, <1>7
<1> QED BY <1>2, <1>3, <1>4, <1>5, <1>6, <1>7 DEF Next, Tick, vars

\* A failure is recorded by an attempt that is in hand and passed the check.
LEMMA ChargeInvKept ==
  TypeOK /\ HandledInv' /\ ChargeInv /\ [Next]_vars => ChargeInv'
<1> SUFFICES ASSUME TypeOK, HandledInv', ChargeInv, [Next]_vars, NEW ip \in Addresses
             PROVE  /\ IsFiniteSet(Charged(ip)')
                    /\ Cardinality(Charged(ip)') <= Limit - 1 + Concurrency
  BY DEF ChargeInv
<1>1. /\ Limit \in Nat /\ Limit >= 1 /\ Concurrency \in Nat
      /\ Limit - 1 + Concurrency \in Nat
      /\ IsFiniteSet(Charged(ip)) /\ Cardinality(Charged(ip)) <= Limit - 1 + Concurrency
  BY LimiterAssumption DEF ChargeInv
<1>2. CASE Charged(ip)' \subseteq Charged(ip)
  BY <1>1, <1>2, Smaller
<1>3. CASE ~Limited(ip) /\ Failures(ip)' \subseteq Failures(ip) \ Outdated
  <2> DEFINE F == Failures(ip) \ Outdated
             G == {a \in Attempts : step'[a] \in {"verify", "record"} /\ address'[a] = ip}
  <2>1. IsFiniteSet(F) /\ Cardinality(F) <= Limit - 1
    <3>1. F \in SUBSET Charged(ip)
      BY DEF Charged
    <3>2. IsFiniteSet(F)
      BY <1>1, <3>1, FS_Subset
    <3>3. Cardinality(F) \in Nat
      BY <3>2, FS_CardinalityType
    <3>4. ~(Cardinality(F) >= Limit)
      BY <1>3 DEF Limited
    <3> HIDE DEF F
    <3> QED BY <1>1, <3>2, <3>3, <3>4
  <2>2. IsFiniteSet(G) /\ Cardinality(G) <= Concurrency
    <3>1. G \in SUBSET Handled'
      BY DEF Handled
    <3> HIDE DEF G
    <3> QED BY <1>1, <3>1, Smaller DEF HandledInv
  <2>3. Charged(ip)' \in SUBSET (F \cup G)
    BY <1>3 DEF Charged
  <2> HIDE DEF F, G
  <2>4. IsFiniteSet(F \cup G) /\ Cardinality(F \cup G) <= Limit - 1 + Concurrency
    <3>1. /\ IsFiniteSet(F \cup G)
          /\ Cardinality(F \cup G) = Cardinality(F) + Cardinality(G) - Cardinality(F \cap G)
      BY <2>1, <2>2, FS_Union
    <3>2. IsFiniteSet(F \cap G)
      BY <2>1, FS_Subset
    <3>3. Cardinality(F) \in Nat /\ Cardinality(G) \in Nat /\ Cardinality(F \cap G) \in Nat
      BY <2>1, <2>2, <3>2, FS_CardinalityType
    <3> QED BY <1>1, <2>1, <2>2, <3>1, <3>3
  <2> QED BY <1>1, <2>3, <2>4, Smaller
<1> QED BY <1>2, <1>3, ChargeChange

\* login_limited and record_login_failure are two steps with the table unlocked
\* between them, and still an address never has more failures on record than the
\* last one allowed and the requests handled with it: Limit - 1 + Concurrency.
THEOREM FailuresStayBounded == Spec => []FailuresBounded
<1>1. Init => HandledInv /\ ChargeInv
  <2> SUFFICES ASSUME Init PROVE HandledInv /\ ChargeInv
    OBVIOUS
  <2>1. Handled = {} /\ \A ip \in Addresses : Charged(ip) = {}
    BY DEF Init, Handled, Charged, Failures
  <2> QED BY <2>1, FS_EmptySet, LimiterAssumption DEF HandledInv, ChargeInv
<1>2. ChargeInv => FailuresBounded
  <2> SUFFICES ASSUME ChargeInv, NEW ip \in Addresses
               PROVE  Cardinality(Failures(ip)) <= Limit - 1 + Concurrency
    BY DEF FailuresBounded
  <2>1. Failures(ip) \in SUBSET Charged(ip)
    BY DEF Charged
  <2>2. Limit - 1 + Concurrency \in Nat
    BY LimiterAssumption
  <2> QED BY <2>1, <2>2, Smaller DEF ChargeInv
<1> QED BY <1>1, <1>2, InitType, NextType, HandledInvKept, ChargeInvKept, PTL DEF Spec
=============================================================================
