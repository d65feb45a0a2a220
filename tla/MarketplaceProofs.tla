------------------------- MODULE MarketplaceProofs -------------------------
(* What Marketplace and MarketContract keep for every number of clients,   *)
(* providers, seeds and failures.                                          *)
EXTENDS MarketContract, SetLemmas

-----------------------------------------------------------------------------
(* Types, and who holds the lock                                           *)

(* The process in the locked part of currentSPs is the one that holds the  *)
(* lock; the locals of refreshCache are new whenever it is called; and it  *)
(* asks no seed beyond the last.                                           *)
NewCall == seed = 1 /\ m = {} /\ ~again

HolderInv ==
    /\ \A c \in Client : pc[c] \in Locked <=> lock = c
    /\ lock = None => NewCall
    /\ \A c \in Client : pc[c] = "stat" => NewCall
    /\ \A c \in Client : pc[c] = "ask" => seed \in 1 .. NumSeeds

TypeInv == TypeOK /\ HolderInv

LEMMA TypeInit == Init => TypeInv
<1> SUFFICES ASSUME Init PROVE TypeInv
    OBVIOUS
<1>1. TypeOK
    <2>1. sps \in [Client -> SUBSET SP]
        BY DEF Init
    <2>2. pc \in [Client -> {"idle", "lock", "select"} \cup Locked \cup Outcomes]
        BY DEF Init
    <2>3. needed \in [Client -> Wanted \cup {0}]
        BY DEF Init
    <2>4. seed \in 1 .. NumSeeds + 1 /\ failures \in 0 .. MaxFailures
        BY NumberAssumption DEF Init
    <2>5. ask \in [SP -> Price] /\ cached \subseteq SP /\ m \subseteq SP
        BY DEF Init
    <2> QED BY <2>1, <2>2, <2>3, <2>4, <2>5 DEF Init, TypeOK
<1>2. HolderInv
    BY NoneAssumption DEF Init, HolderInv, NewCall, Locked
<1> QED BY <1>1, <1>2 DEF TypeInv

LEMMA UnlockTypes ==
    ASSUME Unlock
    PROVE  /\ lock' \in Client \cup {None}
           /\ seed' \in 1 .. NumSeeds + 1
           /\ m' \subseteq SP
           /\ again' \in BOOLEAN
<1>1. seed' \in 1 .. NumSeeds + 1
    BY NumberAssumption DEF Unlock
<1>2. m' \subseteq SP
    BY DEF Unlock
<1> QED BY <1>1, <1>2 DEF Unlock

LEMMA ClientTypes ==
    ASSUME TypeInv, NEW c \in Client, ClientStep(c)
    PROVE  TypeInv'
<1> USE NoneAssumption, NumberAssumption DEF TypeInv, TypeOK, HolderInv, NewCall, Goto, Locked, Outcomes,
        cache, refresh, call
<1>1. CASE Start(c)
    BY <1>1 DEF Start
<1>2. CASE TryLock(c)
    BY <1>2 DEF TryLock
<1>3. CASE LockTimeout(c)
    BY <1>3 DEF LockTimeout
<1>4. CASE Stat(c)
    BY <1>4 DEF Stat
<1>5. CASE AskSeed(c)
    BY <1>5 DEF AskSeed
<1>6. CASE Truncate(c)
    BY <1>6 DEF Truncate
<1>7. CASE Write(c)
    BY <1>7 DEF Write
<1>8. CASE Read(c)
    <2>1. TypeOK'
        <3>1. CASE Unlock
            BY <1>8, <3>1, UnlockTypes DEF Read
        <3>2. CASE Goto(c, "read", "ask") /\ again' = TRUE /\ seed' = 1 /\ m' = {}
                /\ UNCHANGED <<ask, cache, lock, call, failures>>
            <4>1. seed' \in 1 .. NumSeeds + 1
                BY <3>2
            <4> QED BY <3>2, <4>1
        <3> QED BY <1>8, <3>1, <3>2 DEF Read
    <2>2. HolderInv'
        BY <1>8 DEF Read, Unlock
    <2> QED BY <2>1, <2>2
<1>9. CASE Select(c)
    BY <1>9 DEF Select, Picks
<1>10. CASE Exit(c)
    BY <1>10 DEF Exit
<1> QED BY <1>1, <1>2, <1>3, <1>4, <1>5, <1>6, <1>7, <1>8, <1>9, <1>10 DEF ClientStep

LEMMA TypeStep == TypeInv /\ [Next]_vars => TypeInv'
<1> SUFFICES ASSUME TypeInv, [Next]_vars PROVE TypeInv'
    OBVIOUS
<1>1. ASSUME NEW c \in Client, ClientStep(c) PROVE TypeInv'
    BY <1>1, ClientTypes
<1>2. ASSUME NEW c \in Client, WriteFails(c) PROVE TypeInv'
    <2> USE <1>2, NoneAssumption, NumberAssumption DEF WriteFails, Goto, Locked, Outcomes, cache, call
    <2>1. TypeOK'
        BY UnlockTypes DEF TypeInv, TypeOK
    <2>2. HolderInv'
        BY DEF Unlock, TypeInv, TypeOK, HolderInv, NewCall
    <2> QED BY <2>1, <2>2 DEF TypeInv
<1>3. ASSUME NEW c \in Client, Crash(c) PROVE TypeInv'
    <2> USE <1>3, NoneAssumption, NumberAssumption DEF Crash, Locked, Outcomes, cache, call
    <2>1. TypeOK'
        BY UnlockTypes DEF TypeInv, TypeOK
    <2>2. HolderInv'
        BY DEF Unlock, TypeInv, TypeOK, HolderInv, NewCall
    <2> QED BY <2>1, <2>2 DEF TypeInv
<1>4. CASE Age
    BY <1>4 DEF Age, TypeInv, TypeOK, HolderInv, NewCall, refresh, call
<1>5. CASE UNCHANGED vars
    BY <1>5 DEF vars, cache, refresh, call, TypeInv, TypeOK, HolderInv, NewCall
<1> QED BY <1>1, <1>2, <1>3, <1>4, <1>5 DEF Next

(* The types of Marketplace hold for every instance: no step of a client,  *)
(* crash or failed write takes a variable out of its range; in particular  *)
(* the loop over the seeds stops at the last one.                          *)
THEOREM TypeCorrect == Spec => []TypeOK
<1>1. Spec => []TypeInv
    BY TypeInit, TypeStep, PTL DEF Spec
<1>2. TypeInv => TypeOK
    BY DEF TypeInv
<1> QED BY <1>1, <1>2, PTL

-----------------------------------------------------------------------------
(* The cache file                                                          *)

Step(c) == ClientStep(c) \/ WriteFails(c) \/ Crash(c)

(* While one process holds the lock, a step of another one changes neither *)
(* the file nor the locals of refreshCache.                                *)
LEMMA OthersWait ==
    ASSUME TypeInv, NEW c \in Client, NEW d \in Client, c # d, lock = d, Step(c)
    PROVE  UNCHANGED <<file, cached, lock, seed, m, again>> /\ pc'[d] = pc[d]
<1>1. pc[c] \notin Locked /\ lock # None
    BY NoneAssumption DEF TypeInv, HolderInv
<1>2. pc \in [Client -> {"idle", "lock", "select"} \cup Locked \cup Outcomes]
    BY DEF TypeInv, TypeOK
<1> USE <1>1, <1>2 DEF Goto, Locked, cache, refresh, call
<1>3. CASE Start(c) \/ TryLock(c) \/ LockTimeout(c)
    BY <1>3 DEF Start, TryLock, LockTimeout
<1>4. CASE Select(c) \/ Exit(c)
    BY <1>4 DEF Select, Exit
<1>5. ~(Stat(c) \/ AskSeed(c) \/ Truncate(c) \/ Write(c) \/ Read(c))
    BY DEF Stat, AskSeed, Truncate, Write, Read
<1>6. ~(WriteFails(c) \/ Crash(c))
    BY DEF WriteFails, Crash
<1> QED BY <1>3, <1>4, <1>5, <1>6 DEF Step, ClientStep

LEMMA FailuresGrow ==
    ASSUME TypeInv, NEW c \in Client, Step(c)
    PROVE  \/ failures' = failures /\ ClientStep(c)
           \/ failures' = failures + 1 /\ failures \in Nat
<1>1. failures \in Nat
    BY NumberAssumption DEF TypeInv, TypeOK
<1>2. CASE ClientStep(c)
    BY <1>2 DEF ClientStep, Start, TryLock, LockTimeout, Stat, AskSeed, Truncate, Write, Read,
        Select, Exit
<1>3. CASE WriteFails(c) \/ Crash(c)
    BY <1>1, <1>3 DEF WriteFails, Crash
<1> QED BY <1>2, <1>3 DEF Step

LEMMA PartialStep ==
    TypeInv /\ PartialOnlyByFailure /\ [Next]_vars => PartialOnlyByFailure'
<1> SUFFICES ASSUME TypeInv, PartialOnlyByFailure, [Next]_vars, file' = "partial"
             PROVE  \/ failures' > 0
                    \/ \E c \in Client : lock' = c /\ pc'[c] = "write"
    BY DEF PartialOnlyByFailure
<1>0. failures \in Nat
    BY NumberAssumption DEF TypeInv, TypeOK
<1>1. CASE Age \/ UNCHANGED vars
    BY <1>1 DEF Age, vars, cache, refresh, call, PartialOnlyByFailure
<1>2. ASSUME NEW c \in Client, Step(c)
      PROVE  failures' > 0 \/ \E d \in Client : lock' = d /\ pc'[d] = "write"
    <2>1. CASE failures' = failures + 1
        BY <2>1, <1>0
    <2>2. CASE failures' = failures /\ ClientStep(c)
        <3>1. CASE Truncate(c)
            <4>1. lock = c
                BY <3>1 DEF Truncate, Goto, TypeInv, HolderInv, Locked
            <4>2. pc'[c] = "write" /\ lock' = lock
                BY <3>1 DEF Truncate, Goto, TypeInv, TypeOK
            <4> QED BY <4>1, <4>2
        <3>2. CASE ~Truncate(c)
            <4>1. file = "partial"
                BY <2>2, <3>2 DEF ClientStep, Start, TryLock, LockTimeout, Stat, AskSeed, Write,
                    Read, Select, Exit, cache
            <4>2. CASE failures > 0
                BY <2>2, <4>2
            <4>3. CASE \E d \in Client : lock = d /\ pc[d] = "write"
                <5>1. PICK d \in Client : lock = d /\ pc[d] = "write"
                    BY <4>3
                <5>2. c # d
                    BY <2>2, <3>2, <4>1, <5>1 DEF ClientStep, Start, TryLock, LockTimeout, Stat,
                        AskSeed, Write, Read, Select, Exit, Goto, Outcomes
                <5>3. lock' = d /\ pc'[d] = "write"
                    BY <2>2, <5>1, <5>2, OthersWait DEF Step
                <5> QED BY <5>3
            <4> QED BY <4>1, <4>2, <4>3 DEF PartialOnlyByFailure
        <3> QED BY <3>1, <3>2
    <2> QED BY <1>2, <2>1, <2>2, FailuresGrow
<1> QED BY <1>1, <1>2 DEF Next, Step

(* Whatever the number of clients that share the cache, none finds it      *)
(* half-written unless a process died or failed while it wrote the file.   *)
THEOREM PartialOnlyByFailureAlways == Spec => []PartialOnlyByFailure
<1>1. Init => PartialOnlyByFailure
    BY DEF Init, PartialOnlyByFailure
<1> QED BY <1>1, TypeInit, TypeStep, PartialStep, PTL DEF Spec

-----------------------------------------------------------------------------
(* Giving up                                                               *)

(* No provider is known only when every seed was asked, and what the       *)
(* second refresh of a call wrote is what the call reads next.             *)
GatherInv ==
    \A c \in Client :
        /\ pc[c] \in {"truncate", "write"} /\ m = {} => seed = NumSeeds + 1
        /\ pc[c] = "read" /\ again =>
             file = "list" /\ cached = m /\ (m = {} => seed = NumSeeds + 1)

LEMMA GatherStep == TypeInv /\ GatherInv /\ [Next]_vars => GatherInv'
<1> SUFFICES ASSUME TypeInv, GatherInv, [Next]_vars, NEW d \in Client
             PROVE  /\ pc'[d] \in {"truncate", "write"} /\ m' = {} => seed' = NumSeeds + 1
                    /\ pc'[d] = "read" /\ again' =>
                         file' = "list" /\ cached' = m' /\ (m' = {} => seed' = NumSeeds + 1)
    BY DEF GatherInv
<1> DEFINE Gathered ==
        /\ pc'[d] \in {"truncate", "write"} /\ m' = {} => seed' = NumSeeds + 1
        /\ pc'[d] = "read" /\ again' =>
             file' = "list" /\ cached' = m' /\ (m' = {} => seed' = NumSeeds + 1)
<1>1. CASE Age \/ UNCHANGED vars
    BY <1>1 DEF Age, vars, cache, refresh, call, GatherInv
<1>2. ASSUME NEW c \in Client, Step(c)
      PROVE  Gathered
    <2> USE DEF Goto, cache, refresh, call
    <2>1. CASE c # d /\ lock = d
        BY <1>2, <2>1, OthersWait DEF GatherInv
    <2>2. CASE c # d /\ lock # d
        <3>1. pc'[d] = pc[d]
            BY <1>2, <2>2 DEF Step, ClientStep, Start, TryLock, LockTimeout, Stat, AskSeed,
                Truncate, Write, Read, Select, Exit, WriteFails, Crash, TypeInv, TypeOK
        <3>2. pc[d] \notin Locked
            BY <2>2 DEF TypeInv, HolderInv
        <3> QED BY <3>1, <3>2 DEF Locked
    <2>3. CASE c = d
        <3>0. pc \in [Client -> {"idle", "lock", "select"} \cup Locked \cup Outcomes]
            BY DEF TypeInv, TypeOK
        <3> USE <2>3, <3>0
        <3>1. CASE Start(c) \/ TryLock(c) \/ LockTimeout(c) \/ Select(c) \/ Exit(c)
            BY <3>1 DEF Start, TryLock, LockTimeout, Select, Exit
        <3>2. CASE Stat(c)
            BY <3>2 DEF Stat, TypeInv, HolderInv, NewCall
        <3>3. CASE AskSeed(c)
            BY <3>3 DEF AskSeed
        <3>4. CASE Truncate(c)
            BY <3>4 DEF Truncate, GatherInv
        <3>5. CASE Write(c)
            BY <3>5 DEF Write, GatherInv
        <3>6. CASE Read(c)
            BY <3>6 DEF Read
        <3>7. CASE WriteFails(c) \/ Crash(c)
            BY <3>7 DEF WriteFails, Crash
        <3> QED BY <1>2, <3>1, <3>2, <3>3, <3>4, <3>5, <3>6, <3>7 DEF Step, ClientStep
    <2> QED BY <2>1, <2>2, <2>3
<1> QED BY <1>1, <1>2 DEF Next, Step

LEMMA RefusalStep ==
    ASSUME TypeInv, GatherInv, [Next]_vars, NEW c \in Client, pc[c] = "read", pc'[c] = "refused"
    PROVE  again /\ seed = NumSeeds + 1 /\ m = {}
<1>0. pc \in [Client -> {"idle", "lock", "select"} \cup Locked \cup Outcomes]
    BY DEF TypeInv, TypeOK
<1> USE <1>0 DEF Goto, cache, refresh, call
<1>1. ~(Age \/ UNCHANGED vars)
    BY DEF Age, vars
<1>2. ASSUME NEW d \in Client, Step(d)
      PROVE  again /\ seed = NumSeeds + 1 /\ m = {}
    <2>1. d = c
        BY <1>2 DEF Step, ClientStep, Start, TryLock, LockTimeout, Stat, AskSeed,
            Truncate, Write, Read, Select, Exit, WriteFails, Crash
    <2>2. Read(c)
        BY <1>2, <2>1 DEF Step, ClientStep, Start, TryLock, LockTimeout, Stat, AskSeed,
            Truncate, Write, Select, Exit, WriteFails, Crash, Outcomes
    <2> QED BY <2>2 DEF Read, GatherInv
<1> QED BY <1>1, <1>2 DEF Next, Step

(* An upload is refused for want of providers only after this very call    *)
(* asked every seed, whatever other processes left in the cache.           *)
THEOREM RefusedOnlyAfterAskingAlways == Spec => RefusedOnlyAfterAsking
<1>1. Init => GatherInv
    BY DEF Init, GatherInv
<1>2. TypeInv /\ GatherInv /\ [Next]_vars =>
        [\A c \in Client : pc[c] = "read" /\ pc'[c] = "refused" =>
            again /\ seed = NumSeeds + 1 /\ m = {}]_vars
    BY RefusalStep
<1> QED BY <1>1, <1>2, TypeInit, TypeStep, GatherStep, PTL DEF Spec, RefusedOnlyAfterAsking

-----------------------------------------------------------------------------
(* The choice                                                              *)

(* Rounding up is monotone, and a price below a rounded one rounds to at   *)
(* most that.                                                              *)
LEMMA RoundUpFacts ==
    ASSUME NEW a \in Nat, NEW b \in Nat, NEW g \in Nat \ {0}, a <= RoundUp(b, g)
    PROVE  RoundUp(a, g) \in Nat /\ RoundUp(b, g) \in Nat /\ RoundUp(a, g) <= RoundUp(b, g)
<1> DEFINE p == (a + g - 1) \div g
           q == (b + g - 1) \div g
<1>1. p \in Nat /\ q \in Nat
    OBVIOUS
<1>2. p * g <= a + g - 1
    OBVIOUS
<1>3. a <= q * g
    BY DEF RoundUp
<1>4. p <= q
    <2> SUFFICES ASSUME q + 1 <= p PROVE FALSE
        BY <1>1
    <2>1. (q + 1) * g <= p * g
        BY <1>1
    <2>2. (q + 1) * g = q * g + g
        BY <1>1
    <2> QED BY <1>1, <1>2, <1>3, <2>1, <2>2
<1>5. p * g <= q * g /\ p * g \in Nat /\ q * g \in Nat
    BY <1>1, <1>4
<1> QED BY <1>5 DEF RoundUp

LEMMA RoundedType ==
    ASSUME TypeOK, NEW sp \in SP
    PROVE  ask[sp] \in Nat /\ Rounded(sp) \in Nat
<1>1. ask[sp] \in Nat
    BY NumberAssumption DEF TypeOK
<1>2. RoundUp(ask[sp], Granularity) \in Nat
    <2> DEFINE q == (ask[sp] + Granularity - 1) \div Granularity
    <2>1. q \in Nat
        BY <1>1, NumberAssumption
    <2>2. q * Granularity \in Nat
        BY <2>1, NumberAssumption
    <2> QED BY <2>2 DEF RoundUp
<1> QED BY <1>1, <1>2 DEF Rounded

(* A sorted list contains every provider.                                  *)
LEMMA SortedFacts ==
    ASSUME NEW list \in SUBSET SP, NEW s \in Sorted(list)
    PROVE  /\ Cardinality(list) \in Nat
           /\ s \in [1 .. Cardinality(list) -> list]
           /\ \A sp \in list : \E i \in DOMAIN s : s[i] = sp
           /\ \A i, j \in DOMAIN s : i < j => Rounded(s[i]) <= Rounded(s[j])
<1>1. IsFiniteSet(list) /\ Cardinality(list) \in Nat
    BY NumberAssumption, FS_Subset, FS_CardinalityType
<1> DEFINE D == 1 .. Cardinality(list)
<1>2. IsFiniteSet(D) /\ Cardinality(D) = Cardinality(list)
    BY <1>1, FS_Interval
<1>3. s \in Injection(D, list)
    BY DEF Sorted, IsInjective, Injection
<1>4. s \in Surjection(D, list)
    BY <1>1, <1>2, <1>3, FS_Injection
<1> QED BY <1>1, <1>4 DEF Sorted, Surjection

(* No provider that may be chosen has `n` or more cheaper ones before it.  *)
LEMMA KeptIsCheap ==
    ASSUME TypeOK, NEW list \in SUBSET SP, NEW n \in Nat \ {0}, n < Cardinality(list),
           NEW s \in Sorted(list), NEW sp \in Kept(s, n)
    PROVE  Rounded(sp) <= Rounded(s[n])
<1> DEFINE N == Cardinality(list)
<1>1. N \in Nat /\ s \in [1 .. N -> list] /\ DOMAIN s = 1 .. N
    BY SortedFacts
<1>2. \A i, j \in 1 .. N : i < j => Rounded(s[i]) <= Rounded(s[j])
    BY <1>1, SortedFacts
<1>3. PICK i \in 1 .. N : sp = s[i] /\ \A last \in n .. i : ~(ask[s[last]] > Rounded(s[n]))
    BY <1>1 DEF Kept
<1>4. n \in 1 .. N /\ s[n] \in SP /\ s[i] \in SP
    BY <1>1, <1>3
<1>5. CASE i < n
    BY <1>2, <1>3, <1>4, <1>5
<1>6. CASE i >= n
    <2>1. ask[s[i]] \in Nat /\ ask[s[n]] \in Nat /\ Rounded(s[n]) \in Nat
        BY <1>4, RoundedType
    <2>2. ask[s[i]] <= Rounded(s[n])
        BY <1>3, <1>6, <2>1
    <2> QED BY <1>3, <2>1, <2>2, RoundUpFacts, NumberAssumption DEF Rounded
<1> QED BY <1>3, <1>5, <1>6

LEMMA FewCheaper ==
    ASSUME TypeOK, NEW list \in SUBSET SP, NEW n \in Nat \ {0},
           NEW chosen \in Picks(list, n), NEW sp \in chosen
    PROVE  Cardinality({other \in list : Rounded(other) < Rounded(sp)}) < n
<1> DEFINE N == Cardinality(list)
           Cheaper == {other \in list : Rounded(other) < Rounded(sp)}
<1>1. IsFiniteSet(list) /\ N \in Nat
    BY NumberAssumption, FS_Subset, FS_CardinalityType
<1>2. sp \in list /\ sp \in SP
    BY DEF Picks
<1>3. IsFiniteSet(Cheaper) /\ Cardinality(Cheaper) \in Nat
    BY <1>1, FS_Subset, FS_CardinalityType
<1>4. CASE N <= n
    <2>1. sp \notin Cheaper
        BY <1>2, RoundedType
    <2>2. Cheaper \subseteq list /\ Cheaper # list
        BY <1>2, <2>1
    <2>3. Cardinality(Cheaper) <= N /\ Cardinality(Cheaper) # N
        BY <1>1, <2>2, FS_Subset
    <2> QED BY <1>1, <1>3, <1>4, <2>3
<1>5. CASE n < N
    <2>1. PICK s \in Sorted(list) : chosen \subseteq Kept(s, n)
        BY <1>1, <1>5 DEF Picks
    <2>2. s \in [1 .. N -> list] /\ DOMAIN s = 1 .. N
        BY SortedFacts
    <2>3. Rounded(sp) <= Rounded(s[n])
        BY <1>5, <2>1, KeptIsCheap
    <2>4. ASSUME NEW other \in Cheaper PROVE \E i \in 1 .. n - 1 : s[i] = other
        <3>1. PICK i \in 1 .. N : s[i] = other
            BY <2>2, SortedFacts
        <3>2. Rounded(s[i]) < Rounded(s[n])
            <4>1. s[n] \in SP /\ s[i] \in SP
                BY <1>1, <1>5, <2>2, <3>1
            <4>2. Rounded(s[n]) \in Nat /\ Rounded(s[i]) \in Nat /\ Rounded(sp) \in Nat
                BY <4>1, <1>2, RoundedType
            <4> QED BY <2>3, <3>1, <4>2
        <3>3. ~(n < i) /\ n # i
            <4>1. n \in 1 .. N /\ s[n] \in SP /\ s[i] \in SP
                BY <1>1, <1>5, <2>2, <3>1
            <4>2. Rounded(s[n]) \in Nat /\ Rounded(s[i]) \in Nat
                BY <4>1, RoundedType
            <4>3. n < i => Rounded(s[n]) <= Rounded(s[i])
                BY <2>2, <4>1, SortedFacts
            <4> QED BY <3>2, <4>2, <4>3
        <3> QED BY <3>1, <3>3
    <2> DEFINE place == [other \in Cheaper |-> CHOOSE i \in 1 .. n - 1 : s[i] = other]
    <2>5. place \in Injection(Cheaper, 1 .. n - 1)
        <3>1. \A other \in Cheaper : place[other] \in 1 .. n - 1 /\ s[place[other]] = other
            BY <2>4
        <3> QED BY <3>1 DEF Injection, IsInjective
    <2>6. IsFiniteSet(1 .. n - 1) /\ Cardinality(1 .. n - 1) = n - 1
        BY FS_Interval
    <2>7. Cardinality(Cheaper) <= Cardinality(1 .. n - 1)
        BY <2>5, <2>6, FS_Injection
    <2> QED BY <1>3, <2>7, <2>6
<1> QED BY <1>1, <1>4, <1>5

LEMMA MinOfTwo ==
    ASSUME NEW a \in Nat, NEW b \in Nat
    PROVE  Min({a, b}) = IF a <= b THEN a ELSE b
<1>1. \E x \in {a, b} : \A y \in {a, b} : x <= y
    OBVIOUS
<1>2. Min({a, b}) \in {a, b} /\ \A y \in {a, b} : Min({a, b}) <= y
    BY <1>1 DEF Min
<1> QED BY <1>2

(* As many as needed are picked, if there are so many.                     *)
LEMMA EnoughPicked ==
    ASSUME NEW list \in SUBSET SP, NEW n \in Nat \ {0}, NEW chosen \in Picks(list, n)
    PROVE  chosen \subseteq list /\ Cardinality(chosen) = Min({n, Cardinality(list)})
<1>1. IsFiniteSet(list) /\ Cardinality(list) \in Nat
    BY NumberAssumption, FS_Subset, FS_CardinalityType
<1>2. Min({n, Cardinality(list)}) = IF n <= Cardinality(list) THEN n ELSE Cardinality(list)
    BY <1>1, MinOfTwo
<1> QED BY <1>1, <1>2 DEF Picks

LEMMA ChoiceStep ==
    ASSUME TypeInv, [Next]_vars, NEW c \in Client, pc[c] = "select", pc'[c] = "done"
    PROVE  \E n \in Wanted : needed'[c] = n /\ sps'[c] \in Picks(sps[c], n)
<1>0. /\ pc \in [Client -> {"idle", "lock", "select"} \cup Locked \cup Outcomes]
      /\ needed \in [Client -> Wanted \cup {0}]
      /\ sps \in [Client -> SUBSET SP]
    BY DEF TypeInv, TypeOK
<1> USE <1>0 DEF Goto, cache, refresh, call
<1>1. ~(Age \/ UNCHANGED vars)
    BY DEF Age, vars
<1>2. ASSUME NEW d \in Client, Step(d)
      PROVE  \E n \in Wanted : needed'[c] = n /\ sps'[c] \in Picks(sps[c], n)
    <2>1. d = c
        BY <1>2 DEF Step, ClientStep, Start, TryLock, LockTimeout, Stat, AskSeed,
            Truncate, Write, Read, Select, Exit, WriteFails, Crash
    <2>2. Select(c)
        BY <1>2, <2>1 DEF Step, ClientStep, Start, TryLock, LockTimeout, Stat, AskSeed,
            Truncate, Write, Read, Exit, WriteFails, Crash, Locked, Outcomes
    <2> QED BY <2>2 DEF Select
<1> QED BY <1>1, <1>2 DEF Next, Step

(* However the list happened to be ordered and whichever providers chance  *)
(* picked, an upload gets as many as it needs, and none of them has        *)
(* `needed` others that are cheaper.                                       *)
THEOREM CheapestChosenAlways == Spec => CheapestChosen
<1>1. ASSUME TypeInv, [Next]_vars, NEW c \in Client, pc[c] = "select", pc'[c] = "done"
      PROVE  /\ Cardinality(sps'[c]) = Min({needed'[c], Cardinality(sps[c])})
             /\ sps'[c] \subseteq sps[c]
             /\ \A sp \in sps'[c] :
                  Cardinality({other \in sps[c] : Rounded(other) < Rounded(sp)}) < needed'[c]
    <2>1. PICK n \in Wanted : needed'[c] = n /\ sps'[c] \in Picks(sps[c], n)
        BY <1>1, ChoiceStep
    <2>2. n \in Nat \ {0} /\ sps[c] \in SUBSET SP /\ TypeOK
        BY <1>1, NumberAssumption DEF TypeInv, TypeOK
    <2>3. sps'[c] \subseteq sps[c] /\ Cardinality(sps'[c]) = Min({n, Cardinality(sps[c])})
        BY <2>1, <2>2, EnoughPicked
    <2>4. ASSUME NEW sp \in sps'[c]
          PROVE  Cardinality({other \in sps[c] : Rounded(other) < Rounded(sp)}) < n
        BY <2>1, <2>2, <2>4, FewCheaper
    <2> QED BY <2>1, <2>3, <2>4
<1>2. TypeInv /\ [Next]_vars =>
        [\A c \in Client : pc[c] = "select" /\ pc'[c] = "done" =>
            /\ Cardinality(sps'[c]) = Min({needed'[c], Cardinality(sps[c])})
            /\ sps'[c] \subseteq sps[c]
            /\ \A sp \in sps'[c] :
                 Cardinality({other \in sps[c] : Rounded(other) < Rounded(sp)}) < needed'[c]]_vars
    BY <1>1
<1> QED BY <1>2, TypeInit, TypeStep, PTL DEF Spec, CheapestChosen
-----------------------------------------------------------------------------
(* The price                                                               *)

(* SetToSeq lists the elements of a finite set, once each.                 *)
LEMMA SetToSeqFacts ==
    ASSUME NEW S, IsFiniteSet(S)
    PROVE  /\ Cardinality(S) \in Nat
           /\ SetToSeq(S) \in [1 .. Cardinality(S) -> S]
           /\ Len(SetToSeq(S)) = Cardinality(S)
<1> DEFINE N == Cardinality(S)
<1>1. N \in Nat /\ ExistsBijection(1 .. N, S)
    BY FS_CardinalityType
<1>2. \E f \in [1 .. N -> S] : IsInjective(f)
    BY <1>1 DEF ExistsBijection, Bijection, Injection, IsInjective
<1>3. SetToSeq(S) \in [1 .. N -> S]
    BY <1>2 DEF SetToSeq
<1>4. SetToSeq(S) \in Seq(S)
    BY <1>1, <1>3
<1> QED BY <1>1, <1>3, <1>4

LEMMA HighestFacts ==
    ASSUME TypeOK, NEW list \in SUBSET SP
    PROVE  Highest(list) \in Nat /\ \A sp \in list : ask[sp] <= Highest(list)
<1> DEFINE asks == {ask[sp] : sp \in list}
<1>1. IsFiniteSet(list)
    BY NumberAssumption, FS_Subset
<1>2. asks \subseteq Nat
    BY RoundedType
<1>3. IsFiniteSet(asks)
    <2> DEFINE f == [sp \in list |-> ask[sp]]
    <2>1. f \in Surjection(list, asks)
        BY DEF Surjection
    <2> QED BY <1>1, <2>1, FS_Surjection
<1>4. IsFiniteSet({0} \cup asks)
    BY <1>3, FS_Singleton, FS_Union
<1>5. {0} \cup asks \subseteq Nat /\ {0} \cup asks # {} /\ {0} \cup asks \subseteq Int
    BY <1>2
<1>6. /\ Highest(list) \in {0} \cup asks
      /\ \A y \in {0} \cup asks : Highest(list) >= y
    <2> HIDE DEF asks
    <2>1. Max({0} \cup asks) \in {0} \cup asks /\ \A y \in {0} \cup asks : Max({0} \cup asks) >= y
        BY <1>4, <1>5, MaxFacts
    <2> QED BY <2>1 DEF Highest, asks
<1> QED BY <1>5, <1>6

(* A product that fits in an int64 is not wrapped.                         *)
LEMMA Int64Fits ==
    ASSUME NEW x \in Nat, x < HalfInt64
    PROVE  Int64(x) = x
<1>1. \A d \in Nat \ {0}, n \in Nat : n < d => n % d = n
    OBVIOUS
<1>2. x + HalfInt64 \in Nat /\ 2 * HalfInt64 \in Nat \ {0} /\ x + HalfInt64 < 2 * HalfInt64
    BY NumberAssumption
<1> QED BY <1>1, <1>2, NumberAssumption DEF Int64

(* The client rounds a size up to megabytes, the contract down, and a size *)
(* below one megabyte is one for either.                                   *)
LEMMA MegaBytesFacts ==
    ASSUME NEW size \in ShardSize
    PROVE  /\ MegaBytes(size) \in Nat
           /\ Contract!shardsizeInMegaBytes(size) \in Nat
           /\ Contract!shardsizeInMegaBytes(size) <= MegaBytes(size)
<1> DEFINE up == (size + Mega - 1) \div Mega
           down == size \div Mega
<1>1. size \in Nat /\ size >= 1 /\ Mega \in Nat /\ Mega >= 1
    BY ShardSizeAssumption, NumberAssumption
<1>2. /\ up \in Nat /\ size + Mega - 1 < Mega * up + Mega
      /\ down \in Nat /\ Mega * down <= size
    BY <1>1
<1> HIDE DEF up, down
<1>3. 1 <= up
    BY <1>1, <1>2
<1>4. down <= up
    <2>1. CASE down > up
        <3>1. Mega * down >= Mega * (up + 1)
            BY <1>1, <1>2, <2>1
        <3>2. Mega * (up + 1) = Mega * up + Mega
            BY <1>1, <1>2
        <3> QED BY <1>1, <1>2, <3>1, <3>2
    <2> QED BY <1>2, <2>1
<1>5. /\ MegaBytes(size) = up
      /\ Contract!shardsizeInMegaBytes(size) = IF size < Mega THEN 1 ELSE down
    BY DEF MegaBytes, Contract!shardsizeInMegaBytes, up, down
<1> QED BY <1>2, <1>3, <1>4, <1>5

(* What the contract asks for a registered provider.                       *)
LEMMA AskInContract ==
    ASSUME TypeOK, NEW sp \in SP
    PROVE  /\ Contract!minAskPrice(sp) \in Nat
           /\ Contract!minAskPrice(sp) <= ask[sp]
<1>1. Registered(sp).params.minAskPrice = ask[sp]
    BY DEF Registered
<1>2. Contract!minAskPrice(sp) = 0 \/ Contract!minAskPrice(sp) = ask[sp]
    BY <1>1 DEF Contract!minAskPrice
<1>3. ask[sp] \in Nat
    BY RoundedType
<1> QED BY <1>2, <1>3

LEMMA ProductsGrow ==
    \A a, b, c, d \in Nat : a <= c /\ b <= d => a * b <= c * d
<1> SUFFICES ASSUME NEW a \in Nat, NEW b \in Nat, NEW c \in Nat, NEW d \in Nat, a <= c, b <= d
             PROVE  a * b <= c * d
    OBVIOUS
<1>1. a * b <= c * b
    OBVIOUS
<1>2. c * b <= c * d
    OBVIOUS
<1>3. a * b \in Nat /\ c * b \in Nat /\ c * d \in Nat
    OBVIOUS
<1> QED BY <1>1, <1>2, <1>3

LEMMA ExactShares == \A q \in Nat, n \in Nat \ {0} : (q * n) \div n = q
OBVIOUS

(* What a client pays for the providers it chose is enough for every one   *)
(* of them, for any prices, sizes and numbers of providers.                *)
LEMMA Enough ==
    ASSUME TypeOK, NEW list \in SUBSET SP, NEW size \in ShardSize,
           Highest(list) * MegaBytes(size) * Len(SetToSeq(list)) < HalfInt64
    PROVE  Contract!MeetsMaxMinAskPrice(
               Contract!Share(PriceOfUpload(list, size), SetToSeq(list)), size, 1, SetToSeq(list))
<1> DEFINE s == SetToSeq(list)
           n == Cardinality(list)
           each == Highest(list) * MegaBytes(size)
<1>1. IsFiniteSet(list)
    BY NumberAssumption, FS_Subset
<1>2. n \in Nat /\ Len(s) = n /\ s \in [1 .. n -> list]
    BY <1>1, SetToSeqFacts
<1>3. Highest(list) \in Nat /\ MegaBytes(size) \in Nat /\ each \in Nat
    BY HighestFacts, MegaBytesFacts
<1>4. PriceOfUpload(list, size) = each * n
    <2>1. each * n \in Nat /\ each * n < HalfInt64
        BY <1>2, <1>3
    <2> QED BY <2>1, Int64Fits DEF PriceOfUpload
<1>5. ASSUME NEW i \in DOMAIN s
      PROVE  Contract!Share(PriceOfUpload(list, size), s)
                >= Contract!shardsizeInMegaBytes(size) * Contract!minAskPrice(s[i]) * 1
    <2> DEFINE sp == s[i]
               mb == Contract!shardsizeInMegaBytes(size)
               price == Contract!minAskPrice(sp)
    <2>1. sp \in list /\ n # 0
        BY <1>2, <1>5
    <2>2. Contract!Share(PriceOfUpload(list, size), s) = each
        <3>1. (each * n) \div n = each
            <4> HIDE DEF each, n
            <4> QED BY <1>2, <1>3, <2>1, ExactShares
        <3> QED BY <1>2, <1>4, <3>1 DEF Contract!Share
    <2>3. mb \in Nat /\ mb <= MegaBytes(size)
        BY MegaBytesFacts
    <2>4. price \in Nat /\ price <= Highest(list)
        <3>1. price \in Nat /\ price <= ask[sp] /\ ask[sp] \in Nat
            BY <2>1, AskInContract, RoundedType
        <3>2. ask[sp] <= Highest(list)
            BY <2>1, HighestFacts
        <3> HIDE DEF price, sp
        <3> QED BY <1>3, <3>1, <3>2
    <2> HIDE DEF mb, price
    <2>5. price * mb <= each
        BY <1>3, <2>3, <2>4, ProductsGrow
    <2>6. mb * price * 1 = price * mb
        BY <2>3, <2>4
    <2> QED BY <2>2, <2>5, <2>6 DEF mb, price, sp
<1> QED BY <1>5 DEF Contract!MeetsMaxMinAskPrice

(* What EthAccount.ProposeUpload sends with an upload to providers that    *)
(* GetUploadSps chose passes the contract's test of the price.             *)
THEOREM PriceSufficesAlways == Spec => []PriceSuffices
<1>1. TypeOK => PriceSuffices
    <2> SUFFICES ASSUME TypeOK, NEW c \in Client, NEW size \in ShardSize,
                        Highest(sps[c]) * MegaBytes(size) * Len(SetToSeq(sps[c])) < HalfInt64
                 PROVE  Contract!MeetsMaxMinAskPrice(
                            Contract!Share(PriceOfUpload(sps[c], size), SetToSeq(sps[c])),
                            size, 1, SetToSeq(sps[c]))
        BY DEF PriceSuffices
    <2>1. sps[c] \in SUBSET SP
        BY DEF TypeOK
    <2> QED BY <2>1, Enough
<1> QED BY <1>1, TypeCorrect, PTL
-----------------------------------------------------------------------------
(* The lock passes on                                                      *)

(* What a process in the locked part may still do: a refresh asks NumSeeds *)
(* seeds at most, truncates, writes and reads, and may be done twice.      *)
OnePass == NumSeeds + 3

Left(c) ==
    CASE pc[c] = "stat"     -> 2 * OnePass + 2
      [] pc[c] = "ask"      -> NumSeeds + 1 - seed + 3 + (IF again THEN 0 ELSE OnePass + 1)
      [] pc[c] = "truncate" -> 3 + (IF again THEN 0 ELSE OnePass + 1)
      [] pc[c] = "write"    -> 2 + (IF again THEN 0 ELSE OnePass + 1)
      [] pc[c] = "read"     -> 1 + (IF again THEN 0 ELSE OnePass + 1)
      [] OTHER              -> 0

LEMMA LeftType ==
    ASSUME TypeInv, NEW c \in Client
    PROVE  Left(c) \in Nat
<1>1. NumSeeds \in Nat /\ seed \in Int /\ (pc[c] = "ask" => seed <= NumSeeds)
    BY NumberAssumption DEF TypeInv, TypeOK, HolderInv
<1> QED BY <1>1 DEF Left, OnePass

LEMMA HolderShrinks ==
    ASSUME TypeInv, NEW c \in Client, Step(c), lock = c
    PROVE  lock' = None \/ (lock' = c /\ Left(c)' < Left(c))
<1>0. /\ pc \in [Client -> {"idle", "lock", "select"} \cup Locked \cup Outcomes]
      /\ pc[c] \in Locked
      /\ NumSeeds \in Nat /\ seed \in Int /\ again \in BOOLEAN
      /\ (pc[c] = "ask" => seed \in 1 .. NumSeeds)
      /\ (pc[c] = "stat" => NewCall)
    BY NumberAssumption DEF TypeInv, TypeOK, HolderInv
<1> USE <1>0 DEF Goto, cache, refresh, call
<1>1. ~(Start(c) \/ TryLock(c) \/ LockTimeout(c) \/ Select(c) \/ Exit(c))
    BY DEF Start, TryLock, LockTimeout, Select, Exit, Locked, Outcomes
<1>2. CASE Stat(c)
    BY <1>2 DEF Stat, Left, OnePass, NewCall
<1>3. CASE AskSeed(c)
    BY <1>3 DEF AskSeed, Left, OnePass
<1>4. CASE Truncate(c)
    BY <1>4 DEF Truncate, Left, OnePass
<1>5. CASE Write(c)
    BY <1>5 DEF Write, Left, OnePass
<1>6. CASE Read(c)
    BY <1>6 DEF Read, Left, OnePass, Unlock
<1>7. CASE WriteFails(c) \/ Crash(c)
    BY <1>7 DEF WriteFails, Crash, Unlock
<1> QED BY <1>1, <1>2, <1>3, <1>4, <1>5, <1>6, <1>7 DEF Step, ClientStep

(* No two processes are in the locked part at a time, and none stays there *)
(* for ever: what it may do there is bounded, each of its steps takes from *)
(* that, and no step of another process or of time adds to it or takes the *)
(* lock away.                                                              *)
THEOREM LockPassesOn ==
    Spec => /\ [](\A c, d \in Client : pc[c] \in Locked /\ pc[d] \in Locked => c = d)
            /\ [](\A c \in Client : Left(c) \in Nat)
            /\ [][\A c \in Client : lock = c =>
                    \/ lock' = None
                    \/ lock' = c /\ Left(c)' < Left(c)
                    \/ lock' = c /\ UNCHANGED <<pc[c], seed, m, again, file, cached>>]_vars
<1>1. TypeInv => /\ \A c, d \in Client : pc[c] \in Locked /\ pc[d] \in Locked => c = d
                 /\ \A c \in Client : Left(c) \in Nat
    BY LeftType DEF TypeInv, HolderInv
<1>2. ASSUME TypeInv, Next, NEW c \in Client, lock = c
      PROVE  \/ lock' = None
             \/ lock' = c /\ Left(c)' < Left(c)
             \/ lock' = c /\ UNCHANGED <<pc[c], seed, m, again, file, cached>>
    <2>1. CASE Age
        BY <1>2, <2>1 DEF Age, refresh
    <2>2. ASSUME NEW d \in Client, Step(d)
          PROVE  \/ lock' = None
                 \/ lock' = c /\ Left(c)' < Left(c)
                 \/ lock' = c /\ UNCHANGED <<pc[c], seed, m, again, file, cached>>
        <3>1. CASE d = c
            BY <1>2, <2>2, <3>1, HolderShrinks
        <3>2. CASE d # c
            BY <1>2, <2>2, <3>2, OthersWait
        <3> QED BY <3>1, <3>2
    <2> QED BY <1>2, <2>1, <2>2 DEF Next, Step
<1>3. TypeInv /\ [Next]_vars =>
        [\A c \in Client : lock = c =>
            \/ lock' = None
            \/ lock' = c /\ Left(c)' < Left(c)
            \/ lock' = c /\ UNCHANGED <<pc[c], seed, m, again, file, cached>>]_vars
    BY <1>2
<1> QED BY <1>1, <1>3, TypeInit, TypeStep, PTL DEF Spec

-----------------------------------------------------------------------------
(* No call gets stuck                                                      *)

(* Any providers can be sorted: the dearest comes last.                    *)
LEMMA SortedExists ==
    ASSUME TypeOK, NEW list \in SUBSET SP
    PROVE  Sorted(list) # {}
<1>1. IsFiniteSet(list)
    BY NumberAssumption, FS_Subset
<1> DEFINE P == {T \in SUBSET list : Sorted(T) # {}}
<1>2. ASSUME NEW T \in SUBSET list, \A U \in SUBSET T : U # T => U \in P
      PROVE  T \in P
    <2>0. IsFiniteSet(T) /\ Cardinality(T) \in Nat
        BY <1>1, FS_Subset, FS_CardinalityType
    <2>1. CASE T = {}
        <3>1. Cardinality(T) = 0
            BY <2>1, FS_EmptySet
        <3> DEFINE none == [i \in 1 .. 0 |-> CHOOSE x \in T : TRUE]
        <3>2. none \in [1 .. 0 -> T] /\ DOMAIN none = {}
            OBVIOUS
        <3> HIDE DEF none
        <3>3. none \in Sorted(T)
            BY <3>1, <3>2 DEF Sorted, IsInjective
        <3> QED BY <3>3
    <2>2. CASE T # {}
        <3> DEFINE Prices == {Rounded(sp) : sp \in T}
        <3>1. IsFiniteSet(Prices) /\ Prices # {}
            <4> DEFINE price == [sp \in T |-> Rounded(sp)]
            <4>1. price \in Surjection(T, Prices)
                BY DEF Surjection
            <4> QED BY <2>0, <2>2, <4>1, FS_Surjection
        <3>2. Prices \subseteq Int
            BY RoundedType
        <3>3. PICK x \in T : \A y \in T : Rounded(x) >= Rounded(y)
            <4>1. Max(Prices) \in Prices /\ \A p \in Prices : Max(Prices) >= p
                BY <3>1, <3>2, MaxFacts
            <4> QED BY <4>1
        <3> DEFINE U == T \ {x}
                   N == Cardinality(U)
        <3>4. N \in Nat /\ Cardinality(T) = N + 1
            BY <2>0, FS_RemoveElement, FS_Subset, FS_CardinalityType
        <3>5. PICK s \in Sorted(U) : TRUE
            BY <1>2
        <3>6. /\ s \in [1 .. N -> U] /\ IsInjective(s)
              /\ \A i, j \in 1 .. N : i < j => Rounded(s[i]) <= Rounded(s[j])
            BY <3>5 DEF Sorted
        <3> DEFINE r == [i \in 1 .. N + 1 |-> IF i = N + 1 THEN x ELSE s[i]]
        <3> HIDE DEF U, N
        <3>7. /\ DOMAIN r = 1 .. N + 1
              /\ r[N + 1] = x
              /\ \A i \in 1 .. N : r[i] = s[i] /\ r[i] \in U
              /\ \A i \in 1 .. N + 1 : i # N + 1 => i \in 1 .. N
            BY <3>4, <3>6
        <3>8. U \subseteq T /\ x \notin U
            BY DEF U
        <3>9. r \in [1 .. N + 1 -> T]
            BY <3>4, <3>7, <3>8
        <3> HIDE DEF r
        <3>10. \A i, j \in 1 .. N + 1 : r[i] = r[j] => i = j
            <4> SUFFICES ASSUME NEW i \in 1 .. N + 1, NEW j \in 1 .. N + 1, r[i] = r[j]
                         PROVE  i = j
                OBVIOUS
            <4>1. CASE i = N + 1 \/ j = N + 1
                BY <3>7, <3>8, <4>1
            <4>2. CASE i # N + 1 /\ j # N + 1
                BY <3>6, <3>7, <4>2 DEF IsInjective
            <4> QED BY <4>1, <4>2
        <3>11. \A i, j \in 1 .. N + 1 : i < j => Rounded(r[i]) <= Rounded(r[j])
            <4> SUFFICES ASSUME NEW i \in 1 .. N + 1, NEW j \in 1 .. N + 1, i < j
                         PROVE  Rounded(r[i]) <= Rounded(r[j])
                OBVIOUS
            <4>1. i # N + 1 /\ i \in 1 .. N
                BY <3>4
            <4>2. CASE j = N + 1
                <5>1. r[i] \in T /\ r[j] = x
                    BY <3>7, <3>9, <4>2
                <5>2. Rounded(x) >= Rounded(r[i]) /\ Rounded(x) \in Nat /\ Rounded(r[i]) \in Nat
                    BY <3>3, <5>1, RoundedType
                <5> QED BY <5>1, <5>2
            <4>3. CASE j # N + 1
                BY <3>6, <3>7, <4>1, <4>3
            <4> QED BY <4>2, <4>3
        <3>12. r \in Sorted(T)
            BY <3>4, <3>7, <3>9, <3>10, <3>11 DEF Sorted, IsInjective
        <3> QED BY <3>12
    <2> QED BY <2>1, <2>2
<1>3. list \in P
    <2> HIDE DEF P
    <2> QED BY <1>1, <1>2, StrongSetInduction
<1> QED BY <1>3

(* The cheapest `needed` ones of a sorted list are always kept, so there   *)
(* is always something to pick.                                            *)
LEMMA PicksExist ==
    ASSUME TypeOK, NEW list \in SUBSET SP, NEW n \in Nat \ {0}
    PROVE  Picks(list, n) # {}
<1> DEFINE N == Cardinality(list)
<1>1. IsFiniteSet(list) /\ N \in Nat
    BY NumberAssumption, FS_Subset, FS_CardinalityType
<1>2. CASE N <= n
    BY <1>2 DEF Picks
<1>3. CASE n < N
    <2>1. PICK s \in Sorted(list) : TRUE
        BY SortedExists
    <2>2. s \in [1 .. N -> list] /\ IsInjective(s) /\ DOMAIN s = 1 .. N /\ Len(s) = N
        <3>1. s \in [1 .. N -> list] /\ IsInjective(s)
            BY <2>1 DEF Sorted
        <3>2. s \in Seq(list)
            BY <1>1, <3>1
        <3> QED BY <1>1, <3>1, <3>2
    <2> DEFINE cheapest == {s[i] : i \in 1 .. n}
    <2>3. cheapest \subseteq list
        BY <1>1, <1>3, <2>2
    <2>4. Cardinality(cheapest) = n
        <3> DEFINE place == [i \in 1 .. n |-> s[i]]
        <3>1. place \in Bijection(1 .. n, cheapest)
            <4>1. \A i \in 1 .. n : i \in 1 .. N
                BY <1>1, <1>3
            <4>2. \A i, j \in 1 .. n : s[i] = s[j] => i = j
                BY <2>2, <4>1 DEF IsInjective
            <4> QED BY <4>2 DEF Bijection, Injection, Surjection, IsInjective
        <3>2. Cardinality(1 .. n) = n /\ IsFiniteSet(1 .. n)
            BY FS_Interval
        <3> QED BY <3>1, <3>2, FS_Bijection DEF ExistsBijection
    <2>5. cheapest \subseteq Kept(s, n)
        <3> SUFFICES ASSUME NEW i \in 1 .. n PROVE s[i] \in Kept(s, n)
            OBVIOUS
        <3>1. i \in 1 .. N /\ n \in 1 .. N
            BY <1>1, <1>3
        <3>2. ask[s[n]] <= Rounded(s[n])
            <4>1. ask[s[n]] \in Nat /\ ask[s[n]] <= RoundUp(ask[s[n]], Granularity)
                <5>1. ask[s[n]] \in Nat /\ Granularity \in Nat \ {0}
                    BY <2>2, <3>1, RoundedType, NumberAssumption
                <5> DEFINE a == ask[s[n]]
                           g == Granularity
                           q == (a + g - 1) \div g
                <5>2. a + g - 1 < (q + 1) * g /\ q \in Nat
                    BY <5>1
                <5>3. (q + 1) * g = q * g + g /\ q * g \in Nat
                    BY <5>1, <5>2
                <5>4. a <= q * g
                    BY <5>1, <5>2, <5>3
                <5> QED BY <5>1, <5>4 DEF RoundUp
            <4> QED BY <4>1 DEF Rounded
        <3>3. \A last \in n .. i : last = n
            OBVIOUS
        <3>4. ~(n = Len(s) \/ ask[s[n]] > Rounded(s[n]))
            <4>1. ask[s[n]] \in Nat /\ Rounded(s[n]) \in Nat
                BY <2>2, <3>1, RoundedType
            <4> QED BY <1>1, <1>3, <2>2, <3>2, <4>1
        <3> QED BY <2>2, <3>1, <3>3, <3>4 DEF Kept
    <2>6. cheapest \in Picks(list, n)
        BY <1>1, <1>3, <2>1, <2>3, <2>4, <2>5 DEF Picks
    <2> QED BY <2>6
<1> QED BY <1>1, <1>2, <1>3

(* What the next step of a process asks for, besides its turn: waiting for *)
(* the lock ends at the latest after thirty seconds, a file that is read   *)
(* has to be there, and a choice needs something to choose.                *)
Able(c) ==
    /\ pc[c] = "read" => file # "none"
    /\ pc[c] = "select" => \A n \in Wanted : Picks(sps[c], n) # {}

ThereInv == \A c \in Client : pc[c] = "read" => file # "none"

LEMMA ThereStep == TypeInv /\ ThereInv /\ [Next]_vars => ThereInv'
<1> SUFFICES ASSUME TypeInv, ThereInv, [Next]_vars, NEW d \in Client, pc'[d] = "read"
             PROVE  file' # "none"
    BY DEF ThereInv
<1>0. pc \in [Client -> {"idle", "lock", "select"} \cup Locked \cup Outcomes]
    BY DEF TypeInv, TypeOK
<1> USE <1>0 DEF Goto, cache, refresh, call
<1>1. CASE Age \/ UNCHANGED vars
    BY <1>1 DEF Age, vars, ThereInv
<1>2. ASSUME NEW c \in Client, Step(c) PROVE file' # "none"
    <2>1. CASE Stat(c)
        BY <2>1 DEF Stat, ThereInv
    <2>2. CASE Truncate(c) \/ Write(c)
        BY <2>2 DEF Truncate, Write
    <2>3. CASE Read(c)
        BY <2>3 DEF Read, ThereInv
    <2>4. CASE Start(c) \/ TryLock(c) \/ LockTimeout(c) \/ AskSeed(c) \/ Select(c) \/ Exit(c)
        BY <2>4 DEF Start, TryLock, LockTimeout, AskSeed, Select, Exit, ThereInv
    <2>5. CASE WriteFails(c) \/ Crash(c)
        BY <2>5 DEF WriteFails, Crash, ThereInv
    <2> QED BY <1>2, <2>1, <2>2, <2>3, <2>4, <2>5 DEF Step, ClientStep
<1> QED BY <1>1, <1>2 DEF Next, Step

(* No process is ever stuck in a call for providers: the file it is about  *)
(* to read is there, whoever wrote or truncated it last, and whatever list *)
(* it got, there are providers to pick from it.                            *)
THEOREM CallNeverStuck == Spec => [](\A c \in Client : Able(c))
<1>1. Init => ThereInv
    BY DEF Init, ThereInv
<1>2. TypeInv /\ ThereInv => \A c \in Client : Able(c)
    <2> SUFFICES ASSUME TypeInv, ThereInv, NEW c \in Client
                 PROVE  Able(c)
        OBVIOUS
    <2>1. ASSUME NEW n \in Wanted PROVE Picks(sps[c], n) # {}
        <3>1. TypeOK /\ sps[c] \in SUBSET SP /\ n \in Nat \ {0}
            BY NumberAssumption DEF TypeInv, TypeOK
        <3> QED BY <3>1, PicksExist
    <2> QED BY <2>1 DEF Able, ThereInv
<1> QED BY <1>1, <1>2, TypeInit, TypeStep, ThereStep, PTL DEF Spec
=============================================================================
