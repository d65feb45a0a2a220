------------------------ MODULE ArchonContractProofs ------------------------
(* Theorems about ArchonContract, for every value of its constants.        *)
EXTENDS ArchonContract, SetLemmas

(* The array of proposeUpload: what its length and the number of times an  *)
(* address occurs in it are.                                               *)
LEMMA ListFacts ==
    ASSUME NEW list \in Lists
    PROVE  /\ Len(list) \in Nat
           /\ DOMAIN list = 1 .. Len(list)
           /\ \A i \in DOMAIN list : list[i] \in Address
<1>1. PICK n \in 1 .. MaxSPs : list \in [1 .. n -> Address]
  BY NumberAssumption DEF Lists
<1>2. list \in Seq(Address)
  BY <1>1, NumberAssumption
<1> QED
  BY <1>1, <1>2

LEMMA OccurrencesFacts ==
    ASSUME NEW list \in Lists, NEW a
    PROVE  /\ Occurrences(a, list) \in Nat
           /\ (\A i \in DOMAIN list : list[i] # a) => Occurrences(a, list) = 0
<1> DEFINE places == {i \in DOMAIN list : list[i] = a}
<1>1. places \subseteq 1 .. Len(list)
  BY ListFacts
<1>2. IsFiniteSet(1 .. Len(list))
  BY ListFacts, FS_Interval
<1>3. IsFiniteSet(places)
  BY <1>1, <1>2, FS_Subset
<1>4. Cardinality(places) \in Nat
  BY <1>3, FS_CardinalityType
<1>5. (\A i \in DOMAIN list : list[i] # a) => places = {}
  OBVIOUS
<1> QED
  BY <1>4, <1>5, FS_EmptySet DEF Occurrences

(* What one share is, given that the payment was accepted.                 *)
LEMMA ShareFacts ==
    ASSUME NEW list \in Lists, Len(list) > 0, NEW value \in Nat
    PROVE  Share(value, list) \in Nat
BY ListFacts DEF Share

(* Slashing touches the slash and the standing, and never mends the latter.*)
LEMMA SlashedFacts ==
    ASSUME NEW sp \in Profile, NEW v \in Nat
    PROVE  /\ Slashed(sp, v) \in Profile
           /\ Slashed(sp, v).params = sp.params
           /\ Slashed(sp, v).nodeID = sp.nodeID
           /\ Slashed(sp, v).stake = sp.stake
           /\ Slashed(sp, v).earnings = sp.earnings
           /\ Slashed(sp, v).remainingStorage = sp.remainingStorage
           /\ Slashed(sp, v).inGoodStanding => sp.inGoodStanding
<1> DEFINE slash == sp.slash + v
<1>1. slash \in Nat
  BY DEF Profile
<1>2. \/ Slashed(sp, v) = [sp EXCEPT !.slash = slash, !.inGoodStanding = FALSE]
      \/ Slashed(sp, v) = [sp EXCEPT !.slash = slash]
  BY DEF Slashed
<1> HIDE DEF slash
<1> QED
  BY <1>1, <1>2 DEF Profile

-----------------------------------------------------------------------------
LEMMA TypeStep == TypeOK /\ [Next]_vars => TypeOK'
<1> SUFFICES ASSUME TypeOK, [Next]_vars PROVE TypeOK'
  OBVIOUS
<1> USE DEF TypeOK, Profile, profiles, names, admin, ether
<1>1. ASSUME NEW a \in Address, NEW p \in Params, NEW n \in NodeID, NEW v \in Amounts,
             registerSP(a, p, n, v)
      PROVE  TypeOK'
  <2>1. v \in Nat /\ p.availableStorage \in Nat
    BY ParamsAssumption, NumberAssumption
  <2> QED
    BY <1>1, <2>1 DEF registerSP, Receive
<1>2. ASSUME NEW a \in Address, unregisterSP(a) PROVE TypeOK'
  <2> DEFINE sp == spAddress2SPProfile[a]
             settlement == IF sp.inGoodStanding
                           THEN sp.earnings + sp.stake - sp.slash
                           ELSE IF sp.stake > sp.slash THEN sp.stake - sp.slash ELSE 0
  <2>1. settlement \in Nat
    BY <1>2 DEF unregisterSP, Forgotten, Released
  <2>2. Send(a, settlement)
    BY <1>2 DEF unregisterSP, Forgotten, Released
  <2>3. balance' \in Nat /\ wallet' \in [Address -> Nat]
    <3> HIDE DEF settlement
    <3> QED BY <2>1, <2>2 DEF Send
  <2>4. spAddress2SPProfile' \in [Address -> Profile]
    BY <1>2 DEF unregisterSP, Forgotten, Released, NoProfile
  <2>5. nodeID2Address' \in [NodeID -> Address \cup {None}]
    BY <1>2 DEF unregisterSP, Forgotten, Released
  <2> QED
    BY <1>2, <2>3, <2>4, <2>5 DEF unregisterSP, Forgotten, Released
<1>3. ASSUME NEW a \in Address, archonSPWithdrawal(a) PROVE TypeOK'
  <2> DEFINE sp == spAddress2SPProfile[a]
  <2>1. sp \in Profile /\ sp.earnings - sp.slash \in Nat
    BY <1>3 DEF archonSPWithdrawal
  <2>2. Send(a, sp.earnings - sp.slash)
    BY <1>3 DEF archonSPWithdrawal
  <2>3. balance' \in Nat /\ wallet' \in [Address -> Nat]
    <3> HIDE DEF sp
    <3> QED BY <2>1, <2>2 DEF Send
  <2>4. [sp EXCEPT !.earnings = 0] \in Profile
    BY <2>1
  <2>5. spAddress2SPProfile' = [spAddress2SPProfile EXCEPT ![a] = [sp EXCEPT !.earnings = 0]]
    BY <1>3 DEF archonSPWithdrawal
  <2>6. spAddress2SPProfile' \in [Address -> Profile]
    <3> HIDE DEF sp, Profile
    <3> QED BY <2>4, <2>5
  <2> QED
    BY <1>3, <2>3, <2>6 DEF archonSPWithdrawal
<1>4. ASSUME NEW a \in Address, NEW n \in Username, registerUsername(a, n) PROVE TypeOK'
  BY <1>4 DEF registerUsername
<1>5. ASSUME NEW a \in Address, NEW size \in ShardSize, NEW m \in Months, NEW list \in Lists,
             NEW v \in Amounts, proposeUpload(a, size, m, list, v)
      PROVE  TypeOK'
  <2>1. v \in Nat /\ size \in Nat /\ Share(v, list) \in Nat
    BY <1>5, NumberAssumption, ShareFacts DEF proposeUpload
  <2>2. ASSUME NEW b \in Address
        PROVE  /\ spAddress2SPProfile[b].remainingStorage - size * Occurrences(b, list) \in Nat
               /\ spAddress2SPProfile[b].earnings + Share(v, list) * Occurrences(b, list) \in Nat
    <3>1. Occurrences(b, list) \in Nat
      BY OccurrencesFacts
    <3>2. size * Occurrences(b, list) \in Nat /\ Share(v, list) * Occurrences(b, list) \in Nat
      BY <2>1, <3>1
    <3>3. spAddress2SPProfile[b].remainingStorage >= size * Occurrences(b, list)
      <4>1. CASE \E i \in DOMAIN list : list[i] = b
        BY <1>5, <4>1 DEF proposeUpload
      <4>2. CASE \A i \in DOMAIN list : list[i] # b
        <5>1. Occurrences(b, list) = 0
          BY <4>2, OccurrencesFacts
        <5> QED BY <2>1, <5>1
      <4> QED BY <4>1, <4>2
    <3> QED BY <3>2, <3>3
  <2>3. spAddress2SPProfile' \in [Address -> Profile]
    <3> DEFINE New(b) == [spAddress2SPProfile[b] EXCEPT
                 !.remainingStorage = @ - size * Occurrences(b, list),
                 !.earnings = @ + Share(v, list) * Occurrences(b, list)]
    <3>1. ASSUME NEW b \in Address PROVE New(b) \in Profile
      BY <2>2
    <3>2. spAddress2SPProfile' = [b \in Address |-> New(b)]
      BY <1>5 DEF proposeUpload
    <3> HIDE DEF New, Profile
    <3> QED BY <3>1, <3>2
  <2>4. balance' \in Nat /\ wallet' \in [Address -> Nat]
    <3>1. Receive(a, v)
      BY <1>5 DEF proposeUpload
    <3> QED BY <2>1, <3>1 DEF Receive
  <2> QED
    BY <1>5, <2>3, <2>4 DEF proposeUpload
<1>6. ASSUME NEW a \in Address, NEW v \in Amounts, Deposit(a, v) PROVE TypeOK'
  BY <1>6, NumberAssumption DEF Deposit, Receive
<1>7. ASSUME NEW a \in Address, NEW v \in Amounts, NEW b \in Address, slashStake(a, v, b)
      PROVE  TypeOK'
  <2> DEFINE sp == spAddress2SPProfile[b]
  <2>1. sp \in Profile /\ v \in Nat
    BY NumberAssumption
  <2>2. Slashed(sp, v) \in Profile
    <3> HIDE DEF sp, Profile
    <3> QED BY <2>1, SlashedFacts
  <2>3. spAddress2SPProfile' = [spAddress2SPProfile EXCEPT ![b] = Slashed(sp, v)]
    BY <1>7 DEF slashStake
  <2>4. spAddress2SPProfile' \in [Address -> Profile]
    <3> HIDE DEF sp, Profile
    <3> QED BY <2>2, <2>3
  <2> QED
    BY <1>7, <2>4 DEF slashStake
<1>8. ASSUME NEW a \in Address, OwnerTransaction(a),
             ~\E v \in Amounts, b \in Address : slashStake(a, v, b)
      PROVE  TypeOK'
  BY <1>8, NumberAssumption
  DEF OwnerTransaction, updateCostScalar, transferOwnership, renounceOwnership
<1>9. CASE UNCHANGED vars
  BY <1>9 DEF vars
<1> QED
  BY <1>1, <1>2, <1>3, <1>4, <1>5, <1>6, <1>7, <1>8, <1>9
  DEF Next, SPTransaction, UserTransaction, OwnerTransaction

(* Every variable keeps its type; in particular no subtraction of the      *)
(* contract goes below zero, for any amounts, prices and sizes.            *)
THEOREM TypeCorrect == Spec => []TypeOK
<1>1. Init => TypeOK
  BY AddressAssumption, NumberAssumption DEF Init, TypeOK, NoProfile, Profile
<1> QED
  BY <1>1, TypeStep, PTL DEF Spec

-----------------------------------------------------------------------------
(* proposeUpload, seen from one account b: it gives storage and gets       *)
(* shares as often as it occurs in the array, and only in good standing.   *)
LEMMA ProposeUploadFacts ==
    ASSUME TypeOK,
           NEW a \in Address, NEW size \in ShardSize, NEW m \in Months, NEW list \in Lists,
           NEW v \in Amounts, proposeUpload(a, size, m, list, v), NEW b \in Address,
           NEW old, old = spAddress2SPProfile[b],
           NEW new, new = spAddress2SPProfile'[b],
           NEW k, k = Occurrences(b, list)
    PROVE  /\ new.params = old.params
           /\ new.nodeID = old.nodeID
           /\ new.stake = old.stake
           /\ new.inGoodStanding = old.inGoodStanding
           /\ new.remainingStorage = old.remainingStorage - size * k
           /\ new.earnings = old.earnings + Share(v, list) * k
           /\ k # 0 => /\ old.inGoodStanding
                       /\ Share(v, list) >= shardsizeInMegaBytes(size) * minAskPrice(b) * m
<1>1. old \in Profile
  BY DEF TypeOK
<1>2. new = [old EXCEPT !.remainingStorage = @ - size * k, !.earnings = @ + Share(v, list) * k]
  BY DEF proposeUpload
<1>3. k # 0 => \E i \in DOMAIN list : list[i] = b
  BY OccurrencesFacts
<1>4. k # 0 => /\ old.inGoodStanding
               /\ Share(v, list) >= shardsizeInMegaBytes(size) * minAskPrice(b) * m
  BY <1>3 DEF proposeUpload, MeetsMaxMinAskPrice
<1> QED
  BY <1>1, <1>2, <1>4 DEF Profile

(* unregisterSP leaves nothing of the profile but its remaining storage.   *)
LEMMA UnregisterFacts ==
    ASSUME TypeOK, NEW a \in Address, unregisterSP(a)
    PROVE  /\ spAddress2SPProfile'[a] =
                [NoProfile EXCEPT !.remainingStorage = spAddress2SPProfile[a].remainingStorage]
           /\ \A b \in Address \ {a} : spAddress2SPProfile'[b] = spAddress2SPProfile[b]
BY DEF unregisterSP, Forgotten, Released, TypeOK

(* The transactions that touch a profile, and the others.                  *)
LEMMA NextCases ==
    ASSUME [Next]_vars
    PROVE  \/ \E a \in Address, p \in Params, n \in NodeID, v \in Amounts : registerSP(a, p, n, v)
           \/ \E a \in Address : unregisterSP(a)
           \/ \E a \in Address : archonSPWithdrawal(a)
           \/ \E a \in Address, size \in ShardSize, m \in Months, list \in Lists, v \in Amounts :
                proposeUpload(a, size, m, list, v)
           \/ \E a \in Address, v \in Amounts, sp \in Address : slashStake(a, v, sp)
           \/ \E a \in Address, v \in Amounts : Deposit(a, v)
           \/ UNCHANGED <<profiles, ether>>
<1>1. CASE UNCHANGED vars
  BY <1>1 DEF vars
<1>2. ASSUME NEW a \in Address, \E n \in Username : registerUsername(a, n)
      PROVE  UNCHANGED <<profiles, ether>>
  BY <1>2 DEF registerUsername
<1>3. ASSUME NEW a \in Address, OwnerTransaction(a),
             ~\E v \in Amounts, sp \in Address : slashStake(a, v, sp)
      PROVE  UNCHANGED <<profiles, ether>>
  BY <1>3 DEF OwnerTransaction, updateCostScalar, transferOwnership, renounceOwnership
<1> QED
  BY <1>1, <1>2, <1>3 DEF Next, SPTransaction, UserTransaction, OwnerTransaction

LEMMA ProfileCases ==
    ASSUME [Next]_vars
    PROVE  \/ \E a \in Address, p \in Params, n \in NodeID, v \in Amounts : registerSP(a, p, n, v)
           \/ \E a \in Address : unregisterSP(a)
           \/ \E a \in Address : archonSPWithdrawal(a)
           \/ \E a \in Address, size \in ShardSize, m \in Months, list \in Lists, v \in Amounts :
                proposeUpload(a, size, m, list, v)
           \/ \E a \in Address, v \in Amounts, sp \in Address : slashStake(a, v, sp)
           \/ UNCHANGED profiles
<1>1. ASSUME NEW a \in Address, NEW v \in Amounts, Deposit(a, v) PROVE UNCHANGED profiles
  BY <1>1 DEF Deposit
<1> QED
  BY <1>1, NextCases

(* Name service: one name per account and one account per name.            *)
THEOREM UsernamesMatchAlways == Spec => []UsernamesMatch
<1>1. Init => UsernamesMatch
  BY AddressAssumption, NameAssumption DEF Init, UsernamesMatch
<1>2. TypeOK /\ UsernamesMatch /\ [Next]_vars => UsernamesMatch'
  <2> SUFFICES ASSUME TypeOK, UsernamesMatch, [Next]_vars PROVE UsernamesMatch'
    OBVIOUS
  <2>1. ASSUME NEW a \in Address, NEW n \in Username, registerUsername(a, n)
        PROVE  UsernamesMatch'
    BY <2>1, AddressAssumption, NameAssumption DEF registerUsername, UsernamesMatch, TypeOK
  <2>2. CASE UNCHANGED names
    BY <2>2 DEF names, UsernamesMatch
  <2>3. ASSUME NEW a \in Address, SPTransaction(a) PROVE UNCHANGED names
    BY <2>3 DEF SPTransaction, registerSP, unregisterSP, Forgotten, Released, archonSPWithdrawal
  <2>4. ASSUME NEW a \in Address, OwnerTransaction(a) PROVE UNCHANGED names
    BY <2>4 DEF OwnerTransaction, slashStake, updateCostScalar, transferOwnership, renounceOwnership
  <2>5. ASSUME NEW a \in Address, UserTransaction(a) PROVE UsernamesMatch'
    <3>1. CASE \E n \in Username : registerUsername(a, n)
      BY <2>1, <3>1
    <3>2. CASE UNCHANGED names
      BY <2>2, <3>2
    <3> QED
      BY <2>5, <3>1, <3>2 DEF UserTransaction, proposeUpload, Deposit
  <2>6. CASE UNCHANGED vars
    BY <2>2, <2>6 DEF vars
  <2> QED
    BY <2>2, <2>3, <2>4, <2>5, <2>6 DEF Next
<1> QED
  BY <1>1, <1>2, TypeCorrect, PTL DEF Spec

(* Only registered providers are in good standing or have money in the     *)
(* contract, and none sells more storage than it pledged.                  *)
THEOREM ProvidersBackedAlways == Spec => []ProvidersBacked
<1>1. Init => ProvidersBacked
  <2>1. Backed(NoProfile)
    BY DEF Backed, NoProfile
  <2> QED
    BY <2>1 DEF Init, ProvidersBacked
<1>2. TypeOK /\ ProvidersBacked /\ [Next]_vars => ProvidersBacked'
  <2> SUFFICES ASSUME TypeOK, ProvidersBacked, [Next]_vars, NEW b \in Address
               PROVE  Backed(spAddress2SPProfile'[b])
    BY DEF ProvidersBacked
  <2>0. Backed(spAddress2SPProfile[b]) /\ spAddress2SPProfile[b] \in Profile
    BY DEF ProvidersBacked, TypeOK
  <2>1. ASSUME NEW a \in Address, NEW p \in Params, NEW n \in NodeID, NEW v \in Amounts,
               registerSP(a, p, n, v)
        PROVE  Backed(spAddress2SPProfile'[b])
    <3>1. p.availableStorage \in Nat /\ p # None /\ n # None
      BY ParamsAssumption, NameAssumption
    <3> QED
      BY <2>0, <2>1, <3>1 DEF registerSP, Backed, TypeOK
  <2>2. ASSUME NEW a \in Address, unregisterSP(a) PROVE Backed(spAddress2SPProfile'[b])
    BY <2>0, <2>2, UnregisterFacts DEF Backed, NoProfile
  <2>3. ASSUME NEW a \in Address, archonSPWithdrawal(a) PROVE Backed(spAddress2SPProfile'[b])
    BY <2>0, <2>3 DEF archonSPWithdrawal, Backed, TypeOK, Profile
  <2>4. ASSUME NEW a \in Address, NEW size \in ShardSize, NEW m \in Months, NEW list \in Lists,
               NEW v \in Amounts, proposeUpload(a, size, m, list, v)
        PROVE  Backed(spAddress2SPProfile'[b])
    <3> DEFINE k == Occurrences(b, list)
    <3>1. k \in Nat /\ size \in Nat /\ Share(v, list) \in Nat
      BY <2>4, OccurrencesFacts, ShareFacts, NumberAssumption DEF proposeUpload
    <3>2. size * k \in Nat /\ (k = 0 => Share(v, list) * k = 0)
      BY <3>1
    <3> DEFINE old == spAddress2SPProfile[b]
               new == spAddress2SPProfile'[b]
    <3>3. /\ new.params = old.params
          /\ new.nodeID = old.nodeID
          /\ new.stake = old.stake
          /\ new.inGoodStanding = old.inGoodStanding
          /\ new.remainingStorage = old.remainingStorage - size * k
          /\ new.earnings = old.earnings + Share(v, list) * k
          /\ k # 0 => old.inGoodStanding
      BY <2>4, ProposeUploadFacts
    <3>4. old.params # None => old.params.availableStorage \in Nat
      BY <2>0, ParamsAssumption DEF Profile
    <3>5. old.earnings \in Nat /\ old.remainingStorage \in Nat
      BY <2>0 DEF Profile
    <3>6. Backed(old)
      BY <2>0
    <3> HIDE DEF k, old, new
    <3>7. Backed(new)
      BY <3>2, <3>3, <3>4, <3>5, <3>6 DEF Backed
    <3> QED
      BY <3>7 DEF new
  <2>5. ASSUME NEW a \in Address, NEW v \in Amounts, NEW c \in Address, slashStake(a, v, c)
        PROVE  Backed(spAddress2SPProfile'[b])
    <3>1. v \in Nat
      BY NumberAssumption
    <3>2. CASE b = c
      <4>1. spAddress2SPProfile'[b] = Slashed(spAddress2SPProfile[b], v)
        BY <2>5, <3>2 DEF slashStake, TypeOK
      <4> QED
        BY <2>0, <3>1, <4>1, SlashedFacts DEF Backed
    <3>3. CASE b # c
      BY <2>0, <2>5, <3>3 DEF slashStake, TypeOK
    <3> QED
      BY <3>2, <3>3
  <2>6. CASE UNCHANGED profiles
    BY <2>0, <2>6 DEF profiles
  <2> QED
    BY <2>1, <2>2, <2>3, <2>4, <2>5, <2>6, ProfileCases
<1> QED
  BY <1>1, <1>2, TypeCorrect, PTL DEF Spec

(* The provider directory: a node ID leads to the provider that registered *)
(* it and to no other.                                                     *)
THEOREM NodeIDsMatchAlways == Spec => []NodeIDsMatch
<1>1. Init => NodeIDsMatch
  BY AddressAssumption, NameAssumption DEF Init, NodeIDsMatch, NoProfile
<1>2. TypeOK /\ ProvidersBacked /\ NodeIDsMatch /\ [Next]_vars => NodeIDsMatch'
  <2> SUFFICES ASSUME TypeOK, ProvidersBacked, NodeIDsMatch, [Next]_vars PROVE NodeIDsMatch'
    OBVIOUS
  <2>1. ASSUME NEW a \in Address, NEW p \in Params, NEW n \in NodeID, NEW v \in Amounts,
               registerSP(a, p, n, v)
        PROVE  NodeIDsMatch'
    <3>1. spAddress2SPProfile[a].nodeID = None
      BY <2>1 DEF registerSP, ProvidersBacked, Backed
    <3> QED
      BY <2>1, <3>1, AddressAssumption, NameAssumption DEF registerSP, NodeIDsMatch, TypeOK
  <2>2. ASSUME NEW a \in Address, unregisterSP(a) PROVE NodeIDsMatch'
    <3>1. spAddress2SPProfile'[a].nodeID = None
      BY <2>2, UnregisterFacts DEF NoProfile
    <3> QED
      BY <2>2, <3>1, UnregisterFacts, AddressAssumption, NameAssumption
      DEF unregisterSP, Forgotten, Released, NodeIDsMatch, TypeOK
  <2>3. ASSUME UNCHANGED nodeID2Address,
               \A b \in Address : spAddress2SPProfile'[b].nodeID = spAddress2SPProfile[b].nodeID
        PROVE  NodeIDsMatch'
    BY <2>3 DEF NodeIDsMatch
  <2>4. ASSUME NEW a \in Address, archonSPWithdrawal(a) PROVE NodeIDsMatch'
    BY <2>3, <2>4 DEF archonSPWithdrawal, TypeOK, Profile
  <2>5. ASSUME NEW a \in Address, NEW size \in ShardSize, NEW m \in Months, NEW list \in Lists,
               NEW v \in Amounts, proposeUpload(a, size, m, list, v)
        PROVE  NodeIDsMatch'
    <3>1. UNCHANGED nodeID2Address
      BY <2>5 DEF proposeUpload
    <3> QED
      BY <2>3, <2>5, <3>1, ProposeUploadFacts
  <2>6. ASSUME NEW a \in Address, NEW v \in Amounts, NEW c \in Address, slashStake(a, v, c)
        PROVE  NodeIDsMatch'
    <3>1. spAddress2SPProfile[c] \in Profile /\ v \in Nat
      BY NumberAssumption DEF TypeOK
    <3>2. Slashed(spAddress2SPProfile[c], v).nodeID = spAddress2SPProfile[c].nodeID
      BY <3>1, SlashedFacts
    <3> QED
      BY <2>3, <2>6, <3>2 DEF slashStake, TypeOK
  <2>7. CASE UNCHANGED profiles
    BY <2>3, <2>7 DEF profiles
  <2> QED
    BY <2>1, <2>2, <2>4, <2>5, <2>6, <2>7, ProfileCases
<1> QED
  BY <1>1, <1>2, TypeCorrect, ProvidersBackedAlways, PTL DEF Spec

(* A provider in bad standing earns nothing and stays there until it       *)
(* registers anew.                                                         *)
THEOREM BadStandingSticksAlways == Spec => BadStandingSticks
<1>1. TypeOK /\ [Next]_vars => [Sticks]_vars
  <2> SUFFICES ASSUME TypeOK, [Next]_vars, NEW b \in Address,
                      NEW old, old = spAddress2SPProfile[b],
                      NEW new, new = spAddress2SPProfile'[b],
                      ~old.inGoodStanding, old.params # None
               PROVE  ~new.inGoodStanding /\ new.earnings <= old.earnings
    BY DEF Sticks
  <2>0. old \in Profile
    BY DEF TypeOK
  <2>1. ASSUME NEW a \in Address, NEW p \in Params, NEW n \in NodeID, NEW v \in Amounts,
               registerSP(a, p, n, v)
        PROVE  new = old
    BY <2>1 DEF registerSP, TypeOK
  <2>2. ASSUME NEW a \in Address, unregisterSP(a)
        PROVE  ~new.inGoodStanding /\ new.earnings <= old.earnings
    <3>1. b # a => new = old
      BY <2>2, UnregisterFacts
    <3>2. b = a => ~new.inGoodStanding /\ new.earnings = 0
      BY <2>2, UnregisterFacts DEF NoProfile
    <3> QED
      BY <2>0, <3>1, <3>2 DEF Profile
  <2>3. ASSUME NEW a \in Address, archonSPWithdrawal(a) PROVE new = old
    BY <2>3 DEF archonSPWithdrawal, TypeOK
  <2>4. ASSUME NEW a \in Address, NEW size \in ShardSize, NEW m \in Months, NEW list \in Lists,
               NEW v \in Amounts, proposeUpload(a, size, m, list, v)
        PROVE  ~new.inGoodStanding /\ new.earnings <= old.earnings
    <3>1. Share(v, list) \in Nat
      BY <2>4, ShareFacts, NumberAssumption DEF proposeUpload
    <3>2. /\ new.inGoodStanding = old.inGoodStanding
          /\ new.earnings = old.earnings + Share(v, list) * Occurrences(b, list)
          /\ Occurrences(b, list) # 0 => old.inGoodStanding
      BY <2>4, ProposeUploadFacts
    <3> QED
      BY <2>0, <3>1, <3>2 DEF Profile
  <2>5. ASSUME NEW a \in Address, NEW v \in Amounts, NEW c \in Address, slashStake(a, v, c)
        PROVE  ~new.inGoodStanding /\ new.earnings <= old.earnings
    <3>1. new = IF b = c THEN Slashed(old, v) ELSE old
      BY <2>5 DEF slashStake, TypeOK
    <3>2. v \in Nat /\ old.earnings \in Nat
      BY <2>0, NumberAssumption DEF Profile
    <3>3. /\ Slashed(old, v).earnings = old.earnings
          /\ Slashed(old, v).inGoodStanding => old.inGoodStanding
      BY <2>0, <3>2, SlashedFacts
    <3>4. CASE b = c
      <4>1. new.earnings = old.earnings /\ (new.inGoodStanding => old.inGoodStanding)
        BY <3>1, <3>3, <3>4
      <4> QED
        BY <2>0, <3>2, <4>1
    <3>5. CASE b # c
      BY <2>0, <3>1, <3>2, <3>5
    <3> QED
      BY <3>4, <3>5
  <2>6. CASE UNCHANGED profiles
    BY <2>0, <2>6 DEF profiles, Profile
  <2>7. new = old => ~new.inGoodStanding /\ new.earnings <= old.earnings
    BY <2>0 DEF Profile
  <2> QED
    BY <2>1, <2>2, <2>3, <2>4, <2>5, <2>6, <2>7, ProfileCases
<1> QED
  BY <1>1, TypeCorrect, PTL DEF Spec, BadStandingSticks

-----------------------------------------------------------------------------
(* What a shard is charged for is more than half of what it takes.         *)
LEMMA Rounding ==
    ASSUME NEW size \in Nat
    PROVE  /\ shardsizeInMegaBytes(size) \in Nat
           /\ 2 * MegaByte * shardsizeInMegaBytes(size) >= size
<1> DEFINE q == size \div MegaByte
<1>1. q \in Nat /\ MegaByte * q <= size /\ size < MegaByte * q + MegaByte
  BY NumberAssumption
<1>2. CASE size < MegaByte
  BY <1>2, NumberAssumption DEF shardsizeInMegaBytes
<1>3. CASE size >= MegaByte
  <2>1. q > 0
    BY <1>1, <1>3, NumberAssumption
  <2>2. MegaByte * q >= MegaByte
    BY <1>1, <2>1, NumberAssumption
  <2>3. 2 * MegaByte * q = MegaByte * q + MegaByte * q
    BY <1>1, NumberAssumption
  <2> QED
    BY <1>1, <1>3, <2>2, <2>3, NumberAssumption DEF shardsizeInMegaBytes
<1> QED
  BY <1>2, <1>3, NumberAssumption

(* Whatever the shard sizes, months, prices and the make-up of the array,  *)
(* a provider never sells storage for less than half its price per byte.   *)
THEOREM StorageIsPaidForAlways == Spec => StorageIsPaidFor
<1>1. TypeOK /\ [Next]_vars => [PaidFor]_vars
  <2> SUFFICES ASSUME TypeOK, [Next]_vars, NEW b \in Address,
                      NEW old, old = spAddress2SPProfile[b],
                      NEW new, new = spAddress2SPProfile'[b],
                      old.params # None, new.params # None,
                      NEW taken, taken = old.remainingStorage - new.remainingStorage, taken > 0
               PROVE  2 * MegaByte * (new.earnings - old.earnings) >= minAskPrice(b) * taken
    BY DEF PaidFor
  <2>0. old \in Profile /\ old.remainingStorage - old.remainingStorage = 0
    BY DEF TypeOK, Profile
  <2>1. ASSUME NEW a \in Address, NEW p \in Params, NEW n \in NodeID, NEW v \in Amounts,
               registerSP(a, p, n, v)
        PROVE  FALSE
    BY <2>0, <2>1 DEF registerSP, TypeOK
  <2>2. ASSUME NEW a \in Address, unregisterSP(a) PROVE FALSE
    <3>1. b # a => new = old
      BY <2>2, UnregisterFacts
    <3>2. b = a => new.params = None
      BY <2>2, UnregisterFacts DEF NoProfile
    <3> QED
      BY <2>0, <3>1, <3>2
  <2>3. ASSUME NEW a \in Address, archonSPWithdrawal(a) PROVE FALSE
    <3>1. new.remainingStorage = old.remainingStorage
      BY <2>0, <2>3 DEF archonSPWithdrawal, TypeOK, Profile
    <3> QED
      BY <2>0, <3>1
  <2>4. ASSUME NEW a \in Address, NEW size \in ShardSize, NEW m \in Months, NEW list \in Lists,
               NEW v \in Amounts, proposeUpload(a, size, m, list, v)
        PROVE  2 * MegaByte * (new.earnings - old.earnings) >= minAskPrice(b) * taken
    <3> DEFINE k == Occurrences(b, list)
               share == Share(v, list)
               mb == shardsizeInMegaBytes(size)
               ask == minAskPrice(b)
    <3>1. k \in Nat /\ size \in Nat /\ m \in Nat /\ m > 0 /\ share \in Nat
      BY <2>4, OccurrencesFacts, ShareFacts, NumberAssumption DEF proposeUpload
    <3>2. mb \in Nat /\ 2 * MegaByte * mb >= size
      BY <3>1, Rounding
    <3>3. ask \in Nat
      BY <2>0, ParamsAssumption DEF minAskPrice, Profile
    <3>4. /\ new.remainingStorage = old.remainingStorage - size * k
          /\ new.earnings = old.earnings + share * k
          /\ k # 0 => share >= mb * ask * m
      BY <2>4, ProposeUploadFacts
    <3>5. old.remainingStorage \in Nat /\ old.earnings \in Nat /\ MegaByte \in Nat
      BY <2>0, NumberAssumption DEF Profile
    <3> HIDE DEF k, share, mb, ask
    <3>6. taken = size * k /\ new.earnings - old.earnings = share * k
      BY <3>1, <3>4, <3>5
    <3>7. k # 0
      BY <3>1, <3>6
    <3>8. share >= mb * ask
      <4>1. mb * ask \in Nat
        BY <3>2, <3>3
      <4>2. mb * ask * m >= mb * ask
        BY <3>1, <4>1
      <4> QED
        BY <3>1, <3>4, <3>7, <4>1, <4>2
    <3>9. 2 * MegaByte * share >= size * ask
      <4>1. 2 * MegaByte * share >= 2 * MegaByte * (mb * ask)
        BY <3>1, <3>2, <3>3, <3>5, <3>8
      <4>2. 2 * MegaByte * (mb * ask) = (2 * MegaByte * mb) * ask
        BY <3>2, <3>3, <3>5
      <4>3. (2 * MegaByte * mb) * ask >= size * ask
        BY <3>1, <3>2, <3>3, <3>5
      <4> QED
        BY <3>1, <3>2, <3>3, <3>5, <4>1, <4>2, <4>3
    <3>10. (2 * MegaByte * share) * k >= (size * ask) * k
      BY <3>1, <3>3, <3>5, <3>9
    <3>11. (2 * MegaByte * share) * k = 2 * MegaByte * (share * k)
      BY <3>1, <3>5
    <3>12. (size * ask) * k = ask * (size * k)
      BY <3>1, <3>3
    <3> QED
      BY <3>6, <3>10, <3>11, <3>12 DEF ask
  <2>5. ASSUME NEW a \in Address, NEW v \in Amounts, NEW c \in Address, slashStake(a, v, c)
        PROVE  FALSE
    <3>1. new = IF b = c THEN Slashed(old, v) ELSE old
      BY <2>5 DEF slashStake, TypeOK
    <3>2. new.remainingStorage = old.remainingStorage
      BY <2>0, <3>1, SlashedFacts, NumberAssumption
    <3> QED
      BY <2>0, <3>2
  <2>6. CASE UNCHANGED profiles
    BY <2>0, <2>6 DEF profiles
  <2> QED
    BY <2>1, <2>2, <2>3, <2>4, <2>5, <2>6, ProfileCases
<1> QED
  BY <1>1, TypeCorrect, PTL DEF Spec, StorageIsPaidFor
-----------------------------------------------------------------------------
(* Solvency                                                                *)

(* What the contract owes a provider.                                      *)
Credit(a) == spAddress2SPProfile[a].stake + spAddress2SPProfile[a].earnings
credits == [a \in Address |-> Credit(a)]

LEMMA CreditFacts ==
    ASSUME TypeOK
    PROVE  /\ credits \in [Address -> Int]
           /\ \A a \in Address : Credit(a) \in Nat
           /\ SumFunction(credits) \in Int
<1>1. \A a \in Address : Credit(a) \in Nat
  BY DEF TypeOK, Profile, Credit
<1>2. credits \in [Address -> Int]
  BY <1>1 DEF credits
<1>3. SumFunction(credits) \in Int
  <2>1. Deployer \in Address /\ IsFiniteSet(Address) /\ 0 \in Int
    BY AddressAssumption
  <2> QED
    BY <1>2, <2>1, SumChange
<1> QED
  BY <1>1, <1>2, <1>3

(* One provider's credit changes.                                          *)
LEMMA OneCredit ==
    ASSUME TypeOK, NEW a \in Address, NEW c \in Nat, Credit(a)' = c,
           \A b \in Address \ {a} : spAddress2SPProfile'[b] = spAddress2SPProfile[b]
    PROVE  SumFunction(credits)' = SumFunction(credits) - Credit(a) + c
<1>1. credits' = [credits EXCEPT ![a] = c]
  <2>1. \A b \in Address \ {a} : Credit(b)' = Credit(b)
    BY DEF Credit
  <2>2. \A b \in Address : Credit(b)' = IF b = a THEN c ELSE Credit(b)
    BY <2>1
  <2> QED
    BY <2>2 DEF credits
<1>2. credits[a] = Credit(a) /\ c \in Int
  BY DEF credits
<1>3. SumFunction([credits EXCEPT ![a] = c]) = SumFunction(credits) - credits[a] + c
  <2>1. credits \in [Address -> Int] /\ IsFiniteSet(Address)
    BY CreditFacts, AddressAssumption
  <2> QED
    BY <1>2, <2>1, SumChange
<1> QED
  BY <1>1, <1>2, <1>3

(* No Ether appears or vanishes.                                           *)
Conserved == balance + SumFunction(wallet) = Wealth * Cardinality(Address)

LEMMA WalletFacts ==
    ASSUME TypeOK, NEW a \in Address, NEW w \in Int
    PROVE  /\ SumFunction([wallet EXCEPT ![a] = w]) = SumFunction(wallet) - wallet[a] + w
           /\ SumFunction(wallet) \in Int /\ wallet[a] \in Int /\ balance \in Int
<1>1. wallet \in [Address -> Int] /\ wallet[a] \in Int /\ balance \in Int
  BY DEF TypeOK
<1>2. IsFiniteSet(Address)
  BY AddressAssumption
<1> QED
  BY <1>1, <1>2, SumChange

LEMMA ReceiveConserves ==
    ASSUME TypeOK, NEW a \in Address, NEW v \in Nat, Receive(a, v), Conserved
    PROVE  Conserved'
<1> DEFINE w == wallet[a] - v
<1>1. w \in Int
  BY DEF TypeOK
<1>2. wallet' = [wallet EXCEPT ![a] = w] /\ balance' = balance + v
  BY DEF Receive
<1>3. SumFunction(wallet') = SumFunction(wallet) - wallet[a] + w
  <2> HIDE DEF w
  <2> QED
    BY <1>1, <1>2, WalletFacts
<1>4. SumFunction(wallet) \in Int /\ wallet[a] \in Int /\ balance \in Int
  BY <1>1, WalletFacts
<1> QED
  BY <1>2, <1>3, <1>4 DEF Conserved

LEMMA SendConserves ==
    ASSUME TypeOK, NEW a \in Address, NEW v \in Nat, Send(a, v), Conserved
    PROVE  Conserved'
<1> DEFINE w == wallet[a] + v
<1>1. w \in Int
  BY DEF TypeOK
<1>2. wallet' = [wallet EXCEPT ![a] = w] /\ balance' = balance - v
  BY DEF Send
<1>3. SumFunction(wallet') = SumFunction(wallet) - wallet[a] + w
  <2> HIDE DEF w
  <2> QED
    BY <1>1, <1>2, WalletFacts
<1>4. SumFunction(wallet) \in Int /\ wallet[a] \in Int /\ balance \in Int
  BY <1>1, WalletFacts
<1> QED
  BY <1>2, <1>3, <1>4 DEF Conserved

(* The shares of an upload, booked entry by entry, are at most what the    *)
(* uploader paid: the entries of the array are counted once each.          *)
LEMMA SharesBooked ==
    ASSUME TypeOK, NEW a \in Address, NEW size \in ShardSize, NEW m \in Months,
           NEW list \in Lists, NEW v \in Amounts, proposeUpload(a, size, m, list, v)
    PROVE  /\ SumFunction(credits)' \in Int
           /\ SumFunction(credits)' <= SumFunction(credits) + v
<1> DEFINE share == Share(v, list)
           uses == [b \in Address |-> Occurrences(b, list)]
           old == credits
           new == credits'
<1>1. v \in Nat /\ share \in Nat /\ Len(list) \in Nat /\ Len(list) > 0
  BY NumberAssumption, ShareFacts, ListFacts DEF proposeUpload
<1>2. \A b \in Address : uses[b] \in Int
  <2>1. \A b \in Address : Occurrences(b, list) \in Nat
    BY OccurrencesFacts
  <2> QED
    BY <2>1
<1>3. ASSUME NEW b \in Address
      PROVE  old[b] \in Int /\ new[b] = old[b] + share * uses[b]
  <2>1. /\ spAddress2SPProfile'[b].stake = spAddress2SPProfile[b].stake
        /\ spAddress2SPProfile'[b].earnings
             = spAddress2SPProfile[b].earnings + share * uses[b]
    BY ProposeUploadFacts
  <2>2. spAddress2SPProfile[b].stake \in Nat /\ spAddress2SPProfile[b].earnings \in Nat
    BY DEF TypeOK, Profile
  <2>3. share * uses[b] \in Int
    BY <1>1, <1>2
  <2>4. /\ old[b] = spAddress2SPProfile[b].stake + spAddress2SPProfile[b].earnings
        /\ new[b] = spAddress2SPProfile'[b].stake + spAddress2SPProfile'[b].earnings
    BY DEF credits, Credit
  <2> HIDE DEF share, uses, old, new
  <2> QED
    BY <2>1, <2>2, <2>3, <2>4
<1>4. SumFunctionOnSet(new, Address)
        = SumFunctionOnSet(old, Address) + share * SumFunctionOnSet(uses, Address)
  <2>1. IsFiniteSet(Address) /\ share \in Int
    BY <1>1, AddressAssumption
  <2> HIDE DEF share, uses, old, new
  <2> QED
    BY <1>2, <1>3, <2>1, SumLinear
<1>5. SumFunctionOnSet(uses, Address) = Len(list)
  <2>1. IsFiniteSet(DOMAIN list) /\ Cardinality(DOMAIN list) = Len(list)
    BY <1>1, ListFacts, FS_Interval
  <2>2. list \in [DOMAIN list -> Address]
    <3>1. list = [i \in DOMAIN list |-> list[i]]
      BY DEF Lists
    <3> QED
      BY <3>1, ListFacts
  <2>3. SumFunction(uses) = Cardinality(DOMAIN list)
    BY <2>1, <2>2, SumOfCounts, AddressAssumption DEF Occurrences
  <2> QED
    BY <2>1, <2>3 DEF SumFunction
<1>6. share * Len(list) <= v
  BY <1>1, ListFacts DEF Share
<1>7. /\ SumFunction(credits)' = SumFunctionOnSet(new, Address)
      /\ SumFunction(credits) = SumFunctionOnSet(old, Address)
  BY DEF SumFunction, credits
<1>8. SumFunction(credits) \in Int
  BY CreditFacts
<1>9. share * Len(list) \in Int
  BY <1>1
<1> HIDE DEF share, uses, old, new
<1> QED
  BY <1>1, <1>4, <1>5, <1>6, <1>7, <1>8, <1>9

(* The contract can always pay every provider its stake and its earnings,  *)
(* and no Ether appears or vanishes, for any number of accounts, amounts   *)
(* and uploads and whatever the owner slashes.                             *)
THEOREM SolventAlways == Spec => []Solvent
<1> DEFINE Owed == balance >= SumFunction(credits)
<1>1. Solvent <=> Owed /\ Conserved
  BY DEF Solvent, Conserved, credits, Credit
<1>2. Init => Owed /\ Conserved
  <2> SUFFICES ASSUME Init PROVE Owed /\ Conserved
    OBVIOUS
  <2>1. SumFunctionOnSet(credits, Address) = 0 * Cardinality(Address)
    <3>1. \A a \in Address : credits[a] = 0
      BY DEF Init, NoProfile, credits, Credit
    <3> QED
      BY <3>1, SumConstant, AddressAssumption
  <2>2. SumFunctionOnSet(wallet, Address) = Wealth * Cardinality(Address)
    <3>1. \A a \in Address : wallet[a] = Wealth
      BY DEF Init
    <3> QED
      BY <3>1, SumConstant, AddressAssumption, NumberAssumption
  <2>3. Cardinality(Address) \in Nat /\ Wealth * Cardinality(Address) \in Nat
    <3>1. Cardinality(Address) \in Nat
      BY AddressAssumption, FS_CardinalityType
    <3> QED
      BY <3>1, NumberAssumption
  <2>4. balance = 0 /\ DOMAIN wallet = Address /\ DOMAIN credits = Address
    BY DEF Init, credits
  <2> QED
    BY <2>1, <2>2, <2>3, <2>4 DEF SumFunction, Conserved
<1>3. TypeOK /\ ProvidersBacked /\ Owed /\ Conserved /\ [Next]_vars => (Owed /\ Conserved)'
  <2> SUFFICES ASSUME TypeOK, ProvidersBacked, Owed, Conserved, [Next]_vars
               PROVE  (Owed /\ Conserved)'
    OBVIOUS
  <2>0. balance \in Nat /\ SumFunction(credits) \in Int
    BY CreditFacts DEF TypeOK
  <2>1. ASSUME NEW a \in Address, NEW p \in Params, NEW n \in NodeID, NEW v \in Amounts,
               registerSP(a, p, n, v)
        PROVE  (Owed /\ Conserved)'
    <3>1. v \in Nat /\ Receive(a, v)
      BY <2>1, NumberAssumption DEF registerSP
    <3>2. Credit(a) = 0
      BY <2>1 DEF registerSP, ProvidersBacked, Backed, Credit
    <3>3. Credit(a)' = v
      BY <2>1, <3>1 DEF registerSP, Credit, TypeOK
    <3>4. \A b \in Address \ {a} : spAddress2SPProfile'[b] = spAddress2SPProfile[b]
      BY <2>1 DEF registerSP, TypeOK
    <3>5. SumFunction(credits)' = SumFunction(credits) - 0 + v
      BY <3>1, <3>2, <3>3, <3>4, OneCredit
    <3>6. Owed'
      BY <2>0, <3>1, <3>5 DEF Receive
    <3> QED
      BY <3>1, <3>6, ReceiveConserves
  <2>2. ASSUME NEW a \in Address, unregisterSP(a) PROVE (Owed /\ Conserved)'
    <3>1. PICK settlement \in Nat : settlement <= Credit(a) /\ Send(a, settlement)
      <4> DEFINE sp == spAddress2SPProfile[a]
                 settlement == IF sp.inGoodStanding
                               THEN sp.earnings + sp.stake - sp.slash
                               ELSE IF sp.stake > sp.slash THEN sp.stake - sp.slash ELSE 0
      <4>1. sp.earnings \in Nat /\ sp.stake \in Nat /\ sp.slash \in Nat
        BY DEF TypeOK, Profile
      <4>2. settlement >= 0 /\ Send(a, settlement)
        BY <2>2 DEF unregisterSP
      <4>3. Credit(a) = sp.stake + sp.earnings
        BY DEF Credit
      <4> HIDE DEF sp
      <4>4. settlement \in Nat /\ settlement <= Credit(a)
        BY <4>1, <4>2, <4>3
      <4> HIDE DEF settlement
      <4> QED
        BY <4>2, <4>4
    <3>2. Credit(a)' = 0
      <4>1. spAddress2SPProfile'[a].stake = 0 /\ spAddress2SPProfile'[a].earnings = 0
        BY <2>2, UnregisterFacts DEF NoProfile
      <4> QED
        BY <4>1 DEF Credit
    <3>3. SumFunction(credits)' = SumFunction(credits) - Credit(a) + 0
      <4>1. \A b \in Address \ {a} : spAddress2SPProfile'[b] = spAddress2SPProfile[b]
        BY <2>2, UnregisterFacts
      <4>2. 0 \in Nat
        OBVIOUS
      <4> QED
        BY <3>2, <4>1, <4>2, OneCredit
    <3>4. Owed'
      BY <2>0, <3>1, <3>3, CreditFacts DEF Send
    <3> QED
      BY <3>1, <3>4, SendConserves
  <2>3. ASSUME NEW a \in Address, archonSPWithdrawal(a) PROVE (Owed /\ Conserved)'
    <3> DEFINE sp == spAddress2SPProfile[a]
    <3>1. /\ sp.earnings \in Nat /\ sp.stake \in Nat /\ sp.slash \in Nat
          /\ sp.earnings > sp.slash /\ Send(a, sp.earnings - sp.slash)
      BY <2>3 DEF archonSPWithdrawal, TypeOK, Profile
    <3>2. PICK paid \in Nat : paid <= sp.earnings /\ Send(a, paid)
      <4> HIDE DEF sp
      <4>1. sp.earnings - sp.slash \in Nat /\ sp.earnings - sp.slash <= sp.earnings
        BY <3>1
      <4> QED
        BY <3>1, <4>1
    <3>3. Credit(a)' = sp.stake
      <4>1. spAddress2SPProfile'[a] = [sp EXCEPT !.earnings = 0] /\ sp \in Profile
        BY <2>3 DEF archonSPWithdrawal, TypeOK
      <4> QED
        BY <3>1, <4>1 DEF Credit, Profile
    <3>4. \A b \in Address \ {a} : spAddress2SPProfile'[b] = spAddress2SPProfile[b]
      BY <2>3 DEF archonSPWithdrawal, TypeOK
    <3>5. SumFunction(credits)' = SumFunction(credits) - Credit(a) + sp.stake
      <4> HIDE DEF sp
      <4> QED
        BY <3>1, <3>3, <3>4, OneCredit
    <3>6. Credit(a) = sp.stake + sp.earnings
      BY DEF Credit
    <3>7. Owed'
      <4> HIDE DEF sp
      <4> QED
        BY <2>0, <3>1, <3>2, <3>5, <3>6 DEF Send
    <3> QED
      BY <3>2, <3>7, SendConserves
  <2>4. ASSUME NEW a \in Address, NEW size \in ShardSize, NEW m \in Months, NEW list \in Lists,
               NEW v \in Amounts, proposeUpload(a, size, m, list, v)
        PROVE  (Owed /\ Conserved)'
    <3>1. v \in Nat /\ Receive(a, v)
      BY <2>4, NumberAssumption DEF proposeUpload
    <3>2. SumFunction(credits)' \in Int /\ SumFunction(credits)' <= SumFunction(credits) + v
      BY <2>4, SharesBooked
    <3>3. Owed'
      BY <2>0, <3>1, <3>2 DEF Receive
    <3> QED
      BY <3>1, <3>3, ReceiveConserves
  <2>5. ASSUME NEW a \in Address, NEW v \in Amounts, NEW c \in Address, slashStake(a, v, c)
        PROVE  (Owed /\ Conserved)'
    <3>1. \A b \in Address : Credit(b)' = Credit(b)
      <4>1. spAddress2SPProfile[c] \in Profile /\ v \in Nat
        BY NumberAssumption DEF TypeOK
      <4>2. /\ Slashed(spAddress2SPProfile[c], v).stake = spAddress2SPProfile[c].stake
            /\ Slashed(spAddress2SPProfile[c], v).earnings = spAddress2SPProfile[c].earnings
        BY <4>1, SlashedFacts
      <4> QED
        BY <2>5, <4>2 DEF slashStake, TypeOK, Credit
    <3>2. credits' = credits
      BY <3>1 DEF credits
    <3> QED
      BY <2>5, <3>2 DEF slashStake, ether, Conserved
  <2>6. ASSUME NEW a \in Address, NEW v \in Amounts, Deposit(a, v) PROVE (Owed /\ Conserved)'
    <3>1. v \in Nat /\ Receive(a, v) /\ credits' = credits
      BY <2>6, NumberAssumption DEF Deposit, profiles, credits, Credit
    <3>2. Owed'
      BY <2>0, <3>1 DEF Receive
    <3> QED
      BY <3>1, <3>2, ReceiveConserves
  <2>7. CASE UNCHANGED <<profiles, ether>>
    BY <2>7 DEF profiles, ether, credits, Credit, Conserved
  <2> QED
    BY <2>1, <2>2, <2>3, <2>4, <2>5, <2>6, <2>7, NextCases
<1> HIDE DEF Owed
<1> QED
  BY <1>1, <1>2, <1>3, TypeCorrect, ProvidersBackedAlways, PTL DEF Spec
=============================================================================
