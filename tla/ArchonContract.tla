--------------------------- MODULE ArchonContract ---------------------------
(***************************************************************************)
(* The Ethereum contract (smartContracts/eth/Archon.sol and Ownable.sol).  *)
(*                                                                         *)
(* An action is one transaction that does not revert; a transaction that   *)
(* fails a require, a SafeMath check or the final transfer changes         *)
(* nothing.  The two functions that send Ether change the contract's state *)
(* first and send last, so that a call the receiver makes from its         *)
(* fallback is one more transaction after this one, which Next allows.     *)
(*                                                                         *)
(* The bytes32 params of a provider are the record of the fields packed    *)
(* into them.  The zero address and the zero bytes32 are None.             *)
(***************************************************************************)
EXTENDS Integers, Sequences, FiniteSets, Functions

CONSTANTS
    Address,     \* accounts, storage providers and users alike
    Deployer,    \* the account that deployed the contract
    NodeID,
    Username,
    Params,      \* params an SP may register with
    Scalars,     \* values updateCostScalar is called with
    Amounts,     \* amounts of Ether a caller sends, and slashed amounts
    ShardSize,   \* shard sizes in bytes
    Months,      \* storage times
    MaxSPs,      \* bound: length of the address[] passed to proposeUpload
    MegaByte,    \* 1000000 in the code
    RegisterCost,\* 1e11 in the code
    InitialScalar, \* the first registerCostScalar, 10000 in the code
    Wealth,      \* Ether each account holds at the start
    MaxUint,     \* 2^256 - 1 in the code
    None

ScalarName == {"registerCostScalar", "slaLevelScalar", "availableStorageScalar",
               "bandwidthScalar", "minAskPriceScalar"}

ASSUME AddressAssumption ==
    Deployer \in Address /\ None \notin Address /\ IsFiniteSet(Address)
ASSUME NameAssumption == None \notin NodeID /\ None \notin Username
ASSUME ParamsAssumption ==
    /\ Params \subseteq [slaLevel: Nat, availableStorage: Nat, bandwidth: Nat, minAskPrice: Nat]
    /\ None \notin Params
ASSUME NumberAssumption ==
    /\ Scalars \subseteq Nat
    /\ Amounts \subseteq Nat
    /\ ShardSize \subseteq Nat
    /\ Months \subseteq Nat
    /\ MaxSPs \in Nat
    /\ MegaByte \in Nat \ {0}
    /\ RegisterCost \in Nat
    /\ InitialScalar \in Nat
    /\ Wealth \in Nat
    /\ MaxUint \in Nat

VARIABLES
    spAddress2SPProfile,
    nodeID2Address,
    username2UserProfile, \* the address in it: the key is only stored
    address2Username,
    scalars,
    owner,
    balance,              \* of the contract
    wallet                \* of each account

profiles == <<spAddress2SPProfile, nodeID2Address>>
names == <<username2UserProfile, address2Username>>
admin == <<scalars, owner>>
ether == <<balance, wallet>>
vars == <<profiles, names, admin, ether>>

NoProfile ==
    [params |-> None, nodeID |-> None, stake |-> 0, earnings |-> 0,
     slash |-> 0, remainingStorage |-> 0, inGoodStanding |-> FALSE]

(* The constructor.                                                        *)
Init ==
    /\ spAddress2SPProfile = [a \in Address |-> NoProfile]
    /\ nodeID2Address = [n \in NodeID |-> None]
    /\ username2UserProfile = [n \in Username |-> None]
    /\ address2Username = [a \in Address |-> None]
    /\ scalars = [s \in ScalarName |-> IF s = "registerCostScalar" THEN InitialScalar ELSE 0]
    /\ owner = Deployer
    /\ balance = 0
    /\ wallet = [a \in Address |-> Wealth]

(* msg.value, and msg.sender.call.value(amount)("")                        *)
Receive(a, amount) ==
    /\ wallet[a] >= amount
    /\ wallet' = [wallet EXCEPT ![a] = @ - amount]
    /\ balance' = balance + amount

Send(a, amount) ==
    /\ balance >= amount
    /\ wallet' = [wallet EXCEPT ![a] = @ + amount]
    /\ balance' = balance - amount

-----------------------------------------------------------------------------
(* Storage providers                                                       *)

computeTotalCost(params) ==
    RegisterCost * scalars["registerCostScalar"]
    + params.slaLevel * scalars["slaLevelScalar"]
    + params.availableStorage * scalars["availableStorageScalar"]
    + params.bandwidth * scalars["bandwidthScalar"]
    + params.minAskPrice * scalars["minAskPriceScalar"]

registerSP(sender, params, nodeID, value) ==
    /\ spAddress2SPProfile[sender].params = None
    /\ nodeID2Address[nodeID] = None
    /\ computeTotalCost(params) <= MaxUint
    /\ value >= computeTotalCost(params)
    /\ Receive(sender, value)
    /\ spAddress2SPProfile' = [spAddress2SPProfile EXCEPT ![sender] =
            [params |-> params, nodeID |-> nodeID, stake |-> value, earnings |-> 0,
             slash |-> 0, remainingStorage |-> params.availableStorage,
             inGoodStanding |-> TRUE]]
    /\ nodeID2Address' = [nodeID2Address EXCEPT ![nodeID] = sender]
    /\ UNCHANGED <<names, admin>>

(* Bug: a provider that leaves keeps its standing.                         *)
ForgottenButStanding(sp) ==
    [NoProfile EXCEPT !.remainingStorage = sp.remainingStorage,
                      !.inGoodStanding = sp.inGoodStanding]

(* What unregisterSP leaves of a profile.                                  *)
Forgotten(sp) == [NoProfile EXCEPT !.remainingStorage = sp.remainingStorage]

(* Bug: the node ID still leads to the provider that left.                 *)
KeptNodeIDs(nodeID) == nodeID2Address

Released(nodeID) == [n \in NodeID |-> IF n = nodeID THEN None ELSE nodeID2Address[n]]

(* In bad standing earnings are forfeited; in good standing SafeMath       *)
(* reverts when the slash exceeds everything the SP has.                   *)
unregisterSP(sender) ==
    LET sp == spAddress2SPProfile[sender]
        settlement == IF sp.inGoodStanding
                      THEN sp.earnings + sp.stake - sp.slash
                      ELSE IF sp.stake > sp.slash THEN sp.stake - sp.slash ELSE 0
    IN  /\ settlement >= 0
        /\ nodeID2Address' = Released(sp.nodeID)
        /\ spAddress2SPProfile' = [spAddress2SPProfile EXCEPT ![sender] = Forgotten(sp)]
        /\ Send(sender, settlement)
        /\ UNCHANGED <<names, admin>>

(* Bug: earnings are paid out without the test that they exceed the slash. *)
archonSPWithdrawalUnchecked(sender) ==
    LET sp == spAddress2SPProfile[sender]
    IN  /\ sp.inGoodStanding
        /\ spAddress2SPProfile' = [spAddress2SPProfile EXCEPT ![sender].earnings = 0]
        /\ Send(sender, sp.earnings - sp.slash)
        /\ UNCHANGED <<nodeID2Address, names, admin>>

(* A call with nothing to pay out sends 0 and changes nothing.  The slash  *)
(* is neither paid off nor reset.                                          *)
archonSPWithdrawal(sender) ==
    LET sp == spAddress2SPProfile[sender]
    IN  /\ sp.inGoodStanding
        /\ sp.stake + sp.earnings >= sp.slash
        /\ sp.earnings > sp.slash
        /\ spAddress2SPProfile' = [spAddress2SPProfile EXCEPT ![sender].earnings = 0]
        /\ Send(sender, sp.earnings - sp.slash)
        /\ UNCHANGED <<nodeID2Address, names, admin>>

Slashed(sp, amountToSlash) ==
    LET slash == sp.slash + amountToSlash
        totalCreditOfSP == sp.stake + sp.earnings
        creditAfterSlash == IF totalCreditOfSP > slash THEN totalCreditOfSP - slash ELSE 0
    IN  IF sp.stake > creditAfterSlash
        THEN [sp EXCEPT !.slash = slash, !.inGoodStanding = FALSE]
        ELSE [sp EXCEPT !.slash = slash]

slashStake(sender, amountToSlash, spToSlash) ==
    LET sp == spAddress2SPProfile[spToSlash]
    IN  /\ sender = owner
        /\ sp.slash + amountToSlash <= MaxUint
        /\ spAddress2SPProfile' =
             [spAddress2SPProfile EXCEPT ![spToSlash] = Slashed(sp, amountToSlash)]
        /\ UNCHANGED <<nodeID2Address, names, admin, ether>>

-----------------------------------------------------------------------------
(* Users and uploads                                                       *)

(* Bug: a name is not reserved for the address that registered it first.   *)
registerUsernameTaken(sender, username) ==
    /\ address2Username[sender] = None
    /\ username2UserProfile' = [username2UserProfile EXCEPT ![username] = sender]
    /\ address2Username' = [address2Username EXCEPT ![sender] = username]
    /\ UNCHANGED <<profiles, admin, ether>>

registerUsername(sender, username) ==
    /\ address2Username[sender] = None
    /\ username2UserProfile[username] = None
    /\ username2UserProfile' = [username2UserProfile EXCEPT ![username] = sender]
    /\ address2Username' = [address2Username EXCEPT ![sender] = username]
    /\ UNCHANGED <<profiles, admin, ether>>

(* An address may occur in the array more than once.                       *)
Lists == UNION {[1 .. n -> Address] : n \in 1 .. MaxSPs}

(* Bug: the division rounds up.                                            *)
ShareRoundedUp(value, archonSPs) == (value + Len(archonSPs) - 1) \div Len(archonSPs)

Share(value, archonSPs) == value \div Len(archonSPs)
Occurrences(a, archonSPs) == Cardinality({i \in DOMAIN archonSPs : archonSPs[i] = a})

minAskPrice(a) ==
    IF spAddress2SPProfile[a].params = None THEN 0 ELSE spAddress2SPProfile[a].params.minAskPrice

(* Bug: a shard below a megabyte costs nothing.                            *)
WholeMegaBytes(shardsize) == shardsize \div MegaByte

shardsizeInMegaBytes(shardsize) ==
    IF shardsize < MegaByte THEN 1 ELSE shardsize \div MegaByte

(* At least the largest of the providers' prices: at least each of them.   *)
MeetsMaxMinAskPrice(share, shardsize, months, archonSPs) ==
    \A i \in DOMAIN archonSPs :
        share >= shardsizeInMegaBytes(shardsize) * minAskPrice(archonSPs[i]) * months

(* The loop checks and books one entry of the array after the other; an SP *)
(* that occurs k times gives k times the storage for k shares.             *)
proposeUpload(sender, shardsize, months, archonSPs, value) ==
    LET share == Share(value, archonSPs)
        Uses(a) == Occurrences(a, archonSPs)
    IN  /\ address2Username[sender] # None
        /\ Len(archonSPs) > 0
        /\ share * Len(archonSPs) >= value
        /\ shardsize > 0
        /\ months > 0
        /\ MeetsMaxMinAskPrice(share, shardsize, months, archonSPs)
        /\ \A i \in DOMAIN archonSPs :
             LET sp == spAddress2SPProfile[archonSPs[i]]
             IN  /\ sp.inGoodStanding
                 /\ sp.remainingStorage >= shardsize * Uses(archonSPs[i])
        /\ spAddress2SPProfile' = [a \in Address |->
             [spAddress2SPProfile[a] EXCEPT
                !.remainingStorage = @ - shardsize * Uses(a),
                !.earnings = @ + share * Uses(a)]]
        /\ Receive(sender, value)
        /\ UNCHANGED <<nodeID2Address, names, admin>>

-----------------------------------------------------------------------------
(* The fallback function, the owner and the specification                  *)

Deposit(sender, value) == Receive(sender, value) /\ UNCHANGED <<profiles, names, admin>>

updateCostScalar(sender, scalarName, newScalarValue) ==
    /\ sender = owner
    /\ scalars' = [scalars EXCEPT ![scalarName] = newScalarValue]
    /\ UNCHANGED <<profiles, names, owner, ether>>

transferOwnership(sender, newOwner) ==
    /\ sender = owner
    /\ owner' = newOwner
    /\ UNCHANGED <<profiles, names, scalars, ether>>

(* The owner becomes the zero address, whose transactions nobody can sign. *)
renounceOwnership(sender) == transferOwnership(sender, None)

SPTransaction(a) ==
    \/ \E p \in Params, n \in NodeID, v \in Amounts : registerSP(a, p, n, v)
    \/ unregisterSP(a)
    \/ archonSPWithdrawal(a)

UserTransaction(a) ==
    \/ \E n \in Username : registerUsername(a, n)
    \/ \E size \in ShardSize, m \in Months, list \in Lists, v \in Amounts :
         proposeUpload(a, size, m, list, v)
    \/ \E v \in Amounts : Deposit(a, v)

OwnerTransaction(a) ==
    \/ \E v \in Amounts, sp \in Address : slashStake(a, v, sp)
    \/ \E name \in ScalarName, v \in Scalars : updateCostScalar(a, name, v)
    \/ \E new \in Address : transferOwnership(a, new)
    \/ renounceOwnership(a)

Next == \E a \in Address : SPTransaction(a) \/ UserTransaction(a) \/ OwnerTransaction(a)

Spec == Init /\ [][Next]_vars

-----------------------------------------------------------------------------
(* Safety                                                                  *)

Profile ==
    [params: Params \cup {None}, nodeID: NodeID \cup {None}, stake: Nat, earnings: Nat,
     slash: Nat, remainingStorage: Nat, inGoodStanding: BOOLEAN]

TypeOK ==
    /\ spAddress2SPProfile \in [Address -> Profile]
    /\ nodeID2Address \in [NodeID -> Address \cup {None}]
    /\ username2UserProfile \in [Username -> Address \cup {None}]
    /\ address2Username \in [Address -> Username \cup {None}]
    /\ scalars \in [ScalarName -> Nat]
    /\ owner \in Address \cup {None}
    /\ balance \in Nat
    /\ wallet \in [Address -> Nat]

(* A node ID leads to the provider that registered it and to no other, and *)
(* every registered provider is reachable by its node ID: the two maps of  *)
(* registerSP and unregisterSP never drift apart.                          *)
NodeIDsMatch ==
    \A a \in Address, n \in NodeID :
        nodeID2Address[n] = a <=> spAddress2SPProfile[a].nodeID = n

(* One name per address and one address per name.                          *)
UsernamesMatch ==
    \A a \in Address, n \in Username :
        username2UserProfile[n] = a <=> address2Username[a] = n

(* Only a registered provider is in good standing, and no provider has     *)
(* sold more storage than it pledged.                                      *)
Backed(sp) ==
    /\ sp.params = None <=> sp.nodeID = None
    /\ sp.params = None => ~sp.inGoodStanding /\ sp.stake = 0 /\ sp.earnings = 0
    /\ sp.params # None => sp.remainingStorage <= sp.params.availableStorage

ProvidersBacked == \A a \in Address : Backed(spAddress2SPProfile[a])

(* The contract can always pay every provider its stake and its earnings,  *)
(* and no Ether appears or vanishes.                                       *)
Solvent ==
    /\ balance >= SumFunction([a \in Address |->
            spAddress2SPProfile[a].stake + spAddress2SPProfile[a].earnings])
    /\ balance + SumFunction(wallet) = Wealth * Cardinality(Address)

(* Whoever is in bad standing stays there until it registers anew, and     *)
(* earns nothing meanwhile.                                                *)
Sticks ==
    \A a \in Address :
        LET old == spAddress2SPProfile[a]
            new == spAddress2SPProfile'[a]
        IN  ~old.inGoodStanding /\ old.params # None =>
                ~new.inGoodStanding /\ new.earnings <= old.earnings

BadStandingSticks == [][Sticks]_vars

(* Rounding never costs a provider more than half its price: whatever      *)
(* storage a transaction takes from it, alone or listed with others, once  *)
(* or more than once, pays it at least half its own price per byte.        *)
PaidFor ==
    \A a \in Address :
        LET old == spAddress2SPProfile[a]
            new == spAddress2SPProfile'[a]
            taken == old.remainingStorage - new.remainingStorage
            paid == new.earnings - old.earnings
        IN  old.params # None /\ new.params # None /\ taken > 0 =>
                2 * MegaByte * paid >= minAskPrice(a) * taken

StorageIsPaidFor == [][PaidFor]_vars
=============================================================================
