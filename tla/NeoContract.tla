---------------------------- MODULE NeoContract ----------------------------
(***************************************************************************)
(* The Neo contract (smartContracts/neo/CloudStorage.cs) with the part of  *)
(* the CGAS contract it calls.                                             *)
(*                                                                         *)
(* A transaction is recorded whether or not the contract accepts it: a     *)
(* refusal raises the event "error" and changes nothing.  Each method is   *)
(* an action, and the condition of its refusals an operator beside it.     *)
(* The caller signs with the account it names, as every caller in this     *)
(* repository does, so CheckWitness holds.                                 *)
(*                                                                         *)
(* A profile string is a record; its pledge and country are left out, as   *)
(* the contract reads the minimal ask only.                                *)
(***************************************************************************)
EXTENDS Integers, FiniteSets

CONSTANTS
    Account,    \* addresses, of storage providers and of users
    NodeId,
    UserName,
    MinAsk,     \* minimal asks, CGAS per MByte
    None        \* an absent storage entry

Profile == [minAsk: MinAsk, nodeId: NodeId]

ASSUME NeoAssumption ==
    /\ IsFiniteSet(Account)    \* script hashes of 160 bits
    /\ MinAsk \subseteq Nat
    /\ None \notin Account
    /\ None \notin UserName
    /\ None \notin Profile

VARIABLES
    addressToProfile,
    nodeIdToAddr,
    addressToUserName,
    cgas            \* balances in the CGAS contract

spMaps == <<addressToProfile, nodeIdToAddr>>
contract == <<spMaps, addressToUserName, cgas>>

ContractTypeOK ==
    /\ addressToProfile \in [Account -> Profile \cup {None}]
    /\ nodeIdToAddr \in [NodeId -> Account \cup {None}]
    /\ addressToUserName \in [Account -> UserName \cup {None}]
    /\ cgas \in [Account -> Nat]

-----------------------------------------------------------------------------
(* Storage providers                                                       *)

RegisterRefused(address, profile) ==
    \/ addressToProfile[address] # None          \* Already registered
    \/ nodeIdToAddr[profile.nodeId] # None       \* Node id already exists

RegisterStorageProvider(address, profile) ==
    /\ ~ RegisterRefused(address, profile)
    /\ addressToProfile' = [addressToProfile EXCEPT ![address] = profile]
    /\ nodeIdToAddr' = [nodeIdToAddr EXCEPT ![profile.nodeId] = address]
    /\ UNCHANGED <<addressToUserName, cgas>>

(* Bug: the node ID is not given up.                                       *)
UnregisterProfileOnly(address, nodeId) ==
    /\ addressToProfile' = [addressToProfile EXCEPT ![address] = None]
    /\ UNCHANGED <<nodeIdToAddr, addressToUserName, cgas>>

(* Both entries are deleted, whoever the second one leads to.              *)
UnregisterStorageProvider(address, nodeId) ==
    /\ addressToProfile' = [addressToProfile EXCEPT ![address] = None]
    /\ nodeIdToAddr' = [nodeIdToAddr EXCEPT ![nodeId] = None]
    /\ UNCHANGED <<addressToUserName, cgas>>

-----------------------------------------------------------------------------
(* User names                                                              *)

NameRefused(address, userName) == addressToUserName[address] \notin {None, userName}

RegisterUserName(address, userName) ==
    /\ ~ NameRefused(address, userName)
    /\ addressToUserName' = [addressToUserName EXCEPT ![address] = userName]
    /\ UNCHANGED <<spMaps, cgas>>

-----------------------------------------------------------------------------
(* CGAS and uploads                                                        *)

mintTokens(address, amount) ==
    /\ cgas' = [cgas EXCEPT ![address] = @ + amount]
    /\ UNCHANGED <<spMaps, addressToUserName>>

transferCGAS(from, to, amount) ==
    cgas' = [a \in Account |->
                cgas[a] + (IF a = to THEN amount ELSE 0) - (IF a = from THEN amount ELSE 0)]

(* Bug: the balance is not looked at.                                      *)
RefusedForAsk(uploader, sp, payment, mBytes) ==
    \/ mBytes <= 0
    \/ addressToUserName[uploader] = None
    \/ addressToProfile[sp] # None => addressToProfile[sp].minAsk > payment * mBytes

ProposeRefused(uploader, sp, payment, mBytes) ==
    \/ payment < 0
    \/ mBytes <= 0
    \/ addressToUserName[uploader] = None        \* Uploader not registered
    \/ cgas[uploader] < payment
    \/ addressToProfile[sp] # None =>            \* SP not registered, or asks for more
            addressToProfile[sp].minAsk > payment * mBytes

ProposeUpload(uploader, sp, payment, mBytes) ==
    /\ ~ ProposeRefused(uploader, sp, payment, mBytes)
    /\ transferCGAS(uploader, sp, payment)
    /\ UNCHANGED <<spMaps, addressToUserName>>

=============================================================================
