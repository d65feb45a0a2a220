------------------------------ MODULE NeoUpload ------------------------------
(***************************************************************************)
(* An upload paid on Neo, from the start of archon to the verdict of the   *)
(* storage providers (cmd/archon/main.go, account/neoaccount.go,           *)
(* blockchainAPI/neo): the user name, the minting of CGAS, one proposal    *)
(* per provider, none of them waited for, and GetUploadTxInfo, by which a  *)
(* provider decides.  Meanwhile providers register anew and other runs of  *)
(* the same account spend the same CGAS.                                   *)
(*                                                                         *)
(* The rounds of posts that carry the shards are in UploadClient.          *)
(***************************************************************************)
EXTENDS NeoRpc, FiniteSets, FiniteSetsExt, Functions

CONSTANTS
    Run,          \* the times archon is started
    Of,           \* the account in the wallet of a run
    Spread,       \* the providers a run uploads to, at most
    Provider,
    Id,           \* node ID of a provider
    MBytes,       \* sizes of a shard, in MBytes rounded up
    Mint,         \* amounts the user may have minted
    Typed,        \* the user name given to a run that asks for one
    Wealth,       \* CGAS of an account at the start
    FirstAsk,     \* minimal ask of a provider at the start, None if not registered
    MaxChanges    \* bound: registrations and departures of providers

ASSUME NeoUploadAssumption ==
    /\ Of \in [Run -> Account]
    /\ Spread \in [Run -> Nat \ {0}]
    /\ Provider \subseteq Account /\ IsFiniteSet(Provider)
    /\ \A r \in Run : Of[r] \notin Provider
    /\ Id \in Injection(Provider, NodeId)
    /\ MBytes \subseteq Nat
    /\ Mint \subseteq Nat
    /\ Typed \in [Run -> UserName]
    /\ Wealth \in Nat
    /\ FirstAsk \in [Provider -> MinAsk \cup {None}]
    /\ None \notin MinAsk
    /\ MaxChanges \in Nat
    /\ None \notin Run
    /\ None \notin [run: Run, sp: Provider, payment: Nat, mBytes: Nat]

Place == {"new", "register", "registering", "confirm", "mint", "propose", "posted", "failed"}

VARIABLES
    client,     \* the runs
    verdict,    \* of a provider on the upload of a run: "none", "accepted", "refused"
    changes

vars == <<contract, txs, client, verdict, changes>>

(* name: the user name it shows.  sps: the providers still to propose to.  *)
(* listed: all of them, with the ask in the list.  mBytes, payment: per    *)
(* provider.  sent: the transaction of a provider.  funded, history: the   *)
(* balance was enough without minting.                                     *)
Idle == [pc |-> "new", name |-> None, sps |-> {}, listed |-> <<>>, mBytes |-> 0,
         payment |-> 0, sent |-> <<>>, awaited |-> 0, funded |-> FALSE]

Old == {p \in Provider : FirstAsk[p] # None}

Init ==
    /\ addressToProfile =
        [a \in Account |->
            IF a \in Old THEN [minAsk |-> FirstAsk[a], nodeId |-> Id[a]] ELSE None]
    /\ nodeIdToAddr =
        [n \in NodeId |-> IF \E p \in Old : Id[p] = n
                          THEN CHOOSE p \in Old : Id[p] = n ELSE None]
    /\ addressToUserName = [a \in Account |-> None]
    /\ cgas = [a \in Account |-> IF a \in Provider THEN 0 ELSE Wealth]
    /\ txs = <<>>
    /\ client = [r \in Run |-> Idle]
    /\ verdict = [r \in Run |-> [p \in Provider |-> "none"]]
    /\ changes = 0

-----------------------------------------------------------------------------
(* The chain, and the providers' registrations                             *)

Block(i) == IncludeInBlock(i) /\ UNCHANGED <<client, verdict, changes>>

ProviderChanges(p) ==
    /\ changes < MaxChanges
    /\ changes' = changes + 1
    /\ \/ \E ask \in MinAsk : RegisterStorageProvider(p, [minAsk |-> ask, nodeId |-> Id[p]])
       \/ addressToProfile[p] # None /\ UnregisterStorageProvider(p, Id[p])
    /\ UNCHANGED <<txs, client, verdict>>

-----------------------------------------------------------------------------
(* The client                                                              *)

At(r, l) == client[r].pc = l
Becomes(r, c) == client' = [client EXCEPT ![r] = c]
Moves(r, l) == Becomes(r, [client[r] EXCEPT !.pc = l])
Fails(r) == Becomes(r, [Idle EXCEPT !.pc = "failed"])

(* getAccount: an error of GetUserName reads as having no name.            *)
GetUserName(r) ==
    /\ At(r, "new")
    /\ \E name \in Reads(addressToUserName[Of[r]], None) :
        Becomes(r, [client[r] EXCEPT !.pc = IF name = None THEN "register" ELSE "confirm",
                                     !.name = name])
    /\ UNCHANGED <<contract, txs, verdict, changes>>

RegisterName(r) ==
    /\ At(r, "register")
    /\ \/ /\ Send(Tx(r, "registerUserName", Of[r], Typed[r]))
          /\ Becomes(r, [client[r] EXCEPT !.pc = "registering", !.name = Typed[r],
                                          !.awaited = Len(txs) + 1])
       \/ Fails(r) /\ UNCHANGED txs
    /\ UNCHANGED <<contract, verdict, changes>>

(* Bug: no time-out.                                                       *)
AwaitForever(r) ==
    /\ At(r, "registering")
    /\ Succeeded(client[r].awaited)
    /\ Becomes(r, [client[r] EXCEPT !.pc = "confirm", !.awaited = 0])
    /\ UNCHANGED <<contract, txs, verdict, changes>>

AwaitName(r) ==
    /\ At(r, "registering")
    /\ \/ /\ Succeeded(client[r].awaited)
          /\ Becomes(r, [client[r] EXCEPT !.pc = "confirm", !.awaited = 0])
       \/ Fails(r)
    /\ UNCHANGED <<contract, txs, verdict, changes>>

(* Bug: the payment is that of the cheapest provider.                      *)
LowestAsk(listed) == Min({listed[p] : p \in DOMAIN listed})

HighestAsk(listed) == Max({listed[p] : p \in DOMAIN listed})

(* What a seed answers when asked for the storage providers.               *)
GetSPProfiles == {p \in Provider : addressToProfile[p] # None}

(* The list of providers and their asks as the chain has it now; they may  *)
(* change from here on.  Every provider is paid the same, by the highest   *)
(* ask.  The user may refuse the price.                                    *)
confirmPrice(r) ==
    /\ At(r, "confirm")
    /\ \/ \E P \in (SUBSET GetSPProfiles) \ {{}}, m \in MBytes :
            /\ Cardinality(P) <= Spread[r]
            /\ LET listed == [p \in P |-> addressToProfile[p].minAsk] IN
               Becomes(r, [client[r] EXCEPT !.pc = "mint", !.sps = P, !.listed = listed,
                                            !.mBytes = m, !.payment = HighestAsk(listed) * m])
       \/ Fails(r)
    /\ UNCHANGED <<contract, txs, verdict, changes>>

Total(c) == c.payment * Cardinality(c.sps)

(* Bug: the balance is compared with the payment of one provider.          *)
EnoughForOne(r) == cgas[Of[r]] >= client[r].payment

Enough(r) == cgas[Of[r]] >= Total(client[r])

(* The mint is not waited for, nor its amount compared with what is needed.*)
MintCGasIfNeeded(r) ==
    /\ At(r, "mint")
    /\ \/ /\ Enough(r)
          /\ Becomes(r, [client[r] EXCEPT !.pc = "propose", !.funded = TRUE])
          /\ UNCHANGED txs
       \/ /\ ~ Enough(r)
          /\ \E amount \in Mint : Send(Tx(r, "mintTokens", Of[r], amount))
          /\ Moves(r, "propose")
       \/ Fails(r) /\ UNCHANGED txs
    /\ UNCHANGED <<contract, verdict, changes>>

(* If a proposal cannot be sent, the ones sent before are forgotten.  What *)
(* it says of the file besides is left out.                                *)
ProposeUploadTo(r, p) ==
    LET c == client[r] IN
    /\ At(r, "propose")
    /\ p \in c.sps
    /\ \/ /\ Send(Tx(r, "proposeUpload", Of[r],
                     [run |-> r, sp |-> p, payment |-> c.payment, mBytes |-> c.mBytes]))
          /\ Becomes(r, [c EXCEPT !.sps = @ \ {p},
                                  !.sent = [q \in DOMAIN @ \cup {p} |->
                                              IF q = p THEN Len(txs) + 1 ELSE @[q]]])
       \/ Fails(r) /\ UNCHANGED txs
    /\ UNCHANGED <<contract, verdict, changes>>

Post(r) ==
    /\ At(r, "propose")
    /\ client[r].sps = {}
    /\ Moves(r, "posted")
    /\ UNCHANGED <<contract, txs, verdict, changes>>

-----------------------------------------------------------------------------
(* A provider that was posted a shard with its transaction's number        *)

GetUploadTxInfo(r, p) ==
    /\ At(r, "posted")
    /\ p \in DOMAIN client[r].sent
    /\ verdict[r][p] = "none"
    /\ \E v \in {"accepted", "refused"} :
        /\ v = "accepted" => Succeeded(client[r].sent[p])
        /\ verdict' = [verdict EXCEPT ![r][p] = v]
    /\ UNCHANGED <<contract, txs, client, changes>>

ClientStep(r) ==
    \/ GetUserName(r)
    \/ RegisterName(r)
    \/ AwaitName(r)
    \/ confirmPrice(r)
    \/ MintCGasIfNeeded(r)
    \/ \E p \in Provider : ProposeUploadTo(r, p)
    \/ Post(r)

Next ==
    \/ \E r \in Run : ClientStep(r) \/ \E p \in Provider : GetUploadTxInfo(r, p)
    \/ \E p \in Provider : ProviderChanges(p)
    \/ \E i \in DOMAIN txs : Block(i)

Spec == Init /\ [][Next]_vars

(* Every wait of client and provider has a time-out; nothing is assumed of *)
(* the chain.                                                              *)
FairSpec ==
    /\ Spec
    /\ \A r \in Run : WF_vars(ClientStep(r))
    /\ \A r \in Run, p \in Provider : WF_vars(GetUploadTxInfo(r, p))

-----------------------------------------------------------------------------
(* Properties                                                              *)

TypeOK ==
    /\ ContractTypeOK
    /\ changes \in 0..MaxChanges
    /\ verdict \in [Run -> [Provider -> {"none", "accepted", "refused"}]]
    /\ \A r \in Run :
        /\ client[r].pc \in Place
        /\ client[r].name \in UserName \cup {None}
        /\ client[r].sps \subseteq DOMAIN client[r].listed
        /\ DOMAIN client[r].sent \cap client[r].sps = {}
        /\ client[r].payment \in Nat
    /\ \A i \in DOMAIN txs : txs[i].state \in TxState

(* The name a run shows is the account's name on the chain, although       *)
(* another run may be registering another one and a failed read looks like *)
(* having none.                                                            *)
ShownNameIsRegistered ==
    \A r \in Run : client[r].pc \in {"confirm", "mint", "propose", "posted"} =>
        client[r].name # None /\ client[r].name = addressToUserName[Of[r]]

Accepted(p) == {r \in Run : verdict[r][p] = "accepted"}

(* What a provider was paid covers every upload it accepted, each by at    *)
(* least the ask the client was shown times the MBytes.                    *)
AcceptedIsPaid ==
    \A p \in Provider :
        cgas[p] >= SumFunction([r \in Accepted(p) |-> client[r].listed[p] * client[r].mBytes])

Proposal(i) == txs[i].state = "pending" /\ txs[i].method = "proposeUpload"
SpentBy(r) ==
    \E i \in DOMAIN txs :
        /\ txs[i].state = "halt"
        /\ txs[i].notification # None
        /\ txs[i].notification.run = r

(* A client that had the CGAS when it looked has its proposals refused     *)
(* only for what the provider did after, because another run spent the     *)
(* CGAS, or for an empty file.                                             *)
FundedIsAccepted ==
    [][\A i \in DOMAIN txs :
        Proposal(i) /\ txs'[i].state = "error" /\ client[txs[i].run].funded =>
        LET c == client[txs[i].run]
            profile == addressToProfile[txs[i].arg.sp]
        IN
        \/ profile = None
        \/ profile.minAsk # c.listed[txs[i].arg.sp]
        \/ \E q \in Run \ {txs[i].run} : Of[q] = Of[txs[i].run] /\ SpentBy(q)
        \/ c.mBytes = 0]_vars

(* Every upload is decided.                                                *)
RunEnds ==
    <>[](\A r \in Run :
            \/ At(r, "failed")
            \/ At(r, "posted") /\ \A p \in DOMAIN client[r].sent : verdict[r][p] # "none")

(* "Verify that all min asks are satisfied" (CloudStorage.cs:194, minAsk   *)
(* in Gas per MByte): what the contract lets pass pays the provider's ask  *)
(* for the MBytes.                                                         *)
AsksSatisfied ==
    [][\A i \in DOMAIN txs :
        Proposal(i) /\ txs'[i].state = "halt" =>
            txs[i].arg.payment >= addressToProfile[txs[i].arg.sp].minAsk * txs[i].arg.mBytes]_vars

=============================================================================
