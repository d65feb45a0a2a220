---------------------------- MODULE Registration ----------------------------
(***************************************************************************)
(* Registration of storage providers: what archonSP does at its start      *)
(* (storageProvider/account.go, interfaces/iaccount.go,                    *)
(* account/ethaccount.go, account/neoaccount.go) against both contracts.   *)
(*                                                                         *)
(* Runs of the program may follow each other or overlap on one account,    *)
(* and be killed at any point: their transactions live on.  On Neo a call  *)
(* waits for its own transaction; on Ethereum the program polls whether    *)
(* the account is registered, which says nothing of whose transaction did  *)
(* it.                                                                     *)
(*                                                                         *)
(* A node ID comes from the account's private key by way of GetSeed, a     *)
(* variable-length integer read from a hash: every second hash yields a    *)
(* one-byte seed, so accounts may share a node ID.                         *)
(*                                                                         *)
(* The Ethereum contract is ArchonContract; here it is the set of          *)
(* registered addresses.                                                   *)
(***************************************************************************)
EXTENDS NeoRpc, Functions

CONSTANTS
    Run,        \* the times the program is started
    Accounts,   \* of a run: its Ethereum account, then its Neo account
    Eth,        \* the Ethereum accounts
    Id,         \* node ID of an account
    Ask,        \* minimal ask in the registration.txt of a run
    Old,        \* accounts registered long ago
    OldAsk      \* the minimal ask in their profiles

ASSUME RegistrationAssumption ==
    /\ Accounts \in [Run -> Seq(Account)]
    /\ \A p \in Run : Accounts[p] # <<>> /\ IsInjective(Accounts[p])
    /\ Eth \subseteq Account
    /\ Id \in [Account -> NodeId]
    /\ Ask \in [Run -> MinAsk]
    /\ Old \subseteq Account
    /\ \A a, b \in Old : Id[a] = Id[b] => a = b
    /\ OldAsk \in MinAsk

Command == {"run", "register", "unregister"}
Place == {"new", "off", "check", "unregister", "unregistering", "register", "registering",
          "serving", "unregistered"}

VARIABLES
    ethRegistered,
    proc        \* the runs: their state while and after they run

chain == <<contract, ethRegistered, txs>>
vars == <<chain, proc>>

(* pos: the account it is at.  awaited: the transaction it waits for.      *)
(* History: misread, the Ethereum accounts it read as unregistered         *)
(* although they were registered; disturbed, those that a transaction of   *)
(* another run touched during this one.                                    *)
Begun(c) ==
    [pc |-> "check", cmd |-> c, pos |-> 1, awaited |-> 0,
     misread |-> {}, disturbed |-> {}]
Down(how) == [Begun("run") EXCEPT !.pc = how]

Acc(p) == Accounts[p][proc[p].pos]
IsDown(p) == proc[p].pc \in {"new", "off", "unregistered"}

Init ==
    /\ ethRegistered = Old \cap Eth
    /\ addressToProfile = [a \in Account |-> IF a \in Old \ Eth
                                            THEN [minAsk |-> OldAsk, nodeId |-> Id[a]]
                                            ELSE None]
    /\ nodeIdToAddr = [x \in NodeId |-> IF \E a \in Old \ Eth : Id[a] = x
                                        THEN CHOOSE a \in Old \ Eth : Id[a] = x
                                        ELSE None]
    /\ addressToUserName = [a \in Account |-> None]
    /\ cgas = [a \in Account |-> 0]
    /\ txs = <<>>
    /\ proc = [p \in Run |-> Down("new")]

-----------------------------------------------------------------------------
(* The chains                                                              *)

Registered(a) == IF a \in Eth THEN a \in ethRegistered ELSE addressToProfile[a] # None

(* Runs that are under way when somebody else's transaction takes effect.  *)
Disturb(t) ==
    proc' = [p \in Run |->
                IF IsDown(p) \/ t.run = p \/ t.from \notin Range(Accounts[p])
                THEN proc[p] ELSE [proc[p] EXCEPT !.disturbed = @ \cup {t.from}]]

NeoBlock(i) ==
    /\ txs[i].state = "pending"
    /\ txs[i].from \notin Eth
    /\ IncludeInBlock(i)
    /\ Disturb(txs[i])
    /\ UNCHANGED ethRegistered

(* An account's transactions take effect in the order of their nonces.  A  *)
(* registration is also reverted when the stake is too low.                *)
EthBlock(i) ==
    LET a == txs[i].from
        registers == txs[i].method = "registerStorageProvider"
    IN
    /\ txs[i].state = "pending"
    /\ a \in Eth
    /\ \A j \in 1..(i-1) : txs[j].state = "pending" => txs[j].from # a
    /\ \/ /\ registers
          /\ \A b \in ethRegistered : Id[b] # Id[a]
          /\ ethRegistered' = ethRegistered \cup {a}
          /\ Settles(i, "halt")
       \/ /\ ~ registers
          /\ a \in ethRegistered
          /\ ethRegistered' = ethRegistered \ {a}
          /\ Settles(i, "halt")
       \/ /\ registers \/ a \notin ethRegistered
          /\ Settles(i, "error")
          /\ UNCHANGED ethRegistered
    /\ Disturb(txs[i])
    /\ UNCHANGED contract

-----------------------------------------------------------------------------
(* Steps of a run                                                          *)

Becomes(p, q) == proc' = [proc EXCEPT ![p] = q]

Start(p, c) ==
    /\ proc[p].pc = "new"
    /\ Becomes(p, Begun(c))
    /\ UNCHANGED chain

(* Bug: one account too many.                                              *)
OneTooMany(q, p) ==
    IF q.pos > Len(Accounts[p]) THEN [q EXCEPT !.pc = "serving"]
    ELSE [q EXCEPT !.pc = "check", !.pos = @ + 1]

(* SetupAccountAndDht goes from the Ethereum to the Neo account and then   *)
(* serves.                                                                 *)
NextAccount(q, p) ==
    IF q.pos = Len(Accounts[p]) THEN [q EXCEPT !.pc = "serving"]
    ELSE [q EXCEPT !.pc = "check", !.pos = @ + 1]

(* IsSpRegistered answers FALSE also when the RPC fails.  The run after it *)
(* asked and was given the answer.                                         *)
Asked(p, answer) ==
    IF answer = Registered(Acc(p)) \/ Acc(p) \notin Eth THEN proc[p]
    ELSE [proc[p] EXCEPT !.misread = @ \cup {Acc(p)}]
Answers(p) == Reads(Registered(Acc(p)), FALSE)

(* unregister exits at the first account.  Without a command, without the  *)
(* batch flag and not registered, the user may decline.                    *)
checkRegistration(p) ==
    /\ proc[p].pc = "check"
    /\ \E isRegistered \in Answers(p) :
        LET q == Asked(p, isRegistered)
            c == q.cmd
        IN
        \/ isRegistered /\ c # "run" /\ Becomes(p, [q EXCEPT !.pc = "unregister"])
        \/ isRegistered /\ c = "run" /\ Becomes(p, NextAccount(q, p))
        \/ ~ isRegistered /\ c = "unregister" /\ Becomes(p, Down("unregistered"))
        \/ ~ isRegistered /\ c # "unregister" /\ Becomes(p, [q EXCEPT !.pc = "register"])
        \/ ~ isRegistered /\ c = "run" /\ Becomes(p, Down("off"))
    /\ UNCHANGED chain

Calls(p, t, waiting) ==
    \/ Send(t) /\ Becomes(p, [proc[p] EXCEPT !.pc = waiting, !.awaited = Len(txs) + 1])
    \/ UNCHANGED txs /\ Becomes(p, Down("off"))

(* On Neo the node ID is first read from the profile on the chain: without *)
(* one there is nothing to send.                                           *)
UnregisterSP(p) ==
    LET a == Acc(p) IN
    /\ proc[p].pc = "unregister"
    /\ \/ /\ a \in Eth \/ Registered(a)
          /\ Calls(p, Tx(p, "unregisterStorageProvider", a, Id[a]), "unregistering")
       \/ Becomes(p, Down("off")) /\ UNCHANGED txs
    /\ UNCHANGED <<contract, ethRegistered>>

RegisterSP(p) ==
    LET profile == [minAsk |-> Ask[p], nodeId |-> Id[Acc(p)]] IN
    /\ proc[p].pc = "register"
    /\ Calls(p, Tx(p, "registerStorageProvider", Acc(p), profile), "registering")
    /\ UNCHANGED <<contract, ethRegistered>>

(* The end of the wait for the account to become registered or not: on Neo *)
(* by the log of the transaction, on Ethereum by the poll of               *)
(* WaitForRegUnreg, in which an RPC error reads as unregistered.           *)
Completed(p, isReg) ==
    IF Acc(p) \in Eth THEN isReg \in Answers(p) ELSE Succeeded(proc[p].awaited)

WaitUnregister(p) ==
    /\ proc[p].pc = "unregistering"
    /\ Completed(p, FALSE)
    /\ Becomes(p, IF proc[p].cmd = "unregister" THEN Down("unregistered")
                  ELSE [Asked(p, FALSE) EXCEPT !.pc = "register"])
    /\ UNCHANGED chain

WaitRegister(p) ==
    /\ proc[p].pc = "registering"
    /\ Completed(p, TRUE)
    /\ Becomes(p, NextAccount(Asked(p, TRUE), p))
    /\ UNCHANGED chain

(* Time-out, failing RPC, or an error in the log.                          *)
WaitFails(p) ==
    /\ proc[p].pc \in {"unregistering", "registering"}
    /\ Becomes(p, Down("off"))
    /\ UNCHANGED chain

Kill(p) ==
    /\ ~ IsDown(p)
    /\ Becomes(p, Down("off"))
    /\ UNCHANGED chain

RunStep(p) ==
    \/ checkRegistration(p)
    \/ UnregisterSP(p)
    \/ RegisterSP(p)
    \/ WaitUnregister(p)
    \/ WaitRegister(p)
    \/ WaitFails(p)

Next ==
    \/ \E p \in Run :
        \/ \E c \in Command : Start(p, c)
        \/ RunStep(p)
        \/ Kill(p)
    \/ \E i \in DOMAIN txs : NeoBlock(i) \/ EthBlock(i)

Spec == Init /\ [][Next]_vars

-----------------------------------------------------------------------------
(* Properties                                                              *)

TypeOK ==
    /\ ContractTypeOK
    /\ ethRegistered \subseteq Eth
    /\ \A p \in Run :
        /\ proc[p].pc \in Place
        /\ proc[p].cmd \in Command
        /\ proc[p].pos \in DOMAIN Accounts[p]
        /\ proc[p].awaited \in 0..Len(txs)
        /\ proc[p].misread \subseteq Account
        /\ proc[p].disturbed \subseteq Account
    /\ \A i \in DOMAIN txs : txs[i].state \in TxState
    /\ \A i \in DOMAIN txs : txs[i].state = "pending" =>
        /\ txs[i].run \in Run
        /\ txs[i].from \in Account
        /\ \/ /\ txs[i].method = "registerStorageProvider"
              /\ txs[i].arg \in Profile
           \/ /\ txs[i].method = "unregisterStorageProvider"
              /\ txs[i].arg \in NodeId

(* The two maps of the Neo contract tell one story although the contract   *)
(* deletes their entries independently and transactions of dead runs come  *)
(* late: a node ID leads to a provider that is registered with it, and,    *)
(* unless two accounts share a node ID, a provider is found by its own.    *)
NodeIdsOfRegistered ==
    /\ \A n \in NodeId : nodeIdToAddr[n] # None =>
        /\ addressToProfile[nodeIdToAddr[n]] # None
        /\ Id[nodeIdToAddr[n]] = n
    /\ \A a \in Account :
        addressToProfile[a] # None /\ (\A b \in Account \ Eth : Id[b] = Id[a] => b = a)
            => nodeIdToAddr[Id[a]] = a

(* A provider that serves is registered on every chain it has a wallet     *)
(* for, on Neo with the ask of its registration file when it was told to   *)
(* register, unless a transaction of another run came in between or, on    *)
(* Ethereum, a failing RPC let a wait end early.                           *)
ServingIsRegistered ==
    \A p \in Run : proc[p].pc = "serving" =>
        \A a \in Range(Accounts[p]) \ proc[p].disturbed :
            /\ a \in Eth /\ a \notin proc[p].misread => Registered(a)
            /\ a \notin Eth => Registered(a)
            /\ a \notin Eth /\ proc[p].cmd = "register" => addressToProfile[a].minAsk = Ask[p]

(* When the wait of an unregistration on Neo ends well, the account is not *)
(* registered, whatever became of transactions of earlier runs, unless one *)
(* took effect in between.                                                 *)
UnregisteredIsGone ==
    [][\A p \in Run :
        proc[p].pc = "unregistering" /\ proc'[p].pc \in {"unregistered", "register"}
        /\ Acc(p) \notin Eth \cup proc[p].disturbed
            => ~ Registered(Acc(p))]_vars

=============================================================================
