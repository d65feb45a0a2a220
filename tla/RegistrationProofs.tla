------------------------- MODULE RegistrationProofs -------------------------
(* Theorems about Registration, for every value of its constants.          *)
EXTENDS Registration, TLAPS

-----------------------------------------------------------------------------
(* Types                                                                   *)

(* Runs, as records.                                                       *)
ProcType ==
    [pc: Place, cmd: Command, pos: Int, awaited: Nat,
     misread: SUBSET Account, disturbed: SUBSET Account]

(* A transaction that may still take effect registers or unregisters the   *)
(* account that signed it, with the node ID of this account.               *)
PendingOK(t) ==
    /\ t.run \in Run
    /\ t.from \in Account
    /\ \/ /\ t.method = "registerStorageProvider"
          /\ t.arg \in Profile
          /\ t.arg.nodeId = Id[t.from]
       \/ /\ t.method = "unregisterStorageProvider"
          /\ t.arg = Id[t.from]

TxType ==
    [run: Run, method: {"registerStorageProvider", "unregisterStorageProvider"},
     from: Account, arg: Profile \cup NodeId, state: {"pending"}]
    \cup [state: {"halt", "error"}, notification: {None}]

TxsInv ==
    /\ txs \in Seq(TxType)
    /\ \A i \in 1 .. Len(txs) : txs[i].state = "pending" => PendingOK(txs[i])

ProcInv ==
    /\ proc \in [Run -> ProcType]
    /\ \A p \in Run :
        /\ proc[p].pos \in 1 .. Len(Accounts[p])
        /\ proc[p].awaited \in 0 .. Len(txs)

TypeInv ==
    /\ ContractTypeOK
    /\ ethRegistered \subseteq Eth
    /\ TxsInv
    /\ ProcInv

(* What the two maps of the Neo contract say of each other.                *)
MapsInv ==
    /\ \A a \in Account : addressToProfile[a] # None => addressToProfile[a].nodeId = Id[a]
    /\ NodeIdsOfRegistered

LEMMA AccountFacts ==
    ASSUME NEW p \in Run
    PROVE  /\ Accounts[p] \in Seq(Account)
           /\ Len(Accounts[p]) \in Nat \ {0}
           /\ \A k \in 1 .. Len(Accounts[p]) : Accounts[p][k] \in Account
<1>1. Accounts[p] \in Seq(Account) /\ Accounts[p] # <<>>
  BY RegistrationAssumption
<1> QED
  BY <1>1

LEMMA BegunFacts ==
    ASSUME NEW p \in Run, NEW c \in Command, NEW how \in Place
    PROVE  /\ Begun(c) \in ProcType
           /\ Begun(c).pos \in 1 .. Len(Accounts[p])
           /\ Begun(c).awaited = 0
           /\ Down(how) \in ProcType
           /\ Down(how).pos \in 1 .. Len(Accounts[p])
           /\ Down(how).awaited = 0
           /\ Down(how).pc = how
BY AccountFacts DEF Begun, Down, ProcType, Place, Command

(* A run takes one step and the others none.                               *)
LEMMA BecomesFacts ==
    ASSUME TypeInv, NEW p \in Run, NEW q \in ProcType, Becomes(p, q),
           q.pos \in 1 .. Len(Accounts[p]), q.awaited \in 0 .. Len(txs'),
           Len(txs') \in Nat, Len(txs) <= Len(txs')
    PROVE  ProcInv'
<1>1. proc' = [proc EXCEPT ![p] = q]
  BY DEF Becomes
<1>2. proc' \in [Run -> ProcType]
  BY <1>1 DEF TypeInv, ProcInv
<1>3. ASSUME NEW r \in Run
      PROVE  proc'[r].pos \in 1 .. Len(Accounts[r]) /\ proc'[r].awaited \in 0 .. Len(txs')
  <2>1. proc[r].pos \in 1 .. Len(Accounts[r]) /\ proc[r].awaited \in 0 .. Len(txs)
    BY DEF TypeInv, ProcInv
  <2>2. Len(txs) \in Nat
    BY DEF TypeInv, TxsInv
  <2> QED
    BY <1>1, <2>1, <2>2 DEF TypeInv, ProcInv
<1> QED
  BY <1>2, <1>3 DEF ProcInv

LEMMA TxsFacts ==
    ASSUME TypeInv
    PROVE  /\ Len(txs) \in Nat
           /\ DOMAIN txs = 1 .. Len(txs)
           /\ \A i \in 1 .. Len(txs) : txs[i] \in TxType /\ txs[i].state \in TxState
BY DEF TypeInv, TxsInv, TxType, TxState

(* A transaction is sent.                                                  *)
LEMMA SendFacts ==
    ASSUME TypeInv, NEW t \in TxType, PendingOK(t), Send(t)
    PROVE  TxsInv' /\ Len(txs') = Len(txs) + 1
<1>1. txs' = Append(txs, t) /\ txs \in Seq(TxType)
  BY DEF Send, TypeInv, TxsInv
<1>2. txs' \in Seq(TxType) /\ Len(txs') = Len(txs) + 1
  BY <1>1
<1>3. \A i \in 1 .. Len(txs') : txs'[i] = IF i <= Len(txs) THEN txs[i] ELSE t
  BY <1>1
<1>4. \A i \in 1 .. Len(txs') : txs'[i].state = "pending" => PendingOK(txs'[i])
  BY <1>1, <1>2, <1>3 DEF TypeInv, TxsInv
<1>5. \A i \in 1 .. Len(txs') : (txs[i].state = "pending" => PendingOK(txs[i]))'
  BY <1>4 DEF PendingOK
<1> QED
  BY <1>2, <1>5 DEF TxsInv

(* A transaction is settled.                                               *)
LEMMA SettlesFacts ==
    ASSUME TypeInv, NEW i \in 1 .. Len(txs), txs[i].state = "pending",
           NEW outcome \in {"halt", "error"}, Settles(i, outcome)
    PROVE  /\ TxsInv'
           /\ Len(txs') = Len(txs)
           /\ txs'[i].state = outcome
           /\ \A j \in 1 .. Len(txs) : j # i => txs'[j] = txs[j]
<1>1. Log(txs[i], outcome) = [state |-> outcome, notification |-> None]
  BY DEF Log, TypeInv, TxsInv, PendingOK
<1>2. Log(txs[i], outcome) \in TxType
  BY <1>1 DEF TxType
<1> DEFINE l == Log(txs[i], outcome)
<1>3. txs' = [txs EXCEPT ![i] = l] /\ txs \in Seq(TxType)
  BY DEF Settles, TypeInv, TxsInv
<1>4. l \in TxType /\ l.state = outcome
  BY <1>1, <1>2
<1> HIDE DEF l
<1>5. txs' \in Seq(TxType) /\ Len(txs') = Len(txs)
  BY <1>3, <1>4
<1>6. \A j \in 1 .. Len(txs) : txs'[j] = IF j = i THEN l ELSE txs[j]
  BY <1>3
<1>7. \A j \in 1 .. Len(txs') : (txs[j].state = "pending" => PendingOK(txs[j]))'
  BY <1>4, <1>5, <1>6 DEF TypeInv, TxsInv, PendingOK
<1> QED
  BY <1>4, <1>5, <1>6, <1>7 DEF TxsInv

-----------------------------------------------------------------------------
(* Blocks                                                                  *)

LEMMA DisturbFacts ==
    ASSUME TypeInv, NEW i \in 1 .. Len(txs), txs[i].state = "pending", Disturb(txs[i]),
           Len(txs') = Len(txs)
    PROVE  /\ ProcInv'
           /\ \A p \in Run :
                /\ proc'[p].pc = proc[p].pc /\ proc'[p].cmd = proc[p].cmd
                /\ proc'[p].pos = proc[p].pos /\ proc'[p].awaited = proc[p].awaited
                /\ proc'[p].disturbed =
                     IF IsDown(p) \/ txs[i].run = p \/ txs[i].from \notin Range(Accounts[p])
                     THEN proc[p].disturbed ELSE proc[p].disturbed \cup {txs[i].from}
<1>1. PendingOK(txs[i])
  BY DEF TypeInv, TxsInv
<1>2. proc \in [Run -> ProcType]
  BY DEF TypeInv, ProcInv
<1>3. \A p \in Run :
        [proc[p] EXCEPT !.disturbed = @ \cup {txs[i].from}] \in ProcType
  BY <1>1, <1>2 DEF PendingOK, ProcType
<1>4. proc' \in [Run -> ProcType]
  BY <1>2, <1>3 DEF Disturb
<1>5. \A p \in Run :
        /\ proc'[p].pc = proc[p].pc /\ proc'[p].cmd = proc[p].cmd
        /\ proc'[p].pos = proc[p].pos /\ proc'[p].awaited = proc[p].awaited
        /\ proc'[p].disturbed =
             IF IsDown(p) \/ txs[i].run = p \/ txs[i].from \notin Range(Accounts[p])
             THEN proc[p].disturbed ELSE proc[p].disturbed \cup {txs[i].from}
  BY <1>2 DEF Disturb, ProcType
<1> QED
  BY <1>4, <1>5 DEF TypeInv, ProcInv

LEMMA RegisterMaps ==
    ASSUME ContractTypeOK, MapsInv, NEW a \in Account \ Eth, NEW profile \in Profile,
           profile.nodeId = Id[a], RegisterStorageProvider(a, profile)
    PROVE  /\ ContractTypeOK' /\ MapsInv'
           /\ \A b \in Account : b # a => addressToProfile'[b] = addressToProfile[b]
<1>1. profile.nodeId \in NodeId /\ Id \in [Account -> NodeId] /\ profile # None
  BY NeoAssumption, RegistrationAssumption DEF Profile
<1>2. /\ addressToProfile[a] = None
      /\ nodeIdToAddr[Id[a]] = None
      /\ addressToProfile' = [addressToProfile EXCEPT ![a] = profile]
      /\ nodeIdToAddr' = [nodeIdToAddr EXCEPT ![Id[a]] = a]
      /\ UNCHANGED <<addressToUserName, cgas>>
  BY DEF RegisterStorageProvider, RegisterRefused
<1>3. ContractTypeOK'
  BY <1>1, <1>2 DEF ContractTypeOK
<1>4. a # None
  BY NeoAssumption
<1>5. MapsInv'
  BY <1>1, <1>2, <1>4 DEF ContractTypeOK, MapsInv, NodeIdsOfRegistered
<1> QED
  BY <1>2, <1>3, <1>5 DEF ContractTypeOK

LEMMA UnregisterMaps ==
    ASSUME ContractTypeOK, MapsInv, NEW a \in Account \ Eth,
           UnregisterStorageProvider(a, Id[a])
    PROVE  /\ ContractTypeOK' /\ MapsInv'
           /\ addressToProfile'[a] = None
           /\ \A b \in Account : b # a => addressToProfile'[b] = addressToProfile[b]
<1>1. Id \in [Account -> NodeId]
  BY RegistrationAssumption
<1>2. /\ addressToProfile' = [addressToProfile EXCEPT ![a] = None]
      /\ nodeIdToAddr' = [nodeIdToAddr EXCEPT ![Id[a]] = None]
      /\ UNCHANGED <<addressToUserName, cgas>>
  BY DEF UnregisterStorageProvider
<1>3. ContractTypeOK'
  BY <1>1, <1>2 DEF ContractTypeOK
<1>4. MapsInv'
  BY <1>1, <1>2 DEF ContractTypeOK, MapsInv, NodeIdsOfRegistered
<1> QED
  BY <1>2, <1>3, <1>4 DEF ContractTypeOK

(* What a block does on Neo.                                               *)
LEMMA NeoBlockFacts ==
    ASSUME TypeInv, MapsInv, NEW i \in 1 .. Len(txs), NeoBlock(i)
    PROVE  /\ TypeInv' /\ MapsInv'
           /\ \A b \in Account : b # txs[i].from => addressToProfile'[b] = addressToProfile[b]
           /\ txs[i].method = "unregisterStorageProvider"
                => addressToProfile'[txs[i].from] = None
<1> DEFINE t == txs[i]
           a == t.from
<1>1. t.state = "pending" /\ PendingOK(t) /\ a \in Account \ Eth
  BY DEF NeoBlock, TypeInv, TxsInv, PendingOK
<1>2. ContractTypeOK
  BY DEF TypeInv
<1>3. UNCHANGED ethRegistered /\ IncludeInBlock(i) /\ Disturb(t)
  BY DEF NeoBlock
<1>4. PICK outcome \in {"halt", "error"} : Settles(i, outcome)
  BY <1>3 DEF IncludeInBlock
<1>5. TxsInv' /\ Len(txs') = Len(txs)
  BY <1>1, <1>4, SettlesFacts
<1>6. ProcInv'
  BY <1>1, <1>3, <1>5, DisturbFacts
<1> SUFFICES /\ ContractTypeOK' /\ MapsInv'
             /\ \A b \in Account : b # a => addressToProfile'[b] = addressToProfile[b]
             /\ t.method = "unregisterStorageProvider" => addressToProfile'[a] = None
  BY <1>3, <1>5, <1>6 DEF TypeInv
<1>7. CASE ~ Refused(t) /\ Invoke(t)
  <2>1. CASE t.method = "registerStorageProvider"
    <3>1. RegisterStorageProvider(a, t.arg) /\ t.arg \in Profile /\ t.arg.nodeId = Id[a]
      BY <1>1, <1>7, <2>1 DEF Invoke, PendingOK
    <3> QED
      BY <1>1, <1>2, <2>1, <3>1, RegisterMaps
  <2>2. CASE t.method = "unregisterStorageProvider"
    <3>1. UnregisterStorageProvider(a, Id[a])
      BY <1>1, <1>7, <2>2 DEF Invoke, PendingOK
    <3> QED
      BY <1>1, <1>2, <3>1, UnregisterMaps
  <2> QED
    BY <1>1, <2>1, <2>2 DEF PendingOK
<1>8. CASE Refused(t) /\ UNCHANGED contract
  <2>1. t.method # "unregisterStorageProvider"
    BY <1>8 DEF Refused
  <2>2. ContractTypeOK' /\ MapsInv' /\ addressToProfile' = addressToProfile
    BY <1>2, <1>8 DEF contract, spMaps, ContractTypeOK, MapsInv, NodeIdsOfRegistered
  <2> QED
    BY <2>1, <2>2
<1> QED
  BY <1>3, <1>7, <1>8 DEF IncludeInBlock

(* What a block does on Ethereum.                                          *)
LEMMA EthBlockFacts ==
    ASSUME TypeInv, MapsInv, NEW i \in 1 .. Len(txs), EthBlock(i)
    PROVE  TypeInv' /\ MapsInv' /\ UNCHANGED addressToProfile
<1>1. txs[i].state = "pending" /\ txs[i].from \in Eth /\ Disturb(txs[i]) /\ UNCHANGED contract
  BY DEF EthBlock
<1>2. PICK outcome \in {"halt", "error"} : Settles(i, outcome)
  BY DEF EthBlock
<1>3. TxsInv' /\ Len(txs') = Len(txs)
  BY <1>1, <1>2, SettlesFacts
<1>4. ProcInv'
  BY <1>1, <1>3, DisturbFacts
<1>5. ethRegistered' \subseteq Eth
  BY <1>1 DEF EthBlock, TypeInv
<1>6. ContractTypeOK' /\ MapsInv' /\ UNCHANGED addressToProfile
  BY <1>1 DEF contract, spMaps, ContractTypeOK, MapsInv, NodeIdsOfRegistered, TypeInv
<1> QED
  BY <1>3, <1>4, <1>5, <1>6 DEF TypeInv

-----------------------------------------------------------------------------
(* The invariant                                                           *)

LEMMA InvInit ==
    Init => TypeInv /\ MapsInv
<1> SUFFICES ASSUME Init PROVE TypeInv /\ MapsInv
  OBVIOUS
<1>1. /\ OldAsk \in MinAsk /\ MinAsk \subseteq Nat
      /\ Id \in [Account -> NodeId]
      /\ Old \subseteq Account
      /\ \A a, b \in Old : Id[a] = Id[b] => a = b
  BY RegistrationAssumption, NeoAssumption
<1>2. \A a \in Account : addressToProfile[a] =
          IF a \in Old \ Eth THEN [minAsk |-> OldAsk, nodeId |-> Id[a]] ELSE None
  BY DEF Init
<1>3. addressToProfile \in [Account -> Profile \cup {None}]
  BY <1>1 DEF Init, Profile
<1>4. ASSUME NEW n \in NodeId
      PROVE  /\ nodeIdToAddr[n] # None => /\ nodeIdToAddr[n] \in Old \ Eth
                                          /\ Id[nodeIdToAddr[n]] = n
             /\ \A a \in Old \ Eth : Id[a] = n => nodeIdToAddr[n] = a
  <2>1. CASE \E a \in Old \ Eth : Id[a] = n
    <3>1. PICK a \in Old \ Eth : Id[a] = n
      BY <2>1
    <3>2. nodeIdToAddr[n] = a
      BY <1>1, <3>1 DEF Init
    <3> QED
      BY <1>1, <3>1, <3>2
  <2>2. CASE ~ \E a \in Old \ Eth : Id[a] = n
    BY <2>2 DEF Init
  <2> QED
    BY <2>1, <2>2
<1>5. nodeIdToAddr \in [NodeId -> Account \cup {None}]
  BY <1>1, <1>4 DEF Init
<1>6. ContractTypeOK
  BY <1>3, <1>5 DEF Init, ContractTypeOK
<1>7. \A a \in Old \ Eth : addressToProfile[a] # None /\ addressToProfile[a].nodeId = Id[a]
  <2>1. \A a \in Account : [minAsk |-> OldAsk, nodeId |-> Id[a]] \in Profile
    BY <1>1 DEF Profile
  <2> QED
    <3>1. None \notin Profile
      BY NeoAssumption
    <3> TAKE a \in Old \ Eth
    <3>2. addressToProfile[a] = [minAsk |-> OldAsk, nodeId |-> Id[a]]
      BY <1>1, <1>2
    <3> QED
      BY <1>1, <2>1, <3>1, <3>2
<1>8. MapsInv
  BY <1>1, <1>2, <1>4, <1>7 DEF MapsInv, NodeIdsOfRegistered
<1>9. TxsInv
  BY DEF Init, TxsInv
<1>10. ProcInv
  <2>1. Len(txs) = 0
    BY DEF Init
  <2>2. proc = [p \in Run |-> Down("new")] /\ "new" \in Place /\ "run" \in Command
    BY DEF Init, Place, Command
  <2> QED
    BY <2>1, <2>2, BegunFacts DEF ProcInv
<1> QED
  BY <1>6, <1>8, <1>9, <1>10 DEF Init, TypeInv

(* The bookkeeping of a run leaves its type alone.                         *)
LEMMA AskedFacts ==
    ASSUME TypeInv, NEW p \in Run, NEW answer
    PROVE  /\ Asked(p, answer) \in ProcType
           /\ Acc(p) \in Account
           /\ Asked(p, answer).pc = proc[p].pc
           /\ Asked(p, answer).cmd = proc[p].cmd
           /\ Asked(p, answer).pos = proc[p].pos
           /\ Asked(p, answer).awaited = proc[p].awaited
           /\ Asked(p, answer).disturbed = proc[p].disturbed
<1>1. proc[p] \in ProcType /\ proc[p].pos \in 1 .. Len(Accounts[p])
  BY DEF TypeInv, ProcInv
<1>2. Acc(p) \in Account
  BY <1>1, AccountFacts DEF Acc
<1> QED
  BY <1>1, <1>2 DEF Asked, ProcType

LEMMA NextAccountFacts ==
    ASSUME NEW p \in Run, NEW q \in ProcType, q.pos \in 1 .. Len(Accounts[p])
    PROVE  /\ NextAccount(q, p) \in ProcType
           /\ NextAccount(q, p).pos \in 1 .. Len(Accounts[p])
           /\ NextAccount(q, p).awaited = q.awaited
           /\ NextAccount(q, p).pc \in {"serving", "check"}
<1>1. Len(Accounts[p]) \in Nat
  BY AccountFacts
<1>2. CASE q.pos = Len(Accounts[p])
  <2>1. NextAccount(q, p) = [q EXCEPT !.pc = "serving"]
    BY <1>2 DEF NextAccount
  <2> QED
    BY <1>1, <1>2, <2>1 DEF ProcType, Place
<1>3. CASE q.pos # Len(Accounts[p])
  <2>1. NextAccount(q, p) = [q EXCEPT !.pc = "check", !.pos = q.pos + 1]
    BY <1>3 DEF NextAccount
  <2>2. q.pos + 1 \in 1 .. Len(Accounts[p])
    BY <1>1, <1>3
  <2>3. q.pos + 1 \in Int /\ "check" \in Place
    BY <2>2 DEF Place
  <2> QED
    BY <2>1, <2>2, <2>3 DEF ProcType
<1> QED
  BY <1>2, <1>3

(* A run that may be the state of p after a step.                          *)
Sound(p, q) ==
    /\ q \in ProcType
    /\ q.pos \in 1 .. Len(Accounts[p])
    /\ q.awaited \in 0 .. Len(txs)

LEMMA SoundFacts ==
    ASSUME TypeInv, NEW p \in Run
    PROVE  /\ \A how \in {"unregistered", "off"} : Sound(p, Down(how))
           /\ \A answer \in BOOLEAN : \A place \in {"unregister", "register"} :
                Sound(p, [Asked(p, answer) EXCEPT !.pc = place])
           /\ \A answer \in BOOLEAN : Sound(p, NextAccount(Asked(p, answer), p))
<1>1. Len(txs) \in Nat
  BY TxsFacts
<1>2. ASSUME NEW how \in {"unregistered", "off"}
      PROVE  Sound(p, Down(how))
  BY <1>1, BegunFacts DEF Place, Command, Sound
<1>3. Sound(p, proc[p])
  BY DEF TypeInv, ProcInv, Sound
<1>4. ASSUME NEW answer \in BOOLEAN
      PROVE  Sound(p, Asked(p, answer))
  BY <1>3, AskedFacts DEF Sound
<1>5. ASSUME NEW answer \in BOOLEAN, NEW place \in {"unregister", "register"}
      PROVE  Sound(p, [Asked(p, answer) EXCEPT !.pc = place])
  <2>1. place \in Place
    BY DEF Place
  <2> QED
    BY <1>4, <2>1 DEF ProcType, Sound
<1>6. ASSUME NEW answer \in BOOLEAN
      PROVE  Sound(p, NextAccount(Asked(p, answer), p))
  BY <1>4, NextAccountFacts DEF Sound
<1> QED
  BY <1>2, <1>5, <1>6

LEMMA QuietFacts ==
    ASSUME TypeInv, MapsInv, NEW p \in Run, NEW q, Sound(p, q), Becomes(p, q), UNCHANGED chain
    PROVE  TypeInv'
<1>1. ProcInv'
  BY TxsFacts, BecomesFacts DEF Sound, chain
<1>2. TxsInv'
  BY DEF TypeInv, TxsInv, PendingOK, chain
<1> QED
  BY <1>1, <1>2 DEF TypeInv, ContractTypeOK, contract, spMaps, chain

LEMMA CallFacts ==
    ASSUME TypeInv, MapsInv, NEW p \in Run, NEW t \in TxType, PendingOK(t),
           NEW waiting \in {"unregistering", "registering"}, Calls(p, t, waiting),
           UNCHANGED <<contract, ethRegistered>>
    PROVE  TypeInv'
<1>1. CASE UNCHANGED txs /\ Becomes(p, Down("off"))
  <2> DEFINE q == Down("off")
  <2>1. Sound(p, q) /\ Becomes(p, q) /\ UNCHANGED chain
    BY <1>1, SoundFacts DEF chain
  <2> HIDE DEF q
  <2> QED
    BY <2>1, QuietFacts
<1>2. CASE Send(t) /\ Becomes(p, [proc[p] EXCEPT !.pc = waiting, !.awaited = Len(txs) + 1])
  <2> DEFINE q == [proc[p] EXCEPT !.pc = waiting, !.awaited = Len(txs) + 1]
  <2>1. TxsInv' /\ Len(txs') = Len(txs) + 1
    BY <1>2, SendFacts
  <2>2. q \in ProcType /\ q.pos \in 1 .. Len(Accounts[p]) /\ q.awaited = Len(txs) + 1
    <3>1. waiting \in Place /\ Len(txs) + 1 \in Nat
      BY TxsFacts DEF Place
    <3> QED
      BY <3>1 DEF ProcType, TypeInv, ProcInv
  <2>3. ProcInv'
    <3>1. Becomes(p, q)
      BY <1>2
    <3> HIDE DEF q
    <3> QED
      BY TxsFacts, <2>1, <2>2, <3>1, BecomesFacts
  <2> QED
    BY <2>1, <2>3 DEF TypeInv, ContractTypeOK, contract, spMaps
<1> QED
  BY <1>1, <1>2 DEF Calls

(* A step of a run leaves the contracts alone, and what it sends is in     *)
(* order.                                                                  *)
LEMMA RunFacts ==
    ASSUME TypeInv, MapsInv, NEW p \in Run, RunStep(p) \/ Kill(p)
    PROVE  TypeInv' /\ MapsInv' /\ UNCHANGED <<contract, ethRegistered>>
<1>1. UNCHANGED <<contract, ethRegistered>>
  BY DEF RunStep, Kill, checkRegistration, UnregisterSP, RegisterSP, WaitUnregister,
         WaitRegister, WaitFails, chain
<1>2. MapsInv'
  BY <1>1 DEF contract, spMaps, MapsInv, NodeIdsOfRegistered
<1>3. CASE UnregisterSP(p)
  <2> DEFINE t == Tx(p, "unregisterStorageProvider", Acc(p), Id[Acc(p)])
  <2>1. t \in TxType /\ PendingOK(t)
    BY AskedFacts, RegistrationAssumption DEF Tx, TxType, PendingOK
  <2> HIDE DEF t
  <2>2. CASE Calls(p, t, "unregistering")
    BY <1>1, <1>2, <2>1, <2>2, CallFacts
  <2>3. CASE Becomes(p, Down("off")) /\ UNCHANGED txs
    <3> DEFINE q == Down("off")
    <3>1. Sound(p, q) /\ Becomes(p, q) /\ UNCHANGED chain
      BY <1>1, <2>3, SoundFacts DEF chain
    <3> HIDE DEF q
    <3> QED
      BY <3>1, QuietFacts, <1>1, <1>2
  <2> QED
    BY <1>1, <1>2, <1>3, <2>2, <2>3 DEF UnregisterSP, t
<1>4. CASE RegisterSP(p)
  <2> DEFINE profile == [minAsk |-> Ask[p], nodeId |-> Id[Acc(p)]]
             t == Tx(p, "registerStorageProvider", Acc(p), profile)
  <2>1. profile \in Profile /\ profile.nodeId = Id[Acc(p)]
    BY AskedFacts, RegistrationAssumption DEF Profile
  <2>2. t \in TxType /\ PendingOK(t)
    <3> HIDE DEF profile
    <3> QED
      BY <2>1, AskedFacts DEF Tx, TxType, PendingOK
  <2>3. Calls(p, t, "registering")
    BY <1>4 DEF RegisterSP
  <2> HIDE DEF t
  <2> QED
    BY <1>1, <1>2, <2>2, <2>3, CallFacts
<1>5. ASSUME ~ UnregisterSP(p), ~ RegisterSP(p)
      PROVE  \E q : Sound(p, q) /\ Becomes(p, q) /\ UNCHANGED chain
  <2>1. CASE checkRegistration(p)
    <3>1. PICK isReg \in Answers(p) :
            \/ Becomes(p, [Asked(p, isReg) EXCEPT !.pc = "unregister"])
            \/ Becomes(p, NextAccount(Asked(p, isReg), p))
            \/ Becomes(p, Down("unregistered"))
            \/ Becomes(p, [Asked(p, isReg) EXCEPT !.pc = "register"])
            \/ Becomes(p, Down("off"))
      BY <2>1 DEF checkRegistration
    <3>2. isReg \in BOOLEAN
      <4>1. Registered(Acc(p)) \in BOOLEAN
        <5>1. CASE Acc(p) \in Eth
          BY <5>1 DEF Registered
        <5>2. CASE Acc(p) \notin Eth
          BY <5>2 DEF Registered
        <5> QED
          BY <5>1, <5>2
      <4> QED
        BY <4>1 DEF Answers, Reads
    <3> QED
      BY <2>1, <3>1, <3>2, SoundFacts DEF checkRegistration
  <2>2. CASE WaitUnregister(p)
    BY <2>2, SoundFacts DEF WaitUnregister
  <2>3. CASE WaitRegister(p)
    BY <2>3, SoundFacts DEF WaitRegister
  <2>4. CASE WaitFails(p) \/ Kill(p)
    BY <2>4, SoundFacts DEF WaitFails, Kill
  <2> QED
    BY <1>5, <2>1, <2>2, <2>3, <2>4 DEF RunStep
<1>6. CASE ~ UnregisterSP(p) /\ ~ RegisterSP(p)
  <2>1. PICK q : Sound(p, q) /\ Becomes(p, q) /\ UNCHANGED chain
    BY <1>5, <1>6
  <2> QED
    BY <1>1, <1>2, <2>1, QuietFacts
<1> QED
  BY <1>3, <1>4, <1>6

LEMMA InvStep ==
    TypeInv /\ MapsInv /\ [Next]_vars => TypeInv' /\ MapsInv'
<1> SUFFICES ASSUME TypeInv, MapsInv, [Next]_vars PROVE TypeInv' /\ MapsInv'
  OBVIOUS
<1>1. ASSUME NEW p \in Run, NEW c \in Command, Start(p, c)
      PROVE  TypeInv' /\ MapsInv'
  <2> DEFINE q == Begun(c)
  <2>1. "off" \in Place
    BY DEF Place
  <2>2. Sound(p, q) /\ Becomes(p, q) /\ UNCHANGED chain
    BY <1>1, <2>1, BegunFacts, TxsFacts DEF Start, Sound
  <2> HIDE DEF q
  <2> QED
    BY <2>2, QuietFacts DEF chain, contract, spMaps, MapsInv, NodeIdsOfRegistered
<1>2. ASSUME NEW p \in Run, RunStep(p) \/ Kill(p)
      PROVE  TypeInv' /\ MapsInv'
  BY <1>2, RunFacts
<1>3. ASSUME NEW i \in DOMAIN txs, NeoBlock(i) \/ EthBlock(i)
      PROVE  TypeInv' /\ MapsInv'
  BY <1>3, TxsFacts, NeoBlockFacts, EthBlockFacts
<1>4. ASSUME UNCHANGED vars
      PROVE  TypeInv' /\ MapsInv'
  BY <1>4 DEF vars, chain, contract, spMaps, TypeInv, ContractTypeOK, TxsInv, PendingOK, ProcInv,
              MapsInv, NodeIdsOfRegistered
<1> QED
  BY <1>1, <1>2, <1>3, <1>4 DEF Next

LEMMA InvAlways ==
    Spec => [](TypeInv /\ MapsInv)
<1>1. TypeInv /\ MapsInv /\ [Next]_vars => (TypeInv /\ MapsInv)'
  BY InvStep
<1> QED
  BY <1>1, InvInit, PTL DEF Spec

(* Type correctness; a run is always at one of its accounts and waits for  *)
(* a transaction that was sent.                                            *)
THEOREM TypeCorrect ==
    Spec => []TypeOK
<1>1. TypeInv => TypeOK
  <2> SUFFICES ASSUME TypeInv PROVE TypeOK
    OBVIOUS
  <2>1. \A p \in Run :
          /\ proc[p].pc \in Place
          /\ proc[p].cmd \in Command
          /\ proc[p].pos \in DOMAIN Accounts[p]
          /\ proc[p].awaited \in 0..Len(txs)
          /\ proc[p].misread \subseteq Account
          /\ proc[p].disturbed \subseteq Account
    BY AccountFacts DEF TypeInv, ProcInv, ProcType
  <2>2. ASSUME NEW i \in DOMAIN txs
        PROVE  /\ txs[i].state \in TxState
               /\ txs[i].state = "pending" => PendingOK(txs[i])
    BY TxsFacts DEF TypeInv, TxsInv
  <2>3. Id \in [Account -> NodeId]
    BY RegistrationAssumption
  <2> QED
    BY <2>1, <2>2, <2>3 DEF TypeOK, TypeInv, PendingOK
<1> QED
  BY <1>1, InvAlways, PTL

(* The node IDs of the Neo contract lead to registered providers, in       *)
(* whatever order transactions of live and dead runs take effect.          *)
THEOREM NodeIdsOfRegisteredAlways ==
    Spec => []NodeIdsOfRegistered
<1>1. MapsInv => NodeIdsOfRegistered
  BY DEF MapsInv
<1> QED
  BY <1>1, InvAlways, PTL

-----------------------------------------------------------------------------
(* Unregistering on Neo                                                    *)

Waiting(p) == proc[p].pc \in {"unregistering", "registering"}

(* A run has one transaction on Neo at a time that may still take effect,  *)
(* the one it waits for.                                                   *)
OwnInv ==
    \A p \in Run : \A i \in 1 .. Len(txs) :
        txs[i].state = "pending" /\ txs[i].run = p /\ txs[i].from \notin Eth =>
            /\ proc[p].pc # "new"
            /\ ~ IsDown(p) => Waiting(p) /\ i = proc[p].awaited /\ txs[i].from = Acc(p)

(* While it unregisters, that transaction unregisters its account, and     *)
(* once it did so the account is gone as long as nobody else interferes.   *)
GoneInv ==
    \A p \in Run : proc[p].pc = "unregistering" /\ Acc(p) \notin Eth =>
        LET i == proc[p].awaited IN
        /\ i \in 1 .. Len(txs)
        /\ txs[i].state = "pending" =>
             /\ txs[i].from = Acc(p)
             /\ txs[i].method = "unregisterStorageProvider"
        /\ txs[i].state = "halt" /\ Acc(p) \notin proc[p].disturbed =>
             addressToProfile[Acc(p)] = None

LEMMA AccIsItsOwn ==
    ASSUME TypeInv, NEW p \in Run
    PROVE  Acc(p) \in Range(Accounts[p])
BY AccountFacts DEF TypeInv, ProcInv, Acc, Range

LEMMA GoneBlock ==
    ASSUME TypeInv, MapsInv, OwnInv, GoneInv, NEW i \in 1 .. Len(txs), NeoBlock(i) \/ EthBlock(i)
    PROVE  OwnInv' /\ GoneInv'
<1>1. txs[i].state = "pending" /\ Disturb(txs[i])
  BY DEF NeoBlock, EthBlock
<1>2. PICK outcome \in {"halt", "error"} : Settles(i, outcome)
  BY DEF NeoBlock, IncludeInBlock, EthBlock
<1>3. /\ Len(txs') = Len(txs)
      /\ txs'[i].state = outcome
      /\ \A j \in 1 .. Len(txs) : j # i => txs'[j] = txs[j]
  BY <1>1, <1>2, SettlesFacts
<1>4. \A p \in Run :
        /\ proc'[p].pc = proc[p].pc
        /\ proc'[p].pos = proc[p].pos /\ proc'[p].awaited = proc[p].awaited
        /\ proc'[p].disturbed =
             IF IsDown(p) \/ txs[i].run = p \/ txs[i].from \notin Range(Accounts[p])
             THEN proc[p].disturbed ELSE proc[p].disturbed \cup {txs[i].from}
  BY <1>1, <1>3, DisturbFacts
<1>5. OwnInv'
  <2> SUFFICES ASSUME NEW p \in Run, NEW k \in 1 .. Len(txs'),
                      txs'[k].state = "pending", txs'[k].run = p, txs'[k].from \notin Eth
               PROVE  /\ proc'[p].pc # "new"
                      /\ ~ IsDown(p)' =>
                           Waiting(p)' /\ k = proc'[p].awaited /\ txs'[k].from = Acc(p)'
    BY DEF OwnInv
  <2>1. k \in 1 .. Len(txs) /\ txs'[k] = txs[k]
    BY <1>2, <1>3
  <2>2. /\ proc[p].pc # "new"
        /\ ~ IsDown(p) => Waiting(p) /\ k = proc[p].awaited /\ txs[k].from = Acc(p)
    BY <2>1 DEF OwnInv
  <2> QED
    BY <1>4, <2>1, <2>2 DEF IsDown, Waiting, Acc
<1>6. ASSUME NEW p \in Run, proc'[p].pc = "unregistering", Acc(p) \notin Eth
      PROVE  LET k == proc'[p].awaited IN
             /\ k \in 1 .. Len(txs')
             /\ txs'[k].state = "pending" =>
                  /\ txs'[k].from = Acc(p)
                  /\ txs'[k].method = "unregisterStorageProvider"
             /\ txs'[k].state = "halt" /\ Acc(p) \notin proc'[p].disturbed =>
                  addressToProfile'[Acc(p)] = None
  <2> DEFINE k == proc[p].awaited
  <2>1. /\ proc[p].pc = "unregistering" /\ k = proc'[p].awaited
        /\ k \in 1 .. Len(txs)
        /\ txs[k].state = "pending" =>
             txs[k].from = Acc(p) /\ txs[k].method = "unregisterStorageProvider"
        /\ txs[k].state = "halt" /\ Acc(p) \notin proc[p].disturbed =>
             addressToProfile[Acc(p)] = None
    BY <1>4, <1>6 DEF GoneInv
  <2>2. Acc(p) \in Account /\ Acc(p) \in Range(Accounts[p])
    BY AskedFacts, AccIsItsOwn
  <2>3. ASSUME txs'[k].state = "halt", Acc(p) \notin proc'[p].disturbed
        PROVE  addressToProfile'[Acc(p)] = None
    <3>1. CASE EthBlock(i)
      <4>1. UNCHANGED addressToProfile /\ txs[i].from \in Eth
        BY <3>1, EthBlockFacts DEF EthBlock
      <4>2. k # i
        BY <1>1, <1>6, <2>1, <4>1
      <4> QED
        BY <1>3, <1>4, <2>1, <2>3, <4>1, <4>2
    <3>2. CASE NeoBlock(i)
      <4>1. txs[i].from \notin Eth
        BY <3>2 DEF NeoBlock
      <4>2. CASE k = i
        BY <1>1, <2>1, <3>2, <4>2, NeoBlockFacts
      <4>3. CASE k # i
        <5>1. txs[i].from # Acc(p)
          <6> SUFFICES ASSUME txs[i].from = Acc(p) PROVE FALSE
            OBVIOUS
          <6>1. txs[i].run # p
            BY <1>1, <2>1, <4>1, <4>3 DEF OwnInv, IsDown
          <6> QED
            BY <1>4, <2>1, <2>2, <2>3, <6>1 DEF IsDown
        <5>2. addressToProfile'[Acc(p)] = addressToProfile[Acc(p)]
          BY <2>2, <3>2, <5>1, NeoBlockFacts
        <5>3. Acc(p) \notin proc[p].disturbed
          BY <1>4, <2>3
        <5> QED
          BY <1>3, <2>1, <2>3, <4>3, <5>2, <5>3
      <4> QED
        BY <4>2, <4>3
    <3> QED
      BY <3>1, <3>2
  <2>4. txs'[k].state = "pending" => k # i /\ txs'[k] = txs[k]
    BY <1>2, <1>3, <2>1
  <2> QED
    BY <1>3, <2>1, <2>3, <2>4
<1>7. \A p \in Run : Acc(p)' = Acc(p)
  BY <1>4 DEF Acc
<1>8. GoneInv'
  BY <1>6, <1>7 DEF GoneInv
<1> QED
  BY <1>5, <1>8

(* A step of a run that sends nothing and does not begin to wait.          *)
LEMMA GoneQuiet ==
    ASSUME TypeInv, OwnInv, GoneInv, NEW p \in Run, NEW q \in ProcType, Becomes(p, q),
           UNCHANGED <<addressToProfile, txs>>, q.pc \notin {"new", "unregistering", "registering"},
           ~ (q.pc \in {"off", "unregistered"}) =>
             \A i \in 1 .. Len(txs) :
               ~ (txs[i].state = "pending" /\ txs[i].run = p /\ txs[i].from \notin Eth)
    PROVE  OwnInv' /\ GoneInv'
<1>1. proc' = [proc EXCEPT ![p] = q] /\ proc \in [Run -> ProcType]
  BY DEF Becomes, TypeInv, ProcInv
<1>2. proc'[p] = q /\ \A r \in Run \ {p} : proc'[r] = proc[r]
  BY <1>1
<1>3. OwnInv'
  <2> SUFFICES ASSUME NEW r \in Run, NEW k \in 1 .. Len(txs),
                      txs[k].state = "pending", txs[k].run = r, txs[k].from \notin Eth
               PROVE  /\ proc'[r].pc # "new"
                      /\ ~ IsDown(r)' =>
                           Waiting(r)' /\ k = proc'[r].awaited /\ txs'[k].from = Acc(r)'
    BY DEF OwnInv
  <2>1. CASE r = p
    BY <1>2, <2>1 DEF IsDown
  <2>2. CASE r # p
    BY <1>2, <2>2 DEF OwnInv, IsDown, Waiting, Acc
  <2> QED
    BY <2>1, <2>2
<1>4. \A r \in Run : proc'[r].pc = "unregistering" => r # p /\ proc'[r] = proc[r] /\ Acc(r)' = Acc(r)
  BY <1>2 DEF Acc
<1>5. GoneInv'
  BY <1>4 DEF GoneInv
<1> QED
  BY <1>3, <1>5

(* A step that sends a transaction and begins to wait for it.              *)
LEMMA GoneCall ==
    ASSUME TypeInv, OwnInv, GoneInv, NEW p \in Run, ~ Waiting(p), ~ IsDown(p),
           NEW method \in {"registerStorageProvider", "unregisterStorageProvider"}, NEW arg,
           Send(Tx(p, method, Acc(p), arg)),
           NEW waiting \in {"unregistering", "registering"},
           Becomes(p, [proc[p] EXCEPT !.pc = waiting, !.awaited = Len(txs) + 1]),
           waiting = "unregistering" => method = "unregisterStorageProvider",
           UNCHANGED addressToProfile
    PROVE  OwnInv' /\ GoneInv'
<1> DEFINE n == Len(txs) + 1
           t == Tx(p, method, Acc(p), arg)
<1>1. proc' = [proc EXCEPT ![p] = [proc[p] EXCEPT !.pc = waiting, !.awaited = n]]
      /\ proc \in [Run -> ProcType]
  BY DEF Becomes, TypeInv, ProcInv
<1>2. /\ proc'[p].pc = waiting /\ proc'[p].awaited = n /\ proc'[p].pos = proc[p].pos
      /\ \A r \in Run \ {p} : proc'[r] = proc[r]
  BY <1>1 DEF ProcType
<1>3. /\ t.run = p /\ t.from = Acc(p) /\ t.method = method /\ t.state = "pending"
  BY DEF Tx
<1>4. /\ Len(txs) \in Nat /\ Len(txs') = n
      /\ \A k \in 1 .. n : txs'[k] = IF k = n THEN t ELSE txs[k]
  BY DEF Send, TypeInv, TxsInv
<1> HIDE DEF t
<1>5. OwnInv'
  <2> SUFFICES ASSUME NEW r \in Run, NEW k \in 1 .. n,
                      txs'[k].state = "pending", txs'[k].run = r, txs'[k].from \notin Eth
               PROVE  /\ proc'[r].pc # "new"
                      /\ ~ IsDown(r)' =>
                           Waiting(r)' /\ k = proc'[r].awaited /\ txs'[k].from = Acc(r)'
    BY <1>4 DEF OwnInv
  <2>1. CASE k = n
    BY <1>2, <1>3, <1>4, <2>1 DEF Waiting, Acc
  <2>2. CASE k # n
    <3>1. k \in 1 .. Len(txs) /\ txs'[k] = txs[k]
      BY <1>4, <2>2
    <3>2. r # p
      BY <3>1 DEF OwnInv
    <3> QED
      BY <1>2, <3>1, <3>2 DEF OwnInv, IsDown, Waiting, Acc
  <2> QED
    BY <2>1, <2>2
<1>6. GoneInv'
  <2> SUFFICES ASSUME NEW r \in Run, proc'[r].pc = "unregistering", Acc(r)' \notin Eth
               PROVE  /\ proc'[r].awaited \in 1 .. n
                      /\ txs'[proc'[r].awaited].state = "pending" =>
                           /\ txs'[proc'[r].awaited].from = Acc(r)'
                           /\ txs'[proc'[r].awaited].method = "unregisterStorageProvider"
                      /\ txs'[proc'[r].awaited].state = "halt" /\ Acc(r)' \notin proc'[r].disturbed =>
                           addressToProfile'[Acc(r)'] = None
    BY <1>4 DEF GoneInv
  <2>1. Acc(r)' = Acc(r)
    BY <1>2 DEF Acc
  <2>2. CASE r = p
    BY <1>2, <1>3, <1>4, <2>1, <2>2
  <2>3. CASE r # p
    <3>1. proc'[r] = proc[r]
      BY <1>2, <2>3
    <3>2. /\ proc[r].awaited \in 1 .. Len(txs)
          /\ txs'[proc[r].awaited] = txs[proc[r].awaited]
      BY <1>4, <2>1, <3>1 DEF GoneInv
    <3> QED
      BY <1>4, <2>1, <3>1, <3>2 DEF GoneInv
  <2> QED
    BY <2>2, <2>3
<1> QED
  BY <1>5, <1>6

(* No transaction on Neo of this run may still take effect.                *)
Settled(p) ==
    \A i \in 1 .. Len(txs) :
        ~ (txs[i].state = "pending" /\ txs[i].run = p /\ txs[i].from \notin Eth)

LEMMA SettledFacts ==
    ASSUME TypeInv, OwnInv, NEW p \in Run,
           \/ proc[p].pc \in {"new", "check", "unregister", "register"}
           \/ ~ IsDown(p) /\ \E isReg \in BOOLEAN : Completed(p, isReg)
    PROVE  Settled(p)
<1> SUFFICES ASSUME NEW i \in 1 .. Len(txs), txs[i].state = "pending", txs[i].run = p,
                    txs[i].from \notin Eth
             PROVE  FALSE
  BY DEF Settled
<1>1. proc[p].pc # "new" /\ (~ IsDown(p) => Waiting(p) /\ i = proc[p].awaited /\ txs[i].from = Acc(p))
  BY DEF OwnInv
<1>2. CASE proc[p].pc \in {"new", "check", "unregister", "register"}
  BY <1>1, <1>2 DEF IsDown, Waiting
<1>3. CASE ~ IsDown(p) /\ \E isReg \in BOOLEAN : Completed(p, isReg)
  BY <1>1, <1>3 DEF Completed, Succeeded
<1> QED
  BY <1>2, <1>3

(* What a run may become without a transaction of its own.                 *)
Calm(p, q) ==
    /\ q \in ProcType
    /\ q.pc \notin {"new", "unregistering", "registering"}
    /\ q.pc \in {"off", "unregistered"} \/ Settled(p)

LEMMA CalmFacts ==
    ASSUME TypeInv, NEW p \in Run
    PROVE  /\ \A how \in {"unregistered", "off"} : Calm(p, Down(how))
           /\ Settled(p) => \A answer \in BOOLEAN :
                /\ \A place \in {"unregister", "register"} :
                     Calm(p, [Asked(p, answer) EXCEPT !.pc = place])
                /\ Calm(p, NextAccount(Asked(p, answer), p))
<1>1. ASSUME NEW how \in {"unregistered", "off"}
      PROVE  Calm(p, Down(how))
  BY SoundFacts, BegunFacts DEF Place, Command, Sound, Calm
<1>2. ASSUME Settled(p), NEW answer \in BOOLEAN, NEW place \in {"unregister", "register"}
      PROVE  Calm(p, [Asked(p, answer) EXCEPT !.pc = place])
  <2>1. [Asked(p, answer) EXCEPT !.pc = place] \in ProcType
    BY SoundFacts DEF Sound
  <2>2. [Asked(p, answer) EXCEPT !.pc = place].pc = place
    BY AskedFacts DEF ProcType
  <2> QED
    BY <1>2, <2>1, <2>2 DEF Calm
<1>3. ASSUME Settled(p), NEW answer \in BOOLEAN
      PROVE  Calm(p, NextAccount(Asked(p, answer), p))
  <2>1. Asked(p, answer) \in ProcType /\ Asked(p, answer).pos \in 1 .. Len(Accounts[p])
    BY AskedFacts DEF TypeInv, ProcInv
  <2> QED
    BY <1>3, <2>1, NextAccountFacts DEF Calm
<1> QED
  BY <1>1, <1>2, <1>3

LEMMA CalmStep ==
    ASSUME TypeInv, OwnInv, GoneInv, NEW p \in Run, NEW q, Calm(p, q), Becomes(p, q),
           UNCHANGED chain
    PROVE  OwnInv' /\ GoneInv'
BY GoneQuiet DEF Calm, Settled, chain, contract, spMaps

LEMMA GoneCalls ==
    ASSUME TypeInv, OwnInv, GoneInv, NEW p \in Run, ~ Waiting(p), ~ IsDown(p),
           NEW method \in {"registerStorageProvider", "unregisterStorageProvider"}, NEW arg,
           NEW waiting \in {"unregistering", "registering"},
           Calls(p, Tx(p, method, Acc(p), arg), waiting),
           waiting = "unregistering" => method = "unregisterStorageProvider",
           UNCHANGED <<contract, ethRegistered>>
    PROVE  OwnInv' /\ GoneInv'
<1>1. CASE UNCHANGED txs /\ Becomes(p, Down("off"))
  <2> DEFINE q == Down("off")
  <2>1. Calm(p, q) /\ Becomes(p, q) /\ UNCHANGED chain
    BY <1>1, CalmFacts DEF chain
  <2> HIDE DEF q
  <2> QED
    BY <2>1, CalmStep
<1>2. CASE /\ Send(Tx(p, method, Acc(p), arg))
           /\ Becomes(p, [proc[p] EXCEPT !.pc = waiting, !.awaited = Len(txs) + 1])
  BY <1>2, GoneCall DEF contract, spMaps
<1> QED
  BY <1>1, <1>2 DEF Calls

(* A step of a run.                                                        *)
LEMMA GoneRun ==
    ASSUME TypeInv, OwnInv, GoneInv, NEW p \in Run, RunStep(p) \/ Kill(p)
    PROVE  OwnInv' /\ GoneInv'
<1>1. CASE UnregisterSP(p)
  <2>1. ~ Waiting(p) /\ ~ IsDown(p) /\ UNCHANGED <<contract, ethRegistered>>
    BY <1>1 DEF UnregisterSP, Waiting, IsDown
  <2>2. CASE Calls(p, Tx(p, "unregisterStorageProvider", Acc(p), Id[Acc(p)]), "unregistering")
    BY <2>1, <2>2, GoneCalls
  <2>3. CASE Becomes(p, Down("off")) /\ UNCHANGED txs
    <3> DEFINE q == Down("off")
    <3>1. Calm(p, q) /\ Becomes(p, q) /\ UNCHANGED chain
      BY <2>1, <2>3, CalmFacts DEF chain
    <3> HIDE DEF q
    <3> QED
      BY <3>1, CalmStep
  <2> QED
    BY <1>1, <2>2, <2>3 DEF UnregisterSP
<1>2. CASE RegisterSP(p)
  <2>1. ~ Waiting(p) /\ ~ IsDown(p) /\ UNCHANGED <<contract, ethRegistered>>
    BY <1>2 DEF RegisterSP, Waiting, IsDown
  <2>2. PICK profile : Calls(p, Tx(p, "registerStorageProvider", Acc(p), profile), "registering")
    BY <1>2 DEF RegisterSP
  <2> QED
    BY <2>1, <2>2, GoneCalls
<1>3. ASSUME ~ UnregisterSP(p), ~ RegisterSP(p)
      PROVE  \E q : Calm(p, q) /\ Becomes(p, q) /\ UNCHANGED chain
  <2>1. CASE checkRegistration(p)
    <3>1. PICK isReg \in Answers(p) :
            \/ Becomes(p, [Asked(p, isReg) EXCEPT !.pc = "unregister"])
            \/ Becomes(p, NextAccount(Asked(p, isReg), p))
            \/ Becomes(p, Down("unregistered"))
            \/ Becomes(p, [Asked(p, isReg) EXCEPT !.pc = "register"])
            \/ Becomes(p, Down("off"))
      BY <2>1 DEF checkRegistration
    <3>2. isReg \in BOOLEAN
      <4>1. Registered(Acc(p)) \in BOOLEAN
        <5>1. CASE Acc(p) \in Eth
          BY <5>1 DEF Registered
        <5>2. CASE Acc(p) \notin Eth
          BY <5>2 DEF Registered
        <5> QED
          BY <5>1, <5>2
      <4> QED
        BY <4>1 DEF Answers, Reads
    <3>3. Settled(p)
      BY <2>1, SettledFacts DEF checkRegistration
    <3> QED
      BY <2>1, <3>1, <3>2, <3>3, CalmFacts DEF checkRegistration
  <2>2. CASE WaitUnregister(p)
    <3>1. Settled(p)
      BY <2>2, SettledFacts DEF WaitUnregister, IsDown
    <3> QED
      BY <2>2, <3>1, CalmFacts DEF WaitUnregister
  <2>3. CASE WaitRegister(p)
    <3>1. Settled(p)
      BY <2>3, SettledFacts DEF WaitRegister, IsDown
    <3> QED
      BY <2>3, <3>1, CalmFacts DEF WaitRegister
  <2>4. CASE WaitFails(p) \/ Kill(p)
    BY <2>4, CalmFacts DEF WaitFails, Kill
  <2> QED
    BY <1>3, <2>1, <2>2, <2>3, <2>4 DEF RunStep
<1>4. CASE ~ UnregisterSP(p) /\ ~ RegisterSP(p)
  <2>1. PICK q : Calm(p, q) /\ Becomes(p, q) /\ UNCHANGED chain
    BY <1>3, <1>4
  <2> QED
    BY <2>1, CalmStep
<1> QED
  BY <1>1, <1>2, <1>4

LEMMA GoneInit ==
    Init => OwnInv /\ GoneInv
<1> SUFFICES ASSUME Init PROVE OwnInv /\ GoneInv
  OBVIOUS
<1>1. Len(txs) = 0
  BY DEF Init
<1>2. \A p \in Run : proc[p].pc = "new"
  <2>1. "new" \in Place /\ "run" \in Command
    BY DEF Place, Command
  <2> QED
    BY <2>1, BegunFacts DEF Init
<1> QED
  BY <1>1, <1>2 DEF OwnInv, GoneInv

LEMMA GoneStep ==
    TypeInv /\ MapsInv /\ OwnInv /\ GoneInv /\ [Next]_vars => OwnInv' /\ GoneInv'
<1> SUFFICES ASSUME TypeInv, MapsInv, OwnInv, GoneInv, [Next]_vars PROVE OwnInv' /\ GoneInv'
  OBVIOUS
<1>1. ASSUME NEW p \in Run, NEW c \in Command, Start(p, c)
      PROVE  OwnInv' /\ GoneInv'
  <2> DEFINE q == Begun(c)
  <2>1. q \in ProcType /\ q.pc = "check" /\ Settled(p) /\ Becomes(p, q) /\ UNCHANGED chain
    <3>1. q \in ProcType
      BY BegunFacts DEF Place
    <3>2. q.pc = "check"
      BY DEF Begun
    <3>3. Settled(p)
      BY <1>1, SettledFacts DEF Start
    <3> QED
      BY <1>1, <3>1, <3>2, <3>3 DEF Start
  <2> HIDE DEF q
  <2>2. Calm(p, q)
    BY <2>1 DEF Calm
  <2> QED
    BY <2>1, <2>2, CalmStep
<1>2. ASSUME NEW p \in Run, RunStep(p) \/ Kill(p)
      PROVE  OwnInv' /\ GoneInv'
  BY <1>2, GoneRun
<1>3. ASSUME NEW i \in DOMAIN txs, NeoBlock(i) \/ EthBlock(i)
      PROVE  OwnInv' /\ GoneInv'
  BY <1>3, TxsFacts, GoneBlock
<1>4. ASSUME UNCHANGED vars
      PROVE  OwnInv' /\ GoneInv'
  BY <1>4 DEF vars, chain, contract, spMaps, OwnInv, GoneInv, IsDown, Waiting, Acc
<1> QED
  BY <1>1, <1>2, <1>3, <1>4 DEF Next

(* An unregistration on Neo that ends well leaves the account without a    *)
(* profile, unless a transaction of another run took effect since this run *)
(* began.  The wait ends with the log of the run's own transaction, which  *)
(* is the only one of its own that may have taken effect meanwhile.        *)
THEOREM UnregisteredIsGoneAlways ==
    Spec => UnregisteredIsGone
<1> DEFINE Leaves ==
        \A p \in Run :
            proc[p].pc = "unregistering" /\ proc'[p].pc \in {"unregistered", "register"}
            /\ Acc(p) \notin Eth \cup proc[p].disturbed
                => ~ Registered(Acc(p))
           Inv == TypeInv /\ MapsInv /\ OwnInv /\ GoneInv
<1>1. Inv /\ [Next]_vars => Inv'
  BY InvStep, GoneStep
<1>2. Init => Inv
  BY InvInit, GoneInit
<1>3. Inv /\ [Next]_vars => [Leaves]_vars
  <2> SUFFICES ASSUME Inv, Next, NEW p \in Run, proc[p].pc = "unregistering",
                      proc'[p].pc \in {"unregistered", "register"},
                      Acc(p) \notin Eth \cup proc[p].disturbed
               PROVE  ~ Registered(Acc(p))
    OBVIOUS
  <2>1. proc \in [Run -> ProcType] /\ proc'[p].pc # proc[p].pc
    BY DEF TypeInv, ProcInv
  <2>2. ~ \E r \in Run, c \in Command : Start(r, c)
    BY <2>1 DEF Start, Becomes
  <2>3. ~ \E i \in DOMAIN txs : NeoBlock(i) \/ EthBlock(i)
    <3> SUFFICES ASSUME NEW i \in 1 .. Len(txs), NeoBlock(i) \/ EthBlock(i) PROVE FALSE
      BY TxsFacts
    <3>1. txs[i].state = "pending" /\ Disturb(txs[i])
      BY DEF NeoBlock, EthBlock
    <3>2. PICK outcome \in {"halt", "error"} : Settles(i, outcome)
      BY DEF NeoBlock, IncludeInBlock, EthBlock
    <3>3. Len(txs') = Len(txs)
      BY <3>1, <3>2, SettlesFacts
    <3> QED
      BY <2>1, <3>1, <3>3, DisturbFacts
  <2>4. PICK r \in Run : RunStep(r) \/ Kill(r)
    BY <2>2, <2>3 DEF Next
  <2>5. r = p
    <3>1. ASSUME NEW q, Becomes(r, q) PROVE r = p
      BY <2>1, <3>1 DEF Becomes
    <3> QED
      BY <2>4, <3>1 DEF RunStep, checkRegistration, UnregisterSP, RegisterSP, Calls,
                        WaitUnregister, WaitRegister, WaitFails, Kill
  <2>6. WaitUnregister(p)
    <3>1. ~ (WaitFails(p) \/ Kill(p))
      BY <2>1 DEF WaitFails, Kill, Becomes, Down, Begun
    <3> QED
      BY <2>4, <2>5, <3>1 DEF RunStep, checkRegistration, UnregisterSP, RegisterSP, WaitRegister
  <2>7. Succeeded(proc[p].awaited)
    BY <2>6 DEF WaitUnregister, Completed
  <2> QED
    BY <2>7 DEF Succeeded, GoneInv, Registered
<1>4. Spec => [][Leaves]_vars
  BY <1>1, <1>2, <1>3, PTL DEF Spec
<1> QED
  BY <1>4 DEF UnregisteredIsGone

-----------------------------------------------------------------------------
(* Serving                                                                 *)

(* The accounts of which a run knows what became of them.                  *)
Trusts(q, a) == a \notin q.disturbed \cup q.misread

Holds(p, q, a) ==
    /\ Registered(a)
    /\ a \notin Eth /\ q.cmd = "register" => addressToProfile[a].minAsk = Ask[p]

(* Of an account it trusts, the only transaction of a run that may still   *)
(* take effect is the one it waits for.                                    *)
OwnTxs(p, q, k) ==
    \A i \in 1 .. Len(txs) :
        txs[i].state = "pending" /\ txs[i].run = p /\ txs[i].from = Accounts[p][k] =>
            k = q.pos /\ q.pc \in {"unregistering", "registering"} /\ i = q.awaited

(* The account it is at.  On Ethereum the wait ends by what is registered, *)
(* so a transaction that is awaited must make a difference; on Neo by its  *)
(* own transaction, which then has to say the right thing.                 *)
Unregistering(q, a) ==
    /\ q.pc = "unregister" => Registered(a)
    /\ q.pc = "unregistering" /\ a \in Eth /\ txs[q.awaited].state = "pending" => Registered(a)

Registering(p, q, a) ==
    /\ q.pc = "register" /\ a \in Eth => ~ Registered(a)
    /\ q.pc = "registering" /\ a \in Eth /\ txs[q.awaited].state = "pending" => ~ Registered(a)
    /\ q.pc = "registering" /\ a \notin Eth =>
        /\ txs[q.awaited].state = "pending" =>
             /\ txs[q.awaited].method = "registerStorageProvider"
             /\ txs[q.awaited].from = a
             /\ txs[q.awaited].arg.minAsk = Ask[p]
        /\ txs[q.awaited].state = "halt" =>
             Registered(a) /\ addressToProfile[a].minAsk = Ask[p]

Fit(p, q) ==
    /\ q.pc \in {"unregistering", "registering"} => q.awaited \in 1 .. Len(txs)
    /\ \A k \in 1 .. Len(Accounts[p]) : Trusts(q, Accounts[p][k]) =>
        /\ OwnTxs(p, q, k)
        /\ k < q.pos \/ q.pc = "serving" => Holds(p, q, Accounts[p][k])
        /\ k = q.pos => Unregistering(q, Accounts[p][k]) /\ Registering(p, q, Accounts[p][k])

NewInv ==
    \A p \in Run : proc[p].pc = "new" =>
        \A i \in 1 .. Len(txs) : ~ (txs[i].state = "pending" /\ txs[i].run = p)

ServeInv ==
    /\ NewInv
    /\ \A p \in Run : proc[p].misread \subseteq Eth
    /\ \A p \in Run : ~ IsDown(p) => Fit(p, proc[p])

LEMMA AccountsInjective ==
    ASSUME NEW p \in Run, NEW j \in 1 .. Len(Accounts[p]), NEW k \in 1 .. Len(Accounts[p]),
           Accounts[p][j] = Accounts[p][k]
    PROVE  j = k
<1>1. IsInjective(Accounts[p]) /\ Accounts[p] \in Seq(Account)
  BY RegistrationAssumption
<1> QED
  BY <1>1 DEF IsInjective

(* What a block changes of one account and of the transactions.            *)
LEMMA BlockFacts ==
    ASSUME TypeInv, MapsInv, NEW i \in 1 .. Len(txs), NeoBlock(i) \/ EthBlock(i)
    PROVE  /\ txs[i].state = "pending" /\ txs'[i].state # "pending"
           /\ Len(txs') = Len(txs)
           /\ \A j \in 1 .. Len(txs) : j # i => txs'[j] = txs[j]
           /\ \A a \in Account : a # txs[i].from =>
                (Registered(a)' <=> Registered(a)) /\ addressToProfile'[a] = addressToProfile[a]
           /\ txs[i].from \in Eth => UNCHANGED addressToProfile
           /\ txs[i].from \notin Eth => UNCHANGED ethRegistered
           /\ txs'[i].state = "halt" /\ txs[i].from \notin Eth
                /\ txs[i].method = "registerStorageProvider" =>
                  addressToProfile'[txs[i].from] = txs[i].arg
<1>1. txs[i].state = "pending" /\ PendingOK(txs[i])
  BY DEF NeoBlock, EthBlock, TypeInv, TxsInv
<1>2. PICK outcome \in {"halt", "error"} : Settles(i, outcome)
  BY DEF NeoBlock, IncludeInBlock, EthBlock
<1>3. /\ Len(txs') = Len(txs) /\ txs'[i].state = outcome
      /\ \A j \in 1 .. Len(txs) : j # i => txs'[j] = txs[j]
  BY <1>1, <1>2, SettlesFacts
<1>4. CASE EthBlock(i)
  <2>1. UNCHANGED addressToProfile /\ txs[i].from \in Eth
    BY <1>4, EthBlockFacts DEF EthBlock
  <2>2. \A a \in Account : a # txs[i].from => (a \in ethRegistered' <=> a \in ethRegistered)
    BY <1>4 DEF EthBlock
  <2>3. ASSUME NEW a \in Account, a # txs[i].from
        PROVE  Registered(a)' <=> Registered(a)
    <3>1. CASE a \in Eth
      BY <2>2, <2>3, <3>1 DEF Registered
    <3>2. CASE a \notin Eth
      BY <2>1, <3>2 DEF Registered
    <3> QED
      BY <3>1, <3>2
  <2> QED
    BY <1>1, <1>3, <2>1, <2>3
<1>5. CASE NeoBlock(i)
  <2>1. UNCHANGED ethRegistered /\ txs[i].from \notin Eth
    BY <1>5 DEF NeoBlock
  <2>2. \A a \in Account : a # txs[i].from => addressToProfile'[a] = addressToProfile[a]
    BY <1>5, NeoBlockFacts
  <2>3. ASSUME NEW a \in Account, a # txs[i].from
        PROVE  Registered(a)' <=> Registered(a)
    <3>1. CASE a \in Eth
      BY <2>1, <3>1 DEF Registered
    <3>2. CASE a \notin Eth
      BY <2>2, <2>3, <3>2 DEF Registered
    <3> QED
      BY <3>1, <3>2
  <2>4. ASSUME txs'[i].state = "halt", txs[i].method = "registerStorageProvider"
        PROVE  addressToProfile'[txs[i].from] = txs[i].arg
    <3>1. IncludeInBlock(i) /\ ~ Settles(i, "error")
      <4>1. Settles(i, "error") => txs'[i].state = "error"
        BY <1>1, SettlesFacts
      <4> QED
        BY <1>5, <2>4, <4>1 DEF NeoBlock
    <3>2. Invoke(txs[i])
      BY <3>1 DEF IncludeInBlock
    <3>3. RegisterStorageProvider(txs[i].from, txs[i].arg)
      BY <2>4, <3>2 DEF Invoke
    <3> QED
      BY <1>1, <3>3 DEF RegisterStorageProvider, TypeInv, ContractTypeOK, PendingOK
  <2> QED
    BY <1>1, <1>3, <2>1, <2>2, <2>3, <2>4
<1> QED
  BY <1>4, <1>5

LEMMA FitBlock ==
    ASSUME TypeInv, MapsInv, NEW i \in 1 .. Len(txs), NeoBlock(i) \/ EthBlock(i),
           NEW p \in Run, ~ IsDown(p), Fit(p, proc[p])
    PROVE  Fit(p, proc[p])'
<1> DEFINE q == proc[p]
           w == q.awaited
           owner == txs[i].run
           from == txs[i].from
<1>1. Disturb(txs[i]) /\ PendingOK(txs[i])
  BY DEF NeoBlock, EthBlock, TypeInv, TxsInv
<1>2. /\ txs[i].state = "pending" /\ txs'[i].state # "pending"
      /\ Len(txs') = Len(txs)
      /\ \A j \in 1 .. Len(txs) : j # i => txs'[j] = txs[j]
      /\ \A a \in Account : a # from =>
           (Registered(a)' <=> Registered(a)) /\ addressToProfile'[a] = addressToProfile[a]
      /\ txs'[i].state = "halt" /\ from \notin Eth
           /\ txs[i].method = "registerStorageProvider" => addressToProfile'[from] = txs[i].arg
  BY BlockFacts
<1>3. /\ proc'[p].pc = q.pc /\ proc'[p].cmd = q.cmd
      /\ proc'[p].pos = q.pos /\ proc'[p].awaited = w
      /\ proc'[p].disturbed =
           IF owner = p \/ from \notin Range(Accounts[p])
           THEN q.disturbed ELSE q.disturbed \cup {from}
  BY <1>1, <1>2, DisturbFacts
<1>4. proc'[p].misread = q.misread
  BY <1>1 DEF Disturb, TypeInv, ProcInv, ProcType
<1>5. q.pc \in {"unregistering", "registering"} => w \in 1 .. Len(txs)
  BY DEF Fit
<1>6. ASSUME NEW k \in 1 .. Len(Accounts[p]), Trusts(proc'[p], Accounts[p][k])
      PROVE  /\ OwnTxs(p, proc[p], k)'
             /\ k < q.pos \/ q.pc = "serving" => Holds(p, proc[p], Accounts[p][k])'
             /\ k = q.pos => Unregistering(proc[p], Accounts[p][k])'
                             /\ Registering(p, proc[p], Accounts[p][k])'
  <2> DEFINE a == Accounts[p][k]
  <2>1. a \in Account /\ a \in Range(Accounts[p])
    BY AccountFacts DEF Range
  <2>2. Trusts(q, a) /\ (from = a => owner = p)
    BY <1>3, <1>4, <1>6, <2>1 DEF Trusts
  <2>3. /\ OwnTxs(p, q, k)
        /\ k < q.pos \/ q.pc = "serving" => Holds(p, q, a)
        /\ k = q.pos => Unregistering(q, a) /\ Registering(p, q, a)
    BY <2>2 DEF Fit
  <2>4. from = a => k = q.pos /\ q.pc \in {"unregistering", "registering"} /\ i = w
    BY <1>2, <2>2, <2>3 DEF OwnTxs
  <2>5. OwnTxs(p, proc[p], k)'
    BY <1>2, <1>3, <2>3 DEF OwnTxs
  <2>6. ASSUME from # a
        PROVE  (Registered(a)' <=> Registered(a)) /\ addressToProfile'[a] = addressToProfile[a]
    BY <1>2, <2>1, <2>6
  <2>7. k < q.pos \/ q.pc = "serving" => Holds(p, proc[p], a)'
    <3> SUFFICES ASSUME k < q.pos \/ q.pc = "serving" PROVE Holds(p, proc[p], a)'
      OBVIOUS
    <3>1. from # a
      BY <2>4 DEF TypeInv, ProcInv
    <3> QED
      BY <1>3, <2>3, <2>6, <3>1 DEF Holds
  <2>8. ASSUME k = q.pos, w = i, q.pc \in {"unregistering", "registering"}
        PROVE  Unregistering(proc[p], a)' /\ Registering(p, proc[p], a)'
    <3>1. txs'[w].state # "pending"
      BY <1>2, <2>8
    <3>2. ASSUME q.pc = "registering", a \notin Eth, txs'[w].state = "halt"
          PROVE  Registered(a)' /\ addressToProfile'[a].minAsk = Ask[p]
      <4>1. txs[i].method = "registerStorageProvider" /\ from = a /\ txs[i].arg.minAsk = Ask[p]
        BY <1>2, <2>3, <2>8, <3>2 DEF Registering
      <4>2. addressToProfile'[a] = txs[i].arg
        BY <1>2, <2>8, <3>2, <4>1
      <4>3. txs[i].arg # None
        <5>1. txs[i].arg \in Profile
          BY <1>1, <4>1 DEF PendingOK
        <5> QED
          BY <5>1, NeoAssumption
      <4> QED
        BY <3>2, <4>1, <4>2, <4>3 DEF Registered
    <3> QED
      BY <1>3, <2>8, <3>1, <3>2 DEF Unregistering, Registering
  <2>9. ASSUME k = q.pos, ~ (w = i /\ q.pc \in {"unregistering", "registering"})
        PROVE  Unregistering(proc[p], a)' /\ Registering(p, proc[p], a)'
    <3>1. (Registered(a)' <=> Registered(a)) /\ addressToProfile'[a] = addressToProfile[a]
      BY <2>4, <2>6, <2>9
    <3>2. q.pc \in {"unregistering", "registering"} => txs'[w] = txs[w]
      BY <1>2, <1>5, <2>9
    <3> QED
      BY <1>3, <2>3, <2>9, <3>1, <3>2 DEF Unregistering, Registering
  <2> QED
    BY <2>5, <2>7, <2>8, <2>9
<1> QED
  BY <1>2, <1>3, <1>5, <1>6 DEF Fit

LEMMA AnswerIsBoolean ==
    ASSUME NEW a
    PROVE  Registered(a) \in BOOLEAN
<1>1. CASE a \in Eth
  BY <1>1 DEF Registered
<1>2. CASE a \notin Eth
  BY <1>2 DEF Registered
<1> QED
  BY <1>1, <1>2

(* A trusted answer about an Ethereum account was right.                   *)
LEMMA AskedTrusts ==
    ASSUME TypeInv, NEW p \in Run, proc[p].misread \subseteq Eth, NEW answer \in BOOLEAN
    PROVE  /\ \A a : Trusts(Asked(p, answer), a) => Trusts(proc[p], a)
           /\ Trusts(Asked(p, answer), Acc(p)) /\ Acc(p) \in Eth => answer = Registered(Acc(p))
           /\ Asked(p, answer).misread \subseteq Eth
BY AskedFacts DEF Asked, Trusts, TypeInv, ProcInv, ProcType

(* What the run waited for, if anything, has taken effect, as far as the   *)
(* account it goes on with is to be trusted.                               *)
Over(p, q) ==
    proc[p].pc \in {"unregistering", "registering"} /\ Trusts(q, Acc(p)) =>
        txs[proc[p].awaited].state # "pending"

LEMMA OverFacts ==
    ASSUME TypeInv, NEW p \in Run, Fit(p, proc[p]), NEW q,
           \A a : Trusts(q, a) => Trusts(proc[p], a), Over(p, q),
           NEW k \in 1 .. Len(Accounts[p]), Trusts(q, Accounts[p][k])
    PROVE  \A i \in 1 .. Len(txs) :
             ~ (txs[i].state = "pending" /\ txs[i].run = p /\ txs[i].from = Accounts[p][k])
<1>1. OwnTxs(p, proc[p], k)
  BY DEF Fit
<1>2. k = proc[p].pos => Accounts[p][k] = Acc(p)
  BY DEF Acc
<1> QED
  BY <1>1, <1>2 DEF OwnTxs, Over

(* The run goes on with the next account.                                  *)
LEMMA FitNext ==
    ASSUME TypeInv, NEW p \in Run, Fit(p, proc[p]), proc[p].misread \subseteq Eth,
           proc[p].pc # "serving", NEW answer \in BOOLEAN, Over(p, Asked(p, answer)),
           Trusts(Asked(p, answer), Acc(p)) => Holds(p, proc[p], Acc(p))
    PROVE  Fit(p, NextAccount(Asked(p, answer), p))
<1> DEFINE asked == Asked(p, answer)
           q == NextAccount(asked, p)
           pos == proc[p].pos
<1>1. /\ asked \in ProcType /\ asked.pos = pos /\ asked.cmd = proc[p].cmd
      /\ \A a : Trusts(asked, a) => Trusts(proc[p], a)
  BY AskedFacts, AskedTrusts
<1>2. /\ q.pc \in {"serving", "check"}
      /\ q.cmd = asked.cmd /\ q.misread = asked.misread /\ q.disturbed = asked.disturbed
      /\ q.pos = IF pos = Len(Accounts[p]) THEN pos ELSE pos + 1
      /\ q.pc = "serving" => pos = Len(Accounts[p])
  <2>1. CASE pos = Len(Accounts[p])
    <3>1. q = [asked EXCEPT !.pc = "serving"]
      BY <1>1, <2>1 DEF NextAccount
    <3> HIDE DEF q, asked
    <3> QED
      BY <1>1, <2>1, <3>1 DEF ProcType
  <2>2. CASE pos # Len(Accounts[p])
    <3>1. q = [asked EXCEPT !.pc = "check", !.pos = pos + 1]
      BY <1>1, <2>2 DEF NextAccount
    <3> HIDE DEF q, asked
    <3> QED
      BY <1>1, <2>2, <3>1 DEF ProcType
  <2> QED
    BY <2>1, <2>2
<1> HIDE DEF q
<1>3. pos \in 1 .. Len(Accounts[p]) /\ Len(Accounts[p]) \in Nat
  BY AccountFacts DEF TypeInv, ProcInv
<1>4. ASSUME NEW k \in 1 .. Len(Accounts[p]), Trusts(q, Accounts[p][k])
      PROVE  /\ OwnTxs(p, q, k)
             /\ k < q.pos \/ q.pc = "serving" => Holds(p, q, Accounts[p][k])
             /\ k = q.pos => Unregistering(q, Accounts[p][k]) /\ Registering(p, q, Accounts[p][k])
  <2>1. Trusts(asked, Accounts[p][k])
    BY <1>2, <1>4 DEF Trusts
  <2>2. OwnTxs(p, q, k)
    <3> HIDE DEF asked
    <3>1. Over(p, asked)
      BY DEF asked
    <3> QED
      BY <1>1, <2>1, <3>1, OverFacts DEF OwnTxs
  <2>3. ASSUME k < q.pos \/ q.pc = "serving"
        PROVE  Holds(p, q, Accounts[p][k])
    <3>1. k <= pos
      BY <1>2, <1>3, <2>3
    <3>2. CASE k < pos
      <4>1. Holds(p, proc[p], Accounts[p][k])
        BY <1>1, <2>1, <3>2 DEF Fit
      <4> QED
        BY <1>1, <1>2, <4>1 DEF Holds
    <3>3. CASE k = pos
      <4>1. Holds(p, proc[p], Accounts[p][k])
        BY <2>1, <3>3 DEF Acc
      <4> QED
        BY <1>1, <1>2, <4>1 DEF Holds
    <3> QED
      BY <1>3, <3>1, <3>2, <3>3
  <2>4. Unregistering(q, Accounts[p][k]) /\ Registering(p, q, Accounts[p][k])
    BY <1>2 DEF Unregistering, Registering
  <2> QED
    BY <2>2, <2>3, <2>4
<1> QED
  BY <1>2, <1>4 DEF Fit, q

(* The run goes on with the same account.                                  *)
LEMMA FitSame ==
    ASSUME TypeInv, NEW p \in Run, Fit(p, proc[p]), proc[p].misread \subseteq Eth,
           proc[p].pc # "serving", NEW answer \in BOOLEAN, Over(p, Asked(p, answer)),
           NEW place \in {"unregister", "register"},
           Trusts(Asked(p, answer), Acc(p)) =>
             IF place = "unregister" THEN Registered(Acc(p))
             ELSE Acc(p) \in Eth => ~ Registered(Acc(p))
    PROVE  Fit(p, [Asked(p, answer) EXCEPT !.pc = place])
<1> DEFINE asked == Asked(p, answer)
           q == [asked EXCEPT !.pc = place]
<1>1. /\ asked \in ProcType /\ asked.pos = proc[p].pos /\ asked.cmd = proc[p].cmd
      /\ \A a : Trusts(asked, a) => Trusts(proc[p], a)
  BY AskedFacts, AskedTrusts
<1>2. /\ q.pc = place
      /\ q.cmd = proc[p].cmd /\ q.misread = asked.misread /\ q.disturbed = asked.disturbed
      /\ q.pos = proc[p].pos
  <2> HIDE DEF asked
  <2> QED
    BY <1>1 DEF ProcType
<1> HIDE DEF q
<1>3. ASSUME NEW k \in 1 .. Len(Accounts[p]), Trusts(q, Accounts[p][k])
      PROVE  /\ OwnTxs(p, q, k)
             /\ k < q.pos \/ q.pc = "serving" => Holds(p, q, Accounts[p][k])
             /\ k = q.pos => Unregistering(q, Accounts[p][k]) /\ Registering(p, q, Accounts[p][k])
  <2>1. Trusts(asked, Accounts[p][k])
    BY <1>2, <1>3 DEF Trusts
  <2>2. OwnTxs(p, q, k)
    <3> HIDE DEF asked
    <3>1. Over(p, asked)
      BY DEF asked
    <3> QED
      BY <1>1, <2>1, <3>1, OverFacts DEF OwnTxs
  <2>3. k < q.pos \/ q.pc = "serving" => Holds(p, q, Accounts[p][k])
    BY <1>1, <1>2, <2>1 DEF Fit, Holds
  <2>4. k = q.pos => Unregistering(q, Accounts[p][k]) /\ Registering(p, q, Accounts[p][k])
    BY <1>2, <2>1 DEF Acc, Unregistering, Registering
  <2> QED
    BY <2>2, <2>3, <2>4
<1> QED
  BY <1>2, <1>3 DEF Fit, q

(* Fit depends on the contracts, the transactions and the run.             *)
LEMMA FitKept ==
    ASSUME NEW p \in Run, NEW q, Fit(p, q), proc'[p] = q,
           UNCHANGED <<txs, ethRegistered, addressToProfile>>
    PROVE  Fit(p, proc[p])'
<1>1. \A a : Registered(a)' <=> Registered(a)
  BY DEF Registered
<1>2. \A a : Trusts(proc[p], a)' <=> Trusts(q, a)
  BY DEF Trusts
<1>3. ASSUME NEW k \in 1 .. Len(Accounts[p]), Trusts(q, Accounts[p][k])
      PROVE  /\ OwnTxs(p, proc[p], k)'
             /\ k < q.pos \/ q.pc = "serving" => Holds(p, proc[p], Accounts[p][k])'
             /\ k = q.pos => Unregistering(proc[p], Accounts[p][k])'
                             /\ Registering(p, proc[p], Accounts[p][k])'
  <2>1. OwnTxs(p, proc[p], k)'
    BY <1>3 DEF Fit, OwnTxs
  <2>2. k < q.pos \/ q.pc = "serving" => Holds(p, proc[p], Accounts[p][k])'
    BY <1>1, <1>3 DEF Fit, Holds
  <2>3. k = q.pos => Unregistering(proc[p], Accounts[p][k])'
    BY <1>1, <1>3 DEF Fit, Unregistering
  <2>4. k = q.pos => Registering(p, proc[p], Accounts[p][k])'
    BY <1>1, <1>3 DEF Fit, Registering
  <2> QED
    BY <2>1, <2>2, <2>3, <2>4
<1> QED
  BY <1>2, <1>3 DEF Fit

(* A step that changes nothing but the state of one run.                   *)
LEMMA ServeQuiet ==
    ASSUME TypeInv, ServeInv, NEW p \in Run, NEW q, Becomes(p, q), UNCHANGED chain,
           q.pc # "new", q.misread \subseteq Eth,
           q.pc \in {"off", "unregistered"} \/ Fit(p, q)
    PROVE  ServeInv'
<1>1. /\ proc \in [Run -> ProcType] /\ proc' = [proc EXCEPT ![p] = q]
      /\ UNCHANGED <<txs, ethRegistered, addressToProfile>>
  BY DEF Becomes, TypeInv, ProcInv, chain, contract, spMaps
<1>2. proc'[p] = q /\ \A r \in Run \ {p} : proc'[r] = proc[r]
  BY <1>1
<1>3. \A r \in Run : proc'[r].misread \subseteq Eth
  BY <1>2 DEF ServeInv
<1>4. NewInv'
  BY <1>1, <1>2 DEF ServeInv, NewInv
<1>5. ASSUME NEW r \in Run, ~ IsDown(r)'
      PROVE  Fit(r, proc[r])'
  <2>1. CASE r = p
    BY <1>1, <1>2, <1>5, <2>1, FitKept DEF IsDown
  <2>2. CASE r # p
    <3>1. proc'[r] = proc[r] /\ Fit(r, proc[r])
      BY <1>2, <1>5, <2>2 DEF IsDown, ServeInv
    <3> QED
      BY <1>1, <3>1, FitKept
  <2> QED
    BY <2>1, <2>2
<1> QED
  BY <1>3, <1>4, <1>5 DEF ServeInv

(* A step that sends a transaction and begins to wait for it.              *)
LEMMA ServeCall ==
    ASSUME TypeInv, ServeInv, NEW p \in Run, NEW t \in TxType,
           t.state = "pending", t.run = p, t.from = Acc(p), Send(t),
           NEW waiting \in {"unregistering", "registering"},
           Becomes(p, [proc[p] EXCEPT !.pc = waiting, !.awaited = Len(txs) + 1]),
           IF waiting = "unregistering" THEN proc[p].pc = "unregister"
           ELSE proc[p].pc = "register" /\ t.method = "registerStorageProvider"
                /\ t.arg.minAsk = Ask[p],
           UNCHANGED <<contract, ethRegistered>>
    PROVE  ServeInv'
<1> DEFINE n == Len(txs) + 1
<1>1. proc' = [proc EXCEPT ![p] = [proc[p] EXCEPT !.pc = waiting, !.awaited = n]]
      /\ proc \in [Run -> ProcType]
  BY DEF Becomes, TypeInv, ProcInv
<1>2. /\ proc'[p].pc = waiting /\ proc'[p].awaited = n /\ proc'[p].pos = proc[p].pos
      /\ proc'[p].cmd = proc[p].cmd
      /\ proc'[p].disturbed = proc[p].disturbed /\ proc'[p].misread = proc[p].misread
      /\ \A r \in Run \ {p} : proc'[r] = proc[r]
  BY <1>1 DEF ProcType
<1>3. /\ Len(txs) \in Nat /\ Len(txs') = n
      /\ \A j \in 1 .. n : txs'[j] = IF j = n THEN t ELSE txs[j]
  BY DEF Send, TypeInv, TxsInv
<1>4. \A a : (Registered(a)' <=> Registered(a)) /\ addressToProfile'[a] = addressToProfile[a]
  BY DEF Registered, contract, spMaps
<1>5. ~ IsDown(p) /\ proc[p].pc \notin {"new", "unregistering", "registering", "serving"}
  BY DEF IsDown
<1>6. NewInv'
  <2> SUFFICES ASSUME NEW r \in Run, proc'[r].pc = "new", NEW j \in 1 .. n,
                      txs'[j].state = "pending", txs'[j].run = r
               PROVE  FALSE
    BY <1>3 DEF NewInv
  <2>1. r # p /\ proc[r].pc = "new"
    BY <1>2
  <2>2. j \in 1 .. Len(txs) /\ txs'[j] = txs[j]
    BY <1>3, <2>1
  <2> QED
    BY <2>1, <2>2 DEF ServeInv, NewInv
<1>7. ASSUME NEW r \in Run, r # p, ~ IsDown(r)'
      PROVE  Fit(r, proc[r])'
  <2>1. proc'[r] = proc[r] /\ Fit(r, proc[r])
    BY <1>2, <1>7 DEF IsDown, ServeInv
  <2>2. proc[r].pc \in {"unregistering", "registering"} =>
          proc[r].awaited \in 1 .. Len(txs) /\ txs'[proc[r].awaited] = txs[proc[r].awaited]
    BY <1>3, <2>1 DEF Fit
  <2>3. ASSUME NEW k \in 1 .. Len(Accounts[r]), Trusts(proc[r], Accounts[r][k])
        PROVE  /\ OwnTxs(r, proc[r], k)'
               /\ k < proc[r].pos \/ proc[r].pc = "serving" => Holds(r, proc[r], Accounts[r][k])'
               /\ k = proc[r].pos => Unregistering(proc[r], Accounts[r][k])'
                                     /\ Registering(r, proc[r], Accounts[r][k])'
    <3>1. OwnTxs(r, proc[r], k)'
      BY <1>3, <1>7, <2>1, <2>3 DEF Fit, OwnTxs
    <3>2. k < proc[r].pos \/ proc[r].pc = "serving" => Holds(r, proc[r], Accounts[r][k])'
      BY <1>4, <2>1, <2>3 DEF Fit, Holds
    <3>3. k = proc[r].pos => Unregistering(proc[r], Accounts[r][k])'
      BY <1>4, <2>1, <2>2, <2>3 DEF Fit, Unregistering
    <3>4. k = proc[r].pos => Registering(r, proc[r], Accounts[r][k])'
      BY <1>4, <2>1, <2>2, <2>3 DEF Fit, Registering
    <3> QED
      BY <3>1, <3>2, <3>3, <3>4
  <2> QED
    BY <1>3, <2>1, <2>2, <2>3 DEF Fit, Trusts
<1>8. Fit(p, proc[p])'
  <2>1. Fit(p, proc[p])
    BY <1>5 DEF ServeInv
  <2>2. txs'[n] = t /\ n \in 1 .. n
    BY <1>3
  <2>3. ASSUME NEW k \in 1 .. Len(Accounts[p]), Trusts(proc[p], Accounts[p][k])
        PROVE  /\ OwnTxs(p, proc[p], k)'
               /\ k < proc[p].pos => Holds(p, proc[p], Accounts[p][k])'
               /\ k = proc[p].pos => Unregistering(proc[p], Accounts[p][k])'
                                     /\ Registering(p, proc[p], Accounts[p][k])'
    <3>1. OwnTxs(p, proc[p], k)'
      <4> SUFFICES ASSUME NEW j \in 1 .. n, txs'[j].state = "pending", txs'[j].run = p,
                          txs'[j].from = Accounts[p][k]
                   PROVE  k = proc[p].pos /\ j = n
        BY <1>2, <1>3 DEF OwnTxs
      <4>1. j = n
        BY <1>3, <1>5, <2>1, <2>3 DEF Fit, OwnTxs
      <4>2. Accounts[p][k] = Accounts[p][proc[p].pos]
        BY <2>2, <4>1 DEF Acc
      <4> QED
        BY <4>1, <4>2, AccountsInjective DEF TypeInv, ProcInv
    <3>2. k < proc[p].pos => Holds(p, proc[p], Accounts[p][k])'
      BY <1>2, <1>4, <2>1, <2>3 DEF Fit, Holds
    <3>3. k = proc[p].pos => Unregistering(proc[p], Accounts[p][k])'
      BY <1>2, <1>4, <2>1, <2>3 DEF Fit, Unregistering
    <3>4. k = proc[p].pos => Registering(p, proc[p], Accounts[p][k])'
      BY <1>2, <1>4, <2>1, <2>2, <2>3 DEF Fit, Registering, Acc
    <3> QED
      BY <3>1, <3>2, <3>3, <3>4
  <2> QED
    BY <1>2, <1>3, <2>2, <2>3 DEF Fit, Trusts
<1>9. \A r \in Run : proc'[r].misread \subseteq Eth
  BY <1>2 DEF ServeInv
<1> QED
  BY <1>6, <1>7, <1>8, <1>9 DEF ServeInv

(* What a run may become without a transaction of its own.                 *)
Ready(p, q) ==
    /\ q.pc # "new" /\ q.misread \subseteq Eth
    /\ q.pc \in {"off", "unregistered"} \/ Fit(p, q)

LEMMA DownReady ==
    ASSUME NEW p \in Run, NEW how \in {"off", "unregistered"}
    PROVE  Ready(p, Down(how))
<1>1. Down(how).pc = how /\ Down(how).misread = {}
  BY DEF Down, Begun
<1> QED
  BY <1>1 DEF Ready

LEMMA GoOnReady ==
    ASSUME TypeInv, NEW p \in Run, proc[p].misread \subseteq Eth, NEW answer \in BOOLEAN
    PROVE  /\ \A place \in {"unregister", "register"} :
                Fit(p, [Asked(p, answer) EXCEPT !.pc = place]) =>
                    Ready(p, [Asked(p, answer) EXCEPT !.pc = place])
           /\ Fit(p, NextAccount(Asked(p, answer), p)) => Ready(p, NextAccount(Asked(p, answer), p))
<1> DEFINE asked == Asked(p, answer)
<1>1. asked \in ProcType /\ asked.misread \subseteq Eth /\ asked.pos \in 1 .. Len(Accounts[p])
  BY AskedFacts, AskedTrusts DEF TypeInv, ProcInv
<1>2. NextAccount(asked, p).misread = asked.misread /\ NextAccount(asked, p).pc # "new"
  <2> HIDE DEF asked
  <2> QED
    BY <1>1 DEF NextAccount, ProcType
<1>3. \A place \in {"unregister", "register"} :
        [asked EXCEPT !.pc = place].misread = asked.misread /\ [asked EXCEPT !.pc = place].pc # "new"
  <2> HIDE DEF asked
  <2> QED
    BY <1>1 DEF ProcType
<1> QED
  BY <1>1, <1>2, <1>3 DEF Ready

LEMMA CheckReady ==
    ASSUME TypeInv, ServeInv, NEW p \in Run, checkRegistration(p)
    PROVE  \E q : Ready(p, q) /\ Becomes(p, q)
<1>1. proc[p].pc = "check" /\ Fit(p, proc[p]) /\ proc[p].misread \subseteq Eth
  BY DEF checkRegistration, ServeInv, IsDown
<1>2. PICK isReg \in Answers(p) :
        \/ isReg /\ proc[p].cmd # "run" /\ Becomes(p, [Asked(p, isReg) EXCEPT !.pc = "unregister"])
        \/ isReg /\ proc[p].cmd = "run" /\ Becomes(p, NextAccount(Asked(p, isReg), p))
        \/ Becomes(p, Down("unregistered"))
        \/ ~ isReg /\ Becomes(p, [Asked(p, isReg) EXCEPT !.pc = "register"])
        \/ Becomes(p, Down("off"))
  <2>1. \A answer \in Answers(p) : Asked(p, answer).cmd = proc[p].cmd
    BY AskedFacts
  <2> QED
    BY <2>1 DEF checkRegistration
<1>3. isReg \in BOOLEAN /\ (isReg => Registered(Acc(p)))
  BY AnswerIsBoolean DEF Answers, Reads
<1>4. Over(p, Asked(p, isReg))
  BY <1>1 DEF Over
<1>5. CASE isReg /\ proc[p].cmd # "run" /\ Becomes(p, [Asked(p, isReg) EXCEPT !.pc = "unregister"])
  <2>1. Fit(p, [Asked(p, isReg) EXCEPT !.pc = "unregister"])
    BY <1>1, <1>3, <1>4, <1>5, FitSame
  <2> QED
    BY <1>1, <1>3, <1>5, <2>1, GoOnReady
<1>6. CASE isReg /\ proc[p].cmd = "run" /\ Becomes(p, NextAccount(Asked(p, isReg), p))
  <2>1. Holds(p, proc[p], Acc(p))
    BY <1>3, <1>6 DEF Holds
  <2>2. Fit(p, NextAccount(Asked(p, isReg), p))
    BY <1>1, <1>3, <1>4, <2>1, FitNext
  <2> QED
    BY <1>1, <1>3, <1>6, <2>2, GoOnReady
<1>7. CASE ~ isReg /\ Becomes(p, [Asked(p, isReg) EXCEPT !.pc = "register"])
  <2>1. Trusts(Asked(p, isReg), Acc(p)) => (Acc(p) \in Eth => ~ Registered(Acc(p)))
    BY <1>1, <1>3, <1>7, AskedTrusts
  <2>2. Fit(p, [Asked(p, isReg) EXCEPT !.pc = "register"])
    BY <1>1, <1>3, <1>4, <2>1, FitSame
  <2> QED
    BY <1>1, <1>3, <1>7, <2>2, GoOnReady
<1> QED
  BY <1>2, <1>5, <1>6, <1>7, DownReady

LEMMA WaitUnregisterReady ==
    ASSUME TypeInv, ServeInv, NEW p \in Run, WaitUnregister(p)
    PROVE  \E q : Ready(p, q) /\ Becomes(p, q)
<1>1. /\ proc[p].pc = "unregistering" /\ Completed(p, FALSE)
      /\ Fit(p, proc[p]) /\ proc[p].misread \subseteq Eth
  BY DEF WaitUnregister, ServeInv, IsDown
<1>2. CASE Becomes(p, Down("unregistered"))
  BY <1>2, DownReady
<1>3. CASE Becomes(p, [Asked(p, FALSE) EXCEPT !.pc = "register"])
  <2>1. Trusts(Asked(p, FALSE), Acc(p)) => (Acc(p) \in Eth => ~ Registered(Acc(p)))
    BY <1>1, AskedTrusts
  <2>2. Over(p, Asked(p, FALSE))
    <3> SUFFICES ASSUME Trusts(Asked(p, FALSE), Acc(p)) PROVE txs[proc[p].awaited].state # "pending"
      BY DEF Over
    <3>1. CASE Acc(p) \in Eth
      <4>1. Trusts(proc[p], Acc(p)) /\ proc[p].pos \in 1 .. Len(Accounts[p])
        BY <1>1, AskedTrusts DEF TypeInv, ProcInv
      <4>2. Unregistering(proc[p], Acc(p))
        BY <1>1, <4>1 DEF Fit, Acc
      <4> QED
        BY <1>1, <2>1, <3>1, <4>2 DEF Unregistering
    <3>2. CASE Acc(p) \notin Eth
      BY <1>1, <3>2 DEF Completed, Succeeded
    <3> QED
      BY <3>1, <3>2
  <2>3. Fit(p, [Asked(p, FALSE) EXCEPT !.pc = "register"])
    BY <1>1, <2>1, <2>2, FitSame
  <2> QED
    BY <1>1, <1>3, <2>3, GoOnReady
<1> QED
  BY <1>2, <1>3 DEF WaitUnregister

LEMMA WaitRegisterReady ==
    ASSUME TypeInv, ServeInv, NEW p \in Run, WaitRegister(p)
    PROVE  \E q : Ready(p, q) /\ Becomes(p, q)
<1>1. /\ proc[p].pc = "registering" /\ Completed(p, TRUE)
      /\ Fit(p, proc[p]) /\ proc[p].misread \subseteq Eth
      /\ Becomes(p, NextAccount(Asked(p, TRUE), p))
  BY DEF WaitRegister, ServeInv, IsDown
<1>2. ASSUME Trusts(Asked(p, TRUE), Acc(p))
      PROVE  txs[proc[p].awaited].state # "pending" /\ Holds(p, proc[p], Acc(p))
  <2>1. Trusts(proc[p], Acc(p)) /\ proc[p].pos \in 1 .. Len(Accounts[p])
    BY <1>1, <1>2, AskedTrusts DEF TypeInv, ProcInv
  <2>2. Registering(p, proc[p], Acc(p))
    BY <1>1, <2>1 DEF Fit, Acc
  <2>3. CASE Acc(p) \in Eth
    <3>1. Registered(Acc(p))
      BY <1>1, <2>3, AnswerIsBoolean DEF Completed, Answers, Reads
    <3> QED
      BY <1>1, <2>2, <2>3, <3>1 DEF Registering, Holds
  <2>4. CASE Acc(p) \notin Eth
    <3>1. txs[proc[p].awaited].state = "halt"
      BY <1>1, <2>4 DEF Completed, Succeeded
    <3> QED
      BY <1>1, <2>2, <2>4, <3>1 DEF Registering, Holds
  <2> QED
    BY <2>3, <2>4
<1>3. Over(p, Asked(p, TRUE))
  BY <1>2 DEF Over
<1>4. Fit(p, NextAccount(Asked(p, TRUE), p))
  BY <1>1, <1>2, <1>3, FitNext
<1> QED
  BY <1>1, <1>4, GoOnReady

(* A step of a run.                                                        *)
LEMMA ServeRun ==
    ASSUME TypeInv, ServeInv, NEW p \in Run, RunStep(p) \/ Kill(p)
    PROVE  ServeInv'
<1>1. ASSUME NEW q, Ready(p, q), Becomes(p, q), UNCHANGED chain
      PROVE  ServeInv'
  BY <1>1, ServeQuiet DEF Ready
<1>2. CASE UnregisterSP(p)
  <2> DEFINE t == Tx(p, "unregisterStorageProvider", Acc(p), Id[Acc(p)])
  <2>1. proc[p].pc = "unregister" /\ UNCHANGED <<contract, ethRegistered>>
    BY <1>2 DEF UnregisterSP
  <2>2. CASE Send(t) /\ Becomes(p, [proc[p] EXCEPT !.pc = "unregistering", !.awaited = Len(txs) + 1])
    <3>1. t \in TxType /\ t.state = "pending" /\ t.run = p /\ t.from = Acc(p)
      BY AskedFacts, RegistrationAssumption DEF Tx, TxType
    <3> HIDE DEF t
    <3> QED
      BY <2>1, <2>2, <3>1, ServeCall
  <2>3. CASE Becomes(p, Down("off")) /\ UNCHANGED txs
    BY <1>1, <2>1, <2>3, DownReady DEF chain
  <2> QED
    BY <1>2, <2>2, <2>3 DEF UnregisterSP, Calls
<1>3. CASE RegisterSP(p)
  <2> DEFINE profile == [minAsk |-> Ask[p], nodeId |-> Id[Acc(p)]]
             t == Tx(p, "registerStorageProvider", Acc(p), profile)
  <2>1. proc[p].pc = "register" /\ UNCHANGED <<contract, ethRegistered>>
    BY <1>3 DEF RegisterSP
  <2>2. CASE Send(t) /\ Becomes(p, [proc[p] EXCEPT !.pc = "registering", !.awaited = Len(txs) + 1])
    <3>1. profile \in Profile /\ profile.minAsk = Ask[p]
      BY AskedFacts, RegistrationAssumption DEF Profile
    <3>2. /\ t \in TxType /\ t.state = "pending" /\ t.run = p /\ t.from = Acc(p)
          /\ t.method = "registerStorageProvider" /\ t.arg = profile
      <4> HIDE DEF profile
      <4> QED
        BY <3>1, AskedFacts DEF Tx, TxType
    <3> HIDE DEF t, profile
    <3> QED
      BY <2>1, <2>2, <3>1, <3>2, ServeCall
  <2>3. CASE Becomes(p, Down("off")) /\ UNCHANGED txs
    BY <1>1, <2>1, <2>3, DownReady DEF chain
  <2> QED
    BY <1>3, <2>2, <2>3 DEF RegisterSP, Calls
<1>4. CASE checkRegistration(p)
  BY <1>1, <1>4, CheckReady DEF checkRegistration
<1>5. CASE WaitUnregister(p)
  BY <1>1, <1>5, WaitUnregisterReady DEF WaitUnregister
<1>6. CASE WaitRegister(p)
  BY <1>1, <1>6, WaitRegisterReady DEF WaitRegister
<1>7. CASE WaitFails(p) \/ Kill(p)
  BY <1>1, <1>7, DownReady DEF WaitFails, Kill
<1> QED
  BY <1>2, <1>3, <1>4, <1>5, <1>6, <1>7 DEF RunStep

LEMMA ServeBlock ==
    ASSUME TypeInv, MapsInv, ServeInv, NEW i \in 1 .. Len(txs), NeoBlock(i) \/ EthBlock(i)
    PROVE  ServeInv'
<1>1. Disturb(txs[i])
  BY DEF NeoBlock, EthBlock
<1>2. /\ txs[i].state = "pending" /\ txs'[i].state # "pending" /\ Len(txs') = Len(txs)
      /\ \A j \in 1 .. Len(txs) : j # i => txs'[j] = txs[j]
  BY BlockFacts
<1>3. \A p \in Run : proc'[p].pc = proc[p].pc /\ proc'[p].misread = proc[p].misread
  BY <1>1 DEF Disturb, TypeInv, ProcInv, ProcType
<1>4. NewInv'
  BY <1>2, <1>3 DEF ServeInv, NewInv
<1>5. \A p \in Run : ~ IsDown(p)' => Fit(p, proc[p])'
  BY <1>3, FitBlock DEF ServeInv, IsDown
<1> QED
  BY <1>3, <1>4, <1>5 DEF ServeInv

LEMMA ServeStart ==
    ASSUME TypeInv, ServeInv, NEW p \in Run, NEW c \in Command, Start(p, c)
    PROVE  ServeInv'
<1> DEFINE q == Begun(c)
<1>1. /\ proc[p].pc = "new" /\ Becomes(p, q) /\ UNCHANGED chain
      /\ q.pc = "check" /\ q.pos = 1 /\ q.misread = {}
  BY DEF Start, Begun
<1>2. \A i \in 1 .. Len(txs) : ~ (txs[i].state = "pending" /\ txs[i].run = p)
  BY <1>1 DEF ServeInv, NewInv
<1> HIDE DEF q
<1>3. Fit(p, q)
  BY <1>1, <1>2 DEF Fit, OwnTxs, Unregistering, Registering
<1> QED
  BY <1>1, <1>3, ServeQuiet

LEMMA ServeStep ==
    TypeInv /\ MapsInv /\ ServeInv /\ [Next]_vars => ServeInv'
<1> SUFFICES ASSUME TypeInv, MapsInv, ServeInv, [Next]_vars PROVE ServeInv'
  OBVIOUS
<1>1. ASSUME NEW i \in DOMAIN txs, NeoBlock(i) \/ EthBlock(i)
      PROVE  ServeInv'
  BY <1>1, TxsFacts, ServeBlock
<1>2. CASE UNCHANGED vars
  <2>1. UNCHANGED <<txs, ethRegistered, addressToProfile, proc>>
    BY <1>2 DEF vars, chain, contract, spMaps
  <2>2. \A p \in Run : Fit(p, proc[p]) => Fit(p, proc[p])'
    BY <2>1, FitKept
  <2> QED
    BY <2>1, <2>2 DEF ServeInv, NewInv, IsDown
<1> QED
  BY <1>1, <1>2, ServeStart, ServeRun DEF Next

LEMMA ServeInit ==
    Init => ServeInv
<1> SUFFICES ASSUME Init PROVE ServeInv
  OBVIOUS
<1>1. Len(txs) = 0
  BY DEF Init
<1>2. \A p \in Run : proc[p].pc = "new" /\ proc[p].misread = {}
  BY DEF Init, Down, Begun
<1> QED
  BY <1>1, <1>2 DEF ServeInv, NewInv, IsDown

(* A provider that serves is registered with each of its accounts, and on  *)
(* Neo with the ask of its registration file if it was told to register,   *)
(* however many runs share the accounts and whichever of their old         *)
(* transactions come late, unless one of those took effect in between or   *)
(* a failing RPC let an Ethereum wait end early.                           *)
THEOREM ServingIsRegisteredAlways ==
    Spec => []ServingIsRegistered
<1>1. TypeInv /\ ServeInv => ServingIsRegistered
  <2> SUFFICES ASSUME TypeInv, ServeInv, NEW p \in Run, proc[p].pc = "serving",
                      NEW a \in Range(Accounts[p]) \ proc[p].disturbed
               PROVE  /\ a \in Eth /\ a \notin proc[p].misread => Registered(a)
                      /\ a \notin Eth => Registered(a)
                      /\ a \notin Eth /\ proc[p].cmd = "register" =>
                           addressToProfile[a].minAsk = Ask[p]
    BY DEF ServingIsRegistered
  <2>1. Fit(p, proc[p]) /\ proc[p].misread \subseteq Eth
    BY DEF ServeInv, IsDown
  <2>2. PICK k \in 1 .. Len(Accounts[p]) : a = Accounts[p][k]
    BY AccountFacts DEF Range
  <2>3. a \notin proc[p].misread => Holds(p, proc[p], a)
    BY <2>1, <2>2 DEF Fit, Trusts
  <2> QED
    BY <2>1, <2>3 DEF Holds
<1>2. TypeInv /\ MapsInv /\ ServeInv /\ [Next]_vars => ServeInv'
  BY ServeStep
<1> QED
  BY <1>1, <1>2, ServeInit, InvAlways, PTL DEF Spec
-----------------------------------------------------------------------------
(* No run goes on for ever                                                 *)

(* What a run may still do: five steps for each account it has yet to come *)
(* to and what is left for the one it is at, and to be stopped when it     *)
(* serves.                                                                 *)
ToGo(p, q) ==
    LET later == 5 * (Len(Accounts[p]) - q.pos) IN
    CASE q.pc = "new"           -> 5 * Len(Accounts[p]) + 2
      [] q.pc = "check"         -> later + 6
      [] q.pc = "unregister"    -> later + 5
      [] q.pc = "unregistering" -> later + 4
      [] q.pc = "register"      -> later + 3
      [] q.pc = "registering"   -> later + 2
      [] q.pc = "serving"       -> 1
      [] q.pc \in {"off", "unregistered"} -> 0

LEMMA ToGoFacts ==
    ASSUME NEW p \in Run, NEW q \in ProcType, q.pos \in 1 .. Len(Accounts[p])
    PROVE  /\ ToGo(p, q) \in Nat
           /\ \A how \in {"off", "unregistered"} : ToGo(p, Down(how)) = 0
           /\ q.pc \notin {"off", "unregistered"} => ToGo(p, q) > 0
           /\ q.pc \in {"check", "registering"} => ToGo(p, NextAccount(q, p)) < ToGo(p, q)
<1>1. Len(Accounts[p]) \in Nat /\ q.pos \in Nat /\ q.pos <= Len(Accounts[p]) /\ q.pc \in Place
  BY AccountFacts DEF ProcType
<1>2. ToGo(p, q) \in Nat /\ (q.pc \notin {"off", "unregistered"} => ToGo(p, q) > 0)
  <2> DEFINE later == 5 * (Len(Accounts[p]) - q.pos)
  <2>1. later \in Nat /\ 5 * Len(Accounts[p]) + 2 \in Nat /\ 5 * Len(Accounts[p]) + 2 > 0
    BY <1>1
  <2>2. ToGo(p, q) = CASE q.pc = "new"     -> 5 * Len(Accounts[p]) + 2
                       [] q.pc = "check"         -> later + 6
                       [] q.pc = "unregister"    -> later + 5
                       [] q.pc = "unregistering" -> later + 4
                       [] q.pc = "register"      -> later + 3
                       [] q.pc = "registering"   -> later + 2
                       [] q.pc = "serving"       -> 1
                       [] q.pc \in {"off", "unregistered"} -> 0
    BY DEF ToGo
  <2> HIDE DEF later
  <2> QED
    BY <1>1, <2>1, <2>2 DEF Place
<1>3. ASSUME NEW how \in {"off", "unregistered"} PROVE ToGo(p, Down(how)) = 0
  <2>1. Down(how).pc = how
    BY BegunFacts DEF Place, Command
  <2> QED
    BY <2>1 DEF ToGo
<1>4. ASSUME q.pc \in {"check", "registering"}
      PROVE  ToGo(p, NextAccount(q, p)) < ToGo(p, q)
  <2>1. CASE q.pos = Len(Accounts[p])
    <3>1. NextAccount(q, p).pc = "serving"
      BY <2>1 DEF NextAccount, ProcType
    <3> DEFINE r == NextAccount(q, p)
    <3>2. r.pc = "serving"
      BY <3>1
    <3> HIDE DEF r
    <3>3. ToGo(p, r) = 1
      BY <3>2 DEF ToGo
    <3>4. ToGo(p, q) = 6 \/ ToGo(p, q) = 2
      <4> DEFINE later == 5 * (Len(Accounts[p]) - q.pos)
      <4>1. later = 0
        BY <1>1, <2>1
      <4>2. ToGo(p, q) = later + 6 \/ ToGo(p, q) = later + 2
        BY <1>4 DEF ToGo
      <4> HIDE DEF later
      <4> QED
        BY <4>1, <4>2
    <3> QED
      BY <3>3, <3>4 DEF r
  <2>2. CASE q.pos # Len(Accounts[p])
    <3>1. NextAccount(q, p).pc = "check" /\ NextAccount(q, p).pos = q.pos + 1
      BY <2>2 DEF NextAccount, ProcType
    <3> DEFINE r == NextAccount(q, p)
               later == 5 * (Len(Accounts[p]) - q.pos)
    <3>2. r.pc = "check" /\ r.pos = q.pos + 1
      BY <3>1
    <3> HIDE DEF r
    <3>3. ToGo(p, r) = later - 5 + 6 /\ later \in Nat
      <4>1. 5 * (Len(Accounts[p]) - (q.pos + 1)) = later - 5 /\ later \in Nat
        BY <1>1
      <4> QED
        BY <3>2, <4>1 DEF ToGo
    <3>4. ToGo(p, q) = later + 6 \/ ToGo(p, q) = later + 2
      BY <1>4 DEF ToGo
    <3> HIDE DEF later
    <3> QED
      BY <3>3, <3>4 DEF r
  <2> QED
    BY <2>1, <2>2
<1> QED
  BY <1>2, <1>3, <1>4

LEMMA ToGoCall ==
    ASSUME TypeInv, NEW p \in Run, NEW t, NEW waiting, Calls(p, t, waiting),
           \/ proc[p].pc = "unregister" /\ waiting = "unregistering"
           \/ proc[p].pc = "register" /\ waiting = "registering"
    PROVE  \E q : Becomes(p, q) /\ ToGo(p, q) < ToGo(p, proc[p])
<1>1. proc[p] \in ProcType /\ proc[p].pos \in 1 .. Len(Accounts[p]) /\ Len(Accounts[p]) \in Nat
  BY AccountFacts DEF TypeInv, ProcInv
<1>2. CASE Becomes(p, Down("off"))
  BY <1>1, <1>2, ToGoFacts
<1>3. CASE Becomes(p, [proc[p] EXCEPT !.pc = waiting, !.awaited = Len(txs) + 1])
  <2> DEFINE q == [proc[p] EXCEPT !.pc = waiting, !.awaited = Len(txs) + 1]
  <2>1. q.pc = waiting /\ q.pos = proc[p].pos /\ q.pos \in Int
    BY <1>1 DEF ProcType
  <2>2. Becomes(p, q)
    BY <1>3
  <2> HIDE DEF q
  <2>3. ToGo(p, q) < ToGo(p, proc[p])
    BY <1>1, <2>1 DEF ToGo
  <2> QED
    BY <2>2, <2>3
<1> QED
  BY <1>2, <1>3 DEF Calls

LEMMA ToGoStep ==
    ASSUME TypeInv, NEW p \in Run, RunStep(p) \/ Kill(p) \/ \E c \in Command : Start(p, c)
    PROVE  \E q : Becomes(p, q) /\ ToGo(p, q) < ToGo(p, proc[p])
<1>1. /\ proc[p] \in ProcType /\ proc[p].pos \in 1 .. Len(Accounts[p])
      /\ Len(Accounts[p]) \in Nat \ {0}
  BY AccountFacts DEF TypeInv, ProcInv
<1>2. ASSUME NEW answer
      PROVE  LET a == Asked(p, answer)
             IN  /\ a \in ProcType /\ a.pos \in 1 .. Len(Accounts[p])
                 /\ a.pc = proc[p].pc /\ ToGo(p, a) = ToGo(p, proc[p])
                 /\ \A place : /\ [a EXCEPT !.pc = place].pc = place
                               /\ [a EXCEPT !.pc = place].pos = proc[p].pos
  <2> DEFINE a == Asked(p, answer)
  <2>1. a \in ProcType /\ a.pc = proc[p].pc /\ a.pos = proc[p].pos
    BY AskedFacts
  <2> HIDE DEF a
  <2>2. ToGo(p, a) = ToGo(p, proc[p])
    BY <2>1 DEF ToGo
  <2>3. \A place : [a EXCEPT !.pc = place].pc = place /\ [a EXCEPT !.pc = place].pos = a.pos
    BY <2>1 DEF ProcType
  <2> QED
    BY <1>1, <2>1, <2>2, <2>3 DEF a
<1>3. ASSUME Becomes(p, Down("off")) \/ Becomes(p, Down("unregistered")),
             proc[p].pc \notin {"off", "unregistered"}
      PROVE  \E q : Becomes(p, q) /\ ToGo(p, q) < ToGo(p, proc[p])
  BY <1>1, <1>3, ToGoFacts
<1>4. ASSUME NEW answer, NEW place,
             Becomes(p, [Asked(p, answer) EXCEPT !.pc = place]),
             \/ proc[p].pc = "check" /\ place \in {"unregister", "register"}
             \/ proc[p].pc = "unregistering" /\ place = "register"
      PROVE  \E q : Becomes(p, q) /\ ToGo(p, q) < ToGo(p, proc[p])
  <2> DEFINE q == [Asked(p, answer) EXCEPT !.pc = place]
  <2>1. q.pc = place /\ q.pos = proc[p].pos
    BY <1>2
  <2>2. Becomes(p, q)
    BY <1>4
  <2> HIDE DEF q
  <2>3. ToGo(p, q) < ToGo(p, proc[p])
    BY <1>1, <1>4, <2>1 DEF ToGo
  <2> QED
    BY <2>2, <2>3
<1>5. ASSUME NEW answer, Becomes(p, NextAccount(Asked(p, answer), p)),
             proc[p].pc \in {"check", "registering"}
      PROVE  \E q : Becomes(p, q) /\ ToGo(p, q) < ToGo(p, proc[p])
  <2> DEFINE a == Asked(p, answer)
  <2>1. a \in ProcType /\ a.pos \in 1 .. Len(Accounts[p]) /\ a.pc = proc[p].pc
        /\ ToGo(p, a) = ToGo(p, proc[p])
    BY <1>2
  <2> HIDE DEF a
  <2>2. ToGo(p, NextAccount(a, p)) < ToGo(p, proc[p])
    BY <1>5, <2>1, ToGoFacts
  <2> QED
    BY <1>5, <2>2 DEF a
<1>6. CASE checkRegistration(p)
  <2>1. proc[p].pc = "check"
    BY <1>6 DEF checkRegistration
  <2>2. PICK answer \in Answers(p) :
            \/ Becomes(p, [Asked(p, answer) EXCEPT !.pc = "unregister"])
            \/ Becomes(p, NextAccount(Asked(p, answer), p))
            \/ Becomes(p, Down("unregistered"))
            \/ Becomes(p, [Asked(p, answer) EXCEPT !.pc = "register"])
            \/ Becomes(p, Down("off"))
    BY <1>6 DEF checkRegistration
  <2> QED
    BY <1>3, <1>4, <1>5, <2>1, <2>2
<1>7. CASE UnregisterSP(p)
  BY <1>3, <1>7, ToGoCall DEF UnregisterSP
<1>8. CASE RegisterSP(p)
  BY <1>8, ToGoCall DEF RegisterSP
<1>9. CASE WaitUnregister(p)
  BY <1>3, <1>4, <1>9 DEF WaitUnregister
<1>10. CASE WaitRegister(p)
  BY <1>5, <1>10 DEF WaitRegister
<1>11. CASE WaitFails(p) \/ Kill(p)
  BY <1>3, <1>11 DEF WaitFails, Kill, IsDown
<1>12. ASSUME NEW c \in Command, Start(p, c)
       PROVE  \E q : Becomes(p, q) /\ ToGo(p, q) < ToGo(p, proc[p])
  <2>1. Begun(c).pc = "check" /\ Begun(c).pos = 1
    BY DEF Begun
  <2>2. ToGo(p, Begun(c)) < ToGo(p, proc[p])
    BY <1>1, <1>12, <2>1 DEF ToGo, Start
  <2> QED
    BY <1>12, <2>2 DEF Start
<1> QED
  BY <1>6, <1>7, <1>8, <1>9, <1>10, <1>11, <1>12 DEF RunStep

(* No run of the program goes on for ever, however often it has to         *)
(* register anew and whatever other runs and the chains do: each of its    *)
(* steps uses up one of at most five for each of its accounts, a block or  *)
(* another run gives it none, and a transaction is sent only in such a     *)
(* step.                                                                   *)
THEOREM RunsShrink ==
    Spec => /\ [](\A p \in Run : ToGo(p, proc[p]) \in Nat)
            /\ [][\A p \in Run :
                    \/ ToGo(p, proc'[p]) < ToGo(p, proc[p])
                    \/ /\ proc'[p].pc = proc[p].pc /\ proc'[p].pos = proc[p].pos
                       /\ proc'[p].cmd = proc[p].cmd /\ proc'[p].awaited = proc[p].awaited]_vars
            /\ [][Len(txs') # Len(txs) =>
                    \E p \in Run : ToGo(p, proc'[p]) < ToGo(p, proc[p])]_vars
<1> DEFINE Shorter(p) == ToGo(p, proc'[p]) < ToGo(p, proc[p])
           Same(p) == /\ proc'[p].pc = proc[p].pc /\ proc'[p].pos = proc[p].pos
                      /\ proc'[p].cmd = proc[p].cmd /\ proc'[p].awaited = proc[p].awaited
<1>1. TypeInv => \A p \in Run : ToGo(p, proc[p]) \in Nat
  BY ToGoFacts DEF TypeInv, ProcInv
<1>2. ASSUME TypeInv, Next
      PROVE  /\ \A p \in Run : Shorter(p) \/ Same(p)
             /\ Len(txs') # Len(txs) => \E p \in Run : Shorter(p)
  <2>1. ASSUME NEW p \in Run, RunStep(p) \/ Kill(p) \/ \E c \in Command : Start(p, c)
        PROVE  Shorter(p) /\ \A r \in Run : r # p => Same(r)
    <3>1. PICK q : Becomes(p, q) /\ ToGo(p, q) < ToGo(p, proc[p])
      BY <1>2, <2>1, ToGoStep
    <3>2. proc' = [proc EXCEPT ![p] = q] /\ proc \in [Run -> ProcType]
      BY <1>2, <3>1 DEF Becomes, TypeInv, ProcInv
    <3>3. proc'[p] = q /\ \A r \in Run : r # p => proc'[r] = proc[r]
      BY <3>2
    <3> QED
      BY <3>1, <3>3
  <2>2. ASSUME NEW i \in DOMAIN txs, NeoBlock(i) \/ EthBlock(i)
        PROVE  Len(txs') = Len(txs) /\ \A p \in Run : Same(p)
    <3>1. Len(txs') = Len(txs)
      <4>1. PICK result \in {"halt", "error"} : Settles(i, result)
        BY <2>2 DEF NeoBlock, EthBlock, IncludeInBlock
      <4> QED
        BY <1>2, <2>2, <4>1, TxsFacts, SettlesFacts DEF NeoBlock, EthBlock
    <3>2. txs[i].state = "pending" /\ Disturb(txs[i])
      BY <2>2 DEF NeoBlock, EthBlock
    <3> QED
      BY <1>2, <3>1, <3>2, TxsFacts, DisturbFacts
  <2> HIDE DEF Shorter, Same
  <2>3. CASE \E p \in Run : RunStep(p) \/ Kill(p) \/ \E c \in Command : Start(p, c)
    BY <2>1, <2>3
  <2>4. CASE \E i \in DOMAIN txs : NeoBlock(i) \/ EthBlock(i)
    BY <2>2, <2>4
  <2> QED
    BY <1>2, <2>3, <2>4 DEF Next
<1>3. TypeInv /\ [Next]_vars =>
        [\A p \in Run :
            \/ ToGo(p, proc'[p]) < ToGo(p, proc[p])
            \/ /\ proc'[p].pc = proc[p].pc /\ proc'[p].pos = proc[p].pos
               /\ proc'[p].cmd = proc[p].cmd /\ proc'[p].awaited = proc[p].awaited]_vars
  BY <1>2
<1>4. TypeInv /\ [Next]_vars =>
        [Len(txs') # Len(txs) => \E p \in Run : ToGo(p, proc'[p]) < ToGo(p, proc[p])]_vars
  BY <1>2
<1> QED
  BY <1>1, <1>3, <1>4, InvAlways, PTL DEF Spec
=============================================================================
