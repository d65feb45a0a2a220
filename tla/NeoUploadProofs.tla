--------------------------- MODULE NeoUploadProofs ---------------------------
(* Theorems about NeoUpload, for every value of its constants.             *)
EXTENDS NeoUpload, SetLemmas

-----------------------------------------------------------------------------
(* Types                                                                   *)

ProposalArg == [run: Run, sp: Provider, payment: Nat, mBytes: Nat]
Arg == UserName \cup Nat \cup ProposalArg

TxType ==
    [run: Run, method: {"registerUserName", "mintTokens", "proposeUpload"},
     from: Account, arg: Arg, state: {"pending"}]
    \cup [state: {"halt", "error"}, notification: ProposalArg \cup {None}]

(* A transaction that may still take effect says what its run had it say.  *)
PendingOK(t) ==
    /\ t.run \in Run
    /\ t.from = Of[t.run]
    /\ \/ t.method = "registerUserName" /\ t.arg \in UserName
       \/ t.method = "mintTokens" /\ t.arg \in Nat
       \/ t.method = "proposeUpload" /\ t.arg \in ProposalArg /\ t.arg.run = t.run

TxsInv ==
    /\ txs \in Seq(TxType)
    /\ \A i \in 1 .. Len(txs) : txs[i].state = "pending" => PendingOK(txs[i])

ClientType ==
    [pc: Place, name: UserName \cup {None}, sps: SUBSET Provider,
     listed: UNION {[P -> MinAsk] : P \in SUBSET Provider}, mBytes: Nat, payment: Nat,
     sent: UNION {[P -> Nat] : P \in SUBSET Provider}, awaited: Nat, funded: BOOLEAN]

(* The price covers the ask of every provider in the list.                 *)
Priced(c) == \A p \in DOMAIN c.listed : c.listed[p] * c.mBytes <= c.payment

ClientOK(c) ==
    /\ c.sps \subseteq DOMAIN c.listed
    /\ DOMAIN c.sent \subseteq DOMAIN c.listed
    /\ DOMAIN c.sent \cap c.sps = {}
    /\ Priced(c)
    /\ c.funded \/ DOMAIN c.sent # {} => c.pc \in {"propose", "posted"}

TypeInv ==
    /\ ContractTypeOK
    /\ changes \in 0 .. MaxChanges
    /\ verdict \in [Run -> [Provider -> {"none", "accepted", "refused"}]]
    /\ TxsInv
    /\ client \in [Run -> ClientType]
    /\ \A r \in Run : ClientOK(client[r])

-----------------------------------------------------------------------------
(* The invariant, of a run in state c                                      *)

(* The registration that it waits for is its own, and once that took       *)
(* effect the name stays.                                                  *)
NameFit(r, c) ==
    /\ c.pc = "registering" =>
        /\ c.awaited \in 1 .. Len(txs)
        /\ c.name \in UserName
        /\ txs[c.awaited].state = "pending" =>
            /\ txs[c.awaited].method = "registerUserName"
            /\ txs[c.awaited].from = Of[r]
            /\ txs[c.awaited].arg = c.name
        /\ txs[c.awaited].state = "halt" => addressToUserName[Of[r]] = c.name
    /\ c.pc \in {"confirm", "mint", "propose", "posted"} =>
        c.name # None /\ c.name = addressToUserName[Of[r]]

(* Its proposals are those it has sent, one to each provider.              *)
SentFit(r, c) ==
    /\ \A p \in DOMAIN c.sent :
        /\ c.sent[p] \in 1 .. Len(txs)
        /\ txs[c.sent[p]].state = "pending" =>
            /\ txs[c.sent[p]].method = "proposeUpload"
            /\ txs[c.sent[p]].run = r
            /\ txs[c.sent[p]].arg = [run |-> r, sp |-> p, payment |-> c.payment,
                                     mBytes |-> c.mBytes]
    /\ c.pc # "failed" =>
        \A i \in 1 .. Len(txs) : Proposal(i) /\ txs[i].run = r =>
            txs[i].arg.sp \in DOMAIN c.sent /\ c.sent[txs[i].arg.sp] = i

Unpaid(c) == {p \in DOMAIN c.sent : txs[c.sent[p]].state = "pending"}
SpentByOther(r) == \E q \in Run \ {r} : Of[q] = Of[r] /\ SpentBy(q)

(* What is left covers what it may still spend, if it had enough.          *)
FundFit(r, c) ==
    c.funded /\ ~ SpentByOther(r) =>
        cgas[Of[r]] >= c.payment * Cardinality(c.sps \cup Unpaid(c))

IInv ==
    /\ TypeInv
    /\ \A r \in Run : NameFit(r, client[r]) /\ SentFit(r, client[r]) /\ FundFit(r, client[r])

-----------------------------------------------------------------------------
(* Prices                                                                  *)

(* The price per provider is a number and no ask is higher.                *)
LEMMA HighestAskFacts ==
    ASSUME NEW P \in SUBSET Provider, P # {}, NEW listed \in [P -> MinAsk]
    PROVE  HighestAsk(listed) \in Nat /\ \A p \in P : listed[p] <= HighestAsk(listed)
<1> DEFINE asks == {listed[q] : q \in DOMAIN listed}
<1>1. IsFiniteSet(asks)
  <2>1. IsFiniteSet(P)
    BY NeoUploadAssumption, FS_Subset
  <2>2. listed \in Surjection(P, asks)
    BY DEF Surjection
  <2> QED
    BY <2>1, <2>2, FS_Surjection
<1>2. asks # {} /\ asks \subseteq Nat /\ asks \subseteq Int
  <2>1. PICK p \in P : TRUE
    OBVIOUS
  <2>2. listed[p] \in asks
    OBVIOUS
  <2>3. \A y \in asks : y \in MinAsk
    OBVIOUS
  <2>4. \A y \in MinAsk : y \in Nat /\ y \in Int
    BY NeoAssumption
  <2> HIDE DEF asks
  <2> QED
    BY <2>2, <2>3, <2>4
<1>3. Max(asks) \in asks /\ \A y \in asks : Max(asks) >= y
  <2> HIDE DEF asks
  <2> QED
    BY <1>1, <1>2, MaxFacts
<1> QED
  BY <1>2, <1>3 DEF HighestAsk

LEMMA Multiplied ==
    ASSUME NEW a \in Nat, NEW b \in Nat, NEW m \in Nat, a <= b
    PROVE  a * m \in Nat /\ b * m \in Nat /\ a * m <= b * m
OBVIOUS

-----------------------------------------------------------------------------
(* Transactions                                                            *)

LEMMA TxsFacts ==
    ASSUME TypeInv
    PROVE  /\ Len(txs) \in Nat
           /\ DOMAIN txs = 1 .. Len(txs)
           /\ \A i \in 1 .. Len(txs) : txs[i] \in TxType /\ txs[i].state \in TxState
BY DEF TypeInv, TxsInv, TxType, TxState

LEMMA SendFacts ==
    ASSUME TypeInv, NEW t \in TxType, PendingOK(t), Send(t)
    PROVE  /\ TxsInv' /\ Len(txs') = Len(txs) + 1
           /\ \A i \in 1 .. Len(txs) : txs'[i] = txs[i]
           /\ txs'[Len(txs) + 1] = t
<1>1. txs' = Append(txs, t) /\ txs \in Seq(TxType)
  BY DEF Send, TypeInv, TxsInv
<1>2. txs' \in Seq(TxType) /\ Len(txs') = Len(txs) + 1
  BY <1>1
<1>3. \A i \in 1 .. Len(txs') : txs'[i] = IF i <= Len(txs) THEN txs[i] ELSE t
  BY <1>1
<1>4. \A i \in 1 .. Len(txs') : (txs[i].state = "pending" => PendingOK(txs[i]))'
  BY <1>1, <1>2, <1>3 DEF TypeInv, TxsInv, PendingOK
<1> QED
  BY <1>1, <1>2, <1>3, <1>4 DEF TxsInv

LEMMA SettlesFacts ==
    ASSUME TypeInv, NEW i \in 1 .. Len(txs), txs[i].state = "pending",
           NEW outcome \in {"halt", "error"}, Settles(i, outcome)
    PROVE  /\ TxsInv'
           /\ Len(txs') = Len(txs)
           /\ txs'[i].state = outcome
           /\ txs'[i].notification = IF txs[i].method = "proposeUpload" /\ outcome = "halt"
                                    THEN txs[i].arg ELSE None
           /\ \A j \in 1 .. Len(txs) : j # i => txs'[j] = txs[j]
<1> DEFINE l == Log(txs[i], outcome)
<1>1. /\ l.state = outcome
      /\ l.notification = IF txs[i].method = "proposeUpload" /\ outcome = "halt"
                          THEN txs[i].arg ELSE None
      /\ l \in TxType
  BY DEF Log, TypeInv, TxsInv, PendingOK, TxType
<1>2. txs' = [txs EXCEPT ![i] = l] /\ txs \in Seq(TxType)
  BY DEF Settles, TypeInv, TxsInv
<1> HIDE DEF l
<1>3. txs' \in Seq(TxType) /\ Len(txs') = Len(txs)
  BY <1>1, <1>2
<1>4. \A j \in 1 .. Len(txs) : txs'[j] = IF j = i THEN l ELSE txs[j]
  BY <1>2
<1>5. \A j \in 1 .. Len(txs') : (txs[j].state = "pending" => PendingOK(txs[j]))'
  BY <1>1, <1>3, <1>4 DEF TypeInv, TxsInv, PendingOK
<1> QED
  BY <1>1, <1>3, <1>4, <1>5 DEF TxsInv

-----------------------------------------------------------------------------
(* Types of the runs                                                       *)

LEMMA IdleFacts ==
    /\ DOMAIN Idle.sent = {} /\ DOMAIN Idle.listed = {} /\ Idle.funded = FALSE
    /\ \A pc \in Place : [Idle EXCEPT !.pc = pc] \in ClientType /\ ClientOK([Idle EXCEPT !.pc = pc])
    /\ Idle \in ClientType /\ ClientOK(Idle)
<1>1. DOMAIN <<>> = {} /\ \A S : <<>> \in [{} -> S]
  OBVIOUS
<1>2. <<>> \in UNION {[P -> MinAsk] : P \in SUBSET Provider}
  BY <1>1
<1>3. <<>> \in UNION {[P -> Nat] : P \in SUBSET Provider}
  BY <1>1
<1>4. "new" \in Place
  BY DEF Place
<1>5. Idle \in ClientType
  BY <1>2, <1>3, <1>4 DEF Idle, ClientType
<1>6. \A pc \in Place : [Idle EXCEPT !.pc = pc] \in ClientType
  BY <1>5 DEF ClientType
<1>7. /\ DOMAIN Idle.sent = {} /\ DOMAIN Idle.listed = {} /\ Idle.funded = FALSE /\ Idle.sps = {}
      /\ \A pc \in Place : LET c == [Idle EXCEPT !.pc = pc] IN
            DOMAIN c.sent = {} /\ DOMAIN c.listed = {} /\ c.funded = FALSE /\ c.sps = {}
  BY <1>1 DEF Idle
<1>8. \A pc \in Place : ClientOK([Idle EXCEPT !.pc = pc])
  BY <1>7 DEF ClientOK, Priced
<1>9. ClientOK(Idle)
  BY <1>7 DEF ClientOK, Priced
<1> QED
  BY <1>5, <1>6, <1>7, <1>8, <1>9

LEMMA ClientFacts ==
    ASSUME TypeInv, NEW r \in Run
    PROVE  /\ client[r] \in ClientType
           /\ ClientOK(client[r])
           /\ Of[r] \in Account
           /\ DOMAIN client[r].listed \subseteq Provider
           /\ \A p \in DOMAIN client[r].listed : client[r].listed[p] \in MinAsk
           /\ DOMAIN client[r].sent \subseteq Provider
           /\ \A p \in DOMAIN client[r].sent : client[r].sent[p] \in Nat
<1>1. client[r] \in ClientType /\ ClientOK(client[r])
  BY DEF TypeInv
<1>2. /\ client[r].listed \in UNION {[P -> MinAsk] : P \in SUBSET Provider}
      /\ client[r].sent \in UNION {[P -> Nat] : P \in SUBSET Provider}
  BY <1>1 DEF ClientType
<1>3. PICK P \in SUBSET Provider : client[r].listed \in [P -> MinAsk]
  BY <1>2
<1>4. PICK Q \in SUBSET Provider : client[r].sent \in [Q -> Nat]
  BY <1>2
<1>5. Of[r] \in Account
  BY NeoUploadAssumption
<1> QED
  BY <1>1, <1>3, <1>4, <1>5

(* A run moves to c; what it sends, if anything, is in order.              *)
LEMMA StepTypes ==
    ASSUME TypeInv, NEW r \in Run, NEW c \in ClientType, ClientOK(c), Becomes(r, c),
           UNCHANGED txs \/ \E t \in TxType : PendingOK(t) /\ Send(t),
           UNCHANGED <<contract, verdict, changes>>
    PROVE  TypeInv'
<1>1. client' \in [Run -> ClientType] /\ \A q \in Run : ClientOK(client'[q])
  BY DEF Becomes, TypeInv
<1>2. TxsInv'
  <2>1. CASE UNCHANGED txs
    BY <2>1 DEF TypeInv, TxsInv, PendingOK
  <2>2. CASE \E t \in TxType : PendingOK(t) /\ Send(t)
    BY <2>2, SendFacts
  <2> QED
    BY <2>1, <2>2
<1>3. \A q \in Run : ClientOK(client[q])'
  BY <1>1 DEF ClientOK, Priced
<1> QED
  BY <1>1, <1>2, <1>3 DEF TypeInv, ContractTypeOK, contract, spMaps

-----------------------------------------------------------------------------
(* Steps of the runs                                                       *)

Fit(r) == NameFit(r, client[r]) /\ SentFit(r, client[r]) /\ FundFit(r, client[r])

(* Sending spends nothing.                                                 *)
LEMMA SendSpends ==
    ASSUME TypeInv, UNCHANGED txs \/ \E t \in TxType : PendingOK(t) /\ t.state = "pending" /\ Send(t)
    PROVE  /\ \A q \in Run : SpentBy(q)' <=> SpentBy(q)
           /\ \A q \in Run : SpentByOther(q)' <=> SpentByOther(q)
<1>1. CASE UNCHANGED txs
  BY <1>1 DEF SpentBy, SpentByOther
<1>2. CASE \E t \in TxType : PendingOK(t) /\ t.state = "pending" /\ Send(t)
  <2>1. PICK t \in TxType : PendingOK(t) /\ t.state = "pending" /\ Send(t)
    BY <1>2
  <2>2. /\ Len(txs) \in Nat /\ DOMAIN txs = 1 .. Len(txs)
        /\ TxsInv' /\ Len(txs') = Len(txs) + 1
        /\ \A i \in 1 .. Len(txs) : txs'[i] = txs[i]
        /\ txs'[Len(txs) + 1] = t
    BY <2>1, TxsFacts, SendFacts
  <2>3. DOMAIN txs' = 1 .. Len(txs) + 1
    BY <2>2 DEF TxsInv
  <2>4. \A q \in Run : SpentBy(q)' <=> SpentBy(q)
    BY <2>1, <2>2, <2>3 DEF SpentBy
  <2> QED
    BY <2>4 DEF SpentByOther
<1> QED
  BY <1>1, <1>2

(* What the other runs do does not concern a run, except through the CGAS. *)
LEMMA OthersFit ==
    ASSUME TypeInv, NEW r \in Run, NEW s \in Run, s # r, client'[s] = client[s], Fit(s),
           \/ UNCHANGED txs
           \/ \E t \in TxType : PendingOK(t) /\ t.state = "pending" /\ t.run = r /\ Send(t),
           UNCHANGED contract
    PROVE  Fit(s)'
<1>1. /\ Len(txs) \in Nat /\ Len(txs') \in Nat /\ Len(txs) <= Len(txs')
      /\ \A i \in 1 .. Len(txs) : txs'[i] = txs[i]
      /\ \A i \in 1 .. Len(txs') : i \in 1 .. Len(txs) \/ txs'[i].run = r
  <2>1. CASE UNCHANGED txs
    BY <2>1, TxsFacts
  <2>2. CASE \E t \in TxType : PendingOK(t) /\ t.state = "pending" /\ t.run = r /\ Send(t)
    <3>1. PICK t \in TxType : PendingOK(t) /\ t.state = "pending" /\ t.run = r /\ Send(t)
      BY <2>2
    <3>2. /\ Len(txs) \in Nat /\ Len(txs') = Len(txs) + 1
          /\ \A i \in 1 .. Len(txs) : txs'[i] = txs[i]
          /\ txs'[Len(txs) + 1] = t
      BY <3>1, TxsFacts, SendFacts
    <3> QED
      BY <3>1, <3>2
  <2> QED
    BY <2>1, <2>2
<1>2. UNCHANGED <<addressToUserName, cgas>>
  BY DEF contract
<1>3. NameFit(s, client[s])'
  BY <1>1, <1>2 DEF Fit, NameFit
<1>4. SentFit(s, client[s])'
  BY <1>1 DEF Fit, SentFit, Proposal
<1>5. FundFit(s, client[s])'
  <2>1. Unpaid(client[s])' = Unpaid(client[s])
    <3>1. \A p \in DOMAIN client[s].sent : txs'[client[s].sent[p]] = txs[client[s].sent[p]]
      BY <1>1 DEF Fit, SentFit
    <3> QED
      BY <3>1 DEF Unpaid
  <2>2. SpentByOther(s)' <=> SpentByOther(s)
    BY SendSpends
  <2> QED
    BY <1>2, <2>1, <2>2 DEF Fit, FundFit
<1> QED
  BY <1>3, <1>4, <1>5 DEF Fit

LEMMA StepFits ==
    ASSUME IInv, NEW r \in Run, NEW c \in ClientType, ClientOK(c), Becomes(r, c),
           \/ UNCHANGED txs
           \/ \E t \in TxType : PendingOK(t) /\ t.state = "pending" /\ t.run = r /\ Send(t),
           UNCHANGED <<contract, verdict, changes>>, Fit(r)'
    PROVE  IInv'
<1>1. TypeInv'
  BY StepTypes DEF IInv
<1>2. \A s \in Run \ {r} : client'[s] = client[s]
  BY DEF Becomes, IInv, TypeInv
<1>3. \A s \in Run \ {r} : Fit(s)'
  BY <1>2, OthersFit DEF IInv, Fit
<1> QED
  BY <1>1, <1>3 DEF IInv, Fit

(* A run that only changes its place and what it shows or will pay, before *)
(* it proposes.                                                            *)
LEMMA EarlyFits ==
    ASSUME IInv, NEW r \in Run, NEW c \in ClientType, ClientOK(c), Becomes(r, c),
           UNCHANGED <<txs, contract, verdict, changes>>,
           client[r].pc \notin {"propose", "posted", "failed"}, DOMAIN c.sent = {}, ~ c.funded,
           c.pc # "registering",
           c.pc \in {"confirm", "mint", "propose", "posted"} =>
             c.name # None /\ c.name = addressToUserName[Of[r]]
    PROVE  IInv'
<1>1. client'[r] = c
  BY DEF Becomes, IInv, TypeInv
<1>2. UNCHANGED addressToUserName
  BY DEF contract
<1>3. NameFit(r, client[r])'
  BY <1>1, <1>2 DEF NameFit
<1>4. SentFit(r, client[r])'
  <2>1. DOMAIN client[r].sent = {}
    BY ClientFacts DEF IInv, ClientOK
  <2> QED
    BY <1>1, <2>1 DEF SentFit, IInv, Proposal
<1>5. FundFit(r, client[r])'
  BY <1>1 DEF FundFit
<1> QED
  BY <1>3, <1>4, <1>5, StepFits DEF Fit

LEMMA FailsFits ==
    ASSUME IInv, NEW r \in Run, Fails(r), UNCHANGED <<txs, contract, verdict, changes>>
    PROVE  IInv'
<1> DEFINE c == [Idle EXCEPT !.pc = "failed"]
<1>1. c.pc = "failed" /\ DOMAIN c.sent = {} /\ ~ c.funded
  BY IdleFacts DEF Idle
<1>2. c \in ClientType /\ ClientOK(c) /\ Becomes(r, c)
  BY IdleFacts DEF Place, Fails
<1> HIDE DEF c
<1>3. client'[r] = c
  BY <1>2 DEF Becomes, IInv, TypeInv
<1>4. Fit(r)'
  BY <1>1, <1>3 DEF Fit, NameFit, SentFit, FundFit
<1> QED
  BY <1>2, <1>4, StepFits

LEMMA GetUserNameFits ==
    ASSUME IInv, NEW r \in Run, GetUserName(r)
    PROVE  IInv'
<1>1. PICK name \in Reads(addressToUserName[Of[r]], None) :
        Becomes(r, [client[r] EXCEPT !.pc = IF name = None THEN "register" ELSE "confirm",
                                     !.name = name])
  BY DEF GetUserName
<1> DEFINE c == [client[r] EXCEPT !.pc = IF name = None THEN "register" ELSE "confirm", !.name = name]
<1>2. /\ client[r] \in ClientType /\ ClientOK(client[r]) /\ client[r].pc = "new"
      /\ UNCHANGED <<txs, contract, verdict, changes>>
  BY ClientFacts DEF IInv, GetUserName, At
<1>3. name \in UserName \cup {None} /\ name \in {addressToUserName[Of[r]], None}
  BY ClientFacts DEF IInv, TypeInv, ContractTypeOK, Reads
<1>4. c \in ClientType
  BY <1>2, <1>3 DEF ClientType, Place
<1>5. /\ c.pc \in {"register", "confirm"} /\ (c.pc = "confirm" => name # None) /\ c.name = name
      /\ c.sps = client[r].sps /\ c.sent = client[r].sent /\ c.listed = client[r].listed
      /\ c.mBytes = client[r].mBytes /\ c.payment = client[r].payment
      /\ c.funded = client[r].funded
  BY <1>2 DEF ClientType
<1> HIDE DEF c
<1>6. ClientOK(c) /\ DOMAIN c.sent = {} /\ ~ c.funded
  BY <1>2, <1>5 DEF ClientOK, Priced, ClientType
<1> QED
  BY <1>1, <1>2, <1>3, <1>4, <1>5, <1>6, EarlyFits DEF c

LEMMA RegisterNameFits ==
    ASSUME IInv, NEW r \in Run, RegisterName(r)
    PROVE  IInv'
<1>1. CASE Fails(r) /\ UNCHANGED txs
  BY <1>1, FailsFits DEF RegisterName
<1> DEFINE n == Len(txs) + 1
           t == Tx(r, "registerUserName", Of[r], Typed[r])
           c == [client[r] EXCEPT !.pc = "registering", !.name = Typed[r], !.awaited = n]
<1>2. CASE Send(t) /\ Becomes(r, c)
  <2>1. /\ client[r] \in ClientType /\ ClientOK(client[r]) /\ client[r].pc = "register"
        /\ UNCHANGED <<contract, verdict, changes>>
        /\ Of[r] \in Account /\ Typed[r] \in UserName /\ Len(txs) \in Nat
    BY ClientFacts, TxsFacts, NeoUploadAssumption DEF IInv, RegisterName, At
  <2>2. c \in ClientType
    <3>1. n \in Nat /\ "registering" \in Place
      BY <2>1 DEF Place
    <3> HIDE DEF n
    <3> QED
      BY <2>1, <3>1 DEF ClientType
  <2>3. /\ c.pc = "registering" /\ c.name = Typed[r] /\ c.awaited = n
        /\ c.sps = client[r].sps /\ c.sent = client[r].sent /\ c.listed = client[r].listed
        /\ c.mBytes = client[r].mBytes /\ c.payment = client[r].payment
        /\ c.funded = client[r].funded
    BY <2>1 DEF ClientType
  <2>4. /\ t \in TxType /\ PendingOK(t) /\ t.state = "pending" /\ t.run = r /\ t.from = Of[r]
        /\ t.method = "registerUserName" /\ t.arg = Typed[r]
    BY <2>1 DEF Tx, TxType, Arg, PendingOK
  <2> HIDE DEF c, t
  <2>5. ClientOK(c) /\ DOMAIN c.sent = {} /\ ~ c.funded
    BY <2>1, <2>3 DEF ClientOK, Priced, ClientType
  <2>6. /\ client'[r] = c /\ Len(txs') = n /\ txs'[n] = t /\ n \in 1 .. n
        /\ \A i \in 1 .. Len(txs) : txs'[i] = txs[i]
        /\ \A i \in 1 .. n : i \in 1 .. Len(txs) \/ i = n
    BY <1>2, <2>1, <2>4, SendFacts DEF Becomes, IInv, TypeInv
  <2>7. NameFit(r, client[r])'
    BY <2>1, <2>3, <2>4, <2>6 DEF NameFit
  <2>8. SentFit(r, client[r])'
    <3>1. \A i \in 1 .. Len(txs) : ~ (Proposal(i) /\ txs[i].run = r)
      BY <2>1 DEF IInv, SentFit, ClientOK
    <3> QED
      BY <2>4, <2>5, <2>6, <3>1 DEF SentFit, Proposal
  <2>9. FundFit(r, client[r])'
    BY <2>5, <2>6 DEF FundFit
  <2> QED
    BY <1>2, <2>1, <2>2, <2>4, <2>5, <2>7, <2>8, <2>9, StepFits DEF Fit
<1> QED
  BY <1>1, <1>2 DEF RegisterName

LEMMA AwaitNameFits ==
    ASSUME IInv, NEW r \in Run, AwaitName(r)
    PROVE  IInv'
<1>1. CASE Fails(r)
  BY <1>1, FailsFits DEF AwaitName
<1> DEFINE c == [client[r] EXCEPT !.pc = "confirm", !.awaited = 0]
<1>2. CASE Succeeded(client[r].awaited) /\ Becomes(r, c)
  <2>1. /\ client[r] \in ClientType /\ ClientOK(client[r]) /\ client[r].pc = "registering"
        /\ UNCHANGED <<txs, contract, verdict, changes>>
    BY ClientFacts DEF IInv, AwaitName, At
  <2>2. c \in ClientType
    BY <2>1 DEF ClientType, Place
  <2>3. /\ c.pc = "confirm" /\ c.name = client[r].name
        /\ c.sps = client[r].sps /\ c.sent = client[r].sent /\ c.listed = client[r].listed
        /\ c.mBytes = client[r].mBytes /\ c.payment = client[r].payment
        /\ c.funded = client[r].funded
    BY <2>1 DEF ClientType
  <2> HIDE DEF c
  <2>4. ClientOK(c) /\ DOMAIN c.sent = {} /\ ~ c.funded
    BY <2>1, <2>3 DEF ClientOK, Priced, ClientType
  <2>5. c.name \in UserName /\ c.name = addressToUserName[Of[r]]
    BY <1>2, <2>1, <2>3 DEF IInv, NameFit, Succeeded
  <2>6. c.name # None
    BY <2>5, NeoAssumption
  <2> QED
    BY <1>2, <2>1, <2>2, <2>3, <2>4, <2>5, <2>6, EarlyFits
<1> QED
  BY <1>1, <1>2 DEF AwaitName

LEMMA ConfirmFits ==
    ASSUME IInv, NEW r \in Run, confirmPrice(r)
    PROVE  IInv'
<1>1. CASE Fails(r)
  BY <1>1, FailsFits DEF confirmPrice
<1>2. ASSUME NEW P \in (SUBSET GetSPProfiles) \ {{}}, NEW m \in MBytes, NEW listed,
             listed = [p \in P |-> addressToProfile[p].minAsk],
             Becomes(r, [client[r] EXCEPT !.pc = "mint", !.sps = P, !.listed = listed,
                                          !.mBytes = m, !.payment = HighestAsk(listed) * m])
      PROVE  IInv'
  <2> DEFINE c == [client[r] EXCEPT !.pc = "mint", !.sps = P, !.listed = listed,
                                    !.mBytes = m, !.payment = HighestAsk(listed) * m]
  <2>1. /\ client[r] \in ClientType /\ ClientOK(client[r]) /\ client[r].pc = "confirm"
        /\ UNCHANGED <<txs, contract, verdict, changes>>
    BY ClientFacts DEF IInv, confirmPrice, At
  <2>2. P \in SUBSET Provider /\ P # {} /\ listed \in [P -> MinAsk] /\ m \in Nat
    <3>1. \A p \in P : p \in Provider /\ addressToProfile[p] # None
      BY DEF GetSPProfiles
    <3>2. \A p \in P : addressToProfile[p] \in Profile
      BY <3>1, NeoUploadAssumption DEF IInv, TypeInv, ContractTypeOK
    <3>3. \A p \in P : addressToProfile[p].minAsk \in MinAsk
      BY <3>2 DEF Profile
    <3> QED
      BY <1>2, <3>1, <3>3, NeoUploadAssumption
  <2>3. HighestAsk(listed) \in Nat /\ \A p \in P : listed[p] <= HighestAsk(listed)
    BY <2>2, HighestAskFacts
  <2>4. HighestAsk(listed) * m \in Nat
    BY <2>2, <2>3
  <2>5. listed \in UNION {[Q -> MinAsk] : Q \in SUBSET Provider}
    BY <2>2
  <2>6. c \in ClientType
    BY <2>1, <2>2, <2>4, <2>5 DEF ClientType, Place
  <2>7. /\ c.pc = "mint" /\ c.name = client[r].name
        /\ c.sps = P /\ c.sent = client[r].sent /\ c.listed = listed
        /\ c.mBytes = m /\ c.payment = HighestAsk(listed) * m
        /\ c.funded = client[r].funded
    BY <2>1 DEF ClientType
  <2> HIDE DEF c
  <2>8. \A p \in P : listed[p] * m <= HighestAsk(listed) * m
    <3>1. \A p \in P : listed[p] \in Nat
      BY <2>2, NeoAssumption
    <3> QED
      BY <2>2, <2>3, <3>1, Multiplied
  <2>9. ClientOK(c) /\ DOMAIN c.sent = {} /\ ~ c.funded
    BY <2>1, <2>2, <2>7, <2>8 DEF ClientOK, Priced, ClientType
  <2>10. c.name # None /\ c.name = addressToUserName[Of[r]]
    BY <2>1, <2>7 DEF IInv, NameFit
  <2> QED
    BY <1>2, <2>1, <2>6, <2>7, <2>9, <2>10, EarlyFits DEF c
<1> QED
  BY <1>1, <1>2 DEF confirmPrice

LEMMA MintFits ==
    ASSUME IInv, NEW r \in Run, MintCGasIfNeeded(r)
    PROVE  IInv'
<1>1. CASE Fails(r) /\ UNCHANGED txs
  BY <1>1, FailsFits DEF MintCGasIfNeeded
<1>2. ASSUME NEW c, c.pc = "propose", c.name = client[r].name, c \in ClientType,
             c.sps = client[r].sps, c.sent = client[r].sent, c.listed = client[r].listed,
             c.mBytes = client[r].mBytes, c.payment = client[r].payment,
             ~ c.funded \/ Enough(r), Becomes(r, c),
             \/ UNCHANGED txs
             \/ \E t \in TxType : /\ PendingOK(t) /\ t.state = "pending" /\ t.run = r /\ Send(t)
                                 /\ t.method = "mintTokens"
      PROVE  IInv'
  <2>1. /\ client[r] \in ClientType /\ ClientOK(client[r]) /\ client[r].pc = "mint"
        /\ UNCHANGED <<contract, verdict, changes>>
    BY ClientFacts DEF IInv, MintCGasIfNeeded, At
  <2>2. ClientOK(c) /\ DOMAIN c.sent = {}
    BY <1>2, <2>1 DEF ClientOK, Priced
  <2>3. client'[r] = c
    BY <1>2 DEF Becomes, IInv, TypeInv
  <2>4. NameFit(r, client[r])'
    BY <1>2, <2>1, <2>3 DEF NameFit, IInv, contract
  <2>5. SentFit(r, client[r])'
    <3>1. \A i \in 1 .. Len(txs) : ~ (Proposal(i) /\ txs[i].run = r)
      BY <1>2, <2>1, <2>2 DEF IInv, SentFit
    <3>2. \A i \in 1 .. Len(txs') : ~ (Proposal(i)' /\ txs'[i].run = r)
      <4>1. CASE UNCHANGED txs
        BY <3>1, <4>1 DEF Proposal
      <4>2. ASSUME NEW t \in TxType, PendingOK(t), Send(t), t.method = "mintTokens"
            PROVE  \A i \in 1 .. Len(txs') : ~ (Proposal(i)' /\ txs'[i].run = r)
        <5>1. /\ Len(txs) \in Nat /\ Len(txs') = Len(txs) + 1 /\ txs'[Len(txs) + 1] = t
              /\ \A i \in 1 .. Len(txs) : txs'[i] = txs[i]
          BY <4>2, TxsFacts, SendFacts DEF IInv
        <5> QED
          BY <3>1, <4>2, <5>1 DEF Proposal
      <4> QED
        BY <1>2, <4>1, <4>2
    <3> QED
      BY <2>2, <2>3, <3>2 DEF SentFit
  <2>6. FundFit(r, client[r])'
    <3>1. Unpaid(client[r])' = {} /\ c.sps \cup {} = c.sps
      BY <2>2, <2>3 DEF Unpaid
    <3>2. Enough(r) => cgas[Of[r]] >= c.payment * Cardinality(c.sps)
      BY <1>2 DEF Enough, Total
    <3> QED
      BY <1>2, <2>1, <2>3, <3>1, <3>2 DEF FundFit, contract
  <2> QED
    BY <1>2, <2>1, <2>2, <2>4, <2>5, <2>6, StepFits DEF Fit
<1>3. client[r] \in ClientType
  BY ClientFacts DEF IInv
<1>4. CASE Enough(r) /\ UNCHANGED txs
           /\ Becomes(r, [client[r] EXCEPT !.pc = "propose", !.funded = TRUE])
  <2> DEFINE c == [client[r] EXCEPT !.pc = "propose", !.funded = TRUE]
  <2>1. /\ c.pc = "propose" /\ c.name = client[r].name /\ c \in ClientType
        /\ c.sps = client[r].sps /\ c.sent = client[r].sent /\ c.listed = client[r].listed
        /\ c.mBytes = client[r].mBytes /\ c.payment = client[r].payment
    BY <1>3 DEF ClientType, Place
  <2>2. Becomes(r, c)
    BY <1>4
  <2> HIDE DEF c
  <2> QED
    BY <1>2, <1>4, <2>1, <2>2
<1>5. ASSUME NEW amount \in Mint, Send(Tx(r, "mintTokens", Of[r], amount)), Moves(r, "propose")
      PROVE  IInv'
  <2> DEFINE c == [client[r] EXCEPT !.pc = "propose"]
             t == Tx(r, "mintTokens", Of[r], amount)
  <2>1. /\ c.pc = "propose" /\ c.name = client[r].name /\ c \in ClientType
        /\ c.sps = client[r].sps /\ c.sent = client[r].sent /\ c.listed = client[r].listed
        /\ c.mBytes = client[r].mBytes /\ c.payment = client[r].payment
        /\ c.funded = client[r].funded
    BY <1>3 DEF ClientType, Place
  <2>2. Becomes(r, c) /\ Send(t)
    BY <1>5 DEF Moves
  <2>3. /\ t \in TxType /\ PendingOK(t) /\ t.state = "pending" /\ t.run = r
        /\ t.method = "mintTokens"
    <3>1. amount \in Nat /\ Of[r] \in Account
      BY NeoUploadAssumption
    <3> QED
      BY <3>1 DEF Tx, TxType, Arg, PendingOK
  <2> HIDE DEF c, t
  <2>4. ~ c.funded
    BY <1>1, <2>1, ClientFacts DEF IInv, ClientOK, MintCGasIfNeeded, At
  <2> QED
    BY <1>2, <2>1, <2>2, <2>3, <2>4
<1> QED
  BY <1>1, <1>4, <1>5 DEF MintCGasIfNeeded

LEMMA ProposeFits ==
    ASSUME IInv, NEW r \in Run, NEW p \in Provider, ProposeUploadTo(r, p)
    PROVE  IInv'
<1>1. CASE Fails(r) /\ UNCHANGED txs
  BY <1>1, FailsFits DEF ProposeUploadTo
<1> DEFINE old == client[r]
           n == Len(txs) + 1
           arg == [run |-> r, sp |-> p, payment |-> old.payment, mBytes |-> old.mBytes]
           t == Tx(r, "proposeUpload", Of[r], arg)
           sent == [q \in DOMAIN old.sent \cup {p} |-> IF q = p THEN n ELSE old.sent[q]]
           c == [old EXCEPT !.sps = old.sps \ {p}, !.sent = sent]
<1>2. CASE Send(t) /\ Becomes(r, c)
  <2>1. /\ old \in ClientType /\ ClientOK(old) /\ old.pc = "propose" /\ p \in old.sps
        /\ UNCHANGED <<contract, verdict, changes>>
        /\ Of[r] \in Account /\ Len(txs) \in Nat
        /\ DOMAIN old.sent \subseteq Provider /\ \A q \in DOMAIN old.sent : old.sent[q] \in Nat
    BY ClientFacts, TxsFacts DEF IInv, ProposeUploadTo, At
  <2>2. n \in Nat /\ n \notin 1 .. Len(txs)
    BY <2>1
  <2>3. sent \in UNION {[P -> Nat] : P \in SUBSET Provider}
    <3> DEFINE Q == DOMAIN old.sent \cup {p}
    <3>1. Q \in SUBSET Provider
      BY <2>1
    <3>2. sent \in [Q -> Nat]
      BY <2>1, <2>2
    <3> QED
      BY <3>1, <3>2
  <2>4. arg \in ProposalArg /\ arg.run = r /\ arg.sp = p
    BY <2>1 DEF ProposalArg, ClientType
  <2>5. /\ t \in TxType /\ PendingOK(t) /\ t.state = "pending" /\ t.run = r
        /\ t.method = "proposeUpload" /\ t.arg = arg
    <3> HIDE DEF arg
    <3> QED
      BY <2>1, <2>4 DEF Tx, TxType, Arg, PendingOK
  <2>6. /\ DOMAIN sent = DOMAIN old.sent \cup {p} /\ sent[p] = n
        /\ \A q \in DOMAIN old.sent : q # p /\ sent[q] = old.sent[q]
    BY <2>1 DEF ClientOK
  <2> HIDE DEF sent, t, n
  <2>7. /\ c \in ClientType
        /\ c.pc = old.pc /\ c.name = old.name
        /\ c.sps = old.sps \ {p} /\ c.sent = sent /\ c.listed = old.listed
        /\ c.mBytes = old.mBytes /\ c.payment = old.payment
        /\ c.funded = old.funded
    BY <2>1, <2>3 DEF ClientType
  <2> HIDE DEF c
  <2>8. ClientOK(c)
    <3>1. p \in DOMAIN old.listed
      BY <2>1 DEF ClientOK
    <3> QED
      BY <2>1, <2>6, <2>7, <3>1 DEF ClientOK, Priced
  <2>9. /\ client'[r] = c /\ Len(txs') = n /\ txs'[n] = t /\ n \in 1 .. n
        /\ \A i \in 1 .. Len(txs) : i \in 1 .. n /\ txs'[i] = txs[i]
        /\ \A i \in 1 .. n : i \in 1 .. Len(txs) \/ i = n
    BY <1>2, <2>1, <2>5, SendFacts DEF Becomes, IInv, TypeInv, n
  <2>10. NameFit(r, client[r])'
    BY <2>1, <2>7, <2>9 DEF NameFit, IInv, contract
  <2>11. SentFit(r, client[r])'
    <3>1. \A q \in DOMAIN old.sent :
            /\ old.sent[q] \in 1 .. Len(txs)
            /\ txs[old.sent[q]].state = "pending" =>
                /\ txs[old.sent[q]].method = "proposeUpload"
                /\ txs[old.sent[q]].run = r
                /\ txs[old.sent[q]].arg = [run |-> r, sp |-> q, payment |-> old.payment,
                                           mBytes |-> old.mBytes]
      BY DEF IInv, SentFit
    <3>2. ASSUME NEW q \in DOMAIN c.sent
          PROVE  /\ c.sent[q] \in 1 .. n
                 /\ txs'[c.sent[q]].state = "pending" =>
                     /\ txs'[c.sent[q]].method = "proposeUpload"
                     /\ txs'[c.sent[q]].run = r
                     /\ txs'[c.sent[q]].arg = [run |-> r, sp |-> q, payment |-> c.payment,
                                               mBytes |-> c.mBytes]
      <4>1. CASE q = p
        BY <2>5, <2>6, <2>7, <2>9, <4>1
      <4>2. CASE q # p
        BY <2>6, <2>7, <2>9, <3>1, <4>2
      <4> QED
        BY <4>1, <4>2
    <3>3. ASSUME NEW i \in 1 .. n, Proposal(i)', txs'[i].run = r
          PROVE  txs'[i].arg.sp \in DOMAIN c.sent /\ c.sent[txs'[i].arg.sp] = i
      <4>1. CASE i = n
        BY <2>4, <2>5, <2>6, <2>7, <2>9, <4>1
      <4>2. CASE i \in 1 .. Len(txs)
        <5>1. Proposal(i) /\ txs[i].run = r
          BY <2>9, <3>3, <4>2 DEF Proposal
        <5>2. txs[i].arg.sp \in DOMAIN old.sent /\ old.sent[txs[i].arg.sp] = i
          BY <2>1, <4>2, <5>1 DEF IInv, SentFit
        <5> QED
          BY <2>6, <2>7, <2>9, <4>2, <5>2
      <4> QED
        BY <2>9, <4>1, <4>2
    <3> QED
      BY <2>9, <3>2, <3>3 DEF SentFit
  <2>12. FundFit(r, client[r])'
    <3>1. Unpaid(client[r])' = Unpaid(old) \cup {p}
      <4>1. \A q \in DOMAIN old.sent : txs'[c.sent[q]] = txs[old.sent[q]]
        <5>1. \A q \in DOMAIN old.sent : old.sent[q] \in 1 .. Len(txs)
          BY DEF IInv, SentFit
        <5> QED
          BY <2>6, <2>7, <2>9, <5>1
      <4>2. txs'[c.sent[p]].state = "pending"
        BY <2>5, <2>6, <2>7, <2>9
      <4> QED
        BY <2>6, <2>7, <2>9, <4>1, <4>2 DEF Unpaid
    <3>2. c.sps \cup Unpaid(client[r])' = old.sps \cup Unpaid(old)
      BY <2>1, <2>7, <3>1
    <3>3. SpentByOther(r)' <=> SpentByOther(r)
      BY <1>2, <2>5, SendSpends DEF IInv
    <3>4. FundFit(r, old)
      BY DEF IInv
    <3> QED
      BY <2>1, <2>7, <2>9, <3>2, <3>3, <3>4 DEF FundFit, contract
  <2> QED
    BY <1>2, <2>1, <2>5, <2>7, <2>8, <2>10, <2>11, <2>12, StepFits DEF Fit
<1> QED
  BY <1>1, <1>2 DEF ProposeUploadTo

LEMMA PostFits ==
    ASSUME IInv, NEW r \in Run, Post(r)
    PROVE  IInv'
<1> DEFINE c == [client[r] EXCEPT !.pc = "posted"]
<1>1. /\ client[r] \in ClientType /\ ClientOK(client[r]) /\ client[r].pc = "propose"
      /\ UNCHANGED <<txs, contract, verdict, changes>> /\ Becomes(r, c)
  BY ClientFacts DEF IInv, Post, At, Moves
<1>2. /\ c \in ClientType /\ c.pc = "posted" /\ c.name = client[r].name
      /\ c.sps = client[r].sps /\ c.sent = client[r].sent /\ c.listed = client[r].listed
      /\ c.mBytes = client[r].mBytes /\ c.payment = client[r].payment
      /\ c.funded = client[r].funded
  BY <1>1 DEF ClientType, Place
<1> HIDE DEF c
<1>3. ClientOK(c)
  BY <1>1, <1>2 DEF ClientOK, Priced
<1>4. client'[r] = c
  BY <1>1 DEF Becomes, IInv, TypeInv
<1>5. NameFit(r, client[r])'
  BY <1>1, <1>2, <1>4 DEF NameFit, IInv, contract
<1>6. SentFit(r, client[r])'
  BY <1>1, <1>2, <1>4 DEF SentFit, IInv, Proposal
<1>7. FundFit(r, client[r])'
  <2>1. Unpaid(client[r])' = Unpaid(client[r]) /\ (SpentByOther(r)' <=> SpentByOther(r))
    BY <1>1, <1>2, <1>4 DEF Unpaid, SpentByOther, SpentBy
  <2> QED
    BY <1>1, <1>2, <1>4, <2>1 DEF FundFit, IInv, contract
<1> QED
  BY <1>1, <1>2, <1>3, <1>5, <1>6, <1>7, StepFits DEF Fit

LEMMA VerdictFits ==
    ASSUME IInv, NEW r \in Run, NEW p \in Provider, GetUploadTxInfo(r, p)
    PROVE  IInv'
<1>1. UNCHANGED <<txs, contract, client, changes>>
  BY DEF GetUploadTxInfo
<1>2. verdict' \in [Run -> [Provider -> {"none", "accepted", "refused"}]]
  <2>1. PICK v \in {"accepted", "refused"} : verdict' = [verdict EXCEPT ![r][p] = v]
    BY DEF GetUploadTxInfo
  <2> QED
    BY <2>1 DEF IInv, TypeInv
<1>3. TypeInv'
  BY <1>1, <1>2 DEF IInv, TypeInv, ContractTypeOK, contract, spMaps, TxsInv, PendingOK,
                    ClientOK, Priced
<1>4. ASSUME NEW s \in Run
      PROVE  NameFit(s, client[s])' /\ SentFit(s, client[s])' /\ FundFit(s, client[s])'
  <2>1. NameFit(s, client[s])'
    BY <1>1 DEF IInv, NameFit, contract
  <2>2. SentFit(s, client[s])'
    BY <1>1 DEF IInv, SentFit, Proposal
  <2>3. FundFit(s, client[s])'
    BY <1>1 DEF IInv, FundFit, contract, SpentByOther, SpentBy, Unpaid
  <2> QED
    BY <2>1, <2>2, <2>3
<1> QED
  BY <1>3, <1>4 DEF IInv

-----------------------------------------------------------------------------
(* Steps of the providers and of the chain                                 *)

LEMMA ProviderFits ==
    ASSUME IInv, NEW p \in Provider, ProviderChanges(p)
    PROVE  IInv'
<1>1. UNCHANGED <<txs, client, verdict, addressToUserName, cgas>>
  BY DEF ProviderChanges, RegisterStorageProvider, UnregisterStorageProvider
<1>2. /\ addressToProfile' \in [Account -> Profile \cup {None}]
      /\ nodeIdToAddr' \in [NodeId -> Account \cup {None}]
  <2>1. p \in Account /\ Id[p] \in NodeId
    BY NeoUploadAssumption DEF Injection
  <2>2. CASE addressToProfile[p] # None /\ UnregisterStorageProvider(p, Id[p])
    BY <2>1, <2>2 DEF UnregisterStorageProvider, IInv, TypeInv, ContractTypeOK
  <2>3. ASSUME NEW ask \in MinAsk,
               RegisterStorageProvider(p, [minAsk |-> ask, nodeId |-> Id[p]])
        PROVE  /\ addressToProfile' \in [Account -> Profile \cup {None}]
               /\ nodeIdToAddr' \in [NodeId -> Account \cup {None}]
    <3> DEFINE profile == [minAsk |-> ask, nodeId |-> Id[p]]
    <3>1. profile \in Profile /\ profile.nodeId = Id[p]
      BY <2>1 DEF Profile
    <3>2. RegisterStorageProvider(p, profile)
      BY <2>3
    <3> HIDE DEF profile
    <3> QED
      BY <2>1, <3>1, <3>2 DEF RegisterStorageProvider, IInv, TypeInv, ContractTypeOK
  <2> QED
    BY <2>2, <2>3 DEF ProviderChanges
<1>3. changes' \in 0 .. MaxChanges
  BY NeoUploadAssumption DEF ProviderChanges, IInv, TypeInv
<1>4. TypeInv'
  BY <1>1, <1>2, <1>3 DEF IInv, TypeInv, ContractTypeOK, TxsInv, PendingOK, ClientOK, Priced
<1>5. ASSUME NEW s \in Run
      PROVE  NameFit(s, client[s])' /\ SentFit(s, client[s])' /\ FundFit(s, client[s])'
  <2>1. NameFit(s, client[s])'
    BY <1>1 DEF IInv, NameFit
  <2>2. SentFit(s, client[s])'
    BY <1>1 DEF IInv, SentFit, Proposal
  <2>3. FundFit(s, client[s])'
    BY <1>1 DEF IInv, FundFit, SpentByOther, SpentBy, Unpaid
  <2> QED
    BY <2>1, <2>2, <2>3
<1> QED
  BY <1>4, <1>5 DEF IInv

(* What one transaction may do to names and balances.                      *)
LEMMA InvokeFacts ==
    ASSUME TypeInv, NEW t, t.state = "pending", PendingOK(t), ~ Refused(t), Invoke(t)
    PROVE  /\ ContractTypeOK'
           /\ UNCHANGED spMaps
           /\ \A a \in Account : addressToUserName[a] # None =>
                addressToUserName'[a] = addressToUserName[a]
           /\ t.method = "registerUserName" => addressToUserName'[t.from] = t.arg
           /\ t.method # "proposeUpload" => \A a \in Account : cgas'[a] >= cgas[a]
           /\ t.method = "proposeUpload" =>
                \A a \in Account : a \notin Provider =>
                    cgas'[a] = IF a = t.from THEN cgas[a] - t.arg.payment ELSE cgas[a]
<1> DEFINE from == t.from
           arg == t.arg
<1>1. from \in Account /\ ContractTypeOK
  BY NeoUploadAssumption DEF PendingOK, TypeInv
<1>2. CASE t.method = "registerUserName"
  <2>1. /\ arg \in UserName /\ addressToUserName[from] \in {None, arg}
        /\ addressToUserName' = [addressToUserName EXCEPT ![from] = arg]
        /\ UNCHANGED <<spMaps, cgas>>
    BY <1>2 DEF PendingOK, Invoke, RegisterUserName, NameRefused
  <2>2. ContractTypeOK'
    BY <1>1, <2>1 DEF ContractTypeOK, spMaps
  <2>3. \A a \in Account : addressToUserName[a] # None => addressToUserName'[a] = addressToUserName[a]
    BY <1>1, <2>1 DEF ContractTypeOK
  <2>4. addressToUserName'[from] = arg
    BY <1>1, <2>1 DEF ContractTypeOK
  <2>5. \A a \in Account : cgas'[a] >= cgas[a]
    BY <1>1, <2>1 DEF ContractTypeOK
  <2> QED
    BY <1>2, <2>1, <2>2, <2>3, <2>4, <2>5
<1>3. CASE t.method = "mintTokens"
  <2>1. /\ arg \in Nat
        /\ cgas' = [cgas EXCEPT ![from] = @ + arg]
        /\ UNCHANGED <<spMaps, addressToUserName>>
    BY <1>3 DEF PendingOK, Invoke, mintTokens
  <2>2. cgas' \in [Account -> Nat] /\ \A a \in Account : cgas'[a] >= cgas[a]
    BY <1>1, <2>1 DEF ContractTypeOK
  <2> QED
    BY <1>1, <1>3, <2>1, <2>2 DEF ContractTypeOK, spMaps
<1>4. CASE t.method = "proposeUpload"
  <2>1. /\ arg \in ProposalArg
        /\ ProposeUpload(from, arg.sp, arg.payment, arg.mBytes)
    BY <1>4 DEF PendingOK, Invoke
  <2>2. PICK sp \in Provider, payment \in Nat : sp = arg.sp /\ payment = arg.payment
    BY <2>1 DEF ProposalArg
  <2>3. /\ ~ (cgas[from] < payment)
        /\ cgas' = [a \in Account |->
             cgas[a] + (IF a = sp THEN payment ELSE 0) - (IF a = from THEN payment ELSE 0)]
        /\ UNCHANGED <<spMaps, addressToUserName>>
    BY <2>1, <2>2 DEF ProposeUpload, ProposeRefused, transferCGAS
  <2>4. \A a \in Account : cgas'[a] \in Nat
    BY <1>1, <2>2, <2>3 DEF ContractTypeOK
  <2>5. \A a \in Account : a \notin Provider =>
          cgas'[a] = IF a = from THEN cgas[a] - payment ELSE cgas[a]
    BY <1>1, <2>2, <2>3 DEF ContractTypeOK
  <2>6. cgas' \in [Account -> Nat]
    BY <2>3, <2>4
  <2> QED
    BY <1>1, <1>4, <2>2, <2>3, <2>5, <2>6 DEF ContractTypeOK, spMaps
<1> QED
  BY <1>2, <1>3, <1>4 DEF PendingOK

LEMMA BlockFacts ==
    ASSUME TypeInv, NEW i \in 1 .. Len(txs), Block(i)
    PROVE  /\ TypeInv'
           /\ txs[i].state = "pending" /\ PendingOK(txs[i])
           /\ Len(txs') = Len(txs)
           /\ \A j \in 1 .. Len(txs) : j # i => txs'[j] = txs[j]
           /\ UNCHANGED client
           /\ \A a \in Account : addressToUserName[a] # None =>
                addressToUserName'[a] = addressToUserName[a]
           /\ \/ /\ txs'[i].state = "halt"
                 /\ txs[i].method = "registerUserName" =>
                      addressToUserName'[txs[i].from] = txs[i].arg
                 /\ txs[i].method # "proposeUpload" => \A a \in Account : cgas'[a] >= cgas[a]
                 /\ txs[i].method = "proposeUpload" =>
                      /\ txs'[i].notification = txs[i].arg
                      /\ \A a \in Account : a \notin Provider =>
                           cgas'[a] = IF a = txs[i].from THEN cgas[a] - txs[i].arg.payment
                                      ELSE cgas[a]
              \/ txs'[i].state = "error" /\ Refused(txs[i]) /\ UNCHANGED contract
<1>1. /\ txs[i].state = "pending" /\ PendingOK(txs[i])
      /\ UNCHANGED <<client, verdict, changes>>
  BY DEF Block, IncludeInBlock, TypeInv, TxsInv
<1>2. ASSUME NEW outcome \in {"halt", "error"}, Settles(i, outcome), ContractTypeOK'
      PROVE  /\ TypeInv'
             /\ Len(txs') = Len(txs)
             /\ \A j \in 1 .. Len(txs) : j # i => txs'[j] = txs[j]
             /\ txs'[i].state = outcome
             /\ txs'[i].notification = IF txs[i].method = "proposeUpload" /\ outcome = "halt"
                                      THEN txs[i].arg ELSE None
  BY <1>1, <1>2, SettlesFacts DEF TypeInv, ClientOK, Priced
<1>3. CASE ~ Refused(txs[i]) /\ Invoke(txs[i]) /\ Settles(i, "halt")
  BY <1>1, <1>2, <1>3, InvokeFacts
<1>4. CASE Refused(txs[i]) /\ Settles(i, "error") /\ UNCHANGED contract
  <2>1. ContractTypeOK'
    BY <1>4 DEF TypeInv, ContractTypeOK, contract, spMaps
  <2>2. UNCHANGED addressToUserName
    BY <1>4 DEF contract
  <2> QED
    BY <1>1, <1>2, <1>4, <2>1, <2>2
<1> QED
  BY <1>3, <1>4 DEF Block, IncludeInBlock

LEMMA UnpaidFacts ==
    ASSUME TypeInv, NEW r \in Run
    PROVE  /\ IsFiniteSet(client[r].sps \cup Unpaid(client[r]))
           /\ Cardinality(client[r].sps \cup Unpaid(client[r])) \in Nat
           /\ client[r].payment \in Nat
           /\ cgas[Of[r]] \in Nat
<1>1. client[r].sps \cup Unpaid(client[r]) \subseteq Provider
  BY ClientFacts DEF Unpaid, ClientOK
<1>2. client[r].payment \in Nat /\ cgas[Of[r]] \in Nat
  BY ClientFacts DEF ClientType, TypeInv, ContractTypeOK
<1> QED
  BY <1>1, <1>2, NeoUploadAssumption, FS_Subset, FS_CardinalityType

LEMMA BlockNames ==
    ASSUME IInv, NEW i \in 1 .. Len(txs), Block(i), NEW s \in Run
    PROVE  NameFit(s, client[s])'
<1> DEFINE c == client[s]
<1>1. TypeInv /\ NameFit(s, c) /\ Of[s] \in Account
  BY ClientFacts DEF IInv
<1>2. /\ txs[i].state = "pending" /\ Len(txs') = Len(txs)
      /\ \A j \in 1 .. Len(txs) : j # i => txs'[j] = txs[j]
      /\ client' = client /\ txs'[i].state # "pending"
      /\ addressToUserName[Of[s]] # None =>
            addressToUserName'[Of[s]] = addressToUserName[Of[s]]
      /\ txs'[i].state = "halt" /\ txs[i].method = "registerUserName" =>
           addressToUserName'[txs[i].from] = txs[i].arg
  BY <1>1, BlockFacts
<1>3. None \notin UserName
  BY NeoAssumption
<1>4. CASE c.pc = "registering" /\ c.awaited = i
  BY <1>1, <1>2, <1>4 DEF NameFit
<1>5. CASE c.pc = "registering" /\ c.awaited # i
  BY <1>1, <1>2, <1>3, <1>5 DEF NameFit
<1>6. CASE c.pc # "registering"
  BY <1>1, <1>2, <1>6 DEF NameFit
<1> QED
  BY <1>4, <1>5, <1>6

LEMMA BlockFunds ==
    ASSUME IInv, NEW i \in 1 .. Len(txs), Block(i), NEW s \in Run
    PROVE  FundFit(s, client[s])'
<1>a. PICK c : c = client[s]
  OBVIOUS
<1>b. PICK t : t = txs[i]
  OBVIOUS
<1> SUFFICES ASSUME c.funded, ~ SpentByOther(s)'
             PROVE  cgas'[Of[s]] >= c.payment * Cardinality(c.sps \cup Unpaid(c)')
  <2>1. client' = client
    BY BlockFacts DEF IInv
  <2>2. Unpaid(client[s])' = Unpaid(c)'
    BY <1>a, <2>1 DEF Unpaid
  <2> QED
    BY <1>a, <2>1, <2>2 DEF FundFit
<1> DEFINE before == c.sps \cup Unpaid(c)
           after == c.sps \cup Unpaid(c)'
           balance == cgas[Of[s]]
           payment == c.payment
<1>1. TypeInv /\ SentFit(s, c) /\ FundFit(s, c)
  BY <1>a DEF IInv
<1>2. /\ t.state = "pending" /\ PendingOK(t) /\ Len(txs') = Len(txs)
      /\ \A j \in 1 .. Len(txs) : j # i => txs'[j] = txs[j]
      /\ client' = client /\ txs'[i].state # "pending"
      /\ TypeInv' /\ DOMAIN txs = 1 .. Len(txs) /\ DOMAIN txs' = 1 .. Len(txs')
  BY <1>1, <1>b, BlockFacts, TxsFacts DEF TypeInv, TxsInv
<1>3. Of[s] \in Account /\ Of[s] \notin Provider /\ c.pc # "failed"
  BY <1>1, <1>a, ClientFacts, NeoUploadAssumption DEF ClientOK
<1>4. ~ SpentByOther(s)
  BY <1>2, <1>b DEF SpentByOther, SpentBy
<1>5. /\ balance \in Nat /\ payment \in Nat /\ Cardinality(before) \in Nat
      /\ IsFiniteSet(before) /\ balance >= payment * Cardinality(before)
  BY <1>1, <1>4, <1>a, UnpaidFacts DEF FundFit
<1>6. Unpaid(c)' = {p \in Unpaid(c) : c.sent[p] # i}
  <2>1. \A p \in DOMAIN c.sent : c.sent[p] \in 1 .. Len(txs)
    BY <1>1 DEF SentFit
  <2>2. \A j \in 1 .. Len(txs) :
            txs'[j].state = "pending" <=> txs[j].state = "pending" /\ j # i
    BY <1>2
  <2> QED
    BY <2>1, <2>2 DEF Unpaid
<1>7. cgas'[Of[s]] \in Nat
  BY <1>2, <1>3 DEF TypeInv, ContractTypeOK
<1>8. CASE cgas'[Of[s]] >= balance
  <2>1. after \in SUBSET before
    BY <1>6
  <2>2. Cardinality(after) \in Nat /\ Cardinality(after) <= Cardinality(before)
    BY <1>5, <2>1, FS_Subset, FS_CardinalityType
  <2>3. payment * Cardinality(after) <= payment * Cardinality(before)
        /\ payment * Cardinality(after) \in Nat /\ payment * Cardinality(before) \in Nat
    <3>1. \A a, b, m \in Nat : a <= b => m * a \in Nat /\ m * b \in Nat /\ m * a <= m * b
      OBVIOUS
    <3> QED
      BY <1>5, <2>2, <3>1
  <2> HIDE DEF after, before, balance
  <2>4. cgas'[Of[s]] >= payment * Cardinality(after)
    BY <1>5, <1>7, <1>8, <2>3
  <2> QED
    BY <1>2, <2>4 DEF after
<1>9. CASE ~ (cgas'[Of[s]] >= balance)
  <2>1. /\ txs'[i].state = "halt" /\ t.method = "proposeUpload"
        /\ txs'[i].notification = t.arg /\ t.from = Of[s]
        /\ cgas'[Of[s]] = balance - t.arg.payment
    <3>1. ~ UNCHANGED contract /\ ~ (\A a \in Account : cgas'[a] >= cgas[a])
      BY <1>3, <1>5, <1>9 DEF contract
    <3>2. /\ txs'[i].state = "halt" /\ t.method = "proposeUpload"
          /\ txs'[i].notification = t.arg
          /\ cgas'[Of[s]] = IF Of[s] = t.from THEN cgas[Of[s]] - t.arg.payment ELSE cgas[Of[s]]
      BY <1>1, <1>3, <1>b, <3>1, BlockFacts
    <3> QED
      BY <1>5, <1>9, <3>2
  <2>2. t.run \in Run /\ t.arg \in ProposalArg /\ t.arg.run = t.run /\ Of[t.run] = Of[s]
    BY <1>2, <2>1 DEF PendingOK
  <2>3. t.run = s
    <3> SUFFICES ASSUME t.run # s PROVE FALSE
      OBVIOUS
    <3>a. PICK q : q = t.run
      OBVIOUS
    <3>1. txs'[i].notification # None /\ txs'[i].notification.run = q
      BY <2>1, <2>2, <3>a, NeoUploadAssumption DEF ProposalArg
    <3>2. SpentBy(q)'
      BY <1>2, <2>1, <3>1 DEF SpentBy
    <3> QED
      BY <2>2, <3>a, <3>2 DEF SpentByOther
  <2>4. PICK p : p = t.arg.sp
    OBVIOUS
  <2>5. p \in DOMAIN c.sent /\ c.sent[p] = i
    BY <1>1, <1>2, <1>3, <1>b, <2>1, <2>3, <2>4 DEF SentFit, Proposal
  <2>6. t.arg.payment = payment /\ \A q \in DOMAIN c.sent : c.sent[q] = i => q = p
    <3>1. \A q \in DOMAIN c.sent : c.sent[q] = i =>
            t.arg = [run |-> s, sp |-> q, payment |-> c.payment, mBytes |-> c.mBytes]
      BY <1>1, <1>2, <1>b DEF SentFit
    <3>2. \A q \in DOMAIN c.sent : c.sent[q] = i => t.arg.sp = q /\ t.arg.payment = c.payment
      <4>1. \A q : LET a == [run |-> s, sp |-> q, payment |-> c.payment, mBytes |-> c.mBytes]
                   IN  a.sp = q /\ a.payment = c.payment
        OBVIOUS
      <4> QED
        BY <3>1, <4>1
    <3>3. p \in DOMAIN c.sent /\ c.sent[p] = i
      BY <2>5
    <3> QED
      BY <2>4, <3>2, <3>3
  <2>7. p \in before /\ p \notin c.sps /\ p \in Unpaid(c)
    BY <1>1, <1>2, <1>a, <1>b, <2>5, ClientFacts DEF Unpaid, ClientOK
  <2>8. after = before \ {p}
    BY <1>6, <2>5, <2>6, <2>7 DEF Unpaid
  <2>9. Cardinality(after) = Cardinality(before) - 1
    <3> HIDE DEF after, before
    <3> QED
      BY <1>5, <2>7, <2>8, FS_RemoveElement
  <2>10. payment * (Cardinality(before) - 1) = payment * Cardinality(before) - payment
    BY <1>5
  <2> HIDE DEF after, before
  <2>11. payment * Cardinality(before) \in Nat
    BY <1>5
  <2>12. cgas'[Of[s]] >= payment * Cardinality(after)
    BY <1>5, <2>1, <2>6, <2>9, <2>10, <2>11
  <2> QED
    BY <1>2, <2>12 DEF after
<1> QED
  BY <1>8, <1>9
LEMMA BlockSents ==
    ASSUME IInv, NEW i \in 1 .. Len(txs), Block(i), NEW s \in Run
    PROVE  SentFit(s, client[s])'
<1>a. PICK c : c = client[s]
  OBVIOUS
<1>1. SentFit(s, c) /\ TypeInv
  BY <1>a DEF IInv
<1>2. /\ Len(txs') = Len(txs) /\ client' = client /\ txs'[i].state # "pending"
      /\ \A j \in 1 .. Len(txs) : j # i => txs'[j] = txs[j]
  BY <1>1, BlockFacts
<1>3. \A j \in 1 .. Len(txs) : txs'[j].state = "pending" => txs'[j] = txs[j]
  BY <1>2
<1>4. SentFit(s, c)'
  BY <1>1, <1>2, <1>3 DEF SentFit, Proposal
<1> QED
  BY <1>2, <1>4, <1>a DEF SentFit

LEMMA BlockFits ==
    ASSUME IInv, NEW i \in 1 .. Len(txs), Block(i)
    PROVE  IInv'
<1>1. TypeInv'
  BY BlockFacts DEF IInv
<1>2. \A s \in Run : NameFit(s, client[s])'
  BY BlockNames
<1>3. \A s \in Run : SentFit(s, client[s])'
  BY BlockSents
<1>4. \A s \in Run : FundFit(s, client[s])'
  BY BlockFunds
<1> QED
  BY <1>1, <1>2, <1>3, <1>4 DEF IInv

-----------------------------------------------------------------------------
(* The invariant holds                                                     *)

LEMMA IInvInit == Init => IInv
<1> SUFFICES ASSUME Init PROVE IInv
  OBVIOUS
<1>1. Old \subseteq Provider /\ Provider \subseteq Account /\ Wealth \in Nat
      /\ Id \in [Provider -> NodeId] /\ MaxChanges \in Nat
      /\ \A p \in Old : FirstAsk[p] \in MinAsk
  BY NeoUploadAssumption DEF Old, Injection
<1>2. ContractTypeOK
  <2>1. addressToProfile \in [Account -> Profile \cup {None}]
    <3>1. \A a \in Old : [minAsk |-> FirstAsk[a], nodeId |-> Id[a]] \in Profile
      BY <1>1 DEF Profile
    <3> QED
      BY <3>1 DEF Init
  <2>2. nodeIdToAddr \in [NodeId -> Account \cup {None}]
    <3>1. \A n \in NodeId : (\E p \in Old : Id[p] = n) =>
            (CHOOSE p \in Old : Id[p] = n) \in Account
      BY <1>1
    <3> QED
      BY <3>1 DEF Init
  <2>3. /\ addressToUserName \in [Account -> UserName \cup {None}]
        /\ cgas \in [Account -> Nat]
    BY <1>1 DEF Init
  <2> QED
    BY <2>1, <2>2, <2>3 DEF ContractTypeOK
<1>3. TxsInv /\ Len(txs) = 0
  BY DEF Init, TxsInv
<1>4. \A r \in Run : client[r] = Idle
  BY DEF Init
<1>5. TypeInv
  BY <1>1, <1>2, <1>3, <1>4, IdleFacts DEF Init, TypeInv
<1>6. Idle.pc = "new" /\ DOMAIN Idle.sent = {} /\ ~ Idle.funded
  BY IdleFacts DEF Idle
<1>7. \A r \in Run : NameFit(r, Idle) /\ SentFit(r, Idle) /\ FundFit(r, Idle)
  BY <1>3, <1>6 DEF NameFit, SentFit, FundFit
<1> QED
  BY <1>4, <1>5, <1>7 DEF IInv

LEMMA IInvStutter == IInv /\ UNCHANGED vars => IInv'
<1> SUFFICES ASSUME IInv, UNCHANGED vars PROVE IInv'
  OBVIOUS
<1>1. TypeInv'
  BY DEF IInv, TypeInv, vars, contract, spMaps, ContractTypeOK, TxsInv, PendingOK, ClientOK, Priced
<1>2. \A r \in Run : (NameFit(r, client[r]) /\ SentFit(r, client[r]))'
  BY DEF IInv, vars, contract, spMaps, NameFit, SentFit, Proposal
<1>3. \A r \in Run : FundFit(r, client[r])'
  BY DEF IInv, vars, contract, spMaps, FundFit, Unpaid, SpentByOther, SpentBy
<1> QED
  BY <1>1, <1>2, <1>3 DEF IInv

LEMMA IInvStep == IInv /\ [Next]_vars => IInv'
<1> SUFFICES ASSUME IInv, [Next]_vars PROVE IInv'
  OBVIOUS
<1>1. ASSUME NEW r \in Run, ClientStep(r) PROVE IInv'
  BY <1>1, GetUserNameFits, RegisterNameFits, AwaitNameFits, ConfirmFits, MintFits,
     ProposeFits, PostFits DEF ClientStep
<1>2. ASSUME NEW r \in Run, NEW p \in Provider, GetUploadTxInfo(r, p) PROVE IInv'
  BY <1>2, VerdictFits
<1>3. ASSUME NEW p \in Provider, ProviderChanges(p) PROVE IInv'
  BY <1>3, ProviderFits
<1>4. ASSUME NEW i \in DOMAIN txs, Block(i) PROVE IInv'
  <2>1. i \in 1 .. Len(txs)
    BY TxsFacts DEF IInv
  <2> QED
    BY <1>4, <2>1, BlockFits
<1>5. CASE UNCHANGED vars
  BY <1>5, IInvStutter
<1> QED
  BY <1>1, <1>2, <1>3, <1>4, <1>5 DEF Next

(* The invariant holds at all times, on which the properties below rest.   *)
THEOREM IInvAlways == Spec => []IInv
<1> QED
  BY IInvInit, IInvStep, PTL DEF Spec

-----------------------------------------------------------------------------
(* Properties                                                              *)

(* Every variable has its type: a run is in one of the places of its       *)
(* program, proposes to a provider of its list once, and pays a natural    *)
(* number of CGAS.                                                         *)
THEOREM TypeCorrect == Spec => []TypeOK
<1>1. IInv => TypeOK
  <2> SUFFICES ASSUME IInv PROVE TypeOK
    OBVIOUS
  <2>1. TypeInv
    BY DEF IInv
  <2>2. \A r \in Run : client[r] \in ClientType /\ ClientOK(client[r])
    BY <2>1, ClientFacts
  <2>3. \A r \in Run :
          /\ client[r].pc \in Place
          /\ client[r].name \in UserName \cup {None}
          /\ client[r].sps \subseteq DOMAIN client[r].listed
          /\ DOMAIN client[r].sent \cap client[r].sps = {}
          /\ client[r].payment \in Nat
    BY <2>2 DEF ClientType, ClientOK
  <2> QED
    BY <2>1, <2>3, TxsFacts DEF TypeOK, TypeInv
<1> QED
  BY <1>1, IInvAlways, PTL

(* The name a run shows is the one the account has on the chain, whatever  *)
(* other runs of the account register and however often an RPC fails       *)
(* (getAccount, AwaitRegistration).                                        *)
THEOREM ShownNameIsRegisteredAlways == Spec => []ShownNameIsRegistered
<1>1. IInv => ShownNameIsRegistered
  BY DEF IInv, NameFit, ShownNameIsRegistered
<1> QED
  BY <1>1, IInvAlways, PTL

(* Only a block settles a transaction.                                     *)
LEMMA SettledByBlock ==
    ASSUME IInv, Next, NEW i \in 1 .. Len(txs), txs[i].state = "pending",
           txs'[i].state # "pending"
    PROVE  Block(i)
<1>1. TypeInv /\ DOMAIN txs = 1 .. Len(txs)
  BY TxsFacts DEF IInv
<1>2. ~ UNCHANGED txs
  OBVIOUS
<1>3. ASSUME NEW t, Send(t) PROVE FALSE
  <2>1. txs \in Seq(TxType) /\ txs' = Append(txs, t)
    BY <1>1, <1>3 DEF TypeInv, TxsInv, Send
  <2>2. txs'[i] = txs[i]
    BY <2>1
  <2> QED
    BY <2>2
<1>4. ASSUME NEW r \in Run, ClientStep(r) PROVE FALSE
  BY <1>2, <1>3, <1>4 DEF ClientStep, GetUserName, RegisterName, AwaitName, confirmPrice,
     MintCGasIfNeeded, ProposeUploadTo, Post
<1>5. ASSUME NEW r \in Run, NEW p \in Provider, GetUploadTxInfo(r, p) PROVE FALSE
  BY <1>2, <1>5 DEF GetUploadTxInfo
<1>6. ASSUME NEW p \in Provider, ProviderChanges(p) PROVE FALSE
  BY <1>2, <1>6 DEF ProviderChanges
<1>7. ASSUME NEW j \in 1 .. Len(txs), Block(j) PROVE j = i
  BY <1>1, <1>7, BlockFacts
<1> QED
  BY <1>1, <1>4, <1>5, <1>6, <1>7 DEF Next

LEMMA AtLeastOnce ==
    ASSUME NEW a \in Nat, NEW m \in Nat, m # 0
    PROVE  a * m \in Nat /\ a <= a * m
<1>1. \E k \in Nat : m = k + 1
  <2>1. m - 1 \in Nat /\ m = (m - 1) + 1
    OBVIOUS
  <2> QED
    BY <2>1
<1>2. PICK k \in Nat : m = k + 1
  BY <1>1
<1>3. a * m = a * k + a /\ a * k \in Nat
  BY <1>2
<1> QED
  BY <1>3

(* The reasons for which the contract may refuse a pending proposal of a   *)
(* run that had the CGAS.                                                  *)
LEMMA FundedRefusal ==
    ASSUME IInv, NEW i \in 1 .. Len(txs), Proposal(i), Refused(txs[i]),
           client[txs[i].run].funded
    PROVE  LET c == client[txs[i].run]
               profile == addressToProfile[txs[i].arg.sp]
           IN  \/ profile = None
               \/ profile.minAsk # c.listed[txs[i].arg.sp]
               \/ SpentByOther(txs[i].run)
               \/ c.mBytes = 0
<1>1. TypeInv /\ txs[i].run \in Run /\ PendingOK(txs[i])
  BY TxsFacts DEF IInv, TypeInv, TxsInv, Proposal, PendingOK
<1>2. PICK r, t, c, p :
        r \in Run /\ r = txs[i].run /\ t = txs[i] /\ c = client[r] /\ p = t.arg.sp
  BY <1>1
<1>3. /\ NameFit(r, c) /\ SentFit(r, c) /\ FundFit(r, c)
      /\ c \in ClientType /\ ClientOK(c) /\ Of[r] \in Account
  BY <1>1, <1>2, ClientFacts DEF IInv
<1>4. c.funded /\ c.pc \in {"propose", "posted"}
  BY <1>2, <1>3 DEF ClientOK
<1>5. /\ p \in DOMAIN c.sent /\ c.sent[p] = i
      /\ t.arg = [run |-> r, sp |-> p, payment |-> c.payment, mBytes |-> c.mBytes]
  <2>1. t.state = "pending" /\ t.run = r /\ Proposal(i)
    BY <1>2 DEF Proposal
  <2>2. c.pc # "failed"
    BY <1>4
  <2>3. p \in DOMAIN c.sent /\ c.sent[p] = i
    BY <1>2, <1>3, <2>1, <2>2 DEF SentFit
  <2>4. txs[c.sent[p]] = t
    BY <1>2, <2>3
  <2> QED
    BY <1>3, <2>1, <2>3, <2>4 DEF SentFit
<1>6. SUFFICES ASSUME addressToProfile[p] # None,
                      addressToProfile[p].minAsk = c.listed[p],
                      ~ SpentByOther(r), c.mBytes # 0
               PROVE  FALSE
  BY <1>2
<1>7. ProposeRefused(Of[r], p, c.payment, c.mBytes)
  <2>1. t.method = "proposeUpload" /\ t.from = Of[r]
    BY <1>1, <1>2 DEF Proposal, PendingOK
  <2>2. t.arg.sp = p /\ t.arg.payment = c.payment /\ t.arg.mBytes = c.mBytes
    BY <1>5
  <2> QED
    BY <1>2, <2>1, <2>2 DEF Refused
<1>8. c.payment \in Nat /\ c.mBytes \in Nat /\ c.listed[p] \in Nat /\ cgas[Of[r]] \in Nat
  BY <1>1, <1>2, <1>3, <1>5, ClientFacts, NeoAssumption
     DEF ClientType, ClientOK, TypeInv, ContractTypeOK
<1>9. addressToUserName[Of[r]] # None
  BY <1>3, <1>4 DEF NameFit
<1>10. cgas[Of[r]] >= c.payment
  <2> DEFINE owed == c.sps \cup Unpaid(c)
  <2>1. IsFiniteSet(owed) /\ Cardinality(owed) \in Nat
    BY <1>1, <1>2, UnpaidFacts
  <2>2. p \in owed
    BY <1>2, <1>5 DEF Unpaid, Proposal
  <2>3. cgas[Of[r]] >= c.payment * Cardinality(owed)
    BY <1>3, <1>4, <1>6 DEF FundFit
  <2> HIDE DEF owed
  <2>4. Cardinality(owed) # 0
    BY <2>1, <2>2, FS_EmptySet
  <2>5. c.payment <= c.payment * Cardinality(owed) /\ c.payment * Cardinality(owed) \in Nat
    BY <1>8, <2>1, <2>4, AtLeastOnce
  <2> QED
    BY <1>8, <2>3, <2>5
<1>11. c.listed[p] <= c.payment * c.mBytes
  <2>1. p \in DOMAIN c.listed
    BY <1>3, <1>5 DEF ClientOK
  <2>2. c.listed[p] * c.mBytes <= c.payment
    BY <1>3, <2>1 DEF ClientOK, Priced
  <2>3. c.listed[p] <= c.listed[p] * c.mBytes /\ c.listed[p] * c.mBytes \in Nat
    BY <1>6, <1>8, AtLeastOnce
  <2>4. c.payment <= c.payment * c.mBytes /\ c.payment * c.mBytes \in Nat
    BY <1>6, <1>8, AtLeastOnce
  <2> QED
    BY <1>8, <2>2, <2>3, <2>4
<1>12. ~ (c.listed[p] > c.payment * c.mBytes)
  BY <1>6, <1>8, <1>11, AtLeastOnce
<1>13. ~ (c.payment < 0) /\ ~ (c.mBytes <= 0) /\ ~ (cgas[Of[r]] < c.payment)
  BY <1>6, <1>8, <1>10
<1> QED
  BY <1>6, <1>7, <1>9, <1>12, <1>13 DEF ProposeRefused

(* A run that had the CGAS for all its proposals when it looked            *)
(* (MintCGasIfNeeded) has one refused only when its provider left or       *)
(* changed its ask, another run of the account spent the CGAS, or the file *)
(* is empty: it never runs short by its own payments, and what it pays     *)
(* each provider always covers the ask.                                    *)
THEOREM FundedIsAcceptedAlways == Spec => FundedIsAccepted
<1> DEFINE Because(i) == LET c == client[txs[i].run]
                             profile == addressToProfile[txs[i].arg.sp]
                         IN  \/ profile = None
                             \/ profile.minAsk # c.listed[txs[i].arg.sp]
                             \/ \E q \in Run \ {txs[i].run} :
                                    Of[q] = Of[txs[i].run] /\ SpentBy(q)
                             \/ c.mBytes = 0
           Refusals == \A i \in DOMAIN txs :
               Proposal(i) /\ txs'[i].state = "error" /\ client[txs[i].run].funded => Because(i)
<1>1. IInv /\ [Next]_vars => [Refusals]_vars
  <2> SUFFICES ASSUME IInv, Next,
                      NEW i \in DOMAIN txs, Proposal(i), txs'[i].state = "error",
                      client[txs[i].run].funded
               PROVE  Because(i)
    OBVIOUS
  <2>1. TypeInv /\ i \in 1 .. Len(txs) /\ txs[i].state = "pending"
    BY TxsFacts DEF IInv, Proposal
  <2>2. Block(i)
    BY <2>1, SettledByBlock
  <2>3. Refused(txs[i])
    BY <2>1, <2>2, BlockFacts
  <2> QED
    BY <2>1, <2>3, FundedRefusal DEF SpentByOther
<1>2. Spec => [][Refusals]_vars
  BY <1>1, IInvAlways, PTL DEF Spec
<1> QED
  BY <1>2 DEF FundedIsAccepted
-----------------------------------------------------------------------------
(* What the providers are paid                                             *)

Started == {r \in Run : client[r].pc # "new"}
Paid(p) == {r \in Run : /\ p \in DOMAIN client[r].sent
                        /\ txs[client[r].sent[p]].state = "halt"}
Charged == [r \in Run |-> client[r].payment]

(* A provider has what the runs it is paid by were charged, and accepts    *)
(* none but theirs.  Infinitely many runs may be to come, but only         *)
(* finitely many have begun.                                               *)
PaidInv ==
    /\ IsFiniteSet(Started)
    /\ \A p \in Provider : cgas[p] >= SumFunctionOnSet(Charged, Paid(p))
    /\ \A r \in Run, p \in Provider :
         verdict[r][p] = "accepted" => client[r].pc = "posted" /\ r \in Paid(p)

LEMMA ChargedFacts ==
    ASSUME TypeInv, NEW S \in SUBSET Run
    PROVE  \A r \in S : Charged[r] \in Nat /\ Charged[r] = client[r].payment
BY ClientFacts DEF Charged, ClientType

LEMMA PaidFinite ==
    ASSUME TypeInv, PaidInv, NEW p
    PROVE  Paid(p) \subseteq Started /\ IsFiniteSet(Paid(p))
<1>1. ASSUME NEW r \in Paid(p) PROVE r \in Started
  BY <1>1, ClientFacts DEF Paid, Started, ClientOK
<1> QED
  BY <1>1, FS_Subset DEF PaidInv

(* A run's step settles nothing and sends to a provider at most once; what *)
(* it was charged changes only before it sends, or when it fails and       *)
(* forgets what it sent.                                                   *)
LEMMA StepPays ==
    ASSUME IInv, NEW r \in Run, ClientStep(r)
    PROVE  /\ UNCHANGED <<contract, verdict>>
           /\ \A s \in Run \ {r} : client'[s] = client[s]
           /\ \A i \in 1 .. Len(txs) : txs'[i] = txs[i]
           /\ client[r].pc # "posted"
           /\ \A p \in DOMAIN client'[r].sent :
                \/ /\ p \in DOMAIN client[r].sent
                   /\ client'[r].sent[p] = client[r].sent[p]
                   /\ client'[r].payment = client[r].payment
                \/ txs'[client'[r].sent[p]].state = "pending"
<1>a. PICK old : old = client[r]
  OBVIOUS
<1>0. /\ old \in ClientType /\ ClientOK(old) /\ client \in [Run -> ClientType]
      /\ txs \in Seq(TxType) /\ Len(txs) \in Nat
  BY <1>a, ClientFacts, TxsFacts DEF IInv, TypeInv, TxsInv
<1>1. \A t : Send(t) =>
         /\ \A i \in 1 .. Len(txs) : txs'[i] = txs[i]
         /\ txs'[Len(txs) + 1] = t
  BY <1>0 DEF Send
<1>2. ASSUME NEW c, Becomes(r, c)
      PROVE  client'[r] = c /\ \A s \in Run \ {r} : client'[s] = client[s]
  BY <1>0, <1>2 DEF Becomes
<1>3. ASSUME Fails(r)
      PROVE  /\ DOMAIN client'[r].sent = {}
             /\ \A s \in Run \ {r} : client'[s] = client[s]
  <2>1. DOMAIN [Idle EXCEPT !.pc = "failed"].sent = {}
    BY IdleFacts DEF Idle
  <2> QED
    BY <1>2, <1>3, <2>1 DEF Fails
<1>4. old.pc \notin {"propose", "posted"} => DOMAIN old.sent = {}
  BY <1>0 DEF ClientOK
<1>5. CASE GetUserName(r)
  <2>1. PICK c : Becomes(r, c) /\ c.sent = old.sent
    <3>1. PICK name : Becomes(r, [old EXCEPT !.pc = IF name = None THEN "register" ELSE "confirm",
                                             !.name = name])
      BY <1>5, <1>a DEF GetUserName
    <3> DEFINE c == [old EXCEPT !.pc = IF name = None THEN "register" ELSE "confirm",
                                !.name = name]
    <3>2. c.sent = old.sent
      BY <1>0 DEF ClientType
    <3>3. Becomes(r, c)
      BY <3>1
    <3> HIDE DEF c
    <3> QED
      BY <3>2, <3>3
  <2> QED
    BY <1>2, <1>4, <1>5, <1>a, <2>1 DEF GetUserName, At
<1>6. CASE RegisterName(r)
  <2>1. CASE Fails(r) /\ UNCHANGED txs
    BY <1>3, <1>6, <1>a, <2>1 DEF RegisterName, At
  <2>2. CASE \E t : Send(t) /\ \E c : Becomes(r, c) /\ c.sent = old.sent
    BY <1>1, <1>2, <1>4, <1>6, <1>a, <2>2 DEF RegisterName, At
  <2> DEFINE c == [old EXCEPT !.pc = "registering", !.name = Typed[r], !.awaited = Len(txs) + 1]
  <2>3. (Fails(r) /\ UNCHANGED txs) \/ ((\E t : Send(t)) /\ Becomes(r, c))
    BY <1>6, <1>a DEF RegisterName
  <2>4. c.sent = old.sent
    BY <1>0 DEF ClientType
  <2> HIDE DEF c
  <2> QED
    BY <2>1, <2>2, <2>3, <2>4
<1>7. CASE AwaitName(r)
  <2>1. CASE Fails(r)
    BY <1>3, <1>7, <1>a, <2>1 DEF AwaitName, At
  <2>2. CASE \E c : Becomes(r, c) /\ c.sent = old.sent
    BY <1>2, <1>4, <1>7, <1>a, <2>2 DEF AwaitName, At
  <2> DEFINE c == [old EXCEPT !.pc = "confirm", !.awaited = 0]
  <2>3. Fails(r) \/ Becomes(r, c)
    BY <1>7, <1>a DEF AwaitName
  <2>4. c.sent = old.sent
    BY <1>0 DEF ClientType
  <2> HIDE DEF c
  <2> QED
    BY <2>1, <2>2, <2>3, <2>4
<1>8. CASE confirmPrice(r)
  <2>1. CASE Fails(r)
    BY <1>3, <1>8, <1>a, <2>1 DEF confirmPrice, At
  <2>2. CASE \E c : Becomes(r, c) /\ c.sent = old.sent
    BY <1>2, <1>4, <1>8, <1>a, <2>2 DEF confirmPrice, At
  <2> DEFINE c(P, m) ==
               LET listed == [p \in P |-> addressToProfile[p].minAsk]
               IN  [old EXCEPT !.pc = "mint", !.sps = P, !.listed = listed, !.mBytes = m,
                               !.payment = HighestAsk(listed) * m]
  <2>3. Fails(r) \/ \E P \in SUBSET Provider, m \in MBytes : Becomes(r, c(P, m))
    BY <1>8, <1>a DEF confirmPrice, GetSPProfiles
  <2>4. \A P \in SUBSET Provider, m \in MBytes : c(P, m).sent = old.sent
    BY <1>0 DEF ClientType
  <2> HIDE DEF c
  <2> QED
    BY <2>1, <2>2, <2>3, <2>4
<1>9. CASE MintCGasIfNeeded(r)
  <2>1. CASE Fails(r) /\ UNCHANGED txs
    BY <1>3, <1>9, <1>a, <2>1 DEF MintCGasIfNeeded, At
  <2>2. CASE (UNCHANGED txs \/ \E t : Send(t)) /\ \E c : Becomes(r, c) /\ c.sent = old.sent
    BY <1>1, <1>2, <1>4, <1>9, <1>a, <2>2 DEF MintCGasIfNeeded, At
  <2> DEFINE c == [old EXCEPT !.pc = "propose", !.funded = TRUE]
             d == [old EXCEPT !.pc = "propose"]
  <2>3. \/ Fails(r) /\ UNCHANGED txs
        \/ UNCHANGED txs /\ Becomes(r, c)
        \/ (\E t : Send(t)) /\ Becomes(r, d)
    BY <1>9, <1>a DEF MintCGasIfNeeded, Moves
  <2>4. c.sent = old.sent /\ d.sent = old.sent
    BY <1>0 DEF ClientType
  <2> HIDE DEF c, d
  <2> QED
    BY <2>1, <2>2, <2>3, <2>4
<1>10. CASE Post(r)
  <2>1. PICK c : Becomes(r, c) /\ c.sent = old.sent /\ c.payment = old.payment
    BY <1>0, <1>10, <1>a DEF Post, Moves, ClientType
  <2> QED
    BY <1>2, <1>10, <1>a, <2>1 DEF Post, At
<1>11. ASSUME NEW p \in Provider, ProposeUploadTo(r, p)
       PROVE  /\ UNCHANGED <<contract, verdict>>
              /\ \A s \in Run \ {r} : client'[s] = client[s]
              /\ \A i \in 1 .. Len(txs) : txs'[i] = txs[i]
              /\ client[r].pc # "posted"
              /\ \A q \in DOMAIN client'[r].sent :
                   \/ /\ q \in DOMAIN client[r].sent
                      /\ client'[r].sent[q] = client[r].sent[q]
                      /\ client'[r].payment = client[r].payment
                   \/ txs'[client'[r].sent[q]].state = "pending"
  <2>1. CASE Fails(r) /\ UNCHANGED txs
    BY <1>3, <1>11, <1>a, <2>1 DEF ProposeUploadTo, At
  <2>2. CASE ~ (Fails(r) /\ UNCHANGED txs)
    <3> DEFINE n == Len(txs) + 1
               sent == [q \in DOMAIN old.sent \cup {p} |-> IF q = p THEN n ELSE old.sent[q]]
               c == [old EXCEPT !.sps = @ \ {p}, !.sent = sent]
               arg == [run |-> r, sp |-> p, payment |-> old.payment, mBytes |-> old.mBytes]
               t == Tx(r, "proposeUpload", Of[r], arg)
    <3>1. Becomes(r, c) /\ Send(t)
      BY <1>11, <1>a, <2>2 DEF ProposeUploadTo
    <3>2. t.state = "pending"
      <4> HIDE DEF arg
      <4> QED
        BY DEF Tx
    <3>3. /\ DOMAIN sent = DOMAIN old.sent \cup {p} /\ sent[p] = n
          /\ \A q \in DOMAIN old.sent \ {p} : sent[q] = old.sent[q]
      OBVIOUS
    <3> HIDE DEF sent, t, n
    <3>4. c.sent = sent /\ c.payment = old.payment
      BY <1>0 DEF ClientType
    <3> HIDE DEF c
    <3>5. client'[r] = c /\ txs'[n] = t
      BY <1>1, <1>2, <3>1 DEF n
    <3>6. ASSUME NEW q \in DOMAIN client'[r].sent
          PROVE  \/ /\ q \in DOMAIN client[r].sent
                    /\ client'[r].sent[q] = client[r].sent[q]
                    /\ client'[r].payment = client[r].payment
                 \/ txs'[client'[r].sent[q]].state = "pending"
      <4>1. CASE q = p
        BY <3>2, <3>3, <3>4, <3>5, <4>1
      <4>2. CASE q # p
        BY <1>a, <3>3, <3>4, <3>5, <3>6, <4>2
      <4> QED
        BY <4>1, <4>2
    <3> QED
      BY <1>1, <1>2, <1>11, <3>1, <3>6 DEF ProposeUploadTo, At
  <2> QED
    BY <2>1, <2>2
<1> QED
  BY <1>5, <1>6, <1>7, <1>8, <1>9, <1>10, <1>11 DEF ClientStep

(* A block gives a provider what a proposal to it is worth and takes       *)
(* nothing from it: no run is a provider's.                                *)
LEMMA BlockPays ==
    ASSUME TypeInv, NEW i \in 1 .. Len(txs), Block(i), NEW p \in Provider
    PROVE  \/ txs'[i].state = "error" /\ cgas'[p] = cgas[p]
           \/ /\ txs'[i].state = "halt"
              /\ txs[i].method # "proposeUpload"
              /\ cgas'[p] >= cgas[p]
           \/ /\ txs'[i].state = "halt"
              /\ txs[i].method = "proposeUpload"
              /\ cgas'[p] = cgas[p] + (IF p = txs[i].arg.sp THEN txs[i].arg.payment ELSE 0)
<1>1. p \in Account /\ cgas[p] \in Nat /\ PendingOK(txs[i])
  BY NeoUploadAssumption, BlockFacts DEF TypeInv, ContractTypeOK
<1>2. CASE txs'[i].state = "error"
  BY <1>1, <1>2, BlockFacts DEF contract
<1>3. CASE txs'[i].state = "halt" /\ txs[i].method # "proposeUpload"
  BY <1>1, <1>3, BlockFacts
<1>4. CASE txs'[i].state = "halt" /\ txs[i].method = "proposeUpload"
  <2>1. txs[i].from # p /\ txs[i].arg \in ProposalArg
    BY <1>1, <1>4, NeoUploadAssumption DEF PendingOK
  <2>2. Invoke(txs[i])
    <3>1. \A t, outcome : Log(t, outcome).state = outcome
      BY DEF Log
    <3>2. ~ Settles(i, "error")
      BY <1>4, <3>1 DEF Settles, TypeInv, TxsInv
    <3> QED
      BY <3>2 DEF Block, IncludeInBlock
  <2>3. cgas'[p] = cgas[p] + (IF p = txs[i].arg.sp THEN txs[i].arg.payment ELSE 0)
                   - (IF p = txs[i].from THEN txs[i].arg.payment ELSE 0)
    BY <1>1, <1>4, <2>2 DEF Invoke, ProposeUpload, transferCGAS
  <2>4. (IF p = txs[i].arg.sp THEN txs[i].arg.payment ELSE 0) \in Nat
    BY <2>1 DEF ProposalArg
  <2> QED
    BY <1>1, <1>4, <2>1, <2>3, <2>4
<1> QED
  BY <1>2, <1>3, <1>4, BlockFacts

(* Whoever is paid after a step was paid before and is charged the same:   *)
(* then no provider is owed more.                                          *)
LEMMA OwedNoMore ==
    ASSUME TypeInv, TypeInv', PaidInv, NEW p \in Provider, cgas'[p] = cgas[p],
           \A r \in Paid(p)' : r \in Paid(p) /\ client'[r].payment = client[r].payment
    PROVE  cgas'[p] >= SumFunctionOnSet(Charged, Paid(p))'
<1>1. IsFiniteSet(Paid(p)) /\ Paid(p) \in SUBSET Run /\ Paid(p)' \in SUBSET Paid(p)
  BY PaidFinite DEF Paid
<1>2. \A r \in Paid(p) : Charged[r] \in Nat /\ Charged[r] = client[r].payment
  BY <1>1, ChargedFacts
<1>3. \A r \in Paid(p)' : Charged'[r] = Charged[r]
  BY <1>1 DEF Charged
<1> DEFINE before == SumFunctionOnSet(Charged, Paid(p))
           after == SumFunctionOnSet(Charged', Paid(p)')
<1>4. after <= before
  <2>1. \A r \in Paid(p)' : Charged'[r] \in Int /\ Charged'[r] <= Charged[r]
    BY <1>1, <1>2, <1>3
  <2> QED
    BY <1>1, <1>2, <2>1, SumSubset
<1>5. before \in Int /\ after \in Int
  <2>1. IsFiniteSet(Paid(p)')
    BY <1>1, FS_Subset
  <2>2. \A r \in Paid(p) : Charged[r] \in Int
    BY <1>2
  <2>3. \A r \in Paid(p)' : Charged'[r] \in Int
    BY <1>1, <1>2, <1>3
  <2> QED
    BY <1>1, <2>1, <2>2, <2>3, SumInt
<1>6. cgas[p] \in Nat /\ cgas[p] >= before
  BY NeoUploadAssumption DEF PaidInv, TypeInv, ContractTypeOK
<1> HIDE DEF before, after
<1>7. cgas'[p] >= after
  BY <1>4, <1>5, <1>6
<1> QED
  BY <1>7 DEF after

LEMMA ClientKeepsPaid ==
    ASSUME IInv, IInv', PaidInv, NEW r \in Run, ClientStep(r)
    PROVE  PaidInv'
<1>1. /\ UNCHANGED <<contract, verdict>>
      /\ \A s \in Run \ {r} : client'[s] = client[s]
      /\ \A i \in 1 .. Len(txs) : txs'[i] = txs[i]
      /\ client[r].pc # "posted"
      /\ \A p \in DOMAIN client'[r].sent :
           \/ /\ p \in DOMAIN client[r].sent
              /\ client'[r].sent[p] = client[r].sent[p]
              /\ client'[r].payment = client[r].payment
           \/ txs'[client'[r].sent[p]].state = "pending"
  BY StepPays
<1>2. \A s \in Run : \A p \in DOMAIN client[s].sent :
          txs'[client[s].sent[p]] = txs[client[s].sent[p]]
  BY <1>1 DEF IInv, SentFit
<1>3. IsFiniteSet(Started)'
  <2>1. Started' \subseteq Started \cup {r}
    BY <1>1 DEF Started
  <2>2. IsFiniteSet(Started \cup {r})
    BY FS_AddElement DEF PaidInv
  <2> QED
    BY <2>1, <2>2, FS_Subset
<1>4. ASSUME NEW p \in Provider PROVE cgas'[p] >= SumFunctionOnSet(Charged, Paid(p))'
  <2>1. ASSUME NEW s \in Paid(p)'
        PROVE  s \in Paid(p) /\ client'[s].payment = client[s].payment
    <3>1. s \in Run /\ p \in DOMAIN client'[s].sent /\ txs'[client'[s].sent[p]].state = "halt"
      BY DEF Paid
    <3>2. CASE s = r
      BY <1>1, <1>2, <3>1, <3>2 DEF Paid
    <3>3. CASE s # r
      BY <1>1, <1>2, <3>1, <3>3 DEF Paid
    <3> QED
      BY <3>2, <3>3
  <2>2. cgas'[p] = cgas[p]
    BY <1>1 DEF contract
  <2> QED
    BY <2>1, <2>2, OwedNoMore DEF IInv
<1>5. ASSUME NEW s \in Run, NEW p \in Provider, verdict'[s][p] = "accepted"
      PROVE  client'[s].pc = "posted" /\ s \in Paid(p)'
  <2>1. client[s].pc = "posted" /\ s \in Paid(p)
    BY <1>1, <1>5 DEF PaidInv
  <2>2. client'[s] = client[s]
    BY <1>1, <2>1
  <2> QED
    BY <1>2, <2>1, <2>2 DEF Paid
<1> QED
  BY <1>3, <1>4, <1>5 DEF PaidInv

LEMMA BlockKeepsPaid ==
    ASSUME IInv, IInv', PaidInv, NEW i \in 1 .. Len(txs), Block(i)
    PROVE  PaidInv'
<1>1. /\ TypeInv /\ TypeInv' /\ client' = client /\ verdict' = verdict
      /\ txs[i].state = "pending" /\ PendingOK(txs[i])
      /\ \A j \in 1 .. Len(txs) : j # i => txs'[j] = txs[j]
  BY BlockFacts DEF IInv, Block
<1>2. \A s \in Run : \A p \in DOMAIN client[s].sent : client[s].sent[p] \in 1 .. Len(txs)
  BY DEF IInv, SentFit
<1>3. Started' = Started /\ Charged' = Charged
  BY <1>1 DEF Started, Charged
<1>4. \A p : Paid(p) \subseteq Paid(p)'
  BY <1>1, <1>2 DEF Paid
<1>5. ASSUME NEW p, NEW s \in Paid(p)', s \notin Paid(p)
      PROVE  /\ txs'[i].state = "halt" /\ txs[i].method = "proposeUpload"
             /\ s = txs[i].run /\ p = txs[i].arg.sp
             /\ client[s].payment = txs[i].arg.payment
  <2>1. s \in Run /\ p \in DOMAIN client[s].sent /\ client[s].sent[p] = i
    BY <1>1, <1>2, <1>5 DEF Paid
  <2>2. /\ txs[i].method = "proposeUpload" /\ txs[i].run = s
        /\ txs[i].arg = [run |-> s, sp |-> p, payment |-> client[s].payment,
                         mBytes |-> client[s].mBytes]
    BY <1>1, <2>1 DEF IInv, SentFit
  <2>3. txs'[i].state = "halt"
    BY <1>1, <1>5, <2>1 DEF Paid
  <2> QED
    BY <2>2, <2>3
<1>6. ASSUME NEW p \in Provider PROVE cgas'[p] >= SumFunctionOnSet(Charged, Paid(p))'
  <2>1. /\ cgas[p] \in Nat /\ cgas'[p] \in Nat
        /\ cgas[p] >= SumFunctionOnSet(Charged, Paid(p))
    BY <1>1, NeoUploadAssumption DEF PaidInv, TypeInv, ContractTypeOK
  <2>2. IsFiniteSet(Paid(p)) /\ Paid(p) \in SUBSET Run
    BY <1>1, PaidFinite DEF Paid
  <2>3. \A s \in Run : Charged[s] \in Nat /\ Charged[s] \in Int /\ Charged[s] = client[s].payment
    BY <1>1, ChargedFacts
  <2>4. SumFunctionOnSet(Charged, Paid(p)) \in Int
    BY <2>2, <2>3, SumInt
  <2>5. CASE Paid(p)' = Paid(p)
    <3>1. SumFunctionOnSet(Charged, Paid(p))' = SumFunctionOnSet(Charged, Paid(p))
      BY <1>3, <2>5
    <3>2. cgas'[p] >= cgas[p]
      <4>1. txs[i].method = "proposeUpload" => txs[i].arg.payment \in Nat
        BY <1>1, NeoUploadAssumption DEF PendingOK, ProposalArg
      <4> QED
        BY <1>1, <2>1, <4>1, BlockPays
    <3> QED
      BY <2>1, <2>4, <3>1, <3>2
  <2>6. CASE Paid(p)' # Paid(p)
    <3>1. PICK s \in Paid(p)' : s \notin Paid(p)
      BY <1>4, <2>6
    <3>2. Paid(p)' = Paid(p) \cup {s}
      BY <1>4, <1>5, <3>1
    <3>3. s \in Run /\ cgas'[p] = cgas[p] + client[s].payment
      BY <1>1, <1>5, <3>1, BlockPays DEF Paid
    <3>4. SumFunctionOnSet(Charged, Paid(p) \cup {s})
             = Charged[s] + SumFunctionOnSet(Charged, Paid(p))
      <4>1. \A q \in Paid(p) \cup {s} : Charged[q] \in Int
        BY <2>2, <2>3, <3>3
      <4> QED
        BY <2>2, <3>1, <4>1, SumAdd
    <3>5. SumFunctionOnSet(Charged, Paid(p))' = Charged[s] + SumFunctionOnSet(Charged, Paid(p))
      BY <1>3, <3>2, <3>4
    <3> QED
      BY <2>1, <2>3, <2>4, <3>3, <3>5
  <2> QED
    BY <2>5, <2>6
<1>7. ASSUME NEW s \in Run, NEW p \in Provider, verdict'[s][p] = "accepted"
      PROVE  client'[s].pc = "posted" /\ s \in Paid(p)'
  BY <1>1, <1>4, <1>7 DEF PaidInv
<1> QED
  BY <1>3, <1>6, <1>7 DEF PaidInv

LEMMA PaidStep == IInv /\ IInv' /\ PaidInv /\ [Next]_vars => PaidInv'
<1> SUFFICES ASSUME IInv, IInv', PaidInv, [Next]_vars PROVE PaidInv'
  OBVIOUS
<1>0. DOMAIN txs = 1 .. Len(txs)
  BY TxsFacts DEF IInv
<1>1. ASSUME NEW r \in Run, ClientStep(r) PROVE PaidInv'
  BY <1>1, ClientKeepsPaid
<1>2. ASSUME NEW i \in DOMAIN txs, Block(i) PROVE PaidInv'
  BY <1>0, <1>2, BlockKeepsPaid
<1>3. ASSUME UNCHANGED <<client, txs, cgas>>
      PROVE  /\ IsFiniteSet(Started)'
             /\ \A p \in Provider : cgas'[p] >= SumFunctionOnSet(Charged, Paid(p))'
             /\ \A p : Paid(p)' = Paid(p)
  <2>1. Started' = Started /\ Charged' = Charged /\ \A p : Paid(p)' = Paid(p)
    BY <1>3 DEF Started, Charged, Paid
  <2> QED
    BY <1>3, <2>1 DEF PaidInv
<1>4. ASSUME NEW r \in Run, NEW p \in Provider, GetUploadTxInfo(r, p) PROVE PaidInv'
  <2>1. UNCHANGED <<client, txs, cgas>>
    BY <1>4 DEF GetUploadTxInfo, contract
  <2>2. ASSUME NEW s \in Run, NEW q \in Provider, verdict'[s][q] = "accepted"
        PROVE  client[s].pc = "posted" /\ s \in Paid(q)
    <3>1. verdict \in [Run -> [Provider -> {"none", "accepted", "refused"}]]
      BY DEF IInv, TypeInv
    <3>2. CASE s = r /\ q = p
      BY <1>4, <2>2, <3>1, <3>2 DEF GetUploadTxInfo, At, Succeeded, Paid
    <3>3. CASE ~ (s = r /\ q = p)
      <4>1. verdict[s][q] = "accepted"
        BY <1>4, <2>2, <3>1, <3>3 DEF GetUploadTxInfo
      <4> QED
        BY <4>1 DEF PaidInv
    <3> QED
      BY <3>2, <3>3
  <2> QED
    BY <1>3, <2>1, <2>2 DEF PaidInv
<1>5. ASSUME UNCHANGED <<client, txs, cgas, verdict>> PROVE PaidInv'
  BY <1>3, <1>5 DEF PaidInv
<1>6. ASSUME NEW p \in Provider, ProviderChanges(p) PROVE UNCHANGED <<client, txs, cgas, verdict>>
  BY <1>6 DEF ProviderChanges, RegisterStorageProvider, UnregisterStorageProvider
<1>7. CASE UNCHANGED vars
  BY <1>5, <1>7 DEF vars, contract
<1> QED
  BY <1>1, <1>2, <1>4, <1>5, <1>6, <1>7 DEF Next

(* Whatever other runs and other accounts spend, and in whatever order the *)
(* chain takes the transactions, a provider was paid for every upload that *)
(* it accepted what the client was shown it asks (GetUploadTxInfo).        *)
THEOREM AcceptedIsPaidAlways == Spec => []AcceptedIsPaid
<1>1. Init => PaidInv
  <2> SUFFICES ASSUME Init PROVE PaidInv
    OBVIOUS
  <2>1. Started = {} /\ \A p : Paid(p) = {}
    BY IdleFacts DEF Init, Started, Paid, Idle
  <2>2. \A p \in Provider : cgas[p] = 0
    BY NeoUploadAssumption DEF Init
  <2>3. \A r \in Run, p \in Provider : verdict[r][p] # "accepted"
    BY DEF Init
  <2> QED
    BY <2>1, <2>2, <2>3, FS_EmptySet, SumEmpty DEF PaidInv
<1>2. IInv /\ PaidInv => AcceptedIsPaid
  <2> SUFFICES ASSUME IInv, PaidInv, NEW p \in Provider
               PROVE  cgas[p] >= SumFunction([r \in Accepted(p) |->
                                                client[r].listed[p] * client[r].mBytes])
    BY DEF AcceptedIsPaid
  <2> DEFINE asked == [r \in Accepted(p) |-> client[r].listed[p] * client[r].mBytes]
  <2>1. IsFiniteSet(Paid(p)) /\ Paid(p) \in SUBSET Run
    BY PaidFinite DEF Paid, IInv
  <2>2. Accepted(p) \in SUBSET Paid(p)
    BY DEF Accepted, PaidInv
  <2>3. \A r \in Paid(p) : Charged[r] \in Nat /\ Charged[r] = client[r].payment
    BY <2>1, ChargedFacts DEF IInv
  <2>4. ASSUME NEW r \in Accepted(p) PROVE asked[r] \in Int /\ asked[r] <= Charged[r]
    <3>1. r \in Run /\ r \in Paid(p) /\ p \in DOMAIN client[r].sent
      BY <2>2 DEF Paid
    <3>2. client[r] \in ClientType /\ ClientOK(client[r])
      BY <3>1, ClientFacts DEF IInv
    <3>3. p \in DOMAIN client[r].listed /\ client[r].listed[p] \in Nat
      BY <3>1, <3>2, ClientFacts, NeoAssumption DEF IInv, ClientOK
    <3>4. client[r].mBytes \in Nat
      BY <3>2 DEF ClientType
    <3>5. client[r].listed[p] * client[r].mBytes <= client[r].payment
      BY <3>2, <3>3 DEF ClientOK, Priced
    <3>6. client[r].listed[p] * client[r].mBytes \in Int
      BY <3>3, <3>4
    <3> QED
      BY <2>3, <3>1, <3>5, <3>6
  <2>5. DOMAIN asked = Accepted(p)
    OBVIOUS
  <2> HIDE DEF asked
  <2>6. SumFunctionOnSet(asked, Accepted(p)) <= SumFunctionOnSet(Charged, Paid(p))
    BY <2>1, <2>2, <2>3, <2>4, SumSubset
  <2>7. SumFunctionOnSet(asked, Accepted(p)) \in Int /\ SumFunctionOnSet(Charged, Paid(p)) \in Int
    <3>1. IsFiniteSet(Accepted(p))
      BY <2>1, <2>2, FS_Subset
    <3>2. \A r \in Paid(p) : Charged[r] \in Int
      BY <2>3
    <3> QED
      BY <2>1, <2>4, <3>1, <3>2, SumInt
  <2>8. cgas[p] \in Int /\ cgas[p] >= SumFunctionOnSet(Charged, Paid(p))
    BY NeoUploadAssumption DEF PaidInv, IInv, TypeInv, ContractTypeOK
  <2>9. cgas[p] >= SumFunctionOnSet(asked, DOMAIN asked)
    BY <2>5, <2>6, <2>7, <2>8
  <2> QED
    BY <2>9 DEF SumFunction, asked
<1> QED
  BY <1>1, <1>2, IInvAlways, PaidStep, PTL DEF Spec
-----------------------------------------------------------------------------
(* A run is finite                                                         *)

(* A bound on the steps a run in state c can still take.                   *)
StepsLeft(c) ==
    CASE c.pc \in {"posted", "failed"} -> 0
      [] c.pc = "propose" -> 1 + Cardinality(c.sps)
      [] c.pc = "mint" -> 2 + Cardinality(c.sps)
      [] c.pc = "confirm" -> 3 + Cardinality(Provider)
      [] c.pc = "registering" -> 4 + Cardinality(Provider)
      [] c.pc = "register" -> 5 + Cardinality(Provider)
      [] c.pc = "new" -> 6 + Cardinality(Provider)

LEMMA StepsLeftFacts ==
    ASSUME NEW c \in ClientType
    PROVE  /\ Cardinality(Provider) \in Nat
           /\ IsFiniteSet(c.sps) /\ Cardinality(c.sps) \in Nat
           /\ Cardinality(c.sps) <= Cardinality(Provider)
           /\ StepsLeft(c) \in Nat
           /\ c.pc \notin {"posted", "failed"} => StepsLeft(c) > 0
<1>1. IsFiniteSet(Provider) /\ c.sps \in SUBSET Provider /\ c.pc \in Place
  BY NeoUploadAssumption DEF ClientType
<1>2. /\ Cardinality(Provider) \in Nat
      /\ IsFiniteSet(c.sps) /\ Cardinality(c.sps) \in Nat
      /\ Cardinality(c.sps) <= Cardinality(Provider)
  BY <1>1, FS_Subset, FS_CardinalityType
<1>3. CASE c.pc \in {"posted", "failed"}
  BY <1>2, <1>3 DEF StepsLeft
<1>4. CASE c.pc \in {"propose", "mint"}
  BY <1>2, <1>4 DEF StepsLeft
<1>5. CASE c.pc \in {"confirm", "registering", "register", "new"}
  BY <1>2, <1>5 DEF StepsLeft
<1> QED
  BY <1>1, <1>2, <1>3, <1>4, <1>5 DEF Place

LEMMA StepShrinks ==
    ASSUME TypeInv, NEW r \in Run, ClientStep(r)
    PROVE  StepsLeft(client'[r]) < StepsLeft(client[r])
<1>a. PICK old : old = client[r]
  OBVIOUS
<1>0. old \in ClientType /\ client \in [Run -> ClientType]
  BY <1>a, ClientFacts DEF TypeInv
<1>1. /\ Cardinality(Provider) \in Nat
      /\ IsFiniteSet(old.sps) /\ Cardinality(old.sps) \in Nat /\ StepsLeft(old) \in Nat
      /\ Cardinality(old.sps) <= Cardinality(Provider)
      /\ old.pc \notin {"posted", "failed"} => StepsLeft(old) > 0
  BY <1>0, StepsLeftFacts
<1>2. ASSUME NEW c, Becomes(r, c)
      PROVE  client'[r] = c
  BY <1>0, <1>2 DEF Becomes
<1>3. ASSUME Fails(r), old.pc \notin {"posted", "failed"}
      PROVE  StepsLeft(client'[r]) < StepsLeft(old)
  <2> DEFINE c == [Idle EXCEPT !.pc = "failed"]
  <2>1. c.pc = "failed"
    BY DEF Idle
  <2>2. client'[r] = c
    BY <1>2, <1>3 DEF Fails
  <2> HIDE DEF c
  <2>3. StepsLeft(client'[r]) = 0
    BY <2>1, <2>2 DEF StepsLeft
  <2> QED
    BY <1>1, <1>3, <2>3
<1>5. CASE GetUserName(r)
  <2>1. PICK name : Becomes(r, [old EXCEPT !.pc = IF name = None THEN "register" ELSE "confirm",
                                           !.name = name])
    BY <1>5, <1>a DEF GetUserName
  <2> DEFINE c == [old EXCEPT !.pc = IF name = None THEN "register" ELSE "confirm", !.name = name]
  <2>2. c.pc \in {"register", "confirm"}
    BY <1>0 DEF ClientType
  <2>3. client'[r] = c
    BY <1>2, <2>1
  <2>4. old.pc = "new"
    BY <1>5, <1>a DEF GetUserName, At
  <2> HIDE DEF c
  <2> QED
    BY <1>1, <1>a, <2>2, <2>3, <2>4 DEF StepsLeft
<1>6. CASE RegisterName(r)
  <2> DEFINE c == [old EXCEPT !.pc = "registering", !.name = Typed[r], !.awaited = Len(txs) + 1]
  <2>1. old.pc = "register"
    BY <1>6, <1>a DEF RegisterName, At
  <2>2. Fails(r) \/ Becomes(r, c)
    BY <1>6, <1>a DEF RegisterName
  <2>3. c.pc = "registering"
    BY <1>0 DEF ClientType
  <2> HIDE DEF c
  <2>4. CASE Becomes(r, c)
    BY <1>1, <1>2, <1>a, <2>1, <2>3, <2>4 DEF StepsLeft
  <2> QED
    BY <1>3, <1>a, <2>1, <2>2, <2>4
<1>7. CASE AwaitName(r)
  <2> DEFINE c == [old EXCEPT !.pc = "confirm", !.awaited = 0]
  <2>1. old.pc = "registering"
    BY <1>7, <1>a DEF AwaitName, At
  <2>2. Fails(r) \/ Becomes(r, c)
    BY <1>7, <1>a DEF AwaitName
  <2>3. c.pc = "confirm"
    BY <1>0 DEF ClientType
  <2> HIDE DEF c
  <2>4. CASE Becomes(r, c)
    BY <1>1, <1>2, <1>a, <2>1, <2>3, <2>4 DEF StepsLeft
  <2> QED
    BY <1>3, <1>a, <2>1, <2>2, <2>4
<1>8. CASE confirmPrice(r)
  <2> DEFINE c(P, m) ==
               LET listed == [p \in P |-> addressToProfile[p].minAsk]
               IN  [old EXCEPT !.pc = "mint", !.sps = P, !.listed = listed, !.mBytes = m,
                               !.payment = HighestAsk(listed) * m]
  <2>1. old.pc = "confirm"
    BY <1>8, <1>a DEF confirmPrice, At
  <2>2. Fails(r) \/ \E P \in SUBSET Provider, m \in MBytes : Becomes(r, c(P, m))
    BY <1>8, <1>a DEF confirmPrice, GetSPProfiles
  <2>3. \A P \in SUBSET Provider, m \in MBytes : c(P, m).pc = "mint" /\ c(P, m).sps = P
    BY <1>0 DEF ClientType
  <2>4. \A P \in SUBSET Provider : Cardinality(P) \in Nat /\ Cardinality(P) <= Cardinality(Provider)
    BY NeoUploadAssumption, FS_Subset, FS_CardinalityType
  <2> HIDE DEF c
  <2>5. ASSUME NEW P \in SUBSET Provider, NEW m \in MBytes, Becomes(r, c(P, m))
        PROVE  StepsLeft(client'[r]) < StepsLeft(client[r])
    <3>1. client'[r].pc = "mint" /\ client'[r].sps = P
      BY <1>2, <2>3, <2>5
    <3>2. StepsLeft(client'[r]) = 2 + Cardinality(P)
      BY <3>1 DEF StepsLeft
    <3>3. StepsLeft(client[r]) = 3 + Cardinality(Provider)
      BY <1>a, <2>1 DEF StepsLeft
    <3> QED
      BY <1>1, <2>4, <3>2, <3>3
  <2> QED
    BY <1>3, <1>a, <2>1, <2>2, <2>5
<1>9. CASE MintCGasIfNeeded(r)
  <2> DEFINE c == [old EXCEPT !.pc = "propose", !.funded = TRUE]
             d == [old EXCEPT !.pc = "propose"]
  <2>1. old.pc = "mint"
    BY <1>9, <1>a DEF MintCGasIfNeeded, At
  <2>2. Fails(r) \/ Becomes(r, c) \/ Becomes(r, d)
    BY <1>9, <1>a DEF MintCGasIfNeeded, Moves
  <2>3. c.pc = "propose" /\ d.pc = "propose" /\ c.sps = old.sps /\ d.sps = old.sps
    BY <1>0 DEF ClientType
  <2> HIDE DEF c, d
  <2>4. CASE Becomes(r, c) \/ Becomes(r, d)
    <3>1. client'[r].pc = "propose" /\ client'[r].sps = old.sps
      BY <1>2, <2>3, <2>4
    <3> QED
      BY <1>1, <1>a, <2>1, <3>1 DEF StepsLeft
  <2> QED
    BY <1>3, <1>a, <2>1, <2>2, <2>4
<1>10. CASE Post(r)
  <2> DEFINE c == [old EXCEPT !.pc = "posted"]
  <2>1. old.pc = "propose" /\ Becomes(r, c)
    BY <1>10, <1>a DEF Post, At, Moves
  <2>2. c.pc = "posted"
    BY <1>0 DEF ClientType
  <2> HIDE DEF c
  <2> QED
    BY <1>1, <1>2, <1>a, <2>1, <2>2 DEF StepsLeft
<1>11. ASSUME NEW p \in Provider, ProposeUploadTo(r, p)
       PROVE  StepsLeft(client'[r]) < StepsLeft(client[r])
  <2> DEFINE sent == [q \in DOMAIN old.sent \cup {p} |-> IF q = p THEN Len(txs) + 1 ELSE old.sent[q]]
             c == [old EXCEPT !.sps = @ \ {p}, !.sent = sent]
  <2>1. old.pc = "propose" /\ p \in old.sps
    BY <1>11, <1>a DEF ProposeUploadTo, At
  <2>2. Fails(r) \/ Becomes(r, c)
    BY <1>11, <1>a DEF ProposeUploadTo
  <2> HIDE DEF sent
  <2>3. c.pc = "propose" /\ c.sps = old.sps \ {p}
    BY <1>0, <2>1 DEF ClientType
  <2> HIDE DEF c
  <2>4. CASE Becomes(r, c)
    <3>1. Cardinality(old.sps \ {p}) = Cardinality(old.sps) - 1
      BY <1>1, <2>1, FS_RemoveElement
    <3>2. client'[r].pc = "propose" /\ client'[r].sps = old.sps \ {p}
      BY <1>2, <2>3, <2>4
    <3>3. StepsLeft(client'[r]) = 1 + Cardinality(old.sps \ {p})
      BY <3>2 DEF StepsLeft
    <3>4. StepsLeft(client[r]) = 1 + Cardinality(old.sps)
      BY <1>a, <2>1 DEF StepsLeft
    <3> QED
      BY <1>1, <3>1, <3>3, <3>4
  <2> QED
    BY <1>3, <1>a, <2>1, <2>2, <2>4
<1> QED
  BY <1>5, <1>6, <1>7, <1>8, <1>9, <1>10, <1>11 DEF ClientStep

(* No run goes on for ever, whatever becomes of its transactions: each of  *)
(* its steps uses up one of finitely many, nobody else's step changes it,  *)
(* and a provider decides on its upload once.  What RunEnds adds is that   *)
(* the steps are taken.                                                    *)
THEOREM RunShrinks ==
    Spec => /\ [](\A r \in Run : StepsLeft(client[r]) \in Nat)
            /\ [][\A r \in Run : client'[r] # client[r] =>
                    StepsLeft(client'[r]) < StepsLeft(client[r])]_vars
            /\ [][\A r \in Run, p \in Provider : verdict[r][p] # "none" =>
                    verdict'[r][p] = verdict[r][p]]_vars
<1>1. IInv => \A r \in Run : StepsLeft(client[r]) \in Nat
  BY ClientFacts, StepsLeftFacts DEF IInv
<1>2. IInv /\ [Next]_vars => [\A r \in Run : client'[r] # client[r] =>
                                StepsLeft(client'[r]) < StepsLeft(client[r])]_vars
  <2> SUFFICES ASSUME IInv, Next, NEW r \in Run, client'[r] # client[r]
               PROVE  StepsLeft(client'[r]) < StepsLeft(client[r])
    OBVIOUS
  <2>1. ~ UNCHANGED client
    OBVIOUS
  <2>2. PICK s \in Run : ClientStep(s)
    BY <2>1 DEF Next, GetUploadTxInfo, ProviderChanges, Block
  <2>3. s = r
    BY <2>2, StepPays
  <2> QED
    BY <2>2, <2>3, StepShrinks DEF IInv
<1>3. IInv /\ [Next]_vars => [\A r \in Run, p \in Provider : verdict[r][p] # "none" =>
                                verdict'[r][p] = verdict[r][p]]_vars
  <2> SUFFICES ASSUME IInv, Next, NEW r \in Run, NEW p \in Provider, verdict[r][p] # "none"
               PROVE  verdict'[r][p] = verdict[r][p]
    OBVIOUS
  <2>1. ASSUME NEW s \in Run, NEW q \in Provider, GetUploadTxInfo(s, q)
        PROVE  verdict'[r][p] = verdict[r][p]
    <3>1. verdict \in [Run -> [Provider -> {"none", "accepted", "refused"}]]
      BY DEF IInv, TypeInv
    <3>2. verdict[s][q] = "none"
      BY <2>1 DEF GetUploadTxInfo
    <3> QED
      BY <2>1, <3>1, <3>2 DEF GetUploadTxInfo
  <2>2. ASSUME NEW s \in Run, ClientStep(s) PROVE verdict' = verdict
    BY <2>2, StepPays
  <2> QED
    BY <2>1, <2>2 DEF Next, ProviderChanges, Block
<1> QED
  BY <1>1, <1>2, <1>3, IInvAlways, PTL DEF Spec
-----------------------------------------------------------------------------
(* CGAS                                                                    *)

(* A transfer takes from one account what it gives to the other, which may *)
(* be the same.                                                            *)
LEMMA TransferConserves ==
    ASSUME cgas \in [Account -> Nat], NEW from \in Account, NEW to \in Account, NEW amount \in Nat,
           transferCGAS(from, to, amount)
    PROVE  SumFunction(cgas') = SumFunction(cgas)
<1> DEFINE paid == [cgas EXCEPT ![to] = cgas[to] + amount]
           left == [paid EXCEPT ![from] = paid[from] - amount]
<1>1. IsFiniteSet(Account)
  BY NeoAssumption
<1>2. cgas \in [Account -> Int] /\ cgas[to] + amount \in Int /\ cgas[to] \in Int
  OBVIOUS
<1>3. /\ SumFunction(paid) = SumFunction(cgas) - cgas[to] + (cgas[to] + amount)
      /\ SumFunction(cgas) \in Int
  BY <1>1, <1>2, SumChange
<1>4. paid \in [Account -> Int] /\ paid[from] \in Int /\ paid[from] - amount \in Int
  BY <1>2
<1>5. \A a \in Account : paid[a] = cgas[a] + (IF a = to THEN amount ELSE 0)
  BY <1>2
<1> HIDE DEF paid
<1>6. SumFunction(left) = SumFunction(paid) - paid[from] + (paid[from] - amount)
  BY <1>1, <1>4, SumChange
<1>7. cgas' = left
  <2>1. cgas' = [a \in Account |->
                   cgas[a] + (IF a = to THEN amount ELSE 0) - (IF a = from THEN amount ELSE 0)]
    BY DEF transferCGAS
  <2>2. left \in [Account -> Int] /\ \A a \in Account :
          left[a] = IF a = from THEN paid[a] - amount ELSE paid[a]
    BY <1>4
  <2>3. \A a \in Account : left[a] = cgas'[a]
    <3> SUFFICES ASSUME NEW a \in Account PROVE left[a] = cgas'[a]
      OBVIOUS
    <3>1. cgas'[a] = cgas[a] + (IF a = to THEN amount ELSE 0) - (IF a = from THEN amount ELSE 0)
      BY <2>1
    <3>2. cgas[a] \in Int /\ paid[a] = cgas[a] + (IF a = to THEN amount ELSE 0)
      BY <1>5
    <3>3. left[a] = IF a = from THEN paid[a] - amount ELSE paid[a]
      BY <2>2
    <3> HIDE DEF left
    <3> QED
      BY <3>1, <3>2, <3>3
  <2> HIDE DEF left
  <2> QED
    BY <2>1, <2>2, <2>3
<1> HIDE DEF left
<1>8. SumFunction(cgas') = SumFunction(left)
  BY <1>7
<1> QED
  BY <1>2, <1>3, <1>4, <1>6, <1>8

LEMMA MintAdds ==
    ASSUME cgas \in [Account -> Nat], NEW address \in Account, NEW amount \in Nat,
           mintTokens(address, amount)
    PROVE  SumFunction(cgas') = SumFunction(cgas) + amount
<1>1. IsFiniteSet(Account)
  BY NeoAssumption
<1>2. cgas \in [Account -> Int] /\ cgas[address] + amount \in Int /\ cgas[address] \in Int
  OBVIOUS
<1>3. cgas' = [cgas EXCEPT ![address] = cgas[address] + amount]
  BY DEF mintTokens
<1>4. /\ SumFunction([cgas EXCEPT ![address] = cgas[address] + amount])
            = SumFunction(cgas) - cgas[address] + (cgas[address] + amount)
      /\ SumFunction(cgas) \in Int
  BY <1>1, <1>2, SumChange
<1>5. SumFunction(cgas') = SumFunction(cgas) - cgas[address] + (cgas[address] + amount)
  BY <1>3, <1>4
<1> QED
  BY <1>2, <1>4, <1>5

Mints(i) ==
    /\ txs[i].state = "pending" /\ txs[i].method = "mintTokens"
    /\ txs'[i].state = "halt"
    /\ SumFunction(cgas') = SumFunction(cgas) + txs[i].arg

(* Proposals move CGAS and neither make nor lose any, also when refused or *)
(* when the chain takes them in another order: the sum of all balances     *)
(* changes only by what a mint that took effect adds.                      *)
THEOREM CgasConserved ==
    Spec => [][SumFunction(cgas') = SumFunction(cgas) \/ \E i \in DOMAIN txs : Mints(i)]_vars
<1>1. IInv /\ [Next]_vars =>
        [SumFunction(cgas') = SumFunction(cgas) \/ \E i \in DOMAIN txs : Mints(i)]_vars
  <2> SUFFICES ASSUME IInv, Next
               PROVE  SumFunction(cgas') = SumFunction(cgas) \/ \E i \in DOMAIN txs : Mints(i)
    OBVIOUS
  <2>1. CASE cgas' = cgas
    BY <2>1
  <2>2. ASSUME NEW i \in DOMAIN txs, Block(i)
        PROVE  SumFunction(cgas') = SumFunction(cgas) \/ Mints(i)
    <3>1. i \in 1 .. Len(txs)
      BY TxsFacts DEF IInv
    <3>2. /\ cgas \in [Account -> Nat] /\ txs[i].state = "pending" /\ PendingOK(txs[i])
          /\ txs'[i].state = "error" => cgas' = cgas
          /\ txs'[i].state \in {"halt", "error"}
      <4>1. TypeInv /\ cgas \in [Account -> Nat]
        BY DEF IInv, TypeInv, ContractTypeOK
      <4>2. UNCHANGED contract => cgas' = cgas
        BY DEF contract
      <4> QED
        BY <2>2, <3>1, <4>1, <4>2, BlockFacts
    <3>3. CASE txs'[i].state = "error"
      BY <3>2, <3>3
    <3>4. CASE txs'[i].state = "halt"
      <4>1. Invoke(txs[i])
        <5>1. \A t, outcome : Log(t, outcome).state = outcome
          BY DEF Log
        <5>2. ~ Settles(i, "error")
          BY <3>1, <3>4, <5>1 DEF Settles, TypeInv, TxsInv, IInv
        <5> QED
          BY <2>2, <5>2 DEF Block, IncludeInBlock
      <4>2. txs[i].from \in Account
        BY <3>2, NeoUploadAssumption DEF PendingOK
      <4>3. CASE txs[i].method = "mintTokens"
        <5>1. txs[i].arg \in Nat /\ mintTokens(txs[i].from, txs[i].arg)
          BY <3>2, <4>1, <4>3 DEF PendingOK, Invoke
        <5> QED
          BY <3>2, <3>4, <4>2, <4>3, <5>1, MintAdds DEF Mints
      <4>4. CASE txs[i].method = "registerUserName"
        BY <4>1, <4>4 DEF Invoke, RegisterUserName
      <4>5. CASE txs[i].method = "proposeUpload"
        <5>1. txs[i].arg \in ProposalArg /\ transferCGAS(txs[i].from, txs[i].arg.sp, txs[i].arg.payment)
          BY <3>2, <4>1, <4>5 DEF PendingOK, Invoke, ProposeUpload
        <5>2. txs[i].arg.sp \in Account /\ txs[i].arg.payment \in Nat
          BY <5>1, NeoUploadAssumption DEF ProposalArg
        <5> QED
          BY <3>2, <4>2, <5>1, <5>2, TransferConserves
      <4> QED
        BY <3>2, <4>3, <4>4, <4>5 DEF PendingOK
    <3> QED
      BY <3>2, <3>3, <3>4
  <2>3. ASSUME NEW r \in Run, ClientStep(r) PROVE cgas' = cgas
    BY <2>3, StepPays DEF contract
  <2> QED
    BY <2>1, <2>2, <2>3 DEF Next, GetUploadTxInfo, ProviderChanges, contract,
                             RegisterStorageProvider, UnregisterStorageProvider
<1> QED
  BY <1>1, IInvAlways, PTL DEF Spec
=============================================================================
