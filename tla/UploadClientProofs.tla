------------------------- MODULE UploadClientProofs -------------------------
(***************************************************************************)
(* What holds of an upload by the client for any number of shards,         *)
(* providers and posts at once.                                            *)
(*                                                                         *)
(* The invariant relates the three places a shard to do may be: waiting,   *)
(* with a goroutine that posts it, or answered on the channel.             *)
(***************************************************************************)
EXTENDS UploadClient, FiniteSetTheorems, SequenceTheorems, TLAPS

Posting == {s \in Shard : post[s] # None}

(* The goroutine and the answer of a shard are about providers the         *)
(* uploader paid, and a good answer is about a shard that is stored.       *)
RoundInv ==
    /\ (todo = 0) <=> (phase # "collect")
    /\ \A s \in Shard : post[s] # None => post[s].sp \in paid
    /\ \A i \in DOMAIN uchan :
        /\ uchan[i].shard \in ToSet(shardsToDo)
        /\ uchan[i].sp \in paid
        /\ uchan[i].ok => <<uchan[i].shard, uchan[i].sp>> \in stored

(* Shards go to providers that are paid by the time the loop begins, and   *)
(* only a whole file is posted whole.                                      *)
PaidInv ==
    /\ phase = "propose" /\ sharded => ToSet(sps) \subseteq paid \cup ToSet(proposals)
    /\ phase \in {"loop", "collect"} => sharded /\ ToSet(sps) \subseteq paid
    /\ phase = "post" => ~ sharded

IInv == TypeOK /\ AnswersCounted /\ ShardsAccounted /\ RoundInv /\ PaidInv /\ SuccessMeansStored

-----------------------------------------------------------------------------
(* Sequences                                                               *)

LEMMA EmptyFacts ==
    /\ \A S : <<>> \in Seq(S)
    /\ Len(<<>>) = 0
    /\ DOMAIN <<>> = 1 .. 0
    /\ \A i \in DOMAIN <<>> : FALSE
<1>1. \A S : <<>> \in Seq(S)
  BY EmptySeq
<1>2. Len(<<>>) = 0
  OBVIOUS
<1>3. DOMAIN <<>> = 1 .. 0
  OBVIOUS
<1> QED
  BY <1>1, <1>2, <1>3

LEMMA SubSeqFacts ==
    ASSUME NEW S, NEW a \in Seq(S), NEW k \in Int, NEW l \in Int, 1 <= k, l <= Len(a)
    PROVE  /\ SubSeq(a, k, l) \in Seq(S)
           /\ Len(SubSeq(a, k, l)) = IF k <= l THEN l - k + 1 ELSE 0
           /\ \A j \in 1 .. l - k + 1 : SubSeq(a, k, l)[j] = a[k + j - 1]
<1>1. \A j \in k .. l : a[j] \in S
  BY ElementOfSeq
<1> QED
  BY <1>1, SubSeqProperties

(* EraseInt takes exactly the one element out, and keeps the rest distinct.*)
LEMMA EraseIntFacts ==
    ASSUME NEW S, NEW a \in Seq(S), IsInjective(a), NEW x
    PROVE  /\ EraseInt(a, x) \in Seq(S)
           /\ IsInjective(EraseInt(a, x))
           /\ ToSet(EraseInt(a, x)) = ToSet(a) \ {x}
           /\ Len(EraseInt(a, x)) = IF x \in ToSet(a) THEN Len(a) - 1 ELSE Len(a)
<1>1. DOMAIN a = 1 .. Len(a) /\ Len(a) \in Nat /\ \A i \in 1 .. Len(a) : a[i] \in S
  BY LenProperties, ElementOfSeq
<1>2. CASE \A i \in DOMAIN a : a[i] # x
  <2>1. EraseInt(a, x) = a /\ x \notin ToSet(a)
    BY <1>2 DEF EraseInt, ToSet
  <2> QED
    BY <1>2, <2>1 DEF ToSet
<1>3. CASE \E i \in DOMAIN a : a[i] = x
  <2> DEFINE i == CHOOSE j \in DOMAIN a : a[j] = x
             n == Len(a)
             b == [a EXCEPT ![i] = a[n]]
             e == SubSeq(b, 1, n - 1)
  <2>1. i \in 1 .. n /\ a[i] = x
    BY <1>1, <1>3
  <2>2. e = EraseInt(a, x)
    BY <1>3 DEF EraseInt
  <2>3. n \in Nat /\ n \in 1 .. n /\ n - 1 \in Nat
    BY <1>1, <2>1
  <2>4. b \in Seq(S) /\ Len(b) = n /\ \A j \in 1 .. n : b[j] = IF j = i THEN a[n] ELSE a[j]
    BY <1>1, <2>1, <2>3, ExceptSeq
  <2> HIDE DEF i, b
  <2>5. e \in Seq(S) /\ Len(e) = n - 1 /\ \A j \in 1 .. n - 1 : e[j] = b[j]
    BY <1>1, <2>3, <2>4, SubSeqFacts
  <2> HIDE DEF e
  <2>6. DOMAIN e = 1 .. n - 1
    BY <2>5, LenProperties
  <2>7. \A j \in 1 .. n - 1 : e[j] = IF j = i THEN a[n] ELSE a[j]
    BY <1>1, <2>4, <2>5
  <2>8. \A j, k \in 1 .. n : a[j] = a[k] => j = k
    BY <1>1 DEF IsInjective
  <2>9. IsInjective(e)
    <3> SUFFICES ASSUME NEW j \in 1 .. n - 1, NEW k \in 1 .. n - 1, e[j] = e[k] PROVE j = k
      BY <2>6 DEF IsInjective
    <3> QED
      BY <1>1, <2>1, <2>3, <2>7, <2>8
  <2>10. ASSUME NEW y \in ToSet(e) PROVE y \in ToSet(a) \ {x}
    <3>1. PICK j \in 1 .. n - 1 : y = e[j]
      BY <2>6, <2>10 DEF ToSet
    <3>2. PICK k \in 1 .. n : y = a[k] /\ k # i
      BY <1>1, <2>1, <2>3, <2>7, <3>1
    <3> QED
      BY <1>1, <2>1, <2>8, <3>2 DEF ToSet
  <2>11. ASSUME NEW y \in ToSet(a) \ {x} PROVE y \in ToSet(e)
    <3>1. PICK k \in 1 .. n : y = a[k] /\ k # i
      BY <1>1, <2>1, <2>11 DEF ToSet
    <3> HIDE DEF n
    <3>2. \E j \in 1 .. n - 1 : y = e[j]
      <4>1. CASE k = n
        <5>1. i \in 1 .. n - 1
          BY <2>1, <2>3, <3>1, <4>1
        <5> QED
          BY <2>7, <3>1, <4>1, <5>1
      <4>2. CASE k # n
        <5>1. k \in 1 .. n - 1
          BY <2>3, <4>2
        <5> QED
          BY <2>7, <3>1, <5>1
      <4> QED
        BY <4>1, <4>2
    <3> QED
      BY <2>6, <3>2 DEF ToSet
  <2>12. x \in ToSet(a)
    BY <1>1, <2>1 DEF ToSet
  <2> QED
    BY <2>2, <2>5, <2>9, <2>10, <2>11, <2>12
<1> QED
  BY <1>2, <1>3

LEMMA WithoutSPFacts ==
    ASSUME NEW S, NEW list \in Seq(S), NEW sp
    PROVE  /\ WithoutSP(list, sp) \in Seq(S)
           /\ ToSet(WithoutSP(list, sp)) \subseteq ToSet(list)
           /\ Len(WithoutSP(list, sp)) = IF sp \in ToSet(list) THEN Len(list) - 1 ELSE Len(list)
<1>1. DOMAIN list = 1 .. Len(list) /\ Len(list) \in Nat /\ list \in Seq(ToSet(list))
  BY LenProperties, SeqOfRange DEF ToSet, Range
<1>2. CASE \A i \in DOMAIN list : list[i] # sp
  BY <1>2 DEF WithoutSP, ToSet
<1>3. CASE \E i \in DOMAIN list : list[i] = sp
  <2> DEFINE i == CHOOSE j \in DOMAIN list : list[j] = sp
             left == SubSeq(list, 1, i - 1)
             right == SubSeq(list, i + 1, Len(list))
  <2>1. i \in 1 .. Len(list)
    BY <1>1, <1>3
  <2>2. WithoutSP(list, sp) = left \o right
    BY <1>3 DEF WithoutSP, RemoveAt
  <2> HIDE DEF i
  <2>3. left \in Seq(ToSet(list)) /\ right \in Seq(ToSet(list))
    BY <1>1, <2>1, SubSeqFacts
  <2>4. /\ left \in Seq(S) /\ right \in Seq(S)
        /\ Len(left) = i - 1 /\ Len(right) = Len(list) - i
    BY <1>1, <2>1, SubSeqFacts
  <2>a. sp \in ToSet(list)
    BY <1>3 DEF ToSet
  <2> HIDE DEF left, right
  <2>5. left \o right \in Seq(ToSet(list)) /\ left \o right \in Seq(S)
    BY <2>3, <2>4, ConcatProperties
  <2>6. ToSet(left \o right) \subseteq ToSet(list)
    BY <2>5, RangeOfSeq DEF ToSet, Range
  <2>7. Len(left \o right) = Len(list) - 1
    <3>1. Len(left \o right) = Len(left) + Len(right)
      BY <2>4, ConcatProperties
    <3> QED
      BY <1>1, <2>1, <2>4, <3>1
  <2> QED
    BY <2>a, <2>2, <2>5, <2>6, <2>7
<1> QED
  BY <1>2, <1>3

-----------------------------------------------------------------------------
(* The goroutines that post                                                *)

LEMMA ShardFacts ==
    /\ Shard \subseteq Nat
    /\ IsFiniteSet(Shard)
    /\ \A S \in SUBSET Shard : IsFiniteSet(S) /\ Cardinality(S) \in Nat
<1>1. NumShards \in Nat
  BY NumberAssumption
<1>2. IsFiniteSet(Shard)
  BY <1>1, FS_Interval DEF Shard
<1>3. \A S \in SUBSET Shard : IsFiniteSet(S) /\ Cardinality(S) \in Nat
  BY <1>2, FS_Subset, FS_CardinalityType
<1> QED
  BY <1>1, <1>2, <1>3 DEF Shard

LEMMA UchanFacts ==
    ASSUME TypeOK
    PROVE  /\ DOMAIN uchan = 1 .. Len(uchan)
           /\ Len(uchan) \in Nat
           /\ \A i \in DOMAIN uchan : uchan[i] \in Answer
<1>1. uchan \in Seq(Answer)
  BY DEF TypeOK
<1> QED
  BY <1>1, LenProperties, ElementOfSeq

(* Between rounds no goroutine posts and no answer is left.                *)
LEMMA IdleFacts ==
    ASSUME TypeOK, AnswersCounted, todo = 0
    PROVE  uchan = <<>> /\ \A s \in Shard : post[s] = None
<1>1. Cardinality(Posting) \in Nat /\ IsFiniteSet(Posting)
  BY ShardFacts DEF Posting
<1>2. 0 = Len(uchan) + Cardinality(Posting)
  BY DEF AnswersCounted, Posting
<1>3. Len(uchan) = 0 /\ Cardinality(Posting) = 0
  BY <1>1, <1>2, UchanFacts
<1>4. Posting = {}
  BY <1>1, <1>3, FS_EmptySet
<1>5. uchan \in Seq(Answer)
  BY DEF TypeOK
<1>6. uchan = <<>>
  BY <1>3, <1>5, EmptySeq
<1> QED
  BY <1>4, <1>6 DEF Posting

LEMMA StoredKept ==
    ASSUME paid \subseteq paid', stored \subseteq stored', NEW s, StoredByPaid(s)
    PROVE  StoredByPaid(s)'
BY DEF StoredByPaid

(* A step of the main goroutine outside the loop.                          *)
LEMMA RoundKept ==
    ASSUME TypeOK, AnswersCounted, ShardsAccounted, RoundInv, UNCHANGED round,
           phase # "collect", phase' \notin {"loop", "collect"},
           paid \subseteq paid', stored \subseteq stored'
    PROVE  AnswersCounted' /\ ShardsAccounted' /\ RoundInv'
<1>1. AnswersCounted'
  BY DEF AnswersCounted, round
<1>2. ShardsAccounted'
  BY DEF ShardsAccounted, round, IsInjective, ToSet
<1>3. RoundInv'
  BY DEF RoundInv, round, ToSet
<1> QED
  BY <1>1, <1>2, <1>3

-----------------------------------------------------------------------------
(* Initially                                                               *)

LEMMA InitInv ==
    Init => IInv
<1> SUFFICES ASSUME Init PROVE IInv
  OBVIOUS
<1>1. sps \in Seq(SP)
  <2>1. PICK n \in 1 .. Cardinality(SP) : sps \in [1 .. n -> SP]
    BY DEF Init, Lists
  <2>2. Cardinality(SP) \in Nat
    BY SPAssumption, FS_CardinalityType
  <2> QED
    BY <2>1, <2>2
<1>2. {s \in Shard : post[s] # None} = {}
  BY DEF Init
<1>3. AnswersCounted
  <2>1. Cardinality({s \in Shard : post[s] # None}) = 0
    BY <1>2, FS_EmptySet
  <2>2. todo = 0 /\ Len(uchan) = 0
    BY EmptyFacts DEF Init
  <2> QED
    BY <2>1, <2>2 DEF AnswersCounted
<1>4. TypeOK
  BY <1>1, EmptyFacts, NumberAssumption DEF Init, TypeOK, Account, Terminal
<1>5. ShardsAccounted
  <2>1. IsInjective(shardsToDo)
    BY EmptyFacts DEF Init, IsInjective
  <2> QED
    BY <2>1, EmptyFacts DEF Init, ShardsAccounted
<1>6. RoundInv /\ PaidInv /\ SuccessMeansStored
  BY EmptyFacts DEF Init, RoundInv, PaidInv, SuccessMeansStored
<1> QED
  BY <1>3, <1>4, <1>5, <1>6 DEF IInv

-----------------------------------------------------------------------------
(* The main goroutine                                                      *)

LEMMA PaySteps ==
    ASSUME IInv, Refuse \/ Confirm \/ ProposeEth \/ AwaitEth \/ ProposeNeo
    PROVE  IInv'
<1> USE DEF IInv
<1>1. Len(proposals) \in Nat /\ DOMAIN proposals = 1 .. Len(proposals)
  BY LenProperties DEF TypeOK
<1>2. /\ UNCHANGED <<request, sps, round, stored>>
      /\ paid \subseteq paid'
      /\ phase \in {"confirm", "propose", "wait"}
      /\ phase' \in {"propose", "wait", "post", "panic", "error"}
  <2>1. CASE Refuse \/ Confirm
    BY <2>1 DEF Refuse, Confirm, Goto
  <2>2. CASE ProposeEth \/ AwaitEth
    <3>1. CASE ProposeEth
      <4>1. phase = "propose"
        BY <3>1 DEF ProposeEth, Goto
      <4> QED
        BY <3>1, <4>1 DEF ProposeEth, Goto
    <3>2. CASE AwaitEth
      BY <3>2 DEF AwaitEth, Goto
    <3> QED
      BY <2>2, <3>1, <3>2
  <2>3. CASE ProposeNeo
    BY <2>3 DEF ProposeNeo, Goto
  <2> QED
    BY <2>1, <2>2, <2>3
<1>3. AnswersCounted' /\ ShardsAccounted' /\ RoundInv'
  BY <1>2, RoundKept
<1>4. SuccessMeansStored'
  BY <1>2 DEF SuccessMeansStored
<1>5. /\ paid' \subseteq SP
      /\ proposals' \in Seq(SP)
      /\ phase' = "propose" /\ sharded => ToSet(sps) \subseteq paid' \cup ToSet(proposals')
      /\ phase' = "post" => ~ sharded
  <2>1. CASE Refuse
    BY <2>1 DEF Refuse, Goto, TypeOK
  <2>2. CASE Confirm
    <3>1. PICK list \in Chosen : proposals' = list
      BY <2>2 DEF Confirm
    <3>2. sps \in Seq(SP)
      BY DEF TypeOK
    <3>3. CASE sharded
      <4>1. proposals' = sps
        BY <3>1, <3>3 DEF Chosen
      <4> QED
        BY <2>2, <3>2, <4>1 DEF Confirm, Goto, TypeOK, ToSet
    <3>4. CASE ~ sharded
      <4>1. PICK i \in DOMAIN sps : proposals' = <<sps[i]>>
        BY <3>1, <3>4 DEF Chosen
      <4>2. sps[i] \in SP
        BY <3>2, <4>1, LenProperties, ElementOfSeq
      <4> QED
        BY <2>2, <3>4, <4>1, <4>2 DEF Confirm, Goto, TypeOK
    <3> QED
      BY <3>3, <3>4
  <2>3. CASE ProposeEth
    <3>1. ToSet(proposals) \subseteq SP
      BY <1>1, ElementOfSeq DEF TypeOK, ToSet
    <3>2. phase' \in {"wait", "error"}
      BY <2>3 DEF ProposeEth, Goto
    <3>3. CASE paid' = paid \cup ToSet(proposals) /\ proposals' = <<>>
      BY <3>1, <3>2, <3>3, EmptyFacts DEF TypeOK
    <3>4. CASE UNCHANGED <<paid, proposals>>
      BY <3>2, <3>4 DEF TypeOK
    <3> QED
      BY <2>3, <3>3, <3>4 DEF ProposeEth
  <2>4. CASE AwaitEth
    BY <2>4 DEF AwaitEth, Goto, TypeOK
  <2>5. CASE ProposeNeo
    <3>1. CASE phase' = "propose" /\ paid' = paid \cup {Head(proposals)} /\ proposals' = Tail(proposals)
      <4>1. proposals \in Seq(SP) /\ proposals # <<>>
        BY <2>5 DEF ProposeNeo, TypeOK
      <4>2. Head(proposals) \in SP /\ Tail(proposals) \in Seq(SP)
        BY <4>1, HeadTailProperties
      <4>3. ToSet(proposals) \subseteq {Head(proposals)} \cup ToSet(Tail(proposals))
        <5>1. Len(Tail(proposals)) = Len(proposals) - 1
              /\ \A i \in 1 .. Len(Tail(proposals)) : Tail(proposals)[i] = proposals[i + 1]
          BY <4>1, HeadTailProperties
        <5>2. DOMAIN Tail(proposals) = 1 .. Len(proposals) - 1
          BY <4>2, <5>1, LenProperties
        <5>3. Head(proposals) = proposals[1]
          BY <4>1
        <5>4. ASSUME NEW i \in 1 .. Len(proposals), i # 1
              PROVE  proposals[i] \in ToSet(Tail(proposals))
          <6>1. i - 1 \in 1 .. Len(proposals) - 1 /\ (i - 1) + 1 = i
            BY <1>1, <5>4
          <6>2. Tail(proposals)[i - 1] = proposals[i]
            BY <5>1, <6>1
          <6> QED
            BY <5>2, <6>1, <6>2 DEF ToSet
        <5> QED
          BY <1>1, <5>3, <5>4 DEF ToSet
      <4>4. phase = "propose"
        BY <2>5, <3>1 DEF ProposeNeo, Goto
      <4>5. sharded => ToSet(sps) \subseteq paid \cup ToSet(proposals)
        BY <4>4 DEF PaidInv
      <4> QED
        BY <3>1, <4>2, <4>3, <4>5 DEF TypeOK
    <3>2. CASE phase' = "error" /\ UNCHANGED <<paid, proposals>>
      BY <3>2 DEF TypeOK
    <3> QED
      BY <2>5, <3>1, <3>2 DEF ProposeNeo, Goto
  <2> QED
    BY <2>1, <2>2, <2>3, <2>4, <2>5
<1>6. PaidInv'
  BY <1>2, <1>5 DEF PaidInv, request
<1>7. TypeOK'
  BY <1>2, <1>5 DEF TypeOK, request, round, Terminal
<1> QED
  BY <1>3, <1>4, <1>6, <1>7

LEMMA ProposedNeoStep ==
    ASSUME IInv, ProposedNeo
    PROVE  IInv'
<1> USE DEF IInv
<1>1. /\ UNCHANGED <<request, sps, proposals, paid, todo, post, uchan, stored>>
      /\ phase = "propose"
      /\ phase' = IF sharded THEN "loop" ELSE "error"
      /\ shardsToDo' = IF sharded THEN [i \in 1 .. NumShards |-> i] ELSE <<>>
      /\ proposals = <<>>
  BY DEF ProposedNeo, Goto
<1>2. todo = 0
  BY <1>1 DEF RoundInv
<1>3. uchan = <<>> /\ \A s \in Shard : post[s] = None
  BY <1>2, IdleFacts
<1>4. /\ shardsToDo' \in Seq(Shard)
      /\ IsInjective(shardsToDo')
      /\ sharded => ToSet(shardsToDo') = Shard
  <2>1. CASE sharded
    <3>1. NumShards \in Nat
      BY NumberAssumption
    <3> QED
      BY <1>1, <2>1, <3>1 DEF Shard, IsInjective, ToSet
  <2>2. CASE ~ sharded
    <3>1. shardsToDo' = <<>>
      BY <1>1, <2>2
    <3> QED
      BY <2>2, <3>1, EmptyFacts DEF IsInjective
  <2> QED
    BY <2>1, <2>2
<1>5. AnswersCounted'
  BY <1>1 DEF AnswersCounted
<1>6. ShardsAccounted'
  BY <1>1, <1>3, <1>4, EmptyFacts DEF ShardsAccounted
<1>7. RoundInv'
  BY <1>1, <1>2, <1>3, EmptyFacts DEF RoundInv
<1>8. PaidInv'
  <2>1. ToSet(proposals) = {}
    BY <1>1, EmptyFacts DEF ToSet
  <2> QED
    BY <1>1, <2>1 DEF PaidInv, request
<1>9. TypeOK'
  BY <1>1, <1>4 DEF TypeOK, request, Terminal
<1>10. SuccessMeansStored'
  BY <1>1 DEF SuccessMeansStored
<1> QED
  BY <1>5, <1>6, <1>7, <1>8, <1>9, <1>10

LEMMA PostWholeFileStep ==
    ASSUME IInv, PostWholeFile
    PROVE  IInv'
<1> USE DEF IInv
<1>1. PICK sp \in paid :
        \/ phase' = "done" /\ readable /\ stored' = stored \cup {<<WholeFile, sp>>}
        \/ phase' = "done" /\ ~readable /\ UNCHANGED stored
        \/ phase' = "error" /\ stored' \in {stored, stored \cup {<<WholeFile, sp>>}}
  BY DEF PostWholeFile, Goto
<1>2. phase = "post" /\ UNCHANGED <<request, sps, proposals, paid, round>>
  BY DEF PostWholeFile, Goto
<1>3. ~ sharded
  BY <1>2 DEF PaidInv
<1>4. AnswersCounted' /\ ShardsAccounted' /\ RoundInv'
  BY <1>1, <1>2, RoundKept
<1>5. TypeOK'
  <2>1. stored' \subseteq ({WholeFile} \cup Shard) \X SP
    BY <1>1 DEF TypeOK
  <2> QED
    BY <1>1, <1>2, <2>1 DEF TypeOK, request, round, Terminal
<1>6. PaidInv'
  BY <1>1, <1>2 DEF PaidInv
<1>7. SuccessMeansStored'
  BY <1>1, <1>2, <1>3 DEF SuccessMeansStored, StoredByPaid, request
<1> QED
  BY <1>4, <1>5, <1>6, <1>7

LEMMA EndLoopStep ==
    ASSUME IInv, EndLoop
    PROVE  IInv'
<1> USE DEF IInv
<1>1. /\ UNCHANGED <<request, sps, proposals, paid, round, stored>>
      /\ phase = "loop"
      /\ \/ phase' = "done" /\ shardsToDo = <<>>
         \/ phase' = "error"
  BY DEF EndLoop, Goto
<1>2. sharded
  BY <1>1 DEF PaidInv
<1>3. AnswersCounted' /\ ShardsAccounted' /\ RoundInv'
  BY <1>1, RoundKept
<1>4. TypeOK'
  BY <1>1 DEF TypeOK, request, round, Terminal
<1>5. PaidInv'
  BY <1>1 DEF PaidInv
<1>6. SuccessMeansStored'
  <2>1. phase' = "done" => ToSet(shardsToDo) = {}
    BY <1>1, EmptyFacts DEF ToSet
  <2>2. phase' = "done" => \A s \in Shard : StoredByPaid(s)
    BY <1>1, <2>1 DEF ShardsAccounted
  <2> QED
    BY <1>1, <1>2, <2>2 DEF SuccessMeansStored, StoredByPaid, request
<1> QED
  BY <1>3, <1>4, <1>5, <1>6

LEMMA CollectStep ==
    ASSUME IInv, Collect
    PROVE  IInv'
<1> USE DEF IInv
<1> DEFINE answer == Head(uchan)
<1>1. /\ phase = "collect"
      /\ uchan \in Seq(Answer) /\ uchan # <<>>
      /\ uchan' = Tail(uchan)
      /\ todo' = todo - 1
      /\ phase' = IF todo = 1 THEN "loop" ELSE "collect"
      /\ UNCHANGED <<request, proposals, paid, post, stored>>
  BY DEF Collect, TypeOK
<1>2. \/ answer.ok /\ shardsToDo' = EraseInt(shardsToDo, answer.shard) /\ UNCHANGED sps
      \/ ~answer.ok /\ sps' = WithoutSP(sps, answer.sp) /\ UNCHANGED shardsToDo
  BY DEF Collect
<1>3. /\ answer \in Answer
      /\ answer = uchan[1]
      /\ 1 \in DOMAIN uchan
      /\ uchan' \in Seq(Answer)
      /\ Len(uchan') = Len(uchan) - 1
      /\ \A i \in DOMAIN uchan' : i + 1 \in DOMAIN uchan /\ uchan'[i] = uchan[i + 1] /\ i \in Nat /\ i # 0
  <2>1. /\ answer \in Answer /\ uchan' \in Seq(Answer) /\ Len(uchan') = Len(uchan) - 1
        /\ \A i \in 1 .. Len(uchan') : uchan'[i] = uchan[i + 1]
    BY <1>1, HeadTailProperties
  <2>2. DOMAIN uchan' = 1 .. Len(uchan')
    BY <2>1, LenProperties
  <2>3. Len(uchan) \in Nat \ {0} /\ answer = uchan[1]
    BY <1>1, EmptySeq
  <2> QED
    BY <2>1, <2>2, <2>3, UchanFacts
<1> HIDE DEF answer
<1>4. /\ shardsToDo' \in Seq(Shard)
      /\ IsInjective(shardsToDo')
      /\ ToSet(shardsToDo') = IF answer.ok THEN ToSet(shardsToDo) \ {answer.shard}
                               ELSE ToSet(shardsToDo)
  <2>1. shardsToDo \in Seq(Shard) /\ IsInjective(shardsToDo)
    BY DEF TypeOK, ShardsAccounted
  <2> QED
    BY <1>2, <2>1, EraseIntFacts
<1>5. sps' \in Seq(SP) /\ ToSet(sps') \subseteq ToSet(sps)
  <2>1. sps \in Seq(SP)
    BY DEF TypeOK
  <2> QED
    BY <1>2, <2>1, WithoutSPFacts
<1>6. todo \in 0 .. MaxAtOnce /\ todo # 0
  BY <1>1 DEF TypeOK, RoundInv
<1>7. AnswersCounted'
  <2>1. Cardinality(Posting) \in Nat
    BY ShardFacts DEF Posting
  <2>2. todo = Len(uchan) + Cardinality(Posting)
    BY DEF AnswersCounted, Posting
  <2>3. todo' = Len(uchan') + Cardinality(Posting)
    BY <1>1, <1>3, <2>1, <2>2, UchanFacts
  <2> QED
    BY <1>1, <2>3 DEF AnswersCounted, Posting
<1>8. answer.ok => StoredByPaid(answer.shard)
  BY <1>3 DEF RoundInv, StoredByPaid
<1>9. ShardsAccounted'
  <2>1. \A s \in Shard : s \notin ToSet(shardsToDo') => StoredByPaid(s)
    BY <1>1, <1>4, <1>8 DEF ShardsAccounted
  <2>2. \A s \in Shard : s \notin ToSet(shardsToDo') => StoredByPaid(s)'
    BY <1>1, <2>1 DEF StoredByPaid
  <2>3. \A s \in Shard : post'[s] # None =>
          s \in ToSet(shardsToDo') /\ \A i \in DOMAIN uchan' : uchan'[i].shard # s
    BY <1>1, <1>3, <1>4 DEF ShardsAccounted
  <2>4. \A i, j \in DOMAIN uchan' : uchan'[i].shard = uchan'[j].shard => i = j
    <3> SUFFICES ASSUME NEW i \in DOMAIN uchan', NEW j \in DOMAIN uchan',
                        uchan'[i].shard = uchan'[j].shard
                 PROVE  i = j
      OBVIOUS
    <3>1. i + 1 = j + 1
      BY <1>3 DEF ShardsAccounted
    <3> QED
      BY <1>3, <3>1
  <2> QED
    BY <1>4, <2>2, <2>3, <2>4 DEF ShardsAccounted
<1>10. RoundInv'
  <2>1. todo' = 0 <=> phase' # "collect"
    BY <1>1, <1>6, NumberAssumption
  <2>2. \A i \in DOMAIN uchan' :
          /\ uchan'[i].shard \in ToSet(shardsToDo')
          /\ uchan'[i].sp \in paid
          /\ uchan'[i].ok => <<uchan'[i].shard, uchan'[i].sp>> \in stored
    <3> SUFFICES ASSUME NEW i \in DOMAIN uchan'
                 PROVE  /\ uchan[i + 1].shard \in ToSet(shardsToDo')
                        /\ uchan[i + 1].sp \in paid
                        /\ uchan[i + 1].ok => <<uchan[i + 1].shard, uchan[i + 1].sp>> \in stored
      BY <1>3
    <3>1. i + 1 # 1 /\ i + 1 \in DOMAIN uchan
      BY <1>3
    <3>2. uchan[i + 1].shard # answer.shard
      BY <1>3, <3>1 DEF ShardsAccounted
    <3> QED
      BY <1>4, <3>1, <3>2 DEF RoundInv
  <2> QED
    BY <1>1, <2>1, <2>2 DEF RoundInv
<1>11. PaidInv'
  BY <1>1, <1>5 DEF PaidInv, request
<1>12. SuccessMeansStored'
  BY <1>1 DEF SuccessMeansStored
<1>13. TypeOK'
  <2>1. todo' \in 0 .. MaxAtOnce
    BY <1>1, <1>6, NumberAssumption
  <2> QED
    BY <1>1, <1>3, <1>4, <1>5, <2>1 DEF TypeOK, request
<1> QED
  BY <1>7, <1>9, <1>10, <1>11, <1>12, <1>13

LEMMA AtOnceFacts ==
    ASSUME TypeOK, shardsToDo # <<>>
    PROVE  AtOnce \in Nat /\ 1 <= AtOnce /\ AtOnce <= MaxAtOnce /\ AtOnce <= Len(shardsToDo)
<1>1. Len(shardsToDo) \in Nat \ {0}
  BY EmptySeq DEF TypeOK
<1>2. MaxAtOnce \in Nat \ {0}
  BY NumberAssumption
<1> QED
  BY <1>1, <1>2 DEF AtOnce

LEMMA DealtFacts ==
    ASSUME TypeOK, sps # <<>>, NEW i \in Nat, 1 <= i
    PROVE  Dealt(i) \in SP /\ Dealt(i) \in ToSet(sps)
<1>1. Len(sps) \in Nat \ {0} /\ DOMAIN sps = 1 .. Len(sps) /\ \A j \in 1 .. Len(sps) : sps[j] \in SP
  BY EmptySeq, LenProperties, ElementOfSeq DEF TypeOK
<1>2. i - 1 \in Nat
  OBVIOUS
<1>3. (i - 1) % Len(sps) \in 0 .. Len(sps) - 1
  BY <1>1, <1>2
<1>4. ((i - 1) % Len(sps)) + 1 \in 1 .. Len(sps)
  BY <1>1, <1>3
<1> QED
  BY <1>1, <1>4 DEF Dealt, ToSet

(* The goroutines of a round are as many as its answers to collect: the    *)
(* first shards to do are distinct.                                        *)
LEMMA StartRoundStep ==
    ASSUME IInv, StartRound
    PROVE  IInv'
<1> USE DEF IInv
<1> DEFINE n == AtOnce
           begun == {shardsToDo[i] : i \in 1 .. n}
<1>1. /\ phase = "loop" /\ phase' = "collect"
      /\ shardsToDo # <<>> /\ sps # <<>>
      /\ todo' = n
      /\ UNCHANGED <<request, sps, proposals, paid, shardsToDo, uchan, stored>>
  BY DEF StartRound, Goto
<1>2. todo = 0 /\ sharded /\ ToSet(sps) \subseteq paid
  BY <1>1 DEF RoundInv, PaidInv
<1>3. uchan = <<>> /\ \A s \in Shard : post[s] = None
  BY <1>2, IdleFacts
<1>4. n \in Nat /\ 1 <= n /\ n <= MaxAtOnce /\ n <= Len(shardsToDo)
  BY <1>1, AtOnceFacts
<1>5. /\ DOMAIN shardsToDo = 1 .. Len(shardsToDo) /\ Len(shardsToDo) \in Nat
      /\ \A i \in 1 .. Len(shardsToDo) : shardsToDo[i] \in Shard
      /\ IsInjective(shardsToDo)
  BY LenProperties, ElementOfSeq DEF TypeOK, ShardsAccounted
<1>6. begun \subseteq Shard /\ begun \subseteq ToSet(shardsToDo)
  BY <1>4, <1>5 DEF ToSet
<1>7. /\ post' \in [Shard -> Post \cup {None}]
      /\ \A s \in Shard : post'[s] # None => s \in begun /\ post'[s].sp \in ToSet(sps)
      /\ \A s \in begun : post'[s] # None
  <2> DEFINE At(s) == CHOOSE j \in 1 .. n : shardsToDo[j] = s
             new(s) == [sp |-> Dealt(At(s)), tried |-> {}, intact |-> TRUE]
  <2>1. post' = [s \in Shard |-> IF \E i \in 1 .. n : shardsToDo[i] = s THEN new(s) ELSE None]
    BY DEF StartRound
  <2>2. ASSUME NEW s \in begun
        PROVE  new(s) \in Post /\ new(s).sp \in ToSet(sps) /\ new(s) # None
    <3>1. At(s) \in 1 .. n
      OBVIOUS
    <3> HIDE DEF At
    <3>2. Dealt(At(s)) \in SP /\ Dealt(At(s)) \in ToSet(sps)
      BY <1>1, <1>4, <3>1, DealtFacts
    <3> QED
      <4> DEFINE sp == Dealt(At(s))
      <4>1. sp \in SP /\ sp \in ToSet(sps)
        BY <3>2
      <4>2. new(s) = [sp |-> sp, tried |-> {}, intact |-> TRUE]
        OBVIOUS
      <4> HIDE DEF sp, new
      <4>3. new(s) \in Post /\ new(s).sp = sp
        BY <4>1, <4>2 DEF Post
      <4> QED
        BY <4>1, <4>3, NoneAssumption
  <2>3. \A s \in Shard : (\E i \in 1 .. n : shardsToDo[i] = s) <=> s \in begun
    OBVIOUS
  <2> HIDE DEF new, begun, n
  <2>4. \A s \in Shard : post'[s] = IF s \in begun THEN new(s) ELSE None
    BY <2>1, <2>3
  <2>5. post' = [s \in Shard |-> IF s \in begun THEN new(s) ELSE None]
    BY <2>1, <2>3
  <2> QED
    BY <1>6, <2>2, <2>4, <2>5
<1>8. AnswersCounted'
  <2>1. {s \in Shard : post'[s] # None} = begun
    BY <1>6, <1>7
  <2>2. Cardinality(begun) = n
    <3> DEFINE f == [i \in 1 .. n |-> shardsToDo[i]]
    <3>1. f \in Bijection(1 .. n, begun)
      <4>1. \A i, j \in 1 .. n : shardsToDo[i] = shardsToDo[j] => i = j
        BY <1>4, <1>5 DEF IsInjective
      <4> QED
        BY <4>1 DEF Bijection, Injection, Surjection, IsInjective
    <3>2. ExistsBijection(1 .. n, begun)
      BY <3>1 DEF ExistsBijection
    <3>3. IsFiniteSet(1 .. n) /\ Cardinality(1 .. n) = n
      BY <1>4, FS_Interval
    <3> QED
      BY <3>2, <3>3, FS_Bijection
  <2>3. Len(uchan') = 0
    BY <1>1, <1>3, EmptyFacts
  <2>4. todo' = Len(uchan') + Cardinality(begun)
    BY <1>1, <1>4, <2>2, <2>3
  <2> QED
    BY <2>1, <2>4 DEF AnswersCounted
<1>9. ShardsAccounted'
  <2>1. \A s \in Shard : s \notin ToSet(shardsToDo) => StoredByPaid(s)'
    BY <1>1 DEF ShardsAccounted, StoredByPaid
  <2> QED
    BY <1>1, <1>3, <1>5, <1>6, <1>7, <2>1, EmptyFacts DEF ShardsAccounted
<1>10. RoundInv'
  <2>1. todo' # 0
    BY <1>1, <1>4
  <2> QED
    BY <1>1, <1>2, <1>3, <1>7, <2>1, EmptyFacts DEF RoundInv
<1>11. PaidInv' /\ SuccessMeansStored'
  BY <1>1, <1>2 DEF PaidInv, SuccessMeansStored, request
<1>12. TypeOK'
  <2>1. todo' \in 0 .. MaxAtOnce
    BY <1>1, <1>4, NumberAssumption
  <2> QED
    BY <1>1, <1>7, <2>1 DEF TypeOK, request
<1> QED
  BY <1>8, <1>9, <1>10, <1>11, <1>12

-----------------------------------------------------------------------------
(* The goroutine of a shard                                                *)

LEMMA PostKinds ==
    ASSUME TypeOK, NEW s \in Shard, PostShard(s)
    PROVE  /\ post[s] # None /\ post[s] \in Post
           /\ UNCHANGED <<request, phase, sps, proposals, paid, shardsToDo, todo>>
           /\ stored' \in {stored, stored \cup {<<s, post[s].sp>>}}
           /\ \/ \E ok \in BOOLEAN :
                    Reply(s, ok) /\ (ok => <<s, post[s].sp>> \in stored')
              \/ /\ \E q \in Post : q.sp = post[s].sp /\ post' = [post EXCEPT ![s] = q]
                 /\ UNCHANGED uchan
<1>1. post[s] # None /\ post[s] \in Post
  BY DEF TypeOK, PostShard, PostOK, AnswerLost, PostFails
<1>2. ASSUME NEW intact \in BOOLEAN, Failed(s, intact)
      PROVE  \/ Reply(s, FALSE)
             \/ /\ \E q \in Post : q.sp = post[s].sp /\ post' = [post EXCEPT ![s] = q]
                /\ UNCHANGED uchan
  <2> DEFINE tried == post[s].tried \cup {NextUrl(post[s])}
             q == [sp |-> post[s].sp, tried |-> tried, intact |-> intact]
  <2>1. CASE Schemes[post[s].sp] \subseteq tried
    BY <1>2, <2>1 DEF Failed
  <2>2. CASE ~ (Schemes[post[s].sp] \subseteq tried)
    <3>1. post' = [post EXCEPT ![s] = q] /\ UNCHANGED uchan
      BY <1>2, <2>2 DEF Failed
    <3>2. NextUrl(post[s]) \in {"http", "https"}
      BY DEF NextUrl, Url
    <3>3. q \in Post /\ q.sp = post[s].sp
      BY <1>1, <3>2 DEF Post
    <3> QED
      BY <3>1, <3>3
  <2> QED
    BY <2>1, <2>2
<1>3. CASE PostOK(s)
  BY <1>1, <1>3 DEF PostOK, Store
<1>4. CASE AnswerLost(s)
  BY <1>1, <1>2, <1>4 DEF AnswerLost, Store
<1>5. CASE PostFails(s)
  <2>1. post[s].intact \in BOOLEAN
    BY <1>1 DEF Post
  <2>2. \E intact \in BOOLEAN : Failed(s, intact)
    BY <1>5, <2>1 DEF PostFails
  <2> QED
    BY <1>1, <1>2, <1>5, <2>2 DEF PostFails
<1> QED
  BY <1>3, <1>4, <1>5 DEF PostShard

LEMMA PostShardStep ==
    ASSUME IInv, NEW s \in Shard, PostShard(s)
    PROVE  IInv'
<1> USE DEF IInv
<1>1. /\ post[s] # None /\ post[s] \in Post
      /\ UNCHANGED <<request, phase, sps, proposals, paid, shardsToDo, todo>>
      /\ stored \subseteq stored'
      /\ stored' \in {stored, stored \cup {<<s, post[s].sp>>}}
  BY PostKinds
<1>2. /\ post \in [Shard -> Post \cup {None}]
      /\ post[s].sp \in SP
      /\ stored' \subseteq ({WholeFile} \cup Shard) \X SP
  BY <1>1 DEF TypeOK, Post
<1>3. PaidInv' /\ SuccessMeansStored'
  BY <1>1 DEF PaidInv, SuccessMeansStored, StoredByPaid, request
<1>4. \A t \in Shard : StoredByPaid(t) => StoredByPaid(t)'
  BY <1>1 DEF StoredByPaid
<1>5. ASSUME NEW ok \in BOOLEAN, Reply(s, ok), ok => <<s, post[s].sp>> \in stored'
      PROVE  IInv'
  <2> DEFINE answer == [shard |-> s, sp |-> post[s].sp, ok |-> ok]
  <2>1. answer \in Answer
    BY <1>2 DEF Answer
  <2>2. uchan \in Seq(Answer)
    BY DEF TypeOK
  <2>3. uchan' = Append(uchan, answer) /\ post' = [post EXCEPT ![s] = None]
    BY <1>5 DEF Reply
  <2>4. answer.shard = s /\ answer.sp = post[s].sp /\ answer.ok = ok
    OBVIOUS
  <2> HIDE DEF answer
  <2>5. /\ uchan' \in Seq(Answer)
        /\ Len(uchan') = Len(uchan) + 1
        /\ \A i \in 1 .. Len(uchan) : uchan'[i] = uchan[i]
        /\ uchan'[Len(uchan) + 1] = answer
    BY <2>1, <2>2, <2>3, AppendProperties
  <2>6. DOMAIN uchan' = 1 .. Len(uchan) + 1
    BY <2>5, LenProperties
  <2>7. \A i \in DOMAIN uchan' :
          \/ i \in DOMAIN uchan /\ uchan'[i] = uchan[i]
          \/ i = Len(uchan) + 1 /\ uchan'[i] = answer
    BY <2>5, <2>6, UchanFacts
  <2>8. \A t \in Shard : post'[t] = IF t = s THEN None ELSE post[t]
    BY <1>2, <2>3
  <2>9. AnswersCounted'
    <3>1. {t \in Shard : post'[t] # None} = Posting \ {s}
      BY <2>8 DEF Posting
    <3>2. s \in Posting /\ IsFiniteSet(Posting) /\ Cardinality(Posting) \in Nat
      BY <1>1, ShardFacts DEF Posting
    <3>3. Cardinality(Posting \ {s}) = Cardinality(Posting) - 1
      BY <3>2, FS_RemoveElement
    <3>4. todo = Len(uchan) + Cardinality(Posting)
      BY DEF AnswersCounted, Posting
    <3>5. todo' = Len(uchan') + Cardinality(Posting \ {s})
      BY <1>1, <2>5, <3>2, <3>3, <3>4, UchanFacts
    <3> QED
      BY <3>1, <3>5 DEF AnswersCounted
  <2>10. ShardsAccounted'
    <3>1. \A t \in Shard : post'[t] # None =>
            t \in ToSet(shardsToDo) /\ \A i \in DOMAIN uchan' : uchan'[i].shard # t
      BY <2>4, <2>7, <2>8 DEF ShardsAccounted
    <3>2. \A i \in DOMAIN uchan : uchan[i].shard # s
      BY <1>1 DEF ShardsAccounted
    <3>3. \A i, j \in DOMAIN uchan' : uchan'[i].shard = uchan'[j].shard => i = j
      BY <2>4, <2>7, <3>2 DEF ShardsAccounted
    <3> QED
      BY <1>1, <1>4, <3>1, <3>3 DEF ShardsAccounted
  <2>11. RoundInv'
    <3>1. s \in ToSet(shardsToDo) /\ post[s].sp \in paid
      BY <1>1 DEF ShardsAccounted, RoundInv
    <3>2. \A i \in DOMAIN uchan' :
            /\ uchan'[i].shard \in ToSet(shardsToDo)
            /\ uchan'[i].sp \in paid
            /\ uchan'[i].ok => <<uchan'[i].shard, uchan'[i].sp>> \in stored'
      BY <1>1, <1>5, <2>4, <2>7, <3>1 DEF RoundInv
    <3> QED
      BY <1>1, <2>8, <3>2 DEF RoundInv
  <2>12. TypeOK'
    <3>1. post' \in [Shard -> Post \cup {None}]
      BY <1>2, <2>3
    <3> QED
      BY <1>1, <1>2, <2>5, <3>1 DEF TypeOK, request
  <2> QED
    BY <1>3, <2>9, <2>10, <2>11, <2>12
<1>6. ASSUME NEW q \in Post, q.sp = post[s].sp, post' = [post EXCEPT ![s] = q], UNCHANGED uchan
      PROVE  IInv'
  <2>1. \A t \in Shard : post'[t] = IF t = s THEN q ELSE post[t]
    BY <1>2, <1>6
  <2>2. q # None
    BY NoneAssumption
  <2>3. \A t \in Shard : post'[t] # None <=> post[t] # None
    BY <1>1, <2>1, <2>2
  <2>4. AnswersCounted'
    <3>1. {t \in Shard : post'[t] # None} = {t \in Shard : post[t] # None}
      BY <2>3
    <3> QED
      BY <1>1, <1>6, <3>1 DEF AnswersCounted
  <2>5. ShardsAccounted'
    BY <1>1, <1>4, <1>6, <2>3 DEF ShardsAccounted
  <2>6. RoundInv'
    BY <1>1, <1>6, <2>1 DEF RoundInv
  <2>7. TypeOK'
    <3>1. post' \in [Shard -> Post \cup {None}]
      BY <1>2, <1>6
    <3> QED
      BY <1>1, <1>2, <1>6, <3>1 DEF TypeOK, request
  <2> QED
    BY <1>3, <2>4, <2>5, <2>6, <2>7
<1> QED
  BY <1>5, <1>6, PostKinds

-----------------------------------------------------------------------------
(* The theorems                                                            *)

LEMMA StepInv ==
    IInv /\ [Next]_vars => IInv'
<1> SUFFICES ASSUME IInv, [Next]_vars PROVE IInv'
  OBVIOUS
<1>1. CASE Main
  BY <1>1, PaySteps, ProposedNeoStep, PostWholeFileStep, StartRoundStep, EndLoopStep, CollectStep
     DEF Main
<1>2. CASE \E s \in Shard : PostShard(s)
  BY <1>2, PostShardStep
<1>3. CASE UNCHANGED vars
  BY <1>3 DEF vars, request, round, IInv, TypeOK, AnswersCounted, ShardsAccounted, RoundInv,
              PaidInv, SuccessMeansStored, StoredByPaid
<1> QED
  BY <1>1, <1>2, <1>3 DEF Next

LEMMA Invariance ==
    Spec => []IInv
BY InitInv, StepInv, PTL DEF Spec

(* Every variable of the upload keeps its type: the list of providers and  *)
(* the one of shards to do stay lists of providers and of shards whatever  *)
(* is erased from them.                                                    *)
THEOREM TypeCorrect ==
    Spec => []TypeOK
<1>1. IInv => TypeOK
  BY DEF IInv
<1> QED
  BY <1>1, Invariance, PTL

(* uploadNeededShards never waits for an answer that no goroutine will     *)
(* send, and leaves none behind for the next round.                        *)
THEOREM AnswersAlwaysCounted ==
    Spec => []AnswersCounted
<1>1. IInv => AnswersCounted
  BY DEF IInv
<1> QED
  BY <1>1, Invariance, PTL

(* No shard is dropped and none is posted twice at a time.                 *)
THEOREM ShardsAlwaysAccounted ==
    Spec => []ShardsAccounted
<1>1. IInv => ShardsAccounted
  BY DEF IInv
<1> QED
  BY <1>1, Invariance, PTL

(* Success means that the file, or every shard, is with a provider the     *)
(* uploader paid.                                                          *)
THEOREM SuccessAlwaysMeansStored ==
    Spec => []SuccessMeansStored
<1>1. IInv => SuccessMeansStored
  BY DEF IInv
<1> QED
  BY <1>1, Invariance, PTL
-----------------------------------------------------------------------------
(* An upload is finite                                                     *)

(* A goroutine has tried no URL or the preferred one.                      *)
TriedInv == \A s \in Posting : post[s].tried \in {{}, {Url(post[s].sp, PreferHttp)}}

Untried == {s \in Posting : post[s].tried = {}}

(* Steps a round may still take: answers to collect, and at most two       *)
(* attempts of each goroutine.                                             *)
RoundLeft == todo + Cardinality(Posting) + Cardinality(Untried)
RoundCost == 3 * MaxAtOnce + 1

(* As long as nothing was collected in a round, and at times later, all    *)
(* its providers are still in the list and no shard of it is done: the     *)
(* next answer shortens one of the two lists.                              *)
Fresh ==
    /\ todo = AtOnce
    /\ \A s \in Posting : post[s].sp \in ToSet(sps)
    /\ \A i \in DOMAIN uchan : uchan[i].sp \in ToSet(sps)

(* What n shards to do are worth: a round for each of them and for each    *)
(* provider that can still be dropped.                                     *)
Worth(n) == RoundCost * (n + Len(sps))

(* A bound on the steps the upload can still take.                         *)
Rank ==
    CASE phase \in Terminal -> 0
      [] phase = "post" -> 1
      [] phase = "wait" -> 2
      [] phase = "collect" -> Worth(Len(shardsToDo)) + RoundLeft
                                  + (IF Fresh THEN 0 ELSE RoundCost)
      [] phase = "loop" -> Worth(Len(shardsToDo)) + RoundCost
      [] phase = "propose" -> Worth(NumShards) + RoundCost + Len(proposals) + 3
      [] phase = "confirm" -> Worth(NumShards) + RoundCost + Len(sps) + 4

(* A list that is shorter by one is worth a round less.                    *)
LEMMA WorthFacts ==
    ASSUME NEW a \in Nat, NEW b \in Nat
    PROVE  /\ RoundCost \in Nat /\ RoundCost > 0
           /\ RoundCost * a \in Nat
           /\ a = b + 1 => RoundCost * a = RoundCost * b + RoundCost
<1>1. RoundCost \in Nat /\ RoundCost > 0
  BY NumberAssumption DEF RoundCost
<1> HIDE DEF RoundCost
<1>2. RoundCost * a \in Nat
  BY <1>1
<1>3. RoundCost * (b + 1) = RoundCost * b + RoundCost
  BY <1>1
<1> QED
  BY <1>1, <1>2, <1>3

(* The numbers a rank is made of.                                          *)
LEMMA RankParts ==
    ASSUME TypeOK
    PROVE  /\ Len(sps) \in Nat /\ Len(shardsToDo) \in Nat /\ Len(proposals) \in Nat
           /\ NumShards \in Nat /\ todo \in Nat
           /\ Cardinality(Posting) \in Nat /\ Cardinality(Untried) \in Nat
           /\ Cardinality(Untried) <= Cardinality(Posting)
           /\ RoundLeft \in Nat /\ RoundLeft >= todo
           /\ RoundCost \in Nat /\ RoundCost > 0
           /\ Worth(Len(shardsToDo)) \in Nat /\ Worth(NumShards) \in Nat
<1>1. Len(sps) \in Nat /\ Len(shardsToDo) \in Nat /\ Len(proposals) \in Nat
  BY LenProperties DEF TypeOK
<1>2. NumShards \in Nat /\ todo \in Nat
  BY NumberAssumption DEF TypeOK
<1>3. IsFiniteSet(Posting) /\ Posting \in SUBSET Shard /\ Untried \in SUBSET Posting
  BY ShardFacts DEF Posting, Untried
<1>4. /\ Cardinality(Posting) \in Nat /\ Cardinality(Untried) \in Nat
      /\ Cardinality(Untried) <= Cardinality(Posting)
  BY <1>3, FS_Subset, FS_CardinalityType
<1>5. RoundLeft \in Nat /\ RoundLeft >= todo
  BY <1>2, <1>4 DEF RoundLeft
<1>6. Len(shardsToDo) + Len(sps) \in Nat /\ NumShards + Len(sps) \in Nat
  BY <1>1, <1>2
<1>7. RoundCost \in Nat /\ RoundCost > 0
  BY <1>6, WorthFacts
<1>8. Worth(Len(shardsToDo)) \in Nat /\ Worth(NumShards) \in Nat
  BY <1>6, WorthFacts DEF Worth
<1> QED
  BY <1>1, <1>2, <1>4, <1>5, <1>7, <1>8

LEMMA RankType == TypeOK => Rank \in Nat
<1> SUFFICES ASSUME TypeOK PROVE Rank \in Nat
  OBVIOUS
<1>1. /\ Worth(Len(shardsToDo)) \in Nat /\ Worth(NumShards) \in Nat
      /\ RoundLeft \in Nat /\ RoundCost \in Nat /\ Len(proposals) \in Nat /\ Len(sps) \in Nat
  BY RankParts
<1>2. \/ phase = "confirm" \/ phase = "propose" \/ phase = "wait" \/ phase = "post"
      \/ phase = "loop" \/ phase = "collect" \/ phase \in Terminal
  BY DEF TypeOK
<1>3. CASE phase = "collect"
  BY <1>1, <1>3 DEF Rank, Terminal
<1>4. CASE phase = "loop"
  BY <1>1, <1>4 DEF Rank, Terminal
<1>5. CASE phase = "propose"
  BY <1>1, <1>5 DEF Rank, Terminal
<1>6. CASE phase = "confirm"
  BY <1>1, <1>6 DEF Rank, Terminal
<1>7. CASE phase \in {"wait", "post"} \cup Terminal
  BY <1>7 DEF Rank, Terminal
<1> QED
  BY <1>2, <1>3, <1>4, <1>5, <1>6, <1>7

(* Before the loop.                                                        *)
LEMMA PayShrinks ==
    ASSUME TypeOK, TypeOK',
           Refuse \/ Confirm \/ ProposeEth \/ AwaitEth \/ ProposeNeo \/ ProposedNeo \/ PostWholeFile
    PROVE  Rank' < Rank
<1>1. /\ Worth(NumShards) \in Nat /\ RoundCost \in Nat /\ Len(proposals) \in Nat /\ Len(sps) \in Nat
      /\ proposals \in Seq(SP) /\ sps \in Seq(SP) /\ RoundCost > 0
  BY RankParts DEF TypeOK
<1>2. CASE Refuse
  <2>1. phase = "confirm" /\ phase' = "error"
    BY <1>2 DEF Refuse, Goto
  <2> QED
    BY <1>1, <2>1 DEF Rank, Terminal
<1>3. CASE Confirm
  <2>1. phase = "confirm" /\ phase' = "propose" /\ sps' = sps /\ proposals' \in Chosen
    BY <1>3 DEF Confirm, Goto
  <2>2. Len(proposals') \in Nat /\ Len(proposals') <= Len(sps)
    <3>1. CASE proposals' = sps
      BY <1>1, <3>1
    <3>2. CASE \E i \in DOMAIN sps : proposals' = <<sps[i]>>
      <4>1. Len(proposals') = 1
        BY <3>2
      <4>2. 1 <= Len(sps)
        BY <1>1, <3>2, LenProperties
      <4> QED
        BY <1>1, <4>1, <4>2
    <3> QED
      BY <2>1, <3>1, <3>2 DEF Chosen
  <2>3. Worth(NumShards)' = Worth(NumShards)
    BY <2>1 DEF Worth
  <2> QED
    BY <1>1, <2>1, <2>2, <2>3 DEF Rank, Terminal
<1>4. CASE ProposeEth
  <2>1. phase = "propose" /\ phase' \in {"wait", "error"}
    BY <1>4 DEF ProposeEth, Goto
  <2> QED
    BY <1>1, <2>1 DEF Rank, Terminal
<1>5. CASE AwaitEth
  <2>1. phase = "wait" /\ phase' \in {"panic", "post", "error"}
    BY <1>5 DEF AwaitEth, Goto
  <2> QED
    BY <2>1 DEF Rank, Terminal
<1>6. CASE ProposeNeo
  <2>1. CASE phase = "propose" /\ phase' = "propose" /\ proposals' = Tail(proposals)
    <3>1. proposals # <<>> /\ sps' = sps
      BY <1>6 DEF ProposeNeo
    <3>2. Len(proposals') = Len(proposals) - 1
      BY <1>1, <2>1, <3>1, HeadTailProperties
    <3>3. Worth(NumShards)' = Worth(NumShards)
      BY <3>1 DEF Worth
    <3>4. Rank = Worth(NumShards) + RoundCost + Len(proposals) + 3
      BY <2>1 DEF Rank, Terminal
    <3>5. Rank' = Worth(NumShards)' + RoundCost + Len(proposals') + 3
      BY <2>1 DEF Rank, Terminal, RoundCost
    <3> QED
      BY <1>1, <3>2, <3>3, <3>4, <3>5
  <2>2. CASE phase = "propose" /\ phase' = "error"
    BY <1>1, <2>2 DEF Rank, Terminal
  <2> QED
    BY <1>6, <2>1, <2>2 DEF ProposeNeo, Goto
<1>7. CASE ProposedNeo
  <2>1. phase = "propose" /\ phase' \in {"loop", "error"} /\ sps' = sps
    BY <1>7 DEF ProposedNeo, Goto
  <2>2. CASE phase' = "error"
    BY <1>1, <2>1, <2>2 DEF Rank, Terminal
  <2>3. CASE phase' = "loop"
    <3>1. shardsToDo' = [i \in 1 .. NumShards |-> i]
      BY <1>7, <2>3 DEF ProposedNeo, Goto
    <3>2. Len(shardsToDo') = NumShards
      BY <3>1, NumberAssumption
    <3>3. Worth(Len(shardsToDo))' = Worth(NumShards)
      BY <2>1, <3>2 DEF Worth
    <3> QED
      BY <1>1, <2>1, <2>3, <3>3 DEF Rank, Terminal
  <2> QED
    BY <2>1, <2>2, <2>3
<1>8. CASE PostWholeFile
  <2>1. phase = "post" /\ phase' \in {"done", "error"}
    BY <1>8 DEF PostWholeFile, Goto
  <2> QED
    BY <2>1 DEF Rank, Terminal
<1> QED
  BY <1>2, <1>3, <1>4, <1>5, <1>6, <1>7, <1>8
LEMMA SubsetCounts ==
    ASSUME NEW A \in SUBSET Shard, NEW B \in SUBSET A
    PROVE  /\ IsFiniteSet(A) /\ Cardinality(A) \in Nat
           /\ Cardinality(B) \in Nat /\ Cardinality(B) <= Cardinality(A)
<1>1. IsFiniteSet(A)
  BY ShardFacts
<1> QED
  BY <1>1, FS_Subset, FS_CardinalityType

(* A round begins with goroutines that tried nothing, for providers of the *)
(* list.                                                                   *)
LEMMA StartedPosts ==
    ASSUME TypeOK, StartRound, NEW s \in Shard, post'[s] # None
    PROVE  post'[s].sp \in ToSet(sps) /\ post'[s].tried = {}
<1>1. sps # <<>> /\ shardsToDo # <<>>
  BY DEF StartRound
<1>2. AtOnce \in Nat
  BY <1>1, AtOnceFacts
<1>3. \E i \in 1 .. AtOnce : shardsToDo[i] = s
  BY DEF StartRound
<1> DEFINE i == CHOOSE j \in 1 .. AtOnce : shardsToDo[j] = s
<1>4. post'[s] = [sp |-> Dealt(i), tried |-> {}, intact |-> TRUE]
  BY <1>3 DEF StartRound
<1>5. i \in Nat /\ 1 <= i
  BY <1>2, <1>3
<1> HIDE DEF i
<1>6. Dealt(i) \in ToSet(sps)
  BY <1>1, <1>5, DealtFacts
<1> QED
  BY <1>4, <1>6

LEMMA StartRoundShrinks ==
    ASSUME IInv, IInv', StartRound
    PROVE  Rank' < Rank
<1>1. /\ phase = "loop" /\ phase' = "collect" /\ todo' = AtOnce
      /\ UNCHANGED <<shardsToDo, sps, uchan>>
  BY DEF StartRound, Goto
<1>2. uchan = <<>>
  <2>1. todo = 0
    BY <1>1 DEF IInv, RoundInv
  <2> QED
    BY <2>1, IdleFacts DEF IInv
<1>3. \A s \in Shard : post'[s] # None => post'[s].sp \in ToSet(sps)
  BY StartedPosts DEF IInv
<1>4. Fresh'
  <2>1. todo' = AtOnce'
    BY <1>1 DEF AtOnce
  <2>2. \A s \in Posting' : post'[s].sp \in ToSet(sps)
    BY <1>3 DEF Posting
  <2>3. \A i \in DOMAIN uchan' : FALSE
    BY <1>1, <1>2, EmptyFacts
  <2> QED
    BY <1>1, <2>1, <2>2, <2>3 DEF Fresh
<1>5. RoundLeft' \in Nat /\ RoundLeft' < RoundCost
  <2>1. Posting' \in SUBSET Shard /\ Untried' \in SUBSET Posting'
    BY DEF Posting, Untried
  <2>2. /\ Cardinality(Posting') \in Nat
        /\ Cardinality(Untried') \in Nat /\ Cardinality(Untried') <= Cardinality(Posting')
    BY <2>1, SubsetCounts
  <2>3. todo' = Cardinality(Posting')
    <3>1. todo' = Len(uchan') + Cardinality(Posting')
      BY DEF IInv, AnswersCounted, Posting
    <3> QED
      BY <1>1, <1>2, <2>2, <3>1, EmptyFacts
  <2>4. todo' \in 0 .. MaxAtOnce /\ MaxAtOnce \in Nat
    BY NumberAssumption DEF IInv, TypeOK
  <2>5. RoundLeft' = todo' + Cardinality(Posting') + Cardinality(Untried')
    BY DEF RoundLeft
  <2> QED
    BY <2>2, <2>3, <2>4, <2>5 DEF RoundCost
<1>6. Rank' = Worth(Len(shardsToDo)) + RoundLeft'
  <2>1. Rank' = Worth(Len(shardsToDo))' + RoundLeft' + (IF Fresh' THEN 0 ELSE RoundCost')
    BY <1>1 DEF Rank, Terminal
  <2>2. Worth(Len(shardsToDo))' = Worth(Len(shardsToDo))
    BY <1>1 DEF Worth
  <2>3. Worth(Len(shardsToDo)) \in Nat
    BY RankParts DEF IInv
  <2> QED
    BY <1>4, <1>5, <2>1, <2>2, <2>3
<1>7. Rank = Worth(Len(shardsToDo)) + RoundCost
  BY <1>1 DEF Rank, Terminal
<1>8. Worth(Len(shardsToDo)) \in Nat /\ RoundCost \in Nat
  BY RankParts DEF IInv
<1> QED
  BY <1>5, <1>6, <1>7, <1>8

LEMMA EndLoopShrinks ==
    ASSUME TypeOK, EndLoop
    PROVE  Rank' < Rank
<1>1. phase = "loop" /\ phase' \in {"done", "error"}
  BY DEF EndLoop, Goto
<1>2. Rank' = 0 /\ Rank = Worth(Len(shardsToDo)) + RoundCost
  BY <1>1 DEF Rank, Terminal
<1>3. Worth(Len(shardsToDo)) \in Nat /\ RoundCost \in Nat /\ RoundCost > 0
  BY RankParts
<1> QED
  BY <1>2, <1>3

(* An answer shortens a list or belongs to a round in which one was        *)
(* shortened before.                                                       *)
LEMMA CollectShrinks ==
    ASSUME IInv, IInv', Collect
    PROVE  Rank' < Rank
<1> DEFINE answer == uchan[1]
           n == Len(shardsToDo) + Len(sps)
           extra == IF Fresh THEN 0 ELSE RoundCost
<1>1. /\ phase = "collect" /\ uchan # <<>> /\ todo' = todo - 1 /\ post' = post
      /\ phase' = IF todo = 1 THEN "loop" ELSE "collect"
      /\ answer = Head(uchan) /\ 1 \in DOMAIN uchan
  <2>1. uchan # <<>> /\ uchan \in Seq(Answer)
    BY DEF Collect, IInv, TypeOK
  <2>2. Len(uchan) \in Nat \ {0} /\ DOMAIN uchan = 1 .. Len(uchan)
    BY <2>1, EmptySeq, LenProperties
  <2> QED
    BY <2>1, <2>2 DEF Collect
<1>2. \/ answer.ok /\ shardsToDo' = EraseInt(shardsToDo, answer.shard) /\ UNCHANGED sps
      \/ ~answer.ok /\ sps' = WithoutSP(sps, answer.sp) /\ UNCHANGED shardsToDo
  BY <1>1 DEF Collect
<1>3. answer.shard \in ToSet(shardsToDo) /\ (Fresh => answer.sp \in ToSet(sps))
  BY <1>1 DEF IInv, RoundInv, Fresh
<1> HIDE DEF answer
<1>4. /\ Len(shardsToDo) \in Nat /\ Len(sps) \in Nat /\ Len(shardsToDo') \in Nat /\ Len(sps') \in Nat
      /\ shardsToDo \in Seq(Shard) /\ IsInjective(shardsToDo) /\ sps \in Seq(SP)
  BY LenProperties DEF IInv, TypeOK, ShardsAccounted
<1>5. n' = n - 1 \/ (n' = n /\ ~Fresh)
  <2>1. CASE answer.ok
    <3>1. Len(shardsToDo') = Len(shardsToDo) - 1 /\ sps' = sps
      BY <1>2, <1>3, <1>4, <2>1, EraseIntFacts
    <3> QED
      BY <1>4, <3>1
  <2>2. CASE ~answer.ok
    <3>1. shardsToDo' = shardsToDo
          /\ Len(sps') = IF answer.sp \in ToSet(sps) THEN Len(sps) - 1 ELSE Len(sps)
      BY <1>2, <1>4, <2>2, WithoutSPFacts
    <3> QED
      BY <1>3, <1>4, <3>1
  <2> QED
    BY <2>1, <2>2
<1>6. n \in Nat /\ n' \in Nat
  BY <1>4
<1>7. /\ RoundCost \in Nat
      /\ RoundCost * n \in Nat /\ RoundCost * n' \in Nat
      /\ n' = n - 1 => RoundCost * n = RoundCost * n' + RoundCost
      /\ n' = n => RoundCost * n = RoundCost * n'
  <2>1. \A a, b \in Nat : a = b - 1 => b = a + 1
    OBVIOUS
  <2> HIDE DEF n
  <2> QED
    BY <1>6, <2>1, WorthFacts
<1>8. RoundLeft' = RoundLeft - 1 /\ RoundLeft \in Nat /\ RoundLeft >= todo /\ todo \in Nat /\ todo # 0
  <2>1. Posting' = Posting /\ Untried' = Untried
    BY <1>1 DEF Posting, Untried
  <2>2. /\ RoundLeft \in Nat /\ RoundLeft >= todo /\ todo \in Nat
        /\ Cardinality(Posting) \in Nat /\ Cardinality(Untried) \in Nat
    BY RankParts DEF IInv
  <2>3. todo # 0
    BY <1>1 DEF IInv, RoundInv
  <2> QED
    BY <1>1, <2>1, <2>2, <2>3 DEF RoundLeft
<1>9. Rank = RoundCost * n + RoundLeft + extra
  BY <1>1 DEF Rank, Terminal, Worth
<1>10. Rank' \in {RoundCost * n' + RoundCost, RoundCost * n' + RoundLeft',
                  RoundCost * n' + RoundLeft' + RoundCost}
  <2>1. CASE phase' = "loop"
    BY <2>1 DEF Rank, Terminal, Worth, RoundCost
  <2>2. CASE phase' = "collect"
    <3>1. Rank' = RoundCost * n' + RoundLeft' + (IF Fresh' THEN 0 ELSE RoundCost)
      BY <2>2 DEF Rank, Terminal, Worth, RoundCost
    <3>2. RoundCost * n' + RoundLeft' \in Int
      BY <1>7, <1>8
    <3> HIDE DEF n
    <3> QED
      BY <3>1, <3>2
  <2> QED
    BY <1>1, <2>1, <2>2
<1>11. extra \in {0, RoundCost} /\ (n' = n => extra = RoundCost)
  <2>1. n' = n => ~Fresh
    BY <1>5, <1>6
  <2> QED
    BY <2>1
<1> DEFINE a == RoundCost * n
           b == RoundCost * n'
<1>12. a \in Nat /\ b \in Nat /\ (a = b + RoundCost \/ (a = b /\ extra = RoundCost))
  BY <1>5, <1>7, <1>11
<1>13. Rank = a + RoundLeft + extra /\ Rank' \in {b + RoundCost, b + RoundLeft', b + RoundLeft' + RoundCost}
  BY <1>9, <1>10
<1> HIDE DEF a, b, extra, n
<1> QED
  BY <1>7, <1>8, <1>11, <1>12, <1>13
(* The second URL is the last one there is.                                *)
LEMMA PostTried ==
    ASSUME TypeOK, TriedInv, NEW s \in Shard, PostShard(s)
    PROVE  \/ \E ok \in BOOLEAN : Reply(s, ok)
           \/ /\ post[s].tried = {}
              /\ \E q \in Post : /\ q.sp = post[s].sp /\ q.tried = {Url(q.sp, PreferHttp)}
                                 /\ post' = [post EXCEPT ![s] = q]
              /\ UNCHANGED uchan
<1>1. post[s] # None /\ post[s] \in Post /\ s \in Posting
  BY DEF TypeOK, PostShard, PostOK, AnswerLost, PostFails, Posting
<1> DEFINE sp == post[s].sp
<1>2. sp \in SP /\ Schemes[sp] \in (SUBSET {"http", "https"}) \ {{}} /\ PreferHttp \in BOOLEAN
  BY <1>1, UrlAssumption DEF Post
<1>3. post[s].tried \in {{}, {Url(sp, PreferHttp)}}
  BY <1>1 DEF TriedInv
<1>4. ASSUME NEW intact \in BOOLEAN, Failed(s, intact)
      PROVE  \/ Reply(s, FALSE)
             \/ /\ post[s].tried = {}
                /\ \E q \in Post : /\ q.sp = sp /\ q.tried = {Url(q.sp, PreferHttp)}
                                   /\ post' = [post EXCEPT ![s] = q]
                /\ UNCHANGED uchan
  <2> DEFINE tried == post[s].tried \cup {NextUrl(post[s])}
             q == [sp |-> sp, tried |-> tried, intact |-> intact]
  <2>1. CASE Schemes[sp] \subseteq tried
    BY <1>4, <2>1 DEF Failed
  <2>2. CASE ~ (Schemes[sp] \subseteq tried)
    <3>1. post' = [post EXCEPT ![s] = q] /\ UNCHANGED uchan
      BY <1>4, <2>2 DEF Failed
    <3>2. post[s].tried = {}
      <4>1. SUFFICES ASSUME post[s].tried # {} PROVE FALSE
        OBVIOUS
      <4>2. post[s].tried = {Url(sp, PreferHttp)}
        BY <1>3, <4>1
      <4>3. NextUrl(post[s]) = Url(sp, ~PreferHttp)
        BY <4>1 DEF NextUrl
      <4>4. tried = {Url(sp, PreferHttp), Url(sp, ~PreferHttp)}
        BY <4>2, <4>3
      <4> HIDE DEF sp, tried
      <4>5. Schemes[sp] \subseteq {Url(sp, PreferHttp), Url(sp, ~PreferHttp)}
        <5>1. CASE PreferHttp = TRUE
          BY <1>2, <5>1 DEF Url
        <5>2. CASE PreferHttp = FALSE
          BY <1>2, <5>2 DEF Url
        <5> QED
          BY <1>2, <5>1, <5>2
      <4> QED
        BY <2>2, <4>4, <4>5
    <3>3. tried = {Url(sp, PreferHttp)} /\ Url(sp, PreferHttp) \in {"http", "https"}
      BY <3>2 DEF NextUrl, Url
    <3> HIDE DEF sp, tried
    <3>4. q \in Post /\ q.sp = sp /\ q.tried = tried
      BY <1>2, <3>3 DEF Post
    <3> HIDE DEF q
    <3> QED
      BY <3>1, <3>2, <3>3, <3>4
  <2> QED
    BY <2>1, <2>2
<1>5. CASE PostOK(s)
  BY <1>5 DEF PostOK
<1>6. CASE AnswerLost(s) \/ PostFails(s)
  <2>1. post[s].intact \in BOOLEAN
    BY <1>1 DEF Post
  <2>2. PICK intact \in BOOLEAN : Failed(s, intact)
    BY <1>6, <2>1 DEF AnswerLost, PostFails
  <2> QED
    BY <1>4, <2>2
<1> QED
  BY <1>5, <1>6 DEF PostShard

LEMMA TriedStep == TypeOK /\ TriedInv /\ [Next]_vars => TriedInv'
<1> SUFFICES ASSUME TypeOK, TriedInv, [Next]_vars PROVE TriedInv'
  OBVIOUS
<1>0. post \in [Shard -> Post \cup {None}]
  BY DEF TypeOK
<1>1. CASE UNCHANGED post
  BY <1>1 DEF TriedInv, Posting
<1>2. CASE StartRound
  <2>1. \A s \in Shard : post'[s] # None => post'[s].tried = {}
    BY <1>2, StartedPosts
  <2> QED
    BY <2>1 DEF TriedInv, Posting
<1>3. ASSUME NEW s \in Shard, PostShard(s) PROVE TriedInv'
  <2>1. CASE \E ok \in BOOLEAN : Reply(s, ok)
    <3>1. \A t \in Shard : post'[t] = IF t = s THEN None ELSE post[t]
      BY <1>0, <2>1 DEF Reply
    <3> QED
      BY <3>1 DEF TriedInv, Posting
  <2>2. CASE \E q \in Post : q.tried = {Url(q.sp, PreferHttp)} /\ post' = [post EXCEPT ![s] = q]
    <3>1. PICK q \in Post : q.tried = {Url(q.sp, PreferHttp)} /\ post' = [post EXCEPT ![s] = q]
      BY <2>2
    <3>2. \A t \in Shard : post'[t] = IF t = s THEN q ELSE post[t]
      BY <1>0, <3>1
    <3> QED
      BY <3>1, <3>2 DEF TriedInv, Posting
  <2> QED
    BY <1>3, <2>1, <2>2, PostTried
<1> QED
  BY <1>1, <1>2, <1>3 DEF Next, Main, Refuse, Confirm, ProposeEth, AwaitEth, ProposeNeo, ProposedNeo,
                          PostWholeFile, EndLoop, Collect, round, vars

LEMMA PostShrinks ==
    ASSUME IInv, IInv', TriedInv, NEW s \in Shard, PostShard(s)
    PROVE  Rank' < Rank
<1>1. /\ post[s] # None /\ s \in Posting
      /\ UNCHANGED <<phase, sps, shardsToDo, todo>>
      /\ post \in [Shard -> Post \cup {None}]
  BY PostKinds DEF IInv, Posting, TypeOK
<1>2. phase = "collect"
  <2>1. todo # 0
    BY <1>1, IdleFacts DEF IInv
  <2> QED
    BY <2>1 DEF IInv, RoundInv
<1>3. Posting \in SUBSET Shard /\ Untried \in SUBSET Posting
  BY DEF Posting, Untried
<1>4. /\ IsFiniteSet(Posting) /\ IsFiniteSet(Untried)
      /\ Cardinality(Posting) \in Nat /\ Cardinality(Untried) \in Nat
  BY <1>3, SubsetCounts, FS_Subset
<1>5. /\ Cardinality(Posting') \in Nat /\ Cardinality(Untried') \in Nat
      /\ Cardinality(Posting') + Cardinality(Untried') < Cardinality(Posting) + Cardinality(Untried)
      /\ \A t \in Posting' : t \in Posting /\ post'[t].sp = post[t].sp
      /\ \A i \in DOMAIN uchan' : \/ i \in DOMAIN uchan /\ uchan'[i] = uchan[i]
                                  \/ uchan'[i].sp = post[s].sp
  <2>1. CASE \E ok \in BOOLEAN : Reply(s, ok)
    <3>1. PICK ok \in BOOLEAN : Reply(s, ok)
      BY <2>1
    <3>2. \A t \in Shard : post'[t] = IF t = s THEN None ELSE post[t]
      BY <1>1, <3>1 DEF Reply
    <3>3. Posting' = Posting \ {s} /\ Untried' = Untried \ {s}
      BY <3>2 DEF Posting, Untried
    <3>4. /\ Cardinality(Posting \ {s}) = Cardinality(Posting) - 1
          /\ Cardinality(Untried \ {s}) \in Nat /\ Cardinality(Untried \ {s}) <= Cardinality(Untried)
      BY <1>1, <1>4, FS_RemoveElement, FS_Subset, FS_CardinalityType
    <3>5. Cardinality(Posting \ {s}) \in Nat
      BY <1>4, FS_RemoveElement, FS_CardinalityType
    <3>6. \A i \in DOMAIN uchan' : \/ i \in DOMAIN uchan /\ uchan'[i] = uchan[i]
                                   \/ uchan'[i].sp = post[s].sp
      <4> DEFINE answer == [shard |-> s, sp |-> post[s].sp, ok |-> ok]
      <4>1. answer \in Answer /\ answer.sp = post[s].sp /\ uchan' = Append(uchan, answer)
        BY <1>1, <3>1 DEF Answer, Reply, Post
      <4> HIDE DEF answer
      <4>2. uchan \in Seq(Answer)
        BY DEF IInv, TypeOK
      <4>3. /\ uchan' \in Seq(Answer) /\ Len(uchan') = Len(uchan) + 1
            /\ \A i \in 1 .. Len(uchan) : uchan'[i] = uchan[i]
            /\ uchan'[Len(uchan) + 1] = answer
        BY <4>1, <4>2, AppendProperties
      <4>4. DOMAIN uchan' = 1 .. Len(uchan) + 1 /\ DOMAIN uchan = 1 .. Len(uchan) /\ Len(uchan) \in Nat
        BY <4>2, <4>3, LenProperties
      <4> QED
        BY <4>1, <4>3, <4>4
    <3>7. \A t \in Posting' : t \in Posting /\ post'[t].sp = post[t].sp
      BY <3>2 DEF Posting
    <3>8. /\ Cardinality(Posting') = Cardinality(Posting) - 1
          /\ Cardinality(Untried') \in Nat /\ Cardinality(Untried') <= Cardinality(Untried)
          /\ Cardinality(Posting') \in Nat
      BY <3>3, <3>4, <3>5
    <3>9. Cardinality(Posting') + Cardinality(Untried') < Cardinality(Posting) + Cardinality(Untried)
      BY <1>4, <3>8
    <3> QED
      BY <3>6, <3>7, <3>8, <3>9
  <2>2. CASE /\ post[s].tried = {}
             /\ \E q \in Post : /\ q.sp = post[s].sp /\ q.tried = {Url(q.sp, PreferHttp)}
                                /\ post' = [post EXCEPT ![s] = q]
             /\ UNCHANGED uchan
    <3>1. PICK q \in Post : /\ q.sp = post[s].sp /\ q.tried = {Url(q.sp, PreferHttp)}
                            /\ post' = [post EXCEPT ![s] = q]
      BY <2>2
    <3>2. \A t \in Shard : post'[t] = IF t = s THEN q ELSE post[t]
      BY <1>1, <3>1
    <3>3. q # None /\ q.tried # {}
      BY <3>1, NoneAssumption
    <3>4. Posting' = Posting /\ Untried' = Untried \ {s} /\ s \in Untried
      BY <1>1, <2>2, <3>2, <3>3 DEF Posting, Untried
    <3>5. Cardinality(Untried \ {s}) = Cardinality(Untried) - 1 /\ Cardinality(Untried \ {s}) \in Nat
      BY <1>4, <3>4, FS_RemoveElement, FS_CardinalityType
    <3> QED
      BY <1>4, <2>2, <3>1, <3>2, <3>4, <3>5
  <2> QED
    BY <2>1, <2>2, PostTried DEF IInv
<1>6. RoundLeft' \in Nat /\ RoundLeft \in Nat /\ RoundLeft' < RoundLeft
  <2>1. todo \in Nat
    BY DEF IInv, TypeOK
  <2> QED
    BY <1>1, <1>4, <1>5, <2>1 DEF RoundLeft
<1>7. Fresh => Fresh'
  <2>1. AtOnce' = AtOnce
    BY <1>1 DEF AtOnce
  <2> QED
    BY <1>1, <1>5, <2>1 DEF Fresh
<1> DEFINE w == Worth(Len(shardsToDo))
<1>8. w' = w /\ w \in Nat /\ RoundCost \in Nat
  BY <1>1, RankParts DEF Worth, IInv
<1>9. /\ Rank = w + RoundLeft + (IF Fresh THEN 0 ELSE RoundCost)
      /\ Rank' = w' + RoundLeft' + (IF Fresh' THEN 0 ELSE RoundCost)
  BY <1>1, <1>2 DEF Rank, Terminal, RoundCost
<1>10. CASE Fresh
  BY <1>6, <1>7, <1>8, <1>9, <1>10
<1>11. CASE ~Fresh
  <2>1. Rank = w + RoundLeft + RoundCost
    BY <1>9, <1>11
  <2>2. Rank' = w + RoundLeft' \/ Rank' = w + RoundLeft' + RoundCost
    BY <1>6, <1>8, <1>9
  <2> HIDE DEF w
  <2> QED
    BY <1>6, <1>8, <2>1, <2>2
<1> QED
  BY <1>10, <1>11

(* Every step of an upload uses up one of the steps it may take, and it    *)
(* may take at most Rank: whatever the providers answer and however often  *)
(* goroutines retry, it cannot go on for ever.  What UploadEnds adds is    *)
(* that it goes on until it has ended.                                     *)
THEOREM UploadShrinks ==
    Spec => [](Rank \in Nat) /\ [][Rank' < Rank]_vars
<1>1. Init => TriedInv
  BY DEF Init, TriedInv, Posting
<1>2. IInv /\ IInv' /\ TriedInv /\ [Next]_vars => [Rank' < Rank]_vars
  <2> SUFFICES ASSUME IInv, IInv', TriedInv, Next PROVE Rank' < Rank
    OBVIOUS
  <2> QED
    BY PayShrinks, StartRoundShrinks, EndLoopShrinks, CollectShrinks, PostShrinks
       DEF Next, Main, IInv
<1>3. IInv => TypeOK
  BY DEF IInv
<1>4. IInv => Rank \in Nat
  BY <1>3, RankType
<1> QED
  BY <1>1, <1>2, <1>3, <1>4, Invariance, TriedStep, PTL DEF Spec
(* The guards of the steps: what the goroutine that is at work waits for   *)
(* is there.                                                               *)
Ready ==
    \/ phase \in {"confirm", "propose", "wait", "loop"}
    \/ phase = "post" /\ paid # {}
    \/ phase = "collect" /\ (uchan # <<>> \/ Posting # {})

(* GetUploadSps found a provider, so someone is paid.                      *)
PayeeInv ==
    /\ phase = "confirm" => sps # <<>>
    /\ phase = "propose" /\ account = "eth" => proposals # <<>>
    /\ phase \in {"wait", "post"} => account = "eth" /\ paid # {}

LEMMA PayeeInit == Init => PayeeInv
<1> SUFFICES ASSUME Init PROVE sps # <<>> /\ phase = "confirm"
  BY DEF PayeeInv
<1>1. PICK n \in 1 .. Cardinality(SP) : sps \in [1 .. n -> SP]
  BY DEF Init, Lists
<1>2. Cardinality(SP) \in Nat
  BY SPAssumption, FS_CardinalityType
<1>3. 1 \in DOMAIN sps
  BY <1>1, <1>2
<1> QED
  BY <1>3, EmptyFacts DEF Init

LEMMA PayeeStep == TypeOK /\ PayeeInv /\ [Next]_vars => PayeeInv'
<1> SUFFICES ASSUME TypeOK, PayeeInv, [Next]_vars PROVE PayeeInv'
  OBVIOUS
<1>1. account' = account
  BY DEF Next, Main, Refuse, Confirm, ProposeEth, AwaitEth, ProposeNeo, ProposedNeo, PostWholeFile,
         StartRound, EndLoop, Collect, PostShard, PostOK, AnswerLost, PostFails, vars, request
<1>2. CASE Confirm
  <2>1. phase = "confirm" /\ phase' = "propose" /\ proposals' \in Chosen
    BY <1>2 DEF Confirm, Goto
  <2>2. proposals' # <<>>
    <3>1. \A x : <<x>> # <<>>
      OBVIOUS
    <3> QED
      BY <2>1, <3>1 DEF Chosen, PayeeInv
  <2> QED
    BY <2>1, <2>2 DEF PayeeInv
<1>3. CASE ProposeEth
  <2>1. CASE phase' = "error"
    BY <2>1 DEF PayeeInv
  <2>2. CASE phase' = "wait" /\ paid' = paid \cup ToSet(proposals)
    <3>1. proposals # <<>> /\ account = "eth" /\ proposals \in Seq(SP)
      BY <1>3 DEF ProposeEth, PayeeInv, TypeOK, Goto
    <3>2. 1 \in DOMAIN proposals
      BY <3>1, EmptySeq, LenProperties
    <3>3. ToSet(proposals) # {}
      BY <3>2 DEF ToSet
    <3> QED
      BY <1>1, <2>2, <3>1, <3>3 DEF PayeeInv
  <2> QED
    BY <1>3, <2>1, <2>2 DEF ProposeEth, Goto
<1>4. CASE ProposeNeo
  BY <1>1, <1>4 DEF ProposeNeo, PayeeInv, Goto
<1>5. CASE AwaitEth
  BY <1>1, <1>5 DEF AwaitEth, PayeeInv, Goto
<1>6. CASE Refuse \/ ProposedNeo \/ PostWholeFile \/ StartRound \/ EndLoop
  <2>1. phase' \in {"error", "done", "loop", "collect"}
    BY <1>6 DEF Refuse, ProposedNeo, PostWholeFile, StartRound, EndLoop, Goto
  <2> QED
    BY <2>1 DEF PayeeInv
<1>7. CASE Collect
  <2>1. phase' \in {"loop", "collect"}
    BY <1>7 DEF Collect
  <2> QED
    BY <2>1 DEF PayeeInv
<1>8. ASSUME NEW s \in Shard, PostShard(s) PROVE PayeeInv'
  BY <1>1, <1>8 DEF PostShard, PostOK, AnswerLost, PostFails, PayeeInv
<1>9. CASE UNCHANGED vars
  BY <1>9 DEF vars, request, PayeeInv
<1> QED
  BY <1>2, <1>3, <1>4, <1>5, <1>6, <1>7, <1>8, <1>9 DEF Next, Main

(* An upload is never stuck before its end: the main goroutine does not    *)
(* wait for answers while none is on the channel and no goroutine is left  *)
(* to send one, and a file is posted to a provider that is paid.           *)
THEOREM UploadNeverStuck ==
    Spec => [](phase \notin Terminal => Ready)
<1>1. IInv /\ PayeeInv => (phase \notin Terminal => Ready)
  <2> SUFFICES ASSUME IInv, PayeeInv, phase \notin Terminal PROVE Ready
    OBVIOUS
  <2>1. \/ phase \in {"confirm", "propose", "wait", "loop"} \/ phase = "post" \/ phase = "collect"
    BY DEF IInv, TypeOK
  <2>2. CASE phase = "collect"
    <3>1. todo # 0 /\ todo = Len(uchan) + Cardinality(Posting)
      BY <2>2 DEF IInv, RoundInv, AnswersCounted, Posting
    <3>2. CASE uchan = <<>> /\ Posting = {}
      BY <3>1, <3>2, EmptyFacts, FS_EmptySet
    <3> QED
      BY <2>2, <3>2 DEF Ready
  <2> QED
    BY <2>1, <2>2 DEF Ready, PayeeInv
<1>2. IInv => TypeOK
  BY DEF IInv
<1> QED
  BY <1>1, <1>2, Invariance, PayeeInit, PayeeStep, PTL DEF Spec
====
