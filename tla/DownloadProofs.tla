-------------------------- MODULE DownloadProofs --------------------------
(* Theorems about Download and the lengths of ShardFormat, for every value *)
(* of the constants.                                                       *)
EXTENDS Download, TLAPS, FiniteSetTheorems, SequenceTheorems,
        WellFoundedInduction

-----------------------------------------------------------------------------
(* Lengths                                                                 *)

LEMMA ShareSizeFacts ==
    ASSUME NEW n \in Nat, NEW k \in Nat \ {0}
    PROVE  /\ ShareSize(n, k) \in Nat
           /\ k * ShareSize(n, k) >= n
<1> DEFINE m == n + k - 1
           d == m \div k
<1>1. m \in Nat /\ d \in Int
  OBVIOUS
<1>2. m = k * d + (m % k) /\ m % k \in 0 .. (k - 1)
  OBVIOUS
<1> QED
  BY <1>1, <1>2 DEF ShareSize

(* What GetOriginalDataFromContainer cuts out of a container by its length *)
(* alone is as long as the file that CreateContainerBytes put in, although *)
(* the one counts parity by 26 and the other by 25.                        *)
THEOREM PayloadRecovered ==
    ASSUME NEW fct \in {"ao", "bo"}, NEW size \in Nat
    PROVE  OriginalLen(fct, ContainerLen(fct, size)) = size
BY DEF OriginalLen, ContainerLen, PayLoadEnd, ShareSize, HdrLen, TaiLen, CRC32Len,
       RedundancyLen, ArchonSignatureLen

(* Bytes read for a shard are the bytes that were written for it.          *)
THEOREM ShardReadAsWritten ==
    ASSUME NEW code \in Code, NEW len \in Nat, NEW needed \in Nat \ {0}
    PROVE  GetShardDataLen(code, len, needed)
             = WrittenLen(code, ShardPayloadLen(code, len, needed))
BY DEF GetShardDataLen, WrittenLen, CRC32Len

(* The shares that are decoded hold the whole container.                   *)
THEOREM ShareCover ==
    ASSUME NEW code \in Code, NEW len \in Nat, NEW needed \in Nat \ {0}
    PROVE  DecodedLen(code, len, needed) >= len
<1>1. CASE code = "mxor"
  <2>1. ShareSize(len, 6) \in Nat /\ 6 * ShareSize(len, 6) >= len
    BY ShareSizeFacts
  <2>2. RoundUp(len, 6) \div 2 = 3 * ShareSize(len, 6)
    BY <2>1 DEF RoundUp
  <2> QED
    BY <1>1, <2>1, <2>2 DEF DecodedLen, ShardPayloadLen
<1>2. CASE code # "mxor"
  BY <1>2, ShareSizeFacts DEF DecodedLen, ShardPayloadLen
<1> QED
  BY <1>1, <1>2

LEMMA LeastElement ==
    ASSUME NEW S \in SUBSET Nat, S # {}
    PROVE  /\ Min(S) \in S
           /\ \A y \in S : Min(S) <= y
<1> DEFINE R == {ss \in Nat \X Nat : ss[1] < ss[2]}
<1>0. R = OpToRel(<, Nat)
  BY Zenon DEF OpToRel
<1>1. IsWellFoundedOn(R, Nat)
  BY <1>0, NatLessThanWellFounded, Zenon
<1>2. \E x \in S : \A y \in S : ~ (<<y, x>> \in R)
  BY <1>1, WFMin
<1>3. PICK x \in S : \A y \in S : ~ (<<y, x>> \in R)
  BY <1>2
<1>4. ASSUME NEW y \in S
      PROVE  x <= y
  <2>1. ~ (y < x)
    BY <1>3 DEF R
  <2> QED
    BY <2>1
<1> QED
  BY <1>4 DEF Min
-----------------------------------------------------------------------------
(* Types                                                                   *)

PlaceType == {"idle", "lookup", "whole", "copy", "shards", "create", "decode",
              "write", "done", "failed", "killed"}

Maps(S) == UNION {[D -> S] : D \in SUBSET Nat}

AttemptType ==
    [pc: PlaceType, url: Url \cup {Nothing}, overwrite: BOOLEAN, urlMap: Maps(Provider),
     waiting: SUBSET Nat, bodies: Maps(Body \cup {Nothing}), first: Nat \cup {Nothing}]

(* Which shards an attempt has asked for, and what it has of them.         *)
ShardsInv ==
    /\ IsFiniteSet(DOMAIN attempt.urlMap)
    /\ attempt.waiting \cup DOMAIN attempt.bodies = DOMAIN attempt.urlMap
    /\ attempt.waiting \cap DOMAIN attempt.bodies = {}
    /\ ~ Resting => attempt.url \in Url /\ Parses(attempt.url)
    /\ At("lookup") => DOMAIN attempt.urlMap = {}
    /\ At("shards") \/ At("create") \/ At("decode") \/ At("write") =>
        /\ ~ IsWholeFile(attempt.url)
        /\ DOMAIN attempt.urlMap \subseteq Indices(attempt.url)
    /\ At("create") \/ At("decode") \/ At("write") =>
        /\ attempt.first \in shardMap
        /\ Enough
        /\ \A ix \in shardMap : attempt.bodies[ix] # Garbage
    /\ At("write") => Accepts(Decoded)

TypeInv ==
    /\ uploads \subseteq Upload
    /\ dht = {<<DhtId(x.url, x.ix), x.sp>> : x \in uploads}
    /\ file \in Content \cup {Nothing, Partial}
    /\ attempts \in 0..MaxAttempts
    /\ attempt \in AttemptType
    /\ ShardsInv

(* What an attempt that has not been told to overwrite has made of the     *)
(* file so far.                                                            *)
FileInv ==
    /\ At("whole") => IsWholeFile(attempt.url)
    /\ At("copy") \/ At("decode") \/ At("write") => file = Partial
    /\ (At("lookup") \/ At("whole") \/ At("shards") \/ At("create")) /\ ~ attempt.overwrite
        => file = Nothing

LEMMA MapsFacts ==
    ASSUME NEW S
    PROVE  /\ <<>> \in Maps(S)
           /\ \A D \in SUBSET Nat : \A m \in [D -> S] : m \in Maps(S) /\ DOMAIN m = D
           /\ \A m \in Maps(S) : DOMAIN m \subseteq Nat /\ \A x \in DOMAIN m : m[x] \in S
<1>1. <<>> \in [{} -> S]
  OBVIOUS
<1> QED
  BY <1>1 DEF Maps

LEMMA IdleFacts ==
    ASSUME NEW how \in PlaceType
    PROVE  /\ [Idle EXCEPT !.pc = how] \in AttemptType
           /\ DOMAIN Idle.urlMap = {}
           /\ DOMAIN Idle.bodies = {}
           /\ Idle.waiting = {}
BY MapsFacts DEF Idle, AttemptType

(* An attempt that has ended satisfies everything said of attempts.        *)
LEMMA EndsFacts ==
    ASSUME NEW how \in {"done", "failed", "killed"}, Ends(how)
    PROVE  attempt' \in AttemptType /\ ShardsInv' /\ FileInv'
<1>1. /\ attempt' \in AttemptType
      /\ attempt'.pc = how
      /\ DOMAIN attempt'.urlMap = {}
      /\ DOMAIN attempt'.bodies = {}
      /\ attempt'.waiting = {}
  BY IdleFacts DEF Ends, PlaceType, Idle
<1> QED
  BY <1>1, FS_EmptySet DEF ShardsInv, FileInv, At, Resting

(* Going on to the next place with the same shards.                        *)
LEMMA GoesFacts ==
    ASSUME NEW l \in PlaceType, attempt \in AttemptType, Goes(l)
    PROVE  /\ attempt' \in AttemptType
           /\ attempt'.pc = l
           /\ attempt'.url = attempt.url
           /\ attempt'.overwrite = attempt.overwrite
           /\ attempt'.urlMap = attempt.urlMap
           /\ attempt'.waiting = attempt.waiting
           /\ attempt'.bodies = attempt.bodies
           /\ attempt'.first = attempt.first
BY DEF Goes, AttemptType

LEMMA IndicesFacts ==
    ASSUME NEW a \in Url
    PROVE  /\ Indices(a) \in SUBSET Nat
           /\ IsFiniteSet(Indices(a))
<1>1. a.total \in Nat
  BY DownloadAssumption DEF AnyUrl
<1>2. IsFiniteSet(0 .. (a.total - 1))
  BY <1>1, FS_Interval
<1>3. IsFiniteSet({0})
  BY FS_Singleton
<1> QED
  BY <1>1, <1>2, <1>3 DEF Indices

-----------------------------------------------------------------------------
(* Decoding                                                                *)

(* At the time of decoding there is a first shard by index, and all shards *)
(* have a header.                                                          *)
LEMMA ShardFacts ==
    ASSUME TypeInv, At("create") \/ At("decode") \/ At("write")
    PROVE  /\ shardMap \in SUBSET Nat
           /\ IsFiniteSet(shardMap)
           /\ Min(shardMap) \in shardMap
           /\ attempt.first \in shardMap
           /\ \A ix \in shardMap : attempt.bodies[ix] \in Shard
<1>1. /\ attempt.bodies \in Maps(Body \cup {Nothing})
      /\ DOMAIN attempt.bodies \subseteq DOMAIN attempt.urlMap
      /\ IsFiniteSet(DOMAIN attempt.urlMap)
      /\ attempt.first \in shardMap
      /\ \A ix \in shardMap : attempt.bodies[ix] # Garbage
  BY DEF TypeInv, ShardsInv, AttemptType
<1>2. shardMap \in SUBSET Nat
  BY <1>1, MapsFacts DEF shardMap
<1>3. IsFiniteSet(shardMap)
  BY <1>1, FS_Subset DEF shardMap
<1>4. \A ix \in shardMap : attempt.bodies[ix] \in Shard
  BY <1>1, MapsFacts, DownloadAssumption DEF shardMap
<1> QED
  BY <1>1, <1>2, <1>3, <1>4, LeastElement

LEMMA EncFacts ==
    ASSUME NEW v \in Version
    PROVE  /\ Enc[v].code \in Code
           /\ Enc[v].needed \in Nat \ {0}
           /\ Enc[v].total \in Nat
           /\ Enc[v].size \in Nat
           /\ Enc[v].fct \in {"ao", "bo", "none"}
           /\ LenOf(v) \in Nat
<1>1. Enc[v] \in Encoding
  BY DownloadAssumption
<1>2. /\ Enc[v].code \in Code
      /\ Enc[v].needed \in Nat \ {0}
      /\ Enc[v].total \in Nat
      /\ Enc[v].size \in Nat
      /\ Enc[v].fct \in {"ao", "bo", "none"}
  BY <1>1 DEF Encoding
<1>3. ShareSize(Enc[v].size, 25) \in Nat
  BY <1>2, ShareSizeFacts
<1> QED
  BY <1>2, <1>3 DEF LenOf, ContainerLen, HdrLen, TaiLen, CRC32Len, RedundancyLen,
                    ArchonSignatureLen

(* What is accepted is a whole container, the one of the header.           *)
LEMMA OriginalFacts ==
    ASSUME NEW v \in Version, Accepts(v)
    PROVE  /\ Original(v) = [bytes |-> Enc[v].bytes, intact |-> TRUE, len |-> Enc[v].size]
           /\ Original(v) \in Content
           /\ Enc[Sample].hash = Enc[v].bytes
<1>1. /\ Enc[v].fct # "none"
      /\ Enc[Sample].hash = Enc[v].bytes
      /\ LenOf(Sample) = LenOf(v)
  BY DEF Accepts, SameHash
<1>2. Enc[v].fct \in {"ao", "bo"} /\ Enc[v].size \in Nat
  BY <1>1, EncFacts
<1>3. OriginalLen(Enc[v].fct, LenOf(v)) = Enc[v].size
  BY <1>2, PayloadRecovered DEF LenOf
<1> QED
  BY <1>1, <1>2, <1>3 DEF Original, Content

LEMMA DecodedFacts ==
    ASSUME Accepts(Decoded)
    PROVE  Decoded \in Version /\ DecodesTo(Used, Decoded)
<1>1. Decoded # Garbage
  BY DEF Accepts
<1> QED
  BY <1>1 DEF Decoded

-----------------------------------------------------------------------------
(* The invariant                                                           *)

(* What is decoded depends on the shards alone.                            *)
LEMMA SameShards ==
    ASSUME attempt'.bodies = attempt.bodies, attempt'.first = attempt.first
    PROVE  Accepts(Decoded)' <=> Accepts(Decoded)
<1>1. shardMap' = shardMap
  BY DEF shardMap
<1>2. \A ix : Of(ix)' = Of(ix)
  BY DEF Of
<1>3. Used' = Used
  BY <1>1, <1>2 DEF Used, Of
<1>4. \A S, v : Intact(S, v)' = Intact(S, v)
  BY DEF Intact
<1>5. \A v : DecodesTo(Used, v)' = DecodesTo(Used, v)
  BY <1>2, <1>3, <1>4 DEF DecodesTo, Of, Intact
<1>6. Decoded' = Decoded
  BY <1>5 DEF Decoded
<1>7. Sample' = Sample
  BY <1>1 DEF Sample
<1> QED
  BY <1>6, <1>7 DEF Accepts, SameHash

LEMMA TypeInit ==
    Init => TypeInv /\ FileInv
<1> SUFFICES ASSUME Init PROVE TypeInv /\ FileInv
  OBVIOUS
<1>1. /\ attempt \in AttemptType
      /\ attempt.pc = "idle"
      /\ DOMAIN attempt.urlMap = {}
      /\ DOMAIN attempt.bodies = {}
      /\ attempt.waiting = {}
  BY MapsFacts DEF Init, Idle, AttemptType, PlaceType
<1>2. attempts \in 0..MaxAttempts
  BY DownloadAssumption DEF Init
<1> QED
  BY <1>1, <1>2, FS_EmptySet DEF Init, TypeInv, FileInv, ShardsInv, At, Resting

LEMMA TypeStep ==
    TypeInv /\ FileInv /\ [Next]_vars => TypeInv' /\ FileInv'
<1> SUFFICES ASSUME TypeInv, FileInv, [Next]_vars PROVE TypeInv' /\ FileInv'
  OBVIOUS
<1> USE DEF TypeInv
<1>1. ASSUME NEW x \in Upload, Announce(x) PROVE TypeInv' /\ FileInv'
  <2>1. dht' = {<<DhtId(y.url, y.ix), y.sp>> : y \in uploads'}
    BY <1>1 DEF Announce
  <2>2. UNCHANGED <<file, attempt, attempts>> /\ uploads' \subseteq Upload
    BY <1>1 DEF Announce
  <2>3. At("write") => Accepts(Decoded)'
    BY <2>2, SameShards DEF ShardsInv
  <2>4. ShardsInv' /\ FileInv'
    BY <2>2, <2>3 DEF ShardsInv, FileInv, At, Resting, shardMap, Enough
  <2> QED
    BY <2>1, <2>2, <2>4
<1>2. ASSUME NEW a \in Url, NEW overwrite \in BOOLEAN, Begin(a, overwrite)
      PROVE  TypeInv' /\ FileInv'
  <2>1. attempts' \in 0..MaxAttempts /\ UNCHANGED <<uploads, dht, file>>
    BY <1>2, DownloadAssumption DEF Begin
  <2>2. CASE AlreadyExists(overwrite) \/ ~ Parses(a)
    BY <1>2, <2>1, <2>2, EndsFacts DEF Begin
  <2>3. CASE ~ (AlreadyExists(overwrite) \/ ~ Parses(a))
    <3>1. attempt' = [Idle EXCEPT !.pc = "lookup", !.url = a, !.overwrite = overwrite]
      BY <1>2, <2>3 DEF Begin
    <3>2. /\ attempt' \in AttemptType
          /\ attempt'.pc = "lookup" /\ attempt'.url = a /\ attempt'.overwrite = overwrite
          /\ DOMAIN attempt'.urlMap = {}
          /\ DOMAIN attempt'.bodies = {}
          /\ attempt'.waiting = {}
      BY <3>1, MapsFacts DEF Idle, AttemptType, PlaceType
    <3>3. Parses(a) /\ (~ overwrite => file' = Nothing)
      BY <2>1, <2>3 DEF AlreadyExists
    <3> QED
      BY <2>1, <3>2, <3>3, FS_EmptySet DEF ShardsInv, FileInv, At, Resting
  <2> QED
    BY <2>2, <2>3
<1>3. ASSUME GetDownloadUrls PROVE TypeInv' /\ FileInv'
  <2> DEFINE a == attempt.url
             found == {ix \in Indices(a) : Holders(a, ix) # {}}
             there == IF IsWholeFile(a) THEN "whole" ELSE "shards"
  <2>1. UNCHANGED <<uploads, dht, file, attempts>>
    BY <1>3 DEF GetDownloadUrls
  <2>2. CASE Ends("failed")
    BY <2>1, <2>2, EndsFacts
  <2>3. ASSUME NEW D \in SUBSET found, NEW m \in [D -> Provider],
               attempt' = [attempt EXCEPT !.pc = there, !.urlMap = m, !.waiting = D]
        PROVE  TypeInv' /\ FileInv'
    <3>1. a \in Url /\ Parses(a) /\ At("lookup")
      BY <1>3 DEF GetDownloadUrls, ShardsInv, At, Resting
    <3>2. D \subseteq Indices(a) /\ D \in SUBSET Nat /\ IsFiniteSet(D)
      BY <3>1, IndicesFacts, FS_Subset
    <3>3. m \in Maps(Provider) /\ DOMAIN m = D
      BY <3>2, MapsFacts
    <3>4. there \in {"whole", "shards"} /\ (there = "whole" <=> IsWholeFile(a))
      OBVIOUS
    <3>5. DOMAIN attempt.bodies = {}
      BY <3>1 DEF ShardsInv
    <3> HIDE DEF there, found, a
    <3>6. /\ attempt' \in AttemptType
          /\ attempt'.pc = there /\ attempt'.urlMap = m /\ attempt'.waiting = D
          /\ attempt'.url = a /\ attempt'.overwrite = attempt.overwrite
          /\ attempt'.bodies = attempt.bodies
      BY <2>3, <3>2, <3>3, <3>4 DEF AttemptType, PlaceType, a
    <3> QED
      BY <2>1, <3>1, <3>2, <3>3, <3>4, <3>5, <3>6 DEF ShardsInv, FileInv, At, Resting
  <2> QED
    BY <1>3, <2>2, <2>3 DEF GetDownloadUrls
<1>4. ASSUME CreateWhole PROVE TypeInv' /\ FileInv'
  <2>1. UNCHANGED <<uploads, dht, attempts>> /\ file' \in Content \cup {Nothing, Partial}
    BY <1>4 DEF CreateWhole
  <2>2. CASE Ends("failed")
    BY <2>1, <2>2, EndsFacts
  <2>3. CASE file' = Partial /\ Goes("copy")
    <3>1. attempt.url \in Url /\ Parses(attempt.url)
      BY <1>4 DEF CreateWhole, ShardsInv, At, Resting
    <3> QED
      BY <2>1, <2>3, <3>1, GoesFacts DEF ShardsInv, FileInv, At, Resting, PlaceType
  <2> QED
    BY <1>4, <2>2, <2>3 DEF CreateWhole
<1>5. ASSUME CopyWhole PROVE TypeInv' /\ FileInv'
  <2>1. Ends("failed") \/ Ends("done")
    BY <1>5 DEF CopyWhole
  <2>2. \A v \in Version : Enc[v].size \in Int
    BY EncFacts
  <2>3. file' \in Content \cup {Nothing, Partial}
    BY <1>5, <2>2 DEF CopyWhole, Content
  <2> QED
    BY <1>5, <2>1, <2>3, EndsFacts DEF CopyWhole
<1>6. ASSUME NEW ix \in attempt.waiting, downloadShard(ix) PROVE TypeInv' /\ FileInv'
  <2>1. PICK b \in Body \cup {Nothing} :
          attempt' = [attempt EXCEPT !.waiting = @ \ {ix},
                                     !.bodies = [j \in DOMAIN @ \cup {ix} |->
                                                   IF j = ix THEN b ELSE @[j]]]
    BY <1>6 DEF downloadShard
  <2> DEFINE D == DOMAIN attempt.bodies \cup {ix}
             m == [j \in D |-> IF j = ix THEN b ELSE attempt.bodies[j]]
  <2>2. /\ attempt.bodies \in Maps(Body \cup {Nothing})
        /\ attempt.waiting \in SUBSET Nat
    BY DEF AttemptType
  <2>3. D \in SUBSET Nat
    BY <2>2, MapsFacts
  <2>4. m \in [D -> Body \cup {Nothing}]
    BY <2>2, MapsFacts
  <2>5. m \in Maps(Body \cup {Nothing}) /\ DOMAIN m = D
    <3> HIDE DEF m, D
    <3> QED
      BY <2>3, <2>4, MapsFacts
  <2>6. attempt' = [attempt EXCEPT !.waiting = @ \ {ix}, !.bodies = m]
    BY <2>1
  <2> HIDE DEF m
  <2>7. /\ attempt' \in AttemptType
        /\ attempt'.pc = attempt.pc /\ attempt'.url = attempt.url
        /\ attempt'.overwrite = attempt.overwrite
        /\ attempt'.urlMap = attempt.urlMap
        /\ attempt'.waiting = attempt.waiting \ {ix}
        /\ attempt'.bodies = m
    BY <2>5, <2>6 DEF AttemptType
  <2> QED
    BY <1>6, <2>5, <2>7 DEF downloadShard, ShardsInv, FileInv, At, Resting
<1>7. ASSUME StoreShards PROVE TypeInv' /\ FileInv'
  <2>1. UNCHANGED <<uploads, dht, file, attempts>>
    BY <1>7 DEF StoreShards
  <2>2. CASE Ends("failed")
    BY <2>1, <2>2, EndsFacts
  <2>3. ASSUME NEW first \in shardMap, Enough,
               \A ix \in shardMap : attempt.bodies[ix] # Garbage,
               attempt' = [attempt EXCEPT !.pc = "create", !.first = first]
        PROVE  TypeInv' /\ FileInv'
    <3>1. first \in Nat
      BY MapsFacts DEF shardMap, AttemptType
    <3>2. /\ attempt' \in AttemptType
          /\ attempt'.pc = "create" /\ attempt'.first = first
          /\ attempt'.url = attempt.url /\ attempt'.overwrite = attempt.overwrite
          /\ attempt'.urlMap = attempt.urlMap /\ attempt'.waiting = attempt.waiting
          /\ attempt'.bodies = attempt.bodies
      BY <2>3, <3>1 DEF AttemptType, PlaceType
    <3>3. shardMap' = shardMap /\ Enough' = Enough
      BY <3>2 DEF shardMap, Enough
    <3>4. ShardsInv'
      <4>1. attempt.pc = "shards"
        BY <1>7 DEF StoreShards, At
      <4>2. \A ix \in shardMap' : attempt'.bodies[ix] # Garbage
        BY <2>3, <3>2, <3>3
      <4>3. /\ attempt.url \in Url /\ Parses(attempt.url) /\ ~ IsWholeFile(attempt.url)
            /\ DOMAIN attempt.urlMap \subseteq Indices(attempt.url)
        BY <4>1 DEF ShardsInv, At, Resting
      <4>4. attempt'.first \in shardMap' /\ Enough'
        BY <2>3, <3>2, <3>3
      <4> QED
        BY <3>2, <4>2, <4>3, <4>4 DEF ShardsInv, At, Resting
    <3>5. FileInv'
      BY <1>7, <2>1, <3>2 DEF StoreShards, FileInv, At
    <3> QED
      BY <2>1, <3>2, <3>4, <3>5
  <2> QED
    BY <1>7, <2>2, <2>3 DEF StoreShards
<1>8. ASSUME CreateSharded PROVE TypeInv' /\ FileInv'
  <2>1. UNCHANGED <<uploads, dht, attempts>> /\ file' \in Content \cup {Nothing, Partial}
    BY <1>8 DEF CreateSharded
  <2>2. CASE Ends("failed")
    BY <2>1, <2>2, EndsFacts
  <2>3. CASE file' = Partial /\ Goes("decode")
    <3>1. /\ attempt' \in AttemptType /\ attempt'.pc = "decode"
          /\ attempt'.url = attempt.url /\ attempt'.urlMap = attempt.urlMap
          /\ attempt'.waiting = attempt.waiting /\ attempt'.bodies = attempt.bodies
          /\ attempt'.first = attempt.first
      BY <2>3, GoesFacts DEF PlaceType
    <3>2. shardMap' = shardMap /\ Enough' = Enough
      BY <3>1 DEF shardMap, Enough
    <3> QED
      BY <1>8, <2>1, <2>3, <3>1, <3>2 DEF CreateSharded, ShardsInv, FileInv, At, Resting
  <2> QED
    BY <1>8, <2>2, <2>3 DEF CreateSharded
<1>9. ASSUME Decode PROVE TypeInv' /\ FileInv'
  <2>1. UNCHANGED <<uploads, dht, file, attempts>> /\ At("decode")
    BY <1>9 DEF Decode
  <2>2. CASE Ends("failed")
    BY <2>1, <2>2, EndsFacts
  <2>3. CASE Accepts(Decoded) /\ Goes("write")
    <3>1. /\ attempt' \in AttemptType /\ attempt'.pc = "write"
          /\ attempt'.url = attempt.url /\ attempt'.urlMap = attempt.urlMap
          /\ attempt'.waiting = attempt.waiting /\ attempt'.bodies = attempt.bodies
          /\ attempt'.first = attempt.first
      BY <2>3, GoesFacts DEF PlaceType
    <3>2. shardMap' = shardMap /\ Enough' = Enough
      BY <3>1 DEF shardMap, Enough
    <3>3. Accepts(Decoded)'
      BY <2>3, <3>1, SameShards
    <3> QED
      BY <2>1, <2>3, <3>1, <3>2, <3>3 DEF ShardsInv, FileInv, At, Resting
  <2> QED
    BY <1>9, <2>2, <2>3 DEF Decode
<1>12. ASSUME WriteSharded PROVE TypeInv' /\ FileInv'
  <2>1. Accepts(Decoded)
    BY <1>12 DEF WriteSharded, ShardsInv
  <2>2. Original(Decoded) \in Content
    BY <2>1, DecodedFacts, OriginalFacts
  <2>3. Ends("failed") \/ Ends("done")
    BY <1>12 DEF WriteSharded
  <2> QED
    BY <1>12, <2>2, <2>3, EndsFacts DEF WriteSharded
<1>10. ASSUME Kill PROVE TypeInv' /\ FileInv'
  BY <1>10, EndsFacts DEF Kill
<1>11. ASSUME UNCHANGED vars PROVE TypeInv' /\ FileInv'
  <2>1. UNCHANGED <<uploads, dht, file, attempt, attempts>>
    BY <1>11 DEF vars
  <2>2. At("write") => Accepts(Decoded)'
    BY <2>1, SameShards DEF ShardsInv
  <2> QED
    BY <2>1, <2>2 DEF ShardsInv, FileInv, At, Resting, shardMap, Enough
<1> QED
  BY <1>1, <1>2, <1>3, <1>4, <1>5, <1>6, <1>7, <1>8, <1>9, <1>10, <1>11, <1>12 DEF Next

LEMMA TypeAlways ==
    Spec => [](TypeInv /\ FileInv)
<1>1. Init => TypeInv /\ FileInv
  BY TypeInit
<1>2. TypeInv /\ FileInv /\ [Next]_vars => (TypeInv /\ FileInv)'
  BY TypeStep
<1> QED
  BY <1>1, <1>2, PTL DEF Spec

(* Type correctness, which includes that every shard asked for is either   *)
(* awaited or answered, and that decoding finds a first shard.             *)
THEOREM TypeCorrect ==
    Spec => []TypeOK
<1>1. TypeInv => TypeOK
  <2> SUFFICES ASSUME TypeInv PROVE TypeOK
    OBVIOUS
  <2>1. \A d \in dht : d[2] \in Provider
    BY DownloadAssumption DEF TypeInv
  <2>2. attempt.overwrite \in BOOLEAN /\ attempt.url \in Url \cup {Nothing}
    BY DEF TypeInv, AttemptType
  <2>3. \A ix \in DOMAIN attempt.bodies : attempt.bodies[ix] \in Body \cup {Nothing}
    BY MapsFacts DEF TypeInv, AttemptType
  <2> QED
    BY <2>1, <2>2, <2>3 DEF TypeOK, TypeInv, ShardsInv
<1> QED
  BY <1>1, TypeAlways, PTL

-----------------------------------------------------------------------------
(* Names                                                                   *)

LEMMA TupleLengths ==
    ASSUME NEW p, NEW u, NEW x, NEW i
    PROVE  Len(<<p, u, x>>) = 3 /\ Len(<<p, u, x, i>>) = 4
OBVIOUS

LEMMA ShardPathForms ==
    ASSUME NEW a, NEW ix
    PROVE  /\ ~ IsHash(a) /\ IsWholeFile(a) => ShardPath(a, ix) = <<a.perm, a.user, a.path>>
           /\ ~ IsHash(a) /\ ~ IsWholeFile(a)
                => ShardPath(a, ix) = <<a.perm, a.user, a.path, ix>>
           /\ IsHash(a) /\ IsWholeFile(a) => ShardPath(a, ix) = <<a.path>>
           /\ IsHash(a) /\ ~ IsWholeFile(a) => ShardPath(a, ix) = <<a.path, ix>>
<1> DEFINE S == {a.perm, a.user, a.path, ix}
<1>1. /\ <<>> \in Seq(S) /\ <<a.perm, a.user>> \in Seq(S)
      /\ <<a.path>> \in Seq(S) /\ <<a.path, ix>> \in Seq(S)
  OBVIOUS
<1>2. Append(<<a.perm, a.user>>, a.path) = <<a.perm, a.user, a.path>>
  <2> DEFINE s == <<a.perm, a.user>>
             t == Append(s, a.path)
  <2>1. /\ t \in Seq(S)
        /\ Len(t) = Len(s) + 1
        /\ \A i \in 1 .. Len(s) : t[i] = s[i]
        /\ t[Len(s) + 1] = a.path
    BY <1>1, AppendProperties
  <2>2. Len(s) = 2 /\ s[1] = a.perm /\ s[2] = a.user
    OBVIOUS
  <2>3. Len(t) = 3 /\ t[1] = a.perm /\ t[2] = a.user /\ t[3] = a.path
    <3> HIDE DEF s, t
    <3> QED
      BY <2>1, <2>2
  <2>4. <<a.perm, a.user, a.path>> \in Seq(S) /\ Len(<<a.perm, a.user, a.path>>) = 3
    OBVIOUS
  <2> HIDE DEF t
  <2>5. \A i \in 1 .. 3 : t[i] = <<a.perm, a.user, a.path>>[i]
    BY <2>3
  <2> QED
    BY <2>1, <2>3, <2>4, <2>5, SeqEqual DEF t
<1>3. Append(<<>>, a.path) = <<a.path>>
  <2>1. /\ Append(<<>>, a.path) \in Seq(S)
        /\ Len(Append(<<>>, a.path)) = 1
        /\ Append(<<>>, a.path)[1] = a.path
    BY <1>1, AppendProperties, EmptySeq
  <2> QED
    BY <1>1, <2>1, SeqEqual
<1>4. <<a.perm, a.user>> \o <<a.path, ix>> = <<a.perm, a.user, a.path, ix>>
  <2> DEFINE s == <<a.perm, a.user>>
             u == <<a.path, ix>>
             t == s \o u
  <2>1. /\ t \in Seq(S)
        /\ Len(t) = Len(s) + Len(u)
        /\ \A i \in 1 .. Len(s) + Len(u) : t[i] = IF i <= Len(s) THEN s[i] ELSE u[i - Len(s)]
    BY <1>1, ConcatProperties
  <2>2. /\ Len(s) = 2 /\ s[1] = a.perm /\ s[2] = a.user
        /\ Len(u) = 2 /\ u[1] = a.path /\ u[2] = ix
    OBVIOUS
  <2>3. Len(t) = 4 /\ t[1] = a.perm /\ t[2] = a.user /\ t[3] = a.path /\ t[4] = ix
    <3> HIDE DEF s, u, t
    <3> QED
      BY <2>1, <2>2
  <2>4. /\ <<a.perm, a.user, a.path, ix>> \in Seq(S)
        /\ Len(<<a.perm, a.user, a.path, ix>>) = 4
    OBVIOUS
  <2> HIDE DEF t
  <2>5. \A i \in 1 .. 4 : t[i] = <<a.perm, a.user, a.path, ix>>[i]
    BY <2>3
  <2> QED
    BY <2>1, <2>3, <2>4, <2>5, SeqEqual DEF t
<1>5. <<>> \o <<a.path, ix>> = <<a.path, ix>>
  BY <1>1, ConcatEmptySeq
<1> QED
  BY <1>2, <1>3, <1>4, <1>5 DEF ShardPath

(* The path under which a provider looks up what the URL asks for.         *)
AskedPath(a) == UrlPath(QueryGet(UrlPath(a.path)))

LEMMA AskedUrl ==
    ASSUME NEW a \in AnyUrl
    PROVE  LET b == NewArchonUrl(Requested(a)) IN
           /\ b.user = a.user /\ b.perm = a.perm /\ b.needed = a.needed
           /\ b.path = AskedPath(a)
BY DEF NewArchonUrl, Requested, Queried, AskedPath, AnyUrl, IsWholeFile

LEMMA SameName ==
    ASSUME NEW a \in Url, NEW ix \in Indices(a), NEW y \in Upload
    PROVE  RetrievedKey(a, ix) = DhtId(y.url, y.ix) <=>
             /\ y.ix = ix
             /\ IsWholeFile(y.url) = IsWholeFile(a)
             /\ y.url.user = a.user /\ y.url.perm = a.perm /\ y.url.path = AskedPath(a)
<1> DEFINE b == NewArchonUrl(Requested(a))
           z == UrlAtSP(y.url)
<1>1. a \in AnyUrl /\ y.url \in AnyUrl /\ ~ IsHash(y.url) /\ y.ix \in Indices(y.url)
  BY DownloadAssumption DEF IsHash
<1>2. /\ b.user = a.user /\ b.perm = a.perm /\ b.path = AskedPath(a) /\ b.needed = a.needed
      /\ z.user = y.url.user /\ z.perm = y.url.perm /\ z.path = y.url.path
      /\ z.needed = y.url.needed
  <2>1. /\ z.user = y.url.user /\ z.perm = y.url.perm /\ z.path = y.url.path
        /\ z.needed = y.url.needed
    BY <1>1 DEF UrlAtSP, AnyUrl
  <2> QED
    BY <1>1, <2>1, AskedUrl
<1>3. /\ IsHash(b) <=> IsHash(a)
      /\ IsWholeFile(b) <=> IsWholeFile(a)
      /\ ~ IsHash(z)
      /\ IsWholeFile(z) <=> IsWholeFile(y.url)
  BY <1>1, <1>2 DEF IsHash, IsWholeFile
<1>4. /\ IsWholeFile(a) => ix = 0
      /\ IsWholeFile(y.url) => y.ix = 0
  BY <1>1 DEF Indices
<1>5. RetrievedKey(a, ix) = ShardPath(b, ix) /\ DhtId(y.url, y.ix) = ShardPath(z, y.ix)
  BY DEF RetrievedKey, DhtId
<1>6. IsHash(a) => a.user # y.url.user
  BY <1>1 DEF IsHash
<1> HIDE DEF b, z
<1>7. CASE IsWholeFile(y.url)
  <2>1. DhtId(y.url, y.ix) = <<z.perm, z.user, z.path>>
    BY <1>3, <1>5, <1>7, ShardPathForms
  <2>2. CASE ~ IsHash(a) /\ IsWholeFile(a)
    <3>1. RetrievedKey(a, ix) = <<b.perm, b.user, b.path>>
      BY <1>3, <1>5, <2>2, ShardPathForms
    <3> QED
      BY <1>2, <1>4, <1>7, <2>1, <2>2, <3>1
  <2>3. CASE ~ IsHash(a) /\ ~ IsWholeFile(a)
    <3>1. RetrievedKey(a, ix) = <<b.perm, b.user, b.path, ix>>
      BY <1>3, <1>5, <2>3, ShardPathForms
    <3> QED
      BY <1>7, <2>1, <2>3, <3>1, TupleLengths DEF IsWholeFile
  <2>4. CASE IsHash(a)
    <3>1. RetrievedKey(a, ix) \in {<<b.path>>, <<b.path, ix>>}
      BY <1>3, <1>5, <2>4, ShardPathForms
    <3> QED
      BY <1>6, <2>1, <2>4, <3>1
  <2> QED
    BY <2>2, <2>3, <2>4
<1>8. CASE ~ IsWholeFile(y.url)
  <2>1. DhtId(y.url, y.ix) = <<z.perm, z.user, z.path, y.ix>>
    BY <1>3, <1>5, <1>8, ShardPathForms
  <2>2. CASE ~ IsHash(a) /\ IsWholeFile(a)
    <3>1. RetrievedKey(a, ix) = <<b.perm, b.user, b.path>>
      BY <1>3, <1>5, <2>2, ShardPathForms
    <3> QED
      BY <1>8, <2>1, <2>2, <3>1, TupleLengths DEF IsWholeFile
  <2>3. CASE ~ IsHash(a) /\ ~ IsWholeFile(a)
    <3>1. RetrievedKey(a, ix) = <<b.perm, b.user, b.path, ix>>
      BY <1>3, <1>5, <2>3, ShardPathForms
    <3> QED
      BY <1>2, <1>8, <2>1, <2>3, <3>1 DEF IsWholeFile
  <2>4. CASE IsHash(a)
    <3>1. RetrievedKey(a, ix) \in {<<b.path>>, <<b.path, ix>>}
      BY <1>3, <1>5, <2>4, ShardPathForms
    <3> QED
      BY <1>6, <2>1, <2>4, <3>1
  <2> QED
    BY <2>2, <2>3, <2>4
<1> QED
  BY <1>7, <1>8

-----------------------------------------------------------------------------
(* Names on their way through a URL and a query                            *)

LEMMA UnescapeFacts ==
    ASSUME NEW D, NEW path \in [D -> Piece]
    PROVE  /\ Unescape(path) \in [D -> Piece]
           /\ \A i \in D :
                /\ Unescape(path)[i].char = path[i].char
                /\ path[i].escapes > 0 => Unescape(path)[i].escapes = path[i].escapes - 1
                /\ path[i].escapes = 0 => Unescape(path)[i].escapes = 0
BY DEF Unescape, Piece

LEMMA NeedsFacts ==
    /\ Needs("+") = 2 /\ Needs(" ") = 2 /\ Needs("&") = 2
    /\ Needs("%") = 3 /\ Needs("?") = 4 /\ Needs("*") = 4
BY UrlAssumption DEF Needs, Special

(* A path in which every special character is escaped often enough comes   *)
(* through as the name that it spells.                                     *)
LEMMA WrittenFacts ==
    ASSUME NEW D, NEW t \in [D -> Piece], Written(t)
    PROVE  /\ UrlPath(t) \in [D -> Piece]
           /\ \A i \in D : QueryGet(UrlPath(t))[i].char = t[i].char
           /\ DOMAIN QueryGet(UrlPath(t)) = D
           /\ QueryTakes(UrlPath(t))
           /\ UrlTakes(QueryGet(UrlPath(t)))
           /\ UrlPath(QueryGet(UrlPath(t))) = Spelled(t)
<1> DEFINE u == Unescape(t)
           q == Unescape(u)
           w == Unescape(q)
<1>1. \A i \in D : t[i].escapes \in Nat
  BY DEF Piece
<1>2. ASSUME NEW i \in D
      PROVE  /\ t[i].char \in {"+", " ", "&"} => t[i].escapes >= 2
             /\ t[i].char = "%" => t[i].escapes >= 3
             /\ t[i].char \in {"?", "*"} => t[i].escapes >= 4
  <2>1. t[i].escapes >= Needs(t[i].char)
    BY DEF Written
  <2> QED
    BY <2>1, NeedsFacts
<1>3. /\ u \in [D -> Piece]
      /\ \A i \in D : /\ u[i].char = t[i].char
                      /\ u[i].escapes = IF t[i].escapes = 0 THEN 0 ELSE t[i].escapes - 1
  BY <1>1, UnescapeFacts
<1> HIDE DEF u
<1>4. /\ q \in [D -> Piece]
      /\ \A i \in D : /\ q[i].char = t[i].char
                      /\ q[i].escapes = IF t[i].escapes <= 2 THEN 0 ELSE t[i].escapes - 2
  <2>1. \A i \in D : u[i].escapes \in Nat
    BY <1>1, <1>3
  <2>2. /\ q \in [D -> Piece]
        /\ \A i \in D : /\ q[i].char = u[i].char
                        /\ q[i].escapes = IF u[i].escapes = 0 THEN 0 ELSE u[i].escapes - 1
    BY <1>3, <2>1, UnescapeFacts
  <2> HIDE DEF q
  <2>3. ASSUME NEW i \in D
        PROVE  /\ q[i].char = t[i].char
               /\ q[i].escapes = IF t[i].escapes <= 2 THEN 0 ELSE t[i].escapes - 2
    <3>1. t[i].escapes \in Nat
      BY <1>1
    <3>2. u[i].escapes = IF t[i].escapes = 0 THEN 0 ELSE t[i].escapes - 1
      BY <1>3
    <3>3. q[i].escapes = IF u[i].escapes = 0 THEN 0 ELSE u[i].escapes - 1
      BY <2>2
    <3>4. q[i].char = t[i].char
      BY <1>3, <2>2
    <3>5. q[i].escapes = IF t[i].escapes <= 2 THEN 0 ELSE t[i].escapes - 2
      BY <3>1, <3>2, <3>3
    <3> QED
      BY <3>4, <3>5
  <2> QED
    BY <2>2, <2>3
<1> HIDE DEF q
<1>5. /\ w \in [D -> Piece]
      /\ \A i \in D : /\ w[i].char = t[i].char
                      /\ w[i].escapes = IF t[i].escapes <= 3 THEN 0 ELSE t[i].escapes - 3
  <2>1. \A i \in D : q[i].escapes \in Nat
    BY <1>1, <1>4
  <2>2. /\ w \in [D -> Piece]
        /\ \A i \in D : /\ w[i].char = q[i].char
                        /\ w[i].escapes = IF q[i].escapes = 0 THEN 0 ELSE q[i].escapes - 1
    BY <1>4, <2>1, UnescapeFacts
  <2> HIDE DEF w
  <2> QED
    BY <1>1, <1>4, <2>2
<1> HIDE DEF w
<1>6. UrlPath(t) = u
  <2>1. Before(t, "?") = t
    <3>1. ASSUME NEW i \in D, t[i].char = "?" PROVE t[i].escapes # 0
      <4>1. t[i].char \in {"?", "*"}
        BY <3>1
      <4>2. t[i].escapes >= 4
        BY <1>2, <4>1
      <4> QED
        BY <4>2
    <3>2. ~ Has(t, {"?"})
      BY <3>1 DEF Has
    <3> QED
      BY <3>2 DEF Before
  <2> QED
    BY <2>1 DEF UrlPath, u
<1>7. /\ ~ Has(u, {" "})
      /\ Before(u, "&") = u
      /\ ~ Has(u, {"%"})
      /\ ~ Has(u, {"+"})
  <2>1. ASSUME NEW i \in D, u[i].char \in {" ", "&", "%", "+"}
        PROVE  u[i].escapes # 0
    <3>1. t[i].char \in {"+", " ", "&"} \/ t[i].char = "%"
      BY <1>3, <2>1
    <3>2. CASE t[i].char = "%"
      <4>1. t[i].escapes >= 3
        BY <1>2, <3>2
      <4> QED
        BY <1>1, <1>3, <4>1
    <3>3. CASE t[i].char \in {"+", " ", "&"}
      <4>1. t[i].escapes >= 2
        BY <1>2, <3>3
      <4> QED
        BY <1>1, <1>3, <4>1
    <3> QED
      BY <3>1, <3>2, <3>3
  <2>2. ~ Has(u, {" "}) /\ ~ Has(u, {"&"}) /\ ~ Has(u, {"%"}) /\ ~ Has(u, {"+"})
    BY <1>3, <2>1 DEF Has
  <2> QED
    BY <2>2 DEF Before
<1>8. QueryGet(u) = q
  <2>1. DOMAIN u = D /\ DOMAIN q = D
    BY <1>3, <1>4
  <2>2. ASSUME NEW i \in D PROVE u[i] # [char |-> "+", escapes |-> 0]
    <3>1. ~ (u[i].char \in {"+"} /\ u[i].escapes = 0)
      BY <1>7, <2>1 DEF Has
    <3> QED
      BY <3>1
  <2>3. QueryGet(u) = [i \in D |-> Unescape(u)[i]]
    BY <1>7, <2>1, <2>2 DEF QueryGet
  <2>4. q = [i \in D |-> q[i]]
    BY <1>4
  <2> QED
    BY <2>3, <2>4 DEF q
<1>9. /\ Before(q, "?") = q
      /\ ~ Has(q, {"%"})
  <2>1. ASSUME NEW i \in D, q[i].char \in {"?", "%"}
        PROVE  q[i].escapes # 0
    <3>1. t[i].char \in {"?", "*"} \/ t[i].char = "%"
      BY <1>4, <2>1
    <3>2. CASE t[i].char = "%"
      <4>1. t[i].escapes >= 3
        BY <1>2, <3>2
      <4> QED
        BY <1>1, <1>4, <4>1
    <3>3. CASE t[i].char \in {"?", "*"}
      <4>1. t[i].escapes >= 4
        BY <1>2, <3>3
      <4> QED
        BY <1>1, <1>4, <4>1
    <3> QED
      BY <3>1, <3>2, <3>3
  <2>2. ~ Has(q, {"?"}) /\ ~ Has(q, {"%"})
    BY <1>4, <2>1 DEF Has
  <2> QED
    BY <2>2 DEF Before
<1>10. ~ Has(w, {"?", "*"})
  <2>1. ASSUME NEW i \in D, w[i].char \in {"?", "*"}
        PROVE  w[i].escapes # 0
    <3>1. t[i].char \in {"?", "*"}
      BY <1>5, <2>1
    <3>2. t[i].escapes >= 4 /\ t[i].escapes \in Nat
      BY <1>1, <1>2, <3>1
    <3>3. w[i].escapes = t[i].escapes - 3
      BY <1>5, <3>2
    <3> QED
      BY <3>2, <3>3
  <2> QED
    BY <1>5, <2>1 DEF Has
<1>11. UrlPath(q) = w
  BY <1>9 DEF UrlPath, w
<1>12. w = Spelled(t)
  <2> DEFINE spelled(i) == [t[i] EXCEPT !.escapes = IF @ <= 3 THEN 0 ELSE @ - 3]
  <2>1. ASSUME NEW i \in D PROVE w[i] = spelled(i)
    <3>1. t[i] \in Piece /\ w[i] \in Piece
      BY <1>5
    <3>2. /\ spelled(i).char = t[i].char
          /\ spelled(i).escapes = IF t[i].escapes <= 3 THEN 0 ELSE t[i].escapes - 3
          /\ spelled(i) \in [char: Plain \cup Special, escapes: Int]
      BY <3>1 DEF Piece
    <3>3. w[i].char = spelled(i).char /\ w[i].escapes = spelled(i).escapes
      BY <1>5, <3>2
    <3> HIDE DEF spelled
    <3> QED
      BY <3>1, <3>2, <3>3 DEF Piece
  <2>2. w = [i \in D |-> w[i]] /\ DOMAIN t = D
    BY <1>5
  <2>3. Spelled(t) = [i \in D |-> spelled(i)]
    BY <2>2 DEF Spelled
  <2> HIDE DEF spelled
  <2> QED
    BY <2>1, <2>2, <2>3
<1>13. QueryTakes(u)
  BY <1>7 DEF QueryTakes
<1>14. UrlTakes(q)
  BY <1>9, <1>10, <1>11 DEF UrlTakes
<1> QED
  BY <1>3, <1>4, <1>6, <1>8, <1>11, <1>12, <1>13, <1>14

LEMMA WrittenReaches ==
    ASSUME NEW a \in AnyUrl, Parses(a), Written(a.path)
    PROVE  Reaches(a) /\ AskedPath(a) = Spelled(a.path)
<1> DEFINE D == DOMAIN a.path
           b == NewArchonUrl(a)
           c == Requested(a)
<1>1. a.path \in [D -> Piece]
  <2>1. a.path \in Seq(Piece)
    BY DEF AnyUrl
  <2> QED
    BY <2>1
<1>2. /\ b.path = UrlPath(a.path)
      /\ c.path = QueryGet(UrlPath(a.path))
      /\ c.user = a.user /\ c.needed = a.needed
      /\ ~ IsWholeFile(a) => c.total = a.total
  BY DEF NewArchonUrl, Requested, Queried, AnyUrl
<1>3. /\ \A i \in D : c.path[i].char = a.path[i].char
      /\ DOMAIN c.path = D
      /\ QueryTakes(b.path)
      /\ UrlTakes(c.path)
      /\ AskedPath(a) = Spelled(a.path)
  BY <1>1, <1>2, WrittenFacts DEF AskedPath
<1> HIDE DEF b, c
<1>4. Parses(c)
  <2>1. /\ IsWholeFile(c) <=> IsWholeFile(a)
        /\ IsHash(c) <=> IsHash(a)
        /\ TldLen(c) = TldLen(a)
    BY <1>2 DEF IsWholeFile, IsHash, TldLen
  <2> QED
    BY <1>2, <1>3, <2>1 DEF Parses
<1> QED
  BY <1>3, <1>4 DEF Reaches, b, c

(* The names that providers and clients derive on their own agree, for     *)
(* every user, encoding and path, if the URL is written so that the path   *)
(* survives being parsed, printed into a query and parsed again; and no    *)
(* URL finds what another user announced.                                  *)
THEOREM NamedIsFoundAlways ==
    Spec => []NamedIsFound
<1>1. TypeInv => NamedIsFound
  <2> SUFFICES ASSUME TypeInv, NEW a \in WellFormed, NEW ix \in Indices(a)
               PROVE  LET found == Holders(a, ix)
                          like == {y \in uploads :
                              /\ y.ix = ix
                              /\ IsWholeFile(y.url) = IsWholeFile(a)
                              /\ y.url.user = a.user /\ y.url.perm = a.perm}
                      IN
                      /\ found \subseteq {x.sp : x \in like}
                      /\ Written(a.path) => found =
                            {x.sp : x \in {y \in like : y.url.path = Spelled(a.path)}}
    BY DEF NamedIsFound
  <2>1. \A y \in uploads : y \in Upload /\ y.sp \in Provider
    BY DownloadAssumption DEF TypeInv
  <2>2. a \in Url /\ a \in AnyUrl /\ Parses(a)
    BY DownloadAssumption DEF WellFormed
  <2>3. Keys[a][ix] = RetrievedKey(a, ix)
    BY <2>2 DEF Keys
  <2>4. \A p : p \in Holders(a, ix) <=>
          /\ p \in Provider /\ Reaches(a)
          /\ \E y \in uploads : RetrievedKey(a, ix) = DhtId(y.url, y.ix) /\ y.sp = p
    BY <2>2, <2>3 DEF TypeInv, Holders, Reaching
  <2>5. \A y \in uploads : RetrievedKey(a, ix) = DhtId(y.url, y.ix) <=>
             /\ y.ix = ix
             /\ IsWholeFile(y.url) = IsWholeFile(a)
             /\ y.url.user = a.user /\ y.url.perm = a.perm /\ y.url.path = AskedPath(a)
    BY <2>1, <2>2, SameName
  <2>6. Written(a.path) => Reaches(a) /\ AskedPath(a) = Spelled(a.path)
    BY <2>2, WrittenReaches
  <2> QED
    BY <2>1, <2>4, <2>5, <2>6
<1> QED
  BY <1>1, TypeAlways, PTL

-----------------------------------------------------------------------------
(* The file                                                                *)

(* A complete file is overwritten on demand only, and for the shards of    *)
(* another.                                                                *)
THEOREM FileKeptAlways ==
    Spec => FileKept
<1> DEFINE Kept == file' # file /\ file \in Content =>
             /\ attempt.overwrite
             /\ IsWholeFile(attempt.url) \/ Cardinality(shardMap) >= attempt.url.needed
<1>1. TypeInv /\ FileInv /\ [Next]_vars => Kept
  <2> SUFFICES ASSUME TypeInv, FileInv, Next, file' # file, file \in Content
               PROVE  /\ attempt.overwrite
                      /\ \/ IsWholeFile(attempt.url)
                         \/ Cardinality(shardMap) >= attempt.url.needed
    BY DEF vars
  <2>1. file # Partial /\ file # Nothing
    BY DownloadAssumption
  <2>2. attempt.overwrite \in BOOLEAN
    BY DEF TypeInv, AttemptType
  <2>3. CASE CreateWhole
    BY <2>1, <2>2, <2>3 DEF CreateWhole, FileInv, At
  <2>4. CASE CreateSharded
    BY <2>1, <2>2, <2>4 DEF CreateSharded, FileInv, TypeInv, ShardsInv, Enough, At
  <2>5. CASE CopyWhole \/ WriteSharded
    BY <2>1, <2>5 DEF CopyWhole, WriteSharded, FileInv, At
  <2> QED
    BY <2>3, <2>4, <2>5 DEF Next, Announce, Begin, GetDownloadUrls, downloadShard,
                            StoreShards, Decode, Kill
<1>2. FileKept <=> [][Kept]_vars
  BY DEF FileKept
<1> QED
  BY <1>1, <1>2, TypeAlways, PTL DEF Spec

-----------------------------------------------------------------------------
(* Contents                                                                *)

LEMMA IntactFacts ==
    ASSUME NEW S, IsFiniteSet(S), NEW v
    PROVE  /\ Intact(S, v) \subseteq S
           /\ IsFiniteSet(Intact(S, v))
           /\ Cardinality(S) \in Nat
           /\ Cardinality(Intact(S, v)) \in Nat
           /\ Cardinality(Intact(S, v)) <= Cardinality(S)
<1>1. Intact(S, v) \subseteq S
  BY DEF Intact
<1> QED
  BY <1>1, FS_Subset, FS_CardinalityType

LEMMA UsedFacts ==
    ASSUME TypeInv, At("decode") \/ At("write")
    PROVE  /\ Used \subseteq shardMap
           /\ IsFiniteSet(Used)
           /\ Cardinality(Used) \in Nat \ {0}
           /\ Of(attempt.first).code = "mxor" /\ Cardinality(shardMap) > 1
                => Cardinality(Used) = 2
<1> DEFINE least == Min(shardMap)
           rest == shardMap \ {least}
<1>1. shardMap \in SUBSET Nat /\ IsFiniteSet(shardMap) /\ least \in shardMap
  BY ShardFacts
<1>2. CASE Of(attempt.first).code = "mxor" /\ Cardinality(shardMap) > 1
  <2>1. rest # {}
    <3>1. Cardinality({least}) = 1
      BY FS_Singleton
    <3> QED
      BY <1>1, <1>2, <3>1
  <2>2. Min(rest) \in rest
    BY <1>1, <2>1, LeastElement
  <2>3. Used = {least, Min(rest)} /\ least # Min(rest)
    BY <1>2, <2>2 DEF Used
  <2>4. IsFiniteSet({least}) /\ Cardinality({least}) = 1
    BY FS_Singleton
  <2>5. IsFiniteSet({least} \cup {Min(rest)}) /\ Cardinality({least} \cup {Min(rest)}) = 2
    <3>1. Min(rest) \notin {least}
      BY <2>3
    <3>2. /\ IsFiniteSet({least} \cup {Min(rest)})
          /\ Cardinality({least} \cup {Min(rest)}) = Cardinality({least}) + 1
      BY <2>4, <3>1, FS_AddElement, Zenon
    <3> QED
      BY <2>4, <3>2
  <2>6. Used = {least} \cup {Min(rest)}
    BY <2>3
  <2> QED
    BY <1>1, <2>2, <2>5, <2>6
<1>3. CASE ~ (Of(attempt.first).code = "mxor" /\ Cardinality(shardMap) > 1)
  <2>1. Used = shardMap
    BY <1>3 DEF Used
  <2>2. Cardinality(shardMap) \in Nat /\ Cardinality(shardMap) # 0
    BY <1>1, FS_CardinalityType, FS_EmptySet
  <2> QED
    BY <1>1, <1>3, <2>1, <2>2
<1> QED
  BY <1>2, <1>3

(* The file after a download that succeeded is the one of a single         *)
(* container, whatever headers and shares providers put together.          *)
THEOREM SuccessMeansSentAlways ==
    Spec => SuccessMeansSent
<1> DEFINE Sent ==
             At("write") /\ attempt'.pc = "done" =>
               \E v \in Version :
                 /\ file' = [bytes |-> Enc[v].bytes, intact |-> TRUE, len |-> Enc[v].size]
                 /\ Enc[Sample].hash = Enc[v].bytes
                 /\ Cardinality(Intact(shardMap, v)) >= Enc[v].needed
<1>1. TypeInv /\ FileInv /\ [Next]_vars => Sent
  <2> SUFFICES ASSUME TypeInv, [Next]_vars, At("write"), attempt'.pc = "done"
               PROVE  \E v \in Version :
                        /\ file' = [bytes |-> Enc[v].bytes, intact |-> TRUE, len |-> Enc[v].size]
                        /\ Enc[Sample].hash = Enc[v].bytes
                        /\ Cardinality(Intact(shardMap, v)) >= Enc[v].needed
    OBVIOUS
  <2>1. WriteSharded /\ ~ Ends("failed")
    <3>1. ~ Ends("failed") /\ ~ Ends("killed")
      BY DEF Ends, Idle
    <3> QED
      BY <3>1 DEF vars, Next, Announce, Begin, GetDownloadUrls, CreateWhole, CopyWhole,
                  downloadShard, StoreShards, CreateSharded, Decode, Kill, At, Resting
  <2> DEFINE v == Decoded
  <2>2. Accepts(v) /\ file' = Original(v)
    BY <2>1 DEF WriteSharded, TypeInv, ShardsInv
  <2>3. v \in Version /\ DecodesTo(Used, v)
    BY <2>2, DecodedFacts
  <2>4. /\ file' = [bytes |-> Enc[v].bytes, intact |-> TRUE, len |-> Enc[v].size]
        /\ Enc[Sample].hash = Enc[v].bytes
    BY <2>2, <2>3, OriginalFacts
  <2>5. Intact(Used, v) \subseteq Intact(shardMap, v)
    BY UsedFacts DEF Intact
  <2>6. Cardinality(Intact(Used, v)) <= Cardinality(Intact(shardMap, v))
    BY <2>5, ShardFacts, IntactFacts, FS_Subset
  <2>7. /\ Cardinality(Used) \in Nat
        /\ Cardinality(Intact(Used, v)) \in Nat
        /\ Cardinality(Intact(shardMap, v)) \in Nat
    BY ShardFacts, UsedFacts, IntactFacts
  <2>8. Enc[v].needed \in Nat
    BY <2>3, EncFacts
  <2> HIDE DEF v
  <2>9. /\ Cardinality(Used) >= Enc[v].needed
        /\ 2 * (Cardinality(Used) - Cardinality(Intact(Used, v)))
              <= Cardinality(Used) - Enc[v].needed
    BY <2>3 DEF DecodesTo
  <2>10. Cardinality(Intact(shardMap, v)) >= Enc[v].needed
    BY <2>6, <2>7, <2>8, <2>9
  <2> QED
    BY <2>3, <2>4, <2>10
<1>2. SuccessMeansSent <=> [][Sent]_vars
  BY DEF SuccessMeansSent
<1> QED
  BY <1>1, <1>2, TypeAlways, PTL DEF Spec

(* With nothing but intact shards of one version, as many or more than are *)
(* needed, decoding finds this version.                                    *)
LEMMA FineDecodes ==
    ASSUME TypeInv, At("decode"), AllFine
    PROVE  Accepts(Decoded) /\ ~ Uneven
<1>1. PICK v \in Version :
        /\ Enc[v].needed = attempt.url.needed
        /\ WellMade(v)
        /\ Cardinality(shardMap) >= Enc[v].needed
        /\ \A ix \in shardMap : attempt.bodies[ix] = [header |-> v, share |-> v]
  BY DEF AllFine
<1> DEFINE n == Cardinality(Used)
<1>2. \A ix \in shardMap : attempt.bodies[ix].header = v /\ attempt.bodies[ix].share = v
  BY <1>1
<1>3. \A ix \in shardMap : Of(ix) = Enc[v]
  BY <1>2 DEF Of
<1>4. Of(attempt.first) = Enc[v] /\ Of(Min(shardMap)) = Enc[v]
  BY <1>3, ShardFacts
<1>5. /\ Enc[v].code \in Code /\ Enc[v].needed \in Nat \ {0}
      /\ Enc[v].code = "mxor" => Enc[v].needed = 2
  BY EncFacts, DownloadAssumption
<1>6. n \in Nat \ {0} /\ n >= Enc[v].needed
  <2>1. Cardinality(shardMap) \in Nat
    BY ShardFacts, FS_CardinalityType
  <2>2. CASE Of(attempt.first).code = "mxor" /\ Cardinality(shardMap) > 1
    BY <1>4, <1>5, <2>2, UsedFacts
  <2>3. CASE ~ (Of(attempt.first).code = "mxor" /\ Cardinality(shardMap) > 1)
    <3>1. Used = shardMap
      BY <2>3 DEF Used
    <3> QED
      BY <1>1, <3>1, UsedFacts
  <2> QED
    BY <2>2, <2>3
<1>7. Intact(Used, v) = Used
  BY <1>2, UsedFacts DEF Intact
<1>8. DecodesTo(Used, v)
  BY <1>4, <1>5, <1>6, <1>7 DEF DecodesTo
<1>9. ASSUME NEW w \in Version, w # v
      PROVE  ~ DecodesTo(Used, w)
  <2>1. \A ix \in Used : attempt.bodies[ix].share # w
    BY <1>2, <1>9, UsedFacts
  <2>2. Intact(Used, w) = {}
    BY <2>1 DEF Intact
  <2>3. Cardinality(Intact(Used, w)) = 0
    BY <2>2, FS_EmptySet
  <2> QED
    BY <1>4, <1>5, <1>6, <2>3 DEF DecodesTo
<1>10. Decoded = v
  BY <1>8, <1>9 DEF Decoded
<1>11. Sample = v
  BY <1>2, ShardFacts DEF Sample
<1>12. Enc[v].fct # "none" /\ SameHash(v)
  BY <1>1, <1>11 DEF WellMade, SameHash
<1>13. DecodedLen(Enc[v].code, LenOf(v), Enc[v].needed) >= LenOf(v)
  BY EncFacts, ShareCover
<1>14. v # Garbage
  BY DownloadAssumption
<1>15. Accepts(Decoded)
  BY <1>10, <1>11, <1>12, <1>13, <1>14 DEF Accepts
<1>16. ~ Uneven
  BY <1>2 DEF Uneven
<1> QED
  BY <1>15, <1>16

(* Intact shards are downloaded.                                           *)
THEOREM IntactIsDownloadedAlways ==
    Spec => IntactIsDownloaded
<1> DEFINE Downloaded ==
             (At("decode") \/ (At("shards") /\ attempt.waiting = {})) /\ AllFine
               => attempt'.pc # "failed"
<1>1. TypeInv /\ FileInv /\ [Next]_vars => Downloaded
  <2> SUFFICES ASSUME TypeInv, [Next]_vars, AllFine,
                      At("decode") \/ (At("shards") /\ attempt.waiting = {}),
                      attempt'.pc = "failed"
               PROVE  FALSE
    OBVIOUS
  <2>1. Decode \/ StoreShards
    <3>1. ~ Ends("killed")
      BY DEF Ends, Idle
    <3>2. attempt' # attempt
      BY DEF At
    <3> QED
      BY <3>1, <3>2 DEF vars, Next, Announce, Begin, GetDownloadUrls, CreateWhole, CopyWhole,
                  downloadShard, CreateSharded, WriteSharded, Kill, At, Resting
  <2>2. CASE Decode
    <3>1. Accepts(Decoded) /\ ~ Uneven
      BY <2>2, FineDecodes DEF Decode
    <3>2. Goes("write")
      BY <2>2, <3>1 DEF Decode
    <3> QED
      BY <3>2, GoesFacts DEF TypeInv, PlaceType
  <2>3. CASE StoreShards
    <3>1. PICK v \in Version :
            /\ Enc[v].needed = attempt.url.needed
            /\ Enc[v].total = attempt.url.total
            /\ Cardinality(shardMap) >= Enc[v].needed
            /\ \A ix \in shardMap : attempt.bodies[ix] = [header |-> v, share |-> v]
      BY DEF AllFine
    <3>2. \A ix \in shardMap : attempt.bodies[ix] = [header |-> v, share |-> v]
      BY <3>1
    <3>3. \A ix \in shardMap : attempt.bodies[ix] # Garbage
      <4>1. Garbage \notin Shard
        BY DownloadAssumption
      <4>2. [header |-> v, share |-> v] \in Shard
        BY DEF Shard
      <4> QED
        BY <3>2, <4>1, <4>2
    <3>4. /\ attempt \in AttemptType
          /\ attempt.url \in Url /\ ~ IsWholeFile(attempt.url)
          /\ DOMAIN attempt.bodies \subseteq Indices(attempt.url)
      BY <2>3 DEF StoreShards, TypeInv, ShardsInv, At, Resting
    <3>5. ASSUME NEW first \in shardMap, NEW ix \in shardMap
          PROVE  ix < Of(first).total
      <4>1. Of(first).total = attempt.url.total
        BY <3>1, <3>2 DEF Of
      <4>2. attempt.url.total \in Nat
        BY <3>4, DownloadAssumption DEF AnyUrl
      <4>3. ix \in 0 .. (attempt.url.total - 1)
        BY <3>4 DEF shardMap, Indices
      <4> QED
        BY <4>1, <4>2, <4>3
    <3>6. Enough
      BY <3>1 DEF Enough
    <3>7. ~ \E first, ix \in shardMap :
              attempt.bodies[first] # Garbage /\ ix >= Of(first).total
      <4>1. \A first, ix \in shardMap : Of(first).total \in Nat /\ ix \in Int
        <5>1. shardMap \subseteq Nat
          BY <3>4, MapsFacts DEF shardMap, AttemptType
        <5> QED
          BY <3>1, <3>2, <5>1, EncFacts DEF Of
      <4> QED
        BY <3>5, <4>1
    <3>8. \E first \in shardMap :
            attempt' = [attempt EXCEPT !.pc = "create", !.first = first]
      BY <2>3, <3>3, <3>6, <3>7 DEF StoreShards
    <3> QED
      BY <3>4, <3>8 DEF AttemptType
  <2> QED
    BY <2>1, <2>2, <2>3
<1>2. IntactIsDownloaded <=> [][Downloaded]_vars
  BY DEF IntactIsDownloaded
<1> QED
  BY <1>1, <1>2, TypeAlways, PTL DEF Spec

-----------------------------------------------------------------------------
(* An attempt comes to an end                                              *)

(* When all goroutines are done there is a way on, to the file or to the   *)
(* error, whatever they were sent.                                         *)
AttemptAble ==
    At("shards") /\ attempt.waiting = {} =>
        \/ \E first \in shardMap :
             /\ Enough
             /\ \A ix \in shardMap : attempt.bodies[ix] # Garbage
             /\ \A ix \in shardMap : ix < Of(first).total
        \/ ~ Enough
        \/ \E ix \in shardMap : attempt.bodies[ix] = Garbage
        \/ \E first, ix \in shardMap :
             attempt.bodies[first] # Garbage /\ ix >= Of(first).total

LEMMA AbleFacts ==
    TypeInv => AttemptAble
<1> SUFFICES ASSUME TypeInv, At("shards"), Enough,
                    \A ix \in shardMap : attempt.bodies[ix] # Garbage
             PROVE  \/ \E first \in shardMap : \A ix \in shardMap : ix < Of(first).total
                    \/ \E first, ix \in shardMap : ix >= Of(first).total
  BY DEF AttemptAble
<1>1. attempt.url \in Url /\ ~ IsWholeFile(attempt.url)
  BY DEF TypeInv, ShardsInv, At, Resting
<1>2. attempt.url.needed \in Nat /\ attempt.url.needed > 0
  BY <1>1, DownloadAssumption DEF AnyUrl, IsWholeFile
<1>3. shardMap # {}
  BY <1>2, FS_EmptySet DEF Enough
<1>4. PICK first \in shardMap : TRUE
  BY <1>3
<1>5. attempt.bodies \in Maps(Body \cup {Nothing})
  BY DEF TypeInv, AttemptType
<1>6. attempt.bodies[first] \in Shard
  BY <1>4, <1>5, MapsFacts, DownloadAssumption DEF shardMap
<1>7. Of(first).total \in Nat
  BY <1>6, EncFacts DEF Of, Shard
<1>8. \A ix \in shardMap : ix \in Nat
  BY <1>5, MapsFacts DEF shardMap
<1> QED
  BY <1>4, <1>7, <1>8

(* What an attempt may still do: the lookup, one answer for each shard at  *)
(* most, and four steps to the file.                                       *)
Steps ==
    CASE At("lookup") -> Cardinality(Indices(attempt.url)) + 5
      [] At("shards") -> Cardinality(attempt.waiting) + 4
      [] At("whole")  -> 2
      [] At("create") -> 3
      [] At("copy")   -> 1
      [] At("decode") -> 2
      [] At("write")  -> 1
      [] Resting      -> 0

LEMMA WaitingFacts ==
    ASSUME TypeInv
    PROVE  /\ IsFiniteSet(attempt.waiting) /\ Cardinality(attempt.waiting) \in Nat
           /\ \A ix \in attempt.waiting :
                Cardinality(attempt.waiting \ {ix}) = Cardinality(attempt.waiting) - 1
           /\ ~ Resting => Cardinality(Indices(attempt.url)) \in Nat
<1>1. attempt.waiting \subseteq DOMAIN attempt.urlMap /\ IsFiniteSet(DOMAIN attempt.urlMap)
  BY DEF TypeInv, ShardsInv
<1>2. IsFiniteSet(attempt.waiting)
  BY <1>1, FS_Subset
<1>3. ~ Resting => Cardinality(Indices(attempt.url)) \in Nat
  BY IndicesFacts, FS_CardinalityType DEF TypeInv, ShardsInv
<1> QED
  BY <1>2, <1>3, FS_CardinalityType, FS_RemoveElement

LEMMA StepsShrink ==
    ASSUME TypeInv, Next, ~ Resting
    PROVE  Steps' < Steps \/ UNCHANGED <<file, attempt>>
<1>1. /\ Cardinality(attempt.waiting) \in Nat
      /\ Cardinality(Indices(attempt.url)) \in Nat
      /\ attempt \in AttemptType
  BY WaitingFacts DEF TypeInv
<1>2. ASSUME NEW how \in {"done", "failed", "killed"}, Ends(how) PROVE Steps' < Steps
  <2>1. attempt'.pc = how
    BY <1>2 DEF Ends, Idle
  <2>2. Steps' = 0
    BY <2>1 DEF Steps, At, Resting
  <2>3. Steps \in Nat /\ Steps > 0
    <3>1. attempt.pc \in {"lookup", "whole", "copy", "shards", "create", "decode", "write"}
      BY <1>1 DEF AttemptType, PlaceType, Resting
    <3> QED
      BY <1>1, <3>1 DEF Steps, At, Resting
  <2> QED
    BY <2>2, <2>3
<1>3. ASSUME NEW x \in Upload, Announce(x) PROVE UNCHANGED <<file, attempt>>
  BY <1>3 DEF Announce
<1>4. \A a \in Url, overwrite \in BOOLEAN : ~ Begin(a, overwrite)
  BY DEF Begin
<1>5. CASE GetDownloadUrls
  <2> DEFINE a == attempt.url
             found == {ix \in Indices(a) : Holders(a, ix) # {}}
             there == IF IsWholeFile(a) THEN "whole" ELSE "shards"
  <2>1. CASE Ends("failed")
    BY <1>2, <2>1
  <2>2. ASSUME NEW D \in SUBSET found, NEW m \in [D -> Provider],
               attempt' = [attempt EXCEPT !.pc = there, !.urlMap = m, !.waiting = D]
        PROVE  Steps' < Steps
    <3>1. a \in Url /\ At("lookup")
      BY <1>5 DEF GetDownloadUrls, TypeInv, ShardsInv, At, Resting
    <3>2. /\ Cardinality(D) \in Nat /\ Cardinality(Indices(a)) \in Nat
          /\ Cardinality(D) <= Cardinality(Indices(a))
      <4>1. D \subseteq Indices(a) /\ IsFiniteSet(Indices(a))
        BY <3>1, IndicesFacts
      <4> QED
        BY <4>1, FS_Subset, FS_CardinalityType
    <3>3. there \in {"whole", "shards"}
      OBVIOUS
    <3> HIDE DEF there, found, a
    <3>4. attempt'.pc = there /\ attempt'.waiting = D
      BY <1>1, <2>2 DEF AttemptType
    <3>5. Steps = Cardinality(Indices(a)) + 5
      BY <3>1 DEF Steps, At, a
    <3>6. Steps' = 2 \/ Steps' = Cardinality(D) + 4
      BY <3>3, <3>4 DEF Steps, At, Resting
    <3> QED
      BY <3>2, <3>5, <3>6
  <2> QED
    BY <1>5, <2>1, <2>2 DEF GetDownloadUrls
<1>6. CASE CreateWhole
  <2>1. ASSUME Goes("copy") PROVE Steps' = 1
    <3>1. attempt'.pc = "copy"
      BY <1>1, <2>1, GoesFacts DEF PlaceType
    <3> QED
      BY <3>1 DEF Steps, At, Resting
  <2>2. Steps = 2
    BY <1>6 DEF CreateWhole, Steps, At
  <2> QED
    BY <1>2, <1>6, <2>1, <2>2 DEF CreateWhole
<1>7. CASE CopyWhole
  BY <1>2, <1>7 DEF CopyWhole
<1>8. ASSUME NEW ix \in attempt.waiting, downloadShard(ix) PROVE Steps' < Steps
  <2>1. attempt'.pc = "shards" /\ attempt'.waiting = attempt.waiting \ {ix}
    BY <1>1, <1>8 DEF downloadShard, At, AttemptType
  <2>2. Steps' = Cardinality(attempt.waiting \ {ix}) + 4
    BY <2>1 DEF Steps, At, Resting
  <2>3. Steps = Cardinality(attempt.waiting) + 4
    BY <1>8 DEF Steps, At, downloadShard
  <2>4. Cardinality(attempt.waiting \ {ix}) = Cardinality(attempt.waiting) - 1
    BY WaitingFacts
  <2> QED
    BY <1>1, <2>2, <2>3, <2>4
<1>9. CASE StoreShards
  <2>1. Ends("failed") \/ attempt'.pc = "create"
    BY <1>1, <1>9 DEF StoreShards, AttemptType
  <2>2. attempt'.pc = "create" => Steps' = 3
    BY DEF Steps, At, Resting
  <2>3. Steps = Cardinality(attempt.waiting) + 4
    BY <1>9 DEF StoreShards, Steps, At
  <2> QED
    BY <1>1, <1>2, <2>1, <2>2, <2>3
<1>10. CASE CreateSharded
  <2>1. ASSUME Goes("decode") PROVE Steps' = 2
    <3>1. attempt'.pc = "decode"
      BY <1>1, <2>1, GoesFacts DEF PlaceType
    <3> QED
      BY <3>1 DEF Steps, At, Resting
  <2>2. Steps = 3
    BY <1>10 DEF CreateSharded, Steps, At
  <2> QED
    BY <1>2, <1>10, <2>1, <2>2 DEF CreateSharded
<1>11. CASE Decode
  <2>1. ASSUME Goes("write") PROVE Steps' = 1
    <3>1. attempt'.pc = "write"
      BY <1>1, <2>1, GoesFacts DEF PlaceType
    <3> QED
      BY <3>1 DEF Steps, At, Resting
  <2>2. Steps = 2
    BY <1>11 DEF Decode, Steps, At
  <2> QED
    BY <1>2, <1>11, <2>1, <2>2 DEF Decode
<1>13. CASE WriteSharded
  BY <1>2, <1>13 DEF WriteSharded
<1>12. CASE Kill
  BY <1>2, <1>12 DEF Kill
<1> QED
  BY <1>3, <1>4, <1>5, <1>6, <1>7, <1>8, <1>9, <1>10, <1>11, <1>12, <1>13 DEF Next

(* No download goes on for ever or gets stuck, whatever the DHT and the    *)
(* providers answer, or that they answer late: each step uses up one of at *)
(* most as many as there are shards in the URL and five, what is announced *)
(* meanwhile adds none, and the shards that came are enough, too few, or   *)
(* not of one container.                                                   *)
THEOREM DownloadShrinks ==
    Spec => /\ []AttemptAble
            /\ [](Steps \in Nat)
            /\ [][~ Resting => Steps' < Steps \/ UNCHANGED <<file, attempt>>]_vars
<1>1. TypeInv => Steps \in Nat
  <2> SUFFICES ASSUME TypeInv PROVE Steps \in Nat
    OBVIOUS
  <2>1. /\ Cardinality(attempt.waiting) \in Nat
        /\ ~ Resting => Cardinality(Indices(attempt.url)) \in Nat
        /\ attempt \in AttemptType
    BY WaitingFacts DEF TypeInv
  <2> QED
    BY <2>1 DEF Steps, At, Resting, AttemptType, PlaceType
<1>2. TypeInv /\ [Next]_vars =>
        [~ Resting => Steps' < Steps \/ UNCHANGED <<file, attempt>>]_vars
  BY StepsShrink
<1> QED
  BY <1>1, <1>2, AbleFacts, TypeAlways, PTL DEF Spec
=============================================================================
