------------------------ MODULE UploadPipelineProofs ------------------------
(***************************************************************************)
(* Theorems about UploadPipeline, for every value of its constants, and the*)
(* proof that every step of it is a step of UploadLifecycle or changes     *)
(* nothing there, for any number of uploads, paths and restarts.           *)
(***************************************************************************)
EXTENDS UploadRefinement, TLAPS, SequenceTheorems

-----------------------------------------------------------------------------
(* The sequence operations of the verifier.                                *)

LEMMA RemoveAtFacts ==
    ASSUME NEW S, NEW s \in Seq(S), NEW i \in 1 .. Len(s)
    PROVE  /\ RemoveAt(s, i) \in Seq(S)
           /\ Len(RemoveAt(s, i)) = Len(s) - 1
           /\ \A j \in 1 .. Len(s) - 1 :
                RemoveAt(s, i)[j] = IF j < i THEN s[j] ELSE s[j + 1]
<1> DEFINE a == SubSeq(s, 1, i - 1)
           b == SubSeq(s, i + 1, Len(s))
<1>1. a \in Seq(S) /\ Len(a) = i - 1 /\ \A j \in 1 .. i - 1 : a[j] = s[j]
  OBVIOUS
<1>2. b \in Seq(S) /\ Len(b) = Len(s) - i /\ \A j \in 1 .. Len(s) - i : b[j] = s[i + j]
  OBVIOUS
<1>3. RemoveAt(s, i) = a \o b
  BY DEF RemoveAt
<1> HIDE DEF a, b
<1>4. Len(s) \in Nat /\ i \in Nat
  OBVIOUS
<1>5. a \o b \in Seq(S) /\ Len(a \o b) = Len(s) - 1
  <2>1. a \o b \in Seq(S) /\ Len(a \o b) = Len(a) + Len(b)
    BY <1>1, <1>2, ConcatProperties
  <2> QED
    BY <1>1, <1>2, <1>4, <2>1
<1>6. ASSUME NEW j \in 1 .. Len(s) - 1
      PROVE  (a \o b)[j] = IF j < i THEN s[j] ELSE s[j + 1]
  <2>1. (a \o b)[j] = IF j <= Len(a) THEN a[j] ELSE b[j - Len(a)]
    BY <1>1, <1>2, <1>4, ConcatProperties
  <2>2. CASE j < i
    BY <1>1, <1>4, <2>1, <2>2
  <2>3. CASE j >= i
    <3>1. j - (i - 1) \in 1 .. Len(s) - i /\ i + (j - (i - 1)) = j + 1
      BY <1>4, <2>3
    <3> QED
      BY <1>1, <1>2, <1>4, <2>1, <2>3, <3>1
  <2>4. j < i \/ j >= i
    BY <1>4
  <2> QED
    BY <2>2, <2>3, <2>4
<1> QED
  BY <1>3, <1>5, <1>6

LEMMA TailFacts ==
    ASSUME NEW S, NEW s \in Seq(S), s # <<>>
    PROVE  /\ Len(s) \in Nat /\ Len(s) > 0
           /\ Head(s) \in S /\ Head(s) = s[1]
           /\ Tail(s) \in Seq(S)
           /\ Len(Tail(s)) = Len(s) - 1
           /\ \A i \in 1 .. Len(s) - 1 : Tail(s)[i] = s[i + 1]
BY HeadTailProperties, EmptySeq

(* The same operations, seen as operations on the set of the entries.      *)

LEMMA AppendEntries ==
    ASSUME NEW S, NEW s \in Seq(S), IsInjective(s), NEW u \in S, u \notin ToSet(s)
    PROVE  IsInjective(Append(s, u)) /\ ToSet(Append(s, u)) = ToSet(s) \cup {u}
<1> DEFINE t == Append(s, u)
<1>1. /\ Len(s) \in Nat
      /\ DOMAIN s = 1 .. Len(s)
      /\ DOMAIN t = 1 .. Len(s) + 1
      /\ \A i \in 1 .. Len(s) : t[i] = s[i]
      /\ t[Len(s) + 1] = u
  BY AppendProperties
<1> HIDE DEF t
<1>2. ToSet(t) = ToSet(s) \cup {u}
  <2>1. ASSUME NEW i \in DOMAIN t PROVE t[i] \in ToSet(s) \cup {u}
    <3>1. i \in 1 .. Len(s) \/ i = Len(s) + 1
      BY <1>1
    <3> QED
      BY <1>1, <3>1 DEF ToSet
  <2>2. ASSUME NEW i \in DOMAIN s PROVE i \in DOMAIN t /\ t[i] = s[i]
    BY <1>1
  <2>3. Len(s) + 1 \in DOMAIN t
    BY <1>1
  <2> QED
    BY <1>1, <2>1, <2>2, <2>3 DEF ToSet
<1>3. IsInjective(t)
  <2> SUFFICES ASSUME NEW i \in DOMAIN t, NEW j \in DOMAIN t, t[i] = t[j] PROVE i = j
    BY DEF IsInjective
  <2>1. \A k \in DOMAIN s : s[k] # u
    BY DEF ToSet
  <2> QED
    BY <1>1, <2>1 DEF IsInjective
<1> QED
  BY <1>2, <1>3 DEF t

LEMMA RemoveAtEntries ==
    ASSUME NEW S, NEW s \in Seq(S), IsInjective(s), NEW i \in 1 .. Len(s)
    PROVE  IsInjective(RemoveAt(s, i)) /\ ToSet(RemoveAt(s, i)) = ToSet(s) \ {s[i]}
<1> DEFINE t == RemoveAt(s, i)
<1>1. /\ Len(s) \in Nat
      /\ DOMAIN s = 1 .. Len(s)
      /\ DOMAIN t = 1 .. Len(s) - 1
      /\ \A j \in 1 .. Len(s) - 1 : t[j] = IF j < i THEN s[j] ELSE s[j + 1]
  BY RemoveAtFacts
<1> HIDE DEF t
<1>2. \A j, k \in 1 .. Len(s) : s[j] = s[k] => j = k
  BY <1>1 DEF IsInjective
<1>3. ToSet(t) = ToSet(s) \ {s[i]}
  <2>1. ASSUME NEW j \in DOMAIN t PROVE t[j] \in ToSet(s) \ {s[i]}
    <3> DEFINE k == IF j < i THEN j ELSE j + 1
    <3>1. k \in 1 .. Len(s) /\ k # i /\ t[j] = s[k]
      BY <1>1
    <3> QED
      BY <1>1, <1>2, <3>1 DEF ToSet
  <2>2. ASSUME NEW k \in DOMAIN s, s[k] # s[i] PROVE \E j \in DOMAIN t : t[j] = s[k]
    <3>1. k \in 1 .. Len(s) /\ k # i
      BY <1>1, <2>2
    <3>2. CASE k < i
      BY <1>1, <3>1, <3>2
    <3>3. CASE k > i
      <4>1. k - 1 \in DOMAIN t /\ t[k - 1] = s[k]
        BY <1>1, <3>1, <3>3
      <4> QED
        BY <4>1
    <3> QED
      BY <1>1, <3>1, <3>2, <3>3
  <2> QED
    BY <2>1, <2>2 DEF ToSet
<1>4. IsInjective(t)
  BY <1>1, <1>2 DEF IsInjective
<1> QED
  BY <1>3, <1>4 DEF t

LEMMA TailEntries ==
    ASSUME NEW S, NEW s \in Seq(S), IsInjective(s), s # <<>>
    PROVE  /\ Head(s) \in ToSet(s)
           /\ IsInjective(Tail(s))
           /\ ToSet(Tail(s)) = ToSet(s) \ {Head(s)}
<1>1. Len(s) \in Nat /\ Len(s) > 0 /\ DOMAIN s = 1 .. Len(s) /\ Head(s) = s[1]
  BY TailFacts
<1>2. 1 \in 1 .. Len(s)
  BY <1>1
<1>3. RemoveAt(s, 1) \in Seq(S) /\ Len(RemoveAt(s, 1)) = Len(s) - 1
  BY <1>2, RemoveAtFacts
<1>4. \A i \in 1 .. Len(s) - 1 : RemoveAt(s, 1)[i] = Tail(s)[i]
  BY <1>2, TailFacts, RemoveAtFacts
<1>5. Tail(s) = RemoveAt(s, 1)
  BY <1>3, <1>4, TailFacts, SeqEqual
<1>6. Head(s) \in ToSet(s)
  BY <1>1, <1>2 DEF ToSet
<1>7. IsInjective(RemoveAt(s, 1)) /\ ToSet(RemoveAt(s, 1)) = ToSet(s) \ {s[1]}
  BY <1>2, RemoveAtEntries
<1> QED
  BY <1>1, <1>5, <1>6, <1>7

LEMMA ConcatEntries ==
    ASSUME NEW S, NEW s \in Seq(S), NEW t \in Seq(S), IsInjective(s), IsInjective(t),
           ToSet(s) \cap ToSet(t) = {}
    PROVE  /\ s \o t \in Seq(S)
           /\ IsInjective(s \o t)
           /\ ToSet(s \o t) = ToSet(s) \cup ToSet(t)
<1> DEFINE c == s \o t
<1>1. /\ c \in Seq(S)
      /\ Len(s) \in Nat /\ DOMAIN s = 1 .. Len(s)
      /\ Len(t) \in Nat /\ DOMAIN t = 1 .. Len(t)
      /\ DOMAIN c = 1 .. Len(s) + Len(t)
      /\ \A i \in 1 .. Len(s) + Len(t) :
           c[i] = IF i <= Len(s) THEN s[i] ELSE t[i - Len(s)]
  BY ConcatProperties
<1> HIDE DEF c
<1>2. ASSUME NEW i \in DOMAIN c
      PROVE  \/ i \in DOMAIN s /\ c[i] = s[i] /\ c[i] \in ToSet(s)
             \/ i - Len(s) \in DOMAIN t /\ i > Len(s) /\ c[i] = t[i - Len(s)] /\ c[i] \in ToSet(t)
  BY <1>1 DEF ToSet
<1>3. ToSet(c) = ToSet(s) \cup ToSet(t)
  <2>1. ASSUME NEW i \in DOMAIN s PROVE i \in DOMAIN c /\ c[i] = s[i]
    BY <1>1
  <2>2. ASSUME NEW i \in DOMAIN t PROVE i + Len(s) \in DOMAIN c /\ c[i + Len(s)] = t[i]
    BY <1>1
  <2>3. ToSet(c) \subseteq ToSet(s) \cup ToSet(t)
    BY <1>2 DEF ToSet
  <2>4. ToSet(s) \subseteq ToSet(c)
    BY <2>1 DEF ToSet
  <2>5. ToSet(t) \subseteq ToSet(c)
    BY <2>2 DEF ToSet
  <2> QED
    BY <2>3, <2>4, <2>5
<1>4. IsInjective(c)
  <2> SUFFICES ASSUME NEW i \in DOMAIN c, NEW j \in DOMAIN c, c[i] = c[j] PROVE i = j
    BY DEF IsInjective
  <2>1. CASE i \in DOMAIN s /\ j \in DOMAIN s /\ c[i] = s[i] /\ c[j] = s[j]
    BY <2>1 DEF IsInjective
  <2>2. CASE /\ i - Len(s) \in DOMAIN t /\ c[i] = t[i - Len(s)]
             /\ j - Len(s) \in DOMAIN t /\ c[j] = t[j - Len(s)]
    <3>1. i - Len(s) = j - Len(s)
      BY <2>2 DEF IsInjective
    <3> QED
      BY <1>1, <3>1
  <2> QED
    BY <1>2, <2>1, <2>2
<1> QED
  BY <1>1, <1>3, <1>4 DEF c

-----------------------------------------------------------------------------
(* Type correctness.  Between Verify and the switch on its result there is *)
(* an entry to conclude; without that, the list could be empty there.      *)

EntryToConclude == verifier = "verified" => toVerify # <<>>

(* A handler runs only for a request that arrived.                         *)
Arrived == \A u \in Uploads : req[u] = None <=> handler[u] = "none"

TypeInv == TypeOK /\ EntryToConclude /\ Arrived

LEMMA TypeInit == Init => TypeInv
<1> SUFFICES ASSUME Init PROVE TypeInv
  OBVIOUS
<1>1. uploadsPendingChan \in Seq(Uploads) /\ toVerify \in Seq(Uploads) /\ remaining \in Seq(Uploads)
  BY EmptySeq DEF Init
<1>2. restarts \in 0 .. MaxRestarts
  BY ConstantsAssumption DEF Init
<1> QED
  BY <1>1, <1>2 DEF Init, TypeInv, TypeOK, EntryToConclude, Arrived, Content,
         OpenedBy, Part,
         Running, Ended

LEMMA RequestNotNone == ASSUME NEW r \in Request PROVE r # None
BY ConstantsAssumption

LEMMA PartChanged ==
    ASSUME NEW c \in Content, NEW b \in Uploads \cup {None}
    PROVE  [c EXCEPT !.payload = b] \in Content /\ [c EXCEPT !.trailer = b] \in Content
BY DEF Content

LEMMA HandlerTypes ==
    ASSUME TypeInv, NEW u \in Uploads, Receive(u) \/ HandlerStep(u)
    PROVE  TypeOK' /\ EntryToConclude'
<1> USE DEF TypeInv, TypeOK, EntryToConclude, Running, Ended,
            disk, queues, loop, results, world, Step
<1>1. CASE Receive(u)
  BY <1>1, RequestNotNone DEF Receive
<1>2. CASE OpenShard(u)
  <2> DEFINE node == IF dir[PathOf(u)] = None THEN u ELSE dir[PathOf(u)]
  <2>1. node \in Uploads
    BY <1>2, RequestNotNone DEF OpenShard, PathOf, Request, Arrived
  <2>2. /\ inode' = [inode EXCEPT ![node] = OpenedBy({v \in Uploads : fd[v] = node} \cup {u})]
        /\ dir' = [dir EXCEPT ![PathOf(u)] = node]
        /\ fd' = [fd EXCEPT ![u] = node]
    BY <1>2 DEF OpenShard
  <2>3. OpenedBy({v \in Uploads : fd[v] = node} \cup {u}) \in Content
    BY DEF OpenedBy, Content
  <2> HIDE DEF node
  <2>4. /\ inode' \in [Uploads -> Content]
        /\ dir' \in [Path -> Uploads \cup {None}]
        /\ fd' \in [Uploads -> Uploads \cup {None}]
    BY <2>1, <2>2, <2>3
  <2> QED
    BY <1>2, <2>4 DEF OpenShard
<1>3. CASE StorePayload(u)
  <2>1. PICK ok \in BOOLEAN :
           inode' = [inode EXCEPT ![fd[u]].payload = Bytes(u, ok)] /\ Ignored(u, ok, "payload")
    BY <1>3 DEF StorePayload
  <2>2. Bytes(u, ok) \in Uploads \cup {None}
    BY DEF Bytes
  <2>3. inode' \in [Uploads -> Content]
    <3>1. ASSUME NEW f \in Uploads PROVE [inode[f] EXCEPT !.payload = Bytes(u, ok)] \in Content
      BY <2>2, PartChanged
    <3>2. ASSUME NEW f \in Uploads PROVE inode'[f] \in Content
      <4>1. CASE f = fd[u]
        <5>1. inode'[f] = [inode[f] EXCEPT !.payload = Bytes(u, ok)]
          BY <2>1, <4>1
        <5> QED
          BY <3>1, <5>1
      <4>2. CASE f # fd[u]
        BY <2>1, <4>2
      <4> QED
        BY <4>1, <4>2
    <3>3. inode' = [f \in Uploads |-> inode'[f]]
      BY <2>1
    <3> QED
      BY <3>2, <3>3
  <2>4. unwritten' \in [Uploads -> SUBSET Part]
    BY <2>1 DEF Ignored, Part
  <2> QED
    BY <1>3, <2>3, <2>4 DEF StorePayload
<1>4. CASE StoreSignatures(u)
  <2>1. PICK ok \in BOOLEAN :
           inode' = [inode EXCEPT ![fd[u]].trailer = Bytes(u, ok)] /\ Ignored(u, ok, "trailer")
    BY <1>4 DEF StoreSignatures
  <2>2. Bytes(u, ok) \in Uploads \cup {None}
    BY DEF Bytes
  <2>3. inode' \in [Uploads -> Content]
    <3>1. ASSUME NEW f \in Uploads PROVE [inode[f] EXCEPT !.trailer = Bytes(u, ok)] \in Content
      BY <2>2, PartChanged
    <3>2. ASSUME NEW f \in Uploads PROVE inode'[f] \in Content
      <4>1. CASE f = fd[u]
        <5>1. inode'[f] = [inode[f] EXCEPT !.trailer = Bytes(u, ok)]
          BY <2>1, <4>1
        <5> QED
          BY <3>1, <5>1
      <4>2. CASE f # fd[u]
        BY <2>1, <4>2
      <4> QED
        BY <4>1, <4>2
    <3>3. inode' = [f \in Uploads |-> inode'[f]]
      BY <2>1
    <3> QED
      BY <3>2, <3>3
  <2>4. unwritten' \in [Uploads -> SUBSET Part]
    BY <2>1 DEF Ignored, Part
  <2> QED
    BY <1>4, <2>3, <2>4 DEF StoreSignatures
<1>5. CASE RefuseShard(u) \/ CheckExists(u) \/ FailWhole(u)
  BY <1>5 DEF RefuseShard, CheckExists, FailWhole
<1>6. CASE FailShard(u)
  BY <1>6 DEF FailShard
<1>7. CASE StoreTemp(u)
  BY <1>7 DEF StoreTemp, Content, Ignored, Part
<1>8. CASE Rename(u)
  BY <1>8 DEF Rename
<1>9. CASE RegisterPendingUpload(u)
  BY <1>9, AppendProperties DEF RegisterPendingUpload
<1> QED
  BY <1>1, <1>2, <1>3, <1>4, <1>5, <1>6, <1>7, <1>8, <1>9 DEF HandlerStep

LEMMA HandlerArrived ==
    ASSUME TypeInv, NEW u \in Uploads, Receive(u) \/ HandlerStep(u)
    PROVE  Arrived'
<1> USE DEF TypeInv, TypeOK, Arrived
<1>1. CASE Receive(u)
  BY <1>1, RequestNotNone DEF Receive, Step
<1>2. ASSUME HandlerStep(u)
      PROVE  /\ UNCHANGED req
             /\ handler[u] # "none"
             /\ \E h \in Running \cup Ended : handler' = [handler EXCEPT ![u] = h]
  BY <1>2 DEF HandlerStep, OpenShard, StorePayload, StoreSignatures, RefuseShard, FailShard,
              StoreTemp, CheckExists, Rename, FailWhole, RegisterPendingUpload, Step,
              Running, Ended
<1> QED
  BY <1>1, <1>2 DEF Running, Ended

LEMMA VerifierTypes ==
    ASSUME TypeInv, VerifierStep
    PROVE  TypeInv'
<1> USE DEF TypeInv, TypeOK, EntryToConclude, Arrived, disk, queues, loop, results, world
<1>1. CASE TakePending
  <2> DEFINE u == Head(uploadsPendingChan)
  <2>1. u \in Uploads /\ uploadsPendingChan' \in Seq(Uploads)
    BY <1>1, TailFacts DEF TakePending
  <2>2. CASE toVerify' = Append(toVerify, u) /\ UNCHANGED outcome
    BY <1>1, <2>1, <2>2, AppendProperties DEF TakePending
  <2>3. ASSUME NEW i \in DOMAIN toVerify,
               toVerify' = Append(RemoveAt(toVerify, i), u),
               outcome' = [outcome EXCEPT ![toVerify[i]] = "superseded"]
        PROVE  TypeInv'
    <3>1. i \in 1 .. Len(toVerify)
      OBVIOUS
    <3>2. toVerify' \in Seq(Uploads)
      BY <2>1, <2>3, <3>1, RemoveAtFacts, AppendProperties
    <3> QED
      BY <1>1, <2>1, <2>3, <3>2 DEF TakePending
  <2> QED
    BY <1>1, <2>2, <2>3 DEF TakePending
<1>2. CASE StartPass
  BY <1>2 DEF StartPass
<1>3. CASE Verify
  BY <1>3, TailFacts DEF Verify, Verdicts
<1>4. CASE ConcludeOK
  BY <1>4, TailFacts DEF ConcludeOK, Conclude, Settle
<1>5. CASE ConcludeRemove
  BY <1>5, TailFacts DEF ConcludeRemove, Conclude, Settle
<1>6. CASE ConcludeRetry
  BY <1>6, TailFacts, AppendProperties DEF ConcludeRetry, Conclude
<1>7. CASE EndPass
  BY <1>7, EmptySeq DEF EndPass
<1> QED
  BY <1>1, <1>2, <1>3, <1>4, <1>5, <1>6, <1>7 DEF VerifierStep

LEMMA TypeStep == TypeInv /\ [Next]_vars => TypeInv'
<1> SUFFICES ASSUME TypeInv, [Next]_vars PROVE TypeInv'
  OBVIOUS
<1> USE DEF TypeInv, TypeOK, EntryToConclude, Arrived, disk, queues, loop, results, world
<1>1. ASSUME NEW u \in Uploads, AcceptTx(u) \/ PassTenMinutes(u) PROVE TypeInv'
  BY <1>1 DEF AcceptTx, PassTenMinutes
<1>2. CASE Restart
  BY <1>2, EmptySeq, ConstantsAssumption DEF Restart, Running, Ended
<1>3. CASE UNCHANGED vars
  BY <1>3 DEF vars
<1> QED
  BY <1>1, <1>2, <1>3, HandlerTypes, HandlerArrived, VerifierTypes DEF Next

(* Every variable keeps its type, for any number of uploads and paths, any *)
(* queue capacity and any number of restarts.                              *)
THEOREM TypeCorrect == Spec => []TypeOK
<1>1. Spec => []TypeInv
  BY TypeInit, TypeStep, PTL DEF Spec
<1>2. TypeInv => TypeOK
  BY DEF TypeInv
<1> QED
  BY <1>1, <1>2, PTL

-----------------------------------------------------------------------------
(* The queues.  Every upload that waits for its result is in exactly one   *)
(* of them, once.                                                          *)

Waiting == {u \in Uploads : handler[u] = "registered" /\ outcome[u] = "none"}

QueueInv ==
    /\ IsInjective(uploadsPendingChan)
    /\ IsInjective(toVerify)
    /\ IsInjective(remaining)
    /\ ToSet(uploadsPendingChan) \cup ToSet(toVerify) \cup ToSet(remaining) = Waiting
    /\ ToSet(uploadsPendingChan) \cap ToSet(toVerify) = {}
    /\ ToSet(uploadsPendingChan) \cap ToSet(remaining) = {}
    /\ ToSet(toVerify) \cap ToSet(remaining) = {}
    /\ verifier = "select" => remaining = <<>>

(* A result is final, and only uploads that were registered have one.      *)
ResultsOfRegistered == \A u \in Uploads : outcome[u] # "none" => handler[u] = "registered"

QInv == TypeInv /\ QueueInv /\ ResultsOfRegistered

LEMMA EmptyEntries == IsInjective(<<>>) /\ ToSet(<<>>) = {}
BY DEF IsInjective, ToSet

LEMMA QueueInit == Init => QueueInv /\ ResultsOfRegistered
<1> SUFFICES ASSUME Init PROVE QueueInv /\ ResultsOfRegistered
  OBVIOUS
<1>1. Waiting = {}
  BY DEF Init, Waiting
<1> QED
  BY <1>1, EmptyEntries DEF Init, QueueInv, ResultsOfRegistered

(* A handler that has not sent its pending upload leaves the queues alone. *)
LEMMA HandlerQueues ==
    ASSUME QInv, NEW u \in Uploads, Receive(u) \/ HandlerStep(u)
    PROVE  QueueInv' /\ ResultsOfRegistered'
<1> USE DEF QInv, TypeInv, TypeOK
<1>1. CASE RegisterPendingUpload(u)
  <2>1. handler[u] = "written" /\ handler' = [handler EXCEPT ![u] = "registered"]
        /\ uploadsPendingChan' = Append(uploadsPendingChan, u)
        /\ UNCHANGED <<toVerify, remaining, verifier, outcome>>
    BY <1>1 DEF RegisterPendingUpload, Step, loop, results
  <2>2. u \notin Waiting /\ outcome[u] = "none"
    BY <2>1 DEF Waiting, ResultsOfRegistered
  <2>3. Waiting' = Waiting \cup {u}
    BY <2>1, <2>2 DEF Waiting
  <2>4. IsInjective(uploadsPendingChan')
        /\ ToSet(uploadsPendingChan') = ToSet(uploadsPendingChan) \cup {u}
    BY <2>1, <2>2, AppendEntries DEF QueueInv
  <2>5. QueueInv'
    BY <2>1, <2>2, <2>3, <2>4 DEF QueueInv
  <2> QED
    BY <2>1, <2>5 DEF ResultsOfRegistered
<1>2. ASSUME UNCHANGED <<queues, verifier, outcome>>,
             NEW h \in ({"none"} \cup Running \cup Ended) \ {"registered"},
             handler' = [handler EXCEPT ![u] = h], handler[u] # "registered"
      PROVE  QueueInv' /\ ResultsOfRegistered'
  <2>1. Waiting' = Waiting
    BY <1>2 DEF Waiting
  <2> QED
    BY <1>2, <2>1 DEF QueueInv, ResultsOfRegistered, queues
<1>3. ASSUME Receive(u) \/ (HandlerStep(u) /\ ~RegisterPendingUpload(u))
      PROVE  /\ UNCHANGED <<queues, verifier, outcome>>
             /\ handler[u] # "registered"
             /\ \E h \in ({"none"} \cup Running \cup Ended) \ {"registered"} :
                  handler' = [handler EXCEPT ![u] = h]
  BY <1>3 DEF HandlerStep, Receive, OpenShard, StorePayload, StoreSignatures, RefuseShard,
              FailShard, StoreTemp, CheckExists, Rename, FailWhole, Step, Running, Ended,
              loop, results
<1> QED
  BY <1>1, <1>2, <1>3

LEMMA VerifierQueues ==
    ASSUME QInv, VerifierStep
    PROVE  QueueInv' /\ ResultsOfRegistered'
<1> USE DEF QInv, TypeInv, TypeOK
<1>1. CASE TakePending
  <2> DEFINE u == Head(uploadsPendingChan)
  <2>1. /\ u \in Uploads
        /\ uploadsPendingChan # <<>>
        /\ uploadsPendingChan' = Tail(uploadsPendingChan)
        /\ UNCHANGED <<handler, remaining, verifier>>
    BY <1>1, TailFacts DEF TakePending, loop
  <2>2. /\ u \in ToSet(uploadsPendingChan)
        /\ IsInjective(uploadsPendingChan')
        /\ ToSet(uploadsPendingChan') = ToSet(uploadsPendingChan) \ {u}
    BY <2>1, TailEntries DEF QueueInv
  <2>3. u \notin ToSet(toVerify) /\ u \in Waiting
    BY <2>2 DEF QueueInv
  <2>4. CASE toVerify' = Append(toVerify, u) /\ UNCHANGED outcome
    <3>1. IsInjective(toVerify') /\ ToSet(toVerify') = ToSet(toVerify) \cup {u}
      BY <2>1, <2>3, <2>4, AppendEntries DEF QueueInv
    <3>2. Waiting' = Waiting
      BY <2>1, <2>4 DEF Waiting
    <3> QED
      BY <2>1, <2>2, <2>4, <3>1, <3>2 DEF QueueInv, ResultsOfRegistered
  <2>5. ASSUME NEW i \in DOMAIN toVerify,
               toVerify' = Append(RemoveAt(toVerify, i), u),
               outcome' = [outcome EXCEPT ![toVerify[i]] = "superseded"]
        PROVE  QueueInv' /\ ResultsOfRegistered'
    <3> DEFINE v == toVerify[i]
               rest == RemoveAt(toVerify, i)
    <3>1. i \in 1 .. Len(toVerify) /\ v \in Uploads
      OBVIOUS
    <3>2. v \in ToSet(toVerify) /\ v \in Waiting
      BY DEF ToSet, QueueInv
    <3>3. rest \in Seq(Uploads) /\ IsInjective(rest) /\ ToSet(rest) = ToSet(toVerify) \ {v}
      BY <3>1, RemoveAtFacts, RemoveAtEntries DEF QueueInv
    <3>4. IsInjective(toVerify') /\ ToSet(toVerify') = (ToSet(toVerify) \ {v}) \cup {u}
      <4> HIDE DEF v, rest
      <4> QED BY <2>1, <2>3, <2>5, <3>3, AppendEntries DEF rest
    <3>5. Waiting' = Waiting \ {v}
      BY <2>1, <2>5, <3>1 DEF Waiting
    <3>6. handler[v] = "registered"
      BY <3>2 DEF Waiting
    <3>7. ResultsOfRegistered'
      BY <2>1, <2>5, <3>1, <3>6 DEF ResultsOfRegistered
    <3> HIDE DEF v, rest
    <3>8. ToSet(remaining') = ToSet(remaining) /\ v # u
      BY <2>1, <2>3, <3>2
    <3> QED
      BY <2>1, <2>2, <2>3, <3>2, <3>4, <3>5, <3>7, <3>8 DEF QueueInv
  <2> QED
    BY <1>1, <2>4, <2>5 DEF TakePending
<1>2. CASE StartPass \/ Verify
  <2>1. Waiting' = Waiting
    BY <1>2 DEF StartPass, Verify, results, Waiting
  <2> QED
    BY <1>2, <2>1 DEF StartPass, Verify, queues, results, QueueInv, ResultsOfRegistered
<1>3. ASSUME verifier = "verified"
      PROVE  LET u == Head(toVerify)
             IN  /\ u \in Uploads
                 /\ u \in ToSet(toVerify)
                 /\ u \in Waiting
                 /\ IsInjective(Tail(toVerify))
                 /\ ToSet(Tail(toVerify)) = ToSet(toVerify) \ {u}
  <2>1. toVerify # <<>>
    BY <1>3 DEF EntryToConclude
  <2> QED
    BY <2>1, TailFacts, TailEntries DEF QueueInv
<1>4. CASE ConcludeOK \/ ConcludeRemove
  <2> DEFINE u == Head(toVerify)
  <2>1. /\ verifier = "verified"
        /\ verifier' = "pass"
        /\ status # "none"
        /\ toVerify' = Tail(toVerify)
        /\ outcome' = [outcome EXCEPT ![u] = status]
        /\ UNCHANGED <<handler, uploadsPendingChan, remaining>>
    BY <1>4 DEF ConcludeOK, ConcludeRemove, Conclude, Settle
  <2>2. Waiting' = Waiting \ {u}
    BY <1>3, <2>1 DEF Waiting
  <2>3. handler[u] = "registered"
    BY <1>3, <2>1 DEF Waiting
  <2>4. ResultsOfRegistered'
    BY <1>3, <2>1, <2>3 DEF ResultsOfRegistered
  <2>5. QueueInv'
    BY <1>3, <2>1, <2>2 DEF QueueInv
  <2> QED
    BY <2>4, <2>5
<1>5. CASE ConcludeRetry
  <2> DEFINE u == Head(toVerify)
  <2>1. /\ verifier = "verified"
        /\ verifier' = "pass"
        /\ toVerify' = Tail(toVerify)
        /\ remaining' = Append(remaining, u)
        /\ UNCHANGED <<handler, uploadsPendingChan, outcome>>
    BY <1>5 DEF ConcludeRetry, Conclude
  <2>2. Waiting' = Waiting
    BY <2>1 DEF Waiting
  <2>3. u \notin ToSet(remaining)
    BY <1>3, <2>1 DEF QueueInv
  <2>4. IsInjective(remaining') /\ ToSet(remaining') = ToSet(remaining) \cup {u}
    BY <1>3, <2>1, <2>3, AppendEntries DEF QueueInv
  <2> QED
    BY <1>3, <2>1, <2>2, <2>4 DEF QueueInv, ResultsOfRegistered
<1>6. CASE EndPass
  <2>1. Waiting' = Waiting
    BY <1>6 DEF EndPass, results, Waiting
  <2> QED
    BY <1>6, <2>1, EmptyEntries DEF EndPass, results, QueueInv, ResultsOfRegistered
<1> QED
  BY <1>1, <1>2, <1>4, <1>5, <1>6 DEF VerifierStep

LEMMA QueueStep == QInv /\ [Next]_vars => QInv'
<1> SUFFICES ASSUME QInv, [Next]_vars PROVE QInv'
  OBVIOUS
<1>1. TypeInv'
  BY TypeStep DEF QInv
<1>2. CASE UNCHANGED <<handler, outcome, queues, verifier>>
  <2>1. Waiting' = Waiting
    BY <1>2 DEF Waiting
  <2> QED
    BY <1>1, <1>2, <2>1 DEF QInv, QueueInv, ResultsOfRegistered, queues
<1>3. CASE Restart
  <2>1. Waiting' = {}
    <3>1. ASSUME NEW u \in Uploads, handler'[u] = "registered", outcome'[u] = "none" PROVE FALSE
      BY <1>3, <3>1 DEF Restart, Running
    <3> QED
      BY <3>1 DEF Waiting
  <2>2. QueueInv'
    BY <1>3, <2>1, EmptyEntries DEF Restart, QueueInv
  <2>3. ResultsOfRegistered'
    BY <1>3 DEF Restart, QInv, ResultsOfRegistered, Running
  <2> QED
    BY <1>1, <2>2, <2>3 DEF QInv
<1>4. ASSUME NEW u \in Uploads, AcceptTx(u) \/ PassTenMinutes(u)
      PROVE  UNCHANGED <<handler, outcome, queues, verifier>>
  BY <1>4 DEF AcceptTx, PassTenMinutes, queues, loop, results
<1>5. UNCHANGED vars => UNCHANGED <<handler, outcome, queues, verifier>>
  BY DEF vars, queues, loop, results
<1> QED
  BY <1>1, <1>2, <1>3, <1>4, <1>5, HandlerQueues, VerifierQueues DEF Next, QInv

LEMMA QueuesCorrect == Spec => []QInv
<1>1. Init => QInv
  BY TypeInit, QueueInit DEF QInv
<1> QED
  BY <1>1, QueueStep, PTL DEF Spec

(* No upload is lost between its handler and its result, or queued twice,  *)
(* while the process runs.                                                 *)
THEOREM NothingForgottenAlways == Spec => []NothingForgotten
<1>1. QInv => NothingForgotten
  <2> SUFFICES ASSUME QInv PROVE NothingForgotten
    OBVIOUS
  <2> USE DEF QInv, TypeInv, TypeOK, QueueInv
  <2> DEFINE front == uploadsPendingChan \o remaining
  <2>1. front \in Seq(Uploads) /\ IsInjective(front)
        /\ ToSet(front) = ToSet(uploadsPendingChan) \cup ToSet(remaining)
    BY ConcatEntries
  <2>2. ToSet(front) \cap ToSet(toVerify) = {}
    BY <2>1
  <2> HIDE DEF front
  <2>3. IsInjective(front \o toVerify) /\ ToSet(front \o toVerify) = ToSet(front) \cup ToSet(toVerify)
    BY <2>1, <2>2, ConcatEntries
  <2> QED
    BY <2>1, <2>3 DEF front, NothingForgotten, Waiting
<1> QED
  BY <1>1, QueuesCorrect, PTL

-----------------------------------------------------------------------------
(* The verifier's list holds one entry for a file.                         *)

Listed == ToSet(toVerify) \cup ToSet(remaining)
OnePerFile == \A u, v \in Listed : SameFile(u, v) => u = v

LEMMA ListedSteps ==
    ASSUME QInv, [Next]_vars
    PROVE  \/ Listed' \subseteq Listed
           \/ TakePending
<1> USE DEF QInv, TypeInv, TypeOK, QueueInv
<1>1. CASE UNCHANGED <<toVerify, remaining>>
  BY <1>1 DEF Listed
<1>2. CASE ConcludeOK \/ ConcludeRemove \/ ConcludeRetry
  <2>1. toVerify # <<>> /\ toVerify' = Tail(toVerify)
    BY <1>2 DEF ConcludeOK, ConcludeRemove, ConcludeRetry, Conclude, EntryToConclude
  <2>2. Head(toVerify) \in ToSet(toVerify) /\ ToSet(toVerify') = ToSet(toVerify) \ {Head(toVerify)}
    BY <2>1, TailEntries
  <2>3. CASE ConcludeRetry
    <3>1. Head(toVerify) \notin ToSet(remaining) /\ Head(toVerify) \in Uploads
      BY <2>1, <2>2, TailFacts
    <3>2. ToSet(remaining') = ToSet(remaining) \cup {Head(toVerify)}
      BY <2>3, <3>1, AppendEntries DEF ConcludeRetry
    <3> QED
      BY <2>2, <3>2 DEF Listed
  <2>4. CASE UNCHANGED remaining
    BY <2>2, <2>4 DEF Listed
  <2> QED
    BY <1>2, <2>3, <2>4 DEF ConcludeOK, ConcludeRemove
<1>3. CASE EndPass \/ Restart
  BY <1>3, EmptyEntries DEF EndPass, Restart, Listed
<1>4. ASSUME NEW u \in Uploads, Receive(u) \/ HandlerStep(u) \/ AcceptTx(u) \/ PassTenMinutes(u)
      PROVE  UNCHANGED <<toVerify, remaining>>
  BY <1>4 DEF HandlerStep, Receive, OpenShard, StorePayload, StoreSignatures, RefuseShard,
              FailShard, StoreTemp, CheckExists, Rename, FailWhole, RegisterPendingUpload,
              AcceptTx, PassTenMinutes, queues
<1>5. StartPass \/ Verify \/ UNCHANGED vars => UNCHANGED <<toVerify, remaining>>
  BY DEF StartPass, Verify, vars, queues
<1> QED
  BY <1>1, <1>2, <1>3, <1>4, <1>5 DEF Next, VerifierStep

(* The request of an upload that has arrived never changes.                *)
LEMMA RequestsFixed ==
    ASSUME TypeInv, [Next]_vars, NEW u \in Uploads, req[u] # None
    PROVE  req'[u] = req[u]
<1>1. ASSUME NEW v \in Uploads, Receive(v) PROVE req'[u] = req[u]
  BY <1>1 DEF Receive, Step, TypeInv, TypeOK, Arrived
<1>2. ASSUME NEW v \in Uploads, HandlerStep(v) \/ AcceptTx(v) \/ PassTenMinutes(v)
      PROVE  UNCHANGED req
  BY <1>2 DEF HandlerStep, OpenShard, StorePayload, StoreSignatures, RefuseShard,
              FailShard, StoreTemp, CheckExists, Rename, FailWhole, RegisterPendingUpload,
              AcceptTx, PassTenMinutes
<1>3. VerifierStep \/ Restart \/ UNCHANGED vars => UNCHANGED req
  BY DEF VerifierStep, TakePending, StartPass, Verify, ConcludeOK, ConcludeRemove,
         ConcludeRetry, Conclude, EndPass, Restart, vars
<1> QED
  BY <1>1, <1>2, <1>3 DEF Next

(* Removing the first match keeps one entry per file, whatever the order   *)
(* in which uploads for the same files are registered.                     *)
THEOREM OneEntryPerFileAlways == Spec => []OneEntryPerFile
<1> USE DEF QInv, TypeInv, TypeOK
<1>1. Init => OnePerFile
  BY EmptyEntries DEF Init, OnePerFile, Listed
<1>2. QInv /\ OnePerFile /\ [Next]_vars => OnePerFile'
  <2> SUFFICES ASSUME QInv, OnePerFile, [Next]_vars PROVE OnePerFile'
    OBVIOUS
  <2>1. ASSUME NEW u \in Uploads, NEW v \in Uploads, req[u] # None, req[v] # None
        PROVE  SameFile(u, v)' <=> SameFile(u, v)
    BY <2>1, RequestsFixed DEF SameFile, PathOf
  <2>2. ASSUME NEW u \in Waiting PROVE u \in Uploads /\ req[u] # None
    BY DEF Waiting, Arrived
  <2>3. Listed \subseteq Waiting
    BY DEF Listed, QueueInv
  <2>4. CASE Listed' \subseteq Listed
    BY <2>1, <2>2, <2>3, <2>4 DEF OnePerFile
  <2>5. CASE TakePending
    <3> DEFINE u == Head(uploadsPendingChan)
    <3>1. u \in Uploads /\ u \in ToSet(uploadsPendingChan) /\ verifier = "select"
      BY <2>5, TailFacts, TailEntries DEF TakePending, QueueInv
    <3>2. u \in Waiting /\ u \notin Listed /\ Listed = ToSet(toVerify) /\ Listed' = ToSet(toVerify')
      BY <2>5, <3>1, EmptyEntries DEF TakePending, QueueInv, Listed
    <3>3. ASSUME NEW rest, rest \subseteq Listed, Listed' = rest \cup {u},
                 \A v \in rest : ~SameFile(v, u)
          PROVE  OnePerFile'
      <4>1. \A v, w \in Listed' : SameFile(v, w) => v = w
        BY <3>3 DEF OnePerFile, SameFile
      <4> QED
        BY <2>1, <2>2, <2>3, <3>2, <3>3, <4>1 DEF OnePerFile
    <3>4. CASE /\ \A i \in DOMAIN toVerify : ~SameFile(toVerify[i], u)
               /\ toVerify' = Append(toVerify, u)
      <4>1. Listed' = ToSet(toVerify) \cup {u}
        BY <3>1, <3>2, <3>4, AppendEntries DEF QueueInv
      <4>2. \A v \in ToSet(toVerify) : ~SameFile(v, u)
        BY <3>4 DEF ToSet
      <4> QED
        BY <3>2, <3>3, <4>1, <4>2
    <3>5. ASSUME NEW i \in DOMAIN toVerify, FirstFor(u, i),
                 toVerify' = Append(RemoveAt(toVerify, i), u)
          PROVE  OnePerFile'
      <4> DEFINE rest == RemoveAt(toVerify, i)
      <4>1. i \in 1 .. Len(toVerify) /\ toVerify[i] \in ToSet(toVerify)
        BY DEF ToSet
      <4>2. rest \in Seq(Uploads) /\ IsInjective(rest)
            /\ ToSet(rest) = ToSet(toVerify) \ {toVerify[i]}
        BY <4>1, RemoveAtFacts, RemoveAtEntries DEF QueueInv
      <4> HIDE DEF rest
      <4>3. Listed' = ToSet(rest) \cup {u}
        BY <3>1, <3>2, <3>5, <4>2, AppendEntries DEF rest
      <4>4. SameFile(toVerify[i], u)
        BY <3>5 DEF FirstFor
      <4>5. \A v \in ToSet(rest) : ~SameFile(v, u)
        BY <3>2, <4>1, <4>2, <4>4 DEF OnePerFile, SameFile
      <4> QED
        BY <3>2, <3>3, <4>2, <4>3, <4>5
    <3> QED
      BY <2>5, <3>4, <3>5 DEF TakePending
  <2> QED
    BY <2>4, <2>5, ListedSteps
<1>3. QInv /\ OnePerFile => OneEntryPerFile
  <2> SUFFICES ASSUME QInv, OnePerFile PROVE OneEntryPerFile
    OBVIOUS
  <2> DEFINE list == remaining \o toVerify
  <2>1. IsInjective(list) /\ ToSet(list) = Listed
    BY ConcatEntries DEF QueueInv, Listed
  <2> HIDE DEF list
  <2>2. \A i \in DOMAIN list : list[i] \in Listed
    BY <2>1 DEF ToSet
  <2>3. \A i, j \in DOMAIN list : SameFile(list[i], list[j]) => i = j
    BY <2>1, <2>2 DEF OnePerFile, IsInjective
  <2> QED
    BY <2>3 DEF OneEntryPerFile, list
<1> HIDE DEF QInv, TypeInv, TypeOK
<1> QED
  BY <1>1, <1>2, <1>3, QueuesCorrect, PTL DEF Spec

-----------------------------------------------------------------------------
(* The announcements                                                       *)

Genuine(u) ==
    /\ handler[u] = "registered"
    /\ req[u] # None
    /\ Matches(u)
    /\ u \in txAccepted
    /\ u \in activity

(* The verdict that is about to be acted upon is that of its entry.        *)
VerdictSound == verifier = "verified" /\ status = "ok" => Genuine(Head(toVerify))

(* The handler of a registered upload has returned, and writes no more.    *)
LEMMA RegisteredStays ==
    ASSUME TypeInv, [Next]_vars, NEW u \in Uploads, handler[u] = "registered"
    PROVE  handler'[u] = "registered" /\ unwritten'[u] = unwritten[u]
<1> USE DEF TypeInv, TypeOK
<1>1. ASSUME NEW v \in Uploads, Receive(v) \/ HandlerStep(v)
      PROVE  /\ handler[v] # "registered"
             /\ \A w \in Uploads \ {v} : handler'[w] = handler[w] /\ unwritten'[w] = unwritten[w]
  BY <1>1 DEF HandlerStep, Receive, OpenShard, StorePayload, StoreSignatures, RefuseShard,
              FailShard, StoreTemp, CheckExists, Rename, FailWhole, RegisterPendingUpload,
              Step, Ignored, disk
<1>2. VerifierStep \/ UNCHANGED vars => UNCHANGED <<handler, unwritten>>
  BY DEF VerifierStep, TakePending, StartPass, Verify, ConcludeOK, ConcludeRemove,
         ConcludeRetry, Conclude, EndPass, vars, disk
<1>3. ASSUME NEW v \in Uploads, AcceptTx(v) \/ PassTenMinutes(v)
      PROVE  UNCHANGED <<handler, unwritten>>
  BY <1>3 DEF AcceptTx, PassTenMinutes, disk
<1>4. Restart => handler'[u] = handler[u] /\ UNCHANGED unwritten
  BY DEF Restart, Running
<1> QED
  BY <1>1, <1>2, <1>3, <1>4 DEF Next

LEMMA GenuineStays ==
    ASSUME TypeInv, [Next]_vars, NEW u \in Uploads, Genuine(u)
    PROVE  Genuine(u)'
<1>1. req'[u] = req[u]
  BY RequestsFixed DEF Genuine
<1>2. txAccepted \subseteq txAccepted' /\ activity \subseteq activity'
  <2>1. ASSUME NEW v \in Uploads, Receive(v) \/ HandlerStep(v)
        PROVE  UNCHANGED <<txAccepted, activity>>
    BY <2>1 DEF HandlerStep, Receive, OpenShard, StorePayload, StoreSignatures, RefuseShard,
                FailShard, StoreTemp, CheckExists, Rename, FailWhole, RegisterPendingUpload,
                results, world
  <2>2. ASSUME NEW v \in Uploads, AcceptTx(v) \/ PassTenMinutes(v)
        PROVE  txAccepted \subseteq txAccepted' /\ UNCHANGED activity
    BY <2>2 DEF AcceptTx, PassTenMinutes, results
  <2>3. VerifierStep => UNCHANGED txAccepted /\ activity \subseteq activity'
    BY DEF VerifierStep, TakePending, StartPass, Verify, ConcludeOK, ConcludeRemove,
           ConcludeRetry, Conclude, EndPass, results, world
  <2>4. Restart \/ UNCHANGED vars => UNCHANGED <<txAccepted, activity>>
    BY DEF Restart, vars, results, world
  <2> QED
    BY <2>1, <2>2, <2>3, <2>4 DEF Next
<1>3. handler'[u] = "registered" /\ unwritten'[u] = unwritten[u]
  BY RegisteredStays DEF Genuine
<1> QED
  BY <1>1, <1>2, <1>3 DEF Genuine, Matches, PathOf

(* Results are final: QueueInv keeps uploads with a result out of queues.  *)
LEMMA ResultsFinal ==
    ASSUME QInv, [Next]_vars, NEW u \in Uploads, outcome[u] # "none"
    PROVE  outcome'[u] = outcome[u]
<1> USE DEF QInv, TypeInv, TypeOK
<1>1. \A v \in Waiting : v # u
  BY DEF Waiting
<1>2. CASE TakePending
  <2>1. ASSUME NEW i \in DOMAIN toVerify PROVE toVerify[i] # u
    BY <1>1 DEF ToSet, QueueInv
  <2> QED
    BY <1>2, <2>1 DEF TakePending
<1>3. CASE ConcludeOK \/ ConcludeRemove
  <2>1. Head(toVerify) # u
    BY <1>1, <1>3, TailEntries
    DEF ConcludeOK, ConcludeRemove, Conclude, EntryToConclude, QueueInv
  <2> QED
    BY <1>3, <2>1 DEF ConcludeOK, ConcludeRemove, Settle
<1>4. StartPass \/ Verify \/ ConcludeRetry \/ EndPass \/ UNCHANGED vars => UNCHANGED outcome
  BY DEF StartPass, Verify, ConcludeRetry, EndPass, vars, results
<1>5. CASE Restart
  BY <1>5 DEF Restart
<1>6. ASSUME NEW v \in Uploads, Receive(v) \/ HandlerStep(v) \/ AcceptTx(v) \/ PassTenMinutes(v)
      PROVE  UNCHANGED outcome
  BY <1>6 DEF HandlerStep, Receive, OpenShard, StorePayload, StoreSignatures, RefuseShard,
              FailShard, StoreTemp, CheckExists, Rename, FailWhole, RegisterPendingUpload,
              AcceptTx, PassTenMinutes, results
<1> QED
  BY <1>2, <1>3, <1>4, <1>5, <1>6 DEF Next, VerifierStep

(* Announcements are added by ConcludeOK only, for the entry just verified.*)
LEMMA AnnouncedSteps ==
    ASSUME QInv, [Next]_vars
    PROVE  \/ announced' = announced
           \/ /\ ConcludeOK
              /\ announced' = announced \cup {Head(toVerify)}
<1>1. ASSUME NEW v \in Uploads, Receive(v) \/ HandlerStep(v) \/ AcceptTx(v) \/ PassTenMinutes(v)
      PROVE  UNCHANGED announced
  BY <1>1 DEF HandlerStep, Receive, OpenShard, StorePayload, StoreSignatures, RefuseShard,
              FailShard, StoreTemp, CheckExists, Rename, FailWhole, RegisterPendingUpload,
              AcceptTx, PassTenMinutes, results
<1>2. ASSUME VerifierStep, ~ConcludeOK PROVE UNCHANGED announced
  BY <1>2 DEF VerifierStep, TakePending, StartPass, Verify, ConcludeRemove, ConcludeRetry,
              EndPass, results
<1>3. Restart \/ UNCHANGED vars => UNCHANGED announced
  BY DEF Restart, vars, results
<1>4. ConcludeOK => announced' = announced \/ announced' = announced \cup {Head(toVerify)}
  BY DEF ConcludeOK
<1> QED
  BY <1>1, <1>2, <1>3, <1>4 DEF Next, VerifierStep

LEMMA VerdictStep == QInv /\ VerdictSound /\ [Next]_vars => VerdictSound'
<1> SUFFICES ASSUME QInv, VerdictSound, [Next]_vars,
                    verifier' = "verified", status' = "ok"
             PROVE  Genuine(Head(toVerify))'
  BY DEF VerdictSound
<1> USE DEF QInv, TypeInv, TypeOK
<1>1. CASE Verify
  <2> DEFINE u == Head(toVerify)
  <2>1. u \in Waiting
    BY <1>1, TailEntries DEF Verify, QueueInv
  <2>2. req[u] # None /\ handler[u] = "registered"
    BY <2>1 DEF Waiting, Arrived
  <2>3. "ok" \in Verdicts(u) /\ activity' = activity \cup {u}
        /\ UNCHANGED <<req, handler, unwritten, toVerify, txAccepted>>
    BY <1>1 DEF Verify, queues, world, disk
  <2>4. u \in txAccepted /\ Matches(u)
    BY <2>3 DEF Verdicts
  <2> QED
    BY <2>2, <2>3, <2>4 DEF Genuine, Matches, PathOf
<1>2. CASE UNCHANGED <<verifier, status, toVerify>>
  <2>1. Genuine(Head(toVerify)) /\ Head(toVerify) \in Uploads
    BY <1>2, TailFacts DEF VerdictSound, EntryToConclude
  <2> QED
    BY <1>2, <2>1, GenuineStays
<1>3. ASSUME NEW v \in Uploads, Receive(v) \/ HandlerStep(v) \/ AcceptTx(v) \/ PassTenMinutes(v)
      PROVE  UNCHANGED <<verifier, status, toVerify>>
  BY <1>3 DEF HandlerStep, Receive, OpenShard, StorePayload, StoreSignatures, RefuseShard,
              FailShard, StoreTemp, CheckExists, Rename, FailWhole, RegisterPendingUpload,
              AcceptTx, PassTenMinutes, loop, queues
<1>4. ASSUME VerifierStep, ~Verify PROVE FALSE
  BY <1>4 DEF VerifierStep, TakePending, StartPass, ConcludeOK, ConcludeRemove, ConcludeRetry,
              Conclude, EndPass, loop
<1>5. ~Restart
  BY DEF Restart
<1>6. UNCHANGED vars => UNCHANGED <<verifier, status, toVerify>>
  BY DEF vars, loop, queues
<1> QED
  BY <1>1, <1>2, <1>3, <1>4, <1>5, <1>6 DEF Next

(* An upload that passed its verification did so rightly.                  *)
OkGenuine == \A u \in Uploads : outcome[u] = "ok" => Genuine(u)

LEMMA OkSteps ==
    ASSUME QInv, [Next]_vars, NEW u \in Uploads, outcome'[u] = "ok", outcome[u] # "ok"
    PROVE  verifier = "verified" /\ status = "ok" /\ u = Head(toVerify)
<1> USE DEF QInv, TypeInv, TypeOK
<1>1. ASSUME NEW v \in Uploads, Receive(v) \/ HandlerStep(v) \/ AcceptTx(v) \/ PassTenMinutes(v)
      PROVE  UNCHANGED outcome
  BY <1>1 DEF HandlerStep, Receive, OpenShard, StorePayload, StoreSignatures, RefuseShard,
              FailShard, StoreTemp, CheckExists, Rename, FailWhole, RegisterPendingUpload,
              AcceptTx, PassTenMinutes, results
<1>2. TakePending => outcome'[u] \in {outcome[u], "superseded"}
  BY DEF TakePending
<1>3. ConcludeRemove => outcome'[u] \in {outcome[u], "failed", "expired"}
  BY DEF ConcludeRemove, Conclude, Settle
<1>4. StartPass \/ Verify \/ ConcludeRetry \/ EndPass \/ UNCHANGED vars => UNCHANGED outcome
  BY DEF StartPass, Verify, ConcludeRetry, EndPass, vars, results
<1>5. Restart => outcome'[u] \in {outcome[u], "lost"}
  BY DEF Restart
<1>6. ConcludeOK
  BY <1>1, <1>2, <1>3, <1>4, <1>5 DEF Next, VerifierStep
<1>7. verifier = "verified" /\ status = "ok" /\ outcome' = [outcome EXCEPT ![Head(toVerify)] = "ok"]
  BY <1>6 DEF ConcludeOK, Conclude, Settle
<1> QED
  BY <1>7

LEMMA OkGenuineAlways == Spec => []OkGenuine
<1>1. Init => VerdictSound /\ OkGenuine
  BY DEF Init, VerdictSound, OkGenuine
<1>2. QInv /\ VerdictSound /\ OkGenuine /\ [Next]_vars => OkGenuine'
  <2> SUFFICES ASSUME QInv, VerdictSound, OkGenuine, [Next]_vars,
                      NEW u \in Uploads, outcome'[u] = "ok"
               PROVE  Genuine(u)'
    BY DEF OkGenuine
  <2>1. Genuine(u)
    BY OkSteps DEF OkGenuine, VerdictSound
  <2> QED
    BY <2>1, GenuineStays DEF QInv
<1> QED
  BY <1>1, <1>2, VerdictStep, QueuesCorrect, PTL DEF Spec

(* The DHT hears only of uploads that the blockchain accepted, that name   *)
(* this SP, match the bytes written to the disk, are in the activity log   *)
(* and were never rejected, superseded or lost.                            *)
THEOREM AnnouncedOnlyVerifiedAlways == Spec => []AnnouncedOnlyVerified
<1> DEFINE AnnouncedOk == \A u \in announced : outcome[u] = "ok"
<1>1. Init => AnnouncedOk
  BY DEF Init
<1>2. QInv /\ AnnouncedOk /\ [Next]_vars => AnnouncedOk'
  <2> SUFFICES ASSUME QInv, AnnouncedOk, [Next]_vars, NEW u \in announced'
               PROVE  outcome'[u] = "ok"
    OBVIOUS
  <2>1. CASE u \in announced
    BY <2>1, ResultsFinal DEF QInv, TypeInv, TypeOK
  <2>2. CASE ConcludeOK /\ u = Head(toVerify)
    <3>1. verifier = "verified" /\ status = "ok" /\ outcome' = [outcome EXCEPT ![u] = "ok"]
      BY <2>2 DEF ConcludeOK, Conclude, Settle
    <3>2. u \in Uploads
      BY <2>2, <3>1, TailFacts DEF QInv, TypeInv, TypeOK, EntryToConclude
    <3> QED
      BY <3>1, <3>2 DEF QInv, TypeInv, TypeOK
  <2> QED
    BY <2>1, <2>2, AnnouncedSteps
<1>3. QInv /\ OkGenuine /\ AnnouncedOk => AnnouncedOnlyVerified
  BY DEF QInv, TypeInv, TypeOK, OkGenuine, Genuine, Matches, AnnouncedOnlyVerified
<1> QED
  BY <1>1, <1>2, <1>3, OkGenuineAlways, QueuesCorrect, PTL DEF Spec

-----------------------------------------------------------------------------
(* The files.  A name refers to a file created for that name, and a        *)
(* handler writes only to such a file.                                     *)

Created(u) == handler[u] \notin {"none", "shard", "whole", "temp", "checked"}

DirInv ==
    \A p \in Path : dir[p] # None =>
        req[dir[p]] # None /\ PathOf(dir[p]) = p /\ Created(dir[p])

FdInv ==
    \A u \in Uploads : fd[u] # None =>
        handler[u] \in {"open", "body"} /\ req[fd[u]] # None /\ SameFile(fd[u], u)

FileInv == DirInv /\ FdInv

(* The path of an upload that arrived is one of the paths, and stays.      *)
LEMMA PathFacts ==
    ASSUME TypeInv, [Next]_vars, NEW u \in Uploads, req[u] # None
    PROVE  PathOf(u) \in Path /\ PathOf(u)' = PathOf(u) /\ req'[u] # None
<1>1. req[u] \in Request
  BY DEF TypeInv, TypeOK
<1> QED
  BY <1>1, RequestsFixed DEF PathOf, Request

(* What a handler does, given where it stands.                             *)
LEMMA HandlerFiles ==
    ASSUME TypeInv, FileInv, NEW v \in Uploads, HandlerStep(v)
    PROVE  FileInv'
<1> USE DEF TypeInv, TypeOK, FileInv
<1> DEFINE p == PathOf(v)
<1>1. req[v] # None /\ p \in Path /\ UNCHANGED req
  <2>1. handler[v] # "none" /\ UNCHANGED req
    BY DEF HandlerStep, OpenShard, StorePayload, StoreSignatures, RefuseShard, FailShard,
           StoreTemp, CheckExists, Rename, FailWhole, RegisterPendingUpload, Step
  <2>2. req[v] \in Request
    BY <2>1, RequestNotNone DEF Arrived
  <2> QED
    BY <2>1, <2>2, RequestNotNone DEF PathOf, Request
<1>2. ASSUME NEW u PROVE PathOf(u)' = PathOf(u)
  BY <1>1 DEF PathOf
<1>3. ASSUME UNCHANGED dir, NEW h, handler' = [handler EXCEPT ![v] = h],
             h \notin {"none", "shard", "whole", "temp", "checked"} \/ ~Created(v)
      PROVE  DirInv'
  BY <1>1, <1>2, <1>3 DEF DirInv, Created
<1>4. ASSUME NEW h, handler' = [handler EXCEPT ![v] = h],
             \/ UNCHANGED fd /\ (handler[v] \in {"open", "body"} => h \in {"open", "body"})
             \/ fd' = [fd EXCEPT ![v] = None]
      PROVE  FdInv'
  BY <1>1, <1>2, <1>4 DEF FdInv, SameFile
<1>5. CASE OpenShard(v)
  <2> DEFINE node == IF dir[p] = None THEN v ELSE dir[p]
  <2>1. /\ handler[v] = "shard"
        /\ handler' = [handler EXCEPT ![v] = "open"]
        /\ dir' = [dir EXCEPT ![p] = node]
        /\ fd' = [fd EXCEPT ![v] = node]
    BY <1>5 DEF OpenShard, Step
  <2>2. node \in Uploads /\ req[node] # None /\ PathOf(node) = p /\ (node = v \/ Created(node))
    BY <1>1 DEF DirInv
  <2> HIDE DEF node
  <2>3. DirInv'
    BY <1>1, <1>2, <2>1, <2>2 DEF DirInv, Created
  <2>4. FdInv'
    BY <1>1, <1>2, <2>1, <2>2 DEF FdInv, SameFile
  <2> QED
    BY <2>3, <2>4
<1>6. CASE StorePayload(v)
  BY <1>3, <1>4, <1>6 DEF StorePayload, Step
<1>7. CASE StoreSignatures(v)
  BY <1>3, <1>4, <1>7 DEF StoreSignatures, Step
<1>8. CASE RefuseShard(v) \/ CheckExists(v) \/ FailWhole(v)
  <2>1. /\ handler[v] \in {"shard", "whole", "temp", "checked"}
        /\ handler' \in {[handler EXCEPT ![v] = "failed"], [handler EXCEPT ![v] = "checked"]}
        /\ UNCHANGED <<dir, fd>>
    BY <1>8 DEF RefuseShard, CheckExists, FailWhole, Step, disk
  <2> QED
    BY <1>3, <1>4, <2>1 DEF Created
<1>9. CASE FailShard(v)
  <2>1. handler' = [handler EXCEPT ![v] = "failed"] /\ dir' = [dir EXCEPT ![p] = None]
        /\ fd' = [fd EXCEPT ![v] = None]
    BY <1>9 DEF FailShard
  <2>2. DirInv'
    BY <1>1, <1>2, <2>1 DEF DirInv, Created
  <2> QED
    BY <1>4, <2>1, <2>2
<1>10. CASE StoreTemp(v)
  BY <1>3, <1>4, <1>10 DEF StoreTemp, Step, Created
<1>11. CASE Rename(v)
  <2>1. handler[v] = "checked" /\ handler' = [handler EXCEPT ![v] = "written"]
        /\ dir' = [dir EXCEPT ![p] = v] /\ UNCHANGED fd
    BY <1>11 DEF Rename, Step
  <2>2. DirInv'
    BY <1>1, <1>2, <2>1 DEF DirInv, Created
  <2> QED
    BY <1>4, <2>1, <2>2
<1>12. CASE RegisterPendingUpload(v)
  BY <1>3, <1>4, <1>12 DEF RegisterPendingUpload, Step, disk
<1> QED
  BY <1>5, <1>6, <1>7, <1>8, <1>9, <1>10, <1>11, <1>12 DEF HandlerStep

(* The verifier writes to no file and changes no name but in ConcludeRemove.*)
LEMMA VerifierFiles ==
    ASSUME VerifierStep
    PROVE  /\ UNCHANGED <<req, handler, inode, fd, unwritten>>
           /\ \/ ConcludeRemove
              \/ UNCHANGED dir
BY DEF VerifierStep, TakePending, StartPass, Verify, ConcludeOK, ConcludeRemove, ConcludeRetry,
       Conclude, EndPass, disk

LEMMA FileStep == QInv /\ FileInv /\ [Next]_vars => FileInv'
<1> SUFFICES ASSUME QInv, FileInv, [Next]_vars PROVE FileInv'
  OBVIOUS
<1> USE DEF QInv, TypeInv, TypeOK
<1>1. ASSUME NEW u \in Uploads, req[u] # None PROVE PathOf(u)' = PathOf(u) /\ req'[u] # None
  BY <1>1, PathFacts
<1>2. ASSUME \A p \in Path : dir'[p] \in {None, dir[p]},
             \A u \in Uploads : Created(u) => Created(u)'
      PROVE  DirInv'
  <2>1. ASSUME NEW p \in Path, NEW w \in Uploads, dir[p] = w, w # None
        PROVE  req'[w] # None /\ req'[w].path = p /\ Created(w)'
    BY <1>1, <1>2, <2>1 DEF FileInv, DirInv, PathOf
  <2> QED
    BY <1>2, <2>1 DEF DirInv, PathOf, Created
<1>3. ASSUME \A u \in Uploads : fd'[u] # None =>
               fd'[u] = fd[u] /\ handler'[u] = handler[u] /\ req[u] # None
      PROVE  FdInv'
  <2>1. ASSUME NEW u \in Uploads, fd[u] # None, req[u] # None
        PROVE  /\ handler[u] \in {"open", "body"}
               /\ req'[fd[u]] # None
               /\ req'[fd[u]].path = req'[u].path
    BY <1>1, <2>1 DEF FileInv, FdInv, PathOf, SameFile
  <2> QED
    BY <1>3, <2>1 DEF FdInv, PathOf, SameFile
<1>4. ASSUME NEW u \in Uploads, fd[u] # None PROVE req[u] # None
  BY <1>4, RequestNotNone DEF FileInv, FdInv, Arrived
<1>5. ASSUME UNCHANGED <<handler, fd>>, \A p \in Path : dir'[p] \in {None, dir[p]}
      PROVE  FileInv'
  BY <1>2, <1>3, <1>4, <1>5 DEF FileInv, Created
<1>6. CASE VerifierStep
  BY <1>5, <1>6, VerifierFiles DEF ConcludeRemove
<1>7. ASSUME NEW u \in Uploads, AcceptTx(u) \/ PassTenMinutes(u) PROVE FileInv'
  BY <1>5, <1>7 DEF AcceptTx, PassTenMinutes, disk
<1>8. CASE UNCHANGED vars
  BY <1>5, <1>8 DEF vars, disk
<1>9. ASSUME NEW u \in Uploads, Receive(u) PROVE FileInv'
  <2>1. handler[u] = "none" /\ UNCHANGED <<dir, fd>>
    BY <1>9 DEF Receive, Step, disk
  <2>2. \A v \in Uploads : handler[v] # "none" => handler'[v] = handler[v]
    BY <1>9 DEF Receive, Step
  <2>3. DirInv'
    BY <1>2, <2>1, <2>2 DEF Created
  <2>4. FdInv'
    BY <1>3, <1>4, <2>1, <2>2 DEF FileInv, FdInv
  <2> QED
    BY <2>3, <2>4 DEF FileInv
<1>10. CASE Restart
  <2>1. UNCHANGED dir /\ fd' = [u \in Uploads |-> None]
        /\ \A u \in Uploads : Created(u) => Created(u)'
    BY <1>10 DEF Restart, Created, Running
  <2> QED
    BY <1>2, <1>3, <2>1 DEF FileInv
<1> QED
  BY <1>6, <1>7, <1>8, <1>9, <1>10, HandlerFiles DEF Next

-----------------------------------------------------------------------------
(* Complete files.  A file with a single writer is as complete as the      *)
(* handler of that writer has come.                                        *)

HasPayload(f, w) == inode[f].payload = w \/ "payload" \in unwritten[w]
SoleWriter(f, w) == inode[f].writers = {w}

WriterState(f, w) ==
    \/ handler[w] = "open" /\ fd[w] = f
    \/ handler[w] = "body" /\ fd[w] = f /\ HasPayload(f, w)
    \/ handler[w] \in {"temp", "checked"} /\ f = w /\ HasAll(f, w)
    \/ handler[w] \in {"written", "registered"} /\ HasAll(f, w)
    \/ handler[w] = "failed"

OpenKnown ==
    \A v \in Uploads : fd[v] # None => Created(fd[v]) /\ v \in inode[fd[v]].writers
TempKnown == \A u \in Uploads : handler[u] \in {"temp", "checked"} => SoleWriter(u, u)
WriterKnown == \A f, w \in Uploads : SoleWriter(f, w) => WriterState(f, w)

(* Until the process is killed, what a failing handler wrote has no name.  *)
FailedGone ==
    restarts = 0 =>
      \A p \in Path, w \in Uploads :
        dir[p] # None /\ SoleWriter(dir[p], w) => handler[w] # "failed"

CompleteInv == OpenKnown /\ TempKnown /\ WriterKnown /\ FailedGone

(* Only names are taken away.                                              *)
LEMMA CompleteKept ==
    ASSUME CompleteInv, UNCHANGED <<handler, inode, fd, unwritten, restarts>>,
           \A p \in Path : dir'[p] \in {None, dir[p]}
    PROVE  CompleteInv'
<1>1. OpenKnown'
  BY DEF CompleteInv, OpenKnown, Created
<1>2. TempKnown'
  BY DEF CompleteInv, TempKnown, SoleWriter
<1>3. WriterKnown'
  BY DEF CompleteInv, WriterKnown, WriterState, SoleWriter, HasAll, HasPayload
<1>4. FailedGone'
  <2> SUFFICES ASSUME restarts' = 0, NEW p \in Path, NEW w \in Uploads, dir'[p] # None,
                      SoleWriter(dir[p], w)'
               PROVE  handler'[w] # "failed"
    BY DEF FailedGone
  <2>1. restarts = 0 /\ dir'[p] = dir[p]
    OBVIOUS
  <2>2. SoleWriter(dir[p], w)
    BY <2>1 DEF SoleWriter
  <2> QED
    BY <2>1, <2>2 DEF CompleteInv, FailedGone
<1> QED
  BY <1>1, <1>2, <1>3, <1>4 DEF CompleteInv

(* The handler of v goes on without writing.                               *)
LEMMA CompleteMoved ==
    ASSUME CompleteInv, NEW v \in Uploads,
           UNCHANGED <<inode, unwritten, restarts>>,
           \A u \in Uploads \ {v} : handler'[u] = handler[u] /\ fd'[u] = fd[u],
           fd'[v] \in {None, fd[v]},
           \A u \in Uploads : Created(u) => Created(u)',
           handler'[v] \in {"temp", "checked"} => handler[v] \in {"temp", "checked"},
           \A u \in Uploads : fd[u] \in Uploads \cup {None},
           \A f \in Uploads : SoleWriter(f, v) => WriterState(f, v)',
           FailedGone'
    PROVE  CompleteInv'
<1>1. OpenKnown'
  <2> SUFFICES ASSUME NEW u \in Uploads, fd'[u] # None
               PROVE  Created(fd[u])' /\ u \in inode'[fd'[u]].writers
    BY DEF OpenKnown
  <2>1. fd'[u] = fd[u] /\ fd[u] \in Uploads
    OBVIOUS
  <2>2. Created(fd[u]) /\ u \in inode[fd[u]].writers
    BY <2>1 DEF CompleteInv, OpenKnown
  <2>3. handler'[fd'[u]] = handler'[fd[u]] /\ Created(fd[u])'
    BY <2>1, <2>2 DEF Created
  <2> QED
    BY <2>1, <2>2, <2>3
<1>2. TempKnown'
  BY DEF CompleteInv, TempKnown, SoleWriter
<1>4. ASSUME NEW f \in Uploads, NEW w \in Uploads, SoleWriter(f, w)' PROVE WriterState(f, w)'
  <2>1. SoleWriter(f, w)
    BY <1>4 DEF SoleWriter
  <2>2. CASE w = v
    BY <2>1, <2>2
  <2>3. CASE w # v
    <3>1. WriterState(f, w)
      BY <2>1 DEF CompleteInv, WriterKnown
    <3>2. handler'[w] = handler[w] /\ fd'[w] = fd[w]
      BY <2>3
    <3> QED
      BY <3>1, <3>2 DEF WriterState, HasAll, HasPayload
  <2> QED
    BY <2>2, <2>3
<1> QED
  BY <1>1, <1>2, <1>4 DEF CompleteInv, WriterKnown

LEMMA HandlerComplete ==
    ASSUME QInv, FileInv, CompleteInv, NEW v \in Uploads, HandlerStep(v)
    PROVE  CompleteInv'
<1> USE DEF QInv, TypeInv, TypeOK
<1> DEFINE p == PathOf(v)
<1>1. req[v] # None /\ p \in Path /\ UNCHANGED <<req, restarts>> /\ None \notin Uploads
  <2>1. handler[v] # "none" /\ UNCHANGED <<req, restarts>>
    BY DEF HandlerStep, OpenShard, StorePayload, StoreSignatures, RefuseShard, FailShard,
           StoreTemp, CheckExists, Rename, FailWhole, RegisterPendingUpload, Step, world
  <2>2. req[v] \in Request
    BY <2>1, RequestNotNone DEF Arrived
  <2> QED
    BY <2>1, <2>2, RequestNotNone, ConstantsAssumption DEF PathOf, Request

(* What v is the only writer of, by how far its handler is. *)
<1>2. ASSUME NEW f \in Uploads, SoleWriter(f, v)
      PROVE  /\ handler[v] \notin {"none", "shard", "whole"}
             /\ handler[v] \in {"open", "body"} => fd[v] = f
             /\ handler[v] \in {"temp", "checked"} => f = v
             /\ WriterState(f, v)
  BY <1>2 DEF CompleteInv, WriterKnown, WriterState
<1>3. ASSUME NEW q \in Path, NEW w \in Uploads, dir[q] = w
      PROVE  req[w] # None /\ PathOf(w) = q /\ Created(w)
  BY <1>1, <1>3 DEF FileInv, DirInv
<1>4. ASSUME restarts = 0, NEW q \in Path, NEW f \in Uploads, NEW w \in Uploads,
             dir[q] = f, SoleWriter(f, w)
      PROVE  handler[w] # "failed"
  BY <1>1, <1>4 DEF CompleteInv, FailedGone
<1>5. CASE OpenShard(v)
  <2> DEFINE node == IF dir[p] = None THEN v ELSE dir[p]
             all == {w \in Uploads : fd[w] = node} \cup {v}
  <2>1. /\ handler[v] = "shard"
        /\ handler' = [handler EXCEPT ![v] = "open"]
        /\ dir' = [dir EXCEPT ![p] = node]
        /\ inode' = [inode EXCEPT ![node] = OpenedBy(all)]
        /\ fd' = [fd EXCEPT ![v] = node]
        /\ UNCHANGED unwritten
    BY <1>5 DEF OpenShard, Step
  <2>2. node \in Uploads /\ (node = v \/ Created(node))
    BY <1>1, <1>3
  <2>3. /\ inode'[node].writers = all
        /\ \A f \in Uploads \ {node} : inode'[f] = inode[f]
    BY <2>1, <2>2 DEF OpenedBy
  <2>4. v \in all /\ \A w \in Uploads : fd[w] = node => w \in all
    OBVIOUS
  <2> HIDE DEF node, all
  <2>5. \A u \in Uploads : Created(u) => Created(u)'
    BY <2>1 DEF Created
  <2>6. ASSUME NEW u \in Uploads, fd'[u] # None PROVE Created(fd[u])' /\ u \in inode'[fd'[u]].writers
    <3>1. CASE u = v
      BY <2>1, <2>2, <2>3, <2>4, <3>1 DEF Created
    <3>2. CASE u # v
      <4>1. fd'[u] = fd[u] /\ fd[u] \in Uploads /\ Created(fd[u]) /\ u \in inode[fd[u]].writers
        BY <2>1, <2>6, <3>2 DEF CompleteInv, OpenKnown
      <4>2. Created(fd[u])'
        BY <2>1, <4>1 DEF Created
      <4>3. u \in inode'[fd[u]].writers
        BY <2>3, <2>4, <4>1
      <4> QED
        BY <4>1, <4>2, <4>3
    <3> QED
      BY <3>1, <3>2
  <2>7. OpenKnown'
    BY <2>6 DEF OpenKnown
  <2>8. TempKnown'
    <3> SUFFICES ASSUME NEW u \in Uploads, handler'[u] \in {"temp", "checked"}
                 PROVE  inode'[u].writers = {u}
      BY DEF TempKnown, SoleWriter
    <3>1. u # v /\ handler'[u] = handler[u]
      BY <2>1
    <3>2. u # node /\ inode[u].writers = {u}
      BY <2>2, <3>1 DEF CompleteInv, TempKnown, SoleWriter, Created
    <3> QED
      BY <2>3, <3>2
  <2>9. ASSUME NEW f \in Uploads, NEW w \in Uploads, SoleWriter(f, w)'
        PROVE  \/ f = node /\ w = v
               \/ f # node /\ w # v /\ SoleWriter(f, w)
    <3>1. CASE f = node
      BY <2>3, <2>4, <2>9, <3>1 DEF SoleWriter
    <3>2. CASE f # node
      <4>1. SoleWriter(f, w)
        BY <2>3, <2>9, <3>2 DEF SoleWriter
      <4> QED
        BY <1>2, <2>1, <3>2, <4>1
    <3> QED
      BY <3>1, <3>2
  <2>10. WriterKnown'
    <3> SUFFICES ASSUME NEW f \in Uploads, NEW w \in Uploads, SoleWriter(f, w)'
                 PROVE  WriterState(f, w)'
      BY DEF WriterKnown
    <3>1. CASE f = node /\ w = v
      BY <2>1, <3>1 DEF WriterState
    <3>2. CASE f # node /\ w # v /\ SoleWriter(f, w)
      <4>1. WriterState(f, w)
        BY <3>2 DEF CompleteInv, WriterKnown
      <4>2. handler'[w] = handler[w] /\ fd'[w] = fd[w] /\ inode'[f] = inode[f]
        BY <2>1, <2>3, <3>2
      <4> QED
        BY <2>1, <4>1, <4>2 DEF WriterState, HasAll, HasPayload
    <3> QED
      BY <2>9, <3>1, <3>2
  <2>11. FailedGone'
    <3> SUFFICES ASSUME restarts = 0, NEW q \in Path, NEW w \in Uploads, dir'[q] # None,
                        SoleWriter(dir[q], w)'
                 PROVE  handler'[w] # "failed"
      BY <1>1 DEF FailedGone
    <3>1. dir'[q] \in Uploads /\ (dir'[q] = node \/ dir'[q] = dir[q])
      BY <2>1, <2>2
    <3>2. CASE dir'[q] = node
      BY <2>1, <2>2, <2>9, <3>2
    <3>3. CASE dir'[q] # node
      <4>1. w # v /\ SoleWriter(dir[q], w) /\ dir[q] \in Uploads
        BY <2>9, <3>1, <3>3
      <4> QED
        BY <1>4, <2>1, <4>1
    <3> QED
      BY <3>2, <3>3
  <2> QED
    BY <2>7, <2>8, <2>10, <2>11 DEF CompleteInv
<1>6. CASE StorePayload(v) \/ StoreSignatures(v)
  <2> DEFINE node == fd[v]
  <2>1. PICK ok \in BOOLEAN, part \in Part :
        /\ UNCHANGED dir
        /\ unwritten' = IF ok THEN unwritten ELSE [unwritten EXCEPT ![v] = @ \cup {part}]
        /\ \/ /\ handler[v] = "open" /\ handler' = [handler EXCEPT ![v] = "body"]
              /\ part = "payload" /\ inode' = [inode EXCEPT ![node].payload = Bytes(v, ok)]
              /\ UNCHANGED fd
           \/ /\ handler[v] = "body" /\ handler' = [handler EXCEPT ![v] = "written"]
              /\ part = "trailer" /\ inode' = [inode EXCEPT ![node].trailer = Bytes(v, ok)]
              /\ fd' = [fd EXCEPT ![v] = None]
    BY <1>6 DEF StorePayload, StoreSignatures, Step, Ignored, Part
  <2>2. \A f \in Uploads :
          /\ inode'[f].writers = inode[f].writers
          /\ f # node => inode'[f] = inode[f]
          /\ f = node /\ part = "payload" => inode'[f].payload = Bytes(v, ok)
          /\ f = node /\ part = "trailer" =>
               inode'[f].trailer = Bytes(v, ok) /\ inode'[f].payload = inode[f].payload
    <3> SUFFICES ASSUME NEW f \in Uploads
                 PROVE  /\ inode'[f].writers = inode[f].writers
                        /\ f # node => inode'[f] = inode[f]
                        /\ f = node /\ part = "payload" => inode'[f].payload = Bytes(v, ok)
                        /\ f = node /\ part = "trailer" =>
                             /\ inode'[f].trailer = Bytes(v, ok)
                             /\ inode'[f].payload = inode[f].payload
      OBVIOUS
    <3>1. inode[f] \in Content
      OBVIOUS
    <3>2. CASE f # node
      BY <2>1, <3>2
    <3>3. CASE f = node /\ part = "payload"
      <4>1. inode'[f] = [inode[f] EXCEPT !.payload = Bytes(v, ok)]
        BY <2>1, <3>3
      <4> QED
        BY <3>1, <3>3, <4>1 DEF Content
    <3>4. CASE f = node /\ part = "trailer"
      <4>1. inode'[f] = [inode[f] EXCEPT !.trailer = Bytes(v, ok)]
        BY <2>1, <3>4
      <4> QED
        BY <3>1, <3>4, <4>1 DEF Content
    <3> QED
      BY <2>1, <3>2, <3>3, <3>4
  <2>3. \A w \in Uploads, x \in Part : x \in unwritten[w] => x \in unwritten'[w]
    BY <2>1
  <2>4. ~ ok => part \in unwritten'[v]
    BY <2>1
  <2>5. \A u \in Uploads : Created(u) => Created(u)'
    BY <2>1 DEF Created
  <2>6. OpenKnown'
    <3> SUFFICES ASSUME NEW u \in Uploads, fd'[u] # None
                 PROVE  Created(fd[u])' /\ u \in inode'[fd'[u]].writers
      BY DEF OpenKnown
    <3>1. fd'[u] = fd[u] /\ fd[u] \in Uploads
      BY <2>1
    <3>2. Created(fd[u]) /\ u \in inode[fd[u]].writers
      BY <3>1 DEF CompleteInv, OpenKnown
    <3>3. Created(fd[u])' /\ u \in inode'[fd[u]].writers
      BY <2>2, <2>5, <3>1, <3>2 DEF Created
    <3> QED
      BY <3>1, <3>3
  <2>7. TempKnown'
    BY <2>1, <2>2 DEF CompleteInv, TempKnown, SoleWriter
  <2>8. WriterKnown'
    <3> SUFFICES ASSUME NEW f \in Uploads, NEW w \in Uploads, SoleWriter(f, w)'
                 PROVE  WriterState(f, w)'
      BY DEF WriterKnown
    <3>1. SoleWriter(f, w)
      BY <2>2 DEF SoleWriter
    <3>2. CASE w = v
      <4>1. f = node /\ (ok => Bytes(v, ok) = v)
        BY <1>2, <2>1, <3>1, <3>2 DEF Bytes, SoleWriter
      <4>2. CASE handler[v] = "open"
        <5>1. HasPayload(f, v)'
          BY <2>1, <2>2, <2>4, <4>1, <4>2 DEF HasPayload
        <5> QED
          BY <2>1, <3>2, <4>1, <4>2, <5>1 DEF WriterState
      <4>3. CASE handler[v] = "body"
        <5>1. HasPayload(f, v)
          BY <1>2, <3>1, <3>2, <4>3 DEF WriterState
        <5>2. HasAll(f, v)'
          BY <2>1, <2>2, <2>3, <2>4, <4>1, <4>3, <5>1 DEF HasAll, HasPayload, Part
        <5> QED
          BY <2>1, <3>2, <4>3, <5>2 DEF WriterState
      <4> QED
        BY <2>1, <4>2, <4>3
    <3>3. CASE w # v
      <4>1. f # node
        <5>1. ASSUME f = node PROVE FALSE
          <6>1. v \in inode[f].writers
            BY <1>1, <5>1 DEF CompleteInv, OpenKnown
          <6> QED
            BY <3>1, <3>3, <6>1 DEF SoleWriter
        <5> QED
          BY <5>1
      <4>2. WriterState(f, w)
        BY <3>1 DEF CompleteInv, WriterKnown
      <4>3. inode'[f] = inode[f] /\ handler'[w] = handler[w] /\ fd'[w] = fd[w]
            /\ unwritten'[w] = unwritten[w]
        BY <2>1, <2>2, <3>3, <4>1
      <4> QED
        BY <4>2, <4>3 DEF WriterState, HasAll, HasPayload
    <3> QED
      BY <3>2, <3>3
  <2>9. FailedGone'
    <3> SUFFICES ASSUME restarts = 0, NEW q \in Path, NEW w \in Uploads, dir[q] # None,
                        SoleWriter(dir[q], w)'
                 PROVE  handler'[w] # "failed"
      BY <1>1, <2>1 DEF FailedGone
    <3>1. dir[q] \in Uploads /\ SoleWriter(dir[q], w)
      BY <2>1, <2>2 DEF SoleWriter
    <3> QED
      BY <1>4, <2>1, <3>1
  <2> QED
    BY <2>6, <2>7, <2>8, <2>9 DEF CompleteInv
<1>7. CASE StoreTemp(v)
  <2>1. PICK ok \in BOOLEAN :
        /\ handler[v] = "whole" /\ handler' = [handler EXCEPT ![v] = "temp"]
        /\ inode' = [inode EXCEPT ![v] = [payload |-> IF ok THEN v ELSE None,
                                          trailer |-> v, writers |-> {v}]]
        /\ unwritten' = IF ok THEN unwritten ELSE [unwritten EXCEPT ![v] = @ \cup {"payload"}]
        /\ UNCHANGED <<dir, fd>>
    BY <1>7 DEF StoreTemp, Step, Ignored
  <2>2. \A u \in Uploads : Created(u) => Created(u)' /\ u # v
    BY <2>1 DEF Created
  <2>3. OpenKnown'
    BY <2>1, <2>2 DEF CompleteInv, OpenKnown
  <2>4. SoleWriter(v, v)' /\ HasAll(v, v)'
    BY <2>1 DEF SoleWriter, HasAll
  <2>5. TempKnown'
    <3> SUFFICES ASSUME NEW u \in Uploads, handler'[u] \in {"temp", "checked"}
                 PROVE  inode'[u].writers = {u}
      BY DEF TempKnown, SoleWriter
    <3>1. CASE u = v
      BY <2>4, <3>1 DEF SoleWriter
    <3>2. CASE u # v
      <4>1. handler'[u] = handler[u] /\ inode'[u] = inode[u]
        BY <2>1, <3>2
      <4> QED
        BY <4>1 DEF CompleteInv, TempKnown, SoleWriter
    <3> QED
      BY <3>1, <3>2
  <2>6. ASSUME NEW f \in Uploads, NEW w \in Uploads, SoleWriter(f, w)'
        PROVE  (f = v /\ w = v) \/ (f # v /\ w # v /\ SoleWriter(f, w))
    <3>1. CASE f = v
      BY <2>4, <2>6, <3>1 DEF SoleWriter
    <3>2. CASE f # v
      <4>1. SoleWriter(f, w)
        BY <2>1, <2>6, <3>2 DEF SoleWriter
      <4> QED
        BY <1>2, <2>1, <3>2, <4>1
    <3> QED
      BY <3>1, <3>2
  <2>7. WriterKnown'
    <3> SUFFICES ASSUME NEW f \in Uploads, NEW w \in Uploads, SoleWriter(f, w)'
                 PROVE  WriterState(f, w)'
      BY DEF WriterKnown
    <3>1. CASE f = v /\ w = v
      BY <2>1, <2>4, <3>1 DEF WriterState
    <3>2. CASE f # v /\ w # v /\ SoleWriter(f, w)
      <4>1. WriterState(f, w)
        BY <3>2 DEF CompleteInv, WriterKnown
      <4>2. handler'[w] = handler[w] /\ inode'[f] = inode[f] /\ unwritten'[w] = unwritten[w]
        BY <2>1, <3>2
      <4> QED
        BY <2>1, <4>1, <4>2 DEF WriterState, HasAll, HasPayload
    <3> QED
      BY <2>6, <3>1, <3>2
  <2>8. FailedGone'
    <3> SUFFICES ASSUME restarts = 0, NEW q \in Path, NEW w \in Uploads, dir[q] # None,
                        SoleWriter(dir[q], w)'
                 PROVE  handler'[w] # "failed"
      BY <1>1, <2>1 DEF FailedGone
    <3>1. dir[q] \in Uploads /\ Created(dir[q])
      BY <1>3
    <3>2. w # v /\ SoleWriter(dir[q], w)
      BY <2>1, <2>2, <2>6, <3>1
    <3> QED
      BY <1>4, <2>1, <3>1, <3>2
  <2> QED
    BY <2>3, <2>5, <2>7, <2>8 DEF CompleteInv
<1>8. CASE FailShard(v)
  <2>1. /\ handler[v] \in {"open", "body"} /\ handler' = [handler EXCEPT ![v] = "failed"]
        /\ dir' = [dir EXCEPT ![p] = None] /\ fd' = [fd EXCEPT ![v] = None]
        /\ UNCHANGED <<inode, unwritten>>
    BY <1>8 DEF FailShard
  <2>2. \A f \in Uploads : WriterState(f, v)'
    BY <2>1 DEF WriterState
  <2>3. FailedGone'
    <3> SUFFICES ASSUME restarts = 0, NEW q \in Path, NEW w \in Uploads, dir'[q] # None,
                        SoleWriter(dir[q], w)'
                 PROVE  handler'[w] # "failed"
      BY <1>1 DEF FailedGone
    <3>1. q # p /\ dir'[q] = dir[q] /\ dir[q] \in Uploads
      BY <1>1, <2>1
    <3>2. SoleWriter(dir[q], w)
      BY <2>1, <3>1 DEF SoleWriter
    <3>3. w # v
      <4>1. ASSUME w = v PROVE FALSE
        <5>1. fd[v] = dir[q]
          BY <1>2, <2>1, <3>1, <3>2, <4>1
        <5>2. PathOf(dir[q]) = p
          BY <1>1, <3>1, <5>1 DEF FileInv, FdInv, SameFile
        <5> QED
          BY <1>3, <3>1, <5>2
      <4> QED
        BY <4>1
    <3> QED
      BY <1>4, <2>1, <3>1, <3>2, <3>3
  <2>4. /\ \A u \in Uploads \ {v} : handler'[u] = handler[u] /\ fd'[u] = fd[u]
        /\ fd'[v] \in {None, fd[v]}
        /\ \A u \in Uploads : Created(u) => Created(u)'
        /\ handler'[v] \in {"temp", "checked"} => handler[v] \in {"temp", "checked"}
    BY <2>1 DEF Created
  <2> HIDE DEF QInv, TypeInv, TypeOK
  <2>5. \A u \in Uploads : fd[u] \in Uploads \cup {None}
    BY DEF QInv, TypeInv, TypeOK
  <2> QED
    BY <1>1, <2>1, <2>2, <2>3, <2>4, <2>5, CompleteMoved
<1>9. CASE Rename(v)
  <2>1. /\ handler[v] = "checked" /\ handler' = [handler EXCEPT ![v] = "written"]
        /\ dir' = [dir EXCEPT ![p] = v] /\ UNCHANGED <<inode, fd, unwritten>>
    BY <1>9 DEF Rename, Step
  <2>2. ASSUME NEW f \in Uploads, SoleWriter(f, v) PROVE WriterState(f, v)'
    <3>1. HasAll(f, v)
      BY <1>2, <2>1, <2>2 DEF WriterState
    <3> QED
      BY <2>1, <3>1 DEF WriterState, HasAll
  <2>3. FailedGone'
    <3> SUFFICES ASSUME restarts = 0, NEW q \in Path, NEW w \in Uploads, dir'[q] # None,
                        SoleWriter(dir[q], w)'
                 PROVE  handler'[w] # "failed"
      BY <1>1 DEF FailedGone
    <3>1. CASE dir'[q] = v
      <4>1. w = v
        BY <2>1, <3>1 DEF CompleteInv, TempKnown, SoleWriter
      <4> QED
        BY <2>1, <4>1
    <3>2. CASE dir'[q] # v
      <4>1. dir'[q] = dir[q] /\ dir[q] \in Uploads
        BY <1>1, <2>1, <3>2
      <4>2. SoleWriter(dir[q], w)
        BY <2>1, <4>1 DEF SoleWriter
      <4> QED
        BY <1>4, <2>1, <4>1, <4>2
    <3> QED
      BY <3>1, <3>2
  <2>4. /\ \A u \in Uploads \ {v} : handler'[u] = handler[u] /\ fd'[u] = fd[u]
        /\ fd'[v] \in {None, fd[v]}
        /\ \A u \in Uploads : Created(u) => Created(u)'
        /\ handler'[v] \in {"temp", "checked"} => handler[v] \in {"temp", "checked"}
    BY <2>1 DEF Created
  <2> HIDE DEF QInv, TypeInv, TypeOK
  <2>5. \A u \in Uploads : fd[u] \in Uploads \cup {None}
    BY DEF QInv, TypeInv, TypeOK
  <2> QED
    BY <1>1, <2>1, <2>2, <2>3, <2>4, <2>5, CompleteMoved
<1>10. CASE RefuseShard(v) \/ CheckExists(v) \/ FailWhole(v) \/ RegisterPendingUpload(v)
  <2>1. /\ UNCHANGED disk
        /\ \/ handler[v] \in {"shard", "whole", "temp", "checked"}
              /\ handler' = [handler EXCEPT ![v] = "failed"]
           \/ handler[v] = "temp" /\ handler' = [handler EXCEPT ![v] = "checked"]
           \/ handler[v] = "written" /\ handler' = [handler EXCEPT ![v] = "registered"]
    BY <1>10 DEF RefuseShard, CheckExists, FailWhole, RegisterPendingUpload, Step
  <2>2. UNCHANGED <<dir, inode, fd, unwritten>>
    BY <2>1 DEF disk
  <2>3. ASSUME NEW f \in Uploads, SoleWriter(f, v) PROVE WriterState(f, v)'
    <3>1. WriterState(f, v)
      BY <2>3 DEF CompleteInv, WriterKnown
    <3> QED
      BY <2>1, <2>2, <3>1 DEF WriterState, HasAll
  <2>4. FailedGone'
    <3> SUFFICES ASSUME restarts = 0, NEW q \in Path, NEW w \in Uploads, dir[q] # None,
                        SoleWriter(dir[q], w)'
                 PROVE  handler'[w] # "failed"
      BY <1>1, <2>2 DEF FailedGone
    <3>1. dir[q] \in Uploads /\ Created(dir[q]) /\ SoleWriter(dir[q], w)
      BY <1>3, <2>2 DEF SoleWriter
    <3>2. handler[w] # "failed"
      BY <1>4, <3>1
    <3>3. CASE w # v
      BY <2>1, <3>2, <3>3
    <3>4. CASE w = v
      <4>1. handler[v] \notin {"shard", "whole", "temp", "checked"} \/ handler[v] = "temp"
        BY <1>2, <3>1, <3>4 DEF Created
      <4>2. handler[v] # "temp"
        BY <1>2, <3>1, <3>4 DEF Created
      <4> QED
        BY <2>1, <3>4, <4>1, <4>2
    <3> QED
      BY <3>3, <3>4
  <2>5. /\ \A u \in Uploads \ {v} : handler'[u] = handler[u] /\ fd'[u] = fd[u]
        /\ fd'[v] \in {None, fd[v]}
        /\ \A u \in Uploads : Created(u) => Created(u)'
        /\ handler'[v] \in {"temp", "checked"} => handler[v] \in {"temp", "checked"}
    BY <2>1, <2>2 DEF Created
  <2> HIDE DEF QInv, TypeInv, TypeOK
  <2>6. \A u \in Uploads : fd[u] \in Uploads \cup {None}
    BY DEF QInv, TypeInv, TypeOK
  <2> QED
    BY <1>1, <2>1, <2>2, <2>3, <2>4, <2>5, <2>6, CompleteMoved
<1> QED
  BY <1>5, <1>6, <1>7, <1>8, <1>9, <1>10 DEF HandlerStep

LEMMA CompleteStep == QInv /\ FileInv /\ CompleteInv /\ [Next]_vars => CompleteInv'
<1> SUFFICES ASSUME QInv, FileInv, CompleteInv, [Next]_vars PROVE CompleteInv'
  OBVIOUS
<1> USE DEF QInv, TypeInv, TypeOK
<1>1. CASE VerifierStep
  <2>1. UNCHANGED restarts
    BY <1>1 DEF VerifierStep, TakePending, StartPass, Verify, ConcludeOK, ConcludeRemove,
                ConcludeRetry, Conclude, EndPass, world
  <2> QED
    BY <1>1, <2>1, CompleteKept, VerifierFiles DEF ConcludeRemove
<1>2. ASSUME NEW u \in Uploads, AcceptTx(u) \/ PassTenMinutes(u) PROVE CompleteInv'
  BY <1>2, CompleteKept DEF AcceptTx, PassTenMinutes, disk
<1>3. CASE UNCHANGED vars
  BY <1>3, CompleteKept DEF vars, disk, world
<1>4. ASSUME NEW u \in Uploads, Receive(u) PROVE CompleteInv'
  <2>1. PICK h \in {"shard", "whole"} :
        /\ UNCHANGED disk /\ UNCHANGED restarts
        /\ handler[u] = "none" /\ handler' = [handler EXCEPT ![u] = h]
    BY <1>4 DEF Receive, Step, world
  <2>2. UNCHANGED <<dir, inode, fd, unwritten>>
    BY <2>1 DEF disk
  <2>3. \A f \in Uploads : ~ SoleWriter(f, u)
    BY <2>1 DEF CompleteInv, WriterKnown, WriterState
  <2>4. FailedGone'
    BY <2>1, <2>2, <2>3 DEF CompleteInv, FailedGone, SoleWriter
  <2>5. /\ \A w \in Uploads \ {u} : handler'[w] = handler[w] /\ fd'[w] = fd[w]
        /\ fd'[u] \in {None, fd[u]}
        /\ \A w \in Uploads : Created(w) => Created(w)'
        /\ handler'[u] \in {"temp", "checked"} => handler[u] \in {"temp", "checked"}
    BY <2>1, <2>2 DEF Created
  <2> HIDE DEF QInv, TypeInv, TypeOK
  <2>6. \A w \in Uploads : fd[w] \in Uploads \cup {None}
    BY DEF QInv, TypeInv, TypeOK
  <2> QED
    BY <2>1, <2>2, <2>3, <2>4, <2>5, <2>6, CompleteMoved
<1>5. CASE Restart
  <2>1. restarts' # 0 /\ UNCHANGED <<dir, inode, unwritten>>
    BY <1>5, ConstantsAssumption DEF Restart
  <2>2. \A u \in Uploads :
          /\ fd'[u] = None
          /\ handler'[u] = IF handler[u] \in Running THEN "failed" ELSE handler[u]
    BY <1>5 DEF Restart
  <2>3. OpenKnown' /\ TempKnown' /\ FailedGone'
    BY <2>1, <2>2 DEF OpenKnown, TempKnown, FailedGone, Running
  <2>4. WriterKnown'
    <3> SUFFICES ASSUME NEW f \in Uploads, NEW w \in Uploads, SoleWriter(f, w)'
                 PROVE  WriterState(f, w)'
      BY DEF WriterKnown
    <3>1. WriterState(f, w)
      BY <2>1 DEF CompleteInv, WriterKnown, SoleWriter
    <3> QED
      BY <2>1, <2>2, <3>1 DEF WriterState, HasAll, Running
  <2> QED
    BY <2>3, <2>4 DEF CompleteInv
<1> QED
  BY <1>1, <1>2, <1>3, <1>4, <1>5, HandlerComplete DEF Next

LEMMA FilesInit == Init => FileInv /\ CompleteInv
<1> SUFFICES ASSUME Init PROVE FileInv /\ CompleteInv
  OBVIOUS
<1>1. FileInv
  BY DEF Init, FileInv, DirInv, FdInv
<1>2. \A f \in Uploads : inode[f].writers = {}
  BY DEF Init, OpenedBy
<1>3. OpenKnown /\ TempKnown /\ WriterKnown /\ FailedGone
  BY <1>2 DEF Init, OpenKnown, TempKnown, WriterKnown, FailedGone, SoleWriter
<1> QED
  BY <1>1, <1>3 DEF CompleteInv

LEMMA FilesCorrect == Spec => [](FileInv /\ CompleteInv)
BY FilesInit, FileStep, CompleteStep, QueuesCorrect, PTL DEF Spec

(* No handler leaves a part of a file behind: a file with a name whose     *)
(* only writer has returned has everything that writer's writes put down,  *)
(* although os.Create truncates files under their final name and handlers  *)
(* fail half-way; what may be missing is only what the code itself does    *)
(* not notice, a write whose error it ignores, or a kill.                  *)
THEOREM SettledFilesCompleteAlways == Spec => []SettledFilesComplete
<1>1. ASSUME QInv, FileInv, CompleteInv PROVE SettledFilesComplete
  <2> SUFFICES ASSUME NEW p \in Path, NEW w \in Uploads, dir[p] # None, SoleWriter(dir[p], w)
               PROVE  \/ fd[w] = dir[p]
                      \/ handler[w] = "failed" /\ restarts > 0
                      \/ HasAll(dir[p], w)
    BY DEF SettledFilesComplete, SoleWriter
  <2>1. dir[p] \in Uploads /\ restarts \in Nat
    BY <1>1, ConstantsAssumption DEF QInv, TypeInv, TypeOK
  <2>2. WriterState(dir[p], w)
    BY <1>1, <2>1 DEF CompleteInv, WriterKnown
  <2>3. handler[w] = "failed" => restarts > 0
    BY <1>1, <2>1 DEF CompleteInv, FailedGone
  <2> QED
    BY <2>2, <2>3 DEF WriterState
<1> QED
  BY <1>1, FilesCorrect, QueuesCorrect, PTL

-----------------------------------------------------------------------------
(* Files without competitors                                               *)

(* What holds of the file of an upload without competitors, at each step   *)
(* of its handler.                                                         *)
OwnFile(u) ==
    /\ handler[u] \in {"open", "body"} => dir[PathOf(u)] = u /\ fd[u] = u
    /\ handler[u] \in {"open", "body", "temp", "checked", "written", "registered"} =>
         SoleWriter(u, u)
    /\ handler[u] \in {"written", "registered"} =>
         dir[PathOf(u)] = IF outcome[u] \in {"failed", "expired"} THEN None ELSE u

OwnFiles == \A u \in Uploads : Uncontested(u) => OwnFile(u)

LEMMA UncontestedBefore ==
    ASSUME TypeInv, [Next]_vars, NEW u \in Uploads, req[u] # None, Uncontested(u)'
    PROVE  Uncontested(u)
<1> SUFFICES ASSUME NEW v \in Uploads \ {u}, req[v] # None, SameFile(u, v) PROVE FALSE
  BY DEF Uncontested
<1>1. PathOf(u)' = PathOf(u) /\ PathOf(v)' = PathOf(v) /\ req'[v] # None
  BY PathFacts
<1> QED
  BY <1>1 DEF Uncontested, SameFile

(* A handler of another upload does not touch the file of an upload that   *)
(* is alone in targeting it.                                               *)
LEMMA OthersApart ==
    ASSUME QInv, FileInv, NEW u \in Uploads, req[u] # None, Uncontested(u),
           NEW v \in Uploads \ {u}, HandlerStep(v)
    PROVE  /\ dir'[PathOf(u)] = dir[PathOf(u)]
           /\ inode'[u] = inode[u]
           /\ fd'[u] = fd[u]
           /\ handler'[u] = handler[u]
           /\ UNCHANGED <<req, outcome>>
<1> USE DEF QInv, TypeInv, TypeOK
<1>1. req[v] # None
  BY RequestNotNone DEF HandlerStep, OpenShard, StorePayload, StoreSignatures, RefuseShard, FailShard,
         StoreTemp, CheckExists, Rename, FailWhole, RegisterPendingUpload, Step, Arrived
<1>2. PathOf(v) # PathOf(u) /\ PathOf(v) \in Path /\ PathOf(u) \in Path
  BY <1>1 DEF Uncontested, SameFile, PathOf, Request
<1>3. ASSUME fd[v] = u PROVE FALSE
  <2>1. u # None
    BY ConstantsAssumption
  <2>2. SameFile(u, v)
    BY <1>3, <2>1 DEF FileInv, FdInv
  <2> QED
    BY <1>2, <2>2 DEF SameFile
<1>4. ASSUME dir[PathOf(v)] = u PROVE FALSE
  <2>1. u # None
    BY ConstantsAssumption
  <2>2. PathOf(u) = PathOf(v)
    BY <1>2, <1>4, <2>1 DEF FileInv, DirInv
  <2> QED
    BY <1>2, <2>2
<1>5. CASE OpenShard(v)
  BY <1>2, <1>4, <1>5 DEF OpenShard, Step, results
<1>6. CASE StorePayload(v) \/ StoreSignatures(v)
  BY <1>3, <1>6 DEF StorePayload, StoreSignatures, Step, results
<1>7. CASE FailShard(v) \/ StoreTemp(v) \/ Rename(v)
  BY <1>2, <1>7 DEF FailShard, StoreTemp, Rename, Step, results
<1>8. CASE RefuseShard(v) \/ CheckExists(v) \/ FailWhole(v) \/ RegisterPendingUpload(v)
  BY <1>8 DEF RefuseShard, CheckExists, FailWhole, RegisterPendingUpload, Step, disk, results
<1> QED
  BY <1>5, <1>6, <1>7, <1>8 DEF HandlerStep

LEMMA OwnStep ==
    ASSUME QInv, FileInv, CompleteInv, NEW u \in Uploads, Uncontested(u), OwnFile(u),
           HandlerStep(u)
    PROVE  OwnFile(u)'
<1> USE DEF QInv, TypeInv, TypeOK
<1> DEFINE p == PathOf(u)
<1>1. req[u] # None /\ UNCHANGED <<req, outcome>>
  BY RequestNotNone DEF HandlerStep, OpenShard, StorePayload, StoreSignatures, RefuseShard, FailShard,
         StoreTemp, CheckExists, Rename, FailWhole, RegisterPendingUpload, Step, Arrived, results
<1>2. p \in Path /\ PathOf(u)' = p
  BY <1>1 DEF PathOf, Request
<1>3. handler[u] # "registered" => outcome[u] = "none"
  BY DEF ResultsOfRegistered
<1>4. CASE OpenShard(u)
  <2>1. handler[u] = "shard" /\ handler'[u] = "open"
    BY <1>4 DEF OpenShard, Step
  <2>2. dir[p] # None => dir[p] = u
    BY <1>1, <1>2 DEF FileInv, DirInv, Uncontested, SameFile
  <2>3. dir[p] = None /\ \A v \in Uploads : fd[v] # u
    <3>1. ~ Created(u) /\ u # None
      BY <2>1, ConstantsAssumption DEF Created
    <3> QED
      BY <1>2, <2>2, <3>1 DEF FileInv, DirInv, CompleteInv, OpenKnown
  <2>4. dir'[p] = u /\ fd'[u] = u
    BY <1>2, <1>4, <2>3 DEF OpenShard
  <2>5. {v \in Uploads : fd[v] = u} \cup {u} = {u}
    BY <2>3
  <2>6. inode'[u] = OpenedBy({u})
    BY <1>4, <2>3, <2>5 DEF OpenShard
  <2> QED
    BY <1>2, <2>1, <2>4, <2>6 DEF OwnFile, OpenedBy, SoleWriter
<1>5. CASE StorePayload(u)
  <2>1. handler[u] = "open" /\ handler'[u] = "body" /\ dir[p] = u /\ fd[u] = u /\ SoleWriter(u, u)
    BY <1>5 DEF StorePayload, Step, OwnFile
  <2>2. inode'[u].writers = inode[u].writers /\ UNCHANGED <<dir, fd>>
    BY <1>5, <2>1 DEF StorePayload, Content
  <2> QED
    BY <1>2, <2>1, <2>2 DEF OwnFile, SoleWriter
<1>6. CASE StoreSignatures(u)
  <2>1. handler[u] = "body" /\ handler'[u] = "written" /\ dir[p] = u /\ fd[u] = u
        /\ SoleWriter(u, u)
    BY <1>6 DEF StoreSignatures, Step, OwnFile
  <2>2. inode'[u].writers = inode[u].writers /\ UNCHANGED dir
    BY <1>6, <2>1 DEF StoreSignatures, Content
  <2> QED
    BY <1>1, <1>2, <1>3, <2>1, <2>2 DEF OwnFile, SoleWriter
<1>7. CASE StoreTemp(u)
  <2>1. handler'[u] = "temp" /\ inode'[u].writers = {u}
    BY <1>7 DEF StoreTemp, Step
  <2> QED
    BY <2>1 DEF OwnFile, SoleWriter
<1>8. CASE CheckExists(u)
  <2>1. handler[u] = "temp" /\ handler'[u] \in {"failed", "checked"} /\ UNCHANGED inode
    BY <1>8 DEF CheckExists, disk
  <2> QED
    BY <2>1 DEF OwnFile, SoleWriter
<1>9. CASE Rename(u)
  <2>1. handler[u] = "checked" /\ handler'[u] = "written" /\ UNCHANGED inode /\ dir'[p] = u
    BY <1>2, <1>9 DEF Rename, Step
  <2> QED
    BY <1>1, <1>2, <1>3, <2>1 DEF OwnFile, SoleWriter
<1>10. CASE RegisterPendingUpload(u)
  <2>1. handler[u] = "written" /\ handler'[u] = "registered" /\ UNCHANGED <<dir, inode, fd>>
    BY <1>10 DEF RegisterPendingUpload, Step, disk
  <2> QED
    BY <1>1, <1>2, <2>1 DEF OwnFile, SoleWriter
<1>11. CASE RefuseShard(u) \/ FailShard(u) \/ FailWhole(u)
  <2>1. handler'[u] = "failed"
    BY <1>11 DEF RefuseShard, FailShard, FailWhole, Step
  <2> QED
    BY <2>1 DEF OwnFile
<1> QED
  BY <1>4, <1>5, <1>6, <1>7, <1>8, <1>9, <1>10, <1>11 DEF HandlerStep

LEMMA OwnFilesStep ==
    QInv /\ FileInv /\ CompleteInv /\ OwnFiles /\ [Next]_vars => OwnFiles'
<1> SUFFICES ASSUME QInv, FileInv, CompleteInv, OwnFiles, [Next]_vars,
                    NEW u \in Uploads, Uncontested(u)'
             PROVE  OwnFile(u)'
  BY DEF OwnFiles
<1> USE DEF QInv, TypeInv, TypeOK
<1> DEFINE p == PathOf(u)

(* An upload that has not arrived has no file. *)
<1>1. CASE req[u] = None
  <2>1. handler[u] = "none"
    BY <1>1 DEF Arrived
  <2>2. ASSUME NEW v \in Uploads, Receive(v)
        PROVE  handler'[u] \in {"none", "shard", "whole"}
    BY <2>1, <2>2 DEF Receive, Step
  <2>3. UNCHANGED req => handler'[u] = "none"
    BY <1>1, TypeStep DEF Arrived
  <2>4. ASSUME NEW v \in Uploads, HandlerStep(v) \/ AcceptTx(v) \/ PassTenMinutes(v)
        PROVE  UNCHANGED req
    BY <2>4 DEF HandlerStep, OpenShard, StorePayload, StoreSignatures, RefuseShard,
                FailShard, StoreTemp, CheckExists, Rename, FailWhole, RegisterPendingUpload,
                AcceptTx, PassTenMinutes
  <2>5. VerifierStep \/ Restart \/ UNCHANGED vars => UNCHANGED req
    BY VerifierFiles DEF Restart, vars
  <2>6. handler'[u] \in {"none", "shard", "whole"}
    BY <2>2, <2>3, <2>4, <2>5 DEF Next
  <2> QED
    BY <2>6 DEF OwnFile
<1>2. CASE req[u] # None
  <2>1. Uncontested(u) /\ OwnFile(u) /\ p \in Path /\ PathOf(u)' = p
    BY <1>2, UncontestedBefore, PathFacts DEF OwnFiles
  <2>2. ASSUME handler'[u] = handler[u], inode'[u] = inode[u], fd'[u] = fd[u], dir'[p] = dir[p],
               outcome'[u] \in {"failed", "expired"} <=> outcome[u] \in {"failed", "expired"}
        PROVE  OwnFile(u)'
    BY <2>1, <2>2 DEF OwnFile, SoleWriter
  <2>3. ASSUME NEW v \in Uploads, Receive(v) PROVE OwnFile(u)'
    <3>1. v # u /\ UNCHANGED <<dir, inode, fd, outcome>> /\ handler'[u] = handler[u]
      BY <1>2, <2>3 DEF Receive, Step, Arrived, disk, results
    <3> QED
      BY <2>2, <3>1
  <2>4. ASSUME NEW v \in Uploads \ {u}, HandlerStep(v) PROVE OwnFile(u)'
    <3>1. /\ dir'[p] = dir[p]
          /\ inode'[u] = inode[u]
          /\ fd'[u] = fd[u] /\ handler'[u] = handler[u] /\ outcome'[u] = outcome[u]
      BY <1>2, <2>1, <2>4, OthersApart
    <3> QED
      BY <2>1, <3>1 DEF OwnFile, SoleWriter
  <2>5. HandlerStep(u) => OwnFile(u)'
    BY <2>1, OwnStep
  <2>6. CASE VerifierStep
    <3>1. UNCHANGED <<handler, inode, fd>>
      BY <2>6, VerifierFiles
    <3>2. CASE ConcludeRemove
      <4> DEFINE h == Head(toVerify)
      <4>1. /\ h \in Waiting
            /\ status \in {"failed", "expired"}
            /\ outcome' = [outcome EXCEPT ![h] = status]
            /\ dir' = [dir EXCEPT ![PathOf(h)] = None]
        BY <3>2, TailEntries DEF ConcludeRemove, Conclude, Settle, EntryToConclude, QueueInv
      <4>2. h \in Uploads /\ req[h] # None /\ handler[h] = "registered"
        BY <4>1 DEF Waiting, Arrived
      <4> HIDE DEF h
      <4>3. CASE h = u
        <5>1. handler'[u] = "registered" /\ dir'[p] = None
              /\ outcome'[u] \in {"failed", "expired"}
          BY <2>1, <3>1, <4>1, <4>2, <4>3
        <5>2. inode'[u].writers = {u}
          BY <2>1, <3>1, <4>2, <4>3 DEF OwnFile, SoleWriter
        <5> QED
          BY <2>1, <5>1, <5>2 DEF OwnFile, SoleWriter
      <4>4. CASE h # u
        <5>1. PathOf(h) # p
          BY <2>1, <4>2, <4>4 DEF Uncontested, SameFile
        <5>2. dir'[p] = dir[p] /\ outcome'[u] = outcome[u]
          BY <2>1, <4>1, <4>4, <5>1
        <5> QED
          BY <2>2, <3>1, <5>2
      <4> QED
        BY <4>3, <4>4
    <3>3. CASE ~ConcludeRemove
      <4>1. UNCHANGED dir
        BY <2>6, <3>3, VerifierFiles
      <4>2. \/ outcome' = outcome
            \/ \E w : outcome' = [outcome EXCEPT ![w] = "ok"]
            \/ \E w : outcome' = [outcome EXCEPT ![w] = "superseded"]
        BY <2>6, <3>3 DEF VerifierStep, TakePending, StartPass, Verify, ConcludeOK,
                          ConcludeRetry, Conclude, Settle, EndPass, results
      <4>3. outcome'[u] = outcome[u] \/ outcome[u] = "none"
        BY <2>6, ResultsFinal DEF Next
      <4>4. outcome'[u] \in {outcome[u], "ok", "superseded"}
        BY <4>2
      <4> QED
        BY <2>2, <3>1, <4>1, <4>3, <4>4
    <3> QED
      BY <3>2, <3>3
  <2>7. ASSUME NEW v \in Uploads, AcceptTx(v) \/ PassTenMinutes(v) PROVE OwnFile(u)'
    BY <2>2, <2>7 DEF AcceptTx, PassTenMinutes, disk, results
  <2>8. CASE UNCHANGED vars
    BY <2>2, <2>8 DEF vars, disk, results
  <2>9. CASE Restart
    <3>1. /\ UNCHANGED <<dir, inode>>
          /\ handler'[u] \in {handler[u], "failed"}
          /\ handler'[u] \notin {"open", "body", "temp", "checked", "written"}
          /\ outcome'[u] = outcome[u] \/ (outcome[u] = "none" /\ outcome'[u] = "lost")
      BY <2>9 DEF Restart, Running
    <3> QED
      BY <2>1, <3>1 DEF OwnFile, SoleWriter
  <2> QED
    BY <2>3, <2>4, <2>5, <2>6, <2>7, <2>8, <2>9 DEF Next
<1> QED
  BY <1>1, <1>2

(* The file of an upload that no other upload competes with is there,      *)
(* through any number of restarts and whatever other uploads do, until the *)
(* verification of that upload itself fails.  It is that upload's but for  *)
(* what a write failed to put down unnoticed, and of a shard that passed   *)
(* the verification the whole payload is there.                            *)
THEOREM UncontestedStaysStoredAlways == Spec => []UncontestedStaysStored
<1>1. Init => OwnFiles
  BY DEF Init, OwnFiles, OwnFile
<1>2. QInv /\ CompleteInv /\ OwnFiles /\ OkGenuine => UncontestedStaysStored
  <2> SUFFICES ASSUME CompleteInv, OwnFiles, OkGenuine, NEW u \in Uploads,
                      handler[u] \in {"written", "registered"}, Uncontested(u)
               PROVE  IF outcome[u] \in {"failed", "expired"}
                      THEN dir[PathOf(u)] = None
                      ELSE /\ dir[PathOf(u)] = u
                           /\ HasAll(u, u)
                           /\ outcome[u] = "ok" /\ PathOf(u) \in ShardPath => inode[u].payload = u
    BY DEF UncontestedStaysStored
  <2>1. SoleWriter(u, u)
        /\ dir[PathOf(u)] = IF outcome[u] \in {"failed", "expired"} THEN None ELSE u
    BY DEF OwnFiles, OwnFile
  <2>2. HasAll(u, u)
    BY <2>1 DEF CompleteInv, WriterKnown, WriterState
  <2>3. outcome[u] = "ok" /\ PathOf(u) \in ShardPath => "payload" \notin unwritten[u]
    BY DEF OkGenuine, Genuine, Matches
  <2> QED
    BY <2>1, <2>2, <2>3 DEF HasAll
<1> QED
  BY <1>1, <1>2, OwnFilesStep, FilesCorrect, OkGenuineAlways, QueuesCorrect, PTL DEF Spec

-----------------------------------------------------------------------------
(* The refinement of UploadLifecycle                                       *)

(* The upload whose result the verifier has and has not acted upon.        *)
Concluding(u) == verifier = "verified" /\ status = "ok" /\ u = Head(toVerify)

(* What the activity log, which survives a crash, says of the results.     *)
ActivityInv ==
    /\ \A u \in activity :
        /\ handler[u] = "registered"
        /\ \/ outcome[u] \in {"ok", "lost"}
           \/ (outcome[u] = "none" /\ Concluding(u))
    /\ \A u \in Uploads : outcome[u] = "ok" => u \in activity

RInv == QInv /\ VerdictSound /\ ActivityInv

-----------------------------------------------------------------------------
(* Stages                                                                  *)

LEMMA StageFacts ==
    ASSUME QInv, ActivityInv, NEW u \in Uploads
    PROVE  /\ Stage(u) \in {"absent", "receiving", "awaiting", "aborted", "verified",
                            "rejected", "superseded", "lost"}
           /\ Stage(u) = "absent" <=> req[u] = None
           /\ Stage(u) = "receiving" <=> handler[u] \in Running
           /\ Stage(u) = "awaiting" <=> u \in Waiting \ activity
           /\ Stage(u) = "verified" <=> u \in activity
<1>1. /\ handler[u] \in {"none"} \cup Running \cup Ended
      /\ outcome[u] \in {"none", "ok", "failed", "expired", "superseded", "lost"}
      /\ req[u] = None <=> handler[u] = "none"
      /\ outcome[u] # "none" => handler[u] = "registered"
      /\ u \in activity => handler[u] = "registered"
      /\ outcome[u] = "ok" => u \in activity
  BY DEF QInv, TypeInv, TypeOK, Arrived, ResultsOfRegistered, ActivityInv
<1>2. /\ "none" \notin Running /\ "registered" \notin Running /\ "failed" \notin Running
      /\ Ended = {"registered", "failed"}
  BY DEF Running, Ended
<1>3. u \in Waiting <=> handler[u] = "registered" /\ outcome[u] = "none"
  BY DEF Waiting
<1>4. CASE u \in activity
  BY <1>1, <1>2, <1>4 DEF Stage
<1>5. CASE u \notin activity /\ outcome[u] # "none"
  BY <1>1, <1>2, <1>3, <1>5 DEF Stage
<1>6. CASE u \notin activity /\ outcome[u] = "none"
  <2>1. CASE handler[u] = "none"
    BY <1>1, <1>2, <1>3, <1>6, <2>1 DEF Stage
  <2>2. CASE handler[u] \in Running
    BY <1>1, <1>2, <1>3, <1>6, <2>2 DEF Stage
  <2>3. CASE handler[u] \in {"registered", "failed"}
    BY <1>1, <1>2, <1>3, <1>6, <2>3 DEF Stage
  <2> QED
    BY <1>1, <1>2, <2>1, <2>2, <2>3
<1> QED
  BY <1>4, <1>5, <1>6

(* The stage of an upload depends on three things only.                    *)
LEMMA StageKept ==
    ASSUME QInv, ActivityInv, NEW u \in Uploads,
           handler'[u] = handler[u], outcome'[u] = outcome[u], u \in activity' <=> u \in activity
    PROVE  Stage(u)' = Stage(u)
<1>1. /\ handler[u] \in {"none"} \cup Running \cup Ended
      /\ outcome[u] \in {"none", "ok", "failed", "expired", "superseded", "lost"}
      /\ outcome[u] = "ok" => u \in activity
  BY DEF QInv, TypeInv, TypeOK, ActivityInv
<1>2. /\ "none" \notin Running /\ "registered" \notin Running /\ "failed" \notin Running
      /\ Ended = {"registered", "failed"}
  BY DEF Running, Ended
<1>3. CASE u \in activity
  BY <1>3 DEF Stage
<1>4. CASE u \notin activity /\ outcome[u] # "none"
  BY <1>1, <1>4 DEF Stage
<1>5. CASE u \notin activity /\ outcome[u] = "none"
  <2>1. CASE handler[u] = "none"
    BY <1>2, <1>5, <2>1 DEF Stage
  <2>2. CASE handler[u] \in Running
    BY <1>2, <1>5, <2>2 DEF Stage
  <2>3. CASE handler[u] \in {"registered", "failed"}
    BY <1>2, <1>5, <2>3 DEF Stage
  <2> QED
    BY <1>1, <1>2, <2>1, <2>2, <2>3
<1> QED
  BY <1>3, <1>4, <1>5

LEMMA StagesKept ==
    ASSUME QInv, ActivityInv, UNCHANGED <<handler, outcome, activity>>
    PROVE  UNCHANGED stage
<1>1. \A u \in Uploads : Stage(u)' = Stage(u)
  BY StageKept
<1> QED
  BY <1>1 DEF stage

LEMMA RequestsKept ==
    ASSUME UNCHANGED req
    PROVE  UNCHANGED <<file, genuine>>
BY DEF file, genuine, PathOf

LEMMA MoveFacts ==
    ASSUME QInv, ActivityInv, NEW u \in Uploads, NEW to, Stage(u)' = to,
           \A w \in Uploads \ {u} : handler'[w] = handler[w] /\ outcome'[w] = outcome[w]
                                    /\ (w \in activity' <=> w \in activity)
    PROVE  Lifecycle!Move(u, Stage(u), to)
<1>1. \A w \in Uploads \ {u} : Stage(w)' = Stage(w)
  BY StageKept
<1>2. stage' = [stage EXCEPT ![u] = to]
  BY <1>1 DEF stage
<1>3. stage[u] = Stage(u)
  BY DEF stage
<1> QED
  BY <1>2, <1>3 DEF Lifecycle!Move

(* Waiting uploads are the entries of the queues.                          *)
LEMMA EntryFacts ==
    ASSUME QInv
    PROVE  /\ toVerify # <<>> => Head(toVerify) \in Waiting
           /\ uploadsPendingChan # <<>> => Head(uploadsPendingChan) \in Waiting
           /\ \A i \in DOMAIN toVerify : toVerify[i] \in Waiting
           /\ ToSet(uploadsPendingChan) \cap ToSet(toVerify) = {}
<1>1. toVerify \in Seq(Uploads) /\ uploadsPendingChan \in Seq(Uploads)
  BY DEF QInv, TypeInv, TypeOK
<1>2. IsInjective(toVerify) /\ IsInjective(uploadsPendingChan)
  BY DEF QInv, QueueInv
<1>3. ToSet(toVerify) \subseteq Waiting /\ ToSet(uploadsPendingChan) \subseteq Waiting
  BY DEF QInv, QueueInv
<1>4. toVerify # <<>> => Head(toVerify) \in ToSet(toVerify)
  BY <1>1, <1>2, TailEntries
<1>5. uploadsPendingChan # <<>> => Head(uploadsPendingChan) \in ToSet(uploadsPendingChan)
  BY <1>1, <1>2, TailEntries
<1> QED
  BY <1>3, <1>4, <1>5 DEF ToSet, QInv, QueueInv

(* What is in the activity log and waits is being concluded.               *)
LEMMA WaitingActive ==
    ASSUME ActivityInv, NEW u \in Waiting, u \in activity
    PROVE  Concluding(u)
BY DEF ActivityInv, Waiting

LEMMA OthersSteps ==
    ASSUME NEW v \in Uploads, Receive(v) \/ HandlerStep(v) \/ AcceptTx(v) \/ PassTenMinutes(v)
    PROVE  /\ UNCHANGED <<verifier, status, toVerify, activity, announced, outcome, remaining>>
           /\ \/ UNCHANGED handler
              \/ \E h : handler[v] # "registered" /\ handler' = [handler EXCEPT ![v] = h]
BY DEF HandlerStep, Receive, OpenShard, StorePayload, StoreSignatures, RefuseShard, FailShard,
       StoreTemp, CheckExists, Rename, FailWhole, RegisterPendingUpload, AcceptTx,
       PassTenMinutes, Step, results, loop, queues, Running

LEMMA ActivityStep ==
    RInv /\ [Next]_vars => ActivityInv'
<1> SUFFICES ASSUME RInv, [Next]_vars PROVE ActivityInv'
  OBVIOUS
<1> USE DEF RInv
<1>1. /\ handler \in [Uploads -> {"none"} \cup Running \cup Ended]
      /\ outcome \in [Uploads -> {"none", "ok", "failed", "expired", "superseded", "lost"}]
      /\ activity \subseteq Uploads
  BY DEF QInv, TypeInv, TypeOK
<1>2. ASSUME NEW v \in Uploads, Receive(v) \/ HandlerStep(v) \/ AcceptTx(v) \/ PassTenMinutes(v)
      PROVE  ActivityInv'
  <2>1. \A u \in Uploads : handler[u] = "registered" => handler'[u] = handler[u]
    BY <1>1, <1>2, OthersSteps
  <2>2. UNCHANGED <<verifier, status, toVerify, activity, outcome>>
    BY <1>2, OthersSteps
  <2> QED
    BY <1>1, <2>1, <2>2 DEF ActivityInv, Concluding
<1>3. ASSUME UNCHANGED <<handler, activity>>, \A u \in Uploads : ~ Concluding(u),
             \A u \in Uploads : outcome[u] # "none" => outcome'[u] = outcome[u],
             \A u \in Uploads : outcome'[u] # outcome[u] => outcome'[u] # "ok"
      PROVE  ActivityInv'
  BY <1>1, <1>3 DEF ActivityInv
<1>4. \A u \in Uploads : outcome[u] # "none" => outcome'[u] = outcome[u]
  BY ResultsFinal
<1>5. CASE TakePending
  BY <1>1, <1>3, <1>4, <1>5 DEF TakePending, Concluding
<1>6. CASE StartPass \/ EndPass
  BY <1>3, <1>4, <1>6 DEF StartPass, EndPass, Concluding, results
<1>7. CASE Verify
  <2> DEFINE h == Head(toVerify)
  <2>1. /\ verifier = "pass" /\ verifier' = "verified" /\ toVerify # <<>>
        /\ UNCHANGED <<handler, toVerify, outcome>>
        /\ activity' = IF status' = "ok" THEN activity \cup {h} ELSE activity
    BY <1>7 DEF Verify, queues
  <2>2. h \in Waiting
    BY <2>1, EntryFacts
  <2>3. ASSUME NEW u \in activity'
        PROVE  /\ handler'[u] = "registered"
               /\ outcome'[u] \in {"ok", "lost"} \/ (outcome'[u] = "none" /\ Concluding(u)')
    <3>1. CASE u \in activity
      <4>1. ~ Concluding(u)
        BY <2>1 DEF Concluding
      <4>2. handler[u] = "registered" /\ outcome[u] \in {"ok", "lost"}
        BY <3>1, <4>1 DEF ActivityInv
      <4>3. handler'[u] = "registered" /\ outcome'[u] \in {"ok", "lost"}
        BY <2>1, <4>2
      <4> QED
        BY <4>3
    <3>2. CASE u \notin activity
      BY <2>1, <2>2, <2>3, <3>2 DEF Waiting, Concluding
    <3> QED
      BY <3>1, <3>2
  <2>4. \A u \in Uploads : outcome'[u] = "ok" => u \in activity'
    BY <2>1 DEF ActivityInv
  <2> QED
    BY <2>3, <2>4 DEF ActivityInv
<1>8. CASE ConcludeOK
  <2> DEFINE h == Head(toVerify)
  <2>1. /\ verifier = "verified" /\ status = "ok"
        /\ UNCHANGED <<handler, activity>>
        /\ outcome' = [outcome EXCEPT ![h] = "ok"]
    BY <1>8 DEF ConcludeOK, Conclude, Settle
  <2>2. h \in activity
    BY <2>1 DEF VerdictSound, Genuine
  <2> QED
    BY <1>1, <2>1, <2>2 DEF ActivityInv, Concluding
<1>9. CASE ConcludeRemove \/ ConcludeRetry
  <2>1. /\ status \in {"failed", "expired", "unknown"}
        /\ UNCHANGED <<handler, activity>>
        /\ \/ outcome' = [outcome EXCEPT ![Head(toVerify)] = status]
           \/ UNCHANGED outcome
    BY <1>9 DEF ConcludeRemove, ConcludeRetry, Conclude, Settle
  <2>2. \A u \in Uploads : ~ Concluding(u)
    BY <2>1 DEF Concluding
  <2> QED
    BY <1>1, <1>3, <1>4, <2>1, <2>2
<1>10. CASE Restart
  <2>1. /\ UNCHANGED activity
        /\ outcome' = [u \in Uploads |->
             IF handler[u] = "registered" /\ outcome[u] = "none" THEN "lost" ELSE outcome[u]]
        /\ \A u \in Uploads : handler[u] = "registered" => handler'[u] = "registered"
    BY <1>10 DEF Restart, Running
  <2> QED
    BY <1>1, <2>1 DEF ActivityInv
<1>11. CASE UNCHANGED vars
  BY <1>11 DEF vars, results, loop, queues, ActivityInv, Concluding
<1> QED
  BY <1>2, <1>5, <1>6, <1>7, <1>8, <1>9, <1>10, <1>11 DEF Next, VerifierStep

-----------------------------------------------------------------------------
(* The simulation                                                          *)

LEMMA HandlerSimulation ==
    ASSUME RInv, NEW u \in Uploads, Receive(u) \/ HandlerStep(u)
    PROVE  [Lifecycle!Next]_Lifecycle!vars
<1> USE DEF RInv
<1>1. /\ handler \in [Uploads -> {"none"} \cup Running \cup Ended]
      /\ req \in [Uploads -> Request \cup {None}]
      /\ UNCHANGED <<activity, announced, outcome, txAccepted>>
  BY DEF QInv, TypeInv, TypeOK, HandlerStep, Receive, OpenShard, StorePayload, StoreSignatures,
         RefuseShard, FailShard, StoreTemp, CheckExists, Rename, FailWhole,
         RegisterPendingUpload, results, world
<1>2. ASSUME NEW h, handler' = [handler EXCEPT ![u] = h], NEW to, Stage(u)' = to
      PROVE  Lifecycle!Move(u, Stage(u), to)
  BY <1>1, <1>2, MoveFacts
<1>3. handler[u] # "registered" => u \notin activity /\ outcome[u] = "none"
  BY DEF ActivityInv, QInv, ResultsOfRegistered
<1>4. /\ "none" \notin Running /\ "registered" \notin Running /\ "failed" \notin Running
      /\ {"shard", "whole", "open", "body", "temp", "checked", "written"} = Running
  BY DEF Running
<1>5. CASE Receive(u)
  <2>1. PICK r \in Request :
          /\ handler[u] = "none"
          /\ handler' = [handler EXCEPT ![u] = IF r.path \in ShardPath THEN "shard" ELSE "whole"]
          /\ req' = [req EXCEPT ![u] = r]
    BY <1>5 DEF Receive, Step
  <2>2. Stage(u) = "absent" /\ Stage(u)' = "receiving"
    <3>1. handler'[u] \in Running /\ handler'[u] # "none"
      BY <1>1, <1>4, <2>1
    <3> QED
      BY <1>1, <1>3, <1>4, <2>1, <3>1 DEF Stage
  <2>3. Lifecycle!Move(u, "absent", "receiving")
    BY <1>2, <2>1, <2>2
  <2>4. r # None /\ r.path \in Path
    BY RequestNotNone DEF Request
  <2>5. file' = [file EXCEPT ![u] = r.path]
    BY <1>1, <2>1, <2>4 DEF file, PathOf
  <2>6. genuine' \in {genuine, genuine \cup {u}}
    <3>1. req[u] = None
      BY <2>1 DEF QInv, TypeInv, Arrived
    <3> QED
      BY <1>1, <2>1, <2>4, <3>1 DEF genuine
  <2>7. Lifecycle!Arrive(u)
    BY <1>1, <2>3, <2>4, <2>5, <2>6 DEF Lifecycle!Arrive
  <2> QED
    BY <2>7 DEF Lifecycle!Next
<1>6. CASE HandlerStep(u)
  <2>1. /\ UNCHANGED req
        /\ handler[u] \in Running
        /\ \E h \in Running \cup Ended : handler' = [handler EXCEPT ![u] = h]
    BY <1>4, <1>6 DEF HandlerStep, OpenShard, StorePayload, StoreSignatures, RefuseShard,
                      FailShard, StoreTemp, CheckExists, Rename, FailWhole,
                      RegisterPendingUpload, Step, Ended
  <2>2. UNCHANGED <<file, genuine>>
    BY <2>1, RequestsKept
  <2>3. PICK h \in Running \cup Ended : handler' = [handler EXCEPT ![u] = h]
    BY <2>1
  <2>4. Stage(u) = "receiving" /\ u \notin activity' /\ outcome'[u] = "none" /\ handler'[u] = h
    BY <1>1, <1>3, <1>4, <2>1, <2>3 DEF Stage
  <2>5. CASE h \in Running
    <3>1. Stage(u)' = "receiving"
      BY <1>4, <2>4, <2>5 DEF Stage
    <3>2. Lifecycle!Move(u, "receiving", "receiving")
      BY <1>2, <2>3, <2>4, <3>1
    <3>3. stage' = stage
      BY <3>2 DEF Lifecycle!Move, stage
    <3> QED
      BY <1>1, <2>2, <3>3 DEF Lifecycle!vars
  <2>6. CASE h = "failed"
    <3>1. Stage(u)' = "aborted"
      BY <1>4, <2>4, <2>6 DEF Stage
    <3>2. Lifecycle!Abort(u)
      BY <1>1, <1>2, <2>2, <2>3, <2>4, <3>1 DEF Lifecycle!Abort
    <3> QED
      BY <3>2 DEF Lifecycle!Next
  <2>7. CASE h = "registered"
    <3>1. Stage(u)' = "awaiting"
      BY <1>4, <2>4, <2>7 DEF Stage
    <3>2. Lifecycle!Accept(u)
      BY <1>1, <1>2, <2>2, <2>3, <2>4, <3>1 DEF Lifecycle!Accept
    <3> QED
      BY <3>2 DEF Lifecycle!Next
  <2> QED
    BY <2>5, <2>6, <2>7 DEF Ended
<1> QED
  BY <1>5, <1>6

LEMMA TakePendingSimulation ==
    ASSUME RInv, TakePending
    PROVE  [Lifecycle!Next]_Lifecycle!vars
<1> USE DEF RInv
<1>1. /\ verifier = "select" /\ uploadsPendingChan # <<>>
      /\ UNCHANGED <<req, handler, activity, announced, txAccepted>>
  BY DEF TakePending, world
<1>2. UNCHANGED <<file, genuine>>
  BY <1>1, RequestsKept
<1>3. CASE UNCHANGED outcome
  <2>1. UNCHANGED stage
    BY <1>1, <1>3, StagesKept
  <2> QED
    BY <1>1, <1>2, <2>1 DEF Lifecycle!vars
<1>4. ASSUME NEW i \in DOMAIN toVerify, FirstFor(Head(uploadsPendingChan), i),
             outcome' = [outcome EXCEPT ![toVerify[i]] = "superseded"]
      PROVE  [Lifecycle!Next]_Lifecycle!vars
  <2>1. PICK u : u = toVerify[i]
    OBVIOUS
  <2>2. PICK v : v = Head(uploadsPendingChan)
    OBVIOUS
  <2>3. u \in Waiting /\ v \in Waiting /\ u # v /\ SameFile(u, v)
    <3>1. u \in ToSet(toVerify) /\ v \in ToSet(uploadsPendingChan)
      <4>1. uploadsPendingChan \in Seq(Uploads) /\ IsInjective(uploadsPendingChan)
        BY DEF QInv, TypeInv, TypeOK, QueueInv
      <4> QED
        BY <1>1, <2>1, <2>2, <4>1, TailEntries DEF ToSet
    <3>2. u # v
      BY <3>1, EntryFacts
    <3> QED
      BY <1>1, <1>4, <2>1, <2>2, <3>2, EntryFacts DEF FirstFor
  <2>4. \A w \in Waiting : w \notin activity
    BY <1>1, WaitingActive DEF Concluding
  <2>5. u \in Uploads /\ v \in Uploads /\ req[u] # None /\ req[v] # None
    BY <2>3 DEF Waiting, QInv, TypeInv, Arrived
  <2>6. Stage(u) = "awaiting" /\ Stage(v) = "awaiting"
    BY <2>3, <2>4, <2>5, StageFacts
  <2>7. outcome \in [Uploads -> {"none", "ok", "failed", "expired", "superseded", "lost"}]
    BY DEF QInv, TypeInv, TypeOK
  <2>8. outcome' = [outcome EXCEPT ![u] = "superseded"]
    BY <1>4, <2>1
  <2>9. Stage(u)' = "superseded"
    <3>1. outcome'[u] = "superseded" /\ u \notin activity'
      BY <1>1, <2>3, <2>4, <2>5, <2>7, <2>8
    <3> QED
      BY <3>1 DEF Stage
  <2>10. Lifecycle!Move(u, "awaiting", "superseded")
    BY <1>1, <2>5, <2>6, <2>7, <2>8, <2>9, MoveFacts
  <2>11. stage[v] = "awaiting" /\ file[v] = file[u]
    BY <2>3, <2>5, <2>6 DEF stage, file, SameFile
  <2>12. Lifecycle!Supersede(u)
    BY <1>1, <1>2, <2>3, <2>5, <2>10, <2>11 DEF Lifecycle!Supersede
  <2> QED
    BY <2>5, <2>12 DEF Lifecycle!Next
<1> QED
  BY <1>3, <1>4 DEF TakePending

LEMMA VerifySimulation ==
    ASSUME RInv, Verify
    PROVE  [Lifecycle!Next]_Lifecycle!vars
<1> USE DEF RInv
<1>1. PICK u : u = Head(toVerify)
  OBVIOUS
<1>2. /\ verifier = "pass" /\ toVerify # <<>>
      /\ UNCHANGED <<req, handler, outcome, announced, txAccepted>>
      /\ \/ UNCHANGED activity
         \/ "ok" \in Verdicts(u) /\ activity' = activity \cup {u}
  BY <1>1 DEF Verify, world
<1>3. UNCHANGED <<file, genuine>>
  BY <1>2, RequestsKept
<1>4. CASE UNCHANGED activity
  <2>1. UNCHANGED stage
    BY <1>2, <1>4, StagesKept
  <2> QED
    BY <1>2, <1>3, <1>4, <2>1 DEF Lifecycle!vars
<1>5. CASE "ok" \in Verdicts(u) /\ activity' = activity \cup {u}
  <2>1. u \in Waiting
    BY <1>1, <1>2, EntryFacts
  <2>2. u \in txAccepted /\ req[u].valid
    BY <1>5 DEF Verdicts, Matches
  <2>3. u \in Uploads /\ req[u] # None /\ u \notin activity
    BY <1>2, <2>1, WaitingActive DEF Waiting, QInv, TypeInv, Arrived, Concluding
  <2>4. Stage(u) = "awaiting"
    BY <2>1, <2>3, StageFacts
  <2>5. Stage(u)' = "verified"
    BY <1>5 DEF Stage
  <2>6. Lifecycle!Move(u, "awaiting", "verified")
    BY <1>2, <1>5, <2>3, <2>4, <2>5, MoveFacts
  <2>7. u \in genuine \cap txAccepted
    BY <2>2, <2>3 DEF genuine
  <2>8. Lifecycle!Verify(u)
    BY <1>2, <1>3, <2>6, <2>7 DEF Lifecycle!Verify
  <2> QED
    BY <2>3, <2>8 DEF Lifecycle!Next
<1> QED
  BY <1>2, <1>4, <1>5

LEMMA ConcludeSimulation ==
    ASSUME RInv, ConcludeOK \/ ConcludeRemove \/ ConcludeRetry
    PROVE  [Lifecycle!Next]_Lifecycle!vars
<1> USE DEF RInv
<1>1. PICK u : u = Head(toVerify)
  OBVIOUS
<1>2. /\ verifier = "verified"
      /\ UNCHANGED <<req, handler, activity, txAccepted>>
  BY DEF ConcludeOK, ConcludeRemove, ConcludeRetry, Conclude, world
<1>3. u \in Waiting
  BY <1>1, <1>2, EntryFacts DEF QInv, TypeInv, EntryToConclude
<1>4. UNCHANGED <<file, genuine>>
  BY <1>2, RequestsKept
<1>5. outcome \in [Uploads -> {"none", "ok", "failed", "expired", "superseded", "lost"}]
  BY DEF QInv, TypeInv, TypeOK
<1>6. CASE ConcludeOK
  <2>1. /\ status = "ok"
        /\ outcome' = [outcome EXCEPT ![u] = "ok"]
        /\ announced' \in {announced, announced \cup {u}}
    BY <1>1, <1>6 DEF ConcludeOK, Conclude, Settle
  <2>2. u \in activity
    BY <1>1, <1>2, <2>1 DEF VerdictSound, Genuine
  <2>3. u \in Uploads /\ Stage(u) = "verified" /\ Stage(u)' = "verified"
    <3>1. u \in Uploads
      BY <1>3 DEF Waiting
    <3>2. u \in activity'
      BY <1>2, <2>2
    <3> QED
      BY <2>2, <3>1, <3>2 DEF Stage
  <2>4. Lifecycle!Move(u, "verified", "verified")
    BY <1>2, <1>5, <2>1, <2>3, MoveFacts
  <2>5. stage' = stage /\ stage[u] = "verified"
    BY <2>4 DEF Lifecycle!Move, stage
  <2>6. CASE announced' = announced
    BY <1>2, <1>4, <2>5, <2>6 DEF Lifecycle!vars
  <2>7. CASE announced' = announced \cup {u}
    <3>1. Lifecycle!Publish(u)
      BY <1>2, <1>4, <2>5, <2>7 DEF Lifecycle!Publish
    <3> QED
      BY <2>3, <3>1 DEF Lifecycle!Next
  <2> QED
    BY <2>1, <2>6, <2>7
<1>7. CASE ConcludeRemove
  <2>1. /\ status \in {"failed", "expired"}
        /\ outcome' = [outcome EXCEPT ![u] = status]
        /\ UNCHANGED announced
    BY <1>1, <1>7 DEF ConcludeRemove, Conclude, Settle
  <2>2. u \notin activity
    BY <1>3, <2>1, WaitingActive DEF Concluding
  <2>3. u \in Uploads /\ Stage(u) = "awaiting"
    BY <1>3, <2>2, StageFacts DEF Waiting
  <2>4. Stage(u)' = "rejected"
    <3>1. outcome'[u] \in {"failed", "expired"} /\ u \notin activity'
      BY <1>2, <1>5, <2>1, <2>2, <2>3
    <3> QED
      BY <3>1 DEF Stage
  <2>5. Lifecycle!Move(u, "awaiting", "rejected")
    BY <1>2, <1>5, <2>1, <2>3, <2>4, MoveFacts
  <2>6. Lifecycle!Reject(u)
    BY <1>2, <1>4, <2>1, <2>5 DEF Lifecycle!Reject
  <2> QED
    BY <2>3, <2>6 DEF Lifecycle!Next
<1>8. CASE ConcludeRetry
  <2>1. UNCHANGED <<outcome, announced>>
    BY <1>8 DEF ConcludeRetry
  <2>2. UNCHANGED stage
    BY <1>2, <2>1, StagesKept
  <2> QED
    BY <1>2, <1>4, <2>1, <2>2 DEF Lifecycle!vars
<1> QED
  BY <1>6, <1>7, <1>8

LEMMA RestartSimulation ==
    ASSUME RInv, Restart
    PROVE  [Lifecycle!Next]_Lifecycle!vars
<1> USE DEF RInv
<1>1. /\ handler \in [Uploads -> {"none"} \cup Running \cup Ended]
      /\ outcome \in [Uploads -> {"none", "ok", "failed", "expired", "superseded", "lost"}]
      /\ UNCHANGED <<req, activity, announced, txAccepted>>
      /\ handler' = [u \in Uploads |-> IF handler[u] \in Running THEN "failed" ELSE handler[u]]
      /\ outcome' = [u \in Uploads |->
            IF handler[u] = "registered" /\ outcome[u] = "none" THEN "lost" ELSE outcome[u]]
  BY DEF QInv, TypeInv, TypeOK, Restart
<1>2. UNCHANGED <<file, genuine>>
  BY <1>1, RequestsKept
<1>3. /\ "none" \notin Running /\ "registered" \notin Running /\ "failed" \notin Running
      /\ Ended = {"registered", "failed"}
  BY DEF Running, Ended
<1>4. ASSUME NEW u \in Uploads
      PROVE  Stage(u)' = CASE Stage(u) = "receiving" -> "aborted"
                           [] Stage(u) = "awaiting" -> "lost"
                           [] Stage(u) \notin {"receiving", "awaiting"} -> Stage(u)
  <2>1. CASE handler[u] \in Running
    <3>1. Stage(u) = "receiving" /\ u \notin activity' /\ outcome'[u] = "none"
      BY <1>1, <1>3, <2>1, StageFacts DEF ActivityInv, QInv, ResultsOfRegistered
    <3>2. handler'[u] = "failed"
      BY <1>1, <2>1
    <3>3. Stage(u)' = "aborted"
      BY <1>3, <3>1, <3>2 DEF Stage
    <3> QED
      BY <3>1, <3>3
  <2>2. CASE u \in Waiting \ activity
    <3>1. Stage(u) = "awaiting"
      BY <2>2, StageFacts
    <3>2. outcome'[u] = "lost" /\ u \notin activity'
      BY <1>1, <2>2 DEF Waiting
    <3>3. Stage(u)' = "lost"
      BY <3>2 DEF Stage
    <3> QED
      BY <3>1, <3>3
  <2>3. CASE handler[u] \notin Running /\ u \notin Waiting \ activity
    <3>1. Stage(u) # "receiving" /\ Stage(u) # "awaiting"
      BY <2>3, StageFacts
    <3>2. Stage(u)' = Stage(u)
      <4>1. CASE u \in activity
        BY <1>1, <4>1 DEF Stage
      <4>2. CASE u \notin activity
        <5>1. handler'[u] = handler[u] /\ outcome'[u] = outcome[u]
          BY <1>1, <2>3, <4>2 DEF Waiting
        <5> QED
          BY <1>1, <5>1, StageKept
      <4> QED
        BY <4>1, <4>2
    <3> QED
      BY <3>1, <3>2
  <2> QED
    BY <2>1, <2>2, <2>3
<1>5. stage' = [u \in Uploads |->
            CASE stage[u] = "receiving" -> "aborted"
              [] stage[u] = "awaiting" -> "lost"
              [] stage[u] \notin {"receiving", "awaiting"} -> stage[u]]
  BY <1>4 DEF stage
<1>6. Lifecycle!Crash
  BY <1>1, <1>2, <1>5 DEF Lifecycle!Crash
<1> QED
  BY <1>6 DEF Lifecycle!Next

LEMMA AcceptTxSimulation ==
    ASSUME RInv, NEW u \in Uploads, AcceptTx(u)
    PROVE  [Lifecycle!Next]_Lifecycle!vars
<1> USE DEF RInv
<1>1. /\ req[u] # None
      /\ txAccepted' = txAccepted \cup {u}
      /\ UNCHANGED <<req, handler, outcome, activity, announced>>
  BY DEF AcceptTx, results
<1>2. UNCHANGED <<file, genuine, stage>>
  BY <1>1, RequestsKept, StagesKept
<1>3. stage[u] # "absent"
  BY <1>1, StageFacts DEF stage
<1>4. Lifecycle!Pay(u)
  BY <1>1, <1>2, <1>3 DEF Lifecycle!Pay
<1> QED
  BY <1>4 DEF Lifecycle!Next

(* Steps that only move the verifier's lists or the clock.                 *)
LEMMA Stutters ==
    ASSUME RInv, UNCHANGED <<req, handler, outcome, activity, announced, txAccepted>>
    PROVE  UNCHANGED Lifecycle!vars
BY StagesKept, RequestsKept DEF RInv, Lifecycle!vars

LEMMA StepSimulation ==
    RInv /\ [Next]_vars => [Lifecycle!Next]_Lifecycle!vars
<1> SUFFICES ASSUME RInv, [Next]_vars PROVE [Lifecycle!Next]_Lifecycle!vars
  OBVIOUS
<1>1. ASSUME NEW u \in Uploads, Receive(u) \/ HandlerStep(u)
      PROVE  [Lifecycle!Next]_Lifecycle!vars
  BY <1>1, HandlerSimulation
<1>2. CASE TakePending
  BY <1>2, TakePendingSimulation
<1>3. CASE Verify
  BY <1>3, VerifySimulation
<1>4. CASE ConcludeOK \/ ConcludeRemove \/ ConcludeRetry
  BY <1>4, ConcludeSimulation
<1>5. CASE StartPass \/ EndPass
  BY <1>5, Stutters DEF StartPass, EndPass, results, world
<1>6. ASSUME NEW u \in Uploads, AcceptTx(u)
      PROVE  [Lifecycle!Next]_Lifecycle!vars
  BY <1>6, AcceptTxSimulation
<1>7. ASSUME NEW u \in Uploads, PassTenMinutes(u)
      PROVE  [Lifecycle!Next]_Lifecycle!vars
  BY <1>7, Stutters DEF PassTenMinutes, results
<1>8. CASE Restart
  BY <1>8, RestartSimulation
<1>9. CASE UNCHANGED vars
  BY <1>9, Stutters DEF vars, results, world
<1> QED
  BY <1>1, <1>2, <1>3, <1>4, <1>5, <1>6, <1>7, <1>8, <1>9 DEF Next, VerifierStep

LEMMA InitSimulation ==
    Init => Lifecycle!Init /\ ActivityInv /\ VerdictSound
<1> SUFFICES ASSUME Init PROVE Lifecycle!Init /\ ActivityInv /\ VerdictSound
  OBVIOUS
<1>1. ASSUME NEW u \in Uploads PROVE Stage(u) = "absent"
  <2>1. u \notin activity /\ outcome[u] = "none" /\ handler[u] = "none"
    BY DEF Init
  <2>2. "none" \notin Running
    BY DEF Running
  <2> QED
    BY <2>1, <2>2 DEF Stage
<1>2. file = [u \in Uploads |-> None] /\ genuine = {} /\ stage = [u \in Uploads |-> "absent"]
  BY <1>1 DEF Init, file, genuine, stage
<1>3. Lifecycle!Init
  BY <1>2 DEF Init, Lifecycle!Init
<1>4. ActivityInv /\ VerdictSound
  BY DEF Init, ActivityInv, VerdictSound
<1> QED
  BY <1>3, <1>4

(* Whatever the handlers, the verifier, the blockchain and crashes do, in  *)
(* a provider with any number of uploads, every behaviour of the pipeline  *)
(* is one of UploadLifecycle: the goroutines of uploadHandler and          *)
(* VerifyPendingUploads keep the promise made to the uploader.             *)
THEOREM LifecycleImplemented == Spec => ImplementsLifecycle
<1>1. Spec => []QInv
  BY QueuesCorrect
<1>2. Init => Lifecycle!Init /\ ActivityInv /\ VerdictSound
  BY InitSimulation
<1>3. QInv /\ VerdictSound /\ [Next]_vars => VerdictSound'
  BY VerdictStep
<1>4. QInv /\ VerdictSound /\ ActivityInv /\ [Next]_vars => ActivityInv'
  BY ActivityStep DEF RInv
<1>5. QInv /\ VerdictSound /\ ActivityInv /\ [Next]_vars => [Lifecycle!Next]_Lifecycle!vars
  BY StepSimulation DEF RInv
<1> QED
  BY <1>1, <1>2, <1>3, <1>4, <1>5, PTL DEF Spec, ImplementsLifecycle, Lifecycle!Spec
-----------------------------------------------------------------------------
(* Nobody waits for ever on somebody who waits                             *)

(* The verifier can take the next step from wherever it is: one of the     *)
(* entries for a file is the first, an upload has a verdict, which is not  *)
(* "unknown" once ten minutes have passed, and when it comes to the switch *)
(* on the status there is an entry to conclude and a case for it.          *)
VerifierAble ==
    /\ verifier = "select" /\ uploadsPendingChan # <<>> =>
         \/ \A i \in DOMAIN toVerify : ~SameFile(toVerify[i], Head(uploadsPendingChan))
         \/ \E i \in DOMAIN toVerify : FirstFor(Head(uploadsPendingChan), i)
    /\ verifier = "pass" /\ toVerify # <<>> =>
         /\ Verdicts(Head(toVerify)) # {}
         /\ Head(toVerify) \in late => "unknown" \notin Verdicts(Head(toVerify))
    /\ verifier = "verified" =>
         /\ toVerify # <<>>
         /\ status \in {"ok", "failed", "expired", "unknown"}

Bounded == Len(uploadsPendingChan) <= QueueCap
Judged == verifier = "verified" => status # "none"

LEMMA AbleStep ==
    TypeInv /\ Bounded /\ Judged /\ [Next]_vars => (Bounded /\ Judged)'
<1> SUFFICES ASSUME TypeInv, Bounded, Judged, [Next]_vars PROVE (Bounded /\ Judged)'
  OBVIOUS
<1> USE DEF TypeInv, TypeOK, Bounded, Judged, disk, queues, loop, results, world
<1>1. ASSUME NEW u \in Uploads, Receive(u) \/ AcceptTx(u) \/ PassTenMinutes(u)
      PROVE  (Bounded /\ Judged)'
  BY <1>1 DEF Receive, AcceptTx, PassTenMinutes
<1>2. ASSUME NEW u \in Uploads, HandlerStep(u) PROVE (Bounded /\ Judged)'
  <2>1. CASE RegisterPendingUpload(u)
    <3>1. Len(uploadsPendingChan') = Len(uploadsPendingChan) + 1
      BY <2>1, AppendProperties DEF RegisterPendingUpload
    <3> QED
      BY <2>1, <3>1, LenProperties, ConstantsAssumption DEF RegisterPendingUpload
  <2>2. CASE ~RegisterPendingUpload(u)
    BY <1>2, <2>2 DEF HandlerStep, OpenShard, StorePayload, StoreSignatures, RefuseShard,
       FailShard, StoreTemp, CheckExists, Rename, FailWhole
  <2> QED
    BY <2>1, <2>2
<1>3. CASE VerifierStep
  <2>1. CASE TakePending
    <3>1. Len(uploadsPendingChan') = Len(uploadsPendingChan) - 1
      BY <2>1, TailFacts DEF TakePending
    <3> QED
      BY <2>1, <3>1, LenProperties, ConstantsAssumption DEF TakePending
  <2>2. CASE Verify
    BY <2>2 DEF Verify, Verdicts
  <2>3. CASE StartPass \/ EndPass
    BY <2>3 DEF StartPass, EndPass
  <2>4. CASE ConcludeOK \/ ConcludeRemove \/ ConcludeRetry
    BY <2>4 DEF ConcludeOK, ConcludeRemove, ConcludeRetry, Conclude
  <2> QED
    BY <1>3, <2>1, <2>2, <2>3, <2>4 DEF VerifierStep
<1>4. CASE Restart
  BY <1>4, ConstantsAssumption, EmptySeq DEF Restart
<1>5. CASE UNCHANGED vars
  BY <1>5 DEF vars
<1> QED
  BY <1>1, <1>2, <1>3, <1>4, <1>5 DEF Next

LEMMA VerifierCan ==
    ASSUME QInv, Judged, OneEntryPerFile
    PROVE  VerifierAble
<1> USE DEF QInv, TypeInv, TypeOK
<1>1. ASSUME verifier = "select", uploadsPendingChan # <<>>,
             NEW i \in DOMAIN toVerify, SameFile(toVerify[i], Head(uploadsPendingChan))
      PROVE  FirstFor(Head(uploadsPendingChan), i)
  <2> DEFINE u == Head(uploadsPendingChan)
  <2>1. remaining \o toVerify = toVerify
    BY <1>1, ConcatEmptySeq DEF QueueInv
  <2>2. \A j, k \in DOMAIN toVerify : SameFile(toVerify[j], toVerify[k]) => j = k
    BY <2>1 DEF OneEntryPerFile
  <2>3. i \in 1 .. Len(toVerify) /\ DOMAIN toVerify = 1 .. Len(toVerify) /\ Len(toVerify) \in Nat
    BY LenProperties
  <2>4. ASSUME NEW j \in 1 .. i - 1 PROVE ~SameFile(toVerify[j], u)
    <3>1. j \in DOMAIN toVerify /\ j # i
      BY <2>3
    <3> QED
      BY <1>1, <2>2, <3>1 DEF SameFile
  <2> QED
    BY <1>1, <2>4 DEF FirstFor
<1>2. ASSUME verifier = "pass", toVerify # <<>>
      PROVE  /\ Verdicts(Head(toVerify)) # {}
             /\ Head(toVerify) \in late => "unknown" \notin Verdicts(Head(toVerify))
  <2> DEFINE u == Head(toVerify)
  <2>1. u \in Uploads /\ u \in Waiting
    BY <1>2, TailFacts, TailEntries DEF QueueInv
  <2>2. req[u] # None /\ req[u] \in Request
    BY <2>1 DEF Waiting, Arrived
  <2>3. req[u].valid \in BOOLEAN
    BY <2>2 DEF Request
  <2> QED
    BY <2>3 DEF Verdicts
<1>3. ASSUME verifier = "verified"
      PROVE  toVerify # <<>> /\ status \in {"ok", "failed", "expired", "unknown"}
  BY <1>3 DEF EntryToConclude, Judged
<1> QED
  BY <1>1, <1>2, <1>3 DEF VerifierAble

(* What is left of a pass: a verdict and its use for each entry, and the   *)
(* end.                                                                    *)
PassLeft ==
    CASE verifier = "select"   -> 0
      [] verifier = "pass"     -> 2 * Len(toVerify) + 1
      [] verifier = "verified" -> 2 * Len(toVerify)

LEMMA PassShrinks ==
    ASSUME TypeInv, Next, verifier # "select"
    PROVE  \/ PassLeft' < PassLeft
           \/ UNCHANGED <<toVerify, remaining, verifier, status>>
<1> USE DEF TypeInv, TypeOK, disk, queues, loop, results, world
<1>0. Len(toVerify) \in Nat
  BY LenProperties
<1>1. ASSUME NEW u \in Uploads, Receive(u) \/ AcceptTx(u) \/ PassTenMinutes(u)
      PROVE  UNCHANGED <<toVerify, remaining, verifier, status>>
  BY <1>1 DEF Receive, AcceptTx, PassTenMinutes
<1>2. ASSUME NEW u \in Uploads, HandlerStep(u)
      PROVE  UNCHANGED <<toVerify, remaining, verifier, status>>
  BY <1>2 DEF HandlerStep, OpenShard, StorePayload, StoreSignatures, RefuseShard,
     FailShard, StoreTemp, CheckExists, Rename, FailWhole, RegisterPendingUpload
<1>3. ~(TakePending \/ StartPass)
  BY DEF TakePending, StartPass
<1>4. CASE Verify
  BY <1>0, <1>4 DEF Verify, PassLeft
<1>5. CASE ConcludeOK \/ ConcludeRemove \/ ConcludeRetry
  <2>1. verifier = "verified" /\ verifier' = "pass" /\ toVerify' = Tail(toVerify)
    BY <1>5 DEF ConcludeOK, ConcludeRemove, ConcludeRetry, Conclude
  <2>2. Len(toVerify') = Len(toVerify) - 1 /\ Len(toVerify) > 0
    BY <2>1, TailFacts DEF EntryToConclude
  <2> QED
    BY <1>0, <2>1, <2>2 DEF PassLeft
<1>6. CASE EndPass
  BY <1>0, <1>6 DEF EndPass, PassLeft
<1>7. CASE Restart
  <2>1. verifier = "verified" => Len(toVerify) > 0
    BY TailFacts DEF EntryToConclude
  <2> QED
    BY <1>0, <1>7, <2>1 DEF Restart, PassLeft
<1> QED
  BY <1>1, <1>2, <1>3, <1>4, <1>5, <1>6, <1>7 DEF Next, VerifierStep

(* The verifier is never stuck and no pass goes on for ever: it can always *)
(* take its next step, each step of a pass shortens it and nothing else    *)
(* lengthens it, and the channel that handlers wait for never holds more   *)
(* than its capacity.                                                      *)
THEOREM VerifierGoesOn ==
    Spec => /\ [](Len(uploadsPendingChan) <= QueueCap /\ VerifierAble)
            /\ [](PassLeft \in Nat)
            /\ [][verifier # "select" =>
                    \/ PassLeft' < PassLeft
                    \/ UNCHANGED <<toVerify, remaining, verifier, status>>]_vars
<1>1. Init => Bounded /\ Judged
  BY ConstantsAssumption, EmptySeq DEF Init, Bounded, Judged
<1>2. QInv => TypeInv
  BY DEF QInv
<1>3. QInv /\ Bounded /\ Judged /\ OneEntryPerFile =>
        Len(uploadsPendingChan) <= QueueCap /\ VerifierAble
  BY VerifierCan DEF Bounded
<1>4. TypeInv => PassLeft \in Nat
  <2> SUFFICES ASSUME TypeInv PROVE PassLeft \in Nat
    OBVIOUS
  <2>1. Len(toVerify) \in Nat /\ verifier \in {"select", "pass", "verified"}
    BY LenProperties DEF TypeInv, TypeOK
  <2> QED
    BY <2>1 DEF PassLeft
<1>5. TypeInv /\ [Next]_vars =>
        [verifier # "select" =>
            \/ PassLeft' < PassLeft
            \/ UNCHANGED <<toVerify, remaining, verifier, status>>]_vars
  BY PassShrinks
<1> QED
  BY <1>1, <1>2, <1>3, <1>4, <1>5, AbleStep, QueuesCorrect, OneEntryPerFileAlways, PTL DEF Spec

(* What is left of a handler's run.                                        *)
HandlerLeft(u) ==
    CASE handler[u] = "none"               -> 5
      [] handler[u] \in {"shard", "whole"} -> 4
      [] handler[u] \in {"open", "temp"}   -> 3
      [] handler[u] \in {"body", "checked"} -> 2
      [] handler[u] = "written"            -> 1
      [] handler[u] \in Ended              -> 0

(* A handler only moves forward, whatever other handlers, the verifier and *)
(* restarts do to its file, and ends after at most five steps.             *)
THEOREM HandlersShrink ==
    Spec => /\ [](\A u \in Uploads : HandlerLeft(u) \in Nat)
            /\ [][\A u \in Uploads : handler'[u] # handler[u] =>
                    HandlerLeft(u)' < HandlerLeft(u)]_vars
<1>1. ASSUME TypeInv, NEW u \in Uploads PROVE HandlerLeft(u) \in Nat
  <2>1. handler[u] \in {"none"} \cup Running \cup Ended
    BY <1>1 DEF TypeInv, TypeOK
  <2> QED
    BY <2>1 DEF HandlerLeft, Running, Ended
<1>2. ASSUME TypeInv, [Next]_vars, NEW u \in Uploads, handler'[u] # handler[u]
      PROVE  HandlerLeft(u)' < HandlerLeft(u)
  <2> USE <1>2 DEF TypeInv, TypeOK, Ended, disk, queues, loop, results, world
  <2>1. ASSUME NEW v \in Uploads, Receive(v) \/ HandlerStep(v)
        PROVE  HandlerLeft(u)' < HandlerLeft(u)
    <3>1. v = u
      BY <2>1 DEF Receive, HandlerStep, OpenShard, StorePayload, StoreSignatures, RefuseShard,
         FailShard, StoreTemp, CheckExists, Rename, FailWhole, RegisterPendingUpload, Step
    <3>2. CASE Receive(u) \/ OpenShard(u) \/ StorePayload(u) \/ StoreSignatures(u)
      BY <3>2 DEF Receive, OpenShard, StorePayload, StoreSignatures, Step, HandlerLeft
    <3>3. CASE RefuseShard(u) \/ FailShard(u) \/ StoreTemp(u) \/ FailWhole(u)
      BY <3>3 DEF RefuseShard, FailShard, StoreTemp, FailWhole, Step, HandlerLeft
    <3>4. CASE CheckExists(u) \/ Rename(u) \/ RegisterPendingUpload(u)
      BY <3>4 DEF CheckExists, Rename, RegisterPendingUpload, Step, HandlerLeft
    <3> QED
      BY <2>1, <3>1, <3>2, <3>3, <3>4 DEF HandlerStep
  <2>2. CASE Restart
    BY <2>2 DEF Restart, Running, HandlerLeft
  <2>3. ~(VerifierStep \/ UNCHANGED vars)
    BY DEF VerifierStep, TakePending, StartPass, Verify, ConcludeOK, ConcludeRemove,
       ConcludeRetry, Conclude, EndPass, vars
  <2>4. ASSUME NEW v \in Uploads PROVE ~(AcceptTx(v) \/ PassTenMinutes(v))
    BY DEF AcceptTx, PassTenMinutes
  <2> QED
    BY <2>1, <2>2, <2>3, <2>4 DEF Next
<1>3. TypeInv => \A u \in Uploads : HandlerLeft(u) \in Nat
  BY <1>1
<1>4. TypeInv /\ [Next]_vars =>
        [\A u \in Uploads : handler'[u] # handler[u] => HandlerLeft(u)' < HandlerLeft(u)]_vars
  BY <1>2
<1> QED
  BY <1>3, <1>4, TypeInit, TypeStep, PTL DEF Spec
=============================================================================
