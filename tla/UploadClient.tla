---------------------------- MODULE UploadClient ----------------------------
(***************************************************************************)
(* One upload by the client (upload/, with the ProposeUpload functions of  *)
(* account/).                                                              *)
(*                                                                         *)
(* Upload proposes and pays for the upload on the blockchain, then sends   *)
(* the file.  A whole file goes to one storage provider.  Shards go out in *)
(* rounds: a goroutine for each of at most MaxAtOnce shards posts it to a  *)
(* provider and sends the outcome on a channel, and the main goroutine     *)
(* collects one answer for each of them before the next round.             *)
(*                                                                         *)
(* postShard offers one pipe to both URLs of a provider: what the first    *)
(* attempt has read the second one never sees.  What happens at the other  *)
(* end of a POST is the environment's choice.                              *)
(***************************************************************************)
EXTENDS Naturals, Sequences, FiniteSets, SequencesExt

CONSTANTS
    SP,          \* storage providers, by address
    NumShards,   \* total number of shards of an encoded file
    MaxAtOnce,   \* posts in a round, 7 in the code
    Schemes,     \* the URLs of each SP: subsets of {"http", "https"}
    PreferHttp,  \* the scheme the user wants first
    None

Shard == 1 .. NumShards
WholeFile == 0
Account == {"eth", "neo"}

ASSUME SPAssumption == IsFiniteSet(SP) /\ None \notin SP
ASSUME NumberAssumption == NumShards \in Nat \ {0} /\ MaxAtOnce \in Nat \ {0}
ASSUME UrlAssumption ==
    /\ Schemes \in [SP -> (SUBSET {"http", "https"}) \ {{}}]
    /\ PreferHttp \in BOOLEAN

VARIABLES
    account,    \* the uploader's blockchain
    sharded,    \* whether the encoding makes shards
    readable,   \* whether the local file can be read to its end
    phase,      \* where the main goroutine is
    sps,        \* its list of storage providers
    proposals,  \* providers still to be proposed to
    paid,       \* providers a transaction of this upload pays
    shardsToDo,
    todo,       \* answers of this round still to come
    post,       \* post[s]: the running postShard of shard s, None if there is none
    uchan,      \* answers not collected yet
    stored      \* <<shard, sp>>: what providers have stored

request == <<account, sharded, readable>>
round == <<shardsToDo, todo, post, uchan>>
vars == <<request, phase, sps, proposals, paid, round, stored>>

Terminal == {"done", "error", "panic"}

(* GetUploadSps returns distinct providers, in any order.                  *)
Lists == {s \in UNION {[1 .. n -> SP] : n \in 1 .. Cardinality(SP)} : IsInjective(s)}

Post == [sp: SP, tried: SUBSET {"http", "https"}, intact: BOOLEAN]
Answer == [shard: Shard, sp: SP, ok: BOOLEAN]

ASSUME NoneAssumption == None \notin Post

Init ==
    /\ account \in Account
    /\ sharded \in BOOLEAN
    /\ readable \in BOOLEAN
    /\ phase = "confirm"
    /\ sps \in Lists
    /\ proposals = <<>>
    /\ paid = {}
    /\ shardsToDo = <<>>
    /\ todo = 0
    /\ post = [s \in Shard |-> None]
    /\ uchan = <<>>
    /\ stored = {}

Goto(from, to) == phase = from /\ phase' = to

-----------------------------------------------------------------------------
(* Paying                                                                  *)

(* wholeFileUpload proposes to one random provider of the list, and        *)
(* shardedUpload to all of them.                                           *)
Chosen == IF sharded THEN {sps} ELSE {<<sps[i]>> : i \in DOMAIN sps}

(* The container cannot be generated, or confirmPrice finds the price      *)
(* above the user's limit.                                                 *)
Refuse ==
    /\ Goto("confirm", "error")
    /\ UNCHANGED <<request, sps, proposals, paid, round, stored>>

(* The container of a file that is cut into shards holds all of it.        *)
Confirm ==
    /\ Goto("confirm", "propose")
    /\ sharded => readable
    /\ \E list \in Chosen :
         proposals' = list
    /\ UNCHANGED <<request, sps, paid, round, stored>>

(* EthAccount.ProposeUpload: one transaction pays every provider.          *)
ProposeEth ==
    /\ account = "eth"
    /\ \/ Goto("propose", "wait") /\ paid' = paid \cup ToSet(proposals) /\ proposals' = <<>>
       \/ Goto("propose", "error") /\ UNCHANGED <<paid, proposals>>
    /\ UNCHANGED <<request, sps, round, stored>>

(* The transaction is accepted, or it is not within two minutes.  Then     *)
(* shardedUpload stores its hash in txIds, a map nobody made.              *)
AwaitEth ==
    /\ \/ Goto("wait", IF sharded THEN "panic" ELSE "post")
       \/ Goto("wait", "error")
    /\ UNCHANGED <<request, sps, proposals, paid, round, stored>>

(* NeoAccount.ProposeUpload: one transaction per provider, up to the first *)
(* that fails.                                                             *)
ProposeNeo ==
    /\ account = "neo"
    /\ proposals # <<>>
    /\ \/ /\ phase = "propose"
          /\ paid' = paid \cup {Head(proposals)}
          /\ proposals' = Tail(proposals)
          /\ UNCHANGED phase
       \/ Goto("propose", "error") /\ UNCHANGED <<paid, proposals>>
    /\ UNCHANGED <<request, sps, round, stored>>

(* All proposed.  shardedUpload starts with every shard to do; for a whole *)
(* file ProposeUpload of account.go goes on to "unknown account type".     *)
ProposedNeo ==
    /\ account = "neo"
    /\ proposals = <<>>
    /\ Goto("propose", IF sharded THEN "loop" ELSE "error")
    /\ shardsToDo' = IF sharded THEN [i \in 1 .. NumShards |-> i] ELSE <<>>
    /\ UNCHANGED <<request, sps, proposals, paid, todo, post, uchan, stored>>

-----------------------------------------------------------------------------
(* A whole file                                                            *)

Url(sp, preferHttp) ==
    IF preferHttp
    THEN IF "http" \in Schemes[sp] THEN "http" ELSE "https"
    ELSE IF "https" \in Schemes[sp] THEN "https" ELSE "http"

(* postWholeFile: one URL, one attempt.  The error of the writer is        *)
(* assigned to a variable that hides the one the main goroutine returns,   *)
(* so a file cut short by a read error counts as uploaded.                 *)
PostWholeFile ==
    /\ \E sp \in paid :
         \/ Goto("post", "done") /\ readable /\ stored' = stored \cup {<<WholeFile, sp>>}
         \/ Goto("post", "done") /\ ~readable /\ UNCHANGED stored
         \/ Goto("post", "error") /\ stored' \in {stored, stored \cup {<<WholeFile, sp>>}}
    /\ UNCHANGED <<request, sps, proposals, paid, round>>

-----------------------------------------------------------------------------
(* Shards: the main goroutine                                              *)

(* Bug: a goroutine for every shard.                                       *)
AllAtOnce == Len(shardsToDo)

AtOnce == IF Len(shardsToDo) < MaxAtOnce THEN Len(shardsToDo) ELSE MaxAtOnce

(* getShardUploads deals the next shards to the providers in turn.         *)
Dealt(i) == sps[((i - 1) % Len(sps)) + 1]

StartRound ==
    /\ Goto("loop", "collect")
    /\ shardsToDo # <<>>
    /\ sps # <<>>
    /\ todo' = AtOnce
    /\ post' = [s \in Shard |->
            IF \E i \in 1 .. AtOnce : shardsToDo[i] = s
            THEN LET i == CHOOSE j \in 1 .. AtOnce : shardsToDo[j] = s
                 IN  [sp |-> Dealt(i), tried |-> {}, intact |-> TRUE]
            ELSE None]
    /\ UNCHANGED <<request, sps, proposals, paid, shardsToDo, uchan, stored>>

(* Every shard is done, or no provider is left to try.                     *)
EndLoop ==
    /\ \/ Goto("loop", "done") /\ shardsToDo = <<>>
       \/ Goto("loop", "error") /\ shardsToDo # <<>> /\ sps = <<>>
    /\ UNCHANGED <<request, sps, proposals, paid, round, stored>>

(* Bug: the last element goes, but does not take the place of the one to   *)
(* erase.                                                                  *)
EraseLast(a, x) ==
    IF \E i \in DOMAIN a : a[i] = x THEN SubSeq(a, 1, Len(a) - 1) ELSE a

(* EraseInt overwrites the element with the last one.                      *)
EraseInt(a, x) ==
    IF \E i \in DOMAIN a : a[i] = x
    THEN LET i == CHOOSE j \in DOMAIN a : a[j] = x
         IN  SubSeq([a EXCEPT ![i] = a[Len(a)]], 1, Len(a) - 1)
    ELSE a

WithoutSP(list, sp) ==
    IF \E i \in DOMAIN list : list[i] = sp
    THEN RemoveAt(list, CHOOSE i \in DOMAIN list : list[i] = sp)
    ELSE list

Collect ==
    LET answer == Head(uchan)
    IN  /\ phase = "collect"
        /\ uchan # <<>>
        /\ uchan' = Tail(uchan)
        /\ todo' = todo - 1
        /\ phase' = IF todo = 1 THEN "loop" ELSE "collect"
        /\ \/ /\ answer.ok
              /\ shardsToDo' = EraseInt(shardsToDo, answer.shard)
              /\ UNCHANGED sps
           \/ /\ ~answer.ok
              /\ sps' = WithoutSP(sps, answer.sp)
              /\ UNCHANGED shardsToDo
        /\ UNCHANGED <<request, proposals, paid, post, stored>>

-----------------------------------------------------------------------------
(* Shards: the goroutine that posts shard s                                *)

Reply(s, ok) ==
    /\ uchan' = Append(uchan, [shard |-> s, sp |-> post[s].sp, ok |-> ok])
    /\ post' = [post EXCEPT ![s] = None]

(* The URL of the next attempt: the preferred one, then the other.         *)
NextUrl(p) == Url(p.sp, IF p.tried = {} THEN PreferHttp ELSE ~PreferHttp)

(* Bug: the goroutine ends without an answer when there is no other URL.   *)
FailedSilently(s, intact) ==
    LET p == post[s]
        tried == p.tried \cup {NextUrl(p)}
    IN  /\ post' = [post EXCEPT ![s] =
                IF Schemes[p.sp] \subseteq tried THEN None
                ELSE [sp |-> p.sp, tried |-> tried, intact |-> intact]]
        /\ UNCHANGED uchan

(* An attempt that fails: another follows when the provider has a URL that *)
(* was not tried.                                                          *)
Failed(s, intact) ==
    LET p == post[s]
        tried == p.tried \cup {NextUrl(p)}
    IN  IF Schemes[p.sp] \subseteq tried
        THEN Reply(s, FALSE)
        ELSE /\ post' = [post EXCEPT ![s] = [sp |-> p.sp, tried |-> tried, intact |-> intact]]
             /\ UNCHANGED uchan

Store(s) == stored' = stored \cup {<<s, post[s].sp>>}

PostOK(s) ==
    /\ post[s] # None
    /\ post[s].intact
    /\ Store(s)
    /\ Reply(s, TRUE)
    /\ UNCHANGED <<request, phase, sps, proposals, paid, shardsToDo, todo>>

(* The provider stored the shard and its answer is lost.                   *)
AnswerLost(s) ==
    /\ post[s] # None
    /\ post[s].intact
    /\ Store(s)
    /\ Failed(s, FALSE)
    /\ UNCHANGED <<request, phase, sps, proposals, paid, shardsToDo, todo>>

(* The provider refuses, before or after it read from the pipe, or gets a  *)
(* body that an earlier attempt has cut short.                             *)
PostFails(s) ==
    /\ post[s] # None
    /\ \E intact \in {post[s].intact, FALSE} : Failed(s, intact)
    /\ UNCHANGED <<request, phase, sps, proposals, paid, shardsToDo, todo, stored>>

PostShard(s) == PostOK(s) \/ AnswerLost(s) \/ PostFails(s)

Main ==
    \/ Refuse
    \/ Confirm
    \/ ProposeEth
    \/ AwaitEth
    \/ ProposeNeo
    \/ ProposedNeo
    \/ PostWholeFile
    \/ StartRound
    \/ EndLoop
    \/ Collect

Next == Main \/ \E s \in Shard : PostShard(s)

Spec == Init /\ [][Next]_vars

(* Goroutines that can run do run.  A POST has no timeout (Timeout: 0), so *)
(* that each of them ends is an assumption about the peers and the network,*)
(* not something the client sees to.                                       *)
Fairness == WF_vars(Main) /\ \A s \in Shard : WF_vars(PostShard(s))

FairSpec == Spec /\ Fairness

-----------------------------------------------------------------------------
(* Safety                                                                  *)

TypeOK ==
    /\ account \in Account
    /\ sharded \in BOOLEAN
    /\ readable \in BOOLEAN
    /\ phase \in {"confirm", "propose", "wait", "post", "loop", "collect"} \cup Terminal
    /\ sps \in Seq(SP)
    /\ proposals \in Seq(SP)
    /\ paid \subseteq SP
    /\ shardsToDo \in Seq(Shard)
    /\ todo \in 0 .. MaxAtOnce
    /\ post \in [Shard -> Post \cup {None}]
    /\ uchan \in Seq(Answer)
    /\ stored \subseteq ({WholeFile} \cup Shard) \X SP

StoredByPaid(s) == \E sp \in paid : <<s, sp>> \in stored

(* When Upload reports success, the whole file, or every one of the shards,*)
(* is stored by a provider the uploader paid, whatever was retried, lost   *)
(* or refused on the way, unless the local file could not be read.         *)
SuccessMeansStored ==
    phase = "done" /\ readable =>
        \A s \in (IF sharded THEN Shard ELSE {WholeFile}) : StoredByPaid(s)

(* The main goroutine never waits for an answer that nobody will send, and *)
(* none is left over for the next round: every answer it counts on is on   *)
(* the channel or has a goroutine working for it.                          *)
AnswersCounted ==
    todo = Len(uchan) + Cardinality({s \in Shard : post[s] # None})

(* No shard is dropped and none is sent twice at a time: what is not to do *)
(* any more is stored, and what is being posted or answered is to do.      *)
ShardsAccounted ==
    /\ IsInjective(shardsToDo)
    /\ phase \in {"loop", "collect"} =>
         \A s \in Shard : s \notin ToSet(shardsToDo) => StoredByPaid(s)
    /\ \A s \in Shard : post[s] # None =>
         /\ s \in ToSet(shardsToDo)
         /\ \A i \in DOMAIN uchan : uchan[i].shard # s
    /\ \A i, j \in DOMAIN uchan : uchan[i].shard = uchan[j].shard => i = j

-----------------------------------------------------------------------------
(* Liveness                                                                *)

(* The upload ends: every round stores a shard or drops a provider.        *)
UploadEnds == <>(phase \in Terminal)

-----------------------------------------------------------------------------
(* What comments of the code say and the code does not do                  *)

(* "Upload all the shards" (shardedUpload): a proposal that succeeded is   *)
(* followed by the upload of the shards.                                   *)
ProposedIsUploaded ==
    [][sharded /\ phase \in {"wait", "propose"} /\ phase' # phase =>
            phase' \in {"wait", "loop", "error"}]_vars
=============================================================================
