--------------------------- MODULE UploadPipeline ---------------------------
(***************************************************************************)
(* The upload side of one storage provider (storageProvider/).             *)
(*                                                                         *)
(* Every POST to /upload runs uploadHandler in a goroutine of its own.     *)
(* The handler writes the file under its final name before anything is     *)
(* verified, and sends a pendingUpload on a bounded channel.  A single     *)
(* goroutine, VerifyPendingUploads, receives the pending uploads, asks     *)
(* the blockchain about them every few seconds, and announces the file to  *)
(* the DHT or removes it from the disk.                                    *)
(*                                                                         *)
(* Handlers and the verifier share the file system, and nothing else       *)
(* orders their steps: an action below is one system call, channel         *)
(* operation or RPC of one of them.                                        *)
(*                                                                         *)
(* Content is abstracted to who wrote it: the payload of a shard file and  *)
(* its trailer (the two signatures) each carry the upload whose bytes they *)
(* are, all of them, or None for anything less and for what handlers wrote *)
(* over each other.  Errors of some writes are ignored by the code: the    *)
(* file is cut short and the handler goes on.                              *)
(***************************************************************************)
EXTENDS Naturals, Sequences, SequencesExt

CONSTANTS
    Uploads,     \* POST requests to /upload
    ShardPath,   \* stored paths of shards (.afs, and .afh with an index)
    WholePath,   \* stored paths of whole files (.af, and .afh without one)
    HashPath,    \* the paths above that come from a hash URL
    QueueCap,    \* capacity of uploadsPendingChan, 400 in the code
    RpcFails,    \* whether an RPC to a blockchain node may return an error
    WritesFail,  \* whether a write may fail (a full disk) and nobody notice
    MaxRestarts, \* bound: how often the process is killed and started again
    None         \* no file, no content, no upload

Path == ShardPath \cup WholePath

(* What the request and its transaction say.  `valid`: this SP is in the   *)
(* list of the transaction and the signature matches the bytes it brings.  *)
Request == [path: Path, overwrite: BOOLEAN, valid: BOOLEAN]

ASSUME ConstantsAssumption ==
    /\ ShardPath \cap WholePath = {}
    /\ HashPath \subseteq Path
    /\ QueueCap \in Nat \ {0}
    /\ RpcFails \in BOOLEAN
    /\ WritesFail \in BOOLEAN
    /\ MaxRestarts \in Nat
    /\ None \notin Uploads \cup Request

VARIABLES
    req,        \* the request of each upload, None before it arrives
    handler,    \* how far the handler goroutine of each upload is
    dir,        \* dir[p]: the inode the name p refers to (None: no file)
    inode,      \* content of each inode; an inode is named by its creator
    fd,         \* the inode the handler of each upload writes to
    unwritten,  \* parts that an ignored error kept from being written whole
    uploadsPendingChan,
    toVerify,   \* the verifier's list, in a pass: its unvisited suffix
    remaining,  \* entries this pass keeps for the next one
    verifier,   \* "select", "pass" or "verified" (between Verify and its use)
    status,     \* what Verify returned for the head of toVerify
    txAccepted, \* uploads whose transaction the blockchain has accepted
    late,       \* pending uploads received more than ten minutes ago
    activity,   \* uploads in the activity log
    announced,  \* uploads whose shard path was announced to the DHT
    outcome,    \* history: how the verification of each upload ended
    restarts

disk == <<dir, inode, fd, unwritten>>
queues == <<uploadsPendingChan, toVerify, remaining>>
loop == <<verifier, status>>
results == <<activity, announced, outcome>>
world == <<txAccepted, late, restarts>>
vars == <<req, handler, disk, queues, loop, results, world>>

(* `writers`: who has had the file open since one handler had it alone.    *)
Part == {"payload", "trailer"}
Content == [payload: Uploads \cup {None}, trailer: Uploads \cup {None},
            writers: SUBSET Uploads]
OpenedBy(W) == [payload |-> None, trailer |-> None, writers |-> W]

Running == {"shard", "whole", "open", "body", "temp", "checked", "written"}
Ended == {"registered", "failed"}

PathOf(u) == req[u].path

Init ==
    /\ req = [u \in Uploads |-> None]
    /\ handler = [u \in Uploads |-> "none"]
    /\ dir = [p \in Path |-> None]
    /\ inode = [u \in Uploads |-> OpenedBy({})]
    /\ fd = [u \in Uploads |-> None]
    /\ unwritten = [u \in Uploads |-> {}]
    /\ uploadsPendingChan = <<>>
    /\ toVerify = <<>>
    /\ remaining = <<>>
    /\ verifier = "select"
    /\ status = "none"
    /\ txAccepted = {}
    /\ late = {}
    /\ activity = {}
    /\ announced = {}
    /\ outcome = [u \in Uploads |-> "none"]
    /\ restarts = 0

-----------------------------------------------------------------------------
(* The handler goroutine of upload u                                       *)

Step(u, from, to) == handler[u] = from /\ handler' = [handler EXCEPT ![u] = to]

(* uploadHandler: a request that passes every check that precedes the      *)
(* dispatch on the container type.  A request refused there changes        *)
(* nothing.                                                                *)
Receive(u) ==
    \E r \in Request :
        /\ Step(u, "none", IF r.path \in ShardPath THEN "shard" ELSE "whole")
        /\ req' = [req EXCEPT ![u] = r]
        /\ UNCHANGED <<disk, queues, loop, results, world>>

(* getShardFile: the error of the existence check is overwritten by        *)
(* MkdirAll's, so os.Create truncates a file that exists, also one that    *)
(* other handlers are writing.                                             *)
OpenShard(u) ==
    LET file == IF dir[PathOf(u)] = None THEN u ELSE dir[PathOf(u)]
        others == {v \in Uploads : fd[v] = file}
    IN  /\ Step(u, "shard", "open")
        /\ dir' = [dir EXCEPT ![PathOf(u)] = file]
        /\ inode' = [inode EXCEPT ![file] = OpenedBy(others \cup {u})]
        /\ fd' = [fd EXCEPT ![u] = file]
        /\ UNCHANGED <<req, unwritten, queues, loop, results, world>>

(* Whose bytes a part is after u wrote it.  Handlers that have a file open *)
(* together write between each other's bytes: what is there is nobody's.   *)
Bytes(u, ok) == IF ok /\ inode[fd[u]].writers = {u} THEN u ELSE None

(* A write that fails (ok is FALSE) and whose error is ignored.            *)
Ignored(u, ok, part) ==
    /\ ok \/ WritesFail
    /\ unwritten' = IF ok THEN unwritten ELSE [unwritten EXCEPT ![u] = @ \cup {part}]

(* StoreSPShard: header and payload go through the open file.  mxor        *)
(* overwrites the error of io.Copy with that of reading the signature,     *)
(* bors and aors ignore the error of writing the header.                   *)
StorePayload(u) ==
    /\ Step(u, "open", "body")
    /\ \E ok \in BOOLEAN :
         /\ inode' = [inode EXCEPT ![fd[u]].payload = Bytes(u, ok)]
         /\ Ignored(u, ok, "payload")
    /\ UNCHANGED <<req, dir, fd, queues, loop, results, world>>

(* The uploader's and the SP's signature, whose errors are ignored, then   *)
(* Close, whose error is not.                                              *)
StoreSignatures(u) ==
    /\ Step(u, "body", "written")
    /\ \E ok \in BOOLEAN :
         /\ inode' = [inode EXCEPT ![fd[u]].trailer = Bytes(u, ok)]
         /\ Ignored(u, ok, "trailer")
    /\ fd' = [fd EXCEPT ![u] = None]
    /\ UNCHANGED <<req, dir, queues, loop, results, world>>

(* NewShardHeader, MkdirAll or Create fails: nothing was opened.           *)
RefuseShard(u) ==
    /\ Step(u, "shard", "failed")
    /\ UNCHANGED <<req, disk, queues, loop, results, world>>

(* Bug: the deferred clean-up does not remove the file.                    *)
FailShardKeeping(u) ==
    /\ handler[u] \in {"open", "body"}
    /\ handler' = [handler EXCEPT ![u] = "failed"]
    /\ fd' = [fd EXCEPT ![u] = None]
    /\ UNCHANGED <<req, dir, inode, unwritten, queues, loop, results, world>>

(* StoreSPShard, Sign or Close fails: the deferred clean-up removes        *)
(* whatever file the name refers to by now.                                *)
FailShard(u) ==
    /\ handler[u] \in {"open", "body"}
    /\ handler' = [handler EXCEPT ![u] = "failed"]
    /\ dir' = [dir EXCEPT ![PathOf(u)] = None]
    /\ fd' = [fd EXCEPT ![u] = None]
    /\ UNCHANGED <<req, inode, unwritten, queues, loop, results, world>>

(* uploadWholeFile, first half: the body goes to a temporary file.  The    *)
(* error of io.Copy counts, that of Close does not.  There is no trailer.  *)
StoreTemp(u) ==
    /\ Step(u, "whole", "temp")
    /\ \E ok \in BOOLEAN :
         /\ inode' = [inode EXCEPT ![u] = [payload |-> IF ok THEN u ELSE None,
                                           trailer |-> u, writers |-> {u}]]
         /\ Ignored(u, ok, "payload")
    /\ UNCHANGED <<req, dir, fd, queues, loop, results, world>>

(* The FileExists test that guards the rename.                             *)
CheckExists(u) ==
    /\ handler[u] = "temp"
    /\ handler' = [handler EXCEPT ![u] =
            IF ~req[u].overwrite /\ dir[PathOf(u)] # None
            THEN "failed" ELSE "checked"]
    /\ UNCHANGED <<req, disk, queues, loop, results, world>>

(* os.Rename replaces the file of that name in one step.                   *)
Rename(u) ==
    /\ Step(u, "checked", "written")
    /\ dir' = [dir EXCEPT ![PathOf(u)] = u]
    /\ UNCHANGED <<req, inode, fd, unwritten, queues, loop, results, world>>

(* Reading the body, MkdirAll or Rename fails; the temporary file goes.    *)
FailWhole(u) ==
    /\ handler[u] \in {"whole", "temp", "checked"}
    /\ handler' = [handler EXCEPT ![u] = "failed"]
    /\ UNCHANGED <<req, disk, queues, loop, results, world>>

(* Bug: the channel is taken for full one entry too early.                 *)
RegisterPendingUploadEarly(u) ==
    /\ Step(u, "written", "registered")
    /\ Len(uploadsPendingChan) + 1 < QueueCap
    /\ uploadsPendingChan' = Append(uploadsPendingChan, u)
    /\ UNCHANGED <<req, disk, toVerify, remaining, loop, results, world>>

(* registerPendingUpload blocks while the channel is full.                 *)
RegisterPendingUpload(u) ==
    /\ Step(u, "written", "registered")
    /\ Len(uploadsPendingChan) < QueueCap
    /\ uploadsPendingChan' = Append(uploadsPendingChan, u)
    /\ UNCHANGED <<req, disk, toVerify, remaining, loop, results, world>>

HandlerStep(u) ==
    \/ OpenShard(u)
    \/ StorePayload(u)
    \/ StoreSignatures(u)
    \/ RefuseShard(u)
    \/ FailShard(u)
    \/ StoreTemp(u)
    \/ CheckExists(u)
    \/ Rename(u)
    \/ FailWhole(u)
    \/ RegisterPendingUpload(u)

-----------------------------------------------------------------------------
(* The verifier goroutine, VerifyPendingUploads                            *)

SameFile(u, v) == PathOf(u) = PathOf(v)

(* The first entry of the list for the file of u; the loop stops there.    *)
FirstFor(u, i) ==
    /\ i \in DOMAIN toVerify
    /\ SameFile(toVerify[i], u)
    /\ \A j \in 1 .. i - 1 : ~SameFile(toVerify[j], u)

(* Bug: an earlier entry for the same file stays in the list.              *)
TakePendingKeeping ==
    /\ verifier = "select"
    /\ uploadsPendingChan # <<>>
    /\ uploadsPendingChan' = Tail(uploadsPendingChan)
    /\ toVerify' = Append(toVerify, Head(uploadsPendingChan))
    /\ UNCHANGED <<req, handler, disk, remaining, loop, results, world>>

(* case p := <-uploadsPendingChan                                          *)
TakePending ==
    /\ verifier = "select"
    /\ uploadsPendingChan # <<>>
    /\ uploadsPendingChan' = Tail(uploadsPendingChan)
    /\ LET u == Head(uploadsPendingChan)
       IN  \/ /\ \A i \in DOMAIN toVerify : ~SameFile(toVerify[i], u)
              /\ toVerify' = Append(toVerify, u)
              /\ UNCHANGED outcome
           \/ \E i \in DOMAIN toVerify :
                /\ FirstFor(u, i)
                /\ toVerify' = Append(RemoveAt(toVerify, i), u)
                /\ outcome' = [outcome EXCEPT ![toVerify[i]] = "superseded"]
    /\ UNCHANGED <<req, handler, disk, remaining, loop, activity, announced, world>>

(* case <-time.After(7*time.Second), with something to verify              *)
StartPass ==
    /\ verifier = "select"
    /\ toVerify # <<>>
    /\ verifier' = "pass"
    /\ UNCHANGED <<req, handler, disk, queues, status, results, world>>

(* Bug: the hash is of what came in, not of what was written.              *)
MatchesReceived(u) == req[u].valid

(* HashingWriter adds bytes to the hash after it has written them, so the  *)
(* hash of a shard is that of an incomplete file when a write failed; that *)
(* of a whole file is computed before Close.                               *)
Matches(u) ==
    /\ req[u].valid
    /\ PathOf(u) \in ShardPath => "payload" \notin unwritten[u]

(* Bug: an accepted transaction is enough.                                 *)
VerdictsUnchecked(u) ==
    {IF u \in txAccepted THEN "ok" ELSE IF u \in late THEN "expired" ELSE "unknown"}

(* Bug: the ten-minute limit is never applied.                             *)
VerdictsUnlimited(u) ==
    (IF u \notin txAccepted \/ RpcFails THEN {"unknown"} ELSE {})
    \cup
    (IF u \in txAccepted THEN {IF Matches(u) THEN "ok" ELSE "failed"} ELSE {})

(* pendingUpload.Verify.  An RPC error reads as "not accepted" in          *)
(* IsTxAccepted, and as a failed verification in GetUploadTxInfo.  The age *)
(* of the entry is read before Verify and used after it.                   *)
Verdicts(u) ==
    (IF u \notin txAccepted \/ RpcFails
     THEN {IF u \in late THEN "expired" ELSE "unknown"} ELSE {})
    \cup
    (IF u \in txAccepted /\ (~Matches(u) \/ RpcFails) THEN {"failed"} ELSE {})
    \cup
    (IF u \in txAccepted /\ Matches(u) THEN {"ok"} ELSE {})

Verify ==
    /\ verifier = "pass"
    /\ toVerify # <<>>
    /\ verifier' = "verified"
    /\ \E v \in Verdicts(Head(toVerify)) :
         /\ status' = v
         /\ activity' = IF v = "ok" THEN activity \cup {Head(toVerify)} ELSE activity
    /\ UNCHANGED <<req, handler, disk, queues, announced, outcome, world>>

(* AnnounceToDht: the first segment of the path has to name a permission   *)
(* layer, which a hash never does; Stored may fail too, and is not retried.*)
CanAnnounce(u) == PathOf(u) \notin HashPath

(* The switch on the status, for the entry at the head of the list.        *)
Conclude(cases) ==
    /\ verifier = "verified"
    /\ status \in cases
    /\ verifier' = "pass"
    /\ status' = "none"
    /\ toVerify' = Tail(toVerify)
    /\ UNCHANGED <<req, handler, inode, fd, unwritten, uploadsPendingChan, activity, world>>

Settle(u) == outcome' = [outcome EXCEPT ![u] = status]

(* Bug: a failed verification falls through to the announcement.           *)
ConcludeOKAlways ==
    /\ Conclude({"ok", "failed"})
    /\ Settle(Head(toVerify))
    /\ announced' = announced \cup {Head(toVerify)}
    /\ UNCHANGED <<dir, remaining>>

ConcludeOK ==
    LET u == Head(toVerify)
    IN  /\ Conclude({"ok"})
        /\ Settle(u)
        /\ \/ CanAnnounce(u) /\ announced' = announced \cup {u}
           \/ UNCHANGED announced
        /\ UNCHANGED <<dir, remaining>>

(* os.Remove(pu.FilePath): by name, whatever the name refers to by now.    *)
ConcludeRemove ==
    LET u == Head(toVerify)
    IN  /\ Conclude({"failed", "expired"})
        /\ Settle(u)
        /\ dir' = [dir EXCEPT ![PathOf(u)] = None]
        /\ UNCHANGED <<remaining, announced>>

(* Bug: an unknown status is also recorded as the result.                  *)
ConcludeRetrySettled ==
    /\ Conclude({"unknown"})
    /\ Settle(Head(toVerify))
    /\ remaining' = Append(remaining, Head(toVerify))
    /\ UNCHANGED <<dir, announced>>

ConcludeRetry ==
    /\ Conclude({"unknown"})
    /\ remaining' = Append(remaining, Head(toVerify))
    /\ UNCHANGED <<dir, announced, outcome>>

(* Bug: what this pass could not settle is dropped.                        *)
EndPassDropping ==
    /\ verifier = "pass"
    /\ toVerify = <<>>
    /\ verifier' = "select"
    /\ remaining' = <<>>
    /\ UNCHANGED <<req, handler, disk, uploadsPendingChan, toVerify, status, results, world>>

EndPass ==
    /\ verifier = "pass"
    /\ toVerify = <<>>
    /\ verifier' = "select"
    /\ toVerify' = remaining
    /\ remaining' = <<>>
    /\ UNCHANGED <<req, handler, disk, uploadsPendingChan, status, results, world>>

VerifierStep ==
    \/ TakePending
    \/ StartPass
    \/ Verify
    \/ ConcludeOK
    \/ ConcludeRemove
    \/ ConcludeRetry
    \/ EndPass

-----------------------------------------------------------------------------
(* The environment                                                         *)

(* The blockchain accepts the transaction of u.  A forged transaction is   *)
(* never accepted, so this need not happen.                                *)
AcceptTx(u) ==
    /\ req[u] # None
    /\ u \notin txAccepted
    /\ txAccepted' = txAccepted \cup {u}
    /\ UNCHANGED <<req, handler, disk, queues, loop, results, late, restarts>>

(* Ten minutes have passed since registerPendingUpload took the time.      *)
PassTenMinutes(u) ==
    /\ handler[u] \in {"written", "registered"}
    /\ outcome[u] = "none"
    /\ u \notin late
    /\ late' = late \cup {u}
    /\ UNCHANGED <<req, handler, disk, queues, loop, results, txAccepted, restarts>>

(* The process ends (RunWebServer returns, or it is killed) and is started *)
(* again: the channel and the lists were only in memory.  What it wrote is *)
(* with the operating system, which goes on.                               *)
Restart ==
    /\ restarts < MaxRestarts
    /\ restarts' = restarts + 1
    /\ handler' = [u \in Uploads |-> IF handler[u] \in Running THEN "failed" ELSE handler[u]]
    /\ fd' = [u \in Uploads |-> None]
    /\ uploadsPendingChan' = <<>>
    /\ toVerify' = <<>>
    /\ remaining' = <<>>
    /\ verifier' = "select"
    /\ status' = "none"
    /\ outcome' = [u \in Uploads |->
            IF handler[u] = "registered" /\ outcome[u] = "none" THEN "lost" ELSE outcome[u]]
    /\ UNCHANGED <<req, dir, inode, unwritten, activity, announced, txAccepted, late>>

Next ==
    \/ \E u \in Uploads : Receive(u) \/ HandlerStep(u)
    \/ VerifierStep
    \/ \E u \in Uploads : AcceptTx(u) \/ PassTenMinutes(u)
    \/ Restart

Spec == Init /\ [][Next]_vars

(* Goroutines that can run do run (ParseMultipartForm has read the whole   *)
(* request before Receive, so a handler never waits for its client), the   *)
(* channel serves its senders in turn, time passes.  Nothing makes a       *)
(* transaction go through.                                                 *)
Fairness ==
    /\ WF_vars(VerifierStep)
    /\ \A u \in Uploads : WF_vars(HandlerStep(u)) /\ SF_vars(RegisterPendingUpload(u))
    /\ \A u \in Uploads : WF_vars(PassTenMinutes(u))

FairSpec == Spec /\ Fairness

-----------------------------------------------------------------------------
(* Safety                                                                  *)

TypeOK ==
    /\ req \in [Uploads -> Request \cup {None}]
    /\ handler \in [Uploads -> {"none"} \cup Running \cup Ended]
    /\ dir \in [Path -> Uploads \cup {None}]
    /\ inode \in [Uploads -> Content]
    /\ fd \in [Uploads -> Uploads \cup {None}]
    /\ unwritten \in [Uploads -> SUBSET Part]
    /\ uploadsPendingChan \in Seq(Uploads)
    /\ toVerify \in Seq(Uploads)
    /\ remaining \in Seq(Uploads)
    /\ verifier \in {"select", "pass", "verified"}
    /\ status \in {"none", "unknown", "ok", "failed", "expired"}
    /\ txAccepted \subseteq Uploads
    /\ late \subseteq Uploads
    /\ activity \subseteq Uploads
    /\ announced \subseteq Uploads
    /\ outcome \in [Uploads -> {"none", "ok", "failed", "expired", "superseded", "lost"}]
    /\ restarts \in 0 .. MaxRestarts

(* The DHT is told only about uploads whose transaction the blockchain     *)
(* accepted, names this SP and matches the bytes that its own handler      *)
(* wrote, of a shard all of them; each of them is in the activity log.     *)
AnnouncedOnlyVerified ==
    \A u \in announced :
        /\ req[u] # None
        /\ req[u].valid
        /\ PathOf(u) \in ShardPath => "payload" \notin unwritten[u]
        /\ u \in txAccepted
        /\ u \in activity
        /\ outcome[u] = "ok"

(* No upload is forgotten or verified twice: while the process runs, every *)
(* registered upload without a result is in exactly one of the channel and *)
(* the two lists, once, and nothing else is in them.                       *)
NothingForgotten ==
    LET all == uploadsPendingChan \o remaining \o toVerify
    IN  /\ IsInjective(all)
        /\ ToSet(all) = {u \in Uploads : handler[u] = "registered" /\ outcome[u] = "none"}

(* The verifier never holds two entries for one file, which is what makes  *)
(* removing the first match in TakePending enough.                         *)
OneEntryPerFile ==
    \A i, j \in DOMAIN (remaining \o toVerify) :
        SameFile((remaining \o toVerify)[i], (remaining \o toVerify)[j]) => i = j

(* File f has the bytes of w, but for those of a write that failed without *)
(* anybody noticing.                                                       *)
HasAll(f, w) ==
    /\ inode[f].payload = w \/ "payload" \in unwritten[w]
    /\ inode[f].trailer = w \/ "trailer" \in unwritten[w]

(* A file with a name that only one handler has had open is entirely that  *)
(* upload's, once the handler no longer writes it.  The exceptions are     *)
(* those of the code: the error of a write was ignored, or the process was *)
(* killed in the middle; a handler that fails leaves no part behind.       *)
SettledFilesComplete ==
    \A p \in Path, w \in Uploads :
        LET f == dir[p] IN
        f # None /\ inode[f].writers = {w} =>
            \/ fd[w] = f
            \/ handler[w] = "failed" /\ restarts > 0
            \/ HasAll(f, w)

Stored(u) == req[u] # None /\ dir[PathOf(u)] # None

(* Uploads that no other upload ever competed with for the file.           *)
Uncontested(u) == \A v \in Uploads \ {u} : req[v] = None \/ ~SameFile(u, v)

(* An upload that was alone in targeting its file is safe: from the moment *)
(* the handler has written it, however often the process is killed and     *)
(* whatever other uploads do, the file is there, unless its own            *)
(* verification failed, which removes it.  It has the upload's bytes but   *)
(* for those of a write that failed unnoticed, and of a shard that passed  *)
(* the verification the payload has them all: the hash shows a payload     *)
(* that was cut short.  Nothing shows a missing signature.                 *)
UncontestedStaysStored ==
    \A u \in Uploads :
        /\ handler[u] \in {"written", "registered"}
        /\ Uncontested(u)
        => IF outcome[u] \in {"failed", "expired"}
           THEN dir[PathOf(u)] = None
           ELSE /\ dir[PathOf(u)] = u
                /\ HasAll(u, u)
                /\ outcome[u] = "ok" /\ PathOf(u) \in ShardPath => inode[u].payload = u

-----------------------------------------------------------------------------
(* Liveness                                                                *)

(* Every handler returns: a full channel only delays it.                   *)
HandlersReturn == \A u \in Uploads : handler[u] \in Running ~> handler[u] \in Ended

(* Every registered upload gets a result, by the ten-minute limit if       *)
(* nothing else, also when the blockchain never accepts the transaction    *)
(* and when the RPC nodes fail.                                            *)
EveryUploadSettled ==
    \A u \in Uploads : handler[u] = "registered" ~> outcome[u] # "none"

-----------------------------------------------------------------------------
(* What comments and messages of the code say and the code does not do     *)

(* GetDownloadUrlsForShard, dht.go: the URLs it returns "have store this   *)
(* shard", so what was announced is stored.                                *)
AnnouncedIsStored == \A u \in announced : dir[PathOf(u)] # None
=============================================================================
