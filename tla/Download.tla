------------------------------ MODULE Download ------------------------------
(***************************************************************************)
(* Downloads of one file by archon (cmd/archon/main.go, download/):        *)
(* looking up who announced it, one goroutine for each shard found,        *)
(* putting the shards together.  Attempts follow each other and leave the  *)
(* local file behind.                                                      *)
(*                                                                         *)
(* Storage providers announce verified uploads under the names of          *)
(* ArchonUrl.  What a provider sends for a shard is left open: any header  *)
(* with any share, since nothing ties one to the other, to the upload that *)
(* was announced or to the user: the signatures are not looked at.  So     *)
(* providers may send shards of several versions of the file, of files     *)
(* nobody uploaded, with headers that belong to others, or no shards.      *)
(*                                                                         *)
(* External: a download code corrects as many wrong shares as half of      *)
(* those it has beyond the number needed, mxor none; shares of different   *)
(* encodings are taken to differ.  SHA-3 is taken for injective.  A panic  *)
(* counts as failing: so ends NewShardFromSP when it is sent less than the *)
(* header says.  An error of closing the file, which the code drops, is    *)
(* left out.                                                               *)
(***************************************************************************)
EXTENDS ArchonUrl, ShardFormat, FiniteSets

CONSTANTS
    Provider,
    Upload,       \* [url, acl, ix, sp]: what may be uploaded
    Url,          \* the URLs the user may type
    Version,      \* the containers, each in one encoding, that there are shards of
    Enc,          \* of a version: see below
    Body,         \* what providers may send for a shard
    Nothing,      \* no file, no answer
    Partial,      \* a file without all its bytes
    Garbage,      \* what is no shard, or no container
    MaxAttempts   \* bound

(* Of a version: the encoding and the container's hash that its headers    *)
(* show, and the container: its bytes, their type, "none" if it is one     *)
(* that is refused, and the size of the file in it.  In what archon makes  *)
(* the header goes with the container.                                     *)
Encoding ==
    [code: Code, needed: Nat \ {0}, total: Nat, hash: {Enc[v].bytes : v \in Version},
     bytes: {Enc[v].bytes : v \in Version}, fct: {"bo", "ao", "none"}, size: Nat]
WellMade(v) == Enc[v].hash = Enc[v].bytes /\ Enc[v].fct # "none"

LenOf(v) == ContainerLen(Enc[v].fct, Enc[v].size)
ShareLen(v) == ShardPayloadLen(Enc[v].code, LenOf(v), Enc[v].needed)

(* A shard is cut to the length that its header says.                      *)
Shard == [header: Version, share: Version \cup {Garbage}]
Content == [bytes: {Enc[v].bytes : v \in Version}, intact: BOOLEAN, len: Int]

ASSUME DownloadAssumption ==
    /\ \A x \in Upload :
        /\ x.sp \in Provider
        /\ x.url \in AnyUrl
        /\ x.url.user # NoUser       \* a hash URL cannot be announced
        /\ x.ix \in Indices(x.url)
    /\ \A a \in Url : a \in AnyUrl /\ (IsWholeFile(a) => a.total = 1)
    /\ \A v \in Version :
        /\ Enc[v] \in Encoding
        /\ Enc[v].code = "mxor" => Enc[v].needed = 2 /\ Enc[v].total = 6
        /\ \A w \in Version : Enc[v].bytes = Enc[w].bytes =>
               Enc[v].fct = Enc[w].fct /\ Enc[v].size = Enc[w].size
    /\ Body \subseteq Shard \cup {Garbage}
    /\ \A b \in Body \ {Garbage} :
        b.share # Garbage => ShareLen(b.header) = ShareLen(b.share)
    /\ Garbage \notin Version \cup Shard
    /\ Nothing \notin Body \cup Content
    /\ Partial \notin Content \cup {Nothing}
    /\ MaxAttempts \in Nat

VARIABLES
    uploads,    \* announced so far
    dht,        \* pairs of a key and a provider
    file,       \* the local file
    attempt,
    attempts

vars == <<uploads, dht, file, attempt, attempts>>

(* waiting: shards whose goroutine has not ended.  bodies: what the others *)
(* were sent, Nothing for an error.                                        *)
Idle == [pc |-> "idle", url |-> Nothing, overwrite |-> FALSE, urlMap |-> <<>>,
         waiting |-> {}, bodies |-> <<>>, first |-> Nothing]

Init ==
    /\ uploads = {}
    /\ dht = {}
    /\ file = Nothing
    /\ attempt = Idle
    /\ attempts = 0

At(l) == attempt.pc = l
Goes(l) == attempt' = [attempt EXCEPT !.pc = l]
Ends(how) == attempt' = [Idle EXCEPT !.pc = how]
Resting == attempt.pc \in {"idle", "done", "failed", "killed"}

-----------------------------------------------------------------------------
(* A provider has verified an upload and announces it.                     *)

Announce(x) ==
    /\ x \in Upload \ uploads
    /\ uploads' = uploads \cup {x}
    /\ dht' = dht \cup {<<DhtId(x.url, x.ix), x.sp>>}
    /\ UNCHANGED <<file, attempt, attempts>>

-----------------------------------------------------------------------------
(* Before the transfer                                                     *)

(* Bug: the file is not looked for.                                        *)
NeverExists(overwrite) == FALSE

AlreadyExists(overwrite) == ~ overwrite /\ file # Nothing

Begin(a, overwrite) ==
    /\ Resting
    /\ attempts < MaxAttempts
    /\ attempts' = attempts + 1
    /\ IF AlreadyExists(overwrite) \/ ~ Parses(a) THEN Ends("failed")
       ELSE attempt' = [Idle EXCEPT !.pc = "lookup", !.url = a, !.overwrite = overwrite]
    /\ UNCHANGED <<uploads, dht, file>>

(* What the URLs ask for, in tables.                                       *)
WellFormed == {a \in Url : Parses(a)}
Reaching == {a \in Url : Reaches(a)}
Keys == [a \in Url |-> [ix \in Indices(a) |-> RetrievedKey(a, ix)]]

Holders(a, ix) == {p \in Provider : a \in Reaching /\ <<Keys[a][ix], p>> \in dht}

(* One seed answers, or none does.  The DHT may miss holders; of the       *)
(* holders of a shard getUrlMap keeps one.                                 *)
GetDownloadUrls ==
    LET a == attempt.url
        found == {ix \in Indices(a) : Holders(a, ix) # {}}
    IN
    /\ At("lookup")
    /\ \/ \E D \in (SUBSET found) \ {{}} : \E m \in [D -> Provider] :
            /\ \A ix \in D : m[ix] \in Holders(a, ix)
            /\ Cardinality(D) >= a.needed
            /\ attempt' = [attempt EXCEPT !.pc = IF IsWholeFile(a) THEN "whole" ELSE "shards",
                                          !.urlMap = m, !.waiting = D]
       \/ Ends("failed")
    /\ UNCHANGED <<uploads, dht, file, attempts>>

-----------------------------------------------------------------------------
(* Whole files                                                             *)

CreateWhole ==
    /\ At("whole")
    /\ \/ file' = Partial /\ Goes("copy")
       \/ UNCHANGED file /\ Ends("failed")
    /\ UNCHANGED <<uploads, dht, attempts>>

(* The bytes go to the file as they come, and are not verified.            *)
CopyWhole ==
    /\ At("copy")
    /\ \/ \E v \in Version, ok \in BOOLEAN :
            /\ file' = [bytes |-> Enc[v].bytes, intact |-> ok, len |-> Enc[v].size]
            /\ Ends("done")
       \/ UNCHANGED file /\ Ends("failed")
    /\ UNCHANGED <<uploads, dht, attempts>>

-----------------------------------------------------------------------------
(* Shards                                                                  *)

(* Bug: a goroutine that has answered is still waited for.                 *)
downloadShardAgain(ix) ==
    /\ At("shards")
    /\ ix \in attempt.waiting
    /\ \E b \in Body \cup {Nothing} :
        attempt' = [attempt EXCEPT !.bodies = [j \in DOMAIN @ \cup {ix} |->
                                                 IF j = ix THEN b ELSE @[j]]]
    /\ UNCHANGED <<uploads, dht, file, attempts>>

downloadShard(ix) ==
    /\ At("shards")
    /\ ix \in attempt.waiting
    /\ \E b \in Body \cup {Nothing} :
        attempt' = [attempt EXCEPT !.waiting = @ \ {ix},
                                   !.bodies = [j \in DOMAIN @ \cup {ix} |->
                                                 IF j = ix THEN b ELSE @[j]]]
    /\ UNCHANGED <<uploads, dht, file, attempts>>

shardMap == {ix \in DOMAIN attempt.bodies : attempt.bodies[ix] # Nothing}
Of(ix) == Enc[attempt.bodies[ix].header]

Enough == Cardinality(shardMap) >= attempt.url.needed

(* The first shard in the map's order says what kind of container it is;   *)
(* one shard that is no shard, or whose index is too large for that        *)
(* container, is the end, whatever the others are.                         *)
StoreShards ==
    /\ At("shards")
    /\ attempt.waiting = {}
    /\ \/ \E first \in shardMap :
            /\ Enough
            /\ \A ix \in shardMap : attempt.bodies[ix] # Garbage
            /\ \A ix \in shardMap : ix < Of(first).total
            /\ attempt' = [attempt EXCEPT !.pc = "create", !.first = first]
       \/ /\ \/ ~ Enough
             \/ \E ix \in shardMap : attempt.bodies[ix] = Garbage
             \/ \E first, ix \in shardMap :
                    attempt.bodies[first] # Garbage /\ ix >= Of(first).total
          /\ Ends("failed")
    /\ UNCHANGED <<uploads, dht, file, attempts>>

CreateSharded ==
    /\ At("create")
    /\ \/ file' = Partial /\ Goes("decode")
       \/ UNCHANGED file /\ Ends("failed")
    /\ UNCHANGED <<uploads, dht, attempts>>

Intact(S, v) == {ix \in S : attempt.bodies[ix].share = v}

(* Whether the first shard's code makes version v of the shards S.         *)
DecodesTo(S, v) ==
    LET enc == Of(attempt.first) IN
    /\ enc.code = "mxor" <=> Enc[v].code = "mxor"
    /\ enc.needed = Enc[v].needed
    /\ Cardinality(S) >= enc.needed
    /\ 2 * (Cardinality(S) - Cardinality(Intact(S, v))) <= Cardinality(S) - enc.needed

(* bomxorDecode takes two shards, whatever the others are.                 *)
Used ==
    IF Of(attempt.first).code = "mxor" /\ Cardinality(shardMap) > 1
    THEN {Min(shardMap), Min(shardMap \ {Min(shardMap)})} ELSE shardMap

Decoded ==
    IF \E v \in Version : DecodesTo(Used, v) THEN CHOOSE v \in Version : DecodesTo(Used, v)
    ELSE Garbage

(* The hash and the length of the container come from the header of the    *)
(* shard with the lowest index.                                            *)
Sample == attempt.bodies[Min(shardMap)].header

(* Bug: the hash is not compared.                                          *)
AnyHash(v) == TRUE

SameHash(v) == Enc[Sample].hash = Enc[v].bytes /\ LenOf(Sample) = LenOf(v)

(* GetOriginalDataFromContainer: FALSE if there is an error.               *)
Accepts(v) ==
    /\ v # Garbage
    /\ DecodedLen(Enc[v].code, LenOf(v), Enc[v].needed) >= LenOf(Sample)
    /\ Enc[v].fct # "none"
    /\ SameHash(v)
Original(v) ==
    [bytes |-> Enc[v].bytes, intact |-> TRUE,
     len |-> OriginalLen(Enc[v].fct, LenOf(Sample))]

(* What the decoders do with shares of several lengths is left open.       *)
Uneven ==
    \E i, j \in shardMap :
        ShareLen(attempt.bodies[i].header) # ShareLen(attempt.bodies[j].header)

(* When the shards do not decode, the file that was created stays.         *)
Decode ==
    /\ At("decode")
    /\ \/ Accepts(Decoded) /\ Goes("write")
       \/ (~ Accepts(Decoded) \/ Uneven) /\ Ends("failed")
    /\ UNCHANGED <<uploads, dht, file, attempts>>

WriteSharded ==
    /\ At("write")
    /\ \/ file' = Original(Decoded) /\ Ends("done")
       \/ UNCHANGED file /\ Ends("failed")
    /\ UNCHANGED <<uploads, dht, attempts>>

Kill ==
    /\ ~ Resting
    /\ Ends("killed")
    /\ UNCHANGED <<uploads, dht, file, attempts>>

Next ==
    \/ \E x \in Upload : Announce(x)
    \/ \E a \in Url, overwrite \in BOOLEAN : Begin(a, overwrite)
    \/ GetDownloadUrls
    \/ CreateWhole
    \/ CopyWhole
    \/ \E ix \in attempt.waiting : downloadShard(ix)
    \/ StoreShards
    \/ CreateSharded
    \/ Decode
    \/ WriteSharded
    \/ Kill

Spec == Init /\ [][Next]_vars

-----------------------------------------------------------------------------
(* Properties                                                              *)

TypeOK ==
    /\ uploads \subseteq Upload
    /\ \A d \in dht : d[2] \in Provider
    /\ file \in Content \cup {Nothing, Partial}
    /\ attempts \in 0..MaxAttempts
    /\ attempt.overwrite \in BOOLEAN
    /\ attempt.url \in Url \cup {Nothing}
    /\ attempt.waiting \cup DOMAIN attempt.bodies = DOMAIN attempt.urlMap
    /\ attempt.waiting \cap DOMAIN attempt.bodies = {}
    /\ \A ix \in DOMAIN attempt.bodies : attempt.bodies[ix] \in Body \cup {Nothing}
    /\ ~ Resting => attempt.url \in Url
    /\ At("create") \/ At("decode") \/ At("write") => attempt.first \in shardMap

(* What was announced under a name is found under that name, although the  *)
(* provider makes the key of the transaction and the shard header, and the *)
(* client of a URL that is parsed, printed into a query and parsed again:  *)
(* when the URL is written so that the name survives, a lookup for a shard *)
(* yields exactly those who announced a shard with this index, of whatever *)
(* encoding, of the file.  However it is written, none of another user's   *)
(* files is found, nor a shard instead of a whole file.                    *)
NamedIsFound ==
    \A a \in WellFormed : \A ix \in Indices(a) :
        LET found == Holders(a, ix)
            like == {y \in uploads :
                /\ y.ix = ix
                /\ IsWholeFile(y.url) = IsWholeFile(a)
                /\ y.url.user = a.user /\ y.url.perm = a.perm}
        IN
        /\ found \subseteq {x.sp : x \in like}
        /\ Written(a.path) =>
              found = {x.sp : x \in {y \in like : y.url.path = Spelled(a.path)}}

(* A sharded download that reports success leaves the file of one single   *)
(* container, all of it and nothing else, of which it was sent enough      *)
(* intact shards, whatever else providers sent: never a mixture of two     *)
(* uploads.  That the user made this container nobody checks: the          *)
(* signature is a TODO (filecontainer.go:196).                             *)
SuccessMeansSent ==
    [][At("write") /\ attempt'.pc = "done" =>
        \E v \in Version :
            /\ file' = [bytes |-> Enc[v].bytes, intact |-> TRUE, len |-> Enc[v].size]
            /\ Enc[Sample].hash = Enc[v].bytes
            /\ Cardinality(Intact(shardMap, v)) >= Enc[v].needed]_vars

(* All shards that came are intact ones of one version that archon made,   *)
(* encoded as the URL says.                                                *)
AllFine ==
    \E v \in Version :
        /\ WellMade(v)
        /\ Enc[v].needed = attempt.url.needed
        /\ Enc[v].total = attempt.url.total
        /\ Cardinality(shardMap) >= Enc[v].needed
        /\ \A ix \in shardMap : attempt.bodies[ix] = [header |-> v, share |-> v]

(* With enough intact shards of one version, as many or more, and nothing  *)
(* else, an attempt does not fail on the way from the shards to the file,  *)
(* except for the file system.                                             *)
IntactIsDownloaded ==
    [][(At("decode") \/ (At("shards") /\ attempt.waiting = {})) /\ AllFine
        => attempt'.pc # "failed"]_vars

(* A complete file of an earlier download is only ever replaced when the   *)
(* user said so, and not before enough shards have come.                   *)
FileKept ==
    [][file' # file /\ file \in Content =>
        /\ attempt.overwrite
        /\ IsWholeFile(attempt.url) \/ Cardinality(shardMap) >= attempt.url.needed]_vars

(* StoredFilePath "returns the path where the file is stored on the        *)
(* server" (storageProvider/account.go:96): what is found under a URL is   *)
(* what the download handler opens for it.                                 *)
StoredIsServed ==
    \A x \in uploads, a \in Url :
        x.ix \in Indices(a) /\ Reaches(a) /\ RetrievedKey(a, x.ix) = DhtId(x.url, x.ix) =>
            ServedPath(a, x.ix) = StoredFilePath(x.url, x.acl, x.ix)

=============================================================================
