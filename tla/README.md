# Verification of archoncloud-go

TLA+ specifications of the Archon decentralised cloud: the clients that upload
files, the storage providers (SPs) that store them, the contracts that pay for
them and the marketplace in between. TLC checks them on small instances; TLAPS
proves the safety theorems for every value of the constants.

## 1. The system

A user uploads a file with `archon`: the client finds SPs by way of a seed,
computes a price, proposes and pays for the upload on a blockchain (Ethereum or
Neo), and posts the file, whole to one SP or as erasure-coded shards to several.
An SP (`archonSP`) writes what it receives to disk, waits until the blockchain
confirms the payment, checks the signature, and announces the file to a DHT. A
download asks an SP for the URLs that store a file or its shards.

### Components

| Component | State | Operations | Talks to |
|---|---|---|---|
| **Upload pipeline of an SP** `storageProvider/uploadHandler.go`, `pendingUpload.go`, `webserver.go` | files on disk, `uploadsPendingChan`, the verifier's `toVerify` and `remaining`, activity log | one handler goroutine per POST; one verifier goroutine; restart | handlers and verifier share the disk and the channel; RPCs to the blockchain; announces to the DHT |
| **Ethereum contract** `smartContracts/eth` | SP profiles, node IDs, user names, price scalars, owner, balance | `registerSP`, `unregisterSP`, `archonSPWithdrawal`, `slashStake`, `registerUsername`, `proposeUpload`, `updateCostScalar`, ownership, fallback | called by SPs and clients, sends Ether |
| **Upload client** `upload/`, `account/*account.go` | the SP list, shards to do, the answer channel | price confirmation, proposing, waiting for the transaction, rounds of posts, retries | posts to SPs, transactions to the contract |
| **Marketplace and provider cache** `upload/storageProviders.go`, `common/spprofile.go` | the cache file and its lock, shared by all client processes of a host | refresh from the seeds, read, sort, filter, random choice, price | GETs to seeds; the price goes to the contract |
| **Neo contract** `smartContracts/neo/CloudStorage.cs` | profiles, node IDs, user names, CGAS balances | register and unregister SPs, register user names, `ProposeUpload`, mint and transfer | called by SPs and clients; refusals are events in the transaction's log |
| **Neo RPC client** `blockchainAPI/neo` | none of its own: transactions on their way | sign and send, wait for a transaction, read its log, read the contract's storage, mint | Neo node |
| **SP registration** `storageProvider/account.go`, `interfaces/iaccount.go`, `account/*account.go` | where `archonSP` is in its start-up, which account is next | check, register, unregister, wait; overlapping runs | both contracts by RPC |
| **Neo uploads** `cmd/archon/main.go`, `account/neoaccount.go` | user name, price, transactions sent | user name, price, minting, one proposal per SP, the SP's verdict | contract by RPC |
| **Download client** `download/`, `cmd/archon/main.go` | local file, results per shard | look up URLs, one goroutine per shard, decode | seeds and SPs |
| **Download and query endpoints** `storageProvider/download.go`, `endpoints.go` | none of their own, reads the disk | download, retrieve, sps, stats | disk, DHT |
| **URLs and stored paths** `common/archonurl.go`, `storageProvider/account.go` | none | parse, print, map to a DHT key and to a path | every handler |
| **Shard and file containers** `shards/` | none | encode, decode, store, reconstruct | client and SP |
| **Activity log** `storageProvider/activity.go` | rotating log file | record upload, record download | verifier, download handler |
| **Ethereum RPC client, DHT** | other repositories (archoncloud-ethereum, archon-dht) | | |
| **Configuration, command line, wallets** | files | parsing, prompts | |

### Where it is hard, and what would be right

- *Upload pipeline.* A file gets its final name before it is verified, and
  everything after that (clean-up, removal, announcement) goes by name. Handlers
  interleave with each other and with the verifier; the channel is bounded;
  whatever is pending exists only in memory. Right: nothing is announced that
  was not paid for and verified; no pending upload is forgotten, held twice or
  kept for ever; the file of an uncontested upload is there until it is rejected,
  complete unless a write failed unnoticed, which a shard's hash then shows.
- *Ethereum contract.* Amounts are divided and rounded, one provider may be
  listed twice, stake, earnings and slash are settled in three functions, the
  receiver of Ether may call back. Right: the contract can pay what it owes, its
  maps are inverse to each other, storage is not oversold or sold for nothing.
- *Upload client.* The payment comes first; then answers arrive in any order and
  each changes the lists the next round is dealt from. Right: success means a
  paid SP stored every shard; the main goroutine never waits for an answer that
  nobody sends; the upload ends.
- *Marketplace.* Several processes share a file; a refresh has several steps and
  the process may die between them. Right: nobody reads what another process is
  writing; a broken cache is replaced; the choice is the
  cheapest although the sort is unstable and the final pick is random; the price
  satisfies the contract's own check.

- *Registration.* A run that times out or is killed leaves transactions that
  take effect during the next one; on Ethereum a failing RPC reads as "not
  registered"; accounts may share a node ID. Right: the contract's maps tell one
  story; a run that serves is registered; an unregistration reported as done is
  done.
- *Neo uploads.* Name, balance and ask are read, and used some transactions
  later; nothing is waited for after the first payment. Right: an SP that accepts
  was paid by the ask it had; a client that had the money is refused only for
  what others did.
- *Downloads.* One name is made of different things at upload, lookup and
  download, and goes through a query where some characters mean something else;
  uploads of several versions share it; providers send what they like;
  a container has to be taken apart by lengths alone. Right: what was announced
  is found and served; success means all bytes of one container.

The components, their status and every hazard with the line where it bites are
also listed in `PROJECT.json`.

## 2. Modules

```
UploadLifecycle            what an SP promises about an upload
UploadPipeline             handlers, verifier, disk, channel, restart
    ^ UploadRefinement     refinement mapping to UploadLifecycle
        ^ UploadPipelineProofs
ArchonContract             transactions of Archon.sol
    ^ ArchonContractProofs
Marketplace                cache file, lock, refresh, choice, price
    ^ MarketContract       + the price of an upload (INSTANCE ArchonContract)
        ^ MarketplaceProofs
UploadClient               proposing, paying, rounds of posts, retries
    ^ UploadClientProofs
NeoContract                methods of CloudStorage.cs
    ^ NeoRpc               + transactions on their way, waits, reads
        ^ Registration     + ArchonContract's registration; runs of archonSP
            ^ RegistrationProofs
        ^ NeoUpload        + runs of archon that pay on Neo, SPs' verdicts
            ^ NeoUploadProofs
ArchonUrl, ShardFormat     names; lengths
    ^ Download             lookup, shards, decoding, local file
        ^ DownloadProofs
SetLemmas                  induction over finite sets, sums; for the proofs on
                           ArchonContract, MarketContract and NeoUpload
MC*                        instances for TLC
```

Names follow the Go and Solidity sources. Definitions introduced with "Bug:"
stand beside the one they vary: they are plausible mistakes of the code and are
used by no specification; replacing the definition by one of them shows that a
property can fail.

### UploadPipeline

| Variable | Code |
|---|---|
| `handler[u]` | program counter of `uploadHandler` → `uploadShard` or `uploadWholeFile` → `registerPendingUpload` |
| `dir`, `inode`, `fd` | directory entries, file contents, the open file of a handler. A content says whose bytes, all of them, the payload and the trailer (the signatures) are, and which handlers (`writers`) had the file open since one had it alone; what several write over each other is nobody's |
| `unwritten` | the parts an upload could not write whole without the code noticing |
| `uploadsPendingChan`, `toVerify`, `remaining` | the channel and the two slices of `VerifyPendingUploads` |
| `verifier`, `status` | where the verifier is in its loop, and what `Verify` returned |
| `txAccepted`, `late` | the blockchain and the clock |
| `activity`, `announced` | the activity log and what was published |
| `outcome`, `restarts` | history |

An action is one system call, channel operation or RPC. `OpenShard` truncates
an existing file whatever the overwrite flag says, because `getShardFile`
overwrites the error of its test. `FailShard` and `ConcludeRemove` remove by
name. Three writes fail unnoticed (`Ignored`): those of the two signatures, whose
errors are dropped (`uploadHandler.go:179,187`), and that of the payload, as
`mxorShardHeader.go:169` overwrites the error of `io.Copy`, the others that of
writing the header. The handler then goes on to `registerPendingUpload`. The
hash counts only bytes that were written (`HashingWriter`), so `Matches` is false
for a shard whose payload was cut short; nothing looks at the signatures on the
disk, and the hash of a whole file is taken before `Close`, whose error is
dropped too. `Verify` and the use of its result (`Conclude...`) are two steps, as the
disk and the other goroutines can move in between. An RPC error reads as "not
accepted" in one call and as "failed" in the next, which is `Verdicts`. A hash
URL is never announced (`CanAnnounce`): the first segment of its path names no
permission layer.

Abstracted: the checks before the dispatch on the container type (they change
nothing), content, signatures (one Boolean `valid` per request: this SP is in
the transaction and the signature matches the bytes that came), and the mapping
from URLs to paths. What was written stays: a power failure that loses what the
operating system has not yet put on the disk is left out, as is what `fsync`,
which the code never calls, would do about it.

### UploadLifecycle and UploadRefinement

Stages of an upload: absent, receiving, aborted or awaiting, then verified,
rejected, superseded or lost. `UploadRefinement` maps the pipeline to it; an
upload counts as verified from its entry in the activity log on, which is
written inside `Verify` and survives a restart.

### ArchonContract

One action per transaction that does not revert: the variables are the
contract's storage plus `wallet`, the Ether outside. A `require`, a SafeMath
overflow or underflow and a failing transfer are guards. State changes precede
the transfer in the code, so a re-entrant call is another transaction and needs
no action of its own. `proposeUpload` books one entry of the `address[]` after
another; the model uses the number of occurrences of each provider, which is
the same because the loop either completes or reverts. Public keys, the hash of
the upload and the events are left out.

### UploadClient

One upload from the price to its end. `sps`, `shardsToDo`, `todo` and `uchan`
are the variables of `uploadNeededShards`; `post[s]` is the goroutine of shard
s with the URLs it has tried and whether the pipe it shares between attempts is
still intact. `stored` is what the SPs hold. The environment chooses for each
POST among success, refusal before or after reading, and an answer that is lost
after the shard was stored.

### Marketplace and MarketContract

`file`, `cached`, `old` are the cache file: absent, truncated but not yet
written, or a list with its age. `lock` is the `flock`; `seed`, `m` and `again`
are locals of the only process that can be inside it. `SaveConfiguration` is
two steps, `Truncate` and `Write`. `GetUploadSps` is one step, as it uses
nothing shared. `Sorted` yields every order an unstable sort can leave, `Kept`
the prefix the loop and `KeepOnly` leave, `Picks` every random choice. A seed
that does not answer adds what an answer without providers adds.

`MarketContract` instantiates `ArchonContract` in a state in which every
provider has registered the price it has in the cache, and states that the
price `PriceOfUpload` computes passes `getMaxMinAskPrice`'s test after the
contract divided it.

### NeoContract and NeoRpc

`NeoContract` has one action per method that changes state and beside it the
condition under which the method raises "error" instead. The caller signs with
the account it names, as all callers here do. `NeoRpc` adds `txs`, the
transactions sent so far: any pending one may be included next, in any order or
never, with the effect it has *then* (`Invoke`) or none (`Refused`). What the
waits make of it is `Succeeded`: success is reported only for a transaction that
is in a block without an "error" event; failure may be reported at any time.
`UnregisterUserName` is called by no program and left out.

### Registration

One record per run of `archonSP`: the command, the account it is at (Ethereum
first), where it is in `checkRegistration`, and the transaction it waits for. The
two waits differ: Neo's looks for the run's own transaction, Ethereum's
(`WaitForRegUnreg`) polls the account's state, and an RPC error reads as
unregistered (`Answers`). Runs on one account may overlap. `misread` and
`disturbed` are history: they say when the program was told something wrong, or
another run touched its account, which the properties except.

The Ethereum contract is the set of registered addresses here; `ArchonContract`
has the rest.

### NeoUpload

`client[r]` is one run of `archon`; `verdict` what each SP concluded from
`GetUploadTxInfo`. `confirmPrice` reads the asks as they are, every SP is then
paid by the highest of them; `MintCGasIfNeeded` compares the balance once and
does not wait for the mint; the proposals are sent one by one without a wait. SPs
register, leave and change their ask meanwhile, at most `MaxChanges` times.

### ArchonUrl and ShardFormat

`ArchonUrl` follows one name through the program: `DhtId` and `StoredFilePath`
from what an SP reads off the transaction and the shard's header (`UrlAtSP`),
`RetrievedKey` and `ServedPath` from what comes of the URL a user types. A name
of several parts is a tuple of them. `Parses` depends on the number of digits in
the URL: a total of ten or more shards is printed and announced, and refused by
the parser.

A path is a sequence of pieces, each a run of plain characters or a character
that means something in a URL or is not allowed in a file's name, with the number
of times it is percent-encoded. The way of a path:

| Step | Code | Definition |
|---|---|---|
| the client parses the URL that was typed: cut at `?` or `#`, decoded, `IsLegalFilePath` | `archonurl.go:40,48,115` | `NewArchonUrl`, `Parses` |
| it prints the result, *not* escaped, into the query of a GET | `download/dht.go:13`, `getFromSP.go:15` | `Requested` |
| the server refuses a space in the request line; the value ends at `&` or `;`; `+` becomes a space; decoded | `endpoints.go:72` (net/http, net/url) | `QueryTakes`, `QueryGet` |
| the SP parses what it finds | `endpoints.go:74` | `Reaches`, `RetrievedKey` |

So each special character has to be escaped some number of times in the URL that
is typed to be found as itself, which is `Needs`: `+`, a space and `&` twice, `%`
three times. A `?` is refused in names, and one that has `%3F` in it instead
takes four. `Written` URLs do so, and `Spelled`
is the name they spell. The URL that an upload prints is not one of them if its
path has such a character. Lengths of paths and special characters in user names
(which would move the parts of the host) are left out.

`ShardFormat` is the arithmetic of `filecontainer.go` and `shardscontainer.go`:
lengths of containers, headers, parity and shares, and the two computations that
undo them.

### Download

Attempts follow each other and leave `file`, the local file, behind: nothing, a
content, or `Partial`. `Announce` is what the pipeline does for a verified
upload. `GetDownloadUrls` lets the DHT miss holders, and keeps one holder per
shard. `downloadShard` leaves open what the provider sends: an error, garbage,
or any header with any share. The decoder only compares the container with the
hash in a header (`filecontainer.go:191`; the signature is a TODO at `:196`), so
`Version` has the containers of all shards that a provider can make, those
nobody uploaded included, with headers that show another container's hash and
containers of no known type. Which shard decides the kind of container, and whose
header gives the hash and the length, is as in the code: the first in the map's
order, and the one with the lowest index. `Decode` and `WriteSharded` are two
steps: the write may fail.

External are the decoders: a Reed-Solomon decoder corrects half as many wrong
shares as it has to spare, mxor none; a hash is injective. What they do with
shares of several lengths is left open (`Uneven`). A panic ends the program and
counts as failing: so ends `NewShardFromSP` when it gets fewer bytes than the
header says. The error of closing the file is dropped by the code and left out.

`DownloadFile` has no timeout, so nothing is said about the end of a download.

## 3. Runs

`tlc -workers 2 -config X.cfg M`, from this directory.

| Run | Module, cfg | States, time | Shows |
|---|---|---|---|
| pipeline | MCUploadPipeline, MCUploadPipeline.cfg | 1 039 000, 105 s | `AnnouncedOnlyVerified`, `NothingForgotten`, `OneEntryPerFile`, `SettledFilesComplete`, `UncontestedStaysStored`, `ImplementsLifecycle` |
| upload_live | MCUploadPipeline, MCUploadLive.cfg | 70 000, 30 s | `HandlersReturn`, `EveryUploadSettled` |
| contract | MCArchonContract, MCArchonContract.cfg | 343 000, 90 s | `NodeIDsMatch`, `UsernamesMatch`, `ProvidersBacked`, `Solvent`, `StorageIsPaidFor` |
| client | MCUploadClient, MCUploadClient.cfg | 150 000, 30 s | `SuccessMeansStored`, `AnswersCounted`, `ShardsAccounted`, `UploadEnds` |
| market | MCMarketplace, MCMarketplace.cfg | 179 000, 40 s | `PartialOnlyByFailure`, `RefusedOnlyAfterAsking`, `CheapestChosen`, `PriceSuffices`, `CacheRecovers` |
| registration | MCRegistration, MCRegistration.cfg | 894 000, 60 s | `NodeIdsOfRegistered`, `ServingIsRegistered`, `UnregisteredIsGone` |
| neo | MCNeoUpload, MCNeoUpload.cfg | 405 000, 70 s | `ShownNameIsRegistered`, `AcceptedIsPaid`, `FundedIsAccepted`, `RunEnds` |
| download | MCDownload, MCDownload.cfg | 74 000, 90 s | `NamedIsFound`, `SuccessMeansSent`, `IntactIsDownloaded`, `FileKept` |

These runs end in a counterexample, each a disagreement of the code with a
comment or message of its own:

| Run | What happens |
|---|---|
| announced_stored | Upload 1 is verified and announced; upload 2 for the same path is rejected; the verifier removes by name, and upload 1's file with it (`pendingUpload.go:104`, also `uploadHandler.go:168`) |
| proposed_uploaded | A sharded upload of an Ethereum account panics on a nil map after it was paid for (`sharded.go:77`) |
| asks_satisfied | `ProposeUpload` compares the ask per megabyte with the payment *times* the megabytes: an SP that raised its ask is underpaid (`CloudStorage.cs:208`) |
| served | Uploads are stored below a folder for their access level, and `/download` opens the path without it (`download.go:77`, `account.go:80-106`) |

### Bounds, and why they are enough

- *Pipeline.* Two uploads are enough for every race of two handlers or of a
  handler and the verifier's removal; with one shard path and one whole path
  both kinds meet each other and themselves. A channel of capacity 1 is full as
  soon as one upload waits. One restart separates "before" and "after". The
  uploads are interchangeable, so the safety run uses symmetry; the liveness run
  does not. `OneFailedWrite`: at most one write of a behaviour fails unnoticed,
  any of them at any time; a second one cuts another part short and meets nothing
  new. The liveness run has none (`WritesFail`), as no handler and no verifier
  waits for what was written. The liveness run has one shard path and both requests with the
  overwrite flag (`OneFlag`), because the flag makes no difference to a shard.
- *Contract.* Two accounts, arrays of up to two entries (one provider twice, two
  different ones, one), a megabyte of 2 bytes with shards of 1 and 3 bytes, so
  that rounding down and the exception below a megabyte both occur, amounts of
  0 to 2 and a `MaxUint` of 3 so that additions overflow. Two names for two
  accounts, as an account needs a name to propose an upload and may race for
  one. Node IDs and names are interchangeable. `OwnersApart`: who the owner is
  decides who may slash or change a scalar and not what that does, so other
  owners than the deployer are explored only while no provider is registered.
- *Client.* Four shards, three providers and rounds of three: a second round is
  needed even if nothing fails, the first round can eliminate every provider,
  and a provider can be dealt two shards. Both URL schemes for all, so that
  retries occur. `readable` says whether the file can be read to its end, which
  is the premise of `SuccessMeansStored`.
- *Market.* Two processes, three seeds (an answer can repeat, add and be the
  last), three providers of which one or two are wanted, one failure.
  The choice only compares rounded prices and providers are interchangeable, so
  `TiePatterns` keeps one price vector for each pattern: 1 and 2 round to 2, 3
  and 4 to 4, 5 to 6, so the two cheapest tie, the two dearest, none or
  all three.
  `HalfInt64` is 16 so that the product overflows for the larger shard and the
  premise of `PriceSuffices` matters.

- *Registration.* Three runs: two of one operator (the first with a wallet on
  each chain, the second on Neo alone and with another ask), so that a late
  transaction of one meets the other, and one whose account has the same node
  ID. Both accounts of the first operator are registered at the start. Each run
  starts once; a transaction a run leaves behind is what a third start would.
- *Neo uploads.* One user, two runs that type different names, two SPs of which
  one is registered, two changes of registrations (leave and come back, or
  change), asks 1 and 2, shards of 2 MBytes or none, a balance of 4, which is
  enough for two payments of 2 but not of 4, and mints of 8.
- *Downloads.* Two encodings of one path that were uploaded, mxor (2 of 6) and
  archive-optimised Reed-Solomon (1 of 3), a whole file under the same path, and
  a URL whose total has two digits; file sizes 7 and 25, on both sides of a share
  boundary. Providers send intact shards of each, of a third container nobody
  uploaded, a header of the first with a share of the third, a damaged share, or
  garbage. Whole files named with a `+`, a space, `&`, `%` and an escaped `+` and
  `?`, and URLs that escape them often enough, too seldom or too often
  (`OddFile`, `OddUrl`). Two attempts: the second meets what the first left.
  `OddAlone` and `Announcements` explore the odd names apart from the others, and
  announcements before the first attempt, when all have announced: a lookup may
  miss any holder, so one that has not announced is one that was missed.
  `ThreeFound`: an attempt finds at most three shards, any of the four: one more
  than needed.

### Fairness

- *Pipeline.* Go runs goroutines that can run (weak fairness of the verifier and
  of each handler step). A send on a full channel is served in order of arrival
  (strong fairness of `RegisterPendingUpload`). Ten minutes pass. The request
  body was read by `ParseMultipartForm` before the model starts. Nothing makes a
  transaction go through or an RPC succeed: the properties hold without.
- *Client.* Goroutines run, and every POST ends. The latter is an assumption on
  the peers: `PostFromReader` sets no timeout, and a provider that accepts a
  connection and stays silent blocks the upload for ever.
- *Marketplace.* A process that can run does, time passes (`Age`), and uploads
  are requested again after an upload has ended; `CacheRecovers` needs someone
  to look at the cache. Lock acquisition itself is not assumed fair beyond that.

- *Neo uploads.* Client and SP take their steps, as every wait has a time-out.
  Nothing is assumed of the chain: transactions may stay pending for ever.

Deadlock is checked where the system never stops (contract, market). The
pipeline ends when its finite uploads are settled, the client when its upload
ends, registration, Neo uploads and downloads when the bounded runs are over, so
their configurations say `CHECK_DEADLOCK FALSE`.

## 4. Proofs

`tlapm M.tla`. The theorems hold for every value of the constants that meets
the named assumptions of the modules; TLC evaluates those assumptions in the
runs. Assumptions only exclude what the code excludes: disjoint sets of paths, a
channel with room for something, at least one seed, a granularity above zero,
finitely many providers and addresses, one wallet per chain, a `None` that is
nothing else.

### UploadPipelineProofs

| Theorem | Argument |
|---|---|
| `TypeCorrect` | `TypeInv`: types, "while a status is being used there is an entry to use it for", and "a handler runs only for a request that arrived". Without the second, `Tail(toVerify)` could be taken of an empty list. |
| `NothingForgottenAlways` | `QueueInv`: the three sequences are injective, pairwise disjoint, and together hold exactly the uploads that wait for a result; with `ResultsOfRegistered`, as an upload with a result must not be sent again. |
| `OneEntryPerFileAlways` | `TakePending` removes the first entry for the file and there is at most one, by induction; during a pass entries only move from `toVerify` to `remaining`. |
| `AnnouncedOnlyVerifiedAlways` | `VerdictSound`: between `Verify` and its use, status "ok" implies that the head of the list is valid, accepted and logged, and nothing takes that back. |
| `UncontestedStaysStoredAlways` | `FileInv` (`DirInv` and `FdInv`: a name refers to, and a handler writes to, only an inode made for the same path) and `OwnFiles` (what holds of the file of an upload without competitors at each step of its handler). The invariant has to name every step, since the property starts only when the handler has written. An unnoticed failed write leaves a mark in `unwritten`, and a verdict "ok" of a shard excludes the one on the payload. |
| `SettledFilesCompleteAlways` | `CompleteInv`: a file that one handler alone has had open is complete but for the parts marked unwritten, or the handler still writes it, or was killed in it; a temporary file holds what its upload sent, with the same exception, before it gets the name. |

The lemmas on `RemoveAt`, `Append`, `Tail` and concatenation of injective
sequences come first and are cited by name.

Refinement, `LifecycleImplemented`: the initial states map to initial states, and each step
of the pipeline maps to a step of `UploadLifecycle` or leaves stages and files
as they are. `StageFacts` says which states of handler, queues and log make up a
stage. The simulation needs `QueueInv` and `VerdictSound` from above, and
`ActivityInv`: what is in the activity log has the result "ok" or "lost", or is
being concluded right now, and every result "ok" is in the log. Without it an
upload that counts as verified could still be waiting for another verdict.

### UploadClientProofs

All four safety properties come from one invariant, their conjunction with
`RoundInv` and `PaidInv`. A shard that is to do is in one of three places:
waiting, with a goroutine, or answered on the channel. `RoundInv` says that
goroutines and answers are about shards to do and providers that were paid, and a
good answer about a shard that is stored; `PaidInv` that the loop only deals out
providers that were paid. `EraseIntFacts` and `WithoutSPFacts` are about the two
ways a list loses an element: moving the last one into the gap, and closing it.

### ArchonContractProofs

`TypeCorrect` (no amount ever goes below zero), `UsernamesMatchAlways`,
`NodeIDsMatchAlways` and `ProvidersBackedAlways` are inductive together with the
types, one lemma per function of the contract. `BadStandingSticksAlways` and
`StorageIsPaidForAlways` are action properties: the latter is arithmetic on one
transaction, that rounding the shard size down to megabytes, with one megabyte
as the least, loses less than half of it, multiplied by the number of
occurrences of the provider in the list.

`SolventAlways` is a pair of sums over all addresses. `ReceiveConserves` and
`SendConserves` say that what an account pays the contract gets and the other
way round; it remains to compare the balance with what is owed. A transaction
for one account changes one summand (`SumChange`). An upload books the same
share at every place of its list, so what providers gain together is the share
times the number of places (`SharesBooked`, by `SumOfCounts`), and the share is
what was sent divided by that number, rounded down. A slash takes from a stake
or from earnings only what is there.

### MarketplaceProofs

`TypeCorrect` with `HolderInv`: a process is in the locked part of `currentSPs`
exactly if it holds the lock, and the locals of a refresh are fresh when it
starts. From it `PartialOnlyByFailureAlways`. `RefusedOnlyAfterAskingAlways`
adds `GatherInv`, which relates the list in the file to what this very call
gathered: after a second refresh that left an empty list the process has asked
every seed and gathered nothing. `CheapestChosenAlways` rests on facts about the
choice: a sorted list is onto (an injection between finite sets of one size), a
price below a rounded price rounds to at most that, hence no kept provider is
dearer, up to rounding, than the one at place `needed`; the cheaper ones of it
inject into the `needed - 1` places before it.

`PriceSufficesAlways` needs no more than the types: the chosen providers are in
a sequence without repetitions (`SetToSeqFacts`), the client multiplies the
highest ask by their number, so the share is that ask times the MBytes exactly
(`ExactShares`), also where the contract rounds a shard below a megabyte up, and
nothing wraps around in `int64` under the premise (`Int64Fits`). What the
contract asks is the sum over the list, each place at its own ask
(`AskInContract`, `Enough`).

### RegistrationProofs

`NodeIdsOfRegisteredAlways` needs `MapsInv`, that a pending transaction names the
node ID of the account that signed it; then each of the two deletions of
`UnregisterStorageProvider` leaves the maps in step, except between accounts
that share an ID. `UnregisteredIsGoneAlways` adds `OwnInv`, a run has at most one
pending transaction of its own, the one it awaits, signed by the account it is
at, and `GoneInv`, once that transaction is in a block the account has no profile
unless another run's transaction came in between.

`ServingIsRegisteredAlways` needs `ServeInv`. For each account a run was not
disturbed at or misled about, `Fit` follows it through the program: of the run's
own transactions for the account only the one it awaits may still take effect,
that one says what it should, and after the account's turn it is registered. One wallet
per chain (`Accounts` is injective for a run) keeps an account from having two
turns.

### NeoUploadProofs

`ShownNameIsRegisteredAlways` follows the awaited transaction (`NameFit`): while
it is pending it is the run's own registration, once it took effect the name
stays, as the contract refuses any other. `FundedIsAcceptedAlways` is about the
moment the contract refuses a proposal. `SentFit` says that a pending proposal
of a run that goes on is the one it sent to that provider; `FundFit`, that a run
that had the CGAS still has enough for every provider it has yet to propose to
and every proposal that is pending, unless another run spent some: each accepted
proposal takes one payment from the balance and one provider from that set,
which is why the providers have to be finitely many. `Priced` with the facts on
`HighestAsk` covers the ask.

`AcceptedIsPaidAlways` compares a balance with a sum over the runs a provider
accepted. `PaidInv` is about more runs, those with a proposal to the provider
that took effect: its CGAS covers what they were charged. The block that makes a
proposal take effect adds one summand and the same amount (`BlockPays`); nothing
takes CGAS from a provider, as no user's account is one; a run that goes on can
only lose such a proposal, not gain one (`ClientKeepsPaid`), and its payment
stays what it was. `Run` may be infinite, but only finitely many runs have
started, without which the sum would mean nothing.

### SetLemmas

What the three theorems above rest on. The induction theorems of the library
take an operator, which no prover here can instantiate; `SetInduction` takes the
*set* of the subsets for which the claim holds instead, and is proved from a
minimal set outside of it (the strict subsets of a finite set are well-founded).
With it `SumExists` and `SumUnique` show that there is one function that assigns
every subset its sum, whatever the order in which `SumFunctionOnSet` picks
elements, and `SumValue` that this is what the operator computes. Then the usual
facts: one element more or less, bounds, monotonicity, linearity, the change of
one summand, and `SumOfCounts`, that the numbers of occurrences of the elements
of a sequence add up to its length.

### DownloadProofs

The arithmetic comes first, for every size: `PayloadRecovered` (a container is
taken apart where the file ends, for which 25 and 26 divide in step),
`ShardReadAsWritten` and `ShareCover`.

`NamedIsFoundAlways` is for paths of any length. `WrittenFacts` follows a path
whose special characters are escaped often enough: at each step of the way the
ones that would end it, or be refused there, are still escaped, so no step cuts
it, and three decodings take up to three escapes from every piece; what comes
out is `Spelled`. Apart from the path, `UrlAtSP` and `NewArchonUrl` differ only in
the total of a whole file, which `ShardPath` does not use, and the DHT holds
exactly the keys of the uploads. That no other user's file is found needs no more
than that decoding leaves the host alone.

`FileKeptAlways` carries "the attempt may overwrite, or there is no complete
file" from the test at the start to the creation. For `SuccessMeansSentAlways`
the hash ties what was decoded to the header of the lowest shard, and at least
`needed` of the shards used are intact ones of it; `OriginalFacts` says that what
is cut out of the container is then the file. For `IntactIsDownloadedAlways` all
shards are of one version (`SameShards`) and a decoder has nothing to correct.

### What is proved of liveness

"Something happens eventually" is out of the prover's reach, but two halves of
the argument are not: that a component is never stuck, and that what it may
still do is bounded by a number which each of its steps makes smaller and
nobody else's makes larger. With them, all that liveness needs on top is that
steps that can be taken are taken.

| Theorem | The bound | Not stuck |
|---|---|---|
| `VerifierGoesOn`, `HandlersShrink` (pipeline) | a pass: a verdict and its use for each entry left (`PassLeft`); a handler: five steps | `VerifierAble`: of the entries for a file one is the first (as there is one, `OneEntryPerFile`), an upload has a verdict, which is not "unknown" for a late one, and the switch knows it. A handler waits only for the channel, which the verifier empties |
| `UploadShrinks`, `UploadNeverStuck` (client) | `Rank`: a round is worth what may happen in it, and leaves fewer shards to do or fewer providers to try; `TriedInv` ties the lists of the loop to the answers still to come | `Ready`: while the main goroutine waits, goroutines still post or answers lie on the channel; a file goes to a provider that is paid (`PayeeInv`) |
| `LockPassesOn`, `CallNeverStuck` (marketplace) | what the holder of the lock may do: two refreshes of `NumSeeds` questions and three steps | the file that is read is there; every list can be sorted (`SortedExists`) and the cheapest `needed` are kept whatever the order (`PicksExist`) |
| `RunsShrink` (registration) | `ToGo`: five steps for each account, and a transaction is only sent in one of them | a wait may always end by a time-out |
| `RunShrinks` (Neo uploads) | `StepsLeft` of each run; a provider decides once on its upload | as above |
| `DownloadShrinks` | `Steps`: the shards of the URL and five | `AttemptAble`: the shards that came are enough, too few or not of one container; with none at all they are too few, as a URL with shards needs at least one |

`CgasConserved` (NeoUploadProofs) is about what such a run moves: the sum of all
balances changes only by what a mint that took effect adds, whatever the chain
refuses or reorders. Its sum is over all accounts, hence the assumption that
there are finitely many (script hashes have 160 bits).

### Only model-checked

Every invariant and every property of a step that a run checks is a theorem.
What stays with TLC is the liveness, since ENABLED and fairness are outside what
the proof system does: `HandlersReturn`, `EveryUploadSettled`, `UploadEnds`,
`CacheRecovers` and `RunEnds`. Of `HandlersReturn`, `UploadEnds` and `RunEnds`
the bound on the steps is proved (above), and of `EveryUploadSettled` that each
pass ends and has no "unknown" left for an upload it finds late; that the
guards named there are the enabling conditions is a reading of the actions,
which TLC confirmed for `Ready` and `Able` on the small instances. That the folds
in the model compute what their names say is proved where a theorem needs it
(sums, the greatest element) and otherwise seen only in the runs.

## 5. Other disagreements seen while modelling

No run is devoted to these; they are in the models where it says so.

Uploads and their verification:

- `uploadHandler.go:30` promises to "verify later", but pending uploads are only
  in memory: after a restart their files are neither verified nor removed
  (outcome "lost" of the pipeline).
- An RPC error of `GetUploadTxInfo` (`pendingUpload.go:119`) is a failed
  verification and removes a valid upload; the same error one call earlier is
  retried (`Verdicts`).
- `Verify` compares the signature with the hash computed while the body was
  received (`pendingUpload.go:84`): when a second upload rewrites the file before
  the first is verified, the first is announced for bytes nobody verified.
- The errors of writing the uploader's and the SP's signature are dropped
  (`uploadHandler.go:179,187`), the error of copying an mxor payload is
  overwritten (`mxorShardHeader.go:169`), and bors and aors drop that of writing
  the header. On a full disk such a shard keeps its name and is verified. A
  payload that was cut short does not have the signed hash, and the shard is
  removed; one without its signatures is announced (`Ignored`, `Matches`, and the
  exceptions of `SettledFilesComplete` and `UncontestedStaysStored`).
- `getShardFile` overwrites the error "shard already exists" with the result of
  `MkdirAll` (`uploadHandler.go:207`), so a shard is truncated without the
  overwrite flag; two whole files can both pass the `FileExists` test
  (`uploadHandler.go:130`).
- `postShard` offers the second URL the pipe that the first attempt has emptied
  (`sharded.go:204`, against "Can try both http and https", `:193`).
- The goroutine of `postWholeFile` assigns its error to a shadowed variable
  (`wholeFile.go:75`): a file that could not be read to its end counts as
  uploaded (the premise `readable` of `SuccessMeansStored`).
- `account.go:177`: `ProposeUpload` of a whole file with a Neo account goes on
  to "unknown account type" after it has paid (`ProposedNeo`).
- `wholeFile.go:15` speaks of all providers; one random provider is chosen.

Marketplace and Ethereum contract:

- `storageProviders.go:122` says "Pick all with a price equal to the largest
  amongst needed"; the last provider of the list is never kept, whatever its
  price (`Kept`), and a tie is judged by exact against rounded price.
- `storageProviders.go:46` returns no error when the lock times out; the upload
  then fails with "could not find any storage providers" (`LockTimeout`).
- A process that dies in `ioutil.WriteFile` leaves a cache that no upload can
  parse for two hours (`CacheRecovers` shows that it ends then).
- `PriceOfUpload` multiplies in `int64` without a check (premise of
  `PriceSuffices`).
- After a slash below the earnings and a withdrawal the earnings are gone and the
  slash is kept (`Archon.sol:318`): a provider in good standing has less than the
  stake that `Archon.sol:238` asks for.
- `Archon.sol:124`: the comment on the owner of a node ID and the code differ.

Registration and Neo:

- `GetSeed` (`iaccount.go:113`) reads a variable-length integer from a hash: every
  second hash yields a seed of one byte, so node IDs collide. The second account
  cannot register, and a late unregistration deletes the entry of another account
  with the same node ID, which the contract does not check (`NodeIdsOfRegistered`
  excepts such accounts).
- `WaitForRegUnreg` takes an RPC error for "unregistered" (`iaccount.go:99`), and
  `unregister` reports success when the first RPC fails (`account.go:290`).
- `unregister` stops after the first account (`account.go:262`): a provider with
  wallets on both chains stays registered on Neo, against "Unregister this
  storage provider" (`configuration.go:167`).
- `ethaccount.go:122` waits until `GetUserName` returns an error, where it
  should wait for a name; `RegisterUserName` and `UnregisterUserName` of the Neo
  RPC client shadow the error they return.
- User names are unique on Ethereum and not on Neo.
- `MintCGasIfNeeded` "will exit/abort if not enough available" (`mint.go:13`), but
  does not look at what was minted or wait for it: the proposals may be refused
  for a balance that is still too low (`FundedIsAccepted` is about clients that
  did not need to mint).
- An empty whole file is zero MBytes, which the client asks to be confirmed and
  the contract refuses ("MBytes must be positive").

Names, containers and downloads:

- `archonurl.go:81` refuses a URL that shows ten or more shards, which uploads
  print and announce (`Parses`). `downloadHandler` parses the index of a shard in
  8 bits.
- The client puts the URL into the query as it is (`download/dht.go:13`), and the
  SP decodes it twice. A file with `+`, a space, `&` or `%` in its name is
  announced under its name, and the URL that the upload prints for it is looked
  up under another, or refused (`QueryGet`, `Needs`). Nothing else of such names
  goes wrong: the URL that escapes them for the whole way finds them
  (`NamedIsFound`).
- `uploadHandler.go:74` decodes the cloud directory, which `Query().Get` has
  decoded already.
- The signature of a container is not looked at (`filecontainer.go:196`), nor
  that of a shard by its downloader: shards of a container nobody uploaded, whose
  own headers show its hash, are a success. `SuccessMeansSent` says what remains:
  the file is all of one container of which enough intact shards were sent, and
  no mixture.
- `NewShardFromSP` panics when it gets fewer bytes than the header says
  (`shardscontainer.go:200`): a provider that sends a shard cut short ends the
  whole program.
- The handler always takes the user name of the transaction, so `hashUrl` makes
  no difference for accounts that have one, and hash URLs are never announced.
- `containsHandler` (`endpoints.go:154`) looks below folders that no upload uses.
- A whole file is not verified by its downloader: bytes of any version, complete
  or not, are a success (`CopyWhole`; `SuccessMeansSent` is about shards).
- One shard that does not parse ends a download that had enough others
  (`download.go:154`), and one provider per shard is asked (`:142` says so).
- The mxor decoder takes the two lowest shards and does not try another pair.
- A failed decoding leaves the file that was created, and without the overwrite
  flag the next attempt fails on it.
- `GetShardTotalLen` "includes everything" (`shardscontainer.go:97`) and adds 55
  bytes for an archive-optimised header of 62; the redundancy check takes the size
  modulo 2^16, its comment says 2^32 (`filecontainer.go:141`).

## 6. Not modelled

| Part | Why |
|---|---|
| `UnregisterUserName` of the Neo contract | no program calls it |
| `/contains`, `/stats`, `/info`, `/log` | read only; nothing in the repository depends on the answers |
| Bytes of shard headers, Galois-field arithmetic | parsing, and libraries; what a decoder does is stated in `Download` |
| Marshalling in the Neo RPC client | conversions of a node's answers |
| Rotation of the activity log | a library's |
| Ethereum RPC client, DHT | other repositories: choices of the environment |
| Configuration, command line, wallets | input and output |

What would come next: a composition of pipeline, URLs and download (what an
upload reported as successful needs from the verification to be found by a
download).
