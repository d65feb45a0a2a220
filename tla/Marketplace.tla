---------------------------- MODULE Marketplace ----------------------------
(***************************************************************************)
(* How an uploader chooses its storage providers (GetUploadSps and         *)
(* currentSPs of upload/storageProviders.go, common/spprofile.go).         *)
(*                                                                         *)
(* All client processes of a host share one cache file per permission      *)
(* layer.  A process holds an advisory lock on it while it reads it, and   *)
(* while it asks the seeds for the known providers and writes the file     *)
(* anew, which is two steps: truncating the file and filling it.  The      *)
(* operating system releases the lock of a process that dies; the file     *)
(* stays as it is.                                                         *)
(***************************************************************************)
EXTENDS Integers, Sequences, FiniteSets, FiniteSetsExt, Functions

CONSTANTS
    Client,       \* client processes of one host and one permission layer
    SP,           \* storage providers, by address
    Price,        \* the prices they may ask, per megabyte
    Wanted,       \* numbers of providers an upload may need
    NumSeeds,     \* length of GetAllSeedUrls, 6 in the code
    Granularity,  \* acc.HundredthOfCent()
    Mega,         \* 1000000 in the code
    HalfInt64,    \* 2^63 in the code
    MaxFailures,  \* bound: crashes and failed writes
    None

ASSUME NoneAssumption == None \notin Client
ASSUME NumberAssumption ==
    /\ IsFiniteSet(SP)
    /\ Price \subseteq Nat
    /\ Wanted \subseteq Nat \ {0}
    /\ NumSeeds \in Nat \ {0}
    /\ Granularity \in Nat \ {0}
    /\ Mega \in Nat \ {0}
    /\ HalfInt64 \in Nat \ {0}
    /\ MaxFailures \in Nat

VARIABLES
    ask,       \* MinAskPrice of each provider
    file,      \* the cache file: "none", "partial" or "list"
    cached,    \* providers in a "list"
    old,       \* whether the file was written more than two hours ago
    lock,      \* the process that holds the lock
    seed,      \* refreshCache of that process: the next seed to ask,
    m,         \*    the providers it knows so far,
    again,     \*    and whether this is the second refresh of the call
    pc,
    needed,    \* number of providers each process wanted
    sps,       \* the list each process got
    failures

cache == <<file, cached, old>>
refresh == <<seed, m, again>>
call == <<needed, sps>>
vars == <<ask, cache, lock, refresh, pc, call, failures>>

Locked == {"stat", "ask", "truncate", "write", "read"}
Outcomes == {"done", "refused", "error"}

Init ==
    /\ ask \in [SP -> Price]
    /\ file = "none"
    /\ cached = {}
    /\ old = FALSE
    /\ lock = None
    /\ seed = 1
    /\ m = {}
    /\ again = FALSE
    /\ pc = [c \in Client |-> "idle"]
    /\ needed = [c \in Client |-> 0]
    /\ sps = [c \in Client |-> {}]
    /\ failures = 0

Goto(c, from, to) == pc[c] = from /\ pc' = [pc EXCEPT ![c] = to]

(* currentSPs returns: the deferred Unlock.                                *)
Unlock ==
    /\ lock' = None
    /\ seed' = 1
    /\ m' = {}
    /\ again' = FALSE

-----------------------------------------------------------------------------
(* currentSPs and refreshCache                                             *)

Start(c) ==
    /\ Goto(c, "idle", "lock")
    /\ UNCHANGED <<ask, cache, lock, refresh, call, failures>>

(* Bug: the result of TryLock is not looked at.                            *)
TryLockIgnored(c) ==
    /\ Goto(c, "lock", "stat")
    /\ lock' = c
    /\ UNCHANGED <<ask, cache, refresh, call, failures>>

TryLock(c) ==
    /\ Goto(c, "lock", "stat")
    /\ lock = None
    /\ lock' = c
    /\ UNCHANGED <<ask, cache, refresh, call, failures>>

(* Thirty seconds without the lock: no providers and no error, which Upload*)
(* reports as "could not find any storage providers".                      *)
LockTimeout(c) ==
    /\ Goto(c, "lock", "refused")
    /\ lock # None
    /\ UNCHANGED <<ask, cache, lock, refresh, call, failures>>

(* Bug: a file that exists is used whatever its age.                       *)
StatExists(c) ==
    /\ Goto(c, "stat", IF file = "none" THEN "ask" ELSE "read")
    /\ UNCHANGED <<ask, cache, lock, refresh, call, failures>>

(* The file is missing or more than two hours old.                         *)
Stat(c) ==
    /\ Goto(c, "stat", IF file = "none" \/ old THEN "ask" ELSE "read")
    /\ UNCHANGED <<ask, cache, lock, refresh, call, failures>>

(* Bug: the loop runs once too often.                                      *)
AskSeedOnceMore(c) ==
    \E answer \in SUBSET SP :
        /\ Goto(c, "ask",
                IF seed > NumSeeds \/ (m # {} /\ answer \subseteq m) THEN "truncate" ELSE "ask")
        /\ m' = m \cup answer
        /\ seed' = seed + 1
        /\ UNCHANGED <<ask, cache, lock, again, call, failures>>

(* A seed names any providers, or fails to answer in five seconds, which   *)
(* adds as little as an answer without any.  A seed that adds nothing to   *)
(* what others have named is the last one asked.                           *)
AskSeed(c) ==
    \E answer \in SUBSET SP :
        /\ Goto(c, "ask",
                IF seed = NumSeeds \/ (m # {} /\ answer \subseteq m) THEN "truncate" ELSE "ask")
        /\ m' = m \cup answer
        /\ seed' = seed + 1
        /\ UNCHANGED <<ask, cache, lock, again, call, failures>>

(* SaveConfiguration: ioutil.WriteFile opens the file with O_TRUNC ...     *)
Truncate(c) ==
    /\ Goto(c, "truncate", "write")
    /\ file' = "partial"
    /\ cached' = {}
    /\ old' = FALSE
    /\ UNCHANGED <<ask, lock, refresh, call, failures>>

(* ... and writes the list.                                                *)
Write(c) ==
    /\ Goto(c, "write", "read")
    /\ file' = "list"
    /\ cached' = m
    /\ old' = FALSE
    /\ UNCHANGED <<ask, lock, refresh, call, failures>>

(* The file cannot be opened or written.                                   *)
WriteFails(c) ==
    /\ failures < MaxFailures
    /\ \E from \in {"truncate", "write"} : Goto(c, from, "error")
    /\ failures' = failures + 1
    /\ Unlock
    /\ UNCHANGED <<ask, cache, call>>

(* Bug: a cache without providers is not refreshed.                        *)
ReadOnce(c) ==
    \/ /\ file = "list"
       /\ Goto(c, "read", IF cached = {} THEN "refused" ELSE "select")
       /\ sps' = [sps EXCEPT ![c] = cached]
       /\ Unlock
       /\ UNCHANGED <<ask, cache, needed, failures>>
    \/ /\ file = "partial"
       /\ Goto(c, "read", "error")
       /\ Unlock
       /\ UNCHANGED <<ask, cache, call, failures>>

(* GetConfiguration: a list with providers ends currentSPs; one without is *)
(* refreshed once more in the same call; a partial one is an error.        *)
Read(c) ==
    \/ /\ file = "list"
       /\ cached # {}
       /\ Goto(c, "read", "select")
       /\ sps' = [sps EXCEPT ![c] = cached]
       /\ Unlock
       /\ UNCHANGED <<ask, cache, needed, failures>>
    \/ /\ file = "list"
       /\ cached = {}
       /\ ~again
       /\ Goto(c, "read", "ask")
       /\ again' = TRUE
       /\ seed' = 1
       /\ m' = {}
       /\ UNCHANGED <<ask, cache, lock, call, failures>>
    \/ /\ file = "list"
       /\ cached = {}
       /\ again
       /\ Goto(c, "read", "refused")
       /\ Unlock
       /\ UNCHANGED <<ask, cache, call, failures>>
    \/ /\ file = "partial"
       /\ Goto(c, "read", "error")
       /\ Unlock
       /\ UNCHANGED <<ask, cache, call, failures>>

-----------------------------------------------------------------------------
(* GetUploadSps                                                            *)

RoundUp(numToRound, multiple) == ((numToRound + multiple - 1) \div multiple) * multiple

Rounded(sp) == RoundUp(ask[sp], Granularity)

(* SortByMinAsk: sort.Slice is not stable and the order of the cached list *)
(* is that of a map, so any order that ascends.                            *)
Sorted(list) ==
    {s \in [1 .. Cardinality(list) -> list] :
        /\ IsInjective(s)
        /\ \A i, j \in DOMAIN s : i < j => Rounded(s[i]) <= Rounded(s[j])}

(* Bug: the loop does not stop at a higher price.                          *)
KeptAll(s, n) == {s[i] : i \in DOMAIN s}

(* KeepOnly(last): the providers before the place where the loop stops.    *)
(* It starts at needed-1 and stops at the first provider above the price   *)
(* `high`, or at the last of the list.  Indices are one less in the code.  *)
Kept(s, n) ==
    LET high == Rounded(s[n])
        Stops(last) == last = Len(s) \/ ask[s[last]] > high
    IN  {s[i] : i \in {k \in DOMAIN s : \A last \in n .. k : ~Stops(last)}}

(* PickRandom(needed) of what is kept.                                     *)
Picks(list, n) ==
    IF Cardinality(list) <= n
    THEN {list}
    ELSE {chosen \in SUBSET list :
            Cardinality(chosen) = n /\ \E s \in Sorted(list) : chosen \subseteq Kept(s, n)}

(* `needed` is an argument of the call, chosen here where it is first used.*)
Select(c) ==
    /\ Goto(c, "select", "done")
    /\ \E n \in Wanted :
         /\ needed' = [needed EXCEPT ![c] = n]
         /\ \E chosen \in Picks(sps[c], n) : sps' = [sps EXCEPT ![c] = chosen]
    /\ UNCHANGED <<ask, cache, lock, refresh, failures>>

(* The process is done with its upload.                                    *)
Exit(c) ==
    /\ \E from \in Outcomes : Goto(c, from, "idle")
    /\ needed' = [needed EXCEPT ![c] = 0]
    /\ sps' = [sps EXCEPT ![c] = {}]
    /\ UNCHANGED <<ask, cache, lock, refresh, failures>>

ClientStep(c) ==
    \/ Start(c)
    \/ TryLock(c)
    \/ LockTimeout(c)
    \/ Stat(c)
    \/ AskSeed(c)
    \/ Truncate(c)
    \/ Write(c)
    \/ Read(c)
    \/ Select(c)
    \/ Exit(c)

-----------------------------------------------------------------------------
(* The environment                                                         *)

Crash(c) ==
    /\ pc[c] \in Locked
    /\ failures < MaxFailures
    /\ failures' = failures + 1
    /\ pc' = [pc EXCEPT ![c] = "idle"]
    /\ Unlock
    /\ UNCHANGED <<ask, cache, call>>

Age ==
    /\ file # "none"
    /\ ~old
    /\ old' = TRUE
    /\ UNCHANGED <<ask, file, cached, lock, refresh, pc, call, failures>>

Next ==
    \/ \E c \in Client : ClientStep(c) \/ WriteFails(c) \/ Crash(c)
    \/ Age

Spec == Init /\ [][Next]_vars

(* A process that can run does, time passes, and uploads are requested     *)
(* again and again.                                                        *)
Fairness == WF_vars(Age) /\ \A c \in Client : WF_vars(ClientStep(c))

FairSpec == Spec /\ Fairness

-----------------------------------------------------------------------------
(* What the chosen providers are paid                                      *)

(* Bug: the size is rounded down.                                          *)
MegaBytesDown(numBytes) == numBytes \div Mega

MegaBytes(numBytes) == (numBytes + Mega - 1) \div Mega

Int64(x) == ((x + HalfInt64) % (2 * HalfInt64)) - HalfInt64

Highest(list) == Max({0} \cup {ask[sp] : sp \in list})

PriceOfUpload(list, numBytes) ==
    Int64(Highest(list) * MegaBytes(numBytes) * Cardinality(list))

-----------------------------------------------------------------------------
(* Safety                                                                  *)

TypeOK ==
    /\ ask \in [SP -> Price]
    /\ file \in {"none", "partial", "list"}
    /\ cached \subseteq SP
    /\ old \in BOOLEAN
    /\ lock \in Client \cup {None}
    /\ seed \in 1 .. NumSeeds + 1
    /\ m \subseteq SP
    /\ again \in BOOLEAN
    /\ pc \in [Client -> {"idle", "lock", "select"} \cup Locked \cup Outcomes]
    /\ needed \in [Client -> Wanted \cup {0}]
    /\ sps \in [Client -> SUBSET SP]
    /\ failures \in 0 .. MaxFailures

(* No process finds the file half-written by another one: a partial file   *)
(* is being written under the lock, or what a failure left behind.         *)
PartialOnlyByFailure ==
    file = "partial" =>
        \/ failures > 0
        \/ \E c \in Client : lock = c /\ pc[c] = "write"

(* currentSPs gives up for want of providers only after all the seeds were *)
(* asked in this very call, whatever an earlier call or another process    *)
(* left in the cache.                                                      *)
RefusedOnlyAfterAsking ==
    [][\A c \in Client : pc[c] = "read" /\ pc'[c] = "refused" =>
            again /\ seed = NumSeeds + 1 /\ m = {}]_vars

(* GetUploadSps returns as many providers as needed if so many are known,  *)
(* and none that is more expensive, up to rounding, than the dearest of    *)
(* the cheapest ones that would do.                                        *)
CheapestChosen ==
    [][\A c \in Client : pc[c] = "select" /\ pc'[c] = "done" =>
            /\ Cardinality(sps'[c]) = Min({needed'[c], Cardinality(sps[c])})
            /\ sps'[c] \subseteq sps[c]
            /\ \A sp \in sps'[c] :
                 Cardinality({other \in sps[c] : Rounded(other) < Rounded(sp)}) < needed'[c]]_vars

-----------------------------------------------------------------------------
(* Liveness                                                                *)

(* A file that a crash has left half-written is replaced, once it is old.  *)
CacheRecovers == file = "partial" ~> file = "list"
=============================================================================
