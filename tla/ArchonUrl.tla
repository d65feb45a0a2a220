----------------------------- MODULE ArchonUrl -----------------------------
(***************************************************************************)
(* Archon URLs and the names derived from them (common/archonurl.go): the  *)
(* key under which a storage provider announces what it stores, the place  *)
(* on its disk (storageProvider/account.go), and the keys and places that  *)
(* are looked for when the same URL comes back in a request                *)
(* (storageProvider/endpoints.go, download.go).                            *)
(*                                                                         *)
(* User names are members of a small set; a URL that shows the hash has    *)
(* none.  A path is a sequence of pieces, each a run of characters that    *)
(* mean nothing in a URL and are no hexadecimal digits, or one that does   *)
(* mean something there, percent-encoded as many times as its escapes say. *)
(* Of characters that mean the same one stands for all: "&" for ";", "?"   *)
(* for "#", "*" for the others that no file's name may have.  Lengths of   *)
(* paths and the special characters of user names are left out.            *)
(***************************************************************************)
EXTENDS Integers, Sequences, FiniteSetsExt

CONSTANTS
    User,
    Plain,      \* runs of plain characters, and hashes
    NoUser

Special == {"+", " ", "&", "%", "?", "*"}

ASSUME UrlAssumption == NoUser \notin User /\ Plain \cap Special = {}

Piece == [char: Plain \cup Special, escapes: Nat]
Permission == {"eth", "neo"}
AnyUrl ==
    [user: User \cup {NoUser}, perm: Permission, path: Seq(Piece), needed: Nat, total: Nat]

IsHash(a) == a.user = NoUser
IsWholeFile(a) == a.needed = 0

(* The part of the host that shows the encoding: a letter and one digit,   *)
(* or two numbers and a colon.                                             *)
Digits(n) == IF n < 10 THEN 1 ELSE IF n < 100 THEN 2 ELSE 3
TldLen(a) == IF IsWholeFile(a) THEN 2 ELSE 2 + Digits(a.needed) + Digits(a.total)

-----------------------------------------------------------------------------
(* What becomes of a path in a URL, and of a URL in a query: String and    *)
(* GetDownloadUrls print both as they are, and both are decoded.           *)

(* Whether one of the characters C stands in the path as such.             *)
Has(path, C) == \E i \in DOMAIN path : path[i].char \in C /\ path[i].escapes = 0

Before(path, c) ==
    IF Has(path, {c})
    THEN SubSeq(path, 1, Min({i \in DOMAIN path : path[i] = [char |-> c, escapes |-> 0]}) - 1)
    ELSE path

Unescape(path) ==
    [i \in DOMAIN path |-> [path[i] EXCEPT !.escapes = IF @ = 0 THEN 0 ELSE @ - 1]]

(* url.Parse, and IsLegalFilePath on what comes out.                       *)
UrlPath(path) == Unescape(Before(path, "?"))
UrlTakes(path) ==
    /\ ~ Has(Before(path, "?"), {"%"})
    /\ ~ Has(UrlPath(path), {"?", "*"})

(* A server refuses a request with a space in its target, and skips a      *)
(* parameter that it cannot decode.                                        *)
QueryTakes(path) == ~ Has(path, {" "}) /\ ~ Has(Before(path, "&"), {"%"})

(* Bug: the query is used as it came.                                      *)
RawQuery(path) == Before(path, "&")

QueryGet(path) ==
    LET value == Before(path, "&") IN
    [i \in DOMAIN value |->
        IF value[i] = [char |-> "+", escapes |-> 0] THEN [char |-> " ", escapes |-> 0]
        ELSE Unescape(value)[i]]

(* Which URLs NewArchonUrl takes and what it makes of them.                *)
Parses(a) ==
    /\ TldLen(a) <= 4
    /\ ~ IsWholeFile(a) => a.needed <= a.total
    /\ UrlTakes(a.path)
    /\ IsHash(a) => \A i \in DOMAIN a.path : a.path[i].char \in Plain
NewArchonUrl(a) ==
    [a EXCEPT !.total = IF IsWholeFile(a) THEN 1 ELSE @, !.path = UrlPath(@)]

(* The file name of a shard; the index is in it only if there are shards.  *)
ShardPath(a, ix) ==
    LET top == IF IsHash(a) THEN <<>> ELSE <<a.perm, a.user>> IN
    IF IsWholeFile(a) THEN Append(top, a.path) ELSE top \o <<a.path, ix>>

Indices(a) == IF IsWholeFile(a) THEN {0} ELSE 0..(a.total - 1)

-----------------------------------------------------------------------------
(* Uploads                                                                 *)

(* The URL a provider makes of an upload: the user name of the transaction *)
(* and the encoding of the shard header, none for a whole file.            *)
UrlAtSP(a) == IF IsWholeFile(a) THEN [a EXCEPT !.total = 0] ELSE a

DhtId(a, ix) == ShardPath(UrlAtSP(a), ix)

Folder(a) == IF IsHash(a) THEN "hashes" ELSE "shards"

(* The access level of an upload is a folder on the provider's disk.       *)
StoredFilePath(a, acl, ix) == <<Folder(a), acl>> \o ShardPath(UrlAtSP(a), ix)

-----------------------------------------------------------------------------
(* Downloads: the client parses what the user typed, prints it into a      *)
(* query, and the provider parses what it finds there.                     *)

Queried(a) == [a EXCEPT !.path = QueryGet(@)]
Requested(a) == Queried(NewArchonUrl(a))

Reaches(a) == Parses(a) /\ QueryTakes(NewArchonUrl(a).path) /\ Parses(Requested(a))

(* What /retrieve asks the DHT for, and what /download opens.              *)
RetrievedKey(a, ix) == ShardPath(NewArchonUrl(Requested(a)), ix)
ServedPath(a, ix) == <<Folder(a)>> \o ShardPath(NewArchonUrl(Requested(a)), ix)

-----------------------------------------------------------------------------
(* How a name has to be written in a URL to survive all this: each of its  *)
(* special characters escaped three times, or once less if only the query  *)
(* would have changed it.                                                  *)

Needs(c) == CASE c \in Plain            -> 0
              [] c \in {"+", " ", "&"}  -> 2
              [] c = "%"                -> 3
              [] c \in {"?", "*"}       -> 4

Written(path) == \A i \in DOMAIN path : path[i].escapes >= Needs(path[i].char)

(* The name that is written so.                                            *)
Spelled(path) ==
    [i \in DOMAIN path |-> [path[i] EXCEPT !.escapes = IF @ <= 3 THEN 0 ELSE @ - 3]]

=============================================================================
