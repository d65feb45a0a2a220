----------------------------- MODULE MCDownload -----------------------------
(* Two encodings of one path, uploaded by turns, a whole file of the same  *)
(* path, and an encoding whose URL has two digits; shards of a file nobody *)
(* uploaded, as long as those of one that was.                             *)
EXTENDS Download, TLC

CONSTANTS p, q, mx, fx, rs

In(char, escapes) == [char |-> char, escapes |-> escapes]
photo == <<In("photo", 0)>>

NamedAs(path, needed, total) ==
    [user |-> "ann", perm |-> "eth", path |-> path, needed |-> needed, total |-> total]
Named(needed, total) == NamedAs(photo, needed, total)
Whole(char, escapes) == NamedAs(photo \o <<In(char, escapes)>> \o photo, 0, 1)

Up(url, ix, sp) == [url |-> url, acl |-> "priv", ix |-> ix, sp |-> sp]

(* Whole files with special characters in their names, and URLs for them.  *)
OddFile == {Up(Whole(c, 0), 0, p) : c \in {"+", " ", "&", "%"}} \cup
           {Up(Whole("+", 1), 0, q), Up(Whole("?", 1), 0, p)}
OddUrl == {Whole("+", e) : e \in {0, 2, 3, 4}} \cup {Whole("&", e) : e \in {0, 2}} \cup
          {Whole("%", 3), Whole(" ", 1), Whole("?", 3), Whole("?", 4)}

MCUrl == {Named(2, 6), Named(1, 3), Named(0, 1), Named(2, 12)} \cup OddUrl
MCUpload ==
    {Up(Named(2, 6), ix, p) : ix \in {1, 3}} \cup {Up(Named(1, 3), ix, q) : ix \in {0, 2}} \cup
    {Up(Named(0, 1), 0, sp) : sp \in {p, q}} \cup OddFile

MCEnc ==
    LET mxor == [code |-> "mxor", needed |-> 2, total |-> 6, hash |-> "f", bytes |-> "f",
                 fct |-> "bo", size |-> 7]
    IN (mx :> mxor) @@ (fx :> [mxor EXCEPT !.hash = "x", !.bytes = "x"]) @@
       (rs :> [code |-> "aors", needed |-> 1, total |-> 3, hash |-> "a", bytes |-> "a",
               fct |-> "ao", size |-> 25])

Sh(header, share) == [header |-> header, share |-> share]
MCBody == {Sh(mx, mx), Sh(fx, fx), Sh(mx, fx), Sh(rs, rs), Sh(rs, Garbage), Garbage}

(* As a lookup may miss any of the holders, all of them may as well have   *)
(* announced when an attempt begins; the odd files apart from the others.  *)
Announcements ==
    /\ uploads' # uploads => attempts = 0
    /\ attempts' # attempts =>
          \/ uploads = MCUpload \ OddFile /\ (attempt'.url # Nothing => attempt'.url \notin OddUrl)
          \/ uploads = OddFile /\ attempts = 0
OddAlone == uploads \subseteq OddFile \/ uploads \subseteq MCUpload \ OddFile

(* Bound: an attempt finds three shards at most, any of the four.          *)
ThreeFound == Cardinality(DOMAIN attempt.urlMap) <= 3
=============================================================================
