---------------------------- MODULE MCNeoUpload ----------------------------
(* Two providers; a user who starts a sharded and a whole-file upload.     *)
EXTENDS NeoUpload

CONSTANTS r1, r2, u, s1, s2, n1, n2

MCOf == [r \in Run |-> u]
MCSpread == [r \in Run |-> IF r = r1 THEN 2 ELSE 1]
MCTyped == [r \in Run |-> IF r = r1 THEN "ann" ELSE "bob"]
MCFirstAsk == [p \in Provider |-> IF p = s1 THEN 1 ELSE None]
MCId == [p \in Provider |-> IF p = s1 THEN n1 ELSE n2]
=============================================================================
