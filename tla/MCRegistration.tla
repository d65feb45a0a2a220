--------------------------- MODULE MCRegistration ---------------------------
(* One operator with a wallet on each chain, who starts the program twice, *)
(* and another on Neo whose account has the same node ID.                  *)
EXTENDS Registration, TLC

CONSTANTS p1, p2, p3, e, n, m, idE, idN

MCAccounts ==
    [p \in Run |-> CASE p = p1 -> <<e, n>> [] p = p2 -> <<n>> [] p = p3 -> <<m>>]
MCId == (e :> idE) @@ (n :> idN) @@ (m :> idN)
MCAsk == [p \in Run |-> IF p = p2 THEN 2 ELSE 1]
=============================================================================
