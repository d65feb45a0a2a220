-------------------------- MODULE MCArchonContract --------------------------
(* Small instances of ArchonContract for TLC.                              *)
EXTENDS ArchonContract, TLC

Small == [slaLevel |-> 1, availableStorage |-> 1, bandwidth |-> 1, minAskPrice |-> 0]
Dear == [slaLevel |-> 0, availableStorage |-> 3, bandwidth |-> 0, minAskPrice |-> 1]
MCParams == {Small, Dear}

NameSymmetry == Permutations(NodeID) \cup Permutations(Username)

(* Who the owner is decides only who may slash and change a scalar, not    *)
(* what that does: it is enough to explore other owners than the deployer  *)
(* in states in which no provider is registered.                           *)
OwnersApart ==
    owner = Deployer \/ \A a \in Address : spAddress2SPProfile[a] = NoProfile
=============================================================================
