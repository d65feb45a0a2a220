--------------------------- MODULE MarketContract ---------------------------
(* The price a client computes meets what the Ethereum contract asks for.  *)
EXTENDS Marketplace, SequencesExt

CONSTANT ShardSize  \* numbers of bytes of a shard

ASSUME ShardSizeAssumption == ShardSize \subseteq Nat \ {0}

(* The contract in a state in which every provider is registered with the  *)
(* price it asks.                                                          *)
Registered(sp) ==
    [params |-> [slaLevel |-> 1, availableStorage |-> 0, bandwidth |-> 0, minAskPrice |-> ask[sp]],
     nodeID |-> sp, stake |-> 0, earnings |-> 0, slash |-> 0, remainingStorage |-> 0,
     inGoodStanding |-> TRUE]

Contract == INSTANCE ArchonContract WITH
    Address <- SP, NodeID <- SP, Username <- {}, Deployer <- None,
    Params <- {}, Scalars <- {}, Amounts <- {}, Months <- {1},
    MaxSPs <- Cardinality(SP), MegaByte <- Mega, RegisterCost <- 0, InitialScalar <- 0,
    Wealth <- 0, MaxUint <- 2 * HalfInt64,
    spAddress2SPProfile <- [sp \in SP |-> Registered(sp)],
    nodeID2Address <- [sp \in SP |-> sp],
    username2UserProfile <- <<>>, address2Username <- <<>>,
    scalars <- <<>>, owner <- None, balance <- 0, wallet <- <<>>

(* EthAccount.ProposeUpload, with ServiceDuration 1: what PriceOfUpload    *)
(* computes is enough for every provider of the list after the contract    *)
(* divided it by their number, if the providers still ask what the cache   *)
(* says and the product fits in an int64.                                  *)
PriceSuffices ==
    \A c \in Client : pc[c] = "done" =>
        LET list == SetToSeq(sps[c])
        IN  \A size \in ShardSize :
                Highest(sps[c]) * MegaBytes(size) * Len(list) < HalfInt64 =>
                    Contract!MeetsMaxMinAskPrice(
                        Contract!Share(PriceOfUpload(sps[c], size), list), size, 1, list)
=============================================================================
