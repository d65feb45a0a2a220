--------------------------- MODULE MCMarketplace ---------------------------
(* Small instances of Marketplace for TLC.                                 *)
EXTENDS MarketContract

(* The selection only compares rounded prices, and providers are           *)
(* interchangeable: these are the ways in which three of them can differ,  *)
(* with a tie below, a tie above, no tie and nothing but ties.             *)
TiePatterns ==
    <<ask[1], ask[2], ask[3]>> \in {<<1, 2, 3>>, <<1, 3, 4>>, <<1, 3, 5>>, <<1, 2, 2>>}
=============================================================================
