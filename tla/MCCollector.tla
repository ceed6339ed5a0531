---------------------------- MODULE MCCollector ----------------------------
(***************************************************************************)
(* Instances of CollectorHandle for TLC. Log 10 b + i is log i of block b;   *)
(* an even log is of pool "a" and an odd one of pool "b".                   *)
(***************************************************************************)
EXTENDS CollectorHandle

MCBlock(l) == l \div 10
MCPoolOf(l) == IF l % 2 = 0 THEN "a" ELSE "b"

\* Block 3 has a log of either pool; pool a's logs are swaps.
MCIsSwap(l) == MCPoolOf(l) = "a"
MCLogs == {30, 31, 40}

\* Pools of one type, and of two.
OneType(p) == "V2"
TwoTypes(p) == IF p = "a" THEN "V2" ELSE "LB"
=============================================================================
