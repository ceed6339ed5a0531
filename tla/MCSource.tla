------------------------------ MODULE MCSource ------------------------------
(***************************************************************************)
(* Instances of WebsocketBlockSource for TLC. Position 10 b + i is log i of   *)
(* block b.                                                                 *)
(***************************************************************************)
EXTENDS WebsocketBlockSource

MCBlock(p) == p \div 10
MCBlockStart(b) == 10 * b

\* Two logs in one block.
TwoLogs == {20, 21}

\* Two logs in block 2, the first at position (2, 0, 0), one in block 3; a
\* block 4 without logs lets the RPC node pass block 3.
ThreeLogs == {20, 21, 31}

\* A log in the block the pools were fetched at.
StartBlockLogs == {11, 21}

\* The feeds are interchangeable.
FeedSymmetry == Permutations(Feeds)
=============================================================================
