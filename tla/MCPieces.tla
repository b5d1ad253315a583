------------------------------ MODULE MCPieces ------------------------------
(***************************************************************************)
(* Small instances of Pieces for TLC.                                      *)
(***************************************************************************)
EXTENDS Pieces, TLC

CONSTANTS b1, b2

OneBuilder  == {b1}
TwoBuilders == {b1, b2}

AllRequired  == {"vmlinuz", "busybox", "manifest"}
TwoRequired  == {"vmlinuz", "manifest"}

OneRun   == 1..1
TwoRuns  == 1..2

AllNone  == [v \in Versions |-> "none"]
AllWifi  == [v \in Versions |-> "wifi"]
WifiThenNone == [v \in Versions |-> IF v = 1 THEN "eth+wifi" ELSE "none"]
NoneThenEth  == [v \in Versions |-> IF v = 1 THEN "none" ELSE "eth"]

BuilderSymmetry == Permutations(Builders)
=============================================================================
