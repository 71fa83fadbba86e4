----------------------------- MODULE MCStatusFeed -----------------------------
EXTENDS StatusFeed, TLC

MCTyped == [l1 |-> "status"]

\* the goroutines that change the status do so alike
MCSymmetry == Permutations(Goroutines \ {Loop})
=============================================================================
