------------------------------ MODULE MCTurns ------------------------------
EXTENDS Turns, TLC

\* Incarnations are interchangeable.
Sym == Permutations(Procs)
=============================================================================
