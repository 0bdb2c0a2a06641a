---------------------------- MODULE MC_FsRegistry ----------------------------
EXTENDS FsRegistry, TLC

Symm == Permutations(Threads) \cup Permutations(Handles)

=============================================================================
