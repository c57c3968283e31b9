---------------------------- MODULE MCWalletFile ----------------------------
\* Two threads; Symmetry is sound because threads are interchangeable.
EXTENDS WalletFile, TLC

CONSTANTS t1, t2

MCProc == {t1, t2}
Symmetry == Permutations(MCProc)
=============================================================================
