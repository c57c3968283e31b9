----------------------------- MODULE MCZeroConf -----------------------------
(* Small instances of ZeroConf: two coins, one of them ours, and shapes in  *)
(* which the transactions are independent, form a chain, or conflict.       *)
EXTENDS ZeroConf

CONSTANTS t1, t2, c1, c2

TwoOf(a, b) == [t \in Tx |-> IF t = t1 THEN a ELSE b]

\* t1 spends our coin with change, t2 pays us from a foreign coin.
IndependentShape == [in |-> TwoOf(c1, c2), mine |-> {c1, t1, t2}]

\* t1 spends our coin to others, t2 spends another of ours.
SpendingShape == [in |-> TwoOf(c1, c2), mine |-> {c1, c2, t2}]

\* t2 spends the change of t1.
ChainShape == [in |-> TwoOf(c1, t1), mine |-> {c1, t1, t2}]

\* t2 spends an output of t1 that is not ours.
ForeignChainShape == [in |-> TwoOf(c1, t1), mine |-> {c1}]

\* t1 and t2 spend the same coin of ours.
ConflictShape == [in |-> TwoOf(c1, c1), mine |-> {c1, t1, t2}]

MCShapes == {IndependentShape, SpendingShape, ChainShape, ForeignChainShape,
             ConflictShape}

=============================================================================
