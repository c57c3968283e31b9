---------------------------- MODULE MCBlockchain ----------------------------
(* All header trees over a few hashes, for TLC.  The genesis block is in    *)
(* the middle of the hash order.                                            *)
EXTENDS Blockchain

MCGenesis == 2
MCNoHash == 0
MCHash4 == 1 .. 4

(* The acyclic functions: from every hash the parents end in MCNoHash. *)
Forests(S) ==
    LET ends(p) ==
            LET up[n \in 0 .. Cardinality(S), x \in S \cup {MCNoHash}] ==
                    x = MCNoHash \/ (n > 0 /\ up[n - 1, p[x]])
            IN  \A x \in S : up[Cardinality(S), x]
    IN  {p \in [S -> S \cup {MCNoHash}] : p[MCGenesis] = MCNoHash /\ ends(p)}

(* Four hashes, any parents, also ones that never arrive, any work 1 or 2. *)
MCForests == Forests(MCHash4)
MCDiffs == {d \in [MCHash4 -> 1 .. 2] : d[MCGenesis] = 1}
=============================================================================
