----------------------------- MODULE Blockchain -----------------------------
(***************************************************************************)
(* The header tree that the block data manager keeps in memory:            *)
(* cppForSwig/Blockchain.cpp.  Headers arrive in any order, a child may    *)
(* come before its parent, and after every batch organize() has to find    *)
(* the chain with the most work, mark it, and report whether the previous  *)
(* top block was abandoned and from which block on.                        *)
(***************************************************************************)
EXTENDS HeaderTree

CONSTANTS Trees,     \* the header trees considered: functions Hash -> Hash or NoHash
          Diffs      \* the difficulties considered: functions Hash -> Nat

VARIABLES bc,        \* the Blockchain object
          ret,       \* the ReorganizationState last returned
          phase      \* where the block data manager is in its use of bc

vars == <<prev, diff, bc, ret, phase>>

-----------------------------------------------------------------------------
(* The use the block data manager makes of it.  loadDiskState: clear, the   *)
(* headers of the database, forceOrganize, the headers of the block files   *)
(* (some of them known already), forceOrganize.  readBlkFileUpdate: new     *)
(* headers from the point where the files were left, organize.              *)

Init ==
    /\ prev \in Trees
    /\ diff \in Diffs
    /\ bc = Cleared
    /\ ret = NoReport
    /\ phase = "fromDB"

clear ==
    /\ phase = "ready"
    /\ bc' = Cleared
    /\ ret' = NoReport
    /\ phase' = "fromDB"
    /\ UNCHANGED <<prev, diff>>

addBlock(h) ==
    /\ phase = "fromDB"
    /\ bc' = AddHeader(bc, h)
    /\ UNCHANGED <<prev, diff, ret, phase>>

addNewBlock(h) ==
    /\ \/ phase = "fromFiles" /\ phase' = phase
       \/ phase \in {"ready", "updating"} /\ h \notin DOMAIN bc.hdr /\ phase' = "updating"
    /\ bc' = [AddHeader(bc, h) EXCEPT !.newly = @ \cup {h}]
    /\ UNCHANGED <<prev, diff, ret>>

Take(o) == bc' = o.bc /\ ret' = o.ret

forceOrganize ==
    /\ \/ phase = "fromDB" /\ phase' = "fromFiles"
       \/ phase = "fromFiles" /\ phase' = "ready"
    /\ Take(Organized(bc, TRUE))
    /\ UNCHANGED <<prev, diff>>

organize ==
    /\ phase = "updating" /\ phase' = "ready"
    /\ Take(Organized(bc, FALSE))
    /\ UNCHANGED <<prev, diff>>

Next ==
    \/ clear
    \/ \E h \in Hash : addBlock(h)
    \/ \E h \in Hash : addNewBlock(h)
    \/ forceOrganize
    \/ organize

Spec == Init /\ [][Next]_vars

-----------------------------------------------------------------------------
(* What the tree says, whatever has been computed about it.                 *)

Known == DOMAIN bc.hdr

Ancestors(h) == AncestorsIn(Known, h)

Connected == {h \in Known : Genesis \in Ancestors(h)}

(* Genesis counts for one, whatever its header says. *)
Work(h) == 1 + MapThenSumSet(LAMBDA x : diff[x], Ancestors(h) \ {Genesis})

Height(h) == Cardinality(Ancestors(h)) - 1

MostWork == {h \in Connected : \A g \in Connected : Work(g) <= Work(h)}

LastCommon(h, g) ==
    CHOOSE x \in Ancestors(h) \cap Ancestors(g) :
        \A y \in Ancestors(h) \cap Ancestors(g) : Height(y) <= Height(x)

-----------------------------------------------------------------------------
(* Properties                                                               *)

\* Once the chain is organised, and also while further headers wait for the
\* next organize(), the blocks flagged isMainBranch_ are exactly the ancestors
\* of the top, headersByHeight_ lists them in order, and nextHash_ leads from
\* each one to the next: no trace of an abandoned branch is left.
MainBranchIsOneChain ==
    phase \in {"ready", "updating"} =>
        /\ {h \in Known : bc.hdr[h].main} = Ancestors(bc.top)
        /\ Len(bc.byHeight) = Height(bc.top) + 1
        /\ \A h \in Ancestors(bc.top) :
              /\ bc.byHeight[Height(h) + 1] = h
              /\ bc.hdr[h].height = Height(h)
        /\ bc.hdr[bc.top].next = NoHash
        /\ \A h \in Ancestors(bc.top) \ {Genesis} : bc.hdr[prev[h]].next = h

\* organizeChain finds a chain with the most work among all headers that are
\* connected to the genesis block, in whatever order they came; sums are right
\* for every connected header and isOrphan_ is set exactly on the others.
TopHasMostWork ==
    phase = "ready" =>
        /\ bc.top \in MostWork
        /\ \A h \in Connected : bc.hdr[h].sum = Work(h)
        /\ \A h \in Known : bc.hdr[h].orphan <=> h \notin Connected

ReportIsRight(new) ==
    /\ ret.stillValid <=> ret.prevTop \in Ancestors(bc.top)
    /\ ~ret.stillValid => ret.branch = LastCommon(ret.prevTop, bc.top)
    /\ ret.newTop <=> ret.prevTop # bc.top
    /\ ToSet(new) = Ancestors(bc.top) \ Ancestors(ret.prevTop)
    /\ \A i \in 1 .. Len(new) - 1 : prev[new[i + 1]] = new[i]

\* What organize() reports, which decides between extending and undoing: the
\* previous top is still valid exactly if it is on the new main branch; if it
\* is not, the branch point is the last block the two chains share; and the
\* nextHash_ walk of readBlkFileUpdate meets exactly the blocks that are new on
\* the main branch, in order.
ReorgReported == ReportIsRight(NewHeaders(bc, ret))'

\* "If it's the same diffsum as the prev top block, don't do anything": a running
\* node leaves its top block only for strictly more work.
TiesKeepTop == bc'.top = bc.top \/ Work(bc.top)' > Work(bc.top)

\* A step of organize(): when the top is left, and what is reported of it.
ReorgIsRight == [][organize => ReorgReported /\ TiesKeepTop]_vars

\* The reorg point that a restart or a side scan looks up for the last block it
\* scanned is the last block shared with the main branch; only a block that is
\* not connected has none.
ReorgPointIsLastCommon ==
    phase = "ready" =>
        \A h \in Known :
            findReorgPointFromBlock(bc, h) =
                IF h \in Connected THEN LastCommon(h, bc.top) ELSE NoHash

\* "On a full rebuild, prevChainStillValid should ALWAYS be true": organizeChain
\* cannot recurse twice.  And a rebuild depends on the set of headers alone: it
\* yields what a program started afresh on these headers would compute.
RebuildIsCanonical ==
    LET fresh == FoldSet(LAMBDA h, b : AddHeader(b, h), Cleared, Known \ {Genesis})
        agree(rebuilt, first) ==
            /\ rebuilt.valid
            /\ rebuilt.bc.top = first.bc.top
            /\ rebuilt.bc.hdr = first.bc.hdr
            /\ rebuilt.bc.byHeight = first.bc.byHeight
    IN  agree(Pass(bc, TRUE), Pass(fresh, TRUE))

\* What organizeChain leaves behind, whatever came in whatever order: the chain
\* with the most work, its flags and links, a reorg point for every header, and
\* nothing that a rebuild would change.
IsOrganised ==
    MainBranchIsOneChain /\ TopHasMostWork /\ ReorgPointIsLastCommon /\ RebuildIsCanonical

=============================================================================
