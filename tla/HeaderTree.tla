----------------------------- MODULE HeaderTree -----------------------------
(***************************************************************************)
(* What cppForSwig/Blockchain.cpp computes on the tree of block headers:   *)
(* which chain has the most work, which headers are on it, and what a      *)
(* reorganisation looks like.  The modules that keep a Blockchain object   *)
(* extend this one.                                                        *)
(*                                                                         *)
(* Hashes are numbers, because headerMap_ is walked in hash order and ties *)
(* are decided by that order.  prev and diff say what the header with a    *)
(* given hash contains; they never change.                                 *)
(***************************************************************************)
EXTENDS Integers, Sequences, FiniteSets, SequencesExt, TLC

CONSTANTS Hash,      \* the block hashes, natural numbers
          Genesis,   \* genesisHash_
          NoHash     \* BtcUtils::EmptyHash()

VARIABLES prev,      \* getPrevHash() of the header with this hash
          diff       \* its difficultyDbl_

NoHeight == -1       \* UINT32_MAX, the height of a header not yet placed
Unsolved == -1       \* difficultySum_ of a header not yet solved
DBL_MAX == 1000000

-----------------------------------------------------------------------------
(* Headers.  What is kept of a BlockHeader is what organising changes.      *)

Unserialized ==
    [sum |-> Unsolved, height |-> NoHeight, fin |-> FALSE, main |-> FALSE,
     orphan |-> TRUE, next |-> NoHash]

Blank == [Unserialized EXCEPT !.orphan = FALSE]

Cleared ==
    [hdr |-> Genesis :> Blank, top |-> Genesis, byHeight |-> <<>>,
     newly |-> {}]

NoReport ==
    [prevTop |-> NoHash, branch |-> NoHash, stillValid |-> FALSE, newTop |-> FALSE]

AddHeader(b, h) == [b EXCEPT !.hdr = (h :> Unserialized) @@ @]

-----------------------------------------------------------------------------
(* traceChainDown: the unsolved headers from h downwards; if they end on a   *)
(* solved one, they are given their sums and heights, otherwise the last one *)
(* is an orphan.                                                             *)

UnsolvedPath(hdr, h) ==
    LET walk[x \in DOMAIN hdr] ==
            IF hdr[x].sum > 0 THEN {}
            ELSE {x} \cup (IF prev[x] \in DOMAIN hdr THEN walk[prev[x]] ELSE {})
    IN  walk[h]

Solve(hdr, path) ==
    LET sum[x \in DOMAIN hdr] ==
            IF x \in path THEN sum[prev[x]] + diff[x] ELSE hdr[x].sum
        height[x \in DOMAIN hdr] ==
            IF x \in path THEN height[prev[x]] + 1 ELSE hdr[x].height
    IN  [x \in DOMAIN hdr |->
            IF x \in path
            THEN [hdr[x] EXCEPT !.sum = sum[x], !.height = height[x], !.orphan = FALSE]
            ELSE hdr[x]]

Traced(hdr, h, path) ==
    LET loose  == {x \in path : prev[x] \notin DOMAIN hdr}
        result(new, sum) == [hdr |-> new, sum |-> sum]
        ending(new) == result(new, new[h].sum)
    IN  IF loose # {}
        THEN result([x \in DOMAIN hdr |-> [hdr[x] EXCEPT !.orphan = @ \/ x \in loose]], DBL_MAX)
        ELSE ending(Solve(hdr, path))

traceChainDown(hdr, h) == Traced(hdr, h, UnsolvedPath(hdr, h))

-----------------------------------------------------------------------------
(* organizeChain                                                            *)

Reset(hdr) ==
    [x \in DOMAIN hdr |->
        [hdr[x] EXCEPT !.sum = Unsolved, !.height = 0, !.fin = FALSE,
                       !.next = NoHash, !.main = FALSE]]

SetGenesis(hdr) ==
    [hdr EXCEPT ![Genesis] =
        [@ EXCEPT !.height = 0, !.sum = 1, !.main = TRUE, !.orphan = FALSE,
                  !.fin = TRUE]]

Compare(acc, h, t) ==
    IF ~t.hdr[h].orphan /\ t.sum > acc.max
    THEN [hdr |-> t.hdr, max |-> t.sum, top |-> h]
    ELSE [acc EXCEPT !.hdr = t.hdr]

(* One turn of the loop over headerMap_. *)
TryTop(acc, h) == Compare(acc, h, traceChainDown(acc.hdr, h))

FindTop(hdr, top) ==
    FoldLeft(TryTop, [hdr |-> hdr, max |-> hdr[top].sum, top |-> top],
             SetToSortSeq(DOMAIN hdr, <))

(* The headers on the way down from the top that are not yet marked. *)
Unfinished(hdr, top) ==
    LET walk[x \in DOMAIN hdr] ==
            IF hdr[x].fin THEN {} ELSE {x} \cup walk[prev[x]]
    IN  walk[top]

(* headersByHeight_ after the walk met these headers, resized to the top. *)
Heights(b, hdr, met) ==
    LET at(k) == {x \in met : hdr[x].height = k}
        high  == CHOOSE n \in 0 .. Cardinality(Hash) :
                    at(n) # {} /\ \A k \in n + 1 .. Cardinality(Hash) : at(k) = {}
    IN  [k \in 1 .. high + 1 |->
            IF at(k - 1) # {} THEN CHOOSE x \in at(k - 1) : TRUE
            ELSE IF k <= Len(b.byHeight) THEN b.byHeight[k] ELSE NoHash]

(* The way down, marking headers until a finished one: it ends on stop. *)
Marked(b, hdr, top, new) ==
    LET met     == {top} \cup {prev[x] : x \in new}
        stop    == CHOOSE x \in met : x \notin new
        next(x) == IF x = top THEN NoHash ELSE CHOOSE y \in new : prev[y] = x
    IN  [stop |-> stop,
         met  |-> met,
         bc   |-> [b EXCEPT
            !.top = top,
            !.hdr = [x \in DOMAIN hdr |->
                IF x \in new
                THEN [hdr[x] EXCEPT !.fin = TRUE, !.main = TRUE, !.orphan = FALSE,
                                    !.next = next(x)]
                ELSE IF x = stop
                THEN [hdr[x] EXCEPT !.main = TRUE, !.next = next(x)]
                ELSE hdr[x]],
            !.byHeight = Heights(b, hdr, met)]]

MarkMain(b, found) == Marked(b, found.hdr, found.top, Unfinished(found.hdr, found.top))

Pass(b, forceRebuild) ==
    LET prevTop == IF forceRebuild THEN Genesis ELSE b.top
        result(marked) ==
            [bc |-> marked.bc, stop |-> marked.stop, valid |-> prevTop \in marked.met]
        start(hdr) == FindTop(SetGenesis(hdr), prevTop)
    IN  result(MarkMain(b, start(IF forceRebuild THEN Reset(b.hdr) ELSE b.hdr)))

(* Mutant: after a reorganisation the tree is not rebuilt. *)
Rebuilt_Never(p) == [bc |-> p.bc, branch |-> IF p.valid THEN NoHash ELSE p.stop]

(* What follows the first pass: a second one if the top was abandoned. *)
Rebuilt(p) ==
    IF p.valid
    THEN [bc |-> p.bc, branch |-> NoHash]
    ELSE [bc |-> Pass(p.bc, TRUE).bc, branch |-> p.stop]

organizeChain(b, forceRebuild) == Rebuilt(Pass(b, forceRebuild))

Report(b, o) ==
    [bc  |-> o.bc,
     ret |-> [prevTop |-> b.top, branch |-> o.branch,
              stillValid |-> o.branch = NoHash, newTop |-> o.bc.top # b.top]]

Organized(b, forceRebuild) == Report(b, organizeChain(b, forceRebuild))

(* findReorgPointFromBlock: NoHash where getHeaderByHash throws. *)
findReorgPointFromBlock(b, h) ==
    LET down[x \in DOMAIN b.hdr] ==
            IF b.hdr[x].main THEN x
            ELSE IF prev[x] \in DOMAIN b.hdr THEN down[prev[x]] ELSE NoHash
    IN  down[h]

(* Mutant: the walk starts at the previous top also after a reorganisation. *)
NewHeaders_FromTop(b, r) ==
    LET follow[x \in DOMAIN b.hdr] ==
            IF b.hdr[x].next \in DOMAIN b.hdr
            THEN <<b.hdr[x].next>> \o follow[b.hdr[x].next] ELSE <<>>
    IN  follow[r.prevTop]

(* The loop of readBlkFileUpdate that collects the new main-branch headers. *)
NewHeaders(b, r) ==
    LET follow[x \in DOMAIN b.hdr] ==
            IF b.hdr[x].next \in DOMAIN b.hdr
            THEN <<b.hdr[x].next>> \o follow[b.hdr[x].next] ELSE <<>>
    IN  follow[IF r.stillValid THEN r.prevTop ELSE r.branch]

-----------------------------------------------------------------------------
(* What the tree says, whatever has been computed about it.                 *)

AncestorsIn(known, h) ==
    LET up[x \in known] ==
            {x} \cup (IF prev[x] \in known THEN up[prev[x]] ELSE {})
    IN  up[h]

=============================================================================
