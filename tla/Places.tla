------------------------------- MODULE Places -------------------------------
(***************************************************************************)
(* Where StorageWrapper (BitTornado/BT1/StorageWrapper.py) keeps the       *)
(* pieces of a torrent in the file.  The file has one slot per piece, and  *)
(* it grows slot by slot: a piece that arrives before its own slot exists  *)
(* is kept in the lowest free one and moved later.                         *)
(*                                                                         *)
(* places maps the pieces that are in the file to their slots (a hash      *)
(* check also gives a slot without useful data to the piece of the same    *)
(* number), holes is the set of slots that are not yet in the file.        *)
(* Armory has one file and disables no part of it (torrentDL.py sets no    *)
(* priority), so that no piece is ever blocked.                            *)
(***************************************************************************)
EXTENDS Naturals

CONSTANT N                \* the number of pieces
ASSUME NAssumption == N \in Nat

Piece == 0 .. N - 1

Put(places, piece, slot) ==
    [q \in DOMAIN places \cup {piece} |-> IF q = piece THEN slot ELSE places[q]]

Lowest(holes) == CHOOSE h \in holes : \A k \in holes : h <= k

(* _clear_space(index), its first part: if the piece of the lowest hole h   *)
(* is in the file, it moves home, and the slot it leaves is the free one.   *)
Homed(places, h)    == IF h \in DOMAIN places THEN Put(places, h, h) ELSE places
FreeSlot(places, h) == IF h \in DOMAIN places THEN places[h] ELSE h

(* Its second part, with the free slot n: index goes there if n is its own  *)
(* slot or its own slot is a hole; otherwise the piece in the slot of index *)
(* goes there and index takes its own slot.                                 *)
GoesTo(holes, n, index) == index = n \/ index \in holes
Tenant(places, index)   == CHOOSE p \in DOMAIN places : places[p] = index

Settle(places, holes, n, index) ==
    IF GoesTo(holes, n, index) THEN Put(places, index, n)
    ELSE Put(Put(places, Tenant(places, index), n), index, index)

ClearSpace(places, holes, h, index) ==
    Settle(Homed(places, h), holes \ {h}, FreeSlot(places, h), index)
=============================================================================
