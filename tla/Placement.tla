------------------------------ MODULE Placement -----------------------------
(***************************************************************************)
(* What StorageWrapper promises about the layout of the file, for any      *)
(* number of pieces: no two pieces share a slot, no piece is overwritten   *)
(* before it has been moved, and a file without holes is in order.         *)
(*                                                                         *)
(* PieceStorage has the same steps with the data of the chunks, the write  *)
(* buffer and the resume file; Torrent shows that it implements this       *)
(* specification.                                                          *)
(***************************************************************************)
EXTENDS Places

Nobody == N

VARIABLES places, holes,
          unchecked,      \* slots in the file that the hash check has not read yet
          data            \* the piece whose data a slot has, or Nobody

pvars == <<places, holes, unchecked, data>>

(* The layout in the middle of a session: slots are not shared, the slots   *)
(* of the pieces are those that are neither holes nor unread, a piece that  *)
(* is out of place has its own slot free, and its data is where it should   *)
(* be.                                                                      *)
OneEach(pl)      == \A p, q \in DOMAIN pl : pl[p] = pl[q] => p = q
Filled(pl, s)    == \A i \in Piece : i \in s <=> \E p \in DOMAIN pl : pl[p] = i
HomeIsHole(pl, ho) == \A p \in DOMAIN pl : pl[p] # p => p \in ho
Kept(pl, d)      == \A p \in DOMAIN pl : d[pl[p]] = p

Layout(pl, ho, un, d) ==
    /\ DOMAIN pl \subseteq Piece
    /\ OneEach(pl) /\ Filled(pl, Piece \ (ho \cup un)) /\ HomeIsHole(pl, ho) /\ Kept(pl, d)

(* A session without resume data begins with a file of any length and any   *)
(* content, and reads all of it.                                            *)
Fresh(pl, ho, un, d) ==
    /\ ho \subseteq Piece /\ un = Piece \ ho
    /\ pl = [p \in {} |-> Nobody]
    /\ d \in [Piece -> Piece \cup {Nobody}]

(* hashcheckfunc: a slot with the data of a piece whose own slot is a hole  *)
(* keeps that piece; otherwise it goes to the piece of its number, which    *)
(* has its data there or will write it there.                               *)
Check(i) ==
    /\ i \in unchecked
    /\ unchecked' = unchecked \ {i}
    /\ \/ \E t \in holes \ DOMAIN places :
             data[i] = t /\ places' = Put(places, t, i) /\ data' = data
       \/ places' = Put(places, i, i) /\ data' = [data EXCEPT ![i] = i]
    /\ holes' = holes

(* _move_piece copies what is in one slot to another.                       *)
Copied(d, from, to) == [d EXCEPT ![to] = d[from]]

(* piece_came_in for a piece without a slot.  The code takes the lowest     *)
(* hole; the layout does not depend on it.                                  *)
Place(index, h) ==
    /\ unchecked = {} /\ index \in Piece \ DOMAIN places /\ h \in holes
    /\ LET n  == FreeSlot(places, h)
           d1 == Copied(data, n, h)
           go == GoesTo(holes \ {h}, n, index)
           d2 == IF go THEN d1 ELSE Copied(d1, index, n)
       IN  /\ places' = ClearSpace(places, holes, h, index)
           /\ data' = [d2 EXCEPT ![IF go THEN n ELSE index] = index]
           /\ holes' = holes \ {h}
    /\ unchecked' = unchecked

(* pickle and unpickle: the slots of the pieces that have nothing in the    *)
(* file yet (drop) go to the pieces of their numbers.                       *)
Slots(pl, drop) == {pl[p] : p \in drop}

Resume(drop) ==
    /\ unchecked = {}
    /\ LET s == Slots(places, drop)
       IN  /\ places' = [q \in (DOMAIN places \ drop) \cup s |-> IF q \in s THEN q ELSE places[q]]
           /\ data' = [i \in Piece |-> IF i \in s THEN i ELSE data[i]]
    /\ UNCHANGED <<holes, unchecked>>

Reopen == Fresh(places, holes, unchecked, data)'

PInit == Fresh(places, holes, unchecked, data)
PNext ==
    \/ \E i \in Piece : Check(i) \/ \E h \in Piece : Place(i, h)
    \/ \E drop \in SUBSET DOMAIN places : Resume(drop)
    \/ Reopen
PSpec == PInit /\ [][PNext]_pvars

-----------------------------------------------------------------------------
(* No piece is lost or overwritten, whatever order the pieces arrive in     *)
(* (_clear_space, _move_piece).                                             *)
NothingOverwritten == OneEach(places) /\ Kept(places, data)

(* A file without holes is in order: the file that finishedFunc hands over  *)
(* needs no further move.                                                   *)
InOrderWhenFull ==
    unchecked = {} /\ holes = {} => places = [p \in Piece |-> p] /\ data = [p \in Piece |-> p]

(* A piece that arrives always finds a slot: holes.pop(0) of _clear_space   *)
(* never meets an empty list.                                               *)
RoomForAll == unchecked = {} /\ holes = {} => DOMAIN places = Piece
=============================================================================
