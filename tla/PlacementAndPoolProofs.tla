----------------------- MODULE PlacementAndPoolProofs -----------------------
(***************************************************************************)
(* Two proofs that need few steps each: the layout of the torrent's file,  *)
(* and the hand-over of unconfirmed transactions to the main thread.  The  *)
(* two components share neither a name nor a variable.                     *)
(*                                                                         *)
(* The layout, for any number of pieces.  The inductive invariant is       *)
(* Layout: that slots are not shared is not inductive alone, because a     *)
(* piece may be moved to the slot that another one left; what makes it     *)
(* work is that a piece out of place has its own slot free (HomeIsHole),   *)
(* so that the move home never meets a tenant.                             *)
(*                                                                         *)
(* The pool: no transaction that a thread leaves for the main thread is    *)
(* forgotten (NoneForgotten), for any transactions, shapes, number of      *)
(* threads and any bounds.  Neither addNewZeroConfTx nor parseNewZC holds  *)
(* the lock from its first step to its last: a transaction may be inserted *)
(* while the ones copied before are parsed, and the map is cleared after   *)
(* comparing two SIZES.  That is sound because of what the invariant says: *)
(* what was copied is still in the map (only the main thread removes), so  *)
(* equal sizes mean equal maps; and whoever inserts raises the flag        *)
(* afterwards, so that the flag, taken down before the copy, is up again   *)
(* for what came later.                                                    *)
(***************************************************************************)
EXTENDS Placement, ZeroConf, FiniteSetTheorems, TLAPS

PTypeOK ==
    /\ holes \subseteq Piece /\ unchecked \subseteq Piece
    /\ places \in [DOMAIN places -> Piece]
    /\ data \in [Piece -> Piece \cup {Nobody}]
    /\ holes \cap unchecked = {}

IInv == PTypeOK /\ Layout(places, holes, unchecked, data)

(* A session without resume data begins with a layout in order: nothing is  *)
(* placed and everything in the file is still to be read.                   *)
LEMMA BeginsInOrder ==
    ASSUME NEW pl, NEW ho, NEW un, NEW d, Fresh(pl, ho, un, d)
    PROVE  /\ Layout(pl, ho, un, d)
           /\ ho \subseteq Piece /\ un \subseteq Piece /\ ho \cap un = {}
           /\ pl \in [DOMAIN pl -> Piece] /\ d \in [Piece -> Piece \cup {Nobody}]
<1>1. DOMAIN pl = {}
  BY DEF Fresh
<1>2. QED BY <1>1 DEF Fresh, Layout, OneEach, Filled, HomeIsHole, Kept

(* hashcheckfunc keeps the layout: the slot it reads goes to one piece, and *)
(* to another than its own only if that piece has a hole at home.           *)
LEMMA CheckKeepsLayout ==
    ASSUME IInv, NEW i \in Piece, Check(i)
    PROVE  IInv'
<1> USE DEF IInv, PTypeOK, Layout
<1>1. CASE \E t \in holes \ DOMAIN places :
               data[i] = t /\ places' = Put(places, t, i) /\ data' = data
  <2>1. PICK t \in holes \ DOMAIN places :
               data[i] = t /\ places' = Put(places, t, i) /\ data' = data
    BY <1>1
  <2>2. /\ DOMAIN places' = DOMAIN places \cup {t}
        /\ places'[t] = i /\ \A p \in DOMAIN places : places'[p] = places[p]
        /\ places' \in [DOMAIN places' -> Piece]
    BY <2>1 DEF Put
  <2>3. OneEach(places')
    BY <2>1, <2>2 DEF Check, OneEach, Filled
  <2>4. Filled(places', Piece \ (holes' \cup unchecked'))
    BY <2>1, <2>2 DEF Check, Filled
  <2>5. HomeIsHole(places', holes') /\ Kept(places', data')
    BY <2>1, <2>2 DEF Check, HomeIsHole, Kept
  <2>6. QED BY <2>1, <2>2, <2>3, <2>4, <2>5 DEF Check
<1>2. CASE places' = Put(places, i, i) /\ data' = [data EXCEPT ![i] = i]
  <2>1. i \notin DOMAIN places
    BY DEF Check, HomeIsHole, Filled
  <2>2. /\ DOMAIN places' = DOMAIN places \cup {i}
        /\ places'[i] = i /\ \A p \in DOMAIN places : places'[p] = places[p]
        /\ places' \in [DOMAIN places' -> Piece]
    BY <1>2, <2>1 DEF Put
  <2>3. \A p \in DOMAIN places : places[p] # i
    BY DEF Check, Filled
  <2>4. OneEach(places')
    BY <2>2, <2>3 DEF OneEach
  <2>5. Filled(places', Piece \ (holes' \cup unchecked'))
    BY <2>2, <2>3 DEF Check, Filled
  <2>6. HomeIsHole(places', holes')
    BY <2>2 DEF Check, HomeIsHole
  <2>7. Kept(places', data')
    BY <1>2, <2>2, <2>3 DEF Kept
  <2>8. QED BY <1>2, <2>1, <2>2, <2>4, <2>5, <2>6, <2>7 DEF Check
<1>3. QED BY <1>1, <1>2 DEF Check

(* The piece of the hole that is taken moves home: the slot it leaves (or    *)
(* the hole itself) is then free, and nothing else has moved.               *)
LEMMA MoveHome ==
    ASSUME IInv, unchecked = {}, NEW h \in holes
    PROVE  LET n  == FreeSlot(places, h)
               pl == Homed(places, h)
           IN
           /\ n \in Piece /\ n \notin holes \ {h}
           /\ DOMAIN pl = DOMAIN places /\ pl \in [DOMAIN pl -> Piece]
           /\ \A p \in DOMAIN pl : pl[p] # n
           /\ \A p \in DOMAIN places : p # h => pl[p] = places[p] /\ places[p] # h
           /\ h \in DOMAIN pl => pl[h] = h
           /\ OneEach(pl) /\ HomeIsHole(pl, holes \ {h})
           /\ Filled(pl, Piece \ ((holes \ {h}) \cup {n}))
           /\ Kept(pl, Copied(data, n, h))
<1> DEFINE n == FreeSlot(places, h)
           pl == Homed(places, h)
<1> USE DEF IInv, PTypeOK, Layout
<1>0. n = FreeSlot(places, h) /\ pl = Homed(places, h)
  OBVIOUS
<1> HIDE DEF n, pl
<1>1. \A p \in DOMAIN places : places[p] \notin holes /\ places[p] \in Piece
  BY DEF Filled
<1>2. CASE h \in DOMAIN places
  <2>1. n = places[h] /\ pl = Put(places, h, h)
    BY <1>0, <1>2 DEF FreeSlot, Homed
  <2>2. /\ DOMAIN pl = DOMAIN places
        /\ pl[h] = h /\ \A p \in DOMAIN places : p # h => pl[p] = places[p]
        /\ pl \in [DOMAIN pl -> Piece]
    BY <1>2, <2>1 DEF Put
  <2>3. n # h /\ n \in Piece /\ n \notin holes
    BY <1>1, <1>2, <2>1
  <2>4. \A p \in DOMAIN pl : pl[p] # n
    BY <1>2, <2>1, <2>2, <2>3 DEF OneEach
  <2>5. OneEach(pl) /\ HomeIsHole(pl, holes \ {h})
    BY <1>1, <2>2 DEF OneEach, HomeIsHole
  <2>6. Filled(pl, Piece \ ((holes \ {h}) \cup {n}))
    BY <1>1, <1>2, <2>1, <2>2, <2>3, <2>4 DEF Filled
  <2>7. Kept(pl, Copied(data, n, h))
    BY <1>1, <1>2, <2>1, <2>2, <2>3 DEF Kept, Copied
  <2>8. QED BY <1>1, <2>2, <2>3, <2>4, <2>5, <2>6, <2>7 DEF n, pl
<1>3. CASE h \notin DOMAIN places
  <2>1. n = h /\ pl = places
    BY <1>0, <1>3 DEF FreeSlot, Homed
  <2>2. HomeIsHole(pl, holes \ {h})
    BY <1>3, <2>1 DEF HomeIsHole
  <2>3. Filled(pl, Piece \ ((holes \ {h}) \cup {n}))
    BY <2>1 DEF Filled
  <2>4. Kept(pl, Copied(data, n, h))
    BY <1>1, <2>1 DEF Kept, Copied
  <2>5. QED BY <1>1, <1>3, <2>1, <2>2, <2>3, <2>4 DEF n, pl
<1>4. QED BY <1>2, <1>3 DEF n, pl

(* Then the new piece takes the free slot, or its own one after the piece   *)
(* that is there has gone to the free slot.                                 *)
LEMMA PlaceKeepsLayout ==
    ASSUME IInv, NEW index \in Piece, NEW h \in Piece, Place(index, h)
    PROVE  IInv'
<1> DEFINE n  == FreeSlot(places, h)
           pl == Homed(places, h)
           ho == holes \ {h}
           d1 == Copied(data, n, h)
           go == GoesTo(ho, n, index)
           d2 == IF go THEN d1 ELSE Copied(d1, index, n)
<1>1. /\ unchecked = {} /\ index \notin DOMAIN places /\ h \in holes
      /\ places' = Settle(pl, ho, n, index)
      /\ data' = [d2 EXCEPT ![IF go THEN n ELSE index] = index]
      /\ holes' = ho /\ unchecked' = {}
  BY DEF Place, ClearSpace
<1>2. /\ n \in Piece /\ n \notin ho
      /\ DOMAIN pl = DOMAIN places /\ pl \in [DOMAIN pl -> Piece]
      /\ \A p \in DOMAIN pl : pl[p] # n
      /\ OneEach(pl) /\ HomeIsHole(pl, ho) /\ Filled(pl, Piece \ (ho \cup {n}))
      /\ Kept(pl, d1)
  BY <1>1, MoveHome, Zenon
<1>3. d1 \in [Piece -> Piece \cup {Nobody}] /\ DOMAIN pl \subseteq Piece /\ ho \subseteq Piece
  BY <1>1, <1>2 DEF Copied, IInv, PTypeOK, Layout
<1>4. \A p \in DOMAIN pl : pl[p] \notin ho
  BY <1>2 DEF Filled
<1> HIDE DEF n, pl, ho, d1
<1>5. CASE go
  <2>1. /\ places' = Put(pl, index, n) /\ data' = [d1 EXCEPT ![n] = index]
        /\ index = n \/ index \in ho
    BY <1>1, <1>5 DEF Settle, GoesTo
  <2>2. /\ DOMAIN places' = DOMAIN pl \cup {index} /\ places'[index] = n
        /\ \A p \in DOMAIN pl : places'[p] = pl[p]
        /\ places' \in [DOMAIN places' -> Piece]
    BY <1>1, <1>2, <2>1 DEF Put
  <2>3. OneEach(places') /\ HomeIsHole(places', holes')
    BY <1>1, <1>2, <2>1, <2>2 DEF OneEach, HomeIsHole
  <2>4. Filled(places', Piece \ (holes' \cup unchecked'))
    BY <1>1, <1>2, <2>2 DEF Filled
  <2>5. Kept(places', data')
    BY <1>2, <1>3, <2>1, <2>2 DEF Kept
  <2>6. data' \in [Piece -> Piece \cup {Nobody}]
    BY <1>2, <1>3, <2>1
  <2>7. QED BY <1>1, <1>3, <2>1, <2>2, <2>3, <2>4, <2>5, <2>6 DEF IInv, PTypeOK, Layout
<1>6. CASE ~go
  <2> DEFINE t == Tenant(pl, index)
  <2>1. index # n /\ index \notin ho
    BY <1>6 DEF GoesTo
  <2>2. \E p \in DOMAIN pl : pl[p] = index
    BY <1>2, <2>1 DEF Filled
  <2>3. t \in DOMAIN pl /\ pl[t] = index
    BY <2>2 DEF Tenant
  <2>4. t # index /\ t \in ho
    BY <1>1, <1>2, <2>1, <2>3 DEF HomeIsHole
  <2>5. /\ places' = Put(Put(pl, t, n), index, index)
        /\ data' = [Copied(d1, index, n) EXCEPT ![index] = index]
    BY <1>1, <1>6 DEF Settle
  <2> HIDE DEF t
  <2>6. /\ DOMAIN places' = DOMAIN pl \cup {index}
        /\ places'[index] = index /\ places'[t] = n
        /\ \A p \in DOMAIN pl : p # t => places'[p] = pl[p]
        /\ places' \in [DOMAIN places' -> Piece]
    BY <1>1, <1>2, <2>3, <2>4, <2>5 DEF Put
  <2>7. OneEach(places')
    BY <1>2, <2>1, <2>3, <2>4, <2>6 DEF OneEach
  <2>8. HomeIsHole(places', holes')
    BY <1>1, <1>2, <2>4, <2>6 DEF HomeIsHole
  <2>9. Filled(places', Piece \ (holes' \cup unchecked'))
    BY <1>1, <1>2, <2>1, <2>3, <2>4, <2>6 DEF Filled
  <2>10. data'[n] = d1[index] /\ data'[index] = index
         /\ \A i \in Piece : i # n /\ i # index => data'[i] = d1[i]
    BY <1>2, <1>3, <2>1, <2>5 DEF Copied
  <2>11. Kept(places', data')
    BY <1>2, <2>3, <2>6, <2>10, <1>1 DEF Kept, OneEach
  <2>12. data' \in [Piece -> Piece \cup {Nobody}]
    BY <1>2, <1>3, <2>5 DEF Copied
  <2>13. QED BY <1>1, <1>3, <2>6, <2>7, <2>8, <2>9, <2>11, <2>12 DEF IInv, PTypeOK, Layout
<1>7. QED BY <1>5, <1>6

(* The resume data keeps the layout: a slot that goes to the piece of its    *)
(* number was not that of a piece kept elsewhere.                           *)
LEMMA ResumeKeepsLayout ==
    ASSUME IInv, NEW drop \in SUBSET DOMAIN places, Resume(drop)
    PROVE  IInv'
<1> DEFINE s == Slots(places, drop)
<1> USE DEF IInv, PTypeOK, Layout
<1>1. /\ s \subseteq Piece /\ s \cap holes = {}
      /\ \A i \in s : \E p \in drop : places[p] = i
      /\ \A p \in drop : places[p] \in s
  BY DEF Slots, Filled
<1>2. /\ DOMAIN places' = (DOMAIN places \ drop) \cup s
      /\ \A q \in DOMAIN places' : places'[q] = IF q \in s THEN q ELSE places[q]
      /\ \A i \in Piece : data'[i] = IF i \in s THEN i ELSE data[i]
      /\ data' \in [Piece -> Piece \cup {Nobody}]
      /\ places' \in [DOMAIN places' -> Piece]
      /\ holes' = holes /\ unchecked' = {} /\ unchecked = {}
  BY <1>1 DEF Resume
<1> HIDE DEF s
<1>3. \A p \in DOMAIN places \ drop : places[p] \notin s
  BY <1>1 DEF OneEach
<1>4. OneEach(places')
  BY <1>1, <1>2, <1>3 DEF OneEach
<1>5. Filled(places', Piece \ (holes' \cup unchecked'))
  <2>1. SUFFICES ASSUME NEW i \in Piece
                 PROVE  i \notin holes <=> \E q \in DOMAIN places' : places'[q] = i
    BY <1>2 DEF Filled
  <2>2. CASE i \in s
    BY <1>1, <1>2, <2>2
  <2>3. CASE i \notin s
    <3>1. ASSUME i \notin holes PROVE \E q \in DOMAIN places' : places'[q] = i
      <4>1. PICK p \in DOMAIN places : places[p] = i
        BY <1>2, <3>1 DEF Filled
      <4>2. p \notin drop
        BY <1>1, <2>3, <4>1
      <4>3. p \notin s
        BY <1>1, <2>3, <4>1 DEF HomeIsHole
      <4>4. QED BY <1>2, <4>1, <4>2, <4>3
    <3>2. ASSUME NEW q \in DOMAIN places', places'[q] = i PROVE i \notin holes
      BY <1>2, <2>3, <3>2 DEF Filled
    <3>3. QED BY <3>1, <3>2
  <2>4. QED BY <2>2, <2>3
<1>6. HomeIsHole(places', holes')
  BY <1>2 DEF HomeIsHole
<1>7. Kept(places', data')
  BY <1>1, <1>2, <1>3 DEF Kept
<1>8. QED BY <1>1, <1>2, <1>4, <1>5, <1>6, <1>7

(* The layout is an invariant of every session, for any number of pieces.   *)
THEOREM LayoutInvariant == PSpec => []IInv
<1>1. PInit => IInv
  BY BeginsInOrder DEF PInit, IInv, PTypeOK
<1>2. IInv /\ [PNext]_pvars => IInv'
  <2> SUFFICES ASSUME IInv, [PNext]_pvars PROVE IInv'
    OBVIOUS
  <2>1. CASE \E i \in Piece : Check(i)
    BY <2>1, CheckKeepsLayout
  <2>2. CASE \E i, h \in Piece : Place(i, h)
    BY <2>2, PlaceKeepsLayout
  <2>3. CASE \E drop \in SUBSET DOMAIN places : Resume(drop)
    BY <2>3, ResumeKeepsLayout
  <2>4. CASE Reopen
    <3>1. Fresh(places', holes', unchecked', data')
      BY <2>4 DEF Reopen, Fresh
    <3>2. QED BY <3>1, BeginsInOrder, Zenon DEF IInv, PTypeOK, Layout
  <2>5. CASE UNCHANGED pvars
    BY <2>5 DEF pvars, IInv, PTypeOK, Layout, OneEach, Filled, HomeIsHole, Kept
  <2>6. QED BY <2>1, <2>2, <2>3, <2>4, <2>5 DEF PNext
<1>3. QED BY <1>1, <1>2, PTL DEF PSpec

(* No piece is overwritten, however the pieces arrive and whatever was in    *)
(* the file before.                                                         *)
THEOREM PiecesAreKept == PSpec => []NothingOverwritten
<1>1. IInv => NothingOverwritten
  BY DEF IInv, Layout, NothingOverwritten
<1>2. QED BY <1>1, LayoutInvariant, PTL

(* When the last hole is filled the file is in order, so that it can be     *)
(* handed over at once.                                                     *)
THEOREM FullFileIsInOrder == PSpec => []InOrderWhenFull
<1>1. IInv => InOrderWhenFull
  <2> SUFFICES ASSUME IInv, unchecked = {}, holes = {}
               PROVE  places = [p \in Piece |-> p] /\ data = [p \in Piece |-> p]
    BY DEF InOrderWhenFull
  <2> USE DEF IInv, PTypeOK, Layout
  <2>1. \A p \in DOMAIN places : places[p] = p
    BY DEF HomeIsHole
  <2>2. DOMAIN places = Piece
    BY <2>1 DEF Filled
  <2>3. \A p \in Piece : data[p] = p
    BY <2>1, <2>2 DEF Kept
  <2>4. QED BY <2>1, <2>2, <2>3
<1>2. QED BY <1>1, LayoutInvariant, PTL

(* A piece that arrives finds a slot: as long as a piece has none there is   *)
(* a hole for _clear_space to take.                                         *)
THEOREM PiecesFindRoom == PSpec => []RoomForAll
<1>1. InOrderWhenFull => RoomForAll
  BY DEF InOrderWhenFull, RoomForAll
<1>2. QED BY <1>1, FullFileIsInOrder, PTL

-----------------------------------------------------------------------------
Passing == pc \in {"copy", "parse", "check"}

\* A thread has inserted its transaction and not raised the flag yet.
SomeAdded == \E n \in Threads : net[n].at = "added"

WaitInv ==
  /\ pc \in {"off", "idle", "copy", "parse", "check", "scan", "block"}
  /\ net = [n \in Threads |-> net[n]]
  /\ IsFiniteSet(DOMAIN newZC)
  \* what was copied is still there
  /\ pc \in {"parse", "check"} => DOMAIN batch \subseteq DOMAIN newZC
  \* the flag is up for what waits, unless a pass is going to copy it
  /\ newZC # Empty => Passing \/ flag \/ SomeAdded
  \* and a program that is not running has no threads
  /\ pc = "off" => newZC = Empty /\ \A n \in Threads : net[n] = Idle

-----------------------------------------------------------------------------
\* The functions with an empty domain are one.
LEMMA EmptyDomain == DOMAIN Empty = {} /\ IsFiniteSet(DOMAIN Empty)
BY FS_EmptySet DEF Empty

\* Inserting a transaction keeps what is in the map, which stays finite.
LEMMA Inserted ==
  ASSUME NEW f, NEW k, NEW t, IsFiniteSet(DOMAIN f)
  PROVE  /\ DOMAIN With(f, k, t) = DOMAIN f \cup {k}
         /\ IsFiniteSet(DOMAIN With(f, k, t))
<1>1. DOMAIN With(f, k, t) = DOMAIN f \cup {k}
  BY DEF With
<1> QED BY <1>1, FS_AddElement

\* The comparison of the sizes in parseNewZC decides equality.
LEMMA SizesDecide ==
  ASSUME NEW S, NEW T, IsFiniteSet(T), S \subseteq T, Cardinality(S) >= Cardinality(T)
  PROVE  S = T
<1>1. IsFiniteSet(S) /\ Cardinality(S) <= Cardinality(T)
  BY FS_Subset
<1>2. Cardinality(S) \in Nat /\ Cardinality(T) \in Nat
  BY <1>1, FS_CardinalityType
<1> QED BY <1>1, <1>2, FS_Subset

-----------------------------------------------------------------------------
\* Nothing waits when the program starts.
LEMMA InitOK == Init => WaitInv
BY EmptyDomain DEF Init, WaitInv, Passing

\* The three steps of addNewZeroConfTx.
LEMMA TakeKeyKeeps ==
  ASSUME WaitInv, NEW n \in Threads, NEW t, TakeKey(n, t)
  PROVE  WaitInv' /\ NothingDropped
<1>1. UNCHANGED <<pc, batch, newZC, flag>> /\ pc # "off"
  BY DEF TakeKey, mainVars
<1>2. \A m \in Threads : net[m].at = "added" => net'[m] = net[m]
  BY DEF TakeKey, Idle, WaitInv
<1>3. net' = [m \in Threads |-> net'[m]]
  BY DEF TakeKey, WaitInv
<1> QED BY <1>1, <1>2, <1>3 DEF WaitInv, Passing, SomeAdded, NothingDropped

\* The transaction is inserted; the thread that did so has yet to raise the flag.
LEMMA AddKeeps ==
  ASSUME WaitInv, NEW n \in Threads, addRawTx(n)
  PROVE  WaitInv' /\ NothingDropped
<1>1. UNCHANGED <<pc, batch, flag>>
  BY DEF addRawTx, mainVars
<1>2. DOMAIN newZC' = DOMAIN newZC \cup {net[n].key} /\ IsFiniteSet(DOMAIN newZC')
  BY Inserted, Zenon DEF addRawTx, WaitInv
<1>3. net' = [m \in Threads |-> net'[m]] /\ net'[n].at = "added"
  BY DEF addRawTx, WaitInv
<1>4. pc # "off"
  BY DEF addRawTx, WaitInv, Idle
<1> QED BY <1>1, <1>2, <1>3, <1>4 DEF WaitInv, Passing, SomeAdded, NothingDropped

\* The flag is up.
LEMMA FlagKeeps ==
  ASSUME WaitInv, NEW n \in Threads, flagRescanZC(n)
  PROVE  WaitInv' /\ NothingDropped
<1>1. UNCHANGED <<pc, batch, newZC>> /\ flag'
  BY DEF flagRescanZC, mainVars
<1>2. net' = [m \in Threads |-> net'[m]]
  BY DEF flagRescanZC, WaitInv
<1>3. pc # "off"
  BY DEF flagRescanZC, WaitInv, Idle
<1> QED BY <1>1, <1>2, <1>3 DEF WaitInv, Passing, NothingDropped

-----------------------------------------------------------------------------
\* A pass of the main thread: it takes the flag down before it copies the map,
\* and clears the map only when it holds no more than was copied.
LEMMA PassKeeps ==
  ASSUME WaitInv, SeeFlag \/ CopyNewZC \/ ParseBatch \/ CheckDone
  PROVE  WaitInv' /\ NothingDropped
<1>1. UNCHANGED net
  BY DEF SeeFlag, CopyNewZC, ParseBatch, CheckDone, netVars
<1>2. CASE SeeFlag
  BY <1>1, <1>2 DEF SeeFlag, WaitInv, Passing, SomeAdded, NothingDropped
<1>3. CASE CopyNewZC
  BY <1>1, <1>3 DEF CopyNewZC, WaitInv, Passing, SomeAdded, NothingDropped
<1>4. CASE ParseBatch
  BY <1>1, <1>4 DEF ParseBatch, WaitInv, Passing, SomeAdded, NothingDropped
<1>5. CASE CheckDone /\ Cardinality(DOMAIN batch) >= Cardinality(DOMAIN newZC)
  <2>1. pc = "check" /\ newZC' = Empty /\ pc' \in {"scan", "idle"} /\ UNCHANGED flag
    BY <1>5 DEF CheckDone
  <2>2. DOMAIN batch = DOMAIN newZC
    BY <1>5, <2>1, SizesDecide DEF WaitInv
  <2> QED BY <1>1, <2>1, <2>2, EmptyDomain DEF WaitInv, Passing, SomeAdded, NothingDropped
<1>6. CASE CheckDone /\ ~(Cardinality(DOMAIN batch) >= Cardinality(DOMAIN newZC))
  BY <1>1, <1>6 DEF CheckDone, WaitInv, Passing, SomeAdded, NothingDropped
<1> QED BY <1>2, <1>3, <1>4, <1>5, <1>6

\* The scans, the blocks and the start touch neither the map nor the flag.
LEMMA OthersKeep ==
  ASSUME WaitInv,
         \/ ScanNewZC \/ ScanBlocks \/ UNCHANGED vars
         \/ \E new, gone, r : NewBlocks(new, gone, r)
         \/ \E c : loadZeroConfMempool(c)
  PROVE  WaitInv' /\ NothingDropped
<1>1. UNCHANGED <<net, newZC, flag, batch>>
  BY Zenon DEF ScanNewZC, ScanBlocks, NewBlocks, loadZeroConfMempool, vars, netVars, mainVars
<1>2. UNCHANGED pc \/ (pc # "off" /\ ~Passing /\ pc' \in {"idle", "block"})
      \/ (pc = "off" /\ pc' = "idle")
  BY Zenon DEF ScanNewZC, ScanBlocks, NewBlocks, loadZeroConfMempool, vars, mainVars, Passing
<1> QED BY <1>1, <1>2 DEF WaitInv, Passing, SomeAdded, NothingDropped

\* The program stops: what waited is gone with it, and so are the threads.
LEMMA CrashKeeps == ASSUME WaitInv, Crash PROVE WaitInv' /\ NothingDropped
<1>1. pc' = "off" /\ newZC' = Empty /\ net' = [n \in Threads |-> Idle]
  BY DEF Crash
<1> QED BY <1>1, EmptyDomain DEF WaitInv, NothingDropped, Passing

\* Every step keeps the invariant and drops nothing unread.
LEMMA StepKeeps == ASSUME WaitInv, [Next]_vars PROVE WaitInv' /\ NothingDropped
BY TakeKeyKeeps, AddKeeps, FlagKeeps, PassKeeps, OthersKeep, CrashKeeps DEF Next, Main

\* The invariant says that no wake-up is lost when the main thread sleeps.
LEMMA NotLost == WaitInv => NoLostWakeup
BY DEF WaitInv, NoLostWakeup, Passing, SomeAdded

\* In every state, what was copied is still in the map, and the flag is up for
\* what waits, is about to be raised, or a pass has still to copy the map.
THEOREM FlagIsRaised == Spec => []WaitInv
<1>1. WaitInv /\ [Next]_vars => WaitInv'
  BY StepKeeps
<1> QED BY InitOK, <1>1, PTL DEF Spec

\* NoneForgotten: however the threads of addNewZeroConfTx and the main thread
\* interleave, and whenever the program stops, parseNewZC clears no transaction
\* that it has not parsed, and the main thread does not go to sleep while one
\* waits for which nobody will raise the flag.
THEOREM NeverForgotten == Spec => NoneForgotten
<1>1. WaitInv /\ [Next]_vars => NothingDropped /\ NoLostWakeup'
  <2> SUFFICES ASSUME WaitInv, [Next]_vars PROVE NothingDropped /\ NoLostWakeup'
    OBVIOUS
  <2>1. WaitInv' /\ NothingDropped
    BY StepKeeps
  <2>2. (WaitInv => NoLostWakeup)'
    BY NotLost, PTL
  <2> QED BY <2>1, <2>2
<1> QED BY <1>1, FlagIsRaised, PTL DEF Spec, NoneForgotten

=============================================================================
