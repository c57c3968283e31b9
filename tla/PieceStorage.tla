---------------------------- MODULE PieceStorage ----------------------------
(***************************************************************************)
(* StorageWrapper (BitTornado/BT1/StorageWrapper.py): the pieces of the    *)
(* torrent, the requests for their chunks that are outstanding, and the    *)
(* file on the disk.  Its operations are operators on a record t:          *)
(*                                                                         *)
(*   places, holes  where the pieces are in the file (see Places)          *)
(*   disk           the chunks that each slot of the file holds            *)
(*   buf, queue     write_buf and write_buf_list                           *)
(*   have           the pieces that passed their hash check                *)
(*   inactive       the chunks that nobody has been asked for, per piece   *)
(*   active         numactive, the number of chunks that were asked for    *)
(*   dirty          the chunks that arrived, of the pieces in progress     *)
(*   left, inact, got   amount_left, amount_inactive, amount_obtained      *)
(*   hist           download_history: who sent each chunk                  *)
(*   suspect        failed_pieces: for the pieces that failed the hash     *)
(*                  check, who sent a chunk that arrived differently later *)
(*   done           doneflag, which a disk error also sets                 *)
(*   io             whether the disk works                                 *)
(*   wrong          the assertions of the code that failed                 *)
(*                                                                         *)
(* Amounts are in chunks.  inactive_requests[i] = 1 stands for all chunks  *)
(* of the piece.                                                           *)
(***************************************************************************)
EXTENDS Places, Integers, Sequences, FiniteSets, SequencesExt

CONSTANTS Size,          \* Size[i], the number of chunks of piece i
          BufMax         \* write_buf_max

NoOne == "nobody"        \* a chunk of an earlier session has no known sender
Empty == [x \in {} |-> x]

Chunk(i) == 0 .. Size[i] - 1
Slot     == 0 .. Size[0] - 1
SumOver(f, S) == FoldFunctionOnSet(+, 0, f, S)
Total    == SumOver(Size, Piece)

Right(i, b) == <<i, b>>       \* what belongs into chunk b of piece i
Wrong(i, b) == <<i, b, 0>>
Blank       == <<>>           \* the filling of alloc_buf

Without(f, x) == [y \in DOMAIN f \ {x} |-> f[y]]
With(f, x, v) == [y \in DOMAIN f \cup {x} |-> IF y = x THEN v ELSE f[y]]

NewStorage(disk, holes) ==
    [places |-> Empty, holes |-> holes, disk |-> disk, buf |-> Empty, queue |-> <<>>,
     have |-> {}, inactive |-> [i \in Piece |-> Chunk(i)], active |-> [i \in Piece |-> 0],
     dirty |-> Empty, left |-> Total, inact |-> Total, got |-> 0,
     hist |-> Empty, suspect |-> Empty, done |-> FALSE, io |-> TRUE, wrong |-> {}]

Assert2(t, label, holds) == IF holds THEN t ELSE [t EXCEPT !.wrong = @ \cup {label}]

(* failed: the error goes to errorfunc and the download ends.               *)
Failed(t) == [t EXCEPT !.done = TRUE]

HashOK(t, slot, i) == \A b \in Chunk(i) : t.disk[slot][b] = Right(i, b)

(* write_raw of the chunks of one piece (or of the filling) into a slot.    *)
WriteRaw(t, slot, chunks) ==
    IF ~t.io THEN Failed(t)
    ELSE [t EXCEPT !.disk[slot] = [b \in Slot |-> IF b \in DOMAIN chunks THEN chunks[b] ELSE @[b]]]

-----------------------------------------------------------------------------
(* The hash check when the program starts.                                  *)

MarkGot(t, i, slot) ==
    [t EXCEPT !.places = Put(@, i, slot), !.have = @ \cup {i}, !.got = @ + Size[i],
              !.left = @ - Size[i], !.inact = @ - Size[i], !.inactive[i] = {}]

(* The piece whose own slot is not in the file yet and whose data slot i    *)
(* has: of the length of slot i, or else the last piece.                    *)
Targets(t, i) ==
    {p \in t.holes \ DOMAIN t.places : Size[p] = Size[i] /\ HashOK(t, i, p)}
LastIsHere(t, i) ==
    N - 1 \notin t.have /\ HashOK(t, i, N - 1) /\ (i = N - 1 \/ N - 1 \in t.holes)


CheckSlot(t, i) ==
    IF ~t.io THEN Failed(t)
    ELSE IF HashOK(t, i, i) THEN MarkGot(t, i, i)
    ELSE IF Targets(t, i) # {} THEN MarkGot(t, CHOOSE p \in Targets(t, i) : TRUE, i)
    ELSE IF LastIsHere(t, i) THEN MarkGot(t, N - 1, i)
    ELSE [t EXCEPT !.places = Put(@, i, i)]

-----------------------------------------------------------------------------
(* Requests for chunks.                                                     *)

HasRequests(t, i) == t.inactive[i] # {}
IsEndgame(t)      == t.inact = 0
AmComplete(t)     == t.got = Total

NewRequest(t, i, b) ==
    [t EXCEPT !.inactive[i] = @ \ {b}, !.active[i] = @ + 1, !.inact = @ - 1]

IsOut(t, i, b) == i \notin t.have /\ b \notin t.inactive[i]

RequestLost(t, i, b) ==
    IF ~IsOut(t, i, b) THEN Assert2(t, "lost twice", FALSE)
    ELSE [t EXCEPT !.inactive[i] = @ \cup {b}, !.inact = @ + 1, !.active[i] = @ - 1]

-----------------------------------------------------------------------------
(* The write buffer.                                                        *)

FlushBuffer(t, i) ==
    IF i \notin DOMAIN t.buf THEN t
    ELSE WriteRaw([t EXCEPT !.buf = Without(@, i), !.queue = SelectSeq(@, LAMBDA j : j # i)],
                  t.places[i], t.buf[i])

Buffered(t) == SumOver([i \in DOMAIN t.buf |-> Cardinality(DOMAIN t.buf[i])], DOMAIN t.buf)

RECURSIVE MakeRoom(_)
MakeRoom(t) ==
    IF Buffered(t) + 1 <= BufMax \/ t.queue = <<>> \/ ~t.io THEN t
    ELSE MakeRoom(FlushBuffer(t, Head(t.queue)))

WriteToBuffer(t, i, b, v) ==
    LET u == MakeRoom(t)
        old == IF i \in DOMAIN u.buf THEN u.buf[i] ELSE Empty
    IN  IF u.done THEN u
        ELSE [u EXCEPT !.buf = With(@, i, With(old, b, v)),
                       !.queue = Append(SelectSeq(@, LAMBDA j : j # i), i)]

Sync(t) == FoldLeft(FlushBuffer, t, t.queue)

-----------------------------------------------------------------------------
(* The place of a piece whose first chunk arrives.                          *)

MovePiece_PlaceOnly(t, i, to) == [t EXCEPT !.places = Put(@, i, to)]

MovePiece(t, i, to) ==
    LET from == t.places[i]
        u == Assert2(t, "move", from # i /\ from # to /\ (i = to \/ to \notin DOMAIN t.places))
        w == WriteRaw(u, to, [b \in Chunk(i) |-> u.disk[from][b]])
        x == [w EXCEPT !.places = Put(@, i, to)]
    IN  IF ~t.io THEN w
        ELSE IF i \in t.have /\ i = to /\ ~HashOK(x, to, i) THEN Failed(x) ELSE x

(* _clear_space: the piece of the lowest hole goes home, and index takes    *)
(* the slot that is free now or its own (see Places).                       *)
TakePlace(t, index, h, n) ==
    IF GoesTo(t.holes, n, index)
    THEN [(IF n = h THEN WriteRaw(t, n, [b \in Chunk(n) |-> Blank]) ELSE t)
              EXCEPT !.places = Put(@, index, n)]
    ELSE IF \A p \in DOMAIN t.places : t.places[p] # index THEN Failed(t)
    ELSE [MovePiece(t, Tenant(t.places, index), n) EXCEPT !.places = Put(@, index, index)]

MakePlace(t, index) ==
    LET h == Lowest(t.holes)
        n == FreeSlot(t.places, h)
        u == [t EXCEPT !.holes = @ \ {h}]
        w == IF h \in DOMAIN t.places THEN MovePiece(u, h, h) ELSE u
    IN  IF w.done THEN w ELSE TakePlace(w, index, h, n)

-----------------------------------------------------------------------------
(* piece_came_in: chunk b of piece i arrives from src with the value v.     *)
(* The answer also says who is to blame for wrong data (failed of the       *)
(* BadDataGuards) and whether the piece is bumped in the picker.            *)

Answer(t, ok, blamed, bump) == [t |-> t, ok |-> ok, blamed |-> blamed, bump |-> bump]

(* A chunk that arrives differently after its piece failed: whoever sent    *)
(* the old one is suspected.                                                *)
Suspect(t, i, b, v) ==
    IF i \notin DOMAIN t.suspect \/ t.disk[t.places[i]][b] = v THEN t
    ELSE LET old == IF i \in DOMAIN t.hist /\ b \in DOMAIN t.hist[i] THEN t.hist[i][b] ELSE NoOne
         IN  [t EXCEPT !.suspect[i] = @ \cup {old}]

Recorded(t, i, b, src) ==
    [t EXCEPT !.hist = With(@, i, With(IF i \in DOMAIN @ THEN @[i] ELSE Empty, b, src))]

Arrived(t, i, b) ==
    LET u == [t EXCEPT !.got = @ + 1, !.active[i] = @ - 1,
                       !.dirty = With(@, i, (IF i \in DOMAIN @ THEN @[i] ELSE {}) \cup {b})]
    IN  Assert2(u, "numactive", u.active[i] >= 0)

Senders(t, i) == {t.hist[i][b] : b \in DOMAIN t.hist[i]}

Flunked(t, i) ==
    LET one == Cardinality(Senders(t, i)) = 1
        u == [t EXCEPT !.got = @ - Size[i], !.inactive[i] = Chunk(i), !.inact = @ + Size[i],
                       !.suspect = IF one THEN Without(@, i) ELSE With(@, i, {})]
    IN  Answer(u, FALSE, IF one THEN Senders(t, i) \ {NoOne} ELSE {}, one)

Passed(t, i) ==
    LET blamed == IF i \in DOMAIN t.suspect THEN t.suspect[i] \ {NoOne} ELSE {}
    IN  Answer([t EXCEPT !.have = @ \cup {i}, !.left = @ - Size[i], !.hist = Without(@, i),
                         !.suspect = Without(@, i)], TRUE, blamed, FALSE)

Completed(t, i) ==
    LET u == FlushBuffer([t EXCEPT !.dirty = Without(@, i)], i)
    IN  IF u.done THEN Answer(u, TRUE, {}, FALSE)
        ELSE IF HashOK(u, u.places[i], i) THEN Passed(u, i) ELSE Flunked(u, i)

Stored(t, i, b, v, src) ==
    LET u == WriteToBuffer(Recorded(Suspect(t, i, b, v), i, b, src), i, b, v)
        w == Arrived(u, i, b)
    IN  IF u.done THEN Answer(u, TRUE, {}, FALSE)
        ELSE IF w.inactive[i] # {} \/ w.active[i] > 0 THEN Answer(w, TRUE, {}, FALSE)
        ELSE Completed(w, i)

PieceCameIn(t, i, b, v, src) ==
    LET u == Assert2(t, "have", i \notin t.have)
        w == IF i \in DOMAIN u.places THEN u ELSE MakePlace(u, i)
    IN  IF w.done THEN Answer(w, FALSE, {}, FALSE)
        ELSE IF ~w.io THEN Answer(Failed(w), TRUE, {}, FALSE)
        ELSE Stored(w, i, b, v, src)

-----------------------------------------------------------------------------
(* pickle and unpickle, with an unchanged file in between: pieces without   *)
(* data lose their place to the piece of that number; what arrived of a     *)
(* piece in progress is kept, but not who sent it.                          *)

NoData(t) == {i \in DOMAIN t.places : i \notin t.have /\ i \notin DOMAIN t.dirty}

Unpickled(t) ==
    LET s == {t.places[i] : i \in NoData(t)}
        kept == DOMAIN t.places \ NoData(t)
        rest == [i \in Piece |-> IF i \in t.have THEN {}
                                 ELSE IF i \in DOMAIN t.dirty THEN Chunk(i) \ t.dirty[i]
                                 ELSE Chunk(i)]
        sum  == SumOver([i \in Piece |-> Cardinality(rest[i])], Piece)
    IN  [t EXCEPT !.places = [q \in kept \cup s |-> IF q \in s THEN q ELSE t.places[q]],
                  !.inactive = rest, !.active = [i \in Piece |-> 0],
                  !.inact = sum, !.got = Total - sum,
                  !.left = Total - SumOver(Size, t.have),
                  !.hist = [i \in DOMAIN t.dirty |-> Empty], !.suspect = Empty,
                  !.done = FALSE]
=============================================================================
