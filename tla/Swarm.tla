------------------------------- MODULE Swarm --------------------------------
(***************************************************************************)
(* What is downloaded from whom: Downloader and SingleDownload             *)
(* (BT1/Downloader.py) with the PiecePicker (BT1/PiecePicker.py).  Their    *)
(* operations are operators on a record s, and give the SET of the records  *)
(* that the random choices of the code lead to:                            *)
(*                                                                         *)
(*   t                 the storage (PieceStorage)                          *)
(*   dls, d            downloads, in the order of the connections, and the *)
(*                     SingleDownload of each peer: choked, int(erested),  *)
(*                     act(ive_requests), have, ex(ample_interest);        *)
(*                     asked are the requests the peer may still answer    *)
(*   nh, has, started, seeds, cut, ilen                                    *)
(*                     the picker's numhaves, has, started,                *)
(*                     seeds_connected, cutoff and len(interests)          *)
(*   end, allreq       endgamemode and all_requests                        *)
(*   bad, kick, banned the pieces that a peer spoiled, the peers that a    *)
(*                     task is to disconnect, and those not to come back   *)
(*   fin, final        whether finishedFunc ran, and the file it moved     *)
(*   old               the pieces that an earlier session began             *)
(*   exc               whether the handler ended in an exception           *)
(*                                                                         *)
(* A piece is in the list of interests of level Step + numhaves, in an     *)
(* order that is random; Armory sets neither priorities nor a download     *)
(* rate, and never pauses.                                                 *)
(***************************************************************************)
EXTENDS PieceStorage, FiniteSetsExt

CONSTANTS Peer,
          Backlogs       \* the values of _backlog, which depends on the rate

Step == 20               \* priority_step
RarestCutoff == 2        \* rarest_first_cutoff
PriorityCutoff == 5      \* rarest_first_priority_cutoff

NewDownload == [on |-> TRUE, choked |-> TRUE, int |-> FALSE, act |-> {}, have |-> {}, ex |-> N,
                asked |-> {}, any |-> FALSE]
NoDownload  == [NewDownload EXCEPT !.on = FALSE]

NewSwarm(t) ==
    [t |-> t, dls |-> <<>>, d |-> [p \in Peer |-> NoDownload],
     nh |-> [i \in Piece |-> 0], has |-> t.have, started |-> <<>>, seeds |-> 0,
     cut |-> PriorityCutoff, ilen |-> Step + 1, end |-> FALSE, allreq |-> {},
     bad |-> [p \in Peer |-> {}], kick |-> {}, banned |-> {},
     old |-> DOMAIN t.dirty, fin |-> t.left = 0, final |-> IF t.left = 0 THEN t.disk ELSE Empty, exc |-> FALSE]

Check2(s, label, holds) == [s EXCEPT !.t = Assert2(@, label, holds)]

(* A loop over the downloads, whose body has several outcomes.              *)
Each(Op(_, _), s, seq) == FoldLeft(LAMBDA S, p : UNION {Op(u, p) : u \in S}, {s}, seq)
Orders(S)  == SetToSeqs(S)
Others(s, p) == SelectSeq(s.dls, LAMBDA q : q # p)
Unchoked(s) == {p \in ToSet(s.dls) : ~s.d[p].choked}

-----------------------------------------------------------------------------
(* PiecePicker                                                              *)

Level(s, i) == Step + s.nh[i]

PickerGotHave(s, i) ==
    [s EXCEPT !.nh[i] = @ + 1,
              !.ilen = IF i \notin s.has /\ Level(s, i) = @ - 1 THEN @ + 1 ELSE @]
PickerLostHave(s, i) == [s EXCEPT !.nh[i] = @ - 1]

NewCut(seeds) == LET c == PriorityCutoff + Step - seeds IN IF c > 0 THEN c ELSE 0
PickerGotSeed(s)  == [s EXCEPT !.seeds = @ + 1, !.cut = NewCut(s.seeds + 1)]
PickerLostSeed(s) == [s EXCEPT !.seeds = @ - 1, !.cut = NewCut(s.seeds - 1)]

PickerDone(s) == s.has = Piece
PickerBecameSeed_KeepsCounts(s) == PickerGotSeed(s)

PickerBecameSeed(s) ==
    [PickerGotSeed(s) EXCEPT !.nh = [i \in Piece |-> @[i] - 1],
                             !.ilen = IF PickerDone(s) THEN @ ELSE @ - 1]

PickerGotAll(s, H)  == FoldLeft(PickerGotHave, s, SetToSeq(H))
PickerLostAll(s, H) == FoldLeft(PickerLostHave, s, SetToSeq(H))

PickerRequested(s, i) == IF i \in ToSet(s.started) THEN s ELSE [s EXCEPT !.started = Append(@, i)]
PickerForget(s, i)    == [s EXCEPT !.started = SelectSeq(@, LAMBDA j : j # i)]

PickerComplete(s, i) ==
    PickerForget([Check2(s, "complete", i \notin s.has) EXCEPT !.has = @ \cup {i}], i)

TooManyPartials(s) == Cardinality(DOMAIN s.t.dirty) > Len(s.dls) \div 2

(* next: the piece to ask this peer for, or none.  A started piece comes    *)
(* first when there are too few finished ones or too many started ones;     *)
(* otherwise the rarest, and with too few finished ones at first only among *)
(* those that are common enough.                                            *)
Wanted(s, p) == {i \in s.d[p].have : HasRequests(s.t, i)}

Best(s, W) ==
    LET c == SelectSeq(s.started, LAMBDA i : i \in W)
    IN  {c[k] : k \in {k \in DOMAIN c : \A m \in DOMAIN c :
             Level(s, c[k]) < Level(s, c[m]) \/ (Level(s, c[k]) = Level(s, c[m]) /\ k <= m)}}

Rarest(s, W, lo, hi) ==
    LET L == {i \in W \ s.has : Level(s, i) >= lo /\ Level(s, i) < hi}
    IN  {i \in L : \A j \in L : Level(s, i) <= Level(s, j)}

PickNext(s, p) ==
    LET W == Wanted(s, p)
        best == Best(s, W)
        full == s.d[p].have = Piece
        few == Cardinality(s.has) < RarestCutoff
        common == few /\ s.ilen > s.cut
        hi == Min({s.ilen} \cup {Level(s, i) : i \in best})
        first == Rarest(s, W, s.cut, hi)
        rare == IF common /\ ~full
                THEN IF first # {} THEN first ELSE Rarest(s, W, 0, s.cut)
                ELSE Rarest(s, W, 0, hi)
    IN  IF best # {} /\ (((TooManyPartials(s) \/ few) /\ ~full) \/ common) THEN best
        ELSE IF rare # {} THEN rare ELSE best

-----------------------------------------------------------------------------
(* Requests                                                                 *)

Interest(s, p, x)  == [s EXCEPT !.d[p].int = x]
SendRequests(s, p, R) == [s EXCEPT !.d[p].act = @ \cup R, !.d[p].asked = @ \cup R]

FixWith(s, p, backlog) ==
    LET d == s.d[p]
        want == {r \in s.allreq : r[1] \in d.have /\ r \notin d.act}
        room == backlog - Cardinality(d.act)
        u == IF want # {} THEN Interest(s, p, TRUE) ELSE s
    IN  IF room <= 0 THEN {s}
        ELSE IF d.act = {} /\ want = {} THEN {Interest(s, p, FALSE)}
        ELSE IF d.choked THEN {u}
        ELSE {SendRequests(u, p, R) : R \in kSubset(Min({room, Cardinality(want)}), want)}
FixEndgame(s, p) == UNION {FixWith(s, p, backlog) : backlog \in Backlogs}

ActOf(s) == UNION {s.d[p].act : p \in ToSet(s.dls)}

StartEndgame(s) ==
    LET P == ToSet(s.dls)
        u == Check2(s, "endgame",
                 /\ ~s.end /\ s.allreq = {}
                 /\ \A p \in P : s.d[p].act # {} => s.d[p].int /\ ~s.d[p].choked
                 /\ \A p, q \in P : p # q => s.d[p].act \cap s.d[q].act = {})
    IN  Each(FixEndgame, [u EXCEPT !.end = TRUE, !.allreq = ActOf(s)], s.dls)

(* The chunks of piece i that peer p is asked for at once: the lowest ones. *)
LowestOf(S, k) == {b \in S : Cardinality({c \in S : c < b}) < k}
AskFor(s, p, i, room) ==
    LET B == LowestOf(s.t.inactive[i], room)
        u == [PickerRequested(Interest(s, p, TRUE), i) EXCEPT
                 !.d[p].ex = i, !.t = FoldLeft(LAMBDA t, b : NewRequest(t, i, b), @, SetToSeq(B))]
    IN  SendRequests(u, p, {<<i, b>> : b \in B})

RECURSIVE FillUp(_, _, _)
FillUp(s, p, backlog) ==
    LET room == backlog - Cardinality(s.d[p].act)
        next == IF room > 0 THEN PickNext(s, p) ELSE {}
    IN  IF next = {} THEN {s}
        ELSE UNION {FillUp(AskFor(s, p, i, room), p, backlog) : i \in next}

(* The peers that were interested in a piece of which nothing is left to    *)
(* ask for look for another one.                                            *)
LookElsewhere(s, p, lost) ==
    LET d == s.d[p]
        next == PickNext(s, p)
    IN  IF d.act # {} \/ ~d.int \/ (d.ex \in Piece /\ HasRequests(s.t, d.ex)) \/ d.have \cap lost = {}
        THEN {s}
        ELSE IF next = {} THEN {Interest(s, p, FALSE)}
        ELSE {[s EXCEPT !.d[p].ex = i] : i \in next}

AfterFill(s, u, p) ==
    LET lost == {i \in Piece : HasRequests(s.t, i) /\ ~HasRequests(u.t, i)}
        v == IF u.d[p].act = {} THEN Interest(u, p, FALSE) ELSE u
        S == IF lost = {} THEN {v} ELSE Each(LAMBDA w, q : LookElsewhere(w, q, lost), v, v.dls)
    IN  UNION {IF IsEndgame(w.t) THEN StartEndgame(w) ELSE {w} : w \in S}

RequestWith(s, p, backlog) ==
    IF Cardinality(s.d[p].act) >= backlog THEN {s}
    ELSE UNION {AfterFill(s, u, p) : u \in FillUp(s, p, backlog)}

RequestMore(s, p) ==
    LET u == Check2(s, "choked", ~s.d[p].choked)
    IN  IF u.end THEN FixEndgame(u, p)
        ELSE UNION {RequestWith(u, p, backlog) : backlog \in Backlogs}

AllRequestMore(s) == UNION {Each(RequestMore, s, order) : order \in Orders(Unchoked(s))}

-----------------------------------------------------------------------------
(* Messages                                                                 *)

RequestsLost(s, R) ==
    [s EXCEPT !.t = FoldLeft(LAMBDA t, r : RequestLost(t, r[1], r[2]), @, SetToSeq(R))]

ResetEndgame(s) == [RequestsLost(s, s.allreq) EXCEPT !.end = FALSE, !.allreq = {}]

WakeUp(s, p, lost) ==
    IF s.d[p].choked /\ ~s.d[p].int /\ \E i \in lost : i \in s.d[p].have /\ HasRequests(s.t, i)
    THEN {Interest(s, p, TRUE)} ELSE {s}

(* _letgo.  A request that is given back twice raises an AssertionError,    *)
(* which ends the handler.                                                  *)
LetGo(s, p) ==
    LET R == s.d[p].act
        lost == {r[1] : r \in R}
        u == RequestsLost(s, R)
        v == [u EXCEPT !.d[p].act = {}]
    IN  IF R = {} THEN {s}
        ELSE IF s.end THEN {[s EXCEPT !.d[p].act = {}]}
        ELSE IF \E r \in R : ~IsOut(s.t, r[1], r[2]) THEN {[u EXCEPT !.exc = TRUE]}
        ELSE UNION {Each(LAMBDA w, q : WakeUp(w, q, lost), x, x.dls) : x \in AllRequestMore(v)}

GotChoke(s, p) ==
    IF s.d[p].choked THEN {s} ELSE LetGo([s EXCEPT !.d[p].choked = TRUE], p)

GotUnchoke(s, p) ==
    LET u == [s EXCEPT !.d[p].choked = FALSE]
    IN  IF s.d[p].choked /\ s.d[p].int THEN RequestMore(u, p) ELSE {u}

(* disconnected and lost_peer                                               *)
LostPeer(s, p) ==
    LET u == [s EXCEPT !.dls = Others(s, p), !.kick = @ \ {p}]
    IN  IF u.end /\ u.dls = <<>> THEN ResetEndgame(u) ELSE u

Disconnected(s, p) ==
    LET u == LostPeer(s, p)
        H == s.d[p].have
        v == IF H = Piece THEN PickerLostSeed(u) ELSE PickerLostAll(u, H)
    IN  {[w EXCEPT !.d[p] = NoDownload] : w \in LetGo(v, p)}

GotHave(s, p, i) ==
    LET u == [PickerGotHave(s, i) EXCEPT !.d[p].have = @ \cup {i}]
        v == PickerBecameSeed(u)
    IN  IF i \in s.d[p].have THEN {s}
        ELSE IF u.d[p].have = Piece THEN IF AmComplete(v.t) THEN Disconnected(v, p) ELSE {v}
        ELSE IF u.end THEN FixEndgame(u, p)
        ELSE IF ~HasRequests(u.t, i) THEN {u}
        ELSE IF ~u.d[p].choked THEN RequestMore(u, p) ELSE {Interest(u, p, TRUE)}

(* got_have_bitfield, with _check_interests                                 *)
Interesting(s, p) ==
    IF s.end THEN \E r \in s.allreq : r[1] \in s.d[p].have
    ELSE \E i \in s.d[p].have : HasRequests(s.t, i)

GotBitfield(s, p, H) ==
    LET u == [s EXCEPT !.d[p].have = H]
        v == IF H = Piece THEN PickerGotSeed(u) ELSE PickerGotAll(u, H)
    IN  IF AmComplete(s.t) /\ H = Piece THEN Disconnected(s, p)
        ELSE IF ~v.d[p].int /\ Interesting(v, p) THEN {Interest(v, p, TRUE)} ELSE {v}

-----------------------------------------------------------------------------
(* A chunk arrives: got_piece                                               *)

(* BadDataGuard.failed: the peer is to be disconnected after the second     *)
(* piece it spoiled, and not let in again after the third; unless only a    *)
(* few peers are left.                                                      *)
KicksOK(s) == Len(s.dls) > 2 /\ Cardinality({p \in Peer : s.bad[p] # {}}) <= 10

Blame(s, p, i, bump) ==
    LET u == [s EXCEPT !.bad[p] = @ \cup {i}]
        n == Cardinality(u.bad[p])
        v == IF n > 1 /\ u.d[p].on /\ KicksOK(u) THEN [u EXCEPT !.kick = @ \cup {p}] ELSE u
    IN  IF n >= 3 THEN IF KicksOK(v) THEN [v EXCEPT !.banned = @ \cup {p}] ELSE v
        ELSE IF bump THEN PickerForget(v, i) ELSE v

(* piece_flunked                                                            *)
Revive(s, p, i) ==
    IF ~s.d[p].int /\ i \in s.d[p].have
    THEN {[Interest(s, p, TRUE) EXCEPT !.d[p].ex = i]} ELSE {s}

PieceFlunked(s, i) ==
    LET B == s.t.inactive[i]
        u == [s EXCEPT !.t = FoldLeft(LAMBDA t, b : NewRequest(t, i, b), @, SetToSeq(B)),
                       !.allreq = @ \cup {<<i, b>> : b \in B}]
    IN  IF s.end THEN Each(FixEndgame, u, u.dls)
        ELSE UNION {Each(LAMBDA w, q : Revive(w, q, i), x, x.dls) : x \in AllRequestMore(s)}

(* In the endgame the others need not send this chunk any more.             *)
CancelAt(s, p, r) ==
    LET d == s.d[p]
        u == Check2(s, "idle", (d.int /\ ~d.choked) \/ d.act = {})
    IN  IF ~d.int THEN {u}
        ELSE IF d.choked THEN FixEndgame(u, p)
        ELSE IF r \in d.act THEN FixEndgame([u EXCEPT !.d[p].act = @ \ {r}], p)
        ELSE {u}

(* check_complete: when all is there, the connections to seeds are closed.  *)
CheckComplete(s) ==
    LET u == [s EXCEPT !.end = @ /\ s.allreq # {}]
        seeds == SelectSeq(u.dls, LAMBDA p : u.d[p].have = Piece)
    IN  IF ~AmComplete(u.t) THEN {u}
        ELSE Each(Disconnected, Check2(u, "complete", u.allreq = {} /\ ~u.end), seeds)

(* finished, called when the last piece is there: finishedFunc moves the    *)
(* file.                                                                    *)
Finish(s) == IF s.t.left = 0 /\ ~s.fin THEN [s EXCEPT !.fin = TRUE, !.final = s.t.disk] ELSE s


AfterPiece(s, p, i, b) ==
    LET u == IF i \in s.t.have THEN PickerComplete(s, i) ELSE s
        S == IF u.end THEN Each(LAMBDA w, q : CancelAt(w, q, <<i, b>>), u, Others(u, p)) ELSE {u}
    IN  UNION {UNION {CheckComplete(x) : x \in RequestMore(w, p)} : w \in S}

GotPiece(s, p, i, b, v) ==
    LET r == <<i, b>>
        u == [s EXCEPT !.d[p].act = @ \ {r}, !.allreq = @ \ {r}]
        a == PieceCameIn(u.t, i, b, v, p)
        w == FoldLeft(LAMBDA x, q : Blame(x, q, i, a.bump), Finish([u EXCEPT !.t = a.t]),
                      SetToSeq(a.blamed))
    IN  IF r \notin s.d[p].act THEN {s}
        ELSE IF ~a.ok THEN PieceFlunked(w, i)
        ELSE AfterPiece(w, p, i, b)
=============================================================================
