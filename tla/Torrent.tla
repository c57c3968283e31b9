------------------------------ MODULE Torrent -------------------------------
(***************************************************************************)
(* The download of the bootstrap file: doTheDownloadThing of               *)
(* armoryengine/torrentDL.py and BT1Download (BitTornado/download_bt1.py)  *)
(* over the sessions of the program, with the swarm of peers as its        *)
(* environment.  A session reads the partial file (old_style_init), starts *)
(* the engine and then handles one message or task at a time               *)
(* (listen_forever); a peer may send what it likes, but in the order and   *)
(* form of the protocol, and only peers of Liars send wrong data.          *)
(***************************************************************************)
EXTENDS Swarm

CONSTANTS Seeds,         \* peers that come back and answer, with right data
          Liars,
          Limits         \* scenarios: how often mishaps happen, and what the peers have

VARIABLES s,             \* the swarm and the storage; between sessions, the file
          phase,         \* "off", "checking", "running", or "hung"
          todo,          \* check_list
          resume,        \* whether the resume data of the last session is there
          file,          \* "partial" or "final"
          left           \* how often each mishap may still happen

tvars == <<s, phase, todo, resume, file, left>>

Spend(m) == left[m] > 0 /\ left' = [left EXCEPT ![m] = @ - 1]

(* The slots that the file has are the first ones.                          *)
From(k) == {i \in Piece : i >= k}
Present(t) == Piece \ t.holes
InOrder(S) == SetToSortSeq(S, <)

Nothing    == [b \in Slot |-> Blank]
Shifted(i) == [b \in Slot |-> Right((i + 1) % N, b)]   \* the next piece is in the slot

Init ==
    /\ left \in Limits
    /\ \E k \in 0 .. left["slots"] :
          s = NewSwarm(NewStorage([i \in Piece |-> IF i < k THEN Shifted(i) ELSE Nothing], From(k)))
    /\ phase = "off" /\ todo = <<>> /\ resume = FALSE /\ file = "partial"

FileOf(u) == IF u.fin THEN "final" ELSE file

(* doTheDownloadThing up to initFiles: a finished file is left alone.       *)
Start ==
    /\ phase = "off" /\ file = "partial" /\ Spend("start")
    /\ LET t == IF resume THEN Unpickled(s.t) ELSE NewStorage(s.t.disk, s.t.holes)
       IN  /\ s' = NewSwarm(t)
           /\ todo' = IF resume THEN <<>> ELSE InOrder(Present(t))
           /\ file' = FileOf(NewSwarm(t))
    /\ phase' = "checking"
    /\ UNCHANGED resume

(* hashcheckfunc, for the next slot.                                        *)
CheckNext ==
    /\ phase = "checking" /\ todo # <<>> /\ ~s.t.done
    /\ s' = Finish([s EXCEPT !.t = CheckSlot(@, Head(todo))])
    /\ file' = FileOf(s') /\ todo' = Tail(todo)
    /\ UNCHANGED <<phase, resume, left>>

(* startEngine: the picker learns what is there, and the resume data is     *)
(* deleted.                                                                 *)
StartEngine ==
    /\ phase = "checking" /\ todo = <<>> /\ ~s.t.done
    /\ phase' = "running" /\ resume' = FALSE
    /\ s' = [s EXCEPT !.has = s.t.have]
    /\ UNCHANGED <<todo, file, left>>

-----------------------------------------------------------------------------
Running == phase = "running" /\ ~s.t.done

(* One handler of the engine, with what it leads to.                        *)
Handles(S) ==
    /\ \E u \in S : s' = u /\ file' = FileOf(u)
    /\ UNCHANGED <<phase, todo, resume>>

(* The sets of pieces that p may have.                                      *)
HaveOf(p) == left["have"][p]

(* connection_made: the handshake is complete.                              *)
Connect(p) ==
    /\ Running /\ ~s.d[p].on /\ p \notin s.banned /\ HaveOf(p) # {}
    /\ IF p \in Seeds THEN UNCHANGED left ELSE Spend("connect")
    /\ Handles({[s EXCEPT !.d[p] = NewDownload, !.dls = Append(@, p), !.exc = FALSE]})

On(p) == Running /\ s.d[p].on
Clear == [s EXCEPT !.exc = FALSE]
Heard(p) == [s EXCEPT !.exc = FALSE, !.d[p].any = TRUE]

Drop(p) ==
    /\ On(p) /\ Spend("drop")
    /\ Handles(Disconnected(Clear, p))

(* The task of _kick_peer.                                                  *)
Kick(p) ==
    /\ On(p) /\ p \in s.kick
    /\ Handles(Disconnected(Clear, p))
    /\ UNCHANGED left

(* got_message.  A bitfield only comes first: otherwise the connection is   *)
(* closed.                                                                  *)
Bitfield(p, H) ==
    /\ On(p) /\ ~s.d[p].any /\ H \in HaveOf(p)
    /\ Handles(GotBitfield(Heard(p), p, H))
    /\ UNCHANGED left

LateBitfield(p) ==
    /\ On(p) /\ s.d[p].any /\ p \notin Seeds /\ Spend("late")
    /\ Handles(Disconnected(Clear, p))

Have(p, i) ==
    /\ On(p) /\ i \notin s.d[p].have /\ s.d[p].have \cup {i} \in HaveOf(p) /\ p \notin Seeds
    /\ Handles(GotHave(Heard(p), p, i))
    /\ UNCHANGED left

Unchoke(p) ==
    /\ On(p) /\ s.d[p].choked /\ UNION HaveOf(p) # {} /\ (p \in Seeds => s.d[p].any)
    /\ Handles(GotUnchoke(Heard(p), p))
    /\ UNCHANGED left

(* The peer forgets the requests that it has not answered.                  *)
Choke(p) ==
    /\ On(p) /\ ~s.d[p].choked /\ Spend("choke")
    /\ Handles({[u EXCEPT !.d[p].asked = {}] : u \in GotChoke(Heard(p), p)})

Data(p, i, b) == {Right(i, b)} \cup (IF p \in Liars /\ left["lie"] > 0 THEN {Wrong(i, b)} ELSE {})

SendPiece(p, r, v) ==
    /\ On(p) /\ r \in s.d[p].asked /\ ~s.d[p].choked /\ v \in Data(p, r[1], r[2])
    /\ left' = IF v = Right(r[1], r[2]) THEN left ELSE [left EXCEPT !["lie"] = @ - 1]
    /\ Handles(GotPiece([Heard(p) EXCEPT !.d[p].asked = @ \ {r}], p, r[1], r[2], v))

(* _bgsync                                                                  *)
BgSync ==
    /\ Running /\ s.t.queue # <<>> /\ Spend("sync")
    /\ Handles({[Clear EXCEPT !.t = Sync(@)]})

-----------------------------------------------------------------------------
DiskFails ==
    /\ phase \in {"checking", "running"} /\ s.t.io /\ Spend("disk")
    /\ s' = [s EXCEPT !.t.io = FALSE]
    /\ UNCHANGED <<phase, todo, resume, file>>

(* The end of a session: shutdown after doneflag is set, by closing Armory  *)
(* or by an error.  An I/O error has left the lock of Storage taken, so     *)
(* that writing the rest of the buffer waits for ever.                      *)
Ended(t) == [NewSwarm([t EXCEPT !.io = TRUE, !.done = FALSE, !.buf = Empty, !.queue = <<>>])
                EXCEPT !.fin = s.fin, !.final = s.final]

Stop ==
    /\ phase \in {"checking", "running"}
    /\ IF s.t.done THEN UNCHANGED left ELSE Spend("stop")
    /\ IF s.t.done /\ s.t.queue # <<>>
       THEN phase' = "hung" /\ UNCHANGED <<s, resume, todo>>
       ELSE /\ phase' = "off" /\ todo' = <<>>
            /\ resume' = (phase = "running" /\ ~s.t.done /\ s.t.io)
            /\ s' = Ended(Sync(s.t))
    /\ UNCHANGED file

(* The process is killed: what was not written is lost, and of what was,    *)
(* the slots of gone and those from cut on.                                 *)
Crash(gone, cut) ==
    /\ phase # "off" /\ file = "partial" /\ Spend("crash")
    /\ LET disk == [i \in Piece |-> IF i \in gone \cup From(cut) THEN Nothing ELSE s.t.disk[i]]
       IN  s' = [NewSwarm(NewStorage(disk, s.t.holes \cup From(cut))) EXCEPT !.fin = s.fin]
    /\ phase' = "off" /\ todo' = <<>> /\ resume' = FALSE
    /\ UNCHANGED file

Message(p) ==
    \/ \E H \in SUBSET Piece : Bitfield(p, H)
    \/ \E i \in Piece : Have(p, i)
    \/ LateBitfield(p) \/ Unchoke(p) \/ Choke(p)
    \/ \E r \in s.d[p].asked : SendPiece(p, r, Right(r[1], r[2])) \/ SendPiece(p, r, Wrong(r[1], r[2]))

Next ==
    \/ Start \/ CheckNext \/ StartEngine \/ BgSync \/ DiskFails \/ Stop
    \/ \E p \in Peer : Connect(p) \/ Drop(p) \/ Kick(p) \/ Message(p)
    \/ \E gone \in SUBSET Piece, cut \in 0 .. N : Crash(gone, cut)

(* The program goes on with its sessions, the torrent thread is not starved *)
(* and the seeds come back and answer.                                      *)
Serves(p) ==
    Connect(p) \/ Bitfield(p, Piece) \/ Unchoke(p) \/ \E r \in s.d[p].asked : SendPiece(p, r, Right(r[1], r[2]))

CanServe(p) ==
    /\ Running /\ HaveOf(p) # {}
    /\ \/ ~s.d[p].on /\ p \notin s.banned
       \/ s.d[p].on /\ ((~s.d[p].any /\ Piece \in HaveOf(p)) \/ (s.d[p].any /\ s.d[p].choked)
                           \/ (~s.d[p].choked /\ s.d[p].asked # {}))

Fairness ==
    /\ WF_tvars(Start) /\ WF_tvars(CheckNext) /\ WF_tvars(StartEngine)
    /\ []<>~(s.t.done /\ phase \in {"checking", "running"}) \/ []<><<Stop>>_tvars
    /\ \A p \in Seeds : []<>~CanServe(p) \/ []<><<Serves(p)>>_tvars

Spec == Init /\ [][Next]_tvars /\ Fairness

-----------------------------------------------------------------------------
(* A piece that is announced as ours is in the file, with the right data:   *)
(* no move, flush, crash or resumption loses it (piece_came_in,             *)
(* _clear_space, hashcheckfunc, unpickle).                                  *)
HaveIsOnDisk == \A i \in s.t.have : i \in DOMAIN s.t.places /\ HashOK(s.t, s.t.places[i], i)

(* Every chunk that is missing is waiting to be requested, was requested    *)
(* from one peer (in the endgame: is in all_requests) or has arrived, and   *)
(* the amounts that decide about the endgame and the end agree with this:   *)
(* no chunk is forgotten when peers choke or leave.                         *)
Requested(i) ==
    {r \in (IF s.end THEN s.allreq ELSE ActOf(s)) : r[1] = i}
ChunksAccounted ==
    Running =>
      /\ \A i \in Piece \ s.t.have :
            LET a == {r[2] : r \in Requested(i)}
                g == IF i \in DOMAIN s.t.dirty THEN s.t.dirty[i] ELSE {}
                w == s.t.inactive[i]
            IN  /\ a \cup g \cup w = Chunk(i)
                /\ a \cap g = {} /\ a \cap w = {} /\ g \cap w = {}
                /\ s.t.active[i] = Cardinality(a)
      /\ s.t.inact = SumOver([i \in Piece |-> Cardinality(s.t.inactive[i])], Piece)
      /\ s.t.left = Total - SumOver(Size, s.t.have)

(* The assertions of the engine hold, except that the last peer may take    *)
(* its requests back twice when it leaves in the endgame (_letgo after      *)
(* _reset_endgame).                                                         *)
AssertionsHold == s.t.wrong \subseteq {"lost twice"}

(* The picker counts what the connected peers have: a peer that becomes a   *)
(* seed, or leaves, is counted as what it was (became_seed, lost_have).     *)
PickerCounts ==
    phase = "running" =>
      LET P == ToSet(s.dls)
          seeds == {p \in P : s.d[p].have = Piece}
      IN  /\ s.seeds = Cardinality(seeds)
          /\ \A i \in Piece : s.nh[i] = Cardinality({p \in P \ seeds : i \in s.d[p].have})
          /\ s.has = s.t.have

(* The file that finishedFunc moves to its final name is complete and in    *)
(* order.                                                                   *)
FinalIsWhole == file = "final" => \A i \in Piece, b \in Slot : b \in Chunk(i) => s.final[i][b] = Right(i, b)

(* The layout is that of Placement.  Without resume data, or after a disk   *)
(* error, a session begins anew.                                            *)
Anew == (phase = "off" /\ ~resume) \/ s.t.done
OwnerOf(i) == {p \in DOMAIN s.t.places : s.t.places[p] = i}
DataOf(i) ==
    LET own == IF Anew THEN {} ELSE OwnerOf(i)
        found == {p \in Piece : HashOK(s.t, i, p)}
    IN  IF \E p \in own : p \notin s.t.have \/ p \in found THEN CHOOSE p \in own : TRUE
        ELSE IF found # {} THEN CHOOSE p \in found : TRUE ELSE N

P == INSTANCE Placement WITH
         places <- IF Anew THEN Empty ELSE s.t.places,
         holes <- s.t.holes,
         unchecked <- IF Anew THEN Present(s.t) ELSE ToSet(todo),
         data <- [i \in Piece |-> DataOf(i)]


(* What is announced as ours and what is handed over at the end is the data *)
(* of the torrent.                                                          *)
DataIsRight == HaveIsOnDisk /\ FinalIsWhole

(* Only a peer that sent wrong data is blamed, however its chunks are mixed *)
(* with those of others (download_history, failed_pieces); except for the   *)
(* pieces an earlier session began, whose first senders are not known.      *)
NoInnocentBlamed == \A p \in Peer \ Liars : s.bad[p] \subseteq s.old

(* A peer that has something to ask for is asked for it, or told that we    *)
(* are interested while it chokes us.                                       *)
NobodyIdle ==
    Running /\ ~s.end =>
      \A p \in ToSet(s.dls) : Wanted(s, p) # {} /\ (s.d[p].have # Piece \/ p \in Seeds) =>
          s.d[p].int /\ (~s.d[p].choked => s.d[p].act # {})

(* Chunks, picker and assertions: the books of the engine agree with each   *)
(* other and with what the peers have and did.                              *)
Bookkeeping ==
    ChunksAccounted /\ PickerCounts /\ AssertionsHold /\ NoInnocentBlamed /\ NobodyIdle

=============================================================================
