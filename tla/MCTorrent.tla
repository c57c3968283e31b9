----------------------------- MODULE MCTorrent ------------------------------
EXTENDS Torrent
MCSize == [i \in 0 .. N - 1 |-> IF i = N - 1 THEN 1 ELSE 2]

(* What the seeds, the liars and the other peers have.                      *)
Peers(seeds, liars, others) ==
    [p \in Peer |-> IF p \in Seeds THEN seeds ELSE IF p \in Liars THEN liars ELSE others]
Nobody == Peers({Piece}, {}, {})
ALiar  == Peers({Piece}, SUBSET Piece, {})
Three  == Peers({{}}, {Piece}, {{}})

Base == [start |-> 1, slots |-> 0, connect |-> 0, drop |-> 0, late |-> 0, choke |-> 0, lie |-> 0, sync |-> 0,
         disk |-> 0, stop |-> 0, crash |-> 0, have |-> Nobody]
MCLimits ==
    {[Base EXCEPT !.connect = 1, !.drop = 1, !.lie = 1, !.have = ALiar],
     [Base EXCEPT !.connect = 1, !.choke = 1, !.late = 1, !.have = ALiar],
     [Base EXCEPT !.slots = N, !.stop = 1, !.crash = 1, !.start = 3, !.drop = 1],
     [Base EXCEPT !.slots = N, !.disk = 1, !.start = 2, !.sync = 1],
     [Base EXCEPT !.connect = 2, !.lie = 2, !.have = Three]}
=============================================================================
