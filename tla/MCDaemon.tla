------------------------------ MODULE MCDaemon ------------------------------
EXTENDS Daemon, TLC

Machine == [installed |-> TRUE, guardian |-> TRUE, torrent |-> FALSE, others |-> FALSE, other |-> FALSE,
            inconsistent |-> FALSE, crashes |-> FALSE, breaks |-> FALSE, file |-> "none", starts |-> 2]

MCWorlds ==
    {[Machine EXCEPT !.crashes = TRUE], [Machine EXCEPT !.crashes = TRUE, !.guardian = FALSE, !.starts = 1]}
    \cup {[Machine EXCEPT !.crashes = TRUE, !.inconsistent = TRUE, !.starts = 1]}
    \cup {[Machine EXCEPT !.installed = i, !.others = TRUE] : i \in BOOLEAN}
    \cup {[Machine EXCEPT !.torrent = TRUE, !.breaks = TRUE, !.file = f, !.starts = 1] :
              f \in {"none", "whole", "full"}}
    \cup {[Machine EXCEPT !.torrent = TRUE, !.inconsistent = TRUE, !.file = "partial", !.starts = 1],
          [Machine EXCEPT !.torrent = TRUE, !.others = TRUE, !.file = "partial", !.starts = 1],
          [Machine EXCEPT !.torrent = TRUE, !.others = TRUE, !.file = "whole"]}
=============================================================================
