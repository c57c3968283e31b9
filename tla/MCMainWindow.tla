--------------------------- MODULE MCMainWindow ---------------------------
(***************************************************************************)
(* Scenarios for the program: what the node says and takes, what the user  *)
(* does, how often the connection is lost; and what is announced.          *)
(***************************************************************************)
EXTENDS MainThread

Quiet == [up |-> TRUE, offline |-> FALSE, says |-> <<>>, pool |-> {}, takes |-> {}, own |-> {}, mine |-> {},
          asks |-> <<>>, links |-> 0, blocks |-> 0, cuts |-> TRUE, reports |-> FALSE, drops |-> 0, closes |-> 0]

Offline == [Quiet EXCEPT !.offline = TRUE]

Inv(txs) == Message("inv", {[type |-> "tx", id |-> t] : t \in txs})

Sweep(id, wlt, tx, coins) ==
  [id |-> id, wlt |-> wlt, sweep |-> TRUE, tx |-> tx, coins |-> coins]

Box(id) == [id |-> id, wlt |-> id, sweep |-> FALSE, tx |-> "t1", coins |-> FALSE]

\* two transactions of the user, of which the node takes one or both
Sending ==
  {[Quiet EXCEPT !.own = {"t1", "t2"}, !.takes = ts, !.mine = {"t1", "t2"}]
     : ts \in {{"t1"}, {"t1", "t2"}}}

\* the connection is lost while a transaction is sent
Losing ==
  {[Quiet EXCEPT !.own = {"t1"}, !.takes = {"t1"}, !.drops = 2],
   [Quiet EXCEPT !.own = {"t1"}, !.takes = {"t1"}, !.drops = 1, !.blocks = 1]}

\* the node has transactions, and says other things as well
Hearing ==
  {[Quiet EXCEPT !.pool = {"t1", "t2"}, !.mine = {"t1", "t2"}, !.says = says]
     : says \in {<<Inv({"t1", "t2"}), Message("quiet", {})>>,
                 <<Inv({"t1"}), Message("alert", "a"), Inv({"t1", "t2"})>>,
                 <<Message("foreign", {}), Inv({"t1"}), Message("unknown", {})>>,
                 <<Message("inv", {[type |-> "block", id |-> "b"]})>>}}

\* two sweeps of one wallet or of two, or a new lockbox and a sweep
Sweeping ==
  {[Quiet EXCEPT !.cuts = FALSE, !.asks = <<Sweep("a1", "A", "t1", TRUE), Sweep("a2", "A", "t2", FALSE)>>],
   [Quiet EXCEPT !.cuts = FALSE, !.asks = <<Sweep("a1", "A", "t1", TRUE), Sweep("b1", "B", "t2", TRUE)>>],
   [Quiet EXCEPT !.cuts = FALSE, !.asks = <<Box("L"), Sweep("b1", "B", "t2", TRUE)>>,
                 !.reports = TRUE]}

\* links, blocks, and the user who quits
Closing ==
  {[Quiet EXCEPT !.cuts = FALSE, !.links = 3, !.blocks = 1, !.closes = 2],
   [Quiet EXCEPT !.up = FALSE, !.links = 1, !.closes = 1],
   [Quiet EXCEPT !.blocks = 1, !.drops = 1, !.closes = 1],
   [Quiet EXCEPT !.asks = <<Sweep("a1", "A", "t1", TRUE)>>, !.closes = 1]}

MCWorlds == {Offline} \cup Sending \cup Losing \cup Hearing \cup Sweeping \cup Closing

-----------------------------------------------------------------------------
None == [downloads |-> 0, notify |-> 0]
One  == [downloads |-> 1, notify |-> 1]

Note(id, priority, start) == [id |-> id, priority |-> priority, start |-> start]

Silent == [on |-> FALSE, publish |-> <<>>, disk |-> None, notes |-> <<{}, {}>>,
           upgrade |-> <<{}, {}>>, faults |-> 0, starts |-> 1, forces |-> 0,
           gets |-> 0, later |-> FALSE]

\* files change while they are fetched, back to what they were in one case, and
\* a fetch or a write fails or is forced
Publishing ==
  {[Silent EXCEPT !.on = TRUE, !.disk = One, !.publish = <<[One EXCEPT !.notify = 2], One>>,
      !.notes = << {Note("n1", 1, 0)}, {} >>, !.faults = 1],
   [Silent EXCEPT !.on = TRUE, !.disk = [One EXCEPT !.notify = 0],
      !.publish = <<One, [One EXCEPT !.notify = 2]>>],
   [Silent EXCEPT !.on = TRUE, !.publish = <<One>>, !.forces = 1]}

\* the program is started again, between or within two writes
Restarting ==
  {[Silent EXCEPT !.on = TRUE, !.publish = <<One>>, !.starts = 2,
      !.notes = << {Note("n1", 1, 0)}, {} >>]}

\* there is something to tell
Notifying ==
  {[Silent EXCEPT !.on = TRUE, !.disk = One, !.starts = 2, !.later = TRUE,
      !.publish = <<[One EXCEPT !.notify = 2]>>,
      !.notes = << {Note("n1", 3, 0), Note("n2", 4, 1)},
                   {Note("n1", 3, 0), Note("n3", 2, 0)} >>,
      !.upgrade = << {Note("u1", 3, 0)}, {} >>]}

\* the user downloads a program
Downloading ==
  {[Silent EXCEPT !.on = TRUE, !.disk = One, !.faults = 1, !.gets = 2]}

MCAdWorlds == {Silent} \cup Publishing \cup Restarting
              \cup Notifying \cup Downloading

MCSettings == (MCWorlds \X {Silent}) \cup ({Offline} \X (MCAdWorlds \ {Silent}))
=============================================================================
