---------------------------- MODULE PeerClient ----------------------------
(***************************************************************************)
(* The connection to the local Bitcoin node, as a calculation: what        *)
(* ArmoryClient does with the bytes it has (armoryengine/Networking.py).   *)
(*                                                                         *)
(* A message is a record [cmd, arg].  On the wire it is two pieces, so     *)
(* that a read may end inside a message.  The commands told apart are      *)
(*    version, verack, inv, tx, alert   the ones the client acts upon,     *)
(*    quiet     one it can read and ignores (ping, addr, block, reject),   *)
(*    unknown   one that has no entry in PayloadMap,                       *)
(*    foreign   one whose first four bytes are another network's.          *)
(***************************************************************************)
EXTENDS Integers, Sequences, FiniteSets, FiniteSetsExt, Folds, Functions

Message(cmd, arg) == [cmd |-> cmd, arg |-> arg]

\* PyMessage.serialize: a message as it travels
Pieces(m) == << [msg |-> m, last |-> FALSE], [msg |-> m, last |-> TRUE] >>

\* ArmoryClient.__init__
ArmoryClient == [recvData |-> <<>>, gotVerack |-> FALSE, sentVerack |-> FALSE,
                 alerts |-> {}]

\* PyMessage.unserialize, until the buffer holds no whole message any more:
\* the messages read and what stays in the buffer.  A message of another
\* network is taken off and ends the reading.  One that is not in PayloadMap
\* ends the reading too, and stays at the front of the buffer.  In both cases
\* the method returns, and the messages read before it are dropped.
Unserialize(buf) ==
  LET whole == Len(buf) \div 2
      At(i) == buf[2 * i].msg
      Bad   == {i \in 1..whole : At(i).cmd \in {"unknown", "foreign"}}
      First == CHOOSE i \in Bad : \A j \in Bad : i <= j
      taken == IF Bad = {} THEN whole
               ELSE IF At(First).cmd = "foreign" THEN First ELSE First - 1
  IN  [msgs |-> IF Bad = {} THEN [i \in 1..whole |-> At(i)] ELSE <<>>,
       rest |-> SubSeq(buf, 2 * taken + 1, Len(buf))]

\* each message read is turned back into bytes and read again when its turn
\* comes: PayloadTx has one PyTx as its default argument, so that the objects
\* of two transaction messages are the same transaction, the later one
Copies_Shared(msgs) ==
  LET txs  == {i \in DOMAIN msgs : msgs[i].cmd = "tx"}
      Late == CHOOSE i \in txs : \A j \in txs : j <= i
  IN  [i \in DOMAIN msgs |-> IF i \in txs THEN msgs[Late] ELSE msgs[i]]

Copies(msgs) == [i \in DOMAIN msgs |-> Message(msgs[i].cmd, msgs[i].arg)]

\* what handling messages has led to: the client, the messages it wrote, the
\* transactions it passed to the window, and whether the handshake finished
Outcome(c) == [client |-> c, wrote |-> <<>>, newTx |-> <<>>, finished |-> FALSE]

\* the items of an inventory that are asked for: a block unless a scan is
\* running or its header is known, a transaction if the block data is ready
Wanted(items, bdmState, known) ==
  {i \in items : \/ i.type = "block" /\ bdmState # "Scanning" /\ i.id \notin known
                 \/ i.type = "tx" /\ bdmState = "BlockChainReady"}

\* ArmoryClient.processMessage
processMessage(o, m, bdmState, known) ==
  CASE m.cmd = "inv" /\ bdmState # "Scanning" ->
         [o EXCEPT !.wrote = Append(@, Message("getdata",
                                               Wanted(m.arg, bdmState, known)))]
    [] m.cmd = "tx"    -> [o EXCEPT !.newTx = Append(@, m.arg)]
    [] m.cmd = "alert" -> [o EXCEPT !.client.alerts = @ \cup {m.arg}]
    [] OTHER           -> o

\* one message in the loop of dataReceived
Handle(o, m, bdmState, known) ==
  LET greeted == m.cmd = "version" /\ ~o.client.sentVerack
      o1 == IF greeted THEN [o EXCEPT !.client.sentVerack = TRUE,
                                      !.wrote = Append(@, Message("verack", {}))]
            ELSE IF m.cmd = "verack" THEN [o EXCEPT !.client.gotVerack = TRUE,
                                                    !.finished = TRUE]
            ELSE o
  IN  IF o1.client.gotVerack /\ o1.client.sentVerack
      THEN processMessage(o1, m, bdmState, known)
      ELSE o1

\* ArmoryClient.dataReceived: `data' arrives
dataReceived(c, data, bdmState, known) ==
  LET got == Unserialize(c.recvData \o data)
  IN  MapThenFoldSet(LAMBDA m, o : Handle(o, m, bdmState, known),
                     Outcome([c EXCEPT !.recvData = got.rest]),
                     LAMBDA i : Copies(got.msgs)[i], Max, DOMAIN got.msgs)
=============================================================================
