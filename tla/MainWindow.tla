---------------------------- MODULE MainWindow ----------------------------
(***************************************************************************)
(* The main window between its four partners (ArmoryQt.py): the local      *)
(* Bitcoin node at the other end of a reconnecting socket, the block data  *)
(* thread that calls back into Python, the side scans of new addresses,    *)
(* and the user.                                                           *)
(*                                                                         *)
(* The window runs on one thread: the reactor's, which also handles the    *)
(* Qt signals.  What the block data thread has to say is a signal in a     *)
(* queue.  A modal question keeps one handler waiting and lets the others  *)
(* run (Qt runs a nested event loop), so what a handler of a refresh has   *)
(* still to do is kept on a stack, gui.todo: a frame holds the wallet, the *)
(* actions left of it, what the first of them has found, and the ids of    *)
(* the refresh that are left.  The database is not a supernode's.          *)
(*                                                                         *)
(* A scenario `w' fixes what the environment does:                         *)
(*    up       whether the node is running at the start                    *)
(*    says     what the node says of itself, in this order                 *)
(*    pool     the transactions the node has at the start                  *)
(*    takes    the transactions of the user that the node accepts          *)
(*    own      the transactions that the user sends                        *)
(*    mine     the transactions that concern a wallet                      *)
(*    asks     the side scans the user asks for: [id, wlt, sweep, tx,      *)
(*             coins], an address to sweep or a new lockbox                *)
(*    links    how many payment links the user clicks on                   *)
(*    blocks   how many blocks arrive                                      *)
(*    cuts     whether a read may end in the middle of what has arrived    *)
(*    reports  whether side scans tell how far they are                    *)
(*    drops    how often the connection is lost                            *)
(*    closes   how often the user asks the program to quit                 *)
(***************************************************************************)
EXTENDS PeerClient

CONSTANT Worlds

VARIABLES
  w,        \* the scenario
  node,     \* bitcoind: is it running, its pool, what is under way to it and
            \* from it, how much it has said; what it answered and whether it
            \* said anything odd on this connection
  link,     \* the socket, the protocol object on it, factory.proto
  net,      \* netMode, NetworkingFactory and the status text
  bdm,      \* TheBDM and its thread
  scan,     \* the side scans: waiting, running, ended but not merged, merged
            \* (done); refreshIDSet_; whether a refresh has overtaken a merge
  signals,  \* the notifications on their way to the window
  wallets,  \* for each wallet and lockbox isEnabled, actionsToTakeAfterScan
  gui,      \* the window
  timers,   \* reactor.callLater
  drops     \* connections lost so far

vars == <<w, node, link, net, bdm, scan, signals, wallets, gui, timers, drops>>

Ids == {w.asks[i].wlt : i \in DOMAIN w.asks}

\* a link is a number: the first one clicked is 1
InitWindow ==
  /\ w \in Worlds
  /\ node = [up |-> w.up, pool |-> w.pool, in |-> <<>>, out |-> <<>>, said |-> 0,
             answered |-> {}, odd |-> FALSE]
  /\ link = [up |-> FALSE, client |-> ArmoryClient, proto |-> "none"]
  /\ net = [mode |-> "Offline", factory |-> "none", label |-> -1]
  /\ bdm = [state |-> "Uninitialized", thread |-> "none", run |-> FALSE, top |-> 0,
            zc |-> {}, seen |-> {}, listeners |-> <<"cppNotifySignal">>]
  /\ scan = [waiting |-> <<>>, running |-> <<>>, told |-> FALSE, ended |-> {}, done |-> {},
             refreshIDs |-> {}, overtaken |-> FALSE]
  /\ signals = <<>>
  /\ wallets = [i \in Ids |-> [isEnabled |-> TRUE, actions |-> <<>>]]
  /\ gui = [needUpdateAfterScan |-> TRUE, delayed |-> <<>>, clicks |-> 0,
            opened |-> <<>>, notifyQueue |-> <<>>, shown |-> <<>>, asked |-> 0,
            todo |-> <<>>, swept |-> <<>>, sent |-> {}, raised |-> {}, sideScan |-> {},
            lost |-> {}, dropped |-> {}, stuck |-> {}, loading |-> FALSE,
            warned |-> {}, closes |-> 0, exited |-> FALSE]
  /\ timers = {}
  /\ drops = 0

-----------------------------------------------------------------------------
(* The socket and the node *)

\* the window's thread still runs
Alive == ~gui.exited

\* ReconnectingClientFactory connects; ArmoryClient.connectionMade greets the
\* node, and showOnlineMsg says that the program is connected
showOnlineMsg(height) == net' = [net EXCEPT !.mode = "Full", !.label = height]

connectionMade ==
  /\ Alive
  /\ net.factory = "ArmoryClientFactory"
  /\ node.up /\ ~link.up
  /\ link' = [link EXCEPT !.up = TRUE, !.client = ArmoryClient]
  /\ node' = [node EXCEPT !.in = <<Message("version", {})>>, !.out = <<>>,
                          !.answered = {}, !.odd = FALSE]
  /\ showOnlineMsg(bdm.top)
  /\ UNCHANGED <<w, bdm, scan, signals, wallets, gui, timers, drops>>

showOfflineMsg_KeepsStatus == net' = [net EXCEPT !.mode = "Disconnected"]

showOfflineMsg == net' = [net EXCEPT !.mode = "Disconnected", !.label = -1]

\* clientConnectionLost and showOfflineMsg: the factory keeps the protocol
\* object of the connection that is gone.  The node may have stopped.
clientConnectionLost ==
  /\ Alive /\ link.up
  /\ drops < w.drops
  /\ drops' = drops + 1
  /\ \E up \in BOOLEAN :
       node' = [node EXCEPT !.up = up, !.in = <<>>, !.out = <<>>]
  /\ link' = [link EXCEPT !.up = FALSE,
                          !.proto = IF @ = "live" THEN "stale" ELSE @]
  /\ showOfflineMsg
  /\ UNCHANGED <<w, bdm, scan, signals, wallets, gui, timers>>

\* the node is started again
nodeStarts ==
  /\ ~node.up
  /\ node' = [node EXCEPT !.up = TRUE]
  /\ UNCHANGED <<w, link, net, bdm, scan, signals, wallets, gui, timers, drops>>

Flat(msgs) ==
  MapThenFoldSet(LAMBDA s, all : all \o s, <<>>, LAMBDA i : Pieces(msgs[i]), Max, DOMAIN msgs)

InSomeOrder(S) == Injection(1..Cardinality(S), S)

\* what the node sends back for a message: its own greeting, a transaction it
\* was asked for, or that it has no such thing (a message of a newer protocol)
Reply(m, pool) ==
  CASE m.cmd = "version" -> <<Message("version", {}), Message("verack", {})>>
    [] m.cmd = "getdata" ->
         LET has == {i.id : i \in {j \in m.arg : j.id \in pool}}
         IN  [i \in 1..Cardinality(has) |-> Message("tx", (CHOOSE s \in InSomeOrder(has) : TRUE)[i])]
               \o IF \E i \in m.arg : i.type = "tx" /\ i.id \notin pool
                  THEN <<Message("unknown", {})>> ELSE <<>>
    [] m.cmd = "tx" /\ m.arg \notin w.takes -> <<Message("quiet", {})>>
    [] OTHER -> <<>>

nodeReads ==
  /\ link.up /\ node.in # <<>>
  /\ LET m    == Head(node.in)
         pool == IF m.cmd = "tx" THEN node.pool \cup ({m.arg} \cap w.takes) ELSE node.pool
         back == Reply(m, node.pool)
     IN  node' = [node EXCEPT !.in = Tail(@), !.pool = pool, !.out = @ \o Flat(back),
                    !.answered = @ \cup {b.arg : b \in {c \in Range(back) : c.cmd = "tx"}},
                    !.odd = @ \/ \E b \in Range(back) : b.cmd = "unknown"]
  /\ UNCHANGED <<w, link, net, bdm, scan, signals, wallets, gui, timers, drops>>

\* the node has something to say of its own
nodeSays ==
  /\ link.up /\ link.client.gotVerack
  /\ node.said < Len(w.says)
  /\ LET m == w.says[node.said + 1]
     IN  node' = [node EXCEPT !.said = @ + 1, !.out = @ \o Pieces(m),
                              !.odd = @ \/ m.cmd \in {"unknown", "foreign"}]
  /\ UNCHANGED <<w, link, net, bdm, scan, signals, wallets, gui, timers, drops>>

\* ArmoryMainWindow.newTxFunc, for the transactions of one read.  (doShutdown
\* is only set where the state becomes one that is refused already.)
newTxFunc(txs) ==
  bdm' = IF bdm.state \in {"Offline", "Uninitialized"} THEN bdm
         ELSE [bdm EXCEPT !.zc = @ \cup Range(txs)]

\* ArmoryClient.dataReceived: n pieces arrive.  A transaction is asked for
\* even if it was seen before; factory.handshakeFinished keeps the protocol.
clientReads(n) ==
  LET o == dataReceived(link.client, SubSeq(node.out, 1, n), bdm.state, {})
  IN  /\ Alive /\ link.up
      /\ n <= Len(node.out) /\ (w.cuts \/ n = Len(node.out))
      /\ link' = [link EXCEPT !.client = o.client,
                              !.proto = IF o.finished THEN "live" ELSE @]
      /\ node' = [node EXCEPT !.out = SubSeq(@, n + 1, Len(@)), !.in = @ \o o.wrote]
      /\ newTxFunc(o.newTx)
      /\ UNCHANGED <<w, net, scan, signals, wallets, gui, timers, drops>>

\* NetworkingFactory.sendTx and sendMessage: the factory that stands for no
\* connection does nothing, the real one has no protocol object before the
\* first handshake and raises, and a socket that is closed drops what is written
Raises == net.factory = "ArmoryClientFactory" /\ link.proto = "none"

Written(m) ==
  IF net.factory = "ArmoryClientFactory" /\ link.proto = "live"
  THEN Append(node.in, m) ELSE node.in

-----------------------------------------------------------------------------
(* Sending a transaction *)

\* ArmoryMainWindow.broadcastTransaction: the transaction is sent now, asked
\* for after three seconds and looked up after fifteen
Timers(t) == {<<"getdata", t>>, <<"check", t>>}

broadcast_QuietWhenLost(t) ==
  IF Raises THEN gui' = [gui EXCEPT !.raised = @ \cup {t}] /\ UNCHANGED <<node, timers>>
  ELSE /\ node' = [node EXCEPT !.in = Written(Message("tx", t))]
       /\ gui' = [gui EXCEPT !.sent = @ \cup {t}]
       /\ timers' = IF link.up THEN timers \cup Timers(t) ELSE timers

broadcast(t) ==
  IF Raises THEN gui' = [gui EXCEPT !.raised = @ \cup {t}] /\ UNCHANGED <<node, timers>>
  ELSE /\ node' = [node EXCEPT !.in = Written(Message("tx", t))]
       /\ gui' = [gui EXCEPT !.sent = @ \cup {t}]
       /\ timers' = timers \cup Timers(t)

\* no question is open, so that the user can do something else
NoQuestion == gui.todo = <<>> /\ ~gui.loading

\* the user presses Send in one of the dialogs, once the balances are known
broadcastTransaction(t) ==
  /\ Alive /\ NoQuestion
  /\ bdm.state = "BlockChainReady"
  /\ t \in w.own \ (gui.sent \cup gui.raised)
  /\ broadcast(t)
  /\ UNCHANGED <<w, link, net, bdm, scan, signals, wallets, drops>>

\* sendGetDataMsg
sendGetDataMsg(t) ==
  /\ Alive /\ <<"getdata", t>> \in timers
  /\ timers' = timers \ {<<"getdata", t>>}
  /\ node' = [node EXCEPT !.in = Written(Message("getdata", {[type |-> "tx", id |-> t]}))]
  /\ UNCHANGED <<w, link, net, bdm, scan, signals, wallets, gui, drops>>

\* checkForTxInBDM; after the block data thread is gone it raises
checkForTxInBDM(t) ==
  /\ Alive /\ <<"check", t>> \in timers /\ <<"getdata", t>> \notin timers
  /\ timers' = timers \ {<<"check", t>>}
  /\ gui' = IF t \notin bdm.seen /\ bdm.thread # "done"
            THEN [gui EXCEPT !.warned = @ \cup {t}] ELSE gui
  /\ UNCHANGED <<w, node, link, net, bdm, scan, signals, wallets, drops>>

-----------------------------------------------------------------------------
(* The block data thread (BDM_mainthread.cpp) and its callbacks (BDM.py) *)

\* PySide_CallBack.run: every listener is called, in the order of the list
\* that it may change.  Of the three, cppNotifySignal queues the notification,
\* actuallyDoExitNow waits for "stopped" and stops the reactor, and
\* BDMshutdownCallback takes itself off the list at "stopped", so that the one
\* after it moves into its place and is passed over.
Called(action) ==
  LET ls == bdm.listeners
      Passed(i) == action = "stopped" /\ i > 1 /\ ls[i - 1] = "BDMshutdownCallback"
  IN  {ls[i] : i \in {j \in DOMAIN ls : ~Passed(j)}}

\* a notification that only cppNotifySignal listens to
Notify(action, arg) ==
  signals' = Append(signals, [action |-> action, arg |-> arg])

\* BDMAction_Ready: the initial load has ended.  Whether it is to stop the
\* thread asks itself later, so that a program that closes is "ready" again.
bdmReady ==
  /\ bdm.thread = "load"
  /\ bdm' = [bdm EXCEPT !.thread = "loop", !.state = "BlockChainReady", !.top = @ + 1]
  /\ Notify("FinishLoadBlockchain", <<>>)
  /\ UNCHANGED <<w, node, link, net, scan, wallets, gui, timers, drops>>

\* BDMAction_ZC: the transactions that are new, and those of them that
\* concern a wallet
bdmZeroConf ==
  /\ bdm.thread = "loop" /\ bdm.zc # {}
  /\ bdm' = [bdm EXCEPT !.zc = {}, !.seen = @ \cup bdm.zc]
  /\ IF bdm.zc \subseteq bdm.seen THEN UNCHANGED signals
     ELSE Notify("newZC", CHOOSE s \in InSomeOrder((bdm.zc \ bdm.seen) \cap w.mine) : TRUE)
  /\ UNCHANGED <<w, node, link, net, scan, wallets, gui, timers, drops>>

\* BDMAction_NewBlock
bdmNewBlock ==
  /\ bdm.thread = "loop" /\ bdm.top <= w.blocks
  /\ bdm' = [bdm EXCEPT !.top = @ + 1]
  /\ Notify("newBlock", <<>>)
  /\ UNCHANGED <<w, node, link, net, scan, wallets, gui, timers, drops>>

\* ScrAddrFilter::checkForMerge, at the top of the loop: the addresses of the
\* side scans that have ended become known
checkForMerge ==
  /\ bdm.thread = "loop" /\ scan.ended # {}
  /\ scan' = [scan EXCEPT !.done = @ \cup scan.ended, !.ended = {}, !.overtaken = FALSE]
  /\ UNCHANGED <<w, node, link, net, bdm, signals, wallets, gui, timers, drops>>

\* BDMAction_StartedWalletScan: a side scan begins, after checkForMerge
bdmSideScan ==
  /\ bdm.thread = "loop" /\ ~scan.overtaken
  /\ scan.running = <<>> /\ scan.waiting # <<>>
  /\ scan' = [scan EXCEPT !.waiting = Tail(@), !.running = <<Head(scan.waiting)>>,
                          !.told = FALSE]
  /\ Notify("StartedWalletScan", <<Head(scan.waiting).wlt>>)
  /\ UNCHANGED <<w, node, link, net, bdm, wallets, gui, timers, drops>>

\* the side scan tells how far it is
bdmProgress ==
  /\ w.reports /\ scan.running # <<>> /\ ~scan.told
  /\ scan' = [scan EXCEPT !.told = TRUE]
  /\ Notify("progress", <<scan.running[1].wlt>>)
  /\ UNCHANGED <<w, node, link, net, bdm, wallets, gui, timers, drops>>

\* ScrAddrFilter::scanScrAddrThread ends: its addresses are to be merged, and
\* its wallet asks to be refreshed
sideScanEnds ==
  /\ scan.running # <<>>
  /\ scan' = [scan EXCEPT !.running = <<>>, !.ended = @ \cup {scan.running[1].id},
                          !.refreshIDs = @ \cup {scan.running[1].wlt}]
  /\ UNCHANGED <<w, node, link, net, bdm, signals, wallets, gui, timers, drops>>

\* BDMAction_Refresh: the ids that were collected, in the order of a set.  In
\* the pass of the loop in which a scan ends, this may come before its merge.
bdmRefresh ==
  /\ bdm.thread = "loop" /\ ~scan.overtaken
  /\ scan.refreshIDs # {}
  /\ scan' = [scan EXCEPT !.refreshIDs = {}, !.overtaken = scan.ended # {}]
  /\ \E ids \in InSomeOrder(scan.refreshIDs) : Notify("refresh", ids)
  /\ UNCHANGED <<w, node, link, net, bdm, wallets, gui, timers, drops>>

\* BDMAction_Exited: the thread sees that it is to stop.  (Of what
\* cppNotifySignal makes of it the window does nothing.)
bdmExited ==
  /\ bdm.thread \in {"load", "loop"} /\ ~bdm.run
  /\ bdm' = [bdm EXCEPT !.thread = "done",
               !.listeners = SelectSeq(@, LAMBDA l : l # "BDMshutdownCallback")]
  /\ gui' = [gui EXCEPT !.exited = "actuallyDoExitNow" \in Called("stopped")]
  /\ UNCHANGED <<w, node, link, net, scan, signals, wallets, timers, drops>>

-----------------------------------------------------------------------------
(* The window's own thread *)

\* loadBlockchainIfNecessary, switchNetworkMode and TheBDM.goOnline: at the
\* start, and when the user presses Go Online
loadBlockchainIfNecessary ==
  /\ Alive
  /\ bdm.thread = "none" /\ gui.closes = 0
  /\ IF node.up /\ ~w.offline
     THEN /\ net' = [net EXCEPT !.mode = "Full", !.factory = "ArmoryClientFactory"]
          /\ bdm' = [bdm EXCEPT !.state = "Scanning", !.thread = "load", !.run = TRUE]
     ELSE net' = [net EXCEPT !.mode = "Offline", !.factory = "FakeClientFactory"]
          /\ UNCHANGED bdm
  /\ UNCHANGED <<w, node, link, scan, signals, wallets, gui, timers, drops>>

\* uriLinkClicked
openOrDelay(g, u) ==
  IF bdm.state = "BlockChainReady" THEN [g EXCEPT !.opened = Append(@, u)]
  ELSE [g EXCEPT !.delayed = Append(@, u)]

uriLinkClicked ==
  /\ Alive /\ gui.clicks < w.links
  /\ bdm.state # "Offline"
  /\ gui' = [openOrDelay(gui, gui.clicks + 1) EXCEPT !.clicks = @ + 1]
  /\ UNCHANGED <<w, node, link, net, bdm, scan, signals, wallets, timers, drops>>

\* finishLoadBlockchainGUI feeds the links that had to wait to the parser
\* again, the last one first
delayedLinks(g) ==
  MapThenFoldSet(LAMBDA u, h : openOrDelay(h, u), [g EXCEPT !.delayed = <<>>],
                 LAMBDA i : g.delayed[i], Min, DOMAIN g.delayed)

linksOpened(g) == [delayedLinks(g) EXCEPT !.needUpdateAfterScan = FALSE, !.loading = FALSE]

\* finishLoadBlockchainGUI: the status line, and then, unless the user has
\* said otherwise, a message that has to be read before the rest
finishLoadBlockchainGUI ==
  LET n == [net EXCEPT !.label = IF net.mode = "Full" THEN bdm.top ELSE @]
  IN  /\ \/ ~gui.needUpdateAfterScan /\ UNCHANGED <<gui, net>>
         \/ gui.needUpdateAfterScan /\ gui' = [gui EXCEPT !.loading = TRUE] /\ net' = n
         \/ /\ gui.needUpdateAfterScan
            /\ gui' = linksOpened(gui)
            /\ net' = [n EXCEPT !.mode = "Full"]
      /\ UNCHANGED wallets

blockchainLoaded ==
  /\ Alive /\ gui.loading /\ gui.todo = <<>>
  /\ gui' = linksOpened(gui)
  /\ net' = [net EXCEPT !.mode = "Full"]
  /\ UNCHANGED <<w, node, link, bdm, scan, signals, wallets, timers, drops>>

\* checkNewZeroConf: each of them gets into the queue of notifications
checkNewZeroConf(txs) ==
  /\ gui' = [gui EXCEPT !.notifyQueue =
               @ \o [i \in DOMAIN txs |-> [tx |-> txs[i], alreadyNotified |-> FALSE]]]
  /\ UNCHANGED <<net, wallets>>

newBlock ==
  /\ net' = [net EXCEPT !.label = IF net.mode = "Full" THEN bdm.top ELSE @]
  /\ UNCHANGED <<gui, wallets>>

\* PyBtcWallet.doAfterScan takes the list and starts a new one, before it
\* begins with the first action
doAfterScan_KeepsList(wlt) == [wlt EXCEPT !.isEnabled = TRUE]

doAfterScan(wlt) == [wlt EXCEPT !.isEnabled = TRUE, !.actions = <<>>]

\* The ids of a refresh one after another, up to the first wallet that has
\* something to do; walletSideScanProgress forgets a wallet that is through.
refreshed(g, ws, ids) ==
  LET busy == {k \in DOMAIN ids : ws[ids[k]].actions # <<>>}
      n    == IF busy = {} THEN Len(ids) ELSE Min(busy)
      seen == {ids[k] : k \in 1..n}
      idle == {ids[k] : k \in (1..n) \ busy}
  IN  [gui     |-> [g EXCEPT !.sideScan = @ \ idle, !.stuck = @ \ idle, !.dropped = @ \ seen,
                      !.todo = IF busy = {} THEN @
                               ELSE <<[wlt |-> ids[n], acts |-> ws[ids[n]].actions, found |-> "?",
                                       rest |-> SubSeq(ids, n + 1, Len(ids))]>> \o @],
       wallets |-> [i \in DOMAIN ws |-> IF i \in seen THEN doAfterScan(ws[i]) ELSE ws[i]]]

refresh(ids) ==
  /\ gui' = refreshed(gui, wallets, ids).gui
  /\ wallets' = refreshed(gui, wallets, ids).wallets
  /\ UNCHANGED net

\* disableWalletUI
startedScan(ids) ==
  /\ wallets' = [i \in DOMAIN wallets |->
                   IF i \in Range(ids) THEN [wallets[i] EXCEPT !.isEnabled = FALSE] ELSE wallets[i]]
  /\ gui' = [gui EXCEPT !.sideScan = @ \cup Range(ids)]
  /\ UNCHANGED net

progress(ids) ==
  /\ gui' = [gui EXCEPT !.sideScan = @ \cup Range(ids)]
  /\ UNCHANGED <<net, wallets>>

handleCppNotification ==
  /\ Alive /\ signals # <<>>
  /\ LET s == Head(signals)
     IN  CASE s.action = "FinishLoadBlockchain" -> finishLoadBlockchainGUI
           [] s.action = "newZC"                -> checkNewZeroConf(s.arg)
           [] s.action = "newBlock"             -> newBlock
           [] s.action = "refresh"              -> refresh(s.arg)
           [] s.action = "StartedWalletScan"    -> startedScan(s.arg)
           [] s.action = "progress"             -> progress(s.arg)
  /\ signals' = Tail(signals)
  /\ UNCHANGED <<w, node, link, bdm, scan, timers, drops>>

\* doTheSystemTrayThing: the first notification that was not shown yet
marked(q, i) == [q EXCEPT ![i].alreadyNotified = TRUE]

doTheSystemTrayThing ==
  LET fresh == {i \in DOMAIN gui.notifyQueue : ~gui.notifyQueue[i].alreadyNotified}
  IN  IF bdm.state # "BlockChainReady" \/ fresh = {} THEN UNCHANGED gui
      ELSE LET i == CHOOSE k \in fresh : \A j \in fresh : k <= j
           IN  gui' = [gui EXCEPT !.notifyQueue = marked(@, i),
                                  !.shown = Append(@, gui.notifyQueue[i].tx)]

\* Heartbeat.  When the node can be reached, the mode is "Full" again before
\* the connection is.
Heartbeat ==
  /\ Alive
  /\ IF bdm.state \in {"Offline", "Uninitialized"} THEN UNCHANGED <<net, gui>>
     ELSE /\ net' = IF net.mode = "Disconnected" /\ node.up
                    THEN [net EXCEPT !.mode = "Full", !.factory = "ArmoryClientFactory"]
                    ELSE net
          /\ doTheSystemTrayThing
  /\ UNCHANGED <<w, node, link, bdm, scan, signals, wallets, timers, drops>>

\* PyBtcWallet.sweepAddressList, or the registration of a new lockbox
pending(actions, a) == Append(actions, a)

sweepAddressList ==
  /\ Alive /\ NoQuestion
  /\ bdm.state = "BlockChainReady" /\ gui.asked < Len(w.asks)
  /\ LET a == w.asks[gui.asked + 1]
     IN  /\ wallets' = IF a.sweep
                       THEN [wallets EXCEPT ![a.wlt].actions = pending(@, a)]
                       ELSE wallets
         /\ scan' = [scan EXCEPT !.waiting = Append(@, a)]
  /\ gui' = [gui EXCEPT !.asked = @ + 1]
  /\ UNCHANGED <<w, node, link, net, bdm, signals, timers, drops>>

\* A handler that raises ends there: with it the actions of its wallet, which
\* are no longer listed, and the ids of the refresh that are left.
raises(g) ==
  LET f == g.todo[1]
  IN  [g EXCEPT !.todo = Tail(@), !.stuck = @ \cup {f.wlt},
                !.lost = @ \cup {a.id : a \in Range(f.acts)}, !.dropped = @ \cup Range(f.rest)]

\* finishSweepScan, until it shows a question or a message: it finds what the
\* database has of the address.  One that is not known yet makes it raise.  A
\* handler that was begun later is finished first: its event loop runs inside
\* the other's.
createSweepAddrTx ==
  /\ Alive /\ gui.todo # <<>>
  /\ gui.todo[1].found = "?"
  /\ LET a == gui.todo[1].acts[1]
     IN  \/ /\ bdm.state = "BlockChainReady" /\ a.id \notin scan.done
            /\ gui' = raises(gui)
         \/ /\ bdm.state = "BlockChainReady" => a.id \in scan.done
            /\ gui' = [gui EXCEPT !.todo[1].found =
                          IF bdm.state = "BlockChainReady" /\ a.coins THEN "tx" ELSE "nothing"]
  /\ UNCHANGED <<w, node, link, net, bdm, scan, signals, wallets, timers, drops>>

\* the handler goes on with its next action, or with the next id, or ends
nextAction(g) ==
  LET f == g.todo[1]
      h == [g EXCEPT !.swept = Append(@, f.acts[1].id)]
  IN  IF Len(f.acts) > 1
      THEN [gui |-> [h EXCEPT !.todo[1].acts = Tail(@), !.todo[1].found = "?"], wallets |-> wallets]
      ELSE refreshed([h EXCEPT !.todo = Tail(@), !.sideScan = @ \ {f.wlt}, !.stuck = @ \ {f.wlt}],
                     wallets, f.rest)

\* PyBtcWallet.finishSweepScan: the address is not scanned for any longer, and
\* removeAddressBulk asks for a refresh
forgets(a) ==
  scan' = [scan EXCEPT !.done = @ \ {a.id}, !.refreshIDs = @ \cup {a.wlt}]

\* finishSweepScan, after the user has answered: with nothing to sweep it
\* returns.  Otherwise the address is forgotten, whether the transaction is
\* sent or not, unless sending raises.
finishSweepScan ==
  /\ Alive /\ gui.todo # <<>>
  /\ LET a == gui.todo[1].acts[1]
         o == gui.todo[1].found
         next == nextAction(gui)
     IN  \/ /\ o = "nothing"
            /\ gui' = next.gui /\ wallets' = next.wallets
            /\ UNCHANGED <<scan, node, timers>>
         \/ /\ o = "tx"
            /\ gui' = next.gui /\ wallets' = next.wallets
            /\ forgets(a)
            /\ UNCHANGED <<node, timers>>
         \/ /\ o = "tx" /\ ~Raises
            /\ gui' = [next.gui EXCEPT !.sent = @ \cup {a.tx}] /\ wallets' = next.wallets
            /\ node' = [node EXCEPT !.in = Written(Message("tx", a.tx))]
            /\ timers' = timers \cup Timers(a.tx)
            /\ forgets(a)
         \/ /\ o = "tx" /\ Raises
            /\ gui' = [raises(gui) EXCEPT !.raised = @ \cup {a.tx}]
            /\ UNCHANGED <<scan, node, wallets, timers>>
  /\ UNCHANGED <<w, link, net, bdm, signals, drops>>

\* closeForReal and TheBDM.beginCleanShutdown: actuallyDoExitNow listens to
\* the block data thread before BDMshutdownCallback does
exitListeners == <<"actuallyDoExitNow", "BDMshutdownCallback">>

closeForReal ==
  /\ Alive /\ gui.closes < w.closes
  /\ IF bdm.state \in {"Offline", "Uninitialized"}
     THEN /\ gui' = [gui EXCEPT !.closes = @ + 1, !.exited = TRUE]
          /\ UNCHANGED bdm
     ELSE /\ gui' = [gui EXCEPT !.closes = @ + 1]
          /\ bdm' = [bdm EXCEPT !.listeners = @ \o exitListeners,
                       !.state = "Uninitialized", !.run = FALSE]
  /\ UNCHANGED <<w, node, link, net, scan, signals, wallets, timers, drops>>

-----------------------------------------------------------------------------
\* the window's thread, but for its Heartbeat
WindowSteps ==
  \/ connectionMade \/ clientConnectionLost
  \/ \E n \in 1..Len(node.out) : clientReads(n)
  \/ \E t \in w.own : broadcastTransaction(t)
  \/ loadBlockchainIfNecessary \/ uriLinkClicked \/ handleCppNotification
  \/ blockchainLoaded \/ sweepAddressList \/ createSweepAddrTx \/ finishSweepScan \/ closeForReal
  \/ \E t \in gui.sent : sendGetDataMsg(t) \/ checkForTxInBDM(t)

\* the node and the block data thread
OtherSteps ==
  \/ nodeStarts \/ nodeReads \/ nodeSays
  \/ bdmReady \/ bdmZeroConf \/ bdmNewBlock \/ bdmSideScan \/ bdmProgress
  \/ checkForMerge \/ sideScanEnds \/ bdmRefresh \/ bdmExited

-----------------------------------------------------------------------------
Asks == {a \in UNION {Range(x.asks) : x \in Worlds} : a.sweep}
Txs  == UNION {x.pool \cup x.own : x \in Worlds} \cup {a.tx : a \in Asks}

\* A transaction that the node has sent in answer on this connection is still
\* under way, or lies in the client's buffer, or was given to the block data
\* thread: however the bytes are cut into reads and however many messages one
\* read holds (dataReceived).  The node has said nothing the client cannot
\* read, and the program is not closing.
Holds(pieces, t) == \E i \in DOMAIN pieces : pieces[i].msg = Message("tx", t)

NothingLost ==
  link.up /\ ~node.odd /\ gui.closes = 0 =>
    \A t \in node.answered :
      Holds(node.out, t) \/ Holds(link.client.recvData, t) \/ t \in bdm.zc \cup bdm.seen

\* Unless the program is being closed, the status line that says "Connected"
\* gives the height of the chain, as long as no notification of a block is on
\* its way: connections made and lost, the Heartbeat that switches the mode,
\* and blocks leave no old height behind.
StatusUpToDate ==
  net.label >= 0 =>
    \/ net.label = bdm.top
    \/ \E i \in DOMAIN signals : signals[i].action \in {"newBlock", "FinishLoadBlockchain"}

\* Notifications of transactions are shown in the order in which they were
\* received, and none is shown twice (doTheSystemTrayThing).
TrayInOrder ==
  \A i \in DOMAIN gui.shown :
    i \in DOMAIN gui.notifyQueue /\ gui.shown[i] = gui.notifyQueue[i].tx

\* A wallet or lockbox that the user cannot use is being scanned, or the
\* notification that ends it is on its way, or the handler of that has still to
\* come to it.  The same holds of one that is shown as being scanned, but for
\* the time in which the actions after its scan are carried out.  Neither is
\* left so for good, unless the handler of its refresh has raised before it was
\* through (handleCppNotification, REFRESH_ACTION).
UnderScan(i) ==
  \/ \E k \in DOMAIN scan.running : scan.running[k].wlt = i
  \/ i \in scan.refreshIDs
  \/ \E k \in DOMAIN signals : signals[k].action = "refresh" /\ i \in Range(signals[k].arg)
  \/ \E k \in DOMAIN gui.todo : i \in Range(gui.todo[k].rest)

NoneLeftDisabled ==
  \A i \in Ids :
    /\ ~wallets[i].isEnabled => UnderScan(i) \/ i \in gui.dropped
    /\ i \in gui.sideScan => \/ UnderScan(i) \/ i \in gui.dropped \cup gui.stuck
                             \/ \E k \in DOMAIN gui.todo : gui.todo[k].wlt = i

\* A sweep is offered to the user at most once, even when another scan ends
\* while the user is looking at a question (doAfterScan).
SweptOnce == \A i, j \in DOMAIN gui.swept : gui.swept[i] = gui.swept[j] => i = j

\* Once the window has dealt with the end of the load, no link that was
\* clicked before is waiting, and each click has opened one dialog.
LinksOpened ==
  ~gui.needUpdateAfterScan /\ gui.closes = 0 =>
    /\ gui.delayed = <<>>
    /\ Range(gui.opened) = 1..gui.clicks /\ Len(gui.opened) = gui.clicks

\* A transaction that was sent is in the end seen by the block data thread, or
\* the user is warned, whatever happens to the connection; unless the program
\* is closed (broadcastTransaction, checkForTxInBDM).
BroadcastAnswered ==
  \A t \in Txs :
    t \in gui.sent ~> t \in bdm.seen \cup gui.warned \/ gui.closes > 0

\* Each sweep that the user asked for is in the end offered to them, after the
\* scan of its own address; unless the program is closed, or a handler raised
\* with the sweep still to do, or with the refresh of its wallet.
SweepAnswered ==
  \A a \in Asks :
    (\E k \in 1..gui.asked : w.asks[k] = a) ~>
       \/ a.id \in Range(gui.swept) \cup gui.lost
       \/ a.wlt \in gui.dropped \/ gui.closes > 0

\* The program that is closed ends, whatever the block data thread is doing:
\* the listeners are called in an order in which none is passed over.
CloseEnds == gui.closes > 0 ~> gui.exited

\* Whatever the user asks for is answered: a transaction to send, a sweep, the
\* end of the program.
UserAnswered == BroadcastAnswered /\ SweepAnswered /\ CloseEnds

\* The window shows how things are, although every notification reaches it later
\* than what it is about: height, wallets under scan, the tray, links.
WindowIsCurrent == StatusUpToDate /\ NoneLeftDisabled /\ TrayInOrder /\ LinksOpened

=============================================================================
