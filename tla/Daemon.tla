------------------------------- MODULE Daemon -------------------------------
(***************************************************************************)
(* How Armory runs bitcoind for the user: SatoshiDaemonManager (SDM.py),   *)
(* the torrent that fetches the bootstrap file (torrentDL.py), the process *)
(* that watches over both (guardian.py), and the part of the main window   *)
(* that starts, watches and stops them (ArmoryQt.py).                      *)
(*                                                                         *)
(* The main window, the polling threads, the query threads, the torrent    *)
(* threads, the thread that repairs wallets, the one that stops bitcoind   *)
(* at the end, every bitcoind and every guardian take turns.               *)
(***************************************************************************)
EXTENDS Integers, Sequences, FiniteSets, SequencesExt, FiniteSetsExt

CONSTANTS MaxStarts,    \* how often bitcoind is started from the main window
          MaxLaunches,  \* how many processes that makes: a download launches up to three
          Worlds        \* the machines it runs on: is bitcoind installed, is guardian.py
                        \* there, is there a torrent, may the user open a Bitcoin-Qt, is a
                        \* wallet inconsistent, does a bitcoind crash, may a download
                        \* break; what is left of an earlier download, how many starts

Start   == 1 .. MaxStarts          \* each start has a poller and may have a download
Process == 1 .. MaxLaunches

VARIABLES armory,       \* "up", "closing" or "gone"
          env,          \* the machine, and whether a Bitcoin-Qt is open (other)
          offline,      \* CLI_OPTIONS.offline
          sdm,          \* the fields of SatoshiDaemonManager
          tdm,          \* the fields of TorrentDownloadManager
          file,         \* bootstrap.dat: "none", "partial", "whole" (all there, still
                        \* named .partial) or "full"
          dl,           \* the download thread of a start
          bitcoind,     \* the processes launched
          why,          \* what an ended process wrote on stderr
          guardian,     \* the guardian of a process
          query,        \* the thread that asks for the top block
          polling,      \* the starts whose polling thread is alive
          signals,      \* proceedOnceBitcoindIsReady calls in the event queue
          bdm,          \* "uninit", "scanning" or "stopping"
          bdmThreads,   \* how often the thread of the block data manager was started
          ui,           \* where the main window is: pc, again, starts,
                        \* button, lastSDMState
          fixer,        \* checkRdyForFix
          stopper,      \* shutdownBitcoindThread
          mishaps       \* races that have happened: failedFunc ran after the download had
                        \* reported already ("failed_late"), executeModeSwitch started
                        \* bitcoind twice ("started_twice"), the button was pressed during
                        \* a download ("download_restarted") or while bitcoind ran
                        \* ("pressed_early"), a download ended without a report
                        \* ("stalled"), a poller saw BitcoindReady before any bitcoind was
                        \* synchronized ("stale_ready"), a second bitcoind was launched
                        \* before the guardian of the first ("overtaken")

vars == <<armory, env, offline, sdm, tdm, file, dl, bitcoind, why, guardian, query,
          polling, signals, bdm, bdmThreads, ui, fixer, stopper, mishaps>>

rest    == <<armory, env, offline>>
procs   == <<bitcoind, why, guardian>>
torrent == <<tdm, file, dl>>
asking  == <<query, polling, signals>>
online  == <<bdm, bdmThreads>>
enders  == <<fixer, stopper>>

-----------------------------------------------------------------------------
(* bitcoind.  A second process on the same data directory finds the lock    *)
(* taken ("locked") and ends.                                               *)

Alive   == {"locked", "init", "open", "synced", "stopping"}
Holding == Alive \ {"locked"}
Listens == {"open", "synced"}

Running(d)         == bitcoind[d] \in Alive
isRunningBitcoind  == sdm.handle # 0 /\ Running(sdm.handle)
satoshiIsAvailable == env.other \/ \E d \in Process : bitcoind[d] \in Listens
LockTaken          == env.other \/ \E d \in Process : bitcoind[d] \in Holding

bitcoindIsResponsive == satoshiIsAvailable

(* A thread launches bitcoind, then its guardian; the handle of an earlier  *)
(* process is overwritten.  A download thread goes on at After.             *)
After     == [guard_ended |-> "ended", guard_after |-> "after", guard_leave |-> "leave"]
Launching == ui.pc = "guard" \/ \E n \in Start : dl[n] \in DOMAIN After

launchBitcoindAndGuardian(s) ==
    LET d == CHOOSE d \in Process : bitcoind[d] = "none" /\ \A e \in 1 .. d - 1 : bitcoind[e] # "none"
    IN  /\ bitcoind' = [bitcoind EXCEPT ![d] = IF LockTaken THEN "locked" ELSE "init"]
        /\ sdm' = [s EXCEPT !.handle = d, !.btcdpid = d]

Overtaking == IF Launching THEN {"overtaken"} ELSE {}

(* The guardian is told to watch the process launched last, btcdpid.        *)
LaunchGuardian ==
    guardian' = [guardian EXCEPT ![sdm.btcdpid] = IF env.guardian /\ @ = "none" THEN "watch" ELSE @]

-----------------------------------------------------------------------------
(* TorrentDownloadManager                                                   *)

isStarted  == tdm.started
isFinished == tdm.finished \/ tdm.failed
isRunning  == isStarted /\ ~isFinished

getTDMState ==
    CASE ~tdm.set   -> "Uninitialized"
      [] ~isStarted -> "ReadyToStart"
      [] tdm.failed -> "DownloadFailed"
      [] isFinished -> "DownloadFinished"
      [] OTHER      -> "Downloading"

setupTorrent(t) == [t EXCEPT !.set = TRUE, !.started = FALSE, !.finished = FALSE, !.failed = FALSE]

Downloading == \E n \in Start : dl[n] \in {"begun", "listen"}

shouldTryBootstrapTorrent == file # "full"

-----------------------------------------------------------------------------
NewSDM == [disabled |-> FALSE, failedFindExe |-> FALSE, handle |-> 0, btcdpid |-> 0, out |-> "unread",
           info |-> "Uninitialized", proxy |-> FALSE, isMidQuery |-> FALSE, queries |-> 0,
           circBufferState |-> {}]
NewTDM == [set |-> FALSE, started |-> FALSE, finished |-> FALSE, failed |-> FALSE, done |-> FALSE]
NewUI  == [pc |-> "boot", again |-> FALSE, starts |-> 0, button |-> FALSE, lastSDMState |-> "none"]

(* The memory of the process is lost with the process.                      *)
Gone ==
    /\ armory' = "gone" /\ offline' = FALSE
    /\ sdm' = NewSDM /\ tdm' = NewTDM /\ ui' = NewUI
    /\ dl' = [n \in Start |-> "idle"] /\ query' = "idle" /\ polling' = {} /\ signals' = 0
    /\ bdm' = "uninit" /\ bdmThreads' = 0 /\ fixer' = "idle" /\ stopper' = "idle"

(* The state that SatoshiDaemonManager reports.  s is the manager after     *)
(* isRunningBitcoind has read the output of an ended process.               *)

ReadOutput(s) ==
    IF s.handle # 0 /\ ~Running(s.handle) /\ s.out = "unread" THEN [s EXCEPT !.out = why[s.handle]] ELSE s

getSDMStateLogic(s) ==
    CASE s.disabled -> "BitcoindMgmtDisabled"
      [] s.failedFindExe -> "BitcoindExeMissing"
      [] isRunning -> "TorrentSynchronizing"
      [] s.handle = 0 /\ s.info = "Uninitialized" -> "BitcoindNeverStarted"
      [] ~isRunningBitcoind /\ s.out = "lock" -> "BitcoindAlreadyRunning"
      [] ~isRunningBitcoind /\ s.out = "error" -> "BitcoindUnknownCrash"
      [] ~isRunningBitcoind -> "BitcoindNotAvailable"
      [] ~bitcoindIsResponsive -> "BitcoindInitializing"
      [] s.info = "ValueError" -> "BitcoindWrongPassword"
      [] s.info = "JsonRpcException" -> "BitcoindInitializing"
      [] s.info = "SocketError" -> "BitcoindNotAvailable"
      [] "BitcoindReady" \in s.circBufferState -> "BitcoindReady"
      [] s.info = "synced" -> "BitcoindReady"
      [] OTHER -> "BitcoindSynchronizing"

(* Asking for the state asks for the top block, in a thread: the flag       *)
(* isMidQuery is only set once that thread runs.                            *)
Asks(s) == ~s.disabled /\ ~s.failedFindExe /\ ~isRunning /\ isRunningBitcoind /\ ~s.isMidQuery
updateTopBlockInfo(s) == IF Asks(s) /\ query = "idle" THEN "begun" ELSE query

(* getSDMState remembers what it saw for five seconds and hides a short     *)
(* BitcoindNotAvailable after BitcoindInitializing.                         *)
Remember(s, old) ==
    [s EXCEPT !.circBufferState = (IF old THEN {} ELSE @) \cup
        ({getSDMStateLogic(s)} \cap {"BitcoindReady", "BitcoindInitializing"})]
getSDMState(s) ==
    LET state == getSDMStateLogic(s)
    IN  IF state = "BitcoindNotAvailable" /\ "BitcoindInitializing" \in s.circBufferState
        THEN "BitcoindInitializing" ELSE state
-----------------------------------------------------------------------------
(* The main window.  setDashboardDetails shows the button "Check Again" or  *)
(* "Go Online!"; nothing refreshes it while bitcoind's state changes.       *)

Dashboard(s, state) ==
    /\ ui' = [ui EXCEPT !.pc = "idle", !.lastSDMState = state, !.button =
          IF state # "BitcoindReady"
          THEN IF state = ui.lastSDMState THEN @
               ELSE /\ ~offline /\ ~isRunningBitcoind /\ ~isRunning
                    /\ satoshiIsAvailable \/ state \in {"BitcoindAlreadyRunning", "BitcoindExeMissing"}
          ELSE bdm = "uninit" /\ satoshiIsAvailable]
    /\ query' = updateTopBlockInfo(s)
    /\ \E old \in BOOLEAN : sdm' = Remember(s, old)

setDashboardDetails ==
    /\ ui.pc = "refresh" /\ armory = "up"
    /\ Dashboard(ReadOutput(sdm), getSDMState(ReadOutput(sdm)))
    /\ UNCHANGED <<polling, signals, rest, torrent, procs, online, enders, mishaps>>

MayStart == armory = "up" /\ ~offline /\ ~satoshiIsAvailable

(* Where the main window goes after it has started bitcoind, or failed to.  *)
(* executeModeSwitch calls startBitcoindIfNecessary twice ("again") when it *)
(* closed the Bitcoin-Qt that was in the way of a first installation.       *)
Return == [ui EXCEPT !.pc = IF ui.again THEN "boot" ELSE "refresh", !.again = FALSE]

(* startBitcoindIfNecessary, up to setupSDM, which forgets the process that *)
(* was launched before.  Without an executable it raises.                   *)
startBitcoindIfNecessary ==
    LET s == [ReadOutput(sdm) EXCEPT !.disabled = FALSE, !.failedFindExe = ~env.installed]
    IN  IF ~MayStart
        THEN ui' = Return /\ UNCHANGED <<tdm, sdm>>
        ELSE /\ tdm' = IF env.torrent /\ shouldTryBootstrapTorrent THEN setupTorrent(tdm) ELSE tdm
             /\ IF ~env.installed
                THEN sdm' = s /\ ui' = Return
                ELSE /\ sdm' = [s EXCEPT !.handle = 0, !.proxy = FALSE, !.isMidQuery = FALSE, !.queries = 0]
                     /\ ui' = [ui EXCEPT !.pc = "start", !.starts = @ + 1]

StartUp ==
    /\ ui.pc = "boot" /\ armory = "up"
    /\ startBitcoindIfNecessary
    /\ UNCHANGED <<file, dl, rest, procs, asking, online, enders, mishaps>>

(* startBitcoind: another thread may have disabled the manager, or launched *)
(* bitcoind, since setupSDM.                                                *)
startBitcoind ==
    LET s == [ReadOutput(sdm) EXCEPT !.out = "unread"]
        n == ui.starts
    IN  /\ ui.pc = "start" /\ armory = "up"
        /\ \/ /\ sdm.disabled \/ isRunningBitcoind \/ getTDMState = "Downloading"
              /\ sdm' = s /\ ui' = Return
              /\ UNCHANGED <<bitcoind, dl, polling, mishaps>>
           \/ /\ ~(sdm.disabled \/ isRunningBitcoind \/ getTDMState = "Downloading")
              /\ IF getTDMState = "ReadyToStart" /\ env.torrent /\ shouldTryBootstrapTorrent
                 THEN /\ dl' = [dl EXCEPT ![n] = "begun"] /\ sdm' = s /\ ui' = Return
                      /\ polling' = polling \cup {n}
                      /\ UNCHANGED <<bitcoind, mishaps>>
                 ELSE /\ launchBitcoindAndGuardian(s)
                      /\ ui' = [ui EXCEPT !.pc = "guard"]
                      /\ mishaps' = mishaps \cup Overtaking
                      /\ UNCHANGED <<dl, polling>>
        /\ UNCHANGED <<tdm, file, why, guardian, query, signals, rest, online, enders>>

(* Without guardian.py this raises, and nothing polls the bitcoind that was *)
(* launched.                                                                *)
StartGuardian ==
    /\ ui.pc = "guard" /\ armory = "up"
    /\ LaunchGuardian
    /\ polling' = IF env.guardian THEN polling \cup {ui.starts} ELSE polling
    /\ ui' = Return
    /\ UNCHANGED <<sdm, bitcoind, why, query, signals, rest, torrent, online, enders, mishaps>>

goOnline == bdm' = "scanning" /\ bdmThreads' = bdmThreads + 1

(* executeModeSwitch: the button starts bitcoind, or the block data         *)
(* manager; its first call of getSDMState is a Heartbeat step.  The user    *)
(* may let Armory close the Bitcoin-Qt that is in the way, or the bitcoind  *)
(* it finds.                                                                *)
closeExistingBitcoin ==
    /\ env' = [env EXCEPT !.other = FALSE]
    /\ bitcoind' = [d \in Process |->
          IF ~env.other /\ bitcoind[d] \in Listens THEN "exited" ELSE bitcoind[d]]
    /\ UNCHANGED why

executeModeSwitch ==
    LET state == getSDMState(ReadOutput(sdm))
        missing == state = "BitcoindExeMissing"
    IN  /\ ui.pc = "idle" /\ ui.button /\ armory = "up"
        /\ ui.starts + (IF missing THEN 2 ELSE 1) <= env.starts
        /\ mishaps' = mishaps \cup (IF missing /\ satoshiIsAvailable THEN {"started_twice"} ELSE {})
                              \cup (IF Downloading THEN {"download_restarted"} ELSE {})
                              \cup (IF isRunningBitcoind THEN {"pressed_early"} ELSE {})
        /\ \/ /\ ~isRunningBitcoind \/ missing
              /\ satoshiIsAvailable
              /\ closeExistingBitcoin
              /\ ui' = [ui EXCEPT !.pc = "boot", !.again = missing]
              /\ UNCHANGED <<tdm, sdm, online>>
           \/ /\ ~isRunningBitcoind \/ missing
              /\ missing \/ ~satoshiIsAvailable
              /\ startBitcoindIfNecessary
              /\ UNCHANGED <<env, bitcoind, why, online>>
           \/ /\ isRunningBitcoind /\ ~missing /\ bdm = "uninit"
              /\ goOnline
              /\ ui' = [ui EXCEPT !.pc = "refresh"]
              /\ UNCHANGED <<tdm, env, bitcoind, why, sdm>>
        /\ UNCHANGED <<armory, offline, file, dl, guardian, asking, enders>>

Heartbeat ==
    /\ ui.pc = "idle" /\ armory = "up"
    /\ query' = updateTopBlockInfo(ReadOutput(sdm))
    /\ \E old \in BOOLEAN : sdm' = Remember(ReadOutput(sdm), old)
    /\ UNCHANGED <<polling, signals, rest, torrent, procs, online, ui, enders, mishaps>>

Handled == signals - 1

(* The event queued by a poller: loadBlockchainIfNecessary does not look    *)
(* whether the block data manager was started already.                      *)
proceedOnceBitcoindIsReady ==
    /\ ui.pc = "idle" /\ armory \in {"up", "closing"} /\ signals > 0
    /\ signals' = Handled
    /\ IF ~offline /\ satoshiIsAvailable
       THEN goOnline
       ELSE UNCHANGED <<online>>
    /\ ui' = [ui EXCEPT !.pc = IF armory = "up" THEN "refresh" ELSE "idle"]
    /\ UNCHANGED <<query, polling, rest, sdm, torrent, procs, enders, mishaps>>

(* closeForReal: with the block data manager off, Armory leaves at once     *)
(* and the guardian ends bitcoind.                                          *)
closeForReal ==
    /\ armory = "up" /\ ui.pc = "idle"
    /\ IF bdm = "uninit"
       THEN Gone
       ELSE /\ armory' = "closing" /\ stopper' = "begun" /\ bdm' = "stopping"
            /\ UNCHANGED <<offline, tdm, dl, bdmThreads, fixer, sdm, asking, ui>>
    /\ UNCHANGED <<env, file, procs, mishaps>>

(* The block data manager reports that it stopped; actuallyDoExitNow joins  *)
(* the thread that stops bitcoind.                                          *)
actuallyDoExitNow ==
    /\ armory = "closing" /\ stopper = "done"
    /\ Gone
    /\ UNCHANGED <<env, file, procs, mishaps>>

-----------------------------------------------------------------------------
(* stopBitcoind, in the thread t: ask bitcoind to stop, wait two minutes.   *)
(* It gives up if there is no connection to bitcoind yet.                   *)

stopBitcoind_Ask(t, t1) ==
    LET s == ReadOutput(sdm)
    IN  /\ t = "begun"
        /\ sdm' = s
        /\ IF isRunningBitcoind /\ s.proxy /\ bitcoind[s.handle] \in Listens
           THEN t1 = "waiting" /\ bitcoind' = [bitcoind EXCEPT ![s.handle] = "stopping"]
           ELSE t1 = "done" /\ UNCHANGED bitcoind

\* Mutant: a bitcoind that does not end in two minutes is forgotten.
stopBitcoind_Wait_Forgets(t, t1) ==
    /\ t = "waiting" /\ t1 = "done"
    /\ sdm' = [sdm EXCEPT !.handle = 0]
    /\ UNCHANGED bitcoind

stopBitcoind_Wait(t, t1) ==
    /\ t = "waiting" /\ t1 = "done"
    /\ \/ sdm.handle # 0 /\ ~Running(sdm.handle) /\ sdm' = [sdm EXCEPT !.handle = 0]
       \/ UNCHANGED sdm
    /\ UNCHANGED bitcoind

stopBitcoind ==
    /\ armory = "closing"
    /\ \E t1 \in {"waiting", "done"} :
          /\ stopBitcoind_Ask(stopper, t1) \/ stopBitcoind_Wait(stopper, t1)
          /\ stopper' = t1
    /\ UNCHANGED <<why, guardian, fixer, rest, torrent, asking, online, ui, mishaps>>

(* checkRdyForFix, in a thread of its own, when a wallet is found to be     *)
(* inconsistent: setDisabled(True), and no way back to the network.         *)
checkRdyForFix ==
    /\ env.inconsistent /\ armory = "up" /\ fixer = "idle" /\ bdm = "uninit"
    /\ fixer' = IF getSDMState(ReadOutput(sdm)) \in
                    {"BitcoindInitializing", "BitcoindSynchronizing", "BitcoindReady"}
                THEN "begun" ELSE "done"
    /\ query' = updateTopBlockInfo(ReadOutput(sdm))
    /\ \E old \in BOOLEAN : sdm' = Remember(ReadOutput(sdm), old)
    /\ UNCHANGED <<polling, signals, stopper, rest, torrent, procs, online, ui, mishaps>>

FixerStops ==
    /\ armory \in {"up", "closing"}
    /\ \E t1 \in {"waiting", "done"} :
          /\ stopBitcoind_Ask(fixer, t1) \/ stopBitcoind_Wait(fixer, t1)
          /\ fixer' = t1
    /\ UNCHANGED <<why, guardian, stopper, rest, torrent, asking, online, ui, mishaps>>

setDisabled ==
    /\ armory \in {"up", "closing"} /\ fixer = "done"
    /\ fixer' = "off"
    /\ sdm' = [sdm EXCEPT !.disabled = TRUE]
    /\ offline' = TRUE
    /\ UNCHANGED <<armory, env, stopper, torrent, procs, asking, online, ui, mishaps>>

-----------------------------------------------------------------------------
(* The threads that poll the state and ask for the top block.               *)

Polled(n) == polling \ {n}

pollBitcoindState(n) ==
    LET s == ReadOutput(sdm)
    IN  /\ armory # "gone" /\ n \in polling
        /\ sdm' = s
        /\ query' = updateTopBlockInfo(s)
        /\ IF getSDMStateLogic(s) = "BitcoindReady"
           THEN /\ polling' = Polled(n) /\ signals' = signals + 1
                /\ mishaps' = mishaps \cup
                      (IF \A d \in Process : bitcoind[d] # "synced" THEN {"stale_ready"} ELSE {})
           ELSE UNCHANGED <<polling, signals, mishaps>>
        /\ UNCHANGED <<rest, torrent, procs, online, ui, enders>>

(* What bitcoind answers.  Before ten seconds have passed since setupSDM    *)
(* the speed is unknown and the answer never counts as synchronized.        *)
Answers ==
    (IF env.other THEN {"ValueError"} ELSE {})
    \cup (IF \E d \in Process : bitcoind[d] = "open" THEN {"behind", "JsonRpcException"} ELSE {})
    \cup (IF \E d \in Process : bitcoind[d] = "synced"
          THEN {IF sdm.queries = 0 THEN "behind" ELSE "synced"} ELSE {})
    \cup (IF satoshiIsAvailable THEN {} ELSE {"SocketError"})

backgroundRequestTopBlock ==
    /\ armory # "gone" /\ query = "begun"
    /\ query' \in Answers
    /\ sdm' = [sdm EXCEPT !.proxy = TRUE, !.isMidQuery = TRUE]
    /\ UNCHANGED <<polling, signals, rest, torrent, procs, online, ui, enders, mishaps>>

\* Mutant: isMidQuery stays set after an error.
Informed_StaysBusy(a) ==
    [sdm EXCEPT !.info = a, !.isMidQuery = a \notin {"behind", "synced"},
                !.queries = IF a \in {"behind", "synced"} THEN 1 ELSE @]
Informed(a) ==
    [sdm EXCEPT !.info = a, !.isMidQuery = FALSE,
                !.queries = IF a \in {"behind", "synced"} THEN 1 ELSE @]

TopBlockArrives ==
    /\ armory # "gone" /\ query \notin {"idle", "begun"}
    /\ query' = "idle"
    /\ sdm' = Informed(query)
    /\ UNCHANGED <<polling, signals, rest, torrent, procs, online, ui, enders, mishaps>>

-----------------------------------------------------------------------------
(* A download thread.  doTheDownloadThing leaves the manager "running" when *)
(* it returns early or when BitTornado set the done flag itself; otherwise  *)
(* failedFunc runs whenever listen_forever returns, after finishedFunc too. *)

failedFunc ==
    /\ tdm' = [tdm EXCEPT !.failed = TRUE]
    /\ launchBitcoindAndGuardian(sdm)
    /\ mishaps' = mishaps \cup (IF isFinished THEN {"failed_late"} ELSE {}) \cup Overtaking

DownloadBegins(n) ==
    /\ dl[n] = "begun"
    /\ \/ /\ tdm' = [tdm EXCEPT !.started = TRUE, !.failed = TRUE]
          /\ launchBitcoindAndGuardian(sdm)
          /\ mishaps' = mishaps \cup Overtaking
          /\ dl' = [dl EXCEPT ![n] = "guard_ended"]
          /\ UNCHANGED file
       \/ /\ tdm' = [tdm EXCEPT !.started = TRUE]
          /\ dl' = [dl EXCEPT ![n] = IF file = "whole" THEN "ended" ELSE "listen"]
          /\ file' = IF file = "none" THEN "partial" ELSE file
          /\ mishaps' = IF file = "whole" THEN mishaps \cup {"stalled"} ELSE mishaps
          /\ UNCHANGED <<bitcoind, sdm>>

DownloadFinished(n) ==
    /\ dl[n] = "listen" /\ ~tdm.done
    /\ file' = "full"
    /\ tdm' = [tdm EXCEPT !.finished = TRUE]
    /\ launchBitcoindAndGuardian(sdm)
    /\ dl' = [dl EXCEPT ![n] = "guard_after"]
    /\ mishaps' = mishaps \cup Overtaking

(* BitTornado's own failures set the done flag; others go to failedFunc, or *)
(* are counted until listen_forever gives up.                               *)
DownloadBreaks(n) ==
    /\ env.breaks /\ dl[n] \in {"listen", "after"}
    /\ \/ failedFunc /\ dl' = [dl EXCEPT ![n] = "guard_leave"]
       \/ /\ tdm' \in {tdm, [tdm EXCEPT !.done = TRUE]}
          /\ dl' = [dl EXCEPT ![n] = "leave"]
          /\ UNCHANGED <<bitcoind, sdm, mishaps>>
    /\ UNCHANGED file

DownloadLeaves(n) ==
    /\ dl[n] = "leave"
    /\ \/ /\ tdm.done
          /\ dl' = [dl EXCEPT ![n] = "ended"]
          /\ mishaps' = IF isFinished THEN mishaps ELSE mishaps \cup {"stalled"}
          /\ UNCHANGED <<tdm, bitcoind, sdm>>
       \/ ~tdm.done /\ failedFunc /\ dl' = [dl EXCEPT ![n] = "guard_ended"]
    /\ UNCHANGED file

doTheDownloadThing(n) ==
    /\ armory # "gone"
    /\ \/ /\ DownloadBegins(n) \/ DownloadFinished(n) \/ DownloadBreaks(n) \/ DownloadLeaves(n)
          /\ UNCHANGED guardian
       \/ /\ dl[n] \in DOMAIN After
          /\ LaunchGuardian
          /\ dl' = [dl EXCEPT ![n] = After[@]]
          /\ UNCHANGED <<tdm, file, bitcoind, sdm, mishaps>>
    /\ UNCHANGED <<why, rest, asking, online, ui, enders>>

-----------------------------------------------------------------------------
(* bitcoind itself, the guardian, and the world.                            *)

Ends(d, cause) ==
    /\ bitcoind' = [bitcoind EXCEPT ![d] = "exited"]
    /\ why' = [why EXCEPT ![d] = cause]

Progress(d) ==
    /\ \/ bitcoind[d] = "locked" /\ Ends(d, "lock")
       \/ bitcoind[d] = "stopping" /\ Ends(d, "quiet")
       \/ bitcoind[d] = "init" /\ bitcoind' = [bitcoind EXCEPT ![d] = "open"] /\ UNCHANGED why
       \/ bitcoind[d] = "open" /\ bitcoind' = [bitcoind EXCEPT ![d] = "synced"] /\ UNCHANGED why
    /\ UNCHANGED <<guardian, rest, sdm, torrent, asking, online, ui, enders, mishaps>>

Crash(d) ==
    /\ env.crashes /\ bitcoind[d] \in Holding /\ Ends(d, "error")
    /\ env' = [env EXCEPT !.crashes = FALSE]
    /\ UNCHANGED <<armory, offline, guardian, sdm, torrent, asking, online, ui, enders, mishaps>>

(* The guardian kills bitcoind when Armory is gone and leaves when bitcoind *)
(* is gone.                                                                 *)
\* Mutant: the guardian leaves when Armory does.
Guard_Leaves(d) ==
    /\ guardian[d] = "watch"
    /\ armory = "gone" \/ ~Running(d)
    /\ guardian' = [guardian EXCEPT ![d] = "left"]
    /\ UNCHANGED <<bitcoind, why>>

Guard(d) ==
    /\ guardian[d] = "watch"
    /\ \/ armory = "gone" /\ Running(d) /\ Ends(d, "quiet")
       \/ ~Running(d) /\ UNCHANGED <<bitcoind, why>>
    /\ guardian' = [guardian EXCEPT ![d] = "left"]

GuardianWakes(d) ==
    /\ Guard(d)
    /\ UNCHANGED <<rest, sdm, torrent, asking, online, ui, enders, mishaps>>

(* With Armory, everything in its memory is gone.                           *)
ArmoryCrashes ==
    /\ armory # "gone"
    /\ Gone
    /\ UNCHANGED <<env, file, procs, mishaps>>

World ==
    /\ \/ ~env.installed /\ env' = [env EXCEPT !.installed = TRUE]
       \/ env.others /\ ~LockTaken /\ env' = [env EXCEPT !.other = TRUE, !.others = FALSE]
       \/ env.other /\ env' = [env EXCEPT !.other = FALSE]
    /\ UNCHANGED <<armory, offline, sdm, torrent, procs, asking, online, ui, enders, mishaps>>

-----------------------------------------------------------------------------
Init ==
    /\ armory = "up" /\ offline = FALSE
    /\ env \in Worlds /\ file = env.file
    /\ sdm = NewSDM /\ tdm = NewTDM
    /\ dl = [n \in Start |-> "idle"]
    /\ bitcoind = [d \in Process |-> "none"] /\ why = [d \in Process |-> "quiet"]
    /\ guardian = [d \in Process |-> "none"]
    /\ query = "idle" /\ polling = {} /\ signals = 0
    /\ bdm = "uninit" /\ bdmThreads = 0
    /\ ui = NewUI
    /\ fixer = "idle" /\ stopper = "idle" /\ mishaps = {}

Next ==
    \/ StartUp \/ startBitcoind \/ StartGuardian \/ setDashboardDetails \/ executeModeSwitch \/ Heartbeat
    \/ proceedOnceBitcoindIsReady \/ closeForReal \/ actuallyDoExitNow
    \/ stopBitcoind \/ checkRdyForFix \/ FixerStops \/ setDisabled
    \/ \E n \in Start : pollBitcoindState(n) \/ doTheDownloadThing(n)
    \/ backgroundRequestTopBlock \/ TopBlockArrives
    \/ \E d \in Process : Progress(d) \/ Crash(d) \/ GuardianWakes(d)
    \/ ArmoryCrashes \/ World

Spec == Init /\ [][Next]_vars

-----------------------------------------------------------------------------

(* While Armory runs, the only bitcoind it has running is the one it holds: *)
(* launchBitcoindAndGuardian and setupSDM never lose a running process.     *)
(* The exceptions are the three races named in mishaps: failedFunc after a  *)
(* report, two starts in one executeModeSwitch, a start during a download.  *)
OneBitcoind ==
    armory = "up" =>
        \/ \A d \in Process : Running(d) => d = sdm.handle
        \/ mishaps \cap {"failed_late", "started_twice", "download_restarted"} # {}

(* The thread of the block data manager is started once.  The exceptions:   *)
(* after a second start two pollers call back, and "Go Online!" can be      *)
(* pressed before the poller has noticed.                                   *)
OneBDM == bdmThreads <= 1 \/ ui.starts > 1 \/ "pressed_early" \in mishaps

(* pollBitcoindState calls back only when a bitcoind is synchronized, as    *)
(* long as bitcoind was started once: after a restart lastTopBlockInfo and  *)
(* circBufferState still describe the earlier process.                      *)
ReadyIsTrue == "stale_ready" \in mishaps => ui.starts > 1 \/ armory = "gone"

(* A download that is over has launched bitcoind, or was told to: the       *)
(* manager does not report TorrentSynchronizing for ever.  The exceptions   *)
(* are the .partial file that is whole, and failures inside BitTornado.     *)
TorrentReports ==
    isRunning /\ ~(\E n \in Start : dl[n] \in {"begun", "listen", "leave"}) => "stalled" \in mishaps

(* However often the user, the heartbeat and the pollers ask for a start,   *)
(* there is one bitcoind and one block data manager, but for those races,   *)
(* and what the pollers and the torrent's thread report of them is true.    *)
OneOfEach == OneBitcoind /\ OneBDM /\ ReadyIsTrue /\ TorrentReports

-----------------------------------------------------------------------------
(* Fairness.                                                                *)

CanPoll(n, s) ==
    /\ armory # "gone" /\ n \in polling
    /\ getSDMStateLogic(s) = "BitcoindReady" \/ updateTopBlockInfo(s) # query \/ s # sdm

CanGuard(d) == guardian[d] = "watch" /\ (armory = "gone" \/ ~Running(d))
CanLeave    == armory = "closing" /\ stopper = "done" /\ bdm = "stopping"
CanAsk      == armory # "gone" /\ query = "begun"
CanAnswer   == armory # "gone" /\ query \notin {"idle", "begun"}

(* The threads of Armory run, bitcoind answers, the block data manager      *)
(* reports that it stopped, and guardians wake up every three seconds.      *)
Fairness ==
    /\ \A n \in Start : []<>~CanPoll(n, ReadOutput(sdm)) \/ []<><<pollBitcoindState(n)>>_vars
    /\ []<>~CanAsk \/ []<><<backgroundRequestTopBlock>>_vars
    /\ []<>~CanAnswer \/ []<><<TopBlockArrives>>_vars
    /\ WF_vars(stopBitcoind)
    /\ []<>~CanLeave \/ []<><<actuallyDoExitNow>>_vars
    /\ \A d \in Process : []<>~CanGuard(d) \/ []<><<GuardianWakes(d)>>_vars

FairSpec == Spec /\ Fairness

(* Every bitcoind that launchBitcoindAndGuardian is done with has a         *)
(* guardian, unless another thread launched a second one in between and     *)
(* both guardians watch that.                                               *)
Guarded ==
    armory # "gone" /\ env.guardian =>
        \A d \in Process :
            Running(d) /\ guardian[d] = "none" => (Launching /\ d = sdm.btcdpid) \/ "overtaken" \in mishaps

(* When Armory is gone, by closing or by a crash at any moment, guardian.py *)
(* ends every bitcoind that it was started for.  A crash between the two    *)
(* launches leaves a bitcoind that has no guardian and goes on.             *)
GuardianEndsBitcoind == (armory = "gone") ~> (\A d \in Process : Running(d) => guardian[d] = "none")

(* A synchronized bitcoind does not stay unnoticed: the polling threads end *)
(* with their callback, whatever errors the queries met before.             *)
Serviceable ==
    /\ armory = "up" /\ polling # {} /\ sdm.handle # 0 /\ bitcoind[sdm.handle] = "synced"
    /\ ~sdm.disabled /\ ~sdm.failedFindExe /\ ~isRunning
ReadyIsReported == []<>~Serviceable

(* closeForReal ends the program: neither a bitcoind that does not stop nor *)
(* one that does not answer holds it up.  Only a late proceedOnceBitcoind-  *)
(* IsReady that restarts the block data manager can.                        *)
ClosingEnds == (armory = "closing") ~> (armory = "gone" \/ bdm = "scanning")

(* The program ends when it is told to, and takes its bitcoind with it.     *)
NothingLeftBehind == []Guarded /\ GuardianEndsBitcoind /\ ClosingEnds
=============================================================================
