---------------------------- MODULE MainThread ----------------------------
(***************************************************************************)
(* The program: the main window and the announcements on one thread.       *)
(*                                                                         *)
(* The Heartbeat looks at the announcement files once in a while before    *)
(* its other work, and until it is through with them, nothing else happens *)
(* in the window.  All other threads go on.  If one of the files makes it  *)
(* raise, the rest of this beat and all further ones do not come.          *)
(***************************************************************************)
EXTENDS MainWindow, Announce

\* pairs of scenarios
CONSTANT Settings

allVars == <<vars, announceVars>>

Init ==
  /\ \E s \in Settings : w = s[1] /\ ads = s[2]
  /\ InitWindow
  /\ InitAnnounce

\* no call of the window's thread is waiting
Looking == win.todo # <<>> \/ win.reading # "none"
Free == Alive /\ ~Looking /\ ~win.waits /\ win.beat # "busy"

Beat ==
  /\ Free /\ win.beat = "due"
  /\ \/ Heartbeat /\ UNCHANGED announceVars
     \/ processAnnounceData /\ UNCHANGED vars

BeatGoesOn ==
  /\ win.beat = "busy" /\ ~Looking
  /\ Heartbeat
  /\ win' = [win EXCEPT !.beat = "due"]
  /\ UNCHANGED <<ads, server, disk, adf, dl, count>>

Next ==
  \/ Beat \/ BeatGoesOn
  \/ Free /\ WindowSteps /\ UNCHANGED announceVars
  \/ OtherSteps /\ UNCHANGED announceVars
  \/ Free /\ AnnounceWindow /\ UNCHANGED vars
  \/ Alive /\ AnnounceCalls /\ UNCHANGED vars
  \/ AnnounceOthers /\ UNCHANGED vars
  \/ restart /\ UNCHANGED vars

\* Every thread runs on: the block data thread, the reactor with its timers
\* and signals, and the fetching thread.  The timer of the Heartbeat is called
\* when the window's thread is free, however often it is not.  The user answers
\* questions, and the owner of the server finishes what they publish.
FairSpec ==
  /\ Init /\ [][Next]_allVars
  /\ WF_allVars(bdmSideScan /\ UNCHANGED announceVars)
  /\ WF_allVars(sideScanEnds /\ UNCHANGED announceVars)
  /\ WF_allVars(checkForMerge /\ UNCHANGED announceVars)
  /\ WF_allVars(bdmRefresh /\ UNCHANGED announceVars)
  /\ WF_allVars(bdmExited /\ UNCHANGED announceVars)
  /\ WF_allVars(Free /\ handleCppNotification /\ UNCHANGED announceVars)
  /\ WF_allVars(Free /\ createSweepAddrTx /\ UNCHANGED announceVars)
  /\ WF_allVars(Free /\ finishSweepScan /\ UNCHANGED announceVars)
  /\ WF_allVars(/\ Free /\ UNCHANGED announceVars
                /\ \E t \in gui.sent : sendGetDataMsg(t) \/ checkForTxInBDM(t))
  /\ SF_allVars(Beat /\ processAnnounceData)
  /\ WF_allVars(BeatGoesOn)
  /\ WF_allVars(Alive /\ AnnounceCalls /\ UNCHANGED vars)
  /\ WF_allVars(Thread /\ UNCHANGED vars)
  /\ WF_allVars(Server /\ UNCHANGED vars)

\* The user is answered, and the window catches up with what is announced.
EverybodyAnswered == UserAnswered /\ CatchesUp
=============================================================================
