----------------------------- MODULE WalletFile -----------------------------
(***************************************************************************)
(* The wallet file of PyBtcWallet: a main file, its backup and two flag    *)
(* files.  walletFileSafeUpdate applies an update first to the main file   *)
(* and then to the backup; doWalletFileConsistencyCheck, run at load and   *)
(* before every update, uses the flags to decide which of the two files to *)
(* copy over the other.  Every system call that touches the disk is a step *)
(* of its own, so a crash or an I/O error can fall between any two.        *)
(*                                                                         *)
(* An update is the number of the call that makes it.  Applying it takes   *)
(* two writes: the ADD entries are appended, then the MODIFY entries are   *)
(* overwritten in place, so a file records the updates whose first and     *)
(* second halves it contains.                                              *)
(***************************************************************************)
EXTENDS Naturals, Sequences

CONSTANTS
  Proc,         \* the threads that use the wallet object
  Faults,       \* the faults the environment may inject
  SerialReads,  \* readWalletFile only runs while no other call is in progress
  MaxCalls,     \* bound on the calls of walletFileSafeUpdate
  MaxFaults     \* bound on the injected faults

FaultKinds == {"crash", "power", "ioerror", "exception"}

ASSUME ConstantsAssumption ==
  /\ Faults \subseteq FaultKinds
  /\ SerialReads \in BOOLEAN
  /\ MaxCalls \in Nat
  /\ MaxFaults \in Nat
  /\ "none" \notin Proc

VARIABLES
  file,     \* contents of the main file and of the backup
  flags,    \* the flag files that exist
  unsynced, \* files whose last copy has not reached the disk yet
  pc, op, cur, result,   \* per thread: next step, call, its update, outcome
  mutex,    \* who holds self.mutex
  loaded,   \* the wallet object has been read from disk
  acked,    \* updates whose call returned their locations
  calls, faults

vars == <<file, flags, unsynced, pc, op, cur, result, mutex, loaded, acked,
          calls, faults>>

-----------------------------------------------------------------------------
\* Files, flags and their contents

Files == {"main", "backup"}
MainFlag   == "update_unsuccessful"
BackupFlag == "backup_unsuccessful"

Content == [st : {"absent", "torn", "ok"}, app : Seq(Nat), mod : Seq(Nat)]
Fresh  == [st |-> "ok", app |-> <<>>, mod |-> <<>>]
Absent == [st |-> "absent", app |-> <<>>, mod |-> <<>>]
Torn   == [st |-> "torn", app |-> <<>>, mod |-> <<>>]

Whole(c) == c.st = "ok" /\ c.app = c.mod

AppendHalf(c, u) == [st |-> c.st, app |-> Append(c.app, u), mod |-> c.mod]
ModifyHalf(c, u) == [st |-> c.st, app |-> c.app, mod |-> Append(c.mod, u)]

\* The file each writing step is writing to: a write that is cut short
\* leaves that file torn.
Target == [ createCopy |-> "backup", bothCopy |-> "backup",
            bkpCopy |-> "backup", mainCopy |-> "main",
            appendMain |-> "main", modifyMain |-> "main",
            undoCopy |-> "main",
            appendBkp |-> "backup", modifyBkp |-> "backup",
            redoCopy |-> "backup" ]

\* A slip: the backup's handler removes the flag that is there
Removes_BackupHandler ==
  [ createRemove |-> BackupFlag, bothRemove |-> MainFlag,
    bkpRemove |-> BackupFlag, mainRemove |-> MainFlag,
    removeMain |-> MainFlag, removeBkp |-> BackupFlag,
    undoRemove |-> MainFlag, redoRemove |-> BackupFlag ]

\* The flag each removing step removes
Removes == [ createRemove |-> BackupFlag, bothRemove |-> MainFlag,
             bkpRemove |-> BackupFlag, mainRemove |-> MainFlag,
             removeMain |-> MainFlag, removeBkp |-> BackupFlag,
             undoRemove |-> MainFlag, redoRemove |-> MainFlag ]

Labels ==
  { "idle", "checkExists", "createTouch", "createCopy", "createRemove",
    "checkFlags", "bothCopy", "bothRemove", "bkpCopy", "bkpRemove",
    "mainCopy", "mainRemove", "checkDone", "touchMain", "appendMain",
    "modifyMain", "touchBkp", "removeMain", "appendBkp", "modifyBkp",
    "removeBkp", "undoCopy", "undoRemove", "redoCopy", "redoRemove" }

Idle(p) == pc[p] = "idle"

Init ==
  /\ file \in [Files -> {Fresh, Absent}] /\ file["main"] = Fresh
  /\ flags = {}
  /\ unsynced = {}
  /\ pc = [p \in Proc |-> "idle"]
  /\ op = [p \in Proc |-> "none"]
  /\ cur = [p \in Proc |-> 0]
  /\ result = [p \in Proc |-> "none"]
  /\ mutex = "none"
  /\ loaded = FALSE
  /\ acked = {}
  /\ calls = 0
  /\ faults = 0

-----------------------------------------------------------------------------
\* How a step goes on, how a call ends

Goto(p, l) ==
  /\ pc' = [pc EXCEPT ![p] = l]
  /\ UNCHANGED <<op, cur, result, mutex, loaded, acked, calls, faults>>

\* The end of the decorated walletFileSafeUpdate: singleEntrantMethod
\* releases whatever lock self.mutex now names; releasing a free one raises.
Return(p, r) ==
  /\ pc' = [pc EXCEPT ![p] = "idle"]
  /\ result' = [result EXCEPT ![p] = IF mutex = "none" THEN "raised" ELSE r]
  /\ mutex' = "none"
  /\ acked' = IF r = "ok" /\ mutex # "none" THEN acked \cup {cur[p]} ELSE acked
  /\ UNCHANGED <<op, cur, loaded, calls>>

\* A call of readWalletFile ends without a lock to release.
ReturnRead(p, ok) ==
  /\ pc' = [pc EXCEPT ![p] = "idle"]
  /\ result' = [result EXCEPT ![p] = IF ok THEN "ok" ELSE "raised"]
  /\ loaded' = ok
  /\ UNCHANGED <<op, cur, mutex, acked, calls>>

\* An exception leaves the call, its files and its flags as they are.
Raise(p) ==
  IF op[p] = "update" THEN Return(p, "raised") ELSE ReturnRead(p, FALSE)

-----------------------------------------------------------------------------
\* The primitive disk operations

Touch(p, from, f, to) ==
  /\ pc[p] = from
  /\ flags' = flags \cup {f}
  /\ Goto(p, to)
  /\ UNCHANGED <<file, unsynced>>

Remove(p, from, to) ==
  /\ pc[p] = from
  /\ Removes[from] \in flags
  /\ flags' = flags \ {Removes[from]}
  /\ Goto(p, to)
  /\ UNCHANGED <<file, unsynced>>

\* os.remove of a file that is not there raises OSError
RemoveMissing(p) ==
  /\ pc[p] \in DOMAIN Removes
  /\ Removes[pc[p]] \notin flags
  /\ Raise(p)
  /\ UNCHANGED <<file, flags, unsynced, faults>>

\* os.remove as the last statement before the call returns r
RemoveAndReturn(p, from, r) ==
  /\ pc[p] = from
  /\ Removes[from] \in flags
  /\ flags' = flags \ {Removes[from]}
  /\ Return(p, r)
  /\ UNCHANGED <<file, unsynced, faults>>

\* shutil.copy does not fsync what it wrote
Copy(p, from, src, dst, to) ==
  /\ pc[p] = from
  /\ file' = [file EXCEPT ![dst] = file[src]]
  /\ unsynced' = unsynced \cup {dst}
  /\ Goto(p, to)
  /\ UNCHANGED flags

\* the append and the in-place writes end in os.fsync
Write(p, from, f, content, to) ==
  /\ pc[p] = from
  /\ file' = [file EXCEPT ![f] = content]
  /\ unsynced' = unsynced \ {f}
  /\ Goto(p, to)
  /\ UNCHANGED flags

-----------------------------------------------------------------------------
\* Starting a call

\* readWalletFile runs self.__init__() first, which replaces self.mutex by a
\* new, free lock, and then the consistency check, without taking the lock.
readWalletFile(p) ==
  /\ Idle(p)
  /\ SerialReads => \A q \in Proc : Idle(q)
  /\ ~loaded => \A q \in Proc : Idle(q)
  /\ mutex' = "none"
  /\ pc' = [pc EXCEPT ![p] = "checkExists"]
  /\ op' = [op EXCEPT ![p] = "read"]
  /\ UNCHANGED <<file, flags, unsynced, cur, result, loaded, acked, calls, faults>>

\* walletFileSafeUpdate on a non-empty list; it waits for self.mutex
walletFileSafeUpdate(p) ==
  /\ Idle(p)
  /\ loaded
  /\ SerialReads => \A q \in Proc : op[q] = "read" => Idle(q)
  /\ mutex = "none"
  /\ calls < MaxCalls
  /\ mutex' = p
  /\ calls' = calls + 1
  /\ cur' = [cur EXCEPT ![p] = calls + 1]
  /\ pc' = [pc EXCEPT ![p] = "checkExists"]
  /\ op' = [op EXCEPT ![p] = "update"]
  /\ UNCHANGED <<file, flags, unsynced, result, loaded, acked, faults>>

-----------------------------------------------------------------------------
\* doWalletFileConsistencyCheck

CheckExists(p) ==
  /\ pc[p] = "checkExists"
  /\ Goto(p, IF file["backup"].st = "absent" THEN "createTouch" ELSE "checkFlags")
  /\ UNCHANGED <<file, flags, unsynced>>

CreateBackup(p) ==
  \/ Touch(p, "createTouch", BackupFlag, "createCopy")
  \/ Copy(p, "createCopy", "main", "backup", "createRemove")
  \/ Remove(p, "createRemove", "checkFlags")

\* A slip: the case of both flags is not told from that of the main flag
CheckFlags_NoBothCase(p) ==
  /\ pc[p] = "checkFlags"
  /\ \/ MainFlag \in flags /\ Goto(p, "mainCopy")
     \/ flags = {BackupFlag} /\ Goto(p, "bkpCopy")
     \/ flags = {} /\ Goto(p, "checkDone")
  /\ UNCHANGED <<file, flags, unsynced>>

CheckFlags(p) ==
  /\ pc[p] = "checkFlags"
  /\ \/ flags = {MainFlag, BackupFlag} /\ Goto(p, "bothCopy")
     \/ flags = {MainFlag}   /\ Goto(p, "mainCopy")
     \/ flags = {BackupFlag} /\ Goto(p, "bkpCopy")
     \/ flags = {} /\ Goto(p, "checkDone")
  /\ UNCHANGED <<file, flags, unsynced>>

\* A slip: with both flags present only the main flag is removed
Repair_OneFlagLeft(p) ==
  \/ Copy(p, "bothCopy", "main", "backup", "bothRemove")
  \/ Remove(p, "bothRemove", "checkDone")
  \/ Copy(p, "bkpCopy", "main", "backup", "bkpRemove")
  \/ Remove(p, "bkpRemove", "checkDone")
  \/ Copy(p, "mainCopy", "backup", "main", "mainRemove")
  \/ Remove(p, "mainRemove", "checkDone")

\* The if/elif chain runs one repair; the flags are not looked at again.
Repair(p) ==
  \/ Copy(p, "bothCopy", "main", "backup", "bothRemove")
  \/ Remove(p, "bothRemove", "bkpRemove")
  \/ Copy(p, "bkpCopy", "main", "backup", "bkpRemove")
  \/ Remove(p, "bkpRemove", "checkDone")
  \/ Copy(p, "mainCopy", "backup", "main", "mainRemove")
  \/ Remove(p, "mainRemove", "checkDone")
\* A read loads the main file, which it has to find whole; an update goes on,
\* unless its list is malformed, which is answered by an empty list.
CheckDone(p) ==
  /\ pc[p] = "checkDone"
  /\ \/ op[p] = "read" /\ ReturnRead(p, Whole(file["main"])) /\ UNCHANGED faults
     \/ op[p] = "update" /\ Goto(p, "touchMain")
     \/ op[p] = "update" /\ Return(p, "empty") /\ UNCHANGED faults
  /\ UNCHANGED <<file, flags, unsynced>>

-----------------------------------------------------------------------------
\* walletFileSafeUpdate after its check

\* The two writes to the main file, and slips in the flags around them: the
\* flag's name misspelt, no flag at all, the flags swapped after the writes
WriteMain(p) ==
  \/ Write(p, "appendMain", "main", AppendHalf(file["main"], cur[p]), "modifyMain")
  \/ Write(p, "modifyMain", "main", ModifyHalf(file["main"], cur[p]), "touchBkp")

UpdateMain_NoFlag(p) ==
  \/ pc[p] = "touchMain" /\ Goto(p, "appendMain") /\ UNCHANGED <<file, flags, unsynced>>
  \/ WriteMain(p)
  \/ Touch(p, "touchBkp", BackupFlag, "removeMain")
  \/ Remove(p, "removeMain", "appendBkp")

UpdateMain(p) ==
  \/ Touch(p, "touchMain", MainFlag, "appendMain")
  \/ WriteMain(p)
  \/ Touch(p, "touchBkp", BackupFlag, "removeMain")
  \/ Remove(p, "removeMain", "appendBkp")

UpdateBackup(p) ==
  \/ Write(p, "appendBkp", "backup", AppendHalf(file["backup"], cur[p]), "modifyBkp")
  \/ Write(p, "modifyBkp", "backup", ModifyHalf(file["backup"], cur[p]), "removeBkp")
  \/ RemoveAndReturn(p, "removeBkp", "ok")

\* The two "except IOError" handlers.  Both end in os.remove(mainUpdateFlag)
\* and return []; the second one runs when that flag is already gone.
Handlers(p) ==
  \/ Copy(p, "undoCopy", "backup", "main", "undoRemove")
  \/ Copy(p, "redoCopy", "main", "backup", "redoRemove")
  \/ \E from \in {"undoRemove", "redoRemove"} : RemoveAndReturn(p, from, "empty")

Step(p) ==
  \/ CheckExists(p) \/ CreateBackup(p) \/ CheckFlags(p) \/ Repair(p)
  \/ CheckDone(p) \/ UpdateMain(p) \/ UpdateBackup(p)
  \/ Handlers(p) \/ RemoveMissing(p)

-----------------------------------------------------------------------------
\* Faults

\* A write that is cut short leaves its file as it was, or torn.
CutShort(torn) == [f \in Files |-> IF f \in torn THEN Torn ELSE file[f]]
Writing(p) == IF pc[p] \in DOMAIN Target THEN {Target[pc[p]]} ELSE {}

Inject(kind) == kind \in Faults /\ faults < MaxFaults /\ faults' = faults + 1

\* IOError inside one of the two try blocks
IOError(p) ==
  /\ Inject("ioerror")
  /\ \/ pc[p] \in {"appendMain", "modifyMain"} /\ pc' = [pc EXCEPT ![p] = "undoCopy"]
     \/ pc[p] \in {"appendBkp", "modifyBkp"} /\ pc' = [pc EXCEPT ![p] = "redoCopy"]
  /\ \E torn \in SUBSET Writing(p) : file' = CutShort(torn)
  /\ UNCHANGED <<flags, unsynced, op, cur, result, mutex, loaded, acked, calls>>

\* Any other exception (os.fsync and os.remove raise OSError; touchFile and
\* shutil.copy are not inside a try block) leaves the call
Exception(p) ==
  /\ Inject("exception")
  /\ ~Idle(p)
  /\ \E torn \in SUBSET Writing(p) : file' = CutShort(torn)
  /\ Raise(p)
  /\ UNCHANGED <<flags, unsynced>>

\* The process dies; if the machine loses power, a copy that never reached
\* the disk may be lost with it
Crash(kind) ==
  /\ Inject(kind)
  /\ \E torn \in SUBSET (UNION {Writing(p) : p \in Proc}
                         \cup IF kind = "power" THEN unsynced ELSE {}) :
        file' = CutShort(torn)
  /\ unsynced' = IF kind = "power" THEN {} ELSE unsynced
  /\ pc' = [p \in Proc |-> "idle"]
  /\ op' = [p \in Proc |-> "none"]
  /\ result' = [p \in Proc |-> "none"]
  /\ mutex' = "none"
  /\ loaded' = FALSE
  /\ UNCHANGED <<flags, cur, acked, calls>>

\* The operating system writes a cached copy back
WriteBack(f) ==
  /\ f \in unsynced
  /\ unsynced' = unsynced \ {f}
  /\ UNCHANGED <<file, flags, pc, op, cur, result, mutex, loaded, acked, calls, faults>>

Next ==
  \/ \E p \in Proc : readWalletFile(p) \/ walletFileSafeUpdate(p) \/ Step(p)
                     \/ IOError(p) \/ Exception(p)
  \/ \E kind \in {"crash", "power"} : Crash(kind)
  \/ \E f \in Files : WriteBack(f)

Spec == Init /\ [][Next]_vars

\* A call that has started goes on, and a wallet that is not loaded is read.
Fairness == \A p \in Proc : WF_vars(Step(p)) /\ WF_vars(~loaded /\ readWalletFile(p))

FairSpec == Spec /\ Fairness
-----------------------------------------------------------------------------
\* Properties

TypeOK ==
  /\ file \in [Files -> Content]
  /\ flags \subseteq {MainFlag, BackupFlag}
  /\ unsynced \subseteq Files
  /\ pc \in [Proc -> Labels]
  /\ op \in [Proc -> {"none", "read", "update"}]
  /\ cur \in [Proc -> Nat]
  /\ result \in [Proc -> {"none", "ok", "empty", "raised"}]
  /\ mutex \in Proc \cup {"none"}
  /\ loaded \in BOOLEAN
  /\ acked \subseteq Nat
  /\ calls \in Nat
  /\ faults \in Nat

\* The file the consistency check would keep, judging by the flag files
Trusted == IF flags = {MainFlag} THEN "backup" ELSE "main"

\* "No matter when the power goes out, we ALWAYS have a uncorrupted wallet
\* file, and know which one it is": at every moment the file that the flags
\* point doWalletFileConsistencyCheck to consists of whole updates.
Recoverable == Whole(file[Trusted])

\* Between calls, no flag file means that the backup (if there is one) is the
\* main file: an unflagged difference would never be repaired by the check and
\* would surface as a rollback the next time the backup is used.
UnflaggedInSync ==
  (flags = {} /\ \A p \in Proc : Idle(p)) =>
    file["backup"].st = "absent" \/ file["backup"] = file["main"]

\* The updates a file contains
Updates(c) == {c.app[i] : i \in 1..Len(c.app)}

\* A caller that gets the empty list from walletFileSafeUpdate may act as if
\* its update had not been made: it is not in the wallet that will be loaded.
EmptyMeansNotApplied ==
  \A p \in Proc : (Idle(p) /\ op[p] = "update" /\ result[p] = "empty")
                  => cur[p] \notin Updates(file[Trusted])

\* What a caller may conclude between two calls: files without flags are equal,
\* and an empty answer means that nothing was changed.
AnswersAreTrue == UnflaggedInSync /\ EmptyMeansNotApplied

\* walletFileSafeUpdate implements an atomic, append-only wallet: whatever the
\* interleaving of writes, flags, handlers, repairs and crashes, the wallet that
\* would be loaded changes only by one whole new update, and an acknowledged
\* update is never lost.
Atomic == INSTANCE AtomicWallet
          WITH Update <- 1..MaxCalls, wallet <- file[Trusted].app, acked <- acked
ImplementsAtomicWallet == Atomic!AWSpec

\* After a crash the wallet is loaded again, with the flag files gone and the
\* backup equal to the main file, as long as the faults stop.
RecoveryCompletes ==
  ~loaded ~> (loaded /\ flags = {} /\ file["main"] = file["backup"])
=============================================================================
