-------------------------- MODULE WalletFileSteps ---------------------------
(***************************************************************************)
(* Proofs about WalletFile for any set of threads, any number of calls and *)
(* any number of crashes, I/O errors and exceptions, in two modules.       *)
(* Assumed: readWalletFile is not run by one thread while another is inside *)
(* a call (SerialReads), and a finished copy survives (no "power" fault).  *)
(*                                                                         *)
(* Here: the inductive invariant IInv, type correctness, what IInv says    *)
(* before each step, and the steps of doWalletFileConsistencyCheck and     *)
(* walletFileSafeUpdate that test, touch a flag or copy a file.            *)
(***************************************************************************)
EXTENDS WalletFile, TLAPS

\* The inductive invariant behind Recoverable, EmptyMeansNotApplied and
\* ImplementsAtomicWallet, for SerialReads

\* The operators below are about files f and flags g, so that the same facts
\* serve before and after a step.
Same(f) == Whole(f["main"]) /\ f["backup"] = f["main"]
InSync == Same(file)

\* Every update in c is older than update n
Below(c, n) == \A u \in Updates(c) : u < n

\* The main file is the backup with update u applied to it
Ahead(f, u) ==
  /\ Whole(f["main"]) /\ Whole(f["backup"])
  /\ f["main"].app = Append(f["backup"].app, u)
MainAhead(u) == Ahead(file, u)

\* What holds between calls
Rest(f, g) ==
  /\ Whole(f[IF g = {MainFlag} THEN "backup" ELSE "main"])
  /\ g = {} => f["backup"].st = "absent" \/ f["backup"] = f["main"]
AtRest == Rest(file, flags)

\* The first half of update u has been written
MainHalf(f, u) ==
  /\ Whole(f["backup"]) /\ f["main"].st = "ok"
  /\ f["main"].app = Append(f["backup"].app, u)
  /\ f["main"].mod = f["backup"].mod
BackupHalf(f, u) ==
  /\ Whole(f["main"]) /\ f["backup"].st = "ok"
  /\ f["backup"].app = f["main"].app
  /\ Append(f["backup"].mod, u) = f["main"].mod

\* What holds of the files and flags when the step l for update u comes next
Before(l, f, g, u) ==
  /\ l = "checkExists" => Rest(f, g)
  /\ l = "createTouch" => Rest(f, g) /\ f["backup"].st = "absent"
  /\ l = "createCopy" => BackupFlag \in g /\ Whole(f["main"]) /\ f["backup"].st = "absent"
  /\ l = "createRemove" => BackupFlag \in g /\ Same(f)
  /\ l = "checkFlags" => Rest(f, g) /\ f["backup"].st # "absent"
  /\ l = "bothCopy" => g = {MainFlag, BackupFlag} /\ Whole(f["main"])
  /\ l = "bothRemove" => g = {MainFlag, BackupFlag} /\ Same(f)
  /\ l = "bkpCopy" => g = {BackupFlag} /\ Whole(f["main"])
  /\ l = "bkpRemove" => g = {BackupFlag} /\ Same(f)
  /\ l = "mainCopy" => g = {MainFlag} /\ Whole(f["backup"])
  /\ l = "mainRemove" => g = {MainFlag} /\ Same(f)
  /\ l = "checkDone" => g = {} /\ Same(f)
  /\ l = "touchMain" => g = {} /\ Same(f)
  /\ l = "appendMain" => g = {MainFlag} /\ Same(f)
  /\ l = "modifyMain" => g = {MainFlag} /\ MainHalf(f, u)
  /\ l = "touchBkp" => g = {MainFlag} /\ Ahead(f, u)
  /\ l = "removeMain" => g = {MainFlag, BackupFlag} /\ Ahead(f, u)
  /\ l = "appendBkp" => g = {BackupFlag} /\ Ahead(f, u)
  /\ l = "modifyBkp" => g = {BackupFlag} /\ BackupHalf(f, u)
  /\ l = "removeBkp" => g = {BackupFlag} /\ Same(f)
  /\ l = "undoCopy" => g = {MainFlag} /\ Whole(f["backup"])
  /\ l = "undoRemove" => g = {MainFlag} /\ Same(f)
  /\ l = "redoCopy" => g = {BackupFlag} /\ Whole(f["main"])
  /\ l = "redoRemove" => g = {BackupFlag} /\ Same(f)

StepInv(p) == Before(pc[p], file, flags, cur[p])

CheckLabels == {"checkExists", "createTouch", "createCopy", "createRemove",
                "checkFlags", "bothCopy", "bothRemove", "bkpCopy", "bkpRemove",
                "mainCopy", "mainRemove", "checkDone"}
CommittedLabels == {"removeMain", "appendBkp", "modifyBkp", "removeBkp",
                    "redoCopy", "redoRemove"}

\* One call at a time, and the lock says which update it is
Serial ==
  /\ \A p, q \in Proc : (~Idle(p) /\ ~Idle(q)) => p = q
  /\ \A p \in Proc : ~Idle(p) => op[p] \in {"read", "update"}
  /\ \A p \in Proc : (~Idle(p) /\ op[p] = "update") => mutex = p
  /\ \A p \in Proc : (~Idle(p) /\ op[p] = "read") => pc[p] \in CheckLabels

\* Where the update of thread p is not yet, and where it is already
ActorInv(p) ==
  (~Idle(p) /\ op[p] = "update") =>
    /\ cur[p] = calls /\ calls \in 1..MaxCalls
    /\ \A q \in Proc \ {p} : cur[q] < calls
    /\ pc[p] \in CommittedLabels => cur[p] \in Updates(file["main"])
    /\ pc[p] \notin CommittedLabels => Below(file["backup"], cur[p])
    /\ pc[p] \in CheckLabels \cup {"touchMain", "appendMain", "undoRemove"} =>
         Below(file["main"], cur[p])

\* The files only contain updates that were called for
OldInv ==
  /\ \A p \in Proc : cur[p] <= calls
  /\ \A f \in Files : Below(file[f], calls + 1)

\* An update answered by the empty list is in neither file
EmptyInv ==
  \A p \in Proc : (Idle(p) /\ op[p] = "update" /\ result[p] = "empty") =>
    \A f \in Files : cur[p] \notin Updates(file[f])

IInv ==
  /\ TypeOK
  /\ Serial
  /\ (\A p \in Proc : Idle(p)) => AtRest
  /\ \A p \in Proc : StepInv(p) /\ ActorInv(p)
  /\ OldInv
  /\ EmptyInv

-----------------------------------------------------------------------------
\* Type correctness

\* Either half of an update makes a content of a content.
LEMMA ContentFacts ==
  ASSUME NEW c \in Content, NEW u \in Nat
  PROVE  AppendHalf(c, u) \in Content /\ ModifyHalf(c, u) \in Content
BY DEF Content, AppendHalf, ModifyHalf

\* The contents the model starts from or falls back to are contents.
LEMMA ConstantContents == Fresh \in Content /\ Absent \in Content /\ Torn \in Content
BY DEF Content, Fresh, Absent, Torn

\* The initial state is well typed.
LEMMA TypeInit == Init => TypeOK
<1> SUFFICES ASSUME Init PROVE TypeOK
  OBVIOUS
<1>1. file \in [Files -> Content]
  BY ConstantContents DEF Init
<1>2. pc \in [Proc -> Labels]
  BY DEF Init, Labels
<1> QED
  BY <1>1, <1>2, Zenon DEF Init, TypeOK, Files

\* Moving a thread to another label keeps the types.
LEMMA TypeGoto ==
  ASSUME TypeOK, NEW p \in Proc, NEW l \in Labels, Goto(p, l),
         file' \in [Files -> Content], flags' \subseteq {MainFlag, BackupFlag},
         unsynced' \subseteq Files
  PROVE  TypeOK'
BY DEF TypeOK, Goto

\* Returning from walletFileSafeUpdate or readWalletFile keeps the types.
LEMMA TypeReturn ==
  ASSUME TypeOK, NEW p \in Proc, NEW r \in {"ok", "empty", "raised"}, faults' \in Nat,
         Return(p, r) \/ (\E ok \in BOOLEAN : ReturnRead(p, ok)) \/ Raise(p),
         file' \in [Files -> Content], flags' \subseteq {MainFlag, BackupFlag},
         unsynced' \subseteq Files
  PROVE  TypeOK'
<1>1. pc' \in [Proc -> Labels]
  BY DEF TypeOK, Return, ReturnRead, Raise, Labels
<1>2. CASE Return(p, r)
  BY <1>1, <1>2 DEF TypeOK, Return
<1>3. ASSUME NEW ok \in BOOLEAN, ReturnRead(p, ok) PROVE TypeOK'
  BY <1>1, <1>3 DEF TypeOK, ReturnRead
<1>4. CASE Raise(p)
  <2>1. CASE Return(p, "raised")
    BY <1>1, <2>1 DEF TypeOK, Return
  <2> QED
    BY <1>3, <1>4, <2>1, Zenon DEF Raise
<1> QED
  BY <1>2, <1>3, <1>4

\* touchFile keeps the types.
LEMMA TypeTouch ==
  ASSUME TypeOK, NEW p \in Proc, NEW from, NEW to \in Labels,
         NEW f \in {MainFlag, BackupFlag}, Touch(p, from, f, to)
  PROVE  TypeOK'
<1> QED
  BY TypeGoto DEF Touch, TypeOK

\* os.remove of a flag file keeps the types.
LEMMA TypeRemove ==
  ASSUME TypeOK, NEW p \in Proc, NEW from, NEW to \in Labels, Remove(p, from, to)
  PROVE  TypeOK'
BY TypeGoto DEF Remove, TypeOK

\* shutil.copy between the two files keeps the types.
LEMMA TypeCopy ==
  ASSUME TypeOK, NEW p \in Proc, NEW from, NEW to \in Labels,
         NEW src \in Files, NEW dst \in Files, Copy(p, from, src, dst, to)
  PROVE  TypeOK'
BY TypeGoto DEF Copy, TypeOK

\* A write into one of the files keeps the types.
LEMMA TypeWrite ==
  ASSUME TypeOK, NEW p \in Proc, NEW from, NEW to \in Labels,
         NEW f \in Files, NEW c \in Content, Write(p, from, f, c, to)
  PROVE  TypeOK'
BY TypeGoto DEF Write, TypeOK

\* Every step of a call keeps the types.
LEMMA TypeStep ==
  ASSUME TypeOK, NEW p \in Proc, Step(p)
  PROVE  TypeOK'
<1> USE DEF Labels, Files
<1>1. CASE CheckExists(p)
  BY <1>1, TypeGoto, Zenon DEF CheckExists, TypeOK
<1>2. CASE CreateBackup(p)
  BY <1>2, TypeTouch, TypeCopy, TypeRemove DEF CreateBackup
<1>3. CASE CheckFlags(p)
  BY <1>3, TypeGoto, Zenon DEF CheckFlags, TypeOK
<1>4. CASE Repair(p)
  BY <1>4, TypeCopy, TypeRemove DEF Repair
<1>5. CASE CheckDone(p)
  BY <1>5, TypeGoto, TypeReturn, Zenon DEF CheckDone, TypeOK, Whole
<1>6. CASE UpdateMain(p)
  <2> file["main"] \in Content /\ cur[p] \in Nat
    BY DEF TypeOK
  <2> QED
    BY <1>6, TypeTouch, TypeRemove, TypeWrite, ContentFacts, Zenon DEF UpdateMain,
       WriteMain
<1>7. CASE UpdateBackup(p)
  <2> file["backup"] \in Content /\ cur[p] \in Nat
    BY DEF TypeOK
  <2>1. CASE RemoveAndReturn(p, "removeBkp", "ok")
    BY <2>1, TypeReturn, Zenon DEF RemoveAndReturn, TypeOK
  <2> QED
    BY <1>7, <2>1, TypeWrite, ContentFacts, Zenon DEF UpdateBackup
<1>8. CASE Handlers(p)
  BY <1>8, TypeCopy, TypeReturn, Zenon DEF Handlers, RemoveAndReturn, TypeOK
<1>9. CASE RemoveMissing(p)
  BY <1>9, TypeReturn, Zenon DEF RemoveMissing, TypeOK
<1> QED
  BY <1>1, <1>2, <1>3, <1>4, <1>5, <1>6, <1>7, <1>8, <1>9 DEF Step

\* A fault in the middle of a write keeps the types.
LEMMA TypeCut ==
  ASSUME TypeOK, NEW torn, file' = CutShort(torn)
  PROVE  file' \in [Files -> Content]
BY ConstantContents DEF TypeOK, CutShort

\* TypeOK is inductive.
LEMMA TypeNext == TypeOK /\ [Next]_vars => TypeOK'
<1> SUFFICES ASSUME TypeOK, [Next]_vars PROVE TypeOK'
  OBVIOUS
<1>1. ASSUME NEW p \in Proc, readWalletFile(p) PROVE TypeOK'
  BY <1>1 DEF readWalletFile, TypeOK, Labels
<1>2. ASSUME NEW p \in Proc, walletFileSafeUpdate(p) PROVE TypeOK'
  BY <1>2 DEF walletFileSafeUpdate, TypeOK, Labels
<1>3. ASSUME NEW p \in Proc, Step(p) PROVE TypeOK'
  BY <1>3, TypeStep
<1>4. ASSUME NEW p \in Proc, IOError(p) PROVE TypeOK'
  <2>1. file' \in [Files -> Content]
    BY <1>4, TypeCut DEF IOError
  <2> QED
    BY <1>4, <2>1 DEF IOError, Inject, TypeOK, Labels
<1>5. ASSUME NEW p \in Proc, Exception(p) PROVE TypeOK'
  <2>1. file' \in [Files -> Content]
    BY <1>5, TypeCut DEF Exception
  <2>2. Raise(p) /\ faults' \in Nat /\ UNCHANGED <<flags, unsynced>>
    BY <1>5 DEF Exception, Inject, TypeOK
  <2> QED
    BY <2>1, <2>2, TypeReturn DEF TypeOK
<1>6. ASSUME NEW kind, Crash(kind) PROVE TypeOK'
  <2>1. file' \in [Files -> Content]
    BY <1>6, TypeCut DEF Crash
  <2>2. pc' \in [Proc -> Labels] /\ op' \in [Proc -> {"none", "read", "update"}]
        /\ result' \in [Proc -> {"none", "ok", "empty", "raised"}]
    BY <1>6 DEF Crash, Labels
  <2>3. unsynced' \subseteq Files
    <3>1. unsynced' = IF kind = "power" THEN {} ELSE unsynced
      BY <1>6 DEF Crash
    <3> QED
      BY <3>1 DEF TypeOK
  <2>4. mutex' = "none" /\ loaded' = FALSE /\ UNCHANGED <<flags, cur, acked, calls>>
    BY <1>6 DEF Crash
  <2>5. faults' \in Nat
    BY <1>6 DEF Crash, Inject, TypeOK
  <2> QED
    BY <2>1, <2>2, <2>3, <2>4, <2>5, Zenon DEF TypeOK
<1>7. ASSUME NEW f \in Files, WriteBack(f) PROVE TypeOK'
  BY <1>7 DEF WriteBack, TypeOK
<1>8. CASE UNCHANGED vars
  BY <1>8 DEF vars, TypeOK
<1> QED
  BY <1>1, <1>2, <1>3, <1>4, <1>5, <1>6, <1>7, <1>8 DEF Next

\* Every variable keeps its type, whatever the threads, faults and bounds.
THEOREM TypeCorrect == Spec => []TypeOK
<1> QED
  BY TypeInit, TypeNext, PTL DEF Spec

-----------------------------------------------------------------------------
\* Contents

\* Nothing is required of an idle thread.
LEMMA BeforeIdle ==
  \A f, g, u : Before("idle", f, g, u)
<1> SUFFICES ASSUME NEW f, NEW g, NEW u
             PROVE
    /\ Before("idle", f, g, u)
  BY Zenon
<1> QED
  BY Zenon DEF Before

\* What each step of the consistency check finds
LEMMA BeforeCheck ==
  /\ \A f, g, u : Before("checkExists", f, g, u) <=> Rest(f, g)
  /\ \A f, g, u : Before("checkFlags", f, g, u) <=> Rest(f, g) /\ f["backup"].st # "absent"
  /\ \A f, g, u : Before("checkDone", f, g, u) <=> g = {} /\ Same(f)
<1> SUFFICES ASSUME NEW f, NEW g, NEW u
             PROVE
    /\ Before("checkExists", f, g, u) <=> Rest(f, g)
    /\ Before("checkFlags", f, g, u) <=> Rest(f, g) /\ f["backup"].st # "absent"
    /\ Before("checkDone", f, g, u) <=> g = {} /\ Same(f)
  BY Zenon
<1> QED
  BY Zenon DEF Before

\* ... and of the creation of a missing backup,
LEMMA BeforeCreate ==
  /\ \A f, g, u : Before("createTouch", f, g, u) <=> Rest(f, g) /\ f["backup"].st = "absent"
  /\ \A f, g, u : Before("createCopy", f, g, u) <=>
         BackupFlag \in g /\ Whole(f["main"]) /\ f["backup"].st = "absent"
  /\ \A f, g, u : Before("createRemove", f, g, u) <=> BackupFlag \in g /\ Same(f)
<1> SUFFICES ASSUME NEW f, NEW g, NEW u
             PROVE
    /\ Before("createTouch", f, g, u) <=> Rest(f, g) /\ f["backup"].st = "absent"
    /\ Before("createCopy", f, g, u) <=>
         BackupFlag \in g /\ Whole(f["main"]) /\ f["backup"].st = "absent"
    /\ Before("createRemove", f, g, u) <=> BackupFlag \in g /\ Same(f)
  BY Zenon
<1> QED
  BY Zenon DEF Before

\* ... of the repair when both flags are set,
LEMMA BeforeBoth ==
  /\ \A f, g, u : Before("bothCopy", f, g, u) <=> g = {MainFlag, BackupFlag} /\ Whole(f["main"])
  /\ \A f, g, u : Before("bothRemove", f, g, u) <=> g = {MainFlag, BackupFlag} /\ Same(f)
<1> SUFFICES ASSUME NEW f, NEW g, NEW u
             PROVE
    /\ Before("bothCopy", f, g, u) <=> g = {MainFlag, BackupFlag} /\ Whole(f["main"])
    /\ Before("bothRemove", f, g, u) <=> g = {MainFlag, BackupFlag} /\ Same(f)
  BY Zenon
<1> QED
  BY Zenon DEF Before

\* ... when only the flag of the backup is,
LEMMA BeforeBkp ==
  /\ \A f, g, u : Before("bkpCopy", f, g, u) <=> g = {BackupFlag} /\ Whole(f["main"])
  /\ \A f, g, u : Before("bkpRemove", f, g, u) <=> g = {BackupFlag} /\ Same(f)
<1> SUFFICES ASSUME NEW f, NEW g, NEW u
             PROVE
    /\ Before("bkpCopy", f, g, u) <=> g = {BackupFlag} /\ Whole(f["main"])
    /\ Before("bkpRemove", f, g, u) <=> g = {BackupFlag} /\ Same(f)
  BY Zenon
<1> QED
  BY Zenon DEF Before

\* ... when only the flag of the wallet is,
LEMMA BeforeMain ==
  /\ \A f, g, u : Before("mainCopy", f, g, u) <=> g = {MainFlag} /\ Whole(f["backup"])
  /\ \A f, g, u : Before("mainRemove", f, g, u) <=> g = {MainFlag} /\ Same(f)
<1> SUFFICES ASSUME NEW f, NEW g, NEW u
             PROVE
    /\ Before("mainCopy", f, g, u) <=> g = {MainFlag} /\ Whole(f["backup"])
    /\ Before("mainRemove", f, g, u) <=> g = {MainFlag} /\ Same(f)
  BY Zenon
<1> QED
  BY Zenon DEF Before

\* ... of the update of the wallet,
LEMMA BeforeUpdateMain ==
  /\ \A f, g, u : Before("touchMain", f, g, u) <=> g = {} /\ Same(f)
  /\ \A f, g, u : Before("appendMain", f, g, u) <=> g = {MainFlag} /\ Same(f)
  /\ \A f, g, u : Before("modifyMain", f, g, u) <=> g = {MainFlag} /\ MainHalf(f, u)
  /\ \A f, g, u : Before("touchBkp", f, g, u) <=> g = {MainFlag} /\ Ahead(f, u)
<1> SUFFICES ASSUME NEW f, NEW g, NEW u
             PROVE
    /\ Before("touchMain", f, g, u) <=> g = {} /\ Same(f)
    /\ Before("appendMain", f, g, u) <=> g = {MainFlag} /\ Same(f)
    /\ Before("modifyMain", f, g, u) <=> g = {MainFlag} /\ MainHalf(f, u)
    /\ Before("touchBkp", f, g, u) <=> g = {MainFlag} /\ Ahead(f, u)
  BY Zenon
<1> QED
  BY Zenon DEF Before

\* ... of the update of the backup,
LEMMA BeforeUpdateBkp ==
  /\ \A f, g, u : Before("removeMain", f, g, u) <=> g = {MainFlag, BackupFlag} /\ Ahead(f, u)
  /\ \A f, g, u : Before("appendBkp", f, g, u) <=> g = {BackupFlag} /\ Ahead(f, u)
  /\ \A f, g, u : Before("modifyBkp", f, g, u) <=> g = {BackupFlag} /\ BackupHalf(f, u)
  /\ \A f, g, u : Before("removeBkp", f, g, u) <=> g = {BackupFlag} /\ Same(f)
<1> SUFFICES ASSUME NEW f, NEW g, NEW u
             PROVE
    /\ Before("removeMain", f, g, u) <=> g = {MainFlag, BackupFlag} /\ Ahead(f, u)
    /\ Before("appendBkp", f, g, u) <=> g = {BackupFlag} /\ Ahead(f, u)
    /\ Before("modifyBkp", f, g, u) <=> g = {BackupFlag} /\ BackupHalf(f, u)
    /\ Before("removeBkp", f, g, u) <=> g = {BackupFlag} /\ Same(f)
  BY Zenon
<1> QED
  BY Zenon DEF Before

\* ... of the handler that takes the update back,
LEMMA BeforeUndo ==
  /\ \A f, g, u : Before("undoCopy", f, g, u) <=> g = {MainFlag} /\ Whole(f["backup"])
  /\ \A f, g, u : Before("undoRemove", f, g, u) <=> g = {MainFlag} /\ Same(f)
<1> SUFFICES ASSUME NEW f, NEW g, NEW u
             PROVE
    /\ Before("undoCopy", f, g, u) <=> g = {MainFlag} /\ Whole(f["backup"])
    /\ Before("undoRemove", f, g, u) <=> g = {MainFlag} /\ Same(f)
  BY Zenon
<1> QED
  BY Zenon DEF Before

\* ... and of the handler that completes it.
LEMMA BeforeRedo ==
  /\ \A f, g, u : Before("redoCopy", f, g, u) <=> g = {BackupFlag} /\ Whole(f["main"])
  /\ \A f, g, u : Before("redoRemove", f, g, u) <=> g = {BackupFlag} /\ Same(f)
<1> SUFFICES ASSUME NEW f, NEW g, NEW u
             PROVE
    /\ Before("redoCopy", f, g, u) <=> g = {BackupFlag} /\ Whole(f["main"])
    /\ Before("redoRemove", f, g, u) <=> g = {BackupFlag} /\ Same(f)
  BY Zenon
<1> QED
  BY Zenon DEF Before


\* The updates a content holds, and what appending one adds.
LEMMA UpdatesFacts ==
  ASSUME NEW c \in Content, NEW u \in Nat
  PROVE  /\ Updates(AppendHalf(c, u)) = Updates(c) \cup {u}
         /\ Updates(ModifyHalf(c, u)) = Updates(c)
         /\ Updates(c) \subseteq Nat
<1> DEFINE s == c.app
<1>1. s \in Seq(Nat)
  BY DEF Content
<1>2. Len(Append(s, u)) = Len(s) + 1 /\ Len(s) \in Nat
      /\ \A i \in 1..Len(s) : Append(s, u)[i] = s[i] /\ s[i] \in Nat
      /\ Append(s, u)[Len(s) + 1] = u
  BY <1>1
<1>3. {Append(s, u)[i] : i \in 1..Len(Append(s, u))} = {s[i] : i \in 1..Len(s)} \cup {u}
  BY <1>2
<1> QED
  BY <1>2, <1>3 DEF Updates, AppendHalf, ModifyHalf

\* The update appended last is among the updates of the file.
LEMMA LastIn ==
  ASSUME NEW c \in Content, NEW d \in Content, NEW u \in Nat, d.app = Append(c.app, u)
  PROVE  u \in Updates(d)
<1>1. c.app \in Seq(Nat)
  BY DEF Content
<1>2. Len(d.app) = Len(c.app) + 1 /\ d.app[Len(d.app)] = u /\ Len(d.app) \in 1..Len(d.app)
  BY <1>1
<1> QED
  BY <1>2 DEF Updates

\* Fresh, absent and torn files hold no update.
LEMMA NoUpdates ==
  Updates(Torn) = {} /\ Updates(Absent) = {} /\ Updates(Fresh) = {}
BY DEF Updates, Torn, Absent, Fresh

\* Equal fields make equal contents.
LEMMA SameContent ==
  ASSUME NEW c \in Content, NEW d \in Content,
         c.st = d.st, c.app = d.app, c.mod = d.mod
  PROVE  c = d
BY DEF Content

-----------------------------------------------------------------------------
\* Every step of a call either goes on or ends the call

\* A step of thread p that goes on to label l
LEMMA GoesOn ==
  ASSUME IInv, TypeOK', NEW p \in Proc, NEW l \in Labels \ {"idle"}, ~Idle(p),
         pc' = [pc EXCEPT ![p] = l],
         UNCHANGED <<op, cur, result, mutex, calls>>,
         op[p] = "read" => l \in CheckLabels,
         StepInv(p)', ActorInv(p)',
         \A f \in Files : Updates(file'[f]) \subseteq
            Updates(file["main"]) \cup Updates(file["backup"])
            \cup IF op[p] = "update" THEN {cur[p]} ELSE {}
  PROVE  IInv'
<1>1. /\ \A q \in Proc : q # p => Idle(q)
      /\ pc'[p] = l /\ \A q \in Proc : q # p => pc'[q] = "idle"
  BY DEF IInv, TypeOK, Serial, Idle
<1>2. Serial'
  BY <1>1 DEF IInv, Serial, Idle
<1>3. (\A q \in Proc : Idle(q))' => AtRest'
  BY <1>1 DEF Idle
<1>4. ASSUME NEW q \in Proc PROVE StepInv(q)' /\ ActorInv(q)'
  BY SMTT(60), <1>1, BeforeIdle DEF StepInv, AtRest, MainAhead, InSync, ActorInv, Idle
<1>5. OldInv'
  <2>1. ASSUME NEW f \in Files, NEW u \in Updates(file'[f]) PROVE u < calls + 1
    BY <2>1 DEF IInv, OldInv, ActorInv, Below, TypeOK, Files
  <2> QED
    BY <2>1 DEF IInv, OldInv, Below
<1>6. EmptyInv'
  <2> SUFFICES ASSUME NEW q \in Proc, Idle(q)', op[q] = "update", result[q] = "empty",
                      NEW f \in Files
               PROVE  cur[q] \notin Updates(file'[f])
    BY DEF EmptyInv
  <2>1. q # p /\ Idle(q)
    BY <1>1 DEF Idle
  <2>2. cur[q] \notin Updates(file["main"]) /\ cur[q] \notin Updates(file["backup"])
    BY <2>1 DEF IInv, EmptyInv, Files
  <2>3. op[p] = "update" => cur[q] # cur[p]
    BY <2>1 DEF IInv, ActorInv, TypeOK
  <2> QED
    BY <2>2, <2>3
<1> QED
  BY <1>2, <1>3, <1>4, <1>5, <1>6 DEF IInv

\* A step of thread p that ends its call
LEMMA Ends ==
  ASSUME IInv, TypeOK', NEW p \in Proc, ~Idle(p),
         pc' = [pc EXCEPT ![p] = "idle"],
         UNCHANGED <<op, cur, calls>>,
         \A q \in Proc : q # p => result'[q] = result[q],
         AtRest',
         (op[p] = "update" /\ result'[p] = "empty") =>
            \A f \in Files : Below(file[f], cur[p]),
         \A f \in Files : Updates(file'[f]) \subseteq
            Updates(file["main"]) \cup Updates(file["backup"])
  PROVE  IInv'
<1>1. \A q \in Proc : Idle(q)' /\ (q # p => Idle(q))
  BY DEF IInv, TypeOK, Serial, Idle
<1>2. Serial'
  BY <1>1 DEF Serial
<1>3. ASSUME NEW q \in Proc PROVE StepInv(q)' /\ ActorInv(q)'
  BY SMTT(60), <1>1, BeforeIdle DEF StepInv, AtRest, MainAhead, InSync, ActorInv, Idle
<1>4. OldInv'
  <2>1. ASSUME NEW f \in Files, NEW u \in Updates(file'[f]) PROVE u < calls + 1
    BY <2>1 DEF IInv, OldInv, Below, Files
  <2> QED
    BY <2>1 DEF IInv, OldInv, Below
<1>5. EmptyInv'
  <2> SUFFICES ASSUME NEW q \in Proc, op[q] = "update", result'[q] = "empty",
                      NEW f \in Files
               PROVE  cur[q] \notin Updates(file'[f])
    BY DEF EmptyInv
  <2>1. cur[q] \notin Updates(file["main"]) /\ cur[q] \notin Updates(file["backup"])
    <3>1. CASE q = p
      BY <3>1 DEF Below, Files, IInv, TypeOK
    <3>2. CASE q # p
      BY <3>2, <1>1 DEF IInv, EmptyInv, Files
    <3> QED
      BY <3>1, <3>2
  <2> QED
    BY <2>1
<1> QED
  BY <1>2, <1>3, <1>4, <1>5 DEF IInv

\* GoesOn for the steps that use Goto.
LEMMA Going ==
  ASSUME IInv, NEW p \in Proc, Step(p), NEW l \in Labels \ {"idle"}, ~Idle(p),
         Goto(p, l), op[p] = "read" => l \in CheckLabels,
         StepInv(p)', ActorInv(p)',
         \A f \in Files : Updates(file'[f]) \subseteq
            Updates(file["main"]) \cup Updates(file["backup"])
            \cup IF op[p] = "update" THEN {cur[p]} ELSE {}
  PROVE  IInv'
<1>1. TypeOK'
  BY TypeStep DEF IInv
<1> QED
  BY <1>1, GoesOn, Zenon DEF Goto

\* The test whether a backup exists preserves the invariant.
LEMMA CheckExistsInv ==
  ASSUME IInv, NEW p \in Proc, Step(p), CheckExists(p)
  PROVE  IInv'
<1> DEFINE l == IF file["backup"].st = "absent" THEN "createTouch" ELSE "checkFlags"
<1>1. l \in Labels \ {"idle"} /\ l \in CheckLabels /\ Goto(p, l) /\ ~Idle(p)
      /\ pc[p] \in CheckLabels /\ UNCHANGED <<file, flags>>
  BY DEF CheckExists, Labels, CheckLabels, Idle
<1>2. pc'[p] = l
  BY <1>1 DEF Goto, IInv, TypeOK
<1>3. AtRest
  BY SMTT(60), BeforeCheck DEF CheckExists, IInv, StepInv, AtRest, MainAhead, InSync
<1>5. StepInv(p)'
  BY SMTT(60), <1>1, <1>2, <1>3, BeforeCheck, BeforeCreate DEF StepInv, MainAhead,
     InSync, AtRest, Rest, Recoverable, Trusted
<1>6. ActorInv(p)'
  BY <1>1, <1>2 DEF IInv, ActorInv, Goto, CheckLabels, CommittedLabels, Idle
<1> QED
  BY <1>1, <1>5, <1>6, Going DEF Files

\* Creating a flag file preserves the invariant.
LEMMA TouchInv ==
  ASSUME IInv, NEW p \in Proc, Step(p),
         \/ Touch(p, "createTouch", BackupFlag, "createCopy")
         \/ Touch(p, "touchMain", MainFlag, "appendMain")
         \/ Touch(p, "touchBkp", BackupFlag, "removeMain")
  PROVE  IInv'
<1> USE DEF Labels, CheckLabels, CommittedLabels, Idle, MainFlag, BackupFlag
<1>1. CASE Touch(p, "createTouch", BackupFlag, "createCopy")
  <2>1. pc[p] = "createTouch" /\ pc'[p] = "createCopy" /\ UNCHANGED file
        /\ flags' = flags \cup {BackupFlag} /\ Goto(p, "createCopy")
    BY <1>1 DEF Touch, Goto, IInv, TypeOK
  <2>2. file["backup"].st = "absent" /\ Recoverable
    BY SMTT(60), <2>1, BeforeCreate DEF IInv, StepInv, Rest, Recoverable, Trusted
  <2>3. StepInv(p)'
    BY SMTT(60), <2>1, <2>2, BeforeCreate DEF StepInv, AtRest, MainAhead, InSync,
       Recoverable, Trusted, Whole, IInv, TypeOK
  <2>4. ActorInv(p)'
    BY <2>1 DEF IInv, ActorInv, Goto
  <2> QED
    BY <2>1, <2>3, <2>4, Going DEF Files
<1>2. CASE Touch(p, "touchMain", MainFlag, "appendMain")
  <2>1. pc[p] = "touchMain" /\ pc'[p] = "appendMain" /\ UNCHANGED file
        /\ flags' = flags \cup {MainFlag} /\ Goto(p, "appendMain")
    BY <1>2 DEF Touch, Goto, IInv, TypeOK
  <2>2. flags = {} /\ InSync
    BY SMTT(60), <2>1, BeforeUpdateMain DEF IInv, StepInv, AtRest, MainAhead, InSync
  <2>3. StepInv(p)'
    BY SMTT(60), <2>1, <2>2, BeforeUpdateMain DEF StepInv, AtRest, MainAhead, InSync, Same
  <2>4. ActorInv(p)' /\ op[p] # "read"
    BY <2>1 DEF IInv, ActorInv, Goto, Serial
  <2> QED
    BY <2>1, <2>3, <2>4, Going DEF Files
<1>3. CASE Touch(p, "touchBkp", BackupFlag, "removeMain")
  <2>1. pc[p] = "touchBkp" /\ pc'[p] = "removeMain" /\ UNCHANGED <<file, cur, op, calls>>
        /\ flags' = flags \cup {BackupFlag} /\ Goto(p, "removeMain")
    BY <1>3 DEF Touch, Goto, IInv, TypeOK
  <2>2. flags = {MainFlag} /\ MainAhead(cur[p]) /\ op[p] = "update"
    BY SMTT(60), <2>1, BeforeUpdateMain DEF IInv, StepInv, AtRest, MainAhead, InSync,
       Serial
  <2>3. StepInv(p)'
    BY SMTT(60), <2>1, <2>2, BeforeUpdateBkp DEF StepInv, AtRest, InSync, MainAhead, Ahead
  <2>4. cur[p] \in Updates(file["main"])
    BY <2>2, LastIn DEF MainAhead, Ahead, IInv, TypeOK, Files
  <2>5. ActorInv(p)'
    BY <2>1, <2>2, <2>4 DEF IInv, ActorInv
  <2> QED
    BY <2>1, <2>2, <2>3, <2>5, Going DEF Files
<1> QED
  BY <1>1, <1>2, <1>3

\* Choosing the repair that the flags call for preserves the invariant.
LEMMA CheckFlagsInv ==
  ASSUME IInv, NEW p \in Proc, Step(p), CheckFlags(p)
  PROVE  IInv'
<1> USE DEF Labels, CheckLabels, CommittedLabels, Idle, MainFlag, BackupFlag
<1> PICK l \in {"bothCopy", "mainCopy", "bkpCopy", "checkDone"} :
      /\ pc[p] = "checkFlags" /\ pc'[p] = l /\ Goto(p, l)
      /\ UNCHANGED <<file, flags, op, cur, calls>>
      /\ \/ l = "bothCopy" /\ flags = {MainFlag, BackupFlag}
         \/ l = "mainCopy" /\ flags = {MainFlag}
         \/ l = "bkpCopy" /\ flags = {BackupFlag}
         \/ l = "checkDone" /\ flags = {}
  BY Zenon DEF CheckFlags, Goto, IInv, TypeOK
<1>1. AtRest /\ file["backup"].st # "absent"
  BY SMTT(60), BeforeCheck DEF IInv, StepInv, AtRest, MainAhead, InSync
<1>2. flags # {MainFlag} => Whole(file["main"])
  BY <1>1 DEF AtRest, Rest, Recoverable, Trusted
<1>3. flags = {MainFlag} => Whole(file["backup"])
  BY <1>1 DEF AtRest, Rest, Recoverable, Trusted
<1>4. flags = {} => file["backup"] = file["main"]
  BY <1>1 DEF AtRest, Rest
<1>5. StepInv(p)'
  BY SMTT(60), <1>2, <1>3, <1>4, BeforeCheck, BeforeBoth, BeforeBkp, BeforeMain DEF
     StepInv, AtRest, MainAhead, InSync, Same, Whole
<1>6. ActorInv(p)'
  BY DEF IInv, ActorInv
<1> QED
  BY <1>5, <1>6, Going DEF Files

\* Copying one file over the other preserves the invariant.
LEMMA CopyInv ==
  ASSUME IInv, NEW p \in Proc, Step(p),
         \/ Copy(p, "createCopy", "main", "backup", "createRemove")
         \/ Copy(p, "bothCopy", "main", "backup", "bothRemove")
         \/ Copy(p, "bkpCopy", "main", "backup", "bkpRemove")
         \/ Copy(p, "redoCopy", "main", "backup", "redoRemove")
         \/ Copy(p, "mainCopy", "backup", "main", "mainRemove")
         \/ Copy(p, "undoCopy", "backup", "main", "undoRemove")
  PROVE  IInv'
<1> USE DEF Labels, CheckLabels, CommittedLabels, Idle, MainFlag, BackupFlag, Files
<1> PICK l \in {"createRemove", "bothRemove", "bkpRemove", "redoRemove",
                "mainRemove", "undoRemove"} :
      /\ pc'[p] = l /\ Goto(p, l) /\ UNCHANGED <<flags, op, cur, calls>>
      /\ \/ /\ \/ pc[p] = "createCopy" /\ l = "createRemove"
               \/ pc[p] = "bothCopy" /\ l = "bothRemove"
               \/ pc[p] = "bkpCopy" /\ l = "bkpRemove"
               \/ pc[p] = "redoCopy" /\ l = "redoRemove"
            /\ file' = [file EXCEPT !["backup"] = file["main"]]
         \/ /\ \/ pc[p] = "mainCopy" /\ l = "mainRemove"
               \/ pc[p] = "undoCopy" /\ l = "undoRemove"
            /\ file' = [file EXCEPT !["main"] = file["backup"]]
  BY DEF Copy, Goto, IInv, TypeOK
<1>1. file'["main"] = file'["backup"]
      /\ (pc[p] \in {"createCopy", "bothCopy", "bkpCopy", "redoCopy"} =>
            file'["main"] = file["main"])
      /\ (pc[p] \in {"mainCopy", "undoCopy"} => file'["main"] = file["backup"])
  BY DEF IInv, TypeOK
<1>2. StepInv(p)'
  BY SMTT(60), <1>1, BeforeCreate, BeforeBoth, BeforeBkp, BeforeMain, BeforeUndo,
     BeforeRedo DEF IInv, StepInv, AtRest, MainAhead, InSync, Same
<1>3. ActorInv(p)'
  BY <1>1 DEF IInv, ActorInv
<1>4. pc[p] \in {"redoCopy", "undoCopy"} => op[p] # "read"
  BY DEF IInv, Serial
<1> QED
  BY <1>1, <1>2, <1>3, <1>4, Going

=============================================================================
