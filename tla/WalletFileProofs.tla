-------------------------- MODULE WalletFileProofs --------------------------
(***************************************************************************)
(* Removing a flag, the writes, the steps that end a call, the faults and  *)
(* the starts of calls preserve the inductive invariant of WalletFile, so  *)
(* that the flag files always point at a file of whole updates, callers    *)
(* can trust the answer, and walletFileSafeUpdate implements AtomicWallet: *)
(* an update becomes visible in one step, or not at all.                   *)
(***************************************************************************)
EXTENDS WalletFileSteps

\* Removing a flag file, and going on, preserves the invariant.
LEMMA RemoveInv ==
  ASSUME IInv, NEW p \in Proc, Step(p),
         \/ Remove(p, "createRemove", "checkFlags")
         \/ Remove(p, "bothRemove", "bkpRemove")
         \/ Remove(p, "bkpRemove", "checkDone")
         \/ Remove(p, "mainRemove", "checkDone")
         \/ Remove(p, "removeMain", "appendBkp")
  PROVE  IInv'
<1> USE DEF Labels, CheckLabels, CommittedLabels, Idle, MainFlag, BackupFlag
<1>0. pc \in [Proc -> Labels] /\ flags \subseteq {MainFlag, BackupFlag} /\ StepInv(p)
  BY DEF IInv, TypeOK
<1> PICK l \in {"checkFlags", "bkpRemove", "checkDone", "appendBkp"} :
      /\ pc[p] \in DOMAIN Removes /\ pc'[p] = l /\ UNCHANGED <<file, op, cur, calls>>
      /\ flags' = flags \ {Removes[pc[p]]} /\ Goto(p, l)
      /\ \/ pc[p] = "createRemove" /\ l = "checkFlags"
         \/ pc[p] = "bothRemove" /\ l = "bkpRemove"
         \/ pc[p] \in {"bkpRemove", "mainRemove"} /\ l = "checkDone"
         \/ pc[p] = "removeMain" /\ l = "appendBkp"
  BY <1>0 DEF Remove, Goto, Removes
<1>1. StepInv(p)'
  <2>1. CASE pc[p] = "createRemove"
    BY SMTT(60), <1>0, <2>1, BeforeCheck, BeforeCreate DEF StepInv, MainAhead, InSync,
       Same, AtRest, Rest, Recoverable, Trusted, Whole, Removes
  <2>2. CASE pc[p] # "createRemove"
    BY SMTT(60), <1>0, <2>2, BeforeCheck, BeforeBoth, BeforeBkp, BeforeMain,
       BeforeUpdateBkp DEF StepInv, AtRest, InSync, Same, MainAhead, Ahead, Removes
  <2> QED
    BY <2>1, <2>2
<1>2. ActorInv(p)'
  BY DEF IInv, ActorInv
<1>3. pc[p] = "removeMain" => op[p] # "read"
  BY DEF IInv, Serial
<1> QED
  BY <1>1, <1>2, <1>3, Going DEF Files

-----------------------------------------------------------------------------
\* What the steps do to the abstract wallet of AtomicWallet

\* The refinement mapping for the abstract wallet
Wallet == file[Trusted].app

\* Every step but the commit point and the last one keeps the abstract wallet.
LEMMA GoKeepsWallet ==
  ASSUME IInv, NEW p \in Proc,
         \/ CheckExists(p) \/ CheckFlags(p) \/ CreateBackup(p) \/ Repair(p)
         \/ Copy(p, "undoCopy", "backup", "main", "undoRemove")
         \/ Copy(p, "redoCopy", "main", "backup", "redoRemove")
         \/ UpdateMain(p) /\ pc[p] # "touchBkp"
         \/ UpdateBackup(p) /\ pc[p] # "removeBkp"
  PROVE  Wallet' = Wallet /\ acked' = acked
<1> USE DEF MainFlag, BackupFlag, Files
<1> DEFINE M == file["main"]
           B == file["backup"]
<1>0. StepInv(p) /\ file \in [Files -> Content] /\ flags \subseteq {MainFlag, BackupFlag}
  BY DEF IInv, TypeOK
<1>a. /\ pc[p] \in {"createRemove", "bothRemove", "bkpRemove", "mainRemove"} => InSync
      /\ pc[p] \in {"createCopy", "bothCopy", "bkpCopy", "redoCopy"} => BackupFlag \in flags
  <2>1. /\ pc[p] = "createRemove" => InSync
        /\ pc[p] = "createCopy" => BackupFlag \in flags
    BY <1>0, BeforeCreate DEF StepInv, InSync
  <2>2. /\ pc[p] \in {"bothRemove", "bothCopy"} => flags = {MainFlag, BackupFlag}
        /\ pc[p] = "bothRemove" => InSync
    BY <1>0, BeforeBoth DEF StepInv, InSync
  <2>3. /\ pc[p] \in {"bkpRemove", "bkpCopy", "redoCopy"} => flags = {BackupFlag}
        /\ pc[p] = "bkpRemove" => InSync
    BY <1>0, BeforeBkp, BeforeRedo DEF StepInv, InSync
  <2>4. pc[p] = "mainRemove" => InSync
    BY <1>0, BeforeMain DEF StepInv, InSync
  <2> QED
    BY <2>1, <2>2, <2>3, <2>4
<1>1. CASE CheckExists(p) \/ CheckFlags(p)
  BY <1>1 DEF CheckExists, CheckFlags, Goto, Wallet, Trusted
<1>2. CASE Touch(p, "createTouch", BackupFlag, "createCopy")
  <2>1. B.st = "absent" /\ Recoverable /\ flags' = flags \cup {BackupFlag}
        /\ UNCHANGED <<file, acked>>
    BY SMTT(60), <1>0, <1>2, BeforeCreate DEF Touch, StepInv, Rest, Recoverable,
       Trusted, Goto
  <2>2. flags # {MainFlag}
    BY <2>1 DEF Recoverable, Trusted, Whole
  <2> QED
    BY <2>1, <2>2 DEF Wallet, Trusted
<1>3. CASE Touch(p, "touchMain", MainFlag, "appendMain")
  <2>1. InSync /\ flags = {} /\ flags' = {MainFlag} /\ UNCHANGED <<file, acked>>
    BY SMTT(60), <1>0, <1>3, BeforeUpdateMain DEF Touch, StepInv, AtRest, MainAhead,
       InSync, Goto
  <2> QED
    BY <2>1 DEF Wallet, Trusted, InSync, Same
<1>4. ASSUME NEW from, NEW to, Remove(p, from, to), from # "removeMain", InSync
      PROVE  Wallet' = Wallet /\ acked' = acked
  BY <1>4 DEF Remove, Goto, Wallet, Trusted, InSync, Same
<1>5. CASE Remove(p, "removeMain", "appendBkp")
  <2>1. flags = {MainFlag, BackupFlag} /\ flags' = {BackupFlag} /\ UNCHANGED <<file, acked>>
    BY SMTT(60), <1>0, <1>5, BeforeUpdateBkp DEF Remove, Removes, StepInv, AtRest,
       MainAhead, InSync, Goto
  <2> QED
    BY <2>1 DEF Wallet, Trusted
<1>6. ASSUME NEW from \in {"createCopy", "bothCopy", "bkpCopy", "redoCopy"}, NEW to,
             Copy(p, from, "main", "backup", to)
      PROVE  Wallet' = Wallet /\ acked' = acked
  <2>1. BackupFlag \in flags /\ file'["main"] = M /\ UNCHANGED <<flags, acked>>
    BY <1>0, <1>6, <1>a DEF Copy, Goto
  <2> QED
    BY <2>1 DEF Wallet, Trusted
<1>7. ASSUME NEW from \in {"mainCopy", "undoCopy"}, NEW to,
             Copy(p, from, "backup", "main", to)
      PROVE  Wallet' = Wallet /\ acked' = acked
  <2>1. flags = {MainFlag} /\ file'["backup"] = B /\ UNCHANGED <<flags, acked>>
    BY <1>0, <1>7, BeforeMain, BeforeUndo DEF Copy, StepInv, Goto
  <2> QED
    BY <2>1 DEF Wallet, Trusted
<1>8. ASSUME NEW from \in {"appendMain", "modifyMain"}, NEW to, NEW c,
             Write(p, from, "main", c, to)
      PROVE  Wallet' = Wallet /\ acked' = acked
  <2>1. flags = {MainFlag} /\ file'["backup"] = B /\ UNCHANGED <<flags, acked>>
    BY SMTT(60), <1>0, <1>8, BeforeUpdateMain DEF Write, StepInv, AtRest, MainAhead,
       InSync, Goto
  <2> QED
    BY <2>1 DEF Wallet, Trusted
<1>9. ASSUME NEW from \in {"appendBkp", "modifyBkp"}, NEW to, NEW c,
             Write(p, from, "backup", c, to)
      PROVE  Wallet' = Wallet /\ acked' = acked
  <2>1. flags = {BackupFlag} /\ file'["main"] = M /\ UNCHANGED <<flags, acked>>
    BY SMTT(60), <1>0, <1>9, BeforeUpdateBkp DEF Write, StepInv, AtRest, MainAhead,
       InSync, Goto
  <2> QED
    BY <2>1 DEF Wallet, Trusted
<1>10. CASE CreateBackup(p)
  <2>1. CASE Remove(p, "createRemove", "checkFlags")
    <3>1. InSync
      BY <1>a, <2>1 DEF Remove
    <3> QED
      BY <1>4, <2>1, <3>1
  <2>2. CASE Copy(p, "createCopy", "main", "backup", "createRemove")
    BY <1>6, <2>2
  <2> QED
    BY <1>2, <1>10, <2>1, <2>2, Zenon DEF CreateBackup
<1>11. CASE Repair(p)
  <2>1. CASE \/ Remove(p, "bothRemove", "bkpRemove")
             \/ Remove(p, "bkpRemove", "checkDone")
             \/ Remove(p, "mainRemove", "checkDone")
    <3>1. InSync
      BY <1>a, <2>1 DEF Remove
    <3> QED
      BY <1>4, <2>1, <3>1
  <2>2. CASE \/ Copy(p, "bothCopy", "main", "backup", "bothRemove")
             \/ Copy(p, "bkpCopy", "main", "backup", "bkpRemove")
    BY <1>6, <2>2
  <2>3. CASE Copy(p, "mainCopy", "backup", "main", "mainRemove")
    BY <1>7, <2>3
  <2> QED
    BY <1>11, <2>1, <2>2, <2>3, Zenon DEF Repair
<1>12. CASE UpdateMain(p) /\ pc[p] # "touchBkp"
  <2>1. CASE WriteMain(p)
    BY <1>8, <2>1 DEF WriteMain
  <2>2. ~Touch(p, "touchBkp", BackupFlag, "removeMain")
    BY <1>12, Zenon DEF Touch
  <2> QED
    BY <1>3, <1>5, <1>12, <2>1, <2>2, Zenon DEF UpdateMain
<1>13. CASE UpdateBackup(p) /\ pc[p] # "removeBkp"
  BY <1>9, <1>13 DEF UpdateBackup, RemoveAndReturn
<1> QED
  BY <1>1, <1>6, <1>7, <1>10, <1>11, <1>12, <1>13

\* The commit point: from the moment the second flag exists, the main file,
\* with the new update, is the one that a repair keeps.
LEMMA CommitPoint ==
  ASSUME IInv, NEW p \in Proc, Touch(p, "touchBkp", BackupFlag, "removeMain")
  PROVE  Atomic!AWNext
<1> USE DEF MainFlag, BackupFlag, Files
<1>1. /\ flags = {MainFlag} /\ MainAhead(cur[p]) /\ flags' = {MainFlag, BackupFlag}
      /\ UNCHANGED <<file, acked>>
  <2>1. StepInv(p) /\ flags \subseteq {MainFlag, BackupFlag}
    BY DEF IInv, TypeOK
  <2> QED
    BY <2>1, BeforeUpdateMain DEF StepInv, AtRest, MainAhead, InSync, Touch, Goto
<1>2. op[p] = "update" /\ ~Idle(p)
  BY DEF IInv, Serial, Touch, Idle, CheckLabels
<1>3. cur[p] \in 1..MaxCalls /\ Below(file["backup"], cur[p])
  BY <1>2 DEF IInv, ActorInv, Touch, CommittedLabels
<1>4. \A i \in 1..Len(file["backup"].app) : file["backup"].app[i] # cur[p]
  BY <1>3, ConstantsAssumption DEF Below, Updates
<1>5. file[Trusted] = file["backup"] /\ file'[Trusted'] = file["main"]
  BY <1>1 DEF Trusted
<1>6. Atomic!Commit(cur[p])
  BY <1>1, <1>4, <1>5 DEF Atomic!Commit, MainAhead, Ahead
<1> QED
  BY <1>3, <1>6, Zenon DEF Atomic!AWNext

\* The call returns the locations of its data once the backup has it too.
LEMMA AcknowledgePoint ==
  ASSUME IInv, NEW p \in Proc, RemoveAndReturn(p, "removeBkp", "ok")
  PROVE  Atomic!AWNext
<1> USE DEF MainFlag, BackupFlag, Files
<1>1. /\ flags = {BackupFlag} /\ flags' = {} /\ UNCHANGED file
  <2>1. StepInv(p) /\ flags \subseteq {MainFlag, BackupFlag}
    BY DEF IInv, TypeOK
  <2> QED
    BY <2>1, BeforeUpdateBkp DEF StepInv, AtRest, MainAhead, InSync, RemoveAndReturn, Removes
<1>2. op[p] = "update" /\ ~Idle(p) /\ mutex = p
  BY DEF IInv, Serial, RemoveAndReturn, Idle, CheckLabels
<1>3. cur[p] \in 1..MaxCalls /\ cur[p] \in Updates(file["main"])
  BY <1>2 DEF IInv, ActorInv, RemoveAndReturn, CommittedLabels
<1>4. acked' = acked \cup {cur[p]}
  BY <1>2, ConstantsAssumption DEF RemoveAndReturn, Return
<1>5. file[Trusted] = file["main"] /\ file'[Trusted'] = file["main"]
  BY <1>1 DEF Trusted
<1>6. Atomic!Acknowledge(cur[p])
  BY <1>3, <1>4, <1>5 DEF Atomic!Acknowledge, Updates
<1> QED
  BY <1>3, <1>6, Zenon DEF Atomic!AWNext

-----------------------------------------------------------------------------
\* Every step preserves the invariant

\* Appending and modifying in either file preserve the invariant.
LEMMA WriteInv ==
  ASSUME IInv, NEW p \in Proc, Step(p),
         \/ Write(p, "appendMain", "main", AppendHalf(file["main"], cur[p]), "modifyMain")
         \/ Write(p, "modifyMain", "main", ModifyHalf(file["main"], cur[p]), "touchBkp")
         \/ Write(p, "appendBkp", "backup", AppendHalf(file["backup"], cur[p]), "modifyBkp")
         \/ Write(p, "modifyBkp", "backup", ModifyHalf(file["backup"], cur[p]), "removeBkp")
  PROVE  IInv'
<1> USE DEF Labels, CheckLabels, CommittedLabels, Idle, MainFlag, BackupFlag, Files
<1> DEFINE M == file["main"]
           B == file["backup"]
           u == cur[p]
<1> M \in Content /\ B \in Content /\ u \in Nat
  BY DEF IInv, TypeOK
<1>0. ~Idle(p) /\ op[p] = "update" /\ StepInv(p) /\ ActorInv(p)
  BY DEF IInv, Serial, Write
<1>1. CASE Write(p, "appendMain", "main", AppendHalf(M, u), "modifyMain")
  <2>1. pc[p] = "appendMain" /\ pc'[p] = "modifyMain" /\ Goto(p, "modifyMain")
        /\ file'["main"] = AppendHalf(M, u) /\ file'["backup"] = B
        /\ UNCHANGED <<flags, op, cur, calls>>
    BY <1>1 DEF Write, Goto, IInv, TypeOK
  <2>4. flags = {MainFlag} /\ Same(file)
    BY SMTT(60), <1>0, <2>1, BeforeUpdateMain DEF StepInv
  <2>5. MainHalf(file', u)
    BY <2>1, <2>4 DEF Same, Whole, AppendHalf, MainHalf
  <2>2. StepInv(p)'
    BY SMTT(60), <2>1, <2>4, <2>5, BeforeUpdateMain DEF StepInv
  <2>3. ActorInv(p)'
    BY <1>0, <2>1 DEF ActorInv
  <2> QED
    BY <1>0, <2>1, <2>2, <2>3, Going, UpdatesFacts
<1>2. CASE Write(p, "modifyMain", "main", ModifyHalf(M, u), "touchBkp")
  <2>1. pc[p] = "modifyMain" /\ pc'[p] = "touchBkp" /\ Goto(p, "touchBkp")
        /\ file'["main"] = ModifyHalf(M, u) /\ file'["backup"] = B
        /\ UNCHANGED <<flags, op, cur, calls>>
    BY <1>2 DEF Write, Goto, IInv, TypeOK
  <2>4. flags = {MainFlag} /\ MainHalf(file, u)
    BY SMTT(60), <1>0, <2>1, BeforeUpdateMain DEF StepInv
  <2>5. Ahead(file', u)
    BY <2>1, <2>4 DEF Ahead, Whole, ModifyHalf, MainHalf
  <2>2. StepInv(p)'
    BY SMTT(60), <2>1, <2>4, <2>5, BeforeUpdateMain DEF StepInv
  <2>3. ActorInv(p)'
    BY <1>0, <2>1 DEF ActorInv
  <2> QED
    BY <1>0, <2>1, <2>2, <2>3, Going, UpdatesFacts
<1>3. CASE Write(p, "appendBkp", "backup", AppendHalf(B, u), "modifyBkp")
  <2>1. pc[p] = "appendBkp" /\ pc'[p] = "modifyBkp" /\ Goto(p, "modifyBkp")
        /\ file'["main"] = M /\ file'["backup"] = AppendHalf(B, u)
        /\ UNCHANGED <<flags, op, cur, calls>>
    BY <1>3 DEF Write, Goto, IInv, TypeOK
  <2>2. Ahead(file, u) /\ flags = {BackupFlag}
    BY SMTT(60), <1>0, <2>1, BeforeUpdateBkp DEF StepInv
  <2>4. BackupHalf(file', u)
    BY <2>1, <2>2 DEF Ahead, Whole, AppendHalf, BackupHalf
  <2>5. StepInv(p)'
    BY SMTT(60), <2>1, <2>2, <2>4, BeforeUpdateBkp DEF StepInv
  <2>3. ActorInv(p)'
    BY <1>0, <2>1 DEF ActorInv
  <2> QED
    BY <1>0, <2>1, <2>5, <2>3, Going, UpdatesFacts
<1>4. CASE Write(p, "modifyBkp", "backup", ModifyHalf(B, u), "removeBkp")
  <2>1. pc[p] = "modifyBkp" /\ pc'[p] = "removeBkp" /\ Goto(p, "removeBkp")
        /\ file'["main"] = M /\ file'["backup"] = ModifyHalf(B, u)
        /\ UNCHANGED <<flags, op, cur, calls>>
    BY <1>4 DEF Write, Goto, IInv, TypeOK
  <2>5. flags = {BackupFlag} /\ BackupHalf(file, u)
    BY SMTT(60), <1>0, <2>1, BeforeUpdateBkp DEF StepInv
  <2>6. ModifyHalf(B, u).st = M.st /\ ModifyHalf(B, u).app = M.app
        /\ ModifyHalf(B, u).mod = M.mod
    BY <2>5 DEF BackupHalf, Whole, ModifyHalf
  <2>2. Whole(M) /\ ModifyHalf(B, u) = M
    BY <2>5, <2>6, SameContent, ContentFacts, Zenon DEF BackupHalf
  <2>3. StepInv(p)'
    BY SMTT(60), <2>1, <2>2, <2>5, BeforeUpdateBkp DEF StepInv, Same
  <2>4. ActorInv(p)'
    BY <1>0, <2>1 DEF ActorInv
  <2> QED
    BY <1>0, <2>1, <2>3, <2>4, Going, UpdatesFacts
<1> QED
  BY <1>1, <1>2, <1>3, <1>4

\* Whatever step p is at, the files are recoverable as they are

\* Before any step the trusted file is whole.
LEMMA StepIsRecoverable ==
  ASSUME IInv, NEW p \in Proc, ~Idle(p)
  PROVE  AtRest
<1> USE DEF MainFlag, BackupFlag
<1>1. StepInv(p) /\ pc[p] \in Labels \ {"idle"}
  BY DEF IInv, TypeOK, Idle
<1>2. pc[p] \in {"checkExists", "createTouch", "checkFlags"} => AtRest
  BY SMTT(60), <1>1, BeforeCheck, BeforeCreate DEF StepInv, AtRest, MainAhead, InSync
<1>3. ASSUME pc[p] \in {"createCopy", "createRemove", "bothCopy", "bothRemove", "bkpCopy",
                          "bkpRemove", "redoCopy", "redoRemove", "checkDone", "touchMain",
                          "removeBkp", "removeMain", "appendBkp", "modifyBkp"}
      PROVE  AtRest
  <2>1. Whole(file["main"])
    BY SMTT(60), <1>1, <1>3, BeforeCheck, BeforeCreate, BeforeBoth, BeforeBkp,
       BeforeUpdateMain, BeforeUpdateBkp, BeforeRedo DEF StepInv, Same, Ahead,
       BackupHalf
  <2>2. BackupFlag \in flags \/ (flags = {} /\ file["backup"] = file["main"])
    BY SMTT(60), <1>1, <1>3, BeforeCheck, BeforeCreate, BeforeBoth, BeforeBkp,
       BeforeUpdateMain, BeforeUpdateBkp, BeforeRedo DEF StepInv, Same
  <2> QED
    BY <2>1, <2>2 DEF AtRest, Rest
<1>4. ASSUME pc[p] \in {"mainCopy", "mainRemove", "appendMain", "modifyMain", "undoCopy",
                          "undoRemove", "touchBkp"}
      PROVE  AtRest
  <2>1. Whole(file["backup"])
    BY SMTT(60), <1>1, <1>4, BeforeMain, BeforeUpdateMain, BeforeUndo DEF StepInv, Same,
       Ahead, MainHalf
  <2>2. flags = {MainFlag}
    BY SMTT(60), <1>1, <1>4, BeforeMain, BeforeUpdateMain, BeforeUndo DEF StepInv
  <2> QED
    BY <2>1, <2>2 DEF AtRest, Rest
<1> QED
  BY <1>1, <1>2, <1>3, <1>4 DEF Labels

\* The end of the consistency check preserves the invariant.
LEMMA CheckDoneInv ==
  ASSUME IInv, NEW p \in Proc, Step(p), CheckDone(p)
  PROVE  IInv'
<1> USE DEF Labels, CheckLabels, CommittedLabels, Idle, MainFlag, BackupFlag
<1>1. pc[p] = "checkDone" /\ UNCHANGED <<file, flags>> /\ TypeOK' /\ ~Idle(p)
  BY TypeStep DEF CheckDone, IInv
<1>2. flags = {} /\ InSync /\ AtRest
  BY SMTT(60), <1>1, StepIsRecoverable, BeforeCheck DEF IInv, StepInv, AtRest,
     MainAhead, InSync
<1>3. CASE op[p] = "update" /\ Goto(p, "touchMain")
  <2>1. pc'[p] = "touchMain" /\ UNCHANGED <<op, cur, calls>>
    BY <1>3 DEF Goto, IInv, TypeOK
  <2>2. StepInv(p)'
    BY SMTT(60), <1>1, <1>2, <2>1, BeforeUpdateMain DEF StepInv, AtRest, MainAhead,
       InSync, Same
  <2>3. ActorInv(p)'
    BY <1>1, <2>1 DEF IInv, ActorInv
  <2> QED
    BY <1>1, <1>3, <2>2, <2>3, Going DEF Files
<1>4. ASSUME op[p] = "update", Return(p, "empty") PROVE IInv'
  <2>1. AtRest'
    BY <1>1, <1>2 DEF AtRest, Rest, Recoverable, Trusted
  <2>2. \A f \in Files : Below(file[f], cur[p])
    BY <1>1, <1>4 DEF IInv, ActorInv, Files
  <2>3. \A q \in Proc : q # p => result'[q] = result[q]
    BY <1>4 DEF Return, IInv, TypeOK
  <2> QED
    BY <1>1, <1>4, <2>1, <2>2, <2>3, Ends, Zenon DEF Files, Return
<1>5. ASSUME op[p] = "read", ReturnRead(p, Whole(file["main"])) PROVE IInv'
  <2>1. AtRest'
    BY <1>1, <1>2 DEF AtRest, Rest, Recoverable, Trusted
  <2>2. \A q \in Proc : q # p => result'[q] = result[q]
    BY <1>5 DEF ReturnRead, IInv, TypeOK
  <2> QED
    BY <1>1, <1>5, <2>1, <2>2, Ends, Zenon DEF Files, ReturnRead
<1> QED
  BY <1>3, <1>4, <1>5 DEF CheckDone

\* A call that raises with the files at rest preserves the invariant.
LEMMA RaiseInv ==
  ASSUME IInv, NEW p \in Proc, ~Idle(p), TypeOK', Raise(p), AtRest',
         \A f \in Files : Updates(file'[f]) \subseteq
            Updates(file["main"]) \cup Updates(file["backup"])
  PROVE  IInv'
<1>1. \A q \in Proc : q # p => result'[q] = result[q]
  BY DEF Raise, Return, ReturnRead, IInv, TypeOK
<1>2. pc' = [pc EXCEPT ![p] = "idle"] /\ UNCHANGED <<op, cur, calls>>
      /\ result'[p] # "empty"
  BY DEF Raise, Return, ReturnRead, IInv, TypeOK
<1> QED
  BY <1>1, <1>2, Ends, Zenon

\* os.remove of a flag that is gone preserves the invariant.
LEMMA RemoveMissingInv ==
  ASSUME IInv, NEW p \in Proc, Step(p), RemoveMissing(p)
  PROVE  IInv'
<1>1. ~Idle(p) /\ UNCHANGED <<file, flags>> /\ Raise(p)
  BY DEF RemoveMissing, Removes, Idle
<1>2. AtRest'
  BY <1>1, StepIsRecoverable DEF AtRest, Rest, Recoverable, Trusted
<1> QED
  BY <1>1, <1>2, RaiseInv, TypeStep DEF IInv, Files

\* Removing the last flag and returning preserves the invariant.
LEMMA RemoveAndReturnInv ==
  ASSUME IInv, NEW p \in Proc, Step(p),
         \/ RemoveAndReturn(p, "removeBkp", "ok")
         \/ RemoveAndReturn(p, "undoRemove", "empty")
         \/ RemoveAndReturn(p, "redoRemove", "empty")
  PROVE  IInv'
<1> USE DEF Labels, CheckLabels, CommittedLabels, Idle, MainFlag, BackupFlag
<1>1. CASE RemoveAndReturn(p, "removeBkp", "ok")
  <2>1. pc[p] = "removeBkp" /\ flags' = flags \ {BackupFlag} /\ UNCHANGED file
        /\ Return(p, "ok")
    BY <1>1 DEF RemoveAndReturn, Removes
  <2>2. AtRest'
    BY SMTT(60), <2>1, BeforeUpdateBkp DEF IInv, StepInv, MainAhead, InSync, Same,
       AtRest, Rest, Recoverable, Trusted
  <2>3. (\A q \in Proc : q # p => result'[q] = result[q]) /\ result'[p] # "empty"
    BY <2>1 DEF Return, IInv, TypeOK
  <2> QED
    BY <2>1, <2>2, <2>3, Ends, TypeStep, Zenon DEF Return, IInv, Files
<1>2. CASE RemoveAndReturn(p, "undoRemove", "empty")
  <2>1. pc[p] = "undoRemove" /\ flags' = flags \ {MainFlag} /\ UNCHANGED file
        /\ Return(p, "empty") /\ op[p] = "update"
    BY <1>2 DEF RemoveAndReturn, Removes, IInv, Serial
  <2>2. AtRest'
    BY SMTT(60), <2>1, BeforeUndo DEF IInv, StepInv, MainAhead, InSync, Same, AtRest,
       Rest, Recoverable, Trusted
  <2>3. \A q \in Proc : q # p => result'[q] = result[q]
    BY <2>1 DEF Return, IInv, TypeOK
  <2>4. \A f \in Files : Below(file[f], cur[p])
    BY <2>1 DEF IInv, ActorInv, Files
  <2> QED
    BY <2>1, <2>2, <2>3, <2>4, Ends, TypeStep, Zenon DEF Return, IInv, Files
<1>3. CASE RemoveAndReturn(p, "redoRemove", "empty")
  BY SMTT(60), <1>3, BeforeRedo DEF RemoveAndReturn, Removes, IInv, StepInv, AtRest,
     MainAhead, InSync
<1> QED
  BY <1>1, <1>2, <1>3

\* Every step of a call preserves the invariant.
LEMMA StepPreserves ==
  ASSUME IInv, NEW p \in Proc, Step(p)
  PROVE  IInv'
<1>1. CASE CheckExists(p)
  BY <1>1, CheckExistsInv
<1>2. CASE CreateBackup(p)
  BY <1>2, TouchInv, CopyInv, RemoveInv DEF CreateBackup
<1>3. CASE CheckFlags(p)
  BY <1>3, CheckFlagsInv
<1>4. CASE Repair(p)
  BY <1>4, CopyInv, RemoveInv DEF Repair
<1>5. CASE CheckDone(p)
  BY <1>5, CheckDoneInv
<1>6. CASE UpdateMain(p)
  BY <1>6, TouchInv, WriteInv, RemoveInv DEF UpdateMain, WriteMain
<1>7. CASE UpdateBackup(p)
  BY <1>7, WriteInv, RemoveAndReturnInv DEF UpdateBackup
<1>8. CASE Handlers(p)
  BY <1>8, CopyInv, RemoveAndReturnInv DEF Handlers
<1>9. CASE RemoveMissing(p)
  BY <1>9, RemoveMissingInv
<1> QED
  BY <1>1, <1>2, <1>3, <1>4, <1>5, <1>6, <1>7, <1>8, <1>9 DEF Step

-----------------------------------------------------------------------------
\* Faults: a write cut short never tears the file the flags point to

\* What a fault in the middle of a write can leave in the files.
LEMMA CutFacts ==
  ASSUME TypeOK, NEW torn, file' = CutShort(torn), NEW f \in Files
  PROVE  /\ f \notin torn => file'[f] = file[f]
         /\ f \in torn => file'[f] = Torn
         /\ Updates(file'[f]) \subseteq Updates(file[f])
BY NoUpdates DEF TypeOK, CutShort

\* Which file is being written at which label.
LEMMA WritingFacts ==
  ASSUME NEW p \in Proc
  PROVE  /\ pc[p] = "idle" => Writing(p) = {}
         /\ pc[p] \in {"createCopy", "bothCopy", "bkpCopy", "appendBkp", "modifyBkp",
                       "redoCopy"} => Writing(p) = {"backup"}
         /\ pc[p] \in {"mainCopy", "appendMain", "modifyMain", "undoCopy"}
              => Writing(p) = {"main"}
         /\ pc[p] \notin {"createCopy", "bothCopy", "bkpCopy", "appendBkp", "modifyBkp",
                "redoCopy", "mainCopy", "appendMain", "modifyMain", "undoCopy"}
              => Writing(p) = {}
BY DEF Writing, Target

\* After a fault at any step the trusted file is whole.
LEMMA CutIsRecoverable ==
  ASSUME IInv, NEW p \in Proc, NEW torn, torn \subseteq Writing(p),
         file' = CutShort(torn), UNCHANGED flags
  PROVE  AtRest'
<1> USE DEF MainFlag, BackupFlag
<1>1. file'["main"] = (IF "main" \in torn THEN Torn ELSE file["main"])
      /\ file'["backup"] = (IF "backup" \in torn THEN Torn ELSE file["backup"])
  BY CutFacts DEF IInv, Files
<1>2. StepInv(p)
  BY DEF IInv
<1>3. CASE pc[p] \in {"createCopy", "bothCopy", "bkpCopy", "appendBkp", "modifyBkp",
                      "redoCopy"}
  <2>1. BackupFlag \in flags /\ Whole(file["main"]) /\ "main" \notin torn
    BY SMTT(60), <1>2, <1>3, WritingFacts, BeforeCreate, BeforeBoth, BeforeBkp,
       BeforeUpdateBkp, BeforeRedo DEF StepInv, Ahead, BackupHalf
  <2> QED
    BY <1>1, <2>1 DEF AtRest, Rest, Recoverable, Trusted
<1>4. CASE pc[p] \in {"mainCopy", "appendMain", "modifyMain", "undoCopy"}
  <2>1. flags = {MainFlag} /\ Whole(file["backup"]) /\ "backup" \notin torn
    BY SMTT(60), <1>2, <1>4, WritingFacts, BeforeMain, BeforeUpdateMain, BeforeUndo DEF
       StepInv, Same, MainHalf
  <2> QED
    BY <1>1, <2>1 DEF AtRest, Rest, Recoverable, Trusted
<1>5. CASE pc[p] \notin {"createCopy", "bothCopy", "bkpCopy", "appendBkp", "modifyBkp",
                "redoCopy", "mainCopy", "appendMain", "modifyMain", "undoCopy"}
  <2>1. torn = {}
    BY <1>5, WritingFacts
  <2>2. AtRest
    <3>1. CASE Idle(p) /\ \A q \in Proc : Idle(q)
      BY <3>1 DEF IInv
    <3> QED
      BY <3>1, StepIsRecoverable
  <2> QED
    BY <1>1, <2>1, <2>2 DEF AtRest, Rest, Recoverable, Trusted
<1> QED
  BY <1>3, <1>4, <1>5

\* An I/O error that walletFileSafeUpdate catches preserves the invariant.
LEMMA IOErrorInv ==
  ASSUME IInv, TypeOK', NEW p \in Proc, IOError(p)
  PROVE  IInv'
<1> USE DEF Labels, CheckLabels, CommittedLabels, Idle, MainFlag, BackupFlag
<1> DEFINE l == IF pc[p] \in {"appendMain", "modifyMain"} THEN "undoCopy" ELSE "redoCopy"
<1>1. /\ pc[p] \in {"appendMain", "modifyMain", "appendBkp", "modifyBkp"}
      /\ pc' = [pc EXCEPT ![p] = l] /\ pc'[p] = l
      /\ UNCHANGED <<flags, op, cur, result, mutex, calls>>
  BY DEF IOError, IInv, TypeOK
<1>2. PICK torn \in SUBSET Writing(p) : file' = CutShort(torn)
  BY DEF IOError
<1>3. op[p] = "update" /\ StepInv(p) /\ ActorInv(p)
  BY <1>1 DEF IInv, Serial
<1>4. \A f \in Files : Updates(file'[f]) \subseteq Updates(file[f])
  BY <1>2, CutFacts DEF IInv
<1>5. CASE pc[p] \in {"appendMain", "modifyMain"}
  <2>1. file'["backup"] = file["backup"]
    BY <1>2, <1>5, CutFacts, WritingFacts DEF IInv, Files
  <2>4. flags = {MainFlag} /\ Whole(file["backup"])
    BY SMTT(60), <1>3, <1>5, BeforeUpdateMain DEF StepInv, Same, MainHalf
  <2>2. StepInv(p)'
    BY SMTT(60), <1>1, <1>5, <2>1, <2>4, BeforeUndo DEF StepInv
  <2>3. ActorInv(p)'
    BY <1>1, <1>3, <1>5, <2>1 DEF ActorInv
  <2> QED
    BY <1>1, <1>3, <1>4, <2>2, <2>3, GoesOn, Zenon DEF Files
<1>6. CASE pc[p] \in {"appendBkp", "modifyBkp"}
  <2>1. file'["main"] = file["main"]
    BY <1>2, <1>6, CutFacts, WritingFacts DEF IInv, Files
  <2>4. flags = {BackupFlag} /\ Whole(file["main"])
    BY SMTT(60), <1>3, <1>6, BeforeUpdateBkp DEF StepInv, Ahead, BackupHalf
  <2>2. StepInv(p)'
    BY SMTT(60), <1>1, <1>6, <2>1, <2>4, BeforeRedo DEF StepInv
  <2>3. ActorInv(p)'
    BY <1>1, <1>3, <1>6, <2>1 DEF ActorInv
  <2> QED
    BY <1>1, <1>3, <1>4, <2>2, <2>3, GoesOn, Zenon DEF Files
<1> QED
  BY <1>1, <1>5, <1>6

\* An exception that leaves the call preserves the invariant.
LEMMA ExceptionInv ==
  ASSUME IInv, TypeOK', NEW p \in Proc, Exception(p)
  PROVE  IInv'
<1>1. PICK torn \in SUBSET Writing(p) : file' = CutShort(torn)
  BY DEF Exception
<1>2. ~Idle(p) /\ Raise(p) /\ UNCHANGED flags
  BY DEF Exception
<1>3. AtRest'
  BY <1>1, <1>2, CutIsRecoverable
<1>4. \A f \in Files : Updates(file'[f]) \subseteq Updates(file[f])
  BY <1>1, CutFacts DEF IInv
<1> QED
  BY <1>2, <1>3, <1>4, RaiseInv DEF Files

\* A crash preserves the invariant.
LEMMA CrashInv ==
  ASSUME IInv, TypeOK', "power" \notin Faults, NEW kind, Crash(kind)
  PROVE  IInv'
<1> USE DEF Idle
<1>1. /\ \A q \in Proc : pc'[q] = "idle" /\ op'[q] = "none"
      /\ UNCHANGED <<flags, cur, calls>>
  BY DEF Crash
<1>2. kind # "power"
  BY DEF Crash, Inject
<1>3. PICK torn : torn \subseteq UNION {Writing(p) : p \in Proc} /\ file' = CutShort(torn)
  BY <1>2 DEF Crash
<1>4. AtRest'
  <2>1. CASE \E p \in Proc : ~Idle(p)
    <3>1. PICK p \in Proc : ~Idle(p)
      BY <2>1
    <3>2. torn \subseteq Writing(p)
      BY <1>3, <3>1, WritingFacts DEF IInv, Serial
    <3> QED
      BY <1>1, <1>3, <3>2, CutIsRecoverable
  <2>2. CASE \A p \in Proc : Idle(p)
    <3>1. torn = {}
      BY <1>3, <2>2, WritingFacts
    <3>2. \A f \in Files : file'[f] = file[f]
      BY <1>3, <3>1, CutFacts DEF IInv
    <3> QED
      BY <1>1, <2>2, <3>2 DEF IInv, AtRest, Rest, Recoverable, Trusted, Files
  <2> QED
    BY <2>1, <2>2
<1>5. \A f \in Files : Updates(file'[f]) \subseteq Updates(file[f])
  BY <1>3, CutFacts DEF IInv
<1>6. OldInv'
  BY <1>1, <1>5 DEF IInv, OldInv, Below
<1>7. Serial' /\ EmptyInv' /\ \A q \in Proc : StepInv(q)' /\ ActorInv(q)'
  BY SMTT(60), <1>1, BeforeIdle DEF Serial, EmptyInv, StepInv, AtRest, MainAhead,
     InSync, ActorInv
<1> QED
  BY <1>4, <1>6, <1>7 DEF IInv

-----------------------------------------------------------------------------
\* Starting a call

\* The start of readWalletFile preserves the invariant.
LEMMA ReadStarts ==
  ASSUME IInv, TypeOK', SerialReads, NEW p \in Proc, readWalletFile(p)
  PROVE  IInv'
<1> USE DEF Idle
<1>1. /\ pc'[p] = "checkExists" /\ op'[p] = "read"
      /\ \A q \in Proc : pc[q] = "idle"
      /\ \A q \in Proc : q # p => pc'[q] = "idle" /\ op'[q] = op[q]
      /\ UNCHANGED <<file, flags, cur, result, calls>>
  BY DEF readWalletFile, IInv, TypeOK
<1>2. AtRest'
  BY <1>1 DEF IInv, AtRest, Rest, Recoverable, Trusted
<1>3. Serial'
  BY <1>1 DEF Serial, CheckLabels
<1>4. ASSUME NEW q \in Proc PROVE StepInv(q)' /\ ActorInv(q)'
  BY SMTT(60), <1>1, <1>2, BeforeIdle, BeforeCheck DEF StepInv, AtRest, MainAhead,
     InSync, ActorInv
<1>5. OldInv' /\ EmptyInv'
  BY <1>1 DEF IInv, OldInv, EmptyInv, Below
<1> QED
  BY <1>2, <1>3, <1>4, <1>5 DEF IInv

\* The start of walletFileSafeUpdate preserves the invariant.
LEMMA UpdateStarts ==
  ASSUME IInv, TypeOK', SerialReads, NEW p \in Proc, walletFileSafeUpdate(p)
  PROVE  IInv'
<1> USE DEF Idle
<1>1. \A q \in Proc : pc[q] = "idle"
  BY ConstantsAssumption DEF walletFileSafeUpdate, IInv, Serial
<1>0. calls' = calls + 1 /\ calls' \in 1..MaxCalls
  BY ConstantsAssumption DEF walletFileSafeUpdate, IInv, TypeOK
<1>2. /\ pc'[p] = "checkExists" /\ op'[p] = "update" /\ mutex' = p
      /\ cur'[p] = calls + 1
      /\ \A q \in Proc : q # p => pc'[q] = "idle" /\ op'[q] = op[q] /\ cur'[q] = cur[q]
      /\ UNCHANGED <<file, flags, result>>
  BY <1>1 DEF walletFileSafeUpdate, IInv, TypeOK
<1>3. AtRest'
  BY <1>1, <1>2 DEF IInv, AtRest, Rest, Recoverable, Trusted
<1>4. Serial'
  BY <1>2 DEF Serial, CheckLabels
<1>5. ASSUME NEW q \in Proc PROVE StepInv(q)'
  BY SMTT(60), <1>2, <1>3, BeforeIdle, BeforeCheck DEF StepInv, AtRest, MainAhead, InSync
<1>6. \A f \in Files : \A u \in Updates(file[f]) : u < calls + 1 /\ u \in Nat
  BY UpdatesFacts DEF IInv, OldInv, Below, TypeOK
<1>7. \A q \in Proc : cur[q] \in Nat /\ cur[q] <= calls /\ calls \in Nat
  BY DEF IInv, OldInv, TypeOK
<1>8. ASSUME NEW q \in Proc PROVE ActorInv(q)'
  <2>1. CASE q = p
    BY <1>0, <1>2, <1>6, <1>7, <2>1 DEF ActorInv, Below, CommittedLabels, Files
  <2>2. CASE q # p
    BY <1>2, <2>2 DEF ActorInv
  <2> QED
    BY <2>1, <2>2
<1>9. OldInv'
  <2>1. \A q \in Proc : cur'[q] <= calls'
    BY <1>0, <1>2, <1>7
  <2>2. \A f \in Files : Below(file'[f], calls' + 1)
    BY <1>0, <1>2, <1>6, <1>7 DEF Below
  <2> QED
    BY <2>1, <2>2 DEF OldInv
<1>10. EmptyInv'
  BY <1>1, <1>2 DEF IInv, EmptyInv
<1> QED
  BY <1>3, <1>4, <1>5, <1>8, <1>9, <1>10 DEF IInv

-----------------------------------------------------------------------------
\* The theorems

\* The invariant holds initially.
LEMMA InvInit == Init => IInv
<1> SUFFICES ASSUME Init PROVE IInv
  OBVIOUS
<1> USE DEF Idle
<1>1. TypeOK
  BY TypeInit
<1>2. \A p \in Proc : pc[p] = "idle" /\ op[p] = "none" /\ cur[p] = 0
  BY DEF Init
<1>3. file["main"] = Fresh /\ file["backup"] \in {Fresh, Absent} /\ flags = {} /\ calls = 0
  BY DEF Init, Files
<1>4. AtRest
  BY <1>3 DEF AtRest, Rest, Recoverable, Trusted, Whole, Fresh, Absent
<1>5. OldInv
  BY <1>2, <1>3, NoUpdates DEF OldInv, Below, Files
<1>6. Serial /\ EmptyInv /\ \A p \in Proc : StepInv(p) /\ ActorInv(p)
  BY SMTT(60), <1>2, BeforeIdle DEF Serial, EmptyInv, StepInv, AtRest, MainAhead,
     InSync, ActorInv
<1> QED
  BY <1>1, <1>4, <1>5, <1>6 DEF IInv

\* A step that leaves files, flags and calls alone preserves the invariant.
LEMMA Unchanged ==
  ASSUME IInv, TypeOK',
         UNCHANGED <<file, flags, pc, op, cur, result, mutex, calls>>
  PROVE  IInv'
<1>1. Serial' /\ AtRest' = AtRest
  BY DEF IInv, Serial, Idle, AtRest, Rest, Recoverable, Trusted
<1>2. ASSUME NEW p \in Proc PROVE StepInv(p)' /\ ActorInv(p)' /\ Idle(p)' = Idle(p)
  <2>1. StepInv(p) /\ ActorInv(p)
    BY DEF IInv
  <2>2. InSync' = InSync /\ MainAhead(cur[p])' = MainAhead(cur[p]) /\ AtRest' = AtRest
    BY DEF InSync, Same, MainAhead, Ahead, AtRest, Rest, Recoverable, Trusted
  <2>3. StepInv(p)'
    BY <2>1, <2>2 DEF StepInv, AtRest, InSync, Same, MainAhead, Ahead
  <2> QED
    BY <2>1, <2>3 DEF ActorInv, Idle, Below
<1>3. OldInv' /\ EmptyInv'
  BY DEF IInv, OldInv, EmptyInv, Below, Idle
<1> QED
  BY <1>1, <1>2, <1>3 DEF IInv

\* Every step preserves the invariant.
LEMMA InvNext ==
  ASSUME SerialReads, "power" \notin Faults, IInv, [Next]_vars
  PROVE  IInv'
<1>1. TypeOK'
  BY TypeNext DEF IInv
<1>2. ASSUME NEW p \in Proc, readWalletFile(p) PROVE IInv'
  BY <1>1, <1>2, ReadStarts
<1>3. ASSUME NEW p \in Proc, walletFileSafeUpdate(p) PROVE IInv'
  BY <1>1, <1>3, UpdateStarts
<1>4. ASSUME NEW p \in Proc, Step(p) PROVE IInv'
  BY <1>4, StepPreserves
<1>5. ASSUME NEW p \in Proc, IOError(p) PROVE IInv'
  BY <1>1, <1>5, IOErrorInv
<1>6. ASSUME NEW p \in Proc, Exception(p) PROVE IInv'
  BY <1>1, <1>6, ExceptionInv
<1>7. ASSUME NEW kind, Crash(kind) PROVE IInv'
  BY <1>1, <1>7, CrashInv
<1>8. ASSUME NEW f \in Files, WriteBack(f) PROVE IInv'
  BY <1>1, <1>8, Unchanged DEF WriteBack
<1>9. CASE UNCHANGED vars
  BY <1>1, <1>9, Unchanged DEF vars
<1> QED
  BY <1>2, <1>3, <1>4, <1>5, <1>6, <1>7, <1>8, <1>9 DEF Next

\* The consequences of the invariant in one state
LEMMA InvConsequences ==
  ASSUME IInv
  PROVE  Recoverable /\ UnflaggedInSync /\ EmptyMeansNotApplied
<1>1. AtRest
  BY StepIsRecoverable DEF IInv
<1>2. Recoverable /\ UnflaggedInSync
  BY <1>1 DEF AtRest, Rest, UnflaggedInSync, Recoverable, Trusted
<1>3. EmptyMeansNotApplied
  BY DEF IInv, EmptyInv, EmptyMeansNotApplied, Trusted, Files
<1> QED
  BY <1>2, <1>3

\* Whatever the number of threads, calls, crashes and I/O errors: the flag files
\* always point at a wallet file of whole updates.
THEOREM AlwaysRecoverable ==
  ASSUME SerialReads, "power" \notin Faults
  PROVE  Spec => []Recoverable
<1>1. Init => IInv
  BY InvInit
<1>2. IInv /\ [Next]_vars => IInv'
  BY InvNext
<1>3. IInv => Recoverable
  BY InvConsequences
<1> QED
  BY <1>1, <1>2, <1>3, PTL DEF Spec

\* Between calls an unflagged backup equals the main file, and an update that
\* walletFileSafeUpdate answered with the empty list is not in the wallet.
THEOREM CallersCanTrustTheAnswer ==
  ASSUME SerialReads, "power" \notin Faults
  PROVE  Spec => []AnswersAreTrue
<1>1. Init => IInv
  BY InvInit
<1>2. IInv /\ [Next]_vars => IInv'
  BY InvNext
<1>3. IInv => AnswersAreTrue
  BY InvConsequences DEF AnswersAreTrue
<1> QED
  BY <1>1, <1>2, <1>3, PTL DEF Spec

-----------------------------------------------------------------------------
\* walletFileSafeUpdate implements AtomicWallet

\* A write cut short never hits the file the flags point at
LEMMA CutKeepsWallet ==
  ASSUME IInv, NEW p \in Proc, NEW torn, torn \subseteq Writing(p),
         file' = CutShort(torn), flags' = flags
  PROVE  Wallet' = Wallet
<1> USE DEF MainFlag, BackupFlag, Files
<1>0. StepInv(p) /\ TypeOK
  BY DEF IInv
<1>1. CASE pc[p] \in {"createCopy", "bothCopy", "bkpCopy", "appendBkp", "modifyBkp",
                      "redoCopy"}
  <2>1. BackupFlag \in flags
    <3>1. /\ pc[p] = "createCopy" => BackupFlag \in flags
          /\ pc[p] = "bothCopy" => flags = {MainFlag, BackupFlag}
      BY <1>0, BeforeCreate, BeforeBoth DEF StepInv
    <3>2. pc[p] \in {"bkpCopy", "appendBkp", "modifyBkp", "redoCopy"} => flags = {BackupFlag}
      BY <1>0, BeforeBkp, BeforeUpdateBkp, BeforeRedo DEF StepInv
    <3> QED
      BY <1>1, <3>1, <3>2
  <2>2. "main" \notin torn
    BY <1>1, WritingFacts
  <2>3. file'["main"] = file["main"]
    BY <1>0, <2>2, CutFacts
  <2> QED
    BY <2>1, <2>3 DEF Wallet, Trusted
<1>2. CASE pc[p] \in {"mainCopy", "appendMain", "modifyMain", "undoCopy"}
  <2>1. flags = {MainFlag}
    BY <1>0, <1>2, BeforeMain, BeforeUpdateMain, BeforeUndo DEF StepInv
  <2>2. "backup" \notin torn
    BY <1>2, WritingFacts
  <2>3. file'["backup"] = file["backup"]
    BY <1>0, <2>2, CutFacts
  <2> QED
    BY <2>1, <2>3 DEF Wallet, Trusted
<1>3. CASE pc[p] \notin {"createCopy", "bothCopy", "bkpCopy", "appendBkp", "modifyBkp",
                         "redoCopy", "mainCopy", "appendMain", "modifyMain", "undoCopy"}
  <2>1. torn = {}
    BY <1>3 DEF Writing, Target
  <2> QED
    BY <1>0, <2>1, CutFacts DEF Wallet, Trusted
<1> QED
  BY <1>1, <1>2, <1>3

\* A step of a call is a step of AtomicWallet or leaves it alone.
LEMMA StepRefines ==
  ASSUME IInv, NEW p \in Proc, Step(p)
  PROVE  Atomic!AWNext \/ (Wallet' = Wallet /\ acked' = acked)
<1> USE DEF MainFlag, BackupFlag, Files
<1>1. CASE CheckDone(p)
  BY <1>1 DEF CheckDone, Goto, Return, ReturnRead, Wallet, Trusted
<1>2. CASE UpdateMain(p) /\ pc[p] = "touchBkp"
  BY <1>2, CommitPoint DEF UpdateMain, WriteMain, Touch, Write, Remove
<1>3. CASE UpdateBackup(p) /\ pc[p] = "removeBkp"
  BY <1>3, AcknowledgePoint DEF UpdateBackup, Write
<1>4. CASE \E from \in {"undoRemove", "redoRemove"} : RemoveAndReturn(p, from, "empty")
  <2>1. InSync /\ UNCHANGED <<file, acked>>
    BY SMTT(60), <1>4, BeforeUndo, BeforeRedo DEF RemoveAndReturn, Return, IInv,
       StepInv, AtRest, MainAhead, InSync
  <2> QED
    BY <2>1 DEF Wallet, Trusted, InSync, Same
<1>5. CASE RemoveMissing(p)
  BY <1>5 DEF RemoveMissing, Raise, Return, ReturnRead, Wallet, Trusted
<1> QED
  BY <1>1, <1>2, <1>3, <1>4, <1>5, GoKeepsWallet DEF Step, Handlers

\* Every step is a step of AtomicWallet or leaves it alone.
LEMMA NextRefines ==
  ASSUME IInv, "power" \notin Faults, [Next]_vars
  PROVE  [Atomic!AWNext]_<<Wallet, acked>>
<1>1. CASE UNCHANGED vars
  BY <1>1 DEF vars, Wallet, Trusted
<1>2. ASSUME NEW p \in Proc, readWalletFile(p) \/ walletFileSafeUpdate(p)
      PROVE  Wallet' = Wallet /\ acked' = acked
  BY <1>2 DEF readWalletFile, walletFileSafeUpdate, Wallet, Trusted
<1>3. ASSUME NEW p \in Proc, IOError(p) \/ Exception(p)
      PROVE  Wallet' = Wallet /\ acked' = acked
  <2>1. /\ flags' = flags /\ acked' = acked
        /\ \E torn \in SUBSET Writing(p) : file' = CutShort(torn)
    BY <1>3 DEF IOError, Exception, Raise, Return, ReturnRead
  <2> QED
    BY <2>1, CutKeepsWallet
<1>4. ASSUME NEW kind, Crash(kind)
      PROVE  Wallet' = Wallet /\ acked' = acked
  <2>1. PICK torn \in SUBSET (UNION {Writing(p) : p \in Proc}) : file' = CutShort(torn)
    BY <1>4 DEF Crash, Inject
  <2>2. flags' = flags /\ acked' = acked
    BY <1>4 DEF Crash
  <2>3. CASE \E p \in Proc : ~Idle(p)
    <3>1. PICK p \in Proc : ~Idle(p)
      BY <2>3
    <3>2. \A q \in Proc : q # p => Writing(q) = {}
      BY <3>1, WritingFacts DEF IInv, Serial, Idle
    <3>3. torn \subseteq Writing(p)
      BY <2>1, <3>2
    <3> QED
      BY <2>1, <2>2, <3>3, CutKeepsWallet
  <2>4. CASE \A p \in Proc : Idle(p)
    <3>1. torn = {}
      BY <2>1, <2>4, WritingFacts DEF Idle
    <3>2. \A f \in Files : file'[f] = file[f]
      BY <2>1, <3>1, CutFacts DEF IInv
    <3> QED
      BY <2>2, <3>2 DEF Wallet, Trusted, Files
  <2> QED
    BY <2>3, <2>4
<1>5. ASSUME NEW f \in Files, WriteBack(f)
      PROVE  Wallet' = Wallet /\ acked' = acked
  BY <1>5 DEF WriteBack, Wallet, Trusted
<1> QED
  BY <1>1, <1>2, <1>3, <1>4, <1>5, StepRefines DEF Next

\* walletFileSafeUpdate is atomic for any set of threads, any number of calls
\* and any number of process crashes, I/O errors and exceptions: the wallet
\* that doWalletFileConsistencyCheck would keep changes only by a whole new
\* update at its end, and an update that was acknowledged stays in it.
THEOREM UpdateIsAtomic ==
  ASSUME SerialReads, "power" \notin Faults
  PROVE  Spec => ImplementsAtomicWallet
<1>1. Init => Atomic!AWInit
  BY DEF Init, Atomic!AWInit, Trusted, Fresh, MainFlag
<1>2. IInv /\ [Next]_vars => IInv'
  BY InvNext
<1>3. IInv /\ [Next]_vars => [Atomic!AWNext]_(Atomic!awVars)
  BY NextRefines DEF Wallet, Atomic!awVars
<1> QED
  BY <1>1, <1>2, <1>3, InvInit, PTL DEF Spec, ImplementsAtomicWallet, Atomic!AWSpec

=============================================================================
