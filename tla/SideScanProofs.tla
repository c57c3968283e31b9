--------------------------- MODULE SideScanProofs ---------------------------
(***************************************************************************)
(* At most one side scan is inside the databases, and no registration is   *)
(* lost but by the races in mishaps, for any set of addresses, any number  *)
(* of calls, any requests, any chain and any number of blocks and          *)
(* reorganisations.                                                        *)
(*                                                                         *)
(* isScanning_ is not a lock: the main thread tests it and sets it, the    *)
(* side thread clears it, and the thread lives on after that.  ScanInv     *)
(* says that the flag is up as long as a thread is inside and that two     *)
(* threads inside are the same one.                                        *)
(*                                                                         *)
(* RegInv follows an address from the call that registers it to the        *)
(* wallet: it is with a call that is to come, in a filter on the list of   *)
(* children, or on its way to the wallet and already in the main filter    *)
(* (WayInv).  Whatever waits has somebody who works on it or will wake the *)
(* main thread (WakeInv), and the thread that scans is the one of the      *)
(* first child until it has handed the list over (ListInv).  At rest only the wallet and the filter are left.*)
(***************************************************************************)
EXTENDS SideScan, TLAPS

HasField(r, x) == r = [k \in DOMAIN r |-> r[k]] /\ x \in DOMAIN r

\* The fields that the argument reads are there.
Fields ==
    /\ scan = [b \in Batch |-> scan[b]]
    /\ \A b \in Batch : HasField(scan[b], "pc")
    /\ HasField(filter, "isScanning")

ScanInv ==
    /\ Fields
    /\ \A b \in Batch : Inside(b) => filter.isScanning
    /\ \A b, c \in Batch : Inside(b) /\ Inside(c) => b = c

-----------------------------------------------------------------------------
\* Nothing is inside at the start.
LEMMA InitOK == Init => ScanInv
<1> SUFFICES ASSUME Init PROVE ScanInv
  OBVIOUS
<1>1. scan = [b \in Batch |-> NoThread]
  BY DEF Init
<1>2. filter = [addrs |-> {}, toMerge |-> {}, mergeFlag |-> FALSE,
                lastScannedBlkHash |-> <<>>, isScanning |-> FALSE]
  BY DEF Init
<1>3. HasField(NoThread, "pc") /\ NoThread.pc = "none"
  BY DEF NoThread, HasField
<1>4. Fields
  BY <1>1, <1>2, <1>3 DEF Fields, HasField
<1> QED BY <1>1, <1>3, <1>4 DEF ScanInv, Inside

\* A step that neither touches the side threads nor clears isScanning_.
LEMMA OthersKeep ==
    ASSUME ScanInv, UNCHANGED scan,
           HasField(filter', "isScanning"), filter'.isScanning = filter.isScanning
    PROVE  ScanInv'
BY DEF ScanInv, Fields, Inside

\* The user interface registers and removes addresses; it starts no scan.
LEMMA UIKeeps == ASSUME ScanInv, UI PROVE ScanInv'
<1>1. HasField(filter, "isScanning")
  BY DEF ScanInv, Fields
<1>2. ASSUME NEW b \in Batch, registerAddressBatch(b)
      PROVE  UNCHANGED scan /\ HasField(filter', "isScanning") /\ filter'.isScanning = filter.isScanning
  BY <1>1, <1>2, Zenon DEF registerAddressBatch, HasField
<1>3. ASSUME NEW b \in Batch, removeAddressBulk(b)
      PROVE  UNCHANGED <<scan, filter>>
  BY <1>3 DEF removeAddressBulk
<1>4. UIPrepare \/ UIRefresh \/ UILink \/ UIFill \/ UIFlag => UNCHANGED <<scan, filter>>
  BY DEF UIPrepare, UIRefresh, UILink, UIFill, UIFlag
<1> QED BY <1>1, <1>2, <1>3, <1>4, OthersKeep DEF UI

\* Of the main thread only startSideScan touches a side thread, and only when
\* isScanning_ is down.
LEMMA MainKeeps == ASSUME ScanInv, MainThread PROVE ScanInv'
<1>1. HasField(filter, "isScanning")
  BY DEF ScanInv, Fields
<1>2. GoOnline \/ checkForMerge \/ checkForMerge_CatchUp \/ readBlkFileUpdate \/ Refresh \/ scanWallets
        => UNCHANGED <<scan, filter>>
  BY Zenon DEF GoOnline, checkForMerge, checkForMerge_CatchUp, readBlkFileUpdate, Refresh, scanWallets
<1>3. ASSUME checkForMerge_Insert
      PROVE  UNCHANGED scan /\ HasField(filter', "isScanning") /\ filter'.isScanning = filter.isScanning
  BY <1>1, <1>3, Zenon DEF checkForMerge_Insert, HasField
<1>4. ASSUME startSideScan PROVE ScanInv'
  <2>1. CASE ~(sideScanFlag /\ kids # <<>> /\ ~filter.isScanning)
    <3>1. UNCHANGED <<scan, filter>>
      BY <1>4, <2>1 DEF startSideScan
    <3> QED BY <1>1, <3>1, OthersKeep
  <2>2. CASE sideScanFlag /\ kids # <<>> /\ ~filter.isScanning
    <3>1. /\ filter' = [filter EXCEPT !.isScanning = TRUE]
          /\ scan' = scan \/ \E b : scan' = [scan EXCEPT ![b].pc = "begin"]
      BY <1>4, <2>2 DEF startSideScan, StartThread
    <3>2. HasField(filter', "isScanning") /\ filter'.isScanning
      BY <1>1, <3>1, Zenon DEF HasField
    <3>3. \A b \in Batch : ~Inside(b)
      BY <2>2 DEF ScanInv
    <3>4. CASE scan' = scan
      BY <3>2, <3>3, <3>4 DEF ScanInv, Fields, Inside
    <3>5. ASSUME NEW b, scan' = [scan EXCEPT ![b].pc = "begin"]
          PROVE  ScanInv'
      <4>1. \A c \in Batch : c # b => scan'[c] = scan[c]
        BY <3>5 DEF ScanInv, Fields
      <4>2. \A c \in Batch : HasField(scan'[c], "pc")
        BY <3>5, <4>1, Zenon DEF ScanInv, Fields, HasField
      <4>3. scan' = [c \in Batch |-> scan'[c]]
        BY <3>5 DEF ScanInv, Fields
      <4>4. \A c \in Batch : Inside(c)' => c = b
        BY <3>3, <4>1 DEF Inside
      <4> QED BY <3>2, <4>2, <4>3, <4>4 DEF ScanInv, Fields
    <3> QED BY <3>1, <3>4, <3>5
  <2> QED BY <2>1, <2>2
<1> QED BY <1>1, <1>2, <1>3, <1>4, OthersKeep DEF MainThread

\* A step of a thread that stays inside keeps the flag, and no other thread is
\* touched; LowerFlag clears the flag and is outside then; the last step ends the
\* thread.
LEMMA SideKeeps == ASSUME ScanInv, NEW b \in Batch, SideThread(b) PROVE ScanInv'
<1>1. /\ HasField(filter, "isScanning") /\ scan = [c \in Batch |-> scan[c]]
      /\ \A c \in Batch : HasField(scan[c], "pc")
  BY DEF ScanInv, Fields
<1>2. ASSUME scan' = [c \in Batch |-> scan'[c]], HasField(scan'[b], "pc"),
             \A c \in Batch : c # b => scan'[c] = scan[c],
             HasField(filter', "isScanning"),
             \/ Inside(b) /\ filter'.isScanning = filter.isScanning
             \/ ~Inside(b)' /\ filter'.isScanning = filter.isScanning
             \/ Inside(b) /\ ~Inside(b)'
      PROVE  ScanInv'
  <2>1. Fields'
    BY <1>1, <1>2 DEF Fields
  <2>2. \A c \in Batch : c # b => (Inside(c)' <=> Inside(c))
    BY <1>2 DEF Inside
  <2> QED BY <1>2, <2>1, <2>2 DEF ScanInv
<1>3. ASSUME ScanBegin(b) \/ setSSHLastScanned(b) \/ wipeScrAddrsSSH(b) \/ ScanBlocks(b)
               \/ ScanCommit(b) \/ prepareScrAddrForMerge(b) \/ needsRefresh(b) \/ ReadChild(b)
               \/ HandOver(b)
      PROVE  ScanInv'
  <2>1. UNCHANGED filter
    BY <1>3 DEF ScanBegin, setSSHLastScanned, wipeScrAddrsSSH, ScanBlocks, ScanCommit,
                prepareScrAddrForMerge, needsRefresh, ReadChild, HandOver
  <2>2. Inside(b)
    BY <1>3 DEF Inside, ScanBegin, setSSHLastScanned, wipeScrAddrsSSH, ScanBlocks, ScanCommit,
                prepareScrAddrForMerge, needsRefresh, ReadChild, HandOver
  <2>3. /\ scan' = [c \in Batch |-> scan'[c]] /\ HasField(scan'[b], "pc")
        /\ \A c \in Batch : c # b => scan'[c] = scan[c]
    <3>1. CASE ScanBegin(b)
      BY <1>1, <3>1, Zenon DEF ScanBegin, HasField
    <3>2. CASE setSSHLastScanned(b) \/ wipeScrAddrsSSH(b) \/ prepareScrAddrForMerge(b) \/ needsRefresh(b)
      BY <1>1, <3>2 DEF setSSHLastScanned, wipeScrAddrsSSH, prepareScrAddrForMerge, needsRefresh, HasField
    <3>3. CASE ScanBlocks(b)
      BY <1>1, <3>3, Zenon DEF ScanBlocks, HasField
    <3>4. CASE ScanCommit(b) \/ ReadChild(b) \/ HandOver(b)
      BY <1>1, <3>4 DEF ScanCommit, ReadChild, HandOver, HasField
    <3> QED BY <1>3, <3>1, <3>2, <3>3, <3>4
  <2> QED BY <1>1, <1>2, <2>1, <2>2, <2>3
<1>4. ASSUME merge(b) PROVE ScanInv'
  <2>1. HasField(filter', "isScanning") /\ filter'.isScanning = filter.isScanning
    BY <1>1, <1>4, Zenon DEF merge, HasField
  <2>2. Inside(b)
    BY <1>4 DEF merge, Inside
  <2>3. /\ scan' = [c \in Batch |-> scan'[c]] /\ HasField(scan'[b], "pc")
        /\ \A c \in Batch : c # b => scan'[c] = scan[c]
    BY <1>1, <1>4 DEF merge, HasField
  <2> QED BY <1>2, <2>1, <2>2, <2>3
<1>5. ASSUME LowerFlag(b) PROVE ScanInv'
  <2>1. HasField(filter', "isScanning")
    BY <1>1, <1>5, Zenon DEF LowerFlag, HasField
  <2>2. /\ scan' = [c \in Batch |-> scan'[c]] /\ HasField(scan'[b], "pc") /\ scan'[b].pc = "flag"
        /\ \A c \in Batch : c # b => scan'[c] = scan[c]
    BY <1>1, <1>5 DEF LowerFlag, HasField
  <2>3. Inside(b) /\ ~Inside(b)'
    BY <1>5, <2>2 DEF LowerFlag, Inside
  <2> QED BY <1>2, <2>1, <2>2, <2>3
<1>6. ASSUME FlagNext(b) PROVE ScanInv'
  <2>1. UNCHANGED filter
    BY <1>6 DEF FlagNext
  <2>2. /\ scan' = [c \in Batch |-> scan'[c]] /\ scan'[b] = NoThread
        /\ \A c \in Batch : c # b => scan'[c] = scan[c]
    BY <1>1, <1>6 DEF FlagNext
  <2>3. HasField(NoThread, "pc") /\ ~Inside(b)'
    BY <2>2 DEF NoThread, HasField, Inside
  <2> QED BY <1>1, <1>2, <2>1, <2>2, <2>3
<1> QED BY <1>3, <1>4, <1>5, <1>6 DEF SideThread

-----------------------------------------------------------------------------
\* At every step of the three kinds of threads, isScanning_ is up while a side
\* thread is inside, and no second one is.
THEOREM FlagIsUp == Spec => []ScanInv
<1>1. ScanInv /\ UNCHANGED vars => ScanInv'
  BY DEF ScanInv, Fields, HasField, Inside, vars
<1>2. ScanInv /\ [Next]_vars => ScanInv'
  BY <1>1, UIKeeps, MainKeeps, SideKeeps DEF Next
<1> QED BY InitOK, <1>2, PTL DEF Spec

\* OneScanAtATime always holds: whatever the user registers, whenever blocks
\* arrive and however the threads of ScrAddrFilter take turns, at most one side
\* thread is between startSideScan and the end of its hand-over.
THEOREM NeverTwoScans == Spec => []OneScanAtATime
<1>1. ScanInv => OneScanAtATime
  BY DEF ScanInv, OneScanAtATime
<1> QED BY FlagIsUp, <1>1, PTL

-----------------------------------------------------------------------------
(* No registration is lost. *)

HasFields(r, S) == r = [k \in DOMAIN r |-> r[k]] /\ S \subseteq DOMAIN r

IsSeq(s) == \E n \in Nat : s = [i \in 1 .. n |-> s[i]]

Records ==
    /\ HasFields(filter, {"addrs", "toMerge", "mergeFlag", "isScanning"})
    /\ HasFields(wlt, {"addrs", "queue"}) /\ IsSeq(wlt.queue)
    /\ HasFields(ui, {"pc", "batch", "addrs"})
    /\ filled = [b \in Batch |-> filled[b]]
    /\ kids \in Seq(Batch)
    /\ todo \in Seq(Batch)

\* The side thread has not put its addresses into the main filter yet.
Early == {"none", "begin", "set", "wipe", "scan", "commit", "merge"}

\* A call that registers a is still to come.
Expected(a) == \E k \in DOMAIN todo : req[todo[k]].kind = "add" /\ a \in req[todo[k]].addrs

\* The address a is in a filter that will be scanned, or about to be put there.
Carried(a) ==
    \/ ui.pc \in {"link", "fill"} /\ a \in ui.addrs
    \/ \E k \in DOMAIN kids : a \in filled[kids[k]] /\ scan[kids[k]].pc \in Early

\* The address a is in the wallet or on its way there.
Arriving(a) ==
    \/ ui.pc = "prepare" /\ a \in ui.addrs
    \/ \E b \in Batch : scan[b].pc = "prepare" /\ a \in filled[b]
    \/ \E k \in DOMAIN wlt.queue : a \in wlt.queue[k].add
    \/ a \in wlt.addrs

\* The user interface fills each filter once.
FillInv ==
    /\ \A j, k \in DOMAIN todo : todo[j] = todo[k] => j = k
    /\ \A k \in DOMAIN todo : filled[todo[k]] = {}
    /\ ui.pc \in {"link", "fill"} =>
          /\ ui.batch \in Batch /\ filled[ui.batch] = {} /\ ui.addrs # {}
          /\ \A k \in DOMAIN todo : todo[k] # ui.batch

\* What waits is waited for: by the main thread, or by one that will wake it.
WakeInv ==
    /\ wlt.queue # <<>> =>
          refresh \/ ui.pc = "refresh" \/ \E b \in Batch : scan[b].pc = "refresh"
    /\ ~filter.mergeFlag => filter.toMerge = {}
    /\ kids # <<>> =>
          sideScanFlag \/ ui.pc \in {"fill", "flag"} \/ \E b \in Batch : scan[b].pc # "none"

\* The side thread has not taken its filter off the list yet.
Scanning(b) == Inside(b) /\ scan[b].pc # "lower"

\* The side thread that scans does so for the first filter of the list.
ListInv ==
    /\ \A b \in Batch : scan[b].pc # "none" => filled[b] # {}
    /\ \A b \in Batch : Scanning(b) => kids # <<>> /\ kids[1] = b
    /\ filter.isScanning => \E b \in Batch : Inside(b)
    /\ ui.pc = "fill" => \E k \in DOMAIN kids : kids[k] = ui.batch

\* An address reaches the filter before the wallet, and none is dropped on the way.
WayInv ==
    /\ \A a : Arriving(a) => a \in filter.addrs \cup filter.toMerge
    /\ \A a \in Of("add") \ Of("remove") : Expected(a) \/ Carried(a) \/ Arriving(a)

QueueInv ==
    \A k \in DOMAIN wlt.queue :
        /\ wlt.queue[k].action = "DeleteAddresses" => wlt.queue[k].add = {}
        /\ wlt.queue[k].del \subseteq Of("remove")

RegInv ==
    /\ ScanInv /\ Records /\ FillInv /\ QueueInv
    /\ mishaps = {} => WakeInv /\ ListInv /\ WayInv

-----------------------------------------------------------------------------
regVars == <<req, filter, kids, filled, wlt, sideScanFlag, refresh, todo, ui, scan, mishaps>>

\* A step that touches nothing of it.
LEMMA RegStutter == ASSUME RegInv, UNCHANGED regVars PROVE RegInv'
<1>1. ScanInv'
  BY DEF RegInv, ScanInv, Fields, Inside, regVars
<1>2. Records' /\ FillInv'
  BY Zenon DEF RegInv, Records, FillInv, regVars
<1>6. QueueInv'
  BY DEF RegInv, QueueInv, Of, regVars
<1>3. WakeInv => WakeInv'
  BY DEF WakeInv, regVars
<1>4. ListInv => ListInv'
  BY DEF ListInv, Scanning, Inside, regVars
<1>5. WayInv => WayInv'
  <2>1. \A a : (Expected(a)' <=> Expected(a)) /\ (Carried(a)' <=> Carried(a)) /\ (Arriving(a)' <=> Arriving(a))
    BY DEF Expected, Carried, Arriving, regVars
  <2>2. Of("add")' = Of("add") /\ Of("remove")' = Of("remove")
    BY DEF Of, regVars
  <2> QED BY <2>1, <2>2 DEF WayInv, regVars
<1> QED BY <1>1, <1>2, <1>3, <1>4, <1>5, <1>6 DEF RegInv, regVars

\* What an appended element leaves as it was.
LEMMA AppendIs ==
    ASSUME NEW s, IsSeq(s), NEW e
    PROVE  /\ IsSeq(Append(s, e))
           /\ DOMAIN s \subseteq DOMAIN Append(s, e)
           /\ \A k \in DOMAIN s : Append(s, e)[k] = s[k]
           /\ \A k \in DOMAIN Append(s, e) : k \in DOMAIN s \/ Append(s, e)[k] = e
           /\ \E k \in DOMAIN Append(s, e) : Append(s, e)[k] = e
<1>1. PICK n \in Nat : s = [i \in 1 .. n |-> s[i]]
  BY DEF IsSeq
<1> DEFINE S == {s[i] : i \in 1 .. n} \cup {e}
<1>2. s \in Seq(S) /\ e \in S /\ Len(s) = n
  BY <1>1
<1> HIDE DEF S
<1>3. Append(s, e) = [i \in 1 .. n + 1 |-> IF i <= n THEN s[i] ELSE e]
  BY <1>1, <1>2
<1> DEFINE r == Append(s, e)
<1>4. DOMAIN r = 1 .. n + 1 /\ r[n + 1] = e /\ n + 1 \in 1 .. n + 1
  BY <1>3
<1>5. DOMAIN s = 1 .. n /\ 1 .. n \subseteq 1 .. n + 1 /\ \A k \in 1 .. n : r[k] = s[k]
  BY <1>1, <1>3
<1>6. \A k \in 1 .. n + 1 : k \in 1 .. n \/ k = n + 1
  OBVIOUS
<1>7. r = [i \in 1 .. n + 1 |-> r[i]]
  BY <1>3
<1> HIDE DEF r
<1>8. IsSeq(r)
  <2>1. n + 1 \in Nat
    OBVIOUS
  <2> QED BY <1>7, <2>1 DEF IsSeq
<1>9. DOMAIN s \subseteq DOMAIN r /\ \A k \in DOMAIN s : r[k] = s[k]
  BY <1>4, <1>5
<1>10. \A k \in DOMAIN r : k \in DOMAIN s \/ r[k] = e
  BY <1>4, <1>5, <1>6
<1>11. \E k \in DOMAIN r : r[k] = e
  BY <1>4
<1> QED BY <1>8, <1>9, <1>10, <1>11 DEF r

\* Nothing is registered or scanned at the start, and every call is to come.
LEMMA RegInit == Init => RegInv
<1> SUFFICES ASSUME Init PROVE RegInv
  OBVIOUS
<1>1. PICK n \in Nat : Batch = 1 .. n
  BY BatchAssumption
<1>2. /\ todo = [b \in Batch |-> b] /\ kids = <<>> /\ filled = [b \in Batch |-> {}]
      /\ wlt = [addrs |-> {}, queue |-> <<>>] /\ ui = UIIdle
      /\ scan = [b \in Batch |-> NoThread]
      /\ filter = [addrs |-> {}, toMerge |-> {}, mergeFlag |-> FALSE,
                   lastScannedBlkHash |-> <<>>, isScanning |-> FALSE]
  BY DEF Init
<1>3. todo \in Seq(Batch) /\ DOMAIN todo = Batch
  BY <1>1, <1>2
<1>4. HasFields(ui, {"pc", "batch", "addrs"}) /\ ui.pc = "idle"
  BY <1>2, Zenon DEF UIIdle, HasFields
<1>5. IsSeq(<<>>)
  <2>1. <<>> = [i \in 1 .. 0 |-> <<>>[i]]
    OBVIOUS
  <2> QED BY <2>1 DEF IsSeq
<1>6. Records
  BY <1>2, <1>3, <1>4, <1>5 DEF Records, HasFields
<1>7. FillInv /\ QueueInv
  BY <1>2, <1>3, <1>4 DEF FillInv, QueueInv
<1>8. WakeInv
  BY <1>2 DEF WakeInv
<1>9. \A b \in Batch : scan[b].pc = "none"
  BY <1>2 DEF NoThread
<1>10. ListInv
  BY <1>2, <1>4, <1>9 DEF ListInv, Scanning, Inside
<1>11. WayInv
  <2>1. \A a : ~Arriving(a)
    BY <1>2, <1>4, <1>9 DEF Arriving
  <2>2. \A a \in Of("add") : Expected(a)
    BY <1>2, <1>3 DEF Of, Expected
  <2> QED BY <2>1, <2>2 DEF WayInv
<1> QED BY InitOK, <1>6, <1>7, <1>8, <1>10, <1>11 DEF RegInv

\* The rest of a sequence.
LEMMA TailIs ==
    ASSUME NEW S, NEW s \in Seq(S), s # <<>>
    PROVE  /\ Tail(s) \in Seq(S) /\ 1 \in DOMAIN s /\ Head(s) = s[1]
           /\ \A k \in DOMAIN Tail(s) : k + 1 \in DOMAIN s /\ k # 0 /\ Tail(s)[k] = s[k + 1]
           /\ \A k \in DOMAIN s : k # 1 => \E j \in DOMAIN Tail(s) : s[k] = Tail(s)[j]
<1>1. Len(s) \in Nat \ {0} /\ DOMAIN s = 1 .. Len(s)
  OBVIOUS
<1>2. Tail(s) \in Seq(S) /\ Len(Tail(s)) = Len(s) - 1 /\ DOMAIN Tail(s) = 1 .. Len(s) - 1
  BY <1>1
<1>3. \A k \in 1 .. Len(s) - 1 : Tail(s)[k] = s[k + 1]
  BY <1>1
<1>4. \A k \in DOMAIN Tail(s) : k + 1 \in DOMAIN s /\ k # 0 /\ Tail(s)[k] = s[k + 1]
  BY <1>1, <1>2, <1>3
<1>5. ASSUME NEW k \in DOMAIN s, k # 1 PROVE \E j \in DOMAIN Tail(s) : s[k] = Tail(s)[j]
  <2>1. k - 1 \in DOMAIN Tail(s) /\ s[k] = Tail(s)[k - 1]
    BY <1>1, <1>2, <1>3, <1>5
  <2> QED BY <2>1
<1> QED BY <1>1, <1>2, <1>4, <1>5

\* The call that is made is no longer to come.
LEMMA CallIsMade ==
    ASSUME RegInv, NEW b \in Batch, ui.pc = "idle", todo # <<>>, b = Head(todo),
           todo' = Tail(todo), UNCHANGED <<req, filled>>
    PROVE  /\ todo' \in Seq(Batch) /\ filled[b] = {}
           /\ \A j, k \in DOMAIN todo' : todo'[j] = todo'[k] => j = k
           /\ \A k \in DOMAIN todo' : filled'[todo'[k]] = {} /\ todo'[k] # b
           /\ \A a : Expected(a) => Expected(a)' \/ (req[b].kind = "add" /\ a \in req[b].addrs)
<1>1. /\ todo \in Seq(Batch)
      /\ \A j, k \in DOMAIN todo : todo[j] = todo[k] => j = k
      /\ \A k \in DOMAIN todo : filled[todo[k]] = {}
  BY Zenon DEF RegInv, Records, FillInv
<1>2. /\ todo' \in Seq(Batch) /\ 1 \in DOMAIN todo /\ b = todo[1]
      /\ \A k \in DOMAIN todo' : k + 1 \in DOMAIN todo /\ k # 0 /\ todo'[k] = todo[k + 1]
      /\ \A k \in DOMAIN todo : k # 1 => \E j \in DOMAIN todo' : todo[k] = todo'[j]
  BY <1>1, TailIs
<1>3. \A k \in DOMAIN todo' : k \in Int
  BY <1>2
<1>4. ASSUME NEW j \in DOMAIN todo', NEW k \in DOMAIN todo', todo'[j] = todo'[k] PROVE j = k
  <2>1. j + 1 = k + 1
    BY <1>1, <1>2, <1>4
  <2> QED BY <1>3, <2>1
<1>5. \A k \in DOMAIN todo' : filled'[todo'[k]] = {} /\ todo'[k] # b
  <2> SUFFICES ASSUME NEW k \in DOMAIN todo' PROVE filled[todo'[k]] = {} /\ todo'[k] # b
    OBVIOUS
  <2>1. k + 1 \in DOMAIN todo /\ todo'[k] = todo[k + 1] /\ k + 1 # 1
    BY <1>2, <1>3
  <2> QED BY <1>1, <1>2, <2>1
<1>6. ASSUME NEW a, Expected(a) PROVE Expected(a)' \/ (req[b].kind = "add" /\ a \in req[b].addrs)
  <2>1. PICK k \in DOMAIN todo : req[todo[k]].kind = "add" /\ a \in req[todo[k]].addrs
    BY <1>6 DEF Expected
  <2>2. CASE k = 1
    BY <1>2, <2>1, <2>2
  <2>3. CASE k # 1
    <3>1. PICK j \in DOMAIN todo' : todo[k] = todo'[j]
      BY <1>2, <2>3
    <3>2. req'[todo'[j]].kind = "add" /\ a \in req'[todo'[j]].addrs
      BY <2>1, <3>1
    <3>3. Expected(a)'
      BY <3>1, <3>2 DEF Expected
    <3> QED BY <3>3
  <2> QED BY <2>2, <2>3
<1> QED BY <1>1, <1>2, <1>4, <1>5, <1>6

\* registerAddressBatch hands the addresses to a filter that will be scanned,
\* or to the main filter and the wallet at once.
LEMMA RegisterKeeps ==
    ASSUME RegInv, ScanInv', NEW b \in Batch, registerAddressBatch(b)
    PROVE  RegInv'
<1>1. /\ ui.pc = "idle" /\ todo # <<>> /\ b = Head(todo) /\ todo' = Tail(todo)
      /\ UNCHANGED <<req, kids, filled, sideScanFlag, refresh, scan, mishaps>>
  BY DEF registerAddressBatch
<1>2. /\ todo' \in Seq(Batch) /\ filled[b] = {}
      /\ \A j, k \in DOMAIN todo' : todo'[j] = todo'[k] => j = k
      /\ \A k \in DOMAIN todo' : filled'[todo'[k]] = {} /\ todo'[k] # b
      /\ \A a : Expected(a) => Expected(a)' \/ (req[b].kind = "add" /\ a \in req[b].addrs)
  BY <1>1, CallIsMade
<1>3. /\ Records /\ QueueInv /\ HasFields(filter, {"addrs", "toMerge", "mergeFlag", "isScanning"})
      /\ HasFields(wlt, {"addrs", "queue"})
  BY DEF RegInv, Records
<1>4. req[b].kind = "add" => \A a \in req[b].addrs : a \in Asked(b) \/ a \in wlt.addrs
  BY DEF Asked
<1>5. Of("add")' = Of("add") /\ Of("remove")' = Of("remove")
  BY <1>1 DEF Of
<1>6. ASSUME HasFields(filter', {"addrs", "toMerge", "mergeFlag", "isScanning"}),
             HasFields(wlt', {"addrs", "queue"}), wlt'.queue = wlt.queue,
             HasFields(ui', {"pc", "batch", "addrs"}), ui'.pc \in {"idle", "prepare", "link"},
             ui'.pc # "idle" => ui'.batch = b /\ ui'.addrs = Asked(b) /\ Asked(b) # {},
             filter'.isScanning = filter.isScanning,
             filter.addrs \cup filter.toMerge \subseteq filter'.addrs \cup filter'.toMerge,
             ~filter'.mergeFlag => ~filter.mergeFlag /\ filter'.toMerge = filter.toMerge,
             wlt.addrs \subseteq wlt'.addrs, wlt'.addrs \subseteq wlt.addrs \cup Asked(b),
             ui'.pc = "prepare" \/ wlt'.addrs # wlt.addrs => Asked(b) \subseteq filter'.addrs \cup filter'.toMerge,
             ui'.pc = "idle" => Asked(b) \subseteq wlt'.addrs
      PROVE  RegInv'
  <2>1. Records'
    BY <1>1, <1>2, <1>3, <1>6 DEF Records
  <2>2. FillInv'
    <3>1. ui'.pc \in {"link", "fill"} => ui'.batch = b /\ ui'.addrs # {}
      BY <1>6
    <3> QED BY <1>1, <1>2, <3>1 DEF FillInv
  <2>3. QueueInv'
    BY <1>3, <1>5, <1>6 DEF QueueInv
  <2>4. WakeInv => WakeInv'
    BY <1>1, <1>6 DEF WakeInv
  <2>5. ListInv => ListInv'
    BY <1>1, <1>6 DEF ListInv, Scanning, Inside
  <2>6. \A a : Carried(a) => Carried(a)'
    BY <1>1 DEF Carried
  <2>7. \A a : Arriving(a) => Arriving(a)'
    BY <1>1, <1>6 DEF Arriving
  <2>8. \A a : Arriving(a)' => Arriving(a) \/ a \in filter'.addrs \cup filter'.toMerge
    <3> SUFFICES ASSUME NEW a, Arriving(a)', ~Arriving(a) PROVE a \in filter'.addrs \cup filter'.toMerge
      OBVIOUS
    <3>1. (ui'.pc = "prepare" /\ a \in ui'.addrs) \/ (a \in wlt'.addrs /\ a \notin wlt.addrs)
      <4>1. a \notin wlt.addrs /\ ~\E k \in DOMAIN wlt.queue : a \in wlt.queue[k].add
        BY DEF Arriving
      <4>2. ~\E c \in Batch : scan[c].pc = "prepare" /\ a \in filled[c]
        BY DEF Arriving
      <4> QED BY <1>1, <1>6, <4>1, <4>2 DEF Arriving
    <3> QED BY <1>6, <3>1
  <2>9. \A a \in Asked(b) : Carried(a)' \/ Arriving(a)'
    BY <1>6 DEF Carried, Arriving
  <2>10. \A a \in wlt.addrs : Arriving(a)'
    BY <1>6 DEF Arriving
  <2>11. WayInv => WayInv'
    <3> SUFFICES ASSUME WayInv PROVE WayInv'
      BY Zenon
    <3>1. \A a : Arriving(a)' => a \in filter'.addrs \cup filter'.toMerge
      BY <1>6, <2>8 DEF WayInv
    <3>2. ASSUME NEW a \in Of("add") \ Of("remove")
          PROVE  Expected(a)' \/ Carried(a)' \/ Arriving(a)'
      <4>1. Expected(a) \/ Carried(a) \/ Arriving(a)
        BY DEF WayInv
      <4> QED BY <1>2, <1>4, <2>6, <2>7, <2>9, <2>10, <4>1, Zenon
    <3> QED BY <1>5, <3>1, <3>2 DEF WayInv
  <2> QED BY <1>1, <2>1, <2>2, <2>3, <2>4, <2>5, <2>11 DEF RegInv
<1>7. HasFields(UIIdle, {"pc", "batch", "addrs"}) /\ UIIdle.pc = "idle"
  BY DEF UIIdle, HasFields
<1>8. ASSUME NEW c \in {"prepare", "link"}, UIThread(c, b)
      PROVE  /\ HasFields(ui', {"pc", "batch", "addrs"})
             /\ ui'.pc = c /\ ui'.batch = b /\ ui'.addrs = Asked(b)
  BY <1>8 DEF UIThread, HasFields
<1>9. CASE Asked(b) = {} /\ UIThread("idle", b) /\ UNCHANGED <<filter, wlt>>
  <2>1. ui' = UIIdle
    BY <1>9 DEF UIThread
  <2> QED BY <1>3, <1>6, <1>7, <1>9, <2>1
<1>10. CASE /\ Asked(b) # {} /\ UIThread("idle", b)
            /\ filter' = [filter EXCEPT !.addrs = @ \cup Asked(b)]
            /\ wlt' = [wlt EXCEPT !.addrs = @ \cup Asked(b)]
  <2>1. ui' = UIIdle
    BY <1>10 DEF UIThread
  <2>2. /\ HasFields(filter', {"addrs", "toMerge", "mergeFlag", "isScanning"})
        /\ filter'.isScanning = filter.isScanning /\ filter'.toMerge = filter.toMerge
        /\ filter'.mergeFlag = filter.mergeFlag /\ filter'.addrs = filter.addrs \cup Asked(b)
    BY <1>3, <1>10, Zenon DEF HasFields
  <2>3. /\ HasFields(wlt', {"addrs", "queue"}) /\ wlt'.queue = wlt.queue
        /\ wlt'.addrs = wlt.addrs \cup Asked(b)
    BY <1>3, <1>10, Zenon DEF HasFields
  <2> QED BY <1>6, <1>7, <2>1, <2>2, <2>3
<1>11. CASE /\ Asked(b) # {} /\ UIThread("prepare", b) /\ UNCHANGED wlt
            /\ filter' = [filter EXCEPT !.toMerge = @ \cup Asked(b), !.mergeFlag = TRUE]
  <2>1. /\ HasFields(filter', {"addrs", "toMerge", "mergeFlag", "isScanning"})
        /\ filter'.isScanning = filter.isScanning /\ filter'.addrs = filter.addrs
        /\ filter'.mergeFlag /\ filter'.toMerge = filter.toMerge \cup Asked(b)
    BY <1>3, <1>11, Zenon DEF HasFields
  <2> QED BY <1>3, <1>6, <1>8, <1>11, <2>1
<1>12. CASE Asked(b) # {} /\ UIThread("link", b) /\ UNCHANGED <<filter, wlt>>
  BY <1>3, <1>6, <1>8, <1>12
<1> QED BY <1>9, <1>10, <1>11, <1>12 DEF registerAddressBatch

\* What the queue of the wallet is told is looked at.
LEMMA EnqueueFacts ==
    ASSUME RegInv, NEW act, NEW add, NEW del, NEW hash, Enqueue(act, add, del, hash)
    PROVE  /\ HasFields(wlt', {"addrs", "queue"}) /\ IsSeq(wlt'.queue)
           /\ wlt'.addrs = wlt.addrs
           /\ \A k \in DOMAIN wlt.queue : k \in DOMAIN wlt'.queue /\ wlt'.queue[k] = wlt.queue[k]
           /\ \A k \in DOMAIN wlt'.queue :
                 \/ k \in DOMAIN wlt.queue
                 \/ /\ wlt'.queue[k].action = act
                    /\ wlt'.queue[k].add = add /\ wlt'.queue[k].del = del
           /\ \E k \in DOMAIN wlt'.queue : wlt'.queue[k].add = add
<1> DEFINE e == [action |-> act, add |-> add, del |-> del, hash |-> hash]
<1>1. HasFields(wlt, {"addrs", "queue"}) /\ IsSeq(wlt.queue)
  BY DEF RegInv, Records
<1>2. wlt' = [wlt EXCEPT !.queue = Append(wlt.queue, e)]
  BY DEF Enqueue
<1> HIDE DEF e
<1>3. HasFields(wlt', {"addrs", "queue"}) /\ wlt'.addrs = wlt.addrs /\ wlt'.queue = Append(wlt.queue, e)
  BY <1>1, <1>2 DEF HasFields
<1>4. e.action = act /\ e.add = add /\ e.del = del
  BY DEF e
<1>5. /\ IsSeq(wlt'.queue) /\ DOMAIN wlt.queue \subseteq DOMAIN wlt'.queue
      /\ \A k \in DOMAIN wlt.queue : wlt'.queue[k] = wlt.queue[k]
      /\ \A k \in DOMAIN wlt'.queue : k \in DOMAIN wlt.queue \/ wlt'.queue[k] = e
      /\ \E k \in DOMAIN wlt'.queue : wlt'.queue[k] = e
  BY <1>1, <1>3, AppendIs
<1> QED BY <1>3, <1>4, <1>5, Zenon

\* A step of the user interface outside registerAddressBatch, told by the
\* addresses that it carries on.
LEMMA UIMoves ==
    ASSUME RegInv, ScanInv', UNCHANGED <<req, filter, kids, filled, sideScanFlag, scan, mishaps>>,
           Records', FillInv', QueueInv',
           ui.pc \notin {"link", "fill", "flag"}, ui'.pc \notin {"link", "fill", "flag", "prepare"},
           wlt'.queue # <<>> => refresh' \/ ui'.pc = "refresh" \/ (wlt.queue # <<>> /\ refresh' = refresh /\ ui.pc # "refresh"),
           \A a : Expected(a) => Expected(a)' \/ Arriving(a)',
           \A a : Arriving(a)' => Arriving(a),
           \A a : Arriving(a) => Arriving(a)'
    PROVE  RegInv'
<1>1. WakeInv => WakeInv'
  BY DEF WakeInv
<1>2. ListInv => ListInv'
  BY DEF ListInv, Scanning, Inside
<1>3. WayInv => WayInv'
  <2>1. \A a : Carried(a) => Carried(a)'
    BY DEF Carried
  <2>2. Of("add")' = Of("add") /\ Of("remove")' = Of("remove")
    BY DEF Of
  <2> QED BY <2>1, <2>2 DEF WayInv
<1> QED BY <1>1, <1>2, <1>3, Zenon DEF RegInv

\* The addresses of a batch that needs no scan go to the wallet.
LEMMA UIPrepareKeeps == ASSUME RegInv, ScanInv', UIPrepare PROVE RegInv'
<1>1. /\ ui.pc = "prepare" /\ ui' = [ui EXCEPT !.pc = "refresh"]
      /\ UNCHANGED <<req, filter, kids, filled, sideScanFlag, refresh, todo, scan, mishaps>>
      /\ Enqueue("NoRescan", ui.addrs, {}, <<>>)
  BY DEF UIPrepare
<1>2. /\ HasFields(wlt', {"addrs", "queue"}) /\ IsSeq(wlt'.queue) /\ wlt'.addrs = wlt.addrs
      /\ \A k \in DOMAIN wlt.queue : k \in DOMAIN wlt'.queue /\ wlt'.queue[k] = wlt.queue[k]
      /\ \A k \in DOMAIN wlt'.queue :
           \/ k \in DOMAIN wlt.queue
           \/ /\ wlt'.queue[k].action = "NoRescan"
              /\ wlt'.queue[k].add = ui.addrs /\ wlt'.queue[k].del = {}
      /\ \E k \in DOMAIN wlt'.queue : wlt'.queue[k].add = ui.addrs
  BY <1>1, EnqueueFacts
<1>3. HasFields(ui', {"pc", "batch", "addrs"}) /\ ui'.pc = "refresh" /\ ui'.addrs = ui.addrs
  BY <1>1 DEF RegInv, Records, HasFields
<1>4. Records' /\ FillInv'
  BY <1>1, <1>2, <1>3, Zenon DEF RegInv, Records, FillInv
<1>5. QueueInv'
  <2>1. Of("remove")' = Of("remove")
    BY <1>1 DEF Of
  <2> QED BY <1>2, <2>1 DEF RegInv, QueueInv
<1>6. \A a : Arriving(a)' <=> Arriving(a)
  <2>1. \A a : (\E k \in DOMAIN wlt'.queue : a \in wlt'.queue[k].add) <=>
               (a \in ui.addrs \/ \E k \in DOMAIN wlt.queue : a \in wlt.queue[k].add)
    BY <1>2
  <2> QED BY <1>1, <1>2, <1>3, <2>1 DEF Arriving
<1>7. \A a : Expected(a) => Expected(a)'
  BY <1>1 DEF Expected
<1> QED BY <1>1, <1>3, <1>4, <1>5, <1>6, <1>7, UIMoves

\* The main thread is told that the wallet is to be refreshed.
LEMMA UIRefreshKeeps == ASSUME RegInv, ScanInv', UIRefresh PROVE RegInv'
<1>1. /\ ui.pc = "refresh" /\ ui' = UIIdle /\ refresh'
      /\ UNCHANGED <<req, filter, kids, filled, wlt, sideScanFlag, todo, scan, mishaps>>
  BY DEF UIRefresh
<1>2. HasFields(ui', {"pc", "batch", "addrs"}) /\ ui'.pc = "idle"
  BY <1>1, Zenon DEF UIIdle, HasFields
<1>3. Records' /\ FillInv'
  BY <1>1, <1>2, Zenon DEF RegInv, Records, FillInv
<1>4. QueueInv'
  BY <1>1 DEF RegInv, QueueInv, Of
<1>5. \A a : Arriving(a)' <=> Arriving(a)
  BY <1>1, <1>2 DEF Arriving
<1>6. \A a : Expected(a) => Expected(a)'
  BY <1>1 DEF Expected
<1> QED BY <1>1, <1>2, <1>3, <1>4, <1>5, <1>6, UIMoves

\* A call that removes addresses has none to register.
LEMMA RemoveKeeps == ASSUME RegInv, ScanInv', NEW b \in Batch, removeAddressBulk(b) PROVE RegInv'
<1>1. /\ ui.pc = "idle" /\ todo # <<>> /\ b = Head(todo) /\ todo' = Tail(todo) /\ req[b].kind = "remove"
      /\ ui' = [UIIdle EXCEPT !.pc = "refresh"]
      /\ UNCHANGED <<req, filter, kids, filled, sideScanFlag, refresh, scan, mishaps>>
      /\ Enqueue("DeleteAddresses", {}, req[b].addrs, <<>>)
  BY DEF removeAddressBulk
<1>2. /\ HasFields(wlt', {"addrs", "queue"}) /\ IsSeq(wlt'.queue) /\ wlt'.addrs = wlt.addrs
      /\ \A k \in DOMAIN wlt.queue : k \in DOMAIN wlt'.queue /\ wlt'.queue[k] = wlt.queue[k]
      /\ \A k \in DOMAIN wlt'.queue :
           \/ k \in DOMAIN wlt.queue
           \/ /\ wlt'.queue[k].action = "DeleteAddresses"
              /\ wlt'.queue[k].add = {} /\ wlt'.queue[k].del = req[b].addrs
  BY <1>1, EnqueueFacts
<1>3. /\ todo' \in Seq(Batch)
      /\ \A j, k \in DOMAIN todo' : todo'[j] = todo'[k] => j = k
      /\ \A k \in DOMAIN todo' : filled'[todo'[k]] = {} /\ todo'[k] # b
      /\ \A a : Expected(a) => Expected(a)' \/ (req[b].kind = "add" /\ a \in req[b].addrs)
  BY <1>1, CallIsMade, Zenon
<1>4. HasFields(ui', {"pc", "batch", "addrs"}) /\ ui'.pc = "refresh"
  BY <1>1, Zenon DEF UIIdle, HasFields
<1>5. Records' /\ FillInv'
  BY <1>1, <1>2, <1>3, <1>4 DEF RegInv, Records, FillInv
<1>6. QueueInv'
  <2>1. Of("remove")' = Of("remove") /\ req[b].addrs \subseteq Of("remove")
    BY <1>1 DEF Of
  <2> QED BY <1>2, <2>1 DEF RegInv, QueueInv
<1>7. \A a : Arriving(a)' <=> Arriving(a)
  <2>1. \A a : (\E k \in DOMAIN wlt'.queue : a \in wlt'.queue[k].add) <=>
               \E k \in DOMAIN wlt.queue : a \in wlt.queue[k].add
    BY <1>2
  <2> QED BY <1>1, <1>2, <1>4, <2>1 DEF Arriving
<1> QED BY <1>1, <1>3, <1>4, <1>5, <1>6, <1>7, UIMoves

\* The filter is hung on the list, unless the one above it has left it.
LEMMA UILinkKeeps == ASSUME RegInv, ScanInv', UILink PROVE RegInv'
<1>1. /\ ui.pc = "link" /\ ui' = [ui EXCEPT !.pc = "fill"]
      /\ UNCHANGED <<req, filter, filled, wlt, sideScanFlag, refresh, todo, scan>>
      /\ \/ kids' = Append(kids, ui.batch) /\ UNCHANGED mishaps
         \/ mishaps' = mishaps \cup {"detached"} /\ UNCHANGED kids
  BY DEF UILink
<1>2. kids \in Seq(Batch) /\ ui.batch \in Batch
  BY <1>1 DEF RegInv, Records, FillInv
<1>3. /\ HasFields(ui', {"pc", "batch", "addrs"})
      /\ ui'.pc = "fill" /\ ui'.batch = ui.batch /\ ui'.addrs = ui.addrs
  BY <1>1 DEF RegInv, Records, HasFields
<1>4. kids' \in Seq(Batch)
  BY <1>1, <1>2
<1>5. Records' /\ FillInv'
  BY <1>1, <1>3, <1>4, Zenon DEF RegInv, Records, FillInv
<1>6. QueueInv'
  BY <1>1 DEF RegInv, QueueInv, Of
<1>7. ASSUME mishaps' = {} PROVE WakeInv' /\ ListInv' /\ WayInv'
  <2>1. mishaps = {} /\ kids' = Append(kids, ui.batch)
    BY <1>1, <1>7
  <2>2. WakeInv /\ ListInv /\ WayInv
    BY <2>1 DEF RegInv
  <2>3. /\ \A k \in DOMAIN kids : k \in DOMAIN kids' /\ kids'[k] = kids[k]
        /\ kids # <<>> => 1 \in DOMAIN kids
        /\ \E k \in DOMAIN kids' : kids'[k] = ui.batch
    <3>1. DOMAIN kids = 1 .. Len(kids) /\ Len(kids) \in Nat
      BY <1>2
    <3>2. DOMAIN kids' = 1 .. Len(kids) + 1 /\ kids'[Len(kids) + 1] = ui.batch
      BY <1>2, <2>1
    <3>3. \A k \in DOMAIN kids : kids'[k] = kids[k]
      BY <1>2, <2>1
    <3>4. kids # <<>> => Len(kids) # 0
      BY <1>2
    <3> QED BY <3>1, <3>2, <3>3, <3>4
  <2>4. WakeInv'
    BY <1>1, <1>3, <2>2 DEF WakeInv
  <2>5. kids # <<>> => kids' # <<>> /\ kids'[1] = kids[1]
    BY <2>3
  <2>6. ListInv'
    BY <1>1, <1>3, <2>2, <2>3, <2>5 DEF ListInv, Scanning, Inside
  <2>7. \A a : Carried(a) => Carried(a)'
    <3>1. ASSUME NEW a, NEW k \in DOMAIN kids, a \in filled[kids[k]], scan[kids[k]].pc \in Early
          PROVE  Carried(a)'
      BY <1>1, <2>3, <3>1 DEF Carried
    <3>2. ASSUME NEW a \in ui.addrs PROVE Carried(a)'
      BY <1>3 DEF Carried
    <3> QED BY <3>1, <3>2 DEF Carried
  <2>8. \A a : (Arriving(a)' <=> Arriving(a)) /\ (Expected(a)' <=> Expected(a))
    BY <1>1, <1>3 DEF Arriving, Expected
  <2>9. Of("add")' = Of("add") /\ Of("remove")' = Of("remove")
    BY <1>1 DEF Of
  <2>10. WayInv'
    BY <1>1, <2>2, <2>7, <2>8, <2>9 DEF WayInv
  <2> QED BY <2>4, <2>6, <2>10
<1> QED BY <1>5, <1>6, <1>7 DEF RegInv

\* The filter gets its addresses.  No side thread has begun with it.
LEMMA UIFillKeeps == ASSUME RegInv, ScanInv', UIFill PROVE RegInv'
<1>1. /\ ui.pc = "fill" /\ ui' = [ui EXCEPT !.pc = "flag"]
      /\ filled' = [filled EXCEPT ![ui.batch] = ui.addrs]
      /\ UNCHANGED <<req, filter, kids, wlt, sideScanFlag, refresh, todo, scan, mishaps>>
  BY DEF UIFill
<1>2. /\ ui.batch \in Batch /\ filled[ui.batch] = {} /\ ui.addrs # {}
      /\ \A k \in DOMAIN todo : todo[k] # ui.batch
  BY <1>1 DEF RegInv, FillInv
<1>3. HasFields(ui', {"pc", "batch", "addrs"}) /\ ui'.pc = "flag"
  BY <1>1 DEF RegInv, Records, HasFields
<1>4. /\ filled' = [b \in Batch |-> filled'[b]] /\ filled'[ui.batch] = ui.addrs
      /\ \A b \in Batch : b # ui.batch => filled'[b] = filled[b]
  BY <1>1, <1>2, Zenon DEF RegInv, Records
<1>5. kids \in Seq(Batch) /\ todo \in Seq(Batch)
  BY DEF RegInv, Records
<1>6. \A k \in DOMAIN kids : kids[k] \in Batch
  BY <1>5
<1>7. \A k \in DOMAIN todo : todo[k] \in Batch
  BY <1>5
<1>8. Records'
  BY <1>1, <1>3, <1>4 DEF RegInv, Records
<1>9. FillInv'
  BY <1>1, <1>2, <1>3, <1>4, <1>7 DEF RegInv, FillInv
<1>10. QueueInv'
  BY <1>1 DEF RegInv, QueueInv, Of
<1>11. ASSUME WakeInv, ListInv, WayInv PROVE WakeInv' /\ ListInv' /\ WayInv'
  <2>1. scan[ui.batch].pc = "none"
    BY <1>2, <1>11 DEF ListInv
  <2>2. WakeInv'
    BY <1>1, <1>3, <1>11 DEF WakeInv
  <2>3. ListInv'
    BY <1>1, <1>2, <1>3, <1>4, <1>11 DEF ListInv, Scanning, Inside
  <2>4. ASSUME NEW a, Carried(a) PROVE Carried(a)'
    <3>1. CASE a \in ui.addrs
      <4>1. PICK k \in DOMAIN kids : kids[k] = ui.batch
        BY <1>1, <1>11 DEF ListInv
      <4> QED BY <1>1, <1>4, <2>1, <3>1, <4>1 DEF Carried, Early
    <3>2. ASSUME NEW k \in DOMAIN kids, a \in filled[kids[k]], scan[kids[k]].pc \in Early
          PROVE  Carried(a)'
      <4>1. a \in filled'[kids[k]]
        BY <1>2, <1>4, <1>6, <3>2
      <4> QED BY <1>1, <3>2, <4>1 DEF Carried
    <3> QED BY <2>4, <3>1, <3>2 DEF Carried
  <2>5. \A a : Arriving(a)' <=> Arriving(a)
    <3>1. \A b \in Batch : scan[b].pc = "prepare" => filled'[b] = filled[b]
      BY <1>4, <2>1
    <3> QED BY <1>1, <1>3, <3>1 DEF Arriving
  <2>6. \A a : Expected(a)' <=> Expected(a)
    BY <1>1 DEF Expected
  <2>7. Of("add")' = Of("add") /\ Of("remove")' = Of("remove")
    BY <1>1 DEF Of
  <2>8. WayInv'
    BY <1>1, <1>11, <2>4, <2>5, <2>6, <2>7 DEF WayInv
  <2> QED BY <2>2, <2>3, <2>8
<1> QED BY <1>1, <1>8, <1>9, <1>10, <1>11 DEF RegInv

\* The main thread is told that there is a filter to scan.
LEMMA UIFlagKeeps == ASSUME RegInv, ScanInv', UIFlag PROVE RegInv'
<1>1. /\ ui.pc = "flag" /\ ui' = UIIdle /\ sideScanFlag'
      /\ UNCHANGED <<req, filter, kids, filled, wlt, refresh, todo, scan, mishaps>>
  BY DEF UIFlag
<1>2. HasFields(ui', {"pc", "batch", "addrs"}) /\ ui'.pc = "idle"
  BY <1>1 DEF UIIdle, HasFields
<1>3. Records' /\ FillInv'
  BY <1>1, <1>2, Zenon DEF RegInv, Records, FillInv
<1>4. QueueInv'
  BY <1>1 DEF RegInv, QueueInv, Of
<1>5. \A a : (Arriving(a)' <=> Arriving(a)) /\ (Carried(a)' <=> Carried(a)) /\ (Expected(a)' <=> Expected(a))
  BY <1>1, <1>2 DEF Arriving, Carried, Expected
<1>6. Of("add")' = Of("add") /\ Of("remove")' = Of("remove")
  BY <1>1 DEF Of
<1>7. WayInv => WayInv'
  BY <1>1, <1>5, <1>6 DEF WayInv
<1>8. WakeInv => WakeInv'
  BY <1>1 DEF WakeInv
<1>9. ListInv => ListInv'
  BY <1>1, <1>2 DEF ListInv, Scanning, Inside
<1> QED BY <1>1, <1>3, <1>4, <1>7, <1>8, <1>9 DEF RegInv

-----------------------------------------------------------------------------
\* A step of a side thread that keeps its filter on the list.
LEMMA ScanMoves ==
    ASSUME RegInv, ScanInv', NEW b \in Batch,
           UNCHANGED <<req, kids, filled, todo, ui, mishaps, sideScanFlag>>,
           Scanning(b), Scanning(b)', \A c \in Batch : c # b => scan'[c] = scan[c],
           HasFields(filter', {"addrs", "toMerge", "mergeFlag", "isScanning"}),
           filter'.isScanning = filter.isScanning, filter'.addrs = filter.addrs,
           filter.toMerge \subseteq filter'.toMerge,
           ~filter'.mergeFlag => ~filter.mergeFlag /\ filter'.toMerge = filter.toMerge,
           HasFields(wlt', {"addrs", "queue"}), IsSeq(wlt'.queue), QueueInv',
           wlt'.queue # <<>> => \/ refresh' \/ scan'[b].pc = "refresh"
                                \/ wlt.queue # <<>> /\ refresh' = refresh /\ scan[b].pc # "refresh",
           \A a : Arriving(a)' => Arriving(a) \/ a \in filter'.toMerge,
           \A a : Arriving(a) => Arriving(a)',
           scan[b].pc \in Early => scan'[b].pc \in Early \/ \A a \in filled[b] : Arriving(a)'
    PROVE  RegInv'
<1>1. Records'
  BY DEF RegInv, Records
<1>2. FillInv'
  BY Zenon DEF RegInv, FillInv
<1>3. Inside(b) /\ Inside(b)' /\ scan[b].pc # "none" /\ scan'[b].pc # "none"
  BY DEF Scanning, Inside
<1>4. WakeInv => WakeInv'
  <2> SUFFICES ASSUME WakeInv PROVE WakeInv'
    BY Zenon
  <2>1. wlt'.queue # <<>> => refresh' \/ ui'.pc = "refresh" \/ \E c \in Batch : scan'[c].pc = "refresh"
    BY DEF WakeInv
  <2>2. ~filter'.mergeFlag => filter'.toMerge = {}
    BY DEF WakeInv
  <2> QED BY <1>3, <2>1, <2>2 DEF WakeInv
<1>5. ListInv => ListInv'
  <2> SUFFICES ASSUME ListInv PROVE ListInv'
    OBVIOUS
  <2>1. \A c \in Batch : /\ (scan'[c].pc # "none" <=> scan[c].pc # "none") /\ (Inside(c)' <=> Inside(c))
                          /\ (Scanning(c)' <=> Scanning(c))
    BY <1>3, Zenon DEF Scanning, Inside
  <2> QED BY <2>1, Zenon DEF ListInv
<1>6. ASSUME NEW a, Carried(a) PROVE Carried(a)' \/ Arriving(a)'
  <2>1. CASE ui.pc \in {"link", "fill"} /\ a \in ui.addrs
    BY <2>1 DEF Carried
  <2>2. ASSUME NEW k \in DOMAIN kids, a \in filled[kids[k]], scan[kids[k]].pc \in Early
        PROVE  Carried(a)' \/ Arriving(a)'
    <3>1. kids[k] \in Batch
      BY DEF RegInv, Records
    <3>2. CASE scan'[kids[k]].pc \in Early
      BY <2>2, <3>2 DEF Carried
    <3>3. CASE scan'[kids[k]].pc \notin Early
      <4>1. kids[k] = b
        BY <2>2, <3>1, <3>3
      <4> QED BY <2>2, <3>3, <4>1
    <3> QED BY <3>2, <3>3
  <2> QED BY <1>6, <2>1, <2>2, Zenon DEF Carried
<1>7. \A a : Expected(a)' <=> Expected(a)
  BY DEF Expected
<1>8. Of("add")' = Of("add") /\ Of("remove")' = Of("remove")
  BY DEF Of
<1>9. WayInv => WayInv'
  BY <1>6, <1>7, <1>8, Zenon DEF WayInv
<1> QED BY <1>1, <1>2, <1>4, <1>5, <1>9 DEF RegInv

\* The steps of the scan proper.
LEMMA ScanningKeeps ==
    ASSUME RegInv, ScanInv', NEW b \in Batch,
           ScanBegin(b) \/ setSSHLastScanned(b) \/ wipeScrAddrsSSH(b) \/ ScanBlocks(b) \/ ScanCommit(b)
    PROVE  RegInv'
<1>1. UNCHANGED <<req, kids, filled, todo, ui, mishaps, sideScanFlag, filter, wlt, refresh>>
  BY DEF ScanBegin, setSSHLastScanned, wipeScrAddrsSSH, ScanBlocks, ScanCommit, Elsewhere
<1>2. scan = [c \in Batch |-> scan[c]] /\ \A c \in Batch : HasField(scan[c], "pc")
  BY DEF RegInv, ScanInv, Fields
<1>3. scan[b].pc \in {"begin", "set", "wipe", "scan", "commit"}
  BY DEF ScanBegin, setSSHLastScanned, wipeScrAddrsSSH, ScanBlocks, ScanCommit
<1>4. \A c \in Batch : c # b => scan'[c] = scan[c]
  BY <1>2 DEF ScanBegin, setSSHLastScanned, wipeScrAddrsSSH, ScanBlocks, ScanCommit
<1>5. scan'[b].pc \in {"set", "wipe", "scan", "commit", "merge"}
  <2>1. CASE ScanBegin(b)
    BY <1>2, <2>1 DEF ScanBegin, HasField
  <2>2. CASE setSSHLastScanned(b) \/ wipeScrAddrsSSH(b)
    BY <1>2, <2>2 DEF setSSHLastScanned, wipeScrAddrsSSH, HasField
  <2>3. CASE ScanBlocks(b)
    BY <1>2, <2>3 DEF ScanBlocks, HasField
  <2>4. CASE ScanCommit(b)
    BY <1>2, <2>4 DEF ScanCommit, HasField
  <2> QED BY <2>1, <2>2, <2>3, <2>4
<1>6. Scanning(b) /\ Scanning(b)' /\ scan'[b].pc \in Early /\ scan[b].pc # "refresh"
  BY <1>3, <1>5 DEF Scanning, Inside, Early
<1>7. \A a : Arriving(a)' <=> Arriving(a)
  <2>1. \A c \in Batch : scan'[c].pc = "prepare" <=> scan[c].pc = "prepare"
    BY <1>3, <1>4, <1>5
  <2> QED BY <1>1, <2>1 DEF Arriving
<1>8. QueueInv'
  BY <1>1 DEF RegInv, QueueInv, Of
<1>9. /\ HasFields(filter, {"addrs", "toMerge", "mergeFlag", "isScanning"})
      /\ HasFields(wlt, {"addrs", "queue"}) /\ IsSeq(wlt.queue)
  BY DEF RegInv, Records
<1> QED BY <1>1, <1>4, <1>6, <1>7, <1>8, <1>9, ScanMoves

\* The addresses of the filter are put into the main one.
LEMMA MergeKeeps == ASSUME RegInv, ScanInv', NEW b \in Batch, merge(b) PROVE RegInv'
<1>1. /\ UNCHANGED <<req, kids, filled, todo, ui, mishaps, sideScanFlag, wlt, refresh>>
      /\ scan[b].pc = "merge" /\ scan' = [scan EXCEPT ![b].pc = "prepare"]
      /\ filter' = [filter EXCEPT !.lastScannedBlkHash = scan[b].hash,
                                  !.toMerge = @ \cup filled[b], !.mergeFlag = TRUE]
  BY DEF merge, Elsewhere
<1>2. scan = [c \in Batch |-> scan[c]] /\ \A c \in Batch : HasField(scan[c], "pc")
  BY DEF RegInv, ScanInv, Fields
<1>3. scan'[b].pc = "prepare" /\ \A c \in Batch : c # b => scan'[c] = scan[c]
  BY <1>1, <1>2 DEF HasField
<1>4. /\ HasFields(filter, {"addrs", "toMerge", "mergeFlag", "isScanning"})
      /\ HasFields(wlt, {"addrs", "queue"}) /\ IsSeq(wlt.queue)
  BY DEF RegInv, Records
<1>5. /\ HasFields(filter', {"addrs", "toMerge", "mergeFlag", "isScanning"})
      /\ filter'.isScanning = filter.isScanning /\ filter'.addrs = filter.addrs
      /\ filter'.toMerge = filter.toMerge \cup filled[b] /\ filter'.mergeFlag
  BY <1>1, <1>4, Zenon DEF HasFields
<1>6. Scanning(b) /\ Scanning(b)' /\ scan[b].pc # "refresh"
  BY <1>1, <1>3 DEF Scanning, Inside
<1>7. \A a : Arriving(a)' <=> Arriving(a) \/ a \in filled[b]
  <2>1. \A a : (\E c \in Batch : scan'[c].pc = "prepare" /\ a \in filled[c]) <=>
               (a \in filled[b] \/ \E c \in Batch : scan[c].pc = "prepare" /\ a \in filled[c])
    BY <1>1, <1>3
  <2> QED BY <1>1, <2>1 DEF Arriving
<1>8. QueueInv'
  BY <1>1 DEF RegInv, QueueInv, Of
<1> QED BY <1>1, <1>3, <1>4, <1>5, <1>6, <1>7, <1>8, ScanMoves

\* They go to the wallet.
LEMMA PrepareKeeps ==
    ASSUME RegInv, ScanInv', NEW b \in Batch, prepareScrAddrForMerge(b)
    PROVE  RegInv'
<1>1. /\ UNCHANGED <<req, kids, filled, todo, ui, mishaps, sideScanFlag, filter, refresh>>
      /\ scan[b].pc = "prepare" /\ scan' = [scan EXCEPT ![b].pc = "refresh"]
      /\ Enqueue(IF AreNew(b) THEN "NoRescan" ELSE "Rescan", filled[b], {}, scan[b].hash)
  BY DEF prepareScrAddrForMerge, Elsewhere
<1>2. scan = [c \in Batch |-> scan[c]] /\ \A c \in Batch : HasField(scan[c], "pc")
  BY DEF RegInv, ScanInv, Fields
<1>3. scan'[b].pc = "refresh" /\ \A c \in Batch : c # b => scan'[c] = scan[c]
  BY <1>1, <1>2 DEF HasField
<1>4. /\ HasFields(wlt', {"addrs", "queue"}) /\ IsSeq(wlt'.queue) /\ wlt'.addrs = wlt.addrs
      /\ \A k \in DOMAIN wlt.queue : k \in DOMAIN wlt'.queue /\ wlt'.queue[k] = wlt.queue[k]
      /\ \A k \in DOMAIN wlt'.queue :
           \/ k \in DOMAIN wlt.queue
           \/ /\ wlt'.queue[k].action = IF AreNew(b) THEN "NoRescan" ELSE "Rescan"
              /\ wlt'.queue[k].add = filled[b] /\ wlt'.queue[k].del = {}
      /\ \E k \in DOMAIN wlt'.queue : wlt'.queue[k].add = filled[b]
  BY <1>1, EnqueueFacts
<1>5. HasFields(filter, {"addrs", "toMerge", "mergeFlag", "isScanning"})
  BY DEF RegInv, Records
<1>6. Scanning(b) /\ Scanning(b)' /\ scan[b].pc \notin Early
  BY <1>1, <1>3 DEF Scanning, Inside, Early
<1>7. \A a : Arriving(a)' <=> Arriving(a)
  <2>1. \A a : (\E k \in DOMAIN wlt'.queue : a \in wlt'.queue[k].add) <=>
               (a \in filled[b] \/ \E k \in DOMAIN wlt.queue : a \in wlt.queue[k].add)
    BY <1>4
  <2>2. \A a : (\E c \in Batch : scan[c].pc = "prepare" /\ a \in filled[c]) <=>
               (a \in filled[b] \/ \E c \in Batch : scan'[c].pc = "prepare" /\ a \in filled[c])
    BY <1>1, <1>3
  <2> QED BY <1>1, <1>4, <2>1, <2>2 DEF Arriving
<1>8. QueueInv'
  <2>1. Of("remove")' = Of("remove")
    BY <1>1, Zenon DEF Of
  <2> QED BY <1>4, <2>1 DEF RegInv, QueueInv
<1> QED BY <1>1, <1>3, <1>4, <1>5, <1>6, <1>7, <1>8, ScanMoves

\* The main thread is told, and the thread reads its own child_.
LEMMA LateKeeps ==
    ASSUME RegInv, ScanInv', NEW b \in Batch, needsRefresh(b) \/ ReadChild(b)
    PROVE  RegInv'
<1>1. /\ UNCHANGED <<req, kids, filled, todo, ui, mishaps, sideScanFlag, filter, wlt>>
      /\ (scan[b].pc = "refresh" /\ refresh') \/ (scan[b].pc = "next" /\ UNCHANGED refresh)
  BY DEF needsRefresh, ReadChild, Elsewhere
<1>2. scan = [c \in Batch |-> scan[c]] /\ \A c \in Batch : HasField(scan[c], "pc")
  BY DEF RegInv, ScanInv, Fields
<1>3. scan'[b].pc \in {"next", "handover"} /\ \A c \in Batch : c # b => scan'[c] = scan[c]
  BY <1>2 DEF HasField, needsRefresh, ReadChild
<1>4. /\ HasFields(filter, {"addrs", "toMerge", "mergeFlag", "isScanning"})
      /\ HasFields(wlt, {"addrs", "queue"}) /\ IsSeq(wlt.queue)
  BY DEF RegInv, Records
<1>5. Scanning(b) /\ Scanning(b)' /\ scan[b].pc \notin Early
  BY <1>1, <1>3 DEF Scanning, Inside, Early
<1>6. \A a : Arriving(a)' <=> Arriving(a)
  <2>1. \A c \in Batch : scan'[c].pc = "prepare" <=> scan[c].pc = "prepare"
    BY <1>1, <1>3
  <2> QED BY <1>1, <2>1 DEF Arriving
<1>7. QueueInv'
  BY <1>1 DEF RegInv, QueueInv, Of
<1> QED BY <1>1, <1>3, <1>4, <1>5, <1>6, <1>7, ScanMoves

\* The filter that was scanned leaves the list, and the ones after it stay.
LEMMA HandOverKeeps == ASSUME RegInv, ScanInv', NEW b \in Batch, HandOver(b) PROVE RegInv'
<1>1. /\ UNCHANGED <<req, filter, filled, wlt, sideScanFlag, refresh, todo, ui>>
      /\ scan[b].pc = "handover" /\ scan' = [scan EXCEPT ![b].pc = "lower"]
      /\ kids' = IF scan[b].next = None THEN <<>> ELSE Tail(kids)
      /\ mishaps' = IF scan[b].next = None /\ Len(kids) > 1
                    THEN mishaps \cup {"overwritten"} ELSE mishaps
  BY DEF HandOver
<1>2. scan = [c \in Batch |-> scan[c]] /\ \A c \in Batch : HasField(scan[c], "pc")
  BY DEF RegInv, ScanInv, Fields
<1>3. scan'[b].pc = "lower" /\ \A c \in Batch : c # b => scan'[c] = scan[c]
  BY <1>1, <1>2 DEF HasField
<1>5. kids \in Seq(Batch)
  BY DEF RegInv, Records
<1>6. kids' \in Seq(Batch)
  <2>1. CASE scan[b].next = None
    BY <1>1, <2>1
  <2>2. CASE kids # <<>> /\ scan[b].next # None
    BY <1>1, <1>5, <2>2, TailIs
  <2>3. CASE kids = <<>> /\ scan[b].next # None
    BY <1>1, <1>5, <2>3
  <2> QED BY <2>1, <2>2, <2>3
<1>7. Records'
  BY <1>1, <1>6 DEF RegInv, Records
<1>8. FillInv'
  BY <1>1 DEF RegInv, FillInv
<1>9. QueueInv'
  BY <1>1 DEF RegInv, QueueInv, Of
<1>10. ASSUME mishaps' = {} PROVE WakeInv' /\ ListInv' /\ WayInv'
  <2>1. mishaps = {} /\ ~(scan[b].next = None /\ Len(kids) > 1)
    BY <1>1, <1>10, Zenon
  <2>2. WakeInv /\ ListInv /\ WayInv
    BY <2>1 DEF RegInv
  <2>3. Inside(b) /\ kids # <<>> /\ kids[1] = b
    BY <1>1, <2>2 DEF ListInv, Scanning, Inside
  <2>4. \A k \in DOMAIN kids : k # 1 => \E j \in DOMAIN kids' : kids[k] = kids'[j]
    <3>1. CASE scan[b].next = None
      BY <1>5, <2>1, <3>1
    <3>2. CASE scan[b].next # None
      <4>1. kids' = Tail(kids)
        BY <1>1, <3>2
      <4> QED BY <1>5, <2>3, <4>1, TailIs
    <3> QED BY <3>1, <3>2
  <2>5. WakeInv'
    <3>1. wlt'.queue # <<>> => refresh' \/ ui'.pc = "refresh" \/ \E c \in Batch : scan'[c].pc = "refresh"
      BY <1>1, <1>3, <2>2 DEF WakeInv
    <3> QED BY <1>1, <1>3, <2>2, <3>1 DEF WakeInv
  <2>6. Inside(b)' /\ \A c \in Batch : ~Scanning(c)'
    <3>1. \A c \in Batch : Inside(c) => c = b
      BY <2>3 DEF RegInv, ScanInv
    <3> QED BY <1>3, <3>1 DEF Scanning, Inside
  <2>7. ui.pc = "fill" => \E j \in DOMAIN kids' : kids'[j] = ui.batch
    <3> SUFFICES ASSUME ui.pc = "fill" PROVE \E j \in DOMAIN kids' : kids'[j] = ui.batch
      OBVIOUS
    <3>1. PICK k \in DOMAIN kids : kids[k] = ui.batch
      BY <2>2 DEF ListInv
    <3>2. filled[ui.batch] = {} /\ filled[b] # {}
      BY <1>1, <2>2 DEF RegInv, FillInv, ListInv
    <3>3. k # 1
      BY <2>3, <3>1, <3>2
    <3>4. PICK j \in DOMAIN kids' : kids[k] = kids'[j]
      BY <2>4, <3>3
    <3> QED BY <3>1, <3>4
  <2>8. \A c \in Batch : scan'[c].pc # "none" => filled[c] # {}
    BY <1>1, <1>3, <2>2 DEF ListInv
  <2>9. ListInv'
    BY <1>1, <2>6, <2>7, <2>8 DEF ListInv
  <2>10. ASSUME NEW a, Carried(a) PROVE Carried(a)'
    <3>1. CASE ui.pc \in {"link", "fill"} /\ a \in ui.addrs
      BY <1>1, <3>1 DEF Carried
    <3>2. ASSUME NEW k \in DOMAIN kids, a \in filled[kids[k]], scan[kids[k]].pc \in Early
          PROVE  Carried(a)'
      <4>1. kids[k] # b /\ kids[k] \in Batch
        BY <1>1, <1>5, <3>2 DEF Early
      <4>2. PICK j \in DOMAIN kids' : kids[k] = kids'[j]
        BY <2>3, <2>4, <4>1
      <4>3. a \in filled'[kids'[j]] /\ scan'[kids'[j]].pc \in Early
        BY <1>1, <1>3, <3>2, <4>1, <4>2
      <4> QED BY <4>2, <4>3 DEF Carried
    <3> QED BY <2>10, <3>1, <3>2 DEF Carried
  <2>11. \A a : (Arriving(a)' <=> Arriving(a)) /\ (Expected(a)' <=> Expected(a))
    <3>1. \A c \in Batch : scan'[c].pc = "prepare" <=> scan[c].pc = "prepare"
      BY <1>1, <1>3
    <3> QED BY <1>1, <3>1 DEF Arriving, Expected
  <2>12. Of("add")' = Of("add") /\ Of("remove")' = Of("remove")
    BY <1>1, Zenon DEF Of
  <2>13. WayInv'
    BY <1>1, <2>2, <2>10, <2>11, <2>12 DEF WayInv
  <2> QED BY <2>5, <2>9, <2>13
<1> QED BY <1>7, <1>8, <1>9, <1>10 DEF RegInv

\* The thread lowers isScanning_: nobody is inside then.
LEMMA LowerKeeps == ASSUME RegInv, ScanInv', NEW b \in Batch, LowerFlag(b) PROVE RegInv'
<1>1. /\ UNCHANGED <<req, kids, filled, todo, ui, mishaps, wlt, sideScanFlag, refresh>>
      /\ scan[b].pc = "lower" /\ scan' = [scan EXCEPT ![b].pc = "flag"]
      /\ filter' = [filter EXCEPT !.isScanning = FALSE]
  BY DEF LowerFlag, Elsewhere
<1>2. scan = [c \in Batch |-> scan[c]] /\ \A c \in Batch : HasField(scan[c], "pc")
  BY DEF RegInv, ScanInv, Fields
<1>3. scan'[b].pc = "flag" /\ \A c \in Batch : c # b => scan'[c] = scan[c]
  BY <1>1, <1>2 DEF HasField
<1>4. /\ HasFields(filter', {"addrs", "toMerge", "mergeFlag", "isScanning"})
      /\ ~filter'.isScanning /\ filter'.addrs = filter.addrs
      /\ filter'.toMerge = filter.toMerge /\ filter'.mergeFlag = filter.mergeFlag
  BY <1>1, Zenon DEF RegInv, Records, HasFields
<1>5. Records'
  BY <1>1, <1>4 DEF RegInv, Records
<1>6. FillInv'
  BY <1>1, Zenon DEF RegInv, FillInv
<1>7. QueueInv'
  BY <1>1 DEF RegInv, QueueInv, Of
<1>8. WakeInv => WakeInv'
  BY <1>1, <1>3, <1>4 DEF WakeInv
<1>9. \A c \in Batch : ~Inside(c)'
  <2>1. \A c \in Batch : Inside(c) => c = b
    BY <1>1 DEF RegInv, ScanInv, Inside
  <2> QED BY <1>3, <2>1 DEF Inside
<1>10. ListInv => ListInv'
  <2>1. \A c \in Batch : scan'[c].pc # "none" => scan[c].pc # "none"
    BY <1>1, <1>3
  <2> QED BY <1>1, <1>4, <1>9, <2>1 DEF ListInv, Scanning
<1>11. \A a : Carried(a) => Carried(a)'
  <2>1. \A k \in DOMAIN kids : kids[k] \in Batch
    BY DEF RegInv, Records
  <2>2. \A c \in Batch : scan[c].pc \in Early => scan'[c].pc \in Early
    BY <1>1, <1>3 DEF Early
  <2> QED BY <1>1, <2>1, <2>2 DEF Carried
<1>12. \A a : (Arriving(a)' <=> Arriving(a)) /\ (Expected(a)' <=> Expected(a))
  <2>1. \A c \in Batch : scan'[c].pc = "prepare" <=> scan[c].pc = "prepare"
    BY <1>1, <1>3
  <2> QED BY <1>1, <2>1 DEF Arriving, Expected
<1>13. Of("add")' = Of("add") /\ Of("remove")' = Of("remove")
  BY <1>1, Zenon DEF Of
<1>14. WayInv => WayInv'
  BY <1>4, <1>11, <1>12, <1>13, Zenon DEF WayInv
<1> QED BY <1>1, <1>5, <1>6, <1>7, <1>8, <1>10, <1>14 DEF RegInv

\* The thread ends, and asks for the scan of the next filter if there is one.
LEMMA FlagNextKeeps == ASSUME RegInv, ScanInv', NEW b \in Batch, FlagNext(b) PROVE RegInv'
<1>1. /\ UNCHANGED <<req, kids, filled, todo, ui, mishaps, filter, wlt, refresh>>
      /\ scan[b].pc = "flag" /\ scan' = [scan EXCEPT ![b] = NoThread]
      /\ sideScanFlag' = (sideScanFlag \/ kids # <<>>)
  BY DEF FlagNext, Elsewhere
<1>2. scan = [c \in Batch |-> scan[c]]
  BY DEF RegInv, ScanInv, Fields
<1>3. scan'[b].pc = "none" /\ \A c \in Batch : c # b => scan'[c] = scan[c]
  BY <1>1, <1>2 DEF NoThread
<1>4. Records'
  BY <1>1 DEF RegInv, Records
<1>5. FillInv'
  BY <1>1, Zenon DEF RegInv, FillInv
<1>6. QueueInv'
  BY <1>1 DEF RegInv, QueueInv, Of
<1>7. WakeInv => WakeInv'
  BY <1>1, <1>3, Zenon DEF WakeInv
<1>8. ListInv => ListInv'
  <2>1. \A c \in Batch : /\ (Inside(c)' <=> Inside(c)) /\ (Scanning(c)' <=> Scanning(c))
                          /\ (scan'[c].pc # "none" => scan[c].pc # "none")
    BY <1>1, <1>3 DEF Scanning, Inside
  <2> QED BY <1>1, <2>1 DEF ListInv
<1>9. \A a : Carried(a) => Carried(a)'
  <2>1. \A k \in DOMAIN kids : kids[k] \in Batch
    BY DEF RegInv, Records
  <2>2. \A c \in Batch : scan[c].pc \in Early => scan'[c].pc \in Early
    BY <1>1, <1>3 DEF Early
  <2> QED BY <1>1, <2>1, <2>2 DEF Carried
<1>10. \A a : (Arriving(a)' <=> Arriving(a)) /\ (Expected(a)' <=> Expected(a))
  <2>1. \A c \in Batch : scan'[c].pc = "prepare" <=> scan[c].pc = "prepare"
    BY <1>1, <1>3
  <2> QED BY <1>1, <2>1 DEF Arriving, Expected
<1>11. Of("add")' = Of("add") /\ Of("remove")' = Of("remove")
  BY <1>1, Zenon DEF Of
<1>12. WayInv => WayInv'
  BY <1>1, <1>9, <1>10, <1>11, Zenon DEF WayInv
<1> QED BY <1>1, <1>4, <1>5, <1>6, <1>7, <1>8, <1>12 DEF RegInv

-----------------------------------------------------------------------------
\* A step of the main thread that leaves the calls, the list and the side
\* threads alone, told by what it does to the main filter and to the wallet.
LEMMA MainMoves ==
    ASSUME RegInv, ScanInv', UNCHANGED <<req, kids, filled, todo, ui, scan, sideScanFlag>>,
           HasFields(filter', {"addrs", "toMerge", "mergeFlag", "isScanning"}),
           filter'.isScanning = filter.isScanning,
           HasFields(wlt', {"addrs", "queue"}), IsSeq(wlt'.queue), QueueInv',
           mishaps' = {} =>
              /\ mishaps = {}
              /\ wlt'.queue = <<>> \/ (wlt'.queue = wlt.queue /\ refresh' = refresh)
              /\ ~filter'.mergeFlag => filter'.toMerge = {} \/ UNCHANGED filter
              /\ filter.addrs \cup filter.toMerge \subseteq filter'.addrs \cup filter'.toMerge
              /\ \A a : Arriving(a)' => Arriving(a)
              /\ \A a : Arriving(a) => Arriving(a)' \/ a \in Of("remove")
    PROVE  RegInv'
<1>1. Records'
  BY Zenon DEF RegInv, Records
<1>2. FillInv'
  BY Zenon DEF RegInv, FillInv
<1>3. ASSUME mishaps' = {} PROVE WakeInv' /\ ListInv' /\ WayInv'
  <2>1. WakeInv /\ ListInv /\ WayInv
    BY <1>3, Zenon DEF RegInv
  <2>2. WakeInv'
    BY <1>3, <2>1, Zenon DEF WakeInv
  <2>3. ListInv'
    BY <2>1 DEF ListInv, Scanning, Inside
  <2>4. \A a : (Carried(a)' <=> Carried(a)) /\ (Expected(a)' <=> Expected(a))
    BY Zenon DEF Carried, Expected
  <2>5. Of("add")' = Of("add") /\ Of("remove")' = Of("remove")
    BY Zenon DEF Of
  <2>6. WayInv'
    <3>1. \A a : Arriving(a)' => a \in filter'.addrs \cup filter'.toMerge
      BY <1>3, <2>1, Zenon DEF WayInv
    <3>2. \A a \in Of("add") \ Of("remove") : Expected(a)' \/ Carried(a)' \/ Arriving(a)'
      BY <1>3, <2>1, <2>4 DEF WayInv
    <3> QED BY <2>5, <3>1, <3>2, Zenon DEF WayInv
  <2> QED BY <2>2, <2>3, <2>6, Zenon
<1> QED BY <1>1, <1>2, <1>3, Zenon DEF RegInv

\* checkForMerge adds all that is to be merged, unless more came meanwhile.
LEMMA InsertKeeps == ASSUME RegInv, ScanInv', checkForMerge_Insert PROVE RegInv'
<1>1. /\ UNCHANGED <<req, kids, filled, wlt, sideScanFlag, refresh, todo, ui, scan>>
      /\ filter' = [filter EXCEPT !.addrs = @ \cup main.copy, !.toMerge = {}, !.mergeFlag = FALSE]
      /\ mishaps' = IF filter.toMerge # main.copy THEN mishaps \cup {"cleared"} ELSE mishaps
  BY DEF checkForMerge_Insert
<1>2. /\ HasFields(filter', {"addrs", "toMerge", "mergeFlag", "isScanning"})
      /\ filter'.isScanning = filter.isScanning /\ filter'.addrs = filter.addrs \cup main.copy
      /\ filter'.toMerge = {}
  BY <1>1, Zenon DEF RegInv, Records, HasFields
<1>3. HasFields(wlt, {"addrs", "queue"}) /\ IsSeq(wlt.queue)
  BY DEF RegInv, Records
<1>4. QueueInv'
  BY <1>1 DEF RegInv, QueueInv, Of
<1>5. \A a : Arriving(a)' <=> Arriving(a)
  BY <1>1 DEF Arriving
<1>6. mishaps' = {} => mishaps = {} /\ filter.toMerge = main.copy
  BY <1>1
<1> QED BY <1>1, <1>2, <1>3, <1>4, <1>5, <1>6, MainMoves

\* BtcWallet::merge takes over every entry of the queue, unless additions and
\* removals meet in it.
LEMMA WalletMergeKeeps ==
    ASSUME RegInv, ScanInv', BtcWallet_merge,
           UNCHANGED <<req, kids, filled, todo, ui, scan, sideScanFlag, filter>>
    PROVE  RegInv'
<1>1. /\ HasFields(wlt, {"addrs", "queue"}) /\ IsSeq(wlt.queue) /\ QueueInv
      /\ HasFields(filter, {"addrs", "toMerge", "mergeFlag", "isScanning"})
  BY DEF RegInv, Records
<1>2. IsSeq(<<>>)
  <2>1. <<>> = [i \in 1 .. 0 |-> <<>>[i]]
    OBVIOUS
  <2> QED BY <2>1 DEF IsSeq
<1>3. CASE wlt.queue = <<>>
  <2>1. UNCHANGED <<wlt, mishaps>>
    BY <1>3, Zenon DEF BtcWallet_merge
  <2>2. \A a : Arriving(a)' <=> Arriving(a)
    BY <2>1 DEF Arriving
  <2>3. QueueInv'
    BY <1>3, <2>1 DEF QueueInv
  <2> QED BY <1>1, <1>3, <2>1, <2>2, <2>3, MainMoves
<1>4. CASE wlt.queue # <<>>
  <2> DEFINE entries == {wlt.queue[k] : k \in DOMAIN wlt.queue}
             removes == {e \in entries : e.action = "DeleteAddresses"}
  <2>1. /\ wlt' = [addrs |-> IF wlt.queue[1].action = "DeleteAddresses"
                            THEN wlt.addrs \ UNION {e.del : e \in entries}
                            ELSE wlt.addrs \cup UNION {e.add : e \in entries},
                   queue |-> <<>>]
        /\ mishaps' = IF removes \notin {{}, entries} THEN mishaps \cup {"mixed"} ELSE mishaps
    BY <1>4, Zenon DEF BtcWallet_merge, Range
  <2>2. wlt.queue[1] \in entries
    <3>1. PICK n \in Nat : wlt.queue = [i \in 1 .. n |-> wlt.queue[i]]
      BY <1>1 DEF IsSeq
    <3>2. n # 0
      BY <1>4, <3>1
    <3> QED BY <3>1, <3>2
  <2>3. /\ HasFields(wlt', {"addrs", "queue"}) /\ wlt'.queue = <<>>
        /\ wlt'.addrs = IF wlt.queue[1].action = "DeleteAddresses"
                        THEN wlt.addrs \ UNION {e.del : e \in entries}
                        ELSE wlt.addrs \cup UNION {e.add : e \in entries}
    BY <2>1, Zenon DEF HasFields
  <2>4. QueueInv'
    BY <2>3 DEF QueueInv
  <2>5. ASSUME mishaps' = {}
        PROVE  /\ mishaps = {}
               /\ \A a : Arriving(a)' => Arriving(a)
               /\ \A a : Arriving(a) => Arriving(a)' \/ a \in Of("remove")
    <3>1. mishaps = {} /\ removes \in {{}, entries}
      BY <2>1, <2>5
    <3>2. \A a : (\E k \in DOMAIN wlt.queue : a \in wlt.queue[k].add) <=> \E e \in entries : a \in e.add
      OBVIOUS
    <3>3. \A e \in entries : e.del \subseteq Of("remove") /\ (e.action = "DeleteAddresses" => e.add = {})
      BY <1>1 DEF QueueInv
    <3> HIDE DEF entries
    <3>4. \A a : a \in wlt'.addrs => a \in wlt.addrs \/ \E e \in entries : a \in e.add
      BY <2>3
    <3>5. ASSUME NEW a, a \in wlt.addrs \/ \E e \in entries : a \in e.add
          PROVE  a \in wlt'.addrs \/ a \in Of("remove")
      <4>1. CASE wlt.queue[1].action = "DeleteAddresses"
        <5>1. \A e \in entries : e.action = "DeleteAddresses"
          BY <2>2, <3>1, <4>1
        <5>2. a \in wlt.addrs
          BY <3>3, <3>5, <5>1
        <5> QED BY <2>3, <3>3, <4>1, <5>2
      <4>2. CASE wlt.queue[1].action # "DeleteAddresses"
        BY <2>3, <3>5, <4>2, Zenon
      <4> QED BY <4>1, <4>2
    <3>6. \A a : Arriving(a)' => Arriving(a)
      BY <2>3, <3>2, <3>4 DEF Arriving
    <3>7. \A a : Arriving(a) => Arriving(a)' \/ a \in Of("remove")
      BY <2>3, <3>2, <3>5 DEF Arriving
    <3> QED BY <3>1, <3>6, <3>7
  <2> QED BY <1>1, <1>2, <2>3, <2>4, <2>5, MainMoves
<1> QED BY <1>3, <1>4

\* startSideScan lowers the flag.  If there is a filter on the list, it starts
\* the scan of the first one, or a side thread is inside that will ask again.
LEMMA StartKeeps == ASSUME RegInv, ScanInv', startSideScan PROVE RegInv'
<1> DEFINE starts == sideScanFlag /\ kids # <<>> /\ ~filter.isScanning
<1>1. UNCHANGED <<req, kids, filled, wlt, refresh, todo, ui>> /\ ~sideScanFlag'
  BY DEF startSideScan
<1>2. /\ scan = [c \in Batch |-> scan[c]] /\ \A c \in Batch : HasField(scan[c], "pc")
      /\ HasFields(filter, {"addrs", "toMerge", "mergeFlag", "isScanning"}) /\ kids \in Seq(Batch)
  BY DEF RegInv, ScanInv, Fields, Records
<1>3. QueueInv'
  BY <1>1, Zenon DEF RegInv, QueueInv, Of
<1>4. FillInv'
  BY <1>1 DEF RegInv, FillInv
<1>5. /\ HasFields(filter', {"addrs", "toMerge", "mergeFlag", "isScanning"})
      /\ filter'.addrs = filter.addrs /\ filter'.toMerge = filter.toMerge
      /\ filter'.mergeFlag = filter.mergeFlag
  BY <1>2 DEF startSideScan, StartThread, HasFields
<1>6. Records'
  BY <1>1, <1>5 DEF RegInv, Records
<1>7. \A a : Expected(a)' <=> Expected(a)
  BY <1>1 DEF Expected
<1>8. Of("add")' = Of("add") /\ Of("remove")' = Of("remove")
  BY <1>1 DEF Of
<1>9. CASE ~starts
  <2>1. UNCHANGED <<scan, filter, mishaps>>
    BY <1>9 DEF startSideScan
  <2>2. WakeInv /\ ListInv => WakeInv'
    <3> SUFFICES ASSUME WakeInv, ListInv PROVE WakeInv'
      OBVIOUS
    <3>1. filter.isScanning => \E c \in Batch : scan[c].pc # "none"
      BY DEF ListInv, Scanning, Inside
    <3> QED BY <1>1, <1>9, <2>1, <3>1 DEF WakeInv
  <2>3. ListInv => ListInv'
    BY <1>1, <2>1 DEF ListInv, Scanning, Inside
  <2>4. \A a : (Arriving(a)' <=> Arriving(a)) /\ (Carried(a)' <=> Carried(a))
    BY <1>1, <2>1, Zenon DEF Arriving, Carried
  <2>5. WayInv => WayInv'
    BY <1>7, <1>8, <2>1, <2>4 DEF WayInv
  <2> QED BY <1>3, <1>4, <1>6, <2>1, <2>2, <2>3, <2>5 DEF RegInv
<1>10. CASE starts
  <2>1. PICK b \in Batch : b = Head(kids) /\ b = kids[1]
    <3>1. 1 \in DOMAIN kids /\ Head(kids) = kids[1]
      BY <1>2, <1>10, TailIs
    <3> QED BY <1>2, <3>1
  <2>2. /\ filter' = [filter EXCEPT !.isScanning = TRUE]
        /\ mishaps' = IF filled[b] = {} THEN mishaps \cup {"unfilled"} ELSE mishaps
        /\ scan' = [scan EXCEPT ![b].pc = "begin"] \/ filled[b] = {}
    BY <1>10, <2>1 DEF startSideScan, StartThread
  <2>3. ASSUME mishaps' = {} PROVE WakeInv' /\ ListInv' /\ WayInv'
    <3>1. mishaps = {} /\ filled[b] # {} /\ scan' = [scan EXCEPT ![b].pc = "begin"]
      BY <2>2, <2>3
    <3>2. WakeInv /\ ListInv /\ WayInv
      BY <3>1 DEF RegInv
    <3>3. scan'[b].pc = "begin" /\ \A c \in Batch : c # b => scan'[c] = scan[c]
      BY <1>2, <2>1, <3>1 DEF HasField
    <3>4. \A c \in Batch : ~Inside(c)
      BY <1>10 DEF RegInv, ScanInv
    <3>5. \A c \in Batch : (Inside(c)' => c = b) /\ scan[c].pc \in {"none", "flag"}
      BY <3>3, <3>4, Zenon DEF Inside
    <3>6. WakeInv'
      <4>1. wlt.queue # <<>> => refresh \/ ui.pc = "refresh"
        BY <3>2, <3>5, Zenon DEF WakeInv
      <4> QED BY <1>1, <1>5, <2>1, <3>2, <3>3, <4>1 DEF WakeInv
    <3>7. ListInv'
      <4>1. \A c \in Batch : scan'[c].pc # "none" => filled[c] # {}
        BY <3>1, <3>2, <3>3 DEF ListInv
      <4>2. kids # <<>> /\ kids[1] = b
        BY <1>10, <2>1
      <4>3. Inside(b)'
        BY <3>3, Zenon DEF Inside
      <4> QED BY <1>1, <2>1, <3>2, <3>5, <4>1, <4>2, <4>3 DEF ListInv, Scanning
    <3>8. \A a : Carried(a) => Carried(a)'
      <4>1. \A k \in DOMAIN kids : kids[k] \in Batch
        BY <1>2
      <4>2. \A c \in Batch : scan[c].pc \in Early => scan'[c].pc \in Early
        BY <3>3, Zenon DEF Early
      <4> QED BY <1>1, <4>1, <4>2 DEF Carried
    <3>9. \A a : Arriving(a)' <=> Arriving(a)
      <4>1. \A c \in Batch : scan'[c].pc # "prepare" /\ scan[c].pc # "prepare"
        BY <3>3, <3>5, Zenon
      <4> QED BY <1>1, <4>1 DEF Arriving
    <3>10. WayInv'
      BY <1>5, <1>7, <1>8, <3>2, <3>8, <3>9 DEF WayInv
    <3> QED BY <3>6, <3>7, <3>10
  <2> QED BY <1>3, <1>4, <1>6, <2>3 DEF RegInv
<1> QED BY <1>9, <1>10

-----------------------------------------------------------------------------
\* Every step of every thread keeps the invariant.
LEMMA RegNext == ASSUME RegInv, Next PROVE RegInv'
<1>1. ScanInv
  BY DEF RegInv
<1>2. CASE UI
  <2>1. ScanInv'
    BY <1>1, <1>2, UIKeeps
  <2> QED BY <1>2, <2>1, RegisterKeeps, RemoveKeeps, UIPrepareKeeps, UIRefreshKeeps, UILinkKeeps,
             UIFillKeeps, UIFlagKeeps DEF UI
<1>3. CASE MainThread
  <2>1. ScanInv'
    BY <1>1, <1>3, MainKeeps
  <2>2. GoOnline \/ checkForMerge \/ checkForMerge_CatchUp \/ readBlkFileUpdate => UNCHANGED regVars
    BY Zenon DEF GoOnline, checkForMerge, checkForMerge_CatchUp, readBlkFileUpdate, regVars
  <2>3. CASE Refresh
    <3>1. CASE refresh
      BY <2>1, <2>3, <3>1, WalletMergeKeeps DEF Refresh
    <3>2. CASE ~refresh
      <4>1. UNCHANGED <<req, filter, kids, filled, wlt, sideScanFlag, todo, ui, scan, mishaps>> /\ ~refresh'
        BY <2>3, <3>2 DEF Refresh
      <4>2. HasFields(filter, {"addrs", "toMerge", "mergeFlag", "isScanning"})
        BY DEF RegInv, Records
      <4>3. Records' /\ FillInv'
        BY <4>1, Zenon DEF RegInv, Records, FillInv
      <4>4. QueueInv'
        BY <4>1 DEF RegInv, QueueInv, Of
      <4>5. WakeInv => WakeInv'
        BY <3>2, <4>1 DEF WakeInv
      <4>6. ListInv => ListInv'
        BY <4>1 DEF ListInv, Scanning, Inside
      <4>7. \A a : (Arriving(a)' <=> Arriving(a)) /\ (Carried(a)' <=> Carried(a)) /\ (Expected(a)' <=> Expected(a))
        BY <4>1 DEF Arriving, Carried, Expected
      <4>8. Of("add")' = Of("add") /\ Of("remove")' = Of("remove")
        BY <4>1, Zenon DEF Of
      <4>9. WayInv => WayInv'
        BY <4>1, <4>7, <4>8 DEF WayInv
      <4> QED BY <2>1, <4>1, <4>3, <4>4, <4>5, <4>6, <4>9 DEF RegInv
    <3> QED BY <3>1, <3>2
  <2>4. CASE scanWallets
    BY <2>1, <2>4, WalletMergeKeeps DEF scanWallets
  <2> QED BY <1>3, <2>1, <2>2, <2>3, <2>4, RegStutter, InsertKeeps, StartKeeps DEF MainThread
<1>4. ASSUME NEW b \in Batch, SideThread(b) PROVE RegInv'
  <2>1. ScanInv'
    BY <1>1, <1>4, SideKeeps
  <2> QED BY <1>4, <2>1, ScanningKeeps, MergeKeeps, PrepareKeeps, LateKeeps, HandOverKeeps,
             LowerKeeps, FlagNextKeeps DEF SideThread
<1> QED BY <1>2, <1>3, <1>4 DEF Next

\* At every step, unless one of the five races has happened, an address that
\* was registered is with a call that is to come, in a filter on the list, on its
\* way to the wallet or in it; and a thread that has something to wait for will
\* be woken.
THEOREM OnTheWay == Spec => []RegInv
<1>1. RegInv /\ UNCHANGED vars => RegInv'
  BY RegStutter DEF regVars, vars
<1>2. RegInv /\ [Next]_vars => RegInv'
  BY <1>1, RegNext, Zenon
<1> QED BY RegInit, <1>2, PTL DEF Spec

\* NothingForgotten always holds: registerAddressBatch, the side threads and the
\* main thread lose an address in no other way than by the races that are
\* recorded, for any number of calls, addresses, blocks and reorganisations.
THEOREM NeverLost == Spec => []NothingForgotten
<1>1. RegInv => NothingForgotten
  <2> SUFFICES ASSUME RegInv, Quiet, mishaps = {}
               PROVE  /\ Of("add") \ Of("remove") \subseteq wlt.addrs \cap filter.addrs
                      /\ kids = <<>> /\ ~filter.isScanning
    BY DEF NothingForgotten
  <2>1. WakeInv /\ ListInv /\ WayInv
    BY DEF RegInv
  <2>2. /\ todo = <<>> /\ ui.pc = "idle" /\ ~sideScanFlag /\ ~refresh /\ ~filter.mergeFlag
        /\ \A b \in Batch : scan[b].pc = "none"
    BY DEF Quiet
  <2>3. kids = <<>> /\ wlt.queue = <<>> /\ filter.toMerge = {}
    BY <2>1, <2>2 DEF WakeInv
  <2>4. ~filter.isScanning
    BY <2>1, <2>2 DEF ListInv, Scanning, Inside
  <2>5. \A a : ~Expected(a) /\ ~Carried(a)
    BY <2>2, <2>3 DEF Expected, Carried
  <2>6. \A a : Arriving(a) => a \in wlt.addrs
    BY <2>2, <2>3 DEF Arriving
  <2> QED BY <2>1, <2>3, <2>4, <2>5, <2>6, Zenon DEF WayInv
<1> QED BY OnTheWay, <1>1, PTL
=============================================================================
