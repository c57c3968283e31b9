------------------------------ MODULE SideScan ------------------------------
(***************************************************************************)
(* How addresses are added to a node that is running: registerAddressBatch *)
(* hangs a child filter on the main one, a side thread scans the child and *)
(* the main thread merges it (ScrAddrFilter in BDM_supportClasses.cpp,     *)
(* BtcWallet::merge, the loop of BDM_mainthread.cpp).                      *)
(*                                                                         *)
(* Three kinds of threads take turns: the user interface, the main thread  *)
(* and the side scans.  A block is the path that leads to it from the      *)
(* first block: its ancestors are its prefixes, its height is its length,  *)
(* and the main branch is its top block.  Every block above born[a] pays   *)
(* the address a once: nobody pays a new address before it is handed out.  *)
(***************************************************************************)
EXTENDS Integers, Sequences, FiniteSets, FiniteSetsExt

CONSTANTS Addr,         \* addresses, all of one wallet
          Batch,        \* the calls that the user interface makes
          Requests,     \* what the calls may ask: kind, addrs, areNew
          Modes,        \* whether armoryDbType may be ARMORY_DB_SUPER
          Start,        \* the block at the top when the program starts
          MaxHeight,    \* no block is higher
          MaxReorgs     \* how often the main branch is left

ASSUME BatchAssumption == Cardinality(Batch) \in Nat /\ Batch = 1 .. Cardinality(Batch)

VARIABLES req,          \* what the calls ask
          super,        \* armoryDbType = ARMORY_DB_SUPER
          chain,        \* the top block of the main branch
          reorgs,
          db,           \* the StoredScriptHistory of an address
          born,
          filter,       \* the main ScrAddrFilter
          kids,         \* the filters reached from it through child_
          filled,       \* the filters that registerAddressBatch has filled in
          wlt,          \* the wallet: scrAddrMap_ and the queue mergeData_
          sideScanFlag, \* of the block data manager
          refresh,      \* refresh_ of the viewer
          todo, ui,     \* calls to come, in order, and where the present one is
          scan,         \* the side thread that scans a batch
          main,         \* the main thread
          mishaps       \* races that have happened: a filter was hung on one that is no
                        \* longer listed ("detached") or on one whose child_ was already
                        \* read ("overwritten"), it was scanned before it was filled in
                        \* ("unfilled"), addresses that arrived during checkForMerge were
                        \* dropped ("cleared"), additions and removals met in one
                        \* BtcWallet::merge ("mixed")

vars == <<req, super, chain, reorgs, db, born, filter, kids, filled, wlt, sideScanFlag,
          refresh, todo, ui, scan, main, mishaps>>

Root == 0               \* a batch is a number from 1 on
None == 0
Top  == Len(chain)
Blocks == UNION {[1 .. n -> {0, 1}] : n \in 0 .. MaxHeight}

-----------------------------------------------------------------------------
(* BlockWriteBatcher, for the history e of the address a.  Blocks that the  *)
(* history has already seen are skipped.                                    *)

Fresh == [entries |-> {}, total |-> 0, scanned |-> 0]

applyBlockRangeToDB(e, a, c, from, to) ==
    LET new == {SubSeq(c, 1, k) : k \in {k \in from .. to :
                    k > born[a] /\ (k > e.scanned \/ e.scanned = 0)}}
    IN  [entries |-> e.entries \cup new,
         total   |-> e.total + Cardinality(new), scanned |-> to]

\* Mutant: the entries of the blocks undone stay in the database.
undoBlocksFromDB_KeepsEntries(e, a, branch, stop) ==
    [e EXCEPT !.total = @ - Cardinality({k \in stop + 1 .. Len(branch) : k > born[a]}), !.scanned = stop]

(* ReorgUpdater: the blocks of a branch from its top down to the height     *)
(* stop.  The total shrinks whether or not the entry was there.             *)
undoBlocksFromDB(e, a, branch, stop) ==
    LET gone == {SubSeq(branch, 1, k) : k \in {k \in stop + 1 .. Len(branch) : k > born[a]}}
    IN  [entries |-> e.entries \ gone, total |-> e.total - Cardinality(gone), scanned |-> stop]

(* The height of the last block that two branches share.                    *)
BranchPoint(b, c) ==
    Max({k \in 0 .. Len(b) : k <= Len(c) /\ SubSeq(b, 1, k) = SubSeq(c, 1, k)})

(* BlockHeader::isMainBranch, when c is the main branch.                    *)
IsAncestor(b, c) == BranchPoint(b, c) = Len(b)

(* What checkForMerge and BtcWallet::merge do for an address whose side     *)
(* scan ended with the block last.                                          *)
CatchUp(e, a, last) ==
    LET stop == BranchPoint(last, chain)
        u    == IF IsAncestor(last, chain) THEN e ELSE undoBlocksFromDB(e, a, last, stop)
    IN  IF stop + 1 < Top THEN applyBlockRangeToDB(u, a, chain, stop + 1, Top) ELSE u

Update(S, f(_)) == [a \in Addr |-> IF a \in S THEN f(a) ELSE db[a]]

-----------------------------------------------------------------------------
(* The user interface: BtcWallet::addAddressBulk, forceScan and             *)
(* removeAddressBulk, and registerAddressBatch, which they call.            *)

Asked(b) == IF req[b].kind = "force" THEN wlt.addrs ELSE req[b].addrs \ wlt.addrs
AreNew(b) == req[b].kind = "add" /\ req[b].areNew

Enqueue(action, add, del, hash) ==
    wlt' = [wlt EXCEPT !.queue =
               Append(@, [action |-> action, add |-> add, del |-> del, hash |-> hash])]

HandOut(b) ==
    born' = IF AreNew(b) THEN [a \in Addr |-> IF a \in Asked(b) THEN Top ELSE born[a]] ELSE born

UIIdle == [pc |-> "idle", batch |-> None, addrs |-> {}, top |-> None]

UIThread(pc, b) ==
    ui' = IF pc = "idle" THEN UIIdle
          ELSE [pc |-> pc, batch |-> b, addrs |-> Asked(b),
                top |-> IF kids = <<>> THEN Root ELSE kids[Len(kids)]]

registerAddressBatch(b) ==
    /\ ui.pc = "idle" /\ todo # <<>> /\ b = Head(todo) /\ req[b].kind # "remove"
    /\ todo' = Tail(todo)
    /\ HandOut(b)
    /\ \/ /\ Asked(b) = {}
          /\ UIThread("idle", b) /\ UNCHANGED <<filter, wlt>>
       \/ /\ Asked(b) # {} /\ main.pc = "offline"
          /\ filter' = [filter EXCEPT !.addrs = @ \cup Asked(b)]
          /\ wlt' = [wlt EXCEPT !.addrs = @ \cup Asked(b)]
          /\ UIThread("idle", b)
       \/ /\ Asked(b) # {} /\ main.pc # "offline" /\ super
          /\ filter' = [filter EXCEPT !.toMerge = @ \cup Asked(b), !.mergeFlag = TRUE]
          /\ UIThread("prepare", b) /\ UNCHANGED wlt
       \/ /\ Asked(b) # {} /\ main.pc # "offline" /\ ~super
          /\ UIThread("link", b) /\ UNCHANGED <<filter, wlt>>
    /\ UNCHANGED <<req, super, chain, reorgs, db, kids, filled, sideScanFlag, refresh, scan, main, mishaps>>

UIPrepare ==
    /\ ui.pc = "prepare"
    /\ Enqueue("NoRescan", ui.addrs, {}, <<>>)
    /\ ui' = [ui EXCEPT !.pc = "refresh"]
    /\ UNCHANGED <<req, super, chain, reorgs, db, born, filter, kids, filled, sideScanFlag, refresh,
                   todo, scan, main, mishaps>>

UIRefresh ==
    /\ ui.pc = "refresh"
    /\ refresh' = TRUE
    /\ ui' = UIIdle
    /\ UNCHANGED <<req, super, chain, reorgs, db, born, filter, kids, filled, wlt, sideScanFlag,
                   todo, scan, main, mishaps>>

(* The new filter becomes the child of the last one found on the way down;  *)
(* when that one has been taken off the list meanwhile, it is lost.         *)
UILink ==
    /\ ui.pc = "link"
    /\ IF ui.top = Root \/ ui.top \in Range(kids)
       THEN kids' = Append(kids, ui.batch) /\ UNCHANGED mishaps
       ELSE mishaps' = mishaps \cup {"detached"} /\ UNCHANGED kids
    /\ ui' = [ui EXCEPT !.pc = "fill"]
    /\ UNCHANGED <<req, super, chain, reorgs, db, born, filter, filled, wlt, sideScanFlag, refresh,
                   todo, scan, main>>

UIFill ==
    /\ ui.pc = "fill"
    /\ filled' = [filled EXCEPT ![ui.batch] = ui.addrs]
    /\ ui' = [ui EXCEPT !.pc = "flag"]
    /\ UNCHANGED <<req, super, chain, reorgs, db, born, filter, kids, wlt, sideScanFlag, refresh,
                   todo, scan, main, mishaps>>

UIFlag ==
    /\ ui.pc = "flag"
    /\ sideScanFlag' = TRUE
    /\ ui' = UIIdle
    /\ UNCHANGED <<req, super, chain, reorgs, db, born, filter, kids, filled, wlt, refresh,
                   todo, scan, main, mishaps>>

removeAddressBulk(b) ==
    /\ ui.pc = "idle" /\ todo # <<>> /\ b = Head(todo) /\ req[b].kind = "remove" /\ main.pc # "offline"
    /\ Enqueue("DeleteAddresses", {}, req[b].addrs, <<>>)
    /\ todo' = Tail(todo)
    /\ ui' = [UIIdle EXCEPT !.pc = "refresh"]
    /\ UNCHANGED <<req, super, chain, reorgs, db, born, filter, kids, filled, sideScanFlag, refresh,
                   scan, main, mishaps>>

-----------------------------------------------------------------------------
(* scanScrAddrThread, for the filter of the batch b.                        *)

NoThread == [pc |-> "none", end |-> 0, hash |-> <<>>, seen |-> <<>>, next |-> None]

Elsewhere == UNCHANGED <<req, super, chain, reorgs, born, kids, filled, todo, ui, main, mishaps>>

ScanBegin(b) ==
    /\ scan[b].pc = "begin"
    /\ scan' = [scan EXCEPT ![b].end = Top, ![b].hash = chain,
                            ![b].pc = IF AreNew(b) THEN "set" ELSE "wipe"]
    /\ Elsewhere /\ UNCHANGED <<db, filter, wlt, sideScanFlag, refresh>>

setSSHLastScanned(b) ==
    /\ scan[b].pc = "set"
    /\ db' = Update(filled[b], LAMBDA a : [db[a] EXCEPT !.scanned = Top])
    /\ scan' = [scan EXCEPT ![b].pc = "merge"]
    /\ Elsewhere /\ UNCHANGED <<filter, wlt, sideScanFlag, refresh>>

wipeScrAddrsSSH(b) ==
    /\ scan[b].pc = "wipe"
    /\ db' = Update(filled[b], LAMBDA a : Fresh)
    /\ scan' = [scan EXCEPT ![b].pc = "scan"]
    /\ Elsewhere /\ UNCHANGED <<filter, wlt, sideScanFlag, refresh>>

(* The summaries are read when the scan starts and written when it ends.    *)
ScanBlocks(b) ==
    /\ scan[b].pc = "scan"
    /\ LET to == IF scan[b].end > Top THEN Top ELSE scan[b].end
       IN  scan' = [scan EXCEPT ![b].pc = "commit", ![b].hash = SubSeq(chain, 1, to),
                        ![b].seen = [a \in filled[b] |-> applyBlockRangeToDB(db[a], a, chain, 1, to)]]
    /\ Elsewhere /\ UNCHANGED <<db, filter, wlt, sideScanFlag, refresh>>

ScanCommit(b) ==
    /\ scan[b].pc = "commit"
    /\ db' = Update(DOMAIN scan[b].seen, LAMBDA a : [scan[b].seen[a] EXCEPT !.entries = @ \cup db[a].entries])
    /\ scan' = [scan EXCEPT ![b].pc = "merge", ![b].seen = <<>>]
    /\ Elsewhere /\ UNCHANGED <<filter, wlt, sideScanFlag, refresh>>

merge(b) ==
    /\ scan[b].pc = "merge"
    /\ filter' = [filter EXCEPT !.lastScannedBlkHash = scan[b].hash,
                                !.toMerge = @ \cup filled[b], !.mergeFlag = TRUE]
    /\ scan' = [scan EXCEPT ![b].pc = "prepare"]
    /\ Elsewhere /\ UNCHANGED <<db, wlt, sideScanFlag, refresh>>

prepareScrAddrForMerge(b) ==
    /\ scan[b].pc = "prepare"
    /\ Enqueue(IF AreNew(b) THEN "NoRescan" ELSE "Rescan", filled[b], {}, scan[b].hash)
    /\ scan' = [scan EXCEPT ![b].pc = "refresh"]
    /\ Elsewhere /\ UNCHANGED <<db, filter, sideScanFlag, refresh>>

needsRefresh(b) ==
    /\ scan[b].pc = "refresh"
    /\ refresh' = TRUE
    /\ scan' = [scan EXCEPT ![b].pc = "next"]
    /\ Elsewhere /\ UNCHANGED <<db, filter, wlt, sideScanFlag>>

(* The filter reads its own child_, makes it the child of the main filter,  *)
(* lowers isScanning_ and asks for the next scan.                           *)
ReadChild(b) ==
    /\ scan[b].pc = "next"
    /\ scan' = [scan EXCEPT ![b].pc = "handover",
                            ![b].next = IF Len(kids) > 1 THEN kids[2] ELSE None]
    /\ Elsewhere /\ UNCHANGED <<db, filter, wlt, sideScanFlag, refresh>>

HandOver(b) ==
    /\ scan[b].pc = "handover"
    /\ kids' = IF scan[b].next = None THEN <<>> ELSE Tail(kids)
    /\ mishaps' = IF scan[b].next = None /\ Len(kids) > 1
                  THEN mishaps \cup {"overwritten"} ELSE mishaps
    /\ scan' = [scan EXCEPT ![b].pc = "lower"]
    /\ UNCHANGED <<req, super, chain, reorgs, db, born, filter, filled, wlt, sideScanFlag, refresh, todo, ui, main>>

LowerFlag(b) ==
    /\ scan[b].pc = "lower"
    /\ filter' = [filter EXCEPT !.isScanning = FALSE]
    /\ scan' = [scan EXCEPT ![b].pc = "flag"]
    /\ Elsewhere /\ UNCHANGED <<db, wlt, sideScanFlag, refresh>>

\* Mutant: the scan of the next filter is not asked for.
FlagNext_Forgets(b) ==
    /\ scan[b].pc = "flag"
    /\ scan' = [scan EXCEPT ![b] = NoThread]
    /\ Elsewhere /\ UNCHANGED <<db, filter, wlt, sideScanFlag, refresh>>

FlagNext(b) ==
    /\ scan[b].pc = "flag"
    /\ sideScanFlag' = (sideScanFlag \/ kids # <<>>)
    /\ scan' = [scan EXCEPT ![b] = NoThread]
    /\ Elsewhere /\ UNCHANGED <<db, filter, wlt, refresh>>

-----------------------------------------------------------------------------
(* The main thread.  goOnline scans what was registered before it.          *)

Go(pc) == main' = [main EXCEPT !.pc = pc]

GoOnline ==
    /\ main.pc = "offline" /\ ui.pc = "idle"
    /\ db' = IF super THEN db ELSE Update(filter.addrs, LAMBDA a : applyBlockRangeToDB(db[a], a, chain, 1, Top))
    /\ Go("check")
    /\ UNCHANGED <<req, super, chain, reorgs, born, filter, kids, filled, wlt, sideScanFlag, refresh,
                   todo, ui, scan, mishaps>>

(* checkForMerge copies the addresses, brings them up to date and, under    *)
(* the lock, adds them to the main filter.  then is what comes after it.    *)
checkForMerge ==
    /\ main.pc = "check"
    /\ IF filter.mergeFlag
       THEN main' = [main EXCEPT !.pc = IF super THEN "insert" ELSE "catchup", !.copy = filter.toMerge]
       ELSE Go(main.then)
    /\ UNCHANGED <<req, super, chain, reorgs, db, born, filter, kids, filled, wlt, sideScanFlag, refresh,
                   todo, ui, scan, mishaps>>

checkForMerge_CatchUp ==
    /\ main.pc = "catchup"
    /\ db' = Update(main.copy, LAMBDA a : CatchUp(db[a], a, filter.lastScannedBlkHash))
    /\ Go("insert")
    /\ UNCHANGED <<req, super, chain, reorgs, born, filter, kids, filled, wlt, sideScanFlag, refresh,
                   todo, ui, scan, mishaps>>

checkForMerge_Insert ==
    /\ main.pc = "insert"
    /\ filter' = [filter EXCEPT !.addrs = @ \cup main.copy, !.toMerge = {}, !.mergeFlag = FALSE]
    /\ mishaps' = IF filter.toMerge # main.copy THEN mishaps \cup {"cleared"} ELSE mishaps
    /\ main' = [main EXCEPT !.pc = main.then, !.copy = {}]
    /\ UNCHANGED <<req, super, chain, reorgs, db, born, kids, filled, wlt, sideScanFlag, refresh,
                   todo, ui, scan>>

(* A filter that is not filled in yet has no root_: its thread dies with    *)
(* the process, ends without letting the next one start, or is overtaken by *)
(* the thread that fills it in.                                             *)
StartThread(b) ==
    /\ filter' = [filter EXCEPT !.isScanning = TRUE]
    /\ mishaps' = IF filled[b] = {} THEN mishaps \cup {"unfilled"} ELSE mishaps
    /\ \/ scan' = [scan EXCEPT ![b].pc = "begin"] /\ Go("refresh")
       \/ filled[b] = {} /\ Go("refresh") /\ UNCHANGED scan
       \/ filled[b] = {} /\ Go("dead") /\ UNCHANGED scan

\* Mutant: a scan starts although one is running.
startSideScan_Unguarded ==
    /\ main.pc = "side"
    /\ sideScanFlag' = FALSE
    /\ IF sideScanFlag /\ kids # <<>>
       THEN StartThread(Head(kids))
       ELSE Go("refresh") /\ UNCHANGED <<filter, scan, mishaps>>
    /\ UNCHANGED <<req, super, chain, reorgs, db, born, kids, filled, wlt, refresh, todo, ui>>

startSideScan ==
    /\ main.pc = "side"
    /\ sideScanFlag' = FALSE
    /\ IF sideScanFlag /\ kids # <<>> /\ ~filter.isScanning
       THEN StartThread(Head(kids))
       ELSE Go("refresh") /\ UNCHANGED <<filter, scan, mishaps>>
    /\ UNCHANGED <<req, super, chain, reorgs, db, born, kids, filled, wlt, refresh, todo, ui>>

(* BtcWallet::merge.  Every entry of the queue is treated as its head is.   *)
BtcWallet_merge ==
    LET action == wlt.queue[1].action
        Rescanned(d, e) ==
            [a \in Addr |-> IF a \in e.add THEN CatchUp(d[a], a, e.hash) ELSE d[a]]
        Merged(e, d) == IF action = "Rescan" /\ e.add # {} THEN Rescanned(d, e) ELSE d
        entries == Range(wlt.queue)
        removes == {e \in entries : e.action = "DeleteAddresses"}
    IN  IF wlt.queue = <<>> THEN UNCHANGED <<db, wlt, mishaps>>
        ELSE /\ db' = MapThenFoldSet(Merged, db, LAMBDA k : wlt.queue[k], Max, DOMAIN wlt.queue)
             /\ wlt' = [addrs |-> IF action = "DeleteAddresses"
                                  THEN wlt.addrs \ UNION {e.del : e \in entries}
                                  ELSE wlt.addrs \cup UNION {e.add : e \in entries},
                        queue |-> <<>>]
             /\ mishaps' = IF removes \notin {{}, entries} THEN mishaps \cup {"mixed"} ELSE mishaps

Refresh ==
    /\ main.pc = "refresh"
    /\ IF refresh THEN BtcWallet_merge ELSE UNCHANGED <<db, wlt, mishaps>>
    /\ refresh' = FALSE
    /\ main' = [main EXCEPT !.pc = "check", !.then = "blocks"]
    /\ UNCHANGED <<req, super, chain, reorgs, born, filter, kids, filled, sideScanFlag,
                   todo, ui, scan>>

(* readBlkFileUpdate: no new block, one more, or a longer branch.            *)
Extensions == IF Top < MaxHeight THEN {Append(chain, 0)} ELSE {}

Branches == IF reorgs < MaxReorgs /\ Top < MaxHeight
            THEN {SubSeq(chain, 1, Top - 1) \o <<1, 0>>} \ {chain \o <<0>>} ELSE {}

readBlkFileUpdate ==
    /\ main.pc = "blocks"
    /\ \/ /\ main' = [main EXCEPT !.pc = "check", !.then = "side"]
          /\ UNCHANGED <<chain, reorgs, db>>
       \/ \E c \in Extensions \cup Branches :
            LET stop == BranchPoint(chain, c)
                undone(a) == IF stop < Top THEN undoBlocksFromDB(db[a], a, chain, stop) ELSE db[a]
            IN  /\ chain' = c
                /\ reorgs' = IF stop < Top THEN reorgs + 1 ELSE reorgs
                /\ db' = IF super THEN db ELSE Update(filter.addrs,
                            LAMBDA a : applyBlockRangeToDB(undone(a), a, c, stop + 1, Len(c)))
                /\ Go("wallets")
    /\ UNCHANGED <<req, super, born, filter, kids, filled, wlt, sideScanFlag, refresh, todo, ui, scan, mishaps>>

(* scanWallets after new blocks. *)
scanWallets ==
    /\ main.pc = "wallets"
    /\ BtcWallet_merge
    /\ main' = [main EXCEPT !.pc = "check", !.then = "side"]
    /\ UNCHANGED <<req, super, chain, reorgs, born, filter, kids, filled, sideScanFlag, refresh,
                   todo, ui, scan>>

-----------------------------------------------------------------------------
Init ==
    /\ req \in Requests /\ super \in Modes
    /\ chain = Start /\ reorgs = 0
    /\ db = [a \in Addr |-> Fresh] /\ born = [a \in Addr |-> 0]
    /\ filter = [addrs |-> {}, toMerge |-> {}, mergeFlag |-> FALSE,
                 lastScannedBlkHash |-> <<>>, isScanning |-> FALSE]
    /\ kids = <<>> /\ filled = [b \in Batch |-> {}]
    /\ wlt = [addrs |-> {}, queue |-> <<>>]
    /\ sideScanFlag = FALSE /\ refresh = FALSE
    /\ todo = [b \in Batch |-> b] /\ ui = UIIdle
    /\ scan = [b \in Batch |-> NoThread]
    /\ main = [pc |-> "offline", then |-> "side", copy |-> {}]
    /\ mishaps = {}

UI == \/ \E b \in Batch : registerAddressBatch(b) \/ removeAddressBulk(b)
      \/ UIPrepare \/ UIRefresh \/ UILink \/ UIFill \/ UIFlag

SideThread(b) ==
    \/ ScanBegin(b) \/ setSSHLastScanned(b) \/ wipeScrAddrsSSH(b) \/ ScanBlocks(b) \/ ScanCommit(b)
    \/ merge(b) \/ prepareScrAddrForMerge(b) \/ needsRefresh(b)
    \/ ReadChild(b) \/ HandOver(b) \/ LowerFlag(b) \/ FlagNext(b)

MainThread ==
    \/ GoOnline \/ checkForMerge \/ checkForMerge_CatchUp \/ checkForMerge_Insert
    \/ startSideScan \/ Refresh \/ readBlkFileUpdate \/ scanWallets

Next == UI \/ MainThread \/ \E b \in Batch : SideThread(b)

Spec == Init /\ [][Next]_vars

-----------------------------------------------------------------------------
(* Types of the shared state: heights and histories stay within the chain,  *)
(* and only known races are recorded.                                       *)
TypeOK ==
    /\ super \in BOOLEAN /\ chain \in Blocks /\ reorgs \in 0 .. MaxReorgs
    /\ db \in [Addr -> [entries : SUBSET Blocks, total : Int, scanned : 0 .. MaxHeight]]
    /\ filter.addrs \subseteq Addr /\ filter.toMerge \subseteq Addr
    /\ Range(kids) \subseteq Batch /\ filled \in [Batch -> SUBSET Addr]
    /\ mishaps \subseteq {"detached", "overwritten", "unfilled", "cleared", "mixed"}

(* The side thread of the batch b has begun and has not cleared isScanning_ *)
(* yet.                                                                     *)
Inside(b) == scan[b].pc \notin {"none", "flag"}

(* isScanning_ admits one side thread at a time, although the main thread   *)
(* sets it, the side thread clears it, neither holds a lock, and the next   *)
(* child hangs on the main filter before the flag is lowered.               *)
OneScanAtATime == \A b, c \in Batch : Inside(b) /\ Inside(c) => b = c

Of(kind) == UNION {req[b].addrs : b \in {b \in Batch : req[b].kind = kind}}

(* Nobody has anything left to do and no flag is up. *)
Quiet ==
    /\ todo = <<>> /\ ui.pc = "idle" /\ main.pc = "side"
    /\ ~sideScanFlag /\ ~refresh /\ ~filter.mergeFlag /\ \A b \in Batch : scan[b].pc = "none"

(* The five races that mishaps lists are the only way to lose a             *)
(* registration: without them, once every thread has come to rest, each     *)
(* address that was registered and not removed is in the wallet and in the  *)
(* main filter, no filter waits for a scan and the next scan may start.     *)
NothingForgotten ==
    (Quiet /\ mishaps = {}) =>
        /\ Of("add") \ Of("remove") \subseteq wlt.addrs \cap filter.addrs
        /\ kids = <<>> /\ ~filter.isScanning

Forced == \E b \in Batch : req[b].kind = "force"

(* The blocks of the main branch up to the height to that pay a. *)
Paying(a, to) == {SubSeq(chain, 1, k) : k \in born[a] + 1 .. to}

(* When checkForMerge adds the addresses of a side scan to the main filter, *)
(* they have been scanned up to the block below the top, whatever blocks    *)
(* and reorganisations arrived during the side scan.  Addresses registered  *)
(* as new and wallets that are scanned again are left out: see below.       *)
MergedUpToTop ==
    (main.pc = "insert" /\ ~super /\ ~Forced /\ mishaps = {}) =>
        \A a \in main.copy : born[a] = 0 => Paying(a, Top - 1) \subseteq db[a].entries

(* A reorganisation during a side scan, or between the side scan and the    *)
(* merge, leaves no block of the old branch in the history of an address    *)
(* that the main thread follows.                                            *)
OnlyMainBranch ==
    (main.pc = "side" /\ ~Forced /\ mishaps = {}) =>
        \A a \in filter.addrs : \A e \in db[a].entries : IsAncestor(e, chain)

(* The side scan, checkForMerge, BtcWallet::merge and the main scan may all *)
(* apply the same block to an address: as long as no branch is left, its    *)
(* total counts every entry once.                                           *)
CountedOnce ==
    (main.pc = "side" /\ reorgs = 0 /\ ~Forced /\ mishaps = {}) =>
        \A a \in filter.addrs : db[a].total = Cardinality(db[a].entries)

(* The histories of the addresses are those of the main branch, however the *)
(* side scan, the merge, new blocks and reorganisations follow each other.  *)
HistoriesAreRight == MergedUpToTop /\ OnlyMainBranch /\ CountedOnce

=============================================================================
