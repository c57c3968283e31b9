------------------------------ MODULE BlockSync ------------------------------
(***************************************************************************)
(* How a full node brings its databases up to date with the block files:   *)
(* loadDiskState at start and readBlkFileUpdate while it runs              *)
(* (cppForSwig/BlockUtils.cpp), ReorgUpdater.h, the commits of             *)
(* BlockWriteBatcher.cpp and the header tables of lmdb_wrapper.cpp.        *)
(*                                                                         *)
(* Every database transaction is a step of its own, and a crash between    *)
(* two of them loses the memory and keeps the database.  One address is    *)
(* registered, and every block pays it once, so that the history of the    *)
(* address lists the blocks that were scanned.  Blocks have equal work.    *)
(***************************************************************************)
EXTENDS HeaderTree

CONSTANT Worlds        \* the circumstances considered: records
                       \*   tree     a header tree
                       \*   blocks   the blocks that the node writes
                       \*   inOrder  whether a block is written after its parent
                       \*   stops    how often the program may be stopped while idle
                       \*   crashes  how often it may die anywhere

VARIABLES world,       \* the circumstances, constant
          file,        \* the block files of the node, one sequence of blocks
          db,          \* the databases
          ram,         \* the block data manager in memory
          pc,          \* what its thread does next
          stops, crashes

vars == <<world, prev, diff, file, db, ram, pc, stops, crashes>>

NoDup == 255           \* UINT8_MAX
Height == 0 .. Cardinality(Hash) - 1

AtIndex(seq, x) == CHOOSE i \in DOMAIN seq : seq[i] = x

-----------------------------------------------------------------------------
(* The header tables of the HEADERS database, t, and the main-branch table  *)
(* validDupByHeight_, valid.  The n-th hash listed at a height has the      *)
(* duplicate id n - 1.                                                      *)

putBareHeader(t, valid, h, height, main, updateDupID) ==
    LET list  == t.list[height]
        known == h \in ToSet(list)
        d     == IF known THEN AtIndex(list, h) - 1 ELSE Len(list)
    IN  [t     |-> [hdr  |-> (h :> d) @@ t.hdr,
                    list |-> IF known THEN t.list ELSE [t.list EXCEPT ![height] = Append(@, h)],
                    pref |-> IF main /\ (list = <<>> \/ updateDupID)
                             THEN [t.pref EXCEPT ![height] = d] ELSE t.pref],
         valid |-> IF main /\ (updateDupID \/ valid[height] = NoDup)
                   THEN [valid EXCEPT ![height] = d] ELSE valid,
         dup   |-> d]

markBlockHeaderValid(t, valid, key) ==
    IF t.pref[key[1]] # key[2] /\ key[2] < Len(t.list[key[1]])
    THEN [t     |-> [t EXCEPT !.pref[key[1]] = key[2]],
          valid |-> [valid EXCEPT ![key[1]] = key[2]]]
    ELSE [t |-> t, valid |-> valid]

(* readAllHeaders, forceOrganize, setDuplicateIDinRAM *)
FromDB ==
    LET b == FoldSet(LAMBDA h, acc : AddHeader(acc, h), Cleared, DOMAIN db.t.hdr)
    IN  Organized(b, TRUE).bc

StoredDup(h) == IF h \in DOMAIN db.t.hdr THEN db.t.hdr[h] ELSE NoDup

setDuplicateIDinRAM(b) ==
    [k \in Height |->
        IF \E h \in DOMAIN b.hdr : b.hdr[h].main /\ b.hdr[h].height = k
        THEN StoredDup(CHOOSE h \in DOMAIN b.hdr : b.hdr[h].main /\ b.hdr[h].height = k)
        ELSE NoDup]

-----------------------------------------------------------------------------
(* Positions in the block files: the index of the next block to read.       *)

findFirstUnrecognizedBlockHeader(b) ==
    LET unknown == {i \in DOMAIN file : file[i] \notin DOMAIN b.hdr}
        found   == IF unknown = {} THEN Len(file) ELSE Min(unknown)
    IN  IF found = 2 THEN 1
        ELSE IF unknown = {} THEN Len(file) + 1
        ELSE IF b.top \in ToSet(SubSeq(file, 1, found - 1)) THEN found
        ELSE 1

findFirstBlockToApply(b, pos) ==
    LET last == db.topBlk.hash
    IN  IF last \notin DOMAIN b.hdr \/ b.hdr[last].height = 0 THEN 1
        ELSE IF b.hdr[last].next = NoHash THEN pos
        ELSE AtIndex(file, last) + 1

ReadHeaders(b, pos) ==
    FoldLeft(LAMBDA acc, h : AddHeader(acc, h), b, SubSeq(file, pos, Len(file)))

ForgetDups(dup, pos) ==
    [h \in Hash |-> IF h \in ToSet(SubSeq(file, pos, Len(file))) THEN NoDup ELSE dup[h]]

Key(h) == <<ram.bc.hdr[h].height, ram.dup[h]>>

-----------------------------------------------------------------------------
(* BlockWriteBatcher: the summary of the address (sshToModify_), the        *)
(* history entries to write and to delete, and what goes into StoredDBInfo. *)

NoBatch == [total |-> 0, scanned |-> 0, add |-> {}, del |-> {}, top |-> NoHash,
            recent |-> 0, forced |-> FALSE]

Batcher(forced) ==
    [total |-> db.total, scanned |-> db.scanned, add |-> {}, del |-> {},
     top |-> NoHash, recent |-> 0, forced |-> forced]

(* prepareSshToModify: the summary is read once per batcher. *)
Prepared(w) == IF w = NoBatch THEN Batcher(FALSE) ELSE w

undoBlockFromDB(w, key) ==
    [Prepared(w) EXCEPT !.total = @ - 1, !.del = @ \cup {key}, !.top = db.blk[key],
              !.recent = key[1] - 1]

(* An output of a block that the address has already seen is skipped. *)
parseTxOuts(w, key) == IF w.scanned >= key[1] /\ w.scanned # 0 THEN {} ELSE {key}

applyBlockToDB(w, key) ==
    [w EXCEPT !.recent = key[1], !.top = db.blk[key], !.add = @ \cup parseTxOuts(w, key)]

serializeSSH(w) ==
    LET counted == {k \in w.add : \/ k[1] > w.scanned \/ w.scanned = 0
                                  \/ w.forced /\ k[1] > w.recent - 1}
    IN  [w EXCEPT !.total = @ + Cardinality(counted), !.scanned = w.recent]

(* The blocks from the old top down to the branch point, top first. *)
Abandoned(old, branch) ==
    LET down[h \in DOMAIN ram.bc.hdr] ==
            IF h = branch THEN <<>> ELSE <<h>> \o down[prev[h]]
    IN  down[old]

-----------------------------------------------------------------------------
(* The node and the program's life.                                          *)

NoTables == [hdr |-> <<>>, list |-> [k \in Height |-> <<>>], pref |-> [k \in Height |-> NoDup]]

Off ==
    [bc |-> Cleared, dup |-> [h \in Hash |-> NoDup], valid |-> [k \in Height |-> NoDup],
     pos |-> 1, upTo |-> 1, todo |-> <<>>, t |-> NoTables, undo |-> <<>>, old |-> NoHash, branch |-> NoHash,
     sync |-> 0, scanFrom |-> 0, checkFrom |-> 0, queue |-> <<>>, w |-> NoBatch, final |-> FALSE,
     after |-> "ready", onError |-> "failed", mode |-> "load"]

Init ==
    /\ world \in Worlds
    /\ prev = world.tree
    /\ diff = [h \in Hash |-> 1]
    /\ file = <<Genesis>>
    /\ db = [t |-> NoTables, blk |-> <<>>, topBlk |-> [hash |-> Genesis, height |-> 0],
             sub |-> {}, stx |-> {}, hints |-> {}, total |-> 0, scanned |-> 0, topScanned |-> NoHash]
    /\ ram = Off
    /\ pc = "down"
    /\ stops = 0 /\ crashes = 0

(* The node appends a block.  The files are read at two places only, when the *)
(* program starts and when an update begins, so that blocks need not arrive   *)
(* anywhere else.                                                             *)
BlockArrives(h) ==
    /\ pc \in {"down", "ready"}
    /\ h \in world.blocks \ ToSet(file)
    /\ world.inOrder => prev[h] \in ToSet(file)
    /\ file' = Append(file, h)
    /\ UNCHANGED <<world, prev, diff, db, ram, pc, stops, crashes>>

Stop ==
    /\ pc = "ready" /\ stops < world.stops
    /\ stops' = stops + 1
    /\ pc' = "down" /\ ram' = Off
    /\ UNCHANGED <<world, prev, diff, file, db, crashes>>

Crash ==
    /\ pc \notin {"down", "ready", "failed"} /\ crashes < world.crashes
    /\ crashes' = crashes + 1
    /\ pc' = "down" /\ ram' = Off
    /\ UNCHANGED <<world, prev, diff, file, db, stops>>

(* An exception left loadDiskState or a scan was interrupted: the program     *)
(* tells the user and ends, and the user starts it again.                     *)
GiveUp ==
    /\ pc = "failed" /\ stops < world.stops
    /\ stops' = stops + 1
    /\ pc' = "down" /\ ram' = Off
    /\ UNCHANGED <<world, prev, diff, file, db, crashes>>

-----------------------------------------------------------------------------
(* loadDiskState, up to findFirstBlockToApply: the database is only read.     *)

(* ram.sync is the height in scrAddrMap_, as it was when the program started: *)
(* 0 if a fresh address was registered since.                                  *)
Loaded(fresh, known, start, all) ==
    [Off EXCEPT !.bc = all,
                !.dup = ForgetDups([h \in Hash |-> StoredDup(h)], start),
                !.valid = setDuplicateIDinRAM(known),
                !.pos = findFirstBlockToApply(all, start),
                !.upTo = Len(file) + 1,
                !.todo = SubSeq(file, start, Len(file)),
                !.sync = IF fresh THEN 0 ELSE db.scanned,
                !.checkFrom = known.hdr[known.top].height]

loadHeaders(fresh) ==
    /\ pc = "down" /\ Len(file) > 1
    /\ LET from(known, start) ==
               Loaded(fresh, known, start, Organized(ReadHeaders(known, start), TRUE).bc)
           after(known) == from(known, findFirstUnrecognizedBlockHeader(known))
       IN  ram' = after(FromDB)
    /\ pc' = "findScan"
    /\ UNCHANGED <<world, prev, diff, file, db, stops, crashes>>

(* wipeHistoryAndHintDB: two transactions, and the thread goes on to "next".    *)
WipedHistory == [db EXCEPT !.sub = {}, !.stx = {}, !.total = 0, !.scanned = 0, !.topScanned = NoHash]

wipeHistory(r, next) ==
    /\ db' = WipedHistory
    /\ ram' = [r EXCEPT !.after = next]
    /\ pc' = "wipeHints"

wipeHints ==
    /\ pc = "wipeHints"
    /\ db' = [db EXCEPT !.hints = {}]
    /\ pc' = ram.after
    /\ ram' = [ram EXCEPT !.after = "ready"]
    /\ UNCHANGED <<world, prev, diff, file, stops, crashes>>

(* The branch point exists: a block that was scanned is connected to genesis. *)
findFirstBlockToScan ==
    /\ pc = "findScan"
    /\ LET last   == db.topScanned
           hdr    == ram.bc.hdr
           branch == findReorgPointFromBlock(ram.bc, last)
           known  == last \in DOMAIN hdr
           next(from) == [ram EXCEPT !.scanFrom = from]
       IN  \/ /\ ~known
              /\ ram' = next(0) /\ pc' = "putHeaders" /\ UNCHANGED db
           \/ /\ known /\ hdr[last].main
              /\ ram' = next(IF hdr[last].height > 0 THEN hdr[last].height + 1 ELSE 0)
              /\ pc' = "putHeaders" /\ UNCHANGED db
           \/ /\ known /\ ~hdr[last].main
              /\ ram.sync < hdr[branch].height
              /\ wipeHistory([next(0) EXCEPT !.sync = 0], "putHeaders")
           \/ /\ known /\ ~hdr[last].main
              /\ ram.sync >= hdr[branch].height
              /\ ram' = [next(hdr[branch].height + 1) EXCEPT
                            !.undo = Abandoned(last, branch), !.w = NoBatch,
                            !.after = "putHeaders", !.onError = "failed"]
              /\ pc' = "batch"
              /\ UNCHANGED db
    /\ UNCHANGED <<world, prev, diff, file, stops, crashes>>

putNewBareHeaders ==
    /\ pc = "putHeaders"
    /\ IF ram.todo = <<>>
       THEN pc' = "blockData" /\ UNCHANGED <<db, ram>>
       ELSE LET h == Head(ram.todo)
                p == putBareHeader(db.t, ram.valid, h, ram.bc.hdr[h].height,
                                   ram.bc.hdr[h].main, TRUE)
            IN  /\ db' = [db EXCEPT !.t = p.t]
                /\ ram' = [ram EXCEPT !.todo = Tail(@), !.valid = p.valid, !.dup[h] = p.dup]
                /\ UNCHANGED pc
    /\ UNCHANGED <<world, prev, diff, file, stops, crashes>>

(* loadBlockData, one raw block that has a height and a duplicate id.  The     *)
(* BLKDATA transaction of the callback is open around putRawBlockData: its      *)
(* HISTORY transaction, in which the block may become the top block, commits    *)
(* first, and the block itself when the callback returns.                       *)
HasKey(h) == ram.bc.hdr[h].height # NoHeight /\ ram.dup[h] # NoDup

TopBlk(h) ==
    IF ram.bc.hdr[h].main /\ ram.bc.hdr[h].height > db.topBlk.height
    THEN [hash |-> h, height |-> ram.bc.hdr[h].height] ELSE db.topBlk

putRawBlockData(h, commit) ==
    /\ db' = [db EXCEPT !.topBlk = TopBlk(h)]
    /\ pc' = commit

loadBlockData ==
    /\ pc = "blockData" /\ ram.pos < ram.upTo
    /\ IF HasKey(file[ram.pos])
       THEN putRawBlockData(file[ram.pos], "commitBlock") /\ UNCHANGED ram
       ELSE ram' = [ram EXCEPT !.pos = @ + 1] /\ UNCHANGED <<db, pc>>
    /\ UNCHANGED <<world, prev, diff, file, stops, crashes>>

commitBlockData ==
    /\ pc = "commitBlock"
    /\ db' = [db EXCEPT !.blk = (Key(file[ram.pos]) :> file[ram.pos]) @@ @]
    /\ ram' = [ram EXCEPT !.pos = @ + 1]
    /\ pc' = "blockData"
    /\ UNCHANGED <<world, prev, diff, file, stops, crashes>>

Top == ram.bc.hdr[ram.bc.top].height

(* The check for missing blocks that follows loadBlockData, and the blocks of  *)
(* the main branch at those heights, read once more in the order of the files. *)
checkBlocks ==
    /\ pc = "blockData" /\ ram.pos = ram.upTo /\ ram.mode = "load"
    /\ LET low     == Min({ram.checkFrom, ram.scanFrom})
           checked == (IF low > 0 THEN low - 1 ELSE 0) .. Top
           missing == {k \in checked : <<k, ram.valid[k]>> \notin DOMAIN db.blk}
           again   == {h \in {ram.bc.byHeight[k + 1] : k \in missing} : HasKey(h)}
       IN  IF \E k \in checked : ram.valid[k] = NoDup
           THEN pc' = "failed" /\ UNCHANGED ram
           ELSE /\ ram' = [ram EXCEPT !.todo = SelectSeq(file, LAMBDA h : h \in again)]
                /\ pc' = "repair"
    /\ UNCHANGED <<world, prev, diff, file, db, stops, crashes>>

repairBlockDataDB ==
    /\ pc = "repair"
    /\ IF ram.todo = <<>>
       THEN pc' = "scan" /\ UNCHANGED db
       ELSE putRawBlockData(Head(ram.todo), "commitRepair")
    /\ UNCHANGED <<world, prev, diff, file, ram, stops, crashes>>

commitRepair ==
    /\ pc = "commitRepair"
    /\ db' = [db EXCEPT !.blk = (Key(Head(ram.todo)) :> Head(ram.todo)) @@ @]
    /\ ram' = [ram EXCEPT !.todo = Tail(@)]
    /\ pc' = "repair"
    /\ UNCHANGED <<world, prev, diff, file, stops, crashes>>

(* What is left in memory once a load or an update is over. *)
Idle(r) ==
    [Off EXCEPT !.bc = r.bc, !.dup = r.dup, !.valid = r.valid, !.pos = r.upTo, !.upTo = r.upTo]

KeysBetween(from, to) == [i \in 1 .. to - from + 1 |-> <<from + i - 1, ram.valid[from + i - 1]>>]

(* The last part of loadDiskState: where to scan from, and the histories are   *)
(* deleted if that is the first block.                                         *)
scanRegistered ==
    /\ pc = "scan"
    /\ LET from == Min({ram.sync, ram.scanFrom})
       IN  IF Top = 0
           THEN pc' = "failed" /\ UNCHANGED <<db, ram>>
           ELSE \/ /\ from = 0
                   /\ wipeHistory(ram, "startScan")
                \/ /\ from > 0
                   /\ UNCHANGED <<db, ram>> /\ pc' = "startScan"
    /\ UNCHANGED <<world, prev, diff, file, stops, crashes>>

startScan ==
    /\ pc = "startScan"
    /\ ram' = [ram EXCEPT !.queue = KeysBetween(Min({ram.sync, ram.scanFrom}), Top),
                          !.w = Batcher(FALSE), !.after = "ready"]
    /\ pc' = "batch"
    /\ UNCHANGED <<world, prev, diff, file, db, stops, crashes>>

-----------------------------------------------------------------------------
(* applyBlocksToDB and reorgApplyBlock.  A range that meets a block that is    *)
(* not in BLKDATA is given up; a reorganisation steps over it.  A range is     *)
(* committed at its end, and before that whenever the batch is large.          *)

Interrupted(key) == key \notin DOMAIN db.blk

(* undoBlocksFromDB, one block, the top one first.  createUndoDataFromBlock     *)
(* throws at a block that the database does not hold: what is undone by then    *)
(* is committed by the destructor of the batcher.                               *)
undoBlock ==
    /\ pc = "batch" /\ ram.undo # <<>>
    /\ LET key == Key(Head(ram.undo))
       IN  \/ /\ ~Interrupted(key)
              /\ ram' = [ram EXCEPT !.undo = Tail(@), !.w = undoBlockFromDB(@, key)]
              /\ pc' \in {"batch", "putSSH"}
           \/ /\ Interrupted(key) /\ ram.w # NoBatch
              /\ ram' = [ram EXCEPT !.undo = <<>>, !.after = ram.onError]
              /\ UNCHANGED pc
           \/ /\ Interrupted(key) /\ ram.w = NoBatch
              /\ ram' = IF ram.onError = "ready" THEN Idle(ram) ELSE ram
              /\ pc' = ram.onError
    /\ UNCHANGED <<world, prev, diff, file, db, stops, crashes>>

applyBlock ==
    /\ pc = "batch" /\ ram.queue # <<>>
    /\ LET key == Head(ram.queue)
           rest == [ram EXCEPT !.queue = Tail(@)]
       IN  \/ /\ ~ram.w.forced /\ Interrupted(key)
              /\ ram' = [ram EXCEPT !.queue = <<>>, !.after = "failed"]
              /\ pc' = "batch"
           \/ /\ ram.w.forced /\ (Interrupted(key) \/ ram.valid[key[1]] # key[2])
              /\ ram' = rest
              /\ pc' = "batch"
           \/ /\ ram.w.forced /\ ~Interrupted(key) /\ ram.valid[key[1]] = key[2]
              /\ ram' = [rest EXCEPT !.w = applyBlockToDB(@, key)]
              /\ pc' = "putSSH"
           \/ /\ ~ram.w.forced /\ ~Interrupted(key)
              /\ ram' = [rest EXCEPT !.w = applyBlockToDB(@, key)]
              /\ pc' \in {"batch", "putSSH"}
    /\ UNCHANGED <<world, prev, diff, file, db, stops, crashes>>

(* The destructor of the batcher commits once more. *)
lastCommit ==
    /\ pc = "batch" /\ ram.queue = <<>> /\ ram.undo = <<>>
    /\ ram' = [ram EXCEPT !.final = TRUE]
    /\ pc' = "putSSH"
    /\ UNCHANGED <<world, prev, diff, file, db, stops, crashes>>

-----------------------------------------------------------------------------
(* writeToDB: four transactions on the HISTORY database.  The hints by which a *)
(* transaction is found are committed inside the second one, so before it.     *)

putSSH ==
    /\ pc = "putSSH"
    /\ LET w == serializeSSH(ram.w)
       IN  /\ db' = [db EXCEPT !.total = w.total, !.scanned = w.scanned, !.sub = @ \cup w.add]
           /\ ram' = [ram EXCEPT !.w = w]
    /\ pc' = "putTxHints"
    /\ UNCHANGED <<world, prev, diff, file, stops, crashes>>

putTxHints ==
    /\ pc = "putTxHints"
    /\ db' = [db EXCEPT !.hints = @ \cup ram.w.add]
    /\ pc' = "putSTX"
    /\ UNCHANGED <<world, prev, diff, file, ram, stops, crashes>>

putSTX ==
    /\ pc = "putSTX"
    /\ db' = [db EXCEPT !.stx = @ \cup ram.w.add]
    /\ pc' = "deleteEmptyKeys"
    /\ UNCHANGED <<world, prev, diff, file, ram, stops, crashes>>

deleteEmptyKeys ==
    /\ pc = "deleteEmptyKeys"
    /\ db' = [db EXCEPT !.sub = @ \ ram.w.del]
    /\ pc' = "updateSDBI"
    /\ UNCHANGED <<world, prev, diff, file, ram, stops, crashes>>

updateSDBI ==
    /\ pc = "updateSDBI"
    /\ db' = IF ram.w.recent # 0 /\ ram.w.top # NoHash
             THEN [db EXCEPT !.topScanned = ram.w.top] ELSE db
    /\ LET done == [ram EXCEPT !.w.add = {}, !.w.del = {}, !.w.top = NoHash, !.final = FALSE]
       IN  ram' = IF ram.final /\ ram.after = "ready" THEN Idle(ram) ELSE done
    /\ pc' = IF ram.final THEN ram.after ELSE "batch"
    /\ UNCHANGED <<world, prev, diff, file, stops, crashes>>

-----------------------------------------------------------------------------
(* readBlkFileUpdate.  The new headers go into a HEADERS transaction that is   *)
(* open until the block data is loaded.                                        *)

(* The new top: its branch is put into the tables. *)
NewTop(o, fresh, new) ==
    LET put == FoldLeft(LAMBDA acc, h :
                   LET p == putBareHeader(acc.t, acc.valid, h, o.bc.hdr[h].height, TRUE,
                                          o.ret.stillValid)
                   IN  [t |-> p.t, valid |-> p.valid, dup |-> [acc.dup EXCEPT ![h] = p.dup]],
                   [t |-> db.t, valid |-> ram.valid, dup |-> fresh], new)
    IN  [ram EXCEPT !.bc = o.bc, !.dup = put.dup, !.valid = put.valid, !.t = put.t,
                    !.pos = Min({ram.pos} \cup {AtIndex(file, h) : h \in ToSet(new)}),
                    !.upTo = Len(file) + 1, !.mode = "update",
                    !.old = o.ret.prevTop, !.branch = o.ret.branch]

\* Mutant: the headers read are dropped.
HeadersRead_Drops(o, fresh) ==
    /\ ram' = [ram EXCEPT !.pos = Len(file) + 1, !.upTo = Len(file) + 1]
    /\ UNCHANGED pc

HeadersRead(o, fresh) ==
    \/ /\ ~o.ret.newTop
       /\ ram' = [ram EXCEPT !.bc = o.bc, !.dup = fresh,
                             !.pos = Len(file) + 1, !.upTo = Len(file) + 1]
       /\ UNCHANGED pc
    \/ /\ o.ret.newTop
       /\ ram' = NewTop(o, fresh, NewHeaders(o.bc, o.ret))
       /\ pc' = "blockData"

readBlkFileUpdate ==
    /\ pc = "ready"
    /\ \/ /\ ram.pos > Len(file)
          /\ UNCHANGED <<ram, pc>>
       \/ /\ ram.pos <= Len(file)
          /\ HeadersRead(Organized(ReadHeaders(ram.bc, ram.pos), FALSE),
                         ForgetDups(ram.dup, ram.pos))
    /\ UNCHANGED <<world, prev, diff, file, db, stops, crashes>>

commitHeaders ==
    /\ pc = "blockData" /\ ram.pos = ram.upTo /\ ram.mode = "update"
    /\ db' = [db EXCEPT !.t = ram.t]
    /\ \/ /\ ram.branch # NoHash
          /\ ram' = [ram EXCEPT !.t = NoTables, !.undo = Abandoned(ram.old, ram.branch),
                        !.w = NoBatch, !.after = "markValid", !.onError = "ready"]
       \/ /\ ram.branch = NoHash
          /\ ram' = [ram EXCEPT !.t = NoTables, !.w = Batcher(FALSE), !.after = "ready",
                        !.queue = KeysBetween(ram.bc.hdr[ram.old].height + 1, Top)]
    /\ pc' = "batch"
    /\ UNCHANGED <<world, prev, diff, file, stops, crashes>>

applyBlocksFromBranchPoint(new) == [i \in DOMAIN new |-> Key(new[i])]

\* Mutant: the new branch is applied before its blocks are marked valid.
updateBlockDupIDs_NotMarked ==
    /\ pc = "markValid"
    /\ LET new == NewHeaders(ram.bc, [stillValid |-> FALSE, branch |-> ram.branch])
       IN  ram' = [ram EXCEPT !.w = Batcher(TRUE), !.after = "ready",
                              !.queue = applyBlocksFromBranchPoint(new)]
    /\ pc' = "batch"
    /\ UNCHANGED <<world, prev, diff, file, db, stops, crashes>>

updateBlockDupIDs ==
    /\ pc = "markValid"
    /\ LET new  == NewHeaders(ram.bc, [stillValid |-> FALSE, branch |-> ram.branch])
           mark == FoldLeft(LAMBDA acc, h : markBlockHeaderValid(acc.t, acc.valid, Key(h)),
                            [t |-> db.t, valid |-> ram.valid], new)
       IN  /\ db' = [db EXCEPT !.t = mark.t]
           /\ ram' = [ram EXCEPT !.valid = mark.valid, !.w = Batcher(TRUE), !.after = "ready",
                                 !.queue = applyBlocksFromBranchPoint(new)]
    /\ pc' = "batch"
    /\ UNCHANGED <<world, prev, diff, file, stops, crashes>>

Load == \/ \E fresh \in BOOLEAN : loadHeaders(fresh)
        \/ findFirstBlockToScan \/ putNewBareHeaders
        \/ loadBlockData \/ commitBlockData \/ checkBlocks \/ repairBlockDataDB \/ commitRepair
        \/ wipeHints \/ scanRegistered \/ startScan
Scan == undoBlock \/ applyBlock \/ lastCommit
Write == putSSH \/ putTxHints \/ putSTX \/ deleteEmptyKeys \/ updateSDBI
Update == readBlkFileUpdate \/ commitHeaders \/ updateBlockDupIDs

Work == Load \/ Scan \/ Write \/ Update

Next ==
    \/ \E h \in Hash : BlockArrives(h)
    \/ Stop \/ Crash \/ GiveUp
    \/ Work

(* The block data manager's thread runs, and a program that ended is started   *)
(* again: weak fairness of its steps, with Busy for ENABLED.                   *)
Busy == \/ pc \notin {"down", "ready", "failed"}
        \/ pc = "down" /\ Len(file) > 1
        \/ pc = "ready" /\ ram.pos <= Len(file)

Spec == Init /\ [][Next]_vars /\ ([]<>~Busy \/ []<><<Work>>_vars)

-----------------------------------------------------------------------------
(* Properties                                                                  *)

MainChain == AncestorsIn(DOMAIN ram.bc.hdr, ram.bc.top)

(* The program is up to date: the history of the address has one entry for     *)
(* every block of the main chain and none for any other block, and the last    *)
(* block scanned is the top of the chain.                                      *)
UpToDate ==
    /\ db.sub \subseteq DOMAIN db.blk
    /\ {db.blk[k] : k \in db.sub} = MainChain
    /\ db.scanned = Top
    /\ db.topScanned = ram.bc.top

(* There is one chain, and it arrives in order. *)
NoForks == world.inOrder /\ \A x, y \in Hash : prev[x] = prev[y] => x = y

\* Whenever the program is idle it is up to date.  As long as it is not
\* restarted that survives every reorganisation, however deep and in whatever
\* order and batches its blocks arrive; where the chain does not fork it
\* survives every restart and crash too.
HistoryIsMainChain == pc = "ready" /\ (stops + crashes = 0 \/ NoForks) => UpToDate

\* The totals of an address, from which its balance comes, count every entry of
\* its history exactly once, also after reorganisations, restarts and rescans; a
\* crash between the commits of the totals and of the scan position may let a
\* block be counted twice.
TotalsCountEntries == pc = "ready" /\ crashes = 0 => db.total = Cardinality(db.sub)

\* At no time, not even between the transactions of a reorganisation, does the
\* history hold entries of two blocks of the same height.
OneBlockPerHeight == \A j, k \in db.sub : j[1] = k[1] => j = k

\* Every block that the node stores comes to be in the history of a program that
\* is up to date, whatever crashes and restarts there are before, where the
\* chain does not fork.
CatchesUp ==
    NoForks => \A h \in Hash \ {Genesis} :
        h \in ToSet(file) ~>
            (pc = "ready" /\ \E k \in db.sub : k \in DOMAIN db.blk /\ db.blk[k] = h)

\* topScannedBlkHash_ is the last block "commited to SSH": where a restart
\* resumes, the history has the entry of that block, unless a block was undone.
TopScannedIsCommitted ==
    NoForks /\ pc \in {"ready", "down"} /\ db.topScanned # NoHash =>
        \E k \in db.sub : k \in DOMAIN db.blk /\ db.blk[k] = db.topScanned

\* A transaction that the history stores can be found by its hash at any time, also
\* between the transactions of a commit or of a wipe and after a crash there: its
\* hint is written before it and dropped after it.
StoredAreFound == db.stx \subseteq db.hints

\* The history that the database has of an address is that of the main chain,
\* entry by entry and in its totals, up to the block where a restart resumes.
HistoryIsRight ==
    HistoryIsMainChain /\ TotalsCountEntries /\ OneBlockPerHeight /\ TopScannedIsCommitted
    /\ StoredAreFound

=============================================================================
