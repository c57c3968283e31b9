------------------------------ MODULE ZeroConf ------------------------------
(***************************************************************************)
(* The pool of unconfirmed ("zero-confirmation", ZC) transactions of the   *)
(* C++ engine: ZeroConfContainer (BDM_supportClasses.cpp), its callers in  *)
(* BlockDataViewer and the wallet view they feed (BtcWallet, ScrAddrObj).  *)
(*                                                                         *)
(* Threads that receive transactions call addNewZeroConfTx at any time.    *)
(* One main thread parses what they left, scans the wallets, takes new     *)
(* blocks, and purges the pool.  The pool is mirrored in the database and  *)
(* loaded again after a restart.                                           *)
(*                                                                         *)
(* A transaction has one input and one output of unit value.  The key of   *)
(* an output is <<o, k>>: the transaction (or old coin) o that made it and *)
(* the ZC key k of o, or Blk when o is read from a block.  A TxIOPair is   *)
(* an entry of a function from output keys to the key of the input that    *)
(* spends the output, NoIn when nothing does.                              *)
(***************************************************************************)
EXTENDS Integers, FiniteSets, FiniteSetsExt, TLC

CONSTANTS
    Tx,         \* transactions
    Coins,      \* outputs mined before the program starts
    Shapes,     \* [in : [Tx -> Coins \cup Tx], mine : SUBSET (Coins \cup Tx)]
    Threads,    \* threads that call addNewZeroConfTx
    MaxKey,     \* bound: ZC keys handed out in one session
    MaxBlocks,  \* bound: new blocks and reorganisations
    MaxCrashes  \* bound: restarts

VARIABLES
    shape,    \* what every transaction spends, and which outputs are ours
    mined,    \* transactions of the main chain
    change,   \* the blocks not yet scanned by the wallets
    net,      \* per thread: where addNewZeroConfTx is, with which Tx and key
    topId,    \* topId_: the next ZC key
    newZC,    \* newZCMap_: key -> Tx, not parsed yet
    flag,     \* rescanZC_
    zc,       \* txMap_, txHashToDBKey_, txioMap_, newTxioMap_, txOutsSpentByZC_
    dbZC,     \* the ZC entries of the database: key -> Tx
    wlt,      \* relevantTxIO_ of the wallet's addresses
    pc,       \* where the main thread is; "off" when the program is not running
    batch,    \* zcMap of parseNewZC
    ours,     \* zcIsOurs of parseNewZC
    blocks, crashes

mainVars == <<zc, dbZC, wlt, pc, batch, ours, change>>
netVars == <<net, topId>>
worldVars == <<shape, mined, blocks, crashes>>
vars == <<mainVars, netVars, worldVars, newZC, flag>>

-----------------------------------------------------------------------------
Empty == <<>>
NoIn == <<>>
NoChange == [new |-> {}, gone |-> {}, reorg |-> FALSE]
Blk == -1

Without(f, S) == [x \in DOMAIN f \ S |-> f[x]]
With(f, k, v) == [x \in DOMAIN f \cup {k} |-> IF x = k THEN v ELSE f[x]]
IsZC(key) == key # NoIn /\ key[2] # Blk

in(t) == shape.in[t]
Mined(o) == o \in Coins \cup mined

\* The database of a full node knows the mined transactions that touch our
\* addresses, and no other (its transaction hints are written for those).
InDB(t) == t \in mined /\ {t, in(t)} \cap shape.mine # {}

EmptyPool == [txMap |-> Empty, keyOf |-> Empty, txio |-> Empty,
              newTxio |-> Empty, spent |-> {}]

-----------------------------------------------------------------------------
(* What a transaction means to us.                                         *)

ZCisMineBulkFilter_Confirmed(t, k, keyOf) ==
    (IF in(t) \in DOMAIN keyOf
       THEN <<in(t), keyOf[in(t)]>> :> <<t, k>>
       ELSE [x \in {<<o, Blk>> : o \in {c \in {in(t)} \cap shape.mine : Mined(c)}}
               |-> <<t, k>>])
    @@ [x \in {<<o, k>> : o \in {t} \cap shape.mine} |-> NoIn]

\* Nothing when the database has the transaction in a block.  Otherwise the
\* output it spends, found in the pool (whoever owns it) or, when it is ours,
\* in a block; and its own output when that is ours.
ZCisMineBulkFilter(t, k, keyOf) ==
    IF InDB(t) THEN Empty ELSE ZCisMineBulkFilter_Confirmed(t, k, keyOf)

SpentIn(txio) == {x \in DOMAIN txio : txio[x] # NoIn}

\* map::insert keeps the entry that is there; operator[] replaces it.
Accept(z, t, k, txio) ==
    IF txio = Empty THEN z
    ELSE [z EXCEPT !.txMap = (k :> t) @@ @, !.keyOf = (t :> k) @@ @,
                   !.txio = @ @@ txio, !.newTxio = @ @@ txio,
                   !.spent = @ \cup SpentIn(txio)]

ParseOne(z, t, k) ==
    IF t \in DOMAIN z.keyOf THEN z
    ELSE Accept(z, t, k, ZCisMineBulkFilter(t, k, z.keyOf))

\* A loop over a map that is ordered by ZC key: the body for the highest key
\* is applied to what the lower ones left.
InKeyOrder(Body(_, _), z, m) ==
    MapThenFoldSet(LAMBDA k, a : Body(a, k), z, LAMBDA k : k, Max, DOMAIN m)

\* One pass of parseNewZC's loop over the transactions of b.
Parsed(z, b) == InKeyOrder(LAMBDA a, k : ParseOne(a, b[k], k), z, b)

\* purge: every transaction of the pool is parsed anew, with the ZC keys of
\* the pool as it was.
Reparsed(z) ==
    InKeyOrder(LAMBDA a, k : Accept(a, z.txMap[k], z.keyOf[z.txMap[k]],
                   ZCisMineBulkFilter(z.txMap[k], z.keyOf[z.txMap[k]], z.keyOf)),
               EmptyPool, z.txMap)

\* ... and what was not seen by the wallets yet keeps its valid entries.
Repooled(z, r) ==
    [r EXCEPT !.newTxio = Without(z.newTxio, DOMAIN z.newTxio \ DOMAIN r.txio)]

Purged(z) == Repooled(z, Reparsed(z))

-----------------------------------------------------------------------------
(* The wallet's view, one function for all its addresses.                  *)

purgeZC(w, invalid) ==
    [x \in {y \in DOMAIN w : y \in invalid => ~IsZC(y)}
       |-> IF x \in invalid /\ IsZC(w[x]) THEN NoIn ELSE w[x]]

\* The heights of ZC keys are above every block, so a reorganisation takes
\* them out like the outputs of the blocks it undoes.
updateAfterReorg(w, gone) ==
    [x \in {y \in DOMAIN w : ~IsZC(y) /\ y[1] \notin gone}
       |-> IF IsZC(w[x]) \/ (w[x] # NoIn /\ w[x][1] \in gone) THEN NoIn ELSE w[x]]

\* The entries of the database for the outputs made or spent by the
\* transactions of S.
History(S) ==
    [x \in {<<o, Blk>> : o \in shape.mine \cap (S \cup {in(t) : t \in S})}
       |-> IF \E t \in mined : in(t) = x[1]
             THEN <<CHOOSE t \in mined : in(t) = x[1], Blk>>
             ELSE NoIn]

fetchDBScrAddrData(w, S) == History(S) @@ w

scanZC(w, txio) ==
    [x \in {y \in DOMAIN txio : y[1] \in shape.mine} |-> txio[x]] @@ w

scanWallet_NewOnly(w, z0, z, new, gone, reorg) ==
    scanZC(fetchDBScrAddrData(
             IF reorg
               THEN updateAfterReorg(purgeZC(w, DOMAIN z0.txio \ DOMAIN z.txio), gone)
               ELSE purgeZC(w, DOMAIN z0.txio \ DOMAIN z.txio),
             new),
           z.newTxio)

\* scanWallet for new blocks: z0 the pool before the purge, z after it.
scanWallet(w, z0, z, new, gone, reorg) ==
    scanZC(fetchDBScrAddrData(
             IF reorg
               THEN updateAfterReorg(purgeZC(w, DOMAIN z0.txio \ DOMAIN z.txio), gone)
               ELSE purgeZC(w, DOMAIN z0.txio \ DOMAIN z.txio),
             new),
           IF reorg THEN z.txio ELSE z.newTxio)

-----------------------------------------------------------------------------
(* addNewZeroConfTx, on any thread.                                        *)

Idle == [at |-> "idle"]

\* Returns when ZC are not enabled yet; otherwise takes a key...
TakeKey(n, t) ==
    /\ net[n] = Idle
    /\ pc # "off"
    /\ topId < MaxKey
    /\ net' = [net EXCEPT ![n] = [at |-> "keyed", tx |-> t, key |-> topId]]
    /\ topId' = topId + 1
    /\ UNCHANGED <<mainVars, worldVars, newZC, flag>>

\* ... leaves the transaction for the main thread, under the lock...
addRawTx(n) ==
    /\ net[n].at = "keyed"
    /\ newZC' = With(newZC, net[n].key, net[n].tx)
    /\ net' = [net EXCEPT ![n] = [at |-> "added"]]
    /\ UNCHANGED <<mainVars, worldVars, topId, flag>>

\* ... and raises the flag.
flagRescanZC(n) ==
    /\ net[n].at = "added"
    /\ flag' = TRUE
    /\ net' = [net EXCEPT ![n] = Idle]
    /\ UNCHANGED <<mainVars, worldVars, topId, newZC>>

-----------------------------------------------------------------------------
(* The main thread: a pass over new ZC.                                    *)

SeeFlag ==
    /\ pc = "idle" /\ flag
    /\ flag' = FALSE
    /\ pc' = "copy"
    /\ UNCHANGED <<zc, dbZC, wlt, batch, ours, change, netVars, worldVars, newZC>>

CopyNewZC ==
    /\ pc = "copy"
    /\ batch' = newZC
    /\ pc' = "parse"
    /\ UNCHANGED <<zc, dbZC, wlt, ours, change, netVars, worldVars, newZC, flag>>

\* The new entries are written to the database at the end of the pass.
TakeParsed(z) ==
    /\ zc' = z
    /\ dbZC' = Without(z.txMap, DOMAIN zc.txMap) @@ dbZC
    /\ ours' = (ours \/ z.txMap # zc.txMap)

ParseBatch ==
    /\ pc = "parse"
    /\ TakeParsed(Parsed(zc, batch))
    /\ pc' = "check"
    /\ UNCHANGED <<wlt, batch, change, netVars, worldVars, newZC, flag>>

CheckDone_Always ==
    /\ pc = "check"
    /\ newZC' = Empty
    /\ pc' = IF ours THEN "scan" ELSE "idle"
    /\ ours' = FALSE /\ batch' = Empty
    /\ UNCHANGED <<zc, dbZC, wlt, change, netVars, worldVars, flag>>

CheckDone_Strictly ==
    /\ pc = "check"
    /\ IF Cardinality(DOMAIN batch) > Cardinality(DOMAIN newZC)
         THEN /\ newZC' = Empty
              /\ pc' = IF ours THEN "scan" ELSE "idle"
              /\ ours' = FALSE /\ batch' = Empty
         ELSE /\ batch' = newZC
              /\ pc' = "parse"
              /\ UNCHANGED <<newZC, ours>>
    /\ UNCHANGED <<zc, dbZC, wlt, change, netVars, worldVars, flag>>

\* Done when no more are waiting than were parsed; otherwise all that is
\* waiting is parsed again (the erase loop of the code starts at its own end).
CheckDone ==
    /\ pc = "check"
    /\ IF Cardinality(DOMAIN batch) >= Cardinality(DOMAIN newZC)
         THEN /\ newZC' = Empty
              /\ pc' = IF ours THEN "scan" ELSE "idle"
              /\ ours' = FALSE /\ batch' = Empty
         ELSE /\ batch' = newZC
              /\ pc' = "parse"
              /\ UNCHANGED <<newZC, ours>>
    /\ UNCHANGED <<zc, dbZC, wlt, change, netVars, worldVars, flag>>

\* scanWallets with the top block unchanged: the wallets take the new ZC.
ScanNewZC ==
    /\ pc = "scan"
    /\ wlt' = scanZC(wlt, zc.newTxio)
    /\ zc' = [zc EXCEPT !.newTxio = Empty]
    /\ pc' = "idle"
    /\ UNCHANGED <<dbZC, batch, ours, change, netVars, worldVars, newZC, flag>>

-----------------------------------------------------------------------------
(* Blocks.                                                                 *)

\* A chain spends every output once, and after it was made.
ValidChain(S) ==
    /\ \A t \in S : in(t) \in Coins \cup S
    /\ \A t, u \in S : in(t) = in(u) => t = u

\* readBlkFileUpdate (or the initial synchronisation): the transactions of
\* gone leave the main chain, those of new enter it.
NewBlocks(new, gone, reorg) ==
    /\ pc \in {"idle", "off"}
    /\ blocks < MaxBlocks
    /\ new \cap (mined \ gone) = {}
    /\ ValidChain((mined \ gone) \cup new)
    /\ gone # {} => reorg
    /\ mined' = (mined \ gone) \cup new
    /\ blocks' = blocks + 1
    /\ IF pc = "off"
         THEN UNCHANGED <<pc, change>>
         ELSE /\ pc' = "block"
              /\ change' = [new |-> new, gone |-> gone, reorg |-> reorg]
    /\ UNCHANGED <<zc, dbZC, wlt, batch, ours, netVars, shape, crashes, newZC, flag>>

\* The entries that are no longer valid leave the database.
TakePurged(z) ==
    /\ wlt' = scanWallet(wlt, zc, z, change.new, change.gone, change.reorg)
    /\ zc' = [z EXCEPT !.newTxio = Empty]
    /\ dbZC' = Without(dbZC, DOMAIN zc.txMap \ DOMAIN z.txMap)

\* scanWallets with a new top block.
ScanBlocks ==
    /\ pc = "block"
    /\ TakePurged(Purged(zc))
    /\ change' = NoChange
    /\ pc' = "idle"
    /\ UNCHANGED <<batch, ours, netVars, worldVars, newZC, flag>>

-----------------------------------------------------------------------------
(* Start and stop.                                                         *)

NextId_Top(m) == IF m = Empty THEN 0 ELSE Max(DOMAIN m)

\* The key after the highest one in use.
NextId(m) == IF m = Empty THEN 0 ELSE Max(DOMAIN m) + 1

\* The first scanWallets of a session: purge, the history, the loaded ZC.
FirstScan(z, purged) ==
    /\ zc' = [purged EXCEPT !.newTxio = Empty]
    /\ dbZC' = purged.txMap
    /\ wlt' = scanWallet(Empty, z, purged, mined, {}, FALSE)
    /\ topId' = NextId(z.txMap)

Load(z) == FirstScan(z, Purged(z))

\* enableZeroConf: the stored ZC are dropped, or parsed and the invalid ones
\* deleted.  No thread can add a transaction before this is done.
loadZeroConfMempool(clearMempool) ==
    /\ pc = "off"
    /\ Load(IF clearMempool THEN EmptyPool ELSE Parsed(EmptyPool, dbZC))
    /\ pc' = "idle"
    /\ UNCHANGED <<batch, ours, change, net, worldVars, newZC, flag>>

\* The program stops anywhere; only the database remains.
Crash ==
    /\ pc # "off"
    /\ crashes < MaxCrashes
    /\ crashes' = crashes + 1
    /\ pc' = "off"
    /\ zc' = EmptyPool /\ wlt' = Empty /\ newZC' = Empty /\ batch' = Empty
    /\ ours' = FALSE /\ change' = NoChange /\ flag' = FALSE
    /\ net' = [n \in Threads |-> Idle] /\ topId' = 0
    /\ UNCHANGED <<shape, mined, blocks, dbZC>>

-----------------------------------------------------------------------------
Init ==
    /\ shape \in Shapes
    /\ mined = {} /\ change = NoChange
    /\ net = [n \in Threads |-> Idle] /\ topId = 0
    /\ newZC = Empty /\ flag = FALSE
    /\ zc = EmptyPool /\ dbZC = Empty /\ wlt = Empty
    /\ pc = "off" /\ batch = Empty /\ ours = FALSE
    /\ blocks = 0 /\ crashes = 0

Main == SeeFlag \/ CopyNewZC \/ ParseBatch \/ CheckDone \/ ScanNewZC \/ ScanBlocks

Next ==
    \/ Main
    \/ \E n \in Threads : addRawTx(n) \/ flagRescanZC(n)
    \/ \E n \in Threads, t \in Tx : TakeKey(n, t)
    \/ \E new \in SUBSET Tx, gone \in SUBSET mined, r \in BOOLEAN :
          NewBlocks(new, gone, r)
    \/ \E c \in BOOLEAN : loadZeroConfMempool(c)
    \/ Crash

\* When the main thread, or a thread inside addNewZeroConfTx, has a step to take.
MainCanStep == pc \notin {"off", "idle"} \/ (pc = "idle" /\ flag)
CanStep(n) == net[n] # Idle

\* Weak fairness of the main thread's loop and of every call of
\* addNewZeroConfTx that has begun, with the enabling conditions written out.
Spec == /\ Init /\ [][Next]_vars
        /\ []<>~MainCanStep \/ []<><<Main>>_vars
        /\ \A n \in Threads :
              []<>~CanStep(n) \/ []<><<addRawTx(n) \/ flagRescanZC(n)>>_vars

-----------------------------------------------------------------------------
(* Properties.                                                             *)

Key == 0 .. MaxKey - 1
OutKey == (Coins \cup Tx) \X (Key \cup {Blk})
PartialMap(f, S, T) == DOMAIN f \subseteq S /\ \A x \in DOMAIN f : f[x] \in T
TxioMap(f) == PartialMap(f, OutKey, (Tx \X (Key \cup {Blk})) \cup {NoIn})

\* Types of the container's maps, of the stored mempool and of the wallet view.
TypeOK ==
    /\ shape \in Shapes /\ mined \subseteq Tx
    /\ change.new \subseteq Tx /\ change.gone \subseteq Tx
    /\ topId \in 0 .. MaxKey /\ flag \in BOOLEAN /\ ours \in BOOLEAN
    /\ \A m \in {newZC, zc.txMap, dbZC, batch} : PartialMap(m, Key, Tx)
    /\ PartialMap(zc.keyOf, Tx, Key)
    /\ TxioMap(zc.txio) /\ TxioMap(zc.newTxio) /\ TxioMap(wlt)
    /\ zc.spent \subseteq OutKey
    /\ pc \in {"off", "idle", "copy", "parse", "check", "scan", "block"}
    /\ \A n \in Threads : net[n].at \in {"idle", "keyed", "added"}
    /\ blocks \in 0 .. MaxBlocks /\ crashes \in 0 .. MaxCrashes

Pairs(m) == {<<k, m[k]>> : k \in DOMAIN m}
InFlight == {<<net[n].key, net[n].tx>> : n \in {i \in Threads : net[i].at = "keyed"}}

\* "DBkeys are unique" (BDM_supportClasses.h:241): while the program runs, no
\* key stands for two transactions, wherever it is held (by a thread about to
\* insert it, waiting, pooled, or stored by an earlier session), and the next
\* key topId_ hands out is above all of them.
KeysAreUnique ==
    pc # "off" =>
      /\ \A p, q \in InFlight \cup Pairs(newZC) \cup Pairs(zc.txMap) \cup Pairs(dbZC) :
            p[1] = q[1] => p[2] = q[2]
      /\ \A p \in InFlight \cup Pairs(newZC) \cup Pairs(zc.txMap) \cup Pairs(dbZC) :
            p[1] < topId

\* Between two passes of the main loop the database mirrors the pool, so that
\* a restart brings back exactly the pool; and the two indices of the pool,
\* by key and by transaction, are each other's inverse.
MempoolIsStored ==
    pc = "idle" =>
      /\ dbZC = zc.txMap
      /\ DOMAIN zc.keyOf = {zc.txMap[k] : k \in DOMAIN zc.txMap}
      /\ \A k \in DOMAIN zc.txMap : zc.keyOf[zc.txMap[k]] = k

\* Between two passes no transaction of the pool is also in a block the
\* database knows, whichever came first: the block, the transaction, a late
\* second copy of it, or a restart.
MinedLeavesPool ==
    pc = "idle" => \A k \in DOMAIN zc.txMap : ~InDB(zc.txMap[k])

\* Between two passes every output that is held back as "spent by a ZC" is the
\* input of some transaction that is in the pool: a transaction that leaves
\* the pool frees what it spent.
NoFrozenOutput ==
    pc = "idle" => \A x \in zc.spent :
                      \E k \in DOMAIN zc.txMap : in(zc.txMap[k]) = x[1]

\* No wake-up is lost: when the main thread is about to sleep with a
\* transaction waiting, the flag is up or a thread is about to raise it.
NoLostWakeup ==
    pc = "idle" /\ newZC # Empty => flag \/ \E n \in Threads : net[n].at = "added"

\* parseNewZC "can clear the map without deleting any new ZC that may have
\* been added during the process" (BDM_supportClasses.cpp:628-630): while the
\* program runs, a transaction leaves newZCMap_ only after being parsed.
NothingDropped ==
    pc' # "off" => DOMAIN newZC \ DOMAIN newZC' \subseteq DOMAIN batch

\* What is added is parsed in the end, unless the program stops.
EveryZCIsParsed == newZC # Empty ~> newZC = Empty

DBBalance ==
    Cardinality({o \in shape.mine : Mined(o) /\ ~\E t \in mined : in(t) = o})

\* getFullBalance: the balance of the database, corrected by the wallet's ZC.
getFullBalance ==
    DBBalance + Cardinality({x \in DOMAIN wlt : IsZC(x)})
              - Cardinality({x \in DOMAIN wlt : IsZC(wlt[x])})

Known == mined \cup {zc.txMap[k] : k \in DOMAIN zc.txMap}
OurUnspent ==
    {o \in shape.mine : o \in Coins \cup Known /\ ~\E t \in Known : in(t) = o}

\* Transactions that do not spend each other's outputs, nor the same output.
Independent ==
    /\ \A t \in Tx : in(t) \in Coins
    /\ \A t, u \in Tx : in(t) = in(u) => t = u

\* When the transactions are independent, the balance the wallet shows between
\* two passes is what the chain and the pool say: the incremental updates of
\* relevantTxIO_ (new ZC, purges, blocks, reorganisations, restarts) neither
\* miss nor repeat an output.
BalanceIsRight ==
    pc = "idle" /\ Independent => getFullBalance = Cardinality(OurUnspent)

\* Nothing that the network announced is forgotten: it is not dropped unread, and
\* the thread that reads it is woken.
NoneForgotten == [][NothingDropped /\ NoLostWakeup']_vars

\* The pool between two passes of the main loop: stored, free of what was
\* mined, and holding back no output for a transaction that has left it.
PoolIsConsistent == MempoolIsStored /\ MinedLeavesPool /\ NoFrozenOutput

=============================================================================
