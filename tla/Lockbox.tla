------------------------------ MODULE Lockbox -------------------------------
(***************************************************************************)
(* Lockboxes, simulfunding and the collection of signatures                *)
(* (ui/MultiSigDialogs.py, armoryengine/MultiSigUtils.py, the offline      *)
(* signing frame of ui/TxFrames.py and the same services of armoryd).      *)
(* Several computers exchange lockbox definitions, promissory notes and    *)
(* signature collectors as text blocks: a block may be read late, twice,   *)
(* by anybody or never.  Each computer has one wallet, whose keys it holds *)
(* or only watches, and shows one dialog at a time.  Coins are spent by    *)
(* others while a transaction collects its signatures.  A computer runs     *)
(* either ArmoryQt or armoryd.  Its lockboxes file is emptied before it is *)
(* written, and the program may end, or writing fail, in between.          *)
(***************************************************************************)
EXTENDS UnsignedTx

CONSTANTS
    Computers,
    GenesisOuts, \* the outputs of the chain at the start
    Worlds,      \* the situations checked, see Init
    MaxBoxes     \* how many lockboxes a computer keeps

\* Two definitions with the same authority have the same ID.
calcLockboxID(box) == pubkeylist_to_multisig_script(box.keys, box.m, "bare")
binScript(box)     == pubkeylist_to_multisig_script(box.keys, box.m, "bare")
p2shScript(box)    == pubkeylist_to_multisig_script(box.keys, box.m, "p2sh")

\* The lockboxes that a computer starts with were written by the program: they
\* have different IDs and their keys are in order.
ASSUME BoxesAssumption ==
    \A x \in Worlds :
       /\ x.boxes \in Seq(Range(x.boxes))
       /\ \A i, j \in DOMAIN x.boxes : calcLockboxID(x.boxes[i]) = calcLockboxID(x.boxes[j]) => i = j
       /\ \A b \in Range(x.boxes) : b = [m |-> b.m, keys |-> b.keys] /\ b.keys = InOrder(b.keys)

\* Sorting keys that are in order changes nothing.
ASSUME KeysAssumption ==
    \A x \in Worlds : \A b \in x.typed :
       b = [m |-> b.m, keys |-> b.keys] /\ InOrder(InOrder(b.keys)) = InOrder(b.keys)

VARIABLES
    w,           \* the situation
    unspent,     \* the outpoints that can be spent
    boxes,       \* allLockboxes of every computer: records of m and keys
    file,        \* the lockboxes that can be read from its file
    textOut,     \* what writeLockboxesFile has still to write into the open file
    apart,       \* the last write failed; armoryd's file ends in a block cut short
    loading,     \* what is left of the list that loadLockboxesFromFile read
    dlg,         \* the dialog every computer shows; notes are those it was made of
    fresh,       \* how many change addresses every computer has given out
    mail,        \* the text blocks exported so far
    saved,       \* the lockboxes the user of a computer added and did not remove,
                 \* less those that a damaged file took, see Restart
    mishaps      \* how often a program ended or could not write

disk  == <<file, textOut, apart, mishaps>>
store == <<boxes, loading, saved, disk>>
vars  == <<w, unspent, boxes, file, textOut, apart, loading, dlg, fresh, mail, saved, mishaps>>

Closed  == [kind |-> "none"]
Genesis == [ins |-> <<>>, outs |-> GenesisOuts]
Coin(n) == [tx |-> Genesis, n |-> n]

Init ==
    /\ w \in Worlds
    /\ unspent = {Coin(n) : n \in w.coins}
    /\ boxes = [c \in Computers |-> w.boxes] /\ file = boxes
    /\ textOut = [c \in Computers |-> <<>>] /\ apart = [c \in Computers |-> FALSE]
    /\ loading = [c \in Computers |-> <<>>]
    /\ saved = [c \in Computers |-> Range(w.boxes)]
    /\ dlg = [c \in Computers |-> Closed]
    /\ fresh = [c \in Computers |-> 0]
    /\ mail = [boxes |-> {}, notes |-> {}, collectors |-> {}]
    /\ mishaps = 0

Wallet(c) == w.holds[c] \cup w.watches[c]
Idle(c)   == loading[c] = <<>> /\ textOut[c] = <<>> /\ dlg[c] = Closed
Shows(c, kind) == dlg[c].kind = kind

Show(c, d)      == dlg' = [dlg EXCEPT ![c] = d]
Send(kind, b)   == mail' = [mail EXCEPT ![kind] = @ \cup {b}]
Room(kind, b)   == b \in mail[kind] \/ Cardinality(mail[kind]) < w.mails[kind]
review(u, c)    == [kind |-> "review", u |-> u, boxes |-> boxes[c], notes |-> <<>>]

-----------------------------------------------------------------------------
(* Lockbox definitions                                                     *)

\* The index in allLockboxes, 0 if the lockbox is new.
lockboxIDMap(c, box) ==
    LET at == {i \in DOMAIN boxes[c] : calcLockboxID(boxes[c][i]) = calcLockboxID(box)}
    IN  IF at = {} THEN 0 ELSE CHOOSE i \in at : TRUE

\* The list with the lockbox at its end, or in the place of the one it replaces.
Updated(c, box) ==
    LET i == lockboxIDMap(c, box)
    IN  IF i = 0 THEN Append(boxes[c], box) ELSE [boxes[c] EXCEPT ![i] = box]

Mishap == mishaps < w.mishaps /\ mishaps' = mishaps + 1

\* writeLockboxesFile opens the file, which empties it, and then writes.  If it
\* cannot be opened, updateOrAddLockbox logs the exception and goes on.
OpenFile(c, list) ==
    \/ /\ file'    = [file EXCEPT ![c] = <<>>]
       /\ textOut' = [textOut EXCEPT ![c] = list]
       /\ UNCHANGED <<apart, mishaps>>
    \/ Mishap /\ apart' = [apart EXCEPT ![c] = TRUE] /\ UNCHANGED <<file, textOut>>

updateOrAddLockbox_WritesFirst(c, box) ==
    /\ Len(Updated(c, box)) <= MaxBoxes
    /\ boxes' = [boxes EXCEPT ![c] = Updated(c, box)]
    /\ OpenFile(c, boxes[c])

\* The list changes, and the whole list is to be written to the file.
updateOrAddLockbox(c, box) ==
    /\ Len(Updated(c, box)) <= MaxBoxes
    /\ boxes' = [boxes EXCEPT ![c] = Updated(c, box)]
    /\ OpenFile(c, Updated(c, box))

Keeps(c, box) ==
    saved' = [saved EXCEPT ![c] = {b \in @ : calcLockboxID(b) # calcLockboxID(box)} \cup {box}]

\* DlgLockboxEditor.doContinue: the keys are typed in any order.
doContinueEditor(c, typed) ==
    LET box == [typed EXCEPT !.keys = calcLockboxID(typed).keys]
    IN  /\ Idle(c)
        /\ updateOrAddLockbox(c, box) /\ Keeps(c, box)
        /\ Room("boxes", box) /\ Send("boxes", box)
        /\ UNCHANGED <<w, unspent, loading, dlg, fresh>>

\* armoryd's createlockbox appends to the same file, unless it has the lockbox.
createlockbox(c, typed) ==
    LET box == [typed EXCEPT !.keys = calcLockboxID(typed).keys]
    IN  /\ Idle(c) /\ lockboxIDMap(c, box) = 0 /\ Len(boxes[c]) < MaxBoxes /\ Room("boxes", box)
        /\ textOut' = [textOut EXCEPT ![c] = <<box>>]
        /\ UNCHANGED <<w, unspent, boxes, file, apart, loading, dlg, fresh, mail, saved, mishaps>>

\* DlgImportLockbox: the keys stay in the order of the text block.
importLockbox(c, box) ==
    /\ Idle(c)
    /\ updateOrAddLockbox(c, box) /\ Keeps(c, box)
    /\ UNCHANGED <<w, unspent, loading, dlg, fresh, mail>>

removeLockbox(c, i) ==
    /\ Idle(c) /\ w.removes
    /\ LET list == SubSeq(boxes[c], 1, i - 1) \o SubSeq(boxes[c], i + 1, Len(boxes[c]))
       IN  boxes' = [boxes EXCEPT ![c] = list] /\ OpenFile(c, list)
    /\ saved' = [saved EXCEPT ![c] = @ \ {boxes[c][i]}]
    /\ UNCHANGED <<w, unspent, loading, dlg, fresh, mail>>

\* What the file holds after k of the lockboxes: nothing behind a block that
\* armoryd left cut short is ever read.
Holds(c, k) == IF apart[c] /\ c \in w.daemon THEN file[c] ELSE file[c] \o SubSeq(textOut[c], 1, k)

\* The text is written.  Only then does armoryd know the lockbox it created.
WriteFile(c) ==
    /\ textOut[c] # <<>>
    /\ file'    = [file EXCEPT ![c] = Holds(c, Len(textOut[c]))]
    /\ textOut' = [textOut EXCEPT ![c] = <<>>]
    /\ apart'   = [apart EXCEPT ![c] = @ /\ c \in w.daemon]
    /\ \/ c \notin w.daemon /\ UNCHANGED <<boxes, saved, mail>>
       \/ /\ c \in w.daemon
          /\ boxes' = [boxes EXCEPT ![c] = @ \o textOut[c]]
          /\ Keeps(c, textOut[c][1]) /\ Send("boxes", textOut[c][1])
    /\ UNCHANGED <<w, unspent, loading, dlg, fresh, mishaps>>

\* Writing fails after k lockboxes, perhaps in the middle of the next one: the
\* list and the file are apart, and the program goes on.
WriteFails(c, k, cut) ==
    /\ textOut[c] # <<>> /\ Mishap
    /\ file'    = [file EXCEPT ![c] = Holds(c, k)]
    /\ textOut' = [textOut EXCEPT ![c] = <<>>]
    /\ apart'   = [apart EXCEPT ![c] = @ \/ cut \/ c \notin w.daemon]
    /\ UNCHANGED <<w, unspent, boxes, loading, dlg, fresh, mail, saved>>

\* ArmoryQt leaves less than the whole list in the file while it writes and while
\* it reads, and after a write that failed.
Damaged(c) == apart[c] \/ (c \notin w.daemon /\ (textOut[c] # <<>> \/ loading[c] # <<>>))

\* The program ends, at any point, and starts again: the file is read first, up
\* to a block that cannot be read.
Restart(c, k, cut) ==
    /\ Mishap
    /\ file'    = [file EXCEPT ![c] = Holds(c, k)]
    /\ textOut' = [textOut EXCEPT ![c] = <<>>]
    /\ apart'   = [apart EXCEPT ![c] = c \in w.daemon /\ (@ \/ cut)]
    /\ boxes'   = [boxes EXCEPT ![c] = <<>>]
    /\ loading' = [loading EXCEPT ![c] = Holds(c, k)]
    /\ saved'   = [saved EXCEPT ![c] = IF Damaged(c) THEN @ \cap Range(Holds(c, k)) ELSE @]
    /\ Show(c, Closed)
    /\ UNCHANGED <<w, unspent, fresh, mail>>

\* How far a write may have come.
Interrupted(c) ==
    \E k \in 0 .. Len(textOut[c]), cut \in BOOLEAN :
       (cut => k < Len(textOut[c])) /\ (Restart(c, k, cut) \/ WriteFails(c, k, cut))

\* loadLockboxesFromFile adds one lockbox after the other, and every addition
\* writes the list as it is so far.  armoryd only reads (addMultLockboxes).
loadLockbox(c) ==
    /\ loading[c] # <<>> /\ textOut[c] = <<>>
    /\ \/ c \notin w.daemon /\ updateOrAddLockbox(c, Head(loading[c]))
       \/ /\ c \in w.daemon
          /\ boxes' = [boxes EXCEPT ![c] = Updated(c, Head(loading[c]))]
          /\ UNCHANGED disk
    /\ loading' = [loading EXCEPT ![c] = Tail(@)]
    /\ UNCHANGED <<w, unspent, dlg, fresh, mail, saved>>

-----------------------------------------------------------------------------
(* Promissory notes                                                        *)

Spendable(c) == {op \in unspent : Txo(op).to.form = "key" /\ Txo(op).to.keys[1] \in Wallet(c)}
SomeOrder(set) == CHOOSE s \in [1 .. Cardinality(set) -> set] : IsInjective(s)
\* Which coins are selected is left open; see CoinSelection.
Selections(ops, total) ==
    {s \in {SomeOrder(set) : set \in SUBSET ops \ {{}}} : SumOutpoints(s) >= total}
ChangeKey(c) == w.change[c][fresh[c] + 1]

\* The note that DlgCreatePromNote makes of the coins selected.
PromNote(c, target, terms, ops) ==
    LET change == SumOutpoints(ops) - (terms.value + terms.fee)
    IN  [by |-> c, target |-> target, value |-> terms.value, fee |-> terms.fee, ops |-> ops,
         change |-> IF change > 0
                    THEN <<[to |-> KeyScript(ChangeKey(c)), value |-> change]>> ELSE <<>>]

\* The fee and the value of the change are not part of the ID.
promID(note) ==
    <<Range(note.ops), note.target, note.value, [i \in DOMAIN note.change |-> note.change[i].to]>>

GivesOutAddress(c, note) ==
    fresh' = [fresh EXCEPT ![c] = IF note.change = <<>> THEN @ ELSE @ + 1]

\* Only a lockbox known here can be named as the target.
Targets(c) == {binScript(b) : b \in Range(boxes[c])} \cup {p2shScript(b) : b \in Range(boxes[c])}

doContinueProm(c, target, terms, ops) ==
    /\ Idle(c) /\ fresh[c] < Len(w.change[c])
    /\ LET note == PromNote(c, target, terms, ops)
       IN  Room("notes", note) /\ Send("notes", note) /\ GivesOutAddress(c, note)
    /\ UNCHANGED <<w, unspent, dlg, store>>

-----------------------------------------------------------------------------
(* DlgMergePromNotes                                                       *)

\* reduceScript: the bare form stands for the same target as its P2SH form.
reduceScript(script) == [script EXCEPT !.form = IF @ = "bare" THEN "p2sh" ELSE @]

NoTarget == KeyScript(0)
doMergeProm(c, must) ==
    /\ Idle(c) /\ c \in w.leads /\ must \in {p2shScript(b) : b \in Range(boxes[c])} \cup {NoTarget}
    /\ Show(c, [kind |-> "merge", notes |-> <<>>, must |-> must])
    /\ UNCHANGED <<w, unspent, fresh, mail, store>>

addNote(c, note) ==
    LET d == dlg[c]
    IN  /\ \A n \in Range(d.notes) : promID(n) # promID(note)
        /\ d.must \in {NoTarget, reduceScript(note.target)}
        /\ Show(c, [d EXCEPT !.notes = Append(@, note), !.must = reduceScript(note.target)])

importNote(c, note) ==
    /\ Shows(c, "merge") /\ Len(dlg[c].notes) < w.merged
    /\ addNote(c, note)
    /\ UNCHANGED <<w, unspent, fresh, mail, store>>

createPromAdd(c, target, terms, ops) ==
    /\ Shows(c, "merge") /\ Len(dlg[c].notes) < w.merged /\ fresh[c] < Len(w.change[c])
    /\ LET note == PromNote(c, target, terms, ops)
       IN  addNote(c, note) /\ GivesOutAddress(c, note)
    /\ UNCHANGED <<w, unspent, mail, store>>

\* One sequence after the other.
Flattened(seqs) ==
    MapThenFoldSet(LAMBDA s, done : done \o s, <<>>, LAMBDA i : seqs[i], Max, DOMAIN seqs)

\* The outputs: the target with all that is promised, then the change.
MergedOuts_FirstOnly(notes, target) ==
    <<[to |-> target, value |-> notes[1].value]>>
      \o Flattened([i \in DOMAIN notes |-> notes[i].change])
MergedOuts(notes, target) ==
    <<[to |-> target, value |-> FoldFunction(LAMBDA n, sum : sum + n.value, 0, notes)]>>
      \o Flattened([i \in DOMAIN notes |-> notes[i].change])

\* The target is that of the first note, or the bare script of a lockbox known
\* here if its box is ticked.
mergeNotesCreateUSTX(c, bare) ==
    /\ Shows(c, "merge") /\ dlg[c].notes # <<>>
    /\ bare => \E b \in Range(boxes[c]) : p2shScript(b) = dlg[c].must
    /\ LET notes  == dlg[c].notes
           ops    == Flattened([i \in DOMAIN notes |-> notes[i].ops])
           target == IF bare THEN [dlg[c].must EXCEPT !.form = "bare"] ELSE notes[1].target
           outs   == MergedOuts(notes, target)
           u      == createFromUnsignedTxIO(ops, outs)
       IN  /\ Covered(ops, outs)
           /\ Show(c, [review(u, c) EXCEPT !.notes = notes])
    /\ UNCHANGED <<w, unspent, fresh, mail, store>>

-----------------------------------------------------------------------------
(* New transactions                                                        *)

\* The send dialog with a lockbox: coins in either form, change to the P2SH.
LockboxCoins(box) == {op \in unspent : Txo(op).to \in {binScript(box), p2shScript(box)}}

Payment(ops, spend, changeTo) ==
    LET change == SumOutpoints(ops) - (spend.value + spend.fee)
    IN  createFromUnsignedTxIO(ops, <<[to |-> spend.to, value |-> spend.value]>>
           \o IF change > 0 THEN <<[to |-> changeTo, value |-> change]>> ELSE <<>>)

doSpend(c, box, spend, ops) ==
    /\ Idle(c) /\ c \in w.leads
    /\ Show(c, review(Payment(ops, spend, p2shScript(box)), c))
    /\ UNCHANGED <<w, unspent, fresh, mail, store>>

\* A wallet that is only watched: the transaction is saved for the computer
\* that holds the keys (DlgOfflineTxCreated).
createOfflineTx(c, spend, ops) ==
    /\ Idle(c) /\ w.holds[c] = {} /\ fresh[c] < Len(w.change[c])
    /\ LET u == Payment(ops, spend, KeyScript(ChangeKey(c)))
       IN  Room("collectors", u) /\ Send("collectors", u)
    /\ fresh' = [fresh EXCEPT ![c] = @ + 1]
    /\ UNCHANGED <<w, unspent, dlg, store>>

\* What the network makes of a transaction sent to it.
broadcastTransaction(signed) ==
    unspent' = IF NetworkAccepts(signed, unspent)
               THEN (unspent \ Range(signed.tx.ins)) \cup Outpoints(signed.tx)
               ELSE unspent

\* signUnsignedTx: every slot whose key the wallet holds, lockboxes included.
SlotsOf(c, u) == {p \in UNION {{i} \X Range(KeysOfInput(u.tx, i)) : i \in DOMAIN u.sigs} :
                    p[2] \in w.holds[c]}
signUnsignedTx(c, u) == SignAll(u, SlotsOf(c, u))

\* The send dialog of a wallet with its keys: signed and sent at once.
sendNow(c, spend, ops) ==
    /\ Idle(c) /\ fresh[c] < Len(w.change[c])
    /\ LET u == signUnsignedTx(c, Payment(ops, spend, KeyScript(ChangeKey(c))))
       IN  verifySigsAllInputs(u) /\ broadcastTransaction(getSignedPyTx(u))
    /\ fresh' = [fresh EXCEPT ![c] = @ + 1]
    /\ UNCHANGED <<w, dlg, mail, store>>

-----------------------------------------------------------------------------
(* DlgMultiSpendReview                                                     *)

doReview(c, u) ==
    /\ Idle(c) /\ "review" \in w.windows
    /\ Show(c, review(u, c))
    /\ UNCHANGED <<w, unspent, fresh, mail, store>>

\* The inputs of a bundle: those of a lockbox known when the dialog opened, and
\* those of the own wallet.
LockboxBundle(d, box) == {i \in DOMAIN d.u.sigs :
                            Txo(d.u.tx.ins[i]).to \in {binScript(box), p2shScript(box)}}
WalletBundle(c, d)    == {i \in DOMAIN d.u.sigs : LET s == Txo(d.u.tx.ins[i]).to
                            IN s.form = "key" /\ s.keys[1] \in Wallet(c)}
First(bundle) == CHOOSE i \in bundle : \A j \in bundle : i <= j

\* The Sign buttons: shown by the state of the first input of the bundle.
Button(u, bundle, j) == bundle # {} /\ j \notin SignedSlots(u, First(bundle))

SignBundle(u, bundle, k) == SignAll(u, bundle \X {k})

doSignLockbox(c, box, j) ==
    LET d == dlg[c]
        k == box.keys[j]
    IN  /\ k \in w.holds[c]
        /\ Button(d.u, LockboxBundle(d, box), j)
        /\ Show(c, [d EXCEPT !.u = SignBundle(@, LockboxBundle(d, box), k)])
        /\ UNCHANGED <<w, unspent, fresh, mail, store>>

doSignWallet(c) ==
    LET d      == dlg[c]
        bundle == WalletBundle(c, d)
        Keyed  == {<<i, KeysOfInput(d.u.tx, i)[1]>> : i \in bundle}
    IN  /\ w.holds[c] # {}
        /\ Button(d.u, bundle, 1)
        /\ Show(c, [d EXCEPT !.u = SignAll(@, Keyed)])
        /\ UNCHANGED <<w, unspent, fresh, mail, store>>

doExport(c) ==
    /\ Shows(c, "review") \/ Shows(c, "offline")
    /\ Room("collectors", dlg[c].u) /\ Send("collectors", dlg[c].u)
    /\ UNCHANGED <<w, unspent, dlg, fresh, store>>

\* The signatures of both are kept if it is the same transaction; otherwise the
\* imported one takes the place of the one shown.
Merge_Replace(mine, other) == other
Merge(mine, other) ==
    IF mine.tx = other.tx
    THEN [other EXCEPT !.sigs = [i \in DOMAIN @ |-> [j \in DOMAIN @[i] |->
             IF mine.sigs[i][j] # NoSig THEN mine.sigs[i][j] ELSE @[i][j]]]]
    ELSE other

doImport(c, u) ==
    /\ Shows(c, "review")
    /\ Show(c, review(Merge(dlg[c].u, u), c))
    /\ UNCHANGED <<w, unspent, fresh, mail, store>>

\* The button is there if enough slots are signed; getSignedPyTx raises if the
\* signatures do not verify, and nothing is sent.
doBroadcast(c) ==
    /\ Shows(c, "review") /\ canBroadcast(dlg[c].u)
    /\ verifySigsAllInputs(dlg[c].u)
    /\ broadcastTransaction(getSignedPyTx(dlg[c].u))
    /\ Show(c, Closed)
    /\ UNCHANGED <<w, fresh, mail, store>>

closeDialog(c) ==
    /\ dlg[c] # Closed /\ Show(c, Closed)
    /\ UNCHANGED <<w, unspent, fresh, mail, store>>

-----------------------------------------------------------------------------
(* SignBroadcastOfflineTxFrame                                             *)

processUSTX(c, u) ==
    /\ Idle(c) /\ "offline" \in w.windows
    /\ Show(c, [kind |-> "offline", u |-> u])
    /\ UNCHANGED <<w, unspent, fresh, mail, store>>

\* The wallet is the one that an input pays from.
signTx(c) ==
    /\ Shows(c, "offline")
    /\ ~(canBroadcast(dlg[c].u) /\ verifySigsAllInputs(dlg[c].u))
    /\ WalletBundle(c, dlg[c]) # {} /\ w.holds[c] # {}
    /\ Show(c, [dlg[c] EXCEPT !.u = signUnsignedTx(c, @)])
    /\ UNCHANGED <<w, unspent, fresh, mail, store>>

broadTx(c) ==
    /\ Shows(c, "offline")
    /\ canBroadcast(dlg[c].u) /\ verifySigsAllInputs(dlg[c].u)
    /\ broadcastTransaction(getSignedPyTx(dlg[c].u))
    /\ Show(c, Closed)
    /\ UNCHANGED <<w, fresh, mail, store>>

-----------------------------------------------------------------------------
(* armoryd                                                                 *)

\* sign_transaction: the inputs of the wallet, and every key held of the
\* lockboxes it has.
DaemonSlots(c, u) ==
    {p \in SlotsOf(c, u) :
        LET s == Txo(u.tx.ins[p[1]]).to
        IN  s.form = "key" \/ \E b \in Range(boxes[c]) : s \in {binScript(b), p2shScript(b)}}

signasciitransaction(c, u) ==
    /\ Idle(c)
    /\ LET v == SignAll(u, DaemonSlots(c, u))
       IN  Room("collectors", v) /\ Send("collectors", v)
    /\ UNCHANGED <<w, unspent, dlg, fresh, store>>

sendasciitransaction(c, u) ==
    /\ Idle(c)
    /\ verifySigsAllInputs(u)
    /\ broadcastTransaction(getSignedPyTx(u))
    /\ UNCHANGED <<w, dlg, fresh, mail, store>>

-----------------------------------------------------------------------------
Definitions(c) ==
    \/ \E typed \in w.typed : doContinueEditor(c, typed)
    \/ \E box \in mail.boxes : importLockbox(c, box)
    \/ \E i \in DOMAIN boxes[c] : removeLockbox(c, i)

Notes(c) ==
    \/ \E target \in Targets(c), terms \in w.terms :
          \E ops \in Selections(Spendable(c), terms.value + terms.fee) :
             doContinueProm(c, target, terms, ops) \/ createPromAdd(c, target, terms, ops)
    \/ \E must \in {p2shScript(b) : b \in Range(boxes[c])} \cup {NoTarget} :
          w.terms # {} /\ doMergeProm(c, must)
    \/ \E note \in mail.notes : importNote(c, note)
    \/ \E bare \in BOOLEAN : mergeNotesCreateUSTX(c, bare)

NewTransactions(c) ==
    \E spend \in w.spends :
       \/ \E box \in Range(boxes[c]) :
             \E ops \in Selections(LockboxCoins(box), spend.value + spend.fee) :
                doSpend(c, box, spend, ops)
       \/ \E ops \in Selections(Spendable(c), spend.value + spend.fee) :
             createOfflineTx(c, spend, ops) \/ sendNow(c, spend, ops)

Collecting(c) ==
    \/ \E u \in mail.collectors : doReview(c, u) \/ doImport(c, u) \/ processUSTX(c, u)
    \/ /\ Shows(c, "review")
       /\ \/ \E i \in DOMAIN dlg[c].boxes : \E j \in DOMAIN dlg[c].boxes[i].keys :
                doSignLockbox(c, dlg[c].boxes[i], j)
          \/ doSignWallet(c)
    \/ doExport(c) \/ doBroadcast(c) \/ closeDialog(c) \/ signTx(c) \/ broadTx(c)

Daemon(c) ==
    \/ \E typed \in w.typed : createlockbox(c, typed)
    \/ \E u \in mail.collectors : signasciitransaction(c, u) \/ sendasciitransaction(c, u)

Next == \E c \in Computers :
    \/ WriteFile(c) \/ Interrupted(c) \/ loadLockbox(c)
    \/ c \in w.daemon /\ Daemon(c)
    \/ c \notin w.daemon /\ (Definitions(c) \/ Notes(c) \/ NewTransactions(c) \/ Collecting(c))

Spec == Init /\ [][Next]_vars

-----------------------------------------------------------------------------
(* Properties                                                              *)

Collectors == mail.collectors
                \cup {dlg[c].u : c \in {d \in Computers : Shows(d, "review") \/ Shows(d, "offline")}}

\* Every signature of a collector, shown or sent, was made with the key of its
\* slot for this very input of this very transaction: doImport never carries a
\* signature over to another transaction.
SignaturesFit ==
    \A u \in Collectors : \A i \in DOMAIN u.sigs : \A j \in SignedSlots(u, i) :
       verifyTxSignature(u.tx, i, u.sigs[i][j], KeysOfInput(u.tx, i)[j])

\* A collector that evaluateSigningStatus calls ready is accepted by the network
\* as long as its coins are there and none is in it twice, whoever signed in
\* whatever order, and however many more signatures than needed it collected.
ReadyIsAccepted ==
    \A u \in Collectors :
       canBroadcast(u) /\ Range(u.tx.ins) \subseteq unspent /\ NoDoubles(u.tx)
          => NetworkAccepts(getSignedPyTx(u), unspent)

\* A transaction made of promissory notes costs every party exactly what it
\* promised, pays the target all that was promised and leaves the network the
\* fees promised and nothing else.
Paid(c, tx) ==
    SumOutpoints(SelectSeq(tx.ins, LAMBDA op : Txo(op).to.keys[1] \in Wallet(c)))
      - SumValues(SelectSeq(tx.outs, LAMBDA o : o.to.form = "key" /\ o.to.keys[1] \in Wallet(c)))
Promised(notes, c) == FoldFunction(LAMBDA n, sum : sum + n.value + n.fee, 0,
                              SelectSeq(notes, LAMBDA n : n.by = c))
Deals == {[tx |-> dlg[c].u.tx, notes |-> dlg[c].notes] :
            c \in {d \in Computers : Shows(d, "review") /\ dlg[d].notes # <<>>}}
PromisesKept ==
    \A d \in Deals :
       /\ \A c \in Computers : Paid(c, d.tx) = Promised(d.notes, c)
       /\ d.tx.outs[1].value = FoldFunction(LAMBDA n, sum : sum + n.value, 0, d.notes)
       /\ calculateFee(d.tx) = FoldFunction(LAMBDA n, sum : sum + n.fee, 0, d.notes)

\* A coin is in such a transaction twice only if its owner made two notes of it:
\* a note that arrives twice counts once.
PromisedOnce ==
    \A d \in Deals : \/ NoDoubles(d.tx)
                     \/ \E a, b \in Range(d.notes) :
                           a # b /\ Range(a.ops) \cap Range(b.ops) # {}

\* The review dialog shows the Sign buttons by the first input of a bundle:
\* the other inputs of the bundle have the same slots signed, so no input waits
\* for a signature that the dialog no longer offers.
ShownForAll ==
    \A c \in Computers : Shows(c, "review") =>
       /\ \A box \in Range(dlg[c].boxes) : \A i, j \in LockboxBundle(dlg[c], box) :
             SignedSlots(dlg[c].u, i) = SignedSlots(dlg[c].u, j)
       /\ \A i, j \in WalletBundle(c, dlg[c]) :
             SignedSlots(dlg[c].u, i) = SignedSlots(dlg[c].u, j)

\* A lockbox lists its keys in the order of its script, wherever it was made and
\* whatever order they were typed in: the dialog's i-th button is the i-th slot.
KeysInScriptOrder ==
    \A c \in Computers : \A b \in Range(boxes[c]) : b.keys = binScript(b).keys

\* A lockbox that was added and not removed is in the list, or still to be read
\* into it; and it is in the file, or, with ArmoryQt, about to be written or read,
\* unless the last write failed.  So the program can lose it in one way only: it
\* ends while ArmoryQt writes or reads the file, or after a write that failed.
SavedBoxesKept ==
    \A c \in Computers :
       /\ saved[c] \subseteq Range(boxes[c]) \cup Range(loading[c])
       /\ ~apart[c] => saved[c] \subseteq Range(file[c])
                         \cup {b \in Range(textOut[c]) \cup Range(loading[c]) : c \notin w.daemon}

\* Importing a collector of the transaction on show, or signing, takes no
\* signature away.
SignaturesKept ==
    \A c \in Computers :
        Shows(c, "review") /\ dlg'[c].kind = "review" /\ dlg'[c].u.tx = dlg[c].u.tx =>
           \A i \in DOMAIN dlg[c].u.sigs :
              SignedSlots(dlg[c].u, i) \subseteq SignedSlots(dlg'[c].u, i)

\* The review dialog: a transaction that it calls ready is accepted, and no input
\* waits for a signature that the dialog does not offer.
ReviewIsRight == ReadyIsAccepted /\ ShownForAll

\* A lockbox stays what its owners typed in, in the list and in the file
\* (updateOrAddLockbox, removeLockbox, loadLockboxesFromFile, createlockbox).
LockboxesKept == KeysInScriptOrder /\ SavedBoxesKept

\* Signatures fit where they are, and none is lost once the dialog has it.
SignaturesSafe == [][SignaturesFit' /\ SignaturesKept]_vars

\* Whatever notes come, in whatever order and however often, the transaction made
\* of them is what the parties promised, once.
PromisesKeptOnce == PromisesKept /\ PromisedOnce

=============================================================================
