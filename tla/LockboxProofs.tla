---------------------------- MODULE LockboxProofs ---------------------------
(***************************************************************************)
(* The proofs about the lockboxes and the signature collectors.  SigInv    *)
(* and BoxInv are inductive: SigInv is about the collectors, on the screen *)
(* and in the mail, and BoxInv about the list of lockboxes of a computer,  *)
(* its file, what is still to be written to it and what is still to be     *)
(* read from it.                                                           *)
(***************************************************************************)
EXTENDS Lockbox, TLAPS

\* f is a function (or a record).
IsFun(f) == f = [x \in DOMAIN f |-> f[x]]

\* A collector has a slot for every key of every input, and what is in a slot is
\* a signature of its key for this input of this transaction.
Fits(u) ==
    /\ IsFun(u) /\ {"tx", "sigs"} \subseteq DOMAIN u
    /\ IsFun(u.sigs) /\ DOMAIN u.sigs = 1 .. Len(u.tx.ins)
    /\ \A i \in DOMAIN u.sigs :
          /\ IsFun(u.sigs[i]) /\ DOMAIN u.sigs[i] = 1 .. Len(KeysOfInput(u.tx, i))
          /\ \A j \in DOMAIN u.sigs[i] : u.sigs[i][j] # NoSig =>
                verifyTxSignature(u.tx, i, u.sigs[i][j], KeysOfInput(u.tx, i)[j])

\* v has every signature of u.
HasAll(v, u) == \A i \in DOMAIN u.sigs : SignedSlots(u, i) \subseteq SignedSlots(v, i)

\* The dialogs that hold a collector.
Collects(d) == d.kind \in {"review", "offline"}

\* All collectors, those on a screen and those that were sent, fit.
SigInv ==
    /\ IsFun(mail) /\ "collectors" \in DOMAIN mail
    /\ IsFun(dlg) /\ DOMAIN dlg = Computers
    /\ \A c \in Computers :
          /\ IsFun(dlg[c]) /\ "kind" \in DOMAIN dlg[c]
          /\ dlg[c].kind \in {"none", "merge", "review", "offline"}
          /\ Collects(dlg[c]) => "u" \in DOMAIN dlg[c] /\ Fits(dlg[c].u)
    /\ \A u \in mail.collectors : Fits(u)

-----------------------------------------------------------------------------
\* A signature is verified for what it was made for.
LEMMA SignatureVerifies ==
    ASSUME NEW tx, NEW i, NEW k
    PROVE  verifyTxSignature(tx, i, createTxSignature(tx, i, k), k)
<1>1. DOMAIN createTxSignature(tx, i, k) # DOMAIN NoSig
  BY DEF createTxSignature, NoSig
<1>2. createTxSignature(tx, i, k) # NoSig
  BY <1>1
<1> QED BY <1>2 DEF verifyTxSignature, createTxSignature

\* A collector with other signatures.
LEMMA OtherSigs ==
    ASSUME NEW u, IsFun(u), {"tx", "sigs"} \subseteq DOMAIN u, NEW S
    PROVE  LET v == [u EXCEPT !.sigs = S]
           IN  IsFun(v) /\ {"tx", "sigs"} \subseteq DOMAIN v /\ v.tx = u.tx /\ v.sigs = S
<1>1. u = [x \in DOMAIN u |-> u[x]] /\ "tx" \in DOMAIN u /\ "sigs" \in DOMAIN u
  BY DEF IsFun
<1> QED BY <1>1 DEF IsFun

\* createFromUnsignedTxIO starts with empty slots.
LEMMA NewFits == ASSUME NEW ops, NEW outs PROVE Fits(createFromUnsignedTxIO(ops, outs))
<1> DEFINE u == createFromUnsignedTxIO(ops, outs)
<1>1. IsFun(u) /\ {"tx", "sigs"} \subseteq DOMAIN u
  BY DEF createFromUnsignedTxIO, IsFun
<1>2. u.tx.ins = ops /\ u.sigs = [i \in 1 .. Len(ops) |-> UnsignedTxInput(ops[i])]
  BY DEF createFromUnsignedTxIO
<1> HIDE DEF u
<1>3. \A i \in 1 .. Len(ops) : u.sigs[i] = [j \in 1 .. Len(KeysOfInput(u.tx, i)) |-> NoSig]
  BY <1>2 DEF UnsignedTxInput, KeysOfInput
<1>4. IsFun(u.sigs) /\ DOMAIN u.sigs = 1 .. Len(u.tx.ins)
  BY <1>2 DEF IsFun
<1>5. ASSUME NEW i \in DOMAIN u.sigs
      PROVE  /\ IsFun(u.sigs[i]) /\ DOMAIN u.sigs[i] = 1 .. Len(KeysOfInput(u.tx, i))
             /\ \A j \in DOMAIN u.sigs[i] : u.sigs[i][j] = NoSig
  <2>1. u.sigs[i] = [j \in 1 .. Len(KeysOfInput(u.tx, i)) |-> NoSig]
    BY <1>2, <1>3, <1>4
  <2> QED BY <2>1, Zenon DEF IsFun
<1>6. Fits(u)
  BY <1>1, <1>4, <1>5, Zenon DEF Fits
<1> QED BY <1>6 DEF u

\* createAndInsertSignature puts signatures where they belong and removes none.
LEMMA SignFits ==
    ASSUME NEW u, Fits(u), NEW pairs
    PROVE  /\ Fits(SignAll(u, pairs)) /\ SignAll(u, pairs).tx = u.tx
           /\ HasAll(SignAll(u, pairs), u)
<1> DEFINE v == SignAll(u, pairs)
           K(i) == {p[2] : p \in {q \in pairs : q[1] = i}}
<1>1. /\ IsFun(v) /\ {"tx", "sigs"} \subseteq DOMAIN v /\ v.tx = u.tx
      /\ v.sigs = [i \in DOMAIN u.sigs |-> createAndInsertSignature(u.tx, i, u.sigs[i], K(i))]
  BY Zenon DEF Fits, IsFun, SignAll
<1> HIDE DEF v, K
<1>2. \A i \in DOMAIN u.sigs : v.sigs[i] = createAndInsertSignature(u.tx, i, u.sigs[i], K(i))
  BY <1>1
<1>3. IsFun(v.sigs) /\ DOMAIN v.sigs = DOMAIN u.sigs
  BY <1>1 DEF IsFun
<1>4. ASSUME NEW i \in DOMAIN u.sigs
      PROVE  /\ IsFun(v.sigs[i]) /\ DOMAIN v.sigs[i] = DOMAIN u.sigs[i]
             /\ \A j \in DOMAIN u.sigs[i] :
                   \/ v.sigs[i][j] = u.sigs[i][j]
                   \/ v.sigs[i][j] = createTxSignature(u.tx, i, KeysOfInput(u.tx, i)[j])
  BY <1>2, Zenon DEF IsFun, createAndInsertSignature
<1>5. ASSUME NEW i \in DOMAIN u.sigs, NEW j \in DOMAIN u.sigs[i]
      PROVE  /\ v.sigs[i][j] # NoSig => verifyTxSignature(v.tx, i, v.sigs[i][j], KeysOfInput(v.tx, i)[j])
             /\ u.sigs[i][j] # NoSig => v.sigs[i][j] # NoSig
  <2>1. verifyTxSignature(u.tx, i, createTxSignature(u.tx, i, KeysOfInput(u.tx, i)[j]), KeysOfInput(u.tx, i)[j])
    BY SignatureVerifies
  <2>2. createTxSignature(u.tx, i, KeysOfInput(u.tx, i)[j]) # NoSig
    BY <2>1 DEF verifyTxSignature
  <2>3. u.sigs[i][j] # NoSig => verifyTxSignature(u.tx, i, u.sigs[i][j], KeysOfInput(u.tx, i)[j])
    BY DEF Fits
  <2> QED BY <1>1, <1>4, <2>1, <2>2, <2>3, Zenon
<1>6. Fits(v)
  <2>1. DOMAIN v.sigs = 1 .. Len(v.tx.ins)
    BY <1>1, <1>3 DEF Fits
  <2>2. \A i \in DOMAIN u.sigs : DOMAIN v.sigs[i] = 1 .. Len(KeysOfInput(v.tx, i))
    BY <1>1, <1>4, Zenon DEF Fits
  <2> QED BY <1>1, <1>3, <1>4, <1>5, <2>1, <2>2, Zenon DEF Fits
<1>7. HasAll(v, u)
  BY <1>4, <1>5, Zenon DEF HasAll, SignedSlots
<1> QED BY <1>1, <1>6, <1>7 DEF v

\* doImport keeps the signatures of both collectors of one transaction, and takes
\* none over from a collector of another transaction.
LEMMA MergeFits ==
    ASSUME NEW u, Fits(u), NEW o, Fits(o)
    PROVE  /\ Fits(Merge(u, o))
           /\ Merge(u, o).tx = u.tx => HasAll(Merge(u, o), u)
<1>1. CASE u.tx # o.tx
  BY <1>1 DEF Merge
<1>2. CASE u.tx = o.tx
  <2> DEFINE v == Merge(u, o)
             S(i) == [j \in DOMAIN o.sigs[i] |->
                        IF u.sigs[i][j] # NoSig THEN u.sigs[i][j] ELSE o.sigs[i][j]]
  <2>0. v = [o EXCEPT !.sigs = [i \in DOMAIN o.sigs |-> S(i)]]
    BY <1>2 DEF Merge
  <2> HIDE DEF v, S
  <2>1. /\ IsFun(v) /\ {"tx", "sigs"} \subseteq DOMAIN v /\ v.tx = o.tx
        /\ v.sigs = [i \in DOMAIN o.sigs |-> S(i)]
    BY <2>0, OtherSigs, Zenon DEF Fits
  <2>2. DOMAIN u.sigs = DOMAIN o.sigs /\ \A i \in DOMAIN o.sigs : DOMAIN u.sigs[i] = DOMAIN o.sigs[i]
    BY <1>2, Zenon DEF Fits
  <2>3. IsFun(v.sigs) /\ DOMAIN v.sigs = DOMAIN o.sigs
    BY <2>1 DEF IsFun
  <2>4. ASSUME NEW i \in DOMAIN o.sigs
        PROVE  /\ IsFun(v.sigs[i]) /\ DOMAIN v.sigs[i] = DOMAIN o.sigs[i]
               /\ \A j \in DOMAIN o.sigs[i] :
                     v.sigs[i][j] = IF u.sigs[i][j] # NoSig THEN u.sigs[i][j] ELSE o.sigs[i][j]
    <3>1. v.sigs[i] = S(i)
      BY <2>1
    <3> QED BY <3>1 DEF IsFun, S
  <2>5. ASSUME NEW i \in DOMAIN o.sigs, NEW j \in DOMAIN o.sigs[i]
        PROVE  /\ v.sigs[i][j] # NoSig => verifyTxSignature(v.tx, i, v.sigs[i][j], KeysOfInput(v.tx, i)[j])
               /\ u.sigs[i][j] # NoSig => v.sigs[i][j] # NoSig
    <3>1. o.sigs[i][j] # NoSig => verifyTxSignature(o.tx, i, o.sigs[i][j], KeysOfInput(o.tx, i)[j])
      BY DEF Fits
    <3>2. u.sigs[i][j] # NoSig => verifyTxSignature(o.tx, i, u.sigs[i][j], KeysOfInput(o.tx, i)[j])
      BY <1>2, <2>2 DEF Fits
    <3> QED BY <2>1, <2>4, <3>1, <3>2
  <2>6. Fits(v)
    <3>1. DOMAIN v.sigs = 1 .. Len(v.tx.ins)
      BY <2>1, <2>3 DEF Fits
    <3>2. \A i \in DOMAIN o.sigs : DOMAIN v.sigs[i] = 1 .. Len(KeysOfInput(v.tx, i))
      BY <2>1, <2>4, Zenon DEF Fits
    <3> QED BY <2>1, <2>3, <2>4, <2>5, <3>1, <3>2, Zenon DEF Fits
  <2>7. HasAll(v, u)
    BY <2>2, <2>4, <2>5, Zenon DEF HasAll, SignedSlots
  <2> QED BY <2>6, <2>7 DEF v
<1> QED BY <1>1, <1>2

-----------------------------------------------------------------------------
\* Nothing is shown and nothing was sent at the start.
LEMMA SigInit == Init => SigInv
<1> SUFFICES ASSUME Init PROVE SigInv
  OBVIOUS
<1>1. mail = [boxes |-> {}, notes |-> {}, collectors |-> {}] /\ dlg = [c \in Computers |-> Closed]
  BY DEF Init
<1>2. IsFun(mail) /\ "collectors" \in DOMAIN mail /\ mail.collectors = {}
  BY <1>1 DEF IsFun
<1>3. IsFun(dlg) /\ DOMAIN dlg = Computers /\ \A c \in Computers : dlg[c] = Closed
  BY <1>1 DEF IsFun
<1>4. IsFun(Closed) /\ "kind" \in DOMAIN Closed /\ Closed.kind = "none"
  BY DEF IsFun, Closed
<1> QED BY <1>2, <1>3, <1>4 DEF SigInv, Collects

\* A step that neither shows nor sends anything.
LEMMA NeitherKeeps == ASSUME SigInv, UNCHANGED <<dlg, mail>> PROVE SigInv' /\ SignaturesKept
<1>1. SigInv'
  BY Zenon DEF SigInv
<1>2. SignaturesKept
  BY DEF SignaturesKept, Shows
<1> QED BY <1>1, <1>2

\* A step that sends a text block.
LEMMA SendKeeps ==
    ASSUME SigInv, UNCHANGED dlg, NEW kind, NEW b, Send(kind, b), kind = "collectors" => Fits(b)
    PROVE  SigInv' /\ SignaturesKept
<1>1. IsFun(mail) /\ "collectors" \in DOMAIN mail /\ \A u \in mail.collectors : Fits(u)
  BY DEF SigInv
<1>2. mail' = [mail EXCEPT ![kind] = @ \cup {b}]
  BY DEF Send
<1>3. IsFun(mail') /\ "collectors" \in DOMAIN mail'
  BY <1>1, <1>2, Zenon DEF IsFun
<1>4. mail'.collectors = IF kind = "collectors" THEN mail.collectors \cup {b} ELSE mail.collectors
  BY <1>1, <1>2, Zenon DEF IsFun
<1>5. \A u \in mail'.collectors : Fits(u)
  BY <1>1, <1>4
<1>6. SigInv'
  BY <1>3, <1>5, Zenon DEF SigInv
<1>7. SignaturesKept
  BY DEF SignaturesKept, Shows
<1> QED BY <1>6, <1>7

\* A step that shows another dialog, or the same one with other contents.
Showable(d, old) ==
    /\ IsFun(d) /\ "kind" \in DOMAIN d /\ d.kind \in {"none", "merge", "review", "offline"}
    /\ Collects(d) => "u" \in DOMAIN d /\ Fits(d.u)
    /\ old.kind = "review" /\ d.kind = "review" /\ d.u.tx = old.u.tx => HasAll(d.u, old.u)

LEMMA ShowKeeps ==
    ASSUME SigInv, UNCHANGED mail, NEW c \in Computers, NEW d, Show(c, d), Showable(d, dlg[c])
    PROVE  SigInv' /\ SignaturesKept
<1>1. IsFun(dlg') /\ DOMAIN dlg' = Computers /\ dlg'[c] = d
      /\ \A b \in Computers : b # c => dlg'[b] = dlg[b]
  BY Zenon DEF SigInv, Show, IsFun
<1>2. SigInv'
  <2>1. \A b \in Computers :
          /\ IsFun(dlg'[b]) /\ "kind" \in DOMAIN dlg'[b]
          /\ dlg'[b].kind \in {"none", "merge", "review", "offline"}
          /\ Collects(dlg'[b]) => "u" \in DOMAIN dlg'[b] /\ Fits(dlg'[b].u)
    BY <1>1, Zenon DEF SigInv, Showable
  <2> QED BY <1>1, <2>1, Zenon DEF SigInv
<1>3. SignaturesKept
  BY <1>1 DEF SignaturesKept, Shows, Showable, HasAll
<1> QED BY <1>2, <1>3

\* A dialog that takes the place of one that is no review.
LEMMA NewDialog ==
    ASSUME NEW old, old.kind # "review", NEW u, Fits(u), NEW c
    PROVE  /\ Showable(review(u, c), old)
           /\ \A notes : Showable([review(u, c) EXCEPT !.notes = notes], old)
           /\ Showable([kind |-> "offline", u |-> u], old)
  BY DEF review, Showable, Collects, IsFun

\* Closing a dialog, or ending the program.
LEMMA CloseDialog == \A old : Showable(Closed, old)
  BY DEF Closed, Showable, Collects, IsFun

-----------------------------------------------------------------------------
\* Lockbox definitions are no collectors.
LEMMA DefinitionsKeep ==
    ASSUME SigInv, NEW c \in Computers,
           \/ \E typed : doContinueEditor(c, typed) \/ createlockbox(c, typed)
           \/ \E box : importLockbox(c, box)
           \/ \E i : removeLockbox(c, i)
           \/ WriteFile(c) \/ Interrupted(c) \/ loadLockbox(c)
    PROVE  SigInv' /\ SignaturesKept
<1>1. ASSUME (\E typed : doContinueEditor(c, typed)) \/ WriteFile(c)
      PROVE  UNCHANGED dlg /\ (UNCHANGED mail \/ \E b : Send("boxes", b))
  BY <1>1, Zenon DEF doContinueEditor, WriteFile
<1>2. ASSUME \/ \E box : importLockbox(c, box)
             \/ \E typed : createlockbox(c, typed)
             \/ \E i : removeLockbox(c, i)
             \/ \E k, isCut : WriteFails(c, k, isCut)
             \/ loadLockbox(c)
      PROVE  UNCHANGED <<dlg, mail>>
  BY <1>2, Zenon DEF importLockbox, createlockbox, removeLockbox, WriteFails, loadLockbox
<1>3. ASSUME NEW k, NEW isCut, Restart(c, k, isCut) PROVE UNCHANGED mail /\ Show(c, Closed)
  BY <1>3, Zenon DEF Restart
<1>4. "boxes" # "collectors"
  OBVIOUS
<1>5. ASSUME NEW b, Send("boxes", b), UNCHANGED dlg PROVE SigInv' /\ SignaturesKept
  BY <1>4, <1>5, SendKeeps, Zenon
<1>6. ASSUME NEW k, NEW isCut, Restart(c, k, isCut) PROVE SigInv' /\ SignaturesKept
  BY <1>3, <1>6, ShowKeeps, CloseDialog, Zenon
<1>7. Interrupted(c) => \E k, isCut : Restart(c, k, isCut) \/ WriteFails(c, k, isCut)
  BY Zenon DEF Interrupted
<1> QED BY <1>1, <1>2, <1>5, <1>6, <1>7, NeitherKeeps, Zenon

\* Promissory notes are none either; the transaction made of them is unsigned.
LEMMA NotesKeep ==
    ASSUME SigInv, NEW c \in Computers,
           \/ \E target, terms, ops : doContinueProm(c, target, terms, ops) \/ createPromAdd(c, target, terms, ops)
           \/ \E must : doMergeProm(c, must)
           \/ \E note : importNote(c, note)
           \/ \E bare : mergeNotesCreateUSTX(c, bare)
    PROVE  SigInv' /\ SignaturesKept
<1>1. ASSUME NEW target, NEW terms, NEW ops, doContinueProm(c, target, terms, ops)
      PROVE  SigInv' /\ SignaturesKept
  <2>1. UNCHANGED dlg /\ \E b : Send("notes", b)
    BY <1>1, Zenon DEF doContinueProm
  <2>2. "notes" # "collectors"
    OBVIOUS
  <2> QED BY <2>1, <2>2, SendKeeps, Zenon
<1>2. ASSUME NEW note, addNote(c, note), Shows(c, "merge"), UNCHANGED mail
      PROVE  SigInv' /\ SignaturesKept
  <2>1. PICK x, y : Show(c, [dlg[c] EXCEPT !.notes = x, !.must = y])
    BY <1>2, Zenon DEF addNote
  <2> DEFINE d == [dlg[c] EXCEPT !.notes = x, !.must = y]
  <2>2. IsFun(dlg[c]) /\ "kind" \in DOMAIN dlg[c] /\ dlg[c].kind = "merge"
    BY <1>2 DEF SigInv, Shows
  <2>3. IsFun(d) /\ "kind" \in DOMAIN d /\ d.kind = "merge"
    BY <2>2, Zenon DEF IsFun
  <2> HIDE DEF d
  <2>4. Showable(d, dlg[c])
    BY <2>3 DEF Showable, Collects
  <2> QED BY <1>2, <2>1, <2>4, ShowKeeps DEF d
<1>3. ASSUME NEW target, NEW terms, NEW ops, createPromAdd(c, target, terms, ops)
      PROVE  SigInv' /\ SignaturesKept
  BY <1>2, <1>3, Zenon DEF createPromAdd
<1>4. ASSUME NEW note, importNote(c, note)
      PROVE  SigInv' /\ SignaturesKept
  BY <1>2, <1>4, Zenon DEF importNote
<1>5. ASSUME NEW must, doMergeProm(c, must)
      PROVE  SigInv' /\ SignaturesKept
  <2> DEFINE d == [kind |-> "merge", notes |-> <<>>, must |-> must]
  <2>1. UNCHANGED mail /\ Show(c, d)
    BY <1>5, Zenon DEF doMergeProm
  <2>2. Showable(d, dlg[c])
    BY DEF Showable, Collects, IsFun
  <2> QED BY <2>1, <2>2, ShowKeeps
<1>6. ASSUME NEW bare, mergeNotesCreateUSTX(c, bare)
      PROVE  SigInv' /\ SignaturesKept
  <2>1. dlg[c].kind # "review"
    BY <1>6, Zenon DEF mergeNotesCreateUSTX, Shows
  <2>2. UNCHANGED mail
    BY <1>6, Zenon DEF mergeNotesCreateUSTX
  <2>3. \E ops, outs, notes :
          Show(c, [review(createFromUnsignedTxIO(ops, outs), c) EXCEPT !.notes = notes])
    BY <1>6, Zenon DEF mergeNotesCreateUSTX
  <2> QED BY <2>1, <2>2, <2>3, NewFits, NewDialog, ShowKeeps, Zenon
<1> QED BY <1>1, <1>3, <1>4, <1>5, <1>6, Zenon

\* A new transaction is unsigned, or signed and sent without being collected.
LEMMA NewTransactionsKeep ==
    ASSUME SigInv, NEW c \in Computers, NEW spend, NEW ops,
           \/ \E box : doSpend(c, box, spend, ops)
           \/ createOfflineTx(c, spend, ops) \/ sendNow(c, spend, ops)
    PROVE  SigInv' /\ SignaturesKept
<1>1. ASSUME NEW to PROVE Fits(Payment(ops, spend, to))
  BY NewFits, Zenon DEF Payment
<1>2. ASSUME NEW box, doSpend(c, box, spend, ops)
      PROVE  SigInv' /\ SignaturesKept
  <2>1. UNCHANGED mail /\ Show(c, review(Payment(ops, spend, p2shScript(box)), c))
    BY <1>2, Zenon DEF doSpend
  <2>2. dlg[c].kind # "review"
    BY <1>2 DEF doSpend, Idle, Closed
  <2> QED BY <1>1, <2>1, <2>2, NewDialog, ShowKeeps, Zenon
<1>3. ASSUME createOfflineTx(c, spend, ops)
      PROVE  SigInv' /\ SignaturesKept
  <2>1. UNCHANGED dlg /\ Send("collectors", Payment(ops, spend, KeyScript(ChangeKey(c))))
    BY <1>3, Zenon DEF createOfflineTx
  <2> QED BY <1>1, <2>1, SendKeeps, Zenon
<1>4. ASSUME sendNow(c, spend, ops)
      PROVE  SigInv' /\ SignaturesKept
  BY <1>4, NeitherKeeps, Zenon DEF sendNow
<1> QED BY <1>2, <1>3, <1>4, Zenon

\* Signing in a dialog that shows a collector.
LEMMA SigningKeeps ==
    ASSUME SigInv, NEW c \in Computers, Collects(dlg[c]), UNCHANGED mail,
           NEW pairs, Show(c, [dlg[c] EXCEPT !.u = SignAll(@, pairs)])
    PROVE  SigInv' /\ SignaturesKept
<1> DEFINE v == SignAll(dlg[c].u, pairs)
           d == [dlg[c] EXCEPT !.u = SignAll(@, pairs)]
<1>1. /\ IsFun(dlg[c]) /\ "kind" \in DOMAIN dlg[c] /\ "u" \in DOMAIN dlg[c] /\ Fits(dlg[c].u)
      /\ dlg[c].kind \in {"none", "merge", "review", "offline"}
  BY DEF SigInv
<1>2. Fits(v) /\ HasAll(v, dlg[c].u)
  BY <1>1, SignFits, Zenon
<1> HIDE DEF v
<1>3. d = [dlg[c] EXCEPT !.u = v]
  BY DEF v
<1> HIDE DEF d
<1>4. IsFun(d) /\ DOMAIN d = DOMAIN dlg[c] /\ d.kind = dlg[c].kind /\ d.u = v
  BY <1>1, <1>3, Zenon DEF IsFun
<1>5. Showable(d, dlg[c])
  BY <1>1, <1>2, <1>4, Zenon DEF Showable
<1> QED BY <1>5, ShowKeeps DEF d

\* The review dialog and the offline frame: a collector that is read was sent, the
\* user signs, imports, exports, sends the transaction or closes the dialog.
LEMMA CollectingKeeps == ASSUME SigInv, NEW c \in Computers, Collecting(c) PROVE SigInv' /\ SignaturesKept
<1>1. ASSUME NEW u \in mail.collectors PROVE Fits(u)
  BY <1>1 DEF SigInv
<1>2. Idle(c) => dlg[c].kind # "review"
  BY DEF Idle, Closed
<1>3. ASSUME NEW u \in mail.collectors, doReview(c, u) \/ processUSTX(c, u)
      PROVE  SigInv' /\ SignaturesKept
  <2>1. UNCHANGED mail /\ Idle(c) /\ (Show(c, review(u, c)) \/ Show(c, [kind |-> "offline", u |-> u]))
    BY <1>3, Zenon DEF doReview, processUSTX
  <2> QED BY <1>1, <1>2, <2>1, NewDialog, ShowKeeps, Zenon
<1>4. ASSUME NEW u \in mail.collectors, doImport(c, u)
      PROVE  SigInv' /\ SignaturesKept
  <2> DEFINE v == Merge(dlg[c].u, u)
  <2>1. UNCHANGED mail /\ Show(c, review(v, c)) /\ dlg[c].kind = "review"
    BY <1>4, Zenon DEF doImport, Shows
  <2>2. Fits(dlg[c].u)
    BY <2>1 DEF SigInv, Collects
  <2>3. Fits(v) /\ (v.tx = dlg[c].u.tx => HasAll(v, dlg[c].u))
    BY <1>1, <2>2, MergeFits, Zenon
  <2> HIDE DEF v
  <2>4. IsFun(review(v, c)) /\ {"kind", "u"} \subseteq DOMAIN review(v, c)
        /\ review(v, c).kind = "review" /\ review(v, c).u = v
    BY DEF review, IsFun
  <2>5. Showable(review(v, c), dlg[c])
    BY <2>3, <2>4 DEF Showable
  <2> QED BY <2>1, <2>5, ShowKeeps
<1>5. ASSUME Shows(c, "review"),
             \/ \E box, j : doSignLockbox(c, box, j)
             \/ doSignWallet(c)
      PROVE  SigInv' /\ SignaturesKept
  <2>1. UNCHANGED mail /\ \E pairs : Show(c, [dlg[c] EXCEPT !.u = SignAll(@, pairs)])
    BY <1>5, Zenon DEF doSignLockbox, doSignWallet, SignBundle
  <2>2. Collects(dlg[c])
    BY <1>5 DEF Shows, Collects
  <2> QED BY <2>1, <2>2, SigningKeeps
<1>6. ASSUME signTx(c)
      PROVE  SigInv' /\ SignaturesKept
  <2>1. UNCHANGED mail /\ \E pairs : Show(c, [dlg[c] EXCEPT !.u = SignAll(@, pairs)])
    BY <1>6, Zenon DEF signTx, signUnsignedTx
  <2>2. Collects(dlg[c])
    BY <1>6 DEF signTx, Shows, Collects
  <2> QED BY <2>1, <2>2, SigningKeeps
<1>7. ASSUME doExport(c)
      PROVE  SigInv' /\ SignaturesKept
  <2>1. UNCHANGED dlg /\ Send("collectors", dlg[c].u) /\ Collects(dlg[c])
    BY <1>7 DEF doExport, Shows, Collects
  <2>2. Fits(dlg[c].u)
    BY <2>1 DEF SigInv
  <2> QED BY <2>1, <2>2, SendKeeps
<1>8. ASSUME doBroadcast(c) \/ broadTx(c) \/ closeDialog(c)
      PROVE  SigInv' /\ SignaturesKept
  <2>1. UNCHANGED mail /\ Show(c, Closed)
    BY <1>8, Zenon DEF doBroadcast, broadTx, closeDialog
  <2> QED BY <2>1, CloseDialog, ShowKeeps, Zenon
<1> QED BY <1>3, <1>4, <1>5, <1>6, <1>7, <1>8, Zenon DEF Collecting

\* armoryd signs a collector that was sent, and sends the result.
LEMMA DaemonKeeps ==
    ASSUME SigInv, NEW c, NEW u \in mail.collectors,
           signasciitransaction(c, u) \/ sendasciitransaction(c, u)
    PROVE  SigInv' /\ SignaturesKept
<1>1. Fits(u)
  BY DEF SigInv
<1>2. CASE signasciitransaction(c, u)
  <2>1. UNCHANGED dlg /\ \E pairs : Send("collectors", SignAll(u, pairs))
    BY <1>2, Zenon DEF signasciitransaction
  <2> QED BY <1>1, <2>1, SignFits, SendKeeps, Zenon
<1>3. CASE sendasciitransaction(c, u)
  BY <1>3, NeitherKeeps, Zenon DEF sendasciitransaction
<1> QED BY <1>2, <1>3

\* Every step of every computer.
LEMMA SigNext == ASSUME SigInv, [Next]_vars PROVE SigInv' /\ SignaturesKept
<1>1. CASE UNCHANGED vars
  BY <1>1, NeitherKeeps, Zenon DEF vars
<1>2. ASSUME NEW c \in Computers, Daemon(c) PROVE SigInv' /\ SignaturesKept
  BY <1>2, DefinitionsKeep, DaemonKeeps, Zenon DEF Daemon
<1>3. ASSUME NEW c \in Computers, Definitions(c) \/ WriteFile(c) \/ Interrupted(c) \/ loadLockbox(c)
      PROVE  SigInv' /\ SignaturesKept
  BY <1>3, DefinitionsKeep, Zenon DEF Definitions
<1>4. ASSUME NEW c \in Computers, Notes(c) PROVE SigInv' /\ SignaturesKept
  BY <1>4, NotesKeep, Zenon DEF Notes
<1>5. ASSUME NEW c \in Computers, NewTransactions(c) PROVE SigInv' /\ SignaturesKept
  BY <1>5, NewTransactionsKeep, Zenon DEF NewTransactions
<1> QED BY <1>1, <1>2, <1>3, <1>4, <1>5, CollectingKeeps, Zenon DEF Next

-----------------------------------------------------------------------------
\* What SigInv says of the collectors.
LEMMA SigInvFits == SigInv => SignaturesFit
<1> SUFFICES ASSUME SigInv, NEW u \in Collectors PROVE Fits(u)
  BY Zenon DEF SignaturesFit, Fits, SignedSlots
<1> QED BY Zenon DEF SigInv, Collectors, Shows, Collects

\* In every state, all collectors that are shown or were sent have a slot for
\* every key, and in it nothing or a signature that is valid there.
THEOREM CollectorsFit == Spec => []SigInv
<1>1. SigInv /\ [Next]_vars => SigInv'
  BY SigNext
<1> QED BY SigInit, <1>1, PTL DEF Spec

\* Whatever the computers do, in whatever order: what insertSignature left in a
\* slot is a valid signature of the key of the slot for this input of this
\* transaction, and as long as the review dialog shows one transaction no import
\* of a collector and no signing takes a signature away (SignaturesSafe).
THEOREM SignaturesAlwaysSafe == Spec => SignaturesSafe
<1>1. SigInv /\ [Next]_vars => SignaturesFit' /\ SignaturesKept
  <2> SUFFICES ASSUME SigInv, [Next]_vars PROVE SignaturesFit' /\ SignaturesKept
    OBVIOUS
  <2>1. SigInv' /\ SignaturesKept
    BY SigNext
  <2>2. (SigInv => SignaturesFit)'
    BY SigInvFits, PTL
  <2> QED BY <2>1, <2>2
<1> QED BY <1>1, CollectorsFit, PTL DEF Spec, SignaturesSafe

-----------------------------------------------------------------------------
(* The lockboxes of a computer.                                            *)

Ordered(b) == b = [m |-> b.m, keys |-> b.keys] /\ b.keys = InOrder(b.keys)

\* Lockboxes one after the other, as they are written and read.
Text(s) == s \in Seq(Range(s)) /\ \A i \in DOMAIN s : Ordered(s[i])

\* A list of lockboxes as the program keeps it.
Listed(s) ==
    /\ s \in Seq(Range(s))
    /\ \A i, j \in DOMAIN s : calcLockboxID(s[i]) = calcLockboxID(s[j]) => i = j
    /\ \A i \in DOMAIN s : Ordered(s[i])

\* The list B in memory, the file F, what is still to be written, O, and to be
\* read, L, the lockboxes S that the user saved, whether the last write failed,
\* and whether the computer runs armoryd.
ListsOK(B, F, O, L, S, isApart, isDaemon) ==
    /\ Listed(B) /\ Text(F) /\ Text(O) /\ Text(L)
    /\ S \subseteq Range(B) \cup Range(L)
    /\ isApart \/ S \subseteq Range(F) \cup {b \in Range(O) \cup Range(L) : ~isDaemon}
    /\ O # <<>> /\ ~isDaemon => F = <<>> /\ O = B
    /\ O # <<>> /\ isDaemon =>
          \E b : O = <<b>> /\ \A d \in Range(B) : calcLockboxID(d) # calcLockboxID(b)

\* The lists of every computer are in order, and so are the lockboxes that were
\* exported.
BoxInv ==
    /\ w \in Worlds
    /\ IsFun(mail) /\ "boxes" \in DOMAIN mail /\ \A b \in mail.boxes : Ordered(b)
    /\ IsFun(boxes) /\ IsFun(file) /\ IsFun(textOut) /\ IsFun(loading) /\ IsFun(saved) /\ IsFun(apart)
    /\ DOMAIN boxes = Computers /\ DOMAIN file = Computers /\ DOMAIN textOut = Computers
    /\ DOMAIN loading = Computers /\ DOMAIN saved = Computers /\ DOMAIN apart = Computers
    /\ \A c \in Computers : ListsOK(boxes[c], file[c], textOut[c], loading[c], saved[c],
                                    apart[c], c \in w.daemon)

-----------------------------------------------------------------------------
\* The empty list.
LEMMA EmptyList == Listed(<<>>) /\ Text(<<>>) /\ Range(<<>>) = {}
  BY DEF Listed, Text, Range

\* Lockboxes with one ID are the same.
LEMMA SameBox ==
    ASSUME NEW b, Ordered(b), NEW d, Ordered(d), calcLockboxID(b) = calcLockboxID(d)
    PROVE  b = d
<1>1. calcLockboxID(b).m = b.m /\ calcLockboxID(b).keys = InOrder(b.keys)
  BY DEF calcLockboxID, pubkeylist_to_multisig_script
<1>2. calcLockboxID(d).m = d.m /\ calcLockboxID(d).keys = InOrder(d.keys)
  BY DEF calcLockboxID, pubkeylist_to_multisig_script
<1>3. b.m = d.m /\ b.keys = d.keys
  BY <1>1, <1>2 DEF Ordered
<1> QED BY <1>3, Zenon DEF Ordered

\* A sequence is one of its own elements.
LEMMA OwnElements == ASSUME NEW S, NEW r \in Seq(S) PROVE r \in Seq(Range(r))
<1>1. \A k \in DOMAIN r : r[k] \in Range(r)
  BY DEF Range
<1> QED BY <1>1

\* A new lockbox at the end of a list.
LEMMA AppendList ==
    ASSUME NEW s, Listed(s), NEW b, Ordered(b), \A d \in Range(s) : calcLockboxID(d) # calcLockboxID(b)
    PROVE  Listed(Append(s, b)) /\ Range(Append(s, b)) = Range(s) \cup {b}
<1> DEFINE n == Len(s)
           r == Append(s, b)
<1>1. n \in Nat /\ DOMAIN s = 1 .. n /\ s \in Seq(Range(s))
  BY DEF Listed
<1>2. s \in Seq(Range(s) \cup {b})
  BY <1>1
<1>3. r \in Seq(Range(s) \cup {b}) /\ DOMAIN r = 1 .. n + 1 /\ r[n + 1] = b
      /\ \A i \in 1 .. n : r[i] = s[i]
  BY <1>1, <1>2
<1> HIDE DEF r, n
<1>4. \A i \in DOMAIN r : (i \in DOMAIN s /\ r[i] = s[i]) \/ (i = n + 1 /\ i \notin DOMAIN s /\ r[i] = b)
  BY <1>1, <1>3
<1>5. \A i \in DOMAIN s : i \in DOMAIN r /\ r[i] = s[i]
  BY <1>1, <1>3
<1>6. n + 1 \in DOMAIN r
  BY <1>1, <1>3
<1>7. Range(r) = Range(s) \cup {b}
  <2>1. ASSUME NEW d \in Range(r) PROVE d \in Range(s) \cup {b}
    BY <1>4, <2>1 DEF Range
  <2>2. ASSUME NEW d \in Range(s) PROVE d \in Range(r)
    BY <1>5, <2>2 DEF Range
  <2>3. b \in Range(r)
    BY <1>3, <1>6 DEF Range
  <2> QED BY <2>1, <2>2, <2>3
<1>8. \A i \in DOMAIN s : calcLockboxID(s[i]) # calcLockboxID(b)
  BY DEF Range
<1>9. \A i, j \in DOMAIN r : calcLockboxID(r[i]) = calcLockboxID(r[j]) => i = j
  BY <1>4, <1>8, Zenon DEF Listed
<1>10. \A i \in DOMAIN r : Ordered(r[i])
  BY <1>4, Zenon DEF Listed
<1> QED BY <1>3, <1>7, <1>9, <1>10, Zenon DEF Listed, r

\* A lockbox is taken out of a list.
LEMMA RemoveList ==
    ASSUME NEW s, Listed(s), NEW i \in DOMAIN s
    PROVE  LET r == SubSeq(s, 1, i - 1) \o SubSeq(s, i + 1, Len(s))
           IN  Listed(r) /\ Range(s) \ {s[i]} \subseteq Range(r)
<1> DEFINE n == Len(s)
           r == SubSeq(s, 1, i - 1) \o SubSeq(s, i + 1, Len(s))
           At(k) == IF k < i THEN k ELSE k + 1
<1>1. n \in Nat /\ DOMAIN s = 1 .. n /\ s \in Seq(Range(s)) /\ i \in 1 .. n
  BY DEF Listed
<1>2. r \in Seq(Range(s)) /\ DOMAIN r = 1 .. n - 1 /\ \A k \in 1 .. n - 1 : r[k] = s[At(k)]
  <2> DEFINE a == SubSeq(s, 1, i - 1)
             z == SubSeq(s, i + 1, n)
  <2>1. a \in Seq(Range(s)) /\ Len(a) = i - 1 /\ \A k \in 1 .. i - 1 : a[k] = s[k]
    BY <1>1
  <2>2. z \in Seq(Range(s)) /\ Len(z) = n - i /\ \A k \in 1 .. n - i : z[k] = s[i + k]
    BY <1>1
  <2>3. r = a \o z
    OBVIOUS
  <2> HIDE DEF a, z, r, n
  <2>4. r \in Seq(Range(s)) /\ Len(r) = n - 1
    BY <1>1, <2>1, <2>2, <2>3
  <2>5. ASSUME NEW k \in 1 .. n - 1 PROVE r[k] = s[At(k)]
    <3>1. CASE k < i
      <4>1. r[k] = a[k]
        BY <1>1, <2>1, <2>2, <2>3, <3>1
      <4> QED BY <1>1, <2>1, <3>1, <4>1
    <3>2. CASE ~(k < i)
      <4>0. k \in 1 .. Len(a) + Len(z) /\ ~(k <= Len(a)) /\ k - Len(a) = k - (i - 1)
        BY <1>1, <2>1, <2>2, <3>2
      <4>1. r[k] = z[k - Len(a)]
        BY <2>1, <2>2, <2>3, <4>0
      <4>2. k - (i - 1) \in 1 .. n - i /\ i + (k - (i - 1)) = k + 1
        BY <1>1, <3>2
      <4> QED BY <2>2, <3>2, <4>0, <4>1, <4>2
    <3> QED BY <3>1, <3>2
  <2> QED BY <2>4, <2>5
<1> HIDE DEF r, n
<1>3. \A k \in DOMAIN r : At(k) \in DOMAIN s /\ r[k] = s[At(k)]
  BY <1>1, <1>2
<1>4. \A k, l \in DOMAIN r : At(k) = At(l) => k = l
  BY <1>1, <1>2
<1>5. \A k \in DOMAIN s : k # i => \E l \in DOMAIN r : At(l) = k
  <2> SUFFICES ASSUME NEW k \in DOMAIN s, k # i PROVE \E l \in DOMAIN r : At(l) = k
    OBVIOUS
  <2>1. CASE k < i
    BY <1>1, <1>2, <2>1
  <2>2. CASE k > i
    <3>1. k - 1 \in DOMAIN r /\ At(k - 1) = k
      BY <1>1, <1>2, <2>2
    <3> QED BY <3>1
  <2> QED BY <1>1, <2>1, <2>2
<1> HIDE DEF At
<1>6. ASSUME NEW d \in Range(s), d # s[i] PROVE d \in Range(r)
  <2>1. PICK k \in DOMAIN s : d = s[k]
    BY <1>6 DEF Range
  <2>2. PICK l \in DOMAIN r : At(l) = k
    BY <1>5, <1>6, <2>1
  <2> QED BY <1>3, <2>1, <2>2 DEF Range
<1>8. r \in Seq(Range(r))
  BY <1>2, OwnElements
<1>9. Listed(r)
  BY <1>3, <1>4, <1>8, Zenon DEF Listed
<1> QED BY <1>6, <1>9 DEF r

\* What is left of a text that is read from its start.
LEMMA TailText ==
    ASSUME NEW s, Text(s), s # <<>>
    PROVE  Text(Tail(s)) /\ Range(s) = {Head(s)} \cup Range(Tail(s)) /\ Ordered(Head(s))
<1> DEFINE n == Len(s)
           r == Tail(s)
<1>1. n \in Nat /\ n >= 1 /\ DOMAIN s = 1 .. n /\ s \in Seq(Range(s)) /\ Head(s) = s[1]
  BY DEF Text
<1>2. r \in Seq(Range(s)) /\ DOMAIN r = 1 .. n - 1 /\ \A k \in 1 .. n - 1 : r[k] = s[k + 1]
  BY <1>1
<1> HIDE DEF r, n
<1>3. \A k \in DOMAIN r : k + 1 \in DOMAIN s /\ r[k] = s[k + 1]
  BY <1>1, <1>2
<1>4. 1 \in DOMAIN s /\ \A k \in DOMAIN s : k # 1 => \E l \in DOMAIN r : k = l + 1
  <2> SUFFICES ASSUME NEW k \in DOMAIN s, k # 1 PROVE \E l \in DOMAIN r : k = l + 1
    BY <1>1
  <2>1. k - 1 \in DOMAIN r /\ k = (k - 1) + 1
    BY <1>1, <1>2
  <2> QED BY <2>1
<1>5. Range(s) = {s[1]} \cup Range(r)
  <2>1. ASSUME NEW d \in Range(s), d # s[1] PROVE d \in Range(r)
    <3>1. PICK k \in DOMAIN s : d = s[k]
      BY <2>1 DEF Range
    <3>2. PICK l \in DOMAIN r : k = l + 1
      BY <1>4, <2>1, <3>1
    <3> QED BY <1>3, <3>1, <3>2 DEF Range
  <2>2. ASSUME NEW d \in Range(r) PROVE d \in Range(s)
    BY <1>3, <2>2 DEF Range
  <2>3. s[1] \in Range(s)
    BY <1>4 DEF Range
  <2> QED BY <2>1, <2>2, <2>3
<1>6. r \in Seq(Range(r))
  BY <1>2, OwnElements
<1>7. Text(r)
  BY <1>3, <1>6, Zenon DEF Text
<1>8. Ordered(s[1])
  BY <1>4 DEF Text
<1> QED BY <1>1, <1>5, <1>7, <1>8 DEF r

\* The start of a text, as far as it was written.
LEMMA StartOfText ==
    ASSUME NEW s, Text(s), NEW k \in 0 .. Len(s)
    PROVE  Text(SubSeq(s, 1, k)) /\ (k = Len(s) => SubSeq(s, 1, k) = s)
<1> DEFINE r == SubSeq(s, 1, k)
<1>1. s \in Seq(Range(s)) /\ k \in Nat /\ k <= Len(s)
  BY DEF Text
<1>2. r \in Seq(Range(s)) /\ Len(r) = k /\ DOMAIN r = 1 .. k /\ \A j \in 1 .. k : r[j] = s[j]
  BY <1>1
<1>3. k = Len(s) => r = s
  BY <1>1
<1> HIDE DEF r
<1>4. r \in Seq(Range(r))
  BY <1>2, OwnElements
<1>5. \A j \in DOMAIN r : j \in DOMAIN s /\ r[j] = s[j]
  BY <1>1, <1>2
<1>6. Text(r)
  BY <1>4, <1>5, Zenon DEF Text
<1> QED BY <1>3, <1>6 DEF r

\* A text that is written behind another one.
LEMMA AppendedText ==
    ASSUME NEW s, Text(s), NEW u, Text(u)
    PROVE  Text(s \o u) /\ Range(s \o u) = Range(s) \cup Range(u)
<1> DEFINE n == Len(s)
           r == s \o u
           Both == Range(s) \cup Range(u)
<1>1. s \in Seq(Both) /\ u \in Seq(Both) /\ n \in Nat /\ Len(u) \in Nat
  BY DEF Text
<1>2. r \in Seq(Both) /\ Len(r) = n + Len(u) /\ DOMAIN r = 1 .. n + Len(u)
      /\ DOMAIN s = 1 .. n /\ DOMAIN u = 1 .. Len(u)
  BY <1>1
<1>3. ASSUME NEW j \in DOMAIN s PROVE j \in DOMAIN r /\ r[j] = s[j]
  BY <1>1, <1>2, <1>3
<1>4. ASSUME NEW j \in DOMAIN u PROVE n + j \in DOMAIN r /\ r[n + j] = u[j]
  BY <1>1, <1>2, <1>4
<1>5. ASSUME NEW j \in DOMAIN r, j \notin DOMAIN s PROVE j - n \in DOMAIN u /\ n + (j - n) = j
  BY <1>1, <1>2, <1>5
<1> HIDE DEF r, n
<1>6. \A j \in DOMAIN r : (j \in DOMAIN s /\ r[j] = s[j]) \/ \E l \in DOMAIN u : r[j] = u[l]
  <2> SUFFICES ASSUME NEW j \in DOMAIN r, j \notin DOMAIN s PROVE \E l \in DOMAIN u : r[j] = u[l]
    BY <1>3
  <2>1. j - n \in DOMAIN u /\ n + (j - n) = j
    BY <1>5
  <2>2. r[n + (j - n)] = u[j - n]
    BY <1>4, <2>1
  <2> QED BY <2>1, <2>2
<1>7. Range(r) = Range(s) \cup Range(u)
  <2>1. ASSUME NEW d \in Range(r) PROVE d \in Range(s) \cup Range(u)
    BY <1>6, <2>1, Zenon DEF Range
  <2>2. ASSUME NEW d \in Range(s) \cup Range(u) PROVE d \in Range(r)
    BY <1>3, <1>4, <2>2 DEF Range
  <2> QED BY <2>1, <2>2
<1>8. r \in Seq(Range(r))
  BY <1>2, OwnElements
<1>9. \A j \in DOMAIN r : Ordered(r[j])
  BY <1>6, Zenon DEF Text
<1> QED BY <1>7, <1>8, <1>9 DEF Text, r

\* A list is a text.
LEMMA ListedText == ASSUME NEW s, Listed(s) PROVE Text(s)
  BY Zenon DEF Listed, Text

-----------------------------------------------------------------------------
\* updateOrAddLockbox keeps all lockboxes of the list and has the given one: one
\* with its ID can only be the same.
LEMMA UpdatedList ==
    ASSUME NEW c, Listed(boxes[c]), NEW b, Ordered(b)
    PROVE  Listed(Updated(c, b)) /\ Range(Updated(c, b)) = Range(boxes[c]) \cup {b}
<1> DEFINE B  == boxes[c]
           at == {i \in DOMAIN B : calcLockboxID(B[i]) = calcLockboxID(b)}
<1>1. 0 \notin DOMAIN B /\ B \in Seq(Range(B))
  BY DEF Listed
<1>2. CASE at = {}
  <2>1. lockboxIDMap(c, b) = 0
    BY <1>2 DEF lockboxIDMap
  <2>2. \A d \in Range(B) : calcLockboxID(d) # calcLockboxID(b)
    BY <1>2 DEF Range
  <2>3. Updated(c, b) = Append(B, b)
    BY <2>1 DEF Updated
  <2> QED BY <2>2, <2>3, AppendList
<1>3. CASE at # {}
  <2>1. lockboxIDMap(c, b) \in at
    BY <1>3 DEF lockboxIDMap
  <2> DEFINE i == lockboxIDMap(c, b)
  <2>2. i \in DOMAIN B /\ calcLockboxID(B[i]) = calcLockboxID(b) /\ Ordered(B[i])
    BY <2>1 DEF Listed
  <2>3. Updated(c, b) = [B EXCEPT ![i] = b]
    BY <1>1, <2>2 DEF Updated
  <2> HIDE DEF i, at
  <2>4. B[i] = b
    BY <2>2, SameBox, Zenon
  <2>5. Updated(c, b) = B
    BY <1>1, <2>2, <2>3, <2>4
  <2>6. b \in Range(B)
    BY <2>2, <2>4 DEF Range
  <2> QED BY <2>5, <2>6
<1> QED BY <1>2, <1>3

\* What a file holds when writing ends, early or not.
LEMMA HoldsText ==
    ASSUME NEW c, Text(file[c]), Text(textOut[c]), NEW k \in 0 .. Len(textOut[c])
    PROVE  /\ Text(Holds(c, k)) /\ Range(file[c]) \subseteq Range(Holds(c, k))
           /\ k = Len(textOut[c]) /\ ~(apart[c] /\ c \in w.daemon)
                 => Range(Holds(c, k)) = Range(file[c]) \cup Range(textOut[c])
<1> DEFINE part == SubSeq(textOut[c], 1, k)
<1>1. Text(part) /\ (k = Len(textOut[c]) => part = textOut[c])
  BY StartOfText
<1> HIDE DEF part
<1>2. Text(file[c] \o part) /\ Range(file[c] \o part) = Range(file[c]) \cup Range(part)
  BY <1>1, AppendedText
<1>3. Holds(c, k) = IF apart[c] /\ c \in w.daemon THEN file[c] ELSE file[c] \o part
  BY DEF Holds, part
<1> QED BY <1>1, <1>2, <1>3

\* The list has changed and the file is open for writing, or could not be opened.
LEMMA OpenOK ==
    ASSUME NEW R, Listed(R), NEW L, Text(L), NEW S, S \subseteq Range(R) \cup Range(L), NEW F, Text(F),
           NEW a, NEW d, ~d
    PROVE  ListsOK(R, <<>>, R, L, S, a, d) /\ ListsOK(R, F, <<>>, L, S, TRUE, d)
<1>1. Text(R)
  BY ListedText
<1>2. S \subseteq Range(<<>>) \cup {b \in Range(R) \cup Range(L) : ~d}
  OBVIOUS
<1> QED BY <1>1, <1>2, EmptyList, Zenon DEF ListsOK

\* armoryd is about to append a new lockbox.
LEMMA CreateOK ==
    ASSUME NEW B, NEW F, NEW L, NEW S, NEW a, NEW d, d, ListsOK(B, F, <<>>, L, S, a, d),
           NEW b, Ordered(b), \A e \in Range(B) : calcLockboxID(e) # calcLockboxID(b)
    PROVE  ListsOK(B, F, <<b>>, L, S, a, d)
<1>1. Text(<<b>>)
  <2>1. <<b>> = Append(<<>>, b)
    OBVIOUS
  <2>2. Listed(Append(<<>>, b))
    BY AppendList, EmptyList, Zenon
  <2> QED BY <2>1, <2>2, ListedText
<1>2. a \/ S \subseteq Range(F) \cup {e \in Range(<<b>>) \cup Range(L) : ~d}
  BY DEF ListsOK
<1> QED BY <1>1, <1>2, Zenon DEF ListsOK

\* Writing fails: G is what the file holds then.
LEMMA FailsOK ==
    ASSUME NEW B, NEW F, NEW O, NEW L, NEW S, NEW a, NEW d, ListsOK(B, F, O, L, S, a, d),
           NEW G, Text(G), Range(F) \subseteq Range(G), NEW isCut
    PROVE  ListsOK(B, G, <<>>, L, S, a \/ isCut \/ ~d, d)
<1>1. ASSUME ~(a \/ isCut \/ ~d)
      PROVE  S \subseteq Range(G) \cup {b \in Range(<<>>) \cup Range(L) : ~d}
  BY <1>1 DEF ListsOK
<1> QED BY <1>1, EmptyList, Zenon DEF ListsOK

\* The program ends and starts again: K is what is left of the saved lockboxes.
LEMMA RestartOK ==
    ASSUME NEW G, Text(G), NEW K, K \subseteq Range(G), NEW x, NEW d
    PROVE  ListsOK(<<>>, G, <<>>, G, K, x, d)
<1>1. K \subseteq Range(<<>>) \cup Range(G)
  OBVIOUS
<1>2. K \subseteq Range(G) \cup {b \in Range(<<>>) \cup Range(G) : ~d}
  OBVIOUS
<1> QED BY <1>1, <1>2, EmptyList, Zenon DEF ListsOK

-----------------------------------------------------------------------------
\* The lists of the computer c change, those of the others do not.
LEMMA ChangeKeeps ==
    ASSUME BoxInv, NEW c \in Computers, NEW B, NEW F, NEW O, NEW L, NEW S, NEW a,
           ListsOK(B, F, O, L, S, a, c \in w.daemon),
           boxes' = [boxes EXCEPT ![c] = B], file' = [file EXCEPT ![c] = F],
           textOut' = [textOut EXCEPT ![c] = O], loading' = [loading EXCEPT ![c] = L],
           saved' = [saved EXCEPT ![c] = S], apart' = [apart EXCEPT ![c] = a],
           UNCHANGED w, IsFun(mail'), "boxes" \in DOMAIN mail', \A b \in mail'.boxes : Ordered(b)
    PROVE  BoxInv'
<1>1. ASSUME NEW f, IsFun(f), DOMAIN f = Computers, NEW v
      PROVE  LET g == [f EXCEPT ![c] = v]
             IN  IsFun(g) /\ DOMAIN g = Computers /\ g[c] = v /\ \A d \in Computers : d # c => g[d] = f[d]
  BY <1>1, Zenon DEF IsFun
<1>2. /\ IsFun(boxes) /\ IsFun(file) /\ IsFun(textOut) /\ IsFun(loading) /\ IsFun(saved) /\ IsFun(apart)
      /\ DOMAIN boxes = Computers /\ DOMAIN file = Computers /\ DOMAIN textOut = Computers
      /\ DOMAIN loading = Computers /\ DOMAIN saved = Computers /\ DOMAIN apart = Computers
  BY DEF BoxInv
<1>3. /\ IsFun(boxes') /\ DOMAIN boxes' = Computers /\ boxes'[c] = B
      /\ \A d \in Computers : d # c => boxes'[d] = boxes[d]
  BY <1>1, <1>2, Zenon
<1>4. /\ IsFun(file') /\ DOMAIN file' = Computers /\ file'[c] = F
      /\ \A d \in Computers : d # c => file'[d] = file[d]
  BY <1>1, <1>2, Zenon
<1>5. /\ IsFun(textOut') /\ DOMAIN textOut' = Computers /\ textOut'[c] = O
      /\ \A d \in Computers : d # c => textOut'[d] = textOut[d]
  BY <1>1, <1>2, Zenon
<1>6. /\ IsFun(loading') /\ DOMAIN loading' = Computers /\ loading'[c] = L
      /\ \A d \in Computers : d # c => loading'[d] = loading[d]
  BY <1>1, <1>2, Zenon
<1>7. /\ IsFun(saved') /\ DOMAIN saved' = Computers /\ saved'[c] = S
      /\ \A d \in Computers : d # c => saved'[d] = saved[d]
  BY <1>1, <1>2, Zenon
<1>8. /\ IsFun(apart') /\ DOMAIN apart' = Computers /\ apart'[c] = a
      /\ \A d \in Computers : d # c => apart'[d] = apart[d]
  BY <1>1, <1>2, Zenon
<1>9. ASSUME NEW d \in Computers
      PROVE  ListsOK(boxes'[d], file'[d], textOut'[d], loading'[d], saved'[d], apart'[d], d \in w'.daemon)
  <2>1. ListsOK(boxes[d], file[d], textOut[d], loading[d], saved[d], apart[d], d \in w.daemon)
    BY DEF BoxInv
  <2> QED BY <1>3, <1>4, <1>5, <1>6, <1>7, <1>8, <2>1, Zenon
<1>10. w' \in Worlds
  BY DEF BoxInv
<1> QED BY <1>3, <1>4, <1>5, <1>6, <1>7, <1>8, <1>9, <1>10, Zenon DEF BoxInv

\* What BoxInv says of one computer, whose lists are as they are.
LEMMA OneComputer ==
    ASSUME BoxInv, NEW c \in Computers
    PROVE  /\ ListsOK(boxes[c], file[c], textOut[c], loading[c], saved[c], apart[c], c \in w.daemon)
           /\ Listed(boxes[c]) /\ Text(file[c]) /\ Text(textOut[c]) /\ Text(loading[c])
           /\ saved[c] \subseteq Range(boxes[c]) \cup Range(loading[c])
           /\ boxes = [boxes EXCEPT ![c] = boxes[c]] /\ file = [file EXCEPT ![c] = file[c]]
           /\ textOut = [textOut EXCEPT ![c] = textOut[c]] /\ loading = [loading EXCEPT ![c] = loading[c]]
           /\ saved = [saved EXCEPT ![c] = saved[c]] /\ apart = [apart EXCEPT ![c] = apart[c]]
<1>1. ListsOK(boxes[c], file[c], textOut[c], loading[c], saved[c], apart[c], c \in w.daemon)
  BY DEF BoxInv
<1>2. /\ boxes = [boxes EXCEPT ![c] = boxes[c]] /\ file = [file EXCEPT ![c] = file[c]]
      /\ textOut = [textOut EXCEPT ![c] = textOut[c]] /\ loading = [loading EXCEPT ![c] = loading[c]]
      /\ saved = [saved EXCEPT ![c] = saved[c]] /\ apart = [apart EXCEPT ![c] = apart[c]]
  BY DEF BoxInv, IsFun
<1> QED BY <1>1, <1>2 DEF ListsOK

\* A step that exports no lockbox.
LEMMA MailKept ==
    ASSUME BoxInv, UNCHANGED mail
    PROVE  IsFun(mail') /\ "boxes" \in DOMAIN mail' /\ \A b \in mail'.boxes : Ordered(b)
  BY DEF BoxInv

\* Text blocks of lockboxes have their keys in order.
LEMMA BoxSent ==
    ASSUME BoxInv, NEW b, Ordered(b), Send("boxes", b)
    PROVE  IsFun(mail') /\ "boxes" \in DOMAIN mail' /\ \A d \in mail'.boxes : Ordered(d)
<1>1. IsFun(mail) /\ "boxes" \in DOMAIN mail /\ \A d \in mail.boxes : Ordered(d)
  BY DEF BoxInv
<1>2. mail' = [mail EXCEPT !["boxes"] = @ \cup {b}]
  BY DEF Send
<1>3. IsFun(mail') /\ "boxes" \in DOMAIN mail' /\ mail'.boxes = mail.boxes \cup {b}
  BY <1>1, <1>2, Zenon DEF IsFun
<1> QED BY <1>1, <1>3

\* The editor and createlockbox put the keys into the order of the script.
LEMMA TypedOrdered ==
    ASSUME BoxInv, NEW typed \in w.typed
    PROVE  Ordered([typed EXCEPT !.keys = calcLockboxID(typed).keys])
<1>1. typed = [m |-> typed.m, keys |-> typed.keys] /\ InOrder(InOrder(typed.keys)) = InOrder(typed.keys)
  BY KeysAssumption DEF BoxInv
<1>2. calcLockboxID(typed).keys = InOrder(typed.keys)
  BY DEF calcLockboxID, pubkeylist_to_multisig_script
<1>3. [typed EXCEPT !.keys = calcLockboxID(typed).keys].keys = InOrder(typed.keys)
  BY <1>1, <1>2
<1> QED BY <1>1, <1>3 DEF Ordered

\* ArmoryQt changes its list and opens the file.
LEMMA OpenKeeps ==
    ASSUME BoxInv, NEW c \in Computers, c \notin w.daemon, textOut[c] = <<>>,
           NEW R, Listed(R), boxes' = [boxes EXCEPT ![c] = R], OpenFile(c, R),
           NEW L, Text(L), loading' = [loading EXCEPT ![c] = L],
           NEW S, S \subseteq Range(R) \cup Range(L), saved' = [saved EXCEPT ![c] = S],
           UNCHANGED w, IsFun(mail'), "boxes" \in DOMAIN mail', \A b \in mail'.boxes : Ordered(b)
    PROVE  BoxInv'
<1>1. /\ Text(file[c]) /\ file = [file EXCEPT ![c] = file[c]] /\ apart = [apart EXCEPT ![c] = apart[c]]
      /\ textOut = [textOut EXCEPT ![c] = <<>>]
  BY OneComputer
<1>2. /\ ListsOK(R, <<>>, R, L, S, apart[c], c \in w.daemon)
      /\ ListsOK(R, file[c], <<>>, L, S, TRUE, c \in w.daemon)
  BY <1>1, OpenOK
<1>3. CASE file' = [file EXCEPT ![c] = <<>>] /\ textOut' = [textOut EXCEPT ![c] = R] /\ UNCHANGED apart
  <2>1. apart' = [apart EXCEPT ![c] = apart[c]]
    BY <1>1, <1>3
  <2> QED BY <1>2, <1>3, <2>1, ChangeKeeps, Zenon
<1>4. CASE apart' = [apart EXCEPT ![c] = TRUE] /\ UNCHANGED <<file, textOut>>
  <2>1. file' = [file EXCEPT ![c] = file[c]] /\ textOut' = [textOut EXCEPT ![c] = <<>>]
    BY <1>1, <1>4
  <2> QED BY <1>2, <1>4, <2>1, ChangeKeeps, Zenon
<1> QED BY <1>3, <1>4, Zenon DEF OpenFile

\* A lockbox is typed in or imported.
LEMMA SavingKeeps ==
    ASSUME BoxInv, NEW c \in Computers, c \notin w.daemon, Idle(c), NEW b, Ordered(b),
           updateOrAddLockbox(c, b), Keeps(c, b), UNCHANGED <<w, loading>>,
           UNCHANGED mail \/ Send("boxes", b)
    PROVE  BoxInv'
<1> DEFINE S == {d \in saved[c] : calcLockboxID(d) # calcLockboxID(b)} \cup {b}
           R == Updated(c, b)
<1>1. /\ Listed(boxes[c]) /\ loading = [loading EXCEPT ![c] = loading[c]] /\ Text(loading[c])
      /\ saved[c] \subseteq Range(boxes[c]) \cup Range(loading[c])
  BY OneComputer
<1>2. Listed(R) /\ Range(R) = Range(boxes[c]) \cup {b}
  BY <1>1, UpdatedList
<1>3. textOut[c] = <<>> /\ boxes' = [boxes EXCEPT ![c] = R] /\ OpenFile(c, R)
  BY Zenon DEF Idle, updateOrAddLockbox
<1>4. saved' = [saved EXCEPT ![c] = S]
  BY DEF Keeps, BoxInv
<1> HIDE DEF R
<1>5. S \subseteq Range(R) \cup Range(loading[c])
  BY <1>1, <1>2
<1> HIDE DEF S
<1>6. IsFun(mail') /\ "boxes" \in DOMAIN mail' /\ \A d \in mail'.boxes : Ordered(d)
  BY BoxSent, MailKept, Zenon
<1>7. loading' = [loading EXCEPT ![c] = loading[c]]
  BY <1>1
<1> QED BY <1>1, <1>2, <1>3, <1>4, <1>5, <1>6, <1>7, OpenKeeps, Zenon

\* The editor, the import and the removal of a lockbox.
LEMMA BoxDefinitions ==
    ASSUME BoxInv, NEW c \in Computers, c \notin w.daemon, Definitions(c)
    PROVE  BoxInv'
<1>1. ASSUME NEW typed \in w.typed, doContinueEditor(c, typed) PROVE BoxInv'
  <2> DEFINE b == [typed EXCEPT !.keys = calcLockboxID(typed).keys]
  <2>1. /\ updateOrAddLockbox(c, b) /\ Keeps(c, b) /\ Send("boxes", b) /\ Idle(c)
        /\ UNCHANGED <<w, loading>>
    BY <1>1, Zenon DEF doContinueEditor
  <2>2. Ordered(b)
    BY TypedOrdered
  <2> HIDE DEF b
  <2> QED BY <2>1, <2>2, SavingKeeps, Zenon
<1>2. ASSUME NEW b \in mail.boxes, importLockbox(c, b) PROVE BoxInv'
  <2>1. updateOrAddLockbox(c, b) /\ Keeps(c, b) /\ Idle(c) /\ UNCHANGED <<w, loading, mail>>
    BY <1>2, Zenon DEF importLockbox
  <2>2. Ordered(b)
    BY <1>2 DEF BoxInv
  <2> QED BY <2>1, <2>2, SavingKeeps, Zenon
<1>3. ASSUME NEW i \in DOMAIN boxes[c], removeLockbox(c, i) PROVE BoxInv'
  <2> DEFINE R == SubSeq(boxes[c], 1, i - 1) \o SubSeq(boxes[c], i + 1, Len(boxes[c]))
             S == saved[c] \ {boxes[c][i]}
  <2>1. /\ textOut[c] = <<>> /\ boxes' = [boxes EXCEPT ![c] = R] /\ OpenFile(c, R)
        /\ saved' = [saved EXCEPT ![c] = @ \ {boxes[c][i]}] /\ UNCHANGED <<w, loading, mail>>
    BY <1>3, Zenon DEF removeLockbox, Idle
  <2>2. /\ Listed(boxes[c]) /\ loading = [loading EXCEPT ![c] = loading[c]] /\ Text(loading[c])
        /\ saved[c] \subseteq Range(boxes[c]) \cup Range(loading[c])
    BY OneComputer
  <2>3. Listed(R) /\ Range(boxes[c]) \ {boxes[c][i]} \subseteq Range(R)
    BY <2>2, RemoveList
  <2> HIDE DEF R
  <2>4. S \subseteq Range(R) \cup Range(loading[c]) /\ saved' = [saved EXCEPT ![c] = S]
    BY <2>1, <2>2, <2>3 DEF BoxInv
  <2> HIDE DEF S
  <2>5. UNCHANGED w /\ loading' = [loading EXCEPT ![c] = loading[c]]
    BY <2>1, <2>2
  <2>6. IsFun(mail') /\ "boxes" \in DOMAIN mail' /\ \A d \in mail'.boxes : Ordered(d)
    BY <2>1, MailKept
  <2> QED BY <2>1, <2>2, <2>3, <2>4, <2>5, <2>6, OpenKeeps, Zenon
<1> QED BY <1>1, <1>2, <1>3, Zenon DEF Definitions

\* armoryd opens the file to append a lockbox.
LEMMA BoxCreated ==
    ASSUME BoxInv, NEW c \in Computers, c \in w.daemon, NEW typed \in w.typed, createlockbox(c, typed)
    PROVE  BoxInv'
<1> DEFINE b == [typed EXCEPT !.keys = calcLockboxID(typed).keys]
<1>1. /\ lockboxIDMap(c, b) = 0 /\ textOut[c] = <<>> /\ textOut' = [textOut EXCEPT ![c] = <<b>>]
      /\ UNCHANGED <<w, boxes, file, apart, loading, mail, saved>>
  BY Zenon DEF createlockbox, Idle
<1>2. Ordered(b)
  BY TypedOrdered
<1> HIDE DEF b
<1>3. \A d \in Range(boxes[c]) : calcLockboxID(d) # calcLockboxID(b)
  <2> SUFFICES ASSUME NEW i \in DOMAIN boxes[c], calcLockboxID(boxes[c][i]) = calcLockboxID(b) PROVE FALSE
    BY DEF Range
  <2>1. lockboxIDMap(c, b) \in DOMAIN boxes[c]
    BY DEF lockboxIDMap
  <2>2. Listed(boxes[c])
    BY OneComputer
  <2> QED BY <1>1, <2>1, <2>2 DEF Listed
<1>4. ListsOK(boxes[c], file[c], <<>>, loading[c], saved[c], apart[c], c \in w.daemon)
  BY <1>1, OneComputer
<1>5. ListsOK(boxes[c], file[c], <<b>>, loading[c], saved[c], apart[c], c \in w.daemon)
  BY <1>2, <1>3, <1>4, CreateOK
<1>6. /\ boxes' = [boxes EXCEPT ![c] = boxes[c]] /\ file' = [file EXCEPT ![c] = file[c]]
      /\ loading' = [loading EXCEPT ![c] = loading[c]] /\ saved' = [saved EXCEPT ![c] = saved[c]]
      /\ apart' = [apart EXCEPT ![c] = apart[c]]
  BY <1>1, OneComputer, Zenon
<1>7. UNCHANGED w /\ IsFun(mail') /\ "boxes" \in DOMAIN mail' /\ \A d \in mail'.boxes : Ordered(d)
  BY <1>1, MailKept
<1>8. textOut' = [textOut EXCEPT ![c] = <<b>>]
  BY <1>1
<1> QED BY <1>5, <1>6, <1>7, <1>8, ChangeKeeps

\* The text has been written.
LEMMA BoxWritten == ASSUME BoxInv, NEW c \in Computers, WriteFile(c) PROVE BoxInv'
<1> DEFINE n == Len(textOut[c])
           F == Holds(c, n)
           a == apart[c] /\ c \in w.daemon
<1>1. /\ ListsOK(boxes[c], file[c], textOut[c], loading[c], saved[c], apart[c], c \in w.daemon)
      /\ Listed(boxes[c]) /\ Text(file[c]) /\ Text(textOut[c]) /\ Text(loading[c])
  BY OneComputer
<1>2. n \in 0 .. n
  BY <1>1 DEF Text
<1>3. Text(F) /\ (~a => Range(F) = Range(file[c]) \cup Range(textOut[c])) /\ Range(file[c]) \subseteq Range(F)
  BY <1>1, <1>2, HoldsText
<1>4. /\ textOut[c] # <<>> /\ file' = [file EXCEPT ![c] = F] /\ textOut' = [textOut EXCEPT ![c] = <<>>]
      /\ apart' = [apart EXCEPT ![c] = a] /\ UNCHANGED <<w, loading>>
      /\ loading' = [loading EXCEPT ![c] = loading[c]]
  <2>1. apart' = [apart EXCEPT ![c] = a]
    BY Zenon DEF WriteFile, BoxInv
  <2> QED BY <2>1, OneComputer, Zenon DEF WriteFile
<1> HIDE DEF F, n
<1>5. CASE c \notin w.daemon
  <2>1. UNCHANGED <<boxes, saved, mail>>
    BY <1>5, Zenon DEF WriteFile
  <2>2. Range(F) = Range(boxes[c]) \cup Range(file[c])
    BY <1>1, <1>3, <1>4, <1>5 DEF ListsOK
  <2>3. saved[c] \subseteq Range(F) \cup {b \in Range(<<>>) \cup Range(loading[c]) : c \notin w.daemon}
    BY <1>1, <1>5, <2>2 DEF ListsOK
  <2> HIDE DEF a
  <2>4. ListsOK(boxes[c], F, <<>>, loading[c], saved[c], a, c \in w.daemon)
    BY <1>1, <1>3, <2>3, EmptyList, Zenon DEF ListsOK
  <2>5. boxes' = [boxes EXCEPT ![c] = boxes[c]] /\ saved' = [saved EXCEPT ![c] = saved[c]]
    BY <2>1, OneComputer, Zenon
  <2>6. UNCHANGED w /\ IsFun(mail') /\ "boxes" \in DOMAIN mail' /\ \A d \in mail'.boxes : Ordered(d)
    BY <1>4, <2>1, MailKept
  <2> QED BY <1>4, <2>4, <2>5, <2>6, ChangeKeeps, Zenon
<1>6. CASE c \in w.daemon
  <2>1. PICK b : textOut[c] = <<b>> /\ \A d \in Range(boxes[c]) : calcLockboxID(d) # calcLockboxID(b)
    BY <1>1, <1>4, <1>6 DEF ListsOK
  <2> DEFINE R == Append(boxes[c], b)
             S == {d \in saved[c] : calcLockboxID(d) # calcLockboxID(b)} \cup {b}
  <2>2. textOut[c][1] = b /\ 1 \in DOMAIN textOut[c] /\ Range(textOut[c]) = {b}
    BY <2>1 DEF Range
  <2>3. Ordered(b)
    BY <1>1, <2>2 DEF Text
  <2>4. Listed(R) /\ Range(R) = Range(boxes[c]) \cup {b}
    BY <1>1, <2>1, <2>3, AppendList
  <2>5. boxes' = [boxes EXCEPT ![c] = R]
    <3>1. boxes' = [boxes EXCEPT ![c] = boxes[c] \o textOut[c]]
      BY <1>6, Zenon DEF WriteFile, BoxInv
    <3>2. boxes[c] \o textOut[c] = R
      BY <1>1, <2>1 DEF Listed
    <3> QED BY <3>1, <3>2
  <2>6. saved' = [saved EXCEPT ![c] = S]
    BY <1>6, <2>2, Zenon DEF WriteFile, Keeps, BoxInv
  <2>7. Send("boxes", b)
    BY <1>6, <2>2, Zenon DEF WriteFile
  <2> HIDE DEF R
  <2>8. S \subseteq Range(R) \cup Range(loading[c])
    BY <1>1, <2>4 DEF ListsOK
  <2>9. a \/ S \subseteq Range(F) \cup {d \in Range(<<>>) \cup Range(loading[c]) : c \notin w.daemon}
    <3>1. ASSUME ~a PROVE S \subseteq Range(F)
      BY <1>1, <1>3, <1>6, <2>2, <3>1 DEF ListsOK
    <3> QED BY <3>1
  <2> HIDE DEF S, a
  <2>10. ListsOK(R, F, <<>>, loading[c], S, a, c \in w.daemon)
    BY <1>1, <1>3, <2>4, <2>8, <2>9, EmptyList, Zenon DEF ListsOK
  <2>11. UNCHANGED w /\ IsFun(mail') /\ "boxes" \in DOMAIN mail' /\ \A d \in mail'.boxes : Ordered(d)
    BY <1>4, <2>3, <2>7, BoxSent
  <2> QED BY <1>4, <2>5, <2>6, <2>10, <2>11, ChangeKeeps, Zenon
<1> QED BY <1>5, <1>6

\* The program ends and starts again, or cannot write its file.
LEMMA BoxInterrupted == ASSUME BoxInv, NEW c \in Computers, Interrupted(c) PROVE BoxInv'
<1>1. PICK k \in 0 .. Len(textOut[c]), isCut \in BOOLEAN : Restart(c, k, isCut) \/ WriteFails(c, k, isCut)
  BY Zenon DEF Interrupted
<1> DEFINE F == Holds(c, k)
<1>2. ListsOK(boxes[c], file[c], textOut[c], loading[c], saved[c], apart[c], c \in w.daemon)
  BY OneComputer
<1>3. Text(F) /\ Range(file[c]) \subseteq Range(F)
  BY OneComputer, HoldsText
<1>4. CASE WriteFails(c, k, isCut)
  <2> DEFINE a == apart[c] \/ isCut \/ ~(c \in w.daemon)
  <2>1. /\ file' = [file EXCEPT ![c] = F] /\ textOut' = [textOut EXCEPT ![c] = <<>>]
        /\ apart' = [apart EXCEPT ![c] = a] /\ UNCHANGED <<w, boxes, loading, mail, saved>>
    BY <1>4, Zenon DEF WriteFails, BoxInv
  <2> HIDE DEF F
  <2>2. ListsOK(boxes[c], F, <<>>, loading[c], saved[c], a, c \in w.daemon)
    BY <1>2, <1>3, FailsOK, Zenon
  <2> HIDE DEF a
  <2>3. /\ boxes' = [boxes EXCEPT ![c] = boxes[c]] /\ loading' = [loading EXCEPT ![c] = loading[c]]
        /\ saved' = [saved EXCEPT ![c] = saved[c]]
    BY <2>1, OneComputer, Zenon
  <2>4. UNCHANGED w /\ IsFun(mail') /\ "boxes" \in DOMAIN mail' /\ \A d \in mail'.boxes : Ordered(d)
    BY <2>1, MailKept
  <2> QED BY <2>1, <2>2, <2>3, <2>4, ChangeKeeps, Zenon
<1>5. CASE Restart(c, k, isCut)
  <2> DEFINE a == c \in w.daemon /\ (apart[c] \/ isCut)
             S == IF Damaged(c) THEN saved[c] \cap Range(F) ELSE saved[c]
  <2>1. /\ file' = [file EXCEPT ![c] = F] /\ textOut' = [textOut EXCEPT ![c] = <<>>]
        /\ apart' = [apart EXCEPT ![c] = a] /\ boxes' = [boxes EXCEPT ![c] = <<>>]
        /\ loading' = [loading EXCEPT ![c] = F] /\ saved' = [saved EXCEPT ![c] = S]
        /\ UNCHANGED <<w, mail>>
    BY <1>5, Zenon DEF Restart, BoxInv
  <2> HIDE DEF F
  <2>2. ~Damaged(c) => ~apart[c] /\ (c \in w.daemon \/ (textOut[c] = <<>> /\ loading[c] = <<>>))
    BY DEF Damaged
  <2>3. S \subseteq Range(F)
    BY <1>2, <1>3, <2>2, EmptyList DEF ListsOK
  <2> HIDE DEF a, S
  <2>4. UNCHANGED w /\ IsFun(mail') /\ "boxes" \in DOMAIN mail' /\ \A d \in mail'.boxes : Ordered(d)
    BY <2>1, MailKept
  <2>5. ListsOK(<<>>, F, <<>>, F, S, a, c \in w.daemon)
    BY <1>3, <2>3, RestartOK, Zenon
  <2> QED BY <2>1, <2>4, <2>5, ChangeKeeps, Zenon
<1> QED BY <1>1, <1>4, <1>5

\* One more lockbox of the file is read: ArmoryQt writes the list so far.
LEMMA BoxLoaded == ASSUME BoxInv, NEW c \in Computers, loadLockbox(c) PROVE BoxInv'
<1> DEFINE b == Head(loading[c])
           L == Tail(loading[c])
           R == Updated(c, b)
<1>1. /\ ListsOK(boxes[c], file[c], textOut[c], loading[c], saved[c], apart[c], c \in w.daemon)
      /\ Listed(boxes[c]) /\ Text(loading[c]) /\ saved[c] \subseteq Range(boxes[c]) \cup Range(loading[c])
  BY OneComputer
<1>2. loading[c] # <<>> /\ textOut[c] = <<>> /\ UNCHANGED <<w, mail, saved>>
  BY Zenon DEF loadLockbox
<1>3. Text(L) /\ Range(loading[c]) = {b} \cup Range(L) /\ Ordered(b)
  BY <1>1, <1>2, TailText
<1>4. loading' = [loading EXCEPT ![c] = L] /\ saved' = [saved EXCEPT ![c] = saved[c]]
  BY <1>2, OneComputer, Zenon DEF loadLockbox, BoxInv
<1>5. boxes' = [boxes EXCEPT ![c] = R] /\ (c \notin w.daemon => OpenFile(c, R))
      /\ (c \in w.daemon => UNCHANGED <<file, textOut, apart>>)
  BY Zenon DEF loadLockbox, updateOrAddLockbox, disk
<1> HIDE DEF b, L
<1>6. Listed(R) /\ Range(R) = Range(boxes[c]) \cup {b}
  BY <1>1, <1>3, UpdatedList
<1> HIDE DEF R
<1>7. saved[c] \subseteq Range(R) \cup Range(L)
  BY <1>1, <1>3, <1>6
<1>8. UNCHANGED w /\ IsFun(mail') /\ "boxes" \in DOMAIN mail' /\ \A d \in mail'.boxes : Ordered(d)
  BY <1>2, MailKept
<1>9. CASE c \notin w.daemon
  BY <1>2, <1>3, <1>4, <1>5, <1>6, <1>7, <1>8, <1>9, OpenKeeps, Zenon
<1>10. CASE c \in w.daemon
  <2>1. apart[c] \/ saved[c] \subseteq Range(file[c]) \cup {d \in Range(<<>>) \cup Range(L) : c \notin w.daemon}
    BY <1>1, <1>10 DEF ListsOK
  <2>2. ListsOK(R, file[c], <<>>, L, saved[c], apart[c], c \in w.daemon)
    BY <1>1, <1>3, <1>6, <1>7, <2>1, EmptyList, Zenon DEF ListsOK
  <2>3. /\ file' = [file EXCEPT ![c] = file[c]] /\ textOut' = [textOut EXCEPT ![c] = <<>>]
        /\ apart' = [apart EXCEPT ![c] = apart[c]]
    BY <1>2, <1>5, <1>10, OneComputer
  <2> QED BY <1>4, <1>5, <1>8, <2>2, <2>3, ChangeKeeps, Zenon
<1> QED BY <1>9, <1>10

\* All other steps leave the lists alone and send no lockbox.
LEMMA BoxOthers ==
    ASSUME BoxInv, UNCHANGED <<w, store>>, UNCHANGED mail \/ \E kind, b : kind # "boxes" /\ Send(kind, b)
    PROVE  BoxInv'
<1>1. UNCHANGED <<w, boxes, file, textOut, loading, saved, apart>>
  BY DEF store, disk
<1>2. IsFun(mail) /\ "boxes" \in DOMAIN mail /\ \A d \in mail.boxes : Ordered(d)
  BY DEF BoxInv
<1>3. IsFun(mail') /\ "boxes" \in DOMAIN mail' /\ mail'.boxes = mail.boxes
  <2>1. ASSUME NEW kind, NEW b, kind # "boxes", Send(kind, b)
        PROVE  IsFun(mail') /\ "boxes" \in DOMAIN mail' /\ mail'.boxes = mail.boxes
    BY <1>2, <2>1, Zenon DEF Send, IsFun
  <2> QED BY <1>2, <2>1, Zenon
<1> QED BY <1>1, <1>2, <1>3, Zenon DEF BoxInv

\* The notes, the transactions and the collectors.
LEMMA BoxDialogs ==
    ASSUME BoxInv, NEW c,
           \/ Notes(c) \/ NewTransactions(c) \/ Collecting(c)
           \/ \E u : signasciitransaction(c, u) \/ sendasciitransaction(c, u)
    PROVE  BoxInv'
<1> DEFINE Sent == UNCHANGED mail \/ (\E b : Send("notes", b)) \/ (\E b : Send("collectors", b))
<1>1. "notes" # "boxes" /\ "collectors" # "boxes"
  OBVIOUS
<1>2. ASSUME Notes(c) PROVE UNCHANGED <<w, store>> /\ Sent
  BY <1>2, Zenon DEF Notes, doContinueProm, createPromAdd, doMergeProm, importNote, mergeNotesCreateUSTX
<1>3. ASSUME NewTransactions(c) PROVE UNCHANGED <<w, store>> /\ Sent
  BY <1>3, Zenon DEF NewTransactions, doSpend, createOfflineTx, sendNow
<1>4. ASSUME Collecting(c) PROVE UNCHANGED <<w, store>> /\ Sent
  BY <1>4, Zenon DEF Collecting, doReview, doImport, processUSTX, doSignLockbox, doSignWallet, doExport,
                     doBroadcast, closeDialog, signTx, broadTx
<1>5. ASSUME NEW u, signasciitransaction(c, u) \/ sendasciitransaction(c, u)
      PROVE  UNCHANGED <<w, store>> /\ Sent
  BY <1>5, Zenon DEF signasciitransaction, sendasciitransaction
<1> QED BY <1>1, <1>2, <1>3, <1>4, <1>5, BoxOthers, Zenon

\* Every computer starts with the lockboxes of its file.
LEMMA BoxInit == Init => BoxInv
<1> SUFFICES ASSUME Init PROVE BoxInv
  OBVIOUS
<1>1. /\ w \in Worlds /\ boxes = [c \in Computers |-> w.boxes] /\ file = boxes
      /\ textOut = [c \in Computers |-> <<>>] /\ apart = [c \in Computers |-> FALSE]
      /\ loading = [c \in Computers |-> <<>>] /\ saved = [c \in Computers |-> Range(w.boxes)]
      /\ mail = [boxes |-> {}, notes |-> {}, collectors |-> {}]
  BY DEF Init
<1>2. Listed(w.boxes)
  BY <1>1, BoxesAssumption, Zenon DEF Listed, Ordered, Range
<1>3. \A d : ListsOK(w.boxes, w.boxes, <<>>, <<>>, Range(w.boxes), FALSE, d)
  BY <1>2, ListedText, EmptyList DEF ListsOK
<1>4. IsFun(mail) /\ "boxes" \in DOMAIN mail /\ mail.boxes = {}
  BY <1>1 DEF IsFun
<1>5. IsFun(boxes) /\ IsFun(file) /\ IsFun(textOut) /\ IsFun(loading) /\ IsFun(saved) /\ IsFun(apart)
  BY <1>1 DEF IsFun
<1>6. /\ DOMAIN boxes = Computers /\ DOMAIN file = Computers /\ DOMAIN textOut = Computers
      /\ DOMAIN loading = Computers /\ DOMAIN saved = Computers /\ DOMAIN apart = Computers
  BY <1>1
<1>7. \A c \in Computers :
         ListsOK(boxes[c], file[c], textOut[c], loading[c], saved[c], apart[c], c \in w.daemon)
  BY <1>1, <1>3, Zenon
<1> QED BY <1>1, <1>4, <1>5, <1>6, <1>7, Zenon DEF BoxInv

\* Every step of every computer.
LEMMA BoxNext == ASSUME BoxInv, [Next]_vars PROVE BoxInv'
<1>1. CASE UNCHANGED vars
  BY <1>1, BoxOthers, Zenon DEF vars, store, disk
<1>2. ASSUME NEW c \in Computers, c \in w.daemon, Daemon(c) PROVE BoxInv'
  BY <1>2, BoxCreated, BoxDialogs, Zenon DEF Daemon
<1> QED BY <1>1, <1>2, BoxDefinitions, BoxWritten, BoxInterrupted, BoxLoaded, BoxDialogs, Zenon DEF Next

\* On every computer the list of lockboxes has no two with one ID and all have
\* their keys in the order of the script.  While ArmoryQt writes, the file is empty
\* and all of the list is still to come; while armoryd appends, what comes is new.
\* What the user saved is in the list or still to be read into it, and unless the
\* last write failed it is in the file or on its way there.  This holds through
\* writes that fail at any point and programs that end at any point
\* (writeLockboxesFile, updateOrAddLockbox, removeLockbox, createlockbox).
THEOREM ListsAreWhole == Spec => []BoxInv
<1>1. BoxInv /\ [Next]_vars => BoxInv'
  BY BoxNext
<1> QED BY BoxInit, <1>1, PTL DEF Spec

\* The keys that are shown and stored are in the order of the script, and a
\* lockbox that the user saved stays in the list and, unless a write failed, in
\* the file, through all that interrupts writing or reading it (LockboxesKept).
THEOREM LockboxesAlwaysKept == Spec => []LockboxesKept
<1>1. BoxInv => LockboxesKept
  <2> SUFFICES ASSUME BoxInv, NEW c \in Computers
               PROVE  /\ \A b \in Range(boxes[c]) : b.keys = binScript(b).keys
                      /\ saved[c] \subseteq Range(boxes[c]) \cup Range(loading[c])
                      /\ ~apart[c] => saved[c] \subseteq Range(file[c])
                            \cup {b \in Range(textOut[c]) \cup Range(loading[c]) : c \notin w.daemon}
    BY Zenon DEF LockboxesKept, KeysInScriptOrder, SavedBoxesKept
  <2>1. ListsOK(boxes[c], file[c], textOut[c], loading[c], saved[c], apart[c], c \in w.daemon)
    BY DEF BoxInv
  <2>2. \A b \in Range(boxes[c]) : b.keys = InOrder(b.keys)
    BY <2>1 DEF ListsOK, Listed, Ordered, Range
  <2>3. \A b : binScript(b).keys = InOrder(b.keys)
    BY DEF binScript, pubkeylist_to_multisig_script
  <2>4. /\ saved[c] \subseteq Range(boxes[c]) \cup Range(loading[c])
        /\ ~apart[c] => saved[c] \subseteq Range(file[c])
              \cup {b \in Range(textOut[c]) \cup Range(loading[c]) : c \notin w.daemon}
    BY <2>1, Zenon DEF ListsOK
  <2> QED BY <2>2, <2>3, <2>4
<1> QED BY ListsAreWhole, <1>1, PTL

=============================================================================
