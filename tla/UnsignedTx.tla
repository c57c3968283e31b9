----------------------------- MODULE UnsignedTx -----------------------------
(***************************************************************************)
(* Transactions that still collect signatures: UnsignedTxInput and         *)
(* UnsignedTransaction of armoryengine/Transaction.py.  An input of M-of-N *)
(* keys has a slot for each key, in the order of its script; a single-key  *)
(* input is 1-of-1.  Keys are numbers, compared as the code compares their *)
(* bytes.  A signature is what the signer committed to.                    *)
(***************************************************************************)
EXTENDS Integers, Sequences, FiniteSets, FiniteSetsExt, TLC

NoSig == [key |-> 0]

\* Scripts: a public key's own, and the two forms of an M-of-N script.
KeyScript(k) == [m |-> 1, keys |-> <<k>>, form |-> "key"]

InOrder(keys) == SortSeq(keys, LAMBDA a, b : a < b)

pubkeylist_to_multisig_script(keys, m, form) ==
    [m |-> m, keys |-> InOrder(keys), form |-> form]

\* An outpoint names an output of a transaction [ins, outs].
Txo(op) == op.tx.outs[op.n]

SumValues(outs)   == FoldFunction(LAMBDA o, sum : sum + o.value, 0, outs)
SumOutpoints(ops) == FoldFunction(LAMBDA op, sum : sum + Txo(op).value, 0, ops)

\* The empty slots of an input.
UnsignedTxInput(op) == [j \in 1..Len(Txo(op).to.keys) |-> NoSig]

\* Raises ValueError unless Covered.
Covered(ops, outs) == SumOutpoints(ops) >= SumValues(outs)
createFromUnsignedTxIO(ops, outs) ==
    [tx   |-> [ins |-> ops, outs |-> outs],
     sigs |-> [i \in 1..Len(ops) |-> UnsignedTxInput(ops[i])]]

calculateFee(tx) == SumOutpoints(tx.ins) - SumValues(tx.outs)

-----------------------------------------------------------------------------
(* Signing                                                                 *)

KeysOfInput(tx, i) == Txo(tx.ins[i]).to.keys
SigsNeeded(tx, i)  == Txo(tx.ins[i]).to.m

\* The first input of the transaction that spends the same output.
InputIndex(tx, i) == CHOOSE j \in 1..Len(tx.ins) :
    tx.ins[j] = tx.ins[i] /\ \A h \in 1..j - 1 : tx.ins[h] # tx.ins[i]

createTxSignature(tx, i, k) == [key |-> k, tx |-> tx, in |-> InputIndex(tx, i)]

\* The signature of each of the keys goes into every slot of that key.
createAndInsertSignature(tx, i, slots, keys) ==
    [j \in DOMAIN slots |->
       IF KeysOfInput(tx, i)[j] \in keys
       THEN createTxSignature(tx, i, KeysOfInput(tx, i)[j]) ELSE slots[j]]

\* A signature for each of the pairs <<input, key>>.
SignAll(u, pairs) ==
    [u EXCEPT !.sigs = [i \in DOMAIN @ |->
       createAndInsertSignature(u.tx, i, @[i], {p[2] : p \in {q \in pairs : q[1] = i}})]]

-----------------------------------------------------------------------------
(* Status and verification                                                 *)

SignedSlots(u, i) == {j \in DOMAIN u.sigs[i] : u.sigs[i][j] # NoSig}

\* evaluateSigningStatus: the best M of the N slots are all signed.
allSigned(u, i) == Cardinality(SignedSlots(u, i)) >= SigsNeeded(u.tx, i)
canBroadcast(u) == \A i \in DOMAIN u.sigs : allSigned(u, i)

verifyTxSignature(tx, i, sig, key) ==
    sig # NoSig /\ sig.key = key /\ sig.tx = tx /\ sig.in = InputIndex(tx, i)

verifyAllSignatures(u, i) ==
    /\ allSigned(u, i)
    /\ Cardinality({j \in SignedSlots(u, i) :
           verifyTxSignature(u.tx, i, u.sigs[i][j], KeysOfInput(u.tx, i)[j])})
          >= SigsNeeded(u.tx, i)

verifySigsAllInputs(u) == \A i \in DOMAIN u.sigs : verifyAllSignatures(u, i)

-----------------------------------------------------------------------------
(* The transaction that is broadcast                                       *)

\* Slots are dropped from the end until no more than m signatures are left.
createSigScript_KeepsExtra(slots, m) == SelectSeq(slots, LAMBDA s : s # NoSig)
createSigScript(slots, m) ==
    LET Count(n) == Cardinality({j \in 1..n : slots[j] # NoSig})
        kept     == CHOOSE n \in 0..Len(slots) :
                       /\ Count(n) <= m
                       /\ \A h \in n + 1..Len(slots) : Count(h) > m
    IN  SelectSeq(SubSeq(slots, 1, kept), LAMBDA s : s # NoSig)

getSignedPyTx(u) ==
    [tx      |-> u.tx,
     scripts |-> [i \in DOMAIN u.sigs |-> createSigScript(u.sigs[i], SigsNeeded(u.tx, i))]]

-----------------------------------------------------------------------------
(* The network's rules: OP_CHECKSIG and OP_CHECKMULTISIG with exactly M    *)
(* signatures in the order of the keys, no output spent twice.             *)

ScriptAccepts(tx, i, sigs) ==
    LET keys == KeysOfInput(tx, i)
    IN  /\ Len(sigs) = SigsNeeded(tx, i)
        /\ \E at \in [1..Len(sigs) -> 1..Len(keys)] :
              /\ \A a, b \in 1..Len(sigs) : a < b => at[a] < at[b]
              /\ \A a \in 1..Len(sigs) : verifyTxSignature(tx, i, sigs[a], keys[at[a]])

NoDoubles(tx) == \A a, b \in DOMAIN tx.ins : a # b => tx.ins[a] # tx.ins[b]

NetworkAccepts(signed, unspent) ==
    /\ NoDoubles(signed.tx)
    /\ Range(signed.tx.ins) \subseteq unspent
    /\ calculateFee(signed.tx) >= 0
    /\ \A i \in DOMAIN signed.scripts : ScriptAccepts(signed.tx, i, signed.scripts[i])

Outpoints(tx) == {[tx |-> tx, n |-> n] : n \in DOMAIN tx.outs}
=============================================================================
