------------------------------ MODULE Recovery ------------------------------
(***************************************************************************)
(* What is in a wallet file, and what the analysis and recovery tool makes *)
(* of it (armoryengine/PyBtcWalletRecovery.py, ProcessWallet): the errors  *)
(* it reports and the file it builds in place of a damaged one.            *)
(*                                                                         *)
(* A private key is named by the chain it belongs to and its place in it;  *)
(* the root key of a wallet has place 0 and the key of chain index i has   *)
(* place i + 1.  A public key, and an address, has the name of its private *)
(* key.  A chain code is 0 (the wallet's) or a corrupted one; extending a  *)
(* key with a corrupted chain code leads into another chain.               *)
(*                                                                         *)
(* A key entry of a file is                                                *)
(*   idx    the chain index; -2 for an imported key, below -2 for a key    *)
(*          that a recovery kept although it is not in the chain           *)
(*   priv, pub, addr, cc      what the entry says                          *)
(*   hash   the address written in front of the entry                      *)
(*   enc    the private key is encrypted                                   *)
(*   later  the private key is to be computed at the next unlocking        *)
(*   raw    "ok", "fixed" (a byte that the checksums correct) or "bad"     *)
(***************************************************************************)
EXTENDS Integers, Sequences, FiniteSets, FiniteSetsExt, SequencesExt, TLC

CONSTANT Pool     \* addresses computed in a new wallet

NoKey == [c |-> <<>>, n |-> 0]

\* A chain that is not that of a wallet: an imported key or a wrong one
Alien(k) == <<<<>>, <<k>>>>
Key(c, n) == [c |-> c, n |-> n]

\* ComputeChainedPrivateKey, ComputeChainedPublicKey
Extend(k, cc, gap) ==
  CASE k = NoKey \/ gap = 0 -> k
    [] cc = 0               -> Key(k.c, k.n + gap)
    [] OTHER                -> Key(Alien(cc), k.n + gap)

Entry(k, i, enc) ==
  [kind |-> "key", idx |-> i, priv |-> k, pub |-> k, addr |-> k, hash |-> k,
   cc |-> 0, enc |-> enc, later |-> FALSE, raw |-> "ok"]
Note(t) == [kind |-> "note", text |-> t]

\* createNewWallet and fillAddressPool: the root and the first n addresses
ChainEntries(root, n, enc, wo) ==
  [i \in 1 .. n |-> [Entry(Key(root, i), i - 1, enc) EXCEPT
                       !.priv = IF wo THEN NoKey ELSE @]]
createNewWallet(root, n, enc) ==
  [root |-> root, wo |-> FALSE, enc |-> enc, body |-> ChainEntries(root, n, enc, FALSE)]

\* createNewWO, createNewWalletFromPKCC: a wallet without private keys
createNewWO(root, n) ==
  [root |-> root, wo |-> TRUE, enc |-> FALSE, body |-> ChainEntries(root, n, FALSE, TRUE)]

\* forkOnlineWallet: the wallet without its private keys
forkOnlineWallet(f) ==
  LET public(e) == IF e.kind = "note" THEN e
                   ELSE [e EXCEPT !.priv = NoKey, !.enc = FALSE, !.later = FALSE,
                                  !.raw = "ok"]
  IN  [f EXCEPT !.wo = TRUE, !.enc = FALSE,
                !.body = [i \in DOMAIN f.body |-> public(f.body[i])]]

hasPrivKey(e) == e.priv # NoKey \/ e.later

Is(kind, f) == SelectSeq(f.body, LAMBDA e : e.kind = kind)
Keys(f) == SelectSeq(Is("key", f), LAMBDA e : e.raw # "bad")
Chain(f) == SelectSeq(Keys(f), LAMBDA e : e.idx > -2)
Imports(f) == SelectSeq(Keys(f), LAMBDA e : e.idx <= -2)

\* A file that readWalletFile loads: every key entry can be read
Loadable(f) == \A e \in Range(Is("key", f)) : e.raw # "bad"

\* addrDict: by chain index, the last entry of an index wins
addrDict(f) ==
  LET ch == Chain(f)
      last(i) == Max({k \in DOMAIN ch : ch[k].idx = i})
  IN  [i \in {e.idx : e \in Range(ch)} |-> ch[last(i)]]

----------------------------------------------------------------------------
(* The chain, in the order of the chain index.  acc holds the entries (a   *)
(* key may get computed), the entries as they should be, the errors, and   *)
(* the entries kept as negative imports.                                   *)

InOrder(D) == [k \in 1 .. Cardinality(D) |-> CHOOSE i \in D : Cardinality({j \in D : j < i}) = k - 1]
Prev(dict, i) == Max({j \in DOMAIN dict : j < i})

PublicErrors(acc, i) ==
  LET e == acc.dict[i]
      p == acc.dict[IF i > 0 THEN Prev(acc.dict, i) ELSE i]
  IN  (IF e.raw = "fixed" THEN {"byteError"} ELSE {}) \cup
      (IF e.cc # acc.dict[0].cc THEN {"chainCodeCorruption"} ELSE {}) \cup
      (IF i - p.idx > 1 THEN {"sequenceGaps"} ELSE {}) \cup
      (IF i > 0 /\ Extend(p.pub, p.cc, i - p.idx) # e.pub
       THEN {"forkedPublicKeyChain"} ELSE {})

\* The key derived for index i from the entry before it, or from the first
\* address when that one has no private key
DerivedKey(acc, i) ==
  LET p    == acc.dict[Prev(acc.dict, i)]
      from == IF p.priv # NoKey THEN p ELSE acc.dict[0]
  IN  Extend(from.priv, from.cc, i - from.idx)

\* The same from the entries as they should be
ValidKey(acc, i) ==
  LET below == {j \in DOMAIN acc.valid : j > 0 /\ j < i}
      from  == acc.valid[IF below = {} THEN 0 ELSE Max(below)]
  IN  Extend(from.priv, from.cc, i - from.idx)

\* The private key of an entry after unlocking it
Unlocked(acc, i) ==
  LET e == acc.dict[i]
      p == acc.dict[Prev(acc.dict, i)]
  IN  IF e.later THEN Extend(p.priv, e.cc, i - p.idx) ELSE e.priv

negativeIndex(i) == -3 - i

\* One entry of a wallet whose private keys are known: key is the entry's own
\* and right is what it should be.  An entry whose key is a wrong one gives
\* the error and stays as an import.
Judged(enc, acc, i, e, key, right, forked, errs) ==
  LET now == [e EXCEPT !.priv = key, !.later = FALSE, !.raw = "ok"]
      all == errs \cup
             (IF e.enc # enc \/ ~hasPrivKey(e) THEN {"misc"} ELSE {}) \cup
             (IF hasPrivKey(e) /\ key # e.pub THEN {"unmatchedPair"} ELSE {}) \cup
             (IF e.addr # e.hash THEN {"hashValMismatch"} ELSE {})
      good == IF forked THEN [now EXCEPT !.priv = right, !.pub = right] ELSE now
  IN  [acc EXCEPT !.dict[i] = now,
                  !.valid = (i :> good) @@ @,
                  !.errs = @ \cup all,
                  !.kept = IF forked THEN Append(@, [now EXCEPT !.idx = negativeIndex(i)]) ELSE @]

ProcessFirst(enc, acc) ==
  LET e == acc.dict[0] IN Judged(enc, acc, 0, e, e.priv, e.priv, FALSE, PublicErrors(acc, 0))

\* derived follows from the entry before, valid from the entries as they
\* should be
ProcessNext(enc, acc, i, e, derived, valid) ==
  LET missing == ~hasPrivKey(e)
      Compared(key) ==
        Judged(enc, acc, i, e, key, IF derived # key THEN derived ELSE valid,
               ~missing /\ (derived # key \/ derived # valid),
               PublicErrors(acc, i) \cup
               (IF ~missing /\ derived # key THEN {"forkedPublicKeyChain"} ELSE {}))
  IN  Compared(IF ~missing THEN Unlocked(acc, i) ELSE IF e.enc THEN NoKey ELSE derived)

ProcessChained(enc, acc, i) ==
  IF i = 0 THEN ProcessFirst(enc, acc)
  ELSE ProcessNext(enc, acc, i, acc.dict[i], DerivedKey(acc, i), ValidKey(acc, i))

ProcessPublic(acc, i) == [acc EXCEPT !.errs = @ \cup PublicErrors(acc, i)]

\* An import: the public key is computed again when it does not match
ImportErrors(enc, e) ==
  IF \/ e.idx = -2 /\ e.raw = "fixed"
     \/ ~hasPrivKey(e)
     \/ e.enc # enc
     \/ e.priv # e.pub
  THEN {"importedErr"} ELSE {}

FixedImport(e) == [e EXCEPT !.pub = IF hasPrivKey(e) THEN e.priv ELSE @,
                            !.hash = e.addr, !.raw = "ok"]

----------------------------------------------------------------------------
(* ProcessWallet.  The code is 0 (no error), 1 (errors), -4 (no            *)
(* passphrase) or Raises (an exception leaves the function); new is the    *)
(* recovered file, made says whether one was made.                         *)

Raises == 99
NoFile == [root |-> <<>>, wo |-> TRUE, enc |-> FALSE, body |-> <<>>]
Answer(code, errs, wo, made, new) ==
  [code |-> code, errs |-> errs, wo |-> wo, made |-> made, new |-> new]

Recovered_ChainOnly(f, wo, naddress, imports) ==
  IF wo THEN createNewWO(f.root, naddress) ELSE createNewWallet(f.root, Pool + naddress - 1, f.enc)

\* The recovered wallet: the root's chain, as many addresses as the file had
\* on top of a new pool, the imports and the kept keys, and the comments
Recovered(f, wo, naddress, imports) ==
  LET fresh == IF wo THEN createNewWO(f.root, naddress)
                     ELSE createNewWallet(f.root, Pool + naddress - 1, f.enc)
      kept  == [k \in DOMAIN imports |-> FixedImport(imports[k])]
  IN  [fresh EXCEPT !.body = @ \o kept]

\* The imports are looked at, and a wallet with errors is built anew.  An
\* encrypted import without its private key raises in the middle of that.
ProcessImports(f, mode, wo, imports, chainErrs) ==
  LET errs   == chainErrs \cup
                (IF wo THEN {} ELSE UNION {ImportErrors(f.enc, e) : e \in Range(imports)})
      make   == errs # {} /\ mode \in (IF wo THEN {"Full"} ELSE {"Bare", "Full"})
      stuck  == {k \in DOMAIN imports : ~wo /\ imports[k].enc /\ ~hasPrivKey(imports[k])}
      raises == make /\ stuck # {}
      kept   == IF raises THEN SubSeq(imports, 1, Min(stuck) - 1) ELSE imports
      notes  == IF mode = "Full" /\ ~raises THEN Is("note", f) ELSE <<>>
      new    == [Recovered(f, wo, Len(Chain(f)), kept) EXCEPT !.body = @ \o notes]
  IN  Answer(IF raises THEN Raises ELSE IF errs = {} THEN 0 ELSE 1,
             errs, wo, make, IF make THEN new ELSE NoFile)

ProcessChain(f, mode, wo, dict) ==
  LET raw  == (IF Len(Keys(f)) # Len(Is("key", f)) THEN {"rawError"} ELSE {}) \cup
              (IF ~wo /\ dict[0].addr # Key(f.root, 1) THEN {"rawError"} ELSE {})
      acc0 == [dict |-> dict, valid |-> [j \in {} |-> NoKey], errs |-> raw, kept |-> <<>>]
      Step(acc, i) == IF wo THEN ProcessPublic(acc, i) ELSE ProcessChained(f.enc, acc, i)
      Imported(acc) == ProcessImports(f, mode, wo, Imports(f) \o acc.kept, acc.errs)
  IN  IF 0 \notin DOMAIN dict THEN Answer(Raises, {}, wo, FALSE, NoFile)
      ELSE Imported(FoldLeft(Step, acc0, InOrder(DOMAIN dict)))

\* Without its passphrase an encrypted wallet is only checked, as if it were
\* watching-only; the Stripped mode needs the root only
ProcessWallet(f, mode, passphrase) ==
  LET locked == f.enc /\ ~f.wo /\ ~passphrase
  IN  IF locked /\ mode # "Check" THEN Answer(-4, {}, FALSE, FALSE, NoFile)
      ELSE IF mode = "Stripped" /\ ~f.wo
      THEN Answer(1, {}, FALSE, TRUE, createNewWallet(f.root, Pool, f.enc))
      ELSE ProcessChain(f, mode, f.wo \/ locked, addrDict(f))

\* WalletConsistencyCheck: without a passphrase
Consistency(f) == ProcessWallet(f, "Check", FALSE).code

\* The Meta mode: the comments and the number of addresses
MetaOf(f) == [notes |-> Is("note", f), naddress |-> Len(Is("key", f))]

\* What would be lost with a file: the root key and the private keys that do
\* not follow from it
Secrets(f) ==
  IF f.wo THEN {}
  ELSE {Key(f.root, 0)} \cup {e.priv : e \in {e \in Range(Is("key", f)) :
                                                e.priv # NoKey /\ e.priv.c # f.root}}
=============================================================================
