-------------------------- MODULE WalletKeysProofs --------------------------
(***************************************************************************)
(* The steps that unlock an address, extend the chain or change the        *)
(* encryption of the wallet preserve IInv too, and IInv implies            *)
(* KeysStayReachable, PlainKeysAreRight and NoAddressTwice.                *)
(***************************************************************************)
EXTENDS WalletKeysSteps

-----------------------------------------------------------------------------
(* The unlock of one address. *)

\* The address before another in the chain.
LEMMA MaxUpTo ==
  ASSUME NEW n \in Nat
  PROVE  Max(0..n) = n
<1>1. n \in 0..n /\ \A y \in 0..n : n >= y
  OBVIOUS
<1>2. \A x \in 0..n : (\A y \in 0..n : x >= y) => x = n
  OBVIOUS
<1> QED BY <1>1, <1>2 DEF Max

\* Address a of index i, with the open address before it as its base.
Rebased(K, i, a) == [a EXCEPT !.base = EncryptCFB(K, i - 1), !.depth = 1]

\* An address chained under a locked wallet, with the address before it as its base.
LEMMA RebasedOK ==
  ASSUME NEW K \in AESKey, NEW i \in Int, NEW a, AddrOK(K, i, a), Chained(K, i, a)
  PROVE  AddrOK(K, i, Rebased(K, i, a)) /\ Rebased(K, i, a).saved = a.saved
<1>0. PICK r : r = [a EXCEPT !.base = EncryptCFB(K, i - 1), !.depth = 1]
  OBVIOUS
<1>1. PICK c : c = EncryptCFB(K, i - 1) /\ c \in AESCipher /\ c.key = K /\ c.priv = i - 1
  <2>1. i - 1 \in Int
    OBVIOUS
  <2> QED BY <2>1, CipherFacts
<1>2. /\ r \in AddrType /\ r.enc = a.enc /\ r.locked = a.locked /\ r.plain = a.plain
      /\ r.cipher = a.cipher /\ r.base = c /\ r.depth = 1 /\ r.saved = a.saved
  <2>1. PICK b : b = [a EXCEPT !.base = c] /\ a \in AddrType
    BY ZenonT(60) DEF AddrOK
  <2>2. /\ b \in AddrType /\ b.enc = a.enc /\ b.locked = a.locked /\ b.plain = a.plain
        /\ b.cipher = a.cipher /\ b.base = c /\ b.saved = a.saved
    BY <1>1, <2>1 DEF AddrType
  <2>3. r = [b EXCEPT !.depth = 1]
    BY <1>0, <1>1, <2>1 DEF AddrType
  <2>4. /\ r \in AddrType /\ r.enc = b.enc /\ r.locked = b.locked /\ r.plain = b.plain
        /\ r.cipher = b.cipher /\ r.base = b.base /\ r.depth = 1 /\ r.saved = b.saved
    BY <2>2, <2>3 DEF AddrType
  <2> QED BY <2>2, <2>4
<1>3. Chained(K, i, r)
  BY <1>1, <1>2 DEF Chained, Leads, Root
<1>4. AddrOK(K, i, r) /\ r.saved = a.saved
  <2>1. K # None
    BY NoneFacts, Zenon
  <2> QED BY <1>2, <1>3, <2>1, Zenon DEF AddrOK
<1> QED BY <1>0, <1>4 DEF Rebased

\* The base that the loop of unlock gives to a chained address leads to its key.
LEMMA BasedOK ==
  ASSUME NEW K \in AESKey, KInv(K), NEW i \in DOMAIN mem.addr, Chained(K, i, mem.addr[i]),
         \A j \in DOMAIN mem.addr : j < i => Open(j)
  PROVE  AddrOK(K, i, Based(i)) /\ Based(i).saved = mem.addr[i].saved
<1>1. PICK n \in Nat : DOMAIN mem.addr = Root..n
  BY DomainFacts, Zenon
<1>2. i \in Int /\ i >= 0 /\ i <= n /\ AddrOK(K, i, mem.addr[i])
  BY <1>1 DEF Chained, Root, KInv, KeysOK
<1> DEFINE before == {j \in Chain(mem) : j < i}
<1>3. before = 0..(i - 1)
  BY <1>1, <1>2 DEF Chain, Root
<1>4. Based(i) = IF before = {} THEN mem.addr[i]
                 ELSE [mem.addr[i] EXCEPT !.base = mem.addr[Max(before)].cipher, !.depth = i - Max(before)]
  BY DEF Based
<1> HIDE DEF before
<1>5. CASE i = 0
  <2>1. before = {}
    BY <1>3, <1>5
  <2> QED BY <1>2, <1>4, <2>1
<1>6. CASE i > 0
  <2>1. i - 1 \in Nat /\ i - 1 \in before /\ i - (i - 1) = 1 /\ i - 1 \in DOMAIN mem.addr /\ i - 1 < i
    BY <1>1, <1>2, <1>3, <1>6 DEF Root
  <2>2. Max(before) = i - 1
    BY <1>3, <2>1, MaxUpTo, Zenon
  <2>3. mem.addr[i - 1].cipher = EncryptCFB(K, i - 1)
    <3>1. AddrOK(K, i - 1, mem.addr[i - 1]) /\ ~mem.addr[i - 1].locked
      BY <2>1 DEF KInv, KeysOK, Open
    <3> QED BY <3>1, NoneFacts, Zenon DEF AddrOK, Own, Chained
  <2>4. Based(i) = Rebased(K, i, mem.addr[i])
    BY <1>4, <2>1, <2>2, <2>3, ZenonT(60) DEF Rebased
  <2> QED BY <1>2, <2>4, RebasedOK
<1> QED BY <1>2, <1>5, <1>6

\* The address that the loop of unlock is at: unlocked, with its own key.
LEMMA OpenedOK ==
  ASSUME NEW K \in AESKey, KInv(K), NEW i \in DOMAIN mem.addr, i \in Int, i >= Root,
         mem.addr[i].locked => mem.key = K,
         mem.key = K => \A j \in DOMAIN mem.addr : j < i => Open(j)
  PROVE  LET a == mem.addr[i]
             o == AddrUnlock(IF createPrivKeyNextUnlock(a) THEN Based(i) ELSE a, mem.key)
         IN  /\ AddrOK(K, i, o) /\ ~o.locked /\ o.plain = i /\ o.saved = a.saved
             /\ ~a.locked => o = a /\ ~createPrivKeyNextUnlock(a)
<1>1. PICK a : a = mem.addr[i] /\ AddrOK(K, i, a)
  BY DEF KInv, KeysOK
<1>2. Own(K, i, a) \/ Chained(K, i, a)
  BY <1>1, NoneFacts, Zenon DEF AddrOK
<1>3. CASE ~a.locked
  <2>1. Own(K, i, a) /\ a.base = None /\ a.plain = i
    BY <1>2, <1>3 DEF Chained, Own
  <2>2. AddrUnlock(a, mem.key) = a
    BY <1>1, <1>3, UnlockOpen
  <2>3. ~createPrivKeyNextUnlock(a)
    BY <2>1, Zenon DEF createPrivKeyNextUnlock
  <2> QED BY <1>1, <1>3, <2>1, <2>2, <2>3, ZenonT(60)
<1>4. CASE a.locked /\ ~Chained(K, i, a)
  <2>1. a.base = None
    BY <1>2, <1>4, Zenon DEF Own
  <2>2. ~createPrivKeyNextUnlock(a) /\ mem.key = K
    BY <1>1, <1>4, <2>1, Zenon DEF createPrivKeyNextUnlock
  <2>3. AddrUnlock(IF createPrivKeyNextUnlock(a) THEN Based(i) ELSE a, mem.key) = AddrUnlock(a, K)
    BY <2>2, Zenon
  <2>4. /\ AddrOK(K, i, AddrUnlock(a, K)) /\ ~AddrUnlock(a, K).locked
        /\ AddrUnlock(a, K).plain = i /\ AddrUnlock(a, K).saved = a.saved
    BY <1>1, UnlockOK
  <2> QED BY <1>1, <1>4, <2>3, <2>4
<1>5. CASE a.locked /\ Chained(K, i, a)
  <2>1. createPrivKeyNextUnlock(a) /\ mem.key = K
    BY <1>1, <1>5, NoneFacts, Zenon DEF createPrivKeyNextUnlock, Chained, Leads
  <2>2. AddrOK(K, i, Based(i)) /\ Based(i).saved = a.saved
    BY <1>1, <1>5, <2>1, BasedOK, Zenon
  <2>3. /\ AddrOK(K, i, AddrUnlock(Based(i), K)) /\ ~AddrUnlock(Based(i), K).locked
        /\ AddrUnlock(Based(i), K).plain = i /\ AddrUnlock(Based(i), K).saved = a.saved
    BY <2>2, UnlockOK
  <2> QED BY <1>1, <1>5, <2>1, <2>3, Zenon
<1> QED BY <1>3, <1>4, <1>5, Zenon

\* One round of the loop of unlock keeps the invariant.
LEMMA UnlockAddressKeeps ==
  ASSUME NEW K \in AESKey \cup {None}, KInv(K), UnlockAddress
  PROVE  KInv(K)'
<1>1. /\ todo # <<>> /\ todo[1].op = "open" /\ 1 \in DOMAIN todo /\ Arg = todo[1].arg /\ todo[1].arg \in Int
      /\ UNCHANGED <<phrase, given>> /\ todo \in Seq(StepType)
  <2>1. todo # <<>> /\ Head(todo).op = "open" /\ UNCHANGED <<phrase, given>> /\ todo \in Seq(StepType)
    BY DEF UnlockAddress, Doing, KInv, TodoOK
  <2>2. 1 \in DOMAIN todo /\ Head(todo) = todo[1] /\ todo[1] \in StepType
    BY <2>1, TailFacts
  <2>3. todo[1].arg \in Int
    BY <2>2 DEF StepType
  <2> QED BY <2>1, <2>2, <2>3 DEF Arg
<1>2. PICK n \in Nat : DOMAIN mem.addr = Root..n /\ n \in {mem.last, mem.last + 1}
  BY DomainFacts, Zenon
<1>a. TodoOK /\ NextOK /\ GivenOK /\ \A k \in DOMAIN todo : todo[k].op = "open" =>
        /\ todo[k].arg \in DOMAIN mem.addr /\ k < Len(todo)
        /\ \/ todo[k + 1].op = "open" /\ todo[k + 1].arg = todo[k].arg + 1
           \/ todo[k + 1].op = "opened" /\ todo[k].arg + 1 \notin DOMAIN mem.addr
  BY Zenon DEF KInv, TodoOK
<1>b. mem.last \in Nat /\ mem.top \in Int
  BY DEF KInv, Shape
<1>3. PICK i \in Int : i = Arg /\ i = todo[1].arg /\ i \in DOMAIN mem.addr /\ i >= Root
  BY <1>1, <1>2, <1>a DEF Root
<1>4. Unlocks /\ K # None /\ K \in AESKey /\ mem.key \in {K, None}
  BY <1>1, NoneFacts, Zenon DEF Unlocks, KInv, LocksOK, KeysOK
<1>5. PICK a : a = mem.addr[i] /\ AddrOK(K, i, a) /\ a.enc /\ a \in AddrType
  BY <1>3, <1>4, ZenonT(60) DEF KInv, KeysOK, AddrOK
<1>6. mem.key = K => \A j \in DOMAIN mem.addr : j < i => Open(j)
  BY <1>3, <1>4 DEF KInv, LocksOK
<1>7. CASE a.locked /\ mem.key = None
  <2>1. todo' = <<>> /\ UNCHANGED <<disk, mem, failed>>
    BY <1>3, <1>5, <1>7 DEF UnlockAddress
  <2>2. TodoOK' /\ NextOK' /\ ~Unlocks' /\ ~Has("touch")'
    BY <2>1, NothingToDo
  <2>3. GivenOK'
    BY <1>1, <2>1, <2>2, ZenonT(60) DEF KInv, GivenOK
  <2>4. LocksOK(K)'
    BY <1>7, <2>1, <2>2, ZenonT(60) DEF KInv, LocksOK, AllLocked
  <2>5. MemRecord' /\ DiskRecord' /\ Shape' /\ KeysOK(K)' /\ FlagsOK(K)' /\ NotFailed(K)'
    BY <1>1, <2>1, ListOnly
  <2> QED BY <2>2, <2>3, <2>4, <2>5 DEF KInv
<1>8. CASE ~(a.locked /\ mem.key = None)
  <2>1. PICK o : /\ o = AddrUnlock(IF createPrivKeyNextUnlock(a) THEN Based(i) ELSE a, mem.key)
                 /\ AddrOK(K, i, o) /\ ~o.locked /\ o.plain = i /\ o.saved = a.saved /\ o \in AddrType
                 /\ ~a.locked => o = a /\ ~createPrivKeyNextUnlock(a)
    <3>1. a.locked => mem.key = K
      BY <1>4, <1>8
    <3>2. mem.addr[i].locked => mem.key = K
      BY <1>5, <3>1, ZenonT(60)
    <3> DEFINE b == mem.addr[i]
               q == AddrUnlock(IF createPrivKeyNextUnlock(b) THEN Based(i) ELSE b, mem.key)
    <3>3. /\ AddrOK(K, i, q) /\ ~q.locked /\ q.plain = i /\ q.saved = b.saved
          /\ ~b.locked => q = b /\ ~createPrivKeyNextUnlock(b)
      BY <1>3, <1>4, <1>6, <3>2, OpenedOK, ZenonT(60)
    <3>4. b = a /\ q = AddrUnlock(IF createPrivKeyNextUnlock(a) THEN Based(i) ELSE a, mem.key)
      BY <1>5, Zenon
    <3> HIDE DEF b, q
    <3>5. q \in AddrType
      BY <3>3, ZenonT(60) DEF AddrOK
    <3> QED BY <3>3, <3>4, <3>5
  <2>2. /\ mem' = [mem EXCEPT !.addr[i] = o] /\ todo' = Tail(todo)
        /\ \/ Save("open", {i}, [disk EXCEPT !.addr[i] = serialize(o)])
           \/ UNCHANGED <<disk, failed>>
    BY <1>3, <1>5, <1>8, <2>1, Zenon DEF UnlockAddress
  <2>3. /\ mem'.enc = mem.enc /\ mem'.locked = mem.locked /\ mem'.kdf = mem.kdf /\ mem'.key = mem.key
        /\ mem'.top = mem.top /\ mem'.last = mem.last /\ MemRecord'
        /\ mem'.addr = [mem.addr EXCEPT ![i] = o]
    BY <2>2 DEF KInv, MemRecord
  <2>4. /\ DOMAIN mem'.addr = DOMAIN mem.addr /\ mem'.addr[i] = o
        /\ \A j \in DOMAIN mem.addr : j # i => mem'.addr[j] = mem.addr[j]
        /\ \E m \in {mem.last, mem.last + 1} : mem'.addr \in [Root..m -> AddrType]
    <3>1. PICK m \in {mem.last, mem.last + 1} : mem.addr \in [Root..m -> AddrType]
      BY ZenonT(60) DEF KInv, Shape
    <3>2. mem'.addr \in [Root..m -> AddrType]
      BY <2>1, <2>3, <3>1, Zenon
    <3>3. /\ DOMAIN mem'.addr = DOMAIN mem.addr /\ mem'.addr[i] = o
          /\ \A j \in DOMAIN mem.addr : j # i => mem'.addr[j] = mem.addr[j]
      BY <1>3, <2>3, <3>1
    <3> QED BY <3>1, <3>2, <3>3, ZenonT(60)
  <2>5. /\ disk'.enc = disk.enc /\ disk'.kdf = disk.kdf /\ disk'.top = disk.top /\ DiskRecord'
        /\ failed \subseteq failed' /\ failed' \subseteq failed \cup {"open"}
        /\ \/ disk'.addr = disk.addr
           \/ mem.addr[i].saved /\ disk'.addr = [disk.addr EXCEPT ![i] = serialize(o)]
    BY <2>2 DEF KInv, DiskRecord, Save, Applied, NotApplied, Writable
  <2>6. disk'.addr \in [Root..mem.last -> RecType] /\ \A j \in DOMAIN disk'.addr : RecOK(K, j, disk'.addr[j])
    <3>1. RecOK(K, i, serialize(o)) /\ serialize(o) \in RecType
      <4>1. RecOK(K, i, serialize(o))
        BY <2>1, SerializeOK
      <4> QED BY <4>1, Zenon DEF RecOK
    <3>2. mem.addr[i].saved => i \in DOMAIN disk.addr
      <4>1. mem.addr[i].saved <=> i <= mem.last
        BY <1>3, Zenon DEF KInv, KeysOK
      <4>2. DOMAIN disk.addr = Root..mem.last
        BY Zenon DEF KInv, Shape
      <4> QED BY <1>3, <1>b, <4>1, <4>2
    <3> QED BY <2>5, <3>1, <3>2, ZenonT(60) DEF KInv, KeysOK, Shape
  <2>7. TodoOK'
    BY <1>1, <1>a, <2>2, <2>4, TailTodo
  <2>8. NextOK'
    <3>1. mem'.last = mem.last + (IF todo[1].op = "next" THEN 1 ELSE 0)
      BY <1>1, <1>b, <2>3
    <3> QED BY <1>1, <1>a, <1>b, <2>2, <2>3, <3>1, TailNext
  <2>9. GivenOK'
    BY <1>1, <1>a, <2>2, <2>3, <2>5, TailGiven
  <2>10. /\ todo' # <<>>
         /\ \/ todo'[1].op = "open" /\ todo'[1].arg = i + 1
            \/ todo'[1].op = "opened" /\ i + 1 \notin DOMAIN mem.addr
    <3>1. 1 < Len(todo)
      BY <1>1, <1>a, Zenon
    <3>2. /\ todo'[1] = todo[2] /\ Len(todo') >= 1
      BY <1>1, <2>2, <3>1, TailFacts
    <3>3. \/ todo[2].op = "open" /\ todo[2].arg = i + 1
          \/ todo[2].op = "opened" /\ i + 1 \notin DOMAIN mem.addr
      <4>1. 1 + 1 = 2
        OBVIOUS
      <4> QED BY <1>1, <1>3, <1>a, <4>1, Zenon
    <3>4. todo' # <<>>
      BY <3>2
    <3> QED BY <3>2, <3>3, <3>4, ZenonT(60)
  <2>11. LocksOK(K)'
    <3>1. Unlocks'
      BY <2>10 DEF Unlocks
    <3>2. ASSUME mem.key # None, NEW j \in DOMAIN mem'.addr, todo'[1].op = "opened" \/ j < todo'[1].arg
          PROVE  ~mem'.addr[j].locked
      <4>1. j \in Int /\ j <= i
        <5>1. j \in DOMAIN mem.addr /\ (j < i + 1 \/ i + 1 \notin DOMAIN mem.addr)
          BY <2>4, <2>10, <3>2, Zenon
        <5> QED BY <1>2, <1>3, <5>1 DEF Root
      <4>2. CASE j = i
        BY <2>1, <2>4, <4>2
      <4>3. CASE j < i
        <5>1. j # i /\ j \in DOMAIN mem.addr
          BY <1>3, <2>4, <3>2, <4>1, <4>3
        <5> QED BY <1>4, <1>6, <2>4, <3>2, <4>3, <5>1, Zenon DEF Open
      <4> QED BY <1>3, <4>1, <4>2, <4>3
    <3>3. mem'.locked /\ mem'.key = None => AllLocked'
      <4>1. ASSUME mem.locked, mem.key = None PROVE mem'.addr = mem.addr
        <5>1. o = a
          BY <1>8, <2>1, <4>1
        <5> QED BY <1>3, <1>5, <2>3, <5>1, ZenonT(60) DEF KInv, Shape
      <4> QED BY <2>3, <4>1, Zenon DEF KInv, LocksOK, AllLocked
    <3>4. mem'.key # Destroyed
      BY <1>4, <2>3, NoneFacts, ZenonT(60)
    <3> QED BY <1>4, <2>3, <3>1, <3>2, <3>3, <3>4, Zenon DEF LocksOK, Open
  <2>12. KeysOK(K)'
    <3>1. \A j \in DOMAIN mem'.addr : AddrOK(K, j, mem'.addr[j]) /\ (mem'.addr[j].saved <=> j <= mem'.last)
      BY <1>3, <1>5, <2>1, <2>3, <2>4, ZenonT(60) DEF KInv, KeysOK
    <3> QED BY <2>3, <2>6, <3>1, ZenonT(60) DEF KInv, KeysOK
  <2>13. FlagsOK(K)'
    BY <2>1, <2>3, <2>4, <2>5, ZenonT(60) DEF KInv, FlagsOK, AllOpen, Open
  <2>14. Shape' /\ NotFailed(K)'
    BY <1>1, <2>3, <2>4, <2>5, <2>6, Zenon DEF KInv, Shape, NotFailed
  <2> QED BY <2>3, <2>5, <2>7, <2>8, <2>9, <2>11, <2>12, <2>13, <2>14, ZenonT(60) DEF KInv
<1> QED BY <1>7, <1>8

-----------------------------------------------------------------------------
(* The next address of the chain. *)

\* Address a, once it is in the file.
Saved(a) == [a EXCEPT !.saved = TRUE]

\* An address that was written is as good as before.
LEMMA SavedOK ==
  ASSUME NEW K \in AESKey \cup {None}, NEW i \in Int, NEW a, AddrOK(K, i, a)
  PROVE  AddrOK(K, i, Saved(a)) /\ Saved(a).saved /\ (Saved(a).locked <=> a.locked)
<1>1. PICK r : r = Saved(a) /\ r = [a EXCEPT !.saved = TRUE] /\ a \in AddrType
  BY Zenon DEF Saved, AddrOK
<1>2. /\ r \in AddrType /\ r.enc = a.enc /\ r.locked = a.locked /\ r.plain = a.plain
      /\ r.cipher = a.cipher /\ r.base = a.base /\ r.depth = a.depth /\ r.saved
  BY <1>1, Zenon DEF AddrType
<1>3. AddrOK(K, i, r)
  BY <1>2 DEF AddrOK, Own, Chained
<1> QED BY <1>1, <1>2, <1>3

\* What extendAddressChain makes of the last address, if it does not raise.
LEMMA NextAddressOK ==
  ASSUME NEW K \in AESKey \cup {None}, KInv(K), ~Unlocks
  PROVE  LET t == mem.addr[mem.last]
             new == extendAddressChain(t, mem.key)
         IN  /\ mem.last \in DOMAIN mem.addr
             /\ AddrOK(K, mem.last, t)
             /\ ~Undecryptable(t, mem.key) => AddrUnlock(t, mem.key) = t
             /\ Undecryptable(t, mem.key) \/ ~LockRaises(ExtendWithKey(t, mem.key), mem.key) =>
                  AddrOK(K, mem.last + 1, new) /\ ~new.saved /\ (new.locked <=> t.locked)
<1>1. PICK n \in Nat : DOMAIN mem.addr = Root..n /\ n \in {mem.last, mem.last + 1}
  BY DomainFacts
<1>2. PICK l \in Nat : l = mem.last /\ l \in DOMAIN mem.addr /\ l > Root
  BY <1>1 DEF KInv, Shape, Root
<1>3. PICK t, key : t = mem.addr[l] /\ key = mem.key /\ AddrOK(K, l, t) /\ (K # None => key \in {K, None, Destroyed})
  BY <1>2 DEF KInv, KeysOK
<1>4. t.locked => K # None /\ K \in AESKey
  BY <1>2, <1>3 DEF AddrOK
<1>5. hasPrivKey(t) /\ l \in Int /\ l >= Root
  BY <1>2, <1>3, HasKey DEF Root
<1>6. CASE Undecryptable(t, key)
  <2>1. t.locked /\ K \in AESKey
    BY <1>4, <1>6 DEF Undecryptable
  <2>2. AddrOK(K, l + 1, ExtendPublicly(t)) /\ ExtendPublicly(t).locked /\ ~ExtendPublicly(t).saved
    BY <1>3, <1>5, <2>1, ExtendPubliclyOK
  <2>3. extendAddressChain(t, key) = ExtendPublicly(t)
    BY <1>6 DEF extendAddressChain
  <2> QED BY <1>2, <1>3, <1>6, <2>1, <2>2, <2>3
<1>7. CASE ~Undecryptable(t, key)
  <2>1. ~t.locked
    <3>1. SUFFICES ASSUME t.locked PROVE FALSE
      OBVIOUS
    <3>2. key # None
      BY <1>5, <1>7, <3>1 DEF Undecryptable
    <3>3. AllOpen
      BY <1>3, <3>2 DEF KInv, LocksOK
    <3> QED BY <1>2, <1>3, <3>1, <3>3 DEF AllOpen, Open
  <2>2. AddrUnlock(t, key) = t
    BY <1>3, <1>5, <2>1, UnlockOpen
  <2>3. ASSUME ~LockRaises(ExtendWithKey(t, key), key)
        PROVE  AddrOK(K, l + 1, extendAddressChain(t, key)) /\ ~extendAddressChain(t, key).saved
               /\ ~extendAddressChain(t, key).locked
    <3>1. K # None => key = K
      BY <1>3, <1>5, <2>1, <2>3, ExtendRaises
    <3> QED BY <1>3, <1>5, <2>1, <3>1, ExtendOpenOK
  <2> QED BY <1>2, <1>3, <1>7, <2>1, <2>2, <2>3
<1> QED BY <1>6, <1>7

\* The object with one more address in its map.
LEMMA AddedKeeps ==
  ASSUME NEW K \in AESKey \cup {None}, KInv(K), ~Unlocks, ~Unlocks',
         NEW e, AddrOK(K, mem.last + 1, e), e.saved <=> mem.last + 1 <= mem'.last,
         e.locked <=> mem.addr[mem.last].locked,
         mem'.last \in {mem.last, mem.last + 1},
         mem'.enc = mem.enc, mem'.locked = mem.locked, mem'.key = mem.key,
         mem'.addr = [j \in DOMAIN mem.addr \cup {mem.last + 1} |-> IF j = mem.last + 1 THEN e ELSE mem.addr[j]],
         disk'.enc = disk.enc
  PROVE  /\ mem'.addr \in [Root..(mem.last + 1) -> AddrType]
         /\ \A i \in DOMAIN mem'.addr : AddrOK(K, i, mem'.addr[i]) /\ (mem'.addr[i].saved <=> i <= mem'.last)
         /\ FlagsOK(K)' /\ LocksOK(K)'
<1>1. PICK n \in Nat : DOMAIN mem.addr = Root..n /\ n \in {mem.last, mem.last + 1}
  BY DomainFacts
<1>2. PICK l \in Nat : l = mem.last /\ l \in DOMAIN mem.addr
  BY <1>1 DEF KInv, Shape, Root
<1>3. DOMAIN mem.addr \cup {l + 1} = Root..(l + 1)
  BY <1>1, <1>2 DEF Root
<1>4. mem'.addr = [j \in Root..(l + 1) |-> IF j = l + 1 THEN e ELSE mem.addr[j]]
  BY <1>2, <1>3
<1>5. ASSUME NEW j \in Root..(l + 1), j # l + 1
      PROVE  /\ mem'.addr[j] = mem.addr[j] /\ j \in DOMAIN mem.addr /\ j \in Int /\ j <= l
             /\ AddrOK(K, j, mem.addr[j]) /\ mem.addr[j].saved
  <2>1. j \in DOMAIN mem.addr /\ j \in Int /\ j <= l
    BY <1>1, <1>2, <1>5 DEF Root
  <2>2. AddrOK(K, j, mem.addr[j]) /\ mem.addr[j].saved
    BY <1>2, <2>1 DEF KInv, KeysOK
  <2>3. mem'.addr[j] = mem.addr[j]
    BY <1>4, <1>5, Zenon
  <2> QED BY <2>1, <2>2, <2>3
<1>6. DOMAIN mem'.addr = Root..(l + 1) /\ l + 1 \in Root..(l + 1) /\ mem'.addr[l + 1] = e
  <2>1. l + 1 \in Root..(l + 1)
    BY DEF Root
  <2> QED BY <1>4, <2>1, Zenon
<1>7. \A i \in DOMAIN mem'.addr : AddrOK(K, i, mem'.addr[i]) /\ (mem'.addr[i].saved <=> i <= mem'.last)
  <2> TAKE i \in DOMAIN mem'.addr
  <2>1. CASE i = l + 1
    BY <1>2, <1>6, <2>1
  <2>2. CASE i # l + 1
    <3>1. i <= mem'.last
      BY <1>2, <1>5, <1>6, <2>2
    <3> QED BY <1>5, <1>6, <2>2, <3>1
  <2> QED BY <2>1, <2>2
<1>8. mem'.addr \in [Root..(l + 1) -> AddrType]
  <2>1. \A i \in Root..(l + 1) : mem'.addr[i] \in AddrType
    BY <1>6, <1>7 DEF AddrOK
  <2> QED BY <1>4, <1>6, <2>1, Zenon
<1>9. AllOpen => AllOpen'
  BY <1>2, <1>5, <1>6 DEF AllOpen, Open
<1>10. AllLocked => AllLocked'
  <2>1. AllLocked => (e.enc => e.locked)
    BY <1>2 DEF AllLocked, AddrOK, KInv, KeysOK
  <2> QED BY <1>5, <1>6, <2>1 DEF AllLocked
<1>11. FlagsOK(K)'
  BY <1>9 DEF KInv, FlagsOK
<1>12. LocksOK(K)'
  BY <1>9, <1>10 DEF KInv, LocksOK
<1> QED BY <1>2, <1>7, <1>8, <1>11, <1>12, Zenon

\* computeNextAddress keeps the invariant, whether it raises, fails to write or writes.
LEMMA ComputeNextKeeps ==
  ASSUME NEW K \in AESKey \cup {None}, KInv(K), ComputeNextAddress
  PROVE  KInv(K)'
<1>1. /\ todo # <<>> /\ todo[1].op = "next" /\ UNCHANGED <<phrase, given>> /\ todo \in Seq(StepType)
  BY TailFacts DEF ComputeNextAddress, Doing, KInv, TodoOK
<1>2. ~Unlocks
  BY <1>1 DEF Unlocks
<1> DEFINE tip == mem.addr[mem.last]
           made == extendAddressChain(tip, mem.key)
           can == Undecryptable(tip, mem.key) \/ ~LockRaises(ExtendWithKey(tip, mem.key), mem.key)
           With(a) == [j \in DOMAIN mem.addr \cup {mem.last + 1} |->
                         IF j = mem.last + 1 THEN a ELSE mem.addr[j]]
           toDisk == [disk EXCEPT !.addr = [j \in DOMAIN @ \cup {mem.last + 1} |->
                                              IF j = mem.last + 1 THEN serialize(made) ELSE @[j]]]
<1>3. /\ mem.last \in DOMAIN mem.addr
      /\ ~Undecryptable(tip, mem.key) => AddrUnlock(tip, mem.key) = tip
      /\ can => AddrOK(K, mem.last + 1, made) /\ ~made.saved /\ (made.locked <=> tip.locked)
  BY <1>2, NextAddressOK
<1>4. \/ todo' = <<>> /\ UNCHANGED <<disk, mem, failed>>
      \/ /\ can /\ Applied(toDisk) /\ mem' = [mem EXCEPT !.addr = With(Saved(made)), !.last = mem.last + 1]
         /\ todo' = Tail(todo)
      \/ /\ can /\ NotApplied("next", {}) /\ mem' = [mem EXCEPT !.addr = With(made)] /\ todo' = <<>>
  <2>1. PICK tipped : /\ tipped = IF Undecryptable(tip, mem.key) THEN tip ELSE AddrUnlock(tip, mem.key)
                      /\ tipped = tip
    BY <1>3
  <2>2. \A a : [j \in DOMAIN mem.addr \cup {mem.last + 1} |->
                  IF j = mem.last + 1 THEN a ELSE IF j = mem.last THEN tipped ELSE mem.addr[j]] = With(a)
    BY <2>1
  <2> QED BY <2>1, <2>2, ZenonT(60) DEF ComputeNextAddress, Saved
<1>5. CASE todo' = <<>> /\ UNCHANGED <<disk, mem, failed>>
  <2>2. TodoOK' /\ NextOK' /\ ~Unlocks' /\ ~Has("touch")'
    BY <1>5, NothingToDo
  <2>3. GivenOK'
    BY <1>1, <1>5, <2>2 DEF KInv, GivenOK
  <2>4. LocksOK(K)'
    BY <1>2, <1>5, <2>2 DEF KInv, LocksOK, AllLocked, AllOpen, Open
  <2>5. MemRecord' /\ DiskRecord' /\ Shape' /\ KeysOK(K)' /\ FlagsOK(K)' /\ NotFailed(K)'
    BY <1>1, <1>5, ListOnly
  <2> QED BY <2>2, <2>3, <2>4, <2>5 DEF KInv
<1>6. CASE /\ can /\ Applied(toDisk) /\ mem' = [mem EXCEPT !.addr = With(Saved(made)), !.last = mem.last + 1]
           /\ todo' = Tail(todo)
  <2>1. mem.last \in Nat /\ mem.last + 1 \in Int /\ mem.last + 1 \in Nat
    BY DEF KInv, Shape
  <2>2. PICK e : e = Saved(made) /\ AddrOK(K, mem.last + 1, e) /\ e.saved /\ (e.locked <=> tip.locked)
    BY <1>3, <1>6, <2>1, SavedOK
  <2>3. /\ mem'.enc = mem.enc /\ mem'.locked = mem.locked /\ mem'.kdf = mem.kdf /\ mem'.key = mem.key
        /\ mem'.top = mem.top /\ mem'.last = mem.last + 1 /\ mem'.addr = With(e) /\ MemRecord'
    BY <1>6, <2>2, ZenonT(60) DEF KInv, MemRecord
  <2>4. /\ disk'.enc = disk.enc /\ disk'.kdf = disk.kdf /\ disk'.top = disk.top /\ DiskRecord' /\ failed' = failed
        /\ disk'.addr = [j \in DOMAIN disk.addr \cup {mem.last + 1} |->
                           IF j = mem.last + 1 THEN serialize(made) ELSE disk.addr[j]]
    BY <1>6 DEF KInv, DiskRecord, Applied
  <2>5. TodoOK' /\ ~Unlocks'
    BY <1>1, <1>6, TailTodo DEF KInv
  <2>6. NextOK'
    BY <1>1, <1>6, <2>1, <2>3, TailNext DEF KInv, Shape, Root
  <2>7. GivenOK'
    BY <1>1, <1>6, <2>3, <2>4, TailGiven DEF KInv
  <2>a. e.saved <=> mem.last + 1 <= mem'.last
    BY <2>1, <2>2, <2>3
  <2>b. mem'.last \in {mem.last, mem.last + 1}
    BY <2>3
  <2>8. /\ mem'.addr \in [Root..(mem.last + 1) -> AddrType]
        /\ \A i \in DOMAIN mem'.addr : AddrOK(K, i, mem'.addr[i]) /\ (mem'.addr[i].saved <=> i <= mem'.last)
        /\ FlagsOK(K)' /\ LocksOK(K)'
    BY <1>2, <2>2, <2>3, <2>4, <2>5, <2>a, <2>b, AddedKeeps, ZenonT(60)
  <2>9. disk'.addr \in [Root..(mem.last + 1) -> RecType] /\ \A j \in DOMAIN disk'.addr : RecOK(K, j, disk'.addr[j])
    <3>1. PICK r : r = serialize(made) /\ RecOK(K, mem.last + 1, r) /\ r \in RecType
      BY <1>3, <1>6, <2>1, SerializeOK, ZenonT(60) DEF RecOK
    <3>2. DOMAIN disk.addr \cup {mem.last + 1} = Root..(mem.last + 1)
      BY <2>1 DEF KInv, Shape, Root
    <3> QED BY <2>4, <3>1, <3>2 DEF KInv, KeysOK, Shape
  <2>10. KeysOK(K)'
    BY <2>3, <2>8, <2>9, Zenon DEF KInv, KeysOK
  <2>11. Shape'
    <3>1. mem.top \in Root..(mem.last + 1) /\ disk.top \in Root..(mem.last + 1)
      BY <2>1 DEF KInv, Shape, Root
    <3> QED BY <1>1, <2>1, <2>3, <2>4, <2>8, <2>9, <3>1, Zenon DEF KInv, Shape
  <2>12. NotFailed(K)'
    BY <1>1, <2>3, <2>4, Zenon DEF KInv, NotFailed
  <2> QED BY <2>3, <2>4, <2>5, <2>6, <2>7, <2>8, <2>10, <2>11, <2>12, Zenon DEF KInv
<1>7. CASE can /\ NotApplied("next", {}) /\ mem' = [mem EXCEPT !.addr = With(made)] /\ todo' = <<>>
  <2>1. mem.last \in Nat
    BY DEF KInv, Shape
  <2>2. PICK e : e = made /\ AddrOK(K, mem.last + 1, e) /\ ~e.saved /\ (e.locked <=> tip.locked)
    BY <1>3, <1>7
  <2>3. /\ mem'.enc = mem.enc /\ mem'.locked = mem.locked /\ mem'.kdf = mem.kdf /\ mem'.key = mem.key
        /\ mem'.top = mem.top /\ mem'.last = mem.last /\ mem'.addr = With(e) /\ MemRecord'
    BY <1>7, <2>2 DEF KInv, MemRecord
  <2>4. disk' = disk /\ failed' = failed \cup {"next"}
    BY <1>7 DEF NotApplied
  <2>5. TodoOK' /\ NextOK' /\ ~Unlocks' /\ ~Has("touch")'
    BY <1>7, NothingToDo
  <2>6. GivenOK'
    BY <1>1, <2>3, <2>4, <2>5, Zenon DEF KInv, GivenOK
  <2>7. e.saved <=> mem.last + 1 <= mem'.last
    BY <2>1, <2>2, <2>3
  <2>8. /\ mem'.addr \in [Root..(mem.last + 1) -> AddrType]
        /\ \A i \in DOMAIN mem'.addr : AddrOK(K, i, mem'.addr[i]) /\ (mem'.addr[i].saved <=> i <= mem'.last)
        /\ FlagsOK(K)' /\ LocksOK(K)'
    BY <1>2, <2>1, <2>2, <2>3, <2>4, <2>5, <2>7, AddedKeeps, Zenon
  <2>9. KeysOK(K)' /\ Shape' /\ DiskRecord'
    BY <1>1, <2>3, <2>4, <2>8, Zenon DEF KInv, KeysOK, Shape, DiskRecord
  <2>10. NotFailed(K)'
    BY <1>1, <2>3, <2>4 DEF KInv, NotFailed
  <2> QED BY <2>3, <2>5, <2>6, <2>8, <2>9, <2>10 DEF KInv
<1> QED BY <1>4, <1>5, <1>6, <1>7

-----------------------------------------------------------------------------
(* The change of the passphrase. *)

\* The fields of a wallet object, each with its name.
WalletRecord(w) ==
  w = [enc |-> w.enc, locked |-> w.locked, key |-> w.key, kdf |-> w.kdf,
       top |-> w.top, last |-> w.last, addr |-> w.addr]

\* lock, on an object with encryption.
LEMMA LockWallet ==
  ASSUME NEW K \in AESKey \cup {None}, NEW w, WalletRecord(w), w.enc = TRUE, NEW n \in Nat, DOMAIN w.addr = Root..n,
         \A i \in Root..n : AddrOK(K, i, w.addr[i])
  PROVE  LET v == lock(w)
         IN  /\ WalletRecord(v) /\ v.enc = TRUE /\ v.locked = TRUE /\ v.key = None
             /\ v.kdf = w.kdf /\ v.top = w.top /\ v.last = w.last
             /\ v.addr \in [Root..n -> AddrType]
             /\ \A i \in Root..n : /\ AddrOK(K, i, v.addr[i]) /\ v.addr[i].saved = w.addr[i].saved
                                   /\ v.addr[i].enc => v.addr[i].locked
<1> DEFINE f == [i \in Root..n |-> AddrLock(w.addr[i], w.key)]
<1>1. \A i \in Root..n : i \in Int
  BY DEF Root
<1>2. ASSUME NEW i \in Root..n
      PROVE  /\ AddrOK(K, i, f[i]) /\ f[i].saved = w.addr[i].saved /\ f[i] \in AddrType
             /\ f[i].enc => f[i].locked
  <2>1. AddrOK(K, i, w.addr[i]) /\ i \in Int
    BY <1>1
  <2>2. f[i] = AddrLock(w.addr[i], w.key)
    OBVIOUS
  <2> DEFINE a == w.addr[i]  b == AddrLock(w.addr[i], w.key)  key == w.key
  <2>a. AddrOK(K, i, a) /\ b = AddrLock(a, key) /\ i \in Int
    BY <2>1
  <2> HIDE DEF a, b, key
  <2>3. AddrOK(K, i, b) /\ (a.enc => b.locked) /\ b.saved = a.saved
    BY <2>a, LockOK
  <2>4. f[i] = b /\ w.addr[i] = a
    BY <2>2 DEF a, b
  <2> QED BY <2>a, <2>3, <2>4 DEF AddrOK
<1>3. f \in [Root..n -> AddrType]
  BY <1>2
<1>4. lock(w) = [w EXCEPT !.addr = f, !.key = None, !.locked = TRUE]
  BY DEF lock
<1> HIDE DEF f
<1>5. lock(w) = [enc |-> TRUE, locked |-> TRUE, key |-> None, kdf |-> w.kdf,
                 top |-> w.top, last |-> w.last, addr |-> f]
  BY <1>4, ZenonT(60) DEF WalletRecord
<1>6. PICK v : v = lock(w)
  OBVIOUS
<1>7. /\ WalletRecord(v) /\ v.enc = TRUE /\ v.locked = TRUE /\ v.key = None
      /\ v.kdf = w.kdf /\ v.top = w.top /\ v.last = w.last /\ v.addr = f
  BY <1>5, <1>6 DEF WalletRecord
<1> QED BY <1>2, <1>3, <1>6, <1>7

\* The end of changeWalletEncryption, from the object w whose keys are in the clear
\* and encrypted under L.
LEMMA AfterEncryptionKeeps ==
  ASSUME NEW K \in AESKey \cup {None}, KInv(K), todo = <<>>, given' = given, ~mem.locked,
         NEW L \in AESKey \cup {None}, NEW new \in AESKey \cup {None},
         NEW w, WalletRecord(w), w.enc = (new # None), w.locked = FALSE, w.kdf = mem.kdf, w.top = mem.top,
         w.last = mem.last, NEW n \in Nat, n \in {mem.last, mem.last + 1}, w.addr \in [Root..n -> AddrType],
         \A i \in Root..n : /\ AddrOK(L, i, w.addr[i]) /\ ~w.addr[i].locked
                            /\ w.addr[i].saved <=> i <= mem.last,
         new = None => w.key \in (IF L = None THEN AESKey ELSE {L}) \cup {None, Destroyed},
         AfterEncryption(w, new),
         failed \subseteq failed', disk'.enc \in BOOLEAN, L # None => disk'.enc, disk'.top = disk.top,
         disk'.kdf = disk.kdf, disk'.addr \in [Root..mem.last -> RecType],
         \A i \in Root..mem.last : RecOK(L, i, disk'.addr[i]), phrase' \in Passphrase \cup {None}
  PROVE  /\ MemRecord' /\ Shape' /\ KeysOK(L)' /\ FlagsOK(L)' /\ LocksOK(L)' /\ TodoOK' /\ NextOK' /\ GivenOK'
         /\ mem'.enc = (new # None) /\ mem'.kdf = mem.kdf
<1>1. DOMAIN w.addr = Root..n /\ DOMAIN disk'.addr = Root..mem.last /\ mem.last \in Nat
      /\ Root \in Root..n /\ AddrOK(L, Root, w.addr[Root])
  BY DEF KInv, Shape, Root
<1>2. ASSUME mem'.top = mem.top, mem'.last = mem.last, ~Has("touch")'
      PROVE  GivenOK'
  BY <1>2 DEF KInv, GivenOK
<1>3. ASSUME mem'.top = mem.top, mem'.last = mem.last, mem'.kdf = mem.kdf, mem'.enc \in BOOLEAN, mem'.locked \in BOOLEAN,
             mem'.addr \in [Root..n -> AddrType]
      PROVE  Shape'
  BY <1>3, Zenon DEF KInv, Shape
<1>4. CASE new = None
  <2>1. mem' = w /\ todo' = <<>>
    BY <1>4, ZenonT(60) DEF AfterEncryption
  <2>2. TodoOK' /\ NextOK' /\ ~Unlocks' /\ ~Has("touch")'
    BY <2>1, NothingToDo
  <2>3. MemRecord' /\ Shape' /\ GivenOK' /\ mem'.enc = FALSE
    BY <1>2, <1>3, <1>4, <2>1, <2>2, Zenon DEF MemRecord, WalletRecord
  <2>4. KeysOK(L)'
    BY <1>1, <1>4, <2>1 DEF KeysOK
  <2>5. FlagsOK(L)'
    BY <1>1, <1>4, <2>1, ZenonT(60) DEF FlagsOK, AllOpen, Open
  <2>6. LocksOK(L)'
    BY <1>1, <1>4, <2>1, <2>2 DEF LocksOK, AllOpen, Open
  <2> QED BY <1>4, <2>1, <2>2, <2>3, <2>4, <2>5, <2>6
<1>5. CASE new # None
  <2>1. PICK v : /\ v = lock(w) /\ WalletRecord(v) /\ v.enc = TRUE /\ v.locked = TRUE /\ v.key = None
                 /\ v.kdf = w.kdf /\ v.top = w.top /\ v.last = w.last
                 /\ v.addr \in [Root..n -> AddrType]
                 /\ \A i \in Root..n : /\ AddrOK(L, i, v.addr[i]) /\ v.addr[i].saved = w.addr[i].saved
                                       /\ v.addr[i].enc => v.addr[i].locked
    <3>1. w.enc = TRUE
      BY <1>5, Zenon
    <3>2. /\ WalletRecord(lock(w)) /\ lock(w).enc = TRUE /\ lock(w).locked = TRUE /\ lock(w).key = None
          /\ lock(w).kdf = w.kdf /\ lock(w).top = w.top /\ lock(w).last = w.last
          /\ lock(w).addr \in [Root..n -> AddrType]
          /\ \A i \in Root..n : /\ AddrOK(L, i, lock(w).addr[i]) /\ lock(w).addr[i].saved = w.addr[i].saved
                                /\ lock(w).addr[i].enc => lock(w).addr[i].locked
      <4>1. \A i \in Root..n : AddrOK(L, i, w.addr[i])
        OBVIOUS
      <4> QED BY <1>1, <3>1, <4>1, LockWallet, Zenon
    <3> QED BY <3>2
  <2>2. verifyEncryptionKey(v, new) <=> L = new
    <3>1. AddrOK(L, Root, v.addr[Root]) /\ new \in AESKey
      BY <1>1, <1>5, <2>1
    <3> QED BY <3>1, VerifyTells, Zenon
  <2>3. CASE L = new
    <3>1. mem' = [v EXCEPT !.key = new] /\ todo' = Unlocking(w) \o <<Step("destroy", 0)>>
      BY <1>5, <2>1, <2>2, <2>3 DEF AfterEncryption
    <3>2. /\ mem'.enc = TRUE /\ mem'.locked = TRUE /\ mem'.key = new /\ mem'.kdf = mem.kdf
          /\ mem'.top = mem.top /\ mem'.last = mem.last /\ mem'.addr = v.addr /\ MemRecord'
      BY <2>1, <3>1, Zenon DEF MemRecord, WalletRecord
    <3>3. PICK rest \in Seq(StepType) : /\ rest = <<Step("destroy", 0)>>
                                        /\ \A k \in DOMAIN rest : rest[k].op \in {"fill", "lock", "destroy"}
      <4>a. Step("destroy", 0) \in StepType /\ Step("destroy", 0).op = "destroy"
        BY DEF Step, StepType
      <4>1. PICK st \in StepType : st = Step("destroy", 0) /\ st.op = "destroy"
        BY <4>a
      <4>2. <<st>> \in Seq(StepType) /\ \A k \in DOMAIN <<st>> : <<st>>[k].op \in {"fill", "lock", "destroy"}
        <5>1. <<st>> \in Seq(StepType) /\ DOMAIN <<st>> = {1} /\ <<st>>[1] = st
          OBVIOUS
        <5> QED BY <4>1, <5>1
      <4> QED BY <4>1, <4>2, ZenonT(60)
    <3>4. DOMAIN mem'.addr = Root..n /\ todo' = Unlocking(w) \o rest
      BY <2>1, <3>1, <3>2, <3>3, ZenonT(60)
    <3>5. TodoOK' /\ NextOK' /\ Unlocks' /\ ~Has("touch")' /\ todo'[1].op = "open" /\ todo'[1].arg = Root
      BY <1>1, <3>3, <3>4, UnlockTodo, Zenon
    <3>6. Shape' /\ GivenOK'
      BY <1>2, <1>3, <2>1, <3>2, <3>5, Zenon
    <3>7. KeysOK(L)'
      BY <1>1, <1>5, <2>1, <2>3, <3>2, ZenonT(60) DEF KeysOK
    <3>8. FlagsOK(L)'
      BY <1>5, <2>3, <3>2 DEF FlagsOK
    <3>9. LocksOK(L)'
      <4>1. \A i \in DOMAIN mem'.addr : ~(i < Root)
        BY <3>4 DEF Root
      <4>2. new # Destroyed
        BY <1>5, NoneFacts, Zenon
      <4> QED BY <1>5, <2>3, <3>2, <3>5, <4>1, <4>2 DEF LocksOK
    <3> QED BY <1>5, <3>2, <3>5, <3>6, <3>7, <3>8, <3>9, Zenon
  <2>4. CASE L # new
    <3>1. mem' = v /\ todo' = <<>>
      BY <1>5, <2>1, <2>2, <2>4, Zenon DEF AfterEncryption
    <3>2. /\ mem'.enc = TRUE /\ mem'.locked = TRUE /\ mem'.key = None /\ mem'.kdf = mem.kdf
          /\ mem'.top = mem.top /\ mem'.last = mem.last /\ mem'.addr = v.addr /\ MemRecord'
      BY <2>1, <3>1, Zenon DEF MemRecord, WalletRecord
    <3>3. TodoOK' /\ NextOK' /\ ~Unlocks' /\ ~Has("touch")'
      BY <3>1, NothingToDo, Zenon
    <3>4. Shape' /\ GivenOK'
      BY <1>2, <1>3, <2>1, <3>2, <3>3, Zenon
    <3>5. KeysOK(L)'
      BY <1>1, <2>1, <3>2, ZenonT(60) DEF KeysOK
    <3>6. FlagsOK(L)'
      BY <3>2 DEF FlagsOK
    <3>7. LocksOK(L)'
      BY <2>1, <3>2, <3>3, Zenon DEF LocksOK, AllLocked
    <3> QED BY <1>5, <3>2, <3>3, <3>4, <3>5, <3>6, <3>7, ZenonT(60)
  <2> QED BY <2>3, <2>4
<1> QED BY <1>4, <1>5

\* The wallet whose encryption may be changed is open.
LEMMA EncryptGuard ==
  ASSUME NEW K \in AESKey \cup {None}, KInv(K), todo = <<>>, mem.enc => ~mem.locked /\ mem.key # None
  PROVE  AllOpen /\ ~mem.locked /\ (mem.enc => K # None) /\ mem.locked = FALSE
<1>1. ~Unlocks
  BY DEF Unlocks
<1> QED BY <1>1 DEF KInv, FlagsOK, LocksOK, Shape

\* changeWalletEncryption keeps the invariant: all keys change in one update, or none.
LEMMA ChangeEncryptionKeeps ==
  ASSUME NEW K \in AESKey \cup {None}, KInv(K), NEW p \in Passphrase \cup {None}, changeWalletEncryption(p)
  PROVE  IInv'
<1>a. p # None => DeriveKey(mem.kdf, p) \in AESKey
  <2>1. p # None => p \in Passphrase /\ mem.kdf \in Kdf
    BY DEF KInv, Shape, changeWalletEncryption
  <2> QED BY <2>1, Zenon DEF DeriveKey, AESKey
<1>b. PICK new \in AESKey \cup {None} : new = IF p = None THEN None ELSE DeriveKey(mem.kdf, p)
  BY <1>a, Zenon
<1>1. /\ todo = <<>> /\ given' = given /\ (p # None => mem.kdf # None)
      /\ mem.enc => ~mem.locked /\ mem.key # None
      /\ Encrypt(Reencrypted(new), new, p)
  BY <1>b DEF changeWalletEncryption, Idle
<1>2. new # None => new = DeriveKey(mem.kdf, p)
  BY <1>b
<1>c. PICK addrs : addrs = Reencrypted(new)
  OBVIOUS
<1>3. AllOpen /\ ~mem.locked /\ (mem.enc => K # None) /\ mem.locked = FALSE
  BY <1>1, EncryptGuard, Zenon
<1>4. PICK n \in Nat : DOMAIN mem.addr = Root..n /\ n \in {mem.last, mem.last + 1} /\ mem.last \in Nat
                       /\ mem.addr \in [Root..n -> AddrType]
  <2>1. PICK n \in {mem.last, mem.last + 1} : mem.addr \in [Root..n -> AddrType]
    BY DEF KInv, Shape
  <2>2. mem.last \in Nat /\ n \in Nat
    BY DEF KInv, Shape
  <2> QED BY <2>1, <2>2
<1>5. \A i \in Root..n : /\ i \in Int /\ AddrOK(K, i, mem.addr[i]) /\ ~mem.addr[i].locked
                         /\ (mem.addr[i].saved <=> i <= mem.last)
  BY <1>3, <1>4 DEF KInv, KeysOK, AllOpen, Open, Root
<1>6. /\ DOMAIN addrs = Root..n
      /\ \A i \in Root..n : AddrOK(new, i, addrs[i]) /\ ~addrs[i].locked /\ addrs[i].saved = mem.addr[i].saved
  <2>1. PICK old : addrs = [i \in Root..n |-> changeEncryptionKey(mem.addr[i], old, new)]
    BY <1>4, <1>c DEF Reencrypted
  <2>2. ASSUME NEW i \in Root..n
        PROVE  AddrOK(new, i, addrs[i]) /\ ~addrs[i].locked /\ addrs[i].saved = mem.addr[i].saved
    <3> DEFINE a == mem.addr[i]  b == changeEncryptionKey(a, old, new)
    <3>1. AddrOK(K, i, a) /\ ~a.locked /\ i \in Int /\ addrs[i] = b /\ b = changeEncryptionKey(a, old, new)
      BY <1>5, <2>1
    <3> HIDE DEF a, b
    <3>a. AddrOK(K, i, a) /\ ~a.locked /\ i \in Int
      BY <3>1
    <3>b. /\ AddrOK(new, i, changeEncryptionKey(a, old, new))
          /\ ~changeEncryptionKey(a, old, new).locked
          /\ changeEncryptionKey(a, old, new).saved = a.saved
      BY <3>a, ReencryptOK
    <3>2. AddrOK(new, i, b) /\ ~b.locked /\ b.saved = a.saved
      BY <3>1, <3>b
    <3> QED BY <3>1, <3>2 DEF a
  <2> QED BY <2>1, <2>2
<1>7. addrs \in [Root..n -> AddrType]
  <2>1. \A i \in Root..n : addrs[i] \in AddrType
    BY <1>6 DEF AddrOK
  <2>2. addrs = [i \in Root..n |-> addrs[i]]
    BY <1>4, <1>c DEF Reencrypted
  <2> QED BY <2>1, <2>2
<1>8. CASE /\ Writable(DOMAIN addrs)
           /\ Applied([disk EXCEPT !.enc = IF mem.enc = (new # None) THEN @ ELSE new # None,
                                   !.addr = [i \in DOMAIN addrs |-> serialize(addrs[i])]])
           /\ phrase' = p
           /\ AfterEncryption([mem EXCEPT !.addr = addrs, !.enc = new # None], new)
  <2>1. n = mem.last
    <3>1. n \in Root..n
      BY DEF Root
    <3>2. mem.addr[n].saved
      BY <1>6, <1>8, <3>1 DEF Writable
    <3> QED BY <1>4, <1>5, <3>1, <3>2
  <2>2. /\ disk'.addr = [i \in Root..n |-> serialize(addrs[i])] /\ disk'.top = disk.top /\ disk'.kdf = disk.kdf
        /\ failed' = failed /\ DiskRecord'
        /\ disk'.enc = IF mem.enc = (new # None) THEN disk.enc ELSE new # None
    BY <1>6, <1>8, ZenonT(60) DEF KInv, DiskRecord, Applied
  <2>3. \A i \in Root..n : RecOK(new, i, disk'.addr[i])
    <3> TAKE i \in Root..n
    <3>1. PICK a : a = addrs[i] /\ AddrOK(new, i, a) /\ i \in Int
      BY <1>5, <1>6
    <3>2. RecOK(new, i, serialize(a))
      BY <1>2, <3>1, SerializeOK
    <3> QED BY <2>2, <3>1, <3>2
  <2>4. disk'.addr \in [Root..mem.last -> RecType]
    BY <2>1, <2>2, <2>3 DEF RecOK
  <2>5. disk'.enc \in BOOLEAN /\ (new # None => disk'.enc) /\ disk.enc \in BOOLEAN /\ mem.enc \in BOOLEAN
    <3>1. mem.enc => disk.enc
      BY <1>3 DEF KInv, FlagsOK
    <3>2. disk.enc \in BOOLEAN /\ mem.enc \in BOOLEAN
      BY DEF KInv, Shape
    <3> QED BY <2>2, <3>1, <3>2, Zenon
  <2>6. PICK w : w = [mem EXCEPT !.addr = addrs, !.enc = new # None]
    OBVIOUS
  <2>7. /\ WalletRecord(w) /\ w.enc = (new # None) /\ w.locked = FALSE /\ w.kdf = mem.kdf /\ w.top = mem.top
        /\ w.last = mem.last /\ w.addr = addrs /\ w.key = mem.key
    BY <1>3, <2>6, ZenonT(60) DEF KInv, MemRecord, WalletRecord
  <2>8. new = None => w.key \in (IF new = None THEN AESKey ELSE {new}) \cup {None, Destroyed}
    BY <2>7 DEF KInv, KeysOK
  <2>9. AfterEncryption(w, new) /\ phrase' \in Passphrase \cup {None}
    BY <1>8, <2>6
  <2>10. /\ MemRecord' /\ Shape' /\ KeysOK(new)' /\ FlagsOK(new)' /\ LocksOK(new)' /\ TodoOK' /\ NextOK' /\ GivenOK'
         /\ mem'.enc = (new # None) /\ mem'.kdf = mem.kdf
    <3>1. \A i \in Root..n : /\ AddrOK(new, i, w.addr[i]) /\ ~w.addr[i].locked
                             /\ w.addr[i].saved <=> i <= mem.last
      BY <1>5, <1>6, <2>7, Zenon
    <3>2. w.addr \in [Root..n -> AddrType] /\ \A i \in Root..mem.last : RecOK(new, i, disk'.addr[i])
      BY <1>7, <2>1, <2>3, <2>7, Zenon
    <3> QED BY <1>1, <1>2, <1>3, <1>4, <2>2, <2>4, <2>5, <2>7, <2>8, <2>9, <3>1, <3>2, AfterEncryptionKeeps, ZenonT(60)
  <2>11. NotFailed(new)'
    <3>1. ASSUME failed \cap {"encrypt", "kdf"} = {}
          PROVE  disk'.enc = mem'.enc /\ (mem'.enc <=> new # None) /\ disk'.kdf = mem'.kdf
      <4>1. disk.enc = mem.enc /\ disk.kdf = mem.kdf
        BY <3>1 DEF KInv, NotFailed
      <4> QED BY <2>2, <2>5, <2>10, <4>1, ZenonT(60)
    <3>2. new # None => new = DeriveKey(mem'.kdf, phrase')
      BY <1>2, <1>8, <2>10, ZenonT(60)
    <3> QED BY <2>2, <3>1, <3>2, ZenonT(60) DEF NotFailed
  <2>12. KInv(new)'
    BY <2>2, <2>10, <2>11 DEF KInv
  <2> QED BY <1>2, <2>12, Zenon DEF IInv
<1>9. CASE /\ NotApplied("encrypt", DOMAIN addrs)
           /\ AfterEncryption([mem EXCEPT !.enc = new # None], new)
           /\ UNCHANGED phrase
  <2>1. disk' = disk /\ failed' = failed \cup {"encrypt"}
    BY <1>9 DEF NotApplied
  <2>2. PICK w : w = [mem EXCEPT !.enc = new # None]
    BY Zenon
  <2>3. /\ WalletRecord(w) /\ w.enc = (new # None) /\ w.locked = FALSE /\ w.kdf = mem.kdf /\ w.top = mem.top
        /\ w.last = mem.last /\ w.addr = mem.addr /\ w.key = mem.key
    BY <1>3, <2>2 DEF KInv, MemRecord, WalletRecord
  <2>4. new = None => w.key \in (IF K = None THEN AESKey ELSE {K}) \cup {None, Destroyed}
    BY <2>3 DEF KInv, KeysOK
  <2>5. AfterEncryption(w, new) /\ phrase' \in Passphrase \cup {None}
    BY <1>9, <2>2 DEF KInv, Shape
  <2>6. /\ MemRecord' /\ Shape' /\ KeysOK(K)' /\ FlagsOK(K)' /\ LocksOK(K)' /\ TodoOK' /\ NextOK' /\ GivenOK'
    <3>1. \A i \in Root..n : /\ AddrOK(K, i, w.addr[i]) /\ ~w.addr[i].locked
                             /\ w.addr[i].saved <=> i <= mem.last
      BY <1>5, <2>3, Zenon
    <3>2. /\ disk'.enc \in BOOLEAN /\ (K # None => disk'.enc) /\ disk'.addr \in [Root..mem.last -> RecType]
          /\ \A i \in Root..mem.last : RecOK(K, i, disk'.addr[i])
      BY <2>1, Zenon DEF KInv, Shape, FlagsOK, KeysOK
    <3>3. w.addr \in [Root..n -> AddrType] /\ failed \subseteq failed' /\ disk'.top = disk.top /\ disk'.kdf = disk.kdf
      BY <1>4, <2>1, <2>3
    <3> QED BY <1>1, <1>2, <1>3, <1>4, <2>3, <2>4, <2>5, <3>1, <3>2, <3>3, AfterEncryptionKeeps, ZenonT(60)
  <2>7. DiskRecord' /\ NotFailed(K)'
    BY <2>1 DEF KInv, DiskRecord, NotFailed
  <2>8. KInv(K)'
    BY <2>6, <2>7 DEF KInv
  <2> QED BY <2>8 DEF IInv
<1> QED BY <1>1, <1>c, <1>8, <1>9 DEF Encrypt

-----------------------------------------------------------------------------
(* A new wallet. *)

\* The root address of a new wallet.
RootAddr(key) ==
  [enc |-> key # None, locked |-> FALSE, plain |-> Root,
   cipher |-> IF key = None THEN None ELSE EncryptCFB(key, Root),
   base |-> None, depth |-> -1, saved |-> TRUE]

\* The root address of a new wallet is good.
LEMMA RootAddrOK ==
  ASSUME NEW key \in AESKey \cup {None}
  PROVE  AddrOK(key, Root, RootAddr(key)) /\ ~RootAddr(key).locked /\ RootAddr(key).saved
<1>1. PICK a : a = RootAddr(key)
  OBVIOUS
<1>2. PICK c : c = (IF key = None THEN None ELSE EncryptCFB(key, Root)) /\ c \in AESCipher \cup {None}
               /\ (key = None => c = None) /\ (key # None => c = EncryptCFB(key, Root))
  <2>1. Root \in Int
    BY DEF Root
  <2>2. key # None => EncryptCFB(key, Root) \in AESCipher
    BY <2>1, CipherFacts, Zenon
  <2> QED BY <2>2
<1>3. a = [enc |-> key # None, locked |-> FALSE, plain |-> Root, cipher |-> c,
           base |-> None, depth |-> -1, saved |-> TRUE]
  BY <1>1, <1>2 DEF RootAddr
<1>4. /\ a \in AddrType /\ (a.enc <=> key # None) /\ a.locked = FALSE /\ a.plain = Root /\ a.cipher = c
      /\ a.base = None /\ a.saved = TRUE
  <2>1. PICK e \in BOOLEAN : e = (key # None)
    BY Zenon
  <2>2. a = [enc |-> e, locked |-> FALSE, plain |-> Root, cipher |-> c,
             base |-> None, depth |-> -1, saved |-> TRUE]
    BY <1>3, <2>1
  <2>3. Root \in Int \cup {None} /\ -1 \in Int /\ c \in AESCipher \cup {None} /\ None \in AESCipher \cup {None}
    BY <1>2 DEF Root
  <2>4. /\ a.enc = e /\ a.locked = FALSE /\ a.plain = Root /\ a.cipher = c
        /\ a.base = None /\ a.saved = TRUE
    BY <2>2
  <2>5. a \in AddrType
    BY <2>2, <2>3 DEF AddrType
  <2> QED BY <2>1, <2>4, <2>5, Zenon
<1>5. AddrOK(key, Root, a)
  BY <1>2, <1>4, ZenonT(60) DEF AddrOK, Own, Root
<1> QED BY <1>1, <1>4, <1>5

\* createNewWallet makes an open wallet with two good addresses.
LEMMA NewWalletOK ==
  ASSUME NEW key \in AESKey \cup {None}
  PROVE  LET w == NewWallet(key)
         IN  /\ WalletRecord(w) /\ w.enc = (key # None) /\ w.locked = FALSE /\ w.key = key
             /\ w.kdf = (IF key = None THEN None ELSE key[2]) /\ w.top = Root /\ w.last = 0
             /\ w.addr \in [Root..0 -> AddrType]
             /\ \A i \in Root..0 : AddrOK(key, i, w.addr[i]) /\ ~w.addr[i].locked /\ w.addr[i].saved
<1> DEFINE first == Saved(extendAddressChain(RootAddr(key), key))
           f == [i \in {Root, 0} |-> IF i = Root THEN RootAddr(key) ELSE first]
<1>1. AddrOK(key, Root, RootAddr(key)) /\ ~RootAddr(key).locked /\ RootAddr(key).saved
  BY RootAddrOK
<1>2. AddrOK(key, 0, first) /\ ~first.locked /\ first.saved
  <2>1. PICK a, new : a = RootAddr(key) /\ new = extendAddressChain(a, key)
    OBVIOUS
  <2>2. Root \in Int /\ Root >= Root /\ Root + 1 = 0 /\ 0 \in Int
    BY DEF Root
  <2>3. AddrOK(key, Root + 1, new) /\ ~new.locked /\ ~new.saved
    <3>1. AddrOK(key, Root, a) /\ ~a.locked
      BY <1>1, <2>1
    <3>2. LET e == extendAddressChain(a, key) IN AddrOK(key, Root + 1, e) /\ ~e.locked /\ ~e.saved
      BY <2>2, <3>1, ExtendOpenOK
    <3> QED BY <2>1, <3>2
  <2>4. AddrOK(key, 0, Saved(new)) /\ Saved(new).saved /\ ~Saved(new).locked
    BY <2>2, <2>3, SavedOK
  <2> QED BY <2>1, <2>4
<1>3. NewWallet(key) = [enc |-> key # None, locked |-> FALSE, key |-> key,
                        kdf |-> IF key = None THEN None ELSE key[2], top |-> Root, last |-> 0, addr |-> f]
  BY DEF NewWallet, RootAddr, Saved
<1> HIDE DEF first
<1>4. DOMAIN f = Root..0 /\ f[Root] = RootAddr(key) /\ f[0] = first /\ \A i \in Root..0 : i \in {Root, 0}
  BY DEF Root
<1>5. f \in [Root..0 -> AddrType]
  <2>1. RootAddr(key) \in AddrType /\ first \in AddrType /\ {Root, 0} = Root..0
    BY <1>1, <1>2 DEF AddrOK, Root
  <2> QED BY <2>1
<1> HIDE DEF f
<1>6. \A i \in Root..0 : AddrOK(key, i, f[i]) /\ ~f[i].locked /\ f[i].saved
  BY <1>1, <1>2, <1>4, Zenon
<1>7. PICK w : w = NewWallet(key)
  OBVIOUS
<1>8. /\ WalletRecord(w) /\ w.enc = (key # None) /\ w.locked = FALSE /\ w.key = key
      /\ w.kdf = (IF key = None THEN None ELSE key[2]) /\ w.top = Root /\ w.last = 0 /\ w.addr = f
  BY <1>3, <1>7 DEF WalletRecord
<1> QED BY <1>5, <1>6, <1>7, <1>8

\* A new wallet satisfies the invariant.
LEMMA InitOK == Init => IInv
<1>1. SUFFICES ASSUME Init PROVE IInv
  OBVIOUS
<1>2. PICK key \in AESKey \cup {None} :
        /\ mem = NewWallet(key)
        /\ disk = [enc |-> mem.enc, kdf |-> mem.kdf, top |-> mem.top,
                   addr |-> [i \in DOMAIN mem.addr |-> serialize(mem.addr[i])]]
        /\ todo = IF key = None THEN <<Step("fill", Pool)>>
                  ELSE Unlocking(mem) \o <<Step("fill", Pool), Step("lock", 0)>>
        /\ phrase = IF key = None THEN None ELSE key[1]
        /\ given = [i \in Index |-> 0]
        /\ failed = {}
  BY <1>1, ZenonT(60) DEF Init
<1>3. /\ WalletRecord(mem) /\ mem.enc = (key # None) /\ mem.locked = FALSE /\ mem.key = key
      /\ mem.kdf = (IF key = None THEN None ELSE key[2]) /\ mem.top = Root /\ mem.last = 0
      /\ mem.addr \in [Root..0 -> AddrType]
      /\ \A i \in Root..0 : AddrOK(key, i, mem.addr[i]) /\ ~mem.addr[i].locked /\ mem.addr[i].saved
  BY <1>2, NewWalletOK, Zenon
<1>4. /\ disk.enc = mem.enc /\ disk.kdf = mem.kdf /\ disk.top = mem.top /\ DiskRecord
      /\ disk.addr = [i \in Root..0 |-> serialize(mem.addr[i])]
  BY <1>2, <1>3, ZenonT(60) DEF DiskRecord
<1>5. \A i \in Root..0 : i \in Int /\ i <= 0 /\ RecOK(key, i, serialize(mem.addr[i])) /\ serialize(mem.addr[i]) \in RecType
  <2> TAKE i \in Root..0
  <2>1. i \in Int /\ i <= 0
    BY DEF Root
  <2>2. PICK a : a = mem.addr[i] /\ AddrOK(key, i, a)
    BY <1>3, ZenonT(60)
  <2>3. RecOK(key, i, serialize(a))
    BY <2>1, <2>2, SerializeOK
  <2> QED BY <2>1, <2>2, <2>3 DEF RecOK
<1>6. key # None => /\ key[1] \in Passphrase /\ key[2] \in Kdf /\ key = DeriveKey(key[2], key[1]) /\ key # Destroyed
  BY NoneFacts DEF AESKey, DeriveKey
<1>7. /\ TodoOK /\ NextOK /\ ~Has("touch")
      /\ key = None => ~Unlocks
      /\ key # None => Unlocks /\ todo[1].op = "open" /\ todo[1].arg = Root
  <2>1. /\ Step("fill", Pool) \in StepType /\ Step("fill", Pool).op = "fill"
        /\ Step("lock", 0) \in StepType /\ Step("lock", 0).op = "lock"
    BY KeysAssumption DEF Step, StepType
  <2>2. PICK fill \in StepType, lck \in StepType : /\ fill = Step("fill", Pool) /\ fill.op = "fill"
                                                   /\ lck = Step("lock", 0) /\ lck.op = "lock"
    BY <2>1
  <2>3. CASE key = None
    <3>1. todo = <<fill>>
      BY <1>2, <2>2, <2>3
    <3>2. todo \in Seq(StepType) /\ DOMAIN todo = {1} /\ todo[1] = fill
      BY <3>1
    <3> QED BY <2>2, <2>3, <3>2 DEF TodoOK, NextOK, Has, Unlocks
  <2>4. CASE key # None
    <3>1. todo = Unlocking(mem) \o <<fill, lck>>
      BY <1>2, <2>2, <2>4
    <3>2. PICK rest : rest = <<fill, lck>>
      BY ZenonT(60)
    <3>3. rest \in Seq(StepType) /\ DOMAIN rest = {1, 2} /\ rest[1] = fill /\ rest[2] = lck
      BY <3>2
    <3>4. \A k \in DOMAIN rest : rest[k].op \in {"fill", "lock", "destroy"}
      BY <2>2, <3>3
    <3>5. DOMAIN mem.addr = Root..0 /\ 0 \in Nat /\ todo = Unlocking(mem) \o rest
      BY <1>3, <3>1, <3>2
    <3> QED BY <2>4, <3>3, <3>4, <3>5, UnlockTodoFirst, Zenon
  <2> QED BY <2>3, <2>4
<1>8. MemRecord
  BY <1>3, ZenonT(60) DEF MemRecord, WalletRecord
<1>9. Shape
  <2>1. given \in [Index -> 0..2]
    BY <1>2
  <2>2. 0 \in Nat /\ Root \in Root..0
    BY DEF Root
  <2>3. disk.addr \in [Root..0 -> RecType]
    BY <1>4, <1>5
  <2>4. mem.kdf \in Kdf \cup {None} /\ phrase \in Passphrase \cup {None}
    BY <1>2, <1>3, <1>6, Zenon
  <2>5. mem.enc \in BOOLEAN /\ disk.enc \in BOOLEAN
    BY <1>3, <1>4, Zenon
  <2> QED BY <1>3, <1>4, <2>1, <2>2, <2>3, <2>4, <2>5, ZenonT(60) DEF Shape
<1>10. KeysOK(key)
  <2>1. \A i \in DOMAIN mem.addr : AddrOK(key, i, mem.addr[i]) /\ (mem.addr[i].saved <=> i <= mem.last)
    BY <1>3, <1>5, Zenon
  <2>2. \A i \in DOMAIN disk.addr : RecOK(key, i, disk.addr[i])
    BY <1>4, <1>5, Zenon
  <2> QED BY <1>3, <2>1, <2>2, ZenonT(60) DEF KeysOK
<1>11. AllOpen
  BY <1>3, Zenon DEF AllOpen, Open
<1>12. FlagsOK(key)
  BY <1>3, <1>4, <1>11, ZenonT(60) DEF FlagsOK
<1>13. LocksOK(key)
  BY <1>3, <1>6, <1>7, <1>11 DEF LocksOK, AllOpen
<1>14. GivenOK
  BY <1>2, <1>3, <1>4, <1>7 DEF GivenOK
<1>15. NotFailed(key)
  <2>1. key # None => phrase = key[1] /\ mem.kdf = key[2]
    BY <1>2, <1>3, Zenon
  <2>2. mem.enc <=> key # None
    BY <1>3, ZenonT(60)
  <2> QED BY <1>4, <1>6, <2>1, <2>2, Zenon DEF NotFailed
<1>16. KInv(key)
  BY <1>4, <1>7, <1>8, <1>9, <1>10, <1>12, <1>13, <1>14, <1>15 DEF KInv
<1> QED BY <1>16 DEF IInv

-----------------------------------------------------------------------------
(* The invariant, and what follows from it. *)

\* The invariant is about the variables alone.
LEMMA StutterKeeps ==
  ASSUME NEW K \in AESKey \cup {None}, KInv(K), UNCHANGED vars
  PROVE  KInv(K)'
<1>1. disk' = disk /\ mem' = mem /\ todo' = todo /\ phrase' = phrase /\ given' = given /\ failed' = failed
  BY DEF vars
<1>2. MemRecord' /\ DiskRecord' /\ Shape' /\ KeysOK(K)'
  BY <1>1 DEF KInv, MemRecord, DiskRecord, Shape, KeysOK
<1>3. FlagsOK(K)' /\ LocksOK(K)' /\ NotFailed(K)'
  BY <1>1, ZenonT(60) DEF KInv, FlagsOK, LocksOK, NotFailed, AllOpen, AllLocked, Open, Unlocks
<1>4. TodoOK' /\ NextOK' /\ GivenOK'
  BY <1>1, ZenonT(60) DEF KInv, TodoOK, NextOK, GivenOK, Has
<1> QED BY <1>2, <1>3, <1>4 DEF KInv

\* Every step keeps the invariant.
LEMMA NextKeeps == IInv /\ [Next]_vars => IInv'
<1>1. SUFFICES ASSUME NEW K \in AESKey \cup {None}, KInv(K), [Next]_vars PROVE IInv'
  BY DEF IInv
<1>2. KInv(K)' => IInv'
  BY DEF IInv
<1>3. CASE UNCHANGED vars
  BY <1>1, <1>2, <1>3, StutterKeeps
<1>4. CASE FillAddressPool
  BY <1>1, <1>2, <1>4, FillKeeps
<1>5. CASE ComputeNextAddress
  BY <1>1, <1>2, <1>5, ComputeNextKeeps, Zenon
<1>6. CASE AdvanceHighestIndex
  BY <1>1, <1>2, <1>6, AdvanceKeeps
<1>7. CASE ReturnAddress
  BY <1>1, <1>2, <1>7, ReturnKeeps
<1>8. CASE UnlockAddress
  BY <1>1, <1>2, <1>8, UnlockAddressKeeps
<1>9. CASE UnlockDone
  BY <1>1, <1>2, <1>9, UnlockDoneKeeps
<1>10. CASE LockStep
  BY <1>1, <1>2, <1>10, LockStepKeeps
<1>11. CASE DestroyKey
  BY <1>1, <1>2, <1>11, DestroyKeyKeeps
<1>12. CASE getNextUnusedAddress
  BY <1>1, <1>2, <1>12, GetNextKeeps
<1>13. CASE Timeout
  BY <1>1, <1>2, <1>13, TimeoutKeeps
<1>14. CASE Restart
  BY <1>1, <1>2, <1>14, RestartKeeps
<1>15. CASE fillAddressPool(Pool + 1)
  BY <1>1, <1>2, <1>15, FillPoolKeeps
<1>16. CASE \E i \in Index : signUnsignedTx(i)
  BY <1>1, <1>2, <1>16, SignKeeps
<1>17. CASE \E p \in Passphrase : unlock(p)
  BY <1>1, <1>2, <1>17, UnlockKeeps
<1>18. CASE \E p \in Passphrase \cup {None} : changeWalletEncryption(p)
  BY <1>1, <1>18, ChangeEncryptionKeeps
<1>19. CASE \E k \in Kdf, p \in Passphrase : changeKdfParams(k, p)
  BY <1>1, <1>2, <1>19, KdfKeeps
<1> QED
  BY <1>1, <1>3, <1>4, <1>5, <1>6, <1>7, <1>8, <1>9, <1>10, <1>11, <1>12, <1>13, <1>14, <1>15,
     <1>16, <1>17, <1>18, <1>19, Zenon DEF Next

\* IInv is an invariant of the wallet keys: at every step of every operation one
\* AES key, or none, is the key of all that is stored.
THEOREM OneKeyAtATime == Spec => []IInv
<1>1. Init => IInv
  BY InitOK
<1>2. IInv /\ [Next]_vars => IInv'
  BY NextKeeps
<1> QED BY <1>1, <1>2, PTL DEF Spec

\* The invariant implies that the file and the passphrase give every key.
LEMMA InvReachable == IInv => KeysStayReachable
<1>1. SUFFICES ASSUME NEW K \in AESKey \cup {None}, KInv(K), failed \cap {"encrypt", "kdf"} = {}
               PROVE  /\ KeysRecoverable /\ FlagMatchesKeys
                      /\ mem.addr[Root].enc => verifyEncryptionKey(mem, DeriveKey(mem.kdf, phrase))
  BY Zenon DEF IInv, KeysStayReachable, KeysSurviveRestart, PassphraseAccepted
<1>2. /\ disk.enc = mem.enc /\ (mem.enc <=> K # None) /\ disk.kdf = mem.kdf
      /\ K # None => K = DeriveKey(mem.kdf, phrase)
  BY <1>1, Zenon DEF KInv, NotFailed
<1>3. \A i \in DOMAIN disk.addr : i \in Int /\ RecOK(K, i, disk.addr[i])
  BY <1>1 DEF KInv, Shape, KeysOK, Root
<1>4. KeysRecoverable
  <2>1. SUFFICES ASSUME NEW i \in DOMAIN disk.addr
                 PROVE  StoredKey(disk.addr[i], DeriveKey(disk.kdf, phrase)) = i
    BY DEF KeysRecoverable
  <2>2. PICK r, D : r = disk.addr[i] /\ D = DeriveKey(disk.kdf, phrase) /\ RecOK(K, i, r) /\ i \in Int
    BY <1>3
  <2>3. CASE K = None
    BY <2>2, <2>3 DEF RecOK, StoredKey
  <2>4. CASE K # None
    <3>1. D = K /\ r.enc /\ K \in AESKey
      BY <1>2, <2>2, <2>4, Zenon DEF RecOK
    <3>2. CASE r.next
      <4>1. r.cipher.key = K /\ r.cipher.priv + r.depth = i
        BY <2>2, <2>4, <3>2, Zenon DEF RecOK, Leads
      <4>2. DecryptCFB(K, r.cipher) = r.cipher.priv
        BY <4>1, Zenon DEF DecryptCFB
      <4> QED BY <2>2, <3>1, <3>2, <4>1, <4>2, Zenon DEF StoredKey
    <3>3. CASE ~r.next
      <4>1. r.cipher = EncryptCFB(K, i)
        BY <2>2, <2>4, <3>3 DEF RecOK
      <4>2. DecryptCFB(K, EncryptCFB(K, i)) = i
        BY <2>2, <3>1, CipherFacts, Zenon
      <4> QED BY <2>2, <3>1, <3>3, <4>1, <4>2, ZenonT(60) DEF StoredKey
    <3> QED BY <3>2, <3>3
  <2> QED BY <2>3, <2>4
<1>5. FlagMatchesKeys
  <2>1. SUFFICES ASSUME NEW i \in DOMAIN disk.addr PROVE disk.addr[i].enc = disk.enc
    BY DEF FlagMatchesKeys
  <2>2. PICK r : r = disk.addr[i] /\ RecOK(K, i, r)
    BY <1>3
  <2>3. r.enc \in BOOLEAN /\ (r.enc <=> K # None)
    BY <2>2, Zenon DEF RecOK, RecType
  <2>4. disk.enc \in BOOLEAN /\ (disk.enc <=> K # None)
    BY <1>1, <1>2 DEF KInv, Shape
  <2> QED BY <2>2, <2>3, <2>4
<1>6. mem.addr[Root].enc => verifyEncryptionKey(mem, DeriveKey(mem.kdf, phrase))
  <2>1. AddrOK(K, Root, mem.addr[Root])
    <3>1. Root \in DOMAIN mem.addr
      BY <1>1, DomainFacts, Zenon
    <3> QED BY <1>1, <3>1 DEF KInv, KeysOK
  <2>2. mem.addr[Root].enc => K \in AESKey /\ K = DeriveKey(mem.kdf, phrase)
    BY <1>2, <2>1 DEF AddrOK
  <2> QED BY <2>1, <2>2, VerifyTells, Zenon
<1> QED BY <1>4, <1>5, <1>6

\* The invariant implies that keys in memory are right, and forgotten when locked.
LEMMA InvPlain == IInv => PlainKeysAreRight
<1>1. SUFFICES ASSUME NEW K \in AESKey \cup {None}, KInv(K) PROVE SignsWithRightKey /\ LockedMeansForgotten
  BY Zenon DEF IInv, PlainKeysAreRight
<1>2. \A i \in DOMAIN mem.addr : AddrOK(K, i, mem.addr[i])
  BY <1>1, Zenon DEF KInv, KeysOK
<1>3. \A i \in DOMAIN mem.addr : mem.addr[i].plain \in {i, None}
  BY <1>2, Zenon DEF AddrOK, Own, Chained
<1>4. \A i \in DOMAIN mem.addr : ~mem.addr[i].locked => mem.addr[i].plain = i
  BY <1>2, Zenon DEF AddrOK, Own, Chained
<1>5. \A i \in DOMAIN mem.addr : mem.addr[i].enc /\ mem.addr[i].locked => mem.addr[i].plain = None
  BY <1>2 DEF AddrOK, Own, Chained
<1>6. Idle => ~Unlocks
  BY DEF Idle, Unlocks
<1>7. SignsWithRightKey
  <2>1. Idle /\ ~mem.locked /\ mem.key # None => AllOpen
    BY <1>1, <1>6 DEF KInv, LocksOK
  <2> QED BY <1>3, <1>4, <2>1, ZenonT(60) DEF SignsWithRightKey, AllOpen, Open
<1>8. LockedMeansForgotten
  <2>1. Idle /\ mem.locked => AllLocked
    BY <1>1, <1>6 DEF KInv, LocksOK
  <2> QED BY <1>5, <2>1 DEF LockedMeansForgotten, AllLocked
<1> QED BY <1>7, <1>8

\* KeysStayReachable, always: whatever passphrases, KDF parameters, pool size, failed
\* updates and crashes, as long as no update of changeWalletEncryption or
\* changeKdfParams failed, the passphrase and the file give every private key, the
\* flag of the file tells whether they are encrypted, and unlock accepts the passphrase.
THEOREM ReachableAlways == Spec => []KeysStayReachable
BY OneKeyAtATime, InvReachable, PTL

\* PlainKeysAreRight, always: signUnsignedTx never signs with a key of another
\* address, and lock leaves no plaintext of an encrypted key.
THEOREM PlainAlwaysRight == Spec => []PlainKeysAreRight
BY OneKeyAtATime, InvPlain, PTL

\* NoAddressTwice, always: getNextUnusedAddress hands out no address twice, across
\* any crashes, unless an update of the highest used index failed.
THEOREM NeverTwice == Spec => []NoAddressTwice
<1>1. IInv => NoAddressTwice
  BY DEF IInv, KInv, GivenOK, NoAddressTwice
<1> QED BY <1>1, OneKeyAtATime, PTL
=============================================================================
