-------------------------- MODULE WalletKeysSteps --------------------------
(***************************************************************************)
(* The proof that IInv is an invariant of WalletKeys, for every set of     *)
(* passphrases and KDF parameters, every pool size, every choice of the    *)
(* updates that may fail and any length of the chain.  Here: the facts     *)
(* about one address and about the list of steps, and one lemma for each   *)
(* action but those in WalletKeysProofs.                                   *)
(***************************************************************************)
EXTENDS WalletKeysInductive, TLAPS

-----------------------------------------------------------------------------
(* One address. *)

\* The chain index that Load takes for the last one.
LEMMA MaxOfChain ==
  ASSUME NEW n \in Int, n >= Root
  PROVE  Max(Root..n) = n
<1>1. n \in Root..n /\ \A y \in Root..n : n >= y
  BY DEF Root
<1>2. \A x \in Root..n : (\A y \in Root..n : x >= y) => x = n
  BY DEF Root
<1> QED BY <1>1, <1>2 DEF Max

\* Python's max of two numbers.
LEMMA MaxOfTwo ==
  ASSUME NEW a \in Int, NEW b \in Int
  PROVE  Max({a, b}) = IF a >= b THEN a ELSE b
<1>1. \A x \in {a, b} : (\A y \in {a, b} : x >= y) <=> x = (IF a >= b THEN a ELSE b)
  OBVIOUS
<1>2. (IF a >= b THEN a ELSE b) \in {a, b}
  OBVIOUS
<1> QED BY <1>1, <1>2 DEF Max

\* Python's min of two numbers.
LEMMA MinOfTwo ==
  ASSUME NEW a \in Int, NEW b \in Int
  PROVE  Min({a, b}) = IF a <= b THEN a ELSE b
<1>1. \A x \in {a, b} : (\A y \in {a, b} : x <= y) <=> x = (IF a <= b THEN a ELSE b)
  OBVIOUS
<1>2. (IF a <= b THEN a ELSE b) \in {a, b}
  OBVIOUS
<1> QED BY <1>1, <1>2 DEF Min

-----------------------------------------------------------------------------

\* None is no key, no number and no ciphertext.
LEMMA NoneFacts ==
  /\ None \notin AESKey /\ None \notin Int /\ None \notin AESCipher /\ None \notin Passphrase
  /\ None \notin Kdf /\ Destroyed \notin AESKey /\ Destroyed # None
BY NoneAssumption DEF AESCipher

\* What EncryptCFB returns is a ciphertext of its arguments.
LEMMA CipherFacts ==
  ASSUME NEW K \in AESKey, NEW i \in Int
  PROVE  /\ EncryptCFB(K, i) \in AESCipher /\ EncryptCFB(K, i) # None
         /\ DecryptCFB(K, EncryptCFB(K, i)) = i
         /\ EncryptCFB(K, i).key = K /\ EncryptCFB(K, i).priv = i
BY NoneFacts DEF AESCipher, EncryptCFB, DecryptCFB

\* serialize writes an address in the form that the file may hold.
LEMMA SerializeOK ==
  ASSUME NEW K \in AESKey \cup {None}, NEW i \in Int, NEW a, AddrOK(K, i, a)
  PROVE  RecOK(K, i, serialize(a))
<1> USE NoneFacts DEF AddrType, RecType
<1>0. a \in AddrType
  BY DEF AddrOK
<1>1. CASE K = None
  <2>1. serialize(a) = [enc |-> FALSE, next |-> FALSE, depth |-> a.depth, cipher |-> None, plain |-> i]
    BY <1>0, <1>1, Zenon DEF AddrOK, serialize, createPrivKeyNextUnlock
  <2> QED BY <1>0, <1>1, <2>1 DEF RecOK
<1>2. CASE K # None /\ Own(K, i, a)
  <2>0. EncryptCFB(K, i) \in AESCipher /\ EncryptCFB(K, i) # None
    BY <1>2, CipherFacts
  <2>1. serialize(a) = [enc |-> TRUE, next |-> FALSE, depth |-> a.depth, cipher |-> EncryptCFB(K, i), plain |-> None]
    BY <1>0, <1>2, <2>0, Zenon DEF AddrOK, Own, serialize, createPrivKeyNextUnlock
  <2> QED BY <1>0, <1>2, <2>0, <2>1 DEF RecOK
<1>3. CASE K # None /\ Chained(K, i, a)
  <2>1. serialize(a) = [enc |-> TRUE, next |-> TRUE, depth |-> a.depth, cipher |-> a.base, plain |-> None]
    BY <1>0, <1>3, Zenon DEF AddrOK, Chained, Leads, serialize, createPrivKeyNextUnlock
  <2> QED BY <1>0, <1>3, <2>1 DEF RecOK, Chained, Leads
<1> QED BY <1>1, <1>2, <1>3 DEF AddrOK

\* unserialize yields a good address, locked if its key is encrypted.
LEMMA UnserializeOK ==
  ASSUME NEW K \in AESKey \cup {None}, NEW i \in Int, NEW r, RecOK(K, i, r)
  PROVE  /\ AddrOK(K, i, unserialize(r))
         /\ unserialize(r).locked <=> K # None
         /\ unserialize(r).saved
<1> USE NoneFacts DEF AddrType, RecType
<1>0. r \in RecType /\ (r.enc <=> K # None)
  BY DEF RecOK
<1>1. unserialize(r) = [enc |-> r.enc, locked |-> r.enc, plain |-> r.plain,
          cipher |-> IF r.next THEN None ELSE r.cipher,
          base |-> IF r.next THEN r.cipher ELSE None, depth |-> r.depth, saved |-> TRUE]
  BY DEF unserialize
<1>2. CASE K = None
  BY <1>0, <1>1, <1>2 DEF AddrOK, RecOK
<1>3. CASE K # None /\ r.next
  <2>1. Chained(K, i, unserialize(r))
    BY <1>0, <1>1, <1>3 DEF RecOK, Chained, Leads
  <2> QED BY <1>0, <1>1, <1>3, <2>1 DEF AddrOK, RecOK
<1>4. CASE K # None /\ ~r.next
  <2>0. EncryptCFB(K, i) \in AESCipher /\ EncryptCFB(K, i) # None
    BY <1>4, CipherFacts
  <2>1. Own(K, i, unserialize(r))
    BY <1>0, <1>1, <1>4 DEF RecOK, Own
  <2> QED BY <1>0, <1>1, <1>4, <2>0, <2>1 DEF AddrOK, RecOK
<1> QED BY <1>0, <1>2, <1>3, <1>4

\* PyBtcAddress.lock keeps an address good, and locks it if it is encrypted.
LEMMA LockOK ==
  ASSUME NEW K \in AESKey \cup {None}, NEW i \in Int, NEW a, NEW key, AddrOK(K, i, a)
  PROVE  /\ AddrOK(K, i, AddrLock(a, key))
         /\ a.enc => AddrLock(a, key).locked
         /\ AddrLock(a, key).saved = a.saved
<1> USE NoneFacts DEF AddrType
<1>0. a \in AddrType /\ (a.enc <=> K # None)
  BY DEF AddrOK
<1>1. CASE K = None
  BY <1>0, <1>1 DEF AddrOK, AddrLock
<1>2. CASE K # None /\ Own(K, i, a)
  <2>0. EncryptCFB(K, i) \in AESCipher /\ EncryptCFB(K, i) # None
    BY <1>2, CipherFacts
  <2>1. AddrLock(a, key) = [a EXCEPT !.cipher = a.cipher, !.plain = None, !.locked = TRUE]
    BY <1>0, <1>2, <2>0 DEF Own, AddrLock
  <2>2. Own(K, i, AddrLock(a, key))
    BY <1>0, <1>2, <2>1 DEF Own
  <2> QED BY <1>0, <1>2, <2>0, <2>1, <2>2, Zenon DEF AddrOK
<1>3. CASE K # None /\ Chained(K, i, a)
  BY <1>0, <1>3 DEF AddrOK, Chained, AddrLock
<1> QED BY <1>1, <1>2, <1>3 DEF AddrOK

\* The address that unlock builds has the type of an address.
LEMMA OpenedType ==
  ASSUME NEW a \in AddrType, NEW p \in Int, NEW c \in AESCipher
  PROVE  [a EXCEPT !.plain = p, !.locked = FALSE, !.base = None, !.cipher = c, !.depth = 0] \in AddrType
<1> DEFINE b == [a EXCEPT !.plain = p, !.locked = FALSE, !.base = None]
<1>1. b \in AddrType
  BY Zenon DEF AddrType
<1>2. [a EXCEPT !.plain = p, !.locked = FALSE, !.base = None, !.cipher = c, !.depth = 0]
         = [b EXCEPT !.cipher = c, !.depth = 0]
  OBVIOUS
<1> HIDE DEF b
<1>3. [b EXCEPT !.cipher = c, !.depth = 0] \in AddrType
  <2> DEFINE d == [b EXCEPT !.cipher = c]
  <2>1. d \in AddrType
    BY <1>1 DEF AddrType
  <2>2. [b EXCEPT !.cipher = c, !.depth = 0] = [d EXCEPT !.depth = 0]
    OBVIOUS
  <2> HIDE DEF d
  <2>3. [d EXCEPT !.depth = 0] \in AddrType
    BY <2>1 DEF AddrType
  <2> QED BY <2>2, <2>3
<1> QED BY <1>2, <1>3

\* PyBtcAddress.unlock, with the key in use, yields the private key of the address.
LEMMA UnlockOK ==
  ASSUME NEW K \in AESKey, NEW i \in Int, NEW a, AddrOK(K, i, a), i >= Root
  PROVE  /\ AddrOK(K, i, AddrUnlock(a, K))
         /\ ~AddrUnlock(a, K).locked
         /\ AddrUnlock(a, K).plain = i
         /\ AddrUnlock(a, K).saved = a.saved
<1> USE NoneFacts DEF AddrType
<1>0. a \in AddrType /\ a.enc
  BY DEF AddrOK
<1>1. EncryptCFB(K, i) \in AESCipher /\ EncryptCFB(K, i) # None /\ DecryptCFB(K, EncryptCFB(K, i)) = i
  BY CipherFacts
<1>2. CASE ~a.locked
  <2>1. AddrUnlock(a, K) = [a EXCEPT !.locked = FALSE]
    BY <1>2 DEF AddrUnlock
  <2>2. Own(K, i, a)
    BY <1>2 DEF AddrOK, Chained
  <2>3. Own(K, i, AddrUnlock(a, K))
    BY <1>0, <1>2, <2>1, <2>2 DEF Own
  <2> QED BY <1>0, <1>2, <2>1, <2>2, <2>3, Zenon DEF Own, AddrOK
<1>3. CASE a.locked /\ Own(K, i, a)
  <2>1. UnlockedKey(a, K) = i
    BY <1>1, <1>3 DEF Own, UnlockedKey, createPrivKeyNextUnlock
  <2>2. AddrUnlock(a, K) = [a EXCEPT !.plain = i, !.locked = FALSE, !.base = None, !.cipher = a.cipher, !.depth = a.depth]
    BY <1>0, <1>3, <2>1 DEF AddrUnlock, Own, createPrivKeyNextUnlock
  <2>3. Own(K, i, AddrUnlock(a, K))
    BY <1>0, <1>3, <2>2 DEF Own
  <2>4. AddrUnlock(a, K) \in AddrType /\ AddrUnlock(a, K).enc
    BY <1>0, <2>2, Zenon
  <2>5. ~AddrUnlock(a, K).locked /\ AddrUnlock(a, K).plain = i /\ AddrUnlock(a, K).saved = a.saved
    BY <1>0, <2>2
  <2> HIDE DEF AddrType
  <2> QED BY <2>3, <2>4, <2>5 DEF AddrOK
<1>4. CASE Chained(K, i, a)
  <2>0. a.base # None /\ a.base \in AESCipher
    BY <1>4 DEF Chained, Leads
  <2>1. DecryptCFB(K, a.base) = a.base.priv /\ a.base.priv # WrongKey /\ a.base.priv + a.depth = i
    BY <1>4 DEF Chained, Leads, DecryptCFB, WrongKey, Root, AESCipher
  <2>2. UnlockedKey(a, K) = i
    BY <2>0, <2>1 DEF UnlockedKey, createPrivKeyNextUnlock
  <2>3. AddrUnlock(a, K) = [a EXCEPT !.plain = i, !.locked = FALSE, !.base = None, !.cipher = EncryptCFB(K, i), !.depth = 0]
    BY <1>0, <1>4, <2>0, <2>2 DEF AddrUnlock, Chained, createPrivKeyNextUnlock
  <2>4. Own(K, i, AddrUnlock(a, K))
    BY <1>0, <2>3 DEF Own
  <2>a. AddrUnlock(a, K) \in AddrType
    <3> HIDE DEF AddrType
    <3>1. [a EXCEPT !.plain = i, !.locked = FALSE, !.base = None, !.cipher = EncryptCFB(K, i), !.depth = 0]
             \in AddrType
      BY <1>0, <1>1, OpenedType, Zenon
    <3> QED BY <2>3, <3>1, Zenon
  <2>b. AddrUnlock(a, K).enc = a.enc
    BY <1>0, <2>3, Zenon
  <2>5. AddrUnlock(a, K) \in AddrType /\ AddrUnlock(a, K).enc
    BY <1>0, <2>a, <2>b
  <2>6. ~AddrUnlock(a, K).locked /\ AddrUnlock(a, K).plain = i /\ AddrUnlock(a, K).saved = a.saved
    BY <1>0, <2>3
  <2> HIDE DEF AddrType
  <2> QED BY <2>4, <2>5, <2>6 DEF AddrOK
<1> QED BY <1>2, <1>3, <1>4 DEF AddrOK

\* An address that is open stays as it is.
LEMMA UnlockOpen ==
  ASSUME NEW K \in AESKey \cup {None}, NEW i \in Int, NEW a, NEW key, AddrOK(K, i, a), ~a.locked
  PROVE  AddrUnlock(a, key) = a
BY DEF AddrOK, AddrUnlock, AddrType

\* changeEncryptionKey takes an open address from any key to any other.
LEMMA ReencryptOK ==
  ASSUME NEW K \in AESKey \cup {None}, NEW i \in Int, NEW a, NEW old, NEW new \in AESKey \cup {None},
         AddrOK(K, i, a), ~a.locked
  PROVE  /\ AddrOK(new, i, changeEncryptionKey(a, old, new))
         /\ ~changeEncryptionKey(a, old, new).locked
         /\ changeEncryptionKey(a, old, new).saved = a.saved
<1> USE NoneFacts DEF AddrType
<1>0. a \in AddrType /\ AddrUnlock(a, old) = a /\ a.plain = i /\ a.base = None
  BY UnlockOpen DEF AddrOK, Own, Chained
<1>1. CASE new = None
  <2>1. changeEncryptionKey(a, old, new) = [a EXCEPT !.enc = FALSE, !.locked = FALSE, !.cipher = None]
    BY <1>0, <1>1 DEF changeEncryptionKey
  <2> QED BY <1>0, <1>1, <2>1, ZenonT(60) DEF AddrOK
<1>2. CASE new # None
  <2>0. EncryptCFB(new, i) \in AESCipher
    BY <1>2, CipherFacts
  <2>1. changeEncryptionKey(a, old, new) =
          [a EXCEPT !.enc = TRUE, !.cipher = EncryptCFB(new, i), !.plain = i, !.locked = FALSE]
    BY <1>0, <1>2, Zenon DEF changeEncryptionKey
  <2>2. Own(new, i, changeEncryptionKey(a, old, new))
    BY <1>0, <2>1 DEF Own
  <2>3. changeEncryptionKey(a, old, new) \in AddrType /\ changeEncryptionKey(a, old, new).enc
    BY <1>0, <2>0, <2>1, Zenon
  <2>4. ~changeEncryptionKey(a, old, new).locked /\ changeEncryptionKey(a, old, new).saved = a.saved
    BY <1>0, <2>1
  <2> QED BY <1>2, <2>2, <2>3, <2>4 DEF AddrOK
<1> QED BY <1>1, <1>2

\* An address has a private key, in one form or another.
LEMMA HasKey ==
  ASSUME NEW K \in AESKey \cup {None}, NEW i \in Int, NEW a, AddrOK(K, i, a)
  PROVE  hasPrivKey(a)
<1>1. CASE K = None
  BY <1>1, NoneFacts DEF AddrOK, hasPrivKey
<1>2. CASE K # None /\ Own(K, i, a)
  BY <1>2, CipherFacts DEF Own, hasPrivKey
<1>3. CASE K # None /\ Chained(K, i, a)
  BY <1>3, NoneFacts DEF Chained, Leads, hasPrivKey, createPrivKeyNextUnlock
<1> QED BY <1>1, <1>2, <1>3 DEF AddrOK

\* Chaining under a locked wallet keeps a path to the private key.
LEMMA ExtendPubliclyOK ==
  ASSUME NEW K \in AESKey, NEW i \in Int, NEW a, AddrOK(K, i, a), i >= Root
  PROVE  AddrOK(K, i + 1, ExtendPublicly(a)) /\ ExtendPublicly(a).locked /\ ~ExtendPublicly(a).saved
<1> USE NoneFacts DEF AddrType
<1>0. a \in AddrType
  BY DEF AddrOK
<1>1. CASE Own(K, i, a)
  <2>0. /\ EncryptCFB(K, i) \in AESCipher
        /\ EncryptCFB(K, i).key = K /\ EncryptCFB(K, i).priv = i
    BY CipherFacts
  <2>1. ExtendPublicly(a) = [enc |-> TRUE, locked |-> TRUE, plain |-> None, cipher |-> None,
                             base |-> EncryptCFB(K, i), depth |-> 1, saved |-> FALSE]
    BY <1>1 DEF Own, ExtendPublicly, createPrivKeyNextUnlock
  <2>2. Chained(K, i + 1, ExtendPublicly(a))
    BY <2>0, <2>1 DEF Chained, Leads, Root
  <2> QED BY <2>0, <2>1, <2>2 DEF AddrOK
<1>2. CASE Chained(K, i, a)
  <2>0. a.base # None /\ a.base \in AESCipher /\ a.base.priv \in Int
    BY <1>2 DEF Chained, Leads, AESCipher
  <2>1. ExtendPublicly(a) = [enc |-> TRUE, locked |-> TRUE, plain |-> None, cipher |-> None,
                             base |-> a.base, depth |-> a.depth + 1, saved |-> FALSE]
    BY <2>0 DEF ExtendPublicly, createPrivKeyNextUnlock
  <2>2. Chained(K, i + 1, ExtendPublicly(a))
    BY <1>0, <1>2, <2>0, <2>1 DEF Chained, Leads, Root
  <2> QED BY <1>0, <2>0, <2>1, <2>2 DEF AddrOK
<1> QED BY <1>1, <1>2 DEF AddrOK

\* Chaining from an open address: with the key, or without encryption, it gives
\* the next address, open as well; without the key AddrLock raises.
LEMMA ExtendOpenOK ==
  ASSUME NEW K \in AESKey \cup {None}, NEW i \in Int, NEW a, NEW key,
         AddrOK(K, i, a), i >= Root, ~a.locked,
         K # None => key = K
  PROVE  LET new == extendAddressChain(a, key)
         IN  AddrOK(K, i + 1, new) /\ ~new.locked /\ ~new.saved
<1> USE NoneFacts DEF AddrType
<1> DEFINE w == ExtendWithKey(a, key)
<1>0. a \in AddrType /\ AddrUnlock(a, key) = a /\ a.plain = i
  BY UnlockOpen DEF AddrOK, Own, Chained
<1>1. ~Undecryptable(a, key)
  BY DEF Undecryptable
<1>2. w = [enc |-> a.enc, locked |-> FALSE, plain |-> i + 1, cipher |-> None, base |-> None,
           depth |-> -1, saved |-> FALSE]
  BY <1>0 DEF ExtendWithKey
<1>3. CASE K = None
  <2>1. extendAddressChain(a, key) = w
    BY <1>1, <1>2, <1>3 DEF extendAddressChain, AddrOK
  <2> QED BY <1>2, <1>3, <2>1 DEF AddrOK
<1>4. CASE K # None
  <2>0. EncryptCFB(K, i + 1) \in AESCipher /\ EncryptCFB(K, i + 1) # None
    BY <1>4, CipherFacts
  <2> DEFINE l == AddrLock(w, key)
  <2>1. l = [w EXCEPT !.cipher = EncryptCFB(K, i + 1), !.plain = None, !.locked = TRUE]
    BY <1>2, <1>4 DEF AddrLock, AddrOK
  <2>2. w \in AddrType /\ w.enc /\ w.base = None /\ ~w.saved
    BY <1>0, <1>2, <1>4 DEF AddrOK
  <2>3. extendAddressChain(a, key) = AddrUnlock(l, key)
    BY <1>1, <1>2, <1>4 DEF extendAddressChain, AddrOK
  <2> HIDE DEF w
  <2>5. l \in AddrType
    BY <2>0, <2>1, <2>2, Zenon
  <2>6. l.enc = w.enc /\ l.base = w.base /\ l.saved = w.saved /\ l.locked
    BY <2>1, <2>2, Zenon
  <2>7. l.plain = None /\ l.cipher = EncryptCFB(K, i + 1)
    BY <2>1, <2>2
  <2>8. AddrOK(K, i + 1, l) /\ ~l.saved
    BY <1>4, <2>2, <2>5, <2>6, <2>7 DEF AddrOK, Own
  <2>4. i + 1 >= Root /\ i + 1 \in Int
    BY DEF Root
  <2> QED BY <1>4, <2>3, <2>4, <2>8, UnlockOK
<1> QED BY <1>3, <1>4

\* Without the key, an open encrypted address has no next one: lock raises.
LEMMA ExtendRaises ==
  ASSUME NEW K \in AESKey, NEW i \in Int, NEW a, NEW key \in {None, Destroyed},
         AddrOK(K, i, a), ~a.locked
  PROVE  LockRaises(ExtendWithKey(a, key), key)
<1>0. a \in AddrType /\ AddrUnlock(a, key) = a /\ a.plain = i /\ a.enc
  BY NoneFacts, UnlockOpen DEF AddrOK, Own, Chained
<1>1. ExtendWithKey(a, key) =
          [enc |-> a.enc, locked |-> FALSE, plain |-> i + 1, cipher |-> None, base |-> None,
           depth |-> -1, saved |-> FALSE]
  BY <1>0 DEF ExtendWithKey
<1> QED BY <1>0, <1>1, NoneFacts DEF LockRaises

-----------------------------------------------------------------------------
(* The list of steps.  *)

\* The rest of a list.
LEMMA TailFacts ==
  ASSUME NEW S, NEW s \in Seq(S), s # <<>>
  PROVE  /\ 1 \in DOMAIN s /\ Head(s) = s[1] /\ s[1] \in S
         /\ DOMAIN s = 1..Len(s) /\ Len(s) \in Nat /\ Len(s) >= 1
         /\ Tail(s) \in Seq(S) /\ Len(Tail(s)) = Len(s) - 1
         /\ DOMAIN Tail(s) = 1..(Len(s) - 1)
         /\ \A k \in 1..(Len(s) - 1) : Tail(s)[k] = s[k + 1]
OBVIOUS

\* Two lists, one after the other.
LEMMA ConcatFacts ==
  ASSUME NEW s \in Seq(StepType), NEW t \in Seq(StepType)
  PROVE  /\ s \o t \in Seq(StepType) /\ Len(s \o t) = Len(s) + Len(t)
         /\ DOMAIN (s \o t) = 1..(Len(s) + Len(t))
         /\ Len(s) \in Nat /\ Len(t) \in Nat
         /\ \A k \in 1..Len(s) : (s \o t)[k] = s[k]
         /\ \A k \in (Len(s) + 1)..(Len(s) + Len(t)) : (s \o t)[k] = t[k - Len(s)]
OBVIOUS

\* An operation that has ended, or was given up.
LEMMA NothingToDo ==
  ASSUME todo' = <<>>
  PROVE  TodoOK' /\ NextOK' /\ ~Unlocks' /\ ~Has("touch")'
BY DEF TodoOK, NextOK, Unlocks, Has

\* Only a step of an unlock has steps of an unlock after it.
LEMMA NoUnlockAfter ==
  ASSUME TodoOK, todo # <<>>, todo[1].op # "open"
  PROVE  \A k \in DOMAIN todo : k > 1 => todo[k].op \notin {"open", "opened"}
BY TailFacts DEF TodoOK

\* A step that is done leaves a good list, and begins no unlock.
LEMMA TailTodo ==
  ASSUME TodoOK, todo # <<>>, todo' = Tail(todo),
         todo[1].op = "open" => DOMAIN mem'.addr = DOMAIN mem.addr
  PROVE  TodoOK' /\ (todo[1].op \notin {"open", "opened"} => ~Unlocks /\ ~Unlocks')
<1>1. /\ DOMAIN todo = 1..Len(todo) /\ Len(todo) \in Nat /\ Len(todo) >= 1
      /\ todo' \in Seq(StepType) /\ Len(todo') = Len(todo) - 1 /\ DOMAIN todo' = 1..(Len(todo) - 1)
      /\ \A k \in 1..(Len(todo) - 1) : todo'[k] = todo[k + 1]
  BY TailFacts DEF TodoOK
<1>2. todo[1].op # "open" => \A k \in DOMAIN todo' : todo'[k].op \notin {"open", "opened"}
  BY <1>1, NoUnlockAfter
<1>3. ASSUME NEW k \in DOMAIN todo'
      PROVE  /\ k + 1 \in DOMAIN todo /\ todo'[k] = todo[k + 1]
             /\ k < Len(todo') <=> k + 1 < Len(todo)
             /\ k < Len(todo') => todo'[k + 1] = todo[k + 1 + 1]
             /\ \A j \in 1..(k - 1) : todo'[j] = todo[j + 1] /\ j + 1 \in 1..(k + 1 - 1)
  BY <1>1
<1>4. ASSUME NEW k \in DOMAIN todo'
      PROVE  /\ todo'[k].op = "open" =>
                  /\ todo'[k].arg \in DOMAIN mem'.addr /\ k < Len(todo')
                  /\ \/ todo'[k + 1].op = "open" /\ todo'[k + 1].arg = todo'[k].arg + 1
                     \/ todo'[k + 1].op = "opened" /\ todo'[k].arg + 1 \notin DOMAIN mem'.addr
             /\ todo'[k].op \in {"open", "opened"} => \A j \in 1..(k - 1) : todo'[j].op = "open"
             /\ todo'[k].op = "top" => todo'[k].arg >= 0
             /\ todo'[k].op = "touch" => k = Len(todo')
  BY <1>1, <1>2, <1>3 DEF TodoOK
<1>5. TodoOK'
  BY <1>1, <1>4 DEF TodoOK
<1>6. todo' # <<>> => 1 \in DOMAIN todo'
  BY <1>1
<1> QED BY <1>2, <1>5, <1>6, Zenon DEF Unlocks

\* What is still to be done after the first step.
LEMMA TailHas ==
  ASSUME TodoOK, todo # <<>>, todo' = Tail(todo), NEW op
  PROVE  Has(op)' <=> \E k \in DOMAIN todo : k > 1 /\ todo[k].op = op
<1>1. /\ DOMAIN todo = 1..Len(todo) /\ Len(todo) \in Nat
      /\ DOMAIN todo' = 1..(Len(todo) - 1)
      /\ \A k \in 1..(Len(todo) - 1) : todo'[k] = todo[k + 1]
  BY TailFacts DEF TodoOK
<1>2. ASSUME NEW k \in DOMAIN todo, k > 1
      PROVE  k - 1 \in DOMAIN todo' /\ todo'[k - 1] = todo[k]
  BY <1>1, <1>2
<1> QED BY <1>1, <1>2 DEF Has

\* Steps other than those of getNextUnusedAddress leave its promise alone.
LEMMA TailNext ==
  ASSUME TodoOK, NextOK, todo # <<>>, todo' = Tail(todo),
         mem.last \in Nat, mem.top \in Int, mem'.top = mem.top,
         mem'.last = mem.last + (IF todo[1].op = "next" THEN 1 ELSE 0),
         todo[1].op # "fill"
  PROVE  NextOK'
<1>1. /\ DOMAIN todo = 1..Len(todo) /\ Len(todo) \in Nat /\ 1 \in DOMAIN todo
      /\ DOMAIN todo' = 1..(Len(todo) - 1)
      /\ \A k \in 1..(Len(todo) - 1) : todo'[k] = todo[k + 1]
  BY TailFacts DEF TodoOK
<1> SUFFICES ASSUME Has("touch")', NEW t \in DOMAIN todo', todo'[t].op = "top"
             PROVE  /\ todo'[t].arg >= 1
                    /\ \A j \in 1..(t - 1) : todo'[j].op = "next"
                    /\ mem'.last + t - 1 > mem'.top
  BY DEF NextOK
<1>2. Has("touch")
  BY TailHas, Zenon DEF Has
<1>3. t + 1 \in DOMAIN todo /\ todo[t + 1].op = "top" /\ todo'[t] = todo[t + 1]
  BY <1>1
<1>4. /\ todo[t + 1].arg >= 1
      /\ \A j \in 1..(t + 1 - 1) : todo[j].op = "next"
      /\ mem.last + (t + 1) - 1 > mem.top
  BY <1>2, <1>3 DEF NextOK
<1>5. todo[1].op = "next"
  BY <1>1, <1>4
<1> QED BY <1>1, <1>3, <1>4, <1>5

\* A step that neither advances the highest used index nor returns an address keeps
\* the count of the addresses that were handed out.
LEMMA GivenKept ==
  ASSUME GivenOK, failed \subseteq failed', disk'.top = disk.top, mem'.top = mem.top, given' = given,
         Has("touch")' => Has("touch"), Has("top") => Has("top")' \/ ~Has("touch")'
  PROVE  GivenOK'
BY DEF GivenOK

\* The same for a step that is done.
LEMMA TailGiven ==
  ASSUME TodoOK, GivenOK, todo # <<>>, todo' = Tail(todo), todo[1].op \notin {"top", "touch"},
         failed \subseteq failed', disk'.top = disk.top, mem'.top = mem.top, given' = given
  PROVE  GivenOK'
<1>1. DOMAIN todo \subseteq Nat \ {0}
  BY DEF TodoOK
<1>2. \A k \in DOMAIN todo : todo[k].op \in {"top", "touch"} => k > 1
  BY <1>1
<1>3. (Has("top")' <=> Has("top")) /\ (Has("touch")' <=> Has("touch"))
  BY <1>2, TailHas, Zenon DEF Has
<1> QED BY <1>3, GivenKept

-----------------------------------------------------------------------------
(* The steps of an operation. *)

\* What does not depend on the list of steps is kept by a step that only changes it.
LEMMA ListOnly ==
  ASSUME NEW K, KInv(K), UNCHANGED <<disk, mem, phrase, given, failed>>
  PROVE  MemRecord' /\ DiskRecord' /\ Shape' /\ KeysOK(K)' /\ FlagsOK(K)' /\ NotFailed(K)'
<1>1. disk' = disk /\ mem' = mem /\ phrase' = phrase /\ given' = given /\ failed' = failed
  OBVIOUS
<1>2. MemRecord' /\ DiskRecord'
  BY <1>1, Zenon DEF KInv, MemRecord, DiskRecord
<1>3. Shape'
  BY <1>1, Zenon DEF KInv, Shape
<1>4. KeysOK(K)'
  BY <1>1, Zenon DEF KInv, KeysOK
<1>5. FlagsOK(K)' /\ NotFailed(K)'
  BY <1>1, Zenon DEF KInv, FlagsOK, NotFailed, AllOpen, Open
<1> QED BY <1>2, <1>3, <1>4, <1>5

\* The step at the head is replaced by n others.
LEMMA HeadReplaced ==
  ASSUME TodoOK, todo # <<>>, todo[1].op # "open",
         NEW n \in Nat, NEW new \in Seq(StepType), Len(new) = n, todo' = new \o Tail(todo),
         \A k \in 1..n : new[k].op \in {"next", "fill"}
  PROVE  /\ \A k \in 1..n : k \in DOMAIN todo' /\ todo'[k] = new[k]
         /\ \A k \in DOMAIN todo' : k > n =>
              k - n + 1 \in DOMAIN todo /\ todo'[k] = todo[k - n + 1]
         /\ \A k \in DOMAIN todo : k > 1 => n + k - 1 \in DOMAIN todo' /\ todo'[n + k - 1] = todo[k]
         /\ TodoOK' /\ ~Unlocks'
<1>1. /\ DOMAIN todo = 1..Len(todo) /\ Len(todo) \in Nat /\ Len(todo) >= 1
      /\ Tail(todo) \in Seq(StepType) /\ Len(Tail(todo)) = Len(todo) - 1
      /\ \A k \in 1..(Len(todo) - 1) : Tail(todo)[k] = todo[k + 1]
  BY TailFacts DEF TodoOK
<1> DEFINE rest == Tail(todo)
<1>r. rest \in Seq(StepType) /\ Len(rest) = Len(todo) - 1
  BY <1>1
<1> HIDE DEF rest
<1>a. /\ new \o rest \in Seq(StepType) /\ Len(new \o rest) = Len(new) + Len(rest)
      /\ DOMAIN (new \o rest) = 1..(Len(new) + Len(rest))
      /\ \A k \in 1..Len(new) : (new \o rest)[k] = new[k]
      /\ \A k \in (Len(new) + 1)..(Len(new) + Len(rest)) : (new \o rest)[k] = rest[k - Len(new)]
  BY <1>r, ConcatFacts, Zenon
<1>b. n + (Len(todo) - 1) = n + Len(todo) - 1
  BY <1>1
<1>2. /\ todo' \in Seq(StepType) /\ DOMAIN todo' = 1..(n + Len(todo) - 1)
      /\ Len(todo') = n + Len(todo) - 1
      /\ \A k \in 1..n : todo'[k] = new[k]
      /\ \A k \in (n + 1)..(n + Len(todo) - 1) : todo'[k] = Tail(todo)[k - n]
  BY <1>1, <1>a, <1>b, <1>r DEF rest
<1>3. \A k \in DOMAIN todo' : k > n => k - n + 1 \in DOMAIN todo /\ todo'[k] = todo[k - n + 1]
  BY <1>1, <1>2
<1>4. \A k \in DOMAIN todo : k > 1 => n + k - 1 \in DOMAIN todo' /\ todo'[n + k - 1] = todo[k]
  BY <1>1, <1>2
<1>5. \A k \in DOMAIN todo : k > 1 => todo[k].op \notin {"open", "opened"}
  BY NoUnlockAfter
<1>6. ASSUME NEW k \in DOMAIN todo' PROVE todo'[k].op \notin {"open", "opened"}
  <2>1. CASE k > n
    BY <1>1, <1>2, <1>3, <1>5, <2>1
  <2>2. CASE k \in 1..n
    BY <1>2, <2>2
  <2> QED BY <1>1, <1>2, <2>1, <2>2
<1>7. ~Unlocks'
  <2>1. todo' # <<>> => 1 \in DOMAIN todo'
    BY <1>1, <1>2
  <2> QED BY <1>6, <2>1 DEF Unlocks
<1>8. ASSUME NEW k \in DOMAIN todo'
      PROVE  /\ todo'[k].op = "top" => todo'[k].arg >= 0
             /\ todo'[k].op = "touch" => k = Len(todo')
  <2>1. CASE k > n
    <3>1. k - n + 1 \in DOMAIN todo /\ todo'[k] = todo[k - n + 1]
      BY <1>3, <2>1
    <3>2. /\ todo[k - n + 1].op = "top" => todo[k - n + 1].arg >= 0
          /\ todo[k - n + 1].op = "touch" => k - n + 1 = Len(todo)
      BY <3>1 DEF TodoOK
    <3>3. k - n + 1 = Len(todo) => k = Len(todo')
      BY <1>1, <1>2
    <3> QED BY <3>1, <3>2, <3>3
  <2>2. CASE k \in 1..n
    BY <1>2, <2>2, Zenon
  <2> QED BY <1>1, <1>2, <2>1, <2>2
<1>9. TodoOK'
  BY <1>2, <1>6, <1>8, Zenon DEF TodoOK
<1> QED BY <1>2, <1>3, <1>4, <1>7, <1>9

\* fillAddressPool keeps the invariant.
LEMMA FillKeeps ==
  ASSUME NEW K \in AESKey \cup {None}, KInv(K), FillAddressPool
  PROVE  KInv(K)'
<1>0. /\ todo # <<>> /\ todo[1].op = "fill" /\ Head(todo) = todo[1] /\ todo[1] \in StepType
      /\ 1 \in DOMAIN todo /\ todo \in Seq(StepType) /\ DOMAIN todo = 1..Len(todo)
  BY TailFacts DEF FillAddressPool, Doing, KInv, TodoOK
<1>1. todo[1].arg \in Int /\ mem.top \in Int /\ mem.last \in Int
  <2>1. todo[1].arg \in Int
    BY <1>0 DEF StepType
  <2>2. mem.last \in Nat /\ mem.top \in Root..mem.last
    BY Zenon DEF KInv, Shape
  <2> QED BY <2>1, <2>2 DEF Root
<1>a. /\ LET m == IF todo[1].arg > mem.last - mem.top THEN todo[1].arg - (mem.last - mem.top) ELSE 0
         IN  todo' = [k \in 1..m |-> Step("next", 0)] \o Tail(todo)
  BY <1>0, Zenon DEF FillAddressPool, Arg
<1>b. (IF todo[1].arg > mem.last - mem.top THEN todo[1].arg - (mem.last - mem.top) ELSE 0) \in Nat
  BY <1>1
<1>2. PICK n \in Nat :
        /\ n = IF todo[1].arg > mem.last - mem.top THEN todo[1].arg - (mem.last - mem.top) ELSE 0
        /\ todo' = [k \in 1..n |-> Step("next", 0)] \o Tail(todo)
  BY <1>a, <1>b, Zenon
<1>3. UNCHANGED <<disk, mem, phrase, given, failed>>
  BY DEF FillAddressPool
<1> DEFINE new == [k \in 1..n |-> Step("next", 0)]
<1>4. Step("next", 0) \in StepType /\ Step("next", 0).op = "next"
  BY DEF Step, StepType
<1>5. new \in Seq(StepType) /\ Len(new) = n /\ \A k \in 1..n : new[k].op = "next"
  BY <1>4
<1>6. todo' = new \o Tail(todo)
  BY <1>2
<1> HIDE DEF new
<1>7. /\ \A k \in 1..n : k \in DOMAIN todo' /\ todo'[k] = new[k]
      /\ \A k \in DOMAIN todo' : k > n =>
           k - n + 1 \in DOMAIN todo /\ todo'[k] = todo[k - n + 1]
      /\ \A k \in DOMAIN todo : k > 1 => n + k - 1 \in DOMAIN todo' /\ todo'[n + k - 1] = todo[k]
      /\ TodoOK' /\ ~Unlocks'
  BY <1>0, <1>5, <1>6, HeadReplaced, Zenon DEF KInv
<1>8. DOMAIN todo' \subseteq Nat \ {0}
  BY <1>7 DEF TodoOK
<1>9. ~Unlocks
  BY <1>0 DEF Unlocks
<1>10. ASSUME NEW op \in {"touch", "top"} PROVE Has(op)' <=> Has(op)
  <2>1. ASSUME NEW k \in DOMAIN todo, todo[k].op = op
        PROVE  n + k - 1 \in DOMAIN todo' /\ todo'[n + k - 1].op = op
    BY <1>0, <1>7, <2>1
  <2>2. ASSUME NEW k \in DOMAIN todo', todo'[k].op = op
        PROVE  k - n + 1 \in DOMAIN todo /\ todo[k - n + 1].op = op
    BY <1>5, <1>7, <1>8, <2>2
  <2> QED BY <2>1, <2>2 DEF Has
<1>11. NextOK'
  <2> SUFFICES ASSUME Has("touch")', NEW t \in DOMAIN todo', todo'[t].op = "top"
               PROVE  /\ todo'[t].arg >= 1
                      /\ \A j \in 1..(t - 1) : todo'[j].op = "next"
                      /\ mem'.last + t - 1 > mem'.top
    BY DEF NextOK
  <2>1. t \in Nat \ {0} /\ t > n /\ t - n + 1 \in DOMAIN todo /\ todo'[t] = todo[t - n + 1]
    BY <1>5, <1>7, <1>8
  <2>2. /\ todo[t - n + 1].arg >= 1 /\ t - n + 1 = 2 /\ todo[1].arg >= 1
    <3>1. Has("touch") /\ NextOK
      BY <1>10, Zenon DEF KInv
    <3> QED BY <1>0, <2>1, <3>1 DEF NextOK
  <2>3. mem.last + n > mem.top
    <3>1. n = IF todo[1].arg > mem.last - mem.top THEN todo[1].arg - (mem.last - mem.top) ELSE 0
      BY <1>2, Zenon
    <3> QED BY <1>1, <2>2, <3>1
  <2>4. t - 1 = n
    BY <2>1, <2>2
  <2>5. \A j \in 1..(t - 1) : todo'[j].op = "next"
    BY <1>5, <1>7, <2>4, Zenon
  <2>6. mem'.last + t - 1 > mem'.top
    BY <1>1, <1>3, <2>1, <2>3, <2>4
  <2> QED BY <2>1, <2>2, <2>5, <2>6
<1>12. GivenOK'
  BY <1>3, <1>10, GivenKept DEF KInv
<1>13. LocksOK(K)'
  BY <1>3, <1>7, <1>9 DEF LocksOK, KInv, AllLocked, AllOpen, Open
<1>14. MemRecord' /\ DiskRecord' /\ Shape' /\ KeysOK(K)' /\ FlagsOK(K)' /\ NotFailed(K)'
  BY <1>3, ListOnly
<1> QED BY <1>7, <1>11, <1>12, <1>13, <1>14 DEF KInv

\* The end of unlock keeps the invariant: all addresses are open if the key is there.
LEMMA UnlockDoneKeeps ==
  ASSUME NEW K \in AESKey \cup {None}, KInv(K), UnlockDone
  PROVE  KInv(K)'
<1>1. /\ todo # <<>> /\ todo[1].op = "opened" /\ todo' = Tail(todo)
      /\ UNCHANGED <<disk, phrase, given, failed>>
  BY TailFacts DEF UnlockDone, Doing, KInv, TodoOK
<1>2. /\ mem'.enc = mem.enc /\ mem'.locked = FALSE /\ mem'.key = mem.key /\ mem'.kdf = mem.kdf
      /\ mem'.top = mem.top /\ mem'.last = mem.last /\ mem'.addr = mem.addr /\ MemRecord'
  BY Zenon DEF UnlockDone, KInv, MemRecord
<1>3. TodoOK' /\ Unlocks
  BY <1>1, <1>2, TailTodo DEF KInv, Unlocks
<1>4. ~Unlocks'
  BY <1>1, NoUnlockAfter, TailFacts DEF KInv, TodoOK, Unlocks
<1>5. NextOK'
  BY <1>1, <1>2, TailNext DEF KInv, Shape
<1>6. GivenOK'
  BY <1>1, <1>2, TailGiven DEF KInv
<1>7. LocksOK(K)'
  BY <1>1, <1>2, <1>3, <1>4 DEF LocksOK, KInv, AllOpen, Open
<1>8. FlagsOK(K)'
  BY <1>1, <1>2, <1>3 DEF LocksOK, FlagsOK, KInv, AllOpen, Open
<1>9. DiskRecord' /\ Shape' /\ KeysOK(K)' /\ NotFailed(K)'
  BY <1>1, <1>2, Zenon DEF KInv, DiskRecord, Shape, KeysOK, NotFailed
<1> QED BY <1>2, <1>3, <1>5, <1>6, <1>7, <1>8, <1>9 DEF KInv

\* The end of changeWalletEncryption keeps the invariant: a destroyed key is no key.
LEMMA DestroyKeyKeeps ==
  ASSUME NEW K \in AESKey \cup {None}, KInv(K), DestroyKey
  PROVE  KInv(K)'
<1>1. /\ todo # <<>> /\ todo[1].op = "destroy" /\ todo' = Tail(todo)
      /\ UNCHANGED <<disk, phrase, given, failed>>
  BY TailFacts DEF DestroyKey, Doing, KInv, TodoOK
<1>2. /\ mem'.enc = mem.enc /\ mem'.locked = mem.locked /\ mem'.kdf = mem.kdf
      /\ mem'.top = mem.top /\ mem'.last = mem.last /\ mem'.addr = mem.addr /\ MemRecord'
      /\ mem'.key = IF mem.key = None THEN None ELSE Destroyed
  BY DEF DestroyKey, KInv, MemRecord
<1>3. TodoOK' /\ ~Unlocks /\ ~Unlocks'
  BY <1>1, <1>2, TailTodo DEF KInv
<1>4. NextOK'
  BY <1>1, <1>2, TailNext DEF KInv, Shape
<1>5. GivenOK'
  BY <1>1, <1>2, TailGiven DEF KInv
<1>6. LocksOK(K)'
  BY <1>1, <1>2, <1>3, NoneFacts DEF LocksOK, KInv, AllOpen, AllLocked, Open
<1>7. FlagsOK(K)'
  BY <1>1, <1>2 DEF FlagsOK, KInv, AllOpen, Open
<1>8. DiskRecord' /\ Shape' /\ KeysOK(K)' /\ NotFailed(K)'
  BY <1>1, <1>2 DEF KInv, DiskRecord, Shape, KeysOK, NotFailed
<1> QED BY <1>2, <1>3, <1>4, <1>5, <1>6, <1>7, <1>8 DEF KInv

\* What lock does to the object.
LEMMA LockFacts ==
  ASSUME NEW K \in AESKey \cup {None}, KInv(K)
  PROVE  LET w == lock(mem)
         IN  /\ w = [enc |-> w.enc, locked |-> w.locked, key |-> w.key, kdf |-> w.kdf,
                     top |-> w.top, last |-> w.last, addr |-> w.addr]
             /\ w.enc = mem.enc /\ w.kdf = mem.kdf /\ w.top = mem.top /\ w.last = mem.last
             /\ DOMAIN w.addr = DOMAIN mem.addr
             /\ \E n \in {mem.last, mem.last + 1} : w.addr \in [Root..n -> AddrType]
             /\ \A i \in DOMAIN mem.addr :
                  AddrOK(K, i, w.addr[i]) /\ (w.addr[i].saved <=> i <= mem.last)
             /\ ~mem.enc => w = mem
             /\ mem.enc => /\ w.locked /\ w.key = None
                           /\ \A i \in DOMAIN mem.addr : w.addr[i].enc => w.addr[i].locked
<1>1. CASE ~mem.enc
  <2>1. lock(mem) = mem
    BY <1>1 DEF lock
  <2> QED BY <1>1, <2>1 DEF KInv, MemRecord, Shape, KeysOK
<1>2. CASE mem.enc
  <2> DEFINE b == [i \in DOMAIN mem.addr |-> AddrLock(mem.addr[i], mem.key)]
  <2>1. lock(mem) = [enc |-> mem.enc, locked |-> TRUE, key |-> None, kdf |-> mem.kdf,
                     top |-> mem.top, last |-> mem.last, addr |-> b]
    BY <1>2, Zenon DEF lock, KInv, MemRecord
  <2>2. \A i \in DOMAIN mem.addr : i \in Int
    BY DEF KInv, Shape, Root
  <2>3. \A i \in DOMAIN mem.addr :
          /\ AddrOK(K, i, b[i]) /\ (b[i].saved <=> i <= mem.last)
          /\ b[i].enc => b[i].locked
    <3> TAKE i \in DOMAIN mem.addr
    <3>1. AddrOK(K, i, mem.addr[i]) /\ (mem.addr[i].saved <=> i <= mem.last) /\ i \in Int
      BY <2>2 DEF KInv, KeysOK
    <3>2. /\ AddrOK(K, i, b[i]) /\ (mem.addr[i].enc => b[i].locked)
          /\ b[i].saved = mem.addr[i].saved
      <4>1. b[i] = AddrLock(mem.addr[i], mem.key)
        OBVIOUS
      <4>2. /\ AddrOK(K, i, AddrLock(mem.addr[i], mem.key))
            /\ mem.addr[i].enc => AddrLock(mem.addr[i], mem.key).locked
            /\ AddrLock(mem.addr[i], mem.key).saved = mem.addr[i].saved
        BY <3>1, LockOK
      <4> QED BY <4>1, <4>2, Zenon
    <3>3. b[i].enc <=> mem.addr[i].enc
      BY <3>1, <3>2, Zenon DEF AddrOK
    <3> QED BY <3>1, <3>2, <3>3, Zenon
  <2>4. DOMAIN b = DOMAIN mem.addr /\ \A i \in DOMAIN b : b[i] \in AddrType
    BY <2>3 DEF AddrOK
  <2> HIDE DEF b
  <2>5. \E n \in {mem.last, mem.last + 1} : b \in [Root..n -> AddrType]
    BY <2>4, Zenon DEF KInv, Shape, b
  <2> QED BY <1>2, <2>1, <2>3, <2>4, <2>5
<1> QED BY <1>1, <1>2 DEF KInv, Shape

\* lock, and the lock timeout at any step of an unlock, keep what concerns the keys.
LEMMA AfterLock ==
  ASSUME NEW K \in AESKey \cup {None}, KInv(K), UNCHANGED <<disk, phrase, given, failed>>,
         \/ mem' = lock(mem) /\ ~Unlocks /\ ~Unlocks'
         \/ mem' = [lock(mem) EXCEPT !.key = None] /\ ~mem.locked /\ todo' = todo
  PROVE  /\ MemRecord' /\ DiskRecord' /\ Shape' /\ KeysOK(K)' /\ FlagsOK(K)' /\ LocksOK(K)'
         /\ NotFailed(K)' /\ mem'.top = mem.top /\ mem'.last = mem.last
         /\ DOMAIN mem'.addr = DOMAIN mem.addr
<1> DEFINE w == lock(mem)
<1>1. /\ w = [enc |-> w.enc, locked |-> w.locked, key |-> w.key, kdf |-> w.kdf,
              top |-> w.top, last |-> w.last, addr |-> w.addr]
      /\ w.enc = mem.enc /\ w.kdf = mem.kdf /\ w.top = mem.top /\ w.last = mem.last
      /\ DOMAIN w.addr = DOMAIN mem.addr
      /\ \E n \in {mem.last, mem.last + 1} : w.addr \in [Root..n -> AddrType]
      /\ \A i \in DOMAIN mem.addr : AddrOK(K, i, w.addr[i]) /\ (w.addr[i].saved <=> i <= mem.last)
      /\ ~mem.enc => w = mem
      /\ mem.enc => /\ w.locked /\ w.key = None
                    /\ \A i \in DOMAIN mem.addr : w.addr[i].enc => w.addr[i].locked
  BY LockFacts
<1>2. mem' = w \/ mem' = [w EXCEPT !.key = None]
  OBVIOUS
<1> HIDE DEF w
<1>3. /\ MemRecord' /\ mem'.enc = w.enc /\ mem'.locked = w.locked /\ mem'.kdf = w.kdf
      /\ mem'.top = w.top /\ mem'.last = w.last /\ mem'.addr = w.addr
      /\ mem'.key \in {w.key, None}
  BY <1>1, <1>2 DEF MemRecord
<1>4. w.locked \in BOOLEAN /\ (w.key = None \/ w.key = mem.key)
  BY <1>1, Zenon DEF KInv, Shape
<1>5. DiskRecord' /\ Shape'
  BY <1>1, <1>3, <1>4 DEF KInv, DiskRecord, Shape
<1>6. KeysOK(K)' /\ NotFailed(K)'
  BY <1>1, <1>3, <1>4 DEF KInv, KeysOK, NotFailed
<1>7. FlagsOK(K)'
  BY <1>1, <1>3, <1>4 DEF KInv, FlagsOK, AllOpen, Open
<1>8. LocksOK(K)'
  <2>1. CASE mem.enc
    BY <1>1, <1>3, <2>1, NoneFacts DEF KInv, LocksOK, AllLocked, AllOpen, Open, Unlocks
  <2>2. CASE ~mem.enc
    <3>1. CASE mem' = lock(mem) /\ ~Unlocks /\ ~Unlocks'
      BY <1>1, <2>2, <3>1 DEF KInv, LocksOK, AllLocked, AllOpen, Open, w
    <3>2. CASE mem' = [lock(mem) EXCEPT !.key = None] /\ ~mem.locked /\ todo' = todo
      <4>1. mem'.key = None /\ ~mem'.locked /\ (Unlocks' <=> Unlocks)
        BY <1>1, <1>3, <2>2, <3>2 DEF Unlocks, w
      <4> QED BY <4>1, NoneFacts DEF KInv, LocksOK
    <3> QED BY <3>1, <3>2
  <2> QED BY <2>1, <2>2
<1> QED BY <1>1, <1>3, <1>5, <1>6, <1>7, <1>8

\* The lock at the end of createNewWallet keeps the invariant.
LEMMA LockStepKeeps ==
  ASSUME NEW K \in AESKey \cup {None}, KInv(K), LockStep
  PROVE  KInv(K)'
<1>1. /\ todo # <<>> /\ todo[1].op = "lock" /\ todo' = Tail(todo)
      /\ UNCHANGED <<disk, phrase, given, failed>> /\ mem' = lock(mem)
  BY TailFacts DEF LockStep, Doing, KInv, TodoOK
<1>2. TodoOK' /\ ~Unlocks /\ ~Unlocks'
  BY <1>1, TailTodo DEF KInv
<1>3. /\ MemRecord' /\ DiskRecord' /\ Shape' /\ KeysOK(K)' /\ FlagsOK(K)' /\ LocksOK(K)'
      /\ NotFailed(K)' /\ mem'.top = mem.top /\ mem'.last = mem.last
  BY <1>1, <1>2, AfterLock
<1>a. TodoOK /\ NextOK /\ GivenOK /\ mem.last \in Nat /\ mem.top \in Int
  BY DEF KInv, Shape
<1>4. NextOK'
  BY <1>1, <1>3, <1>a, TailNext
<1>5. GivenOK'
  BY <1>1, <1>3, <1>a, TailGiven
<1> QED BY <1>2, <1>3, <1>4, <1>5, Zenon DEF KInv

\* checkWalletLockTimeout keeps the invariant, in the middle of any operation.
LEMMA TimeoutKeeps ==
  ASSUME NEW K \in AESKey \cup {None}, KInv(K), Timeout
  PROVE  KInv(K)'
<1>1. /\ UNCHANGED <<disk, todo, phrase, given, failed>>
      /\ mem' = [lock(mem) EXCEPT !.key = None] /\ ~mem.locked
  BY DEF Timeout
<1>2. /\ MemRecord' /\ DiskRecord' /\ Shape' /\ KeysOK(K)' /\ FlagsOK(K)' /\ LocksOK(K)'
      /\ NotFailed(K)' /\ mem'.top = mem.top /\ mem'.last = mem.last
      /\ DOMAIN mem'.addr = DOMAIN mem.addr
  BY <1>1, AfterLock
<1>3. TodoOK' /\ NextOK' /\ GivenOK'
  BY <1>1, <1>2, ZenonT(60) DEF KInv, TodoOK, NextOK, GivenOK, Has
<1> QED BY <1>2, <1>3 DEF KInv

\* signUnsignedTx keeps the invariant.
LEMMA SignKeeps ==
  ASSUME NEW K \in AESKey \cup {None}, KInv(K), NEW i \in Index, signUnsignedTx(i)
  PROVE  KInv(K)'
<1>1. /\ todo = <<>> /\ UNCHANGED <<disk, phrase, given, failed>> /\ mem' = lock(mem)
      /\ todo' = IF mem.top < i THEN <<Step("top", i - mem.top), Step("fill", Pool)>> ELSE <<>>
      /\ i \in Int /\ mem.top \in Int
  BY DEF signUnsignedTx, Idle, KInv, Shape, Index, Root
<1>2. ASSUME mem.top < i PROVE TodoOK' /\ ~Unlocks' /\ ~Has("touch")'
  <2>1. /\ Step("top", i - mem.top) \in StepType /\ Step("top", i - mem.top).op = "top"
        /\ Step("top", i - mem.top).arg = i - mem.top
        /\ Step("fill", Pool) \in StepType /\ Step("fill", Pool).op = "fill"
    BY <1>1, KeysAssumption DEF Step, StepType
  <2>2. /\ todo' \in Seq(StepType) /\ DOMAIN todo' = {1, 2} /\ todo' # <<>>
        /\ todo'[1] = Step("top", i - mem.top) /\ todo'[2] = Step("fill", Pool)
    BY <1>1, <1>2, <2>1
  <2> QED BY <1>1, <1>2, <2>1, <2>2 DEF TodoOK, Unlocks, Has
<1>3. ASSUME ~(mem.top < i) PROVE TodoOK' /\ ~Unlocks' /\ ~Has("touch")'
  BY <1>1, <1>3, NothingToDo
<1>4. TodoOK' /\ ~Unlocks' /\ ~Has("touch")' /\ ~Unlocks
  BY <1>1, <1>2, <1>3 DEF Unlocks
<1>5. /\ MemRecord' /\ DiskRecord' /\ Shape' /\ KeysOK(K)' /\ FlagsOK(K)' /\ LocksOK(K)'
      /\ NotFailed(K)' /\ mem'.top = mem.top /\ mem'.last = mem.last
  BY <1>1, <1>4, AfterLock
<1>6. NextOK'
  BY <1>4 DEF NextOK
<1>7. GivenOK'
  BY <1>1, <1>4, <1>5, GivenKept DEF KInv
<1> QED BY <1>4, <1>5, <1>6, <1>7, ZenonT(60) DEF KInv

\* advanceHighestIndex keeps the invariant, whether or not the file was updated.
LEMMA AdvanceKeeps ==
  ASSUME NEW K \in AESKey \cup {None}, KInv(K), AdvanceHighestIndex
  PROVE  KInv(K)'
<1>0. /\ todo # <<>> /\ todo[1].op = "top" /\ Head(todo) = todo[1] /\ todo[1] \in StepType
      /\ 1 \in DOMAIN todo /\ DOMAIN todo = 1..Len(todo) /\ Len(todo) \in Nat
  BY TailFacts DEF AdvanceHighestIndex, Doing, KInv, TodoOK
<1>1. /\ todo[1].arg \in Int /\ todo[1].arg >= 0 /\ mem.top \in Int /\ mem.last \in Nat
      /\ mem.top \in Root..mem.last
  BY <1>0 DEF StepType, KInv, Shape, TodoOK
<1> DEFINE t == Max({Min({mem.top + Arg, mem.last}), 0})
<1>2. t \in 0..mem.last /\ t >= mem.top /\ (todo[1].arg >= 1 /\ mem.last > mem.top => t > mem.top)
  <2>1. Arg = todo[1].arg
    BY <1>0 DEF Arg
  <2>2. Min({mem.top + Arg, mem.last}) = IF mem.top + Arg <= mem.last THEN mem.top + Arg ELSE mem.last
    BY <1>1, <2>1, MinOfTwo
  <2>3. Min({mem.top + Arg, mem.last}) \in Int
    BY <1>1, <2>1, <2>2
  <2>4. t = IF Min({mem.top + Arg, mem.last}) >= 0 THEN Min({mem.top + Arg, mem.last}) ELSE 0
    BY <2>3, MaxOfTwo
  <2> HIDE DEF t
  <2> QED BY <1>1, <2>1, <2>2, <2>4 DEF Root
<1>3. /\ mem' = [mem EXCEPT !.top = t] /\ UNCHANGED <<phrase, given>>
      /\ Save("top", {}, [disk EXCEPT !.top = t])
      /\ todo' = <<Step("fill", Pool)>> \o Tail(todo)
  BY DEF AdvanceHighestIndex
<1> HIDE DEF t
<1>4. /\ mem'.enc = mem.enc /\ mem'.locked = mem.locked /\ mem'.kdf = mem.kdf /\ mem'.key = mem.key
      /\ mem'.top = t /\ mem'.last = mem.last /\ mem'.addr = mem.addr /\ MemRecord'
  BY <1>3 DEF KInv, MemRecord
<1>5. /\ disk'.enc = disk.enc /\ disk'.kdf = disk.kdf /\ disk'.addr = disk.addr /\ DiskRecord'
      /\ failed \subseteq failed'
      /\ disk'.top \in {disk.top, t} /\ ("top" \notin failed' => disk'.top = t)
  BY <1>3 DEF KInv, DiskRecord, Save, Applied, NotApplied
<1>6. Step("fill", Pool) \in StepType /\ Step("fill", Pool).op = "fill"
  BY KeysAssumption DEF Step, StepType
<1> DEFINE new == <<Step("fill", Pool)>>
<1>7. new \in Seq(StepType) /\ Len(new) = 1 /\ \A k \in 1..1 : new[k].op = "fill"
  BY <1>6
<1>8. todo' = new \o Tail(todo)
  BY <1>3
<1> HIDE DEF new
<1>9. /\ \A k \in 1..1 : k \in DOMAIN todo' /\ todo'[k] = new[k]
      /\ \A k \in DOMAIN todo' : k > 1 => k - 1 + 1 \in DOMAIN todo /\ todo'[k] = todo[k - 1 + 1]
      /\ \A k \in DOMAIN todo : k > 1 => 1 + k - 1 \in DOMAIN todo' /\ todo'[1 + k - 1] = todo[k]
      /\ TodoOK' /\ ~Unlocks'
  BY <1>0, <1>7, <1>8, <1>4, HeadReplaced, Zenon DEF KInv
<1>10. /\ DOMAIN todo' \subseteq Nat \ {0} /\ 1 \in DOMAIN todo' /\ todo'[1].op = "fill"
       /\ \A k \in DOMAIN todo' : k > 1 => k \in DOMAIN todo /\ todo'[k] = todo[k]
       /\ \A k \in DOMAIN todo : k > 1 => k \in DOMAIN todo' /\ todo'[k] = todo[k]
  BY <1>0, <1>7, <1>9 DEF TodoOK
<1>11. (Has("touch")' <=> Has("touch")) /\ ~Unlocks
  BY <1>0, <1>10 DEF Has, Unlocks
<1>12. Has("touch") => \A k \in DOMAIN todo : k > 1 => todo[k].op # "top"
  BY <1>0 DEF NextOK, KInv
<1>13. NextOK'
  BY <1>10, <1>11, <1>12 DEF NextOK
<1>14. Has("touch") => t > mem.top
  BY <1>0, <1>1, <1>2 DEF NextOK, KInv
<1>15. GivenOK'
  <2> SUFFICES ASSUME "top" \notin failed'
               PROVE  /\ disk'.top = mem'.top
                      /\ \A i \in Index : given'[i] <= 1 /\ (i > mem'.top => given'[i] = 0)
                      /\ Has("touch")' /\ mem'.top \in Index => given'[mem'.top] = 0
    BY DEF GivenOK
  <2>1. \A i \in Index : given[i] <= 1 /\ (i > mem.top => given[i] = 0)
    BY <1>5 DEF GivenOK, KInv
  <2>2. \A i \in Index : i \in Int
    BY DEF Index, Root
  <2> QED BY <1>1, <1>2, <1>3, <1>4, <1>5, <1>11, <1>14, <2>1, <2>2
<1>16. Shape'
  BY <1>1, <1>2, <1>3, <1>4, <1>5 DEF KInv, Shape, Root
<1>17. KeysOK(K)' /\ FlagsOK(K)'
  BY <1>3, <1>4, <1>5 DEF KInv, KeysOK, FlagsOK, AllOpen, Open
<1>18. LocksOK(K)'
  BY <1>4, <1>9, <1>11 DEF KInv, LocksOK, AllOpen, AllLocked, Open
<1>19. NotFailed(K)'
  BY <1>3, <1>4, <1>5, ZenonT(60) DEF KInv, NotFailed
<1> QED BY <1>4, <1>5, <1>9, <1>13, <1>15, <1>16, <1>17, <1>18, <1>19 DEF KInv

\* The end of getNextUnusedAddress keeps the invariant: the address is a new one.
LEMMA ReturnKeeps ==
  ASSUME NEW K \in AESKey \cup {None}, KInv(K), ReturnAddress
  PROVE  KInv(K)'
<1>0. /\ todo # <<>> /\ todo[1].op = "touch" /\ 1 \in DOMAIN todo /\ todo' = Tail(todo)
      /\ DOMAIN todo = 1..Len(todo) /\ Len(todo) \in Nat /\ todo \in Seq(StepType)
  BY TailFacts DEF ReturnAddress, Doing, KInv, TodoOK
<1>a. Len(todo) = 1
  BY <1>0 DEF KInv, TodoOK
<1>1. todo' = <<>>
  BY <1>0, <1>a
<1>2. TodoOK' /\ NextOK' /\ ~Unlocks' /\ ~Has("touch")' /\ ~Unlocks
  BY <1>0, <1>1, NothingToDo DEF Unlocks
<1>3. Has("touch") /\ ~Has("top")
  BY <1>0, <1>a DEF Has
<1>4. /\ mem.top \in Root..mem.last /\ mem.top \in Int /\ mem.last \in Nat
      /\ DOMAIN disk.addr = Root..mem.last /\ mem.top \in DOMAIN mem.addr
  BY DEF KInv, Shape, Root
<1>5. /\ mem' = mem /\ phrase' = phrase
      /\ given' = [given EXCEPT ![mem.top] = Min({@ + 1, 2})]
      /\ Save("touch", {mem.top}, [disk EXCEPT !.addr[mem.top] = serialize(mem.addr[mem.top])])
  BY Zenon DEF ReturnAddress
<1> DEFINE r == serialize(mem.addr[mem.top])
<1>6. RecOK(K, mem.top, r) /\ r \in RecType
  <2>1. AddrOK(K, mem.top, mem.addr[mem.top])
    BY <1>4, Zenon DEF KInv, KeysOK
  <2>2. RecOK(K, mem.top, r)
    BY <1>4, <2>1, SerializeOK
  <2> QED BY <2>2, Zenon DEF RecOK
<1> HIDE DEF r
<1>7. /\ disk'.enc = disk.enc /\ disk'.kdf = disk.kdf /\ disk'.top = disk.top /\ DiskRecord'
      /\ failed' \in {failed, failed \cup {"touch"}}
      /\ disk'.addr = disk.addr \/ disk'.addr = [disk.addr EXCEPT ![mem.top] = r]
  BY <1>5 DEF KInv, DiskRecord, Save, Applied, NotApplied, r
<1>8. /\ disk'.addr \in [Root..mem.last -> RecType]
      /\ \A i \in DOMAIN disk'.addr : RecOK(K, i, disk'.addr[i])
  BY <1>4, <1>6, <1>7, Zenon DEF KInv, Shape, KeysOK
<1>9. given' \in [Index -> 0..2] /\
      ("top" \notin failed => /\ \A i \in Index : given'[i] <= 1 /\ (i > mem.top => given'[i] = 0))
  <2>1. given \in [Index -> 0..2]
    BY DEF KInv, Shape
  <2>2. CASE mem.top \notin Index
    BY <1>5, <2>1, <2>2, Zenon DEF KInv, GivenOK
  <2>3. CASE mem.top \in Index
    <3>1. given[mem.top] \in 0..2
      BY <2>1, <2>3
    <3>2. Min({given[mem.top] + 1, 2}) = IF given[mem.top] + 1 <= 2 THEN given[mem.top] + 1 ELSE 2
      BY <3>1, MinOfTwo
    <3>3. given' = [given EXCEPT ![mem.top] = Min({given[mem.top] + 1, 2})]
      BY <1>5
    <3>4. "top" \notin failed =>
            given[mem.top] = 0 /\ \A i \in Index : given[i] <= 1 /\ (i > mem.top => given[i] = 0)
      BY <1>3, <2>3 DEF KInv, GivenOK
    <3>5. \A i \in Index : i \in Int
      BY DEF Index, Root
    <3>a. /\ Min({given[mem.top] + 1, 2}) \in 0..2
          /\ given[mem.top] = 0 => Min({given[mem.top] + 1, 2}) = 1
      BY <3>1, <3>2
    <3>6. \E m \in 0..2 : given' = [given EXCEPT ![mem.top] = m] /\ (given[mem.top] = 0 => m = 1)
      <4> USE <3>a, <3>3
      <4> WITNESS Min({given[mem.top] + 1, 2}) \in 0..2
      <4> QED OBVIOUS
    <3>b. PICK m \in 0..2 : given' = [given EXCEPT ![mem.top] = m] /\ (given[mem.top] = 0 => m = 1)
      BY <3>6, Zenon
    <3>7. given' \in [Index -> 0..2]
      BY <2>1, <3>b, Zenon
    <3>8. ASSUME NEW i \in Index, "top" \notin failed
          PROVE  given'[i] <= 1 /\ (i > mem.top => given'[i] = 0)
      BY <1>4, <2>1, <2>3, <3>4, <3>5, <3>b, <3>8
    <3> QED BY <3>7, <3>8
  <2> QED BY <2>2, <2>3
<1>10. GivenOK'
  BY <1>2, <1>5, <1>7, <1>9 DEF KInv, GivenOK
<1>11. Shape'
  BY <1>5, <1>7, <1>8, <1>9 DEF KInv, Shape
<1>12. KeysOK(K)' /\ FlagsOK(K)' /\ MemRecord'
  BY <1>5, <1>7, <1>8 DEF KInv, KeysOK, FlagsOK, AllOpen, Open, MemRecord
<1>13. LocksOK(K)'
  BY <1>2, <1>5 DEF KInv, LocksOK, AllOpen, AllLocked, Open
<1>14. NotFailed(K)'
  BY <1>5, <1>7 DEF KInv, NotFailed
<1> QED BY <1>2, <1>7, <1>10, <1>11, <1>12, <1>13, <1>14 DEF KInv

-----------------------------------------------------------------------------
(* What the user asks for. *)

\* The call of getNextUnusedAddress keeps the invariant: there is an unused address, or
\* the pool is filled first.
LEMMA GetNextKeeps ==
  ASSUME NEW K \in AESKey \cup {None}, KInv(K), getNextUnusedAddress
  PROVE  KInv(K)'
<1>1. /\ todo = <<>> /\ UNCHANGED <<disk, mem, phrase, given, failed>>
      /\ \/ todo' = <<Step("fill", Pool)>> \o <<Step("top", 1), Step("touch", 0)>>
         \/ /\ ~(mem.last - mem.top < Max({Pool - 1, 1}))
            /\ todo' = <<>> \o <<Step("top", 1), Step("touch", 0)>>
  BY Zenon DEF getNextUnusedAddress, Idle
<1>2. /\ Step("fill", Pool) \in StepType /\ Step("fill", Pool).op = "fill" /\ Step("fill", Pool).arg = Pool
      /\ Step("top", 1) \in StepType /\ Step("top", 1).op = "top" /\ Step("top", 1).arg = 1
      /\ Step("touch", 0) \in StepType /\ Step("touch", 0).op = "touch"
  BY KeysAssumption DEF Step, StepType
<1> DEFINE fill == Step("fill", Pool)  top == Step("top", 1)  touch == Step("touch", 0)
<1> HIDE DEF fill, top, touch
<1>3. ASSUME todo' = <<fill>> \o <<top, touch>>
      PROVE  TodoOK' /\ NextOK' /\ ~Unlocks' /\ Has("top")'
  <2> DEFINE s == <<fill>>  t == <<top, touch>>
  <2>a. fill \in StepType /\ top \in StepType /\ touch \in StepType
    BY <1>2 DEF fill, top, touch
  <2>b. s \in Seq(StepType) /\ Len(s) = 1 /\ s[1] = fill
    BY <2>a
  <2>c. t \in Seq(StepType) /\ Len(t) = 2 /\ t[1] = top /\ t[2] = touch
    BY <2>a
  <2>d. todo' = s \o t
    BY <1>3
  <2> HIDE DEF s, t
  <2>e. /\ s \o t \in Seq(StepType) /\ Len(s \o t) = Len(s) + Len(t)
        /\ DOMAIN (s \o t) = 1..(Len(s) + Len(t))
        /\ \A k \in 1..Len(s) : (s \o t)[k] = s[k]
        /\ \A k \in (Len(s) + 1)..(Len(s) + Len(t)) : (s \o t)[k] = t[k - Len(s)]
    BY <2>b, <2>c, ConcatFacts, Zenon
  <2>1. /\ todo' \in Seq(StepType) /\ DOMAIN todo' = 1..3 /\ Len(todo') = 3
        /\ \A k \in 1..1 : todo'[k] = s[k]
        /\ \A k \in 2..3 : todo'[k] = t[k - 1]
    BY <2>b, <2>c, <2>d, <2>e
  <2>2. todo'[1] = fill /\ todo'[2] = top /\ todo'[3] = touch /\ todo' # <<>>
    <3>1. 1 \in 1..1 /\ 2 \in 2..3 /\ 3 \in 2..3 /\ 2 - 1 = 1 /\ 3 - 1 = 2
      OBVIOUS
    <3>a. todo'[1] = s[1] /\ todo'[2] = t[2 - 1] /\ todo'[3] = t[3 - 1]
      BY <2>1, <3>1, Zenon
    <3>2. todo'[1] = s[1] /\ todo'[2] = t[1] /\ todo'[3] = t[2]
      BY <3>a, <3>1
    <3>b. Len(<<>>) = 0 /\ Len(todo') = 3
      BY <2>1
    <3>3. todo' # <<>>
      BY <3>b
    <3> QED BY <2>b, <2>c, <3>2, <3>3
  <2>3. \A k \in 1..3 : k \in {1, 2, 3}
    OBVIOUS
  <2>4. /\ todo'[1].op = "fill" /\ todo'[1].arg >= 1 /\ todo'[2].op = "top" /\ todo'[2].arg = 1
        /\ todo'[3].op = "touch"
    BY <1>2, <2>2, KeysAssumption DEF fill, top, touch
  <2>5. TodoOK' /\ ~Unlocks'
    BY <2>1, <2>2, <2>3, <2>4 DEF TodoOK, Unlocks
  <2>6. NextOK' /\ Has("top")'
    BY <2>1, <2>3, <2>4 DEF NextOK, Has
  <2> QED BY <2>5, <2>6
<1>4. ASSUME ~(mem.last - mem.top < Max({Pool - 1, 1})), todo' = <<>> \o <<top, touch>>
      PROVE  TodoOK' /\ NextOK' /\ ~Unlocks' /\ Has("top")'
  <2>1. todo' = <<top, touch>>
    BY <1>4
  <2>2. /\ todo' \in Seq(StepType) /\ DOMAIN todo' = 1..2 /\ Len(todo') = 2 /\ todo' # <<>>
        /\ todo'[1] = top /\ todo'[2] = touch
    BY <1>2, <2>1 DEF top, touch
  <2>3. \A k \in 1..2 : k \in {1, 2}
    OBVIOUS
  <2>4. todo'[1].op = "top" /\ todo'[1].arg = 1 /\ todo'[2].op = "touch"
    BY <1>2, <2>2 DEF top, touch
  <2>5. TodoOK' /\ ~Unlocks'
    BY <2>2, <2>3, <2>4 DEF TodoOK, Unlocks
  <2>6. Max({Pool - 1, 1}) >= 1 /\ Max({Pool - 1, 1}) \in Int
    BY MaxOfTwo, KeysAssumption
  <2>7. mem.last > mem.top /\ mem.last \in Int /\ mem.top \in Int
    BY <1>4, <2>6 DEF KInv, Shape, Root
  <2>8. NextOK' /\ Has("top")'
    BY <1>1, <2>2, <2>3, <2>4, <2>7 DEF NextOK, Has
  <2> QED BY <2>5, <2>8
<1>5. TodoOK' /\ NextOK' /\ ~Unlocks' /\ Has("top")' /\ ~Unlocks
  BY <1>1, <1>3, <1>4 DEF Unlocks, fill, top, touch
<1>6. GivenOK'
  BY <1>1, <1>5, Zenon DEF KInv, GivenOK
<1>7. LocksOK(K)'
  BY <1>1, <1>5 DEF KInv, LocksOK, AllLocked, AllOpen, Open
<1>8. MemRecord' /\ DiskRecord' /\ Shape' /\ KeysOK(K)' /\ FlagsOK(K)' /\ NotFailed(K)'
  BY <1>1, ListOnly
<1> QED BY <1>5, <1>6, <1>7, <1>8 DEF KInv

\* The call of fillAddressPool keeps the invariant.
LEMMA FillPoolKeeps ==
  ASSUME NEW K \in AESKey \cup {None}, KInv(K), fillAddressPool(Pool + 1)
  PROVE  KInv(K)'
<1>1. /\ todo = <<>> /\ UNCHANGED <<disk, mem, phrase, given, failed>>
      /\ todo' = <<Step("fill", Pool + 1)>>
  BY DEF fillAddressPool, Idle
<1>2. Step("fill", Pool + 1) \in StepType /\ Step("fill", Pool + 1).op = "fill"
  BY KeysAssumption DEF Step, StepType
<1>3. todo' \in Seq(StepType) /\ DOMAIN todo' = {1} /\ todo'[1].op = "fill"
  BY <1>1, <1>2
<1>4. TodoOK' /\ NextOK' /\ ~Unlocks' /\ ~Unlocks /\ ~Has("touch")'
  BY <1>1, <1>3 DEF TodoOK, NextOK, Unlocks, Has
<1>6. GivenOK'
  BY <1>1, <1>4, Zenon DEF KInv, GivenOK
<1>7. LocksOK(K)'
  BY <1>1, <1>4, Zenon DEF KInv, LocksOK, AllLocked, AllOpen, Open
<1>8. MemRecord' /\ DiskRecord' /\ Shape' /\ KeysOK(K)' /\ FlagsOK(K)' /\ NotFailed(K)'
  BY <1>1, ListOnly
<1> QED BY <1>4, <1>6, <1>7, <1>8 DEF KInv

\* changeKdfParams keeps the invariant; on an encrypted wallet only because it counts
\* as an update that was left out.
LEMMA KdfKeeps ==
  ASSUME NEW K \in AESKey \cup {None}, KInv(K), NEW k \in Kdf, NEW p \in Passphrase, changeKdfParams(k, p)
  PROVE  KInv(K)'
<1>1. UNCHANGED <<todo, phrase, given>> /\ mem' = [mem EXCEPT !.kdf = k]
  BY DEF changeKdfParams
<1>2. /\ mem'.enc = mem.enc /\ mem'.locked = mem.locked /\ mem'.kdf = k /\ mem'.key = mem.key
      /\ mem'.top = mem.top /\ mem'.last = mem.last /\ mem'.addr = mem.addr /\ MemRecord'
  BY <1>1 DEF KInv, MemRecord
<1>3. /\ disk'.enc = disk.enc /\ disk'.top = disk.top /\ disk'.addr = disk.addr /\ DiskRecord'
      /\ failed \subseteq failed' /\ failed' \subseteq failed \cup {"kdf"}
      /\ disk'.kdf \in {disk.kdf, k} /\ ("kdf" \notin failed' => disk'.kdf = k /\ ~mem.enc)
  BY DEF KInv, DiskRecord, changeKdfParams, Save, Applied, NotApplied
<1>4. TodoOK' /\ NextOK' /\ GivenOK'
  BY <1>1, <1>2, <1>3 DEF KInv, TodoOK, NextOK, GivenOK, Has
<1>5. Shape' /\ KeysOK(K)'
  BY <1>1, <1>2, <1>3 DEF KInv, Shape, KeysOK
<1>6. FlagsOK(K)' /\ LocksOK(K)'
  BY <1>1, <1>2, <1>3 DEF KInv, FlagsOK, LocksOK, Unlocks, AllOpen, AllLocked, Open
<1>7. NotFailed(K)'
  BY <1>1, <1>2, <1>3 DEF KInv, NotFailed
<1> QED BY <1>2, <1>3, <1>4, <1>5, <1>6, <1>7, Zenon DEF KInv

\* readWalletFile sets the flag of the root address alone.
LEMMA RelockedRoot ==
  ASSUME NEW a \in AddrType, NEW b \in BOOLEAN, NEW r, r = [a EXCEPT !.locked = b]
  PROVE  /\ r \in AddrType /\ r.locked = b /\ r.enc = a.enc /\ r.saved = a.saved
         /\ r.base = a.base /\ r.cipher = a.cipher /\ r.plain = a.plain /\ r.depth = a.depth
BY DEF AddrType

\* readWalletFile makes a good object of the file, wherever the process stopped.
LEMMA RestartKeeps ==
  ASSUME NEW K \in AESKey \cup {None}, KInv(K), Restart
  PROVE  KInv(K)'
<1>1. UNCHANGED <<disk, phrase, given, failed>> /\ todo' = <<>> /\ mem' = Load(disk)
  BY DEF Restart
<1>2. TodoOK' /\ NextOK' /\ ~Unlocks' /\ ~Has("touch")'
  BY <1>1, NothingToDo
<1>3. DOMAIN disk.addr = Root..mem.last /\ mem.last \in Nat /\ Max(DOMAIN disk.addr) = mem.last
      /\ disk.top \in Root..mem.last
  BY MaxOfChain DEF KInv, Shape, Root
<1> DEFINE f == [i \in DOMAIN disk.addr |-> unserialize(disk.addr[i])]
           g == [f EXCEPT ![Root].locked = disk.enc]
<1>4. \A i \in DOMAIN disk.addr : i \in Int /\ RecOK(K, i, disk.addr[i])
  BY <1>3 DEF KInv, KeysOK, Root
<1>5. \A i \in DOMAIN disk.addr :
        AddrOK(K, i, f[i]) /\ (f[i].locked <=> K # None) /\ f[i].saved
  BY <1>4, UnserializeOK
<1>6. DOMAIN f = Root..mem.last /\ Root \in DOMAIN f
  BY <1>3 DEF Root
<1> HIDE DEF f
<1>7. g[Root] = [f[Root] EXCEPT !.locked = disk.enc] /\ DOMAIN g = Root..mem.last
      /\ \A i \in DOMAIN f : i # Root => g[i] = f[i]
  BY <1>6
<1> HIDE DEF g
<1>8. AddrOK(K, Root, g[Root]) /\ (g[Root].locked <=> disk.enc) /\ g[Root].saved /\ g[Root].enc = f[Root].enc
  <2>1. disk.enc \in BOOLEAN /\ (K # None => disk.enc)
    BY DEF KInv, Shape, FlagsOK
  <2>2. AddrOK(K, Root, f[Root]) /\ (f[Root].locked <=> K # None) /\ f[Root].saved /\ f[Root] \in AddrType
    BY <1>3, <1>5, <1>6, Zenon DEF AddrOK
  <2>3. CASE K # None
    <3>1. g[Root] = f[Root]
      BY <1>7, <2>1, <2>2, <2>3, Zenon DEF AddrType
    <3> QED BY <2>1, <2>2, <2>3, <3>1
  <2>4. CASE K = None
    <3>1. /\ g[Root] \in AddrType /\ g[Root].locked = disk.enc /\ g[Root].enc = f[Root].enc
          /\ g[Root].saved = f[Root].saved /\ g[Root].base = f[Root].base
          /\ g[Root].cipher = f[Root].cipher /\ g[Root].plain = f[Root].plain
      <4> DEFINE r == g[Root]  a == f[Root]  b == disk.enc
      <4>1. a \in AddrType /\ b \in BOOLEAN /\ r = [a EXCEPT !.locked = b]
        BY <1>7, <2>1, <2>2
      <4> HIDE DEF r, a, b
      <4>2. /\ r \in AddrType /\ r.locked = b /\ r.enc = a.enc /\ r.saved = a.saved
            /\ r.base = a.base /\ r.cipher = a.cipher /\ r.plain = a.plain
        BY <4>1, RelockedRoot
      <4> QED BY <4>2 DEF r, a, b
    <3> QED BY <2>1, <2>2, <2>4, <3>1 DEF AddrOK, Root
  <2> QED BY <2>3, <2>4, Zenon
<1>9. ASSUME NEW i \in DOMAIN g
      PROVE  /\ AddrOK(K, i, g[i]) /\ g[i].saved /\ g[i] \in AddrType /\ i <= mem.last
             /\ (i # Root => (g[i].locked <=> K # None))
  <2>1. i \in DOMAIN f /\ i \in DOMAIN disk.addr /\ i <= mem.last
    BY <1>3, <1>6, <1>7 DEF Root
  <2>2. CASE i = Root
    BY <1>8, <2>1, <2>2 DEF AddrOK
  <2>3. CASE i # Root
    BY <1>5, <1>7, <2>1, <2>3 DEF AddrOK
  <2> QED BY <2>2, <2>3
<1>10. mem' = [enc |-> disk.enc, locked |-> disk.enc, key |-> None, kdf |-> disk.kdf, top |-> disk.top,
               addr |-> g, last |-> mem.last]
  BY <1>1, <1>3, Zenon DEF Load, f, g
<1>11. /\ mem'.enc = disk.enc /\ mem'.locked = disk.enc /\ mem'.kdf = disk.kdf /\ mem'.key = None
       /\ mem'.top = disk.top /\ mem'.last = mem.last /\ mem'.addr = g /\ MemRecord'
  BY <1>10 DEF MemRecord
<1>12. g \in [Root..mem.last -> AddrType]
  BY <1>7, <1>9, ZenonT(60) DEF g
<1>13. Shape' /\ DiskRecord'
  BY <1>1, <1>11, <1>12 DEF KInv, Shape, DiskRecord
<1>14. KeysOK(K)'
  BY <1>1, <1>9, <1>11, Zenon DEF KInv, KeysOK
<1>15. FlagsOK(K)'
  BY <1>1, <1>8, <1>9, <1>11, Zenon DEF KInv, FlagsOK, Shape, AllOpen, Open
<1>16. LocksOK(K)'
  BY <1>1, <1>2, <1>8, <1>9, <1>11, ZenonT(60) DEF KInv, LocksOK, FlagsOK, Shape, AllLocked, AddrOK
<1>17. GivenOK'
  BY <1>1, <1>2, <1>11, ZenonT(60) DEF KInv, GivenOK
<1>18. NotFailed(K)'
  BY <1>1, <1>11, Zenon DEF KInv, NotFailed
<1> QED BY <1>2, <1>11, <1>13, <1>14, <1>15, <1>16, <1>17, <1>18 DEF KInv

-----------------------------------------------------------------------------
(* Unlocking. *)

\* The steps of an unlock, and what is to be done after it.
LEMMA UnlockingList ==
  ASSUME NEW w, NEW n \in Nat, DOMAIN w.addr = Root..n, NEW rest \in Seq(StepType)
  PROVE  LET u == Unlocking(w) \o rest
         IN  /\ u \in Seq(StepType) /\ Len(u) = n + 3 + Len(rest) /\ DOMAIN u = 1..Len(u)
             /\ Len(rest) \in Nat
             /\ \A k \in 1..(n + 2) : u[k].op = "open" /\ u[k].arg = k - 2
             /\ u[n + 3].op = "opened"
             /\ \A k \in (n + 4)..(n + 3 + Len(rest)) :
                  k - (n + 3) \in DOMAIN rest /\ u[k] = rest[k - (n + 3)]
<1>0. PICK u : u = Unlocking(w) \o rest
  BY Zenon
<1>1. Max(Root..n) + 2 = n + 2
  BY MaxOfChain DEF Root
<1> DEFINE s == [k \in 1..(n + 2) |-> Step("open", k - 2)]
           t == <<Step("opened", 0)>>
<1>2. s \in Seq(StepType) /\ Len(s) = n + 2 /\ \A k \in 1..(n + 2) : s[k].op = "open" /\ s[k].arg = k - 2
  <2>1. \A k \in 1..(n + 2) : Step("open", k - 2) \in StepType
    BY DEF Step, StepType
  <2>a. PICK m \in Nat : m = n + 2
    OBVIOUS
  <2>b. s \in [1..m -> StepType]
    BY <2>1, <2>a
  <2> HIDE DEF s
  <2>c. s \in Seq(StepType) /\ Len(s) = m
    BY <2>b
  <2> USE DEF s
  <2>2. s \in Seq(StepType) /\ Len(s) = n + 2
    BY <2>a, <2>c
  <2>3. \A k \in 1..(n + 2) : s[k] = Step("open", k - 2)
    OBVIOUS
  <2> QED BY <2>2, <2>3 DEF Step
<1>3. t \in Seq(StepType) /\ Len(t) = 1 /\ t[1].op = "opened"
  BY DEF Step, StepType
<1>4. u = (s \o t) \o rest
  <2>1. Unlocking(w) = s \o t
    BY <1>1 DEF Unlocking
  <2> QED BY <1>0, <2>1, Zenon
<1> HIDE DEF s, t
<1> DEFINE v == s \o t
<1>5. /\ v \in Seq(StepType) /\ Len(v) = Len(s) + Len(t)
      /\ \A k \in 1..Len(s) : v[k] = s[k]
      /\ \A k \in (Len(s) + 1)..(Len(s) + Len(t)) : v[k] = t[k - Len(s)]
  BY <1>2, <1>3, ConcatFacts, Zenon
<1>6. u = v \o rest
  BY <1>4
<1> HIDE DEF v
<1>7. /\ v \o rest \in Seq(StepType) /\ Len(v \o rest) = Len(v) + Len(rest)
      /\ DOMAIN (v \o rest) = 1..(Len(v) + Len(rest)) /\ Len(rest) \in Nat
      /\ \A k \in 1..Len(v) : (v \o rest)[k] = v[k]
      /\ \A k \in (Len(v) + 1)..(Len(v) + Len(rest)) : (v \o rest)[k] = rest[k - Len(v)]
  BY <1>5, ConcatFacts, Zenon
<1>8. Len(v) = n + 3
  BY <1>2, <1>3, <1>5
<1>9. \A k \in 1..(n + 2) : u[k] = s[k]
  <2>1. \A k \in 1..(n + 2) : k \in 1..Len(s) /\ k \in 1..Len(v)
    BY <1>2, <1>8
  <2> QED BY <1>5, <1>6, <1>7, <2>1, Zenon
<1>10. u[n + 3] = t[1]
  <2>1. n + 3 \in (Len(s) + 1)..(Len(s) + Len(t)) /\ n + 3 \in 1..Len(v) /\ n + 3 - Len(s) = 1
    BY <1>2, <1>3, <1>8
  <2>2. u[n + 3] = v[n + 3] /\ v[n + 3] = t[n + 3 - Len(s)]
    BY <1>5, <1>6, <1>7, <2>1
  <2> QED BY <2>1, <2>2
<1>11. \A k \in (n + 4)..(n + 3 + Len(rest)) : k - (n + 3) \in 1..Len(rest) /\ u[k] = rest[k - (n + 3)]
  BY <1>6, <1>7, <1>8
<1>12. DOMAIN rest = 1..Len(rest)
  OBVIOUS
<1>13. u \in Seq(StepType) /\ Len(u) = n + 3 + Len(rest) /\ DOMAIN u = 1..Len(u) /\ Len(rest) \in Nat
  BY <1>6, <1>7, <1>8, ZenonT(60)
<1> QED BY <1>0, <1>2, <1>3, <1>9, <1>10, <1>11, <1>12, <1>13, Zenon

\* The list of an operation that begins with an unlock.
LEMMA UnlockingSteps ==
  ASSUME NEW w, NEW n \in Nat, DOMAIN w.addr = Root..n, NEW rest \in Seq(StepType),
         \A k \in DOMAIN rest : rest[k].op \in {"fill", "lock", "destroy"}
  PROVE  LET u == Unlocking(w) \o rest
         IN  /\ u \in Seq(StepType) /\ u # <<>> /\ u[1].op = "open" /\ u[1].arg = Root
             /\ \A k \in DOMAIN u :
                  /\ u[k].op = "open" =>
                       /\ u[k].arg \in Root..n /\ k < Len(u)
                       /\ \/ u[k + 1].op = "open" /\ u[k + 1].arg = u[k].arg + 1
                          \/ u[k + 1].op = "opened" /\ u[k].arg + 1 \notin Root..n
                  /\ u[k].op \in {"open", "opened"} => \A j \in 1..(k - 1) : u[j].op = "open"
                  /\ u[k].op \notin {"top", "touch", "next"}
<1>0. PICK u : u = Unlocking(w) \o rest
  BY Zenon
<1>1. /\ u \in Seq(StepType) /\ Len(u) = n + 3 + Len(rest) /\ DOMAIN u = 1..Len(u) /\ Len(rest) \in Nat
      /\ \A k \in 1..(n + 2) : u[k].op = "open" /\ u[k].arg = k - 2
      /\ u[n + 3].op = "opened"
      /\ \A k \in (n + 4)..(n + 3 + Len(rest)) : k - (n + 3) \in DOMAIN rest /\ u[k] = rest[k - (n + 3)]
  <2> DEFINE v == Unlocking(w) \o rest
  <2>1. /\ v \in Seq(StepType) /\ Len(v) = n + 3 + Len(rest) /\ DOMAIN v = 1..Len(v) /\ Len(rest) \in Nat
        /\ \A k \in 1..(n + 2) : v[k].op = "open" /\ v[k].arg = k - 2
        /\ v[n + 3].op = "opened"
        /\ \A k \in (n + 4)..(n + 3 + Len(rest)) : k - (n + 3) \in DOMAIN rest /\ v[k] = rest[k - (n + 3)]
    BY UnlockingList
  <2>2. u = v
    BY <1>0
  <2> HIDE DEF v
  <2> QED BY <2>1, <2>2
<1>2. \A k \in DOMAIN u : \/ k \in 1..(n + 2) /\ u[k].op = "open" /\ u[k].arg = k - 2
                          \/ k = n + 3 /\ u[k].op = "opened"
                          \/ k > n + 3 /\ u[k].op \in {"fill", "lock", "destroy"}
  <2> TAKE k \in DOMAIN u
  <2>1. k \in 1..(n + 2) \/ k = n + 3 \/ k \in (n + 4)..(n + 3 + Len(rest))
    BY <1>1
  <2>2. CASE k \in 1..(n + 2)
    BY <1>1, <2>2
  <2>3. CASE k = n + 3
    BY <1>1, <2>3
  <2>4. CASE k \in (n + 4)..(n + 3 + Len(rest))
    <3>1. k - (n + 3) \in DOMAIN rest /\ u[k] = rest[k - (n + 3)]
      BY <1>1, <2>4
    <3>2. k > n + 3
      BY <2>4
    <3> QED BY <3>1, <3>2
  <2> QED BY <2>1, <2>2, <2>3, <2>4
<1>3. ASSUME NEW k \in DOMAIN u, u[k].op = "open"
      PROVE  /\ u[k].arg \in Root..n /\ k < Len(u)
             /\ \/ u[k + 1].op = "open" /\ u[k + 1].arg = u[k].arg + 1
                \/ u[k + 1].op = "opened" /\ u[k].arg + 1 \notin Root..n
             /\ \A j \in 1..(k - 1) : u[j].op = "open"
  <2>1. k \in 1..(n + 2) /\ u[k].arg = k - 2
    BY <1>2, <1>3
  <2>a. \A j \in 1..(k - 1) : u[j].op = "open"
    <3>1. \A j \in 1..(k - 1) : j \in 1..(n + 2)
      BY <2>1
    <3> QED BY <1>1, <3>1
  <2>b. u[k].arg \in Root..n /\ k < Len(u)
    BY <1>1, <2>1 DEF Root
  <2>2. CASE k < n + 2
    <3>1. k + 1 \in 1..(n + 2) /\ (k + 1) - 2 = (k - 2) + 1
      BY <2>1, <2>2
    <3>2. u[k + 1].op = "open" /\ u[k + 1].arg = (k + 1) - 2
      BY <1>1, <3>1
    <3> QED BY <2>1, <2>a, <2>b, <3>1, <3>2
  <2>3. CASE k = n + 2
    <3>1. k + 1 = n + 3 /\ k - 2 + 1 \notin Root..n
      BY <2>3 DEF Root
    <3>2. u[k + 1].op = "opened"
      BY <1>1, <3>1
    <3> QED BY <2>1, <2>a, <2>b, <3>1, <3>2
  <2> QED BY <2>1, <2>2, <2>3
<1>4. ASSUME NEW k \in DOMAIN u, u[k].op = "opened"
      PROVE  \A j \in 1..(k - 1) : u[j].op = "open"
  <2>1. k = n + 3
    BY <1>2, <1>4
  <2>2. \A j \in 1..(k - 1) : j \in 1..(n + 2)
    BY <2>1
  <2> QED BY <1>1, <2>2
<1>5. \A k \in DOMAIN u : u[k].op \notin {"top", "touch", "next"}
  BY <1>2
<1>6. 1 \in DOMAIN u /\ 1 \in 1..(n + 2) /\ u # <<>> /\ u[1].op = "open" /\ u[1].arg = Root
  <2>1. 1 \in DOMAIN u /\ 1 \in 1..(n + 2) /\ 1 - 2 = Root
    BY <1>1 DEF Root
  <2>2. Len(u) # Len(<<>>)
    BY <1>1
  <2> QED BY <1>1, <2>1, <2>2
<1>7. \A k \in DOMAIN u :
        /\ u[k].op = "open" =>
             /\ u[k].arg \in Root..n /\ k < Len(u)
             /\ \/ u[k + 1].op = "open" /\ u[k + 1].arg = u[k].arg + 1
                \/ u[k + 1].op = "opened" /\ u[k].arg + 1 \notin Root..n
        /\ u[k].op \in {"open", "opened"} => \A j \in 1..(k - 1) : u[j].op = "open"
        /\ u[k].op \notin {"top", "touch", "next"}
  BY <1>3, <1>4, <1>5
<1> QED BY <1>0, <1>1, <1>6, <1>7, ZenonT(60)

\* The list of steps after a call of unlock, or of changeWalletEncryption.
LEMMA UnlockTodo ==
  ASSUME NEW w, NEW n \in Nat, DOMAIN w.addr = Root..n, DOMAIN mem'.addr = Root..n,
         NEW rest \in Seq(StepType), todo' = Unlocking(w) \o rest,
         \A k \in DOMAIN rest : rest[k].op \in {"fill", "lock", "destroy"}
  PROVE  /\ TodoOK' /\ NextOK' /\ Unlocks' /\ ~Has("touch")'
         /\ todo'[1].op = "open" /\ todo'[1].arg = Root
<1> DEFINE u == Unlocking(w) \o rest
<1>1. /\ u \in Seq(StepType) /\ u # <<>> /\ u[1].op = "open" /\ u[1].arg = Root
      /\ \A k \in DOMAIN u :
           /\ u[k].op = "open" =>
                /\ u[k].arg \in Root..n /\ k < Len(u)
                /\ \/ u[k + 1].op = "open" /\ u[k + 1].arg = u[k].arg + 1
                   \/ u[k + 1].op = "opened" /\ u[k].arg + 1 \notin Root..n
           /\ u[k].op \in {"open", "opened"} => \A j \in 1..(k - 1) : u[j].op = "open"
           /\ u[k].op \notin {"top", "touch", "next"}
  BY UnlockingSteps, ZenonT(60)
<1>2. todo' = u
  OBVIOUS
<1> HIDE DEF u
<1> QED BY <1>1, <1>2, Zenon DEF TodoOK, NextOK, Unlocks, Has

\* The same for the first list.
LEMMA UnlockTodoFirst ==
  ASSUME NEW w, NEW n \in Nat, DOMAIN w.addr = Root..n, DOMAIN mem.addr = Root..n,
         NEW rest \in Seq(StepType), todo = Unlocking(w) \o rest,
         \A k \in DOMAIN rest : rest[k].op \in {"fill", "lock", "destroy"}
  PROVE  TodoOK /\ NextOK /\ Unlocks /\ ~Has("touch") /\ todo[1].op = "open" /\ todo[1].arg = Root
<1> DEFINE u == Unlocking(w) \o rest
<1>1. /\ u \in Seq(StepType) /\ u # <<>> /\ u[1].op = "open" /\ u[1].arg = Root
      /\ \A k \in DOMAIN u :
           /\ u[k].op = "open" =>
                /\ u[k].arg \in Root..n /\ k < Len(u)
                /\ \/ u[k + 1].op = "open" /\ u[k + 1].arg = u[k].arg + 1
                   \/ u[k + 1].op = "opened" /\ u[k].arg + 1 \notin Root..n
           /\ u[k].op \in {"open", "opened"} => \A j \in 1..(k - 1) : u[j].op = "open"
           /\ u[k].op \notin {"top", "touch", "next"}
  BY UnlockingSteps, ZenonT(60)
<1>2. todo = u
  OBVIOUS
<1> HIDE DEF u
<1> QED BY <1>1, <1>2, Zenon DEF TodoOK, NextOK, Unlocks, Has

\* verifyEncryptionKey tells the key in use from all others.
LEMMA VerifyTells ==
  ASSUME NEW K \in AESKey \cup {None}, NEW w, NEW key \in AESKey, AddrOK(K, Root, w.addr[Root])
  PROVE  verifyEncryptionKey(w, key) <=> K = key
<1>1. CASE K = None
  BY <1>1, NoneFacts DEF AddrOK, verifyEncryptionKey
<1>2. CASE K # None
  <2>1. w.addr[Root].enc /\ w.addr[Root].cipher = EncryptCFB(K, Root)
    BY <1>2 DEF AddrOK, Own, Chained, Root
  <2>2. DecryptCFB(key, EncryptCFB(K, Root)) = IF K = key THEN Root ELSE WrongKey
    BY DEF DecryptCFB, EncryptCFB
  <2> QED BY <2>1, <2>2 DEF verifyEncryptionKey, Root, WrongKey
<1> QED BY <1>1, <1>2

\* The addresses in memory are those from the root to the last one, or to the next.
LEMMA DomainFacts ==
  ASSUME NEW K, KInv(K)
  PROVE  \E n \in Nat : /\ DOMAIN mem.addr = Root..n /\ n \in {mem.last, mem.last + 1}
                        /\ Root \in DOMAIN mem.addr
BY DEF KInv, Shape, Root

\* The call of unlock keeps the invariant: the key it accepts is the key in use.
LEMMA UnlockKeeps ==
  ASSUME NEW K \in AESKey \cup {None}, KInv(K), NEW p \in Passphrase, unlock(p)
  PROVE  KInv(K)'
<1> DEFINE key == DeriveKey(mem.kdf, p)
<1>1. key \in AESKey
  BY DEF unlock, KInv, Shape, DeriveKey, AESKey
<1>2. /\ todo = <<>> /\ UNCHANGED <<disk, phrase, given, failed>>
      /\ verifyEncryptionKey(mem, key) /\ mem' = [mem EXCEPT !.key = key] /\ todo' = Unlocking(mem)
  BY DEF unlock, Idle
<1>3. PICK n \in Nat : DOMAIN mem.addr = Root..n /\ Root \in DOMAIN mem.addr
  BY DomainFacts
<1>4. AddrOK(K, Root, mem.addr[Root])
  BY <1>3 DEF KInv, KeysOK
<1> HIDE DEF key
<1>5. K = key /\ K \in AESKey /\ K # None /\ K # Destroyed
  BY <1>1, <1>2, <1>4, VerifyTells, NoneFacts
<1>6. /\ mem'.enc = mem.enc /\ mem'.locked = mem.locked /\ mem'.kdf = mem.kdf /\ mem'.key = K
      /\ mem'.top = mem.top /\ mem'.last = mem.last /\ mem'.addr = mem.addr /\ MemRecord'
  BY <1>2, <1>5 DEF KInv, MemRecord
<1>7. /\ TodoOK' /\ NextOK' /\ Unlocks' /\ ~Has("touch")' /\ todo'[1].op = "open" /\ todo'[1].arg = Root
  <2>1. <<>> \in Seq(StepType) /\ DOMAIN <<>> = {}
    OBVIOUS
  <2>2. Unlocking(mem) \o <<>> = Unlocking(mem)
    <3>1. Max(Root..n) + 2 \in Nat
      BY MaxOfChain DEF Root
    <3> QED BY <1>3, <3>1 DEF Unlocking
  <2> QED BY <1>2, <1>3, <1>6, <2>1, <2>2, UnlockTodo, Zenon
<1>8. LocksOK(K)'
  <2>1. \A i \in DOMAIN mem'.addr : ~(i < Root)
    BY <1>3, <1>6 DEF Root
  <2> QED BY <1>5, <1>6, <1>7, <2>1 DEF LocksOK
<1>9. GivenOK'
  BY <1>2, <1>6, <1>7 DEF KInv, GivenOK
<1>10. FlagsOK(K)' /\ KeysOK(K)'
  BY <1>2, <1>5, <1>6 DEF KInv, FlagsOK, KeysOK, AllOpen, Open
<1>11. DiskRecord' /\ Shape' /\ NotFailed(K)'
  BY <1>2, <1>6 DEF KInv, DiskRecord, Shape, NotFailed
<1> QED BY <1>6, <1>7, <1>8, <1>9, <1>10, <1>11 DEF KInv

=============================================================================
