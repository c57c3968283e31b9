----------------------------- MODULE WalletKeys -----------------------------
(***************************************************************************)
(* The private keys of a deterministic PyBtcWallet: the chain of addresses *)
(* and its look-ahead pool, locking and unlocking, the change of the       *)
(* passphrase and of the key-derivation function (KDF).                    *)
(*                                                                         *)
(* A private key is the index of its address in the chain, so that a key   *)
(* that was derived or decrypted wrongly differs from the index it is      *)
(* stored under.  A key in encrypted form is the pair of the AES key and   *)
(* the private key.  Every file update is one atomic step, which is what   *)
(* AtomicWallet promises and WalletFile is shown to implement: it is       *)
(* applied, or it answers with an empty list and nothing is applied.  An   *)
(* operation that updates the file several times is a list of steps, todo, *)
(* and the process may stop, or the lock timeout of the heartbeat may      *)
(* strike, between any two of them.                                        *)
(***************************************************************************)
EXTENDS Integers, Sequences, FiniteSets, FiniteSetsExt

CONSTANTS Passphrase,   \* the passphrases a user may choose
          Kdf,          \* the parameters a key-derivation function may have
          None,         \* Python's None and an empty SecureBinaryData
          Destroyed,    \* a key whose destroy() method was called
          Pool,         \* addrPoolSize
          MaxIndex,     \* bound: no address beyond this index is asked for
          MaxFails,     \* bound on the operations whose file updates fail
          Fallible      \* the operations whose file updates may fail

\* The operations that update the file.
Operations == {"next", "top", "touch", "open", "encrypt", "kdf"}

ASSUME KeysAssumption ==
  /\ Pool \in Nat \ {0} /\ MaxIndex \in Nat /\ MaxFails \in Nat
  /\ Fallible \subseteq Operations

VARIABLES disk,    \* what the wallet file holds
          mem,     \* the PyBtcWallet object
          todo,    \* the steps that the running operation still has to take
          phrase,  \* the passphrase that the stored keys were last encrypted with
          given,   \* how often getNextUnusedAddress returned each index, up to 2
          failed   \* the operations that had a file update fail or left one out

vars == <<disk, mem, todo, phrase, given, failed>>

Root == -1                     \* the chain index of the root address
WrongKey == -2                 \* what a decryption with a wrong key yields
Index == Root..MaxIndex
AESKey == Passphrase \X Kdf    \* kdf.DeriveKey maps a passphrase to these
DeriveKey(kdf, p) == <<p, kdf>>

\* None and a destroyed key are not keys.
ASSUME NoneAssumption ==
  /\ None \notin Passphrase \cup Kdf \cup AESKey \cup Int \cup [key : AESKey, priv : Int]
  /\ Destroyed \notin AESKey \cup {None}

EncryptCFB(key, priv) == [key |-> key, priv |-> priv]
DecryptCFB(key, c) == IF c.key = key THEN c.priv ELSE WrongKey

-----------------------------------------------------------------------------
(* PyBtcAddress.  An address in memory has its plaintext and encrypted key  *)
(* and, when it was chained while the wallet was locked, the encrypted key  *)
(* base of an earlier address that lies depth steps back in the chain.      *)

createPrivKeyNextUnlock(a) == a.base # None

hasPrivKey(a) == a.plain # None \/ a.cipher # None \/ createPrivKeyNextUnlock(a)

serialize(a) ==
  LET encrypted == a.enc /\ ~(a.cipher = None /\ a.plain # None)
  IN [enc    |-> encrypted,
      next   |-> createPrivKeyNextUnlock(a),
      depth  |-> a.depth,
      cipher |-> IF ~encrypted THEN None
                 ELSE IF createPrivKeyNextUnlock(a) THEN a.base ELSE a.cipher,
      plain  |-> IF encrypted THEN None ELSE a.plain]

unserialize(r) ==
  [enc    |-> r.enc,
   locked |-> r.enc,
   plain  |-> r.plain,
   cipher |-> IF r.next THEN None ELSE r.cipher,
   base   |-> IF r.next THEN r.cipher ELSE None,
   depth  |-> r.depth,
   saved  |-> TRUE]

\* lock raises WalletLockError without a key, and the AES code refuses a
\* destroyed one.
LockRaises(a, key) ==
  a.enc /\ a.cipher = None /\ a.plain # None /\ key \in {None, Destroyed}

AddrLock(a, key) ==
  IF ~a.enc \/ (a.cipher = None /\ a.plain = None) THEN a
  ELSE [a EXCEPT !.cipher = IF @ # None THEN @ ELSE EncryptCFB(key, a.plain),
                 !.plain = None, !.locked = TRUE]

\* The key that unlock computes, and the address with it.
UnlockedKey(a, key) ==
  IF ~createPrivKeyNextUnlock(a) THEN DecryptCFB(key, a.cipher)
  ELSE IF DecryptCFB(key, a.base) = WrongKey THEN WrongKey
  ELSE DecryptCFB(key, a.base) + a.depth

AddrUnlock(a, key) ==
  IF ~a.enc \/ ~a.locked THEN [a EXCEPT !.locked = FALSE]
  ELSE LET priv == UnlockedKey(a, key)
       IN [a EXCEPT !.plain = priv, !.locked = FALSE, !.base = None,
                    !.cipher = IF createPrivKeyNextUnlock(a)
                               THEN EncryptCFB(key, priv) ELSE @,
                    !.depth = IF createPrivKeyNextUnlock(a) THEN 0 ELSE @]

\* Re-encryption under another key, or none; the wallet is unlocked.
changeEncryptionKey(a, old, new) ==
  LET open == AddrUnlock(a, old)
  IN IF new = None
     THEN [open EXCEPT !.enc = FALSE, !.locked = FALSE, !.cipher = None]
     ELSE [open EXCEPT !.enc = TRUE, !.cipher = EncryptCFB(new, open.plain),
                       !.plain = IF a.locked THEN None ELSE @, !.locked = a.locked]

\* The next address of the chain, with a private key if it can be computed.
Undecryptable(a, key) == hasPrivKey(a) /\ a.locked /\ key = None

ExtendWithKey(a, key) ==
  [enc |-> a.enc, locked |-> FALSE, plain |-> AddrUnlock(a, key).plain + 1,
   cipher |-> None, base |-> None, depth |-> -1, saved |-> FALSE]

ExtendPublicly(a) ==
  [enc |-> TRUE, locked |-> TRUE, plain |-> None, cipher |-> None,
   base  |-> IF createPrivKeyNextUnlock(a) THEN a.base ELSE a.cipher,
   depth |-> IF createPrivKeyNextUnlock(a) THEN a.depth + 1 ELSE 1,
   saved |-> FALSE]

extendAddressChain(a, key) ==
  IF Undecryptable(a, key) THEN ExtendPublicly(a)
  ELSE LET new == ExtendWithKey(a, key)
       IN IF ~new.enc THEN new
          ELSE IF a.locked THEN AddrLock(new, key)
          ELSE AddrUnlock(AddrLock(new, key), key)

-----------------------------------------------------------------------------
(* PyBtcWallet. *)

Step(op, arg) == [op |-> op, arg |-> arg]
Chain(w) == {i \in DOMAIN w.addr : i > Root}

\* readWalletFile: the object that represents the file.  Whether the root is
\* locked follows the flag of the wallet, not its own.
Load(d) ==
  [enc |-> d.enc, locked |-> d.enc, key |-> None, kdf |-> d.kdf, top |-> d.top,
   addr |-> [[i \in DOMAIN d.addr |-> unserialize(d.addr[i])]
               EXCEPT ![Root].locked = d.enc],
   last |-> Max(DOMAIN d.addr)]

verifyEncryptionKey(w, key) ==
  w.addr[Root].enc /\ DecryptCFB(key, w.addr[Root].cipher) = Root

\* Whether the whole list of file updates can be applied: the place of an
\* address that was never written is -1, and seek(-1) is an IOError.
Writable(is) == \A i \in is : mem.addr[i].saved

Applied(d) == disk' = d /\ UNCHANGED failed

NotApplied(op, is) ==
  /\ Writable(is) => op \in Fallible /\ Cardinality(failed \cup {op}) <= MaxFails
  /\ failed' = failed \cup {op}
  /\ UNCHANGED disk

\* An update whose result the caller ignores.
Save(op, is, d) == \/ Writable(is) /\ Applied(d)
                   \/ NotApplied(op, is)

\* The steps of the wallet's unlock, in the order of the chain indices from Root.
Unlocking(w) ==
  [k \in 1..(Max(DOMAIN w.addr) + 2) |-> Step("open", k - 2)]
    \o <<Step("opened", 0)>>

lock(w) ==
  IF ~w.enc THEN w
  ELSE [w EXCEPT !.addr = [i \in DOMAIN @ |-> AddrLock(@[i], w.key)],
                 !.key = None, !.locked = TRUE]

\* createNewWallet, once the file has been written with the root address and
\* the first address of the chain: with encryption the wallet is unlocked, the
\* pool is filled, and the wallet is locked.
NewWallet(key) ==
  LET rootAddr == [enc |-> key # None, locked |-> FALSE, plain |-> Root,
                   cipher |-> IF key = None THEN None ELSE EncryptCFB(key, Root),
                   base |-> None, depth |-> -1, saved |-> TRUE]
      firstAddr == [extendAddressChain(rootAddr, key) EXCEPT !.saved = TRUE]
  IN [enc |-> key # None, locked |-> FALSE, key |-> key,
      kdf |-> IF key = None THEN None ELSE key[2], top |-> Root, last |-> 0,
      addr |-> [i \in {Root, 0} |-> IF i = Root THEN rootAddr ELSE firstAddr]]

Init ==
  \E key \in AESKey \cup {None} :
    /\ mem = NewWallet(key)
    /\ disk = [enc |-> mem.enc, kdf |-> mem.kdf, top |-> mem.top,
               addr |-> [i \in DOMAIN mem.addr |-> serialize(mem.addr[i])]]
    /\ todo = IF key = None THEN <<Step("fill", Pool)>>
              ELSE Unlocking(mem) \o <<Step("fill", Pool), Step("lock", 0)>>
    /\ phrase = IF key = None THEN None ELSE key[1]
    /\ given = [i \in Index |-> 0]
    /\ failed = {}

Doing(op) == todo # <<>> /\ Head(todo).op = op
Arg == Head(todo).arg

\* fillAddressPool: one computeNextAddress for every address the pool lacks.
FillAddressPool ==
  /\ Doing("fill")
  /\ LET gap == mem.last - mem.top
         numToCreate == IF Arg > gap THEN Arg - gap ELSE 0
     IN todo' = [k \in 1..numToCreate |-> Step("next", 0)] \o Tail(todo)
  /\ UNCHANGED <<disk, mem, phrase, given, failed>>

\* The address enters addrMap before the location that the update returned is
\* looked at: an empty list raises IndexError with the address in the map and
\* the chain as it was.
ComputeNextAddress ==
  /\ Doing("next")
  /\ LET tip == mem.addr[mem.last]
         i == mem.last + 1
         new == extendAddressChain(tip, mem.key)
         tipped == IF Undecryptable(tip, mem.key) THEN tip ELSE AddrUnlock(tip, mem.key)
         With(a) == [j \in DOMAIN mem.addr \cup {i} |->
                       IF j = i THEN a ELSE IF j = mem.last THEN tipped ELSE mem.addr[j]]
     IN \/ /\ ~Undecryptable(tip, mem.key)
           /\ LockRaises(ExtendWithKey(tip, mem.key), mem.key)
           /\ todo' = <<>>
           /\ UNCHANGED <<disk, mem, failed>>
        \/ /\ Undecryptable(tip, mem.key) \/ ~LockRaises(ExtendWithKey(tip, mem.key), mem.key)
           /\ \/ /\ Applied([disk EXCEPT !.addr = [j \in DOMAIN @ \cup {i} |->
                                 IF j = i THEN serialize(new) ELSE @[j]]])
                 /\ mem' = [mem EXCEPT !.addr = With([new EXCEPT !.saved = TRUE]), !.last = i]
                 /\ todo' = Tail(todo)
              \/ /\ NotApplied("next", {})
                 /\ mem' = [mem EXCEPT !.addr = With(new)]
                 /\ todo' = <<>>
  /\ UNCHANGED <<phrase, given>>

AdvanceHighestIndex_MemoryOnly ==
  /\ Doing("top")
  /\ mem' = [mem EXCEPT !.top = Max({Min({@ + Arg, mem.last}), 0})]
  /\ todo' = <<Step("fill", Pool)>> \o Tail(todo)
  /\ UNCHANGED <<disk, phrase, given, failed>>

\* advanceHighestIndex: memory first, then the file, then the pool.
AdvanceHighestIndex ==
  /\ Doing("top")
  /\ LET top == Max({Min({mem.top + Arg, mem.last}), 0})
     IN /\ mem' = [mem EXCEPT !.top = top]
        /\ Save("top", {}, [disk EXCEPT !.top = top])
  /\ todo' = <<Step("fill", Pool)>> \o Tail(todo)
  /\ UNCHANGED <<phrase, given>>

\* The end of getNextUnusedAddress: the address is saved and returned.
ReturnAddress ==
  /\ Doing("touch")
  /\ Save("touch", {mem.top}, [disk EXCEPT !.addr[mem.top] = serialize(mem.addr[mem.top])])
  /\ given' = [given EXCEPT ![mem.top] = Min({@ + 1, 2})]
  /\ todo' = Tail(todo)
  /\ UNCHANGED <<mem, phrase>>

\* The base of an address is the address before it in the chain, if there is one.
Based_OldDepth(i) ==
  IF i - 1 \in Chain(mem) THEN [mem.addr[i] EXCEPT !.base = mem.addr[i - 1].cipher]
  ELSE mem.addr[i]

Based(i) ==
  LET before == {j \in Chain(mem) : j < i}
      prev == Max(before)
  IN IF before = {} THEN mem.addr[i]
     ELSE [mem.addr[i] EXCEPT !.base = mem.addr[prev].cipher, !.depth = i - prev]

\* One round of the loop of unlock.  An address chained under a locked wallet
\* takes the address before it as its base; an address that does not decrypt
\* to its own key raises KeyDataError, and so does the lack of a key.
UnlockAddress ==
  /\ Doing("open")
  /\ LET i == Arg
         a == mem.addr[i]
         needToSave == createPrivKeyNextUnlock(a)
         opened == AddrUnlock(IF needToSave THEN Based(i) ELSE a, mem.key)
     IN IF a.enc /\ a.locked /\ mem.key = None
        THEN todo' = <<>> /\ UNCHANGED <<disk, mem, failed>>
        ELSE IF a.enc /\ a.locked /\ opened.plain # i
        THEN /\ mem' = [mem EXCEPT !.addr[i] = opened]
             /\ todo' = <<>>
             /\ UNCHANGED <<disk, failed>>
        ELSE /\ mem' = [mem EXCEPT !.addr[i] = opened]
             /\ todo' = Tail(todo)
             /\ IF needToSave
                THEN Save("open", {i}, [disk EXCEPT !.addr[i] = serialize(opened)])
                ELSE UNCHANGED <<disk, failed>>
  /\ UNCHANGED <<phrase, given>>

UnlockDone ==
  /\ Doing("opened")
  /\ mem' = [mem EXCEPT !.locked = FALSE]
  /\ todo' = Tail(todo)
  /\ UNCHANGED <<disk, phrase, given, failed>>

LockStep ==
  /\ Doing("lock")
  /\ mem' = lock(mem)
  /\ todo' = Tail(todo)
  /\ UNCHANGED <<disk, phrase, given, failed>>

\* changeWalletEncryption destroys the key it derived, which the wallet holds.
DestroyKey ==
  /\ Doing("destroy")
  /\ mem' = [mem EXCEPT !.key = IF @ = None THEN None ELSE Destroyed]
  /\ todo' = Tail(todo)
  /\ UNCHANGED <<disk, phrase, given, failed>>

-----------------------------------------------------------------------------
(* What the user interface, armoryd and the heartbeat ask of the wallet.    *)

Idle == todo = <<>>

\* The look-ahead of the call below, and of every fill it leads to, stays in
\* the bound.
Within(top, pool) == top + pool <= MaxIndex /\ mem.last <= MaxIndex

getNextUnusedAddress ==
  /\ Idle /\ Within(mem.top + 1, Pool)
  /\ todo' = (IF mem.last - mem.top < Max({Pool - 1, 1}) THEN <<Step("fill", Pool)>> ELSE <<>>)
               \o <<Step("top", 1), Step("touch", 0)>>
  /\ UNCHANGED <<disk, mem, phrase, given, failed>>

\* The user asks for more addresses: fillAddressPool with a larger pool.
fillAddressPool(pool) ==
  /\ Idle /\ Within(mem.top, pool)
  /\ todo' = <<Step("fill", pool)>>
  /\ UNCHANGED <<disk, mem, phrase, given, failed>>

unlock(p) ==
  /\ Idle /\ mem.kdf # None
  /\ verifyEncryptionKey(mem, DeriveKey(mem.kdf, p))
  /\ mem' = [mem EXCEPT !.key = DeriveKey(mem.kdf, p)]
  /\ todo' = Unlocking(mem)
  /\ UNCHANGED <<disk, phrase, given, failed>>

\* The lock button, and checkWalletLockTimeout in the heartbeat, which runs
\* while another thread fills the pool or unlocks.
Timeout ==
  /\ ~mem.locked /\ mem.key # None
  /\ mem' = [lock(mem) EXCEPT !.key = None]
  /\ UNCHANGED <<disk, todo, phrase, given, failed>>

\* Signing with the address i as the highest: the wallet is locked afterwards,
\* and the chain moves past the addresses that signed.
CanSign(i) == ~(mem.locked /\ mem.key = None) /\ ~mem.addr[i].locked

signUnsignedTx(i) ==
  /\ Idle /\ i \in Chain(mem) /\ CanSign(i) /\ Within(i, Pool)
  /\ mem' = lock(mem)
  /\ todo' = IF mem.top < i THEN <<Step("top", i - mem.top), Step("fill", Pool)>> ELSE <<>>
  /\ UNCHANGED <<disk, phrase, given, failed>>

\* changeWalletEncryption to the key new, or to no encryption.  The new keys and
\* the flags go to the file in one update; the object takes the new addresses
\* if it was applied, and the new flag in any case.
Reencrypted(new) ==
  LET old == IF mem.enc THEN mem.key ELSE None
  IN [i \in DOMAIN mem.addr |-> changeEncryptionKey(mem.addr[i], old, new)]

AfterEncryption(w, new) ==
  IF new = None THEN mem' = w /\ todo' = <<>>
  ELSE IF verifyEncryptionKey(lock(w), new)
       THEN /\ mem' = [lock(w) EXCEPT !.key = new]
            /\ todo' = Unlocking(w) \o <<Step("destroy", 0)>>
       ELSE mem' = lock(w) /\ todo' = <<>>

Encrypt(addrs, new, p) ==
  \/ /\ Writable(DOMAIN addrs)
     /\ Applied([disk EXCEPT !.enc = IF mem.enc = (new # None) THEN @ ELSE new # None,
                             !.addr = [i \in DOMAIN addrs |-> serialize(addrs[i])]])
     /\ phrase' = p
     /\ AfterEncryption([mem EXCEPT !.addr = addrs, !.enc = new # None], new)
  \/ /\ NotApplied("encrypt", DOMAIN addrs)
     /\ AfterEncryption([mem EXCEPT !.enc = new # None], new)
     /\ UNCHANGED phrase

\* Nothing happens if the wallet is locked, if there is no KDF to derive a key,
\* or if the passphrase is the one in use.
changeWalletEncryption(p) ==
  LET new == IF p = None THEN None ELSE DeriveKey(mem.kdf, p)
  IN /\ Idle
     /\ IF mem.enc THEN ~mem.locked /\ mem.key # None
        ELSE \A i \in DOMAIN mem.addr : ~(mem.addr[i].enc /\ mem.addr[i].locked)
     /\ p # None => mem.kdf # None
     /\ ~(mem.enc /\ new # None /\ verifyEncryptionKey(mem, new))
     /\ Encrypt(Reencrypted(new), new, p)
     /\ UNCHANGED given

changeKdfParams_MemoryOnly(k, p) ==
  /\ Idle
  /\ mem' = [mem EXCEPT !.kdf = k]
  /\ UNCHANGED <<disk, todo, phrase, given, failed>>

\* changeKdfParams.  On an encrypted wallet the new parameters are to go to the
\* file with keys encrypted anew, but the key is derived with self.kdf, the old
\* function: it is the key in use, and changeWalletEncryption returns at once.
changeKdfParams(k, p) ==
  /\ Idle
  /\ mem' = [mem EXCEPT !.kdf = k]
  /\ \/ /\ ~mem.enc
        /\ Save("kdf", {}, [disk EXCEPT !.kdf = k])
     \/ /\ mem.enc /\ mem.kdf # None
        /\ verifyEncryptionKey(mem, DeriveKey(mem.kdf, p))
        /\ ~mem.locked /\ mem.key # None
        /\ failed' = failed \cup {"kdf"}
        /\ UNCHANGED disk
  /\ UNCHANGED <<todo, phrase, given>>

\* The process ends at any step, and the wallet is read again.
Restart ==
  /\ mem' = Load(disk)
  /\ todo' = <<>>
  /\ UNCHANGED <<disk, phrase, given, failed>>

Next ==
  \/ FillAddressPool \/ ComputeNextAddress \/ AdvanceHighestIndex \/ ReturnAddress
  \/ UnlockAddress \/ UnlockDone \/ LockStep \/ DestroyKey
  \/ getNextUnusedAddress \/ Timeout \/ Restart
  \/ fillAddressPool(Pool + 1)
  \/ \E i \in Index : signUnsignedTx(i)
  \/ \E p \in Passphrase : unlock(p)
  \/ \E p \in Passphrase \cup {None} : changeWalletEncryption(p)
  \/ \E k \in Kdf, p \in Passphrase : changeKdfParams(k, p)

Spec == Init /\ [][Next]_vars

-----------------------------------------------------------------------------
Cipher == [key : AESKey, priv : Index]
Address ==
  [enc : BOOLEAN, locked : BOOLEAN, plain : Index \cup {None},
   cipher : Cipher \cup {None}, base : Cipher \cup {None},
   depth : -1..(MaxIndex + 1), saved : BOOLEAN]
Record ==
  [enc : BOOLEAN, next : BOOLEAN, depth : -1..(MaxIndex + 1),
   cipher : Cipher \cup {None}, plain : Index \cup {None}]

\* The types of the file and of the wallet object: the chain has no gap, the
\* object has at most one address more than the file, and the highest used index
\* is an address.
TypeOK ==
  /\ DOMAIN disk.addr = Root..Max(DOMAIN disk.addr)
  /\ DOMAIN disk.addr \subseteq Index
  /\ \A i \in DOMAIN disk.addr : disk.addr[i] \in Record
  /\ disk.enc \in BOOLEAN /\ disk.kdf \in Kdf \cup {None}
  /\ disk.top \in DOMAIN disk.addr
  /\ mem.last = Max(DOMAIN disk.addr) /\ mem.top \in DOMAIN disk.addr
  /\ DOMAIN mem.addr \in {DOMAIN disk.addr, Root..(mem.last + 1)}
  /\ \A i \in DOMAIN mem.addr : mem.addr[i] \in Address /\ mem.addr[i].saved = (i <= mem.last)
  /\ mem.enc \in BOOLEAN /\ mem.locked \in BOOLEAN
  /\ mem.kdf \in Kdf \cup {None} /\ mem.key \in AESKey \cup {None, Destroyed}
  /\ phrase \in Passphrase \cup {None}
  /\ given \in [Index -> 0..2] /\ failed \subseteq Operations
  /\ \A k \in DOMAIN todo : todo[k].arg \in -1..(MaxIndex + 1)

\* The private key that a stored address stands for, given an AES key.
StoredKey(r, key) ==
  IF ~r.enc THEN r.plain
  ELSE IF ~r.next THEN DecryptCFB(key, r.cipher)
  ELSE DecryptCFB(key, r.cipher) + r.depth

\* The passphrase that the stored keys were last encrypted with and the KDF
\* parameters in the file recover the private key of every address in the file:
\* what changeWalletEncryption and changeKdfParams have to keep true at every
\* point where the process may stop.
KeysRecoverable ==
  \A i \in DOMAIN disk.addr : StoredKey(disk.addr[i], DeriveKey(disk.kdf, phrase)) = i

\* The flag of the wallet file tells whether the keys in it are encrypted.
FlagMatchesKeys == \A i \in DOMAIN disk.addr : disk.addr[i].enc = disk.enc

\* The keys in the file are recoverable, and its flag tells whether they are
\* encrypted, as long as no update of changeWalletEncryption or changeKdfParams
\* has failed or been left out: the failures of all other updates, and a crash at
\* any step, do not matter.
KeysSurviveRestart ==
  failed \cap {"encrypt", "kdf"} = {} =>
    KeysRecoverable /\ FlagMatchesKeys

\* Under the same condition the running wallet accepts the same passphrase.
PassphraseAccepted ==
  failed \cap {"encrypt", "kdf"} = {} /\ mem.addr[Root].enc =>
    verifyEncryptionKey(mem, DeriveKey(mem.kdf, phrase))

\* A wallet that lock has locked, at rest, has no plaintext of an encrypted key in
\* memory, whatever failed.
LockedMeansForgotten ==
  Idle /\ mem.locked => \A i \in DOMAIN mem.addr : mem.addr[i].enc => mem.addr[i].plain = None

\* signUnsignedTx signs with the right key, whatever failed: a plaintext key in
\* memory is the key of its address, even if the address was chained from a
\* locked one, and a wallet that holds its key at rest has the key of every address.
SignsWithRightKey ==
  /\ \A i \in DOMAIN mem.addr : mem.addr[i].plain \in {i, None}
  /\ Idle /\ ~mem.locked /\ mem.key # None => \A i \in DOMAIN mem.addr : mem.addr[i].plain = i

\* getNextUnusedAddress returns no address twice, whatever the crashes, as long as
\* no update of the highest used index failed.
NoAddressTwice == "top" \notin failed => \A i \in Index : given[i] <= 1

\* The file and the passphrase are enough to get at every key, now and after a
\* restart.
KeysStayReachable == KeysSurviveRestart /\ PassphraseAccepted

\* What is in memory: the right keys while the wallet is unlocked, and none of the
\* encrypted ones once it is locked.
PlainKeysAreRight == SignsWithRightKey /\ LockedMeansForgotten

=============================================================================
