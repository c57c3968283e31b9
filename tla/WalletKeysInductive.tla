------------------------- MODULE WalletKeysInductive -------------------------
(***************************************************************************)
(* The inductive invariant behind KeysStayReachable, PlainKeysAreRight and *)
(* NoAddressTwice, for any passphrases, pool size and length of the chain. *)
(*                                                                         *)
(* K is the AES key that all keys in the file and in memory are encrypted  *)
(* under, or None: there is one at every moment, whatever updates failed   *)
(* and wherever an operation was interrupted.                              *)
(***************************************************************************)
EXTENDS WalletKeys

AESCipher == [key : AESKey, priv : Int]

AddrType ==
  [enc : BOOLEAN, locked : BOOLEAN, plain : Int \cup {None},
   cipher : AESCipher \cup {None}, base : AESCipher \cup {None},
   depth : Int, saved : BOOLEAN]

RecType ==
  [enc : BOOLEAN, next : BOOLEAN, depth : Int,
   cipher : AESCipher \cup {None}, plain : Int \cup {None}]

\* c, depth steps before i in the chain, leads to the key of address i.
Leads(K, c, depth, i) ==
  c \in AESCipher /\ c.key = K /\ c.priv >= Root /\ c.priv + depth = i

\* Address i in memory: its own key in plaintext or under K, or the encrypted
\* key of an earlier address, as long as it was not unlocked since it was made.
Own(K, i, a) ==
  /\ a.base = None /\ a.cipher = EncryptCFB(K, i)
  /\ IF a.locked THEN a.plain = None ELSE a.plain = i
Chained(K, i, a) ==
  /\ i > Root /\ a.locked /\ a.plain = None /\ a.cipher = None
  /\ Leads(K, a.base, a.depth, i)
AddrOK(K, i, a) ==
  /\ a \in AddrType
  /\ (a.enc <=> K # None)
  /\ K # None => Own(K, i, a) \/ Chained(K, i, a)
  /\ K = None => /\ a.base = None /\ a.cipher = None /\ a.plain = i
                 /\ i > Root => ~a.locked

\* The same for address i in the file.
RecOK(K, i, r) ==
  /\ r \in RecType
  /\ (r.enc <=> K # None)
  /\ K = None => r.plain = i /\ ~r.next /\ r.cipher = None
  /\ K # None => /\ r.plain = None
                 /\ IF r.next THEN i > Root /\ Leads(K, r.cipher, r.depth, i)
                    ELSE r.cipher = EncryptCFB(K, i)

-----------------------------------------------------------------------------
Open(i) == ~mem.addr[i].locked
AllOpen == \A i \in DOMAIN mem.addr : Open(i)
AllLocked == \A i \in DOMAIN mem.addr : mem.addr[i].enc => mem.addr[i].locked

MemRecord ==
  mem = [enc |-> mem.enc, locked |-> mem.locked, key |-> mem.key, kdf |-> mem.kdf,
         top |-> mem.top, last |-> mem.last, addr |-> mem.addr]
DiskRecord ==
  disk = [enc |-> disk.enc, kdf |-> disk.kdf, top |-> disk.top, addr |-> disk.addr]

\* The types, and the chain: the object has the addresses of the file and at
\* most one more, whose update failed.
Shape ==
  /\ mem.enc \in BOOLEAN /\ mem.locked \in BOOLEAN /\ disk.enc \in BOOLEAN
  /\ mem.kdf \in Kdf \cup {None} /\ disk.kdf \in Kdf \cup {None}
  /\ mem.last \in Nat
  /\ mem.top \in Root..mem.last /\ disk.top \in Root..mem.last
  /\ disk.addr \in [Root..mem.last -> RecType]
  /\ \E n \in {mem.last, mem.last + 1} : mem.addr \in [Root..n -> AddrType]
  /\ given \in [Index -> 0..2]
  /\ phrase \in Passphrase \cup {None}

KeysOK(K) ==
  /\ \A i \in DOMAIN mem.addr : AddrOK(K, i, mem.addr[i]) /\ (mem.addr[i].saved <=> i <= mem.last)
  /\ \A i \in DOMAIN disk.addr : RecOK(K, i, disk.addr[i])
  /\ mem.key \in (IF K = None THEN AESKey ELSE {K}) \cup {None, Destroyed}

\* The flags: after a failed changeWalletEncryption the object's flag is wrong.  A
\* wallet that only thinks it is encrypted stays locked; one that only thinks it is
\* not encrypted is open.
FlagsOK(K) ==
  /\ K # None => disk.enc
  /\ mem.enc /\ K = None => mem.locked /\ mem.key = None
  /\ ~mem.enc => ~mem.locked /\ AllOpen

\* The wallet is being unlocked.
Unlocks == todo # <<>> /\ todo[1].op \in {"open", "opened"}

LocksOK(K) ==
  /\ mem.locked /\ mem.key = None => AllLocked
  /\ ~Unlocks /\ mem.locked => mem.key = None
  /\ ~Unlocks /\ ~mem.locked /\ mem.key # None => AllOpen
  /\ Unlocks => K # None /\ mem.key # Destroyed
  /\ Unlocks /\ mem.key # None =>
       \A i \in DOMAIN mem.addr : todo[1].op = "opened" \/ i < todo[1].arg => Open(i)

\* The steps of an unlock come first, one for each address from the root on.
StepType == [op : {"fill", "next", "top", "touch", "open", "opened", "lock", "destroy"}, arg : Int]
TodoOK ==
  /\ todo \in Seq(StepType)
  /\ \A k \in DOMAIN todo :
       /\ todo[k].op = "open" =>
            /\ todo[k].arg \in DOMAIN mem.addr /\ k < Len(todo)
            /\ \/ todo[k + 1].op = "open" /\ todo[k + 1].arg = todo[k].arg + 1
               \/ todo[k + 1].op = "opened" /\ todo[k].arg + 1 \notin DOMAIN mem.addr
       /\ todo[k].op \in {"open", "opened"} => \A j \in 1..(k - 1) : todo[j].op = "open"
       /\ todo[k].op = "top" => todo[k].arg >= 0
       /\ todo[k].op = "touch" => k = Len(todo)

Has(op) == \E k \in DOMAIN todo : todo[k].op = op

\* The call of getNextUnusedAddress that is under way finds an address beyond the
\* highest used one: the pool is filled, or has enough, before that is advanced.
NextOK ==
  Has("touch") => \A t \in DOMAIN todo : todo[t].op = "top" =>
    /\ todo[t].arg >= 1
    /\ \/ t = 2 /\ todo[1].op = "fill" /\ todo[1].arg >= 1
       \/ /\ \A j \in 1..(t - 1) : todo[j].op = "next"
          /\ mem.last + t - 1 > mem.top

GivenOK ==
  "top" \notin failed =>
    /\ disk.top = mem.top
    /\ \A i \in Index : given[i] <= 1 /\ (i > mem.top => given[i] = 0)
    /\ Has("touch") /\ ~Has("top") /\ mem.top \in Index => given[mem.top] = 0

\* As long as no update of the encryption or the KDF failed, object and file agree.
NotFailed(K) ==
  failed \cap {"encrypt", "kdf"} = {} =>
    /\ disk.enc = mem.enc /\ (mem.enc <=> K # None) /\ disk.kdf = mem.kdf
    /\ K # None => K = DeriveKey(mem.kdf, phrase)

KInv(K) ==
  /\ MemRecord /\ DiskRecord /\ Shape /\ KeysOK(K) /\ FlagsOK(K) /\ LocksOK(K)
  /\ TodoOK /\ NextOK /\ GivenOK /\ NotFailed(K)

IInv == \E K \in AESKey \cup {None} : KInv(K)
=============================================================================
