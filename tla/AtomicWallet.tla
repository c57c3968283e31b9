---------------------------- MODULE AtomicWallet ----------------------------
(***************************************************************************)
(* What PyBtcWallet.walletFileSafeUpdate promises its callers: the wallet  *)
(* on disk is a list of whole updates, it only ever changes by one whole   *)
(* update at its end, and an update is acknowledged only once it is there. *)
(***************************************************************************)
EXTENDS Naturals, Sequences

CONSTANT Update   \* the updates there can be

VARIABLES wallet,   \* the updates the recoverable wallet contains, in order
          acked     \* the updates whose call returned their locations

awVars == <<wallet, acked>>

AWInit == wallet = <<>> /\ acked = {}

Commit(u) ==
  /\ \A i \in 1..Len(wallet) : wallet[i] # u
  /\ wallet' = Append(wallet, u)
  /\ UNCHANGED acked

Acknowledge(u) ==
  /\ \E i \in 1..Len(wallet) : wallet[i] = u
  /\ acked' = acked \cup {u}
  /\ UNCHANGED wallet

AWNext == \E u \in Update : Commit(u) \/ Acknowledge(u)

AWSpec == AWInit /\ [][AWNext]_awVars
=============================================================================
