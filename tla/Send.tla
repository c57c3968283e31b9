-------------------------------- MODULE Send --------------------------------
(***************************************************************************)
(* Making a transaction: the send dialog (SendBitcoinsFrame of             *)
(* ui/TxFrames.py), the same job done by armoryd                           *)
(* (create_unsigned_transaction) and the sweep of imported keys            *)
(* (createSweepAddrTx of ArmoryQt.py).  The blockchain thread changes the  *)
(* wallet's coins while the dialog asks its questions, the balance is read *)
(* once and the coins again in every round of the fee loop, and bitcoind   *)
(* may answer every question about fees differently.                       *)
(***************************************************************************)
EXTENDS CoinSelection

CONSTANTS
    Wallets,     \* the coin lists a wallet may have when the dialog opens
    Deposits,    \* coins that may arrive meanwhile
    Amounts,     \* amounts the user may type
    FeesTyped,   \* fees the user may type
    Estimates,   \* bitcoind's answers: records of perKb and prio
    Recipients,  \* how many recipients the user may name
    Sources,     \* 0 for a wallet, M for an M-of-N lockbox
    MIN_UTXO_PER_TXN, \* how many coins are listed at least; an address adds as many at
                 \* a time (UTXOperFetch).  Both are 100
    MaxEvents,   \* how often the coins may change
    MaxTries     \* how often the user presses Send

VARIABLES
    coins,       \* the wallet's spendable coins, by address, oldest first
    form,        \* what the user typed: amount, fee, source, coin control
    pc,          \* where validateInputsGetUSTX stands
    bal,         \* the balance it read
    feeTry,      \* the fee the coins were selected for
    minFee,      \* the fee suggested for them
    offered,     \* the coin list they were selected from
    select,      \* the selected coins
    fee,         \* the fee of the transaction
    said,        \* the questions answered with yes in this attempt
    tx,          \* the transaction made
    why,         \* the reason of the last refusal
    gone,        \* a coin left the wallet after the balance was read
    events, tries

world   == <<coins, gone, events>>
attempt == <<bal, feeTry, minFee, offered, select, fee, said>>
vars    == <<coins, form, pc, bal, feeTry, minFee, offered, select, fee, said,
             tx, why, gone, events, tries>>

Unset == -2                        \* Python's None for minFee
NoTx  == [in |-> <<>>, send |-> 0, fee |-> 0, change |-> 0, to |-> "none"]
All   == [on |-> FALSE, from |-> {}, bal |-> 0]       \* no coin control

Init ==
    /\ coins \in Wallets
    /\ \E m \in Sources : form = [send |-> 0, fee |-> 0, m |-> m, outs |-> 1, control |-> All]
    /\ pc = "form"
    /\ bal = 0 /\ feeTry = 0 /\ minFee = Unset /\ offered = <<>> /\ select = <<>>
    /\ fee = 0 /\ said = {} /\ tx = NoTx /\ why = "none"
    /\ gone = FALSE /\ events = 0 /\ tries = 0

-----------------------------------------------------------------------------
(* The blockchain thread                                                   *)

Arrives ==
    /\ events < MaxEvents
    /\ \E c \in Deposits : /\ c.id \notin Ids(coins)
                           /\ coins' = Append(coins, c)
    /\ events' = events + 1
    /\ UNCHANGED <<form, pc, attempt, tx, why, gone, tries>>

Leaves ==
    /\ events < MaxEvents
    /\ \E i \in DOMAIN coins : coins' = SeqX!RemoveAt(coins, i)
    /\ gone' = TRUE
    /\ events' = events + 1
    /\ UNCHANGED <<form, pc, attempt, tx, why, tries>>

NewBlock ==
    /\ events < MaxEvents
    /\ coins' = [i \in DOMAIN coins |-> [coins[i] EXCEPT !.conf = @ + 1]]
    /\ events' = events + 1
    /\ UNCHANGED <<form, pc, attempt, tx, why, gone, tries>>

-----------------------------------------------------------------------------
(* The dialog                                                              *)

getUsableBalance == IF form.control.on THEN form.control.bal ELSE Value(coins)

(* The confirmed coins are read in rounds, in each of them the next ones of *)
(* every address, until they are enough in number and twice their value is  *)
(* the amount; the unconfirmed ones are added only if that never happens.   *)
Rank(i)    == Cardinality({j \in 1 .. i : Confirmed(coins[j]) /\ coins[j].addr = coins[i].addr})
Fetched(n) == {i \in DOMAIN coins : Confirmed(coins[i]) /\ Rank(i) <= n * MIN_UTXO_PER_TXN}
Listed(S)  == LET order == SelectSeq([i \in DOMAIN coins |-> i], LAMBDA i : i \in S)
              IN  [k \in DOMAIN order |-> coins[order[k]]]
Short(S, val) == 2 * Value(Listed(S)) < val \/ Cardinality(S) < MIN_UTXO_PER_TXN

prepareTxOutHistory(val) ==
    LET enough == {n \in 0 .. Len(coins) : ~Short(Fetched(n), val)}
    IN  IF enough = {} THEN DOMAIN coins ELSE Fetched(Fold!Min(enough))

getSpendableTxOutListForValue(val) == Listed(prepareTxOutHistory(val))

getUsableTxOutList ==
    IF form.control.on THEN SelectSeq(coins, LAMBDA c : c.addr \in form.control.from)
    ELSE getSpendableTxOutListForValue(form.send)

Refuse(reason) == pc' = "form" /\ why' = reason

Type ==
    /\ pc = "form" /\ tries < MaxTries
    /\ \E a \in Amounts, f \in FeesTyped, n \in Recipients :
          form' = [form EXCEPT !.send = a, !.fee = f, !.outs = n]
    /\ pc' = "typed"
    /\ tries' = tries + 1
    /\ UNCHANGED <<world, attempt, tx, why>>

(* The "MAX" button: everything that the fee leaves.                       *)
setMaximum ==
    /\ pc = "form" /\ tries < MaxTries
    /\ \E f \in FeesTyped :
          /\ getUsableBalance >= f
          /\ form' = [form EXCEPT !.send = getUsableBalance - f, !.fee = f, !.outs = 1]
    /\ pc' = "typed"
    /\ tries' = tries + 1
    /\ UNCHANGED <<world, attempt, tx, why>>

(* Coin control keeps the addresses and their balance at this moment.  A   *)
(* choice that holds the whole balance is no choice.                       *)
doCoinCtrl ==
    /\ pc = "form" /\ form.m = 0 /\ tries < MaxTries
    /\ \E from \in SUBSET {coins[i].addr : i \in DOMAIN coins} :
          LET b == Value(SelectSeq(coins, LAMBDA c : c.addr \in from))
          IN  form' = [form EXCEPT !.control =
                          IF b = Value(coins) THEN All
                          ELSE [on |-> TRUE, from |-> from, bal |-> b]]
    /\ gone' = FALSE /\ why' = "none"
    /\ UNCHANGED <<coins, pc, attempt, tx, events, tries>>

(* The checks before the loop: an address, an amount or a fee that cannot  *)
(* be read and a warning the user backs out of end the attempt first.      *)
validateInputs ==
    /\ pc = "typed"
    /\ bal' = getUsableBalance
    /\ feeTry' = form.fee /\ fee' = form.fee
    /\ minFee' = Unset /\ offered' = <<>> /\ select' = <<>> /\ said' = {}
    /\ tx' = NoTx
    /\ gone' = (form.control.on /\ gone)
    /\ \/ Refuse("invalid")
       \/ form.send = 0 /\ Refuse("zero")
       \/ form.send > 0 /\ form.send + form.fee > bal' /\ Refuse("funds")
       \/ form.send > 0 /\ form.send + form.fee <= bal' /\ pc' = "loop" /\ why' = "none"
    /\ UNCHANGED <<coins, form, events, tries>>

InLoop == minFee = Unset \/ (feeTry < minFee /\ form.send + minFee <= bal)

Suggested(list, paid, e) ==
    IF form.m = 0 THEN calcMinSuggestedFees(list, form.send, paid, form.outs, e.perKb, e.prio)
    ELSE calcMinSuggestedFeesHackMS(list, form.outs, form.m, e.perKb, e.prio)

(* Mutant: the loop does not take up the suggestion.                       *)
TryFee_SameFee ==
    /\ pc = "loop" /\ InLoop
    /\ feeTry' = feeTry
    /\ offered' = getUsableTxOutList
    /\ \E s \in PySelectCoins(offered', form.send, feeTry'), e \in Estimates :
          select' = s /\ minFee' = Suggested(s, feeTry', e)
    /\ UNCHANGED <<world, form, pc, bal, fee, said, tx, why, tries>>

(* One round of the loop: a selection for the last suggestion, and the     *)
(* suggestion for that selection.                                          *)
TryFee ==
    /\ pc = "loop" /\ InLoop
    /\ feeTry' = IF minFee \in {Unset, 0} THEN feeTry ELSE minFee
    /\ offered' = getUsableTxOutList
    /\ \E s \in PySelectCoins(offered', form.send, feeTry'), e \in Estimates :
          select' = s /\ minFee' = Suggested(s, feeTry', e)
    /\ UNCHANGED <<world, form, pc, bal, fee, said, tx, why, tries>>

LeaveLoop ==
    /\ pc = "loop" /\ ~InLoop
    /\ \/ minFee > 99 * MIN_RELAY_FEE /\ Refuse("tooLarge")
       \/ minFee <= 99 * MIN_RELAY_FEE /\ fee < minFee /\ pc' = "feeQuestion" /\ why' = why
       \/ minFee <= 99 * MIN_RELAY_FEE /\ fee >= minFee /\ pc' = "excessive" /\ why' = why
    /\ UNCHANGED <<world, form, attempt, tx, tries>>

(* "The fee you have specified is insufficient": cancel, keep it or use    *)
(* the higher one.  When the higher one is not affordable it only goes     *)
(* into the form.                                                          *)
AnswerFee ==
    /\ pc = "feeQuestion"
    /\ \/ Refuse("cancelled") /\ UNCHANGED <<form, fee, said>>
       \/ pc' = "excessive" /\ said' = said \cup {"keep"} /\ UNCHANGED <<form, fee, why>>
       \/ /\ form' = [form EXCEPT !.fee = minFee]
          /\ \/ form.send + minFee > bal /\ Refuse("amount") /\ UNCHANGED <<fee, said>>
             \/ /\ form.send + minFee <= bal
                /\ fee' = minFee /\ said' = said \cup {"raise"}
                /\ pc' = "excessive" /\ UNCHANGED why
    /\ UNCHANGED <<world, bal, feeTry, minFee, offered, select, tx, tries>>

Excessive == fee > 100 * MIN_RELAY_FEE \/ (minFee > 0 /\ fee > 10 * minFee)

AnswerExcessive ==
    /\ pc = "excessive"
    /\ \/ ~Excessive /\ pc' = "build" /\ UNCHANGED <<said, why>>
       \/ Excessive /\ pc' = "build" /\ said' = said \cup {"excessive"} /\ UNCHANGED why
       \/ Excessive /\ Refuse("cancelled") /\ UNCHANGED said
    /\ UNCHANGED <<world, form, bal, feeTry, minFee, offered, select, fee, tx, tries>>

(* Where the change goes: a new address, for a lockbox the lockbox, or     *)
(* what an expert user chose.  An invalid address of theirs ends the       *)
(* attempt with an exception.                                              *)
determineChangeScript ==
    (IF form.m = 0 THEN {"new"} ELSE {"lockbox"}) \cup {"feedback", "specified", "invalid"}

BuildTx ==
    /\ pc = "build"
    /\ LET change == Value(select) - (form.send + fee)
       IN  \/ select = <<>> /\ Refuse("selection") /\ UNCHANGED tx
           \/ /\ select # <<>>
              /\ \E to \in IF change > 0 THEN determineChangeScript ELSE {"none"} :
                    \/ to = "invalid" /\ Refuse("change") /\ UNCHANGED tx
                    \/ /\ to # "invalid"
                       /\ tx' = [in |-> select, send |-> form.send, fee |-> fee,
                                 change |-> change, to |-> to]
                       /\ pc' = "confirm" /\ UNCHANGED why
    /\ UNCHANGED <<world, form, attempt, tries>>

(* DlgConfirmSend, the passphrase dialog, and the broadcast.               *)
Confirm ==
    /\ pc = "confirm"
    /\ \/ pc' = "sent" /\ UNCHANGED why
       \/ Refuse("cancelled")
    /\ UNCHANGED <<world, form, attempt, tx, tries>>

-----------------------------------------------------------------------------
(* armoryd: the balance, the list, and then everything at once.            *)

DaemonBalance ==
    /\ pc = "typed"
    /\ ~form.control.on
    /\ bal' = Value(coins)
    /\ fee' = form.fee /\ feeTry' = form.fee /\ minFee' = Unset
    /\ offered' = <<>> /\ select' = <<>> /\ said' = {}
    /\ tx' = NoTx /\ gone' = FALSE
    /\ \/ form.send + form.fee <= 0 /\ Refuse("zero")
       \/ form.send + form.fee > 0 /\ pc' = "daemon" /\ why' = "none"
    /\ UNCHANGED <<coins, form, events, tries>>

(* create_unsigned_transaction: a fee that was given is kept or refused, a *)
(* fee that was not is the suggested one.                                  *)
create_unsigned_transaction ==
    /\ pc = "daemon"
    /\ offered' = getSpendableTxOutListForValue(form.send)
    /\ \/ bal < form.send + fee /\ Refuse("funds") /\ UNCHANGED <<select, minFee, feeTry, fee, tx>>
       \/ /\ bal >= form.send + fee
          /\ \E first \in PySelectCoins(offered', form.send, fee) :
                LET min   == calcMinSuggestedFeesNew(first, form.send, fee, form.outs)
                    again == fee < min
                IN  /\ minFee' = min
                    /\ \/ again /\ fee > 0 /\ Refuse("amount")
                          /\ UNCHANGED <<select, feeTry, fee, tx>>
                       \/ again /\ fee = 0 /\ form.send + min > bal /\ Refuse("amount")
                          /\ UNCHANGED <<select, feeTry, fee, tx>>
                       \/ /\ ~again \/ (fee = 0 /\ form.send + min <= bal)
                          /\ fee' = IF again THEN min ELSE fee
                          /\ feeTry' = fee'
                          /\ select' \in IF again THEN PySelectCoins(offered', form.send, min)
                                         ELSE {first}
                          /\ \/ select' = <<>> /\ Refuse("selection") /\ UNCHANGED tx
                             \/ /\ select' # <<>>
                                /\ LET change == Value(select') - (form.send + fee')
                                   IN  tx' = [in |-> select', send |-> form.send, fee |-> fee',
                                              change |-> change,
                                              to |-> CASE change <= 0 -> "none"
                                                       [] change > 0 /\ form.m = 0 -> "new"
                                                       [] change > 0 /\ form.m > 0 -> "lockbox"]
                                /\ pc' = "sent" /\ UNCHANGED why
    /\ UNCHANGED <<world, form, bal, said, tries>>

(* createSweepAddrTx: every coin goes into one output, less the fee.       *)
createSweepAddrTx ==
    /\ pc = "form" /\ form.m = 0 /\ ~form.control.on /\ tries < MaxTries
    /\ tries' = tries + 1
    /\ offered' = coins /\ select' = coins /\ bal' = Value(coins) /\ said' = {}
    /\ gone' = FALSE
    /\ \E e \in Estimates :
          minFee' = calcMinSuggestedFees(coins, Value(coins), 0, 1, e.perKb, e.prio)
    /\ fee' = Largest(minFee', 0) /\ feeTry' = fee'
    /\ LET out == Value(coins) - fee'
       IN  \/ out <= 0 /\ Refuse("funds") /\ tx' = NoTx
           \/ /\ out > 0
              /\ tx' = [in |-> coins, send |-> out, fee |-> fee', change |-> 0, to |-> "none"]
              /\ pc' = "confirm" /\ why' = "none"
    /\ UNCHANGED <<coins, form, events>>

Program == \/ validateInputs \/ TryFee \/ LeaveLoop \/ BuildTx
           \/ DaemonBalance \/ create_unsigned_transaction
User    == Type \/ setMaximum \/ doCoinCtrl \/ AnswerFee \/ AnswerExcessive
           \/ Confirm \/ createSweepAddrTx
Thread  == Arrives \/ Leaves \/ NewBlock

Next == Program \/ User \/ Thread
Spec == Init /\ [][Next]_vars

(* The program goes on by itself until it asks the user; nobody owes it an *)
(* answer.  Running spells out when Program is enabled.                    *)
Running  == pc \in {"typed", "loop", "build", "daemon"}
FairSpec == Spec /\ ([]<>~Running \/ []<><<Program>>_vars)

-----------------------------------------------------------------------------
(* Properties                                                              *)

Built == pc \in {"confirm", "sent"}

(* A transaction that validateInputsGetUSTX, create_unsigned_transaction   *)
(* or createSweepAddrTx makes spends exactly the amount, the fee and the   *)
(* change, the change is never negative although the fee was raised after  *)
(* the balance was read, no coin goes in twice although small coins are    *)
(* added to the selection, and with coin control every coin belongs to an  *)
(* address that was chosen.                                                *)
Balanced ==
    Built =>
        /\ Value(tx.in) = tx.send + tx.fee + tx.change
        /\ tx.change >= 0
        /\ Cardinality(Ids(tx.in)) = Len(tx.in)
        /\ Ids(tx.in) \subseteq Ids(offered)
        /\ form.control.on => \A i \in DOMAIN tx.in : tx.in[i].addr \in form.control.from

(* PySortCoins promises that unconfirmed coins "will only be used if       *)
(* absolutely necessary": a transaction with one is only made when the     *)
(* confirmed coins on the list do not pay for the amount and the fee,      *)
(* whatever the rotated and the random orders turned up.                   *)
ZeroConfLast ==
    (Built /\ \E i \in DOMAIN tx.in : ZeroConf(tx.in[i]))
        => Value(SelectSeq(offered, Confirmed)) < tx.send + feeTry

(* A fee below the last suggestion is paid only by a user who was told and *)
(* kept it, and a fee far above it only by one who was asked, although     *)
(* every round of the loop may change the suggestion.                      *)
FeeIsAgreed ==
    Built =>
        /\ tx.fee < minFee => "keep" \in said
        /\ pc = "confirm" /\ tx.fee # minFee
              /\ (tx.fee > 100 * MIN_RELAY_FEE \/ (minFee > 0 /\ tx.fee > 10 * minFee))
              => "excessive" \in said

(* The fee loop ends, whatever bitcoind answers in each round and however  *)
(* the coins change: the fee it tries goes up every time, and is bounded   *)
(* by the balance.                                                         *)
LoopEnds == pc = "loop" ~> pc # "loop"

(* The "Coin Selection Error" of validateInputsGetUSTX and the             *)
(* "Coin selection failed. This shouldn't happen." of armoryd are reached  *)
(* only when the listed coins do not pay for the amount and the fee: one   *)
(* of the selections always does if the list does.  The balance did, so a  *)
(* coin has left the wallet since it was read, or prepareTxOutHistory has  *)
(* cut the list at half the amount.                                        *)
FailsOnlyIfCoinsLeft ==
    why = "selection" =>
        /\ Value(offered) < form.send + feeTry
        /\ gone \/ (Len(offered) >= MIN_UTXO_PER_TXN /\ 2 * Value(offered) >= form.send)

(* What the selection of coins comes to: the sums are right, no coin is in *)
(* twice, unconfirmed coins are the last resort, and it fails only for     *)
(* want of coins.                                                          *)
SelectionIsRight == Balanced /\ ZeroConfLast /\ FailsOnlyIfCoinsLeft

(* What leaves the dialog: a transaction over coins rightly selected, at a *)
(* fee that the user was asked about.                                      *)
SendIsRight == SelectionIsRight /\ FeeIsAgreed

=============================================================================
