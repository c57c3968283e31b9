---------------------------- MODULE CoinSelection ----------------------------
(***************************************************************************)
(* The coin selection of armoryengine/CoinSelection.py: the orders a list  *)
(* of unspent outputs is put in, the ways of taking coins from an order,   *)
(* the score that picks one selection, and the fee suggested for it.  A    *)
(* coin is a record of its identity, its value, its number of              *)
(* confirmations and its address.  Money is counted in units of 10^4       *)
(* satoshi, the smallest relay fee.                                        *)
(***************************************************************************)
EXTENDS Integers, Sequences, FiniteSets, TLC

Fold == INSTANCE FiniteSetsExt
SeqX == INSTANCE SequencesExt

CENT          == 100
ONE_BTC       == 10000
MIN_TX_FEE    == 1
MIN_RELAY_FEE == 1

(* ONE_BTC * 144 / 250, and the threshold that a bitcoind without an      *)
(* estimate stands for.                                                   *)
DEFAULT_PRIORITY == (ONE_BTC * 144) \div 250

SumOf(list, of(_)) ==
    LET Sum[i \in 0..Len(list)] == IF i = 0 THEN 0 ELSE Sum[i - 1] + of(list[i])
    IN  Sum[Len(list)]

Value(list)    == SumOf(list, LAMBDA c : c.val)
Priority(coin) == coin.val * coin.conf
TotalPriority(list) == SumOf(list, Priority)
Ids(list)      == {list[i].id : i \in DOMAIN list}
Confirmed(c)   == c.conf > 0
ZeroConf(c)    == c.conf = 0
Largest(a, b)  == IF a > b THEN a ELSE b
Distance(a, b) == IF a > b THEN a - b ELSE b - a

-----------------------------------------------------------------------------
(* The orders                                                              *)

(* Python's sorted(key, reverse=True): equal keys keep their order.        *)
SortedBy(list, by(_)) ==
    LET order == SortSeq([i \in DOMAIN list |-> i],
                         LAMBDA i, j : \/ by(list[i]) > by(list[j])
                                       \/ by(list[i]) = by(list[j]) /\ i < j)
    IN  [i \in DOMAIN list |-> list[order[i]]]

(* Ten times the cube root of a value, rounded down: v ** 0.333.           *)
CubeRoot(v) ==
    CHOOSE r \in 0..(10 * v) : r ^ 3 <= 1000 * v /\ (r + 1) ^ 3 > 1000 * v

(* Method 4: the coins of one address together, the address with the best  *)
(* coin first, the unconfirmed coins at the end.                           *)
GroupedByAddress(list) ==
    LET good  == SelectSeq(list, Confirmed)
        key(c) == c.conf * CubeRoot(c.val)
        best(a) == Fold!Max({key(good[i]) : i \in {j \in DOMAIN good : good[j].addr = a}})
        addrs == {good[i].addr : i \in DOMAIN good}
        groups == SortSeq(SeqX!SetToSeq(addrs), LAMBDA a, b : best(a) > best(b))
        group(a) == SortedBy(SelectSeq(good, LAMBDA c : c.addr = a), key)
    IN  SeqX!FoldLeft(LAMBDA acc, a : acc \o group(a), <<>>, groups)
            \o SelectSeq(list, ZeroConf)

Rotated(list, n) ==
    LET k == IF list = <<>> THEN 0 ELSE n % Len(list)
    IN  SubSeq(list, k + 1, Len(list)) \o SubSeq(list, 1, k)

(* Methods 0, 1 and 2 use three increasing functions of one key.           *)
PySortCoins(list, method) ==
    CASE method \in 0..2 -> SortedBy(list, Priority)
      [] method = 3      -> SortedBy(list, LAMBDA c : IF Confirmed(c) THEN c.val ELSE 0)
      [] method = 4      -> GroupedByAddress(list)
      [] method \in 5..7 -> Rotated(SortedBy(list, Priority), method - 4)

(* Methods 8 and 9: the confirmed coins in a random order, then the rest.  *)
RandomOrders(list) ==
    LET good == SelectSeq(list, Confirmed)
    IN  {[i \in DOMAIN good |-> good[p[i]]] \o SelectSeq(list, ZeroConf) :
            p \in Permutations(DOMAIN good)}

-----------------------------------------------------------------------------
(* The ways of taking coins from an order                                  *)

(* The first coin of the list with the smallest cost, among the fitting.   *)
FirstBest(list, suits(_), cost(_)) ==
    LET fitting == {i \in DOMAIN list : suits(list[i])}
        least   == Fold!Min({cost(list[i]) : i \in fitting})
    IN  IF fitting = {} THEN <<>>
        ELSE <<list[Fold!Min({i \in fitting : cost(list[i]) = least})]>>

(* The smallest coin that pays for everything.  The second search, for a   *)
(* coin that leaves more than CENT of change, never sets its answer.       *)
SingleInput_SingleValue(list, target, fee) ==
    FirstBest(list, LAMBDA c : c.val >= target + fee, LAMBDA c : c.val)

(* Coins from the front until they pay for everything; all if they do not. *)
MultiInput_SingleValue(list, target, fee) ==
    LET enough == {k \in DOMAIN list : Value(SubSeq(list, 1, k)) >= target + fee}
    IN  IF enough = {} THEN list ELSE SubSeq(list, 1, Fold!Min(enough))

(* One coin about twice the target, so that the change looks like it.      *)
SingleInput_DoubleValue(list, target, fee) ==
    LET ideal == 2 * target + fee
        fits(c) == /\ 4 * c.val >= Largest(3 * ideal, 4 * (target + fee))
                   /\ 4 * c.val <= 5 * ideal
        away(c) == Distance(c.val, ideal)
    IN  IF 4 * Value(list) < Largest(3 * ideal, 4 * (target + fee)) THEN <<>>
        ELSE FirstBest(list, fits, away)

(* Coins from the front until their sum moves away from twice the target;  *)
(* the coin that moved it away is dropped again.                           *)
FrontUntilPast(list, sum, ideal, least) ==
    LET past == {k \in DOMAIN list :
                    /\ k > 1
                    /\ 10 * sum[k] >= least
                    /\ Distance(sum[k], ideal) > Distance(sum[k - 1], ideal)}
    IN  IF past = {} THEN list ELSE SubSeq(list, 1, Fold!Min(past) - 1)

MultiInput_DoubleValue(list, target, fee) ==
    LET least == Largest(16 * target, 10 * (target + fee))
    IN  IF 10 * Value(list) < least THEN <<>>
        ELSE FrontUntilPast(list, [k \in DOMAIN list |-> Value(SubSeq(list, 1, k))],
                            2 * target, least)

-----------------------------------------------------------------------------
(* The score of a selection, ten times the code's                          *)

TrailingZeros(v) ==
    LET Count[i \in 0..9] == IF i = 9 \/ v % (10 ^ (i + 1)) # 0 THEN i ELSE Count[i + 1]
    IN  IF v = 0 THEN 0 ELSE Count[0]

(* How well the outputs hide which of them is the change.  The test for    *)
(* close values divides integers, and so never changes the factor.         *)
OutAnonymity(target, change) ==
    LET zeroDiff == TrailingZeros(target) - TrailingZeros(change)
    IN  CASE change = 0    -> 10
          [] change # 0 /\ zeroDiff > 2 -> 0
          [] change # 0 /\ zeroDiff = 2 -> 2
          [] change # 0 /\ zeroDiff = 1 -> 7
          [] change # 0 /\ zeroDiff < 1 -> 10 * (1 - zeroDiff)

NumBytes(list, nOut) == 10 + 180 * Len(list) + 35 * nOut

(* The sub-scores of a selection that pays for everything.                 *)
Dust(target, change) == (0 < change /\ change < CENT) \/ target < CENT

FreeAllowed(target, change, bytes, prio) ==
    ~Dust(target, change) /\ prio >= DEFAULT_PRIORITY /\ bytes <= 10000

PriorityFactor(prio) ==
    CASE prio < DEFAULT_PRIORITY -> 0
      [] prio >= DEFAULT_PRIORITY /\ prio < 10 * DEFAULT_PRIORITY -> 7
      [] prio >= 10 * DEFAULT_PRIORITY /\ prio < 100 * DEFAULT_PRIORITY -> 9
      [] prio >= 100 * DEFAULT_PRIORITY -> 10

TxSizeFactor(kb) == <<10, 2, 1, 0, -10>>[IF kb > 3 THEN 5 ELSE kb + 1]

getSelectCoinsScores(list, target, change, bytes, prio) ==
    [allowFree  |-> IF FreeAllowed(target, change, bytes, prio) THEN 1 ELSE 0,
     noZeroConf |-> IF \E i \in DOMAIN list : ZeroConf(list[i]) THEN 0 ELSE 1,
     priority   |-> PriorityFactor(prio),
     numAddr    |-> Cardinality({list[i].addr : i \in DOMAIN list}),
     txSize     |-> IF FreeAllowed(target, change, bytes, prio) THEN 10
                    ELSE TxSizeFactor(bytes \div 1000),
     outAnonym  |-> OutAnonymity(target, change)]

(* The weights put the unconfirmed coins before everything else; a free    *)
(* transaction counts only while no fee is paid.                           *)
Weighted(s, fee) ==
    10000000 * s.noZeroConf + 50 * s.priority + 4000000 \div ((s.numAddr + 1) ^ 2)
        + 100 * s.txSize + 30 * s.outAnonym
        + (IF fee = 0 THEN 1000000 * s.allowFree ELSE 0)

ScoreOf(list, target, fee, change, bytes) ==
    Weighted(getSelectCoinsScores(list, target, change, bytes,
                                  TotalPriority(list) \div bytes), fee)

NotEnough == -10       \* the code's -1

PyEvalCoinSelect(list, target, fee) ==
    LET change == Value(list) - (target + fee)
    IN  IF list = <<>> \/ change < 0 THEN NotEnough
        ELSE ScoreOf(list, target, fee, change, NumBytes(list, IF change = 0 THEN 1 ELSE 2))

-----------------------------------------------------------------------------
(* The selection                                                           *)

MultiLists(order, target, fee) ==
    << MultiInput_SingleValue(order, target, fee),
       MultiInput_DoubleValue(order, target, fee),
       MultiInput_SingleValue(order, target + CENT, fee),
       MultiInput_DoubleValue(order, target + CENT, fee) >>

AllLists(order, target, fee) ==
    << SingleInput_SingleValue(order, target, fee),
       MultiInput_SingleValue(order, target, fee),
       SingleInput_SingleValue(order, target + CENT, fee),
       MultiInput_SingleValue(order, target + CENT, fee),
       SingleInput_DoubleValue(order, target, fee),
       MultiInput_DoubleValue(order, target, fee),
       SingleInput_DoubleValue(order, target + CENT, fee),
       MultiInput_DoubleValue(order, target + CENT, fee) >>

(* Python's max(lists, key): the first list of the highest score.          *)
FirstMax(lists, score) ==
    lists[CHOOSE i \in DOMAIN lists :
             \A j \in DOMAIN lists : score[j] < score[i] \/ (score[j] = score[i] /\ i <= j)]

BestList(lists, target, fee) ==
    FirstMax(lists, [i \in DOMAIN lists |-> PyEvalCoinSelect(lists[i], target, fee)])

OrderedLists(list, target, fee) ==
    SeqX!FoldLeft(LAMBDA acc, method : acc \o AllLists(PySortCoins(list, method), target, fee),
                  <<>>, <<0, 3, 4, 5, 6, 7>>)

(* The lists max may return: the best of the ordered ones, or a random one *)
(* that beats it.                                                          *)
OrLucky(fixed, score, list, target, fee) ==
    {fixed} \cup {l \in {BestList(MultiLists(o, target, fee), target, fee) :
                              o \in RandomOrders(list)} :
                     PyEvalCoinSelect(l, target, fee) > score}

WithScore(fixed, list, target, fee) ==
    OrLucky(fixed, PyEvalCoinSelect(fixed, target, fee), list, target, fee)

BestLists(list, target, fee) ==
    WithScore(BestList(OrderedLists(list, target, fee), target, fee), list, target, fee)

IDEAL_NUM_INPUTS == 5

(* Mutant: a coin that is selected already is thrown in again.             *)
Extras_Again(chosen, list) ==
    LET used  == {chosen[i].addr : i \in DOMAIN chosen}
        extra(c) == /\ c.addr \in used
                    /\ Confirmed(c)
                    /\ Priority(c) <= ONE_BTC * 144
        small == SelectSeq(SortedBy(list, LAMBDA c : -Priority(c)), extra)
        room  == IDEAL_NUM_INPUTS - Len(chosen)
    IN  SubSeq(small, 1, IF Len(small) < room THEN Len(small) ELSE room)

(* Small coins of the addresses already used are thrown in, the smallest   *)
(* first, when the change is recognisable anyway.                          *)
Extras(chosen, list) ==
    LET used  == {chosen[i].addr : i \in DOMAIN chosen}
        extra(c) == /\ c.id \notin Ids(chosen)
                    /\ c.addr \in used
                    /\ Confirmed(c)
                    /\ Priority(c) <= ONE_BTC * 144
        small == SelectSeq(SortedBy(list, LAMBDA c : -Priority(c)), extra)
        room  == IDEAL_NUM_INPUTS - Len(chosen)
    IN  SubSeq(small, 1, IF Len(small) < room THEN Len(small) ELSE room)

(* Every selection the code may return.                                    *)
PySelectCoins(list, target, fee) ==
    IF Value(list) < target THEN {<<>>}
    ELSE {IF /\ best # <<>>
             /\ Len(best) < IDEAL_NUM_INPUTS
             /\ OutAnonymity(target, Value(best) - (target + fee)) = 0
          THEN best \o Extras(best, list)
          ELSE best : best \in BestLists(list, target, fee)}

-----------------------------------------------------------------------------
(* The suggested fee.  perKb and prio are bitcoind's answers; prio is -1   *)
(* when bitcoind has too little data.                                      *)

SuggestedFee(bytes, free, perKb) ==
    LET kb == bytes \div 1000
    IN  IF kb <= 10 /\ free /\ bytes < 10000 THEN 0 ELSE (1 + kb) * perKb

calcMinSuggestedFees(list, target, fee, nOut, perKb, prio) ==
    LET bytes == NumBytes(list, nOut + (IF Value(list) > target + fee THEN 1 ELSE 0))
        free  == prio > -1 /\ TotalPriority(list) \div bytes >= prio
    IN  IF list = <<>> THEN -1 ELSE SuggestedFee(bytes, free, perKb)

(* For the inputs of an M-of-N lockbox; the answer -1 of bitcoind is       *)
(* compared like a threshold.                                              *)
calcMinSuggestedFeesHackMS(list, nOut, m, perKb, prio) ==
    LET bytes == Len(list) * (m * 70 + 40) + 200 * nOut
    IN  SuggestedFee(bytes, TotalPriority(list) \div bytes >= prio, perKb)

(* The suggestion used by armoryd.  It does not count the inputs.          *)
calcMinSuggestedFeesNew(list, target, fee, nOut) ==
    LET change == Value(list) - (target + fee)
        bytes  == 10 + 34 * nOut + (IF change > 0 THEN 35 ELSE 0)
    IN  IF list = <<>> THEN -1
        ELSE SuggestedFee(bytes, ~Dust(target, change)
                                   /\ TotalPriority(list) \div bytes >= DEFAULT_PRIORITY,
                          MIN_TX_FEE)
=============================================================================
