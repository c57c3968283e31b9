------------------------------- MODULE MCSend -------------------------------
(* Small wallets for Send: dust that makes the fee loop go round, coins    *)
(* old enough to be free, unconfirmed coins, two addresses, and more coins *)
(* than are listed.                                                        *)
EXTENDS Send

C(i, v, c, a) == [id |-> i, val |-> v, conf |-> c, addr |-> a]

DustCoins == [i \in 1..4 |-> C(i, 1, IF i <= 2 THEN 1 ELSE 0, "a")]
OldCoins == << C(1, 4000, 200, "a"), C(2, 60, 2, "a"), C(3, 9000, 288, "b") >>
Mixed    == << C(1, 70, 3, "a"), C(2, 90, 0, "a"), C(3, 70, 3, "b"), C(4, 300, 0, "b") >>
Crumbs   == [i \in 1..5 |-> C(i, 40, 9 - i, "a")]

MCWallets   == {DustCoins, OldCoins, Mixed, Crumbs}
MCDeposits  == {C(9, 200, 0, "b")}
MCAmounts   == {0, 1, 130, 1000}
MCFeesTyped == {0, 1, 120}
MCEstimates == {[perKb |-> 1, prio |-> DEFAULT_PRIORITY], [perKb |-> 40, prio |-> -1],
                [perKb |-> 120, prio |-> DEFAULT_PRIORITY]}
MCRecipients == {1, 30}
MCSources   == {0, 7}
=============================================================================
