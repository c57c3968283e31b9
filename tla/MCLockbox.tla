----------------------------- MODULE MCLockbox ------------------------------
(* Five situations of two computers.  Keys 1 to 3 are lockbox keys, 4 and 5  *)
(* those of wallet coins, 6 to 9 change addresses, 10 is somebody else's.    *)
EXTENDS Lockbox

Computers_ == {"A", "B"}
Box        == [m |-> 2, keys |-> <<1, 2, 3>>]
Bare       == pubkeylist_to_multisig_script(<<1, 2, 3>>, 2, "bare")
P2SH       == pubkeylist_to_multisig_script(<<1, 2, 3>>, 2, "p2sh")
GenesisOuts_ == <<[to |-> KeyScript(4), value |-> 5], [to |-> KeyScript(5), value |-> 3],
                  [to |-> Bare, value |-> 3], [to |-> P2SH, value |-> 4],
                  [to |-> KeyScript(4), value |-> 2]>>

Both(a, b) == [c \in Computers_ |-> IF c = "A" THEN a ELSE b]
Pay(v)     == [value |-> v, fee |-> 1, to |-> KeyScript(10)]

Quiet == [coins |-> {}, boxes |-> <<>>, typed |-> {}, removes |-> FALSE, mishaps |-> 0,
          terms |-> {}, spends |-> {}, merged |-> 2, daemon |-> {},
          leads |-> {"A"}, windows |-> {"review"},
          holds |-> Both({1, 4, 6, 8}, {2, 3, 5, 7, 9}), watches |-> Both({}, {}),
          change |-> Both(<<6, 8>>, <<7, 9>>),
          mails |-> [boxes |-> 3, notes |-> 2, collectors |-> 2]]

\* Lockboxes are made, imported, removed and read back; B may run armoryd.
Defining == [Quiet EXCEPT !.typed = {Box, [m |-> 2, keys |-> <<3, 1, 2>>], [m |-> 1, keys |-> <<2, 1>>]},
                          !.removes = TRUE, !.mishaps = 3]
\* Both fund the lockbox together and A merges the notes.
Funding  == [Quiet EXCEPT !.coins = {1, 2}, !.boxes = <<Box>>, !.terms = {[value |-> 2, fee |-> 1]},
                          !.change = Both(<<6>>, <<7>>)]
\* A promises its coin twice, perhaps to different lockboxes, or spends it elsewhere after promising it.
Twice    == [Funding EXCEPT !.boxes = <<Box, [m |-> 1, keys |-> <<1, 2>>]>>,
                            !.change = Both(<<6, 8>>, <<>>), !.spends = {Pay(4)}, !.mails.collectors = 1]
\* The lockbox has a coin in either form and A spends from it.
Spending == [Quiet EXCEPT !.coins = {3, 4}, !.boxes = <<Box>>, !.spends = {Pay(5), Pay(2)}]
\* Both do, independently.
Together == [Spending EXCEPT !.spends = {Pay(5)}, !.leads = Computers_, !.windows = @ \cup {"offline"},
                              !.mails.collectors = 3]
\* A watches what B, without a network, can sign.
Offline  == [Quiet EXCEPT !.coins = {1, 5}, !.spends = {Pay(1), Pay(6)}, !.windows = @ \cup {"offline"},
                          !.holds = Both({}, {4, 6, 8}), !.watches = Both({4, 6, 8}, {})]

Worlds_ == {Defining, [Defining EXCEPT !.daemon = {"B"}], Funding, Twice, Spending, Together,
            [Together EXCEPT !.daemon = {"B"}], Offline}
=============================================================================
