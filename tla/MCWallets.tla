------------------------------ MODULE MCWallets ------------------------------
(* Two wallets, A with a derived chain code and B with one of its own, on    *)
(* digits below 4 and lines of two digits.                                   *)
EXTENDS Wallets

MCHash(b) == <<(b[1] + 2 * b[2] + 1) % 4, (3 * b[1] + b[2]) % 4>>
MCHmac(ds) == [i \in DOMAIN ds |-> (3 * ds[i] + ds[Len(ds) - i + 1] + i) % 4]
MCChaincode(r) == <<(r[2] + 1) % 4, (r[1] + 2) % 4>>
MCMaskKey(code) == <<(code[1][1] + 1) % 4, (code[2][2] + 2) % 4>>
MCPrimes == <<13, 251>>

A == <<<<1, 2>>, MCChaincode(<<1, 2>>)>>
B == <<<<2, 1>>, <<0, 3>>>>

ASSUME ~ShortForm(B) /\ ShortForm(A)
ASSUME \A r \in {A, B} : Splittable(Secret(r), 2, 3) /\ Splittable(Secret(r), 3, 3)

Nothing == [x \in {"copy", "import", "remove", "restore", "try", "recover", "parse", "crash", "tick"} |-> 0]
Quiet == [files |-> <<>>, papers |-> {}, frags |-> {}, typos |-> {<<>>}, codes |-> {NoCode},
          kinds |-> {"single"}, tests |-> {FALSE}, rows |-> 0, can |-> Nothing, mishaps |-> {}]

\* A wallet with three addresses, an imported key and a comment
Imp(enc) == Entry(Key(Alien(7), 1), -2, enc)
Full(root, enc) ==
  [createNewWallet(root, 3, enc) EXCEPT !.body = @ \o <<Imp(enc), Note(1)>>]
At(root, f) == WalletName(root, "") :> f

Slip(line, chk, pos, digit) == [line |-> line, chk |-> chk, pos |-> pos, digit |-> digit]
Slips == {<<>>, <<Slip(1, FALSE, 1, 0)>>, <<Slip(1, TRUE, 1, 3)>>,
          <<Slip(1, FALSE, 1, 3), Slip(1, FALSE, 2, 3)>>, <<Slip(1, FALSE, 2, 0), Slip(1, TRUE, 2, 0)>>}

RestoreWorlds ==
  {[Quiet EXCEPT !.files = At(A, Full(A, FALSE)), !.papers = [root : {A}, secure : BOOLEAN],
                 !.codes = {NoCode, A, B}, !.typos = Slips, !.kinds = {"single", "wo"}, !.tests = BOOLEAN,
                 !.can = [Nothing EXCEPT !["restore"] = 2, !["try"] = 2, !["tick"] = 1, !["crash"] = 1],
                 !.mishaps = {"mkdir"}],
   [Quiet EXCEPT !.papers = [root : {A, B}, secure : BOOLEAN],
                 !.codes = {NoCode, A, B}, !.typos = Slips, !.kinds = {"single", "wo"},
                 !.can = [Nothing EXCEPT !["restore"] = 2, !["try"] = 3]]}

Pieces(root, M, is) == [root : {root}, M : {M}, i : is, masked : BOOLEAN]
FragWorlds ==
  {[Quiet EXCEPT !.frags = fs, !.codes = {NoCode, A, B}, !.typos = ts, !.kinds = {"frags"}, !.rows = 3,
                 !.files = hs,
                 !.can = [Nothing EXCEPT !["restore"] = 1, !["try"] = n]] :
     <<fs, ts, hs, n>> \in
       {<<Pieces(A, 2, 1 .. 3), {<<>>}, At(A, Full(A, FALSE)), 4>>,
        <<Pieces(A, 2, 1 .. 2) \cup Pieces(A, 3, {2}) \cup Pieces(B, 2, {1}),
          {<<>>, <<Slip(1, FALSE, 1, 0)>>}, <<>>, 4>>,
        <<[root : {B}, M : {3}, i : 1 .. 3, masked : {FALSE}], {<<>>}, <<>>, 4>>}}

KeepWorlds ==
  {[Quiet EXCEPT !.files = At(A, Full(A, FALSE)) @@ At(B, Full(B, TRUE)), !.papers = [root : {A}, secure : {FALSE}],
                 !.can = [Nothing EXCEPT !["copy"] = 1, !["remove"] = 2, !["import"] = 1, !["crash"] = 1]]}

\* Damages of the body of a wallet
Change(f, i, e) == [f EXCEPT !.body[i] = e]
Moved(e, c) == LET k == Key(c, e.idx + 1) IN [e EXCEPT !.priv = k, !.pub = k, !.addr = k, !.hash = k]
Damaged(f) ==
  LET b == f.body IN
  {f,
   Change(f, 2, Moved(b[2], Alien(3))),
   Change(Change(f, 2, Moved(b[2], Alien(3))), 3, Moved(b[3], Alien(3))),
   Change(f, 3, Moved(b[3], Alien(3))),
   Change(f, 2, [b[2] EXCEPT !.pub = Key(Alien(4), 1)]),
   Change(f, 2, [b[2] EXCEPT !.priv = NoKey]),
   Change(f, 3, [b[3] EXCEPT !.priv = NoKey]),
   Change(f, 2, [b[2] EXCEPT !.cc = 1]),
   Change(f, 1, [b[1] EXCEPT !.priv = IF f.wo THEN @ ELSE Key(Alien(6), 1)]),
   Change(f, 1, [b[1] EXCEPT !.hash = Key(Alien(5), 1)]),
   Change(f, 2, [b[2] EXCEPT !.raw = "fixed"]),
   Change(f, 2, [b[2] EXCEPT !.enc = ~@]),
   Change(f, 4, [b[4] EXCEPT !.pub = Key(Alien(4), 1)]),
   Change(f, 4, [b[4] EXCEPT !.priv = NoKey]),
   [f EXCEPT !.body = RemoveAt(@, 2)],
   [f EXCEPT !.body = RemoveAt(@, 1)]} \cup
  (IF f.enc THEN {Change(f, 3, [b[3] EXCEPT !.priv = NoKey, !.later = TRUE])} ELSE {})

FixWorlds ==
  {[Quiet EXCEPT !.files = At(A, f), !.mishaps = {"io"},
                 !.can = [Nothing EXCEPT !["crash"] = 2, !["recover"] = 1]] :
     f \in Damaged(Full(A, FALSE)) \cup Damaged(Full(A, TRUE)) \cup Damaged(forkOnlineWallet(Full(A, FALSE)))}

\* Manual recovery of a wallet that is not loaded, or in another mode, and
\* then the restoration of the same wallet from paper
BadEntry(f) == Change(f, 2, [f.body[2] EXCEPT !.raw = "bad"])
ParseWorlds ==
  {[Quiet EXCEPT !.files = At(A, f), !.papers = [root : {A}, secure : {FALSE}],
                 !.can = [Nothing EXCEPT !["parse"] = 2, !["restore"] = 1, !["try"] = 1, !["crash"] = 1,
                                         !["recover"] = 1]] :
     f \in {BadEntry(Full(A, FALSE)), BadEntry(Full(A, TRUE)),
            Change(Full(A, FALSE), 4, [Imp(FALSE) EXCEPT !.enc = TRUE])}}

\* Two damaged wallets, one of which may be removed before the repair
TwoWorlds ==
  {[Quiet EXCEPT !.files = At(A, f) @@ At(B, Change(Full(B, TRUE), 2, Moved(Full(B, TRUE).body[2], Alien(3)))),
                 !.can = [Nothing EXCEPT !["remove"] = 1, !["crash"] = 1], !.mishaps = {"io"}] :
     f \in {Full(A, FALSE), Change(Full(A, FALSE), 4, [Imp(FALSE) EXCEPT !.pub = Key(Alien(4), 1)])}}

MCWorlds == TwoWorlds \cup ParseWorlds \cup RestoreWorlds \cup FragWorlds \cup KeepWorlds \cup FixWorlds
=============================================================================
