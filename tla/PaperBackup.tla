----------------------------- MODULE PaperBackup -----------------------------
(***************************************************************************)
(* What a paper backup says and how it is read back: lines of digits with  *)
(* a checksum that corrects one digit, the masking of the SecurePrint      *)
(* code, and the splitting of the root key into fragments of which any M   *)
(* give it back (armoryengine/ArmoryUtils.py).                             *)
(*                                                                         *)
(* A line has LineLen digits below Base where the program has 16 bytes; a  *)
(* root key is one line and so is a chain code.  The hash, the HMAC, the   *)
(* derivation of chain codes and the mask are parameters: any function of  *)
(* the right type.                                                         *)
(***************************************************************************)
EXTENDS Integers, Sequences, FiniteSets, SequencesExt

CONSTANTS
  Base,           \* values of a digit ("byte")
  LineLen,        \* digits of a line
  PRIMES,         \* number of lines of a secret -> prime just below its range
  Hash(_),        \* hash256 of a sequence of digits, as two digits
  Hmac(_),        \* HMAC512 cut to the length of its argument
  Chaincode(_),   \* the chain code derived from a root key
  MaskKey(_)      \* SecurePrint code -> digits added by the mask

Digit == 0 .. Base - 1

----------------------------------------------------------------------------
(* Checksums *)

\* makeSixteenBytesEasy: the digits and their checksum
makeSixteenBytesEasy(b) == [bin |-> b, chk |-> Hash(b)]

\* fixChecksumError: the first position, then the first value, that fits
fixChecksumError(bin, chk) ==
  LET fits == {<<i, v>> \in (1 .. Len(bin)) \X Digit :
                 Hash([bin EXCEPT ![i] = v]) = chk}
      first == CHOOSE f \in fits : \A g \in fits :
                 f[1] < g[1] \/ (f[1] = g[1] /\ f[2] <= g[2])
  IN  IF fits = {} THEN <<>> ELSE [bin EXCEPT ![first[1]] = first[2]]

\* verifyChecksum: as typed, backwards, with one digit corrected, or as
\* typed when only one digit of the checksum is wrong
verifyChecksum(bin, chk) ==
  LET fixed == fixChecksumError(bin, chk)
      oneOff == \E i \in DOMAIN chk, v \in Digit : Hash(bin) = [chk EXCEPT ![i] = v]
  IN  CASE Hash(bin) = chk          -> bin
        [] Hash(bin) # chk /\ Hash(Reverse(bin)) = chk -> Reverse(bin)
        [] OTHER -> IF fixed # <<>> THEN fixed
                    ELSE IF oneOff THEN bin ELSE <<>>

\* readSixteenEasyBytes: the digits and what was done to them
readSixteenEasyBytes(line) ==
  LET new == verifyChecksum(line.bin, line.chk)
  IN  [bin |-> new, err |-> CASE new = <<>>      -> "Error_2+"
                              [] new = line.bin -> "None"
                              [] OTHER          -> "Fixed_1"]

\* A page is a sequence of lines; what is read from it, or <<>> when a line
\* cannot be corrected
ReadLines(lines) ==
  LET read == [i \in DOMAIN lines |-> readSixteenEasyBytes(lines[i])]
  IN  IF \E i \in DOMAIN read : read[i].err = "Error_2+"
      THEN <<>> ELSE [i \in DOMAIN read |-> read[i].bin]

----------------------------------------------------------------------------
(* The field *)

RECURSIVE ff_power(_, _, _)
ff_power(p, a, b) ==
  IF b = 0 THEN 1
  ELSE (ff_power(p, a * a % p, b \div 2) * (IF b % 2 = 1 THEN a ELSE 1)) % p

ff_divide(p, a, b) == a * ff_power(p, b % p, p - 2) % p

mtrxrmrowcol(m, r, c) ==
  LET skip(k, i) == IF i < k THEN i ELSE i + 1
  IN  [i \in 1 .. Len(m) - 1 |-> [j \in 1 .. Len(m) - 1 |-> m[skip(r, i)][skip(c, j)]]]

SumMod(p, s) == FoldSeq(LAMBDA a, acc : (a + acc) % p, 0, s)

Sign(k) == IF k % 2 = 1 THEN -1 ELSE 1

RECURSIVE mtrxdet(_, _)
mtrxdet(p, m) ==
  IF Len(m) = 1 THEN m[1][1]
  ELSE SumMod(p, [i \in 1 .. Len(m) |->
                    (m[1][i] * Sign(i - 1) * mtrxdet(p, mtrxrmrowcol(m, 1, i))) % p])

mtrxadjoint_NotTransposed(p, m) ==
  [i \in DOMAIN m |-> [j \in DOMAIN m |->
     (Sign(i + j) * mtrxdet(p, mtrxrmrowcol(m, i, j))) % p]]

mtrxadjoint(p, m) ==
  [i \in DOMAIN m |-> [j \in DOMAIN m |->
     (Sign(i + j) * mtrxdet(p, mtrxrmrowcol(m, j, i))) % p]]

mtrxinv(p, m) ==
  LET det == mtrxdet(p, m)
      adj == mtrxadjoint(p, m)
  IN  [i \in DOMAIN m |-> [j \in DOMAIN m |-> ff_divide(p, adj[i][j], det)]]

mtrxmultvect(p, m, v) ==
  [i \in DOMAIN m |-> SumMod(p, [j \in DOMAIN v |-> m[i][j] * v[j] % p])]

----------------------------------------------------------------------------
(* Splitting a secret: a sequence of lines *)

Digits(lines) == FlattenSeq(lines)
Lines(ds) == [i \in 1 .. Len(ds) \div LineLen |->
                SubSeq(ds, (i - 1) * LineLen + 1, i * LineLen)]

\* binary_to_int and int_to_binary, most significant digit first
ToInt(ds) == FoldLeft(LAMBDA acc, d : acc * Base + d, 0, ds)
FromInt(n, len) == [i \in 1 .. len |-> (n \div Base^(len - i)) % Base]

\* The i-th of the other coefficients: HMAC applied i times, read with the
\* least significant digit first
RECURSIVE lasthmac(_, _)
lasthmac(ds, i) == IF i = 0 THEN ds ELSE Hmac(lasthmac(ds, i - 1))
othernum(ds, i) == ToInt(Reverse(lasthmac(ds, i)))

\* SplitSecret: refused when the secret is not below the prime
Splittable(secret, needed, pieces) ==
  /\ ToInt(Digits(secret)) < PRIMES[Len(secret)]
  /\ pieces >= needed
  /\ needed # 1 /\ needed <= 8

poly(secret, needed, x) ==
  LET p  == PRIMES[Len(secret)]
      ds == Digits(secret)
  IN  SumMod(p, <<ToInt(ds) * ff_power(p, x, needed - 1) % p>> \o
                [i \in 1 .. needed - 1 |->
                   othernum(ds, i) * ff_power(p, x, needed - 1 - i) % p])

\* The piece number i (from 0) is the point at x = i + 1
SplitSecret(secret, needed, pieces) ==
  [i \in 1 .. pieces |->
     [x |-> i, y |-> Lines(FromInt(poly(secret, needed, i), Len(Digits(secret))))]]

\* ReconstructSecret: the leading coefficient of the polynomial through the
\* first "needed" points
ReconstructSecret(points, needed) ==
  LET n     == Len(points[1].y)
      p     == PRIMES[n]
      pairs == SubSeq(points, 1, needed)
      mtrx  == [i \in 1 .. needed |-> [j \in 1 .. needed |->
                                         ff_power(p, pairs[i].x, needed - j)]]
      v     == [i \in 1 .. needed |-> ToInt(Digits(pairs[i].y))]
  IN  Lines(FromInt(mtrxmultvect(p, mtrxinv(p, mtrx), v)[1], n * LineLen))

\* createTestingSubsets: all the ways to take M of the fragments entered, in
\* the order of the fragments (the instances stay below the limit of 100)
createTestingSubsets(indices, M) == {s \in SUBSET indices : Cardinality(s) = M}

testReconstructSecrets(points, M) ==
  {ReconstructSecret([k \in 1 .. M |-> points[SetToSortSeq(s, <)[k]]], M) :
     s \in createTestingSubsets(DOMAIN points, M)}

----------------------------------------------------------------------------
(* The SecurePrint mask, and the identifiers *)

NoCode == <<>>

\* FUNC_PWD: the code printed for a wallet
SecurePrintCode(root) == root

Shift(line, key, sign) == [i \in DOMAIN line |-> (line[i] + sign * key[i]) % Base]
Mask(lines, code) == [k \in DOMAIN lines |-> Shift(lines[k], MaskKey(code), 1)]
Unmask(lines, code) == [k \in DOMAIN lines |-> Shift(lines[k], MaskKey(code), -1)]

\* A root is the pair of its key and its chain code.  A wallet whose chain
\* code follows from its key is backed up by the key alone.
ShortForm(root) == root[2] = Chaincode(root[1])
Secret(root) == IF ShortForm(root) THEN <<root[1]>> ELSE root
RootOf(secret) == IF Len(secret) = 1 THEN <<secret[1], Chaincode(secret[1])>>
                                     ELSE <<secret[1], secret[2]>>

\* ComputeFragIDLineHex and ReadFragIDLineBin: M, the number of the fragment
\* (its index plus one), the wallet, and whether it is masked (128 added to M)
ComputeFragIDLine(M, index, wid, isSecure) ==
  [m |-> IF isSecure THEN 128 + M ELSE M, fnum |-> index + 1, wid |-> wid]
ReadFragIDLine(l) == [M |-> l.m % 128, fnum |-> l.fnum, wid |-> l.wid, doMask |-> l.m > 127]
=============================================================================
