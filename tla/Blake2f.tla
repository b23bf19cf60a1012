------------------------------ MODULE Blake2f ------------------------------
(***************************************************************************)
(* The compression function F of precompiles/09-blake2f.ts, which computes *)
(* with 64-bit words kept as two 32-bit halves, and the one of the         *)
(* standard, which computes with words.  A half has HalfBits bits, so that *)
(* the words are small enough to be looked at; shifts are in proportion.   *)
(***************************************************************************)
EXTENDS Integers, Sequences, FiniteSetsExt, SequencesExt

CONSTANTS
  HalfBits,    \* 32
  IV           \* BLAKE2B_IV32: sixteen halves, the low one of a word first

Half == 0 .. 2 ^ HalfBits - 1

\* A half has quarters, as 32 bits have bytes, and IV consists of halves; the rest is
\* arithmetic.
ASSUME HalvesAssumption ==
  /\ HalfBits \in Nat \ {0} /\ HalfBits % 4 = 0 /\ IV \in [1 .. 16 -> Half]
  /\ \A m, n \in 0 .. 2 * HalfBits : 2 ^ m >= 1 /\ 2 ^ (m + n) = 2 ^ m * 2 ^ n

XorOf(x, y, bits) ==
  MapThenSumSet(LAMBDA n : IF (x \div 2 ^ n) % 2 = (y \div 2 ^ n) % 2 THEN 0 ELSE 2 ^ n,
                0 .. bits - 1)
XorTable == [p \in Half \X Half |-> XorOf(p[1], p[2], HalfBits)]
Xor(x, y) == XorTable[<<x, y>>]
Shifted(x, n) == (x * 2 ^ n) % 2 ^ HalfBits        \* x << n, stored in a half
Quarter == HalfBits \div 4

\* SIGMA8, by rows; the last two of its twelve rows are never used
Sigma ==
  << <<0, 1, 2, 3, 4, 5, 6, 7, 8, 9, 10, 11, 12, 13, 14, 15>>,
     <<14, 10, 4, 8, 9, 15, 13, 6, 1, 12, 0, 2, 11, 7, 5, 3>>,
     <<11, 8, 12, 0, 5, 2, 15, 13, 10, 14, 3, 6, 7, 1, 9, 4>>,
     <<7, 9, 3, 1, 13, 12, 11, 14, 2, 6, 5, 10, 4, 0, 15, 8>>,
     <<9, 0, 5, 7, 2, 4, 10, 15, 14, 1, 11, 12, 6, 8, 3, 13>>,
     <<2, 12, 6, 10, 0, 11, 8, 3, 4, 13, 7, 5, 15, 14, 1, 9>>,
     <<12, 5, 1, 15, 14, 13, 4, 10, 0, 7, 6, 3, 9, 2, 8, 11>>,
     <<13, 11, 7, 14, 12, 1, 3, 9, 5, 0, 15, 4, 8, 6, 2, 10>>,
     <<6, 15, 14, 9, 11, 3, 0, 8, 12, 2, 13, 7, 1, 4, 10, 5>>,
     <<10, 2, 8, 4, 7, 6, 1, 5, 15, 11, 9, 14, 3, 12, 13, 0>> >>

----------------------------------------------------------------------------
(* The code: v is an array of 32 halves, from index 0. *)

\* Mutant: the carry is lost.
NoCarry(sum) == 0
Carry(sum) == sum \div 2 ^ HalfBits

\* v[a, a+1] += (low, high), of ADD64AA and ADD64AC
Add64(v, a, low, high) ==
  LET o0 == v[a] + low
      o1 == v[a + 1] + high + Carry(o0)
  IN  [v EXCEPT ![a] = o0 % 2 ^ HalfBits, ![a + 1] = o1 % 2 ^ HalfBits]
ADD64AA(v, a, b) == Add64(v, a, v[b], v[b + 1])

\* v[d, d+1] = (v[d, d+1] xor v[a, a+1]) rotated: by 32, by 24 or 16, by 63
SwapHalves(v, d, a) ==
  [v EXCEPT ![d] = Xor(v[d + 1], v[a + 1]), ![d + 1] = Xor(v[d], v[a])]
RotateBy(v, d, a, n) ==
  LET xor0 == Xor(v[d], v[a])
      xor1 == Xor(v[d + 1], v[a + 1])
  IN  [v EXCEPT ![d] = Xor(xor0 \div 2 ^ n, Shifted(xor1, HalfBits - n)),
                ![d + 1] = Xor(xor1 \div 2 ^ n, Shifted(xor0, HalfBits - n))]
RotateLeft(v, d, a) ==
  LET xor0 == Xor(v[d], v[a])
      xor1 == Xor(v[d + 1], v[a + 1])
  IN  [v EXCEPT ![d] = Xor(xor1 \div 2 ^ (HalfBits - 1), Shifted(xor0, 1)),
                ![d + 1] = Xor(xor0 \div 2 ^ (HalfBits - 1), Shifted(xor1, 1))]

B2B_G(v, mw, a, b, c, d, ix, iy) ==
  LET v1 == Add64(ADD64AA(v, a, b), a, mw[ix], mw[ix + 1])
      v2 == SwapHalves(v1, d, a)
      v3 == RotateBy(ADD64AA(v2, c, d), b, c, 3 * Quarter)
      v4 == Add64(ADD64AA(v3, a, b), a, mw[iy], mw[iy + 1])
      v5 == RotateBy(v4, d, a, 2 * Quarter)
  IN  RotateLeft(ADD64AA(v5, c, d), b, c)

\* The eight calls of a round: a, b, c, d
Mixes == << <<0, 8, 16, 24>>, <<2, 10, 18, 26>>, <<4, 12, 20, 28>>, <<6, 14, 22, 30>>,
            <<0, 10, 20, 30>>, <<2, 12, 22, 24>>, <<4, 14, 16, 26>>, <<6, 8, 18, 28>> >>
Round(v, mw, i) ==
  LET row == Sigma[(i % 10) + 1]
  IN  FoldLeftDomain(
        LAMBDA w, n : B2B_G(w, mw, Mixes[n][1], Mixes[n][2], Mixes[n][3], Mixes[n][4],
                            2 * row[2 * n - 1], 2 * row[2 * n]),
        v, Mixes)

\* What B2B_GET32 makes of four elements of m, which are words and not bytes;
\* behind the end of m is nothing, which counts as zero
B2B_GET32(arr, i) ==
  LET at(n) == IF n \in DOMAIN arr THEN arr[n] ELSE 0
  IN  Xor(Xor(at(i), Shifted(at(i + 1), Quarter)),
          Xor(Shifted(at(i + 2), 2 * Quarter), Shifted(at(i + 3), 3 * Quarter)))
MessageWords(m) == [i \in 0 .. 31 |-> B2B_GET32(m, 4 * i)]

WorkVariables(h, t, f) ==
  [i \in 0 .. 31 |->
     CASE i < 16 -> h[i]
       [] i \in 24 .. 27 -> Xor(IV[i - 15], t[i - 24])
       [] i \in 28 .. 29 /\ f -> 2 ^ HalfBits - 1 - IV[i - 15]
       [] OTHER -> IV[i - 15]]

\* The work variables after each round are a set of one, which lets TLC
\* compute a round before it begins the next
F(h, m, t, f, rounds) ==
  LET mixed[i \in 0 .. rounds] ==
        IF i = 0 THEN {WorkVariables(h, t, f)}
        ELSE {Round(v, MessageWords(m), i - 1) : v \in mixed[i - 1]}
      final == CHOOSE v \in mixed[rounds] : TRUE
  IN  [i \in 0 .. 15 |-> Xor(Xor(h[i], final[i]), final[i + 16])]

----------------------------------------------------------------------------
(* The standard: v is a sequence of sixteen words. *)

WordBits2 == 2 * HalfBits
Whole(halves, n) == halves[2 * n] + halves[2 * n + 1] * 2 ^ HalfBits
Wholes(halves, count) == [n \in 0 .. count - 1 |-> Whole(halves, n)]
WXor(x, y) == XorOf(x, y, WordBits2)
Rotated(x, n) == x \div 2 ^ n + (x % 2 ^ n) * 2 ^ (WordBits2 - n)
Plus(x, y) == (x + y) % 2 ^ WordBits2

G(v, a, b, c, d, x, y) ==
  LET a1 == Plus(Plus(v[a], v[b]), x)
      d1 == Rotated(WXor(v[d], a1), 4 * Quarter)
      c1 == Plus(v[c], d1)
      b1 == Rotated(WXor(v[b], c1), 3 * Quarter)
      a2 == Plus(Plus(a1, b1), y)
      d2 == Rotated(WXor(d1, a2), 2 * Quarter)
      c2 == Plus(c1, d2)
      b2 == Rotated(WXor(b1, c2), WordBits2 - 1)
  IN  [v EXCEPT ![a] = a2, ![b] = b2, ![c] = c2, ![d] = d2]

\* Columns, then diagonals, of v as a matrix of four rows
StandardRound(v, m, i) ==
  FoldLeftDomain(
    LAMBDA w, n :
      LET turn == IF n <= 4 THEN 0 ELSE 1
          row(k) == 4 * k + ((n - 1 + turn * k) % 4)
          s == Sigma[(i % 10) + 1]
      IN  G(w, row(0), row(1), row(2), row(3), m[s[2 * n - 1]], m[s[2 * n]]),
    v, [n \in 1 .. 8 |-> n])

Compress(h, m, t, f, rounds) ==
  LET iv(n) == IV[2 * n + 1] + IV[2 * n + 2] * 2 ^ HalfBits
      start == [n \in 0 .. 15 |->
                  CASE n < 8 -> h[n]
                    [] n \in {12, 13} -> WXor(iv(n - 8), t[n - 12])
                    [] n = 14 /\ f -> WXor(iv(6), 2 ^ WordBits2 - 1)
                    [] OTHER -> iv(n - 8)]
      mixed[i \in 0 .. rounds] ==
        IF i = 0 THEN {start}
        ELSE {StandardRound(v, m, i - 1) : v \in mixed[i - 1]}
      final == CHOOSE v \in mixed[rounds] : TRUE
  IN  [n \in 0 .. 7 |-> WXor(WXor(h[n], final[n]), final[n + 8])]
=============================================================================
