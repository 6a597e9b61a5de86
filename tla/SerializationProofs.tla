------------------------ MODULE SerializationProofs ------------------------
(***************************************************************************)
(* Proofs about messages between the hardware modem and its host.          *)
(*                                                                         *)
(* 1. Numbers, varints and the other basic values: each reader reads what  *)
(*    the writer of the same type writes.                                  *)
(* 2. The fields of the messages, their paths and their nesting.           *)
(* 3. What is read of a stream that may be cut: a value, a field.          *)
(* 4. The encoder: its recursive definition has a solution, and what it    *)
(*    writes is bounded.                                                   *)
(* 5. Types: invariant Transfer.                                           *)
(* 6. A decoder that reads what the encoder has written, step by step      *)
(*    (Follows), and the faults: invariant Received.                       *)
(* 7. What is converted into the transaction: invariant Converted.         *)
(* 8. Sizes: what the converters make fits in the size of its message.     *)
(* 9. The conversions undo each other, part by part.                       *)
(***************************************************************************)
EXTENDS SerializationInvariants, SequenceTheorems, WellFoundedInduction, TLAPS

\* The order on the natural numbers
Less == OpToRel(<, Nat)

\* What it means
LEMMA LessMeans == \A x, y : <<x, y>> \in Less <=> x \in Nat /\ y \in Nat /\ x < y
  BY DEF Less, OpToRel

\* A set of numbers that holds each one whose predecessors it holds is all of them
LEMMA StrongInduction ==
  ASSUME NEW S \in SUBSET Nat, \A n \in Nat : (\A m \in 0..(n - 1) : m \in S) => n \in S
  PROVE  S = Nat
<1> DEFINE T == Nat \ S
<1>1. SUFFICES ASSUME T # {} PROVE FALSE  OBVIOUS
<1>2. PICK x \in T : \A y \in T : ~(<<y, x>> \in Less)
  <2>1. IsWellFoundedOn(Less, Nat)  BY NatLessThanWellFounded DEF Less
  <2>2. T \subseteq Nat  OBVIOUS
  <2> HIDE DEF T
  <2> QED BY <1>1, <2>1, <2>2, WFMin
<1>3. \A y \in 0..(x - 1) : y \in S
  <2> SUFFICES ASSUME NEW y \in 0..(x - 1), y \in T PROVE FALSE
    OBVIOUS
  <2>1. <<y, x>> \in Less  BY LessMeans
  <2> QED BY <1>2, <2>1
<1> QED BY <1>3

\* A set of numbers that holds 0 and the successor of each is all of them
LEMMA Induction ==
  ASSUME NEW S \in SUBSET Nat, 0 \in S, \A n \in Nat : n \in S => n + 1 \in S
  PROVE  S = Nat
<1>1. ASSUME NEW n \in Nat, \A m \in 0..(n - 1) : m \in S PROVE n \in S  BY <1>1
<1> QED BY <1>1, StrongInduction

\* A set of numbers has a smallest
LEMMA SmallestExists ==
  ASSUME NEW S \in SUBSET Nat, S # {}
  PROVE  \E x \in S : \A y \in S : x <= y
<1>1. PICK x \in S : \A y \in S : ~(<<y, x>> \in Less)
  BY NatLessThanWellFounded, WFMin DEF Less
<1>2. ASSUME NEW y \in S PROVE x <= y
  <2>1. <<y, x>> \in Less <=> y < x  BY LessMeans
  <2>2. ~(<<y, x>> \in Less)  BY <1>1
  <2> QED BY <2>1, <2>2
<1> QED BY <1>2

\* and one with a bound has a greatest
LEMMA GreatestExists ==
  ASSUME NEW n \in Nat, NEW S \in SUBSET (0..n), S # {}
  PROVE  \E x \in S : \A y \in S : x >= y
<1> DEFINE T == {n - x : x \in S}
<1>1. PICK t \in T : \A y \in T : t <= y
  <2>1. T \subseteq Nat  OBVIOUS
  <2>2. T # {}
    <3>1. PICK x \in S : TRUE  OBVIOUS
    <3>2. n - x \in T  OBVIOUS
    <3> QED BY <3>2
  <2> HIDE DEF T
  <2> QED BY <2>1, <2>2, SmallestExists
<1>2. PICK x \in S : t = n - x  BY <1>1
<1>3. \A y \in S : x >= y
  <2> SUFFICES ASSUME NEW y \in S PROVE x >= y
    OBVIOUS
  <2>1. n - y \in T  OBVIOUS
  <2> HIDE DEF T
  <2> QED BY <1>1, <1>2, <2>1
<1> QED BY <1>3

\* which is the Max of the code's one-bit positions
LEMMA MaxProperty ==
  ASSUME NEW n \in Nat, NEW S \in SUBSET (0..n), S # {}
  PROVE  Max(S) \in S /\ \A y \in S : Max(S) >= y
BY GreatestExists DEF Max

\* The powers of two that the numbers of a stream are made of
LEMMA Powers == \A k \in 0..27 : 2^k \in Nat /\ 2^k >= 1 /\ 2^(k + 1) = 2 * 2^k
<1> SUFFICES ASSUME NEW k \in 0..27 PROVE 2^k \in Nat /\ 2^k >= 1 /\ 2^(k + 1) = 2 * 2^k
  OBVIOUS
<1>1. CASE k = 0  BY <1>1
<1>2. CASE k = 1  BY <1>2
<1>3. CASE k = 2  BY <1>3
<1>4. CASE k = 3  BY <1>4
<1>5. CASE k = 4  BY <1>5
<1>6. CASE k = 5  BY <1>6
<1>7. CASE k = 6  BY <1>7
<1>8. CASE k = 7  BY <1>8
<1>9. CASE k = 8  BY <1>9
<1>10. CASE k = 9  BY <1>10
<1>11. CASE k = 10  BY <1>11
<1>12. CASE k = 11  BY <1>12
<1>13. CASE k = 12  BY <1>13
<1>14. CASE k = 13  BY <1>14
<1>15. CASE k = 14  BY <1>15
<1>16. CASE k = 15  BY <1>16
<1>17. CASE k = 16  BY <1>17
<1>18. CASE k = 17  BY <1>18
<1>19. CASE k = 18  BY <1>19
<1>20. CASE k = 19  BY <1>20
<1>21. CASE k = 20  BY <1>21
<1>22. CASE k = 21  BY <1>22
<1>23. CASE k = 22  BY <1>23
<1>24. CASE k = 23  BY <1>24
<1>25. CASE k = 24  BY <1>25
<1>26. CASE k = 25  BY <1>26
<1>27. CASE k = 26  BY <1>27
<1>28. CASE k = 27  BY <1>28
<1> QED
  BY <1>1, <1>2, <1>3, <1>4, <1>5, <1>6, <1>7, <1>8, <1>9, <1>10, <1>11, <1>12, <1>13, <1>14,
      <1>15, <1>16, <1>17, <1>18, <1>19, <1>20, <1>21, <1>22, <1>23, <1>24, <1>25, <1>26,
          <1>27, <1>28

\* There is such a function, one bit at a time
LEMMA LowsExist == ASSUME NEW v, NEW n \in 0..27, Lows(v, n) # {} PROVE Lows(v, n + 1) # {}
<1>1. PICK low \in Lows(v, n) : TRUE  OBVIOUS
<1> DEFINE more == [k \in 0..(n + 1) |-> IF k = n + 1 THEN NextLow(v, low, k) ELSE low[k]]
<1>2. low \in [0..n -> Nat] /\ \A k \in 0..n : low[k] = NextLow(v, low, k)  BY <1>1 DEF Lows
<1>3. NextLow(v, low, n + 1) \in Nat
  <2>0. low[n] \in Nat  BY <1>2
  <2>1. 2^n \in Nat  BY Powers
  <2>2. (n + 1) - 1 = n /\ n + 1 # 0  OBVIOUS
  <2>3. NextLow(v, low, n + 1) = low[n] + IF n \in v THEN 2^n ELSE 0  BY <2>2 DEF NextLow
  <2> QED BY <2>0, <2>1, <2>3
<1>4. more \in [0..(n + 1) -> Nat]  BY <1>2, <1>3
<1>5. ASSUME NEW k \in 0..(n + 1) PROVE more[k] = NextLow(v, more, k)  BY <1>2 DEF NextLow
<1> QED BY <1>4, <1>5 DEF Lows

\* Number is the value of such a function
LEMMA NumberLow ==
  ASSUME NEW v, v \subseteq 0..27
  PROVE  \E low \in Lows(v, 28) : Number(v) = low[28]
<1> DEFINE S == {n \in Nat : n <= 28 => Lows(v, n) # {}}
<1>1. S \in SUBSET Nat  OBVIOUS
<1>2. 0 \in S
  <2>1. [k \in 0..0 |-> 0] \in Lows(v, 0)  BY DEF Lows, NextLow
  <2> QED BY <2>1
<1>3. \A n \in Nat : n \in S => n + 1 \in S  BY LowsExist
<1>4. Lows(v, 28) # {}
  <2> HIDE DEF S
  <2>1. S = Nat  BY <1>1, <1>2, <1>3, Induction
  <2> QED BY <2>1 DEF S
<1>5. PICK low : low \in Lows(v, 28)  BY <1>4
<1> DEFINE IsLow(l) == l = [k \in 0..28 |-> IF k = 0 THEN 0
                              ELSE l[k - 1] + IF k - 1 \in v THEN 2^(k - 1) ELSE 0]
<1>6. IsLow(low)  BY <1>5 DEF Lows, NextLow
<1> DEFINE f == CHOOSE l : IsLow(l)
<1>7. IsLow(f)  BY <1>6
<1>8. \A k \in 0..28 : f[k] = NextLow(v, f, k)  BY <1>7 DEF NextLow
<1>9. Number(v) = f[28]  BY DEF Number
<1>10. f \in Lows(v, 28)
  <2> DEFINE U == {n \in Nat : n <= 28 => f[n] = low[n]}
  <2> HIDE DEF f
  <2>1. U \in SUBSET Nat  OBVIOUS
  <2>2. 0 \in U  BY <1>5, <1>8 DEF Lows, NextLow
  <2>3. \A n \in Nat : n \in U => n + 1 \in U  BY <1>5, <1>8 DEF Lows, NextLow
  <2>4. U = Nat
    <3> HIDE DEF U
    <3> QED BY <2>1, <2>2, <2>3, Induction
  <2>5. \A n \in 0..28 : f[n] = low[n]  BY <2>4
  <2>6. DOMAIN f = 0..28 /\ f = [k \in 0..28 |-> f[k]]  BY <1>7
  <2> QED BY <2>5, <2>6, <1>5, <1>8 DEF Lows
<1> QED BY <1>9, <1>10
\* A Number is a natural number
LEMMA NumberType == ASSUME NEW v PROVE Number(v) \in Nat
<1>1. CASE v \subseteq 0..27
  <2>1. PICK low \in Lows(v, 28) : Number(v) = low[28]  BY <1>1, NumberLow
  <2> QED BY <2>1 DEF Lows
<1>2. CASE ~(v \subseteq 0..27)  BY <1>2 DEF Number, Huge
<1> QED BY <1>1, <1>2

\* and that of the bits of a number is the number
LEMMA NumberOfBits == ASSUME NEW n \in 0..(2^28 - 1) PROVE Number(BitsOf(n)) = n
<1> DEFINE v == BitsOf(n)
<1>1. v \subseteq 0..27  BY DEF BitsOf
<1>2. PICK low \in Lows(v, 28) : Number(v) = low[28]  BY <1>1, NumberLow
<1>3. low[0] = 0  BY <1>2 DEF Lows, NextLow
<1>4. low[1] = n % 2
  <2>1. (0 \in v <=> (n \div 1) % 2 = 1) /\ low[1] = low[0] + IF 0 \in v THEN 1 ELSE 0
    BY <1>2 DEF Lows, NextLow, BitsOf
  <2> QED BY <1>3, <2>1
<1>5. low[2] = n % 4
  <2>1. (1 \in v <=> (n \div 2) % 2 = 1) /\ low[2] = low[1] + IF 1 \in v THEN 2 ELSE 0
    BY <1>2 DEF Lows, NextLow, BitsOf
  <2> QED BY <1>4, <2>1
<1>6. low[3] = n % 8
  <2>1. (2 \in v <=> (n \div 4) % 2 = 1) /\ low[3] = low[2] + IF 2 \in v THEN 4 ELSE 0
    BY <1>2 DEF Lows, NextLow, BitsOf
  <2> QED BY <1>5, <2>1
<1>7. low[4] = n % 16
  <2>1. (3 \in v <=> (n \div 8) % 2 = 1) /\ low[4] = low[3] + IF 3 \in v THEN 8 ELSE 0
    BY <1>2 DEF Lows, NextLow, BitsOf
  <2> QED BY <1>6, <2>1
<1>8. low[5] = n % 32
  <2>1. (4 \in v <=> (n \div 16) % 2 = 1) /\ low[5] = low[4] + IF 4 \in v THEN 16 ELSE 0
    BY <1>2 DEF Lows, NextLow, BitsOf
  <2> QED BY <1>7, <2>1
<1>9. low[6] = n % 64
  <2>1. (5 \in v <=> (n \div 32) % 2 = 1) /\ low[6] = low[5] + IF 5 \in v THEN 32 ELSE 0
    BY <1>2 DEF Lows, NextLow, BitsOf
  <2> QED BY <1>8, <2>1
<1>10. low[7] = n % 128
  <2>1. (6 \in v <=> (n \div 64) % 2 = 1) /\ low[7] = low[6] + IF 6 \in v THEN 64 ELSE 0
    BY <1>2 DEF Lows, NextLow, BitsOf
  <2> QED BY <1>9, <2>1
<1>11. low[8] = n % 256
  <2>1. (7 \in v <=> (n \div 128) % 2 = 1) /\ low[8] = low[7] + IF 7 \in v THEN 128 ELSE 0
    BY <1>2 DEF Lows, NextLow, BitsOf
  <2> QED BY <1>10, <2>1
<1>12. low[9] = n % 512
  <2>1. (8 \in v <=> (n \div 256) % 2 = 1) /\ low[9] = low[8] + IF 8 \in v THEN 256 ELSE 0
    BY <1>2 DEF Lows, NextLow, BitsOf
  <2> QED BY <1>11, <2>1
<1>13. low[10] = n % 1024
  <2>1. (9 \in v <=> (n \div 512) % 2 = 1) /\ low[10] = low[9] + IF 9 \in v THEN 512 ELSE 0
    BY <1>2 DEF Lows, NextLow, BitsOf
  <2> QED BY <1>12, <2>1
<1>14. low[11] = n % 2048
  <2>1. (10 \in v <=> (n \div 1024) % 2 = 1) /\ low[11] = low[10] + IF 10 \in v THEN 1024 ELSE 0
    BY <1>2 DEF Lows, NextLow, BitsOf
  <2> QED BY <1>13, <2>1
<1>15. low[12] = n % 4096
  <2>1. (11 \in v <=> (n \div 2048) % 2 = 1) /\ low[12] = low[11] + IF 11 \in v THEN 2048 ELSE 0
    BY <1>2 DEF Lows, NextLow, BitsOf
  <2> QED BY <1>14, <2>1
<1>16. low[13] = n % 8192
  <2>1. (12 \in v <=> (n \div 4096) % 2 = 1) /\ low[13] = low[12] + IF 12 \in v THEN 4096 ELSE 0
    BY <1>2 DEF Lows, NextLow, BitsOf
  <2> QED BY <1>15, <2>1
<1>17. low[14] = n % 16384
  <2>1. (13 \in v <=> (n \div 8192) % 2 = 1) /\ low[14] = low[13] + IF 13 \in v THEN 8192 ELSE 0
    BY <1>2 DEF Lows, NextLow, BitsOf
  <2> QED BY <1>16, <2>1
<1>18. low[15] = n % 32768
  <2>1. (14 \in v <=> (n \div 16384) % 2 = 1) /\ low[15] = low[14] + IF 14 \in v THEN 16384 ELSE 0
    BY <1>2 DEF Lows, NextLow, BitsOf
  <2> QED BY <1>17, <2>1
<1>19. low[16] = n % 65536
  <2>1. (15 \in v <=> (n \div 32768) % 2 = 1) /\ low[16] = low[15] + IF 15 \in v THEN 32768 ELSE 0
    BY <1>2 DEF Lows, NextLow, BitsOf
  <2> QED BY <1>18, <2>1
<1>20. low[17] = n % 131072
  <2>1. (16 \in v <=> (n \div 65536) % 2 = 1) /\ low[17] = low[16] + IF 16 \in v THEN 65536 ELSE 0
    BY <1>2 DEF Lows, NextLow, BitsOf
  <2> QED BY <1>19, <2>1
<1>21. low[18] = n % 262144
  <2>1. (17 \in v <=> (n \div 131072) % 2 = 1) /\ low[18] = low[17] + IF 17 \in v THEN 131072 ELSE 0
    BY <1>2 DEF Lows, NextLow, BitsOf
  <2> QED BY <1>20, <2>1
<1>22. low[19] = n % 524288
  <2>1. (18 \in v <=> (n \div 262144) % 2 = 1) /\ low[19] = low[18] + IF 18 \in v THEN 262144 ELSE 0
    BY <1>2 DEF Lows, NextLow, BitsOf
  <2> QED BY <1>21, <2>1
<1>23. low[20] = n % 1048576
  <2>1. (19 \in v <=> (n \div 524288) % 2 = 1) /\ low[20] = low[19] + IF 19 \in v THEN 524288 ELSE 0
    BY <1>2 DEF Lows, NextLow, BitsOf
  <2> QED BY <1>22, <2>1
<1>24. low[21] = n % 2097152
  <2>1. (20 \in v <=> (n \div 1048576) % 2 = 1) /\ low[21] = low[20] + IF 20 \in v THEN 1048576 ELSE 0
    BY <1>2 DEF Lows, NextLow, BitsOf
  <2> QED BY <1>23, <2>1
<1>25. low[22] = n % 4194304
  <2>1. (21 \in v <=> (n \div 2097152) % 2 = 1) /\ low[22] = low[21] + IF 21 \in v THEN 2097152 ELSE 0
    BY <1>2 DEF Lows, NextLow, BitsOf
  <2> QED BY <1>24, <2>1
<1>26. low[23] = n % 8388608
  <2>1. (22 \in v <=> (n \div 4194304) % 2 = 1) /\ low[23] = low[22] + IF 22 \in v THEN 4194304 ELSE 0
    BY <1>2 DEF Lows, NextLow, BitsOf
  <2> QED BY <1>25, <2>1
<1>27. low[24] = n % 16777216
  <2>1. (23 \in v <=> (n \div 8388608) % 2 = 1) /\ low[24] = low[23] + IF 23 \in v THEN 8388608 ELSE 0
    BY <1>2 DEF Lows, NextLow, BitsOf
  <2> QED BY <1>26, <2>1
<1>28. low[25] = n % 33554432
  <2>1. (24 \in v <=> (n \div 16777216) % 2 = 1) /\ low[25] = low[24] + IF 24 \in v THEN 16777216 ELSE 0
    BY <1>2 DEF Lows, NextLow, BitsOf
  <2> QED BY <1>27, <2>1
<1>29. low[26] = n % 67108864
  <2>1. (25 \in v <=> (n \div 33554432) % 2 = 1) /\ low[26] = low[25] + IF 25 \in v THEN 33554432 ELSE 0
    BY <1>2 DEF Lows, NextLow, BitsOf
  <2> QED BY <1>28, <2>1
<1>30. low[27] = n % 134217728
  <2>1. (26 \in v <=> (n \div 67108864) % 2 = 1) /\ low[27] = low[26] + IF 26 \in v THEN 67108864 ELSE 0
    BY <1>2 DEF Lows, NextLow, BitsOf
  <2> QED BY <1>29, <2>1
<1>31. low[28] = n % 268435456
  <2>1. (27 \in v <=> (n \div 134217728) % 2 = 1) /\ low[28] = low[27] + IF 27 \in v THEN 134217728 ELSE 0
    BY <1>2 DEF Lows, NextLow, BitsOf
  <2> QED BY <1>30, <2>1
<1> QED BY <1>2, <1>31

\* What is left of a sequence behind its first elements
LEMMA DropProperties ==
  ASSUME NEW S, NEW s \in Seq(S), NEW n \in 0..Len(s)
  PROVE  /\ Drop(s, n) \in Seq(S) /\ Len(Drop(s, n)) = Len(s) - n
         /\ \A i \in 1..(Len(s) - n) : Drop(s, n)[i] = s[n + i]
<1>1. Len(s) \in Nat  OBVIOUS
<1>2. \A i \in (n + 1)..Len(s) : s[i] \in S  BY <1>1
<1>3. n + 1 \in Int /\ Len(s) \in Int  BY <1>1
<1> HIDE DEF Drop
<1> QED BY <1>1, <1>2, <1>3, SubSeqProperties DEF Drop

\* A sequence in two parts
LEMMA Concat ==
  ASSUME NEW S, NEW s \in Seq(S), NEW t \in Seq(S), NEW c, c = s \o t
  PROVE  /\ c \in Seq(S) /\ Len(c) = Len(s) + Len(t)
         /\ Len(s) \in Nat /\ Len(t) \in Nat
         /\ \A i \in 1..Len(s) : c[i] = s[i]
         /\ \A i \in 1..Len(t) : c[Len(s) + i] = t[i]
<1>1. /\ c \in Seq(S) /\ Len(c) = Len(s) + Len(t)
      /\ \A i \in 1 .. Len(s) + Len(t) : c[i] = IF i <= Len(s) THEN s[i] ELSE t[i - Len(s)]
  BY ConcatProperties
<1>2. Len(s) \in Nat /\ Len(t) \in Nat  OBVIOUS
<1>3. ASSUME NEW i \in 1..Len(t) PROVE c[Len(s) + i] = t[i]  BY <1>2, <1>1
<1> QED BY <1>1, <1>2, <1>3

\* Behind the first of two parts there is the second
LEMMA DropOfConcat ==
  ASSUME NEW S, NEW s \in Seq(S), NEW t \in Seq(S)
  PROVE  Drop(s \o t, Len(s)) = t
<1> DEFINE c == s \o t
           d == Drop(c, Len(s))
<1>1. /\ c \in Seq(S) /\ Len(c) = Len(s) + Len(t)
      /\ Len(s) \in Nat /\ Len(t) \in Nat
      /\ \A i \in 1..Len(t) : c[Len(s) + i] = t[i]
  BY Concat
<1> HIDE DEF c
<1>2. Len(s) \in 0..Len(c) /\ Len(c) - Len(s) = Len(t)  BY <1>1
<1>3. d \in Seq(S) /\ Len(d) = Len(t) /\ \A i \in 1..Len(t) : d[i] = c[Len(s) + i]
  BY <1>1, <1>2, DropProperties
<1> HIDE DEF d
<1>4. d = t  BY <1>1, <1>3, SeqEqual
<1> QED BY <1>4 DEF c, d

\* and before the second there is the first
LEMMA TakeOfConcat ==
  ASSUME NEW S, NEW s \in Seq(S), NEW t \in Seq(S)
  PROVE  SubSeq(s \o t, 1, Len(s)) = s
<1> DEFINE c == s \o t
           d == SubSeq(c, 1, Len(s))
<1>1. /\ c \in Seq(S) /\ Len(c) = Len(s) + Len(t)
      /\ Len(s) \in Nat /\ Len(t) \in Nat
      /\ \A i \in 1..Len(s) : c[i] = s[i]
  BY Concat
<1> HIDE DEF c
<1>2. \A i \in 1..Len(s) : c[i] \in S  BY <1>1
<1>3. d \in Seq(S) /\ Len(d) = Len(s) /\ \A i \in 1..Len(s) : d[i] = c[i]
  BY <1>1, <1>2, SubSeqProperties
<1> HIDE DEF d
<1>4. d = s  BY <1>1, <1>3, SeqEqual
<1> QED BY <1>4 DEF c, d

\* The varint at the head of a stream ends at the first byte whose top bit is clear
LEMMA VarintLenProperties ==
  ASSUME NEW s \in Seq(Byte)
  PROVE  /\ VarintLen(s) \in Nat /\ VarintLen(s) <= Len(s)
         /\ VarintLen(s) = 0 => \A i \in 1..Len(s) : 7 \in s[i]
         /\ VarintLen(s) > 0 => 7 \notin s[VarintLen(s)]
                                /\ \A i \in 1..(VarintLen(s) - 1) : 7 \in s[i]
<1> DEFINE last == {i \in DOMAIN s : 7 \notin s[i]}
<1>1. Len(s) \in Nat /\ DOMAIN s = 1..Len(s)  OBVIOUS
<1>2. CASE last = {}  BY <1>1, <1>2 DEF VarintLen
<1>3. CASE last # {}
  <2>1. last \in SUBSET Nat  BY <1>1
  <2>2. PICK n \in last : \A j \in last : n <= j
    <3> HIDE DEF last
    <3> QED BY <1>3, <2>1, SmallestExists
  <2>3. VarintLen(s) \in last /\ \A j \in last : VarintLen(s) <= j  BY <1>3, <2>2 DEF VarintLen
  <2> QED BY <1>1, <2>3
<1> QED BY <1>2, <1>3

\* A varint has its own length at the head of any stream
LEMMA VarintLenOf ==
  ASSUME NEW e, NEW k, IsVarint(e, k), NEW s \in Seq(Byte)
  PROVE  VarintLen(e \o s) = k
<1>1. e \in Seq(Byte) /\ Len(e) = k /\ k \in Nat /\ k >= 1  BY DEF IsVarint
<1> DEFINE es == e \o s
<1>2. /\ es \in Seq(Byte) /\ Len(es) = k + Len(s) /\ \A i \in 1..k : es[i] = e[i]
      /\ Len(s) \in Nat
  BY <1>1, Concat
<1> HIDE DEF es
<1> DEFINE n == VarintLen(es)
<1>3. /\ n \in Nat /\ n <= Len(es)
      /\ n = 0 => \A i \in 1..Len(es) : 7 \in es[i]
      /\ n > 0 => 7 \notin es[n] /\ \A i \in 1..(n - 1) : 7 \in es[i]
  BY <1>2, VarintLenProperties
<1> HIDE DEF n
<1>4. 7 \notin es[k] /\ k <= Len(es) /\ Len(es) \in Nat  BY <1>1, <1>2 DEF IsVarint
<1>5. n > 0 /\ n <= k  BY <1>1, <1>3, <1>4
<1>6. n >= k
  <2> SUFFICES ASSUME n < k PROVE FALSE
    BY <1>1, <1>3
  <2>1. n \in 1..(k - 1) /\ n \in 1..k  BY <1>1, <1>3, <1>5
  <2>2. 7 \in e[n] /\ es[n] = e[n]  BY <1>2, <2>1 DEF IsVarint
  <2> QED BY <1>3, <1>5, <2>2
<1>7. n = k  BY <1>1, <1>3, <1>5, <1>6
<1> QED BY <1>7 DEF es, n

\* A varint cut before its end
LEMMA VarintLenCut ==
  ASSUME NEW s \in Seq(Byte), \A i \in 1..Len(s) : 7 \in s[i]
  PROVE  VarintLen(s) = 0
BY VarintLenProperties

(***************************************************************************)
(* Varints written                                                         *)
(***************************************************************************)

LEMMA VarintWritten ==
  ASSUME NEW v \in SUBSET (0..63)
  PROVE  LET e == pb_encode_varint(v)
             n == VarintGroups(v)
         IN  /\ IsVarint(e, n) /\ n \in 1..10
             /\ v \subseteq 0..31 => n <= 5
             /\ \A b \in v : (b \div 7) + 1 <= n
             /\ \A i \in 1..n : \A b \in 0..6 : b \in e[i] <=> b + 7 * (i - 1) \in v
<1> DEFINE n == VarintGroups(v)
           e == pb_encode_varint(v)
<1>1. n \in 1..10 /\ (v \subseteq 0..31 => n <= 5) /\ \A b \in v : (b \div 7) + 1 <= n
  <2>1. CASE v = {}  BY <2>1 DEF VarintGroups
  <2>2. CASE v # {}
    <3>1. Max(v) \in v /\ \A y \in v : Max(v) >= y  BY <2>2, MaxProperty
    <3>2. n = (Max(v) \div 7) + 1  BY <2>2 DEF VarintGroups
    <3>3. Max(v) \in 0..63  BY <3>1
    <3>4. n \in 1..10  BY <3>2, <3>3
    <3>5. ASSUME v \subseteq 0..31 PROVE n <= 5
      <4>1. Max(v) \in 0..31  BY <3>1, <3>5
      <4> QED BY <3>2, <4>1
    <3>6. ASSUME NEW b \in v PROVE (b \div 7) + 1 <= n  BY <3>1, <3>2, <3>3
    <3> HIDE DEF n
    <3> QED BY <3>4, <3>5, <3>6
  <2> QED BY <2>1, <2>2
<1> HIDE DEF n
<1>2. e = [i \in 1..n |-> Cast(Shr(v, 7 * (i - 1)), 7) \cup IF i < n THEN {7} ELSE {}]
  BY DEF pb_encode_varint, n
<1> HIDE DEF e
<1>3. e \in [1..n -> Byte]  BY <1>1, <1>2 DEF Cast, Byte
<1>4. e \in Seq(Byte) /\ Len(e) = n  BY <1>1, <1>3
<1>5. \A i \in 1..n : 7 \in e[i] <=> i < n  BY <1>1, <1>2 DEF Cast
<1>6. ASSUME NEW i \in 1..n, NEW b \in 0..6 PROVE b \in e[i] <=> b + 7 * (i - 1) \in v
  BY <1>1, <1>2 DEF Cast, Shr
<1>7. IsVarint(e, n)  BY <1>1, <1>4, <1>5 DEF IsVarint
<1> QED BY <1>1, <1>6, <1>7 DEF e, n

\* The groups of seven bits that the decoder puts together are the value
LEMMA GroupsWritten ==
  ASSUME NEW v \in SUBSET (0..63), NEW w \in {32, 64}, v \subseteq 0..(w - 1), NEW s \in Seq(Byte)
  PROVE  Groups(pb_encode_varint(v) \o s, VarintGroups(v), w) = v
<1> DEFINE e == pb_encode_varint(v)
           n == VarintGroups(v)
           es == e \o s
<1>1. /\ IsVarint(e, n) /\ n \in 1..10
      /\ \A b \in v : (b \div 7) + 1 <= n
      /\ \A i \in 1..n : \A b \in 0..6 : b \in e[i] <=> b + 7 * (i - 1) \in v
  BY VarintWritten
<1> HIDE DEF e, n
<1>2. e \in Seq(Byte) /\ \A i \in 1..n : e[i] \subseteq 0..7
  <2>1. e \in Seq(Byte) /\ Len(e) = n  BY <1>1 DEF IsVarint
  <2>2. \A i \in 1..n : e[i] \in Byte  BY <2>1, ElementOfSeq
  <2> QED BY <2>1, <2>2 DEF Byte
<1>3. \A i \in 1..n : es[i] = e[i]  BY <1>1, <1>2, Concat DEF IsVarint
<1> HIDE DEF es
<1> DEFINE F(i) == Shl(es[i] \ {7}, 7 * (i - 1), w)
<1>10. Groups(es, n, w) = UNION {F(i) : i \in 1..n}  BY DEF Groups
<1> HIDE DEF F
<1>4. ASSUME NEW b \in v PROVE b \in Groups(es, n, w)
  <2> DEFINE i == (b \div 7) + 1
  <2>1. i \in 1..n /\ b % 7 \in 0..6 /\ b = (b % 7) + 7 * (i - 1)
    <3>1. b \in 0..63 /\ i <= n  BY <1>1
    <3>2. i \in Int /\ i >= 1 /\ b % 7 \in 0..6 /\ b = (b % 7) + 7 * (i - 1)  BY <3>1
    <3> QED BY <1>1, <3>1, <3>2
  <2> HIDE DEF i
  <2>2. b % 7 \in e[i]
    <3>1. (b % 7) + 7 * (i - 1) \in v  BY <2>1
    <3> QED BY <1>1, <2>1, <3>1
  <2>3. b % 7 \in es[i] \ {7}  BY <1>3, <2>1, <2>2
  <2>4. b \in F(i)  BY <2>1, <2>3 DEF Shl, Cast, F
  <2> QED BY <2>1, <2>4, <1>10
<1>5. ASSUME NEW b \in Groups(es, n, w) PROVE b \in v
  <2>1. PICK i \in 1..n : b \in F(i)  BY <1>10
  <2>2. PICK a \in e[i] \ {7} : b = a + 7 * (i - 1)  BY <1>3, <2>1 DEF Shl, Cast, F
  <2>3. a \in 0..6  BY <1>2, <2>2
  <2> QED BY <1>1, <2>2, <2>3
<1> QED BY <1>4, <1>5 DEF e, es, n

\* pb_decode_varint reads what pb_encode_varint writes
LEMMA ReadVarint ==
  ASSUME NEW v \in SUBSET (0..63), NEW s \in Seq(Byte)
  PROVE  pb_decode_varint(pb_encode_varint(v) \o s) = Got(v, s)
<1> DEFINE e == pb_encode_varint(v)
           n == VarintGroups(v)
<1>1. IsVarint(e, n) /\ n \in 1..10  BY VarintWritten
<1>2. VarintLen(e \o s) = n  BY <1>1, VarintLenOf
<1>3. Groups(e \o s, n, 64) = v
  <2>1. v \subseteq 0..(64 - 1)  OBVIOUS
  <2> QED BY <2>1, GroupsWritten
<1>4. Drop(e \o s, n) = s  BY <1>1, DropOfConcat DEF IsVarint
<1> HIDE DEF e, n
<1>5. pb_decode_varint(e \o s) = Got(v, s)  BY <1>1, <1>2, <1>3, <1>4 DEF pb_decode_varint
<1> QED BY <1>5 DEF e

\* and so does pb_decode_varint32, of 32 bits
LEMMA ReadVarint32 ==
  ASSUME NEW v \in SUBSET (0..31), NEW s \in Seq(Byte)
  PROVE  pb_decode_varint32(pb_encode_varint(v) \o s) = Got(v, s)
<1> DEFINE e == pb_encode_varint(v)
           n == VarintGroups(v)
<1>0. v \in SUBSET (0..63) /\ v \subseteq 0..31 /\ v \subseteq 0..(32 - 1)  OBVIOUS
<1>1. /\ IsVarint(e, n) /\ n \in 1..5
      /\ \A i \in 1..n : \A b \in 0..6 : b \in e[i] <=> b + 7 * (i - 1) \in v
  <2>1. /\ IsVarint(e, n) /\ n \in 1..10 /\ n <= 5
        /\ \A i \in 1..n : \A b \in 0..6 : b \in e[i] <=> b + 7 * (i - 1) \in v
    BY <1>0, VarintWritten
  <2> HIDE DEF e, n
  <2> QED BY <2>1
<1>2. VarintLen(e \o s) = n  BY <1>1, VarintLenOf
<1>3. Groups(e \o s, n, 32) = v  BY <1>0, GroupsWritten
<1>4. Drop(e \o s, n) = s  BY <1>1, DropOfConcat DEF IsVarint
<1> HIDE DEF e, n
<1>5. ASSUME n = 5 PROVE (e \o s)[n] \cap {4, 5, 6} = {}
  <2>1. (e \o s)[n] = e[n]
    <3> DEFINE es == e \o s
    <3>1. \A i \in 1..n : es[i] = e[i]  BY <1>1, Concat DEF IsVarint
    <3> HIDE DEF es
    <3>2. es[n] = e[n]  BY <1>1, <3>1
    <3> QED BY <3>2 DEF es
  <2>2. ASSUME NEW b \in {4, 5, 6}, b \in e[n] PROVE FALSE
    <3>0. n \in 1..n /\ b \in 0..6  BY <1>1
    <3>1. b + 7 * (n - 1) \in v  BY <1>1, <2>2, <3>0
    <3> QED BY <1>5, <2>2, <3>1
  <2> QED BY <2>1, <2>2
<1>6. pb_decode_varint32(e \o s) = Got(v, s)
  <2>0. n \in 1..5  BY <1>1
  <2>1. \A i \in 6..n : FALSE  BY <2>0
  <2>2. (IF n < 5 THEN n ELSE 5) = n  BY <1>1
  <2>3. n > 0 /\ (n = 5 => (e \o s)[5] \cap {4, 5, 6} = {})
    <3>1. n > 0  BY <1>1
    <3>2. CASE n = 5  BY <1>5, <3>2, <3>1
    <3> QED BY <3>1, <3>2
  <2> QED BY <1>1, <1>2, <1>3, <1>4, <1>5, <2>1, <2>2, <2>3 DEF pb_decode_varint32
<1> QED BY <1>6 DEF e

\* A read of as many bytes as there are in the first part gives that part
LEMMA ReadBytes ==
  ASSUME NEW t \in Seq(Byte), NEW s \in Seq(Byte)
  PROVE  pb_read(t \o s, Len(t)) = Got(t, s)
<1>1. Len(t \o s) = Len(t) + Len(s) /\ Len(t) \in Nat /\ Len(s) \in Nat  BY Concat
<1>2. SubSeq(t \o s, 1, Len(t)) = t /\ Drop(t \o s, Len(t)) = s  BY TakeOfConcat, DropOfConcat
<1>3. ~(Len(t \o s) < Len(t))  BY <1>1
<1> QED BY <1>2, <1>3 DEF pb_read

\* The bits of a number are below the 28th
LEMMA BitsOfType == \A n : BitsOf(n) \in SUBSET (0..27)
BY DEF BitsOf

\* and are those of a value of 32 and of 64 bits
LEMMA BitsOfWider == \A n : BitsOf(n) \in SUBSET (0..31) /\ BitsOf(n) \in SUBSET (0..63)
<1> SUFFICES ASSUME NEW n PROVE BitsOf(n) \in SUBSET (0..31) /\ BitsOf(n) \in SUBSET (0..63)
  OBVIOUS
<1> DEFINE v == BitsOf(n)
<1>1. v \in SUBSET (0..27)  BY BitsOfType
<1> HIDE DEF v
<1>2. v \in SUBSET (0..31) /\ v \in SUBSET (0..63)  BY <1>1
<1> QED BY <1>2 DEF v

\* The fields of a reading
LEMMA GotFields ==
  ASSUME NEW v, NEW s
  PROVE  /\ Got(v, s).ok /\ Got(v, s).val = v /\ Got(v, s).rest = s
BY DEF Got

\* A value that fits is not changed by a cast
LEMMA CastSame ==
  ASSUME NEW w \in Nat, NEW v, v \subseteq 0..(w - 1) PROVE Cast(v, w) = v
BY DEF Cast

\* A function on 1..n is a sequence of length n
LEMMA FunctionIsSeq ==
  ASSUME NEW S, NEW n \in Nat, NEW e \in [1..n -> S] PROVE e \in Seq(S) /\ Len(e) = n
OBVIOUS

\* The eight wire types take the three low bits of a tag
LEMMA BitsOfTag ==
  ASSUME NEW n \in 0..255
  PROVE  Shr(BitsOf(n), 3) = BitsOf(n \div 8) /\ Cast(BitsOf(n), 3) = BitsOf(n % 8)
<1> DEFINE v == BitsOf(n)
<1>1. ASSUME NEW b \in 0..27
      PROVE  /\ b \in Shr(v, 3) <=> b \in BitsOf(n \div 8)
             /\ b \in Cast(v, 3) <=> b \in BitsOf(n % 8)
  <2>1. b \in Shr(v, 3) <=> b + 3 \in v  BY BitsOfType DEF Shr
  <2>2. b \in Cast(v, 3) <=> b \in v /\ b <= 2  BY BitsOfType DEF Cast
  <2>3. /\ b \in BitsOf(n \div 8) <=> ((n \div 8) \div 2^b) % 2 = 1
        /\ b \in BitsOf(n % 8) <=> ((n % 8) \div 2^b) % 2 = 1
        /\ b \in v <=> (n \div 2^b) % 2 = 1
        /\ b + 3 \in v <=> b <= 24 /\ (n \div 2^(b + 3)) % 2 = 1
    BY DEF BitsOf
  <2> HIDE DEF v
  <2>4. CASE b = 0  BY <2>1, <2>2, <2>3, <2>4
  <2>5. CASE b = 1  BY <2>1, <2>2, <2>3, <2>5
  <2>6. CASE b = 2  BY <2>1, <2>2, <2>3, <2>6
  <2>7. CASE b = 3  BY <2>1, <2>2, <2>3, <2>7
  <2>8. CASE b = 4  BY <2>1, <2>2, <2>3, <2>8
  <2>9. CASE b = 5  BY <2>1, <2>2, <2>3, <2>9
  <2>10. CASE b = 6  BY <2>1, <2>2, <2>3, <2>10
  <2>11. CASE b = 7  BY <2>1, <2>2, <2>3, <2>11
  <2>12. CASE b = 8  BY <2>1, <2>2, <2>3, <2>12
  <2>13. CASE b = 9  BY <2>1, <2>2, <2>3, <2>13
  <2>14. CASE b = 10  BY <2>1, <2>2, <2>3, <2>14
  <2>15. CASE b = 11  BY <2>1, <2>2, <2>3, <2>15
  <2>16. CASE b = 12  BY <2>1, <2>2, <2>3, <2>16
  <2>17. CASE b = 13  BY <2>1, <2>2, <2>3, <2>17
  <2>18. CASE b = 14  BY <2>1, <2>2, <2>3, <2>18
  <2>19. CASE b = 15  BY <2>1, <2>2, <2>3, <2>19
  <2>20. CASE b = 16  BY <2>1, <2>2, <2>3, <2>20
  <2>21. CASE b = 17  BY <2>1, <2>2, <2>3, <2>21
  <2>22. CASE b = 18  BY <2>1, <2>2, <2>3, <2>22
  <2>23. CASE b = 19  BY <2>1, <2>2, <2>3, <2>23
  <2>24. CASE b = 20  BY <2>1, <2>2, <2>3, <2>24
  <2>25. CASE b = 21  BY <2>1, <2>2, <2>3, <2>25
  <2>26. CASE b = 22  BY <2>1, <2>2, <2>3, <2>26
  <2>27. CASE b = 23  BY <2>1, <2>2, <2>3, <2>27
  <2>28. CASE b = 24  BY <2>1, <2>2, <2>3, <2>28
  <2>29. CASE b = 25  BY <2>1, <2>2, <2>3, <2>29
  <2>30. CASE b = 26  BY <2>1, <2>2, <2>3, <2>30
  <2>31. CASE b = 27  BY <2>1, <2>2, <2>3, <2>31
  <2> QED
    BY <2>4, <2>5, <2>6, <2>7, <2>8, <2>9, <2>10, <2>11, <2>12, <2>13, <2>14, <2>15, <2>16,
        <2>17, <2>18, <2>19, <2>20, <2>21, <2>22, <2>23, <2>24, <2>25, <2>26, <2>27, <2>28,
            <2>29, <2>30, <2>31
<1>2. Shr(v, 3) \subseteq 0..27 /\ Cast(v, 3) \subseteq 0..27  BY BitsOfType DEF Shr, Cast
<1> QED BY <1>1, <1>2, BitsOfType

\* pb_decode_tag reads what pb_encode_tag writes
LEMMA ReadTag ==
  ASSUME NEW wire \in 0..7, NEW tag \in 0..31, NEW s \in Seq(Byte)
  PROVE  /\ pb_decode_tag(pb_encode_tag(wire, tag) \o s)
              = [ok |-> TRUE, val |-> tag, wire |-> wire, rest |-> s]
         /\ pb_encode_tag(wire, tag) \in Seq(Byte)
<1> DEFINE n == 8 * tag + wire
           v == BitsOf(n)
<1>1. v \in SUBSET (0..31) /\ v \in SUBSET (0..63)  BY BitsOfWider
<1>2. n \in 0..255 /\ n \div 8 = tag /\ n % 8 = wire  OBVIOUS
<1> HIDE DEF n
<1>3. Shr(v, 3) = BitsOf(tag) /\ Cast(v, 3) = BitsOf(wire)  BY <1>2, BitsOfTag
<1>4. Number(Shr(v, 3)) = tag /\ Number(Cast(v, 3)) = wire
  <2>1. tag \in 0..(2^28 - 1) /\ wire \in 0..(2^28 - 1)  OBVIOUS
  <2> QED BY <1>3, <2>1, NumberOfBits
<1>5. pb_decode_varint32(pb_encode_varint(v) \o s) = Got(v, s)  BY <1>1, ReadVarint32
<1>6. pb_encode_tag(wire, tag) = pb_encode_varint(v)  BY DEF pb_encode_tag, n
<1>7. pb_encode_varint(v) \in Seq(Byte)  BY <1>1, VarintWritten DEF IsVarint
<1> HIDE DEF v
<1> DEFINE x == pb_encode_tag(wire, tag) \o s
<1>8. pb_decode_varint32(x) = Got(v, s)  BY <1>5, <1>6
<1> HIDE DEF x
<1>9. pb_decode_tag(x) = [ok |-> TRUE, val |-> tag, wire |-> wire, rest |-> s]
  <2>1. Got(v, s).ok = TRUE /\ Got(v, s).val = v /\ Got(v, s).rest = s  BY DEF Got
  <2> QED BY <1>4, <1>8, <2>1 DEF pb_decode_tag
<1> QED BY <1>6, <1>7, <1>9 DEF x

\* pb_decode_bool reads a bool
LEMMA ReadBool ==
  ASSUME NEW v \in SUBSET {0}, NEW s \in Seq(Byte)
  PROVE  pb_decode_bool(pb_encode_varint(v) \o s) = Got(v, s)
<1>1. v \in SUBSET (0..31)  OBVIOUS
<1> DEFINE x == pb_encode_varint(v) \o s
<1>2. pb_decode_varint32(x) = Got(v, s)  BY <1>1, ReadVarint32
<1> HIDE DEF x
<1>3. (IF Got(v, s).val = {} THEN {} ELSE {0}) = v
  <2>1. v = {} \/ v = {0}  OBVIOUS
  <2> QED BY <2>1, GotFields
<1>4. pb_decode_bool(x) = Got(IF Got(v, s).val = {} THEN {} ELSE {0}, s)
  BY <1>2, GotFields DEF pb_decode_bool
<1> QED BY <1>3, <1>4, GotFields DEF x

\* pb_dec_uvarint reads a value of the width of its field
LEMMA ReadUvarint ==
  ASSUME NEW w \in {8, 16, 32}, NEW v \in SUBSET (0..(w - 1)), NEW s \in Seq(Byte)
  PROVE  pb_dec_uvarint(pb_encode_varint(v) \o s, w) = Got(v, s)
<1>1. v \in SUBSET (0..63) /\ Cast(v, w) = v
  <2>1. w \in Nat /\ w <= 32 /\ v \subseteq 0..(w - 1)  OBVIOUS
  <2>2. v \in SUBSET (0..63)  BY <2>1
  <2> QED BY <2>1, <2>2, CastSame
<1>2. pb_decode_varint(pb_encode_varint(v) \o s) = Got(v, s)  BY <1>1, ReadVarint
<1> QED BY <1>1, <1>2, GotFields DEF pb_dec_uvarint

\* pb_dec_varint reads a signed value, which has been extended to 64 bits
LEMMA ReadSigned ==
  ASSUME NEW v \in SUBSET (0..31), NEW s \in Seq(Byte)
  PROVE  pb_dec_varint(pb_enc_varint(v) \o s) = Got(v, s)
<1> DEFINE x == IF 31 \in v THEN v \cup (32..63) ELSE v
<1>1. x \in SUBSET (0..63)  OBVIOUS
<1>4. Cast(x, 32) = v
  <2>1. ASSUME NEW b \in x, b \in 0..31 PROVE b \in v  BY <2>1
  <2>2. v \subseteq x /\ v \subseteq 0..31  OBVIOUS
  <2>3. Cast(x, 32) = x \cap (0..31)  BY DEF Cast
  <2> HIDE DEF x
  <2> QED BY <2>1, <2>2, <2>3
<1> HIDE DEF x
<1>2. pb_decode_varint(pb_encode_varint(x) \o s) = Got(x, s)  BY <1>1, ReadVarint
<1>3. pb_enc_varint(v) = pb_encode_varint(x)  BY DEF x, pb_enc_varint
<1> DEFINE y == pb_enc_varint(v) \o s
<1>5. pb_decode_varint(y) = Got(x, s)  BY <1>2, <1>3
<1> HIDE DEF y
<1>6. pb_dec_varint(y) = Got(Cast(x, 32), s)  BY <1>5, GotFields DEF pb_dec_varint
<1> QED BY <1>4, <1>6, GotFields DEF y

\* Four bytes, each with eight bits of the value
LEMMA FixedWritten ==
  ASSUME NEW v \in SUBSET (0..31)
  PROVE  /\ pb_encode_fixed32(v) \in Seq(Byte) /\ Len(pb_encode_fixed32(v)) = 4
         /\ \A i \in 1..4 : \A b \in 0..7 :
              b \in pb_encode_fixed32(v)[i] <=> b + 8 * (i - 1) \in v
<1> DEFINE e == pb_encode_fixed32(v)
<1>1. e = [i \in 1..4 |-> Cast(Shr(v, 8 * (i - 1)), 8)]  BY DEF pb_encode_fixed32
<1> HIDE DEF e
<1>2. e \in [1..4 -> Byte]  BY <1>1 DEF Cast, Byte
<1>3. ASSUME NEW i \in 1..4, NEW b \in 0..7 PROVE b \in e[i] <=> b + 8 * (i - 1) \in v
  BY <1>1 DEF Cast, Shr
<1>4. e \in Seq(Byte) /\ Len(e) = 4
  <2> DEFINE n == 4
  <2>1. n \in Nat /\ e \in [1..n -> Byte]  BY <1>2
  <2> HIDE DEF n
  <2>2. e \in Seq(Byte) /\ Len(e) = n  BY <2>1, FunctionIsSeq
  <2> QED BY <2>2 DEF n
<1> QED BY <1>3, <1>4 DEF e

\* pb_decode_fixed32 reads what pb_encode_fixed32 writes
LEMMA ReadFixed ==
  ASSUME NEW v \in SUBSET (0..31), NEW s \in Seq(Byte)
  PROVE  pb_decode_fixed32(pb_encode_fixed32(v) \o s) = Got(v, s)
<1> DEFINE e == pb_encode_fixed32(v)
<1>1. /\ e \in Seq(Byte) /\ Len(e) = 4
      /\ \A i \in 1..4 : \A b \in 0..7 : b \in e[i] <=> b + 8 * (i - 1) \in v
  BY FixedWritten
<1> HIDE DEF e
<1>2. pb_read(e \o s, 4) = Got(e, s)  BY <1>1, ReadBytes
<1> DEFINE F(i) == Shl(e[i], 8 * (i - 1), 32)
           all == UNION {F(i) : i \in 1..4}
<1>3. \A i \in 1..4 : e[i] \subseteq 0..7
  <2>1. \A i \in 1..4 : e[i] \in Byte  BY <1>1, ElementOfSeq
  <2> QED BY <2>1 DEF Byte
<1>4. ASSUME NEW b \in v PROVE b \in all
  <2> DEFINE i == (b \div 8) + 1
  <2>1. i \in 1..4 /\ b % 8 \in 0..7 /\ b = (b % 8) + 8 * (i - 1)  OBVIOUS
  <2> HIDE DEF i
  <2>2. b % 8 \in e[i]  BY <2>1, <1>1
  <2>3. b \in F(i)  BY <2>1, <2>2 DEF Shl, Cast
  <2> HIDE DEF F
  <2> QED BY <2>1, <2>3
<1>5. ASSUME NEW b \in all PROVE b \in v
  <2>1. PICK i \in 1..4 : b \in F(i)
    <3> HIDE DEF F
    <3> QED OBVIOUS
  <2>2. PICK a \in e[i] : b = a + 8 * (i - 1)  BY <2>1 DEF Shl, Cast
  <2>3. a \in 0..7  BY <1>3, <2>2
  <2> QED BY <1>1, <2>2, <2>3
<1>6. all = v  BY <1>4, <1>5
<1> DEFINE x == e \o s
<1>7. pb_read(x, 4) = Got(e, s)  BY <1>2
<1> HIDE DEF x
<1>8. pb_decode_fixed32(x) = Got(all, s)
  <2>1. Got(e, s).ok /\ Got(e, s).val = e /\ Got(e, s).rest = s  BY GotFields
  <2> DEFINE raw == Got(e, s)
  <2>2. pb_decode_fixed32(x) = IF raw.ok
          THEN Got(UNION {Shl(raw.val[i], 8 * (i - 1), 32) : i \in 1..4}, raw.rest)
          ELSE Failed(x)
    BY <1>7 DEF pb_decode_fixed32
  <2> QED BY <2>1, <2>2, Zenon
<1> QED BY <1>6, <1>8 DEF e, x

\* The message types
LEMMA MessageTypes ==
  DOMAIN Message = {"rttof_params_pb_t", "ranging_result_pb_t", "rac_radio_lora_params_pb_t",
      "smtc_rac_data_buffer_setup_pb_t", "smtc_rac_data_result_pb_t",
          "rac_scheduler_config_pb_t", "smtc_rac_lbt_context_pb_t", "smtc_rac_cw_context_pb_t",
              "smtc_rac_cad_context_pb_t", "smtc_rac_context_pb_t",
                  "smtc_rac_lora_request_pb_t", "rac_get_results_request_pb_t",
                      "rac_results_pb_t"}
BY DEF Message

\* The fields of each of them
LEMMA rttof_params_pb_t_fields == IsFieldList(rttof_params_pb_t, 1)
<1> DEFINE fields == rttof_params_pb_t
<1>1. Len(fields) = 4 /\ DOMAIN fields = 1..4  BY DEF rttof_params_pb_t
<1>2. ASSUME NEW k \in 1..4
      PROVE  /\ fields[k] = <<fields[k][1], fields[k][2]>>
             /\ fields[k][2] \in Basic \cup DOMAIN Message /\ Depth(fields[k][2]) < 1
  BY MessageTypes DEF rttof_params_pb_t, Basic, Depth
<1>3. ASSUME NEW j \in 1..4, NEW k \in 1..4, fields[j][1] = fields[k][1] PROVE j = k
  BY <1>3 DEF rttof_params_pb_t
<1> HIDE DEF fields
<1>4. IsFieldList(fields, 1)  BY <1>1, <1>2, <1>3 DEF IsFieldList
<1> QED BY <1>4 DEF fields

\* The fields of ranging_result_pb_t
LEMMA ranging_result_pb_t_fields == IsFieldList(ranging_result_pb_t, 1)
<1> DEFINE fields == ranging_result_pb_t
<1>1. Len(fields) = 4 /\ DOMAIN fields = 1..4  BY DEF ranging_result_pb_t
<1>2. ASSUME NEW k \in 1..4
      PROVE  /\ fields[k] = <<fields[k][1], fields[k][2]>>
             /\ fields[k][2] \in Basic \cup DOMAIN Message /\ Depth(fields[k][2]) < 1
  BY MessageTypes DEF ranging_result_pb_t, Basic, Depth
<1>3. ASSUME NEW j \in 1..4, NEW k \in 1..4, fields[j][1] = fields[k][1] PROVE j = k
  BY <1>3 DEF ranging_result_pb_t
<1> HIDE DEF fields
<1>4. IsFieldList(fields, 1)  BY <1>1, <1>2, <1>3 DEF IsFieldList
<1> QED BY <1>4 DEF fields

\* The fields of rac_radio_lora_params_pb_t
LEMMA rac_radio_lora_params_pb_t_fields == IsFieldList(rac_radio_lora_params_pb_t, 2)
<1> DEFINE fields == rac_radio_lora_params_pb_t
<1>1. Len(fields) = 17 /\ DOMAIN fields = 1..17  BY DEF rac_radio_lora_params_pb_t
<1>2. ASSUME NEW k \in 1..17
      PROVE  /\ fields[k] = <<fields[k][1], fields[k][2]>>
             /\ fields[k][2] \in Basic \cup DOMAIN Message /\ Depth(fields[k][2]) < 2
  BY MessageTypes DEF rac_radio_lora_params_pb_t, Basic, Depth
<1>3. ASSUME NEW j \in 1..17, NEW k \in 1..17, fields[j][1] = fields[k][1] PROVE j = k
  BY <1>3 DEF rac_radio_lora_params_pb_t
<1> HIDE DEF fields
<1>4. IsFieldList(fields, 2)  BY <1>1, <1>2, <1>3, SMTT(30) DEF IsFieldList
<1> QED BY <1>4 DEF fields

\* The fields of smtc_rac_data_buffer_setup_pb_t
LEMMA smtc_rac_data_buffer_setup_pb_t_fields == IsFieldList(smtc_rac_data_buffer_setup_pb_t, 1)
<1> DEFINE fields == smtc_rac_data_buffer_setup_pb_t
<1>1. Len(fields) = 1 /\ DOMAIN fields = 1..1  BY DEF smtc_rac_data_buffer_setup_pb_t
<1>2. ASSUME NEW k \in 1..1
      PROVE  /\ fields[k] = <<fields[k][1], fields[k][2]>>
             /\ fields[k][2] \in Basic \cup DOMAIN Message /\ Depth(fields[k][2]) < 1
  BY MessageTypes DEF smtc_rac_data_buffer_setup_pb_t, Basic, Depth
<1>3. ASSUME NEW j \in 1..1, NEW k \in 1..1, fields[j][1] = fields[k][1] PROVE j = k
  BY <1>3 DEF smtc_rac_data_buffer_setup_pb_t
<1> HIDE DEF fields
<1>4. IsFieldList(fields, 1)  BY <1>1, <1>2, <1>3 DEF IsFieldList
<1> QED BY <1>4 DEF fields

\* The fields of smtc_rac_data_result_pb_t
LEMMA smtc_rac_data_result_pb_t_fields == IsFieldList(smtc_rac_data_result_pb_t, 2)
<1> DEFINE fields == smtc_rac_data_result_pb_t
<1>1. Len(fields) = 7 /\ DOMAIN fields = 1..7  BY DEF smtc_rac_data_result_pb_t
<1>2. ASSUME NEW k \in 1..7
      PROVE  /\ fields[k] = <<fields[k][1], fields[k][2]>>
             /\ fields[k][2] \in Basic \cup DOMAIN Message /\ Depth(fields[k][2]) < 2
  BY MessageTypes DEF smtc_rac_data_result_pb_t, Basic, Depth
<1>3. ASSUME NEW j \in 1..7, NEW k \in 1..7, fields[j][1] = fields[k][1] PROVE j = k
  BY <1>3 DEF smtc_rac_data_result_pb_t
<1> HIDE DEF fields
<1>4. IsFieldList(fields, 2)  BY <1>1, <1>2, <1>3 DEF IsFieldList
<1> QED BY <1>4 DEF fields

\* The fields of rac_scheduler_config_pb_t
LEMMA rac_scheduler_config_pb_t_fields == IsFieldList(rac_scheduler_config_pb_t, 1)
<1> DEFINE fields == rac_scheduler_config_pb_t
<1>1. Len(fields) = 3 /\ DOMAIN fields = 1..3  BY DEF rac_scheduler_config_pb_t
<1>2. ASSUME NEW k \in 1..3
      PROVE  /\ fields[k] = <<fields[k][1], fields[k][2]>>
             /\ fields[k][2] \in Basic \cup DOMAIN Message /\ Depth(fields[k][2]) < 1
  BY MessageTypes DEF rac_scheduler_config_pb_t, Basic, Depth
<1>3. ASSUME NEW j \in 1..3, NEW k \in 1..3, fields[j][1] = fields[k][1] PROVE j = k
  BY <1>3 DEF rac_scheduler_config_pb_t
<1> HIDE DEF fields
<1>4. IsFieldList(fields, 1)  BY <1>1, <1>2, <1>3 DEF IsFieldList
<1> QED BY <1>4 DEF fields

\* The fields of smtc_rac_lbt_context_pb_t
LEMMA smtc_rac_lbt_context_pb_t_fields == IsFieldList(smtc_rac_lbt_context_pb_t, 1)
<1> DEFINE fields == smtc_rac_lbt_context_pb_t
<1>1. Len(fields) = 6 /\ DOMAIN fields = 1..6  BY DEF smtc_rac_lbt_context_pb_t
<1>2. ASSUME NEW k \in 1..6
      PROVE  /\ fields[k] = <<fields[k][1], fields[k][2]>>
             /\ fields[k][2] \in Basic \cup DOMAIN Message /\ Depth(fields[k][2]) < 1
  BY MessageTypes DEF smtc_rac_lbt_context_pb_t, Basic, Depth
<1>3. ASSUME NEW j \in 1..6, NEW k \in 1..6, fields[j][1] = fields[k][1] PROVE j = k
  BY <1>3 DEF smtc_rac_lbt_context_pb_t
<1> HIDE DEF fields
<1>4. IsFieldList(fields, 1)  BY <1>1, <1>2, <1>3 DEF IsFieldList
<1> QED BY <1>4 DEF fields

\* The fields of smtc_rac_cw_context_pb_t
LEMMA smtc_rac_cw_context_pb_t_fields == IsFieldList(smtc_rac_cw_context_pb_t, 1)
<1> DEFINE fields == smtc_rac_cw_context_pb_t
<1>1. Len(fields) = 2 /\ DOMAIN fields = 1..2  BY DEF smtc_rac_cw_context_pb_t
<1>2. ASSUME NEW k \in 1..2
      PROVE  /\ fields[k] = <<fields[k][1], fields[k][2]>>
             /\ fields[k][2] \in Basic \cup DOMAIN Message /\ Depth(fields[k][2]) < 1
  BY MessageTypes DEF smtc_rac_cw_context_pb_t, Basic, Depth
<1>3. ASSUME NEW j \in 1..2, NEW k \in 1..2, fields[j][1] = fields[k][1] PROVE j = k
  BY <1>3 DEF smtc_rac_cw_context_pb_t
<1> HIDE DEF fields
<1>4. IsFieldList(fields, 1)  BY <1>1, <1>2, <1>3 DEF IsFieldList
<1> QED BY <1>4 DEF fields

\* The fields of smtc_rac_cad_context_pb_t
LEMMA smtc_rac_cad_context_pb_t_fields == IsFieldList(smtc_rac_cad_context_pb_t, 1)
<1> DEFINE fields == smtc_rac_cad_context_pb_t
<1>1. Len(fields) = 8 /\ DOMAIN fields = 1..8  BY DEF smtc_rac_cad_context_pb_t
<1>2. ASSUME NEW k \in 1..8
      PROVE  /\ fields[k] = <<fields[k][1], fields[k][2]>>
             /\ fields[k][2] \in Basic \cup DOMAIN Message /\ Depth(fields[k][2]) < 1
  BY MessageTypes DEF smtc_rac_cad_context_pb_t, Basic, Depth
<1>3. ASSUME NEW j \in 1..8, NEW k \in 1..8, fields[j][1] = fields[k][1] PROVE j = k
  BY <1>3 DEF smtc_rac_cad_context_pb_t
<1> HIDE DEF fields
<1>4. IsFieldList(fields, 1)  BY <1>1, <1>2, <1>3 DEF IsFieldList
<1> QED BY <1>4 DEF fields

\* The fields of smtc_rac_context_pb_t
LEMMA smtc_rac_context_pb_t_fields == IsFieldList(smtc_rac_context_pb_t, 3)
<1> DEFINE fields == smtc_rac_context_pb_t
<1>1. Len(fields) = 8 /\ DOMAIN fields = 1..8  BY DEF smtc_rac_context_pb_t
<1>2. ASSUME NEW k \in 1..8
      PROVE  /\ fields[k] = <<fields[k][1], fields[k][2]>>
             /\ fields[k][2] \in Basic \cup DOMAIN Message /\ Depth(fields[k][2]) < 3
  BY MessageTypes DEF smtc_rac_context_pb_t, Basic, Depth
<1>3. ASSUME NEW j \in 1..8, NEW k \in 1..8, fields[j][1] = fields[k][1] PROVE j = k
  BY <1>3 DEF smtc_rac_context_pb_t
<1> HIDE DEF fields
<1>4. IsFieldList(fields, 3)  BY <1>1, <1>2, <1>3 DEF IsFieldList
<1> QED BY <1>4 DEF fields

\* The fields of smtc_rac_lora_request_pb_t
LEMMA smtc_rac_lora_request_pb_t_fields == IsFieldList(smtc_rac_lora_request_pb_t, 4)
<1> DEFINE fields == smtc_rac_lora_request_pb_t
<1>1. Len(fields) = 2 /\ DOMAIN fields = 1..2  BY DEF smtc_rac_lora_request_pb_t
<1>2. ASSUME NEW k \in 1..2
      PROVE  /\ fields[k] = <<fields[k][1], fields[k][2]>>
             /\ fields[k][2] \in Basic \cup DOMAIN Message /\ Depth(fields[k][2]) < 4
  BY MessageTypes DEF smtc_rac_lora_request_pb_t, Basic, Depth
<1>3. ASSUME NEW j \in 1..2, NEW k \in 1..2, fields[j][1] = fields[k][1] PROVE j = k
  BY <1>3 DEF smtc_rac_lora_request_pb_t
<1> HIDE DEF fields
<1>4. IsFieldList(fields, 4)  BY <1>1, <1>2, <1>3 DEF IsFieldList
<1> QED BY <1>4 DEF fields

\* The fields of rac_get_results_request_pb_t
LEMMA rac_get_results_request_pb_t_fields == IsFieldList(rac_get_results_request_pb_t, 1)
<1> DEFINE fields == rac_get_results_request_pb_t
<1>1. Len(fields) = 1 /\ DOMAIN fields = 1..1  BY DEF rac_get_results_request_pb_t
<1>2. ASSUME NEW k \in 1..1
      PROVE  /\ fields[k] = <<fields[k][1], fields[k][2]>>
             /\ fields[k][2] \in Basic \cup DOMAIN Message /\ Depth(fields[k][2]) < 1
  BY MessageTypes DEF rac_get_results_request_pb_t, Basic, Depth
<1>3. ASSUME NEW j \in 1..1, NEW k \in 1..1, fields[j][1] = fields[k][1] PROVE j = k
  BY <1>3 DEF rac_get_results_request_pb_t
<1> HIDE DEF fields
<1>4. IsFieldList(fields, 1)  BY <1>1, <1>2, <1>3 DEF IsFieldList
<1> QED BY <1>4 DEF fields

\* The fields of rac_results_pb_t
LEMMA rac_results_pb_t_fields == IsFieldList(rac_results_pb_t, 3)
<1> DEFINE fields == rac_results_pb_t
<1>1. Len(fields) = 5 /\ DOMAIN fields = 1..5  BY DEF rac_results_pb_t
<1>2. ASSUME NEW k \in 1..5
      PROVE  /\ fields[k] = <<fields[k][1], fields[k][2]>>
             /\ fields[k][2] \in Basic \cup DOMAIN Message /\ Depth(fields[k][2]) < 3
  BY MessageTypes DEF rac_results_pb_t, Basic, Depth
<1>3. ASSUME NEW j \in 1..5, NEW k \in 1..5, fields[j][1] = fields[k][1] PROVE j = k
  BY <1>3 DEF rac_results_pb_t
<1> HIDE DEF fields
<1>4. IsFieldList(fields, 3)  BY <1>1, <1>2, <1>3 DEF IsFieldList
<1> QED BY <1>4 DEF fields

\* Each message type has such a list
LEMMA MessageFields ==
  ASSUME NEW t \in DOMAIN Message
  PROVE  IsFieldList(Message[t], Depth(t)) /\ Depth(t) \in 1..4
<1>1. CASE t = "rttof_params_pb_t"  BY <1>1, rttof_params_pb_t_fields DEF Message, Depth
<1>2. CASE t = "ranging_result_pb_t"  BY <1>2, ranging_result_pb_t_fields DEF Message, Depth
<1>3. CASE t = "rac_radio_lora_params_pb_t"
  BY <1>3, rac_radio_lora_params_pb_t_fields DEF Message, Depth
<1>4. CASE t = "smtc_rac_data_buffer_setup_pb_t"
  BY <1>4, smtc_rac_data_buffer_setup_pb_t_fields DEF Message, Depth
<1>5. CASE t = "smtc_rac_data_result_pb_t"
  BY <1>5, smtc_rac_data_result_pb_t_fields DEF Message, Depth
<1>6. CASE t = "rac_scheduler_config_pb_t"
  BY <1>6, rac_scheduler_config_pb_t_fields DEF Message, Depth
<1>7. CASE t = "smtc_rac_lbt_context_pb_t"
  BY <1>7, smtc_rac_lbt_context_pb_t_fields DEF Message, Depth
<1>8. CASE t = "smtc_rac_cw_context_pb_t"
  BY <1>8, smtc_rac_cw_context_pb_t_fields DEF Message, Depth
<1>9. CASE t = "smtc_rac_cad_context_pb_t"
  BY <1>9, smtc_rac_cad_context_pb_t_fields DEF Message, Depth
<1>10. CASE t = "smtc_rac_context_pb_t"
  BY <1>10, smtc_rac_context_pb_t_fields DEF Message, Depth
<1>11. CASE t = "smtc_rac_lora_request_pb_t"
  BY <1>11, smtc_rac_lora_request_pb_t_fields DEF Message, Depth
<1>12. CASE t = "rac_get_results_request_pb_t"
  BY <1>12, rac_get_results_request_pb_t_fields DEF Message, Depth
<1>13. CASE t = "rac_results_pb_t"  BY <1>13, rac_results_pb_t_fields DEF Message, Depth
<1> QED
  BY MessageTypes, <1>1, <1>2, <1>3, <1>4, <1>5, <1>6, <1>7, <1>8, <1>9, <1>10, <1>11, <1>12,
      <1>13

\* What the proofs use of a message type
LEMMA FieldOf ==
  ASSUME NEW t \in DOMAIN Message, NEW k \in 1..Len(Message[t])
  PROVE  /\ Len(Message[t]) \in Nat /\ Len(Message[t]) <= 17
              /\ DOMAIN Message[t] = 1..Len(Message[t])
         /\ Message[t][k][1] \in Names /\ Message[t][k][2] \in Types
         /\ Depth(Message[t][k][2]) < Depth(t) /\ Depth(t) \in 1..4
         /\ Message[t][k] = <<Message[t][k][1], Message[t][k][2]>>
         /\ \A j \in 1..Len(Message[t]) : Message[t][j][1] = Message[t][k][1] => j = k
<1>1. IsFieldList(Message[t], Depth(t)) /\ Depth(t) \in 1..4  BY MessageFields
<1>2. Message[t][k][1] \in Names  BY DEF Names
<1> HIDE DEF Names
<1> QED BY <1>1, <1>2 DEF IsFieldList, Types

\* A message type has up to 17 fields and is nested up to four deep
LEMMA LengthOf ==
  ASSUME NEW t \in DOMAIN Message
  PROVE  /\ Len(Message[t]) \in Nat /\ Len(Message[t]) <= 17
         /\ DOMAIN Message[t] = 1..Len(Message[t])
         /\ Depth(t) \in 1..4
BY MessageFields DEF IsFieldList

\* A field that is no message has no depth
LEMMA BasicDepth ==
  \A t : (t \in Basic => Depth(t) = 0 /\ ~IsMessage(t))
<1> SUFFICES ASSUME NEW t \in Basic PROVE Depth(t) = 0 /\ ~IsMessage(t)
  OBVIOUS
<1>1. Depth(t) = 0  BY DEF Basic, Depth
<1>2. t \notin DOMAIN Message  BY <1>1, LengthOf
<1> QED BY <1>1, <1>2 DEF IsMessage

\* The fields one level down
LEMMA InFieldsIn ==
  ASSUME NEW fs, NEW x
  PROVE  x \in FieldsIn(fs) <=>
           \E f \in fs : IsMessage(f[2]) /\ \E k \in 1..Len(Message[f[2]]) : x = FieldTo(f, k)
<1>1. ASSUME NEW f \in fs, IsMessage(f[2])
      PROVE  {<<Append(f[1], g[1]), g[2]>> : g \in ToSet(Message[f[2]])}
               = {FieldTo(f, k) : k \in 1..Len(Message[f[2]])}
  BY <1>1, LengthOf DEF IsMessage, ToSet, FieldTo
<1> DEFINE G(f) == {<<Append(f[1], g[1]), g[2]>> : g \in ToSet(Message[f[2]])}
<1>2. FieldsIn(fs) = UNION {G(f) : f \in {y \in fs : IsMessage(y[2])}}  BY DEF FieldsIn
<1>3. \A f \in fs : IsMessage(f[2])
    => (x \in G(f) <=> \E k \in 1..Len(Message[f[2]]) : x = FieldTo(f, k))
  BY <1>1
<1> HIDE DEF G
<1> QED BY <1>2, <1>3

\* A field of a message d levels down is d + 1 levels down
LEMMA FieldToProperties ==
  ASSUME NEW f, NEW d \in Nat, f[1] \in Paths, Len(f[1]) = d, f[2] \in Types,
         IsMessage(f[2]), Depth(f[2]) <= 4 - d, NEW k \in 1..Len(Message[f[2]])
  PROVE  /\ FieldTo(f, k) = <<FieldTo(f, k)[1], FieldTo(f, k)[2]>>
         /\ FieldTo(f, k)[1] \in Paths /\ Len(FieldTo(f, k)[1]) = d + 1
         /\ FieldTo(f, k)[2] \in Types /\ Depth(FieldTo(f, k)[2]) <= 4 - (d + 1)
<1>1. f[2] \in DOMAIN Message  BY DEF IsMessage
<1>2. /\ Message[f[2]][k][1] \in Names /\ Message[f[2]][k][2] \in Types
      /\ Depth(Message[f[2]][k][2]) < Depth(f[2]) /\ Depth(f[2]) \in 1..4
  BY <1>1, FieldOf
<1>3. FieldTo(f, k)[1] = Append(f[1], Message[f[2]][k][1])
      /\ FieldTo(f, k)[2] = Message[f[2]][k][2]
      /\ FieldTo(f, k) = <<FieldTo(f, k)[1], FieldTo(f, k)[2]>>
  BY DEF FieldTo
<1>4. Append(f[1], Message[f[2]][k][1]) \in Paths
      /\ Len(Append(f[1], Message[f[2]][k][1])) = d + 1
  BY <1>2, AppendProperties DEF Paths
<1>5. Depth(Message[f[2]][k][2]) \in Nat  BY DEF Depth
<1> QED BY <1>2, <1>3, <1>4, <1>5

\* Two paths with a last name are the same when both parts are
LEMMA AppendSame ==
  ASSUME NEW S, NEW p \in Seq(S), NEW q \in Seq(S), NEW x \in S, NEW y \in S,
         Append(p, x) = Append(q, y)
  PROVE  p = q /\ x = y
BY AppendInjective

\* The level below one is a level
LEMMA NextLevel ==
  ASSUME NEW fs, NEW d \in Nat, IsLevel(fs, d)
  PROVE  IsLevel(FieldsIn(fs), d + 1)
<1>1. ASSUME NEW x \in FieldsIn(fs)
      PROVE  /\ x = <<x[1], x[2]>> /\ x[1] \in Paths /\ Len(x[1]) = d + 1
             /\ x[2] \in Types /\ Depth(x[2]) <= 4 - (d + 1)
  <2>1. PICK f \in fs : IsMessage(f[2]) /\ \E k \in 1..Len(Message[f[2]]) : x = FieldTo(f, k)
    BY InFieldsIn
  <2>2. PICK k \in 1..Len(Message[f[2]]) : x = FieldTo(f, k)  BY <2>1
  <2> QED BY <2>1, <2>2, FieldToProperties DEF IsLevel
<1>2. ASSUME NEW x \in FieldsIn(fs), NEW y \in FieldsIn(fs), x[1] = y[1] PROVE x = y
  <2>1. PICK f \in fs : IsMessage(f[2]) /\ \E k \in 1..Len(Message[f[2]]) : x = FieldTo(f, k)
    BY InFieldsIn
  <2>2. PICK k \in 1..Len(Message[f[2]]) : x = FieldTo(f, k)  BY <2>1
  <2>3. PICK g \in fs : IsMessage(g[2]) /\ \E j \in 1..Len(Message[g[2]]) : y = FieldTo(g, j)
    BY InFieldsIn
  <2>4. PICK j \in 1..Len(Message[g[2]]) : y = FieldTo(g, j)  BY <2>3
  <2>5. f[2] \in DOMAIN Message /\ g[2] \in DOMAIN Message  BY <2>1, <2>3 DEF IsMessage
  <2>6. Message[f[2]][k][1] \in Names /\ Message[g[2]][j][1] \in Names  BY <2>5, FieldOf
  <2>7. f[1] \in Paths /\ g[1] \in Paths  BY DEF IsLevel
  <2>8. Append(f[1], Message[f[2]][k][1]) = Append(g[1], Message[g[2]][j][1])
    BY <1>2, <2>2, <2>4 DEF FieldTo
  <2>9. f[1] = g[1] /\ Message[f[2]][k][1] = Message[g[2]][j][1]
    <3> DEFINE p == f[1]
               q == g[1]
               u == Message[f[2]][k][1]
               v == Message[g[2]][j][1]
    <3>1. p \in Seq(Names) /\ q \in Seq(Names) /\ u \in Names /\ v \in Names
      BY <2>6, <2>7 DEF Paths
    <3>2. Append(p, u) = Append(q, v)  BY <2>8
    <3> HIDE DEF p, q, u, v, Names
    <3>3. p = q /\ u = v  BY <3>1, <3>2, AppendSame
    <3> QED BY <3>3 DEF p, q, u, v
  <2>10. f = g  BY <2>9 DEF IsLevel
  <2>11. j = k  BY <2>5, <2>9, <2>10, FieldOf
  <2> QED BY <2>2, <2>4, <2>10, <2>11
<1> QED BY <1>1, <1>2 DEF IsLevel

\* A message that is sent on its own
LEMMA Outermost ==
  ASSUME NEW T \in DOMAIN MaxSize
  PROVE  T \in DOMAIN Message /\ T \in Types /\ Depth(T) <= 4 /\ IsMessage(T)
<1>1. T \in DOMAIN Message  BY MessageTypes DEF MaxSize
<1> QED BY <1>1, LengthOf DEF Types, IsMessage

\* is the level 0
LEMMA FirstLevel ==
  ASSUME NEW T \in DOMAIN MaxSize
  PROVE  IsLevel({<<<<>>, T>>}, 0)
<1> DEFINE f == <<<<>>, T>>
<1>1. f[1] = <<>> /\ f[2] = T /\ f = <<f[1], f[2]>>  OBVIOUS
<1>2. f[1] \in Paths /\ Len(f[1]) = 0  BY <1>1 DEF Paths
<1> HIDE DEF f
<1>3. IsLevel({f}, 0)  BY <1>1, <1>2, Outermost DEF IsLevel
<1> QED BY <1>3 DEF f

\* and each level is made of the one above it
LEMMA LevelStep ==
  ASSUME NEW T
  PROVE  \A d \in 0..3 : Level(T, d + 1) = FieldsIn(Level(T, d))
<1>1. Level(T, 0 + 1) = FieldsIn(Level(T, 0))  BY DEF Level, LevelOne
<1>2. Level(T, 1 + 1) = FieldsIn(Level(T, 1))  BY DEF Level, LevelTwo
<1>3. Level(T, 2 + 1) = FieldsIn(Level(T, 2))  BY DEF Level, LevelThree
<1>4. Level(T, 3 + 1) = FieldsIn(Level(T, 3))  BY DEF Level, LevelFour
<1>5. TAKE d \in 0..3
<1>6. d = 0 \/ d = 1 \/ d = 2 \/ d = 3  OBVIOUS
<1> QED BY <1>1, <1>2, <1>3, <1>4, <1>6

\* The fields of a message are those of its four levels
LEMMA Levels ==
  ASSUME NEW T \in DOMAIN MaxSize
  PROVE  /\ \A d \in 0..4 : IsLevel(Level(T, d), d)
         /\ FieldsIn(Level(T, 4)) = {}
         /\ Fields[T] = UNION {Level(T, d) : d \in 1..4}
         /\ Level(T, 0) = {<<<<>>, T>>}
<1>0. IsLevel(Level(T, 0), 0) /\ Level(T, 0) = {<<<<>>, T>>}  BY FirstLevel DEF Level
<1>1. \A d \in 0..3 : IsLevel(Level(T, d), d) => IsLevel(Level(T, d + 1), d + 1)
  <2> TAKE d \in 0..3
  <2> HAVE IsLevel(Level(T, d), d)
  <2>1. IsLevel(FieldsIn(Level(T, d)), d + 1)  BY NextLevel
  <2> QED BY <2>1, LevelStep
<1>2. IsLevel(Level(T, 1), 1)  BY <1>0, <1>1
<1>3. IsLevel(Level(T, 2), 2)  BY <1>2, <1>1
<1>4. IsLevel(Level(T, 3), 3)  BY <1>3, <1>1
<1>5. IsLevel(Level(T, 4), 4)  BY <1>4, <1>1
<1>6. \A d \in 0..4 : IsLevel(Level(T, d), d)
  <2> TAKE d \in 0..4
  <2>1. d = 0 \/ d = 1 \/ d = 2 \/ d = 3 \/ d = 4  OBVIOUS
  <2> QED BY <2>1, <1>0, <1>2, <1>3, <1>4, <1>5
<1>7. FieldsIn(Level(T, 4)) = {}
  <2> SUFFICES ASSUME NEW x \in FieldsIn(Level(T, 4)) PROVE FALSE
    OBVIOUS
  <2>1. PICK f \in Level(T, 4) : IsMessage(f[2])  BY InFieldsIn
  <2>2. Depth(f[2]) <= 0  BY <1>5 DEF IsLevel
  <2>3. Depth(f[2]) \in 1..4  BY <2>1, LengthOf DEF IsMessage
  <2> QED BY <2>2, <2>3
<1>8. Fields[T] = UNION {Level(T, d) : d \in 1..4}
  BY DEF Fields, LevelOne, LevelTwo, LevelThree, LevelFour, Level
<1> QED BY <1>0, <1>6, <1>7, <1>8

\* A field has a path of its own, and a type
LEMMA FieldTyped ==
  ASSUME NEW T \in DOMAIN MaxSize, NEW f \in Fields[T]
  PROVE  /\ f = <<f[1], f[2]>> /\ f[1] \in Paths /\ Len(f[1]) \in 1..4 /\ f[2] \in Types
<1>1. PICK d \in 1..4 : f \in Level(T, d)  BY Levels
<1>2. IsLevel(Level(T, d), d)  BY Levels
<1> QED BY <1>1, <1>2 DEF IsLevel

\* A path leads to one field
LEMMA PathUnique ==
  ASSUME NEW T \in DOMAIN MaxSize, NEW f \in Fields[T], NEW g \in Fields[T], f[1] = g[1]
  PROVE  f = g
<1>1. PICK d \in 1..4 : f \in Level(T, d)  BY Levels
<1>2. PICK e \in 1..4 : g \in Level(T, e)  BY Levels
<1>3. IsLevel(Level(T, d), d) /\ IsLevel(Level(T, e), e)  BY Levels
<1>4. d = e  BY <1>1, <1>2, <1>3 DEF IsLevel
<1> QED BY <1>1, <1>2, <1>3, <1>4 DEF IsLevel

\* A message inside is at one of the upper four levels
LEMMA NestedLevel ==
  ASSUME NEW T \in DOMAIN MaxSize, NEW s \in Nested(T)
  PROVE  /\ s[2] \in DOMAIN Message /\ s[1] \in Paths /\ s = <<s[1], s[2]>>
         /\ s[2] \in Types
         /\ \E d \in 0..3 : s \in Level(T, d) /\ Len(s[1]) = d
<1>1. \E d \in 0..4 : s \in Level(T, d)  BY Levels DEF Nested
<1>2. PICK d \in 0..4 : s \in Level(T, d)  BY <1>1
<1>3. IsLevel(Level(T, d), d)  BY Levels
<1>4. IsMessage(s[2])  BY Outermost DEF Nested
<1>5. s[2] \in DOMAIN Message /\ Depth(s[2]) \in 1..4  BY <1>4, LengthOf DEF IsMessage
<1>6. s = <<s[1], s[2]>> /\ s[1] \in Paths /\ Len(s[1]) = d /\ Depth(s[2]) <= 4 - d
      /\ s[2] \in Types
  BY <1>2, <1>3 DEF IsLevel
<1>7. d \in 0..3  BY <1>5, <1>6
<1> QED BY <1>2, <1>5, <1>6, <1>7

\* and its path leads to it alone
LEMMA NestedUnique ==
  ASSUME NEW T \in DOMAIN MaxSize, NEW f \in Nested(T), NEW g \in Nested(T), f[1] = g[1]
  PROVE  f = g
<1>1. PICK d \in 0..3 : f \in Level(T, d) /\ Len(f[1]) = d  BY NestedLevel
<1>2. PICK e \in 0..3 : g \in Level(T, e) /\ Len(g[1]) = e  BY NestedLevel
<1>3. IsLevel(Level(T, d), d) /\ d = e  BY <1>1, <1>2, Levels
<1> QED BY <1>1, <1>2, <1>3 DEF IsLevel

\* The fields of a message inside are fields, and messages inside
LEMMA FieldIn ==
  ASSUME NEW T \in DOMAIN MaxSize, NEW s \in Nested(T), NEW k \in 1..Len(Message[s[2]])
  PROVE  /\ FieldTo(s, k) \in Fields[T]
         /\ FieldTo(s, k)[1] = Append(s[1], Message[s[2]][k][1])
         /\ FieldTo(s, k)[2] = Message[s[2]][k][2]
         /\ FieldTo(s, k) = <<Append(s[1], Message[s[2]][k][1]), Message[s[2]][k][2]>>
         /\ IsMessage(Message[s[2]][k][2]) => FieldTo(s, k) \in Nested(T)
<1>1. s[2] \in DOMAIN Message /\ \E d \in 0..3 : s \in Level(T, d) /\ Len(s[1]) = d
  BY NestedLevel
<1>2. PICK d \in 0..3 : s \in Level(T, d)  BY <1>1
<1>3. FieldTo(s, k) \in FieldsIn(Level(T, d))  BY <1>1, <1>2, InFieldsIn DEF IsMessage
<1>4. FieldTo(s, k) \in Level(T, d + 1) /\ d + 1 \in 1..4  BY <1>3, LevelStep
<1>5. FieldTo(s, k) \in Fields[T]  BY <1>4, Levels
<1>6. FieldTo(s, k)[1] = Append(s[1], Message[s[2]][k][1])
      /\ FieldTo(s, k)[2] = Message[s[2]][k][2]
  BY DEF FieldTo
<1>7. IsMessage(Message[s[2]][k][2]) => FieldTo(s, k) \in Nested(T)  BY <1>5, <1>6 DEF Nested
<1> QED BY <1>5, <1>6, <1>7 DEF FieldTo

\* and every field is one
LEMMA Parent ==
  ASSUME NEW T \in DOMAIN MaxSize, NEW f \in Fields[T]
  PROVE  \E s \in Nested(T) : \E k \in 1..Len(Message[s[2]]) : f = FieldTo(s, k)
<1>1. PICK d \in 1..4 : f \in Level(T, d)  BY Levels
<1>2. d - 1 \in 0..3 /\ (d - 1) + 1 = d  OBVIOUS
<1>3. f \in FieldsIn(Level(T, d - 1))  BY <1>1, <1>2, LevelStep
<1>4. PICK s \in Level(T, d - 1) :
        IsMessage(s[2]) /\ \E k \in 1..Len(Message[s[2]]) : f = FieldTo(s, k)
  BY <1>3, InFieldsIn
<1>5. s \in Nested(T)  BY Levels, <1>4 DEF Nested
<1> QED BY <1>4, <1>5

\* A prefix, by its elements
LEMMA PrefixMeans ==
  ASSUME NEW S, NEW p \in Seq(S), NEW q \in Seq(S)
  PROVE  IsPrefix(p, q) <=> Len(p) <= Len(q) /\ \A i \in 1..Len(p) : p[i] = q[i]
<1>1. p = SubSeq(p, 1, Len(p))  OBVIOUS
<1>2. ASSUME Len(p) <= Len(q), \A i \in 1..Len(p) : p[i] = q[i]
      PROVE  SubSeq(p, 1, Len(p)) = SubSeq(q, 1, Len(p))
  BY <1>2
<1>3. ASSUME Len(p) <= Len(q), p = SubSeq(q, 1, Len(p)), NEW i \in 1..Len(p)
      PROVE  p[i] = q[i]
  BY <1>3
<1> QED BY <1>1, <1>2, <1>3 DEF IsPrefix

\* A prefix of a prefix is one
LEMMA PrefixTransitive ==
  ASSUME NEW S, NEW p \in Seq(S), NEW q \in Seq(S), NEW r \in Seq(S),
         IsPrefix(p, q), IsPrefix(q, r)
  PROVE  IsPrefix(p, r)
BY PrefixMeans

\* A sequence with one more element
LEMMA AppendOf ==
  ASSUME NEW S, NEW p \in Seq(S), NEW x \in S
  PROVE  /\ Append(p, x) \in Seq(S) /\ Len(Append(p, x)) = Len(p) + 1
         /\ Append(p, x)[Len(p) + 1] = x
         /\ \A i \in 1..Len(p) : Append(p, x)[i] = p[i]
OBVIOUS

\* Its prefixes
LEMMA PrefixOfAppend ==
  ASSUME NEW S, NEW p \in Seq(S), NEW q \in Seq(S), NEW x \in S
  PROVE  IsPrefix(p, Append(q, x)) <=> p = Append(q, x) \/ IsPrefix(p, q)
<1> DEFINE a == Append(q, x)
<1>1. a \in Seq(S) /\ Len(a) = Len(q) + 1 /\ \A i \in 1..Len(q) : a[i] = q[i]  BY AppendOf
<1>2. Len(p) \in Nat /\ Len(q) \in Nat  OBVIOUS
<1> HIDE DEF a
<1>3. ASSUME IsPrefix(p, a) PROVE p = a \/ IsPrefix(p, q)
  BY <1>1, <1>3, PrefixMeans, SeqEqual, <1>2
<1>4. ASSUME p = a PROVE IsPrefix(p, a)  BY <1>1, <1>2, <1>4, PrefixMeans
<1>5. ASSUME IsPrefix(p, q) PROVE IsPrefix(p, a)  BY <1>1, <1>2, <1>5, PrefixMeans
<1> QED BY <1>3, <1>4, <1>5 DEF a

\* A path goes on from a prefix in one way
LEMMA SameNext ==
  ASSUME NEW S, NEW p \in Seq(S), NEW q \in Seq(S), NEW x \in S, NEW y \in S,
         IsPrefix(Append(q, x), p), IsPrefix(Append(q, y), p)
  PROVE  x = y
<1> DEFINE a == Append(q, x)
           b == Append(q, y)
           n == Len(q) + 1
<1>1. a \in Seq(S) /\ Len(a) = n /\ a[n] = x /\ b \in Seq(S) /\ Len(b) = n /\ b[n] = y
  BY AppendOf
<1>2. IsPrefix(a, p) /\ IsPrefix(b, p) /\ n \in Nat /\ n >= 1  OBVIOUS
<1> HIDE DEF a, b, n
<1>3. a[n] = p[n] /\ b[n] = p[n]  BY <1>1, <1>2, PrefixMeans
<1> QED BY <1>1, <1>3

\* A field is in a message that is one level up
LEMMA LevelParent ==
  ASSUME NEW T \in DOMAIN MaxSize, NEW d \in 1..4, NEW f \in Level(T, d)
  PROVE  \E g \in Level(T, d - 1) : g \in Nested(T) /\
           \E k \in 1..Len(Message[g[2]]) : f = FieldTo(g, k)
<1>2. d - 1 \in 0..3 /\ (d - 1) + 1 = d  OBVIOUS
<1>3. f \in FieldsIn(Level(T, d - 1))  BY <1>2, LevelStep
<1>4. PICK s \in Level(T, d - 1) :
        IsMessage(s[2]) /\ \E k \in 1..Len(Message[s[2]]) : f = FieldTo(s, k)
  BY <1>3, InFieldsIn
<1>5. s \in Nested(T)  BY Levels, <1>4 DEF Nested
<1> QED BY <1>4, <1>5

\* One level after the other,
LEMMA PathBelowStep ==
  ASSUME NEW T \in DOMAIN MaxSize, NEW d \in 1..4, d > 1 => PathBelowAt(T, d - 1)
  PROVE  PathBelowAt(T, d)
<1> SUFFICES ASSUME NEW f \in Level(T, d), NEW s \in Nested(T),
                    IsPrefix(s[1], f[1]), f[1] # s[1]
             PROVE  \E k \in 1..Len(Message[s[2]]) : IsPrefix(FieldTo(s, k)[1], f[1])
  BY DEF PathBelowAt
<1>1. PICK g \in Level(T, d - 1) : g \in Nested(T) /\
        \E k \in 1..Len(Message[g[2]]) : f = FieldTo(g, k)
  BY LevelParent
<1>2. PICK k \in 1..Len(Message[g[2]]) : f = FieldTo(g, k)  BY <1>1
<1>3. f[1] = Append(g[1], Message[g[2]][k][1])  BY <1>1, <1>2, FieldIn
<1>4. g[2] \in DOMAIN Message /\ g[1] \in Paths /\ s[1] \in Paths /\ s[2] \in DOMAIN Message
  BY <1>1, NestedLevel
<1>5. Message[g[2]][k][1] \in Names  BY <1>4, FieldOf
<1> HIDE DEF Names
<1>6. IsPrefix(s[1], g[1])  BY <1>3, <1>4, <1>5, PrefixOfAppend, SMTT(30) DEF Paths
<1>7. f[1] \in Paths  BY <1>3, <1>4, <1>5, AppendOf DEF Paths
<1>8. IsPrefix(f[1], f[1]) /\ IsPrefix(g[1], f[1])
  <2>1. IsPrefix(f[1], f[1]) /\ IsPrefix(g[1], g[1])  BY <1>4, <1>7, PrefixMeans DEF Paths
  <2> QED BY <2>1, <1>3, <1>4, <1>5, PrefixOfAppend DEF Paths
<1>9. CASE s[1] = g[1]  BY <1>1, <1>9, NestedUnique, <1>2, <1>8
<1>10. CASE s[1] # g[1]
  <2>1. d > 1
    <3> SUFFICES ASSUME d = 1 PROVE FALSE
      OBVIOUS
    <3>1. g[1] = <<>>  BY Levels
    <3>2. Len(g[1]) = 0  BY <3>1
    <3>3. Len(s[1]) <= Len(g[1])  BY <1>6 DEF IsPrefix
    <3>4. Len(s[1]) \in Nat /\ (Len(s[1]) = 0 => s[1] = <<>>)  BY <1>4, EmptySeq DEF Paths
    <3> QED BY <3>1, <3>2, <3>3, <3>4, <1>10
  <2>2. PICK j \in 1..Len(Message[s[2]]) : IsPrefix(FieldTo(s, j)[1], g[1])
    BY <2>1, <1>1, <1>6, <1>10 DEF PathBelowAt
  <2>3. FieldTo(s, j)[1] \in Paths  BY FieldIn, FieldTyped
  <2>4. IsPrefix(FieldTo(s, j)[1], f[1])
    BY <2>2, <2>3, <1>4, <1>7, <1>8, PrefixTransitive DEF Paths
  <2> QED BY <2>4
<1> QED BY <1>9, <1>10

\* that is so at every level
LEMMA PathBelow ==
  ASSUME NEW T \in DOMAIN MaxSize, NEW f \in Fields[T], NEW s \in Nested(T),
         IsPrefix(s[1], f[1]), f[1] # s[1]
  PROVE  \E k \in 1..Len(Message[s[2]]) : IsPrefix(FieldTo(s, k)[1], f[1])
<1>1. PathBelowAt(T, 1)  BY PathBelowStep
<1>2. PathBelowAt(T, 2)  BY <1>1, PathBelowStep
<1>3. PathBelowAt(T, 3)  BY <1>2, PathBelowStep
<1>4. PathBelowAt(T, 4)  BY <1>3, PathBelowStep
<1>5. PICK d \in 1..4 : f \in Level(T, d)  BY Levels
<1>6. d = 1 \/ d = 2 \/ d = 3 \/ d = 4  OBVIOUS
<1> QED BY <1>1, <1>2, <1>3, <1>4, <1>5, <1>6 DEF PathBelowAt

\* There is nothing below a field that is no message
LEMMA NothingBelowAt ==
  ASSUME NEW T \in DOMAIN MaxSize, NEW g \in Fields[T], ~IsMessage(g[2]),
         NEW d \in 1..4,
         d > 1 => \A f \in Level(T, d - 1) : IsPrefix(g[1], f[1]) => f = g
  PROVE  \A f \in Level(T, d) : IsPrefix(g[1], f[1]) => f = g
<1> SUFFICES ASSUME NEW f \in Level(T, d), IsPrefix(g[1], f[1]) PROVE f = g
  OBVIOUS
<1>1. PICK h \in Level(T, d - 1) : h \in Nested(T) /\
        \E k \in 1..Len(Message[h[2]]) : f = FieldTo(h, k)
  BY LevelParent
<1>2. PICK k \in 1..Len(Message[h[2]]) : f = FieldTo(h, k)  BY <1>1
<1>3. f[1] = Append(h[1], Message[h[2]][k][1]) /\ f \in Fields[T]  BY <1>1, <1>2, FieldIn
<1>4. h[2] \in DOMAIN Message /\ h[1] \in Paths  BY <1>1, NestedLevel
<1>5. Message[h[2]][k][1] \in Names  BY <1>4, FieldOf
<1>6. g[1] \in Paths /\ Len(g[1]) \in 1..4  BY FieldTyped
<1> HIDE DEF Names
<1>7. f[1] = g[1] \/ IsPrefix(g[1], h[1])
  BY <1>3, <1>4, <1>5, <1>6, PrefixOfAppend, SMTT(30) DEF Paths
<1>8. CASE f[1] = g[1]  BY <1>3, <1>8, PathUnique
<1>9. CASE IsPrefix(g[1], h[1])
  <2>1. d > 1
    <3> SUFFICES ASSUME d = 1 PROVE FALSE
      OBVIOUS
    <3>1. h[1] = <<>>  BY Levels
    <3>2. Len(h[1]) = 0  BY <3>1
    <3>3. Len(g[1]) <= Len(h[1])  BY <1>9 DEF IsPrefix
    <3> DEFINE n == Len(g[1])
    <3>4. n <= 0 /\ n \in 1..4  BY <3>2, <3>3, <1>6
    <3> HIDE DEF n
    <3> QED BY <3>4
  <2>2. h = g  BY <2>1, <1>9
  <2> QED BY <2>2, <1>4 DEF IsMessage
<1> QED BY <1>7, <1>8, <1>9

\* so a path that goes through it is its own
LEMMA NothingBelow ==
  ASSUME NEW T \in DOMAIN MaxSize, NEW g \in Fields[T], ~IsMessage(g[2]),
         NEW f \in Fields[T], IsPrefix(g[1], f[1])
  PROVE  f = g
<1> DEFINE Below(d) == \A x \in Level(T, d) : IsPrefix(g[1], x[1]) => x = g
<1>0. \A d \in 1..4 : (d > 1 => Below(d - 1)) => Below(d)  BY NothingBelowAt
<1> HIDE DEF Below
<1>1. Below(1)  BY <1>0
<1>2. Below(2)  BY <1>0, <1>1
<1>3. Below(3)  BY <1>0, <1>2
<1>4. Below(4)  BY <1>0, <1>3
<1>5. PICK d \in 1..4 : f \in Level(T, d)  BY Levels
<1>6. d = 1 \/ d = 2 \/ d = 3 \/ d = 4  OBVIOUS
<1> QED BY <1>1, <1>2, <1>3, <1>4, <1>5, <1>6 DEF Below

\* The bytes of a varint
LEMMA VarintSize ==
  ASSUME NEW v \in SUBSET (0..63)
  PROVE  /\ pb_encode_varint(v) \in Seq(Byte)
         /\ IsVarint(pb_encode_varint(v), Len(pb_encode_varint(v)))
         /\ Len(pb_encode_varint(v)) \in Nat
         /\ Len(pb_encode_varint(v)) <= 10 /\ Len(pb_encode_varint(v)) >= 1
<1> DEFINE e == pb_encode_varint(v)
           n == VarintGroups(v)
<1>1. IsVarint(e, n) /\ n \in 1..10  BY VarintWritten
<1> HIDE DEF e, n
<1> QED BY <1>1 DEF e, IsVarint

\* One of the two holds
LEMMA ConcatSplit ==
  ASSUME NEW l \in Seq(Byte), NEW lost \in Seq(Byte), NEW e \in Seq(Byte),
         NEW t \in Seq(Byte), Splits(l, lost, e, t)
  PROVE  \/ Len(l) >= Len(e) /\ ReadsOn(l, lost, e, t)
         \/ Len(l) < Len(e) /\ CutIn(l, lost, e)
<1> DEFINE c == l \o lost
<1>0. c = l \o lost  OBVIOUS
<1> HIDE DEF c
<1>1. /\ c \in Seq(Byte) /\ Len(c) = Len(l) + Len(lost) /\ Len(l) \in Nat /\ Len(lost) \in Nat
      /\ \A i \in 1..Len(l) : c[i] = l[i]
      /\ \A i \in 1..Len(lost) : c[Len(l) + i] = lost[i]
  BY <1>0, Concat, SMT
<1>2. c = e \o t  BY <1>0 DEF Splits
<1>3. /\ Len(c) = Len(e) + Len(t) /\ Len(e) \in Nat /\ Len(t) \in Nat
      /\ \A i \in 1..Len(e) : c[i] = e[i]
      /\ \A i \in 1..Len(t) : c[Len(e) + i] = t[i]
  BY <1>2, Concat
<1>4. ASSUME Len(l) >= Len(e)
      PROVE  /\ l = e \o Drop(l, Len(e)) /\ Drop(l, Len(e)) \in Seq(Byte)
             /\ Drop(l, Len(e)) \o lost = t
  <2> DEFINE d == Drop(l, Len(e))
  <2>1. /\ d \in Seq(Byte) /\ Len(d) = Len(l) - Len(e)
        /\ \A i \in 1..(Len(l) - Len(e)) : d[i] = l[Len(e) + i]
    BY <1>1, <1>3, <1>4, DropProperties
  <2> HIDE DEF d
  <2> DEFINE x == e \o d
  <2>2. /\ x \in Seq(Byte) /\ Len(x) = Len(e) + Len(d)
        /\ \A i \in 1..Len(e) : x[i] = e[i]
        /\ \A i \in 1..Len(d) : x[Len(e) + i] = d[i]
    BY <2>1, Concat
  <2>10. d \in Seq(Byte)  BY <2>1
  <2>11. Len(d) = Len(l) - Len(e)  BY <2>1
  <2> DEFINE y == d \o lost
  <2>20. y = d \o lost  OBVIOUS
  <2> HIDE DEF y
  <2>3. /\ y \in Seq(Byte) /\ Len(y) = Len(d) + Len(lost)
        /\ \A i \in 1..Len(d) : y[i] = d[i]
        /\ \A i \in 1..Len(lost) : y[Len(d) + i] = lost[i]
    BY <2>10, <2>20, Concat
  <2> HIDE DEF x
  <2>4. ASSUME NEW i \in 1..Len(l) PROVE x[i] = l[i]
    <3>1. CASE i <= Len(e)
      <4>1. i \in 1..Len(e)  BY <3>1, <1>3
      <4> QED BY <4>1, <2>2, <1>1, <1>3
    <3>2. CASE i > Len(e)
      <4> DEFINE j == i - Len(e)
      <4>1. j \in 1..Len(d) /\ j \in 1..(Len(l) - Len(e)) /\ i = Len(e) + j
        BY <3>2, <1>1, <1>3, <2>1
      <4> HIDE DEF j
      <4> QED BY <4>1, <2>2, <2>1
    <3> QED BY <3>1, <3>2, <1>1, <1>3
  <2>5. Len(x) = Len(l)  BY <2>1, <2>2, <1>1, <1>3
  <2>6. x = l  BY <2>2, <2>4, <2>5, SeqEqual
  <2>7. Len(y) = Len(t)
    <3>1. Len(y) = Len(d) + Len(lost) /\ Len(l) + Len(lost) = Len(e) + Len(t)
          /\ Len(l) \in Nat /\ Len(lost) \in Nat /\ Len(e) \in Nat /\ Len(t) \in Nat
      BY <2>3, <1>1, <1>3
    <3> QED BY <3>1, <2>11
  <2>8. ASSUME NEW i \in 1..Len(t) PROVE y[i] = t[i]
    <3>1. t[i] = c[Len(e) + i]  BY <1>3
    <3>2. CASE i <= Len(d)  BY <3>2, <2>1, <1>1, <1>3, <3>1, <2>3
    <3>3. CASE i > Len(d)
      <4> DEFINE j == i - Len(d)
      <4>1. j \in 1..Len(lost) /\ i = Len(d) + j /\ Len(e) + i = Len(l) + j
        BY <3>3, <2>1, <1>1, <1>3
      <4> HIDE DEF j
      <4>2. y[i] = lost[j] /\ c[Len(l) + j] = lost[j]  BY <4>1, <2>3, <1>1
      <4> QED BY <4>1, <4>2, <3>1
    <3> QED BY <3>2, <3>3, <2>1, <1>1, <1>3
  <2>9. y = t  BY <2>3, <2>7, <2>8, SeqEqual
  <2> QED BY <2>1, <2>6, <2>9 DEF d, x, y
<1>5. ASSUME Len(l) < Len(e)
      PROVE  lost # <<>> /\ \A i \in 1..Len(l) : l[i] = e[i]
  <2>1. Len(lost) # 0  BY <1>1, <1>3, <1>5
  <2>2. lost # <<>>  BY <2>1
  <2>3. ASSUME NEW i \in 1..Len(l) PROVE l[i] = e[i]  BY <1>1, <1>3, <1>5
  <2> QED BY <2>2, <2>3
<1>6. Len(l) >= Len(e) => ReadsOn(l, lost, e, t)  BY <1>4, Zenon DEF ReadsOn
<1>7. Len(l) < Len(e) => CutIn(l, lost, e)  BY <1>5, Zenon DEF CutIn
<1>8. Len(l) >= Len(e) \/ Len(l) < Len(e)  BY <1>1, <1>3
<1> QED BY <1>6, <1>7, <1>8, Zenon

\* A varint that is cut short has no end
LEMMA VarintCutShort ==
  ASSUME NEW e, NEW n, IsVarint(e, n), NEW l \in Seq(Byte), Len(l) < n,
         \A i \in 1..Len(l) : l[i] = e[i]
  PROVE  VarintLen(l) = 0
<1>1. Len(l) \in Nat /\ n \in Nat /\ \A i \in 1..(n - 1) : 7 \in e[i]  BY DEF IsVarint
<1>2. \A i \in 1..Len(l) : 7 \in l[i]  BY <1>1
<1> QED BY <1>2, VarintLenCut

\* and is not read
LEMMA NoVarint ==
  ASSUME NEW l, VarintLen(l) = 0
  PROVE  pb_decode_varint32(l) = Failed(l) /\ pb_decode_varint(l) = Failed(l)
<1>1. ~(VarintLen(l) > 0) /\ ~(VarintLen(l) \in 1..10)  OBVIOUS
<1> QED BY <1>1, Zenon DEF pb_decode_varint32, pb_decode_varint

\* A varint at the head of a stream that may be cut is read whole or not
LEMMA ReadCutVarint ==
  ASSUME NEW v \in SUBSET (0..63), NEW l \in Seq(Byte), NEW lost \in Seq(Byte),
         NEW t \in Seq(Byte), Splits(l, lost, pb_encode_varint(v), t)
  PROVE  \/ VarintLen(l) = 0 /\ lost # <<>>
         \/ ReadsOn(l, lost, pb_encode_varint(v), t)
<1> DEFINE e == pb_encode_varint(v)
<1>1. e \in Seq(Byte) /\ IsVarint(e, Len(e))  BY VarintSize
<1>2. Splits(l, lost, e, t)  OBVIOUS
<1> HIDE DEF e
<1>3. \/ Len(l) >= Len(e) /\ ReadsOn(l, lost, e, t)
      \/ Len(l) < Len(e) /\ CutIn(l, lost, e)
  BY <1>1, <1>2, ConcatSplit
<1>4. CASE Len(l) < Len(e) /\ CutIn(l, lost, e)  BY <1>4, <1>1, VarintCutShort DEF CutIn
<1>5. CASE ReadsOn(l, lost, e, t)  BY <1>5 DEF e
<1> QED BY <1>3, <1>4, <1>5

\* and so are the bytes of a given number
LEMMA ReadCutBytes ==
  ASSUME NEW b \in Seq(Byte), NEW l \in Seq(Byte), NEW lost \in Seq(Byte),
         NEW t \in Seq(Byte), Splits(l, lost, b, t)
  PROVE  \/ pb_read(l, Len(b)) = Failed(l) /\ lost # <<>>
         \/ ReadsOn(l, lost, b, t)
<1>3. \/ Len(l) >= Len(b) /\ ReadsOn(l, lost, b, t)
      \/ Len(l) < Len(b) /\ CutIn(l, lost, b)
  BY ConcatSplit
<1>2. CASE Len(l) < Len(b) /\ CutIn(l, lost, b)  BY <1>2 DEF pb_read, CutIn
<1> QED BY <1>2, <1>3

\* gives those bytes, or fails with some missing
LEMMA ReadCutSized ==
  ASSUME NEW b \in Seq(Byte), Len(b) < Huge, NEW l \in Seq(Byte), NEW lost \in Seq(Byte),
         NEW t \in Seq(Byte), Splits(l, lost, pb_encode_string(b), t),
         NEW x, ReadsSized(x, l, b)
  PROVE  Reads(x, lost, b, t)
<1> DEFINE v == BitsOf(Len(b))
           e == pb_encode_varint(v)
<1>1. v \in SUBSET (0..31) /\ v \in SUBSET (0..63)  BY BitsOfWider
<1>2. e \in Seq(Byte)  BY <1>1, VarintSize
<1> DEFINE u == b \o t
<1>4. u \in Seq(Byte)  BY Concat
<1> HIDE DEF v
<1>5. pb_encode_string(b) = e \o b  BY DEF v, pb_encode_string
<1>6. Splits(l, lost, e, u)  BY <1>2, ConcatAssociative, <1>5, SMTT(30) DEF Splits
<1> HIDE DEF u
<1>7. (VarintLen(l) = 0 /\ lost # <<>>) \/ ReadsOn(l, lost, e, u)
  BY <1>1, <1>4, <1>6, ReadCutVarint
<1>8. CASE VarintLen(l) = 0 /\ lost # <<>>  BY <1>8, NoVarint DEF Failed, ReadsSized, Reads
<1>9. CASE ReadsOn(l, lost, e, u)
  <2>1. PICK r \in Seq(Byte) : l = e \o r /\ r \o lost = u  BY <1>9 DEF ReadsOn
  <2>2. pb_decode_varint32(l) = Got(v, r)  BY <2>1, <1>1, ReadVarint32
  <2>3. x = pb_read(r, Len(b))  BY <2>2 DEF ReadsSized, v
  <2>4. Splits(r, lost, b, t)  BY <2>1 DEF Splits, u
  <2>5. (pb_read(r, Len(b)) = Failed(r) /\ lost # <<>>) \/ ReadsOn(r, lost, b, t)
    BY <2>4, ReadCutBytes
  <2>6. CASE pb_read(r, Len(b)) = Failed(r) /\ lost # <<>>  BY <2>3, <2>6 DEF Failed, Reads
  <2>7. CASE ReadsOn(r, lost, b, t)
    <3>1. PICK q \in Seq(Byte) : r = b \o q /\ q \o lost = t  BY <2>7 DEF ReadsOn
    <3>2. pb_read(r, Len(b)) = Got(b, q)  BY <3>1, ReadBytes
    <3> QED BY <2>3, <3>1, <3>2, Zenon DEF Reads
  <2> QED BY <2>5, <2>6, <2>7
<1> QED BY <1>7, <1>8, <1>9

\* A length is the number of its bits
LEMMA NumberOfLength ==
  ASSUME NEW n \in Nat, n < Huge
  PROVE  Number(BitsOf(n)) = n
<1>1. n \in 0..(2^28 - 1)  BY DEF Huge
<1> QED BY <1>1, NumberOfBits

\* pb_string is one
LEMMA ReadCutString ==
  ASSUME NEW b \in Seq(Byte), Len(b) < Huge, NEW l \in Seq(Byte), NEW lost \in Seq(Byte),
         NEW t \in Seq(Byte), Splits(l, lost, pb_encode_string(b), t)
  PROVE  Reads(pb_string(l), lost, b, t)
<1>1. Number(BitsOf(Len(b))) = Len(b)  BY NumberOfLength
<1>2. ReadsSized(pb_string(l), l, b)  BY <1>1, GotFields DEF ReadsSized, pb_string, Failed
<1> QED BY <1>2, ReadCutSized

\* pb_dec_bytes is another, for bytes that fit in its field
LEMMA ReadCutField ==
  ASSUME NEW b \in Seq(Byte), Len(b) < Huge, NEW l \in Seq(Byte), NEW lost \in Seq(Byte),
         NEW t \in Seq(Byte), Splits(l, lost, pb_encode_string(b), t),
         NEW n \in Nat, Len(b) + 2 <= n
  PROVE  Reads(pb_dec_bytes(l, n), lost, b, t)
<1>1. Number(BitsOf(Len(b))) = Len(b)  BY NumberOfLength
<1>2. ReadsSized(pb_dec_bytes(l, n), l, b)
  BY <1>1, GotFields DEF ReadsSized, pb_dec_bytes, Failed
<1> QED BY <1>2, ReadCutSized

\* A message is of none of the basic types
LEMMA BasicNotMessage ==
  ASSUME NEW t, IsMessage(t)
  PROVE  t \notin Basic /\ t # "BOOL" /\ t # "UINT32" /\ t # "UENUM" /\ t # "INT32"
         /\ t # "FLOAT" /\ t # "BYTES"
<1>1. t \notin Basic  BY BasicDepth
<1> QED BY <1>1 DEF Basic

\* A type is a basic one or a message
LEMMA TypeCases ==
  ASSUME NEW t \in Types
  PROVE  t = "BOOL" \/ t = "UINT32" \/ t = "UENUM" \/ t = "INT32" \/ t = "FLOAT"
         \/ t = "BYTES" \/ IsMessage(t)
BY DEF Types, Basic, IsMessage

\* The values of the basic types
LEMMA ValuesOfBasic ==
  /\ FieldValues("BOOL") = SUBSET {0} /\ FieldValues("UINT32") = SUBSET (0..31)
  /\ FieldValues("UENUM") = SUBSET (0..(EnumBits - 1))
  /\ FieldValues("INT32") = SUBSET (0..31) /\ FieldValues("FLOAT") = SUBSET (0..31)
  /\ FieldValues("BYTES") = Payloads
  /\ \A b \in Payloads : b \in Seq(Byte) /\ Len(b) <= 256
<1>1. ~IsMessage("BOOL") /\ ~IsMessage("UINT32") /\ ~IsMessage("UENUM")
      /\ ~IsMessage("INT32") /\ ~IsMessage("FLOAT") /\ ~IsMessage("BYTES")
  BY BasicDepth DEF Basic
<1>2. Width("BOOL") = 1 /\ Width("UINT32") = 32 /\ Width("UENUM") = EnumBits
      /\ Width("INT32") = 32 /\ Width("FLOAT") = 32
  BY DEF Width
<1>3. 0..(1 - 1) = {0}  OBVIOUS
<1>4. FieldValues("BOOL") = SUBSET (0..(1 - 1))  BY <1>1, <1>2 DEF FieldValues
<1>5. FieldValues("UINT32") = SUBSET (0..31)  BY <1>1, <1>2 DEF FieldValues
<1>6. FieldValues("UENUM") = SUBSET (0..(EnumBits - 1))  BY <1>1, <1>2 DEF FieldValues
<1>7. FieldValues("INT32") = SUBSET (0..31)  BY <1>1, <1>2 DEF FieldValues
<1>8. FieldValues("FLOAT") = SUBSET (0..31)  BY <1>1, <1>2 DEF FieldValues
<1>9. FieldValues("BYTES") = Payloads  BY <1>1 DEF FieldValues
<1>10. \A b \in Payloads : b \in Seq(Byte) /\ Len(b) <= 256  BY DEF Payloads, data_size
<1> QED BY <1>3, <1>4, <1>5, <1>6, <1>7, <1>8, <1>9, <1>10

\* A number is cut in the bytes of a varint
LEMMA ReadCutNumber ==
  ASSUME NEW v \in SUBSET (0..63), NEW w, NEW l \in Seq(Byte), NEW lost \in Seq(Byte),
         NEW t \in Seq(Byte), Splits(l, lost, pb_encode_varint(v), t),
         NEW x, VarintLen(l) = 0 => ~x.ok,
         \A r \in Seq(Byte) : l = pb_encode_varint(v) \o r => x = Got(w, r)
  PROVE  Reads(x, lost, w, t)
<1>1. (VarintLen(l) = 0 /\ lost # <<>>) \/ ReadsOn(l, lost, pb_encode_varint(v), t)
  BY ReadCutVarint
<1>2. CASE VarintLen(l) = 0 /\ lost # <<>>  BY <1>2 DEF Reads
<1>3. CASE ReadsOn(l, lost, pb_encode_varint(v), t)  BY <1>3, Zenon DEF ReadsOn, Reads
<1> QED BY <1>1, <1>2, <1>3

\* A value of any type is read as it was written, or the reading fails with bytes missing
LEMMA ReadValue ==
  ASSUME NEW type \in Types, NEW v \in FieldValues(type), NEW inside,
         IsMessage(type) => inside \in Seq(Byte) /\ Len(inside) < Huge,
         NEW l \in Seq(Byte), NEW lost \in Seq(Byte), NEW t \in Seq(Byte),
         Splits(l, lost, EncodedValue(type, v, inside), t)
  PROVE  Reads(ValueRead(type, l), lost, Carried(type, v, inside), t)
<1>1. CASE type = "BOOL"
  <2>1. ~IsMessage(type)  BY <1>1, BasicDepth DEF Basic
  <2>2. v \in SUBSET {0}  BY <1>1, ValuesOfBasic
  <2>3. v \in SUBSET (0..63)  BY <2>2
  <2>4. EncodedValue(type, v, inside) = pb_encode_varint(v)  BY <1>1 DEF EncodedValue
  <2> DEFINE x == pb_decode_bool(l)
  <2>5. ValueRead(type, l) = x /\ Carried(type, v, inside) = v
    BY <1>1, <2>1 DEF ValueRead, Carried
  <2>6. VarintLen(l) = 0 => ~x.ok  BY NoVarint DEF pb_decode_bool, Failed
  <2>7. ASSUME NEW r \in Seq(Byte), l = pb_encode_varint(v) \o r PROVE x = Got(v, r)
    BY <2>2, <2>7, ReadBool
  <2> HIDE DEF x
  <2>8. Splits(l, lost, pb_encode_varint(v), t)  BY <2>4
  <2>9. Reads(x, lost, v, t)  BY <2>3, <2>6, <2>7, <2>8, ReadCutNumber
  <2> QED BY <2>5, <2>9
<1>2. CASE type \in {"UINT32", "UENUM"}
  <2>1. ~IsMessage(type)  BY <1>2, BasicDepth DEF Basic
  <2> DEFINE w == Width(type)
  <2>2. w \in {8, 16, 32} /\ v \in SUBSET (0..(w - 1))
    <3>1. CASE type = "UINT32"
      <4>1. w = 32  BY <3>1 DEF Width
      <4> HIDE DEF w
      <4>2. v \in SUBSET (0..31)  BY <3>1, ValuesOfBasic
      <4>3. w - 1 = 31  BY <4>1
      <4> QED BY <4>1, <4>2, <4>3
    <3>2. CASE type = "UENUM"
      <4>1. w = EnumBits  BY <3>2 DEF Width
      <4> HIDE DEF w
      <4>2. v \in SUBSET (0..(EnumBits - 1))  BY <3>2, ValuesOfBasic
      <4> QED BY <4>1, <4>2, EnumBitsAssumption
    <3> QED BY <1>2, <3>1, <3>2
  <2> HIDE DEF w
  <2>3. v \in SUBSET (0..63)  BY <2>2
  <2>4. EncodedValue(type, v, inside) = pb_encode_varint(v)  BY <1>2 DEF EncodedValue
  <2> DEFINE x == pb_dec_uvarint(l, w)
  <2>5. ValueRead(type, l) = x /\ Carried(type, v, inside) = v
    BY <1>2, <2>1 DEF ValueRead, Carried, w
  <2>6. VarintLen(l) = 0 => ~x.ok  BY NoVarint DEF pb_dec_uvarint, Failed
  <2>7. ASSUME NEW r \in Seq(Byte), l = pb_encode_varint(v) \o r PROVE x = Got(v, r)
    BY <2>2, <2>7, ReadUvarint
  <2> HIDE DEF x
  <2>8. Splits(l, lost, pb_encode_varint(v), t)  BY <2>4
  <2>9. Reads(x, lost, v, t)  BY <2>3, <2>6, <2>7, <2>8, ReadCutNumber
  <2> QED BY <2>5, <2>9
<1>3. CASE type = "INT32"
  <2>1. ~IsMessage(type)  BY <1>3, BasicDepth DEF Basic
  <2>2. v \in SUBSET (0..31)  BY <1>3, ValuesOfBasic
  <2> DEFINE u == IF 31 \in v THEN v \cup (32..63) ELSE v
  <2>3. u \in SUBSET (0..63)  BY <2>2
  <2>10. pb_enc_varint(v) = pb_encode_varint(u)  BY DEF pb_enc_varint
  <2> HIDE DEF u
  <2>4. EncodedValue(type, v, inside) = pb_encode_varint(u)  BY <1>3, <2>10 DEF EncodedValue
  <2> DEFINE x == pb_dec_varint(l)
  <2>5. ValueRead(type, l) = x /\ Carried(type, v, inside) = v
    BY <1>3, <2>1 DEF ValueRead, Carried
  <2>6. VarintLen(l) = 0 => ~x.ok  BY NoVarint DEF pb_dec_varint, Failed
  <2>7. ASSUME NEW r \in Seq(Byte), l = pb_encode_varint(u) \o r PROVE x = Got(v, r)
    BY <2>2, <2>7, <2>10, ReadSigned
  <2> HIDE DEF x
  <2>8. Splits(l, lost, pb_encode_varint(u), t)  BY <2>4
  <2>9. Reads(x, lost, v, t)  BY <2>3, <2>6, <2>7, <2>8, ReadCutNumber
  <2> QED BY <2>5, <2>9
<1>4. CASE type = "FLOAT"
  <2>1. ~IsMessage(type)  BY <1>4, BasicDepth DEF Basic
  <2>2. v \in SUBSET (0..31)  BY <1>4, ValuesOfBasic
  <2> DEFINE e == pb_encode_fixed32(v)
  <2>3. e \in Seq(Byte) /\ Len(e) = 4  BY <2>2, FixedWritten
  <2>4. Splits(l, lost, e, t)  BY <1>4 DEF EncodedValue
  <2>5. ValueRead(type, l) = pb_decode_fixed32(l) /\ Carried(type, v, inside) = v
    BY <1>4, <2>1 DEF ValueRead, Carried
  <2>6. \A r \in Seq(Byte) : pb_decode_fixed32(e \o r) = Got(v, r)  BY <2>2, ReadFixed
  <2> HIDE DEF e
  <2>7. (pb_read(l, 4) = Failed(l) /\ lost # <<>>) \/ ReadsOn(l, lost, e, t)
    BY <2>3, <2>4, ReadCutBytes
  <2>8. CASE pb_read(l, 4) = Failed(l) /\ lost # <<>>
    BY <2>5, <2>8 DEF pb_decode_fixed32, Failed, Reads
  <2>9. CASE ReadsOn(l, lost, e, t)  BY <2>5, <2>6, <2>9, Zenon DEF ReadsOn, Reads
  <2> QED BY <2>7, <2>8, <2>9
<1>5. CASE type = "BYTES"
  <2>1. ~IsMessage(type)  BY <1>5, BasicDepth DEF Basic
  <2>2. v \in Seq(Byte) /\ Len(v) <= 256  BY <1>5, ValuesOfBasic
  <2>3. Splits(l, lost, pb_encode_string(v), t)  BY <1>5 DEF EncodedValue
  <2>4. ValueRead(type, l) = pb_dec_bytes(l, 258) /\ Carried(type, v, inside) = v
    BY <1>5, <2>1 DEF ValueRead, Carried, data_size
  <2>5. Len(v) < Huge /\ Len(v) + 2 <= 258 /\ 258 \in Nat  BY <2>2 DEF Huge
  <2>6. Reads(pb_dec_bytes(l, 258), lost, v, t)  BY <2>2, <2>3, <2>5, ReadCutField
  <2> QED BY <2>4, <2>6
<1>6. CASE IsMessage(type)
  BY <1>6, BasicNotMessage, ReadCutString DEF EncodedValue, ValueRead, Carried,
     pb_make_string_substream
<1> QED BY <1>1, <1>2, <1>3, <1>4, <1>5, <1>6, TypeCases

\* A wire type is three bits
LEMMA WireType ==
  ASSUME NEW type
  PROVE  wire_type_of(type) \in 0..7
BY DEF wire_type_of, WT_VARINT, WT_32BIT, WT_STRING

\* The bytes of a tag
LEMMA TagSize ==
  ASSUME NEW type, NEW tag \in 1..17
  PROVE  /\ pb_encode_tag_for_field(type, tag) \in Seq(Byte)
         /\ Len(pb_encode_tag_for_field(type, tag)) <= 10
         /\ Len(pb_encode_tag_for_field(type, tag)) >= 1
<1> DEFINE v == BitsOf(8 * tag + wire_type_of(type))
<1>1. v \in SUBSET (0..63)  BY BitsOfWider
<1>2. pb_encode_tag_for_field(type, tag) = pb_encode_varint(v)
  BY DEF pb_encode_tag_for_field, pb_encode_tag
<1> HIDE DEF v
<1> QED BY <1>1, <1>2, VarintSize

\* So is a whole field, with its tag
LEMMA ReadField ==
  ASSUME NEW type \in Types, NEW tag \in 1..17, NEW v \in FieldValues(type), NEW inside,
         IsMessage(type) => inside \in Seq(Byte) /\ Len(inside) < Huge,
         EncodedValue(type, v, inside) \in Seq(Byte),
         NEW l \in Seq(Byte), NEW lost \in Seq(Byte), NEW t \in Seq(Byte),
         Splits(l, lost, encode_basic_field(type, tag, v, inside), t)
  PROVE  ReadsField(l, lost, type, tag, Carried(type, v, inside), t)
<1> DEFINE wire == wire_type_of(type)
           n == BitsOf(8 * tag + wire)
           e == pb_encode_varint(n)
           d == EncodedValue(type, v, inside)
           u == d \o t
<1>1. wire \in 0..7  BY WireType
<1>2. n \in SUBSET (0..31) /\ n \in SUBSET (0..63)  BY BitsOfWider
<1>3. e \in Seq(Byte)  BY <1>2, VarintSize
<1>4. u \in Seq(Byte)  BY Concat
<1>5. encode_basic_field(type, tag, v, inside) = e \o d
  BY DEF encode_basic_field, EncodedValue, pb_encode_tag_for_field, pb_encode_tag
<1>6. \A r \in Seq(Byte) : pb_decode_tag(e \o r)
        = [ok |-> TRUE, val |-> tag, wire |-> wire, rest |-> r]
  <2>1. e = pb_encode_tag(wire, tag)  BY DEF pb_encode_tag
  <2>2. tag \in 0..31  OBVIOUS
  <2> HIDE DEF e, wire
  <2> QED BY <1>1, <2>1, <2>2, ReadTag
<1>7. Splits(l, lost, e, u)
  <2>1. (e \o d) \o t = e \o (d \o t)
    <3>1. d \in Seq(Byte)  OBVIOUS
    <3> HIDE DEF d, e
    <3> QED BY <1>3, <3>1, ConcatAssociative, SMTT(30)
  <2> QED BY <2>1, <1>5 DEF Splits
<1> HIDE DEF n, u
<1>8. (VarintLen(l) = 0 /\ lost # <<>>) \/ ReadsOn(l, lost, e, u)
  BY <1>2, <1>4, <1>7, ReadCutVarint
<1> HIDE DEF e
<1>9. CASE VarintLen(l) = 0 /\ lost # <<>>
  BY <1>9, NoVarint DEF Failed, pb_decode_tag, ReadsField
<1>10. CASE ReadsOn(l, lost, e, u)
  <2>1. PICK r \in Seq(Byte) : l = e \o r /\ r \o lost = u  BY <1>10 DEF ReadsOn
  <2>2. pb_decode_tag(l) = [ok |-> TRUE, val |-> tag, wire |-> wire, rest |-> r]  BY <2>1, <1>6
  <2>3. Splits(r, lost, d, t)  BY <2>1 DEF Splits, u
  <2>4. Reads(ValueRead(type, r), lost, Carried(type, v, inside), t)  BY <2>3, ReadValue
  <2>5. /\ pb_decode_tag(l).ok /\ pb_decode_tag(l).val = tag
        /\ pb_decode_tag(l).wire = wire_type_of(type) /\ pb_decode_tag(l).rest = r
    BY <2>2
  <2> QED BY <2>4, <2>5 DEF ReadsField
<1> QED BY <1>8, <1>9, <1>10

\* The bytes of a value
LEMMA EncodedValueSize ==
  ASSUME NEW type \in Types, NEW v \in FieldValues(type), NEW inside, NEW c \in Nat, c >= 310,
         IsMessage(type) => inside \in Seq(Byte) /\ Len(inside) <= c - 20
  PROVE  /\ EncodedValue(type, v, inside) \in Seq(Byte)
         /\ Len(EncodedValue(type, v, inside)) <= c - 10
<1>1. CASE type \in {"BOOL", "UINT32", "UENUM"}
  <2>1. v \in SUBSET (0..63)
    <3>1. CASE type = "BOOL"
      <4>1. v \in SUBSET {0}  BY <3>1, ValuesOfBasic
      <4> QED BY <4>1
    <3>2. CASE type = "UINT32"
      <4>1. v \in SUBSET (0..31)  BY <3>2, ValuesOfBasic
      <4> QED BY <4>1
    <3>3. CASE type = "UENUM"
      <4>1. v \in SUBSET (0..(EnumBits - 1))  BY <3>3, ValuesOfBasic
      <4> QED BY <4>1, EnumBitsAssumption
    <3> QED BY <1>1, <3>1, <3>2, <3>3
  <2>2. EncodedValue(type, v, inside) = pb_encode_varint(v)  BY <1>1 DEF EncodedValue
  <2> QED BY <2>1, <2>2, VarintSize
<1>2. CASE type = "INT32"
  <2> DEFINE u == IF 31 \in v THEN v \cup (32..63) ELSE v
  <2>1. u \in SUBSET (0..63)  BY <1>2, ValuesOfBasic
  <2>2. EncodedValue(type, v, inside) = pb_encode_varint(u)
    BY <1>2 DEF EncodedValue, pb_enc_varint
  <2> HIDE DEF u
  <2> QED BY <2>1, <2>2, VarintSize
<1>3. CASE type = "FLOAT"
  <2>1. v \in SUBSET (0..31)  BY <1>3, ValuesOfBasic
  <2>2. EncodedValue(type, v, inside) = pb_encode_fixed32(v)  BY <1>3 DEF EncodedValue
  <2>3. pb_encode_fixed32(v) \in Seq(Byte) /\ Len(pb_encode_fixed32(v)) = 4
    BY <2>1, FixedWritten
  <2> QED BY <2>2, <2>3
<1>4. ASSUME NEW b \in Seq(Byte), Len(b) <= c - 20
      PROVE  pb_encode_string(b) \in Seq(Byte) /\ Len(pb_encode_string(b)) <= c - 10
  <2> DEFINE e == pb_encode_varint(BitsOf(Len(b)))
             x == e \o b
  <2>1. e \in Seq(Byte) /\ Len(e) \in Nat /\ Len(e) <= 10  BY BitsOfWider, VarintSize
  <2>2. x = pb_encode_string(b)  BY DEF pb_encode_string
  <2> HIDE DEF e
  <2>3. x = e \o b  OBVIOUS
  <2> HIDE DEF x
  <2>4. x \in Seq(Byte) /\ Len(x) = Len(e) + Len(b) /\ Len(b) \in Nat  BY <2>1, <2>3, Concat
  <2>5. Len(x) <= c - 10  BY <2>1, <2>4, <1>4
  <2> QED BY <2>2, <2>4, <2>5
<1>5. CASE type = "BYTES"  BY <1>5, ValuesOfBasic, <1>4 DEF EncodedValue
<1>6. CASE IsMessage(type)  BY <1>6, BasicNotMessage, <1>4 DEF EncodedValue
<1> QED BY <1>1, <1>2, <1>3, <1>5, <1>6, TypeCases

\* and of a field
LEMMA FieldSize ==
  ASSUME NEW type \in Types, NEW tag \in 1..17, NEW v \in FieldValues(type), NEW inside,
         NEW c \in Nat, c >= 310,
         IsMessage(type) => inside \in Seq(Byte) /\ Len(inside) <= c - 20
  PROVE  /\ encode_field(type, tag, v, inside) \in Seq(Byte)
         /\ Len(encode_field(type, tag, v, inside)) <= c
         /\ encode_basic_field(type, tag, v, inside) \in Seq(Byte)
         /\ encode_basic_field(type, tag, v, inside) # <<>>
<1> DEFINE e == pb_encode_tag_for_field(type, tag)
           d == EncodedValue(type, v, inside)
           x == e \o d
<1>1. e \in Seq(Byte) /\ Len(e) <= 10 /\ Len(e) >= 1  BY TagSize
<1>2. d \in Seq(Byte) /\ Len(d) <= c - 10  BY EncodedValueSize
<1>3. encode_basic_field(type, tag, v, inside) = x  BY DEF encode_basic_field, EncodedValue
<1> HIDE DEF e, d
<1>4. x = e \o d  OBVIOUS
<1> HIDE DEF x
<1>5. x \in Seq(Byte) /\ Len(x) = Len(e) + Len(d) /\ Len(e) \in Nat /\ Len(d) \in Nat
  BY <1>1, <1>2, <1>4, Concat
<1>6. Len(x) <= c /\ Len(x) >= 1  BY <1>1, <1>2, <1>5
<1>7. x # <<>>  BY <1>6
<1>8. encode_field(type, tag, v, inside) = IF pb_check_proto3_default_value(type,
    v) THEN <<>> ELSE x
  BY <1>3 DEF encode_field
<1>9. <<>> \in Seq(Byte) /\ Len(<<>>) <= c  OBVIOUS
<1>10. CASE pb_check_proto3_default_value(type, v)  BY <1>3, <1>5, <1>7, <1>8, <1>9, <1>10
<1>11. CASE ~pb_check_proto3_default_value(type, v)  BY <1>3, <1>5, <1>6, <1>7, <1>8, <1>11
<1> QED BY <1>10, <1>11

\* A message has room for its fields, and its fields for theirs
LEMMA RoomGrows ==
  ASSUME NEW d \in 1..4
  PROVE  /\ Room(d) \in Nat /\ Room(d) >= 310
         /\ \A e \in 1..4 : e < d => 17 * Room(e) <= Room(d) - 20
         /\ \A k \in 1..17 : Room(d) + (18 - (k + 1)) * Room(d) = (18 - k) * Room(d)
         /\ \A k \in 1..18 : (18 - k) * Room(d) < Huge /\ (18 - k) * Room(d) >= 0
<1>1. CASE d = 1  BY <1>1 DEF Room, RoomTwo, RoomThree, RoomFour, Huge
<1>2. CASE d = 2  BY <1>2 DEF Room, RoomTwo, RoomThree, RoomFour, Huge
<1>3. CASE d = 3  BY <1>3 DEF Room, RoomTwo, RoomThree, RoomFour, Huge
<1>4. CASE d = 4  BY <1>4 DEF Room, RoomTwo, RoomThree, RoomFour, Huge
<1> QED BY <1>1, <1>2, <1>3, <1>4

\* The next field, and the first one inside, have a smaller measure
LEMMA MeasureLess ==
  ASSUME NEW T \in DOMAIN MaxSize, NEW s \in Nested(T), NEW k \in 1..Len(Message[s[2]])
  PROVE  /\ k \in 1..17 /\ k + 1 \in 1..18 /\ Measure(s, k + 1) < Measure(s, k)
         /\ Measure(s, k) \in Nat /\ Depth(s[2]) \in 1..4
         /\ IsMessage(Message[s[2]][k][2]) =>
              /\ Measure(FieldTo(s, k), 1) < Measure(s, k)
              /\ Depth(Message[s[2]][k][2]) \in 1..4
              /\ Depth(Message[s[2]][k][2]) < Depth(s[2])
<1>1. s[2] \in DOMAIN Message  BY NestedLevel
<1>2. /\ Len(Message[s[2]]) \in Nat /\ Len(Message[s[2]]) <= 17
      /\ Depth(Message[s[2]][k][2]) < Depth(s[2]) /\ Depth(s[2]) \in 1..4
  BY <1>1, FieldOf
<1>3. k \in 1..17
  <2> DEFINE n == Len(Message[s[2]])
  <2>1. n \in Nat /\ n <= 17 /\ k \in 1..n  BY <1>2
  <2> HIDE DEF n
  <2> QED BY <2>1
<1>4. Measure(s, k + 1) < Measure(s, k) /\ Measure(s, k) \in Nat  BY <1>2, <1>3 DEF Measure
<1>5. ASSUME IsMessage(Message[s[2]][k][2])
      PROVE  /\ Measure(FieldTo(s, k), 1) < Measure(s, k)
             /\ Depth(Message[s[2]][k][2]) \in 1..4
  BY <1>5, LengthOf, FieldIn, <1>2, <1>3 DEF IsMessage, Measure
<1> QED BY <1>2, <1>3, <1>4, <1>5, SMTT(30)

\* A message that is sent has values of the types of its fields
LEMMA FieldValue ==
  ASSUME NEW T \in DOMAIN MaxSize, NEW m, IsMessageOf(T, m), NEW s \in Nested(T),
         NEW k \in 1..Len(Message[s[2]])
  PROVE  /\ m[FieldTo(s, k)[1]] \in FieldValues(Message[s[2]][k][2])
         /\ Message[s[2]][k][2] \in Types
<1>1. FieldTo(s, k) \in Fields[T] /\ FieldTo(s, k)[2] = Message[s[2]][k][2]  BY FieldIn
<1>2. m[FieldTo(s, k)[1]] \in FieldValues(FieldTo(s, k)[2])  BY <1>1 DEF IsMessageOf
<1>3. FieldTo(s, k)[2] \in Types  BY <1>1, FieldTyped
<1> QED BY <1>1, <1>2, <1>3

\* The bytes at a place are as many as the places after it allow
LEMMA EncodeSized ==
  ASSUME NEW T \in DOMAIN MaxSize, NEW m, IsMessageOf(T, m), NEW g,
         NEW s \in Nested(T), NEW k \in 1..18, Sized(T, g, Measure(s, k))
  PROVE  EncodeAt(m, g, s, k) \in Seq(Byte)
         /\ Len(EncodeAt(m, g, s, k)) <= (18 - k) * Room(Depth(s[2]))
<1>0. s[2] \in DOMAIN Message  BY NestedLevel
<1>00. Len(Message[s[2]]) \in Nat /\ Depth(s[2]) \in 1..4  BY <1>0, LengthOf
<1>1. CASE k > Len(Message[s[2]])
  <2>1. EncodeAt(m, g, s, k) = <<>>  BY <1>1 DEF EncodeAt
  <2>2. <<>> \in Seq(Byte) /\ Len(<<>>) = 0  OBVIOUS
  <2>3. (18 - k) * Room(Depth(s[2])) >= 0  BY <1>00, RoomGrows
  <2> QED BY <2>1, <2>2, <2>3
<1>2. CASE ~(k > Len(Message[s[2]]))
  <2>1. k \in 1..Len(Message[s[2]])  BY <1>2, <1>00
  <2> DEFINE type == Message[s[2]][k][2]
             v == m[FieldTo(s, k)[1]]
             inside == g[<<FieldTo(s, k), 1>>]
             next == g[<<s, k + 1>>]
             d == Depth(s[2])
             c == Room(d)
             e == encode_field(type, k, v, inside)
             x == e \o next
  <2>2. EncodeAt(m, g, s, k) = x  BY <1>2 DEF EncodeAt
  <2>3. k \in 1..17 /\ k + 1 \in 1..18 /\ d \in 1..4  BY <2>1, MeasureLess
  <2>4. next \in Seq(Byte) /\ Len(next) <= (18 - (k + 1)) * c
    BY <2>1, MeasureLess, <2>3 DEF Sized
  <2>5. v \in FieldValues(type) /\ type \in Types  BY <2>1, FieldValue
  <2>6. c \in Nat /\ c >= 310 /\ \A j \in 1..4 : j < d => 17 * Room(j) <= c - 20
    BY <2>3, RoomGrows
  <2>7. ASSUME IsMessage(type) PROVE inside \in Seq(Byte) /\ Len(inside) <= c - 20
    <3>1. Measure(FieldTo(s, k), 1) < Measure(s, k) /\ Depth(type) \in 1..4 /\ Depth(type) < d
      BY <2>1, <2>7, MeasureLess
    <3>2. FieldTo(s, k) \in Nested(T) /\ FieldTo(s, k)[2] = type  BY <2>1, <2>7, FieldIn
    <3>3. inside \in Seq(Byte) /\ Len(inside) <= (18 - 1) * Room(Depth(type))
      <4>1. \A j \in 1..18 : Measure(FieldTo(s, k), j) < Measure(s, k) =>
              /\ g[<<FieldTo(s, k), j>>] \in Seq(Byte)
              /\ Len(g[<<FieldTo(s, k), j>>]) <= (18 - j) * Room(Depth(FieldTo(s, k)[2]))
        BY <3>2 DEF Sized
      <4>2. 1 \in 1..18  OBVIOUS
      <4>3. /\ g[<<FieldTo(s, k), 1>>] \in Seq(Byte)
            /\ Len(g[<<FieldTo(s, k), 1>>]) <= (18 - 1) * Room(Depth(FieldTo(s, k)[2]))
        BY <3>1, <4>1, <4>2, Zenon
      <4> QED BY <3>2, <4>3
    <3>4. 17 * Room(Depth(type)) <= c - 20  BY <3>1, <2>6
    <3>5. Room(Depth(type)) \in Nat /\ 18 - 1 = 17 /\ Len(inside) \in Nat
      <4>1. Len(inside) \in Nat  BY <3>3
      <4>2. Room(Depth(type)) \in Nat  BY <3>1, RoomGrows
      <4> QED BY <4>1, <4>2
    <3> DEFINE r == Room(Depth(type))
               n == Len(inside)
    <3>6. n <= 17 * r /\ 17 * r <= c - 20 /\ r \in Nat /\ n \in Nat  BY <3>3, <3>4, <3>5
    <3> HIDE DEF r, n, c
    <3>7. n <= c - 20  BY <3>6, <2>6
    <3> QED BY <3>3, <3>7 DEF n
  <2> HIDE DEF type, v, inside, c
  <2>8. e \in Seq(Byte) /\ Len(e) <= c  BY <2>3, <2>5, <2>6, <2>7, FieldSize
  <2> HIDE DEF e, next
  <2>9. x = e \o next  OBVIOUS
  <2> HIDE DEF x
  <2>10. x \in Seq(Byte) /\ Len(x) = Len(e) + Len(next) /\ Len(e) \in Nat /\ Len(next) \in Nat
    BY <2>4, <2>8, <2>9, Concat
  <2>11. c + (18 - (k + 1)) * c = (18 - k) * c  BY <2>3, RoomGrows DEF c
  <2> DEFINE w == (18 - (k + 1)) * c
             z == (18 - k) * c
  <2>12. c + w = z /\ Len(next) <= w /\ w \in Nat
    <3>1. (18 - (k + 1)) * c >= 0  BY <2>3, RoomGrows DEF c
    <3>2. (18 - (k + 1)) * c \in Int  BY <2>3, <2>6
    <3> QED BY <2>4, <2>11, <3>1, <3>2
  <2> HIDE DEF w, z
  <2>13. Len(x) <= z  BY <2>6, <2>8, <2>10, <2>12
  <2> QED BY <2>2, <2>10, <2>13 DEF z, c
<1> QED BY <1>1, <1>2

\* The bytes at a place depend on those at the places after it only
LEMMA EncodeSame ==
  ASSUME NEW T \in DOMAIN MaxSize, NEW m, IsMessageOf(T, m), NEW g, NEW h,
         NEW s \in Nested(T), NEW k \in 1..18, SameBefore(T, g, h, Measure(s, k))
  PROVE  EncodeAt(m, g, s, k) = EncodeAt(m, h, s, k)
<1>0. s[2] \in DOMAIN Message  BY NestedLevel
<1>1. CASE k > Len(Message[s[2]])  BY <1>1 DEF EncodeAt
<1>2. CASE ~(k > Len(Message[s[2]]))
  <2>1. k \in 1..Len(Message[s[2]])  BY <1>0, <1>2, LengthOf
  <2> DEFINE type == Message[s[2]][k][2]
             v == m[FieldTo(s, k)[1]]
             u == FieldTo(s, k)
  <2>2. k + 1 \in 1..18 /\ Measure(s, k + 1) < Measure(s, k)  BY <2>1, MeasureLess
  <2>3. g[<<s, k + 1>>] = h[<<s, k + 1>>]  BY <2>2 DEF SameBefore
  <2>4. encode_field(type, k, v, g[<<u, 1>>]) = encode_field(type, k, v, h[<<u, 1>>])
    <3>1. CASE IsMessage(type)
      <4>1. Measure(u, 1) < Measure(s, k) /\ u \in Nested(T) /\ 1 \in 1..18
        BY <2>1, <3>1, MeasureLess, FieldIn
      <4> HIDE DEF u
      <4>2. g[<<u, 1>>] = h[<<u, 1>>]  BY <4>1 DEF SameBefore
      <4> QED BY <4>2
    <3>2. CASE ~IsMessage(type)
      <4>1. type \in Types  BY <2>1, FieldValue
      <4>2. type \in {"BOOL", "UINT32",
          "UENUM"} \/ type = "INT32" \/ type = "FLOAT" \/ type = "BYTES"
        BY <3>2, <4>1, TypeCases
      <4> DEFINE x == g[<<u, 1>>]
                 y == h[<<u, 1>>]
      <4> HIDE DEF type, v, x, y
      <4>3. encode_basic_field(type, k, v, x) = encode_basic_field(type, k, v, y)
        BY <4>2 DEF encode_basic_field
      <4>4. encode_field(type, k, v, x) = encode_field(type, k, v, y)  BY <4>3 DEF encode_field
      <4> QED BY <4>4 DEF x, y
    <3> QED BY <3>1, <3>2
  <2> QED BY <1>2, <2>3, <2>4 DEF EncodeAt
<1> QED BY <1>1, <1>2

\* The measures
LEMMA MeasureType ==
  ASSUME NEW T \in DOMAIN MaxSize, NEW s \in Nested(T), NEW k \in 1..18
  PROVE  Measure(s, k) \in 0..97
<1>1. s[2] \in DOMAIN Message  BY NestedLevel
<1>2. Depth(s[2]) \in 1..4  BY <1>1, LengthOf
<1> QED BY <1>2 DEF Measure

\* There is a function with the bytes of the places of one measure more,
LEMMA SolveNext ==
  ASSUME NEW T \in DOMAIN MaxSize, NEW m, IsMessageOf(T, m), NEW n \in Nat,
         NEW g, Solved(T, m, g, n)
  PROVE  \E h : Solved(T, m, h, n + 1)
<1> DEFINE h == [at \in Places(T) |->
                   IF Measure(at[1], at[2]) = n THEN EncodeAt(m, g, at[1], at[2]) ELSE g[at]]
<1>0. g \in [Places(T) -> Seq(Byte)]  BY DEF Solved
<1>1. ASSUME NEW s \in Nested(T), NEW k \in 1..18
      PROVE  /\ h[<<s, k>>] = IF Measure(s, k) = n THEN EncodeAt(m, g, s, k) ELSE g[<<s, k>>]
             /\ Measure(s, k) \in 0..97
  BY MeasureType DEF Places
<1>2. ASSUME NEW s \in Nested(T), NEW k \in 1..18, Measure(s, k) = n
      PROVE  /\ EncodeAt(m, g, s, k) \in Seq(Byte)
             /\ Len(EncodeAt(m, g, s, k)) <= (18 - k) * Room(Depth(s[2]))
  BY <1>2, EncodeSized DEF Solved
<1>3. h \in [Places(T) -> Seq(Byte)]
  <2>1. ASSUME NEW at \in Places(T), Measure(at[1], at[2]) = n
        PROVE  EncodeAt(m, g, at[1], at[2]) \in Seq(Byte)
    BY <2>1, <1>2 DEF Places
  <2> QED BY <1>0, <2>1
<1> HIDE DEF h
<1>4. SameBefore(T, h, g, n)
  <2> SUFFICES ASSUME NEW s \in Nested(T), NEW k \in 1..18, Measure(s, k) < n
               PROVE  h[<<s, k>>] = g[<<s, k>>]
    BY DEF SameBefore
  <2>1. Measure(s, k) # n
    <3> DEFINE x == Measure(s, k)
    <3>1. x \in Int /\ x < n  BY MeasureType
    <3> HIDE DEF x
    <3>2. x # n  BY <3>1
    <3> QED BY <3>2 DEF x
  <2> QED BY <1>1, <2>1
<1>5. Sized(T, h, n + 1)
  <2> SUFFICES ASSUME NEW s \in Nested(T), NEW k \in 1..18, Measure(s, k) < n + 1
               PROVE  h[<<s, k>>] \in Seq(Byte)
                      /\ Len(h[<<s, k>>]) <= (18 - k) * Room(Depth(s[2]))
    BY DEF Sized
  <2>1. Measure(s, k) = n \/ Measure(s, k) < n
    <3> DEFINE x == Measure(s, k)
    <3>1. x \in Int /\ x < n + 1  BY MeasureType
    <3> HIDE DEF x
    <3>2. x = n \/ x < n  BY <3>1
    <3> QED BY <3>2 DEF x
  <2>2. CASE Measure(s, k) = n  BY <2>2, <1>1, <1>2
  <2>3. CASE Measure(s, k) < n  BY <2>3, <1>4 DEF Solved, Sized, SameBefore
  <2> QED BY <2>1, <2>2, <2>3
<1>6. ASSUME NEW s \in Nested(T), NEW k \in 1..18, Measure(s, k) < n + 1
      PROVE  h[<<s, k>>] = EncodeAt(m, h, s, k)
  <2>1. Measure(s, k) = n \/ Measure(s, k) < n
    <3> DEFINE x == Measure(s, k)
    <3>1. x \in Int /\ x < n + 1  BY <1>6, MeasureType
    <3> HIDE DEF x
    <3>2. x = n \/ x < n  BY <3>1
    <3> QED BY <3>2 DEF x
  <2>2. SameBefore(T, h, g, Measure(s, k))
    <3> SUFFICES ASSUME NEW u \in Nested(T), NEW j \in 1..18, Measure(u, j) < Measure(s, k)
                 PROVE  h[<<u, j>>] = g[<<u, j>>]
      BY DEF SameBefore
    <3> DEFINE x == Measure(s, k)
               y == Measure(u, j)
    <3>1. x \in Int /\ y \in Int  BY MeasureType
    <3>2. x < n + 1 /\ y < x  BY <1>6
    <3> HIDE DEF x, y
    <3>3. y < n  BY <3>1, <3>2
    <3> QED BY <3>3, <1>4 DEF SameBefore, y
  <2>3. EncodeAt(m, h, s, k) = EncodeAt(m, g, s, k)  BY <2>2, EncodeSame
  <2>4. CASE Measure(s, k) = n  BY <2>3, <2>4, <1>1
  <2>5. CASE Measure(s, k) < n  BY <2>5, <1>4, <2>3 DEF Solved, SameBefore
  <2> QED BY <2>1, <2>4, <2>5
<1>7. Solved(T, m, h, n + 1)  BY <1>3, <1>5, <1>6 DEF Solved
<1> QED BY <1>7

\* so there is one with those of all places
LEMMA SolutionExists ==
  ASSUME NEW T \in DOMAIN MaxSize, NEW m, IsMessageOf(T, m)
  PROVE  \E g : Solved(T, m, g, 98)
<1> DEFINE S == {n \in Nat : \E g : Solved(T, m, g, n)}
<1>1. S \in SUBSET Nat  OBVIOUS
<1>2. 0 \in S
  <2> DEFINE g == [at \in Places(T) |-> <<>>]
  <2>1. g \in [Places(T) -> Seq(Byte)]  OBVIOUS
  <2> HIDE DEF g
  <2>2. \A s \in Nested(T) : \A k \in 1..18 : ~(Measure(s, k) < 0)  BY MeasureType
  <2>3. Solved(T, m, g, 0)  BY <2>1, <2>2 DEF Solved, Sized
  <2> QED BY <2>3
<1>3. \A n \in Nat : n \in S => n + 1 \in S  BY SolveNext
<1> HIDE DEF S
<1>4. S = Nat  BY <1>1, <1>2, <1>3, Induction
<1>5. 98 \in S  BY <1>4
<1> QED BY <1>5 DEF S

\* The recursive definition of the encoder has a solution: it is what its equation says
LEMMA EncodeEquation ==
  ASSUME NEW T \in DOMAIN MaxSize, NEW m, IsMessageOf(T, m)
  PROVE  \A s \in Nested(T) : \A k \in 1..18 :
           pb_encode(T, m)[<<s, k>>] = EncodeAt(m, pb_encode(T, m), s, k)
<1> DEFINE IsEncode(f) ==
      f = [at \in Nested(T) \X (1..18) |->
             LET msg == at[1][2]
                 tag == at[2]
                 field == Message[msg][tag]
                 path == Append(at[1][1], field[1])
             IN  IF tag > Len(Message[msg]) THEN <<>>
                 ELSE encode_field(field[2], tag, m[path], f[<<<<path, field[2]>>, 1>>])
                      \o f[<<at[1], tag + 1>>]]
           IsAt(f) == f = [at \in Places(T) |-> EncodeAt(m, f, at[1], at[2])]
<1>1. \A f : IsEncode(f) <=> IsAt(f)
  <2> SUFFICES ASSUME NEW f PROVE IsEncode(f) <=> IsAt(f)
    OBVIOUS
  <2>1. \A at \in Places(T) :
          EncodeAt(m, f, at[1], at[2])
            = LET msg == at[1][2]
                  tag == at[2]
                  field == Message[msg][tag]
                  path == Append(at[1][1], field[1])
              IN  IF tag > Len(Message[msg]) THEN <<>>
                  ELSE encode_field(field[2], tag, m[path], f[<<<<path, field[2]>>, 1>>])
                       \o f[<<at[1], tag + 1>>]
    BY DEF EncodeAt, FieldTo
  <2> QED BY <2>1, Zenon DEF Places
<1>2. pb_encode(T, m) = CHOOSE f : IsEncode(f)  BY Zenon DEF pb_encode
<1> HIDE DEF IsEncode
<1>3. \E f : IsAt(f)
  <2>1. PICK g : Solved(T, m, g, 98)  BY SolutionExists
  <2>2. g \in [Places(T) -> Seq(Byte)]  BY <2>1 DEF Solved
  <2>3. ASSUME NEW at \in Places(T) PROVE g[at] = EncodeAt(m, g, at[1], at[2])
    <3>1. at[1] \in Nested(T) /\ at[2] \in 1..18 /\ at = <<at[1], at[2]>>  BY DEF Places
    <3>2. Measure(at[1], at[2]) < 98  BY <3>1, MeasureType
    <3> QED BY <3>1, <3>2, <2>1 DEF Solved
  <2>4. IsAt(g)  BY <2>2, <2>3
  <2> QED BY <2>4
<1>4. IsEncode(pb_encode(T, m))  BY <1>1, <1>2, <1>3, Zenon
<1> DEFINE E == pb_encode(T, m)
<1>5. IsAt(E)  BY <1>1, <1>4
<1> HIDE DEF E
<1>6. ASSUME NEW s \in Nested(T), NEW k \in 1..18 PROVE E[<<s, k>>] = EncodeAt(m, E, s, k)
  BY <1>5 DEF Places
<1> QED BY <1>6 DEF E

\* What it writes is a sequence of bytes, of a bounded number
LEMMA EncodeSizedAll ==
  ASSUME NEW T \in DOMAIN MaxSize, NEW m, IsMessageOf(T, m)
  PROVE  Sized(T, pb_encode(T, m), 98)
<1> DEFINE E == pb_encode(T, m)
           S == {n \in Nat : Sized(T, E, n)}
<1>0. \A s \in Nested(T) : \A k \in 1..18 : E[<<s, k>>] = EncodeAt(m, E, s, k)
  BY EncodeEquation
<1> HIDE DEF E
<1>1. S \in SUBSET Nat  OBVIOUS
<1>2. 0 \in S
  <2>1. \A s \in Nested(T) : \A k \in 1..18 : ~(Measure(s, k) < 0)  BY MeasureType
  <2> QED BY <2>1 DEF Sized
<1>3. ASSUME NEW n \in Nat, n \in S PROVE n + 1 \in S
  <2>1. Sized(T, E, n)  BY <1>3
  <2>2. ASSUME NEW s \in Nested(T), NEW k \in 1..18, Measure(s, k) < n + 1
        PROVE  E[<<s, k>>] \in Seq(Byte) /\ Len(E[<<s, k>>]) <= (18 - k) * Room(Depth(s[2]))
    <3>1. Sized(T, E, Measure(s, k))
      <4>1. Measure(s, k) \in Nat  BY MeasureType
      <4>2. \A u \in Nested(T) : \A j \in 1..18 : Measure(u, j) < Measure(s, k) => Measure(u,
          j) < n
        BY <2>2, <4>1, MeasureType
      <4> QED BY <2>1, <4>2 DEF Sized
    <3>2. /\ EncodeAt(m, E, s, k) \in Seq(Byte)
          /\ Len(EncodeAt(m, E, s, k)) <= (18 - k) * Room(Depth(s[2]))
      BY <3>1, EncodeSized
    <3> QED BY <3>2, <1>0
  <2>3. Sized(T, E, n + 1)  BY <2>2 DEF Sized
  <2> QED BY <2>3
<1> HIDE DEF S
<1>4. S = Nat  BY <1>1, <1>2, <1>3, Induction
<1>5. 98 \in S  BY <1>4
<1> QED BY <1>5 DEF S, E

\* A value of the type
LEMMA GivesGot ==
  ASSUME NEW V, NEW v \in V, NEW d \in Seq(Byte)
  PROVE  Gives(Got(v, d), V)
BY GotFields DEF Gives

\* A failure
LEMMA GivesFailed ==
  ASSUME NEW V, NEW s
  PROVE  Gives(Failed(s), V)
BY DEF Gives, Failed

\* pb_read gives as many bytes as it is asked for
LEMMA ReadTyped ==
  ASSUME NEW s \in Seq(Byte), NEW n \in Nat
  PROVE  /\ Gives(pb_read(s, n), Seq(Byte))
         /\ pb_read(s, n).ok => Len(pb_read(s, n).val) = n
<1>0. Len(s) \in Nat  OBVIOUS
<1>1. CASE Len(s) < n  BY <1>1 DEF pb_read, Failed, Gives
<1>2. CASE ~(Len(s) < n)
  <2>1. n \in 0..Len(s)  BY <1>0, <1>2
  <2>2. Drop(s, n) \in Seq(Byte)  BY <2>1, DropProperties
  <2> DEFINE t == SubSeq(s, 1, n)
  <2>3. t \in Seq(Byte) /\ Len(t) = n  BY <2>1
  <2>4. pb_read(s, n) = Got(t, Drop(s, n))  BY <1>2 DEF pb_read
  <2> HIDE DEF t
  <2> QED BY <2>2, <2>3, <2>4, GotFields DEF Gives
<1> QED BY <1>1, <1>2

\* What is left behind a varint
LEMMA RestOfVarint ==
  ASSUME NEW s \in Seq(Byte)
  PROVE  VarintLen(s) \in Nat /\ Drop(s, VarintLen(s)) \in Seq(Byte)
<1>1. VarintLen(s) \in Nat /\ VarintLen(s) <= Len(s)  BY VarintLenProperties
<1>2. VarintLen(s) \in 0..Len(s)  BY <1>1
<1> QED BY <1>1, <1>2, DropProperties

\* The groups of a varint are cut at the width
LEMMA GroupsTyped ==
  ASSUME NEW s, NEW n, NEW w
  PROVE  Groups(s, n, w) \in SUBSET (0..(w - 1))
BY DEF Groups, Shl, Cast

\* The readers of varints
LEMMA VarintTyped ==
  ASSUME NEW s \in Seq(Byte)
  PROVE  /\ Gives(pb_decode_varint32(s), SUBSET (0..31))
         /\ Gives(pb_decode_varint(s), SUBSET (0..63))
         /\ Gives(pb_skip_varint(s), {{}})
<1> DEFINE n == VarintLen(s)
           d == Drop(s, n)
           k == IF n < 5 THEN n ELSE 5
           v == Groups(s, k, 32)
           w == Groups(s, n, 64)
<1>1. d \in Seq(Byte)  BY RestOfVarint
<1>2. v \in SUBSET (0..31) /\ w \in SUBSET (0..63)
  <2>1. v \in SUBSET (0..(32 - 1)) /\ w \in SUBSET (0..(64 - 1))  BY GroupsTyped
  <2>2. 0..(32 - 1) = 0..31 /\ 0..(64 - 1) = 0..63  OBVIOUS
  <2> HIDE DEF v, w
  <2> QED BY <2>1, <2>2
<1>3. pb_decode_varint32(s) = Got(v, d) \/ pb_decode_varint32(s) = Failed(s)
  BY Zenon DEF pb_decode_varint32
<1>4. pb_decode_varint(s) = Got(w, d) \/ pb_decode_varint(s) = Failed(s)
  BY Zenon DEF pb_decode_varint
<1>5. pb_skip_varint(s) = Got({}, d) \/ pb_skip_varint(s) = Failed(s)
  BY Zenon DEF pb_skip_varint
<1> HIDE DEF v, w, d
<1>6. ~Failed(s).ok  BY DEF Failed
<1>7. Gives(pb_decode_varint32(s), SUBSET (0..31))  BY <1>1, <1>2, GivesGot, GivesFailed, <1>3
<1>8. Gives(pb_decode_varint(s), SUBSET (0..63))  BY <1>1, <1>2, GivesGot, GivesFailed, <1>4
<1>9. Gives(pb_skip_varint(s), {{}})  BY <1>1, <1>5, <1>6, GotFields DEF Gives
<1> QED BY <1>7, <1>8, <1>9

\* The readers of strings
LEMMA StringTyped ==
  ASSUME NEW s \in Seq(Byte)
  PROVE  Gives(pb_string(s), Seq(Byte)) /\ Gives(pb_skip_string(s), {{}})
<1>0. ~Failed(s).ok  BY DEF Failed
<1> DEFINE size == pb_decode_varint32(s)
           x == pb_string(s)
<1>1. size.ok => size.rest \in Seq(Byte)  BY VarintTyped DEF Gives
<1>2. x = IF size.ok THEN pb_read(size.rest, Number(size.val)) ELSE Failed(s)  BY DEF pb_string
<1> HIDE DEF size, x
<1>3. Number(size.val) \in Nat  BY NumberType
<1>4. Gives(x, Seq(Byte))  BY <1>1, <1>3, ReadTyped, <1>2, <1>0 DEF Gives
<1>5. pb_skip_string(s) = IF x.ok THEN Got({}, x.rest) ELSE Failed(s)  BY DEF pb_skip_string, x
<1>6. Gives(pb_skip_string(s), {{}})  BY <1>4, <1>5, GotFields, <1>0 DEF Gives
<1> QED BY <1>4, <1>6 DEF x

\* The reader of tags
LEMMA TagTyped ==
  ASSUME NEW s \in Seq(Byte)
  PROVE  pb_decode_tag(s).ok => pb_decode_tag(s).rest \in Seq(Byte)
<1>1. pb_decode_tag(s).ok = pb_decode_varint32(s).ok
      /\ pb_decode_tag(s).rest = pb_decode_varint32(s).rest
  BY DEF pb_decode_tag
<1> QED BY <1>1, VarintTyped DEF Gives

\* The skipping of a field
LEMMA SkipTyped ==
  ASSUME NEW s \in Seq(Byte), NEW wire
  PROVE  pb_skip_field(s, wire).ok => pb_skip_field(s, wire).rest \in Seq(Byte)
<1> DEFINE x == pb_skip_field(s, wire)
<1>1. CASE wire = 0
  BY <1>1, VarintTyped DEF pb_skip_field, WT_VARINT, WT_64BIT, WT_STRING, WT_32BIT, Gives
<1>2. CASE wire = 1
  BY <1>2, ReadTyped DEF pb_skip_field, WT_VARINT, WT_64BIT, WT_STRING, WT_32BIT, Gives
<1>3. CASE wire = 2
  BY <1>3, StringTyped DEF pb_skip_field, WT_VARINT, WT_64BIT, WT_STRING, WT_32BIT, Gives
<1>4. CASE wire = 5
  BY <1>4, ReadTyped DEF pb_skip_field, WT_VARINT, WT_64BIT, WT_STRING, WT_32BIT, Gives
<1>5. CASE wire \notin {0, 1, 2, 5}
  BY <1>5 DEF pb_skip_field, WT_VARINT, WT_64BIT, WT_STRING, WT_32BIT, Failed
<1> QED BY <1>1, <1>2, <1>3, <1>4, <1>5

\* The reader of each type
LEMMA ValueTyped ==
  ASSUME NEW type \in Types, NEW s \in Seq(Byte)
  PROVE  Gives(ValueRead(type, s), IF IsMessage(type) THEN Seq(Byte) ELSE FieldValues(type))
<1>0. ~Failed(s).ok  BY DEF Failed
<1>1. CASE type = "BOOL"
  <2> DEFINE x == pb_decode_varint32(s)
             v == IF x.val = {} THEN {} ELSE {0}
  <2>1. ValueRead(type, s) = IF x.ok THEN Got(v, x.rest) ELSE Failed(s)
    BY <1>1 DEF ValueRead, pb_decode_bool
  <2>2. x.ok => x.rest \in Seq(Byte)  BY VarintTyped DEF Gives
  <2>3. v \in FieldValues(type) /\ ~IsMessage(type)
    BY <1>1, ValuesOfBasic, BasicDepth DEF Basic
  <2> HIDE DEF v, x
  <2> QED BY <1>0, <2>1, <2>2, <2>3, GotFields DEF Gives
<1>2. CASE type \in {"UINT32", "UENUM"}
  <2> DEFINE x == pb_decode_varint(s)
             w == Width(type)
  <2>1. ValueRead(type, s) = IF x.ok /\ Cast(x.val, w) = x.val THEN x ELSE Failed(s)
    BY <1>2 DEF ValueRead, pb_dec_uvarint
  <2>2. x.ok => x.rest \in Seq(Byte)  BY VarintTyped DEF Gives
  <2>3. ~IsMessage(type)  BY <1>2, BasicDepth DEF Basic
  <2>4. FieldValues(type) = SUBSET (0..(w - 1))  BY <1>2, <2>3 DEF FieldValues
  <2> HIDE DEF w, x
  <2>5. Cast(x.val, w) \in SUBSET (0..(w - 1))  BY DEF Cast
  <2> QED BY <1>0, <2>1, <2>2, <2>3, <2>4, <2>5 DEF Gives
<1>3. CASE type = "INT32"
  <2> DEFINE x == pb_decode_varint(s)
             v == Cast(x.val, 32)
  <2>1. ValueRead(type, s) = IF x.ok THEN Got(v, x.rest) ELSE Failed(s)
    BY <1>3 DEF ValueRead, pb_dec_varint
  <2>2. x.ok => x.rest \in Seq(Byte)  BY VarintTyped DEF Gives
  <2>3. v \in SUBSET (0..31)  BY DEF Cast
  <2> HIDE DEF v, x
  <2>4. FieldValues(type) = SUBSET (0..31) /\ ~IsMessage(type)
    BY <1>3, ValuesOfBasic, BasicDepth DEF Basic
  <2>5. v \in FieldValues(type)  BY <2>3, <2>4
  <2>6. ~IsMessage(type)  BY <2>4
  <2> QED BY <1>0, <2>1, <2>2, <2>5, <2>6, GotFields DEF Gives
<1>4. CASE type = "FLOAT"
  <2> DEFINE x == pb_read(s, 4)
             v == UNION {Shl(x.val[i], 8 * (i - 1), 32) : i \in 1..4}
  <2>1. ValueRead(type, s) = IF x.ok THEN Got(v, x.rest) ELSE Failed(s)
    BY <1>4 DEF ValueRead, pb_decode_fixed32
  <2>2. x.ok => x.rest \in Seq(Byte)  BY ReadTyped DEF Gives
  <2>3. v \in SUBSET (0..31)  BY DEF Shl, Cast
  <2> HIDE DEF v, x
  <2>4. FieldValues(type) = SUBSET (0..31) /\ ~IsMessage(type)
    BY <1>4, ValuesOfBasic, BasicDepth DEF Basic
  <2>5. v \in FieldValues(type)  BY <2>3, <2>4
  <2>6. ~IsMessage(type)  BY <2>4
  <2> QED BY <1>0, <2>1, <2>2, <2>5, <2>6, GotFields DEF Gives
<1>5. CASE type = "BYTES"
  <2> DEFINE size == pb_decode_varint32(s)
             n == Number(size.val)
             x == pb_read(size.rest, n)
  <2>1. ValueRead(type, s) = IF size.ok /\ n + 2 <= data_size THEN x ELSE Failed(s)
    BY <1>5 DEF ValueRead, pb_dec_bytes
  <2>2. size.ok => size.rest \in Seq(Byte)  BY VarintTyped DEF Gives
  <2>3. n \in Nat  BY NumberType
  <2> HIDE DEF size, n
  <2>4. size.ok => Gives(x, Seq(Byte)) /\ (x.ok => Len(x.val) = n)  BY <2>2, <2>3, ReadTyped
  <2> HIDE DEF x
  <2>5. FieldValues(type) = Payloads /\ ~IsMessage(type)
    BY <1>5, ValuesOfBasic, BasicDepth DEF Basic
  <2>6. CASE size.ok /\ n + 2 <= data_size
    BY <2>3, <2>6, <2>4, <2>1, <2>5 DEF data_size, Gives, Payloads
  <2>7. CASE ~(size.ok /\ n + 2 <= data_size)  BY <1>0, <2>1, <2>7 DEF Gives
  <2> QED BY <2>6, <2>7
<1>6. CASE IsMessage(type)
  BY <1>6, BasicNotMessage, StringTyped DEF ValueRead, pb_make_string_substream
<1> QED BY <1>1, <1>2, <1>3, <1>4, <1>5, <1>6, TypeCases

\* A call with other bytes left
LEMMA FrameFields ==
  ASSUME NEW x \in Frame, NEW r \in Seq(Byte)
  PROVE  /\ x.type \in DOMAIN Message /\ x.prefix \in Paths /\ x.left \in Seq(Byte)
         /\ [x EXCEPT !.left = r] \in Frame
         /\ [x EXCEPT !.left = r].type = x.type
         /\ [x EXCEPT !.left = r].prefix = x.prefix
         /\ [x EXCEPT !.left = r].left = r
BY DEF Frame

\* They are calls of the same messages
LEMMA FramesContinue ==
  ASSUME NEW T, NEW frs, FramesOf(frs, T), NEW r \in Seq(Byte),
         NEW g, ContinuesTo(g, frs, r)
  PROVE  /\ FramesOf(g, T) /\ Len(g) = Len(frs)
         /\ \A i \in 1..Len(frs) :
              /\ g[i].type = frs[i].type /\ g[i].prefix = frs[i].prefix
              /\ g[i].left = IF i = Len(frs) THEN r ELSE frs[i].left
<1> DEFINE n == Len(frs)
           x == [frs[n] EXCEPT !.left = r]
<1>1. frs \in Seq(Frame) /\ n \in Nat /\ n >= 1 /\ n \in 1..n  BY DEF FramesOf
<1>2. frs[n] \in Frame  BY <1>1
<1>3. x \in Frame /\ x.type = frs[n].type /\ x.prefix = frs[n].prefix /\ x.left = r
  BY <1>2, FrameFields
<1>4. g = [frs EXCEPT ![n] = x]  BY DEF ContinuesTo
<1> HIDE DEF x, n
<1>5. g \in Seq(Frame) /\ Len(g) = Len(frs)  BY <1>1, <1>3, <1>4 DEF n
<1>6. \A i \in 1..n : g[i] = IF i = n THEN x ELSE frs[i]  BY <1>1, <1>4 DEF n
<1>7. \A i \in 1..n : /\ g[i].type = frs[i].type /\ g[i].prefix = frs[i].prefix
                      /\ g[i].left = IF i = n THEN r ELSE frs[i].left
  <2> SUFFICES ASSUME NEW i \in 1..n
               PROVE  /\ g[i].type = frs[i].type /\ g[i].prefix = frs[i].prefix
                      /\ g[i].left = IF i = n THEN r ELSE frs[i].left
    OBVIOUS
  <2>1. CASE i = n  BY <1>6, <2>1, <1>3
  <2>2. CASE i # n  BY <1>6, <2>2
  <2> QED BY <2>1, <2>2
<1>8. \A i \in 1..n : PlaceIn(g[i]) = PlaceIn(frs[i])  BY <1>7 DEF PlaceIn
<1>9. \A i \in 1..n : PlaceIn(g[i]) \in Nested(T)  BY <1>8 DEF FramesOf, n
<1>10. ASSUME NEW i \in 2..n PROVE IsFieldOf(PlaceIn(g[i]), PlaceIn(g[i - 1]))
  BY <1>1, <1>8 DEF FramesOf, n
<1>11. g[1].type = T /\ g[1].prefix = <<>>  BY <1>1, <1>7 DEF FramesOf
<1>12. FramesOf(g, T)  BY <1>1, <1>5, <1>9, <1>10, <1>11 DEF FramesOf, n
<1> QED BY <1>5, <1>7, <1>12 DEF n

\* for a field of the innermost call
LEMMA FramesEnter ==
  ASSUME NEW T, NEW frs, FramesOf(frs, T), NEW x \in Frame,
         PlaceIn(x) \in Nested(T), IsFieldOf(PlaceIn(x), PlaceIn(frs[Len(frs)])),
         NEW g, Enters(g, frs, x)
  PROVE  /\ FramesOf(g, T) /\ Len(g) = Len(frs) + 1
         /\ \A i \in 1..Len(frs) : g[i] = frs[i]
         /\ g[Len(frs) + 1] = x
<1> DEFINE n == Len(frs)
<1>1. frs \in Seq(Frame) /\ n \in Nat /\ n >= 1  BY DEF FramesOf
<1>2. g \in Seq(Frame) /\ Len(g) = n + 1 /\ g[n + 1] = x /\ \A i \in 1..n : g[i] = frs[i]
  BY <1>1, AppendOf DEF Enters
<1> HIDE DEF n
<1>3. ASSUME NEW i \in 1..(n + 1) PROVE PlaceIn(g[i]) \in Nested(T)
  BY <1>1, <1>2 DEF FramesOf, n
<1>4. ASSUME NEW i \in 2..(n + 1) PROVE IsFieldOf(PlaceIn(g[i]), PlaceIn(g[i - 1]))
  BY <1>1, <1>2 DEF n, FramesOf
<1>5. g[1] = frs[1]  BY <1>1, <1>2
<1>6. FramesOf(g, T)  BY <1>1, <1>2, <1>3, <1>4, <1>5 DEF FramesOf
<1> QED BY <1>2, <1>6 DEF n

\* The calls without the innermost
LEMMA FramesLeave ==
  ASSUME NEW T, NEW frs, FramesOf(frs, T), Len(frs) > 1, NEW g, g = Front(frs)
  PROVE  /\ FramesOf(g, T) /\ Len(g) = Len(frs) - 1
         /\ \A i \in 1..(Len(frs) - 1) : g[i] = frs[i]
<1> DEFINE n == Len(frs)
<1>1. frs \in Seq(Frame) /\ n \in Nat /\ n > 1  BY DEF FramesOf
<1>2. g = SubSeq(frs, 1, n - 1)  BY DEF Front
<1>3. g \in Seq(Frame) /\ Len(g) = n - 1 /\ \A i \in 1..(n - 1) : g[i] = frs[i]  BY <1>1, <1>2
<1> HIDE DEF n
<1>4. ASSUME NEW i \in 1..(n - 1) PROVE PlaceIn(g[i]) \in Nested(T)
  BY <1>1, <1>3 DEF FramesOf, n
<1>5. ASSUME NEW i \in 2..(n - 1) PROVE IsFieldOf(PlaceIn(g[i]), PlaceIn(g[i - 1]))
  BY <1>1, <1>3, SMTT(30) DEF FramesOf, n
<1>6. g[1] = frs[1] /\ n - 1 >= 1  BY <1>1, <1>3
<1>7. FramesOf(g, T)  BY <1>1, <1>3, <1>4, <1>5, <1>6 DEF FramesOf
<1> QED BY <1>3, <1>7 DEF n

\* The field that is chosen by its path
LEMMA TypeOfPath ==
  ASSUME NEW T \in DOMAIN MaxSize, NEW f \in Fields[T]
  PROVE  (CHOOSE g \in Fields[T] : g[1] = f[1]) = f
<1> DEFINE c == CHOOSE g \in Fields[T] : g[1] = f[1]
<1>1. c \in Fields[T] /\ c[1] = f[1]  OBVIOUS
<1> HIDE DEF c
<1>2. c = f  BY <1>1, PathUnique
<1> QED BY <1>2 DEF c

\* The default of a type is a value of it, and the one left off the wire
LEMMA DefaultTyped ==
  ASSUME NEW type \in Types
  PROVE  Default(type) \in FieldValues(type)
         /\ pb_check_proto3_default_value(type, Default(type))
<1>1. CASE type = "BYTES"
  <2>1. Default(type) = <<>>  BY <1>1 DEF Default
  <2>2. <<>> \in Payloads  BY DEF Payloads, data_size
  <2> QED BY <1>1, <2>1, <2>2, ValuesOfBasic DEF pb_check_proto3_default_value
<1>2. CASE type # "BYTES"
  <2>1. Default(type) = {}  BY <1>2 DEF Default
  <2>2. {} \in FieldValues(type)  BY <1>2 DEF FieldValues
  <2> QED BY <1>2, <2>1, <2>2 DEF pb_check_proto3_default_value
<1> QED BY <1>1, <1>2

\* The message of defaults
LEMMA DefaultsOf ==
  ASSUME NEW T \in DOMAIN MaxSize
  PROVE  /\ DestOf(Defaults[T], T)
         /\ DOMAIN Defaults[T] = PathsOf(T)
         /\ \A f \in Fields[T] : Defaults[T][f[1]] = Default(f[2])
<1> DEFINE D == [path \in PathsOf(T) |->
                   Default((CHOOSE f \in Fields[T] : f[1] = path)[2])]
<1>1. Defaults[T] = D  BY DEF Defaults, PathsOf
<1>2. ASSUME NEW f \in Fields[T] PROVE D[f[1]] = Default(f[2])  BY TypeOfPath DEF PathsOf
<1>3. DOMAIN D = PathsOf(T) /\ D = [p \in PathsOf(T) |-> D[p]]  OBVIOUS
<1> HIDE DEF D
<1>4. \A f \in Fields[T] : D[f[1]] \in FieldValues(f[2])  BY <1>2, FieldTyped, DefaultTyped
<1> QED BY <1>1, <1>2, <1>3, <1>4 DEF DestOf

\* A message with another value of a field
LEMMA DestSet ==
  ASSUME NEW T \in DOMAIN MaxSize, NEW d, DestOf(d, T), NEW f \in Fields[T],
         NEW v \in FieldValues(f[2]), NEW e, e = [d EXCEPT ![f[1]] = v]
  PROVE  /\ DestOf(e, T) /\ e[f[1]] = v
         /\ \A p \in PathsOf(T) : p # f[1] => e[p] = d[p]
<1>1. DOMAIN d = PathsOf(T)  BY DEF DestOf
<1>2. f[1] \in PathsOf(T)  BY DEF PathsOf
<1>3. e[f[1]] = v /\ \A p \in PathsOf(T) : p # f[1] => e[p] = d[p]  BY <1>1, <1>2
<1>4. e = [p \in PathsOf(T) |-> e[p]]  BY <1>1
<1> DEFINE V(x) == e[x[1]] \in FieldValues(x[2])
<1>5. ASSUME NEW g \in Fields[T] PROVE V(g)  BY PathUnique, <1>3 DEF PathsOf, DestOf
<1>6. DestOf(e, T)  BY <1>4, <1>5, Zenon DEF DestOf
<1> QED BY <1>3, <1>6

\* The field that the innermost call is at
LEMMA Current ==
  ASSUME NEW T \in DOMAIN MaxSize, FramesOf(frames, T)
  PROVE  /\ PlaceIn(Inner) \in Nested(T) /\ Inner \in Frame /\ Inner = frames[Len(frames)]
         /\ PlaceIn(Inner)[2] = Inner.type /\ PlaceIn(Inner)[1] = Inner.prefix
         /\ Inner.left \in Seq(Byte) /\ Len(frames) \in Nat /\ Len(frames) >= 1
         /\ Inner.type \in DOMAIN Message
         /\ Known => /\ Tag.val \in 1..Len(Message[Inner.type])
                     /\ FieldTo(PlaceIn(Inner), Tag.val) = <<FieldPath, FieldType>>
                     /\ <<FieldPath, FieldType>> \in Fields[T]
                     /\ IsMessage(FieldType) => <<FieldPath, FieldType>> \in Nested(T)
                     /\ FieldType \in Types /\ FieldPath \in Paths
<1>1. frames \in Seq(Frame) /\ Len(frames) \in Nat /\ Len(frames) >= 1  BY DEF FramesOf
<1>2. Inner = frames[Len(frames)] /\ Inner \in Frame  BY <1>1 DEF Inner, Last
<1>3. PlaceIn(Inner) \in Nested(T)  BY <1>1, <1>2 DEF FramesOf
<1>4. PlaceIn(Inner)[2] = Inner.type /\ PlaceIn(Inner)[1] = Inner.prefix  BY DEF PlaceIn
<1>5. Inner.type \in DOMAIN Message /\ Inner.left \in Seq(Byte)  BY <1>2 DEF Frame
<1>6. ASSUME Known
      PROVE  /\ Tag.val \in 1..Len(Message[Inner.type])
             /\ FieldTo(PlaceIn(Inner), Tag.val) = <<FieldPath, FieldType>>
             /\ <<FieldPath, FieldType>> \in Fields[T]
             /\ IsMessage(FieldType) => <<FieldPath, FieldType>> \in Nested(T)
             /\ FieldType \in Types /\ FieldPath \in Paths
  <2>1. Tag.val \in 1..Len(Message[Inner.type])  BY <1>5, <1>6, LengthOf DEF Known
  <2> DEFINE s == PlaceIn(Inner)
             k == Tag.val
  <2>2. FieldTo(s, k) = <<FieldPath, FieldType>>  BY <1>4 DEF FieldTo, FieldPath, FieldType
  <2>3. s \in Nested(T) /\ k \in 1..Len(Message[s[2]]) /\ Message[s[2]][k][2] = FieldType
    BY <2>1, <1>3, <1>4 DEF FieldType
  <2> HIDE DEF s, k
  <2>4. FieldTo(s, k) \in Fields[T] /\ (IsMessage(FieldType) => FieldTo(s, k) \in Nested(T))
    BY <2>3, FieldIn
  <2>5. FieldTo(s, k)[2] \in Types /\ FieldTo(s, k)[1] \in Paths  BY <2>4, FieldTyped
  <2>6. FieldTo(s, k)[2] = FieldType /\ FieldTo(s, k)[1] = FieldPath  BY <2>2
  <2> QED BY <2>1, <2>2, <2>4, <2>5, <2>6 DEF s, k
<1> QED BY <1>1, <1>2, <1>3, <1>4, <1>5, <1>6

\* What a decoder step may read
LEMMA FieldRead ==
  ASSUME NEW T \in DOMAIN MaxSize, FramesOf(frames, T), Known, Tag.ok,
         decode_basic_field(Tag.rest, FieldType).ok
  PROVE  LET x == decode_basic_field(Tag.rest, FieldType)
         IN  /\ x = ValueRead(FieldType, Tag.rest) /\ Tag.wire = wire_type_of(FieldType)
             /\ x.rest \in Seq(Byte)
             /\ IsMessage(FieldType) => x.val \in Seq(Byte)
             /\ ~IsMessage(FieldType) => x.val \in FieldValues(FieldType)
<1> DEFINE x == decode_basic_field(Tag.rest, FieldType)
           y == ValueRead(FieldType, Tag.rest)
<1>1. FieldType \in Types /\ Inner.left \in Seq(Byte)  BY Current
<1>2. Tag.rest \in Seq(Byte)  BY <1>1, TagTyped DEF Tag
<1>3. x = IF Tag.wire # wire_type_of(FieldType) THEN Failed(Tag.rest) ELSE y
  BY Zenon DEF decode_basic_field, ValueRead
<1>4. Gives(y, IF IsMessage(FieldType) THEN Seq(Byte) ELSE FieldValues(FieldType))
  BY <1>1, <1>2, ValueTyped
<1>5. ~Failed(Tag.rest).ok  BY DEF Failed
<1> HIDE DEF y
<1>6. x = y /\ Tag.wire = wire_type_of(FieldType)  BY <1>3, <1>5
<1> QED BY <1>4, <1>6 DEF Gives, y

\* It is a place
LEMMA TopIn ==
  ASSUME NEW T \in DOMAIN MaxSize
  PROVE  Top(T) \in Nested(T) /\ Top(T)[1] = <<>> /\ Top(T)[2] = T
BY DEF Top, Nested

\* They are bytes, of a number that fits in 28 bits
LEMMA BytesTyped ==
  ASSUME NEW T \in DOMAIN MaxSize, NEW m, IsMessageOf(T, m), NEW s \in Nested(T), NEW k \in 1..18
  PROVE  /\ Bytes(T, m, s, k) \in Seq(Byte)
         /\ Len(Bytes(T, m, s, k)) \in Nat /\ Len(Bytes(T, m, s, k)) < Huge
<1> DEFINE b == Bytes(T, m, s, k)
           d == Depth(s[2])
           n == Len(b)
           h == (18 - k) * Room(d)
<1>1. Measure(s, k) < 98  BY MeasureType
<1>2. b \in Seq(Byte) /\ n <= h  BY <1>1, EncodeSizedAll DEF Sized, Bytes
<1>3. d \in 1..4  BY NestedLevel, LengthOf
<1>4. h < Huge /\ h >= 0  BY <1>3, RoomGrows
<1>5. h \in Nat /\ Huge \in Nat
  <2>1. Room(d) \in Nat  BY <1>3, RoomGrows
  <2>2. 18 - k \in Nat  OBVIOUS
  <2>3. h \in Nat
    <3> DEFINE x == Room(d)
               y == 18 - k
    <3> HIDE DEF x, y
    <3>1. x \in Nat /\ y \in Nat => y * x \in Nat  OBVIOUS
    <3> QED BY <2>1, <2>2, <3>1 DEF x, y
  <2>4. Huge \in Nat  BY DEF Huge
  <2> QED BY <2>3, <2>4
<1>6. n \in Nat  BY <1>2
<1> HIDE DEF b, h, n
<1>7. n < Huge  BY <1>2, <1>4, <1>5, <1>6
<1> QED BY <1>2, <1>6, <1>7 DEF b, n

\* A message that is sent
LEMMA SentMessage ==
  ASSUME NEW msg \in Messages
  PROVE  /\ msg.type \in DOMAIN MaxSize /\ IsMessageOf(msg.type, msg.sent)
         /\ msg.bytes = Bytes(msg.type, msg.sent, Top(msg.type), 1)
         /\ msg.bytes \in Seq(Byte)
<1>1. msg.type \in DOMAIN MaxSize /\ IsMessageOf(msg.type, msg.sent)  BY MessagesAssumption
<1>2. ASSUME NEW kind, NEW type, NEW m, NEW struct, msg = Sent(kind, type, m, struct)
      PROVE  msg.bytes = Bytes(msg.type, msg.sent, Top(msg.type), 1)
  BY <1>2 DEF Sent, Encoded, Bytes, Top
<1>3. \E kind, type, m, struct : msg = Sent(kind, type, m, struct)  BY Zenon DEF Messages
<1>4. msg.bytes = Bytes(msg.type, msg.sent, Top(msg.type), 1)  BY <1>2, <1>3, Zenon
<1>5. 1 \in 1..18  OBVIOUS
<1>6. msg.bytes \in Seq(Byte)  BY <1>1, <1>4, <1>5, TopIn, BytesTyped
<1> QED BY <1>1, <1>4, <1>6

\* The two parts of bytes that are cut
LEMMA CutTyped ==
  ASSUME NEW b \in Seq(Byte), NEW n \in 0..Len(b)
  PROVE  SubSeq(b, 1, n) \in Seq(Byte) /\ Drop(b, n) \in Seq(Byte)
<1>1. SubSeq(b, 1, n) \in Seq(Byte)  OBVIOUS
<1> QED BY <1>1, DropProperties

\* They are bytes
LEMMA FlipTyped ==
  ASSUME NEW b \in Seq(Byte), NEW n \in 1..Len(b), NEW i \in 0..7, NEW c, Flipped(c, b, n, i)
  PROVE  c \in Seq(Byte)
<1> DEFINE x == SymDiff(b[n], {i})
<1>1. b[n] \in Byte  OBVIOUS
<1>2. x \in Byte  BY <1>1 DEF SymDiff, Byte
<1>3. c = [b EXCEPT ![n] = x]  BY DEF Flipped
<1> HIDE DEF x
<1> QED BY <1>2, <1>3

\* Whatever happens to a message, bytes arrive
LEMMA ArrivedTyped ==
  ASSUME NEW msg \in Messages, NEW f \in FaultsOf(msg)
  PROVE  /\ Arrived(msg.bytes, f) \in Seq(Byte)
         /\ f.kind \in {"none", "truncated", "flipped", "unknown", "followed"}
<1> DEFINE b == msg.bytes
           n == Len(b)
           a == Arrived(b, f)
<1>1. b \in Seq(Byte) /\ n \in Nat  BY SentMessage
<1>2. \/ f = NoFault
      \/ f \in [kind : {"truncated"}, at : 0..(n - 1)]
      \/ f \in [kind : {"flipped"}, at : 1..n, bit : 0..7]
      \/ f \in [kind : {"unknown"}, at : {0, n}, bytes : Unknown]
      \/ \E msg2 \in Messages : f = [kind |-> "followed", by |-> msg2]
  BY Zenon DEF FaultsOf
<1> HIDE DEF b
<1>3. CASE f = NoFault  BY <1>3, <1>1 DEF NoFault, Arrived, b
<1>4. CASE f \in [kind : {"truncated"}, at : 0..(n - 1)]  BY <1>4, <1>1, CutTyped DEF Arrived, b
<1>5. CASE f \in [kind : {"flipped"}, at : 1..n, bit : 0..7]
  <2>1. f.kind = "flipped" /\ f.at \in 1..n /\ f.bit \in 0..7  BY <1>5
  <2>2. a = [b EXCEPT ![f.at] = SymDiff(@, {f.bit})]  BY <2>1 DEF Arrived
  <2> HIDE DEF a
  <2>3. Flipped(a, b, f.at, f.bit)  BY <2>2 DEF Flipped
  <2>4. a \in Seq(Byte)  BY <1>1, <2>1, <2>3, FlipTyped
  <2> QED BY <2>1, <2>4 DEF a, b
<1>6. CASE f \in [kind : {"unknown"}, at : {0, n}, bytes : Unknown]
  <2>1. f.kind = "unknown" /\ f.at \in {0, n} /\ f.bytes \in Unknown  BY <1>6
  <2>2. a = SubSeq(b, 1, f.at) \o f.bytes \o Drop(b, f.at)  BY <2>1 DEF Arrived
  <2>3. f.at \in 0..n  BY <1>1, <2>1
  <2>4. f.bytes \in Seq(Byte)  BY <2>1, UnknownAssumption DEF IsUnknownField
  <2> DEFINE s == SubSeq(b, 1, f.at)
             t == f.bytes
             u == Drop(b, f.at)
  <2>5. s \in Seq(Byte) /\ t \in Seq(Byte) /\ u \in Seq(Byte)  BY <1>1, <2>3, <2>4, CutTyped
  <2> HIDE DEF s, t, u
  <2>6. (s \o t) \o u \in Seq(Byte)  BY <2>5
  <2> QED BY <2>1, <2>2, <2>6 DEF b, s, t, u
<1>7. CASE \E msg2 \in Messages : f = [kind |-> "followed", by |-> msg2]
  <2>1. PICK msg2 \in Messages : f = [kind |-> "followed", by |-> msg2]  BY <1>7
  <2>2. f.kind = "followed" /\ f.by = msg2  BY <2>1
  <2>3. a = b \o f.by.bytes  BY <2>2 DEF Arrived
  <2>4. f.by.bytes \in Seq(Byte)  BY <2>2, SentMessage
  <2> QED BY <1>1, <2>2, <2>3, <2>4 DEF b
<1> QED BY <1>2, <1>3, <1>4, <1>5, <1>6, <1>7

\* Steps that leave the calls and the message as they are
LEMMA DecoderKept ==
  ASSUME NEW T, DecoderOf(T), UNCHANGED <<frames, dest>>, verdict' \in Verdicts
  PROVE  DecoderOf(T)'
BY DEF DecoderOf

\* What follows the field in the stream of the innermost call
LEMMA ContinueKeeps ==
  ASSUME NEW T, FramesOf(frames, T), NEW r \in Seq(Byte), Continue(r)
  PROVE  FramesOf(frames, T)'
<1>1. ContinuesTo(frames', frames, r)  BY DEF Continue, ContinuesTo
<1>2. FramesOf(frames', T)  BY <1>1, FramesContinue
<1> QED BY <1>2 DEF FramesOf

\* It has values of the types of its fields
LEMMA SetKeeps ==
  ASSUME NEW T \in DOMAIN MaxSize, DestOf(dest, T), NEW f \in Fields[T],
         NEW v \in FieldValues(f[2]), SetTo(dest', dest, f[1], v)
  PROVE  DestOf(dest, T)'
<1>1. DestOf(dest', T)  BY DestSet DEF SetTo
<1> QED BY <1>1 DEF DestOf

\* The steps of the decoder keep its state typed: a field is skipped,
LEMMA SkipKeeps ==
  ASSUME NEW T \in DOMAIN MaxSize, DecoderOf(T), SkipUnknownField
  PROVE  DecoderOf(T)'
<1> DEFINE skipped == pb_skip_field(Tag.rest, Tag.wire)
<1>1. Tag.ok /\ IF skipped.ok THEN Continue(skipped.rest) /\ UNCHANGED <<dest, verdict>>
                ELSE Reject
  BY Zenon DEF SkipUnknownField
<1>2. FramesOf(frames, T)  BY DEF DecoderOf
<1>3. Inner.left \in Seq(Byte)  BY <1>2, Current
<1>4. Tag.rest \in Seq(Byte)  BY <1>1, <1>3, TagTyped DEF Tag
<1>5. skipped.ok => skipped.rest \in Seq(Byte)  BY <1>4, SkipTyped
<1> HIDE DEF skipped
<1>6. CASE skipped.ok  BY <1>1, <1>2, <1>5, <1>6, ContinueKeeps DEF DecoderOf, DestOf
<1>7. CASE ~skipped.ok  BY <1>1, <1>7, DecoderKept DEF Reject, Verdicts
<1> QED BY <1>6, <1>7

\* a value is read,
LEMMA FieldKeeps ==
  ASSUME NEW T \in DOMAIN MaxSize, DecoderOf(T), DecodeField
  PROVE  DecoderOf(T)'
<1> DEFINE value == decode_basic_field(Tag.rest, FieldType)
<1>1. /\ Tag.ok /\ Known /\ ~IsMessage(FieldType)
      /\ IF value.ok
         THEN /\ dest' = [dest EXCEPT ![FieldPath] = value.val]
              /\ Continue(value.rest) /\ UNCHANGED verdict
         ELSE Reject
  BY Zenon DEF DecodeField
<1>2. FramesOf(frames, T) /\ DestOf(dest, T)  BY DEF DecoderOf
<1>3. value.ok => value.rest \in Seq(Byte) /\ value.val \in FieldValues(FieldType)
  BY <1>1, <1>2, FieldRead
<1> HIDE DEF value
<1>4. CASE value.ok
  <2>1. FramesOf(frames, T)'  BY <1>1, <1>2, <1>3, <1>4, ContinueKeeps
  <2> DEFINE f == <<FieldPath, FieldType>>
  <2>2. f \in Fields[T] /\ f[1] = FieldPath /\ f[2] = FieldType  BY <1>1, <1>2, Current
  <2> HIDE DEF f
  <2>3. SetTo(dest', dest, f[1], value.val)  BY <1>1, <1>4, <2>2 DEF SetTo
  <2>4. DestOf(dest, T)'  BY <1>2, <1>3, <1>4, <2>2, <2>3, SetKeeps
  <2> QED BY <1>1, <1>4, <2>1, <2>4 DEF DecoderOf
<1>5. CASE ~value.ok  BY <1>1, <1>5, DecoderKept DEF Reject, Verdicts
<1> QED BY <1>4, <1>5

\* The calls once a submessage is entered
LEMMA EnterFrames ==
  ASSUME NEW T \in DOMAIN MaxSize, FramesOf(frames, T), Known, IsMessage(FieldType),
         NEW inside \in Seq(Byte), NEW r \in Seq(Byte), NEW g, EntersWith(g, frames, inside, r)
  PROVE  /\ FramesOf(g, T) /\ Len(g) = Len(frames) + 1
         /\ \A i \in 1..Len(frames) :
              /\ g[i].type = frames[i].type /\ g[i].prefix = frames[i].prefix
              /\ g[i].left = IF i = Len(frames) THEN r ELSE frames[i].left
         /\ g[Len(frames) + 1] = SubFrame(inside)
<1> DEFINE h == [frames EXCEPT ![Len(frames)].left = r]
           x == SubFrame(inside)
           n == Len(frames)
<1>1. ContinuesTo(h, frames, r)  BY DEF ContinuesTo
<1>2. g = Append(h, x)  BY DEF EntersWith
<1> HIDE DEF h
<1>3. /\ FramesOf(h, T) /\ Len(h) = n
      /\ \A i \in 1..n : /\ h[i].type = frames[i].type /\ h[i].prefix = frames[i].prefix
                         /\ h[i].left = IF i = n THEN r ELSE frames[i].left
  BY <1>1, FramesContinue
<1>4. n \in Nat /\ n >= 1 /\ n \in 1..n /\ Inner = frames[n]  BY Current
<1>5. x \in Frame /\ PlaceIn(x) = <<FieldPath, FieldType>>
  BY Current DEF IsMessage, Frame, SubFrame, PlaceIn
<1>6. PlaceIn(h[n]) = PlaceIn(Inner)  BY <1>3, <1>4 DEF PlaceIn
<1> HIDE DEF x
<1>7. PlaceIn(x) \in Nested(T)  BY <1>5, Current
<1>8. IsFieldOf(PlaceIn(x), PlaceIn(h[n]))  BY <1>5, Current, <1>6 DEF IsFieldOf
<1>a. IsFieldOf(PlaceIn(x), PlaceIn(h[Len(h)]))  BY <1>3, <1>8
<1>b. Enters(g, h, x)  BY <1>2 DEF Enters
<1>c. x \in Frame  BY <1>5
<1>9. /\ FramesOf(g, T) /\ Len(g) = Len(h) + 1
      /\ \A i \in 1..Len(h) : g[i] = h[i]
      /\ g[Len(h) + 1] = x
  BY <1>b, <1>3, <1>c, <1>7, <1>a, FramesEnter
<1> QED BY <1>3, <1>9 DEF x

\* a submessage is entered,
LEMMA EnterKeeps ==
  ASSUME NEW T \in DOMAIN MaxSize, DecoderOf(T), EnterSubmessage
  PROVE  DecoderOf(T)'
<1> DEFINE sub == decode_basic_field(Tag.rest, FieldType)
<1>1. /\ Tag.ok /\ Known /\ IsMessage(FieldType)
      /\ IF sub.ok
         THEN /\ dest' = [dest EXCEPT ![FieldPath] = {0}]
              /\ frames' = Append([frames EXCEPT ![Len(frames)].left = sub.rest],
                                  [type |-> FieldType, prefix |-> FieldPath,
                                   left |-> sub.val])
              /\ UNCHANGED verdict
         ELSE Reject
  BY Zenon DEF EnterSubmessage
<1>2. FramesOf(frames, T) /\ DestOf(dest, T)  BY DEF DecoderOf
<1>3. sub.ok => sub.rest \in Seq(Byte) /\ sub.val \in Seq(Byte)  BY <1>1, <1>2, FieldRead
<1> HIDE DEF sub
<1>4. CASE sub.ok
  <2>1. EntersWith(frames', frames, sub.val, sub.rest)  BY <1>1, <1>4 DEF EntersWith, SubFrame
  <2>2. FramesOf(frames', T)  BY <1>1, <1>2, <1>3, <1>4, <2>1, EnterFrames
  <2>3. FramesOf(frames, T)'  BY <2>2 DEF FramesOf
  <2> DEFINE f == <<FieldPath, FieldType>>
  <2>4. f \in Fields[T] /\ f[1] = FieldPath /\ f[2] = FieldType  BY <1>1, <1>2, Current
  <2> HIDE DEF f
  <2>5. SetTo(dest', dest, f[1], {0})  BY <1>1, <1>4, <2>4 DEF SetTo
  <2>6. {0} \in FieldValues(f[2])  BY <1>1, <2>4, BasicNotMessage DEF FieldValues
  <2>7. DestOf(dest, T)'  BY <1>2, <2>4, <2>5, <2>6, SetKeeps
  <2> QED BY <1>1, <1>4, <2>3, <2>7 DEF DecoderOf
<1>5. CASE ~sub.ok  BY <1>1, <1>5, DecoderKept DEF Reject, Verdicts
<1> QED BY <1>4, <1>5

\* and left
LEMMA LeaveKeeps ==
  ASSUME NEW T \in DOMAIN MaxSize, DecoderOf(T), LeaveSubmessage
  PROVE  DecoderOf(T)'
<1>1. FramesOf(frames', T)  BY FramesLeave DEF DecoderOf, LeaveSubmessage
<1> QED BY <1>1 DEF DecoderOf, LeaveSubmessage, FramesOf, DestOf

\* Every step of the decoder does
LEMMA DecoderKeeps ==
  ASSUME NEW T \in DOMAIN MaxSize, DecoderOf(T), PbDecodeNext
  PROVE  DecoderOf(T)'
<1>1. CASE DecodeBadTag  BY <1>1, DecoderKept DEF DecodeBadTag, Reject, Verdicts
<1>2. CASE Accept  BY <1>2, DecoderKept DEF Accept, Verdicts
<1> QED BY <1>1, <1>2, SkipKeeps, FieldKeeps, EnterKeeps, LeaveKeeps DEF PbDecodeNext

\* and it starts so
LEMMA DecoderStarts ==
  ASSUME NEW T \in DOMAIN MaxSize, NEW b \in Seq(Byte), PbDecodeInit(T, b)
  PROVE  DecoderOf(T)
<1> DEFINE x == [type |-> T, prefix |-> <<>>, left |-> b]
<1>1. frames = <<x>> /\ dest = Defaults[T] /\ verdict = "decoding"  BY DEF PbDecodeInit
<1>2. x \in Frame /\ PlaceIn(x) = Top(T) /\ x.type = T /\ x.prefix = <<>>
  BY Outermost DEF Paths, Frame, PlaceIn, Top
<1> HIDE DEF x
<1>3. frames \in Seq(Frame) /\ Len(frames) = 1 /\ frames[1] = x  BY <1>1, <1>2
<1>4. \A i \in 1..Len(frames) : PlaceIn(frames[i]) \in Nested(T)  BY <1>2, <1>3, TopIn
<1>5. \A i \in 2..Len(frames) : IsFieldOf(PlaceIn(frames[i]), PlaceIn(frames[i - 1]))  BY <1>3
<1>6. FramesOf(frames, T)  BY <1>2, <1>3, <1>4, <1>5 DEF FramesOf
<1> QED BY <1>1, <1>6, DefaultsOf DEF DecoderOf, Verdicts

\* What is before the last element, and the last
LEMMA FrontOfAppend ==
  ASSUME NEW S, NEW p \in Seq(S), NEW x \in S
  PROVE  Front(Append(p, x)) = p /\ Last(Append(p, x)) = x
<1> DEFINE q == Append(p, x)
           n == Len(p)
<1>1. q \in Seq(S) /\ Len(q) = n + 1 /\ q[n + 1] = x /\ \A i \in 1..n : q[i] = p[i]  BY AppendOf
<1>2. n \in Nat  OBVIOUS
<1> HIDE DEF q, n
<1>3. Front(q) = SubSeq(q, 1, n)  BY <1>1, <1>2 DEF Front
<1>4. SubSeq(q, 1, n) = p  BY <1>1, <1>2 DEF n
<1>5. Last(q) = x  BY <1>1 DEF Last
<1> QED BY <1>3, <1>4, <1>5 DEF q

\* The types follow from the invariant
LEMMA TypesFollow == Transfer => TypeOK
<1> SUFFICES ASSUME Transfer PROVE TypeOK
  OBVIOUS
<1> DEFINE T == message.type
<1>1. T \in DOMAIN MaxSize /\ FramesOf(frames, T) /\ DestOf(dest, T) /\ verdict \in Verdicts
  BY SentMessage DEF Transfer, DecoderOf
<1> HIDE DEF T
<1>2. DOMAIN dest = DOMAIN Defaults[T]  BY <1>1, DefaultsOf DEF DestOf
<1>3. \A f \in Fields[T] : dest[f[1]] \in FieldValues(f[2])  BY <1>1 DEF DestOf
<1>4. ASSUME NEW i \in DOMAIN frames, i > 1
      PROVE  /\ Front(frames[i].prefix) = frames[i - 1].prefix
             /\ <<Last(frames[i].prefix), frames[i].type>> \in ToSet(Message[frames[i - 1].type])
  <2>1. frames \in Seq(Frame) /\ i \in 2..Len(frames) /\ i \in 1..Len(frames)
        /\ i - 1 \in 1..Len(frames)
    BY <1>1, <1>4 DEF FramesOf
  <2> DEFINE s == PlaceIn(frames[i - 1])
             t == Message[s[2]]
  <2>2. s \in Nested(T) /\ IsFieldOf(PlaceIn(frames[i]), s)  BY <1>1, <2>1 DEF FramesOf
  <2>3. s[1] = frames[i - 1].prefix /\ s[2] = frames[i - 1].type  BY DEF PlaceIn
  <2> HIDE DEF s
  <2>4. PICK k \in 1..Len(t) : PlaceIn(frames[i]) = FieldTo(s, k)  BY <2>2 DEF IsFieldOf
  <2>5. s[2] \in DOMAIN Message /\ s[1] \in Seq(Names)  BY <1>1, <2>2, NestedLevel DEF Paths
  <2>6. t[k][1] \in Names /\ t[k] = <<t[k][1], t[k][2]>> /\ DOMAIN t = 1..Len(t)
    BY <2>4, <2>5, FieldOf
  <2>7. frames[i].prefix = Append(s[1], t[k][1]) /\ frames[i].type = t[k][2]
    BY <2>4 DEF PlaceIn, FieldTo
  <2>8. Front(frames[i].prefix) = s[1] /\ Last(frames[i].prefix) = t[k][1]
    BY <2>5, <2>6, <2>7, FrontOfAppend
  <2>9. t[k] \in ToSet(t)  BY <2>4, <2>6 DEF ToSet
  <2> QED BY <2>3, <2>6, <2>7, <2>8, <2>9
<1> QED BY <1>1, <1>2, <1>3, <1>4 DEF TypeOK, Verdicts, Transfer, T

\* It holds at first
LEMMA TransferStarts == Init => Transfer
<1> SUFFICES ASSUME Init PROVE Transfer
  OBVIOUS
<1>1. /\ message \in Messages /\ fault \in FaultsOf(message) /\ outcome = "none"
      /\ PbDecodeInit(message.type, Arrived(message.bytes, fault))
  BY DEF Init
<1>2. Arrived(message.bytes, fault) \in Seq(Byte) /\ message.type \in DOMAIN MaxSize
  BY <1>1, ArrivedTyped, SentMessage
<1>3. DecoderOf(message.type)  BY <1>1, <1>2, DecoderStarts
<1> QED BY <1>1, <1>3 DEF Transfer

\* and every step keeps it
LEMMA TransferKept == Transfer /\ [Next]_vars => Transfer'
<1> SUFFICES ASSUME Transfer, [Next]_vars PROVE Transfer'
  OBVIOUS
<1>0. PICK T : T = message.type  OBVIOUS
<1>1. T \in DOMAIN MaxSize  BY <1>0, SentMessage DEF Transfer
<1>2. CASE Decode  BY <1>2, <1>0, <1>1, DecoderKeeps DEF Decode, Transfer, DecoderOf
<1>3. CASE ConvertRequest \/ ConvertResults
  BY <1>3 DEF ConvertRequest, ConvertResults, decoderVars, Transfer, DecoderOf
<1>4. CASE UNCHANGED vars  BY <1>4 DEF vars, decoderVars, Transfer, DecoderOf
<1> QED BY <1>2, <1>3, <1>4 DEF Next

\* In every state the calls of the decoder are nested as the messages are, and what is decoded
\* so far has values of the types of its fields
THEOREM TransferInvariant == Spec => []Transfer
<1>1. Init => Transfer  BY TransferStarts
<1>2. Transfer /\ [Next]_vars => Transfer'  BY TransferKept
<1> QED BY <1>1, <1>2, PTL DEF Spec

\* The decoder writes to the fields of the message only, in their types
THEOREM TypeCorrect == Spec => []TypeOK
<1>1. Transfer => TypeOK  BY TypesFollow
<1> QED BY <1>1, TransferInvariant, PTL

\* What is known of a field of a message inside
LEMMA PlaceAt ==
  ASSUME NEW T \in DOMAIN MaxSize, NEW s \in Nested(T), NEW k \in 1..Len(Message[s[2]])
  PROVE  /\ k \in 1..17 /\ k \in 1..18 /\ k + 1 \in 1..18 /\ Len(Message[s[2]]) \in 0..17
         /\ TypeAt(s, k) \in Types /\ PathAt(s, k) \in Paths
         /\ FieldTo(s, k) \in Fields[T]
         /\ FieldTo(s, k)[2] = TypeAt(s, k) /\ FieldTo(s, k) = <<PathAt(s, k), TypeAt(s, k)>>
         /\ IsMessage(TypeAt(s, k)) => FieldTo(s, k) \in Nested(T)
         /\ Len(PathAt(s, k)) = Len(s[1]) + 1 /\ IsPrefix(s[1], PathAt(s, k))
<1> DEFINE l == Len(Message[s[2]])
<1>1. s[2] \in DOMAIN Message /\ s[1] \in Paths  BY NestedLevel
<1>2. l \in Nat /\ l <= 17  BY <1>1, LengthOf
<1>a. k \in 1..l  OBVIOUS
<1> HIDE DEF l
<1>3. k \in 1..17 /\ k \in 1..18 /\ k + 1 \in 1..18 /\ l \in 0..17  BY <1>2, <1>a
<1>4. /\ FieldTo(s, k) \in Fields[T]
      /\ PathAt(s, k) = Append(s[1], Message[s[2]][k][1])
      /\ FieldTo(s, k)[2] = TypeAt(s, k)
      /\ IsMessage(TypeAt(s, k)) => FieldTo(s, k) \in Nested(T)
  BY FieldIn, Zenon DEF PathAt, TypeAt
<1>5. /\ TypeAt(s, k) \in Types /\ PathAt(s, k) \in Paths
      /\ FieldTo(s, k) = <<PathAt(s, k), TypeAt(s, k)>>
  BY <1>4, FieldTyped, Zenon DEF PathAt
<1>6. Message[s[2]][k][1] \in Names  BY <1>1, FieldOf
<1> DEFINE p == s[1]
           x == Message[s[2]][k][1]
<1>7. p \in Seq(Names) /\ x \in Names /\ PathAt(s, k) = Append(p, x)
  BY <1>1, <1>4, <1>6 DEF Paths
<1> HIDE DEF p, x
<1>8. Len(PathAt(s, k)) = Len(p) + 1  BY <1>7, AppendOf
<1>9. IsPrefix(p, p)  BY <1>7, PrefixMeans
<1>10. IsPrefix(p, PathAt(s, k))  BY <1>7, <1>9, PrefixOfAppend
<1> QED BY <1>3, <1>4, <1>5, <1>8, <1>10 DEF l, p

\* Behind the last field there is nothing
LEMMA BytesEnd ==
  ASSUME NEW T \in DOMAIN MaxSize, NEW m, IsMessageOf(T, m), NEW s \in Nested(T),
         NEW k \in 1..18, k > Len(Message[s[2]])
  PROVE  Bytes(T, m, s, k) = <<>>
<1>1. pb_encode(T, m)[<<s, k>>] = EncodeAt(m, pb_encode(T, m), s, k)  BY EncodeEquation
<1> QED BY <1>1, Zenon DEF Bytes, EncodeAt

\* A field that is not left off the wire, then the fields after it
LEMMA BytesNext ==
  ASSUME NEW T \in DOMAIN MaxSize, NEW m, IsMessageOf(T, m), NEW s \in Nested(T),
         NEW k \in 1..Len(Message[s[2]])
  PROVE  /\ DefaultAt(m, s, k) => Bytes(T, m, s, k) = Bytes(T, m, s, k + 1)
         /\ ~DefaultAt(m, s, k) => Bytes(T, m, s, k)
                                     = FieldBytes(T, m, s, k) \o Bytes(T, m, s, k + 1)
<1> DEFINE E == pb_encode(T, m)
           x == encode_field(TypeAt(s, k), k, m[PathAt(s, k)], E[<<FieldTo(s, k), 1>>])
           r == E[<<s, k + 1>>]
<1>1. k \in 1..18 /\ k + 1 \in 1..18 /\ Len(Message[s[2]]) \in 0..17  BY PlaceAt
<1>2. E[<<s, k>>] = EncodeAt(m, E, s, k)  BY <1>1, EncodeEquation
<1>3. ~(k > Len(Message[s[2]]))  BY <1>1
<1> HIDE DEF E
<1>4. E[<<s, k>>] = x \o r  BY <1>2, <1>3, Zenon DEF EncodeAt, TypeAt, PathAt
<1>5. r = Bytes(T, m, s, k + 1) /\ E[<<s, k>>] = Bytes(T, m, s, k)
      /\ E[<<FieldTo(s, k), 1>>] = Inside(T, m, s, k)
  BY DEF Bytes, Inside, E
<1>6. r \in Seq(Byte)  BY <1>1, <1>5, BytesTyped
<1>7. ASSUME DefaultAt(m, s, k) PROVE x = <<>>  BY <1>7, Zenon DEF encode_field, DefaultAt
<1>8. ASSUME ~DefaultAt(m, s, k) PROVE x = FieldBytes(T, m, s, k)
  BY <1>5, <1>8, Zenon DEF encode_field, DefaultAt, FieldBytes
<1> HIDE DEF x, r
<1>9. <<>> \o r = r  BY <1>6
<1> QED BY <1>4, <1>5, <1>7, <1>8, <1>9

\* The bytes of a field
LEMMA FieldBytesTyped ==
  ASSUME NEW T \in DOMAIN MaxSize, NEW m, IsMessageOf(T, m), NEW s \in Nested(T),
         NEW k \in 1..Len(Message[s[2]])
  PROVE  /\ FieldBytes(T, m, s, k) \in Seq(Byte) /\ FieldBytes(T, m, s, k) # <<>>
         /\ m[PathAt(s, k)] \in FieldValues(TypeAt(s, k))
         /\ IsMessage(TypeAt(s, k)) =>
              Inside(T, m, s, k) \in Seq(Byte) /\ Len(Inside(T, m, s, k)) < Huge
         /\ EncodedValue(TypeAt(s, k), m[PathAt(s, k)], Inside(T, m, s, k)) \in Seq(Byte)
<1> DEFINE type == TypeAt(s, k)
           v == m[PathAt(s, k)]
           inside == Inside(T, m, s, k)
           c == IF IsMessage(type) THEN Len(inside) + 310 ELSE 310
<1>1. /\ type \in Types /\ k \in 1..17
      /\ IsMessage(type) => FieldTo(s, k) \in Nested(T)
  BY PlaceAt
<1>2. v \in FieldValues(type)  BY FieldValue DEF TypeAt, PathAt
<1>3. 1 \in 1..18  OBVIOUS
<1>4. IsMessage(type) => inside \in Seq(Byte) /\ Len(inside) \in Nat /\ Len(inside) < Huge
  BY <1>1, <1>3, BytesTyped DEF Inside
<1> HIDE DEF inside, type, v
<1>5. c \in Nat /\ c >= 310 /\ (IsMessage(type) => Len(inside) <= c - 20)  BY <1>4
<1> HIDE DEF c
<1>6. /\ encode_basic_field(type, k, v, inside) \in Seq(Byte)
      /\ encode_basic_field(type, k, v, inside) # <<>>
  BY <1>1, <1>2, <1>4, <1>5, FieldSize
<1>7. EncodedValue(type, v, inside) \in Seq(Byte)  BY <1>1, <1>2, <1>4, <1>5, EncodedValueSize
<1> QED BY <1>2, <1>4, <1>6, <1>7 DEF FieldBytes, inside, type, v

\* A stream that holds two parts holds the first, with the second behind it
LEMMA SplitNext ==
  ASSUME NEW l, NEW lost, NEW a \in Seq(Byte), NEW b \in Seq(Byte),
         NEW t \in Seq(Byte), NEW c, c = a \o b, Splits(l, lost, c, t)
  PROVE  Splits(l, lost, a, b \o t)
<1>1. (a \o b) \o t = a \o (b \o t)  OBVIOUS
<1> QED BY <1>1 DEF Splits

\* The field at the head of a stream is read, or some of its bytes are missing
LEMMA ReadsNext ==
  ASSUME NEW T \in DOMAIN MaxSize, NEW m, IsMessageOf(T, m), NEW s \in Nested(T),
         NEW k \in 1..Len(Message[s[2]]), ~DefaultAt(m, s, k),
         NEW l \in Seq(Byte), NEW lost \in Seq(Byte), NEW t \in Seq(Byte),
         Splits(l, lost, Bytes(T, m, s, k), t)
  PROVE  /\ ReadsField(l, lost, TypeAt(s, k), k,
                       Carried(TypeAt(s, k), m[PathAt(s, k)], Inside(T, m, s, k)),
                       Bytes(T, m, s, k + 1) \o t)
         /\ l = <<>> => lost # <<>>
<1> DEFINE a == FieldBytes(T, m, s, k)
           b == Bytes(T, m, s, k + 1)
           c == Bytes(T, m, s, k)
           u == b \o t
           type == TypeAt(s, k)
           v == m[PathAt(s, k)]
           inside == Inside(T, m, s, k)
<1>1. k \in 1..17 /\ k + 1 \in 1..18 /\ type \in Types  BY PlaceAt
<1>2. a \in Seq(Byte) /\ a # <<>> /\ v \in FieldValues(type)
      /\ EncodedValue(type, v, inside) \in Seq(Byte)
      /\ (IsMessage(type) => inside \in Seq(Byte) /\ Len(inside) < Huge)
  BY FieldBytesTyped
<1>3. b \in Seq(Byte)  BY <1>1, BytesTyped
<1>4. c = a \o b  BY BytesNext
<1>5. a = encode_basic_field(type, k, v, inside)  BY DEF FieldBytes
<1> HIDE DEF a, b, c, type, v, inside
<1>6. Splits(l, lost, a, u)  BY <1>2, <1>3, <1>4, SplitNext DEF c
<1>7. u \in Seq(Byte)  BY <1>3
<1> HIDE DEF u
<1>8. ReadsField(l, lost, type, k, Carried(type, v, inside), u)
  BY <1>1, <1>2, <1>5, <1>6, <1>7, ReadField
<1>9. ASSUME l = <<>>, lost = <<>> PROVE FALSE
  <2>1. a \o u = <<>>  BY <1>6, <1>9 DEF Splits
  <2>2. Len(a) + Len(u) = 0  BY <1>2, <1>7, <2>1
  <2>3. Len(a) = 0  BY <1>2, <1>7, <2>2
  <2> QED BY <1>2, <2>3
<1> QED BY <1>8, <1>9 DEF u, b, type, v, inside

\* Two fields of a message that a path goes through are the same
LEMMA SameField ==
  ASSUME NEW T \in DOMAIN MaxSize, NEW s \in Nested(T),
         NEW j \in 1..Len(Message[s[2]]), NEW k \in 1..Len(Message[s[2]]), NEW p \in Paths,
         IsPrefix(PathAt(s, j), p), IsPrefix(PathAt(s, k), p)
  PROVE  j = k
<1> DEFINE q == s[1]
           x == Message[s[2]][j][1]
           y == Message[s[2]][k][1]
<1>1. s[2] \in DOMAIN Message /\ q \in Seq(Names) /\ p \in Seq(Names)  BY NestedLevel DEF Paths
<1>2. x \in Names /\ y \in Names  BY <1>1, FieldOf
<1>3. PathAt(s, j) = Append(q, x) /\ PathAt(s, k) = Append(q, y)  BY DEF PathAt, FieldTo
<1> HIDE DEF q, x, y
<1>4. x = y  BY <1>1, <1>2, <1>3, SameNext
<1> QED BY <1>1, <1>4, FieldOf DEF x, y

\* What is below a field that is left off the wire is left off too
LEMMA DefaultBelow ==
  ASSUME NEW T \in DOMAIN MaxSize, NEW m, IsMessageOf(T, m), NEW s \in Nested(T),
         NEW k \in 1..Len(Message[s[2]]), DefaultAt(m, s, k),
         NEW f \in Fields[T], IsPrefix(PathAt(s, k), f[1])
  PROVE  pb_check_proto3_default_value(f[2], m[f[1]])
<1> DEFINE g == FieldTo(s, k)
<1>1. g \in Fields[T] /\ g[1] = PathAt(s, k) /\ g[2] = TypeAt(s, k)  BY PlaceAt DEF PathAt
<1> HIDE DEF g
<1>2. CASE IsMessage(g[2])
  BY <1>1, <1>2, BasicNotMessage DEF DefaultAt, pb_check_proto3_default_value, IsMessageOf
<1>3. CASE ~IsMessage(g[2])  BY <1>1, <1>3, NothingBelow DEF DefaultAt
<1> QED BY <1>2, <1>3

\* The others stay
LEMMA AdvanceTyped ==
  ASSUME NEW ks \in Seq(1..18), NEW n \in 1..Len(ks), ks[n] <= 17,
         NEW js, Advances(js, ks, n)
  PROVE  /\ js \in Seq(1..18) /\ Len(js) = Len(ks) /\ js[n] = ks[n] + 1
         /\ \A i \in 1..Len(ks) : i # n => js[i] = ks[i]
<1> DEFINE x == ks[n] + 1
<1>1. ks[n] \in 1..18  OBVIOUS
<1>2. x \in 1..18  BY <1>1, SMTT(30)
<1>3. js = [ks EXCEPT ![n] = x]  BY DEF Advances
<1> HIDE DEF x
<1>4. js \in Seq(1..18) /\ Len(js) = Len(ks) /\ js[n] = x
      /\ \A i \in 1..Len(ks) : i # n => js[i] = ks[i]
  BY <1>2, <1>3
<1> QED BY <1>4 DEF x

\* They have reached the same places
LEMMA SameCallsReach ==
  ASSUME NEW frs, NEW g, SameCalls(g, frs), NEW ks, Len(frs) \in Nat
  PROVE  /\ Reached(g, ks) <=> Reached(frs, ks)
         /\ \A p : Pending(g, ks, p) <=> Pending(frs, ks, p)
         /\ \A i \in 1..Len(frs) : PlaceIn(g[i]) = PlaceIn(frs[i])
                                   /\ Count(g, i) = Count(frs, i)
<1> DEFINE n == Len(frs)
<1>1. Len(g) = n /\ n \in Nat  BY DEF SameCalls
<1>2. \A i \in 1..n : PlaceIn(g[i]) = PlaceIn(frs[i]) /\ Count(g, i) = Count(frs, i)
  BY DEF SameCalls, PlaceIn, Count
<1>3. \A i \in 1..n : g[i].prefix = frs[i].prefix  BY DEF SameCalls
<1> HIDE DEF n
<1>4. ASSUME NEW p PROVE Pending(g, ks, p) <=> Pending(frs, ks, p)
  BY <1>2, <1>1 DEF PendingAt, Pending, n
<1>5. (\A j \in 1..n : \A i \in 1..(j - 1) :
         ks[i] >= 2 /\ IsPrefix(PathAt(PlaceIn(g[i]), ks[i] - 1), g[j].prefix))
      <=> (\A j \in 1..n : \A i \in 1..(j - 1) :
             ks[i] >= 2 /\ IsPrefix(PathAt(PlaceIn(frs[i]), ks[i] - 1), frs[j].prefix))
  <2>1. \A j \in 1..n : \A i \in 1..(j - 1) : i \in 1..n  BY <1>1
  <2>2. ASSUME NEW j \in 1..n, NEW i \in 1..(j - 1)
        PROVE  IsPrefix(PathAt(PlaceIn(g[i]), ks[i] - 1), g[j].prefix)
               <=> IsPrefix(PathAt(PlaceIn(frs[i]), ks[i] - 1), frs[j].prefix)
    BY <2>1, <1>2, <1>3
  <2> QED BY <2>2, Zenon
<1>6. Reached(g, ks) <=> Reached(frs, ks)  BY <1>1, <1>2, <1>5, Zenon DEF Reached, n
<1> QED BY <1>2, <1>4, <1>6 DEF n

\* What is known of an open call
LEMMA CallOf ==
  ASSUME NEW T \in DOMAIN MaxSize, NEW frs, FramesOf(frs, T), NEW ks, Reached(frs, ks),
         NEW i \in 1..Len(frs)
  PROVE  /\ frs[i] \in Frame /\ PlaceIn(frs[i]) \in Nested(T) /\ PlaceIn(frs[i])[1] \in Paths
         /\ PlaceIn(frs[i])[1] = frs[i].prefix /\ PlaceIn(frs[i])[2] = frs[i].type
         /\ Count(frs, i) = Len(Message[PlaceIn(frs[i])[2]]) /\ Count(frs, i) \in 0..17
         /\ ks[i] \in 1..18 /\ ks[i] <= Count(frs, i) + 1
         /\ Len(frs) \in Nat /\ Len(frs) >= 1 /\ Len(ks) = Len(frs)
         /\ frs[i].left \in Seq(Byte)
<1>1. /\ frs \in Seq(Frame) /\ Len(frs) \in Nat /\ Len(frs) >= 1
      /\ PlaceIn(frs[i]) \in Nested(T)
  BY DEF FramesOf
<1>2. frs[i] \in Frame  BY <1>1
<1>3. frs[i].left \in Seq(Byte)  BY <1>2 DEF Frame
<1>4. PlaceIn(frs[i])[1] = frs[i].prefix /\ PlaceIn(frs[i])[2] = frs[i].type  BY DEF PlaceIn
<1>5. PlaceIn(frs[i])[1] \in Paths /\ PlaceIn(frs[i])[2] \in DOMAIN Message
  BY <1>1, NestedLevel
<1>6. Count(frs, i) = Len(Message[PlaceIn(frs[i])[2]])  BY <1>4 DEF Count
<1>7. Count(frs, i) \in 0..17
  <2>1. Count(frs, i) \in Nat /\ Count(frs, i) <= 17  BY <1>5, <1>6, LengthOf
  <2> QED BY <2>1
<1>8. ks \in Seq(1..18) /\ Len(ks) = Len(frs) /\ ks[i] <= Count(frs, i) + 1  BY DEF Reached
<1>9. ks[i] \in 1..18  BY <1>8
<1> QED BY <1>1, <1>2, <1>3, <1>4, <1>5, <1>6, <1>7, <1>8, <1>9

\* What is in the field that a call comes to is not in one that comes later,
\* in that call or in those around it
LEMMA Apart ==
  ASSUME NEW T \in DOMAIN MaxSize, NEW frs, FramesOf(frs, T), NEW ks, Reached(frs, ks),
         NEW k \in 1..Count(frs, Len(frs)),
         NEW p \in Paths, IsPrefix(PathAt(PlaceIn(frs[Len(frs)]), k), p)
  PROVE  /\ \A i \in 1..Len(frs) : i # Len(frs) => ~PendingAt(frs, ks, i, p)
         /\ \A j \in 1..Count(frs, Len(frs)) :
              IsPrefix(PathAt(PlaceIn(frs[Len(frs)]), j), p) => j = k
<1> DEFINE n == Len(frs)
           s == PlaceIn(frs[n])
<1>1. n \in 1..n /\ n \in Nat  BY DEF FramesOf
<1>2. /\ s \in Nested(T) /\ s[1] \in Paths /\ s[1] = frs[n].prefix
      /\ Count(frs, n) = Len(Message[s[2]])
  BY <1>1, CallOf
<1>3. IsPrefix(PathAt(s, k), p) /\ k \in 1..Len(Message[s[2]])  BY <1>2
<1> HIDE DEF s
<1>4. PathAt(s, k) \in Paths /\ IsPrefix(s[1], PathAt(s, k))  BY <1>2, <1>3, PlaceAt
<1>5. ASSUME NEW i \in 1..n, i # n, PendingAt(frs, ks, i, p) PROVE FALSE
  <2> DEFINE t == PlaceIn(frs[i])
             h == ks[i] - 1
  <2>1. /\ t \in Nested(T) /\ Count(frs, i) = Len(Message[t[2]]) /\ Count(frs, i) \in 0..17
        /\ ks[i] \in 1..18 /\ ks[i] <= Count(frs, i) + 1
    BY CallOf
  <2>2. i \in 1..(n - 1)  BY <1>1, <1>5
  <2>3. ks[i] >= 2 /\ IsPrefix(PathAt(t, h), s[1])  BY <1>1, <1>2, <2>2 DEF Reached, n
  <2> HIDE DEF t
  <2>4. PICK j \in ks[i]..Count(frs, i) : IsPrefix(PathAt(t, j), p)  BY <1>5 DEF PendingAt, t
  <2>5. j \in 1..Len(Message[t[2]]) /\ h \in 1..Len(Message[t[2]]) /\ h # j
    <3> DEFINE a == ks[i]
               c == Count(frs, i)
    <3>1. a \in 1..18 /\ a <= c + 1 /\ c \in 0..17 /\ a >= 2 /\ j \in a..c  BY <2>1, <2>3, <2>4
    <3>2. h = a - 1 /\ c = Len(Message[t[2]])  BY <2>1
    <3> HIDE DEF a, c, h
    <3>3. j \in 1..c /\ h \in 1..c /\ h # j  BY <3>1, <3>2
    <3> QED BY <3>2, <3>3
  <2> HIDE DEF h
  <2>6. PathAt(t, h) \in Paths  BY <2>1, <2>5, PlaceAt
  <2>7. IsPrefix(PathAt(t, h), PathAt(s, k))
    BY <1>2, <1>4, <2>3, <2>6, PrefixTransitive DEF Paths
  <2>8. IsPrefix(PathAt(t, h), p)  BY <1>3, <1>4, <2>6, <2>7, PrefixTransitive DEF Paths
  <2> QED BY <2>1, <2>4, <2>5, <2>8, SameField
<1>6. ASSUME NEW j \in 1..Count(frs, n), IsPrefix(PathAt(s, j), p) PROVE j = k
  BY <1>2, <1>3, <1>6, SameField
<1> QED BY <1>5, <1>6 DEF n, s

\* The innermost call is behind one field more
LEMMA AdvanceReached ==
  ASSUME NEW T \in DOMAIN MaxSize, NEW frs, FramesOf(frs, T), NEW ks, Reached(frs, ks),
         ks[Len(frs)] <= Count(frs, Len(frs)), NEW js, Advances(js, ks, Len(frs))
  PROVE  /\ Reached(frs, js) /\ js[Len(frs)] = ks[Len(frs)] + 1
         /\ \A i \in 1..Len(frs) : i # Len(frs) => js[i] = ks[i]
<1> DEFINE n == Len(frs)
<1>1. n \in 1..n /\ n \in Nat  BY DEF FramesOf
<1>2. ks[n] \in 1..18 /\ Count(frs, n) \in 0..17  BY <1>1, CallOf
<1>3. ks \in Seq(1..18) /\ Len(ks) = n /\ ks[n] <= 17  BY <1>2 DEF Reached
<1> HIDE DEF n
<1>4. /\ js \in Seq(1..18) /\ Len(js) = n /\ js[n] = ks[n] + 1
      /\ \A i \in 1..n : i # n => js[i] = ks[i]
  BY <1>1, <1>3, AdvanceTyped DEF n
<1>5. ASSUME NEW i \in 1..n PROVE js[i] <= Count(frs, i) + 1
  <2>1. CASE i = n
    <3> DEFINE a == ks[n]
               c == Count(frs, n)
    <3>1. a <= c /\ a \in 1..18 /\ c \in 0..17 /\ js[n] = a + 1  BY <1>2, <1>4 DEF n
    <3> HIDE DEF a, c
    <3>2. js[n] <= c + 1  BY <3>1
    <3> QED BY <2>1, <3>2 DEF c
  <2>2. CASE i # n  BY <1>4, <2>2 DEF Reached, n
  <2> QED BY <2>1, <2>2
<1>6. ASSUME NEW j \in 1..n, NEW i \in 1..(j - 1)
      PROVE  js[i] >= 2 /\ IsPrefix(PathAt(PlaceIn(frs[i]), js[i] - 1), frs[j].prefix)
  BY <1>1, <1>4 DEF Reached, n
<1>7. Reached(frs, js)  BY <1>4, <1>5, <1>6 DEF Reached, n
<1> QED BY <1>4, <1>7 DEF n

\* One field less is still to come
LEMMA AdvancePending ==
  ASSUME NEW T \in DOMAIN MaxSize, NEW frs, FramesOf(frs, T), NEW ks, Reached(frs, ks),
         ks[Len(frs)] <= Count(frs, Len(frs)), NEW js, Advances(js, ks, Len(frs)),
         NEW p \in Paths
  PROVE  LET q == PathAt(PlaceIn(frs[Len(frs)]), ks[Len(frs)])
         IN  /\ Pending(frs, ks, p) <=> Pending(frs, js, p) \/ IsPrefix(q, p)
             /\ IsPrefix(q, p) => ~Pending(frs, js, p)
<1> DEFINE n == Len(frs)
           q == PathAt(PlaceIn(frs[n]), ks[n])
<1>1. n \in 1..n /\ n \in Nat  BY DEF FramesOf
<1>2. ks[n] \in 1..18 /\ Count(frs, n) \in 0..17 /\ ks[n] \in 1..Count(frs, n)  BY <1>1, CallOf
<1>3. js[n] = ks[n] + 1 /\ \A i \in 1..n : i # n => js[i] = ks[i]  BY AdvanceReached
<1>4. \A i \in 1..n : i # n => (PendingAt(frs, ks, i, p) <=> PendingAt(frs, js, i, p))
  <2> SUFFICES ASSUME NEW i \in 1..n, i # n
               PROVE  PendingAt(frs, ks, i, p) <=> PendingAt(frs, js, i, p)
    OBVIOUS
  <2>1. ks[i] = js[i]  BY <1>3
  <2> QED BY <2>1 DEF PendingAt
<1>5. PendingAt(frs, ks, n, p) <=> PendingAt(frs, js, n, p) \/ IsPrefix(q, p)
  <2> DEFINE k == ks[n]
             c == Count(frs, n)
             Below(j) == IsPrefix(PathAt(PlaceIn(frs[n]), j), p)
  <2>1. k \in 1..18 /\ c \in 0..17 /\ k \in 1..c  BY <1>2
  <2>2. PendingAt(frs, ks, n, p) <=> \E j \in k..c : Below(j)  BY DEF PendingAt
  <2>3. PendingAt(frs, js, n, p) <=> \E j \in (k + 1)..c : Below(j)  BY <1>3 DEF PendingAt
  <2>4. Below(k) <=> IsPrefix(q, p)  OBVIOUS
  <2> HIDE DEF k, c, Below
  <2>5. \A j \in k..c : j = k \/ j \in (k + 1)..c  BY <2>1
  <2>6. k \in k..c /\ \A j \in (k + 1)..c : j \in k..c  BY <2>1
  <2> QED BY <2>2, <2>3, <2>4, <2>5, <2>6
<1>6. ASSUME IsPrefix(q, p) PROVE ~Pending(frs, js, p)
  <2>1. /\ \A i \in 1..n : i # n => ~PendingAt(frs, ks, i, p)
        /\ \A j \in 1..Count(frs, n) : IsPrefix(PathAt(PlaceIn(frs[n]), j), p) => j = ks[n]
    BY <1>2, <1>6, Apart
  <2>2. ~PendingAt(frs, js, n, p)
    <3> SUFFICES ASSUME PendingAt(frs, js, n, p) PROVE FALSE
      OBVIOUS
    <3>1. PICK j \in js[n]..Count(frs, n) : IsPrefix(PathAt(PlaceIn(frs[n]), j), p)
      BY DEF PendingAt
    <3>2. j \in 1..Count(frs, n) /\ j # ks[n]  BY <1>2, <1>3, <3>1
    <3> QED BY <2>1, <3>1, <3>2
  <2> QED BY <1>4, <2>1, <2>2 DEF Pending
<1>7. Pending(frs, ks, p) <=> Pending(frs, js, p) \/ IsPrefix(q, p)
  <2>1. Pending(frs, ks, p) <=>
          PendingAt(frs, ks, n, p) \/ \E i \in 1..n : i # n /\ PendingAt(frs, ks, i, p)
    BY <1>1 DEF Pending
  <2>2. Pending(frs, js, p) <=>
          PendingAt(frs, js, n, p) \/ \E i \in 1..n : i # n /\ PendingAt(frs, js, i, p)
    BY <1>1 DEF Pending
  <2> HIDE DEF q, n
  <2> QED BY <1>4, <1>5, <2>1, <2>2
<1> QED BY <1>6, <1>7 DEF q

\* What is known of it
LEMMA InmostCall ==
  ASSUME NEW T \in DOMAIN MaxSize, NEW frs, FramesOf(frs, T), NEW ks, Reached(frs, ks)
  PROVE  /\ Inmost(frs) \in Nested(T) /\ Inmost(frs) = PlaceIn(frs[Len(frs)])
         /\ Count(frs, Len(frs)) = Len(Message[Inmost(frs)[2]])
         /\ Count(frs, Len(frs)) \in 0..17
         /\ ks[Len(frs)] \in 1..18 /\ ks[Len(frs)] <= Count(frs, Len(frs)) + 1
         /\ ks[Len(frs)] <= Count(frs, Len(frs)) =>
              /\ ks[Len(frs)] \in 1..Len(Message[Inmost(frs)[2]])
              /\ ks[Len(frs)] + 1 \in 1..18
         /\ Len(frs) \in 1..Len(frs) /\ Len(frs) \in Nat /\ Len(frs) >= 1
         /\ frs[Len(frs)].left \in Seq(Byte)
<1>1. Len(frs) \in 1..Len(frs) /\ Len(frs) \in Nat /\ Len(frs) >= 1  BY DEF FramesOf
<1>2. Inmost(frs) = PlaceIn(frs[Len(frs)])  BY DEF Inmost
<1> DEFINE k == ks[Len(frs)]
           c == Count(frs, Len(frs))
<1>3. /\ Inmost(frs) \in Nested(T) /\ c = Len(Message[Inmost(frs)[2]]) /\ c \in 0..17
      /\ k \in 1..18 /\ k <= c + 1 /\ frs[Len(frs)].left \in Seq(Byte)
  BY <1>1, <1>2, CallOf
<1> HIDE DEF k, c
<1>a. k \in 1..18 /\ k <= c + 1 /\ c \in 0..17  BY <1>3
<1>4. k <= c => k \in 1..c /\ k + 1 \in 1..18  BY <1>a
<1> QED BY <1>1, <1>2, <1>3, <1>4 DEF k, c

\* The message after a field is left off the wire
LEMMA FilledDefault ==
  ASSUME NEW T \in DOMAIN MaxSize, NEW m, IsMessageOf(T, m), NEW base,
         NEW frs, FramesOf(frs, T), NEW ks, Reached(frs, ks),
         ks[Len(frs)] <= Count(frs, Len(frs)), NEW js, Advances(js, ks, Len(frs)),
         DefaultAt(m, Inmost(frs), ks[Len(frs)]),
         NEW d, Filled(T, m, base, frs, ks, d)
  PROVE  Filled(T, m, base, frs, js, d)
<1> DEFINE k == ks[Len(frs)]
           s == Inmost(frs)
<1>1. s \in Nested(T) /\ k \in 1..Len(Message[s[2]])  BY InmostCall
<1>2. ASSUME NEW f \in Fields[T]
      PROVE  d[f[1]] = IF Pending(frs, js, f[1]) \/ pb_check_proto3_default_value(f[2], m[f[1]])
                       THEN base[f[1]] ELSE m[f[1]]
  <2> DEFINE p == f[1]
             empty == pb_check_proto3_default_value(f[2], m[p])
  <2>1. p \in Paths  BY FieldTyped
  <2>2. Pending(frs, ks, p) <=> Pending(frs, js, p) \/ IsPrefix(PathAt(s, k), p)
    BY <2>1, AdvancePending DEF Inmost
  <2>3. d[p] = IF Pending(frs, ks, p) \/ empty THEN base[p] ELSE m[p]  BY DEF Filled
  <2> HIDE DEF s, k
  <2>4. IsPrefix(PathAt(s, k), p) => empty  BY <1>1, DefaultBelow DEF s, k
  <2> HIDE DEF p, empty
  <2> QED BY <2>2, <2>3, <2>4, Zenon DEF p, empty
<1> QED BY <1>2 DEF Filled

\* nor are there bytes of it
LEMMA StreamsDefault ==
  ASSUME NEW T \in DOMAIN MaxSize, NEW m, IsMessageOf(T, m), NEW lost, NEW tail,
         NEW frs, FramesOf(frs, T), NEW ks, Reached(frs, ks),
         ks[Len(frs)] <= Count(frs, Len(frs)), NEW js, Advances(js, ks, Len(frs)),
         DefaultAt(m, Inmost(frs), ks[Len(frs)]),
         Streams(T, m, lost, tail, frs, ks)
  PROVE  Streams(T, m, lost, tail, frs, js)
<1> DEFINE n == Len(frs)
           k == ks[n]
           s == Inmost(frs)
<1>1. s \in Nested(T) /\ k \in 1..Len(Message[s[2]]) /\ s = PlaceIn(frs[n])  BY InmostCall
<1>2. js[n] = k + 1 /\ \A i \in 1..n : i # n => js[i] = ks[i]  BY AdvanceReached
<1>3. Bytes(T, m, s, k) = Bytes(T, m, s, k + 1)  BY <1>1, BytesNext
<1> HIDE DEF n, k, s
<1>4. ASSUME NEW i \in 1..n
      PROVE  Splits(frs[i].left, OfFirst(i, lost), Bytes(T, m, PlaceIn(frs[i]), js[i]),
                    OfFirst(i, tail))
  <2>1. Splits(frs[i].left, OfFirst(i, lost), Bytes(T, m, PlaceIn(frs[i]), ks[i]),
               OfFirst(i, tail))
    BY DEF Streams, n
  <2>2. Bytes(T, m, PlaceIn(frs[i]), js[i]) = Bytes(T, m, PlaceIn(frs[i]), ks[i])
    BY <1>1, <1>2, <1>3 DEF k
  <2> QED BY <2>1, <2>2
<1> QED BY <1>4 DEF Streams, n

\* A call can be taken to have passed the fields left off the wire
LEMMA FollowsToField ==
  ASSUME NEW T \in DOMAIN MaxSize, NEW m, IsMessageOf(T, m), NEW base, NEW lost, NEW tail,
         NEW frs, NEW d, CanFollow(T, m, base, lost, tail, frs, d)
  PROVE  \E ks : Follows(T, m, base, lost, tail, frs, ks, d) /\ Stopped(m, frs, ks)
<1> DEFINE n == Len(frs)
           F(ks) == Follows(T, m, base, lost, tail, frs, ks, d)
           K == {k \in 0..18 : \E ks : F(ks) /\ ks[n] = k}
<1>1. PICK hs : F(hs)  BY DEF CanFollow
<1>2. FramesOf(frs, T) /\ \A ks : F(ks) => Reached(frs, ks)  BY <1>1 DEF Follows
<1>3. \A ks : F(ks) => ks[n] \in 1..18 /\ ks[n] <= Count(frs, n) + 1  BY <1>2, InmostCall
<1>4. Count(frs, n) \in 0..17  BY <1>1, <1>2, InmostCall
<1> HIDE DEF F, n
<1>5. K \in SUBSET (0..18) /\ K # {}  BY <1>1, <1>3
<1> HIDE DEF K
<1>6. PICK k \in K : \A j \in K : k >= j  BY <1>5, GreatestExists
<1>7. PICK ks : F(ks) /\ ks[n] = k  BY <1>6 DEF K
<1>8. k \in 1..18 /\ k <= Count(frs, n) + 1  BY <1>3, <1>7
<1>9. ASSUME k <= Count(frs, n), DefaultAt(m, Inmost(frs), k) PROVE FALSE
  <2> DEFINE js == [ks EXCEPT ![n] = ks[n] + 1]
  <2>1. Advances(js, ks, n)  BY DEF Advances
  <2> HIDE DEF js
  <2>2. Streams(T, m, lost, tail, frs, ks) /\ Filled(T, m, base, frs, ks, d) /\ Reached(frs, ks)
    BY <1>7 DEF Follows, F
  <2>3. Reached(frs, js) /\ js[n] = k + 1  BY <1>2, <1>7, <1>9, <2>1, <2>2, AdvanceReached DEF n
  <2>4. Streams(T, m, lost, tail, frs, js)
    BY <1>2, <1>7, <1>9, <2>1, <2>2, StreamsDefault DEF n
  <2>5. Filled(T, m, base, frs, js, d)  BY <1>2, <1>7, <1>9, <2>1, <2>2, FilledDefault DEF n
  <2>6. F(js)  BY <1>2, <2>3, <2>4, <2>5 DEF F, Follows
  <2>7. k + 1 \in 0..18  BY <1>4, <1>8, <1>9
  <2>8. k + 1 \in K  BY <2>3, <2>6, <2>7 DEF K
  <2>9. ~(k >= k + 1)  BY <1>8
  <2> QED BY <1>6, <2>8, <2>9
<1>10. k = Count(frs, n) + 1 \/ k <= Count(frs, n)  BY <1>4, <1>8
<1>11. Stopped(m, frs, ks)  BY <1>7, <1>9, <1>10 DEF Stopped, n
<1> QED BY <1>7, <1>11 DEF F

\* The calls go on as they are
LEMMA ContinueSame ==
  ASSUME NEW T, NEW frs, FramesOf(frs, T), NEW r \in Seq(Byte), NEW g, ContinuesTo(g, frs, r)
  PROVE  /\ SameCalls(g, frs) /\ FramesOf(g, T) /\ Len(g) = Len(frs)
         /\ \A i \in 1..Len(frs) : g[i].left = IF i = Len(frs) THEN r ELSE frs[i].left
BY FramesContinue DEF SameCalls

\* The innermost call goes on behind the field it was at
LEMMA ContinueFollows ==
  ASSUME NEW T \in DOMAIN MaxSize, NEW m, IsMessageOf(T, m), NEW lost, NEW tail,
         NEW frs, FramesOf(frs, T), NEW ks, Reached(frs, ks), Streams(T, m, lost, tail, frs, ks),
         ks[Len(frs)] <= Count(frs, Len(frs)), NEW js, Advances(js, ks, Len(frs)),
         NEW r \in Seq(Byte),
         Splits(r, OfFirst(Len(frs), lost), Bytes(T, m, Inmost(frs), ks[Len(frs)] + 1),
                OfFirst(Len(frs), tail)),
         NEW g, ContinuesTo(g, frs, r)
  PROVE  /\ FramesOf(g, T) /\ Reached(g, js) /\ Streams(T, m, lost, tail, g, js)
         /\ Len(g) = Len(frs) /\ Inmost(g) = Inmost(frs) /\ Count(g, Len(g)) = Count(frs,
             Len(frs))
         /\ \A p : Pending(g, js, p) <=> Pending(frs, js, p)
<1> DEFINE n == Len(frs)
           s == Inmost(frs)
<1>1. n \in 1..n /\ n \in Nat /\ s = PlaceIn(frs[n])  BY InmostCall
<1>2. /\ SameCalls(g, frs) /\ FramesOf(g, T) /\ Len(g) = n
      /\ \A i \in 1..n : g[i].left = IF i = n THEN r ELSE frs[i].left
  BY ContinueSame
<1>3. /\ Reached(g, js) <=> Reached(frs, js)
      /\ \A p : Pending(g, js, p) <=> Pending(frs, js, p)
      /\ \A i \in 1..n : PlaceIn(g[i]) = PlaceIn(frs[i]) /\ Count(g, i) = Count(frs, i)
  BY <1>1, <1>2, SameCallsReach
<1>4. Reached(frs, js) /\ js[n] = ks[n] + 1 /\ \A i \in 1..n : i # n => js[i] = ks[i]
  BY AdvanceReached
<1>5. Splits(r, OfFirst(n, lost), Bytes(T, m, s, ks[n] + 1), OfFirst(n, tail))  OBVIOUS
<1>6. Inmost(g) = s /\ Count(g, Len(g)) = Count(frs, Len(frs))  BY <1>1, <1>2, <1>3 DEF Inmost
<1> HIDE DEF n, s
<1>7. ASSUME NEW i \in 1..n
      PROVE  Splits(g[i].left, OfFirst(i, lost), Bytes(T, m, PlaceIn(g[i]), js[i]),
                    OfFirst(i, tail))
  BY <1>3, <1>1, <1>2, <1>4, <1>5 DEF Streams, n
<1>8. Streams(T, m, lost, tail, g, js)  BY <1>2, <1>7 DEF Streams
<1> QED BY <1>2, <1>3, <1>4, <1>6, <1>8 DEF n, s

\* A field that holds a value has been read
LEMMA FieldFollows ==
  ASSUME NEW T \in DOMAIN MaxSize, NEW m, IsMessageOf(T, m), NEW base, NEW lost, NEW tail,
         NEW frs, NEW ks, NEW d, Follows(T, m, base, lost, tail, frs, ks, d), DestOf(d, T),
         ks[Len(frs)] <= Count(frs, Len(frs)),
         ~DefaultAt(m, Inmost(frs), ks[Len(frs)]),
         ~IsMessage(TypeAt(Inmost(frs), ks[Len(frs)])),
         NEW r \in Seq(Byte),
         Splits(r, OfFirst(Len(frs), lost), Bytes(T, m, Inmost(frs), ks[Len(frs)] + 1),
                OfFirst(Len(frs), tail)),
         NEW g, ContinuesTo(g, frs, r),
         NEW e, SetTo(e, d, PathAt(Inmost(frs), ks[Len(frs)]),
                      m[PathAt(Inmost(frs), ks[Len(frs)])])
  PROVE  CanFollow(T, m, base, lost, tail, g, e)
<1> DEFINE s == Inmost(frs)
           k == ks[Len(frs)]
           q == PathAt(s, k)
           js == [ks EXCEPT ![Len(frs)] = ks[Len(frs)] + 1]
<1>1. FramesOf(frs, T) /\ Reached(frs, ks) /\ Streams(T, m, lost, tail, frs, ks)
      /\ Filled(T, m, base, frs, ks, d)
  BY DEF Follows
<1>2. s \in Nested(T) /\ k \in 1..Len(Message[s[2]])  BY <1>1, InmostCall
<1>3. Advances(js, ks, Len(frs))  BY DEF Advances
<1> HIDE DEF js
<1>4. /\ FramesOf(g, T) /\ Reached(g, js) /\ Streams(T, m, lost, tail, g, js)
      /\ \A p : Pending(g, js, p) <=> Pending(frs, js, p)
  BY <1>1, <1>3, ContinueFollows
<1>5. \A p \in Paths : /\ Pending(frs, ks, p) <=> Pending(frs, js, p) \/ IsPrefix(q, p)
                       /\ IsPrefix(q, p) => ~Pending(frs, js, p)
  BY <1>1, <1>3, AdvancePending DEF Inmost
<1>6. SetTo(e, d, q, m[q]) /\ ~DefaultAt(m, s, k) /\ ~IsMessage(TypeAt(s, k))  OBVIOUS
<1> HIDE DEF s, k, q
<1> DEFINE h == FieldTo(s, k)
<1>7. /\ h \in Fields[T] /\ h[1] = q /\ h[2] = TypeAt(s, k) /\ q \in Paths
      /\ q \in PathsOf(T)
  BY <1>2, PlaceAt DEF PathAt, PathsOf, q
<1> HIDE DEF h
<1>8. DOMAIN d = PathsOf(T)  BY DEF DestOf
<1>9. e[q] = m[q] /\ \A p \in PathsOf(T) : p # q => e[p] = d[p]  BY <1>6, <1>7, <1>8 DEF SetTo
<1>10. ASSUME NEW f \in Fields[T]
       PROVE  e[f[1]] = IF Pending(g, js, f[1]) \/ pb_check_proto3_default_value(f[2], m[f[1]])
                        THEN base[f[1]] ELSE m[f[1]]
  <2> DEFINE p == f[1]
             empty == pb_check_proto3_default_value(f[2], m[p])
  <2>1. p \in Paths /\ p \in PathsOf(T)  BY FieldTyped DEF PathsOf
  <2>2. Pending(g, js, p) <=> Pending(frs, js, p)  BY <1>4
  <2>3. CASE p = q
    <3>1. f = h  BY <1>7, <2>3, PathUnique
    <3>2. ~empty  BY <1>6, <1>7, <2>3, <3>1 DEF DefaultAt, q
    <3>3. IsPrefix(q, q)  BY <1>7, PrefixMeans DEF Paths
    <3>4. ~Pending(frs, js, p)  BY <1>5, <1>7, <2>3, <3>3
    <3> HIDE DEF p, empty
    <3>5. e[p] = m[p]  BY <1>9, <2>3
    <3> QED BY <2>2, <3>2, <3>4, <3>5, Zenon DEF p, empty
  <2>4. CASE p # q
    <3>1. ~IsPrefix(q, p)  BY <1>6, <1>7, <2>4, NothingBelow
    <3>2. Pending(frs, ks, p) <=> Pending(frs, js, p)  BY <1>5, <2>1, <3>1
    <3>3. d[p] = IF Pending(frs, ks, p) \/ empty THEN base[p] ELSE m[p]  BY <1>1 DEF Filled
    <3>4. e[p] = d[p]  BY <1>9, <2>1, <2>4
    <3> HIDE DEF p, empty
    <3> QED BY <2>2, <3>2, <3>3, <3>4, Zenon DEF p, empty
  <2> QED BY <2>3, <2>4
<1>11. Filled(T, m, base, g, js, e)  BY <1>10 DEF Filled
<1> QED BY <1>4, <1>11 DEF Follows, CanFollow

\* A path below that of a submessage is in one of the submessage's fields
LEMMA BelowSubmessage ==
  ASSUME NEW T \in DOMAIN MaxSize, NEW s \in Nested(T), NEW f \in Fields[T]
  PROVE  (\E j \in 1..Len(Message[s[2]]) : IsPrefix(PathAt(s, j), f[1]))
         <=> IsPrefix(s[1], f[1]) /\ f[1] # s[1]
<1>1. f[1] \in Paths /\ s[1] \in Paths  BY FieldTyped, NestedLevel
<1>2. ASSUME NEW j \in 1..Len(Message[s[2]]), IsPrefix(PathAt(s, j), f[1])
      PROVE  IsPrefix(s[1], f[1]) /\ f[1] # s[1]
  <2>1. PathAt(s, j) \in Paths /\ IsPrefix(s[1], PathAt(s, j))
        /\ Len(PathAt(s, j)) = Len(s[1]) + 1
    BY PlaceAt
  <2>2. IsPrefix(s[1], f[1])  BY <1>1, <1>2, <2>1, PrefixTransitive DEF Paths
  <2>3. Len(PathAt(s, j)) <= Len(f[1])  BY <1>1, <1>2, <2>1, PrefixMeans DEF Paths
  <2>4. Len(s[1]) \in Nat  BY <1>1 DEF Paths
  <2>5. f[1] # s[1]
    <3> DEFINE a == Len(s[1])
               b == Len(f[1])
    <3>1. a + 1 <= b /\ a \in Nat  BY <2>1, <2>3, <2>4
    <3> HIDE DEF a, b
    <3>2. a # b  BY <3>1
    <3> QED BY <3>2 DEF a, b
  <2> QED BY <2>2, <2>5
<1>3. ASSUME IsPrefix(s[1], f[1]), f[1] # s[1]
      PROVE  \E j \in 1..Len(Message[s[2]]) : IsPrefix(PathAt(s, j), f[1])
  BY <1>3, PathBelow DEF PathAt
<1> QED BY <1>2, <1>3

\* A call for the field just before the one that the innermost call comes to
LEMMA EnterReached ==
  ASSUME NEW T \in DOMAIN MaxSize, NEW h, FramesOf(h, T), NEW js, Reached(h, js),
         NEW k \in 1..Count(h, Len(h)), js[Len(h)] = k + 1,
         IsMessage(TypeAt(Inmost(h), k)),
         NEW x \in Frame, PlaceIn(x) = FieldTo(Inmost(h), k), NEW g, Enters(g, h, x),
         NEW is, Enters(is, js, 1)
  PROVE  /\ FramesOf(g, T) /\ Reached(g, is)
         /\ Len(g) = Len(h) + 1 /\ g[Len(h) + 1] = x /\ \A i \in 1..Len(h) : g[i] = h[i]
         /\ is[Len(h) + 1] = 1 /\ \A i \in 1..Len(h) : is[i] = js[i]
         /\ \A f \in Fields[T] :
              Pending(g, is, f[1]) <=>
                \/ Pending(h, js, f[1])
                \/ IsPrefix(PathAt(Inmost(h), k), f[1]) /\ f[1] # PathAt(Inmost(h), k)
<1> DEFINE n == Len(h)
           s == Inmost(h)
           q == PathAt(s, k)
           t == PlaceIn(x)
<1>1. n \in 1..n /\ n \in Nat /\ n >= 1 /\ s \in Nested(T) /\ s = PlaceIn(h[n])
      /\ Count(h, n) = Len(Message[s[2]])
  BY InmostCall
<1>2. k \in 1..Len(Message[s[2]])  BY <1>1
<1>3. t = FieldTo(s, k) /\ x.prefix = q /\ x.type = t[2] /\ t[1] = q  BY DEF PlaceIn, PathAt
<1>4. t \in Nested(T) /\ q \in Paths /\ IsPrefix(s[1], q)  BY <1>1, <1>2, <1>3, PlaceAt
<1>5. IsFieldOf(t, PlaceIn(h[n]))  BY <1>1, <1>2, <1>3 DEF IsFieldOf
<1> HIDE DEF t
<1>6. FramesOf(g, T) /\ Len(g) = n + 1 /\ (\A i \in 1..n : g[i] = h[i]) /\ g[n + 1] = x
  BY <1>4, <1>5, FramesEnter DEF t
<1>7. js \in Seq(1..18) /\ Len(js) = n  BY DEF Reached
<1>8. /\ is \in Seq(1..18) /\ Len(is) = n + 1 /\ is[n + 1] = 1
      /\ \A i \in 1..n : is[i] = js[i]
  BY <1>7, AppendOf DEF Enters
<1>9. Count(g, n + 1) = Len(Message[t[2]]) /\ \A i \in 1..n : Count(g, i) = Count(h, i)
  BY <1>3, <1>6 DEF Count
<1>10. Len(Message[t[2]]) \in Nat  BY <1>4, NestedLevel, LengthOf
<1>11. js[n] = k + 1  OBVIOUS
<1> HIDE DEF n, s, q
<1>12. ASSUME NEW i \in 1..(n + 1) PROVE is[i] <= Count(g, i) + 1
  BY <1>8, <1>9, <1>10, <1>1 DEF Reached, n
<1>13. ASSUME NEW i \in 1..n PROVE js[i] >= 2 /\ IsPrefix(PathAt(PlaceIn(h[i]), js[i] - 1), q)
  <2>1. CASE i = n  BY <1>2, <1>11, <2>1, <1>4, PrefixMeans, <1>1 DEF Paths, q
  <2>2. CASE i # n
    <3> DEFINE u == PlaceIn(h[i])
               a == js[i] - 1
    <3>1. i \in 1..(n - 1)  BY <1>1, <2>2
    <3>2. js[i] >= 2 /\ IsPrefix(PathAt(u, a), h[n].prefix)  BY <1>1, <3>1 DEF Reached, n
    <3>3. h[n].prefix = s[1]  BY <1>1 DEF PlaceIn
    <3>4. /\ u \in Nested(T) /\ Count(h, i) = Len(Message[u[2]]) /\ Count(h, i) \in 0..17
          /\ js[i] \in 1..18 /\ js[i] <= Count(h, i) + 1
      BY CallOf DEF n, u
    <3> HIDE DEF u
    <3>5. a \in 1..Len(Message[u[2]])
      <4> DEFINE c == Count(h, i)
                 y == js[i]
      <4>a. c = Len(Message[u[2]])  BY <3>4
      <4>b. a = y - 1  OBVIOUS
      <4>1. c = Len(Message[u[2]]) /\ a = y - 1  BY <4>a, <4>b
      <4>2. c \in 0..17 /\ y \in 1..18 /\ y <= c + 1 /\ y >= 2  BY <3>2, <3>4
      <4> HIDE DEF c, y, a
      <4>3. a \in 1..c  BY <4>1, <4>2
      <4> QED BY <4>1, <4>3
    <3> HIDE DEF a
    <3>6. PathAt(u, a) \in Paths /\ s[1] \in Paths  BY <1>1, <3>4, <3>5, PlaceAt, NestedLevel
    <3>7. IsPrefix(PathAt(u, a), q)  BY <1>4, <3>2, <3>3, <3>6, PrefixTransitive DEF Paths
    <3> QED BY <3>2, <3>7 DEF u, a
  <2> QED BY <2>1, <2>2
<1>14. ASSUME NEW j \in 1..(n + 1), NEW i \in 1..(j - 1)
       PROVE  is[i] >= 2 /\ IsPrefix(PathAt(PlaceIn(g[i]), is[i] - 1), g[j].prefix)
  <2>1. i \in 1..n  BY <1>1
  <2>2. is[i] = js[i] /\ g[i] = h[i]  BY <1>6, <1>8, <2>1
  <2>3. CASE j = n + 1  BY <1>3, <1>6, <2>3, <1>13, <2>1, <2>2
  <2>4. CASE j # n + 1  BY <1>1, <2>4, <1>6, <2>2 DEF Reached, n
  <2> QED BY <2>3, <2>4
<1>15. Reached(g, is)  BY <1>6, <1>8, <1>12, <1>14 DEF Reached
<1>16. ASSUME NEW f \in Fields[T]
       PROVE  Pending(g, is, f[1]) <=> Pending(h, js, f[1]) \/ (IsPrefix(q, f[1]) /\ f[1] # q)
  <2> DEFINE p == f[1]
  <2>1. \A i \in 1..n : PendingAt(g, is, i, p) <=> PendingAt(h, js, i, p)
    <3> SUFFICES ASSUME NEW i \in 1..n PROVE PendingAt(g, is, i, p) <=> PendingAt(h, js, i, p)
      OBVIOUS
    <3>1. is[i] = js[i] /\ g[i] = h[i] /\ Count(g, i) = Count(h, i)  BY <1>6, <1>8, <1>9
    <3> QED BY <3>1 DEF PendingAt
  <2>2. PendingAt(g, is, n + 1, p) <=> \E j \in 1..Len(Message[t[2]]) : IsPrefix(PathAt(t, j), p)
    BY <1>6, <1>8, <1>9 DEF PendingAt, t
  <2>3. PendingAt(g, is, n + 1, p) <=> IsPrefix(q, p) /\ p # q
    BY <1>3, <1>4, <2>2, BelowSubmessage DEF t
  <2>4. Pending(g, is, p) <=>
          PendingAt(g, is, n + 1, p) \/ \E i \in 1..n : PendingAt(g, is, i, p)
    BY <1>1, <1>6 DEF Pending
  <2>5. Pending(h, js, p) <=> \E i \in 1..n : PendingAt(h, js, i, p)  BY DEF Pending, n
  <2> HIDE DEF p
  <2>6. Pending(g, is, p) <=> Pending(h, js, p) \/ (IsPrefix(q, p) /\ p # q)
    BY <2>1, <2>3, <2>4, <2>5
  <2> QED BY <2>6 DEF p
<1> QED BY <1>6, <1>8, <1>15, <1>16, Zenon DEF n, q, s

\* The inner calls have nothing of it
LEMMA FirstOnly ==
  ASSUME NEW i \in Nat, i > 1, NEW x
  PROVE  OfFirst(i, x) = <<>>
BY DEF OfFirst

\* A submessage that is on the wire has been entered
LEMMA EnterFollows ==
  ASSUME NEW T \in DOMAIN MaxSize, NEW m, IsMessageOf(T, m), NEW base, NEW lost, NEW tail,
         NEW frs, NEW ks, NEW d, Follows(T, m, base, lost, tail, frs, ks, d), DestOf(d, T),
         ks[Len(frs)] <= Count(frs, Len(frs)),
         ~DefaultAt(m, Inmost(frs), ks[Len(frs)]),
         IsMessage(TypeAt(Inmost(frs), ks[Len(frs)])),
         NEW r \in Seq(Byte),
         Splits(r, OfFirst(Len(frs), lost), Bytes(T, m, Inmost(frs), ks[Len(frs)] + 1),
                OfFirst(Len(frs), tail)),
         NEW h, ContinuesTo(h, frs, r),
         NEW x \in Frame, PlaceIn(x) = FieldTo(Inmost(frs), ks[Len(frs)]),
         x.left = Inside(T, m, Inmost(frs), ks[Len(frs)]),
         NEW g, Enters(g, h, x),
         NEW e, SetTo(e, d, PathAt(Inmost(frs), ks[Len(frs)]),
                      m[PathAt(Inmost(frs), ks[Len(frs)])])
  PROVE  CanFollow(T, m, base, lost, tail, g, e)
<1> DEFINE n == Len(frs)
           s == Inmost(frs)
           k == ks[n]
           q == PathAt(s, k)
           js == [ks EXCEPT ![Len(frs)] = ks[Len(frs)] + 1]
           is == Append(js, 1)
<1>1. FramesOf(frs, T) /\ Reached(frs, ks) /\ Streams(T, m, lost, tail, frs, ks)
      /\ Filled(T, m, base, frs, ks, d)
  BY DEF Follows
<1>2. s \in Nested(T) /\ k \in 1..Len(Message[s[2]]) /\ n \in Nat /\ n >= 1
      /\ k \in 1..Count(frs, n)
  BY <1>1, InmostCall
<1>3. Advances(js, ks, Len(frs))  BY DEF Advances
<1> HIDE DEF js
<1>4. /\ FramesOf(h, T) /\ Reached(h, js) /\ Streams(T, m, lost, tail, h, js)
      /\ Len(h) = n /\ Inmost(h) = s /\ Count(h, Len(h)) = Count(frs, n)
      /\ \A p : Pending(h, js, p) <=> Pending(frs, js, p)
  BY <1>1, <1>3, ContinueFollows
<1>5. js[n] = k + 1  BY <1>1, <1>3, AdvanceReached
<1>6. \A p \in Paths : /\ Pending(frs, ks, p) <=> Pending(frs, js, p) \/ IsPrefix(q, p)
                       /\ IsPrefix(q, p) => ~Pending(frs, js, p)
  BY <1>1, <1>3, AdvancePending DEF Inmost
<1>7. /\ SetTo(e, d, q, m[q]) /\ ~DefaultAt(m, s, k) /\ IsMessage(TypeAt(s, k))
      /\ PlaceIn(x) = FieldTo(s, k) /\ x.left = Inside(T, m, s, k)
  OBVIOUS
<1> HIDE DEF s, k, q, n
<1>8. /\ FramesOf(g, T) /\ Reached(g, is)
      /\ Len(g) = n + 1 /\ g[n + 1] = x /\ \A i \in 1..n : g[i] = h[i]
      /\ is[n + 1] = 1 /\ \A i \in 1..n : is[i] = js[i]
      /\ \A f \in Fields[T] :
           Pending(g, is, f[1]) <=> Pending(h, js, f[1]) \/ (IsPrefix(q, f[1]) /\ f[1] # q)
  <2>1. k \in 1..Count(h, Len(h)) /\ js[Len(h)] = k + 1 /\ IsMessage(TypeAt(Inmost(h), k))
        /\ PlaceIn(x) = FieldTo(Inmost(h), k)
    BY <1>2, <1>4, <1>5, <1>7
  <2>2. Enters(is, js, 1)  BY DEF Enters
  <2> HIDE DEF is
  <2>3. /\ FramesOf(g, T) /\ Reached(g, is)
        /\ Len(g) = Len(h) + 1 /\ g[Len(h) + 1] = x /\ \A i \in 1..Len(h) : g[i] = h[i]
        /\ is[Len(h) + 1] = 1 /\ \A i \in 1..Len(h) : is[i] = js[i]
        /\ \A f \in Fields[T] :
             Pending(g, is, f[1]) <=>
               \/ Pending(h, js, f[1])
               \/ IsPrefix(PathAt(Inmost(h), k), f[1]) /\ f[1] # PathAt(Inmost(h), k)
    BY <1>4, <2>1, <2>2, EnterReached
  <2> QED BY <1>4, <2>3, Zenon DEF q
<1> HIDE DEF is
<1> DEFINE t == FieldTo(s, k)
<1>9. /\ t \in Fields[T] /\ t[1] = q /\ t[2] = TypeAt(s, k) /\ q \in Paths
      /\ q \in PathsOf(T)
  BY <1>2, PlaceAt DEF PathAt, PathsOf, q
<1> HIDE DEF t
<1>10. ASSUME NEW i \in 1..(n + 1)
       PROVE  Splits(g[i].left, OfFirst(i, lost), Bytes(T, m, PlaceIn(g[i]), is[i]),
                     OfFirst(i, tail))
  <2>1. CASE i = n + 1
    <3>1. OfFirst(i, lost) = <<>> /\ OfFirst(i, tail) = <<>>  BY <1>2, <2>1, FirstOnly
    <3>2. g[i].left = Bytes(T, m, PlaceIn(g[i]), is[i])  BY <1>7, <1>8, <2>1 DEF Inside
    <3> QED BY <3>1, <3>2 DEF Splits
  <2>2. CASE i # n + 1  BY <1>2, <2>2, <1>4, <1>8 DEF Streams
  <2> QED BY <2>1, <2>2
<1>11. Streams(T, m, lost, tail, g, is)  BY <1>8, <1>10 DEF Streams
<1>12. DOMAIN d = PathsOf(T)  BY DEF DestOf
<1>13. e[q] = m[q] /\ \A p \in PathsOf(T) : p # q => e[p] = d[p]  BY <1>7, <1>9, <1>12 DEF SetTo
<1>14. ASSUME NEW f \in Fields[T]
       PROVE  e[f[1]] = IF Pending(g, is, f[1]) \/ pb_check_proto3_default_value(f[2], m[f[1]])
                        THEN base[f[1]] ELSE m[f[1]]
  <2> DEFINE p == f[1]
             empty == pb_check_proto3_default_value(f[2], m[p])
  <2>1. p \in Paths /\ p \in PathsOf(T)  BY FieldTyped DEF PathsOf
  <2>2. Pending(g, is, p) <=> Pending(h, js, p) \/ (IsPrefix(q, p) /\ p # q)  BY <1>8
  <2>a. Pending(h, js, p) <=> Pending(frs, js, p)  BY <1>4
  <2>3. CASE p = q
    <3>1. f = t  BY <1>9, <2>3, PathUnique
    <3>2. ~empty  BY <1>7, <1>9, <2>3, <3>1 DEF DefaultAt, q
    <3>3. IsPrefix(q, q)  BY <1>9, PrefixMeans DEF Paths
    <3>4. ~Pending(frs, js, p)  BY <1>6, <1>9, <2>3, <3>3
    <3> HIDE DEF p, empty
    <3>5. e[p] = m[p]  BY <1>13, <2>3
    <3>6. ~Pending(g, is, p)  BY <2>2, <2>3, <2>a, <3>4
    <3> QED BY <3>2, <3>5, <3>6, Zenon DEF p, empty
  <2>4. CASE p # q
    <3>1. Pending(frs, ks, p) <=> Pending(frs, js, p) \/ IsPrefix(q, p)  BY <1>6, <2>1
    <3>2. Pending(frs, ks, p) <=> Pending(g, is, p)  BY <2>2, <2>4, <2>a, <3>1, Zenon
    <3>3. d[p] = IF Pending(frs, ks, p) \/ empty THEN base[p] ELSE m[p]  BY <1>1 DEF Filled
    <3>4. e[p] = d[p]  BY <1>13, <2>1, <2>4
    <3> HIDE DEF p, empty
    <3> QED BY <3>2, <3>3, <3>4, Zenon DEF p, empty
  <2> QED BY <2>3, <2>4
<1>15. Filled(T, m, base, g, is, e)  BY <1>14 DEF Filled
<1> QED BY <1>8, <1>11, <1>15 DEF Follows, CanFollow

\* The last field of a submessage has been read
LEMMA LeaveFollows ==
  ASSUME NEW T \in DOMAIN MaxSize, NEW m, IsMessageOf(T, m), NEW base, NEW lost, NEW tail,
         NEW frs, NEW ks, NEW d, Follows(T, m, base, lost, tail, frs, ks, d),
         ks[Len(frs)] = Count(frs, Len(frs)) + 1, Len(frs) > 1, NEW g, g = Front(frs)
  PROVE  CanFollow(T, m, base, lost, tail, g, d)
<1> DEFINE n == Len(frs)
           js == SubSeq(ks, 1, n - 1)
<1>1. FramesOf(frs, T) /\ Reached(frs, ks) /\ Streams(T, m, lost, tail, frs, ks)
      /\ Filled(T, m, base, frs, ks, d)
  BY DEF Follows
<1>2. n \in Nat /\ n > 1 /\ n \in 1..n /\ Count(frs, n) \in 0..17  BY <1>1, InmostCall
<1>3. FramesOf(g, T) /\ Len(g) = n - 1 /\ \A i \in 1..(n - 1) : g[i] = frs[i]
  BY <1>1, FramesLeave
<1>4. ks \in Seq(1..18) /\ Len(ks) = n  BY <1>1 DEF Reached
<1>5. ks[n] = Count(frs, n) + 1  OBVIOUS
<1> HIDE DEF n
<1>6. js \in Seq(1..18) /\ Len(js) = n - 1 /\ \A i \in 1..(n - 1) : js[i] = ks[i]  BY <1>2, <1>4
<1> HIDE DEF js
<1>7. \A i \in 1..(n - 1) : i \in 1..n /\ Count(g, i) = Count(frs, i)  BY <1>2, <1>3 DEF Count
<1>8. \A i \in 1..(n - 1) : js[i] <= Count(g, i) + 1  BY <1>1, <1>6, <1>7 DEF Reached, n
<1>9. ASSUME NEW j \in 1..(n - 1), NEW i \in 1..(j - 1)
      PROVE  js[i] >= 2 /\ IsPrefix(PathAt(PlaceIn(g[i]), js[i] - 1), g[j].prefix)
  <2>1. i \in 1..(n - 1) /\ j \in 1..n  BY <1>2
  <2>2. ks[i] >= 2 /\ IsPrefix(PathAt(PlaceIn(frs[i]), ks[i] - 1), frs[j].prefix)
    BY <1>1, <2>1 DEF Reached, n
  <2> QED BY <1>3, <1>6, <2>1, <2>2
<1>10. Reached(g, js)  BY <1>3, <1>6, <1>8, <1>9 DEF Reached
<1>11. ASSUME NEW i \in 1..(n - 1)
       PROVE  Splits(g[i].left, OfFirst(i, lost), Bytes(T, m, PlaceIn(g[i]), js[i]),
                     OfFirst(i, tail))
  BY <1>1, <1>7, <1>3, <1>6 DEF Streams, n
<1>12. Streams(T, m, lost, tail, g, js)  BY <1>3, <1>11 DEF Streams
<1>13. ASSUME NEW p PROVE Pending(g, js, p) <=> Pending(frs, ks, p)
  <2>1. \A i \in 1..(n - 1) : PendingAt(g, js, i, p) <=> PendingAt(frs, ks, i, p)
    <3> SUFFICES ASSUME NEW i \in 1..(n - 1)
                 PROVE  PendingAt(g, js, i, p) <=> PendingAt(frs, ks, i, p)
      OBVIOUS
    <3>1. g[i] = frs[i] /\ js[i] = ks[i] /\ Count(g, i) = Count(frs, i)  BY <1>3, <1>6, <1>7
    <3> QED BY <3>1 DEF PendingAt
  <2>2. ~PendingAt(frs, ks, n, p)
    <3> DEFINE c == Count(frs, n)
    <3>1. c \in 0..17 /\ ks[n] = c + 1  BY <1>2, <1>5
    <3> HIDE DEF c
    <3>2. ks[n]..c = {}  BY <3>1
    <3> QED BY <3>2 DEF PendingAt, c
  <2>3. \A i \in 1..n : i = n \/ i \in 1..(n - 1)  BY <1>2
  <2>4. Pending(frs, ks, p) <=> \E i \in 1..(n - 1) : PendingAt(frs, ks, i, p)
    BY <1>7, <2>2, <2>3 DEF Pending, n
  <2>5. Pending(g, js, p) <=> \E i \in 1..(n - 1) : PendingAt(g, js, i, p)  BY <1>3 DEF Pending
  <2>6. (\E i \in 1..(n - 1) : PendingAt(g, js, i, p))
        <=> \E i \in 1..(n - 1) : PendingAt(frs, ks, i, p)
    BY <2>1
  <2> QED BY <2>4, <2>5, <2>6
<1>14. Filled(T, m, base, g, js, d)  BY <1>1, <1>13 DEF Filled
<1> QED BY <1>3, <1>10, <1>12, <1>14 DEF Follows, CanFollow

\* The innermost call is the one that the steps are of
LEMMA InmostInner ==
  ASSUME NEW T \in DOMAIN MaxSize, FramesOf(frames, T)
  PROVE  Inner = frames[Len(frames)] /\ Inmost(frames) = PlaceIn(Inner)
         /\ Inmost(frames)[2] = Inner.type /\ Inmost(frames)[1] = Inner.prefix
BY Current DEF Inmost, PlaceIn

\* They are bytes
LEMMA OfFirstTyped ==
  ASSUME NEW i, NEW b \in Seq(Byte)
  PROVE  OfFirst(i, b) \in Seq(Byte) /\ (OfFirst(i, b) # <<>> => i = 1 /\ b # <<>>)
BY DEF OfFirst

\* All the fields of the innermost call have been read
LEMMA StepAtEnd ==
  ASSUME NEW T \in DOMAIN MaxSize, NEW m, IsMessageOf(T, m), NEW base,
         NEW lost \in Seq(Byte), NEW tail \in Seq(Byte),
         DecoderOf(T), verdict = "decoding", PbDecodeNext,
         NEW ks, Follows(T, m, base, lost, tail, frames, ks, dest),
         ks[Len(frames)] = Count(frames, Len(frames)) + 1
  PROVE  \/ Goes(T, m, base, lost, tail)
         \/ Done(T, m, base, lost, tail)
<1> DEFINE n == Len(frames)
           s == Inmost(frames)
           k == ks[n]
           l == Inner.left
<1>1. FramesOf(frames, T) /\ Reached(frames, ks) /\ Streams(T, m, lost, tail, frames, ks)
      /\ Filled(T, m, base, frames, ks, dest)
  BY DEF Follows
<1>2. /\ s \in Nested(T) /\ k \in 1..18 /\ n \in Nat /\ n >= 1 /\ n \in 1..n
      /\ Count(frames, n) \in 0..17 /\ Count(frames, n) = Len(Message[s[2]])
      /\ s = PlaceIn(frames[n]) /\ l \in Seq(Byte)
  BY <1>1, InmostCall, Current
<1>3. k = Count(frames, n) + 1  OBVIOUS
<1> HIDE DEF n, s, k
<1>4. Bytes(T, m, s, k) = <<>>
  <2>1. k > Len(Message[s[2]])  BY <1>2, <1>3
  <2> QED BY <1>2, <2>1, BytesEnd
<1>5. Splits(l, OfFirst(n, lost), <<>>, OfFirst(n, tail))
  BY <1>1, <1>2, InmostInner, <1>4 DEF Streams, n, k
<1>6. CASE n > 1
  <2>1. OfFirst(n, lost) = <<>> /\ OfFirst(n, tail) = <<>>  BY <1>2, <1>6, FirstOnly
  <2>2. l = <<>>  BY <1>2, <1>5, <2>1 DEF Splits
  <2>a. Len(frames) # 1 /\ Inner.left = <<>>  BY <1>2, <1>6, <2>2 DEF n
  <2>3. LeaveSubmessage
    BY <2>a, Zenon DEF PbDecodeNext, DecodeBadTag, SkipUnknownField, DecodeField,
       EnterSubmessage, Accept, Reading
  <2>4. frames' = Front(frames) /\ dest' = dest /\ verdict' = "decoding"
    BY <2>3 DEF LeaveSubmessage
  <2>5. CanFollow(T, m, base, lost, tail, frames', dest)
    BY <1>3, <1>6, <2>4, LeaveFollows DEF n, k
  <2> QED BY <2>4, <2>5 DEF Goes
<1>7. CASE n = 1
  <2>1. Splits(l, lost, <<>>, tail)  BY <1>5, <1>7 DEF OfFirst
  <2>2. ASSUME NEW p PROVE ~Pending(frames, ks, p)
    <3> DEFINE c == Count(frames, 1)
    <3>1. c \in 0..17 /\ ks[1] = c + 1  BY <1>2, <1>3, <1>7 DEF k
    <3> HIDE DEF c
    <3>2. ks[1]..c = {}  BY <3>1
    <3>3. ~PendingAt(frames, ks, 1, p)  BY <3>2 DEF PendingAt, c
    <3> QED BY <1>7, <3>3 DEF Pending, n
  <2>3. Taken(T, m, base, dest)  BY <1>1, <2>2 DEF Filled, Taken
  <2> QED BY <1>7, <2>1, <2>3 DEF Done, n
<1> QED BY <1>2, <1>6, <1>7

\* The innermost call is at a field that is on the wire
LEMMA StepAtField ==
  ASSUME NEW T \in DOMAIN MaxSize, NEW m, IsMessageOf(T, m), NEW base,
         NEW lost \in Seq(Byte), NEW tail \in Seq(Byte),
         DecoderOf(T), verdict = "decoding", PbDecodeNext,
         NEW ks, Follows(T, m, base, lost, tail, frames, ks, dest),
         ks[Len(frames)] <= Count(frames, Len(frames)),
         ~DefaultAt(m, Inmost(frames), ks[Len(frames)])
  PROVE  \/ Goes(T, m, base, lost, tail)
         \/ Fails(lost)
         \/ EndsEarly(lost)
<1> DEFINE n == Len(frames)
           s == Inmost(frames)
           k == ks[n]
           l == Inner.left
           ll == OfFirst(n, lost)
           rr == OfFirst(n, tail)
           type == TypeAt(s, k)
           carried == Carried(type, m[PathAt(s, k)], Inside(T, m, s, k))
           b == Bytes(T, m, s, k + 1)
<1>1. FramesOf(frames, T) /\ Reached(frames, ks) /\ Streams(T, m, lost, tail, frames, ks)
      /\ DestOf(dest, T)
  BY DEF Follows, DecoderOf
<1>2. /\ s \in Nested(T) /\ k \in 1..Len(Message[s[2]]) /\ n \in Nat /\ n >= 1 /\ n \in 1..n
      /\ s = PlaceIn(frames[n]) /\ l \in Seq(Byte) /\ k + 1 \in 1..18
      /\ k \in 1..Count(frames, n)
  BY <1>1, InmostCall, Current
<1>3. ll \in Seq(Byte) /\ rr \in Seq(Byte) /\ (ll # <<>> => n = 1 /\ lost # <<>>)
  BY OfFirstTyped
<1>4. ~DefaultAt(m, s, k)  OBVIOUS
<1>5. Splits(l, ll, Bytes(T, m, s, k), rr)  BY <1>1, <1>2, InmostInner DEF Streams
<1>6. ReadsField(l, ll, type, k, carried, b \o rr) /\ (l = <<>> => ll # <<>>)
  <2> HIDE DEF ll, rr, s, k, n, l
  <2> QED BY <1>2, <1>3, <1>4, <1>5, ReadsNext
<1> HIDE DEF ll, rr, b, carried
<1>7. CASE l = <<>>
  <2>1. n = 1 /\ lost # <<>>  BY <1>3, <1>6, <1>7
  <2>2. Accept
    BY <1>7, <2>1 DEF PbDecodeNext, DecodeBadTag, SkipUnknownField, DecodeField,
       EnterSubmessage, LeaveSubmessage, Reading
  <2> QED BY <1>7, <2>1, <2>2 DEF EndsEarly
<1>8. CASE l # <<>>
  <2>1. DecodeBadTag \/ SkipUnknownField \/ DecodeField \/ EnterSubmessage
    BY <1>8 DEF PbDecodeNext, LeaveSubmessage, Accept
  <2>2. Tag = pb_decode_tag(l)  BY DEF Tag
  <2> HIDE DEF s, k, n, l, type
  <2>3. CASE ~Tag.ok /\ ll # <<>>
    BY <2>1, <2>3, <1>3 DEF DecodeBadTag, Reject, SkipUnknownField, DecodeField, EnterSubmessage,
       Fails
  <2>4. CASE /\ Tag.ok /\ Tag.val = k /\ Tag.wire = wire_type_of(type) /\ Tag.rest \in Seq(Byte)
             /\ Reads(ValueRead(type, Tag.rest), ll, carried, b \o rr)
    <3>1. Inner.type = s[2] /\ Inner.prefix = s[1]  BY <1>1, InmostInner DEF s
    <3>2. s[2] \in DOMAIN Message  BY <1>2, NestedLevel
    <3>3. Known /\ Tag.val # 0  BY <1>2, <2>4, <3>1, <3>2, LengthOf DEF Known
    <3>4. FieldType = type /\ FieldPath = PathAt(s, k)
      BY <2>4, <3>1 DEF FieldType, FieldPath, type, TypeAt, PathAt, FieldTo
    <3> DEFINE x == decode_basic_field(Tag.rest, FieldType)
    <3>5. x = ValueRead(type, Tag.rest)  BY <2>4, <3>4, Zenon DEF decode_basic_field, ValueRead
    <3> HIDE DEF x
    <3>6. CASE ~x.ok /\ ll # <<>>
      BY <2>1, <2>4, <3>3, <3>6, <1>3 DEF DecodeBadTag, Reject, SkipUnknownField, DecodeField,
         EnterSubmessage, x, Fails
    <3>7. CASE \E r \in Seq(Byte) : x = Got(carried, r) /\ r \o ll = b \o rr
      <4>1. PICK r \in Seq(Byte) : x = Got(carried, r) /\ r \o ll = b \o rr  BY <3>7
      <4>2. x.ok /\ x.val = carried /\ x.rest = r  BY <4>1, GotFields
      <4>3. Splits(r, ll, b, rr)  BY <4>1 DEF Splits
      <4>4. Splits(r, OfFirst(Len(frames), lost), Bytes(T, m, Inmost(frames),
          ks[Len(frames)] + 1),
                   OfFirst(Len(frames), tail))
        BY <4>3 DEF ll, b, rr, s, k, n
      <4>5. CASE IsMessage(type)
        <5>1. carried = Inside(T, m, s, k)  BY <4>5 DEF carried, Carried
        <5>2. EnterSubmessage
          BY <2>1, <2>4, <3>3, <3>4, <4>5 DEF DecodeBadTag, SkipUnknownField, DecodeField
        <5>3. /\ dest' = [dest EXCEPT ![FieldPath] = {0}]
              /\ frames' = Append([frames EXCEPT ![Len(frames)].left = x.rest],
                                  [type |-> FieldType, prefix |-> FieldPath, left |-> x.val])
              /\ verdict' = "decoding"
          BY <4>2, <5>2 DEF EnterSubmessage, x
        <5> DEFINE h == [frames EXCEPT ![Len(frames)].left = r]
                   y == [type |-> type, prefix |-> PathAt(s, k), left |-> carried]
        <5>4. ContinuesTo(h, frames, r)  BY DEF ContinuesTo
        <5>5. Enters(frames', h, y)  BY <3>4, <4>2, <5>3 DEF Enters
        <5>6. y \in Frame /\ PlaceIn(y) = FieldTo(s, k) /\ y.left = Inside(T, m, s, k)
          BY <1>2, PlaceAt, <4>5, <5>1, FieldBytesTyped DEF type, IsMessage, Frame, PlaceIn
        <5>7. m[PathAt(s, k)] = {0}
          BY <1>2, FieldBytesTyped, <4>5, BasicNotMessage, <1>4 DEF type, FieldValues, DefaultAt,
             pb_check_proto3_default_value
        <5> HIDE DEF h, y
        <5>8. SetTo(dest', dest, PathAt(Inmost(frames), ks[Len(frames)]),
                    m[PathAt(Inmost(frames), ks[Len(frames)])])
          BY <3>4, <5>3, <5>7 DEF SetTo, s, k, n
        <5>9. CanFollow(T, m, base, lost, tail, frames', dest')
          BY <4>5, <5>6, <1>1, <4>4, <5>4, <5>5, <5>8, EnterFollows DEF type, s, k, n
        <5> QED BY <5>3, <5>9 DEF Goes
      <4>6. CASE ~IsMessage(type)
        <5>1. carried = m[PathAt(s, k)]  BY <4>6 DEF carried, Carried
        <5>2. DecodeField
          BY <2>1, <2>4, <3>3, <3>4, <4>6 DEF DecodeBadTag, SkipUnknownField, EnterSubmessage
        <5>3. /\ dest' = [dest EXCEPT ![FieldPath] = x.val]
              /\ Continue(x.rest) /\ verdict' = "decoding"
          BY <4>2, <5>2 DEF DecodeField, x
        <5>4. ContinuesTo(frames', frames, r)  BY <4>2, <5>3 DEF ContinuesTo, Continue
        <5>5. SetTo(dest', dest, PathAt(Inmost(frames), ks[Len(frames)]),
                    m[PathAt(Inmost(frames), ks[Len(frames)])])
          BY <3>4, <4>2, <5>1, <5>3 DEF SetTo, s, k, n
        <5>6. ~IsMessage(TypeAt(Inmost(frames), ks[Len(frames)]))  BY <4>6 DEF type, s, k, n
        <5>7. CanFollow(T, m, base, lost, tail, frames', dest')
          BY <1>1, <4>4, <5>4, <5>5, <5>6, FieldFollows
        <5> QED BY <5>3, <5>7 DEF Goes
      <4> QED BY <4>5, <4>6
    <3> QED BY <2>4, <3>5, <3>6, <3>7 DEF Reads
  <2> QED BY <1>6, <2>2, <2>3, <2>4, Zenon DEF ReadsField
<1> QED BY <1>7, <1>8

\* What a step of the decoder does while it reads message m
LEMMA StepFollows ==
  ASSUME NEW T \in DOMAIN MaxSize, NEW m, IsMessageOf(T, m), NEW base,
         NEW lost \in Seq(Byte), NEW tail \in Seq(Byte),
         DecoderOf(T), verdict = "decoding", PbDecodeNext,
         CanFollow(T, m, base, lost, tail, frames, dest)
  PROVE  \/ Goes(T, m, base, lost, tail)
         \/ Fails(lost)
         \/ EndsEarly(lost)
         \/ Done(T, m, base, lost, tail)
<1>1. PICK ks : Follows(T, m, base, lost, tail, frames, ks, dest) /\ Stopped(m, frames, ks)
  BY FollowsToField
<1>2. CASE ks[Len(frames)] = Count(frames, Len(frames)) + 1  BY <1>1, <1>2, StepAtEnd
<1>3. CASE ks[Len(frames)] <= Count(frames, Len(frames))
           /\ ~DefaultAt(m, Inmost(frames), ks[Len(frames)])
  BY <1>1, <1>3, StepAtField
<1> QED BY <1>1, <1>2, <1>3 DEF Stopped

\* By their elements
LEMMA JoinedParts ==
  ASSUME NEW s \in Seq(Byte), NEW b \in Seq(Byte), NEW c, Joined(c, s, b)
  PROVE  /\ c \in Seq(Byte) /\ Len(c) = Len(s) + Len(b) /\ Len(s) \in Nat /\ Len(b) \in Nat
         /\ \A i \in 1..Len(s) : c[i] = s[i]
         /\ \A i \in 1..Len(b) : c[Len(s) + i] = b[i]
BY Concat DEF Joined

\* They are cut apart
LEMMA JoinedCut ==
  ASSUME NEW s \in Seq(Byte), NEW b \in Seq(Byte), NEW c, Joined(c, s, b)
  PROVE  Drop(c, Len(s)) = b /\ SubSeq(c, 1, Len(s)) = s
BY DropOfConcat, TakeOfConcat DEF Joined

\* and what is cut apart is joined again
LEMMA CutJoined ==
  ASSUME NEW s \in Seq(Byte), NEW n \in 0..Len(s)
  PROVE  /\ SubSeq(s, 1, n) \in Seq(Byte) /\ Len(SubSeq(s, 1, n)) = n
         /\ Drop(s, n) \in Seq(Byte) /\ Joined(s, SubSeq(s, 1, n), Drop(s, n))
<1>1. Len(s) \in Nat /\ n <= Len(s) /\ n \in Nat  OBVIOUS
<1>2. SubSeq(s, 1, n) \in Seq(Byte) /\ Drop(s, n) \in Seq(Byte)  BY CutTyped
<1>3. Len(SubSeq(s, 1, n)) = n /\ \A i \in 1..n : SubSeq(s, 1, n)[i] = s[i]  BY <1>1
<1>4. Len(Drop(s, n)) = Len(s) - n /\ \A i \in 1..(Len(s) - n) : Drop(s, n)[i] = s[n + i]
  BY DropProperties
<1>5. PICK t, d, e : t = SubSeq(s, 1, n) /\ d = Drop(s, n) /\ e = t \o d  OBVIOUS
<1>6. t \in Seq(Byte) /\ d \in Seq(Byte) /\ Joined(e, t, d)  BY <1>2, <1>5 DEF Joined
<1>7. /\ e \in Seq(Byte) /\ Len(e) = Len(t) + Len(d)
      /\ \A i \in 1..Len(t) : e[i] = t[i]
      /\ \A i \in 1..Len(d) : e[Len(t) + i] = d[i]
  BY <1>6, JoinedParts
<1>8. /\ Len(t) = n /\ Len(d) = Len(s) - n
      /\ (\A i \in 1..n : t[i] = s[i]) /\ \A i \in 1..(Len(s) - n) : d[i] = s[n + i]
  BY <1>3, <1>4, <1>5
<1>9. Len(e) = Len(s)  BY <1>1, <1>7, <1>8
<1>10. ASSUME NEW i \in 1..Len(s) PROVE e[i] = s[i]
  <2>1. CASE i <= n  BY <1>1, <2>1, <1>7, <1>8
  <2>2. CASE i > n
    <3>1. i - n \in 1..(Len(s) - n) /\ n + (i - n) = i  BY <1>1, <2>2
    <3>2. e[n + (i - n)] = d[i - n] /\ d[i - n] = s[n + (i - n)]  BY <1>7, <1>8, <3>1
    <3> QED BY <3>1, <3>2
  <2> QED BY <1>1, <2>1, <2>2
<1>11. e = s  BY <1>7, <1>9, <1>10
<1> QED BY <1>2, <1>3, <1>5, <1>6, <1>11

\* Three parts
LEMMA JoinedTwice ==
  ASSUME NEW s \in Seq(Byte), NEW t \in Seq(Byte), NEW b \in Seq(Byte),
         NEW r, Joined(r, s, t), NEW c, Joined(c, r, b)
  PROVE  Joined(c, s, t \o b) /\ Joined(t \o b, t, b) /\ t \o b \in Seq(Byte)
BY DEF Joined

\* The same value
LEMMA GotAlike ==
  ASSUME NEW v, NEW r, NEW q, NEW b, Joined(q, r, b)
  PROVE  ReadsAlike(Got(v, q), Got(v, r), b)
BY GotFields DEF ReadsAlike

\* The readers do: pb_read,
LEMMA ReadMore ==
  ASSUME NEW s \in Seq(Byte), NEW b \in Seq(Byte), NEW c, Joined(c, s, b),
         NEW n \in Nat, pb_read(s, n).ok
  PROVE  ReadsAlike(pb_read(c, n), pb_read(s, n), b) /\ n \in 0..Len(s)
<1>1. Len(c) = Len(s) + Len(b) /\ Len(s) \in Nat /\ Len(b) \in Nat /\ c \in Seq(Byte)
  BY JoinedParts
<1>2. ~(Len(s) < n)  BY DEF pb_read, Failed
<1> DEFINE t == SubSeq(s, 1, n)
           d == Drop(s, n)
           r == d \o b
<1>3. n \in 0..Len(s) /\ ~(Len(c) < n)  BY <1>1, <1>2
<1>4. t \in Seq(Byte) /\ Len(t) = n /\ d \in Seq(Byte) /\ Joined(s, t, d)  BY <1>3, CutJoined
<1>5. pb_read(s, n) = Got(t, d)  BY <1>2 DEF pb_read
<1> HIDE DEF t, d
<1>6. Joined(c, t, r) /\ Joined(r, d, b) /\ r \in Seq(Byte)  BY <1>4, JoinedTwice
<1> HIDE DEF r
<1>7. Drop(c, n) = r /\ SubSeq(c, 1, n) = t  BY <1>4, <1>6, JoinedCut
<1>8. pb_read(c, n) = Got(t, r)  BY <1>3, <1>7 DEF pb_read
<1> QED BY <1>3, <1>5, <1>6, <1>8, GotAlike

\* of a varint its length,
LEMMA VarintMore ==
  ASSUME NEW s \in Seq(Byte), NEW b \in Seq(Byte), NEW c, Joined(c, s, b), VarintLen(s) > 0
  PROVE  /\ VarintLen(c) = VarintLen(s)
         /\ Joined(Drop(c, VarintLen(s)), Drop(s, VarintLen(s)), b)
         /\ \A i \in 1..VarintLen(s) : c[i] = s[i]
<1> DEFINE n == VarintLen(s)
           d == Drop(s, n)
<1>1. n \in Nat /\ n <= Len(s) /\ n > 0 /\ 7 \notin s[n] /\ \A i \in 1..(n - 1) : 7 \in s[i]
  BY VarintLenProperties
<1>2. n \in 0..Len(s) /\ Len(s) \in Nat  BY <1>1
<1> HIDE DEF n
<1>3. /\ c \in Seq(Byte) /\ Len(c) = Len(s) + Len(b) /\ Len(b) \in Nat
      /\ \A i \in 1..Len(s) : c[i] = s[i]
  BY JoinedParts
<1>4. ~(Len(s) < n) /\ ~(Len(c) < n)  BY <1>2, <1>3
<1>5. pb_read(s, n) = Got(SubSeq(s, 1, n), d) /\ pb_read(c, n) = Got(SubSeq(c, 1, n), Drop(c, n))
  BY <1>4 DEF pb_read
<1>6. Joined(Drop(c, n), d, b)  BY <1>1, <1>5, GotFields, ReadMore DEF ReadsAlike
<1>7. \A i \in 1..n : c[i] = s[i]  BY <1>2, <1>3
<1>8. VarintLen(c) = n
  <2>1. /\ VarintLen(c) \in Nat /\ VarintLen(c) <= Len(c)
        /\ VarintLen(c) = 0 => \A i \in 1..Len(c) : 7 \in c[i]
        /\ VarintLen(c) > 0 => 7 \notin c[VarintLen(c)]
                               /\ \A i \in 1..(VarintLen(c) - 1) : 7 \in c[i]
    BY <1>3, VarintLenProperties
  <2> DEFINE l == VarintLen(c)
  <2> HIDE DEF l
  <2>2. l # 0  BY <1>1, <1>2, <1>3, <1>7, <2>1 DEF l
  <2>3. l \in Nat /\ l > 0 /\ 7 \notin c[l] /\ \A i \in 1..(l - 1) : 7 \in c[i]
    BY <2>1, <2>2 DEF l
  <2>4. ~(l < n)
    <3> SUFFICES ASSUME l < n PROVE FALSE
      OBVIOUS
    <3>1. l \in 1..(n - 1) /\ l \in 1..n  BY <1>1, <2>3
    <3> QED BY <1>1, <1>7, <2>3, <3>1
  <2>5. ~(n < l)
    <3> SUFFICES ASSUME n < l PROVE FALSE
      OBVIOUS
    <3>1. n \in 1..(l - 1) /\ n \in 1..n  BY <1>1, <2>3
    <3> QED BY <1>1, <1>7, <2>3, <3>1
  <2>6. l = n  BY <1>1, <2>3, <2>4, <2>5
  <2> QED BY <2>6 DEF l
<1> QED BY <1>6, <1>7, <1>8 DEF n

\* its value,
LEMMA Varint32More ==
  ASSUME NEW s \in Seq(Byte), NEW b \in Seq(Byte), NEW c, Joined(c, s, b),
         pb_decode_varint32(s).ok
  PROVE  ReadsAlike(pb_decode_varint32(c), pb_decode_varint32(s), b)
<1> DEFINE n == VarintLen(s)
           k == IF n < 5 THEN n ELSE 5
           v == Groups(s, k, 32)
           Valid(l) == /\ n > 0 /\ \A i \in 6..n : ValidExtension(l, i, v)
                       /\ ~(n = 5 /\ l[5] \cap {4, 5, 6} # {})
<1>0. n \in Nat  BY VarintLenProperties
<1>1. pb_decode_varint32(s) = IF Valid(s) THEN Got(v, Drop(s, n)) ELSE Failed(s)
  BY Zenon DEF pb_decode_varint32
<1>2. Valid(s)
  <2> HIDE DEF Valid, v
  <2> QED BY <1>1 DEF Failed
<1>3. VarintLen(c) = n /\ Joined(Drop(c, n), Drop(s, n), b) /\ \A i \in 1..n : c[i] = s[i]
  BY <1>2, VarintMore
<1> HIDE DEF n
<1>4. Groups(c, k, 32) = v
  <2>1. \A i \in 1..k : i \in 1..n  BY <1>0
  <2>2. \A i \in 1..k : c[i] = s[i]  BY <1>3, <2>1
  <2> HIDE DEF k
  <2> QED BY <2>2 DEF Groups
<1> HIDE DEF v
<1>5. Valid(c)  BY <1>0, <1>2, <1>3 DEF ValidExtension
<1>6. pb_decode_varint32(c) = IF Valid(c) THEN Got(v, Drop(c, n)) ELSE Failed(c)
  BY <1>3, <1>4, Zenon DEF pb_decode_varint32
<1>7. pb_decode_varint32(c) = Got(v, Drop(c, n))  BY <1>5, <1>6
<1>8. pb_decode_varint32(s) = Got(v, Drop(s, n))  BY <1>1, <1>2
<1> QED BY <1>3, <1>7, <1>8, GotAlike

\* and its skipping,
LEMMA SkipVarintMore ==
  ASSUME NEW s \in Seq(Byte), NEW b \in Seq(Byte), NEW c, Joined(c, s, b), pb_skip_varint(s).ok
  PROVE  ReadsAlike(pb_skip_varint(c), pb_skip_varint(s), b)
<1> DEFINE n == VarintLen(s)
<1>1. n > 0  BY DEF pb_skip_varint, Failed
<1>2. VarintLen(c) = n /\ Joined(Drop(c, n), Drop(s, n), b)  BY <1>1, VarintMore
<1>3. pb_skip_varint(s) = Got({}, Drop(s, n))  BY <1>1 DEF pb_skip_varint
<1> HIDE DEF n
<1>4. pb_skip_varint(c) = Got({}, Drop(c, n))  BY <1>1, <1>2 DEF pb_skip_varint
<1> QED BY <1>2, <1>3, <1>4, GotAlike

\* that of a string,
LEMMA SkipStringMore ==
  ASSUME NEW s \in Seq(Byte), NEW b \in Seq(Byte), NEW c, Joined(c, s, b), pb_skip_string(s).ok
  PROVE  ReadsAlike(pb_skip_string(c), pb_skip_string(s), b)
<1> DEFINE x == pb_decode_varint32(s)
           y == pb_decode_varint32(c)
           n == Number(x.val)
           z == pb_read(x.rest, n)
           w == pb_read(y.rest, n)
<1>0. ~Failed(s).ok  BY DEF Failed
<1>1. pb_string(s) = IF x.ok THEN z ELSE Failed(s)  BY DEF pb_string
<1>2. pb_skip_string(s) = IF pb_string(s).ok THEN Got({}, pb_string(s).rest) ELSE Failed(s)
  BY DEF pb_skip_string
<1>3. pb_string(c) = IF y.ok THEN pb_read(y.rest, Number(y.val)) ELSE Failed(c)
  BY DEF pb_string
<1>4. pb_skip_string(c) = IF pb_string(c).ok THEN Got({}, pb_string(c).rest) ELSE Failed(c)
  BY DEF pb_skip_string
<1>5. x.ok => ReadsAlike(y, x, b) /\ x.rest \in Seq(Byte)
  BY Varint32More, VarintTyped DEF Gives
<1>6. n \in Nat  BY NumberType
<1> HIDE DEF x, y
<1>7. pb_string(s).ok /\ x.ok /\ z.ok /\ pb_skip_string(s) = Got({}, z.rest)
  BY <1>0, <1>1, <1>2, Zenon
<1>8. y.ok /\ y.val = x.val /\ Joined(y.rest, x.rest, b) /\ x.rest \in Seq(Byte)
  BY <1>5, <1>7 DEF ReadsAlike
<1>9. ReadsAlike(w, z, b)  BY <1>6, <1>7, <1>8, ReadMore
<1>10. pb_string(c) = w  BY <1>3, <1>8
<1> HIDE DEF z, w
<1>11. pb_skip_string(c) = Got({}, w.rest) /\ Joined(w.rest, z.rest, b)
  BY <1>4, <1>9, <1>10 DEF ReadsAlike
<1> QED BY <1>7, <1>11, GotAlike

\* and of a field of any wire type
LEMMA SkipMore ==
  ASSUME NEW s \in Seq(Byte), NEW b \in Seq(Byte), NEW c, Joined(c, s, b), NEW wire,
         pb_skip_field(s, wire).ok
  PROVE  ReadsAlike(pb_skip_field(c, wire), pb_skip_field(s, wire), b)
<1>1. CASE wire = 0
  BY <1>1, SkipVarintMore DEF pb_skip_field, WT_VARINT, WT_64BIT, WT_STRING, WT_32BIT
<1>2. CASE wire = 1
  BY <1>2, ReadMore DEF pb_skip_field, WT_VARINT, WT_64BIT, WT_STRING, WT_32BIT
<1>3. CASE wire = 2
  BY <1>3, SkipStringMore DEF pb_skip_field, WT_VARINT, WT_64BIT, WT_STRING, WT_32BIT
<1>4. CASE wire = 5
  BY <1>4, ReadMore DEF pb_skip_field, WT_VARINT, WT_64BIT, WT_STRING, WT_32BIT
<1>5. CASE wire \notin {0, 1, 2, 5}
  BY <1>5 DEF pb_skip_field, WT_VARINT, WT_64BIT, WT_STRING, WT_32BIT, Failed
<1> QED BY <1>1, <1>2, <1>3, <1>4, <1>5

\* A field that no message has is read and skipped, whatever comes after it
LEMMA UnknownSkipped ==
  ASSUME NEW u, IsUnknownField(u), NEW b \in Seq(Byte), NEW c, Joined(c, u, b)
  PROVE  LET tag == pb_decode_tag(c)
             skipped == pb_skip_field(tag.rest, tag.wire)
         IN  /\ c # <<>> /\ tag.ok /\ tag.val > 17
             /\ skipped.ok /\ skipped.rest = b
<1> DEFINE x == pb_decode_tag(u)
           y == pb_decode_tag(c)
           p == pb_decode_varint32(u)
           q == pb_decode_varint32(c)
<1>1. /\ u \in Seq(Byte) /\ u # <<>> /\ x.ok /\ x.val > 17
      /\ pb_skip_field(x.rest, x.wire).ok /\ pb_skip_field(x.rest, x.wire).rest = <<>>
  BY DEF IsUnknownField
<1>2. /\ x.ok = p.ok /\ x.val = Number(Shr(p.val, 3)) /\ x.wire = Number(Cast(p.val, 3))
      /\ x.rest = p.rest
  BY DEF pb_decode_tag
<1>3. /\ y.ok = q.ok /\ y.val = Number(Shr(q.val, 3)) /\ y.wire = Number(Cast(q.val, 3))
      /\ y.rest = q.rest
  BY DEF pb_decode_tag
<1>4. x.rest \in Seq(Byte)  BY <1>1, TagTyped
<1> HIDE DEF x, y
<1>5. ReadsAlike(q, p, b)  BY <1>1, <1>2, Varint32More
<1>6. y.ok /\ y.val = x.val /\ y.wire = x.wire /\ Joined(y.rest, x.rest, b)
  BY <1>2, <1>3, <1>5 DEF ReadsAlike
<1>7. ReadsAlike(pb_skip_field(y.rest, x.wire), pb_skip_field(x.rest, x.wire), b)
  BY <1>1, <1>4, <1>6, SkipMore
<1>8. <<>> \o b = b  OBVIOUS
<1>9. c # <<>>  BY <1>1, JoinedParts
<1>10. pb_skip_field(y.rest, y.wire).ok /\ pb_skip_field(y.rest, y.wire).rest = b
  BY <1>1, <1>6, <1>7, <1>8 DEF ReadsAlike, Joined
<1> QED BY <1>1, <1>6, <1>9, <1>10 DEF y

\* Every path is below the outermost one
LEMMA BelowOutermost ==
  ASSUME NEW T \in DOMAIN MaxSize, NEW f \in Fields[T]
  PROVE  f[1] \in Seq(Names) /\ Len(f[1]) >= 1 /\ IsPrefix(<<>>, f[1]) /\ f[1] # <<>>
<1>1. f[1] \in Seq(Names) /\ Len(f[1]) \in 1..4  BY FieldTyped DEF Paths
<1>2. PICK p, e, n : p = f[1] /\ e = <<>> /\ n = Len(p)  OBVIOUS
<1>3. n \in 1..4  BY <1>1, <1>2
<1>4. n \in Nat /\ n >= 1  BY <1>3
<1>5. p \in Seq(Names) /\ e \in Seq(Names) /\ Len(e) = 0  BY <1>1, <1>2
<1>6. Len(e) <= Len(p) /\ \A i \in 1..Len(e) : e[i] = p[i]  BY <1>2, <1>4, <1>5
<1>7. p # e  BY <1>2, <1>4, <1>5
<1>8. IsPrefix(e, p)  BY <1>5, <1>6, PrefixMeans
<1> QED BY <1>1, <1>2, <1>4, <1>7, <1>8

\* A decoder that is about to read message m into base
LEMMA StartFollows ==
  ASSUME NEW T \in DOMAIN MaxSize, NEW m, NEW base, NEW lost, NEW tail,
         NEW g, FramesOf(g, T), Len(g) = 1,
         Splits(g[1].left, lost, Bytes(T, m, Top(T), 1), tail)
  PROVE  CanFollow(T, m, base, lost, tail, g, base)
<1> DEFINE ks == <<1>>
<1>1. PlaceIn(g[1]) = Top(T) /\ Count(g, 1) = Len(Message[T])
  BY DEF FramesOf, PlaceIn, Top, Count
<1>2. T \in DOMAIN Message /\ Top(T) \in Nested(T) /\ Top(T)[1] = <<>> /\ Top(T)[2] = T
  BY Outermost, TopIn
<1>3. Len(Message[T]) \in Nat  BY <1>2, LengthOf
<1>4. ks \in Seq(1..18) /\ Len(ks) = 1 /\ ks[1] = 1  OBVIOUS
<1> HIDE DEF ks
<1>5. Reached(g, ks)  BY <1>1, <1>3, <1>4 DEF Reached
<1>6. Streams(T, m, lost, tail, g, ks)  BY <1>1, <1>4 DEF Streams, OfFirst
<1>7. ASSUME NEW f \in Fields[T] PROVE Pending(g, ks, f[1])
  BY BelowOutermost, <1>2, BelowSubmessage, <1>1, <1>4 DEF PendingAt, Pending
<1>8. Filled(T, m, base, g, ks, base)  BY <1>7 DEF Filled
<1> QED BY <1>5, <1>6, <1>8 DEF CanFollow, Follows

\* One that has read it
LEMMA EndFollows ==
  ASSUME NEW T \in DOMAIN MaxSize, NEW m, IsMessageOf(T, m), NEW base, NEW d,
         NEW g, FramesOf(g, T), Len(g) = 1, g[1].left = <<>>, Taken(T, m, base, d)
  PROVE  CanFollow(T, m, base, <<>>, <<>>, g, d)
<1> DEFINE c == Len(Message[T])
           ks == <<c + 1>>
<1>1. PlaceIn(g[1]) = Top(T) /\ Count(g, 1) = c  BY DEF FramesOf, PlaceIn, Top, Count
<1>2. T \in DOMAIN Message /\ Top(T) \in Nested(T) /\ Top(T)[2] = T  BY Outermost, TopIn
<1>3. c \in Nat /\ c <= 17  BY <1>2, LengthOf
<1> HIDE DEF c
<1>4. c + 1 \in 1..18  BY <1>3
<1>5. ks \in Seq(1..18) /\ Len(ks) = 1 /\ ks[1] = c + 1  BY <1>4
<1> HIDE DEF ks
<1>6. Reached(g, ks)  BY <1>1, <1>3, <1>5 DEF Reached
<1>7. Bytes(T, m, Top(T), c + 1) = <<>>  BY <1>2, <1>3, <1>4, BytesEnd, SMTT(30) DEF c
<1>8. Streams(T, m, <<>>, <<>>, g, ks)  BY <1>1, <1>5, <1>7 DEF Splits, Streams, OfFirst
<1>9. ASSUME NEW p PROVE ~Pending(g, ks, p)  BY <1>3, <1>5, <1>1 DEF PendingAt, Pending
<1>10. Filled(T, m, base, g, ks, d)  BY <1>9 DEF Filled, Taken
<1> QED BY <1>6, <1>8, <1>10 DEF CanFollow, Follows

\* A value left off the wire is the default
LEMMA DefaultIs ==
  ASSUME NEW T \in DOMAIN MaxSize, NEW f \in Fields[T], NEW v \in FieldValues(f[2]),
         pb_check_proto3_default_value(f[2], v)
  PROVE  v = Defaults[T][f[1]]
<1>1. Defaults[T][f[1]] = Default(f[2])  BY DefaultsOf
<1>2. CASE f[2] = "BYTES"
  BY <1>2, <1>1 DEF FieldValues, Payloads, pb_check_proto3_default_value, Default
<1>3. CASE f[2] # "BYTES"  BY <1>1, <1>3 DEF Default, pb_check_proto3_default_value
<1> QED BY <1>2, <1>3

\* A message that has been read over the defaults is the one received
LEMMA TakenIs ==
  ASSUME NEW T \in DOMAIN MaxSize, NEW m, IsMessageOf(T, m), NEW d, DestOf(d, T),
         Taken(T, m, Defaults[T], d)
  PROVE  d = m
<1>1. d = [p \in PathsOf(T) |-> d[p]] /\ m = [p \in PathsOf(T) |-> m[p]]
  BY DEF DestOf, IsMessageOf, PathsOf
<1>2. ASSUME NEW f \in Fields[T] PROVE d[f[1]] = m[f[1]]  BY DefaultIs DEF IsMessageOf, Taken
<1>3. \A p \in PathsOf(T) : d[p] = m[p]  BY <1>2 DEF PathsOf
<1> QED BY <1>1, <1>3

\* Read over another one it is merged into it
LEMMA TakenMerges ==
  ASSUME NEW T \in DOMAIN MaxSize, NEW m1, IsMessageOf(T, m1), NEW m2, NEW d, DestOf(d, T),
         Taken(T, m2, m1, d)
  PROVE  d = Merged(m1, m2, T)
<1>1. d = [p \in PathsOf(T) |-> d[p]] /\ DOMAIN m1 = PathsOf(T)
  BY DEF DestOf, IsMessageOf, PathsOf
<1> DEFINE New(p) ==
      IF pb_check_proto3_default_value((CHOOSE f \in Fields[T] : f[1] = p)[2], m2[p])
      THEN m1[p] ELSE m2[p]
<1>2. ASSUME NEW f \in Fields[T] PROVE d[f[1]] = New(f[1])  BY TypeOfPath DEF Taken
<1>3. Merged(m1, m2, T) = [p \in PathsOf(T) |-> New(p)]  BY <1>1, Zenon DEF Merged
<1> HIDE DEF New
<1>4. \A p \in PathsOf(T) : d[p] = New(p)  BY <1>2 DEF PathsOf
<1> QED BY <1>1, <1>3, <1>4

\* A path goes through an outermost field when it starts with its name
LEMMA OutermostField ==
  ASSUME NEW T \in DOMAIN MaxSize, NEW f \in Fields[T], NEW j \in 1..Len(Message[T])
  PROVE  IsPrefix(PathAt(Top(T), j), f[1]) <=> Message[T][j][1] = f[1][1]
<1>1. T \in DOMAIN Message /\ Top(T)[1] = <<>> /\ Top(T)[2] = T  BY Outermost, TopIn
<1>2. Message[T][j][1] \in Names  BY <1>1, FieldOf
<1>3. PICK p : p = f[1] /\ p \in Seq(Names) /\ Len(p) >= 1  BY BelowOutermost
<1> DEFINE x == Message[T][j][1]
           q == Append(<<>>, x)
<1>4. PathAt(Top(T), j) = q  BY <1>1 DEF PathAt, FieldTo
<1>5. q \in Seq(Names) /\ Len(q) = 1 /\ q[1] = x  BY <1>2
<1> HIDE DEF q, x
<1>6. ASSUME IsPrefix(q, p) PROVE q[1] = p[1]
  <2>1. 1 \in 1..Len(q) /\ q \in Seq(Names) /\ p \in Seq(Names)  BY <1>3, <1>5
  <2> QED BY <1>6, <2>1, PrefixMeans
<1>7. ASSUME q[1] = p[1] PROVE IsPrefix(q, p)  BY <1>3, <1>5, <1>7, PrefixMeans
<1>8. IsPrefix(q, p) <=> q[1] = p[1]  BY <1>6, <1>7
<1> QED BY <1>3, <1>4, <1>5, <1>8, Zenon DEF x

\* Between two of its outermost fields a decoder holds a clean message
LEMMA FollowsClean ==
  ASSUME NEW T \in DOMAIN MaxSize, NEW m, IsMessageOf(T, m), NEW lost, NEW tail,
         NEW g, NEW d, DestOf(d, T), CanFollow(T, m, Defaults[T], lost, tail, g, d), Len(g) = 1
  PROVE  Clean(T, m, d)
<1> DEFINE c == Len(Message[T])
<1>1. PICK ks : Follows(T, m, Defaults[T], lost, tail, g, ks, d)  BY DEF CanFollow
<1>2. FramesOf(g, T) /\ Reached(g, ks) /\ Filled(T, m, Defaults[T], g, ks, d)
  BY <1>1 DEF Follows
<1>3. PlaceIn(g[1]) = Top(T) /\ Count(g, 1) = c  BY <1>2 DEF FramesOf, PlaceIn, Top, Count
<1>4. ks[1] \in 1..18 /\ ks[1] <= c + 1 /\ c \in 0..17
  <2>1. 1 \in 1..Len(g)  OBVIOUS
  <2>2. ks[1] \in 1..18 /\ ks[1] <= Count(g, 1) + 1 /\ Count(g, 1) \in 0..17
    BY <1>2, <2>1, CallOf
  <2> QED BY <1>3, <2>2
<1>5. T \in DOMAIN Message /\ Top(T) \in Nested(T) /\ Top(T)[1] = <<>> /\ Top(T)[2] = T
  BY Outermost, TopIn
<1> DEFINE k == ks[1]
           n == k - 1
           Sent1(p) == \E i \in 1..n : Message[T][i][1] = p[1]
<1>6. ASSUME NEW f \in Fields[T] PROVE Pending(g, ks, f[1]) <=> ~Sent1(f[1])
  <2> DEFINE At1(j) == IsPrefix(PathAt(Top(T), j), f[1])
  <2>1. \A j \in 1..c : At1(j) <=> Message[T][j][1] = f[1][1]  BY OutermostField
  <2>2. f[1] \in Paths /\ Len(f[1]) \in 1..4  BY FieldTyped
  <2>3. \E j \in 1..c : At1(j)  BY BelowOutermost, <1>5, BelowSubmessage
  <2>4. \A i, j \in 1..c : At1(i) /\ At1(j) => i = j  BY <1>5, <2>2, SameField
  <2>5. Pending(g, ks, f[1]) <=> \E j \in k..c : At1(j)  BY <1>3 DEF Pending, PendingAt
  <2>6. k \in 1..18 /\ k <= c + 1 /\ c \in 0..17  BY <1>4
  <2> HIDE DEF At1, k, c
  <2>7. Sent1(f[1]) <=> \E j \in 1..n : At1(j)  BY <2>6, <2>1
  <2>8. (\A j \in 1..c : j \in 1..n \/ j \in k..c) /\ (\A j \in 1..n : j \in 1..c
      /\ j \notin k..c)
        /\ (\A j \in k..c : j \in 1..c)
    BY <2>6
  <2> HIDE DEF n, Sent1
  <2> QED BY <2>3, <2>4, <2>5, <2>7, <2>8
<1>7. n \in 0..c
  <2> HIDE DEF c
  <2> QED BY <1>4
<1> HIDE DEF n, c, Sent1
<1>8. ASSUME NEW f \in Fields[T]
      PROVE  d[f[1]] = IF Sent1(f[1]) THEN m[f[1]] ELSE Defaults[T][f[1]]
  <2> DEFINE p == f[1]
             empty == pb_check_proto3_default_value(f[2], m[p])
  <2>1. m[p] \in FieldValues(f[2])  BY DEF IsMessageOf
  <2>2. empty => m[p] = Defaults[T][p]  BY <2>1, DefaultIs
  <2>3. d[p] = IF Pending(g, ks, p) \/ empty THEN Defaults[T][p] ELSE m[p]  BY <1>2 DEF Filled
  <2>4. Pending(g, ks, p) <=> ~Sent1(p)  BY <1>6
  <2> HIDE DEF p, empty
  <2>5. CASE Sent1(p)  BY <2>2, <2>3, <2>4, <2>5, Zenon DEF p
  <2>6. CASE ~Sent1(p)  BY <2>3, <2>4, <2>6, Zenon DEF p
  <2> QED BY <2>5, <2>6
<1>9. \A p \in DOMAIN d : d[p] = IF Sent1(p) THEN m[p] ELSE Defaults[T][p]
  BY <1>8 DEF DestOf, PathsOf
<1> QED BY <1>7, <1>9 DEF Clean, Sent1, c

\* The end of the outermost stream
LEMMA AtTheEnd ==
  ASSUME verdict = "decoding", PbDecodeNext, Inner.left = <<>>, Len(frames) = 1
  PROVE  verdict' = "accepted" /\ dest' = dest
<1>1. ~Reading /\ ~LeaveSubmessage  BY DEF Reading, LeaveSubmessage
<1>2. Accept
  BY <1>1 DEF PbDecodeNext, DecodeBadTag, SkipUnknownField, DecodeField, EnterSubmessage
<1> QED BY <1>2 DEF Accept

\* A step while a message is read that nothing is missing of and nothing follows
LEMMA WholeStep ==
  ASSUME NEW T \in DOMAIN MaxSize, NEW m, IsMessageOf(T, m), NEW base,
         DecoderOf(T), verdict = "decoding", PbDecodeNext,
         CanFollow(T, m, base, <<>>, <<>>, frames, dest)
  PROVE  \/ Goes(T, m, base, <<>>, <<>>)
         \/ verdict' = "accepted" /\ dest' = dest /\ Taken(T, m, base, dest)
<1>1. <<>> \in Seq(Byte)  OBVIOUS
<1>2. ~Fails(<<>>) /\ ~EndsEarly(<<>>)  BY Zenon DEF Fails, EndsEarly
<1>3. Goes(T, m, base, <<>>, <<>>) \/ Done(T, m, base, <<>>, <<>>)  BY <1>1, <1>2, StepFollows
<1>4. CASE Done(T, m, base, <<>>, <<>>)  BY Current, <1>4, AtTheEnd DEF DecoderOf, Done, Splits
<1> QED BY <1>3, <1>4

\* One while the last bytes of the message are missing
LEMMA CutStep ==
  ASSUME NEW T \in DOMAIN MaxSize, NEW m, IsMessageOf(T, m),
         NEW lost \in Seq(Byte), lost # <<>>,
         DecoderOf(T), verdict = "decoding", PbDecodeNext,
         CanFollow(T, m, Defaults[T], lost, <<>>, frames, dest)
  PROVE  \/ Goes(T, m, Defaults[T], lost, <<>>)
         \/ verdict' = "rejected"
         \/ verdict' = "accepted" /\ dest' = dest /\ Clean(T, m, dest)
<1>1. <<>> \in Seq(Byte)  OBVIOUS
<1>2. ~Done(T, m, Defaults[T], lost, <<>>)
  <2> SUFFICES ASSUME Done(T, m, Defaults[T], lost, <<>>) PROVE FALSE
    OBVIOUS
  <2>1. Inner.left \in Seq(Byte)  BY Current DEF DecoderOf
  <2>2. Inner.left \o lost = <<>> \o <<>>  BY DEF Done, Splits
  <2>3. Len(Inner.left) + Len(lost) = 0  BY <2>1, <2>2
  <2>4. Len(lost) = 0  BY <2>1, <2>3
  <2> QED BY <2>4
<1>3. Goes(T, m, Defaults[T], lost, <<>>) \/ Fails(lost) \/ EndsEarly(lost)
  BY <1>1, <1>2, StepFollows
<1>4. CASE EndsEarly(lost)  BY <1>4, FollowsClean DEF EndsEarly, Accept, DecoderOf
<1> QED BY <1>3, <1>4 DEF Fails

\* A field that no message has is skipped in the outermost call
LEMMA SkipStep ==
  ASSUME NEW T \in DOMAIN MaxSize, DecoderOf(T), verdict = "decoding", PbDecodeNext,
         Len(frames) = 1, NEW u, IsUnknownField(u), NEW b \in Seq(Byte),
         Joined(Inner.left, u, b)
  PROVE  /\ verdict' = "decoding" /\ dest' = dest
         /\ FramesOf(frames', T) /\ Len(frames') = 1 /\ frames'[1].left = b
<1> DEFINE skipped == pb_skip_field(Tag.rest, Tag.wire)
<1>1. FramesOf(frames, T) /\ Inner.left \in Seq(Byte) /\ Inner.type \in DOMAIN Message
  BY Current DEF DecoderOf
<1>2. Inner.left # <<>> /\ Tag.ok /\ Tag.val > 17 /\ skipped.ok /\ skipped.rest = b
  BY UnknownSkipped DEF Tag
<1>3. DOMAIN Message[Inner.type] = 1..Len(Message[Inner.type])
      /\ Len(Message[Inner.type]) <= 17 /\ Len(Message[Inner.type]) \in Nat
  BY <1>1, LengthOf
<1>4. Tag.val \in Nat  BY NumberType DEF Tag, pb_decode_tag
<1>5. ~Known /\ Tag.val # 0
  <2> DEFINE v == Tag.val
             c == Len(Message[Inner.type])
  <2>1. v > 17 /\ v \in Nat /\ c <= 17 /\ c \in Nat  BY <1>2, <1>3, <1>4
  <2>2. Known <=> v \in 1..c  BY <1>3 DEF Known
  <2> HIDE DEF v, c
  <2>3. v \notin 1..c /\ v # 0  BY <2>1
  <2> QED BY <2>2, <2>3 DEF v
<1> HIDE DEF skipped
<1>6. SkipUnknownField
  BY <1>2, <1>5, Zenon DEF PbDecodeNext, DecodeBadTag, DecodeField, EnterSubmessage,
     LeaveSubmessage, Accept
<1>7. Continue(b) /\ dest' = dest /\ verdict' = "decoding"
  BY <1>2, <1>6 DEF SkipUnknownField, skipped
<1>8. ContinuesTo(frames', frames, b)  BY <1>7 DEF Continue, ContinuesTo
<1>9. /\ FramesOf(frames', T) /\ Len(frames') = Len(frames)
      /\ \A i \in 1..Len(frames) : frames'[i].left = IF i = Len(frames) THEN b ELSE frames[i].left
  BY <1>1, <1>8, FramesContinue
<1>10. frames'[1].left = b  BY <1>9
<1> QED BY <1>7, <1>9, <1>10

\* The faults
LEMMA FaultMeans ==
  ASSUME NEW msg \in Messages, NEW f \in FaultsOf(msg)
  PROVE  /\ f.kind \in {"none", "truncated", "flipped", "unknown", "followed"}
         /\ f.kind = "truncated" => f.at \in 0..(Len(msg.bytes) - 1)
         /\ f.kind = "unknown" => f.at \in {0, Len(msg.bytes)} /\ IsUnknownField(f.bytes)
         /\ f.kind = "followed" => f.by \in Messages /\ f.by.type = msg.type
<1> DEFINE n == Len(msg.bytes)
           F == {[kind |-> "followed", by |-> msg2] :
                   msg2 \in {x \in Messages : x.type = msg.type /\ Damaged(x)}}
<1>1. \/ f = NoFault
      \/ f \in [kind : {"truncated"}, at : 0..(n - 1)]
      \/ f \in [kind : {"flipped"}, at : 1..n, bit : 0..7]
      \/ f \in [kind : {"unknown"}, at : {0, n}, bytes : Unknown]
      \/ f \in F
  BY Zenon DEF FaultsOf
<1>2. CASE f = NoFault  BY <1>2 DEF NoFault
<1>3. CASE f \in [kind : {"truncated"}, at : 0..(n - 1)]  BY <1>3
<1>4. CASE f \in [kind : {"flipped"}, at : 1..n, bit : 0..7]  BY <1>4
<1>5. CASE f \in [kind : {"unknown"}, at : {0, n}, bytes : Unknown]  BY <1>5, UnknownAssumption
<1>6. CASE f \in F
  <2>1. PICK msg2 \in {x \in Messages : x.type = msg.type /\ Damaged(x)} :
          f = [kind |-> "followed", by |-> msg2]
    BY <1>6
  <2>2. f.kind = "followed" /\ f.by = msg2  BY <2>1
  <2>3. msg2 \in Messages /\ msg2.type = msg.type  BY <2>1
  <2> QED BY <2>2, <2>3
<1> QED BY <1>1, <1>2, <1>3, <1>4, <1>5, <1>6

\* A stream of two parts, and one that is cut
LEMMA WholeSplits ==
  ASSUME NEW a \in Seq(Byte), NEW b \in Seq(Byte), NEW c, Joined(c, a, b)
  PROVE  Splits(c, <<>>, a, b) /\ (b # <<>> => Splits(a, b, c, <<>>))
<1>1. c = a \o b  BY DEF Joined
<1>2. c \in Seq(Byte)  BY <1>1
<1>3. c \o <<>> = c  BY <1>2
<1> QED BY <1>1, <1>3, Zenon DEF Splits

\* The first state
LEMMA ArrivalStarts ==
  ASSUME NEW msg \in Messages, NEW f \in FaultsOf(msg), NEW T, T = msg.type,
         PbDecodeInit(T, Arrived(msg.bytes, f)), DecoderOf(T)
  PROVE  Arrival(T, msg.sent, f)
<1> DEFINE m == msg.sent
           b == msg.bytes
           n == Len(b)
           a == Arrived(b, f)
           D == Defaults[T]
<1>1. T \in DOMAIN MaxSize /\ IsMessageOf(T, m) /\ b = Bytes(T, m, Top(T), 1) /\ b \in Seq(Byte)
  BY SentMessage
<1>2. /\ verdict = "decoding" /\ dest = D /\ FramesOf(frames, T) /\ Len(frames) = 1
      /\ frames[1].left = a /\ Inner.left = a
  BY <1>1, Current DEF PbDecodeInit, DecoderOf
<1>3. /\ f.kind \in {"none", "truncated", "flipped", "unknown", "followed"}
      /\ f.kind = "truncated" => f.at \in 0..(n - 1)
      /\ f.kind = "unknown" => f.at \in {0, n} /\ IsUnknownField(f.bytes)
      /\ f.kind = "followed" => f.by \in Messages /\ f.by.type = T
  BY FaultMeans
<1>4. n \in Nat  BY <1>1
<1>5. \A lost, tail : Splits(a, lost, b, tail) => CanFollow(T, m, D, lost, tail, frames, dest)
  <2> SUFFICES ASSUME NEW lost, NEW tail, Splits(a, lost, b, tail)
               PROVE  CanFollow(T, m, D, lost, tail, frames, dest)
    OBVIOUS
  <2>1. Splits(frames[1].left, lost, Bytes(T, m, Top(T), 1), tail)  BY <1>1, <1>2
  <2>2. CanFollow(T, m, D, lost, tail, frames, D)  BY <1>1, <1>2, <2>1, StartFollows
  <2> QED BY <1>2, <2>2
<1> HIDE DEF a, m, b, D, n
<1>6. CASE f.kind = "none"
  BY <1>6, <1>5, <1>2 DEF Arrived, a, Splits, Whole, Arrival, Underway, m, D
<1>7. CASE f.kind = "truncated"
  <2>1. a = SubSeq(b, 1, f.at)  BY <1>7 DEF Arrived, a
  <2>2. f.at \in 0..n /\ f.at < n /\ f.at \in Nat  BY <1>3, <1>4, <1>7
  <2> DEFINE lost == Drop(b, f.at)
  <2>3. a \in Seq(Byte) /\ lost \in Seq(Byte) /\ Joined(b, a, lost)
    BY <1>1, <2>1, <2>2, CutJoined DEF n
  <2>4. Len(lost) = n - f.at  BY <1>1, <2>2, DropProperties DEF n
  <2> HIDE DEF lost
  <2>5. lost # <<>>  BY <1>4, <2>2, <2>4
  <2>6. Splits(a, lost, b, <<>>)  BY <2>3, <2>5, WholeSplits
  <2>7. Cut(T, m)  BY <1>5, <2>3, <2>5, <2>6 DEF Cut, D
  <2> QED BY <1>2, <1>7, <2>7 DEF Arrival, Underway, m, D
<1>8. CASE f.kind = "unknown"
  <2> DEFINE u == f.bytes
  <2>1. a = SubSeq(b, 1, f.at) \o u \o Drop(b, f.at)  BY <1>8 DEF Arrived, a
  <2>2. IsUnknownField(u) /\ u \in Seq(Byte)  BY <1>3, <1>8 DEF IsUnknownField
  <2> HIDE DEF u
  <2>3. CASE f.at = 0
    <3>1. SubSeq(b, 1, 0) = <<>> /\ Drop(b, 0) = b  BY <1>1 DEF Drop
    <3>2. a = <<>> \o u \o b  BY <2>1, <2>3, <3>1
    <3>3. Joined(a, u, b)  BY <1>1, <2>2, <3>2 DEF Joined
    <3>4. Unread(T, m)  BY <1>1, <1>2, <2>2, <3>3 DEF Unread, m, D
    <3> QED BY <1>2, <1>8, <3>4 DEF Arrival, Underway, m, D
  <2>4. CASE f.at = n
    <3>1. SubSeq(b, 1, n) = b  BY <1>1 DEF n
    <3>2. Drop(b, n) = <<>>  BY <1>4, <1>1, DropProperties DEF n
    <3>3. a = b \o u \o <<>>  BY <2>1, <2>4, <3>1, <3>2
    <3>4. Joined(a, b, u)  BY <1>1, <2>2, <3>3 DEF Joined
    <3>5. Splits(a, <<>>, b, u)  BY <1>1, <2>2, <3>4, WholeSplits
    <3>6. BeforeUnknown(T, m)  BY <1>5, <2>2, <3>5 DEF BeforeUnknown, Whole, D
    <3> QED BY <1>2, <1>8, <3>6 DEF Arrival, Underway, m, D
  <2> QED BY <1>3, <1>8, <2>3, <2>4
<1>9. CASE f.kind = "followed"
  <2>1. a = b \o f.by.bytes  BY <1>9 DEF Arrived, a
  <2>2. f.by.bytes = Bytes(T, f.by.sent, Top(T), 1) /\ f.by.bytes \in Seq(Byte)
    BY <1>3, <1>9, SentMessage
  <2>3. Splits(a, <<>>, b, f.by.bytes)  BY <1>1, <2>1, <2>2, WholeSplits DEF Joined
  <2>4. Whole(T, m, D, Bytes(T, f.by.sent, Top(T), 1))  BY <1>5, <2>2, <2>3 DEF Whole
  <2> QED BY <1>2, <1>9, <2>4 DEF Arrival, Underway, m, D
<1>10. CASE f.kind = "flipped"  BY <1>2, <1>10 DEF Arrival, Underway
<1> QED BY <1>3, <1>6, <1>7, <1>8, <1>9, <1>10 DEF m

\* A decoder that goes on reading, seen from the next state
LEMMA GoesWhole ==
  ASSUME NEW T, NEW m, NEW base, NEW tail, Goes(T, m, base, <<>>, tail)
  PROVE  verdict' = "decoding" /\ Whole(T, m, base, tail)'
BY DEF Goes, Whole

\* A whole message, with nothing behind
LEMMA WholeArrives ==
  ASSUME NEW T \in DOMAIN MaxSize, NEW m, IsMessageOf(T, m),
         DecoderOf(T), verdict = "decoding", PbDecodeNext,
         NEW f, f.kind \in {"none", "unknown"}, Whole(T, m, Defaults[T], <<>>)
  PROVE  Arrival(T, m, f)'
<1>1. \/ Goes(T, m, Defaults[T], <<>>, <<>>)
      \/ verdict' = "accepted" /\ dest' = dest /\ Taken(T, m, Defaults[T], dest)
  BY WholeStep DEF Whole
<1>2. CASE Goes(T, m, Defaults[T], <<>>, <<>>)  BY <1>2, GoesWhole DEF Underway, Arrival
<1>3. CASE verdict' = "accepted" /\ dest' = dest /\ Taken(T, m, Defaults[T], dest)
  BY <1>3, TakenIs DEF DecoderOf, ArrivedAs, Arrival
<1> QED BY <1>1, <1>2, <1>3

\* A message that is cut short
LEMMA CutArrives ==
  ASSUME NEW T \in DOMAIN MaxSize, NEW m, IsMessageOf(T, m),
         DecoderOf(T), verdict = "decoding", PbDecodeNext,
         NEW f, f.kind = "truncated", Cut(T, m)
  PROVE  Arrival(T, m, f)'
<1>1. PICK lost \in Seq(Byte) :
        lost # <<>> /\ CanFollow(T, m, Defaults[T], lost, <<>>, frames, dest)
  BY DEF Cut
<1>2. \/ Goes(T, m, Defaults[T], lost, <<>>)
      \/ verdict' = "rejected"
      \/ verdict' = "accepted" /\ dest' = dest /\ Clean(T, m, dest)
  BY <1>1, CutStep
<1>3. CASE Goes(T, m, Defaults[T], lost, <<>>)  BY <1>1, <1>3 DEF Goes, Cut, Underway, Arrival
<1>4. CASE verdict' = "rejected"  BY <1>4 DEF Arrival
<1>5. CASE verdict' = "accepted" /\ dest' = dest /\ Clean(T, m, dest)
  BY <1>5 DEF ArrivedAs, Arrival
<1> QED BY <1>2, <1>3, <1>4, <1>5

\* A field that no message has, before the message or after it
LEMMA UnknownArrives ==
  ASSUME NEW T \in DOMAIN MaxSize, NEW m, IsMessageOf(T, m),
         DecoderOf(T), verdict = "decoding", PbDecodeNext,
         NEW f, f.kind = "unknown", Unread(T, m) \/ BeforeUnknown(T, m)
  PROVE  Arrival(T, m, f)'
<1> DEFINE D == Defaults[T]
           b == Bytes(T, m, Top(T), 1)
<1>1. b \in Seq(Byte)  BY TopIn, BytesTyped
<1> HIDE DEF b
<1>2. ASSUME verdict' = "decoding", Whole(T, m, D, <<>>)'
      PROVE  Arrival(T, m, f)'
  BY <1>2 DEF Underway, Arrival
<1>3. CASE Unread(T, m)
  <2>1. PICK u : /\ IsUnknownField(u) /\ Len(frames) = 1 /\ dest = D
                 /\ Joined(Inner.left, u, b)
    BY <1>3 DEF Unread, b
  <2>2. /\ verdict' = "decoding" /\ dest' = D
        /\ FramesOf(frames', T) /\ Len(frames') = 1 /\ frames'[1].left = b
    BY <1>1, <2>1, SkipStep
  <2>3. Splits(frames'[1].left, <<>>, Bytes(T, m, Top(T), 1), <<>>)  BY <2>2 DEF Splits, b
  <2>4. CanFollow(T, m, D, <<>>, <<>>, frames', D)  BY <2>2, <2>3, StartFollows
  <2>5. Whole(T, m, D, <<>>)'  BY <2>2, <2>4 DEF Whole
  <2> QED BY <1>2, <2>2, <2>5
<1>4. CASE BeforeUnknown(T, m)
  <2>1. PICK u : IsUnknownField(u) /\ Whole(T, m, D, u)  BY <1>4 DEF BeforeUnknown
  <2>2. u \in Seq(Byte) /\ <<>> \in Seq(Byte)  BY <2>1 DEF IsUnknownField
  <2>3. ~Fails(<<>>) /\ ~EndsEarly(<<>>)  BY Zenon DEF Fails, EndsEarly
  <2>4. Goes(T, m, D, <<>>, u) \/ Done(T, m, D, <<>>, u)
    BY <2>1, <2>2, <2>3, StepFollows DEF Whole
  <2>5. CASE Goes(T, m, D, <<>>, u)
    BY <2>5, GoesWhole, <2>1 DEF Underway, BeforeUnknown, Arrival
  <2>6. CASE Done(T, m, D, <<>>, u)
    <3>1. Len(frames) = 1 /\ Taken(T, m, D, dest) /\ Inner.left \o <<>> = <<>> \o u
      BY <2>6 DEF Done, Splits
    <3>2. Inner.left \in Seq(Byte)  BY Current DEF DecoderOf
    <3>3. Inner.left = u  BY <2>2, <3>1, <3>2
    <3>4. Joined(Inner.left, u, <<>>)  BY <2>2, <3>3 DEF Joined
    <3>5. /\ verdict' = "decoding" /\ dest' = dest
          /\ FramesOf(frames', T) /\ Len(frames') = 1 /\ frames'[1].left = <<>>
      BY <2>1, <2>2, <3>1, <3>4, SkipStep
    <3>6. CanFollow(T, m, D, <<>>, <<>>, frames', dest)  BY <3>1, <3>5, EndFollows
    <3>7. Whole(T, m, D, <<>>)'  BY <3>5, <3>6 DEF Whole
    <3> QED BY <1>2, <3>5, <3>7
  <2> QED BY <2>4, <2>5, <2>6
<1> QED BY <1>3, <1>4

\* A message that another one follows
LEMMA FollowedArrives ==
  ASSUME NEW T \in DOMAIN MaxSize, NEW m, IsMessageOf(T, m), NEW f, IsMessageOf(T, f.by.sent),
         DecoderOf(T), verdict = "decoding", PbDecodeNext, f.kind = "followed",
         \/ Whole(T, m, Defaults[T], Bytes(T, f.by.sent, Top(T), 1))
         \/ Whole(T, f.by.sent, m, <<>>)
  PROVE  Arrival(T, m, f)'
<1> DEFINE D == Defaults[T]
           m2 == f.by.sent
           b == Bytes(T, m2, Top(T), 1)
<1>0. IsMessageOf(T, m2)  OBVIOUS
<1> HIDE DEF m2
<1>1. b \in Seq(Byte) /\ <<>> \in Seq(Byte)  BY <1>0, TopIn, BytesTyped
<1>2. DestOf(dest, T) /\ FramesOf(frames, T)  BY DEF DecoderOf
<1>3. ASSUME Whole(T, m2, m, <<>>) PROVE Arrival(T, m, f)'
  BY <1>0, <1>3, WholeStep, GoesWhole, <1>2, TakenMerges DEF Whole, Underway, m2, Arrival,
     ArrivedAs
<1>4. ASSUME Whole(T, m, D, b) PROVE Arrival(T, m, f)'
  <2>1. ~Fails(<<>>) /\ ~EndsEarly(<<>>)  BY Zenon DEF Fails, EndsEarly
  <2>2. CanFollow(T, m, D, <<>>, b, frames, dest)  BY <1>4 DEF Whole
  <2> HIDE DEF b
  <2>3. Goes(T, m, D, <<>>, b) \/ Done(T, m, D, <<>>, b)  BY <1>1, <2>1, <2>2, StepFollows
  <2>4. CASE Goes(T, m, D, <<>>, b)  BY <2>4, GoesWhole DEF Underway, m2, b, Arrival
  <2>5. CASE Done(T, m, D, <<>>, b)
    <3>1. Len(frames) = 1 /\ Taken(T, m, D, dest) /\ Inner.left \o <<>> = <<>> \o b
      BY <2>5 DEF Done, Splits
    <3>2. Inner.left \in Seq(Byte) /\ Inner = frames[Len(frames)]  BY <1>2, Current
    <3>3. frames[1].left = b  BY <1>1, <3>1, <3>2
    <3>4. dest = m  BY <1>2, <3>1, TakenIs
    <3>5. Splits(frames[1].left, <<>>, Bytes(T, m2, Top(T), 1), <<>>)  BY <3>3 DEF Splits, b
    <3>6. CanFollow(T, m2, m, <<>>, <<>>, frames, m)  BY <1>2, <3>1, <3>5, StartFollows
    <3>7. Whole(T, m2, m, <<>>)  BY <3>4, <3>6 DEF Whole
    <3> QED BY <1>3, <3>7
  <2> QED BY <2>3, <2>4, <2>5
<1> QED BY <1>3, <1>4 DEF m2

\* A message one of whose bits is flipped may be read in any way
LEMMA FlippedArrives ==
  ASSUME NEW T, NEW m, NEW f, f.kind = "flipped"
  PROVE  Arrival(T, m, f)'
BY DEF Arrival, Underway, ArrivedAs

\* It holds at first
LEMMA ReceivedStarts == Init => Received
<1> SUFFICES ASSUME Init PROVE Received
  OBVIOUS
<1>1. Transfer  BY TransferStarts
<1>2. /\ message \in Messages /\ fault \in FaultsOf(message)
      /\ PbDecodeInit(message.type, Arrived(message.bytes, fault))
  BY DEF Init
<1>3. DecoderOf(message.type)  BY <1>1 DEF Transfer
<1>4. Arrival(message.type, message.sent, fault)  BY <1>2, <1>3, ArrivalStarts
<1> QED BY <1>1, <1>4 DEF Received

\* and every step keeps it
LEMMA ReceivedKept == Received /\ [Next]_vars => Received'
<1> SUFFICES ASSUME Received, [Next]_vars PROVE Received'
  OBVIOUS
<1>1. Transfer /\ Transfer'  BY TransferKept DEF Received
<1>2. PICK T, m, f : T = message.type /\ m = message.sent /\ f = fault  OBVIOUS
<1>3. Arrival(T, m, f) /\ DecoderOf(T) /\ message \in Messages /\ f \in FaultsOf(message)
  BY <1>1, <1>2 DEF Received, Transfer
<1>4. T \in DOMAIN MaxSize /\ IsMessageOf(T, m)  BY <1>2, <1>3, SentMessage
<1>5. f.kind \in {"none", "truncated", "flipped", "unknown", "followed"}
      /\ (f.kind = "followed" => IsMessageOf(T, f.by.sent))
  BY <1>2, <1>3, FaultMeans, SentMessage
<1>6. UNCHANGED <<message, fault>> => T = message'.type /\ m = message'.sent /\ f = fault'
  BY <1>2
<1>7. CASE Decode
  <2>1. PbDecodeNext /\ UNCHANGED <<message, fault>>  BY <1>7 DEF Decode
  <2>2. verdict = "decoding"
    BY <2>1 DEF PbDecodeNext, DecodeBadTag, SkipUnknownField, DecodeField, EnterSubmessage,
       LeaveSubmessage, Accept, Reading
  <2>3. Underway(T, m, f)  BY <1>3, <2>2 DEF Arrival
  <2>4. Arrival(T, m, f)'
    <3>1. CASE f.kind = "none"  BY <1>3, <1>4, <2>1, <2>2, <2>3, <3>1, WholeArrives DEF Underway
    <3>2. CASE f.kind = "truncated"
      BY <1>3, <1>4, <2>1, <2>2, <2>3, <3>2, CutArrives DEF Underway
    <3>3. CASE f.kind = "flipped"  BY <3>3, FlippedArrives
    <3>4. CASE f.kind = "unknown"
      BY <2>3, <3>4, <1>3, <1>4, <2>1, <2>2, WholeArrives, UnknownArrives DEF Underway
    <3>5. CASE f.kind = "followed"
      BY <2>3, <3>5, <1>3, <1>4, <1>5, <2>1, <2>2, FollowedArrives DEF Underway
    <3> QED BY <1>5, <3>1, <3>2, <3>3, <3>4, <3>5
  <2>5. Arrival(message.type, message.sent, fault)'
    BY <1>6, <2>1, <2>4 DEF Arrival, Underway, ArrivedAs, Whole, Cut, Unread, BeforeUnknown, Inner
  <2> QED BY <1>1, <2>5 DEF Received
<1>8. CASE ConvertRequest \/ ConvertResults \/ UNCHANGED vars
  <2>1. UNCHANGED <<message, fault, frames, dest, verdict>>
    BY <1>8 DEF ConvertRequest, ConvertResults, vars, decoderVars
  <2>2. Arrival(message.type, message.sent, fault)'
    BY <1>2, <1>3, <2>1 DEF Arrival, Underway, ArrivedAs, Whole, Cut, Unread, BeforeUnknown, Inner
  <2> QED BY <1>1, <2>2 DEF Received
<1> QED BY <1>7, <1>8 DEF Next

\* In every state the decoder has read a part of the message that was sent, and only its fields
THEOREM ReceivedInvariant == Spec => []Received
<1>1. Init => Received  BY ReceivedStarts
<1>2. Received /\ [Next]_vars => Received'  BY ReceivedKept
<1> QED BY <1>1, <1>2, PTL DEF Spec

\* What is sent is what is received, whatever the message is: every width, sign, payload and
\* absent field included
THEOREM RoundTripHolds == Spec => []RoundTrip
<1>1. Received => RoundTrip
  <2> SUFFICES ASSUME Received PROVE RoundTrip
    OBVIOUS
  <2>1. Arrival(message.type, message.sent, fault)  BY DEF Received
  <2>2. Intact => verdict # "rejected"  BY <2>1 DEF Arrival, Intact
  <2>3. Intact /\ verdict = "accepted" => dest = Expected
    <3> SUFFICES ASSUME Intact, verdict = "accepted" PROVE dest = Expected
      OBVIOUS
    <3>1. ArrivedAs(message.type, message.sent, fault)  BY <2>1 DEF Arrival
    <3>2. CASE fault.kind = "followed"  BY <3>1, <3>2 DEF ArrivedAs, Expected
    <3>3. CASE fault.kind # "followed"  BY <3>1, <3>3 DEF ArrivedAs, Expected, Intact
    <3> QED BY <3>2, <3>3
  <2> QED BY <2>2, <2>3 DEF RoundTrip
<1> QED BY <1>1, ReceivedInvariant, PTL

\* A message cut anywhere is refused, or received up to one of its outermost fields
THEOREM TruncationIsClean == Spec => []TruncatedIsPrefix
<1>1. Received => TruncatedIsPrefix
  BY DEF Received, Arrival, ArrivedAs, Clean, TruncatedIsPrefix
<1> QED BY <1>1, ReceivedInvariant, PTL

\* A transaction whose first parts have been converted
LEMMA FirstParts ==
  ASSUME NEW c, DOMAIN c = NativeNames, NEW v1, NEW v2, NEW v3, NEW v4, NEW e,
         FirstSet(e, c, v1, v2, v3, v4)
  PROVE  /\ DOMAIN e = NativeNames
         /\ e.tx_payload_buffer = c.tx_payload_buffer
         /\ e.smtc_rac_data_result = c.smtc_rac_data_result
         /\ e.scheduler_config = c.scheduler_config
BY DEF NativeNames, FirstSet

\* One whose cad_context has been converted
LEMMA CadPart ==
  ASSUME NEW c, DOMAIN c = NativeNames, NEW v, NEW e, e = [c EXCEPT !.cad_context = v]
  PROVE  /\ DOMAIN e = NativeNames
         /\ e.tx_payload_buffer = c.tx_payload_buffer
         /\ e.smtc_rac_data_result = c.smtc_rac_data_result
         /\ e.scheduler_config = c.scheduler_config
BY DEF NativeNames

\* One whose last parts have been converted
LEMMA LastParts ==
  ASSUME NEW c, DOMAIN c = NativeNames, NEW v1, NEW v2, NEW v3, NEW e,
         LastSet(e, c, v1, v2, v3)
  PROVE  e.tx_payload_buffer = v1
BY DEF NativeNames, LastSet

\* LoRa is the first modulation
LEMMA LoraIsZero == ToPb(Modulation, "LORA", "LORA") = BitsOf(0)
<1>1. "LORA" \in ToSet(Modulation)  BY DEF ToSet, Modulation
<1>2. DOMAIN Modulation = 1..4 /\ Modulation[1] = "LORA"
      /\ \A i \in 1..4 : Modulation[i] = "LORA" => i = 1
  BY DEF Modulation
<1>3. (CHOOSE i \in DOMAIN Modulation : Modulation[i] = "LORA") = 1  BY <1>2
<1>4. ToPb(Modulation, "LORA", "LORA")
        = BitsOf((CHOOSE i \in DOMAIN Modulation : Modulation[i] = "LORA") - 1)
  BY <1>1, Zenon DEF ToPb
<1> DEFINE i1 == CHOOSE i \in DOMAIN Modulation : Modulation[i] = "LORA"
<1>5. i1 - 1 = 0  BY <1>3
<1> QED BY <1>4, <1>5, Zenon

\* Paths of two and of three names
LEMMA AppendTwo ==
  ASSUME NEW a, NEW b
  PROVE  Append(<<a>>, b) = <<a, b>>
<1> DEFINE p == <<a>>
           q == Append(p, b)
           r == <<a, b>>
           S == {a, b}
<1>1. p \in Seq(S) /\ Len(p) = 1 /\ p[1] = a /\ b \in S  OBVIOUS
<1>2. r \in Seq(S) /\ Len(r) = 2 /\ r[1] = a /\ r[2] = b  OBVIOUS
<1> HIDE DEF p, r, S
<1>3. q \in Seq(S) /\ Len(q) = 2 /\ q[2] = b /\ q[1] = a
  <2>1. PICK n : n = Len(p)  OBVIOUS
  <2>a. p \in Seq(S) /\ b \in S  BY <1>1
  <2>b. /\ q \in Seq(S) /\ Len(q) = Len(p) + 1 /\ q[Len(p) + 1] = b
        /\ \A i \in 1..Len(p) : q[i] = p[i]
    BY <2>a
  <2>2. /\ q \in Seq(S) /\ Len(q) = n + 1 /\ q[n + 1] = b
        /\ \A i \in 1..n : q[i] = p[i]
    BY <2>1, <2>b, Zenon
  <2> HIDE DEF q
  <2> QED BY <1>1, <2>1, <2>2
<1> HIDE DEF q
<1>4. q = r  BY <1>2, <1>3
<1> QED BY <1>4 DEF p, q, r

\* and of four
LEMMA AppendThree ==
  ASSUME NEW a, NEW b, NEW c
  PROVE  Append(<<a, b>>, c) = <<a, b, c>>
<1> DEFINE p == <<a, b>>
           q == Append(p, c)
           r == <<a, b, c>>
           S == {a, b, c}
<1>1. p \in Seq(S) /\ Len(p) = 2 /\ p[1] = a /\ p[2] = b /\ c \in S  OBVIOUS
<1>2. r \in Seq(S) /\ Len(r) = 3 /\ r[1] = a /\ r[2] = b /\ r[3] = c  OBVIOUS
<1> HIDE DEF p, r, S
<1>3. q \in Seq(S) /\ Len(q) = 3 /\ q[3] = c /\ q[1] = a /\ q[2] = b
  <2>1. PICK n : n = Len(p)  OBVIOUS
  <2>a. p \in Seq(S) /\ c \in S  BY <1>1
  <2>b. /\ q \in Seq(S) /\ Len(q) = Len(p) + 1 /\ q[Len(p) + 1] = c
        /\ \A i \in 1..Len(p) : q[i] = p[i]
    BY <2>a
  <2>2. /\ q \in Seq(S) /\ Len(q) = n + 1 /\ q[n + 1] = c
        /\ \A i \in 1..n : q[i] = p[i]
    BY <2>1, <2>b, Zenon
  <2> HIDE DEF q
  <2> QED BY <1>1, <2>1, <2>2
<1> HIDE DEF q
<1>4. q = r  BY <1>2, <1>3
<1> QED BY <1>4 DEF p, q, r

\* It is a bytes field of requests
LEMMA PayloadIn ==
  /\ Request \in DOMAIN MaxSize
  /\ <<PayloadPath, "BYTES">> \in Fields[Request]
<1>1. Request \in DOMAIN MaxSize  BY DEF Request, MaxSize
<1> DEFINE s0 == <<<<>>, "smtc_rac_lora_request_pb_t">>
           s1 == <<<<"rac_config">>, "smtc_rac_context_pb_t">>
           s2 == <<SetupPath, "smtc_rac_data_buffer_setup_pb_t">>
<1>2. s0 \in Nested(Request)  BY <1>1, TopIn DEF Top, Request
<1>3. s1 \in Nested(Request)
  <2>1. Message[s0[2]] = smtc_rac_lora_request_pb_t  BY DEF Message
  <2>2. /\ 2 \in 1..Len(smtc_rac_lora_request_pb_t)
        /\ smtc_rac_lora_request_pb_t[2] = <<"rac_config", "smtc_rac_context_pb_t">>
    BY DEF smtc_rac_lora_request_pb_t
  <2>3. FieldTo(s0, 2) = s1  BY <2>1, <2>2 DEF FieldTo
  <2>4. IsMessage("smtc_rac_context_pb_t")  BY DEF IsMessage, Message
  <2> HIDE DEF s0, s1
  <2> QED BY <1>1, <1>2, <2>1, <2>2, <2>3, <2>4, FieldIn
<1>4. s2 \in Nested(Request)
  <2>1. Message[s1[2]] = smtc_rac_context_pb_t  BY DEF Message
  <2>2. /\ 3 \in 1..Len(smtc_rac_context_pb_t)
        /\ smtc_rac_context_pb_t[3]
             = <<"smtc_rac_data_buffer_setup", "smtc_rac_data_buffer_setup_pb_t">>
    BY DEF smtc_rac_context_pb_t
  <2>3. FieldTo(s1, 3) = s2  BY <2>1, <2>2, AppendTwo DEF FieldTo, SetupPath
  <2>4. IsMessage("smtc_rac_data_buffer_setup_pb_t")  BY DEF IsMessage, Message
  <2> HIDE DEF s1, s2
  <2> QED BY <1>1, <1>3, <2>1, <2>2, <2>3, <2>4, FieldIn
<1>5. <<PayloadPath, "BYTES">> \in Fields[Request]
  <2>1. Message[s2[2]] = smtc_rac_data_buffer_setup_pb_t  BY DEF Message
  <2>2. /\ 1 \in 1..Len(smtc_rac_data_buffer_setup_pb_t)
        /\ smtc_rac_data_buffer_setup_pb_t[1] = <<"tx_payload_buffer", "BYTES">>
    BY DEF smtc_rac_data_buffer_setup_pb_t
  <2>3. FieldTo(s2, 1) = <<PayloadPath, "BYTES">>
    BY <2>1, <2>2, AppendThree DEF FieldTo, SetupPath, PayloadPath
  <2> HIDE DEF s2
  <2> QED BY <1>1, <1>4, <2>1, <2>2, <2>3, FieldIn
<1> QED BY <1>1, <1>5

\* The payload that a request carries
LEMMA PayloadSent ==
  ASSUME NEW d, DestOf(d, Request)
  PROVE  At(d, SetupPath)["tx_payload_buffer"] \in Seq(Byte)
<1> DEFINE name == "tx_payload_buffer"
           N == {Last(p) : p \in {q \in DOMAIN d : q # <<>> /\ Front(q) = SetupPath}}
<1>1. PayloadPath \in DOMAIN d /\ d[PayloadPath] \in FieldValues("BYTES")
  BY PayloadIn DEF DestOf, PathsOf
<1>2. d[PayloadPath] \in Seq(Byte)  BY <1>1, ValuesOfBasic DEF Payloads
<1>3. PayloadPath # <<>> /\ Front(PayloadPath) = SetupPath /\ Last(PayloadPath) = name
  <2> DEFINE S == {"rac_config", "smtc_rac_data_buffer_setup", "tx_payload_buffer"}
  <2>1. SetupPath \in Seq(S) /\ name \in S  BY DEF SetupPath
  <2>2. Append(SetupPath, name) = PayloadPath  BY AppendThree DEF SetupPath, PayloadPath
  <2>3. PayloadPath # <<>>  BY DEF PayloadPath
  <2> HIDE DEF S, name
  <2> QED BY <2>1, <2>2, <2>3, FrontOfAppend
<1>4. name \in N  BY <1>1, <1>3
<1>5. Append(SetupPath, name) = PayloadPath  BY AppendThree DEF PayloadPath, SetupPath
<1>6. At(d, SetupPath) = [x \in N |-> d[Append(SetupPath, x)]]  BY Zenon DEF At
<1> HIDE DEF N, name
<1>7. At(d, SetupPath)[name] = d[Append(SetupPath, name)]  BY <1>4, <1>6
<1> QED BY <1>2, <1>5, <1>7 DEF name

\* What is copied to the head of a buffer leaves its length as it was
LEMMA CopiedLength ==
  ASSUME NEW sent \in Seq(Byte), NEW payload \in Seq(Byte), Len(sent) <= Len(payload)
  PROVE  Len(sent \o Drop(payload, Len(sent))) = Len(payload)
<1> DEFINE rest == Drop(payload, Len(sent))
<1>1. Len(sent) \in 0..Len(payload)  OBVIOUS
<1>2. rest \in Seq(Byte) /\ Len(rest) = Len(payload) - Len(sent)  BY <1>1, DropProperties
<1> HIDE DEF rest
<1>3. Len(sent \o rest) = Len(payload)  BY <1>2
<1> QED BY <1>3 DEF rest

\* A payload is copied to the head of the buffer
LEMMA PayloadCopied ==
  ASSUME NEW pb, pb["tx_payload_buffer"] \in Seq(Byte),
         NEW payload \in Seq(Byte), Len(payload) = 255
  PROVE  LET r == rac_convert_data_buffer_setup_from_pb(pb, payload)
         IN  r.ok => Len(r.val) = 255
<1> DEFINE sent == pb["tx_payload_buffer"]
           rest == Drop(payload, Len(sent))
           r == rac_convert_data_buffer_setup_from_pb(pb, payload)
<1>p. payload \in Seq(Byte)  OBVIOUS
<1>1. sent \in Seq(Byte) /\ Len(sent) \in Nat  OBVIOUS
<1>2. r = IF Len(sent) > 255 THEN [ok |-> FALSE, val |-> payload]
          ELSE [ok |-> TRUE, val |-> sent \o rest]
  BY Zenon DEF rac_convert_data_buffer_setup_from_pb
<1> HIDE DEF sent, r
<1>3. CASE Len(sent) > 255  BY <1>2, <1>3 DEF r
<1>4. CASE ~(Len(sent) > 255)
  <2>a. Len(sent) <= Len(payload)  BY <1>1, <1>4
  <2>1. Len(sent \o rest) = Len(payload)  BY <1>1, <1>p, <2>a, CopiedLength
  <2> HIDE DEF rest
  <2>2. r.val = sent \o rest  BY <1>2, <1>4
  <2> QED BY <2>1, <2>2 DEF r
<1> QED BY <1>3, <1>4

\* What a conversion into the transaction leaves alone
LEMMA ContextConverted ==
  ASSUME NEW d, DestOf(d, Request), NEW r \in rac_convert_context_from_pb(d, Config, Native)
  PROVE  /\ ~r.ok => /\ r.val.tx_payload_buffer = Native.tx_payload_buffer
                     /\ r.val.smtc_rac_data_result = Native.smtc_rac_data_result
                     /\ r.val.scheduler_config = Native.scheduler_config
                     /\ Number(d[<<"rac_config", "modulation_type">>]) > 0 => r.val = Native
         /\ Len(r.val.tx_payload_buffer) = 255
<1> DEFINE Part(name) == At(d, Append(Config, name))
           params == Append(Config, "radio_params")
           modulation == d[Append(Config, "modulation_type")]
           v1 == rac_convert_modulation_type_from_pb(modulation)
           v2 == rac_convert_radio_params_from_pb(At(d, params), At(d, Append(params, "rttof")))
           v3 == rac_convert_lbt_context_from_pb(Part("lbt_context"))
           v4 == rac_convert_cw_context_from_pb(Part("cw_context"))
           converted == [Native EXCEPT !.modulation_type = v1, !.radio_params = v2,
                                       !.lbt_context = v3, !.cw_context = v4]
           cad == rac_convert_cad_context_from_pb(Part("cad_context"), Native.cad_context)
           payload == rac_convert_data_buffer_setup_from_pb(
                        Part("smtc_rac_data_buffer_setup"), Native.tx_payload_buffer)
           results == rac_convert_data_result_from_pb(
                        Part("smtc_rac_data_result"),
                        At(d, Config \o <<"smtc_rac_data_result", "ranging_result">>),
                        Native.smtc_rac_data_result)
           half == [converted EXCEPT !.cad_context = cad.val]
           schedule == rac_convert_scheduler_config_from_pb(Part("scheduler_config"))
           LastOf(x) == [half EXCEPT !.tx_payload_buffer = payload.val,
                                     !.smtc_rac_data_result = x,
                                     !.scheduler_config = schedule]
           lora == ToPb(Modulation, "LORA", "LORA")
<1>1. rac_convert_context_from_pb(d, Config, Native)
        = IF modulation # lora THEN {[ok |-> FALSE, val |-> Native]}
          ELSE IF ~cad.ok \/ ~payload.ok THEN {[ok |-> FALSE, val |-> half]}
          ELSE {[ok |-> TRUE, val |-> LastOf(x)] : x \in results}
  BY Zenon DEF rac_convert_context_from_pb
<1>2. DOMAIN Native = NativeNames  BY NativeAssumption DEF NativeNames, IsStruct
<1>3. Native.tx_payload_buffer \in Seq(Byte) /\ Len(Native.tx_payload_buffer) = 255
  BY NativeAssumption
<1>4. payload.ok => Len(payload.val) = 255
  <2>1. Append(Config, "smtc_rac_data_buffer_setup") = SetupPath
    BY AppendTwo DEF Config, SetupPath
  <2>2. Part("smtc_rac_data_buffer_setup")["tx_payload_buffer"] \in Seq(Byte)
    BY <2>1, PayloadSent
  <2> HIDE DEF Part
  <2> QED BY <1>3, <2>2, PayloadCopied
<1>5. Number(d[<<"rac_config", "modulation_type">>]) > 0 => modulation # lora
  <2>1. Append(Config, "modulation_type") = <<"rac_config", "modulation_type">>
    BY AppendTwo DEF Config
  <2>2. lora = BitsOf(0)  BY LoraIsZero
  <2>3. Number(BitsOf(0)) = 0
    <3>1. 0 \in 0..(2^28 - 1)  BY Powers
    <3> QED BY <3>1, NumberOfBits
  <2> HIDE DEF lora
  <2>4. ASSUME modulation = lora PROVE Number(d[<<"rac_config", "modulation_type">>]) = 0
    BY <2>1, <2>2, <2>3, <2>4
  <2> QED BY <2>4
<1> HIDE DEF v1, v2, v3, v4, payload, results, schedule, cad, lora, modulation
<1>a. FirstSet(converted, Native, v1, v2, v3, v4)  BY DEF FirstSet
<1>b. \A x : LastSet(LastOf(x), half, payload.val, x, schedule)  BY Zenon DEF LastSet
<1> HIDE DEF LastOf
<1>6. /\ DOMAIN converted = NativeNames
      /\ converted.tx_payload_buffer = Native.tx_payload_buffer
      /\ converted.smtc_rac_data_result = Native.smtc_rac_data_result
      /\ converted.scheduler_config = Native.scheduler_config
  BY <1>2, <1>a, FirstParts
<1> HIDE DEF converted
<1>7. /\ DOMAIN half = NativeNames
      /\ half.tx_payload_buffer = Native.tx_payload_buffer
      /\ half.smtc_rac_data_result = Native.smtc_rac_data_result
      /\ half.scheduler_config = Native.scheduler_config
  BY <1>6, CadPart
<1> HIDE DEF half
<1>8. \A x : LastOf(x).tx_payload_buffer = payload.val  BY <1>7, <1>b, LastParts
<1>9. CASE modulation # lora  BY <1>1, <1>9, <1>3
<1>10. CASE modulation = lora /\ (~cad.ok \/ ~payload.ok)  BY <1>1, <1>10, <1>3, <1>5, <1>7
<1>11. CASE modulation = lora /\ ~(~cad.ok \/ ~payload.ok)
  <2>1. PICK x \in results : r = [ok |-> TRUE, val |-> LastOf(x)]  BY <1>1, <1>11
  <2>2. r.ok /\ r.val = LastOf(x)  BY <2>1
  <2> QED BY <1>4, <1>8, <1>11, <2>2
<1> QED BY <1>9, <1>10, <1>11

\* It holds at first
LEMMA ConvertedStarts == Init => Converted
BY TransferStarts DEF Converted, Init

\* and every step keeps it
LEMMA ConvertedKept == Converted /\ [Next]_vars => Converted'
<1> SUFFICES ASSUME Converted, [Next]_vars PROVE Converted'
  OBVIOUS
<1>1. Transfer /\ Transfer'  BY TransferKept DEF Converted
<1>2. CASE Decode
  <2>1. PbDecodeNext /\ UNCHANGED <<message, fault, native, outcome>>  BY <1>2 DEF Decode
  <2>2. verdict = "decoding"
    BY <2>1 DEF PbDecodeNext, DecodeBadTag, SkipUnknownField, DecodeField, EnterSubmessage,
       LeaveSubmessage, Accept, Reading
  <2>3. outcome = "none"  BY <2>2 DEF Converted
  <2>4. native = IF message.type = Request THEN Native ELSE NativeResult  BY <2>3 DEF Converted
  <2> QED BY <1>1, <2>1, <2>3, <2>4 DEF Converted
<1>3. CASE ConvertRequest
  <2>1. PICK r \in rac_convert_context_from_pb(dest, Config, native) :
          native' = r.val /\ outcome' = IF r.ok THEN "converted" ELSE "refused"
    BY <1>3 DEF ConvertRequest
  <2>2. /\ verdict = "accepted" /\ outcome = "none" /\ message.type = Request
        /\ UNCHANGED <<message, dest, verdict>>
    BY <1>3 DEF ConvertRequest, decoderVars
  <2>3. native = Native  BY <2>2 DEF Converted
  <2> QED BY <1>1, <2>1, <2>2, <2>3 DEF Converted
<1>4. CASE ConvertResults  BY <1>4, <1>1 DEF ConvertResults, decoderVars, Request, Converted
<1>5. CASE UNCHANGED vars  BY <1>1, <1>5 DEF Converted, vars, decoderVars
<1> QED BY <1>2, <1>3, <1>4, <1>5 DEF Next

\* In every state the transaction is the one conversion of what has been received
THEOREM ConvertedInvariant == Spec => []Converted
<1>1. Init => Converted  BY ConvertedStarts
<1>2. Converted /\ [Next]_vars => Converted'  BY ConvertedKept
<1> QED BY <1>1, <1>2, PTL DEF Spec

\* A request that is refused leaves the payload, the results and the schedule alone, and no
\* request fills more than the buffer
THEOREM RefusedKeeps == Spec => []RefusedKeepsTransaction
<1>1. Converted => RefusedKeepsTransaction
  <2> SUFFICES ASSUME Converted, message.type = Request
               PROVE  /\ outcome = "refused" =>
                           /\ native.tx_payload_buffer = Native.tx_payload_buffer
                           /\ native.smtc_rac_data_result = Native.smtc_rac_data_result
                           /\ native.scheduler_config = Native.scheduler_config
                           /\ Number(dest[<<"rac_config", "modulation_type">>]) > 0
                                => native = Native
                      /\ Len(native.tx_payload_buffer) = 255
    BY DEF RefusedKeepsTransaction
  <2>1. DestOf(dest, Request)  BY DEF Converted, Transfer, DecoderOf
  <2>2. CASE outcome = "none" /\ native = Native  BY <2>2, NativeAssumption
  <2>3. CASE \E r \in rac_convert_context_from_pb(dest, Config, Native) :
               native = r.val /\ outcome = IF r.ok THEN "converted" ELSE "refused"
    <3>1. PICK r \in rac_convert_context_from_pb(dest, Config, Native) :
            native = r.val /\ outcome = IF r.ok THEN "converted" ELSE "refused"
      BY <2>3
    <3>2. outcome = "refused" => ~r.ok  BY <3>1
    <3> QED BY <2>1, <3>1, <3>2, ContextConverted
  <2> QED BY <2>2, <2>3 DEF Converted
<1> QED BY <1>1, ConvertedInvariant, PTL

(***************************************************************************)
(* 8. Sizes: what the converters put in a message fits in the size that    *)
(* the header declares for it.                                             *)
(***************************************************************************)

\* A power of two that is at least another, from there on
LEMMA PowersFrom ==
  ASSUME NEW a \in 0..27, NEW c \in Nat, 2^a >= c
  PROVE  \A b \in a..28 : 2^b >= c
<1> DEFINE S == {j \in Nat : a + j <= 28 => 2^(a + j) >= c}
<1>1. 0 \in S  BY DEF S
<1>2. ASSUME NEW j \in Nat, j \in S PROVE j + 1 \in S
  <2>1. CASE a + j <= 27
    <3>1. PICK k : k = a + j  OBVIOUS
    <3>2. k \in 0..27 /\ a + (j + 1) = k + 1  BY <2>1, <3>1
    <3>3. 2^k \in Nat /\ 2^k >= 1 /\ 2^(k + 1) = 2 * 2^k  BY <3>2, Powers
    <3>4. 2^k >= c  BY <1>2, <2>1, <3>1
    <3>5. 2^(a + (j + 1)) >= c  BY <3>2, <3>3, <3>4
    <3> QED BY <3>5
  <2>2. CASE ~(a + j <= 27)  BY <2>2
  <2> QED BY <2>1, <2>2
<1>3. S \in SUBSET Nat  OBVIOUS
<1> HIDE DEF S
<1>4. S = Nat  BY <1>1, <1>2, <1>3, Induction
<1>5. ASSUME NEW b \in a..28 PROVE 2^b >= c
  <2>1. b - a \in S /\ a + (b - a) = b /\ b <= 28  BY <1>4
  <2> QED BY <2>1 DEF S
<1> QED BY <1>5

\* A number below another has no bits from there on
LEMMA BitsBelow ==
  ASSUME NEW a \in 1..27, NEW n \in Nat, n < 2^a
  PROVE  BitsOf(n) \subseteq 0..(a - 1)
<1>1. 2^a \in Nat  BY Powers
<1>2. n + 1 \in Nat /\ 2^a >= n + 1  BY <1>1
<1>a. a \in 0..27  OBVIOUS
<1>3. \A b \in a..28 : 2^b >= n + 1
  <2> DEFINE c == n + 1
  <2>1. c \in Nat /\ 2^a >= c  BY <1>2
  <2> HIDE DEF c
  <2>2. \A b \in a..28 : 2^b >= c  BY <1>a, <2>1, PowersFrom
  <2> QED BY <2>2 DEF c
<1>4. ASSUME NEW b \in BitsOf(n) PROVE b \in 0..(a - 1)
  <2>1. b \in 0..27 /\ (n \div 2^b) % 2 = 1  BY DEF BitsOf
  <2>2. CASE b >= a
    <3> DEFINE p == 2^b
    <3>1. p \in Nat /\ p >= n + 1  BY <1>3, <2>1, <2>2, Powers
    <3>a. (n \div p) % 2 = 1  BY <2>1
    <3> HIDE DEF p
    <3>2. n \div p = 0  BY <3>1
    <3> QED BY <3>a, <3>2
  <2> QED BY <2>1, <2>2
<1> QED BY <1>4

\* The groups of a value of so many bits
LEMMA ShortVarint ==
  ASSUME NEW g \in 1..9, NEW v \in SUBSET (0..63), v \subseteq 0..(7 * g - 1)
  PROVE  Len(pb_encode_varint(v)) <= g
<1>1. Len(pb_encode_varint(v)) = VarintGroups(v)  BY VarintWritten DEF IsVarint
<1>2. CASE v = {}  BY <1>1, <1>2 DEF VarintGroups
<1>3. CASE v # {}
  <2>1. Max(v) \in v  BY <1>3, MaxProperty
  <2>2. VarintGroups(v) = (Max(v) \div 7) + 1  BY <1>3 DEF VarintGroups
  <2>3. PICK x : x = Max(v)  OBVIOUS
  <2>4. x \in 0..(7 * g - 1)  BY <2>1, <2>3
  <2>5. (x \div 7) + 1 <= g  BY <2>4
  <2> QED BY <1>1, <2>2, <2>3, <2>5
<1> QED BY <1>2, <1>3

\* A length of a message, and its own length
LEMMA LengthSize ==
  ASSUME NEW n \in Nat, n < 16384
  PROVE  Len(pb_encode_varint(BitsOf(n))) <= 2
<1>1. 2^14 = 16384  OBVIOUS
<1>2. BitsOf(n) \subseteq 0..13  BY <1>1, BitsBelow
<1>3. BitsOf(n) \in SUBSET (0..63)  BY BitsOfWider
<1>4. PICK g \in 1..9 : g = 2  OBVIOUS
<1> DEFINE v == BitsOf(n)
<1>5. v \in SUBSET (0..63) /\ v \subseteq 0..(7 * g - 1)  BY <1>2, <1>3, <1>4
<1> HIDE DEF v
<1>6. Len(pb_encode_varint(v)) <= g  BY <1>5, ShortVarint
<1> QED BY <1>4, <1>6 DEF v

\* A number of seven bits takes one byte
LEMMA SmallSize ==
  ASSUME NEW n \in Nat, n < 128
  PROVE  Len(pb_encode_varint(BitsOf(n))) <= 1
<1>1. 2^7 = 128  OBVIOUS
<1>2. BitsOf(n) \subseteq 0..6  BY <1>1, BitsBelow
<1>3. BitsOf(n) \in SUBSET (0..63)  BY BitsOfWider
<1>4. PICK g \in 1..9 : g = 1  OBVIOUS
<1> DEFINE v == BitsOf(n)
<1>5. v \in SUBSET (0..63) /\ v \subseteq 0..(7 * g - 1)  BY <1>2, <1>3, <1>4
<1> HIDE DEF v
<1>6. Len(pb_encode_varint(v)) <= g  BY <1>5, ShortVarint
<1> QED BY <1>4, <1>6 DEF v

\* which is what 14 bits hold
LEMMA TwoGroupsIs == TwoGroups = 16384
BY DEF TwoGroups

\* A string takes its bytes and one or two for their number
LEMMA StringSize ==
  ASSUME NEW b \in Seq(Byte), NEW n \in Nat, Len(b) <= n, n < TwoGroups
  PROVE  Len(pb_encode_string(b)) <= n + 2
<1> DEFINE c == Len(b)
           e == pb_encode_varint(BitsOf(c))
           x == e \o b
<1>1. c \in Nat /\ c < TwoGroups /\ c <= n  BY TwoGroupsIs
<1>2. pb_encode_string(b) = x  BY DEF pb_encode_string
<1> HIDE DEF c
<1>3. e \in Seq(Byte)
  <2> DEFINE v == BitsOf(c)
  <2>1. v \in SUBSET (0..63)  BY BitsOfWider
  <2> HIDE DEF v
  <2>2. pb_encode_varint(v) \in Seq(Byte)  BY <2>1, VarintSize
  <2> QED BY <2>2 DEF v
<1>4. Len(e) <= 2  BY <1>1, TwoGroupsIs, LengthSize
<1> HIDE DEF e
<1>5. x \in Seq(Byte) /\ Len(x) = Len(e) + Len(b) /\ Len(e) \in Nat  BY <1>3, Concat
<1> HIDE DEF x
<1>6. Len(x) <= n + 2  BY <1>1, <1>4, <1>5 DEF c
<1> QED BY <1>2, <1>6

\* What a field takes, tag included
LEMMA ValueSize ==
  ASSUME NEW type \in Types, NEW v \in FieldValues(type), NEW inside, NEW n \in Nat,
      n < TwoGroups,
         type = "BYTES" => Len(v) <= n,
         IsMessage(type) => inside \in Seq(Byte) /\ Len(inside) <= n
  PROVE  Len(EncodedValue(type, v, inside)) <= Most(type, n)
<1>1. CASE type = "BOOL"
  <2>1. PICK g \in 1..9 : g = 1  OBVIOUS
  <2>2. v \in SUBSET {0}  BY <1>1, ValuesOfBasic
  <2>3. v \in SUBSET (0..63) /\ v \subseteq 0..(7 * g - 1)  BY <2>1, <2>2
  <2>4. EncodedValue(type, v, inside) = pb_encode_varint(v) /\ Most(type, n) = 1
    BY <1>1 DEF EncodedValue, Most
  <2>5. Len(pb_encode_varint(v)) <= g  BY <2>3, ShortVarint
  <2> QED BY <2>1, <2>4, <2>5
<1>2. CASE type \in {"UINT32", "UENUM"}
  <2>1. PICK g \in 1..9 : g = 5  OBVIOUS
  <2>2. v \in SUBSET (0..31)
    <3>1. CASE type = "UINT32"  BY <3>1, ValuesOfBasic
    <3>2. CASE type = "UENUM"
      <4>1. v \in SUBSET (0..(EnumBits - 1))  BY <3>2, ValuesOfBasic
      <4> QED BY <4>1, EnumBitsAssumption
    <3> QED BY <1>2, <3>1, <3>2
  <2>3. v \in SUBSET (0..63) /\ v \subseteq 0..(7 * g - 1)  BY <2>1, <2>2
  <2>4. EncodedValue(type, v, inside) = pb_encode_varint(v) /\ Most(type, n) = 5
    BY <1>2 DEF EncodedValue, Most
  <2>5. Len(pb_encode_varint(v)) <= g  BY <2>3, ShortVarint
  <2> QED BY <2>1, <2>4, <2>5
<1>3. CASE type = "INT32"
  <2> DEFINE u == IF 31 \in v THEN v \cup (32..63) ELSE v
  <2>1. u \in SUBSET (0..63)  BY <1>3, ValuesOfBasic
  <2>2. EncodedValue(type, v, inside) = pb_encode_varint(u) /\ Most(type, n) = 10
    BY <1>3 DEF EncodedValue, Most, pb_enc_varint
  <2> HIDE DEF u
  <2>3. Len(pb_encode_varint(u)) <= 10  BY <2>1, VarintSize
  <2> QED BY <2>2, <2>3
<1>4. CASE type = "FLOAT"
  <2>1. v \in SUBSET (0..31)  BY ValuesOfBasic, <1>4
  <2>2. EncodedValue(type, v, inside) = pb_encode_fixed32(v) /\ Most(type, n) = 4
    BY <1>4 DEF EncodedValue, Most
  <2>3. Len(pb_encode_fixed32(v)) = 4  BY <2>1, FixedWritten
  <2> QED BY <2>2, <2>3
<1>5. CASE type = "BYTES"  BY <1>5, ValuesOfBasic, StringSize DEF EncodedValue, Most
<1>6. CASE IsMessage(type)  BY <1>6, BasicNotMessage, StringSize DEF EncodedValue, Most
<1> QED BY <1>1, <1>2, <1>3, <1>4, <1>5, <1>6, TypeCases

\* The tags up to 15 take one byte, the last two of the radio parameters two
LEMMA ShortTag ==
  ASSUME NEW type, NEW tag \in 1..17
  PROVE  /\ Len(pb_encode_tag_for_field(type, tag)) <= 2
         /\ tag <= 15 => Len(pb_encode_tag_for_field(type, tag)) <= 1
<1> DEFINE n == 8 * tag + wire_type_of(type)
<1>1. wire_type_of(type) \in 0..7  BY WireType
<1>2. pb_encode_tag_for_field(type, tag) = pb_encode_varint(BitsOf(n))
  BY DEF pb_encode_tag_for_field, pb_encode_tag
<1>3. n \in Nat /\ n < 16384 /\ (tag <= 15 => n < 128)  BY <1>1
<1> HIDE DEF n
<1> QED BY <1>2, <1>3, LengthSize, SmallSize

\* Past the last field there is nothing
LEMMA SizeEnd ==
  ASSUME NEW T \in DOMAIN MaxSize, NEW m, IsMessageOf(T, m), NEW s \in Nested(T),
         NEW k \in 1..18, k > Len(Message[s[2]])
  PROVE  SizeFrom(T, m, s, k) = 0
BY BytesEnd DEF SizeFrom

\* A field adds its tag and its value to the bytes after it, or nothing
LEMMA SizeStep ==
  ASSUME NEW T \in DOMAIN MaxSize, NEW m, IsMessageOf(T, m), NEW s \in Nested(T),
         NEW k \in 1..Len(Message[s[2]]), NEW n \in Nat, n < TwoGroups,
         TypeAt(s, k) = "BYTES" => Len(m[PathAt(s, k)]) <= n,
         IsMessage(TypeAt(s, k)) => SizeFrom(T, m, FieldTo(s, k), 1) <= n
  PROVE  /\ SizeFrom(T, m, s, k) \in Nat /\ SizeFrom(T, m, s, k + 1) \in Nat
         /\ DefaultAt(m, s, k) => SizeFrom(T, m, s, k) = SizeFrom(T, m, s, k + 1)
         /\ ~DefaultAt(m, s, k) =>
              SizeFrom(T, m, s, k)
                = Len(pb_encode_tag_for_field(TypeAt(s, k), k))
                  + Len(EncodedValue(TypeAt(s, k), m[PathAt(s, k)], Inside(T, m, s, k)))
                  + SizeFrom(T, m, s, k + 1)
         /\ Len(EncodedValue(TypeAt(s, k), m[PathAt(s, k)], Inside(T, m, s, k))) \in Nat
         /\ SizeFrom(T, m, s, k) <= SizeFrom(T, m, s, k + 1) + 2 + Most(TypeAt(s, k), n)
         /\ k <= 15 =>
              SizeFrom(T, m, s, k) <= SizeFrom(T, m, s, k + 1) + 1 + Most(TypeAt(s, k), n)
<1> DEFINE type == TypeAt(s, k)
           v == m[PathAt(s, k)]
           inside == Inside(T, m, s, k)
           e == pb_encode_tag_for_field(type, k)
           d == EncodedValue(type, v, inside)
           f == FieldBytes(T, m, s, k)
           b == Bytes(T, m, s, k)
           r == Bytes(T, m, s, k + 1)
           w == Most(type, n)
<1>1. k \in 1..17 /\ k \in 1..18 /\ k + 1 \in 1..18 /\ type \in Types  BY PlaceAt
<1>2. b \in Seq(Byte) /\ r \in Seq(Byte)
  <2>1. b \in Seq(Byte)  BY <1>1, BytesTyped
  <2> DEFINE j == k + 1
  <2>2. j \in 1..18  BY <1>1
  <2> HIDE DEF j
  <2>3. Bytes(T, m, s, j) \in Seq(Byte)  BY <2>2, BytesTyped
  <2> QED BY <2>1, <2>3 DEF j
<1>3. /\ v \in FieldValues(type) /\ d \in Seq(Byte)
      /\ IsMessage(type) => inside \in Seq(Byte)
  BY FieldBytesTyped
<1>4. IsMessage(type) => Len(inside) <= n  BY DEF SizeFrom, Inside
<1>5. Len(d) <= w
  <2> HIDE DEF type, v, inside, w
  <2>1. type = "BYTES" => Len(v) <= n  BY DEF type, v
  <2> QED BY <1>1, <1>3, <1>4, <2>1, ValueSize DEF w
<1>6. e \in Seq(Byte) /\ Len(e) <= 2 /\ (k <= 15 => Len(e) <= 1)  BY <1>1, TagSize, ShortTag
<1>7. /\ DefaultAt(m, s, k) => b = r
      /\ ~DefaultAt(m, s, k) => b = f \o r
  BY BytesNext
<1>8. f = e \o d  BY DEF FieldBytes, encode_basic_field, EncodedValue
<1>9. w \in Nat  BY DEF Most
<1> HIDE DEF e, d, f, b, r, w
<1>10. f \in Seq(Byte) /\ Len(f) = Len(e) + Len(d)  BY <1>3, <1>6, <1>8, Concat
<1>11. Len(f \o r) = Len(f) + Len(r)
  <2>1. f \in Seq(Byte) /\ r \in Seq(Byte)  BY <1>2, <1>10
  <2> QED BY <2>1, Concat
<1> DEFINE lb == Len(b)
           lr == Len(r)
           le == Len(e)
           ld == Len(d)
<1>12. lb \in Nat /\ lr \in Nat /\ le \in Nat /\ ld \in Nat  BY <1>2, <1>3, <1>6
<1>13. DefaultAt(m, s, k) => lb = lr  BY <1>7
<1>14. ~DefaultAt(m, s, k) => lb = le + ld + lr  BY <1>7, <1>10, <1>11, <1>12
<1>15. le <= 2 /\ (k <= 15 => le <= 1) /\ ld <= w  BY <1>5, <1>6
<1>16. SizeFrom(T, m, s, k) = lb /\ SizeFrom(T, m, s, k + 1) = lr  BY DEF SizeFrom, b, r
<1> HIDE DEF lb, lr, le, ld
<1>17. lb <= lr + 2 + w /\ (k <= 15 => lb <= lr + 1 + w)  BY <1>9, <1>12, <1>13, <1>14, <1>15
<1> QED BY <1>12, <1>13, <1>14, <1>16, <1>17 DEF le, ld, e, d, w

\* They take ten bytes at most, and a tag of one
LEMMA NumericMost ==
  ASSUME NEW type \in Numeric
  PROVE  /\ \A n : Most(type, n) \in Nat /\ Most(type, n) <= 10
         /\ type # "BYTES" /\ ~IsMessage(type)
<1>1. ~IsMessage(type) /\ type # "BYTES"  BY BasicDepth DEF Numeric, Basic
<1> QED BY <1>1 DEF Numeric, Most

\* The size of what is written is a number
LEMMA SizeType ==
  ASSUME NEW T \in DOMAIN MaxSize, NEW m, IsMessageOf(T, m), NEW s \in Nested(T),
         NEW k \in 1..18
  PROVE  SizeFrom(T, m, s, k) \in Nat
BY BytesTyped DEF SizeFrom

\* Numbers with tags of one byte take eleven bytes at most
LEMMA NumberStep ==
  ASSUME NEW T \in DOMAIN MaxSize, NEW m, IsMessageOf(T, m), NEW s \in Nested(T),
         NEW k \in 1..Len(Message[s[2]]), k <= 15, TypeAt(s, k) \in Numeric
  PROVE  /\ SizeFrom(T, m, s, k) <= SizeFrom(T, m, s, k + 1) + 11
         /\ TypeAt(s, k) = "FLOAT" => SizeFrom(T, m, s, k) <= SizeFrom(T, m, s, k + 1) + 5
         /\ TypeAt(s, k) \in {"UINT32", "UENUM"} =>
              SizeFrom(T, m, s, k) <= SizeFrom(T, m, s, k + 1) + 6
         /\ TypeAt(s, k) = "BOOL" => SizeFrom(T, m, s, k) <= SizeFrom(T, m, s, k + 1) + 2
<1> DEFINE type == TypeAt(s, k)
           x == SizeFrom(T, m, s, k)
           y == SizeFrom(T, m, s, k + 1)
<1>1. \A n : Most(type, n) \in Nat /\ Most(type, n) <= 10 /\ type # "BYTES" /\ ~IsMessage(type)
  BY NumericMost
<1>2. PICK n \in Nat : n = 0  OBVIOUS
<1>3. n < TwoGroups  BY <1>2, TwoGroupsIs
<1>4. x \in Nat /\ y \in Nat /\ x <= y + 1 + Most(type, n)  BY <1>1, <1>3, SizeStep
<1>5. /\ type = "FLOAT" => Most(type, n) = 4
      /\ type \in {"UINT32", "UENUM"} => Most(type, n) = 5
      /\ type = "BOOL" => Most(type, n) = 1
  BY DEF Most
<1> HIDE DEF x, y, type
<1> DEFINE w == Most(type, n)
<1>6. w \in Nat /\ w <= 10 /\ x <= y + 1 + w  BY <1>1, <1>4
<1>7. /\ type = "FLOAT" => w = 4
      /\ type \in {"UINT32", "UENUM"} => w = 5
      /\ type = "BOOL" => w = 1
  BY <1>5
<1> HIDE DEF w
<1>8. /\ x <= y + 11
      /\ type = "FLOAT" => x <= y + 5
      /\ type \in {"UINT32", "UENUM"} => x <= y + 6
      /\ type = "BOOL" => x <= y + 2
  BY <1>4, <1>6, <1>7
<1> QED BY <1>8 DEF x, y, type

\* Fields that are all numbers take eleven bytes each at most
LEMMA NumbersFrom ==
  ASSUME NEW T \in DOMAIN MaxSize, NEW m, IsMessageOf(T, m), NEW s \in Nested(T),
         NEW a \in 1..16, NEW b \in 1..16, a <= b, b <= Len(Message[s[2]]) + 1,
         \A k \in a..(b - 1) : TypeAt(s, k) \in Numeric
  PROVE  SizeFrom(T, m, s, a) <= SizeFrom(T, m, s, b) + 11 * (b - a)
<1> DEFINE y == SizeFrom(T, m, s, b)
           S == {j \in Nat : j <= b - a => SizeFrom(T, m, s, b - j) <= y + 11 * j}
           l == Len(Message[s[2]])
<1>0. y \in Nat /\ l \in Nat /\ b <= l + 1
  <2>1. b \in 1..18  OBVIOUS
  <2>2. l \in Nat  BY NestedLevel, LengthOf
  <2> QED BY <2>1, <2>2, SizeType
<1> HIDE DEF l
<1>1. 0 \in S
  <2>1. b - 0 = b  OBVIOUS
  <2>2. SizeFrom(T, m, s, b - 0) = y  BY <2>1
  <2> HIDE DEF y
  <2>3. SizeFrom(T, m, s, b - 0) <= y + 11 * 0  BY <1>0, <2>2
  <2> QED BY <2>3
<1>2. ASSUME NEW j \in Nat, j \in S PROVE j + 1 \in S
  <2> HIDE DEF y
  <2>1. CASE j + 1 <= b - a
    <3>1. PICK k : k = b - (j + 1)  OBVIOUS
    <3>2. /\ k \in 1..l /\ k <= 15 /\ k \in a..(b - 1) /\ k + 1 = b - j /\ j <= b - a
          /\ k \in 1..18 /\ k + 1 \in 1..18
      BY <1>0, <2>1, <3>1
    <3>a. TypeAt(s, k) \in Numeric  BY <3>2
    <3>b. k \in 1..Len(Message[s[2]])  BY <3>2 DEF l
    <3>3. SizeFrom(T, m, s, k) <= SizeFrom(T, m, s, k + 1) + 11  BY <3>2, <3>a, <3>b, NumberStep
    <3> DEFINE x1 == SizeFrom(T, m, s, k)
               x2 == SizeFrom(T, m, s, k + 1)
    <3>4. x1 \in Nat  BY <3>2, SizeType
    <3>5. x2 \in Nat
      <4> DEFINE i == k + 1
      <4>1. i \in 1..18  BY <3>2
      <4> HIDE DEF i
      <4>2. SizeFrom(T, m, s, i) \in Nat  BY <4>1, SizeType
      <4> QED BY <4>2 DEF i
    <3>6. x2 <= y + 11 * j  BY <1>2, <3>2
    <3>7. x1 <= x2 + 11  BY <3>3
    <3> HIDE DEF x1, x2
    <3>8. x1 <= y + 11 * (j + 1)  BY <1>0, <3>4, <3>5, <3>6, <3>7
    <3>9. SizeFrom(T, m, s, b - (j + 1)) <= y + 11 * (j + 1)  BY <3>1, <3>8 DEF x1
    <3> QED BY <3>9
  <2>2. CASE ~(j + 1 <= b - a)  BY <2>2
  <2> QED BY <2>1, <2>2
<1>3. S \in SUBSET Nat  OBVIOUS
<1> HIDE DEF S
<1>4. S = Nat  BY <1>1, <1>2, <1>3, Induction
<1>5. b - a \in S /\ b - (b - a) = a  BY <1>4
<1> QED BY <1>5 DEF S

\* and past the last of them nothing is left
LEMMA PastTheLast ==
  ASSUME NEW l \in 1..15, NEW a, NEW b, a = 1, b = l + 1
  PROVE  /\ a \in 1..16 /\ b \in 1..16 /\ b \in 1..18 /\ a <= b /\ b <= l + 1 /\ b > l
         /\ b - a = l
OBVIOUS

\* A message of numbers only
LEMMA NumbersSize ==
  ASSUME NEW T \in DOMAIN MaxSize, NEW m, IsMessageOf(T, m), NEW s \in Nested(T),
         NEW l \in 1..15, l = Len(Message[s[2]]),
         \A k \in 1..l : TypeAt(s, k) \in Numeric
  PROVE  SizeFrom(T, m, s, 1) <= 11 * l
<1> DEFINE b == l + 1
<1>1. PICK a : a = 1  OBVIOUS
<1>2. /\ a \in 1..16 /\ b \in 1..16 /\ b \in 1..18 /\ a <= b /\ b <= l + 1 /\ b > l
      /\ b - a = l
  <2>1. b = l + 1  OBVIOUS
  <2> HIDE DEF b
  <2> QED BY <1>1, <2>1, PastTheLast, Zenon
<1>3. \A k \in a..(b - 1) : TypeAt(s, k) \in Numeric  BY <1>1
<1> HIDE DEF b
<1>4. b <= Len(Message[s[2]]) + 1 /\ b > Len(Message[s[2]])  BY <1>2
<1>5. SizeFrom(T, m, s, a) <= SizeFrom(T, m, s, b) + 11 * (b - a)
  BY <1>2, <1>3, <1>4, NumbersFrom
<1>6. SizeFrom(T, m, s, b) = 0  BY <1>2, <1>4, SizeEnd
<1>7. SizeFrom(T, m, s, a) <= 0 + 11 * l  BY <1>2, <1>5, <1>6
<1>8. SizeFrom(T, m, s, a) <= 11 * l  BY <1>7
<1> QED BY <1>1, <1>8

\* The messages of numbers that are inside others
LEMMA InnerSize ==
  ASSUME NEW T \in DOMAIN MaxSize, NEW m, IsMessageOf(T, m), NEW s \in Nested(T)
  PROVE  /\ s[2] = "rttof_params_pb_t" => SizeFrom(T, m, s, 1) <= 44
         /\ s[2] = "rac_scheduler_config_pb_t" => SizeFrom(T, m, s, 1) <= 33
         /\ s[2] = "smtc_rac_lbt_context_pb_t" => SizeFrom(T, m, s, 1) <= 66
         /\ s[2] = "smtc_rac_cw_context_pb_t" => SizeFrom(T, m, s, 1) <= 22
         /\ s[2] = "smtc_rac_cad_context_pb_t" => SizeFrom(T, m, s, 1) <= 88
<1>1. CASE s[2] = "rttof_params_pb_t"
  <2>1. PICK l : l = 4  OBVIOUS
  <2>2. l \in 1..15 /\ 11 * l = 44  BY <2>1
  <2>3. Message[s[2]] = rttof_params_pb_t  BY <1>1 DEF Message
  <2>4. l = Len(Message[s[2]]) /\ \A k \in 1..l : TypeAt(s, k) \in Numeric
    BY <2>1, <2>3 DEF rttof_params_pb_t, TypeAt, Numeric
  <2>5. SizeFrom(T, m, s, 1) <= 11 * l  BY <2>2, <2>4, NumbersSize
  <2> QED BY <1>1, <2>2, <2>5
<1>2. CASE s[2] = "rac_scheduler_config_pb_t"
  <2>1. PICK l : l = 3  OBVIOUS
  <2>2. l \in 1..15 /\ 11 * l = 33  BY <2>1
  <2>3. Message[s[2]] = rac_scheduler_config_pb_t  BY <1>2 DEF Message
  <2>4. l = Len(Message[s[2]]) /\ \A k \in 1..l : TypeAt(s, k) \in Numeric
    BY <2>1, <2>3 DEF rac_scheduler_config_pb_t, TypeAt, Numeric
  <2>5. SizeFrom(T, m, s, 1) <= 11 * l  BY <2>2, <2>4, NumbersSize
  <2> QED BY <1>2, <2>2, <2>5
<1>3. CASE s[2] = "smtc_rac_lbt_context_pb_t"
  <2>1. PICK l : l = 6  OBVIOUS
  <2>2. l \in 1..15 /\ 11 * l = 66  BY <2>1
  <2>3. Message[s[2]] = smtc_rac_lbt_context_pb_t  BY <1>3 DEF Message
  <2>4. l = Len(Message[s[2]]) /\ \A k \in 1..l : TypeAt(s, k) \in Numeric
    BY <2>1, <2>3 DEF smtc_rac_lbt_context_pb_t, TypeAt, Numeric
  <2>5. SizeFrom(T, m, s, 1) <= 11 * l  BY <2>2, <2>4, NumbersSize
  <2> QED BY <1>3, <2>2, <2>5
<1>4. CASE s[2] = "smtc_rac_cw_context_pb_t"
  <2>1. PICK l : l = 2  OBVIOUS
  <2>2. l \in 1..15 /\ 11 * l = 22  BY <2>1
  <2>3. Message[s[2]] = smtc_rac_cw_context_pb_t  BY <1>4 DEF Message
  <2>4. l = Len(Message[s[2]]) /\ \A k \in 1..l : TypeAt(s, k) \in Numeric
    BY <2>1, <2>3 DEF smtc_rac_cw_context_pb_t, TypeAt, Numeric
  <2>5. SizeFrom(T, m, s, 1) <= 11 * l  BY <2>2, <2>4, NumbersSize
  <2> QED BY <1>4, <2>2, <2>5
<1>5. CASE s[2] = "smtc_rac_cad_context_pb_t"
  <2>1. PICK l : l = 8  OBVIOUS
  <2>2. l \in 1..15 /\ 11 * l = 88  BY <2>1
  <2>3. Message[s[2]] = smtc_rac_cad_context_pb_t  BY <1>5 DEF Message
  <2>4. l = Len(Message[s[2]]) /\ \A k \in 1..l : TypeAt(s, k) \in Numeric
    BY <2>1, <2>3 DEF smtc_rac_cad_context_pb_t, TypeAt, Numeric
  <2>5. SizeFrom(T, m, s, 1) <= 11 * l  BY <2>2, <2>4, NumbersSize
  <2> QED BY <1>5, <2>2, <2>5
<1> QED BY <1>1, <1>2, <1>3, <1>4, <1>5

\* A message inside adds its bytes, its tag and its size
LEMMA MessageStep ==
  ASSUME NEW T \in DOMAIN MaxSize, NEW m, IsMessageOf(T, m), NEW s \in Nested(T),
         NEW k \in 1..Len(Message[s[2]]), k <= 15, NEW j, j = k + 1,
         IsMessage(TypeAt(s, k)), NEW n \in Nat, n < TwoGroups,
         SizeFrom(T, m, FieldTo(s, k), 1) <= n
  PROVE  SizeFrom(T, m, s, k) <= SizeFrom(T, m, s, j) + (n + 3)
<1>1. TypeAt(s, k) # "BYTES"  BY BasicNotMessage
<1>2. Most(TypeAt(s, k), n) = n + 2  BY BasicNotMessage DEF Most
<1> DEFINE x == SizeFrom(T, m, s, k)
           y == SizeFrom(T, m, s, j)
<1>3. x \in Nat /\ y \in Nat /\ x <= y + 1 + Most(TypeAt(s, k), n)  BY <1>1, SizeStep
<1> HIDE DEF x, y
<1>4. x <= y + (n + 3)  BY <1>2, <1>3
<1> QED BY <1>4 DEF x, y

\* A payload of 256 bytes too
LEMMA PayloadStep ==
  ASSUME NEW T \in DOMAIN MaxSize, NEW m, IsMessageOf(T, m), NEW s \in Nested(T),
         NEW k \in 1..Len(Message[s[2]]), k <= 15, NEW j, j = k + 1,
         TypeAt(s, k) = "BYTES"
  PROVE  SizeFrom(T, m, s, k) <= SizeFrom(T, m, s, j) + 259
<1>1. PICK n \in Nat : n = 256  OBVIOUS
<1>2. n < TwoGroups  BY <1>1, TwoGroupsIs
<1>3. ~IsMessage(TypeAt(s, k)) /\ Most(TypeAt(s, k), n) = n + 2  BY BasicDepth DEF Most, Basic
<1>4. m[PathAt(s, k)] \in FieldValues("BYTES")  BY FieldBytesTyped
<1>5. Len(m[PathAt(s, k)]) <= n  BY <1>1, <1>4, ValuesOfBasic
<1> DEFINE x == SizeFrom(T, m, s, k)
           y == SizeFrom(T, m, s, j)
<1>6. x \in Nat /\ y \in Nat /\ x <= y + 1 + Most(TypeAt(s, k), n)
  BY <1>2, <1>3, <1>5, SizeStep
<1> HIDE DEF x, y
<1>7. x <= y + 259  BY <1>1, <1>3, <1>6
<1> QED BY <1>7 DEF x, y

\* A default value adds nothing
LEMMA UnsetStep ==
  ASSUME NEW T \in DOMAIN MaxSize, NEW m, IsMessageOf(T, m), NEW s \in Nested(T),
         NEW k \in 1..Len(Message[s[2]]), NEW j, j = k + 1, DefaultAt(m, s, k)
  PROVE  SizeFrom(T, m, s, k) = SizeFrom(T, m, s, j)
BY BytesNext DEF SizeFrom

\* The fields of the radio parameters
LEMMA RadioTypes ==
  ASSUME NEW s, s[2] = "rac_radio_lora_params_pb_t"
  PROVE  /\ \A k \in 1..17 : k \in 1..Len(Message[s[2]]) /\ k <= 18
         /\ Len(Message[s[2]]) < 18 /\ 18 \in 1..18
         /\ TypeAt(s, 1) = "BOOL"
         /\ TypeAt(s, 2) = "BOOL"
         /\ TypeAt(s, 3) = "rttof_params_pb_t"
         /\ TypeAt(s, 4) = "UINT32"
         /\ TypeAt(s, 5) = "UINT32"
         /\ TypeAt(s, 6) = "UENUM"
         /\ TypeAt(s, 7) = "UENUM"
         /\ TypeAt(s, 8) = "UENUM"
         /\ TypeAt(s, 9) = "UINT32"
         /\ TypeAt(s, 10) = "UENUM"
         /\ TypeAt(s, 11) = "BOOL"
         /\ TypeAt(s, 12) = "BOOL"
         /\ TypeAt(s, 13) = "UENUM"
         /\ TypeAt(s, 14) = "UINT32"
         /\ TypeAt(s, 15) = "UINT32"
         /\ TypeAt(s, 16) = "UINT32"
         /\ TypeAt(s, 17) = "UINT32"
<1>1. Message[s[2]] = rac_radio_lora_params_pb_t  BY DEF Message
<1>2. Len(rac_radio_lora_params_pb_t) = 17  BY DEF rac_radio_lora_params_pb_t
<1>3. \A k \in 1..17 : TypeAt(s, k) = rac_radio_lora_params_pb_t[k][2]  BY <1>1 DEF TypeAt
<1>4. \A k \in 1..17 : k \in 1..Len(Message[s[2]]) /\ k <= 18  BY <1>1, <1>2
<1>5. Len(Message[s[2]]) < 18 /\ 18 \in 1..18  BY <1>1, <1>2
<1> QED BY <1>3, <1>4, <1>5 DEF rac_radio_lora_params_pb_t

\* Those of the payload to send
LEMMA SetupTypes ==
  ASSUME NEW s, s[2] = "smtc_rac_data_buffer_setup_pb_t"
  PROVE  /\ \A k \in 1..1 : k \in 1..Len(Message[s[2]]) /\ k <= 18
         /\ Len(Message[s[2]]) < 2 /\ 2 \in 1..18
         /\ TypeAt(s, 1) = "BYTES"
<1>1. Message[s[2]] = smtc_rac_data_buffer_setup_pb_t  BY DEF Message
<1>2. Len(smtc_rac_data_buffer_setup_pb_t) = 1  BY DEF smtc_rac_data_buffer_setup_pb_t
<1>3. \A k \in 1..1 : TypeAt(s, k) = smtc_rac_data_buffer_setup_pb_t[k][2]  BY <1>1 DEF TypeAt
<1>4. \A k \in 1..1 : k \in 1..Len(Message[s[2]]) /\ k <= 18  BY <1>1, <1>2
<1>5. Len(Message[s[2]]) < 2 /\ 2 \in 1..18  BY <1>1, <1>2
<1> QED BY <1>3, <1>4, <1>5 DEF smtc_rac_data_buffer_setup_pb_t

\* Those of the results of a transaction
LEMMA ResultTypes ==
  ASSUME NEW s, s[2] = "smtc_rac_data_result_pb_t"
  PROVE  /\ \A k \in 1..7 : k \in 1..Len(Message[s[2]]) /\ k <= 18
         /\ Len(Message[s[2]]) < 8 /\ 8 \in 1..18
         /\ TypeAt(s, 1) = "UINT32"
         /\ TypeAt(s, 2) = "INT32"
         /\ TypeAt(s, 3) = "INT32"
         /\ TypeAt(s, 4) = "UINT32"
         /\ TypeAt(s, 5) = "UINT32"
         /\ TypeAt(s, 6) = "ranging_result_pb_t"
         /\ TypeAt(s, 7) = "BYTES"
<1>1. Message[s[2]] = smtc_rac_data_result_pb_t  BY DEF Message
<1>2. Len(smtc_rac_data_result_pb_t) = 7  BY DEF smtc_rac_data_result_pb_t
<1>3. \A k \in 1..7 : TypeAt(s, k) = smtc_rac_data_result_pb_t[k][2]  BY <1>1 DEF TypeAt
<1>4. \A k \in 1..7 : k \in 1..Len(Message[s[2]]) /\ k <= 18  BY <1>1, <1>2
<1>5. Len(Message[s[2]]) < 8 /\ 8 \in 1..18  BY <1>1, <1>2
<1> QED BY <1>3, <1>4, <1>5 DEF smtc_rac_data_result_pb_t

\* Those of a ranging result
LEMMA RangingTypes ==
  ASSUME NEW s, s[2] = "ranging_result_pb_t"
  PROVE  /\ \A k \in 1..4 : k \in 1..Len(Message[s[2]]) /\ k <= 18
         /\ Len(Message[s[2]]) < 5 /\ 5 \in 1..18
         /\ TypeAt(s, 1) = "BOOL"
         /\ TypeAt(s, 2) = "FLOAT"
         /\ TypeAt(s, 3) = "FLOAT"
         /\ TypeAt(s, 4) = "INT32"
<1>1. Message[s[2]] = ranging_result_pb_t  BY DEF Message
<1>2. Len(ranging_result_pb_t) = 4  BY DEF ranging_result_pb_t
<1>3. \A k \in 1..4 : TypeAt(s, k) = ranging_result_pb_t[k][2]  BY <1>1 DEF TypeAt
<1>4. \A k \in 1..4 : k \in 1..Len(Message[s[2]]) /\ k <= 18  BY <1>1, <1>2
<1>5. Len(Message[s[2]]) < 5 /\ 5 \in 1..18  BY <1>1, <1>2
<1> QED BY <1>3, <1>4, <1>5 DEF ranging_result_pb_t

\* Those of a context
LEMMA ContextTypes ==
  ASSUME NEW s, s[2] = "smtc_rac_context_pb_t"
  PROVE  /\ \A k \in 1..8 : k \in 1..Len(Message[s[2]]) /\ k <= 18
         /\ Len(Message[s[2]]) < 9 /\ 9 \in 1..18
         /\ TypeAt(s, 1) = "UENUM"
         /\ TypeAt(s, 2) = "rac_radio_lora_params_pb_t"
         /\ TypeAt(s, 3) = "smtc_rac_data_buffer_setup_pb_t"
         /\ TypeAt(s, 4) = "rac_scheduler_config_pb_t"
         /\ TypeAt(s, 5) = "smtc_rac_data_result_pb_t"
         /\ TypeAt(s, 6) = "smtc_rac_lbt_context_pb_t"
         /\ TypeAt(s, 7) = "smtc_rac_cad_context_pb_t"
         /\ TypeAt(s, 8) = "smtc_rac_cw_context_pb_t"
<1>1. Message[s[2]] = smtc_rac_context_pb_t  BY DEF Message
<1>2. Len(smtc_rac_context_pb_t) = 8  BY DEF smtc_rac_context_pb_t
<1>3. \A k \in 1..8 : TypeAt(s, k) = smtc_rac_context_pb_t[k][2]  BY <1>1 DEF TypeAt
<1>4. \A k \in 1..8 : k \in 1..Len(Message[s[2]]) /\ k <= 18  BY <1>1, <1>2
<1>5. Len(Message[s[2]]) < 9 /\ 9 \in 1..18  BY <1>1, <1>2
<1> QED BY <1>3, <1>4, <1>5 DEF smtc_rac_context_pb_t

\* Those of a request
LEMMA RequestTypes ==
  ASSUME NEW s, s[2] = "smtc_rac_lora_request_pb_t"
  PROVE  /\ \A k \in 1..2 : k \in 1..Len(Message[s[2]]) /\ k <= 18
         /\ Len(Message[s[2]]) < 3 /\ 3 \in 1..18
         /\ TypeAt(s, 1) = "UINT32"
         /\ TypeAt(s, 2) = "smtc_rac_context_pb_t"
<1>1. Message[s[2]] = smtc_rac_lora_request_pb_t  BY DEF Message
<1>2. Len(smtc_rac_lora_request_pb_t) = 2  BY DEF smtc_rac_lora_request_pb_t
<1>3. \A k \in 1..2 : TypeAt(s, k) = smtc_rac_lora_request_pb_t[k][2]  BY <1>1 DEF TypeAt
<1>4. \A k \in 1..2 : k \in 1..Len(Message[s[2]]) /\ k <= 18  BY <1>1, <1>2
<1>5. Len(Message[s[2]]) < 3 /\ 3 \in 1..18  BY <1>1, <1>2
<1> QED BY <1>3, <1>4, <1>5 DEF smtc_rac_lora_request_pb_t

\* Those of the answer to a request for results
LEMMA ResultsTypes ==
  ASSUME NEW s, s[2] = "rac_results_pb_t"
  PROVE  /\ \A k \in 1..5 : k \in 1..Len(Message[s[2]]) /\ k <= 18
         /\ Len(Message[s[2]]) < 6 /\ 6 \in 1..18
         /\ TypeAt(s, 1) = "UENUM"
         /\ TypeAt(s, 2) = "UENUM"
         /\ TypeAt(s, 3) = "smtc_rac_data_result_pb_t"
         /\ TypeAt(s, 4) = "UENUM"
         /\ TypeAt(s, 5) = "UINT32"
<1>1. Message[s[2]] = rac_results_pb_t  BY DEF Message
<1>2. Len(rac_results_pb_t) = 5  BY DEF rac_results_pb_t
<1>3. \A k \in 1..5 : TypeAt(s, k) = rac_results_pb_t[k][2]  BY <1>1 DEF TypeAt
<1>4. \A k \in 1..5 : k \in 1..Len(Message[s[2]]) /\ k <= 18  BY <1>1, <1>2
<1>5. Len(Message[s[2]]) < 6 /\ 6 \in 1..18  BY <1>1, <1>2
<1> QED BY <1>3, <1>4, <1>5 DEF rac_results_pb_t

\* A number with a tag of two bytes
LEMMA LateStep ==
  ASSUME NEW T \in DOMAIN MaxSize, NEW m, IsMessageOf(T, m), NEW s \in Nested(T),
         NEW k \in 1..Len(Message[s[2]]), NEW j, j = k + 1, TypeAt(s, k) \in Numeric
  PROVE  SizeFrom(T, m, s, k) <= SizeFrom(T, m, s, j) + 12
<1> DEFINE type == TypeAt(s, k)
           x == SizeFrom(T, m, s, k)
           y == SizeFrom(T, m, s, k + 1)
<1>1. \A n : Most(type, n) \in Nat /\ Most(type, n) <= 10 /\ type # "BYTES" /\ ~IsMessage(type)
  BY NumericMost
<1>2. PICK n \in Nat : n = 0  OBVIOUS
<1>3. n < TwoGroups  BY <1>2, TwoGroupsIs
<1>4. x \in Nat /\ y \in Nat /\ x <= y + 2 + Most(type, n)  BY <1>1, <1>3, SizeStep
<1> HIDE DEF x, y, type
<1> DEFINE w == Most(type, n)
<1>5. w \in Nat /\ w <= 10 /\ x <= y + 2 + w  BY <1>1, <1>4
<1> HIDE DEF w
<1>6. x <= y + 12  BY <1>4, <1>5
<1> QED BY <1>6 DEF x, y

\* The radio parameters
LEMMA RadioSize ==
  ASSUME NEW T \in DOMAIN MaxSize, NEW m, IsMessageOf(T, m), NEW s \in Nested(T),
         s[2] = "rac_radio_lora_params_pb_t"
  PROVE  SizeFrom(T, m, s, 1) <= 225
<1> DEFINE z(k) == SizeFrom(T, m, s, k)
<1>1. \A k \in 1..17 : k \in 1..Len(Message[s[2]]) /\ k <= 18  BY RadioTypes
<1>2. Len(Message[s[2]]) < 18 /\ 18 \in 1..18  BY RadioTypes
<1>3. \A k \in 1..18 : z(k) \in Nat  BY SizeType
<1>4. z(18) = 0  BY <1>2, SizeEnd
<1>5. z(17) <= z(18) + 12
  <2>1. PICK k, j : k = 17 /\ j = 18  OBVIOUS
  <2>2. k \in 1..Len(Message[s[2]]) /\ j = k + 1  BY <1>1, <2>1
  <2>3. TypeAt(s, k) \in Numeric  BY <2>1, RadioTypes DEF Numeric
  <2>4. z(k) <= z(j) + 12  BY <2>2, <2>3, LateStep
  <2> QED BY <2>1, <2>4
<1>6. z(16) <= z(17) + 12
  <2>1. PICK k, j : k = 16 /\ j = 17  OBVIOUS
  <2>2. k \in 1..Len(Message[s[2]]) /\ j = k + 1  BY <1>1, <2>1
  <2>3. TypeAt(s, k) \in Numeric  BY <2>1, RadioTypes DEF Numeric
  <2>4. z(k) <= z(j) + 12  BY <2>2, <2>3, LateStep
  <2> QED BY <2>1, <2>4
<1>7. z(4) <= z(16) + 132
  <2>1. PICK a, b : a = 4 /\ b = 16  OBVIOUS
  <2>2. a \in 1..16 /\ b \in 1..16 /\ a <= b /\ 11 * (b - a) = 132  BY <2>1
  <2>3. b <= Len(Message[s[2]]) + 1  BY <1>1, <2>1, NestedLevel, LengthOf
  <2>4. \A k \in a..(b - 1) : TypeAt(s, k) \in Numeric  BY <2>1, RadioTypes DEF Numeric
  <2>5. z(a) <= z(b) + 11 * (b - a)  BY <2>2, <2>3, <2>4, NumbersFrom
  <2> QED BY <2>1, <2>2, <2>5
<1>8. z(3) <= z(4) + 47
  <2>1. PICK k, j : k = 3 /\ j = 4  OBVIOUS
  <2>2. k \in 1..Len(Message[s[2]]) /\ j = k + 1 /\ k <= 15  BY <1>1, <2>1
  <2>3. TypeAt(s, k) = "rttof_params_pb_t"  BY <2>1, RadioTypes
  <2>4. IsMessage(TypeAt(s, k))  BY <2>3, MessageTypes DEF IsMessage
  <2>5. FieldTo(s, k) \in Nested(T) /\ FieldTo(s, k)[2] = "rttof_params_pb_t"
    BY <2>2, <2>3, <2>4, PlaceAt
  <2>6. PICK n \in Nat : n = 44  OBVIOUS
  <2>7. n < TwoGroups /\ n + 3 = 47  BY <2>6, TwoGroupsIs
  <2>8. SizeFrom(T, m, FieldTo(s, k), 1) <= n  BY <2>5, <2>6, InnerSize
  <2>9. z(k) <= z(j) + (n + 3)  BY <2>2, <2>4, <2>7, <2>8, MessageStep
  <2> QED BY <2>1, <2>7, <2>9
<1>9. z(1) <= z(3) + 22
  <2>1. PICK a, b : a = 1 /\ b = 3  OBVIOUS
  <2>2. a \in 1..16 /\ b \in 1..16 /\ a <= b /\ 11 * (b - a) = 22  BY <2>1
  <2>3. b <= Len(Message[s[2]]) + 1  BY <1>1, <2>1, NestedLevel, LengthOf
  <2>4. \A k \in a..(b - 1) : TypeAt(s, k) \in Numeric  BY <2>1, RadioTypes DEF Numeric
  <2>5. z(a) <= z(b) + 11 * (b - a)  BY <2>2, <2>3, <2>4, NumbersFrom
  <2> QED BY <2>1, <2>2, <2>5
<1>10. z(1) \in Nat /\ z(3) \in Nat /\ z(4) \in Nat /\ z(16) \in Nat /\ z(17) \in Nat  BY <1>3
<1> HIDE DEF z
<1>11. z(1) <= 225  BY <1>4, <1>5, <1>6, <1>7, <1>8, <1>9, <1>10
<1> QED BY <1>11 DEF z

\* The payload to send
LEMMA SetupSize ==
  ASSUME NEW T \in DOMAIN MaxSize, NEW m, IsMessageOf(T, m), NEW s \in Nested(T),
         s[2] = "smtc_rac_data_buffer_setup_pb_t"
  PROVE  SizeFrom(T, m, s, 1) <= 259
<1> DEFINE z(k) == SizeFrom(T, m, s, k)
<1>1. \A k \in 1..1 : k \in 1..Len(Message[s[2]]) /\ k <= 18  BY SetupTypes
<1>2. Len(Message[s[2]]) < 2 /\ 2 \in 1..18  BY SetupTypes
<1>3. \A k \in 1..2 : z(k) \in Nat  BY SizeType
<1>4. z(2) = 0  BY <1>2, SizeEnd
<1>5. z(1) <= z(2) + 259
  <2>1. PICK k, j : k = 1 /\ j = 2  OBVIOUS
  <2>2. k \in 1..Len(Message[s[2]]) /\ j = k + 1 /\ k <= 15  BY <1>1, <2>1
  <2>3. TypeAt(s, k) = "BYTES"  BY <2>1, SetupTypes
  <2>4. z(k) <= z(j) + 259  BY <2>2, <2>3, PayloadStep
  <2> QED BY <2>1, <2>4
<1>6. \A k \in 1..2 : z(k) \in Nat  BY <1>3
<1> HIDE DEF z
<1>7. z(1) <= 259  BY <1>4, <1>5, <1>6
<1> QED BY <1>7 DEF z

\* A ranging result that is not set
LEMMA RangingUnset ==
  ASSUME NEW T \in DOMAIN MaxSize, NEW m, IsMessageOf(T, m), NEW s \in Nested(T),
         s[2] = "ranging_result_pb_t", Unset(m, s)
  PROVE  SizeFrom(T, m, s, 1) <= 0
<1> DEFINE z(k) == SizeFrom(T, m, s, k)
<1>1. \A k \in 1..4 : k \in 1..Len(Message[s[2]]) /\ k <= 18  BY RangingTypes
<1>2. Len(Message[s[2]]) < 5 /\ 5 \in 1..18  BY RangingTypes
<1>3. \A k \in 1..5 : z(k) \in Nat  BY SizeType
<1>4. z(5) = 0  BY <1>2, SizeEnd
<1>5. z(4) = z(5)
  <2>1. PICK k, j : k = 4 /\ j = 5  OBVIOUS
  <2>2. k \in 1..Len(Message[s[2]]) /\ j = k + 1  BY <1>1, <2>1
  <2>3. TypeAt(s, k) = "INT32"  BY <2>1, RangingTypes
  <2>4. ~IsMessage(TypeAt(s, k))  BY <2>3, BasicDepth DEF Basic
  <2>5. z(k) = z(j)  BY <2>2, <2>4, UnsetStep DEF Unset
  <2> QED BY <2>1, <2>5
<1>6. z(3) = z(4)
  <2>1. PICK k, j : k = 3 /\ j = 4  OBVIOUS
  <2>2. k \in 1..Len(Message[s[2]]) /\ j = k + 1  BY <1>1, <2>1
  <2>3. TypeAt(s, k) = "FLOAT"  BY <2>1, RangingTypes
  <2>4. ~IsMessage(TypeAt(s, k))  BY <2>3, BasicDepth DEF Basic
  <2>5. z(k) = z(j)  BY <2>2, <2>4, UnsetStep DEF Unset
  <2> QED BY <2>1, <2>5
<1>7. z(2) = z(3)
  <2>1. PICK k, j : k = 2 /\ j = 3  OBVIOUS
  <2>2. k \in 1..Len(Message[s[2]]) /\ j = k + 1  BY <1>1, <2>1
  <2>3. TypeAt(s, k) = "FLOAT"  BY <2>1, RangingTypes
  <2>4. ~IsMessage(TypeAt(s, k))  BY <2>3, BasicDepth DEF Basic
  <2>5. z(k) = z(j)  BY <2>2, <2>4, UnsetStep DEF Unset
  <2> QED BY <2>1, <2>5
<1>8. z(1) = z(2)
  <2>1. PICK k, j : k = 1 /\ j = 2  OBVIOUS
  <2>2. k \in 1..Len(Message[s[2]]) /\ j = k + 1  BY <1>1, <2>1
  <2>3. TypeAt(s, k) = "BOOL"  BY <2>1, RangingTypes
  <2>4. ~IsMessage(TypeAt(s, k))  BY <2>3, BasicDepth DEF Basic
  <2>5. z(k) = z(j)  BY <2>2, <2>4, UnsetStep DEF Unset
  <2> QED BY <2>1, <2>5
<1>9. \A k \in 1..5 : z(k) \in Nat  BY <1>3
<1> HIDE DEF z
<1>10. z(1) <= 0  BY <1>4, <1>5, <1>6, <1>7, <1>8, <1>9
<1> QED BY <1>10 DEF z

\* Results that are not set: a request flags them as present
LEMMA ResultUnset ==
  ASSUME NEW T \in DOMAIN MaxSize, NEW m, IsMessageOf(T, m), NEW s \in Nested(T),
         s[2] = "smtc_rac_data_result_pb_t",
         Unset(m, s), Unset(m, FieldTo(s, 6))
  PROVE  SizeFrom(T, m, s, 1) <= 3
<1> DEFINE z(k) == SizeFrom(T, m, s, k)
<1>1. \A k \in 1..7 : k \in 1..Len(Message[s[2]]) /\ k <= 18  BY ResultTypes
<1>2. Len(Message[s[2]]) < 8 /\ 8 \in 1..18  BY ResultTypes
<1>3. \A k \in 1..8 : z(k) \in Nat  BY SizeType
<1>4. z(8) = 0  BY <1>2, SizeEnd
<1>5. z(7) = z(8)
  <2>1. PICK k, j : k = 7 /\ j = 8  OBVIOUS
  <2>2. k \in 1..Len(Message[s[2]]) /\ j = k + 1  BY <1>1, <2>1
  <2>3. TypeAt(s, k) = "BYTES"  BY <2>1, ResultTypes
  <2>4. ~IsMessage(TypeAt(s, k))  BY <2>3, BasicDepth DEF Basic
  <2>5. z(k) = z(j)  BY <2>2, <2>4, UnsetStep DEF Unset
  <2> QED BY <2>1, <2>5
<1>6. z(6) <= z(7) + 3
  <2>1. PICK k, j : k = 6 /\ j = 7  OBVIOUS
  <2>2. k \in 1..Len(Message[s[2]]) /\ j = k + 1 /\ k <= 15  BY <1>1, <2>1
  <2>3. TypeAt(s, k) = "ranging_result_pb_t"  BY <2>1, ResultTypes
  <2>4. IsMessage(TypeAt(s, k))  BY <2>3, MessageTypes DEF IsMessage
  <2>5. FieldTo(s, k) \in Nested(T) /\ FieldTo(s, k)[2] = "ranging_result_pb_t"
    BY <2>2, <2>3, <2>4, PlaceAt
  <2>6. PICK n \in Nat : n = 0  OBVIOUS
  <2>7. n < TwoGroups /\ n + 3 = 3  BY <2>6, TwoGroupsIs
  <2>8. SizeFrom(T, m, FieldTo(s, k), 1) <= n  BY <2>1, <2>5, <2>6, RangingUnset
  <2>9. z(k) <= z(j) + (n + 3)  BY <2>2, <2>4, <2>7, <2>8, MessageStep
  <2> QED BY <2>1, <2>7, <2>9
<1>7. z(5) = z(6)
  <2>1. PICK k, j : k = 5 /\ j = 6  OBVIOUS
  <2>2. k \in 1..Len(Message[s[2]]) /\ j = k + 1  BY <1>1, <2>1
  <2>3. TypeAt(s, k) = "UINT32"  BY <2>1, ResultTypes
  <2>4. ~IsMessage(TypeAt(s, k))  BY <2>3, BasicDepth DEF Basic
  <2>5. z(k) = z(j)  BY <2>2, <2>4, UnsetStep DEF Unset
  <2> QED BY <2>1, <2>5
<1>8. z(4) = z(5)
  <2>1. PICK k, j : k = 4 /\ j = 5  OBVIOUS
  <2>2. k \in 1..Len(Message[s[2]]) /\ j = k + 1  BY <1>1, <2>1
  <2>3. TypeAt(s, k) = "UINT32"  BY <2>1, ResultTypes
  <2>4. ~IsMessage(TypeAt(s, k))  BY <2>3, BasicDepth DEF Basic
  <2>5. z(k) = z(j)  BY <2>2, <2>4, UnsetStep DEF Unset
  <2> QED BY <2>1, <2>5
<1>9. z(3) = z(4)
  <2>1. PICK k, j : k = 3 /\ j = 4  OBVIOUS
  <2>2. k \in 1..Len(Message[s[2]]) /\ j = k + 1  BY <1>1, <2>1
  <2>3. TypeAt(s, k) = "INT32"  BY <2>1, ResultTypes
  <2>4. ~IsMessage(TypeAt(s, k))  BY <2>3, BasicDepth DEF Basic
  <2>5. z(k) = z(j)  BY <2>2, <2>4, UnsetStep DEF Unset
  <2> QED BY <2>1, <2>5
<1>10. z(2) = z(3)
  <2>1. PICK k, j : k = 2 /\ j = 3  OBVIOUS
  <2>2. k \in 1..Len(Message[s[2]]) /\ j = k + 1  BY <1>1, <2>1
  <2>3. TypeAt(s, k) = "INT32"  BY <2>1, ResultTypes
  <2>4. ~IsMessage(TypeAt(s, k))  BY <2>3, BasicDepth DEF Basic
  <2>5. z(k) = z(j)  BY <2>2, <2>4, UnsetStep DEF Unset
  <2> QED BY <2>1, <2>5
<1>11. z(1) = z(2)
  <2>1. PICK k, j : k = 1 /\ j = 2  OBVIOUS
  <2>2. k \in 1..Len(Message[s[2]]) /\ j = k + 1  BY <1>1, <2>1
  <2>3. TypeAt(s, k) = "UINT32"  BY <2>1, ResultTypes
  <2>4. ~IsMessage(TypeAt(s, k))  BY <2>3, BasicDepth DEF Basic
  <2>5. z(k) = z(j)  BY <2>2, <2>4, UnsetStep DEF Unset
  <2> QED BY <2>1, <2>5
<1>12. \A k \in 1..8 : z(k) \in Nat  BY <1>3
<1> HIDE DEF z
<1>13. z(1) <= 3  BY <1>4, <1>5, <1>6, <1>7, <1>8, <1>9, <1>10, <1>11, <1>12
<1> QED BY <1>13 DEF z

\* A context without results
LEMMA ContextSize ==
  ASSUME NEW T \in DOMAIN MaxSize, NEW m, IsMessageOf(T, m), NEW s \in Nested(T),
         s[2] = "smtc_rac_context_pb_t",
         Unset(m, FieldTo(s, 5)), Unset(m, FieldTo(FieldTo(s, 5), 6))
  PROVE  SizeFrom(T, m, s, 1) <= 723
<1> DEFINE z(k) == SizeFrom(T, m, s, k)
<1>1. \A k \in 1..8 : k \in 1..Len(Message[s[2]]) /\ k <= 18  BY ContextTypes
<1>2. Len(Message[s[2]]) < 9 /\ 9 \in 1..18  BY ContextTypes
<1>3. \A k \in 1..9 : z(k) \in Nat  BY SizeType
<1>4. z(9) = 0  BY <1>2, SizeEnd
<1>5. z(8) <= z(9) + 25
  <2>1. PICK k, j : k = 8 /\ j = 9  OBVIOUS
  <2>2. k \in 1..Len(Message[s[2]]) /\ j = k + 1 /\ k <= 15  BY <1>1, <2>1
  <2>3. TypeAt(s, k) = "smtc_rac_cw_context_pb_t"  BY <2>1, ContextTypes
  <2>4. IsMessage(TypeAt(s, k))  BY <2>3, MessageTypes DEF IsMessage
  <2>5. FieldTo(s, k) \in Nested(T) /\ FieldTo(s, k)[2] = "smtc_rac_cw_context_pb_t"
    BY <2>2, <2>3, <2>4, PlaceAt
  <2>6. PICK n \in Nat : n = 22  OBVIOUS
  <2>7. n < TwoGroups /\ n + 3 = 25  BY <2>6, TwoGroupsIs
  <2>8. SizeFrom(T, m, FieldTo(s, k), 1) <= n  BY <2>1, <2>5, <2>6, InnerSize
  <2>9. z(k) <= z(j) + (n + 3)  BY <2>2, <2>4, <2>7, <2>8, MessageStep
  <2> QED BY <2>1, <2>7, <2>9
<1>6. z(7) <= z(8) + 91
  <2>1. PICK k, j : k = 7 /\ j = 8  OBVIOUS
  <2>2. k \in 1..Len(Message[s[2]]) /\ j = k + 1 /\ k <= 15  BY <1>1, <2>1
  <2>3. TypeAt(s, k) = "smtc_rac_cad_context_pb_t"  BY <2>1, ContextTypes
  <2>4. IsMessage(TypeAt(s, k))  BY <2>3, MessageTypes DEF IsMessage
  <2>5. FieldTo(s, k) \in Nested(T) /\ FieldTo(s, k)[2] = "smtc_rac_cad_context_pb_t"
    BY <2>2, <2>3, <2>4, PlaceAt
  <2>6. PICK n \in Nat : n = 88  OBVIOUS
  <2>7. n < TwoGroups /\ n + 3 = 91  BY <2>6, TwoGroupsIs
  <2>8. SizeFrom(T, m, FieldTo(s, k), 1) <= n  BY <2>1, <2>5, <2>6, InnerSize
  <2>9. z(k) <= z(j) + (n + 3)  BY <2>2, <2>4, <2>7, <2>8, MessageStep
  <2> QED BY <2>1, <2>7, <2>9
<1>7. z(6) <= z(7) + 69
  <2>1. PICK k, j : k = 6 /\ j = 7  OBVIOUS
  <2>2. k \in 1..Len(Message[s[2]]) /\ j = k + 1 /\ k <= 15  BY <1>1, <2>1
  <2>3. TypeAt(s, k) = "smtc_rac_lbt_context_pb_t"  BY <2>1, ContextTypes
  <2>4. IsMessage(TypeAt(s, k))  BY <2>3, MessageTypes DEF IsMessage
  <2>5. FieldTo(s, k) \in Nested(T) /\ FieldTo(s, k)[2] = "smtc_rac_lbt_context_pb_t"
    BY <2>2, <2>3, <2>4, PlaceAt
  <2>6. PICK n \in Nat : n = 66  OBVIOUS
  <2>7. n < TwoGroups /\ n + 3 = 69  BY <2>6, TwoGroupsIs
  <2>8. SizeFrom(T, m, FieldTo(s, k), 1) <= n  BY <2>1, <2>5, <2>6, InnerSize
  <2>9. z(k) <= z(j) + (n + 3)  BY <2>2, <2>4, <2>7, <2>8, MessageStep
  <2> QED BY <2>1, <2>7, <2>9
<1>8. z(5) <= z(6) + 6
  <2>1. PICK k, j : k = 5 /\ j = 6  OBVIOUS
  <2>2. k \in 1..Len(Message[s[2]]) /\ j = k + 1 /\ k <= 15  BY <1>1, <2>1
  <2>3. TypeAt(s, k) = "smtc_rac_data_result_pb_t"  BY <2>1, ContextTypes
  <2>4. IsMessage(TypeAt(s, k))  BY <2>3, MessageTypes DEF IsMessage
  <2>5. FieldTo(s, k) \in Nested(T) /\ FieldTo(s, k)[2] = "smtc_rac_data_result_pb_t"
    BY <2>2, <2>3, <2>4, PlaceAt
  <2>6. PICK n \in Nat : n = 3  OBVIOUS
  <2>7. n < TwoGroups /\ n + 3 = 6  BY <2>6, TwoGroupsIs
  <2>8. SizeFrom(T, m, FieldTo(s, k), 1) <= n  BY <2>1, <2>5, <2>6, ResultUnset
  <2>9. z(k) <= z(j) + (n + 3)  BY <2>2, <2>4, <2>7, <2>8, MessageStep
  <2> QED BY <2>1, <2>7, <2>9
<1>9. z(4) <= z(5) + 36
  <2>1. PICK k, j : k = 4 /\ j = 5  OBVIOUS
  <2>2. k \in 1..Len(Message[s[2]]) /\ j = k + 1 /\ k <= 15  BY <1>1, <2>1
  <2>3. TypeAt(s, k) = "rac_scheduler_config_pb_t"  BY <2>1, ContextTypes
  <2>4. IsMessage(TypeAt(s, k))  BY <2>3, MessageTypes DEF IsMessage
  <2>5. FieldTo(s, k) \in Nested(T) /\ FieldTo(s, k)[2] = "rac_scheduler_config_pb_t"
    BY <2>2, <2>3, <2>4, PlaceAt
  <2>6. PICK n \in Nat : n = 33  OBVIOUS
  <2>7. n < TwoGroups /\ n + 3 = 36  BY <2>6, TwoGroupsIs
  <2>8. SizeFrom(T, m, FieldTo(s, k), 1) <= n  BY <2>1, <2>5, <2>6, InnerSize
  <2>9. z(k) <= z(j) + (n + 3)  BY <2>2, <2>4, <2>7, <2>8, MessageStep
  <2> QED BY <2>1, <2>7, <2>9
<1>10. z(3) <= z(4) + 262
  <2>1. PICK k, j : k = 3 /\ j = 4  OBVIOUS
  <2>2. k \in 1..Len(Message[s[2]]) /\ j = k + 1 /\ k <= 15  BY <1>1, <2>1
  <2>3. TypeAt(s, k) = "smtc_rac_data_buffer_setup_pb_t"  BY <2>1, ContextTypes
  <2>4. IsMessage(TypeAt(s, k))  BY <2>3, MessageTypes DEF IsMessage
  <2>5. FieldTo(s, k) \in Nested(T) /\ FieldTo(s, k)[2] = "smtc_rac_data_buffer_setup_pb_t"
    BY <2>2, <2>3, <2>4, PlaceAt
  <2>6. PICK n \in Nat : n = 259  OBVIOUS
  <2>7. n < TwoGroups /\ n + 3 = 262  BY <2>6, TwoGroupsIs
  <2>8. SizeFrom(T, m, FieldTo(s, k), 1) <= n  BY <2>1, <2>5, <2>6, SetupSize
  <2>9. z(k) <= z(j) + (n + 3)  BY <2>2, <2>4, <2>7, <2>8, MessageStep
  <2> QED BY <2>1, <2>7, <2>9
<1>11. z(2) <= z(3) + 228
  <2>1. PICK k, j : k = 2 /\ j = 3  OBVIOUS
  <2>2. k \in 1..Len(Message[s[2]]) /\ j = k + 1 /\ k <= 15  BY <1>1, <2>1
  <2>3. TypeAt(s, k) = "rac_radio_lora_params_pb_t"  BY <2>1, ContextTypes
  <2>4. IsMessage(TypeAt(s, k))  BY <2>3, MessageTypes DEF IsMessage
  <2>5. FieldTo(s, k) \in Nested(T) /\ FieldTo(s, k)[2] = "rac_radio_lora_params_pb_t"
    BY <2>2, <2>3, <2>4, PlaceAt
  <2>6. PICK n \in Nat : n = 225  OBVIOUS
  <2>7. n < TwoGroups /\ n + 3 = 228  BY <2>6, TwoGroupsIs
  <2>8. SizeFrom(T, m, FieldTo(s, k), 1) <= n  BY <2>1, <2>5, <2>6, RadioSize
  <2>9. z(k) <= z(j) + (n + 3)  BY <2>2, <2>4, <2>7, <2>8, MessageStep
  <2> QED BY <2>1, <2>7, <2>9
<1>12. z(1) <= z(2) + 6
  <2>1. PICK k, j : k = 1 /\ j = 2  OBVIOUS
  <2>2. k \in 1..Len(Message[s[2]]) /\ j = k + 1 /\ k <= 15  BY <1>1, <2>1
  <2>3. TypeAt(s, k) = "UENUM"  BY <2>1, ContextTypes
  <2>4. TypeAt(s, k) \in Numeric  BY <2>3 DEF Numeric
  <2>5. z(k) <= z(j) + 6  BY <2>2, <2>3, <2>4, NumberStep
  <2> QED BY <2>1, <2>5
<1>13. \A k \in 1..9 : z(k) \in Nat  BY <1>3
<1> HIDE DEF z
<1>14. z(1) <= 723  BY <1>4, <1>5, <1>6, <1>7, <1>8, <1>9, <1>10, <1>11, <1>12, <1>13
<1> QED BY <1>14 DEF z

\* A request
LEMMA RequestSize ==
  ASSUME NEW T \in DOMAIN MaxSize, NEW m, IsMessageOf(T, m), NEW s \in Nested(T),
         s[2] = "smtc_rac_lora_request_pb_t",
         Unset(m, FieldTo(FieldTo(s, 2), 5)), Unset(m, FieldTo(FieldTo(FieldTo(s, 2), 5), 6))
  PROVE  SizeFrom(T, m, s, 1) <= 732
<1> DEFINE z(k) == SizeFrom(T, m, s, k)
<1>1. \A k \in 1..2 : k \in 1..Len(Message[s[2]]) /\ k <= 18  BY RequestTypes
<1>2. Len(Message[s[2]]) < 3 /\ 3 \in 1..18  BY RequestTypes
<1>3. \A k \in 1..3 : z(k) \in Nat  BY SizeType
<1>4. z(3) = 0  BY <1>2, SizeEnd
<1>5. z(2) <= z(3) + 726
  <2>1. PICK k, j : k = 2 /\ j = 3  OBVIOUS
  <2>2. k \in 1..Len(Message[s[2]]) /\ j = k + 1 /\ k <= 15  BY <1>1, <2>1
  <2>3. TypeAt(s, k) = "smtc_rac_context_pb_t"  BY <2>1, RequestTypes
  <2>4. IsMessage(TypeAt(s, k))  BY <2>3, MessageTypes DEF IsMessage
  <2>5. FieldTo(s, k) \in Nested(T) /\ FieldTo(s, k)[2] = "smtc_rac_context_pb_t"
    BY <2>2, <2>3, <2>4, PlaceAt
  <2>6. PICK n \in Nat : n = 723  OBVIOUS
  <2>7. n < TwoGroups /\ n + 3 = 726  BY <2>6, TwoGroupsIs
  <2>8. SizeFrom(T, m, FieldTo(s, k), 1) <= n  BY <2>1, <2>5, <2>6, ContextSize
  <2>9. z(k) <= z(j) + (n + 3)  BY <2>2, <2>4, <2>7, <2>8, MessageStep
  <2> QED BY <2>1, <2>7, <2>9
<1>6. z(1) <= z(2) + 6
  <2>1. PICK k, j : k = 1 /\ j = 2  OBVIOUS
  <2>2. k \in 1..Len(Message[s[2]]) /\ j = k + 1 /\ k <= 15  BY <1>1, <2>1
  <2>3. TypeAt(s, k) = "UINT32"  BY <2>1, RequestTypes
  <2>4. TypeAt(s, k) \in Numeric  BY <2>3 DEF Numeric
  <2>5. z(k) <= z(j) + 6  BY <2>2, <2>3, <2>4, NumberStep
  <2> QED BY <2>1, <2>5
<1>7. \A k \in 1..3 : z(k) \in Nat  BY <1>3
<1> HIDE DEF z
<1>8. z(1) <= 732  BY <1>4, <1>5, <1>6, <1>7
<1> QED BY <1>8 DEF z

\* An enumerated value of one group of bits
LEMMA ShortStep ==
  ASSUME NEW T \in DOMAIN MaxSize, NEW m, IsMessageOf(T, m), NEW s \in Nested(T),
         NEW k \in 1..Len(Message[s[2]]), k <= 15, NEW j, j = k + 1, TypeAt(s, k) = "UENUM",
         Len(pb_encode_varint(m[PathAt(s, k)])) <= 1
  PROVE  SizeFrom(T, m, s, k) <= SizeFrom(T, m, s, j) + 2
<1> DEFINE x == SizeFrom(T, m, s, k)
           y == SizeFrom(T, m, s, j)
           e == Len(pb_encode_tag_for_field(TypeAt(s, k), k))
           d == Len(EncodedValue(TypeAt(s, k), m[PathAt(s, k)], Inside(T, m, s, k)))
<1>1. PICK n \in Nat : n = 0  OBVIOUS
<1>2. n < TwoGroups  BY <1>1, TwoGroupsIs
<1>3. ~IsMessage(TypeAt(s, k)) /\ TypeAt(s, k) # "BYTES"  BY BasicDepth DEF Basic
<1>4. /\ x \in Nat /\ y \in Nat /\ d \in Nat
      /\ DefaultAt(m, s, k) => x = y
      /\ ~DefaultAt(m, s, k) => x = e + d + y
  BY <1>2, <1>3, SizeStep
<1>5. d <= 1  BY DEF EncodedValue
<1>6. e \in Nat /\ e <= 1  BY PlaceAt, ShortTag, TagSize, SMTT(30)
<1> HIDE DEF x, y, e, d
<1>7. x <= y + 2  BY <1>4, <1>5, <1>6
<1> QED BY <1>7 DEF x, y

\* A ranging result without its timestamp, which no converter sets
LEMMA RangingSize ==
  ASSUME NEW T \in DOMAIN MaxSize, NEW m, IsMessageOf(T, m), NEW s \in Nested(T),
         s[2] = "ranging_result_pb_t", DefaultAt(m, s, 4)
  PROVE  SizeFrom(T, m, s, 1) <= 12
<1> DEFINE z(k) == SizeFrom(T, m, s, k)
<1>1. \A k \in 1..4 : k \in 1..Len(Message[s[2]]) /\ k <= 18  BY RangingTypes
<1>2. Len(Message[s[2]]) < 5 /\ 5 \in 1..18  BY RangingTypes
<1>3. \A k \in 1..5 : z(k) \in Nat  BY SizeType
<1>4. z(5) = 0  BY <1>2, SizeEnd
<1>5. z(4) = z(5)
  <2>1. PICK k, j : k = 4 /\ j = 5  OBVIOUS
  <2>2. k \in 1..Len(Message[s[2]]) /\ j = k + 1  BY <1>1, <2>1
  <2>3. DefaultAt(m, s, k)  BY <2>1
  <2>4. z(k) = z(j)  BY <2>2, <2>3, UnsetStep
  <2> QED BY <2>1, <2>4
<1>6. z(3) <= z(4) + 5
  <2>1. PICK k, j : k = 3 /\ j = 4  OBVIOUS
  <2>2. k \in 1..Len(Message[s[2]]) /\ j = k + 1 /\ k <= 15  BY <1>1, <2>1
  <2>3. TypeAt(s, k) = "FLOAT"  BY <2>1, RangingTypes
  <2>4. TypeAt(s, k) \in Numeric  BY <2>3 DEF Numeric
  <2>5. z(k) <= z(j) + 5  BY <2>2, <2>3, <2>4, NumberStep
  <2> QED BY <2>1, <2>5
<1>7. z(2) <= z(3) + 5
  <2>1. PICK k, j : k = 2 /\ j = 3  OBVIOUS
  <2>2. k \in 1..Len(Message[s[2]]) /\ j = k + 1 /\ k <= 15  BY <1>1, <2>1
  <2>3. TypeAt(s, k) = "FLOAT"  BY <2>1, RangingTypes
  <2>4. TypeAt(s, k) \in Numeric  BY <2>3 DEF Numeric
  <2>5. z(k) <= z(j) + 5  BY <2>2, <2>3, <2>4, NumberStep
  <2> QED BY <2>1, <2>5
<1>8. z(1) <= z(2) + 2
  <2>1. PICK k, j : k = 1 /\ j = 2  OBVIOUS
  <2>2. k \in 1..Len(Message[s[2]]) /\ j = k + 1 /\ k <= 15  BY <1>1, <2>1
  <2>3. TypeAt(s, k) = "BOOL"  BY <2>1, RangingTypes
  <2>4. TypeAt(s, k) \in Numeric  BY <2>3 DEF Numeric
  <2>5. z(k) <= z(j) + 2  BY <2>2, <2>3, <2>4, NumberStep
  <2> QED BY <2>1, <2>5
<1>9. \A k \in 1..5 : z(k) \in Nat  BY <1>3
<1> HIDE DEF z
<1>10. z(1) <= 12  BY <1>4, <1>5, <1>6, <1>7, <1>8, <1>9
<1> QED BY <1>10 DEF z

\* The results of a transaction
LEMMA ResultSize ==
  ASSUME NEW T \in DOMAIN MaxSize, NEW m, IsMessageOf(T, m), NEW s \in Nested(T),
         s[2] = "smtc_rac_data_result_pb_t",
         DefaultAt(m, FieldTo(s, 6), 4)
  PROVE  SizeFrom(T, m, s, 1) <= 314
<1> DEFINE z(k) == SizeFrom(T, m, s, k)
<1>1. \A k \in 1..7 : k \in 1..Len(Message[s[2]]) /\ k <= 18  BY ResultTypes
<1>2. Len(Message[s[2]]) < 8 /\ 8 \in 1..18  BY ResultTypes
<1>3. \A k \in 1..8 : z(k) \in Nat  BY SizeType
<1>4. z(8) = 0  BY <1>2, SizeEnd
<1>5. z(7) <= z(8) + 259
  <2>1. PICK k, j : k = 7 /\ j = 8  OBVIOUS
  <2>2. k \in 1..Len(Message[s[2]]) /\ j = k + 1 /\ k <= 15  BY <1>1, <2>1
  <2>3. TypeAt(s, k) = "BYTES"  BY <2>1, ResultTypes
  <2>4. z(k) <= z(j) + 259  BY <2>2, <2>3, PayloadStep
  <2> QED BY <2>1, <2>4
<1>6. z(6) <= z(7) + 15
  <2>1. PICK k, j : k = 6 /\ j = 7  OBVIOUS
  <2>2. k \in 1..Len(Message[s[2]]) /\ j = k + 1 /\ k <= 15  BY <1>1, <2>1
  <2>3. TypeAt(s, k) = "ranging_result_pb_t"  BY <2>1, ResultTypes
  <2>4. IsMessage(TypeAt(s, k))  BY <2>3, MessageTypes DEF IsMessage
  <2>5. FieldTo(s, k) \in Nested(T) /\ FieldTo(s, k)[2] = "ranging_result_pb_t"
    BY <2>2, <2>3, <2>4, PlaceAt
  <2>6. PICK n \in Nat : n = 12  OBVIOUS
  <2>7. n < TwoGroups /\ n + 3 = 15  BY <2>6, TwoGroupsIs
  <2>8. SizeFrom(T, m, FieldTo(s, k), 1) <= n  BY <2>1, <2>5, <2>6, RangingSize
  <2>9. z(k) <= z(j) + (n + 3)  BY <2>2, <2>4, <2>7, <2>8, MessageStep
  <2> QED BY <2>1, <2>7, <2>9
<1>7. z(5) <= z(6) + 6
  <2>1. PICK k, j : k = 5 /\ j = 6  OBVIOUS
  <2>2. k \in 1..Len(Message[s[2]]) /\ j = k + 1 /\ k <= 15  BY <1>1, <2>1
  <2>3. TypeAt(s, k) = "UINT32"  BY <2>1, ResultTypes
  <2>4. TypeAt(s, k) \in Numeric  BY <2>3 DEF Numeric
  <2>5. z(k) <= z(j) + 6  BY <2>2, <2>3, <2>4, NumberStep
  <2> QED BY <2>1, <2>5
<1>8. z(4) <= z(5) + 6
  <2>1. PICK k, j : k = 4 /\ j = 5  OBVIOUS
  <2>2. k \in 1..Len(Message[s[2]]) /\ j = k + 1 /\ k <= 15  BY <1>1, <2>1
  <2>3. TypeAt(s, k) = "UINT32"  BY <2>1, ResultTypes
  <2>4. TypeAt(s, k) \in Numeric  BY <2>3 DEF Numeric
  <2>5. z(k) <= z(j) + 6  BY <2>2, <2>3, <2>4, NumberStep
  <2> QED BY <2>1, <2>5
<1>9. z(3) <= z(4) + 11
  <2>1. PICK k, j : k = 3 /\ j = 4  OBVIOUS
  <2>2. k \in 1..Len(Message[s[2]]) /\ j = k + 1 /\ k <= 15  BY <1>1, <2>1
  <2>3. TypeAt(s, k) = "INT32"  BY <2>1, ResultTypes
  <2>4. TypeAt(s, k) \in Numeric  BY <2>3 DEF Numeric
  <2>5. z(k) <= z(j) + 11  BY <2>2, <2>3, <2>4, NumberStep
  <2> QED BY <2>1, <2>5
<1>10. z(2) <= z(3) + 11
  <2>1. PICK k, j : k = 2 /\ j = 3  OBVIOUS
  <2>2. k \in 1..Len(Message[s[2]]) /\ j = k + 1 /\ k <= 15  BY <1>1, <2>1
  <2>3. TypeAt(s, k) = "INT32"  BY <2>1, ResultTypes
  <2>4. TypeAt(s, k) \in Numeric  BY <2>3 DEF Numeric
  <2>5. z(k) <= z(j) + 11  BY <2>2, <2>3, <2>4, NumberStep
  <2> QED BY <2>1, <2>5
<1>11. z(1) <= z(2) + 6
  <2>1. PICK k, j : k = 1 /\ j = 2  OBVIOUS
  <2>2. k \in 1..Len(Message[s[2]]) /\ j = k + 1 /\ k <= 15  BY <1>1, <2>1
  <2>3. TypeAt(s, k) = "UINT32"  BY <2>1, ResultTypes
  <2>4. TypeAt(s, k) \in Numeric  BY <2>3 DEF Numeric
  <2>5. z(k) <= z(j) + 6  BY <2>2, <2>3, <2>4, NumberStep
  <2> QED BY <2>1, <2>5
<1>12. \A k \in 1..8 : z(k) \in Nat  BY <1>3
<1> HIDE DEF z
<1>13. z(1) <= 314  BY <1>4, <1>5, <1>6, <1>7, <1>8, <1>9, <1>10, <1>11, <1>12
<1> QED BY <1>13 DEF z

\* The answer to a request for results
LEMMA ResultsSize ==
  ASSUME NEW T \in DOMAIN MaxSize, NEW m, IsMessageOf(T, m), NEW s \in Nested(T),
         s[2] = "rac_results_pb_t",
         Len(pb_encode_varint(m[PathAt(s, 4)])) <= 1,
         DefaultAt(m, FieldTo(FieldTo(s, 3), 6), 4)
  PROVE  SizeFrom(T, m, s, 1) <= 337
<1> DEFINE z(k) == SizeFrom(T, m, s, k)
<1>1. \A k \in 1..5 : k \in 1..Len(Message[s[2]]) /\ k <= 18  BY ResultsTypes
<1>2. Len(Message[s[2]]) < 6 /\ 6 \in 1..18  BY ResultsTypes
<1>3. ASSUME NEW k \in 1..6 PROVE z(k) \in Nat
  <2>1. k \in 1..18  OBVIOUS
  <2> QED BY <2>1, SizeType, Zenon
<1>4. z(6) = 0  BY <1>2, SizeEnd
<1>5. z(5) <= z(6) + 6
  <2>1. PICK k, j : k = 5 /\ j = 6  OBVIOUS
  <2>2. k \in 1..Len(Message[s[2]]) /\ j = k + 1 /\ k <= 15  BY <1>1, <2>1
  <2>3. TypeAt(s, k) = "UINT32"  BY <2>1, ResultsTypes
  <2>4. TypeAt(s, k) \in Numeric  BY <2>3 DEF Numeric
  <2>5. z(k) <= z(j) + 6  BY <2>2, <2>3, <2>4, NumberStep
  <2> QED BY <2>1, <2>5
<1>6. z(4) <= z(5) + 2
  <2>1. PICK k, j : k = 4 /\ j = 5  OBVIOUS
  <2>2. k \in 1..Len(Message[s[2]]) /\ j = k + 1 /\ k <= 15  BY <1>1, <2>1
  <2>3. TypeAt(s, k) = "UENUM"  BY <2>1, ResultsTypes
  <2>4. Len(pb_encode_varint(m[PathAt(s, k)])) <= 1  BY <2>1
  <2>5. z(k) <= z(j) + 2  BY <2>2, <2>3, <2>4, ShortStep
  <2> QED BY <2>1, <2>5
<1>7. z(3) <= z(4) + 317
  <2>1. PICK k, j : k = 3 /\ j = 4  OBVIOUS
  <2>2. k \in 1..Len(Message[s[2]]) /\ j = k + 1 /\ k <= 15  BY <1>1, <2>1
  <2>3. TypeAt(s, k) = "smtc_rac_data_result_pb_t"  BY <2>1, ResultsTypes
  <2>4. IsMessage(TypeAt(s, k))  BY <2>3, MessageTypes DEF IsMessage
  <2>5. FieldTo(s, k) \in Nested(T) /\ FieldTo(s, k)[2] = "smtc_rac_data_result_pb_t"
    BY <2>2, <2>3, <2>4, PlaceAt
  <2>6. PICK n \in Nat : n = 314  OBVIOUS
  <2>7. n < TwoGroups /\ n + 3 = 317  BY <2>6, TwoGroupsIs
  <2>8. SizeFrom(T, m, FieldTo(s, k), 1) <= n  BY <2>1, <2>5, <2>6, ResultSize
  <2>9. z(k) <= z(j) + (n + 3)  BY <2>2, <2>4, <2>7, <2>8, MessageStep
  <2> QED BY <2>1, <2>7, <2>9
<1>8. z(2) <= z(3) + 6
  <2>1. PICK k, j : k = 2 /\ j = 3  OBVIOUS
  <2>2. k \in 1..Len(Message[s[2]]) /\ j = k + 1 /\ k <= 15  BY <1>1, <2>1
  <2>3. TypeAt(s, k) = "UENUM"  BY <2>1, ResultsTypes
  <2>4. TypeAt(s, k) \in Numeric  BY <2>3 DEF Numeric
  <2>5. z(k) <= z(j) + 6  BY <2>2, <2>3, <2>4, NumberStep
  <2> QED BY <2>1, <2>5
<1>9. z(1) <= z(2) + 6
  <2>1. PICK k, j : k = 1 /\ j = 2  OBVIOUS
  <2>2. k \in 1..Len(Message[s[2]]) /\ j = k + 1 /\ k <= 15  BY <1>1, <2>1
  <2>3. TypeAt(s, k) = "UENUM"  BY <2>1, ResultsTypes
  <2>4. TypeAt(s, k) \in Numeric  BY <2>3 DEF Numeric
  <2>5. z(k) <= z(j) + 6  BY <2>2, <2>3, <2>4, NumberStep
  <2> QED BY <2>1, <2>5
<1>10. \A k \in 1..6 : z(k) \in Nat  BY <1>3
<1> HIDE DEF z
<1>11. z(1) <= 337  BY <1>4, <1>5, <1>6, <1>7, <1>8, <1>9, <1>10, SMTT(30)
<1> QED BY <1>11 DEF z

\* and the other paths keep what they hold
LEMMA PlaceLeaves ==
  ASSUME NEW m, NEW prefix, NEW struct, NEW g, IsPlaced(g, m, prefix, struct),
         NEW p \in DOMAIN m, Front(p) # prefix
  PROVE  p \in DOMAIN g /\ g[p] = m[p]
BY DEF IsPlaced, Place

\* Of a request, what is in none of these structures is as in an empty one
LEMMA RequestLeaves ==
  ASSUME NEW c, NEW p \in DOMAIN Defaults[Request], Front(p) \notin Placed
  PROVE  RequestOf(c)[p] = Present(Defaults[Request])[p]
<1> DEFINE params == <<"rac_config", "radio_params">>
           rttof == Append(params, "rttof")
           lbt == Append(Config, "lbt_context")
           cw == Append(Config, "cw_context")
           cad == Append(Config, "cad_context")
           setup == Append(Config, "smtc_rac_data_buffer_setup")
           scheduler == Append(Config, "scheduler_config")
           d == Present(Defaults[Request])
           x0 == [modulation_type |-> rac_convert_modulation_type_to_pb(c.modulation_type)]
           m0 == Place(d, Config, x0)
           x1 == rac_convert_radio_params_to_pb(c.radio_params)
           m1 == Place(m0, params, x1)
           x2 == rac_convert_rttof_to_pb(c.radio_params["rttof"])
           m2 == Place(m1, rttof, x2)
           x3 == rac_convert_lbt_context_to_pb(c.lbt_context)
           m3 == Place(m2, lbt, x3)
           x4 == rac_convert_cw_context_to_pb(c.cw_context)
           m4 == Place(m3, cw, x4)
           x5 == rac_convert_cad_context_to_pb(c.cad_context, At(m4, cad))
           m5 == Place(m4, cad, x5)
           x6 == [tx_payload_buffer |-> c.tx_payload_buffer]
           m6 == Place(m5, setup, x6)
           x7 == rac_convert_scheduler_config_to_pb(c.scheduler_config)
           m7 == Place(m6, scheduler, x7)
<1>1. RequestOf(c) = m7  BY Zenon DEF RequestOf
<1>2. p \in DOMAIN d  BY DEF Present
<1>3. /\ Front(p) # Config /\ Front(p) # params /\ Front(p) # rttof /\ Front(p) # lbt
      /\ Front(p) # cw /\ Front(p) # cad /\ Front(p) # setup /\ Front(p) # scheduler
  BY Zenon DEF Placed, PartsOf
<1> HIDE DEF x0, x1, x2, x3, x4, x5, x6, x7, d, params, rttof, lbt, cw, cad, setup, scheduler
<1>4. /\ IsPlaced(m0, d, Config, x0) /\ IsPlaced(m1, m0, params, x1)
      /\ IsPlaced(m2, m1, rttof, x2) /\ IsPlaced(m3, m2, lbt, x3)
      /\ IsPlaced(m4, m3, cw, x4) /\ IsPlaced(m5, m4, cad, x5)
      /\ IsPlaced(m6, m5, setup, x6) /\ IsPlaced(m7, m6, scheduler, x7)
  BY Zenon DEF IsPlaced
<1> HIDE DEF m0, m1, m2, m3, m4, m5, m6, m7
<1>5. p \in DOMAIN m0 /\ m0[p] = d[p]  BY <1>2, <1>3, <1>4, PlaceLeaves
<1>6. p \in DOMAIN m1 /\ m1[p] = d[p]  BY <1>5, <1>3, <1>4, PlaceLeaves
<1>7. p \in DOMAIN m2 /\ m2[p] = d[p]  BY <1>6, <1>3, <1>4, PlaceLeaves
<1>8. p \in DOMAIN m3 /\ m3[p] = d[p]  BY <1>7, <1>3, <1>4, PlaceLeaves
<1>9. p \in DOMAIN m4 /\ m4[p] = d[p]  BY <1>8, <1>3, <1>4, PlaceLeaves
<1>10. p \in DOMAIN m5 /\ m5[p] = d[p]  BY <1>9, <1>3, <1>4, PlaceLeaves
<1>11. p \in DOMAIN m6 /\ m6[p] = d[p]  BY <1>10, <1>3, <1>4, PlaceLeaves
<1>12. p \in DOMAIN m7 /\ m7[p] = d[p]  BY <1>11, <1>3, <1>4, PlaceLeaves
<1> QED BY <1>1, <1>12 DEF d

\* The path of a field is one name longer
LEMMA PathOfField ==
  ASSUME NEW T \in DOMAIN MaxSize, NEW s \in Nested(T), NEW k \in 1..Len(Message[s[2]])
  PROVE  Front(PathAt(s, k)) = s[1]
<1> DEFINE p == s[1]
           x == Message[s[2]][k][1]
<1>1. s[2] \in DOMAIN Message /\ p \in Seq(Names)  BY NestedLevel DEF Paths
<1>2. x \in Names  BY <1>1, FieldOf
<1>3. PathAt(s, k) = Append(p, x)  BY DEF PathAt, FieldTo
<1> HIDE DEF p, x
<1>4. Front(PathAt(s, k)) = p  BY <1>1, <1>2, <1>3, FrontOfAppend
<1> QED BY <1>4 DEF p

\* A part that no converter sets
LEMMA UnsetPart ==
  ASSUME NEW c, NEW s \in Nested(Request), s[1] \notin Placed
  PROVE  Unset(RequestOf(c), s)
<1>0. Request \in DOMAIN MaxSize  BY DEF Request, MaxSize
<1> DEFINE T == Request
<1> HIDE DEF T
<1>1. T \in DOMAIN MaxSize /\ s \in Nested(T)  BY <1>0 DEF T
<1>2. ASSUME NEW k \in 1..Len(Message[s[2]]), ~IsMessage(TypeAt(s, k))
      PROVE  DefaultAt(RequestOf(c), s, k)
  <2> DEFINE p == PathAt(s, k)
             f == FieldTo(s, k)
             d == Defaults[T]
  <2>1. f \in Fields[T] /\ f[1] = p /\ f[2] = TypeAt(s, k) /\ TypeAt(s, k) \in Types
    BY <1>1, PlaceAt DEF PathAt
  <2>2. Front(p) = s[1]  BY <1>1, PathOfField
  <2> HIDE DEF f, p
  <2>3. p \in DOMAIN d /\ d[p] = Default(TypeAt(s, k))  BY <1>1, <2>1, DefaultsOf DEF PathsOf
  <2>4. ~ \E g \in Fields[T] : g[1] = p /\ IsMessage(g[2])  BY <1>1, <1>2, <2>1, PathUnique
  <2>5. Present(d)[p] = d[p]  BY <2>3, <2>4 DEF Present, T
  <2>6. RequestOf(c)[p] = Present(d)[p]  BY <2>2, <2>3, RequestLeaves DEF T
  <2>7. RequestOf(c)[p] = Default(TypeAt(s, k))  BY <2>3, <2>5, <2>6
  <2> QED BY <2>1, <2>7, DefaultTyped DEF DefaultAt, p
<1> QED BY <1>2 DEF Unset

\* The results inside a request, and the ranging result inside them
LEMMA ResultsPart ==
  /\ Request \in DOMAIN MaxSize
  /\ \E s, t \in Nested(Request) :
       /\ s = FieldTo(FieldTo(Top(Request), 2), 5) /\ t = FieldTo(s, 6)
       /\ s[1] \notin Placed /\ t[1] \notin Placed
<1> DEFINE s0 == <<<<>>, "smtc_rac_lora_request_pb_t">>
           s1 == <<<<"rac_config">>, "smtc_rac_context_pb_t">>
           s == <<<<"rac_config", "smtc_rac_data_result">>, "smtc_rac_data_result_pb_t">>
           t == <<<<"rac_config", "smtc_rac_data_result", "ranging_result">>,
                  "ranging_result_pb_t">>
<1>1. Request \in DOMAIN MaxSize  BY DEF Request, MaxSize
<1>2. s0 \in Nested(Request) /\ s0 = Top(Request)  BY <1>1, TopIn DEF Top, Request
<1>3. s1 \in Nested(Request) /\ s1 = FieldTo(s0, 2)
  <2>1. Message[s0[2]] = smtc_rac_lora_request_pb_t  BY DEF Message
  <2>2. /\ 2 \in 1..Len(smtc_rac_lora_request_pb_t)
        /\ smtc_rac_lora_request_pb_t[2] = <<"rac_config", "smtc_rac_context_pb_t">>
    BY DEF smtc_rac_lora_request_pb_t
  <2>3. FieldTo(s0, 2) = s1  BY <2>1, <2>2 DEF FieldTo
  <2>4. IsMessage("smtc_rac_context_pb_t")  BY DEF IsMessage, Message
  <2> HIDE DEF s0, s1
  <2> QED BY <1>1, <1>2, <2>1, <2>2, <2>3, <2>4, FieldIn
<1>4. s \in Nested(Request) /\ s = FieldTo(s1, 5)
  <2>1. Message[s1[2]] = smtc_rac_context_pb_t  BY DEF Message
  <2>2. /\ 5 \in 1..Len(smtc_rac_context_pb_t)
        /\ smtc_rac_context_pb_t[5] = <<"smtc_rac_data_result", "smtc_rac_data_result_pb_t">>
    BY DEF smtc_rac_context_pb_t
  <2>3. FieldTo(s1, 5) = s  BY <2>1, <2>2, AppendTwo DEF FieldTo
  <2>4. IsMessage("smtc_rac_data_result_pb_t")  BY DEF IsMessage, Message
  <2> HIDE DEF s1, s
  <2> QED BY <1>1, <1>3, <2>1, <2>2, <2>3, <2>4, FieldIn
<1>5. t \in Nested(Request) /\ t = FieldTo(s, 6)
  <2>1. Message[s[2]] = smtc_rac_data_result_pb_t  BY DEF Message
  <2>2. /\ 6 \in 1..Len(smtc_rac_data_result_pb_t)
        /\ smtc_rac_data_result_pb_t[6] = <<"ranging_result", "ranging_result_pb_t">>
    BY DEF smtc_rac_data_result_pb_t
  <2>3. FieldTo(s, 6) = t  BY <2>1, <2>2, AppendThree DEF FieldTo
  <2>4. IsMessage("ranging_result_pb_t")  BY DEF IsMessage, Message
  <2> HIDE DEF s, t
  <2> QED BY <1>1, <1>4, <2>1, <2>2, <2>3, <2>4, FieldIn
<1>6. /\ \A name : Append(Config, name) = <<"rac_config", name>>
      /\ Append(<<"rac_config", "radio_params">>, "rttof")
           = <<"rac_config", "radio_params", "rttof">>
  BY AppendTwo, AppendThree DEF Config
<1>7. s[1] \notin Placed
  <2> DEFINE p == <<"rac_config", "smtc_rac_data_result">>
  <2>1. /\ p # <<"rac_config">> /\ p # <<"rac_config", "radio_params">>
        /\ p # <<"rac_config", "radio_params", "rttof">>
    OBVIOUS
  <2>2. \A name \in {"lbt_context", "cw_context", "cad_context",
                     "smtc_rac_data_buffer_setup", "scheduler_config"} :
          p # <<"rac_config", name>>
    OBVIOUS
  <2>3. p \notin PartsOf  BY <1>6, <2>2 DEF PartsOf
  <2>4. s[1] = p  OBVIOUS
  <2> HIDE DEF p
  <2> QED BY <1>6, <2>1, <2>3, <2>4 DEF Placed, Config
<1>8. t[1] \notin Placed
  <2> DEFINE p == <<"rac_config", "smtc_rac_data_result", "ranging_result">>
  <2>1. /\ p # <<"rac_config">> /\ p # <<"rac_config", "radio_params">>
        /\ p # <<"rac_config", "radio_params", "rttof">>
    OBVIOUS
  <2>2. \A name \in {"lbt_context", "cw_context", "cad_context",
                     "smtc_rac_data_buffer_setup", "scheduler_config"} :
          p # <<"rac_config", name>>
    OBVIOUS
  <2>3. p \notin PartsOf  BY <1>6, <2>2 DEF PartsOf
  <2>4. t[1] = p  OBVIOUS
  <2> HIDE DEF p
  <2> QED BY <1>6, <2>1, <2>3, <2>4 DEF Placed, Config
<1>9. s = FieldTo(FieldTo(Top(Request), 2), 5)  BY <1>2, <1>3, <1>4, Zenon
<1> HIDE DEF s, t
<1> QED BY <1>1, <1>4, <1>5, <1>7, <1>8, <1>9

\* A request takes 732 bytes at most
LEMMA RequestFits ==
  ASSUME NEW c, IsMessageOf(Request, RequestOf(c))
  PROVE  SizeFrom(Request, RequestOf(c), Top(Request), 1) <= 732
<1>1. Request \in DOMAIN MaxSize  BY ResultsPart
<1>2. PICK s \in Nested(Request), t \in Nested(Request) :
        /\ s = FieldTo(FieldTo(Top(Request), 2), 5) /\ t = FieldTo(s, 6)
        /\ s[1] \notin Placed /\ t[1] \notin Placed
  BY ResultsPart
<1>3. Unset(RequestOf(c), s) /\ Unset(RequestOf(c), t)  BY <1>2, UnsetPart
<1>4. Top(Request) \in Nested(Request) /\ Top(Request)[2] = "smtc_rac_lora_request_pb_t"
  BY <1>1, TopIn DEF Request
<1> DEFINE m == RequestOf(c)
           T == Request
           s0 == Top(Request)
<1> HIDE DEF m, T, s0
<1>5. /\ T \in DOMAIN MaxSize /\ IsMessageOf(T, m) /\ s0 \in Nested(T)
      /\ s0[2] = "smtc_rac_lora_request_pb_t"
      /\ Unset(m, FieldTo(FieldTo(s0, 2), 5))
      /\ Unset(m, FieldTo(FieldTo(FieldTo(s0, 2), 5), 6))
  BY <1>1, <1>2, <1>3, <1>4 DEF m, T, s0
<1>6. SizeFrom(T, m, s0, 1) <= 732  BY <1>5, RequestSize
<1> QED BY <1>6 DEF m, T, s0

\* The value of an enumerator is its place in its enumeration
LEMMA ToPbValue ==
  ASSUME NEW names, NEW n \in Nat, DOMAIN names = 1..n, NEW default, default \in ToSet(names),
         NEW name
  PROVE  \E i \in 1..n : ToPb(names, default, name) = BitsOf(i - 1)
<1> DEFINE x == IF name \in ToSet(names) THEN name ELSE default
           i1 == CHOOSE i \in DOMAIN names : names[i] = x
<1>1. ToPb(names, default, name) = BitsOf(i1 - 1)  BY Zenon DEF ToPb
<1>2. x \in ToSet(names)  OBVIOUS
<1> HIDE DEF x
<1>3. \E i \in DOMAIN names : names[i] = x  BY <1>2 DEF ToSet
<1>4. i1 \in 1..n  BY <1>3
<1> QED BY <1>1, <1>4

\* The status of a transaction takes one byte
LEMMA StatusShort ==
  ASSUME NEW name
  PROVE  Len(pb_encode_varint(convert_native_rp_status_to_pb(name))) <= 1
<1>1. "TASK_INIT" \in ToSet(RpStatus)  BY DEF ToSet, RpStatus
<1>2. PICK n \in Nat : n = 17  OBVIOUS
<1>3. DOMAIN RpStatus = 1..n  BY <1>2 DEF RpStatus
<1>4. PICK i \in 1..n : ToPb(RpStatus, "TASK_INIT", name) = BitsOf(i - 1)
  BY <1>1, <1>3, ToPbValue
<1>5. PICK j : j = i - 1  OBVIOUS
<1>6. j \in Nat /\ j < 128  BY <1>2, <1>5
<1>7. Len(pb_encode_varint(BitsOf(j))) <= 1  BY <1>6, SmallSize
<1> QED BY <1>4, <1>5, <1>7 DEF convert_native_rp_status_to_pb

\* Two places in the answer, with their paths
LEMMA AnswerPlaces ==
  /\ ResultsType \in DOMAIN MaxSize /\ Top(ResultsType) \in Nested(ResultsType)
  /\ 4 \in 1..Len(Message[Top(ResultsType)[2]])
  /\ PathAt(Top(ResultsType), 4) = <<"rp_status">>
  /\ \E t \in Nested(ResultsType) :
       /\ t = FieldTo(FieldTo(Top(ResultsType), 3), 6)
       /\ 4 \in 1..Len(Message[t[2]]) /\ TypeAt(t, 4) = "INT32"
       /\ PathAt(t, 4) = <<"results", "ranging_result", "timestamp">>
<1> DEFINE s0 == <<<<>>, "rac_results_pb_t">>
           s == <<<<"results">>, "smtc_rac_data_result_pb_t">>
           t == <<<<"results", "ranging_result">>, "ranging_result_pb_t">>
           T == ResultsType
<1>1. T \in DOMAIN MaxSize  BY DEF ResultsType, MaxSize
<1>2. s0 \in Nested(T) /\ s0 = Top(T)  BY <1>1, TopIn DEF Top, ResultsType
<1>3. /\ 4 \in 1..Len(Message[s0[2]]) /\ PathAt(s0, 4) = <<"rp_status">>
  BY DEF Message, rac_results_pb_t, PathAt, FieldTo
<1>4. s \in Nested(T) /\ s = FieldTo(s0, 3)
  <2>1. Message[s0[2]] = rac_results_pb_t  BY DEF Message
  <2>2. /\ 3 \in 1..Len(rac_results_pb_t)
        /\ rac_results_pb_t[3] = <<"results", "smtc_rac_data_result_pb_t">>
    BY DEF rac_results_pb_t
  <2>3. FieldTo(s0, 3) = s  BY <2>1, <2>2 DEF FieldTo
  <2>4. IsMessage("smtc_rac_data_result_pb_t")  BY DEF IsMessage, Message
  <2> HIDE DEF s0, s, T
  <2> QED BY <1>1, <1>2, <2>1, <2>2, <2>3, <2>4, FieldIn
<1>5. t \in Nested(T) /\ t = FieldTo(s, 6)
  <2>1. Message[s[2]] = smtc_rac_data_result_pb_t  BY DEF Message
  <2>2. /\ 6 \in 1..Len(smtc_rac_data_result_pb_t)
        /\ smtc_rac_data_result_pb_t[6] = <<"ranging_result", "ranging_result_pb_t">>
    BY DEF smtc_rac_data_result_pb_t
  <2>3. FieldTo(s, 6) = t  BY <2>1, <2>2, AppendTwo DEF FieldTo
  <2>4. IsMessage("ranging_result_pb_t")  BY DEF IsMessage, Message
  <2> HIDE DEF s, t, T
  <2> QED BY <1>1, <1>4, <2>1, <2>2, <2>3, <2>4, FieldIn
<1>6. /\ 4 \in 1..Len(Message[t[2]]) /\ TypeAt(t, 4) = "INT32"
      /\ PathAt(t, 4) = <<"results", "ranging_result", "timestamp">>
  BY AppendThree DEF Message, ranging_result_pb_t, PathAt, TypeAt, FieldTo
<1>7. t = FieldTo(FieldTo(Top(T), 3), 6)  BY <1>2, <1>4, <1>5, Zenon
<1> HIDE DEF s0, s, t, T
<1> QED BY <1>1, <1>2, <1>3, <1>5, <1>6, <1>7 DEF T

\* What is placed at a path is held there
LEMMA PlaceSets ==
  ASSUME NEW m, NEW prefix, NEW struct, NEW g, IsPlaced(g, m, prefix, struct),
         NEW p \in DOMAIN m, p # <<>>, Front(p) = prefix, Last(p) \in DOMAIN struct
  PROVE  p \in DOMAIN g /\ g[p] = struct[Last(p)]
BY DEF IsPlaced, Place

\* The fronts of the two paths
LEMMA AnswerFronts ==
  /\ Front(<<"rp_status">>) = <<>> /\ Last(<<"rp_status">>) = "rp_status"
  /\ <<"rp_status">> # <<>>
  /\ Front(<<"results", "ranging_result", "timestamp">>) = <<"results", "ranging_result">>
  /\ Last(<<"results", "ranging_result", "timestamp">>) = "timestamp"
  /\ <<"results", "ranging_result", "timestamp">> # <<>>
  /\ <<"results", "ranging_result">> # <<>> /\ <<"results", "ranging_result">> # <<"results">>
  /\ <<"results">> # <<>>
<1> DEFINE S == {"results", "ranging_result", "timestamp", "rp_status"}
           p == <<"results", "ranging_result">>
           x == "timestamp"
           y == "rp_status"
           e == <<>>
<1>1. p \in Seq(S) /\ x \in S /\ e \in Seq(S) /\ y \in S  OBVIOUS
<1>2. /\ Append(p, x) = <<"results", "ranging_result", "timestamp">>
      /\ Append(e, y) = <<"rp_status">>
  BY AppendThree
<1> HIDE DEF S, p, x, y, e
<1>3. Front(Append(p, x)) = p /\ Last(Append(p, x)) = x  BY <1>1, FrontOfAppend
<1>4. Front(Append(e, y)) = e /\ Last(Append(e, y)) = y  BY <1>1, FrontOfAppend
<1>5. /\ <<"rp_status">> # <<>> /\ <<"results", "ranging_result", "timestamp">> # <<>>
      /\ <<"results", "ranging_result">> # <<>> /\ <<"results", "ranging_result">> # <<"results">>
      /\ <<"results">> # <<>>
  OBVIOUS
<1> QED BY <1>2, <1>3, <1>4, <1>5 DEF p, x, y, e

\* What the answer holds at the two places
LEMMA AnswerValues ==
  ASSUME NEW r, NEW m, m = ResultsMessageOf(r)
  PROVE  /\ m[<<"rp_status">>] = convert_native_rp_status_to_pb(r.rp_status)
         /\ m[<<"results", "ranging_result", "timestamp">>] = {}
<1> DEFINE m0 == Defaults["rac_results_pb_t"]
           pb == [At(m0, ResultsOf) EXCEPT !["ranging_result"] = r.has_ranging]
           copied == rac_copy_rx_payload_to_result(
                  r.rx_buffer, r.data["rx_size"], rac_convert_data_result_to_pb(r.data, pb))
           status == convert_native_rp_status_to_pb(r.rp_status)
           x1 == [results |-> {0},
                  transaction_status |-> r.transaction_status,
                  radio_access_id |-> r.radio_access_id,
                  return_code |-> rac_convert_return_code_to_pb(r.return_code),
                  rp_status |-> status]
           m1 == Place(m0, <<>>, x1)
           x2 == copied.val
           m2 == Place(m1, ResultsOf, x2)
           x3 == ranging_result_to_pb(r.data["ranging_result"])
           q3 == Append(ResultsOf, "ranging_result")
           m3 == Place(m2, q3, x3)
           p == <<"rp_status">>
           t == <<"results", "ranging_result", "timestamp">>
<1>1. m = IF r.has_ranging = {} THEN m2 ELSE m3  BY Zenon DEF ResultsMessageOf
<1>2. x1["rp_status"] = status /\ "rp_status" \in DOMAIN x1  OBVIOUS
<1>3. x3["timestamp"] = {} /\ "timestamp" \in DOMAIN x3  BY DEF ranging_result_to_pb
<1>4. p \in DOMAIN m0 /\ t \in DOMAIN m0 /\ m0[t] = {}
  <2> DEFINE T == ResultsType
  <2>1. T \in DOMAIN MaxSize /\ Top(T) \in Nested(T) /\ 4 \in 1..Len(Message[Top(T)[2]])
        /\ PathAt(Top(T), 4) = p
    BY AnswerPlaces
  <2>2. PICK u \in Nested(T) :
          4 \in 1..Len(Message[u[2]]) /\ TypeAt(u, 4) = "INT32" /\ PathAt(u, 4) = t
    BY AnswerPlaces
  <2>3. Defaults[T] = m0  BY DEF ResultsType
  <2> HIDE DEF T, m0, p, t
  <2>4. FieldTo(Top(T), 4) \in Fields[T]  BY <2>1, PlaceAt
  <2>5. FieldTo(u, 4) \in Fields[T] /\ FieldTo(u, 4)[2] = "INT32"  BY <2>1, <2>2, PlaceAt
  <2>6. FieldTo(Top(T), 4)[1] = p /\ FieldTo(u, 4)[1] = t  BY <2>1, <2>2 DEF PathAt
  <2>7. DOMAIN m0 = PathsOf(T) /\ \A f \in Fields[T] : m0[f[1]] = Default(f[2])
    BY <2>1, <2>3, DefaultsOf
  <2>8. Default("INT32") = {}  BY DEF Default
  <2> QED BY <2>4, <2>5, <2>6, <2>7, <2>8 DEF PathsOf
<1>5. /\ Front(p) = <<>> /\ Last(p) = "rp_status" /\ p # <<>>
      /\ Front(t) = q3 /\ Last(t) = "timestamp" /\ t # <<>>
      /\ q3 # <<>> /\ q3 # ResultsOf /\ ResultsOf # <<>>
  BY AnswerFronts, AppendTwo DEF ResultsOf
<1> HIDE DEF m0, x1, x2, x3, q3, p, t, status
<1>6. IsPlaced(m1, m0, <<>>, x1) /\ IsPlaced(m2, m1, ResultsOf, x2) /\ IsPlaced(m3, m2, q3, x3)
  BY Zenon DEF IsPlaced
<1> HIDE DEF m1, m2, m3
<1>7. p \in DOMAIN m1 /\ m1[p] = status  BY <1>2, <1>4, <1>5, <1>6, PlaceSets
<1>8. t \in DOMAIN m1 /\ m1[t] = {}  BY <1>4, <1>5, <1>6, PlaceLeaves
<1>9. p \in DOMAIN m2 /\ m2[p] = status  BY <1>5, <1>6, <1>7, PlaceLeaves
<1>10. t \in DOMAIN m2 /\ m2[t] = {}  BY <1>5, <1>6, <1>8, PlaceLeaves
<1>11. m3[p] = status  BY <1>5, <1>6, <1>9, PlaceLeaves
<1>12. m3[t] = {}  BY <1>3, <1>5, <1>6, <1>10, PlaceSets
<1>13. m[p] = status /\ m[t] = {}  BY <1>1, <1>9, <1>10, <1>11, <1>12
<1> QED BY <1>13 DEF p, t, status

\* An answer takes 337 bytes at most
LEMMA AnswerFits ==
  ASSUME NEW r, IsMessageOf(ResultsType, ResultsMessageOf(r))
  PROVE  SizeFrom(ResultsType, ResultsMessageOf(r), Top(ResultsType), 1) <= 337
<1> DEFINE m == ResultsMessageOf(r)
           T == ResultsType
           s == Top(T)
<1>1. /\ T \in DOMAIN MaxSize /\ s \in Nested(T)
      /\ PathAt(s, 4) = <<"rp_status">>
  BY AnswerPlaces
<1>2. PICK t \in Nested(T) :
        /\ t = FieldTo(FieldTo(s, 3), 6) /\ TypeAt(t, 4) = "INT32"
        /\ PathAt(t, 4) = <<"results", "ranging_result", "timestamp">>
  BY AnswerPlaces
<1>3. s[2] = "rac_results_pb_t"  BY <1>1, TopIn DEF ResultsType
<1>4. m[<<"rp_status">>] = convert_native_rp_status_to_pb(r.rp_status)
      /\ m[<<"results", "ranging_result", "timestamp">>] = {}
  BY AnswerValues, Zenon
<1> HIDE DEF m, T, s
<1>5. Len(pb_encode_varint(m[PathAt(s, 4)])) <= 1  BY <1>1, <1>4, StatusShort
<1>6. DefaultAt(m, FieldTo(FieldTo(s, 3), 6), 4)
  BY <1>2, <1>4 DEF DefaultAt, pb_check_proto3_default_value
<1>7. IsMessageOf(T, m)  BY DEF T, m
<1>8. SizeFrom(T, m, s, 1) <= 337  BY <1>1, <1>3, <1>5, <1>6, <1>7, ResultsSize
<1> QED BY <1>8 DEF m, T, s

\* Every payload of a message fits in its field
LEMMA PayloadsFit ==
  ASSUME NEW T, NEW m, IsMessageOf(T, m)
  PROVE  BytesFit(T, m)
<1>1. \A f \in Fields[T] : f[2] = "BYTES" => m[f[1]] \in Payloads
  BY ValuesOfBasic DEF IsMessageOf
<1> QED BY <1>1 DEF BytesFit, Payloads

\* The encoder accepts what fits the size of its message
LEMMA EncodedIs ==
  ASSUME NEW T, NEW m
  PROVE  Encoded(T, m).ok <=> BytesFit(T, m) /\ SizeFrom(T, m, Top(T), 1) <= MaxSize[T]
<1>1. Encoded(T, m) = [ok |-> BytesFit(T, m) /\ Len(pb_encode(T, m)[<<<<<<>>, T>>,
    1>>]) <= MaxSize[T],
                       out |-> pb_encode(T, m)[<<<<<<>>, T>>, 1>>]]
  BY Zenon DEF Encoded
<1>2. Encoded(T, m).ok = (BytesFit(T, m) /\ Len(pb_encode(T, m)[<<<<<<>>, T>>,
    1>>]) <= MaxSize[T])
  BY <1>1
<1>3. Len(pb_encode(T, m)[<<<<<<>>, T>>, 1>>]) = SizeFrom(T, m, Top(T), 1)
  BY Zenon DEF SizeFrom, Bytes, Top
<1> QED BY <1>2, <1>3, Zenon

\* What is converted from native structures fits
LEMMA SentFits ==
  ASSUME NEW msg \in Messages, msg.kind # "raw"
  PROVE  Encoded(msg.type, msg.sent).ok
<1>1. IsMessageOf(msg.type, msg.sent)  BY SentMessage
<1>2. CASE \E c \in Contexts : msg = Sent("context", Request, RequestOf(c), c)
  <2>1. PICK c : msg.type = Request /\ msg.sent = RequestOf(c)  BY <1>2 DEF Sent
  <2>2. SizeFrom(Request, RequestOf(c), Top(Request), 1) <= 732  BY <1>1, <2>1, RequestFits
  <2>3. SizeFrom(Request, RequestOf(c), Top(Request), 1) \in Nat
    BY ResultsPart, TopIn, <1>1, <2>1, SizeType
  <2>4. MaxSize[Request] = 772  BY DEF MaxSize, Request
  <2>5. SizeFrom(Request, RequestOf(c), Top(Request), 1) <= MaxSize[Request]
    BY <2>2, <2>3, <2>4
  <2> QED BY <1>1, <2>1, <2>5, PayloadsFit, EncodedIs
<1>3. CASE \E r \in Results : msg = Sent("results", "rac_results_pb_t", ResultsMessageOf(r), r)
  <2>1. PICK r : msg.type = ResultsType /\ msg.sent = ResultsMessageOf(r)
    BY <1>3 DEF Sent, ResultsType
  <2> DEFINE T == ResultsType
  <2>2. SizeFrom(T, ResultsMessageOf(r), Top(T), 1) <= 337  BY <1>1, <2>1, AnswerFits
  <2>3. SizeFrom(T, ResultsMessageOf(r), Top(T), 1) \in Nat
    BY AnswerPlaces, <1>1, <2>1, SizeType
  <2>4. MaxSize[T] = 338  BY DEF MaxSize, ResultsType
  <2>5. SizeFrom(T, ResultsMessageOf(r), Top(T), 1) <= MaxSize[T]  BY <2>2, <2>3, <2>4
  <2> QED BY <1>1, <2>1, <2>5, PayloadsFit, EncodedIs
<1>4. CASE \E x \in Raw : msg = Sent("raw", x.type, x.sent, {})  BY <1>4 DEF Sent
<1> QED BY <1>2, <1>3, <1>4, Zenon DEF Messages

\* In every state, a message that the converters have made fits the size that the header
\* declares for it: the stream of pb_encode is never full
THEOREM EncodingFits == Spec => []EncodedFits
<1>1. Transfer => EncodedFits  BY SentFits DEF Transfer, EncodedFits
<1> QED BY <1>1, TransferInvariant, PTL

(***************************************************************************)
(* 9. The conversions undo each other                                      *)
(***************************************************************************)

\* An enumerator that is converted comes back
LEMMA EnumBack ==
  ASSUME NEW names, NEW n \in 1..17, DOMAIN names = 1..n, Len(names) = n,
         NEW default, NEW other, NEW name \in ToSet(names)
  PROVE  FromPb(names, other, ToPb(names, default, name)) = name
<1> DEFINE i == CHOOSE j \in DOMAIN names : names[j] = name
           v == BitsOf(i - 1)
<1>1. \E j \in DOMAIN names : names[j] = name  BY DEF ToSet
<1>2. i \in DOMAIN names /\ names[i] = name  BY <1>1
<1>3. ToPb(names, default, name) = v  BY DEF ToPb
<1> HIDE DEF i
<1>4. Number(v) = i - 1
  <2>1. i \in 1..n  BY <1>2
  <2> DEFINE k == i - 1
  <2>2. k \in 0..17  BY <2>1
  <2>3. \A x \in 0..17 : x \in 0..(2^28 - 1)  BY Powers
  <2> HIDE DEF k
  <2>4. Number(BitsOf(k)) = k  BY <2>2, <2>3, NumberOfBits
  <2> QED BY <2>4 DEF k
<1> HIDE DEF v
<1>5. i \in 1..n  BY <1>2
<1>6. Number(v) < Len(names) /\ Number(v) + 1 = i  BY <1>4, <1>5
<1>7. FromPb(names, other, v) = names[Number(v) + 1]  BY <1>6, Zenon DEF FromPb
<1> QED BY <1>2, <1>3, <1>6, <1>7, Zenon

\* of each of the enumerations
LEMMA EnumsBack ==
  /\ \A x \in ToSet(LoraSf) : convert_pb_sf_to_native(convert_native_sf_to_pb(x)) = x
  /\ \A x \in ToSet(LoraBw) : convert_pb_bw_to_native(convert_native_bw_to_pb(x)) = x
  /\ \A x \in ToSet(LoraCr) : convert_pb_cr_to_native(convert_native_cr_to_pb(x)) = x
  /\ \A x \in ToSet(HeaderType) :
       convert_pb_header_type_to_native(convert_native_header_type_to_pb(x)) = x
  /\ \A x \in ToSet(Syncword) :
       convert_pb_sync_word_to_native(convert_native_sync_word_to_pb(x)) = x
  /\ \A x \in ToSet(Scheduling) :
       rac_convert_scheduling_from_pb(rac_convert_scheduling_to_pb(x)) = x
  /\ \A x \in ToSet(ReturnCode) :
       rac_convert_return_code_from_pb(rac_convert_return_code_to_pb(x)) = x
  /\ \A x \in ToSet(CadExitMode) :
       FromPb(CadExitMode, "unknown", ToPb(CadExitMode, "CAD_ONLY", x)) = x /\ x # "unknown"
  /\ \A x \in ToSet(CadSymbs) :
       FromPb(CadSymbs, "unknown", ToPb(CadSymbs, "01_SYMB", x)) = x /\ x # "unknown"
<1>1. \A x \in ToSet(LoraSf) : convert_pb_sf_to_native(convert_native_sf_to_pb(x)) = x
  <2>1. PICK n \in 1..17 : n = 8  OBVIOUS
  <2>2. DOMAIN LoraSf = 1..n /\ Len(LoraSf) = n  BY <2>1 DEF LoraSf
  <2> QED BY <2>2, EnumBack DEF convert_pb_sf_to_native, convert_native_sf_to_pb
<1>2. \A x \in ToSet(LoraBw) : convert_pb_bw_to_native(convert_native_bw_to_pb(x)) = x
  <2>1. PICK n \in 1..17 : n = 15  OBVIOUS
  <2>2. DOMAIN LoraBw = 1..n /\ Len(LoraBw) = n  BY <2>1 DEF LoraBw
  <2> QED BY <2>2, EnumBack DEF convert_pb_bw_to_native, convert_native_bw_to_pb
<1>3. \A x \in ToSet(LoraCr) : convert_pb_cr_to_native(convert_native_cr_to_pb(x)) = x
  <2>1. PICK n \in 1..17 : n = 7  OBVIOUS
  <2>2. DOMAIN LoraCr = 1..n /\ Len(LoraCr) = n  BY <2>1 DEF LoraCr
  <2> QED BY <2>2, EnumBack DEF convert_pb_cr_to_native, convert_native_cr_to_pb
<1>4. \A x \in ToSet(HeaderType) :
        convert_pb_header_type_to_native(convert_native_header_type_to_pb(x)) = x
  <2>1. PICK n \in 1..17 : n = 2  OBVIOUS
  <2>2. DOMAIN HeaderType = 1..n /\ Len(HeaderType) = n  BY <2>1 DEF HeaderType
  <2> QED BY <2>2, EnumBack DEF convert_pb_header_type_to_native, convert_native_header_type_to_pb
<1>5. \A x \in ToSet(Syncword) :
        convert_pb_sync_word_to_native(convert_native_sync_word_to_pb(x)) = x
  <2>1. PICK n \in 1..17 : n = 2  OBVIOUS
  <2>2. DOMAIN Syncword = 1..n /\ Len(Syncword) = n  BY <2>1 DEF Syncword
  <2> QED BY <2>2, EnumBack DEF convert_pb_sync_word_to_native, convert_native_sync_word_to_pb
<1>6. \A x \in ToSet(Scheduling) :
        rac_convert_scheduling_from_pb(rac_convert_scheduling_to_pb(x)) = x
  <2>1. PICK n \in 1..17 : n = 2  OBVIOUS
  <2>2. DOMAIN Scheduling = 1..n /\ Len(Scheduling) = n  BY <2>1 DEF Scheduling
  <2> QED BY <2>2, EnumBack DEF rac_convert_scheduling_from_pb, rac_convert_scheduling_to_pb
<1>7. \A x \in ToSet(ReturnCode) :
        rac_convert_return_code_from_pb(rac_convert_return_code_to_pb(x)) = x
  <2>1. PICK n \in 1..17 : n = 8  OBVIOUS
  <2>2. DOMAIN ReturnCode = 1..n /\ Len(ReturnCode) = n  BY <2>1 DEF ReturnCode
  <2> QED BY <2>2, EnumBack DEF rac_convert_return_code_from_pb, rac_convert_return_code_to_pb
<1>8. \A x \in ToSet(CadExitMode) :
        FromPb(CadExitMode, "unknown", ToPb(CadExitMode, "CAD_ONLY", x)) = x /\ x # "unknown"
  <2>1. PICK n \in 1..17 : n = 3  OBVIOUS
  <2>2. DOMAIN CadExitMode = 1..n /\ Len(CadExitMode) = n  BY <2>1 DEF CadExitMode
  <2>3. "unknown" \notin ToSet(CadExitMode)  BY DEF ToSet, CadExitMode
  <2> QED BY <2>2, <2>3, EnumBack
<1>9. \A x \in ToSet(CadSymbs) :
        FromPb(CadSymbs, "unknown", ToPb(CadSymbs, "01_SYMB", x)) = x /\ x # "unknown"
  <2>1. PICK n \in 1..17 : n = 5  OBVIOUS
  <2>2. DOMAIN CadSymbs = 1..n /\ Len(CadSymbs) = n  BY <2>1 DEF CadSymbs
  <2>3. "unknown" \notin ToSet(CadSymbs)  BY DEF ToSet, CadSymbs
  <2> QED BY <2>2, <2>3, EnumBack
<1> QED BY <1>1, <1>2, <1>3, <1>4, <1>5, <1>6, <1>7, <1>8, <1>9

\* What a conversion changes in a structure
LEMMA ChangedIs ==
  ASSUME NEW f, NEW a, NEW g, g = Changed(f, a)
  PROVE  /\ DOMAIN g = DOMAIN f
         /\ \A x \in DOMAIN f : g[x] = IF x \in DOMAIN a THEN a[x] ELSE f[x]
BY DEF Changed

\* and what the other one changes back
LEMMA ChangedBack ==
  ASSUME NEW N, NEW f, IsStruct(f, N), NEW a, NEW b, DOMAIN a \subseteq DOMAIN b,
         \A x \in DOMAIN b : b[x] = f[x]
  PROVE  Changed(Changed(f, a), b) = f
<1> DEFINE g == Changed(f, a)
           h == Changed(g, b)
<1>1. DOMAIN f = N  BY DEF IsStruct
<1>2. DOMAIN g = N /\ \A x \in N : x \notin DOMAIN a => g[x] = f[x]  BY <1>1, ChangedIs
<1> HIDE DEF g
<1>3. h = [x \in N |-> IF x \in DOMAIN b THEN b[x] ELSE g[x]]  BY <1>2 DEF Changed
<1>4. \A x \in N : (IF x \in DOMAIN b THEN b[x] ELSE g[x]) = f[x]  BY <1>2
<1>5. h = [x \in N |-> f[x]]  BY <1>3, <1>4
<1> QED BY <1>5 DEF IsStruct, g

\* The magnitude of a signed number
LEMMA MinProperty ==
  ASSUME NEW S \in SUBSET Nat, S # {}
  PROVE  Min(S) \in S /\ \A y \in S : Min(S) <= y
BY SmallestExists DEF Min

\* The opposite of the opposite of a number is the number; of those that are not zero, only the
\* least is its own opposite
LEMMA MinusTwice ==
  ASSUME NEW w \in Nat, NEW v \in SUBSET (0..(w - 1)), v # {}
  PROVE  /\ Minus(v, w) \in SUBSET (0..(w - 1)) /\ Minus(v, w) # {}
         /\ Minus(Minus(v, w), w) = v
         /\ w - 1 \in v /\ w - 1 \in Minus(v, w) => v = {w - 1} /\ Minus(v, w) = {w - 1}
<1>1. PICK k : k = Min(v)  OBVIOUS
<1>2. k \in v /\ \A y \in v : k <= y  BY <1>1, MinProperty
<1> DEFINE u == {k} \cup {b \in (k + 1)..(w - 1) : b \notin v}
<1>3. Minus(v, w) = u  BY <1>1 DEF Minus
<1>4. u \in SUBSET (0..(w - 1)) /\ u # {} /\ k \in u /\ \A y \in u : k <= y  BY <1>2
<1>5. PICK j : j = Min(u)  OBVIOUS
<1>6. j \in u /\ \A y \in u : j <= y
  <2>1. u \in SUBSET Nat  BY <1>4
  <2> HIDE DEF u
  <2> QED BY <1>4, <1>5, <2>1, MinProperty
<1>7. j = k  BY <1>2, <1>4, <1>6
<1>8. Minus(u, w) = {j} \cup {b \in (j + 1)..(w - 1) : b \notin u}  BY <1>4, <1>5 DEF Minus
<1>9. {k} \cup {b \in (k + 1)..(w - 1) : b \notin u} = v
  <2>1. ASSUME NEW b \in v
        PROVE  b \in {k} \cup {x \in (k + 1)..(w - 1) : x \notin u}
    BY <1>2, <2>1
  <2>2. ASSUME NEW b \in {k} \cup {x \in (k + 1)..(w - 1) : x \notin u}
        PROVE  b \in v
    BY <1>2, <2>2
  <2> QED BY <2>1, <2>2, Zenon
<1>10. ASSUME w - 1 \in v, w - 1 \in u
       PROVE  v = {w - 1} /\ u = {w - 1}
  <2>1. w - 1 = k  BY <1>10, <1>2
  <2>2. \A b \in v : b = k  BY <1>2, <2>1
  <2>3. \A b \in u : b = k  BY <1>2, <2>1
  <2>4. k \in v /\ k \in u  BY <1>2
  <2> HIDE DEF u
  <2>5. v = {k}  BY <2>2, <2>4
  <2>6. u = {k}  BY <2>3, <2>4
  <2> QED BY <2>1, <2>5, <2>6
<1> HIDE DEF u
<1> QED BY <1>3, <1>4, <1>7, <1>8, <1>9, <1>10

\* An integer from its sign and its magnitude
LEMMA MagnitudeBack ==
  ASSUME NEW w \in Nat, w >= 1, NEW i \in SUBSET (0..(w - 1)), i # {}
  PROVE  /\ Magnitude(i, w) \in SUBSET (0..(w - 1)) /\ Magnitude(i, w) # {}
         /\ (IF (w - 1) \in i THEN Minus(Magnitude(i, w), w) ELSE Magnitude(i, w)) = i
         /\ w - 1 \in Magnitude(i, w) => Magnitude(i, w) = {w - 1} /\ (w - 1) \in i
<1>1. CASE (w - 1) \in i  BY <1>1, MinusTwice DEF Magnitude
<1>2. CASE (w - 1) \notin i  BY <1>2 DEF Magnitude
<1> QED BY <1>1, <1>2

\* Each part is what the float was made of
LEMMA FloatParts ==
  ASSUME NEW e \in 0..23, NEW mag \in SUBSET (0..e), e \in mag,
         NEW exponent \in SUBSET (0..7), NEW sign \in SUBSET {31}, NEW f,
         FloatIs(f, mag, e, exponent, sign)
  PROVE  /\ Cast(Shr(f, 23), 8) = exponent
         /\ {b + e - 23 : b \in {x \in Cast(f, 23) \cup {23} : x + e >= 23}} = mag
         /\ 31 \in f <=> sign = {31}
<1>1. \A y : y \in f <=> \/ \E b \in mag : b < e /\ y = b + 23 - e
                         \/ \E b \in exponent : y = b + 23
                         \/ y \in sign
  BY DEF FloatIs
<1>2. ASSUME NEW y \in f
      PROVE  y \in 0..31 /\ (y = 31 => y \in sign)
  <2>1. CASE \E b \in mag : b < e /\ y = b + 23 - e
    <3>1. PICK b \in mag : b < e /\ y = b + 23 - e  BY <2>1
    <3>2. b \in Nat  OBVIOUS
    <3> QED BY <3>1, <3>2
  <2>2. CASE \E b \in exponent : y = b + 23
    <3>1. PICK b \in exponent : y = b + 23  BY <2>2
    <3>2. b \in 0..7  OBVIOUS
    <3> QED BY <3>1, <3>2
  <2>3. CASE y \in sign  BY <2>3
  <2> QED BY <1>1, <2>1, <2>2, <2>3
<1>3. Cast(Shr(f, 23), 8) = exponent
  <2>1. ASSUME NEW y \in exponent PROVE y \in Cast(Shr(f, 23), 8)  BY <1>1 DEF Cast, Shr
  <2>2. ASSUME NEW y \in Cast(Shr(f, 23), 8) PROVE y \in exponent
    <3>1. y \in 0..7 /\ \E x \in f : x >= 23 /\ y = x - 23  BY DEF Cast, Shr
    <3>2. PICK x \in f : x >= 23 /\ y = x - 23  BY <3>1
    <3>3. x = y + 23 /\ x # 31  BY <1>2, <3>1, <3>2
    <3>4. \E b \in exponent : x = b + 23  BY <1>1, <3>2, <3>3
    <3> QED BY <3>1, <3>3, <3>4
  <2> QED BY <2>1, <2>2
<1>4. {b + e - 23 : b \in {x \in Cast(f, 23) \cup {23} : x + e >= 23}} = mag
  <2> DEFINE M == {b + e - 23 : b \in {x \in Cast(f, 23) \cup {23} : x + e >= 23}}
  <2>1. ASSUME NEW y \in mag PROVE y \in M
    <3>1. CASE y = e
      <4>1. 23 \in Cast(f, 23) \cup {23} /\ 23 + e >= 23 /\ 23 + e - 23 = y  BY <3>1
      <4> QED BY <4>1
    <3>2. CASE y # e
      <4>1. y < e /\ y \in 0..23  BY <3>2
      <4>2. y + 23 - e \in f /\ y + 23 - e \in 0..22  BY <1>1, <4>1
      <4>3. y + 23 - e \in Cast(f, 23)  BY <4>2 DEF Cast
      <4>4. (y + 23 - e) + e >= 23 /\ (y + 23 - e) + e - 23 = y  BY <4>1
      <4> QED BY <4>3, <4>4
    <3> QED BY <3>1, <3>2
  <2>2. ASSUME NEW y \in M PROVE y \in mag
    <3>1. PICK x \in Cast(f, 23) \cup {23} : x + e >= 23 /\ y = x + e - 23  BY <2>2
    <3>2. CASE x = 23  BY <3>1, <3>2
    <3>3. CASE x \in Cast(f, 23)
      <4>1. x \in f /\ x \in 0..22  BY <3>3 DEF Cast
      <4>2. PICK b \in mag : b < e /\ x = b + 23 - e  BY <1>1, <4>1
      <4>3. y = b  BY <3>1, <4>2
      <4> QED BY <4>3
    <3> QED BY <3>1, <3>2, <3>3
  <2> QED BY <2>1, <2>2
<1>5. 31 \in f <=> sign = {31}  BY <1>2, <1>1
<1> QED BY <1>3, <1>4, <1>5

\* A float holds the integers of 24 significant bits, the least one included
LEMMA FloatBack ==
  ASSUME NEW w \in {8, 32}, NEW i \in SUBSET (0..(w - 1)), Magnitude(i, w) \subseteq 0..23
  PROVE  IntsOf(FloatOf(i, w), w) = {i}
<1> DEFINE f == FloatOf(i, w)
           bits == Cast(Shr(f, 23), 8)
           e1 == Number(bits) - 127
           mag1 == {b + e1 - 23 : b \in {x \in Cast(f, 23) \cup {23} : x + e1 >= 23}}
<1>1. IntsOf(f, w)
        = IF e1 < 0 THEN {{}}
          ELSE IF e1 >= w - 1 /\ ~(31 \in f /\ mag1 = {w - 1}) THEN {{}, 0..(w - 2), {w - 1}}
          ELSE {IF 31 \in f THEN Minus(mag1, w) ELSE mag1}
  BY Zenon DEF IntsOf
<1>2. CASE i = {}
  <2>1. f = {}  BY <1>2, Zenon DEF FloatOf
  <2> HIDE DEF f
  <2>2. bits = {}  BY <2>1 DEF Cast, Shr
  <2>3. 0 \in 0..(2^28 - 1)  BY Powers
  <2>4. Number(BitsOf(0)) = 0  BY <2>3, NumberOfBits
  <2>5. BitsOf(0) = {}
    <3>1. \A b \in 0..27 : (0 \div 2^b) % 2 = 0
      <4> TAKE b \in 0..27
      <4>1. PICK p \in Nat : p = 2^b /\ p >= 1  BY Powers
      <4>2. (0 \div p) % 2 = 0  BY <4>1
      <4> QED BY <4>1, <4>2, Zenon
    <3>2. \A b \in 0..27 : ~((0 \div 2^b) % 2 = 1)
      <4> DEFINE r(b) == (0 \div 2^b) % 2
      <4>1. \A b \in 0..27 : r(b) = 0  BY <3>1
      <4> HIDE DEF r
      <4>2. \A b \in 0..27 : ~(r(b) = 1)  BY <4>1
      <4> QED BY <4>2 DEF r
    <3> QED BY <3>2, Zenon DEF BitsOf
  <2>6. e1 < 0  BY <2>2, <2>4, <2>5
  <2> HIDE DEF bits, e1, mag1
  <2> QED BY <1>1, <1>2, <2>6 DEF f
<1>3. CASE i # {}
  <2> DEFINE mag == Magnitude(i, w)
             e == Max(mag)
             exponent == BitsOf(e + 127)
             sign == IF (w - 1) \in i THEN {31} ELSE {}
  <2>1. w \in Nat /\ w >= 1 /\ w - 1 \in Nat  OBVIOUS
  <2>2. /\ mag \in SUBSET (0..(w - 1)) /\ mag # {}
        /\ (IF (w - 1) \in i THEN Minus(mag, w) ELSE mag) = i
        /\ w - 1 \in mag => mag = {w - 1} /\ (w - 1) \in i
    BY <1>3, <2>1, MagnitudeBack
  <2>3. mag \in SUBSET (0..23)  OBVIOUS
  <2>4. f = {b + 23 - e : b \in {x \in mag : x < e /\ x + 23 >= e}}
            \cup {b + 23 : b \in exponent} \cup sign
    BY <1>3, Zenon DEF FloatOf
  <2> HIDE DEF mag, f, exponent, sign
  <2>5. e \in mag /\ \A y \in mag : e >= y  BY <2>2, <2>3, MaxProperty
  <2> HIDE DEF e
  <2>6. e \in 0..23 /\ mag \in SUBSET (0..e)  BY <2>3, <2>5
  <2>7. exponent \in SUBSET (0..7) /\ Number(exponent) = e + 127
    <3>1. PICK n \in Nat : n = e + 127  BY <2>6
    <3>2. 2^8 = 256  OBVIOUS
    <3>3. n < 2^8  BY <2>6, <3>1, <3>2
    <3>4. BitsOf(n) \subseteq 0..(8 - 1)  BY <3>3, BitsBelow
    <3>5. n \in 0..(2^28 - 1)  BY PowersFrom, 8 \in 0..27, 2^8 \in Nat, <3>2, <3>3
    <3>6. Number(BitsOf(n)) = n  BY <3>5, NumberOfBits
    <3> QED BY <3>1, <3>4, <3>6 DEF exponent
  <2>8. sign \in SUBSET {31} /\ (sign = {31} <=> (w - 1) \in i)  BY DEF sign
  <2>9. FloatIs(f, mag, e, exponent, sign)  BY <2>4, Zenon DEF FloatIs
  <2>10. /\ bits = exponent
         /\ {b + e - 23 : b \in {x \in Cast(f, 23) \cup {23} : x + e >= 23}} = mag
         /\ 31 \in f <=> sign = {31}
    BY <2>5, <2>6, <2>7, <2>8, <2>9, FloatParts
  <2> HIDE DEF bits
  <2>11. e1 = e  BY <2>6, <2>7, <2>10
  <2>12. mag1 = mag  BY <2>10, <2>11
  <2> HIDE DEF e1, mag1
  <2>13. ~(e1 < 0)  BY <2>6, <2>11
  <2>14. ASSUME e1 >= w - 1 PROVE 31 \in f /\ mag1 = {w - 1}
    BY <2>1, <2>2, <2>5, <2>11, <2>14, <2>8, <2>10, <2>12
  <2>15. IntsOf(f, w) = {IF 31 \in f THEN Minus(mag1, w) ELSE mag1}  BY <1>1, <2>13, <2>14
  <2>16. (IF 31 \in f THEN Minus(mag1, w) ELSE mag1) = i  BY <2>2, <2>8, <2>10, <2>12
  <2> QED BY <2>15, <2>16 DEF f
<1> QED BY <1>2, <1>3

\* The path of a field of a structure
LEMMA StructPath ==
  ASSUME NEW T \in DOMAIN MaxSize, NEW s \in Nested(T), NEW name \in FieldNames(s[2])
  PROVE  /\ Append(s[1], name) \in PathsOf(T) /\ Append(s[1], name) # <<>>
         /\ Front(Append(s[1], name)) = s[1] /\ Last(Append(s[1], name)) = name
<1>1. PICK k \in 1..Len(Message[s[2]]) : name = Message[s[2]][k][1]  BY DEF FieldNames
<1>2. FieldTo(s, k) \in Fields[T] /\ FieldTo(s, k)[1] = Append(s[1], name)  BY <1>1, FieldIn
<1> DEFINE p == s[1]
<1>3. s[2] \in DOMAIN Message /\ p \in Seq(Names)  BY NestedLevel DEF Paths
<1>4. name \in Names  BY <1>1, <1>3, FieldOf
<1> HIDE DEF p
<1>5. Front(Append(p, name)) = p /\ Last(Append(p, name)) = name  BY <1>3, <1>4, FrontOfAppend
<1>6. Append(p, name) # <<>>  BY <1>3, <1>4
<1> QED BY <1>2, <1>5, <1>6 DEF p, PathsOf

\* The fields at the path of a message are those of its type
LEMMA AtStruct ==
  ASSUME NEW T \in DOMAIN MaxSize, NEW s \in Nested(T), NEW d, DOMAIN d = PathsOf(T)
  PROVE  At(d, s[1]) = [name \in FieldNames(s[2]) |-> d[Append(s[1], name)]]
<1> DEFINE N == {Last(p) : p \in {q \in DOMAIN d : q # <<>> /\ Front(q) = s[1]}}
<1>1. ASSUME NEW name \in FieldNames(s[2]) PROVE name \in N  BY StructPath
<1>2. ASSUME NEW name \in N PROVE name \in FieldNames(s[2])
  <2>1. PICK q \in PathsOf(T) : Front(q) = s[1] /\ Last(q) = name  BY <1>2
  <2>2. PICK f \in Fields[T] : f[1] = q  BY DEF PathsOf
  <2>3. PICK t \in Nested(T) : \E k \in 1..Len(Message[t[2]]) : f = FieldTo(t, k)  BY Parent
  <2>4. PICK k \in 1..Len(Message[t[2]]) : f = FieldTo(t, k)  BY <2>3
  <2>5. f[1] = Append(t[1], Message[t[2]][k][1]) /\ Message[t[2]][k][1] \in FieldNames(t[2])
    BY <2>4, FieldIn DEF FieldNames
  <2> DEFINE x == Message[t[2]][k][1]
             a == Append(t[1], x)
  <2>6. Front(a) = t[1] /\ Last(a) = x  BY <2>5, StructPath
  <2>7. q = a  BY <2>2, <2>5
  <2>8. t = s  BY <2>1, <2>6, <2>7, NestedUnique
  <2> QED BY <2>1, <2>5, <2>6, <2>7, <2>8
<1>3. N = FieldNames(s[2])  BY <1>1, <1>2
<1>4. At(d, s[1]) = [name \in N |-> d[Append(s[1], name)]]  BY Zenon DEF At
<1> HIDE DEF N
<1> QED BY <1>3, <1>4

\* What is placed at the path of a message is found there
LEMMA PlacedAt ==
  ASSUME NEW T \in DOMAIN MaxSize, NEW s \in Nested(T), NEW m, DOMAIN m = PathsOf(T),
         NEW x, IsStruct(x, FieldNames(s[2])), NEW g, IsPlaced(g, m, s[1], x)
  PROVE  DOMAIN g = PathsOf(T) /\ At(g, s[1]) = x
<1> DEFINE N == FieldNames(s[2])
<1>1. DOMAIN g = PathsOf(T)  BY DEF IsPlaced, Place
<1>2. DOMAIN x = N  BY DEF IsStruct
<1>3. At(g, s[1]) = [name \in N |-> g[Append(s[1], name)]]  BY <1>1, AtStruct
<1>4. ASSUME NEW name \in N PROVE g[Append(s[1], name)] = x[name]
  <2> DEFINE p == Append(s[1], name)
  <2>1. p \in DOMAIN m /\ p # <<>> /\ Front(p) = s[1] /\ Last(p) = name  BY StructPath
  <2> HIDE DEF p
  <2>2. g[p] = x[Last(p)]  BY <1>2, <2>1, PlaceSets
  <2> QED BY <2>1, <2>2 DEF p
<1> HIDE DEF N
<1>5. At(g, s[1]) = [name \in N |-> x[name]]  BY <1>3, <1>4
<1> QED BY <1>1, <1>5 DEF IsStruct, N

\* and what is elsewhere is left
LEMMA LeftAt ==
  ASSUME NEW T \in DOMAIN MaxSize, NEW s \in Nested(T), NEW m, DOMAIN m = PathsOf(T),
         NEW prefix, prefix # s[1], NEW x, NEW g, IsPlaced(g, m, prefix, x)
  PROVE  At(g, s[1]) = At(m, s[1])
<1> DEFINE N == FieldNames(s[2])
<1>1. DOMAIN g = PathsOf(T)  BY DEF IsPlaced, Place
<1>2. At(g, s[1]) = [name \in N |-> g[Append(s[1], name)]]  BY <1>1, AtStruct
<1>3. At(m, s[1]) = [name \in N |-> m[Append(s[1], name)]]  BY AtStruct
<1>4. ASSUME NEW name \in N PROVE g[Append(s[1], name)] = m[Append(s[1], name)]
  <2> DEFINE p == Append(s[1], name)
  <2>1. p \in DOMAIN m /\ Front(p) = s[1]  BY StructPath
  <2> HIDE DEF p
  <2>2. g[p] = m[p]  BY <2>1, PlaceLeaves
  <2> QED BY <2>2 DEF p
<1> HIDE DEF N
<1> QED BY <1>2, <1>3, <1>4

\* The domain of what is placed anywhere
LEMMA PlacedDomain ==
  ASSUME NEW m, NEW prefix, NEW x, NEW g, IsPlaced(g, m, prefix, x)
  PROVE  DOMAIN g = DOMAIN m
BY DEF IsPlaced, Place

\* They are messages inside a request
LEMMA ContextStructs ==
  /\ Request \in DOMAIN MaxSize
  /\ ConfigAt \in Nested(Request) /\ RadioAt \in Nested(Request)
  /\ RttofAt \in Nested(Request) /\ LbtAt \in Nested(Request) /\ CwAt \in Nested(Request)
  /\ CadAt \in Nested(Request) /\ SetupAt \in Nested(Request)
  /\ ScheduleAt \in Nested(Request)
<1> DEFINE s0 == <<<<>>, "smtc_rac_lora_request_pb_t">>
<1>1. Request \in DOMAIN MaxSize  BY DEF Request, MaxSize
<1>2. s0 \in Nested(Request)  BY <1>1, TopIn DEF Top, Request
<1>3. ConfigAt \in Nested(Request)
  <2>1. Message[s0[2]] = smtc_rac_lora_request_pb_t  BY DEF Message
  <2>2. /\ 2 \in 1..Len(smtc_rac_lora_request_pb_t)
        /\ smtc_rac_lora_request_pb_t[2] = <<"rac_config", "smtc_rac_context_pb_t">>
    BY DEF smtc_rac_lora_request_pb_t
  <2>3. FieldTo(s0, 2) = ConfigAt  BY <2>1, <2>2 DEF FieldTo, ConfigAt, Config
  <2>4. IsMessage("smtc_rac_context_pb_t")  BY DEF IsMessage, Message
  <2> HIDE DEF s0
  <2> QED BY <1>1, <1>2, <2>1, <2>2, <2>3, <2>4, FieldIn
<1>4. Message[ConfigAt[2]] = smtc_rac_context_pb_t  BY DEF Message, ConfigAt
<1>5. /\ 2 \in 1..Len(smtc_rac_context_pb_t) /\ 3 \in 1..Len(smtc_rac_context_pb_t)
      /\ 4 \in 1..Len(smtc_rac_context_pb_t) /\ 6 \in 1..Len(smtc_rac_context_pb_t)
      /\ 7 \in 1..Len(smtc_rac_context_pb_t) /\ 8 \in 1..Len(smtc_rac_context_pb_t)
      /\ smtc_rac_context_pb_t[2] = <<"radio_params", "rac_radio_lora_params_pb_t">>
      /\ smtc_rac_context_pb_t[3]
           = <<"smtc_rac_data_buffer_setup", "smtc_rac_data_buffer_setup_pb_t">>
      /\ smtc_rac_context_pb_t[4] = <<"scheduler_config", "rac_scheduler_config_pb_t">>
      /\ smtc_rac_context_pb_t[6] = <<"lbt_context", "smtc_rac_lbt_context_pb_t">>
      /\ smtc_rac_context_pb_t[7] = <<"cad_context", "smtc_rac_cad_context_pb_t">>
      /\ smtc_rac_context_pb_t[8] = <<"cw_context", "smtc_rac_cw_context_pb_t">>
  BY DEF smtc_rac_context_pb_t
<1>6. ASSUME NEW k \in 1..Len(smtc_rac_context_pb_t), NEW name, NEW type,
             smtc_rac_context_pb_t[k] = <<name, type>>, IsMessage(type)
      PROVE  <<<<"rac_config", name>>, type>> \in Nested(Request)
  <2>1. /\ FieldTo(ConfigAt, k) = <<Append(ConfigAt[1], name), type>>
        /\ Message[ConfigAt[2]][k][2] = type
    BY <1>4, <1>6 DEF FieldTo
  <2>2. Append(ConfigAt[1], name) = <<"rac_config", name>>  BY AppendTwo DEF ConfigAt, Config
  <2> QED BY <1>1, <1>3, <1>4, <1>6, <2>1, <2>2, FieldIn
<1>7. /\ IsMessage("rac_radio_lora_params_pb_t") /\ IsMessage("smtc_rac_data_buffer_setup_pb_t")
      /\ IsMessage("rac_scheduler_config_pb_t") /\ IsMessage("smtc_rac_lbt_context_pb_t")
      /\ IsMessage("smtc_rac_cad_context_pb_t") /\ IsMessage("smtc_rac_cw_context_pb_t")
      /\ IsMessage("rttof_params_pb_t")
  BY DEF IsMessage, Message
<1>8. RadioAt \in Nested(Request)  BY <1>5, <1>6, <1>7 DEF RadioAt
<1>9. LbtAt \in Nested(Request) /\ CwAt \in Nested(Request) /\ CadAt \in Nested(Request)
  BY <1>5, <1>6, <1>7 DEF LbtAt, CwAt, CadAt
<1>10. SetupAt \in Nested(Request) /\ ScheduleAt \in Nested(Request)
  BY <1>5, <1>6, <1>7 DEF SetupAt, SetupPath, ScheduleAt
<1>11. RttofAt \in Nested(Request)
  <2>1. Message[RadioAt[2]] = rac_radio_lora_params_pb_t  BY DEF Message, RadioAt
  <2>2. /\ 3 \in 1..Len(rac_radio_lora_params_pb_t)
        /\ rac_radio_lora_params_pb_t[3] = <<"rttof", "rttof_params_pb_t">>
    BY DEF rac_radio_lora_params_pb_t
  <2>3. FieldTo(RadioAt, 3) = RttofAt  BY <2>1, <2>2, AppendThree DEF FieldTo, RadioAt, RttofAt
  <2> QED BY <1>1, <1>7, <1>8, <2>1, <2>2, <2>3, FieldIn
<1> QED BY <1>1, <1>3, <1>8, <1>9, <1>10, <1>11

\* A field of a message is one of the fields of its structure
LEMMA NameIn ==
  ASSUME NEW type, NEW k \in 1..Len(Message[type])
  PROVE  Message[type][k][1] \in FieldNames(type)
BY DEF FieldNames

\* They are fields of the messages
LEMMA NamesInRequest ==
  /\ RadioNames \subseteq FieldNames("rac_radio_lora_params_pb_t")
  /\ "bw_ranging" \in FieldNames("rttof_params_pb_t")
  /\ {"threshold_dbm", "rssi_inst_dbm"} \subseteq FieldNames("smtc_rac_lbt_context_pb_t")
  /\ "scheduling" \in FieldNames("rac_scheduler_config_pb_t")
  /\ "modulation_type" \in FieldNames("smtc_rac_context_pb_t")
  /\ FieldNames("smtc_rac_data_buffer_setup_pb_t") = {"tx_payload_buffer"}
  /\ FieldNames("smtc_rac_cad_context_pb_t") = CadNames
<1>1. RadioNames \subseteq FieldNames("rac_radio_lora_params_pb_t")
  <2> DEFINE t == rac_radio_lora_params_pb_t
  <2>1. Message["rac_radio_lora_params_pb_t"] = t  BY DEF Message
  <2>2. /\ 3 \in 1..Len(t) /\ t[3][1] = "rttof" /\ 5 \in 1..Len(t) /\ t[5][1] = "tx_power_in_dbm"
        /\ 6 \in 1..Len(t) /\ t[6][1] = "sf" /\ 7 \in 1..Len(t) /\ t[7][1] = "bw"
        /\ 8 \in 1..Len(t) /\ t[8][1] = "cr" /\ 10 \in 1..Len(t) /\ t[10][1] = "header_type"
        /\ 13 \in 1..Len(t) /\ t[13][1] = "sync_word"
        /\ 15 \in 1..Len(t) /\ t[15][1] = "symb_nb_timeout"
    BY DEF rac_radio_lora_params_pb_t
  <2> HIDE DEF t
  <2> QED BY <2>1, <2>2, NameIn, SMTT(30) DEF RadioNames
<1>2. "bw_ranging" \in FieldNames("rttof_params_pb_t")
  <2> DEFINE t == rttof_params_pb_t
  <2>1. Message["rttof_params_pb_t"] = t  BY DEF Message
  <2>2. 4 \in 1..Len(t) /\ t[4][1] = "bw_ranging"  BY DEF rttof_params_pb_t
  <2> HIDE DEF t
  <2> QED BY <2>1, <2>2, NameIn
<1>3. {"threshold_dbm", "rssi_inst_dbm"} \subseteq FieldNames("smtc_rac_lbt_context_pb_t")
  <2> DEFINE t == smtc_rac_lbt_context_pb_t
  <2>1. Message["smtc_rac_lbt_context_pb_t"] = t  BY DEF Message
  <2>2. /\ 3 \in 1..Len(t) /\ t[3][1] = "threshold_dbm"
        /\ 5 \in 1..Len(t) /\ t[5][1] = "rssi_inst_dbm"
    BY DEF smtc_rac_lbt_context_pb_t
  <2> HIDE DEF t
  <2> QED BY <2>1, <2>2, NameIn
<1>4. "scheduling" \in FieldNames("rac_scheduler_config_pb_t")
  <2> DEFINE t == rac_scheduler_config_pb_t
  <2>1. Message["rac_scheduler_config_pb_t"] = t  BY DEF Message
  <2>2. 2 \in 1..Len(t) /\ t[2][1] = "scheduling"  BY DEF rac_scheduler_config_pb_t
  <2> HIDE DEF t
  <2> QED BY <2>1, <2>2, NameIn
<1>5. "modulation_type" \in FieldNames("smtc_rac_context_pb_t")
  <2> DEFINE t == smtc_rac_context_pb_t
  <2>1. Message["smtc_rac_context_pb_t"] = t  BY DEF Message
  <2>2. 1 \in 1..Len(t) /\ t[1][1] = "modulation_type"  BY DEF smtc_rac_context_pb_t
  <2> HIDE DEF t
  <2> QED BY <2>1, <2>2, NameIn
<1>6. FieldNames("smtc_rac_data_buffer_setup_pb_t") = {"tx_payload_buffer"}
  BY DEF Message, smtc_rac_data_buffer_setup_pb_t, FieldNames
<1>7. FieldNames("smtc_rac_cad_context_pb_t") = CadNames
  <2> DEFINE t == smtc_rac_cad_context_pb_t
  <2>1. Message["smtc_rac_cad_context_pb_t"] = t  BY DEF Message
  <2>2. /\ Len(t) = 8 /\ t[1][1] = "cad_enabled" /\ t[2][1] = "cad_symb_nb"
        /\ t[3][1] = "cad_exit_mode" /\ t[4][1] = "cad_timeout_in_ms" /\ t[5][1] = "sf"
        /\ t[6][1] = "bw" /\ t[7][1] = "rf_freq_in_hz" /\ t[8][1] = "invert_iq_is_on"
    BY DEF smtc_rac_cad_context_pb_t
  <2> HIDE DEF t
  <2>3. \A k \in 1..8 : k = 1 \/ k = 2 \/ k = 3 \/ k = 4 \/ k = 5 \/ k = 6 \/ k = 7 \/ k = 8
    OBVIOUS
  <2>4. \A k \in 1..Len(t) : t[k][1] \in CadNames  BY <2>2, <2>3 DEF CadNames
  <2>5. \A x \in CadNames : \E k \in 1..Len(t) : t[k][1] = x  BY <2>2 DEF CadNames
  <2> QED BY <2>1, <2>4, <2>5 DEF FieldNames
<1> QED BY <1>1, <1>2, <1>3, <1>4, <1>5, <1>6, <1>7

\* Structures stay structures
LEMMA ChangedStruct ==
  ASSUME NEW N, NEW f, IsStruct(f, N), NEW a
  PROVE  IsStruct(Changed(f, a), N)
BY DEF IsStruct, Changed

\* The context of a detection of activity, converted to a message
LEMMA CadTo ==
  ASSUME NEW cad, NEW pb, IsStruct(pb, CadNames), NEW e, e = rac_convert_cad_context_to_pb(cad,
      pb)
  PROVE  /\ IsStruct(e, CadNames)
         /\ e["cad_timeout_in_ms"] = cad["cad_timeout_in_ms"]
         /\ e["cad_exit_mode"] = ToPb(CadExitMode, "CAD_ONLY", cad["cad_exit_mode"])
         /\ e["cad_symb_nb"] = ToPb(CadSymbs, "01_SYMB", cad["cad_symb_nb"])
         /\ e["sf"] = convert_native_sf_to_pb(cad["sf"])
         /\ e["bw"] = convert_native_bw_to_pb(cad["bw"])
         /\ e["rf_freq_in_hz"] = cad["rf_freq_in_hz"]
         /\ e["invert_iq_is_on"] = cad["invert_iq_is_on"]
BY DEF IsStruct, CadNames, rac_convert_cad_context_to_pb

\* The paths of the structures, which are all different
LEMMA StructPaths ==
  /\ Append(Config, "radio_params") = RadioAt[1] /\ Append(RadioAt[1], "rttof") = RttofAt[1]
  /\ Append(Config, "lbt_context") = LbtAt[1] /\ Append(Config, "cw_context") = CwAt[1]
  /\ Append(Config, "cad_context") = CadAt[1]
  /\ Append(Config, "smtc_rac_data_buffer_setup") = SetupAt[1]
  /\ Append(Config, "scheduler_config") = ScheduleAt[1]
  /\ ConfigAt[1] = Config /\ RadioAt[1] = <<"rac_config", "radio_params">>
  /\ Append(Config, "modulation_type") = <<"rac_config", "modulation_type">>
<1>1. \A name : Append(Config, name) = <<"rac_config", name>>  BY AppendTwo DEF Config
<1>2. Append(<<"rac_config", "radio_params">>, "rttof")
        = <<"rac_config", "radio_params", "rttof">>
  BY AppendThree
<1> QED
  BY <1>1, <1>2 DEF RadioAt, RttofAt, LbtAt, CwAt, CadAt, SetupAt, SetupPath, ScheduleAt, ConfigAt

\* No two of them are the same
LEMMA StructsApart ==
  /\ RttofAt[1] # RadioAt[1]
  /\ LbtAt[1] \notin {RadioAt[1], RttofAt[1]}
  /\ CwAt[1] \notin {RadioAt[1], RttofAt[1], LbtAt[1]}
  /\ CadAt[1] \notin {RadioAt[1], RttofAt[1], LbtAt[1], CwAt[1]}
  /\ SetupAt[1] \notin {RadioAt[1], RttofAt[1], LbtAt[1], CwAt[1], CadAt[1]}
  /\ ScheduleAt[1] \notin {RadioAt[1], RttofAt[1], LbtAt[1], CwAt[1], CadAt[1], SetupAt[1]}
  /\ Config \notin {RadioAt[1], RttofAt[1], LbtAt[1], CwAt[1], CadAt[1], SetupAt[1],
                    ScheduleAt[1]}
BY DEF RadioAt, RttofAt, LbtAt, CwAt, CadAt, SetupAt, SetupPath, ScheduleAt, Config

\* A request holds the converted parts of its context
LEMMA RequestParts ==
  ASSUME NEW c, IsContext(c)
  PROVE  /\ At(RequestOf(c), RadioAt[1]) = rac_convert_radio_params_to_pb(c.radio_params)
         /\ At(RequestOf(c), RttofAt[1]) = rac_convert_rttof_to_pb(c.radio_params["rttof"])
         /\ At(RequestOf(c), LbtAt[1]) = rac_convert_lbt_context_to_pb(c.lbt_context)
         /\ At(RequestOf(c), CwAt[1]) = c.cw_context
         /\ \E pb : /\ IsStruct(pb, CadNames)
                    /\ At(RequestOf(c), CadAt[1])
                         = rac_convert_cad_context_to_pb(c.cad_context, pb)
         /\ At(RequestOf(c), SetupAt[1]) = [tx_payload_buffer |-> c.tx_payload_buffer]
         /\ At(RequestOf(c), ScheduleAt[1])
              = rac_convert_scheduler_config_to_pb(c.scheduler_config)
         /\ RequestOf(c)[<<"rac_config", "modulation_type">>]
              = rac_convert_modulation_type_to_pb(c.modulation_type)
<1> DEFINE T == Request
           params == <<"rac_config", "radio_params">>
           rttof == Append(params, "rttof")
           lbt == Append(Config, "lbt_context")
           cw == Append(Config, "cw_context")
           cad == Append(Config, "cad_context")
           setup == Append(Config, "smtc_rac_data_buffer_setup")
           scheduler == Append(Config, "scheduler_config")
           p == <<"rac_config", "modulation_type">>
           d == Present(Defaults[Request])
           modulation == rac_convert_modulation_type_to_pb(c.modulation_type)
           x0 == [modulation_type |-> modulation]
           m0 == Place(d, Config, x0)
           x1 == rac_convert_radio_params_to_pb(c.radio_params)
           m1 == Place(m0, params, x1)
           x2 == rac_convert_rttof_to_pb(c.radio_params["rttof"])
           m2 == Place(m1, rttof, x2)
           x3 == rac_convert_lbt_context_to_pb(c.lbt_context)
           m3 == Place(m2, lbt, x3)
           x4 == rac_convert_cw_context_to_pb(c.cw_context)
           m4 == Place(m3, cw, x4)
           pb == At(m4, cad)
           x5 == rac_convert_cad_context_to_pb(c.cad_context, pb)
           m5 == Place(m4, cad, x5)
           x6 == [tx_payload_buffer |-> c.tx_payload_buffer]
           m6 == Place(m5, setup, x6)
           x7 == rac_convert_scheduler_config_to_pb(c.scheduler_config)
           m7 == Place(m6, scheduler, x7)
<1>1. RequestOf(c) = m7  BY Zenon DEF RequestOf
<1>2. DOMAIN d = PathsOf(T) /\ T \in DOMAIN MaxSize  BY ContextStructs, DefaultsOf DEF Present
<1>3. /\ params = RadioAt[1] /\ rttof = RttofAt[1] /\ lbt = LbtAt[1] /\ cw = CwAt[1]
      /\ cad = CadAt[1] /\ setup = SetupAt[1] /\ scheduler = ScheduleAt[1]
  BY StructPaths, Zenon
<1>4. /\ RadioAt[2] = "rac_radio_lora_params_pb_t" /\ RttofAt[2] = "rttof_params_pb_t"
      /\ LbtAt[2] = "smtc_rac_lbt_context_pb_t" /\ CwAt[2] = "smtc_rac_cw_context_pb_t"
      /\ CadAt[2] = "smtc_rac_cad_context_pb_t"
      /\ SetupAt[2] = "smtc_rac_data_buffer_setup_pb_t"
      /\ ScheduleAt[2] = "rac_scheduler_config_pb_t"
      /\ ConfigAt[2] = "smtc_rac_context_pb_t" /\ ConfigAt[1] = Config
  BY DEF RadioAt, RttofAt, LbtAt, CwAt, CadAt, SetupAt, ScheduleAt, ConfigAt
<1>5. /\ IsStruct(x1, FieldNames(RadioAt[2])) /\ IsStruct(x2, FieldNames(RttofAt[2]))
      /\ IsStruct(x3, FieldNames(LbtAt[2])) /\ IsStruct(x4, FieldNames(CwAt[2]))
      /\ IsStruct(x6, FieldNames(SetupAt[2])) /\ IsStruct(x7, FieldNames(ScheduleAt[2]))
  <2>1. /\ IsStruct(c.radio_params, FieldNames(RadioAt[2]))
        /\ IsStruct(c.radio_params["rttof"], FieldNames(RttofAt[2]))
        /\ IsStruct(c.lbt_context, FieldNames(LbtAt[2]))
        /\ IsStruct(c.cw_context, FieldNames(CwAt[2]))
        /\ IsStruct(c.scheduler_config, FieldNames(ScheduleAt[2]))
    BY <1>4, Zenon DEF IsContext
  <2>2. IsStruct(x1, FieldNames(RadioAt[2]))
    BY <2>1, ChangedStruct, Zenon DEF rac_convert_radio_params_to_pb
  <2>3. IsStruct(x2, FieldNames(RttofAt[2]))
    BY <2>1, ChangedStruct, Zenon DEF rac_convert_rttof_to_pb
  <2>4. IsStruct(x3, FieldNames(LbtAt[2]))
    BY <2>1, ChangedStruct, Zenon DEF rac_convert_lbt_context_to_pb
  <2>5. IsStruct(x4, FieldNames(CwAt[2]))  BY <2>1, Zenon DEF rac_convert_cw_context_to_pb
  <2>6. IsStruct(x7, FieldNames(ScheduleAt[2]))
    BY <2>1, ChangedStruct, Zenon DEF rac_convert_scheduler_config_to_pb
  <2>7. IsStruct(x6, FieldNames(SetupAt[2]))  BY <1>4, NamesInRequest DEF IsStruct
  <2> QED BY <2>2, <2>3, <2>4, <2>5, <2>6, <2>7, Zenon
<1>6. /\ RadioAt \in Nested(T) /\ RttofAt \in Nested(T) /\ LbtAt \in Nested(T)
      /\ CwAt \in Nested(T) /\ CadAt \in Nested(T) /\ SetupAt \in Nested(T)
      /\ ScheduleAt \in Nested(T) /\ ConfigAt \in Nested(T)
  BY ContextStructs
<1>7. p \in DOMAIN d /\ p # <<>> /\ Front(p) = Config /\ Last(p) = "modulation_type"
  <2>1. p = Append(ConfigAt[1], "modulation_type")  BY <1>4, StructPaths, Zenon
  <2>2. "modulation_type" \in FieldNames(ConfigAt[2])  BY <1>4, NamesInRequest
  <2> HIDE DEF p
  <2> QED BY <1>2, <1>4, <1>6, <2>1, <2>2, StructPath
<1>8. "modulation_type" \in DOMAIN x0 /\ x0["modulation_type"] = modulation  OBVIOUS
<1>a. x4 = c.cw_context  BY DEF rac_convert_cw_context_to_pb
<1> HIDE DEF x0, x1, x2, x3, x4, x5, x6, x7, d, params, rttof, lbt, cw, cad, setup, scheduler, p,
    T, modulation
<1>9. /\ IsPlaced(m0, d, Config, x0) /\ IsPlaced(m1, m0, RadioAt[1], x1)
      /\ IsPlaced(m2, m1, RttofAt[1], x2) /\ IsPlaced(m3, m2, LbtAt[1], x3)
      /\ IsPlaced(m4, m3, CwAt[1], x4) /\ IsPlaced(m5, m4, CadAt[1], x5)
      /\ IsPlaced(m6, m5, SetupAt[1], x6) /\ IsPlaced(m7, m6, ScheduleAt[1], x7)
  BY <1>3, Zenon DEF IsPlaced
<1> HIDE DEF m0, m1, m2, m3, m4, m5, m6, m7
<1>10. /\ DOMAIN m0 = PathsOf(T) /\ DOMAIN m1 = PathsOf(T) /\ DOMAIN m2 = PathsOf(T)
       /\ DOMAIN m3 = PathsOf(T) /\ DOMAIN m4 = PathsOf(T) /\ DOMAIN m5 = PathsOf(T)
       /\ DOMAIN m6 = PathsOf(T) /\ DOMAIN m7 = PathsOf(T)
  BY <1>2, <1>9, PlacedDomain
<1>11. \A s \in Nested(T) : RttofAt[1] # s[1] => At(m2, s[1]) = At(m1, s[1])
  BY <1>2, <1>9, <1>10, LeftAt
<1>12. \A s \in Nested(T) : LbtAt[1] # s[1] => At(m3, s[1]) = At(m2, s[1])
  BY <1>2, <1>9, <1>10, LeftAt
<1>13. \A s \in Nested(T) : CwAt[1] # s[1] => At(m4, s[1]) = At(m3, s[1])
  BY <1>2, <1>9, <1>10, LeftAt
<1>14. \A s \in Nested(T) : CadAt[1] # s[1] => At(m5, s[1]) = At(m4, s[1])
  BY <1>2, <1>9, <1>10, LeftAt
<1>15. \A s \in Nested(T) : SetupAt[1] # s[1] => At(m6, s[1]) = At(m5, s[1])
  BY <1>2, <1>9, <1>10, LeftAt
<1>16. \A s \in Nested(T) : ScheduleAt[1] # s[1] => At(m7, s[1]) = At(m6, s[1])
  BY <1>2, <1>9, <1>10, LeftAt
<1>17. At(m7, ScheduleAt[1]) = x7  BY <1>2, <1>5, <1>6, <1>9, <1>10, PlacedAt
<1>18. At(m7, SetupAt[1]) = x6
  BY <1>2, <1>5, <1>6, <1>9, <1>10, PlacedAt, <1>16, StructsApart, SMTT(30)
<1>19. IsStruct(pb, CadNames) /\ At(m7, CadAt[1]) = x5
  <2>1. At(m4, CadAt[1]) = [name \in FieldNames(CadAt[2]) |-> m4[Append(CadAt[1], name)]]
    BY <1>2, <1>6, <1>10, AtStruct
  <2>2. FieldNames(CadAt[2]) = CadNames  BY <1>4, NamesInRequest
  <2>3. IsStruct(pb, CadNames)  BY <1>3, <2>1, <2>2 DEF IsStruct
  <2>4. IsStruct(x5, FieldNames(CadAt[2]))  BY <2>2, <2>3, CadTo DEF x5
  <2>a. /\ T \in DOMAIN MaxSize /\ CadAt \in Nested(T) /\ DOMAIN m4 = PathsOf(T)
        /\ IsPlaced(m5, m4, CadAt[1], x5)
    BY <1>2, <1>6, <1>9, <1>10
  <2> HIDE DEF pb
  <2>5. At(m5, CadAt[1]) = x5  BY <2>4, <2>a, PlacedAt
  <2> QED BY <1>6, <1>15, <1>16, <2>3, <2>5, StructsApart
<1>20. At(m7, CwAt[1]) = x4
  <2>1. At(m4, CwAt[1]) = x4  BY <1>2, <1>5, <1>6, <1>9, <1>10, PlacedAt
  <2> QED BY <1>6, <1>14, <1>15, <1>16, <2>1, StructsApart
<1>21. At(m7, LbtAt[1]) = x3
  <2>1. At(m3, LbtAt[1]) = x3  BY <1>2, <1>5, <1>6, <1>9, <1>10, PlacedAt, SMTT(30)
  <2> QED BY <1>6, <1>13, <1>14, <1>15, <1>16, <2>1, StructsApart
<1>22. At(m7, RttofAt[1]) = x2
  <2>1. At(m2, RttofAt[1]) = x2  BY <1>2, <1>5, <1>6, <1>9, <1>10, PlacedAt
  <2> QED BY <1>6, <1>12, <1>13, <1>14, <1>15, <1>16, <2>1, StructsApart
<1>23. At(m7, RadioAt[1]) = x1
  <2>a. /\ T \in DOMAIN MaxSize /\ RadioAt \in Nested(T) /\ DOMAIN m0 = PathsOf(T)
        /\ IsPlaced(m1, m0, RadioAt[1], x1) /\ IsStruct(x1, FieldNames(RadioAt[2]))
    BY <1>2, <1>5, <1>6, <1>9, <1>10
  <2>1. At(m1, RadioAt[1]) = x1  BY <2>a, PlacedAt
  <2> QED BY <1>6, <1>11, <1>12, <1>13, <1>14, <1>15, <1>16, <2>1, StructsApart
<1>24. m7[p] = modulation  BY <1>7, <1>8, <1>9, PlaceSets, PlaceLeaves, StructsApart
<1> HIDE DEF pb
<1>25. \E b : IsStruct(b, CadNames) /\ At(m7,
    CadAt[1]) = rac_convert_cad_context_to_pb(c.cad_context, b)
  BY <1>19, Zenon DEF x5
<1> QED
  BY <1>1, <1>a, <1>17, <1>18, <1>20, <1>21, <1>22, <1>23, <1>24, <1>25, Zenon
     DEF x1, x2, x3, x6, x7, p, modulation

\* A number of 16 bits that is extended to 32 and cut again
LEMMA ExtendBack ==
  ASSUME NEW v \in SUBSET (0..15)
  PROVE  Cast(Extend16(v), 16) = v
<1>1. ASSUME NEW b \in v PROVE b \in Extend16(v) /\ b \in 0..15  BY DEF Extend16
<1>2. ASSUME NEW b \in Extend16(v), b \in 0..15 PROVE b \in v  BY <1>2 DEF Extend16
<1>3. Cast(Extend16(v), 16) = Extend16(v) \cap (0..15)  BY DEF Cast
<1> QED BY <1>1, <1>2, <1>3

\* The ranging parameters of a transaction come back
LEMMA RttofBack ==
  ASSUME NEW rttof, IsStruct(rttof, FieldNames("rttof_params_pb_t")),
         rttof["bw_ranging"] \in ToSet(LoraBw)
  PROVE  rac_convert_rttof_from_pb(rac_convert_rttof_to_pb(rttof)) = rttof
<1> DEFINE v == convert_native_bw_to_pb(rttof["bw_ranging"])
           a == [bw_ranging |-> v]
           g == Changed(rttof, a)
           x == convert_pb_bw_to_native(g["bw_ranging"])
           b == [bw_ranging |-> x]
<1>1. "bw_ranging" \in FieldNames("rttof_params_pb_t")  BY NamesInRequest
<1>2. DOMAIN rttof = FieldNames("rttof_params_pb_t")  BY DEF IsStruct
<1>3. g["bw_ranging"] = v  BY <1>1, <1>2 DEF Changed
<1>4. x = rttof["bw_ranging"]  BY <1>3, EnumsBack
<1>5. rac_convert_rttof_from_pb(rac_convert_rttof_to_pb(rttof)) = Changed(g, b)
  BY Zenon DEF rac_convert_rttof_from_pb, rac_convert_rttof_to_pb
<1> HIDE DEF v, x
<1>6. DOMAIN a \subseteq DOMAIN b /\ \A y \in DOMAIN b : b[y] = rttof[y]  BY <1>4
<1> HIDE DEF a, b
<1>7. Changed(g, b) = rttof  BY <1>6, ChangedBack
<1> QED BY <1>5, <1>7

\* and so do those of the radio
LEMMA RadioBack ==
  ASSUME NEW radio, IsStruct(radio, FieldNames("rac_radio_lora_params_pb_t")),
         radio["tx_power_in_dbm"] \subseteq 0..7, radio["symb_nb_timeout"] \subseteq 0..7,
         radio["sf"] \in ToSet(LoraSf), radio["bw"] \in ToSet(LoraBw),
         radio["cr"] \in ToSet(LoraCr), radio["header_type"] \in ToSet(HeaderType),
         radio["sync_word"] \in ToSet(Syncword),
         IsStruct(radio["rttof"], FieldNames("rttof_params_pb_t")),
         radio["rttof"]["bw_ranging"] \in ToSet(LoraBw)
  PROVE  rac_convert_radio_params_from_pb(rac_convert_radio_params_to_pb(radio),
                                          rac_convert_rttof_to_pb(radio["rttof"])) = radio
<1> DEFINE v1 == convert_native_sf_to_pb(radio["sf"])
           v2 == convert_native_bw_to_pb(radio["bw"])
           v3 == convert_native_cr_to_pb(radio["cr"])
           v4 == convert_native_header_type_to_pb(radio["header_type"])
           v5 == convert_native_sync_word_to_pb(radio["sync_word"])
           flag == {0}
           a == [rttof |-> flag, sf |-> v1, bw |-> v2, cr |-> v3, header_type |-> v4,
                 sync_word |-> v5]
           g == Changed(radio, a)
           x1 == Cast(g["tx_power_in_dbm"], 8)
           x2 == Cast(g["symb_nb_timeout"], 8)
           x3 == rac_convert_rttof_from_pb(rac_convert_rttof_to_pb(radio["rttof"]))
           x4 == convert_pb_sf_to_native(g["sf"])
           x5 == convert_pb_bw_to_native(g["bw"])
           x6 == convert_pb_cr_to_native(g["cr"])
           x7 == convert_pb_header_type_to_native(g["header_type"])
           x8 == convert_pb_sync_word_to_native(g["sync_word"])
           b == [tx_power_in_dbm |-> x1, symb_nb_timeout |-> x2, rttof |-> x3, sf |-> x4,
                 bw |-> x5, cr |-> x6, header_type |-> x7, sync_word |-> x8]
<1>1. rac_convert_radio_params_from_pb(rac_convert_radio_params_to_pb(radio),
                                       rac_convert_rttof_to_pb(radio["rttof"])) = Changed(g, b)
  BY Zenon DEF rac_convert_radio_params_from_pb, rac_convert_radio_params_to_pb
<1>2. RadioNames \subseteq DOMAIN radio  BY NamesInRequest DEF IsStruct
<1>3. x3 = radio["rttof"]  BY RttofBack
<1> HIDE DEF v1, v2, v3, v4, v5, flag, x3
<1>4. /\ g["tx_power_in_dbm"] = radio["tx_power_in_dbm"]
      /\ g["symb_nb_timeout"] = radio["symb_nb_timeout"]
      /\ g["sf"] = v1 /\ g["bw"] = v2 /\ g["cr"] = v3 /\ g["header_type"] = v4
      /\ g["sync_word"] = v5
  BY <1>2 DEF Changed, RadioNames
<1> HIDE DEF g
<1>5. x1 = radio["tx_power_in_dbm"] /\ x2 = radio["symb_nb_timeout"]  BY <1>4 DEF Cast
<1>6. /\ x4 = radio["sf"] /\ x5 = radio["bw"] /\ x6 = radio["cr"]
      /\ x7 = radio["header_type"] /\ x8 = radio["sync_word"]
  BY <1>4, EnumsBack DEF v1, v2, v3, v4, v5
<1> HIDE DEF x1, x2, x4, x5, x6, x7, x8
<1>7. DOMAIN a \subseteq DOMAIN b  OBVIOUS
<1>8. \A y \in DOMAIN b : b[y] = radio[y]  BY <1>3, <1>5, <1>6
<1> HIDE DEF a, b
<1>9. Changed(Changed(radio, a), b) = radio  BY <1>7, <1>8, ChangedBack
<1> QED BY <1>1, <1>9 DEF g

\* the listening before it talks
LEMMA LbtBack ==
  ASSUME NEW lbt, IsStruct(lbt, FieldNames("smtc_rac_lbt_context_pb_t")),
         lbt["threshold_dbm"] \subseteq 0..15, lbt["rssi_inst_dbm"] \subseteq 0..15
  PROVE  rac_convert_lbt_context_from_pb(rac_convert_lbt_context_to_pb(lbt)) = lbt
<1> DEFINE v1 == Extend16(lbt["threshold_dbm"])
           v2 == Extend16(lbt["rssi_inst_dbm"])
           a == [threshold_dbm |-> v1, rssi_inst_dbm |-> v2]
           g == Changed(lbt, a)
           x1 == Cast(g["threshold_dbm"], 16)
           x2 == Cast(g["rssi_inst_dbm"], 16)
           b == [threshold_dbm |-> x1, rssi_inst_dbm |-> x2]
<1>1. rac_convert_lbt_context_from_pb(rac_convert_lbt_context_to_pb(lbt)) = Changed(g, b)
  BY Zenon DEF rac_convert_lbt_context_from_pb, rac_convert_lbt_context_to_pb
<1>2. {"threshold_dbm", "rssi_inst_dbm"} \subseteq DOMAIN lbt  BY NamesInRequest DEF IsStruct
<1> HIDE DEF v1, v2
<1>3. g["threshold_dbm"] = v1 /\ g["rssi_inst_dbm"] = v2  BY <1>2 DEF Changed
<1> HIDE DEF g
<1>4. x1 = lbt["threshold_dbm"] /\ x2 = lbt["rssi_inst_dbm"]  BY <1>3, ExtendBack DEF v1, v2
<1> HIDE DEF x1, x2
<1>5. DOMAIN a \subseteq DOMAIN b /\ \A y \in DOMAIN b : b[y] = lbt[y]  BY <1>4
<1> HIDE DEF a, b
<1>6. Changed(Changed(lbt, a), b) = lbt  BY <1>5, ChangedBack
<1> QED BY <1>1, <1>6 DEF g

\* and its schedule
LEMMA ScheduleBack ==
  ASSUME NEW schedule, IsStruct(schedule, FieldNames("rac_scheduler_config_pb_t")),
         schedule["scheduling"] \in ToSet(Scheduling)
  PROVE  rac_convert_scheduler_config_from_pb(rac_convert_scheduler_config_to_pb(schedule))
           = schedule
<1> DEFINE v == rac_convert_scheduling_to_pb(schedule["scheduling"])
           a == [scheduling |-> v]
           g == Changed(schedule, a)
           x == rac_convert_scheduling_from_pb(g["scheduling"])
           b == [scheduling |-> x]
<1>1. "scheduling" \in FieldNames("rac_scheduler_config_pb_t")  BY NamesInRequest
<1>2. DOMAIN schedule = FieldNames("rac_scheduler_config_pb_t")  BY DEF IsStruct
<1>3. g["scheduling"] = v  BY <1>1, <1>2 DEF Changed
<1>4. x = schedule["scheduling"]  BY <1>3, EnumsBack
<1>5. rac_convert_scheduler_config_from_pb(rac_convert_scheduler_config_to_pb(schedule))
        = Changed(g, b)
  BY Zenon DEF rac_convert_scheduler_config_from_pb, rac_convert_scheduler_config_to_pb
<1> HIDE DEF v, x
<1>6. DOMAIN a \subseteq DOMAIN b /\ \A y \in DOMAIN b : b[y] = schedule[y]  BY <1>4
<1> HIDE DEF a, b
<1>7. Changed(g, b) = schedule  BY <1>6, ChangedBack
<1> QED BY <1>5, <1>7

\* The detection of activity comes back but for whether it is enabled
LEMMA CadBack ==
  ASSUME NEW cad, IsStruct(cad, CadNames), NEW pb, IsStruct(pb, CadNames),
         NEW native0, IsStruct(native0, CadNames),
         cad["cad_exit_mode"] \in ToSet(CadExitMode), cad["cad_symb_nb"] \in ToSet(CadSymbs),
         cad["sf"] \in ToSet(LoraSf), cad["bw"] \in ToSet(LoraBw)
  PROVE  LET r == rac_convert_cad_context_from_pb(rac_convert_cad_context_to_pb(cad, pb), native0)
         IN  r.ok /\ r.val = [cad EXCEPT !["cad_enabled"] = native0["cad_enabled"]]
<1> DEFINE e == rac_convert_cad_context_to_pb(cad, pb)
           r == rac_convert_cad_context_from_pb(e, native0)
           exit == FromPb(CadExitMode, "unknown", e["cad_exit_mode"])
           symb == FromPb(CadSymbs, "unknown", e["cad_symb_nb"])
           sf == convert_pb_sf_to_native(e["sf"])
           bw == convert_pb_bw_to_native(e["bw"])
           timed == [native0 EXCEPT !["cad_timeout_in_ms"] = e["cad_timeout_in_ms"]]
           exited == [timed EXCEPT !["cad_exit_mode"] = exit]
           last == [exited EXCEPT !["cad_symb_nb"] = symb, !["sf"] = sf, !["bw"] = bw,
                                  !["rf_freq_in_hz"] = e["rf_freq_in_hz"],
                                  !["invert_iq_is_on"] = e["invert_iq_is_on"]]
<1>1. /\ e["cad_timeout_in_ms"] = cad["cad_timeout_in_ms"]
      /\ e["cad_exit_mode"] = ToPb(CadExitMode, "CAD_ONLY", cad["cad_exit_mode"])
      /\ e["cad_symb_nb"] = ToPb(CadSymbs, "01_SYMB", cad["cad_symb_nb"])
      /\ e["sf"] = convert_native_sf_to_pb(cad["sf"])
      /\ e["bw"] = convert_native_bw_to_pb(cad["bw"])
      /\ e["rf_freq_in_hz"] = cad["rf_freq_in_hz"]
      /\ e["invert_iq_is_on"] = cad["invert_iq_is_on"]
  BY CadTo
<1>2. r = IF exit = "unknown" THEN [ok |-> FALSE, val |-> timed]
          ELSE IF symb = "unknown" THEN [ok |-> FALSE, val |-> exited]
          ELSE [ok |-> TRUE, val |-> last]
  BY Zenon DEF rac_convert_cad_context_from_pb
<1> HIDE DEF e
<1>3. exit = cad["cad_exit_mode"] /\ exit # "unknown"  BY <1>1, EnumsBack
<1>4. symb = cad["cad_symb_nb"] /\ symb # "unknown"  BY <1>1, EnumsBack
<1>5. sf = cad["sf"] /\ bw = cad["bw"]  BY <1>1, EnumsBack
<1> HIDE DEF exit, symb, sf, bw
<1>6. last = [cad EXCEPT !["cad_enabled"] = native0["cad_enabled"]]
  BY <1>1, <1>3, <1>4, <1>5 DEF IsStruct, CadNames
<1> HIDE DEF last
<1>7. r.ok /\ r.val = last  BY <1>2, <1>3, <1>4
<1> HIDE DEF r
<1> QED BY <1>6, <1>7, Zenon DEF r, e

\* A payload that is copied is the head of the buffer
LEMMA HeadOfBuffer ==
  ASSUME NEW S, NEW sent \in Seq(S), NEW rest \in Seq(S)
  PROVE  IsPrefix(sent, sent \o rest)
<1> DEFINE both == sent \o rest
<1>1. /\ both \in Seq(S) /\ Len(both) = Len(sent) + Len(rest)
      /\ \A i \in 1..Len(sent) : both[i] = sent[i]
  OBVIOUS
<1>2. Len(sent) \in Nat /\ Len(rest) \in Nat  OBVIOUS
<1> HIDE DEF both
<1>3. Len(sent) <= Len(both) /\ \A i \in 1..Len(sent) : sent[i] = both[i]  BY <1>1, <1>2
<1>4. IsPrefix(sent, both)  BY <1>1, <1>3, PrefixMeans
<1> QED BY <1>4 DEF both

\* The payload of a request is what the transaction sends
LEMMA SetupBack ==
  ASSUME NEW sent \in Seq(Byte), NEW buffer \in Seq(Byte), Len(sent) <= 255,
         Len(sent) <= Len(buffer)
  PROVE  LET r == rac_convert_data_buffer_setup_from_pb([tx_payload_buffer |-> sent], buffer)
         IN  r.ok /\ IsPrefix(sent, r.val)
<1> DEFINE pb == [tx_payload_buffer |-> sent]
           rest == Drop(buffer, Len(sent))
           r == rac_convert_data_buffer_setup_from_pb(pb, buffer)
<1>1. pb["tx_payload_buffer"] = sent  OBVIOUS
<1> HIDE DEF pb
<1>2. r = IF Len(sent) > 255 THEN [ok |-> FALSE, val |-> buffer]
          ELSE [ok |-> TRUE, val |-> sent \o rest]
  BY <1>1, Zenon DEF rac_convert_data_buffer_setup_from_pb
<1>3. ~(Len(sent) > 255)  OBVIOUS
<1>4. r = [ok |-> TRUE, val |-> sent \o rest]  BY <1>2, <1>3, Zenon
<1>5. rest \in Seq(Byte)  BY DropProperties
<1> HIDE DEF rest
<1>6. IsPrefix(sent, sent \o rest)  BY <1>5, HeadOfBuffer
<1> HIDE DEF r
<1>7. r.ok /\ r.val = sent \o rest  BY <1>4
<1>8. r.ok /\ IsPrefix(sent, r.val)  BY <1>6, <1>7, Zenon
<1> QED BY <1>8, Zenon DEF r, pb

\* The parts of a transaction that a conversion has set
LEMMA FirstValues ==
  ASSUME NEW c, DOMAIN c = NativeNames, NEW v1, NEW v2, NEW v3, NEW v4, NEW e,
         FirstSet(e, c, v1, v2, v3, v4)
  PROVE  e.radio_params = v2 /\ e.lbt_context = v3 /\ e.cw_context = v4
BY DEF NativeNames, FirstSet

\* that of a detection of activity
LEMMA CadValue ==
  ASSUME NEW c, DOMAIN c = NativeNames, NEW v, NEW e, e = [c EXCEPT !.cad_context = v]
  PROVE  /\ e.cad_context = v
         /\ e.radio_params = c.radio_params /\ e.lbt_context = c.lbt_context
         /\ e.cw_context = c.cw_context
BY DEF NativeNames

\* and the last ones
LEMMA LastValues ==
  ASSUME NEW c, DOMAIN c = NativeNames, NEW v1, NEW v2, NEW v3, NEW e,
         LastSet(e, c, v1, v2, v3)
  PROVE  /\ e.tx_payload_buffer = v1 /\ e.scheduler_config = v3
         /\ e.cad_context = c.cad_context /\ e.radio_params = c.radio_params
         /\ e.lbt_context = c.lbt_context /\ e.cw_context = c.cw_context
BY DEF NativeNames, LastSet

\* What a host asks for is what the transaction runs with
LEMMA ContextBack ==
  ASSUME NEW c, IsContext(c), NEW r \in rac_convert_context_from_pb(RequestOf(c), Config, Native)
  PROVE  /\ r.ok
         /\ r.val.radio_params = c.radio_params
         /\ r.val.lbt_context = c.lbt_context
         /\ r.val.cw_context = c.cw_context
         /\ r.val.cad_context = [c.cad_context EXCEPT
                                   !["cad_enabled"] = Native.cad_context["cad_enabled"]]
         /\ r.val.scheduler_config = c.scheduler_config
         /\ IsPrefix(c.tx_payload_buffer, r.val.tx_payload_buffer)
<1> DEFINE d == RequestOf(c)
           Part(name) == At(d, Append(Config, name))
           params == Append(Config, "radio_params")
           modulation == d[Append(Config, "modulation_type")]
           v1 == rac_convert_modulation_type_from_pb(modulation)
           v2 == rac_convert_radio_params_from_pb(At(d, params), At(d, Append(params, "rttof")))
           v3 == rac_convert_lbt_context_from_pb(Part("lbt_context"))
           v4 == rac_convert_cw_context_from_pb(Part("cw_context"))
           converted == [Native EXCEPT !.modulation_type = v1, !.radio_params = v2,
                                       !.lbt_context = v3, !.cw_context = v4]
           cad == rac_convert_cad_context_from_pb(Part("cad_context"), Native.cad_context)
           payload == rac_convert_data_buffer_setup_from_pb(
                        Part("smtc_rac_data_buffer_setup"), Native.tx_payload_buffer)
           results == rac_convert_data_result_from_pb(
                        Part("smtc_rac_data_result"),
                        At(d, Config \o <<"smtc_rac_data_result", "ranging_result">>),
                        Native.smtc_rac_data_result)
           half == [converted EXCEPT !.cad_context = cad.val]
           schedule == rac_convert_scheduler_config_from_pb(Part("scheduler_config"))
           LastOf(x) == [half EXCEPT !.tx_payload_buffer = payload.val,
                                     !.smtc_rac_data_result = x,
                                     !.scheduler_config = schedule]
           lora == ToPb(Modulation, "LORA", "LORA")
           cadBack == [c.cad_context EXCEPT !["cad_enabled"] = Native.cad_context["cad_enabled"]]
<1>1. rac_convert_context_from_pb(d, Config, Native)
        = IF modulation # lora THEN {[ok |-> FALSE, val |-> Native]}
          ELSE IF ~cad.ok \/ ~payload.ok THEN {[ok |-> FALSE, val |-> half]}
          ELSE {[ok |-> TRUE, val |-> LastOf(x)] : x \in results}
  BY Zenon DEF rac_convert_context_from_pb
<1>2. DOMAIN Native = NativeNames  BY NativeAssumption DEF NativeNames, IsStruct
<1>3. /\ At(d, params) = rac_convert_radio_params_to_pb(c.radio_params)
      /\ At(d, Append(params, "rttof")) = rac_convert_rttof_to_pb(c.radio_params["rttof"])
      /\ Part("lbt_context") = rac_convert_lbt_context_to_pb(c.lbt_context)
      /\ Part("cw_context") = c.cw_context
      /\ Part("smtc_rac_data_buffer_setup") = [tx_payload_buffer |-> c.tx_payload_buffer]
      /\ Part("scheduler_config") = rac_convert_scheduler_config_to_pb(c.scheduler_config)
      /\ modulation = rac_convert_modulation_type_to_pb(c.modulation_type)
  BY RequestParts, StructPaths, Zenon
<1>4. PICK pb : /\ IsStruct(pb, CadNames)
                /\ Part("cad_context") = rac_convert_cad_context_to_pb(c.cad_context, pb)
  BY RequestParts, StructPaths, Zenon
<1> HIDE DEF d, Part, params
<1>5. modulation = lora  BY <1>3 DEF IsContext, rac_convert_modulation_type_to_pb
<1>6. v2 = c.radio_params  BY RadioBack, <1>3 DEF IsContext
<1>7. v3 = c.lbt_context  BY LbtBack, <1>3 DEF IsContext
<1>8. v4 = c.cw_context  BY <1>3, Zenon DEF rac_convert_cw_context_from_pb
<1>9. schedule = c.scheduler_config  BY ScheduleBack, <1>3 DEF IsContext
<1>10. cad.ok /\ cad.val = cadBack
  <2>1. /\ IsStruct(c.cad_context, CadNames)
        /\ c.cad_context["cad_exit_mode"] \in ToSet(CadExitMode)
        /\ c.cad_context["cad_symb_nb"] \in ToSet(CadSymbs)
        /\ c.cad_context["sf"] \in ToSet(LoraSf) /\ c.cad_context["bw"] \in ToSet(LoraBw)
    BY NamesInRequest, Zenon DEF IsContext
  <2>2. IsStruct(Native.cad_context, CadNames)  BY NamesInRequest, NativeAssumption, Zenon
  <2> DEFINE r1 == rac_convert_cad_context_from_pb(
                     rac_convert_cad_context_to_pb(c.cad_context, pb), Native.cad_context)
  <2>3. r1.ok /\ r1.val = cadBack  BY <1>4, <2>1, <2>2, CadBack
  <2>4. cad = r1  BY <1>4, Zenon
  <2> HIDE DEF r1, cad
  <2> QED BY <2>3, <2>4, Zenon
<1>11. payload.ok /\ IsPrefix(c.tx_payload_buffer, payload.val)
  <2>1. c.tx_payload_buffer \in Seq(Byte) /\ Len(c.tx_payload_buffer) <= 255
    BY Zenon DEF IsContext
  <2>2. Native.tx_payload_buffer \in Seq(Byte) /\ Len(Native.tx_payload_buffer) = 255
    BY NativeAssumption
  <2>3. Len(c.tx_payload_buffer) <= Len(Native.tx_payload_buffer)  BY <2>1, <2>2
  <2> DEFINE r1 == rac_convert_data_buffer_setup_from_pb(
                     [tx_payload_buffer |-> c.tx_payload_buffer], Native.tx_payload_buffer)
  <2>a. Native.tx_payload_buffer \in Seq(Byte)  BY <2>2
  <2>4. r1.ok /\ IsPrefix(c.tx_payload_buffer, r1.val)  BY <2>1, <2>3, <2>a, SetupBack, Zenon
  <2>5. payload = r1  BY <1>3, Zenon
  <2> HIDE DEF r1, payload
  <2> QED BY <2>4, <2>5, Zenon
<1> HIDE DEF v1, v2, v3, v4, payload, results, schedule, cad, lora, modulation, cadBack
<1>a. FirstSet(converted, Native, v1, v2, v3, v4)  BY DEF FirstSet
<1>b. \A x : LastSet(LastOf(x), half, payload.val, x, schedule)  BY Zenon DEF LastSet
<1> HIDE DEF LastOf
<1>12. /\ DOMAIN converted = NativeNames
       /\ converted.radio_params = v2 /\ converted.lbt_context = v3 /\ converted.cw_context = v4
  BY <1>2, <1>a, FirstParts, FirstValues
<1> HIDE DEF converted
<1>13. /\ DOMAIN half = NativeNames /\ half.cad_context = cad.val
       /\ half.radio_params = v2 /\ half.lbt_context = v3 /\ half.cw_context = v4
  BY <1>12, CadPart, CadValue
<1> HIDE DEF half
<1>14. PICK x \in results : r = [ok |-> TRUE, val |-> LastOf(x)]
  BY <1>1, <1>5, <1>10, <1>11 DEF d
<1>15. r.ok /\ r.val = LastOf(x)  BY <1>14
<1>16. /\ LastOf(x).tx_payload_buffer = payload.val /\ LastOf(x).scheduler_config = schedule
       /\ LastOf(x).cad_context = cad.val /\ LastOf(x).radio_params = v2
       /\ LastOf(x).lbt_context = v3 /\ LastOf(x).cw_context = v4
  BY <1>b, <1>13, LastValues
<1> QED BY <1>6, <1>7, <1>8, <1>9, <1>10, <1>11, <1>15, <1>16, Zenon DEF cadBack

\* They are messages inside an answer
LEMMA AnswerStructs ==
  /\ ResultsType \in DOMAIN MaxSize /\ Top(ResultsType) \in Nested(ResultsType)
  /\ ResultsAt \in Nested(ResultsType) /\ RangingAt \in Nested(ResultsType)
  /\ ResultsAt[1] = ResultsOf /\ ResultsAt[2] = "smtc_rac_data_result_pb_t"
  /\ Append(ResultsOf, "ranging_result") = RangingAt[1] /\ RangingAt[2] = "ranging_result_pb_t"
  /\ ResultsOf # <<>> /\ RangingAt[1] # <<>> /\ RangingAt[1] # ResultsOf
<1> DEFINE T == ResultsType
           s0 == <<<<>>, "rac_results_pb_t">>
<1>1. T \in DOMAIN MaxSize /\ Top(T) \in Nested(T)  BY AnswerPlaces
<1>2. s0 \in Nested(T)  BY <1>1 DEF Top, ResultsType
<1>3. ResultsAt \in Nested(T)
  <2>1. Message[s0[2]] = rac_results_pb_t  BY DEF Message
  <2>2. /\ 3 \in 1..Len(rac_results_pb_t)
        /\ rac_results_pb_t[3] = <<"results", "smtc_rac_data_result_pb_t">>
    BY DEF rac_results_pb_t
  <2>3. FieldTo(s0, 3) = ResultsAt  BY <2>1, <2>2 DEF FieldTo, ResultsAt, ResultsOf
  <2>4. IsMessage("smtc_rac_data_result_pb_t")  BY DEF IsMessage, Message
  <2> HIDE DEF s0, T
  <2> QED BY <1>1, <1>2, <2>1, <2>2, <2>3, <2>4, FieldIn
<1>4. RangingAt \in Nested(T)
  <2>1. Message[ResultsAt[2]] = smtc_rac_data_result_pb_t  BY DEF Message, ResultsAt
  <2>2. /\ 6 \in 1..Len(smtc_rac_data_result_pb_t)
        /\ smtc_rac_data_result_pb_t[6] = <<"ranging_result", "ranging_result_pb_t">>
    BY DEF smtc_rac_data_result_pb_t
  <2>3. FieldTo(ResultsAt, 6) = RangingAt
    BY <2>1, <2>2, AppendTwo DEF FieldTo, ResultsAt, RangingAt, ResultsOf
  <2>4. IsMessage("ranging_result_pb_t")  BY DEF IsMessage, Message
  <2> HIDE DEF T
  <2> QED BY <1>1, <1>3, <2>1, <2>2, <2>3, <2>4, FieldIn
<1>5. /\ ResultsAt[1] = ResultsOf /\ ResultsAt[2] = "smtc_rac_data_result_pb_t"
      /\ Append(ResultsOf, "ranging_result") = RangingAt[1]
      /\ RangingAt[2] = "ranging_result_pb_t"
  BY AppendTwo DEF ResultsAt, RangingAt, ResultsOf
<1>6. ResultsOf # <<>> /\ RangingAt[1] # <<>> /\ RangingAt[1] # ResultsOf
  BY DEF RangingAt, ResultsOf
<1> QED BY <1>1, <1>3, <1>4, <1>5, <1>6

\* and have the fields that the converters name
LEMMA NamesInAnswer ==
  /\ {"rx_size", "ranging_result", "rx_payload_buffer"}
       \subseteq FieldNames("smtc_rac_data_result_pb_t")
  /\ "return_code" \in FieldNames(ResultsType)
  /\ FieldNames("ranging_result_pb_t") = RangingNames
<1>1. {"rx_size", "ranging_result", "rx_payload_buffer"}
        \subseteq FieldNames("smtc_rac_data_result_pb_t")
  <2> DEFINE t == smtc_rac_data_result_pb_t
  <2>1. Message["smtc_rac_data_result_pb_t"] = t  BY DEF Message
  <2>2. /\ 1 \in 1..Len(t) /\ t[1][1] = "rx_size" /\ 6 \in 1..Len(t) /\ t[6][1] = "ranging_result"
        /\ 7 \in 1..Len(t) /\ t[7][1] = "rx_payload_buffer"
    BY DEF smtc_rac_data_result_pb_t
  <2> HIDE DEF t
  <2> QED BY <2>1, <2>2, NameIn
<1>2. "return_code" \in FieldNames(ResultsType)
  <2>1. Message[ResultsType] = rac_results_pb_t  BY DEF Message, ResultsType
  <2>2. 2 \in 1..Len(rac_results_pb_t) /\ rac_results_pb_t[2][1] = "return_code"
    BY DEF rac_results_pb_t
  <2> QED BY <2>1, <2>2, NameIn
<1>3. FieldNames("ranging_result_pb_t") = RangingNames
  <2> DEFINE t == ranging_result_pb_t
  <2>1. Message["ranging_result_pb_t"] = t  BY DEF Message
  <2>2. /\ Len(t) = 4 /\ t[1][1] = "valid" /\ t[2][1] = "distance_m" /\ t[3][1] = "rssi"
        /\ t[4][1] = "timestamp"
    BY DEF ranging_result_pb_t
  <2> HIDE DEF t
  <2>3. \A k \in 1..4 : k = 1 \/ k = 2 \/ k = 3 \/ k = 4  OBVIOUS
  <2>4. \A k \in 1..Len(t) : t[k][1] \in RangingNames  BY <2>2, <2>3 DEF RangingNames
  <2>5. \A x \in RangingNames : \E k \in 1..Len(t) : t[k][1] = x  BY <2>2 DEF RangingNames
  <2> QED BY <2>1, <2>4, <2>5 DEF FieldNames
<1> QED BY <1>1, <1>2, <1>3

\* The results of a transaction, converted to a message
LEMMA ResultTo ==
  ASSUME NEW N, {"rx_size", "ranging_result", "rx_payload_buffer"} \subseteq N,
         NEW pb, IsStruct(pb, N), NEW data, NEW buffer, NEW size, Number(size) <= 255,
         NEW x, x = rac_copy_rx_payload_to_result(
                      buffer, size, rac_convert_data_result_to_pb(data, pb)).val
  PROVE  /\ IsStruct(x, N)
         /\ x["rx_payload_buffer"] = SubSeq(buffer, 1, Number(size))
         /\ x["ranging_result"] = pb["ranging_result"]
         /\ \A name \in N \ {"rx_payload_buffer", "ranging_result"} : x[name] = data[name]
<1> DEFINE g == rac_convert_data_result_to_pb(data, pb)
           s == SubSeq(buffer, 1, Number(size))
           V(name) == CASE name = "ranging_result" -> pb[name]
                        [] name = "rx_payload_buffer" -> <<>>
                        [] OTHER -> data[name]
<1>1. DOMAIN pb = N  BY DEF IsStruct
<1>2. g = [name \in DOMAIN pb |-> V(name)]  BY Zenon DEF rac_convert_data_result_to_pb
<1>3. /\ V("ranging_result") = pb["ranging_result"]
      /\ \A name : name # "rx_payload_buffer" /\ name # "ranging_result" => V(name) = data[name]
  OBVIOUS
<1> HIDE DEF V
<1>4. /\ DOMAIN g = N /\ g["ranging_result"] = pb["ranging_result"]
      /\ \A name \in N \ {"rx_payload_buffer", "ranging_result"} : g[name] = data[name]
  BY <1>1, <1>2, <1>3
<1>5. rac_copy_rx_payload_to_result(buffer, size, g)
        = IF Number(size) > 255 THEN [ok |-> FALSE, val |-> g]
          ELSE [ok |-> TRUE, val |-> [g EXCEPT !["rx_payload_buffer"] = s]]
  BY Zenon DEF rac_copy_rx_payload_to_result
<1>6. ~(Number(size) > 255)  BY NumberType
<1>7. x = [g EXCEPT !["rx_payload_buffer"] = s]
  <2>1. rac_copy_rx_payload_to_result(buffer, size, g)
          = [ok |-> TRUE, val |-> [g EXCEPT !["rx_payload_buffer"] = s]]
    BY <1>5, <1>6, Zenon
  <2> HIDE DEF g, s
  <2> QED BY <2>1 DEF g
<1> HIDE DEF g, s
<1>8. /\ IsStruct(x, N) /\ x["rx_payload_buffer"] = s
      /\ x["ranging_result"] = g["ranging_result"]
      /\ \A name \in N \ {"rx_payload_buffer", "ranging_result"} : x[name] = g[name]
  BY <1>4, <1>7 DEF IsStruct
<1> QED BY <1>4, <1>8 DEF s

\* An answer holds the results of its transaction
LEMMA AnswerParts ==
  ASSUME NEW r, IsResult(r)
  PROVE  LET d == ResultsMessageOf(r)
             results == At(d, ResultsOf)
             ranging == At(d, Append(ResultsOf, "ranging_result"))
         IN  /\ results["rx_payload_buffer"]
                  = SubSeq(r.rx_buffer, 1, Number(r.data["rx_size"]))
             /\ \A name \in FieldNames("smtc_rac_data_result_pb_t")
                              \ {"rx_payload_buffer", "ranging_result"} :
                  results[name] = r.data[name]
             /\ r.has_ranging # {} => ranging = ranging_result_to_pb(r.data["ranging_result"])
             /\ d[<<"return_code">>] = rac_convert_return_code_to_pb(r.return_code)
             /\ d[<<"results", "rx_payload_buffer">>] = results["rx_payload_buffer"]
<1> DEFINE T == ResultsType
           N == FieldNames("smtc_rac_data_result_pb_t")
           m0 == Defaults["rac_results_pb_t"]
           at0 == At(m0, ResultsOf)
           pb == [at0 EXCEPT !["ranging_result"] = r.has_ranging]
           size == r.data["rx_size"]
           x2 == rac_copy_rx_payload_to_result(
                   r.rx_buffer, size, rac_convert_data_result_to_pb(r.data, pb)).val
           code == rac_convert_return_code_to_pb(r.return_code)
           x1 == [results |-> {0},
                  transaction_status |-> r.transaction_status,
                  radio_access_id |-> r.radio_access_id,
                  return_code |-> code,
                  rp_status |-> convert_native_rp_status_to_pb(r.rp_status)]
           m1 == Place(m0, <<>>, x1)
           m2 == Place(m1, ResultsOf, x2)
           x3 == ranging_result_to_pb(r.data["ranging_result"])
           q3 == Append(ResultsOf, "ranging_result")
           m3 == Place(m2, q3, x3)
           p == <<"return_code">>
           t == <<"results", "rx_payload_buffer">>
           d == ResultsMessageOf(r)
<1>1. d = IF r.has_ranging = {} THEN m2 ELSE m3  BY Zenon DEF ResultsMessageOf
<1>2. /\ T \in DOMAIN MaxSize /\ Top(T) \in Nested(T) /\ ResultsAt \in Nested(T)
      /\ RangingAt \in Nested(T) /\ ResultsAt[1] = ResultsOf /\ FieldNames(ResultsAt[2]) = N
      /\ q3 = RangingAt[1] /\ FieldNames(RangingAt[2]) = RangingNames
      /\ ResultsOf # <<>> /\ q3 # <<>> /\ q3 # ResultsOf
      /\ Top(T)[1] = <<>> /\ Top(T)[2] = T
  BY AnswerStructs, NamesInAnswer DEF Top
<1>a. /\ T \in DOMAIN MaxSize /\ ResultsAt \in Nested(T) /\ RangingAt \in Nested(T)  BY <1>2
<1>b. \A m : DOMAIN m = PathsOf(T) =>
        At(m, ResultsOf) = [name \in N |-> m[Append(ResultsOf, name)]]
  <2> HIDE DEF T, N
  <2>1. ASSUME NEW m, DOMAIN m = PathsOf(T)
        PROVE  At(m, ResultsAt[1])
                 = [name \in FieldNames(ResultsAt[2]) |-> m[Append(ResultsAt[1], name)]]
    BY <1>a, <2>1, AtStruct
  <2>2. ResultsAt[1] = ResultsOf /\ FieldNames(ResultsAt[2]) = N  BY <1>2
  <2> QED BY <2>1, <2>2
<1>3. DOMAIN m0 = PathsOf(T)
  <2>1. m0 = Defaults[T]  BY DEF ResultsType
  <2> HIDE DEF m0, T
  <2> QED BY <1>2, <2>1, DefaultsOf
<1>4. {"rx_size", "ranging_result", "rx_payload_buffer"} \subseteq N  BY NamesInAnswer
<1>5. IsStruct(pb, N)
  <2> HIDE DEF T, N, m0, q3
  <2>1. at0 = [name \in N |-> m0[Append(ResultsOf, name)]]  BY <1>3, <1>b
  <2> HIDE DEF at0
  <2> QED BY <2>1 DEF IsStruct
<1>6. Number(size) <= 255
  <2>1. /\ Number(size) <= Len(r.rx_buffer) /\ Len(r.rx_buffer) <= 255
        /\ r.rx_buffer \in Seq(Byte)
    BY Zenon DEF IsResult
  <2>2. Number(size) \in Nat /\ Len(r.rx_buffer) \in Nat  BY <2>1, NumberType
  <2> HIDE DEF size
  <2> QED BY <2>1, <2>2
<1>7. /\ IsStruct(x2, N)
      /\ x2["rx_payload_buffer"] = SubSeq(r.rx_buffer, 1, Number(size))
      /\ \A name \in N \ {"rx_payload_buffer", "ranging_result"} : x2[name] = r.data[name]
  <2> HIDE DEF N, pb, size
  <2> QED BY <1>4, <1>5, <1>6, ResultTo
<1>8. IsStruct(x3, RangingNames)  BY DEF IsStruct, RangingNames, ranging_result_to_pb
<1>9. x1["return_code"] = code /\ "return_code" \in DOMAIN x1  OBVIOUS
<1>10. p \in DOMAIN m0 /\ p # <<>> /\ Front(p) = <<>> /\ Last(p) = "return_code"
  <2>1. "return_code" \in FieldNames(Top(T)[2])  BY <1>2, NamesInAnswer
  <2>2. p = Append(Top(T)[1], "return_code")  BY <1>2
  <2> HIDE DEF p, T, m0, q3
  <2> QED BY <1>2, <1>3, <2>1, <2>2, StructPath
<1>11. t = Append(ResultsOf, "rx_payload_buffer")  BY AppendTwo DEF ResultsOf
<1> HIDE DEF m0, x1, x2, x3, q3, p, t, code, T, N, pb, size, d
<1>12. IsPlaced(m1, m0, <<>>, x1) /\ IsPlaced(m2, m1, ResultsOf, x2) /\ IsPlaced(m3, m2, q3, x3)
  BY Zenon DEF IsPlaced
<1> HIDE DEF m1, m2, m3
<1>13. /\ DOMAIN m1 = PathsOf(T) /\ DOMAIN m2 = PathsOf(T) /\ DOMAIN m3 = PathsOf(T)
  BY <1>3, <1>12, PlacedDomain
<1>14. At(m2, ResultsOf) = x2
  <2>1. ResultsAt[1] = ResultsOf /\ FieldNames(ResultsAt[2]) = N  BY <1>2
  <2>2. /\ IsStruct(x2, FieldNames(ResultsAt[2])) /\ IsPlaced(m2, m1, ResultsAt[1], x2)
        /\ DOMAIN m1 = PathsOf(T)
    BY <1>7, <1>12, <1>13, <2>1
  <2>3. At(m2, ResultsAt[1]) = x2  BY <1>a, <2>2, PlacedAt
  <2> QED BY <2>1, <2>3
<1>15. At(m3, ResultsOf) = x2  BY <1>2, <1>12, <1>13, LeftAt, <1>14
<1>16. At(m3, q3) = x3
  <2>1. RangingAt[1] = q3 /\ FieldNames(RangingAt[2]) = RangingNames  BY <1>2
  <2>2. /\ IsStruct(x3, FieldNames(RangingAt[2])) /\ IsPlaced(m3, m2, RangingAt[1], x3)
        /\ DOMAIN m2 = PathsOf(T)
    BY <1>8, <1>12, <1>13, <2>1
  <2>3. At(m3, RangingAt[1]) = x3  BY <1>a, <2>2, PlacedAt
  <2> QED BY <2>1, <2>3
<1>17. p \in DOMAIN m1 /\ m1[p] = code  BY <1>9, <1>10, <1>12, PlaceSets
<1>18. p \in DOMAIN m2 /\ m2[p] = code  BY <1>2, <1>10, <1>12, <1>17, PlaceLeaves
<1>19. m3[p] = code  BY <1>2, <1>10, <1>12, <1>18, PlaceLeaves
<1>20. At(d, ResultsOf) = x2 /\ d[p] = code /\ DOMAIN d = PathsOf(T)
  BY <1>1, <1>13, <1>14, <1>15, <1>18, <1>19
<1>21. r.has_ranging # {} => At(d, q3) = x3  BY <1>1, <1>16
<1>22. d[t] = x2["rx_payload_buffer"]  BY <1>20, <1>b, <1>4, <1>11
<1>23. LET results == At(d, ResultsOf)
       IN  /\ results["rx_payload_buffer"] = SubSeq(r.rx_buffer, 1, Number(size))
           /\ \A name \in N \ {"rx_payload_buffer", "ranging_result"} :
                results[name] = r.data[name]
           /\ d[p] = code /\ d[t] = results["rx_payload_buffer"]
  BY <1>7, <1>20, <1>22, Zenon
<1> QED BY <1>21, <1>23, Zenon DEF d, p, t, code, size, q3, x3, N

\* The integers of a ranging result, eight and thirty-two bits wide
LEMMA RssiBack ==
  ASSUME NEW v \in SUBSET (0..7)
  PROVE  IntsOf(FloatOf(v, 8), 8) = {v}
<1>1. Magnitude(v, 8) \subseteq 0..23
  <2>1. CASE v = {}  BY <2>1 DEF Magnitude
  <2>2. CASE v # {}  BY <2>2, MagnitudeBack
  <2> QED BY <2>1, <2>2
<1>2. 8 \in {8, 32} /\ v \in SUBSET (0..(8 - 1))  OBVIOUS
<1> QED BY <1>1, <1>2, FloatBack

\* A distance of 24 significant bits
LEMMA DistanceBack ==
  ASSUME NEW v \in SUBSET (0..31), Magnitude(v, 32) \subseteq 0..23
  PROVE  IntsOf(FloatOf(v, 32), 32) = {v}
<1>1. 32 \in {8, 32} /\ v \in SUBSET (0..(32 - 1))  OBVIOUS
<1> QED BY <1>1, FloatBack

\* The results of a transaction are what the host reads
LEMMA ResultsBack ==
  ASSUME NEW r, IsResult(r), NEW d, d = ResultsMessageOf(r),
         NEW n \in rac_convert_data_result_from_pb(
                     At(d, ResultsOf), At(d, Append(ResultsOf, "ranging_result")), NativeResult)
  PROVE  /\ \A name \in DOMAIN n \ {"ranging_result"} : n[name] = r.data[name]
         /\ r.has_ranging # {} =>
              /\ n["ranging_result"].distance_m = r.data["ranging_result"].distance_m
              /\ n["ranging_result"].rssi = r.data["ranging_result"].rssi
         /\ Len(d[<<"results", "rx_payload_buffer">>]) = Number(n["rx_size"])
         /\ IsPrefix(d[<<"results", "rx_payload_buffer">>], r.rx_buffer)
         /\ rac_convert_return_code_from_pb(d[<<"return_code">>]) = r.return_code
<1> DEFINE N == FieldNames("smtc_rac_data_result_pb_t")
           pb == At(d, ResultsOf)
           ranging == At(d, Append(ResultsOf, "ranging_result"))
           sent == d[<<"results", "rx_payload_buffer">>]
           size == Number(r.data["rx_size"])
           i == r.data["ranging_result"]
           copied == [name \in DOMAIN NativeResult |->
                        IF name = "ranging_result" THEN NativeResult[name] ELSE pb[name]]
           Measured(x, y) == [raw_distance |-> {}, distance_m |-> x, rssi |-> y]
<1>1. /\ pb["rx_payload_buffer"] = SubSeq(r.rx_buffer, 1, size)
      /\ \A name \in N \ {"rx_payload_buffer", "ranging_result"} : pb[name] = r.data[name]
      /\ r.has_ranging # {} => ranging = ranging_result_to_pb(i)
      /\ d[<<"return_code">>] = rac_convert_return_code_to_pb(r.return_code)
      /\ sent = pb["rx_payload_buffer"]
  BY AnswerParts, Zenon
<1>2. DOMAIN NativeResult = N \ {"rx_payload_buffer"}  BY ResultsAssumption DEF IsStruct
<1>3. /\ "ranging_result" \in N \ {"rx_payload_buffer"}
      /\ "rx_size" \in N \ {"rx_payload_buffer", "ranging_result"}
  BY NamesInAnswer
<1>4. rac_convert_data_result_from_pb(pb, ranging, NativeResult)
        = IF ranging["valid"] = {} THEN {copied}
          ELSE {[copied EXCEPT !["ranging_result"] = Measured(x, y)] :
                x \in IntsOf(ranging["distance_m"], 32), y \in IntsOf(ranging["rssi"], 8)}
  <2> HIDE DEF N, pb, ranging, size, i, sent
  <2> QED BY DEF rac_convert_data_result_from_pb
<1> HIDE DEF N, pb, ranging, size, i, sent
<1>5. /\ DOMAIN copied = N \ {"rx_payload_buffer"}
      /\ \A name \in N \ {"rx_payload_buffer", "ranging_result"} : copied[name] = r.data[name]
  BY <1>1, <1>2
<1> HIDE DEF copied, Measured
<1>6. \/ n = copied
      \/ \E x \in IntsOf(ranging["distance_m"], 32), y \in IntsOf(ranging["rssi"], 8) :
           n = [copied EXCEPT !["ranging_result"] = Measured(x, y)]
  BY <1>4 DEF pb, ranging
<1>7. /\ DOMAIN n = N \ {"rx_payload_buffer"}
      /\ \A name \in N \ {"rx_payload_buffer", "ranging_result"} : n[name] = r.data[name]
  BY <1>5, <1>6
<1>8. ASSUME r.has_ranging # {}
      PROVE  n["ranging_result"].distance_m = i.distance_m /\ n["ranging_result"].rssi = i.rssi
  <2>1. ranging = ranging_result_to_pb(i)  BY <1>1, <1>8
  <2>2. /\ ranging["valid"] = {0}
        /\ ranging["distance_m"] = FloatOf(i.distance_m, 32)
        /\ ranging["rssi"] = FloatOf(i.rssi, 8)
    BY <2>1 DEF ranging_result_to_pb
  <2>3. /\ i.distance_m \in SUBSET (0..31) /\ Magnitude(i.distance_m, 32) \subseteq 0..23
        /\ i.rssi \in SUBSET (0..7)
    BY DEF IsResult, i
  <2>4. IntsOf(FloatOf(i.distance_m, 32), 32) = {i.distance_m}  BY <2>3, DistanceBack
  <2>5. IntsOf(FloatOf(i.rssi, 8), 8) = {i.rssi}  BY <2>3, RssiBack
  <2>6. ranging["valid"] # {}  BY <2>2
  <2>7. n \in {[copied EXCEPT !["ranging_result"] = Measured(x, y)] :
               x \in IntsOf(ranging["distance_m"], 32), y \in IntsOf(ranging["rssi"], 8)}
    BY <1>4, <2>6 DEF pb, ranging
  <2>8. n = [copied EXCEPT !["ranging_result"] = Measured(i.distance_m, i.rssi)]
    BY <2>2, <2>4, <2>5, <2>7
  <2>9. n["ranging_result"] = Measured(i.distance_m, i.rssi)  BY <1>3, <1>5, <2>8
  <2> QED BY <2>9 DEF Measured
<1>9. Len(sent) = Number(n["rx_size"]) /\ IsPrefix(sent, r.rx_buffer)
  <2>1. sent = SubSeq(r.rx_buffer, 1, size)  BY <1>1
  <2>2. r.rx_buffer \in Seq(Byte) /\ size <= Len(r.rx_buffer)  BY Zenon DEF IsResult, size
  <2>3. size \in Nat  BY NumberType DEF size
  <2>4. n["rx_size"] = r.data["rx_size"]  BY <1>3, <1>7
  <2>5. /\ sent \in Seq(Byte) /\ Len(sent) = size
        /\ \A k \in 1..Len(sent) : sent[k] = r.rx_buffer[k]
    BY <2>1, <2>2, <2>3
  <2>6. IsPrefix(sent, r.rx_buffer)  BY <2>2, <2>5, PrefixMeans
  <2> QED BY <2>4, <2>5, <2>6 DEF size
<1>10. rac_convert_return_code_from_pb(d[<<"return_code">>]) = r.return_code
  BY <1>1, EnumsBack DEF IsResult
<1>11. \A name \in DOMAIN n \ {"ranging_result"} : n[name] = r.data[name]  BY <1>7
<1> QED BY <1>8, <1>9, <1>10, <1>11, Zenon DEF sent, i

\* Where a message is from
LEMMA SentFrom ==
  ASSUME NEW msg \in Messages
  PROVE  /\ msg.kind = "context" =>
              /\ msg.type = Request /\ msg.native \in Contexts
              /\ msg.sent = RequestOf(msg.native)
         /\ msg.kind = "results" =>
              /\ msg.type = "rac_results_pb_t" /\ msg.native \in Results
              /\ msg.sent = ResultsMessageOf(msg.native)
<1>1. CASE \E c \in Contexts : msg = Sent("context", Request, RequestOf(c), c)  BY <1>1 DEF Sent
<1>2. CASE \E r \in Results : msg = Sent("results", "rac_results_pb_t", ResultsMessageOf(r), r)
  BY <1>2 DEF Sent
<1>3. CASE \E r \in Raw : msg = Sent("raw", r.type, r.sent, {})  BY <1>3 DEF Sent
<1> QED BY <1>1, <1>2, <1>3 DEF Messages

\* In every state, a context or results that arrive undamaged have been converted back into what
\* they were converted from: the conversions of rac_context_converter.c undo each other, widths,
\* signs, enumerations and the integers carried as floats included
THEOREM ConversionsInvertHolds == Spec => []ConversionsInvert
<1>1. Converted /\ RoundTrip => ConversionsInvert
  <2> SUFFICES ASSUME Converted, RoundTrip, Intact, fault.kind # "followed", outcome # "none"
               PROVE  ConversionsInvert
    BY Zenon DEF ConversionsInvert
  <2>1. message \in Messages /\ verdict = "accepted"  BY DEF Converted, Transfer
  <2>2. dest = message.sent  BY <2>1 DEF RoundTrip, Expected
  <2>3. ASSUME message.kind = "context"
        PROVE  /\ outcome = "converted"
               /\ native.radio_params = message.native.radio_params
               /\ native.lbt_context = message.native.lbt_context
               /\ native.cw_context = message.native.cw_context
               /\ native.cad_context = [message.native.cad_context EXCEPT
                                          !["cad_enabled"] = Native.cad_context["cad_enabled"]]
               /\ native.scheduler_config = message.native.scheduler_config
               /\ IsPrefix(message.native.tx_payload_buffer, native.tx_payload_buffer)
    <3>1. /\ message.type = Request /\ message.native \in Contexts
          /\ dest = RequestOf(message.native)
      BY <2>1, <2>2, <2>3, SentFrom
    <3>2. PICK r \in rac_convert_context_from_pb(dest, Config, Native) :
            native = r.val /\ outcome = IF r.ok THEN "converted" ELSE "refused"
      BY <3>1 DEF Converted
    <3>3. IsContext(message.native)  BY <3>1, ContextsAssumption
    <3>4. r \in rac_convert_context_from_pb(RequestOf(message.native), Config, Native)
      BY <3>1, <3>2
    <3>5. /\ r.ok
          /\ r.val.radio_params = message.native.radio_params
          /\ r.val.lbt_context = message.native.lbt_context
          /\ r.val.cw_context = message.native.cw_context
          /\ r.val.cad_context = [message.native.cad_context EXCEPT
                                    !["cad_enabled"] = Native.cad_context["cad_enabled"]]
          /\ r.val.scheduler_config = message.native.scheduler_config
          /\ IsPrefix(message.native.tx_payload_buffer, r.val.tx_payload_buffer)
      BY <3>3, <3>4, ContextBack
    <3>6. outcome = "converted"  BY <3>2, <3>5
    <3> QED BY <3>2, <3>5, <3>6, Zenon
  <2>4. ASSUME message.kind = "results"
        PROVE  /\ \A name \in DOMAIN native \ {"ranging_result"} :
                    native[name] = message.native.data[name]
               /\ message.native.has_ranging # {} =>
                    native["ranging_result"].distance_m
                      = message.native.data["ranging_result"].distance_m
                    /\ native["ranging_result"].rssi = message.native.data["ranging_result"].rssi
               /\ Len(dest[<<"results", "rx_payload_buffer">>]) = Number(native["rx_size"])
               /\ IsPrefix(dest[<<"results", "rx_payload_buffer">>], message.native.rx_buffer)
               /\ rac_convert_return_code_from_pb(dest[<<"return_code">>])
                    = message.native.return_code
    BY <2>1, <2>2, <2>4, SentFrom, ResultsAssumption, ResultsBack DEF Request, Converted
  <2> QED BY <2>3, <2>4, Zenon DEF ConversionsInvert
<1> QED BY <1>1, ConvertedInvariant, RoundTripHolds, PTL
=============================================================================
