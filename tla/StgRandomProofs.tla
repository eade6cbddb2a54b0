-------------------------- MODULE StgRandomProofs --------------------------
(***************************************************************************)
(* What the draws of GenRandomBytes return: a seed stays a pair of 16-bit  *)
(* halves, and a draw reduced modulo m (BlockAddress %= BlockCount,       *)
(* BlockCount %= MaxBlockCount) lies in 0..m-1 whatever the seed, as long *)
(* as m is not zero.                                                      *)
(***************************************************************************)
EXTENDS StgRandom, TLAPS

\* The halves are taken modulo a number above 1; which one does not matter.
LEMMA HalfPositive == Half \in Nat \ {0, 1}
BY DEF Half

\* The linear-congruential step keeps a seed a pair of 16-bit halves.
LEMMA LcgType ==
    ASSUME NEW s \in Seed
    PROVE  LcgStep(s) \in Seed
<1> DEFINE low == s.lo * 17405 + 40643
<1>1. low \in Int
  BY DEF Seed
<1>2. LcgStep(s) = [hi |-> (s.hi * 17405 + s.lo * 3 + 38 + low \div Half) % Half,
                    lo |-> low % Half]
  BY DEF LcgStep, Lcg
<1>3. (s.hi * 17405 + s.lo * 3 + 38 + low \div Half) % Half \in 0..Half - 1
  BY <1>1, HalfPositive DEF Seed
<1>4. low % Half \in 0..Half - 1
  BY <1>1, HalfPositive
<1>. QED  BY <1>2, <1>3, <1>4 DEF Seed

\* Seed = 0 != *PSeed ? *PSeed : 1 is a seed.
LEMMA SeedStartType ==
    ASSUME NEW s \in Seed
    PROVE  SeedStart(s) \in Seed
BY HalfPositive DEF SeedStart, Seed

\* Every initial *RandomSeed is a seed.
LEMMA SeedOfType ==
    ASSUME NEW n \in Nat
    PROVE  SeedOf(n) \in Seed
BY HalfPositive DEF SeedOf, Seed

\* Folding one more byte in, modulo m, gives a residue modulo m.
LEMMA FoldByteRange ==
    ASSUME NEW acc \in Int, NEW s \in Seed, NEW m \in Nat \ {0}
    PROVE  FoldByte(acc, s, m) \in 0..m - 1
BY HalfPositive DEF FoldByte, RandByte, Seed

(***************************************************************************)
(* The 8-byte draw of BlockAddress reduced modulo m is a block address    *)
(* below m, and the seed written back is a seed.                          *)
(***************************************************************************)
LEMMA RandomAddressRange ==
    ASSUME NEW s \in Seed, NEW m \in Nat \ {0}
    PROVE  /\ RandomAddress(s, m).value \in 0..m - 1
           /\ RandomAddress(s, m).seed \in Seed
<1> DEFINE s1 == LcgStep(SeedStart(s))
           s2 == LcgStep(s1)
           s3 == LcgStep(s2)
           s4 == LcgStep(s3)
           s5 == LcgStep(s4)
           s6 == LcgStep(s5)
           s7 == LcgStep(s6)
           s8 == LcgStep(s7)
<1>1. /\ s1 \in Seed /\ s2 \in Seed /\ s3 \in Seed /\ s4 \in Seed
      /\ s5 \in Seed /\ s6 \in Seed /\ s7 \in Seed /\ s8 \in Seed
  BY SeedStartType, LcgType
<1> DEFINE f8 == FoldByte(0, s8, m)
           f7 == FoldByte(f8, s7, m)
           f6 == FoldByte(f7, s6, m)
           f5 == FoldByte(f6, s5, m)
           f4 == FoldByte(f5, s4, m)
           f3 == FoldByte(f4, s3, m)
           f2 == FoldByte(f3, s2, m)
           f1 == FoldByte(f2, s1, m)
<1>2. f8 \in 0..m - 1  BY <1>1, FoldByteRange
<1>3. f7 \in 0..m - 1  BY <1>1, <1>2, FoldByteRange
<1>4. f6 \in 0..m - 1  BY <1>1, <1>3, FoldByteRange
<1>5. f5 \in 0..m - 1  BY <1>1, <1>4, FoldByteRange
<1>6. f4 \in 0..m - 1  BY <1>1, <1>5, FoldByteRange
<1>7. f3 \in 0..m - 1  BY <1>1, <1>6, FoldByteRange
<1>8. f2 \in 0..m - 1  BY <1>1, <1>7, FoldByteRange
<1>9. f1 \in 0..m - 1  BY <1>1, <1>8, FoldByteRange
<1>10. RandomAddress(s, m) = [value |-> f1, seed |-> s8]
  BY DEF RandomAddress
<1>. QED  BY <1>1, <1>9, <1>10

(***************************************************************************)
(* The 4-byte draw of BlockCount reduced modulo m is below m, and the     *)
(* seed written back is a seed.                                           *)
(***************************************************************************)
LEMMA RandomCountRange ==
    ASSUME NEW s \in Seed, NEW m \in Nat \ {0}
    PROVE  /\ RandomCount(s, m).value \in 0..m - 1
           /\ RandomCount(s, m).seed \in Seed
<1> DEFINE s1 == LcgStep(SeedStart(s))
           s2 == LcgStep(s1)
           s3 == LcgStep(s2)
           s4 == LcgStep(s3)
<1>1. s1 \in Seed /\ s2 \in Seed /\ s3 \in Seed /\ s4 \in Seed
  BY SeedStartType, LcgType
<1> DEFINE f4 == FoldByte(0, s4, m)
           f3 == FoldByte(f4, s3, m)
           f2 == FoldByte(f3, s2, m)
           f1 == FoldByte(f2, s1, m)
<1>2. f4 \in 0..m - 1  BY <1>1, FoldByteRange
<1>3. f3 \in 0..m - 1  BY <1>1, <1>2, FoldByteRange
<1>4. f2 \in 0..m - 1  BY <1>1, <1>3, FoldByteRange
<1>5. f1 \in 0..m - 1  BY <1>1, <1>4, FoldByteRange
<1>6. RandomCount(s, m) = [value |-> f1, seed |-> s4]
  BY DEF RandomCount
<1>. QED  BY <1>1, <1>5, <1>6
=============================================================================
