----------------------------- MODULE StgRandom -----------------------------
(***************************************************************************)
(* GenRandomBytes of stgpipe.c: the ucrt linear-congruential generator     *)
(*     Seed = Seed * 214013 + 2531011   (mod 2^32)                         *)
(* consumed one byte per step (bits 16..23 of the new seed), and the two   *)
(* draws run() makes from it: an 8-byte little-endian BlockAddress reduced *)
(* modulo the unit's BlockCount, and a 4-byte BlockCount reduced modulo    *)
(* MaxBlockCount.                                                          *)
(*                                                                         *)
(* A 32-bit seed does not fit TLC's integers, so it is kept as its two     *)
(* 16-bit halves: with 214013 = 3 * 2^16 + 17405 and                       *)
(* 2531011 = 38 * 2^16 + 40643, the product modulo 2^32 is computed on the *)
(* halves without any intermediate value reaching 2^31.  A 64-bit draw     *)
(* does not fit either; it is only ever used modulo a small number, so the *)
(* bytes are folded in Horner order with the modulus applied at each step, *)
(* which gives the same residue.  No recursion: both draws have a fixed    *)
(* number of bytes, so the steps are written out.                          *)
(***************************************************************************)
EXTENDS Integers

Half == 65536

\* A ULONG seed as its high and low 16-bit halves.
Seed == [hi : 0..Half - 1, lo : 0..Half - 1]

SeedOf(n) == [hi |-> (n \div Half) % Half, lo |-> n % Half]

\* Seed = 0 != *PSeed ? *PSeed : 1
SeedStart(s) == IF s.hi = 0 /\ s.lo = 0 THEN [hi |-> 0, lo |-> 1] ELSE s

(***************************************************************************)
(* Seed = Seed * 214013 + 2531011, on the halves.  A function rather than *)
(* an operator, so that each step evaluates the seed it starts from once. *)
(***************************************************************************)
Lcg == [s \in Seed |->
          LET low == s.lo * 17405 + 40643
          IN  [hi |-> (s.hi * 17405 + s.lo * 3 + 38 + low \div Half) % Half,
               lo |-> low % Half]]

LcgStep(s) == Lcg[s]

\* *P = (UINT8)(Seed >> 16)
RandByte(s) == s.hi % 256

\* One more byte r of a little-endian number folded in, modulo m.
FoldByte(acc, s, m) == (acc * 256 + RandByte(s)) % m

(***************************************************************************)
(* GenRandomBytes(RandomSeed, &BlockAddress, 8) followed by                *)
(* BlockAddress %= m: the residue and the seed written back.               *)
(***************************************************************************)
RandomAddress(s, m) ==
    LET s1 == LcgStep(SeedStart(s))
        s2 == LcgStep(s1)
        s3 == LcgStep(s2)
        s4 == LcgStep(s3)
        s5 == LcgStep(s4)
        s6 == LcgStep(s5)
        s7 == LcgStep(s6)
        s8 == LcgStep(s7)
    IN  [value |-> FoldByte(FoldByte(FoldByte(FoldByte(FoldByte(FoldByte(FoldByte(FoldByte(0, s8, m),
                        s7, m), s6, m), s5, m), s4, m), s3, m), s2, m), s1, m),
         seed  |-> s8]

(***************************************************************************)
(* GenRandomBytes(RandomSeed, &BlockCount, 4) followed by                  *)
(* BlockCount %= m.                                                        *)
(***************************************************************************)
RandomCount(s, m) ==
    LET s1 == LcgStep(SeedStart(s))
        s2 == LcgStep(s1)
        s3 == LcgStep(s2)
        s4 == LcgStep(s3)
    IN  [value |-> FoldByte(FoldByte(FoldByte(FoldByte(0, s4, m), s3, m), s2, m), s1, m),
         seed  |-> s4]
=============================================================================
