--------------------------- MODULE ServicesProofs ---------------------------
(***************************************************************************)
(* Theorems about the parts of Services: the NVMe controller's queues are  *)
(* changed only while it is at rest, and it runs with what the kernel      *)
(* asked for; what is made of the ACPI tables and the MCFG is right; text  *)
(* is drawn in cells of its own; the conversions and strncmp are exact; a  *)
(* system call runs privileged and keeps the program's flags.              *)
(*                                                                         *)
(* One chapter a part, each from its lemmas to Init and Next of its        *)
(* inductive invariant; the theorems about ServicesSpec are at the end.    *)
(* The fields of CC are reasoned about on the record of all of them: a     *)
(* word is the sum of its fields, each at its place, a read gives one of   *)
(* them back and a write changes one of them.  What a recursive function   *)
(* of Format computes is shown by SetInduction, which has the property as  *)
(* a set, and RecursionExists, which gives the function.                   *)
(***************************************************************************)
EXTENDS Services, FiniteSetTheorems, SequenceTheorems, WellFoundedInduction, TLAPS

(* q and r are a quotient and a remainder of x by d. *)
Quotient(x, d, q, r) == x = q * d + r

(* And they are the only ones. *)
LEMMA Euclid ==
  ASSUME NEW d \in Nat \ {0}, NEW q \in Nat, NEW r \in 0 .. (d - 1), NEW x, Quotient(x, d, q, r)
  PROVE  x \div d = q /\ x % d = r
<1>0. x = q * d + r
  BY DEF Quotient
<1>1. x \in Nat /\ x \div d \in Nat /\ x % d \in 0 .. (d - 1) /\ x = (x \div d) * d + (x % d)
  <2>1. q * d \in Nat
    OBVIOUS
  <2>2. x \in Nat
    BY <1>0, <2>1
  <2>3. ASSUME NEW y \in Nat
        PROVE  y \div d \in Nat /\ y % d \in 0 .. (d - 1) /\ y = (y \div d) * d + (y % d)
    <3>1. y % d \in 0 .. (d - 1)
      OBVIOUS
    <3>2. y \div d \in Nat
      OBVIOUS
    <3>3. y = (y \div d) * d + (y % d)
      OBVIOUS
    <3> QED
      BY <3>1, <3>2, <3>3
  <2> QED
    BY <2>2, <2>3
<1> DEFINE p == x \div d
           s == x % d
<1>2. p \in Nat /\ s \in 0 .. (d - 1) /\ p * d + s = q * d + r
  BY <1>0, <1>1
<1> HIDE DEF p, s
<1>3. ASSUME p < q PROVE FALSE
  <2>1. (q - p) * d >= d
    BY <1>2, <1>3
  <2>2. (q - p) * d = q * d - p * d
    BY <1>2
  <2> QED
    BY <1>2, <2>1, <2>2
<1>4. ASSUME p > q PROVE FALSE
  <2>1. (p - q) * d >= d
    BY <1>2, <1>4
  <2>2. (p - q) * d = p * d - q * d
    BY <1>2
  <2> QED
    BY <1>2, <2>1, <2>2
<1>5. p = q
  BY <1>2, <1>3, <1>4
<1>6. s = r
  BY <1>2, <1>5
<1> QED
  BY <1>5, <1>6 DEF p, s

(* t has f between lo, which is below A, and hi. *)
Parts(t, A, B, lo, f, hi) == t = (hi * B + f) * A + lo

(* nvme.c:18-24: shifting lo out and cutting hi off leaves f. *)
LEMMA ReadField ==
  ASSUME NEW A \in Nat \ {0}, NEW B \in Nat \ {0}, NEW lo \in 0 .. (A - 1), NEW f \in 0 .. (B - 1),
         NEW hi \in Nat, NEW t, Parts(t, A, B, lo, f, hi)
  PROVE  (t \div A) % B = f
<1>1. PICK q \in Nat : Quotient(q, B, hi, f) /\ Quotient(t, A, q, lo)
  <2>1. hi * B \in Nat
    OBVIOUS
  <2>2. hi * B + f \in Nat
    BY <2>1
  <2>3. Quotient(hi * B + f, B, hi, f) /\ Quotient(t, A, hi * B + f, lo)
    BY DEF Quotient, Parts
  <2> QED
    BY <2>2, <2>3, Zenon
<1>2. t \div A = q
  BY <1>1, Euclid
<1>3. q % B = f
  BY <1>1, Euclid
<1> QED
  BY <1>2, <1>3

-----------------------------------------------------------------------------
(* The fields of CC, all of them (nvme.h:87-98), and the word they make. *)
CCs == [en: 0 .. 1, res0: 0 .. 7, css: 0 .. 7, mps: 0 .. 15, ams: 0 .. 7, shn: 0 .. 3,
        iosqes: 0 .. 15, iocqes: 0 .. 15, crime: 0 .. 1]
Word(b) ==
  b.en + b.res0 * 2 + b.css * 2^4 + b.mps * 2^7 + b.ams * 2^11 + b.shn * 2^14 + b.iosqes * 2^16
     + b.iocqes * 2^20 + b.crime * 2^24

(* The fields kernel.c:149-165 writes, read with the offsets it uses. *)
CC(t) ==
  [ en |-> nvme_mmio_read_32(t, 0, 1),
    css |-> nvme_mmio_read_32(t, 4, 3),
    mps |-> nvme_mmio_read_32(t, 7, 4),
    ams |-> nvme_mmio_read_32(t, 11, 3),
    shn |-> nvme_mmio_read_32(t, 14, 2),
    iosqes |-> nvme_mmio_read_32(t, 16, 4),
    iocqes |-> nvme_mmio_read_32(t, 20, 4) ]

(* Every read gives its field back. *)
LEMMA Assemble ==
  ASSUME NEW b \in CCs, NEW t, t = Word(b)
  PROVE  /\ t \in 0 .. (2^25 - 1)
         /\ CC(t) = [en |-> b.en, css |-> b.css, mps |-> b.mps, ams |-> b.ams, shn |-> b.shn,
                     iosqes |-> b.iosqes, iocqes |-> b.iocqes]
<1> DEFINE en == b.en  res0 == b.res0  css == b.css  mps == b.mps  ams == b.ams  shn == b.shn
           iosqes == b.iosqes  iocqes == b.iocqes  crime == b.crime
<1>1. /\ en \in 0 .. 1 /\ res0 \in 0 .. 7 /\ css \in 0 .. 7 /\ mps \in 0 .. 15 /\ ams \in 0 .. 7
      /\ shn \in 0 .. 3 /\ iosqes \in 0 .. 15 /\ iocqes \in 0 .. 15 /\ crime \in 0 .. 1
      /\ t = en + res0 * 2 + css * 2^4 + mps * 2^7 + ams * 2^11 + shn * 2^14 + iosqes * 2^16
             + iocqes * 2^20 + crime * 2^24
  BY DEF CCs, Word
<1> HIDE DEF en, res0, css, mps, ams, shn, iosqes, iocqes, crime
<1>2. t \in 0 .. (2^25 - 1)
  BY <1>1
<1>3. nvme_mmio_read_32(t, 0, 1) = en
  <2> DEFINE lo == 0
             hi == res0 + css * 2^3 + mps * 2^6 + ams * 2^10 + shn * 2^13 + iosqes * 2^15
                   + iocqes * 2^19 + crime * 2^23
  <2>1. lo \in 0 .. (2^0 - 1) /\ hi \in Nat /\ t = (hi * 2^1 + en) * 2^0 + lo
    BY <1>1
  <2> HIDE DEF lo, hi
  <2>2. PICK A \in Nat \ {0}, B \in Nat \ {0} : A = 2^0 /\ B = 2^1
    OBVIOUS
  <2>3. lo \in 0 .. (A - 1) /\ en \in 0 .. (B - 1) /\ Parts(t, A, B, lo, en, hi)
    BY <1>1, <2>1, <2>2 DEF Parts
  <2>4. (t \div A) % B = en
    BY <2>1, <2>3, ReadField
  <2> QED
    BY <2>2, <2>4 DEF nvme_mmio_read_32
<1>4. nvme_mmio_read_32(t, 4, 3) = css
  <2> DEFINE lo == en + res0 * 2^1
             hi == mps + ams * 2^4 + shn * 2^7 + iosqes * 2^9 + iocqes * 2^13 + crime * 2^17
  <2>1. lo \in 0 .. (2^4 - 1) /\ hi \in Nat /\ t = (hi * 2^3 + css) * 2^4 + lo
    BY <1>1
  <2> HIDE DEF lo, hi
  <2>2. PICK A \in Nat \ {0}, B \in Nat \ {0} : A = 2^4 /\ B = 2^3
    OBVIOUS
  <2>3. lo \in 0 .. (A - 1) /\ css \in 0 .. (B - 1) /\ Parts(t, A, B, lo, css, hi)
    BY <1>1, <2>1, <2>2 DEF Parts
  <2>4. (t \div A) % B = css
    BY <2>1, <2>3, ReadField
  <2> QED
    BY <2>2, <2>4 DEF nvme_mmio_read_32
<1>5. nvme_mmio_read_32(t, 7, 4) = mps
  <2> DEFINE lo == en + res0 * 2^1 + css * 2^4
             hi == ams + shn * 2^3 + iosqes * 2^5 + iocqes * 2^9 + crime * 2^13
  <2>1. lo \in 0 .. (2^7 - 1) /\ hi \in Nat /\ t = (hi * 2^4 + mps) * 2^7 + lo
    BY <1>1
  <2> HIDE DEF lo, hi
  <2>2. PICK A \in Nat \ {0}, B \in Nat \ {0} : A = 2^7 /\ B = 2^4
    OBVIOUS
  <2>3. lo \in 0 .. (A - 1) /\ mps \in 0 .. (B - 1) /\ Parts(t, A, B, lo, mps, hi)
    BY <1>1, <2>1, <2>2 DEF Parts
  <2>4. (t \div A) % B = mps
    BY <2>1, <2>3, ReadField
  <2> QED
    BY <2>2, <2>4 DEF nvme_mmio_read_32
<1>6. nvme_mmio_read_32(t, 11, 3) = ams
  <2> DEFINE lo == en + res0 * 2^1 + css * 2^4 + mps * 2^7
             hi == shn + iosqes * 2^2 + iocqes * 2^6 + crime * 2^10
  <2>1. lo \in 0 .. (2^11 - 1) /\ hi \in Nat /\ t = (hi * 2^3 + ams) * 2^11 + lo
    BY <1>1
  <2> HIDE DEF lo, hi
  <2>2. PICK A \in Nat \ {0}, B \in Nat \ {0} : A = 2^11 /\ B = 2^3
    OBVIOUS
  <2>3. lo \in 0 .. (A - 1) /\ ams \in 0 .. (B - 1) /\ Parts(t, A, B, lo, ams, hi)
    BY <1>1, <2>1, <2>2 DEF Parts
  <2>4. (t \div A) % B = ams
    BY <2>1, <2>3, ReadField
  <2> QED
    BY <2>2, <2>4 DEF nvme_mmio_read_32
<1>7. nvme_mmio_read_32(t, 14, 2) = shn
  <2> DEFINE lo == en + res0 * 2^1 + css * 2^4 + mps * 2^7 + ams * 2^11
             hi == iosqes + iocqes * 2^4 + crime * 2^8
  <2>1. lo \in 0 .. (2^14 - 1) /\ hi \in Nat /\ t = (hi * 2^2 + shn) * 2^14 + lo
    BY <1>1
  <2> HIDE DEF lo, hi
  <2>2. PICK A \in Nat \ {0}, B \in Nat \ {0} : A = 2^14 /\ B = 2^2
    OBVIOUS
  <2>3. lo \in 0 .. (A - 1) /\ shn \in 0 .. (B - 1) /\ Parts(t, A, B, lo, shn, hi)
    BY <1>1, <2>1, <2>2 DEF Parts
  <2>4. (t \div A) % B = shn
    BY <2>1, <2>3, ReadField
  <2> QED
    BY <2>2, <2>4 DEF nvme_mmio_read_32
<1>8. nvme_mmio_read_32(t, 16, 4) = iosqes
  <2> DEFINE lo == en + res0 * 2^1 + css * 2^4 + mps * 2^7 + ams * 2^11 + shn * 2^14
             hi == iocqes + crime * 2^4
  <2>1. lo \in 0 .. (2^16 - 1) /\ hi \in Nat /\ t = (hi * 2^4 + iosqes) * 2^16 + lo
    BY <1>1
  <2> HIDE DEF lo, hi
  <2>2. PICK A \in Nat \ {0}, B \in Nat \ {0} : A = 2^16 /\ B = 2^4
    OBVIOUS
  <2>3. lo \in 0 .. (A - 1) /\ iosqes \in 0 .. (B - 1) /\ Parts(t, A, B, lo, iosqes, hi)
    BY <1>1, <2>1, <2>2 DEF Parts
  <2>4. (t \div A) % B = iosqes
    BY <2>1, <2>3, ReadField
  <2> QED
    BY <2>2, <2>4 DEF nvme_mmio_read_32
<1>9. nvme_mmio_read_32(t, 20, 4) = iocqes
  <2> DEFINE lo == en + res0 * 2^1 + css * 2^4 + mps * 2^7 + ams * 2^11 + shn * 2^14 + iosqes * 2^16
             hi == crime
  <2>1. lo \in 0 .. (2^20 - 1) /\ hi \in Nat /\ t = (hi * 2^4 + iocqes) * 2^20 + lo
    BY <1>1
  <2> HIDE DEF lo, hi
  <2>2. PICK A \in Nat \ {0}, B \in Nat \ {0} : A = 2^20 /\ B = 2^4
    OBVIOUS
  <2>3. lo \in 0 .. (A - 1) /\ iocqes \in 0 .. (B - 1) /\ Parts(t, A, B, lo, iocqes, hi)
    BY <1>1, <2>1, <2>2 DEF Parts
  <2>4. (t \div A) % B = iocqes
    BY <2>1, <2>3, ReadField
  <2> QED
    BY <2>2, <2>4 DEF nvme_mmio_read_32
<1> QED
  BY <1>2, <1>3, <1>4, <1>5, <1>6, <1>7, <1>8, <1>9
  DEF CC, en, css, mps, ams, shn, iosqes, iocqes

(* Every word of 25 bits is made of fields. *)
LEMMA Disassemble ==
  ASSUME NEW t \in 0 .. (2^25 - 1)
  PROVE  \E b \in CCs : t = Word(b)
<1>1. PICK en \in 0 .. 1, t1 \in 0 .. (2^24 - 1) : t = en + 2 * t1
  <2> WITNESS t % 2 \in 0 .. 1, t \div 2 \in 0 .. (2^24 - 1)
  <2> QED
    OBVIOUS
<1>2. PICK res0 \in 0 .. 7, t2 \in 0 .. (2^21 - 1) : t1 = res0 + 8 * t2
  <2> WITNESS t1 % 8 \in 0 .. 7, t1 \div 8 \in 0 .. (2^21 - 1)
  <2> QED
    OBVIOUS
<1>3. PICK css \in 0 .. 7, t3 \in 0 .. (2^18 - 1) : t2 = css + 8 * t3
  <2> WITNESS t2 % 8 \in 0 .. 7, t2 \div 8 \in 0 .. (2^18 - 1)
  <2> QED
    OBVIOUS
<1>4. PICK mps \in 0 .. 15, t4 \in 0 .. (2^14 - 1) : t3 = mps + 16 * t4
  <2> WITNESS t3 % 16 \in 0 .. 15, t3 \div 16 \in 0 .. (2^14 - 1)
  <2> QED
    OBVIOUS
<1>5. PICK ams \in 0 .. 7, t5 \in 0 .. (2^11 - 1) : t4 = ams + 8 * t5
  <2> WITNESS t4 % 8 \in 0 .. 7, t4 \div 8 \in 0 .. (2^11 - 1)
  <2> QED
    OBVIOUS
<1>6. PICK shn \in 0 .. 3, t6 \in 0 .. (2^9 - 1) : t5 = shn + 4 * t6
  <2> WITNESS t5 % 4 \in 0 .. 3, t5 \div 4 \in 0 .. (2^9 - 1)
  <2> QED
    OBVIOUS
<1>7. PICK iosqes \in 0 .. 15, t7 \in 0 .. 31 : t6 = iosqes + 16 * t7
  <2> WITNESS t6 % 16 \in 0 .. 15, t6 \div 16 \in 0 .. 31
  <2> QED
    OBVIOUS
<1>8. PICK iocqes \in 0 .. 15, crime \in 0 .. 1 : t7 = iocqes + 16 * crime
  <2> WITNESS t7 % 16 \in 0 .. 15, t7 \div 16 \in 0 .. 1
  <2> QED
    OBVIOUS
<1> DEFINE b == [en |-> en, res0 |-> res0, css |-> css, mps |-> mps, ams |-> ams, shn |-> shn,
                 iosqes |-> iosqes, iocqes |-> iocqes, crime |-> crime]
<1>9. b \in CCs
  BY DEF CCs
<1>10. t = Word(b)
  BY <1>1, <1>2, <1>3, <1>4, <1>5, <1>6, <1>7, <1>8 DEF Word
<1> QED
  BY <1>9, <1>10, Zenon

(* A write to a field of CC gives the field its value and leaves the other *)
(* fields and the width of the register as they were (nvme.c:12-17), for   *)
(* each of the writes of kernel.c:149-165.                                 *)
LEMMA WriteCC ==
  ASSUME NEW t \in 0 .. (2^25 - 1), NEW n
  PROVE  /\ n = nvme_mmio_write_32(t, 0, 0, 1) =>
              n \in 0 .. (2^25 - 1) /\ CC(n) = [CC(t) EXCEPT !.en = 0]
         /\ n = nvme_mmio_write_32(t, 0, 1, 1) =>
              n \in 0 .. (2^25 - 1) /\ CC(n) = [CC(t) EXCEPT !.en = 1]
         /\ n = nvme_mmio_write_32(t, 4, 0, 3) =>
              n \in 0 .. (2^25 - 1) /\ CC(n) = [CC(t) EXCEPT !.css = 0]
         /\ n = nvme_mmio_write_32(t, 7, 0, 4) =>
              n \in 0 .. (2^25 - 1) /\ CC(n) = [CC(t) EXCEPT !.mps = 0]
         /\ n = nvme_mmio_write_32(t, 11, 0, 3) =>
              n \in 0 .. (2^25 - 1) /\ CC(n) = [CC(t) EXCEPT !.ams = 0]
         /\ n = nvme_mmio_write_32(t, 14, 0, 2) =>
              n \in 0 .. (2^25 - 1) /\ CC(n) = [CC(t) EXCEPT !.shn = 0]
         /\ n = nvme_mmio_write_32(t, 16, 6, 4) =>
              n \in 0 .. (2^25 - 1) /\ CC(n) = [CC(t) EXCEPT !.iosqes = 6]
         /\ n = nvme_mmio_write_32(t, 20, 4, 4) =>
              n \in 0 .. (2^25 - 1) /\ CC(n) = [CC(t) EXCEPT !.iocqes = 4]
<1>1. PICK b \in CCs : t = Word(b)
  BY Disassemble
<1>0. /\ b.en \in Int /\ b.res0 \in Int /\ b.css \in Int /\ b.mps \in Int /\ b.ams \in Int
      /\ b.shn \in Int /\ b.iosqes \in Int /\ b.iocqes \in Int /\ b.crime \in Int
  BY DEF CCs
<1>2. CC(t) = [en |-> b.en, css |-> b.css, mps |-> b.mps, ams |-> b.ams, shn |-> b.shn,
               iosqes |-> b.iosqes, iocqes |-> b.iocqes]
  BY <1>1, Assemble
<1>3. ASSUME NEW c \in CCs, n = Word(c)
      PROVE  /\ n \in 0 .. (2^25 - 1)
             /\ CC(n) = [en |-> c.en, css |-> c.css, mps |-> c.mps, ams |-> c.ams, shn |-> c.shn,
                         iosqes |-> c.iosqes, iocqes |-> c.iocqes]
  BY <1>3, Assemble
<1>4. ASSUME n = nvme_mmio_write_32(t, 0, 0, 1)
      PROVE  n \in 0 .. (2^25 - 1) /\ CC(n) = [CC(t) EXCEPT !.en = 0]
  <2> DEFINE c == [b EXCEPT !.en = 0]
  <2>1. c \in CCs
    BY DEF CCs
  <2>2. nvme_mmio_read_32(t, 0, 1) = b.en
    BY <1>2 DEF CC
  <2>3. n = t - b.en * 2^0 + 0 * 2^0
    BY <1>4, <2>2 DEF nvme_mmio_write_32
  <2>4. /\ c.en = 0 /\ c.res0 = b.res0 /\ c.css = b.css /\ c.mps = b.mps /\ c.ams = b.ams
        /\ c.shn = b.shn /\ c.iosqes = b.iosqes /\ c.iocqes = b.iocqes /\ c.crime = b.crime
    BY DEF CCs
  <2> HIDE DEF c
  <2>5. n = Word(c)
    <3> DEFINE rest == b.res0 * 2 + b.css * 2^4 + b.mps * 2^7 + b.ams * 2^11 + b.shn * 2^14
                       + b.iosqes * 2^16 + b.iocqes * 2^20 + b.crime * 2^24
    <3>1. rest \in Int /\ Word(b) = rest + b.en * 2^0
      BY <1>0 DEF Word
    <3>2. Word(c) = rest + 0 * 2^0
      BY <1>0, <2>4 DEF Word
    <3> HIDE DEF rest
    <3> QED
      BY <1>0, <1>1, <2>3, <3>1, <3>2
  <2>6. /\ n \in 0 .. (2^25 - 1)
        /\ CC(n) = [en |-> c.en, css |-> c.css, mps |-> c.mps, ams |-> c.ams, shn |-> c.shn,
                    iosqes |-> c.iosqes, iocqes |-> c.iocqes]
    BY <1>3, <2>1, <2>5
  <2> QED
    BY <1>2, <2>4, <2>6
<1>5. ASSUME n = nvme_mmio_write_32(t, 0, 1, 1)
      PROVE  n \in 0 .. (2^25 - 1) /\ CC(n) = [CC(t) EXCEPT !.en = 1]
  <2> DEFINE c == [b EXCEPT !.en = 1]
  <2>1. c \in CCs
    BY DEF CCs
  <2>2. nvme_mmio_read_32(t, 0, 1) = b.en
    BY <1>2 DEF CC
  <2>3. n = t - b.en * 2^0 + 1 * 2^0
    BY <1>5, <2>2 DEF nvme_mmio_write_32
  <2>4. /\ c.en = 1 /\ c.res0 = b.res0 /\ c.css = b.css /\ c.mps = b.mps /\ c.ams = b.ams
        /\ c.shn = b.shn /\ c.iosqes = b.iosqes /\ c.iocqes = b.iocqes /\ c.crime = b.crime
    BY DEF CCs
  <2> HIDE DEF c
  <2>5. n = Word(c)
    <3> DEFINE rest == b.res0 * 2 + b.css * 2^4 + b.mps * 2^7 + b.ams * 2^11 + b.shn * 2^14
                       + b.iosqes * 2^16 + b.iocqes * 2^20 + b.crime * 2^24
    <3>1. rest \in Int /\ Word(b) = rest + b.en * 2^0
      BY <1>0 DEF Word
    <3>2. Word(c) = rest + 1 * 2^0
      BY <1>0, <2>4 DEF Word
    <3> HIDE DEF rest
    <3> QED
      BY <1>0, <1>1, <2>3, <3>1, <3>2
  <2>6. /\ n \in 0 .. (2^25 - 1)
        /\ CC(n) = [en |-> c.en, css |-> c.css, mps |-> c.mps, ams |-> c.ams, shn |-> c.shn,
                    iosqes |-> c.iosqes, iocqes |-> c.iocqes]
    BY <1>3, <2>1, <2>5
  <2> QED
    BY <1>2, <2>4, <2>6
<1>6. ASSUME n = nvme_mmio_write_32(t, 4, 0, 3)
      PROVE  n \in 0 .. (2^25 - 1) /\ CC(n) = [CC(t) EXCEPT !.css = 0]
  <2> DEFINE c == [b EXCEPT !.css = 0]
  <2>1. c \in CCs
    BY DEF CCs
  <2>2. nvme_mmio_read_32(t, 4, 3) = b.css
    BY <1>2 DEF CC
  <2>3. n = t - b.css * 2^4 + 0 * 2^4
    BY <1>6, <2>2 DEF nvme_mmio_write_32
  <2>4. /\ c.en = b.en /\ c.res0 = b.res0 /\ c.css = 0 /\ c.mps = b.mps /\ c.ams = b.ams
        /\ c.shn = b.shn /\ c.iosqes = b.iosqes /\ c.iocqes = b.iocqes /\ c.crime = b.crime
    BY DEF CCs
  <2> HIDE DEF c
  <2>5. n = Word(c)
    <3> DEFINE rest == b.en + b.res0 * 2 + b.mps * 2^7 + b.ams * 2^11 + b.shn * 2^14
                       + b.iosqes * 2^16 + b.iocqes * 2^20 + b.crime * 2^24
    <3>1. rest \in Int /\ Word(b) = rest + b.css * 2^4
      BY <1>0 DEF Word
    <3>2. Word(c) = rest + 0 * 2^4
      BY <1>0, <2>4 DEF Word
    <3> HIDE DEF rest
    <3> QED
      BY <1>0, <1>1, <2>3, <3>1, <3>2
  <2>6. /\ n \in 0 .. (2^25 - 1)
        /\ CC(n) = [en |-> c.en, css |-> c.css, mps |-> c.mps, ams |-> c.ams, shn |-> c.shn,
                    iosqes |-> c.iosqes, iocqes |-> c.iocqes]
    BY <1>3, <2>1, <2>5
  <2> QED
    BY <1>2, <2>4, <2>6
<1>7. ASSUME n = nvme_mmio_write_32(t, 7, 0, 4)
      PROVE  n \in 0 .. (2^25 - 1) /\ CC(n) = [CC(t) EXCEPT !.mps = 0]
  <2> DEFINE c == [b EXCEPT !.mps = 0]
  <2>1. c \in CCs
    BY DEF CCs
  <2>2. nvme_mmio_read_32(t, 7, 4) = b.mps
    BY <1>2 DEF CC
  <2>3. n = t - b.mps * 2^7 + 0 * 2^7
    BY <1>7, <2>2 DEF nvme_mmio_write_32
  <2>4. /\ c.en = b.en /\ c.res0 = b.res0 /\ c.css = b.css /\ c.mps = 0 /\ c.ams = b.ams
        /\ c.shn = b.shn /\ c.iosqes = b.iosqes /\ c.iocqes = b.iocqes /\ c.crime = b.crime
    BY DEF CCs
  <2> HIDE DEF c
  <2>5. n = Word(c)
    <3> DEFINE rest == b.en + b.res0 * 2 + b.css * 2^4 + b.ams * 2^11 + b.shn * 2^14
                       + b.iosqes * 2^16 + b.iocqes * 2^20 + b.crime * 2^24
    <3>1. rest \in Int /\ Word(b) = rest + b.mps * 2^7
      BY <1>0 DEF Word
    <3>2. Word(c) = rest + 0 * 2^7
      BY <1>0, <2>4 DEF Word
    <3> HIDE DEF rest
    <3> QED
      BY <1>0, <1>1, <2>3, <3>1, <3>2
  <2>6. /\ n \in 0 .. (2^25 - 1)
        /\ CC(n) = [en |-> c.en, css |-> c.css, mps |-> c.mps, ams |-> c.ams, shn |-> c.shn,
                    iosqes |-> c.iosqes, iocqes |-> c.iocqes]
    BY <1>3, <2>1, <2>5
  <2> QED
    BY <1>2, <2>4, <2>6
<1>8. ASSUME n = nvme_mmio_write_32(t, 11, 0, 3)
      PROVE  n \in 0 .. (2^25 - 1) /\ CC(n) = [CC(t) EXCEPT !.ams = 0]
  <2> DEFINE c == [b EXCEPT !.ams = 0]
  <2>1. c \in CCs
    BY DEF CCs
  <2>2. nvme_mmio_read_32(t, 11, 3) = b.ams
    BY <1>2 DEF CC
  <2>3. n = t - b.ams * 2^11 + 0 * 2^11
    BY <1>8, <2>2 DEF nvme_mmio_write_32
  <2>4. /\ c.en = b.en /\ c.res0 = b.res0 /\ c.css = b.css /\ c.mps = b.mps /\ c.ams = 0
        /\ c.shn = b.shn /\ c.iosqes = b.iosqes /\ c.iocqes = b.iocqes /\ c.crime = b.crime
    BY DEF CCs
  <2> HIDE DEF c
  <2>5. n = Word(c)
    <3> DEFINE rest == b.en + b.res0 * 2 + b.css * 2^4 + b.mps * 2^7 + b.shn * 2^14
                       + b.iosqes * 2^16 + b.iocqes * 2^20 + b.crime * 2^24
    <3>1. rest \in Int /\ Word(b) = rest + b.ams * 2^11
      BY <1>0 DEF Word
    <3>2. Word(c) = rest + 0 * 2^11
      BY <1>0, <2>4 DEF Word
    <3> HIDE DEF rest
    <3> QED
      BY <1>0, <1>1, <2>3, <3>1, <3>2
  <2>6. /\ n \in 0 .. (2^25 - 1)
        /\ CC(n) = [en |-> c.en, css |-> c.css, mps |-> c.mps, ams |-> c.ams, shn |-> c.shn,
                    iosqes |-> c.iosqes, iocqes |-> c.iocqes]
    BY <1>3, <2>1, <2>5
  <2> QED
    BY <1>2, <2>4, <2>6
<1>9. ASSUME n = nvme_mmio_write_32(t, 14, 0, 2)
      PROVE  n \in 0 .. (2^25 - 1) /\ CC(n) = [CC(t) EXCEPT !.shn = 0]
  <2> DEFINE c == [b EXCEPT !.shn = 0]
  <2>1. c \in CCs
    BY DEF CCs
  <2>2. nvme_mmio_read_32(t, 14, 2) = b.shn
    BY <1>2 DEF CC
  <2>3. n = t - b.shn * 2^14 + 0 * 2^14
    BY <1>9, <2>2 DEF nvme_mmio_write_32
  <2>4. /\ c.en = b.en /\ c.res0 = b.res0 /\ c.css = b.css /\ c.mps = b.mps /\ c.ams = b.ams
        /\ c.shn = 0 /\ c.iosqes = b.iosqes /\ c.iocqes = b.iocqes /\ c.crime = b.crime
    BY DEF CCs
  <2> HIDE DEF c
  <2>5. n = Word(c)
    <3> DEFINE rest == b.en + b.res0 * 2 + b.css * 2^4 + b.mps * 2^7 + b.ams * 2^11
                       + b.iosqes * 2^16 + b.iocqes * 2^20 + b.crime * 2^24
    <3>1. rest \in Int /\ Word(b) = rest + b.shn * 2^14
      BY <1>0 DEF Word
    <3>2. Word(c) = rest + 0 * 2^14
      BY <1>0, <2>4 DEF Word
    <3> HIDE DEF rest
    <3> QED
      BY <1>0, <1>1, <2>3, <3>1, <3>2
  <2>6. /\ n \in 0 .. (2^25 - 1)
        /\ CC(n) = [en |-> c.en, css |-> c.css, mps |-> c.mps, ams |-> c.ams, shn |-> c.shn,
                    iosqes |-> c.iosqes, iocqes |-> c.iocqes]
    BY <1>3, <2>1, <2>5
  <2> QED
    BY <1>2, <2>4, <2>6
<1>10. ASSUME n = nvme_mmio_write_32(t, 16, 6, 4)
      PROVE  n \in 0 .. (2^25 - 1) /\ CC(n) = [CC(t) EXCEPT !.iosqes = 6]
  <2> DEFINE c == [b EXCEPT !.iosqes = 6]
  <2>1. c \in CCs
    BY DEF CCs
  <2>2. nvme_mmio_read_32(t, 16, 4) = b.iosqes
    BY <1>2 DEF CC
  <2>3. n = t - b.iosqes * 2^16 + 6 * 2^16
    BY <1>10, <2>2 DEF nvme_mmio_write_32
  <2>4. /\ c.en = b.en /\ c.res0 = b.res0 /\ c.css = b.css /\ c.mps = b.mps /\ c.ams = b.ams
        /\ c.shn = b.shn /\ c.iosqes = 6 /\ c.iocqes = b.iocqes /\ c.crime = b.crime
    BY DEF CCs
  <2> HIDE DEF c
  <2>5. n = Word(c)
    <3> DEFINE rest == b.en + b.res0 * 2 + b.css * 2^4 + b.mps * 2^7 + b.ams * 2^11
                       + b.shn * 2^14 + b.iocqes * 2^20 + b.crime * 2^24
    <3>1. rest \in Int /\ Word(b) = rest + b.iosqes * 2^16
      BY <1>0 DEF Word
    <3>2. Word(c) = rest + 6 * 2^16
      BY <1>0, <2>4 DEF Word
    <3> HIDE DEF rest
    <3> QED
      BY <1>0, <1>1, <2>3, <3>1, <3>2
  <2>6. /\ n \in 0 .. (2^25 - 1)
        /\ CC(n) = [en |-> c.en, css |-> c.css, mps |-> c.mps, ams |-> c.ams, shn |-> c.shn,
                    iosqes |-> c.iosqes, iocqes |-> c.iocqes]
    BY <1>3, <2>1, <2>5
  <2> QED
    BY <1>2, <2>4, <2>6
<1>11. ASSUME n = nvme_mmio_write_32(t, 20, 4, 4)
      PROVE  n \in 0 .. (2^25 - 1) /\ CC(n) = [CC(t) EXCEPT !.iocqes = 4]
  <2> DEFINE c == [b EXCEPT !.iocqes = 4]
  <2>1. c \in CCs
    BY DEF CCs
  <2>2. nvme_mmio_read_32(t, 20, 4) = b.iocqes
    BY <1>2 DEF CC
  <2>3. n = t - b.iocqes * 2^20 + 4 * 2^20
    BY <1>11, <2>2 DEF nvme_mmio_write_32
  <2>4. /\ c.en = b.en /\ c.res0 = b.res0 /\ c.css = b.css /\ c.mps = b.mps /\ c.ams = b.ams
        /\ c.shn = b.shn /\ c.iosqes = b.iosqes /\ c.iocqes = 4 /\ c.crime = b.crime
    BY DEF CCs
  <2> HIDE DEF c
  <2>5. n = Word(c)
    <3> DEFINE rest == b.en + b.res0 * 2 + b.css * 2^4 + b.mps * 2^7 + b.ams * 2^11
                       + b.shn * 2^14 + b.iosqes * 2^16 + b.crime * 2^24
    <3>1. rest \in Int /\ Word(b) = rest + b.iocqes * 2^20
      BY <1>0 DEF Word
    <3>2. Word(c) = rest + 4 * 2^20
      BY <1>0, <2>4 DEF Word
    <3> HIDE DEF rest
    <3> QED
      BY <1>0, <1>1, <2>3, <3>1, <3>2
  <2>6. /\ n \in 0 .. (2^25 - 1)
        /\ CC(n) = [en |-> c.en, css |-> c.css, mps |-> c.mps, ams |-> c.ams, shn |-> c.shn,
                    iosqes |-> c.iosqes, iocqes |-> c.iocqes]
    BY <1>3, <2>1, <2>5
  <2> QED
    BY <1>2, <2>4, <2>6
<1> QED
  BY <1>4, <1>5, <1>6, <1>7, <1>8, <1>9, <1>10, <1>11, Zenon

(* The fields of AQA, ASQS and ACQS (nvme.h:111-116). *)
AQA(t) == [asqs |-> nvme_mmio_read_32(t, 0, 12), acqs |-> nvme_mmio_read_32(t, 16, 12)]

(* The same for the two writes of kernel.c:153-154. *)
LEMMA WriteAQA ==
  ASSUME NEW t \in 0 .. (2^28 - 1), NEW n
  PROVE  /\ n = nvme_mmio_write_32(t, 0, 31, 12) =>
              n \in 0 .. (2^28 - 1) /\ AQA(n) = [AQA(t) EXCEPT !.asqs = 31]
         /\ n = nvme_mmio_write_32(t, 16, 31, 12) =>
              n \in 0 .. (2^28 - 1) /\ AQA(n) = [AQA(t) EXCEPT !.acqs = 31]
<1>1. ASSUME n = nvme_mmio_write_32(t, 0, 31, 12)
      PROVE  n \in 0 .. (2^28 - 1) /\ AQA(n) = [AQA(t) EXCEPT !.asqs = 31]
  <2>1. n \in 0 .. (2^28 - 1) /\ nvme_mmio_read_32(n, 0, 12) = 31
    BY <1>1 DEF nvme_mmio_write_32, nvme_mmio_read_32
  <2>2. nvme_mmio_read_32(n, 16, 12) = nvme_mmio_read_32(t, 16, 12)
    BY <1>1 DEF nvme_mmio_write_32, nvme_mmio_read_32
  <2> QED
    BY <2>1, <2>2 DEF AQA
<1>2. ASSUME n = nvme_mmio_write_32(t, 16, 31, 12)
      PROVE  n \in 0 .. (2^28 - 1) /\ AQA(n) = [AQA(t) EXCEPT !.acqs = 31]
  <2>1. n \in 0 .. (2^28 - 1) /\ nvme_mmio_read_32(n, 16, 12) = 31
    BY <1>2 DEF nvme_mmio_write_32, nvme_mmio_read_32
  <2>2. nvme_mmio_read_32(n, 0, 12) = nvme_mmio_read_32(t, 0, 12)
    BY <1>2 DEF nvme_mmio_write_32, nvme_mmio_read_32
  <2> QED
    BY <2>1, <2>2 DEF AQA
<1> QED
  BY <1>1, <1>2, Zenon

(* nvme.c:25-35 with OFFS: the two words together give the value back,     *)
(* nothing is lost between them.                                           *)
LEMMA QueueAddress ==
  ASSUME NEW l \in 0 .. (WORD - 1), NEW h, NEW v \in 0 .. (WORD - 1),
         NEW w, w = nvme_mmio_write_64(l, h, OFFS, v)
  PROVE  w[1] \in 0 .. (WORD - 1) /\ w[2] \in 0 .. (WORD - 1) /\ Base(<<w[1], w[2]>>) = v
<1> DEFINE P == 2^OFFS
<1>1. PICK k \in 1 .. WORD : WORD = k * P
  BY WordAssumption
<1>2. P \in Nat \ {0} /\ WORD \in Nat \ {0} /\ k \in Nat \ {0}
  BY WordAssumption
<1> DEFINE r == l % P
           a == v \div k
           b == v % k
<1>3. w = <<(r + v * P) % WORD, ((v * P) \div WORD) % WORD>>
  BY DEF nvme_mmio_write_64
<1>4. Base(<<w[1], w[2]>>) = (w[2] * WORD + w[1]) \div P
  BY DEF Base
<1> HIDE DEF P
<1>5. r \in 0 .. (P - 1) /\ a \in Nat /\ b \in 0 .. (k - 1) /\ v = a * k + b
  BY <1>2
<1> HIDE DEF r, a, b
<1>6. v * P = a * WORD + b * P
  <2>1. (a * k + b) * P = a * (k * P) + b * P
    BY <1>2, <1>5
  <2> QED
    BY <1>1, <1>5, <2>1
<1>7. b * P \in Nat /\ b * P + r \in 0 .. (WORD - 1)
  <2>1. b * P \in Nat /\ (k - 1 - b) * P \in Nat
    BY <1>2, <1>5
  <2>2. (k - 1 - b) * P = k * P - P - b * P
    BY <1>2, <1>5
  <2> QED
    BY <1>1, <1>2, <1>5, <2>1, <2>2
<1>8. a \in 0 .. (WORD - 1)
  <2>1. a * k >= a /\ a * k \in Nat
    BY <1>2, <1>5
  <2> DEFINE ak == a * k
  <2>2. ak >= a /\ ak \in Nat /\ v = ak + b
    BY <1>5, <2>1
  <2> HIDE DEF ak
  <2> QED
    BY <1>2, <1>5, <2>2
<1> DEFINE c == b * P
           low == c + r
<1>9. c \in 0 .. (WORD - 1) /\ low \in 0 .. (WORD - 1) /\ v * P = a * WORD + c
  <2> HIDE DEF c
  <2>1. c \in Nat /\ c + r \in 0 .. (WORD - 1) /\ v * P = a * WORD + c
    BY <1>6, <1>7 DEF c
  <2> QED
    BY <1>2, <1>5, <2>1
<1> HIDE DEF c
<1>10. r + v * P = a * WORD + low
  <2> DEFINE vp == v * P
             aw == a * WORD
  <2>1. vp \in Nat /\ aw \in Nat
    BY <1>2, <1>5
  <2> HIDE DEF vp, aw
  <2>2. vp = aw + c
    BY <1>9 DEF vp, aw
  <2>3. r + vp = aw + low
    BY <1>5, <1>9, <2>1, <2>2
  <2> QED
    BY <2>3 DEF vp, aw
<1> HIDE DEF low
<1>11. (r + v * P) % WORD = low
  <2>1. PICK x : x = r + v * P
    OBVIOUS
  <2>2. Quotient(x, WORD, a, low)
    BY <1>10, <2>1, Zenon DEF Quotient
  <2>3. x % WORD = low
    BY <1>2, <1>5, <1>9, <2>2, Euclid
  <2> QED
    BY <2>1, <2>3, Zenon
<1>12. (v * P) \div WORD = a
  <2>1. PICK x : x = v * P
    OBVIOUS
  <2>2. Quotient(x, WORD, a, c)
    BY <1>9, <2>1, Zenon DEF Quotient
  <2>3. x \div WORD = a
    BY <1>2, <1>5, <1>9, <2>2, Euclid
  <2> QED
    BY <2>1, <2>3, Zenon
<1>13. w[1] = low /\ w[2] = a
  BY <1>2, <1>3, <1>8, <1>11, <1>12
<1>14. w[2] * WORD + w[1] = v * P + r
  <2> DEFINE vp == v * P
             aw == a * WORD
  <2>1. vp \in Nat /\ aw \in Nat
    BY <1>2, <1>5
  <2> HIDE DEF vp, aw
  <2>2. r + vp = aw + low
    BY <1>10 DEF vp, aw
  <2>3. aw + low = vp + r
    BY <1>5, <1>9, <2>1, <2>2
  <2> QED
    BY <1>13, <2>3 DEF vp, aw
<1>15. v \in Nat
  OBVIOUS
<1>16. (w[2] * WORD + w[1]) \div P = v
  <2>1. PICK x : x = w[2] * WORD + w[1]
    OBVIOUS
  <2>2. Quotient(x, P, v, r)
    BY <1>14, <2>1, Zenon DEF Quotient
  <2>3. x \div P = v
    BY <1>2, <1>5, <1>15, <2>2, Euclid
  <2> QED
    BY <2>1, <2>3, Zenon
<1> QED
  BY <1>4, <1>8, <1>9, <1>13, <1>16

(* f gives the offset of every field of layout. *)
IsOffsets(f, layout) ==
  f = [k \in 1 .. Len(layout) |-> IF k = 1 THEN 0 ELSE f[k - 1] + layout[k - 1][2]]

(* Field j, of that name, is the only one, and its offset is o. *)
IsField(k, layout, name) == k \in 1 .. Len(layout) /\ layout[k][1] = name
OnlyField(j, layout, name) == IsField(j, layout, name) /\ \A k : IsField(k, layout, name) => k = j
OffsetIs(layout, j, o) ==
  (\E f : IsOffsets(f, layout)) /\ \A f : IsOffsets(f, layout) => f[j] = o

(* A field found by its name is the bits its offset and width say. *)
LEMMA FieldAt ==
  ASSUME NEW layout, NEW name, NEW word, NEW j,
         OnlyField(j, layout, name), NEW o, OffsetIs(layout, j, o)
  PROVE  Field(layout, name, word) = nvme_mmio_read_32(word, o, layout[j][2])
<1> DEFINE F == CHOOSE f : IsOffsets(f, layout)
           J == CHOOSE k \in 1 .. Len(layout) : layout[k][1] = name
<1>1. IsOffsets(F, layout)
  BY Zenon DEF OffsetIs
<1>2. J = j
  <2>1. \E k \in 1 .. Len(layout) : layout[k][1] = name
    BY Zenon DEF IsField, OnlyField
  <2>2. IsField(J, layout, name)
    BY <2>1, Zenon DEF IsField
  <2> QED
    BY <2>2, Zenon DEF OnlyField
<1>3. Field(layout, name, word) = (word \div 2^F[J]) % 2^layout[J][2]
  BY Zenon DEF Field, IsOffsets
<1>4. F[J] = o
  BY <1>1, <1>2, Zenon DEF OffsetIs
<1> QED
  BY <1>2, <1>3, <1>4, Zenon DEF nvme_mmio_read_32

(* The declaration of CC, field by field. *)
LEMMA CCLayout ==
  LET L == NVME_CONTROLLER_CONFIGURATION
  IN  /\ Len(L) = 9
      /\ L[1] = <<"en", 1>> /\ L[2] = <<"res0", 3>> /\ L[3] = <<"css", 3>> /\ L[4] = <<"mps", 4>>
      /\ L[5] = <<"ams", 3>> /\ L[6] = <<"shn", 2>> /\ L[7] = <<"iosqes", 4>> /\ L[8] = <<"iocqes", 4>>
      /\ L[9] = <<"crime", 1>>
  BY DEF NVME_CONTROLLER_CONFIGURATION

(* Where the declaration of CC puts its fields. *)
LEMMA CCOffsets ==
  /\ \E f : IsOffsets(f, NVME_CONTROLLER_CONFIGURATION)
  /\ \A f : IsOffsets(f, NVME_CONTROLLER_CONFIGURATION) =>
       /\ f[1] = 0 /\ f[2] = 1 /\ f[3] = 4 /\ f[4] = 7 /\ f[5] = 11 /\ f[6] = 14 /\ f[7] = 16
       /\ f[8] = 20 /\ f[9] = 24
<1> DEFINE L == NVME_CONTROLLER_CONFIGURATION
           w == [k \in 1 .. 9 |-> L[k][2]]
<1>1. /\ Len(L) = 9 /\ w[1] = 1 /\ w[2] = 3 /\ w[3] = 3 /\ w[4] = 4
      /\ w[5] = 3 /\ w[6] = 2 /\ w[7] = 4 /\ w[8] = 4
  BY CCLayout
<1>2. \A k \in 1 .. 9 : k # 1 => L[k - 1][2] = w[k - 1]
  OBVIOUS
<1> HIDE DEF w
<1>3. ASSUME NEW f
      PROVE  IsOffsets(f, L) <=> f = [k \in 1 .. 9 |-> IF k = 1 THEN 0 ELSE f[k - 1] + w[k - 1]]
  BY <1>1, <1>2 DEF IsOffsets
<1>4. ASSUME NEW f, IsOffsets(f, L)
      PROVE  /\ f[1] = 0 /\ f[2] = 1 /\ f[3] = 4 /\ f[4] = 7 /\ f[5] = 11 /\ f[6] = 14 /\ f[7] = 16
             /\ f[8] = 20 /\ f[9] = 24
  <2>1. \A k \in 1 .. 9 : f[k] = IF k = 1 THEN 0 ELSE f[k - 1] + w[k - 1]
    BY <1>3, <1>4
  <2> QED
    BY <1>1, <2>1
<1>5. \E f : IsOffsets(f, L)
  <2> DEFINE g == [k \in 1 .. 9 |-> IF k = 1 THEN 0 ELSE IF k = 2 THEN 1 ELSE IF k = 3 THEN 4
                    ELSE IF k = 4 THEN 7 ELSE IF k = 5 THEN 11 ELSE IF k = 6 THEN 14
                    ELSE IF k = 7 THEN 16 ELSE IF k = 8 THEN 20 ELSE 24]
  <2>1. \A k \in 1 .. 9 : g[k] = IF k = 1 THEN 0 ELSE g[k - 1] + w[k - 1]
    BY <1>1
  <2>2. g = [k \in 1 .. 9 |-> g[k]]
    OBVIOUS
  <2> HIDE DEF g
  <2>3. g = [k \in 1 .. 9 |-> IF k = 1 THEN 0 ELSE g[k - 1] + w[k - 1]]
    BY <2>1, <2>2
  <2> QED
    BY <1>3, <2>3
<1> QED
  BY <1>4, <1>5, Zenon

(* The fields of CC by its declaration are those the kernel writes. *)
LEMMA FieldsCC ==
  ASSUME NEW t
  PROVE  LET cc(name) == Field(NVME_CONTROLLER_CONFIGURATION, name, t)
         IN  /\ cc("en") = CC(t).en /\ cc("css") = CC(t).css /\ cc("mps") = CC(t).mps
             /\ cc("ams") = CC(t).ams /\ cc("shn") = CC(t).shn
             /\ cc("iosqes") = CC(t).iosqes /\ cc("iocqes") = CC(t).iocqes
<1> DEFINE L == NVME_CONTROLLER_CONFIGURATION
<1>2. ASSUME NEW j \in 1 .. 9, NEW o, OffsetIs(L, j, o)
      PROVE  Field(L, L[j][1], t) = nvme_mmio_read_32(t, o, L[j][2])
  <2>1. OnlyField(j, L, L[j][1])
    BY CCLayout DEF IsField, OnlyField
  <2> QED
    BY <1>2, <2>1, FieldAt, Zenon
<1>3. Field(L, "en", t) = CC(t).en
  <2>1. 1 \in 1 .. 9 /\ L[1][1] = "en" /\ L[1][2] = 1 /\ OffsetIs(L, 1, 0)
    BY CCLayout, CCOffsets DEF OffsetIs
  <2>2. Field(L, L[1][1], t) = nvme_mmio_read_32(t, 0, L[1][2])
    BY <1>2, <2>1, Zenon
  <2>3. Field(L, "en", t) = nvme_mmio_read_32(t, 0, 1)
    BY <2>1, <2>2, Zenon
  <2> QED
    BY <2>3 DEF CC
<1>4. Field(L, "css", t) = CC(t).css
  <2>1. 3 \in 1 .. 9 /\ L[3][1] = "css" /\ L[3][2] = 3 /\ OffsetIs(L, 3, 4)
    BY CCLayout, CCOffsets DEF OffsetIs
  <2>2. Field(L, L[3][1], t) = nvme_mmio_read_32(t, 4, L[3][2])
    BY <1>2, <2>1, Zenon
  <2>3. Field(L, "css", t) = nvme_mmio_read_32(t, 4, 3)
    BY <2>1, <2>2, Zenon
  <2> QED
    BY <2>3 DEF CC
<1>5. Field(L, "mps", t) = CC(t).mps
  <2>1. 4 \in 1 .. 9 /\ L[4][1] = "mps" /\ L[4][2] = 4 /\ OffsetIs(L, 4, 7)
    BY CCLayout, CCOffsets DEF OffsetIs
  <2>2. Field(L, L[4][1], t) = nvme_mmio_read_32(t, 7, L[4][2])
    BY <1>2, <2>1, Zenon
  <2>3. Field(L, "mps", t) = nvme_mmio_read_32(t, 7, 4)
    BY <2>1, <2>2, Zenon
  <2> QED
    BY <2>3 DEF CC
<1>6. Field(L, "ams", t) = CC(t).ams
  <2>1. 5 \in 1 .. 9 /\ L[5][1] = "ams" /\ L[5][2] = 3 /\ OffsetIs(L, 5, 11)
    BY CCLayout, CCOffsets DEF OffsetIs
  <2>2. Field(L, L[5][1], t) = nvme_mmio_read_32(t, 11, L[5][2])
    BY <1>2, <2>1, Zenon
  <2>3. Field(L, "ams", t) = nvme_mmio_read_32(t, 11, 3)
    BY <2>1, <2>2, Zenon
  <2> QED
    BY <2>3 DEF CC
<1>7. Field(L, "shn", t) = CC(t).shn
  <2>1. 6 \in 1 .. 9 /\ L[6][1] = "shn" /\ L[6][2] = 2 /\ OffsetIs(L, 6, 14)
    BY CCLayout, CCOffsets DEF OffsetIs
  <2>2. Field(L, L[6][1], t) = nvme_mmio_read_32(t, 14, L[6][2])
    BY <1>2, <2>1, Zenon
  <2>3. Field(L, "shn", t) = nvme_mmio_read_32(t, 14, 2)
    BY <2>1, <2>2, Zenon
  <2> QED
    BY <2>3 DEF CC
<1>8. Field(L, "iosqes", t) = CC(t).iosqes
  <2>1. 7 \in 1 .. 9 /\ L[7][1] = "iosqes" /\ L[7][2] = 4 /\ OffsetIs(L, 7, 16)
    BY CCLayout, CCOffsets DEF OffsetIs
  <2>2. Field(L, L[7][1], t) = nvme_mmio_read_32(t, 16, L[7][2])
    BY <1>2, <2>1, Zenon
  <2>3. Field(L, "iosqes", t) = nvme_mmio_read_32(t, 16, 4)
    BY <2>1, <2>2, Zenon
  <2> QED
    BY <2>3 DEF CC
<1>9. Field(L, "iocqes", t) = CC(t).iocqes
  <2>1. 8 \in 1 .. 9 /\ L[8][1] = "iocqes" /\ L[8][2] = 4 /\ OffsetIs(L, 8, 20)
    BY CCLayout, CCOffsets DEF OffsetIs
  <2>2. Field(L, L[8][1], t) = nvme_mmio_read_32(t, 20, L[8][2])
    BY <1>2, <2>1, Zenon
  <2>3. Field(L, "iocqes", t) = nvme_mmio_read_32(t, 20, 4)
    BY <2>1, <2>2, Zenon
  <2> QED
    BY <2>3 DEF CC
<1> QED
  BY <1>3, <1>4, <1>5, <1>6, <1>7, <1>8, <1>9
(* c is the n elements of a followed by the m of b. *)
Joins(c, S, a, n, b, m) ==
  /\ c \in Seq(S) /\ Len(c) = n + m
  /\ \A k \in 1 .. n : c[k] = a[k]
  /\ \A k \in 1 .. m : c[n + k] = b[k]

(* What \o does, with the lengths at hand. *)
LEMMA Concat ==
  ASSUME NEW S, NEW s \in Seq(S), NEW t \in Seq(S), NEW n \in Nat, n = Len(s), NEW m \in Nat, m = Len(t)
  PROVE  Joins(s \o t, S, s, n, t, m)
  BY DEF Joins

(* The fourteen statements of the bring-up (kernel.c:149-166). *)
LEMMA Table ==
  /\ Len(Bringup) = 14
  /\ Bringup[1] = Set("CC", 0, 0, 1) /\ Bringup[2] = Poll(0)
  /\ Bringup[3] = Set("AQA", 0, 31, 12) /\ Bringup[4] = Set("AQA", 16, 31, 12)
  /\ Bringup[5] = Queue("ASQ", asq) /\ Bringup[6] = Queue("ACQ", acq)
  /\ Bringup[7] = Set("CC", 4, 0, 3) /\ Bringup[8] = Set("CC", 7, 0, 4)
  /\ Bringup[9] = Set("CC", 11, 0, 3) /\ Bringup[10] = Set("CC", 14, 0, 2)
  /\ Bringup[11] = Set("CC", 16, 6, 4) /\ Bringup[12] = Set("CC", 20, 4, 4)
  /\ Bringup[13] = Set("CC", 0, 1, 1) /\ Bringup[14] = Poll(1)
<1> DEFINE S == {Set("CC", 0, 0, 1), Poll(0), Set("AQA", 0, 31, 12), Set("AQA", 16, 31, 12),
                 Queue("ASQ", asq), Queue("ACQ", acq), Set("CC", 4, 0, 3), Set("CC", 7, 0, 4),
                 Set("CC", 11, 0, 3), Set("CC", 14, 0, 2), Set("CC", 16, 6, 4), Set("CC", 20, 4, 4),
                 Set("CC", 0, 1, 1), Poll(1)}
           s2 == Disable \o Queues
           s3 == s2 \o Fields
<1>0. /\ Set("CC", 0, 0, 1) \in S /\ Poll(0) \in S /\ Set("AQA", 0, 31, 12) \in S
      /\ Set("AQA", 16, 31, 12) \in S
      /\ Queue("ASQ", asq) \in S /\ Queue("ACQ", acq) \in S /\ Set("CC", 4, 0, 3) \in S
      /\ Set("CC", 7, 0, 4) \in S
      /\ Set("CC", 11, 0, 3) \in S /\ Set("CC", 14, 0, 2) \in S /\ Set("CC", 16, 6, 4) \in S
      /\ Set("CC", 20, 4, 4) \in S /\ Set("CC", 0, 1, 1) \in S /\ Poll(1) \in S
  OBVIOUS
<1> HIDE DEF S
<1>1. Disable \in Seq(S) /\ Queues \in Seq(S) /\ Fields \in Seq(S) /\ Enable \in Seq(S)
  BY <1>0 DEF Disable, Queues, Fields, Enable,
       NVME_ADMIN_QUEUE_ENTRIES, NVME_SQE_SIZE_LOG, NVME_CQE_SIZE_LOG
<1>2. Len(Disable) = 2 /\ Len(Queues) = 4 /\ Len(Fields) = 6 /\ Len(Enable) = 2
  BY DEF Disable, Queues, Fields, Enable
<1>3. Bringup = s3 \o Enable
  BY DEF Bringup
<1> HIDE DEF s3
<1>4. Joins(s2, S, Disable, 2, Queues, 4)
  BY <1>1, <1>2, Concat
<1> HIDE DEF s2
<1>5. Joins(s3, S, s2, 6, Fields, 6)
  <2>1. s2 \in Seq(S) /\ Len(s2) = 6
    BY <1>4 DEF Joins
  <2> QED
    BY <1>1, <1>2, <2>1, Concat DEF s3
<1>6. Joins(Bringup, S, s3, 12, Enable, 2)
  <2>1. s3 \in Seq(S) /\ Len(s3) = 12
    BY <1>5 DEF Joins
  <2> QED
    BY <1>1, <1>2, <1>3, <2>1, Concat
<1>7. /\ Bringup[1] = Disable[1] /\ Bringup[2] = Disable[2]
      /\ Bringup[3] = Queues[1] /\ Bringup[4] = Queues[2] /\ Bringup[5] = Queues[3]
      /\ Bringup[6] = Queues[4]
      /\ Bringup[7] = Fields[1] /\ Bringup[8] = Fields[2] /\ Bringup[9] = Fields[3]
      /\ Bringup[10] = Fields[4] /\ Bringup[11] = Fields[5] /\ Bringup[12] = Fields[6]
      /\ Bringup[13] = Enable[1] /\ Bringup[14] = Enable[2]
  BY <1>4, <1>5, <1>6 DEF Joins
<1>8. Len(Bringup) = 14
  BY <1>6 DEF Joins
<1> QED
  BY <1>7, <1>8 DEF Disable, Queues, Fields, Enable,
       NVME_ADMIN_QUEUE_ENTRIES, NVME_SQE_SIZE_LOG, NVME_CQE_SIZE_LOG

(* The fields of AQA by its declaration are those the kernel writes. *)
LEMMA FieldsAQA ==
  ASSUME NEW t
  PROVE  /\ Field(NVME_ADMIN_QUEUE_ATTRIBUTES, "asqs", t) = AQA(t).asqs
         /\ Field(NVME_ADMIN_QUEUE_ATTRIBUTES, "acqs", t) = AQA(t).acqs
<1> DEFINE L == NVME_ADMIN_QUEUE_ATTRIBUTES
<1>1. Len(L) = 3 /\ L[1] = <<"asqs", 12>> /\ L[2] = <<"res0", 4>> /\ L[3] = <<"acqs", 12>>
  BY DEF NVME_ADMIN_QUEUE_ATTRIBUTES
<1> DEFINE w == [k \in 1 .. 3 |-> L[k][2]]
<1>2. /\ w[1] = 12 /\ w[2] = 4
      /\ \A k \in 1 .. 3 : k # 1 => L[k - 1][2] = w[k - 1]
  BY <1>1
<1> HIDE DEF w
<1>3. ASSUME NEW f
      PROVE  IsOffsets(f, L) <=> f = [k \in 1 .. 3 |-> IF k = 1 THEN 0 ELSE f[k - 1] + w[k - 1]]
  BY <1>1, <1>2 DEF IsOffsets
<1>4. ASSUME NEW f, IsOffsets(f, L)
      PROVE  f[1] = 0 /\ f[3] = 16
  <2>1. \A k \in 1 .. 3 : f[k] = IF k = 1 THEN 0 ELSE f[k - 1] + w[k - 1]
    BY <1>3, <1>4
  <2> QED
    BY <1>2, <2>1
<1>5. \E f : IsOffsets(f, L)
  <2> DEFINE g == [k \in 1 .. 3 |-> IF k = 1 THEN 0 ELSE IF k = 2 THEN 12 ELSE 16]
  <2>1. \A k \in 1 .. 3 : g[k] = IF k = 1 THEN 0 ELSE g[k - 1] + w[k - 1]
    BY <1>2
  <2>2. g = [k \in 1 .. 3 |-> g[k]]
    OBVIOUS
  <2> HIDE DEF g
  <2>3. g = [k \in 1 .. 3 |-> IF k = 1 THEN 0 ELSE g[k - 1] + w[k - 1]]
    BY <2>1, <2>2
  <2> QED
    BY <1>3, <2>3
<1>6. OffsetIs(L, 1, 0) /\ OffsetIs(L, 3, 16)
  BY <1>4, <1>5 DEF OffsetIs
<1>7. OnlyField(1, L, "asqs") /\ OnlyField(3, L, "acqs")
  BY <1>1 DEF OnlyField, IsField
<1> HIDE DEF L
<1>8. Field(L, "asqs", t) = nvme_mmio_read_32(t, 0, L[1][2])
  <2>1. OnlyField(1, L, "asqs") /\ OffsetIs(L, 1, 0)
    BY <1>6, <1>7, Zenon
  <2> QED
    BY <2>1, FieldAt, Zenon
<1>9. Field(L, "acqs", t) = nvme_mmio_read_32(t, 16, L[3][2])
  <2>1. OnlyField(3, L, "acqs") /\ OffsetIs(L, 3, 16)
    BY <1>6, <1>7, Zenon
  <2> QED
    BY <2>1, FieldAt, Zenon
<1> QED
  BY <1>1, <1>8, <1>9 DEF L, AQA

-----------------------------------------------------------------------------
(* The controller is off from the second statement to the one that turns   *)
(* it on, at rest once the first poll is over, and what it took over when  *)
(* it became ready again is what the registers hold.                       *)
Resting ==
  /\ pc \in 2 .. 13 => CC(reg["CC"]).en = 0
  /\ pc \in 3 .. 13 => rdy = 0
  /\ pc \in 14 .. 15 => CC(reg["CC"]).en = 1
  /\ pc \in 14 .. 15 /\ rdy = 1 => taken = reg
  /\ pc = 15 => rdy = 1

(* The fields and queue registers behind pc are the kernel's. *)
Written ==
  /\ pc > 3 => AQA(reg["AQA"]).asqs = 31
  /\ pc > 4 => AQA(reg["AQA"]).acqs = 31
  /\ pc > 5 => Base(reg["ASQ"]) = asq
  /\ pc > 6 => Base(reg["ACQ"]) = acq
  /\ pc > 7 => CC(reg["CC"]).css = 0
  /\ pc > 8 => CC(reg["CC"]).mps = 0
  /\ pc > 9 => CC(reg["CC"]).ams = 0
  /\ pc > 10 => CC(reg["CC"]).shn = 0
  /\ pc > 11 => CC(reg["CC"]).iosqes = 6
  /\ pc > 12 => CC(reg["CC"]).iocqes = 4

(* A high word that is still to be written goes with the low word that was.*)
Halves ==
  high # << >> =>
    \/ pc = 5 /\ Base(<<reg["ASQ"][1], high[1]>>) = asq
    \/ pc = 6 /\ Base(<<reg["ACQ"][1], high[1]>>) = acq

IInv == TypeOK /\ Resting /\ Written /\ Halves

(* The type of the registers, one by one. *)
LEMMA RegTypes ==
  ASSUME TypeOK
  PROVE  /\ pc \in 1 .. 15
         /\ reg = [CC |-> reg["CC"], AQA |-> reg["AQA"], ASQ |-> reg["ASQ"], ACQ |-> reg["ACQ"]]
         /\ reg["CC"] \in 0 .. (2^25 - 1) /\ reg["AQA"] \in 0 .. (2^28 - 1)
         /\ reg["ASQ"] \in Words /\ reg["ACQ"] \in Words
<1>1. Len(Bringup) + 1 = 15
  BY Table
<1>2. pc \in 1 .. 15
  BY <1>1 DEF TypeOK
<1> QED
  BY <1>2 DEF TypeOK

(* The controller as the firmware left it. *)
LEMMA InitIInv == Init => IInv
<1> SUFFICES ASSUME Init PROVE IInv
  OBVIOUS
<1>1. PICK cc \in PriorCC, aqa \in PriorAQA, low \in PriorWords, hi \in PriorWords :
        reg = [CC |-> cc, AQA |-> aqa, ASQ |-> <<low, hi>>, ACQ |-> <<low, hi>>]
  BY DEF Init
<1>2. pc = 1 /\ high = << >> /\ dstrd \in Strides /\ rdy \in {0, 1} /\ cfs = 0
  BY DEF Init
<1>3. reg \in [CC: 0 .. (2^25 - 1), AQA: 0 .. (2^28 - 1), ASQ: Words, ACQ: Words]
  BY <1>1, PriorAssumption DEF Words
<1>4. TypeOK
  <2>1. Len(Bringup) + 1 = 15
    BY Table
  <2>2. pc \in 1 .. (Len(Bringup) + 1) /\ cfs \in {0, 1}
    BY <1>2, <2>1
  <2> QED
    BY <1>2, <1>3, <2>2, Zenon DEF TypeOK
<1> QED
  BY <1>2, <1>4 DEF IInv, Resting, Written, Halves

(* EN as the kernel polls it. *)
LEMMA ENField == EN = CC(reg["CC"]).en
  BY DEF EN, CC

(* Statement p gives CC, or AQA, the fields of b. *)
CCWrite(p, b)  == pc = p /\ CC(reg'["CC"]) = b /\ reg'["AQA"] = reg["AQA"]
AQAWrite(p, b) == pc = p /\ AQA(reg'["AQA"]) = b /\ reg'["CC"] = reg["CC"]

(* The statements of the bring-up that write a field. *)
FieldWrites ==
  \/ CCWrite(1, [CC(reg["CC"]) EXCEPT !.en = 0])
  \/ AQAWrite(3, [AQA(reg["AQA"]) EXCEPT !.asqs = 31])
  \/ AQAWrite(4, [AQA(reg["AQA"]) EXCEPT !.acqs = 31])
  \/ CCWrite(7, [CC(reg["CC"]) EXCEPT !.css = 0])
  \/ CCWrite(8, [CC(reg["CC"]) EXCEPT !.mps = 0])
  \/ CCWrite(9, [CC(reg["CC"]) EXCEPT !.ams = 0])
  \/ CCWrite(10, [CC(reg["CC"]) EXCEPT !.shn = 0])
  \/ CCWrite(11, [CC(reg["CC"]) EXCEPT !.iosqes = 6])
  \/ CCWrite(12, [CC(reg["CC"]) EXCEPT !.iocqes = 4])
  \/ CCWrite(13, [CC(reg["CC"]) EXCEPT !.en = 1])

(* A write changes one field of CC or AQA, the one the statement names. *)
LEMMA Write32Cases ==
  ASSUME TypeOK, Write32
  PROVE  /\ pc' = pc + 1 /\ high' = high /\ dstrd' = dstrd /\ rdy' = rdy /\ cfs' = cfs /\ taken' = taken
         /\ reg'["ASQ"] = reg["ASQ"] /\ reg'["ACQ"] = reg["ACQ"]
         /\ reg' \in [CC: 0 .. (2^25 - 1), AQA: 0 .. (2^28 - 1), ASQ: Words, ACQ: Words]
         /\ FieldWrites
<1>1. pc \in 1 .. 14
  BY RegTypes, Table DEF Write32, Finished
<1>2. /\ Bringup[pc].op = "write_32"
      /\ reg' = [reg EXCEPT ![Bringup[pc].reg] =
                   nvme_mmio_write_32(@, Bringup[pc].offs2, Bringup[pc].value, Bringup[pc].size)]
  BY DEF Write32
<1>3. pc' = pc + 1 /\ high' = high /\ dstrd' = dstrd /\ rdy' = rdy /\ cfs' = cfs /\ taken' = taken
  BY DEF Write32
<1>4. pc \in {1, 3, 4, 7, 8, 9, 10, 11, 12, 13}
  BY <1>1, <1>2, Table DEF Set, Poll, Queue
<1>5. /\ reg["CC"] \in 0 .. (2^25 - 1) /\ reg["AQA"] \in 0 .. (2^28 - 1)
      /\ reg \in [CC: 0 .. (2^25 - 1), AQA: 0 .. (2^28 - 1), ASQ: Words, ACQ: Words]
  BY DEF TypeOK
<1>6. CASE pc = 1
  <2>1. PICK n : n = nvme_mmio_write_32(reg["CC"], 0, 0, 1)
    OBVIOUS
  <2>2. n \in 0 .. (2^25 - 1) /\ CC(n) = [CC(reg["CC"]) EXCEPT !.en = 0]
    BY <1>5, <2>1, WriteCC
  <2>3. Bringup[pc] = Set("CC", 0, 0, 1)
    BY <1>6, Table
  <2>4. reg' = [reg EXCEPT !["CC"] = n]
    BY <1>2, <2>1, <2>3 DEF Set
  <2>5. /\ reg'["CC"] = n /\ reg'["AQA"] = reg["AQA"]
        /\ reg'["ASQ"] = reg["ASQ"] /\ reg'["ACQ"] = reg["ACQ"]
        /\ reg' \in [CC: 0 .. (2^25 - 1), AQA: 0 .. (2^28 - 1), ASQ: Words, ACQ: Words]
    BY <1>5, <2>2, <2>4
  <2>6. CCWrite(1, [CC(reg["CC"]) EXCEPT !.en = 0])
    BY <1>6, <2>2, <2>5, Zenon DEF CCWrite
  <2>7. FieldWrites
    BY <2>6, Zenon DEF FieldWrites
  <2> QED
    BY <1>3, <2>5, <2>7, Zenon
<1>7. CASE pc = 3
  <2>1. PICK n : n = nvme_mmio_write_32(reg["AQA"], 0, 31, 12)
    OBVIOUS
  <2>2. n \in 0 .. (2^28 - 1) /\ AQA(n) = [AQA(reg["AQA"]) EXCEPT !.asqs = 31]
    BY <1>5, <2>1, WriteAQA
  <2>3. Bringup[pc] = Set("AQA", 0, 31, 12)
    BY <1>7, Table
  <2>4. reg' = [reg EXCEPT !["AQA"] = n]
    BY <1>2, <2>1, <2>3 DEF Set
  <2>5. /\ reg'["AQA"] = n /\ reg'["CC"] = reg["CC"]
        /\ reg'["ASQ"] = reg["ASQ"] /\ reg'["ACQ"] = reg["ACQ"]
        /\ reg' \in [CC: 0 .. (2^25 - 1), AQA: 0 .. (2^28 - 1), ASQ: Words, ACQ: Words]
    BY <1>5, <2>2, <2>4
  <2>6. AQAWrite(3, [AQA(reg["AQA"]) EXCEPT !.asqs = 31])
    BY <1>7, <2>2, <2>5, Zenon DEF AQAWrite
  <2>7. FieldWrites
    BY <2>6, Zenon DEF FieldWrites
  <2> QED
    BY <1>3, <2>5, <2>7, Zenon
<1>8. CASE pc = 4
  <2>1. PICK n : n = nvme_mmio_write_32(reg["AQA"], 16, 31, 12)
    OBVIOUS
  <2>2. n \in 0 .. (2^28 - 1) /\ AQA(n) = [AQA(reg["AQA"]) EXCEPT !.acqs = 31]
    BY <1>5, <2>1, WriteAQA
  <2>3. Bringup[pc] = Set("AQA", 16, 31, 12)
    BY <1>8, Table
  <2>4. reg' = [reg EXCEPT !["AQA"] = n]
    BY <1>2, <2>1, <2>3 DEF Set
  <2>5. /\ reg'["AQA"] = n /\ reg'["CC"] = reg["CC"]
        /\ reg'["ASQ"] = reg["ASQ"] /\ reg'["ACQ"] = reg["ACQ"]
        /\ reg' \in [CC: 0 .. (2^25 - 1), AQA: 0 .. (2^28 - 1), ASQ: Words, ACQ: Words]
    BY <1>5, <2>2, <2>4
  <2>6. AQAWrite(4, [AQA(reg["AQA"]) EXCEPT !.acqs = 31])
    BY <1>8, <2>2, <2>5, Zenon DEF AQAWrite
  <2>7. FieldWrites
    BY <2>6, Zenon DEF FieldWrites
  <2> QED
    BY <1>3, <2>5, <2>7, Zenon
<1>9. CASE pc = 7
  <2>1. PICK n : n = nvme_mmio_write_32(reg["CC"], 4, 0, 3)
    OBVIOUS
  <2>2. n \in 0 .. (2^25 - 1) /\ CC(n) = [CC(reg["CC"]) EXCEPT !.css = 0]
    BY <1>5, <2>1, WriteCC
  <2>3. Bringup[pc] = Set("CC", 4, 0, 3)
    BY <1>9, Table
  <2>4. reg' = [reg EXCEPT !["CC"] = n]
    BY <1>2, <2>1, <2>3 DEF Set
  <2>5. /\ reg'["CC"] = n /\ reg'["AQA"] = reg["AQA"]
        /\ reg'["ASQ"] = reg["ASQ"] /\ reg'["ACQ"] = reg["ACQ"]
        /\ reg' \in [CC: 0 .. (2^25 - 1), AQA: 0 .. (2^28 - 1), ASQ: Words, ACQ: Words]
    BY <1>5, <2>2, <2>4
  <2>6. CCWrite(7, [CC(reg["CC"]) EXCEPT !.css = 0])
    BY <1>9, <2>2, <2>5, Zenon DEF CCWrite
  <2>7. FieldWrites
    BY <2>6, Zenon DEF FieldWrites
  <2> QED
    BY <1>3, <2>5, <2>7, Zenon
<1>10. CASE pc = 8
  <2>1. PICK n : n = nvme_mmio_write_32(reg["CC"], 7, 0, 4)
    OBVIOUS
  <2>2. n \in 0 .. (2^25 - 1) /\ CC(n) = [CC(reg["CC"]) EXCEPT !.mps = 0]
    BY <1>5, <2>1, WriteCC
  <2>3. Bringup[pc] = Set("CC", 7, 0, 4)
    BY <1>10, Table
  <2>4. reg' = [reg EXCEPT !["CC"] = n]
    BY <1>2, <2>1, <2>3 DEF Set
  <2>5. /\ reg'["CC"] = n /\ reg'["AQA"] = reg["AQA"]
        /\ reg'["ASQ"] = reg["ASQ"] /\ reg'["ACQ"] = reg["ACQ"]
        /\ reg' \in [CC: 0 .. (2^25 - 1), AQA: 0 .. (2^28 - 1), ASQ: Words, ACQ: Words]
    BY <1>5, <2>2, <2>4
  <2>6. CCWrite(8, [CC(reg["CC"]) EXCEPT !.mps = 0])
    BY <1>10, <2>2, <2>5, Zenon DEF CCWrite
  <2>7. FieldWrites
    BY <2>6, Zenon DEF FieldWrites
  <2> QED
    BY <1>3, <2>5, <2>7, Zenon
<1>11. CASE pc = 9
  <2>1. PICK n : n = nvme_mmio_write_32(reg["CC"], 11, 0, 3)
    OBVIOUS
  <2>2. n \in 0 .. (2^25 - 1) /\ CC(n) = [CC(reg["CC"]) EXCEPT !.ams = 0]
    BY <1>5, <2>1, WriteCC
  <2>3. Bringup[pc] = Set("CC", 11, 0, 3)
    BY <1>11, Table
  <2>4. reg' = [reg EXCEPT !["CC"] = n]
    BY <1>2, <2>1, <2>3 DEF Set
  <2>5. /\ reg'["CC"] = n /\ reg'["AQA"] = reg["AQA"]
        /\ reg'["ASQ"] = reg["ASQ"] /\ reg'["ACQ"] = reg["ACQ"]
        /\ reg' \in [CC: 0 .. (2^25 - 1), AQA: 0 .. (2^28 - 1), ASQ: Words, ACQ: Words]
    BY <1>5, <2>2, <2>4
  <2>6. CCWrite(9, [CC(reg["CC"]) EXCEPT !.ams = 0])
    BY <1>11, <2>2, <2>5, Zenon DEF CCWrite
  <2>7. FieldWrites
    BY <2>6, Zenon DEF FieldWrites
  <2> QED
    BY <1>3, <2>5, <2>7, Zenon
<1>12. CASE pc = 10
  <2>1. PICK n : n = nvme_mmio_write_32(reg["CC"], 14, 0, 2)
    OBVIOUS
  <2>2. n \in 0 .. (2^25 - 1) /\ CC(n) = [CC(reg["CC"]) EXCEPT !.shn = 0]
    BY <1>5, <2>1, WriteCC
  <2>3. Bringup[pc] = Set("CC", 14, 0, 2)
    BY <1>12, Table
  <2>4. reg' = [reg EXCEPT !["CC"] = n]
    BY <1>2, <2>1, <2>3 DEF Set
  <2>5. /\ reg'["CC"] = n /\ reg'["AQA"] = reg["AQA"]
        /\ reg'["ASQ"] = reg["ASQ"] /\ reg'["ACQ"] = reg["ACQ"]
        /\ reg' \in [CC: 0 .. (2^25 - 1), AQA: 0 .. (2^28 - 1), ASQ: Words, ACQ: Words]
    BY <1>5, <2>2, <2>4
  <2>6. CCWrite(10, [CC(reg["CC"]) EXCEPT !.shn = 0])
    BY <1>12, <2>2, <2>5, Zenon DEF CCWrite
  <2>7. FieldWrites
    BY <2>6, Zenon DEF FieldWrites
  <2> QED
    BY <1>3, <2>5, <2>7, Zenon
<1>13. CASE pc = 11
  <2>1. PICK n : n = nvme_mmio_write_32(reg["CC"], 16, 6, 4)
    OBVIOUS
  <2>2. n \in 0 .. (2^25 - 1) /\ CC(n) = [CC(reg["CC"]) EXCEPT !.iosqes = 6]
    BY <1>5, <2>1, WriteCC
  <2>3. Bringup[pc] = Set("CC", 16, 6, 4)
    BY <1>13, Table
  <2>4. reg' = [reg EXCEPT !["CC"] = n]
    BY <1>2, <2>1, <2>3 DEF Set
  <2>5. /\ reg'["CC"] = n /\ reg'["AQA"] = reg["AQA"]
        /\ reg'["ASQ"] = reg["ASQ"] /\ reg'["ACQ"] = reg["ACQ"]
        /\ reg' \in [CC: 0 .. (2^25 - 1), AQA: 0 .. (2^28 - 1), ASQ: Words, ACQ: Words]
    BY <1>5, <2>2, <2>4
  <2>6. CCWrite(11, [CC(reg["CC"]) EXCEPT !.iosqes = 6])
    BY <1>13, <2>2, <2>5, Zenon DEF CCWrite
  <2>7. FieldWrites
    BY <2>6, Zenon DEF FieldWrites
  <2> QED
    BY <1>3, <2>5, <2>7, Zenon
<1>14. CASE pc = 12
  <2>1. PICK n : n = nvme_mmio_write_32(reg["CC"], 20, 4, 4)
    OBVIOUS
  <2>2. n \in 0 .. (2^25 - 1) /\ CC(n) = [CC(reg["CC"]) EXCEPT !.iocqes = 4]
    BY <1>5, <2>1, WriteCC
  <2>3. Bringup[pc] = Set("CC", 20, 4, 4)
    BY <1>14, Table
  <2>4. reg' = [reg EXCEPT !["CC"] = n]
    BY <1>2, <2>1, <2>3 DEF Set
  <2>5. /\ reg'["CC"] = n /\ reg'["AQA"] = reg["AQA"]
        /\ reg'["ASQ"] = reg["ASQ"] /\ reg'["ACQ"] = reg["ACQ"]
        /\ reg' \in [CC: 0 .. (2^25 - 1), AQA: 0 .. (2^28 - 1), ASQ: Words, ACQ: Words]
    BY <1>5, <2>2, <2>4
  <2>6. CCWrite(12, [CC(reg["CC"]) EXCEPT !.iocqes = 4])
    BY <1>14, <2>2, <2>5, Zenon DEF CCWrite
  <2>7. FieldWrites
    BY <2>6, Zenon DEF FieldWrites
  <2> QED
    BY <1>3, <2>5, <2>7, Zenon
<1>15. CASE pc = 13
  <2>1. PICK n : n = nvme_mmio_write_32(reg["CC"], 0, 1, 1)
    OBVIOUS
  <2>2. n \in 0 .. (2^25 - 1) /\ CC(n) = [CC(reg["CC"]) EXCEPT !.en = 1]
    BY <1>5, <2>1, WriteCC
  <2>3. Bringup[pc] = Set("CC", 0, 1, 1)
    BY <1>15, Table
  <2>4. reg' = [reg EXCEPT !["CC"] = n]
    BY <1>2, <2>1, <2>3 DEF Set
  <2>5. /\ reg'["CC"] = n /\ reg'["AQA"] = reg["AQA"]
        /\ reg'["ASQ"] = reg["ASQ"] /\ reg'["ACQ"] = reg["ACQ"]
        /\ reg' \in [CC: 0 .. (2^25 - 1), AQA: 0 .. (2^28 - 1), ASQ: Words, ACQ: Words]
    BY <1>5, <2>2, <2>4
  <2>6. CCWrite(13, [CC(reg["CC"]) EXCEPT !.en = 1])
    BY <1>15, <2>2, <2>5, Zenon DEF CCWrite
  <2>7. FieldWrites
    BY <2>6, Zenon DEF FieldWrites
  <2> QED
    BY <1>3, <2>5, <2>7, Zenon
<1> QED
  BY <1>4, <1>6, <1>7, <1>8, <1>9, <1>10, <1>11, <1>12, <1>13, <1>14, <1>15

(* The bring-up has fourteen statements. *)
LEMMA Length == Len(Bringup) = 14 /\ Len(Bringup) + 1 = 15
<1>1. Len(Bringup) = 14
  BY Table, Zenon
<1> QED
  BY <1>1

(* TypeOK of the next state from its parts. *)
LEMMA TypeStep ==
  ASSUME pc' \in 1 .. 15, high' = << >> \/ \E w \in 0 .. (WORD - 1) : high' = <<w>>,
         reg' \in [CC: 0 .. (2^25 - 1), AQA: 0 .. (2^28 - 1), ASQ: Words, ACQ: Words],
         dstrd' \in Strides, rdy' \in {0, 1}, cfs' \in {0, 1}
  PROVE  TypeOK'
<1>1. 1 .. 15 = 1 .. (Len(Bringup) + 1)
  BY Length, Zenon
<1> QED
  BY <1>1, Zenon DEF TypeOK

(* The fields kernel.c writes, as a record. *)
LEMMA Records ==
  ASSUME NEW t
  PROVE  /\ CC(t) = [en |-> CC(t).en, css |-> CC(t).css, mps |-> CC(t).mps, ams |-> CC(t).ams,
                     shn |-> CC(t).shn, iosqes |-> CC(t).iosqes, iocqes |-> CC(t).iocqes]
         /\ AQA(t) = [asqs |-> AQA(t).asqs, acqs |-> AQA(t).acqs]
  BY DEF CC, AQA

(* Write32 keeps the invariant. *)
LEMMA Write32IInv ==
  ASSUME IInv, Write32
  PROVE  IInv'
<1>0. TypeOK
  BY DEF IInv
<1>1. /\ pc' = pc + 1 /\ high' = high /\ dstrd' = dstrd /\ rdy' = rdy /\ cfs' = cfs /\ taken' = taken
      /\ reg'["ASQ"] = reg["ASQ"] /\ reg'["ACQ"] = reg["ACQ"]
  BY <1>0, Write32Cases, Zenon
<1>2. reg' \in [CC: 0 .. (2^25 - 1), AQA: 0 .. (2^28 - 1), ASQ: Words, ACQ: Words]
  BY <1>0, Write32Cases, Zenon
<1>3. FieldWrites
  BY <1>0, Write32Cases, Zenon
<1>4. pc \in {1, 3, 4, 7, 8, 9, 10, 11, 12, 13}
  BY <1>3 DEF FieldWrites, CCWrite, AQAWrite
<1>5. TypeOK'
  <2>1. pc' \in 1 .. 15
    BY <1>1, <1>4
  <2>2. /\ high = << >> \/ \E w \in 0 .. (WORD - 1) : high = <<w>>
        /\ dstrd \in Strides /\ rdy \in {0, 1} /\ cfs \in {0, 1}
    BY <1>0, Zenon DEF TypeOK
  <2> QED
    BY <1>1, <1>2, <2>1, <2>2, TypeStep, Zenon
<1>6. Halves'
  <2>1. high = << >>
    BY <1>4 DEF IInv, Halves
  <2> QED
    BY <1>1, <2>1 DEF Halves
<1>7. Resting' /\ Written'
  <2> DEFINE c == CC(reg["CC"])
             d == CC(reg'["CC"])
             q == AQA(reg["AQA"])
             r == AQA(reg'["AQA"])
  <2>1. Resting /\ Written
    BY DEF IInv
  <2>2. /\ c = [en |-> c.en, css |-> c.css, mps |-> c.mps, ams |-> c.ams, shn |-> c.shn,
                iosqes |-> c.iosqes, iocqes |-> c.iocqes]
        /\ q = [asqs |-> q.asqs, acqs |-> q.acqs]
    BY Records, Zenon
  <2>3. CASE CCWrite(1, [CC(reg["CC"]) EXCEPT !.en = 0])
    <3>1. /\ pc = 1 /\ r = q
          /\ d.en = 0 /\ d.css = c.css /\ d.mps = c.mps /\ d.ams = c.ams /\ d.shn = c.shn
          /\ d.iosqes = c.iosqes /\ d.iocqes = c.iocqes
      BY <2>2, <2>3 DEF CCWrite
    <3> QED
      BY <1>1, <2>1, <3>1 DEF Resting, Written
  <2>4. CASE AQAWrite(3, [AQA(reg["AQA"]) EXCEPT !.asqs = 31])
    <3>1. pc = 3 /\ d = c /\ r.asqs = 31 /\ r.acqs = q.acqs
      BY <2>2, <2>4 DEF AQAWrite
    <3> QED
      BY <1>1, <2>1, <3>1 DEF Resting, Written
  <2>5. CASE AQAWrite(4, [AQA(reg["AQA"]) EXCEPT !.acqs = 31])
    <3>1. pc = 4 /\ d = c /\ r.acqs = 31 /\ r.asqs = q.asqs
      BY <2>2, <2>5 DEF AQAWrite
    <3> QED
      BY <1>1, <2>1, <3>1 DEF Resting, Written
  <2>6. CASE CCWrite(7, [CC(reg["CC"]) EXCEPT !.css = 0])
    <3>1. /\ pc = 7 /\ r = q
          /\ d.en = c.en /\ d.css = 0 /\ d.mps = c.mps /\ d.ams = c.ams /\ d.shn = c.shn
          /\ d.iosqes = c.iosqes /\ d.iocqes = c.iocqes
      BY <2>2, <2>6 DEF CCWrite
    <3> QED
      BY <1>1, <2>1, <3>1 DEF Resting, Written
  <2>7. CASE CCWrite(8, [CC(reg["CC"]) EXCEPT !.mps = 0])
    <3>1. /\ pc = 8 /\ r = q
          /\ d.en = c.en /\ d.css = c.css /\ d.mps = 0 /\ d.ams = c.ams /\ d.shn = c.shn
          /\ d.iosqes = c.iosqes /\ d.iocqes = c.iocqes
      BY <2>2, <2>7 DEF CCWrite
    <3> QED
      BY <1>1, <2>1, <3>1 DEF Resting, Written
  <2>8. CASE CCWrite(9, [CC(reg["CC"]) EXCEPT !.ams = 0])
    <3>1. /\ pc = 9 /\ r = q
          /\ d.en = c.en /\ d.css = c.css /\ d.mps = c.mps /\ d.ams = 0 /\ d.shn = c.shn
          /\ d.iosqes = c.iosqes /\ d.iocqes = c.iocqes
      BY <2>2, <2>8 DEF CCWrite
    <3> QED
      BY <1>1, <2>1, <3>1 DEF Resting, Written
  <2>9. CASE CCWrite(10, [CC(reg["CC"]) EXCEPT !.shn = 0])
    <3>1. /\ pc = 10 /\ r = q
          /\ d.en = c.en /\ d.css = c.css /\ d.mps = c.mps /\ d.ams = c.ams /\ d.shn = 0
          /\ d.iosqes = c.iosqes /\ d.iocqes = c.iocqes
      BY <2>2, <2>9 DEF CCWrite
    <3> QED
      BY <1>1, <2>1, <3>1 DEF Resting, Written
  <2>10. CASE CCWrite(11, [CC(reg["CC"]) EXCEPT !.iosqes = 6])
    <3>1. /\ pc = 11 /\ r = q
          /\ d.en = c.en /\ d.css = c.css /\ d.mps = c.mps /\ d.ams = c.ams /\ d.shn = c.shn
          /\ d.iosqes = 6 /\ d.iocqes = c.iocqes
      BY <2>2, <2>10 DEF CCWrite
    <3> QED
      BY <1>1, <2>1, <3>1 DEF Resting, Written
  <2>11. CASE CCWrite(12, [CC(reg["CC"]) EXCEPT !.iocqes = 4])
    <3>1. /\ pc = 12 /\ r = q
          /\ d.en = c.en /\ d.css = c.css /\ d.mps = c.mps /\ d.ams = c.ams /\ d.shn = c.shn
          /\ d.iosqes = c.iosqes /\ d.iocqes = 4
      BY <2>2, <2>11 DEF CCWrite
    <3> QED
      BY <1>1, <2>1, <3>1 DEF Resting, Written
  <2>12. CASE CCWrite(13, [CC(reg["CC"]) EXCEPT !.en = 1])
    <3>1. /\ pc = 13 /\ r = q
          /\ d.en = 1 /\ d.css = c.css /\ d.mps = c.mps /\ d.ams = c.ams /\ d.shn = c.shn
          /\ d.iosqes = c.iosqes /\ d.iocqes = c.iocqes
      BY <2>2, <2>12 DEF CCWrite
    <3> QED
      BY <1>1, <2>1, <3>1 DEF Resting, Written
  <2> QED
    BY <1>3, <2>3, <2>4, <2>5, <2>6, <2>7, <2>8, <2>9, <2>10, <2>11, <2>12, Zenon DEF FieldWrites
<1> QED
  BY <1>5, <1>6, <1>7 DEF IInv

(* The word nvme.c:33 writes and the one nvme.c:34 writes, of queue r. *)
LEMMA Write64Cases ==
  ASSUME TypeOK, Write64
  PROVE  \E r \in {"ASQ", "ACQ"}, a \in {asq, acq} :
           /\ (pc = 5 /\ r = "ASQ" /\ a = asq) \/ (pc = 6 /\ r = "ACQ" /\ a = acq)
           /\ \/ /\ high = << >> /\ pc' = pc
                 /\ \E w : /\ w = nvme_mmio_write_64(reg[r][1], reg[r][2], OFFS, a)
                           /\ reg' = [reg EXCEPT ![r][1] = w[1]] /\ high' = <<w[2]>>
              \/ /\ high # << >> /\ pc' = pc + 1
                 /\ reg' = [reg EXCEPT ![r][2] = Head(high)] /\ high' = << >>
<1>1. pc \in 1 .. 14
  BY RegTypes, Length DEF Write64, Finished
<1>2. /\ Bringup[pc].op = "write_64"
      /\ \/ /\ high = << >> /\ pc' = pc
            /\ \E w : /\ w = nvme_mmio_write_64(reg[Bringup[pc].reg][1], reg[Bringup[pc].reg][2],
                                               Bringup[pc].offs2, Bringup[pc].value)
                      /\ reg' = [reg EXCEPT ![Bringup[pc].reg][1] = w[1]] /\ high' = <<w[2]>>
         \/ /\ high # << >> /\ pc' = pc + 1
            /\ reg' = [reg EXCEPT ![Bringup[pc].reg][2] = Head(high)] /\ high' = << >>
  BY Zenon DEF Write64
<1>3. pc = 5 \/ pc = 6
  BY <1>1, <1>2, Table DEF Set, Poll, Queue
<1>4. CASE pc = 5
  <2>1. Bringup[pc].reg = "ASQ" /\ Bringup[pc].offs2 = OFFS /\ Bringup[pc].value = asq
    BY <1>4, Table DEF Queue
  <2> QED
    BY <1>2, <1>4, <2>1, Zenon
<1>5. CASE pc = 6
  <2>1. Bringup[pc].reg = "ACQ" /\ Bringup[pc].offs2 = OFFS /\ Bringup[pc].value = acq
    BY <1>5, Table DEF Queue
  <2> QED
    BY <1>2, <1>5, <2>1, Zenon
<1> QED
  BY <1>3, <1>4, <1>5

(* The values of the registers. *)
Registers == [CC: 0 .. (2^25 - 1), AQA: 0 .. (2^28 - 1), ASQ: Words, ACQ: Words]

(* new is old but for queue register r, which is words. *)
QueueSet(old, new, r, words) ==
  /\ new \in Registers /\ new[r] = words
  /\ new["CC"] = old["CC"] /\ new["AQA"] = old["AQA"]
  /\ r = "ACQ" => new["ASQ"] = old["ASQ"]

(* A queue register with its first, or its second, word replaced. *)
LEMMA QueueRegister ==
  ASSUME NEW old \in Registers, NEW r \in {"ASQ", "ACQ"}, NEW x \in 0 .. (WORD - 1)
  PROVE  /\ QueueSet(old, [old EXCEPT ![r][1] = x], r, <<x, old[r][2]>>)
         /\ QueueSet(old, [old EXCEPT ![r][2] = x], r, <<old[r][1], x>>)
<1>1. old[r] \in Words
  BY DEF Registers
<1>2. PICK lo \in 0 .. (WORD - 1), hi \in 0 .. (WORD - 1) : old[r] = <<lo, hi>>
  BY <1>1 DEF Words
<1>3. old[r][1] = lo /\ old[r][2] = hi
  BY <1>2
<1>4. /\ [<<lo, hi>> EXCEPT ![1] = x] = <<x, hi>>
      /\ [<<lo, hi>> EXCEPT ![2] = x] = <<lo, x>>
  OBVIOUS
<1>5. /\ [old EXCEPT ![r][1] = x] = [old EXCEPT ![r] = [old[r] EXCEPT ![1] = x]]
      /\ [old EXCEPT ![r][2] = x] = [old EXCEPT ![r] = [old[r] EXCEPT ![2] = x]]
  OBVIOUS
<1>6. /\ [old EXCEPT ![r][1] = x] = [old EXCEPT ![r] = <<x, hi>>]
      /\ [old EXCEPT ![r][2] = x] = [old EXCEPT ![r] = <<lo, x>>]
  BY <1>2, <1>4, <1>5, Zenon
<1>7. <<x, hi>> \in Words /\ <<lo, x>> \in Words
  BY DEF Words
<1>8. ASSUME NEW y \in Words
      PROVE  QueueSet(old, [old EXCEPT ![r] = y], r, y)
  BY DEF QueueSet, Registers
<1>9. /\ QueueSet(old, [old EXCEPT ![r] = <<x, hi>>], r, <<x, hi>>)
      /\ QueueSet(old, [old EXCEPT ![r] = <<lo, x>>], r, <<lo, x>>)
  BY <1>7, <1>8, Zenon
<1> QED
  BY <1>3, <1>6, <1>9, Zenon

(* Write64 keeps the invariant. *)
LEMMA Write64IInv ==
  ASSUME IInv, Write64
  PROVE  IInv'
<1>0. TypeOK
  BY DEF IInv
<1>1. PICK r \in {"ASQ", "ACQ"}, a \in {asq, acq} :
        /\ (pc = 5 /\ r = "ASQ" /\ a = asq) \/ (pc = 6 /\ r = "ACQ" /\ a = acq)
        /\ \/ /\ high = << >> /\ pc' = pc
              /\ \E w : /\ w = nvme_mmio_write_64(reg[r][1], reg[r][2], OFFS, a)
                        /\ reg' = [reg EXCEPT ![r][1] = w[1]] /\ high' = <<w[2]>>
           \/ /\ high # << >> /\ pc' = pc + 1
              /\ reg' = [reg EXCEPT ![r][2] = Head(high)] /\ high' = << >>
  BY <1>0, Write64Cases, Zenon
<1>2. dstrd' = dstrd /\ rdy' = rdy /\ cfs' = cfs /\ taken' = taken
  BY DEF Write64
<1>3. /\ pc \in {5, 6} /\ (pc = 5 => r = "ASQ" /\ a = asq) /\ (pc = 6 => r = "ACQ" /\ a = acq)
      /\ r = "ASQ" \/ r = "ACQ"
  BY <1>1
<1>4. /\ reg \in Registers
      /\ dstrd \in Strides /\ rdy \in {0, 1} /\ cfs \in {0, 1}
      /\ high = << >> \/ \E w \in 0 .. (WORD - 1) : high = <<w>>
  BY <1>0, Zenon DEF TypeOK, Registers
<1>9. reg[r][1] \in 0 .. (WORD - 1)
  <2>1. reg["ASQ"] \in Words /\ reg["ACQ"] \in Words
    BY <1>0, RegTypes
  <2> QED
    BY <1>3, <2>1 DEF Words
<1>5. a \in 0 .. (WORD - 1)
  BY <1>1, QueuesAssumption
<1>6. Resting /\ Written /\ Halves
  BY DEF IInv
<1>7. CASE high = << >>
  <2>1. PICK w : /\ w = nvme_mmio_write_64(reg[r][1], reg[r][2], OFFS, a)
                 /\ reg' = [reg EXCEPT ![r][1] = w[1]] /\ high' = <<w[2]>>
    BY <1>1, <1>7, Zenon
  <2>2. pc' = pc
    BY <1>1, <1>7, Zenon
  <2>3. w[1] \in 0 .. (WORD - 1) /\ w[2] \in 0 .. (WORD - 1) /\ Base(<<w[1], w[2]>>) = a
    BY <1>5, <1>9, <2>1, QueueAddress
  <2>4. QueueSet(reg, reg', r, <<w[1], reg[r][2]>>)
    BY <1>4, <2>1, <2>3, QueueRegister, Zenon
  <2>5. TypeOK'
    <3>1. pc' \in 1 .. 15
      BY <1>3, <2>2
    <3>2. \E x \in 0 .. (WORD - 1) : high' = <<x>>
      BY <2>1, <2>3, Zenon
    <3> QED
      BY <1>2, <1>4, <2>4, <3>1, <3>2, TypeStep, Zenon DEF QueueSet, Registers
  <2>6. high'[1] = w[2] /\ reg'[r][1] = w[1]
    <3>1. reg'[r] = <<w[1], reg[r][2]>> /\ high' = <<w[2]>>
      BY <2>1, <2>4, Zenon DEF QueueSet
    <3> QED
      BY <3>1
  <2>7. Halves'
    BY <1>3, <2>2, <2>3, <2>6 DEF Halves
  <2>8. Resting' /\ Written'
    <3>1. reg'["CC"] = reg["CC"] /\ reg'["AQA"] = reg["AQA"] /\ (pc = 6 => reg'["ASQ"] = reg["ASQ"])
      BY <1>3, <2>4, Zenon DEF QueueSet
    <3> QED
      BY <1>2, <1>3, <1>6, <2>2, <3>1 DEF Resting, Written
  <2> QED
    BY <2>5, <2>7, <2>8 DEF IInv
<1>8. CASE high # << >>
  <2>1. reg' = [reg EXCEPT ![r][2] = Head(high)] /\ high' = << >> /\ pc' = pc + 1
    BY <1>1, <1>8, Zenon
  <2>2. PICK x \in 0 .. (WORD - 1) : high = <<x>>
    BY <1>4, <1>8, Zenon
  <2>3. Head(high) = x /\ high[1] = x
    BY <2>2
  <2>4. Base(<<reg[r][1], x>>) = a
    BY <1>3, <1>6, <1>8, <2>3 DEF Halves
  <2>5. QueueSet(reg, reg', r, <<reg[r][1], x>>)
    <3>1. reg' = [reg EXCEPT ![r][2] = x]
      BY <2>1, <2>3, Zenon
    <3> QED
      BY <1>4, <3>1, QueueRegister, Zenon
  <2>6. TypeOK'
    <3>1. pc' \in 1 .. 15
      BY <1>3, <2>1
    <3> QED
      BY <1>2, <1>4, <2>1, <2>5, <3>1, TypeStep, Zenon DEF QueueSet, Registers
  <2>7. Halves'
    BY <2>1 DEF Halves
  <2>8. Resting' /\ Written'
    <3>1. /\ reg'["CC"] = reg["CC"] /\ reg'["AQA"] = reg["AQA"]
          /\ pc = 5 => Base(reg'["ASQ"]) = asq
          /\ pc = 6 => reg'["ASQ"] = reg["ASQ"] /\ Base(reg'["ACQ"]) = acq
      BY <1>3, <2>4, <2>5 DEF QueueSet
    <3>2. pc' = pc + 1
      BY <2>1
    <3> QED
      BY <1>2, <1>3, <1>6, <3>1, <3>2 DEF Resting, Written
  <2> QED
    BY <2>6, <2>7, <2>8 DEF IInv
<1> QED
  BY <1>7, <1>8

(* A turn of a poll keeps the invariant: it ends only with the value it    *)
(* waits for.                                                              *)
LEMMA PollIInv ==
  ASSUME IInv, PollRdy
  PROVE  IInv'
<1>0. TypeOK /\ Resting /\ Written /\ Halves
  BY DEF IInv
<1>1. /\ high' = high /\ reg' = reg /\ dstrd' = dstrd /\ rdy' = rdy /\ cfs' = cfs /\ taken' = taken
      /\ Bringup[pc].op = "poll"
      /\ pc' = IF rdy = Bringup[pc].value THEN pc + 1 ELSE pc
  BY DEF PollRdy
<1>2. pc \in 1 .. 14
  BY <1>0, RegTypes, Length DEF PollRdy, Finished
<1>3. pc = 2 \/ pc = 14
  BY <1>1, <1>2, Table DEF Set, Poll, Queue
<1>4. (pc = 2 => Bringup[pc].value = 0) /\ (pc = 14 => Bringup[pc].value = 1)
  BY Table DEF Poll
<1>5. pc' = pc \/ (pc = 2 /\ pc' = 3 /\ rdy = 0) \/ (pc = 14 /\ pc' = 15 /\ rdy = 1)
  BY <1>1, <1>3, <1>4
<1>6. TypeOK'
  <2>1. pc' \in 1 .. 15
    BY <1>3, <1>5
  <2> QED
    BY <1>0, <1>1, <2>1, TypeStep, Zenon DEF TypeOK
<1>7. Halves'
  BY <1>0, <1>1, <1>3, <1>5 DEF Halves
<1>8. Resting' /\ Written'
  BY <1>0, <1>1, <1>3, <1>5 DEF Resting, Written
<1> QED
  BY <1>6, <1>7, <1>8 DEF IInv

(* The controller keeps the invariant: becoming ready, it takes over what  *)
(* is in the registers.                                                    *)
LEMMA FollowIInv ==
  ASSUME IInv, FollowEN
  PROVE  IInv'
<1>0. TypeOK /\ Resting /\ Written /\ Halves
  BY DEF IInv
<1>1. /\ pc' = pc /\ high' = high /\ reg' = reg /\ dstrd' = dstrd /\ cfs' = cfs
      /\ rdy # CC(reg["CC"]).en /\ rdy' = CC(reg["CC"]).en
      /\ taken' = IF CC(reg["CC"]).en = 1 THEN reg ELSE taken
  BY ENField DEF FollowEN
<1>2. pc \in 1 .. 15 /\ rdy \in {0, 1}
  BY <1>0, RegTypes DEF TypeOK
<1>3. CC(reg["CC"]).en \in {0, 1}
  <2>1. reg["CC"] \in 0 .. (2^25 - 1)
    BY <1>0, RegTypes
  <2> QED
    BY <2>1 DEF CC, nvme_mmio_read_32
<1>4. TypeOK'
  BY <1>0, <1>1, <1>2, <1>3, TypeStep, Zenon DEF TypeOK
<1>5. Halves' /\ Written'
  BY <1>0, <1>1 DEF Halves, Written
<1>6. Resting'
  BY <1>0, <1>1, <1>2, <1>3 DEF Resting
<1> QED
  BY <1>4, <1>5, <1>6 DEF IInv

(* Every step keeps the invariant. *)
LEMMA NextIInv == IInv /\ [Next]_vars => IInv'
<1> SUFFICES ASSUME IInv, [Next]_vars PROVE IInv'
  OBVIOUS
<1>1. CASE Kernel
  BY <1>1, Write32IInv, Write64IInv, PollIInv DEF Kernel
<1>2. CASE FollowEN
  BY <1>2, FollowIInv
<1>3. CASE Fail
  <2>1. /\ pc' = pc /\ high' = high /\ reg' = reg /\ dstrd' = dstrd /\ rdy' = rdy /\ taken' = taken
        /\ cfs' \in {0, 1}
    BY <1>3 DEF Fail
  <2>2. TypeOK /\ Resting /\ Written /\ Halves
    BY DEF IInv
  <2>3. TypeOK'
    BY <2>1, <2>2, Zenon DEF TypeOK
  <2> QED
    BY <2>1, <2>2, <2>3 DEF IInv, Resting, Written, Halves
<1>4. CASE UNCHANGED vars
  <2>1. /\ pc' = pc /\ high' = high /\ reg' = reg /\ dstrd' = dstrd /\ rdy' = rdy /\ taken' = taken
        /\ cfs' = cfs
    BY <1>4 DEF vars
  <2>2. TypeOK /\ Resting /\ Written /\ Halves
    BY DEF IInv
  <2>3. TypeOK'
    BY <2>1, <2>2, Zenon DEF TypeOK
  <2> QED
    BY <2>1, <2>2, <2>3 DEF IInv, Resting, Written, Halves
<1> QED
  BY <1>1, <1>2, <1>3, <1>4 DEF Next, Up

(* What the registers, the controller and the kernel's place in the        *)
(* bring-up have to do with each other, in every state.                    *)
THEOREM Invariance == Spec => []IInv
<1>1. Init => IInv
  BY InitIInv
<1>2. IInv /\ [Next]_vars => IInv'
  BY NextIInv
<1> QED
  BY <1>1, <1>2, PTL DEF Spec

(* A queue register changes only at the statements that write it, and      *)
(* there the controller is off and at rest.                                *)
LEMMA ChangeAtRest ==
  ASSUME IInv, [Next]_vars,
         <<reg["AQA"], reg["ASQ"], reg["ACQ"]>>' # <<reg["AQA"], reg["ASQ"], reg["ACQ"]>>
  PROVE  EN = 0 /\ rdy = 0
<1>0. TypeOK /\ Resting
  BY DEF IInv
<1>1. ~ (reg'["AQA"] = reg["AQA"] /\ reg'["ASQ"] = reg["ASQ"] /\ reg'["ACQ"] = reg["ACQ"])
  OBVIOUS
<1>2. reg' # reg
  BY <1>1
<1>3. Write32 \/ Write64
  BY <1>2 DEF Next, Kernel, PollRdy, FollowEN, Fail, Up, vars
<1>4. CASE Write32
  <2>1. reg'["ASQ"] = reg["ASQ"] /\ reg'["ACQ"] = reg["ACQ"] /\ FieldWrites
    BY <1>0, <1>4, Write32Cases, Zenon
  <2>2. pc \in 3 .. 4
    BY <1>1, <2>1 DEF FieldWrites, CCWrite, AQAWrite
  <2> QED
    BY <1>0, <2>2, ENField DEF Resting
<1>5. CASE Write64
  <2>1. pc = 5 \/ pc = 6
    BY <1>0, <1>5, Write64Cases, Zenon
  <2> QED
    BY <1>0, <2>1, ENField DEF Resting
<1> QED
  BY <1>3, <1>4, <1>5

(* The admin queues are set up only while the controller is off and no     *)
(* longer ready, in whatever state the firmware left it.                   *)
THEOREM QueuesOnlyAtRest == Spec => QueuesSetAtRest
<1>1. IInv /\ [Next]_vars =>
        [<<reg["AQA"], reg["ASQ"], reg["ACQ"]>>' # <<reg["AQA"], reg["ASQ"], reg["ACQ"]>>
           => EN = 0 /\ rdy = 0]_vars
  BY ChangeAtRest, Zenon
<1> QED
  BY <1>1, Invariance, PTL DEF Spec, QueuesSetAtRest

(* The doorbells, for the strides a window of three pages has room for. *)
LEMMA Doorbells == ASSUME TypeOK PROVE DoorbellsMapped
<1> SUFFICES ASSUME dstrd <= 10
             PROVE  /\ Doorbell(0, 0) # Doorbell(0, 1)
                    /\ \A dir \in {0, 1} : Doorbell(0, dir) \div 4096 < BarPages
  BY DEF DoorbellsMapped
<1>1. dstrd \in Nat
  BY PriorAssumption DEF TypeOK
<1>2. dstrd \in {0, 1, 2, 3, 4, 5, 6, 7, 8, 9, 10}
  BY <1>1
<1>3. PICK s : s = 4 * 2^dstrd
  OBVIOUS
<1>4. s \in Int /\ 4 <= s /\ s <= 4096
  <2> DEFINE Short(k) == 2^k \in Int /\ 1 <= 2^k /\ 2^k <= 1024
  <2>1. /\ Short(0) /\ Short(1) /\ Short(2) /\ Short(3) /\ Short(4) /\ Short(5)
        /\ Short(6) /\ Short(7) /\ Short(8) /\ Short(9) /\ Short(10)
    OBVIOUS
  <2> HIDE DEF Short
  <2>2. Short(dstrd)
    BY <1>2, <2>1, Zenon
  <2> QED
    BY <1>3, <2>2 DEF Short
<1>5. Doorbell(0, 0) = 4096 /\ Doorbell(0, 1) = 4096 + s
  BY <1>3, <1>4 DEF Doorbell
<1>6. 4096 \div 4096 < 3 /\ (4096 + s) \div 4096 < 3
  BY <1>4
<1> QED
  BY <1>4, <1>5, <1>6 DEF BarPages

(* What the controller took over, read by the declarations of nvme.h. *)
LEMMA Taken == ASSUME IInv PROVE ConfigurationTaken /\ QueueWordsWhole
<1> SUFFICES ASSUME Finished
             PROVE  /\ rdy = 1 /\ Field(NVME_CONTROLLER_CONFIGURATION, "en", taken["CC"]) = 1
                    /\ Field(NVME_ADMIN_QUEUE_ATTRIBUTES, "asqs", taken["AQA"]) + 1 = 32
                    /\ Field(NVME_ADMIN_QUEUE_ATTRIBUTES, "acqs", taken["AQA"]) + 1 = 32
                    /\ 2^Field(NVME_CONTROLLER_CONFIGURATION, "iosqes", taken["CC"]) = 64
                    /\ 2^Field(NVME_CONTROLLER_CONFIGURATION, "iocqes", taken["CC"]) = 16
                    /\ \A name \in {"css", "mps", "ams", "shn"} :
                         Field(NVME_CONTROLLER_CONFIGURATION, name, taken["CC"]) = 0
                    /\ Base(taken["ASQ"]) = asq /\ Base(taken["ACQ"]) = acq
  BY Zenon DEF ConfigurationTaken, QueueWordsWhole
<1>1. TypeOK /\ Resting /\ Written
  BY DEF IInv
<1>2. pc = 15
  BY <1>1, RegTypes, Length DEF Finished
<1>3. rdy = 1 /\ taken = reg /\ CC(reg["CC"]).en = 1
  BY <1>1, <1>2 DEF Resting
<1>4. /\ AQA(reg["AQA"]).asqs = 31 /\ AQA(reg["AQA"]).acqs = 31
      /\ Base(reg["ASQ"]) = asq /\ Base(reg["ACQ"]) = acq
      /\ CC(reg["CC"]).css = 0 /\ CC(reg["CC"]).mps = 0 /\ CC(reg["CC"]).ams = 0
      /\ CC(reg["CC"]).shn = 0 /\ CC(reg["CC"]).iosqes = 6 /\ CC(reg["CC"]).iocqes = 4
  BY <1>1, <1>2 DEF Written
<1>5. 31 + 1 = 32 /\ 2^6 = 64 /\ 2^4 = 16
  OBVIOUS
<1>6. /\ Field(NVME_CONTROLLER_CONFIGURATION, "en", taken["CC"]) = 1
      /\ Field(NVME_CONTROLLER_CONFIGURATION, "css", taken["CC"]) = 0
      /\ Field(NVME_CONTROLLER_CONFIGURATION, "mps", taken["CC"]) = 0
      /\ Field(NVME_CONTROLLER_CONFIGURATION, "ams", taken["CC"]) = 0
      /\ Field(NVME_CONTROLLER_CONFIGURATION, "shn", taken["CC"]) = 0
      /\ Field(NVME_CONTROLLER_CONFIGURATION, "iosqes", taken["CC"]) = 6
      /\ Field(NVME_CONTROLLER_CONFIGURATION, "iocqes", taken["CC"]) = 4
  BY <1>3, <1>4, FieldsCC, Zenon
<1>7. /\ Field(NVME_ADMIN_QUEUE_ATTRIBUTES, "asqs", taken["AQA"]) = 31
      /\ Field(NVME_ADMIN_QUEUE_ATTRIBUTES, "acqs", taken["AQA"]) = 31
  BY <1>3, <1>4, FieldsAQA, Zenon
<1>8. \A name \in {"css", "mps", "ams", "shn"} :
        Field(NVME_CONTROLLER_CONFIGURATION, name, taken["CC"]) = 0
  BY <1>6, Zenon
<1> QED
  BY <1>3, <1>4, <1>5, <1>6, <1>7, <1>8, Zenon

(* The controller runs with what the kernel asked for, whatever the        *)
(* firmware left in its registers.                                         *)
THEOREM ControllerConfigured == Spec => []ControllerSound
<1>1. IInv => ControllerSound
  BY Taken, Doorbells DEF ControllerSound, IInv
<1> QED
  BY <1>1, Invariance, PTL

-----------------------------------------------------------------------------
(* What the assumptions say of the constants of Acpi. *)
LEMMA AcpiAssumption ==
  /\ Xsdts \subseteq Seq(Signatures) /\ Names \subseteq Signatures /\ "APIC" \in Names
  /\ Rates \subseteq Nat \ {0} /\ Reloads \subseteq Acpi!Counts /\ WORD \in Nat \ {0}
  BY ConstantsAssumption, WordAssumption, Zenon DEF Acpi!AcpiConstants

(* A write of the timer's set-up meets no register: acpi_base is a pointer *)
(* to words, and no register is at four times the offset of another.       *)
LEMMA NoRegister ==
  /\ Acpi!Offset(Acpi!APIC_REGISTER_SPURIOUS) \notin Acpi!Architectural
  /\ Acpi!Offset(Acpi!APIC_REGISTER_LVT_TIMER) \notin Acpi!Architectural
  /\ Acpi!Offset(Acpi!APIC_REGISTER_TIMER_ICR) \notin Acpi!Architectural
  /\ Acpi!Offset(Acpi!APIC_REGISTER_TIMER_DIV) \notin Acpi!Architectural
  BY DEF Acpi!Offset, Acpi!Architectural, Acpi!APIC_REGISTER_SPURIOUS, Acpi!APIC_REGISTER_LVT_TIMER,
         Acpi!APIC_REGISTER_TIMER_ICR, Acpi!APIC_REGISTER_TIMER_DIV

(* The registers are left alone by every statement. *)
LEMMA ApicKept ==
  /\ Acpi!MapVectors => v7' = v7
  /\ Acpi!ResetTimer => v7' = v7
  /\ Acpi!StopTimer => v7' = v7 /\ v10' \in 0 .. (WORD - 1)
  /\ Acpi!StartTimer => v7' = v7
<1> USE NoRegister
<1>1. Acpi!MapVectors => v7' = v7
  BY DEF Acpi!MapVectors, Acpi!Written
<1>2. Acpi!ResetTimer => v7' = v7
  BY DEF Acpi!ResetTimer, Acpi!Written
<1>3. Acpi!StopTimer => v7' = v7 /\ v10' \in 0 .. (WORD - 1)
  BY DEF Acpi!StopTimer, Acpi!Written, Acpi!Readings
<1>4. Acpi!StartTimer => v7' = v7
  BY DEF Acpi!StartTimer, Acpi!Written
<1> QED
  BY <1>1, <1>2, <1>3, <1>4

(* The count that is programmed fits a word. *)
LEMMA PeriodType ==
  ASSUME NEW count \in 0 .. (WORD - 1), NEW rate \in Nat \ {0}
  PROVE  Acpi!Period(count, rate) \in 0 .. (WORD - 1)
<1>1. WORD \in Nat \ {0}
  BY AcpiAssumption
<1>2. ASSUME NEW x \in Int PROVE x % WORD \in 0 .. (WORD - 1)
  BY <1>1, <1>2
<1> DEFINE t == ((WORD - 1 - count + 1) % WORD) * 16
           u == (t % WORD) * 100
<1>3. t \in Nat
  <2>1. (WORD - 1 - count + 1) % WORD \in 0 .. (WORD - 1)
    BY <1>1
  <2> QED
    BY <1>1, <2>1
<1>4. u \in Nat
  <2> HIDE DEF t
  <2>1. t % WORD \in 0 .. (WORD - 1)
    BY <1>1, <1>3
  <2> QED
    BY <1>1, <2>1
<1>5. (u \div rate) \div 16 \in Nat
  <2> HIDE DEF u
  <2>1. u \div rate \in Nat
    BY <1>4
  <2> QED
    BY <2>1
<1>6. Acpi!Period(count, rate) = ((u \div rate) \div 16) % WORD
  BY Zenon DEF Acpi!Period
<1> HIDE DEF u
<1> QED
  BY <1>1, <1>5, <1>6

(* Dividing by 16 undoes a multiplication by 16 through another division. *)
LEMMA Sixteenth ==
  ASSUME NEW x \in Nat, NEW r \in Nat \ {0}
  PROVE  ((16 * x) \div r) \div 16 = x \div r
<1> DEFINE q == x \div r
           s == x % r
<1>1. q \in Nat /\ s \in 0 .. (r - 1) /\ x = q * r + s
  OBVIOUS
<1> HIDE DEF q, s
<1> DEFINE c == (16 * s) \div r
           e == (16 * s) % r
<1>2. c \in Nat /\ e \in 0 .. (r - 1) /\ 16 * s = c * r + e
  <2>1. 16 * s \in Nat
    BY <1>1
  <2> QED
    BY <2>1
<1> HIDE DEF c, e
<1>3. c \in 0 .. 15
  <2>1. ASSUME c >= 16 PROVE FALSE
    <3>1. c * r >= 16 * r
      BY <1>2, <2>1
    <3> QED
      BY <1>1, <1>2, <3>1
  <2> QED
    BY <1>2, <2>1
<1>4. 16 * x = (16 * q + c) * r + e
  <2>1. 16 * x = 16 * (q * r) + 16 * s
    BY <1>1
  <2>2. (16 * q + c) * r = 16 * (q * r) + c * r
    BY <1>1, <1>2
  <2> QED
    BY <1>1, <1>2, <2>1, <2>2
<1>5. (16 * x) \div r = 16 * q + c
  <2>1. Quotient(16 * x, r, 16 * q + c, e)
    BY <1>4 DEF Quotient
  <2>2. 16 * q + c \in Nat
    BY <1>1, <1>2
  <2> QED
    BY <1>2, <2>1, <2>2, Euclid
<1>6. (16 * q + c) \div 16 = q
  BY <1>1, <1>3
<1> QED
  BY <1>5, <1>6 DEF q


(* Initially nothing was searched and nothing programmed. *)
LEMMA AcpiInit == Acpi!Init => Acpi!IInv
<1> SUFFICES ASSUME Acpi!Init PROVE Acpi!IInv
  OBVIOUS
<1>1. Acpi!TypeOK
  <2>1. v2 \in Seq(Signatures) /\ Len(v2) \in Nat
    BY AcpiAssumption DEF Acpi!Init
  <2>2. v8 \in [mode: 0 .. 7, low: Acpi!Latches, reload: Acpi!Counts, count: Acpi!Counts]
    <3>1. PICK reload \in Reloads : v8 = [mode |-> 3, low |-> << >>, reload |-> reload, count |-> reload]
      BY DEF Acpi!Init
    <3>2. reload \in Acpi!Counts /\ << >> \in Acpi!Latches
      BY AcpiAssumption DEF Acpi!Latches
    <3> QED
      BY <3>1, <3>2
  <2>3. v7 \in [Acpi!Architectural -> Nat]
    BY DEF Acpi!Init
  <2> QED
    BY <2>1, <2>2, <2>3, AcpiAssumption DEF Acpi!Init, Acpi!TypeOK, Acpi!NULL
<1>2. Acpi!Passed
  BY DEF Acpi!Init, Acpi!Passed
<1>3. Acpi!FirstMatch /\ Acpi!Programmed /\ Acpi!Computed
  BY DEF Acpi!Init, Acpi!FirstMatch, Acpi!Programmed, Acpi!Counting, Acpi!Computed
<1> QED
  BY <1>1, <1>2, <1>3 DEF Acpi!IInv

(* One entry of the XSDT is looked at. *)
LEMMA AcpiSearch == ASSUME Acpi!IInv, Acpi!Search PROVE Acpi!IInv'
<1>1. v2 \in Seq(Signatures) /\ Len(v2) \in Nat /\ DOMAIN v2 = 1 .. Len(v2) /\ v4 \in 1 .. (Len(v2) + 1)
  BY AcpiAssumption DEF Acpi!IInv, Acpi!TypeOK
<1>2. v1 = "search" /\ UNCHANGED <<v2, v3, v6, v7, v8, v9, v10, v11>>
  BY DEF Acpi!Search
<1>3. v5 = 0 /\ \A j \in 1 .. (v4 - 1) : v2[j] # v3
  BY <1>2 DEF Acpi!IInv, Acpi!Passed, Acpi!NULL
<1>4. \/ v4 > Len(v2) /\ v5' = 0 /\ v4' = v4 /\ v1' = "absent"
      \/ v4 <= Len(v2) /\ v2[v4] = v3 /\ v5' = v4 /\ v4' = v4 /\ v1' = "found"
      \/ v4 <= Len(v2) /\ v2[v4] # v3 /\ v4' = v4 + 1 /\ v5' = v5 /\ v1' = v1
  BY <1>1 DEF Acpi!Search, Acpi!NULL
<1>5. Acpi!TypeOK'
  BY <1>1, <1>2, <1>3, <1>4 DEF Acpi!IInv, Acpi!TypeOK
<1>6. Acpi!Passed' /\ Acpi!FirstMatch'
  BY <1>1, <1>2, <1>3, <1>4 DEF Acpi!Passed, Acpi!FirstMatch, Acpi!NULL
<1>7. Acpi!Programmed' /\ Acpi!Computed'
  BY <1>2, <1>4 DEF Acpi!Programmed, Acpi!Counting, Acpi!Computed
<1> QED
  BY <1>5, <1>6, <1>7 DEF Acpi!IInv

(* What the search found stays what it is. *)
LEMMA AcpiSearched ==
  ASSUME Acpi!IInv, v1 # "search", v1' # "search", UNCHANGED <<v2, v3, v5>>
  PROVE  Acpi!Passed' /\ Acpi!FirstMatch'
  BY DEF Acpi!IInv, Acpi!Passed, Acpi!FirstMatch

(* The statements before the channel is programmed, and after. *)
LEMMA AcpiPlain ==
  ASSUME Acpi!IInv, Acpi!MapVectors \/ Acpi!ResetTimer \/ Acpi!WaitPit \/ Acpi!StopTimer
  PROVE  Acpi!IInv'
<1>1. /\ UNCHANGED <<v2, v3, v4, v5, v6, v7, v8, v9, v11>>
      /\ v10' \in 0 .. (WORD - 1)
      /\ \/ v1 = "found" /\ v1' = "gate"
         \/ v1 = "reset" /\ v1' = "wait"
         \/ v1 = "wait" /\ v1' = "stop"
         \/ v1 = "stop" /\ v1' = "period"
  BY ApicKept DEF Acpi!MapVectors, Acpi!ResetTimer, Acpi!WaitPit, Acpi!StopTimer, Acpi!IInv, Acpi!TypeOK
<1>2. Acpi!TypeOK'
  BY <1>1 DEF Acpi!IInv, Acpi!TypeOK, Acpi!Counting
<1>3. Acpi!Passed' /\ Acpi!FirstMatch'
  BY <1>1, AcpiSearched
<1>4. Acpi!Programmed' /\ Acpi!Computed'
  BY <1>1 DEF Acpi!IInv, Acpi!Programmed, Acpi!Counting, Acpi!Computed
<1> QED
  BY <1>2, <1>3, <1>4 DEF Acpi!IInv

(* The gate is moved: a rising edge loads the count. *)
LEMMA AcpiGate ==
  ASSUME Acpi!IInv, Acpi!OpenGate \/ Acpi!StartPit
  PROVE  Acpi!IInv'
<1>1. v8 \in [mode: 0 .. 7, low: Acpi!Latches, reload: Acpi!Counts, count: Acpi!Counts]
  BY DEF Acpi!IInv, Acpi!TypeOK
<1>2. v9 \in [gate: {0, 1}, speaker: {0, 1}, out: {0, 1}]
  BY DEF Acpi!IInv, Acpi!TypeOK
<1>3. UNCHANGED <<v2, v3, v4, v5, v6, v7, v10, v11>>
  BY DEF Acpi!OpenGate, Acpi!StartPit
<1>4. /\ v8' \in [mode: 0 .. 7, low: Acpi!Latches, reload: Acpi!Counts, count: Acpi!Counts]
      /\ v9' \in [gate: {0, 1}, speaker: {0, 1}, out: {0, 1}]
      /\ v8'.mode = v8.mode /\ v8'.reload = v8.reload
      /\ \/ v1 = "gate" /\ v1' = "command" /\ v9'.gate = 1 /\ v9'.speaker = 0
         \/ v1 = "gate_low" /\ v1' = "gate_high" /\ v9'.gate = 0 /\ v9'.speaker = v9.speaker
         \/ /\ v1 = "gate_high" /\ v1' = "reset" /\ v9'.gate = 1 /\ v9'.speaker = v9.speaker
            /\ v9.gate = 0 => v8'.count = v8.reload
  BY <1>1, <1>2 DEF Acpi!OpenGate, Acpi!StartPit, Acpi!Gate
<1>5. Acpi!TypeOK'
  BY <1>3, <1>4 DEF Acpi!IInv, Acpi!TypeOK, Acpi!Counting, Acpi!PitBytes
<1>6. Acpi!Passed' /\ Acpi!FirstMatch'
  BY <1>3, <1>4, AcpiSearched
<1>7. Acpi!Programmed' /\ Acpi!Computed'
  BY <1>3, <1>4 DEF Acpi!IInv, Acpi!Programmed, Acpi!Counting, Acpi!Computed
<1> QED
  BY <1>5, <1>6, <1>7 DEF Acpi!IInv

(* The channel is programmed, byte by byte. *)
LEMMA AcpiProgram ==
  ASSUME Acpi!IInv, Acpi!ProgramPit
  PROVE  Acpi!IInv'
<1>1. v8 \in [mode: 0 .. 7, low: Acpi!Latches, reload: Acpi!Counts, count: Acpi!Counts]
  BY DEF Acpi!IInv, Acpi!TypeOK
<1>2. UNCHANGED <<v2, v3, v4, v5, v6, v7, v9, v10, v11>>
  BY DEF Acpi!ProgramPit
<1>3. v1 = "high" => v8.low = <<155>> /\ Head(v8.low) = 155
  BY DEF Acpi!IInv, Acpi!Programmed
<1>4. \/ v1 = "command" /\ v1' = "low" /\ v8' = [v8 EXCEPT !.mode = (178 \div 2) % 8, !.low = << >>]
      \/ v1 = "low" /\ v1' = "high" /\ v8' = [v8 EXCEPT !.low = <<155>>]
      \/ v1 = "high" /\ v1' = "gate_low" /\ v8' = [v8 EXCEPT !.low = << >>, !.reload = Head(v8.low) + 256 * 46]
  BY DEF Acpi!ProgramPit, Acpi!PitOut, Acpi!PitBytes
<1>5. /\ (178 \div 2) % 8 = 1 /\ 155 + 256 * 46 = Acpi!TEN_MS /\ Acpi!TEN_MS \in Acpi!Counts
      /\ << >> \in Acpi!Latches /\ <<155>> \in Acpi!Latches
  BY SMT DEF Acpi!Latches, Acpi!Counts, Acpi!TEN_MS
<1>6. /\ v8' \in [mode: 0 .. 7, low: Acpi!Latches, reload: Acpi!Counts, count: Acpi!Counts]
      /\ \/ v1 = "command" /\ v1' = "low" /\ v8'.mode = 1
         \/ v1 = "low" /\ v1' = "high" /\ v8'.mode = v8.mode /\ v8'.low = <<155>>
         \/ v1 = "high" /\ v1' = "gate_low" /\ v8'.mode = v8.mode /\ v8'.reload = Acpi!TEN_MS
  <2>1. CASE v1 = "command"
    <3>1. PICK m \in 0 .. 7, b \in Acpi!Latches : m = 1 /\ b = << >>
      BY <1>5
    <3>2. v1' = "low" /\ v8' = [v8 EXCEPT !.mode = m, !.low = b]
      BY <1>4, <1>5, <2>1, <3>1
    <3> DEFINE h == [v8 EXCEPT !.mode = m, !.low = b]
    <3>3. /\ h \in [mode: 0 .. 7, low: Acpi!Latches, reload: Acpi!Counts, count: Acpi!Counts]
          /\ h.mode = m
      BY <1>1
    <3> HIDE DEF h
    <3>4. v8' = h
      BY <3>2 DEF h
    <3> QED
      BY <2>1, <3>1, <3>2, <3>3, <3>4
  <2>2. CASE v1 = "low"
    BY <1>1, <1>4, <1>5, <2>2
  <2>3. CASE v1 = "high"
    <3>1. PICK r \in Acpi!Counts, b \in Acpi!Latches : r = Acpi!TEN_MS /\ b = << >>
      BY <1>5
    <3>2. v8' = [v8 EXCEPT !.low = << >>, !.reload = Head(v8.low) + 256 * 46]
      BY <1>4, <2>3
    <3>3. Head(v8.low) + 256 * 46 = r
      <4>1. Head(v8.low) = 155
        BY <1>3, <2>3
      <4> QED
        BY <1>5, <3>1, <4>1
    <3>4. v8' = [v8 EXCEPT !.low = b, !.reload = r]
      BY <3>1, <3>2, <3>3, Zenon
    <3>5. v1' = "gate_low"
      BY <1>4, <2>3
    <3> DEFINE h == [v8 EXCEPT !.low = b, !.reload = r]
    <3>6. /\ h \in [mode: 0 .. 7, low: Acpi!Latches, reload: Acpi!Counts, count: Acpi!Counts]
          /\ h.mode = v8.mode /\ h.reload = r
      BY <1>1
    <3> HIDE DEF h
    <3>7. v8' = h
      BY <3>4 DEF h
    <3> QED
      BY <2>3, <3>1, <3>5, <3>6, <3>7
  <2> QED
    BY <1>4, <2>1, <2>2, <2>3
<1>7. Acpi!TypeOK'
  BY <1>2, <1>6 DEF Acpi!IInv, Acpi!TypeOK, Acpi!PitBytes
<1>8. Acpi!Passed' /\ Acpi!FirstMatch'
  BY <1>2, <1>6, AcpiSearched
<1>9. Acpi!Programmed' /\ Acpi!Computed'
  BY <1>2, <1>6 DEF Acpi!IInv, Acpi!Programmed, Acpi!Counting, Acpi!Computed
<1> QED
  BY <1>7, <1>8, <1>9 DEF Acpi!IInv

(* The period is computed and programmed. *)
LEMMA AcpiStart ==
  ASSUME Acpi!IInv, Acpi!StartTimer
  PROVE  Acpi!IInv'
<1>1. UNCHANGED <<v2, v3, v4, v5, v6, v7, v8, v9, v10>> /\ v1 = "period" /\ v1' = "returned"
  BY ApicKept DEF Acpi!StartTimer
<1>2. v11' = Acpi!Period(v10, v6)
  BY DEF Acpi!StartTimer
<1>3. v11' \in 0 .. (WORD - 1)
  BY <1>2, PeriodType, AcpiAssumption DEF Acpi!IInv, Acpi!TypeOK
<1>4. Acpi!TypeOK'
  BY <1>1, <1>3 DEF Acpi!IInv, Acpi!TypeOK, Acpi!Counting
<1>5. Acpi!Passed' /\ Acpi!FirstMatch'
  BY <1>1, AcpiSearched
<1>6. Acpi!Programmed'
  BY <1>1 DEF Acpi!IInv, Acpi!Programmed, Acpi!Counting
<1>7. Acpi!Computed'
  BY <1>1, <1>2 DEF Acpi!Computed
<1> QED
  BY <1>4, <1>5, <1>6, <1>7 DEF Acpi!IInv

(* Every step of the search and of the calibration keeps the invariant. *)
LEMMA AcpiNext == Acpi!IInv /\ [Acpi!Next]_(Acpi!vars) => Acpi!IInv'
<1> SUFFICES ASSUME Acpi!IInv, [Acpi!Next]_(Acpi!vars) PROVE Acpi!IInv'
  OBVIOUS
<1>1. CASE Acpi!PitExpires
  <2>1. /\ UNCHANGED <<v1, v2, v3, v4, v5, v6, v7, v8, v10, v11>>
        /\ v9 \in [gate: {0, 1}, speaker: {0, 1}, out: {0, 1}]
        /\ v9' = [v9 EXCEPT !.out = 1]
    BY <1>1 DEF Acpi!PitExpires, Acpi!IInv, Acpi!TypeOK
  <2>2. v9' \in [gate: {0, 1}, speaker: {0, 1}, out: {0, 1}] /\ v9'.gate = v9.gate /\ v9'.speaker = v9.speaker
    BY <2>1
  <2> QED
    BY <2>1, <2>2 DEF Acpi!IInv, Acpi!TypeOK, Acpi!Passed, Acpi!FirstMatch, Acpi!Programmed, Acpi!Computed
<1>2. CASE UNCHANGED Acpi!vars
  BY <1>2 DEF Acpi!vars, Acpi!IInv, Acpi!TypeOK, Acpi!Passed, Acpi!FirstMatch,
              Acpi!Programmed, Acpi!Computed
<1> QED
  BY <1>1, <1>2, AcpiSearch, AcpiPlain, AcpiGate, AcpiProgram, AcpiStart DEF Acpi!Next, Acpi!Returned

(* Division keeps the order, and a remainder is not more than the number. *)
LEMMA QuotientOrder ==
  ASSUME NEW a \in Nat, NEW b \in Nat, a <= b, NEW r \in Nat \ {0}
  PROVE  a \div r \in Nat /\ a \div r <= b \div r /\ a % r \in Nat /\ a % r <= a
<1> DEFINE q == a \div r
           t == a % r
           q2 == b \div r
           t2 == b % r
<1>1. q \in Nat /\ t \in 0 .. (r - 1) /\ a = q * r + t
  OBVIOUS
<1>2. q2 \in Nat /\ t2 \in 0 .. (r - 1) /\ b = q2 * r + t2
  OBVIOUS
<1> HIDE DEF q, t, q2, t2
<1>3. ASSUME q > q2 PROVE FALSE
  <2>1. PICK d \in Nat : q = q2 + 1 + d
    <3>1. q - q2 - 1 \in Nat /\ q = q2 + 1 + (q - q2 - 1)
      BY <1>1, <1>2, <1>3
    <3> QED
      BY <3>1
  <2>2. q * r = q2 * r + r + d * r /\ d * r \in Nat /\ q2 * r \in Nat
    BY <1>2, <2>1
  <2> QED
    BY <1>1, <1>2, <2>2
<1>4. q * r \in Nat
  BY <1>1
<1>5. q <= q2 /\ t <= a
  BY <1>1, <1>2, <1>3, <1>4
<1> QED
  BY <1>1, <1>5 DEF q, t, q2

(* And it says what the properties do. *)
LEMMA AcpiProperties ==
  ASSUME Acpi!IInv
  PROVE  Acpi!TypeOK /\ Acpi!FirstMatch /\ Acpi!PitFullPeriod /\ Acpi!PeriodOfReading
<1>1. Acpi!TypeOK /\ Acpi!FirstMatch /\ Acpi!PitFullPeriod
  BY DEF Acpi!IInv, Acpi!Programmed, Acpi!PitFullPeriod
<1>2. Acpi!PeriodOfReading
  <2> DEFINE ticks == (WORD - v10) % WORD
  <2> SUFFICES ASSUME v1 = "returned"
               PROVE  /\ v11 <= (ticks * 100) \div v6
                      /\ ticks * 16 < WORD /\ (ticks * 100) \div v6 < WORD => v11 = (ticks * 100) \div v6
    BY Zenon DEF Acpi!PeriodOfReading
  <2>1. WORD \in Nat \ {0} /\ v10 \in 0 .. (WORD - 1) /\ v6 \in Nat \ {0}
    BY AcpiAssumption DEF Acpi!IInv, Acpi!TypeOK
  <2>2. ticks \in 0 .. (WORD - 1)
    BY <2>1
  <2>3. v11 = Acpi!Period(v10, v6)
    BY DEF Acpi!IInv, Acpi!Computed
  <2>4. WORD - 1 - v10 + 1 = WORD - v10
    BY <2>1
  <2>5. v11 = (((((ticks * 16) % WORD) * 100) \div v6) \div 16) % WORD
    BY <2>3, <2>4, Zenon DEF Acpi!Period
  <2> HIDE DEF ticks
  <2> DEFINE asked == (ticks * 100) \div v6
             kept  == (ticks * 16) % WORD
             cut   == ((kept * 100) \div v6) \div 16
  <2>6. ticks * 16 \in Nat /\ ticks * 100 \in Nat /\ 16 * (ticks * 100) = (ticks * 16) * 100
    BY <2>2
  <2>7. asked \in Nat /\ (((ticks * 16) * 100) \div v6) \div 16 = asked
    <3>1. ((16 * (ticks * 100)) \div v6) \div 16 = (ticks * 100) \div v6
      BY <2>1, <2>6, Sixteenth
    <3>2. asked \in Nat
      BY <2>1, <2>6, QuotientOrder
    <3> QED
      BY <2>6, <3>1, <3>2, Zenon
  <2>8. kept \in Nat /\ kept <= ticks * 16
    BY <2>1, <2>6, QuotientOrder
  <2>9. cut \in Nat /\ cut <= asked
    <3> HIDE DEF kept
    <3>1. kept * 100 \in Nat /\ (ticks * 16) * 100 \in Nat /\ kept * 100 <= (ticks * 16) * 100
      BY <2>6, <2>8
    <3>2. PICK u, w : u = (kept * 100) \div v6 /\ w = ((ticks * 16) * 100) \div v6
      OBVIOUS
    <3>3. u \in Nat /\ w \in Nat /\ u <= w
      BY <2>1, <3>1, <3>2, QuotientOrder
    <3>4. u \div 16 \in Nat /\ u \div 16 <= w \div 16
      BY <3>3, QuotientOrder
    <3> QED
      BY <2>7, <3>2, <3>4, Zenon
  <2>10. v11 = cut % WORD
    BY <2>5, Zenon
  <2>11. ASSUME ticks * 16 < WORD PROVE cut = asked
    <3>1. kept = ticks * 16
      <4>1. ticks * 16 \in 0 .. (WORD - 1)
        BY <2>1, <2>6, <2>11
      <4> QED
        BY <2>1, <4>1
    <3> HIDE DEF kept
    <3>2. cut = (((ticks * 16) * 100) \div v6) \div 16
      BY <3>1, Zenon
    <3> QED
      BY <2>7, <3>2, Zenon
  <2> HIDE DEF cut, asked
  <2>12. v11 <= cut
    <3>1. cut % WORD <= cut
      BY <2>1, <2>9, QuotientOrder
    <3> QED
      BY <2>10, <3>1
  <2>13. ASSUME cut < WORD PROVE v11 = cut
    <3>1. cut \in 0 .. (WORD - 1)
      BY <2>1, <2>9, <2>13
    <3>2. cut % WORD = cut
      BY <2>1, <3>1
    <3> QED
      BY <2>10, <3>2
  <2>14. v11 \in Nat
    BY <2>1 DEF Acpi!IInv, Acpi!TypeOK
  <2>15. v11 <= asked /\ (ticks * 16 < WORD /\ asked < WORD => v11 = asked)
    BY <2>7, <2>9, <2>11, <2>12, <2>13, <2>14
  <2> QED
    BY <2>15 DEF asked
<1> QED
  BY <1>1, <1>2

-----------------------------------------------------------------------------
(* What the assumptions say of the constants of Pcie. *)
LEMMA PcieAssumption ==
  /\ Mcfgs \subseteq Seq([base: Nat, start: Nat, end: Nat])
  /\ DEVS \in Nat \ {0} /\ FUNCS \in Nat \ {0} /\ INDEX \in Nat \ {0} /\ LIST \in Nat \ {0}
  /\ DEVS * FUNCS = INDEX /\ INDEX < LIST
  BY ConstantsAssumption, Zenon DEF Pcie!PcieConstants

(* A place of the list is a device and a function of it, and the next      *)
(* place is the next function, the first of the next device, or none.      *)
LEMMA Place ==
  ASSUME NEW k \in 0 .. (DEVS - 1), NEW l \in 0 .. (FUNCS - 1)
  PROVE  /\ k * FUNCS + l \in 0 .. (INDEX - 1)
         /\ (k * FUNCS + l) \div FUNCS = k /\ (k * FUNCS + l) % FUNCS = l
         /\ l < FUNCS - 1 => (k * FUNCS + l + 1) % INDEX = k * FUNCS + (l + 1)
         /\ l = FUNCS - 1 /\ k < DEVS - 1 => (k * FUNCS + l + 1) % INDEX = (k + 1) * FUNCS + 0
         /\ l = FUNCS - 1 /\ k = DEVS - 1 => k * FUNCS + l + 1 = INDEX /\ (k * FUNCS + l + 1) % INDEX = 0
<1>1. DEVS \in Nat \ {0} /\ FUNCS \in Nat \ {0} /\ INDEX \in Nat \ {0} /\ DEVS * FUNCS = INDEX
  BY PcieAssumption
<1>2. k * FUNCS \in Nat /\ (k + 1) * FUNCS = k * FUNCS + FUNCS
  BY <1>1
<1>3. (k + 1) * FUNCS <= DEVS * FUNCS
  <2>1. DEVS - (k + 1) \in Nat
    BY <1>1
  <2>2. (DEVS - (k + 1)) * FUNCS \in Nat
    BY <1>1, <2>1
  <2>3. (DEVS - (k + 1)) * FUNCS = DEVS * FUNCS - (k + 1) * FUNCS
    BY <1>1
  <2> QED
    BY <1>1, <1>2, <2>2, <2>3
<1> DEFINE K == k * FUNCS
<1>4. K \in Nat /\ K + FUNCS <= INDEX /\ (k = DEVS - 1 => K + FUNCS = INDEX)
  BY <1>1, <1>2, <1>3
<1>5. ASSUME k < DEVS - 1 PROVE K + FUNCS < INDEX
  <2>1. DEVS - (k + 1) \in Nat \ {0}
    BY <1>1, <1>5
  <2>2. (DEVS - (k + 1)) * FUNCS >= FUNCS
    BY <1>1, <2>1
  <2>3. (DEVS - (k + 1)) * FUNCS = DEVS * FUNCS - (k + 1) * FUNCS
    BY <1>1
  <2> QED
    BY <1>1, <1>2, <2>2, <2>3
<1>6. (K + l) \div FUNCS = k /\ (K + l) % FUNCS = l
  <2>1. Quotient(K + l, FUNCS, k, l)
    BY DEF Quotient
  <2> QED
    BY <1>1, <2>1, Euclid
<1>7. (k + 1) * FUNCS = K + FUNCS
  BY <1>2
<1> HIDE DEF K
<1>8. K + l \in 0 .. (INDEX - 1)
  BY <1>1, <1>4
<1>9. ASSUME NEW x \in 0 .. (INDEX - 1) PROVE x % INDEX = x
  BY <1>1, <1>9
<1>10. INDEX % INDEX = 0
  BY <1>1
<1>11. l < FUNCS - 1 => (K + l + 1) % INDEX = K + (l + 1)
  <2> SUFFICES ASSUME l < FUNCS - 1 PROVE (K + l + 1) % INDEX = K + (l + 1)
    OBVIOUS
  <2>1. K + l + 1 \in 0 .. (INDEX - 1) /\ K + l + 1 = K + (l + 1)
    BY <1>1, <1>4
  <2> QED
    BY <1>9, <2>1
<1>12. l = FUNCS - 1 /\ k < DEVS - 1 => (K + l + 1) % INDEX = (k + 1) * FUNCS + 0
  <2> SUFFICES ASSUME l = FUNCS - 1, k < DEVS - 1 PROVE (K + l + 1) % INDEX = (k + 1) * FUNCS + 0
    OBVIOUS
  <2>1. K + l + 1 \in 0 .. (INDEX - 1) /\ K + l + 1 = K + FUNCS
    BY <1>1, <1>4, <1>5
  <2>2. (K + l + 1) % INDEX = K + FUNCS
    BY <1>9, <2>1
  <2>3. (k + 1) * FUNCS + 0 = K + FUNCS
    BY <1>1, <1>4, <1>7
  <2> QED
    BY <2>2, <2>3
<1>13. l = FUNCS - 1 /\ k = DEVS - 1 => K + l + 1 = INDEX /\ (K + l + 1) % INDEX = 0
  <2> SUFFICES ASSUME l = FUNCS - 1, k = DEVS - 1 PROVE K + l + 1 = INDEX /\ (K + l + 1) % INDEX = 0
    OBVIOUS
  <2>1. K + l + 1 = INDEX
    BY <1>1, <1>4
  <2> QED
    BY <1>10, <2>1
<1> QED
  BY <1>6, <1>8, <1>11, <1>12, <1>13 DEF K

(* From a function that is not the last of its bus to the next one. *)
LEMMA NextPlace ==
  ASSUME NEW k \in 0 .. (DEVS - 1), NEW l \in 0 .. (FUNCS - 1), NEW k2, NEW l2,
         \/ l < FUNCS - 1 /\ l2 = l + 1 /\ k2 = k
         \/ l = FUNCS - 1 /\ k < DEVS - 1 /\ l2 = 0 /\ k2 = k + 1
  PROVE  /\ k2 \in 0 .. (DEVS - 1) /\ l2 \in 0 .. (FUNCS - 1)
         /\ k2 * FUNCS + l2 \in 0 .. (INDEX - 1)
         /\ k * FUNCS + l + 1 = k2 * FUNCS + l2 /\ (k * FUNCS + l + 1) % INDEX = k2 * FUNCS + l2
<1>1. DEVS \in Nat \ {0} /\ FUNCS \in Nat \ {0}
  BY PcieAssumption
<1>2. k2 \in 0 .. (DEVS - 1) /\ l2 \in 0 .. (FUNCS - 1)
  BY <1>1
<1>3. k2 * FUNCS + l2 \in 0 .. (INDEX - 1)
  BY <1>2, Place
<1>4. (k * FUNCS + l + 1) % INDEX = k2 * FUNCS + l2
  BY Place
<1>5. k * FUNCS + l + 1 = k2 * FUNCS + l2
  <2>1. k * FUNCS \in Nat /\ (k + 1) * FUNCS = k * FUNCS + FUNCS
    BY <1>1
  <2> QED
    BY <1>1, <2>1
<1> QED
  BY <1>2, <1>3, <1>4, <1>5

(* The buses visited, one by one. *)
LEMMA VisitedBus ==
  ASSUME NEW u
  PROVE  u \in Pcie!Visited <=> \E e \in DOMAIN v2 : \E b \in v2[e].start .. (v2[e].end - 1) : u = <<e, b>>
  BY DEF Pcie!Visited

(* The same after a step that leaves the table alone. *)
LEMMA VisitedKept == v2' = v2 => Pcie!Visited' = Pcie!Visited
  BY DEF Pcie!Visited

(* The table in its types. *)
LEMMA PcieTable ==
  ASSUME Pcie!InRange
  PROVE  /\ Len(v2) \in Nat /\ DOMAIN v2 = 1 .. Len(v2)
         /\ \A e \in 1 .. Len(v2) : v2[e].base \in Nat /\ v2[e].start \in Nat /\ v2[e].end \in Nat
<1>1. v2 \in Seq([base: Nat, start: Nat, end: Nat])
  BY PcieAssumption DEF Pcie!InRange
<1>2. Len(v2) \in Nat /\ DOMAIN v2 = 1 .. Len(v2)
  BY <1>1
<1>3. ASSUME NEW e \in 1 .. Len(v2)
      PROVE  v2[e].base \in Nat /\ v2[e].start \in Nat /\ v2[e].end \in Nat
  <2>0. PICK T : T = [base: Nat, start: Nat, end: Nat]
    OBVIOUS
  <2>1. v2 \in Seq(T)
    BY <1>1, <2>0
  <2>2. v2[e] \in T
    BY <2>1
  <2> QED
    BY <2>0, <2>2
<1> QED
  BY <1>2, <1>3

(* An address is a number. *)
LEMMA AddressType ==
  ASSUME NEW entry, entry.base \in Nat, NEW b \in Nat, NEW d \in Nat, NEW f \in Nat
  PROVE  Pcie!Address(entry, b, d, f) \in Nat
<1>1. DEVS \in Nat /\ FUNCS \in Nat
  BY PcieAssumption
<1>2. b * DEVS \in Nat /\ d * FUNCS \in Nat
  BY <1>1
<1>3. b * DEVS * FUNCS \in Nat
  BY <1>1, <1>2
<1> QED
  BY <1>2, <1>3 DEF Pcie!Address

(* Before the first step. *)
LEMMA PcieInit == Pcie!Init => Pcie!IInv
<1> SUFFICES ASSUME Pcie!Init PROVE Pcie!IInv
  OBVIOUS
<1> USE PcieAssumption
<1>1. v2 \in Seq([base: Nat, start: Nat, end: Nat]) /\ Len(v2) \in Nat
  BY DEF Pcie!Init
<1>2. \A p \in 0 .. (LIST - 1) : v8[p] = 0
  BY DEF Pcie!Init
<1>3. Pcie!InRange
  BY <1>1 DEF Pcie!Init, Pcie!InRange
<1>4. Pcie!Done = {}
  <2> SUFFICES ASSUME NEW u \in Pcie!Done PROVE FALSE
    OBVIOUS
  <2>1. u \in Pcie!Visited /\ u[1] < 1
    BY DEF Pcie!Done, Pcie!Init
  <2>2. PICK e \in DOMAIN v2 : \E b \in v2[e].start .. (v2[e].end - 1) : u = <<e, b>>
    BY <2>1, VisitedBus
  <2> QED
    BY <1>1, <2>1, <2>2
<1>5. Pcie!Holds(Pcie!Done, v7)
  BY <1>2, <1>4 DEF Pcie!Holds, Pcie!Init
<1>6. v7 = 0
  BY DEF Pcie!Init
<1>7. Pcie!Listed
  BY <1>2, <1>5, <1>6 DEF Pcie!Listed
<1> QED
  BY <1>3, <1>7 DEF Pcie!IInv

(* What is held stays held while the list stays, or is written only        *)
(* before the place r.                                                     *)
LEMMA HoldsKept ==
  ASSUME NEW B, NEW q \in Nat, NEW r \in Nat, r >= q, Pcie!Holds(B, q), v2' = v2,
         \A p \in r .. (INDEX - 1) : v8'[p] = v8[p]
  PROVE  Pcie!Holds(B, r)'
<1> USE PcieAssumption
<1>1. \A p \in r .. (INDEX - 1) : p \in q .. (INDEX - 1)
  OBVIOUS
<1>2. CASE B = {}
  BY <1>1, <1>2 DEF Pcie!Holds
<1>3. CASE B # {}
  <2>1. PICK u \in B : /\ Pcie!LastOf(u, B)
                       /\ \A p \in q .. (INDEX - 1) :
                            v8[p] = Pcie!Address(v2[u[1]], u[2], p \div FUNCS, p % FUNCS)
    BY <1>3 DEF Pcie!Holds
  <2>2. \A p \in r .. (INDEX - 1) : v8'[p] = Pcie!Address(v2[u[1]], u[2], p \div FUNCS, p % FUNCS)
    BY <1>1, <2>1
  <2>3. \A p \in r .. (INDEX - 1) : v8'[p] = Pcie!Address(v2'[u[1]], u[2], p \div FUNCS, p % FUNCS)
    BY <2>2
  <2> QED
    BY <1>3, <2>1, <2>3, Zenon DEF Pcie!Holds
<1> QED
  BY <1>2, <1>3


(* A step that leaves the buses that are done, the index and the list.     *)
LEMMA PcieMove ==
  ASSUME Pcie!IInv, Pcie!InRange', v2' = v2, v7 = 0, v7' = 0, v8' = v8, Pcie!Done' = Pcie!Done
  PROVE  Pcie!IInv'
<1> USE PcieAssumption
<1>1. PICK B : B = Pcie!Done
  OBVIOUS
<1>2. Pcie!Holds(B, 0)
  BY <1>1 DEF Pcie!IInv, Pcie!Listed
<1>3. Pcie!Holds(B, 0)'
  BY <1>2, HoldsKept
<1>4. Pcie!Holds(Pcie!Done, v7)'
  BY <1>1, <1>3 DEF Pcie!Holds
<1>5. Pcie!Listed'
  BY <1>4 DEF Pcie!IInv, Pcie!Listed
<1> QED
  BY <1>5 DEF Pcie!IInv

(* The next entry, or the end. *)
LEMMA PcieEntry == ASSUME Pcie!IInv, Pcie!Entry PROVE Pcie!IInv'
<1>0. Pcie!InRange
  BY DEF Pcie!IInv
<1>1. /\ v1 = "entry" /\ UNCHANGED <<v2, v3, v5, v6, v7, v8>> /\ v7 = 0
      /\ \/ v3 > Len(v2) /\ v1' = "returned" /\ v4' = v4
         \/ v3 <= Len(v2) /\ v1' = "bus" /\ v4' = v2[v3].start
  BY <1>0 DEF Pcie!Entry, Pcie!InRange
<1>2. Pcie!InRange'
  BY <1>0, <1>1, PcieTable DEF Pcie!InRange
<1>3. Pcie!Done' = Pcie!Done
  <2>1. ASSUME NEW u \in Pcie!Visited, u[1] = v3, v1' = "bus" PROVE ~ (u[2] < v4')
    <3>0. PICK e \in DOMAIN v2 : \E b \in v2[e].start .. (v2[e].end - 1) : u = <<e, b>>
      BY VisitedBus
    <3>1. PICK b \in v2[e].start .. (v2[e].end - 1) : u = <<e, b>>
      BY <3>0
    <3>2. v2[e].start \in Nat /\ v2[e].end \in Nat /\ e = v3 /\ u[2] = b
      BY <1>0, <2>1, <3>1, PcieTable
    <3> QED
      BY <1>1, <2>1, <3>2
  <2>2. Pcie!Done' = {u \in Pcie!Visited : u[1] < v3 \/ (u[1] = v3 /\ v1' \in {"bus", "store"} /\ u[2] < v4')}
    BY <1>1, VisitedKept DEF Pcie!Done
  <2>3. Pcie!Done = {u \in Pcie!Visited : u[1] < v3}
    BY <1>1 DEF Pcie!Done
  <2> QED
    BY <1>1, <2>1, <2>2, <2>3
<1> QED
  BY <1>1, <1>2, <1>3, PcieMove

(* The next bus, or the next entry. *)
LEMMA PcieBus == ASSUME Pcie!IInv, Pcie!Bus PROVE Pcie!IInv' 
<1>0. Pcie!InRange
  BY DEF Pcie!IInv
<1> USE PcieAssumption
<1>1. /\ v1 = "bus" /\ UNCHANGED <<v2, v4, v7, v8>> /\ v7 = 0
      /\ \/ v4 < v2[v3].end /\ v1' = "store" /\ v5' = 0 /\ v6' = 0 /\ v3' = v3
         \/ v4 >= v2[v3].end /\ v1' = "entry" /\ v3' = v3 + 1 /\ UNCHANGED <<v5, v6>>
  BY <1>0 DEF Pcie!Bus, Pcie!InRange
<1>2. v3 \in 1 .. Len(v2) /\ Len(v2) \in Nat /\ v4 \in Nat /\ v2[v3].start \in Nat /\ v2[v3].end \in Nat
  BY <1>0, <1>1, PcieTable DEF Pcie!InRange
<1>3. Pcie!InRange'
  <2>1. CASE v1' = "store"
    <3>1. 0 * FUNCS + 0 = 0
      OBVIOUS
    <3> QED
      BY <1>0, <1>1, <1>2, <2>1, <3>1, SMTT(20) DEF Pcie!InRange
  <2>2. CASE v1' = "entry"
    <3>1. v3' \in 1 .. (Len(v2) + 1)
      BY <1>1, <1>2, <2>2
    <3> QED
      BY <1>0, <1>1, <2>2, <3>1 DEF Pcie!InRange
  <2> QED
    BY <1>1, <2>1, <2>2
<1>4. Pcie!Done' = Pcie!Done
  <2>1. ASSUME NEW u \in Pcie!Visited
        PROVE  u[1] \in Nat /\ (u[1] = v3 => u[2] < v2[v3].end /\ u[2] \in Nat)
    <3>0. PICK e \in DOMAIN v2 : \E b \in v2[e].start .. (v2[e].end - 1) : u = <<e, b>>
      BY VisitedBus
    <3>1. PICK b \in v2[e].start .. (v2[e].end - 1) : u = <<e, b>>
      BY <3>0
    <3>2. e \in Nat /\ v2[e].start \in Nat /\ v2[e].end \in Nat /\ u[1] = e /\ u[2] = b
      BY <1>0, <3>1, PcieTable
    <3> QED
      BY <3>2
  <2>2. Pcie!Done' = {u \in Pcie!Visited : u[1] < v3' \/ (u[1] = v3' /\ v1' \in {"bus", "store"} /\ u[2] < v4)}
    BY <1>1, VisitedKept DEF Pcie!Done
  <2>3. Pcie!Done = {u \in Pcie!Visited : u[1] < v3 \/ (u[1] = v3 /\ u[2] < v4)}
    BY <1>1 DEF Pcie!Done
  <2>4. CASE v1' = "store"
    BY <1>1, <2>2, <2>3, <2>4
  <2>5. CASE v1' = "entry"
    <3>1. ASSUME NEW u \in Pcie!Visited PROVE u[1] < v3 + 1 <=> u[1] < v3 \/ (u[1] = v3 /\ u[2] < v4)
      BY <1>1, <1>2, <2>1, <2>5
    <3>2. Pcie!Done' = {u \in Pcie!Visited : u[1] < v3 + 1}
      BY <1>1, <2>2, <2>5
    <3> QED
      BY <2>3, <3>1, <3>2
  <2> QED
    BY <1>1, <2>4, <2>5
<1> QED
  BY <1>1, <1>3, <1>4, PcieMove


(* The function at the index is listed. *)
LEMMA PcieWritten ==
  ASSUME Pcie!IInv, Pcie!Store
  PROVE  /\ v3 \in 1 .. Len(v2) /\ v4 \in v2[v3].start .. (v2[v3].end - 1) /\ v4 \in Nat
         /\ v7 \in 0 .. (INDEX - 1)
         /\ v8' \in [0 .. (LIST - 1) -> Nat]
         /\ \A p \in 0 .. v7 : v8'[p] = Pcie!Address(v2[v3], v4, p \div FUNCS, p % FUNCS)
         /\ \A p \in (v7 + 1) .. (LIST - 1) : v8'[p] = v8[p]
<1>0. Pcie!InRange /\ Pcie!Listed /\ v1 = "store"
  BY DEF Pcie!IInv, Pcie!Store
<1> USE PcieAssumption
<1>1. /\ v5 \in 0 .. (DEVS - 1) /\ v6 \in 0 .. (FUNCS - 1) /\ v7 = v5 * FUNCS + v6
      /\ v8 \in [0 .. (LIST - 1) -> Nat]
  BY <1>0 DEF Pcie!InRange
<1>2. v3 \in 1 .. Len(v2) /\ v4 \in Nat /\ v4 >= v2[v3].start /\ v4 < v2[v3].end
  BY <1>0, PcieTable DEF Pcie!InRange
<1>3. v2[v3].base \in Nat /\ v2[v3].start \in Nat /\ v2[v3].end \in Nat
  BY <1>0, <1>2, PcieTable
<1>4. v7 \in 0 .. (INDEX - 1) /\ v7 \div FUNCS = v5 /\ v7 % FUNCS = v6
  BY <1>1, Place
<1>5. PICK addr \in Nat : addr = Pcie!Address(v2[v3], v4, v5, v6)
  <2>1. v5 \in Nat /\ v6 \in Nat
    BY <1>1
  <2>2. Pcie!Address(v2[v3], v4, v5, v6) \in Nat
    BY <1>2, <1>3, <2>1, AddressType
  <2> QED
    BY <2>2
<1>6. v8' = [v8 EXCEPT ![v7] = addr]
  BY <1>5 DEF Pcie!Store
<1>7. /\ v8' \in [0 .. (LIST - 1) -> Nat] /\ v8'[v7] = addr
      /\ \A p \in 0 .. (LIST - 1) : p # v7 => v8'[p] = v8[p]
  BY <1>1, <1>4, <1>5, <1>6
<1>8. ASSUME NEW p \in 0 .. v7 PROVE v8'[p] = Pcie!Address(v2[v3], v4, p \div FUNCS, p % FUNCS)
  <2>1. CASE p = v7
    BY <1>4, <1>5, <1>7, <2>1
  <2>2. CASE p # v7
    <3>1. p \in 0 .. (v7 - 1) /\ p \in 0 .. (LIST - 1)
      BY <1>4, <2>2
    <3>2. v8[p] = Pcie!Address(v2[v3], v4, p \div FUNCS, p % FUNCS)
      BY <1>0, <3>1 DEF Pcie!Listed
    <3> QED
      BY <1>7, <2>2, <3>1, <3>2
  <2> QED
    BY <2>1, <2>2
<1>9. \A p \in (v7 + 1) .. (LIST - 1) : v8'[p] = v8[p]
  BY <1>4, <1>7
<1>10. v4 \in v2[v3].start .. (v2[v3].end - 1)
  BY <1>2, <1>3
<1> QED
  BY <1>2, <1>4, <1>7, <1>8, <1>9, <1>10

(* A function that is not the last of its bus. *)
LEMMA PcieStoreMore ==
  ASSUME Pcie!IInv, Pcie!Store, v1' = "store"
  PROVE  Pcie!IInv'
<1>0. Pcie!InRange /\ Pcie!Listed /\ v1 = "store" /\ v2' = v2 /\ v3' = v3
  BY DEF Pcie!IInv, Pcie!Store
<1> USE PcieAssumption
<1>1. /\ v5 \in 0 .. (DEVS - 1) /\ v6 \in 0 .. (FUNCS - 1) /\ v7 = v5 * FUNCS + v6
  BY <1>0 DEF Pcie!InRange
<1>2. /\ v4' = v4 /\ v7' = (v7 + 1) % INDEX
      /\ \/ v6 < FUNCS - 1 /\ v6' = v6 + 1 /\ v5' = v5
         \/ v6 = FUNCS - 1 /\ v5 < DEVS - 1 /\ v6' = 0 /\ v5' = v5 + 1
  BY <1>1 DEF Pcie!Store
<1>3. PICK k, l, k2, l2 : k = v5 /\ l = v6 /\ k2 = v5' /\ l2 = v6'
  OBVIOUS
<1>4. /\ k \in 0 .. (DEVS - 1) /\ l \in 0 .. (FUNCS - 1) /\ v7 = k * FUNCS + l
      /\ \/ l < FUNCS - 1 /\ l2 = l + 1 /\ k2 = k
         \/ l = FUNCS - 1 /\ k < DEVS - 1 /\ l2 = 0 /\ k2 = k + 1
  BY <1>1, <1>2, <1>3
<1>5. /\ k2 \in 0 .. (DEVS - 1) /\ l2 \in 0 .. (FUNCS - 1)
      /\ k2 * FUNCS + l2 \in 0 .. (INDEX - 1)
      /\ k * FUNCS + l + 1 = k2 * FUNCS + l2 /\ (k * FUNCS + l + 1) % INDEX = k2 * FUNCS + l2
  BY <1>4, NextPlace
<1>6. v7' = v5' * FUNCS + v6' /\ v7' = v7 + 1
  BY <1>2, <1>3, <1>4, <1>5
<1>w. /\ v7 \in 0 .. (INDEX - 1) /\ v8' \in [0 .. (LIST - 1) -> Nat]
      /\ \A p \in (v7 + 1) .. (LIST - 1) : v8'[p] = v8[p]
  BY PcieWritten
<1>7. Pcie!InRange'
  <2>1. v7' \in 0 .. (INDEX - 1) /\ v5' \in 0 .. (DEVS - 1) /\ v6' \in 0 .. (FUNCS - 1)
    BY <1>3, <1>5, <1>6
  <2> QED
    BY <1>0, <1>2, <1>6, <1>w, <2>1 DEF Pcie!InRange
<1>8. Pcie!Done' = Pcie!Done
  BY <1>0, <1>2, VisitedKept DEF Pcie!Done
<1>9. PICK B, q : B = Pcie!Done /\ q = v7 /\ q \in Nat
  BY <1>w
<1>10. Pcie!Holds(B, q)
  BY <1>0, <1>9 DEF Pcie!Listed
<1>11. \A p \in (q + 1) .. (INDEX - 1) : v8'[p] = v8[p]
  BY <1>9, <1>w
<1>12. Pcie!Holds(B, q + 1)'
  <2>1. q + 1 \in Nat /\ q + 1 >= q
    BY <1>9
  <2>2. PICK r \in Nat : r = q + 1
    BY <2>1
  <2> QED
    BY <1>0, <1>9, <1>10, <1>11, <2>1, <2>2, HoldsKept
<1>13. Pcie!Holds(Pcie!Done, v7)'
  BY <1>6, <1>8, <1>9, <1>12 DEF Pcie!Holds
<1>14. \A p \in 0 .. v7 : v8'[p] = Pcie!Address(v2[v3], v4, p \div FUNCS, p % FUNCS)
  BY PcieWritten
<1>15. \A p \in 0 .. (v7' - 1) : v8'[p] = Pcie!Address(v2[v3], v4, p \div FUNCS, p % FUNCS)'
  <2>1. v7' - 1 = v7
    BY <1>6, <1>w
  <2> QED
    BY <1>0, <1>2, <1>14, <2>1 DEF Pcie!Address
<1>16. \A p \in INDEX .. (LIST - 1) : v8'[p] = 0
  <2>1. \A p \in INDEX .. (LIST - 1) : p \in (v7 + 1) .. (LIST - 1)
    BY <1>w
  <2> QED
    BY <1>0, <1>w, <2>1 DEF Pcie!Listed
<1>17. Pcie!Listed'
  BY <1>13, <1>15, <1>16 DEF Pcie!Listed
<1> QED
  BY <1>7, <1>17 DEF Pcie!IInv

(* The last function of a bus: that bus is done, and it is the last. *)
LEMMA PcieStoreLast ==
  ASSUME Pcie!IInv, Pcie!Store, v1' # "store"
  PROVE  Pcie!IInv'
<1>0. Pcie!InRange /\ Pcie!Listed /\ v1 = "store" /\ v2' = v2 /\ v3' = v3
  BY DEF Pcie!IInv, Pcie!Store
<1> USE PcieAssumption
<1>1. /\ v5 \in 0 .. (DEVS - 1) /\ v6 \in 0 .. (FUNCS - 1) /\ v7 = v5 * FUNCS + v6
  BY <1>0 DEF Pcie!InRange
<1>2. /\ v6 = FUNCS - 1 /\ v5 = DEVS - 1 /\ v4' = v4 + 1 /\ v1' = "bus" /\ UNCHANGED <<v5, v6>>
      /\ v7' = (v7 + 1) % INDEX
  BY <1>0 DEF Pcie!Store
<1>3. v7' = 0 /\ v7 + 1 = INDEX
  BY <1>1, <1>2, Place
<1>w. /\ v3 \in 1 .. Len(v2) /\ v4 \in v2[v3].start .. (v2[v3].end - 1) /\ v4 \in Nat
      /\ v7 \in 0 .. (INDEX - 1) /\ v8' \in [0 .. (LIST - 1) -> Nat]
      /\ \A p \in 0 .. v7 : v8'[p] = Pcie!Address(v2[v3], v4, p \div FUNCS, p % FUNCS)
      /\ \A p \in (v7 + 1) .. (LIST - 1) : v8'[p] = v8[p]
  BY PcieWritten
<1>4. Pcie!InRange'
  <2>1. v4' \in Nat /\ v4' >= v2[v3].start
    <3>1. PICK s \in Nat : s = v2[v3].start
      BY <1>0, <1>w, PcieTable
    <3>a. PICK e0 \in Nat : e0 = v2[v3].end
      BY <1>0, <1>w, PcieTable
    <3>b. v4 \in s .. (e0 - 1)
      BY <1>w, <3>1, <3>a
    <3>2. v4 \in Nat /\ v4 >= s
      BY <1>w, <3>b
    <3>3. v4' \in Nat /\ v4' >= s
      BY <1>2, <3>2
    <3> QED
      BY <3>1, <3>3
  <2>2. v3 <= Len(v2) /\ v7' \in 0 .. (INDEX - 1)
    BY <1>0, <1>3, <1>w, PcieTable
  <2> QED
    BY <1>0, <1>1, <1>2, <1>3, <1>w, <2>1, <2>2 DEF Pcie!InRange
<1>5. PICK e, b : e = v3 /\ b = v4
  OBVIOUS
<1>6. e \in 1 .. Len(v2) /\ Len(v2) \in Nat /\ b \in Nat /\ DOMAIN v2 = 1 .. Len(v2)
  BY <1>0, <1>5, <1>w, PcieTable
<1>7. <<e, b>> \in Pcie!Visited
  BY <1>5, <1>6, <1>w, VisitedBus
<1>8. ASSUME NEW u \in Pcie!Visited PROVE u[1] \in Nat /\ u[2] \in Nat /\ u = <<u[1], u[2]>>
  <2>1. PICK f \in DOMAIN v2 : \E c \in v2[f].start .. (v2[f].end - 1) : u = <<f, c>>
    BY VisitedBus
  <2>2. PICK c \in v2[f].start .. (v2[f].end - 1) : u = <<f, c>>
    BY <2>1
  <2>3. f \in Nat /\ v2[f].start \in Nat /\ v2[f].end \in Nat
    BY <1>0, <1>6, PcieTable
  <2>4. c \in Nat
    BY <2>3
  <2> QED
    BY <2>2, <2>3, <2>4
<1>9. Pcie!Done = {u \in Pcie!Visited : u[1] < e \/ (u[1] = e /\ u[2] < b)}
  BY <1>0, <1>5 DEF Pcie!Done
<1>10. Pcie!Done' = {u \in Pcie!Visited : u[1] < e \/ (u[1] = e /\ u[2] < b + 1)}
  BY <1>0, <1>2, <1>5, VisitedKept DEF Pcie!Done
<1>11. PICK B : B = Pcie!Done'
  OBVIOUS
<1>12. Pcie!LastOf(<<e, b>>, B)
  <2>1. <<e, b>> \in B
    BY <1>6, <1>7, <1>10, <1>11
  <2>2. ASSUME NEW u \in B, u # <<e, b>> PROVE Pcie!Later(<<e, b>>, u)
    <3>1. u \in Pcie!Visited /\ (u[1] < e \/ (u[1] = e /\ u[2] < b + 1))
      BY <1>10, <1>11, <2>2
    <3>2. u[1] \in Nat /\ u[2] \in Nat /\ u = <<u[1], u[2]>>
      BY <1>8, <3>1
    <3>3. ~ (u[1] = e /\ u[2] = b)
      BY <2>2, <3>2
    <3>4. e > u[1] \/ (e = u[1] /\ b > u[2])
      BY <1>6, <3>1, <3>2, <3>3
    <3> QED
      BY <3>4 DEF Pcie!Later
  <2> QED
    BY <2>1, <2>2 DEF Pcie!LastOf
<1>13. \A p \in 0 .. (INDEX - 1) : v8'[p] = Pcie!Address(v2[e], b, p \div FUNCS, p % FUNCS)
  <2>1. 0 .. (INDEX - 1) = 0 .. v7
    BY <1>3, <1>w
  <2> QED
    BY <1>5, <1>w, <2>1
<1>14. \A p \in 0 .. (INDEX - 1) : v8'[p] = Pcie!Address(v2'[<<e, b>>[1]], <<e, b>>[2], p \div FUNCS, p % FUNCS)
  BY <1>0, <1>13
<1>15. PICK z : z = <<e, b>>
  OBVIOUS
<1>16. Pcie!Holds(B, 0)'
  <2>1. z \in B /\ Pcie!LastOf(z, B)
    BY <1>12, <1>15 DEF Pcie!LastOf
  <2>2. \A p \in 0 .. (INDEX - 1) : v8'[p] = Pcie!Address(v2'[z[1]], z[2], p \div FUNCS, p % FUNCS)
    BY <1>14, <1>15
  <2> QED
    BY <2>1, <2>2, Zenon DEF Pcie!Holds
<1>17. Pcie!Holds(Pcie!Done, v7)'
  BY <1>3, <1>11, <1>16 DEF Pcie!Holds
<1>18. \A p \in INDEX .. (LIST - 1) : v8'[p] = 0
  BY <1>0, <1>3, <1>w DEF Pcie!Listed
<1>19. Pcie!Listed'
  BY <1>3, <1>17, <1>18 DEF Pcie!Listed
<1> QED
  BY <1>4, <1>19 DEF Pcie!IInv

(* Every step of the enumeration keeps the invariant. *)
LEMMA PcieNext == Pcie!IInv /\ [Pcie!Next]_(Pcie!vars) => Pcie!IInv'
<1> SUFFICES ASSUME Pcie!IInv, [Pcie!Next]_(Pcie!vars) PROVE Pcie!IInv'
  OBVIOUS
<1>1. CASE UNCHANGED Pcie!vars
  <2>1. UNCHANGED <<v1, v2, v3, v4, v5, v6, v7, v8>>
    BY <1>1 DEF Pcie!vars
  <2>2. Pcie!Done' = Pcie!Done
    BY <2>1, VisitedKept DEF Pcie!Done
  <2>3. Pcie!InRange'
    BY <2>1 DEF Pcie!IInv, Pcie!InRange
  <2>4. Pcie!Holds(Pcie!Done, v7)'
    <3>1. PICK B, q : B = Pcie!Done /\ q = v7
      OBVIOUS
    <3>2. Pcie!Holds(B, q)
      BY <3>1 DEF Pcie!IInv, Pcie!Listed
    <3>3. Pcie!Holds(B, q)'
      BY <2>1, <3>2, Zenon DEF Pcie!Holds, Pcie!Address
    <3> QED
      BY <2>1, <2>2, <3>1, <3>3 DEF Pcie!Holds
  <2>5. Pcie!Listed'
    BY <2>1, <2>4, Zenon DEF Pcie!IInv, Pcie!Listed, Pcie!Address
  <2> QED
    BY <2>3, <2>5 DEF Pcie!IInv
<1> QED
  BY <1>1, PcieEntry, PcieBus, PcieStoreMore, PcieStoreLast DEF Pcie!Next, Pcie!Enumerate, Pcie!Returned

(* A bus that is visited is one that the table decodes. *)
LEMMA VisitedDecoded == ASSUME Pcie!InRange PROVE Pcie!Visited \subseteq Pcie!Decoded
<1> SUFFICES ASSUME NEW u \in Pcie!Visited PROVE u \in Pcie!Decoded
  OBVIOUS
<1>1. PICK e \in DOMAIN v2 : \E b \in v2[e].start .. (v2[e].end - 1) : u = <<e, b>>
  BY VisitedBus
<1>2. PICK b \in v2[e].start .. (v2[e].end - 1) : u = <<e, b>>
  BY <1>1
<1>3. v2[e].start \in Nat /\ v2[e].end \in Nat
  BY PcieTable
<1>4. b \in v2[e].start .. v2[e].end
  BY <1>3
<1> QED
  BY <1>2, <1>4 DEF Pcie!Decoded

(* And it says what the properties do. *)
LEMMA PcieProperties == ASSUME Pcie!IInv PROVE Pcie!ListedDecoded /\ Pcie!OneBusListed
<1>0. Pcie!InRange /\ Pcie!Listed
  BY DEF Pcie!IInv
<1> USE PcieAssumption
<1>1. DOMAIN v8 = 0 .. (LIST - 1) /\ v7 \in 0 .. (INDEX - 1)
  BY <1>0 DEF Pcie!InRange
<1>2. ASSUME NEW p \in DOMAIN v8, v8[p] # 0
      PROVE  p < INDEX /\ \E u \in Pcie!Decoded : v8[p] = Pcie!Address(v2[u[1]], u[2], p \div FUNCS, p % FUNCS)
  <2>1. p < INDEX
    <3>1. p \in 0 .. (LIST - 1)
      BY <1>1
    <3>2. ASSUME p >= INDEX PROVE FALSE
      <4>1. p \in INDEX .. (LIST - 1)
        BY <3>1, <3>2
      <4> QED
        BY <1>0, <1>2, <4>1 DEF Pcie!Listed
    <3> QED
      BY <3>1, <3>2
  <2>2. CASE p < v7
    <3>1. v1 = "store" /\ v3 \in 1 .. Len(v2) /\ v4 \in v2[v3].start .. (v2[v3].end - 1) /\ DOMAIN v2 = 1 .. Len(v2)
      <4>1. v1 = "store"
        BY <1>0, <1>1, <2>2 DEF Pcie!InRange
      <4>2. v3 \in 1 .. Len(v2) /\ v4 \in Nat /\ v4 >= v2[v3].start /\ v4 < v2[v3].end
        BY <1>0, <4>1, PcieTable DEF Pcie!InRange
      <4> QED
        BY <1>0, <4>1, <4>2, PcieTable
    <3>2. PICK u : u = <<v3, v4>>
      OBVIOUS
    <3>3. u \in Pcie!Decoded
      <4>1. u \in Pcie!Visited
        BY <3>1, <3>2, VisitedBus
      <4> QED
        BY <1>0, <4>1, VisitedDecoded
    <3>4. u[1] = v3 /\ u[2] = v4
      BY <3>2
    <3>5. p \in 0 .. (v7 - 1)
      BY <1>1, <2>2
    <3>6. v8[p] = Pcie!Address(v2[v3], v4, p \div FUNCS, p % FUNCS)
      BY <1>0, <3>5 DEF Pcie!Listed
    <3> QED
      BY <2>1, <3>3, <3>4, <3>6, Zenon
  <2>3. CASE p >= v7
    <3>1. p \in v7 .. (INDEX - 1)
      BY <1>1, <2>1, <2>3
    <3>2. Pcie!Holds(Pcie!Done, v7)
      BY <1>0 DEF Pcie!Listed
    <3>3. Pcie!Done # {}
      BY <1>2, <3>1, <3>2 DEF Pcie!Holds
    <3>4. PICK u \in Pcie!Done : v8[p] = Pcie!Address(v2[u[1]], u[2], p \div FUNCS, p % FUNCS)
      BY <3>1, <3>2, <3>3 DEF Pcie!Holds
    <3>5. u \in Pcie!Decoded
      BY <1>0, VisitedDecoded DEF Pcie!Done
    <3> QED
      BY <2>1, <3>4, <3>5
  <2> QED
    BY <1>1, <2>2, <2>3
<1>3. Pcie!ListedDecoded
  BY <1>2, Zenon DEF Pcie!ListedDecoded
<1>4. ASSUME v1 = "returned" PROVE Pcie!Holds(Pcie!Visited, 0)
  <2>1. v7 = 0 /\ v3 = Len(v2) + 1 /\ Len(v2) \in Nat
    BY <1>0, <1>4, PcieTable DEF Pcie!InRange
  <2>2. Pcie!Done = Pcie!Visited
    <3>1. ASSUME NEW u \in Pcie!Visited PROVE u[1] < v3
      <4>1. PICK f \in DOMAIN v2 : \E c \in v2[f].start .. (v2[f].end - 1) : u = <<f, c>>
        BY VisitedBus
      <4>2. u[1] = f /\ f \in 1 .. Len(v2)
        BY <1>0, <4>1, PcieTable
      <4> QED
        BY <2>1, <4>2
    <3> QED
      BY <3>1 DEF Pcie!Done
  <2> QED
    BY <1>0, <2>1, <2>2 DEF Pcie!Listed
<1>5. Pcie!OneBusListed
  <2> SUFFICES ASSUME v1 = "returned"
               PROVE  \/ /\ \A e \in DOMAIN v2 : v2[e].end <= v2[e].start
                         /\ \A p \in DOMAIN v8 : v8[p] = 0
                      \/ \E u \in Pcie!Decoded : \A p \in 0 .. (INDEX - 1) :
                           v8[p] = Pcie!Address(v2[u[1]], u[2], p \div FUNCS, p % FUNCS)
    BY Zenon DEF Pcie!OneBusListed
  <2>1. Pcie!Holds(Pcie!Visited, 0)
    BY <1>4
  <2>2. CASE Pcie!Visited = {}
    <3>1. ASSUME NEW e \in DOMAIN v2 PROVE v2[e].end <= v2[e].start
      <4>1. v2[e].start \in Nat /\ v2[e].end \in Nat
        BY <1>0, PcieTable
      <4>2. ASSUME v2[e].start < v2[e].end PROVE FALSE
        <5>1. v2[e].start \in v2[e].start .. (v2[e].end - 1)
          BY <4>1, <4>2
        <5>2. <<e, v2[e].start>> \in Pcie!Visited
          BY <5>1, VisitedBus
        <5> QED
          BY <2>2, <5>2
      <4> QED
        BY <4>1, <4>2
    <3>2. \A p \in 0 .. (INDEX - 1) : v8[p] = 0
      BY <2>1, <2>2 DEF Pcie!Holds
    <3>3. \A p \in INDEX .. (LIST - 1) : v8[p] = 0
      BY <1>0 DEF Pcie!Listed
    <3>4. \A p \in DOMAIN v8 : p \in 0 .. (INDEX - 1) \/ p \in INDEX .. (LIST - 1)
      BY <1>1
    <3> QED
      BY <3>1, <3>2, <3>3, <3>4
  <2>3. CASE Pcie!Visited # {}
    <3>1. PICK u \in Pcie!Visited : \A p \in 0 .. (INDEX - 1) :
            v8[p] = Pcie!Address(v2[u[1]], u[2], p \div FUNCS, p % FUNCS)
      BY <2>1, <2>3 DEF Pcie!Holds
    <3>2. u \in Pcie!Decoded
      BY <1>0, VisitedDecoded
    <3> QED
      BY <3>1, <3>2
  <2> QED
    BY <2>2, <2>3
<1> QED
  BY <1>3, <1>5

-----------------------------------------------------------------------------
(* What the assumptions say of the constants of Syscall. *)
LEMMA SyscallAssumption ==
  Priors \subseteq SUBSET (0 .. 63) /\ Flags \subseteq SUBSET (0 .. 31) /\ MaxCalls \in Nat
<1>0. Syscall!SyscallConstants
  BY ConstantsAssumption
<1> QED
  BY <1>0, Zenon DEF Syscall!SyscallConstants

(* The powers of two that the bits of a selector count. *)
LEMMA Powers ==
  /\ 2^0 = 1 /\ 2^1 = 2 /\ 2^2 = 4 /\ 2^3 = 8 /\ 2^4 = 16 /\ 2^5 = 32 /\ 2^6 = 64 /\ 2^7 = 128
  /\ 2^8 = 256 /\ 2^9 = 512 /\ 2^10 = 1024 /\ 2^11 = 2048 /\ 2^12 = 4096 /\ 2^13 = 8192
  /\ 2^14 = 16384 /\ 2^15 = 32768
  BY SMT

(* The bits of the two selectors. *)
LEMMA SelectorBits == Syscall!Bits(8) = {3} /\ Syscall!Bits(24) = {3, 4}
<1> DEFINE bit(n, b) == (n \div 2^b) % 2
<1>1. /\ bit(8, 0) = 0 /\ bit(8, 1) = 0 /\ bit(8, 2) = 0 /\ bit(8, 3) = 1 /\ bit(8, 4) = 0 /\ bit(8, 5) = 0
      /\ bit(8, 6) = 0 /\ bit(8, 7) = 0 /\ bit(8, 8) = 0 /\ bit(8, 9) = 0 /\ bit(8, 10) = 0
      /\ bit(8, 11) = 0 /\ bit(8, 12) = 0 /\ bit(8, 13) = 0 /\ bit(8, 14) = 0 /\ bit(8, 15) = 0
  BY Powers, SMT
<1>2. /\ bit(24, 0) = 0 /\ bit(24, 1) = 0 /\ bit(24, 2) = 0 /\ bit(24, 3) = 1 /\ bit(24, 4) = 1
      /\ bit(24, 5) = 0 /\ bit(24, 6) = 0 /\ bit(24, 7) = 0 /\ bit(24, 8) = 0 /\ bit(24, 9) = 0
      /\ bit(24, 10) = 0 /\ bit(24, 11) = 0 /\ bit(24, 12) = 0 /\ bit(24, 13) = 0 /\ bit(24, 14) = 0
      /\ bit(24, 15) = 0
  BY Powers, SMT
<1> HIDE DEF bit
<1>3. \A b \in 0 .. 15 : b = 0 \/ b = 1 \/ b = 2 \/ b = 3 \/ b = 4 \/ b = 5 \/ b = 6 \/ b = 7 \/ b = 8
                        \/ b = 9 \/ b = 10 \/ b = 11 \/ b = 12 \/ b = 13 \/ b = 14 \/ b = 15
  BY SMT
<1>4. \A b \in 0 .. 15 : (bit(8, b) = 1 <=> b = 3) /\ (bit(24, b) = 1 <=> b \in {3, 4})
  BY <1>1, <1>2, <1>3, SMT
<1>5. Syscall!Bits(8) = {b \in 0 .. 15 : bit(8, b) = 1} /\ Syscall!Bits(24) = {b \in 0 .. 15 : bit(24, b) = 1}
  BY DEF Syscall!Bits, bit
<1> QED
  BY <1>4, <1>5

(* A number with no bit at w and above but at most w itself is below w. *)
LEMMA TopBit ==
  ASSUME NEW w \in Nat \ {0}, NEW n \in Nat, n < 2 * w, (n \div w) % 2 # 1
  PROVE  n < w
<1> SUFFICES ASSUME n >= w PROVE FALSE
  OBVIOUS
<1>1. n - w \in 0 .. (w - 1) /\ n = 1 * w + (n - w)
  OBVIOUS
<1>2. n \div w = 1
  BY <1>1, Euclid DEF Quotient
<1> QED
  BY <1>2

(* The numbers of 16 bits. *)
Words16 == 0 .. 65535

(* 8 and 24 are among them, and all are below 2^16. *)
LEMMA Words16Facts == 8 \in Words16 /\ 24 \in Words16 /\ \A n \in Words16 : n \in Nat /\ n < 65536
  BY SMT DEF Words16

(* A number of 16 bits has these bits only if it is that selector. *)
LEMMA SelectorValue ==
  ASSUME NEW n \in Words16
  PROVE  /\ Syscall!Bits(n) = {3} => n = 8
         /\ Syscall!Bits(n) = {3, 4} => n = 24
<1>0. n \in Nat /\ n < 65536
  BY Words16Facts, SMT
<1> DEFINE bit(b) == (n \div 2^b) % 2
<1>1. \A b \in 0 .. 15 : b \in Syscall!Bits(n) <=> bit(b) = 1
  BY DEF Syscall!Bits
<1>p. /\ bit(15) = (n \div 32768) % 2 /\ bit(14) = (n \div 16384) % 2 /\ bit(13) = (n \div 8192) % 2
      /\ bit(12) = (n \div 4096) % 2 /\ bit(11) = (n \div 2048) % 2 /\ bit(10) = (n \div 1024) % 2
      /\ bit(9) = (n \div 512) % 2 /\ bit(8) = (n \div 256) % 2 /\ bit(7) = (n \div 128) % 2
      /\ bit(6) = (n \div 64) % 2 /\ bit(5) = (n \div 32) % 2 /\ bit(4) = (n \div 16) % 2
      /\ bit(3) = (n \div 8) % 2 /\ bit(2) = (n \div 4) % 2 /\ bit(1) = (n \div 2) % 2
      /\ bit(0) = (n \div 1) % 2
  BY Powers, SMT
<1> HIDE DEF bit
<1>2. ASSUME NEW B, B = {3} \/ B = {3, 4}, Syscall!Bits(n) = B
      PROVE  n < 32
  <2>1. \A b \in 5 .. 15 : b \in 0 .. 15 /\ b # 3 /\ b # 4
    OBVIOUS
  <2>2. \A b \in 5 .. 15 : bit(b) # 1
    BY <1>1, <1>2, <2>1
  <2>3. /\ bit(15) # 1 /\ bit(14) # 1 /\ bit(13) # 1 /\ bit(12) # 1 /\ bit(11) # 1 /\ bit(10) # 1
        /\ bit(9) # 1 /\ bit(8) # 1 /\ bit(7) # 1 /\ bit(6) # 1 /\ bit(5) # 1
    BY <2>2, SMT
  <2>4. n < 32768
    BY <1>0, <1>p, <2>3, TopBit, SMTT(20)
  <2>5. n < 16384
    BY <1>0, <1>p, <2>3, <2>4, TopBit, SMTT(20)
  <2>6. n < 8192
    BY <1>0, <1>p, <2>3, <2>5, TopBit, SMTT(20)
  <2>7. n < 4096
    BY <1>0, <1>p, <2>3, <2>6, TopBit, SMTT(20)
  <2>8. n < 2048
    BY <1>0, <1>p, <2>3, <2>7, TopBit, SMTT(20)
  <2>9. n < 1024
    BY <1>0, <1>p, <2>3, <2>8, TopBit, SMTT(20)
  <2>10. n < 512
    BY <1>0, <1>p, <2>3, <2>9, TopBit, SMTT(20)
  <2>11. n < 256
    BY <1>0, <1>p, <2>3, <2>10, TopBit, SMTT(20)
  <2>12. n < 128
    BY <1>0, <1>p, <2>3, <2>11, TopBit, SMTT(20)
  <2>13. n < 64
    BY <1>0, <1>p, <2>3, <2>12, TopBit, SMTT(20)
  <2> QED
    BY <1>0, <1>p, <2>3, <2>13, TopBit, SMTT(20)
<1>3. ASSUME Syscall!Bits(n) = {3} PROVE n = 8
  <2>1. bit(4) # 1 /\ bit(3) = 1 /\ bit(2) # 1 /\ bit(1) # 1 /\ bit(0) # 1
    BY <1>1, <1>3
  <2>2. n < 32
    BY <1>2, <1>3
  <2> QED
    BY <1>0, <1>p, <2>1, <2>2, SMT
<1>4. ASSUME Syscall!Bits(n) = {3, 4} PROVE n = 24
  <2>1. bit(4) = 1 /\ bit(3) = 1 /\ bit(2) # 1 /\ bit(1) # 1 /\ bit(0) # 1
    BY <1>1, <1>4
  <2>2. n < 32
    BY <1>2, <1>4
  <2> QED
    BY <1>0, <1>p, <2>1, <2>2, SMT
<1> QED
  BY <1>3, <1>4

(* The selectors that STAR names are the ones the kernel put there, at     *)
(* bits 32 and 48, whatever its low half holds.                            *)
LEMMA StarSelectors ==
  ASSUME NEW low \in SUBSET (0 .. 31),
         NEW m, m = low \cup Syscall!Shift(Syscall!Bits(8), 32) \cup Syscall!Shift(Syscall!Bits(24), 48)
  PROVE  /\ m \subseteq 0 .. 63 /\ m \cap (0 .. 31) = low
         /\ Syscall!Selector(m, 32) = 8 /\ Syscall!Selector(m, 48) = 24
<1>1. Syscall!Shift(Syscall!Bits(8), 32) = {35} /\ Syscall!Shift(Syscall!Bits(24), 48) = {51, 52}
  <2>1. \A b : b \in Syscall!Shift({3}, 32) <=> b = 35
    BY DEF Syscall!Shift
  <2>2. \A b : b \in Syscall!Shift({3, 4}, 48) <=> b \in {51, 52}
    BY DEF Syscall!Shift
  <2> QED
    BY <2>1, <2>2, SelectorBits
<1>2. m = low \cup {35, 51, 52}
  BY <1>1
<1>3. m \subseteq 0 .. 63 /\ m \cap (0 .. 31) = low
  <2>1. \A b \in 0 .. 31 : b \in 0 .. 63 /\ b # 35 /\ b # 51 /\ b # 52
    BY SMT
  <2>2. 35 \in 0 .. 63 /\ 51 \in 0 .. 63 /\ 52 \in 0 .. 63
    BY SMT
  <2>3. \A b \in m : b \in 0 .. 63
    BY <1>2, <2>1, <2>2
  <2>4. \A b : b \in m \cap (0 .. 31) <=> b \in low
    BY <1>2, <2>1
  <2> QED
    BY <2>3, <2>4
<1>4. m \cap (32 .. 47) = {35} /\ m \cap (48 .. 63) = {51, 52}
  BY <1>2
<1>5. Syscall!Shift({35}, -32) = {3} /\ Syscall!Shift({51, 52}, -48) = {3, 4}
  <2>1. \A b : b \in Syscall!Shift({35}, -32) <=> b = 3
    BY DEF Syscall!Shift
  <2>2. \A b : b \in Syscall!Shift({51, 52}, -48) <=> b \in {3, 4}
    BY DEF Syscall!Shift
  <2> QED
    BY <2>1, <2>2
<1>6. 32 + 15 = 47 /\ 48 + 15 = 63
  OBVIOUS
<1>7. PICK T : T = Words16
  OBVIOUS
<1>8. 8 \in T /\ 24 \in T /\ \A n \in T : (Syscall!Bits(n) = {3} => n = 8) /\ (Syscall!Bits(n) = {3, 4} => n = 24)
  BY <1>7, SelectorValue, Words16Facts
<1>9. PICK S : S = Syscall!Shift(m \cap (32 .. (32 + 15)), -32)
  OBVIOUS
<1>10. PICK S2 : S2 = Syscall!Shift(m \cap (48 .. (48 + 15)), -48)
  OBVIOUS
<1>11. S = {3} /\ S2 = {3, 4}
  BY <1>4, <1>5, <1>6, <1>9, <1>10
<1>12. /\ Syscall!Selector(m, 32) = CHOOSE n \in T : Syscall!Bits(n) = S
       /\ Syscall!Selector(m, 48) = CHOOSE n \in T : Syscall!Bits(n) = S2
  BY <1>7, <1>9, <1>10, SMTT(20) DEF Syscall!Selector, Words16
<1>13. (CHOOSE n \in T : Syscall!Bits(n) = S) = 8
  BY <1>8, <1>11, SelectorBits
<1>14. (CHOOSE n \in T : Syscall!Bits(n) = S2) = 24
  BY <1>8, <1>11, SelectorBits
<1> QED
  BY <1>3, <1>12, <1>13, <1>14

(* A 64-bit value taken apart into two halves and put together again. *)
LEMMA TwoHalves ==
  ASSUME NEW m \in SUBSET (0 .. 63)
  PROVE  Syscall!Shift(Syscall!Shift(m \cap (32 .. 63), -32), 32) \cup (m \cap (0 .. 31)) = m
<1>0. PICK z : z = -32 /\ z \in Int /\ z + 32 = 0
  OBVIOUS
<1>1. PICK upper : upper = m \cap (32 .. 63)
  OBVIOUS
<1>2. PICK down : down = Syscall!Shift(upper, z)
  OBVIOUS
<1>3. PICK back : back = Syscall!Shift(down, 32)
  OBVIOUS
<1>4. \A b \in upper : b + z \in Int /\ (b + z) + 32 = b
  BY <1>0, <1>1
<1>5. \A b : b \in back <=> b \in upper
  <2>1. down = {b + z : b \in upper} /\ back = {b + 32 : b \in down}
    BY <1>2, <1>3 DEF Syscall!Shift
  <2> QED
    BY <1>4, <2>1
<1>6. \A b \in m : b \in 0 .. 31 \/ b \in 32 .. 63
  OBVIOUS
<1>7. back \cup (m \cap (0 .. 31)) = m
  BY <1>1, <1>5, <1>6
<1> QED
  BY <1>0, <1>1, <1>2, <1>3, <1>7

(* So rdmsr returns what the register holds, and wrmsr stores its value. *)
LEMMA ReadWrite ==
  ASSUME v2 \in [Syscall!Msrs -> SUBSET (0 .. 63)], NEW m \in Syscall!Msrs
  PROVE  /\ Syscall!rdmsr(m) = v2[m]
         /\ \A value \in SUBSET (0 .. 63) :
              Syscall!wrmsr(m, value) => /\ v2' \in [Syscall!Msrs -> SUBSET (0 .. 63)] /\ v2'[m] = value
                                         /\ \A o \in Syscall!Msrs \ {m} : v2'[o] = v2[o]
<1>1. Syscall!rdmsr(m) = v2[m]
  <2>1. v2[m] \in SUBSET (0 .. 63)
    OBVIOUS
  <2> QED
    BY <2>1, TwoHalves DEF Syscall!rdmsr
<1>2. ASSUME NEW value \in SUBSET (0 .. 63), Syscall!wrmsr(m, value)
      PROVE  /\ v2' \in [Syscall!Msrs -> SUBSET (0 .. 63)] /\ v2'[m] = value
             /\ \A o \in Syscall!Msrs \ {m} : v2'[o] = v2[o]
  <2>1. v2' = [v2 EXCEPT ![m] = value]
    BY <1>2, TwoHalves DEF Syscall!wrmsr
  <2> QED
    BY <2>1
<1> QED
  BY <1>1, <1>2

(* The names of the registers are different. *)
LEMMA MsrNames ==
  /\ Syscall!Msrs = {"efer", "lstar", "star", "fmask"}
  /\ Syscall!EFER = "efer" /\ Syscall!LSTAR = "lstar" /\ Syscall!STAR = "star" /\ Syscall!FMASK = "fmask"
  /\ Syscall!INTERRUPT = 9
  BY DEF Syscall!Msrs, Syscall!EFER, Syscall!LSTAR, Syscall!STAR, Syscall!FMASK, Syscall!INTERRUPT

(* The invariant holds before the first statement. *)
LEMMA SyscallInit == Syscall!Init => Syscall!IInv
<1> SUFFICES ASSUME Syscall!Init PROVE Syscall!IInv
  OBVIOUS
<1> USE SyscallAssumption
<1>1. /\ v1 = "load_gdt" /\ v2 \in [Syscall!Msrs -> Priors] /\ v3 = v2 /\ v6 = {}
      /\ v7 = [r \in Syscall!Registers |-> "?"] /\ v8 \in Allocations /\ v10 = << >> /\ v12 = 0
  BY DEF Syscall!Init
<1>2. Len(v10) = 0 /\ v10 = [k \in 1 .. Len(v10) |-> v10[k]]
  BY <1>1
<1>3. Syscall!SetUp
  BY <1>1, MsrNames DEF Syscall!SetUp, Syscall!InSetup
<1>4. Syscall!TypeOK
  BY <1>1, <1>2, <1>3, MsrNames DEF Syscall!TypeOK, Syscall!SetUp, Syscall!InHandler, Syscall!InSetup
<1>5. Syscall!Entered
  BY <1>1 DEF Syscall!Entered, Syscall!InHandler
<1>6. v7 = [r \in Syscall!Registers |-> v7[r]]
  BY <1>1
<1>7. Syscall!FlagsKept
  BY <1>1, <1>2, <1>6 DEF Syscall!FlagsKept
<1>8. Syscall!BackIfSpared
  BY <1>1 DEF Syscall!BackIfSpared
<1> QED
  BY <1>3, <1>4, <1>5, <1>7, <1>8 DEF Syscall!IInv

(* A statement of the set-up writes the register it is about. *)
LEMMA SetupStep ==
  ASSUME Syscall!IInv, Syscall!Setup
  PROVE  /\ \/ v1 = "load_gdt" /\ v1' = "efer" /\ v2' = v2
            \/ v1 = "efer" /\ v1' = "lstar" /\ v2'["efer"] = v2["efer"] \cup {0}
               /\ \A o \in Syscall!Msrs \ {"efer"} : v2'[o] = v2[o]
            \/ v1 = "lstar" /\ v1' = "star" /\ v2'["lstar"] = Syscall!HandlerAddress
               /\ \A o \in Syscall!Msrs \ {"lstar"} : v2'[o] = v2[o]
            \/ v1 = "star" /\ v1' = "fmask"
               /\ v2'["star"] = (v2["star"] \cap (0 .. 31)) \cup Syscall!Shift(Syscall!Bits(8), 32)
                                  \cup Syscall!Shift(Syscall!Bits(24), 48)
               /\ \A o \in Syscall!Msrs \ {"star"} : v2'[o] = v2[o]
            \/ v1 = "fmask" /\ v1' = "user" /\ v2'["fmask"] = v2["fmask"] \cup {9}
               /\ \A o \in Syscall!Msrs \ {"fmask"} : v2'[o] = v2[o]
         /\ v2' \in [Syscall!Msrs -> SUBSET (0 .. 63)]
         /\ UNCHANGED <<v3, v6, v7, v8, v9, v10, v11, v12>>
<1>1. v2 \in [Syscall!Msrs -> SUBSET (0 .. 63)]
  BY DEF Syscall!IInv, Syscall!SetUp
<1>2. \A m \in Syscall!Msrs : v2[m] \in SUBSET (0 .. 63)
  BY <1>1
<1>3. CASE Syscall!LoadGdt
  BY <1>1, <1>3 DEF Syscall!LoadGdt
<1>4. CASE Syscall!SetEfer
  <2>1. PICK value : value = v2["efer"] \cup {0}
    OBVIOUS
  <2>2. value \in SUBSET (0 .. 63)
    BY <1>2, <2>1, MsrNames
  <2>3. Syscall!wrmsr("efer", value)
    BY <1>1, <1>4, <2>1, MsrNames, ReadWrite DEF Syscall!SetEfer
  <2>4. /\ v2' \in [Syscall!Msrs -> SUBSET (0 .. 63)] /\ v2'["efer"] = value
        /\ \A o \in Syscall!Msrs \ {"efer"} : v2'[o] = v2[o]
    BY <1>1, <2>2, <2>3, MsrNames, ReadWrite
  <2> QED
    BY <1>4, <2>1, <2>4 DEF Syscall!SetEfer
<1>5. CASE Syscall!SetLstar
  <2>1. PICK value : value = Syscall!HandlerAddress
    OBVIOUS
  <2>2. value \in SUBSET (0 .. 63)
    BY <2>1 DEF Syscall!HandlerAddress
  <2>3. Syscall!wrmsr("lstar", value)
    BY <1>5, <2>1, MsrNames DEF Syscall!SetLstar
  <2>4. /\ v2' \in [Syscall!Msrs -> SUBSET (0 .. 63)] /\ v2'["lstar"] = value
        /\ \A o \in Syscall!Msrs \ {"lstar"} : v2'[o] = v2[o]
    BY <1>1, <2>2, <2>3, MsrNames, ReadWrite
  <2> QED
    BY <1>5, <2>1, <2>4 DEF Syscall!SetLstar
<1>6. CASE Syscall!SetStar
  <2>1. PICK low : low = v2["star"] \cap (0 .. 31)
    OBVIOUS
  <2>2. PICK value : value = low \cup Syscall!Shift(Syscall!Bits(8), 32) \cup Syscall!Shift(Syscall!Bits(24), 48)
    OBVIOUS
  <2>3. value \in SUBSET (0 .. 63)
    BY <2>1, <2>2, StarSelectors
  <2>4. Syscall!wrmsr("star", value)
    BY <1>1, <1>6, <2>1, <2>2, MsrNames, ReadWrite DEF Syscall!SetStar
  <2>5. /\ v2' \in [Syscall!Msrs -> SUBSET (0 .. 63)] /\ v2'["star"] = value
        /\ \A o \in Syscall!Msrs \ {"star"} : v2'[o] = v2[o]
    BY <1>1, <2>3, <2>4, MsrNames, ReadWrite
  <2> QED
    BY <1>6, <2>1, <2>2, <2>5 DEF Syscall!SetStar
<1>7. CASE Syscall!SetFmask
  <2>1. PICK value : value = v2["fmask"] \cup {9}
    OBVIOUS
  <2>2. value \in SUBSET (0 .. 63)
    BY <1>2, <2>1, MsrNames
  <2>3. Syscall!wrmsr("fmask", value)
    BY <1>1, <1>7, <2>1, MsrNames, ReadWrite DEF Syscall!SetFmask
  <2>4. /\ v2' \in [Syscall!Msrs -> SUBSET (0 .. 63)] /\ v2'["fmask"] = value
        /\ \A o \in Syscall!Msrs \ {"fmask"} : v2'[o] = v2[o]
    BY <1>1, <2>2, <2>3, MsrNames, ReadWrite
  <2> QED
    BY <1>7, <2>1, <2>4 DEF Syscall!SetFmask
<1> QED
  BY <1>3, <1>4, <1>5, <1>6, <1>7 DEF Syscall!Setup

(* The set-up keeps the invariant. *)
LEMMA SyscallSetup ==
  ASSUME Syscall!IInv, Syscall!Setup
  PROVE  Syscall!IInv'
<1>0. Syscall!TypeOK /\ Syscall!SetUp /\ Syscall!Entered /\ Syscall!FlagsKept /\ Syscall!BackIfSpared
  BY DEF Syscall!IInv
<1>1. PICK star : star = Syscall!Shift(Syscall!Bits(8), 32) \cup Syscall!Shift(Syscall!Bits(24), 48)
  OBVIOUS
<1>w. /\ \/ v1 = "load_gdt" /\ v1' = "efer" /\ v2' = v2
         \/ v1 = "efer" /\ v1' = "lstar" /\ v2'["efer"] = v2["efer"] \cup {0}
            /\ \A o \in Syscall!Msrs \ {"efer"} : v2'[o] = v2[o]
         \/ v1 = "lstar" /\ v1' = "star" /\ v2'["lstar"] = Syscall!HandlerAddress
            /\ \A o \in Syscall!Msrs \ {"lstar"} : v2'[o] = v2[o]
         \/ v1 = "star" /\ v1' = "fmask"
            /\ v2'["star"] = (v2["star"] \cap (0 .. 31)) \cup star
            /\ \A o \in Syscall!Msrs \ {"star"} : v2'[o] = v2[o]
         \/ v1 = "fmask" /\ v1' = "user" /\ v2'["fmask"] = v2["fmask"] \cup {9}
            /\ \A o \in Syscall!Msrs \ {"fmask"} : v2'[o] = v2[o]
      /\ v2' \in [Syscall!Msrs -> SUBSET (0 .. 63)]
      /\ UNCHANGED <<v3, v6, v7, v8, v9, v10, v11, v12>>
  BY <1>1, SetupStep
<1>2. Syscall!SetUp'
  BY <1>0, <1>1, <1>w, MsrNames DEF Syscall!SetUp, Syscall!InSetup
<1>3. v12' = 0 /\ v12 = 0
  BY <1>0, <1>w DEF Syscall!Entered, Syscall!InSetup
<1>4. Syscall!TypeOK'
  BY <1>0, <1>w, <1>2, MsrNames DEF Syscall!SetUp, Syscall!TypeOK, Syscall!InHandler, Syscall!InSetup
<1>5. Syscall!Entered'
  BY <1>3, <1>w DEF Syscall!Entered, Syscall!InHandler
<1>6. Syscall!FlagsKept'
  BY <1>0, <1>w DEF Syscall!FlagsKept, Syscall!Kept, Syscall!Spared
<1>7. Syscall!BackIfSpared'
  BY <1>3, <1>w DEF Syscall!BackIfSpared
<1> QED
  BY <1>2, <1>4, <1>5, <1>6, <1>7 DEF Syscall!IInv

(* What the set-up leaves for every system call. *)
LEMMA Configured ==
  ASSUME Syscall!IInv, v1 \notin Syscall!InSetup
  PROVE  /\ v2["lstar"] = Syscall!HandlerAddress /\ 9 \in v2["fmask"]
         /\ Syscall!Selector(v2["star"], 32) = 8 /\ Syscall!Selector(v2["star"], 48) = 24
         /\ Syscall!OthersPreserved
<1>1. Syscall!SetUp /\ v1 \notin {"load_gdt", "efer", "lstar", "star"}
  BY DEF Syscall!IInv, Syscall!InSetup
<1>2. PICK low : low = v3["star"] \cap (0 .. 31)
  OBVIOUS
<1>3. v2["star"] = low \cup Syscall!Shift(Syscall!Bits(8), 32) \cup Syscall!Shift(Syscall!Bits(24), 48)
  BY <1>1, <1>2, MsrNames DEF Syscall!SetUp
<1>4. /\ v2["star"] \cap (0 .. 31) = low
      /\ Syscall!Selector(v2["star"], 32) = 8 /\ Syscall!Selector(v2["star"], 48) = 24
  BY <1>2, <1>3, StarSelectors
<1>5. /\ v2["lstar"] = Syscall!HandlerAddress /\ v2["fmask"] = v3["fmask"] \cup {9}
      /\ v2["efer"] = v3["efer"] \cup {0}
  BY <1>1, MsrNames DEF Syscall!SetUp
<1>6. v2["fmask"] \ {9} = v3["fmask"] \ {9}
  BY <1>5
<1> QED
  BY <1>2, <1>4, <1>5, <1>6, MsrNames DEF Syscall!OthersPreserved

(* And no system call changes it. *)
LEMMA SetUpKept ==
  ASSUME Syscall!SetUp, UNCHANGED <<v2, v3>>, v1 \notin Syscall!InSetup, v1' \notin Syscall!InSetup
  PROVE  Syscall!SetUp'
  BY DEF Syscall!SetUp, Syscall!InSetup

(* The stack is a sequence. *)
LEMMA StackSeq ==
  ASSUME Syscall!IInv
  PROVE  \E S : v10 \in Seq(S) /\ "frame" \in S /\ v7["rcx"] \in S /\ v7["r11"] \in S
<1>1. Len(v10) \in Nat /\ v10 = [k \in 1 .. Len(v10) |-> v10[k]]
  BY DEF Syscall!IInv, Syscall!FlagsKept
<1>2. PICK n \in Nat : v10 = [k \in 1 .. n |-> v10[k]]
  BY <1>1
<1> DEFINE S == {v10[k] : k \in 1 .. n} \cup {"frame", v7["rcx"], v7["r11"]}
<1>3. v10 \in Seq(S)
  BY <1>2
<1> QED
  BY <1>3

(* The program's SYSCALL. *)
LEMMA SyscallCall ==
  ASSUME Syscall!IInv, NEW num \in Numbers, NEW arg4 \in Numbers, NEW flags \in Flags,
         Syscall!Call(num, arg4, flags)
  PROVE  Syscall!IInv'
<1>0. Syscall!TypeOK /\ Syscall!SetUp /\ Syscall!Entered /\ Syscall!FlagsKept /\ Syscall!BackIfSpared
  BY DEF Syscall!IInv
<1>1. /\ v1 = "user" /\ v12 < MaxCalls /\ v11' = flags /\ v12' = v12 + 1
      /\ v6' = flags \ v2["fmask"] /\ UNCHANGED <<v2, v3, v8, v9, v10>>
      /\ v4' = Syscall!Selector(v2["star"], 32) /\ v5' = Syscall!Selector(v2["star"], 32) + 8
      /\ v1' = IF v2["lstar"] = Syscall!HandlerAddress THEN "entry" ELSE "astray"
  BY MsrNames DEF Syscall!Call
<1>2. v1 \notin Syscall!InSetup
  BY <1>1 DEF Syscall!InSetup
<1>3. v1' = "entry" /\ v4' = 8 /\ v5' = 16
  BY <1>1, <1>2, Configured
<1>4. /\ v7' = [r \in Syscall!Registers |-> v7'[r]] /\ v7'["r11"] = "flags" /\ v7'["rcx"] = "caller"
  BY DEF Syscall!Call, Syscall!Registers
<1>5. Syscall!SetUp'
  BY <1>0, <1>1, <1>2, <1>3, SetUpKept DEF Syscall!InSetup
<1>6. v12 \in 0 .. MaxCalls /\ MaxCalls \in Nat /\ flags \subseteq 0 .. 31
  BY <1>0, SyscallAssumption DEF Syscall!TypeOK
<1>7. Len(v10) = v12
  BY <1>0, <1>1, <1>6 DEF Syscall!TypeOK, Syscall!InHandler
<1>8. Syscall!TypeOK'
  <2>0. v6' \subseteq 0 .. 31
    BY <1>1, <1>6
  <2>1. v12' \in 0 .. MaxCalls /\ Len(v10') = v12' - 1
    BY <1>1, <1>6, <1>7
  <2>2. v12' + (CASE v1' = "entry" -> -1 [] v1' \in {"switch", "forever", "pop"} -> 2
                  [] OTHER -> 0) = v12' - 1
    BY <1>3, <2>1, SyscallAssumption
  <2> QED
    BY <1>0, <1>1, <1>3, <2>0, <2>1, <2>2 DEF Syscall!TypeOK, Syscall!InHandler
<1>9. Syscall!Entered'
  BY <1>1, <1>3, <1>6, MsrNames DEF Syscall!Entered, Syscall!InHandler, Syscall!InSetup
<1>10. Syscall!FlagsKept'
  BY <1>0, <1>1, <1>3, <1>4 DEF Syscall!FlagsKept, Syscall!Kept
<1>11. Syscall!BackIfSpared'
  BY <1>3 DEF Syscall!BackIfSpared
<1> QED
  BY <1>5, <1>8, <1>9, <1>10, <1>11 DEF Syscall!IInv

(* A step of the handler changes neither the MSRs nor the history, stays   *)
(* in the handler until SYSRET, and what the compiler spares stays spared. *)
LEMMA SyscallHandler ==
  ASSUME Syscall!IInv, Syscall!Handler
  PROVE  /\ v1 \in Syscall!InHandler /\ v1' \in Syscall!InHandler \cup {"user", "lost"} /\ Syscall!SetUp'
         /\ UNCHANGED <<v2, v3, v8, v11, v12>>
         /\ \A m \in Syscall!Msrs : v2'[m] \subseteq 0 .. 63 /\ v3'[m] \in Priors
<1>1. /\ v1 \in Syscall!InHandler /\ v1' \in Syscall!InHandler \cup {"user", "lost"}
      /\ UNCHANGED <<v2, v3, v8, v11, v12>>
  BY DEF Syscall!Handler, Syscall!Entry, Syscall!Push, Syscall!Switch, Syscall!Pop, Syscall!Sysret,
         Syscall!InHandler
<1>2. v1 \notin Syscall!InSetup /\ v1' \notin Syscall!InSetup
  BY <1>1 DEF Syscall!InHandler, Syscall!InSetup
<1> QED
  BY <1>1, <1>2, SetUpKept DEF Syscall!IInv, Syscall!TypeOK

(* The seven moves leave alone what the compiler spares. *)
LEMMA MovesKeepSpared ==
  ASSUME Syscall!IInv
  PROVE  /\ Syscall!Moves = [r \in Syscall!Registers |-> Syscall!Moves[r]]
         /\ \A r \in Syscall!Registers : Syscall!Spared(r) => Syscall!Moves[r] = v7[r]
<1> DEFINE Same(f) == /\ f = [r \in Syscall!Registers |-> f[r]]
                      /\ \A r \in Syscall!Registers : Syscall!Spared(r) => f[r] = v7[r]
<1>1. Same(v7)
  BY DEF Syscall!IInv, Syscall!FlagsKept
<1>2. ASSUME NEW f, NEW k \in 1 .. 7, Same(f) PROVE Same(Syscall!Move(f, k))
  <2>1. PICK g : g = Syscall!Move(f, k)
    OBVIOUS
  <2>2. PICK u, w : u = v8[k] /\ w = f[Syscall!Inputs[k]]
    OBVIOUS
  <2>3. \A r \in Syscall!Registers : Syscall!Spared(r) => u # r
    BY <2>2 DEF Syscall!Spared
  <2>4. g = [f EXCEPT ![u] = w]
    BY <2>1, <2>2 DEF Syscall!Move
  <2>5. g = [r \in Syscall!Registers |-> g[r]] /\ \A r \in Syscall!Registers : u # r => g[r] = f[r]
    BY <1>2, <2>4
  <2>6. Same(g)
    BY <1>2, <2>3, <2>5
  <2> QED
    BY <2>1, <2>6
<1> HIDE DEF Same
<1>3. \A f : \A k \in 1 .. 7 : Same(f) => Same(Syscall!Move(f, k))
  BY <1>2
<1>4. Same(Syscall!Moves)
  BY <1>1, <1>3 DEF Syscall!Moves
<1> QED
  BY <1>4 DEF Same

(* The function's frame and the moves (syscall.c:4-16). *)
LEMMA SyscallEntry ==
  ASSUME Syscall!IInv, Syscall!Entry
  PROVE  Syscall!IInv'
<1>0. Syscall!TypeOK /\ Syscall!SetUp /\ Syscall!Entered /\ Syscall!FlagsKept /\ Syscall!BackIfSpared
  BY DEF Syscall!IInv
<1>w. /\ Syscall!SetUp' /\ UNCHANGED <<v2, v3, v8, v11, v12>>
      /\ \A m \in Syscall!Msrs : v2'[m] \subseteq 0 .. 63 /\ v3'[m] \in Priors
  BY SyscallHandler DEF Syscall!Handler
<1>1. /\ v1 = "entry" /\ v1' = "push" /\ v7' = Syscall!Moves /\ v10' = Append(v10, "frame")
      /\ UNCHANGED <<v4, v5, v6>>
  BY DEF Syscall!Entry
<1>2. PICK S : v10 \in Seq(S) /\ "frame" \in S
  BY StackSeq
<1>3. Len(v10') = Len(v10) + 1 /\ v10' = [k \in 1 .. Len(v10') |-> v10'[k]]
  <2>1. v10' \in Seq(S) /\ Len(v10') = Len(v10) + 1
    BY <1>1, <1>2, AppendProperties
  <2> QED
    BY <2>1
<1>4. Len(v10) = v12 - 1 /\ v12 \in 0 .. MaxCalls
  BY <1>0, <1>1 DEF Syscall!TypeOK
<1>5. Len(v10') = v12'
  BY <1>3, <1>4, <1>w, SyscallAssumption
<1>6. Syscall!TypeOK'
  <2>1. v12' + (CASE v1' = "entry" -> -1 [] v1' \in {"switch", "forever", "pop"} -> 2
                  [] OTHER -> 0) = v12'
    BY <1>1, <1>4, <1>w, SyscallAssumption
  <2> QED
    BY <1>0, <1>1, <1>w, <1>5, <2>1 DEF Syscall!TypeOK, Syscall!InHandler
<1>7. Syscall!Entered'
  BY <1>0, <1>1, <1>w DEF Syscall!Entered, Syscall!InHandler, Syscall!InSetup
<1>8. Syscall!FlagsKept'
  <2>1. "rcx" \in Syscall!Registers /\ "r11" \in Syscall!Registers
    BY DEF Syscall!Registers
  <2>2. Syscall!Kept(v7["rcx"], v7["r11"])
    BY <1>0, <1>1 DEF Syscall!FlagsKept
  <2>3. Syscall!Kept(v7'["rcx"], v7'["r11"])
    BY <1>1, <2>1, <2>2, MovesKeepSpared DEF Syscall!Kept
  <2>4. Syscall!Kept(v7["rcx"], v7["r11"])'
    BY <1>w, <2>3 DEF Syscall!Kept, Syscall!Spared
  <2>5. v7' = [r \in Syscall!Registers |-> v7'[r]]
    BY <1>1, MovesKeepSpared
  <2> QED
    BY <1>1, <1>3, <2>4, <2>5 DEF Syscall!FlagsKept
<1>9. Syscall!BackIfSpared'
  BY <1>1 DEF Syscall!BackIfSpared
<1> QED
  BY <1>6, <1>7, <1>8, <1>9, <1>w DEF Syscall!IInv

(* The program's rcx and r11 are pushed (syscall.c:18-21). *)
LEMMA SyscallPush ==
  ASSUME Syscall!IInv, Syscall!Push
  PROVE  Syscall!IInv'
<1>0. Syscall!TypeOK /\ Syscall!SetUp /\ Syscall!Entered /\ Syscall!FlagsKept /\ Syscall!BackIfSpared
  BY DEF Syscall!IInv
<1>w. /\ Syscall!SetUp' /\ UNCHANGED <<v2, v3, v8, v11, v12>>
      /\ \A m \in Syscall!Msrs : v2'[m] \subseteq 0 .. 63 /\ v3'[m] \in Priors
  BY SyscallHandler DEF Syscall!Handler
<1>1. /\ v1 = "push" /\ v1' = "switch" /\ v10' = v10 \o <<v7["rcx"], v7["r11"]>>
      /\ UNCHANGED <<v4, v5, v6, v7>>
  BY DEF Syscall!Push
<1>2. PICK S : v10 \in Seq(S) /\ v7["rcx"] \in S /\ v7["r11"] \in S
  BY StackSeq
<1>3. PICK e, f \in S : e = v7["rcx"] /\ f = v7["r11"] /\ <<e, f>> \in Seq(S) /\ Len(<<e, f>>) = 2
                        /\ <<e, f>>[1] = e /\ <<e, f>>[2] = f
  BY <1>2
<1>4. Len(v10') = Len(v10) + 2 /\ v10'[Len(v10) + 1] = e /\ v10'[Len(v10) + 2] = f /\ v10' \in Seq(S)
  BY <1>1, <1>2, <1>3, ConcatProperties
<1>5. v10' = [k \in 1 .. Len(v10') |-> v10'[k]]
  BY <1>4
<1>6. Len(v10) = v12 /\ v12 \in 0 .. MaxCalls
  BY <1>0, <1>1, SyscallAssumption DEF Syscall!TypeOK
<1>7. Len(v10') = v12' + 2
  BY <1>4, <1>6, <1>w
<1>8. Syscall!TypeOK'
  BY <1>0, <1>1, <1>w, <1>7 DEF Syscall!TypeOK, Syscall!InHandler
<1>9. Syscall!Entered'
  BY <1>0, <1>1, <1>w DEF Syscall!Entered, Syscall!InHandler, Syscall!InSetup
<1>10. Syscall!FlagsKept'
  <2>1. Syscall!Kept(e, f)
    BY <1>0, <1>1, <1>3 DEF Syscall!FlagsKept
  <2>2. v10'[Len(v10') - 1] = e /\ v10'[Len(v10')] = f
    BY <1>4, <1>6
  <2>3. Syscall!Kept(v10[Len(v10) - 1], v10[Len(v10)])'
    BY <1>w, <2>1, <2>2 DEF Syscall!Kept, Syscall!Spared
  <2> QED
    BY <1>0, <1>1, <1>5, <2>3 DEF Syscall!FlagsKept
<1>11. Syscall!BackIfSpared'
  BY <1>1 DEF Syscall!BackIfSpared
<1> QED
  BY <1>8, <1>9, <1>10, <1>11, <1>w DEF Syscall!IInv

(* The switch on the number (syscall.c:23-35). *)
LEMMA SyscallSwitch ==
  ASSUME Syscall!IInv, Syscall!Switch
  PROVE  Syscall!IInv'
<1>0. Syscall!TypeOK /\ Syscall!SetUp /\ Syscall!Entered /\ Syscall!FlagsKept /\ Syscall!BackIfSpared
  BY DEF Syscall!IInv
<1>w. /\ Syscall!SetUp' /\ UNCHANGED <<v2, v3, v8, v11, v12>>
      /\ \A m \in Syscall!Msrs : v2'[m] \subseteq 0 .. 63 /\ v3'[m] \in Priors
  BY SyscallHandler DEF Syscall!Handler
<1>1. /\ v1 = "switch" /\ v1' \in {"forever", "pop"} /\ UNCHANGED <<v4, v5, v6, v7, v10>>
  BY DEF Syscall!Switch
<1>2. Len(v10) = v12 + 2 /\ v12 \in 0 .. MaxCalls
  BY <1>0, <1>1, SyscallAssumption DEF Syscall!TypeOK
<1>3. Syscall!TypeOK'
  BY <1>0, <1>1, <1>2, <1>w DEF Syscall!TypeOK, Syscall!InHandler
<1>4. Syscall!Entered'
  BY <1>0, <1>1, <1>w DEF Syscall!Entered, Syscall!InHandler, Syscall!InSetup
<1>5. Syscall!FlagsKept'
  BY <1>0, <1>1, <1>w DEF Syscall!FlagsKept, Syscall!Kept, Syscall!Spared
<1>6. Syscall!BackIfSpared'
  BY <1>1 DEF Syscall!BackIfSpared
<1> QED
  BY <1>3, <1>4, <1>5, <1>6, <1>w DEF Syscall!IInv

(* They are popped (syscall.c:38-39). *)
LEMMA SyscallPop ==
  ASSUME Syscall!IInv, Syscall!Pop
  PROVE  Syscall!IInv'
<1>0. Syscall!TypeOK /\ Syscall!SetUp /\ Syscall!Entered /\ Syscall!FlagsKept /\ Syscall!BackIfSpared
  BY DEF Syscall!IInv
<1>w. /\ Syscall!SetUp' /\ UNCHANGED <<v2, v3, v8, v11, v12>>
      /\ \A m \in Syscall!Msrs : v2'[m] \subseteq 0 .. 63 /\ v3'[m] \in Priors
  BY SyscallHandler DEF Syscall!Handler
<1>1. /\ v1 = "pop" /\ v1' = "sysret" /\ v10' = SubSeq(v10, 1, Len(v10) - 2)
      /\ UNCHANGED <<v4, v5, v6>>
  BY DEF Syscall!Pop
<1>2. Len(v10) = v12 + 2 /\ v12 \in 0 .. MaxCalls /\ v12 \in Nat
  BY <1>0, <1>1, SyscallAssumption DEF Syscall!TypeOK
<1>3. PICK S : v10 \in Seq(S)
  BY StackSeq
<1>4. v10' \in Seq(S) /\ Len(v10') = v12
  BY <1>1, <1>2, <1>3
<1>5. v10' = [k \in 1 .. Len(v10') |-> v10'[k]]
  BY <1>4
<1>6. PICK e, f : e = v10[Len(v10)] /\ f = v10[Len(v10) - 1]
  OBVIOUS
<1>7. PICK g : g = v7 /\ g = [r \in Syscall!Registers |-> g[r]]
  BY <1>0 DEF Syscall!FlagsKept
<1>8. v7' = [g EXCEPT !["r11"] = e, !["rcx"] = f]
  BY <1>6, <1>7 DEF Syscall!Pop
<1>9. v7'["r11"] = e /\ v7'["rcx"] = f /\ v7' = [r \in Syscall!Registers |-> v7'[r]]
  BY <1>7, <1>8 DEF Syscall!Registers
<1>10. Syscall!Kept(f, e)
  BY <1>0, <1>1, <1>6 DEF Syscall!FlagsKept
<1>11. Syscall!TypeOK'
  <2>1. v12' + (CASE v1' = "entry" -> -1 [] v1' \in {"switch", "forever", "pop"} -> 2
                  [] OTHER -> 0) = v12'
    BY <1>1, <1>2, <1>w
  <2> QED
    BY <1>0, <1>1, <1>2, <1>4, <1>w, <2>1 DEF Syscall!TypeOK, Syscall!InHandler
<1>12. Syscall!Entered'
  BY <1>0, <1>1, <1>w DEF Syscall!Entered, Syscall!InHandler, Syscall!InSetup
<1>13. Syscall!FlagsKept'
  BY <1>1, <1>5, <1>9, <1>10, <1>w DEF Syscall!FlagsKept, Syscall!Kept, Syscall!Spared
<1>14. Syscall!BackIfSpared'
  BY <1>1 DEF Syscall!BackIfSpared
<1> QED
  BY <1>11, <1>12, <1>13, <1>14, <1>w DEF Syscall!IInv

(* And SYSRET takes the address from rcx and the flags from r11            *)
(* (syscall.c:40).                                                         *)
LEMMA SyscallSysret ==
  ASSUME Syscall!IInv, Syscall!Sysret
  PROVE  Syscall!IInv'
<1>0. Syscall!TypeOK /\ Syscall!SetUp /\ Syscall!Entered /\ Syscall!FlagsKept /\ Syscall!BackIfSpared
  BY DEF Syscall!IInv
<1>w. /\ Syscall!SetUp' /\ UNCHANGED <<v2, v3, v8, v11, v12>>
      /\ \A m \in Syscall!Msrs : v2'[m] \subseteq 0 .. 63 /\ v3'[m] \in Priors
  BY SyscallHandler DEF Syscall!Handler
<1>1. /\ v1 = "sysret" /\ v1' = (IF v7["rcx"] = "caller" THEN "user" ELSE "lost")
      /\ v6' \in (IF v7["r11"] = "flags" THEN {v11} ELSE Flags) /\ UNCHANGED <<v7, v10>>
  BY DEF Syscall!Sysret
<1>2. Syscall!Kept(v7["rcx"], v7["r11"]) /\ v11 \in Flags /\ v1' \in {"user", "lost"}
  BY <1>0, <1>1 DEF Syscall!FlagsKept, Syscall!Entered, Syscall!InHandler
<1>3. v6' \in Flags /\ (Syscall!Spared("r11") => v6' = v11) /\ (Syscall!Spared("rcx") => v1' = "user")
  BY <1>1, <1>2 DEF Syscall!Kept
<1>4. Len(v10) = v12 /\ v12 \in 0 .. MaxCalls
  BY <1>0, <1>1, SyscallAssumption DEF Syscall!TypeOK
<1>5. Syscall!TypeOK'
  <2>1. v6' \subseteq 0 .. 31
    BY <1>3, SyscallAssumption
  <2>2. Len(v10') = v12' + (CASE v1' = "entry" -> -1 [] v1' \in {"switch", "forever", "pop"} -> 2
                              [] OTHER -> 0)
    BY <1>1, <1>2, <1>4, <1>w, SyscallAssumption
  <2> QED
    BY <1>0, <1>2, <1>4, <1>w, <2>1, <2>2 DEF Syscall!TypeOK, Syscall!InHandler, Syscall!InSetup
<1>6. Syscall!Entered'
  BY <1>2 DEF Syscall!Entered, Syscall!InHandler, Syscall!InSetup
<1>7. Syscall!FlagsKept'
  BY <1>0, <1>1, <1>2 DEF Syscall!FlagsKept
<1>8. Syscall!BackIfSpared'
  BY <1>2, <1>3, <1>w DEF Syscall!BackIfSpared, Syscall!Spared
<1> QED
  BY <1>5, <1>6, <1>7, <1>8, <1>w DEF Syscall!IInv

(* Every step of the set-up, of a program and of the handler keeps the     *)
(* invariant.                                                              *)
LEMMA SyscallNext == Syscall!IInv /\ [Syscall!Next]_(Syscall!vars) => Syscall!IInv'
<1> SUFFICES ASSUME Syscall!IInv, [Syscall!Next]_(Syscall!vars) PROVE Syscall!IInv'
  OBVIOUS
<1>1. CASE UNCHANGED Syscall!vars
  <2>1. UNCHANGED <<v1, v2, v3, v4, v5, v6, v7, v8, v10, v11, v12>>
    BY <1>1 DEF Syscall!vars
  <2> QED
    BY <2>1 DEF Syscall!IInv, Syscall!TypeOK, Syscall!SetUp, Syscall!Entered, Syscall!FlagsKept,
              Syscall!BackIfSpared, Syscall!Kept, Syscall!Spared
<1> QED
  BY <1>1, SyscallSetup, SyscallCall, SyscallEntry, SyscallPush, SyscallSwitch, SyscallPop, SyscallSysret
     DEF Syscall!Next, Syscall!Handler, Syscall!Forever, Syscall!Idle, Syscall!Lost

(* And it says what the properties do. *)
LEMMA SyscallProperties ==
  ASSUME Syscall!IInv
  PROVE  Syscall!TypeOK /\ Syscall!OthersPreserved /\ Syscall!HandlerPrivileged /\ Syscall!BackIfSpared
<1>1. Syscall!OthersPreserved
  BY Configured DEF Syscall!OthersPreserved
<1>2. 8 \in Syscall!Segment(1, 0) /\ 16 \in Syscall!Segment(0, 0)
  <2>1. DOMAIN Syscall!gdt = 1 .. 5 /\ Syscall!gdt[2] = 154 /\ Syscall!gdt[3] = 146
    BY DEF Syscall!gdt
  <2>2. /\ (154 \div 8) % 2 = 1 /\ (154 \div 32) % 4 = 0 /\ 154 \div 128 = 1
        /\ (146 \div 8) % 2 = 0 /\ (146 \div 32) % 4 = 0 /\ 146 \div 128 = 1
    BY SMT
  <2>3. 8 = 8 * (2 - 1) /\ 16 = 8 * (3 - 1) /\ 2 \in 1 .. 5 /\ 3 \in 1 .. 5
    BY SMT
  <2>4. 8 \in Syscall!Segment(1, 0)
    BY <2>1, <2>2, <2>3, SMT DEF Syscall!Segment
  <2>5. 16 \in Syscall!Segment(0, 0)
    BY <2>1, <2>2, <2>3, SMT DEF Syscall!Segment
  <2> QED
    BY <2>4, <2>5
<1>3. Syscall!HandlerPrivileged
  <2> SUFFICES ASSUME v1 \in Syscall!InHandler
               PROVE  9 \notin v6 /\ v4 \in Syscall!Segment(1, 0) /\ v5 \in Syscall!Segment(0, 0)
    BY MsrNames DEF Syscall!HandlerPrivileged
  <2>1. v1 \notin Syscall!InSetup
    BY DEF Syscall!InHandler, Syscall!InSetup
  <2>2. 9 \in v2["fmask"]
    BY <2>1, Configured
  <2> QED
    BY <1>2, <2>2, MsrNames DEF Syscall!IInv, Syscall!Entered
<1> QED
  BY <1>1, <1>3 DEF Syscall!IInv

-----------------------------------------------------------------------------
(* A set of numbers has a least one. *)
LEMMA LeastExists ==
  ASSUME NEW S \in SUBSET Nat, S # {}
  PROVE  \E x \in S : \A y \in S : x <= y
<1>1. \E x \in S : \A y \in S : ~ (<<y, x>> \in OpToRel(<, Nat))
  BY NatLessThanWellFounded, WFMin
<1>2. ASSUME NEW x \in Nat, NEW y \in Nat, y < x
      PROVE  <<y, x>> \in OpToRel(<, Nat)
  BY <1>2, Zenon DEF OpToRel
<1>3. \E x \in S : \A y \in S : ~ (y < x)
  BY <1>1, <1>2, Zenon
<1> QED
  BY <1>3

(* What the assumptions say of the constants of Libc. *)
LEMMA LibcAssumption == Bytes \cup {0} \subseteq Int /\ Bytes \cup {0} \subseteq -128 .. 127 /\ MaxLen \in Nat
<1>1. Libc!LibcConstants
  BY ConstantsAssumption
<1>2. Bytes \subseteq -128 .. 127 /\ MaxLen \in Nat
  BY <1>1 DEF Libc!LibcConstants
<1> QED
  BY <1>2

(* A string is a function into the integers, and its NUL the first.        *)
LEMMA StringNul ==
  ASSUME NEW s \in Libc!Strings
  PROVE  /\ s \in [1 .. (MaxLen + 1) -> Int]
         /\ Libc!NulAt(s) \in 1 .. (MaxLen + 1) /\ s[Libc!NulAt(s)] = 0
         /\ \A k \in 1 .. (MaxLen + 1) : s[k] = 0 => Libc!NulAt(s) <= k
<1>1. s \in [1 .. (MaxLen + 1) -> Int] /\ \E k \in DOMAIN s : s[k] = 0
  BY LibcAssumption DEF Libc!Strings
<1>2. PICK S : S = {k \in DOMAIN s : s[k] = 0}
  OBVIOUS
<1>3. S \in SUBSET Nat /\ S # {} /\ S \subseteq 1 .. (MaxLen + 1)
  BY <1>1, <1>2, LibcAssumption
<1>4. \E x \in S : \A y \in S : x <= y
  BY <1>3, LeastExists
<1>5. PICK m : m = Libc!NulAt(s) /\ m = CHOOSE x \in S : \A y \in S : x <= y
  BY <1>2 DEF Libc!NulAt, Libc!Min
<1>6. m \in S /\ \A y \in S : m <= y
  BY <1>4, <1>5
<1> QED
  BY <1>1, <1>2, <1>3, <1>5, <1>6

(* The least element of a set of numbers, when it is known. *)
LEMMA LeastIs ==
  ASSUME NEW S \in SUBSET Nat, NEW m \in S, \A y \in S : m <= y
  PROVE  Libc!Min(S) = m
<1>1. PICK x : x = Libc!Min(S) /\ x = CHOOSE z \in S : \A y \in S : z <= y
  BY DEF Libc!Min
<1>2. x \in S /\ \A y \in S : x <= y
  BY <1>1
<1> QED
  BY <1>1, <1>2

(* The classes and the changes of case, for EOF and every unsigned char. *)
LEMMA Characters ==
  ASSUME v1 \in -1 .. 255
  PROVE  Libc!ClassesAgree /\ Libc!CaseRoundTrip
<1>1. PICK ch \in Int : ch = v1 /\ ch >= -1 /\ ch <= 255
  OBVIOUS
<1>2. Libc!ClassesAgree
  BY <1>1, SMT DEF Libc!ClassesAgree, Libc!isdigit, Libc!isupper, Libc!islower, Libc!isalpha, Libc!isalnum,
         Libc!isascii, Libc!isblank, Libc!iscntrl, Libc!isgraph, Libc!isprint, Libc!ispunct,
         Libc!isspace, Libc!isxdigit, Libc!toascii
<1>3. Libc!CaseRoundTrip
  BY <1>1, SMT DEF Libc!CaseRoundTrip, Libc!isupper, Libc!islower, Libc!toupper, Libc!tolower
<1> QED
  BY <1>2, <1>3

(* No call is active at first. *)
LEMMA LibcInit == Libc!Init => Libc!IInv
  BY DEF Libc!Init, Libc!IInv, Libc!Compared, Libc!SignedOrder

(* A call starts with nothing compared. *)
LEMMA LibcCall ==
  ASSUME Libc!IInv, NEW a \in Libc!Strings, NEW b \in Libc!Strings, NEW cnt \in 0 .. MaxLen,
         Libc!Strncmp(a, b, cnt)
  PROVE  Libc!IInv'
<1>1. /\ v2' = a /\ v3' = b /\ v4' = cnt /\ v5' = 0 /\ v6' = << >> /\ v1' = v1 /\ v7' = v7
  BY DEF Libc!Strncmp
<1>2. 0 \in 0 .. cnt /\ \A k \in 1 .. 0 : FALSE
  BY LibcAssumption
<1>3. Libc!Compared'
  BY <1>1, <1>2 DEF Libc!Compared, Libc!Strings
<1>4. Libc!SignedOrder'
  BY <1>1 DEF Libc!SignedOrder
<1> QED
  BY <1>1, <1>3, <1>4 DEF Libc!IInv

(* The loop has come to no string's end, and the bytes that differ are     *)
(* behind it.                                                              *)
LEMMA NotPast ==
  ASSUME Libc!IInv, Libc!Active
  PROVE  /\ v2 \in [1 .. (MaxLen + 1) -> Int] /\ v3 \in [1 .. (MaxLen + 1) -> Int]
         /\ v4 \in 0 .. MaxLen /\ v5 \in 0 .. v4
         /\ v5 + 1 <= Libc!NulAt(v2) /\ v5 + 1 <= Libc!NulAt(v3)
         /\ Libc!NulAt(v2) \in Nat /\ Libc!NulAt(v3) \in Nat
         /\ Libc!Differ \in SUBSET Nat
         /\ \A k \in Libc!Differ : k >= v5 + 1 /\ k <= v4 /\ k <= Libc!NulAt(v2) /\ k <= Libc!NulAt(v3)
                                   /\ v2[k] # v3[k]
<1>1. /\ v2 \in Libc!Strings /\ v3 \in Libc!Strings /\ v4 \in 0 .. MaxLen /\ v5 \in 0 .. v4
      /\ \A k \in 1 .. v5 : v2[k] = v3[k] /\ v2[k] # 0
  BY DEF Libc!IInv, Libc!Active, Libc!Compared
<1>2. PICK p, q : p = Libc!NulAt(v2) /\ q = Libc!NulAt(v3)
  OBVIOUS
<1>3. /\ p \in 1 .. (MaxLen + 1) /\ v2[p] = 0 /\ q \in 1 .. (MaxLen + 1) /\ v3[q] = 0
      /\ v2 \in [1 .. (MaxLen + 1) -> Int] /\ v3 \in [1 .. (MaxLen + 1) -> Int]
  BY <1>1, <1>2, StringNul
<1>4. v5 + 1 <= p /\ v5 + 1 <= q /\ p \in Nat /\ q \in Nat
  <2>1. ~ (p \in 1 .. v5) /\ ~ (q \in 1 .. v5)
    BY <1>1, <1>3
  <2> QED
    BY <1>1, <1>3, <2>1, LibcAssumption
<1>5. Libc!Differ = {k \in {j \in 1 .. v4 : j <= p} \cap {j \in 1 .. v4 : j <= q} : v2[k] # v3[k]}
  BY <1>2 DEF Libc!Differ, Libc!Prefix
<1>6. ASSUME NEW k \in Libc!Differ
      PROVE  k \in Nat /\ k >= v5 + 1 /\ k <= v4 /\ k <= p /\ k <= q /\ v2[k] # v3[k]
  <2>1. k \in 1 .. v4 /\ k <= p /\ k <= q /\ v2[k] # v3[k]
    BY <1>5
  <2>2. ~ (k \in 1 .. v5)
    BY <1>1, <2>1
  <2> QED
    BY <1>1, <2>1, <2>2, LibcAssumption
<1> QED
  BY <1>1, <1>2, <1>3, <1>4, <1>6

(* A turn of the loop: it goes on over equal bytes and returns at the      *)
(* first that differ, at the end of both strings, or after n of them.      *)
LEMMA LibcCompare ==
  ASSUME Libc!IInv, Libc!Compare
  PROVE  Libc!IInv'
<1>0. Libc!Active /\ v1' = v1 /\ v2' = v2 /\ v3' = v3 /\ v4' = v4
  BY DEF Libc!Compare
<1>w. /\ v2 \in [1 .. (MaxLen + 1) -> Int] /\ v3 \in [1 .. (MaxLen + 1) -> Int]
      /\ v4 \in 0 .. MaxLen /\ v5 \in 0 .. v4
      /\ v5 + 1 <= Libc!NulAt(v2) /\ v5 + 1 <= Libc!NulAt(v3)
      /\ Libc!NulAt(v2) \in Nat /\ Libc!NulAt(v3) \in Nat
      /\ Libc!Differ \in SUBSET Nat
      /\ \A k \in Libc!Differ : k >= v5 + 1 /\ k <= v4 /\ k <= Libc!NulAt(v2) /\ k <= Libc!NulAt(v3)
                                /\ v2[k] # v3[k]
  BY <1>0, NotPast
<1>1. PICK p, q : p = v2[v5 + 1] /\ q = v3[v5 + 1]
  OBVIOUS
<1>2. \/ v5 < v4 /\ ~ (p = 0 /\ q = 0) /\ p = q /\ v5' = v5 + 1 /\ v6' = << >>
      \/ v5 < v4 /\ p > q /\ v5' = v5 /\ v6' = <<1>>
      \/ v5 < v4 /\ p < q /\ v5' = v5 /\ v6' = <<-1>>
      \/ (v5 >= v4 \/ (p = 0 /\ q = 0)) /\ v5' = v5 /\ v6' = <<0>>
  BY <1>0, <1>1 DEF Libc!Compare, Libc!Active
<1>3. v7' = FALSE
  <2>1. v7 = FALSE /\ ~ (v5 + 1 > Libc!NulAt(v2)) /\ ~ (v5 + 1 > Libc!NulAt(v3))
    BY <1>w DEF Libc!IInv
  <2>2. v7' = (v7 \/ (v5 < v4 /\ (v5 + 1 > Libc!NulAt(v2) \/ v5 + 1 > Libc!NulAt(v3))))
    BY DEF Libc!Compare
  <2> QED
    BY <2>1, <2>2, Zenon
<1>4. /\ v2 \in Libc!Strings /\ v3 \in Libc!Strings /\ v2 # << >>
      /\ \A k \in 1 .. v5 : v2[k] = v3[k] /\ v2[k] # 0
  BY <1>0 DEF Libc!IInv, Libc!Active, Libc!Compared
<1>5. p \in Int /\ q \in Int
  BY <1>1, <1>w, LibcAssumption
<1>6. Libc!Compared'
  <2>1. v5' \in 0 .. v4
    BY <1>2, <1>w, LibcAssumption
  <2>2. \A k \in 1 .. v5' : v2[k] = v3[k] /\ v2[k] # 0
    <3>1. CASE v5' = v5
      BY <1>4, <3>1
    <3>2. CASE v5' = v5 + 1 /\ p = q /\ ~ (p = 0 /\ q = 0)
      <4>1. \A k \in 1 .. (v5 + 1) : k \in 1 .. v5 \/ k = v5 + 1
        BY <1>w, LibcAssumption
      <4> QED
        BY <1>1, <1>4, <3>2, <4>1
    <3> QED
      BY <1>2, <3>1, <3>2
  <2> QED
    BY <1>0, <1>4, <1>w, <2>1, <2>2 DEF Libc!Compared
<1>7. PICK F : F = Libc!Differ
  OBVIOUS
<1>8. Libc!Differ' = F
  BY <1>0, <1>7 DEF Libc!Differ, Libc!Prefix
<1>9. Libc!SignedOrder'
  <2>1. CASE v5 < v4 /\ p # q
    <3>1. v5 + 1 \in F
      BY <1>1, <1>7, <1>w, <2>1, LibcAssumption, SMTT(20) DEF Libc!Differ, Libc!Prefix
    <3>2. \A k \in F : v5 + 1 <= k
      BY <1>7, <1>w, LibcAssumption
    <3>3. Libc!Min(F) = v5 + 1 /\ F # {}
      BY <1>7, <1>w, <3>1, <3>2, LeastIs
    <3>4. v6' = IF p > q THEN <<1>> ELSE <<-1>>
      BY <1>2, <1>5, <1>w, <2>1, LibcAssumption
    <3> QED
      BY <1>0, <1>1, <1>8, <3>3, <3>4 DEF Libc!SignedOrder
  <2>2. CASE v5 >= v4 \/ (p = 0 /\ q = 0)
    <3>1. F = {}
      <4> SUFFICES ASSUME NEW k \in F PROVE FALSE
        OBVIOUS
      <4>1. k \in Nat /\ k >= v5 + 1 /\ k <= v4 /\ k <= Libc!NulAt(v2) /\ v2[k] # v3[k]
        BY <1>7, <1>w
      <4>2. v5 < v4 /\ p = 0 /\ q = 0
        BY <1>w, <2>2, <4>1, LibcAssumption
      <4>3. Libc!NulAt(v2) <= v5 + 1
        <5>1. v5 + 1 \in 1 .. (MaxLen + 1)
          BY <1>w, LibcAssumption
        <5>2. v2[v5 + 1] = 0
          BY <1>1, <4>2
        <5> QED
          BY <1>4, <5>1, <5>2, StringNul
      <4>4. k = v5 + 1
        BY <1>w, <4>1, <4>3, LibcAssumption
      <4> QED
        BY <1>1, <4>1, <4>2, <4>4
    <3>2. v6' = <<0>>
      BY <1>2, <1>5, <1>w, <2>2, LibcAssumption
    <3> QED
      BY <1>8, <3>1, <3>2 DEF Libc!SignedOrder
  <2>3. CASE v5 < v4 /\ p = q /\ ~ (p = 0 /\ q = 0)
    <3>1. v6' = << >>
      BY <1>2, <1>5, <1>w, <2>3, LibcAssumption
    <3> QED
      BY <3>1 DEF Libc!SignedOrder
  <2> QED
    BY <1>2, <1>5, <2>1, <2>2, <2>3
<1> QED
  BY <1>0, <1>3, <1>6, <1>9 DEF Libc!IInv

(* Every step of the library keeps the invariant. *)
LEMMA LibcNext == Libc!IInv /\ [Libc!Next]_(Libc!vars) => Libc!IInv'
<1> SUFFICES ASSUME Libc!IInv, [Libc!Next]_(Libc!vars) PROVE Libc!IInv'
  OBVIOUS
<1>1. CASE UNCHANGED Libc!vars
  <2>1. UNCHANGED <<v1, v2, v3, v4, v5, v6, v7>>
    BY <1>1 DEF Libc!vars
  <2>2. Libc!Differ' = Libc!Differ
    BY <2>1 DEF Libc!Differ, Libc!Prefix
  <2> QED
    BY <2>1, <2>2 DEF Libc!IInv, Libc!Compared, Libc!SignedOrder
<1> QED
  BY <1>1, LibcCall, LibcCompare DEF Libc!Next, Libc!Returned

(* The first bytes that differ are two different chars. *)
LEMMA FirstDifference ==
  ASSUME Libc!Compared, v2 # << >>, Libc!Differ # {}
  PROVE  LET k == Libc!Min(Libc!Differ) IN
           v2[k] \in -128 .. 127 /\ v3[k] \in -128 .. 127 /\ v2[k] # v3[k]
<1>1. PICK F : F = Libc!Differ
  OBVIOUS
<1>2. v2 \in Libc!Strings /\ v3 \in Libc!Strings /\ v4 \in 0 .. MaxLen
  BY DEF Libc!Compared
<1>3. v2 \in [1 .. (MaxLen + 1) -> -128 .. 127] /\ v3 \in [1 .. (MaxLen + 1) -> -128 .. 127]
  <2>1. Bytes \cup {0} \subseteq -128 .. 127
    BY LibcAssumption
  <2> QED
    BY <1>2, <2>1 DEF Libc!Strings
<1>4. \A k \in F : k \in 1 .. v4 /\ v2[k] # v3[k]
  BY <1>1 DEF Libc!Differ, Libc!Prefix
<1>5. F \in SUBSET Nat /\ F # {}
  BY <1>1, <1>2, <1>4, LibcAssumption
<1>6. PICK m \in F : \A y \in F : m <= y
  BY <1>5, LeastExists
<1>7. Libc!Min(F) = m
  BY <1>5, <1>6, LeastIs
<1>8. m \in 1 .. (MaxLen + 1)
  BY <1>2, <1>4, LibcAssumption
<1> QED
  BY <1>1, <1>3, <1>4, <1>7, <1>8

(* And it says what the properties do. *)
LEMMA LibcProperties ==
  ASSUME Libc!IInv
  PROVE  Libc!ClassesAgree /\ Libc!CaseRoundTrip /\ Libc!NothingPastNul /\ Libc!StrncmpOrder
<1>1. ~ v7
  BY Zenon DEF Libc!IInv
<1>2. Libc!StrncmpOrder
  <2> SUFFICES ASSUME v2 # << >>, v6 # << >>
               PROVE  /\ v6 = <<0>> <=> Libc!Differ = {}
                      /\ Libc!Differ # {} =>
                           LET a == v2[Libc!Min(Libc!Differ)]
                               b == v3[Libc!Min(Libc!Differ)]
                           IN  (Libc!Unsigned(a) < 128 <=> Libc!Unsigned(b) < 128)
                                 => (v6[1] > 0 <=> Libc!Unsigned(a) > Libc!Unsigned(b))
    BY Zenon DEF Libc!StrncmpOrder
  <2>1. CASE Libc!Differ = {}
    BY <2>1 DEF Libc!IInv, Libc!SignedOrder
  <2>2. CASE Libc!Differ # {}
    <3>1. PICK a, b : a = v2[Libc!Min(Libc!Differ)] /\ b = v3[Libc!Min(Libc!Differ)]
      OBVIOUS
    <3>2. v6 = IF a > b THEN <<1>> ELSE <<-1>>
      BY <2>2, <3>1, Zenon DEF Libc!IInv, Libc!SignedOrder
    <3>3. v6 # <<0>> /\ (v6[1] > 0 <=> a > b)
      BY <3>2
    <3>4. a \in -128 .. 127 /\ b \in -128 .. 127 /\ a # b
      BY <2>2, <3>1, FirstDifference DEF Libc!IInv
    <3>5. ASSUME Libc!Unsigned(a) < 128 <=> Libc!Unsigned(b) < 128
          PROVE  a > b <=> Libc!Unsigned(a) > Libc!Unsigned(b)
      <4>1. /\ Libc!Unsigned(a) = IF a < 0 THEN a + 256 ELSE a
            /\ Libc!Unsigned(b) = IF b < 0 THEN b + 256 ELSE b
        BY <3>4 DEF Libc!Unsigned
      <4> QED
        BY <3>4, <3>5, <4>1
    <3> QED
      BY <2>2, <3>1, <3>3, <3>5, Zenon
  <2> QED
    BY <2>1, <2>2
<1> QED
  BY <1>1, <1>2, Characters DEF Libc!IInv, Libc!NothingPastNul

-----------------------------------------------------------------------------
(* Induction, with the property as the set of the numbers that have it. *)
LEMMA SetInduction ==
  ASSUME NEW G \in SUBSET Nat, 0 \in G, \A n \in G : n + 1 \in G
  PROVE  G = Nat
<1> SUFFICES ASSUME G # Nat PROVE FALSE
  OBVIOUS
<1>1. PICK S : S = Nat \ G
  OBVIOUS
<1>2. S \in SUBSET Nat /\ S # {}
  BY <1>1
<1>3. PICK m \in S : \A y \in S : m <= y
  BY <1>2, LeastExists
<1>4. m \in Nat /\ m # 0
  BY <1>1, <1>3
<1>5. m - 1 \in Nat /\ m - 1 \notin S
  BY <1>3, <1>4
<1>6. (m - 1) + 1 \in G
  BY <1>1, <1>5
<1> QED
  BY <1>1, <1>3, <1>4, <1>6

(* The beginnings of the function that h gives, from one value to the next. *)
Begins(S, v0, h, n, g) ==
  /\ g \in [0 .. n -> S] /\ g[0] = v0
  /\ \A k \in 0 .. (n - 1) : g[k + 1] = h[k + 1][g[k]]

(* There is one of every length, *)
LEMMA BeginsExists ==
  ASSUME NEW S, NEW v0 \in S, NEW h \in [Nat -> [S -> S]], NEW n \in Nat
  PROVE  \E g : Begins(S, v0, h, n, g)
<1>1. PICK G : G = {m \in Nat : \E g : Begins(S, v0, h, m, g)}
  OBVIOUS
<1>2. 0 \in G
  <2>1. Begins(S, v0, h, 0, [k \in 0 .. 0 |-> v0])
    BY DEF Begins
  <2> QED
    BY <1>1, <2>1
<1>3. ASSUME NEW m \in G PROVE m + 1 \in G
  <2>1. m \in Nat
    BY <1>1
  <2>2. PICK g : Begins(S, v0, h, m, g)
    BY <1>1
  <2>3. g \in [0 .. m -> S] /\ g[0] = v0 /\ \A k \in 0 .. (m - 1) : g[k + 1] = h[k + 1][g[k]]
    BY <2>2 DEF Begins
  <2>4. PICK w \in S : w = h[m + 1][g[m]]
    BY <2>1, <2>3
  <2>5. PICK f : f = [k \in 0 .. (m + 1) |-> IF k = m + 1 THEN w ELSE g[k]]
    OBVIOUS
  <2>6. f \in [0 .. (m + 1) -> S] /\ f[0] = v0
    BY <2>1, <2>3, <2>5
  <2>7. ASSUME NEW k \in 0 .. ((m + 1) - 1) PROVE f[k + 1] = h[k + 1][f[k]]
    <3>1. k \in 0 .. m /\ k # m + 1 /\ f[k] = g[k]
      BY <2>1, <2>5
    <3>2. CASE k = m
      <4>1. f[k + 1] = w
        BY <2>1, <2>5, <3>2
      <4> QED
        BY <2>4, <3>1, <3>2, <4>1
    <3>3. CASE k # m
      <4>1. k \in 0 .. (m - 1) /\ k + 1 \in 0 .. (m + 1) /\ k + 1 # m + 1
        BY <2>1, <3>1, <3>3
      <4>2. f[k + 1] = g[k + 1]
        BY <2>5, <4>1
      <4> QED
        BY <2>3, <3>1, <4>1, <4>2
    <3> QED
      BY <3>2, <3>3
  <2>8. Begins(S, v0, h, m + 1, f)
    BY <2>6, <2>7 DEF Begins
  <2> QED
    BY <1>1, <2>1, <2>8
<1>4. G = Nat
  BY <1>1, <1>2, <1>3, SetInduction
<1> QED
  BY <1>1, <1>4

(* and they agree with each other. *)
LEMMA BeginsAgree ==
  ASSUME NEW S, NEW v0 \in S, NEW h \in [Nat -> [S -> S]], NEW n \in Nat, NEW m \in Nat,
         NEW g, Begins(S, v0, h, n, g), NEW f, Begins(S, v0, h, m, f), n <= m
  PROVE  g[n] = f[n]
<1>1. PICK G : G = {k \in Nat : k <= n => g[k] = f[k]}
  OBVIOUS
<1>2. 0 \in G
  BY <1>1 DEF Begins
<1>3. ASSUME NEW k \in G PROVE k + 1 \in G
  <2>1. k \in Nat /\ (k <= n => g[k] = f[k])
    BY <1>1
  <2>2. CASE k + 1 <= n
    <3>1. k \in 0 .. (n - 1) /\ k \in 0 .. (m - 1) /\ g[k] = f[k]
      BY <2>1, <2>2
    <3>2. g[k + 1] = h[k + 1][g[k]] /\ f[k + 1] = h[k + 1][f[k]]
      BY <3>1 DEF Begins
    <3> QED
      BY <1>1, <2>1, <3>1, <3>2
  <2> QED
    BY <1>1, <2>1, <2>2
<1>4. G = Nat
  BY <1>1, <1>2, <1>3, SetInduction
<1> QED
  BY <1>1, <1>4

(* The function on all numbers. *)
Recursive(S, v0, h, f) ==
  /\ f \in [Nat -> S] /\ f[0] = v0
  /\ \A n \in Nat : f[n + 1] = h[n + 1][f[n]]

(* So it exists. *)
LEMMA RecursionExists ==
  ASSUME NEW S, NEW v0 \in S, NEW h \in [Nat -> [S -> S]]
  PROVE  \E f : Recursive(S, v0, h, f)
<1> DEFINE first(n) == CHOOSE g : Begins(S, v0, h, n, g)
<1>1. \A n \in Nat : Begins(S, v0, h, n, first(n))
  BY BeginsExists
<1> HIDE DEF first
<1>2. PICK f : f = [n \in Nat |-> first(n)[n]]
  OBVIOUS
<1>3. \A n \in Nat : f[n] = first(n)[n]
  BY <1>2
<1>4. ASSUME NEW n \in Nat PROVE f[n] \in S
  <2>1. first(n) \in [0 .. n -> S]
    BY <1>1 DEF Begins
  <2> QED
    BY <1>3, <2>1
<1>5. f[0] = v0
  BY <1>1, <1>3 DEF Begins
<1>6. ASSUME NEW n \in Nat PROVE f[n + 1] = h[n + 1][f[n]]
  <2>1. PICK g : g = first(n + 1) /\ Begins(S, v0, h, n + 1, g)
    BY <1>1
  <2>2. g[n] = f[n]
    BY <1>1, <1>3, <2>1, BeginsAgree
  <2>3. g[n + 1] = h[n + 1][g[n]]
    BY <2>1 DEF Begins
  <2> QED
    BY <1>3, <2>1, <2>2, <2>3
<1>7. f \in [Nat -> S]
  BY <1>2, <1>3, <1>4
<1> QED
  BY <1>5, <1>6, <1>7 DEF Recursive

(* The powers of a base are what they should be. *)
LEMMA PowerDef ==
  ASSUME NEW b \in Nat \ {0}
  PROVE  \E p \in [Nat -> Nat \ {0}] :
           /\ p = Console!power(b) /\ p[0] = 1
           /\ \A n \in Nat : p[n + 1] = p[n] * b
<1> DEFINE R(p) == p = [n \in Nat |-> IF n = 0 THEN 1 ELSE p[n - 1] * b]
<1>z. PICK S : S = Nat \ {0}
  OBVIOUS
<1>0. S = Nat \ {0} /\ 1 \in S
  BY <1>z
<1>1. PICK h : h = [n \in Nat |-> [v \in S |-> v * b]]
  OBVIOUS
<1>2. h \in [Nat -> [S -> S]]
  BY <1>0, <1>1
<1>3. PICK f \in [Nat -> S] : f[0] = 1 /\ \A n \in Nat : f[n + 1] = h[n + 1][f[n]]
  <2>1. PICK f : Recursive(S, 1, h, f)
    BY <1>0, <1>2, RecursionExists
  <2> QED
    BY <2>1 DEF Recursive
<1>4. ASSUME NEW n \in Nat PROVE f[n + 1] = f[n] * b
  <2>1. f[n] \in S /\ n + 1 \in Nat
    OBVIOUS
  <2>2. h[n + 1][f[n]] = f[n] * b
    BY <1>1, <2>1
  <2> QED
    BY <1>3, <2>2
<1>5. R(f)
  <2>1. ASSUME NEW n \in Nat PROVE f[n] = IF n = 0 THEN 1 ELSE f[n - 1] * b
    <3>1. CASE n # 0
      <4>1. n - 1 \in Nat /\ (n - 1) + 1 = n
        BY <3>1
      <4> QED
        BY <1>4, <3>1, <4>1
    <3> QED
      BY <1>0, <1>3, <3>1
  <2> QED
    BY <1>0, <2>1
<1>6. PICK p : p = Console!power(b) /\ p = CHOOSE q : R(q)
  BY DEF Console!power
<1>7. R(p)
  <2> HIDE DEF R
  <2> QED
    BY <1>5, <1>6
<1>8. p[0] = 1 /\ \A n \in Nat : p[n + 1] = p[n] * b
  <2>1. \A n \in Nat : n + 1 \in Nat /\ n + 1 # 0 /\ (n + 1) - 1 = n
    OBVIOUS
  <2> QED
    BY <1>7, <2>1
<1>9. \A n \in Nat : p[n] \in Nat \ {0}
  <2>1. PICK G : G = {n \in Nat : p[n] \in Nat \ {0}}
    OBVIOUS
  <2>2. 0 \in G
    BY <1>8, <2>1
  <2>3. ASSUME NEW n \in G PROVE n + 1 \in G
    <3>1. n \in Nat /\ p[n] \in Nat \ {0}
      BY <2>1
    <3>2. PICK u \in Nat \ {0} : u = p[n]
      BY <3>1
    <3>3. u * b \in Nat \ {0}
      OBVIOUS
    <3> QED
      BY <1>8, <2>1, <3>1, <3>2, <3>3
  <2> QED
    BY <2>1, <2>2, <2>3, SetInduction
<1>10. p \in [Nat -> Nat \ {0}]
  BY <1>7, <1>9
<1> QED
  BY <1>6, <1>8, <1>10

(* A larger exponent gives no smaller power. *)
LEMMA PowerMonotonic ==
  ASSUME NEW b \in Nat \ {0}, NEW p \in [Nat -> Nat \ {0}], \A n \in Nat : p[n + 1] = p[n] * b,
         NEW m \in Nat, NEW n \in Nat, m <= n
  PROVE  p[m] <= p[n]
<1>1. PICK G : G = {k \in Nat : p[m] <= p[m + k]}
  OBVIOUS
<1>2. 0 \in G
  BY <1>1
<1>3. ASSUME NEW k \in G PROVE k + 1 \in G
  <2>1. k \in Nat /\ p[m] <= p[m + k] /\ m + k \in Nat /\ m + (k + 1) = (m + k) + 1
    BY <1>1
  <2>2. p[m + (k + 1)] = p[m + k] * b
    BY <2>1
  <2>3. PICK u \in Nat, w \in Nat : u = p[m] /\ w = p[m + k] /\ u <= w
    BY <2>1
  <2>4. w <= w * b
    <3>1. w * b = w + w * (b - 1) /\ w * (b - 1) \in Nat
      OBVIOUS
    <3> QED
      BY <3>1
  <2>5. u <= w * b
    BY <2>3, <2>4
  <2> QED
    BY <1>1, <2>1, <2>2, <2>3, <2>5
<1>4. n - m \in G /\ m + (n - m) = n
  <2>1. G = Nat
    BY <1>1, <1>2, <1>3, SetInduction
  <2> QED
    BY <2>1
<1> QED
  BY <1>1, <1>4

(* The powers of ten and of sixteen, and what the assumptions say of M. *)
LEMMA FormatAssumption ==
  /\ M \in Nat \ {0} /\ D \in Nat \ {0} /\ HEXD \in Nat \ {0}
  /\ \E ten \in [Nat -> Nat \ {0}] :
       /\ ten = Console!power(10) /\ ten[0] = 1 /\ \A n \in Nat : ten[n + 1] = ten[n] * 10
       /\ ten[D - 1] < M /\ M <= ten[D] /\ ten[D] % M < ten[D - 1] /\ ten[D] % M # 0
  /\ \E sixteen \in [Nat -> Nat \ {0}] :
       /\ sixteen = Console!power(16) /\ sixteen[0] = 1 /\ \A n \in Nat : sixteen[n + 1] = sixteen[n] * 16
       /\ M <= sixteen[HEXD]
<1>1. Console!FormatConstants
  BY ConstantsAssumption DEF Console!ConsoleConstants
<1>2. PICK ten \in [Nat -> Nat \ {0}] :
        ten = Console!power(10) /\ ten[0] = 1 /\ \A n \in Nat : ten[n + 1] = ten[n] * 10
  BY PowerDef
<1>3. PICK sixteen \in [Nat -> Nat \ {0}] :
        sixteen = Console!power(16) /\ sixteen[0] = 1 /\ \A n \in Nat : sixteen[n + 1] = sixteen[n] * 16
  <2>1. PICK b \in Nat \ {0} : b = 16
    OBVIOUS
  <2>2. PICK p \in [Nat -> Nat \ {0}] : p = Console!power(b) /\ p[0] = 1 /\ \A n \in Nat : p[n + 1] = p[n] * b
    BY PowerDef
  <2> QED
    BY <2>1, <2>2
<1>4. /\ M \in Nat \ {0} /\ D \in Nat \ {0} /\ HEXD \in Nat \ {0}
      /\ ten[D - 1] < M /\ M <= ten[D] /\ ten[D] % M < ten[D - 1] /\ ten[D] % M # 0
      /\ M <= sixteen[HEXD]
  BY <1>1, <1>2, <1>3 DEF Console!FormatConstants
<1> QED
  BY <1>2, <1>3, <1>4

(* pow computes the powers of ten as long as they fit. *)
LEMMA PowExact ==
  ASSUME NEW ten \in [Nat -> Nat \ {0}], ten[0] = 1, \A n \in Nat : ten[n + 1] = ten[n] * 10,
         ten[D - 1] < M, NEW e \in 0 .. (D - 1)
  PROVE  Console!pow(10, e) = ten[e]
<1> DEFINE R(p) == p = [n \in Nat |-> IF n = 0 THEN 1 ELSE IF n = 1 THEN 10 ELSE (p[n - 1] * 10) % M]
<1>0. M \in Nat \ {0} /\ D \in Nat \ {0}
  BY FormatAssumption
<1>1. PICK h : h = [n \in Nat |-> [v \in Nat |-> IF n = 1 THEN 10 ELSE (v * 10) % M]]
  OBVIOUS
<1>2. h \in [Nat -> [Nat -> Nat]] /\ 1 \in Nat
  BY <1>0, <1>1
<1>3. PICK f : Recursive(Nat, 1, h, f)
  BY <1>2, RecursionExists
<1>4. f \in [Nat -> Nat] /\ f[0] = 1 /\ \A n \in Nat : f[n + 1] = h[n + 1][f[n]]
  BY <1>3 DEF Recursive
<1>5. R(f)
  <2>1. ASSUME NEW n \in Nat PROVE f[n] = IF n = 0 THEN 1 ELSE IF n = 1 THEN 10 ELSE (f[n - 1] * 10) % M
    <3>1. CASE n # 0
      <4>1. n - 1 \in Nat /\ (n - 1) + 1 = n /\ f[n - 1] \in Nat
        BY <1>4, <3>1
      <4>2. f[n] = h[n][f[n - 1]]
        BY <1>4, <4>1
      <4> QED
        BY <1>1, <3>1, <4>1, <4>2
    <3> QED
      BY <1>4, <3>1
  <2> QED
    BY <1>4, <2>1
<1>6. PICK p : p = CHOOSE q : R(q)
  OBVIOUS
<1>7. Console!pow(10, e) = p[e]
  BY <1>6 DEF Console!pow
<1>8. R(p)
  <2> HIDE DEF R
  <2> QED
    BY <1>5, <1>6
<1>9. PICK G : G = {n \in Nat : n <= D - 1 => p[n] = ten[n]}
  OBVIOUS
<1>10. 0 \in G
  BY <1>8, <1>9
<1>11. ASSUME NEW n \in G PROVE n + 1 \in G
  <2>1. n \in Nat /\ (n <= D - 1 => p[n] = ten[n])
    BY <1>9
  <2>2. CASE n + 1 <= D - 1
    <3>1. p[n] = ten[n] /\ ten[n + 1] = ten[n] * 10
      BY <1>0, <2>1, <2>2
    <3>2. ten[n + 1] <= ten[D - 1]
      <4>1. PICK b \in Nat \ {0}, i \in Nat, k \in Nat : b = 10 /\ i = n + 1 /\ k = D - 1 /\ i <= k
        BY <1>0, <2>1, <2>2
      <4>2. \A m \in Nat : ten[m + 1] = ten[m] * b
        BY <4>1
      <4>3. ten[i] <= ten[k]
        BY <4>1, <4>2, PowerMonotonic
      <4> QED
        BY <4>1, <4>3
    <3>3. PICK u \in Nat : u = ten[n + 1] /\ u < M
      BY <1>0, <2>1, <3>2
    <3>4. u % M = u
      <4>1. PICK z \in Nat : z = 0
        OBVIOUS
      <4>2. u \in 0 .. (M - 1) /\ Quotient(u, M, z, u)
        BY <1>0, <3>3, <4>1 DEF Quotient
      <4> QED
        BY <1>0, <4>2, Euclid
    <3>5. n + 1 \in Nat /\ n + 1 # 0 /\ (n + 1) - 1 = n /\ (n + 1 = 1 => n = 0)
      BY <2>1
    <3>6. p[n + 1] = IF n = 0 THEN 10 ELSE (p[n] * 10) % M
      BY <1>8, <3>5
    <3>7. p[n + 1] = ten[n + 1]
      BY <3>1, <3>3, <3>4, <3>6
    <3> QED
      BY <1>9, <2>1, <3>7
  <2> QED
    BY <1>9, <2>1, <2>2
<1>12. G = Nat
  BY <1>9, <1>10, <1>11, SetInduction
<1>13. e \in Nat /\ e <= D - 1
  BY <1>0
<1> QED
  BY <1>7, <1>9, <1>12, <1>13

(* Division with remainder. *)
LEMMA DivMod ==
  ASSUME NEW y \in Nat, NEW d \in Nat \ {0}
  PROVE  \E q \in Nat : \E r \in 0 .. (d - 1) : q = y \div d /\ r = y % d /\ y = q * d + r
<1>1. y % d \in 0 .. (d - 1)
  OBVIOUS
<1>2. y \div d \in Nat
  OBVIOUS
<1>3. y = (y \div d) * d + (y % d)
  OBVIOUS
<1> QED
  BY <1>1, <1>2, <1>3

(* The quotient by j, from the quotient by ten times j and a digit. *)
LEMMA DecimalStep ==
  ASSUME NEW x \in Nat, NEW j \in Nat \ {0}
  PROVE  /\ x \div j = (x \div (j * 10)) * 10 + ((x % (j * 10)) \div j)
         /\ (x % (j * 10)) \div j \in 0 .. 9
<1>1. PICK w \in Nat \ {0} : w = j * 10
  OBVIOUS
<1>2. PICK q \in Nat, y \in 0 .. (w - 1) : q = x \div w /\ y = x % w /\ x = q * w + y
  BY DivMod
<1>y. y \in Nat
  OBVIOUS
<1>3. PICK d \in Nat, r \in 0 .. (j - 1) : d = y \div j /\ r = y % j /\ y = d * j + r
  BY <1>y, DivMod
<1>4. q * w = (q * 10) * j
  BY <1>1
<1>5. x = (q * 10 + d) * j + r
  <2>1. (q * 10 + d) * j = (q * 10) * j + d * j
    OBVIOUS
  <2> QED
    BY <1>2, <1>3, <1>4, <2>1
<1>6. x \div j = q * 10 + d
  <2>1. PICK e \in Nat : e = q * 10 + d
    OBVIOUS
  <2>2. Quotient(x, j, e, r)
    BY <1>5, <2>1 DEF Quotient
  <2> QED
    BY <2>1, <2>2, Euclid
<1>7. d <= 9
  <2> SUFFICES ASSUME d >= 10 PROVE FALSE
    BY <1>3
  <2>1. d * j = 10 * j + (d - 10) * j /\ (d - 10) * j \in Nat
    BY <1>3
  <2> QED
    BY <1>1, <1>2, <1>3, <2>1
<1>8. x \div (j * 10) = q /\ (x % (j * 10)) \div j = d
  BY <1>1, <1>2, <1>3
<1>9. d \in 0 .. 9
  BY <1>3, <1>7
<1> QED
  BY <1>6, <1>8, <1>9

(* And by sixteen times j. *)
LEMMA HexStep ==
  ASSUME NEW x \in Nat, NEW j \in Nat \ {0}
  PROVE  x \div j = (x \div (j * 16)) * 16 + ((x \div j) % 16)
<1>1. PICK q \in Nat, r \in 0 .. (j - 1) : q = x \div j /\ x = q * j + r
  OBVIOUS
<1>2. PICK a \in Nat, d \in 0 .. 15 : a = q \div 16 /\ d = q % 16 /\ q = a * 16 + d
  OBVIOUS
<1>3. PICK w \in Nat \ {0} : w = j * 16
  OBVIOUS
<1>4. q * j = a * w + d * j
  <2>1. (a * 16 + d) * j = (a * 16) * j + d * j
    OBVIOUS
  <2>2. (a * 16) * j = a * (j * 16)
    OBVIOUS
  <2> QED
    BY <1>2, <1>3, <2>1, <2>2
<1>5. d * j + r \in 0 .. (w - 1)
  <2>1. 15 * j = d * j + (15 - d) * j /\ (15 - d) * j \in Nat /\ d * j \in Nat
    BY <1>2
  <2> QED
    BY <1>1, <1>3, <2>1
<1>6. PICK y \in 0 .. (w - 1) : y = d * j + r /\ x = a * w + y
  BY <1>1, <1>4, <1>5
<1>7. x \div w = a
  BY <1>3, <1>6, Euclid DEF Quotient
<1> QED
  BY <1>1, <1>2, <1>3, <1>7

(* What Value computes when the numbers w that the digits d should give    *)
(* are known.                                                              *)
Digits(L, b, d, w) ==
  /\ w \in [0 .. L -> Int] /\ w[0] = 0
  /\ \A i \in 0 .. (L - 1) : w[i + 1] = w[i] * b + d[i + 1]

(* Such a w satisfies the equation by which Value is defined. *)
LEMMA DigitsUnfold ==
  ASSUME NEW L \in Nat, NEW b \in Nat, NEW d, NEW w, Digits(L, b, d, w)
  PROVE  w = [i \in 0 .. L |-> IF i = 0 THEN 0 ELSE w[i - 1] * b + d[i]]
<1>1. ASSUME NEW i \in 0 .. L PROVE w[i] = IF i = 0 THEN 0 ELSE w[i - 1] * b + d[i]
  <2>1. CASE i # 0
    <3>1. i - 1 \in 0 .. (L - 1) /\ (i - 1) + 1 = i
      BY <2>1
    <3> QED
      BY <2>1, <3>1 DEF Digits
  <2> QED
    BY <2>1 DEF Digits
<1> QED
  BY <1>1 DEF Digits

Unfolds(v, L, b, d) == v = [i \in 0 .. L |-> IF i = 0 THEN 0 ELSE v[i - 1] * b + d[i]]

(* And every function that does ends in the same number. *)
LEMMA DigitsUnique ==
  ASSUME NEW L \in Nat, NEW b \in Nat, NEW d, NEW w, Digits(L, b, d, w),
         NEW v, Unfolds(v, L, b, d)
  PROVE  v[L] = w[L]
<1>0. v = [i \in 0 .. L |-> IF i = 0 THEN 0 ELSE v[i - 1] * b + d[i]]
  BY DEF Unfolds
<1>1. PICK G : G = {n \in Nat : n <= L => v[n] = w[n]}
  OBVIOUS
<1>2. 0 \in G
  BY <1>0, <1>1 DEF Digits
<1>3. ASSUME NEW n \in G PROVE n + 1 \in G
  <2>1. n \in Nat /\ (n <= L => v[n] = w[n])
    BY <1>1
  <2>2. CASE n + 1 <= L
    <3>1. n \in 0 .. (L - 1) /\ n + 1 \in 0 .. L /\ n + 1 # 0 /\ (n + 1) - 1 = n /\ n <= L
      BY <2>1, <2>2
    <3>2. v[n + 1] = v[n] * b + d[n + 1]
      BY <1>0, <3>1
    <3>3. w[n + 1] = w[n] * b + d[n + 1]
      BY <3>1 DEF Digits
    <3> QED
      BY <1>1, <2>1, <3>1, <3>2, <3>3
  <2> QED
    BY <1>1, <2>1, <2>2
<1>4. G = Nat
  BY <1>1, <1>2, <1>3, SetInduction
<1>5. L \in G /\ L <= L
  BY <1>4
<1> QED
  BY <1>1, <1>5

(* The number that the characters of s denote in decimal, and that its     *)
(* characters stand for the digits d.                                      *)
DecimalOf(s)           == Console!Value(s, 10, Console!Decimal)
InDecimal(s, L, d)     == Len(s) = L /\ \A i \in 1 .. L : d[i] = s[i] - 48
DecimalString(s, L)    == s \in [1 .. L -> 48 .. 57] /\ Len(s) = L

(* So the last of w is the number that s denotes, in decimal *)
LEMMA DecimalValue ==
  ASSUME NEW L \in Nat, NEW s, NEW d, InDecimal(s, L, d), NEW w, Digits(L, 10, d, w)
  PROVE  DecimalOf(s) = w[L]
<1>0. Len(s) = L /\ \A i \in 1 .. L : d[i] = s[i] - 48
  BY DEF InDecimal
<1> DEFINE R(v) == v = [i \in 0 .. L |-> IF i = 0 THEN 0 ELSE v[i - 1] * 10 + (s[i] - 48)]
<1>1. \A i \in 0 .. L : i # 0 => i \in 1 .. L
  OBVIOUS
<1>2. \A v : [i \in 0 .. L |-> IF i = 0 THEN 0 ELSE v[i - 1] * 10 + (s[i] - 48)]
             = [i \in 0 .. L |-> IF i = 0 THEN 0 ELSE v[i - 1] * 10 + d[i]]
  BY <1>0, <1>1
<1>3. R(w)
  BY <1>2, DigitsUnfold
<1>4. PICK v : v = CHOOSE q : R(q)
  OBVIOUS
<1>5. R(v)
  <2> HIDE DEF R
  <2> QED
    BY <1>3, <1>4
<1>6. DecimalOf(s) = v[L]
  BY <1>0, <1>4 DEF DecimalOf, Console!Value, Console!Decimal
<1>7. v[L] = w[L]
  <2>1. v = [i \in 0 .. L |-> IF i = 0 THEN 0 ELSE v[i - 1] * 10 + d[i]]
    BY <1>2, <1>5, Zenon
  <2>2. PICK b \in Nat : b = 10
    OBVIOUS
  <2>3. Unfolds(v, L, b, d) /\ Digits(L, b, d, w)
    BY <2>1, <2>2 DEF Unfolds
  <2> QED
    BY <2>3, DigitsUnique
<1> QED
  BY <1>6, <1>7

(* The same in hexadecimal. *)
HexOf(s)        == Console!Value(s, 16, Console!Hexadecimal)
InHex(s, L, d)  == Len(s) = L /\ \A i \in 1 .. L : d[i] = Console!Hexadecimal(s[i])
HexString(s, L) == s \in [1 .. L -> 48 .. 70] /\ Len(s) = L

(* and in hexadecimal. *)
LEMMA HexValue ==
  ASSUME NEW L \in Nat, NEW s, NEW d, InHex(s, L, d), NEW w, Digits(L, 16, d, w)
  PROVE  HexOf(s) = w[L]
<1>0. Len(s) = L /\ \A i \in 1 .. L : d[i] = Console!Hexadecimal(s[i])
  BY DEF InHex
<1> DEFINE R(v) == v = [i \in 0 .. L |-> IF i = 0 THEN 0 ELSE v[i - 1] * 16 + Console!Hexadecimal(s[i])]
<1>1. \A i \in 0 .. L : i # 0 => i \in 1 .. L
  OBVIOUS
<1>2. \A v : [i \in 0 .. L |-> IF i = 0 THEN 0 ELSE v[i - 1] * 16 + Console!Hexadecimal(s[i])]
             = [i \in 0 .. L |-> IF i = 0 THEN 0 ELSE v[i - 1] * 16 + d[i]]
  BY <1>0, <1>1
<1>3. R(w)
  BY <1>2, DigitsUnfold
<1>4. PICK v : v = CHOOSE q : R(q)
  OBVIOUS
<1>5. R(v)
  <2> HIDE DEF R
  <2> QED
    BY <1>3, <1>4
<1>6. HexOf(s) = v[L]
  BY <1>0, <1>4 DEF HexOf, Console!Value
<1>7. v[L] = w[L]
  <2>1. v = [i \in 0 .. L |-> IF i = 0 THEN 0 ELSE v[i - 1] * 16 + d[i]]
    BY <1>2, <1>5, Zenon
  <2>2. PICK b \in Nat : b = 16
    OBVIOUS
  <2>3. Unfolds(v, L, b, d) /\ Digits(L, b, d, w)
    BY <2>1, <2>2 DEF Unfolds
  <2> QED
    BY <2>3, DigitsUnique
<1> QED
  BY <1>6, <1>7

(* The powers of b, as a function. *)
IsPower(p, b) == p \in [Nat -> Nat \ {0}] /\ p[0] = 1 /\ \A n \in Nat : p[n + 1] = p[n] * b

(* Each divides the ones after it. *)
LEMMA PowerDivides ==
  ASSUME NEW b \in Nat \ {0}, NEW p, IsPower(p, b), NEW m \in Nat, NEW n \in Nat, m <= n
  PROVE  \E z \in Nat : p[n] = z * p[m]
<1>0. p \in [Nat -> Nat \ {0}] /\ \A i \in Nat : p[i + 1] = p[i] * b
  BY DEF IsPower
<1>1. PICK G : G = {k \in Nat : \E z \in Nat : p[m + k] = z * p[m]}
  OBVIOUS
<1>2. 0 \in G
  <2>1. p[m + 0] = 1 * p[m]
    BY <1>0
  <2> QED
    BY <1>1, <2>1
<1>3. ASSUME NEW k \in G PROVE k + 1 \in G
  <2>1. k \in Nat /\ m + k \in Nat /\ m + (k + 1) = (m + k) + 1
    BY <1>1
  <2>2. PICK z \in Nat : p[m + k] = z * p[m]
    BY <1>1
  <2>3. PICK u \in Nat : u = p[m]
    BY <1>0
  <2>4. p[m + (k + 1)] = (z * u) * b
    BY <1>0, <2>1, <2>2, <2>3
  <2>5. (z * u) * b = (z * b) * u /\ z * b \in Nat
    OBVIOUS
  <2> QED
    BY <1>1, <2>1, <2>3, <2>4, <2>5
<1>4. G = Nat
  BY <1>1, <1>2, <1>3, SetInduction
<1>5. PICK k \in Nat : k = n - m /\ m + k = n
  OBVIOUS
<1>6. \E z \in Nat : p[m + k] = z * p[m]
  <2>1. k \in G
    BY <1>4
  <2> QED
    BY <1>1, <2>1, Zenon
<1> QED
  BY <1>5, <1>6

(* The number of digits of x, and the leading zeros that itoa skips. *)
LEMMA LeadingZeros ==
  ASSUME NEW ten, IsPower(ten, 10), ten[D - 1] < M, NEW x \in Nat, x < ten[D - 1]
  PROVE  \E r \in 0 .. (D - 1) :
           /\ r = 0 => x = 0
           /\ r # 0 => ten[r - 1] <= x
           /\ x < ten[r]
           /\ Cardinality({e \in 0 .. (D - 2) : x < Console!pow(10, e)}) = (D - 1) - r
<1>0. D \in Nat \ {0} /\ M \in Nat \ {0}
  BY FormatAssumption
<1>t. ten \in [Nat -> Nat \ {0}] /\ ten[0] = 1 /\ \A n \in Nat : ten[n + 1] = ten[n] * 10
  BY DEF IsPower
<1>1. PICK S : S = {e \in 0 .. (D - 1) : x < ten[e]}
  OBVIOUS
<1>2. S \in SUBSET Nat /\ S # {}
  BY <1>0, <1>1
<1>3. PICK r \in S : \A y \in S : r <= y
  BY <1>2, LeastExists
<1>4. r \in 0 .. (D - 1) /\ x < ten[r] /\ r \in Nat
  BY <1>0, <1>1, <1>3
<1>5. r = 0 => x = 0
  BY <1>4, <1>t
<1>6. ASSUME r # 0 PROVE ten[r - 1] <= x
  <2>1. r - 1 \in 0 .. (D - 1) /\ r - 1 \in Nat /\ ~ (r <= r - 1)
    BY <1>0, <1>4, <1>6
  <2>2. ~ (x < ten[r - 1])
    BY <1>1, <1>3, <2>1
  <2>3. ten[r - 1] \in Nat
    BY <1>t, <2>1
  <2> QED
    BY <2>2, <2>3
<1>7. PICK T : T = {e \in 0 .. (D - 2) : x < Console!pow(10, e)}
  OBVIOUS
<1>8. \A e : e \in T <=> e \in r .. (D - 2)
  <2>1. ASSUME NEW e \in T PROVE e \in r .. (D - 2)
    <3>1. e \in 0 .. (D - 2) /\ e \in 0 .. (D - 1) /\ x < Console!pow(10, e)
      BY <1>0, <1>7
    <3>2. Console!pow(10, e) = ten[e]
      BY <1>t, <3>1, PowExact
    <3>3. e \in S
      BY <1>1, <3>1, <3>2
    <3> QED
      BY <1>0, <1>3, <1>4, <3>1, <3>3
  <2>2. ASSUME NEW e \in r .. (D - 2) PROVE e \in T
    <3>1. e \in 0 .. (D - 2) /\ e \in 0 .. (D - 1) /\ e \in Nat /\ r <= e
      BY <1>0, <1>4
    <3>2. Console!pow(10, e) = ten[e]
      BY <1>t, <3>1, PowExact
    <3>3. ten[r] <= ten[e]
      <4>1. PICK b \in Nat \ {0} : b = 10
        OBVIOUS
      <4>2. \A n \in Nat : ten[n + 1] = ten[n] * b
        BY <1>t, <4>1
      <4> QED
        BY <1>4, <1>t, <3>1, <4>2, PowerMonotonic
    <3>4. x < ten[e]
      <4>1. ten[r] \in Nat /\ ten[e] \in Nat
        BY <1>4, <1>t, <3>1
      <4> QED
        BY <1>4, <3>3, <4>1
    <3> QED
      BY <1>7, <3>1, <3>2, <3>4
  <2> QED
    BY <2>1, <2>2
<1>9. T = r .. (D - 2)
  BY <1>8
<1>10. Cardinality(T) = (D - 1) - r
  <2>1. PICK c \in Int : c = D - 2 /\ r \in Int
    BY <1>0, <1>4
  <2>2. Cardinality(r .. c) = IF r > c THEN 0 ELSE c - r + 1
    BY <2>1, FS_Interval
  <2> QED
    BY <1>0, <1>4, <1>9, <2>1, <2>2
<1> QED
  BY <1>4, <1>5, <1>6, <1>7, <1>10

(* A digit that itoa writes, but for the first of D. *)
LEMMA ItoaDigit ==
  ASSUME NEW ten, IsPower(ten, 10), ten[D - 1] < M, NEW e \in Nat, e + 1 <= D - 1
  PROVE  /\ Console!pow(10, e) = ten[e] /\ (Console!pow(10, e) * 10) % M = ten[e] * 10
         /\ ten[e] * 10 = ten[e + 1]
<1>0. D \in Nat \ {0} /\ M \in Nat \ {0}
  BY FormatAssumption
<1>t. ten \in [Nat -> Nat \ {0}] /\ ten[0] = 1 /\ \A n \in Nat : ten[n + 1] = ten[n] * 10
  BY DEF IsPower
<1>1. e \in 0 .. (D - 1)
  BY <1>0
<1>2. Console!pow(10, e) = ten[e]
  BY <1>1, <1>t, PowExact
<1>3. ten[e + 1] <= ten[D - 1]
  <2>1. PICK b \in Nat \ {0}, i \in Nat, k \in Nat : b = 10 /\ i = e + 1 /\ k = D - 1 /\ i <= k
    BY <1>0
  <2>2. \A n \in Nat : ten[n + 1] = ten[n] * b
    BY <1>t, <2>1
  <2>3. ten[i] <= ten[k]
    BY <1>t, <2>1, <2>2, PowerMonotonic
  <2> QED
    BY <2>1, <2>3
<1>4. PICK u \in Nat : u = ten[e + 1] /\ u = ten[e] * 10 /\ u < M
  <2>1. ten[e + 1] \in Nat /\ ten[D - 1] \in Nat
    BY <1>0, <1>t
  <2> QED
    BY <1>0, <1>3, <1>t, <2>1
<1>5. u % M = u
  <2>1. PICK z \in Nat : z = 0
    OBVIOUS
  <2>2. u \in 0 .. (M - 1) /\ Quotient(u, M, z, u)
    BY <1>0, <1>4, <2>1 DEF Quotient
  <2> QED
    BY <1>0, <2>2, Euclid
<1> QED
  BY <1>2, <1>4, <1>5

(* The digits of a number of r digits. *)
Written10(ten, x, r) == [i \in 1 .. r |-> ((x % (ten[r - i] * 10)) \div ten[r - i]) + 48]

IsWritten10(s, ten, x, r) == s = Written10(ten, x, r)
OfLength(ten, x, r) == ten[r - 1] <= x /\ x < ten[r]

(* Read back they give the number, and the first is no zero. *)
LEMMA SmallNumber ==
  ASSUME NEW ten, IsPower(ten, 10), NEW x \in Nat, NEW r \in Nat \ {0}, OfLength(ten, x, r),
         NEW s, IsWritten10(s, ten, x, r)
  PROVE  DecimalString(s, r) /\ DecimalOf(s) = x /\ s[1] # 48
<1>s. s = Written10(ten, x, r) /\ ten[r - 1] <= x /\ x < ten[r]
  BY DEF IsWritten10, OfLength
<1>t. ten \in [Nat -> Nat \ {0}] /\ ten[0] = 1 /\ \A n \in Nat : ten[n + 1] = ten[n] * 10
  BY DEF IsPower
<1>1. PICK w : w = [i \in 0 .. r |-> x \div ten[r - i]]
  OBVIOUS
<1>2. PICK d : d = [i \in 1 .. r |-> (x % (ten[r - i] * 10)) \div ten[r - i]]
  OBVIOUS
<1>3. ASSUME NEW i \in 0 .. (r - 1) PROVE w[i + 1] = w[i] * 10 + d[i + 1] /\ d[i + 1] \in 0 .. 9
  <2>1. PICK k \in Nat : k = r - (i + 1) /\ k + 1 = r - i
    OBVIOUS
  <2>2. PICK j \in Nat \ {0} : j = ten[k] /\ ten[r - i] = j * 10
    BY <1>t, <2>1
  <2>3. /\ x \div j = (x \div (j * 10)) * 10 + ((x % (j * 10)) \div j)
        /\ (x % (j * 10)) \div j \in 0 .. 9
    BY DecimalStep
  <2>4. i + 1 \in 1 .. r /\ i + 1 \in 0 .. r /\ i \in 0 .. r
    OBVIOUS
  <2>5. w[i + 1] = x \div j /\ w[i] = x \div (j * 10) /\ d[i + 1] = (x % (j * 10)) \div j
    BY <1>1, <1>2, <2>1, <2>2, <2>4
  <2> QED
    BY <2>3, <2>5
<1>4. ASSUME NEW i \in 1 .. r
      PROVE  d[i] \in 0 .. 9 /\ s[i] = d[i] + 48 /\ d[i] = s[i] - 48 /\ s[i] \in 48 .. 57
  <2>1. i - 1 \in 0 .. (r - 1) /\ (i - 1) + 1 = i
    OBVIOUS
  <2>2. d[i] \in 0 .. 9
    BY <1>3, <2>1
  <2>3. s[i] = d[i] + 48
    BY <1>2, <1>s DEF Written10
  <2> QED
    BY <2>2, <2>3
<1>5. s \in [1 .. r -> 48 .. 57]
  BY <1>4, <1>s DEF Written10
<1>6. Len(s) = r
  BY <1>5
<1>7. w[0] = 0 /\ w[r] = x
  <2>1. 0 \in 0 .. r /\ r \in 0 .. r /\ r - 0 = r /\ r - r = 0
    OBVIOUS
  <2>2. w[0] = x \div ten[r] /\ w[r] = x \div 1
    BY <1>1, <1>t, <2>1
  <2>3. x \div ten[r] = 0
    <3>1. PICK z \in Nat, y \in Nat \ {0} : z = 0 /\ y = ten[r]
      BY <1>t
    <3>2. x \in 0 .. (y - 1) /\ Quotient(x, y, z, x)
      BY <1>s, <3>1 DEF Quotient
    <3> QED
      BY <3>1, <3>2, Euclid
  <2> QED
    BY <2>2, <2>3
<1>8. Digits(r, 10, d, w)
  <2>1. ASSUME NEW i \in 0 .. r PROVE w[i] \in Int
    <3>1. ten[r - i] \in Nat \ {0}
      BY <1>t
    <3> QED
      BY <1>1, <3>1
  <2> QED
    BY <1>1, <1>3, <1>7, <2>1 DEF Digits
<1>9. DecimalOf(s) = x
  <2>1. r \in Nat /\ InDecimal(s, r, d)
    BY <1>4, <1>6 DEF InDecimal
  <2>2. DecimalOf(s) = w[r]
    BY <1>8, <2>1, DecimalValue
  <2> QED
    BY <1>7, <2>2
<1>10. s[1] # 48
  <2>1. 0 \in 0 .. (r - 1) /\ 1 \in 1 .. r /\ 1 \in 0 .. r /\ 0 + 1 = 1
    OBVIOUS
  <2>2. w[1] = d[1] /\ d[1] \in 0 .. 9
    BY <1>3, <1>7, <2>1
  <2>3. w[1] = x \div ten[r - 1]
    BY <1>1, <2>1
  <2>4. PICK y \in Nat \ {0} : y = ten[r - 1] /\ y <= x
    BY <1>s, <1>t
  <2>5. x \div y # 0
    BY <2>4, DivMod
  <2>6. s[1] = d[1] + 48
    BY <1>4, <2>1
  <2>7. d[1] # 0
    BY <2>2, <2>3, <2>4, <2>5
  <2> QED
    BY <2>2, <2>6, <2>7
<1> QED
  BY <1>5, <1>6, <1>9, <1>10 DEF DecimalString

(* The digits of a number of D digits: the first is lost. *)
WrittenD(ten, x) == [i \in 1 .. D |-> IF i = 1 THEN 48 ELSE ((x % (ten[D - i] * 10)) \div ten[D - i]) + 48]

(* What is left of x after the division by a multiple of t. *)
Reduced(x, z, t, y) == y = x % (z * t)

(* It leaves the same as x when divided by t. *)
LEMMA ModMod ==
  ASSUME NEW x \in Nat, NEW t \in Nat \ {0}, NEW z \in Nat \ {0}, NEW y, Reduced(x, z, t, y)
  PROVE  x % t = y % t /\ y \in Nat
<1>1. PICK m \in Nat \ {0} : m = z * t
  OBVIOUS
<1>2. PICK q \in Nat, e \in 0 .. (m - 1) : e = x % m /\ x = q * m + e
  BY DivMod, ZenonT(60)
<1>3. y = e /\ e \in Nat
  <2>1. y = e
    BY <1>1, <1>2, Zenon DEF Reduced
  <2> QED
    BY <2>1
<1>4. PICK a \in Nat, r \in 0 .. (t - 1) : r = e % t /\ e = a * t + r
  <2>1. \E a \in Nat : \E r \in 0 .. (t - 1) : a = e \div t /\ r = e % t /\ e = a * t + r
    BY <1>3, DivMod, Zenon
  <2> QED
    BY <2>1, Zenon
<1>5. x = (q * z + a) * t + r
  <2>0. q * (z * t) = (q * z) * t
    OBVIOUS
  <2>1. q * m = (q * z) * t
    BY <1>1, <2>0, Zenon
  <2>2. (q * z + a) * t = (q * z) * t + a * t
    OBVIOUS
  <2>3. PICK g \in Nat, h \in Nat : g = (q * z) * t /\ h = a * t
    OBVIOUS
  <2>4. x = g + e /\ e = h + r
    BY <1>2, <1>4, <2>1, <2>3, Zenon
  <2>5. (q * z + a) * t = g + h
    BY <2>2, <2>3, Zenon
  <2>6. x = (g + h) + r
    BY <1>3, <2>4
  <2> QED
    BY <2>5, <2>6, Zenon
<1>6. PICK c \in Nat : c = q * z + a
  OBVIOUS
<1>7. Quotient(x, t, c, r)
  BY <1>5, <1>6 DEF Quotient
<1>8. x % t = r
  BY <1>7, Euclid
<1> QED
  BY <1>3, <1>4, <1>8

IsWrittenD(s, ten, x) == s = WrittenD(ten, x)

(* Read back they give the number without its first digit. *)
LEMMA LargeNumber ==
  ASSUME NEW ten, IsPower(ten, 10), NEW x \in Nat, NEW s, IsWrittenD(s, ten, x)
  PROVE  DecimalString(s, D) /\ s[1] = 48 /\ DecimalOf(s) = x % ten[D - 1]
<1>s. s = WrittenD(ten, x)
  BY DEF IsWrittenD
<1>0. D \in Nat \ {0}
  BY FormatAssumption
<1>t. ten \in [Nat -> Nat \ {0}] /\ ten[0] = 1 /\ \A n \in Nat : ten[n + 1] = ten[n] * 10
  BY DEF IsPower
<1>m. PICK top \in Nat \ {0} : top = ten[D - 1]
  BY <1>0, <1>t
<1>y. PICK y \in 0 .. (top - 1) : y = x % top /\ y \in Nat
  BY DivMod
<1>1. PICK w : w = [i \in 0 .. D |-> IF i = 0 THEN 0 ELSE y \div ten[D - i]]
  OBVIOUS
<1>2. PICK d : d = [i \in 1 .. D |-> IF i = 1 THEN 0 ELSE (x % (ten[D - i] * 10)) \div ten[D - i]]
  OBVIOUS
<1>3. ASSUME NEW i \in 0 .. (D - 1) PROVE w[i + 1] = w[i] * 10 + d[i + 1] /\ d[i + 1] \in 0 .. 9
  <2>4. i + 1 \in 1 .. D /\ i + 1 \in 0 .. D /\ i \in 0 .. D /\ i + 1 # 0
    BY <1>0
  <2>5. CASE i = 0
    <3>1. w[1] = y \div top /\ w[0] = 0 /\ d[1] = 0
      BY <1>1, <1>2, <1>m, <2>4, <2>5
    <3>2. y \div top = 0
      <4>1. PICK z \in Nat : z = 0
        OBVIOUS
      <4>2. Quotient(y, top, z, y)
        BY <1>y, <4>1 DEF Quotient
      <4> QED
        BY <4>1, <4>2, Euclid
    <3> QED
      BY <2>5, <3>1, <3>2
  <2>6. CASE i # 0
    <3>1. PICK k \in Nat : k = D - (i + 1) /\ k + 1 = D - i /\ k + 1 <= D - 1
      BY <1>0, <2>6
    <3>2. PICK j \in Nat \ {0} : j = ten[k] /\ ten[k + 1] = j * 10
      BY <1>t, <3>1
    <3>3. x % (j * 10) = y % (j * 10)
      <4>1. PICK b \in Nat \ {0}, n \in Nat, m \in Nat : b = 10 /\ n = D - 1 /\ m = k + 1 /\ m <= n
        BY <1>0, <3>1
      <4>2. PICK z \in Nat : ten[n] = z * ten[m]
        BY <4>1, PowerDivides
      <4>3. PICK u \in Nat \ {0} : u = j * 10 /\ u = ten[m]
        BY <1>t, <3>2, <4>1
      <4>4. top = z * u /\ z \in Nat \ {0}
        <5>1. top = z * u
          BY <1>m, <4>1, <4>2, <4>3, Zenon
        <5>2. z # 0
          BY <1>m, <4>3, <5>1
        <5> QED
          BY <5>1, <5>2
      <4>5. Reduced(x, z, u, y)
        BY <1>y, <4>4 DEF Reduced
      <4>6. x % u = y % u /\ y \in Nat
        BY <4>4, <4>5, ModMod
      <4> QED
        BY <4>3, <4>6
    <3>4. /\ y \div j = (y \div (j * 10)) * 10 + ((y % (j * 10)) \div j)
          /\ (y % (j * 10)) \div j \in 0 .. 9
      BY <1>y, DecimalStep
    <3>5. w[i + 1] = y \div j /\ w[i] = y \div (j * 10) /\ d[i + 1] = (x % (j * 10)) \div j
      <4>1. i + 1 # 1
        BY <2>6
      <4>2. w[i + 1] = y \div ten[D - (i + 1)] /\ w[i] = y \div ten[D - i]
        BY <1>1, <2>4, <2>6
      <4>3. d[i + 1] = (x % (ten[D - (i + 1)] * 10)) \div ten[D - (i + 1)]
        BY <1>2, <2>4, <4>1
      <4> QED
        BY <3>1, <3>2, <4>2, <4>3
    <3> QED
      BY <3>3, <3>4, <3>5
  <2> QED
    BY <2>5, <2>6
<1>4. ASSUME NEW i \in 1 .. D
      PROVE  d[i] \in 0 .. 9 /\ s[i] = d[i] + 48 /\ d[i] = s[i] - 48 /\ s[i] \in 48 .. 57
  <2>1. i - 1 \in 0 .. (D - 1) /\ (i - 1) + 1 = i
    BY <1>0
  <2>2. d[i] \in 0 .. 9
    BY <1>3, <2>1
  <2>3. s[i] = d[i] + 48
    BY <1>2, <1>s DEF WrittenD
  <2> QED
    BY <2>2, <2>3
<1>5. s \in [1 .. D -> 48 .. 57]
  BY <1>4, <1>s DEF WrittenD
<1>6. Len(s) = D /\ s[1] = 48
  <2>1. 1 \in 1 .. D
    BY <1>0
  <2> QED
    BY <1>0, <1>5, <1>s, <2>1 DEF WrittenD
<1>7. w[0] = 0 /\ w[D] = y
  <2>1. 0 \in 0 .. D /\ D \in 0 .. D /\ D - D = 0 /\ D # 0
    BY <1>0
  <2>2. w[D] = y \div 1
    BY <1>1, <1>t, <2>1
  <2>3. y \div 1 = y
    BY <1>y
  <2> QED
    BY <1>1, <2>1, <2>2, <2>3
<1>8. Digits(D, 10, d, w)
  <2>1. ASSUME NEW i \in 0 .. D PROVE w[i] \in Int
    <3>1. ten[D - i] \in Nat \ {0}
      BY <1>0, <1>t
    <3>2. y \div ten[D - i] \in Int
      BY <1>y, <3>1
    <3> QED
      BY <1>1, <3>2
  <2> QED
    BY <1>1, <1>3, <1>7, <2>1 DEF Digits
<1>9. DecimalOf(s) = y
  <2>1. D \in Nat /\ InDecimal(s, D, d)
    BY <1>0, <1>4, <1>6 DEF InDecimal
  <2>2. DecimalOf(s) = w[D]
    BY <1>8, <2>1, DecimalValue
  <2> QED
    BY <1>7, <2>2
<1> QED
  BY <1>5, <1>6, <1>9, <1>m, <1>y DEF DecimalString

(* What itoa returns, for every number that fits. *)
LEMMA ItoaSmall ==
  ASSUME NEW ten, IsPower(ten, 10), ten[D - 1] < M, NEW x \in Nat, x < ten[D - 1]
  PROVE  \/ x = 0 /\ Console!itoa(x) = <<48>>
         \/ \E r \in 1 .. (D - 1) : ten[r - 1] <= x /\ x < ten[r] /\ Console!itoa(x) = Written10(ten, x, r)
<1>0. D \in Nat \ {0} /\ M \in Nat \ {0}
  BY FormatAssumption
<1>t. ten \in [Nat -> Nat \ {0}] /\ ten[0] = 1 /\ \A n \in Nat : ten[n + 1] = ten[n] * 10
  BY DEF IsPower
<1>1. PICK r \in 0 .. (D - 1) :
        /\ r = 0 => x = 0
        /\ r # 0 => ten[r - 1] <= x
        /\ x < ten[r]
        /\ Cardinality({e \in 0 .. (D - 2) : x < Console!pow(10, e)}) = (D - 1) - r
  BY LeadingZeros
<1>2. Console!pow(10, D - 1) = ten[D - 1]
  <2>1. PICK e \in 0 .. (D - 1) : e = D - 1
    BY <1>0
  <2>2. Console!pow(10, e) = ten[e]
    BY <1>t, PowExact
  <2> QED
    BY <2>1, <2>2
<1>3. ~ (x >= Console!pow(10, D - 1))
  BY <1>0, <1>2, <1>t
<1> DEFINE k == (IF x >= Console!pow(10, D - 1) THEN 0 ELSE 1)
                + Console!Cardinality({e \in 0 .. (D - 2) : x < Console!pow(10, e)})
<1>c. ASSUME NEW S PROVE Console!Cardinality(S) = Cardinality(S)
  BY Zenon DEF Console!Cardinality, Cardinality
<1>5. k = D - r
  BY <1>0, <1>1, <1>3, <1>c
<1>6. Console!itoa(x) =
        IF k = D THEN <<48>>
        ELSE [i \in 1 .. (D - k) |->
               ((x % ((Console!pow(10, D - i - k) * 10) % M)) \div Console!pow(10, D - i - k)) + 48]
  BY Zenon DEF Console!itoa
<1> HIDE DEF k
<1>7. CASE r = 0
  BY <1>0, <1>1, <1>5, <1>6, <1>7
<1>8. CASE r # 0
  <2>1. D - k = r /\ k # D /\ r \in 1 .. (D - 1)
    BY <1>0, <1>5, <1>8
  <2>2. ASSUME NEW i \in 1 .. r
        PROVE  ((x % ((Console!pow(10, D - i - k) * 10) % M)) \div Console!pow(10, D - i - k)) + 48
               = ((x % (ten[r - i] * 10)) \div ten[r - i]) + 48
    <3>1. PICK e \in Nat : e = r - i /\ e = D - i - k /\ e + 1 <= D - 1
      BY <1>0, <1>5, <2>1
    <3>2. Console!pow(10, e) = ten[e] /\ (Console!pow(10, e) * 10) % M = ten[e] * 10
      BY <3>1, ItoaDigit
    <3> QED
      BY <3>1, <3>2
  <2>3. Console!itoa(x) = Written10(ten, x, r)
    BY <1>6, <2>1, <2>2 DEF Written10
  <2> QED
    BY <1>1, <1>8, <2>1, <2>3
<1> QED
  BY <1>7, <1>8

(* And for every number of D digits. *)
LEMMA ItoaLarge ==
  ASSUME NEW ten, IsPower(ten, 10), ten[D - 1] < M, M <= ten[D], ten[D] % M < ten[D - 1], ten[D] % M # 0,
         NEW x \in Nat, x >= ten[D - 1]
  PROVE  Console!itoa(x) = WrittenD(ten, x)
<1>0. D \in Nat \ {0} /\ M \in Nat \ {0}
  BY FormatAssumption
<1>t. ten \in [Nat -> Nat \ {0}] /\ ten[0] = 1 /\ \A n \in Nat : ten[n + 1] = ten[n] * 10
  BY DEF IsPower
<1>2. Console!pow(10, D - 1) = ten[D - 1]
  <2>1. PICK e \in 0 .. (D - 1) : e = D - 1
    BY <1>0
  <2>2. Console!pow(10, e) = ten[e]
    BY <1>t, PowExact
  <2> QED
    BY <2>1, <2>2
<1>3. {e \in 0 .. (D - 2) : x < Console!pow(10, e)} = {}
  <2> SUFFICES ASSUME NEW e \in 0 .. (D - 2), x < Console!pow(10, e) PROVE FALSE
    OBVIOUS
  <2>1. PICK b \in Nat \ {0}, n \in Nat : b = 10 /\ n = D - 1 /\ e \in Nat /\ e <= n /\ e \in 0 .. (D - 1)
    BY <1>0
  <2>2. Console!pow(10, e) = ten[e]
    BY <1>t, <2>1, PowExact
  <2>3. \A i \in Nat : ten[i + 1] = ten[i] * b
    BY <1>t, <2>1
  <2>4. ten[e] <= ten[n]
    BY <1>t, <2>1, <2>3, PowerMonotonic
  <2>5. ten[e] \in Nat /\ ten[n] \in Nat /\ x >= ten[n]
    BY <1>t, <2>1
  <2> QED
    BY <2>2, <2>4, <2>5
<1> DEFINE k == (IF x >= Console!pow(10, D - 1) THEN 0 ELSE 1)
                + Console!Cardinality({e \in 0 .. (D - 2) : x < Console!pow(10, e)})
<1>c. ASSUME NEW S PROVE Console!Cardinality(S) = Cardinality(S)
  BY Zenon DEF Console!Cardinality, Cardinality
<1>5. k = 0
  BY <1>0, <1>2, <1>3, <1>c, FS_EmptySet
<1>6. Console!itoa(x) =
        IF k = D THEN <<48>>
        ELSE [i \in 1 .. (D - k) |->
               ((x % ((Console!pow(10, D - i - k) * 10) % M)) \div Console!pow(10, D - i - k)) + 48]
  BY Zenon DEF Console!itoa
<1> HIDE DEF k
<1>7. ASSUME NEW i \in 1 .. D
      PROVE  ((x % ((Console!pow(10, D - i - k) * 10) % M)) \div Console!pow(10, D - i - k)) + 48
             = IF i = 1 THEN 48 ELSE ((x % (ten[D - i] * 10)) \div ten[D - i]) + 48
  <2>1. CASE i = 1
    <3>1. D - i - k = D - 1
      BY <1>0, <1>5, <2>1
    <3>2. PICK top \in Nat \ {0} : top = ten[D - 1] /\ top = Console!pow(10, D - 1)
      BY <1>0, <1>2, <1>t
    <3>3. top * 10 = ten[D]
      <4>1. D - 1 \in Nat /\ (D - 1) + 1 = D
        BY <1>0
      <4> QED
        BY <1>t, <3>2, <4>1
    <3>4. PICK u \in Nat \ {0} : u = (top * 10) % M /\ u < top
      <4>1. ten[D] \in Nat /\ ten[D] % M \in Nat
        BY <1>0, <1>t
      <4> QED
        BY <3>2, <3>3, <4>1
    <3>5. PICK y \in Nat : y = x % u /\ y < top
      BY <3>4, DivMod
    <3>6. y \div top = 0
      <4>1. PICK z \in Nat : z = 0
        OBVIOUS
      <4>2. y \in 0 .. (top - 1) /\ Quotient(y, top, z, y)
        BY <3>5, <4>1 DEF Quotient
      <4> QED
        BY <4>1, <4>2, Euclid
    <3>7. ((x % ((top * 10) % M)) \div top) + 48 = 48
      BY <3>4, <3>5, <3>6
    <3> QED
      BY <2>1, <3>1, <3>2, <3>7
  <2>2. CASE i # 1
    <3>1. PICK e \in Nat : e = D - i /\ e = D - i - k /\ e + 1 <= D - 1
      BY <1>0, <1>5, <2>2
    <3>2. Console!pow(10, e) = ten[e] /\ (Console!pow(10, e) * 10) % M = ten[e] * 10
      BY <3>1, ItoaDigit
    <3> QED
      BY <2>2, <3>1, <3>2
  <2> QED
    BY <2>1, <2>2
<1> QED
  BY <1>0, <1>5, <1>6, <1>7 DEF WrittenD

(* itoa is right but for the first of D digits. *)
LEMMA ItoaCorrect ==
  ASSUME NEW x \in 0 .. (M - 1)
  PROVE  Console!ItoaRight(x) /\ \E L \in Nat \ {0} : DecimalString(Console!itoa(x), L)
<1>0. D \in Nat \ {0} /\ M \in Nat \ {0} /\ x \in Nat
  BY FormatAssumption
<1>1. PICK ten \in [Nat -> Nat \ {0}] :
       /\ ten = Console!power(10) /\ ten[0] = 1 /\ \A n \in Nat : ten[n + 1] = ten[n] * 10
       /\ ten[D - 1] < M /\ M <= ten[D] /\ ten[D] % M < ten[D - 1] /\ ten[D] % M # 0
  BY FormatAssumption
<1>2. IsPower(ten, 10)
  BY <1>1 DEF IsPower
<1>3. PICK s : s = Console!itoa(x)
  OBVIOUS
<1>e. Console!ItoaRight(x) =
        IF x < ten[D - 1]
        THEN DecimalOf(s) = x /\ (Len(s) > 1 => s[1] # 48)
        ELSE Len(s) = D /\ DecimalOf([s EXCEPT ![1] = 48]) = x % ten[D - 1]
  BY <1>1, <1>3, Zenon DEF Console!ItoaRight, DecimalOf
<1>4. CASE x < ten[D - 1]
  <2>1. CASE x = 0 /\ s = <<48>>
    <3>1. Len(s) = 1 /\ s[1] = 48 /\ s \in [1 .. 1 -> 48 .. 57]
      BY <2>1
    <3>a. PICK d : d = [i \in 1 .. 1 |-> 0]
      OBVIOUS
    <3>b. PICK w : w = [i \in 0 .. 1 |-> 0]
      OBVIOUS
    <3>2. d[1] = 0 /\ w \in [0 .. 1 -> Int] /\ w[0] = 0 /\ w[1] = 0
      BY <3>a, <3>b
    <3>3. Digits(1, 10, d, w) /\ w[1] = 0
      BY <3>2 DEF Digits
    <3>4. InDecimal(s, 1, d)
      BY <3>1, <3>2 DEF InDecimal
    <3>5. DecimalOf(s) = 0
      <4>1. PICK L \in Nat : L = 1
        OBVIOUS
      <4>2. Digits(L, 10, d, w) /\ InDecimal(s, L, d)
        BY <3>3, <3>4, <4>1
      <4>3. DecimalOf(s) = w[L]
        BY <4>2, DecimalValue
      <4> QED
        BY <3>3, <4>1, <4>3
    <3>6. Console!ItoaRight(x)
      <4>1. DecimalOf(s) = x /\ ~ (Len(s) > 1)
        BY <2>1, <3>1, <3>5
      <4> QED
        BY <1>e, <1>4, <4>1, Zenon
    <3>7. DecimalString(s, 1)
      BY <3>1 DEF DecimalString
    <3> QED
      BY <1>3, <3>6, <3>7
  <2>2. CASE \E r \in 1 .. (D - 1) : OfLength(ten, x, r) /\ s = Written10(ten, x, r)
    <3>1. PICK r \in 1 .. (D - 1) : OfLength(ten, x, r) /\ s = Written10(ten, x, r)
      BY <2>2
    <3>2. r \in Nat \ {0}
      BY <1>0
    <3>3. IsWritten10(s, ten, x, r)
      BY <3>1 DEF IsWritten10
    <3>4. DecimalString(s, r) /\ DecimalOf(s) = x /\ s[1] # 48
      BY <1>0, <1>2, <3>1, <3>2, <3>3, SmallNumber
    <3>6. Console!ItoaRight(x)
      BY <1>e, <1>4, <3>4
    <3> QED
      BY <1>3, <3>2, <3>4, <3>6
  <2>3. \/ x = 0 /\ s = <<48>>
        \/ \E r \in 1 .. (D - 1) : ten[r - 1] <= x /\ x < ten[r] /\ s = Written10(ten, x, r)
    BY <1>0, <1>1, <1>2, <1>3, <1>4, ItoaSmall
  <2> QED
    BY <2>1, <2>2, <2>3 DEF OfLength
<1>5. CASE ~ (x < ten[D - 1])
  <2>1. x >= ten[D - 1]
    BY <1>0, <1>1, <1>5
  <2>2. s = WrittenD(ten, x)
    BY <1>0, <1>1, <1>2, <1>3, <2>1, ItoaLarge
  <2>3. IsWrittenD(s, ten, x)
    BY <2>2 DEF IsWrittenD
  <2>4. DecimalString(s, D) /\ s[1] = 48 /\ DecimalOf(s) = x % ten[D - 1]
    BY <1>0, <1>2, <2>3, LargeNumber
  <2>5. Console!ItoaRight(x)
    <3>1. [s EXCEPT ![1] = 48] = s /\ Len(s) = D
      BY <1>0, <2>4 DEF DecimalString
    <3> QED
      BY <1>e, <1>5, <2>4, <3>1, Zenon
  <2> QED
    BY <1>0, <1>3, <2>4, <2>5
<1> QED
  BY <1>4, <1>5

(* The characters of the sixteen digits (print.c:120). *)
LEMMA HexDigit ==
  ASSUME NEW b \in 0 .. 15
  PROVE  Console!Hexadecimal(Console!digits(b)) = b /\ Console!digits(b) \in 48 .. 70
<1>1. CASE b < 10
  BY <1>1 DEF Console!Hexadecimal, Console!digits
<1>2. CASE ~ (b < 10)
  BY <1>2 DEF Console!Hexadecimal, Console!digits
<1> QED
  BY <1>1, <1>2

(* A number written in L hexadecimal digits. *)
WrittenHex(p, x, L)      == [i \in 1 .. L |-> Console!digits((x \div p[L - i]) % 16)]
IsWrittenHex(s, p, x, L) == s = WrittenHex(p, x, L) /\ x < p[L]

(* Every number that L digits can hold is read back from them. *)
LEMMA HexNumber ==
  ASSUME NEW p, IsPower(p, 16), NEW x \in Nat, NEW L \in Nat \ {0}, NEW s, IsWrittenHex(s, p, x, L)
  PROVE  HexString(s, L) /\ HexOf(s) = x
<1>s. s = WrittenHex(p, x, L) /\ x < p[L]
  BY DEF IsWrittenHex
<1>t. p \in [Nat -> Nat \ {0}] /\ p[0] = 1 /\ \A n \in Nat : p[n + 1] = p[n] * 16
  BY DEF IsPower
<1>1. PICK w : w = [i \in 0 .. L |-> x \div p[L - i]]
  OBVIOUS
<1>2. PICK d : d = [i \in 1 .. L |-> (x \div p[L - i]) % 16]
  OBVIOUS
<1>3. ASSUME NEW i \in 0 .. (L - 1) PROVE w[i + 1] = w[i] * 16 + d[i + 1] /\ d[i + 1] \in 0 .. 15
  <2>1. PICK k \in Nat : k = L - (i + 1) /\ k + 1 = L - i
    OBVIOUS
  <2>2. PICK j \in Nat \ {0} : j = p[k] /\ p[L - i] = j * 16
    BY <1>t, <2>1
  <2>3. x \div j = (x \div (j * 16)) * 16 + ((x \div j) % 16)
    BY HexStep
  <2>4. i + 1 \in 1 .. L /\ i + 1 \in 0 .. L /\ i \in 0 .. L
    OBVIOUS
  <2>5. w[i + 1] = x \div j /\ w[i] = x \div (j * 16) /\ d[i + 1] = (x \div j) % 16
    BY <1>1, <1>2, <2>1, <2>2, <2>4
  <2>6. PICK q \in Nat : q = x \div j
    OBVIOUS
  <2>7. q % 16 \in 0 .. 15
    OBVIOUS
  <2>8. d[i + 1] \in 0 .. 15
    BY <2>5, <2>6, <2>7
  <2> QED
    BY <2>3, <2>5, <2>8
<1>4. ASSUME NEW i \in 1 .. L
      PROVE  s[i] = Console!digits(d[i]) /\ d[i] = Console!Hexadecimal(s[i]) /\ s[i] \in 48 .. 70
  <2>1. i - 1 \in 0 .. (L - 1) /\ (i - 1) + 1 = i
    OBVIOUS
  <2>2. d[i] \in 0 .. 15
    BY <1>3, <2>1
  <2>3. s[i] = Console!digits(d[i])
    BY <1>2, <1>s DEF WrittenHex
  <2>4. Console!Hexadecimal(Console!digits(d[i])) = d[i] /\ Console!digits(d[i]) \in 48 .. 70
    BY <2>2, HexDigit
  <2> QED
    BY <2>3, <2>4
<1>5. s \in [1 .. L -> 48 .. 70]
  BY <1>4, <1>s DEF WrittenHex
<1>6. Len(s) = L
  BY <1>5
<1>7. w[0] = 0 /\ w[L] = x
  <2>1. 0 \in 0 .. L /\ L \in 0 .. L /\ L - 0 = L /\ L - L = 0
    OBVIOUS
  <2>2. w[0] = x \div p[L] /\ w[L] = x \div 1
    BY <1>1, <1>t, <2>1
  <2>3. x \div p[L] = 0
    <3>1. PICK z \in Nat, y \in Nat \ {0} : z = 0 /\ y = p[L]
      BY <1>t
    <3>2. x \in 0 .. (y - 1) /\ Quotient(x, y, z, x)
      BY <1>s, <3>1 DEF Quotient
    <3> QED
      BY <3>1, <3>2, Euclid
  <2> QED
    BY <2>2, <2>3
<1>8. Digits(L, 16, d, w)
  <2>1. ASSUME NEW i \in 0 .. L PROVE w[i] \in Int
    <3>1. p[L - i] \in Nat \ {0}
      BY <1>t
    <3> QED
      BY <1>1, <3>1
  <2> QED
    BY <1>1, <1>3, <1>7, <2>1 DEF Digits
<1>9. HexOf(s) = x
  <2>1. L \in Nat /\ InHex(s, L, d)
    BY <1>4, <1>6 DEF InHex
  <2>2. HexOf(s) = w[L]
    BY <1>8, <2>1, HexValue
  <2> QED
    BY <1>7, <2>2
<1> QED
  BY <1>5, <1>6, <1>9 DEF HexString

(* hex and hexbyte write every number they can hold. *)
LEMMA HexCorrect ==
  ASSUME NEW x \in 0 .. (M - 1)
  PROVE  Console!HexExact(x) /\ HexString(Console!hex(x), HEXD)
<1>0. HEXD \in Nat \ {0} /\ M \in Nat \ {0} /\ x \in Nat
  BY FormatAssumption
<1>1. PICK p \in [Nat -> Nat \ {0}] :
       /\ p = Console!power(16) /\ p[0] = 1 /\ \A n \in Nat : p[n + 1] = p[n] * 16
       /\ M <= p[HEXD]
  BY FormatAssumption
<1>2. IsPower(p, 16)
  BY <1>1 DEF IsPower
<1>3. PICK s : s = Console!hex(x)
  OBVIOUS
<1>4. PICK y \in Nat : y = x % 256 /\ y < 256
  BY <1>0
<1>5. PICK t : t = Console!hexbyte(y)
  OBVIOUS
<1>6. HexString(s, HEXD) /\ HexOf(s) = x
  <2>1. s = WrittenHex(p, x, HEXD)
    BY <1>1, <1>3, Zenon DEF Console!hex, WrittenHex
  <2>2. p[HEXD] \in Nat
    BY <1>0, <1>1
  <2>3. x < p[HEXD]
    BY <1>0, <1>1, <2>2
  <2>4. IsWrittenHex(s, p, x, HEXD)
    BY <2>1, <2>3 DEF IsWrittenHex
  <2> QED
    BY <1>0, <1>2, <2>4, HexNumber
<1>7. HexOf(t) = y
  <2>1. PICK L \in Nat \ {0} : L = 2
    OBVIOUS
  <2>2. t = WrittenHex(p, y, L)
    BY <1>1, <1>5, <2>1, Zenon DEF Console!hexbyte, WrittenHex
  <2>3. p[L] = 256
    <3>1. p[0 + 1] = p[0] * 16 /\ p[1 + 1] = p[1] * 16
      BY <1>1
    <3> QED
      BY <1>1, <2>1, <3>1
  <2>4. IsWrittenHex(t, p, y, L)
    BY <1>4, <2>2, <2>3 DEF IsWrittenHex
  <2> QED
    BY <1>2, <2>4, HexNumber
<1>8. Console!HexExact(x) = (HexOf(s) = x /\ Len(s) = HEXD /\ HexOf(t) = y)
  BY <1>3, <1>4, <1>5, Zenon DEF Console!HexExact, HexOf
<1>9. Len(s) = HEXD
  BY <1>6 DEF HexString
<1> QED
  BY <1>3, <1>6, <1>7, <1>8, <1>9

-----------------------------------------------------------------------------
(* What is assumed of the screen and of the calls. *)
LEMMA ConsoleAssumption ==
  /\ PPS \in Nat \ {0} /\ HEIGHT \in Nat \ {0} /\ FONT_WIDTH \in Nat \ {0} /\ FONT_HEIGHT \in Nat \ {0}
  /\ Console!cols \in Nat \ {0} /\ Console!cols * FONT_WIDTH <= PPS
  /\ Console!rows \in Nat /\ Console!rows * FONT_HEIGHT <= HEIGHT
  /\ \A call \in Calls : Console!WellFormed(call)
<1>1. Console!ConsoleConstants
  BY ConstantsAssumption
<1>2. /\ PPS \in Nat \ {0} /\ HEIGHT \in Nat \ {0} /\ FONT_WIDTH \in Nat \ {0} /\ FONT_HEIGHT \in Nat \ {0}
      /\ Console!cols > 0 /\ \A call \in Calls : Console!WellFormed(call)
  BY <1>1 DEF Console!ConsoleConstants
<1>3. PICK q \in Nat, r \in 0 .. (FONT_WIDTH - 1) :
        q = PPS \div FONT_WIDTH /\ PPS = q * FONT_WIDTH + r
  BY <1>2, DivMod
<1>4. PICK h \in Nat, e \in 0 .. (FONT_HEIGHT - 1) :
        h = HEIGHT \div FONT_HEIGHT /\ HEIGHT = h * FONT_HEIGHT + e
  BY <1>2, DivMod
<1>5. Console!cols = q /\ Console!rows = h
  BY <1>3, <1>4 DEF Console!cols, Console!rows
<1>6. q * FONT_WIDTH \in Nat /\ h * FONT_HEIGHT \in Nat
  BY <1>2
<1> QED
  BY <1>2, <1>3, <1>4, <1>5, <1>6

(* A place within n blocks of b. *)
LEMMA Within ==
  ASSUME NEW n \in Nat, NEW b \in Nat \ {0}, NEW k \in Nat, k < n, NEW r \in 0 .. (b - 1),
         NEW w, Quotient(w, b, k, r)
  PROVE  w \in 0 .. (n * b - 1)
<1>1. w = k * b + r
  BY DEF Quotient
<1>2. PICK d \in Nat \ {0} : d = n - k /\ n = k + d
  OBVIOUS
<1>3. PICK f \in Nat : f = d - 1 /\ d = f + 1
  BY <1>2
<1>4. n * b = k * b + d * b
  BY <1>2
<1>5. d * b = f * b + b
  BY <1>3
<1>6. k * b \in Nat /\ f * b \in Nat /\ d * b \in Nat /\ n * b \in Nat
  BY <1>2, <1>3
<1> QED
  BY <1>1, <1>4, <1>5, <1>6

(* The pixels of a cell lie on its line and in its column: the cells of    *)
(* two places have no pixel in common (print.c:29-31).                     *)
LEMMA CellPlace ==
  ASSUME NEW cx \in 0 .. (Console!cols - 1), NEW cy \in Nat, NEW p \in Console!Cell(cx, cy)
  PROVE  p \in Nat /\ Console!LineOf(p) = cy /\ Console!ColumnOf(p) = cx
<1>0. /\ PPS \in Nat \ {0} /\ FONT_WIDTH \in Nat \ {0} /\ FONT_HEIGHT \in Nat \ {0}
      /\ Console!cols \in Nat \ {0} /\ Console!cols * FONT_WIDTH <= PPS
  BY ConsoleAssumption
<1>1. PICK r \in 0 .. (FONT_HEIGHT - 1) : \E c \in 0 .. (FONT_WIDTH - 1) :
        p = PPS * (cy * FONT_HEIGHT + r) + cx * FONT_WIDTH + c
  BY DEF Console!Cell
<1>2. PICK c \in 0 .. (FONT_WIDTH - 1) : p = PPS * (cy * FONT_HEIGHT + r) + cx * FONT_WIDTH + c
  BY <1>1
<1>3. PICK g \in Nat : g = cy * FONT_HEIGHT + r
  BY <1>0
<1>4. PICK u \in Nat : u = cx * FONT_WIDTH + c
  BY <1>0
<1>5. PICK n \in Nat : n = Console!cols /\ cx \in Nat /\ cx < n
  BY <1>0
<1>6. u \in 0 .. (PPS - 1)
  <2>1. Quotient(u, FONT_WIDTH, cx, c)
    BY <1>4 DEF Quotient
  <2>2. u \in 0 .. (n * FONT_WIDTH - 1)
    BY <1>0, <1>5, <2>1, Within
  <2>3. n * FONT_WIDTH <= PPS /\ n * FONT_WIDTH \in Nat
    BY <1>0, <1>5
  <2> QED
    BY <1>0, <2>2, <2>3
<1>7. p = g * PPS + u
  <2>1. cx * FONT_WIDTH \in Nat
    BY <1>0, <1>5
  <2>2. PICK h \in Nat : h = g * PPS /\ h = PPS * g
    BY <1>0
  <2>3. p = h + cx * FONT_WIDTH + c
    BY <1>2, <1>3, <2>2
  <2> QED
    BY <1>4, <2>1, <2>2, <2>3
<1>8. p \in Nat /\ p \div PPS = g /\ p % PPS = u
  <2>1. Quotient(p, PPS, g, u)
    BY <1>7 DEF Quotient
  <2>2. p \div PPS = g /\ p % PPS = u
    BY <1>0, <1>6, <2>1, Euclid
  <2>3. g * PPS \in Nat
    BY <1>0
  <2> QED
    BY <1>7, <2>2, <2>3
<1>9. g \div FONT_HEIGHT = cy
  <2>1. Quotient(g, FONT_HEIGHT, cy, r)
    BY <1>3 DEF Quotient
  <2> QED
    BY <1>0, <2>1, Euclid
<1>10. u \div FONT_WIDTH = cx
  <2>1. Quotient(u, FONT_WIDTH, cx, c)
    BY <1>4 DEF Quotient
  <2> QED
    BY <1>0, <1>5, <2>1, Euclid
<1> QED
  BY <1>8, <1>9, <1>10 DEF Console!LineOf, Console!ColumnOf

(* A pixel on a line of the screen is in the framebuffer. *)
LEMMA OnScreen ==
  ASSUME NEW p \in Nat, NEW l \in Nat, l < Console!rows, Console!LineOf(p) <= l
  PROVE  p \in 0 .. (PPS * HEIGHT - 1)
<1>0. /\ PPS \in Nat \ {0} /\ FONT_HEIGHT \in Nat \ {0} /\ HEIGHT \in Nat \ {0}
      /\ Console!rows \in Nat /\ Console!rows * FONT_HEIGHT <= HEIGHT
  BY ConsoleAssumption
<1>1. PICK g \in Nat, u \in 0 .. (PPS - 1) : g = p \div PPS /\ p = g * PPS + u
  BY <1>0, DivMod
<1>2. PICK k \in Nat, r \in 0 .. (FONT_HEIGHT - 1) : k = g \div FONT_HEIGHT /\ g = k * FONT_HEIGHT + r
  BY <1>0, DivMod
<1>3. PICK n \in Nat : n = Console!rows /\ k < n
  <2>1. k = Console!LineOf(p)
    BY <1>1, <1>2 DEF Console!LineOf
  <2> QED
    BY <1>0, <2>1
<1>4. g \in Nat /\ g < HEIGHT
  <2>1. Quotient(g, FONT_HEIGHT, k, r)
    BY <1>2 DEF Quotient
  <2>2. g \in 0 .. (n * FONT_HEIGHT - 1)
    BY <1>0, <1>3, <2>1, Within
  <2>3. n * FONT_HEIGHT <= HEIGHT /\ n * FONT_HEIGHT \in Nat
    BY <1>0, <1>3
  <2> QED
    BY <1>0, <2>2, <2>3
<1>5. p \in 0 .. (HEIGHT * PPS - 1)
  <2>1. Quotient(p, PPS, g, u)
    BY <1>1 DEF Quotient
  <2> QED
    BY <1>0, <1>4, <2>1, Within
<1>6. HEIGHT * PPS = PPS * HEIGHT
  BY <1>0
<1> QED
  BY <1>5, <1>6

(* The place of what follows: one further behind a directive. *)
LEMMA OrderNext ==
  ASSUME NEW s, NEW p \in Nat \ {0}
  PROVE  /\ Console!Order(s, p) \in Nat \ {0}
         /\ Console!Directive(s, p) => Console!Order(s, p + 1) = Console!Order(s, p) + 1
         /\ ~ Console!Directive(s, p) => Console!Order(s, p + 1) = Console!Order(s, p)
<1>c. ASSUME NEW S PROVE Console!Cardinality(S) = Cardinality(S)
  BY Zenon DEF Console!Cardinality, Cardinality
<1>1. PICK A : A = {q \in 1 .. (p - 1) : Console!Directive(s, q)}
  OBVIOUS
<1>2. PICK B : B = {q \in 1 .. ((p + 1) - 1) : Console!Directive(s, q)}
  OBVIOUS
<1>3. IsFiniteSet(A) /\ Cardinality(A) \in Nat
  <2>1. PICK m \in Int : m = p - 1
    OBVIOUS
  <2>2. IsFiniteSet(1 .. m) /\ A \subseteq 1 .. m
    BY <1>1, <2>1, FS_Interval
  <2>3. IsFiniteSet(A)
    BY <2>2, FS_Subset
  <2> QED
    BY <2>3, FS_CardinalityType
<1>4. Console!Order(s, p) = 1 + Cardinality(A) /\ Console!Order(s, p + 1) = 1 + Cardinality(B)
  BY <1>1, <1>2, <1>c DEF Console!Order
<1>5. ASSUME NEW q PROVE q \in 1 .. ((p + 1) - 1) <=> (q \in 1 .. (p - 1) \/ q = p)
  OBVIOUS
<1>6. p \notin A
  BY <1>1
<1>7. CASE Console!Directive(s, p)
  <2>1. B = A \cup {p}
    BY <1>1, <1>2, <1>5, <1>7
  <2>2. Cardinality(B) = Cardinality(A) + 1
    BY <1>3, <1>6, <2>1, FS_AddElement
  <2> QED
    BY <1>3, <1>4, <1>7, <2>2
<1>8. CASE ~ Console!Directive(s, p)
  <2>1. B = A
    BY <1>1, <1>2, <1>5, <1>8
  <2> QED
    BY <1>3, <1>4, <1>8, <2>1
<1> QED
  BY <1>7, <1>8

(* The first place is the first. *)
LEMMA OrderFirst ==
  ASSUME NEW s
  PROVE  Console!Order(s, 1) = 1
<1>c. ASSUME NEW S PROVE Console!Cardinality(S) = Cardinality(S)
  BY Zenon DEF Console!Cardinality, Cardinality
<1>1. {q \in 1 .. (1 - 1) : Console!Directive(s, q)} = {}
  OBVIOUS
<1> QED
  BY <1>1, <1>c, FS_EmptySet DEF Console!Order

(* The two halves of the console's invariant: what is on the screen, and   *)
(* where kprintf is in its format.                                         *)
ScreenOK ==
  /\ v1 \in 0 .. (Console!cols - 1) /\ v2 \in Nat
  /\ v3 \subseteq Nat /\ v10 \subseteq v3
  /\ v9 \in BOOLEAN /\ v11 \in BOOLEAN
  /\ ~ v9 => ~ v11
  /\ \A p \in v3 \ v10 :
       Console!LineOf(p) <= v2 /\ (~ v9 => Console!LineOf(p) < v2 \/ Console!ColumnOf(p) < v1)

CallOK ==
  /\ v4 = << >> \/ \E call \in Calls : v4 = call.str /\ v5 = call.ap
  /\ v6 \in 1 .. (Len(v4) + 1) /\ v7 \in 1 .. (Len(v5) + 1)
  /\ v8 \in Seq(-128 .. 127)
  /\ v4 # << >> => v7 = Console!Order(v4, v6)

(* They make it up. *)
LEMMA ConsoleHalves == Console!IInv <=> ScreenOK /\ CallOK
  BY DEF Console!IInv, Console!TypeOK, Console!NoOverprint, Console!ArgumentsInOrder, Console!BeforeCursor,
         ScreenOK, CallOK

(* The screen is empty at first, and no call is active. *)
LEMMA ConsoleInit == Console!Init => Console!IInv
<1> SUFFICES ASSUME Console!Init PROVE ScreenOK /\ CallOK
  BY ConsoleHalves
<1>1. ScreenOK
  <2>1. v1 = 0 /\ v2 = 0 /\ v3 = {} /\ v9 = FALSE /\ v10 = {} /\ v11 = FALSE
    BY DEF Console!Init
  <2>2. 0 \in 0 .. (Console!cols - 1)
    BY ConsoleAssumption
  <2>3. v1 \in 0 .. (Console!cols - 1) /\ v2 \in Nat
    BY <2>1, <2>2
  <2>4. v9 \in BOOLEAN /\ v11 \in BOOLEAN /\ ~ v11
    BY <2>1, Zenon
  <2>5. v3 \subseteq Nat /\ v10 \subseteq v3 /\ v3 \ v10 = {}
    BY <2>1
  <2> QED
    BY <2>3, <2>4, <2>5, Zenon DEF ScreenOK
<1>2. CallOK
  BY DEF Console!Init, CallOK
<1> QED
  BY <1>1, <1>2

(* What draws nothing leaves the screen as it is. *)
LEMMA ScreenKept ==
  ASSUME ScreenOK, UNCHANGED <<v1, v2, v3, v9, v10, v11>>
  PROVE  ScreenOK'
  BY DEF ScreenOK

(* What is between calls, or only prints, leaves kprintf where it is. *)
LEMMA CallKept ==
  ASSUME CallOK, UNCHANGED <<v4, v5, v6, v7>>, v8' \in Seq(-128 .. 127)
  PROVE  CallOK'
  BY DEF CallOK

(* A call starts at the first place of its format. *)
LEMMA ConsoleKprintf ==
  ASSUME CallOK, NEW call \in Calls, Console!Kprintf(call)
  PROVE  CallOK'
<1>1. /\ v4' = call.str /\ v5' = call.ap /\ v6' = 1 /\ v7' = 1 /\ v8' = v8
  BY DEF Console!Kprintf
<1>2. call.str \in Seq(-128 .. 127) /\ call.ap \in Seq(Seq(Int))
  BY ConsoleAssumption DEF Console!WellFormed
<1>3. Len(v4') \in Nat /\ Len(v5') \in Nat
  BY <1>1, <1>2
<1>4. v8 \in Seq(-128 .. 127)
  BY DEF CallOK
<1>5. v7' = Console!Order(v4', v6')
  BY <1>1, OrderFirst
<1> QED
  BY <1>1, <1>3, <1>4, <1>5 DEF CallOK

(* kprintf returns. *)
LEMMA ConsoleReturn ==
  ASSUME CallOK, Console!Return
  PROVE  CallOK'
<1>1. v4' = << >> /\ v5' = << >> /\ v6' = 1 /\ v7' = 1 /\ v8' = v8
  BY DEF Console!Return
<1>2. v8 \in Seq(-128 .. 127)
  BY DEF CallOK
<1> QED
  BY <1>1, <1>2 DEF CallOK

(* What a directive prints is characters: a string that the caller gave,   *)
(* or the digits of a number.                                              *)
LEMMA ArgumentType ==
  ASSUME NEW call \in Calls, v4 = call.str, v5 = call.ap, NEW p \in 1 .. Len(v4), Console!Directive(v4, p),
         v7 = Console!Order(v4, p)
  PROVE  v7 \in 1 .. Len(v5) /\ Console!Argument(v4[p + 1]) \in Seq(-128 .. 127)
<1>1. Console!WellFormed(call)
  BY ConsoleAssumption
<1>2. v4 \in Seq(-128 .. 127) /\ v5 \in Seq(Seq(Int))
  BY <1>1 DEF Console!WellFormed
<1>3. p \in DOMAIN v4
  BY <1>2
<1>4. /\ v7 \in DOMAIN v5
      /\ IF v4[p + 1] = 115 THEN v5[v7] \in Seq(-128 .. 127) ELSE v5[v7] # << >>
  BY <1>1, <1>3 DEF Console!WellFormed
<1>5. v7 \in 1 .. Len(v5) /\ v5[v7] \in Seq(Int)
  BY <1>2, <1>4, SMTT(20)
<1>6. PICK c : c = v4[p + 1] /\ c \in {100, 115, 120}
  BY DEF Console!Directive
<1>7. CASE c = 115
  <2>1. Console!Argument(c) = v5[v7]
    BY <1>7 DEF Console!Argument
  <2> QED
    BY <1>4, <1>5, <1>6, <1>7, <2>1
<1>8. CASE c # 115
  <2>1. PICK m \in Int : m = v5[v7][1]
    BY <1>4, <1>5, <1>6, <1>8
  <2>2. M \in Nat \ {0}
    BY FormatAssumption
  <2>3. PICK k \in 0 .. (M - 1) : k = m % M
    BY <2>1, <2>2
  <2>4. CASE c = 100
    <3>1. Console!Argument(c) = Console!itoa(k)
      BY <2>1, <2>3, <2>4 DEF Console!Argument
    <3>2. PICK L \in Nat \ {0} : DecimalString(Console!itoa(k), L)
      BY ItoaCorrect
    <3>3. Console!itoa(k) \in [1 .. L -> 48 .. 57]
      BY <3>2 DEF DecimalString
    <3>4. Console!itoa(k) \in Seq(-128 .. 127)
      BY <3>3
    <3> QED
      BY <1>5, <1>6, <3>1, <3>4
  <2>5. CASE c = 120
    <3>1. Console!Argument(c) = Console!hex(k)
      BY <2>1, <2>3, <2>5 DEF Console!Argument
    <3>2. Console!hex(k) \in [1 .. HEXD -> 48 .. 70] /\ HEXD \in Nat
      BY HexCorrect, FormatAssumption DEF HexString
    <3>3. Console!hex(k) \in Seq(-128 .. 127)
      BY <3>2
    <3> QED
      BY <1>5, <1>6, <3>1, <3>3
  <2> QED
    BY <1>6, <1>8, <2>4, <2>5
<1> QED
  BY <1>7, <1>8

(* kprintf goes on in its format, with the argument that the next          *)
(* directive stands for.                                                   *)
LEMMA ConsoleScan ==
  ASSUME CallOK, Console!Scan
  PROVE  CallOK'
<1>1. v4 # << >> /\ v6 <= Len(v4) /\ UNCHANGED <<v4, v5>>
  BY DEF Console!Scan
<1>2. PICK call \in Calls : v4 = call.str /\ v5 = call.ap
  BY <1>1 DEF CallOK
<1>3. v4 \in Seq(-128 .. 127) /\ v5 \in Seq(Seq(Int)) /\ Len(v4) \in Nat /\ Len(v5) \in Nat
  BY <1>2, ConsoleAssumption DEF Console!WellFormed
<1>4. v6 \in 1 .. Len(v4) /\ v6 \in Nat \ {0}
  BY <1>1, <1>3 DEF CallOK
<1>5. v7 = Console!Order(v4, v6) /\ v7 \in 1 .. (Len(v5) + 1) /\ v7 \in Nat \ {0}
  BY <1>1, <1>3 DEF CallOK
<1>6. CASE Console!Directive(v4, v6)
  <2>1. v8' = Console!Argument(v4[v6 + 1]) /\ v7' = v7 + 1 /\ v6' = v6 + 2
    BY <1>6 DEF Console!Scan
  <2>2. v7 \in 1 .. Len(v5) /\ Console!Argument(v4[v6 + 1]) \in Seq(-128 .. 127)
    BY <1>2, <1>4, <1>5, <1>6, ArgumentType
  <2>3. v6 < Len(v4) /\ v4[v6 + 1] \in {100, 115, 120}
    BY <1>6 DEF Console!Directive
  <2>4. PICK n \in Nat \ {0} : n = v6 + 1 /\ n + 1 = v6 + 2
    BY <1>4
  <2>5. ~ Console!Directive(v4, n)
    BY <2>3, <2>4 DEF Console!Directive
  <2>6. Console!Order(v4, n) = v7 + 1
    BY <1>4, <1>5, <1>6, <2>4, OrderNext
  <2>7. Console!Order(v4, n + 1) = v7 + 1
    BY <2>5, <2>6, OrderNext
  <2>8. v7' = Console!Order(v4', v6')
    BY <1>1, <2>1, <2>4, <2>7
  <2>9. v6' \in 1 .. (Len(v4') + 1) /\ v7' \in 1 .. (Len(v5') + 1)
    BY <1>1, <1>3, <1>4, <2>1, <2>2, <2>3
  <2> QED
    BY <1>1, <1>2, <2>1, <2>2, <2>8, <2>9 DEF CallOK
<1>7. CASE ~ Console!Directive(v4, v6)
  <2>1. v8' = (IF v4[v6] = 37 THEN << >> ELSE <<v4[v6]>>) /\ v7' = v7 /\ v6' = v6 + 1
    BY <1>7 DEF Console!Scan
  <2>2. v4[v6] \in -128 .. 127
    BY <1>3, <1>4, ElementOfSeq
  <2>3. v8' \in Seq(-128 .. 127)
    <3>1. PICK C : C = -128 .. 127
      OBVIOUS
    <3>2. PICK e : e = v4[v6] /\ e \in C
      BY <2>2, <3>1
    <3>3. << >> \in Seq(C) /\ <<e>> \in Seq(C)
      BY <3>2
    <3>4. v8' \in Seq(C)
      BY <2>1, <3>2, <3>3
    <3> QED
      BY <3>1, <3>4
  <2>4. Console!Order(v4, v6 + 1) = v7
    BY <1>4, <1>5, <1>7, OrderNext
  <2>5. v7' = Console!Order(v4', v6')
    BY <1>1, <2>1, <2>4
  <2>6. v6' \in 1 .. (Len(v4') + 1) /\ v7' \in 1 .. (Len(v5') + 1)
    BY <1>1, <1>3, <1>4, <1>5, <2>1
  <2> QED
    BY <1>1, <1>2, <2>3, <2>5, <2>6 DEF CallOK
<1> QED
  BY <1>6, <1>7

(* A pixel is on a line and in a column. *)
LEMMA PlaceType ==
  ASSUME NEW p \in Nat
  PROVE  Console!LineOf(p) \in Nat /\ Console!ColumnOf(p) \in Nat
<1>1. PICK g \in Nat, u \in Nat : g = p \div PPS /\ u = p % PPS
  BY ConsoleAssumption
<1>2. g \div FONT_HEIGHT \in Nat /\ u \div FONT_WIDTH \in Nat
  BY ConsoleAssumption
<1> QED
  BY <1>1, <1>2 DEF Console!LineOf, Console!ColumnOf

(* The cursor moves on to the next cell (print.c:33-38). *)
LEMMA NextCell ==
  ASSUME v1 \in 0 .. (Console!cols - 1), v2 \in Nat, Console!Advance
  PROVE  /\ v1' \in 0 .. (Console!cols - 1) /\ v2' \in Nat
         /\ (v2' = v2 /\ v1' = v1 + 1) \/ v2' = v2 + 1
<1>1. PICK n \in Nat \ {0} : n = Console!cols
  BY ConsoleAssumption
<1>2. CASE v1 + 1 >= n
  <2>1. v1' = v1 + 1 - n /\ v2' = v2 + 1
    BY <1>1, <1>2 DEF Console!Advance
  <2> QED
    BY <1>1, <1>2, <2>1
<1>3. CASE ~ (v1 + 1 >= n)
  <2>1. v1' = v1 + 1 /\ v2' = v2
    BY <1>1, <1>3 DEF Console!Advance
  <2> QED
    BY <1>1, <1>3, <2>1
<1> QED
  BY <1>2, <1>3

(* A glyph is drawn into a cell of its own, and the cursor leaves it       *)
(* behind.                                                                 *)
LEMMA ConsoleDraw ==
  ASSUME ScreenOK, NEW rest, Console!Draw(rest)
  PROVE  ScreenOK'
<1>1. PICK C : C = Console!Cell(v1, v2)
  OBVIOUS
<1>2. /\ v3' = v3 \cup C /\ v11' = (v11 \/ (C \cap (v3 \ v10) # {})) /\ v10' = v10 \ C
      /\ Console!Advance /\ v9' = v9
  BY <1>1 DEF Console!Draw
<1>3. /\ v1 \in 0 .. (Console!cols - 1) /\ v2 \in Nat /\ v3 \subseteq Nat /\ v10 \subseteq v3
      /\ v9 \in BOOLEAN /\ v11 \in BOOLEAN /\ (~ v9 => ~ v11)
  BY DEF ScreenOK
<1>4. ASSUME NEW p \in v3 \ v10
      PROVE  Console!LineOf(p) <= v2 /\ (~ v9 => Console!LineOf(p) < v2 \/ Console!ColumnOf(p) < v1)
  BY DEF ScreenOK
<1>5. /\ v1' \in 0 .. (Console!cols - 1) /\ v2' \in Nat
      /\ (v2' = v2 /\ v1' = v1 + 1) \/ v2' = v2 + 1
  BY <1>2, <1>3, NextCell
<1>6. ASSUME NEW p \in C PROVE p \in Nat /\ Console!LineOf(p) = v2 /\ Console!ColumnOf(p) = v1
  BY <1>1, <1>3, CellPlace
<1>7. ~ v9 => C \cap (v3 \ v10) = {}
  <2> SUFFICES ASSUME ~ v9, NEW p \in C, p \in v3 \ v10 PROVE FALSE
    OBVIOUS
  <2>1. PICK l, k : l = Console!LineOf(p) /\ k = Console!ColumnOf(p)
    OBVIOUS
  <2>2. l = v2 /\ k = v1
    BY <1>6, <2>1
  <2>3. l < v2 \/ k < v1
    BY <1>4, <2>1
  <2> QED
    BY <1>3, <2>2, <2>3
<1>8. v11' \in BOOLEAN /\ v9' \in BOOLEAN
  BY <1>2, <1>3, Zenon
<1>9. ~ v9' => ~ v11'
  BY <1>2, <1>3, <1>7, Zenon
<1>10. v3' \subseteq Nat /\ v10' \subseteq v3'
  BY <1>2, <1>3, <1>6
<1>11. ASSUME NEW p \in v3' \ v10'
       PROVE  Console!LineOf(p) <= v2' /\ (~ v9' => Console!LineOf(p) < v2' \/ Console!ColumnOf(p) < v1')
  <2>1. PICK l \in Nat : l = Console!LineOf(p)
    BY <1>10, PlaceType
  <2>2. PICK k \in Nat : k = Console!ColumnOf(p)
    BY <1>10, PlaceType
  <2>3. l <= v2 /\ (~ v9' => l < v2 \/ k < v1 + 1)
    <3>1. CASE p \in C
      <4>1. l = v2 /\ k = v1
        BY <1>6, <2>1, <2>2, <3>1
      <4> QED
        BY <1>3, <4>1
    <3>2. CASE p \notin C
      <4>1. p \in v3 \ v10
        BY <1>2, <3>2
      <4>2. l <= v2 /\ (~ v9 => l < v2 \/ k < v1)
        BY <1>4, <2>1, <2>2, <4>1
      <4>3. k < v1 => k < v1 + 1
        BY <1>3
      <4>4. ~ v9' => ~ v9
        BY <1>2, Zenon
      <4> QED
        BY <4>2, <4>3, <4>4, Zenon
    <3> QED
      BY <3>1, <3>2
  <2>4. l <= v2'
    BY <1>3, <1>5, <2>3
  <2>5. (l < v2 \/ k < v1 + 1) => (l < v2' \/ k < v1')
    BY <1>3, <1>5, <2>3
  <2>6. ~ v9' => l < v2' \/ k < v1'
    BY <2>3, <2>5, Zenon
  <2> QED
    BY <2>1, <2>2, <2>4, <2>6, Zenon
<1> QED
  BY <1>5, <1>8, <1>9, <1>10, <1>11, Zenon DEF ScreenOK

(* A line end leaves every glyph above the cursor. *)
LEMMA ConsoleNewline ==
  ASSUME ScreenOK, v2' = v2 + 1, v1' = 0, UNCHANGED <<v3, v9, v10, v11>>
  PROVE  ScreenOK'
<1>1. /\ v2 \in Nat /\ v3 \subseteq Nat /\ v10 \subseteq v3
      /\ v9 \in BOOLEAN /\ v11 \in BOOLEAN /\ (~ v9 => ~ v11)
  BY DEF ScreenOK
<1>2. ASSUME NEW p \in v3' \ v10'
      PROVE  Console!LineOf(p) <= v2' /\ Console!LineOf(p) < v2'
  <2>1. PICK l \in Nat : l = Console!LineOf(p)
    BY <1>1, PlaceType
  <2>2. l <= v2
    BY <2>1 DEF ScreenOK
  <2>3. l <= v2' /\ l < v2'
    BY <1>1, <2>2
  <2> QED
    BY <2>1, <2>3, Zenon
<1>3. v1' \in 0 .. (Console!cols - 1) /\ v2' \in Nat
  <2>1. 0 \in 0 .. (Console!cols - 1)
    BY ConsoleAssumption
  <2> QED
    BY <1>1, <2>1
<1>4. v3' \subseteq Nat /\ v10' \subseteq v3' /\ v9' \in BOOLEAN /\ v11' \in BOOLEAN /\ (~ v9' => ~ v11')
  BY <1>1, Zenon
<1> QED
  BY <1>2, <1>3, <1>4, Zenon DEF ScreenOK

(* A carriage return leaves them on its line or above. *)
LEMMA ConsoleCarriage ==
  ASSUME ScreenOK, v1' = 0, v9' = TRUE, UNCHANGED <<v2, v3, v10, v11>>
  PROVE  ScreenOK'
<1>1. /\ v2 \in Nat /\ v3 \subseteq Nat /\ v10 \subseteq v3 /\ v11 \in BOOLEAN
      /\ \A p \in v3 \ v10 : Console!LineOf(p) <= v2
  BY DEF ScreenOK
<1>2. v1' \in 0 .. (Console!cols - 1)
  <2>1. 0 \in 0 .. (Console!cols - 1)
    BY ConsoleAssumption
  <2> QED
    BY <2>1
<1>3. v9' \in BOOLEAN /\ v9'
  BY Zenon
<1>4. v2' \in Nat /\ v3' \subseteq Nat /\ v10' \subseteq v3' /\ v11' \in BOOLEAN /\ v3' \ v10' = v3 \ v10
  BY <1>1, Zenon
<1>5. \A p \in v3' \ v10' : Console!LineOf(p) <= v2'
  BY <1>1, <1>4, Zenon
<1> QED
  BY <1>2, <1>3, <1>4, <1>5, Zenon DEF ScreenOK

(* After a clear nothing is left that should be there. *)
LEMMA ConsoleClear ==
  ASSUME ScreenOK, v3' \subseteq v3, v10' = v3', v1' = 0, v2' \in {0, v2}, UNCHANGED <<v9, v11>>
  PROVE  ScreenOK'
<1>1. /\ v2 \in Nat /\ v3 \subseteq Nat
      /\ v9 \in BOOLEAN /\ v11 \in BOOLEAN /\ (~ v9 => ~ v11)
  BY DEF ScreenOK
<1>2. v1' \in 0 .. (Console!cols - 1)
  <2>1. 0 \in 0 .. (Console!cols - 1)
    BY ConsoleAssumption
  <2> QED
    BY <2>1
<1>3. v2' \in Nat /\ v3' \subseteq Nat /\ v10' \subseteq v3' /\ v3' \ v10' = {}
  BY <1>1
<1>4. v9' \in BOOLEAN /\ v11' \in BOOLEAN /\ (~ v9' => ~ v11')
  BY <1>1, Zenon
<1> QED
  BY <1>2, <1>3, <1>4, Zenon DEF ScreenOK

(* kputc keeps both halves. *)
LEMMA ConsoleKputc ==
  ASSUME ScreenOK, CallOK, Console!Kputc
  PROVE  ScreenOK' /\ CallOK'
<1>0. UNCHANGED <<v4, v5, v6, v7>> /\ v8 # << >> /\ v8 \in Seq(-128 .. 127)
  BY DEF Console!Kputc, CallOK
<1>1. PICK ch : ch = Head(v8)
  OBVIOUS
<1>2. PICK rest : rest = Tail(v8) /\ rest \in Seq(-128 .. 127)
  BY <1>0, HeadTailProperties
<1>3. CASE ch = 10 /\ v2' = v2 + 1 /\ v1' = 0 /\ v8' = rest /\ UNCHANGED <<v3, v9, v10, v11>>
  BY <1>0, <1>2, <1>3, CallKept, ConsoleNewline
<1>4. CASE ch = 13 /\ v1' = 0 /\ v8' = rest /\ v9' = TRUE /\ UNCHANGED <<v2, v3, v10, v11>>
  BY <1>0, <1>2, <1>4, CallKept, ConsoleCarriage
<1>5. CASE ch = 9 /\ Console!Tab(rest)
  <2>1. v8' = <<32, 32, 32, 32>> \o rest /\ UNCHANGED <<v1, v2, v3, v9, v10, v11>>
    BY <1>5 DEF Console!Tab
  <2>2. PICK C : C = -128 .. 127
    OBVIOUS
  <2>3. 32 \in C
    BY <2>2
  <2>4. <<32, 32, 32, 32>> \in Seq(C) /\ rest \in Seq(C)
    BY <1>2, <2>2, <2>3
  <2>5. v8' \in Seq(C)
    BY <2>1, <2>4
  <2> QED
    BY <1>0, <2>1, <2>2, <2>5, CallKept, ScreenKept
<1>6. CASE Console!HasGlyph(ch) /\ Console!Draw(rest)
  <2>1. v8' = rest
    BY <1>6 DEF Console!Draw
  <2> QED
    BY <1>0, <1>2, <1>6, <2>1, CallKept, ConsoleDraw
<1>7. CASE v8' = rest /\ UNCHANGED <<v1, v2, v3, v9, v10, v11>>
  BY <1>0, <1>2, <1>7, CallKept, ScreenKept
<1> QED
  BY <1>1, <1>2, <1>3, <1>4, <1>5, <1>6, <1>7 DEF Console!Kputc

(* Every step of the console keeps its invariant. *)
LEMMA ConsoleNext == Console!IInv /\ [Console!Next]_(Console!vars) => Console!IInv'
<1> SUFFICES ASSUME ScreenOK, CallOK, [Console!Next]_(Console!vars) PROVE ScreenOK' /\ CallOK'
  BY ConsoleHalves, PTL
<1>0. v8 \in Seq(-128 .. 127)
  BY DEF CallOK
<1>1. CASE UNCHANGED Console!vars
  <2>1. UNCHANGED <<v1, v2, v3, v4, v5, v6, v7, v8, v9, v10, v11>>
    BY <1>1 DEF Console!vars
  <2> QED
    BY <1>0, <2>1, ScreenKept, CallKept
<1>2. ASSUME NEW call \in Calls, Console!Kprintf(call) PROVE ScreenOK' /\ CallOK'
  <2>1. UNCHANGED <<v1, v2, v3, v9, v10, v11>>
    BY <1>2 DEF Console!Kprintf
  <2> QED
    BY <1>2, <2>1, ScreenKept, ConsoleKprintf
<1>3. CASE Console!Scan
  <2>1. UNCHANGED <<v1, v2, v3, v9, v10, v11>>
    BY <1>3 DEF Console!Scan
  <2> QED
    BY <1>3, <2>1, ScreenKept, ConsoleScan
<1>4. CASE Console!Return
  <2>1. UNCHANGED <<v1, v2, v3, v9, v10, v11>>
    BY <1>4 DEF Console!Return
  <2> QED
    BY <1>4, <2>1, ScreenKept, ConsoleReturn
<1>5. CASE Console!Kputc
  BY <1>5, ConsoleKputc
<1>6. CASE Console!ClearLine \/ Console!ClearScreen
  <2>1. PICK bytes : Console!Clear(bytes) /\ v1' = 0 /\ v2' \in {0, v2}
    BY <1>6 DEF Console!ClearLine, Console!ClearScreen
  <2>2. v3' = v3 \ Console!Covered(bytes) /\ v10' = v3' /\ UNCHANGED <<v4, v5, v6, v7, v8, v9, v11>>
    BY <2>1 DEF Console!Clear
  <2>3. v3' \subseteq v3
    BY <2>2
  <2>4. ScreenOK'
    BY <2>1, <2>2, <2>3, ConsoleClear
  <2>5. CallOK'
    BY <1>0, <2>2, CallKept
  <2> QED
    BY <2>4, <2>5
<1> QED
  BY <1>1, <1>2, <1>3, <1>4, <1>5, <1>6 DEF Console!Next, Console!Printing, Console!Full

(* What the invariant says of the console. *)
LEMMA ConsoleProperties ==
  ASSUME Console!IInv
  PROVE  Console!TypeOK /\ Console!NoOverprint /\ Console!InsideFramebuffer /\ Console!ArgumentsInOrder
<1>1. Console!TypeOK /\ Console!NoOverprint /\ Console!ArgumentsInOrder
  BY DEF Console!IInv
<1>2. Console!InsideFramebuffer
  <2>1. v2 \in Nat /\ v3 \subseteq Nat /\ \A p \in v3 \ v10 : Console!LineOf(p) <= v2
    BY ConsoleHalves DEF ScreenOK
  <2>2. ASSUME v2 < Console!rows, NEW p \in v3 \ v10 PROVE p \in 0 .. (PPS * HEIGHT - 1)
    BY <2>1, <2>2, OnScreen
  <2> QED
    BY <2>2 DEF Console!InsideFramebuffer
<1> QED
  BY <1>1, <1>2

-----------------------------------------------------------------------------
(* The part that a behaviour is of keeps its invariant. *)
TablesIInv ==
  /\ part = "acpi" => Acpi!IInv
  /\ part = "pcie" => Pcie!IInv

(* What the kernel makes of the ACPI tables is right, for every XSDT and   *)
(* MCFG, every rate and every state of the timer channel.                  *)
THEOREM TablesRead == ServicesSpec => []AcpiSound
<1>1. ServicesInit => TablesIInv
  <2> SUFFICES ASSUME ServicesInit PROVE TablesIInv
    OBVIOUS
  <2>1. ASSUME part = "acpi" PROVE Acpi!IInv
    BY <2>1, AcpiInit DEF ServicesInit
  <2>2. ASSUME part = "pcie" PROVE Pcie!IInv
    BY <2>2, PcieInit DEF ServicesInit
  <2> QED
    BY <2>1, <2>2 DEF TablesIInv
<1>2. TablesIInv /\ [ServicesNext]_all => TablesIInv'
  <2> SUFFICES ASSUME TablesIInv, [ServicesNext]_all PROVE TablesIInv'
    OBVIOUS
  <2>1. ASSUME part' = "acpi" PROVE Acpi!IInv'
    <3>1. CASE AcpiStep
      BY <2>1, <3>1, AcpiNext DEF TablesIInv, AcpiStep
    <3>2. CASE UNCHANGED all
      BY <2>1, <3>2, AcpiNext DEF TablesIInv, all, slots, Acpi!vars
    <3> QED
      BY <2>1, <3>1, <3>2 DEF ServicesNext, NvmeStep, PcieStep, ConsoleStep, FormatStep, LibcStep, SyscallStep
  <2>2. ASSUME part' = "pcie" PROVE Pcie!IInv'
    <3>1. CASE PcieStep
      BY <2>2, <3>1, PcieNext DEF TablesIInv, PcieStep
    <3>2. CASE UNCHANGED all
      BY <2>2, <3>2, PcieNext DEF TablesIInv, all, slots, Pcie!vars
    <3> QED
      BY <2>2, <3>1, <3>2 DEF ServicesNext, NvmeStep, AcpiStep, ConsoleStep, FormatStep, LibcStep, SyscallStep
  <2> QED
    BY <2>1, <2>2 DEF TablesIInv
<1>3. TablesIInv => AcpiSound
  BY AcpiProperties, PcieProperties DEF TablesIInv, AcpiSound
<1> QED
  BY <1>1, <1>2, <1>3, PTL DEF ServicesSpec

(* What the library and its conversions keep; the numbers that Format      *)
(* converts are those below M.                                             *)
LibraryIInv ==
  /\ part = "format" => v1 \in 0 .. (M - 1)
  /\ part = "libc" => Libc!IInv

(* The conversions are exact but for the first of D digits, whatever the   *)
(* width of a word, and strncmp and the character classes are what their   *)
(* names say, for every length and every alphabet.                         *)
THEOREM LibraryExact == ServicesSpec => []LibrarySound
<1>0. M \in Nat \ {0}
  BY FormatAssumption
<1>1. ServicesInit => LibraryIInv
  <2> SUFFICES ASSUME ServicesInit PROVE LibraryIInv
    OBVIOUS
  <2>1. ASSUME part = "format" PROVE v1 \in 0 .. (M - 1)
    BY <1>0, <2>1 DEF ServicesInit, Unused
  <2>2. ASSUME part = "libc" PROVE Libc!IInv
    BY <2>2, LibcInit DEF ServicesInit
  <2> QED
    BY <2>1, <2>2 DEF LibraryIInv
<1>2. LibraryIInv /\ [ServicesNext]_all => LibraryIInv'
  <2> SUFFICES ASSUME LibraryIInv, [ServicesNext]_all PROVE LibraryIInv'
    OBVIOUS
  <2>1. ASSUME part' = "format" PROVE v1' \in 0 .. (M - 1)
    <3>1. CASE FormatStep
      BY <1>0, <2>1, <3>1 DEF LibraryIInv, FormatStep
    <3>2. CASE UNCHANGED all
      BY <2>1, <3>2 DEF LibraryIInv, all, slots
    <3> QED
      BY <2>1, <3>1, <3>2 DEF ServicesNext, NvmeStep, AcpiStep, PcieStep, ConsoleStep, LibcStep, SyscallStep
  <2>2. ASSUME part' = "libc" PROVE Libc!IInv'
    <3>1. CASE LibcStep
      BY <2>2, <3>1, LibcNext DEF LibraryIInv, LibcStep
    <3>2. CASE UNCHANGED all
      BY <2>2, <3>2, LibcNext DEF LibraryIInv, all, slots, Libc!vars
    <3> QED
      BY <2>2, <3>1, <3>2 DEF ServicesNext, NvmeStep, AcpiStep, PcieStep, ConsoleStep, FormatStep, SyscallStep
  <2> QED
    BY <2>1, <2>2 DEF LibraryIInv
<1>3. LibraryIInv => LibrarySound
  BY ItoaCorrect, HexCorrect, LibcProperties DEF LibraryIInv, LibrarySound
<1> QED
  BY <1>1, <1>2, <1>3, PTL DEF ServicesSpec

(* What the system call entry keeps. *)
HandlerIInv == part = "syscall" => Syscall!IInv

(* A system call runs with interrupts off in the kernel's segments and     *)
(* gives the program its flags back, whatever the firmware left in the     *)
(* MSRs and whatever registers the compiler takes for the handler.         *)
THEOREM HandlerEntered == ServicesSpec => []HandlerSound
<1>1. ServicesInit => HandlerIInv
  BY SyscallInit DEF ServicesInit, HandlerIInv
<1>2. HandlerIInv /\ [ServicesNext]_all => HandlerIInv'
  <2> SUFFICES ASSUME HandlerIInv, [ServicesNext]_all, part' = "syscall" PROVE Syscall!IInv'
    BY DEF HandlerIInv
  <2>1. CASE SyscallStep
    BY <2>1, SyscallNext DEF HandlerIInv, SyscallStep
  <2>2. CASE UNCHANGED all
    BY <2>2, SyscallNext DEF HandlerIInv, all, slots, Syscall!vars
  <2> QED
    BY <2>1, <2>2 DEF ServicesNext, NvmeStep, AcpiStep, PcieStep, ConsoleStep, FormatStep, LibcStep
<1>3. HandlerIInv => HandlerSound
  BY SyscallProperties DEF HandlerIInv, HandlerSound
<1> QED
  BY <1>1, <1>2, <1>3, PTL DEF ServicesSpec

(* What the console keeps, among the parts. *)
ConsoleIInv == part = "console" => Console!IInv

(* Text is drawn in cells of its own and inside the framebuffer, on every  *)
(* screen and for every sequence of well-formed calls.                     *)
THEOREM TextDrawn == ServicesSpec => []ConsoleSound
<1>1. ServicesInit => ConsoleIInv
  BY ConsoleInit DEF ServicesInit, ConsoleIInv
<1>2. ConsoleIInv /\ [ServicesNext]_all => ConsoleIInv'
  <2> SUFFICES ASSUME ConsoleIInv, [ServicesNext]_all, part' = "console" PROVE Console!IInv'
    BY DEF ConsoleIInv
  <2>1. CASE ConsoleStep
    BY <2>1, ConsoleNext DEF ConsoleIInv, ConsoleStep
  <2>2. CASE UNCHANGED all
    BY <2>2, ConsoleNext DEF ConsoleIInv, all, slots, Console!vars
  <2> QED
    BY <2>1, <2>2 DEF ServicesNext, NvmeStep, AcpiStep, PcieStep, FormatStep, LibcStep, SyscallStep
<1>3. ConsoleIInv => ConsoleSound
  BY ConsoleProperties DEF ConsoleIInv, ConsoleSound
<1> QED
  BY <1>1, <1>2, <1>3, PTL DEF ServicesSpec
=============================================================================
