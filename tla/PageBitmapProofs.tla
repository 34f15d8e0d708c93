-------------------------- MODULE PageBitmapProofs --------------------------
(***************************************************************************)
(* Facts about the operators of PageBitmap, for every memory size, byte    *)
(* width and address space, that the proofs about the modules built on the *)
(* bitmap share.                                                           *)
(***************************************************************************)
EXTENDS PageBitmap, FiniteSetTheorems, WellFoundedInduction, TLAPS

-----------------------------------------------------------------------------
(* Arithmetic modulo the address space. *)

(* The bitmap is smaller than the address space. *)
LEMMA SizeModPos == SIZE_MOD \in Nat \ {0} /\ NBits \in Nat /\ NBits < SIZE_MOD
<1>1. TotalPages \div BITS \in Nat
  BY TotalPagesAssumption, BITSAssumption
<1>2. NBits \in Nat
  BY <1>1, BITSAssumption DEF NBits, size
<1> QED
  BY <1>2, SizeModAssumption

(* size covers all of memory: kernel.c:55 rounds up, never down. *)
LEMMA TotalLtMod == TotalPages < NBits /\ TotalPages < SIZE_MOD
<1> DEFINE d == TotalPages \div BITS
<1>1. d \in Nat /\ TotalPages < d * BITS + BITS
  BY TotalPagesAssumption, BITSAssumption
<1> HIDE DEF d
<1>2. (d + 1) * BITS = d * BITS + BITS
  BY <1>1, BITSAssumption
<1>3. TotalPages < NBits
  BY <1>1, <1>2 DEF NBits, size, d
<1> QED
  BY <1>3, SizeModPos, TotalPagesAssumption

(* x % M for x in the first, the second and the third multiple of M. *)
LEMMA ModFirst ==
  ASSUME NEW M \in Nat \ {0}, NEW x \in 0 .. (M - 1)
  PROVE  x % M = x
  OBVIOUS

(* The remainder of a number in the second lap. *)
LEMMA ModSecond ==
  ASSUME NEW M \in Nat \ {0}, NEW x \in M .. (2 * M - 1)
  PROVE  x % M = x - M
  OBVIOUS

(* And in the third. *)
LEMMA ModThird ==
  ASSUME NEW M \in Nat \ {0}, NEW x \in Nat, x >= 2 * M, x < 3 * M
  PROVE  x % M = x - 2 * M
  OBVIOUS

(* A size_t counter goes up and down within its range. *)
LEMMA IncDec ==
  ASSUME NEW x \in Pages
  PROVE  /\ Inc(x) \in Pages
         /\ Dec(x) \in Pages
         /\ Inc(x) = IF x = SIZE_MOD - 1 THEN 0 ELSE x + 1
         /\ Dec(x) = IF x = 0 THEN SIZE_MOD - 1 ELSE x - 1
  BY SizeModPos DEF Inc, Dec, Pages

(* Sums of two and of three values below SIZE_MOD. *)
LEMMA Mod2 ==
  ASSUME NEW x \in Nat, x < 2 * SIZE_MOD
  PROVE  x % SIZE_MOD = IF x < SIZE_MOD THEN x ELSE x - SIZE_MOD
  BY SizeModPos, ModFirst, ModSecond

(* The remainder of a sum of three counters, lap by lap. *)
LEMMA Mod3 ==
  ASSUME NEW x \in Nat, x < 3 * SIZE_MOD
  PROVE  x % SIZE_MOD = IF x < SIZE_MOD THEN x
                        ELSE IF x < 2 * SIZE_MOD THEN x - SIZE_MOD
                        ELSE x - 2 * SIZE_MOD
<1>1. CASE x < SIZE_MOD
  BY <1>1, SizeModPos, ModFirst
<1>2. CASE ~ (x < SIZE_MOD) /\ x < 2 * SIZE_MOD
  BY <1>2, SizeModPos, ModSecond
<1>3. CASE ~ (x < 2 * SIZE_MOD)
  BY <1>3, SizeModPos, ModThird
<1> QED
  BY <1>1, <1>2, <1>3, SizeModPos

(* Moving a page from one counter to another keeps the sum of the three. *)
LEMMA MoveKeepsSum ==
  ASSUME NEW a \in Pages, NEW b \in Pages, NEW c \in Pages
  PROVE  (Dec(a) + Inc(b) + c) % SIZE_MOD = (a + b + c) % SIZE_MOD
<1> DEFINE x == Dec(a) + Inc(b) + c
           y == a + b + c
<1>1. /\ x \in Nat /\ x < 3 * SIZE_MOD
      /\ y \in Nat /\ y < 3 * SIZE_MOD
  BY IncDec, SizeModPos DEF Pages
<1>2. x = y \/ x = y - SIZE_MOD \/ x = y + SIZE_MOD
  <2>1. Dec(a) = IF a = 0 THEN SIZE_MOD - 1 ELSE a - 1
    BY IncDec
  <2>2. Inc(b) = IF b = SIZE_MOD - 1 THEN 0 ELSE b + 1
    BY IncDec
  <2> QED
    BY <2>1, <2>2, SizeModPos DEF Pages
<1> HIDE DEF x, y
<1>3. x % SIZE_MOD = y % SIZE_MOD
  BY <1>1, <1>2, Mod3, SizeModPos
<1> QED
  BY <1>3 DEF x, y

(* Counting one page more, or less, in one of two counters. *)
LEMMA SumInc ==
  ASSUME NEW a \in Pages, NEW b \in Pages
  PROVE  (Inc(a) + b) % SIZE_MOD = Inc((a + b) % SIZE_MOD)
<1> DEFINE x == Inc(a) + b
           y == a + b
<1>1. x \in Nat /\ x < 2 * SIZE_MOD /\ y \in Nat /\ y < 2 * SIZE_MOD
  BY IncDec, SizeModPos DEF Pages
<1>2. x = IF a = SIZE_MOD - 1 THEN y + 1 - SIZE_MOD ELSE y + 1
  BY IncDec, SizeModPos DEF Pages
<1>3. b < SIZE_MOD /\ b >= 0 /\ y = a + b /\ a >= 0 /\ b \in Int /\ a \in Int
  BY SizeModPos DEF Pages
<1> HIDE DEF x, y
<1>4. y % SIZE_MOD \in Pages
  BY <1>1, Mod2, SizeModPos DEF Pages
<1>5. x % SIZE_MOD = Inc(y % SIZE_MOD)
  <2> DEFINE z == y % SIZE_MOD
  <2>1. Inc(z) = IF z = SIZE_MOD - 1 THEN 0 ELSE z + 1
    BY <1>4, IncDec
  <2>2. z = IF y < SIZE_MOD THEN y ELSE y - SIZE_MOD
    BY <1>1, Mod2
  <2>3. x % SIZE_MOD = IF x < SIZE_MOD THEN x ELSE x - SIZE_MOD
    BY <1>1, Mod2
  <2> HIDE DEF z
  <2>4. x % SIZE_MOD = Inc(z)
    BY <1>1, <1>2, <1>3, <2>1, <2>2, <2>3, SizeModPos
  <2> QED
    BY <2>4 DEF z
<1> QED
  BY <1>5 DEF x, y

(* A counter decremented before or after it is added. *)
LEMMA SumDec ==
  ASSUME NEW a \in Pages, NEW b \in Pages
  PROVE  (Dec(a) + b) % SIZE_MOD = Dec((a + b) % SIZE_MOD)
<1> DEFINE x == Dec(a) + b
           y == a + b
<1>1. x \in Nat /\ x < 2 * SIZE_MOD /\ y \in Nat /\ y < 2 * SIZE_MOD
  BY IncDec, SizeModPos DEF Pages
<1>2. x = IF a = 0 THEN y - 1 + SIZE_MOD ELSE y - 1
  BY IncDec, SizeModPos DEF Pages
<1>3. b < SIZE_MOD /\ b >= 0 /\ y = a + b /\ a >= 0 /\ b \in Int /\ a \in Int
  BY SizeModPos DEF Pages
<1> HIDE DEF x, y
<1>4. y % SIZE_MOD \in Pages
  BY <1>1, Mod2, SizeModPos DEF Pages
<1>5. x % SIZE_MOD = Dec(y % SIZE_MOD)
  <2> DEFINE z == y % SIZE_MOD
  <2>1. Dec(z) = IF z = 0 THEN SIZE_MOD - 1 ELSE z - 1
    BY <1>4, IncDec
  <2>2. z = IF y < SIZE_MOD THEN y ELSE y - SIZE_MOD
    BY <1>1, Mod2
  <2>3. x % SIZE_MOD = IF x < SIZE_MOD THEN x ELSE x - SIZE_MOD
    BY <1>1, Mod2
  <2> HIDE DEF z
  <2>4. x % SIZE_MOD = Dec(z)
    BY <1>1, <1>2, <1>3, <2>1, <2>2, <2>3, SizeModPos
  <2> QED
    BY <2>4 DEF z
<1> QED
  BY <1>5 DEF x, y

-----------------------------------------------------------------------------
(* The number of bits set, as set by a page operation. *)

(* A bitmap is a finite set. *)
LEMMA BitsFinite ==
  ASSUME NEW S \in SUBSET Bits
  PROVE  /\ IsFiniteSet(S)
         /\ Cardinality(S) \in 0 .. SIZE_MOD
         /\ Cardinality(S) <= NBits + 1
<1>1. IsFiniteSet(Bits) /\ Cardinality(Bits) = NBits + 1
  BY SizeModPos, FS_Interval DEF Bits
<1>2. IsFiniteSet(S) /\ Cardinality(S) <= NBits + 1
  BY <1>1, FS_Subset
<1> QED
  BY <1>2, FS_CardinalityType, SizeModPos

(* One more bit, or one more page without a bit, is one more page counted. *)
LEMMA WeightInc ==
  ASSUME NEW c \in Nat, NEW d \in Pages, c + 1 <= SIZE_MOD
  PROVE  /\ ((c + 1) + d) % SIZE_MOD = Inc((c + d) % SIZE_MOD)
         /\ (c + Inc(d)) % SIZE_MOD = Inc((c + d) % SIZE_MOD)
         /\ (c + d) % SIZE_MOD = Dec(((c + 1) + d) % SIZE_MOD)
<1> USE SizeModPos
<1>1. c \in Pages /\ d \in Nat /\ d < SIZE_MOD
  BY DEF Pages
<1>2. (Inc(c) + d) % SIZE_MOD = Inc((c + d) % SIZE_MOD)
  BY <1>1, SumInc
<1>3. ((c + 1) + d) % SIZE_MOD = (Inc(c) + d) % SIZE_MOD
  <2>1. CASE c = SIZE_MOD - 1
    <3>1. Inc(c) = 0
      BY <1>1, <2>1, IncDec
    <3>2. (SIZE_MOD + d) % SIZE_MOD = d /\ d % SIZE_MOD = d
      BY <1>1, Mod2
    <3>3. (c + 1) + d = SIZE_MOD + d /\ 0 + d = d
      BY <1>1, <2>1
    <3> QED
      BY <3>1, <3>2, <3>3
  <2>2. CASE c # SIZE_MOD - 1
    BY <1>1, <2>2, IncDec
  <2> QED
    BY <2>1, <2>2
<1>4. (Inc(d) + c) % SIZE_MOD = Inc((d + c) % SIZE_MOD)
  BY <1>1, SumInc
<1>5. Inc(d) + c = c + Inc(d) /\ d + c = c + d
  BY <1>1, IncDec DEF Pages
<1>6. (c + d) % SIZE_MOD \in Pages
  BY <1>1, Mod2 DEF Pages
<1>7. Dec(Inc((c + d) % SIZE_MOD)) = (c + d) % SIZE_MOD
  <2> DEFINE x == (c + d) % SIZE_MOD
  <2>1. Inc(x) \in Pages /\ Inc(x) = IF x = SIZE_MOD - 1 THEN 0 ELSE x + 1
    BY <1>6, IncDec
  <2>2. Dec(Inc(x)) = IF Inc(x) = 0 THEN SIZE_MOD - 1 ELSE Inc(x) - 1
    BY <2>1, IncDec
  <2>3. x \in Pages
    BY <1>6
  <2> HIDE DEF x
  <2>4. Dec(Inc(x)) = x
    BY <2>1, <2>2, <2>3 DEF Pages
  <2> QED
    BY <2>4 DEF x
<1> QED
  BY <1>2, <1>3, <1>4, <1>5, <1>7

(* A set of numbers has a least one. *)
LEMMA LeastExists ==
  ASSUME NEW S \in SUBSET Nat, S # {}
  PROVE  \E x \in S : \A y \in S : x <= y
<1>1. \E x \in S : \A y \in S : ~ (<<y, x>> \in OpToRel(<, Nat))
  BY NatLessThanWellFounded, WFMin
<1>2. ASSUME NEW x \in Nat, NEW y \in Nat, y < x
      PROVE  <<y, x>> \in OpToRel(<, Nat)
  BY <1>2, Zenon DEF OpToRel
<1>3. \E x \in S : \A y \in S : ~ (y < x)
  BY <1>1, <1>2, Zenon
<1> QED
  BY <1>3

(* req_page's loop finds a clear bit whenever there is one, *)
LEMMA MinInSet ==
  ASSUME NEW S \in SUBSET Nat, S # {}
  PROVE  Min(S) \in S
  BY LeastExists DEF Min

(* and it is the lowest. *)
LEMMA MinLeast ==
  ASSUME NEW S \in SUBSET Nat, NEW y \in S
  PROVE  Min(S) <= y
<1>1. \E x \in S : \A z \in S : x <= z
  BY LeastExists
<1> QED
  BY <1>1 DEF Min

(* lock_page sets the page's bit, if it was not set, and counts the page.   *)
LEMMA LockPage ==
  ASSUME NEW pb \in PageBitmaps, NEW i \in Bits, i \notin pb.bitmap
  PROVE  /\ lock_page(pb, i) \in PageBitmaps
         /\ lock_page(pb, i).bitmap = pb.bitmap \cup {i}
<1>1. i <= NBits /\ i \in Nat
  BY SizeModPos DEF Bits
<1>2. lock_page(pb, i) = [bitmap |-> pb.bitmap \cup {i}, free |-> Dec(pb.free),
                         reserved |-> pb.reserved, used |-> Inc(pb.used)]
  BY <1>1, SizeModPos DEF lock_page, get_bitmap, set_bitmap
<1>3. pb.bitmap \subseteq Bits /\ pb.free \in Pages /\ pb.reserved \in Pages /\ pb.used \in Pages
  BY DEF PageBitmaps
<1>4. Dec(pb.free) \in Pages /\ Inc(pb.used) \in Pages
  BY <1>3, IncDec
<1> QED
  BY <1>2, <1>3, <1>4 DEF PageBitmaps

(* req_page returns a page that was clear, the lowest one, and marks it;   *)
(* when none is clear it returns page 0 and changes nothing.               *)
LEMMA ReqPageResult ==
  ASSUME NEW pb \in PageBitmaps
  PROVE  /\ req_page(pb).page \in 0 .. (NBits - 1) /\ req_page(pb).pb \in PageBitmaps
         /\ FreePages(pb) # {} =>
              /\ req_page(pb).page \in FreePages(pb) /\ req_page(pb).page = Min(FreePages(pb))
              /\ req_page(pb).pb.bitmap = pb.bitmap \cup {req_page(pb).page}
<1> DEFINE i == Min(FreePages(pb))
<1>1. NBits \in Nat /\ NBits > 0
  BY SizeModPos, TotalLtMod, TotalPagesAssumption
<1>2. CASE FreePages(pb) = {}
  BY <1>1, <1>2 DEF req_page
<1>3. CASE FreePages(pb) # {}
  <2>1. FreePages(pb) \in SUBSET Nat
    BY <1>1 DEF FreePages
  <2>2. i \in FreePages(pb)
    BY <1>3, <2>1, MinInSet
  <2>3. req_page(pb) = [page |-> i, pb |-> lock_page(pb, i)]
    BY <1>3 DEF req_page
  <2> HIDE DEF i
  <2>4. i \in 0 .. (NBits - 1) /\ i \in Bits /\ i \notin pb.bitmap
    BY <1>1, <2>2 DEF FreePages, Bits
  <2>5. lock_page(pb, i) \in PageBitmaps /\ lock_page(pb, i).bitmap = pb.bitmap \cup {i}
    BY <2>4, LockPage
  <2> QED
    BY <2>2, <2>3, <2>4, <2>5 DEF i
<1> QED
  BY <1>2, <1>3
=============================================================================
