------------------------- MODULE PageAllocatorProofs ------------------------
(***************************************************************************)
(* Proofs about PageAllocator, for every memory size, byte width, address  *)
(* space and range length.                                                 *)
(***************************************************************************)
EXTENDS PageAllocator, PageBitmapProofs

-----------------------------------------------------------------------------
(* What one page operation does to the bits and to the counters. *)

Total(pb)   == (pb.free + pb.reserved + pb.used) % SIZE_MOD
Counted(pb) == (pb.used + pb.reserved) % SIZE_MOD

(* Marking a page: its bit is set if it has one, and unless it was already *)
(* marked one page moves from free to used or reserved.                    *)
LEMMA MarkPage ==
  ASSUME NEW pb \in PageBitmaps, NEW i \in Pages, NEW fn \in Marking
  PROVE  LET q == Apply(fn, pb, i) IN
         /\ q \in PageBitmaps
         /\ q.bitmap = pb.bitmap \cup ({i} \cap Bits)
         /\ Total(q) = Total(pb)
         /\ i \in pb.bitmap => q = pb
         /\ i \notin pb.bitmap => Counted(q) = Inc(Counted(pb))
<1> DEFINE q == Apply(fn, pb, i)
<1> USE SizeModPos
<1>0. /\ pb = [bitmap |-> pb.bitmap, free |-> pb.free, reserved |-> pb.reserved, used |-> pb.used]
      /\ pb.bitmap \subseteq Bits /\ pb.free \in Pages /\ pb.reserved \in Pages /\ pb.used \in Pages
  BY DEF PageBitmaps
<1>1. CASE i \in pb.bitmap
  <2>1. q = pb
    BY <1>0, <1>1 DEF Apply, lock_page, reserve_page, get_bitmap, Marking, Bits, Pages
  <2> QED
    BY <1>0, <1>1, <2>1
<1>2. CASE i \notin pb.bitmap
  <2> DEFINE B == pb.bitmap \cup ({i} \cap Bits)
  <2>1. q = IF fn = "lock_page"
            THEN [bitmap |-> B, free |-> Dec(pb.free), reserved |-> pb.reserved, used |-> Inc(pb.used)]
            ELSE [bitmap |-> B, free |-> Dec(pb.free), reserved |-> Inc(pb.reserved), used |-> pb.used]
    <3>1. set_bitmap(pb.bitmap, i, 1) = B
      BY DEF set_bitmap, Bits, Pages
    <3> QED
      BY <1>2, <3>1 DEF Apply, Marking, lock_page, reserve_page, get_bitmap
  <2>2. q \in PageBitmaps /\ q.bitmap = B
    BY <1>0, <2>1, IncDec DEF PageBitmaps
  <2>3. Total(q) = Total(pb)
    <3>1. /\ (Dec(pb.free) + Inc(pb.reserved) + pb.used) % SIZE_MOD = Total(pb)
          /\ (Dec(pb.free) + Inc(pb.used) + pb.reserved) % SIZE_MOD
               = (pb.free + pb.used + pb.reserved) % SIZE_MOD
      BY <1>0, MoveKeepsSum DEF Total
    <3>2. /\ Dec(pb.free) + Inc(pb.used) + pb.reserved = Dec(pb.free) + pb.reserved + Inc(pb.used)
          /\ pb.free + pb.used + pb.reserved = pb.free + pb.reserved + pb.used
      BY <1>0, IncDec DEF Pages
    <3> QED
      BY <2>1, <3>1, <3>2 DEF Total
  <2>4. Counted(q) = Inc(Counted(pb))
    <3>1. /\ (Inc(pb.used) + pb.reserved) % SIZE_MOD = Inc(Counted(pb))
          /\ (Inc(pb.reserved) + pb.used) % SIZE_MOD = Inc((pb.reserved + pb.used) % SIZE_MOD)
      BY <1>0, SumInc DEF Counted
    <3>2. /\ Inc(pb.reserved) + pb.used = pb.used + Inc(pb.reserved)
          /\ pb.reserved + pb.used = pb.used + pb.reserved
      BY <1>0, IncDec DEF Pages
    <3> QED
      BY <2>1, <3>1, <3>2 DEF Counted
  <2> QED
    BY <1>2, <2>2, <2>3, <2>4
<1> QED
  BY <1>1, <1>2

(* Unmarking a page: a page that was not marked, or has no bit, is left    *)
(* alone; otherwise its bit is cleared and one page moves back to free.    *)
LEMMA UnmarkPage ==
  ASSUME NEW pb \in PageBitmaps, NEW i \in Pages, NEW fn \in Unmarking
  PROVE  LET q == Apply(fn, pb, i) IN
         /\ q \in PageBitmaps
         /\ q.bitmap = pb.bitmap \ {i}
         /\ Total(q) = Total(pb)
         /\ i \notin pb.bitmap => q = pb
         /\ i \in pb.bitmap => Counted(q) = Dec(Counted(pb))
<1> DEFINE q == Apply(fn, pb, i)
<1> USE SizeModPos
<1>0. pb.bitmap \subseteq Bits /\ pb.free \in Pages /\ pb.reserved \in Pages /\ pb.used \in Pages
  BY DEF PageBitmaps
<1>1. CASE i \notin pb.bitmap
  <2>1. q = pb
    BY <1>1 DEF Apply, free_page, unreserve_page, get_bitmap, Unmarking
  <2> QED
    BY <1>0, <1>1, <2>1
<1>2. CASE i \in pb.bitmap
  <2> DEFINE B == pb.bitmap \ {i}
  <2>1. q = IF fn = "free_page"
            THEN [bitmap |-> B, free |-> Inc(pb.free), reserved |-> pb.reserved, used |-> Dec(pb.used)]
            ELSE [bitmap |-> B, free |-> Inc(pb.free), reserved |-> Dec(pb.reserved), used |-> pb.used]
    <3>1. set_bitmap(pb.bitmap, i, 0) = B
      BY <1>0, <1>2 DEF set_bitmap, Bits, Pages
    <3>2. i <= NBits
      BY <1>0, <1>2 DEF Bits
    <3> QED
      BY <1>2, <3>1, <3>2 DEF Apply, Unmarking, free_page, unreserve_page, get_bitmap
  <2>2. q \in PageBitmaps /\ q.bitmap = B
    BY <1>0, <2>1, IncDec DEF PageBitmaps
  <2>3. Total(q) = Total(pb)
    <3>1. /\ (Dec(pb.reserved) + Inc(pb.free) + pb.used) % SIZE_MOD
               = (pb.reserved + pb.free + pb.used) % SIZE_MOD
          /\ (Dec(pb.used) + Inc(pb.free) + pb.reserved) % SIZE_MOD
               = (pb.used + pb.free + pb.reserved) % SIZE_MOD
      BY <1>0, MoveKeepsSum
    <3>2. /\ Dec(pb.reserved) + Inc(pb.free) + pb.used = Inc(pb.free) + Dec(pb.reserved) + pb.used
          /\ Dec(pb.used) + Inc(pb.free) + pb.reserved = Inc(pb.free) + pb.reserved + Dec(pb.used)
          /\ pb.reserved + pb.free + pb.used = pb.free + pb.reserved + pb.used
          /\ pb.used + pb.free + pb.reserved = pb.free + pb.reserved + pb.used
      BY <1>0, IncDec DEF Pages
    <3> QED
      BY <2>1, <3>1, <3>2 DEF Total
  <2>4. Counted(q) = Dec(Counted(pb))
    <3>1. /\ (Dec(pb.used) + pb.reserved) % SIZE_MOD = Dec(Counted(pb))
          /\ (Dec(pb.reserved) + pb.used) % SIZE_MOD = Dec((pb.reserved + pb.used) % SIZE_MOD)
      BY <1>0, SumDec DEF Counted
    <3>2. /\ Dec(pb.reserved) + pb.used = pb.used + Dec(pb.reserved)
          /\ pb.reserved + pb.used = pb.used + pb.reserved
      BY <1>0, IncDec DEF Pages
    <3> QED
      BY <2>1, <3>1, <3>2 DEF Counted
  <2> QED
    BY <1>2, <2>2, <2>3, <2>4
<1> QED
  BY <1>1, <1>2

-----------------------------------------------------------------------------
(* The pages a range call visits are distinct. *)
LEMMA WrapDistinct ==
  ASSUME NEW a \in Pages, NEW i \in 0 .. (SIZE_MOD - 1), NEW j \in 0 .. (SIZE_MOD - 1)
  PROVE  /\ (a + i) % SIZE_MOD \in Pages
         /\ i # j => (a + i) % SIZE_MOD # (a + j) % SIZE_MOD
<1> USE SizeModPos
<1> DEFINE x == a + i
           y == a + j
<1>1. x \in Nat /\ x < 2 * SIZE_MOD /\ y \in Nat /\ y < 2 * SIZE_MOD
  BY DEF Pages
<1>2. /\ i # j => x # y
      /\ x - y < SIZE_MOD /\ y - x < SIZE_MOD
  BY DEF Pages
<1> HIDE DEF x, y
<1>3. x % SIZE_MOD = IF x < SIZE_MOD THEN x ELSE x - SIZE_MOD
  BY <1>1, Mod2
<1>4. y % SIZE_MOD = IF y < SIZE_MOD THEN y ELSE y - SIZE_MOD
  BY <1>1, Mod2
<1>5. x % SIZE_MOD \in Pages /\ (i # j => x % SIZE_MOD # y % SIZE_MOD)
  BY <1>1, <1>2, <1>3, <1>4 DEF Pages
<1> QED
  BY <1>5 DEF x, y

(* The pages of a range are distinct. *)
LEMMA PageOfDistinct ==
  ASSUME NEW c \in Calls, NEW i \in 0 .. (SIZE_MOD - 1), NEW j \in 0 .. (SIZE_MOD - 1)
  PROVE  /\ PageOf(c, i) \in Pages
         /\ i # j => PageOf(c, i) # PageOf(c, j)
<1>1. c.addr \in Pages
  BY DEF Calls
<1> QED
  BY <1>1, WrapDistinct DEF PageOf

-----------------------------------------------------------------------------
(* The inductive invariant. *)
IInv == TypeOK /\ Conservation /\ Accounting /\ HeldMarked /\ RangeEffect

(* The allocator as the kernel sets it up. *)
LEMMA InitIInv == Init => IInv
<1> SUFFICES ASSUME Init PROVE IInv
  OBVIOUS
<1> USE SizeModPos
<1>0. PICK stray \in SUBSET {NBits} :
        /\ page_bitmap = [bitmap |-> stray, free |-> TotalPages, reserved |-> 0, used |-> 0]
        /\ drift = IF stray = {} THEN 0 ELSE SIZE_MOD - 1
  BY DEF Init
<1>1. TotalPages \in Pages
  BY TotalLtMod, TotalPagesAssumption DEF Pages
<1>2. TypeOK
  BY <1>0, <1>1, MaxCntAssumption DEF Init, TypeOK, PageBitmaps, Bits, Pages, Calls, NoCall, Marking
<1>3. Conservation
  <2>1. TotalPages + 0 + 0 = TotalPages /\ TotalPages \in Nat /\ TotalPages < SIZE_MOD
    BY <1>1 DEF Pages
  <2> QED
    BY <1>0, <2>1, ModFirst DEF Conservation
<1>4. Accounting
  <2>1. CASE stray = {}
    BY <1>0, <2>1, FS_EmptySet DEF Accounting
  <2>2. CASE stray = {NBits}
    <3>1. Cardinality(stray) = 1
      BY <2>2, FS_Singleton
    <3>2. 1 + (SIZE_MOD - 1) = SIZE_MOD /\ SIZE_MOD % SIZE_MOD = 0 /\ (0 + 0) % SIZE_MOD = 0
      BY ModFirst, ModSecond
    <3> QED
      BY <1>0, <2>2, <3>1, <3>2 DEF Accounting
  <2> QED
    BY <2>1, <2>2
<1>5. HeldMarked /\ RangeEffect
  BY DEF Init, HeldMarked, RangeEffect, NoCall
<1> QED
  BY <1>2, <1>3, <1>4, <1>5 DEF IInv

(* Counting: a page operation keeps Accounting, given what it did to the   *)
(* set of bits and to the drift.                                           *)
LEMMA MarkAccounting ==
  ASSUME NEW pb \in PageBitmaps, NEW d \in Pages, NEW p \in Pages, NEW fn \in Marking,
         Counted(pb) = (Cardinality(pb.bitmap) + d) % SIZE_MOD
  PROVE  LET q == Apply(fn, pb, p)
             e == IF p \notin Bits THEN Inc(d) ELSE d
         IN  Counted(q) = (Cardinality(q.bitmap) + e) % SIZE_MOD
<1> DEFINE q == Apply(fn, pb, p)
           B == pb.bitmap
           c == Cardinality(B)
<1>0. B \in SUBSET Bits
  BY DEF PageBitmaps
<1>1. IsFiniteSet(B) /\ c \in 0 .. SIZE_MOD
  BY <1>0, BitsFinite
<1>2. CASE p \in B
  <2>1. q = pb /\ p \in Bits
    BY <1>0, <1>2, MarkPage
  <2> QED
    BY <2>1
<1>3. CASE p \in Bits /\ p \notin B
  <2>1. q.bitmap = B \cup {p} /\ Counted(q) = Inc(Counted(pb))
    BY <1>3, MarkPage
  <2>2. Cardinality(B \cup {p}) = c + 1
    BY <1>1, <1>3, FS_AddElement
  <2>3. c \in Nat /\ c + 1 <= SIZE_MOD
    <3>1. B \cup {p} \in SUBSET Bits
      BY <1>0, <1>3
    <3>2. Cardinality(B \cup {p}) \in 0 .. SIZE_MOD
      BY <3>1, BitsFinite
    <3> QED
      BY <1>1, <2>2, <3>2
  <2>4. ((c + 1) + d) % SIZE_MOD = Inc((c + d) % SIZE_MOD)
    <3> HIDE DEF c
    <3> QED
      BY <2>3, WeightInc
  <2> QED
    BY <1>3, <2>1, <2>2, <2>4
<1>4. CASE p \notin Bits
  <2>1. q.bitmap = B /\ p \notin B
    <3>1. q.bitmap = B \cup ({p} \cap Bits)
      BY MarkPage
    <3>2. {p} \cap Bits = {}
      BY <1>4
    <3> QED
      BY <1>0, <1>4, <3>1, <3>2
  <2>2. Counted(q) = Inc(Counted(pb))
    BY <2>1, MarkPage
  <2>3. c \in Nat /\ c + 1 <= SIZE_MOD
    \* an out-of-range page exists, so the bitmap cannot cover the address space
    <3>1. NBits + 1 < SIZE_MOD
      BY <1>4, SizeModPos DEF Bits, Pages
    <3>2. c <= NBits + 1
      BY <1>0, BitsFinite
    <3> QED
      BY <1>1, <3>1, <3>2, SizeModPos
  <2>4. (c + Inc(d)) % SIZE_MOD = Inc((c + d) % SIZE_MOD)
    <3> HIDE DEF c
    <3> QED
      BY <2>3, WeightInc
  <2> QED
    BY <1>4, <2>1, <2>2, <2>4
<1> QED
  BY <1>0, <1>2, <1>3, <1>4

(* A page given back keeps the accounts. *)
LEMMA UnmarkAccounting ==
  ASSUME NEW pb \in PageBitmaps, NEW d \in Pages, NEW p \in Pages, NEW fn \in Unmarking,
         Counted(pb) = (Cardinality(pb.bitmap) + d) % SIZE_MOD
  PROVE  LET q == Apply(fn, pb, p)
         IN  Counted(q) = (Cardinality(q.bitmap) + d) % SIZE_MOD
<1> DEFINE q == Apply(fn, pb, p)
           B == pb.bitmap
<1>1. B \in SUBSET Bits
  BY DEF PageBitmaps
<1>2. IsFiniteSet(B) /\ Cardinality(B) \in 0 .. SIZE_MOD
  BY <1>1, BitsFinite
<1>3. CASE p \notin B
  BY <1>3, UnmarkPage
<1>4. CASE p \in B
  <2> DEFINE c == Cardinality(B \ {p})
  <2>1. q.bitmap = B \ {p} /\ Counted(q) = Dec(Counted(pb))
    BY <1>4, UnmarkPage
  <2>2. Cardinality(B) = c + 1 /\ c \in Nat
    <3>1. IsFiniteSet(B \ {p}) /\ c = Cardinality(B) - 1
      BY <1>2, <1>4, FS_RemoveElement
    <3>2. c \in Nat
      BY <3>1, FS_CardinalityType
    <3> QED
      BY <1>2, <3>1, <3>2
  <2>3. (c + d) % SIZE_MOD = Dec(((c + 1) + d) % SIZE_MOD)
    <3>1. c \in Nat /\ c + 1 <= SIZE_MOD
      BY <1>2, <2>2
    <3> HIDE DEF c
    <3> QED
      BY <3>1, WeightInc
  <2> QED
    BY <2>1, <2>2, <2>3
<1> QED
  BY <1>3, <1>4

-----------------------------------------------------------------------------
(* One page of a range call. *)
LEMMA IterateIInv ==
  ASSUME IInv, Iterate
  PROVE  IInv'
<1> USE SizeModPos
<1> DEFINE p == PageOf(call, call.i)
           q == Apply(call.fn, page_bitmap, p)
<1>0. /\ page_bitmap \in PageBitmaps /\ call \in Calls /\ drift \in Pages
      /\ held \in SUBSET (0 .. (NBits - 1))
      /\ call.i \in 0 .. (SIZE_MOD - 1) /\ call.i + 1 <= call.page_cnt
      /\ call.fn \in Marking \cup Unmarking
      /\ call.page_cnt \in 0 .. MaxCnt /\ call.page_cnt <= SIZE_MOD
  BY MaxCntAssumption DEF IInv, TypeOK, Iterate, Idle, Calls
<1>1. p \in Pages
  BY <1>0, PageOfDistinct
<1>2. /\ page_bitmap' = q
      /\ drift' = IF call.fn \in Marking /\ p \notin Bits THEN Inc(drift) ELSE drift
      /\ held' = IF call.fn \in Unmarking THEN held \ {p} ELSE held
      /\ call' = [call EXCEPT !.i = @ + 1]
  BY DEF Iterate
<1>3. /\ q \in PageBitmaps
      /\ Total(q) = Total(page_bitmap)
      /\ call.fn \in Marking => q.bitmap = page_bitmap.bitmap \cup ({p} \cap Bits)
      /\ call.fn \in Unmarking => q.bitmap = page_bitmap.bitmap \ {p}
  <2>1. CASE call.fn \in Marking
    <3>1. call.fn \notin Unmarking
      BY <2>1 DEF Marking, Unmarking
    <3> QED
      BY <1>0, <1>1, <2>1, <3>1, MarkPage
  <2>2. CASE call.fn \in Unmarking
    <3>1. call.fn \notin Marking
      BY <2>2 DEF Marking, Unmarking
    <3> QED
      BY <1>0, <1>1, <2>2, <3>1, UnmarkPage
  <2> QED
    BY <1>0, <2>1, <2>2
<1>4. /\ call' \in Calls /\ call'.i = call.i + 1 /\ call'.fn = call.fn /\ call'.addr = call.addr
      /\ call'.page_cnt = call.page_cnt
  BY <1>0, <1>2, MaxCntAssumption DEF Calls
<1>5. TypeOK'
  <2>1. drift' \in Pages
    BY <1>0, <1>2, IncDec
  <2> QED
    BY <1>0, <1>2, <1>3, <1>4, <2>1 DEF TypeOK
<1>6. Conservation'
  BY <1>2, <1>3 DEF IInv, Conservation, Total
<1>7. Accounting'
  <2>0. Counted(page_bitmap) = (Cardinality(page_bitmap.bitmap) + drift) % SIZE_MOD
    BY DEF IInv, Accounting, Counted
  <2>1. CASE call.fn \in Marking
    BY <1>0, <1>1, <1>2, <2>0, <2>1, MarkAccounting DEF Accounting, Counted
  <2>2. CASE call.fn \in Unmarking
    <3>1. drift' = drift
      BY <1>2, <2>2 DEF Marking, Unmarking
    <3> QED
      BY <1>0, <1>1, <1>2, <2>0, <2>2, <3>1, UnmarkAccounting DEF Accounting, Counted
  <2> QED
    BY <1>0, <2>1, <2>2
<1>8. HeldMarked'
  BY <1>0, <1>2, <1>3 DEF IInv, HeldMarked, Marking, Unmarking
<1>9. RangeEffect'
  <2> SUFFICES ASSUME NEW j \in 0 .. call.i, PageOf(call, j) \in Bits
               PROVE  PageOf(call, j) \in q.bitmap <=> call.fn \in Marking
    BY <1>0, <1>2, <1>4 DEF RangeEffect, PageOf
  <2>1. CASE j = call.i
    BY <1>0, <1>3, <2>1 DEF Marking, Unmarking
  <2>2. CASE j # call.i
    <3>1. j \in 0 .. (call.i - 1) /\ j \in 0 .. (SIZE_MOD - 1)
      BY <1>0, <2>2
    <3>2. PageOf(call, j) \in page_bitmap.bitmap <=> call.fn \in Marking
      BY <3>1 DEF IInv, RangeEffect
    <3>3. PageOf(call, j) # p
      BY <1>0, <2>2, <3>1, PageOfDistinct
    <3> QED
      BY <1>0, <1>3, <3>2, <3>3
  <2> QED
    BY <2>1, <2>2
<1> QED
  BY <1>5, <1>6, <1>7, <1>8, <1>9 DEF IInv

(* A call of req_page. *)
LEMMA ReqPageIInv ==
  ASSUME IInv, ReqPage
  PROVE  IInv'
<1> USE SizeModPos
<1> DEFINE free == FreePages(page_bitmap)
           i == Min(free)
<1>0. /\ page_bitmap \in PageBitmaps /\ drift \in Pages /\ page_bitmap.bitmap \in SUBSET Bits
      /\ held \in SUBSET (0 .. (NBits - 1))
  BY DEF IInv, TypeOK, PageBitmaps
<1>1. call' = NoCall /\ drift' = drift
  BY DEF ReqPage
<1>2. NoCall \in Calls /\ NoCall.i = 0 /\ NoCall.page_cnt = 0
  BY MaxCntAssumption DEF NoCall, Calls, Marking, Pages
<1>3. RangeEffect'
  BY <1>1, <1>2 DEF RangeEffect
<1>4. CASE free = {}
  <2>1. page_bitmap' = page_bitmap /\ held' = held
    BY <1>4 DEF ReqPage, req_page
  <2> QED
    BY <1>0, <1>1, <1>2, <1>3, <2>1 DEF IInv, TypeOK, Conservation, Accounting, HeldMarked
<1>5. CASE free # {}
  <2>1. i \in free
    <3>1. free \in SUBSET Nat
      BY DEF FreePages
    <3> QED
      BY <1>5, <3>1, MinInSet
  <2>2. i \in 0 .. (NBits - 1) /\ i \notin page_bitmap.bitmap /\ i \in Bits /\ i \in Pages
    BY <2>1 DEF FreePages, Bits, Pages
  <2>3. page_bitmap' = lock_page(page_bitmap, i) /\ held' = held \cup {i}
    BY <1>5 DEF ReqPage, req_page
  <2>4. lock_page(page_bitmap, i) = Apply("lock_page", page_bitmap, i) /\ "lock_page" \in Marking
    BY DEF Apply, Marking
  <2> HIDE DEF i, free
  <2>5. /\ page_bitmap' \in PageBitmaps
        /\ page_bitmap'.bitmap = page_bitmap.bitmap \cup {i}
        /\ Total(page_bitmap') = Total(page_bitmap)
    <3>1. {i} \cap Bits = {i}
      BY <2>2
    <3> QED
      BY <1>0, <2>2, <2>3, <2>4, <3>1, MarkPage
  <2>6. Counted(page_bitmap') = (Cardinality(page_bitmap'.bitmap) + drift) % SIZE_MOD
    BY <1>0, <2>2, <2>3, <2>4, MarkAccounting DEF IInv, Accounting, Counted
  <2>7. TypeOK'
    <3>1. held' \in SUBSET (0 .. (NBits - 1))
      BY <1>0, <2>2, <2>3
    <3>2. call' \in Calls /\ call'.i <= call'.page_cnt /\ drift' \in Pages
      BY <1>0, <1>1, <1>2
    <3> QED
      BY <2>5, <3>1, <3>2 DEF TypeOK
  <2>8. Conservation'
    BY <2>5 DEF IInv, Conservation, Total
  <2>9. Accounting'
    BY <1>1, <2>6 DEF Accounting, Counted
  <2>10. HeldMarked'
    BY <2>3, <2>5 DEF IInv, HeldMarked
  <2> QED
    BY <1>3, <2>7, <2>8, <2>9, <2>10 DEF IInv
<1> QED
  BY <1>4, <1>5

(* Every call keeps the invariant. *)
LEMMA NextIInv == IInv /\ [Next]_vars => IInv'
<1> SUFFICES ASSUME IInv, [Next]_vars PROVE IInv'
  OBVIOUS
<1>1. ASSUME NEW fn \in Marking \cup Unmarking, NEW addr \in Pages, NEW page_cnt \in 0 .. MaxCnt,
             Call(fn, addr, page_cnt)
      PROVE  IInv'
  <2>1. call' \in Calls /\ call'.i = 0 /\ call'.page_cnt = page_cnt
    BY <1>1, MaxCntAssumption DEF Call, Calls
  <2> QED
    BY <1>1, <2>1, MaxCntAssumption
    DEF Call, IInv, TypeOK, Conservation, Accounting, HeldMarked, RangeEffect
<1>2. CASE Iterate
  BY <1>2, IterateIInv
<1>3. CASE ReqPage
  BY <1>3, ReqPageIInv
<1>4. CASE UNCHANGED vars
  BY <1>4 DEF vars, IInv, TypeOK, Conservation, Accounting, HeldMarked, RangeEffect, PageOf
<1> QED
  BY <1>1, <1>2, <1>3, <1>4 DEF Next

(* Every behaviour keeps the variables in their types: no sequence of      *)
(* calls sets a bit beyond bit NBits or moves a counter out of size_t.     *)
THEOREM TypeCorrect == Spec => []TypeOK
<1>1. IInv => TypeOK
  BY DEF IInv
<1> QED
  BY InitIInv, NextIInv, <1>1, PTL DEF Spec

(* The allocator's counters and bits agree and none of its pages is lost:  *)
(* free + reserved + used stays the memory of the machine, and used +      *)
(* reserved stays the number of bits set plus the drift, for every memory  *)
(* size and every sequence of calls of paging.c:6-76.                      *)
THEOREM CountersExact == Spec => [](Conservation /\ Accounting)
<1>1. IInv => Conservation /\ Accounting
  BY DEF IInv
<1> QED
  BY InitIInv, NextIInv, <1>1, PTL DEF Spec

(* The counters alone (paging.c:12-13, 27-28, 42-43, 57-58): no sequence   *)
(* of calls, mismatched ones included, loses or makes a page.              *)
COROLLARY PagesConserved == Spec => []Conservation
  BY CountersExact, PTL

(* Pages handed out stay marked, and a range call does to every page of    *)
(* its range what it was asked, for every range that fits the address      *)
(* space.                                                                  *)
THEOREM PagesMarked == Spec => [](HeldMarked /\ RangeEffect)
<1>1. IInv => HeldMarked /\ RangeEffect
  BY DEF IInv
<1> QED
  BY InitIInv, NextIInv, <1>1, PTL DEF Spec

(* The loops of free_pages, lock_pages, unreserve_pages and reserve_pages  *)
(* (paging.c:17-20, 32-35, 47-50, 62-65) reach every page of the range.    *)
COROLLARY RangesComplete == Spec => []RangeEffect
  BY PagesMarked, PTL

(* req_page (paging.c:66-76) never hands out a page that is still held. *)
THEOREM AllocationExclusive == Spec => ExclusiveAlloc
<1> DEFINE A == ReqPage => \/ \E p \in (0 .. (NBits - 1)) \ held : held' = held \cup {p} /\ p \notin page_bitmap.bitmap
                           \/ (0 .. (NBits - 1)) \subseteq page_bitmap.bitmap /\ UNCHANGED <<page_bitmap, held>>
<1>1. ASSUME IInv, ReqPage PROVE A
  <2> DEFINE free == FreePages(page_bitmap)
  <2>1. CASE free = {}
    BY <1>1, <2>1 DEF ReqPage, req_page, FreePages
  <2>2. CASE free # {}
    <3>1. free \in SUBSET Nat
      BY SizeModPos DEF FreePages
    <3>2. Min(free) \in free
      BY <2>2, <3>1, MinInSet
    <3>3. Min(free) \in (0 .. (NBits - 1)) \ held /\ Min(free) \notin page_bitmap.bitmap
      BY <1>1, <3>2 DEF IInv, HeldMarked, FreePages
    <3>4. held' = held \cup {Min(free)}
      BY <1>1, <2>2 DEF ReqPage, req_page
    <3> QED
      BY <3>3, <3>4
  <2> QED
    BY <2>1, <2>2
<1>2. IInv /\ [Next]_vars => [A]_vars
  BY <1>1
<1> QED
  BY InitIInv, NextIInv, <1>2, PTL DEF Spec, ExclusiveAlloc
=============================================================================
