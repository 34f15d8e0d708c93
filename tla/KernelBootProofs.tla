--------------------------- MODULE KernelBootProofs --------------------------
(***************************************************************************)
(* Theorems about KernelBoot, for every memory map, every place of the     *)
(* devices and every size of memory, tables and kernel: nobody's page is   *)
(* handed out again, what is handed out is memory, the free counter is     *)
(* exact, and nothing the kernel touches after cr3 is unmapped.            *)
(***************************************************************************)
EXTENDS KernelBoot, PageBitmapProofs

-----------------------------------------------------------------------------
(* What holds of a bitmap pb, tables tb, the other pages X that req_page   *)
(* handed out, and the pages own that belong to somebody else: everything  *)
(* is marked, no page has two uses, and a page beyond memory was handed    *)
(* out only when all memory was marked.                                    *)
Covers(pb, S) == \A p \in S : p < NBits => p \in pb.bitmap
Given(tb, X)  == {tb[t] : t \in DOMAIN tb} \cup X
Apart(pb, tb, X, own) ==
  /\ pb \in PageBitmaps
  /\ Given(tb, X) \subseteq 0 .. (NBits - 1) /\ Given(tb, X) \subseteq pb.bitmap
  /\ \A t, u \in DOMAIN tb : tb[t] = tb[u] => t = u
  /\ \A t \in DOMAIN tb : tb[t] \notin X
  /\ Given(tb, X) \cap own = {}
  /\ Covers(pb, own)
  /\ \A p \in Given(tb, X) : p >= TotalPages => Memory \subseteq pb.bitmap

(* The pages that free does not count any more: marked memory, pages fb    *)
(* that are not memory and were locked, and pages beyond memory that were  *)
(* handed out.                                                             *)
Counted(pb, tb, X, fb) ==
  (Memory \cap pb.bitmap) \cup (fb \ Memory) \cup {p \in Given(tb, X) : p >= TotalPages}
Exact(pb, tb, X, fb) ==
  NBits \notin pb.bitmap =>
    /\ pb.bitmap \subseteq Counted(pb, tb, X, fb)
    /\ pb.free = (TotalPages - Cardinality(Counted(pb, tb, X, fb))) % SIZE_MOD

(* One more page counted. *)
LEMMA CountOne ==
  ASSUME NEW C \in SUBSET Pages, NEW x \in Pages, x \notin C, NEW n,
         n = (TotalPages - Cardinality(C)) % SIZE_MOD
  PROVE  Dec(n) = (TotalPages - Cardinality(C \cup {x})) % SIZE_MOD
<1>1. IsFiniteSet(Pages)
  BY FS_Interval, SizeModPos DEF Pages
<1>2. IsFiniteSet(C)
  BY <1>1, FS_Subset
<1>3. Cardinality(C) \in Nat
  BY <1>2, FS_CardinalityType
<1>4. Cardinality(C \cup {x}) = Cardinality(C) + 1
  BY <1>2, FS_AddElement
<1>5. ASSUME NEW M \in Nat \ {0}, NEW a \in Int
      PROVE  ((a % M) - 1) % M = (a - 1) % M
  <2>1. PICK q \in Int : a = q * M + (a % M)
    <3>1. a \div M \in Int /\ a = (a \div M) * M + (a % M)
      OBVIOUS
    <3> QED
      BY <3>1
  <2>2. a % M \in 0 .. (M - 1)
    OBVIOUS
  <2>3. CASE a % M = 0
    <3>1. a - 1 = (q - 1) * M + (M - 1)
      BY <2>1, <2>3
    <3>2. (a - 1) % M = M - 1
      BY <3>1
    <3>3. (0 - 1) % M = M - 1
      OBVIOUS
    <3> QED
      BY <2>3, <3>2, <3>3
  <2>4. CASE a % M # 0
    <3>1. PICK r \in 0 .. (M - 1) : r = (a % M) - 1
      BY <2>2, <2>4
    <3>2. a - 1 = q * M + r
      BY <2>1, <3>1
    <3>3. (a - 1) % M = r
      BY <3>2
    <3>4. r % M = r
      OBVIOUS
    <3> QED
      BY <3>1, <3>3, <3>4
  <2> QED
    BY <2>3, <2>4
<1>6. TotalPages - Cardinality(C) \in Int
  BY <1>3, TotalPagesAssumption
<1>7. Dec(n) = ((TotalPages - Cardinality(C)) - 1) % SIZE_MOD
  BY <1>5, <1>6, SizeModPos DEF Dec
<1>8. (TotalPages - Cardinality(C)) - 1 = TotalPages - Cardinality(C \cup {x})
  BY <1>3, <1>4, TotalPagesAssumption
<1> QED
  BY <1>7, <1>8

(* lock_page and reserve_page of any page. *)
Marks(pb, new, x) ==
  /\ new \in PageBitmaps
  /\ pb.bitmap \subseteq new.bitmap /\ new.bitmap \subseteq pb.bitmap \cup {x}
  /\ x < NBits => x \in new.bitmap
  /\ x \in pb.bitmap => new = pb
  /\ x \notin pb.bitmap => new.free = Dec(pb.free)

(* They mark it, if it has a bit, and count it once. *)
LEMMA MarkPage ==
  ASSUME NEW pb \in PageBitmaps, NEW x \in Pages
  PROVE  Marks(pb, lock_page(pb, x), x) /\ Marks(pb, reserve_page(pb, x), x)
<1>1. pb.bitmap \subseteq Bits /\ pb.free \in Pages /\ pb.reserved \in Pages /\ pb.used \in Pages
  BY DEF PageBitmaps
<1>2. /\ Dec(pb.free) \in Pages /\ Inc(pb.used) \in Pages /\ Inc(pb.reserved) \in Pages
  BY <1>1, IncDec
<1>3. /\ set_bitmap(pb.bitmap, x, 1) = IF x > NBits THEN pb.bitmap ELSE pb.bitmap \cup {x}
      /\ set_bitmap(pb.bitmap, x, 1) \subseteq Bits
  BY <1>1, SizeModPos DEF set_bitmap, Bits, Pages
<1>4. get_bitmap(pb.bitmap, x) <=> x \in pb.bitmap
  BY <1>1, SizeModPos DEF get_bitmap, Bits, Pages
<1>5. CASE x \in pb.bitmap
  <2>1. lock_page(pb, x) = pb /\ reserve_page(pb, x) = pb
    BY <1>4, <1>5 DEF lock_page, reserve_page
  <2> QED
    BY <1>5, <2>1 DEF Marks
<1>6. CASE x \notin pb.bitmap
  <2>1. lock_page(pb, x) = [bitmap |-> set_bitmap(pb.bitmap, x, 1), free |-> Dec(pb.free),
                            reserved |-> pb.reserved, used |-> Inc(pb.used)]
    BY <1>4, <1>6 DEF lock_page
  <2>2. reserve_page(pb, x) = [bitmap |-> set_bitmap(pb.bitmap, x, 1), free |-> Dec(pb.free),
                               reserved |-> Inc(pb.reserved), used |-> pb.used]
    BY <1>4, <1>6 DEF reserve_page
  <2>3. lock_page(pb, x) \in PageBitmaps /\ reserve_page(pb, x) \in PageBitmaps
    BY <1>1, <1>2, <1>3, <2>1, <2>2 DEF PageBitmaps
  <2>4. /\ pb.bitmap \subseteq set_bitmap(pb.bitmap, x, 1)
        /\ set_bitmap(pb.bitmap, x, 1) \subseteq pb.bitmap \cup {x}
        /\ x < NBits => x \in set_bitmap(pb.bitmap, x, 1)
    BY <1>3, SizeModPos DEF Pages
  <2> QED
    BY <1>6, <2>1, <2>2, <2>3, <2>4 DEF Marks
<1> QED
  BY <1>5, <1>6

(* Marking a page that is nobody's yet makes it somebody's. *)
LEMMA MarkApart ==
  ASSUME NEW pb, NEW tb, NEW X, NEW own, NEW new, NEW x, Apart(pb, tb, X, own), Marks(pb, new, x)
  PROVE  /\ Apart(new, tb, X, own)
         /\ x \notin Given(tb, X) => Apart(new, tb, X, own \cup {x})
         /\ \A S : Covers(pb, S) => Covers(new, S \cup {x})
<1>1. pb.bitmap \subseteq new.bitmap /\ new \in PageBitmaps
  BY DEF Marks
<1>2. ASSUME NEW S, Covers(pb, S) PROVE Covers(new, S \cup {x}) /\ Covers(new, S)
  BY <1>2 DEF Covers, Marks
<1>3. Apart(new, tb, X, own)
  BY <1>1, <1>2 DEF Apart
<1>4. Covers(new, own \cup {x})
  BY <1>2 DEF Apart
<1> QED
  BY <1>2, <1>3, <1>4 DEF Apart

(* Fewer pages that belong to somebody. *)
LEMMA FewerApart ==
  ASSUME NEW pb, NEW tb, NEW X, NEW own, NEW less \in SUBSET own, Apart(pb, tb, X, own)
  PROVE  Apart(pb, tb, X, less)
  BY DEF Apart, Covers

(* The page req_page takes. *)
LEMMA Taken ==
  ASSUME NEW pb \in PageBitmaps, FreePages(pb) # {}, NEW x, x = req_page(pb).page
  PROVE  /\ x \in 0 .. (NBits - 1) /\ x \notin pb.bitmap
         /\ req_page(pb).pb \in PageBitmaps
         /\ req_page(pb).pb.bitmap = pb.bitmap \cup {x}
         /\ req_page(pb).pb.free = Dec(pb.free)
         /\ x >= TotalPages => Memory \subseteq pb.bitmap
<1>1. /\ x \in FreePages(pb) /\ x = Min(FreePages(pb)) /\ req_page(pb).pb \in PageBitmaps
      /\ req_page(pb).pb.bitmap = pb.bitmap \cup {x}
  BY ReqPageResult
<1>2. NBits \in Nat /\ TotalPages \in Nat /\ TotalPages < NBits
  BY SizeModPos, TotalLtMod, TotalPagesAssumption
<1>3. x \in 0 .. (NBits - 1) /\ x \notin pb.bitmap
  BY <1>1 DEF FreePages
<1>4. req_page(pb).pb.free = Dec(pb.free)
  <2>1. req_page(pb).pb = lock_page(pb, x)
    BY <1>1 DEF req_page
  <2>2. ~ get_bitmap(pb.bitmap, x)
    BY <1>3 DEF get_bitmap
  <2> QED
    BY <2>1, <2>2 DEF lock_page
<1>5. ASSUME x >= TotalPages PROVE Memory \subseteq pb.bitmap
  <2>1. SUFFICES ASSUME NEW y \in Memory, y \notin pb.bitmap PROVE FALSE
    OBVIOUS
  <2>2. y \in FreePages(pb) /\ y < TotalPages /\ y \in Nat
    BY <1>2, <2>1 DEF FreePages, Memory
  <2>3. FreePages(pb) \in SUBSET Nat
    BY <1>2 DEF FreePages
  <2>4. x <= y
    BY <1>1, <2>2, <2>3, MinLeast
  <2> QED
    BY <1>2, <1>3, <1>5, <2>2, <2>4
<1> QED
  BY <1>1, <1>3, <1>4, <1>5

(* A page x that req_page takes is a table, or something else. *)
Becomes(x, tb, X, ub, Y) ==
  \/ Y = X \cup {x} /\ ub = tb
  \/ Y = X /\ \E t : t \notin DOMAIN tb /\ ub = Put(tb, t, x)
LEMMA TakeApart ==
  ASSUME NEW pb, NEW tb, NEW X, NEW own, NEW fb, NEW x, NEW new, NEW ub, NEW Y,
         Apart(pb, tb, X, own), Covers(pb, fb), FreePages(pb) # {},
         x = req_page(pb).page, new = req_page(pb).pb, Becomes(x, tb, X, ub, Y)
  PROVE  /\ Apart(new, ub, Y, own) /\ Covers(new, fb)
         /\ Given(ub, Y) = Given(tb, X) \cup {x}
<1>1. pb \in PageBitmaps
  BY DEF Apart
<1>3. /\ x \in 0 .. (NBits - 1) /\ x \notin pb.bitmap
      /\ new \in PageBitmaps /\ new.bitmap = pb.bitmap \cup {x}
      /\ x >= TotalPages => Memory \subseteq pb.bitmap
  BY <1>1, Taken
<1>4. /\ Given(tb, X) \subseteq 0 .. (NBits - 1) /\ Given(tb, X) \subseteq pb.bitmap
      /\ Given(tb, X) \cap own = {} /\ Covers(pb, own)
      /\ \A p \in Given(tb, X) : p >= TotalPages => Memory \subseteq pb.bitmap
      /\ \A t, u \in DOMAIN tb : tb[t] = tb[u] => t = u
      /\ \A t \in DOMAIN tb : tb[t] \notin X
  BY DEF Apart
<1>5. x \notin Given(tb, X) /\ x \notin own
  BY <1>3, <1>4, SizeModPos DEF Covers
<1>6. ASSUME NEW S, Covers(pb, S) PROVE Covers(new, S)
  BY <1>3, <1>6 DEF Covers
<1>7. /\ Given(ub, Y) = Given(tb, X) \cup {x}
      /\ \A t, u \in DOMAIN ub : ub[t] = ub[u] => t = u
      /\ \A t \in DOMAIN ub : ub[t] \notin Y
  <2>1. CASE Y = X \cup {x} /\ ub = tb
    <3>1. \A t \in DOMAIN tb : tb[t] # x
      BY <1>5 DEF Given
    <3> QED
      BY <1>4, <2>1, <3>1 DEF Given
  <2>2. ASSUME NEW t, Y = X, t \notin DOMAIN tb, ub = Put(tb, t, x)
        PROVE  /\ Given(ub, Y) = Given(tb, X) \cup {x}
               /\ \A v, u \in DOMAIN ub : ub[v] = ub[u] => v = u
               /\ \A v \in DOMAIN ub : ub[v] \notin Y
    <3>1. DOMAIN ub = DOMAIN tb \cup {t} /\ ub[t] = x /\ \A u \in DOMAIN tb : ub[u] = tb[u]
      BY <2>2 DEF Put
    <3>2. \A u \in DOMAIN tb : tb[u] # x
      BY <1>5 DEF Given
    <3>3. x \notin X
      BY <1>5 DEF Given
    <3>4. Given(ub, Y) = Given(tb, X) \cup {x}
      BY <2>2, <3>1 DEF Given
    <3> QED
      BY <1>4, <2>2, <3>1, <3>2, <3>3, <3>4
  <2> QED
    BY <2>1, <2>2 DEF Becomes
<1>8. Apart(new, ub, Y, own)
  <2>1. Given(ub, Y) \subseteq 0 .. (NBits - 1) /\ Given(ub, Y) \subseteq new.bitmap
    BY <1>3, <1>4, <1>7
  <2>2. Given(ub, Y) \cap own = {}
    BY <1>4, <1>5, <1>7
  <2>3. Covers(new, own)
    BY <1>4, <1>6
  <2>4. \A p \in Given(ub, Y) : p >= TotalPages => Memory \subseteq new.bitmap
    BY <1>3, <1>4, <1>7
  <2> QED
    BY <1>3, <1>7, <2>1, <2>2, <2>3, <2>4 DEF Apart
<1> QED
  BY <1>6, <1>7, <1>8

(* free stays exact when a page is taken. *)
LEMMA TakeExact ==
  ASSUME NEW pb, NEW tb, NEW X, NEW own, NEW fb \in SUBSET Pages, NEW x, NEW new, NEW ub, NEW Y,
         Apart(pb, tb, X, own), Covers(pb, fb), Exact(pb, tb, X, fb), FreePages(pb) # {},
         x = req_page(pb).page, new = req_page(pb).pb, Given(ub, Y) = Given(tb, X) \cup {x}
  PROVE  Exact(new, ub, Y, fb)
<1>1. pb \in PageBitmaps
  BY DEF Apart
<1>3. /\ x \in 0 .. (NBits - 1) /\ x \notin pb.bitmap
      /\ new \in PageBitmaps /\ new.bitmap = pb.bitmap \cup {x} /\ new.free = Dec(pb.free)
  BY <1>1, Taken
<1>4. SUFFICES ASSUME NBits \notin new.bitmap
               PROVE  /\ new.bitmap \subseteq Counted(new, ub, Y, fb)
                      /\ new.free = (TotalPages - Cardinality(Counted(new, ub, Y, fb))) % SIZE_MOD
  BY DEF Exact
<1>5. PICK C : C = Counted(pb, tb, X, fb)
  OBVIOUS
<1>6. pb.bitmap \subseteq C /\ pb.free = (TotalPages - Cardinality(C)) % SIZE_MOD
  BY <1>3, <1>4, <1>5 DEF Exact
<1>7. /\ NBits \in Nat /\ NBits < SIZE_MOD /\ SIZE_MOD \in Nat
      /\ TotalPages \in Nat /\ TotalPages < SIZE_MOD
  BY SizeModPos, TotalLtMod, TotalPagesAssumption
<1>8. C \subseteq Pages /\ x \in Pages
  <2>1. Memory \subseteq Pages /\ 0 .. (NBits - 1) \subseteq Pages
    BY <1>7 DEF Memory, Pages
  <2>2. Given(tb, X) \subseteq 0 .. (NBits - 1)
    BY DEF Apart
  <2> QED
    BY <1>3, <1>5, <2>1, <2>2 DEF Counted
<1>9. x \notin C
  <2>1. x \notin fb
    BY <1>3, <1>7 DEF Covers
  <2>2. x \notin Given(tb, X)
    BY <1>3 DEF Apart
  <2> QED
    BY <1>3, <1>5, <2>1, <2>2 DEF Counted
<1>10. Counted(new, ub, Y, fb) = C \cup {x}
  <2>1. x \in Memory \/ x >= TotalPages
    BY <1>3, <1>7 DEF Memory
  <2>2. x \in Memory => ~ (x >= TotalPages)
    BY <1>3, <1>7 DEF Memory
  <2> QED
    BY <1>3, <1>5, <2>1, <2>2 DEF Counted
<1>11. Dec(pb.free) = (TotalPages - Cardinality(C \cup {x})) % SIZE_MOD
  BY <1>6, <1>8, <1>9, CountOne
<1> QED
  BY <1>3, <1>6, <1>10, <1>11

(* And when a page is marked, of memory or, by lock_pages on the           *)
(* framebuffer, not.                                                       *)
LEMMA MarkExact ==
  ASSUME NEW pb, NEW tb, NEW X, NEW own, NEW new, NEW x \in Pages, NEW fb \in SUBSET Pages, NEW gb,
         Apart(pb, tb, X, own), Marks(pb, new, x), Exact(pb, tb, X, fb),
         gb \ Memory = (fb \cup {x}) \ Memory, x \in Memory \/ x \notin fb
  PROVE  Exact(new, tb, X, gb)
<1>1. SUFFICES ASSUME NBits \notin new.bitmap
               PROVE  /\ new.bitmap \subseteq Counted(new, tb, X, gb)
                      /\ new.free = (TotalPages - Cardinality(Counted(new, tb, X, gb))) % SIZE_MOD
  BY DEF Exact
<1>2. /\ pb.bitmap \subseteq new.bitmap /\ new.bitmap \subseteq pb.bitmap \cup {x}
      /\ x < NBits => x \in new.bitmap
      /\ x \in pb.bitmap => new = pb
      /\ x \notin pb.bitmap => new.free = Dec(pb.free)
  BY DEF Marks
<1>3. PICK C : C = Counted(pb, tb, X, fb)
  OBVIOUS
<1>4. pb.bitmap \subseteq C /\ pb.free = (TotalPages - Cardinality(C)) % SIZE_MOD
  BY <1>1, <1>2, <1>3 DEF Exact
<1>5. /\ NBits \in Nat /\ NBits < SIZE_MOD /\ SIZE_MOD \in Nat
      /\ TotalPages \in Nat /\ TotalPages < NBits
  BY SizeModPos, TotalLtMod, TotalPagesAssumption
<1>6. x \in Memory => x < NBits /\ ~ (x >= TotalPages)
  BY <1>5 DEF Memory
<1>7. Counted(new, tb, X, gb) = C \cup {x}
  <2>1. CASE x \in Memory
    <3>1. Memory \cap new.bitmap = (Memory \cap pb.bitmap) \cup {x} /\ gb \ Memory = fb \ Memory
      BY <1>2, <1>6, <2>1
    <3> QED
      BY <1>3, <3>1 DEF Counted
  <2>2. CASE x \notin Memory
    <3>1. Memory \cap new.bitmap = Memory \cap pb.bitmap /\ gb \ Memory = (fb \ Memory) \cup {x}
      BY <1>2, <2>2
    <3> QED
      BY <1>3, <3>1 DEF Counted
  <2> QED
    BY <2>1, <2>2
<1>8. CASE x \in pb.bitmap
  <2>1. C \cup {x} = C
    BY <1>4, <1>8
  <2> QED
    BY <1>2, <1>4, <1>7, <1>8, <2>1
<1>9. CASE x \notin pb.bitmap
  <2>1. C \subseteq Pages
    <3>1. Memory \subseteq Pages /\ 0 .. (NBits - 1) \subseteq Pages
      BY <1>5 DEF Memory, Pages
    <3>2. Given(tb, X) \subseteq 0 .. (NBits - 1)
      BY DEF Apart
    <3> QED
      BY <1>3, <3>1, <3>2 DEF Counted
  <2>2. x \notin C
    <3>1. x \notin Given(tb, X)
      BY <1>9 DEF Apart
    <3> QED
      BY <1>3, <1>9, <3>1 DEF Counted
  <2>3. Dec(pb.free) = (TotalPages - Cardinality(C \cup {x})) % SIZE_MOD
    BY <1>4, <2>1, <2>2, CountOne
  <2> QED
    BY <1>2, <1>4, <1>7, <1>9, <2>3
<1> QED
  BY <1>8, <1>9

-----------------------------------------------------------------------------
(* The tables. *)

(* The prefixes of an address are within their level. *)
TableNames == (1 .. 3) \X (0 .. (FAN * FAN * FAN - 1))

(* A table of any level has a name of its own kind. *)
LEMMA Names ==
  ASSUME NEW level \in 1 .. 3, NEW v \in 0 .. (VIR_MOD - 1)
  PROVE  Name(level, v) \in TableNames
<1>1. PICK f : f = FAN
  OBVIOUS
<1>2. f \in Nat /\ f >= 2
  BY <1>1, SizesAssumption
<1>3. PICK g : g = f * f
  OBVIOUS
<1>4. PICK h : h = f * f * f
  OBVIOUS
<1>5. g \in Nat /\ h \in Nat /\ 1 <= f /\ f <= g /\ g <= h
  <2>1. g \in Nat /\ f <= g
    BY <1>2, <1>3
  <2>2. h = g * f
    BY <1>2, <1>3, <1>4
  <2> QED
    BY <1>2, <2>1, <2>2
<1>6. v \in Nat /\ v < h * f
  <2>1. VIR_MOD = h * f
    BY <1>1, <1>4 DEF VIR_MOD
  <2>2. h * f \in Nat
    BY <1>2, <1>5
  <2> QED
    BY <2>1, <2>2
<1>7. PICK n : n = Span(level)
  OBVIOUS
<1>8. n \in {f, g, h}
  BY <1>1, <1>3, <1>4, <1>7 DEF Span
<1>9. n \in Nat /\ f <= n
  BY <1>2, <1>5, <1>8
<1>10. v \div n \in 0 .. (h - 1)
  <2>1. PICK q : q = v \div n
    OBVIOUS
  <2>2. q \in Nat /\ n * q <= v
    BY <1>2, <1>6, <1>9, <2>1
  <2>3. f * q <= n * q
    BY <1>2, <1>9, <2>2
  <2>4. q < h
    <3>1. ASSUME q >= h PROVE FALSE
      <4>1. f * h <= f * q
        BY <1>2, <1>5, <2>2, <3>1
      <4>2. f * h = h * f /\ f * h \in Nat /\ f * q \in Nat /\ n * q \in Nat
        BY <1>2, <1>5, <1>9, <2>2
      <4> QED
        BY <1>6, <2>2, <2>3, <4>1, <4>2
    <3> QED
      BY <1>5, <2>2, <3>1
  <2> QED
    BY <1>5, <2>1, <2>2, <2>4
<1> QED
  BY <1>1, <1>4, <1>7, <1>10 DEF Name, TableNames

(* What map_page works on: typed, and with everything in its place unless  *)
(* req_page had no page left.                                              *)
Formed(s) ==
  /\ s = [pb |-> s.pb, tables |-> s.tables, space |-> s.space, failed |-> s.failed]
  /\ s.pb \in PageBitmaps /\ s.failed \in BOOLEAN
  /\ \A t \in DOMAIN s.tables : t \in TableNames /\ s.tables[t] \in 0 .. (NBits - 1)
Good(s, X, own, fb) ==
  ~ s.failed =>
    /\ Apart(s.pb, s.tables, X, own) /\ Covers(s.pb, fb)
    /\ Dense => Exact(s.pb, s.tables, X, fb)

(* One level: the table is there afterwards, and so are the others. *)
Gains(s, u, t, X, own, fb) ==
  /\ Formed(u) /\ Good(u, X, own, fb) /\ u.space = s.space
  /\ DOMAIN s.tables \subseteq DOMAIN u.tables /\ t \in DOMAIN u.tables
LEMMA TableGood ==
  ASSUME NEW s, NEW level \in 1 .. 3, NEW v \in 0 .. (VIR_MOD - 1),
         NEW X, NEW own, NEW fb \in SUBSET Pages, Formed(s), Good(s, X, own, fb)
  PROVE  Gains(s, Table(s, level, v), Name(level, v), X, own, fb)
<1>0. PICK u : u = Table(s, level, v)
  OBVIOUS
<1>1. CASE Name(level, v) \in DOMAIN s.tables
  <2>1. u = s
    BY <1>0, <1>1 DEF Table
  <2> QED
    BY <1>0, <1>1, <2>1 DEF Formed, Gains
<1>2. CASE Name(level, v) \notin DOMAIN s.tables
  <2>1. PICK t, x, r : t = Name(level, v) /\ x = req_page(s.pb).page /\ r = req_page(s.pb).pb
    OBVIOUS
  <2>2. PICK tb : tb = Put(s.tables, t, x)
    OBVIOUS
  <2>3. u = [pb |-> r, tables |-> tb, space |-> s.space, failed |-> s.failed \/ FreePages(s.pb) = {}]
    BY <1>0, <1>2, <2>1, <2>2 DEF Table
  <2>4. u.pb = r /\ u.tables = tb /\ u.space = s.space /\ u.failed = (s.failed \/ FreePages(s.pb) = {})
    BY <2>3
  <2>5. x \in 0 .. (NBits - 1) /\ r \in PageBitmaps
    BY <2>1, ReqPageResult DEF Formed
  <2>6. DOMAIN tb = DOMAIN s.tables \cup {t} /\ tb[t] = x /\ \A z \in DOMAIN s.tables : tb[z] = s.tables[z]
    BY <1>2, <2>1, <2>2 DEF Put
  <2>7. t \in TableNames
    BY <2>1, Names
  <2>8. Formed(u)
    <3>1. u.failed \in BOOLEAN
      BY <2>4 DEF Formed
    <3>2. \A z \in DOMAIN tb : z \in TableNames /\ tb[z] \in 0 .. (NBits - 1)
      BY <2>5, <2>6, <2>7 DEF Formed
    <3> QED
      BY <2>3, <2>4, <2>5, <3>1, <3>2 DEF Formed
  <2>9. Good(u, X, own, fb)
    <3>1. SUFFICES ASSUME ~ u.failed
                   PROVE  /\ Apart(r, tb, X, own) /\ Covers(r, fb)
                          /\ Dense => Exact(r, tb, X, fb)
      BY <2>4 DEF Good
    <3>2. ~ s.failed /\ FreePages(s.pb) # {}
      BY <2>4, <3>1
    <3>3. Apart(s.pb, s.tables, X, own) /\ Covers(s.pb, fb) /\ (Dense => Exact(s.pb, s.tables, X, fb))
      BY <3>2 DEF Good
    <3>4. Becomes(x, s.tables, X, tb, X)
      BY <1>2, <2>1, <2>2, Zenon DEF Becomes
    <3>5. /\ Apart(r, tb, X, own) /\ Given(tb, X) = Given(s.tables, X) \cup {x}
          /\ Covers(r, fb)
      <4>1. x = req_page(s.pb).page
        BY <2>1
      <4>2. r = req_page(s.pb).pb
        BY <2>1
      <4>3. Apart(s.pb, s.tables, X, own)
        BY <3>3
      <4>4. Covers(s.pb, fb)
        BY <3>3
      <4>5. FreePages(s.pb) # {}
        BY <3>2
      <4> QED
        BY <3>4, <4>1, <4>2, <4>3, <4>4, <4>5, TakeApart, SMT
    <3>6. Dense => Exact(r, tb, X, fb)
      BY <2>1, <3>2, <3>3, <3>5, TakeExact, Zenon
    <3> QED
      BY <3>5, <3>6
  <2> QED
    BY <1>0, <2>1, <2>4, <2>6, <2>8, <2>9 DEF Gains
<1> QED
  BY <1>1, <1>2

(* All three levels. *)
LEMMA WalkGood ==
  ASSUME NEW s, NEW v \in 0 .. (VIR_MOD - 1), NEW u, u = Walk(s, v),
         NEW X, NEW own, NEW fb \in SUBSET Pages, Formed(s), Good(s, X, own, fb)
  PROVE  /\ Formed(u) /\ Good(u, X, own, fb) /\ u.space = s.space
         /\ \A level \in 1 .. 3 : Name(level, v) \in DOMAIN u.tables
<1>1. PICK s3 : s3 = Table(s, 3, v)
  OBVIOUS
<1>2. PICK s2 : s2 = Table(s3, 2, v)
  OBVIOUS
<1>3. u = Table(s2, 1, v)
  BY <1>1, <1>2 DEF Walk
<1>4. 1 \in 1 .. 3 /\ 2 \in 1 .. 3 /\ 3 \in 1 .. 3
  OBVIOUS
<1>5. Gains(s, s3, Name(3, v), X, own, fb)
  BY <1>1, <1>4, TableGood, Zenon
<1>6. Gains(s3, s2, Name(2, v), X, own, fb)
  <2>1. Formed(s3) /\ Good(s3, X, own, fb)
    BY <1>5 DEF Gains
  <2> QED
    BY <1>2, <1>4, <2>1, TableGood, Zenon
<1>7. Gains(s2, u, Name(1, v), X, own, fb)
  <2>1. Formed(s2) /\ Good(s2, X, own, fb)
    BY <1>6 DEF Gains
  <2> QED
    BY <1>3, <1>4, <2>1, TableGood, Zenon
<1>8. ASSUME NEW level \in 1 .. 3 PROVE Name(level, v) \in DOMAIN u.tables
  <2>1. level = 1 \/ level = 2 \/ level = 3
    OBVIOUS
  <2> QED
    BY <1>5, <1>6, <1>7, <2>1 DEF Gains
<1> QED
  BY <1>5, <1>6, <1>7, <1>8 DEF Gains

-----------------------------------------------------------------------------
(* The inductive invariant. *)

(* What req_page handed out besides the tables. *)
Others == idt \cup (IF BeforePml4 THEN {} ELSE {pml4})

(* Whose pages are marked so far: the bitmap's own, the firmware's up to   *)
(* the descriptor kernel.c:60 has come to, and the kernel's.               *)
FirmwareBefore(m, j) ==
  UNION {Range0(m[k].phys, m[k].num) : k \in {i \in DOMAIN m : i < j /\ m[i].type # 7}}
FirmwareAt(m, j, n) ==
  IF j \in DOMAIN m /\ m[j].type # 7 THEN Range0(m[j].phys, n) ELSE {}
Owned ==
  (IF pc = "place" THEN {} ELSE IF pc = "lock_bitmap" THEN Range0(buffer, done) ELSE BufferPages)
  \cup (IF pc \in {"place", "lock_bitmap"} THEN {}
        ELSE IF pc = "reserve" THEN FirmwareBefore(map, desc) \cup FirmwareAt(map, desc, done)
        ELSE Firmware(map))
  \cup (IF pc \in {"place", "lock_bitmap", "reserve"} THEN {}
        ELSE IF pc = "kernel" THEN Range0(KernelAddr, done) ELSE Kernel)

(* What the tables map to itself so far. *)
Seen ==
  (IF BeforePml4 THEN {} ELSE IF pc = "identity" THEN 0 .. (done - 1) ELSE Memory)
  \cup (IF BeforePml4 \/ pc \in {"identity", "lock_fb"} THEN {}
        ELSE IF pc = "fb" THEN Range0(hw.fb, done) ELSE Range0(hw.fb, hw.fb_pages))
  \cup (IF BeforePml4 \/ pc \in {"identity", "lock_fb", "fb", "map_kernel"} THEN {}
        ELSE IF pc = "apic" THEN Range0(hw.apic, done) ELSE Range0(hw.apic, 1))
  \cup (IF BeforePml4 \/ pc \in {"identity", "lock_fb", "fb", "map_kernel", "apic"} THEN {}
        ELSE IF pc = "mcfg" THEN Range0(hw.mcfg, done) ELSE Range0(hw.mcfg, hw.mcfg_pages))
  \cup (IF pc = "bar" THEN Range0(hw.bar, done) ELSE IF pc \in {"nvme", "running"} THEN Range0(hw.bar, 3) ELSE {})

(* What the program counter says of the rest. *)
Stage ==
  /\ pc = "place" => page_bitmap.bitmap \subseteq {NBits}
  /\ pc \in {"place", "lock_bitmap"} => desc = 1
  /\ pc \in {"place", "pml4", "cr3", "set_idt", "timer", "bootdisk"} => done = 0
  /\ pc = "reserve" /\ desc > Len(map) => done = 0
  /\ pc = "lock_fb" => done <= hw.fb_pages
  /\ pc # "place" => BufferPages \subseteq Conventional(map)
  /\ BeforePml4 => DOMAIN tables = {}
  /\ pc \notin {"timer", "bootdisk", "bar", "nvme", "running", "no_disk", "exhausted", "fault"} => idt = {}
  /\ pc # "exhausted" => pml4 \notin idt
Separate == pc # "exhausted" => Apart(page_bitmap, tables, Others, Owned) /\ Covers(page_bitmap, Framebuffer)
Accounted == Dense /\ pc \notin {"place", "exhausted"} => Exact(page_bitmap, tables, Others, Framebuffer)
Mapped == pc \notin {"exhausted", "fault"} => Reaches(Seen)
IInv == TypeOK /\ Stage /\ Separate /\ Accounted /\ Mapped /\ NoFault

(* Ranges of pages. *)
LEMMA RangeStep ==
  ASSUME NEW a \in Nat, NEW n \in Nat
  PROVE  /\ Range0(a, 0) = {}
         /\ Range0(a, n + 1) = Range0(a, n) \cup {(a + n) % SIZE_MOD}
         /\ Range0(a, n) \subseteq Pages /\ (a + n) % SIZE_MOD \in Pages
<1>1. SIZE_MOD \in Nat \ {0}
  BY SizeModPos
<1>2. ASSUME NEW k \in Nat PROVE (a + k) % SIZE_MOD \in Pages
  BY <1>1 DEF Pages
<1>3. Range0(a, n) \subseteq Pages
  BY <1>2 DEF Range0
<1>4. 0 .. ((n + 1) - 1) = (0 .. (n - 1)) \cup {n} /\ 0 .. (0 - 1) = {}
  OBVIOUS
<1>5. Range0(a, n + 1) = Range0(a, n) \cup {(a + n) % SIZE_MOD}
  BY <1>4, Zenon DEF Range0
<1>6. Range0(a, 0) = {}
  BY <1>4, Zenon DEF Range0
<1> QED
  BY <1>2, <1>3, <1>5, <1>6

(* A longer range covers a shorter one. *)
LEMMA RangeMore ==
  ASSUME NEW a \in Nat, NEW m \in Nat, NEW n \in Nat, m <= n
  PROVE  Range0(a, m) \subseteq Range0(a, n)
<1>1. 0 .. (m - 1) \subseteq 0 .. (n - 1)
  OBVIOUS
<1> QED
  BY <1>1, Zenon DEF Range0

(* A range within reach of a size_t is an interval. *)
LEMMA RangeFlat ==
  ASSUME NEW a \in Nat, NEW n \in Nat, a + n <= SIZE_MOD
  PROVE  Range0(a, n) = a .. (a + n - 1)
<1>1. SIZE_MOD \in Nat \ {0}
  BY SizeModPos
<1>2. \A k \in 0 .. (n - 1) : (a + k) % SIZE_MOD = a + k
  BY <1>1
<1>3. Range0(a, n) = {a + k : k \in 0 .. (n - 1)}
  BY <1>2 DEF Range0
<1>4. \A y \in a .. (a + n - 1) : y - a \in 0 .. (n - 1) /\ y = a + (y - a)
  OBVIOUS
<1>5. \A k \in 0 .. (n - 1) : a + k \in a .. (a + n - 1)
  OBVIOUS
<1> QED
  BY <1>3, <1>4, <1>5

(* What the assumptions say of a machine. *)
LEMMA Sizes ==
  /\ TotalPages \in Nat /\ TotalPages < NBits /\ NBits < SIZE_MOD /\ NBits \in Nat /\ SIZE_MOD \in Nat
  /\ KernelAddr \in Nat /\ KernelPages \in Nat \ {0} /\ size \div PAGE_SIZE \in Nat
  /\ VIR_MOD \in Nat /\ TotalPages <= VIR_MOD
<1>1. /\ TotalPages \in Nat /\ TotalPages < NBits /\ NBits < SIZE_MOD /\ NBits \in Nat /\ SIZE_MOD \in Nat
  BY SizeModPos, TotalLtMod, TotalPagesAssumption
<1>2. size \div PAGE_SIZE \in Nat
  <2>1. size \in Nat
    BY TotalPagesAssumption, BITSAssumption DEF size
  <2> QED
    BY <2>1, SizesAssumption
<1>3. VIR_MOD \in Nat
  <2>1. ASSUME NEW f \in Nat PROVE f * f * f * f \in Nat
    OBVIOUS
  <2> QED
    BY <2>1, SizesAssumption DEF VIR_MOD
<1>4. TotalPages <= VIR_MOD
  BY <1>1, <1>3, KernelAssumption, SizesAssumption
<1> QED
  BY <1>1, <1>2, <1>3, <1>4, KernelAssumption, SizesAssumption

(* The kernel's pages are memory, the last one included. *)
LEMMA KernelInMemory ==
  /\ Kernel \subseteq Memory
  /\ \A n \in Nat : n < KernelPages => (KernelAddr + n) % SIZE_MOD \in Memory
<1>1. Kernel = KernelAddr .. (KernelAddr + KernelPages - 1)
  BY Sizes, KernelAssumption, RangeFlat DEF Kernel
<1>2. ASSUME NEW n \in Nat, n < KernelPages PROVE (KernelAddr + n) % SIZE_MOD = KernelAddr + n
  <2>1. KernelAddr + n \in Nat /\ KernelAddr + n < SIZE_MOD
    BY <1>2, Sizes, KernelAssumption
  <2> QED
    BY <2>1, Sizes
<1>3. ASSUME NEW n \in Nat, n < KernelPages PROVE KernelAddr + n \in Memory
  BY <1>3, Sizes, KernelAssumption DEF Memory
<1> QED
  BY <1>1, <1>2, <1>3, Sizes, KernelAssumption DEF Memory

(* The shape of a memory map. *)
LEMMA MapShape ==
  ASSUME NEW m \in Maps
  PROVE  /\ Len(m) \in Nat /\ DOMAIN m = 1 .. Len(m)
         /\ \A i \in DOMAIN m : i \in Nat /\ m[i].phys \in Pages /\ m[i].num \in Pages
         /\ \A i \in DOMAIN m : m[i].phys \in Nat /\ m[i].num \in Nat
<1>1. PICK D : D = [type: Nat, phys: Pages, num: Pages]
  OBVIOUS
<1>2. m \in Seq(D)
  BY <1>1, MapsAssumption
<1>3. Len(m) \in Nat /\ DOMAIN m = 1 .. Len(m) /\ \A i \in DOMAIN m : m[i] \in D
  BY <1>2
<1>4. \A d \in D : d.phys \in Pages /\ d.num \in Pages
  BY <1>1
<1>5. Pages \subseteq Nat
  BY Sizes DEF Pages
<1>6. \A i \in DOMAIN m : i \in Nat
  BY <1>3
<1> QED
  BY <1>3, <1>4, <1>5, <1>6

(* The region the bitmap is placed in. *)
LEMMA LargestRegion ==
  ASSUME NEW m \in Maps, NEW j, j = Min(Largest(m))
  PROVE  /\ j \in DOMAIN m /\ m[j].phys \in Pages
         /\ Range0(m[j].phys, size \div PAGE_SIZE + 1) \subseteq Conventional(m)
<1>1. \E i \in DOMAIN m : m[i].type = 7 /\ m[i].num > size \div PAGE_SIZE
  BY MapsAssumption
<1>2. DOMAIN m \subseteq Nat /\ \A i \in DOMAIN m : m[i].phys \in Pages /\ m[i].num \in Pages
  BY MapShape
<1>3. PICK i \in Regions(m) : m[i].num > size \div PAGE_SIZE
  BY <1>1 DEF Regions
<1>4. PICK S : S = {SIZE_MOD - m[k].num : k \in Regions(m)}
  OBVIOUS
<1>5. S \in SUBSET Nat /\ S # {}
  BY <1>2, <1>3, <1>4, Sizes DEF Regions, Pages
<1>6. PICK x \in S : \A y \in S : x <= y
  BY <1>5, LeastExists
<1>7. PICK k \in Regions(m) : x = SIZE_MOD - m[k].num
  BY <1>4, <1>6
<1>8. k \in Largest(m)
  <2>1. ASSUME NEW l \in Regions(m) PROVE m[l].num <= m[k].num
    <3>1. SIZE_MOD - m[l].num \in S
      BY <1>4
    <3>2. m[l].num \in Nat /\ m[k].num \in Nat
      BY <1>2, Sizes DEF Regions, Pages
    <3> QED
      BY <1>6, <1>7, <3>1, <3>2, Sizes
  <2> QED
    BY <2>1 DEF Largest
<1>9. Largest(m) \in SUBSET Nat /\ Largest(m) # {}
  BY <1>2, <1>8 DEF Largest, Regions
<1>10. j \in Largest(m)
  BY <1>9, MinInSet
<1>11. j \in DOMAIN m /\ m[j].type = 7 /\ m[i].num <= m[j].num
  BY <1>3, <1>10 DEF Largest, Regions
<1>12. size \div PAGE_SIZE + 1 <= m[j].num /\ m[j].num \in Nat /\ m[j].phys \in Nat /\ m[i].num \in Nat
  <2>1. m[j].num \in Nat /\ m[j].phys \in Nat /\ m[i].num \in Nat
    BY <1>2, <1>3, <1>11, Sizes DEF Pages, Regions
  <2> QED
    BY <1>3, <1>11, <2>1, Sizes
<1>13. Range0(m[j].phys, size \div PAGE_SIZE + 1) \subseteq Range0(m[j].phys, m[j].num)
  BY <1>12, Sizes, RangeMore
<1>14. Range0(m[j].phys, m[j].num) \subseteq Conventional(m)
  BY <1>11 DEF Conventional
<1> QED
  BY <1>2, <1>11, <1>13, <1>14

-----------------------------------------------------------------------------
(* Up to the allocation of the pml4, nothing has been handed out. *)
LEMMA EarlyFacts ==
  ASSUME IInv, BeforePml4
  PROVE  /\ Apart(page_bitmap, tables, {}, Owned) /\ Given(tables, {}) = {}
         /\ Dense /\ pc # "place" => Exact(page_bitmap, tables, {}, {})
<1>1. DOMAIN tables = {} /\ idt = {} /\ pc \notin {"exhausted", "fault"}
  BY DEF IInv, Stage, BeforePml4
<1>2. Others = {}
  BY <1>1 DEF Others
<1>3. Given(tables, {}) = {}
  BY <1>1 DEF Given
<1>4. Framebuffer = {}
  <2>1. hw.fb \in Nat
    BY HardwareAssumption DEF IInv, TypeOK
  <2>2. Framebuffer = Range0(hw.fb, 0)
    BY DEF Framebuffer
  <2> QED
    BY <2>1, <2>2, RangeStep
<1> QED
  BY <1>1, <1>2, <1>3, <1>4 DEF IInv, Separate, Accounted

(* And that is all there is to the invariant then. *)
LEMMA EarlyInv ==
  ASSUME TypeOK', Stage', BeforePml4', Apart(page_bitmap', tables', {}, Owned'),
         Dense' /\ pc' # "place" => Exact(page_bitmap', tables', {}, {})
  PROVE  IInv'
<1>1. DOMAIN tables' = {} /\ idt' = {} /\ pc' \notin {"exhausted", "fault"}
  BY DEF Stage, BeforePml4
<1>2. Others' = {}
  BY <1>1 DEF Others
<1>3. Framebuffer' = {}
  <2>1. hw'.fb \in Nat
    BY HardwareAssumption DEF TypeOK
  <2>2. Framebuffer' = Range0(hw'.fb, 0)
    BY DEF Framebuffer
  <2> QED
    BY <2>1, <2>2, RangeStep
<1>4. Covers(page_bitmap', {})
  BY DEF Covers
<1>5. Separate' /\ Accounted'
  BY <1>1, <1>2, <1>3, <1>4 DEF Separate, Accounted
<1>6. Seen' = {}
  BY DEF Seen, BeforePml4
<1>7. Mapped' /\ NoFault'
  BY <1>1, <1>6 DEF Mapped, NoFault, Reaches
<1> QED
  BY <1>5, <1>7 DEF IInv

(* Marking a page then, for its owner. *)
LEMMA Claim ==
  ASSUME NEW pb, NEW tb, NEW own, NEW own2, NEW new, NEW x \in Pages,
         Apart(pb, tb, {}, own), Given(tb, {}) = {}, Marks(pb, new, x), own2 \subseteq own \cup {x}
  PROVE  /\ Apart(new, tb, {}, own2)
         /\ Exact(pb, tb, {}, {}) /\ x \in Memory => Exact(new, tb, {}, {})
<1>1. x \notin Given(tb, {})
  OBVIOUS
<1>2. Apart(new, tb, {}, own \cup {x})
  BY <1>1, MarkApart
<1>3. Apart(new, tb, {}, own2)
  BY <1>2, FewerApart
<1>4. ASSUME Exact(pb, tb, {}, {}), x \in Memory PROVE Exact(new, tb, {}, {})
  <2>1. {} \in SUBSET Pages /\ {} \ Memory = ({} \cup {x}) \ Memory
    BY <1>4
  <2> QED
    BY <1>4, <2>1, MarkExact
<1> QED
  BY <1>3, <1>4

(* Before anything is placed. *)
LEMMA InitInv == Init => IInv
<1>1. SUFFICES ASSUME Init PROVE IInv
  OBVIOUS
<1>2. /\ pc = "place" /\ done = 0 /\ desc = 1 /\ map \in Maps /\ hw \in Hardware
      /\ buffer = 0 /\ pml4 = 0 /\ tables = << >> /\ space = << >> /\ idt = {}
  BY <1>1 DEF Init
<1>3. DOMAIN tables = {} /\ DOMAIN space = {} /\ BeforePml4
  BY <1>2 DEF BeforePml4
<1>4. page_bitmap \in PageBitmaps /\ page_bitmap.bitmap \subseteq {NBits}
  <2>1. PICK stray \in SUBSET {NBits} : page_bitmap = [bitmap |-> stray, free |-> 0, reserved |-> 0, used |-> 0]
    BY <1>1 DEF Init
  <2>2. 0 \in Pages /\ stray \subseteq Bits
    BY Sizes DEF Pages, Bits
  <2> QED
    BY <2>1, <2>2 DEF PageBitmaps
<1>5. TypeOK
  BY <1>2, <1>3, <1>4, Sizes DEF TypeOK, Pages
<1>6. Stage
  BY <1>2, <1>3, <1>4 DEF Stage
<1>7. Owned = {} /\ Others = {} /\ Seen = {}
  BY <1>2, <1>3 DEF Owned, Others, Seen
<1>8. Framebuffer = {}
  <2>1. hw.fb \in Nat
    BY <1>2, HardwareAssumption
  <2>2. Framebuffer = Range0(hw.fb, 0)
    BY <1>3 DEF Framebuffer
  <2> QED
    BY <2>1, <2>2, RangeStep
<1>9. Separate
  <2>1. Given(tables, {}) = {}
    BY <1>3 DEF Given
  <2> QED
    BY <1>3, <1>4, <1>7, <1>8, <2>1 DEF Separate, Apart, Covers
<1> QED
  BY <1>2, <1>5, <1>6, <1>7, <1>9 DEF IInv, Accounted, Mapped, Reaches, NoFault

(* The bitmap is clear and every page counted as free (kernel.c:37-57). *)
LEMMA PlaceStep == ASSUME IInv, PlaceBitmap PROVE IInv'
<1>1. /\ pc = "place" /\ pc' = "lock_bitmap" /\ buffer' = map[largest_desc].phys
      /\ UNCHANGED <<done, desc, map, hw, pml4, tables, space, idt>>
      /\ page_bitmap' = [bitmap |-> page_bitmap.bitmap, free |-> TotalPages,
                         reserved |-> page_bitmap.reserved, used |-> page_bitmap.used]
  BY DEF PlaceBitmap
<1>2. /\ TypeOK /\ done = 0 /\ desc = 1 /\ page_bitmap.bitmap \subseteq {NBits}
      /\ DOMAIN tables = {} /\ idt = {} /\ map \in Maps
  BY <1>1 DEF IInv, Stage, TypeOK, BeforePml4
<1>3. buffer' \in Pages /\ BufferPages' \subseteq Conventional(map)'
  BY <1>1, <1>2, LargestRegion DEF BufferPages, largest_desc
<1>4. page_bitmap' \in PageBitmaps
  BY <1>1, <1>2, Sizes DEF TypeOK, PageBitmaps, Pages
<1>5. TypeOK'
  BY <1>1, <1>2, <1>3, <1>4 DEF TypeOK
<1>6. Stage'
  BY <1>1, <1>2, <1>3 DEF Stage
<1>7. Owned' = {}
  <2>1. Owned' = Range0(buffer', 0)
    BY <1>1, <1>2 DEF Owned
  <2>2. buffer' \in Nat
    BY <1>3, Sizes DEF Pages
  <2> QED
    BY <2>1, <2>2, RangeStep
<1>8. Given(tables', {}) = {} /\ DOMAIN tables' = {}
  BY <1>1, <1>2 DEF Given
<1>9. Apart(page_bitmap', tables', {}, {})
  BY <1>4, <1>8 DEF Apart, Covers
<1>10. Exact(page_bitmap', tables', {}, {})
  <2>1. ASSUME NBits \notin page_bitmap'.bitmap
        PROVE  page_bitmap'.bitmap = {} /\ page_bitmap'.free = TotalPages
    BY <1>1, <1>2, <2>1
  <2>2. ASSUME page_bitmap'.bitmap = {} PROVE Counted(page_bitmap', tables', {}, {}) = {}
    BY <1>8, <2>2 DEF Counted
  <2>3. (TotalPages - Cardinality({})) % SIZE_MOD = TotalPages
    BY FS_EmptySet, Sizes
  <2> QED
    BY <2>1, <2>2, <2>3 DEF Exact
<1>11. BeforePml4'
  BY <1>1 DEF BeforePml4
<1> QED
  BY <1>5, <1>6, <1>7, <1>9, <1>10, <1>11, EarlyInv

(* The bitmap's own pages, in conventional memory (kernel.c:58). *)
LEMMA LockBitmapStep == ASSUME IInv, LockBitmap PROVE IInv'
<1>1. /\ pc = "lock_bitmap" /\ lock_pages(buffer, size \div PAGE_SIZE + 1, "reserve")
      /\ UNCHANGED <<desc, map, hw, buffer, pml4, tables, space, idt>>
  BY DEF LockBitmap, lock_pages
<1>2. /\ TypeOK /\ desc = 1 /\ BufferPages \subseteq Conventional(map)
      /\ DOMAIN tables = {} /\ idt = {}
  BY <1>1 DEF IInv, Stage, BeforePml4
<1>3. BeforePml4 /\ Owned = Range0(buffer, done)
  BY <1>1 DEF BeforePml4, Owned
<1>4. /\ Apart(page_bitmap, tables, {}, Owned) /\ Given(tables, {}) = {}
      /\ Dense => Exact(page_bitmap, tables, {}, {})
  BY <1>1, <1>3, EarlyFacts
<1>5. buffer \in Nat /\ done \in Nat /\ page_bitmap \in PageBitmaps /\ size \div PAGE_SIZE \in Nat
  BY <1>2, Sizes DEF TypeOK, Pages
<1>6. Dense' <=> Dense
  BY <1>1 DEF Dense
<1>7. BufferPages' \subseteq Conventional(map)'
  BY <1>1, <1>2 DEF BufferPages
<1>8. CASE done < size \div PAGE_SIZE + 1
  <2>1. PICK x : x = (buffer + done) % SIZE_MOD
    OBVIOUS
  <2>2. page_bitmap' = lock_page(page_bitmap, x) /\ done' = done + 1 /\ pc' = pc
    BY <1>1, <1>8, <2>1 DEF lock_pages
  <2>3. x \in Pages /\ Range0(buffer, done + 1) = Range0(buffer, done) \cup {x}
    BY <1>5, <2>1, RangeStep
  <2>4. Marks(page_bitmap, page_bitmap', x)
    BY <1>5, <2>2, <2>3, MarkPage
  <2>5. Owned' = Owned \cup {x}
    BY <1>1, <1>3, <2>2, <2>3 DEF Owned
  <2>6. Dense => x \in Memory
    <3>1. x \in BufferPages
      <4>1. Range0(buffer, done + 1) \subseteq BufferPages
        BY <1>5, <1>8, RangeMore DEF BufferPages
      <4> QED
        BY <2>3, <4>1
    <3> QED
      BY <1>2, <3>1 DEF Dense
  <2>7. /\ Apart(page_bitmap', tables, {}, Owned')
        /\ Dense => Exact(page_bitmap', tables, {}, {})
    BY <1>4, <2>3, <2>4, <2>5, <2>6, Claim
  <2>8. TypeOK'
    BY <1>1, <1>2, <1>5, <2>2, <2>4 DEF TypeOK, Marks
  <2>9. Stage' /\ BeforePml4'
    BY <1>1, <1>2, <1>7, <2>2 DEF Stage, BeforePml4
  <2> QED
    BY <1>1, <1>6, <2>7, <2>8, <2>9, EarlyInv
<1>9. CASE ~ (done < size \div PAGE_SIZE + 1)
  <2>1. page_bitmap' = page_bitmap /\ done' = 0 /\ pc' = "reserve"
    BY <1>1, <1>9 DEF lock_pages
  <2>2. BufferPages \subseteq Range0(buffer, done)
    BY <1>5, <1>9, RangeMore DEF BufferPages
  <2>3. FirmwareBefore(map, 1) = {}
    <3>1. \A i \in DOMAIN map : i \in Nat /\ i >= 1
      BY <1>2, MapShape DEF TypeOK
    <3>2. {i \in DOMAIN map : i < 1 /\ map[i].type # 7} = {}
      BY <3>1
    <3> QED
      BY <3>2 DEF FirmwareBefore
  <2>4. FirmwareAt(map, 1, 0) = {}
    <3>1. 1 \in DOMAIN map => Range0(map[1].phys, 0) = {}
      BY <1>2, MapShape, RangeStep DEF TypeOK
    <3> QED
      BY <3>1 DEF FirmwareAt
  <2>5. Owned' \subseteq Owned
    BY <1>1, <1>2, <1>3, <2>1, <2>2, <2>3, <2>4 DEF Owned, BufferPages
  <2>6. Apart(page_bitmap', tables', {}, Owned')
    BY <1>1, <1>4, <2>1, <2>5, FewerApart
  <2>7. TypeOK'
    BY <1>1, <1>2, <2>1 DEF TypeOK
  <2>8. Stage' /\ BeforePml4'
    BY <1>1, <1>2, <1>7, <2>1 DEF Stage, BeforePml4
  <2> QED
    BY <1>1, <1>4, <1>6, <2>1, <2>6, <2>7, <2>8, EarlyInv
<1> QED
  BY <1>8, <1>9

(* The firmware's pages, a descriptor at a time (kernel.c:60-66). *)
LEMMA ReserveFirmwareStep == ASSUME IInv, ReserveFirmware PROVE IInv'
<1>1. pc = "reserve" /\ UNCHANGED <<map, hw, buffer, pml4, tables, space, idt>>
  BY DEF ReserveFirmware
<1>2. /\ TypeOK /\ BufferPages \subseteq Conventional(map)
      /\ DOMAIN tables = {} /\ idt = {} /\ map \in Maps
  BY <1>1 DEF IInv, Stage, BeforePml4, TypeOK
<1>3. BeforePml4 /\ Owned = BufferPages \cup FirmwareBefore(map, desc) \cup FirmwareAt(map, desc, done)
  BY <1>1 DEF BeforePml4, Owned
<1>4. /\ Apart(page_bitmap, tables, {}, Owned) /\ Given(tables, {}) = {}
      /\ Dense => Exact(page_bitmap, tables, {}, {})
  BY <1>1, <1>3, EarlyFacts
<1>5. desc \in Nat \ {0} /\ done \in Nat /\ page_bitmap \in PageBitmaps
  BY <1>2 DEF TypeOK
<1>6. Dense' <=> Dense
  BY <1>1 DEF Dense
<1>7. BufferPages' \subseteq Conventional(map)' /\ BufferPages' = BufferPages
  BY <1>1, <1>2 DEF BufferPages
<1>8. Len(map) \in Nat /\ DOMAIN map = 1 .. Len(map)
  BY <1>2, MapShape
<1>9. CASE desc > Len(map)
  <2>1. page_bitmap' = page_bitmap /\ done' = done /\ desc' = desc /\ pc' = "kernel" /\ done = 0
    <3>1. ~ (desc <= Len(map))
      BY <1>5, <1>8, <1>9
    <3> QED
      BY <1>1, <1>9, <3>1 DEF ReserveFirmware, IInv, Stage
  <2>2. Firmware(map) \subseteq FirmwareBefore(map, desc)
    <3>1. \A i \in DOMAIN map : i < desc
      BY <1>5, <1>8, <1>9
    <3> QED
      BY <3>1 DEF Firmware, FirmwareBefore
  <2>3. Range0(KernelAddr, 0) = {}
    BY Sizes, RangeStep
  <2>4. Owned' \subseteq Owned
    <3>1. Owned' = BufferPages' \cup Firmware(map)' \cup Range0(KernelAddr, 0)
      BY <2>1 DEF Owned
    <3> QED
      BY <1>1, <1>3, <1>7, <2>2, <2>3, <3>1
  <2>5. Apart(page_bitmap', tables', {}, Owned')
    BY <1>1, <1>4, <2>1, <2>4, FewerApart
  <2>6. TypeOK'
    BY <1>1, <1>2, <2>1 DEF TypeOK
  <2>7. Stage' /\ BeforePml4'
    BY <1>1, <1>2, <1>7, <2>1 DEF Stage, BeforePml4
  <2> QED
    BY <1>1, <1>4, <1>6, <2>1, <2>5, <2>6, <2>7, EarlyInv
<1>10. CASE desc <= Len(map)
  <2>1. PICK num : num = IF map[desc].type # 7 THEN map[desc].num ELSE 0
    OBVIOUS
  <2>2. Reserve(num) /\ pc' = pc
    <3>1. ~ (desc > Len(map))
      BY <1>5, <1>8, <1>10
    <3> QED
      BY <1>10, <2>1, <3>1 DEF ReserveFirmware
  <2>3. desc \in DOMAIN map /\ map[desc].phys \in Nat /\ num \in Nat
    BY <1>2, <1>5, <1>8, <1>10, <2>1, MapShape
  <2>4. CASE done < num
    <3>1. PICK x : x = (map[desc].phys + done) % SIZE_MOD
      OBVIOUS
    <3>2. page_bitmap' = reserve_page(page_bitmap, x) /\ done' = done + 1 /\ desc' = desc
      BY <2>2, <2>4, <3>1 DEF Reserve
    <3>3. x \in Pages /\ Range0(map[desc].phys, done + 1) = Range0(map[desc].phys, done) \cup {x}
      BY <1>5, <2>3, <3>1, RangeStep
    <3>4. Marks(page_bitmap, page_bitmap', x)
      BY <1>5, <3>2, <3>3, MarkPage
    <3>5. map[desc].type # 7 /\ num = map[desc].num
      BY <1>5, <2>1, <2>4
    <3>6. FirmwareAt(map, desc, done + 1) = FirmwareAt(map, desc, done) \cup {x}
      BY <2>3, <3>3, <3>5 DEF FirmwareAt
    <3>7. Owned' = Owned \cup {x}
      <4>1. Owned' = BufferPages' \cup FirmwareBefore(map', desc') \cup FirmwareAt(map', desc', done')
        BY <1>1, <2>2 DEF Owned
      <4> QED
        BY <1>1, <1>3, <1>7, <3>2, <3>6, <4>1
    <3>8. Dense => x \in Memory
      <4>1. Range0(map[desc].phys, done + 1) \subseteq Range0(map[desc].phys, num)
        BY <1>5, <2>3, <2>4, RangeMore
      <4>2. Range0(map[desc].phys, num) \subseteq Firmware(map)
        BY <2>3, <3>5 DEF Firmware
      <4> QED
        BY <3>3, <4>1, <4>2 DEF Dense
    <3>9. /\ Apart(page_bitmap', tables, {}, Owned')
          /\ Dense => Exact(page_bitmap', tables, {}, {})
      BY <1>4, <3>3, <3>4, <3>7, <3>8, Claim
    <3>10. TypeOK'
      BY <1>1, <1>2, <1>5, <2>2, <3>2, <3>4 DEF TypeOK, Marks
    <3>11. Stage' /\ BeforePml4'
      <4>1. ~ (desc' > Len(map'))
        BY <1>1, <1>5, <1>8, <1>10, <3>2
      <4> QED
        BY <1>1, <1>2, <1>7, <2>2, <3>2, <4>1 DEF Stage, BeforePml4
    <3> QED
      BY <1>1, <1>6, <3>9, <3>10, <3>11, EarlyInv
  <2>5. CASE ~ (done < num)
    <3>1. page_bitmap' = page_bitmap /\ done' = 0 /\ desc' = desc + 1
      BY <2>2, <2>5 DEF Reserve
    <3>2. FirmwareBefore(map, desc + 1) \subseteq FirmwareBefore(map, desc) \cup FirmwareAt(map, desc, done)
      <4>1. SUFFICES ASSUME NEW i \in DOMAIN map, i < desc + 1, map[i].type # 7
                     PROVE  Range0(map[i].phys, map[i].num) \subseteq FirmwareBefore(map, desc) \cup FirmwareAt(map, desc, done)
        BY DEF FirmwareBefore
      <4>2. i < desc \/ i = desc
        BY <1>5, <1>8, <4>1
      <4>3. CASE i < desc
        BY <4>1, <4>3 DEF FirmwareBefore
      <4>4. CASE i = desc
        <5>1. num = map[desc].num
          BY <2>1, <4>1, <4>4
        <5>2. Range0(map[desc].phys, num) \subseteq Range0(map[desc].phys, done)
          BY <1>5, <2>3, <2>5, RangeMore
        <5> QED
          BY <2>3, <4>1, <4>4, <5>1, <5>2 DEF FirmwareAt
      <4> QED
        BY <4>2, <4>3, <4>4
    <3>3. FirmwareAt(map, desc + 1, 0) = {}
      <4>1. desc + 1 \in DOMAIN map => Range0(map[desc + 1].phys, 0) = {}
        BY <1>2, MapShape, RangeStep
      <4> QED
        BY <4>1 DEF FirmwareAt
    <3>4. Owned' \subseteq Owned
      <4>1. Owned' = BufferPages' \cup FirmwareBefore(map', desc') \cup FirmwareAt(map', desc', done')
        BY <1>1, <2>2 DEF Owned
      <4> QED
        BY <1>1, <1>3, <1>7, <3>1, <3>2, <3>3, <4>1
    <3>5. Apart(page_bitmap', tables', {}, Owned')
      BY <1>1, <1>4, <3>1, <3>4, FewerApart
    <3>6. TypeOK'
      BY <1>1, <1>2, <1>5, <2>2, <3>1 DEF TypeOK
    <3>7. Stage' /\ BeforePml4'
      BY <1>1, <1>2, <1>7, <2>2, <3>1 DEF Stage, BeforePml4
    <3> QED
      BY <1>1, <1>4, <1>6, <3>1, <3>5, <3>6, <3>7, EarlyInv
  <2> QED
    BY <2>4, <2>5
<1> QED
  BY <1>5, <1>8, <1>9, <1>10

(* The kernel's pages (kernel.c:68-70). *)
LEMMA ReserveKernelStep == ASSUME IInv, ReserveKernel PROVE IInv'
<1>1. /\ pc = "kernel" /\ reserve_pages(KernelAddr, KernelPages, "pml4")
      /\ UNCHANGED <<desc, map, hw, buffer, pml4, tables, space, idt>>
  BY DEF ReserveKernel, reserve_pages
<1>2. /\ TypeOK /\ BufferPages \subseteq Conventional(map)
      /\ DOMAIN tables = {} /\ idt = {}
  BY <1>1 DEF IInv, Stage, BeforePml4
<1>3. BeforePml4 /\ Owned = BufferPages \cup Firmware(map) \cup Range0(KernelAddr, done)
  BY <1>1 DEF BeforePml4, Owned
<1>4. /\ Apart(page_bitmap, tables, {}, Owned) /\ Given(tables, {}) = {}
      /\ Dense => Exact(page_bitmap, tables, {}, {})
  BY <1>1, <1>3, EarlyFacts
<1>5. KernelAddr \in Nat /\ KernelPages \in Nat /\ done \in Nat /\ page_bitmap \in PageBitmaps
  BY <1>2, Sizes DEF TypeOK
<1>6. Dense' <=> Dense
  BY <1>1 DEF Dense
<1>7. BufferPages' \subseteq Conventional(map)' /\ BufferPages' = BufferPages
  BY <1>1, <1>2 DEF BufferPages
<1>8. CASE done < KernelPages
  <2>1. PICK x : x = (KernelAddr + done) % SIZE_MOD
    OBVIOUS
  <2>2. page_bitmap' = reserve_page(page_bitmap, x) /\ done' = done + 1 /\ pc' = pc
    BY <1>1, <1>8, <2>1 DEF reserve_pages
  <2>3. x \in Pages /\ Range0(KernelAddr, done + 1) = Range0(KernelAddr, done) \cup {x}
    BY <1>5, <2>1, RangeStep
  <2>4. Marks(page_bitmap, page_bitmap', x)
    BY <1>5, <2>2, <2>3, MarkPage
  <2>5. Owned' = Owned \cup {x}
    <3>1. Owned' = BufferPages' \cup Firmware(map)' \cup Range0(KernelAddr, done')
      BY <1>1, <2>2 DEF Owned
    <3> QED
      BY <1>1, <1>3, <1>7, <2>2, <2>3, <3>1
  <2>6. x \in Memory
    BY <1>5, <1>8, <2>1, KernelInMemory
  <2>7. /\ Apart(page_bitmap', tables, {}, Owned')
        /\ Dense => Exact(page_bitmap', tables, {}, {})
    BY <1>4, <2>3, <2>4, <2>5, <2>6, Claim
  <2>8. TypeOK'
    BY <1>1, <1>2, <1>5, <2>2, <2>4 DEF TypeOK, Marks
  <2>9. Stage' /\ BeforePml4'
    BY <1>1, <1>2, <1>7, <2>2 DEF Stage, BeforePml4
  <2> QED
    BY <1>1, <1>6, <2>7, <2>8, <2>9, EarlyInv
<1>9. CASE ~ (done < KernelPages)
  <2>1. page_bitmap' = page_bitmap /\ done' = 0 /\ pc' = "pml4"
    BY <1>1, <1>9 DEF reserve_pages
  <2>2. Kernel \subseteq Range0(KernelAddr, done)
    BY <1>5, <1>9, RangeMore DEF Kernel
  <2>3. Owned' \subseteq Owned
    <3>1. Owned' = BufferPages' \cup Firmware(map)' \cup Kernel
      BY <2>1 DEF Owned
    <3> QED
      BY <1>1, <1>3, <1>7, <2>2, <3>1
  <2>4. Apart(page_bitmap', tables', {}, Owned')
    BY <1>1, <1>4, <2>1, <2>3, FewerApart
  <2>5. TypeOK'
    BY <1>1, <1>2, <2>1 DEF TypeOK
  <2>6. Stage' /\ BeforePml4'
    BY <1>1, <1>2, <1>7, <2>1 DEF Stage, BeforePml4
  <2> QED
    BY <1>1, <1>4, <1>6, <2>1, <2>4, <2>5, <2>6, EarlyInv
<1> QED
  BY <1>8, <1>9

-----------------------------------------------------------------------------
(* From the pml4 on everybody's pages are marked. *)
Everyone == BufferPages \cup Firmware(map) \cup Kernel
Settled == ~ BeforePml4 /\ pc # "exhausted"

(* What the invariant says from there on, *)
LEMMA LateFacts ==
  ASSUME IInv, Settled
  PROVE  /\ Apart(page_bitmap, tables, idt \cup {pml4}, Everyone) /\ Covers(page_bitmap, Framebuffer)
         /\ Dense => Exact(page_bitmap, tables, idt \cup {pml4}, Framebuffer)
         /\ Framebuffer \in SUBSET Pages /\ BufferPages \subseteq Conventional(map)
         /\ Handed = Given(tables, idt \cup {pml4})
<1>1. Others = idt \cup {pml4} /\ Owned = Everyone
  BY DEF Others, Owned, Everyone, Settled, BeforePml4
<1>2. Framebuffer \in SUBSET Pages
  <2>1. hw.fb \in Nat /\ hw.fb_pages \in Nat /\ done \in Nat
    BY HardwareAssumption DEF IInv, TypeOK
  <2>2. PICK n \in Nat : Framebuffer = Range0(hw.fb, n)
    BY <2>1 DEF Framebuffer
  <2> QED
    BY <2>1, <2>2, RangeStep
<1>3. Handed = Given(tables, idt \cup {pml4})
  BY DEF Handed, TablePages, Given, Settled
<1>4. pc # "place" /\ pc # "exhausted"
  BY DEF Settled, BeforePml4
<1> QED
  BY <1>1, <1>2, <1>3, <1>4 DEF IInv, Separate, Accounted, Stage

(* and what is enough for it. *)
LEMMA LateInv ==
  ASSUME TypeOK', Stage', Settled', Mapped', NoFault',
         Apart(page_bitmap', tables', idt' \cup {pml4'}, Everyone'), Covers(page_bitmap', Framebuffer'),
         Dense' => Exact(page_bitmap', tables', idt' \cup {pml4'}, Framebuffer')
  PROVE  IInv'
<1>1. Others' = idt' \cup {pml4'} /\ Owned' = Everyone'
  BY DEF Others, Owned, Everyone, Settled, BeforePml4
<1>2. Separate' /\ Accounted'
  BY <1>1 DEF Separate, Accounted
<1> QED
  BY <1>2 DEF IInv

(* When req_page has no page left, nothing more is claimed. *)
LEMMA ExhaustedInv ==
  ASSUME TypeOK', pc' = "exhausted", BufferPages' \subseteq Conventional(map)'
  PROVE  IInv'
  BY DEF IInv, Stage, Separate, Accounted, Mapped, NoFault, BeforePml4

(* A step that only moves on. *)
LEMMA QuietInv ==
  ASSUME IInv, Settled, UNCHANGED <<map, hw, page_bitmap, buffer, pml4, tables, space, idt>>,
         TypeOK', Stage', Settled', Framebuffer' = Framebuffer, Mapped', NoFault'
  PROVE  IInv'
<1>1. Everyone' = Everyone /\ (Dense' <=> Dense)
  BY DEF Everyone, BufferPages, Dense
<1> QED
  BY <1>1, LateFacts, LateInv

(* The first page handed out (kernel.c:72-73). *)
LEMMA NewPml4Step == ASSUME IInv, NewPml4 PROVE IInv'
<1>1. /\ pc = "pml4" /\ UNCHANGED <<done, desc, map, hw, buffer, tables, space, idt>>
      /\ page_bitmap' = req_page(page_bitmap).pb /\ pml4' = req_page(page_bitmap).page
      /\ pc' = IF FreePages(page_bitmap) = {} THEN "exhausted" ELSE "identity"
  BY DEF NewPml4
<1>2. /\ TypeOK /\ BufferPages \subseteq Conventional(map) /\ done = 0
      /\ DOMAIN tables = {} /\ idt = {} /\ page_bitmap \in PageBitmaps
  BY <1>1 DEF IInv, Stage, BeforePml4, TypeOK
<1>3. pml4' \in Pages /\ page_bitmap' \in PageBitmaps
  BY <1>1, <1>2, ReqPageResult, Sizes DEF Pages
<1>4. TypeOK'
  BY <1>1, <1>2, <1>3 DEF TypeOK
<1>5. BufferPages' = BufferPages /\ (Dense' <=> Dense)
  BY <1>1 DEF BufferPages, Dense
<1>6. CASE FreePages(page_bitmap) = {}
  BY <1>1, <1>2, <1>4, <1>5, <1>6, ExhaustedInv
<1>7. CASE FreePages(page_bitmap) # {}
  <2>1. pc' = "identity"
    BY <1>1, <1>7
  <2>2. BeforePml4 /\ Owned = Everyone /\ Everyone' = Everyone
    BY <1>1, <1>5 DEF BeforePml4, Owned, Everyone
  <2>3. /\ Apart(page_bitmap, tables, {}, Everyone)
        /\ Dense => Exact(page_bitmap, tables, {}, {})
    BY <1>1, <2>2, EarlyFacts
  <2>4. Covers(page_bitmap, {}) /\ {} \in SUBSET Pages
    BY DEF Covers
  <2>5. Becomes(pml4', tables, {}, tables', idt' \cup {pml4'})
    BY <1>1, <1>2 DEF Becomes
  <2>6. /\ Apart(page_bitmap', tables', idt' \cup {pml4'}, Everyone) /\ Covers(page_bitmap', {})
        /\ Given(tables', idt' \cup {pml4'}) = Given(tables, {}) \cup {pml4'}
    BY <1>1, <1>7, <2>3, <2>4, <2>5, TakeApart
  <2>7. Dense => Exact(page_bitmap', tables', idt' \cup {pml4'}, {})
    BY <1>1, <1>7, <2>3, <2>4, <2>6, TakeExact
  <2>8. Framebuffer' = {}
    <3>1. hw.fb \in Nat
      BY <1>2, HardwareAssumption DEF TypeOK
    <3>2. Framebuffer' = Range0(hw.fb, 0)
      BY <1>1, <2>1 DEF Framebuffer
    <3> QED
      BY <3>1, <3>2, RangeStep
  <2>9. Seen' = {}
    <3>1. Seen' = 0 .. (0 - 1)
      BY <1>1, <1>2, <2>1 DEF Seen, BeforePml4
    <3> QED
      BY <3>1
  <2>10. Mapped' /\ NoFault' /\ Settled'
    BY <2>1, <2>9 DEF Mapped, NoFault, Reaches, Settled, BeforePml4
  <2>11. Stage'
    BY <1>1, <1>2, <1>5, <2>1 DEF Stage, BeforePml4
  <2> QED
    BY <1>4, <1>5, <2>2, <2>6, <2>7, <2>8, <2>10, <2>11, LateInv
<1> QED
  BY <1>6, <1>7

(* Where the devices are. *)
LEMMA Devices ==
  ASSUME NEW h \in Hardware
  PROVE  /\ h.fb \in Nat /\ h.fb_pages \in Nat /\ h.apic \in Nat
         /\ h.mcfg \in Nat /\ h.mcfg_pages \in Nat /\ h.ecam \in Nat /\ h.bar \in Nat
         /\ h.stack \in Nat /\ h.madt \in Nat
         /\ h.fb + h.fb_pages <= VIR_MOD /\ h.fb + h.fb_pages <= SIZE_MOD
         /\ h.fb + h.fb_pages <= KERNEL_START + KernelAddr
         /\ h.apic + 1 <= VIR_MOD /\ h.apic + 1 <= SIZE_MOD
         /\ h.mcfg + h.mcfg_pages <= VIR_MOD /\ h.mcfg + h.mcfg_pages <= SIZE_MOD
         /\ h.bar + 3 <= VIR_MOD /\ h.bar + 3 <= SIZE_MOD
  BY HardwareAssumption

(* Pages are numbers. *)
LEMMA PageNumbers ==
  ASSUME TypeOK
  PROVE  /\ Pages \subseteq Nat /\ BufferPages \subseteq Nat /\ pml4 \in Nat /\ idt \subseteq Nat /\ TablePages \subseteq Nat
         /\ hw.stack \in Nat /\ hw.madt \in Nat /\ hw.ecam \in Nat
<1>1. Pages \subseteq Nat
  BY Sizes DEF Pages
<1>2. BufferPages \subseteq Pages
  <2>1. buffer \in Nat /\ size \div PAGE_SIZE + 1 \in Nat
    BY <1>1, Sizes DEF TypeOK
  <2> QED
    BY <2>1, RangeStep DEF BufferPages
<1>3. TablePages \subseteq Nat
  BY Sizes DEF TypeOK, TablePages
<1>4. pml4 \in Nat /\ idt \subseteq Nat /\ hw \in Hardware
  BY <1>1 DEF TypeOK
<1> QED
  BY <1>1, <1>2, <1>3, <1>4, Devices

(* What is mapped at every statement after cr3: all that does not depend   *)
(* on where memory ends.                                                   *)
AfterCr3 == pc \in {"cr3", "set_idt", "timer", "bootdisk", "bar", "nvme"}
LEMMA LateSeen ==
  ASSUME IInv, AfterCr3
  PROVE  /\ Reaches(Seen) /\ Memory \subseteq Seen /\ Always \subseteq Seen \cup {hw.stack}
         /\ hw.apic \in Seen /\ Range0(hw.mcfg, hw.mcfg_pages) \subseteq Seen
         /\ pc = "nvme" => Range0(hw.bar, 3) \subseteq Seen
<1>1. Reaches(Seen)
  BY DEF IInv, Mapped, AfterCr3
<1>2. Memory \cup Range0(hw.fb, hw.fb_pages) \cup Range0(hw.apic, 1) \cup Range0(hw.mcfg, hw.mcfg_pages) \subseteq Seen
  BY DEF Seen, AfterCr3, BeforePml4
<1>3. pc = "nvme" => Range0(hw.bar, 3) \subseteq Seen
  BY DEF Seen
<1>4. Kernel \subseteq Seen
  BY <1>2, KernelInMemory
<1>5. hw.apic \in Range0(hw.apic, 1)
  <2>1. hw.apic \in Nat /\ hw.apic + 1 <= SIZE_MOD
    BY Devices DEF IInv, TypeOK
  <2>2. Range0(hw.apic, 1) = hw.apic .. (hw.apic + 1 - 1)
    BY <2>1, RangeFlat
  <2> QED
    BY <2>1, <2>2
<1> QED
  BY <1>1, <1>2, <1>3, <1>4, <1>5 DEF Always

(* An access fails only for a page that the identity map does not reach.   *)
LEMMA Unreached ==
  ASSUME NEW S, NEW B \in SUBSET Nat, Reaches(Seen), Memory \subseteq Seen, S \subseteq Seen \cup B, ~ Reaches(S)
  PROVE  \E p \in B : p >= TotalPages
<1>1. PICK p \in S : p \notin Seen
  BY DEF Reaches
<1>2. p \in B /\ p \notin Memory
  BY <1>1
<1>3. p \in Nat
  BY <1>2
<1>4. p >= TotalPages
  BY <1>2, <1>3, Sizes DEF Memory
<1> QED
  BY <1>2, <1>4

(* The interrupt table's page: mapped if it is memory (kernel.c:102). *)
LEMMA SetIdtStep == ASSUME IInv, SetIdt PROVE IInv'
<1>1. /\ pc = "set_idt" /\ UNCHANGED <<done, desc, map, hw, buffer, pml4, tables, space>>
      /\ page_bitmap' = req_page(page_bitmap).pb /\ idt' = {req_page(page_bitmap).page}
      /\ pc' = IF FreePages(page_bitmap) = {} THEN "exhausted"
               ELSE IF Reaches(Always \cup BufferPages \cup idt') THEN "timer" ELSE "fault"
  BY DEF SetIdt
<1>2. Settled /\ TypeOK /\ idt = {} /\ page_bitmap \in PageBitmaps
  BY <1>1 DEF IInv, Stage, BeforePml4, TypeOK, Settled
<1>3. PICK x : x = req_page(page_bitmap).page
  OBVIOUS
<1>4. x \in Pages /\ page_bitmap' \in PageBitmaps /\ idt' = {x}
  BY <1>1, <1>2, <1>3, ReqPageResult, Sizes DEF Pages
<1>5. TypeOK'
  BY <1>1, <1>2, <1>4 DEF TypeOK
<1>6. BufferPages' = BufferPages /\ (Dense' <=> Dense) /\ Everyone' = Everyone
  BY <1>1 DEF BufferPages, Dense, Everyone
<1>7. /\ Apart(page_bitmap, tables, {pml4}, Everyone) /\ Covers(page_bitmap, Framebuffer)
      /\ Dense => Exact(page_bitmap, tables, {pml4}, Framebuffer)
      /\ Framebuffer \in SUBSET Pages /\ BufferPages \subseteq Conventional(map)
  <2>1. idt \cup {pml4} = {pml4}
    BY <1>2
  <2> QED
    BY <1>2, <2>1, LateFacts
<1>8. CASE FreePages(page_bitmap) = {}
  BY <1>1, <1>5, <1>6, <1>7, <1>8, ExhaustedInv
<1>9. CASE FreePages(page_bitmap) # {}
  <2>1. pc' = (IF Reaches(Always \cup BufferPages \cup {x}) THEN "timer" ELSE "fault")
    BY <1>1, <1>4, <1>9
  <2>2. Settled' /\ Framebuffer' = Framebuffer
    BY <1>1, <2>1 DEF Settled, BeforePml4, Framebuffer
  <2>3. Becomes(x, tables, {pml4}, tables', idt' \cup {pml4'})
    BY <1>1, <1>4 DEF Becomes
  <2>4. /\ Apart(page_bitmap', tables', idt' \cup {pml4'}, Everyone) /\ Covers(page_bitmap', Framebuffer)
        /\ Given(tables', idt' \cup {pml4'}) = Given(tables, {pml4}) \cup {x}
    <3>1. PICK pb, tb, X, own, fb, new, ub, Y :
            /\ pb = page_bitmap /\ tb = tables /\ X = {pml4} /\ own = Everyone /\ fb = Framebuffer
            /\ new = page_bitmap' /\ ub = tables' /\ Y = idt' \cup {pml4'}
      OBVIOUS
    <3>2. /\ Apart(pb, tb, X, own) /\ Covers(pb, fb) /\ FreePages(pb) # {}
          /\ x = req_page(pb).page /\ new = req_page(pb).pb /\ Becomes(x, tb, X, ub, Y)
      BY <1>1, <1>3, <1>7, <1>9, <2>3, <3>1
    <3>3. /\ Apart(new, ub, Y, own) /\ Covers(new, fb)
          /\ Given(ub, Y) = Given(tb, X) \cup {x}
      BY <3>2, TakeApart, SMT
    <3> QED
      BY <3>1, <3>3
  <2>5. Dense => Exact(page_bitmap', tables', idt' \cup {pml4'}, Framebuffer)
    BY <1>1, <1>3, <1>7, <1>9, <2>4, TakeExact
  <2>6. Stage'
    <3>1. pml4 \in page_bitmap.bitmap
      BY <1>7 DEF Apart, Given
    <3>2. x \notin page_bitmap.bitmap
      BY <1>2, <1>3, <1>9, Taken
    <3>3. Stage /\ BufferPages' = BufferPages /\ BufferPages \subseteq Conventional(map) /\ map' = map
      BY <1>1, <1>6, <1>7 DEF IInv
    <3>4. pml4' \notin idt' /\ done' = done /\ pc' \in {"timer", "fault"}
      BY <1>1, <1>4, <2>1, <3>1, <3>2
    <3>5. done = 0 /\ DOMAIN tables' = DOMAIN tables
      BY <1>1, <3>3 DEF Stage
    <3> QED
      BY <3>3, <3>4, <3>5 DEF Stage, BeforePml4
  <2>7. Reaches(Seen) /\ Memory \subseteq Seen /\ Always \subseteq Seen \cup {hw.stack}
    BY <1>1, LateSeen DEF AfterCr3
  <2>8. Mapped'
    <3>1. ASSUME pc' = "timer" PROVE Seen' = Seen
      BY <1>1, <3>1 DEF Seen, BeforePml4, Memory
    <3>2. ASSUME pc' = "timer" PROVE Reaches(Seen)'
      BY <1>1, <2>7, <3>1, <3>2 DEF Reaches
    <3> QED
      BY <2>1, <3>2 DEF Mapped
  <2>9. NoFault'
    <3>1. SUFFICES ASSUME pc' = "fault" PROVE \E p \in ByIdentity' : p >= TotalPages
      BY DEF NoFault
    <3>2. ~ Reaches(Always \cup BufferPages \cup {x})
      BY <2>1, <3>1
    <3>3. {hw.stack} \cup BufferPages \cup {x} \in SUBSET Nat
      BY <1>2, <1>4, PageNumbers
    <3>4. Always \cup BufferPages \cup {x} \subseteq Seen \cup ({hw.stack} \cup BufferPages \cup {x})
      BY <2>7
    <3>5. \E p \in {hw.stack} \cup BufferPages \cup {x} : p >= TotalPages
      BY <2>7, <3>2, <3>3, <3>4, Unreached
    <3>6. {hw.stack} \cup BufferPages \cup {x} \subseteq ByIdentity'
      BY <1>1, <1>4, <1>6 DEF ByIdentity, Handed
    <3> QED
      BY <3>5, <3>6
  <2> QED
    BY <1>5, <1>6, <2>2, <2>4, <2>5, <2>6, <2>8, <2>9, LateInv
<1> QED
  BY <1>8, <1>9

-----------------------------------------------------------------------------
(* map_pages. *)

(* One page mapped: tables are taken, nothing else is, and a fault means   *)
(* that a page it used was not mapped.                                     *)
Mapping == pc \in {"identity", "fb", "map_kernel", "apic", "mcfg", "bar"}
MappedOne(v, phys) ==
  /\ page_bitmap' \in PageBitmaps /\ space' = Put(space, v, phys)
  /\ \A t \in DOMAIN tables' : t \in TableNames /\ tables'[t] \in 0 .. (NBits - 1)
  /\ pc' \in {pc, "exhausted", "fault"}
  /\ pc' # "exhausted" =>
       /\ Apart(page_bitmap', tables', idt \cup {pml4}, Everyone) /\ Covers(page_bitmap', Framebuffer)
       /\ Dense => Exact(page_bitmap', tables', idt \cup {pml4}, Framebuffer)
  /\ pc' = "fault" =>
       pc = "bar" /\ ~ Reaches(Always \cup BufferPages \cup {pml4} \cup {tables'[t] : t \in DOMAIN tables'})
LEMMA MapOne ==
  ASSUME IInv, Mapping, NEW vir \in Nat, NEW phys \in Nat, NEW cnt, NEW next,
         map_pages(vir, phys, cnt, next), done < cnt
  PROVE  /\ MappedOne((vir + done) % VIR_MOD, phys + done) /\ done' = done + 1
         /\ UNCHANGED <<desc, map, hw, buffer, pml4, idt>>
         /\ (vir + done) % VIR_MOD \in 0 .. (VIR_MOD - 1)
<1>1. PICK v : v = (vir + done) % VIR_MOD
  OBVIOUS
<1>2. PICK s0 : s0 = [pb |-> page_bitmap, tables |-> tables, space |-> space, failed |-> FALSE]
  OBVIOUS
<1>3. PICK w : w = Walk(s0, v)
  OBVIOUS
<1>4. PICK s : s = map_page(s0, v, phys + done)
  OBVIOUS
<1>5. s = [pb |-> w.pb, tables |-> w.tables, space |-> Put(space, v, phys + done), failed |-> w.failed]
  BY <1>2, <1>3, <1>4 DEF map_page
<1>6. s.pb = w.pb /\ s.tables = w.tables /\ s.space = Put(space, v, phys + done) /\ s.failed = w.failed
  BY <1>5
<1>7. /\ page_bitmap' = w.pb /\ tables' = w.tables /\ space' = Put(space, v, phys + done)
      /\ done' = done + 1 /\ UNCHANGED <<desc, map, hw, buffer, pml4, idt>>
      /\ pc' = IF w.failed THEN "exhausted"
               ELSE IF pc = "bar" /\ ~ Reaches(Always \cup BufferPages \cup {pml4} \cup {w.tables[Name(level, v)] : level \in 1 .. 3})
                    THEN "fault" ELSE pc
  BY <1>1, <1>2, <1>4, <1>6 DEF map_pages
<1>8. Settled /\ TypeOK /\ done \in Nat
  BY DEF IInv, TypeOK, Mapping, Settled, BeforePml4
<1>9. v \in 0 .. (VIR_MOD - 1)
  <2>1. VIR_MOD \in Nat \ {0}
    <3>1. KERNEL_START + KernelAddr + KernelPages \in Nat \ {0} /\ KERNEL_START + KernelAddr + KernelPages <= VIR_MOD
      BY KernelAssumption, SizesAssumption
    <3> QED
      BY <3>1, Sizes
  <2> QED
    BY <1>1, <1>8, <2>1
<1>10. PICK X, own, fb : X = idt \cup {pml4} /\ own = Everyone /\ fb = Framebuffer
  OBVIOUS
<1>11. Apart(page_bitmap, tables, X, own) /\ Covers(page_bitmap, fb) /\ (Dense => Exact(page_bitmap, tables, X, fb))
  BY <1>8, <1>10, LateFacts
<1>12. fb \in SUBSET Pages
  BY <1>8, <1>10, LateFacts
<1>13. Formed(s0)
  <2>1. s0.pb = page_bitmap /\ s0.tables = tables /\ s0.space = space /\ s0.failed = FALSE
    BY <1>2
  <2> QED
    BY <1>2, <1>8, <2>1 DEF Formed, TypeOK, TableNames
<1>14. Good(s0, X, own, fb)
  BY <1>2, <1>11 DEF Good
<1>15. /\ Formed(w) /\ Good(w, X, own, fb)
       /\ \A level \in 1 .. 3 : Name(level, v) \in DOMAIN w.tables
  BY <1>3, <1>9, <1>12, <1>13, <1>14, WalkGood
<1>16. w.pb \in PageBitmaps /\ w.failed \in BOOLEAN
       /\ \A t \in DOMAIN w.tables : t \in TableNames /\ w.tables[t] \in 0 .. (NBits - 1)
  BY <1>15 DEF Formed
<1>17. pc' \in {pc, "exhausted", "fault"} /\ (pc' # "exhausted" => ~ w.failed)
  BY <1>7, <1>16
<1>18. pc' # "exhausted" =>
         /\ Apart(page_bitmap', tables', X, own) /\ Covers(page_bitmap', fb)
         /\ Dense => Exact(page_bitmap', tables', X, fb)
  BY <1>7, <1>15, <1>17 DEF Good
<1>19. pc' = "fault" =>
         pc = "bar" /\ ~ Reaches(Always \cup BufferPages \cup {pml4} \cup {tables'[t] : t \in DOMAIN tables'})
  <2>1. SUFFICES ASSUME pc' = "fault"
                 PROVE  pc = "bar" /\ ~ Reaches(Always \cup BufferPages \cup {pml4} \cup {w.tables[t] : t \in DOMAIN w.tables})
    BY <1>7
  <2>2. pc = "bar" /\ ~ Reaches(Always \cup BufferPages \cup {pml4} \cup {w.tables[Name(level, v)] : level \in 1 .. 3})
    BY <1>7, <2>1 DEF Mapping
  <2>3. {w.tables[Name(level, v)] : level \in 1 .. 3} \subseteq {w.tables[t] : t \in DOMAIN w.tables}
    BY <1>15
  <2> QED
    BY <2>2, <2>3 DEF Reaches
<1> QED
  BY <1>1, <1>7, <1>9, <1>10, <1>16, <1>17, <1>18, <1>19 DEF MappedOne

(* The step that maps one page, given what is mapped after it, *)
LEMMA MapStepInv ==
  ASSUME IInv, Mapping, NEW vir \in Nat, NEW phys \in Nat, NEW cnt, NEW next,
         map_pages(vir, phys, cnt, next), done < cnt, pc' = pc => Mapped'
  PROVE  IInv'
<1>1. PICK v : v = (vir + done) % VIR_MOD
  OBVIOUS
<1>2. /\ MappedOne(v, phys + done) /\ done' = done + 1 /\ v \in 0 .. (VIR_MOD - 1)
      /\ UNCHANGED <<desc, map, hw, buffer, pml4, idt>>
  BY <1>1, MapOne
<1>3. Settled /\ TypeOK /\ Stage /\ pc # "lock_fb" /\ done \in Nat
  BY DEF IInv, TypeOK, Mapping, Settled, BeforePml4
<1>4. BufferPages \subseteq Conventional(map)
  BY <1>3, LateFacts
<1>5. BufferPages' = BufferPages /\ (Dense' <=> Dense) /\ Everyone' = Everyone
  BY <1>2 DEF BufferPages, Dense, Everyone
<1>6. TypeOK'
  <2>1. \A z \in DOMAIN space' : z \in 0 .. (VIR_MOD - 1) /\ space'[z] \in Nat
    <3>1. space' = Put(space, v, phys + done) /\ phys + done \in Nat
      BY <1>2, <1>3 DEF MappedOne
    <3>2. \A z \in DOMAIN space : z \in 0 .. (VIR_MOD - 1) /\ space[z] \in Nat
      BY <1>3 DEF TypeOK
    <3> QED
      BY <1>2, <3>1, <3>2 DEF Put
  <2>2. /\ page_bitmap' \in PageBitmaps /\ pc' \in {pc, "exhausted", "fault"}
        /\ \A t \in DOMAIN tables' : t \in TableNames /\ tables'[t] \in 0 .. (NBits - 1)
    BY <1>2 DEF MappedOne
  <2> QED
    BY <1>2, <1>3, <2>1, <2>2 DEF TypeOK, TableNames
<1>7. CASE pc' = "exhausted"
  BY <1>2, <1>4, <1>5, <1>6, <1>7, ExhaustedInv
<1>8. CASE pc' # "exhausted"
  <2>1. /\ Apart(page_bitmap', tables', idt' \cup {pml4'}, Everyone') /\ Covers(page_bitmap', Framebuffer)
        /\ Dense => Exact(page_bitmap', tables', idt' \cup {pml4'}, Framebuffer)
    BY <1>2, <1>5, <1>8 DEF MappedOne
  <2>2. pc' = pc \/ (pc = "bar" /\ pc' = "fault")
    BY <1>2, <1>8 DEF MappedOne
  <2>3. Settled' /\ Framebuffer' = Framebuffer
    BY <1>2, <2>2 DEF Mapping, Settled, BeforePml4, Framebuffer
  <2>4. Stage'
    BY <1>2, <1>3, <1>4, <1>5, <2>2 DEF Stage, Mapping, BeforePml4
  <2>5. Mapped'
    BY <2>2 DEF Mapped
  <2>6. NoFault'
    <3>1. SUFFICES ASSUME pc' = "fault" PROVE \E p \in ByIdentity' : p >= TotalPages
      BY DEF NoFault
    <3>2. PICK taken : taken = {pml4} \cup {tables'[t] : t \in DOMAIN tables'}
      OBVIOUS
    <3>3. pc = "bar" /\ ~ Reaches(Always \cup BufferPages \cup taken)
      BY <1>2, <3>1, <3>2 DEF MappedOne
    <3>4. Reaches(Seen) /\ Memory \subseteq Seen /\ Always \subseteq Seen \cup {hw.stack}
      BY <3>3, LateSeen DEF AfterCr3
    <3>5. {hw.stack} \cup BufferPages \cup taken \in SUBSET Nat
      <4>1. \A t \in DOMAIN tables' : tables'[t] \in Nat
        BY <1>2, Sizes DEF MappedOne
      <4>2. taken \subseteq Nat
        BY <1>3, <3>2, <4>1, PageNumbers
      <4> QED
        BY <1>3, <4>2, PageNumbers
    <3>6. Always \cup BufferPages \cup taken \subseteq Seen \cup ({hw.stack} \cup BufferPages \cup taken)
      BY <3>4
    <3>7. \E p \in {hw.stack} \cup BufferPages \cup taken : p >= TotalPages
      BY <3>3, <3>4, <3>5, <3>6, Unreached
    <3>8. {hw.stack} \cup BufferPages \cup taken \subseteq ByIdentity'
      BY <1>2, <1>5, <2>3, <3>2 DEF ByIdentity, Handed, TablePages, Settled
    <3> QED
      BY <3>7, <3>8
  <2> QED
    BY <1>5, <1>6, <2>1, <2>3, <2>4, <2>5, <2>6, LateInv
<1> QED
  BY <1>7, <1>8

(* and the one that leaves the loop. *)
LEMMA MapExitInv ==
  ASSUME IInv, Mapping, NEW vir, NEW phys, NEW cnt,
         NEW next \in {"lock_fb", "map_kernel", "apic", "mcfg", "cr3", "nvme"},
         (pc = "identity" /\ next = "lock_fb") \/ (pc # "identity" /\ next # "lock_fb"),
         pc = "bar" <=> next = "nvme",
         map_pages(vir, phys, cnt, next), ~ (done < cnt), Mapped'
  PROVE  IInv'
<1>1. /\ done' = 0 /\ pc' = next
      /\ UNCHANGED <<desc, map, hw, page_bitmap, buffer, pml4, tables, space, idt>>
  BY DEF map_pages
<1>2. Settled /\ TypeOK /\ Stage
  BY DEF IInv, Mapping, Settled, BeforePml4
<1>3. TypeOK'
  BY <1>1, <1>2 DEF TypeOK
<1>4. Settled' /\ NoFault'
  BY <1>1 DEF Settled, BeforePml4, NoFault
<1>5. hw.fb_pages \in Nat
  BY <1>2, HardwareAssumption DEF TypeOK
<1>6. BufferPages' = BufferPages
  BY <1>1 DEF BufferPages
<1>7. Stage'
  BY <1>1, <1>2, <1>5, <1>6 DEF Stage, Mapping, BeforePml4
<1>8. Framebuffer' = Framebuffer
  BY <1>1 DEF Framebuffer, Mapping, BeforePml4
<1> QED
  BY <1>1, <1>2, <1>3, <1>4, <1>7, <1>8, QuietInv

(* A page mapped to itself is reached, and so is what was reached before;  *)
(* a page mapped elsewhere hides only itself.                              *)
ReachedIn(f, S) == \A p \in S : p \in DOMAIN f /\ f[p] = p
LEMMA PutReach ==
  ASSUME NEW f, NEW v, NEW y, NEW S, ReachedIn(f, S)
  PROVE  /\ v = y => ReachedIn(Put(f, v, y), S \cup {v})
         /\ v \notin S => ReachedIn(Put(f, v, y), S)
  BY DEF ReachedIn, Put

(* What the assumptions place within reach does not wrap. *)
LEMMA Unwrapped ==
  ASSUME NEW a \in Nat, NEW n \in Nat, NEW c \in Nat, n < c
  PROVE  /\ a + c <= VIR_MOD => (a + n) % VIR_MOD = a + n
         /\ a + c <= SIZE_MOD => (a + n) % SIZE_MOD = a + n
<1>1. ASSUME NEW M \in Nat, a + c <= M PROVE (a + n) % M = a + n
  <2>1. a + n \in 0 .. (M - 1) /\ M \in Nat \ {0}
    BY <1>1
  <2> QED
    BY <2>1, ModFirst
<1> QED
  BY <1>1, Sizes

(* Memory is mapped to itself, page by page (kernel.c:75). *)
LEMMA MapIdentityStep == ASSUME IInv, MapIdentity PROVE IInv'
<1>1. pc = "identity" /\ map_pages(0, 0, TotalPages, "lock_fb") /\ Mapping
  BY DEF MapIdentity, Mapping
<1>2. done \in Nat /\ 0 \in Nat /\ 0 + done = done
  BY DEF IInv, TypeOK
<1>3. Seen = 0 .. (done - 1) /\ ReachedIn(space, Seen)
  BY <1>1 DEF IInv, Mapped, Reaches, ReachedIn, Seen, BeforePml4
<1>4. CASE done < TotalPages
  <2>1. MappedOne((0 + done) % VIR_MOD, 0 + done) /\ done' = done + 1
    BY <1>1, <1>2, <1>4, MapOne
  <2>2. (0 + done) % VIR_MOD = done
    BY <1>2, <1>4, Sizes, Unwrapped
  <2>3. space' = Put(space, done, done)
    BY <1>2, <2>1, <2>2 DEF MappedOne
  <2>4. ReachedIn(space', Seen \cup {done})
    BY <1>3, <2>3, PutReach
  <2>5. pc' = pc => Seen' = Seen \cup {done}
    <3>1. 0 .. ((done + 1) - 1) = (0 .. (done - 1)) \cup {done}
      BY <1>2
    <3> QED
      BY <1>1, <1>3, <2>1, <3>1 DEF Seen, BeforePml4
  <2>6. pc' = pc => Mapped'
    BY <2>4, <2>5 DEF Mapped, Reaches, ReachedIn
  <2> QED
    BY <1>1, <1>2, <1>4, <2>6, MapStepInv
<1>5. CASE ~ (done < TotalPages)
  <2>1. pc' = "lock_fb" /\ space' = space
    BY <1>1, <1>5 DEF map_pages
  <2>2. Memory \subseteq Seen
    BY <1>2, <1>3, <1>5, Sizes DEF Memory
  <2>3. Seen' = Memory
    BY <2>1 DEF Seen, BeforePml4, Memory
  <2>4. Mapped'
    BY <1>3, <2>1, <2>2, <2>3 DEF Mapped, Reaches, ReachedIn
  <2> QED
    BY <1>1, <1>5, <2>4, MapExitInv
<1> QED
  BY <1>4, <1>5

(* The framebuffer, to itself (kernel.c:78). *)
LEMMA MapFramebufferStep == ASSUME IInv, MapFramebuffer PROVE IInv'
<1>1. pc = "fb" /\ map_pages(hw.fb, hw.fb, hw.fb_pages, "map_kernel") /\ Mapping
  BY DEF MapFramebuffer, Mapping
<1>2. /\ done \in Nat /\ hw.fb \in Nat /\ hw.fb_pages \in Nat
      /\ hw.fb + hw.fb_pages <= VIR_MOD /\ hw.fb + hw.fb_pages <= SIZE_MOD
  BY Devices DEF IInv, TypeOK
<1>3. Seen = Memory \cup Range0(hw.fb, done) /\ ReachedIn(space, Seen)
  BY <1>1 DEF IInv, Mapped, Reaches, ReachedIn, Seen, BeforePml4
<1>4. CASE done < hw.fb_pages
  <2>1. PICK v : v = hw.fb + done
    OBVIOUS
  <2>2. MappedOne(v % VIR_MOD, v) /\ done' = done + 1 /\ hw' = hw
    BY <1>1, <1>2, <1>4, <2>1, MapOne
  <2>3. v % VIR_MOD = v /\ v % SIZE_MOD = v
    BY <1>2, <1>4, <2>1, Unwrapped, Sizes
  <2>4. ReachedIn(space', Seen \cup {v})
    <3>1. space' = Put(space, v, v)
      BY <2>2, <2>3 DEF MappedOne
    <3> QED
      BY <1>3, <3>1, PutReach
  <2>5. pc' = pc => Seen' = Seen \cup {v}
    <3>1. Range0(hw.fb, done + 1) = Range0(hw.fb, done) \cup {v}
      BY <1>2, <2>1, <2>3, RangeStep
    <3>2. pc' = pc => Seen' = Memory \cup Range0(hw.fb, done + 1)
      BY <1>1, <2>2 DEF Seen, BeforePml4, Memory
    <3> QED
      BY <1>3, <3>1, <3>2
  <2>6. pc' = pc => Mapped'
    BY <2>4, <2>5 DEF Mapped, Reaches, ReachedIn
  <2> QED
    BY <1>1, <1>2, <1>4, <2>6, MapStepInv
<1>5. CASE ~ (done < hw.fb_pages)
  <2>1. pc' = "map_kernel" /\ space' = space /\ hw' = hw
    BY <1>1, <1>5 DEF map_pages
  <2>2. Range0(hw.fb, hw.fb_pages) \subseteq Range0(hw.fb, done)
    BY <1>2, <1>5, RangeMore
  <2>3. Seen' = Memory \cup Range0(hw.fb, hw.fb_pages)
    BY <2>1 DEF Seen, BeforePml4, Memory
  <2>4. Mapped'
    BY <1>3, <2>1, <2>2, <2>3 DEF Mapped, Reaches, ReachedIn
  <2> QED
    BY <1>1, <1>5, <2>4, MapExitInv
<1> QED
  BY <1>4, <1>5

(* The kernel's second mapping is above memory and the framebuffer: it     *)
(* hides nothing.                                                          *)
LEMMA MapKernelStep == ASSUME IInv, MapKernel PROVE IInv'
<1>1. pc = "map_kernel" /\ map_pages(KERNEL_START + KernelAddr, KernelAddr, KernelPages, "apic") /\ Mapping
  BY DEF MapKernel, Mapping
<1>2. PICK a : a = KERNEL_START + KernelAddr
  OBVIOUS
<1>3. /\ done \in Nat /\ a \in Nat /\ KernelAddr \in Nat /\ KernelPages \in Nat /\ a + KernelPages <= VIR_MOD
      /\ TotalPages <= a
  BY <1>2, KernelAssumption, SizesAssumption DEF IInv, TypeOK
<1>4. PICK fb : fb = Range0(hw.fb, hw.fb_pages)
  OBVIOUS
<1>5. Seen = Memory \cup fb /\ ReachedIn(space, Seen)
  BY <1>1, <1>4 DEF IInv, Mapped, Reaches, ReachedIn, Seen, BeforePml4
<1>6. \A p \in Memory \cup fb : p \in Nat /\ p < a
  <2>1. /\ hw.fb \in Nat /\ hw.fb_pages \in Nat /\ hw.fb + hw.fb_pages <= SIZE_MOD /\ hw.fb + hw.fb_pages <= a
    BY <1>2, Devices DEF IInv, TypeOK
  <2>2. fb = hw.fb .. (hw.fb + hw.fb_pages - 1)
    BY <1>4, <2>1, RangeFlat
  <2> QED
    BY <1>3, <2>1, <2>2, Sizes DEF Memory
<1>7. CASE done < KernelPages
  <2>1. MappedOne((a + done) % VIR_MOD, KernelAddr + done) /\ hw' = hw
    BY <1>1, <1>2, <1>3, <1>7, MapOne
  <2>2. (a + done) % VIR_MOD = a + done
    BY <1>3, <1>7, Unwrapped
  <2>3. ReachedIn(space', Memory \cup fb)
    <3>1. space' = Put(space, a + done, KernelAddr + done)
      BY <2>1, <2>2 DEF MappedOne
    <3>2. a + done \notin Memory \cup fb
      BY <1>3, <1>6
    <3> QED
      BY <1>5, <3>1, <3>2, PutReach
  <2>4. pc' = pc => Seen' = Memory \cup fb
    BY <1>1, <1>4, <2>1 DEF Seen, BeforePml4, Memory
  <2>5. pc' = pc => Mapped'
    BY <2>3, <2>4 DEF Mapped, Reaches, ReachedIn
  <2> QED
    BY <1>1, <1>2, <1>3, <1>7, <2>5, MapStepInv
<1>8. CASE ~ (done < KernelPages)
  <2>1. pc' = "apic" /\ space' = space /\ done' = 0 /\ hw' = hw
    BY <1>1, <1>8 DEF map_pages
  <2>2. Range0(hw.apic, 0) = {}
    BY Devices, RangeStep DEF IInv, TypeOK
  <2>3. Seen' = Memory \cup fb
    BY <1>4, <2>1, <2>2 DEF Seen, BeforePml4, Memory
  <2>4. Mapped'
    BY <1>5, <2>1, <2>3 DEF Mapped, Reaches, ReachedIn
  <2> QED
    BY <1>1, <1>8, <2>4, MapExitInv
<1> QED
  BY <1>7, <1>8

(* The APIC's registers, to themselves (kernel.c:82-84). *)
LEMMA MapApicStep == ASSUME IInv, MapApic PROVE IInv'
<1>1. pc = "apic" /\ map_pages(hw.apic, hw.apic, 1, "mcfg") /\ Mapping
  BY DEF MapApic, Mapping
<1>2. /\ done \in Nat /\ hw.apic \in Nat /\ hw.apic + 1 <= VIR_MOD /\ hw.apic + 1 <= SIZE_MOD /\ hw.mcfg \in Nat
  BY Devices DEF IInv, TypeOK
<1>3. Seen = Memory \cup Range0(hw.fb, hw.fb_pages) \cup Range0(hw.apic, done) /\ ReachedIn(space, Seen)
  BY <1>1 DEF IInv, Mapped, Reaches, ReachedIn, Seen, BeforePml4
<1>4. CASE done < 1
  <2>1. PICK v : v = hw.apic + done
    OBVIOUS
  <2>2. MappedOne(v % VIR_MOD, v) /\ done' = done + 1 /\ hw' = hw
    BY <1>1, <1>2, <1>4, <2>1, MapOne
  <2>3. v % VIR_MOD = v /\ v % SIZE_MOD = v
    BY <1>2, <1>4, <2>1, Unwrapped, Sizes
  <2>4. ReachedIn(space', Seen \cup {v})
    <3>1. space' = Put(space, v, v)
      BY <2>2, <2>3 DEF MappedOne
    <3> QED
      BY <1>3, <3>1, PutReach
  <2>5. pc' = pc => Seen' = Seen \cup {v}
    <3>1. Range0(hw.apic, done + 1) = Range0(hw.apic, done) \cup {v}
      BY <1>2, <2>1, <2>3, RangeStep
    <3>2. pc' = pc => Seen' = Memory \cup Range0(hw.fb, hw.fb_pages) \cup Range0(hw.apic, done + 1)
      BY <1>1, <2>2 DEF Seen, BeforePml4, Memory
    <3> QED
      BY <1>3, <3>1, <3>2
  <2>6. pc' = pc => Mapped'
    BY <2>4, <2>5 DEF Mapped, Reaches, ReachedIn
  <2> QED
    BY <1>1, <1>2, <1>4, <2>6, MapStepInv
<1>5. CASE ~ (done < 1)
  <2>1. pc' = "mcfg" /\ space' = space /\ done' = 0 /\ hw' = hw
    BY <1>1, <1>5 DEF map_pages
  <2>2. Range0(hw.apic, 1) \subseteq Range0(hw.apic, done) /\ Range0(hw.mcfg, 0) = {}
    <3>1. 1 <= done /\ 1 \in Nat
      BY <1>2, <1>5
    <3>2. Range0(hw.apic, 1) \subseteq Range0(hw.apic, done)
      BY <1>2, <3>1, RangeMore
    <3>3. Range0(hw.mcfg, 0) = {}
      BY <1>2, RangeStep
    <3> QED
      BY <3>2, <3>3
  <2>3. Seen' = Memory \cup Range0(hw.fb, hw.fb_pages) \cup Range0(hw.apic, 1) \cup Range0(hw.mcfg, 0)
    BY <2>1 DEF Seen, BeforePml4, Memory
  <2>4. Mapped'
    BY <1>3, <2>1, <2>2, <2>3 DEF Mapped, Reaches, ReachedIn
  <2> QED
    BY <1>1, <1>5, <2>4, MapExitInv
<1> QED
  BY <1>4, <1>5

(* The MCFG table, to itself (kernel.c:86-88). *)
LEMMA MapMcfgStep == ASSUME IInv, MapMcfg PROVE IInv'
<1>1. pc = "mcfg" /\ map_pages(hw.mcfg, hw.mcfg, hw.mcfg_pages, "cr3") /\ Mapping
  BY DEF MapMcfg, Mapping
<1>2. /\ done \in Nat /\ hw.mcfg \in Nat /\ hw.mcfg_pages \in Nat
      /\ hw.mcfg + hw.mcfg_pages <= VIR_MOD /\ hw.mcfg + hw.mcfg_pages <= SIZE_MOD
  BY Devices DEF IInv, TypeOK
<1>3. Seen = Memory \cup Range0(hw.fb, hw.fb_pages) \cup Range0(hw.apic, 1) \cup Range0(hw.mcfg, done) /\ ReachedIn(space, Seen)
  BY <1>1 DEF IInv, Mapped, Reaches, ReachedIn, Seen, BeforePml4
<1>4. CASE done < hw.mcfg_pages
  <2>1. PICK v : v = hw.mcfg + done
    OBVIOUS
  <2>2. MappedOne(v % VIR_MOD, v) /\ done' = done + 1 /\ hw' = hw
    BY <1>1, <1>2, <1>4, <2>1, MapOne
  <2>3. v % VIR_MOD = v /\ v % SIZE_MOD = v
    BY <1>2, <1>4, <2>1, Unwrapped, Sizes
  <2>4. ReachedIn(space', Seen \cup {v})
    <3>1. space' = Put(space, v, v)
      BY <2>2, <2>3 DEF MappedOne
    <3> QED
      BY <1>3, <3>1, PutReach
  <2>5. pc' = pc => Seen' = Seen \cup {v}
    <3>1. Range0(hw.mcfg, done + 1) = Range0(hw.mcfg, done) \cup {v}
      BY <1>2, <2>1, <2>3, RangeStep
    <3>2. pc' = pc => Seen' = Memory \cup Range0(hw.fb, hw.fb_pages) \cup Range0(hw.apic, 1) \cup Range0(hw.mcfg, done + 1)
      BY <1>1, <2>2 DEF Seen, BeforePml4, Memory
    <3> QED
      BY <1>3, <3>1, <3>2
  <2>6. pc' = pc => Mapped'
    BY <2>4, <2>5 DEF Mapped, Reaches, ReachedIn
  <2> QED
    BY <1>1, <1>2, <1>4, <2>6, MapStepInv
<1>5. CASE ~ (done < hw.mcfg_pages)
  <2>1. pc' = "cr3" /\ space' = space /\ hw' = hw
    BY <1>1, <1>5 DEF map_pages
  <2>2. Range0(hw.mcfg, hw.mcfg_pages) \subseteq Range0(hw.mcfg, done)
    BY <1>2, <1>5, RangeMore
  <2>3. Seen' = Memory \cup Range0(hw.fb, hw.fb_pages) \cup Range0(hw.apic, 1) \cup Range0(hw.mcfg, hw.mcfg_pages)
    BY <2>1 DEF Seen, BeforePml4, Memory
  <2>4. Mapped'
    BY <1>3, <2>1, <2>2, <2>3 DEF Mapped, Reaches, ReachedIn
  <2> QED
    BY <1>1, <1>5, <2>4, MapExitInv
<1> QED
  BY <1>4, <1>5

(* The controller's registers, through the new tables (kernel.c:135-146). *)
LEMMA MapBarStep == ASSUME IInv, MapBar PROVE IInv'
<1>1. pc = "bar" /\ map_pages(hw.bar, hw.bar, 3, "nvme") /\ Mapping
  BY DEF MapBar, Mapping
<1>2. done \in Nat /\ hw.bar \in Nat /\ hw.bar + 3 <= VIR_MOD /\ hw.bar + 3 <= SIZE_MOD
  BY Devices DEF IInv, TypeOK
<1>3. PICK before : before = Memory \cup Range0(hw.fb, hw.fb_pages) \cup Range0(hw.apic, 1) \cup Range0(hw.mcfg, hw.mcfg_pages)
  OBVIOUS
<1>4. Seen = before \cup Range0(hw.bar, done) /\ ReachedIn(space, Seen)
  BY <1>1, <1>3 DEF IInv, Mapped, Reaches, ReachedIn, Seen, BeforePml4
<1>5. CASE done < 3
  <2>1. PICK v : v = hw.bar + done
    OBVIOUS
  <2>2. MappedOne(v % VIR_MOD, v) /\ done' = done + 1 /\ hw' = hw
    BY <1>1, <1>2, <1>5, <2>1, MapOne
  <2>3. v % VIR_MOD = v /\ v % SIZE_MOD = v
    BY <1>2, <1>5, <2>1, Unwrapped
  <2>4. ReachedIn(space', Seen \cup {v})
    <3>1. space' = Put(space, v, v)
      BY <2>2, <2>3 DEF MappedOne
    <3> QED
      BY <1>4, <3>1, PutReach
  <2>5. pc' = pc => Seen' = Seen \cup {v}
    <3>1. Range0(hw.bar, done + 1) = Range0(hw.bar, done) \cup {v}
      BY <1>2, <2>1, <2>3, RangeStep
    <3>2. pc' = pc => Seen' = before \cup Range0(hw.bar, done + 1)
      BY <1>1, <1>3, <2>2 DEF Seen, BeforePml4, Memory
    <3> QED
      BY <1>4, <3>1, <3>2
  <2>6. pc' = pc => Mapped'
    BY <2>4, <2>5 DEF Mapped, Reaches, ReachedIn
  <2> QED
    BY <1>1, <1>2, <1>5, <2>6, MapStepInv
<1>6. CASE ~ (done < 3)
  <2>1. pc' = "nvme" /\ space' = space /\ hw' = hw
    BY <1>1, <1>6 DEF map_pages
  <2>2. Range0(hw.bar, 3) \subseteq Range0(hw.bar, done)
    <3>1. 3 <= done /\ 3 \in Nat
      BY <1>2, <1>6
    <3> QED
      BY <1>2, <3>1, RangeMore
  <2>3. Seen' = before \cup Range0(hw.bar, 3)
    BY <1>3, <2>1 DEF Seen, BeforePml4, Memory
  <2>4. Mapped'
    BY <1>4, <2>1, <2>2, <2>3 DEF Mapped, Reaches, ReachedIn
  <2> QED
    BY <1>1, <1>6, <2>4, MapExitInv
<1> QED
  BY <1>5, <1>6

-----------------------------------------------------------------------------
(* The framebuffer is locked after tables were taken: a table may be in    *)
(* it, and stays there.                                                    *)
LEMMA LockFramebufferStep == ASSUME IInv, LockFramebuffer PROVE IInv'
<1>1. /\ pc = "lock_fb" /\ lock_pages(hw.fb, hw.fb_pages, "fb")
      /\ UNCHANGED <<desc, map, hw, buffer, pml4, tables, space, idt>>
  BY DEF LockFramebuffer, lock_pages
<1>2. /\ TypeOK /\ Stage /\ Settled /\ done \in Nat /\ done <= hw.fb_pages /\ page_bitmap \in PageBitmaps
      /\ ReachedIn(space, Seen) /\ Seen = Memory
  BY <1>1 DEF IInv, Stage, TypeOK, Settled, BeforePml4, Mapped, Seen, Reaches, ReachedIn
<1>3. hw.fb \in Nat /\ hw.fb_pages \in Nat /\ hw.fb + hw.fb_pages <= SIZE_MOD
  BY <1>2, Devices DEF TypeOK
<1>4. Framebuffer = Range0(hw.fb, done)
  BY <1>1 DEF Framebuffer, BeforePml4
<1>5. PICK X : X = idt \cup {pml4}
  OBVIOUS
<1>6. /\ Apart(page_bitmap, tables, X, Everyone) /\ Covers(page_bitmap, Framebuffer)
      /\ Dense => Exact(page_bitmap, tables, X, Framebuffer)
      /\ Framebuffer \in SUBSET Pages
  BY <1>2, <1>5, LateFacts
<1>7. BufferPages' = BufferPages /\ (Dense' <=> Dense) /\ Everyone' = Everyone
  BY <1>1 DEF BufferPages, Dense, Everyone
<1>8. CASE done < hw.fb_pages
  <2>1. PICK x : x = (hw.fb + done) % SIZE_MOD
    OBVIOUS
  <2>2. page_bitmap' = lock_page(page_bitmap, x) /\ done' = done + 1 /\ pc' = pc
    BY <1>1, <1>8, <2>1 DEF lock_pages
  <2>3. x \in Pages /\ Range0(hw.fb, done + 1) = Range0(hw.fb, done) \cup {x}
    BY <1>2, <1>3, <2>1, RangeStep
  <2>4. Marks(page_bitmap, page_bitmap', x)
    BY <1>2, <2>2, <2>3, MarkPage
  <2>5. Framebuffer' = Framebuffer \cup {x}
    BY <1>1, <1>4, <2>2, <2>3 DEF Framebuffer, BeforePml4
  <2>6. x \notin Framebuffer
    <3>1. x = hw.fb + done
      BY <1>2, <1>3, <1>8, <2>1, Unwrapped
    <3>2. Range0(hw.fb, done) = hw.fb .. (hw.fb + done - 1)
      <4>1. hw.fb + done <= SIZE_MOD
        BY <1>2, <1>3, Sizes
      <4> QED
        BY <1>2, <1>3, <4>1, RangeFlat
    <3> QED
      BY <1>2, <1>3, <1>4, <3>1, <3>2
  <2>7. Apart(page_bitmap', tables, X, Everyone) /\ Covers(page_bitmap', Framebuffer \cup {x})
    BY <1>6, <2>4, MarkApart
  <2>8. ASSUME Dense PROVE Exact(page_bitmap', tables, X, Framebuffer \cup {x})
    <3>1. PICK pb, tb, own, fb, new, gb :
            /\ pb = page_bitmap /\ tb = tables /\ own = Everyone /\ fb = Framebuffer
            /\ new = page_bitmap' /\ gb = Framebuffer \cup {x}
      OBVIOUS
    <3>2. /\ Apart(pb, tb, X, own) /\ Marks(pb, new, x) /\ Exact(pb, tb, X, fb) /\ fb \in SUBSET Pages
          /\ gb \ Memory = (fb \cup {x}) \ Memory /\ (x \in Memory \/ x \notin fb)
      BY <1>6, <2>4, <2>6, <2>8, <3>1
    <3>3. Exact(new, tb, X, gb)
      BY <2>3, <3>2, MarkExact
    <3> QED
      BY <3>1, <3>3
  <2>9. TypeOK'
    BY <1>1, <1>2, <2>2, <2>4 DEF TypeOK, Marks
  <2>10. Stage' /\ Settled' /\ NoFault'
    BY <1>1, <1>2, <1>3, <1>7, <1>8, <2>2 DEF Stage, BeforePml4, Settled, NoFault
  <2>11. Mapped'
    <3>1. Seen' = Memory
      BY <1>1, <2>2 DEF Seen, BeforePml4, Memory
    <3> QED
      BY <1>1, <1>2, <3>1 DEF Mapped, Reaches, ReachedIn
  <2> QED
    BY <1>1, <1>5, <1>7, <2>5, <2>7, <2>8, <2>9, <2>10, <2>11, LateInv
<1>9. CASE ~ (done < hw.fb_pages)
  <2>1. page_bitmap' = page_bitmap /\ done' = 0 /\ pc' = "fb"
    BY <1>1, <1>9 DEF lock_pages
  <2>2. done = hw.fb_pages
    BY <1>2, <1>3, <1>9
  <2>3. Framebuffer' = Framebuffer
    BY <1>1, <1>4, <2>1, <2>2 DEF Framebuffer, BeforePml4
  <2>4. TypeOK'
    BY <1>1, <1>2, <2>1 DEF TypeOK
  <2>5. Stage' /\ Settled' /\ NoFault'
    BY <1>1, <1>2, <1>7, <2>1 DEF Stage, BeforePml4, Settled, NoFault
  <2>6. Mapped'
    <3>1. Range0(hw.fb, 0) = {} /\ hw' = hw
      BY <1>1, <1>3, RangeStep
    <3>2. Seen' = Memory
      BY <2>1, <3>1 DEF Seen, BeforePml4, Memory
    <3> QED
      BY <1>1, <1>2, <3>2 DEF Mapped, Reaches, ReachedIn
  <2> QED
    BY <1>1, <1>2, <2>1, <2>3, <2>4, <2>5, <2>6, QuietInv
<1> QED
  BY <1>8, <1>9

(* What is touched once cr3 is loaded. *)
Touching == pc \in {"cr3", "timer", "bootdisk", "nvme"}
LEMMA TouchInv ==
  ASSUME IInv, Touching, NEW S, NEW next \in {"set_idt", "bootdisk", "bar", "no_disk", "running"},
         pc = "cr3" <=> next = "set_idt", pc = "bootdisk" <=> next \in {"bar", "no_disk"},
         pc = "nvme" <=> next = "running",
         pc' = (IF Reaches(S) THEN next ELSE "fault"), S \subseteq Seen \cup ByIdentity,
         UNCHANGED <<done, desc, map, hw, page_bitmap, buffer, pml4, tables, space, idt>>
  PROVE  IInv'
<1>1. TypeOK /\ Stage /\ Settled /\ Reaches(Seen) /\ Memory \subseteq Seen
  BY LateSeen DEF IInv, Touching, Settled, BeforePml4, AfterCr3
<1>2. TypeOK'
  BY <1>1 DEF TypeOK
<1>3. BufferPages' = BufferPages /\ (Dense' <=> Dense)
  BY DEF BufferPages, Dense
<1>4. Stage' /\ Settled'
  BY <1>1, <1>3 DEF Stage, Touching, Settled, BeforePml4
<1>5. Framebuffer' = Framebuffer
  BY DEF Framebuffer, Touching, BeforePml4
<1>6. Mapped'
  <2>1. ASSUME pc' = next PROVE Seen' = Seen
    <3>1. pc = "bootdisk" => done = 0
      BY <1>1 DEF Stage
    <3>2. hw.bar \in Nat
      BY <1>1, Devices DEF TypeOK
    <3>3. Range0(hw.bar, 0) = {}
      BY <3>2, RangeStep
    <3> QED
      BY <2>1, <3>1, <3>3 DEF Seen, Touching, BeforePml4, Memory
  <2> QED
    BY <1>1, <2>1 DEF Mapped, Reaches
<1>7. NoFault'
  <2>1. SUFFICES ASSUME ~ Reaches(S) PROVE \E p \in ByIdentity' : p >= TotalPages
    BY DEF NoFault
  <2>2. ByIdentity' = ByIdentity
    BY <1>1, <1>4 DEF ByIdentity, BufferPages, Handed, TablePages, Settled
  <2>3. ByIdentity \in SUBSET Nat
    BY <1>1, PageNumbers DEF ByIdentity, Handed
  <2> QED
    BY <1>1, <2>1, <2>2, <2>3, Unreached
<1> QED
  BY <1>1, <1>2, <1>4, <1>5, <1>6, <1>7, QuietInv

(* Every page that is mapped has the tables on the way to it. *)
Linked == \A v \in DOMAIN space, level \in 1 .. 3 : Name(level, v) \in DOMAIN tables
LEMMA TableNamed ==
  ASSUME NEW s, NEW level, NEW v
  PROVE  DOMAIN Table(s, level, v).tables = DOMAIN s.tables \cup {Name(level, v)}
<1>1. CASE Name(level, v) \in DOMAIN s.tables
  BY <1>1, Zenon DEF Table
<1>2. CASE Name(level, v) \notin DOMAIN s.tables
  <2>1. Table(s, level, v).tables = Put(s.tables, Name(level, v), req_page(s.pb).page)
    BY <1>2 DEF Table
  <2> QED
    BY <2>1 DEF Put
<1> QED
  BY <1>1, <1>2
LEMMA LinkedStep ==
  ASSUME Linked, [Next]_vars
  PROVE  Linked'
<1>1. CASE tables' = tables /\ space' = space
  BY <1>1 DEF Linked
<1>2. CASE \E vir, phys, cnt, next : map_pages(vir, phys, cnt, next)
  <2>1. PICK vir, phys, cnt, next : map_pages(vir, phys, cnt, next)
    BY <1>2
  <2>2. CASE ~ (done < cnt)
    <3>1. tables' = tables /\ space' = space
      BY <2>1, <2>2 DEF map_pages
    <3> QED
      BY <1>1, <3>1
  <2>3. CASE done < cnt
    <3>1. PICK v : v = (vir + done) % VIR_MOD
      OBVIOUS
    <3>2. PICK s : s = [pb |-> page_bitmap, tables |-> tables, space |-> space, failed |-> FALSE]
      OBVIOUS
    <3>3. tables' = Walk(s, v).tables /\ space' = Put(space, v, phys + done) /\ s.tables = tables
      BY <2>1, <2>3, <3>1, <3>2 DEF map_pages, map_page
    <3>4. DOMAIN tables' = DOMAIN tables \cup {Name(3, v)} \cup {Name(2, v)} \cup {Name(1, v)}
      <4>1. DOMAIN Walk(s, v).tables = DOMAIN s.tables \cup {Name(3, v)} \cup {Name(2, v)} \cup {Name(1, v)}
        BY TableNamed DEF Walk
      <4> QED
        BY <3>3, <4>1
    <3>5. DOMAIN space' = DOMAIN space \cup {v}
      BY <3>3 DEF Put
    <3> QED
      BY <3>4, <3>5 DEF Linked
  <2> QED
    BY <2>2, <2>3
<1>3. \/ tables' = tables /\ space' = space
      \/ \E vir, phys, cnt, next : map_pages(vir, phys, cnt, next)
  <2>1. CASE UNCHANGED vars \/ Done
    BY <2>1 DEF vars, Done
  <2>2. CASE PlaceBitmap \/ LockBitmap \/ ReserveFirmware \/ ReserveKernel \/ NewPml4 \/ LockFramebuffer
    BY <2>2 DEF PlaceBitmap, LockBitmap, ReserveFirmware, ReserveKernel, NewPml4, LockFramebuffer,
                lock_pages, reserve_pages
  <2>3. CASE LoadCr3 \/ SetIdt \/ SetApicTimer \/ FindBootdisk \/ InitNvme
    BY <2>3 DEF LoadCr3, SetIdt, SetApicTimer, FindBootdisk, InitNvme
  <2>4. CASE MapIdentity \/ MapFramebuffer \/ MapKernel \/ MapApic \/ MapMcfg \/ MapBar
    BY <2>4, Zenon DEF MapIdentity, MapFramebuffer, MapKernel, MapApic, MapMcfg, MapBar
  <2> QED
    BY <2>1, <2>2, <2>3, <2>4 DEF Next
<1> QED
  BY <1>1, <1>2, <1>3

(* The instruction after cr3, the APIC, the configuration space and the    *)
(* controller's registers.                                                 *)
LEMMA TouchSteps ==
  ASSUME IInv, Linked, LoadCr3 \/ SetApicTimer \/ FindBootdisk \/ InitNvme
  PROVE  IInv'
<1>1. CASE LoadCr3
  <2>1. pc = "cr3" /\ Touching /\ AfterCr3
    BY <1>1 DEF LoadCr3, Touching, AfterCr3
  <2>2. Always \subseteq Seen \cup ByIdentity
    BY <2>1, LateSeen DEF ByIdentity
  <2> QED
    BY <1>1, <2>1, <2>2, TouchInv DEF LoadCr3
<1>2. CASE SetApicTimer
  <2>1. pc = "timer" /\ Touching /\ AfterCr3
    BY <1>2 DEF SetApicTimer, Touching, AfterCr3
  <2>2. Always \cup {hw.madt, hw.apic} \subseteq Seen \cup ByIdentity
    BY <2>1, LateSeen DEF ByIdentity
  <2> QED
    BY <1>2, <2>1, <2>2, TouchInv DEF SetApicTimer
<1>3. CASE FindBootdisk
  <2>1. pc = "bootdisk" /\ Touching /\ AfterCr3
    BY <1>3 DEF FindBootdisk, Touching, AfterCr3
  <2>2. PICK S : S = Always \cup Range0(hw.mcfg, hw.mcfg_pages) \cup {hw.ecam}
    OBVIOUS
  <2>3. S \subseteq Seen \cup ByIdentity
    BY <2>1, <2>2, LateSeen DEF ByIdentity
  <2>4. PICK next \in {"bar", "no_disk"} : pc' = (IF Reaches(S) THEN next ELSE "fault")
    BY <1>3, <2>2 DEF FindBootdisk
  <2> QED
    BY <1>3, <2>1, <2>3, <2>4, TouchInv DEF FindBootdisk
<1>4. CASE InitNvme
  <2>1. pc = "nvme" /\ Touching /\ AfterCr3
    BY <1>4 DEF InitNvme, Touching, AfterCr3
  <2>2. PICK walked : walked = {pml4} \cup UNION {{tables[Name(level, v)] : level \in 1 .. 3} : v \in Kernel}
    OBVIOUS
  <2>3. PICK S : S = Always \cup Range0(hw.bar, 3) \cup walked
    OBVIOUS
  <2>4. walked \subseteq Handed
    <3>1. \A level \in 1 .. 3, v \in Kernel : Name(level, v) \in DOMAIN tables
      <4>1. Kernel \subseteq DOMAIN space
        BY <2>1, LateSeen, KernelInMemory DEF Reaches
      <4> QED
        BY <4>1 DEF Linked
    <3> QED
      BY <2>1, <2>2, <3>1 DEF Handed, TablePages, BeforePml4
  <2>5. S \subseteq Seen \cup ByIdentity
    BY <2>1, <2>3, <2>4, LateSeen DEF ByIdentity
  <2>6. pc' = (IF Reaches(S) THEN "running" ELSE "fault")
    BY <1>4, <2>2, <2>3 DEF InitNvme
  <2> QED
    BY <1>4, <2>1, <2>5, <2>6, TouchInv DEF InitNvme
<1> QED
  BY <1>1, <1>2, <1>3, <1>4

(* A step that changes nothing. *)
LEMMA StutterStep == ASSUME IInv, UNCHANGED vars PROVE IInv'
<1>1. /\ UNCHANGED <<pc, done, desc, map, hw, page_bitmap, buffer, pml4, tables, space, idt>>
  BY DEF vars
<1>2. /\ (Dense' <=> Dense) /\ Others' = Others /\ Framebuffer' = Framebuffer
      /\ Owned' = Owned /\ Seen' = Seen /\ BufferPages' = BufferPages /\ (BeforePml4' <=> BeforePml4)
      /\ Handed' = Handed /\ ByIdentity' = ByIdentity
  BY <1>1 DEF ByIdentity, Dense, Others, Framebuffer, Owned, Seen, BufferPages, BeforePml4, Memory, Handed, TablePages
<1>3. TypeOK'
  BY <1>1 DEF IInv, TypeOK
<1>4. Stage'
  BY <1>1, <1>2 DEF IInv, Stage
<1>5. Separate' /\ Accounted'
  BY <1>1, <1>2 DEF IInv, Separate, Accounted
<1>6. Mapped' /\ NoFault'
  BY <1>1, <1>2 DEF IInv, Mapped, Reaches, NoFault
<1> QED
  BY <1>3, <1>4, <1>5, <1>6 DEF IInv

(* Whose pages are marked, what the counter counts and what the tables map *)
(* at each statement of start_kernel.                                      *)
THEOREM Invariance == Spec => [](IInv /\ Linked)
<1>1. IInv /\ Linked /\ [Next]_vars => (IInv /\ Linked)'
  <2>1. SUFFICES ASSUME IInv, Linked, [Next]_vars PROVE IInv'
    BY LinkedStep
  <2>2. CASE PlaceBitmap
    BY <2>1, <2>2, PlaceStep
  <2>3. CASE LockBitmap
    BY <2>1, <2>3, LockBitmapStep
  <2>4. CASE ReserveFirmware
    BY <2>1, <2>4, ReserveFirmwareStep
  <2>5. CASE ReserveKernel
    BY <2>1, <2>5, ReserveKernelStep
  <2>6. CASE NewPml4
    BY <2>1, <2>6, NewPml4Step
  <2>7. CASE MapIdentity
    BY <2>1, <2>7, MapIdentityStep
  <2>8. CASE LockFramebuffer
    BY <2>1, <2>8, LockFramebufferStep
  <2>9. CASE MapFramebuffer
    BY <2>1, <2>9, MapFramebufferStep
  <2>10. CASE MapKernel
    BY <2>1, <2>10, MapKernelStep
  <2>11. CASE MapApic
    BY <2>1, <2>11, MapApicStep
  <2>12. CASE MapMcfg
    BY <2>1, <2>12, MapMcfgStep
  <2>13. CASE LoadCr3 \/ SetApicTimer \/ FindBootdisk \/ InitNvme
    BY <2>1, <2>13, TouchSteps
  <2>14. CASE SetIdt
    BY <2>1, <2>14, SetIdtStep
  <2>15. CASE MapBar
    BY <2>1, <2>15, MapBarStep
  <2>16. CASE Done \/ UNCHANGED vars
    BY <2>1, <2>16, StutterStep DEF Done
  <2> QED
    BY <2>1, <2>2, <2>3, <2>4, <2>5, <2>6, <2>7, <2>8, <2>9, <2>10, <2>11, <2>12, <2>13, <2>14, <2>15, <2>16 DEF Next
<1>2. Init => Linked
  BY DEF Init, Linked
<1> QED
  BY <1>1, <1>2, InitInv, PTL DEF Spec

-----------------------------------------------------------------------------
(* Nobody's page is given out again, for every memory map the firmware may *)
(* hand over and every place of the devices.                               *)
THEOREM OwnersStayDisjoint == Spec => []OwnersDisjoint
<1>1. IInv => OwnersDisjoint
  <2>1. SUFFICES ASSUME IInv, pc # "exhausted"
                 PROVE  /\ \A t, u \in DOMAIN tables : tables[t] = tables[u] => t = u
                        /\ ~ BeforePml4 => pml4 \notin TablePages \cup idt
                        /\ idt \cap TablePages = {}
                        /\ Handed \cap (Firmware(map) \cup Kernel \cup BufferPages) = {}
    BY DEF OwnersDisjoint, IInv
  <2>2. CASE BeforePml4
    <3>1. DOMAIN tables = {} /\ idt = {}
      BY <2>1, <2>2 DEF IInv, Stage, BeforePml4
    <3> QED
      BY <2>2, <3>1 DEF Handed, TablePages
  <2>3. CASE ~ BeforePml4
    <3>1. Settled
      BY <2>1, <2>3 DEF Settled
    <3>2. Apart(page_bitmap, tables, idt \cup {pml4}, Everyone) /\ Handed = Given(tables, idt \cup {pml4})
      BY <2>1, <3>1, LateFacts
    <3>3. /\ \A t, u \in DOMAIN tables : tables[t] = tables[u] => t = u
          /\ \A t \in DOMAIN tables : tables[t] \notin idt \cup {pml4}
          /\ Handed \cap Everyone = {}
      BY <3>2 DEF Apart
    <3>4. pml4 \notin idt
      BY <2>1, <3>1 DEF IInv, Stage, Settled
    <3> QED
      BY <3>3, <3>4 DEF TablePages, Everyone
  <2> QED
    BY <2>2, <2>3
<1> QED
  BY <1>1, Invariance, PTL

(* What is handed out is memory, and of the map's conventional kind when   *)
(* the map has no holes.                                                   *)
THEOREM HandedIsMemory == Spec => []HandedMemory
<1>1. IInv => HandedMemory
  <2>1. SUFFICES ASSUME IInv, pc # "exhausted", NEW p \in Handed
                 PROVE  \/ p \in Conventional(map)
                        \/ p \notin Firmware(map) /\ ~ Dense
                        \/ p >= TotalPages /\ Memory \subseteq page_bitmap.bitmap
    BY DEF HandedMemory
  <2>2. Settled
    <3>1. ASSUME BeforePml4 PROVE FALSE
      <4>1. DOMAIN tables = {} /\ idt = {}
        BY <2>1, <3>1 DEF IInv, Stage, BeforePml4
      <4> QED
        BY <2>1, <3>1, <4>1 DEF Handed, TablePages
    <3> QED
      BY <2>1, <3>1 DEF Settled
  <2>3. Apart(page_bitmap, tables, idt \cup {pml4}, Everyone) /\ Handed = Given(tables, idt \cup {pml4})
    BY <2>1, <2>2, LateFacts
  <2>4. /\ p \in 0 .. (NBits - 1) /\ p \notin Firmware(map)
        /\ p >= TotalPages => Memory \subseteq page_bitmap.bitmap
    BY <2>1, <2>3 DEF Apart, Everyone
  <2>5. p \in Memory \/ p >= TotalPages
    BY <2>4, Sizes DEF Memory
  <2> QED
    BY <2>4, <2>5 DEF Dense
<1> QED
  BY <1>1, Invariance, PTL

(* page_bitmap.free is exact at every step. *)
THEOREM FreeStaysExact == Spec => []FreeExact
<1>1. IInv => FreeExact
  <2>1. PICK beyond : beyond = {p \in Handed : p >= TotalPages}
    OBVIOUS
  <2>2. SUFFICES ASSUME IInv, Dense, pc \notin {"place", "exhausted"}, NBits \notin page_bitmap.bitmap
                 PROVE  page_bitmap.free =
                          (Cardinality(Memory \ page_bitmap.bitmap) - Cardinality((Framebuffer \ Memory) \cup beyond)) % SIZE_MOD
    BY <2>1 DEF FreeExact
  <2>3. Handed = Given(tables, Others)
    BY DEF Handed, Given, Others, TablePages
  <2>4. PICK A, B : A = Memory \cap page_bitmap.bitmap /\ B = (Framebuffer \ Memory) \cup beyond
    OBVIOUS
  <2>5. page_bitmap.free = (TotalPages - Cardinality(A \cup B)) % SIZE_MOD
    <3>1. Counted(page_bitmap, tables, Others, Framebuffer) = A \cup B
      BY <2>1, <2>3, <2>4 DEF Counted
    <3>2. Exact(page_bitmap, tables, Others, Framebuffer)
      BY <2>2 DEF IInv, Accounted
    <3> QED
      BY <2>2, <3>1, <3>2 DEF Exact
  <2>6. IsFiniteSet(Memory) /\ Cardinality(Memory) = TotalPages
    <3>1. ASSUME NEW n \in Nat PROVE IsFiniteSet(0 .. (n - 1)) /\ Cardinality(0 .. (n - 1)) = n
      <4>1. /\ IsFiniteSet(0 .. (n - 1))
            /\ Cardinality(0 .. (n - 1)) = IF 0 > n - 1 THEN 0 ELSE (n - 1) - 0 + 1
        BY FS_Interval
      <4> QED
        BY <4>1
    <3>2. Memory = 0 .. (TotalPages - 1) /\ TotalPages \in Nat
      BY Sizes DEF Memory
    <3> QED
      BY <3>1, <3>2
  <2>7. IsFiniteSet(A) /\ Cardinality(A) \in Nat
    BY <2>4, <2>6, FS_Subset, FS_CardinalityType
  <2>8. IsFiniteSet(B) /\ Cardinality(B) \in Nat
    <3>1. hw.fb \in Nat /\ hw.fb_pages \in Nat /\ done \in Nat
      BY <2>2, Devices DEF IInv, TypeOK
    <3>2. PICK n \in Nat : Framebuffer = Range0(hw.fb, n)
      BY <3>1 DEF Framebuffer
    <3>3. Framebuffer \subseteq Pages
      BY <3>1, <3>2, RangeStep
    <3>4. Handed \subseteq Pages
      <4>1. Given(tables, Others) \subseteq 0 .. (NBits - 1)
        BY <2>2 DEF IInv, Separate, Apart
      <4>2. 0 .. (NBits - 1) \subseteq Pages
        BY Sizes DEF Pages
      <4> QED
        BY <2>3, <4>1, <4>2
    <3>5. IsFiniteSet(Pages)
      BY FS_Interval, Sizes DEF Pages
    <3>6. B \subseteq Pages
      BY <2>1, <2>4, <3>3, <3>4
    <3> QED
      BY <3>5, <3>6, FS_Subset, FS_CardinalityType
  <2>9. A \cap B = {}
    <3>1. \A p \in Memory : ~ (p >= TotalPages)
      BY Sizes DEF Memory
    <3> QED
      BY <2>1, <2>4, <3>1
  <2>10. Cardinality(A \cup B) = Cardinality(A) + Cardinality(B)
    BY <2>7, <2>8, <2>9, FS_Union, FS_EmptySet
  <2>11. Cardinality(Memory \ page_bitmap.bitmap) = TotalPages - Cardinality(A)
    BY <2>4, <2>6, FS_Difference
  <2>12. TotalPages - Cardinality(A \cup B) = Cardinality(Memory \ page_bitmap.bitmap) - Cardinality(B)
    BY <2>7, <2>8, <2>10, <2>11, Sizes
  <2> QED
    BY <2>4, <2>5, <2>12
<1> QED
  BY <1>1, Invariance, PTL

(* After cr3 nothing faults but a page that only the identity map reaches  *)
(* and that is not below the number of pages the map describes, for every  *)
(* memory map and every place of the devices, the stack and the MADT.      *)
THEOREM NothingFaults == Spec => []NoFault
<1>1. IInv => NoFault
  BY DEF IInv
<1> QED
  BY <1>1, Invariance, PTL
=============================================================================
