----------------------------- MODULE PagingProofs ---------------------------
(***************************************************************************)
(* Proofs about Paging, for every table size, memory size and mapping      *)
(* calls: the tables form a tree, the TLB is coherent, ranges are mapped   *)
(* as asked, vir_to_phys agrees with the processor, and the tables         *)
(* implement AddressSpace.                                                 *)
(***************************************************************************)
EXTENDS Paging, PageBitmapProofs

-----------------------------------------------------------------------------
(* A number is the quotient times the divisor plus the remainder. *)
LEMMA DivMod ==
  ASSUME NEW a \in Nat, NEW b \in Nat \ {0}
  PROVE  /\ a \div b \in Nat /\ a % b \in 0 .. (b - 1)
         /\ a = b * (a \div b) + (a % b)
<1>1. a % b \in 0 .. (b - 1)
  OBVIOUS
<1>2. a \div b \in Int /\ a = b * (a \div b) + (a % b)
  OBVIOUS
<1>3. a \div b >= 0
  OBVIOUS
<1> QED
  BY <1>1, <1>2, <1>3

(* Multiplication by a number that is not negative keeps the order. *)
LEMMA MulMono ==
  ASSUME NEW b \in Nat, NEW x \in Int, NEW y \in Int, x <= y
  PROVE b * x <= b * y
  OBVIOUS

(* A quotient and a remainder are the only ones. *)
LEMMA DivUnique ==
  ASSUME NEW b \in Nat \ {0}, NEW q \in Int, NEW r \in 0 .. (b - 1),
         NEW p \in Int, NEW s \in 0 .. (b - 1), b * q + r = b * p + s
  PROVE  q = p /\ r = s
<1>1. CASE q < p
  <2>1. b * (q + 1) <= b * p
    BY <1>1, MulMono
  <2>2. b * (q + 1) = b * q + b
    OBVIOUS
  <2> QED
    BY <2>1, <2>2
<1>2. CASE p < q
  <2>1. b * (p + 1) <= b * q
    BY <1>2, MulMono
  <2>2. b * (p + 1) = b * p + b
    OBVIOUS
  <2> QED
    BY <2>1, <2>2
<1> QED
  BY <1>1, <1>2

(* The quotient of a number below b * c is below c. *)
LEMMA DivLess ==
  ASSUME NEW a \in Nat, NEW b \in Nat \ {0}, NEW c \in Nat, a < b * c
  PROVE  a \div b < c
<1>1. a \div b \in Nat /\ b * (a \div b) <= a
  BY DivMod
<1>2. CASE c <= a \div b
  <2>1. b * c <= b * (a \div b)
    BY <1>1, <1>2, MulMono
  <2> QED
    BY <1>1, <2>1
<1> QED
  BY <1>1, <1>2

(* Dividing twice is dividing by the product. *)
LEMMA DivDiv ==
  ASSUME NEW a \in Nat, NEW b \in Nat \ {0}, NEW c \in Nat \ {0}
  PROVE  a \div (b * c) = (a \div b) \div c
<1> DEFINE q == a \div b
           r == a % b
           s == q \div c
           u == q % c
<1>1. q \in Nat /\ r \in 0 .. (b - 1) /\ a = b * q + r
  BY DivMod
<1>2. s \in Nat /\ u \in 0 .. (c - 1) /\ q = c * s + u
  BY <1>1, DivMod
<1>3. b * c \in Nat \ {0}
  OBVIOUS
<1>4. a \div (b * c) \in Nat /\ a % (b * c) \in 0 .. (b * c - 1)
      /\ a = (b * c) * (a \div (b * c)) + (a % (b * c))
  BY <1>3, DivMod
<1> HIDE DEF q, r, s, u
<1>5. b * q = b * (c * s) + b * u /\ b * (c * s) = (b * c) * s
  BY <1>1, <1>2
<1>6. b * u + r \in 0 .. (b * c - 1)
  <2>1. b * (u + 1) <= b * c
    BY <1>2, MulMono
  <2>2. b * (u + 1) = b * u + b /\ b * u \in Nat /\ b * c \in Nat
    BY <1>2
  <2> QED
    BY <1>1, <2>1, <2>2
<1>7. a = (b * c) * s + (b * u + r)
  BY <1>1, <1>2, <1>5
<1>8. a \div (b * c) = s
  <2> DEFINE m == b * c
             d == a \div m
             e == a % m
             f == b * u + r
  <2>1. m \in Nat \ {0} /\ d \in Int /\ e \in 0 .. (m - 1) /\ s \in Int /\ f \in 0 .. (m - 1)
    BY <1>2, <1>3, <1>4, <1>6
  <2>2. m * d + e = m * s + f
    BY <1>4, <1>7
  <2> HIDE DEF m, d, e, f
  <2>3. d = s
    BY <2>1, <2>2, DivUnique
  <2> QED
    BY <2>3 DEF d, m
<1> QED
  BY <1>8 DEF s, q

-----------------------------------------------------------------------------
(* The indices of a virtual page, paging.c:78-81. *)

F4 == FAN * FAN * FAN * FAN

(* The powers of FAN that the indices of a walk use. *)
LEMMA FanPowers ==
  /\ FAN \in Nat \ {0} /\ FAN * FAN \in Nat \ {0} /\ FAN * FAN * FAN \in Nat \ {0}
  /\ F4 \in Nat \ {0} /\ F4 = (FAN * FAN * FAN) * FAN /\ Vir = 0 .. (F4 - 1)
<1>1. FAN \in Nat \ {0}
  BY FANAssumption
<1>2. FAN * FAN \in Nat \ {0}
  BY <1>1
<1> DEFINE F2 == FAN * FAN
<1>3. F2 * FAN \in Nat \ {0}
  <2> HIDE DEF F2
  <2> QED
    BY <1>1, <1>2 DEF F2
<1> DEFINE F3 == F2 * FAN
<1>4. F3 * FAN \in Nat \ {0}
  <2> HIDE DEF F3
  <2> QED
    BY <1>1, <1>3 DEF F3
<1> QED
  BY <1>1, <1>2, <1>3, <1>4 DEF F4, Vir

(* Each index is an entry of a table. *)
LEMMA IndexTypes ==
  ASSUME NEW v \in Vir
  PROVE  /\ Index(v).leaf \in 0 .. (FAN - 1) /\ Index(v).pt \in 0 .. (FAN - 1)
         /\ Index(v).pd \in 0 .. (FAN - 1) /\ Index(v).pdpt \in 0 .. (FAN - 1)
<1>1. v \in Nat
  BY FanPowers
<1>2. /\ v \div FAN \in Nat /\ v \div (FAN * FAN) \in Nat /\ v \div (FAN * FAN * FAN) \in Nat
  BY <1>1, FanPowers, DivMod
<1> QED
  BY <1>1, <1>2, FanPowers, DivMod DEF Index

(* The four indices determine the page. *)
LEMMA IndexInjective ==
  ASSUME NEW v \in Vir, NEW w \in Vir,
         Index(v).leaf = Index(w).leaf, Index(v).pt = Index(w).pt,
         Index(v).pd = Index(w).pd, Index(v).pdpt = Index(w).pdpt
  PROVE  v = w
<1> DEFINE q1(a) == a \div FAN
           q2(a) == q1(a) \div FAN
           q3(a) == q2(a) \div FAN
<1>1. ASSUME NEW a \in Vir
      PROVE  /\ q1(a) \in Nat /\ q2(a) \in Nat /\ q3(a) \in Nat
             /\ a = FAN * q1(a) + (a % FAN) /\ q1(a) = FAN * q2(a) + (q1(a) % FAN)
             /\ q2(a) = FAN * q3(a) + (q2(a) % FAN) /\ q3(a) % FAN = q3(a)
             /\ Index(a).leaf = a % FAN /\ Index(a).pt = q1(a) % FAN
             /\ Index(a).pd = q2(a) % FAN /\ Index(a).pdpt = q3(a) % FAN
  <2>1. a \in Nat /\ a < (FAN * FAN * FAN) * FAN
    BY FanPowers
  <2>2. q1(a) \in Nat /\ a = FAN * q1(a) + (a % FAN)
    BY <2>1, FanPowers, DivMod
  <2>3. q2(a) \in Nat /\ q1(a) = FAN * q2(a) + (q1(a) % FAN)
    BY <2>2, FanPowers, DivMod
  <2>4. q3(a) \in Nat /\ q2(a) = FAN * q3(a) + (q2(a) % FAN)
    BY <2>3, FanPowers, DivMod
  <2>5. a \div (FAN * FAN) = q2(a) /\ a \div (FAN * FAN * FAN) = q3(a)
    <3>1. a \div (FAN * FAN) = q2(a)
      BY <2>1, FanPowers, DivDiv
    <3>2. a \div ((FAN * FAN) * FAN) = (a \div (FAN * FAN)) \div FAN
      BY <2>1, FanPowers, DivDiv
    <3> QED
      BY <3>1, <3>2
  <2>6. a \div (FAN * FAN * FAN) < FAN
    BY <2>1, FanPowers, DivLess
  <2>7. q3(a) % FAN = q3(a)
    <3>1. q3(a) \in 0 .. (FAN - 1)
      BY <2>4, <2>5, <2>6, FanPowers
    <3> HIDE DEF q3
    <3> QED
      BY <3>1, FanPowers, ModFirst
  <2> QED
    BY <2>2, <2>3, <2>4, <2>5, <2>7 DEF Index
<1> HIDE DEF q1, q2, q3
<1>2. q3(v) = q3(w)
  BY <1>1
<1>3. q2(v) = q2(w)
  BY <1>1, <1>2
<1>4. q1(v) = q1(w)
  BY <1>1, <1>3
<1> QED
  BY <1>1, <1>4

(* The page of an iteration is a page of the address space; less than the  *)
(* whole address space apart, two iterations work on different pages.      *)
LEMMA VirAtRange ==
  ASSUME NEW c, NEW i \in Nat, c.vir \in Nat
  PROVE  VirAt(c, i) \in Vir
<1>1. c.vir + i \in Nat
  OBVIOUS
<1> QED
  BY <1>1, FanPowers, DivMod DEF VirAt, F4

(* Pages of a range less than FAN^4 apart are distinct. *)
LEMMA VirAtDistinct ==
  ASSUME NEW c, c.vir \in Nat, NEW i \in Nat, NEW j \in Nat, j < i, i < F4
  PROVE  VirAt(c, i) # VirAt(c, j)
<1> DEFINE a == c.vir + i
           b == c.vir + j
<1>1. a \in Nat /\ b \in Nat /\ a - b = i - j
  OBVIOUS
<1>2. /\ a \div F4 \in Nat /\ a = F4 * (a \div F4) + (a % F4)
      /\ b \div F4 \in Nat /\ b = F4 * (b \div F4) + (b % F4)
      /\ a % F4 \in 0 .. (F4 - 1)
  BY <1>1, FanPowers, DivMod
<1> SUFFICES ASSUME a % F4 = b % F4 PROVE FALSE
  BY DEF VirAt, F4
<1> DEFINE p == a \div F4
           q == b \div F4
<1>3. i - j = F4 * p - F4 * q
  <2> DEFINE r == a % F4
             x == F4 * p
             y == F4 * q
  <2>0. p \in Nat /\ q \in Nat /\ F4 \in Nat /\ r \in Nat
    BY <1>2, FanPowers
  <2>1. x \in Nat /\ y \in Nat
    <3> HIDE DEF p, q
    <3> QED
      BY <2>0
  <2>2. a = x + r /\ b = y + r
    BY <1>2
  <2> HIDE DEF a, b, r, x, y
  <2> QED
    BY <1>1, <2>0, <2>1, <2>2 DEF x, y
<1>4. p \in Nat /\ q \in Nat /\ F4 \in Nat \ {0}
  BY <1>2, FanPowers
<1> HIDE DEF p, q
<1>5. CASE p <= q
  <2>1. F4 * p <= F4 * q
    BY <1>4, <1>5, MulMono
  <2> QED
    BY <1>3, <1>4, <2>1
<1>6. CASE p > q
  <2>1. F4 * (q + 1) <= F4 * p /\ F4 * (q + 1) = F4 * q + F4
    BY <1>4, <1>6, MulMono
  <2> QED
    BY <1>3, <1>4, <2>1
<1> QED
  BY <1>4, <1>5, <1>6

-----------------------------------------------------------------------------
(* The inductive invariant. *)

Slots == 0 .. (FAN - 1)

(* lev gives every page in use as a table its level, 1 for the pml4 to 4   *)
(* for the tables that hold the leaves, and 0 to all others: an entry of a *)
(* table leads one level down, no two lead to one table, and tables are    *)
(* marked and belong to nobody else.                                       *)
Tree(lev) ==
  /\ \A f \in Frames : lev[f] = 1 <=> f = pml4
  /\ \A f \in Frames, x \in Slots :
       lev[f] \in 1 .. 3 /\ mem[f][x].p = 1 =>
         mem[f][x].addr \in Frames /\ lev[mem[f][x].addr] = lev[f] + 1
  /\ \A f, g \in Frames, x, y \in Slots :
       /\ lev[f] \in 1 .. 3 /\ mem[f][x].p = 1
       /\ lev[g] \in 1 .. 3 /\ mem[g][y].p = 1
       /\ mem[f][x].addr = mem[g][y].addr
       => f = g /\ x = y
  /\ \A f \in Frames : lev[f] # 0 => f \in page_bitmap.bitmap \ (others \cup Reserved)

(* The iterations left. *)
Counting ==
  call.i <= call.page_cnt /\ (call.level # "done" => call.i < call.page_cnt)

(* The entries the processor reads on its way to page v. *)
PdptOf(m, v) == m[pml4][Index(v).pdpt]
PdOf(m, v)   == m[PdptOf(m, v).addr][Index(v).pd]
PtOf(m, v)   == m[PdOf(m, v).addr][Index(v).pt]
PageOf(m, v) == m[PtOf(m, v).addr][Index(v).leaf]

(* The table map_page works on is the one the processor would come to for  *)
(* the page of this iteration.                                             *)
OnPath ==
  LET v == VirAt(call, call.i)
  IN  /\ call.level = "pdpt" => call.table = pml4
      /\ call.level = "pd" => PdptOf(mem, v).p = 1 /\ call.table = PdptOf(mem, v).addr
      /\ call.level = "pt" => /\ PdptOf(mem, v).p = 1 /\ PdOf(mem, v).p = 1
                             /\ call.table = PdOf(mem, v).addr
      /\ call.level = "leaf" => /\ PdptOf(mem, v).p = 1 /\ PdOf(mem, v).p = 1 /\ PtOf(mem, v).p = 1
                               /\ call.table = PtOf(mem, v).addr

(* What is handed out, or was reserved, is marked. *)
Marked == others \cup Reserved \subseteq page_bitmap.bitmap

IInv ==
  /\ TypeOK /\ Counting
  /\ ~ exhausted => (\E lev \in [Frames -> 0 .. 4] : Tree(lev)) /\ Marked /\ OnPath /\ TlbCoherent

-----------------------------------------------------------------------------
(* The processor's walk. *)

(* A walk stops at the first entry that is not present. *)
LEMMA WalkStops ==
  ASSUME NEW m, NEW v
  PROVE  /\ PdptOf(m, v).p # 1 => Walk(m, v) = NONE
         /\ PdOf(m, v).p # 1 => Walk(m, v) = NONE
         /\ PtOf(m, v).p # 1 => Walk(m, v) = NONE
         /\ PageOf(m, v).p # 1 => Walk(m, v) = NONE
         /\ PdptOf(m, v).p = 1 /\ PdOf(m, v).p = 1 /\ PtOf(m, v).p = 1 /\ PageOf(m, v).p = 1 =>
              Walk(m, v) = PageOf(m, v).addr
  BY Zenon DEF Walk, PdptOf, PdOf, PtOf, PageOf

(* The indices of a page are entries of a table. *)
LEMMA IndexSlots ==
  ASSUME NEW v \in Vir
  PROVE  /\ Index(v).pdpt \in Slots /\ Index(v).pd \in Slots
         /\ Index(v).pt \in Slots /\ Index(v).leaf \in Slots
  BY IndexTypes DEF Slots

(* An entry of a table leads one level down, and only one leads there. *)
LEMMA TreeLinks ==
  ASSUME NEW lev \in [Frames -> 0 .. 4], Tree(lev)
  PROVE  /\ \A f \in Frames, x \in Slots, k \in 1 .. 3 :
              lev[f] = k /\ mem[f][x].p = 1 =>
                mem[f][x].addr \in Frames /\ lev[mem[f][x].addr] = k + 1
         /\ \A f, g \in Frames, x, y \in Slots, k \in 1 .. 3 :
              /\ lev[f] = k /\ mem[f][x].p = 1 /\ lev[g] = k /\ mem[g][y].p = 1
              /\ mem[f][x].addr = mem[g][y].addr
              => f = g /\ x = y
<1>1. ASSUME NEW f \in Frames, NEW x \in Slots, NEW k \in 1 .. 3, lev[f] = k, mem[f][x].p = 1
      PROVE  mem[f][x].addr \in Frames /\ lev[mem[f][x].addr] = k + 1
  BY <1>1, Zenon DEF Tree
<1>2. ASSUME NEW f \in Frames, NEW g \in Frames, NEW x \in Slots, NEW y \in Slots, NEW k \in 1 .. 3,
             lev[f] = k, mem[f][x].p = 1, lev[g] = k, mem[g][y].p = 1,
             mem[f][x].addr = mem[g][y].addr
      PROVE  f = g /\ x = y
  BY <1>2 DEF Tree
<1> QED
  BY <1>1, <1>2

(* The tables a walk comes to are one level apart. *)
LEMMA WalkLevels ==
  ASSUME TypeOK, NEW lev \in [Frames -> 0 .. 4], Tree(lev), NEW v \in Vir
  PROVE  /\ pml4 \in Frames /\ lev[pml4] = 1
         /\ PdptOf(mem, v).p = 1 => PdptOf(mem, v).addr \in Frames /\ lev[PdptOf(mem, v).addr] = 2
         /\ PdptOf(mem, v).p = 1 /\ PdOf(mem, v).p = 1 =>
              PdOf(mem, v).addr \in Frames /\ lev[PdOf(mem, v).addr] = 3
         /\ PdptOf(mem, v).p = 1 /\ PdOf(mem, v).p = 1 /\ PtOf(mem, v).p = 1 =>
              PtOf(mem, v).addr \in Frames /\ lev[PtOf(mem, v).addr] = 4
<1>1. pml4 \in Frames /\ lev[pml4] = 1
  BY DEF TypeOK, Tree
<1>2. ASSUME NEW k \in 1 .. 3
      PROVE  \A f \in Frames, x \in Slots :
               lev[f] = k /\ mem[f][x].p = 1 =>
                 mem[f][x].addr \in Frames /\ lev[mem[f][x].addr] = k + 1
  BY TreeLinks
<1>3. PdptOf(mem, v).p = 1 => PdptOf(mem, v).addr \in Frames /\ lev[PdptOf(mem, v).addr] = 1 + 1
  BY <1>1, <1>2, IndexSlots, 1 \in 1 .. 3 DEF PdptOf
<1>4. PdptOf(mem, v).p = 1 /\ PdOf(mem, v).p = 1 =>
        PdOf(mem, v).addr \in Frames /\ lev[PdOf(mem, v).addr] = 2 + 1
  BY <1>3, <1>2, IndexSlots DEF PdOf
<1>5. PdptOf(mem, v).p = 1 /\ PdOf(mem, v).p = 1 /\ PtOf(mem, v).p = 1 =>
        PtOf(mem, v).addr \in Frames /\ lev[PtOf(mem, v).addr] = 3 + 1
  BY <1>4, <1>2, IndexSlots DEF PtOf
<1> QED
  BY <1>1, <1>3, <1>4, <1>5

(* No translation changes when the tables keep their entries, but for one  *)
(* that was not present and now leads to an empty table: no step of        *)
(* map_page before the last is seen by the processor.                      *)
Kept(n, f, x) ==
  \/ n[f][x] = mem[f][x]
  \/ mem[f][x].p # 1 /\ \A y \in Slots : n[n[f][x].addr][y].p # 1

(* A walk ends where it did when the entries above the last level only
   gained what they did not hold, and those of the last level stayed. *)
LEMMA WalkUnchanged ==
  ASSUME TypeOK, NEW lev \in [Frames -> 0 .. 4], Tree(lev), NEW n,
         \A f \in Frames, x \in Slots : lev[f] \in 1 .. 3 => Kept(n, f, x),
         \A f \in Frames, x \in Slots : lev[f] = 4 => n[f][x] = mem[f][x],
         NEW v \in Vir
  PROVE  Walk(n, v) = Walk(mem, v)
<1>1. /\ pml4 \in Frames /\ lev[pml4] = 1
      /\ PdptOf(mem, v).p = 1 => PdptOf(mem, v).addr \in Frames /\ lev[PdptOf(mem, v).addr] = 2
      /\ PdptOf(mem, v).p = 1 /\ PdOf(mem, v).p = 1 =>
           PdOf(mem, v).addr \in Frames /\ lev[PdOf(mem, v).addr] = 3
      /\ PdptOf(mem, v).p = 1 /\ PdOf(mem, v).p = 1 /\ PtOf(mem, v).p = 1 =>
           PtOf(mem, v).addr \in Frames /\ lev[PtOf(mem, v).addr] = 4
  BY WalkLevels, Zenon
<1>2. PdptOf(n, v) = PdptOf(mem, v) \/ (PdptOf(mem, v).p # 1 /\ PdOf(n, v).p # 1)
  <2>1. Kept(n, pml4, Index(v).pdpt)
    BY <1>1, IndexSlots
  <2> QED
    BY <2>1, IndexSlots, Zenon DEF Kept, PdptOf, PdOf
<1>3. PdptOf(mem, v).p = 1 /\ PdptOf(n, v) = PdptOf(mem, v) =>
        PdOf(n, v) = PdOf(mem, v) \/ (PdOf(mem, v).p # 1 /\ PtOf(n, v).p # 1)
  <2>1. PdptOf(mem, v).p = 1 => Kept(n, PdptOf(mem, v).addr, Index(v).pd)
    BY <1>1, IndexSlots
  <2> QED
    <3> SUFFICES ASSUME PdptOf(mem, v).p = 1, PdptOf(n, v) = PdptOf(mem, v), PdOf(n, v) # PdOf(mem, v)
                 PROVE  PdOf(mem, v).p # 1 /\ PtOf(n, v).p # 1
      OBVIOUS
    <3>1. /\ PdOf(n, v) = n[PdptOf(mem, v).addr][Index(v).pd]
          /\ PdOf(mem, v) = mem[PdptOf(mem, v).addr][Index(v).pd]
      BY DEF PdOf
    <3>2. PdOf(mem, v).p # 1 /\ \A y \in Slots : n[PdOf(n, v).addr][y].p # 1
      BY <2>1, <3>1 DEF Kept
    <3> QED
      BY <3>2, IndexSlots DEF PtOf
<1>4. PdptOf(mem, v).p = 1 /\ PdOf(mem, v).p = 1 /\ PdOf(n, v) = PdOf(mem, v) =>
        PtOf(n, v) = PtOf(mem, v) \/ (PtOf(mem, v).p # 1 /\ PageOf(n, v).p # 1)
  <2>1. PdptOf(mem, v).p = 1 /\ PdOf(mem, v).p = 1 => Kept(n, PdOf(mem, v).addr, Index(v).pt)
    BY <1>1, IndexSlots
  <2> QED
    <3> SUFFICES ASSUME PdptOf(mem, v).p = 1, PdOf(mem, v).p = 1, PdOf(n, v) = PdOf(mem, v),
                        PtOf(n, v) # PtOf(mem, v)
                 PROVE  PtOf(mem, v).p # 1 /\ PageOf(n, v).p # 1
      OBVIOUS
    <3>1. /\ PtOf(n, v) = n[PdOf(mem, v).addr][Index(v).pt]
          /\ PtOf(mem, v) = mem[PdOf(mem, v).addr][Index(v).pt]
      BY DEF PtOf
    <3>2. PtOf(mem, v).p # 1 /\ \A y \in Slots : n[PtOf(n, v).addr][y].p # 1
      BY <2>1, <3>1 DEF Kept
    <3> QED
      BY <3>2, IndexSlots DEF PageOf
<1>5. PdptOf(mem, v).p = 1 /\ PdOf(mem, v).p = 1 /\ PtOf(mem, v).p = 1 /\ PtOf(n, v) = PtOf(mem, v) =>
        PageOf(n, v) = PageOf(mem, v)
  BY <1>1, IndexSlots DEF PageOf
<1> QED
  BY <1>2, <1>3, <1>4, <1>5, WalkStops

(* Writing the leaf of v changes the translation of v and no other. *)
LEMMA WalkLeaf ==
  ASSUME TypeOK, NEW lev \in [Frames -> 0 .. 4], Tree(lev), NEW v \in Vir, NEW n,
         PdptOf(mem, v).p = 1, PdOf(mem, v).p = 1, PtOf(mem, v).p = 1,
         n[PtOf(mem, v).addr][Index(v).leaf].p = 1,
         \A f \in Frames, x \in Slots :
           f # PtOf(mem, v).addr \/ x # Index(v).leaf => n[f][x] = mem[f][x]
  PROVE  /\ Walk(n, v) = n[PtOf(mem, v).addr][Index(v).leaf].addr
         /\ \A w \in Vir \ {v} : Walk(n, w) = Walk(mem, w)
<1>1. ASSUME NEW w \in Vir
      PROVE  /\ pml4 \in Frames /\ lev[pml4] = 1
             /\ PdptOf(mem, w).p = 1 => PdptOf(mem, w).addr \in Frames /\ lev[PdptOf(mem, w).addr] = 2
             /\ PdptOf(mem, w).p = 1 /\ PdOf(mem, w).p = 1 =>
                  PdOf(mem, w).addr \in Frames /\ lev[PdOf(mem, w).addr] = 3
             /\ PdptOf(mem, w).p = 1 /\ PdOf(mem, w).p = 1 /\ PtOf(mem, w).p = 1 =>
                  PtOf(mem, w).addr \in Frames /\ lev[PtOf(mem, w).addr] = 4
  BY WalkLevels, Zenon
<1>2. lev[PtOf(mem, v).addr] = 4
  BY <1>1
<1>3. ASSUME NEW f \in Frames, NEW x \in Slots, lev[f] # 4
      PROVE  n[f][x] = mem[f][x]
  BY <1>2, <1>3, Zenon
<1>4. ASSUME NEW w \in Vir
      PROVE  /\ PdptOf(n, w) = PdptOf(mem, w)
             /\ PdptOf(mem, w).p = 1 => PdOf(n, w) = PdOf(mem, w)
             /\ PdptOf(mem, w).p = 1 /\ PdOf(mem, w).p = 1 => PtOf(n, w) = PtOf(mem, w)
  <2>0. /\ lev[pml4] # 4
        /\ PdptOf(mem, w).p = 1 => lev[PdptOf(mem, w).addr] # 4
        /\ PdptOf(mem, w).p = 1 /\ PdOf(mem, w).p = 1 => lev[PdOf(mem, w).addr] # 4
    BY <1>1
  <2>1. PdptOf(n, w) = PdptOf(mem, w)
    BY <1>1, <1>3, <2>0, IndexSlots, Zenon DEF PdptOf
  <2>2. PdptOf(mem, w).p = 1 => PdOf(n, w) = PdOf(mem, w)
    <3>1. SUFFICES ASSUME PdptOf(mem, w).p = 1
                   PROVE  PdOf(n, w) = PdOf(mem, w)
      OBVIOUS
    <3>2. PdptOf(mem, w).addr \in Frames /\ lev[PdptOf(mem, w).addr] # 4 /\ Index(w).pd \in Slots
      BY <1>1, <2>0, <3>1, IndexSlots, Zenon
    <3>3. n[PdptOf(mem, w).addr][Index(w).pd] = mem[PdptOf(mem, w).addr][Index(w).pd]
      BY <1>3, <3>2, Zenon
    <3> QED
      BY <2>1, <3>3, Zenon DEF PdOf
  <2>3. PdptOf(mem, w).p = 1 /\ PdOf(mem, w).p = 1 => PtOf(n, w) = PtOf(mem, w)
    <3>1. SUFFICES ASSUME PdptOf(mem, w).p = 1, PdOf(mem, w).p = 1
                   PROVE  PtOf(n, w) = PtOf(mem, w)
      OBVIOUS
    <3>2. PdOf(mem, w).addr \in Frames /\ lev[PdOf(mem, w).addr] # 4 /\ Index(w).pt \in Slots
      BY <1>1, <2>0, <3>1, IndexSlots, Zenon
    <3>3. n[PdOf(mem, w).addr][Index(w).pt] = mem[PdOf(mem, w).addr][Index(w).pt]
      BY <1>3, <3>2, Zenon
    <3> QED
      BY <2>2, <3>1, <3>3, Zenon DEF PtOf
  <2> QED
    BY <2>1, <2>2, <2>3
<1>5. Walk(n, v) = n[PtOf(mem, v).addr][Index(v).leaf].addr
  <2>1. PdptOf(n, v).p = 1 /\ PdOf(n, v).p = 1 /\ PtOf(n, v) = PtOf(mem, v)
    BY <1>4, Zenon
  <2>2. PageOf(n, v) = n[PtOf(mem, v).addr][Index(v).leaf]
    BY <2>1, Zenon DEF PageOf
  <2> QED
    BY <2>1, <2>2, WalkStops
<1>6. ASSUME NEW w \in Vir \ {v},
             PdptOf(mem, w).p = 1, PdOf(mem, w).p = 1, PtOf(mem, w).p = 1
      PROVE  PageOf(n, w) = PageOf(mem, w)
  <2>1. PtOf(n, w) = PtOf(mem, w) /\ PtOf(mem, w).addr \in Frames
    BY <1>1, <1>4, <1>6, Zenon
  <2>2. CASE PtOf(mem, w).addr # PtOf(mem, v).addr
    BY <2>1, <2>2, IndexSlots, Zenon DEF PageOf
  <2>3. CASE PtOf(mem, w).addr = PtOf(mem, v).addr
    <3>1. PdOf(mem, w).addr = PdOf(mem, v).addr /\ Index(w).pt = Index(v).pt
      <4>1. 3 \in 1 .. 3
        OBVIOUS
      <4>2. \A f, g \in Frames, x, y \in Slots :
              /\ lev[f] = 3 /\ mem[f][x].p = 1 /\ lev[g] = 3 /\ mem[g][y].p = 1
              /\ mem[f][x].addr = mem[g][y].addr
              => f = g /\ x = y
        BY <4>1, TreeLinks
      <4>3. /\ PdOf(mem, w).addr \in Frames /\ lev[PdOf(mem, w).addr] = 3
            /\ PdOf(mem, v).addr \in Frames /\ lev[PdOf(mem, v).addr] = 3
        BY <1>1, <1>6, Zenon
      <4>4. Index(w).pt \in Slots /\ Index(v).pt \in Slots
        BY <1>6, IndexSlots, Zenon
      <4>5. /\ PtOf(mem, w) = mem[PdOf(mem, w).addr][Index(w).pt]
            /\ PtOf(mem, v) = mem[PdOf(mem, v).addr][Index(v).pt]
        BY DEF PtOf
      <4>6. /\ mem[PdOf(mem, w).addr][Index(w).pt].p = 1
            /\ mem[PdOf(mem, v).addr][Index(v).pt].p = 1
            /\ mem[PdOf(mem, w).addr][Index(w).pt].addr = mem[PdOf(mem, v).addr][Index(v).pt].addr
        BY <1>6, <2>3, <4>5
      <4> QED
        BY <4>2, <4>3, <4>4, <4>6
    <3>2. PdptOf(mem, w).addr = PdptOf(mem, v).addr /\ Index(w).pd = Index(v).pd
      <4>1. 2 \in 1 .. 3
        OBVIOUS
      <4>2. \A f, g \in Frames, x, y \in Slots :
              /\ lev[f] = 2 /\ mem[f][x].p = 1 /\ lev[g] = 2 /\ mem[g][y].p = 1
              /\ mem[f][x].addr = mem[g][y].addr
              => f = g /\ x = y
        BY <4>1, TreeLinks
      <4>3. /\ PdptOf(mem, w).addr \in Frames /\ lev[PdptOf(mem, w).addr] = 2
            /\ PdptOf(mem, v).addr \in Frames /\ lev[PdptOf(mem, v).addr] = 2
        BY <1>1, <1>6, Zenon
      <4>4. Index(w).pd \in Slots /\ Index(v).pd \in Slots
        BY <1>6, IndexSlots, Zenon
      <4>5. /\ PdOf(mem, w) = mem[PdptOf(mem, w).addr][Index(w).pd]
            /\ PdOf(mem, v) = mem[PdptOf(mem, v).addr][Index(v).pd]
        BY DEF PdOf
      <4>6. /\ mem[PdptOf(mem, w).addr][Index(w).pd].p = 1
            /\ mem[PdptOf(mem, v).addr][Index(v).pd].p = 1
            /\ mem[PdptOf(mem, w).addr][Index(w).pd].addr = mem[PdptOf(mem, v).addr][Index(v).pd].addr
        BY <1>6, <3>1, <4>5
      <4> QED
        BY <4>2, <4>3, <4>4, <4>6
    <3>3. Index(w).pdpt = Index(v).pdpt
      <4>1. 1 \in 1 .. 3
        OBVIOUS
      <4>2. \A f, g \in Frames, x, y \in Slots :
              /\ lev[f] = 1 /\ mem[f][x].p = 1 /\ lev[g] = 1 /\ mem[g][y].p = 1
              /\ mem[f][x].addr = mem[g][y].addr
              => f = g /\ x = y
        BY <4>1, TreeLinks
      <4>3. pml4 \in Frames /\ lev[pml4] = 1
        BY <1>1, Zenon
      <4>4. Index(w).pdpt \in Slots /\ Index(v).pdpt \in Slots
        BY <1>6, IndexSlots, Zenon
      <4>5. PdptOf(mem, w) = mem[pml4][Index(w).pdpt] /\ PdptOf(mem, v) = mem[pml4][Index(v).pdpt]
        BY DEF PdptOf
      <4>6. /\ mem[pml4][Index(w).pdpt].p = 1 /\ mem[pml4][Index(v).pdpt].p = 1
            /\ mem[pml4][Index(w).pdpt].addr = mem[pml4][Index(v).pdpt].addr
        BY <1>6, <3>2, <4>5
      <4> QED
        BY <4>2, <4>3, <4>4, <4>6
    <3>4. Index(w).leaf # Index(v).leaf
      BY <3>1, <3>2, <3>3, IndexInjective, Zenon
    <3> QED
      BY <2>1, <3>4, IndexSlots, Zenon DEF PageOf
  <2> QED
    BY <2>2, <2>3
<1>7. ASSUME NEW w \in Vir \ {v}
      PROVE  Walk(n, w) = Walk(mem, w)
  BY <1>4, <1>6, WalkStops
<1> QED
  BY <1>5, <1>7

(* A translation is a physical page or NONE. *)
LEMMA WalkRange ==
  ASSUME TypeOK, NEW lev \in [Frames -> 0 .. 4], Tree(lev), NEW v \in Vir, Walk(mem, v) # NONE
  PROVE  Walk(mem, v) \in Phys /\ Walk(mem, v) = PageOf(mem, v).addr
<1>1. PdptOf(mem, v).p = 1 /\ PdOf(mem, v).p = 1 /\ PtOf(mem, v).p = 1 /\ PageOf(mem, v).p = 1
  BY WalkStops
<1>2. Walk(mem, v) = PageOf(mem, v).addr
  BY <1>1, WalkStops
<1>3. PtOf(mem, v).addr \in Frames /\ Index(v).leaf \in Slots
  BY <1>1, WalkLevels, IndexSlots
<1>4. PageOf(mem, v) \in Entries
  <2>1. mem[PtOf(mem, v).addr] \in [Slots -> Entries]
    BY <1>3 DEF TypeOK, Tables, Slots
  <2> QED
    BY <1>3, <2>1 DEF PageOf
<1> QED
  BY <1>2, <1>4 DEF Entries

(* The next state's walk, when the pml4 stays where it is. *)
LEMMA PrimedWalk ==
  ASSUME pml4' = pml4
  PROVE  /\ \A v : Walk(mem, v)' = Walk(mem', v)
         /\ \A v : PdptOf(mem, v)' = PdptOf(mem', v)
         /\ \A v : PdOf(mem, v)' = PdOf(mem', v)
         /\ \A v : PtOf(mem, v)' = PtOf(mem', v)
  BY DEF Walk, PdptOf, PdOf, PtOf, Index

(* Pages of the bitmap are pages an entry can name, page 0 is one, and     *)
(* cleared and stale pages read as tables.                                 *)
LEMMA FramesPhys ==
  /\ NBits \in Nat /\ NBits > 0 /\ NBits <= SHIFT_MOD /\ SHIFT_MOD <= PHYS_MOD
  /\ SHIFT_MOD \in Nat /\ PHYS_MOD \in Nat
  /\ Frames \subseteq Phys /\ 0 \in Frames /\ 0 \in Phys
  /\ Zeroed \in Tables /\ Junk \in Tables
<1>1. NBits \in Nat /\ NBits > 0
  BY SizeModPos, TotalLtMod, TotalPagesAssumption
<1>2. Frames \subseteq Phys /\ 0 \in Frames /\ 0 \in Phys
  BY <1>1, PhysAssumption DEF Frames, Phys
<1>3. Zeroed \in Tables /\ Junk \in Tables
  BY <1>2 DEF Zeroed, Junk, Tables, Entries
<1> QED
  BY <1>1, <1>2, <1>3, PhysAssumption

(* The call's page numbers are natural numbers. *)
LEMMA CallTypes ==
  ASSUME TypeOK
  PROVE  /\ call.vir \in Nat /\ call.phys \in Nat /\ call.page_cnt \in 0 .. MaxCnt /\ call.i \in 0 .. MaxCnt
         /\ call.level \in Levels /\ call.table \in Frames /\ MaxCnt \in Nat
         /\ VirAt(call, call.i) \in Vir /\ PhysAt(call, call.i) \in Phys
<1>1. /\ call.vir \in Nat /\ call.phys \in Nat /\ call.page_cnt \in 0 .. MaxCnt /\ call.i \in 0 .. MaxCnt
      /\ call.level \in Levels /\ call.table \in Frames /\ MaxCnt \in Nat
  <2>1. call \in [vir: VirStarts \cup {0}, phys: PhysStarts \cup {0}, page_cnt: 0 .. MaxCnt,
                  i: 0 .. MaxCnt, level: Levels, table: Frames]
    BY DEF TypeOK
  <2>2. call.vir \in VirStarts \cup {0} /\ call.phys \in PhysStarts \cup {0}
    BY <2>1
  <2>3. call.vir \in Nat /\ call.phys \in Nat /\ MaxCnt \in Nat
    <3>1. VirStarts \cup {0} \subseteq Nat /\ PhysStarts \cup {0} \subseteq Nat
      BY CallsAssumption
    <3> QED
      BY <2>2, <3>1, CallsAssumption, Zenon
  <2> QED
    BY <2>1, <2>3
<1>2. VirAt(call, call.i) \in Vir
  BY <1>1, VirAtRange
<1>3. PhysAt(call, call.i) \in Phys
  <2>1. call.phys + call.i \in Nat /\ PHYS_MOD \in Nat \ {0}
    BY <1>1, FramesPhys
  <2> QED
    BY <2>1, DivMod DEF PhysAt, Phys
<1> QED
  BY <1>1, <1>2, <1>3

-----------------------------------------------------------------------------
(* The pml4 kernel.c:72-73 takes is a page of memory that was not          *)
(* reserved, and the only table.                                           *)
LEMMA InitIInv == Init => IInv
<1> SUFFICES ASSUME Init PROVE IInv
  OBVIOUS
<1> DEFINE pb == [bitmap |-> Reserved, free |-> TotalPages - Cardinality(Reserved),
                  reserved |-> Cardinality(Reserved), used |-> 0]
           r  == req_page(pb)
<1>1. PICK stale \in {Zeroed, Junk} :
        /\ page_bitmap = r.pb /\ pml4 = r.page
        /\ mem = [[f \in Frames |-> stale] EXCEPT ![r.page] = Zeroed]
  BY DEF Init
<1>2. /\ cr3 = FALSE /\ tlb = NONE /\ call = NoCall /\ others = {} /\ exhausted = FALSE
  BY DEF Init
<1>3. pb \in PageBitmaps
  <2>1. IsFiniteSet(0 .. (TotalPages - 1)) /\ Cardinality(0 .. (TotalPages - 1)) = TotalPages
    BY TotalPagesAssumption, FS_Interval
  <2>2. IsFiniteSet(Reserved) /\ Cardinality(Reserved) <= TotalPages
    <3>1. Reserved \in SUBSET (0 .. (TotalPages - 1))
      BY ReservedAssumption
    <3>2. IsFiniteSet(Reserved) /\ Cardinality(Reserved) <= Cardinality(0 .. (TotalPages - 1))
      BY <2>1, <3>1, FS_Subset, Zenon
    <3> QED
      BY <2>1, <3>2
  <2>3. Cardinality(Reserved) \in Nat
    BY <2>2, FS_CardinalityType
  <2>4. TotalPages - Cardinality(Reserved) \in Pages /\ Cardinality(Reserved) \in Pages /\ 0 \in Pages
    BY <2>2, <2>3, TotalLtMod, SizeModPos, TotalPagesAssumption DEF Pages
  <2>5. Reserved \subseteq Bits
    BY ReservedAssumption, TotalLtMod, SizeModPos, TotalPagesAssumption DEF Bits
  <2> QED
    BY <2>4, <2>5 DEF PageBitmaps
<1>4. FreePages(pb) # {}
  <2>1. PICK k \in 0 .. (TotalPages - 1) : k \notin Reserved
    BY ReservedAssumption
  <2>2. k \in 0 .. (NBits - 1)
    BY TotalLtMod, SizeModPos, TotalPagesAssumption
  <2> QED
    BY <2>1, <2>2 DEF FreePages
<1>5. /\ pml4 \in Frames /\ page_bitmap \in PageBitmaps
      /\ pml4 \notin Reserved /\ page_bitmap.bitmap = Reserved \cup {pml4}
  <2>1. pb.bitmap = Reserved
    OBVIOUS
  <2> HIDE DEF pb
  <2> QED
    BY <1>1, <1>3, <1>4, <2>1, ReqPageResult DEF Frames, FreePages
<1>6. mem \in [Frames -> Tables] /\ mem[pml4] = Zeroed
  <2> HIDE DEF r
  <2> QED
    BY <1>1, <1>5, FramesPhys
<1>7. TypeOK
  <2>1. call \in [vir: VirStarts \cup {0}, phys: PhysStarts \cup {0}, page_cnt: 0 .. MaxCnt,
                  i: 0 .. MaxCnt, level: Levels, table: Frames]
    BY <1>2, FramesPhys, CallsAssumption DEF NoCall, Levels
  <2> QED
    BY <1>2, <1>5, <1>6, <2>1, Zenon DEF TypeOK
<1>8. Counting /\ Marked /\ OnPath /\ TlbCoherent
  BY <1>2, <1>5 DEF Counting, Marked, OnPath, TlbCoherent, NoCall
<1>9. \E lev \in [Frames -> 0 .. 4] : Tree(lev)
  <2> DEFINE lev == [f \in Frames |-> IF f = pml4 THEN 1 ELSE 0]
  <2>1. lev \in [Frames -> 0 .. 4] /\ \A f \in Frames : lev[f] = IF f = pml4 THEN 1 ELSE 0
    OBVIOUS
  <2>2. \A x \in Slots : mem[pml4][x].p # 1
    BY <1>6 DEF Zeroed, Slots
  <2> HIDE DEF lev
  <2>3. Tree(lev)
    BY <1>2, <1>5, <2>1, <2>2 DEF Tree
  <2> QED
    BY <2>1, <2>3
<1> QED
  BY <1>7, <1>8, <1>9 DEF IInv

-----------------------------------------------------------------------------
(* Steps that leave the tables alone. *)
LEMMA MapPagesIInv ==
  ASSUME IInv, NEW vir \in VirStarts, NEW phys \in PhysStarts, NEW page_cnt \in 0 .. MaxCnt,
         MapPages(vir, phys, page_cnt)
  PROVE  IInv'
<1>1. /\ call' = [vir |-> vir, phys |-> phys, page_cnt |-> page_cnt, i |-> 0,
                  level |-> IF page_cnt = 0 THEN "done" ELSE "pdpt", table |-> pml4]
      /\ page_bitmap' = page_bitmap /\ mem' = mem /\ pml4' = pml4 /\ cr3' = cr3 /\ tlb' = tlb
      /\ others' = others /\ exhausted' = exhausted
  BY DEF MapPages
<1>2. /\ call'.page_cnt = page_cnt /\ call'.i = 0 /\ call'.table = pml4
      /\ call'.level = IF page_cnt = 0 THEN "done" ELSE "pdpt"
  BY <1>1
<1>3. TypeOK'
  <2>1. call' \in [vir: VirStarts \cup {0}, phys: PhysStarts \cup {0}, page_cnt: 0 .. MaxCnt,
                   i: 0 .. MaxCnt, level: Levels, table: Frames]
    BY <1>1, CallsAssumption DEF IInv, TypeOK, Levels
  <2> QED
    BY <1>1, <2>1, Zenon DEF IInv, TypeOK
<1>4. Counting' /\ OnPath'
  BY <1>1, <1>2, CallsAssumption DEF Counting, OnPath
<1>5. ~ exhausted' => \E lev \in [Frames -> 0 .. 4] : Tree(lev)'
  BY <1>1 DEF IInv, Tree
<1>6. (TlbCoherent => TlbCoherent') /\ (Marked => Marked')
  <2>1. call.level = "done"
    BY DEF MapPages
  <2> QED
    BY <1>1, <2>1, PrimedWalk DEF TlbCoherent, Marked
<1> QED
  BY <1>1, <1>3, <1>4, <1>5, <1>6 DEF IInv

(* Loading cr3 empties the TLB. *)
LEMMA LoadCr3IInv ==
  ASSUME IInv, LoadCr3
  PROVE  IInv'
<1>1. /\ call' = call /\ page_bitmap' = page_bitmap /\ mem' = mem /\ pml4' = pml4 /\ cr3' = TRUE
      /\ tlb' = NONE /\ others' = others /\ exhausted' = exhausted
  BY DEF LoadCr3
<1>2. TypeOK'
  BY <1>1, Zenon DEF IInv, TypeOK
<1>3. Counting' /\ (OnPath => OnPath') /\ (Marked => Marked') /\ TlbCoherent'
  BY <1>1 DEF IInv, Counting, OnPath, PdptOf, PdOf, PtOf, VirAt, Index, TlbCoherent, Marked
<1>4. ~ exhausted' => \E lev \in [Frames -> 0 .. 4] : Tree(lev)'
  BY <1>1 DEF IInv, Tree
<1> QED
  BY <1>1, <1>2, <1>3, <1>4 DEF IInv

(* The processor caches a translation it walked. *)
LEMMA TlbFillIInv ==
  ASSUME IInv, NEW v \in Vir, TlbFill(v)
  PROVE  IInv'
<1>1. /\ call' = call /\ page_bitmap' = page_bitmap /\ mem' = mem /\ pml4' = pml4 /\ cr3' = cr3
      /\ tlb' = [vir |-> v, phys |-> Walk(mem, v)] /\ others' = others /\ exhausted' = exhausted
      /\ ~ exhausted /\ Walk(mem, v) # NONE
  BY DEF TlbFill
<1>2. PICK lev \in [Frames -> 0 .. 4] : Tree(lev)
  BY <1>1 DEF IInv
<1>3. TypeOK'
  <2>1. tlb' \in [vir: Vir, phys: Phys]
    BY <1>1, <1>2, WalkRange DEF IInv
  <2> QED
    BY <1>1, <2>1, Zenon DEF IInv, TypeOK
<1>4. Counting' /\ OnPath'
  BY <1>1 DEF IInv, Counting, OnPath, PdptOf, PdOf, PtOf, VirAt, Index
<1>5. TlbCoherent'
  <2>1. tlb'.vir = v /\ tlb'.phys = Walk(mem, v)
    BY <1>1
  <2>2. Walk(mem, v)' = Walk(mem, v)
    BY <1>1, PrimedWalk
  <2> QED
    BY <2>1, <2>2 DEF TlbCoherent
<1>6. Tree(lev)' /\ Marked'
  BY <1>1, <1>2 DEF Tree, IInv, Marked
<1> QED
  BY <1>3, <1>4, <1>5, <1>6 DEF IInv

-----------------------------------------------------------------------------
(* One level of map_page. *)

(* The entry map_page looks at is the one the processor would read, in a   *)
(* table of that level.                                                    *)
LEMMA CallEntry ==
  ASSUME IInv, ~ exhausted, NEW lev \in [Frames -> 0 .. 4], Tree(lev),
         call.level \in DOMAIN Below,
         NEW v, v = VirAt(call, call.i), NEW x, x = Index(v)[call.level]
  PROVE  /\ v \in Vir /\ x \in Slots /\ call.table \in Frames
         /\ \/ /\ call.level = "pdpt" /\ Below[call.level] = "pd" /\ lev[call.table] = 1
               /\ call.table = pml4 /\ x = Index(v).pdpt /\ mem[call.table][x] = PdptOf(mem, v)
            \/ /\ call.level = "pd" /\ Below[call.level] = "pt" /\ lev[call.table] = 2
               /\ PdptOf(mem, v).p = 1 /\ call.table = PdptOf(mem, v).addr
               /\ x = Index(v).pd /\ mem[call.table][x] = PdOf(mem, v)
            \/ /\ call.level = "pt" /\ Below[call.level] = "leaf" /\ lev[call.table] = 3
               /\ PdptOf(mem, v).p = 1 /\ PdOf(mem, v).p = 1 /\ call.table = PdOf(mem, v).addr
               /\ x = Index(v).pt /\ mem[call.table][x] = PtOf(mem, v)
<1>1. v \in Vir /\ call.table \in Frames
  BY CallTypes DEF IInv
<1>2. \/ call.level = "pdpt" /\ Below[call.level] = "pd"
      \/ call.level = "pd" /\ Below[call.level] = "pt"
      \/ call.level = "pt" /\ Below[call.level] = "leaf"
  BY DEF Below
<1>3. CASE call.level = "pdpt"
  <2>1. call.table = pml4 /\ x = Index(v).pdpt
    BY <1>3 DEF IInv, OnPath, Index
  <2> QED
    BY <1>1, <1>2, <1>3, <2>1, WalkLevels, IndexSlots DEF IInv, PdptOf
<1>4. CASE call.level = "pd"
  <2>1. PdptOf(mem, v).p = 1 /\ call.table = PdptOf(mem, v).addr /\ x = Index(v).pd
    BY <1>4 DEF IInv, OnPath, Index
  <2> QED
    BY <1>1, <1>2, <1>4, <2>1, WalkLevels, IndexSlots DEF IInv, PdOf
<1>5. CASE call.level = "pt"
  <2>1. /\ PdptOf(mem, v).p = 1 /\ PdOf(mem, v).p = 1 /\ call.table = PdOf(mem, v).addr
        /\ x = Index(v).pt
    BY <1>5 DEF IInv, OnPath, Index
  <2> QED
    BY <1>1, <1>2, <1>5, <2>1, WalkLevels, IndexSlots DEF IInv, PtOf
<1> QED
  BY <1>2, <1>3, <1>4, <1>5

(* What a step down changes of the call. *)
LEMMA DescendCall ==
  ASSUME TypeOK, Counting, call.level \in DOMAIN Below, NEW t \in Frames,
         call' = [call EXCEPT !.level = Below[@], !.table = t]
  PROVE  /\ call'.level = Below[call.level] /\ call'.table = t /\ call'.i = call.i
         /\ call'.vir = call.vir /\ call'.phys = call.phys
         /\ call' \in [vir: VirStarts \cup {0}, phys: PhysStarts \cup {0}, page_cnt: 0 .. MaxCnt,
                       i: 0 .. MaxCnt, level: Levels, table: Frames]
         /\ Counting'
<1>1. call \in [vir: VirStarts \cup {0}, phys: PhysStarts \cup {0}, page_cnt: 0 .. MaxCnt,
                i: 0 .. MaxCnt, level: Levels, table: Frames]
  BY DEF TypeOK
<1>2. Below[call.level] \in Levels /\ call.level # "done"
  BY DEF Below, Levels
<1>3. /\ call'.level = Below[call.level] /\ call'.table = t /\ call'.i = call.i
      /\ call'.vir = call.vir /\ call'.phys = call.phys /\ call'.page_cnt = call.page_cnt
  BY <1>1
<1>4. call' \in [vir: VirStarts \cup {0}, phys: PhysStarts \cup {0}, page_cnt: 0 .. MaxCnt,
                 i: 0 .. MaxCnt, level: Levels, table: Frames]
  BY <1>1, <1>2
<1>5. Counting'
  BY <1>2, <1>3 DEF Counting
<1> QED
  BY <1>3, <1>4, <1>5

(* The entry is present: map_page goes to the table it names. *)
LEMMA DescendFollows ==
  ASSUME IInv, Descend, mem[call.table][Index(VirAt(call, call.i))[call.level]].p = 1
  PROVE  IInv'
<1> DEFINE v == VirAt(call, call.i)
           x == Index(v)[call.level]
           e == mem[call.table][x]
<1>1. /\ call.level \in DOMAIN Below /\ ~ exhausted
      /\ call' = [call EXCEPT !.level = Below[@], !.table = e.addr]
      /\ page_bitmap' = page_bitmap /\ mem' = mem /\ exhausted' = exhausted
      /\ pml4' = pml4 /\ cr3' = cr3 /\ tlb' = tlb /\ others' = others
  BY DEF Descend
<1>2. PICK lev \in [Frames -> 0 .. 4] : Tree(lev)
  BY <1>1 DEF IInv
<1>3. /\ v \in Vir /\ x \in Slots /\ call.table \in Frames
      /\ \/ /\ call.level = "pdpt" /\ Below[call.level] = "pd" /\ lev[call.table] = 1
            /\ e = PdptOf(mem, v)
         \/ /\ call.level = "pd" /\ Below[call.level] = "pt" /\ lev[call.table] = 2
            /\ PdptOf(mem, v).p = 1 /\ e = PdOf(mem, v)
         \/ /\ call.level = "pt" /\ Below[call.level] = "leaf" /\ lev[call.table] = 3
            /\ PdptOf(mem, v).p = 1 /\ PdOf(mem, v).p = 1 /\ e = PtOf(mem, v)
  BY <1>1, <1>2, CallEntry
<1>4. e.p = 1
  OBVIOUS
<1> HIDE DEF x, e
<1>5. e.addr \in Frames
  BY <1>2, <1>3, <1>4, WalkLevels DEF IInv
<1>6. /\ call'.level = Below[call.level] /\ call'.table = e.addr /\ call'.i = call.i
      /\ call'.vir = call.vir /\ Counting'
      /\ call' \in [vir: VirStarts \cup {0}, phys: PhysStarts \cup {0}, page_cnt: 0 .. MaxCnt,
                    i: 0 .. MaxCnt, level: Levels, table: Frames]
  BY <1>1, <1>5, DescendCall DEF IInv
<1>7. TypeOK'
  BY <1>1, <1>6, Zenon DEF IInv, TypeOK
<1>8. VirAt(call, call.i)' = v
  BY <1>6 DEF VirAt
<1> HIDE DEF v
<1>9. OnPath'
  BY <1>1, <1>3, <1>4, <1>6, <1>8, PrimedWalk DEF OnPath
<1>10. Tree(lev)' /\ Marked' /\ TlbCoherent'
  <2>1. Tree(lev)' /\ Marked'
    BY <1>1, <1>2 DEF Tree, IInv, Marked
  <2>2. TlbCoherent'
    <3>1. call.level # "invlpg"
      BY <1>1 DEF Below
    <3> QED
      BY <1>1, <3>1, PrimedWalk DEF IInv, TlbCoherent
  <2> QED
    BY <2>1, <2>2
<1> QED
  BY <1>6, <1>7, <1>9, <1>10 DEF IInv

(* The page req_page hands out is nobody's table. *)
LEMMA FreshPage ==
  ASSUME IInv, ~ exhausted, NEW lev \in [Frames -> 0 .. 4], Tree(lev),
         NEW r, r = req_page(page_bitmap)
  PROVE  /\ r.page \in Frames /\ r.pb \in PageBitmaps
         /\ ~ Exhausts(r) => /\ lev[r.page] = 0 /\ r.page \notin page_bitmap.bitmap
                            /\ r.page \notin others \cup Reserved
                            /\ r.pb.bitmap = page_bitmap.bitmap \cup {r.page}
<1>1. page_bitmap \in PageBitmaps
  BY DEF IInv, TypeOK
<1>2. r.page \in Frames /\ r.pb \in PageBitmaps
  BY <1>1, ReqPageResult DEF Frames
<1>3. ASSUME ~ Exhausts(r)
      PROVE  r.page \notin page_bitmap.bitmap /\ r.pb.bitmap = page_bitmap.bitmap \cup {r.page}
  BY <1>1, <1>3, ReqPageResult DEF Exhausts, FreePages
<1>4. ASSUME ~ Exhausts(r)
      PROVE  lev[r.page] = 0 /\ r.page \notin others \cup Reserved
  <2>1. lev[r.page] = 0
    BY <1>2, <1>3, <1>4, Zenon DEF Tree
  <2> QED
    BY <1>3, <1>4, <2>1 DEF IInv, Marked
<1> QED
  BY <1>2, <1>3, <1>4

(* Clearing a page and then writing an entry of another. *)
LEMMA ClearAndLink ==
  ASSUME TypeOK, NEW t \in Frames, NEW x \in Slots, NEW e \in Entries, NEW r \in Frames,
         mem' = [[mem EXCEPT ![r] = Zeroed] EXCEPT ![t][x] = e]
  PROVE  /\ mem' \in [Frames -> Tables]
         /\ mem'[t][x] = e
         /\ r # t => \A y \in Slots : mem'[r][y].p # 1
         /\ \A f \in Frames, y \in Slots : f # r /\ (f # t \/ y # x) => mem'[f][y] = mem[f][y]
<1> DEFINE c == [mem EXCEPT ![r] = Zeroed]
<1>1. c \in [Frames -> [Slots -> Entries]]
  BY FramesPhys DEF TypeOK, Tables, Slots
<1>2. mem' = [c EXCEPT ![t] = [c[t] EXCEPT ![x] = e]]
  OBVIOUS
<1>3. [c[t] EXCEPT ![x] = e] \in [Slots -> Entries]
  BY <1>1
<1>4. c[r] = Zeroed /\ \A f \in Frames : f # r => c[f] = mem[f]
  BY DEF TypeOK
<1> HIDE DEF c
<1>5. mem' \in [Frames -> [Slots -> Entries]]
  BY <1>1, <1>2, <1>3
<1>6. mem'[t] = [c[t] EXCEPT ![x] = e] /\ \A f \in Frames : f # t => mem'[f] = c[f]
  BY <1>1, <1>2
<1>7. c[t] \in [Slots -> Entries]
  BY <1>1
<1>8. mem'[t][x] = e /\ \A y \in Slots : y # x => mem'[t][y] = c[t][y]
  <2> DEFINE ct == c[t]
  <2>1. ct \in [Slots -> Entries] /\ mem'[t] = [ct EXCEPT ![x] = e]
    BY <1>6, <1>7
  <2> HIDE DEF ct
  <2>2. mem'[t][x] = e /\ \A y \in Slots : y # x => mem'[t][y] = ct[y]
    BY <2>1
  <2> QED
    BY <2>2 DEF ct
<1>9. \A y \in Slots : Zeroed[y].p # 1
  BY DEF Zeroed, Slots
<1>10. \A f \in Frames, y \in Slots : f # r /\ (f # t \/ y # x) => mem'[f][y] = mem[f][y]
  <2>1. ASSUME NEW f \in Frames, NEW y \in Slots, f # r, f # t
        PROVE  mem'[f][y] = mem[f][y]
    BY <1>4, <1>6, <2>1, Zenon
  <2>2. ASSUME NEW y \in Slots, t # r, y # x
        PROVE  mem'[t][y] = mem[t][y]
    BY <1>4, <1>8, <2>2, Zenon
  <2> QED
    BY <2>1, <2>2, Zenon
<1> QED
  BY <1>4, <1>5, <1>6, <1>8, <1>9, <1>10 DEF Tables, Slots

(* A fresh page, cleared, linked from an entry that was not present, keeps *)
(* the tables a tree: it is one level below the table it is linked from.   *)
LEMMA TreeGrows ==
  ASSUME TypeOK, NEW lev \in [Frames -> 0 .. 4], Tree(lev), NEW t \in Frames, lev[t] \in 1 .. 3,
         NEW x \in Slots, mem[t][x].p # 1, NEW r \in Frames, lev[r] = 0, r \notin page_bitmap.bitmap,
         pml4' = pml4, others' = others, page_bitmap'.bitmap = page_bitmap.bitmap \cup {r},
         r \notin others \cup Reserved,
         mem'[t][x] = [p |-> 1, addr |-> r],
         \A y \in Slots : mem'[r][y].p # 1,
         \A f \in Frames, y \in Slots : f # r /\ (f # t \/ y # x) => mem'[f][y] = mem[f][y]
  PROVE  \E new \in [Frames -> 0 .. 4] : Tree(new)'
<1> DEFINE new == [lev EXCEPT ![r] = lev[t] + 1]
<1>1. new \in [Frames -> 0 .. 4] /\ new[r] = lev[t] + 1 /\ \A f \in Frames : f # r => new[f] = lev[f]
  OBVIOUS
<1>2. mem'[t][x].p = 1 /\ mem'[t][x].addr = r /\ t # r /\ new[t] = lev[t]
  BY <1>1
<1> HIDE DEF new
<1>3. ASSUME NEW f \in Frames, NEW y \in Slots, new[f] \in 1 .. 3, mem'[f][y].p = 1
      PROVE  \/ f = t /\ y = x
             \/ /\ f # r /\ lev[f] = new[f] /\ mem'[f][y] = mem[f][y]
                /\ lev[f] \in 1 .. 3 /\ mem[f][y].p = 1
                /\ mem[f][y].addr \in Frames /\ lev[mem[f][y].addr] = lev[f] + 1
                /\ mem[f][y].addr # r
  <2>1. f # r
    BY <1>3
  <2>2. CASE ~ (f = t /\ y = x)
    <3>1. lev[f] = new[f] /\ mem'[f][y] = mem[f][y] /\ lev[f] \in 1 .. 3 /\ mem[f][y].p = 1
      BY <1>1, <1>3, <2>1, <2>2
    <3>2. mem[f][y].addr \in Frames /\ lev[mem[f][y].addr] = lev[f] + 1
      BY <3>1, Zenon DEF Tree
    <3>3. mem[f][y].addr # r
      BY <3>1, <3>2
    <3> QED
      BY <2>1, <3>1, <3>2, <3>3
  <2> QED
    BY <2>2
<1>4. \A f \in Frames : new[f] = 1 <=> f = pml4
  <2>1. lev[pml4] = 1 /\ pml4 \in Frames
    BY DEF TypeOK, Tree
  <2>2. \A f \in Frames : lev[f] = 1 <=> f = pml4
    BY Zenon DEF Tree
  <2> QED
    BY <1>1, <2>1, <2>2
<1>5. \A f \in Frames, y \in Slots :
        new[f] \in 1 .. 3 /\ mem'[f][y].p = 1 =>
          mem'[f][y].addr \in Frames /\ new[mem'[f][y].addr] = new[f] + 1
  <2> SUFFICES ASSUME NEW f \in Frames, NEW y \in Slots, new[f] \in 1 .. 3, mem'[f][y].p = 1
               PROVE  mem'[f][y].addr \in Frames /\ new[mem'[f][y].addr] = new[f] + 1
    OBVIOUS
  <2>1. CASE f = t /\ y = x
    BY <1>1, <1>2, <2>1
  <2>2. CASE ~ (f = t /\ y = x)
    BY <1>1, <1>3, <2>2
  <2> QED
    BY <2>1, <2>2
<1>6. \A f, g \in Frames, y, z \in Slots :
        /\ new[f] \in 1 .. 3 /\ mem'[f][y].p = 1
        /\ new[g] \in 1 .. 3 /\ mem'[g][z].p = 1
        /\ mem'[f][y].addr = mem'[g][z].addr
        => f = g /\ y = z
  <2> SUFFICES ASSUME NEW f \in Frames, NEW g \in Frames, NEW y \in Slots, NEW z \in Slots,
                      new[f] \in 1 .. 3, mem'[f][y].p = 1, new[g] \in 1 .. 3, mem'[g][z].p = 1,
                      mem'[f][y].addr = mem'[g][z].addr
               PROVE  f = g /\ y = z
    OBVIOUS
  <2>1. CASE f = t /\ y = x
    BY <1>2, <1>3, <2>1
  <2>2. CASE g = t /\ z = x
    BY <1>2, <1>3, <2>2
  <2>3. CASE ~ (f = t /\ y = x) /\ ~ (g = t /\ z = x)
    <3>1. /\ lev[f] \in 1 .. 3 /\ mem[f][y].p = 1 /\ mem[f][y] = mem'[f][y]
          /\ lev[g] \in 1 .. 3 /\ mem[g][z].p = 1 /\ mem[g][z] = mem'[g][z]
      BY <1>3, <2>3
    <3>2. mem[f][y].addr = mem[g][z].addr
      BY <3>1
    <3>3. \A a, b \in Frames, i, j \in Slots :
            /\ lev[a] \in 1 .. 3 /\ mem[a][i].p = 1
            /\ lev[b] \in 1 .. 3 /\ mem[b][j].p = 1
            /\ mem[a][i].addr = mem[b][j].addr
            => a = b /\ i = j
      BY Zenon DEF Tree
    <3> QED
      BY <3>1, <3>2, <3>3
  <2> QED
    BY <2>1, <2>2, <2>3
<1>7. \A f \in Frames : new[f] # 0 => f \in page_bitmap'.bitmap \ (others \cup Reserved)
  <2>1. \A f \in Frames : lev[f] # 0 => f \in page_bitmap.bitmap \ (others \cup Reserved)
    BY Zenon DEF Tree
  <2> QED
    BY <1>1, <2>1
<1>8. Tree(new)'
  BY <1>4, <1>5, <1>6, <1>7 DEF Tree
<1> QED
  BY <1>1, <1>8

(* The entry is not present: a fresh table is cleared and linked. *)
LEMMA DescendAllocates ==
  ASSUME IInv, Descend, mem[call.table][Index(VirAt(call, call.i))[call.level]].p # 1
  PROVE  /\ IInv'
         /\ ~ exhausted' => \A w \in Vir : Walk(mem', w) = Walk(mem, w)
<1> DEFINE v == VirAt(call, call.i)
           x == Index(v)[call.level]
           e == mem[call.table][x]
           r == req_page(page_bitmap)
           t == call.table
<1>1. /\ call.level \in DOMAIN Below /\ ~ exhausted
      /\ call' = [call EXCEPT !.level = Below[@], !.table = r.page]
      /\ page_bitmap' = r.pb
      /\ mem' = [[mem EXCEPT ![r.page] = Zeroed] EXCEPT ![t][x] = [p |-> 1, addr |-> r.page]]
      /\ exhausted' = Exhausts(r)
      /\ pml4' = pml4 /\ cr3' = cr3 /\ tlb' = tlb /\ others' = others
  BY DEF Descend
<1>2. PICK lev \in [Frames -> 0 .. 4] : Tree(lev)
  BY <1>1 DEF IInv
<1>3. /\ v \in Vir /\ x \in Slots /\ t \in Frames
      /\ \/ /\ call.level = "pdpt" /\ Below[call.level] = "pd" /\ lev[t] = 1
            /\ t = pml4 /\ x = Index(v).pdpt /\ e = PdptOf(mem, v)
         \/ /\ call.level = "pd" /\ Below[call.level] = "pt" /\ lev[t] = 2
            /\ PdptOf(mem, v).p = 1 /\ t = PdptOf(mem, v).addr
            /\ x = Index(v).pd /\ e = PdOf(mem, v)
         \/ /\ call.level = "pt" /\ Below[call.level] = "leaf" /\ lev[t] = 3
            /\ PdptOf(mem, v).p = 1 /\ PdOf(mem, v).p = 1 /\ t = PdOf(mem, v).addr
            /\ x = Index(v).pt /\ e = PtOf(mem, v)
  BY <1>1, <1>2, CallEntry
<1>4. mem[t][x].p # 1 /\ e = mem[t][x]
  OBVIOUS
<1>5. /\ r.page \in Frames /\ r.pb \in PageBitmaps
      /\ ~ Exhausts(r) => /\ lev[r.page] = 0 /\ r.page \notin page_bitmap.bitmap
                         /\ r.page \notin others \cup Reserved
                         /\ r.pb.bitmap = page_bitmap.bitmap \cup {r.page}
  BY <1>1, <1>2, FreshPage
<1>6. [p |-> 1, addr |-> r.page] \in Entries
  BY <1>5, FramesPhys DEF Entries
<1>7. VirAt(call, call.i)' = VirAt(call', call'.i)
  BY DEF VirAt
<1> HIDE DEF x, e, r, t
<1>8. /\ mem' \in [Frames -> Tables]
      /\ mem'[t][x] = [p |-> 1, addr |-> r.page]
      /\ r.page # t => \A y \in Slots : mem'[r.page][y].p # 1
      /\ \A f \in Frames, y \in Slots : f # r.page /\ (f # t \/ y # x) => mem'[f][y] = mem[f][y]
  <2>1. TypeOK
    BY DEF IInv
  <2> DEFINE link == [p |-> 1, addr |-> r.page]
             page == r.page
  <2>2. mem' = [[mem EXCEPT ![page] = Zeroed] EXCEPT ![t][x] = link] /\ link \in Entries /\ page \in Frames
    BY <1>1, <1>5, <1>6
  <2> HIDE DEF link, page
  <2>3. /\ mem' \in [Frames -> Tables]
        /\ mem'[t][x] = link
        /\ page # t => \A y \in Slots : mem'[page][y].p # 1
        /\ \A f \in Frames, y \in Slots : f # page /\ (f # t \/ y # x) => mem'[f][y] = mem[f][y]
    BY <1>3, <2>1, <2>2, ClearAndLink
  <2> QED
    BY <2>3 DEF link, page
<1>9. /\ call'.level = Below[call.level] /\ call'.table = r.page /\ call'.i = call.i
      /\ call'.vir = call.vir /\ Counting'
      /\ call' \in [vir: VirStarts \cup {0}, phys: PhysStarts \cup {0}, page_cnt: 0 .. MaxCnt,
                    i: 0 .. MaxCnt, level: Levels, table: Frames]
  BY <1>1, <1>5, DescendCall DEF IInv
<1>10. TypeOK'
  <2>1. exhausted' \in BOOLEAN
    BY <1>1, Zenon DEF Exhausts
  <2> QED
    BY <1>1, <1>5, <1>8, <1>9, <2>1, Zenon DEF IInv, TypeOK
<1>11. VirAt(call, call.i)' = v
  BY <1>9 DEF VirAt
<1> HIDE DEF v
<1>12. CASE exhausted'
  BY <1>9, <1>10, <1>12 DEF IInv
<1>13. CASE ~ exhausted'
  <2>1. /\ lev[r.page] = 0 /\ r.page \notin page_bitmap.bitmap /\ r.page \notin others \cup Reserved
        /\ page_bitmap'.bitmap = page_bitmap.bitmap \cup {r.page} /\ lev[t] \in 1 .. 3
        /\ r.page # t
    BY <1>1, <1>3, <1>5, <1>13
  <2>2. \E new \in [Frames -> 0 .. 4] : Tree(new)'
    <3>1. PICK q \in Frames, u \in Frames, z \in Slots : q = r.page /\ u = t /\ z = x
      BY <1>3, <1>5
    <3>2. mem[u][z].p # 1
      BY <1>4, <3>1
    <3>3. /\ mem'[u][z] = [p |-> 1, addr |-> q]
          /\ \A y \in Slots : mem'[q][y].p # 1
          /\ \A f \in Frames, y \in Slots : f # q /\ (f # u \/ y # z) => mem'[f][y] = mem[f][y]
      BY <1>8, <2>1, <3>1
    <3>4. /\ lev[q] = 0 /\ q \notin page_bitmap.bitmap /\ q \notin others \cup Reserved
          /\ page_bitmap'.bitmap = page_bitmap.bitmap \cup {q} /\ lev[u] \in 1 .. 3
      BY <2>1, <3>1
    <3>5. TypeOK /\ pml4' = pml4 /\ others' = others
      BY <1>1 DEF IInv
    <3> QED
      BY <1>2, <3>2, <3>3, <3>4, <3>5, TreeGrows
  <2>3. Marked'
    BY <1>1, <2>1 DEF IInv, Marked
  <2>4. ASSUME NEW w \in Vir
        PROVE  Walk(mem', w) = Walk(mem, w)
    <3>1. \A f \in Frames, y \in Slots : lev[f] \in 1 .. 3 => Kept(mem', f, y)
      <4> SUFFICES ASSUME NEW f \in Frames, NEW y \in Slots, lev[f] \in 1 .. 3
                   PROVE  Kept(mem', f, y)
        OBVIOUS
      <4>1. CASE f = t /\ y = x
        BY <1>4, <1>8, <2>1, <4>1 DEF Kept
      <4>2. CASE f # t \/ y # x
        BY <1>8, <2>1, <4>2 DEF Kept
      <4> QED
        BY <4>1, <4>2
    <3>2. \A f \in Frames, y \in Slots : lev[f] = 4 => mem'[f][y] = mem[f][y]
      BY <1>8, <2>1
    <3> QED
      BY <1>2, <3>1, <3>2, WalkUnchanged DEF IInv
  <2>5. TlbCoherent'
    <3>1. tlb = NONE \/ tlb.vir \in Vir
      BY DEF IInv, TypeOK
    <3>2. call.level # "invlpg"
      BY <1>1 DEF Below
    <3> QED
      BY <1>1, <2>4, <3>1, <3>2, PrimedWalk DEF IInv, TlbCoherent
  <2>6. ASSUME NEW f \in Frames, NEW y \in Slots, lev[f] \in 1 .. 3, lev[f] < lev[t]
        PROVE  mem'[f][y] = mem[f][y]
    BY <1>8, <2>1, <2>6
  <2>7. OnPath'
    <3>1. CASE call.level = "pdpt"
      <4>1. PdptOf(mem', v) = [p |-> 1, addr |-> r.page]
        BY <1>3, <1>8, <3>1 DEF PdptOf
      <4>5. /\ call'.level = "pd" /\ call'.table = r.page /\ VirAt(call, call.i)' = v /\ pml4' = pml4
            /\ [p |-> 1, addr |-> r.page].p = 1 /\ [p |-> 1, addr |-> r.page].addr = r.page
        BY <1>1, <1>3, <1>9, <1>11, <3>1
      <4> QED
        BY <1>3, <3>1, <4>1, <4>5, PrimedWalk DEF OnPath
    <3>2. CASE call.level = "pd"
      <4>1. PdptOf(mem', v) = PdptOf(mem, v)
        BY <1>2, <1>3, <2>1, <2>6, <3>2, WalkLevels, IndexSlots DEF IInv, PdptOf
      <4>2. PdOf(mem', v) = [p |-> 1, addr |-> r.page]
        BY <1>3, <1>8, <3>2, <4>1 DEF PdOf
      <4>5. /\ call'.level = "pt" /\ call'.table = r.page /\ VirAt(call, call.i)' = v /\ pml4' = pml4
            /\ [p |-> 1, addr |-> r.page].p = 1 /\ [p |-> 1, addr |-> r.page].addr = r.page
        BY <1>1, <1>3, <1>9, <1>11, <3>2
      <4> QED
        BY <1>3, <3>2, <4>1, <4>2, <4>5, PrimedWalk DEF OnPath
    <3>3. CASE call.level = "pt"
      <4>1. PdptOf(mem', v) = PdptOf(mem, v)
        BY <1>2, <1>3, <2>1, <2>6, <3>3, WalkLevels, IndexSlots DEF IInv, PdptOf
      <4>2. PdOf(mem', v) = PdOf(mem, v)
        <5>1. PdptOf(mem, v).addr \in Frames /\ lev[PdptOf(mem, v).addr] = 2 /\ lev[t] = 3
          BY <1>2, <1>3, <3>3, WalkLevels DEF IInv
        <5> QED
          BY <1>3, <2>6, <4>1, <5>1, IndexSlots DEF PdOf
      <4>3. PtOf(mem', v) = [p |-> 1, addr |-> r.page]
        BY <1>3, <1>8, <3>3, <4>2 DEF PtOf
      <4>5. /\ call'.level = "leaf" /\ call'.table = r.page /\ VirAt(call, call.i)' = v /\ pml4' = pml4
            /\ [p |-> 1, addr |-> r.page].p = 1 /\ [p |-> 1, addr |-> r.page].addr = r.page
        BY <1>1, <1>3, <1>9, <1>11, <3>3
      <4> QED
        BY <1>3, <3>3, <4>1, <4>2, <4>3, <4>5, PrimedWalk DEF OnPath
    <3> QED
      BY <1>3, <3>1, <3>2, <3>3
  <2> QED
    BY <1>9, <1>10, <2>2, <2>3, <2>4, <2>5, <2>7 DEF IInv
<1> QED
  BY <1>12, <1>13

(* Descend, both ways: the invariant is kept and no translation changes. *)
LEMMA DescendIInv ==
  ASSUME IInv, Descend
  PROVE  /\ IInv'
         /\ ~ exhausted' => \A w \in Vir : Walk(mem', w) = Walk(mem, w)
         /\ call'.i = call.i /\ call'.vir = call.vir /\ call'.phys = call.phys
         /\ call'.level # "invlpg" /\ pml4' = pml4 /\ ~ exhausted
<1> DEFINE e == mem[call.table][Index(VirAt(call, call.i))[call.level]]
<1>1. /\ call.level \in DOMAIN Below /\ pml4' = pml4 /\ ~ exhausted
      /\ \E t : call' = [call EXCEPT !.level = Below[@], !.table = t]
  BY DEF Descend
<1>2. call'.i = call.i /\ call'.vir = call.vir /\ call'.phys = call.phys /\ call'.level # "invlpg"
  BY <1>1 DEF IInv, TypeOK, Below
<1>3. CASE e.p = 1
  <2>1. mem' = mem
    BY <1>3 DEF Descend
  <2> QED
    BY <1>1, <1>2, <1>3, <2>1, DescendFollows
<1>4. CASE e.p # 1
  BY <1>1, <1>2, <1>4, DescendAllocates
<1> QED
  BY <1>3, <1>4

-----------------------------------------------------------------------------
(* The end of map_page. *)

(* The leaf is written: the page of this iteration translates as asked,    *)
(* and no other translation changes.                                       *)
LEMMA WriteLeafIInv ==
  ASSUME IInv, WriteLeaf
  PROVE  /\ IInv'
         /\ Walk(mem', VirAt(call, call.i)) = PhysAt(call, call.i)
         /\ \A w \in Vir \ {VirAt(call, call.i)} : Walk(mem', w) = Walk(mem, w)
         /\ call'.i = call.i /\ call'.vir = call.vir /\ call'.phys = call.phys
         /\ pml4' = pml4 /\ ~ exhausted /\ ~ exhausted'
<1> DEFINE v == VirAt(call, call.i)
           e == [p |-> 1, addr |-> PhysAt(call, call.i)]
           t == call.table
           x == Index(v).leaf
<1>1. /\ call.level = "leaf" /\ ~ exhausted
      /\ mem' = [mem EXCEPT ![t][x] = e]
      /\ tlb' = tlb
      /\ call' = [call EXCEPT !.level = "invlpg"]
      /\ page_bitmap' = page_bitmap /\ pml4' = pml4 /\ cr3' = cr3 /\ others' = others
      /\ exhausted' = exhausted
  BY DEF WriteLeaf, Index
<1>2. PICK lev \in [Frames -> 0 .. 4] : Tree(lev)
  BY <1>1 DEF IInv
<1>3. /\ v \in Vir /\ PhysAt(call, call.i) \in Phys /\ t \in Frames /\ call.i \in 0 .. MaxCnt
      /\ call.page_cnt \in 0 .. MaxCnt /\ MaxCnt \in Nat
  BY CallTypes DEF IInv
<1>4. e \in Entries /\ x \in Slots
  BY <1>3, IndexSlots DEF Entries
<1>5. PdptOf(mem, v).p = 1 /\ PdOf(mem, v).p = 1 /\ PtOf(mem, v).p = 1 /\ t = PtOf(mem, v).addr
  BY <1>1 DEF IInv, OnPath
<1>6. e.p = 1 /\ e.addr = PhysAt(call, call.i)
  OBVIOUS
<1>7. TypeOK /\ Counting /\ pml4 \in Frames
  BY DEF IInv, TypeOK
<1>8. VirAt(call, call.i) = v /\ x = Index(v).leaf
  OBVIOUS
<1> HIDE DEF v, e, t, x
<1>9. /\ mem' \in [Frames -> Tables] /\ mem'[t][x] = e
      /\ \A f \in Frames, y \in Slots : f # t \/ y # x => mem'[f][y] = mem[f][y]
  <2>1. mem' = [mem EXCEPT ![t][x] = e]
    BY <1>1
  <2>2. t \in Frames /\ x \in Slots /\ e \in Entries /\ TypeOK
    BY <1>3, <1>4, <1>7
  <2>3. mem \in [Frames -> [Slots -> Entries]]
    BY <2>2 DEF TypeOK, Tables, Slots
  <2>4. mem[t] \in [Slots -> Entries] /\ mem' = [mem EXCEPT ![t] = [mem[t] EXCEPT ![x] = e]]
    BY <2>1, <2>2, <2>3
  <2>5. [mem[t] EXCEPT ![x] = e] \in [Slots -> Entries]
    BY <2>2, <2>4
  <2>6. mem' \in [Frames -> [Slots -> Entries]]
    BY <2>2, <2>3, <2>4, <2>5
  <2>7. mem'[t] = [mem[t] EXCEPT ![x] = e] /\ \A f \in Frames : f # t => mem'[f] = mem[f]
    BY <2>2, <2>3, <2>4
  <2>8. mem'[t][x] = e /\ \A y \in Slots : y # x => mem'[t][y] = mem[t][y]
    BY <2>2, <2>4, <2>7
  <2> QED
    BY <2>6, <2>7, <2>8 DEF Tables, Slots
<1>10. lev[t] = 4
  BY <1>2, <1>3, <1>5, <1>7, WalkLevels
<1>11. /\ Walk(mem', v) = PhysAt(call, call.i)
       /\ \A w \in Vir \ {v} : Walk(mem', w) = Walk(mem, w)
  <2>1. mem'[PtOf(mem, v).addr][Index(v).leaf].p = 1
    BY <1>5, <1>6, <1>8, <1>9
  <2>2. \A f \in Frames, y \in Slots :
          f # PtOf(mem, v).addr \/ y # Index(v).leaf => mem'[f][y] = mem[f][y]
    BY <1>5, <1>8, <1>9
  <2>3. /\ Walk(mem', v) = mem'[PtOf(mem, v).addr][Index(v).leaf].addr
        /\ \A w \in Vir \ {v} : Walk(mem', w) = Walk(mem, w)
    BY <1>2, <1>3, <1>5, <1>7, <2>1, <2>2, WalkLeaf
  <2> QED
    BY <1>5, <1>6, <1>8, <1>9, <2>3
<1>12. /\ call'.i = call.i /\ call'.vir = call.vir /\ call'.phys = call.phys
       /\ call'.page_cnt = call.page_cnt /\ call'.level = "invlpg"
  BY <1>1, <1>7 DEF TypeOK
<1>13. Counting'
  BY <1>1, <1>7, <1>12 DEF Counting
<1>14. TypeOK'
  <2>1. call' \in [vir: VirStarts \cup {0}, phys: PhysStarts \cup {0}, page_cnt: 0 .. MaxCnt,
                   i: 0 .. MaxCnt, level: Levels, table: Frames]
    BY <1>1, <1>7 DEF TypeOK, Levels
  <2> QED
    BY <1>1, <1>7, <1>9, <2>1, Zenon DEF TypeOK
<1>15. VirAt(call, call.i)' = v
  BY <1>8, <1>12 DEF VirAt
<1>16. OnPath' /\ Marked'
  BY <1>1, <1>12 DEF OnPath, IInv, Marked
<1>17. TlbCoherent'
  <2>1. CASE tlb = NONE \/ tlb.vir = v
    BY <1>1, <1>12, <1>15, <2>1 DEF TlbCoherent
  <2>2. CASE tlb # NONE /\ tlb.vir # v
    <3>1. tlb.vir \in Vir
      BY <1>7, <2>2 DEF TypeOK
    <3> QED
      BY <1>1, <1>11, <2>2, <3>1, PrimedWalk DEF IInv, TlbCoherent
  <2> QED
    BY <2>1, <2>2
<1>18. Tree(lev)'
  <2>1. \A f \in Frames, y \in Slots : lev[f] \in 1 .. 3 => mem'[f][y] = mem[f][y]
    BY <1>9, <1>10
  <2> QED
    BY <1>1, <1>2, <2>1 DEF Tree
<1> QED
  BY <1>1, <1>2, <1>8, <1>11, <1>12, <1>13, <1>14, <1>16, <1>17, <1>18 DEF IInv

(* invlpg drops the translation that may be stale, and nothing else        *)
(* changes but the iteration.                                              *)
LEMMA InvlpgIInv ==
  ASSUME IInv, Invlpg
  PROVE  /\ IInv'
         /\ mem' = mem /\ call.level = "invlpg" /\ call'.level # "invlpg"
         /\ call'.i = call.i + 1 /\ call'.vir = call.vir /\ call'.phys = call.phys
         /\ pml4' = pml4 /\ ~ exhausted /\ ~ exhausted'
<1>1. /\ call.level = "invlpg" /\ ~ exhausted
      /\ tlb' = IF tlb # NONE /\ tlb.vir = VirAt(call, call.i) THEN NONE ELSE tlb
      /\ call' = [call EXCEPT !.i = call.i + 1, !.table = pml4,
                              !.level = IF call.i + 1 = call.page_cnt THEN "done" ELSE "pdpt"]
      /\ page_bitmap' = page_bitmap /\ mem' = mem /\ pml4' = pml4 /\ cr3' = cr3 /\ others' = others
      /\ exhausted' = exhausted
  BY DEF Invlpg, Iterated
<1>2. TypeOK /\ Counting /\ pml4 \in Frames
  BY DEF IInv, TypeOK
<1>3. call.i \in 0 .. MaxCnt /\ call.page_cnt \in 0 .. MaxCnt /\ MaxCnt \in Nat
  BY <1>2, CallTypes
<1>4. /\ call'.i = call.i + 1 /\ call'.vir = call.vir /\ call'.phys = call.phys
      /\ call'.page_cnt = call.page_cnt /\ call'.table = pml4
      /\ call'.level = IF call.i + 1 = call.page_cnt THEN "done" ELSE "pdpt"
  BY <1>1, <1>2 DEF TypeOK
<1>5. call.i < call.page_cnt
  BY <1>1, <1>2 DEF Counting
<1>6. Counting'
  BY <1>3, <1>4, <1>5 DEF Counting
<1>7. TypeOK'
  <2>1. call' \in [vir: VirStarts \cup {0}, phys: PhysStarts \cup {0}, page_cnt: 0 .. MaxCnt,
                   i: 0 .. MaxCnt, level: Levels, table: Frames]
    <3>1. call.i + 1 \in 0 .. MaxCnt
      BY <1>3, <1>5
    <3>2. (IF call.i + 1 = call.page_cnt THEN "done" ELSE "pdpt") \in Levels
      BY DEF Levels
    <3> QED
      BY <1>1, <1>2, <3>1, <3>2 DEF TypeOK
  <2>2. tlb' = NONE \/ tlb' \in [vir: Vir, phys: Phys]
    BY <1>1, <1>2 DEF TypeOK
  <2> QED
    BY <1>1, <1>2, <2>1, <2>2, Zenon DEF TypeOK
<1>8. OnPath' /\ Marked'
  BY <1>1, <1>4 DEF OnPath, IInv, Marked
<1>9. TlbCoherent'
  BY <1>1, PrimedWalk DEF IInv, TlbCoherent
<1>10. \E lev \in [Frames -> 0 .. 4] : Tree(lev)'
  BY <1>1 DEF IInv, Tree
<1> QED
  BY <1>1, <1>4, <1>6, <1>7, <1>8, <1>9, <1>10 DEF IInv

-----------------------------------------------------------------------------
(* The rest of the kernel takes a page: no table changes. *)
LEMMA OtherReqPageIInv ==
  ASSUME IInv, OtherReqPage
  PROVE  /\ IInv'
         /\ ~ exhausted' => \A w \in Vir : Walk(mem', w) = Walk(mem, w)
<1> DEFINE r == req_page(page_bitmap)
<1>1. /\ call.level = "done" /\ ~ exhausted
      /\ page_bitmap' = r.pb /\ exhausted' = Exhausts(r) /\ others' = others \cup {r.page}
      /\ mem' = [mem EXCEPT ![r.page] = Junk]
      /\ pml4' = pml4 /\ cr3' = cr3 /\ tlb' = tlb /\ call' = call
  BY DEF OtherReqPage
<1>2. PICK lev \in [Frames -> 0 .. 4] : Tree(lev)
  BY <1>1 DEF IInv
<1>3. /\ r.page \in Frames /\ r.pb \in PageBitmaps
      /\ ~ Exhausts(r) => /\ lev[r.page] = 0 /\ r.page \notin page_bitmap.bitmap
                         /\ r.page \notin others \cup Reserved
                         /\ r.pb.bitmap = page_bitmap.bitmap \cup {r.page}
  BY <1>1, <1>2, FreshPage
<1>4. TypeOK
  BY DEF IInv
<1> HIDE DEF r
<1>5. mem' \in [Frames -> Tables] /\ \A f \in Frames : f # r.page => mem'[f] = mem[f]
  BY <1>1, <1>3, <1>4, FramesPhys DEF TypeOK
<1>6. TypeOK'
  <2>1. exhausted' \in BOOLEAN
    BY <1>1, Zenon DEF Exhausts
  <2>2. others' \subseteq Frames
    BY <1>1, <1>3, <1>4 DEF TypeOK
  <2> QED
    BY <1>1, <1>3, <1>4, <1>5, <2>1, <2>2, Zenon DEF TypeOK
<1>7. Counting' /\ OnPath'
  BY <1>1 DEF IInv, Counting, OnPath
<1>8. CASE exhausted'
  BY <1>6, <1>7, <1>8 DEF IInv
<1>9. CASE ~ exhausted'
  <2>1. /\ lev[r.page] = 0 /\ r.page \notin page_bitmap.bitmap
        /\ page_bitmap'.bitmap = page_bitmap.bitmap \cup {r.page}
    BY <1>1, <1>3, <1>9
  <2>2. \A f \in Frames : lev[f] # 0 => mem'[f] = mem[f] /\ f # r.page
    BY <1>5, <2>1
  <2>3. ASSUME NEW w \in Vir
        PROVE  Walk(mem', w) = Walk(mem, w)
    <3>1. \A f \in Frames, y \in Slots : lev[f] \in 1 .. 3 => Kept(mem', f, y)
      BY <2>2 DEF Kept
    <3>2. \A f \in Frames, y \in Slots : lev[f] = 4 => mem'[f][y] = mem[f][y]
      BY <2>2
    <3> QED
      BY <1>2, <1>4, <3>1, <3>2, WalkUnchanged
  <2>4. TlbCoherent'
    <3>1. tlb = NONE \/ tlb.vir \in Vir
      BY <1>4 DEF TypeOK
    <3> QED
      BY <1>1, <2>3, <3>1, PrimedWalk DEF IInv, TlbCoherent
  <2>5. Marked'
    BY <1>1, <2>1 DEF IInv, Marked
  <2>6. Tree(lev)'
    <3>1. \A f \in Frames : lev[f] # 0 => f \in page_bitmap'.bitmap \ (others' \cup Reserved)
      BY <1>1, <1>2, <2>1, <2>2 DEF Tree
    <3>2. \A f \in Frames, y \in Slots : lev[f] \in 1 .. 3 => mem'[f][y] = mem[f][y]
      BY <2>2
    <3> QED
      BY <1>1, <1>2, <3>1, <3>2 DEF Tree
  <2> QED
    BY <1>6, <1>7, <2>3, <2>4, <2>5, <2>6 DEF IInv
<1> QED
  BY <1>8, <1>9

(* Every step keeps the invariant. *)
LEMMA NextIInv == IInv /\ [Next]_vars => IInv'
<1> SUFFICES ASSUME IInv, [Next]_vars PROVE IInv'
  OBVIOUS
<1>1. ASSUME NEW vir \in VirStarts, NEW phys \in PhysStarts, NEW page_cnt \in 0 .. MaxCnt,
             MapPages(vir, phys, page_cnt)
      PROVE  IInv'
  BY <1>1, MapPagesIInv
<1>2. CASE Descend
  BY <1>2, DescendIInv
<1>3. CASE Leaf
  BY <1>3, WriteLeafIInv, InvlpgIInv DEF Leaf
<1>4. CASE LoadCr3
  BY <1>4, LoadCr3IInv
<1>5. CASE OtherReqPage
  BY <1>5, OtherReqPageIInv
<1>6. ASSUME NEW v \in Vir, TlbFill(v)
      PROVE  IInv'
  BY <1>6, TlbFillIInv
<1>7. CASE UNCHANGED vars
  <2>1. /\ page_bitmap' = page_bitmap /\ mem' = mem /\ pml4' = pml4 /\ cr3' = cr3 /\ tlb' = tlb
        /\ call' = call /\ others' = others /\ exhausted' = exhausted
    BY <1>7 DEF vars
  <2>2. TypeOK' /\ Counting'
    BY <2>1, Zenon DEF IInv, TypeOK, Counting
  <2>3. (OnPath => OnPath') /\ (Marked => Marked') /\ (TlbCoherent => TlbCoherent')
    BY <2>1, PrimedWalk DEF OnPath, Marked, TlbCoherent, VirAt
  <2>4. ~ exhausted' => \E lev \in [Frames -> 0 .. 4] : Tree(lev)'
    BY <2>1 DEF IInv, Tree
  <2> QED
    BY <2>1, <2>2, <2>3, <2>4 DEF IInv
<1>8. CASE OutOfMemory
  BY <1>7, <1>8 DEF OutOfMemory
<1> QED
  BY <1>1, <1>2, <1>3, <1>4, <1>5, <1>6, <1>7, <1>8 DEF Next

(* The tables are always a tree, map_page is always on the processor's     *)
(* path, and what the processor holds differs from the tables only between *)
(* paging.c:139 and 141.                                                   *)
THEOREM Invariance == Spec => []IInv
  BY InitIInv, NextIInv, PTL DEF Spec

(* The processor's translation of a page is stale only while map_page is   *)
(* between the write of that page's entry (paging.c:139) and the invlpg    *)
(* after it (141), whenever the processor walks the tables: never once     *)
(* map_page has returned, and never for another page.                      *)
THEOREM TlbStaleOnlyUntilInvlpg == Spec => []TlbCoherent
<1>1. IInv => TlbCoherent
  BY DEF IInv, TlbCoherent
<1> QED
  BY <1>1, Invariance, PTL

-----------------------------------------------------------------------------
(* The links the processor can follow are those of the tree. *)
LEMMA LinksOfTree ==
  ASSUME TypeOK, NEW lev \in [Frames -> 0 .. 4], Tree(lev), NEW l \in TableLinks
  PROVE  \E f \in Frames, y \in Slots :
           /\ l = <<f, y>> /\ lev[f] \in 1 .. 3 /\ mem[f][y].p = 1
           /\ mem[f][y].addr \in Frames /\ lev[mem[f][y].addr] = lev[f] + 1
<1> DEFINE At(m, k) ==
             \E f \in Frames, y \in Slots :
               /\ m = <<f, y>> /\ lev[f] = k /\ mem[f][y].p = 1
               /\ mem[f][y].addr \in Frames /\ lev[mem[f][y].addr] = k + 1
<1>1. ASSUME NEW k \in 1 .. 3, NEW t \in Frames, lev[t] = k, NEW m \in Links(t)
      PROVE  At(m, k)
  <2>1. PICK y \in Slots : m = <<t, y>> /\ mem[t][y].p = 1
    BY <1>1 DEF Links, Slots
  <2>2. mem[t][y].addr \in Frames /\ lev[mem[t][y].addr] = k + 1
    BY <1>1, <2>1, TreeLinks
  <2> QED
    BY <1>1, <2>1, <2>2
<1>2. ASSUME NEW k \in 1 .. 3, NEW S, \A m \in S : At(m, k), NEW t \in Targets(S)
      PROVE  t \in Frames /\ lev[t] = k + 1
  <2>1. PICK m \in S : t = mem[m[1]][m[2]].addr
    BY <1>2 DEF Targets
  <2>2. PICK f \in Frames, y \in Slots :
          m = <<f, y>> /\ mem[f][y].addr \in Frames /\ lev[mem[f][y].addr] = k + 1
    BY <1>2
  <2>3. m[1] = f /\ m[2] = y
    BY <2>2
  <2> QED
    BY <2>1, <2>2, <2>3
<1> HIDE DEF At
<1>3. \A m \in PdptLinks : At(m, 1)
  <2>1. pml4 \in Frames /\ lev[pml4] = 1 /\ 1 \in 1 .. 3
    BY DEF TypeOK, Tree
  <2> QED
    BY <1>1, <2>1 DEF PdptLinks
<1>4. \A m \in PdLinks : At(m, 2)
  <2>1. \A t \in Targets(PdptLinks) : t \in Frames /\ lev[t] = 2
    BY <1>2, <1>3, 1 \in 1 .. 3
  <2> QED
    BY <1>1, <2>1, 2 \in 1 .. 3 DEF PdLinks
<1>5. \A m \in PtLinks : At(m, 3)
  <2>1. \A t \in Targets(PdLinks) : t \in Frames /\ lev[t] = 3
    BY <1>2, <1>4, 2 \in 1 .. 3
  <2> QED
    BY <1>1, <2>1, 3 \in 1 .. 3 DEF PtLinks
<1>6. PICK k \in 1 .. 3 : At(l, k)
  <2>1. 1 \in 1 .. 3 /\ 2 \in 1 .. 3 /\ 3 \in 1 .. 3
    OBVIOUS
  <2> QED
    BY <1>3, <1>4, <1>5, <2>1, Zenon DEF TableLinks
<1> QED
  BY <1>6 DEF At

(* However many pages are mapped and remapped, in whatever order, the      *)
(* tables of paging.c:77-147 are a tree of pages of their own.             *)
THEOREM TablesAreATree == Spec => []TablesDisjoint
<1>1. ASSUME IInv PROVE TablesDisjoint
  <2>1. TypeOK
    BY <1>1 DEF IInv
  <2>2. ASSUME ~ exhausted
        PROVE  /\ \A l1, l2 \in TableLinks : mem[l1[1]][l1[2]].addr = mem[l2[1]][l2[2]].addr => l1 = l2
               /\ pml4 \notin Targets(TableLinks)
               /\ Targets(TableLinks) \cup {pml4} \subseteq page_bitmap.bitmap \ (others \cup Reserved)
    <3>1. PICK lev \in [Frames -> 0 .. 4] : Tree(lev)
      BY <1>1, <2>2 DEF IInv
    <3>2. ASSUME NEW l \in TableLinks
          PROVE  /\ l = <<l[1], l[2]>> /\ l[1] \in Frames /\ l[2] \in Slots
                 /\ lev[l[1]] \in 1 .. 3 /\ mem[l[1]][l[2]].p = 1
                 /\ mem[l[1]][l[2]].addr \in Frames
                 /\ lev[mem[l[1]][l[2]].addr] # 0 /\ lev[mem[l[1]][l[2]].addr] # 1
      <4>1. PICK f \in Frames, y \in Slots :
              /\ l = <<f, y>> /\ lev[f] \in 1 .. 3 /\ mem[f][y].p = 1
              /\ mem[f][y].addr \in Frames /\ lev[mem[f][y].addr] = lev[f] + 1
        BY <2>1, <3>1, LinksOfTree
      <4>2. l[1] = f /\ l[2] = y /\ l = <<l[1], l[2]>>
        BY <4>1
      <4>3. lev[mem[f][y].addr] # 0 /\ lev[mem[f][y].addr] # 1
        BY <4>1
      <4> QED
        BY <4>1, <4>2, <4>3
    <3>3. ASSUME NEW l1 \in TableLinks, NEW l2 \in TableLinks,
                 mem[l1[1]][l1[2]].addr = mem[l2[1]][l2[2]].addr
          PROVE  l1 = l2
      <4>1. l1[1] = l2[1] /\ l1[2] = l2[2]
        BY <3>1, <3>2, <3>3 DEF Tree
      <4>2. l1 = <<l1[1], l1[2]>> /\ l2 = <<l2[1], l2[2]>>
        BY <3>2
      <4> QED
        BY <4>1, <4>2, Zenon
    <3>4. ASSUME NEW t \in Targets(TableLinks)
          PROVE  t \in Frames /\ lev[t] # 0 /\ lev[t] # 1
      <4>1. PICK l \in TableLinks : t = mem[l[1]][l[2]].addr
        BY DEF Targets
      <4> QED
        BY <3>2, <4>1, Zenon
    <3>5. pml4 \in Frames /\ lev[pml4] = 1
      BY <2>1, <3>1 DEF TypeOK, Tree
    <3>6. \A f \in Frames : lev[f] # 0 => f \in page_bitmap.bitmap \ (others \cup Reserved)
      BY <3>1, Zenon DEF Tree
    <3> QED
      BY <3>3, <3>4, <3>5, <3>6
  <2> QED
    BY <2>1, <2>2, Zenon DEF TablesDisjoint
<1> QED
  BY <1>1, Invariance, PTL

(* vir_to_phys (paging.c:148-164), which tests no present bit and keeps 28 *)
(* bits of a page number, agrees with the processor on every mapped page   *)
(* whose number has that many.                                             *)
THEOREM VirToPhysSound == Spec => []VirToPhysAgrees
<1>1. ASSUME IInv PROVE VirToPhysAgrees
  <2> SUFFICES ASSUME ~ exhausted, NEW v \in Vir, Walk(mem, v) \in 0 .. (SHIFT_MOD - 1)
               PROVE  vir_to_phys(v) = Walk(mem, v)
    BY DEF VirToPhysAgrees
  <2>1. PICK lev \in [Frames -> 0 .. 4] : Tree(lev)
    BY <1>1 DEF IInv
  <2>2. Walk(mem, v) # NONE
    BY NoneAssumption, FramesPhys
  <2>3. PdptOf(mem, v).p = 1 /\ PdOf(mem, v).p = 1 /\ PtOf(mem, v).p = 1
        /\ Walk(mem, v) = PageOf(mem, v).addr
    BY <2>2, WalkStops
  <2>4. PdptOf(mem, v).addr \in Frames /\ PdOf(mem, v).addr \in Frames /\ PtOf(mem, v).addr \in Frames
    BY <1>1, <2>1, <2>3, WalkLevels DEF IInv
  <2>5. ASSUME NEW a, a \in Frames \/ a \in 0 .. (SHIFT_MOD - 1)
        PROVE  a % SHIFT_MOD = a
    <3>1. a \in 0 .. (SHIFT_MOD - 1) /\ SHIFT_MOD \in Nat \ {0}
      BY <2>5, FramesPhys DEF Frames
    <3> QED
      BY <3>1, ModFirst
  <2>6. /\ PdptOf(mem, v).addr % SHIFT_MOD = PdptOf(mem, v).addr
        /\ PdOf(mem, v).addr % SHIFT_MOD = PdOf(mem, v).addr
        /\ PtOf(mem, v).addr % SHIFT_MOD = PtOf(mem, v).addr
        /\ PageOf(mem, v).addr % SHIFT_MOD = PageOf(mem, v).addr
    BY <2>3, <2>4, <2>5
  <2> QED
    BY <2>3, <2>6, Zenon DEF vir_to_phys, PdptOf, PdOf, PtOf, PageOf
<1> QED
  BY <1>1, Invariance, PTL

-----------------------------------------------------------------------------
(* Steps that are not the last of map_page leave every translation, and    *)
(* how far the call has come, as they were.                                *)
LEMMA QuietSteps ==
  ASSUME IInv,
         Descend \/ LoadCr3 \/ OtherReqPage \/ (\E v \in Vir : TlbFill(v)) \/ OutOfMemory \/ UNCHANGED vars
  PROVE  /\ ~ exhausted' => ~ exhausted /\ \A w \in Vir : Walk(mem', w) = Walk(mem, w)
         /\ call'.i = call.i /\ call'.vir = call.vir /\ call'.phys = call.phys /\ pml4' = pml4
         /\ call'.level = "invlpg" => call.level = "invlpg"
         /\ exhausted' \in BOOLEAN /\ (exhausted => exhausted')
<1>1. CASE Descend
  BY <1>1, DescendIInv DEF IInv, TypeOK
<1>2. CASE OtherReqPage
  <2>1. call' = call /\ pml4' = pml4 /\ ~ exhausted
    BY <1>2 DEF OtherReqPage
  <2>2. IInv' /\ (~ exhausted' => \A w \in Vir : Walk(mem', w) = Walk(mem, w))
    BY <1>2, OtherReqPageIInv
  <2> QED
    BY <2>1, <2>2 DEF IInv, TypeOK
<1>3. CASE LoadCr3 \/ (\E v \in Vir : TlbFill(v)) \/ OutOfMemory \/ UNCHANGED vars
  <2>1. mem' = mem /\ call' = call /\ pml4' = pml4 /\ exhausted' = exhausted
    BY <1>3 DEF LoadCr3, TlbFill, OutOfMemory, vars
  <2> QED
    BY <2>1 DEF IInv, TypeOK
<1> QED
  BY <1>1, <1>2, <1>3

(* When map_pages (paging.c:143-147) has done i pages, those i translate   *)
(* as asked, whatever table boundaries the range crosses, provided a call  *)
(* is not longer than the address space.                                   *)
THEOREM RangesMapped ==
  ASSUME MaxCnt <= FAN * FAN * FAN * FAN
  PROVE  Spec => []RangeMapped
<1>1. Init => RangeMapped
  BY DEF Init, NoCall, RangeMapped
<1>2. ASSUME IInv, RangeMapped, [Next]_vars PROVE RangeMapped'
  <2> DEFINE Prefix == \A j \in 0 .. (call'.i - 1) : Walk(mem', VirAt(call', j)) = PhysAt(call', j)
             Last == call'.level = "invlpg" => Walk(mem', VirAt(call', call'.i)) = PhysAt(call', call'.i)
  <2>1. pml4' = pml4 /\ Prefix /\ Last => RangeMapped'
    BY PrimedWalk DEF RangeMapped, VirAt, PhysAt
  <2>2. /\ call.vir \in Nat /\ call.i \in 0 .. MaxCnt /\ call.page_cnt \in 0 .. MaxCnt /\ MaxCnt \in Nat
        /\ VirAt(call, call.i) \in Vir
    BY <1>2, CallTypes DEF IInv
  <2>3. ASSUME NEW j \in Nat
        PROVE  VirAt(call, j) \in Vir
    BY <2>2, VirAtRange
  <2>4. ASSUME call'.vir = call.vir, call'.phys = call.phys, NEW j
        PROVE  VirAt(call', j) = VirAt(call, j) /\ PhysAt(call', j) = PhysAt(call, j)
    BY <2>4 DEF VirAt, PhysAt
  <2>5. ASSUME NEW vir \in VirStarts, NEW phys \in PhysStarts, NEW page_cnt \in 0 .. MaxCnt,
               MapPages(vir, phys, page_cnt)
        PROVE  RangeMapped'
    <3>1. call'.i = 0 /\ pml4' = pml4 /\ call'.level # "invlpg"
      BY <2>5 DEF MapPages
    <3>2. Prefix /\ Last
      BY <3>1
    <3> QED
      BY <2>1, <3>1, <3>2
  <2>6. CASE WriteLeaf
    <3>1. /\ Walk(mem', VirAt(call, call.i)) = PhysAt(call, call.i)
          /\ \A w \in Vir \ {VirAt(call, call.i)} : Walk(mem', w) = Walk(mem, w)
          /\ call'.i = call.i /\ call'.vir = call.vir /\ call'.phys = call.phys
          /\ pml4' = pml4 /\ ~ exhausted
      BY <1>2, <2>6, WriteLeafIInv
    <3>2. call.i < F4 /\ F4 \in Nat
      <4>1. call.i < call.page_cnt
        BY <1>2, <2>6 DEF IInv, Counting, WriteLeaf
      <4>2. F4 \in Nat /\ MaxCnt <= F4
        BY FanPowers DEF F4
      <4> QED
        BY <2>2, <4>1, <4>2
    <3>3. ASSUME NEW j \in 0 .. (call.i - 1)
          PROVE  Walk(mem', VirAt(call, j)) = PhysAt(call, j)
      <4>1. j \in Nat /\ j < call.i /\ call.i \in Nat
        BY <2>2
      <4>2. VirAt(call, j) # VirAt(call, call.i)
        BY <2>2, <3>2, <4>1, VirAtDistinct
      <4>3. Walk(mem', VirAt(call, j)) = Walk(mem, VirAt(call, j))
        BY <2>3, <3>1, <4>1, <4>2
      <4> QED
        BY <1>2, <3>1, <4>3 DEF RangeMapped
    <3>4. Prefix
      BY <2>4, <3>1, <3>3
    <3>5. Last
      BY <2>4, <3>1
    <3> QED
      BY <2>1, <3>1, <3>4, <3>5
  <2>8. CASE Invlpg
    <3>1. /\ mem' = mem /\ call.level = "invlpg" /\ call'.level # "invlpg"
          /\ call'.i = call.i + 1 /\ call'.vir = call.vir /\ call'.phys = call.phys
          /\ pml4' = pml4 /\ ~ exhausted
      BY <1>2, <2>8, InvlpgIInv
    <3>2. ASSUME NEW j \in 0 .. (call'.i - 1)
          PROVE  Walk(mem', VirAt(call, j)) = PhysAt(call, j)
      <4>1. j = call.i \/ j \in 0 .. (call.i - 1)
        BY <2>2, <3>1
      <4> QED
        BY <1>2, <3>1, <4>1 DEF RangeMapped
    <3>3. Prefix
      BY <2>4, <3>1, <3>2
    <3> QED
      BY <2>1, <3>1, <3>3
  <2>7. CASE Descend \/ LoadCr3 \/ OtherReqPage \/ (\E v \in Vir : TlbFill(v)) \/ OutOfMemory
             \/ UNCHANGED vars
    <3>1. /\ ~ exhausted' => ~ exhausted /\ \A w \in Vir : Walk(mem', w) = Walk(mem, w)
          /\ call'.i = call.i /\ call'.vir = call.vir /\ call'.phys = call.phys /\ pml4' = pml4
          /\ call'.level = "invlpg" => call.level = "invlpg"
      BY <1>2, <2>7, QuietSteps
    <3>2. CASE exhausted'
      BY <3>2 DEF RangeMapped
    <3>3. CASE ~ exhausted'
      <4>1. ASSUME NEW j \in 0 .. (call.i - 1)
            PROVE  Walk(mem', VirAt(call, j)) = PhysAt(call, j)
        <5>1. j \in Nat
          BY <2>2
        <5> QED
          BY <1>2, <2>3, <3>1, <3>3, <5>1 DEF RangeMapped
      <4>2. Prefix
        BY <2>4, <3>1, <4>1
      <4>3. Last
        BY <1>2, <2>2, <2>4, <3>1, <3>3 DEF RangeMapped
      <4> QED
        BY <2>1, <3>1, <4>2, <4>3
    <3> QED
      BY <3>2, <3>3
  <2> QED
    BY <1>2, <2>5, <2>6, <2>7, <2>8 DEF Next, Leaf
<1>3. IInv /\ RangeMapped /\ [Next]_vars => RangeMapped'
  BY <1>2
<1> QED
  BY <1>1, <1>3, Invariance, PTL DEF Spec

-----------------------------------------------------------------------------
(* The translations, as AddressSpace sees them. *)
Space == [v \in Vir |-> IF exhausted THEN NONE ELSE Walk(mem, v)]

(* The tables of paging.c implement the address space: the last step of    *)
(* map_page is the one in which one page's translation changes, a step     *)
(* that finds no memory for a table ends the promise, and every other step *)
(* is invisible.                                                           *)
THEOREM ImplementsSpace == Spec => ImplementsAddressSpace
<1>1. Init => A!Init
  <2> SUFFICES ASSUME Init PROVE A!Init
    OBVIOUS
  <2>1. exhausted = FALSE
    BY DEF Init
  <2>2. ASSUME NEW v \in Vir PROVE Walk(mem, v) = NONE
    <3>1. IInv
      BY InitIInv
    <3>2. mem[pml4] = Zeroed
      BY <3>1, ReqPageResult DEF Init, IInv, TypeOK
    <3>3. PdptOf(mem, v).p # 1
      BY <3>2, IndexSlots DEF PdptOf, Zeroed, Slots
    <3> QED
      BY <3>3, WalkStops
  <2> QED
    BY <2>1, <2>2 DEF A!Init
<1>2. ASSUME IInv, [Next]_vars PROVE [A!Next]_<<Space, exhausted>>
  <2>1. pml4' = pml4 => Space' = [v \in Vir |-> IF exhausted' THEN NONE ELSE Walk(mem', v)]
    BY PrimedWalk DEF Space
  <2>2. CASE WriteLeaf
    <3> DEFINE u == VirAt(call, call.i)
    <3>1. /\ Walk(mem', u) = PhysAt(call, call.i)
          /\ \A w \in Vir \ {u} : Walk(mem', w) = Walk(mem, w)
          /\ pml4' = pml4 /\ ~ exhausted /\ ~ exhausted' /\ exhausted' = exhausted
      BY <1>2, <2>2, WriteLeafIInv DEF WriteLeaf
    <3>2. u \in Vir /\ PhysAt(call, call.i) \in Phys
      BY <1>2, CallTypes DEF IInv
    <3> HIDE DEF u
    <3>3. /\ Space' = [v \in Vir |-> Walk(mem', v)] /\ Space = [v \in Vir |-> Walk(mem, v)]
      BY <2>1, <3>1 DEF Space
    <3>4. Space'[u] \in Phys
      BY <3>1, <3>2, <3>3
    <3>5. Space' = [Space EXCEPT ![u] = Space'[u]]
      BY <3>1, <3>2, <3>3
    <3> QED
      BY <3>1, <3>2, <3>4, <3>5 DEF A!Next, A!Map, Space
  <2>3. ASSUME NEW vir \in VirStarts, NEW phys \in PhysStarts, NEW page_cnt \in 0 .. MaxCnt,
               MapPages(vir, phys, page_cnt)
        PROVE  UNCHANGED <<Space, exhausted>>
    <3>1. mem' = mem /\ pml4' = pml4 /\ exhausted' = exhausted
      BY <2>3 DEF MapPages
    <3> QED
      BY <2>1, <3>1 DEF Space
  <2>5. CASE Invlpg
    <3>1. mem' = mem /\ pml4' = pml4 /\ exhausted' = exhausted
      BY <2>5 DEF Invlpg
    <3> QED
      BY <2>1, <3>1 DEF Space
  <2>4. CASE Descend \/ LoadCr3 \/ OtherReqPage \/ (\E v \in Vir : TlbFill(v)) \/ OutOfMemory
             \/ UNCHANGED vars
    <3>1. /\ ~ exhausted' => ~ exhausted /\ \A w \in Vir : Walk(mem', w) = Walk(mem, w)
          /\ pml4' = pml4 /\ exhausted' \in BOOLEAN
      BY <1>2, <2>4, QuietSteps
    <3>2. CASE exhausted'
      <4>1. Space' \in [Vir -> Phys \cup {NONE}]
        BY <2>1, <3>1, <3>2
      <4>2. exhausted' = TRUE
        BY <3>1, <3>2, Zenon
      <4> QED
        BY <4>1, <4>2 DEF A!Next, A!Exhaust, Space
    <3>3. CASE ~ exhausted'
      <4>1. Space' = Space
        BY <2>1, <3>1, <3>3 DEF Space
      <4>2. exhausted' = exhausted
        BY <1>2, <3>1, <3>3 DEF IInv, TypeOK
      <4> QED
        BY <4>1, <4>2
    <3> QED
      BY <3>2, <3>3
  <2> QED
    BY <1>2, <2>2, <2>3, <2>4, <2>5 DEF Next, Leaf
<1>3. IInv /\ [Next]_vars => [A!Next]_<<Space, exhausted>>
  BY <1>2
<1> QED
  BY <1>1, <1>3, Invariance, PTL DEF Spec, ImplementsAddressSpace, A!Spec, Space
=============================================================================
