-------------------------------- MODULE Paging ------------------------------
(***************************************************************************)
(* The kernel's page tables: map_page, map_pages and vir_to_phys of        *)
(* boot/kernel/paging.c:77-164, on top of the page allocator, and the      *)
(* processor that walks the tables on its own while they are being edited. *)
(*                                                                         *)
(* map_page descends three levels, allocating the tables that are missing, *)
(* writes a leaf and drops the old translation; each level and each of the *)
(* two instructions at the end is a step, between which the processor may  *)
(* walk the tables and cache a translation in its TLB.                     *)
(***************************************************************************)
EXTENDS PageBitmap

CONSTANTS FAN,        \* entries of a table (512)
          PHYS_MOD,   \* physical pages the 40-bit field addr can name (2^40)
          SHIFT_MOD,  \* pages left of `addr << 12' in 40 bits (2^28)
          VirStarts,  \* virtual pages a map_pages call may start at
          PhysStarts, \* physical pages a map_pages call may start at
          MaxCnt,     \* bound: the longest map_pages call, in pages
          Reserved,   \* pages reserved before the tables are built
          NONE        \* "not mapped"

ASSUME FANAssumption == FAN \in Nat \ {0, 1}
ASSUME PhysAssumption == PHYS_MOD \in Nat /\ SHIFT_MOD \in Nat /\ NBits <= SHIFT_MOD /\ SHIFT_MOD <= PHYS_MOD
ASSUME ReservedAssumption == Reserved \subseteq 0 .. (TotalPages - 1) /\ Reserved # 0 .. (TotalPages - 1)
ASSUME CallsAssumption == MaxCnt \in Nat /\ VirStarts \subseteq Nat /\ PhysStarts \subseteq Nat
ASSUME NoneAssumption == NONE \notin 0 .. (PHYS_MOD - 1)

Vir    == 0 .. (FAN * FAN * FAN * FAN - 1)
Phys   == 0 .. (PHYS_MOD - 1)
Frames == 0 .. (NBits - 1)

(* paging.h:21-33, the fields map_page writes and the processor reads. *)
Entries == [p: {0, 1}, addr: Phys]
Tables  == [0 .. (FAN - 1) -> Entries]
Zeroed  == [x \in 0 .. (FAN - 1) |-> [p |-> 0, addr |-> 0]]
Junk    == [x \in 0 .. (FAN - 1) |-> [p |-> 1, addr |-> 0]]

VARIABLES
  page_bitmap,  \* the allocator's state
  mem,          \* mem[f]: what page f holds, read as a table
  pml4,         \* kernel.c:72, the page of the top table
  cr3,          \* TRUE once kernel.c:90-96 has loaded it
  tlb,          \* the translation the processor has cached, if any
  call,         \* the map_pages call in progress or just finished
  others,       \* pages req_page handed to the rest of the kernel
  exhausted     \* req_page returned a page that is not memory, or NULL

vars == <<page_bitmap, mem, pml4, cr3, tlb, call, others, exhausted>>

(* paging.c:78-81 and 149-152: the index of v in the table of each level. *)
Index(v) ==
  [leaf |-> v % FAN, pt |-> (v \div FAN) % FAN,
   pd |-> (v \div (FAN * FAN)) % FAN, pdpt |-> (v \div (FAN * FAN * FAN)) % FAN]

(* The level map_page works on: "pdpt" looks the pdpt up in the pml4, and  *)
(* so on; "leaf" writes the page's own entry, "invlpg" drops the old       *)
(* translation; "done" is after the return.                                *)
Below == [pdpt |-> "pd", pd |-> "pt", pt |-> "leaf"]
Levels == {"pdpt", "pd", "pt", "leaf", "invlpg", "done"}

NoCall == [vir |-> 0, phys |-> 0, page_cnt |-> 0, i |-> 0, level |-> "done", table |-> 0]

(* The page of the current iteration: vir_addr + i * PAGE_SIZE, of which   *)
(* 48 bits count, and phys_addr + i * PAGE_SIZE, of which 40 + 12 do.      *)
VirAt(c, i)  == (c.vir + i) % (FAN * FAN * FAN * FAN)
PhysAt(c, i) == (c.phys + i) % PHYS_MOD

-----------------------------------------------------------------------------
(* The processor's walk of the tables for v: the physical page or NONE. *)
Walk(m, v) ==
  LET x    == Index(v)
      pdpt == m[pml4][x.pdpt]
      pd   == m[pdpt.addr][x.pd]
      pt   == m[pd.addr][x.pt]
      page == m[pt.addr][x.leaf]
  IN  IF pdpt.p = 1 /\ pd.p = 1 /\ pt.p = 1 /\ page.p = 1 THEN page.addr ELSE NONE

vir_to_phys_swapped(v) ==
  LET x  == Index(v)
      pd == mem[mem[pml4][x.pdpt].addr][x.pd].addr
  IN  mem[mem[pd][x.leaf].addr][x.pt].addr % SHIFT_MOD

(* paging.c:148-164, which starts from cr3, so the value is the code's     *)
(* once cr3 is loaded.  No entry's present bit is tested.  `entries[i].addr*)
(* << 12' is a shift of a 40-bit bit-field: with the project's compiler    *)
(* the result keeps 40 bits, so 28 bits of the page number survive.        *)
vir_to_phys(v) ==
  LET x    == Index(v)
      pdpt == mem[pml4][x.pdpt].addr % SHIFT_MOD
      pd   == mem[pdpt][x.pd].addr % SHIFT_MOD
      pt   == mem[pd][x.pt].addr % SHIFT_MOD
  IN  mem[pt][x.leaf].addr % SHIFT_MOD

-----------------------------------------------------------------------------
(* The state at kernel.c:72-73: some pages are reserved, the others hold   *)
(* whatever they held, and the pml4 is the first free page, cleared.       *)
Init ==
  /\ \E stale \in {Zeroed, Junk} :
       LET r == req_page([bitmap |-> Reserved, free |-> TotalPages - Cardinality(Reserved),
                          reserved |-> Cardinality(Reserved), used |-> 0])
       IN  /\ page_bitmap = r.pb
           /\ pml4 = r.page
           /\ mem = [[f \in Frames |-> stale] EXCEPT ![r.page] = Zeroed]
  /\ cr3 = FALSE
  /\ tlb = NONE
  /\ call = NoCall
  /\ others = {}
  /\ exhausted = FALSE

(* req_page may return NULL or, the bitmap being rounded up (kernel.c:55), *)
(* a page beyond memory; no caller tests for either.                       *)
Exhausts(r) == FreePages(page_bitmap) = {} \/ r.page >= TotalPages

(* map_pages (paging.c:143-147) is entered. *)
MapPages(vir, phys, page_cnt) ==
  /\ call.level = "done"
  /\ ~ exhausted
  /\ call' = [vir |-> vir, phys |-> phys, page_cnt |-> page_cnt, i |-> 0,
              level |-> IF page_cnt = 0 THEN "done" ELSE "pdpt", table |-> pml4]
  /\ UNCHANGED <<page_bitmap, mem, pml4, cr3, tlb, others, exhausted>>

DescendNoClear ==
  /\ call.level \in DOMAIN Below
  /\ ~ exhausted
  /\ LET x  == Index(VirAt(call, call.i))[call.level]
         pe == mem[call.table][x]
         r  == req_page(page_bitmap)
     IN  IF pe.p = 1
         THEN /\ call' = [call EXCEPT !.level = Below[@], !.table = pe.addr]
              /\ UNCHANGED <<page_bitmap, mem, exhausted>>
         ELSE /\ page_bitmap' = r.pb
              /\ mem' = [mem EXCEPT ![call.table][x] = [p |-> 1, addr |-> r.page]]
              /\ exhausted' = Exhausts(r)
              /\ call' = [call EXCEPT !.level = Below[@], !.table = r.page]
  /\ UNCHANGED <<pml4, cr3, tlb, others>>

(* One level of map_page (paging.c:84-99, 101-116 and 118-133): follow the *)
(* entry or, when it is not present, allocate the table below, clear it    *)
(* and link it.                                                            *)
Descend ==
  /\ call.level \in DOMAIN Below
  /\ ~ exhausted
  /\ LET x  == Index(VirAt(call, call.i))[call.level]
         pe == mem[call.table][x]
         r  == req_page(page_bitmap)
     IN  IF pe.p = 1
         THEN /\ call' = [call EXCEPT !.level = Below[@], !.table = pe.addr]
              /\ UNCHANGED <<page_bitmap, mem, exhausted>>
         ELSE /\ page_bitmap' = r.pb
              /\ mem' = [[mem EXCEPT ![r.page] = Zeroed]
                              EXCEPT ![call.table][x] = [p |-> 1, addr |-> r.page]]
              /\ exhausted' = Exhausts(r)
              /\ call' = [call EXCEPT !.level = Below[@], !.table = r.page]
  /\ UNCHANGED <<pml4, cr3, tlb, others>>

(* After one page, map_pages' next iteration (paging.c:144) or its return. *)
Iterated ==
  [call EXCEPT !.i = @ + 1, !.table = pml4,
               !.level = IF call.i + 1 = call.page_cnt THEN "done" ELSE "pdpt"]

WriteLeafSamePhys ==
  /\ call.level = "leaf"
  /\ ~ exhausted
  /\ mem' = [mem EXCEPT ![call.table][VirAt(call, call.i) % FAN] =
                            [p |-> 1, addr |-> PhysAt(call, 0)]]
  /\ call' = [call EXCEPT !.level = "invlpg"]
  /\ UNCHANGED <<page_bitmap, pml4, cr3, tlb, others, exhausted>>

(* The page's own entry is written (paging.c:135-139).  A translation the  *)
(* processor holds for the page is stale from here on.                     *)
WriteLeaf ==
  /\ call.level = "leaf"
  /\ ~ exhausted
  /\ mem' = [mem EXCEPT ![call.table][VirAt(call, call.i) % FAN] =
                            [p |-> 1, addr |-> PhysAt(call, call.i)]]
  /\ call' = [call EXCEPT !.level = "invlpg"]
  /\ UNCHANGED <<page_bitmap, pml4, cr3, tlb, others, exhausted>>

(* invlpg drops what the processor holds for the page (paging.c:141).      *)
Invlpg ==
  /\ call.level = "invlpg"
  /\ ~ exhausted
  /\ tlb' = IF tlb # NONE /\ tlb.vir = VirAt(call, call.i) THEN NONE ELSE tlb
  /\ call' = Iterated
  /\ UNCHANGED <<page_bitmap, mem, pml4, cr3, others, exhausted>>

LeafInvlpgFirst ==
  /\ ~ exhausted
  /\ \/ /\ call.level = "leaf"
        /\ tlb' = IF tlb # NONE /\ tlb.vir = VirAt(call, call.i) THEN NONE ELSE tlb
        /\ call' = [call EXCEPT !.level = "invlpg"]
        /\ UNCHANGED mem
     \/ /\ call.level = "invlpg"
        /\ mem' = [mem EXCEPT ![call.table][VirAt(call, call.i) % FAN] =
                                  [p |-> 1, addr |-> PhysAt(call, call.i)]]
        /\ call' = Iterated
        /\ UNCHANGED tlb
  /\ UNCHANGED <<page_bitmap, pml4, cr3, others, exhausted>>

(* The end of map_page, in the order of its two instructions; between them *)
(* the processor may walk the tables.                                      *)
Leaf == WriteLeaf \/ Invlpg

(* kernel.c:90-96: the tables are put to use; the TLB is flushed. *)
LoadCr3 ==
  /\ call.level = "done"
  /\ ~ cr3
  /\ cr3' = TRUE
  /\ tlb' = NONE
  /\ UNCHANGED <<page_bitmap, mem, pml4, call, others, exhausted>>

(* The rest of the kernel takes a page for itself (idt.c:95) and writes to *)
(* it: its contents are then anything.                                     *)
OtherReqPage ==
  /\ call.level = "done"
  /\ ~ exhausted
  /\ LET r == req_page(page_bitmap) IN
       /\ page_bitmap' = r.pb
       /\ exhausted' = Exhausts(r)
       /\ others' = others \cup {r.page}
       /\ mem' = [mem EXCEPT ![r.page] = Junk]
  /\ UNCHANGED <<pml4, cr3, tlb, call>>

(* External: the processor walks the tables for v, at any moment, and      *)
(* caches what it finds.  One cached translation is enough to be stale.    *)
TlbFill(v) ==
  /\ cr3 /\ ~ exhausted
  /\ Walk(mem, v) # NONE
  /\ tlb' = [vir |-> v, phys |-> Walk(mem, v)]
  /\ UNCHANGED <<page_bitmap, mem, pml4, cr3, call, others, exhausted>>

(* The model ends when the kernel goes on with a page that is not memory. *)
OutOfMemory == exhausted /\ UNCHANGED vars

Next ==
  \/ \E vir \in VirStarts, phys \in PhysStarts, page_cnt \in 0 .. MaxCnt : MapPages(vir, phys, page_cnt)
  \/ Descend
  \/ Leaf
  \/ LoadCr3
  \/ OtherReqPage
  \/ \E v \in Vir : TlbFill(v)
  \/ OutOfMemory

Spec == Init /\ [][Next]_vars

-----------------------------------------------------------------------------
(* Every variable has its type; in particular the table map_page descends *)
(* into is always a page of memory, and a call of no pages is done at once *)
(* (paging.c:144).                                                         *)
TypeOK ==
  /\ page_bitmap \in PageBitmaps
  /\ mem \in [Frames -> Tables]
  /\ pml4 \in Frames
  /\ cr3 \in BOOLEAN
  /\ tlb = NONE \/ tlb \in [vir: Vir, phys: Phys]
  /\ call \in [vir: VirStarts \cup {0}, phys: PhysStarts \cup {0}, page_cnt: 0 .. MaxCnt,
               i: 0 .. MaxCnt, level: Levels, table: Frames]
  /\ others \subseteq Frames
  /\ exhausted \in BOOLEAN

(* The tables in use, each with the entry that leads to it. *)
Links(t) == {<<t, x>> : x \in {y \in 0 .. (FAN - 1) : mem[t][y].p = 1}}
Targets(links) == {mem[l[1]][l[2]].addr : l \in links}
PdptLinks == Links(pml4)
PdLinks   == UNION {Links(t) : t \in Targets(PdptLinks)}
PtLinks   == UNION {Links(t) : t \in Targets(PdLinks)}
TableLinks == PdptLinks \cup PdLinks \cup PtLinks

(* The tables form a tree: no table is linked twice, none is the pml4,     *)
(* every one is marked in the bitmap and was not handed to anybody else,   *)
(* however many pages were mapped and remapped in whatever order; and      *)
(* every variable has its type.                                            *)
TablesDisjoint ==
  /\ TypeOK
  /\ ~ exhausted =>
       /\ \A l1, l2 \in TableLinks : mem[l1[1]][l1[2]].addr = mem[l2[1]][l2[2]].addr => l1 = l2
       /\ LET tables == Targets(TableLinks) IN
            /\ pml4 \notin tables
            /\ tables \cup {pml4} \subseteq page_bitmap.bitmap \ (others \cup Reserved)

(* The translation the processor holds differs from the tables' only       *)
(* between the two instructions that end map_page, and only for the page   *)
(* being mapped: when map_page has returned, no access can go to the page  *)
(* that was mapped there before (paging.c:139-141).                        *)
TlbCoherent ==
  ~ exhausted /\ tlb # NONE /\ Walk(mem, tlb.vir) # tlb.phys =>
    call.level = "invlpg" /\ tlb.vir = VirAt(call, call.i)

(* When map_pages has done i pages, those i translate as asked, and so     *)
(* does the one whose entry was just written; a range that crosses a table *)
(* boundary included (paging.c:143-147).                                   *)
RangeMapped ==
  ~ exhausted =>
    /\ \A j \in 0 .. (call.i - 1) : Walk(mem, VirAt(call, j)) = PhysAt(call, j)
    /\ call.level = "invlpg" => Walk(mem, VirAt(call, call.i)) = PhysAt(call, call.i)

(* Once its tables are in cr3, vir_to_phys, which tests no present bit,    *)
(* agrees with the processor on every mapped page whose physical page      *)
(* number fits 28 bits (paging.c:148-164).                                 *)
VirToPhysAgrees ==
  cr3 /\ ~ exhausted => \A v \in Vir : Walk(mem, v) \in 0 .. (SHIFT_MOD - 1) => vir_to_phys(v) = Walk(mem, v)

(* paging.h:20 says "52-bit phys": vir_to_phys agrees with the processor   *)
(* on every mapped page.                                                   *)
VirToPhys52 ==
  cr3 /\ ~ exhausted => \A v \in Vir : Walk(mem, v) # NONE => vir_to_phys(v) = Walk(mem, v)

A == INSTANCE AddressSpace WITH
       space <- [v \in Vir |-> IF exhausted THEN NONE ELSE Walk(mem, v)]

(* map_page implements an abstract address space: mapping a page changes   *)
(* that page's translation and no other, and no step in between changes    *)
(* any, as the processor's walk sees it (paging.c:77-147).                 *)
ImplementsAddressSpace == A!Spec
=============================================================================
