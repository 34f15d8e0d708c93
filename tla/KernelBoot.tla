------------------------------ MODULE KernelBoot ----------------------------
(***************************************************************************)
(* The memory part of kernel start-up (boot/kernel/kernel.c:36-146): the   *)
(* page bitmap is sized and placed from the firmware's memory map, the     *)
(* firmware's and the kernel's pages are reserved, the page tables are     *)
(* built on what is left, cr3 is loaded, and the interrupt table, the APIC *)
(* and the boot disk are reached through the new tables.  It composes the  *)
(* allocator (PageBitmap) with page tables abstracted to what Paging shows *)
(* of them: the set of tables in use and the address space they give.  A   *)
(* range operation takes a step a page.  Addresses and sizes are in pages. *)
(***************************************************************************)
EXTENDS PageBitmap, Sequences

CONSTANTS
  Maps,          \* memory maps: sequences of descriptors [type, phys, num]
  Hardware,      \* where the machine put its devices and tables
  PAGE_SIZE,     \* bytes of a page
  FAN,           \* entries of a table
  KernelAddr,    \* _kernel_start (kernel.ld)
  KernelPages,   \* kernel.c:69, (_kernel_end - _kernel_start) / PAGE_SIZE + 1
  KERNEL_START   \* kernel.h, the offset of the kernel's second mapping

(* The pages 48 bits of an address can name. *)
VIR_MOD == FAN * FAN * FAN * FAN

Range0(start, cnt) == {(start + k) % SIZE_MOD : k \in 0 .. (cnt - 1)}

Conventional(m) == UNION {Range0(m[j].phys, m[j].num) : j \in {k \in DOMAIN m : m[k].type = 7}}
Firmware(m)     == UNION {Range0(m[j].phys, m[j].num) : j \in {k \in DOMAIN m : m[k].type # 7}}

(* Every map the firmware can hand over adds up to TotalPages and names no *)
(* page twice.                                                             *)
ASSUME TotalAssumption ==
  \A m \in Maps :
    /\ Cardinality(Conventional(m) \cup Firmware(m)) = TotalPages
    /\ MapThenSumSet(LAMBDA j : m[j].num, DOMAIN m) = TotalPages

(* It describes the pages the boot loader put the kernel in as its own     *)
(* (bootloader.c:432), and has a free region with room for the bitmap,     *)
(* which kernel.c:48-58 takes for granted.                                 *)
ASSUME MapsAssumption ==
  \A m \in Maps :
    /\ m \in Seq([type: Nat, phys: Pages, num: Pages])
    /\ \E j \in DOMAIN m : m[j].type = 7 /\ m[j].num > size \div PAGE_SIZE
    /\ KernelAddr \in Firmware(m)
ASSUME SizesAssumption ==
  PAGE_SIZE \in Nat \ {0} /\ FAN \in Nat \ {0, 1} /\ KernelPages \in Nat \ {0}

(* The kernel is in memory, its last page included, and its second mapping *)
(* is above memory (kernel.h:22).                                          *)
ASSUME KernelAssumption ==
  /\ KernelAddr \in Nat /\ KERNEL_START \in Nat
  /\ KernelAddr + KernelPages <= TotalPages
  /\ TotalPages <= KERNEL_START + KernelAddr
  /\ KERNEL_START + KernelAddr + KernelPages <= VIR_MOD

(* What the machine has is within the reach of a page table and of size_t, *)
(* and the framebuffer is below the kernel's second mapping.               *)
ASSUME HardwareAssumption ==
  \A h \in Hardware :
    /\ h \in [fb: Nat, fb_pages: Nat, apic: Nat, mcfg: Nat, mcfg_pages: Nat, ecam: Nat, bar: Nat,
              stack: Nat, madt: Nat]
    /\ h.fb + h.fb_pages <= KERNEL_START + KernelAddr
    /\ \A end \in {h.fb + h.fb_pages, h.apic + 1, h.mcfg + h.mcfg_pages, h.ecam + 1, h.bar + 3} :
         end <= VIR_MOD /\ end <= SIZE_MOD

VARIABLES
  pc,           \* the part of start_kernel that comes next
  done,         \* the pages a range operation has done
  desc,         \* the descriptor kernel.c:60 has come to
  map,          \* efi_mmap, from the boot loader
  hw,           \* framebuffer, APIC, MCFG table, configuration space, BAR, a page of the stack, MADT
  page_bitmap,  \* paging.c:4
  buffer,       \* page_bitmap.bitmap.buffer
  pml4,         \* the page of the top table
  tables,       \* the other tables: <<level, prefix>> -> the page it is in
  space,        \* the translations the tables give: virtual -> physical page
  idt           \* the page of the interrupt table, as a set

vars == <<pc, done, desc, map, hw, page_bitmap, buffer, pml4, tables, space, idt>>

BufferPages == Range0(buffer, size \div PAGE_SIZE + 1)
Kernel      == Range0(KernelAddr, KernelPages)

(* The map describes every page below TotalPages. *)
Memory == 0 .. (TotalPages - 1)
Dense  == Conventional(map) \cup Firmware(map) = Memory

(* Pages req_page handed out: the tables and the interrupt table. *)
BeforePml4 == pc \in {"place", "lock_bitmap", "reserve", "kernel", "pml4"}
TablePages == {tables[t] : t \in DOMAIN tables}
Handed     == TablePages \cup idt \cup (IF BeforePml4 THEN {} ELSE {pml4})

(* The pages of the framebuffer that lock_pages has come to. *)
Framebuffer ==
  Range0(hw.fb, IF BeforePml4 \/ pc = "identity" THEN 0 ELSE IF pc = "lock_fb" THEN done ELSE hw.fb_pages)

-----------------------------------------------------------------------------
(* lock_pages and reserve_pages (paging.c:32-35, 62-65), from addr on: the *)
(* next page, or the statement after the call.                             *)
lock_pages(addr, cnt, next) ==
  /\ IF done < cnt
     THEN page_bitmap' = lock_page(page_bitmap, (addr + done) % SIZE_MOD) /\ done' = done + 1 /\ pc' = pc
     ELSE page_bitmap' = page_bitmap /\ done' = 0 /\ pc' = next
  /\ UNCHANGED <<desc, map, hw, buffer, pml4, tables, space, idt>>
reserve_pages(addr, cnt, next) ==
  /\ IF done < cnt
     THEN page_bitmap' = reserve_page(page_bitmap, (addr + done) % SIZE_MOD) /\ done' = done + 1 /\ pc' = pc
     ELSE page_bitmap' = page_bitmap /\ done' = 0 /\ pc' = next
  /\ UNCHANGED <<desc, map, hw, buffer, pml4, tables, space, idt>>

(* f with y at x. *)
Put(f, x, y) == [z \in DOMAIN f \cup {x} |-> IF z = x THEN y ELSE f[z]]

(* map_page (paging.c:77-142) on s = [pb, tables, space, failed]: the      *)
(* tables on the way that are missing are taken from the allocator, top    *)
(* one first.                                                              *)
Span(level) == IF level = 1 THEN FAN ELSE IF level = 2 THEN FAN * FAN ELSE FAN * FAN * FAN
Name(level, v) == <<level, v \div Span(level)>>
Table(s, level, v) ==
  IF Name(level, v) \in DOMAIN s.tables THEN s
  ELSE [pb |-> req_page(s.pb).pb, tables |-> Put(s.tables, Name(level, v), req_page(s.pb).page),
        space |-> s.space, failed |-> s.failed \/ FreePages(s.pb) = {}]
Walk(s, v) == Table(Table(Table(s, 3, v), 2, v), 1, v)
map_page(s, v, phys) ==
  [pb |-> Walk(s, v).pb, tables |-> Walk(s, v).tables, space |-> Put(s.space, v, phys),
   failed |-> Walk(s, v).failed]

(* The processor's accesses once cr3 is loaded: every page of S has a      *)
(* translation to itself.                                                  *)
Reaches(S) == \A p \in S : p \in DOMAIN space /\ space[p] = p

(* What every statement after cr3 needs: the kernel's code and variables,  *)
(* the stack the loader left, and the framebuffer, which kprintf writes    *)
(* before and after each part (kernel.c:98, 100, 104, ...).                *)
Always == Kernel \cup Range0(hw.fb, hw.fb_pages) \cup {hw.stack}

(* map_pages (paging.c:143-147) on the kernel's tables: the next page, or  *)
(* the statement after the call.  req_page's NULL is not tested            *)
(* (paging.c:90, 107, 124): the model ends where the kernel would link     *)
(* page 0 as a table.  Once cr3 is loaded map_page edits the tables        *)
(* through the tables: the pages it reads and writes besides are the       *)
(* bitmap's and those of the tables on the way, the ones it takes included. *)
map_pages(vir, phys, cnt, next) ==
  LET v    == (vir + done) % VIR_MOD
      s    == map_page([pb |-> page_bitmap, tables |-> tables, space |-> space, failed |-> FALSE], v, phys + done)
      used == Always \cup BufferPages \cup {pml4} \cup {s.tables[Name(level, v)] : level \in 1 .. 3}
  IN  /\ IF done < cnt
         THEN /\ page_bitmap' = s.pb /\ tables' = s.tables /\ space' = s.space
              /\ done' = done + 1
              /\ pc' = IF s.failed THEN "exhausted"
                       ELSE IF pc = "bar" /\ ~ Reaches(used) THEN "fault" ELSE pc
         ELSE /\ done' = 0 /\ pc' = next
              /\ UNCHANGED <<page_bitmap, tables, space>>
      /\ UNCHANGED <<desc, map, hw, buffer, pml4, idt>>

-----------------------------------------------------------------------------
Init ==
  /\ pc = "place" /\ done = 0 /\ desc = 1
  /\ map \in Maps
  /\ hw \in {h \in Hardware : /\ Range0(h.fb, h.fb_pages) \cap Conventional(map) = {}
                              /\ {h.stack, h.madt} \subseteq Firmware(map)}
  /\ page_bitmap \in {[bitmap |-> stray, free |-> 0, reserved |-> 0, used |-> 0] : stray \in SUBSET {NBits}}
  /\ buffer = 0 /\ pml4 = 0
  /\ tables = << >> /\ space = << >> /\ idt = {}

(* kernel.c:37-52: the first of the largest conventional descriptors. *)
Regions(m) == {j \in DOMAIN m : m[j].type = 7}
Largest(m) == {j \in Regions(m) : \A k \in Regions(m) : m[k].num <= m[j].num}
largest_desc == Min(Largest(map))

(* kernel.c:37-57: the map is scanned, the bitmap put at the start of the  *)
(* largest free region and cleared (but for bit NBits, which is in no byte *)
(* of it).                                                                 *)
PlaceBitmap ==
  /\ pc = "place"
  /\ buffer' = map[largest_desc].phys
  /\ page_bitmap' = [bitmap |-> page_bitmap.bitmap, free |-> TotalPages,
                     reserved |-> page_bitmap.reserved, used |-> page_bitmap.used]
  /\ pc' = "lock_bitmap"
  /\ UNCHANGED <<done, desc, map, hw, pml4, tables, space, idt>>

LockBitmapShort == pc = "lock_bitmap" /\ lock_pages(buffer, size \div PAGE_SIZE, "reserve")

(* kernel.c:58: its own pages. *)
LockBitmap == pc = "lock_bitmap" /\ lock_pages(buffer, size \div PAGE_SIZE + 1, "reserve")

ReserveOffByOne(num) ==
  /\ page_bitmap' = IF done < num - 1 THEN reserve_page(page_bitmap, (map[desc].phys + done) % SIZE_MOD) ELSE page_bitmap
  /\ done' = IF done < num - 1 THEN done + 1 ELSE 0
  /\ desc' = IF done < num - 1 THEN desc ELSE desc + 1

(* kernel.c:60-66: the next page of a descriptor, or the next descriptor. *)
Reserve(num) ==
  /\ page_bitmap' = IF done < num THEN reserve_page(page_bitmap, (map[desc].phys + done) % SIZE_MOD) ELSE page_bitmap
  /\ done' = IF done < num THEN done + 1 ELSE 0
  /\ desc' = IF done < num THEN desc ELSE desc + 1

(* kernel.c:60-66: every descriptor that is not conventional is reserved. *)
ReserveFirmware ==
  /\ pc = "reserve"
  /\ \/ desc <= Len(map) /\ Reserve(IF map[desc].type # 7 THEN map[desc].num ELSE 0) /\ pc' = pc
     \/ desc > Len(map) /\ pc' = "kernel" /\ UNCHANGED <<page_bitmap, done, desc>>
  /\ UNCHANGED <<map, hw, buffer, pml4, tables, space, idt>>

(* kernel.c:68-70; the last page may be beyond what the loader allocated. *)
ReserveKernel == pc = "kernel" /\ reserve_pages(KernelAddr, KernelPages, "pml4")

(* kernel.c:72-73 *)
NewPml4 ==
  /\ pc = "pml4"
  /\ page_bitmap' = req_page(page_bitmap).pb
  /\ pml4' = req_page(page_bitmap).page
  /\ pc' = IF FreePages(page_bitmap) = {} THEN "exhausted" ELSE "identity"
  /\ UNCHANGED <<done, desc, map, hw, buffer, tables, space, idt>>

(* kernel.c:75: as many pages from 0 as the map describes. *)
MapIdentity == pc = "identity" /\ map_pages(0, 0, TotalPages, "lock_fb")

LockFramebufferNoTest ==
  /\ pc = "lock_fb"
  /\ IF done < hw.fb_pages
     THEN page_bitmap' = lock_page_no_test(page_bitmap, (hw.fb + done) % SIZE_MOD) /\ done' = done + 1 /\ pc' = pc
     ELSE page_bitmap' = page_bitmap /\ done' = 0 /\ pc' = "fb"
  /\ UNCHANGED <<desc, map, hw, buffer, pml4, tables, space, idt>>

(* kernel.c:77: after the tables for all of memory have been allocated. *)
LockFramebuffer == pc = "lock_fb" /\ lock_pages(hw.fb, hw.fb_pages, "fb")

MapFramebufferShort == pc = "fb" /\ map_pages(hw.fb, hw.fb, hw.fb_pages - 1, "map_kernel")

(* kernel.c:78, 80, 82-84 and 86-88. *)
MapFramebuffer == pc = "fb" /\ map_pages(hw.fb, hw.fb, hw.fb_pages, "map_kernel")
MapKernel      == pc = "map_kernel" /\ map_pages(KERNEL_START + KernelAddr, KernelAddr, KernelPages, "apic")
MapApic        == pc = "apic" /\ map_pages(hw.apic, hw.apic, 1, "mcfg")
MapMcfg        == pc = "mcfg" /\ map_pages(hw.mcfg, hw.mcfg, hw.mcfg_pages, "cr3")

(* kernel.c:90-100: the next instruction is fetched through the new        *)
(* tables, and kprintf writes through them.                                *)
LoadCr3 ==
  /\ pc = "cr3"
  /\ IF Reaches(Always) THEN pc' = "set_idt" ELSE pc' = "fault"
  /\ UNCHANGED <<done, desc, map, hw, page_bitmap, buffer, pml4, tables, space, idt>>

(* kernel.c:102, idt.c:95: req_page reads and writes the bitmap, and the   *)
(* page it returns becomes the interrupt table.                            *)
SetIdt ==
  /\ pc = "set_idt"
  /\ page_bitmap' = req_page(page_bitmap).pb
  /\ idt' = {req_page(page_bitmap).page}
  /\ pc' = IF FreePages(page_bitmap) = {} THEN "exhausted"
           ELSE IF Reaches(Always \cup BufferPages \cup idt') THEN "timer" ELSE "fault"
  /\ UNCHANGED <<done, desc, map, hw, buffer, pml4, tables, space>>

(* kernel.c:108, acpi.c:20-69: the MADT and the APIC's registers. *)
SetApicTimer ==
  /\ pc = "timer"
  /\ IF Reaches(Always \cup {hw.madt, hw.apic}) THEN pc' = "bootdisk" ELSE pc' = "fault"
  /\ UNCHANGED <<done, desc, map, hw, page_bitmap, buffer, pml4, tables, space, idt>>

(* kernel.c:115-133: the configuration space named by the MCFG table is    *)
(* read, which no statement has mapped; the class code tells whether the   *)
(* disk is an NVMe controller.                                             *)
FindBootdisk ==
  /\ pc = "bootdisk"
  /\ IF Reaches(Always \cup Range0(hw.mcfg, hw.mcfg_pages) \cup {hw.ecam})
     THEN pc' \in {"bar", "no_disk"} ELSE pc' = "fault"
  /\ UNCHANGED <<done, desc, map, hw, page_bitmap, buffer, pml4, tables, space, idt>>

(* kernel.c:135-146: the registers of the disk's controller. *)
MapBar == pc = "bar" /\ map_pages(hw.bar, hw.bar, 3, "nvme")

(* kernel.c:148-172: those registers are written, and vir_to_phys          *)
(* (paging.c:148-164) reads the tables on the way to the queues, which are *)
(* variables of the kernel.                                                *)
InitNvme ==
  LET walked == {pml4} \cup UNION {{tables[Name(level, v)] : level \in 1 .. 3} : v \in Kernel}
  IN  /\ pc = "nvme"
      /\ IF Reaches(Always \cup Range0(hw.bar, 3) \cup walked) THEN pc' = "running" ELSE pc' = "fault"
      /\ UNCHANGED <<done, desc, map, hw, page_bitmap, buffer, pml4, tables, space, idt>>

Done == pc \in {"running", "no_disk", "exhausted", "fault"} /\ UNCHANGED vars

Next ==
  \/ PlaceBitmap \/ LockBitmap \/ ReserveFirmware \/ ReserveKernel \/ NewPml4
  \/ MapIdentity \/ LockFramebuffer \/ MapFramebuffer \/ MapKernel \/ MapApic \/ MapMcfg
  \/ LoadCr3 \/ SetIdt \/ SetApicTimer \/ FindBootdisk \/ MapBar \/ InitNvme
  \/ Done

Spec == Init /\ [][Next]_vars

-----------------------------------------------------------------------------
(* Every variable has its type. *)
TypeOK ==
  /\ pc \in {"place", "lock_bitmap", "reserve", "kernel", "pml4", "identity", "lock_fb", "fb", "map_kernel", "apic",
             "mcfg", "cr3", "set_idt", "timer", "bootdisk", "bar", "nvme",
             "running", "no_disk", "exhausted", "fault"}
  /\ done \in Nat /\ desc \in Nat \ {0}
  /\ map \in Maps /\ hw \in Hardware
  /\ page_bitmap \in PageBitmaps
  /\ buffer \in Pages /\ pml4 \in Pages /\ idt \subseteq Pages
  /\ \A t \in DOMAIN tables : t \in (1 .. 3) \X (0 .. (FAN * FAN * FAN - 1)) /\ tables[t] \in 0 .. (NBits - 1)
  /\ \A v \in DOMAIN space : v \in 0 .. (VIR_MOD - 1) /\ space[v] \in Nat

(* Nobody's page is given out again: the tables, the pml4 and the          *)
(* interrupt table are pages of their own, none belongs to the firmware,   *)
(* the kernel or the bitmap, whatever the map's order, its holes, and the  *)
(* place of the largest region (kernel.c:54-73); and every variable has    *)
(* its type.                                                               *)
OwnersDisjoint ==
  /\ TypeOK
  /\ pc # "exhausted" =>
       /\ \A t, u \in DOMAIN tables : tables[t] = tables[u] => t = u
       /\ ~ BeforePml4 => pml4 \notin TablePages \cup idt
       /\ idt \cap TablePages = {}
       /\ Handed \cap (Firmware(map) \cup Kernel \cup BufferPages) = {}

(* What is handed out is memory: with a map without holes every table is a *)
(* page of conventional memory; the bits the bitmap has beyond memory      *)
(* (kernel.c:55 rounds up) are reached only when no page of memory is      *)
(* left.  In a map with holes the hole's pages are handed out as well.     *)
HandedMemory ==
  pc # "exhausted" =>
    \A p \in Handed :
      \/ p \in Conventional(map)
      \/ p \notin Firmware(map) /\ ~ Dense
      \/ p >= TotalPages /\ Memory \subseteq page_bitmap.bitmap

(* page_bitmap.free is exact at every step: the pages of memory whose bit  *)
(* is clear, less the pages of a framebuffer that the map does not         *)
(* describe and that lock_pages counts although they are not memory        *)
(* (kernel.c:77), less the pages beyond memory that were handed out.       *)
FreeExact ==
  LET beyond == {p \in Handed : p >= TotalPages}
  IN  Dense /\ pc \notin {"place", "exhausted"} /\ NBits \notin page_bitmap.bitmap =>
        page_bitmap.free =
          (Cardinality(Memory \ page_bitmap.bitmap) - Cardinality((Framebuffer \ Memory) \cup beyond)) % SIZE_MOD

(* After cr3 an access can only go wrong for a page that nothing but the   *)
(* identity map of memory maps and that is not below the number of pages   *)
(* the map describes: of the stack, the MADT, the configuration space, the *)
(* bitmap, or a page req_page handed out (kernel.c:75-172).  The kernel,   *)
(* the framebuffer kprintf writes, the APIC, the MCFG table and the        *)
(* controller's registers never fault.  In a map without holes that leaves *)
(* the configuration space and pages handed out beyond memory.             *)
ByIdentity == {hw.stack, hw.madt, hw.ecam} \cup BufferPages \cup Handed
NoFault == pc = "fault" => \E p \in ByIdentity : p >= TotalPages
=============================================================================
