# OSFort in TLA+

OSFort is an x86_64 operating system in its early days: a UEFI boot loader
(`boot/efi/bootloader.c`) and a kernel (`boot/kernel`, `dev`, `sys`, `inc`) that
sets up physical memory, page tables, interrupts, the APIC timer and the boot
disk's NVMe controller and then idles. This directory models its core, checks the
models with TLC and proves their safety properties with TLAPS.

## The system

| Part | State it keeps | Operations | Talks to |
|---|---|---|---|
| boot loader, `bootloader.c` | pool buffers, pointers into them, loop positions | find disk, partition, `/boot/kernel`; load ELF; take memory map, XSDT | UEFI firmware; hands `BOOTINFO` to the kernel |
| kernel start, `kernel.c` | memory map, `pml4`, ACPI tables | the sequence of the parts below | all of them |
| page bitmap and allocator, `bitmap.c`, `paging.c:6-76` | one bit a page, three byte counters | free, lock, unreserve, reserve (one page and ranges), `req_page` | page tables, `set_idt` |
| page tables, `paging.c:77-164` | four levels of tables in pages of the allocator | `map_page(s)`, `vir_to_phys` | allocator, the processor's walk and TLB, NVMe |
| interrupts, `idt.c` | IDT, two 8259 controllers | `set_idt`, seven handlers | allocator (the IDT's page), devices |
| NVMe admin queue, `nvme.c` | two rings, tail, head, phase, cid | `nvme_command_identify`, two doorbells | the controller, `vir_to_phys` |
| NVMe bring-up, `kernel.c:145-167` | controller registers | disable, configure, enable | the controller |
| ACPI and APIC timer, `acpi.c` | APIC and PIT registers | table search, timer calibration | kernel start |
| PCIe, `pcie.c` | address list | enumeration, header read | (nobody yet) |
| console, `print.c`, `font.c` | cursor | `kputc`, `kprintf`, clear, number conversion | everybody |
| system calls, `syscall.c`, `gdt.c` | GDT, MSRs | entry, dispatch | (no user program yet) |
| C library subset, `sys/*.c` | none | `memset`, `strncmp`, character classes | everybody |

The kernel is one thread of control. What runs beside it is hardware: the processor
walks the page tables and fills its TLB while `map_page` edits them; devices raise
lines while `set_idt` programs the controllers; the NVMe controller fetches and
completes while the host polls. The boot loader is sequential, but each of its
some forty firmware calls may fail, and it keeps pointers into buffers that it
frees or reads over. The hard behaviours are therefore: order of writes against a
concurrent reader, stale cached values (TLB, completion entries, inode pointers),
counters and indices at a limit, waits without a limit, and calls in an order
nobody meant. `PROJECT.json` lists them as hazards at the line where each bites.

What makes each part correct: the allocator never gives a page twice and its
counters tell the truth; the tables form a tree and each map changes one
translation; each admin command gets its own answer; set-up leaves the interrupt
controllers remapped and PIC1 never blocked; the loader loads the file the path names
(up to the limits listed under deviations) and hands over a map of everything it still
uses.

## Modules

| Module | Models |
|---|---|
| `PageBitmap` | `bitmap.c` and `paging.c:6-76` as operators on a `PAGE_BITMAP` value |
| `PageBitmapProofs` | lemmas about the operators of `PageBitmap` |
| `PageAllocator` | any sequence of range calls and `req_page` on the global bitmap |
| `PageAllocatorProofs` | theorems about `PageAllocator` |
| `AddressSpace` | abstract: a table from virtual to physical pages, changed one page at a time |
| `Paging` | `map_page`, `map_pages`, `vir_to_phys`, `cr3` on top of `PageBitmap`, and the processor; implements `AddressSpace` |
| `PagingProofs` | theorems about `Paging` |
| `AdminChannel` | abstract: one answer a request, returned by the call that asked |
| `NvmeAdmin` | `nvme_command_identify`, the doorbells and the controller; implements `AdminChannel` |
| `NvmeAdminProofs` | theorems about `NvmeAdmin` |
| `Interrupts` | `set_idt`, the handlers, the two 8259s and the devices |
| `InterruptsProofs` | theorems about `Interrupts` |
| `Bootloader` | `efi_main` from the graphics mode to the start of the kernel |
| `BootloaderProofs` | theorems about `Bootloader` |
| `KernelBoot` | `_start` from the memory map to the first use of the disk's registers (`kernel.c:36-172`) on top of `PageBitmap` |
| `KernelBootProofs` | theorems about `KernelBoot` |
| `NvmeInit` | `kernel.c:146-166` and the register accessors of `nvme.c:12-44` |
| `Acpi` | `acpi_get_table` and `acpi_set_apic_timer`, with the PIT and the APIC's page |
| `Format`, `Console` | the number conversions, and `kprintf`, `kputc`, the clears, the cursor and the pixels |
| `Pcie` | `pcie_get_config_space_addrs` |
| `Libc` | `ctype.c` and `strncmp` |
| `Syscall` | the GDT, the four MSRs of `kernel.c:179-188`, `syscall_handler` |
| `Services` | `NvmeInit`, `Acpi`, `Pcie`, `Console`, `Format`, `Libc` and `Syscall`, one a behaviour |
| `ServicesProofs` | theorems about these seven |
| other `MC*` | the instance of each that TLC checks, with its `.cfg` |

Names follow the source: a variable or operator has the name of the C object it
stands for. Definitions named for a defect (`lock_page_no_test`, `LeafInvlpgFirst`,
`StepsMapEarly`, ...) are not part of any specification: each is a plausible bug of
the definition after it, and replacing that definition by it must break the
property it is listed with in `PROJECT.json`.

### PageBitmap, PageAllocator

A page bitmap is a record of the set of bits that are 1 and the three counters.
Addresses and counters are in pages modulo `SIZE_MOD` (2^64 / 4096): every address
is divided by `PAGE_SIZE` at once and every counter moves by `PAGE_SIZE`, so nothing
is lost, and a counter below zero wraps. The guard of `bitmap.c:5` lets one index
too many through, so the model has bit `NBits`, in the byte after the buffer,
whose first value is arbitrary. A range call is `Call` and then one `Iterate` for
each page. Two history variables record what the properties need: `held`, the pages
`req_page` gave out and nobody unmarked, and `drift`, what the counters hold for
pages without a bit.

### Paging

Tables live in page frames that the allocator gives out; a frame fresh from the
allocator holds zeros or junk. `map_page` is three `Descend` steps and a `Leaf`, which
is two steps: `WriteLeaf` writes the entry (line 139) and `Invlpg` invalidates its
address (line 141). Between them the TLB may hold the old translation, or be filled
with the new one, and the processor may use either: `TlbCoherent` allows that for the
page being mapped and there only, and fails if the order of the two is swapped. In
`Descend` the clearing of the new table and the link to it are one step: the
program clears first (line 90, then 95), so no walk can see the table before. The
processor's TLB holds one translation, enough to be stale. `vir_to_phys` keeps
`SHIFT_MOD` pages of an address, because the project's compiler shifts the 40-bit
bit-field `addr` in 40 bits. The rest of the kernel takes pages too
(`OtherReqPage`) and fills them. No caller tests the result of `req_page`; when it
is NULL, or a page of the rounded-up bitmap that is not memory, `exhausted` becomes
true and the model stops: from there the code promises nothing.

### NvmeAdmin

`Fill`, `nvme_ring_asq_doorbell`, `Poll`, `nvme_ring_acq_doorbell` and `Return` are
the parts of `nvme_command_identify` between which the controller can act. The
controller is external: it fetches when the tail doorbell is ahead of its head,
completes with either status, flips its phase at the end of the ring and does not
overwrite an entry that was not released. The cid changes once a lap only, so a
history tag tells commands apart. The call in `_start` (`kernel.c:169`) is commented out
at this commit; the model is of the function, for any number of calls. The field arithmetic of `nvme_mmio_*` is not in
this module: a doorbell write is a write to that doorbell.

### Interrupts

`set_idt` is five kinds of steps; the ten `outb` of lines 109-130 are a table
`Program`, one step each. The 8259s follow their data sheet as far as the bytes the
code sends go: the ICW sequence, mask, non-specific EOI, fixed priority, cascade,
spurious interrupts. The page of the IDT is not cleared, so a vector without a gate
is a `fault`, from which nothing is promised. Interrupts are enabled when `set_idt`
starts, as firmware leaves them; one that arrives between `lidt` and `cli` meets
the new table with the firmware's vectors, and the model lets it. Only the four
lines with a gate are raised: `OnlyPic2SpuriousFaults` says nothing of the other twelve,
which are unmasked too (see the findings). A request that is withdrawn before its
acknowledge gives the spurious vector of the controller that was asked: 0x27 of PIC1,
for which there is a gate, or 0x2f of PIC2 when line 11 is the one withdrawn, for which
there is none. So the property is not that nothing faults but that only 0x2f does.

### Bootloader

`efi_main` is a list, `Steps`, of firmware calls, allocations, frees and loops, in
the order of the source. A step names the buffers it touches and the inode it reads
through a pointer into `inode_tbl`; that is what the lifetime properties are about.
Every checked call may fail, and then the loader stays in `while (1)` (`"stuck"`);
a directory record too short for its name is looked at forever (`"spin"`). A record is
taken if its name begins with the one sought, for `strncmpa` compares 4 and 6 bytes
(lines 270 and 315), and deleted records, of inode 0, are not skipped: `Begins` is that
comparison, over the names `"sought"`, `"longer"` and `"other"`. Disk,
directories, ELF header and ACPI tables hold whatever they hold when they are read.
Sizes, graphics modes and the bytes of segments are left out.

### KernelBoot

One action for each statement of `_start` that changes memory: the choice of the
largest conventional region, the bitmap in it, the reservations, the pml4, each
`map_pages`, `cr3`, and then each part that touches memory through the new tables.
The machine is any of a small set of memory maps (in and out of order, with and
without holes, largest region first or last) with its framebuffer, APIC, MCFG table,
configuration space and registers in any of a few places. A range operation
(`lock_pages`, `reserve_pages`, `map_pages`) takes a step a page: `done` is its loop
counter, `desc` the descriptor `kernel.c:60` has come to. A table is where its page
is, named by its level and the prefix of the addresses below it, and the address
space is the function the tables define; that the entries in memory behave like
this is what `Paging` is about. The assumptions are the ones the code makes without
a test: a free region with room for the bitmap (`kernel.c:48-58`), the kernel in
memory with its last page (`kernel.c:69` rounds up), its second mapping above memory
(`kernel.h:22`) and above the framebuffer, devices within 48 bits, and the stack and the
MADT in pages of the firmware that the map describes. After cr3 every step needs the
kernel's pages, a page of the stack and the framebuffer (`Always`): `kprintf` writes it
before and after each part. The other pages a step uses are in its own action, up to
`InitNvme`, which writes the disk's registers and walks the tables for `vir_to_phys`.
The model ends there, or when `req_page` returns NULL (`"exhausted"`) or when the kernel
touches a page that is not mapped (`"fault"`). `NoFault` says which pages that can be.

### NvmeInit

The bring-up is a list of statements, as in the source: a field of CC or AQA is
read, changed and written; a queue address is written, low half and then high half;
`CSTS.RDY` is polled. The firmware may have left anything in the registers. The
controller follows `CC.EN` in its own time, takes its configuration over when it
becomes ready, and may fail for good. CC and AQA have their real bit positions;
halves of a 64-bit register have 10 bits in the instance instead of 32.
`ConfigurationTaken` reads the fields by the bit-fields of `nvme.h`, which the kernel
does not use for writing, so that the two descriptions of a register are compared.

### Acpi

The search looks at one entry a step. The calibration is one action a port or
register access; the PIT counts on its own and may expire at any moment after its
gate rose. `apic_base` is a `uint32_t*`, so the offsets of `acpi.h` are multiplied by
four: `Offset` says so, and no write reaches a register that is there. The reading
`tmp0` may therefore be anything, and `PeriodOfReading` is about the conversion of a
reading only; that it is not the count that `acpi.c:58` wants is a deviation below.

### Pcie

The enumeration of `pcie.c:27-46`, a store a step. Its index has 8 bits and one bus has
256 functions, so each bus overwrites the list of the one before; the last bus of a
range is not visited. `Decoded` are the buses that the table decodes, the end of a range
included. The properties say that the list has nothing else, at any step, and is one of
them, whole, at the end; not which one, and not how many are missing. No code calls it yet.

### Format, Console

`itoa` and `hex` are operators in a word of `M` values, with the wrap of `pow(10, 20)`.
A call is `WellFormed`: it has an argument of its kind for every directive, without
which `va_arg` is undefined.
`Console` runs `kprintf` character by character. A glyph is all pixels of its cell,
so that two glyphs on one pixel are seen; the clears count pixels but address bytes,
as the code does, and what they miss is remembered as `stale`.

### Libc, Syscall

`strncmp` is a loop over two strings with bytes behind their NUL. `StrncmpOrder` has the
order of POSIX.1-2024, which `info:10` names, as its reference, and claims it for two
bytes below 0x80 or two from 0x80 on: between the two kinds the code has the other order.
In the same way `ItoaRight` claims nothing of the first digit of a number of `D` digits.

In `Syscall` a 64-bit register is the set of its bits. The seven moves of
`syscall.c:8-14` run in order over the registers the compiler chose, which may be any,
`rcx` and `r11` included, for the asm statement names no clobber. The instance has three
choices: the one gcc 12 makes with the Makefile's flags, which puts an output in `rcx`,
one that spares both, and one that uses `r11`. The Makefile has no `-mno-red-zone`
and the handler calls nothing, so its variables lie below the stack pointer and the two
pushes overwrite the number and the first argument before `switch (num)` reads it.
`SYSCALL`, `SYSRETQ` and the program are external; `SYSRETQ` returns to the program only
if `rcx` still has its address, and with its flags only if `r11` has them. A return
anywhere else is `"lost"`.

### Services

The parts above share no variable in the kernel, and interleaving two of them would
only multiply states. So a behaviour belongs to one part, chosen at the start; the
variables of the others stay as they are. `Acpi`, `Pcie`, `Console`, `Libc` and `Syscall`
are instances over the same twelve variables; each named property speaks of its part.

## Runs

| Run | Instance | Shows |
|---|---|---|
| `page_allocator` | 2 pages of memory, bytes of 2 bits (a bitmap of 4 bits plus the stray one), addresses modulo 6, ranges up to 2: 631,800 states | `Conservation`, `Accounting`, `HeldMarked`, `RangeEffect`, `ExclusiveAlloc` |
| `paging` | tables of 2 entries (16 virtual pages), 10 pages of memory, ranges up to 2 pages that cross every level at page 7/8: 356,304 states | `TablesDisjoint`, `TlbCoherent`, `RangeMapped`, `VirToPhysAgrees`, refinement of `AddressSpace` |
| `nvme_admin` | rings of 3, 2 cids, 7 tags: 8,296 states | `CompletionFresh`, `InStep`, `PhaseMarksLap`, `IdentifyReturns`, refinement of `AdminChannel` |
| `interrupts` | lines 0, 1, 7 and 11, each raised at most twice: 15,295 states | `VectorsRemapped`, `ProgrammedUndisturbed`, `Pic1Released`, `OnlyPic2SpuriousFaults`, `Pic1Served` |
| `bootloader` | 2 disks, 2 partitions, directories of up to 2 records, groups of 3 inodes with 2 in a block, files of up to 3 blocks with 2 direct: 940,245 states | `BuffersLive`, `InodeFresh`, `OneDisk`, `ImageExact`, `HandOver`, `XsdtSound`, `ScanFinds` |
| `kernel_boot` | 22 pages of memory in 256 maps, devices, stack and MADT in 64 places, pages of 4 bytes, tables of 8 entries: 528,768 states | `OwnersDisjoint`, `HandedMemory`, `FreeExact`, `NoFault` |
| `services` | see `Services`: 172,618 states | `ControllerSound`, `QueuesSetAtRest`, `AcpiSound`, `ConsoleSound`, `LibrarySound`, `HandlerSound`, `Progress` |
| `nvme_queue_base` | as `services` | a violation of `QueueBaseIsAsq` |
| `acpi_pit_wait` | as `services` | a violation of `PitWaited` |
| `paging_wide` | as `paging` | a violation of `VirToPhys52` |
| `interrupts_mask` | as `interrupts` | a violation of `PicsMasked` |
| `bootloader_elf` | as `bootloader` | a violation of `ElfChecked` |

Why the bounds are enough. `page_allocator`: pages in the bitmap, the stray bit and
pages beyond all occur, memory is smaller than the rounded bitmap, ranges wrap, and
counters wrap in a few calls. `paging`: two entries a table are the least with which
two pages can share or not share each level; ten pages hold a pml4, both
subtrees of the calls made and pages for others, and then run out. `nvme_admin`:
three slots give first, middle and last; seven tags are more than two laps, so an
entry two laps old differs from the current one. `interrupts`: lines above, at and
below the spurious input and one behind the cascade; a second raise can arrive while
the first is in service. `bootloader`: each loop runs zero, one and two times, the
name sought is first, second, missing, behind a malformed record or behind a longer
name that begins with it, and inodes are in the block, outside it, last in their group,
or 0. `kernel_boot`: the maps have the
larger free region before or behind the firmware's, in ascending and descending
order, low memory free or not, no hole or one that stays below or rises above the top
of the identity map, in front of the last region or of the firmware's last one, and
memory that is no multiple of a bitmap byte; the framebuffer is in the firmware's pages,
in a hole or above memory, and stack and MADT are in the firmware's last region, which a
hole may put out of the identity map.
`services`: CC and AQA start as zero, as a running firmware leaves them and with
every field wrong; a queue address has bits in both halves; the doorbell stride goes
to the last that fits and one beyond; the screen has two lines of two columns, so
every call wraps and the second leaves the screen; numbers are all numbers of a word
whose largest has the full number of digits; strings of up to two bytes differ in
each place, are prefixes of each other and hold bytes below and two bytes above 127.

`TypeOK` is a run's own property for `page_allocator` and `nvme_admin`; in the other modules it is the first conjunct of a property
(`TablesDisjoint`, `VectorsRemapped`, `BuffersLive`, `OwnersDisjoint`,
`ControllerSound`, ...).

### Findings

* `vir_to_phys` truncates physical addresses to 40 bits (`paging.c:158-161`), though
  `paging.h:20` says 52 (`paging_wide`). `map_page` widens before it shifts.
* `set_idt` says that it masks both PICs (`idt.c:126`) and unmasks every line
  (`interrupts_mask`). With twelve of the lines lacking a gate this matters.
* The ELF check (`bootloader.c:398-409`) never stops the loader: `!EFI_SUCCESS` is 1,
  which is not an `EFI_ERROR` (`bootloader_elf`).
* The queue base registers get the queue's address times 4096 (`kernel.c:155-156`):
  the field at bit 12 of `nvme.h:117-124` is the address without its low 12 bits, and
  the kernel passes the whole address (`nvme_queue_base`).
* The wait for the PIT does not wait (`acpi.c:52`, operator precedence), so the timer
  is calibrated against nothing (`acpi_pit_wait`).

Other deviations seen while modelling; the models do what the code does, and no
property of a passing run calls the result right:

* No write of `acpi_set_apic_timer` reaches the APIC register it names
  (`acpi.c:19-77`: byte offsets are added to a `uint32_t*`), and the reading that
  `acpi.c:58` calls the current counter value is of the initial count register, at a
  wrong place, without the wait. `PeriodOfReading` is about the conversion only.
* `toupper` and `tolower` return 0 for a character without another case
  (`ctype.c:46-57`), and `strncmp` compares signed bytes (`string.c:21`); `info:10`
  names POSIX. `StrncmpOrder` leaves out a byte below 0x80 against one from 0x80 on.
* `itoa` writes a 0 for the first digit of a number of 20 digits (`print.c:113`), which `print.c:101` computes before. `ItoaRight` leaves that digit out.
* `SYSRETQ` takes its code selector, 0x28, from `kernel.c:187`; the GDT has none there,
  though `kernel.c:186` says user code. With gcc 12's choice of registers the handler
  loses arguments 5 and 6 and the return address (`syscall.c:7-16`), and its frame stays
  on the program's stack; with `r11` chosen it would lose the flags.
* `pushq %rcx` (`syscall.c:19`) overwrites `num`, which is in the red zone: the switch
  sees what `rcx` held. With gcc's choice that is `arg4`, so that a call with `arg4` 12
  hangs and call 12 does not. `BackIfSpared` claims a return only for `rcx` spared.
* The spurious interrupt of PIC2 has no gate (`idt.c:97-103`), and the handler of line 11
  sends no EOI to PIC2 (`idt.c:146-149`).
* The loader takes the first record whose name begins with `boot` or `kernel`
  (`bootloader.c:270`, `315`), a `kernel.old` in front of `kernel` or a deleted record
  included. `ImageExact` is about the case that the file named `kernel` is the first.
* Pages of holes in the memory map are handed out as memory (`kernel.c:45-66`), and what
  only the identity map covers (configuration space, stack, MADT, bitmap, tables) is
  unmapped if it lies beyond as many pages as the map counts (`kernel.c:75`), as it may
  with a hole. `HandedMemory` and `NoFault` state exactly these exceptions.
* The enumeration skips the last bus of every range and returns one bus only
  (`pcie.c:30`, `36`).
* `clear_line` and `clear_screen` address pixels as bytes and clear about a
  quarter of what they mean to (`print.c:71`, `80`).

### Fairness

`NvmeAdmin`: weak fairness of the host inside a call (a loop of one thread that
nothing preempts for good) and of the controller (it answers in finite time; the
poll of `nvme.c:91-103` has no other way out). The controller of this module fetches from
`asq` itself: that it has the queue's address is an assumption, which the start-up code
does not meet at this commit (`nvme_queue_base`), so `IdentifyReturns` is about the
function with the registers as they should be. Nothing makes the caller issue a
command. `Interrupts`: weak fairness of the running code and of the processor's
acknowledge, which happens at an instruction boundary when the flag is set. Devices
are not fair. `Bootloader`: weak fairness of the loader, the only thing that runs;
every firmware call is assumed to return. `NvmeInit`: weak fairness of the kernel's
loop and of a controller that has not failed, which `CAP.TO` bounds. `Pcie` and `Console`:
weak fairness of the function that runs, once it was called. `Syscall` has none: whether
a call ends depends on what the pushes wrote over its number. The other
specifications state safety only.

## Proofs

Each theorem holds for every value of the constants that satisfies the `ASSUME`s of
its module; TLC evaluates those on every run. They state what the machine or the
code fixes: sizes are positive, a bitmap fits the address space, tables have at least
two entries, `NONE` is not a physical page, lines are inputs of the two 8259s other
than the cascade, prior register values fit the registers, tables hold what their
layout allows, `10^(D-1) < M <= 10^D` for the digits of a word and `10^D` wraps below
`10^(D-1)` (as it does for 20 digits of 64 bits), calls of `kprintf` are well-formed, the
seven registers the compiler takes for the handler's variables are distinct, and for `KernelBoot` the four listed in its section. Two theorems have a further
hypothesis, given with them below.

A theorem called `Invariance` is that of a module's inductive invariant, which the other
theorems of the module follow from.

`PageBitmapProofs` has what the three modules on the bitmap share: `Inc` and `Dec` modulo
`SIZE_MOD`, the cardinality of a set with one bit changed, what `req_page` returns.

`PageAllocatorProofs`, for every memory size, byte width, address width and range
length:

* `TypeCorrect`: `Spec => []TypeOK`.
* `CountersExact`: `Spec => [](Conservation /\ Accounting)`. With the type
  invariant both are inductive, `Accounting` because the history variable `drift`
  counts exactly what the bits do not.
* `PagesMarked`: `Spec => [](HeldMarked /\ RangeEffect)`. `RangeEffect` needs the
  range to be no longer than the address space (`MaxCntAssumption`): pages of one
  range are then distinct, and an iteration does not undo an earlier one.
* `PagesConserved` and `RangesComplete` give `Conservation` and `RangeEffect` by
  themselves.
* `AllocationExclusive`: `Spec => ExclusiveAlloc`, from `HeldMarked`.

`PagingProofs`, for every table size, memory size and set of calls:

* `TablesAreATree` (`TablesDisjoint`), `TlbStaleOnlyUntilInvlpg` (`TlbCoherent`),
  `VirToPhysSound` (`VirToPhysAgrees`), and `RangesMapped` (`RangeMapped`, for ranges
  no longer than the address space, `MaxCnt <= FAN^4`: a longer one comes back to its
  first page and maps it again).
* `ImplementsSpace`: `Spec => ImplementsAddressSpace`, a `WriteLeaf` being the only
  step that changes a translation, and one translation only.

None is inductive. The invariant gives every frame a level (`Tree`): entries lead one
level down, no two entries lead to one table, and tables are marked in the bitmap
and nobody else's. A fresh frame may hold junk that looks like links, so the levels
cannot be read off memory: they are a witness, chosen at `Init` and extended by each
`Descend`. `OnPath` says that the table `map_page` works on is the one the processor
would reach, and with it a link or a leaf written changes the walk of that page only.

`NvmeAdminProofs`, for every ring of at least two entries and any cid width:

* `TypeCorrect`, `NeverStale` (`CompletionFresh`), `AlwaysInStep` (`InStep` and
  `PhaseMarksLap`). None of these is inductive; the invariant used says, for every
  point of the protocol, where the two sides stand relative to each other, which
  entries of the completion ring carry the expected phase, and what the entry at
  the head answers. `PhaseExact` gives `PhaseMarksLap` by itself.
* `RefinesChannel`: the safety part of the specification implements
  `AdminChannel`, step by step, from the same invariant.

`ServicesProofs`, of the bring-up, for every prior content of the registers, every place
of the queues and every word and page size:

* `QueuesOnlyAtRest`: `Spec => QueuesSetAtRest`.
* `ControllerConfigured`: `Spec => []ControllerSound`.

The invariant says which statements are behind `pc`: whether the controller is off and
at rest (`Resting`), which fields of CC and AQA and which queue registers are the
kernel's (`Written`), and that a high word still to be written belongs to the low
word that was (`Halves`). The fields are reasoned about on the record of all fields
of a word: a word is the sum of its fields at their places (`Assemble`,
`Disassemble`), so that a read gives one of them and a write changes that one only.
`FieldsCC` and `FieldsAQA` connect the offsets of `kernel.c` with the bit-field
declarations of `nvme.h`.

`ServicesProofs`, of the other parts:

* `TablesRead`: `ServicesSpec => []AcpiSound`, for every XSDT, every MCFG of any number of
  entries and buses, every rate and every state of the PIT. `Acpi!IInv` says that the
  entries the search has passed have another name (`Passed`), what each port access has
  made of the gate and of the channel, the reload value being there only once both its
  bytes are (`Programmed`), and that the count written is `Period`'s (`Computed`);
  `QuotientOrder` bounds its two cuts.
  `Pcie!IInv` says that places before the index hold the current bus, places from it on
  the last bus finished before it, and the rest nothing (`Listed`); that the index is
  the number of functions stored (`InRange`) makes it wrap exactly at the end of a bus. The
  buses the loops visit are decoded ones (`VisitedDecoded`), which `OneBusListed` needs only.
* `TextDrawn`: `ServicesSpec => []ConsoleSound`, for every screen and font size and every
  sequence of well-formed calls, clears and line ends. `BeforeCursor` places every pixel
  that is not stale by division: its line is not below the cursor's, and before the first
  `\r` it lies before the cursor. `CellPlace` shows that all pixels of a cell have its line
  and its column, so a cell ahead of the cursor has no pixel of a glyph; `OnScreen` that
  lines of the screen are in the framebuffer. `OrderNext` counts the directives passed.
* `LibraryExact`: `ServicesSpec => []LibrarySound`, for every word width and number of digits,
  and for `strncmp` every alphabet and length. `Libc!Compared` says that what the loop has
  passed is equal and no NUL. `ItoaCorrect` and `HexCorrect` say that the digits written,
  read back, give the number; for a number of `D` digits, the number without the first,
  whatever that is. `SignedOrder` is what the code computes; `FirstDifference` turns it into
  `StrncmpOrder` where signed and unsigned order agree.
* `HandlerEntered`: `ServicesSpec => []HandlerSound`, for every content of the MSRs, all
  flags, every choice of registers and any number of calls. `SetUp` gives each MSR from the
  statements passed, `Entered` the segments and flags inside the handler, and `FlagsKept`
  where return address and flags are until `SYSRETQ` if the compiler spares their
  registers: in `rcx` and `r11`, and on top of the stack while the call is served.

`pow`, `power` and `Value` are recursive functions, and the library's induction theorems
cannot be instantiated by the installed provers. The module proves its own: `SetInduction`
has the property as the set of the numbers that have it, and `RecursionExists` builds the
function that a step function defines from its beginnings, which exist for every length
(`BeginsExists`) and agree (`BeginsAgree`). With these `PowerDef` and `PowExact` compute the
powers, and `DigitsUnique` the value of a sequence of digits from the numbers that its
beginnings should give; `DecimalStep` and `HexStep` are the arithmetic of one digit.

`InterruptsProofs`, for every set of lines, any number of raises and every vector base
the firmware may have left:

* `Remapping` (`VectorsRemapped`), `ProgrammingUndisturbed` (`ProgrammedUndisturbed`),
  `Pic1AlwaysReleased` (`Pic1Released`).
* `GatedLinesFaultOnlySpuriously`: `Spec => OnlyPic2SpuriousFaults` if `Lines` is within
  {0, 1, 7, 11}, the lines `set_idt` has a gate for. `Pic1LinesNeverFault`: without line 11
  there is nothing behind the cascade, and no interrupt faults once the kernel runs.

The invariant follows the ten `outb`s: the initialisation word each controller expects
after each of them (`Sequence`), no handler and interrupts off meanwhile (`Undisturbed`),
at most one input of PIC1 in service and only inside a handler (`Service`), and
requests from wired inputs only (`Requests`), without which the cascade could deliver
a vector that has no gate.

`BootloaderProofs`, for every number of modes, disks, partitions, segments, every
inode-table geometry, directory length and checksum modulus:

* `NoUseAfterFree` (`BuffersLive`), `InodesFresh` (`InodeFresh`), `OneDiskOnly` (`OneDisk`),
  `ImageIsFirstKernelsFile` (`ImageExact`), `HandOverSound` (`HandOver`), `XsdtChecked` (`XsdtSound`).

`Places` computes the 39 entries of `Steps`; the invariant says for each of them which
buffers are allocated (`Live`), whose inode `inode_tbl` holds (`Holds`), what was found
of the disk (`Search`), which records a scan has passed (`Scanned`), how much of the
kernel is read (`Read`) and what no later step changes (`Final`).

`KernelBootProofs`, for every memory map, every size of memory, tables, bytes and
kernel, and every place of the devices:

* `OwnersStayDisjoint` (`OwnersDisjoint`), `HandedIsMemory` (`HandedMemory`),
  `FreeStaysExact` (`FreeExact`), `NothingFaults` (`NoFault`).

The four need each other's strengthening. `Apart` says of the bitmap, the tables and
the other pages handed out that all are marked, that no page has two uses, and that
everything marked for an owner so far (`Owned`: the bitmap's pages up to `done`, the
firmware's up to `desc` and `done`, the kernel's up to `done`) is nobody else's. `Exact`
says that every set bit is counted: it is memory, a page of the framebuffer outside
memory, or a page handed out beyond memory; without this a page marked twice could
be counted twice. `Seen` is what the tables map to itself so far, and
`Linked` says that every page with a translation has its three tables, which
`vir_to_phys` walks. `TakeApart` and
`TakeExact` say what a `req_page` does to these, `MarkApart` and `MarkExact` what a lock
or a reservation does, `WalkGood` what the three levels of a `map_page` do; each action
is then one of these, a page at a time. The framebuffer is locked after the tables
were taken, so a table may lie in it: `Covers` claims that it is marked, not that it
is nobody's.

Only model-checked: liveness (`IdentifyReturns`, `Pic1Served`, `ScanFinds`, `Progress`),
which is out of this prover's reach. The five violations are TLC's counterexamples.

## Plan

The modules are written, every safety property and both refinements that a run checks
are proved, and the liveness properties are checked. A change of the source starts with
its module and its run; the proofs of the lemmas that do not mention the changed action
stay as they are. Worth adding when the code gets there: the callers of the PCIe list
and of `nvme_command_identify`, and the program that makes system calls.

## Not modelled

* `pcie_concat_split_data` and `pcie_read_config_space_header`: copies of bytes that no
  code calls. `_start` reads the boot disk's header by itself, which is `FindBootdisk`
  of `KernelBoot`.
* `memcpy` and `memset` (`string.c`): loops over bytes with nothing to tell apart.
* `enter_usr_mode` (`kernel.h`): called by nobody.
* The sizes of `bootloader.c:439` and `456`: bytes of segments and of the memory map.
  Both are hazards without a property in `PROJECT.json`.
* Glyph data: `font.c` is 1,900 lines of constants; only which characters have a
  glyph (`char_to_bitmap`) is in `Console`.
* Both copies of `elf.h`: third-party declarations, 8,988 lines.
* `ahci.h`, `fs/*`, `unistd.h`, `fcntl.h`, `stat.h`, `types.h`, `stdio.h`, `proc.h`, and most
  of `nvme.h` and `acpi.h`: structures and constants that no code uses.

`elf.h` and the glyphs alone are three quarters of the lines of the repository. Of the
some 1,800 lines of C and assembly with behaviour, the models stand for more than four
fifths; what is left are declarations, messages and the parts listed above.
