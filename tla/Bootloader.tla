------------------------------ MODULE Bootloader ----------------------------
(***************************************************************************)
(* The UEFI boot loader, boot/efi/bootloader.c: it finds the boot disk and *)
(* its ext2 partition, walks / and /boot to the kernel, loads the ELF      *)
(* segments, takes the memory map and the XSDT and starts the kernel.      *)
(*                                                                         *)
(* efi_main is a list of Steps, most of them one firmware call that may    *)
(* fail, in which case the loader prints a message and stays in while (1). *)
(* The loops are actions of their own.  A step names the buffers and the   *)
(* inode it reads through, because the loader keeps pointers into buffers  *)
(* that it frees or reads over later.  The firmware, the contents of the   *)
(* disk and of the ACPI tables are external: they are whatever they are    *)
(* when the step looks at them.                                            *)
(***************************************************************************)
EXTENDS Integers, Sequences, FiniteSets

CONSTANTS NModes,    \* MaxMode of the graphics output
          NDisks,    \* handles LocateHandleBuffer returns
          NParts,    \* part_entry_num
          GROUP,     \* inode_per_group
          PERBLOCK,  \* inodes in one block of the inode table
          DIRECT,    \* direct blocks of an inode (12)
          MaxBlocks, \* bound: blocks of the kernel file
          MaxDir,    \* bound: records of a directory
          Scans,     \* block_cnt * 512, after which a scan gives up
          NSegs,     \* program headers of the kernel
          CHK        \* checksums are sums modulo CHK (256)

ASSUME DiskAssumption == NModes \in Nat /\ NDisks \in Nat /\ NParts \in Nat
ASSUME InodeAssumption == GROUP \in Nat \ {0, 1} /\ PERBLOCK \in 2 .. GROUP
ASSUME BlockAssumption == DIRECT \in Nat \ {0} /\ MaxBlocks \in Nat
ASSUME ScanAssumption == MaxDir \in Nat /\ Scans \in Nat /\ MaxDir <= Scans
ASSUME OtherAssumption == NSegs \in Nat /\ CHK \in Nat \ {0}

Inodes  == 1 .. (2 * GROUP)
(* A directory record: its name is the one sought, or a longer one that    *)
(* begins with it, and its inode is 0 when the file was deleted; or it is  *)
(* another name, and the record is long enough for it (line 276), or not.  *)
Records == [name: {"sought", "longer"}, ok: {TRUE}, inode: Inodes \cup {0}]
             \cup [name: {"other"}, ok: BOOLEAN, inode: {1}]
DirSets == UNION {[1 .. n -> Records] : n \in 1 .. MaxDir}
Sums    == 0 .. (CHK - 1)
Acpi    == [present: BOOLEAN, sign: BOOLEAN, sum20: Sums, sum36: Sums, sumXsdt: Sums]

VARIABLES
  pc,         \* the next of Steps
  i,          \* the loop counter of the current step
  halt,       \* "no", "stuck" in a while (1), or "spin" in a scan
  pools,      \* the pool buffers that are allocated
  block_io,   \* the disk block_io refers to
  gpt_header, \* the disk whose header is in gpt_header
  bootdisk,   \* the disk bootdisk_addr was taken from
  superblock, \* the partition whose superblock is in primary_part
  part,       \* the partition taken
  inode_tbl,  \* whose inode is in inode_tbl: "none", "root", "boot", "kernel"
  inode,      \* the number of that inode; 0 for bytes that are no inode
  dir,        \* the records of the directory read last
  tmp,        \* the record a scan is at
  entry,      \* entry[d]: the inode of the record the scan of d took
  blocks,     \* the kernel file's block_cnt * 512 / block_size
  image,      \* the blocks read into kernel_file, in order
  elf,        \* the ELF header read is valid
  segs,       \* segments loaded
  mem_map,    \* what was allocated when the memory map was taken
  key, ver,   \* mem_map_key, and the version of the firmware's map
  acpi,       \* the ACPI tables found
  exited      \* ExitBootServices succeeded

found == <<block_io, gpt_header, bootdisk, superblock, part>>
tree  == <<inode_tbl, inode, dir, tmp, entry, blocks, image>>
load  == <<elf, segs, mem_map, key, acpi, exited>>
vars  == <<pc, i, halt, pools, ver, found, tree, load>>

-----------------------------------------------------------------------------
(* A step: what it does, to which buffer, the buffers it reads or writes   *)
(* and the inode it reads through a pointer into inode_tbl.                *)
S(op, buf, uses, ptr) == [op |-> op, buf |-> buf, uses |-> uses, ptr |-> ptr]
Alloc(buf, uses, ptr) == S("alloc", buf, uses, ptr)
Free(buf) == S("free", buf, {buf}, "none")

(* bootloader.c:34-72: LocateProtocol; QueryMode and, when the graphics    *)
(* output is not started, SetMode; then the modes up to 1920x1080.         *)
Graphics == << S("call", "none", {}, "none"), S("call", "none", {}, "none"), S("modes", "none", {}, "none") >>

(* bootloader.c:82-153 *)
FindDisk == << S("call", "none", {}, "none"), Alloc("gpt_header", {}, "none"),
               S("disks", "none", {"gpt_header"}, "none") >>

(* bootloader.c:155-208 *)
FindPartition ==
  << Alloc("part_tbl", {"gpt_header"}, "none"), Alloc("primary_part", {}, "none"),
     S("call", "part_tbl", {"part_tbl"}, "none"),
     S("parts", "none", {"part_tbl", "primary_part"}, "none"),
     Free("part_tbl"), Free("gpt_header") >>

(* bootloader.c:210-263 *)
ReadRoot ==
  << Alloc("group_desc_tbl", {"primary_part"}, "none"), Alloc("inode_tbl", {}, "none"),
     S("call", "group_desc_tbl", {"group_desc_tbl"}, "none"),
     S("inode", "root", {"inode_tbl", "group_desc_tbl"}, "none"),
     S("call", "none", {"inode_tbl"}, "root"),
     Alloc("root_dir", {"inode_tbl"}, "root"),
     S("dir", "root_dir", {"inode_tbl", "root_dir"}, "root") >>

ReadBootInodeFirst ==
  << S("inode", "boot", {"inode_tbl", "group_desc_tbl", "root_dir"}, "none"),
     S("scan", "root_dir", {"root_dir", "inode_tbl"}, "root"),
     Alloc("boot_dir", {"inode_tbl", "root_dir"}, "boot"),
     S("dir", "boot_dir", {"inode_tbl", "boot_dir"}, "boot") >>

(* bootloader.c:265-308 *)
ReadBoot ==
  << S("scan", "root_dir", {"root_dir", "inode_tbl"}, "root"),
     S("inode", "boot", {"inode_tbl", "group_desc_tbl", "root_dir"}, "none"),
     Alloc("boot_dir", {"inode_tbl", "root_dir"}, "boot"),
     S("dir", "boot_dir", {"inode_tbl", "boot_dir"}, "boot") >>

(* bootloader.c:310-353 *)
ReadKernel ==
  << S("scan", "boot_dir", {"boot_dir", "inode_tbl"}, "boot"),
     S("inode", "kernel", {"inode_tbl", "group_desc_tbl", "boot_dir"}, "none"),
     Alloc("kernel_file", {"inode_tbl", "boot_dir"}, "kernel"),
     S("blocks", "kernel_file", {"inode_tbl", "kernel_file"}, "kernel") >>

(* bootloader.c:355-383 *)
Release == << Free("group_desc_tbl"), Free("primary_part"), Free("inode_tbl"),
              Free("root_dir"), Free("boot_dir") >>

(* bootloader.c:390-445 *)
LoadElf == << S("elf", "none", {"kernel_file"}, "none"), Alloc("phdr_buffer", {"kernel_file"}, "none"),
              S("segments", "none", {"phdr_buffer", "kernel_file"}, "none") >>

(* bootloader.c:449-463 *)
GetMap == << S("allocmap", "mem_map", {}, "none"), S("map", "mem_map", {}, "none") >>

(* bootloader.c:467-534 *)
Start == << S("xsdt", "none", {}, "none"), S("exit", "none", {"mem_map"}, "none") >>

StepsMapEarly ==
  Graphics \o FindDisk \o FindPartition \o ReadRoot \o ReadBoot \o ReadKernel \o Release
    \o GetMap \o LoadElf \o Start

StepsReleaseEarly ==
  Graphics \o FindDisk \o FindPartition \o ReadRoot \o ReadBoot \o Release \o ReadKernel
    \o LoadElf \o GetMap \o Start

(* efi_main, bootloader.c:28-538. *)
Steps ==
  Graphics \o FindDisk \o FindPartition \o ReadRoot \o ReadBoot \o ReadKernel \o Release
    \o LoadElf \o GetMap \o Start

Running == halt = "no" /\ pc <= Len(Steps)
At(op)  == Running /\ Steps[pc].op = op
Started == pc > Len(Steps)

(* Go on with the next step; or print a message and stay in while (1). *)
GoOn  == pc' = pc + 1 /\ i' = 0 /\ UNCHANGED halt
Stuck == halt' = "stuck" /\ UNCHANGED <<pc, i>>
-----------------------------------------------------------------------------
Init ==
  /\ pc = 1 /\ i = 0 /\ halt = "no"
  /\ pools = {} /\ ver = 0
  /\ block_io = 0 /\ gpt_header = 0 /\ bootdisk = 0 /\ superblock = 0 /\ part = 0
  /\ inode_tbl = "none" /\ inode = 0 /\ tmp = 1 /\ blocks = 0 /\ image = <<>>
  /\ dir = <<>>
  /\ entry = [root_dir |-> 0, boot_dir |-> 0]
  /\ elf = FALSE /\ segs = 0 /\ mem_map = {} /\ key = 0 /\ exited = FALSE
  /\ acpi = [present |-> FALSE, sign |-> FALSE, sum20 |-> 0, sum36 |-> 0, sumXsdt |-> 0]

(* A call whose error is checked and that changes nothing the model keeps. *)
Call ==
  /\ At("call")
  /\ GoOn \/ Stuck
  /\ UNCHANGED <<pools, ver, found, tree, load>>

(* AllocatePool, its error checked. *)
AllocatePool ==
  /\ At("alloc")
  /\ \/ /\ GoOn
        /\ pools' = pools \cup {Steps[pc].buf} /\ ver' = ver + 1
     \/ Stuck /\ UNCHANGED <<pools, ver>>
  /\ UNCHANGED <<found, tree, load>>

(* FreePool; the records of a freed directory are gone. *)
FreePool ==
  /\ At("free")
  /\ \/ /\ GoOn
        /\ pools' = pools \ {Steps[pc].buf} /\ ver' = ver + 1
        /\ dir' = IF Steps[pc].buf = "boot_dir" THEN <<>> ELSE dir
     \/ Stuck /\ UNCHANGED <<pools, ver, dir>>
  /\ UNCHANGED <<found, inode_tbl, inode, tmp, entry, blocks, image, load>>

(* bootloader.c:57-71: one mode; a query that fails, or a SetMode of the   *)
(* mode sought that fails, is fatal.                                       *)
Modes ==
  /\ At("modes")
  /\ IF i = NModes THEN GoOn
     ELSE \/ Stuck
          \/ GoOn
          \/ i' = i + 1 /\ UNCHANGED <<pc, halt>>
  /\ UNCHANGED <<pools, ver, found, tree, load>>

FindDiskNoBreak ==
  /\ At("disks")
  /\ IF i = NDisks
     THEN (IF bootdisk # 0 THEN GoOn ELSE Stuck) /\ UNCHANGED <<block_io, gpt_header, bootdisk>>
     ELSE /\ i' = i + 1 /\ UNCHANGED <<pc, halt>>
          /\ block_io' = i + 1 /\ gpt_header' = i + 1
          /\ bootdisk' \in {bootdisk, i + 1}
  /\ UNCHANGED <<pools, ver, superblock, part, tree, load>>

(* bootloader.c:100-153: the next handle is no block device; or it is, but *)
(* is a partition or unreadable; or its block has no GPT, and the loop     *)
(* continues; or it is the disk, of which the PCI address is then taken,   *)
(* four calls that must succeed.                                           *)
FindDiskStep ==
  /\ At("disks")
  /\ LET d == i + 1
         continue == i' = i + 1 /\ UNCHANGED <<pc, halt, bootdisk>>
     IN  \/ i = NDisks /\ Stuck /\ UNCHANGED <<block_io, gpt_header, bootdisk>>
         \/ i < NDisks /\ continue /\ UNCHANGED <<block_io, gpt_header>>
         \/ i < NDisks /\ continue /\ block_io' = d /\ UNCHANGED gpt_header
         \/ i < NDisks /\ continue /\ block_io' = d /\ gpt_header' = d
         \/ /\ i < NDisks /\ block_io' = d /\ gpt_header' = d
            /\ (GoOn /\ bootdisk' = d) \/ (Stuck /\ UNCHANGED bootdisk)
  /\ UNCHANGED <<pools, ver, superblock, part, tree, load>>

(* bootloader.c:181-196: the superblock of the next partition cannot be    *)
(* read, or is not ext2, or is.                                            *)
FindPartitionStep ==
  /\ At("parts")
  /\ LET p == i + 1
         continue == i' = i + 1 /\ UNCHANGED <<pc, halt, part>>
     IN  \/ i = NParts /\ Stuck /\ UNCHANGED <<superblock, part>>
         \/ i < NParts /\ continue /\ UNCHANGED superblock
         \/ i < NParts /\ continue /\ superblock' = p
         \/ i < NParts /\ GoOn /\ superblock' = p /\ part' = p
  /\ UNCHANGED <<pools, ver, block_io, gpt_header, bootdisk, tree, load>>

InodeAtNoMinus(n) ==
  IF n % GROUP < PERBLOCK THEN (n \div GROUP) * GROUP + (n % GROUP) + 1 ELSE 0

(* bootloader.c:287-293 and 332-338: of the inode table of a group only    *)
(* the first block is read, and the inode taken from it by its place.      *)
InodeAt(n) ==
  LET group == n \div GROUP
      place == (n % GROUP) - 1
  IN  IF place \in 0 .. (PERBLOCK - 1) THEN group * GROUP + place + 1 ELSE 0

(* bootloader.c:235-241, 287-293 and 332-338.  The root is the second      *)
(* inode of the first group.                                               *)
ReadInode ==
  /\ At("inode")
  /\ \/ /\ GoOn
        /\ inode_tbl' = Steps[pc].buf
        /\ inode' = CASE Steps[pc].buf = "root"   -> 2
                      [] Steps[pc].buf = "boot"   -> InodeAt(entry.root_dir)
                      [] Steps[pc].buf = "kernel" -> InodeAt(entry.boot_dir)
        /\ IF Steps[pc].buf = "kernel" THEN blocks' \in 0 .. MaxBlocks ELSE UNCHANGED blocks
     \/ Stuck /\ UNCHANGED <<inode_tbl, inode, blocks>>
  /\ UNCHANGED <<pools, ver, found, dir, tmp, entry, image, load>>

(* bootloader.c:257-263 and 302-308: the blocks of a directory are read. *)
ReadDir ==
  /\ At("dir")
  /\ \/ GoOn /\ dir' \in DirSets
     \/ Stuck /\ UNCHANGED dir
  /\ tmp' = 1
  /\ UNCHANGED <<pools, ver, found, inode_tbl, inode, entry, blocks, image, load>>

(* strncmpa compares 4 and 6 bytes (bootloader.c:270, 315), and name_len   *)
(* is not looked at: a longer name that begins with the one sought will do.*)
Begins(rec) == rec.name \in {"sought", "longer"}

ScanNoAdvance ==
  /\ At("scan")
  /\ LET d == Steps[pc].buf IN
       \E rec \in IF tmp <= Len(dir) THEN {dir[tmp]} ELSE Records :
         \/ Begins(rec) /\ GoOn /\ entry' = [entry EXCEPT ![d] = rec.inode] /\ tmp' = 1
         \/ /\ ~ Begins(rec)
            /\ IF i > Scans THEN Stuck ELSE i' = i + 1 /\ UNCHANGED <<pc, halt>>
            /\ UNCHANGED <<entry, tmp>>
  /\ UNCHANGED <<pools, ver, found, inode_tbl, inode, dir, blocks, image, load>>

(* bootloader.c:265-285 and 310-330: one record.  The first whose name     *)
(* begins with the one sought is taken, whatever follows there and whether *)
(* or not the file was deleted.  A record too short for its name is looked *)
(* at again, forever: continue skips both the advance and the    *)
(* test of i.  Past the directory's end the record is whatever the memory  *)
(* after the buffer holds.                                                 *)
Scan ==
  /\ At("scan")
  /\ LET d == Steps[pc].buf IN
       \E rec \in IF tmp <= Len(dir) THEN {dir[tmp]} ELSE Records :
         \/ Begins(rec) /\ GoOn /\ entry' = [entry EXCEPT ![d] = rec.inode] /\ tmp' = 1
         \/ /\ ~ Begins(rec) /\ ~ rec.ok
            /\ halt' = "spin" /\ UNCHANGED <<pc, i, entry, tmp>>
         \/ /\ ~ Begins(rec) /\ rec.ok /\ i > Scans
            /\ Stuck /\ UNCHANGED <<entry, tmp>>
         \/ /\ ~ Begins(rec) /\ rec.ok /\ i <= Scans
            /\ i' = i + 1 /\ tmp' = tmp + 1 /\ UNCHANGED <<pc, halt, entry>>
  /\ UNCHANGED <<pools, ver, found, inode_tbl, inode, dir, blocks, image, load>>

(* bootloader.c:347-353: block[i] of the inode is read.  From DIRECT on    *)
(* block[i] is no block of the file but one of block numbers, -1 here.     *)
ReadBlocks ==
  /\ At("blocks")
  /\ \/ i = blocks /\ GoOn /\ UNCHANGED image
     \/ i < blocks /\ Stuck /\ UNCHANGED image
     \/ /\ i < blocks /\ i' = i + 1 /\ UNCHANGED <<pc, halt>>
        /\ image' = Append(image, <<inode, IF i < DIRECT THEN i ELSE -1>>)
  /\ UNCHANGED <<pools, ver, found, inode_tbl, inode, dir, tmp, entry, blocks, load>>

(* bootloader.c:392-409: an invalid header makes Status !EFI_SUCCESS,      *)
(* which is 1; EFI_ERROR is true of values with the top bit set.           *)
EFI_ERROR(status) == status = "top bit set"
ElfHeader ==
  /\ At("elf")
  /\ \E valid \in BOOLEAN :
       LET Status == IF valid THEN "0" ELSE "1" IN
         /\ elf' = valid
         /\ IF EFI_ERROR(Status) THEN Stuck ELSE GoOn
  /\ UNCHANGED <<pools, ver, found, tree, segs, mem_map, key, acpi, exited>>

(* bootloader.c:422-442: a header that is no PT_LOAD is passed over; the   *)
(* pages of a segment are allocated at its address and its bytes copied.   *)
Segments ==
  /\ At("segments")
  /\ \/ i = NSegs /\ GoOn /\ UNCHANGED <<segs, ver>>
     \/ i < NSegs /\ Stuck /\ UNCHANGED <<segs, ver>>
     \/ i < NSegs /\ i' = i + 1 /\ UNCHANGED <<pc, halt, segs, ver>>
     \/ i < NSegs /\ i' = i + 1 /\ segs' = segs + 1 /\ ver' = ver + 1 /\ UNCHANGED <<pc, halt>>
  /\ UNCHANGED <<pools, found, tree, elf, mem_map, key, acpi, exited>>

(* bootloader.c:453-454: neither the size query nor the allocation is      *)
(* checked; mem_map stays NULL when it fails.                              *)
AllocMap ==
  /\ At("allocmap") /\ GoOn
  /\ \/ pools' = pools \cup {"mem_map"} /\ ver' = ver + 1
     \/ UNCHANGED <<pools, ver>>
  /\ UNCHANGED <<found, tree, load>>

(* What the firmware's map describes as in use by the loader. *)
InUse == [pools |-> pools, segs |-> segs]

(* bootloader.c:456-462 *)
GetMemoryMap ==
  /\ At("map")
  /\ \/ "mem_map" \in pools /\ GoOn /\ mem_map' = {InUse} /\ key' = ver
     \/ Stuck /\ UNCHANGED <<mem_map, key>>
  /\ UNCHANGED <<pools, ver, found, tree, elf, segs, acpi, exited>>

SumsOnlyLast(a) == a.sign /\ (a.sum20 + a.sum36 + a.sumXsdt) % CHK = 0

(* bootloader.c:476-506: ret runs on from one sum to the next. *)
XsdtChecks(a) ==
  LET ret1 == a.sum20
      ret2 == (ret1 + a.sum36) % CHK
      ret3 == (ret2 + a.sumXsdt) % CHK
  IN  a.sign /\ ret1 = 0 /\ ret2 = 0 /\ ret3 = 0

(* bootloader.c:467-507.  Without an ACPI 2.0 table xsdp is uninitialised  *)
(* and the checks read whatever it points to.                              *)
Xsdt ==
  /\ At("xsdt")
  /\ \E a \in Acpi :
       /\ acpi' = a
       /\ \/ (a.present => XsdtChecks(a)) /\ GoOn
          \/ (a.present => ~ XsdtChecks(a)) /\ Stuck
  /\ UNCHANGED <<pools, ver, found, tree, elf, segs, mem_map, key, exited>>

(* bootloader.c:510-534: the console's ClearScreen may allocate; the       *)
(* firmware refuses a stale key; the kernel is started all the same.       *)
Exit ==
  /\ At("exit")
  /\ ver' \in {ver, ver + 1}
  /\ exited' = (key = ver')
  /\ GoOn
  /\ UNCHANGED <<pools, found, tree, elf, segs, mem_map, key, acpi>>

(* The kernel has taken over, or the loader stays where it is. *)
Halted == (Started \/ halt # "no") /\ UNCHANGED vars

Loader ==
  \/ Call \/ AllocatePool \/ FreePool \/ Modes \/ FindDiskStep \/ FindPartitionStep
  \/ ReadInode \/ ReadDir \/ Scan \/ ReadBlocks \/ ElfHeader \/ Segments
  \/ AllocMap \/ GetMemoryMap \/ Xsdt \/ Exit

Next == Loader \/ Halted

(* Nothing but the loader runs, and every firmware call returns. *)
Spec == Init /\ [][Next]_vars /\ WF_vars(Loader)

-----------------------------------------------------------------------------
(* Every variable has its type; in particular efi_main's loops stay within *)
(* their tables.                                                           *)
TypeOK ==
  /\ pc \in 1 .. (Len(Steps) + 1) /\ i \in Nat
  /\ halt \in {"no", "stuck", "spin"}
  /\ block_io \in 0 .. NDisks /\ gpt_header \in 0 .. NDisks /\ bootdisk \in 0 .. NDisks
  /\ superblock \in 0 .. NParts /\ part \in 0 .. NParts
  /\ inode_tbl \in {"none", "root", "boot", "kernel"} /\ inode \in 0 .. (2 * GROUP)
  /\ dir \in DirSets \cup {<<>>} /\ tmp \in Nat
  /\ \A d \in DOMAIN entry : entry[d] \in Inodes \cup {0}
  /\ Len(image) <= blocks /\ blocks <= MaxBlocks
  /\ segs \in 0 .. NSegs /\ acpi \in Acpi

(* No step reads or writes a buffer before it is allocated or after it was *)
(* freed: boot_dir_entry and kernel_entry point into root_dir and boot_dir *)
(* until lines 293 and 338, the descriptors are needed until line 332.     *)
(* Every variable has its type.                                            *)
BuffersLive ==
  /\ TypeOK
  /\ Running => Steps[pc].uses \subseteq pools

(* Every inode is read while inode_tbl still holds its block: the same     *)
(* buffer is read over for /boot and again for the kernel, and             *)
(* root_dir_inode and boot_dir_inode still point into it (lines 278, 323). *)
InodeFresh == Running /\ Steps[pc].ptr # "none" => inode_tbl = Steps[pc].ptr

(* Everything after the search comes from one disk and one partition: the  *)
(* disk read from, the header that named the partition table and the PCI   *)
(* address given to the kernel (lines 101-147, 157-190), whatever other    *)
(* handles the loop met before.                                            *)
OneDisk ==
  /\ bootdisk # 0 => block_io = bootdisk /\ gpt_header = bootdisk
  /\ part # 0 => superblock = part

(* A scan gets to a record whose name begins with the one sought: the      *)
(* records before it are long enough for their names.                      *)
HasName == \E j \in 1 .. Len(dir) : Begins(dir[j]) /\ \A k \in 1 .. (j - 1) : dir[k].ok
(* Record j is the file named kernel: it has that name and an inode, and   *)
(* no record before it has a name that begins so, not even a deleted one,  *)
(* or is too short.                                                        *)
KernelRecord(j) ==
  /\ dir[j].name = "sought" /\ dir[j].inode # 0
  /\ \A k \in 1 .. (j - 1) : dir[k].name = "other" /\ dir[k].ok
(* The inode's place is in the first block of its group's table, and it is *)
(* not the last of its group.                                              *)
InFirstBlock(n) == (n - 1) % GROUP < PERBLOCK /\ n % GROUP # 0

(* kernel_file holds the blocks of the file named kernel in /boot, in      *)
(* order, and of no other, when no name that begins with it is in front of *)
(* it there, its inode is in the first block of its group's table and not  *)
(* the group's last, and the file has direct blocks only (lines 310-353).  *)
ImageExact ==
  (Running /\ Steps[pc].op = "free" /\ Steps[pc].buf = "group_desc_tbl" /\ blocks <= DIRECT)
  => \A j \in 1 .. Len(dir) :
       KernelRecord(j) /\ InFirstBlock(dir[j].inode) =>
         image = [b \in 1 .. blocks |-> <<dir[j].inode, b - 1>>]

(* The memory map the kernel gets describes everything the loader still    *)
(* uses, its own buffer included, and its key is the current one unless    *)
(* the console allocated: kernel.c:63 hands out what the map calls free.   *)
HandOver ==
  Started => /\ mem_map = {InUse}
             /\ exited <=> key = ver
             /\ ver \in {key, key + 1}

(* The kernel is given an XSDT only if all signatures and all three sums   *)
(* were right, though one counter runs through all of them (481-506).      *)
XsdtSound ==
  Started /\ acpi.present => acpi.sign /\ acpi.sum20 = 0 /\ acpi.sum36 = 0 /\ acpi.sumXsdt = 0

(* A scan of a directory with a record whose name begins with the one      *)
(* sought, and no malformed record before it, comes to its end and goes on *)
(* to read that record's inode (lines 269-284, 314-329).                   *)
ScanFinds == (At("scan") /\ HasName) ~> At("inode")

(* bootloader.c:407 calls it "Invalid ELF header." and stays in while (1): *)
(* a kernel is started only from a valid header.                           *)
ElfChecked == Started => elf
=============================================================================
