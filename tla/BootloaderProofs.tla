--------------------------- MODULE BootloaderProofs --------------------------
(***************************************************************************)
(* Proofs about Bootloader, for every number of disks, partitions and      *)
(* segments and every inode-table geometry: no step uses a buffer that is  *)
(* not allocated or an inode that was read over, the disk, the kernel      *)
(* image, the memory map and the XSDT are the right ones.                  *)
(***************************************************************************)
EXTENDS Bootloader, TLAPS

-----------------------------------------------------------------------------
(* The buffers and the operations of Steps. *)
Buffers ==
  {"none", "root", "boot", "kernel", "gpt_header", "part_tbl", "primary_part", "group_desc_tbl",
   "inode_tbl", "root_dir", "boot_dir", "kernel_file", "phdr_buffer", "mem_map"}
Ops ==
  {"call", "alloc", "free", "modes", "disks", "parts", "inode", "dir", "scan", "blocks", "elf",
   "segments", "allocmap", "map", "xsdt", "exit"}
StepRecords == [op: Ops, buf: Buffers, uses: SUBSET Buffers, ptr: {"none", "root", "boot", "kernel"}]

(* c is the n elements of a followed by the m of b. *)
Joins(c, a, n, b, m) ==
  /\ c \in Seq(StepRecords) /\ Len(c) = n + m
  /\ \A k \in 1 .. n : c[k] = a[k]
  /\ \A k \in 1 .. m : c[n + k] = b[k]

(* What \o does, with the lengths at hand. *)
LEMMA Concat ==
  ASSUME NEW s \in Seq(StepRecords), NEW t \in Seq(StepRecords),
         NEW n \in Nat, n = Len(s), NEW m \in Nat, m = Len(t)
  PROVE  Joins(s \o t, s, n, t, m)
  BY DEF Joins

(* The parts of efi_main and how many steps each has. *)
LEMMA PartLengths ==
  /\ Graphics \in Seq(StepRecords) /\ Len(Graphics) = 3
  /\ FindDisk \in Seq(StepRecords) /\ Len(FindDisk) = 3
  /\ FindPartition \in Seq(StepRecords) /\ Len(FindPartition) = 6
  /\ ReadRoot \in Seq(StepRecords) /\ Len(ReadRoot) = 7
  /\ ReadBoot \in Seq(StepRecords) /\ Len(ReadBoot) = 4
  /\ ReadKernel \in Seq(StepRecords) /\ Len(ReadKernel) = 4
  /\ Release \in Seq(StepRecords) /\ Len(Release) = 5
  /\ LoadElf \in Seq(StepRecords) /\ Len(LoadElf) = 3
  /\ GetMap \in Seq(StepRecords) /\ Len(GetMap) = 2
  /\ Start \in Seq(StepRecords) /\ Len(Start) = 2
<1>1. Graphics \in Seq(StepRecords) /\ Len(Graphics) = 3
  BY DEF Graphics, StepRecords, Ops, Buffers, S
<1>2. FindDisk \in Seq(StepRecords) /\ Len(FindDisk) = 3
  BY DEF FindDisk, StepRecords, Ops, Buffers, S, Alloc
<1>3. FindPartition \in Seq(StepRecords) /\ Len(FindPartition) = 6
  BY DEF FindPartition, StepRecords, Ops, Buffers, S, Alloc, Free
<1>4. ReadRoot \in Seq(StepRecords) /\ Len(ReadRoot) = 7
  BY DEF ReadRoot, StepRecords, Ops, Buffers, S, Alloc
<1>5. ReadBoot \in Seq(StepRecords) /\ Len(ReadBoot) = 4
  BY DEF ReadBoot, StepRecords, Ops, Buffers, S, Alloc
<1>6. ReadKernel \in Seq(StepRecords) /\ Len(ReadKernel) = 4
  BY DEF ReadKernel, StepRecords, Ops, Buffers, S, Alloc
<1>7. Release \in Seq(StepRecords) /\ Len(Release) = 5
  BY DEF Release, StepRecords, Ops, Buffers, S, Free
<1>8. LoadElf \in Seq(StepRecords) /\ Len(LoadElf) = 3
  BY DEF LoadElf, StepRecords, Ops, Buffers, S, Alloc
<1>9. GetMap \in Seq(StepRecords) /\ Len(GetMap) = 2
  BY DEF GetMap, StepRecords, Ops, Buffers, S
<1>10. Start \in Seq(StepRecords) /\ Len(Start) = 2
  BY DEF Start, StepRecords, Ops, Buffers, S
<1> QED
  BY <1>1, <1>2, <1>3, <1>4, <1>5, <1>6, <1>7, <1>8, <1>9, <1>10

(* Where each part is among the steps of efi_main (bootloader.c:28-538). *)
LEMMA Places ==
  /\ Len(Steps) = 39 /\ Steps \in Seq(StepRecords)
  /\ \A k \in 1 .. 3 : Steps[k] = Graphics[k]
  /\ \A k \in 1 .. 3 : Steps[3 + k] = FindDisk[k]
  /\ \A k \in 1 .. 6 : Steps[6 + k] = FindPartition[k]
  /\ \A k \in 1 .. 7 : Steps[12 + k] = ReadRoot[k]
  /\ \A k \in 1 .. 4 : Steps[19 + k] = ReadBoot[k]
  /\ \A k \in 1 .. 4 : Steps[23 + k] = ReadKernel[k]
  /\ \A k \in 1 .. 5 : Steps[27 + k] = Release[k]
  /\ \A k \in 1 .. 3 : Steps[32 + k] = LoadElf[k]
  /\ \A k \in 1 .. 2 : Steps[35 + k] = GetMap[k]
  /\ \A k \in 1 .. 2 : Steps[37 + k] = Start[k]
<1> DEFINE s2 == Graphics \o FindDisk
           s3 == s2 \o FindPartition
           s4 == s3 \o ReadRoot
           s5 == s4 \o ReadBoot
           s6 == s5 \o ReadKernel
           s7 == s6 \o Release
           s8 == s7 \o LoadElf
           s9 == s8 \o GetMap
           s10 == s9 \o Start
<1>0. Steps = s10 
  BY DEF Steps
<1> HIDE DEF s2, s3, s4, s5, s6, s7, s8, s9, s10
<1>2. Joins(s2, Graphics, 3, FindDisk, 3) /\ s2 \in Seq(StepRecords) /\ Len(s2) = 6
  <2>1. Joins(s2, Graphics, 3, FindDisk, 3)
    BY PartLengths, Concat DEF s2
  <2> QED
    BY <2>1 DEF Joins
<1>3. Joins(s3, s2, 6, FindPartition, 6) /\ s3 \in Seq(StepRecords) /\ Len(s3) = 12
  <2>1. Joins(s3, s2, 6, FindPartition, 6)
    BY <1>2, PartLengths, Concat DEF s3
  <2> QED
    BY <2>1 DEF Joins
<1>4. Joins(s4, s3, 12, ReadRoot, 7) /\ s4 \in Seq(StepRecords) /\ Len(s4) = 19
  <2>1. Joins(s4, s3, 12, ReadRoot, 7)
    BY <1>3, PartLengths, Concat DEF s4
  <2> QED
    BY <2>1 DEF Joins
<1>5. Joins(s5, s4, 19, ReadBoot, 4) /\ s5 \in Seq(StepRecords) /\ Len(s5) = 23
  <2>1. Joins(s5, s4, 19, ReadBoot, 4)
    BY <1>4, PartLengths, Concat DEF s5
  <2> QED
    BY <2>1 DEF Joins
<1>6. Joins(s6, s5, 23, ReadKernel, 4) /\ s6 \in Seq(StepRecords) /\ Len(s6) = 27
  <2>1. Joins(s6, s5, 23, ReadKernel, 4)
    BY <1>5, PartLengths, Concat DEF s6
  <2> QED
    BY <2>1 DEF Joins
<1>7. Joins(s7, s6, 27, Release, 5) /\ s7 \in Seq(StepRecords) /\ Len(s7) = 32
  <2>1. Joins(s7, s6, 27, Release, 5)
    BY <1>6, PartLengths, Concat DEF s7
  <2> QED
    BY <2>1 DEF Joins
<1>8. Joins(s8, s7, 32, LoadElf, 3) /\ s8 \in Seq(StepRecords) /\ Len(s8) = 35
  <2>1. Joins(s8, s7, 32, LoadElf, 3)
    BY <1>7, PartLengths, Concat DEF s8
  <2> QED
    BY <2>1 DEF Joins
<1>9. Joins(s9, s8, 35, GetMap, 2) /\ s9 \in Seq(StepRecords) /\ Len(s9) = 37
  <2>1. Joins(s9, s8, 35, GetMap, 2)
    BY <1>8, PartLengths, Concat DEF s9
  <2> QED
    BY <2>1 DEF Joins
<1>10. Joins(s10, s9, 37, Start, 2) /\ s10 \in Seq(StepRecords) /\ Len(s10) = 39
  <2>1. Joins(s10, s9, 37, Start, 2)
    BY <1>9, PartLengths, Concat DEF s10
  <2> QED
    BY <2>1 DEF Joins
<1> QED
  BY <1>0, <1>2, <1>3, <1>4, <1>5, <1>6, <1>7, <1>8, <1>9, <1>10 DEF Joins

(* Every step of efi_main, by its number. *)
LEMMA StepTable ==
  /\ Steps[1] = S("call", "none", {}, "none")
  /\ Steps[2] = S("call", "none", {}, "none")
  /\ Steps[3] = S("modes", "none", {}, "none")
  /\ Steps[4] = S("call", "none", {}, "none")
  /\ Steps[5] = S("alloc", "gpt_header", {}, "none")
  /\ Steps[6] = S("disks", "none", {"gpt_header"}, "none")
  /\ Steps[7] = S("alloc", "part_tbl", {"gpt_header"}, "none")
  /\ Steps[8] = S("alloc", "primary_part", {}, "none")
  /\ Steps[9] = S("call", "part_tbl", {"part_tbl"}, "none")
  /\ Steps[10] = S("parts", "none", {"part_tbl", "primary_part"}, "none")
  /\ Steps[11] = S("free", "part_tbl", {"part_tbl"}, "none")
  /\ Steps[12] = S("free", "gpt_header", {"gpt_header"}, "none")
  /\ Steps[13] = S("alloc", "group_desc_tbl", {"primary_part"}, "none")
  /\ Steps[14] = S("alloc", "inode_tbl", {}, "none")
  /\ Steps[15] = S("call", "group_desc_tbl", {"group_desc_tbl"}, "none")
  /\ Steps[16] = S("inode", "root", {"inode_tbl", "group_desc_tbl"}, "none")
  /\ Steps[17] = S("call", "none", {"inode_tbl"}, "root")
  /\ Steps[18] = S("alloc", "root_dir", {"inode_tbl"}, "root")
  /\ Steps[19] = S("dir", "root_dir", {"inode_tbl", "root_dir"}, "root")
  /\ Steps[20] = S("scan", "root_dir", {"root_dir", "inode_tbl"}, "root")
  /\ Steps[21] = S("inode", "boot", {"inode_tbl", "group_desc_tbl", "root_dir"}, "none")
  /\ Steps[22] = S("alloc", "boot_dir", {"inode_tbl", "root_dir"}, "boot")
  /\ Steps[23] = S("dir", "boot_dir", {"inode_tbl", "boot_dir"}, "boot")
  /\ Steps[24] = S("scan", "boot_dir", {"boot_dir", "inode_tbl"}, "boot")
  /\ Steps[25] = S("inode", "kernel", {"inode_tbl", "group_desc_tbl", "boot_dir"}, "none")
  /\ Steps[26] = S("alloc", "kernel_file", {"inode_tbl", "boot_dir"}, "kernel")
  /\ Steps[27] = S("blocks", "kernel_file", {"inode_tbl", "kernel_file"}, "kernel")
  /\ Steps[28] = S("free", "group_desc_tbl", {"group_desc_tbl"}, "none")
  /\ Steps[29] = S("free", "primary_part", {"primary_part"}, "none")
  /\ Steps[30] = S("free", "inode_tbl", {"inode_tbl"}, "none")
  /\ Steps[31] = S("free", "root_dir", {"root_dir"}, "none")
  /\ Steps[32] = S("free", "boot_dir", {"boot_dir"}, "none")
  /\ Steps[33] = S("elf", "none", {"kernel_file"}, "none")
  /\ Steps[34] = S("alloc", "phdr_buffer", {"kernel_file"}, "none")
  /\ Steps[35] = S("segments", "none", {"phdr_buffer", "kernel_file"}, "none")
  /\ Steps[36] = S("allocmap", "mem_map", {}, "none")
  /\ Steps[37] = S("map", "mem_map", {}, "none")
  /\ Steps[38] = S("xsdt", "none", {}, "none")
  /\ Steps[39] = S("exit", "none", {"mem_map"}, "none")
<1>1. /\ Steps[1] = S("call", "none", {}, "none")
      /\ Steps[2] = S("call", "none", {}, "none")
      /\ Steps[3] = S("modes", "none", {}, "none")
  <2>1. /\ Steps[1] = Graphics[1]
        /\ Steps[2] = Graphics[2]
        /\ Steps[3] = Graphics[3]
    BY Places
  <2> QED
    BY <2>1 DEF Graphics, Alloc, Free
<1>2. /\ Steps[4] = S("call", "none", {}, "none")
      /\ Steps[5] = S("alloc", "gpt_header", {}, "none")
      /\ Steps[6] = S("disks", "none", {"gpt_header"}, "none")
  <2>1. /\ Steps[4] = FindDisk[1]
        /\ Steps[5] = FindDisk[2]
        /\ Steps[6] = FindDisk[3]
    <3>1. \A k \in 1 .. 3 : Steps[3 + k] = FindDisk[k]
      BY Places
    <3> QED
      BY <3>1
  <2> QED
    BY <2>1 DEF FindDisk, Alloc, Free
<1>3. /\ Steps[7] = S("alloc", "part_tbl", {"gpt_header"}, "none")
      /\ Steps[8] = S("alloc", "primary_part", {}, "none")
      /\ Steps[9] = S("call", "part_tbl", {"part_tbl"}, "none")
      /\ Steps[10] = S("parts", "none", {"part_tbl", "primary_part"}, "none")
      /\ Steps[11] = S("free", "part_tbl", {"part_tbl"}, "none")
      /\ Steps[12] = S("free", "gpt_header", {"gpt_header"}, "none")
  <2>1. /\ Steps[7] = FindPartition[1]
        /\ Steps[8] = FindPartition[2]
        /\ Steps[9] = FindPartition[3]
        /\ Steps[10] = FindPartition[4]
        /\ Steps[11] = FindPartition[5]
        /\ Steps[12] = FindPartition[6]
    <3>1. \A k \in 1 .. 6 : Steps[6 + k] = FindPartition[k]
      BY Places
    <3> QED
      BY <3>1
  <2> QED
    BY <2>1 DEF FindPartition, Alloc, Free
<1>4. /\ Steps[13] = S("alloc", "group_desc_tbl", {"primary_part"}, "none")
      /\ Steps[14] = S("alloc", "inode_tbl", {}, "none")
      /\ Steps[15] = S("call", "group_desc_tbl", {"group_desc_tbl"}, "none")
      /\ Steps[16] = S("inode", "root", {"inode_tbl", "group_desc_tbl"}, "none")
      /\ Steps[17] = S("call", "none", {"inode_tbl"}, "root")
      /\ Steps[18] = S("alloc", "root_dir", {"inode_tbl"}, "root")
      /\ Steps[19] = S("dir", "root_dir", {"inode_tbl", "root_dir"}, "root")
  <2>1. /\ Steps[13] = ReadRoot[1]
        /\ Steps[14] = ReadRoot[2]
        /\ Steps[15] = ReadRoot[3]
        /\ Steps[16] = ReadRoot[4]
        /\ Steps[17] = ReadRoot[5]
        /\ Steps[18] = ReadRoot[6]
        /\ Steps[19] = ReadRoot[7]
    <3>1. \A k \in 1 .. 7 : Steps[12 + k] = ReadRoot[k]
      BY Places
    <3> QED
      BY <3>1
  <2> QED
    BY <2>1 DEF ReadRoot, Alloc, Free
<1>5. /\ Steps[20] = S("scan", "root_dir", {"root_dir", "inode_tbl"}, "root")
      /\ Steps[21] = S("inode", "boot", {"inode_tbl", "group_desc_tbl", "root_dir"}, "none")
      /\ Steps[22] = S("alloc", "boot_dir", {"inode_tbl", "root_dir"}, "boot")
      /\ Steps[23] = S("dir", "boot_dir", {"inode_tbl", "boot_dir"}, "boot")
  <2>1. /\ Steps[20] = ReadBoot[1]
        /\ Steps[21] = ReadBoot[2]
        /\ Steps[22] = ReadBoot[3]
        /\ Steps[23] = ReadBoot[4]
    <3>1. \A k \in 1 .. 4 : Steps[19 + k] = ReadBoot[k]
      BY Places
    <3> QED
      BY <3>1
  <2> QED
    BY <2>1 DEF ReadBoot, Alloc, Free
<1>6. /\ Steps[24] = S("scan", "boot_dir", {"boot_dir", "inode_tbl"}, "boot")
      /\ Steps[25] = S("inode", "kernel", {"inode_tbl", "group_desc_tbl", "boot_dir"}, "none")
      /\ Steps[26] = S("alloc", "kernel_file", {"inode_tbl", "boot_dir"}, "kernel")
      /\ Steps[27] = S("blocks", "kernel_file", {"inode_tbl", "kernel_file"}, "kernel")
  <2>1. /\ Steps[24] = ReadKernel[1]
        /\ Steps[25] = ReadKernel[2]
        /\ Steps[26] = ReadKernel[3]
        /\ Steps[27] = ReadKernel[4]
    <3>1. \A k \in 1 .. 4 : Steps[23 + k] = ReadKernel[k]
      BY Places
    <3> QED
      BY <3>1
  <2> QED
    BY <2>1 DEF ReadKernel, Alloc, Free
<1>7. /\ Steps[28] = S("free", "group_desc_tbl", {"group_desc_tbl"}, "none")
      /\ Steps[29] = S("free", "primary_part", {"primary_part"}, "none")
      /\ Steps[30] = S("free", "inode_tbl", {"inode_tbl"}, "none")
      /\ Steps[31] = S("free", "root_dir", {"root_dir"}, "none")
      /\ Steps[32] = S("free", "boot_dir", {"boot_dir"}, "none")
  <2>1. /\ Steps[28] = Release[1]
        /\ Steps[29] = Release[2]
        /\ Steps[30] = Release[3]
        /\ Steps[31] = Release[4]
        /\ Steps[32] = Release[5]
    <3>1. \A k \in 1 .. 5 : Steps[27 + k] = Release[k]
      BY Places
    <3> QED
      BY <3>1
  <2> QED
    BY <2>1 DEF Release, Alloc, Free
<1>8. /\ Steps[33] = S("elf", "none", {"kernel_file"}, "none")
      /\ Steps[34] = S("alloc", "phdr_buffer", {"kernel_file"}, "none")
      /\ Steps[35] = S("segments", "none", {"phdr_buffer", "kernel_file"}, "none")
  <2>1. /\ Steps[33] = LoadElf[1]
        /\ Steps[34] = LoadElf[2]
        /\ Steps[35] = LoadElf[3]
    <3>1. \A k \in 1 .. 3 : Steps[32 + k] = LoadElf[k]
      BY Places
    <3> QED
      BY <3>1
  <2> QED
    BY <2>1 DEF LoadElf, Alloc, Free
<1>9. /\ Steps[36] = S("allocmap", "mem_map", {}, "none")
      /\ Steps[37] = S("map", "mem_map", {}, "none")
  <2>1. /\ Steps[36] = GetMap[1]
        /\ Steps[37] = GetMap[2]
    <3>1. \A k \in 1 .. 2 : Steps[35 + k] = GetMap[k]
      BY Places
    <3> QED
      BY <3>1
  <2> QED
    BY <2>1 DEF GetMap, Alloc, Free
<1>10. /\ Steps[38] = S("xsdt", "none", {}, "none")
       /\ Steps[39] = S("exit", "none", {"mem_map"}, "none")
  <2>1. /\ Steps[38] = Start[1]
        /\ Steps[39] = Start[2]
    <3>1. \A k \in 1 .. 2 : Steps[37 + k] = Start[k]
      BY Places
    <3> QED
      BY <3>1
  <2> QED
    BY <2>1 DEF Start, Alloc, Free
<1> QED
  BY <1>1, <1>2, <1>3, <1>4, <1>5, <1>6, <1>7, <1>8, <1>9, <1>10

(* The steps at which each operation is done. *)
LEMMA OpSites ==
  ASSUME NEW k \in 1 .. 39
  PROVE  /\ Steps[k].op = "call" => k \in {1, 2, 4, 9, 15, 17}
         /\ Steps[k].op = "modes" => k \in {3}
         /\ Steps[k].op = "alloc" => k \in {5, 7, 8, 13, 14, 18, 22, 26, 34}
         /\ Steps[k].op = "disks" => k \in {6}
         /\ Steps[k].op = "parts" => k \in {10}
         /\ Steps[k].op = "free" => k \in {11, 12, 28, 29, 30, 31, 32}
         /\ Steps[k].op = "inode" => k \in {16, 21, 25}
         /\ Steps[k].op = "dir" => k \in {19, 23}
         /\ Steps[k].op = "scan" => k \in {20, 24}
         /\ Steps[k].op = "blocks" => k \in {27}
         /\ Steps[k].op = "elf" => k \in {33}
         /\ Steps[k].op = "segments" => k \in {35}
         /\ Steps[k].op = "allocmap" => k \in {36}
         /\ Steps[k].op = "map" => k \in {37}
         /\ Steps[k].op = "xsdt" => k \in {38}
         /\ Steps[k].op = "exit" => k \in {39}
<1>1. /\ Steps[1].op = "call" /\ Steps[2].op = "call" /\ Steps[3].op = "modes" /\ Steps[4].op = "call"
      /\ Steps[5].op = "alloc" /\ Steps[6].op = "disks" /\ Steps[7].op = "alloc" /\ Steps[8].op = "alloc"
      /\ Steps[9].op = "call" /\ Steps[10].op = "parts" /\ Steps[11].op = "free" /\ Steps[12].op = "free"
      /\ Steps[13].op = "alloc" /\ Steps[14].op = "alloc" /\ Steps[15].op = "call" /\ Steps[16].op = "inode"
      /\ Steps[17].op = "call" /\ Steps[18].op = "alloc" /\ Steps[19].op = "dir" /\ Steps[20].op = "scan"
      /\ Steps[21].op = "inode" /\ Steps[22].op = "alloc" /\ Steps[23].op = "dir" /\ Steps[24].op = "scan"
      /\ Steps[25].op = "inode" /\ Steps[26].op = "alloc" /\ Steps[27].op = "blocks" /\ Steps[28].op = "free"
      /\ Steps[29].op = "free" /\ Steps[30].op = "free" /\ Steps[31].op = "free" /\ Steps[32].op = "free"
      /\ Steps[33].op = "elf" /\ Steps[34].op = "alloc" /\ Steps[35].op = "segments" /\ Steps[36].op = "allocmap"
      /\ Steps[37].op = "map" /\ Steps[38].op = "xsdt" /\ Steps[39].op = "exit"
  BY StepTable DEF S
<1>2. Steps[k].op = "call" => k \in {1, 2, 4, 9, 15, 17}
  BY <1>1
<1>3. Steps[k].op = "modes" => k \in {3}
  BY <1>1
<1>4. Steps[k].op = "alloc" => k \in {5, 7, 8, 13, 14, 18, 22, 26, 34}
  BY <1>1
<1>5. Steps[k].op = "disks" => k \in {6}
  BY <1>1
<1>6. Steps[k].op = "parts" => k \in {10}
  BY <1>1
<1>7. Steps[k].op = "free" => k \in {11, 12, 28, 29, 30, 31, 32}
  BY <1>1
<1>8. Steps[k].op = "inode" => k \in {16, 21, 25}
  BY <1>1
<1>9. Steps[k].op = "dir" => k \in {19, 23}
  BY <1>1
<1>10. Steps[k].op = "scan" => k \in {20, 24}
  BY <1>1
<1>11. Steps[k].op = "blocks" => k \in {27}
  BY <1>1
<1>12. Steps[k].op = "elf" => k \in {33}
  BY <1>1
<1>13. Steps[k].op = "segments" => k \in {35}
  BY <1>1
<1>14. Steps[k].op = "allocmap" => k \in {36}
  BY <1>1
<1>15. Steps[k].op = "map" => k \in {37}
  BY <1>1
<1>16. Steps[k].op = "xsdt" => k \in {38}
  BY <1>1
<1>17. Steps[k].op = "exit" => k \in {39}
  BY <1>1
<1> QED
  BY <1>2, <1>3, <1>4, <1>5, <1>6, <1>7, <1>8, <1>9, <1>10, <1>11, <1>12, <1>13, <1>14, <1>15, <1>16, <1>17

-----------------------------------------------------------------------------
(* The inductive invariant: what holds when efi_main comes to a step. *)

(* The first n blocks of an inode, as the loop of lines 347-353 reads them. *)
Blocks(ino, n) == [b \in 1 .. n |-> <<ino, IF b - 1 < DIRECT THEN b - 1 ELSE -1>>]

(* Where the loops are; and what the types leave open. *)
Loops ==
  /\ ver \in Nat /\ key \in Nat
  /\ entry \in [{"root_dir", "boot_dir"} -> Inodes \cup {0}]
  /\ blocks \in Nat
  /\ pc = 6 => i <= NDisks
  /\ pc = 10 => i <= NParts
  /\ pc = 27 => i <= blocks
  /\ pc <= 34 => segs = 0
  /\ pc = 35 => segs <= i /\ i <= NSegs

(* A buffer is allocated from the step after its AllocatePool to its       *)
(* FreePool.                                                               *)
Live ==
  /\ pc \in 6 .. 12 => "gpt_header" \in pools
  /\ pc \in 8 .. 11 => "part_tbl" \in pools
  /\ pc \in 9 .. 29 => "primary_part" \in pools
  /\ pc \in 14 .. 28 => "group_desc_tbl" \in pools
  /\ pc \in 15 .. 30 => "inode_tbl" \in pools
  /\ pc \in 19 .. 31 => "root_dir" \in pools
  /\ pc \in 23 .. 32 => "boot_dir" \in pools
  /\ pc \in 27 .. 40 => "kernel_file" \in pools
  /\ pc \in 35 .. 40 => "phdr_buffer" \in pools
  /\ pc \in 38 .. 40 => "mem_map" \in pools

(* Whose inode the inode table's buffer holds. *)
Holds ==
  /\ pc \in 17 .. 21 => inode_tbl = "root"
  /\ pc \in 22 .. 25 => inode_tbl = "boot"
  /\ pc \in 26 .. 40 => inode_tbl = "kernel"

(* Before the disk and the partition are found there is none. *)
Search ==
  /\ OneDisk
  /\ pc <= 6 => bootdisk = 0
  /\ pc <= 10 => part = 0

(* The record of the file named kernel is the one the scan took. *)
Taken == \A j \in 1 .. Len(dir) : KernelRecord(j) => entry["boot_dir"] = dir[j].inode

(* A scan has passed no record whose name begins with the one sought, took *)
(* the kernel's if that is the first, and gives the inode.                 *)
Scanned ==
  /\ pc \in {20, 24} => tmp >= 1 /\ \A k \in 1 .. Len(dir) : k < tmp => ~ Begins(dir[k])
  /\ pc \in 25 .. 28 => Taken
  /\ pc \in 26 .. 28 => inode = InodeAt(entry["boot_dir"])

(* What of the kernel file is read. *)
Read ==
  /\ pc <= 26 => image = <<>>
  /\ pc = 27 => image = Blocks(inode, i)
  /\ pc >= 28 => image = Blocks(inode, blocks)

(* What is handed over is final. *)
Final ==
  /\ pc \in 38 .. 39 => mem_map = {InUse} /\ key = ver
  /\ pc = 40 => mem_map = {InUse} /\ (exited <=> key = ver) /\ ver \in {key, key + 1}
  /\ pc >= 39 /\ acpi.present => acpi.sign /\ acpi.sum20 = 0 /\ acpi.sum36 = 0 /\ acpi.sumXsdt = 0

IInv == TypeOK /\ Loops /\ Live /\ Holds /\ Search /\ Scanned /\ Read /\ Final

-----------------------------------------------------------------------------
(* A running loader is at one of the 39 steps. *)
LEMMA AtSite ==
  ASSUME TypeOK, NEW op, At(op)
  PROVE  pc \in 1 .. 39 /\ halt = "no" /\ Steps[pc].op = op
  BY Places DEF TypeOK, At, Running

(* The variables of found, tree and load, one by one. *)
LEMMA Unchanged ==
  /\ UNCHANGED found => /\ block_io' = block_io /\ gpt_header' = gpt_header /\ bootdisk' = bootdisk
                        /\ superblock' = superblock /\ part' = part
  /\ UNCHANGED tree => /\ inode_tbl' = inode_tbl /\ inode' = inode /\ dir' = dir /\ tmp' = tmp
                       /\ entry' = entry /\ blocks' = blocks /\ image' = image
  /\ UNCHANGED load => /\ elf' = elf /\ segs' = segs /\ mem_map' = mem_map /\ key' = key
                       /\ acpi' = acpi /\ exited' = exited
  BY DEF found, tree, load

(* A step that only stops the loader, or only counts. *)
LEMMA StopKeeps ==
  ASSUME IInv, pc' = pc, i' \in Nat, pc \in {6, 10, 27, 35} => i' = i,
         halt' \in {"no", "stuck", "spin"}, pools' = pools, ver' = ver, UNCHANGED found, UNCHANGED tree, segs' = segs, mem_map' = mem_map, key' = key,
         acpi' = acpi, exited' = exited
  PROVE  IInv'
<1>1. /\ block_io' = block_io /\ gpt_header' = gpt_header /\ bootdisk' = bootdisk
      /\ superblock' = superblock /\ part' = part
      /\ inode_tbl' = inode_tbl /\ inode' = inode /\ dir' = dir /\ tmp' = tmp
      /\ entry' = entry /\ blocks' = blocks /\ image' = image
  BY Unchanged
<1>2. TypeOK'
  BY <1>1, Zenon DEF IInv, TypeOK
<1>3. Loops' /\ Live' /\ Holds'
  BY <1>1 DEF IInv, Loops, Live, Holds
<1>4. Search'
  BY <1>1 DEF IInv, Search, OneDisk
<1>5. Scanned'
  BY <1>1 DEF IInv, Scanned, Taken, KernelRecord
<1>6. Read'
  BY <1>1 DEF IInv, Read, Blocks
<1>7. Final'
  BY DEF IInv, Final, InUse
<1> QED
  BY <1>2, <1>3, <1>4, <1>5, <1>6, <1>7 DEF IInv

(* A call that failed: the loader stays in while (1). *)
LEMMA StuckKeeps ==
  ASSUME IInv, Stuck, pools' = pools, ver' = ver, UNCHANGED found, UNCHANGED tree,
         segs' = segs, mem_map' = mem_map, key' = key, acpi' = acpi, exited' = exited
  PROVE  IInv'
<1>1. pc' = pc /\ i' = i /\ halt' = "stuck" /\ i \in Nat
  BY DEF Stuck, IInv, TypeOK
<1> QED
  BY <1>1, StopKeeps

(* Before its first turn a loop has read nothing. *)
LEMMA NoBlocks ==
  ASSUME NEW ino
  PROVE  Blocks(ino, 0) = <<>>
  BY DEF Blocks

(* The steps after which the loader goes on with other buffers at most. *)
LEMMA GoOnKeeps ==
  ASSUME IInv, GoOn,
         pc \in {1, 2, 3, 4, 5, 7, 8, 9, 11, 12, 13, 14, 15, 17, 18, 22, 26, 27, 28, 29, 30, 31, 32,
                33, 34, 35, 36},
         pc = 27 => i = blocks,
         Live', ver' \in Nat, dir' = dir \/ (pc = 32 /\ dir' = <<>>),
         UNCHANGED <<found, inode_tbl, inode, tmp, entry, blocks, image, segs, mem_map, key, acpi, exited>>
  PROVE  IInv'
<1>1. /\ block_io' = block_io /\ gpt_header' = gpt_header /\ bootdisk' = bootdisk
      /\ superblock' = superblock /\ part' = part
      /\ inode_tbl' = inode_tbl /\ inode' = inode /\ tmp' = tmp
      /\ entry' = entry /\ blocks' = blocks /\ image' = image
      /\ segs' = segs /\ mem_map' = mem_map /\ key' = key /\ acpi' = acpi /\ exited' = exited
  BY Unchanged
<1>2. pc' = pc + 1 /\ i' = 0 /\ halt' = halt
  BY DEF GoOn
<1>3. pc' \in 1 .. (Len(Steps) + 1) /\ i' \in Nat
  <2>1. Len(Steps) = 39
    BY Places
  <2> QED
    BY <1>2, <2>1
<1>4. TypeOK'
  <2>1. dir' \in DirSets \cup {<<>>}
    BY DEF IInv, TypeOK
  <2> QED
    BY <1>1, <1>2, <1>3, <2>1, Zenon DEF IInv, TypeOK
<1>5. Loops'
  BY <1>1, <1>2, DiskAssumption, OtherAssumption DEF IInv, Loops, TypeOK
<1>6. Holds' /\ Search' /\ Final'
  <2>1. Holds'
    BY <1>1, <1>2 DEF IInv, Holds
  <2>2. Search'
    BY <1>1, <1>2 DEF IInv, Search, OneDisk
  <2>3. Final'
    BY <1>2 DEF Final
  <2> QED
    BY <2>1, <2>2, <2>3
<1>7. Scanned'
  <2>1. pc' \notin {20, 24} /\ (pc' \in 25 .. 28 => pc \in {26, 27})
    BY <1>2
  <2>2. pc \in {26, 27} => (Taken => Taken')
    <3>1. dir' = dir => (Taken => Taken')
      BY <1>1 DEF Taken, KernelRecord
    <3> QED
      BY <3>1
  <2>3. pc \in {26, 27} => Taken /\ inode = InodeAt(entry["boot_dir"])
    BY DEF IInv, Scanned
  <2> QED
    BY <1>1, <2>1, <2>2, <2>3 DEF Scanned
<1>8. Read'
  <2>1. Blocks(inode, 0) = <<>>
    BY NoBlocks
  <2>2. /\ pc <= 26 => image = <<>>
        /\ pc = 27 => image = Blocks(inode, blocks)
        /\ pc >= 28 => image = Blocks(inode, blocks)
    BY DEF IInv, Read
  <2>3. /\ pc' <= 26 => image' = <<>>
        /\ pc' = 27 => image' = Blocks(inode', i')
        /\ pc' >= 28 => image' = Blocks(inode', blocks')
    BY <1>1, <1>2, <2>1, <2>2
  <2> QED
    BY <2>3 DEF Read, Blocks
<1> QED
  BY <1>4, <1>5, <1>6, <1>7, <1>8 DEF IInv

-----------------------------------------------------------------------------
(* The steps that are firmware calls. *)

(* A call that changes nothing. *)
LEMMA CallIInv ==
  ASSUME IInv, Call
  PROVE  IInv'
<1>1. pc \in {1, 2, 4, 9, 15, 17} /\ halt = "no"
  <2>1. TypeOK /\ At("call")
    BY DEF IInv, Call
  <2>2. pc \in 1 .. 39 /\ halt = "no" /\ Steps[pc].op = "call"
    BY <2>1, AtSite
  <2>3. pc \in {1, 2, 4, 9, 15, 17} /\ halt = "no"
    BY <2>2, OpSites
  <2> QED
    BY <2>3
<1>2. /\ pools' = pools /\ ver' = ver /\ UNCHANGED found /\ UNCHANGED tree /\ UNCHANGED load
      /\ GoOn \/ Stuck
  BY DEF Call
<1>3. CASE GoOn
  <2>1. Live' /\ ver' \in Nat
    BY <1>1, <1>2, <1>3 DEF IInv, Live, Loops, GoOn
  <2> QED
    BY <1>1, <1>2, <1>3, <2>1, GoOnKeeps, Unchanged
<1>4. CASE Stuck
  BY <1>1, <1>2, <1>4, StuckKeeps, Unchanged
<1> QED
  BY <1>2, <1>3, <1>4

(* AllocatePool: the buffer is live from the next step on. *)
LEMMA AllocatePoolIInv ==
  ASSUME IInv, AllocatePool
  PROVE  IInv'
<1>1. pc \in {5, 7, 8, 13, 14, 18, 22, 26, 34} /\ halt = "no"
  <2>1. TypeOK /\ At("alloc")
    BY DEF IInv, AllocatePool
  <2>2. pc \in 1 .. 39 /\ halt = "no" /\ Steps[pc].op = "alloc"
    BY <2>1, AtSite
  <2>3. pc \in {5, 7, 8, 13, 14, 18, 22, 26, 34} /\ halt = "no"
    BY <2>2, OpSites
  <2> QED
    BY <2>3
<1>2. /\ UNCHANGED found /\ UNCHANGED tree /\ UNCHANGED load
      /\ \/ GoOn /\ pools' = pools \cup {Steps[pc].buf} /\ ver' = ver + 1
         \/ Stuck /\ pools' = pools /\ ver' = ver
  BY DEF AllocatePool
<1>3. CASE GoOn /\ pools' = pools \cup {Steps[pc].buf} /\ ver' = ver + 1
  <2>1. /\ pc = 5 => Steps[pc].buf = "gpt_header"
        /\ pc = 7 => Steps[pc].buf = "part_tbl"
        /\ pc = 8 => Steps[pc].buf = "primary_part"
        /\ pc = 13 => Steps[pc].buf = "group_desc_tbl"
        /\ pc = 14 => Steps[pc].buf = "inode_tbl"
        /\ pc = 18 => Steps[pc].buf = "root_dir"
        /\ pc = 22 => Steps[pc].buf = "boot_dir"
        /\ pc = 26 => Steps[pc].buf = "kernel_file"
        /\ pc = 34 => Steps[pc].buf = "phdr_buffer"
    BY StepTable DEF S
  <2>2. Live'
    BY <1>1, <1>3, <2>1 DEF IInv, Live, GoOn
  <2>3. ver' \in Nat
    BY <1>3 DEF IInv, Loops
  <2> QED
    BY <1>1, <1>2, <1>3, <2>2, <2>3, GoOnKeeps, Unchanged
<1>4. CASE Stuck /\ pools' = pools /\ ver' = ver
  BY <1>1, <1>2, <1>4, StuckKeeps, Unchanged
<1> QED
  BY <1>2, <1>3, <1>4

(* FreePool: the buffer is not used after it. *)
LEMMA FreePoolIInv ==
  ASSUME IInv, FreePool
  PROVE  IInv'
<1>1. pc \in {11, 12, 28, 29, 30, 31, 32} /\ halt = "no"
  <2>1. TypeOK /\ At("free")
    BY DEF IInv, FreePool
  <2>2. pc \in 1 .. 39 /\ halt = "no" /\ Steps[pc].op = "free"
    BY <2>1, AtSite
  <2>3. pc \in {11, 12, 28, 29, 30, 31, 32} /\ halt = "no"
    BY <2>2, OpSites
  <2> QED
    BY <2>3
<1>2. /\ UNCHANGED found /\ UNCHANGED <<inode_tbl, inode, tmp, entry, blocks, image>> /\ UNCHANGED load
      /\ \/ /\ GoOn /\ pools' = pools \ {Steps[pc].buf} /\ ver' = ver + 1
            /\ dir' = IF Steps[pc].buf = "boot_dir" THEN <<>> ELSE dir
         \/ Stuck /\ pools' = pools /\ ver' = ver /\ dir' = dir
  BY DEF FreePool
<1>3. CASE /\ GoOn /\ pools' = pools \ {Steps[pc].buf} /\ ver' = ver + 1
           /\ dir' = IF Steps[pc].buf = "boot_dir" THEN <<>> ELSE dir
  <2>1. /\ pc = 11 => Steps[pc].buf = "part_tbl"
        /\ pc = 12 => Steps[pc].buf = "gpt_header"
        /\ pc = 28 => Steps[pc].buf = "group_desc_tbl"
        /\ pc = 29 => Steps[pc].buf = "primary_part"
        /\ pc = 30 => Steps[pc].buf = "inode_tbl"
        /\ pc = 31 => Steps[pc].buf = "root_dir"
        /\ pc = 32 => Steps[pc].buf = "boot_dir"
    BY StepTable DEF S
  <2>2. Live'
    <3>1. pc' = pc + 1 /\ Live
      BY <1>3 DEF IInv, GoOn
    <3>2. ASSUME NEW b, b \in pools, b # Steps[pc].buf
          PROVE  b \in pools'
      BY <1>3, <3>2
    <3>3. CASE pc = 11
      BY <2>1, <3>1, <3>2, <3>3 DEF Live
    <3>4. CASE pc = 12
      BY <2>1, <3>1, <3>2, <3>4 DEF Live
    <3>5. CASE pc \in {28, 29}
      BY <2>1, <3>1, <3>2, <3>5 DEF Live
    <3>6. CASE pc \in {30, 31, 32}
      BY <2>1, <3>1, <3>2, <3>6 DEF Live
    <3> QED
      BY <1>1, <3>3, <3>4, <3>5, <3>6
  <2>3. ver' \in Nat
    BY <1>3 DEF IInv, Loops
  <2>4. dir' = dir \/ (pc = 32 /\ dir' = <<>>)
    BY <1>1, <1>3, <2>1
  <2> QED
    BY <1>1, <1>2, <1>3, <2>2, <2>3, <2>4, GoOnKeeps, Unchanged
<1>4. CASE Stuck /\ pools' = pools /\ ver' = ver /\ dir' = dir
  <2>1. UNCHANGED tree
    BY <1>2, <1>4 DEF tree
  <2> QED
    BY <1>1, <1>2, <1>4, <2>1, StuckKeeps, Unchanged
<1> QED
  BY <1>2, <1>3, <1>4

(* AllocMap, checked by nobody. *)
LEMMA AllocMapIInv ==
  ASSUME IInv, AllocMap
  PROVE  IInv'
<1>1. pc = 36 /\ halt = "no"
  <2>1. TypeOK /\ At("allocmap")
    BY DEF IInv, AllocMap
  <2>2. pc \in 1 .. 39 /\ halt = "no" /\ Steps[pc].op = "allocmap"
    BY <2>1, AtSite
  <2>3. pc = 36 /\ halt = "no"
    BY <2>2, OpSites
  <2> QED
    BY <2>3
<1>2. /\ GoOn /\ UNCHANGED found /\ UNCHANGED tree /\ UNCHANGED load
      /\ pools \subseteq pools' /\ ver' \in {ver, ver + 1}
  BY DEF AllocMap
<1>3. Live' /\ ver' \in Nat
  BY <1>1, <1>2 DEF IInv, Live, Loops, GoOn
<1> QED
  BY <1>1, <1>2, <1>3, GoOnKeeps, Unchanged

(* The ELF header changes nothing but elf. *)
LEMMA ElfHeaderIInv ==
  ASSUME IInv, ElfHeader
  PROVE  IInv'
<1>1. pc = 33 /\ halt = "no"
  <2>1. TypeOK /\ At("elf")
    BY DEF IInv, ElfHeader
  <2>2. pc \in 1 .. 39 /\ halt = "no" /\ Steps[pc].op = "elf"
    BY <2>1, AtSite
  <2>3. pc = 33 /\ halt = "no"
    BY <2>2, OpSites
  <2> QED
    BY <2>3
<1>2. /\ pools' = pools /\ ver' = ver /\ UNCHANGED found /\ UNCHANGED tree
      /\ segs' = segs /\ mem_map' = mem_map /\ key' = key /\ acpi' = acpi /\ exited' = exited
      /\ GoOn \/ Stuck
  BY DEF ElfHeader
<1>3. CASE GoOn
  <2>1. Live' /\ ver' \in Nat
    BY <1>1, <1>2, <1>3 DEF IInv, Live, Loops, GoOn
  <2> QED
    BY <1>1, <1>2, <1>3, <2>1, GoOnKeeps, Unchanged
<1>4. CASE Stuck
  BY <1>1, <1>2, <1>4, StuckKeeps, Unchanged
<1> QED
  BY <1>2, <1>3, <1>4

-----------------------------------------------------------------------------
(* The search for the disk and the partition. *)

(* A turn of the loop over the graphics modes. *)
LEMMA ModesIInv ==
  ASSUME IInv, Modes
  PROVE  IInv'
<1>1. pc = 3 /\ halt = "no" /\ i \in Nat
  <2>1. TypeOK /\ At("modes")
    BY DEF IInv, Modes
  <2>2. pc \in 1 .. 39 /\ halt = "no" /\ Steps[pc].op = "modes"
    BY <2>1, AtSite
  <2>3. pc = 3 /\ halt = "no"
    BY <2>2, OpSites
  <2> QED
    BY <2>1, <2>3 DEF TypeOK
<1>2. /\ pools' = pools /\ ver' = ver /\ UNCHANGED found /\ UNCHANGED tree /\ UNCHANGED load
      /\ GoOn \/ Stuck \/ (i' = i + 1 /\ pc' = pc /\ halt' = halt)
  BY DEF Modes
<1>3. CASE GoOn
  <2>1. Live' /\ ver' \in Nat
    BY <1>1, <1>2, <1>3 DEF IInv, Live, Loops, GoOn
  <2> QED
    BY <1>1, <1>2, <1>3, <2>1, GoOnKeeps, Unchanged
<1>4. CASE Stuck
  BY <1>1, <1>2, <1>4, StopKeeps, Unchanged DEF Stuck
<1>5. CASE i' = i + 1 /\ pc' = pc /\ halt' = halt
  BY <1>1, <1>2, <1>5, StopKeeps, Unchanged
<1> QED
  BY <1>2, <1>3, <1>4, <1>5

(* Before the first inode is read little can go wrong. *)
LEMMA EarlyKeeps ==
  ASSUME IInv, pc \in 1 .. 16, pc' \in 1 .. 16, image' = image
  PROVE  Holds' /\ Scanned' /\ Read' /\ Final'
<1>1. image' = <<>>
  BY DEF IInv, Read
<1> QED
  BY <1>1 DEF Holds, Scanned, Read, Final

(* A turn of the loop over the handles: block_io and the header follow the *)
(* handle, and only the disk taken ends the loop.                          *)
LEMMA FindDiskIInv ==
  ASSUME IInv, FindDiskStep
  PROVE  IInv'
<1>1. pc = 6 /\ halt = "no" /\ i \in 0 .. NDisks /\ NDisks \in Nat /\ Len(Steps) = 39 /\ bootdisk = 0
  <2>1. pc = 6 /\ halt = "no"
    <3>1. TypeOK /\ At("disks")
      BY DEF IInv, FindDiskStep
    <3>2. pc \in 1 .. 39 /\ halt = "no" /\ Steps[pc].op = "disks"
      BY <3>1, AtSite
    <3>3. pc = 6 /\ halt = "no"
      BY <3>2, OpSites
    <3> QED
      BY <3>3
  <2>2. i \in Nat /\ i <= NDisks /\ bootdisk = 0
    BY <2>1 DEF IInv, TypeOK, Loops, Search
  <2> QED
    BY <2>1, <2>2, DiskAssumption, Places
<1>2. /\ pools' = pools /\ ver' = ver /\ superblock' = superblock /\ part' = part
      /\ UNCHANGED tree /\ UNCHANGED load
  BY DEF FindDiskStep
<1>3. /\ inode_tbl' = inode_tbl /\ inode' = inode /\ dir' = dir /\ tmp' = tmp
      /\ entry' = entry /\ blocks' = blocks /\ image' = image
      /\ segs' = segs /\ key' = key /\ acpi' = acpi
  BY <1>2, Unchanged
<1>4. \/ /\ pc' = 6 /\ i' \in 0 .. NDisks /\ halt' \in {"no", "stuck"} /\ bootdisk' = 0
         /\ block_io' \in {block_io, i + 1} /\ gpt_header' \in {gpt_header, i + 1}
         /\ i < NDisks \/ (block_io' = block_io /\ gpt_header' = gpt_header)
      \/ /\ pc' = 7 /\ i' = 0 /\ halt' = halt /\ i < NDisks
         /\ bootdisk' = i + 1 /\ block_io' = i + 1 /\ gpt_header' = i + 1
  BY <1>1 DEF FindDiskStep, GoOn, Stuck
<1>5. block_io \in 0 .. NDisks /\ gpt_header \in 0 .. NDisks
  BY DEF IInv, TypeOK
<1>6. TypeOK'
  <2>1. /\ pc' \in 1 .. (Len(Steps) + 1) /\ i' \in Nat /\ halt' \in {"no", "stuck", "spin"}
        /\ block_io' \in 0 .. NDisks /\ gpt_header' \in 0 .. NDisks /\ bootdisk' \in 0 .. NDisks
    BY <1>1, <1>4, <1>5
  <2> QED
    BY <1>2, <1>3, <2>1, Zenon DEF IInv, TypeOK
<1>7. Loops'
  BY <1>1, <1>2, <1>3, <1>4 DEF IInv, Loops
<1>8. Live'
  BY <1>1, <1>2, <1>4 DEF IInv, Live
<1>9. Search'
  BY <1>1, <1>2, <1>4 DEF IInv, Search, OneDisk
<1>10. pc \in 1 .. 16 /\ pc' \in 1 .. 16
  BY <1>1, <1>4
<1> QED
  BY <1>3, <1>6, <1>7, <1>8, <1>9, <1>10, EarlyKeeps DEF IInv

(* A turn of the loop over the partitions: the superblock in primary_part  *)
(* is that of the partition taken.                                         *)
LEMMA FindPartitionIInv ==
  ASSUME IInv, FindPartitionStep
  PROVE  IInv'
<1>1. pc = 10 /\ halt = "no" /\ i \in 0 .. NParts /\ NParts \in Nat /\ Len(Steps) = 39 /\ part = 0
  <2>1. pc = 10 /\ halt = "no"
    <3>1. TypeOK /\ At("parts")
      BY DEF IInv, FindPartitionStep
    <3>2. pc \in 1 .. 39 /\ halt = "no" /\ Steps[pc].op = "parts"
      BY <3>1, AtSite
    <3>3. pc = 10 /\ halt = "no"
      BY <3>2, OpSites
    <3> QED
      BY <3>3
  <2>2. i \in Nat /\ i <= NParts /\ part = 0
    BY <2>1 DEF IInv, TypeOK, Loops, Search
  <2> QED
    BY <2>1, <2>2, DiskAssumption, Places
<1>2. /\ pools' = pools /\ ver' = ver
      /\ block_io' = block_io /\ gpt_header' = gpt_header /\ bootdisk' = bootdisk
      /\ UNCHANGED tree /\ UNCHANGED load
  BY DEF FindPartitionStep
<1>3. /\ inode_tbl' = inode_tbl /\ inode' = inode /\ dir' = dir /\ tmp' = tmp
      /\ entry' = entry /\ blocks' = blocks /\ image' = image
      /\ segs' = segs /\ key' = key /\ acpi' = acpi
  BY <1>2, Unchanged
<1>4. \/ /\ pc' = 10 /\ i' \in 0 .. NParts /\ halt' \in {"no", "stuck"} /\ part' = 0
         /\ superblock' = superblock \/ (i < NParts /\ superblock' = i + 1)
      \/ /\ pc' = 11 /\ i' = 0 /\ halt' = halt /\ i < NParts
         /\ part' = i + 1 /\ superblock' = i + 1
  BY <1>1 DEF FindPartitionStep, GoOn, Stuck
<1>5. superblock \in 0 .. NParts
  BY DEF IInv, TypeOK
<1>6. TypeOK'
  <2>1. /\ pc' \in 1 .. (Len(Steps) + 1) /\ i' \in Nat /\ halt' \in {"no", "stuck", "spin"}
        /\ superblock' \in 0 .. NParts /\ part' \in 0 .. NParts
    BY <1>1, <1>4, <1>5
  <2> QED
    BY <1>2, <1>3, <2>1, Zenon DEF IInv, TypeOK
<1>7. Loops'
  BY <1>1, <1>2, <1>3, <1>4 DEF IInv, Loops
<1>8. Live'
  BY <1>1, <1>2, <1>4 DEF IInv, Live
<1>9. Search'
  BY <1>1, <1>2, <1>4 DEF IInv, Search, OneDisk
<1>10. pc \in 1 .. 16 /\ pc' \in 1 .. 16
  BY <1>1, <1>4
<1> QED
  BY <1>3, <1>6, <1>7, <1>8, <1>9, <1>10, EarlyKeeps DEF IInv

-----------------------------------------------------------------------------
(* The walk from the root to the kernel file. *)

(* Division with remainder, as bootloader.c:287-292 uses it. *)
LEMMA Division ==
  ASSUME NEW n \in Nat, NEW g \in Nat, g > 0
  PROVE  /\ n \div g \in Nat /\ n % g \in 0 .. (g - 1)
         /\ n = g * (n \div g) + (n % g)
  OBVIOUS

(* The remainder is the only one. *)
LEMMA Remainder ==
  ASSUME NEW g \in Nat, NEW a \in Nat, NEW b \in Nat, NEW x \in 0 .. (g - 1), NEW y \in 0 .. (g - 1),
         g * a + x = g * b + y
  PROVE  x = y
<1>1. a > b => g * a >= g * b + g
  <2>1. a > b => a = b + 1 + (a - b - 1) /\ a - b - 1 \in Nat
    OBVIOUS
  <2>2. g * (b + 1 + (a - b - 1)) = g * b + g + g * (a - b - 1)
    OBVIOUS
  <2> QED
    BY <2>1, <2>2
<1>2. b > a => g * b >= g * a + g
  <2>1. b > a => b = a + 1 + (b - a - 1) /\ b - a - 1 \in Nat
    OBVIOUS
  <2>2. g * (a + 1 + (b - a - 1)) = g * a + g + g * (b - a - 1)
    OBVIOUS
  <2> QED
    BY <2>1, <2>2
<1>3. g * a \in Nat /\ g * b \in Nat
  OBVIOUS
<1>4. ~ (a > b) /\ ~ (b > a)
  BY <1>1, <1>2, <1>3
<1> QED
  BY <1>3, <1>4

(* An inode that is not in the first block of its group's table, or that   *)
(* is the last of its group, is not read; any other is.                    *)
LEMMA InodeAtIs ==
  ASSUME NEW n \in Inodes \cup {0}
  PROVE  InodeAt(n) \in 0 .. (2 * GROUP) /\ (n \in Inodes /\ InFirstBlock(n) => InodeAt(n) = n)
<1>1. n \in Nat /\ n <= 2 * GROUP /\ GROUP \in Nat /\ GROUP > 1 /\ PERBLOCK \in Nat /\ PERBLOCK <= GROUP
  BY InodeAssumption DEF Inodes
<1> DEFINE q == n \div GROUP
           r == n % GROUP
<1>2. q \in Nat /\ r \in 0 .. (GROUP - 1) /\ n = GROUP * q + r
  BY <1>1, Division
<1>3. q * GROUP = GROUP * q /\ q * GROUP \in Nat
  BY <1>1, <1>2
<1>4. InodeAt(n) = IF r - 1 \in 0 .. (PERBLOCK - 1) THEN q * GROUP + (r - 1) + 1 ELSE 0
  BY DEF InodeAt
<1> HIDE DEF q
<1>5. InodeAt(n) \in {0, n}
  BY <1>1, <1>2, <1>3, <1>4
<1>6. ASSUME n \in Inodes, InFirstBlock(n)
      PROVE  InodeAt(n) = n
  <2>1. r # 0 /\ (n - 1) % GROUP < PERBLOCK
    BY <1>6 DEF InFirstBlock
  <2> DEFINE q1 == (n - 1) \div GROUP
             r1 == (n - 1) % GROUP
  <2>2. n - 1 \in Nat
    BY <1>6 DEF Inodes
  <2>3. q1 \in Nat /\ r1 \in 0 .. (GROUP - 1) /\ n - 1 = GROUP * q1 + r1
    BY <1>1, <2>2, Division
  <2>4. r1 = r - 1
    <3>1. r - 1 \in 0 .. (GROUP - 1)
      BY <1>1, <1>2, <2>1
    <3>2. GROUP * q + (r - 1) = GROUP * q1 + r1
      BY <1>1, <1>2, <1>3, <2>3
    <3> HIDE DEF q1, r1, r
    <3> QED
      BY <1>1, <1>2, <2>3, <3>1, <3>2, Remainder
  <2> QED
    BY <1>1, <1>2, <1>3, <1>4, <2>1, <2>4
<1> QED
  BY <1>1, <1>5, <1>6

(* The inodes are read one after the other into the same buffer. *)
LEMMA ReadInodeIInv ==
  ASSUME IInv, ReadInode
  PROVE  IInv'
<1>1. pc \in {16, 21, 25} /\ halt = "no" /\ Len(Steps) = 39
  <2>1. TypeOK /\ At("inode")
    BY DEF IInv, ReadInode
  <2>2. pc \in 1 .. 39 /\ halt = "no" /\ Steps[pc].op = "inode"
    BY <2>1, AtSite
  <2>3. pc \in {16, 21, 25} /\ halt = "no"
    BY <2>2, OpSites
  <2>4. Len(Steps) = 39
    BY Places
  <2> QED
    BY <2>3, <2>4
<1>2. /\ pools' = pools /\ ver' = ver /\ UNCHANGED found /\ UNCHANGED load
      /\ dir' = dir /\ tmp' = tmp /\ entry' = entry /\ image' = image
  BY DEF ReadInode
<1>3. /\ block_io' = block_io /\ gpt_header' = gpt_header /\ bootdisk' = bootdisk
      /\ superblock' = superblock /\ part' = part
      /\ segs' = segs /\ mem_map' = mem_map /\ key' = key /\ acpi' = acpi /\ exited' = exited
  BY <1>2, Unchanged
<1>4. CASE Stuck /\ inode_tbl' = inode_tbl /\ inode' = inode /\ blocks' = blocks
  <2>1. UNCHANGED tree
    BY <1>2, <1>4 DEF tree
  <2> QED
    BY <1>2, <1>3, <1>4, <2>1, StuckKeeps
<1>5. CASE /\ GoOn /\ inode_tbl' = Steps[pc].buf
           /\ inode' = CASE Steps[pc].buf = "root"   -> 2
                         [] Steps[pc].buf = "boot"   -> InodeAt(entry.root_dir)
                         [] Steps[pc].buf = "kernel" -> InodeAt(entry.boot_dir)
           /\ IF Steps[pc].buf = "kernel" THEN blocks' \in 0 .. MaxBlocks ELSE UNCHANGED blocks
  <2>1. /\ pc = 16 => Steps[pc].buf = "root"
        /\ pc = 21 => Steps[pc].buf = "boot"
        /\ pc = 25 => Steps[pc].buf = "kernel"
    BY StepTable DEF S
  <2>2. pc' = pc + 1 /\ i' = 0 /\ halt' = halt
    BY <1>5 DEF GoOn
  <2>3. image = <<>> /\ Len(image') = 0 /\ blocks \in Nat /\ blocks <= MaxBlocks /\ MaxBlocks \in Nat
    BY <1>1, <1>2, BlockAssumption DEF IInv, Read, Loops, TypeOK
  <2>4. blocks' \in Nat /\ blocks' <= MaxBlocks
    BY <1>5, <2>3
  <2>5. /\ pc = 16 => inode' = 2
        /\ pc = 21 => inode' = InodeAt(entry.root_dir)
        /\ pc = 25 => inode' = InodeAt(entry.boot_dir)
    BY <1>5, <2>1
  <2>6. entry["root_dir"] \in Inodes \cup {0} /\ entry["boot_dir"] \in Inodes \cup {0}
    BY DEF IInv, Loops
  <2>7. inode' \in 0 .. (2 * GROUP)
    <3>1. 2 \in 0 .. (2 * GROUP)
      BY InodeAssumption
    <3>2. InodeAt(entry["root_dir"]) \in 0 .. (2 * GROUP) /\ InodeAt(entry["boot_dir"]) \in 0 .. (2 * GROUP)
      BY <2>6, InodeAtIs
    <3> QED
      BY <1>1, <2>5, <3>1, <3>2
  <2>8. inode_tbl' \in {"none", "root", "boot", "kernel"}
    BY <1>1, <1>5, <2>1
  <2>9. TypeOK'
    <3>1. pc' \in 1 .. (Len(Steps) + 1) /\ i' \in Nat /\ Len(image') <= blocks'
      BY <1>1, <2>2, <2>3, <2>4
    <3> QED
      BY <1>2, <1>3, <2>2, <2>4, <2>7, <2>8, <3>1, Zenon DEF IInv, TypeOK
  <2>10. Loops'
    BY <1>1, <1>2, <1>3, <2>2, <2>4 DEF IInv, Loops
  <2>11. Live'
    BY <1>1, <1>2, <2>2 DEF IInv, Live
  <2>12. Holds'
    BY <1>1, <1>5, <2>1, <2>2 DEF Holds
  <2>13. Search'
    BY <1>1, <1>3, <2>2 DEF IInv, Search, OneDisk
  <2>14. Scanned'
    <3>1. Taken => Taken'
      BY <1>2 DEF Taken, KernelRecord
    <3> QED
      BY <1>1, <1>2, <2>2, <2>5, <3>1 DEF IInv, Scanned
  <2>15. Read'
    BY <1>1, <1>2, <2>2, <2>3 DEF Read
  <2>16. Final'
    BY <1>1, <2>2 DEF Final
  <2> QED
    BY <2>9, <2>10, <2>11, <2>12, <2>13, <2>14, <2>15, <2>16 DEF IInv
<1> QED
  BY <1>4, <1>5 DEF ReadInode

(* A directory is read: the scan of it begins at its first record. *)
LEMMA ReadDirIInv ==
  ASSUME IInv, ReadDir
  PROVE  IInv'
<1>1. pc \in {19, 23} /\ halt = "no" /\ Len(Steps) = 39
  <2>1. TypeOK /\ At("dir")
    BY DEF IInv, ReadDir
  <2>2. pc \in 1 .. 39 /\ halt = "no" /\ Steps[pc].op = "dir"
    BY <2>1, AtSite
  <2>3. pc \in {19, 23} /\ halt = "no"
    BY <2>2, OpSites
  <2>4. Len(Steps) = 39
    BY Places
  <2> QED
    BY <2>3, <2>4
<1>2. /\ pools' = pools /\ ver' = ver /\ UNCHANGED found /\ UNCHANGED load /\ tmp' = 1
      /\ inode_tbl' = inode_tbl /\ inode' = inode /\ entry' = entry /\ blocks' = blocks /\ image' = image
      /\ (GoOn /\ dir' \in DirSets) \/ (Stuck /\ dir' = dir)
  BY DEF ReadDir
<1>3. /\ block_io' = block_io /\ gpt_header' = gpt_header /\ bootdisk' = bootdisk
      /\ superblock' = superblock /\ part' = part
      /\ segs' = segs /\ mem_map' = mem_map /\ key' = key /\ acpi' = acpi /\ exited' = exited
  BY <1>2, Unchanged
<1>4. pc' \in {pc, pc + 1} /\ i' \in Nat /\ halt' \in {"no", "stuck"} /\ (pc' = pc + 1 => i' = 0)
  BY <1>1, <1>2 DEF IInv, TypeOK, GoOn, Stuck
<1>5. TypeOK'
  <2>1. pc' \in 1 .. (Len(Steps) + 1) /\ tmp' \in Nat /\ halt' \in {"no", "stuck", "spin"}
    BY <1>1, <1>2, <1>4
  <2>2. dir' \in DirSets \cup {<<>>}
    BY <1>2 DEF IInv, TypeOK
  <2> QED
    BY <1>2, <1>3, <1>4, <2>1, <2>2, Zenon DEF IInv, TypeOK
<1>6. Loops'
  BY <1>1, <1>2, <1>3, <1>4 DEF IInv, Loops
<1>7. Live'
  BY <1>1, <1>2, <1>4 DEF IInv, Live
<1>8. Holds'
  BY <1>1, <1>2, <1>4 DEF IInv, Holds
<1>9. Search'
  BY <1>1, <1>3, <1>4 DEF IInv, Search, OneDisk
<1>10. Scanned'
  <2>1. pc' \notin 25 .. 28 /\ pc' \notin 26 .. 28
    BY <1>1, <1>4
  <2>2. tmp' >= 1 /\ \A k \in 1 .. Len(dir') : k < tmp' => ~ Begins(dir'[k])
    BY <1>2
  <2> QED
    BY <2>1, <2>2 DEF Scanned
<1>11. Read'
  BY <1>1, <1>2, <1>4 DEF IInv, Read
<1>12. Final'
  BY <1>1, <1>4 DEF Final
<1> QED
  BY <1>5, <1>6, <1>7, <1>8, <1>9, <1>10, <1>11, <1>12 DEF IInv

(* The records of a directory. *)
LEMMA DirRecords ==
  ASSUME dir \in DirSets \cup {<<>>}
  PROVE  Len(dir) \in Nat /\ \A k \in 1 .. Len(dir) : dir[k] \in Records
<1>1. CASE dir \in DirSets
  <2>1. PICK n \in 1 .. MaxDir : dir \in [1 .. n -> Records]
    BY <1>1, Zenon DEF DirSets
  <2>2. n \in Nat
    BY <2>1, ScanAssumption
  <2>3. dir \in Seq(Records)
    BY <2>1, <2>2
  <2> QED
    BY <2>3
<1>2. CASE dir = <<>>
  BY <1>2
<1> QED
  BY <1>1, <1>2

(* A record has an inode or 0, and a name that is one of the three. *)
LEMMA RecordFields ==
  ASSUME NEW rec \in Records
  PROVE  rec.inode \in Inodes \cup {0} /\ (Begins(rec) <=> rec.name # "other")
<1>1. 1 \in Inodes
  BY InodeAssumption DEF Inodes
<1> QED
  BY <1>1 DEF Records, Begins

(* One record of a scan: past a record without the name, or on with the    *)
(* first that has it.                                                      *)
LEMMA ScanIInv ==
  ASSUME IInv, Scan
  PROVE  IInv'
<1>1. pc \in {20, 24} /\ halt = "no" /\ Len(Steps) = 39
  <2>1. TypeOK /\ At("scan")
    BY DEF IInv, Scan
  <2>2. pc \in 1 .. 39 /\ halt = "no" /\ Steps[pc].op = "scan"
    BY <2>1, AtSite
  <2>3. pc \in {20, 24} /\ halt = "no"
    BY <2>2, OpSites
  <2>4. Len(Steps) = 39
    BY Places
  <2> QED
    BY <2>3, <2>4
<1>2. /\ pools' = pools /\ ver' = ver /\ UNCHANGED found /\ UNCHANGED load
      /\ inode_tbl' = inode_tbl /\ inode' = inode /\ dir' = dir /\ blocks' = blocks /\ image' = image
  BY DEF Scan
<1>3. /\ block_io' = block_io /\ gpt_header' = gpt_header /\ bootdisk' = bootdisk
      /\ superblock' = superblock /\ part' = part
      /\ segs' = segs /\ mem_map' = mem_map /\ key' = key /\ acpi' = acpi /\ exited' = exited
  BY <1>2, Unchanged
<1>4. /\ tmp \in Nat /\ i \in Nat /\ Len(dir) \in Nat
      /\ \A k \in 1 .. Len(dir) : dir[k] \in Records
      /\ entry \in [{"root_dir", "boot_dir"} -> Inodes \cup {0}]
      /\ tmp >= 1 /\ \A k \in 1 .. Len(dir) : k < tmp => ~ Begins(dir[k])
  BY <1>1, DirRecords DEF IInv, TypeOK, Loops, Scanned
<1>5. /\ pc = 20 => Steps[pc].buf = "root_dir"
      /\ pc = 24 => Steps[pc].buf = "boot_dir"
  BY StepTable DEF S
<1>6. PICK rec \in IF tmp <= Len(dir) THEN {dir[tmp]} ELSE Records :
         \/ Begins(rec) /\ GoOn /\ entry' = [entry EXCEPT ![Steps[pc].buf] = rec.inode] /\ tmp' = 1
         \/ /\ ~ Begins(rec) /\ ~ rec.ok
            /\ halt' = "spin" /\ UNCHANGED <<pc, i, entry, tmp>>
         \/ /\ ~ Begins(rec) /\ rec.ok /\ i > Scans
            /\ Stuck /\ UNCHANGED <<entry, tmp>>
         \/ /\ ~ Begins(rec) /\ rec.ok /\ i <= Scans
            /\ i' = i + 1 /\ tmp' = tmp + 1 /\ UNCHANGED <<pc, halt, entry>>
  BY DEF Scan
<1>7. rec \in Records
  BY <1>4, <1>6
<1>8. CASE Begins(rec) /\ GoOn /\ entry' = [entry EXCEPT ![Steps[pc].buf] = rec.inode] /\ tmp' = 1
  <2>1. pc' = pc + 1 /\ i' = 0 /\ halt' = halt
    BY <1>8 DEF GoOn
  <2>2. rec.inode \in Inodes \cup {0}
    BY <1>7, RecordFields
  <2>3. entry' \in [{"root_dir", "boot_dir"} -> Inodes \cup {0}]
    BY <1>1, <1>4, <1>5, <1>8, <2>2
  <2>4. pc = 24 => entry'["boot_dir"] = rec.inode
    BY <1>4, <1>5, <1>8
  <2>5. TypeOK'
    <3>1. pc' \in 1 .. (Len(Steps) + 1) /\ i' \in Nat /\ tmp' \in Nat
      BY <1>1, <1>8, <2>1
    <3>2. \A d \in DOMAIN entry' : entry'[d] \in Inodes \cup {0}
      BY <2>3
    <3> QED
      BY <1>2, <1>3, <2>1, <3>1, <3>2, Zenon DEF IInv, TypeOK
  <2>6. Loops'
    BY <1>1, <1>2, <1>3, <2>1, <2>3 DEF IInv, Loops
  <2>7. Live'
    BY <1>1, <1>2, <2>1 DEF IInv, Live
  <2>8. Holds'
    BY <1>1, <1>2, <2>1 DEF IInv, Holds
  <2>9. Search'
    BY <1>1, <1>3, <2>1 DEF IInv, Search, OneDisk
  <2>10. Scanned'
    <3>1. ASSUME NEW j \in 1 .. Len(dir), KernelRecord(j)
          PROVE  rec.inode = dir[j].inode
      <4>1. dir[j].name = "sought" /\ \A k \in 1 .. (j - 1) : dir[k].name = "other"
        BY <3>1 DEF KernelRecord
      <4>2. Begins(dir[j])
        BY <4>1 DEF Begins
      <4>3. tmp <= j /\ tmp <= Len(dir) /\ tmp \in 1 .. Len(dir) /\ j \in Nat
        BY <1>4, <4>2
      <4>4. rec = dir[tmp] /\ rec.name # "other"
        BY <1>6, <1>7, <1>8, <4>3, RecordFields
      <4>5. ~ (tmp < j)
        <5>1. tmp < j => tmp \in 1 .. (j - 1)
          BY <1>4, <4>3
        <5> QED
          BY <4>1, <4>4, <5>1
      <4>6. tmp = j
        BY <1>4, <4>3, <4>5
      <4> QED
        BY <4>4, <4>6
    <3>2. pc = 24 => Taken'
      BY <1>2, <2>4, <3>1 DEF Taken, KernelRecord
    <3>3. pc' \in {21, 25} /\ (pc' = 25 => pc = 24)
      BY <1>1, <2>1
    <3> QED
      BY <3>2, <3>3 DEF Scanned
  <2>11. Read'
    BY <1>1, <1>2, <2>1 DEF IInv, Read
  <2>12. Final'
    BY <1>1, <2>1 DEF Final
  <2> QED
    BY <2>5, <2>6, <2>7, <2>8, <2>9, <2>10, <2>11, <2>12 DEF IInv
<1>9. CASE /\ pc' = pc /\ i' = i /\ halt' \in {"stuck", "spin"} /\ entry' = entry /\ tmp' = tmp
  <2>1. UNCHANGED tree
    BY <1>2, <1>9 DEF tree
  <2> QED
    BY <1>1, <1>2, <1>3, <1>4, <1>9, <2>1, StopKeeps
<1>10. CASE ~ Begins(rec) /\ i' = i + 1 /\ tmp' = tmp + 1 /\ UNCHANGED <<pc, halt, entry>>
  <2>1. pc' = pc /\ halt' = halt /\ entry' = entry /\ i' \in Nat /\ tmp' \in Nat
    BY <1>4, <1>10
  <2>2. TypeOK'
    BY <1>2, <1>3, <2>1, Zenon DEF IInv, TypeOK
  <2>3. Loops'
    BY <1>1, <1>2, <1>3, <2>1 DEF IInv, Loops
  <2>4. Live' /\ Holds'
    BY <1>1, <1>2, <2>1 DEF IInv, Live, Holds
  <2>5. Search'
    BY <1>1, <1>3, <2>1 DEF IInv, Search, OneDisk
  <2>6. Scanned'
    <3>1. ASSUME NEW k \in 1 .. Len(dir), k < tmp + 1
          PROVE  ~ Begins(dir[k])
      <4>1. k < tmp \/ k = tmp
        BY <1>4, <3>1
      <4>2. k = tmp => rec = dir[k]
        BY <1>4, <1>6
      <4> QED
        BY <1>4, <1>10, <4>1, <4>2
    <3>2. tmp' >= 1 /\ \A k \in 1 .. Len(dir') : k < tmp' => ~ Begins(dir'[k])
      BY <1>2, <1>4, <1>10, <3>1
    <3>3. pc' \notin 25 .. 28 /\ pc' \notin 26 .. 28
      BY <1>1, <2>1
    <3> QED
      BY <3>2, <3>3 DEF Scanned
  <2>7. Read'
    BY <1>1, <1>2, <2>1 DEF IInv, Read
  <2>8. Final'
    BY <1>1, <2>1 DEF Final
  <2> QED
    BY <2>2, <2>3, <2>4, <2>5, <2>6, <2>7, <2>8 DEF IInv
<1> QED
  BY <1>6, <1>8, <1>9, <1>10 DEF Stuck

-----------------------------------------------------------------------------
(* The kernel file, its segments and what the kernel is given. *)

(* The blocks read so far, and the next one appended. *)
LEMMA NextBlock ==
  ASSUME NEW ino, NEW n \in Nat
  PROVE  /\ Len(Blocks(ino, n)) = n
         /\ Append(Blocks(ino, n), <<ino, IF n < DIRECT THEN n ELSE -1>>) = Blocks(ino, n + 1)
<1> DEFINE B(b) == <<ino, IF b - 1 < DIRECT THEN b - 1 ELSE -1>>
           T == {B(b) : b \in 1 .. (n + 1)}
<1>1. Blocks(ino, n) = [b \in 1 .. n |-> B(b)] /\ Blocks(ino, n + 1) = [b \in 1 .. (n + 1) |-> B(b)]
  BY DEF Blocks
<1>2. <<ino, IF n < DIRECT THEN n ELSE -1>> = B(n + 1)
  OBVIOUS
<1> HIDE DEF B
<1>3. \A b \in 1 .. (n + 1) : B(b) \in T
  OBVIOUS
<1> HIDE DEF T
<1>4. Blocks(ino, n) \in Seq(T) /\ Len(Blocks(ino, n)) = n
  <2>1. Blocks(ino, n) \in [1 .. n -> T]
    BY <1>1, <1>3
  <2> QED
    BY <1>1, <2>1
<1>5. B(n + 1) \in T
  BY <1>3
<1>6. Append(Blocks(ino, n), B(n + 1)) = [b \in 1 .. (n + 1) |-> B(b)]
  <2> DEFINE a == Append(Blocks(ino, n), B(n + 1))
  <2>1. a \in Seq(T) /\ Len(a) = n + 1
    BY <1>4, <1>5
  <2>2. \A b \in 1 .. n : a[b] = B(b)
    BY <1>1, <1>4, <1>5
  <2>3. a[n + 1] = B(n + 1)
    BY <1>4, <1>5
  <2>4. a = [b \in 1 .. (n + 1) |-> a[b]]
    BY <2>1
  <2> HIDE DEF a
  <2>5. \A b \in 1 .. (n + 1) : a[b] = B(b)
    BY <2>2, <2>3
  <2>6. [b \in 1 .. (n + 1) |-> a[b]] = [b \in 1 .. (n + 1) |-> B(b)]
    BY <2>5
  <2> QED
    BY <2>4, <2>6 DEF a
<1> QED
  BY <1>1, <1>2, <1>4, <1>6

(* A block of the kernel file. *)
LEMMA ReadBlocksIInv ==
  ASSUME IInv, ReadBlocks
  PROVE  IInv'
<1>1. pc = 27 /\ halt = "no"
  <2>1. TypeOK /\ At("blocks")
    BY DEF IInv, ReadBlocks
  <2>2. pc \in 1 .. 39 /\ halt = "no" /\ Steps[pc].op = "blocks"
    BY <2>1, AtSite
  <2>3. pc = 27 /\ halt = "no"
    BY <2>2, OpSites
  <2> QED
    BY <2>3
<1>2. /\ pools' = pools /\ ver' = ver /\ UNCHANGED found /\ UNCHANGED load
      /\ inode_tbl' = inode_tbl /\ inode' = inode /\ dir' = dir /\ tmp' = tmp /\ entry' = entry
      /\ blocks' = blocks
      /\ \/ i = blocks /\ GoOn /\ image' = image
         \/ Stuck /\ image' = image
         \/ /\ i < blocks /\ i' = i + 1 /\ pc' = pc /\ halt' = halt
            /\ image' = Append(image, <<inode, IF i < DIRECT THEN i ELSE -1>>)
  BY DEF ReadBlocks
<1>3. /\ block_io' = block_io /\ gpt_header' = gpt_header /\ bootdisk' = bootdisk
      /\ superblock' = superblock /\ part' = part
      /\ segs' = segs /\ mem_map' = mem_map /\ key' = key /\ acpi' = acpi /\ exited' = exited
  BY <1>2, Unchanged
<1>4. CASE i = blocks /\ GoOn /\ image' = image
  <2>1. Live' /\ ver' \in Nat
    BY <1>1, <1>2, <1>4 DEF IInv, Live, Loops, GoOn
  <2> QED
    BY <1>1, <1>2, <1>3, <1>4, <2>1, GoOnKeeps
<1>5. CASE Stuck /\ image' = image
  <2>1. UNCHANGED tree
    BY <1>2, <1>5 DEF tree
  <2> QED
    BY <1>2, <1>3, <1>5, <2>1, StuckKeeps
<1>6. CASE /\ i < blocks /\ i' = i + 1 /\ pc' = pc /\ halt' = halt
           /\ image' = Append(image, <<inode, IF i < DIRECT THEN i ELSE -1>>)
  <2>1. i \in Nat /\ blocks \in Nat /\ image = Blocks(inode, i)
    BY <1>1 DEF IInv, TypeOK, Loops, Read
  <2>2. image' = Blocks(inode, i + 1) /\ Len(image') = i + 1
    <3>1. PICK n \in Nat : n = i
      BY <2>1
    <3>2. PICK ino : ino = inode
      OBVIOUS
    <3>3. Append(Blocks(ino, n), <<ino, IF n < DIRECT THEN n ELSE -1>>) = Blocks(ino, n + 1)
      BY <3>1, NextBlock
    <3>4. Len(Blocks(ino, n + 1)) = n + 1
      BY <3>1, NextBlock
    <3> QED
      BY <1>6, <2>1, <3>1, <3>2, <3>3, <3>4
  <2>3. TypeOK'
    <3>1. i' \in Nat /\ Len(image') <= blocks'
      BY <1>2, <1>6, <2>1, <2>2
    <3> QED
      BY <1>2, <1>3, <1>6, <3>1, Zenon DEF IInv, TypeOK
  <2>4. Loops'
    BY <1>1, <1>2, <1>3, <1>6, <2>1 DEF IInv, Loops
  <2>5. Live' /\ Holds'
    BY <1>1, <1>2, <1>6 DEF IInv, Live, Holds
  <2>6. Search'
    BY <1>1, <1>3, <1>6 DEF IInv, Search, OneDisk
  <2>7. Scanned'
    <3>1. Taken => Taken'
      BY <1>2 DEF Taken, KernelRecord
    <3> QED
      BY <1>1, <1>2, <1>6, <3>1 DEF IInv, Scanned
  <2>8. Read'
    <3>1. image' = Blocks(inode', i') /\ pc' = 27
      BY <1>1, <1>2, <1>6, <2>2
    <3> QED
      BY <3>1 DEF Read, Blocks
  <2>9. Final'
    BY <1>1, <1>6 DEF Final
  <2> QED
    BY <2>3, <2>4, <2>5, <2>6, <2>7, <2>8, <2>9 DEF IInv
<1> QED
  BY <1>2, <1>4, <1>5, <1>6

(* From the kernel file on, what the walk left is not touched. *)
LEMMA LateKeeps ==
  ASSUME IInv, pc \in 33 .. 40, pc' \in 33 .. 40, UNCHANGED found, UNCHANGED tree, pools' = pools,
         (pc \notin 38 .. 40) => (pc' \notin 38 .. 40 \/ "mem_map" \in pools),
         (pc \notin 35 .. 40) => pc' \notin 35 .. 40
  PROVE  Live' /\ Holds' /\ Search' /\ Scanned' /\ Read'
<1>1. /\ block_io' = block_io /\ gpt_header' = gpt_header /\ bootdisk' = bootdisk
      /\ superblock' = superblock /\ part' = part
      /\ inode_tbl' = inode_tbl /\ inode' = inode /\ dir' = dir /\ tmp' = tmp
      /\ entry' = entry /\ blocks' = blocks /\ image' = image
  BY Unchanged
<1>2. Live'
  BY DEF IInv, Live
<1>3. Holds'
  BY <1>1 DEF IInv, Holds
<1>4. Search'
  BY <1>1 DEF IInv, Search, OneDisk
<1>5. Scanned'
  BY DEF Scanned
<1>6. Read'
  <2>1. image = Blocks(inode, blocks)
    BY DEF IInv, Read
  <2>2. image' = Blocks(inode', blocks') /\ pc' \in 33 .. 40
    BY <1>1, <2>1
  <2> QED
    BY <2>2 DEF Read, Blocks
<1> QED
  BY <1>2, <1>3, <1>4, <1>5, <1>6

(* One program header. *)
LEMMA SegmentsIInv ==
  ASSUME IInv, Segments
  PROVE  IInv'
<1>1. /\ pc = 35 /\ halt = "no"
      /\ i \in Nat /\ ver \in Nat /\ segs \in Nat /\ segs <= i /\ NSegs \in Nat
  <2>1. pc = 35 /\ halt = "no"
    <3>1. TypeOK /\ At("segments")
      BY DEF IInv, Segments
    <3>2. pc \in 1 .. 39 /\ halt = "no" /\ Steps[pc].op = "segments"
      BY <3>1, AtSite
    <3>3. pc = 35 /\ halt = "no"
      BY <3>2, OpSites
    <3> QED
      BY <3>3
  <2> QED
    BY <2>1, OtherAssumption DEF IInv, TypeOK, Loops
<1>2. /\ pools' = pools /\ UNCHANGED found /\ UNCHANGED tree
      /\ mem_map' = mem_map /\ key' = key /\ acpi' = acpi /\ exited' = exited
      /\ \/ GoOn /\ segs' = segs /\ ver' = ver
         \/ Stuck /\ segs' = segs /\ ver' = ver
         \/ /\ i < NSegs /\ i' = i + 1 /\ pc' = pc /\ halt' = halt
            /\ segs' \in {segs, segs + 1} /\ ver' \in {ver, ver + 1}
  BY DEF Segments
<1>3. CASE GoOn /\ segs' = segs /\ ver' = ver
  <2>1. Live' /\ ver' \in Nat
    BY <1>1, <1>2, <1>3 DEF IInv, Live, Loops, GoOn
  <2> QED
    BY <1>1, <1>2, <1>3, <2>1, GoOnKeeps, Unchanged
<1>4. CASE Stuck /\ segs' = segs /\ ver' = ver
  BY <1>2, <1>4, StuckKeeps
<1>5. CASE /\ i < NSegs /\ i' = i + 1 /\ pc' = pc /\ halt' = halt
           /\ segs' \in {segs, segs + 1} /\ ver' \in {ver, ver + 1}
  <2>1. /\ block_io' = block_io /\ gpt_header' = gpt_header /\ bootdisk' = bootdisk
        /\ superblock' = superblock /\ part' = part
        /\ inode_tbl' = inode_tbl /\ inode' = inode /\ dir' = dir /\ tmp' = tmp
        /\ entry' = entry /\ blocks' = blocks /\ image' = image
    BY <1>2, Unchanged
  <2>2. i' \in Nat /\ segs' \in 0 .. NSegs /\ segs' <= i' /\ i' <= NSegs /\ ver' \in Nat
    BY <1>1, <1>5
  <2>3. TypeOK'
    BY <1>2, <1>5, <2>1, <2>2, Zenon DEF IInv, TypeOK
  <2>4. Loops'
    BY <1>1, <1>2, <1>5, <2>1, <2>2 DEF IInv, Loops
  <2>5. Live' /\ Holds' /\ Search' /\ Scanned' /\ Read'
    BY <1>1, <1>2, <1>5, LateKeeps
  <2>6. Final'
    BY <1>1, <1>5 DEF Final
  <2> QED
    BY <2>3, <2>4, <2>5, <2>6 DEF IInv
<1> QED
  BY <1>2, <1>3, <1>4, <1>5

(* The memory map is taken with everything that is allocated in it, and    *)
(* only into a buffer that is.                                             *)
LEMMA GetMemoryMapIInv ==
  ASSUME IInv, GetMemoryMap
  PROVE  IInv'
<1>1. pc = 37 /\ halt = "no"
  <2>1. TypeOK /\ At("map")
    BY DEF IInv, GetMemoryMap
  <2>2. pc \in 1 .. 39 /\ halt = "no" /\ Steps[pc].op = "map"
    BY <2>1, AtSite
  <2>3. pc = 37 /\ halt = "no"
    BY <2>2, OpSites
  <2> QED
    BY <2>3
<1>2. /\ pools' = pools /\ ver' = ver /\ UNCHANGED found /\ UNCHANGED tree
      /\ segs' = segs /\ acpi' = acpi /\ exited' = exited
      /\ \/ "mem_map" \in pools /\ GoOn /\ mem_map' = {InUse} /\ key' = ver
         \/ Stuck /\ mem_map' = mem_map /\ key' = key
  BY DEF GetMemoryMap
<1>3. CASE "mem_map" \in pools /\ GoOn /\ mem_map' = {InUse} /\ key' = ver
  <2>1. /\ block_io' = block_io /\ gpt_header' = gpt_header /\ bootdisk' = bootdisk
        /\ superblock' = superblock /\ part' = part
        /\ inode_tbl' = inode_tbl /\ inode' = inode /\ dir' = dir /\ tmp' = tmp
        /\ entry' = entry /\ blocks' = blocks /\ image' = image
    BY <1>2, Unchanged
  <2>2. pc' = 38 /\ i' = 0 /\ halt' = halt
    BY <1>1, <1>3 DEF GoOn
  <2>3. TypeOK'
    <3>1. pc' \in 1 .. (Len(Steps) + 1) /\ i' \in Nat
      <4>1. Len(Steps) = 39
        BY Places
      <4> QED
        BY <2>2, <4>1
    <3> QED
      BY <1>2, <2>1, <2>2, <3>1, Zenon DEF IInv, TypeOK
  <2>4. Loops'
    BY <1>1, <1>2, <1>3, <2>1, <2>2 DEF IInv, Loops
  <2>5. Live' /\ Holds' /\ Search' /\ Scanned' /\ Read'
    BY <1>1, <1>2, <1>3, <2>2, LateKeeps
  <2>6. Final'
    BY <1>2, <1>3, <2>2 DEF Final, InUse
  <2> QED
    BY <2>3, <2>4, <2>5, <2>6 DEF IInv
<1>4. CASE Stuck /\ mem_map' = mem_map /\ key' = key
  BY <1>2, <1>4, StuckKeeps
<1> QED
  BY <1>2, <1>3, <1>4

(* One counter through three sums: when it is 0 after each, each is.       *)
LEMMA EachSumZero ==
  ASSUME NEW a \in Acpi, XsdtChecks(a)
  PROVE  a.sign /\ a.sum20 = 0 /\ a.sum36 = 0 /\ a.sumXsdt = 0
<1>1. a.sum20 \in Sums /\ a.sum36 \in Sums /\ a.sumXsdt \in Sums
  BY DEF Acpi
<1>2. \A x \in Sums : (0 + x) % CHK = 0 => x = 0
  <2>1. SUFFICES ASSUME NEW x \in Sums
                 PROVE  x % CHK = x /\ 0 + x = x
    OBVIOUS
  <2>2. CHK \in Nat /\ CHK > 0 /\ x \in 0 .. (CHK - 1)
    BY OtherAssumption DEF Sums
  <2> QED
    BY <2>2
<1>3. /\ a.sign /\ a.sum20 = 0
      /\ (a.sum20 + a.sum36) % CHK = 0
      /\ (((a.sum20 + a.sum36) % CHK) + a.sumXsdt) % CHK = 0
  BY DEF XsdtChecks
<1>4. a.sum36 = 0
  BY <1>1, <1>2, <1>3
<1>5. (0 + a.sumXsdt) % CHK = 0
  BY <1>3
<1> QED
  BY <1>1, <1>2, <1>3, <1>4, <1>5

(* The ACPI tables are checked. *)
LEMMA XsdtIInv ==
  ASSUME IInv, Xsdt
  PROVE  IInv'
<1>1. pc = 38 /\ halt = "no"
  <2>1. TypeOK /\ At("xsdt")
    BY DEF IInv, Xsdt
  <2>2. pc \in 1 .. 39 /\ halt = "no" /\ Steps[pc].op = "xsdt"
    BY <2>1, AtSite
  <2>3. pc = 38 /\ halt = "no"
    BY <2>2, OpSites
  <2> QED
    BY <2>3
<1>2. /\ pools' = pools /\ ver' = ver /\ UNCHANGED found /\ UNCHANGED tree
      /\ segs' = segs /\ mem_map' = mem_map /\ key' = key /\ exited' = exited /\ acpi' \in Acpi
      /\ ((acpi'.present => XsdtChecks(acpi')) /\ GoOn) \/ Stuck
  BY DEF Xsdt
<1>3. /\ block_io' = block_io /\ gpt_header' = gpt_header /\ bootdisk' = bootdisk
      /\ superblock' = superblock /\ part' = part
      /\ inode_tbl' = inode_tbl /\ inode' = inode /\ dir' = dir /\ tmp' = tmp
      /\ entry' = entry /\ blocks' = blocks /\ image' = image
  BY <1>2, Unchanged
<1>4. /\ pc' \in {38, 39} /\ i' \in Nat /\ halt' \in {"no", "stuck", "spin"}
      /\ (pc' = 39 /\ acpi'.present) => XsdtChecks(acpi')
  BY <1>1, <1>2 DEF IInv, TypeOK, GoOn, Stuck
<1>5. TypeOK'
  <2>1. pc' \in 1 .. (Len(Steps) + 1)
    <3>1. Len(Steps) = 39
      BY Places
    <3> QED
      BY <1>4, <3>1
  <2> QED
    BY <1>2, <1>3, <1>4, <2>1, Zenon DEF IInv, TypeOK
<1>6. Loops'
  BY <1>1, <1>2, <1>3, <1>4 DEF IInv, Loops
<1>7. Live' /\ Holds' /\ Search' /\ Scanned' /\ Read'
  BY <1>1, <1>2, <1>4, LateKeeps
<1>8. Final'
  <2>1. mem_map' = {InUse'} /\ key' = ver'
    BY <1>1, <1>2 DEF IInv, Final, InUse
  <2>2. (pc' >= 39 /\ acpi'.present) =>
          acpi'.sign /\ acpi'.sum20 = 0 /\ acpi'.sum36 = 0 /\ acpi'.sumXsdt = 0
    <3>1. PICK a \in Acpi : a = acpi'
      BY <1>2
    <3> QED
      BY <1>4, <3>1, EachSumZero
  <2> QED
    BY <1>4, <2>1, <2>2 DEF Final, InUse
<1> QED
  BY <1>5, <1>6, <1>7, <1>8 DEF IInv

(* The hand-over: the key is the current one unless the console allocated. *)
LEMMA ExitIInv ==
  ASSUME IInv, Exit
  PROVE  IInv'
<1>1. pc = 39 /\ halt = "no"
  <2>1. TypeOK /\ At("exit")
    BY DEF IInv, Exit
  <2>2. pc \in 1 .. 39 /\ halt = "no" /\ Steps[pc].op = "exit"
    BY <2>1, AtSite
  <2>3. pc = 39 /\ halt = "no"
    BY <2>2, OpSites
  <2> QED
    BY <2>3
<1>2. /\ pools' = pools /\ UNCHANGED found /\ UNCHANGED tree
      /\ segs' = segs /\ mem_map' = mem_map /\ key' = key /\ acpi' = acpi
      /\ ver' \in {ver, ver + 1} /\ exited' = (key = ver') /\ GoOn
  BY DEF Exit
<1>3. /\ block_io' = block_io /\ gpt_header' = gpt_header /\ bootdisk' = bootdisk
      /\ superblock' = superblock /\ part' = part
      /\ inode_tbl' = inode_tbl /\ inode' = inode /\ dir' = dir /\ tmp' = tmp
      /\ entry' = entry /\ blocks' = blocks /\ image' = image
  BY <1>2, Unchanged
<1>4. pc' = 40 /\ i' = 0 /\ halt' = halt
  BY <1>1, <1>2 DEF GoOn
<1>5. TypeOK'
  <2>1. pc' \in 1 .. (Len(Steps) + 1) /\ i' \in Nat
    <3>1. Len(Steps) = 39
      BY Places
    <3> QED
      BY <1>4, <3>1
  <2> QED
    BY <1>2, <1>3, <1>4, <2>1, Zenon DEF IInv, TypeOK
<1>6. Loops'
  BY <1>1, <1>2, <1>3, <1>4 DEF IInv, Loops
<1>7. Live' /\ Holds' /\ Search' /\ Scanned' /\ Read'
  BY <1>1, <1>2, <1>4, LateKeeps
<1>8. Final'
  <2>1. mem_map' = {InUse'} /\ ver' \in {key', key' + 1}
    BY <1>1, <1>2 DEF IInv, Final, InUse
  <2>2. exited' <=> (key' = ver')
    BY <1>2
  <2>3. acpi'.present => acpi'.sign /\ acpi'.sum20 = 0 /\ acpi'.sum36 = 0 /\ acpi'.sumXsdt = 0
    BY <1>1, <1>2 DEF IInv, Final
  <2> QED
    BY <1>4, <2>1, <2>2, <2>3 DEF Final, InUse
<1> QED
  BY <1>5, <1>6, <1>7, <1>8 DEF IInv

-----------------------------------------------------------------------------
(* efi_main begins with nothing found and nothing allocated. *)
LEMMA InitIInv ==
  ASSUME Init
  PROVE  IInv
<1>1. Len(Steps) = 39
  BY Places
<1>2. /\ pc = 1 /\ i = 0 /\ halt = "no" /\ ver = 0 /\ key = 0 /\ segs = 0 /\ blocks = 0
      /\ block_io = 0 /\ gpt_header = 0 /\ bootdisk = 0 /\ superblock = 0 /\ part = 0
      /\ inode_tbl = "none" /\ inode = 0 /\ tmp = 1 /\ image = <<>> /\ dir = <<>>
      /\ entry = [root_dir |-> 0, boot_dir |-> 0]
      /\ acpi = [present |-> FALSE, sign |-> FALSE, sum20 |-> 0, sum36 |-> 0, sumXsdt |-> 0]
  BY DEF Init
<1>3. entry \in [{"root_dir", "boot_dir"} -> Inodes \cup {0}]
  BY <1>2
<1>4. acpi \in Acpi
  <2>1. 0 \in Sums
    BY OtherAssumption DEF Sums
  <2> QED
    BY <1>2, <2>1 DEF Acpi
<1>5. TypeOK
  <2>1. /\ 0 \in 0 .. NDisks /\ 0 \in 0 .. NParts /\ 0 \in 0 .. NSegs /\ 0 \in 0 .. (2 * GROUP)
        /\ 0 <= MaxBlocks /\ Len(image) <= blocks
    BY <1>2, DiskAssumption, OtherAssumption, InodeAssumption, BlockAssumption
  <2>2. pc \in 1 .. (Len(Steps) + 1) /\ i \in Nat /\ tmp \in Nat
    BY <1>1, <1>2
  <2>3. \A d \in DOMAIN entry : entry[d] \in Inodes \cup {0}
    BY <1>3
  <2>4. halt \in {"no", "stuck", "spin"} /\ inode_tbl \in {"none", "root", "boot", "kernel"}
        /\ dir \in DirSets \cup {<<>>}
    BY <1>2
  <2> QED
    BY <1>2, <1>4, <2>1, <2>2, <2>3, <2>4 DEF TypeOK
<1>6. Loops
  BY <1>2, <1>3 DEF Loops
<1>7. Live /\ Holds
  BY <1>2 DEF Live, Holds
<1>8. Search
  BY <1>2 DEF Search, OneDisk
<1>9. Scanned
  BY <1>2 DEF Scanned
<1>10. Read /\ Final
  BY <1>2 DEF Read, Final
<1> QED
  BY <1>5, <1>6, <1>7, <1>8, <1>9, <1>10 DEF IInv

(* A loader that has stopped, or whose kernel runs, does nothing. *)
LEMMA StutterIInv ==
  ASSUME IInv, UNCHANGED vars
  PROVE  IInv'
<1>1. /\ pc' = pc /\ i' = i /\ halt' = halt /\ pools' = pools /\ ver' = ver
      /\ UNCHANGED found /\ UNCHANGED tree /\ UNCHANGED load
  BY DEF vars
<1>2. i \in Nat /\ halt \in {"no", "stuck", "spin"}
  BY DEF IInv, TypeOK
<1> QED
  BY <1>1, <1>2, StopKeeps, Unchanged

(* Every step of efi_main keeps the invariant. *)
LEMMA NextIInv ==
  ASSUME IInv, [Next]_vars
  PROVE  IInv'
<1>1. CASE Call
  BY <1>1, CallIInv
<1>2. CASE AllocatePool
  BY <1>2, AllocatePoolIInv
<1>3. CASE FreePool
  BY <1>3, FreePoolIInv
<1>4. CASE Modes
  BY <1>4, ModesIInv
<1>5. CASE FindDiskStep
  BY <1>5, FindDiskIInv
<1>6. CASE FindPartitionStep
  BY <1>6, FindPartitionIInv
<1>7. CASE ReadInode
  BY <1>7, ReadInodeIInv
<1>8. CASE ReadDir
  BY <1>8, ReadDirIInv
<1>9. CASE Scan
  BY <1>9, ScanIInv
<1>10. CASE ReadBlocks
  BY <1>10, ReadBlocksIInv
<1>11. CASE ElfHeader
  BY <1>11, ElfHeaderIInv
<1>12. CASE Segments
  BY <1>12, SegmentsIInv
<1>13. CASE AllocMap
  BY <1>13, AllocMapIInv
<1>14. CASE GetMemoryMap
  BY <1>14, GetMemoryMapIInv
<1>15. CASE Xsdt
  BY <1>15, XsdtIInv
<1>16. CASE Exit
  BY <1>16, ExitIInv
<1>17. CASE UNCHANGED vars
  BY <1>17, StutterIInv
<1> QED
  BY <1>1, <1>2, <1>3, <1>4, <1>5, <1>6, <1>7, <1>8, <1>9, <1>10, <1>11, <1>12, <1>13, <1>14,
     <1>15, <1>16, <1>17 DEF Next, Loader, Halted

(* IInv always holds, whatever the firmware's calls return and whatever is *)
(* on the disk.                                                            *)
THEOREM Invariance == Spec => []IInv
<1>1. Init => IInv
  BY InitIInv
<1>2. IInv /\ [Next]_vars => IInv'
  BY NextIInv
<1> QED
  BY <1>1, <1>2, PTL DEF Spec

-----------------------------------------------------------------------------
(* What the invariant says of the properties of Bootloader. *)

(* Every buffer a step uses is live when efi_main comes to the step. *)
LEMMA LiveUses ==
  ASSUME IInv
  PROVE  BuffersLive
<1>1. SUFFICES ASSUME Running
               PROVE  Steps[pc].uses \subseteq pools
  BY DEF BuffersLive, IInv
<1>2. pc \in 1 .. 39 /\ Live
  BY <1>1, Places DEF Running, IInv, TypeOK
<1>3. CASE pc \in 1 .. 6
  <2>1. /\ Steps[1].uses = {} /\ Steps[2].uses = {} /\ Steps[3].uses = {} /\ Steps[4].uses = {}
        /\ Steps[5].uses = {} /\ Steps[6].uses = {"gpt_header"}
    BY StepTable DEF S
  <2> QED
    BY <1>2, <1>3, <2>1 DEF Live
<1>4. CASE pc \in 7 .. 12
  <2>1. /\ Steps[7].uses = {"gpt_header"} /\ Steps[8].uses = {} /\ Steps[9].uses = {"part_tbl"}
        /\ Steps[10].uses = {"part_tbl", "primary_part"} /\ Steps[11].uses = {"part_tbl"}
        /\ Steps[12].uses = {"gpt_header"}
    BY StepTable DEF S
  <2> QED
    BY <1>2, <1>4, <2>1 DEF Live
<1>5. CASE pc \in 13 .. 19
  <2>1. /\ Steps[13].uses = {"primary_part"} /\ Steps[14].uses = {}
        /\ Steps[15].uses = {"group_desc_tbl"} /\ Steps[16].uses = {"inode_tbl", "group_desc_tbl"}
        /\ Steps[17].uses = {"inode_tbl"} /\ Steps[18].uses = {"inode_tbl"}
        /\ Steps[19].uses = {"inode_tbl", "root_dir"}
    BY StepTable DEF S
  <2> QED
    BY <1>2, <1>5, <2>1 DEF Live
<1>6. CASE pc \in 20 .. 27
  <2>1. /\ Steps[20].uses = {"root_dir", "inode_tbl"}
        /\ Steps[21].uses = {"inode_tbl", "group_desc_tbl", "root_dir"}
        /\ Steps[22].uses = {"inode_tbl", "root_dir"} /\ Steps[23].uses = {"inode_tbl", "boot_dir"}
        /\ Steps[24].uses = {"boot_dir", "inode_tbl"}
        /\ Steps[25].uses = {"inode_tbl", "group_desc_tbl", "boot_dir"}
        /\ Steps[26].uses = {"inode_tbl", "boot_dir"} /\ Steps[27].uses = {"inode_tbl", "kernel_file"}
    BY StepTable DEF S
  <2> QED
    BY <1>2, <1>6, <2>1 DEF Live
<1>7. CASE pc \in 28 .. 39
  <2>1. /\ Steps[28].uses = {"group_desc_tbl"} /\ Steps[29].uses = {"primary_part"}
        /\ Steps[30].uses = {"inode_tbl"} /\ Steps[31].uses = {"root_dir"}
        /\ Steps[32].uses = {"boot_dir"} /\ Steps[33].uses = {"kernel_file"}
        /\ Steps[34].uses = {"kernel_file"} /\ Steps[35].uses = {"phdr_buffer", "kernel_file"}
        /\ Steps[36].uses = {} /\ Steps[37].uses = {} /\ Steps[38].uses = {}
        /\ Steps[39].uses = {"mem_map"}
    BY StepTable DEF S
  <2> QED
    BY <1>2, <1>7, <2>1 DEF Live
<1> QED
  BY <1>2, <1>3, <1>4, <1>5, <1>6, <1>7

(* The inode a step reads through a pointer is the one in the buffer. *)
LEMMA HoldsFresh ==
  ASSUME IInv
  PROVE  InodeFresh
<1>1. SUFFICES ASSUME Running, Steps[pc].ptr # "none"
               PROVE  inode_tbl = Steps[pc].ptr
  BY DEF InodeFresh
<1>2. pc \in 1 .. 39 /\ Holds
  BY <1>1, Places DEF Running, IInv, TypeOK
<1>3. /\ \A k \in (1 .. 16) \cup (28 .. 39) : Steps[k].ptr = "none"
      /\ Steps[17].ptr = "root" /\ Steps[18].ptr = "root" /\ Steps[19].ptr = "root"
      /\ Steps[20].ptr = "root" /\ Steps[21].ptr = "none" /\ Steps[22].ptr = "boot"
      /\ Steps[23].ptr = "boot" /\ Steps[24].ptr = "boot" /\ Steps[25].ptr = "none"
      /\ Steps[26].ptr = "kernel" /\ Steps[27].ptr = "kernel"
  <2>1. /\ Steps[17].ptr = "root" /\ Steps[18].ptr = "root" /\ Steps[19].ptr = "root"
        /\ Steps[20].ptr = "root" /\ Steps[21].ptr = "none" /\ Steps[22].ptr = "boot"
        /\ Steps[23].ptr = "boot" /\ Steps[24].ptr = "boot" /\ Steps[25].ptr = "none"
        /\ Steps[26].ptr = "kernel" /\ Steps[27].ptr = "kernel"
    BY StepTable DEF S
  <2>2. /\ Steps[1].ptr = "none" /\ Steps[2].ptr = "none" /\ Steps[3].ptr = "none" /\ Steps[4].ptr = "none"
        /\ Steps[5].ptr = "none" /\ Steps[6].ptr = "none" /\ Steps[7].ptr = "none" /\ Steps[8].ptr = "none"
        /\ Steps[9].ptr = "none" /\ Steps[10].ptr = "none" /\ Steps[11].ptr = "none"
        /\ Steps[12].ptr = "none" /\ Steps[13].ptr = "none" /\ Steps[14].ptr = "none"
        /\ Steps[15].ptr = "none" /\ Steps[16].ptr = "none"
    BY StepTable DEF S
  <2>3. /\ Steps[28].ptr = "none" /\ Steps[29].ptr = "none" /\ Steps[30].ptr = "none"
        /\ Steps[31].ptr = "none" /\ Steps[32].ptr = "none" /\ Steps[33].ptr = "none"
        /\ Steps[34].ptr = "none" /\ Steps[35].ptr = "none" /\ Steps[36].ptr = "none"
        /\ Steps[37].ptr = "none" /\ Steps[38].ptr = "none" /\ Steps[39].ptr = "none"
    BY StepTable DEF S
  <2> QED
    BY <2>1, <2>2, <2>3
<1>4. pc \in 17 .. 27
  BY <1>1, <1>2, <1>3
<1> QED
  BY <1>1, <1>2, <1>3, <1>4 DEF Holds

(* The blocks read are those of the kernel's inode. *)
LEMMA ReadExact ==
  ASSUME IInv
  PROVE  ImageExact
<1>1. SUFFICES ASSUME Running, Steps[pc].op = "free", Steps[pc].buf = "group_desc_tbl", blocks <= DIRECT,
                      NEW j \in 1 .. Len(dir), KernelRecord(j), InFirstBlock(dir[j].inode)
               PROVE  image = [b \in 1 .. blocks |-> <<dir[j].inode, b - 1>>]
  BY DEF ImageExact
<1>2. pc = 28
  <2>1. pc \in 1 .. 39
    BY <1>1, Places DEF Running, IInv, TypeOK
  <2>2. pc \in {11, 12, 28, 29, 30, 31, 32}
    BY <1>1, <2>1, OpSites
  <2>3. /\ Steps[11].buf = "part_tbl" /\ Steps[12].buf = "gpt_header"
        /\ Steps[29].buf = "primary_part" /\ Steps[30].buf = "inode_tbl"
        /\ Steps[31].buf = "root_dir" /\ Steps[32].buf = "boot_dir"
    BY StepTable DEF S
  <2> QED
    BY <1>1, <2>2, <2>3
<1>3. /\ entry["boot_dir"] = dir[j].inode /\ inode = InodeAt(entry["boot_dir"])
      /\ entry["boot_dir"] \in Inodes \cup {0} /\ blocks \in Nat /\ image = Blocks(inode, blocks)
  BY <1>1, <1>2 DEF IInv, Scanned, Taken, Loops, Read
<1>4. PICK n \in Inodes \cup {0} : n = dir[j].inode
  BY <1>3
<1>5. n \in Inodes
  BY <1>1, <1>4 DEF KernelRecord
<1>6. InFirstBlock(n)
  BY <1>1, <1>4 DEF InFirstBlock
<1>7. InodeAt(n) = n
  BY <1>4, <1>5, <1>6, InodeAtIs
<1>8. inode = n
  BY <1>3, <1>4, <1>7
<1>9. \A b \in 1 .. blocks : (IF b - 1 < DIRECT THEN b - 1 ELSE -1) = b - 1
  BY <1>1, <1>3, BlockAssumption
<1>10. Blocks(n, blocks) = [b \in 1 .. blocks |-> <<n, b - 1>>]
  BY <1>9 DEF Blocks
<1> QED
  BY <1>3, <1>4, <1>8, <1>10

-----------------------------------------------------------------------------
(* The kernel runs after the last of the 39 steps. *)
LEMMA StartedSite ==
  ASSUME TypeOK, Started
  PROVE  pc = 40
<1>1. Len(Steps) = 39
  BY Places
<1> QED
  BY <1>1 DEF TypeOK, Started

(* No step of efi_main reads or writes a buffer before its AllocatePool or *)
(* after its FreePool, and every variable keeps its type.                  *)
THEOREM NoUseAfterFree == Spec => []BuffersLive
<1>1. IInv => BuffersLive
  BY LiveUses
<1> QED
  BY <1>1, Invariance, PTL

(* No inode is read through a pointer into inode_tbl after the buffer was  *)
(* read over (lines 278 and 323).                                          *)
THEOREM InodesFresh == Spec => []InodeFresh
<1>1. IInv => InodeFresh
  BY HoldsFresh
<1> QED
  BY <1>1, Invariance, PTL

(* The disk read from, the partition table and the PCI address are of one  *)
(* disk, and the superblock is the partition's, for any handles.           *)
THEOREM OneDiskOnly == Spec => []OneDisk
<1>1. IInv => OneDisk
  BY DEF IInv, Search
<1> QED
  BY <1>1, Invariance, PTL

(* kernel_file holds the blocks of the file named kernel and of no other,  *)
(* in order, for every directory that has it in front of all other names   *)
(* that begin so, every geometry of the inode table and every file of      *)
(* direct blocks (lines 310-353).                                          *)
THEOREM ImageIsFirstKernelsFile == Spec => []ImageExact
<1>1. IInv => ImageExact
  BY ReadExact
<1> QED
  BY <1>1, Invariance, PTL

(* The memory map given to the kernel describes all the loader still uses, *)
(* and its key is the current one unless the console allocated.            *)
THEOREM HandOverSound == Spec => []HandOver
<1>1. IInv => HandOver
  <2>1. SUFFICES ASSUME IInv, Started
                 PROVE  mem_map = {InUse} /\ (exited <=> key = ver) /\ ver \in {key, key + 1}
    BY DEF HandOver
  <2>2. pc = 40
    BY <2>1, StartedSite DEF IInv
  <2> QED
    BY <2>1, <2>2 DEF IInv, Final
<1> QED
  BY <1>1, Invariance, PTL

(* An XSDT the kernel gets has its signatures and all three sums right,    *)
(* for every modulus of the counter that runs through them.                *)
THEOREM XsdtChecked == Spec => []XsdtSound
<1>1. IInv => XsdtSound
  <2>1. SUFFICES ASSUME IInv, Started, acpi.present
                 PROVE  acpi.sign /\ acpi.sum20 = 0 /\ acpi.sum36 = 0 /\ acpi.sumXsdt = 0
    BY DEF XsdtSound
  <2>2. pc = 40
    BY <2>1, StartedSite DEF IInv
  <2> QED
    BY <2>1, <2>2 DEF IInv, Final
<1> QED
  BY <1>1, Invariance, PTL
=============================================================================
