---------------------------- MODULE MCBootloader ----------------------------
(* Instance of Bootloader for TLC: two disks, two partitions, directories of *)
(* up to two records, groups of three inodes of which the first block holds  *)
(* two, and a kernel that may outgrow its direct blocks.                     *)
EXTENDS Bootloader
=============================================================================
