----------------------------- MODULE PageBitmap -----------------------------
(***************************************************************************)
(* The physical page bitmap of boot/kernel/bitmap.c and paging.c:6-76, as  *)
(* operators on a PAGE_BITMAP value                                        *)
(*                                                                         *)
(*   pb = [bitmap: set of the indices whose bit is 1, free, reserved, used]*)
(*                                                                         *)
(* Addresses and byte counters are size_t.  Every address the allocator    *)
(* receives is only ever divided by PAGE_SIZE and every counter moves by   *)
(* PAGE_SIZE, so both are kept in units of pages, modulo                   *)
(* SIZE_MOD = 2^64 / PAGE_SIZE: a counter that is decremented below zero   *)
(* wraps, exactly as the C code does.                                      *)
(***************************************************************************)
EXTENDS Integers, FiniteSets, FiniteSetsExt

CONSTANTS TotalPages,  \* total_mem_size / PAGE_SIZE
          BITS,        \* bits of a bitmap byte (8)
          SIZE_MOD     \* number of page numbers a size_t address can name

(* page_bitmap.bitmap.size, in bytes: kernel.c:55. *)
size == TotalPages \div BITS + 1

(* The bits of the buffer that the kernel clears, bitmap->size * 8. *)
NBits == size * BITS

ASSUME TotalPagesAssumption == TotalPages \in Nat
ASSUME BITSAssumption == BITS \in Nat \ {0}
(* All memory is addressable: the bitmap has a bit for no more pages than  *)
(* a size_t can name.                                                      *)
ASSUME SizeModAssumption == SIZE_MOD \in Nat /\ NBits + 1 <= SIZE_MOD

(* Every page number a caller can pass, in range of the bitmap or not. *)
Pages == 0 .. (SIZE_MOD - 1)

(* The bits the guard `index > size * 8' lets through: one more than the   *)
(* NBits bits of the buffer.  Bit NBits is in the byte after the buffer.   *)
Bits == 0 .. NBits

PageBitmaps == [bitmap: SUBSET Bits, free: Pages, reserved: Pages, used: Pages]

-----------------------------------------------------------------------------

(* bitmap.c:4-12.  An index the guard rejects reads as 0. *)
get_bitmap(bitmap, index) == index <= NBits /\ index \in bitmap

set_bitmap_unguarded(bitmap, index, value) ==
  IF value # 0 THEN bitmap \cup {index} ELSE bitmap \ {index}

(* bitmap.c:13-25.  An index the guard rejects is ignored. *)
set_bitmap(bitmap, index, value) ==
  IF index > NBits THEN bitmap
  ELSE IF value # 0 THEN bitmap \cup {index} ELSE bitmap \ {index}

(* counter += PAGE_SIZE and counter -= PAGE_SIZE on a size_t. *)
Inc(n) == (n + 1) % SIZE_MOD
Dec(n) == (n - 1) % SIZE_MOD

-----------------------------------------------------------------------------
(* The page operations.  Each tests the bit, flips it and moves one page   *)
(* between two counters.  The result of set_bitmap is not looked at, so a  *)
(* lock or a reservation of a page that has no bit moves the counters only.*)

(* paging.c:6-16 *)
free_page(pb, i) ==
  IF get_bitmap(pb.bitmap, i)
  THEN [bitmap |-> set_bitmap(pb.bitmap, i, 0),
        free |-> Inc(pb.free), reserved |-> pb.reserved, used |-> Dec(pb.used)]
  ELSE pb

lock_page_no_test(pb, i) ==
  [bitmap |-> set_bitmap(pb.bitmap, i, 1),
   free |-> Dec(pb.free), reserved |-> pb.reserved, used |-> Inc(pb.used)]

(* paging.c:21-31 *)
lock_page(pb, i) ==
  IF get_bitmap(pb.bitmap, i) THEN pb
  ELSE [bitmap |-> set_bitmap(pb.bitmap, i, 1),
        free |-> Dec(pb.free), reserved |-> pb.reserved, used |-> Inc(pb.used)]

unreserve_page_keeps_reserved(pb, i) ==
  IF get_bitmap(pb.bitmap, i)
  THEN [bitmap |-> set_bitmap(pb.bitmap, i, 0),
        free |-> Inc(pb.free), reserved |-> pb.reserved, used |-> pb.used]
  ELSE pb

(* paging.c:36-46 *)
unreserve_page(pb, i) ==
  IF get_bitmap(pb.bitmap, i)
  THEN [bitmap |-> set_bitmap(pb.bitmap, i, 0),
        free |-> Inc(pb.free), reserved |-> Dec(pb.reserved), used |-> pb.used]
  ELSE pb

(* paging.c:51-61 *)
reserve_page(pb, i) ==
  IF get_bitmap(pb.bitmap, i) THEN pb
  ELSE [bitmap |-> set_bitmap(pb.bitmap, i, 1),
        free |-> Dec(pb.free), reserved |-> Inc(pb.reserved), used |-> pb.used]

(* The clear bits the loop of req_page looks at. *)
FreePages(pb) == (0 .. (NBits - 1)) \ pb.bitmap

req_page_no_lock(pb) ==
  IF FreePages(pb) = {} THEN [page |-> 0, pb |-> pb]
  ELSE [page |-> Min(FreePages(pb)), pb |-> pb]

(* paging.c:66-76: the lowest clear bit is locked and its page returned.   *)
(* On exhaustion the result is NULL, which is also the address of page 0.  *)
req_page(pb) ==
  IF FreePages(pb) = {} THEN [page |-> 0, pb |-> pb]
  ELSE LET i == Min(FreePages(pb))
       IN  [page |-> i, pb |-> lock_page(pb, i)]
=============================================================================
