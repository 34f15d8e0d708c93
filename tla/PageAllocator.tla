---------------------------- MODULE PageAllocator ---------------------------
(***************************************************************************)
(* The page allocator as its callers drive it: any sequence of calls of    *)
(* the range operations (free_pages, lock_pages, unreserve_pages,          *)
(* reserve_pages; the single page operations are ranges of length 1) and   *)
(* of req_page.  A range call is a loop over pages, one step an iteration. *)
(* The kernel is single threaded and its interrupt handlers do not         *)
(* allocate, so one call runs at a time.                                   *)
(***************************************************************************)
EXTENDS PageBitmap

CONSTANT MaxCnt  \* bound: the longest range call, in pages

ASSUME MaxCntAssumption == MaxCnt \in 0 .. SIZE_MOD

VARIABLES
  page_bitmap,  \* the global PAGE_BITMAP (paging.c:4)
  call,         \* the range call in progress or just finished, or NoCall
  drift,        \* history: pages in used + reserved that have no bit
  held          \* history: pages req_page handed out and nobody gave back

vars == <<page_bitmap, call, drift, held>>

(* fn is the page operation the loop repeats; addr and page_cnt are the    *)
(* call's arguments, i the loop variable.                                  *)
Marking   == {"lock_page", "reserve_page"}
Unmarking == {"free_page", "unreserve_page"}
Calls  == [fn: Marking \cup Unmarking, addr: Pages, page_cnt: 0 .. MaxCnt, i: 0 .. MaxCnt]
NoCall == [fn |-> "lock_page", addr |-> 0, page_cnt |-> 0, i |-> 0]

Idle == call.i = call.page_cnt

(* (uint8_t* )addr + i * PAGE_SIZE, which wraps with the address space. *)
PageOf(c, i) == (c.addr + i) % SIZE_MOD

-----------------------------------------------------------------------------
(* kernel.c:54-57: the buffer's bytes are cleared, the byte after it is    *)
(* not: bit NBits holds whatever the memory held.  A stray bit that can be *)
(* freed later without ever having been counted is a drift of -1.          *)
Init ==
  /\ \E stray \in SUBSET {NBits} :
       /\ page_bitmap = [bitmap |-> stray, free |-> TotalPages, reserved |-> 0, used |-> 0]
       /\ drift = IF stray = {} THEN 0 ELSE SIZE_MOD - 1
  /\ call = NoCall
  /\ held = {}

Apply(fn, pb, i) ==
  CASE fn = "free_page"      -> free_page(pb, i)
    [] fn = "lock_page"      -> lock_page(pb, i)
    [] fn = "unreserve_page" -> unreserve_page(pb, i)
    [] fn = "reserve_page"   -> reserve_page(pb, i)

(* A caller enters free_pages, lock_pages, unreserve_pages or reserve_pages *)
(* (paging.c:17, 32, 47, 62).                                               *)
Call(fn, addr, page_cnt) ==
  /\ Idle
  /\ call' = [fn |-> fn, addr |-> addr, page_cnt |-> page_cnt, i |-> 0]
  /\ UNCHANGED <<page_bitmap, drift, held>>

IterateSkipLast ==
  /\ ~ Idle
  /\ LET p == PageOf(call, call.i) IN
       /\ page_bitmap' = IF call.i + 1 = call.page_cnt /\ call.i > 0
                         THEN page_bitmap ELSE Apply(call.fn, page_bitmap, p)
       /\ drift' = IF call.fn \in Marking /\ p \notin Bits THEN Inc(drift) ELSE drift
       /\ held'  = IF call.fn \in Unmarking THEN held \ {p} ELSE held
  /\ call' = [call EXCEPT !.i = @ + 1]

(* One iteration of the loop (paging.c:18-19, 33-34, 48-49, 63-64). *)
Iterate ==
  /\ ~ Idle
  /\ LET p == PageOf(call, call.i) IN
       /\ page_bitmap' = Apply(call.fn, page_bitmap, p)
       /\ drift' = IF call.fn \in Marking /\ p \notin Bits THEN Inc(drift) ELSE drift
       /\ held'  = IF call.fn \in Unmarking THEN held \ {p} ELSE held
  /\ call' = [call EXCEPT !.i = @ + 1]

(* paging.c:66-76 *)
ReqPage ==
  /\ Idle
  /\ LET r == req_page(page_bitmap) IN
       /\ page_bitmap' = r.pb
       /\ held' = IF FreePages(page_bitmap) = {} THEN held ELSE held \cup {r.page}
  /\ call' = NoCall
  /\ UNCHANGED drift

Next ==
  \/ \E fn \in Marking \cup Unmarking, addr \in Pages, page_cnt \in 0 .. MaxCnt :
       Call(fn, addr, page_cnt)
  \/ Iterate
  \/ ReqPage

Spec == Init /\ [][Next]_vars

-----------------------------------------------------------------------------
(* Every variable has its type; in particular the bitmap never grows past  *)
(* bit NBits, the first bit of the byte after the buffer (bitmap.c:5, 14). *)
TypeOK ==
  /\ page_bitmap \in PageBitmaps
  /\ call \in Calls
  /\ call.i <= call.page_cnt
  /\ drift \in Pages
  /\ held \in SUBSET (0 .. (NBits - 1))

(* free + reserved + used is the memory the kernel started with, modulo    *)
(* 2^64, after any sequence of calls, mismatched ones (a free of a         *)
(* reserved page, a lock of a page beyond memory) included: paging.c moves *)
(* a page between two counters and never creates or drops one.             *)
Conservation ==
  (page_bitmap.free + page_bitmap.reserved + page_bitmap.used) % SIZE_MOD = TotalPages

(* The counters agree with the bits: used + reserved is the number of bits *)
(* set plus the drift, the locks and reservations of pages that have no    *)
(* bit (paging.c:24-28 counts them although set_bitmap ignored them).  So  *)
(* without such calls, and with the byte after the buffer clear, the       *)
(* counters are exact.                                                     *)
Accounting ==
  (page_bitmap.used + page_bitmap.reserved) % SIZE_MOD
    = (Cardinality(page_bitmap.bitmap) + drift) % SIZE_MOD

(* A page req_page handed out stays marked until it is given back, across  *)
(* every call made in between for other pages (paging.c:66-76).            *)
HeldMarked == held \subseteq page_bitmap.bitmap

(* What a range call promises, at every point of its loop: the pages       *)
(* already visited that have a bit are marked, or unmarked, as the caller  *)
(* asked, even when the range wraps or runs past the bitmap.               *)
RangeEffect ==
  \A j \in 0 .. (call.i - 1) :
    PageOf(call, j) \in Bits =>
      (PageOf(call, j) \in page_bitmap.bitmap <=> call.fn \in Marking)

(* req_page never hands out a page that is still held: it returns an       *)
(* unheld page, or the pool is exhausted and nothing changes.              *)
ExclusiveAlloc ==
  [][ReqPage => \/ \E p \in (0 .. (NBits - 1)) \ held : held' = held \cup {p} /\ p \notin page_bitmap.bitmap
                \/ (0 .. (NBits - 1)) \subseteq page_bitmap.bitmap /\ UNCHANGED <<page_bitmap, held>>]_vars
=============================================================================
