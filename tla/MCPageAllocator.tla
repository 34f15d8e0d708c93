--------------------------- MODULE MCPageAllocator --------------------------
(* Instance of PageAllocator for TLC: an address space of six pages, of     *)
(* which the bitmap has a bit for four plus the stray one, so that          *)
(* in-range, stray and out-of-range pages and wrapping ranges all occur.    *)
EXTENDS PageAllocator
=============================================================================
