---------------------------- MODULE MCKernelBoot ----------------------------
(***************************************************************************)
(* Instance of KernelBoot for TLC.  The maps: low memory that is free or   *)
(* the firmware's, the kernel's pages, then free, firmware and free again, *)
(* cut at several places, with or without a hole in front of the last      *)
(* region or of the last two (the larger hole puts it, or them, above the  *)
(* top of the identity map), listed in ascending or in descending order.   *)
(***************************************************************************)
EXTENDS KernelBoot, SequencesExt

MCTotalPages == 22
Gaps == {0, 3, 8}

Desc(type, from, to) == [type |-> type, phys |-> from, num |-> to - from]
Cut(low, a, b, gap) ==
  << Desc(low, 0, 2), Desc(2, 2, 4), Desc(7, 4, a), Desc(4, a, b),
     [Desc(7, b, MCTotalPages) EXCEPT !.phys = @ + gap] >>
Ascending ==
  LET cuts == {Cut(low, a, b, gap) : low \in {7, 4}, a \in {5, 7, 10, 14}, b \in {15, 16, 18, 20}, gap \in Gaps}
  IN  cuts \cup {[m EXCEPT ![4].phys = @ + 8] : m \in {c \in cuts : c[5].phys = c[4].phys + c[4].num + 8}}
MCMaps == Ascending \cup {Reverse(m) : m \in Ascending}

(* A framebuffer among the firmware's pages, in the hole, or above memory; *)
(* the configuration space below or above the top of memory; the stack and *)
(* the MADT in the last of the firmware's regions.                         *)
MCHardware ==
  {[fb |-> fb, fb_pages |-> 2, apic |-> 60, mcfg |-> 14, mcfg_pages |-> 1, ecam |-> ecam, bar |-> bar,
    stack |-> stack, madt |-> madt] :
     fb \in {14, 15, 22, 40}, ecam \in {14, 50}, bar \in {44, 100}, stack \in {14, 22}, madt \in {14, 22}}
=============================================================================
