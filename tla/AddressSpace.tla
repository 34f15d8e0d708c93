---------------------------- MODULE AddressSpace ----------------------------
(***************************************************************************)
(* What paging.c promises of an address space: a table from virtual pages  *)
(* to physical pages, in which mapping one page changes that page only.    *)
(* The promise ends when physical memory for the tables runs out.          *)
(***************************************************************************)
CONSTANTS Vir, Phys, NONE

VARIABLES space,     \* space[v]: the physical page v translates to, or NONE
          exhausted  \* no page was left for a table

Init == space = [v \in Vir |-> NONE] /\ exhausted = FALSE

(* One virtual page is mapped, to some physical page. *)
Map ==
  /\ ~ exhausted
  /\ UNCHANGED exhausted
  /\ LET new == space'
         old == space
     IN  \E v \in Vir : new[v] \in Phys /\ new = [old EXCEPT ![v] = new[v]]

Exhaust ==
  /\ exhausted' = TRUE
  /\ space' \in [Vir -> Phys \cup {NONE}]

Next == Map \/ Exhaust

Spec == Init /\ [][Next]_<<space, exhausted>>
=============================================================================
