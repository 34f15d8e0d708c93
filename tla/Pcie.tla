-------------------------------- MODULE Pcie --------------------------------
(***************************************************************************)
(* pcie_get_config_space_addrs of dev/pci/pcie.c:27-46, a store a step: it *)
(* lists the configuration space of every function the MCFG table decodes. *)
(* The index is a uint8_t.  Addresses are in pages of configuration space, *)
(* 4096 bytes.                                                             *)
(***************************************************************************)
EXTENDS Integers, Sequences

CONSTANTS Mcfgs,   \* tables: sequences of [base, start, end] entries
          DEVS,    \* 32, devices of a bus
          FUNCS,   \* 8, functions of a device
          INDEX,   \* 256, values of a uint8_t
          LIST     \* 0xfff, entries of config_space_addrs

(* What the constants must satisfy: the devices of one bus are as many as  *)
(* the index has values.                                                   *)
PcieConstants ==
  /\ Mcfgs \subseteq Seq([base: Nat, start: Nat, end: Nat])
  /\ {DEVS, FUNCS, INDEX, LIST} \subseteq Nat \ {0} /\ DEVS * FUNCS = INDEX /\ INDEX < LIST

VARIABLES
  pc,                  \* the loop that is tested next
  mcfg,
  i, j, k, l,          \* entry, bus, device and function
  index,
  config_space_addrs   \* by position, 0 .. LIST - 1

vars == <<pc, mcfg, i, j, k, l, index, config_space_addrs>>

(* pcie.c:39 *)
Address(entry, bus, dev, func) == entry.base + bus * DEVS * FUNCS + dev * FUNCS + func

-----------------------------------------------------------------------------
(* pcie.c:28-34 *)
Init ==
  /\ pc = "entry" /\ mcfg \in Mcfgs
  /\ i = 1 /\ j = 0 /\ k = 0 /\ l = 0 /\ index = 0
  /\ config_space_addrs = [p \in 0 .. (LIST - 1) |-> 0]

(* pcie.c:35 *)
Entry ==
  /\ pc = "entry"
  /\ \/ i > Len(mcfg) /\ pc' = "returned" /\ UNCHANGED j
     \/ i <= Len(mcfg) /\ pc' = "bus" /\ j' = mcfg[i].start
  /\ UNCHANGED <<mcfg, i, k, l, index, config_space_addrs>>

(* pcie.c:36: pci_num_end itself is not visited. *)
Bus ==
  /\ pc = "bus"
  /\ \/ j < mcfg[i].end /\ pc' = "store" /\ k' = 0 /\ l' = 0 /\ UNCHANGED i
     \/ j >= mcfg[i].end /\ pc' = "entry" /\ i' = i + 1 /\ UNCHANGED <<k, l>>
  /\ UNCHANGED <<mcfg, j, index, config_space_addrs>>

(* pcie.c:37-41 *)
Store ==
  /\ pc = "store"
  /\ config_space_addrs' = [config_space_addrs EXCEPT ![index] = Address(mcfg[i], j, k, l)]
  /\ index' = (index + 1) % INDEX
  /\ \/ l < FUNCS - 1 /\ l' = l + 1 /\ UNCHANGED <<pc, j, k>>
     \/ l = FUNCS - 1 /\ k < DEVS - 1 /\ l' = 0 /\ k' = k + 1 /\ UNCHANGED <<pc, j>>
     \/ l = FUNCS - 1 /\ k = DEVS - 1 /\ j' = j + 1 /\ pc' = "bus" /\ UNCHANGED <<k, l>>
  /\ UNCHANGED <<mcfg, i>>

Enumerate == Entry \/ Bus \/ Store
Returned  == pc = "returned" /\ UNCHANGED vars
Next      == Enumerate \/ Returned

(* A loop of straight-line code. *)
Spec == Init /\ [][Next]_vars /\ WF_vars(Enumerate)

-----------------------------------------------------------------------------
(* The buses that the table decodes, with their entry: an entry's range    *)
(* includes its end.                                                       *)
Decoded == UNION {{<<e, b>> : b \in mcfg[e].start .. mcfg[e].end} : e \in DOMAIN mcfg}

(* At every step, also while one bus overwrites another: an address in the *)
(* list is that of a function on a decoded bus, the one its place stands   *)
(* for, and behind the places an 8-bit index reaches the list stays empty  *)
(* (pcie.c:39).                                                            *)
ListedDecoded ==
  \A p \in DOMAIN config_space_addrs :
    config_space_addrs[p] # 0 =>
      /\ p < INDEX
      /\ \E v \in Decoded : config_space_addrs[p] = Address(mcfg[v[1]], v[2], p \div FUNCS, p % FUNCS)

(* What is returned is no mixture of buses: the list holds every function  *)
(* of one decoded bus in order.  It is empty only when no range has more   *)
(* than one bus; how many buses are missing is not said (pcie.c:36-39).    *)
OneBusListed ==
  pc = "returned" =>
    \/ /\ \A e \in DOMAIN mcfg : mcfg[e].end <= mcfg[e].start
       /\ \A p \in DOMAIN config_space_addrs : config_space_addrs[p] = 0
    \/ \E v \in Decoded : \A p \in 0 .. (INDEX - 1) :
         config_space_addrs[p] = Address(mcfg[v[1]], v[2], p \div FUNCS, p % FUNCS)

(* The buses the loops visit, with their entry: all but the end of a range. *)
Visited == UNION {{<<e, b>> : b \in mcfg[e].start .. (mcfg[e].end - 1)} : e \in DOMAIN mcfg}
Later(u, v) == u[1] > v[1] \/ (u[1] = v[1] /\ u[2] > v[2])

(* The functions of the last visited bus are in the list, from place q on, *)
(* each bus having overwritten the one before; without a bus these places  *)
(* are empty.                                                              *)
LastOf(v, buses) == v \in buses /\ \A u \in buses \ {v} : Later(v, u)

Holds(buses, q) ==
  IF buses = {} THEN \A p \in q .. (INDEX - 1) : config_space_addrs[p] = 0
  ELSE \E v \in buses :
         /\ LastOf(v, buses)
         /\ \A p \in q .. (INDEX - 1) :
              config_space_addrs[p] = Address(mcfg[v[1]], v[2], p \div FUNCS, p % FUNCS)

(* The inductive invariant: the loops' variables are in range and the      *)
(* index counts the functions of the current bus; the places before it     *)
(* hold that bus, the places from it on the last bus finished before, and  *)
(* the places no 8-bit index reaches nothing.                              *)
Done ==
  {v \in Visited : v[1] < i \/ (v[1] = i /\ pc \in {"bus", "store"} /\ v[2] < j)}

InRange ==
  /\ pc \in {"entry", "bus", "store", "returned"} /\ mcfg \in Mcfgs
  /\ i \in 1 .. (Len(mcfg) + 1) /\ j \in Nat /\ k \in 0 .. (DEVS - 1) /\ l \in 0 .. (FUNCS - 1)
  /\ index \in 0 .. (INDEX - 1)
  /\ config_space_addrs \in [0 .. (LIST - 1) -> Nat]
  /\ pc \in {"bus", "store"} => i <= Len(mcfg) /\ j >= mcfg[i].start
  /\ pc = "store" => j < mcfg[i].end
  /\ pc = "returned" => i = Len(mcfg) + 1
  /\ index = IF pc = "store" THEN k * FUNCS + l ELSE 0

Listed ==
  /\ \A p \in 0 .. (index - 1) :
       config_space_addrs[p] = Address(mcfg[i], j, p \div FUNCS, p % FUNCS)
  /\ Holds(Done, index)
  /\ \A p \in INDEX .. (LIST - 1) : config_space_addrs[p] = 0

IInv == InRange /\ Listed
=============================================================================
