----------------------------- MODULE MCServices -----------------------------
(***************************************************************************)
(* Constants of Services that a configuration cannot write down.           *)
(***************************************************************************)
EXTENDS Services

(* The firmware's CC: off; on with its usual fields; on with every field   *)
(* this kernel writes set to something else, a shutdown notified.          *)
MCPriorCC  ==
  {0, 1 + 6 * 2^16 + 4 * 2^20,
   1 + 6 * 2^4 + 3 * 2^7 + 2^11 + 2^14 + 3 * 2^16 + 9 * 2^20 + 2^24}
MCPriorAQA == {0, 31 + 31 * 2^16, 4095 + 4095 * 2^16}

(* Root tables of up to two entries: the tables the kernel asks for,       *)
(* present, absent or twice.                                               *)
MCXsdts == UNION {[1 .. k -> Signatures] : k \in 0 .. 2}

(* MCFG tables of up to two entries of up to two buses, an empty and a     *)
(* reversed range among them.                                              *)
MCMcfgs ==
  UNION {[1 .. k -> {[base |-> 8, start |-> 0, end |-> 2], [base |-> 32, start |-> 1, end |-> 2],
                     [base |-> 64, start |-> 1, end |-> 1], [base |-> 96, start |-> 2, end |-> 0]}] : k \in 0 .. 2}

(* Calls with line ends, a tab, a carriage return, a negative number, a    *)
(* string, a hexadecimal number, a % that is no directive, and a character *)
(* without a glyph.                                                        *)
MCCalls ==
  { [str |-> <<65, 10>>, ap |-> << >>],
    [str |-> <<9, 65>>, ap |-> << >>],
    [str |-> <<37, 100, 32, 37, 100, 13>>, ap |-> << <<7>>, <<-1>> >>],
    [str |-> <<37, 37, 115, 37, 120>>, ap |-> << <<66, 10, 67>>, <<200>> >>],
    [str |-> <<37, 90, -3, 37>>, ap |-> << >>] }

(* Two letters and two bytes of 0x80 or above. *)
MCBytes == {65, 66, -61, -62}

(* The first allocation is the one gcc 12 makes with the flags of          *)
(* boot/kernel/Makefile; the others spare rcx, and the second r11 as well. *)
MCAllocations ==
  {<<"r9", "r8", "rdi", "rsi", "rcx", "rdx", "rax">>,
   <<"rax", "rdi", "rsi", "rdx", "r10", "r8", "r9">>,
   <<"rax", "rdi", "rsi", "rdx", "r11", "r8", "r9">>}
=============================================================================
