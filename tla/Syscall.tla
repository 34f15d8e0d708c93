------------------------------ MODULE Syscall ------------------------------
(***************************************************************************)
(* The way into the kernel by SYSCALL: the GDT (gdt.c, load_gdt.S), the    *)
(* four model specific registers that kernel.c:179-188 writes through      *)
(* rdmsr and wrmsr of asm.c, and syscall_handler of syscall.c.             *)
(*                                                                         *)
(* A 64-bit register is the set of its bits that are 1.  The program that  *)
(* executes SYSCALL is external, and so are the two instructions.          *)
(***************************************************************************)
EXTENDS Integers, Sequences, Functions

CONSTANTS Priors,       \* values the firmware may have left in an MSR
          Flags,        \* rflags of the program, as sets of bits
          Numbers,      \* values of rax and r10 in a call, as strings
          Allocations,  \* registers the compiler gives num, arg1 .. arg6
          MaxCalls      \* bound: system calls made

Registers == {"rax", "rbx", "rcx", "rdx", "rsi", "rdi", "r8", "r9", "r10", "r11"}

(* What the constants must satisfy: the compiler chooses any seven         *)
(* registers, for syscall.c:15 names no clobber.                           *)
SyscallConstants ==
  /\ Priors \subseteq SUBSET (0 .. 63) /\ Flags \subseteq SUBSET (0 .. 31) /\ MaxCalls \in Nat
  /\ \A a \in Allocations : a \in [1 .. 7 -> Registers] /\ IsInjective(a)

VARIABLES
  pc,         \* the statement that comes next
  msr,        \* EFER, LSTAR, STAR and FMASK
  prior,      \* history: what the firmware left in them
  cs, ss,     \* selectors of the running code
  rflags,
  regs,       \* general registers
  allocation, \* where the compiler put the outputs of syscall.c:7-16
  args,       \* num, arg1 .. arg6
  stack,      \* what the handler pushed on the program's stack
  caller,     \* history: rflags when SYSCALL was executed
  calls

vars == <<pc, msr, prior, cs, ss, rflags, regs, allocation, args, stack, caller, calls>>

(* gdt.c:4-10: the access bytes of the descriptors, and the selectors of   *)
(* the segments that are present, of that kind and privilege.              *)
gdt == <<0, 154, 146, 250, 242>>
Segment(code, dpl) ==
  {8 * (k - 1) : k \in {n \in DOMAIN gdt : /\ (gdt[n] \div 8) % 2 = code /\ (gdt[n] \div 32) % 4 = dpl
                                         /\ gdt[n] \div 128 = 1}}

(* kernel.c:180-188 *)
EFER  == "efer"
LSTAR == "lstar"
STAR  == "star"
FMASK == "fmask"
Msrs  == {EFER, LSTAR, STAR, FMASK}
HandlerAddress == {5, 40}

(* External: the interrupt flag's bit in rflags. *)
INTERRUPT == 9

Bits(n)    == {b \in 0 .. 15 : (n \div 2^b) % 2 = 1}
Shift(s, k) == {b + k : b \in s}
Selector(m, k) == CHOOSE n \in 0 .. 65535 : Bits(n) = Shift(m \cap (k .. (k + 15)), -k)

(* asm.c:23-29: edx and eax put together. *)
rdmsr(m) ==
  LET l == msr[m] \cap (0 .. 31)
      h == Shift(msr[m] \cap (32 .. 63), -32)
  IN  Shift(h, 32) \cup l

(* asm.c:30-34: the value taken apart, and together again in the MSR. *)
wrmsr(m, value) ==
  LET l == value \cap (0 .. 31)
      h == Shift(value \cap (32 .. 63), -32)
  IN  msr' = [msr EXCEPT ![m] = Shift(h, 32) \cup l]

-----------------------------------------------------------------------------
Init ==
  /\ pc = "load_gdt"
  /\ msr \in [Msrs -> Priors] /\ prior = msr
  /\ cs = 56 /\ ss = 48
  /\ rflags = {} /\ regs = [r \in Registers |-> "?"]
  /\ allocation \in Allocations
  /\ args = << >> /\ stack = << >> /\ caller = {} /\ calls = 0

(* load_gdt.S:3-15, called at kernel.c:30. *)
LoadGdt ==
  /\ pc = "load_gdt" /\ pc' = "efer"
  /\ cs' = 8 /\ ss' = 16
  /\ UNCHANGED <<msr, prior, rflags, regs, allocation, args, stack, caller, calls>>

(* kernel.c:180 *)
SetEfer ==
  /\ pc = "efer" /\ pc' = "lstar"
  /\ wrmsr(EFER, rdmsr(EFER) \cup {0})
  /\ UNCHANGED <<prior, cs, ss, rflags, regs, allocation, args, stack, caller, calls>>

(* kernel.c:183 *)
SetLstar ==
  /\ pc = "lstar" /\ pc' = "star"
  /\ wrmsr(LSTAR, HandlerAddress)
  /\ UNCHANGED <<prior, cs, ss, rflags, regs, allocation, args, stack, caller, calls>>

(* kernel.c:187 *)
SetStar ==
  /\ pc = "star" /\ pc' = "fmask"
  /\ wrmsr(STAR, (rdmsr(STAR) \cap (0 .. 31)) \cup Shift(Bits(8), 32) \cup Shift(Bits(24), 48))
  /\ UNCHANGED <<prior, cs, ss, rflags, regs, allocation, args, stack, caller, calls>>

SetFmaskBit8 ==
  /\ pc = "fmask" /\ pc' = "user"
  /\ wrmsr(FMASK, rdmsr(FMASK) \cup {8})
  /\ UNCHANGED <<prior, cs, ss, rflags, regs, allocation, args, stack, caller, calls>>

(* kernel.c:188 *)
SetFmask ==
  /\ pc = "fmask" /\ pc' = "user"
  /\ wrmsr(FMASK, rdmsr(FMASK) \cup {9})
  /\ UNCHANGED <<prior, cs, ss, rflags, regs, allocation, args, stack, caller, calls>>

(* External: a program executes SYSCALL.  rcx gets the address of the      *)
(* caller's next instruction and r11 its flags (held in caller); the other *)
(* registers hold their own names, except for the number and arg4.         *)
Call(num, arg4, flags) ==
  /\ pc = "user" /\ 0 \in msr[EFER] /\ calls < MaxCalls
  /\ caller' = flags
  /\ regs' = [r \in Registers |-> CASE r = "rax" -> num [] r = "r10" -> arg4
                                    [] r = "rcx" -> "caller" [] r = "r11" -> "flags" [] OTHER -> r]
  /\ rflags' = flags \ msr[FMASK]
  /\ cs' = Selector(msr[STAR], 32) /\ ss' = Selector(msr[STAR], 32) + 8
  /\ pc' = IF msr[LSTAR] = HandlerAddress THEN "entry" ELSE "astray"
  /\ calls' = calls + 1
  /\ UNCHANGED <<msr, prior, allocation, args, stack>>

(* The registers after the seven moves of syscall.c:8-14, in order; no     *)
(* output is marked as written before the inputs are read, so one may be   *)
(* any register.                                                           *)
Inputs == <<"rax", "rdi", "rsi", "rdx", "r10", "r8", "r9">>
Move(r, k) == [r EXCEPT ![allocation[k]] = r[Inputs[k]]]
Moves  == Move(Move(Move(Move(Move(Move(Move(regs, 1), 2), 3), 4), 5), 6), 7)

(* syscall.c:4-16, the function's frame included. *)
Entry ==
  /\ pc = "entry" /\ pc' = "push"
  /\ regs' = Moves
  /\ args' = [k \in 1 .. 7 |-> regs'[allocation[k]]]
  /\ stack' = Append(stack, "frame")
  /\ UNCHANGED <<msr, prior, cs, ss, rflags, allocation, caller, calls>>

(* syscall.c:18-21.  The handler calls nothing, so that with the flags of  *)
(* boot/kernel/Makefile its locals are in the red zone below the stack     *)
(* pointer: the two words pushed are written over num and arg1.            *)
Push ==
  /\ pc = "push" /\ pc' = "switch"
  /\ stack' = stack \o <<regs["rcx"], regs["r11"]>>
  /\ args' = [args EXCEPT ![1] = regs["rcx"], ![2] = regs["r11"]]
  /\ UNCHANGED <<msr, prior, cs, ss, rflags, regs, allocation, caller, calls>>

(* syscall.c:23-35 *)
Switch ==
  /\ pc = "switch"
  /\ pc' = IF args[1] = "12" THEN "forever" ELSE "pop"
  /\ UNCHANGED <<msr, prior, cs, ss, rflags, regs, allocation, args, stack, caller, calls>>

(* syscall.c:32 *)
Forever == pc = "forever" /\ UNCHANGED vars

(* syscall.c:38-39 *)
Pop ==
  /\ pc = "pop" /\ pc' = "sysret"
  /\ regs' = [regs EXCEPT !["r11"] = stack[Len(stack)], !["rcx"] = stack[Len(stack) - 1]]
  /\ stack' = SubSeq(stack, 1, Len(stack) - 2)
  /\ UNCHANGED <<msr, prior, cs, ss, rflags, allocation, args, caller, calls>>

(* syscall.c:40; what SYSRETQ does is external: it goes where rcx says,    *)
(* which is the caller only if it holds that address, with the flags that  *)
(* r11 holds, the caller's or others.  The frame stays.                    *)
Sysret ==
  /\ pc = "sysret" /\ pc' = IF regs["rcx"] = "caller" THEN "user" ELSE "lost"
  /\ rflags' \in IF regs["r11"] = "flags" THEN {caller} ELSE Flags
  /\ cs' = Selector(msr[STAR], 48) + 16 + 3 /\ ss' = Selector(msr[STAR], 48) + 8 + 3
  /\ UNCHANGED <<msr, prior, regs, allocation, args, stack, caller, calls>>

(* The kernel waits (kernel.c:197) and the program makes no more calls. *)
Idle == pc = "user" /\ calls = MaxCalls /\ UNCHANGED vars

(* What runs at another address is not followed. *)
Lost == pc = "lost" /\ UNCHANGED vars

Setup   == LoadGdt \/ SetEfer \/ SetLstar \/ SetStar \/ SetFmask
Handler == Entry \/ Push \/ Switch \/ Pop \/ Sysret
Next ==
  \/ Setup \/ Handler \/ Forever \/ Idle \/ Lost
  \/ \E num, arg4 \in Numbers, flags \in Flags : Call(num, arg4, flags)

Spec == Init /\ [][Next]_vars

-----------------------------------------------------------------------------
InHandler == {"entry", "push", "switch", "forever", "pop", "sysret"}
InSetup   == {"load_gdt", "efer", "lstar", "star", "fmask"}

(* Every variable has its type; in particular a call reaches the handler   *)
(* (LSTAR), and the handler takes off the stack what it put there, except  *)
(* for its frame.                                                          *)
TypeOK ==
  /\ pc \in InHandler \cup InSetup \cup {"user", "lost"}
  /\ \A m \in Msrs : msr[m] \subseteq 0 .. 63 /\ prior[m] \in Priors
  /\ rflags \subseteq 0 .. 31
  /\ allocation \in Allocations
  /\ calls \in 0 .. MaxCalls
  /\ Len(stack) = calls + (CASE pc = "entry" -> -1
                             [] pc \in {"switch", "forever", "pop"} -> 2
                             [] OTHER -> 0)

(* Setting up SYSCALL disturbs nothing else that the firmware had set in   *)
(* the registers: EFER (long mode, no-execute) and FMASK only gain bits,   *)
(* and the low half of STAR stays (kernel.c:180-188, asm.c:23-34).         *)
OthersPreserved ==
  pc \notin InSetup =>
    /\ msr[EFER] = prior[EFER] \cup {0}
    /\ msr[FMASK] \ {INTERRUPT} = prior[FMASK] \ {INTERRUPT}
    /\ msr[STAR] \cap (0 .. 31) = prior[STAR] \cap (0 .. 31)

(* While the handler runs, on the program's stack, interrupts are off and  *)
(* code and stack segments are the kernel's, whatever the program's flags  *)
(* and the firmware's STAR were (kernel.c:187-188, gdt.c:6-7).             *)
HandlerPrivileged ==
  pc \in InHandler => INTERRUPT \notin rflags /\ cs \in Segment(1, 0) /\ ss \in Segment(0, 0)

(* The compiler put no output of syscall.c:7-16 in register r. *)
Spared(r) == \A k \in 1 .. 7 : allocation[k] # r

(* What a program gets back is as good as the compiler's choice: a call    *)
(* misses its return address only if an output was put in rcx, and returns *)
(* other flags than the program's, its interrupt flag among them, only if  *)
(* one was put in r11 (syscall.c:7-40).  Nothing is said of the selectors. *)
BackIfSpared ==
  /\ pc = "lost" => ~ Spared("rcx")
  /\ pc = "user" /\ calls > 0 /\ Spared("r11") => rflags = caller

(* The inductive invariant: how far the registers are set up; that the     *)
(* handler runs with the program's flags but those that FMASK clears, in   *)
(* the segments that STAR names; and where the return address and the      *)
(* program's flags are kept until SYSRET, if the compiler spares them: in  *)
(* rcx and r11, and while the call is served on top of the stack.          *)
SetUp ==
  /\ msr \in [Msrs -> SUBSET (0 .. 63)] /\ prior \in [Msrs -> Priors]
  /\ msr[EFER] = IF pc \in {"load_gdt", "efer"} THEN prior[EFER] ELSE prior[EFER] \cup {0}
  /\ pc \notin {"load_gdt", "efer", "lstar"} => msr[LSTAR] = HandlerAddress
  /\ IF pc \in {"load_gdt", "efer", "lstar", "star"} THEN msr[STAR] = prior[STAR]
     ELSE msr[STAR] = (prior[STAR] \cap (0 .. 31)) \cup Shift(Bits(8), 32) \cup Shift(Bits(24), 48)
  /\ msr[FMASK] = IF pc \in InSetup THEN prior[FMASK] ELSE prior[FMASK] \cup {INTERRUPT}

Entered ==
  /\ pc \in InHandler => caller \in Flags /\ rflags = caller \ msr[FMASK] /\ cs = 8 /\ ss = 16 /\ calls > 0
  /\ pc \in InSetup => calls = 0

Kept(rcx, r11) == (Spared("rcx") => rcx = "caller") /\ (Spared("r11") => r11 = "flags")

FlagsKept ==
  /\ regs = [r \in Registers |-> regs[r]]
  /\ stack = [k \in 1 .. Len(stack) |-> stack[k]]
  /\ pc \in {"entry", "push", "sysret"} => Kept(regs["rcx"], regs["r11"])
  /\ pc \in {"switch", "forever", "pop"} => Kept(stack[Len(stack) - 1], stack[Len(stack)])

IInv == TypeOK /\ SetUp /\ Entered /\ FlagsKept /\ BackIfSpared
============================================================================
