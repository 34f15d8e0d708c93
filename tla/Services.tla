------------------------------ MODULE Services ------------------------------
(***************************************************************************)
(* The start of the devices and the kernel's services together: NvmeInit,  *)
(* Acpi, Pcie, Console (with Format), Libc and Syscall.  The six share no  *)
(* state in the kernel, so a behaviour is a behaviour of one of them, the  *)
(* part, and the others stay out of it.  The variables of all but NvmeInit *)
(* take turns in v1 to v12.                                                *)
(***************************************************************************)
EXTENDS NvmeInit

(* The constants of the parts, under their own names; WORD is NvmeInit's. *)
CONSTANTS
  Signatures, Xsdts, Names, Rates, Reloads,        \* Acpi
  Mcfgs, DEVS, FUNCS, INDEX, LIST,                 \* Pcie
  M, D, HEXD,                                      \* Format
  PPS, WIDTH, HEIGHT, FONT_WIDTH, FONT_HEIGHT,     \* Console
  Calls, MaxY,
  Bytes, MaxLen,                                   \* Libc
  Priors, Flags, Numbers, Allocations, MaxCalls    \* Syscall

VARIABLES part, v1, v2, v3, v4, v5, v6, v7, v8, v9, v10, v11, v12

nvme     == <<pc, high, reg, dstrd, rdy, cfs, taken>>
slots    == <<v1, v2, v3, v4, v5, v6, v7, v8, v9, v10, v11, v12>>
all      == <<part, nvme, slots>>

Acpi == INSTANCE Acpi WITH
       pc <- v1, xsdt <- v2, name <- v3, i <- v4, madt <- v5, int_per_second <- v6,
       apic <- v7, pit <- v8, port61 <- v9, tmp0 <- v10, tmp1 <- v11

Pcie == INSTANCE Pcie WITH
       pc <- v1, mcfg <- v2, i <- v3, j <- v4, k <- v5, l <- v6, index <- v7, config_space_addrs <- v8

Console == INSTANCE Console WITH
       x <- v1, y <- v2, lit <- v3, str <- v4, ap <- v5, i <- v6, a <- v7,
       pending <- v8, returned <- v9, stale <- v10, smudged <- v11

Libc == INSTANCE Libc WITH
       c <- v1, s1 <- v2, s2 <- v3, n <- v4, i <- v5, ret <- v6, past <- v7

Syscall == INSTANCE Syscall WITH
       pc <- v1, msr <- v2, prior <- v3, cs <- v4, ss <- v5, rflags <- v6, regs <- v7,
       allocation <- v8, args <- v9, stack <- v10, caller <- v11, calls <- v12

ASSUME ConstantsAssumption ==
  /\ Acpi!AcpiConstants /\ Pcie!PcieConstants /\ Console!ConsoleConstants
  /\ Libc!LibcConstants /\ Syscall!SyscallConstants

-----------------------------------------------------------------------------
(* The controller as it is when another part runs: off. *)
NvmeOff ==
  /\ pc = 1 /\ high = << >>
  /\ reg = [CC |-> 0, AQA |-> 0, ASQ |-> <<0, 0>>, ACQ |-> <<0, 0>>]
  /\ dstrd = 0 /\ rdy = 0 /\ cfs = 0 /\ taken = reg

Unused9  == v9 = 0 /\ v10 = 0 /\ v11 = 0 /\ v12 = 0
Unused   == v1 = 0 /\ v2 = 0 /\ v3 = 0 /\ v4 = 0 /\ v5 = 0 /\ v6 = 0 /\ v7 = 0 /\ v8 = 0 /\ Unused9

ServicesInit ==
  \/ part = "nvme" /\ Init /\ Unused
  \/ part = "acpi" /\ NvmeOff /\ Acpi!Init /\ v12 = 0
  \/ part = "pcie" /\ NvmeOff /\ Pcie!Init /\ Unused9
  \/ part = "console" /\ NvmeOff /\ Console!Init /\ v12 = 0
  \/ part = "format" /\ NvmeOff /\ Unused
  \/ part = "libc" /\ NvmeOff /\ Libc!Init /\ v8 = 0 /\ Unused9
  \/ part = "syscall" /\ NvmeOff /\ Syscall!Init

(* One part after another; the numbers that Format converts are v1. *)
NvmeStep    == part = "nvme" /\ Next /\ UNCHANGED <<part, slots>>
AcpiStep    == part = "acpi" /\ Acpi!Next /\ UNCHANGED <<part, nvme, v12>>
PcieStep    == part = "pcie" /\ Pcie!Next /\ UNCHANGED <<part, nvme, v9, v10, v11, v12>>
ConsoleStep == part = "console" /\ Console!Next /\ UNCHANGED <<part, nvme, v12>>
FormatStep  ==
  /\ part = "format"
  /\ v1' = (v1 + 1) % M
  /\ UNCHANGED <<part, nvme, v2, v3, v4, v5, v6, v7, v8, v9, v10, v11, v12>>
LibcStep    == part = "libc" /\ Libc!Next /\ UNCHANGED <<part, nvme, v8, v9, v10, v11, v12>>
SyscallStep == part = "syscall" /\ Syscall!Next /\ UNCHANGED <<part, nvme>>

ServicesNext ==
  NvmeStep \/ AcpiStep \/ PcieStep \/ ConsoleStep \/ FormatStep \/ LibcStep \/ SyscallStep

(* The fairness of NvmeInit, Pcie and Console, each for its part. *)
ServicesSpec ==
  /\ ServicesInit /\ [][ServicesNext]_all
  /\ WF_all(part = "nvme" /\ Kernel /\ UNCHANGED <<part, slots>>)
  /\ WF_all(part = "nvme" /\ FollowEN /\ UNCHANGED <<part, slots>>)
  /\ WF_all(part = "pcie" /\ Pcie!Enumerate /\ UNCHANGED <<part, nvme, v9, v10, v11, v12>>)
  /\ WF_all(part = "console" /\ Console!Printing /\ UNCHANGED <<part, nvme, v12>>)

-----------------------------------------------------------------------------
(* acpi_get_table finds the first table of a name or none; the PIT is      *)
(* programmed for one shot of 10 ms from every state the firmware may have *)
(* left it in, and a timer reading, whatever it is, is converted to a      *)
(* period that is never longer than it stands for (acpi.c:4-70); the list  *)
(* made from the MCFG has only functions it decodes, in the end those of   *)
(* one bus (pcie.c:27-46).                                                 *)
AcpiSound ==
  /\ part = "acpi" => Acpi!TypeOK /\ Acpi!FirstMatch /\ Acpi!PitFullPeriod /\ Acpi!PeriodOfReading
  /\ part = "pcie" => Pcie!ListedDecoded /\ Pcie!OneBusListed

(* Text is drawn in cells of its own, inside the framebuffer while the     *)
(* cursor is on the screen, and kprintf takes one argument a directive     *)
(* (print.c:6-83).                                                         *)
ConsoleSound ==
  part = "console" =>
    Console!TypeOK /\ Console!NoOverprint /\ Console!InsideFramebuffer /\ Console!ArgumentsInOrder

(* The conversions are exact, for a number of D digits behind the first    *)
(* (print.c:95-145), the character classes agree with each other           *)
(* (ctype.c), and strncmp reads nothing behind a NUL and finds the first   *)
(* difference, in POSIX's order where it does not depend on the sign of a  *)
(* char (string.c:18-26).                                                  *)
LibrarySound ==
  /\ part = "format" => Console!ItoaRight(v1) /\ Console!HexExact(v1)
  /\ part = "libc" => Libc!ClassesAgree /\ Libc!CaseRoundTrip /\ Libc!NothingPastNul /\ Libc!StrncmpOrder

(* Whatever the firmware left in the MSRs and whatever flags the program   *)
(* has, a system call runs with interrupts off in the kernel's segments    *)
(* and the other bits of the MSRs stay; the program gets its flags and     *)
(* return address back where the compiler spares r11 and rcx, which        *)
(* nothing makes it do (kernel.c:179-188, syscall.c:4-41).                 *)
HandlerSound ==
  part = "syscall" =>
    Syscall!TypeOK /\ Syscall!OthersPreserved /\ Syscall!HandlerPrivileged /\ Syscall!BackIfSpared

(* No loop of these waits for ever: the bring-up ends with the controller  *)
(* ready, unless it fails (kernel.c:150, 166), kprintf returns whatever    *)
(* its format holds (print.c:49-66), and the enumeration ends for every    *)
(* table (pcie.c:35-43).  Nothing is said of system calls.                 *)
Progress ==
  /\ (part = "nvme") ~> (Finished \/ cfs = 1)
  /\ (part = "pcie") ~> (part = "pcie" /\ v1 = "returned")
  /\ (part = "console" /\ Console!Called) ~> (part = "console" /\ Console!Back)

(* acpi.c:51 says "wait untile PIT counter reaches zero": the calibration  *)
(* goes on only when it has.                                               *)
PitWaited == part = "acpi" => Acpi!PitWaited
=============================================================================
