-------------------------------- MODULE Acpi --------------------------------
(***************************************************************************)
(* dev/acpi/acpi.c: the search for a table in the XSDT, and the set-up of  *)
(* the local APIC's timer, calibrated against channel 2 of the PIT.  The   *)
(* PIT (external) counts on its own once its gate is raised.               *)
(*                                                                         *)
(* A 32-bit value is a number below WORD; apic is the register page,       *)
(* by byte offset.  PIT values are 16 bits wide and kept as they are.      *)
(***************************************************************************)
EXTENDS Integers, Sequences

CONSTANTS Signatures, \* of tables
          Xsdts,     \* the tables of the machine: sequences of signatures
          Names,     \* signatures that are looked for
          WORD,      \* 2^32
          Rates,     \* int_per_second
          Reloads    \* PIT reload values the firmware may have left

(* Values of a PIT count, and the one for 10 ms. *)
Counts == 0 .. 65535
TEN_MS == 11931

(* What the constants must satisfy. *)
AcpiConstants ==
  /\ WORD \in Nat /\ WORD > 2^8
  /\ Xsdts \subseteq Seq(Signatures) /\ Names \subseteq Signatures /\ "APIC" \in Names
  /\ Rates \subseteq Nat \ {0} /\ Reloads \subseteq Counts

NULL == 0

VARIABLES
  pc,               \* the statement that comes next
  xsdt,             \* the root table
  name, i,          \* acpi_get_table: its argument and loop variable
  madt,             \* the index of the table found, or NULL
  int_per_second,   \* acpi_set_apic_timer's argument
  apic,             \* the architectural APIC registers, by byte offset
  pit,              \* channel 2: mode, bytes loaded, reload, running count
  port61,           \* gate, speaker and, for reading, the channel's output
  tmp0, tmp1        \* acpi.c:69-70

vars == <<pc, xsdt, name, i, madt, int_per_second, apic, pit, port61, tmp0, tmp1>>

(* acpi.h:18-27.  No register of the page, these four or another, is at    *)
(* four times the offset of one of these.                                  *)
APIC_REGISTER_SPURIOUS  == 240
APIC_REGISTER_LVT_TIMER == 800
APIC_REGISTER_TIMER_ICR == 896
APIC_REGISTER_TIMER_DIV == 992
Architectural == {240, 800, 896, 992}

(* apic_base + r, with apic_base a uint32_t*: r words, so 4 * r bytes. *)
Offset(r) == 4 * r

(* External: a write that meets no register has no effect; a read of one   *)
(* gives some value.                                                       *)
Written(a, r, v) == IF Offset(r) \in Architectural THEN [a EXCEPT ![Offset(r)] = v] ELSE a
Readings(r)      == IF Offset(r) \in Architectural THEN {apic[Offset(r)]} ELSE 0 .. (WORD - 1)

-----------------------------------------------------------------------------
Init ==
  /\ pc = "search"
  /\ xsdt \in Xsdts /\ name \in Names /\ i = 1 /\ madt = NULL
  /\ int_per_second \in Rates
  /\ apic = [r \in Architectural |-> 0]
  /\ \E reload \in Reloads : pit = [mode |-> 3, low |-> << >>, reload |-> reload, count |-> reload]
  /\ port61 \in [gate: {0, 1}, speaker: {0, 1}, out: {0, 1}]
  /\ tmp0 = 0 /\ tmp1 = 0

(* acpi_get_table, acpi.c:4-17: one entry of the XSDT. *)
Search ==
  /\ pc = "search"
  /\ IF i > Len(xsdt) THEN madt' = NULL /\ i' = i /\ pc' = "absent"
     ELSE IF xsdt[i] = name THEN madt' = i /\ i' = i /\ pc' = "found"
     ELSE i' = i + 1 /\ UNCHANGED <<madt, pc>>
  /\ UNCHANGED <<xsdt, name, int_per_second, apic, pit, port61, tmp0, tmp1>>

(* acpi.c:19-29: spurious and timer vectors, and the divider. *)
MapVectors ==
  /\ pc = "found" /\ name = "APIC"
  /\ apic' = LET s == Written(apic, APIC_REGISTER_SPURIOUS, 39)
                 l == Written(s, APIC_REGISTER_LVT_TIMER, 33)
             IN  Written(l, APIC_REGISTER_TIMER_DIV, 3)
  /\ pc' = "gate"
  /\ UNCHANGED <<xsdt, name, i, madt, int_per_second, pit, port61, tmp0, tmp1>>

(* External: the gate of channel 2.  A rising edge starts the one shot.    *)
Gate(p, q, g) ==
  /\ port61' = [p EXCEPT !.gate = g, !.out = IF g = 1 /\ p.gate = 0 THEN 0 ELSE @]
  /\ pit' = [q EXCEPT !.count = IF g = 1 /\ p.gate = 0 THEN q.reload ELSE @]

(* acpi.c:35 *)
OpenGate ==
  /\ pc = "gate"
  /\ Gate([port61 EXCEPT !.speaker = 0], pit, 1)
  /\ pc' = "command"
  /\ UNCHANGED <<xsdt, name, i, madt, int_per_second, apic, tmp0, tmp1>>

(* acpi.c:36-41: the command byte 0xb2, that is channel 2, both bytes,     *)
(* mode 1, then the low and the high byte of the reload value.             *)
PitBytes == [command |-> 178, low |-> 155, high |-> 46]

PitOutSwapped(step) ==
  CASE step = "command" -> [pit EXCEPT !.mode = (PitBytes.command \div 2) % 8, !.low = << >>]
    [] step = "low"     -> [pit EXCEPT !.low = <<PitBytes.high>>]
    [] step = "high"    -> [pit EXCEPT !.low = << >>, !.reload = Head(pit.low) + 256 * PitBytes.low]

PitOut(step) ==
  CASE step = "command" -> [pit EXCEPT !.mode = (PitBytes.command \div 2) % 8, !.low = << >>]
    [] step = "low"     -> [pit EXCEPT !.low = <<PitBytes.low>>]
    [] step = "high"    -> [pit EXCEPT !.low = << >>, !.reload = Head(pit.low) + 256 * PitBytes.high]

ProgramPit ==
  /\ pc \in DOMAIN PitBytes
  /\ pit' = PitOut(pc)
  /\ pc' = CASE pc = "command" -> "low" [] pc = "low" -> "high" [] pc = "high" -> "gate_low"
  /\ UNCHANGED <<xsdt, name, i, madt, int_per_second, apic, port61, tmp0, tmp1>>

(* acpi.c:44-46: the gate is dropped and raised, which starts the count. *)
StartPit ==
  /\ \/ pc = "gate_low" /\ pc' = "gate_high" /\ Gate(port61, pit, 0)
     \/ pc = "gate_high" /\ pc' = "reset" /\ Gate(port61, pit, 1)
  /\ UNCHANGED <<xsdt, name, i, madt, int_per_second, apic, tmp0, tmp1>>

(* acpi.c:49 *)
ResetTimer ==
  /\ pc = "reset"
  /\ apic' = Written(apic, APIC_REGISTER_TIMER_ICR, WORD - 1)
  /\ pc' = "wait"
  /\ UNCHANGED <<xsdt, name, i, madt, int_per_second, pit, port61, tmp0, tmp1>>

(* acpi.c:52: `inb(0x61) & 0x20 == 0' is inb(0x61) & (0x20 == 0), that is  *)
(* 0: the loop is left at its first test, whatever was read.               *)
WaitPit ==
  /\ pc = "wait"
  /\ pc' = "stop"
  /\ UNCHANGED <<xsdt, name, i, madt, int_per_second, apic, pit, port61, tmp0, tmp1>>

(* acpi.c:55-69: the timer is stopped and a count read, from the initial   *)
(* count register.                                                         *)
StopTimer ==
  /\ pc = "stop"
  /\ apic' = Written(apic, APIC_REGISTER_LVT_TIMER, 65536)
  /\ tmp0' \in Readings(APIC_REGISTER_TIMER_ICR)
  /\ pc' = "period"
  /\ UNCHANGED <<xsdt, name, i, madt, int_per_second, pit, port61, tmp1>>

(* acpi.c:70.  The subtraction and the shift by 4 are 32 bits wide, the    *)
(* product and the division are not, and the result is cut to 32 bits.     *)
Period(count, rate) ==
  LET ticks == (WORD - 1 - count + 1) % WORD
  IN  (((((ticks * 16) % WORD) * 100) \div rate) \div 16) % WORD

(* acpi.c:70-78 *)
StartTimer ==
  /\ pc = "period"
  /\ tmp1' = Period(tmp0, int_per_second)
  /\ apic' = IF tmp1' >= 16
             THEN Written(Written(apic, APIC_REGISTER_TIMER_ICR, tmp1'), APIC_REGISTER_LVT_TIMER, 32 + 131072)
             ELSE apic
  /\ pc' = "returned"
  /\ UNCHANGED <<xsdt, name, i, madt, int_per_second, pit, port61, tmp0>>

(* External: the count of channel 2 reaches zero. *)
PitExpires ==
  /\ port61.gate = 1 /\ port61.out = 0
  /\ port61' = [port61 EXCEPT !.out = 1]
  /\ UNCHANGED <<pc, xsdt, name, i, madt, int_per_second, apic, pit, tmp0, tmp1>>

(* The caller of acpi_get_table goes on with its result; for the APIC's    *)
(* table it does not test for NULL (kernel.c:82-83).                       *)
Returned ==
  /\ pc \in {"returned", "absent"} \/ (pc = "found" /\ name # "APIC")
  /\ UNCHANGED vars

Next ==
  \/ Search \/ MapVectors \/ OpenGate \/ ProgramPit \/ StartPit \/ ResetTimer
  \/ WaitPit \/ StopTimer \/ StartTimer \/ PitExpires \/ Returned

Spec == Init /\ [][Next]_vars

-----------------------------------------------------------------------------
Latches == {<< >>} \cup {<<b>> : b \in 0 .. 255}
Counting == {"reset", "wait", "stop", "period", "returned"}

(* Every variable has its type; in particular the count that is programmed *)
(* fits 32 bits.                                                           *)
TypeOK ==
  /\ pc \in Counting \cup DOMAIN PitBytes \cup {"search", "found", "absent", "gate", "gate_low", "gate_high"}
  /\ xsdt \in Xsdts /\ name \in Names /\ i \in 1 .. (Len(xsdt) + 1) /\ madt \in 0 .. Len(xsdt)
  /\ int_per_second \in Rates
  /\ apic \in [Architectural -> Nat]
  /\ pit \in [mode: 0 .. 7, low: Latches, reload: Counts, count: Counts]
  /\ port61 \in [gate: {0, 1}, speaker: {0, 1}, out: {0, 1}]
  /\ tmp0 \in 0 .. (WORD - 1) /\ tmp1 \in 0 .. (WORD - 1)

(* acpi_get_table returns the first table with the name asked for, and     *)
(* NULL exactly when there is none (acpi.c:8-16).                          *)
FirstMatch ==
  pc # "search" =>
    IF madt = NULL THEN \A j \in DOMAIN xsdt : xsdt[j] # name
    ELSE xsdt[madt] = name /\ \A j \in 1 .. (madt - 1) : xsdt[j] # name

(* The one shot the calibration relies on runs for 11931 ticks, 10 ms, in  *)
(* mode 1 with the speaker off, whatever mode, count and gate the firmware *)
(* left the channel in (acpi.c:35-46).                                     *)
PitFullPeriod ==
  pc \in Counting => pit.count = TEN_MS /\ pit.mode = 1 /\ port61.speaker = 0 /\ port61.gate = 1

(* The conversion of whatever value was read (acpi.c:69-70): if that value *)
(* leaves t ticks, the period programmed is never longer than t * 100      *)
(* divided by the rate asked for, and it is that when t fits the 28 bits   *)
(* that the shift by 4 leaves.  Nothing is said of the reading, which is   *)
(* not the timer's current count that acpi.c:58 means to get.              *)
PeriodOfReading ==
  LET ticks == (WORD - tmp0) % WORD
      asked == (ticks * 100) \div int_per_second
  IN  pc = "returned" => tmp1 <= asked /\ (ticks * 16 < WORD /\ asked < WORD => tmp1 = asked)

(* The inductive invariant: the entries of the XSDT that the search has    *)
(* passed have another name; what each statement has made of the gate and  *)
(* the channel so far, the reload value only once both its bytes are in    *)
(* (acpi.c:35-46); and the count that is programmed is Period's.           *)
Passed == pc = "search" => madt = NULL /\ \A j \in 1 .. (i - 1) : xsdt[j] # name

Programmed ==
  /\ pc \in Counting \cup {"command", "low", "high", "gate_low", "gate_high"} => port61.speaker = 0
  /\ pc \in Counting \cup {"command", "low", "high", "gate_low"} => port61.gate = 1
  /\ pc = "gate_high" => port61.gate = 0
  /\ pc \in Counting \cup {"low", "high", "gate_low", "gate_high"} => pit.mode = 1
  /\ pc = "high" => pit.low = <<155>>
  /\ pc \in Counting \cup {"gate_low", "gate_high"} => pit.reload = TEN_MS
  /\ pc \in Counting => pit.count = TEN_MS

Computed == pc = "returned" => tmp1 = Period(tmp0, int_per_second)

IInv == TypeOK /\ Passed /\ FirstMatch /\ Programmed /\ Computed

(* acpi.c:51 says "wait untile PIT counter reaches zero". *)
PitWaited == pc \in {"stop", "period", "returned"} => port61.out = 1
=============================================================================
