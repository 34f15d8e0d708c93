----------------------------- MODULE Interrupts -----------------------------
(***************************************************************************)
(* Interrupt set-up and handling of boot/kernel/idt.c: set_idt fills the   *)
(* gates, loads the table, programs the two 8259 controllers through their *)
(* initialisation words and enables interrupts; the handlers send one EOI  *)
(* to the first controller and return.  The controllers and the devices    *)
(* behind them (external) run on their own.                                *)
(***************************************************************************)
EXTENDS Integers, Sequences, FiniteSets, FiniteSetsExt

CONSTANTS Lines,     \* the IRQ lines, of 0..15, that devices raise
          MaxRaise,  \* bound: how often a line is raised
          OldBase    \* the vector the firmware gave IRQ 0

ASSUME LinesAssumption == Lines \subseteq (0 .. 15) \ {2}
ASSUME BoundsAssumption == MaxRaise \in Nat /\ OldBase \in 0 .. 240

PICs == {"PIC1", "PIC2"}
Inputs == 0 .. 7
Cascade == 2   \* the input of PIC1 that PIC2 is wired to

VARIABLES
  pc,      \* the next part of set_idt: "gates", "lidt", "cli", "program",
           \* "sti", or "running" after the return
  next,    \* the next outb of Program
  gates,   \* vectors whose gate was written, with the handler it names
  IF_,     \* the processor's interrupt flag
  active,  \* the handler that runs, or "main"
  eoi,     \* the running handler has sent its EOI
  fault,   \* an interrupt met a vector set_idt gave no handler for
  pic,     \* pic[c]: the registers of controller c
  raised   \* raised[l]: how often line l was raised

vars == <<pc, next, gates, IF_, active, eoi, fault, pic, raised>>

(* IRQ line l is input l of PIC1 or input l - 8 of PIC2. *)
PicOf(l)   == IF l < 8 THEN "PIC1" ELSE "PIC2"
InputOf(l) == l % 8

-----------------------------------------------------------------------------
GatesNoSpurious == [timer |-> 32, keyboard |-> 33, int_2b |-> 43, pf |-> 14, df |-> 8, gp |-> 13]

(* The vectors of the gates, idt.c:97-103. *)
Gates == [timer |-> 32, keyboard |-> 33, spurious_irq |-> 39, int_2b |-> 43,
          pf |-> 14, df |-> 8, gp |-> 13]

ProgramSwapped ==
  << <<"PIC1", "com", 17>>, <<"PIC2", "com", 17>>,
     <<"PIC1", "data", 4>>, <<"PIC2", "data", 2>>,
     <<"PIC1", "data", 32>>, <<"PIC2", "data", 40>>,
     <<"PIC1", "data", 1>>, <<"PIC2", "data", 1>>,
     <<"PIC1", "data", 0>>, <<"PIC2", "data", 0>> >>

(* idt.c:109-130: controller, port and value of each outb. *)
Program ==
  << <<"PIC1", "com", 17>>, <<"PIC2", "com", 17>>,
     <<"PIC1", "data", 32>>, <<"PIC2", "data", 40>>,
     <<"PIC1", "data", 4>>, <<"PIC2", "data", 2>>,
     <<"PIC1", "data", 1>>, <<"PIC2", "data", 1>>,
     <<"PIC1", "data", 0>>, <<"PIC2", "data", 0>> >>

(* External: what an 8259 does with a byte.  ICW1 starts the sequence and  *)
(* clears it; ICW2 is the vector base; ICW3 and ICW4 end the sequence, and *)
(* then a data byte is the mask and command 0x20 the non-specific EOI.     *)
Bit(v, i) == (v \div 2^i) % 2 = 1
Out(r, port, v) ==
  CASE port = "com" /\ Bit(v, 4) -> [r EXCEPT !.icw = 2, !.imr = {}, !.isr = {}, !.irr = {}]
    [] port = "com" /\ v = 32    -> [r EXCEPT !.isr = IF @ = {} THEN @ ELSE @ \ {Min(@)}]
    [] port = "data" /\ r.icw = 2 -> [r EXCEPT !.icw = 3, !.base = v]
    [] port = "data" /\ r.icw = 3 -> [r EXCEPT !.icw = 4]
    [] port = "data" /\ r.icw = 4 -> [r EXCEPT !.icw = 0]
    [] port = "data" /\ r.icw = 0 -> [r EXCEPT !.imr = {i \in Inputs : Bit(v, i)}]

(* External: the input an 8259 would deliver next, if any, as a set: the   *)
(* requests that are not masked nor below one in service.                  *)
Deliverable(c) ==
  LET r    == pic[c]
      req  == r.irr \cup IF c = "PIC1" /\ {i \in pic["PIC2"].irr \ pic["PIC2"].imr :
                                             \A j \in pic["PIC2"].isr : i < j} # {}
                         THEN {Cascade} ELSE {}
      open == {i \in req \ r.imr : \A j \in r.isr : i < j}
  IN  IF r.icw # 0 \/ open = {} THEN {} ELSE {Min(open)}

-----------------------------------------------------------------------------
(* The firmware left the controllers on its own vectors, with all inputs   *)
(* masked or none, and interrupts enabled.                                 *)
Init ==
  /\ pc = "gates" /\ next = 1
  /\ gates = <<>>
  /\ IF_ = TRUE
  /\ active = "main" /\ eoi = FALSE /\ fault = FALSE
  /\ \E mask \in {{}, Inputs} :
       pic = [c \in PICs |-> [icw |-> 0, base |-> IF c = "PIC1" THEN OldBase ELSE OldBase + 8,
                              imr |-> mask, isr |-> {}, irr |-> {}]]
  /\ raised = [l \in Lines |-> 0]

(* idt.c:8-103: the gates are written to the page req_page gave; the rest  *)
(* of the page, which is not cleared, is no handler.                       *)
WriteGates ==
  /\ pc = "gates" /\ pc' = "lidt"
  /\ gates' = Gates
  /\ UNCHANGED <<next, IF_, active, eoi, fault, pic, raised>>

(* idt.c:105 *)
Lidt ==
  /\ pc = "lidt" /\ pc' = "cli" /\ active = "main"
  /\ UNCHANGED <<next, gates, IF_, active, eoi, fault, pic, raised>>

CliMissing ==
  /\ pc = "cli" /\ pc' = "program" /\ active = "main"
  /\ UNCHANGED <<next, gates, IF_, active, eoi, fault, pic, raised>>

(* idt.c:107 *)
Cli ==
  /\ pc = "cli" /\ pc' = "program" /\ active = "main"
  /\ IF_' = FALSE
  /\ UNCHANGED <<next, gates, active, eoi, fault, pic, raised>>

(* idt.c:109-130, one outb a step. *)
OutProgram ==
  /\ pc = "program" /\ active = "main"
  /\ LET o == Program[next] IN pic' = [pic EXCEPT ![o[1]] = Out(@, o[2], o[3])]
  /\ next' = next + 1
  /\ pc' = IF next = Len(Program) THEN "sti" ELSE "program"
  /\ UNCHANGED <<gates, IF_, active, eoi, fault, raised>>

(* idt.c:132 *)
Sti ==
  /\ pc = "sti" /\ pc' = "running"
  /\ IF_' = TRUE
  /\ UNCHANGED <<next, gates, active, eoi, fault, pic, raised>>

HandlerEoiMissing ==
  /\ active \in DOMAIN Gates /\ ~ eoi
  /\ pic' = IF active = "keyboard" THEN pic ELSE [pic EXCEPT !["PIC1"] = Out(@, "com", 32)]
  /\ eoi' = TRUE
  /\ UNCHANGED <<pc, next, gates, IF_, active, fault, raised>>

(* idt.c:134-182: every handler writes 0x20 to port 0x20, PIC1's command   *)
(* port.  The four interrupt handlers return, iretq restoring the flag;    *)
(* the exception handlers do not.                                          *)
HandlerEoi ==
  /\ active \in DOMAIN Gates /\ ~ eoi
  /\ pic' = [pic EXCEPT !["PIC1"] = Out(@, "com", 32)]
  /\ eoi' = TRUE
  /\ UNCHANGED <<pc, next, gates, IF_, active, fault, raised>>

HandlerReturn ==
  /\ active \in {"timer", "keyboard", "spurious_irq", "int_2b"} /\ eoi
  /\ active' = "main" /\ eoi' = FALSE /\ IF_' = TRUE
  /\ UNCHANGED <<pc, next, gates, fault, pic, raised>>

HandlerHalt ==
  /\ active \in {"pf", "df", "gp"} /\ eoi
  /\ active' = "halted" /\ IF_' = FALSE
  /\ UNCHANGED <<pc, next, gates, eoi, fault, pic, raised>>

(* External: a device raises a line. *)
Raise(l) ==
  /\ raised[l] < MaxRaise
  /\ raised' = [raised EXCEPT ![l] = @ + 1]
  /\ pic' = [pic EXCEPT ![PicOf(l)].irr = @ \cup {InputOf(l)}]
  /\ UNCHANGED <<pc, next, gates, IF_, active, eoi, fault>>

(* The processor enters the gate of a vector.  An interrupt gate (type     *)
(* 0b1110) clears the flag, a trap gate (0b1111) does not.  A vector       *)
(* without a gate of set_idt is a fault.                                   *)
InterruptHandlers == {"timer", "keyboard", "spurious_irq", "int_2b"}
Enter(vector) ==
  /\ IF \E h \in DOMAIN gates : gates[h] = vector
     THEN \E h \in DOMAIN gates :
            /\ gates[h] = vector
            /\ active' = h /\ eoi' = FALSE
            /\ IF_' = (IF_ /\ h \notin InterruptHandlers)
            /\ UNCHANGED fault
     ELSE fault' = TRUE /\ UNCHANGED <<active, eoi, IF_>>
  /\ UNCHANGED <<pc, next, gates, raised>>

(* Interrupts reach the kernel's table once it is loaded (idt.c:105) and   *)
(* the flag is set.                                                        *)
Accepts == IF_ /\ ~ fault /\ pc \notin {"gates", "lidt"}

(* External: the processor acknowledges PIC1, which delivers an input of   *)
(* its own or, for the cascade, one of PIC2.                               *)
Acknowledge ==
  /\ Accepts
  /\ \E i \in Deliverable("PIC1") :
       IF i = Cascade
       THEN \E k \in Deliverable("PIC2") :
              /\ pic' = [pic EXCEPT !["PIC1"].isr = @ \cup {Cascade},
                                    !["PIC2"].isr = @ \cup {k}, !["PIC2"].irr = @ \ {k}]
              /\ Enter(pic["PIC2"].base + k)
       ELSE /\ pic' = [pic EXCEPT !["PIC1"].isr = @ \cup {i}, !["PIC1"].irr = @ \ {i}]
            /\ Enter(pic["PIC1"].base + i)

(* External: the request went away before the acknowledge.  The controller *)
(* that had it gives the vector of its input 7 and puts nothing in service;*)
(* PIC1 still has the cascade in service when that controller is PIC2.     *)
AcknowledgeSpurious ==
  /\ Accepts
  /\ \E i \in Deliverable("PIC1") :
       IF i = Cascade
       THEN /\ \E k \in Deliverable("PIC2") :
                 pic' = [pic EXCEPT !["PIC1"].isr = @ \cup {Cascade}, !["PIC2"].irr = @ \ {k}]
            /\ Enter(pic["PIC2"].base + 7)
       ELSE /\ pic' = [pic EXCEPT !["PIC1"].irr = @ \ {i}]
            /\ Enter(pic["PIC1"].base + 7)

(* The kernel idles in while (1) (kernel.c:197), has faulted, or has run   *)
(* an exception handler into its cli; hlt (idt.c:150-182).                 *)
Wait == (pc = "running" \/ fault \/ active = "halted") /\ UNCHANGED vars

SetIdt  == WriteGates \/ Lidt \/ Cli \/ OutProgram \/ Sti
Handler == HandlerEoi \/ HandlerReturn \/ HandlerHalt

Next ==
  \/ ~ fault /\ (SetIdt \/ Handler)
  \/ \E l \in Lines : Raise(l)
  \/ Acknowledge \/ AcknowledgeSpurious
  \/ Wait

(* The processor runs and takes an interrupt it is offered. *)
Fairness == WF_vars(~ fault /\ (SetIdt \/ Handler)) /\ WF_vars(Acknowledge \/ AcknowledgeSpurious)

Spec == Init /\ [][Next]_vars /\ Fairness

-----------------------------------------------------------------------------
(* Every variable has its type; in particular set_idt stops at its last   *)
(* outb (idt.c:129).                                                       *)
TypeOK ==
  /\ pc \in {"gates", "lidt", "cli", "program", "sti", "running"}
  /\ next \in Nat /\ (pc = "program" => next \in DOMAIN Program)
  /\ gates \in {<<>>, Gates}
  /\ IF_ \in BOOLEAN /\ eoi \in BOOLEAN /\ fault \in BOOLEAN
  /\ active \in DOMAIN Gates \cup {"main", "halted"}
  /\ pic \in [PICs -> [icw: {0, 2, 3, 4}, base: 0 .. 255, imr: SUBSET Inputs,
                       isr: SUBSET Inputs, irr: SUBSET Inputs]]
  /\ raised \in [Lines -> 0 .. MaxRaise]

(* From sti on (idt.c:132) every IRQ line l arrives on vector 0x20 + l: no *)
(* line lands on an exception's vector, both controllers having finished   *)
(* their initialisation, whatever was raised while set_idt ran; and every  *)
(* variable has its type.                                                  *)
VectorsRemapped ==
  /\ TypeOK
  /\ pc = "running" => /\ pic["PIC1"].icw = 0 /\ pic["PIC1"].base = 32
                       /\ pic["PIC2"].icw = 0 /\ pic["PIC2"].base = 40

(* Between cli and sti (idt.c:107-132) no handler runs and no interrupt    *)
(* faults: the controllers are never half programmed under an interrupt.   *)
ProgrammedUndisturbed == pc = "program" => active = "main" /\ ~ fault

(* When no handler runs, PIC1 has nothing in service: each interrupt's EOI *)
(* was for it and not for another, spurious ones included (idt.c:135,      *)
(* 139, 143, 147), so no input of PIC1 is blocked.                         *)
Pic1Released == pc = "running" /\ active = "main" /\ ~ fault => pic["PIC1"].isr = {}

(* The interrupt that is taken in this step is a spurious one of PIC2: the *)
(* cascade goes into service on PIC1 and a request of PIC2 is gone without *)
(* being in service there.                                                 *)
Pic2Spurious ==
  \E k \in pic["PIC2"].irr :
    pic' = [pic EXCEPT !["PIC1"].isr = @ \cup {Cascade}, !["PIC2"].irr = @ \ {k}]

(* When the lines in use are ones with a gate, the only interrupt that can *)
(* fault after set_idt returned is a spurious one of PIC2, whose vector    *)
(* 0x2f has no gate (idt.c:97-103); one of PIC1 has (idt.c:99).            *)
OnlyPic2SpuriousFaults ==
  [][pc = "running" /\ ~ fault /\ fault' => Pic2Spurious]_vars

(* A request on an input of PIC1 is taken in the end, unless an interrupt  *)
(* faults.                                                                 *)
Pic1Served ==
  \A l \in Lines \cap Inputs :
    (pc = "running" /\ ~ fault /\ l \in pic["PIC1"].irr) ~> (l \notin pic["PIC1"].irr \/ fault)

(* idt.c:126 says "Mask both PICs to use APIC". *)
PicsMasked == pc = "running" => \A c \in PICs : pic[c].imr = Inputs
=============================================================================
