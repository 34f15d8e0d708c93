-------------------------- MODULE InterruptsProofs --------------------------
(***************************************************************************)
(* Proofs about Interrupts, for every set of lines, any number of raises   *)
(* and every vector base the firmware may have left: the remapping, the    *)
(* undisturbed programming and the released controller; and, for the lines *)
(* set_idt has a gate for, that only a spurious interrupt of the second    *)
(* controller can fault once set_idt returned.                             *)
(***************************************************************************)
EXTENDS Interrupts, WellFoundedInduction, TLAPS

(* The inputs of controller c that Lines can raise. *)
Wired(c) == {i \in Inputs : \E l \in Lines : PicOf(l) = c /\ InputOf(l) = i}

(* The registers of an 8259, as TypeOK has them. *)
Regs == [icw: {0, 2, 3, 4}, base: 0 .. 255, imr: SUBSET Inputs,
         isr: SUBSET Inputs, irr: SUBSET Inputs]

(* TypeOK, with the outbs counted. *)
Typed ==
  /\ pc \in {"gates", "lidt", "cli", "program", "sti", "running"}
  /\ next \in 1 .. 11 /\ (pc = "program" => next <= 10)
  /\ IF_ \in BOOLEAN /\ eoi \in BOOLEAN /\ fault \in BOOLEAN
  /\ active \in DOMAIN Gates \cup {"main", "halted"}
  /\ pic \in [PICs -> Regs]
  /\ raised \in [Lines -> 0 .. MaxRaise]

(* How far set_idt is, and the table it has loaded. *)
Progress ==
  /\ pc \in {"gates", "lidt", "cli"} => next = 1
  /\ pc \in {"sti", "running"} => next = 11
  /\ gates = IF pc = "gates" THEN <<>> ELSE Gates

(* Until lidt no interrupt is taken by this table; between cli and sti     *)
(* none is taken at all.                                                   *)
Undisturbed ==
  /\ pc \in {"gates", "lidt", "program", "sti"} => active = "main" /\ ~ eoi /\ ~ fault
  /\ pc \in {"program", "sti"} => ~ IF_
  /\ active = "main" => ~ eoi

(* The initialisation word each controller expects after the outbs done,   *)
(* and the vector base once its second word was written.                   *)
Sequence ==
  LET r1 == pic["PIC1"]
      r2 == pic["PIC2"]
  IN  pc \in {"program", "sti", "running"} =>
        /\ next \in {2, 3} => r1.icw = 2
        /\ next \in {4, 5} => r1.icw = 3
        /\ next \in {6, 7} => r1.icw = 4
        /\ next >= 8 => r1.icw = 0
        /\ next >= 4 => r1.base = 32
        /\ next \in {3, 4} => r2.icw = 2
        /\ next \in {5, 6} => r2.icw = 3
        /\ next \in {7, 8} => r2.icw = 4
        /\ next >= 9 => r2.icw = 0
        /\ next >= 5 => r2.base = 40

(* PIC1 has an input in service only between an interrupt and its EOI, and *)
(* at most one: the handler runs with interrupts off.                      *)
Service ==
  /\ (pc = "program" /\ next >= 2) \/ pc = "sti" => pic["PIC1"].isr = {}
  /\ pc = "running" /\ ~ fault =>
       \/ active = "main" /\ pic["PIC1"].isr = {}
       \/ /\ active \in InterruptHandlers /\ ~ IF_
          /\ \/ pic["PIC1"].isr = {}
             \/ ~ eoi /\ \E i \in Inputs : pic["PIC1"].isr = {i}

(* Only wired inputs are requested; the cascade input is not one of them. *)
Requests == \A c \in PICs : pic[c].irr \subseteq Wired(c)

IInv == Typed /\ Progress /\ Undisturbed /\ Sequence /\ Service /\ Requests

-----------------------------------------------------------------------------
(* A set of inputs that is not empty has a least element, the one an 8259  *)
(* delivers.                                                               *)
LEMMA MinInput ==
  ASSUME NEW S \in SUBSET Nat, S # {}
  PROVE  Min(S) \in S
<1>1. \E x \in S : \A y \in S : ~ (<<y, x>> \in OpToRel(<, Nat))
  BY NatLessThanWellFounded, WFMin
<1>2. ASSUME NEW x \in Nat, NEW y \in Nat, y < x
      PROVE  <<y, x>> \in OpToRel(<, Nat)
  BY <1>2, Zenon DEF OpToRel
<1>3. \E x \in S : \A y \in S : ~ (y < x)
  BY <1>1, <1>2, Zenon
<1>4. \E x \in S : \A y \in S : x <= y
  BY <1>3
<1> QED
  BY <1>4 DEF Min

(* An input of PIC1 that is delivered is a request of its own or the       *)
(* cascade; one of PIC2 is a request of its own.                           *)
LEMMA DeliverableRequest ==
  ASSUME pic \in [PICs -> Regs]
  PROVE  /\ Deliverable("PIC1") \subseteq pic["PIC1"].irr \cup {Cascade}
         /\ Deliverable("PIC2") \subseteq pic["PIC2"].irr
<1> DEFINE r(c) == pic[c]
           req(c) == r(c).irr \cup IF c = "PIC1" /\ {i \in pic["PIC2"].irr \ pic["PIC2"].imr :
                                                      \A j \in pic["PIC2"].isr : i < j} # {}
                                   THEN {Cascade} ELSE {}
           open(c) == {i \in req(c) \ r(c).imr : \A j \in r(c).isr : i < j}
<1>1. ASSUME NEW c \in PICs
      PROVE  Deliverable(c) \subseteq open(c)
  <2>1. open(c) \in SUBSET Nat
    BY DEF PICs, Regs, Inputs, Cascade
  <2>2. Deliverable(c) = IF r(c).icw # 0 \/ open(c) = {} THEN {} ELSE {Min(open(c))}
    BY DEF Deliverable
  <2> HIDE DEF open
  <2> QED
    BY <2>1, <2>2, MinInput
<1> QED
  BY <1>1 DEF PICs

(* The registers after the bytes set_idt and the handlers write. *)
LEMMA OutCases ==
  ASSUME NEW r \in Regs, NEW v \in 0 .. 255
  PROVE  /\ Out(r, "com", 17) = [r EXCEPT !.icw = 2, !.imr = {}, !.isr = {}, !.irr = {}]
         /\ Out(r, "com", 32) = [r EXCEPT !.isr = IF @ = {} THEN @ ELSE @ \ {Min(@)}]
         /\ r.icw = 2 => Out(r, "data", v) = [r EXCEPT !.icw = 3, !.base = v]
         /\ r.icw = 3 => Out(r, "data", v) = [r EXCEPT !.icw = 4]
         /\ r.icw = 4 => Out(r, "data", v) = [r EXCEPT !.icw = 0]
         /\ r.icw = 0 => Out(r, "data", v) = [r EXCEPT !.imr = {i \in Inputs : Bit(v, i)}]
<1>1. Bit(17, 4) /\ ~ Bit(32, 4)
  BY DEF Bit
<1>2. /\ Out(r, "com", 17) = [r EXCEPT !.icw = 2, !.imr = {}, !.isr = {}, !.irr = {}]
      /\ Out(r, "com", 32) = [r EXCEPT !.isr = IF @ = {} THEN @ ELSE @ \ {Min(@)}]
  BY <1>1 DEF Out
<1>3. /\ r.icw = 2 => Out(r, "data", v) = [r EXCEPT !.icw = 3, !.base = v]
      /\ r.icw = 3 => Out(r, "data", v) = [r EXCEPT !.icw = 4]
      /\ r.icw = 4 => Out(r, "data", v) = [r EXCEPT !.icw = 0]
      /\ r.icw = 0 => Out(r, "data", v) = [r EXCEPT !.imr = {i \in Inputs : Bit(v, i)}]
  BY DEF Out
<1> QED
  BY <1>2, <1>3

(* ICW1 starts the initialisation and clears the requests and services. *)
LEMMA OutInit ==
  ASSUME NEW r \in Regs, NEW x, x = Out(r, "com", 17)
  PROVE  x \in Regs /\ x.icw = 2 /\ x.base = r.base /\ x.isr = {} /\ x.irr = {}
<1>1. x = [r EXCEPT !.icw = 2, !.imr = {}, !.isr = {}, !.irr = {}]
  <2>1. 0 \in 0 .. 255
    OBVIOUS
  <2> QED
    BY <2>1, OutCases
<1> QED
  BY <1>1 DEF Regs

(* The EOI releases the only input in service. *)
LEMMA OutEoi ==
  ASSUME NEW r \in Regs, NEW x, x = Out(r, "com", 32)
  PROVE  /\ x \in Regs /\ x.icw = r.icw /\ x.base = r.base /\ x.irr = r.irr
         /\ r.isr = {} => x.isr = {}
         /\ \A i \in Inputs : r.isr = {i} => x.isr = {}
<1>1. x = [r EXCEPT !.isr = IF @ = {} THEN @ ELSE @ \ {Min(@)}]
  <2>1. 0 \in 0 .. 255
    OBVIOUS
  <2> QED
    BY <2>1, OutCases
<1>2. ASSUME NEW i \in Inputs PROVE Min({i}) = i
  BY DEF Min, Inputs
<1>3. /\ x \in Regs /\ x.icw = r.icw /\ x.base = r.base /\ x.irr = r.irr
      /\ x.isr = IF r.isr = {} THEN r.isr ELSE r.isr \ {Min(r.isr)}
  BY <1>1 DEF Regs
<1> QED
  BY <1>2, <1>3

(* A data byte is the next initialisation word, or the mask. *)
LEMMA OutData ==
  ASSUME NEW r \in Regs, NEW v \in 0 .. 255
  PROVE  /\ Out(r, "data", v) \in Regs
         /\ Out(r, "data", v).isr = r.isr /\ Out(r, "data", v).irr = r.irr
         /\ Out(r, "data", v).base = IF r.icw = 2 THEN v ELSE r.base
         /\ Out(r, "data", v).icw = IF r.icw = 2 THEN 3 ELSE IF r.icw = 3 THEN 4 ELSE 0
<1> DEFINE x == Out(r, "data", v)
<1>1. CASE r.icw = 2
  <2>1. x = [r EXCEPT !.icw = 3, !.base = v]
    BY <1>1, OutCases
  <2> HIDE DEF x
  <2>2. x.isr = r.isr /\ x.irr = r.irr /\ x.icw = 3 /\ x.base = v
    BY <2>1 DEF Regs
  <2>3. x \in Regs
    BY <2>1 DEF Regs
  <2> QED
    BY <1>1, <2>2, <2>3 DEF x
<1>2. CASE r.icw = 3
  <2>1. x = [r EXCEPT !.icw = 4]
    BY <1>2, OutCases
  <2> HIDE DEF x
  <2> QED
    BY <1>2, <2>1 DEF Regs, x
<1>3. CASE r.icw = 4
  <2>1. x = [r EXCEPT !.icw = 0]
    BY <1>3, OutCases
  <2> HIDE DEF x
  <2> QED
    BY <1>3, <2>1 DEF Regs, x
<1>4. CASE r.icw = 0
  <2>1. x = [r EXCEPT !.imr = {i \in Inputs : Bit(v, i)}]
    BY <1>4, OutCases
  <2>2. {i \in Inputs : Bit(v, i)} \in SUBSET Inputs
    OBVIOUS
  <2> HIDE DEF x
  <2> QED
    BY <1>4, <2>1, <2>2 DEF Regs, x
<1> QED
  BY <1>1, <1>2, <1>3, <1>4 DEF Regs

(* idt.c:127 and 129: the mask is written, all else stays. *)
LEMMA OutMask ==
  ASSUME NEW r \in Regs, r.icw = 0
  PROVE  /\ Out(r, "data", 0) \in Regs /\ Out(r, "data", 0).icw = 0
         /\ Out(r, "data", 0).base = r.base
         /\ Out(r, "data", 0).isr = r.isr /\ Out(r, "data", 0).irr = r.irr
<1>1. PICK v \in 0 .. 255 : v = 0
  OBVIOUS
<1>2. /\ Out(r, "data", v) \in Regs
      /\ Out(r, "data", v).isr = r.isr /\ Out(r, "data", v).irr = r.irr
      /\ Out(r, "data", v).base = IF r.icw = 2 THEN v ELSE r.base
      /\ Out(r, "data", v).icw = IF r.icw = 2 THEN 3 ELSE IF r.icw = 3 THEN 4 ELSE 0
  BY OutData, Zenon
<1> QED
  BY <1>1, <1>2

(* The ten outbs of set_idt. *)
LEMMA ProgramSteps ==
  /\ Len(Program) = 10 /\ DOMAIN Program = 1 .. 10
  /\ Program[1] = <<"PIC1", "com", 17>> /\ Program[2] = <<"PIC2", "com", 17>>
  /\ Program[3] = <<"PIC1", "data", 32>> /\ Program[4] = <<"PIC2", "data", 40>>
  /\ Program[5] = <<"PIC1", "data", 4>> /\ Program[6] = <<"PIC2", "data", 2>>
  /\ Program[7] = <<"PIC1", "data", 1>> /\ Program[8] = <<"PIC2", "data", 1>>
  /\ Program[9] = <<"PIC1", "data", 0>> /\ Program[10] = <<"PIC2", "data", 0>>
<1>1. Len(Program) = 10 /\ DOMAIN Program = 1 .. 10
  BY DEF Program
<1> QED
  BY <1>1 DEF Program

(* The names of the gates. *)
LEMMA GateNames ==
  DOMAIN Gates = {"timer", "keyboard", "spurious_irq", "int_2b", "pf", "df", "gp"}
  BY DEF Gates

(* The inductive invariant has the types of TypeOK. *)
LEMMA TypeParts == Typed /\ Progress => TypeOK
<1> SUFFICES ASSUME Typed, Progress PROVE TypeOK
  OBVIOUS
<1>1. next \in Nat /\ (pc = "program" => next \in DOMAIN Program)
  BY ProgramSteps DEF Typed
<1> QED
  BY <1>1, Zenon DEF Typed, Progress, TypeOK, Regs

-----------------------------------------------------------------------------
(* Before set_idt the firmware's set-up satisfies the invariant. *)
LEMMA InitIInv == Init => IInv
<1> SUFFICES ASSUME Init PROVE IInv
  OBVIOUS
<1> USE LinesAssumption, BoundsAssumption
<1>1. PICK mask \in {{}, Inputs} :
        pic = [c \in PICs |-> [icw |-> 0, base |-> IF c = "PIC1" THEN OldBase ELSE OldBase + 8,
                              imr |-> mask, isr |-> {}, irr |-> {}]]
  BY DEF Init
<1>2. pic \in [PICs -> Regs]
  BY <1>1 DEF Regs, PICs
<1>3. Typed
  <2>1. raised \in [Lines -> 0 .. MaxRaise]
    BY DEF Init
  <2>2. next \in 1 .. 11 /\ next <= 10
    BY DEF Init
  <2> QED
    BY <1>2, <2>1, <2>2, Zenon DEF Init, Typed
<1>4. Progress /\ Undisturbed /\ Sequence /\ Service
  BY DEF Init, Progress, Undisturbed, Sequence, Service
<1>5. Requests
  BY <1>1 DEF Requests, PICs
<1> QED
  BY <1>3, <1>4, <1>5 DEF IInv

(* WriteGates, Lidt, Cli and Sti leave the controllers alone. *)
LEMMA SetFlagsIInv == IInv /\ ~ fault /\ (WriteGates \/ Lidt \/ Cli \/ Sti) => IInv'
<1> SUFFICES ASSUME IInv, ~ fault, WriteGates \/ Lidt \/ Cli \/ Sti PROVE IInv'
  OBVIOUS
<1>1. pic' = pic /\ raised' = raised /\ next' = next /\ active' = active /\ eoi' = eoi /\ fault' = fault
  BY DEF WriteGates, Lidt, Cli, Sti
<1>2. Requests'
  BY <1>1 DEF IInv, Requests, Wired
<1>3. next = (IF pc = "sti" THEN 11 ELSE 1)
  BY DEF IInv, Progress, WriteGates, Lidt, Cli, Sti
<1>4. CASE WriteGates
  BY <1>1, <1>2, <1>3, <1>4 DEF IInv, WriteGates, Typed, Progress, Undisturbed, Sequence, Service
<1>5. CASE Lidt
  BY <1>1, <1>2, <1>3, <1>5 DEF IInv, Lidt, Typed, Progress, Undisturbed, Sequence, Service
<1>6. CASE Cli
  <2>1. next = 1 /\ next' = 1
    BY <1>1, <1>3, <1>6 DEF Cli
  <2>2. Typed'
    <3>1. next' \in 1 .. 11 /\ next' <= 10
      BY <2>1
    <3> QED
      BY <1>1, <3>1, <1>6, Zenon DEF IInv, Cli, Typed
  <2>3. Progress' /\ Undisturbed' /\ Sequence' /\ Service'
    BY <1>1, <1>6, <2>1 DEF IInv, Cli, Progress, Undisturbed, Sequence, Service
  <2> QED
    BY <1>2, <2>2, <2>3 DEF IInv
<1>7. CASE Sti
  BY <1>1, <1>2, <1>3, <1>7 DEF IInv, Sti, Typed, Progress, Undisturbed, Sequence, Service
<1> QED
  BY <1>4, <1>5, <1>6, <1>7


(* One outb writes one controller and leaves the other alone. *)
LEMMA OutOne ==
  ASSUME IInv, OutProgram,
         NEW c \in PICs, NEW d \in PICs \ {c}, NEW port, NEW v,
         Program[next] = <<c, port, v>>, Out(pic[c], port, v) \in Regs
  PROVE  pic' \in [PICs -> Regs] /\ pic'[c] = Out(pic[c], port, v) /\ pic'[d] = pic[d]
<1>1. pic \in [PICs -> Regs]
  BY DEF IInv, Typed
<1>2. pic' = [pic EXCEPT ![c] = Out(pic[c], port, v)]
  BY DEF OutProgram
<1> QED
  BY <1>1, <1>2

(* Each outb takes its controller one initialisation word further. *)
LEMMA OutProgramIInv == IInv /\ OutProgram => IInv'
<1> SUFFICES ASSUME IInv, OutProgram PROVE IInv'
  OBVIOUS
<1>1. /\ pc = "program" /\ next \in 1 .. 10 /\ pic["PIC1"] \in Regs /\ pic["PIC2"] \in Regs
      /\ active = "main" /\ ~ eoi /\ ~ fault /\ ~ IF_
  BY DEF OutProgram, IInv, Typed, Undisturbed, PICs
<1>2. /\ next' = next + 1 /\ pc' = IF next = 10 THEN "sti" ELSE "program"
      /\ gates' = gates /\ IF_' = IF_ /\ active' = active /\ eoi' = eoi /\ fault' = fault
      /\ raised' = raised
  BY ProgramSteps DEF OutProgram
<1>3. /\ next \in {2, 3} => pic["PIC1"].icw = 2
      /\ next \in {4, 5} => pic["PIC1"].icw = 3
      /\ next \in {6, 7} => pic["PIC1"].icw = 4
      /\ next >= 8 => pic["PIC1"].icw = 0
      /\ next >= 4 => pic["PIC1"].base = 32
      /\ next \in {3, 4} => pic["PIC2"].icw = 2
      /\ next \in {5, 6} => pic["PIC2"].icw = 3
      /\ next \in {7, 8} => pic["PIC2"].icw = 4
      /\ next >= 9 => pic["PIC2"].icw = 0
      /\ next >= 5 => pic["PIC2"].base = 40
      /\ next >= 2 => pic["PIC1"].isr = {}
      /\ pic["PIC1"].irr \subseteq Wired("PIC1") /\ pic["PIC2"].irr \subseteq Wired("PIC2")
  BY <1>1 DEF IInv, Sequence, Service, Requests, PICs
<1> DEFINE Moved ==
      /\ pic' \in [PICs -> Regs]
      /\ next \in {1, 2} => pic'["PIC1"].icw = 2
      /\ next \in {3, 4} => pic'["PIC1"].icw = 3
      /\ next \in {5, 6} => pic'["PIC1"].icw = 4
      /\ next >= 7 => pic'["PIC1"].icw = 0
      /\ next >= 3 => pic'["PIC1"].base = 32
      /\ next \in {2, 3} => pic'["PIC2"].icw = 2
      /\ next \in {4, 5} => pic'["PIC2"].icw = 3
      /\ next \in {6, 7} => pic'["PIC2"].icw = 4
      /\ next >= 8 => pic'["PIC2"].icw = 0
      /\ next >= 4 => pic'["PIC2"].base = 40
      /\ pic'["PIC1"].isr = {}
      /\ pic'["PIC1"].irr \subseteq Wired("PIC1") /\ pic'["PIC2"].irr \subseteq Wired("PIC2")
<1>4. Moved
  <2>1. CASE next = 1
    <3> DEFINE x == Out(pic["PIC1"], "com", 17)
    <3>1. Program[next] = <<"PIC1", "com", 17>>
      BY <2>1, ProgramSteps
    <3>2. x \in Regs /\ x.icw = 2 /\ x.isr = {} /\ x.irr = {}
      BY <1>1, OutInit
    <3>3. pic' \in [PICs -> Regs] /\ pic'["PIC1"] = x /\ pic'["PIC2"] = pic["PIC2"]
      BY <3>1, <3>2, OutOne DEF PICs
    <3> HIDE DEF x
    <3> QED
      BY <1>3, <2>1, <3>2, <3>3
  <2>2. CASE next = 2
    <3> DEFINE x == Out(pic["PIC2"], "com", 17)
    <3>1. Program[next] = <<"PIC2", "com", 17>>
      BY <2>2, ProgramSteps
    <3>2. x \in Regs /\ x.icw = 2 /\ x.isr = {} /\ x.irr = {}
      BY <1>1, OutInit
    <3>3. pic' \in [PICs -> Regs] /\ pic'["PIC2"] = x /\ pic'["PIC1"] = pic["PIC1"]
      BY <3>1, <3>2, OutOne DEF PICs
    <3> HIDE DEF x
    <3> QED
      BY <1>3, <2>2, <3>2, <3>3
  <2>3. CASE next = 3
    <3> DEFINE x == Out(pic["PIC1"], "data", 32)
    <3>1. Program[next] = <<"PIC1", "data", 32>>
      BY <2>3, ProgramSteps
    <3>2. x \in Regs /\ x.icw = 3 /\ x.base = 32
          /\ x.isr = pic["PIC1"].isr /\ x.irr = pic["PIC1"].irr
      <4>1. pic["PIC1"].icw = 2 /\ 32 \in 0 .. 255 /\ pic["PIC1"] \in Regs
        BY <1>1, <1>3, <2>3
      <4> QED
        BY <4>1, OutData, Zenon
    <3>3. pic' \in [PICs -> Regs] /\ pic'["PIC1"] = x /\ pic'["PIC2"] = pic["PIC2"]
      BY <3>1, <3>2, OutOne DEF PICs
    <3> HIDE DEF x
    <3> QED
      BY <1>3, <2>3, <3>2, <3>3
  <2>4. CASE next = 4
    <3> DEFINE x == Out(pic["PIC2"], "data", 40)
    <3>1. Program[next] = <<"PIC2", "data", 40>>
      BY <2>4, ProgramSteps
    <3>2. x \in Regs /\ x.icw = 3 /\ x.base = 40
          /\ x.isr = pic["PIC2"].isr /\ x.irr = pic["PIC2"].irr
      <4>1. pic["PIC2"].icw = 2 /\ 40 \in 0 .. 255 /\ pic["PIC2"] \in Regs
        BY <1>1, <1>3, <2>4
      <4> QED
        BY <4>1, OutData, Zenon
    <3>3. pic' \in [PICs -> Regs] /\ pic'["PIC2"] = x /\ pic'["PIC1"] = pic["PIC1"]
      BY <3>1, <3>2, OutOne DEF PICs
    <3> HIDE DEF x
    <3> QED
      BY <1>3, <2>4, <3>2, <3>3
  <2>5. CASE next = 5
    <3> DEFINE x == Out(pic["PIC1"], "data", 4)
    <3>1. Program[next] = <<"PIC1", "data", 4>>
      BY <2>5, ProgramSteps
    <3>2. x \in Regs /\ x.icw = 4 /\ x.base = pic["PIC1"].base
          /\ x.isr = pic["PIC1"].isr /\ x.irr = pic["PIC1"].irr
      <4>1. pic["PIC1"].icw = 3 /\ pic["PIC1"].icw # 2 /\ 4 \in 0 .. 255 /\ pic["PIC1"] \in Regs
        BY <1>1, <1>3, <2>5
      <4> QED
        BY <4>1, OutData, Zenon
    <3>3. pic' \in [PICs -> Regs] /\ pic'["PIC1"] = x /\ pic'["PIC2"] = pic["PIC2"]
      BY <3>1, <3>2, OutOne DEF PICs
    <3> HIDE DEF x
    <3> QED
      BY <1>3, <2>5, <3>2, <3>3
  <2>6. CASE next = 6
    <3> DEFINE x == Out(pic["PIC2"], "data", 2)
    <3>1. Program[next] = <<"PIC2", "data", 2>>
      BY <2>6, ProgramSteps
    <3>2. x \in Regs /\ x.icw = 4 /\ x.base = pic["PIC2"].base
          /\ x.isr = pic["PIC2"].isr /\ x.irr = pic["PIC2"].irr
      <4>1. pic["PIC2"].icw = 3 /\ pic["PIC2"].icw # 2 /\ 2 \in 0 .. 255 /\ pic["PIC2"] \in Regs
        BY <1>1, <1>3, <2>6
      <4> QED
        BY <4>1, OutData, Zenon
    <3>3. pic' \in [PICs -> Regs] /\ pic'["PIC2"] = x /\ pic'["PIC1"] = pic["PIC1"]
      BY <3>1, <3>2, OutOne DEF PICs
    <3> HIDE DEF x
    <3> QED
      BY <1>3, <2>6, <3>2, <3>3
  <2>7. CASE next = 7
    <3> DEFINE x == Out(pic["PIC1"], "data", 1)
    <3>1. Program[next] = <<"PIC1", "data", 1>>
      BY <2>7, ProgramSteps
    <3>2. x \in Regs /\ x.icw = 0 /\ x.base = pic["PIC1"].base
          /\ x.isr = pic["PIC1"].isr /\ x.irr = pic["PIC1"].irr
      <4>1. pic["PIC1"].icw = 4 /\ pic["PIC1"].icw # 2 /\ pic["PIC1"].icw # 3
            /\ 1 \in 0 .. 255 /\ pic["PIC1"] \in Regs
        BY <1>1, <1>3, <2>7
      <4> QED
        BY <4>1, OutData, Zenon
    <3>3. pic' \in [PICs -> Regs] /\ pic'["PIC1"] = x /\ pic'["PIC2"] = pic["PIC2"]
      BY <3>1, <3>2, OutOne DEF PICs
    <3> HIDE DEF x
    <3> QED
      BY <1>3, <2>7, <3>2, <3>3
  <2>8. CASE next = 8
    <3> DEFINE x == Out(pic["PIC2"], "data", 1)
    <3>1. Program[next] = <<"PIC2", "data", 1>>
      BY <2>8, ProgramSteps
    <3>2. x \in Regs /\ x.icw = 0 /\ x.base = pic["PIC2"].base
          /\ x.isr = pic["PIC2"].isr /\ x.irr = pic["PIC2"].irr
      <4>1. pic["PIC2"].icw = 4 /\ pic["PIC2"].icw # 2 /\ pic["PIC2"].icw # 3
            /\ 1 \in 0 .. 255 /\ pic["PIC2"] \in Regs
        BY <1>1, <1>3, <2>8
      <4> QED
        BY <4>1, OutData, Zenon
    <3>3. pic' \in [PICs -> Regs] /\ pic'["PIC2"] = x /\ pic'["PIC1"] = pic["PIC1"]
      BY <3>1, <3>2, OutOne DEF PICs
    <3> HIDE DEF x
    <3> QED
      BY <1>3, <2>8, <3>2, <3>3
  <2>9. CASE next = 9
    <3> DEFINE x == Out(pic["PIC1"], "data", 0)
    <3>1. Program[next] = <<"PIC1", "data", 0>>
      BY <2>9, ProgramSteps
    <3>2. x \in Regs /\ x.icw = 0 /\ x.base = pic["PIC1"].base
          /\ x.isr = pic["PIC1"].isr /\ x.irr = pic["PIC1"].irr
      <4>1. pic["PIC1"].icw = 0 /\ pic["PIC1"] \in Regs
        BY <1>1, <1>3, <2>9
      <4> QED
        BY <4>1, OutMask, Zenon
    <3>3. pic' \in [PICs -> Regs] /\ pic'["PIC1"] = x /\ pic'["PIC2"] = pic["PIC2"]
      BY <3>1, <3>2, OutOne DEF PICs
    <3> HIDE DEF x
    <3> QED
      BY <1>3, <2>9, <3>2, <3>3
  <2>10. CASE next = 10
    <3> DEFINE x == Out(pic["PIC2"], "data", 0)
    <3>1. Program[next] = <<"PIC2", "data", 0>>
      BY <2>10, ProgramSteps
    <3>2. x \in Regs /\ x.icw = 0 /\ x.base = pic["PIC2"].base
          /\ x.isr = pic["PIC2"].isr /\ x.irr = pic["PIC2"].irr
      <4>1. pic["PIC2"].icw = 0 /\ pic["PIC2"] \in Regs
        BY <1>1, <1>3, <2>10
      <4> QED
        BY <4>1, OutMask, Zenon
    <3>3. pic' \in [PICs -> Regs] /\ pic'["PIC2"] = x /\ pic'["PIC1"] = pic["PIC1"]
      BY <3>1, <3>2, OutOne DEF PICs
    <3> HIDE DEF x
    <3> QED
      BY <1>3, <2>10, <3>2, <3>3
  <2> QED
    BY <1>1, <2>1, <2>2, <2>3, <2>4, <2>5, <2>6, <2>7, <2>8, <2>9, <2>10
<1>5. Typed'
  BY <1>1, <1>2, <1>4 DEF IInv, Typed
<1>6. Progress' /\ Undisturbed'
  BY <1>1, <1>2 DEF IInv, Progress, Undisturbed
<1>7. Sequence' /\ Service'
  BY <1>1, <1>2, <1>4 DEF Sequence, Service
<1>8. Requests'
  BY <1>4 DEF Requests, PICs, Wired
<1> QED
  BY <1>5, <1>6, <1>7, <1>8 DEF IInv

(* The EOI releases PIC1; the other controller and set_idt are left alone. *)
LEMMA HandlerEoiIInv == IInv /\ ~ fault /\ HandlerEoi => IInv'
<1> SUFFICES ASSUME IInv, ~ fault, HandlerEoi PROVE IInv'
  OBVIOUS
<1> DEFINE r == pic["PIC1"]
           x == Out(r, "com", 32)
<1>1. /\ active \in DOMAIN Gates /\ ~ eoi /\ eoi' = TRUE
      /\ pic' = [pic EXCEPT !["PIC1"] = x]
      /\ pc' = pc /\ next' = next /\ gates' = gates /\ IF_' = IF_ /\ active' = active
      /\ fault' = fault /\ raised' = raised
  BY DEF HandlerEoi
<1>2. active # "main" /\ pic \in [PICs -> Regs] /\ r \in Regs
  BY <1>1, GateNames DEF IInv, Typed, PICs
<1>3. /\ x \in Regs /\ x.icw = r.icw /\ x.base = r.base /\ x.irr = r.irr
      /\ r.isr = {} => x.isr = {}
      /\ \A i \in Inputs : r.isr = {i} => x.isr = {}
  BY <1>2, OutEoi
<1> HIDE DEF x
<1>4. pic' \in [PICs -> Regs] /\ pic'["PIC1"] = x /\ pic'["PIC2"] = pic["PIC2"]
  BY <1>1, <1>2, <1>3 DEF PICs
<1>5. Typed'
  BY <1>1, <1>4, Zenon DEF IInv, Typed
<1>6. Progress' /\ Undisturbed'
  BY <1>1, <1>2 DEF IInv, Progress, Undisturbed
<1>7. Sequence'
  BY <1>1, <1>3, <1>4 DEF IInv, Sequence
<1>8. Service'
  BY <1>1, <1>2, <1>3, <1>4 DEF IInv, Service, Undisturbed
<1>9. Requests'
  BY <1>3, <1>4 DEF IInv, Requests, PICs, Wired
<1> QED
  BY <1>5, <1>6, <1>7, <1>8, <1>9 DEF IInv

(* A handler that returns, or halts, keeps it. *)
LEMMA HandlerReturnIInv == IInv /\ ~ fault /\ (HandlerReturn \/ HandlerHalt) => IInv'
<1> SUFFICES ASSUME IInv, ~ fault, HandlerReturn \/ HandlerHalt PROVE IInv'
  OBVIOUS
<1>1. /\ pic' = pic /\ raised' = raised /\ next' = next /\ gates' = gates /\ fault' = fault
      /\ pc' = pc /\ active # "main"
  BY DEF HandlerReturn, HandlerHalt
<1>2. pc \in {"cli", "running"}
  BY <1>1 DEF IInv, Typed, Undisturbed
<1>3. Progress' /\ Sequence' /\ Requests'
  BY <1>1 DEF IInv, Progress, Sequence, Requests, Wired
<1>4. CASE HandlerReturn
  <2>1. active' = "main" /\ eoi' = FALSE /\ IF_' = TRUE /\ eoi
    BY <1>4 DEF HandlerReturn
  <2>2. Typed'
    BY <1>1, <2>1, Zenon DEF IInv, Typed
  <2>3. Undisturbed' /\ Service'
    BY <1>1, <1>2, <2>1 DEF IInv, Undisturbed, Service
  <2> QED
    BY <1>3, <2>2, <2>3 DEF IInv
<1>5. CASE HandlerHalt
  <2>1. active' = "halted" /\ IF_' = FALSE /\ eoi' = eoi /\ active \in {"pf", "df", "gp"}
    BY <1>5 DEF HandlerHalt
  <2>2. pc = "cli"
    BY <1>1, <1>2, <2>1 DEF IInv, Service, InterruptHandlers
  <2>3. Typed'
    BY <1>1, <2>1, Zenon DEF IInv, Typed
  <2>4. Undisturbed' /\ Service'
    BY <1>1, <2>1, <2>2 DEF IInv, Undisturbed, Service
  <2> QED
    BY <1>3, <2>3, <2>4 DEF IInv
<1> QED
  BY <1>4, <1>5

(* A device only adds a request of its own line. *)
LEMMA RaiseIInv == ASSUME NEW l \in Lines PROVE IInv /\ Raise(l) => IInv'
<1> SUFFICES ASSUME IInv, Raise(l) PROVE IInv'
  OBVIOUS
<1> DEFINE c == PicOf(l)
           x == [pic[c] EXCEPT !.irr = @ \cup {InputOf(l)}]
<1>1. /\ raised[l] < MaxRaise /\ raised' = [raised EXCEPT ![l] = @ + 1]
      /\ pic' = [pic EXCEPT ![c] = x]
      /\ pc' = pc /\ next' = next /\ gates' = gates /\ IF_' = IF_ /\ active' = active
      /\ eoi' = eoi /\ fault' = fault
  BY DEF Raise
<1>2. c \in PICs /\ InputOf(l) \in Inputs /\ InputOf(l) \in Wired(c)
  BY LinesAssumption DEF PICs, PicOf, InputOf, Inputs, Wired
<1>3. pic \in [PICs -> Regs] /\ pic[c] \in Regs /\ raised \in [Lines -> 0 .. MaxRaise]
  BY <1>2 DEF IInv, Typed
<1>4. /\ x \in Regs /\ x.icw = pic[c].icw /\ x.base = pic[c].base /\ x.isr = pic[c].isr
      /\ x.irr = pic[c].irr \cup {InputOf(l)}
  BY <1>2, <1>3 DEF Regs
<1> HIDE DEF x, c
<1>5. /\ pic' \in [PICs -> Regs]
      /\ \A d \in PICs : /\ pic'[d].icw = pic[d].icw /\ pic'[d].base = pic[d].base
                         /\ pic'[d].isr = pic[d].isr /\ pic'[d].irr \subseteq Wired(d)
  BY <1>1, <1>2, <1>3, <1>4 DEF IInv, Requests
<1>6. raised' \in [Lines -> 0 .. MaxRaise]
  BY <1>1, <1>3, BoundsAssumption
<1>7. Typed'
  BY <1>1, <1>5, <1>6, Zenon DEF IInv, Typed
<1>8. Progress' /\ Undisturbed'
  BY <1>1 DEF IInv, Progress, Undisturbed
<1>9. Sequence' /\ Service'
  BY <1>1, <1>5 DEF IInv, Sequence, Service, PICs
<1>10. Requests'
  BY <1>5 DEF Requests, Wired
<1> QED
  BY <1>7, <1>8, <1>9, <1>10 DEF IInv

-----------------------------------------------------------------------------
(* What the processor's entry through the table changes. *)
LEMMA EnterCases ==
  ASSUME IInv, Accepts, NEW v, Enter(v)
  PROVE  /\ pc \in {"cli", "running"} /\ gates = Gates
         /\ pc' = pc /\ next' = next /\ gates' = gates /\ raised' = raised
         /\ \/ /\ fault' = TRUE /\ active' = active /\ eoi' = eoi /\ IF_' = IF_
               /\ ~ \E h \in DOMAIN Gates : Gates[h] = v
            \/ \E h \in DOMAIN Gates :
                 /\ Gates[h] = v /\ active' = h /\ eoi' = FALSE /\ fault' = fault
                 /\ IF_' = (IF_ /\ h \notin InterruptHandlers)
<1>1. pc \in {"cli", "running"} /\ gates = Gates
  BY DEF IInv, Typed, Undisturbed, Progress, Accepts
<1> QED
  BY <1>1, Zenon DEF Enter

(* The gates of vectors 32 and above are interrupt gates. *)
LEMMA HighGates ==
  ASSUME NEW h \in DOMAIN Gates, Gates[h] >= 32
  PROVE  h \in InterruptHandlers
  BY DEF Gates, InterruptHandlers

(* An entry keeps the invariant when it leaves the controllers programmed, *)
(* adds no request, and, once set_idt returned, comes on a vector above    *)
(* the exceptions' with at most one input of PIC1 in service.              *)
LEMMA EnterIInv ==
  ASSUME IInv, Accepts, NEW v \in Nat, Enter(v), pic' \in [PICs -> Regs],
         \A c \in PICs : /\ pic'[c].icw = pic[c].icw /\ pic'[c].base = pic[c].base
                         /\ pic'[c].irr \subseteq pic[c].irr,
         pc = "running" => /\ v >= 32
                           /\ \/ pic'["PIC1"].isr = {}
                              \/ \E i \in Inputs : pic'["PIC1"].isr = {i}
  PROVE  IInv'
<1>1. Requests'
  BY DEF IInv, Requests, Wired
<1>2. pc \in {"cli", "running"} /\ pc' = pc /\ next' = next /\ gates' = gates /\ raised' = raised
  BY EnterCases, Zenon
<1>3. Progress' /\ Sequence'
  BY <1>2 DEF IInv, Progress, Sequence, PICs
<1>4. CASE fault' = TRUE /\ active' = active /\ eoi' = eoi /\ IF_' = IF_
  <2>1. Typed'
    BY <1>2, <1>4, Zenon DEF IInv, Typed
  <2>2. Undisturbed' /\ Service'
    BY <1>2, <1>4 DEF IInv, Undisturbed, Service
  <2> QED
    BY <1>1, <1>3, <2>1, <2>2 DEF IInv
<1>5. CASE \E h \in DOMAIN Gates :
             /\ Gates[h] = v /\ active' = h /\ eoi' = FALSE /\ fault' = fault
             /\ IF_' = (IF_ /\ h \notin InterruptHandlers)
  <2>1. PICK h \in DOMAIN Gates :
               /\ Gates[h] = v /\ active' = h /\ eoi' = FALSE /\ fault' = fault
               /\ IF_' = (IF_ /\ h \notin InterruptHandlers)
    BY <1>5
  <2>2. pc = "running" => h \in InterruptHandlers
    BY <2>1, HighGates
  <2>3. Typed'
    BY <1>2, <2>1, Zenon DEF IInv, Typed
  <2>4. h # "main"
    BY GateNames
  <2>5. Undisturbed' /\ Service'
    BY <1>2, <2>1, <2>2, <2>4 DEF IInv, Undisturbed, Service
  <2> QED
    BY <1>1, <1>3, <2>3, <2>5 DEF IInv
<1> QED
  BY <1>4, <1>5, EnterCases, Zenon

(* The four ways an interrupt is taken: an input of PIC1, one of PIC2      *)
(* through the cascade, or a spurious one of either.                       *)
LEMMA AcknowledgeCases ==
  ASSUME IInv, Acknowledge \/ AcknowledgeSpurious
  PROVE  /\ Accepts
         /\ \/ \E i \in pic["PIC1"].irr :
                 /\ pic' = [pic EXCEPT !["PIC1"].isr = @ \cup {i}, !["PIC1"].irr = @ \ {i}]
                 /\ Enter(pic["PIC1"].base + i)
            \/ \E k \in pic["PIC2"].irr :
                 /\ pic' = [pic EXCEPT !["PIC1"].isr = @ \cup {Cascade},
                                       !["PIC2"].isr = @ \cup {k}, !["PIC2"].irr = @ \ {k}]
                 /\ Enter(pic["PIC2"].base + k)
            \/ \E i \in pic["PIC1"].irr :
                 /\ pic' = [pic EXCEPT !["PIC1"].irr = @ \ {i}]
                 /\ Enter(pic["PIC1"].base + 7)
            \/ \E k \in pic["PIC2"].irr :
                 /\ pic' = [pic EXCEPT !["PIC1"].isr = @ \cup {Cascade}, !["PIC2"].irr = @ \ {k}]
                 /\ Enter(pic["PIC2"].base + 7)
<1>1. /\ Deliverable("PIC1") \subseteq pic["PIC1"].irr \cup {Cascade}
      /\ Deliverable("PIC2") \subseteq pic["PIC2"].irr
  BY DeliverableRequest DEF IInv, Typed
<1>2. CASE Acknowledge
  BY <1>1, <1>2, Zenon DEF Acknowledge
<1>3. CASE AcknowledgeSpurious
  BY <1>1, <1>3, Zenon DEF AcknowledgeSpurious
<1> QED
  BY <1>2, <1>3

(* A wired input of PIC1 is the line of its number, one of PIC2 the line   *)
(* eight above.                                                            *)
LEMMA WiredLine ==
  /\ \A i \in Wired("PIC1") : i \in Lines /\ i \in Inputs
  /\ \A k \in Wired("PIC2") : k + 8 \in Lines /\ k \in Inputs
  BY LinesAssumption DEF Wired, PicOf, InputOf, Inputs

(* The processor takes an interrupt, a spurious one included. *)
LEMMA AcknowledgeIInv == IInv /\ (Acknowledge \/ AcknowledgeSpurious) => IInv'
<1> SUFFICES ASSUME IInv, Acknowledge \/ AcknowledgeSpurious PROVE IInv'
  OBVIOUS
<1> DEFINE r1 == pic["PIC1"]
           r2 == pic["PIC2"]
<1>1. /\ pic \in [PICs -> Regs] /\ r1 \in Regs /\ r2 \in Regs
      /\ r1.base \in 0 .. 255 /\ r2.base \in 0 .. 255
      /\ r1.irr \subseteq Wired("PIC1") /\ r2.irr \subseteq Wired("PIC2")
  BY DEF IInv, Typed, PICs, Regs, Requests
<1>2. Accepts
  BY AcknowledgeCases, Zenon
<1>3. pc = "running" => r1.isr = {} /\ r1.base = 32 /\ r2.base = 40
  BY <1>2 DEF IInv, Service, Sequence, Accepts, Progress
<1>4. ASSUME NEW i \in r1.irr,
             pic' = [pic EXCEPT !["PIC1"].isr = @ \cup {i}, !["PIC1"].irr = @ \ {i}],
             Enter(r1.base + i)
      PROVE  IInv'
  <2>1. i \in Inputs /\ r1.base + i \in Nat /\ i >= 0
    <3>1. i \in Inputs
      BY <1>1, WiredLine, Zenon
    <3>2. i \in Nat /\ i >= 0
      BY <3>1 DEF Inputs
    <3>3. r1.base \in Nat
      BY <1>1
    <3> HIDE DEF r1
    <3> QED
      BY <3>1, <3>2, <3>3
  <2>2. /\ pic' \in [PICs -> Regs]
        /\ \A c \in PICs : /\ pic'[c].icw = pic[c].icw /\ pic'[c].base = pic[c].base
                           /\ pic'[c].irr \subseteq pic[c].irr
        /\ pic'["PIC1"].isr = r1.isr \cup {i}
    <3> DEFINE x == [r1 EXCEPT !.isr = @ \cup {i}, !.irr = @ \ {i}]
    <3>1. x \in Regs /\ x.icw = r1.icw /\ x.base = r1.base /\ x.irr \subseteq r1.irr /\ x.isr = r1.isr \cup {i}
      BY <1>1, <2>1 DEF Regs
    <3>2. pic' = [pic EXCEPT !["PIC1"] = x]
      BY <1>4, Zenon
    <3> HIDE DEF x
    <3>3. pic'["PIC1"] = x /\ pic'["PIC2"] = pic["PIC2"] /\ pic' \in [PICs -> Regs]
      BY <1>1, <3>1, <3>2 DEF PICs
    <3> QED
      BY <3>1, <3>3 DEF PICs
  <2>3. pc = "running" => r1.base + i >= 32
    BY <1>3, <2>1 DEF Inputs
  <2>4. pc = "running" => \E j \in Inputs : pic'["PIC1"].isr = {j}
    BY <1>3, <2>1, <2>2
  <2> QED
    BY <1>2, <1>4, <2>1, <2>2, <2>3, <2>4, EnterIInv
<1>5. ASSUME NEW k \in r2.irr,
             pic' = [pic EXCEPT !["PIC1"].isr = @ \cup {Cascade},
                                !["PIC2"].isr = @ \cup {k}, !["PIC2"].irr = @ \ {k}],
             Enter(r2.base + k)
      PROVE  IInv'
  <2>1. k \in Inputs /\ Cascade \in Inputs /\ r2.base + k \in Nat /\ k >= 0
    <3>1. k \in Inputs
      BY <1>1, WiredLine, Zenon
    <3>2. k \in Nat /\ k >= 0 /\ Cascade \in Inputs
      BY <3>1 DEF Inputs, Cascade
    <3>3. r2.base \in Nat
      BY <1>1
    <3> HIDE DEF r2
    <3> QED
      BY <3>1, <3>2, <3>3
  <2>2. /\ pic' \in [PICs -> Regs]
        /\ \A c \in PICs : /\ pic'[c].icw = pic[c].icw /\ pic'[c].base = pic[c].base
                           /\ pic'[c].irr \subseteq pic[c].irr
        /\ pic'["PIC1"].isr = r1.isr \cup {Cascade}
    <3> DEFINE x == [r1 EXCEPT !.isr = @ \cup {Cascade}]
               y == [r2 EXCEPT !.isr = @ \cup {k}, !.irr = @ \ {k}]
    <3>1. x \in Regs /\ x.icw = r1.icw /\ x.base = r1.base /\ x.irr = r1.irr /\ x.isr = r1.isr \cup {Cascade}
      BY <1>1, <2>1 DEF Regs
    <3>2. y \in Regs /\ y.icw = r2.icw /\ y.base = r2.base /\ y.irr \subseteq r2.irr
      BY <1>1, <2>1 DEF Regs
    <3>3. pic' = [pic EXCEPT !["PIC1"] = x, !["PIC2"] = y]
      BY <1>1, <1>5 DEF PICs
    <3> HIDE DEF x, y
    <3>4. pic'["PIC1"] = x /\ pic'["PIC2"] = y /\ pic' \in [PICs -> Regs]
      BY <1>1, <3>1, <3>2, <3>3 DEF PICs
    <3> QED
      BY <3>1, <3>2, <3>4 DEF PICs
  <2>3. pc = "running" => r2.base + k >= 32
    BY <1>3, <2>1 DEF Inputs
  <2>4. pc = "running" => \E j \in Inputs : pic'["PIC1"].isr = {j}
    BY <1>3, <2>1, <2>2
  <2> QED
    BY <1>2, <1>5, <2>1, <2>2, <2>3, <2>4, EnterIInv
<1>6. ASSUME NEW i \in r1.irr,
             pic' = [pic EXCEPT !["PIC1"].irr = @ \ {i}], Enter(r1.base + 7)
      PROVE  IInv'
  <2>1. r1.base + 7 \in Nat
    BY <1>1
  <2>2. /\ pic' \in [PICs -> Regs]
        /\ \A c \in PICs : /\ pic'[c].icw = pic[c].icw /\ pic'[c].base = pic[c].base
                           /\ pic'[c].irr \subseteq pic[c].irr
        /\ pic'["PIC1"].isr = r1.isr
    BY <1>1, <1>6 DEF PICs, Regs
  <2>3. pc = "running" => r1.base + 7 >= 32 /\ pic'["PIC1"].isr = {}
    BY <1>3, <2>2
  <2> QED
    BY <1>2, <1>6, <2>1, <2>2, <2>3, EnterIInv
<1>7. ASSUME NEW k \in r2.irr,
             pic' = [pic EXCEPT !["PIC1"].isr = @ \cup {Cascade}, !["PIC2"].irr = @ \ {k}],
             Enter(r2.base + 7)
      PROVE  IInv'
  <2>1. Cascade \in Inputs /\ r2.base + 7 \in Nat
    BY <1>1 DEF Inputs, Cascade
  <2>2. /\ pic' \in [PICs -> Regs]
        /\ \A c \in PICs : /\ pic'[c].icw = pic[c].icw /\ pic'[c].base = pic[c].base
                           /\ pic'[c].irr \subseteq pic[c].irr
        /\ pic'["PIC1"].isr = r1.isr \cup {Cascade}
    <3> DEFINE x == [r1 EXCEPT !.isr = @ \cup {Cascade}]
               y == [r2 EXCEPT !.irr = @ \ {k}]
    <3>1. x \in Regs /\ x.icw = r1.icw /\ x.base = r1.base /\ x.irr = r1.irr /\ x.isr = r1.isr \cup {Cascade}
      BY <1>1, <2>1 DEF Regs
    <3>2. y \in Regs /\ y.icw = r2.icw /\ y.base = r2.base /\ y.irr \subseteq r2.irr
      BY <1>1 DEF Regs
    <3>3. pic' = [pic EXCEPT !["PIC1"] = x, !["PIC2"] = y]
      BY <1>1, <1>7 DEF PICs
    <3> HIDE DEF x, y
    <3>4. pic'["PIC1"] = x /\ pic'["PIC2"] = y /\ pic' \in [PICs -> Regs]
      BY <1>1, <3>1, <3>2, <3>3 DEF PICs
    <3> QED
      BY <3>1, <3>2, <3>4 DEF PICs
  <2>3. pc = "running" => r2.base + 7 >= 32 /\ \E j \in Inputs : pic'["PIC1"].isr = {j}
    BY <1>3, <2>1, <2>2
  <2> QED
    BY <1>2, <1>7, <2>1, <2>2, <2>3, EnterIInv
<1> QED
  BY <1>4, <1>5, <1>6, <1>7, AcknowledgeCases, Zenon

(* Every step of the kernel, the 8259s and the processor keeps it. *)
LEMMA NextIInv == IInv /\ [Next]_vars => IInv'
<1> SUFFICES ASSUME IInv, [Next]_vars PROVE IInv'
  OBVIOUS
<1>1. CASE ~ fault /\ SetIdt
  BY <1>1, SetFlagsIInv, OutProgramIInv DEF SetIdt
<1>2. CASE ~ fault /\ Handler
  BY <1>2, HandlerEoiIInv, HandlerReturnIInv DEF Handler
<1>3. CASE \E l \in Lines : Raise(l)
  BY <1>3, RaiseIInv
<1>4. CASE Acknowledge \/ AcknowledgeSpurious
  BY <1>4, AcknowledgeIInv
<1>5. CASE UNCHANGED vars
  <2>1. /\ pc' = pc /\ next' = next /\ gates' = gates /\ IF_' = IF_ /\ active' = active
        /\ eoi' = eoi /\ fault' = fault /\ pic' = pic /\ raised' = raised
    BY <1>5, Zenon DEF vars
  <2> QED
    BY <2>1 DEF IInv, Typed, Progress, Undisturbed, Sequence, Service, Requests, Wired
<1> QED
  BY <1>1, <1>2, <1>3, <1>4, <1>5, Zenon DEF Next, Wait

-----------------------------------------------------------------------------
(* Every variable keeps its type, and from sti on (idt.c:132) both         *)
(* controllers are initialised and every line l arrives on vector 0x20 + l,*)
(* whatever devices raised while set_idt ran and whatever base the         *)
(* firmware had left.                                                      *)
THEOREM Remapping == Spec => []VectorsRemapped
<1>1. IInv => VectorsRemapped
  <2> SUFFICES ASSUME IInv PROVE VectorsRemapped
    OBVIOUS
  <2>1. TypeOK
    BY TypeParts DEF IInv
  <2>2. pc = "running" => /\ pic["PIC1"].icw = 0 /\ pic["PIC1"].base = 32
                          /\ pic["PIC2"].icw = 0 /\ pic["PIC2"].base = 40
    BY DEF IInv, Progress, Sequence
  <2> QED
    BY <2>1, <2>2 DEF VectorsRemapped
<1> QED
  BY <1>1, InitIInv, NextIInv, PTL DEF Spec

(* No handler runs and nothing faults between cli and sti                  *)
(* (idt.c:107-132).                                                        *)
THEOREM ProgrammingUndisturbed == Spec => []ProgrammedUndisturbed
<1>1. IInv => ProgrammedUndisturbed
  BY DEF IInv, Undisturbed, ProgrammedUndisturbed
<1> QED
  BY <1>1, InitIInv, NextIInv, PTL DEF Spec

(* Whenever no handler runs after set_idt returned, PIC1 has nothing in    *)
(* service: the one EOI of each handler (idt.c:135, 139, 143, 147) is for  *)
(* the input its interrupt put there, and a spurious interrupt's EOI finds *)
(* nothing to take away.                                                   *)
THEOREM Pic1AlwaysReleased == Spec => []Pic1Released
<1>1. IInv => Pic1Released
  BY DEF IInv, Service, InterruptHandlers, Pic1Released
<1> QED
  BY <1>1, InitIInv, NextIInv, PTL DEF Spec

(* After set_idt returned, an interrupt enters the gate of a wired line's  *)
(* vector 0x20 + l, that of PIC1's spurious vector 0x27, or is a spurious  *)
(* one of PIC2.                                                            *)
LEMMA EntryVector ==
  ASSUME IInv, pc = "running", Acknowledge \/ AcknowledgeSpurious
  PROVE  /\ Accepts
         /\ \/ \E l \in Lines \cup {7} : Enter(32 + l)
            \/ Pic2Spurious /\ \E l \in Lines : l >= 8
<1> DEFINE r1 == pic["PIC1"]
           r2 == pic["PIC2"]
<1>1. /\ r1.base = 32 /\ r2.base = 40
      /\ r1.irr \subseteq Wired("PIC1") /\ r2.irr \subseteq Wired("PIC2")
  BY DEF IInv, Sequence, Progress, Requests, PICs
<1>2. ASSUME NEW i \in r1.irr, Enter(r1.base + i)
      PROVE  \E l \in Lines \cup {7} : Enter(32 + l)
  BY <1>1, <1>2, WiredLine
<1>3. ASSUME NEW k \in r2.irr
      PROVE  k + 8 \in Lines /\ k + 8 >= 8 /\ 40 + k = 32 + (k + 8)
  BY <1>1, WiredLine DEF Inputs
<1>4. ASSUME NEW k \in r2.irr, Enter(r2.base + k)
      PROVE  \E l \in Lines \cup {7} : Enter(32 + l)
  BY <1>1, <1>3, <1>4
<1>5. ASSUME Enter(r1.base + 7)
      PROVE  \E l \in Lines \cup {7} : Enter(32 + l)
  BY <1>1, <1>5
<1>6. ASSUME NEW k \in r2.irr,
             pic' = [pic EXCEPT !["PIC1"].isr = @ \cup {Cascade}, !["PIC2"].irr = @ \ {k}]
      PROVE  Pic2Spurious /\ \E l \in Lines : l >= 8
  BY <1>3, <1>6, Zenon DEF Pic2Spurious
<1> QED
  BY <1>2, <1>4, <1>5, <1>6, AcknowledgeCases, Zenon

(* An interrupt that faults once set_idt returned, when devices raise only *)
(* lines it has a gate for, is a spurious one of PIC2, and some line of    *)
(* PIC2 is in use.                                                         *)
LEMMA FaultStep ==
  ASSUME Lines \subseteq {0, 1, 7, 11}, IInv, Next, pc = "running", ~ fault, fault'
  PROVE  Pic2Spurious /\ \E l \in Lines : l >= 8
<1>1. CASE Acknowledge \/ AcknowledgeSpurious
  <2>1. ASSUME NEW l \in Lines \cup {7}, Accepts, Enter(32 + l)
        PROVE  FALSE
    <3>1. \E h \in DOMAIN Gates : Gates[h] = 32 + l
      <4>1. /\ Gates["timer"] = 32 /\ Gates["keyboard"] = 33 /\ Gates["spurious_irq"] = 39
            /\ Gates["int_2b"] = 43
        BY DEF Gates
      <4>2. 32 + l \in {32, 33, 39, 43}
        BY <2>1
      <4> QED
        BY <4>1, <4>2, GateNames
    <3> QED
      BY <2>1, <3>1, EnterCases, Zenon
  <2> QED
    BY <1>1, <2>1, EntryVector, Zenon
<1>2. CASE ~ (Acknowledge \/ AcknowledgeSpurious)
  BY <1>2, Zenon DEF Next, SetIdt, WriteGates, Lidt, Cli, OutProgram, Sti, Handler, HandlerEoi,
                     HandlerReturn, HandlerHalt, Raise, Wait, vars
<1> QED
  BY <1>1, <1>2

(* When devices raise only lines set_idt has a gate for -- the timer's,    *)
(* the keyboard's, 7 and 11 (idt.c:97-100) -- the only interrupt that can  *)
(* fault after it returned is a spurious one of PIC2, which has none.      *)
THEOREM GatedLinesFaultOnlySpuriously ==
  ASSUME Lines \subseteq {0, 1, 7, 11}
  PROVE  Spec => OnlyPic2SpuriousFaults
<1>1. IInv /\ [Next]_vars => [pc = "running" /\ ~ fault /\ fault' => Pic2Spurious]_vars
  BY FaultStep, Zenon DEF vars
<1> QED
  BY <1>1, InitIInv, NextIInv, PTL DEF Spec, OnlyPic2SpuriousFaults

(* With none of PIC2's lines in use no interrupt faults at all once        *)
(* set_idt returned, spurious ones of PIC1 included (idt.c:99).            *)
THEOREM Pic1LinesNeverFault ==
  ASSUME Lines \subseteq {0, 1, 7}
  PROVE  Spec => [][pc = "running" /\ fault' => fault]_vars
<1>1. Lines \subseteq {0, 1, 7, 11} /\ ~ \E l \in Lines : l >= 8
  OBVIOUS
<1>2. IInv /\ [Next]_vars => [pc = "running" /\ fault' => fault]_vars
  BY <1>1, FaultStep, Zenon DEF vars
<1> QED
  BY <1>2, InitIInv, NextIInv, PTL DEF Spec
=============================================================================
