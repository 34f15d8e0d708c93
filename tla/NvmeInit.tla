------------------------------ MODULE NvmeInit ------------------------------
(***************************************************************************)
(* Bring-up of the NVMe controller, boot/kernel/kernel.c:146-166 with the  *)
(* register accessors of dev/nvme/nvme.c:12-44: the controller the         *)
(* firmware left running is disabled, the admin queues and the fields of   *)
(* CC are written, and it is enabled again.  The kernel polls CSTS.RDY     *)
(* without a limit; the controller (external) follows CC.EN in its own     *)
(* time, and may fail for good (CSTS.CFS).                                 *)
(*                                                                         *)
(* CC and AQA keep their bit positions.  ASQ and ACQ are two words, each a *)
(* number below WORD, and an address has OFFS bits inside a page.          *)
(***************************************************************************)
EXTENDS Integers, Sequences

CONSTANTS WORD,           \* 2^32, the values of a half of a 64-bit register
          OFFS,           \* 12, the bits of an offset in a page
          asq, acq,       \* physical addresses of the queues, in bytes
          PriorCC,        \* values the firmware may have left in CC,
          PriorAQA,       \* in AQA,
          PriorWords,     \* and in the halves of ASQ and ACQ
          Strides         \* the CAP.DSTRD of the controllers there are

(* A word has more bits than an offset in a page; the queues are at the    *)
(* start of a page.                                                        *)
ASSUME WordAssumption ==
  /\ WORD \in Nat \ {0} /\ OFFS \in Nat /\ 2^OFFS \in Nat \ {0}
  /\ \E k \in 1 .. WORD : WORD = k * 2^OFFS
ASSUME QueuesAssumption == {asq, acq} \subseteq {a \in 0 .. (WORD - 1) : a % 2^OFFS = 0} /\ asq # acq
ASSUME PriorAssumption ==
  /\ PriorCC \subseteq 0 .. (2^25 - 1) /\ PriorAQA \subseteq 0 .. (2^28 - 1)
  /\ PriorWords \subseteq 0 .. (WORD - 1) /\ Strides \subseteq Nat

Words == (0 .. (WORD - 1)) \X (0 .. (WORD - 1))

NVME_ADMIN_QUEUE_ENTRIES == 32
NVME_SQE_SIZE_LOG == 6
NVME_CQE_SIZE_LOG == 4

(* nvme.h:87-98 and 111-116: the fields of CC and AQA with their widths,   *)
(* as far as a register of 25 or 28 bits goes.                             *)
NVME_CONTROLLER_CONFIGURATION ==
  << <<"en", 1>>, <<"res0", 3>>, <<"css", 3>>, <<"mps", 4>>, <<"ams", 3>>, <<"shn", 2>>,
     <<"iosqes", 4>>, <<"iocqes", 4>>, <<"crime", 1>> >>
NVME_ADMIN_QUEUE_ATTRIBUTES == << <<"asqs", 12>>, <<"res0", 4>>, <<"acqs", 12>> >>

(* The field of a register word as its declaration lays it out. *)
Field(layout, name, word) ==
  LET offs2[k \in 1 .. Len(layout)] == IF k = 1 THEN 0 ELSE offs2[k - 1] + layout[k - 1][2]
      f == CHOOSE k \in 1 .. Len(layout) : layout[k][1] = name
  IN  (word \div 2^offs2[f]) % 2^layout[f][2]

VARIABLES
  pc,     \* the next statement of Bringup
  high,   \* the word nvme_mmio_write_64 has still to write, as a sequence
  reg,    \* CC, AQA and the words of ASQ and ACQ
  dstrd,  \* CAP.DSTRD
  rdy,    \* CSTS.RDY
  cfs,    \* CSTS.CFS, controller fatal status
  taken   \* external: the registers as the controller took them over when
          \* it became ready

vars == <<pc, high, reg, dstrd, rdy, cfs, taken>>

-----------------------------------------------------------------------------
(* nvme.c:18-24 *)
nvme_mmio_read_32(tmp, offs2, size) == (tmp \div 2^offs2) % 2^size

(* nvme.c:12-17: read, replace the field, write.  Every value the kernel   *)
(* writes fits its field, so that the OR is a sum.                         *)
nvme_mmio_write_32(tmp, offs2, value, size) ==
  tmp - nvme_mmio_read_32(tmp, offs2, size) * 2^offs2 + value * 2^offs2

(* nvme.c:25-35, of a field that reaches to the top of the register: the   *)
(* words to be written, low and high.                                      *)
nvme_mmio_write_64(low, hi, offs2, value) ==
  <<((low % 2^offs2) + value * 2^offs2) % WORD, ((value * 2^offs2) \div WORD) % WORD>>

(* A statement of the bring-up: a field of CC or AQA is written, a queue's *)
(* address is, or RDY is polled until it has the value asked for.          *)
Set(r, offs2, value, size) == [op |-> "write_32", reg |-> r, offs2 |-> offs2, value |-> value, size |-> size]
Queue(r, phys)             == [op |-> "write_64", reg |-> r, offs2 |-> OFFS, value |-> phys]
Poll(value)                == [op |-> "poll", value |-> value]

DisableNoPoll == << Set("CC", 0, 0, 1) >>

(* kernel.c:149-150 *)
Disable == << Set("CC", 0, 0, 1), Poll(0) >>

(* kernel.c:153-156 *)
Queues ==
  << Set("AQA", 0, NVME_ADMIN_QUEUE_ENTRIES - 1, 12), Set("AQA", 16, NVME_ADMIN_QUEUE_ENTRIES - 1, 12),
     Queue("ASQ", asq), Queue("ACQ", acq) >>

FieldsKeepMps ==
  << Set("CC", 4, 0, 3), Set("CC", 11, 0, 3), Set("CC", 14, 0, 2),
     Set("CC", 16, NVME_SQE_SIZE_LOG, 4), Set("CC", 20, NVME_CQE_SIZE_LOG, 4) >>

(* kernel.c:157-162: CSS, MPS, AMS, SHN, IOSQES, IOCQES. *)
Fields ==
  << Set("CC", 4, 0, 3), Set("CC", 7, 0, 4), Set("CC", 11, 0, 3), Set("CC", 14, 0, 2),
     Set("CC", 16, NVME_SQE_SIZE_LOG, 4), Set("CC", 20, NVME_CQE_SIZE_LOG, 4) >>

EnableAfterPoll == << Poll(1), Set("CC", 0, 1, 1) >>

(* kernel.c:165-166 *)
Enable == << Set("CC", 0, 1, 1), Poll(1) >>

Bringup == Disable \o Queues \o Fields \o Enable

Finished == pc > Len(Bringup)
EN == nvme_mmio_read_32(reg["CC"], 0, 1)

(* kernel.c:146: the pages of the register window that are mapped. *)
BarPages == 3

(* nvme.c:45-47 and 56-58: where a doorbell is, in bytes into the window,  *)
(* dir being 0 for a submission and 1 for a completion queue.              *)
Doorbell(qid, dir) == 4096 + (2 * qid + dir) * (4 * 2^dstrd)

-----------------------------------------------------------------------------
(* The firmware used the disk: the controller may be on, off, or between.  *)
Init ==
  /\ pc = 1
  /\ high = << >>
  /\ \E cc \in PriorCC, aqa \in PriorAQA, low \in PriorWords, hi \in PriorWords :
       reg = [CC |-> cc, AQA |-> aqa, ASQ |-> <<low, hi>>, ACQ |-> <<low, hi>>]
  /\ dstrd \in Strides
  /\ rdy \in {0, 1}
  /\ cfs = 0
  /\ taken = reg

(* A field of CC or AQA is written (nvme.c:12-17). *)
Write32 ==
  /\ ~ Finished
  /\ LET s == Bringup[pc] IN
       /\ s.op = "write_32"
       /\ reg' = [reg EXCEPT ![s.reg] = nvme_mmio_write_32(@, s.offs2, s.value, s.size)]
  /\ pc' = pc + 1
  /\ UNCHANGED <<high, dstrd, rdy, cfs, taken>>

(* A queue address is written, low word and then high word (nvme.c:33-34). *)
Write64 ==
  /\ ~ Finished
  /\ LET s == Bringup[pc] IN
       /\ s.op = "write_64"
       /\ IF high = << >>
          THEN LET w == nvme_mmio_write_64(reg[s.reg][1], reg[s.reg][2], s.offs2, s.value) IN
                 /\ reg' = [reg EXCEPT ![s.reg][1] = w[1]]
                 /\ high' = <<w[2]>>
                 /\ pc' = pc
          ELSE /\ reg' = [reg EXCEPT ![s.reg][2] = Head(high)]
               /\ high' = << >>
               /\ pc' = pc + 1
  /\ UNCHANGED <<dstrd, rdy, cfs, taken>>

(* kernel.c:150 and 166: one turn of the loop. *)
PollRdy ==
  /\ ~ Finished
  /\ Bringup[pc].op = "poll"
  /\ pc' = IF rdy = Bringup[pc].value THEN pc + 1 ELSE pc
  /\ UNCHANGED <<high, reg, dstrd, rdy, cfs, taken>>

(* External: the controller follows EN; becoming ready it takes its        *)
(* configuration over from the registers.                                  *)
FollowEN ==
  /\ cfs = 0 /\ rdy # EN
  /\ rdy' = EN
  /\ taken' = IF EN = 1 THEN reg ELSE taken
  /\ UNCHANGED <<pc, high, reg, dstrd, cfs>>

(* External: the controller fails for good. *)
Fail ==
  /\ cfs = 0
  /\ cfs' = 1
  /\ UNCHANGED <<pc, high, reg, dstrd, rdy, taken>>

Kernel == Write32 \/ Write64 \/ PollRdy
Up     == Finished /\ UNCHANGED vars
Next   == Kernel \/ FollowEN \/ Fail \/ Up

(* The kernel runs, and a controller that has not failed follows EN within *)
(* the time CAP.TO states.                                                 *)
Spec == Init /\ [][Next]_vars /\ WF_vars(Kernel) /\ WF_vars(FollowEN)

-----------------------------------------------------------------------------
(* Every variable has its type; in particular a register stays within its  *)
(* width, whatever the firmware left in it.                                *)
TypeOK ==
  /\ pc \in 1 .. (Len(Bringup) + 1)
  /\ high = << >> \/ \E w \in 0 .. (WORD - 1) : high = <<w>>
  /\ reg \in [CC: 0 .. (2^25 - 1), AQA: 0 .. (2^28 - 1), ASQ: Words, ACQ: Words]
  /\ dstrd \in Strides /\ rdy \in {0, 1} /\ cfs \in {0, 1}

(* The queues are set up while the controller is at rest: no step changes  *)
(* AQA, ASQ or ACQ while it is enabled or still ready, even if the         *)
(* firmware left it half way (kernel.c:149-156).                           *)
QueuesSetAtRest ==
  [][<<reg["AQA"], reg["ASQ"], reg["ACQ"]>>' # <<reg["AQA"], reg["ASQ"], reg["ACQ"]>>
       => EN = 0 /\ rdy = 0]_vars

(* What the controller took over is what the kernel asked for, whatever    *)
(* the firmware had in the registers, when it is read by the layout that   *)
(* nvme.h:87-116 declares and not by the offsets that kernel.c:153-165     *)
(* wrote it with: 32 entries in both queues, entry sizes 2^6 and 2^4, NVM  *)
(* command set, 4 KiB pages, no shutdown pending.                          *)
ConfigurationTaken ==
  LET cc(name)  == Field(NVME_CONTROLLER_CONFIGURATION, name, taken["CC"])
      aqa(name) == Field(NVME_ADMIN_QUEUE_ATTRIBUTES, name, taken["AQA"])
  IN  Finished /\ cfs = 0 =>
        /\ rdy = 1 /\ cc("en") = 1
        /\ aqa("asqs") + 1 = 32 /\ aqa("acqs") + 1 = 32
        /\ 2^cc("iosqes") = 64 /\ 2^cc("iocqes") = 16
        /\ \A name \in {"css", "mps", "ams", "shn"} : cc(name) = 0

(* The address a queue register gives: the words with OFFS bits dropped. *)
Base(words) == (words[2] * WORD + words[1]) \div 2^OFFS

(* Both words of both queue registers are the kernel's when the controller *)
(* starts, no half from the firmware (nvme.c:33-34): the page number the   *)
(* register gives is the value the kernel passed, and the bits below it    *)
(* are as they were.                                                       *)
QueueWordsWhole ==
  Finished /\ cfs = 0 => Base(taken["ASQ"]) = asq /\ Base(taken["ACQ"]) = acq

(* nvme.h:117-120 declares ASQ as 12 zero bits and the 52 bits of the base *)
(* address of the queue: the controller finds the submission queue, a page,*)
(* at asq.                                                                 *)
QueueBaseIsAsq ==
  Finished /\ cfs = 0 => Base(taken["ASQ"]) * 2^OFFS = asq

(* Both admin doorbells are in the pages kernel.c:146 maps, for a stride   *)
(* up to 2^10 words, and they are not the same register.                   *)
DoorbellsMapped ==
  dstrd <= 10 =>
    /\ Doorbell(0, 0) # Doorbell(0, 1)
    /\ \A dir \in {0, 1} : Doorbell(0, dir) \div 4096 < BarPages

(* The controller runs with what the kernel asked for: the configuration   *)
(* it took over is the one of kernel.c:153-165 whatever the firmware had   *)
(* left in the registers (ConfigurationTaken), no half of a queue address  *)
(* is the firmware's (QueueWordsWhole), both doorbells are in the pages    *)
(* mapped (DoorbellsMapped), and no register leaves its width (TypeOK).    *)
ControllerSound == TypeOK /\ ConfigurationTaken /\ QueueWordsWhole /\ DoorbellsMapped
=============================================================================
