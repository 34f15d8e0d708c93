------------------------------ MODULE NvmeAdmin -----------------------------
(***************************************************************************)
(* The admin queue pair of dev/nvme/nvme.c: nvme_command_identify puts a   *)
(* command in the submission ring, rings its doorbell and polls the        *)
(* completion ring for an entry whose phase bit is the expected one, while *)
(* the controller (external) fetches, executes and completes on its own.   *)
(*                                                                         *)
(* Commands carry a cid that nvme.c changes only once a lap, so a history  *)
(* tag, seq, tells one command from the next.                              *)
(***************************************************************************)
EXTENDS Integers

CONSTANTS N,        \* NVME_ADMIN_QUEUE_ENTRIES (32)
          CID_MOD,  \* 2^16
          TAGS      \* number of history tags

ASSUME NAssumption == N \in Nat \ {0, 1}
ASSUME CidAssumption == CID_MOD \in Nat \ {0}
ASSUME TagsAssumption == TAGS \in Nat \ {0}

Slots == 0 .. (N - 1)
Tags  == 0 .. (TAGS - 1)
Cids  == 0 .. (CID_MOD - 1)

Commands    == [cid: Cids, seq: Tags]
Completions == [p: {0, 1}, cid: Cids, seq: Tags, sc: {0, 1}]

VARIABLES
  asq, acq,                  \* the rings in memory (nvme.c:4-5)
  asq_tail, acq_head,        \* nvme.c:7-8
  acq_phase, exp_cid,        \* nvme.c:9-10
  identify_buf,              \* tag of the command whose data it holds
  pc,                        \* where nvme_command_identify is
  cqe,                       \* history: the entry the poll accepted
  seq,                       \* history: tag of the last command issued
  result,                    \* history: the entry the last call returned with
  sq_doorbell, cq_doorbell,  \* the doorbell registers
  sq_head, cq_tail, phase,   \* the controller's positions and phase tag
  current                    \* the command the controller executes, as a set

host == <<asq, asq_tail, acq_head, acq_phase, exp_cid, pc, cqe, seq, result, sq_doorbell, cq_doorbell>>
controller == <<acq, identify_buf, sq_head, cq_tail, phase, current>>
vars == <<host, controller>>

Succ(x) == (x + 1) % N

-----------------------------------------------------------------------------
(* nvme.c:4-10 after the controller was enabled (kernel.c:166-167). *)
Init ==
  /\ asq = [s \in Slots |-> [cid |-> 0, seq |-> 0]]
  /\ acq = [s \in Slots |-> [p |-> 0, cid |-> 0, seq |-> 0, sc |-> 0]]
  /\ asq_tail = 0 /\ acq_head = 0
  /\ acq_phase = 1 /\ exp_cid \in Cids
  /\ identify_buf = 0
  /\ pc = "idle"
  /\ cqe = [p |-> 0, cid |-> 0, seq |-> 0, sc |-> 0]
  /\ result = cqe
  /\ seq = 0
  /\ sq_doorbell = 0 /\ cq_doorbell = 0
  /\ sq_head = 0 /\ cq_tail = 0 /\ phase = 1
  /\ current = {}

FillNextSlot ==
  /\ pc = "idle" /\ pc' = "filled"
  /\ seq' = (seq + 1) % TAGS
  /\ asq' = [asq EXCEPT ![Succ(asq_tail)] = [cid |-> exp_cid, seq |-> seq']]
  /\ UNCHANGED <<asq_tail, acq_head, acq_phase, exp_cid, cqe, result, sq_doorbell, cq_doorbell, controller>>

(* nvme.c:68-83: the command is built and stored at the ring's tail. *)
Fill ==
  /\ pc = "idle" /\ pc' = "filled"
  /\ seq' = (seq + 1) % TAGS
  /\ asq' = [asq EXCEPT ![asq_tail] = [cid |-> exp_cid, seq |-> seq']]
  /\ UNCHANGED <<asq_tail, acq_head, acq_phase, exp_cid, cqe, result, sq_doorbell, cq_doorbell, controller>>

RingAsqNoWrap ==
  /\ pc = "filled" /\ pc' = "polling"
  /\ sq_doorbell' = asq_tail + 1
  /\ asq_tail' = asq_tail + 1
  /\ UNCHANGED <<asq, acq_head, acq_phase, exp_cid, cqe, seq, result, cq_doorbell, controller>>

(* nvme_ring_asq_doorbell, nvme.c:45-55. *)
nvme_ring_asq_doorbell ==
  /\ pc = "filled" /\ pc' = "polling"
  /\ sq_doorbell' = Succ(asq_tail)
  /\ asq_tail' = Succ(asq_tail)
  /\ UNCHANGED <<asq, acq_head, acq_phase, exp_cid, cqe, seq, result, cq_doorbell, controller>>

PollAnyPhase ==
  /\ pc = "polling" /\ pc' = "accepted"
  /\ acq[acq_head].p = 1
  /\ cqe' = acq[acq_head]
  /\ UNCHANGED <<asq, asq_tail, acq_head, acq_phase, exp_cid, seq, result, sq_doorbell, cq_doorbell, controller>>

(* nvme.c:89-103: the poll accepts the entry at the head when its phase    *)
(* bit is the expected one.  It looks at nothing else of the entry.  Any   *)
(* other read, and the timeout of lines 96-102, which only restarts the    *)
(* count, leaves the state as it is.                                       *)
Poll ==
  /\ pc = "polling" /\ pc' = "accepted"
  /\ acq[acq_head].p = acq_phase
  /\ cqe' = acq[acq_head]
  /\ UNCHANGED <<asq, asq_tail, acq_head, acq_phase, exp_cid, seq, result, sq_doorbell, cq_doorbell, controller>>

RingAcqNoDoorbell ==
  /\ pc = "accepted" /\ pc' = "acked"
  /\ acq_head' = Succ(acq_head)
  /\ UNCHANGED <<asq, asq_tail, acq_phase, exp_cid, cqe, seq, result, sq_doorbell, cq_doorbell, controller>>

(* nvme_ring_acq_doorbell, nvme.c:56-66. *)
nvme_ring_acq_doorbell ==
  /\ pc = "accepted" /\ pc' = "acked"
  /\ cq_doorbell' = Succ(acq_head)
  /\ acq_head' = Succ(acq_head)
  /\ UNCHANGED <<asq, asq_tail, acq_phase, exp_cid, cqe, seq, result, sq_doorbell, controller>>

ReturnNoFlip ==
  /\ pc = "acked" /\ pc' = "idle"
  /\ exp_cid' = IF acq_head = 0 THEN (exp_cid + 1) % CID_MOD ELSE exp_cid
  /\ acq_phase' = acq_phase
  /\ result' = cqe
  /\ UNCHANGED <<asq, asq_tail, acq_head, cqe, seq, sq_doorbell, cq_doorbell, controller>>

(* nvme.c:109-113: the end of a lap flips the phase and changes the cid. *)
Return ==
  /\ pc = "acked" /\ pc' = "idle"
  /\ IF acq_head = 0
     THEN acq_phase' = 1 - acq_phase /\ exp_cid' = (exp_cid + 1) % CID_MOD
     ELSE UNCHANGED <<acq_phase, exp_cid>>
  /\ result' = cqe
  /\ UNCHANGED <<asq, asq_tail, acq_head, cqe, seq, sq_doorbell, cq_doorbell, controller>>

Host == Fill \/ nvme_ring_asq_doorbell \/ Poll \/ nvme_ring_acq_doorbell \/ Return

-----------------------------------------------------------------------------
(* External: the controller.  It fetches a command when the tail doorbell  *)
(* is ahead of its head.                                                   *)
CtrlFetch ==
  /\ current = {}
  /\ sq_head # sq_doorbell
  /\ current' = {asq[sq_head]}
  /\ sq_head' = Succ(sq_head)
  /\ UNCHANGED <<acq, identify_buf, cq_tail, phase, host>>

(* External: it completes the command, having written the data if it       *)
(* succeeded, with its phase tag, which it flips at the end of the ring.   *)
(* It must not overwrite an entry the host has not released.               *)
CtrlComplete(c, sc) ==
  /\ c \in current
  /\ Succ(cq_tail) # cq_doorbell
  /\ identify_buf' = IF sc = 0 THEN c.seq ELSE identify_buf
  /\ acq' = [acq EXCEPT ![cq_tail] = [p |-> phase, cid |-> c.cid, seq |-> c.seq, sc |-> sc]]
  /\ cq_tail' = Succ(cq_tail)
  /\ phase' = IF Succ(cq_tail) = 0 THEN 1 - phase ELSE phase
  /\ current' = {}
  /\ UNCHANGED <<sq_head, host>>

Controller == CtrlFetch \/ \E c \in current, sc \in {0, 1} : CtrlComplete(c, sc)

Next == Host \/ Controller

(* The caller need not issue another command; once in it, the host's loop  *)
(* runs on and the controller answers in finite time.                      *)
Fairness == WF_vars(Host /\ pc # "idle") /\ WF_vars(Controller)

SafeSpec == Init /\ [][Next]_vars
Spec == SafeSpec /\ Fairness

-----------------------------------------------------------------------------
(* Every variable has its type; in particular tail and head stay slots of *)
(* the ring (nvme.c:48, 59).                                               *)
TypeOK ==
  /\ asq \in [Slots -> Commands] /\ acq \in [Slots -> Completions]
  /\ asq_tail \in Slots /\ acq_head \in Slots
  /\ acq_phase \in {0, 1} /\ exp_cid \in Cids
  /\ identify_buf \in Tags /\ seq \in Tags
  /\ pc \in {"idle", "filled", "polling", "accepted", "acked"}
  /\ cqe \in Completions /\ result \in Completions
  /\ sq_doorbell \in Slots /\ cq_doorbell \in Slots
  /\ sq_head \in Slots /\ cq_tail \in Slots /\ phase \in {0, 1}
  /\ \/ current = {}
     \/ \E c \in Commands : current = {c}

(* The entry the poll accepted answers the command just submitted, not an  *)
(* earlier one whose entry is still in the ring, and if the command        *)
(* succeeded its data is in identify_buf.                                  *)
CompletionFresh ==
  pc \in {"accepted", "acked"} =>
    /\ cqe.seq = seq
    /\ cqe.sc = 0 => identify_buf = seq

(* Between calls the host and the controller agree on where they are and   *)
(* on the phase, lap after lap: a disagreement of one bit or one slot and  *)
(* the next poll waits forever or accepts a stale entry.                   *)
InStep ==
  pc = "idle" =>
    /\ asq_tail = sq_head /\ acq_head = cq_tail /\ acq_phase = phase
    /\ current = {} /\ cq_doorbell = acq_head /\ sq_doorbell = asq_tail

(* An entry of the completion ring has the expected phase exactly when it  *)
(* was posted in this lap: what makes one bit enough.                      *)
PhaseMarksLap ==
  pc = "idle" => \A s \in Slots : acq[s].p = acq_phase <=> s < acq_head

(* nvme_command_identify returns (nvme.c:91-103 waits without limit). *)
IdentifyReturns == pc = "filled" ~> pc = "idle"

(* The refinement mapping: a request is answered once the entry at the     *)
(* head has the expected phase; the answer is the last entry posted.       *)
AbsPhase ==
  IF pc = "idle" THEN "idle"
  ELSE IF pc \in {"filled", "polling"} /\ acq[acq_head].p # acq_phase THEN "issued"
  ELSE "answered"
AnswerOf(c) == [tag |-> c.seq, sc |-> c.sc]

Channel == INSTANCE AdminChannel WITH
  phase <- AbsPhase, request <- seq,
  reply <- AnswerOf(acq[(cq_tail - 1) % N]), result <- AnswerOf(result)

(* nvme_command_identify implements the abstract admin channel: one answer *)
(* a request, returned by the call that asked (nvme.c:67-113).             *)
ImplementsChannel == Channel!Spec
=============================================================================
