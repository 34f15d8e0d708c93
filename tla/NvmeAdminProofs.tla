--------------------------- MODULE NvmeAdminProofs --------------------------
(***************************************************************************)
(* Proofs about NvmeAdmin, for rings of every length N >= 2.               *)
(***************************************************************************)
EXTENDS NvmeAdmin, TLAPS

-----------------------------------------------------------------------------
(* The inductive invariant: what is true of both sides at each stage of a  *)
(* command.                                                                *)

(* Every entry below the head, and no other, was posted in this lap. *)
Lap == \A s \in Slots : acq[s].p = acq_phase <=> s < acq_head

(* Nothing is outstanding: both sides are at the same place. *)
Level == /\ sq_head = asq_tail /\ current = {}
         /\ cq_tail = acq_head /\ phase = acq_phase /\ Lap

(* The command is in the submission ring and the doorbell was rung. *)
Submitted == /\ Succ(sq_head) = asq_tail /\ sq_head # asq_tail /\ current = {}
             /\ asq[sq_head].seq = seq
             /\ cq_tail = acq_head /\ phase = acq_phase /\ Lap

(* The controller has the command. *)
Executing == /\ sq_head = asq_tail
             /\ \E c \in Commands : current = {c} /\ c.seq = seq
             /\ cq_tail = acq_head /\ phase = acq_phase /\ Lap

(* The answer is at the head of the completion ring. *)
Posted == /\ sq_head = asq_tail /\ current = {}
          /\ cq_tail = Succ(acq_head)
          /\ phase = IF cq_tail = 0 THEN 1 - acq_phase ELSE acq_phase
          /\ acq[acq_head].seq = seq
          /\ acq[acq_head].sc = 0 => identify_buf = seq
          /\ \A s \in Slots : acq[s].p = acq_phase <=> s <= acq_head

(* The entry was released; the end of a lap not yet noticed. *)
Released == /\ sq_head = asq_tail /\ current = {}
            /\ cq_tail = acq_head
            /\ phase = IF cq_tail = 0 THEN 1 - acq_phase ELSE acq_phase
            /\ acq[(cq_tail - 1) % N] = cqe
            /\ cqe.seq = seq
            /\ cqe.sc = 0 => identify_buf = seq
            /\ \A s \in Slots : acq[s].p = acq_phase <=> (acq_head = 0 \/ s < acq_head)

Stage ==
  /\ pc = "idle" => Level
  /\ pc = "filled" => Level /\ asq[asq_tail].seq = seq
  /\ pc = "polling" => Submitted \/ Executing \/ Posted
  /\ pc = "accepted" => Posted /\ cqe = acq[acq_head]
  /\ pc = "acked" => Released

IInv == TypeOK /\ sq_doorbell = asq_tail /\ cq_doorbell = acq_head /\ Stage

-----------------------------------------------------------------------------
(* The next position of a ring, and that positions do not repeat at once. *)
LEMMA SuccFacts ==
  ASSUME NEW x \in Slots
  PROVE  /\ Succ(x) \in Slots /\ Succ(x) # x
         /\ Succ(x) = IF x = N - 1 THEN 0 ELSE x + 1
         /\ (Succ(x) - 1) % N = x
<1>1. Succ(x) = IF x = N - 1 THEN 0 ELSE x + 1
  BY NAssumption DEF Succ, Slots
<1>2. Succ(x) \in Slots /\ Succ(x) # x
  BY <1>1, NAssumption DEF Slots
<1>3. \A y \in Slots : (y - 1) % N = IF y = 0 THEN N - 1 ELSE y - 1
  BY NAssumption DEF Slots
<1>4. (Succ(x) - 1) % N = x
  BY <1>1, <1>2, <1>3, NAssumption DEF Slots
<1> QED
  BY <1>1, <1>2, <1>4

(* Tags and command identifiers wrap within their range. *)
LEMMA TagFacts ==
  /\ 0 \in Tags /\ 0 \in Cids /\ 0 \in Slots
  /\ \A t \in Tags : (t + 1) % TAGS \in Tags
  /\ \A c \in Cids : (c + 1) % CID_MOD \in Cids
  BY TagsAssumption, CidAssumption, NAssumption DEF Tags, Cids, Slots

(* The rings zeroed and the phase 1, before the first command. *)
LEMMA InitIInv == Init => IInv
<1> SUFFICES ASSUME Init PROVE IInv
  OBVIOUS
<1>1. TypeOK
  BY TagFacts DEF Init, TypeOK, Commands, Completions
<1>2. Stage
  BY DEF Init, Stage, Level, Lap, Slots
<1> QED
  BY <1>1, <1>2 DEF IInv, Init

(* A command is written to the submission ring. *)
LEMMA FillIInv == IInv /\ Fill => IInv'
<1> SUFFICES ASSUME IInv, Fill PROVE IInv'
  OBVIOUS
<1> USE DEF IInv
<1>1. TypeOK'
  BY TagFacts DEF Fill, TypeOK, Commands, controller
<1>2. Stage'
  BY DEF Fill, Stage, Level, Lap, TypeOK, Commands, controller
<1> QED
  BY <1>1, <1>2 DEF Fill

(* The submission doorbell is rung. *)
LEMMA RingAsqIInv == IInv /\ nvme_ring_asq_doorbell => IInv'
<1> SUFFICES ASSUME IInv, nvme_ring_asq_doorbell PROVE IInv'
  OBVIOUS
<1> USE DEF IInv
<1>0. asq_tail \in Slots
  BY DEF TypeOK
<1>1. TypeOK'
  BY <1>0, SuccFacts DEF nvme_ring_asq_doorbell, TypeOK, controller
<1>2. Submitted'
  BY <1>0, SuccFacts DEF nvme_ring_asq_doorbell, Stage, Level, Submitted, Lap, Succ, controller
<1> QED
  BY <1>1, <1>2 DEF nvme_ring_asq_doorbell, Stage, controller

(* One turn of the loop that waits for the phase bit. *)
LEMMA PollIInv == IInv /\ Poll => IInv'
<1> SUFFICES ASSUME IInv, Poll PROVE IInv'
  OBVIOUS
<1> USE DEF IInv
<1>1. TypeOK'
  BY DEF Poll, TypeOK, controller
<1>2. Posted
  \* in the other two stages the entry at the head is of an earlier lap
  BY DEF Poll, Stage, Submitted, Executing, Lap, TypeOK, Slots
<1>3. Posted'
  BY <1>2 DEF Poll, Posted, Succ, controller
<1> QED
  BY <1>1, <1>3 DEF Poll, Stage, controller

(* The completion doorbell is rung. *)
LEMMA RingAcqIInv == IInv /\ nvme_ring_acq_doorbell => IInv'
<1> SUFFICES ASSUME IInv, nvme_ring_acq_doorbell PROVE IInv'
  OBVIOUS
<1> USE DEF IInv
<1>0. acq_head \in Slots /\ Posted /\ cqe = acq[acq_head]
  BY DEF nvme_ring_acq_doorbell, TypeOK, Stage
<1>1. TypeOK'
  BY <1>0, SuccFacts DEF nvme_ring_acq_doorbell, TypeOK, controller
<1>2. Released'
  <2>1. acq_head' = Succ(acq_head) /\ cq_tail' = cq_tail /\ acq' = acq /\ acq_phase' = acq_phase
    BY DEF nvme_ring_acq_doorbell, controller
  <2>2. acq[(cq_tail - 1) % N] = cqe
    BY <1>0, SuccFacts DEF Posted
  <2>3. ASSUME NEW s \in Slots
        PROVE  acq[s].p = acq_phase <=> (Succ(acq_head) = 0 \/ s < Succ(acq_head))
    BY <1>0, SuccFacts, NAssumption DEF Posted, Slots
  <2> QED
    BY <1>0, <2>1, <2>2, <2>3 DEF nvme_ring_acq_doorbell, Posted, Released, controller
<1> QED
  BY <1>1, <1>2 DEF nvme_ring_acq_doorbell, Stage, controller

(* The call returns. *)
LEMMA ReturnIInv == IInv /\ Return => IInv'
<1> SUFFICES ASSUME IInv, Return PROVE IInv'
  OBVIOUS
<1> USE DEF IInv
<1>0. Released
  BY DEF Return, Stage
<1>1. TypeOK'
  BY TagFacts DEF Return, TypeOK, controller
<1>2. Level'
  <2>1. CASE acq_head = 0
    BY <1>0, <2>1, NAssumption DEF Return, Released, Level, Lap, TypeOK, Completions, Slots, controller
  <2>2. CASE acq_head # 0
    BY <1>0, <2>2 DEF Return, Released, Level, Lap, controller
  <2> QED
    BY <2>1, <2>2
<1> QED
  BY <1>1, <1>2 DEF Return, Stage, controller

(* The controller fetches a command. *)
LEMMA FetchIInv == IInv /\ CtrlFetch => IInv'
<1> SUFFICES ASSUME IInv, CtrlFetch PROVE IInv'
  OBVIOUS
<1> USE DEF IInv
<1>1. pc = "polling" /\ Submitted
  BY DEF CtrlFetch, Stage, Level, Executing, Posted, Released, TypeOK
<1>2. asq[sq_head] \in Commands /\ sq_head \in Slots
  BY DEF TypeOK
<1>3. TypeOK'
  BY <1>2, SuccFacts DEF CtrlFetch, TypeOK, host
<1>4. Executing'
  BY <1>1, <1>2 DEF CtrlFetch, Submitted, Executing, Lap, host
<1> QED
  BY <1>1, <1>3, <1>4 DEF CtrlFetch, Stage, host

(* The controller posts a completion. *)
LEMMA CompleteIInv ==
  ASSUME IInv, NEW c \in current, NEW sc \in {0, 1}, CtrlComplete(c, sc)
  PROVE  IInv' /\ pc = "polling" /\ Executing /\ Posted'
<1> USE DEF IInv
<1>1. pc = "polling" /\ Executing
  BY DEF Stage, Level, Submitted, Posted, Released, TypeOK
<1>2. c \in Commands /\ c.seq = seq
  BY <1>1 DEF Executing
<1>3. cq_tail \in Slots /\ cq_tail = acq_head /\ phase = acq_phase
  BY <1>1 DEF Executing, TypeOK
<1> DEFINE e == [p |-> phase, cid |-> c.cid, seq |-> c.seq, sc |-> sc]
<1>4. e \in Completions
  BY <1>2 DEF Completions, Commands, TypeOK
<1>5. TypeOK'
  <2>1. acq' \in [Slots -> Completions]
    BY <1>4 DEF CtrlComplete, TypeOK
  <2>2. identify_buf' \in Tags
    BY <1>2 DEF CtrlComplete, TypeOK, Commands
  <2>3. cq_tail' \in Slots /\ phase' \in {0, 1}
    BY <1>3, SuccFacts DEF CtrlComplete, TypeOK
  <2> QED
    BY <2>1, <2>2, <2>3 DEF CtrlComplete, TypeOK, host
<1>6. Posted'
  <2>1. acq' = [acq EXCEPT ![acq_head] = e] /\ acq_head \in Slots
    BY <1>3 DEF CtrlComplete
  <2>2. \A s \in Slots : acq'[s].p = acq_phase <=> s <= acq_head
    <3> SUFFICES ASSUME NEW s \in Slots PROVE acq'[s].p = acq_phase <=> s <= acq_head
      OBVIOUS
    <3>1. CASE s = acq_head
      BY <1>3, <2>1, <3>1 DEF TypeOK, Slots
    <3>2. CASE s # acq_head
      <4>1. acq'[s] = acq[s]
        BY <2>1, <3>2 DEF TypeOK
      <4> QED
        BY <1>1, <2>1, <3>2, <4>1 DEF Executing, Lap, Slots
    <3> QED
      BY <3>1, <3>2
  <2>3. acq'[acq_head].seq = seq /\ acq'[acq_head].sc = sc
    BY <1>2, <2>1 DEF TypeOK
  <2>4. /\ acq_head' = acq_head /\ acq_phase' = acq_phase /\ seq' = seq
        /\ cq_tail' = Succ(acq_head) /\ identify_buf' = IF sc = 0 THEN seq ELSE identify_buf
        /\ phase' = IF cq_tail' = 0 THEN 1 - acq_phase ELSE acq_phase
        /\ sq_head' = sq_head /\ asq_tail' = asq_tail /\ current' = {}
    BY <1>2, <1>3 DEF CtrlComplete, host
  <2> QED
    BY <1>1, <2>2, <2>3, <2>4 DEF Posted, Executing, Succ
<1> QED
  BY <1>1, <1>5, <1>6 DEF CtrlComplete, Stage, host

(* Every step of host and controller keeps the invariant. *)
LEMMA NextIInv == IInv /\ [Next]_vars => IInv'
<1> SUFFICES ASSUME IInv, [Next]_vars PROVE IInv'
  OBVIOUS
<1>1. CASE Host
  BY <1>1, FillIInv, RingAsqIInv, PollIInv, RingAcqIInv, ReturnIInv DEF Host
<1>2. CASE Controller
  BY <1>2, FetchIInv, CompleteIInv DEF Controller
<1>3. CASE UNCHANGED vars
  BY <1>3 DEF vars, host, controller, IInv, TypeOK, Stage, Level, Submitted, Executing, Posted, Released, Lap, Succ
<1> QED
  BY <1>1, <1>2, <1>3 DEF Next

(* For every ring length the positions stay within the ring and the phase  *)
(* a bit (nvme.c:45-66).                                                   *)
THEOREM TypeCorrect == Spec => []TypeOK
<1>1. IInv => TypeOK
  BY DEF IInv
<1> QED
  BY InitIInv, NextIInv, <1>1, PTL DEF Spec, SafeSpec

(* For every ring length, the poll of nvme.c:91-96 never accepts a stale   *)
(* entry: what it accepts answers the command just submitted.              *)
THEOREM NeverStale == Spec => []CompletionFresh
<1>1. IInv => CompletionFresh
  BY DEF IInv, CompletionFresh, Stage, Posted, Released
<1> QED
  BY InitIInv, NextIInv, <1>1, PTL DEF Spec, SafeSpec

(* For every ring length, host and controller are in step between calls,   *)
(* and the phase bit tells this lap's entries from the last one's          *)
(* (nvme.c:109-112).                                                       *)
THEOREM AlwaysInStep == Spec => [](InStep /\ PhaseMarksLap)
<1>1. IInv => InStep /\ PhaseMarksLap
  BY DEF IInv, InStep, PhaseMarksLap, Stage, Level, Lap
<1> QED
  BY InitIInv, NextIInv, <1>1, PTL DEF Spec, SafeSpec

(* The phase bit alone (nvme.c:92, 109-112): in a ring of any length it    *)
(* marks exactly the entries of the current lap.                           *)
COROLLARY PhaseExact == Spec => []PhaseMarksLap
  BY AlwaysInStep, PTL

-----------------------------------------------------------------------------
(* Refinement of AdminChannel. *)

Last == acq[(cq_tail - 1) % N]

(* The entry accepted last is a completion. *)
LEMMA LastIsEntry == TypeOK => Last \in Completions
<1>1. ASSUME NEW y \in Slots PROVE (y - 1) % N \in Slots
  BY NAssumption DEF Slots
<1> QED
  BY <1>1 DEF TypeOK, Last

(* What the call hands back is an answer of the channel. *)
LEMMA AnswerTyped ==
  ASSUME NEW c \in Completions
  PROVE  AnswerOf(c) \in [tag: Tags, sc: {0, 1}]
  BY DEF Completions, AnswerOf

(* Where the abstract phase is, at each stage. *)
LEMMA PhaseAt ==
  ASSUME IInv
  PROVE  /\ pc = "idle" => AbsPhase = "idle"
         /\ pc = "filled" => AbsPhase = "issued"
         /\ pc = "polling" /\ (Submitted \/ Executing) => AbsPhase = "issued"
         /\ pc = "polling" /\ Posted => AbsPhase = "answered"
         /\ pc \in {"accepted", "acked"} => AbsPhase = "answered"
<1>0. acq_head \in Slots
  BY DEF IInv, TypeOK
<1>1. ASSUME Lap PROVE acq[acq_head].p # acq_phase
  BY <1>0, <1>1 DEF Lap, Slots
<1>2. ASSUME Posted PROVE acq[acq_head].p = acq_phase
  BY <1>0, <1>2 DEF Posted, Slots
<1> QED
  BY <1>1, <1>2 DEF IInv, Stage, Level, Submitted, Executing, AbsPhase

(* The initial states are initial states of the channel. *)
LEMMA InitRefines == Init => Channel!Init
<1> SUFFICES ASSUME Init PROVE Channel!Init
  OBVIOUS
<1>1. IInv /\ TypeOK
  BY InitIInv DEF IInv
<1>2. Last \in Completions /\ result \in Completions /\ seq \in Tags
  BY <1>1, LastIsEntry DEF TypeOK
<1>3. AbsPhase = "idle"
  BY DEF Init, AbsPhase
<1> QED
  BY <1>2, <1>3, AnswerTyped DEF Channel!Init, Last

(* Every step is a step of the channel or changes nothing it sees. *)
LEMMA NextRefines == IInv /\ IInv' /\ [Next]_vars => [Channel!Next]_(Channel!vars)
<1> SUFFICES ASSUME IInv, IInv', [Next]_vars PROVE [Channel!Next]_(Channel!vars)
  OBVIOUS
<1>0. TypeOK /\ TypeOK'
  BY DEF IInv
<1>1. CASE Fill
  <2>1. AbsPhase = "idle" /\ AbsPhase' = "issued"
    <3>1. pc = "idle" /\ pc' = "filled" /\ Level
      BY <1>1 DEF Fill, IInv, Stage
    <3>2. acq[acq_head].p # acq_phase
      <4>1. acq_head \in Slots /\ Lap
        BY <1>0, <3>1 DEF Level, TypeOK
      <4>2. ~ (acq_head < acq_head)
        BY <4>1 DEF Slots
      <4> QED
        BY <4>1, <4>2 DEF Lap
    <3>3. acq' = acq /\ acq_head' = acq_head /\ acq_phase' = acq_phase
      BY <1>1 DEF Fill, controller
    <3> QED
      BY <3>1, <3>2, <3>3 DEF AbsPhase
  <2>2. seq' \in Tags /\ UNCHANGED <<acq, cq_tail, result>>
    BY <1>0, <1>1 DEF Fill, controller, TypeOK
  <2> QED
    BY <2>1, <2>2 DEF Channel!Next, Channel!Issue
<1>2. CASE nvme_ring_asq_doorbell
  <2>1. AbsPhase' = AbsPhase /\ UNCHANGED <<acq, cq_tail, result, seq>>
    BY <1>2 DEF nvme_ring_asq_doorbell, controller, AbsPhase
  <2> QED
    BY <2>1 DEF Channel!vars
<1>3. CASE Poll
  <2>1. AbsPhase' = AbsPhase /\ UNCHANGED <<acq, cq_tail, result, seq>>
    BY <1>3 DEF Poll, controller, AbsPhase
  <2> QED
    BY <2>1 DEF Channel!vars
<1>4. CASE nvme_ring_acq_doorbell
  <2>1. AbsPhase' = AbsPhase /\ UNCHANGED <<acq, cq_tail, result, seq>>
    BY <1>4 DEF nvme_ring_acq_doorbell, controller, AbsPhase
  <2> QED
    BY <2>1 DEF Channel!vars
<1>5. CASE Return
  <2>1. AbsPhase = "answered" /\ AbsPhase' = "idle"
    BY <1>5 DEF Return, AbsPhase
  <2>2. result' = cqe /\ Last = cqe /\ UNCHANGED <<acq, cq_tail, seq>>
    BY <1>5 DEF Return, IInv, Stage, Released, Last, controller
  <2> QED
    BY <2>1, <2>2 DEF Channel!Next, Channel!Return, Last
<1>6. CASE CtrlFetch
  <2>1. AbsPhase' = AbsPhase /\ UNCHANGED <<acq, cq_tail, result, seq>>
    BY <1>6 DEF CtrlFetch, host, AbsPhase
  <2> QED
    BY <2>1 DEF Channel!vars
<1>7. ASSUME NEW c \in current, NEW sc \in {0, 1}, CtrlComplete(c, sc)
      PROVE  Channel!Answer
  <2>1. pc = "polling" /\ Executing /\ Posted' /\ pc' = pc
    BY <1>7, CompleteIInv DEF CtrlComplete, host
  <2>2. AbsPhase = "issued"
    BY <2>1, PhaseAt
  <2>3. AbsPhase' = "answered"
    <3>1. acq_head' \in Slots /\ pc' = "polling"
      BY <1>0, <2>1 DEF TypeOK
    <3>2. acq'[acq_head'].p = acq_phase'
      BY <2>1, <3>1 DEF Posted, Slots
    <3> QED
      BY <3>1, <3>2 DEF AbsPhase
  <2>4. UNCHANGED <<seq, result>>
    BY <1>7 DEF CtrlComplete, host
  <2>5. Last'.seq = seq /\ Last' \in Completions
    <3>1. cq_tail' = Succ(acq_head) /\ acq_head' = acq_head /\ acq_head \in Slots /\ seq' = seq
      BY <1>0, <1>7, <2>1 DEF CtrlComplete, Executing, host, TypeOK
    <3>2. (cq_tail' - 1) % N = acq_head
      BY <3>1, SuccFacts
    <3>3. Last' = acq'[acq_head] /\ acq'[acq_head].seq = seq
      BY <2>1, <3>1, <3>2 DEF Posted, Last
    <3> QED
      BY <1>0, <3>1, <3>3 DEF TypeOK
  <2>6. AnswerOf(Last)' \in [tag: {seq}, sc: {0, 1}]
    BY <2>5 DEF AnswerOf, Completions
  <2> QED
    BY <2>2, <2>3, <2>4, <2>6 DEF Channel!Answer, Last
<1>8. CASE UNCHANGED vars
  <2>1. AbsPhase' = AbsPhase /\ UNCHANGED <<acq, cq_tail, result, seq>>
    BY <1>8 DEF vars, host, controller, AbsPhase
  <2> QED
    BY <2>1 DEF Channel!vars
<1> QED
  BY <1>1, <1>2, <1>3, <1>4, <1>5, <1>6, <1>7, <1>8 DEF Next, Host, Controller, Channel!Next

(* For every ring length, nvme_command_identify (nvme.c:67-113) and the    *)
(* controller together implement the abstract channel: one answer to each  *)
(* request, returned by the call that asked.                               *)
THEOREM RefinesChannel == Spec => ImplementsChannel
<1> QED
  BY InitIInv, NextIInv, InitRefines, NextRefines, PTL DEF Spec, SafeSpec, ImplementsChannel, Channel!Spec
=============================================================================
