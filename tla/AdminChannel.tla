---------------------------- MODULE AdminChannel ----------------------------
(***************************************************************************)
(* What an admin command promises its caller: one request is answered once *)
(* and the call returns that answer, not an earlier one's.                 *)
(***************************************************************************)
CONSTANTS Tags

VARIABLES phase,    \* "idle", "issued" or "answered"
          request,  \* the tag of the current request
          reply,    \* the answer the controller gave, [tag, sc]
          result    \* the answer the last call returned with

vars == <<phase, request, reply, result>>

Init ==
  /\ phase = "idle"
  /\ request \in Tags
  /\ reply \in [tag: Tags, sc: {0, 1}]
  /\ result \in [tag: Tags, sc: {0, 1}]

Issue ==
  /\ phase = "idle" /\ phase' = "issued"
  /\ request' \in Tags
  /\ UNCHANGED <<reply, result>>

Answer ==
  /\ phase = "issued" /\ phase' = "answered"
  /\ reply' \in [tag: {request}, sc: {0, 1}]
  /\ UNCHANGED <<request, result>>

Return ==
  /\ phase = "answered" /\ phase' = "idle"
  /\ result' = reply
  /\ UNCHANGED <<request, reply>>

Next == Issue \/ Answer \/ Return

Spec == Init /\ [][Next]_vars
=============================================================================
