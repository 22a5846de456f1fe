------------------------------ MODULE EventStream ------------------------------
(***************************************************************************)
(* What the widget promises of the answer to a message                     *)
(* (packages/shared/src/chat.ts): the customer sees the events of that     *)
(* very answer, in order, each once, and all of them unless the stream     *)
(* fails.  After a failure the server goes on and nobody sees it.          *)
(***************************************************************************)
EXTENDS Naturals, Sequences

CONSTANTS Message, Event

VARIABLES
  emitted,   \* what the server has sent of each answer
  seen,      \* what the customer has seen of it
  state      \* of each answer's stream

vars == <<emitted, seen, state>>

Init ==
  /\ emitted = [m \in Message |-> <<>>]
  /\ seen = [m \in Message |-> <<>>]
  /\ state = [m \in Message |-> "new"]

Open(m) ==
  /\ state[m] = "new"
  /\ state' = [state EXCEPT ![m] = "open"]
  /\ UNCHANGED <<emitted, seen>>

Emit(m) ==
  /\ state[m] \in {"open", "failed"}
  /\ \E e \in Event : emitted' = [emitted EXCEPT ![m] = Append(@, e)]
  /\ UNCHANGED <<seen, state>>

See(m) ==
  /\ state[m] = "open"
  /\ \E n \in Len(seen[m]) + 1 .. Len(emitted[m]) :
       seen' = [seen EXCEPT ![m] = SubSeq(emitted[m], 1, n)]
  /\ UNCHANGED <<emitted, state>>

End(m) ==
  /\ state[m] = "open"
  /\ seen[m] = emitted[m]
  /\ state' = [state EXCEPT ![m] = "whole"]
  /\ UNCHANGED <<emitted, seen>>

Fail(m) ==
  /\ state[m] = "open"
  /\ state' = [state EXCEPT ![m] = "failed"]
  /\ UNCHANGED <<emitted, seen>>

Next == \E m \in Message : Open(m) \/ Emit(m) \/ See(m) \/ End(m) \/ Fail(m)

Spec == Init /\ [][Next]_vars
=============================================================================
