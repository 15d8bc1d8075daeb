----------------------------- MODULE TaskQueue -----------------------------
(***************************************************************************)
(* What the app server promises for the messages of the gateway: each is   *)
(* queued once, handed to one worker in the order of arrival, worked on    *)
(* once, and never waits for ever.  `Consumers' implements it.             *)
(***************************************************************************)
EXTENDS Integers, Sequences

CONSTANTS Message, Worker, Capacity, None

VARIABLES
  queue,     (* messages waiting, oldest first *)
  held,      (* worker -> the message it works on, or None *)
  finished   (* messages worked off *)

vars == <<queue, held, finished>>

Queued == {queue[i] : i \in 1..Len(queue)}
Known == Queued \cup {held[w] : w \in Worker} \cup finished

Init ==
  /\ queue = <<>>
  /\ held = [w \in Worker |-> None]
  /\ finished = {}

Put(m) ==
  /\ m \notin Known
  /\ Len(queue) < Capacity
  /\ queue' = Append(queue, m)
  /\ UNCHANGED <<held, finished>>

Take(w) ==
  /\ held[w] = None
  /\ queue # <<>>
  /\ held' = [held EXCEPT ![w] = Head(queue)]
  /\ queue' = Tail(queue)
  /\ UNCHANGED finished

Finish(w) ==
  /\ held[w] # None
  /\ finished' = finished \cup {held[w]}
  /\ held' = [held EXCEPT ![w] = None]
  /\ UNCHANGED queue

Next == \/ \E m \in Message : Put(m)
        \/ \E w \in Worker : Take(w) \/ Finish(w)

SafeSpec == Init /\ [][Next]_vars

Spec == /\ SafeSpec
        /\ WF_vars(\E w \in Worker : Take(w))
        /\ \A w \in Worker : WF_vars(Finish(w))
=============================================================================
