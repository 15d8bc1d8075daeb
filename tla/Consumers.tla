----------------------------- MODULE Consumers -----------------------------
(***************************************************************************)
(* The work queue of the app server (appServerXX/consumers.cc): a ring of  *)
(* `Capacity' strings guarded by one mutex, with one condition variable    *)
(* for both "not full" and "not empty".  The thread that reads from the    *)
(* gateway calls putData for every message of ReadCb; thread_num_ consumer *)
(* threads loop in consumerRun.                                            *)
(*                                                                         *)
(* Every access happens under the mutex, which pthread_cond_wait gives up: *)
(* a step is one critical section up to its unlock or its wait.  A message *)
(* is its number in the order of arrival; an empty one (a stray CRLF) is   *)
(* taken like any other and ignored by consumerRun.  No code ever sets     *)
(* c_queue.closed.                                                         *)
(***************************************************************************)
EXTENDS Integers, Sequences

CONSTANTS
  Consumer,      (* The consumer threads.                                  *)
  Producer,      (* The thread that runs CGatewayTransport::ReadCb.        *)
  Capacity,      (* c_queue.capacity, from appServerXX.worker.queue.num.   *)
  MaxMessages    (* Bound: messages received in a behaviour.               *)

\* The constructor asserts the capacity; the build compiles asserts out.
ASSUME ConsumersAssumption ==
  /\ Producer \notin Consumer
  /\ Capacity \in Nat \ {0}
  /\ MaxMessages \in Nat

Message == 1..MaxMessages
NoItem == 0                      (* the empty string in a slot *)
Slot == 0..(Capacity - 1)
Thread == Consumer \cup {Producer}

VARIABLES
  buf, pos, length,   (* c_queue *)
  pc,                 (* thread -> where it is *)
  item,               (* consumer -> the message it works on *)
  received,           (* messages ReadCb has split off so far *)
  taken,              (* history: number of messages taken *)
  finished            (* history: messages worked off *)

ring == <<buf, pos, length>>
vars == <<ring, pc, item, received, taken, finished>>

\* "enter": about to lock the mutex (the producer: with a message in hand);
\* "wait": in pthread_cond_wait; "woken": back from it; "work": a consumer
\* in StartAppOpt; "idle": the producer reading from the gateway.
TypeOK ==
  /\ buf \in [Slot -> Message \cup {NoItem}]
  /\ pos \in Slot
  /\ length \in 0..Capacity
  /\ pc \in [Thread -> {"enter", "wait", "woken", "work", "idle"}]
  /\ item \in [Consumer -> Message \cup {NoItem}]
  /\ received \in 0..MaxMessages
  /\ taken \in 0..MaxMessages
  /\ finished \subseteq Message

Init ==
  /\ buf = [s \in Slot |-> NoItem]
  /\ pos = 0
  /\ length = 0
  /\ pc = [t \in Thread |-> IF t = Producer THEN "idle" ELSE "enter"]
  /\ item = [c \in Consumer |-> NoItem]
  /\ received = 0
  /\ taken = 0
  /\ finished = {}

\* A slip: pthread_cond_signal, which wakes one waiter.
WakeAll_Signal ==
  [t \in Thread |->
     IF pc[t] = "wait" /\ t = CHOOSE u \in Thread : pc[u] = "wait"
     THEN "woken" ELSE pc[t]]

\* pthread_cond_broadcast: producer and consumers wait on the same condition.
WakeAll == [t \in Thread |-> IF pc[t] = "wait" THEN "woken" ELSE pc[t]]

\* In the mutex: before the while condition is looked at.
AtLoop(t) == pc[t] \in {"enter", "woken"}

\* pthread_cond_wait may return without a broadcast.
SpuriousWakeup(t) ==
  /\ pc[t] = "wait"
  /\ pc' = [pc EXCEPT ![t] = "woken"]
  /\ UNCHANGED <<ring, item, received, taken, finished>>

-----------------------------------------------------------------------------
(* Consumers: consumerRun and getData.                                     *)

GetWaits(c) ==
  /\ AtLoop(c) /\ length = 0
  /\ pc' = [pc EXCEPT ![c] = "wait"]
  /\ UNCHANGED <<ring, item, received, taken, finished>>

\* Slips in getData: no broadcast, and the ring not advanced.
GetData_NoBroadcast(c) ==
  /\ AtLoop(c) /\ length > 0
  /\ item' = [item EXCEPT ![c] = buf[pos]]
  /\ buf' = [buf EXCEPT ![pos] = NoItem]
  /\ pos' = (pos + 1) % Capacity
  /\ length' = length - 1
  /\ pc' = [pc EXCEPT ![c] = "work"]
  /\ taken' = taken + 1
  /\ UNCHANGED <<received, finished>>

GetData_KeepsPos(c) ==
  /\ AtLoop(c) /\ length > 0
  /\ item' = [item EXCEPT ![c] = buf[pos]]
  /\ length' = length - 1
  /\ pc' = [WakeAll EXCEPT ![c] = "work"]
  /\ taken' = taken + 1
  /\ UNCHANGED <<buf, pos, received, finished>>

GetData(c) ==
  /\ AtLoop(c) /\ length > 0
  /\ item' = [item EXCEPT ![c] = buf[pos]]
  /\ buf' = [buf EXCEPT ![pos] = NoItem]
  /\ pos' = (pos + 1) % Capacity
  /\ length' = length - 1
  /\ pc' = [WakeAll EXCEPT ![c] = "work"]
  /\ taken' = taken + 1
  /\ UNCHANGED <<received, finished>>

\* StartAppOpt returns.
WorkDone(c) ==
  /\ pc[c] = "work"
  /\ finished' = finished \cup {item[c]}
  /\ item' = [item EXCEPT ![c] = NoItem]
  /\ pc' = [pc EXCEPT ![c] = "enter"]
  /\ UNCHANGED <<ring, received, taken>>

-----------------------------------------------------------------------------
(* Producer: ReadCb and putData.                                           *)

\* ReadCb has the next complete message.
ReadMessage ==
  /\ pc[Producer] = "idle" /\ received < MaxMessages
  /\ received' = received + 1
  /\ pc' = [pc EXCEPT ![Producer] = "enter"]
  /\ UNCHANGED <<ring, item, taken, finished>>

PutWaits ==
  /\ AtLoop(Producer) /\ length = Capacity
  /\ pc' = [pc EXCEPT ![Producer] = "wait"]
  /\ UNCHANGED <<ring, item, received, taken, finished>>

\* Slips in putData: `if' for `while', and a slot too far.
PutData_If ==
  /\ \/ pc[Producer] = "enter" /\ length < Capacity
     \/ pc[Producer] = "woken"
  /\ buf' = [buf EXCEPT ![(pos + length) % Capacity] = received]
  /\ length' = length + 1
  /\ pc' = [WakeAll EXCEPT ![Producer] = "idle"]
  /\ UNCHANGED <<pos, item, received, taken, finished>>

PutData_NextSlot ==
  /\ AtLoop(Producer) /\ length < Capacity
  /\ buf' = [buf EXCEPT ![(pos + length + 1) % Capacity] = received]
  /\ length' = length + 1
  /\ pc' = [WakeAll EXCEPT ![Producer] = "idle"]
  /\ UNCHANGED <<pos, item, received, taken, finished>>

PutData ==
  /\ AtLoop(Producer) /\ length < Capacity
  /\ buf' = [buf EXCEPT ![(pos + length) % Capacity] = received]
  /\ length' = length + 1
  /\ pc' = [WakeAll EXCEPT ![Producer] = "idle"]
  /\ UNCHANGED <<pos, item, received, taken, finished>>

ConsumerStep(c) == GetWaits(c) \/ GetData(c) \/ WorkDone(c)
PutStep == PutWaits \/ PutData

Next == \/ \E c \in Consumer : ConsumerStep(c)
        \/ ReadMessage \/ PutStep
        \/ \E t \in Thread : SpuriousWakeup(t)

Spec == Init /\ [][Next]_vars

\* Every thread gets its turn: the mutex is never held for long, and
\* StartAppOpt ends (its only blocking call, WriteSfd, gives up after three
\* seconds).  Nothing is assumed of the gateway or of spurious wakeups.
FairSpec == /\ Spec
            /\ \A c \in Consumer : WF_vars(ConsumerStep(c))
            /\ WF_vars(PutStep)

-----------------------------------------------------------------------------
(* Properties.                                                             *)

\* Nobody sleeps in pthread_cond_wait while the queue has work for it: no
\* wakeup is lost although putData and getData share one condition, so the
\* queue cannot come to rest with everyone waiting.
NobodySleepsOnWork ==
  /\ pc[Producer] = "wait" => length = Capacity
  /\ \A c \in Consumer : pc[c] = "wait" => length = 0

\* Messages put but not taken: those of the ring, the producer's not among
\* them.
PutCount == IF pc[Producer] = "idle" THEN received ELSE received - 1

\* Through every wrap of the ring: the slots from pos on hold the messages
\* put and not taken, oldest first, and all others are empty.
RingHoldsBacklog ==
  /\ PutCount = taken + length
  /\ \A i \in 0..(Capacity - 1) :
       buf[(pos + i) % Capacity] = IF i < length THEN taken + i + 1 ELSE NoItem

\* Every message that ReadCb has split off is worked off in the end, though
\* the ring may be full and threads wake for nothing.
EveryMessageRuns ==
  \A m \in Message : (received >= m) ~> (m \in finished)

\* A consumer holds a message exactly while it works; a message that was
\* taken is with one consumer or finished, and never comes back to the ring.
TakenOnce ==
  /\ pc[Producer] \in {"idle", "enter", "wait", "woken"}
  /\ pc[Producer] # "idle" => received > 0
  /\ \A c \in Consumer : /\ pc[c] # "idle"
                         /\ pc[c] = "work" <=> item[c] # NoItem
                         /\ item[c] <= taken
  /\ \A m \in finished : m <= taken

\* The inductive invariant.
QueueInv == TypeOK /\ NobodySleepsOnWork /\ RingHoldsBacklog /\ TakenOnce

\* The ring, read from pos on, is the abstract queue.
Backlog == [i \in 1..length |-> buf[(pos + i - 1) % Capacity]]
TQ == INSTANCE TaskQueue WITH
        Worker <- Consumer, None <- NoItem, queue <- Backlog, held <- item

\* putData and getData implement the abstract queue: each message is taken
\* once, by one consumer, in the order of arrival.
ImplementsTaskQueue == TQ!Spec
=============================================================================
