-------------------------- MODULE ConsumersProofs --------------------------
(***************************************************************************)
(* The safety of the app server's work queue, for every capacity and every *)
(* set of consumer threads: QueueInv is inductive, the ring holds what was *)
(* put and not taken, nobody sleeps on work, and putData and getData       *)
(* implement the abstract queue of TaskQueue.                              *)
(***************************************************************************)
EXTENDS Consumers, TLAPS

\* Below 2p the remainder is the number, less p if it has reached p: the
\* quotient is 0 or 1.
LEMMA ModBelowTwice ==
  ASSUME NEW p \in Nat \ {0}, NEW n \in Nat, n < p + p
  PROVE  n % p = IF n < p THEN n ELSE n - p
<1> DEFINE q == n \div p
           r == n % p
<1>1. n = (p * q) + r /\ r \in 0..(p - 1) /\ q \in Int
  BY Z3
<1>2. q >= 2 => p * q >= p + p
  BY <1>1, Z3
<1>3. q <= -1 => p * q <= -p
  BY <1>1, Z3
<1>4. p * q \in Int /\ (q = 0 => p * q = 0) /\ (q = 1 => p * q = p)
  BY <1>1, Z3
<1> HIDE DEF q, r
<1>5. q = 0 \/ q = 1
  BY <1>1, <1>2, <1>3, <1>4
<1>6. r = IF n < p THEN n ELSE n - p
  BY <1>1, <1>4, <1>5
<1> QED BY <1>6 DEF r

\* The slot i places after p, without the remainder.
LEMMA SlotAfter ==
  ASSUME NEW p \in Slot, NEW i \in 0..Capacity
  PROVE  (p + i) % Capacity = IF p + i < Capacity THEN p + i ELSE p + i - Capacity
<1> DEFINE n == p + i
<1>1. Capacity \in Nat \ {0} /\ n \in Nat /\ n < Capacity + Capacity
  BY ConsumersAssumption DEF Slot
<1> HIDE DEF n
<1>2. n % Capacity = IF n < Capacity THEN n ELSE n - Capacity
  BY <1>1, ModBelowTwice
<1>3. p \in Int /\ i \in Int /\ Capacity \in Int
  BY ConsumersAssumption DEF Slot
<1> QED BY <1>2, <1>3 DEF n

\* Slots at different places after p are different, and every place is a slot.
LEMMA SlotsDiffer ==
  ASSUME NEW p \in Slot
  PROVE  /\ \A i \in 0..(Capacity - 1) : (p + i) % Capacity \in Slot
         /\ \A i, j \in 0..(Capacity - 1) :
              (p + i) % Capacity = (p + j) % Capacity => i = j
         /\ (p + 1) % Capacity \in Slot
<1>1. \A i \in 0..Capacity :
        (p + i) % Capacity = IF p + i < Capacity THEN p + i ELSE p + i - Capacity
  BY SlotAfter
<1>2. Capacity \in Nat \ {0} /\ p \in 0..(Capacity - 1)
  BY ConsumersAssumption DEF Slot
<1> QED BY <1>1, <1>2 DEF Slot

\* Moving p on by one slot moves the places back by one; the slot that was
\* at p is now the last one.
LEMMA SlotsShift ==
  ASSUME NEW p \in Slot
  PROVE  /\ \A i \in 0..(Capacity - 2) :
              (((p + 1) % Capacity) + i) % Capacity = (p + (i + 1)) % Capacity
         /\ (((p + 1) % Capacity) + (Capacity - 1)) % Capacity = p
<1> DEFINE q == (p + 1) % Capacity
<1>1. Capacity \in Nat \ {0} /\ p \in 0..(Capacity - 1)
  BY ConsumersAssumption DEF Slot
<1>2. q = (IF p + 1 < Capacity THEN p + 1 ELSE p + 1 - Capacity) /\ q \in Slot
  BY <1>1, SlotAfter, SlotsDiffer
<1>3. \A i \in 0..Capacity :
        (p + i) % Capacity = IF p + i < Capacity THEN p + i ELSE p + i - Capacity
  BY SlotAfter
<1> HIDE DEF q
<1>4. \A i \in 0..Capacity :
        (q + i) % Capacity = IF q + i < Capacity THEN q + i ELSE q + i - Capacity
  BY <1>2, SlotAfter
<1>5. \A i \in 0..(Capacity - 2) : (q + i) % Capacity = (p + (i + 1)) % Capacity
  BY <1>1, <1>2, <1>3, <1>4
<1>6. (q + (Capacity - 1)) % Capacity = p
  BY <1>1, <1>2, <1>4
<1> QED BY <1>5, <1>6 DEF q

\* The place 0 after p is p.
LEMMA FirstSlot ==
  ASSUME NEW p \in Slot
  PROVE  (p + 0) % Capacity = p
<1>1. Capacity \in Nat \ {0} /\ p \in 0..(Capacity - 1) /\ 0 \in 0..Capacity
  BY ConsumersAssumption DEF Slot
<1>2. (p + 0) % Capacity = IF p + 0 < Capacity THEN p + 0 ELSE p + 0 - Capacity
  BY <1>1, SlotAfter
<1> QED BY <1>1, <1>2

\* A broadcast leaves nobody waiting and changes nobody else.
LEMMA WakeAllFacts ==
  ASSUME pc \in [Thread -> {"enter", "wait", "woken", "work", "idle"}]
  PROVE  /\ WakeAll \in [Thread -> {"enter", "woken", "work", "idle"}]
         /\ \A t \in Thread : WakeAll[t] = IF pc[t] = "wait" THEN "woken" ELSE pc[t]
BY DEF WakeAll

\* The queue starts empty and idle.
LEMMA InitHolds == Init => QueueInv
<1> SUFFICES ASSUME Init PROVE QueueInv
  OBVIOUS
<1> USE ConsumersAssumption DEF Init
<1>1. TypeOK
  BY DEF TypeOK, Slot, Thread
<1>2. NobodySleepsOnWork /\ TakenOnce
  BY DEF NobodySleepsOnWork, TakenOnce, Thread, NoItem
<1>3. PutCount = taken + length
  BY DEF PutCount, Thread
<1>4. \A i \in 0..(Capacity - 1) : (pos + i) % Capacity \in Slot
  BY SlotsDiffer DEF Slot
<1>5. RingHoldsBacklog
  BY <1>3, <1>4 DEF RingHoldsBacklog, NoItem
<1> QED BY <1>1, <1>2, <1>5 DEF QueueInv

\* Steps that leave the ring and the counts alone.
LEMMA RingUntouched ==
  ASSUME RingHoldsBacklog, UNCHANGED <<ring, taken>>, PutCount' = PutCount
  PROVE  RingHoldsBacklog'
BY DEF RingHoldsBacklog, ring

\* putData: the message goes into the slot after the last one.
LEMMA PutDataKeepsInv ==
  ASSUME QueueInv, PutData
  PROVE  QueueInv'
<1> USE ConsumersAssumption DEF QueueInv, PutData, AtLoop, Thread
<1> DEFINE s == (pos + length) % Capacity
<1>1. s \in Slot /\ length \in 0..(Capacity - 1) /\ Capacity \in Nat \ {0}
  <2>1. length \in 0..(Capacity - 1) /\ Capacity \in Nat \ {0} /\ pos \in Slot
    BY DEF TypeOK
  <2>2. \A i \in 0..(Capacity - 1) : (pos + i) % Capacity \in Slot
    BY <2>1, SlotsDiffer
  <2> QED BY <2>1, <2>2
<1>2. /\ WakeAll \in [Thread -> {"enter", "woken", "work", "idle"}]
      /\ \A t \in Thread : WakeAll[t] = IF pc[t] = "wait" THEN "woken" ELSE pc[t]
  BY WakeAllFacts DEF TypeOK
<1>3. received \in Message /\ received = taken + length + 1
  BY DEF TypeOK, TakenOnce, RingHoldsBacklog, PutCount, Message
<1>4. TypeOK'
  BY <1>1, <1>2, <1>3 DEF TypeOK
<1>5. NobodySleepsOnWork'
  BY <1>2 DEF NobodySleepsOnWork, TypeOK
<1>6. TakenOnce'
  BY <1>2 DEF TakenOnce, TypeOK
<1>7. PutCount' = taken' + length'
  BY <1>2, <1>3 DEF PutCount, TypeOK
<1>8. ASSUME NEW i \in 0..(Capacity - 1)
      PROVE  buf'[(pos + i) % Capacity] = IF i < length + 1 THEN taken + i + 1 ELSE NoItem
  <2>1. (pos + i) % Capacity \in Slot /\ ((pos + i) % Capacity = s <=> i = length)
    BY <1>1, SlotsDiffer DEF TypeOK
  <2>2. buf[(pos + i) % Capacity] = IF i < length THEN taken + i + 1 ELSE NoItem
    BY DEF RingHoldsBacklog
  <2>3. buf'[(pos + i) % Capacity] = IF i = length THEN received ELSE buf[(pos + i) % Capacity]
    BY <2>1 DEF TypeOK
  <2> QED BY <1>1, <1>3, <2>2, <2>3 DEF TypeOK
<1>9. RingHoldsBacklog'
  BY <1>7, <1>8 DEF RingHoldsBacklog
<1> QED BY <1>4, <1>5, <1>6, <1>9

\* getData: the oldest message leaves its slot, and the ring starts one on.
LEMMA GetDataKeepsInv ==
  ASSUME QueueInv, NEW c \in Consumer, GetData(c)
  PROVE  QueueInv'
<1> USE ConsumersAssumption DEF QueueInv, GetData, AtLoop, Thread
<1>1. pos \in Slot /\ length \in 1..Capacity /\ Capacity \in Nat \ {0} /\ pos' \in Slot
  BY SlotsDiffer DEF TypeOK
<1>2. /\ WakeAll \in [Thread -> {"enter", "woken", "work", "idle"}]
      /\ \A t \in Thread : WakeAll[t] = IF pc[t] = "wait" THEN "woken" ELSE pc[t]
  BY WakeAllFacts DEF TypeOK
<1>3. (pos + 0) % Capacity = pos
  BY <1>1, FirstSlot
<1>4. buf[pos] = taken + 1 /\ taken + 1 \in Message
  <2>1. buf[(pos + 0) % Capacity] = taken + 0 + 1
    BY <1>1 DEF RingHoldsBacklog
  <2>2. taken + length <= received /\ taken \in Nat
    BY DEF RingHoldsBacklog, PutCount, TypeOK
  <2> QED BY <1>1, <1>3, <2>1, <2>2 DEF TypeOK, Message
<1>5. TypeOK'
  BY <1>1, <1>2, <1>4 DEF TypeOK, Message
<1>6. NobodySleepsOnWork'
  BY <1>2 DEF NobodySleepsOnWork, TypeOK
<1>7. TakenOnce'
  <2>1. pc'[Producer] \in {"idle", "enter", "wait", "woken"}
        /\ (pc'[Producer] = "idle" <=> pc[Producer] = "idle")
    BY <1>2 DEF TakenOnce, TypeOK
  <2>2. taken \in Nat /\ taken' = taken + 1 /\ item'[c] = taken + 1 /\ pc'[c] = "work"
    BY <1>2, <1>4 DEF TypeOK
  <2>3. \A d \in Consumer : item[d] \in Nat /\ item[d] <= taken
    BY DEF TypeOK, TakenOnce, Message, NoItem
  <2>4. \A d \in Consumer \ {c} :
          /\ item'[d] = item[d] /\ pc'[d] # "idle"
          /\ pc'[d] = "work" <=> pc[d] = "work"
    BY <1>2 DEF TypeOK, TakenOnce
  <2>5. \A m \in finished : m \in Nat /\ m <= taken
    BY DEF TypeOK, TakenOnce, Message
  <2> QED BY <2>1, <2>2, <2>3, <2>4, <2>5 DEF TakenOnce, NoItem
<1>8. PutCount' = taken' + length'
  BY <1>1, <1>2 DEF PutCount, TypeOK, RingHoldsBacklog
<1>9. ASSUME NEW i \in 0..(Capacity - 1)
      PROVE  buf'[(pos' + i) % Capacity] = IF i < length - 1 THEN taken + 1 + i + 1 ELSE NoItem
  <2>1. CASE i = Capacity - 1
    <3>1. (pos' + i) % Capacity = pos
      BY <1>1, <2>1, SlotsShift
    <3> QED BY <1>1, <2>1, <3>1 DEF TypeOK
  <2>2. CASE i # Capacity - 1
    <3>1. (pos' + i) % Capacity = (pos + (i + 1)) % Capacity /\ i + 1 \in 0..(Capacity - 1)
      BY <1>1, <2>2, SlotsShift
    <3>2. (pos + (i + 1)) % Capacity \in Slot /\ (pos + (i + 1)) % Capacity # pos
      <4>1. \A j, k \in 0..(Capacity - 1) :
              (pos + j) % Capacity = (pos + k) % Capacity => j = k
        BY <1>1, SlotsDiffer
      <4>2. \A j \in 0..(Capacity - 1) : (pos + j) % Capacity \in Slot
        BY <1>1, SlotsDiffer
      <4>3. 0 \in 0..(Capacity - 1) /\ i + 1 # 0
        BY <1>1
      <4> QED BY <1>3, <3>1, <4>1, <4>2, <4>3
    <3>3. buf[(pos + (i + 1)) % Capacity] = IF i + 1 < length THEN taken + (i + 1) + 1 ELSE NoItem
      BY <3>1 DEF RingHoldsBacklog
    <3>4. buf'[(pos' + i) % Capacity] = buf[(pos + (i + 1)) % Capacity]
      BY <3>1, <3>2 DEF TypeOK
    <3> QED BY <1>1, <3>3, <3>4 DEF TypeOK
  <2> QED BY <2>1, <2>2
<1>10. RingHoldsBacklog'
  BY <1>8, <1>9 DEF RingHoldsBacklog
<1> QED BY <1>5, <1>6, <1>7, <1>10

\* The steps that do not touch the ring: waiting, waking up, working, reading.
LEMMA OthersKeepInv ==
  ASSUME QueueInv,
         \/ \E c \in Consumer : GetWaits(c) \/ WorkDone(c)
         \/ ReadMessage \/ PutWaits
         \/ \E t \in Thread : SpuriousWakeup(t)
  PROVE  QueueInv'
<1> USE ConsumersAssumption DEF QueueInv, Thread, ring
<1>1. ASSUME NEW c \in Consumer, GetWaits(c) PROVE QueueInv'
  <2> USE <1>1 DEF GetWaits, AtLoop
  <2>1. TypeOK' /\ NobodySleepsOnWork' /\ TakenOnce'
    BY DEF TypeOK, NobodySleepsOnWork, TakenOnce
  <2>2. PutCount' = PutCount
    BY DEF PutCount, TypeOK
  <2> QED BY <2>1, <2>2, RingUntouched
<1>2. ASSUME NEW c \in Consumer, WorkDone(c) PROVE QueueInv'
  <2> USE <1>2 DEF WorkDone
  <2>1. TypeOK' /\ NobodySleepsOnWork'
    BY DEF TypeOK, NobodySleepsOnWork, TakenOnce, NoItem
  <2>2. TakenOnce'
    BY DEF TypeOK, TakenOnce, NoItem
  <2>3. PutCount' = PutCount
    BY DEF PutCount, TypeOK
  <2> QED BY <2>1, <2>2, <2>3, RingUntouched
<1>3. CASE ReadMessage
  <2> USE <1>3 DEF ReadMessage
  <2>1. TypeOK' /\ NobodySleepsOnWork' /\ TakenOnce'
    BY DEF TypeOK, NobodySleepsOnWork, TakenOnce
  <2>2. PutCount' = PutCount
    BY DEF PutCount, TypeOK
  <2> QED BY <2>1, <2>2, RingUntouched
<1>4. CASE PutWaits
  <2> USE <1>4 DEF PutWaits, AtLoop
  <2>1. TypeOK' /\ NobodySleepsOnWork' /\ TakenOnce'
    BY DEF TypeOK, NobodySleepsOnWork, TakenOnce
  <2>2. PutCount' = PutCount
    BY DEF PutCount, TypeOK
  <2> QED BY <2>1, <2>2, RingUntouched
<1>5. ASSUME NEW t \in Thread, SpuriousWakeup(t) PROVE QueueInv'
  <2> USE <1>5 DEF SpuriousWakeup
  <2>1. TypeOK' /\ NobodySleepsOnWork' /\ TakenOnce'
    BY DEF TypeOK, NobodySleepsOnWork, TakenOnce
  <2>2. PutCount' = PutCount
    BY DEF PutCount, TypeOK
  <2> QED BY <2>1, <2>2, RingUntouched
<1> QED BY <1>1, <1>2, <1>3, <1>4, <1>5

\* Every step of every thread keeps the invariant.
LEMMA StepKeepsInv == QueueInv /\ [Next]_vars => QueueInv'
<1> SUFFICES ASSUME QueueInv, [Next]_vars PROVE QueueInv'
  OBVIOUS
<1>1. CASE UNCHANGED vars
  BY <1>1 DEF vars, ring, QueueInv, TypeOK, NobodySleepsOnWork, RingHoldsBacklog,
     PutCount, TakenOnce
<1>2. CASE Next
  BY <1>2, PutDataKeepsInv, GetDataKeepsInv, OthersKeepInv
     DEF Next, ConsumerStep, PutStep
<1> QED BY <1>1, <1>2

\* The inductive invariant holds in every reachable state.
THEOREM QueueInvariant == Spec => []QueueInv
BY InitHolds, StepKeepsInv, PTL DEF Spec

\* The indices of the ring stay in range, and so does its length.
THEOREM TypeCorrect == Spec => []TypeOK
<1>1. QueueInv => TypeOK
  BY DEF QueueInv
<1> QED BY <1>1, QueueInvariant, PTL

\* No wakeup is lost in putData and getData.
THEOREM NoLostWakeup == Spec => []NobodySleepsOnWork
<1>1. QueueInv => NobodySleepsOnWork
  BY DEF QueueInv
<1> QED BY <1>1, QueueInvariant, PTL

\* The ring holds the messages put and not taken, in order, after any number
\* of wraps.
THEOREM RingIsBacklog == Spec => []RingHoldsBacklog
<1>1. QueueInv => RingHoldsBacklog
  BY DEF QueueInv
<1> QED BY <1>1, QueueInvariant, PTL

-----------------------------------------------------------------------------
(* Refinement.                                                             *)

\* The abstract queue is the run of message numbers taken+1 .. taken+length.
BacklogRun ==
  /\ Backlog = [i \in 1..length |-> taken + i]
  /\ Backlog \in Seq(Nat) /\ Len(Backlog) = length
  /\ length \in Nat /\ taken \in Nat

\* The ring read from pos on is that run.
LEMMA BacklogIsRun == QueueInv => BacklogRun
<1> SUFFICES ASSUME QueueInv PROVE BacklogRun
  OBVIOUS
<1> USE ConsumersAssumption DEF QueueInv
<1>1. length \in 0..Capacity /\ taken \in Nat /\ pos \in Nat /\ Capacity \in Nat
  BY DEF TypeOK, Slot
<1>2. ASSUME NEW i \in 1..length
      PROVE  buf[(pos + i - 1) % Capacity] = taken + i
  <2>1. i - 1 \in 0..(Capacity - 1) /\ i - 1 < length /\ pos + (i - 1) = pos + i - 1
    BY <1>1
  <2>2. buf[(pos + (i - 1)) % Capacity] = taken + (i - 1) + 1
    BY <2>1 DEF RingHoldsBacklog
  <2> QED BY <1>1, <2>1, <2>2
<1>3. Backlog = [i \in 1..length |-> taken + i]
  BY <1>2 DEF Backlog
<1> QED BY <1>1, <1>3 DEF BacklogRun

\* The same of the next state.
LEMMA BacklogIsRunNext == QueueInv' => BacklogRun'
BY BacklogIsRun, PTL

\* putData implements TaskQueue's Put of the message just read.
LEMMA PutRefines ==
  ASSUME QueueInv, QueueInv', PutData
  PROVE  TQ!Put(received) /\ received \in Message
<1> USE ConsumersAssumption DEF QueueInv, PutData, AtLoop
<1>1. received = taken + length + 1 /\ received \in Message
  BY DEF TypeOK, TakenOnce, RingHoldsBacklog, PutCount, Message
<1>2. /\ Backlog = [i \in 1..length |-> taken + i] /\ Backlog \in Seq(Nat)
      /\ Len(Backlog) = length /\ length \in Nat /\ taken \in Nat
  BY BacklogIsRun DEF BacklogRun
<1>3. Backlog' = [i \in 1..(length + 1) |-> taken + i]
  BY BacklogIsRunNext, <1>2 DEF BacklogRun
<1>4. received \notin TQ!Known
  <2>1. \A i \in 1..Len(Backlog) : Backlog[i] # received
    BY <1>1, <1>2
  <2>2. \A c \in Consumer : item[c] # received
    <3>1. \A c \in Consumer : item[c] \in Nat /\ item[c] <= taken
      BY DEF TakenOnce, TypeOK, NoItem, Message
    <3> QED BY <1>1, <1>2, <3>1
  <2>3. received \notin finished
    BY <1>1, <1>2 DEF TakenOnce, TypeOK, Message
  <2> QED BY <2>1, <2>2, <2>3 DEF TQ!Known, TQ!Queued
<1>5. Backlog' = Append(Backlog, received)
  BY <1>1, <1>2, <1>3
<1>6. Len(Backlog) < Capacity
  BY <1>2 DEF TypeOK
<1> QED BY <1>1, <1>4, <1>5, <1>6 DEF TQ!Put

\* getData implements TaskQueue's Take.
LEMMA GetRefines ==
  ASSUME QueueInv, QueueInv', NEW c \in Consumer, GetData(c)
  PROVE  TQ!Take(c)
<1> USE ConsumersAssumption DEF QueueInv, GetData, AtLoop
<1>1. /\ Backlog = [i \in 1..length |-> taken + i] /\ Backlog \in Seq(Nat)
      /\ Len(Backlog) = length /\ length \in Nat \ {0} /\ taken \in Nat
  BY BacklogIsRun DEF BacklogRun
<1>2. Backlog' = [i \in 1..(length - 1) |-> taken + 1 + i]
  BY BacklogIsRunNext, <1>1 DEF BacklogRun
<1>3. buf[pos] = Head(Backlog)
  <2>1. (pos + 1 - 1) % Capacity = pos
    <3>1. pos \in Slot /\ pos \in Nat /\ pos + 1 - 1 = pos + 0
      BY DEF TypeOK, Slot
    <3> QED BY <3>1, FirstSlot
  <2>2. Backlog[1] = buf[pos]
    BY <1>1, <2>1 DEF Backlog
  <2> QED BY <1>1, <2>2
<1>4. Backlog' = Tail(Backlog)
  BY <1>1, <1>2
<1>5. item[c] = NoItem
  <2>1. pc[c] # "work"
    OBVIOUS
  <2> QED BY <2>1 DEF TakenOnce
<1>6. Backlog # <<>>
  BY <1>1
<1> QED BY <1>3, <1>4, <1>5, <1>6 DEF TQ!Take

\* putData and getData implement the abstract queue (its fairness is left to
\* the model checker): every message is queued once and taken once, in order.
THEOREM QueueRefines == Spec => TQ!SafeSpec
<1>1. Init => TQ!Init
  BY DEF Init, TQ!Init, Backlog
<1>2. ASSUME QueueInv, QueueInv', [Next]_vars
      PROVE  [TQ!Next]_(TQ!vars)
  <2>1. CASE PutData
    BY <1>2, <2>1, PutRefines DEF TQ!Next
  <2>2. ASSUME NEW c \in Consumer, GetData(c) PROVE TQ!Next
    BY <1>2, <2>2, GetRefines DEF TQ!Next
  <2>3. ASSUME NEW c \in Consumer, WorkDone(c) PROVE TQ!Next
    <3>1. item[c] # NoItem
      BY <1>2, <2>3 DEF WorkDone, QueueInv, TakenOnce
    <3>2. Backlog' = Backlog
      BY <2>3 DEF WorkDone, Backlog, ring
    <3> QED BY <2>3, <3>1, <3>2 DEF WorkDone, TQ!Next, TQ!Finish
  <2>4. CASE \/ \E c \in Consumer : GetWaits(c)
             \/ ReadMessage \/ PutWaits \/ \E t \in Thread : SpuriousWakeup(t)
             \/ UNCHANGED vars
    BY <2>4 DEF GetWaits, ReadMessage, PutWaits, SpuriousWakeup, vars, ring, TQ!vars, Backlog
  <2> QED BY <1>2, <2>1, <2>2, <2>3, <2>4 DEF Next, ConsumerStep, PutStep
<1> QED BY <1>1, <1>2, QueueInvariant, PTL DEF Spec, TQ!SafeSpec
=============================================================================
