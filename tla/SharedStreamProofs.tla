-------------------------- MODULE SharedStreamProofs --------------------------
(***************************************************************************)
(* What comes out of a connection that several threads write to, however   *)
(* the writes are mixed, cut and given up, with the lock and without it,   *)
(* for any number of writers, any number and length of messages.           *)
(*                                                                         *)
(* StreamInv is about the parts of one message each.  LinesInv adds where  *)
(* the parts of different messages stand: those of a message that no other *)
(* was written beside are next to each other, and only the last message of *)
(* the stream can be unfinished.  So the LF of such a message stands right *)
(* behind its CR, and only there a line can be relied on to end.           *)
(***************************************************************************)
EXTENDS SharedStream, FiniteSetTheorems, TLAPS

\* A message has one writer, and is not given up while it is written.
WritersInv ==
  /\ \A v, w \in Writer : msg[v] = msg[w] /\ v # w => msg[v] = None
  /\ \A w \in Writer : msg[w] # None => msg[w] \in 1..started /\ msg[w] \notin cut

\* No part is written twice, no part of a message is in the stream before
\* WriteSfd has counted it, and the last one not at all of a message that
\* was given up.
PartsInv ==
  /\ \A i, j \in 1..Len(stream) : stream[i] = stream[j] => i = j
  /\ \A i \in 1..Len(stream) :
       /\ stream[i][1] \in 1..started
       /\ stream[i][1] \in cut => stream[i][2] < Units
       /\ \A w \in Writer : msg[w] = stream[i][1] => stream[i][2] <= done[w]

\* A message that is neither being written nor was given up is complete.
EndInv ==
  \A m \in 1..started : m \notin cut /\ (\A w \in Writer : msg[w] # m) =>
    \E i \in 1..Len(stream) : stream[i] = <<m, Units>>

StreamInv == TypeOK /\ WritersInv /\ PartsInv /\ EndInv

-----------------------------------------------------------------------------
(* The invariant of the parts.                                                          *)

\* One list behind another.
LEMMA ConcatFacts ==
  ASSUME NEW S, NEW r \in Seq(S), NEW s \in Seq(S)
  PROVE  /\ r \o s \in Seq(S) /\ Len(r \o s) = Len(r) + Len(s) /\ Len(r) \in Nat /\ Len(s) \in Nat
         /\ \A k \in 1..Len(r) : (r \o s)[k] = r[k]
         /\ \A k \in 1..Len(s) : (r \o s)[Len(r) + k] = s[k]
OBVIOUS

\* It holds when nothing was written.
LEMMA InitStreamInv == Init => StreamInv
<1> SUFFICES ASSUME Init PROVE StreamInv
  OBVIOUS
<1>1. Len(stream) = 0 /\ 1..started = {} /\ stream \in Seq(Message \X (1..Units))
  BY DEF Init
<1>2. TypeOK
  BY <1>1, SharedStreamAssumption DEF Init, TypeOK
<1>3. WritersInv /\ PartsInv /\ EndInv
  BY <1>1 DEF Init, WritersInv, PartsInv, EndInv
<1> QED BY <1>2, <1>3 DEF StreamInv

\* A new message has nothing in the stream yet.
LEMMA StartMessageKeepsInv ==
  ASSUME StreamInv, NEW w \in Writer, StartMessage(w)
  PROVE  StreamInv'
<1>1. TypeOK /\ WritersInv /\ PartsInv /\ EndInv
  BY DEF StreamInv
<1>2. /\ started < MaxMessages /\ started' = started + 1
      /\ msg' = [msg EXCEPT ![w] = started + 1] /\ done' = [done EXCEPT ![w] = 0]
      /\ locked' = locked /\ stream' = stream /\ cut' = cut
      /\ lock' \in {lock, w}
      /\ beside' \subseteq beside \cup {started + 1} \cup {msg[v] : v \in Writing}
  BY DEF StartMessage, Acquire
<1>3. /\ started \in Nat /\ started + 1 \in Message /\ started' \in 0..MaxMessages
      /\ 1..started \subseteq 1..started' /\ started + 1 \notin 1..started
      /\ 1..started' = (1..started) \cup {started + 1} /\ None \notin 1..started'
  BY <1>1, <1>2, SharedStreamAssumption DEF TypeOK, Message, None
<1>4. msg \in [Writer -> Message \cup {None}] /\ done \in [Writer -> 0..(Units - 1)] /\ 0 \in 0..(Units - 1)
  BY <1>1, SharedStreamAssumption DEF TypeOK
<1>5. /\ msg' \in [Writer -> Message \cup {None}] /\ msg'[w] = started + 1
      /\ done' \in [Writer -> 0..(Units - 1)] /\ done'[w] = 0
      /\ \A v \in Writer : v # w => msg'[v] = msg[v] /\ done'[v] = done[v]
  BY <1>2, <1>3, <1>4
<1>6. beside' \subseteq 1..started'
  <2>1. beside \subseteq 1..started
    BY <1>1 DEF TypeOK
  <2>2. {msg[v] : v \in Writing} \subseteq 1..started
    BY <1>1 DEF WritersInv, Writing
  <2> QED BY <1>2, <1>3, <2>1, <2>2
<1>7. TypeOK'
  BY <1>1, <1>2, <1>3, <1>5, <1>6 DEF TypeOK
<1>8. \A v \in Writer : v # w /\ msg[v] # None => msg'[v] \in 1..started
  BY <1>1, <1>5 DEF WritersInv
<1>9. cut \subseteq 1..started
  BY <1>1 DEF TypeOK
<1>10. WritersInv'
  BY <1>1, <1>2, <1>3, <1>5, <1>8, <1>9 DEF WritersInv
<1>11. PartsInv'
  <2>1. \A i \in 1..Len(stream) : stream[i][1] # started + 1
    BY <1>1, <1>3 DEF PartsInv
  <2> QED BY <1>1, <1>2, <1>3, <1>5, <2>1 DEF PartsInv
<1>12. EndInv'
  <2> SUFFICES ASSUME NEW m \in 1..started', m \notin cut', \A v \in Writer : msg'[v] # m
               PROVE  \E i \in 1..Len(stream) : stream[i] = <<m, Units>>
    BY <1>2 DEF EndInv
  <2>1. m \in 1..started
    BY <1>3, <1>5
  <2>2. m \notin cut /\ \A v \in Writer : v # w => msg[v] # m
    BY <1>2, <1>5
  <2>3. msg[w] = None
    BY DEF StartMessage
  <2> QED BY <1>1, <1>3, <2>1, <2>2, <2>3 DEF EndInv
<1> QED BY <1>7, <1>10, <1>11, <1>12 DEF StreamInv

\* What a write() does to the stream: the next parts of its message behind
\* what is there.
LEMMA PartsAppended ==
  ASSUME StreamInv, NEW w \in Writer, NEW len \in 1..Units, WritePart(w, len)
  PROVE  /\ msg[w] \in 1..started /\ msg[w] \in Message /\ msg[w] # None /\ msg[w] \notin cut
         /\ None \notin 1..started
         /\ done[w] \in Nat /\ done[w] < Units /\ done[w] + len <= Units
         /\ len \in Nat \ {0} /\ Units \in Nat
         /\ Len(stream) \in Nat /\ Len(stream') = Len(stream) + len
         /\ stream' \in Seq(Message \X (1..Units))
         /\ \A i \in 1..Len(stream) : stream[i] \in Message \X (1..Units) /\ stream[i][2] \in Nat
         /\ \A i \in 1..Len(stream) : stream'[i] = stream[i]
         /\ \A k \in 1..len : stream'[Len(stream) + k] = <<msg[w], done[w] + k>>
         /\ \A i \in 1..Len(stream') :
              \/ i \in 1..Len(stream) /\ stream'[i] = stream[i]
              \/ \E k \in 1..len : /\ i = Len(stream) + k
                                  /\ stream'[i] = <<msg[w], done[w] + k>>
<1> DEFINE m == msg[w]
           d == done[w]
           n == Len(stream)
<1>0. TypeOK /\ WritersInv /\ PartsInv /\ EndInv
  BY DEF StreamInv
<1>1. /\ m \in 1..started /\ m \in Message /\ m # None /\ m \notin cut /\ None \notin 1..started
      /\ d \in Nat /\ d < Units /\ d + len <= Units /\ len \in Nat \ {0} /\ Units \in Nat
  BY <1>0, SharedStreamAssumption DEF TypeOK, WritersInv, WritePart, None
<1>2. stream' = stream \o Parts(w, len)
  BY DEF WritePart
<1>3. /\ Parts(w, len) \in Seq(Message \X (1..Units)) /\ Len(Parts(w, len)) = len
      /\ \A k \in 1..len : Parts(w, len)[k] = <<m, d + k>>
  <2>1. \A k \in 1..len : d + k \in 1..Units
    BY <1>1
  <2>2. Parts(w, len) \in [1..len -> Message \X (1..Units)]
    BY <1>1, <2>1 DEF Parts
  <2> QED BY <1>1, <2>2 DEF Parts
<1>4. /\ stream \in Seq(Message \X (1..Units)) /\ n \in Nat
      /\ \A i \in 1..n : stream[i] \in Message \X (1..Units) /\ stream[i][2] \in Nat
  BY <1>0 DEF TypeOK
<1> HIDE DEF m, d
<1>5. /\ stream' \in Seq(Message \X (1..Units)) /\ Len(stream') = n + len
      /\ \A i \in 1..n : stream'[i] = stream[i]
      /\ \A k \in 1..len : stream'[n + k] = <<m, d + k>>
  <2> DEFINE S == Message \X (1..Units)
             P == Parts(w, len)
  <2>1. stream \in Seq(S) /\ P \in Seq(S)
    BY <1>3, <1>4
  <2> HIDE DEF S, P
  <2>2. /\ stream \o P \in Seq(S) /\ Len(stream \o P) = n + Len(P)
        /\ \A i \in 1..n : (stream \o P)[i] = stream[i]
        /\ \A k \in 1..Len(P) : (stream \o P)[n + k] = P[k]
    BY <2>1, ConcatFacts
  <2> QED BY <1>2, <1>3, <2>2 DEF S, P
<1> HIDE DEF n
<1>6. \A i \in 1..Len(stream') :
        \/ i \in 1..n /\ stream'[i] = stream[i]
        \/ \E k \in 1..len : i = n + k /\ stream'[i] = <<m, d + k>>
  <2> SUFFICES ASSUME NEW i \in 1..Len(stream'), i \notin 1..n
               PROVE  \E k \in 1..len : i = n + k /\ stream'[i] = <<m, d + k>>
    BY <1>5
  <2>1. i - n \in 1..len /\ i = n + (i - n)
    BY <1>1, <1>4, <1>5
  <2> QED BY <1>5, <2>1
<1> QED BY <1>1, <1>4, <1>5, <1>6 DEF m, d, n

\* The parts that a write() takes are the next ones of its message.
LEMMA WritePartKeepsInv ==
  ASSUME StreamInv, NEW w \in Writer, NEW len \in 1..Units, WritePart(w, len)
  PROVE  StreamInv'
<1> DEFINE m == msg[w]
           d == done[w]
           n == Len(stream)
<1>0. TypeOK /\ WritersInv /\ PartsInv /\ EndInv
  BY DEF StreamInv
<1>1. /\ m \in 1..started /\ m \in Message /\ m # None /\ m \notin cut /\ None \notin 1..started
      /\ d \in Nat /\ d < Units /\ d + len <= Units /\ len \in Nat \ {0} /\ Units \in Nat
  BY PartsAppended
<1>2. started' = started /\ cut' = cut /\ locked' = locked /\ beside' = beside
  BY DEF WritePart
<1>4. /\ n \in Nat
      /\ \A i \in 1..n : stream[i] \in Message \X (1..Units) /\ stream[i][2] \in Nat
  BY PartsAppended
<1>5. /\ stream' \in Seq(Message \X (1..Units)) /\ Len(stream') = n + len
      /\ \A i \in 1..n : stream'[i] = stream[i]
      /\ \A k \in 1..len : stream'[n + k] = <<m, d + k>>
  BY PartsAppended
<1>6. \A i \in 1..Len(stream') :
        \/ i \in 1..n /\ stream'[i] = stream[i]
        \/ \E k \in 1..len : i = n + k /\ stream'[i] = <<m, d + k>>
  <2> HIDE DEF m, d, n
  <2> SUFFICES ASSUME NEW i \in 1..Len(stream'), i \notin 1..n
               PROVE  \E k \in 1..len : i = n + k /\ stream'[i] = <<m, d + k>>
    BY <1>1, <1>4, <1>5
  <2>1. i - n \in 1..len /\ i = n + (i - n)
    BY <1>1, <1>4, <1>5
  <2> QED BY <1>1, <1>4, <1>5, <2>1
<1> HIDE DEF m, d, n
<1>7. 1..n \subseteq 1..Len(stream') /\ n + len \in 1..Len(stream') /\ 1..n = 1..Len(stream)
  BY <1>1, <1>4, <1>5 DEF n
<1>8. \A i \in 1..n : stream[i][1] = m => stream[i][2] <= d
  BY <1>0, <1>7 DEF PartsInv, m, d
<1>9. \A i, j \in 1..Len(stream') : stream'[i] = stream'[j] => i = j
  <2> SUFFICES ASSUME NEW i \in 1..Len(stream'), NEW j \in 1..Len(stream'),
                      stream'[i] = stream'[j]
               PROVE  i = j
    OBVIOUS
  <2>1. ASSUME NEW a \in 1..n, NEW k \in 1..len PROVE stream[a] # <<m, d + k>>
    <3>1. d + k > d /\ d + k \in Nat
      BY <1>1
    <3>2. stream[a] = <<m, d + k>> => stream[a][1] = m /\ stream[a][2] = d + k
      OBVIOUS
    <3> QED BY <1>1, <1>4, <1>8, <3>1, <3>2
  <2>2. CASE i \in 1..n /\ j \in 1..n
    BY <1>0, <1>5, <1>7, <2>2 DEF PartsInv
  <2>3. CASE i \notin 1..n /\ j \notin 1..n
    <3>1. PICK k \in 1..len : i = n + k /\ stream'[i] = <<m, d + k>>
      BY <1>6, <2>3
    <3>2. PICK l \in 1..len : j = n + l /\ stream'[j] = <<m, d + l>>
      BY <1>6, <2>3
    <3>3. d + k = d + l
      BY <3>1, <3>2
    <3>4. k = l
      BY <1>1, <3>3
    <3> QED BY <3>1, <3>2, <3>4
  <2>4. ASSUME NEW a \in 1..n, NEW b \in 1..Len(stream'), b \notin 1..n
        PROVE  stream'[a] # stream'[b]
    <3>1. PICK k \in 1..len : stream'[b] = <<m, d + k>>
      BY <1>6, <2>4
    <3> QED BY <1>5, <2>1, <3>1
  <2> QED BY <2>2, <2>3, <2>4
<1>10. lock' \in Writer \cup {Nobody}
  BY <1>0 DEF TypeOK, Release, WritePart
<1>11. msg \in [Writer -> Message \cup {None}] /\ done \in [Writer -> 0..(Units - 1)]
  BY <1>0 DEF TypeOK
<1>12. CASE d + len = Units
  <2>1. msg' = [msg EXCEPT ![w] = None] /\ done' = [done EXCEPT ![w] = 0]
    BY <1>12 DEF WritePart, d
  <2>2. /\ msg' \in [Writer -> Message \cup {None}] /\ msg'[w] = None
        /\ done' \in [Writer -> 0..(Units - 1)]
        /\ \A v \in Writer : v # w => msg'[v] = msg[v] /\ done'[v] = done[v]
    BY <1>1, <1>11, <2>1
  <2>3. TypeOK'
    BY <1>0, <1>2, <1>5, <1>10, <2>2 DEF TypeOK
  <2>4. WritersInv'
    BY <1>0, <1>2, <2>2 DEF WritersInv
  <2>5. ASSUME NEW i \in 1..Len(stream')
        PROVE  /\ stream'[i][1] \in 1..started
               /\ stream'[i][1] \in cut => stream'[i][2] < Units
               /\ \A v \in Writer : msg'[v] = stream'[i][1] => stream'[i][2] <= done'[v]
    <3>1. CASE i \in 1..n /\ stream'[i] = stream[i]
      BY <1>0, <1>1, <1>7, <2>2, <3>1 DEF PartsInv
    <3>2. CASE i \notin 1..n
      <4>1. stream'[i][1] = m
        BY <1>6, <3>2
      <4>2. \A v \in Writer : msg'[v] # m
        BY <1>0, <1>1, <2>2 DEF WritersInv, m
      <4> QED BY <1>1, <4>1, <4>2
    <3> QED BY <1>5, <3>1, <3>2
  <2>6. PartsInv'
    BY <1>2, <1>9, <2>5 DEF PartsInv
  <2>7. stream'[n + len] = <<m, Units>>
    <3>1. len \in 1..len
      BY <1>1
    <3> QED BY <1>5, <1>12, <3>1
  <2>8. EndInv'
    <3> SUFFICES ASSUME NEW k \in 1..started, k \notin cut, \A v \in Writer : msg'[v] # k
                 PROVE  \E i \in 1..Len(stream') : stream'[i] = <<k, Units>>
      BY <1>2 DEF EndInv
    <3>1. CASE k = m
      BY <1>7, <2>7, <3>1
    <3>2. CASE k # m
      <4>1. \A v \in Writer : msg[v] # k
        BY <2>2, <3>2 DEF m
      <4> QED BY <1>0, <1>5, <1>7, <4>1 DEF EndInv
    <3> QED BY <3>1, <3>2
  <2> QED BY <2>3, <2>4, <2>6, <2>8 DEF StreamInv
<1>13. CASE d + len # Units
  <2>1. msg' = msg /\ done' = [done EXCEPT ![w] = d + len]
    BY <1>13 DEF WritePart, d
  <2>2. d + len \in 0..(Units - 1)
    BY <1>1, <1>13
  <2>3. /\ done' \in [Writer -> 0..(Units - 1)] /\ done'[w] = d + len
        /\ \A v \in Writer : v # w => done'[v] = done[v]
    BY <1>11, <2>1, <2>2
  <2>4. TypeOK'
    BY <1>0, <1>2, <1>5, <1>10, <2>1, <2>3 DEF TypeOK
  <2>5. WritersInv'
    BY <1>0, <1>2, <2>1 DEF WritersInv
  <2>6. ASSUME NEW i \in 1..Len(stream')
        PROVE  /\ stream'[i][1] \in 1..started
               /\ stream'[i][1] \in cut => stream'[i][2] < Units
               /\ \A v \in Writer : msg[v] = stream'[i][1] => stream'[i][2] <= done'[v]
    <3>1. CASE i \in 1..n /\ stream'[i] = stream[i]
      <4>1. \A v \in Writer : done[v] <= done'[v] /\ done[v] \in Nat /\ done'[v] \in Nat
        BY <1>1, <1>11, <2>3 DEF d
      <4>2. \A v \in Writer : msg[v] = stream[i][1] => stream[i][2] <= done[v]
        BY <1>0, <1>7, <3>1 DEF PartsInv
      <4>3. \A v \in Writer : msg[v] = stream[i][1] => stream[i][2] <= done'[v]
        BY <1>4, <3>1, <4>1, <4>2
      <4> QED BY <1>0, <1>7, <3>1, <4>3 DEF PartsInv
    <3>2. CASE i \notin 1..n
      <4>1. PICK k \in 1..len : stream'[i] = <<m, d + k>>
        BY <1>6, <3>2
      <4>2. stream'[i][1] = m /\ stream'[i][2] <= done'[w]
        BY <1>1, <2>3, <4>1
      <4>3. \A v \in Writer : msg[v] = m => v = w
        BY <1>0, <1>1 DEF WritersInv, m
      <4> QED BY <1>1, <4>2, <4>3
    <3> QED BY <1>5, <3>1, <3>2
  <2>7. PartsInv'
    BY <1>2, <1>9, <2>1, <2>6 DEF PartsInv
  <2>8. EndInv'
    BY <1>0, <1>2, <1>5, <1>7, <2>1 DEF EndInv
  <2> QED BY <2>4, <2>5, <2>7, <2>8 DEF StreamInv
<1> QED BY <1>12, <1>13

\* What is given up is not complete.
LEMMA WriteTimesOutKeepsInv ==
  ASSUME StreamInv, NEW w \in Writer, WriteTimesOut(w)
  PROVE  StreamInv'
<1> USE DEF StreamInv, WriteTimesOut
<1>1. /\ msg' \in [Writer -> Message \cup {None}] /\ msg'[w] = None
      /\ done' \in [Writer -> 0..(Units - 1)]
      /\ \A v \in Writer : v # w => msg'[v] = msg[v] /\ done'[v] = done[v]
      /\ msg[w] \in 1..started /\ done[w] \in Nat /\ done[w] < Units /\ Units \in Nat
  BY SharedStreamAssumption DEF TypeOK, WritersInv
<1>2. lock' \in Writer \cup {Nobody}
  BY DEF TypeOK, Release
<1>3. TypeOK'
  BY <1>1, <1>2 DEF TypeOK
<1>4. WritersInv'
  BY <1>1 DEF WritersInv
<1>5. \A i \in 1..Len(stream) : stream[i][2] \in Nat /\ stream[i][1] \in 1..started
  BY DEF TypeOK, PartsInv
<1>6. \A i \in 1..Len(stream) : stream[i][1] = msg[w] => stream[i][2] < Units
  <2>1. \A i \in 1..Len(stream) : stream[i][1] = msg[w] => stream[i][2] <= done[w]
    BY DEF PartsInv
  <2> QED BY <1>1, <1>5, <2>1
<1>7. None \notin 1..started
  BY DEF None
<1>8. PartsInv'
  BY <1>1, <1>5, <1>6, <1>7 DEF PartsInv
<1>9. EndInv'
  BY <1>1 DEF EndInv
<1> QED BY <1>3, <1>4, <1>8, <1>9

\* So does every step.
LEMMA StepKeepsStreamInv == StreamInv /\ [Next]_vars => StreamInv'
<1> SUFFICES ASSUME StreamInv, [Next]_vars PROVE StreamInv'
  OBVIOUS
<1>1. ASSUME NEW w \in Writer, StartMessage(w) PROVE StreamInv'
  BY <1>1, StartMessageKeepsInv
<1>2. ASSUME NEW w \in Writer, WriteTimesOut(w) PROVE StreamInv'
  BY <1>2, WriteTimesOutKeepsInv
<1>3. ASSUME NEW w \in Writer, NEW len \in 1..Units, WritePart(w, len) PROVE StreamInv'
  BY <1>3, WritePartKeepsInv
<1>4. CASE UNCHANGED vars
  BY <1>4 DEF vars, StreamInv, TypeOK, WritersInv, PartsInv, EndInv
<1> QED BY <1>1, <1>2, <1>3, <1>4 DEF Next

-----------------------------------------------------------------------------
(* The invariant of the lines.                                             *)

\* Who holds the lock writes alone, and so does whoever is not in `beside'.
BesideInv ==
  /\ locked => beside = {} /\ \A w \in Writer : msg[w] # None => lock = w
  /\ \A v, w \in Writer : v # w /\ msg[v] # None /\ msg[w] # None => msg[v] \in beside

\* The parts of a message come in their order.
OrderInv ==
  \A i, j \in 1..Len(stream) :
    i < j /\ stream[i][1] = stream[j][1] => stream[i][2] < stream[j][2]

\* Those of a message that was written alone stand next to each other.
RunInv ==
  /\ \A i \in 1..Len(stream) : stream[i][1] \notin beside =>
       /\ stream[i][2] <= i
       /\ \A k \in 1..stream[i][2] : stream[i - stream[i][2] + k] = <<stream[i][1], k>>
  /\ \A w \in Writer : msg[w] # None /\ msg[w] \notin beside /\ done[w] > 0 =>
       Len(stream) > 0 /\ stream[Len(stream)] = <<msg[w], done[w]>>

\* Such a message never stands between parts of another one.
MixInv ==
  /\ \A i, j, k \in 1..Len(stream) :
       i < j /\ j < k /\ stream[i][1] = stream[k][1] /\ stream[j][1] # stream[i][1]
       => stream[j][1] \in beside
  /\ \A w \in Writer : \A i, j \in 1..Len(stream) :
       i < j /\ stream[i][1] = msg[w] /\ stream[j][1] # msg[w] => stream[j][1] \in beside

\* Of the CRLFs before a place one is the last.
LastEnd(E, i) ==
  \/ \A j \in E : ~(j < i)
  \/ \E j \in E : j < i /\ \A k \in E : k < i => k <= j

EndsInv == \A i \in 1..(Len(stream) + 1) : LastEnd(LineEnds, i)

LinesInv == BesideInv /\ OrderInv /\ RunInv /\ MixInv /\ EndsInv

\* It holds when nothing was written.
LEMMA InitLinesInv == Init => LinesInv
<1> SUFFICES ASSUME Init PROVE LinesInv
  OBVIOUS
<1>1. Len(stream) = 0 /\ 1..Len(stream) = {}
  BY DEF Init
<1>2. BesideInv /\ OrderInv /\ RunInv /\ MixInv
  BY <1>1 DEF Init, BesideInv, OrderInv, RunInv, MixInv
<1>3. EndsInv
  BY <1>1 DEF EndsInv, LastEnd, LineEnds
<1> QED BY <1>2, <1>3 DEF LinesInv

\* A new message has no part in the stream; if it is not alone, nobody is.
LEMMA StartMessageKeepsLines ==
  ASSUME StreamInv, LinesInv, NEW w \in Writer, StartMessage(w)
  PROVE  LinesInv'
<1> USE DEF StreamInv, LinesInv
<1>1. /\ msg[w] = None
      /\ msg' = [msg EXCEPT ![w] = started + 1] /\ done' = [done EXCEPT ![w] = 0]
      /\ locked' = locked /\ stream' = stream
      /\ beside' = IF Writing = {} THEN beside
                   ELSE beside \cup {started + 1} \cup {msg[v] : v \in Writing}
      /\ IF locked THEN lock = Nobody /\ lock' = w ELSE lock' = lock
  BY DEF StartMessage, Acquire
<1>2. /\ started \in Nat /\ started + 1 # None /\ started + 1 \notin 1..started
      /\ msg'[w] = started + 1 /\ done'[w] = 0
      /\ \A v \in Writer : v # w => msg'[v] = msg[v] /\ done'[v] = done[v]
  BY <1>1, SharedStreamAssumption DEF TypeOK, None
<1>3. beside \subseteq beside'
  BY <1>1
<1>4. \A i \in 1..Len(stream) : stream[i][1] # started + 1
  BY <1>2 DEF PartsInv
<1>5. BesideInv'
  <2>1. locked => Writing = {}
    BY <1>1, SharedStreamAssumption DEF BesideInv, Writing
  <2>2. locked' => beside' = {} /\ \A v \in Writer : msg'[v] # None => lock' = v
    BY <1>1, <1>2, <2>1 DEF BesideInv, Writing
  <2>3. ASSUME NEW u \in Writer, NEW v \in Writer, u # v, msg'[u] # None, msg'[v] # None
        PROVE  msg'[u] \in beside'
    <3>1. CASE u = w
      <4>1. v \in Writing
        BY <1>2, <2>3, <3>1 DEF Writing
      <4> QED BY <1>1, <1>2, <3>1, <4>1
    <3>2. CASE u # w
      <4>1. u \in Writing /\ msg'[u] = msg[u]
        BY <1>2, <2>3, <3>2 DEF Writing
      <4> QED BY <1>1, <4>1
    <3> QED BY <3>1, <3>2
  <2> QED BY <2>2, <2>3 DEF BesideInv
<1>6. OrderInv'
  BY <1>1 DEF OrderInv
<1>7. RunInv'
  <2>1. \A i \in 1..Len(stream) : stream[i][1] \notin beside' => stream[i][1] \notin beside
    BY <1>3
  <2>2. \A v \in Writer : msg'[v] # None /\ msg'[v] \notin beside' /\ done'[v] > 0 =>
          msg'[v] = msg[v] /\ done'[v] = done[v] /\ msg[v] \notin beside
    BY <1>2, <1>3
  <2> QED BY <1>1, <2>1, <2>2 DEF RunInv
<1>8. MixInv'
  <2>1. \A v \in Writer, i \in 1..Len(stream) : stream[i][1] = msg'[v] => msg'[v] = msg[v]
    BY <1>2, <1>4
  <2> QED BY <1>1, <1>3, <2>1 DEF MixInv
<1>9. EndsInv'
  BY <1>1 DEF EndsInv, LineEnds
<1> QED BY <1>5, <1>6, <1>7, <1>8, <1>9

\* The new parts follow the earlier ones of their message, directly if it is
\* written alone.
LEMMA WritePartKeepsLines ==
  ASSUME StreamInv, LinesInv, NEW w \in Writer, NEW len \in 1..Units, WritePart(w, len)
  PROVE  LinesInv'
<1> DEFINE m == msg[w]
           d == done[w]
           n == Len(stream)
<1>0. /\ TypeOK /\ WritersInv /\ PartsInv
      /\ BesideInv /\ OrderInv /\ RunInv /\ MixInv /\ EndsInv
  BY DEF StreamInv, LinesInv
<1>1. /\ m \in 1..started /\ m # None /\ None \notin 1..started
      /\ d \in Nat /\ d < Units /\ d + len <= Units /\ len \in Nat \ {0} /\ Units \in Nat
      /\ n \in Nat /\ Len(stream') = n + len
  BY PartsAppended
<1>2. /\ \A i \in 1..n : stream[i][1] \in Message /\ stream[i][2] \in 1..Units
      /\ \A i \in 1..n : stream'[i] = stream[i]
      /\ \A k \in 1..len : stream'[n + k] = <<m, d + k>>
  BY PartsAppended
<1>3. \A i \in 1..Len(stream') :
        \/ i \in 1..n /\ stream'[i] = stream[i]
        \/ \E k \in 1..len : i = n + k /\ stream'[i] = <<m, d + k>>
  <2> HIDE DEF m, d, n
  <2> SUFFICES ASSUME NEW i \in 1..Len(stream'), i \notin 1..n
               PROVE  \E k \in 1..len : i = n + k /\ stream'[i] = <<m, d + k>>
    BY <1>1, <1>2
  <2>1. i - n \in 1..len /\ i = n + (i - n)
    BY <1>1, <1>2
  <2> QED BY <1>1, <1>2, <2>1
<1>4. /\ beside' = beside /\ locked' = locked
      /\ \/ /\ d + len = Units
            /\ msg' = [msg EXCEPT ![w] = None] /\ done' = [done EXCEPT ![w] = 0]
            /\ lock' = IF locked THEN Nobody ELSE lock
         \/ /\ d + len # Units
            /\ msg' = msg /\ done' = [done EXCEPT ![w] = d + len]
            /\ lock' = lock
  BY DEF WritePart, Release
<1>5. /\ \A v \in Writer : v # w => msg'[v] = msg[v] /\ done'[v] = done[v]
      /\ msg'[w] = m \/ msg'[w] = None
      /\ msg'[w] # None => done'[w] = d + len
      /\ \A v \in Writer : msg'[v] # None => msg[v] # None /\ msg'[v] = msg[v]
  <2>1. /\ msg \in [Writer -> Message \cup {None}]
        /\ done \in [Writer -> 0..(Units - 1)]
    BY <1>0 DEF TypeOK
  <2>2. \A v \in Writer : v # w => msg'[v] = msg[v] /\ done'[v] = done[v]
    BY <1>4, <2>1
  <2>3. msg'[w] = m \/ msg'[w] = None
    BY <1>4, <2>1
  <2>4. msg'[w] # None => done'[w] = d + len
    BY <1>4, <2>1
  <2> QED BY <1>1, <2>2, <2>3, <2>4
<1>6. \A i \in 1..n : stream[i][1] = m => stream[i][2] <= d
  BY <1>0 DEF PartsInv
<1> HIDE DEF m, d, n
<1>7. BesideInv'
  <2>1. locked => \A v \in Writer : msg'[v] # None => msg[v] # None /\ lock' = v
    <3> SUFFICES ASSUME locked, NEW v \in Writer, msg'[v] # None
                 PROVE  msg[v] # None /\ lock' = v
      OBVIOUS
    <3>1. lock = w
      BY <1>0, <1>1 DEF BesideInv, m
    <3>2. msg[v] # None
      BY <1>1, <1>5 DEF m
    <3>3. v = w
      BY <1>0, <3>1, <3>2 DEF BesideInv
    <3>4. msg' = msg /\ lock' = lock
      BY <1>0, <1>4, <3>3 DEF TypeOK
    <3> QED BY <3>1, <3>2, <3>3, <3>4
  <2>2. ASSUME NEW u \in Writer, NEW v \in Writer, u # v, msg'[u] # None, msg'[v] # None
        PROVE  msg'[u] \in beside'
    <3>1. msg'[u] = msg[u] /\ msg[u] # None /\ msg[v] # None
      BY <1>5, <2>2
    <3> QED BY <1>0, <1>4, <2>2, <3>1 DEF BesideInv
  <2> QED BY <1>0, <1>4, <2>1, <2>2 DEF BesideInv
<1>8. OrderInv'
  <2> SUFFICES ASSUME NEW i \in 1..Len(stream'), NEW j \in 1..Len(stream'), i < j,
                      stream'[i][1] = stream'[j][1]
               PROVE  stream'[i][2] < stream'[j][2]
    BY DEF OrderInv
  <2>1. CASE j \in 1..n
    <3>1. i \in 1..n
      BY <1>1, <2>1
    <3> QED BY <1>0, <1>2, <2>1, <3>1 DEF OrderInv, n
  <2>2. CASE j \notin 1..n
    <3>1. PICK l \in 1..len : j = n + l /\ stream'[j] = <<m, d + l>>
      BY <1>3, <2>2
    <3>2. CASE i \in 1..n
      <4>1. stream'[i] = stream[i] /\ stream[i][1] = m
        BY <1>2, <3>1, <3>2
      <4>2. stream[i][2] <= d /\ stream[i][2] \in Nat
        BY <1>2, <1>6, <3>2, <4>1
      <4>3. stream[i][2] < d + l
        BY <1>1, <4>2
      <4> QED BY <3>1, <4>1, <4>3
    <3>3. CASE i \notin 1..n
      <4>1. PICK k \in 1..len : i = n + k /\ stream'[i] = <<m, d + k>>
        BY <1>3, <3>3
      <4>2. d + k < d + l
        BY <1>1, <3>1, <4>1
      <4> QED BY <3>1, <4>1, <4>2
    <3> QED BY <3>2, <3>3
  <2> QED BY <2>1, <2>2
<1>9. m \notin beside /\ d > 0 => n > 0 /\ stream[n] = <<m, d>>
  BY <1>0, <1>1 DEF RunInv, m, d, n
<1>10. RunInv'
  <2>1. ASSUME NEW i \in 1..Len(stream'), stream'[i][1] \notin beside
        PROVE  /\ stream'[i][2] <= i
               /\ \A k \in 1..stream'[i][2] : stream'[i - stream'[i][2] + k] = <<stream'[i][1], k>>
    <3>1. CASE i \in 1..n
      <4> DEFINE p == stream[i][2]
      <4>1. stream'[i] = stream[i] /\ p \in Nat /\ stream[i][1] \notin beside
        BY <1>2, <2>1, <3>1
      <4>2. p <= i /\ \A k \in 1..p : stream[i - p + k] = <<stream[i][1], k>>
        BY <1>0, <3>1, <4>1 DEF RunInv, n
      <4> HIDE DEF p
      <4>3. \A k \in 1..p : i - p + k \in 1..n
        BY <1>1, <3>1, <4>1, <4>2
      <4>4. \A k \in 1..p : stream'[i - p + k] = <<stream[i][1], k>>
        BY <1>2, <4>2, <4>3
      <4> QED BY <4>1, <4>2, <4>4 DEF p
    <3>2. CASE i \notin 1..n
      <4>1. PICK l \in 1..len : i = n + l /\ stream'[i] = <<m, d + l>>
        BY <1>3, <3>2
      <4>2. d > 0 => /\ n > 0 /\ stream[n] = <<m, d>> /\ d <= n
                     /\ \A k \in 1..d : stream[n - d + k] = <<m, k>>
        <5> SUFFICES ASSUME d > 0
                     PROVE  /\ n > 0 /\ stream[n] = <<m, d>> /\ d <= n
                            /\ \A k \in 1..d : stream[n - d + k] = <<m, k>>
          OBVIOUS
        <5>1. m \notin beside
          BY <2>1, <4>1
        <5>2. n > 0 /\ stream[n] = <<m, d>> /\ n \in 1..n
          BY <1>1, <1>9, <5>1
        <5>3. stream[n][1] = m /\ stream[n][2] = d
          BY <5>2
        <5> QED BY <1>0, <5>1, <5>2, <5>3 DEF RunInv, n
      <4>3. d + l <= n + l
        BY <1>1, <4>2
      <4>4. ASSUME NEW k \in 1..(d + l) PROVE stream'[(n + l) - (d + l) + k] = <<m, k>>
        <5>0. (n + l) - (d + l) + k = n - d + k
          BY <1>1
        <5>1. CASE k \in 1..d
          <6>1. n - d + k \in 1..n
            BY <1>1, <4>2, <5>1
          <6>2. d > 0
            BY <1>1, <5>1
          <6>3. stream[n - d + k] = <<m, k>>
            BY <4>2, <5>1, <6>2
          <6> QED BY <1>2, <5>0, <6>1, <6>3
        <5>2. CASE k \notin 1..d
          <6>1. k - d \in 1..len /\ n - d + k = n + (k - d) /\ d + (k - d) = k
            BY <1>1, <4>4, <5>2
          <6>2. stream'[n + (k - d)] = <<m, d + (k - d)>>
            BY <1>2, <6>1
          <6> QED BY <5>0, <6>1, <6>2
        <5> QED BY <5>1, <5>2
      <4> QED BY <4>1, <4>3, <4>4
    <3> QED BY <3>1, <3>2
  <2>2. ASSUME NEW v \in Writer, msg'[v] # None, msg'[v] \notin beside, done'[v] > 0
        PROVE  Len(stream') > 0 /\ stream'[Len(stream')] = <<msg'[v], done'[v]>>
    <3>1. msg[v] # None /\ msg'[v] = msg[v]
      BY <1>5, <2>2
    <3>2. v = w
      BY <1>0, <1>1, <2>2, <3>1 DEF BesideInv, m
    <3>3. len \in 1..len /\ stream'[n + len] = <<m, d + len>>
      BY <1>1, <1>2
    <3> QED BY <1>1, <1>5, <2>2, <3>1, <3>2, <3>3 DEF m
  <2> QED BY <1>4, <2>1, <2>2 DEF RunInv
<1>11. MixInv'
  <2>0. \A i \in 1..Len(stream') : i \notin 1..n => stream'[i][1] = m /\ i > n
    BY <1>1, <1>3
  <2>1. ASSUME NEW i \in 1..Len(stream'), NEW j \in 1..Len(stream'), i < j,
               stream'[i][1] = m, stream'[j][1] # m
        PROVE  stream'[j][1] \in beside
    <3>1. j \in 1..n
      BY <2>0, <2>1
    <3>2. i \in 1..n
      BY <1>1, <2>1, <3>1
    <3> QED BY <1>0, <1>2, <2>1, <3>1, <3>2 DEF MixInv, m, n
  <2>2. ASSUME NEW i \in 1..Len(stream'), NEW j \in 1..Len(stream'), NEW k \in 1..Len(stream'),
               i < j, j < k, stream'[i][1] = stream'[k][1], stream'[j][1] # stream'[i][1]
        PROVE  stream'[j][1] \in beside
    <3>1. CASE k \in 1..n
      <4>1. i \in 1..n /\ j \in 1..n
        BY <1>1, <2>2, <3>1
      <4>2. stream'[i] = stream[i] /\ stream'[j] = stream[j] /\ stream'[k] = stream[k]
        BY <1>2, <3>1, <4>1
      <4> QED BY <1>0, <2>2, <3>1, <4>1, <4>2 DEF MixInv, n
    <3>2. CASE k \notin 1..n
      BY <2>0, <2>1, <2>2, <3>2
    <3> QED BY <3>1, <3>2
  <2>3. ASSUME NEW v \in Writer, NEW i \in 1..Len(stream'), NEW j \in 1..Len(stream'), i < j,
               stream'[i][1] = msg'[v], stream'[j][1] # msg'[v]
        PROVE  stream'[j][1] \in beside
    <3>1. CASE msg'[v] = m
      BY <2>1, <2>3, <3>1
    <3>2. CASE msg'[v] # m
      <4>1. i \in 1..n
        BY <2>0, <2>3, <3>2
      <4>2. stream[i][1] = msg'[v] /\ stream[i][1] # None
        BY <1>0, <1>1, <1>2, <2>3, <4>1 DEF PartsInv, n
      <4>3. msg[v] # None /\ msg'[v] = msg[v] /\ v # w
        <5>1. msg'[v] # None
          BY <4>2
        <5>2. v # w
          BY <1>5, <3>2, <5>1
        <5> QED BY <1>5, <5>1, <5>2
      <4>4. CASE j \in 1..n
        BY <1>0, <1>2, <2>3, <4>1, <4>2, <4>3, <4>4 DEF MixInv, n
      <4>5. CASE j \notin 1..n
        <5>1. msg[v] # None /\ msg[w] # None
          BY <1>1, <4>2, <4>3 DEF m
        <5>2. m \in beside
          BY <1>0, <4>3, <5>1 DEF BesideInv, m
        <5> QED BY <2>0, <4>5, <5>2
      <4> QED BY <4>4, <4>5
    <3> QED BY <3>1, <3>2
  <2> QED BY <1>4, <2>2, <2>3 DEF MixInv
<1>12. EndsInv'
  <2> DEFINE E == LineEnds
             F == LineEnds'
  <2>1. E \subseteq 1..n
    BY DEF LineEnds, n
  <2>2. F \in {E, E \cup {n + len}}
    <3>1. ASSUME NEW j \in 1..n PROVE j \in F <=> j \in E
      <4>1. j \in 2..n => j - 1 \in 1..n
        BY <1>1
      <4>2. /\ stream'[j] = stream[j]
            /\ j \in 2..n => stream'[j - 1] = stream[j - 1]
        BY <1>2, <4>1
      <4>3. j \in 2..n <=> j \in 2..Len(stream')
        BY <1>1
      <4> QED BY <4>2, <4>3 DEF LineEnds, n
    <3>2. ASSUME NEW j \in F, j \notin 1..n PROVE j = n + len
      <4>0. j \in 1..Len(stream') /\ stream'[j][2] = Units
        BY <3>2 DEF LineEnds
      <4>1. PICK k \in 1..len : j = n + k /\ stream'[j] = <<m, d + k>>
        BY <1>3, <3>2, <4>0
      <4>2. d + k = Units
        BY <4>0, <4>1
      <4>3. k = len
        BY <1>1, <4>2
      <4> QED BY <4>1, <4>3
    <3> HIDE DEF E, F
    <3> QED BY <2>1, <3>1, <3>2
  <2>3. \A i \in 1..(n + 1) : LastEnd(E, i)
    BY <1>0 DEF EndsInv, n
  <2>4. EndsInv' <=> \A i \in 1..(n + len + 1) : LastEnd(F, i)
    BY <1>1 DEF EndsInv, LastEnd
  <2> HIDE DEF E, F
  <2>5. ASSUME NEW i \in 1..(n + len + 1) PROVE LastEnd(F, i)
    <3>1. CASE i <= n + 1
      <4>1. LastEnd(E, i)
        BY <1>1, <2>3, <3>1
      <4>2. ~(n + len < i)
        BY <1>1, <3>1
      <4> QED BY <2>2, <4>1, <4>2 DEF LastEnd
    <3>2. CASE i > n + 1 /\ ~(n + len \in F /\ i = n + len + 1)
      <4>1. LastEnd(E, n + 1)
        BY <1>1, <2>3
      <4>2. \A j \in E : j < i /\ j < n + 1
        BY <1>1, <2>1, <3>2
      <4>3. \A j \in F : j < i => j \in E
        BY <1>1, <2>2, <3>2
      <4>4. E \subseteq F
        BY <2>2
      <4> QED BY <4>1, <4>2, <4>3, <4>4 DEF LastEnd
    <3>3. CASE n + len \in F /\ i = n + len + 1
      <4>1. \A k \in F : k <= n + len
        BY <1>1, <2>1, <2>2
      <4>2. n + len < i
        BY <1>1, <3>3
      <4> QED BY <3>3, <4>1, <4>2 DEF LastEnd
    <3> QED BY <1>1, <3>1, <3>2, <3>3
  <2> QED BY <2>4, <2>5
<1> QED BY <1>7, <1>8, <1>10, <1>11, <1>12 DEF LinesInv

\* A message that is given up stays what it is in the stream.
LEMMA WriteTimesOutKeepsLines ==
  ASSUME StreamInv, LinesInv, NEW w \in Writer, WriteTimesOut(w)
  PROVE  LinesInv'
<1> USE DEF StreamInv, LinesInv
<1>1. /\ msg[w] # None
      /\ msg' = [msg EXCEPT ![w] = None] /\ done' = [done EXCEPT ![w] = 0]
      /\ locked' = locked /\ stream' = stream /\ beside' = beside
  BY DEF WriteTimesOut
<1>2. msg'[w] = None /\ \A v \in Writer : v # w => msg'[v] = msg[v] /\ done'[v] = done[v]
  BY <1>1 DEF TypeOK
<1>3. BesideInv'
  <2>1. locked => \A v \in Writer : msg[v] # None => v = w
    BY <1>1 DEF BesideInv
  <2> QED BY <1>1, <1>2, <2>1 DEF BesideInv
<1>4. OrderInv' /\ EndsInv'
  BY <1>1 DEF OrderInv, EndsInv, LineEnds
<1>5. RunInv'
  BY <1>1, <1>2 DEF RunInv
<1>6. MixInv'
  <2>1. \A v \in Writer, i \in 1..Len(stream) : stream[i][1] = msg'[v] => msg'[v] = msg[v]
    BY <1>2 DEF PartsInv, None
  <2> QED BY <1>1, <2>1 DEF MixInv
<1> QED BY <1>3, <1>4, <1>5, <1>6

\* Every step keeps it.
LEMMA StepKeepsLinesInv == StreamInv /\ LinesInv /\ [Next]_vars => LinesInv'
<1> SUFFICES ASSUME StreamInv, LinesInv, [Next]_vars PROVE LinesInv'
  OBVIOUS
<1>1. ASSUME NEW w \in Writer, StartMessage(w) PROVE LinesInv'
  BY <1>1, StartMessageKeepsLines
<1>2. ASSUME NEW w \in Writer, WriteTimesOut(w) PROVE LinesInv'
  BY <1>2, WriteTimesOutKeepsLines
<1>3. ASSUME NEW w \in Writer, NEW len \in 1..Units, WritePart(w, len) PROVE LinesInv'
  BY <1>3, WritePartKeepsLines
<1>4. CASE UNCHANGED vars
  BY <1>4 DEF vars, LinesInv, BesideInv, OrderInv, RunInv, MixInv, EndsInv, LineEnds
<1> QED BY <1>1, <1>2, <1>3, <1>4 DEF Next

-----------------------------------------------------------------------------
(* The lines.                                                              *)

\* What the operators on the stream mean: a line starts behind the CRLF
\* before it and goes up to its own.
LEMMA LineFacts ==
  ASSUME StreamInv, LinesInv, NEW i \in LineEnds
  PROVE  /\ i \in 1..Len(stream) /\ stream[i][2] = Units
         /\ LineStart(i) \in 1..i
         /\ \A j \in LineEnds : j < i => j < LineStart(i)
         /\ Line(i) = [k \in 1..(i - LineStart(i) + 1) |-> stream[LineStart(i) + k - 1]]
         /\ Len(Line(i)) = i - LineStart(i) + 1
<1>1. i \in 1..Len(stream) /\ stream[i][2] = Units /\ Len(stream) \in Nat /\ LineEnds \subseteq 1..Len(stream)
  BY DEF LineEnds, StreamInv, TypeOK
<1>2. LastEnd(LineEnds, i)
  BY <1>1 DEF LinesInv, EndsInv
<1>3. LineStart(i) \in 1..i /\ \A j \in LineEnds : j < i => j < LineStart(i)
  <2>1. CASE Before(i) = {}
    BY <1>1, <2>1 DEF LineStart, Before
  <2>2. CASE Before(i) # {}
    <3> DEFINE c == CHOOSE j \in Before(i) : \A k \in Before(i) : k <= j
    <3>1. \E j \in Before(i) : \A k \in Before(i) : k <= j
      BY <1>2, <2>2 DEF LastEnd, Before
    <3>2. c \in Before(i) /\ \A k \in Before(i) : k <= c
      BY <3>1
    <3>3. LineStart(i) = 1 + c
      BY <2>2 DEF LineStart
    <3> HIDE DEF c
    <3> QED BY <1>1, <3>2, <3>3 DEF Before
  <2> QED BY <2>1, <2>2
<1>4. Line(i) = [k \in 1..(i - LineStart(i) + 1) |-> stream[LineStart(i) + k - 1]]
  <2>1. stream \in Seq(Message \X (1..Units))
    BY DEF StreamInv, TypeOK
  <2> DEFINE a == LineStart(i)
  <2>2. a \in 1..i
    BY <1>3
  <2> HIDE DEF a
  <2>3. \A k \in 1..(i - a + 1) : k + a - 1 = a + k - 1
    BY <1>1, <2>2
  <2>4. SubSeq(stream, a, i) = [k \in 1..(i - a + 1) |-> stream[a + k - 1]]
    BY <1>1, <2>1, <2>2, <2>3
  <2> QED BY <2>4 DEF a, Line
<1>5. Len(Line(i)) = i - LineStart(i) + 1
  BY <1>1, <1>3, <1>4
<1> QED BY <1>1, <1>3, <1>4, <1>5

\* A message that was written alone is the last part of its line.
LEMMA AloneIsLast ==
  ASSUME StreamInv, LinesInv, NEW i \in LineEnds, stream[i][1] \notin beside
  PROVE  /\ i - Units \in Nat
         /\ \A k \in 1..Units : stream[i - Units + k] = <<stream[i][1], k>>
         /\ LineStart(i) <= i - Units + 1
<1>1. /\ i \in 1..Len(stream) /\ stream[i][2] = Units /\ LineStart(i) \in 1..i
      /\ Len(stream) \in Nat /\ Units \in Nat /\ Units >= 3
  BY LineFacts, SharedStreamAssumption DEF StreamInv, TypeOK
<1>2. Units <= i /\ \A k \in 1..Units : stream[i - Units + k] = <<stream[i][1], k>>
  BY <1>1 DEF LinesInv, RunInv
<1>3. LineStart(i) <= i - Units + 1
  <2> SUFFICES ASSUME LineStart(i) > i - Units + 1 PROVE FALSE
    BY <1>1, <1>2
  <2>1. LineStart(i) # 1
    BY <1>1, <1>2
  <2>2. Before(i) # {}
    BY <2>1 DEF LineStart
  <2>3. LineStart(i) - 1 \in Before(i)
    <3> DEFINE c == CHOOSE j \in Before(i) : \A k \in Before(i) : k <= j
    <3>1. LastEnd(LineEnds, i)
      BY <1>1 DEF LinesInv, EndsInv
    <3>2. c \in Before(i)
      BY <2>2, <3>1 DEF LastEnd, Before
    <3>3. LineStart(i) = 1 + c
      BY <2>2 DEF LineStart
    <3>4. Before(i) \subseteq Int
      BY DEF Before, LineEnds
    <3> HIDE DEF c
    <3> QED BY <3>2, <3>3, <3>4
  <2> DEFINE k == (LineStart(i) - 1) - (i - Units)
  <2>4. k \in 1..Units /\ k < Units /\ i - Units + k = LineStart(i) - 1
    BY <1>1, <1>2
  <2> HIDE DEF k
  <2>5. stream[LineStart(i) - 1] = <<stream[i][1], k>>
    BY <1>2, <2>4
  <2>6. stream[LineStart(i) - 1][2] = Units
    BY <2>3 DEF Before, LineEnds
  <2>7. k = Units
    BY <2>5, <2>6
  <2> QED BY <1>1, <2>4, <2>7
<1>4. i - Units \in Nat
  BY <1>1, <1>2
<1> QED BY <1>2, <1>3, <1>4

\* The LF of a message that was written alone stands behind its own CR.
LEMMA AloneEndsLine ==
  ASSUME StreamInv, LinesInv, NEW q \in 1..Len(stream),
         stream[q][2] = Units, stream[q][1] \notin beside
  PROVE  q \in LineEnds
<1>1. Len(stream) \in Nat /\ Units \in Nat /\ Units >= 3
  BY SharedStreamAssumption DEF StreamInv, TypeOK
<1>2. Units <= q /\ \A k \in 1..Units : stream[q - Units + k] = <<stream[q][1], k>>
  BY DEF LinesInv, RunInv
<1>3. Units - 1 \in 1..Units /\ q - Units + (Units - 1) = q - 1 /\ q \in 2..Len(stream)
  BY <1>1, <1>2
<1>4. stream[q - 1] = <<stream[q][1], Units - 1>>
  BY <1>2, <1>3
<1> QED BY <1>3, <1>4 DEF LineEnds

\* What else is in its line was given up or was not alone.
LEMMA StrangerIsCut ==
  ASSUME StreamInv, LinesInv, NEW i \in LineEnds, stream[i][1] \notin beside,
         NEW p \in LineStart(i)..i, stream[p][1] # stream[i][1]
  PROVE  stream[p][1] \in cut \cup beside
<1> DEFINE m == stream[p][1]
<1>1. /\ i \in 1..Len(stream) /\ stream[i][2] = Units /\ LineStart(i) \in 1..i
      /\ \A j \in LineEnds : j < i => j < LineStart(i)
      /\ Len(stream) \in Nat /\ Units \in Nat
  <2>1. /\ i \in 1..Len(stream) /\ stream[i][2] = Units /\ LineStart(i) \in 1..i
        /\ \A j \in LineEnds : j < i => j < LineStart(i)
    BY LineFacts
  <2>2. Len(stream) \in Nat
    BY DEF StreamInv, TypeOK
  <2>3. Units \in Nat
    BY SharedStreamAssumption
  <2> QED BY <2>1, <2>2, <2>3
<1>2. p \in 1..Len(stream) /\ p < i
  BY <1>1
<1>3. m \in 1..started /\ stream[p][2] \in 1..Units
  <2>1. stream \in Seq(Message \X (1..Units))
    BY DEF StreamInv, TypeOK
  <2>2. stream[p] \in Message \X (1..Units)
    BY <1>2, <2>1
  <2>3. m \in 1..started
    BY <1>2 DEF StreamInv, PartsInv
  <2> QED BY <2>2, <2>3
<1> SUFFICES ASSUME m \notin cut, m \notin beside PROVE FALSE
  OBVIOUS
<1>4. \A w \in Writer : msg[w] # m
  BY <1>1, <1>2 DEF LinesInv, MixInv
<1> HIDE DEF m
<1>5. PICK q \in 1..Len(stream) : stream[q] = <<m, Units>>
  BY <1>3, <1>4 DEF StreamInv, EndInv
<1>6. stream[q][1] = m /\ stream[q][2] = Units /\ q \in LineEnds
  BY <1>5, AloneEndsLine
<1>7. CASE q < i
  <2>1. q < p
    BY <1>1, <1>2, <1>6, <1>7
  <2>2. Units < stream[p][2]
    BY <1>2, <1>6, <2>1 DEF LinesInv, OrderInv, m
  <2> QED BY <1>1, <1>3, <2>2
<1>8. CASE q = i
  BY <1>6, <1>8 DEF m
<1>9. CASE q > i
  <2>1. p < i /\ i < q
    BY <1>2, <1>9
  <2> QED BY <1>1, <1>2, <1>6, <2>1 DEF LinesInv, MixInv, m
<1> QED BY <1>1, <1>7, <1>8, <1>9

\* The messages of a line are those of the places from its start on.
LEMMA StrangerHasPlace ==
  ASSUME StreamInv, LinesInv, NEW i \in LineEnds, NEW m \in Strangers(i)
  PROVE  \E p \in LineStart(i)..i : stream[p][1] = m /\ m # stream[i][1]
<1>1. PICK k \in 1..Len(Line(i)) : m = Line(i)[k][1] /\ m # stream[i][1]
  BY DEF Strangers
<1>2. /\ LineStart(i) \in 1..i /\ Len(Line(i)) = i - LineStart(i) + 1 /\ i \in Nat
      /\ Line(i) = [l \in 1..(i - LineStart(i) + 1) |-> stream[LineStart(i) + l - 1]]
  BY LineFacts
<1>3. Line(i)[k] = stream[LineStart(i) + k - 1] /\ LineStart(i) + k - 1 \in LineStart(i)..i
  BY <1>1, <1>2
<1> QED BY <1>1, <1>3

-----------------------------------------------------------------------------
(* Theorems.                                                               *)

\* WriteSfd writes every part at most once, in order, and all of a message
\* that it reports as written.
THEOREM StreamInvariant == Spec => []StreamInv
<1> QED BY InitStreamInv, StepKeepsStreamInv, PTL DEF Spec

\* Every variable keeps to its type: WriteSfd never counts past the end of
\* its buffer.
THEOREM StreamTypeCorrect == Spec => []TypeOK
<1>1. StreamInv => TypeOK
  BY DEF StreamInv
<1> QED BY <1>1, StreamInvariant, PTL

\* The invariant behind the lines: who is alone, and where the parts of
\* those that are stand.
THEOREM LinesInvariant == Spec => [](StreamInv /\ LinesInv)
<1>1. Init => StreamInv /\ LinesInv
  BY InitStreamInv, InitLinesInv
<1>2. StreamInv /\ LinesInv /\ [Next]_vars => (StreamInv /\ LinesInv)'
  BY StepKeepsStreamInv, StepKeepsLinesInv
<1> QED BY <1>1, <1>2, PTL DEF Spec

\* Only complete messages end a line, one each; those that end none, their
\* LF having been written apart from their CR, had another one beside them,
\* which the lock excludes.
THEOREM MessagesEndOneLine == Spec => []OneLineEach
<1>1. ASSUME StreamInv, LinesInv PROVE OneLineEach
  <2> USE <1>1 DEF StreamInv
  <2>1. \A i \in 1..Len(stream) : stream[i] \in Message \X (1..Units)
    BY DEF TypeOK
  <2>2. \A i \in 1..Len(stream) : stream[i] = <<stream[i][1], stream[i][2]>>
    BY <2>1
  <2>3. \A i, j \in LineEnds : stream[i][1] = stream[j][1] => i = j
    <3>1. \A i \in LineEnds : i \in 1..Len(stream) /\ stream[i][2] = Units
      BY DEF LineEnds
    <3>2. \A i, j \in 1..Len(stream) : stream[i] = stream[j] => i = j
      BY DEF PartsInv
    <3> QED BY <2>2, <3>1, <3>2
  <2>4. ASSUME NEW i \in LineEnds PROVE stream[i][1] \in Finished
    <3>1. i \in 1..Len(stream) /\ stream[i][2] = Units /\ Units \in Nat
      BY SharedStreamAssumption DEF LineEnds
    <3>2. \A w \in Writer : done[w] \in Int /\ done[w] < Units
      BY <3>1 DEF TypeOK
    <3>3. \A w \in Writer : msg[w] # stream[i][1]
      BY <3>1, <3>2 DEF PartsInv
    <3>4. stream[i][1] \notin cut
      BY <3>1 DEF PartsInv
    <3> QED BY <3>1, <3>3, <3>4 DEF PartsInv, Finished, Writing
  <2>5. ASSUME NEW m \in Finished, m \notin beside PROVE \E i \in LineEnds : stream[i][1] = m
    <3>1. m \in 1..started /\ m \notin cut /\ \A w \in Writer : msg[w] # m
      BY DEF Finished, Writing, None
    <3>2. PICK i \in 1..Len(stream) : stream[i] = <<m, Units>>
      BY <3>1 DEF EndInv
    <3>3. stream[i][1] = m /\ stream[i][2] = Units
      BY <3>2
    <3>4. i \in LineEnds
      BY <2>5, <3>3, AloneEndsLine
    <3> QED BY <3>3, <3>4
  <2>6. locked => beside = {}
    BY DEF LinesInv, BesideInv
  <2> QED BY <2>3, <2>4, <2>5, <2>6 DEF OneLineEach
<1> QED BY <1>1, LinesInvariant, PTL

\* A line is damaged by writing without the lock, when it was written or
\* before it, or by a write that was given up; nothing else in WriteSfd and
\* its callers does it.
THEOREM DamageIsExplained == Spec => []DamageHasReason
<1>1. ASSUME StreamInv, LinesInv PROVE DamageHasReason
  <2>1. locked => beside = {}
    BY <1>1 DEF LinesInv, BesideInv
  <2>2. ASSUME NEW i \in LineEnds, ~Whole(i), stream[i][1] \notin beside
        PROVE  Strangers(i) \cap (cut \cup beside) # {}
    <3> DEFINE a == LineStart(i)
               m == stream[i][1]
    <3>1. /\ i \in 1..Len(stream) /\ a \in 1..i /\ Len(Line(i)) = i - a + 1
          /\ Line(i) = [k \in 1..(i - a + 1) |-> stream[a + k - 1]]
          /\ Units \in Nat /\ Units >= 3 /\ Len(stream) \in Nat
      BY <1>1, LineFacts, SharedStreamAssumption DEF StreamInv, TypeOK
    <3>2. /\ i - Units \in Nat /\ a <= i - Units + 1
          /\ \A k \in 1..Units : stream[i - Units + k] = <<m, k>>
      BY <1>1, <2>2, AloneIsLast
    <3> HIDE DEF a
    <3>3. a # i - Units + 1
      <4> SUFFICES ASSUME a = i - Units + 1 PROVE FALSE
        OBVIOUS
      <4>1. i - a + 1 = Units /\ \A k \in 1..Units : a + k - 1 = i - Units + k
        BY <3>1
      <4>2. Line(i) = [k \in 1..Units |-> <<m, k>>]
        BY <3>1, <3>2, <4>1
      <4> QED BY <2>2, <4>2 DEF Whole
    <3>4. a < i - Units + 1 /\ a \in a..i /\ a \in 1..Len(stream)
      BY <3>1, <3>2, <3>3
    <3>5. stream[a][1] # m
      <4> SUFFICES ASSUME stream[a][1] = m PROVE FALSE
        OBVIOUS
      <4>1. stream[a] \in Message \X (1..Units)
        BY <1>1, <3>4 DEF StreamInv, TypeOK
      <4>2. PICK k \in 1..Units : stream[a] = <<m, k>>
        BY <4>1
      <4>3. i - Units + k \in 1..Len(stream) /\ i - Units + k # a
        BY <3>1, <3>2, <3>4
      <4>4. stream[i - Units + k] = stream[a]
        BY <3>2, <4>2
      <4> QED BY <1>1, <3>4, <4>3, <4>4 DEF StreamInv, PartsInv
    <3>6. stream[a][1] \in cut \cup beside
      BY <1>1, <2>2, <3>4, <3>5, StrangerIsCut DEF a
    <3>7. stream[a][1] \in Strangers(i)
      <4>1. 1 \in 1..(i - a + 1) /\ a + 1 - 1 = a
        BY <3>1
      <4>2. Line(i)[1] = stream[a] /\ 1 \in 1..Len(Line(i))
        BY <3>1, <4>1
      <4> QED BY <3>5, <4>2 DEF Strangers
    <3> QED BY <3>6, <3>7
  <2> QED BY <2>1, <2>2 DEF DamageHasReason
<1> QED BY <1>1, LinesInvariant, PTL

\* With mutex_ over the whole of WriteSfd a request that was given up costs
\* the next one at the most, and nothing behind it.
THEOREM DamageIsBounded == Spec => []DamageEndsWithNext
<1>1. ASSUME StreamInv, LinesInv PROVE DamageEndsWithNext
  <2> SUFFICES ASSUME locked
               PROVE  /\ \A i \in LineEnds :
                           /\ Len(Line(i)) >= Units
                           /\ \A k \in 1..Units : stream[i - Units + k] = <<stream[i][1], k>>
                           /\ Strangers(i) \subseteq cut
                      /\ \A i, j \in LineEnds : Strangers(i) \cap Strangers(j) # {} => i = j
    BY DEF DamageEndsWithNext
  <2>1. beside = {}
    BY <1>1 DEF LinesInv, BesideInv
  <2>2. ASSUME NEW i \in LineEnds
        PROVE  /\ Len(Line(i)) >= Units
               /\ \A k \in 1..Units : stream[i - Units + k] = <<stream[i][1], k>>
               /\ Strangers(i) \subseteq cut
    <3>1. i \in Nat /\ LineStart(i) \in 1..i /\ Len(Line(i)) = i - LineStart(i) + 1 /\ Units \in Nat
      BY <1>1, LineFacts, SharedStreamAssumption
    <3>2. /\ LineStart(i) <= i - Units + 1
          /\ \A k \in 1..Units : stream[i - Units + k] = <<stream[i][1], k>>
      BY <1>1, <2>1, AloneIsLast
    <3>3. ASSUME NEW m \in Strangers(i) PROVE m \in cut
      <4>1. PICK p \in LineStart(i)..i : stream[p][1] = m /\ m # stream[i][1]
        BY <1>1, StrangerHasPlace
      <4>2. stream[p][1] # stream[i][1] /\ stream[i][1] \notin beside
        BY <2>1, <4>1
      <4>3. stream[p][1] \in cut
        BY <1>1, <2>1, <4>2, StrangerIsCut
      <4> QED BY <4>1, <4>3
    <3>4. Len(Line(i)) >= Units
      BY <3>1, <3>2
    <3> QED BY <3>2, <3>3, <3>4
  <2>3. ASSUME NEW i \in LineEnds, NEW j \in LineEnds, NEW m \in Strangers(i),
               m \in Strangers(j), i < j
        PROVE  FALSE
    <3>1. PICK p \in LineStart(i)..i : stream[p][1] = m /\ m # stream[i][1]
      BY <1>1, StrangerHasPlace
    <3>2. PICK q \in LineStart(j)..j : stream[q][1] = m /\ m # stream[j][1]
      BY <1>1, <2>3, StrangerHasPlace
    <3>3. /\ i \in 1..Len(stream) /\ LineStart(i) \in 1..i
          /\ j \in 1..Len(stream) /\ LineStart(j) \in 1..j /\ i < LineStart(j)
          /\ Len(stream) \in Nat
      BY <1>1, <2>3, LineFacts DEF StreamInv, TypeOK
    <3>4. p \in 1..Len(stream) /\ q \in 1..Len(stream) /\ p < i /\ i < q
      BY <3>1, <3>2, <3>3
    <3>5. stream[i][1] \in beside
      BY <1>1, <3>1, <3>2, <3>3, <3>4 DEF LinesInv, MixInv
    <3> QED BY <2>1, <3>5
  <2>4. \A i \in LineEnds : i \in Int
    BY DEF LineEnds
  <2> QED BY <2>2, <2>3, <2>4
<1> QED BY <1>1, LinesInvariant, PTL

\* What Framing assumes of its stream holds towards an app server until a
\* write is given up: the reader never waits for more than one message.
THEOREM OpenLineFits == Spec => []OpenLineIsShort
<1>1. ASSUME StreamInv, LinesInv PROVE OpenLineIsShort
  <2> DEFINE n == Len(stream)
             open == {i \in 1..n : \A j \in LineEnds : j < i}
  <2> SUFFICES ASSUME locked, cut = {}
               PROVE  /\ Cardinality(open) < Units
                      /\ \A i, j \in open : stream[i][1] = stream[j][1]
    BY DEF OpenLineIsShort
  <2>1. /\ beside = {} /\ n \in Nat /\ Units \in Nat /\ Units >= 3
        /\ \A i \in 1..n : stream[i] \in Message \X (1..Units)
    BY <1>1, SharedStreamAssumption DEF LinesInv, BesideInv, StreamInv, TypeOK
  <2>2. ASSUME NEW p \in open PROVE \E w \in Writer : msg[w] = stream[p][1]
    <3> SUFFICES ASSUME \A w \in Writer : msg[w] # stream[p][1] PROVE FALSE
      OBVIOUS
    <3>1. PICK q \in 1..n : stream[q] = <<stream[p][1], Units>>
      BY <1>1 DEF StreamInv, PartsInv, EndInv
    <3>2. stream[q][1] = stream[p][1] /\ stream[q][2] = Units
      BY <3>1
    <3>3. q < p
      BY <1>1, <2>1, <3>2, AloneEndsLine
    <3>4. Units < stream[p][2]
      BY <1>1, <3>2, <3>3 DEF LinesInv, OrderInv
    <3> QED BY <2>1, <3>4
  <2>3. ASSUME NEW i \in open, NEW j \in open PROVE stream[i][1] = stream[j][1]
    <3>1. PICK v \in Writer : msg[v] = stream[i][1]
      BY <2>2
    <3>2. PICK w \in Writer : msg[w] = stream[j][1]
      BY <2>2
    <3>3. msg[v] # None /\ msg[w] # None
      BY <1>1, <3>1, <3>2 DEF StreamInv, PartsInv, None
    <3>4. v = w
      BY <1>1, <3>3 DEF LinesInv, BesideInv
    <3> QED BY <3>1, <3>2, <3>4
  <2>4. CASE open = {}
    <3>1. Cardinality(open) = 0
      BY <2>4, FS_EmptySet
    <3> QED BY <2>1, <2>3, <3>1
  <2>5. CASE open # {}
    <3>1. PICK o \in open : TRUE
      BY <2>5
    <3>2. PICK w \in Writer : msg[w] = stream[o][1]
      BY <2>2
    <3> DEFINE d == done[w]
               m == msg[w]
    <3>3. d \in Nat /\ d < Units /\ m # None
      BY <1>1, <2>1, <3>2 DEF StreamInv, TypeOK, PartsInv, None
    <3>4. \A p \in open : stream[p][1] = m /\ stream[p][2] <= d /\ stream[p][2] \in 1..Units
      BY <1>1, <2>1, <2>3, <3>2 DEF StreamInv, PartsInv
    <3>5. d > 0
      BY <3>1, <3>3, <3>4
    <3>6. n > 0 /\ stream[n] = <<m, d>>
      BY <1>1, <2>1, <3>3, <3>5 DEF LinesInv, RunInv
    <3>7. d <= n /\ \A k \in 1..d : stream[n - d + k] = <<m, k>>
      <4>1. n \in 1..n /\ stream[n][1] = m /\ stream[n][2] = d
        BY <2>1, <3>6
      <4> QED BY <1>1, <2>1, <4>1 DEF LinesInv, RunInv
    <3> HIDE DEF d, m
    <3>8. ASSUME NEW p \in open PROVE p \in (n - d + 1)..n
      <4> DEFINE k == stream[p][2]
      <4>1. k \in 1..d /\ stream[p] = <<m, k>>
        BY <2>1, <3>3, <3>4
      <4>2. n - d + k \in 1..n /\ stream[n - d + k] = <<m, k>>
        BY <2>1, <3>3, <3>7, <4>1
      <4>3. p = n - d + k
        BY <1>1, <4>1, <4>2 DEF StreamInv, PartsInv
      <4> HIDE DEF k
      <4> QED BY <2>1, <3>3, <4>1, <4>3
    <3>9. /\ IsFiniteSet((n - d + 1)..n)
          /\ Cardinality((n - d + 1)..n) = IF n - d + 1 > n THEN 0 ELSE n - (n - d + 1) + 1
      <4>1. n - d + 1 \in Int /\ n \in Int
        BY <2>1, <3>3
      <4> QED BY <4>1, FS_Interval
    <3>10. Cardinality((n - d + 1)..n) = d
      BY <2>1, <3>3, <3>5, <3>9
    <3> HIDE DEF open
    <3>11. IsFiniteSet(open) /\ Cardinality(open) <= d
      BY <3>8, <3>9, <3>10, FS_Subset
    <3>12. Cardinality(open) \in Nat
      BY <3>11, FS_CardinalityType
    <3>13. Cardinality(open) < Units
      BY <2>1, <3>3, <3>11, <3>12
    <3> QED BY <2>3, <3>13
  <2> QED BY <2>4, <2>5
<1> QED BY <1>1, LinesInvariant, PTL
=============================================================================
