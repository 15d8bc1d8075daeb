--------------------------- MODULE FramingProofs ---------------------------
(***************************************************************************)
(* The receive buffer, for every buffer size and number of messages: what  *)
(* is not split is handed over exactly once and whole, and the buffer      *)
(* never fills up for good.                                                *)
(***************************************************************************)
EXTENDS Framing, TLAPS

-----------------------------------------------------------------------------
(* The inductive invariant.                                                *)

\* Messages have room for a CRLF, are shorter than the buffer and follow each
\* other.
Lengths ==
  /\ \A k \in Sent : Start(k) + 2 <= ends[k] /\ ends[k] - Start(k) < BufSize
  /\ \A j, k \in Sent : j < k => ends[j] <= Start(k)

\* The buffer starts at a message, or at the LF of one.
StartsAtMessage == lo = 0 \/ \E k \in Sent : lo = ends[k] \/ lo = ends[k] - 1

\* No complete message is left in the buffer.
NothingLeft == \A k \in Sent : ends[k] <= hi => ends[k] - 1 <= lo

\* What has been handed over is gone from the buffer, and what is gone
\* without having been handed over ended in a read that was split.
GoneIsHandled ==
  \A k \in Sent : /\ times[k] > 0 => ends[k] <= lo
                  /\ ends[k] - 1 <= lo /\ times[k] = 0 => k \in split

FramingInv ==
  /\ TypeOK
  /\ Lengths
  /\ StartsAtMessage
  /\ NothingLeft
  /\ GoneIsHandled
  /\ \A k \in Message : k \notin Sent => times[k] = 0
  /\ AlwaysRoom
  /\ HandedOverOnce

-----------------------------------------------------------------------------

\* The last message ends where the stream does, and the next one starts there.
LEMMA StreamFacts ==
  ASSUME TypeOK, Lengths
  PROVE  /\ Total \in Nat /\ Len(ends) \in Nat
         /\ \A k \in Sent : k \in Nat /\ ends[k] \in Nat /\ Start(k) \in Nat
         /\ \A k \in Sent : ends[k] <= Total
         /\ \A k \in Sent : k # Len(ends) => k + 1 \in Sent /\ Start(k + 1) = ends[k]
         /\ \A k \in Sent : k = Len(ends) => Total = ends[k]
         /\ Start(1) = 0
         /\ Total > 0 => 1 \in Sent
<1>1. Len(ends) \in Nat /\ Total \in Nat /\ \A k \in Sent : k \in Nat /\ ends[k] \in Nat
  BY DEF TypeOK, Sent, Total
<1>2. \A k \in Sent : Start(k) \in Nat
  BY <1>1 DEF Start, Sent
<1>3. \A k \in Sent : k = Len(ends) => Total = ends[k]
  BY <1>1 DEF Sent, Total
<1>4. \A k \in Sent : k # Len(ends) => k + 1 \in Sent /\ Start(k + 1) = ends[k]
  BY <1>1 DEF Sent, Start
<1>5. \A k \in Sent : ends[k] <= Total
  <2> SUFFICES ASSUME NEW k \in Sent, k # Len(ends) PROVE ends[k] <= Total
    BY <1>1, <1>3
  <2>1. Len(ends) \in Sent /\ k < Len(ends)
    BY <1>1 DEF Sent
  <2>2. ends[k] <= Start(Len(ends)) /\ Start(Len(ends)) + 2 <= ends[Len(ends)]
    BY <2>1 DEF Lengths
  <2> QED BY <1>1, <1>2, <1>3, <2>1, <2>2
<1>6. Start(1) = 0 /\ (Total > 0 => 1 \in Sent)
  BY <1>1 DEF Start, Total, Sent, TypeOK
<1> QED BY <1>1, <1>2, <1>3, <1>4, <1>5, <1>6

\* Nothing is sent at first.
LEMMA InitHolds == Init => FramingInv
<1> SUFFICES ASSUME Init PROVE FramingInv
  OBVIOUS
<1> USE FramingAssumption DEF Init
<1>1. Len(ends) = 0 /\ Sent = {} /\ Total = 0
  BY DEF Sent, Total
<1>2. TypeOK
  BY <1>1 DEF TypeOK
<1> QED BY <1>1, <1>2 DEF FramingInv, Lengths, StartsAtMessage, NothingLeft, GoneIsHandled,
     AlwaysRoom, HandedOverOnce

\* Sending adds a message behind everything that was sent.
LEMMA SendKeepsInv ==
  ASSUME FramingInv, NEW len \in 2..BufSize, Send(len)
  PROVE  FramingInv'
<1>1. /\ TypeOK /\ Lengths /\ StartsAtMessage /\ NothingLeft /\ GoneIsHandled
      /\ AlwaysRoom /\ HandedOverOnce /\ \A k \in Message : k \notin Sent => times[k] = 0
      /\ len \in Nat /\ 2 <= len /\ len < BufSize /\ BufSize \in Nat /\ MaxMessages \in Nat
  BY FramingAssumption DEF FramingInv, Send, Fits
<1>2. /\ Len(ends) < MaxMessages /\ ends' = Append(ends, Total + len)
      /\ lo' = lo /\ hi' = hi /\ times' = times /\ truncated' = truncated /\ split' = split
  BY DEF Send
<1>3. /\ Total \in Nat /\ Len(ends) \in Nat
      /\ \A k \in Sent : k \in Nat /\ ends[k] \in Nat /\ Start(k) \in Nat /\ ends[k] <= Total
      /\ \A k \in Sent : k = Len(ends) => Total = ends[k]
  BY <1>1, StreamFacts
<1>4. PICK n \in Message : n = Len(ends) + 1
  BY <1>1, <1>2, <1>3 DEF Message
<1>5. /\ ends' \in Seq(Nat) /\ Len(ends') = n
      /\ \A k \in Sent : ends'[k] = ends[k]
      /\ ends'[n] = Total + len
  BY <1>1, <1>2, <1>3, <1>4 DEF TypeOK, Sent
<1>6. Sent' = Sent \cup {n} /\ n \notin Sent /\ \A k \in Sent : k < n
  BY <1>3, <1>4, <1>5 DEF Sent
<1>7. Total' = Total + len
  BY <1>3, <1>4, <1>5 DEF Total
<1>8. /\ \A k \in Sent : Start(k)' = Start(k)
      /\ Start(n)' = Total
  <2>1. ASSUME NEW k \in Sent PROVE Start(k)' = Start(k)
    <3>1. k = 1 \/ k - 1 \in Sent
      BY <1>3 DEF Sent
    <3> QED BY <1>5, <3>1 DEF Start
  <2>2. CASE Len(ends) = 0
    <3>1. n = 1 /\ Total = 0
      BY <1>1, <1>4, <2>2 DEF Total, TypeOK
    <3> QED BY <2>1, <3>1 DEF Start
  <2>3. CASE Len(ends) # 0
    <3>1. Len(ends) \in Sent /\ n # 1 /\ n - 1 = Len(ends)
      BY <1>3, <1>4, <2>3 DEF Sent
    <3>2. Start(n)' = ends'[n - 1]
      BY <3>1 DEF Start
    <3> QED BY <1>3, <1>5, <2>1, <3>1, <3>2
  <2> QED BY <2>1, <2>2, <2>3
<1>9. TypeOK'
  <2>1. lo' \in 0..hi' /\ hi' \in 0..Total' /\ Len(ends') <= MaxMessages
    BY <1>1, <1>2, <1>3, <1>4, <1>5, <1>7 DEF TypeOK, Message
  <2> QED BY <1>1, <1>2, <1>5, <2>1 DEF TypeOK
<1>10. Lengths'
  <2>1. \A k \in Sent' : Start(k)' + 2 <= ends'[k] /\ ends'[k] - Start(k)' < BufSize
    <3>1. ASSUME NEW k \in Sent
          PROVE  Start(k)' + 2 <= ends'[k] /\ ends'[k] - Start(k)' < BufSize
      <4>1. Start(k) + 2 <= ends[k] /\ ends[k] - Start(k) < BufSize
        BY <1>1 DEF Lengths
      <4>2. Start(k)' = Start(k) /\ ends'[k] = ends[k]
        BY <1>5, <1>8
      <4> QED BY <4>1, <4>2
    <3>2. Start(n)' + 2 <= ends'[n] /\ ends'[n] - Start(n)' < BufSize
      <4>1. Start(n)' = Total /\ ends'[n] = Total + len /\ Total \in Nat
        BY <1>3, <1>5, <1>8
      <4> QED BY <1>1, <4>1
    <3> QED BY <1>6, <3>1, <3>2
  <2>2. ASSUME NEW j \in Sent', NEW k \in Sent', j < k
        PROVE  ends'[j] <= Start(k)'
    <3>1. j \in Sent
      BY <1>3, <1>4, <1>6, <2>2
    <3>2. CASE k \in Sent
      BY <1>1, <1>5, <1>8, <2>2, <3>1, <3>2 DEF Lengths
    <3>3. CASE k = n
      BY <1>3, <1>5, <1>8, <3>1, <3>3
    <3> QED BY <1>6, <3>2, <3>3
  <2> QED BY <2>1, <2>2 DEF Lengths
<1>11. StartsAtMessage'
  <2>1. lo = 0 \/ \E k \in Sent : lo = ends'[k] \/ lo = ends'[k] - 1
    BY <1>1, <1>5 DEF StartsAtMessage
  <2> QED BY <1>2, <1>6, <2>1 DEF StartsAtMessage
<1>12. ends'[n] > hi /\ ends'[n] - 1 > lo /\ times[n] = 0
  <2>1. lo \in Nat /\ hi \in Nat /\ lo <= hi /\ hi <= Total
    BY <1>1, <1>3 DEF TypeOK
  <2>2. times[n] = 0
    BY <1>1, <1>6
  <2> QED BY <1>1, <1>3, <1>5, <2>1, <2>2
<1>13. NothingLeft' /\ GoneIsHandled'
  <2> SUFFICES ASSUME NEW k \in Sent'
               PROVE  /\ ends'[k] <= hi => ends'[k] - 1 <= lo
                      /\ times[k] > 0 => ends'[k] <= lo
                      /\ ends'[k] - 1 <= lo /\ times[k] = 0 => k \in split
    BY <1>2 DEF NothingLeft, GoneIsHandled
  <2>1. CASE k \in Sent
    BY <1>1, <1>5, <2>1 DEF NothingLeft, GoneIsHandled
  <2>2. CASE k = n
    <3>1. lo \in Nat /\ hi \in Nat /\ ends'[n] \in Nat
      BY <1>1, <1>3, <1>5 DEF TypeOK
    <3> QED BY <1>12, <2>2, <3>1
  <2> QED BY <1>6, <2>1, <2>2
<1>14. HandedOverOnce'
  <2> SUFFICES ASSUME NEW k \in Sent'
               PROVE  /\ times[k] <= 1
                      /\ ends'[k] <= hi /\ k \notin split => times[k] = 1
                      /\ ends'[k] > hi => times[k] = 0
    BY <1>1, <1>2 DEF HandedOverOnce
  <2>1. CASE k \in Sent
    BY <1>1, <1>5, <2>1 DEF HandedOverOnce
  <2>2. CASE k = n
    <3>1. hi \in Nat /\ ends'[n] \in Nat
      BY <1>1, <1>3, <1>5 DEF TypeOK
    <3> QED BY <1>12, <2>2, <3>1
  <2> QED BY <1>6, <2>1, <2>2
<1>15. AlwaysRoom' /\ \A k \in Message : k \notin Sent' => times'[k] = 0
  BY <1>1, <1>2, <1>6 DEF AlwaysRoom
<1> QED BY <1>9, <1>10, <1>11, <1>13, <1>14, <1>15 DEF FramingInv

\* A read: what it completes is handed over, and the buffer starts again at
\* the last mark.
LEMMA ReadKeepsInv ==
  ASSUME FramingInv, NEW h \in 1..Total, ReadCb(h)
  PROVE  FramingInv'
<1>0. /\ TypeOK /\ Lengths /\ StartsAtMessage /\ NothingLeft /\ GoneIsHandled
      /\ AlwaysRoom /\ HandedOverOnce /\ \A k \in Message : k \notin Sent => times[k] = 0
      /\ BufSize \in Nat /\ BufSize > 2 /\ MaxMessages \in Nat
      /\ \A k \in Message : times[k] \in Nat
  BY FramingAssumption DEF FramingInv, TypeOK
<1>1. /\ Total \in Nat /\ Len(ends) \in Nat
      /\ \A k \in Sent : k \in Nat /\ ends[k] \in Nat /\ Start(k) \in Nat /\ ends[k] <= Total
      /\ \A k \in Sent : k # Len(ends) => k + 1 \in Sent /\ Start(k + 1) = ends[k]
      /\ \A k \in Sent : k = Len(ends) => Total = ends[k]
      /\ Start(1) = 0 /\ (Total > 0 => 1 \in Sent)
  BY <1>0, StreamFacts
<1>2. /\ lo \in Nat /\ hi \in Nat /\ lo <= hi /\ hi < h /\ h \in Nat /\ h <= Total
      /\ Sent' = Sent /\ Total' = Total /\ \A k \in Sent : Start(k)' = Start(k)
      /\ Sent \subseteq Message
      /\ hi' = h /\ ends' = ends /\ split \subseteq split' /\ split' \subseteq Message
      /\ \A k \in Sent : ends[k] - 1 = h => k \in split'
  <2>1. h \in (hi + 1)..Total /\ hi' = h /\ ends' = ends
    BY DEF ReadCb
  <2>2. Sent \subseteq Message
    BY <1>0, <1>1 DEF TypeOK, Sent, Message
  <2>3. Sent' = Sent /\ Total' = Total /\ \A k \in Sent : Start(k)' = Start(k)
    BY <2>1 DEF Sent, Total, Start
  <2> QED BY <1>0, <1>1, <2>1, <2>2, <2>3 DEF TypeOK, ReadCb
<1>3. \A k \in Complete(h) : k \in Sent /\ lo < ends[k] - 1 /\ ends[k] <= h /\ times[k] = 0
  <2> SUFFICES ASSUME NEW k \in Complete(h)
               PROVE  k \in Sent /\ lo < ends[k] - 1 /\ ends[k] <= h /\ times[k] = 0
    OBVIOUS
  <2>1. k \in Sent /\ lo < ends[k] - 1 /\ ends[k] <= h
    BY DEF Complete
  <2>2. ~(times[k] > 0)
    BY <1>0, <1>1, <1>2, <2>1 DEF GoneIsHandled
  <2> QED BY <1>0, <1>2, <2>1, <2>2
<1>4. /\ times' \in [Message -> Nat]
      /\ \A k \in Message :
           times'[k] = IF k \in Complete(h) THEN 1 ELSE times[k]
  BY <1>0, <1>2, <1>3 DEF TypeOK, ReadCb
<1>5. ASSUME NEW k \in Complete(h) PROVE ~(Start(k) < lo)
  <2> SUFFICES ASSUME Start(k) < lo PROVE FALSE
    OBVIOUS
  <2>1. PICK j \in Sent : lo = ends[j] \/ lo = ends[j] - 1
    BY <1>0, <1>1, <1>2, <1>3 DEF StartsAtMessage
  <2>4. /\ k \in Sent /\ j \in Nat /\ k \in Nat /\ ends[j] \in Nat /\ ends[k] \in Nat
        /\ Start(k) \in Nat /\ Start(j) \in Nat /\ lo \in Nat /\ lo < ends[k] - 1
    BY <1>1, <1>2, <1>3
  <2>2. ~(j < k)
    <3>1. j < k => ends[j] <= Start(k)
      BY <1>0, <2>4 DEF Lengths
    <3> QED BY <2>1, <2>4, <3>1
  <2>3. k < j => ends[k] <= Start(j) /\ Start(j) + 2 <= ends[j]
    BY <1>0, <2>4 DEF Lengths
  <2> QED BY <2>1, <2>4, <2>2, <2>3
<1>6. truncated' = {}
  BY <1>0, <1>5 DEF HandedOverOnce, ReadCb
<1>7. HandedOverOnce'
  <2> SUFFICES ASSUME NEW k \in Sent
               PROVE  /\ times'[k] <= 1
                      /\ ends[k] <= h /\ k \notin split' => times'[k] = 1
                      /\ ends[k] > h => times'[k] = 0
    BY <1>0, <1>2, <1>6 DEF HandedOverOnce
  <2>1. CASE k \in Complete(h)
    BY <1>0, <1>1, <1>2, <1>3, <1>4, <2>1
  <2>2. CASE k \notin Complete(h)
    <3>1. times'[k] = times[k] /\ times[k] \in Nat /\ times[k] <= 1
      BY <1>0, <1>2, <1>4, <2>2 DEF HandedOverOnce, TypeOK
    <3>2. ends[k] > h => times[k] = 0
      BY <1>0, <1>1, <1>2 DEF HandedOverOnce
    <3>3. ends[k] <= h => ends[k] - 1 <= lo
      BY <1>0, <1>1, <1>2, <2>2 DEF Complete
    <3>4. ends[k] <= h /\ k \notin split' => times[k] # 0
      BY <1>0, <1>2, <3>3 DEF GoneIsHandled
    <3> QED BY <3>1, <3>2, <3>4
  <2> QED BY <2>1, <2>2
<1>8. CASE Complete(h) = {}
  <2>1. lo' = lo /\ hi' = h /\ ends' = ends /\ times' = times
    BY <1>8 DEF ReadCb
  <2>2. TypeOK'
    BY <1>0, <1>2, <1>6, <2>1 DEF TypeOK, Sent, Message
  <2>3. \A k \in Sent : ends[k] <= h => ends[k] - 1 <= lo
    BY <1>0, <1>1, <1>2, <1>8 DEF Complete
  <2>4. Lengths' /\ StartsAtMessage' /\ NothingLeft'
    BY <1>0, <1>2, <2>1, <2>3 DEF Lengths, StartsAtMessage, NothingLeft
  <2>5. GoneIsHandled'
    BY <1>0, <1>2, <2>1 DEF GoneIsHandled
  <2>6. AlwaysRoom'
    <3>1. CASE lo = 0
      <4>1. 1 \in Sent /\ Start(1) = 0 /\ 2 <= ends[1] /\ ends[1] < BufSize
        BY <1>0, <1>1, <1>2 DEF Lengths
      <4> QED BY <1>0, <1>1, <1>2, <2>1, <2>3, <3>1, <4>1 DEF AlwaysRoom
    <3>2. ASSUME NEW k \in Sent, lo = ends[k] \/ lo = ends[k] - 1
          PROVE  AlwaysRoom'
      <4>1. CASE k = Len(ends)
        BY <1>0, <1>1, <1>2, <2>1, <3>2, <4>1 DEF AlwaysRoom
      <4>2. CASE k # Len(ends)
        <5>1. k + 1 \in Sent /\ ends[k] + 2 <= ends[k + 1] /\ ends[k + 1] - ends[k] < BufSize
          BY <1>0, <1>1, <4>2 DEF Lengths
        <5>2. ends[k] \in Nat /\ ends[k + 1] \in Nat /\ lo < ends[k + 1] - 1
          <6>1. ends[k] \in Nat /\ ends[k + 1] \in Nat
            BY <1>1, <5>1
          <6> QED BY <1>2, <3>2, <5>1, <6>1
        <5>3. ends[k + 1] > h
          BY <1>2, <2>3, <5>1, <5>2
        <5>4. h - lo < BufSize
          BY <1>0, <1>2, <3>2, <5>1, <5>2, <5>3
        <5> QED BY <1>2, <2>1, <5>4 DEF AlwaysRoom
      <4> QED BY <4>1, <4>2
    <3> QED BY <1>0, <3>1, <3>2 DEF StartsAtMessage
  <2> QED BY <1>0, <1>2, <1>7, <2>1, <2>2, <2>4, <2>5, <2>6 DEF FramingInv
<1>9. CASE Complete(h) # {}
  <2>1. /\ hi' = h /\ ends' = ends
        /\ \E p \in Marks(h) : lo' = p /\ \A q \in Marks(h) : q <= p
    BY <1>9 DEF Drop, ReadCb
  <2>2. PICK p \in Marks(h) : lo' = p /\ \A q \in Marks(h) : q <= p
    BY <2>1
  <2>3. PICK k \in Sent : p = ends[k] - 1 \/ p = ends[k]
    BY DEF Marks
  <2>4. p \in Nat /\ lo < p /\ p <= h
    BY <1>0, <1>2 DEF Marks
  <2>5. \A j \in Sent : /\ lo < ends[j] /\ ends[j] <= h => ends[j] <= p
                        /\ lo < ends[j] - 1 /\ ends[j] - 1 <= h => ends[j] - 1 <= p
    <3> SUFFICES ASSUME NEW j \in Sent
                 PROVE  /\ lo < ends[j] /\ ends[j] <= h => ends[j] <= p
                        /\ lo < ends[j] - 1 /\ ends[j] - 1 <= h => ends[j] - 1 <= p
      OBVIOUS
    <3>1. ends[j] \in Nat
      BY <1>1
    <3>2. ASSUME lo < ends[j], ends[j] <= h PROVE ends[j] <= p
      <4>1. ends[j] \in Marks(h)
        BY <1>2, <3>1, <3>2 DEF Marks
      <4> QED BY <2>2, <4>1
    <3>3. ASSUME lo < ends[j] - 1, ends[j] - 1 <= h PROVE ends[j] - 1 <= p
      <4>1. ends[j] - 1 \in Marks(h)
        BY <1>2, <3>1, <3>3 DEF Marks
      <4> QED BY <2>2, <4>1
    <3> QED BY <3>2, <3>3
  <2>6. TypeOK'
    BY <1>0, <1>2, <1>4, <1>6, <2>1, <2>2, <2>4 DEF TypeOK, Sent, Message
  <2>7. StartsAtMessage'
    BY <1>0, <1>2, <2>1, <2>2, <2>3 DEF StartsAtMessage
  <2>8. Lengths' /\ NothingLeft'
    <3>1. Lengths'
      BY <1>0, <1>2 DEF Lengths
    <3>2. ASSUME NEW j \in Sent, ends[j] <= h PROVE ends[j] - 1 <= p
      <4>1. ends[j] \in Nat
        BY <1>1
      <4>2. CASE lo < ends[j]
        BY <2>4, <2>5, <3>2, <4>1, <4>2
      <4>3. CASE ends[j] <= lo
        BY <1>2, <2>4, <4>1, <4>3
      <4> QED BY <1>2, <4>1, <4>2, <4>3
    <3> QED BY <1>2, <2>2, <3>1, <3>2 DEF NothingLeft
  <2>9. GoneIsHandled'
    <3> SUFFICES ASSUME NEW j \in Sent
                 PROVE  /\ times'[j] > 0 => ends[j] <= p
                        /\ ends[j] - 1 <= p /\ times'[j] = 0 => j \in split'
      BY <1>0, <1>2, <2>1, <2>2 DEF GoneIsHandled
    <3>1. CASE j \in Complete(h)
      BY <1>0, <1>1, <1>2, <1>3, <1>4, <2>5, <3>1
    <3>2. CASE j \notin Complete(h)
      <4>1. times'[j] = times[j]
        BY <1>0, <1>2, <1>4, <3>2
      <4>2. times[j] > 0 => ends[j] <= p
        BY <1>0, <1>1, <1>2, <2>4 DEF GoneIsHandled
      <4>3. ASSUME ends[j] - 1 <= p, times[j] = 0 PROVE j \in split'
        <5>1. CASE ends[j] - 1 <= lo
          BY <1>0, <1>2, <4>3, <5>1 DEF GoneIsHandled
        <5>2. CASE ~(ends[j] - 1 <= lo)
          <6>1. ends[j] - 1 = h
            <7>1. ends[j] \in Nat /\ lo < ends[j] - 1
              BY <1>1, <1>2, <5>2
            <7>2. ends[j] > h
              BY <1>2, <3>2, <7>1 DEF Complete
            <7> QED BY <1>2, <2>4, <4>3, <7>1, <7>2
          <6> QED BY <1>2, <6>1
        <5> QED BY <5>1, <5>2
      <4> QED BY <4>1, <4>2, <4>3
    <3> QED BY <3>1, <3>2
  <2>10. AlwaysRoom'
    <3>1. CASE k = Len(ends)
      BY <1>0, <1>1, <1>2, <2>1, <2>2, <2>3, <2>4, <3>1 DEF AlwaysRoom
    <3>2. CASE k # Len(ends)
      <4>1. k + 1 \in Sent /\ ends[k] + 2 <= ends[k + 1] /\ ends[k + 1] - ends[k] < BufSize
        BY <1>0, <1>1, <3>2 DEF Lengths
      <4>2. ends[k + 1] - 1 > h
        <5>1. ends[k] \in Nat /\ ends[k + 1] \in Nat
          BY <1>1, <4>1
        <5>2. lo < ends[k + 1] - 1 /\ ends[k + 1] - 1 > p
          BY <1>2, <2>3, <2>4, <4>1, <5>1
        <5> QED BY <1>2, <2>4, <2>5, <4>1, <5>1, <5>2
      <4>3. h - p < BufSize
        <5>1. ends[k] \in Nat /\ ends[k + 1] \in Nat
          BY <1>1, <4>1
        <5> QED BY <1>0, <1>2, <2>3, <2>4, <4>1, <4>2, <5>1
      <4> QED BY <1>2, <2>2, <4>3 DEF AlwaysRoom
    <3> QED BY <3>1, <3>2
  <2>11. \A j \in Message : j \notin Sent' => times'[j] = 0
    BY <1>0, <1>2, <1>3, <1>4
  <2> QED BY <1>7, <2>6, <2>7, <2>8, <2>9, <2>10, <2>11 DEF FramingInv
<1> QED BY <1>8, <1>9

\* Every step keeps the invariant.
LEMMA StepKeepsInv == FramingInv /\ [Next]_vars => FramingInv'
<1> SUFFICES ASSUME FramingInv, [Next]_vars PROVE FramingInv'
  OBVIOUS
<1>1. CASE UNCHANGED vars
  BY <1>1 DEF vars, FramingInv, TypeOK, Lengths, StartsAtMessage, NothingLeft,
     GoneIsHandled, AlwaysRoom, HandedOverOnce, Sent, Start, Total
<1> QED BY <1>1, SendKeepsInv, ReadKeepsInv DEF Next

\* The inductive invariant holds in every reachable state.
THEOREM FramingInvariant == Spec => []FramingInv
BY InitHolds, StepKeepsInv, PTL DEF Spec

\* Type correctness of Framing.
THEOREM FramingTypeCorrect == Spec => []TypeOK
<1>1. FramingInv => TypeOK
  BY DEF FramingInv
<1> QED BY <1>1, FramingInvariant, PTL

\* Messages are handed over whole and once, but for those whose CR and LF
\* came in different reads.
THEOREM HandsOverOnce == Spec => []HandedOverOnce
<1>1. FramingInv => HandedOverOnce
  BY DEF FramingInv
<1> QED BY <1>1, FramingInvariant, PTL

\* The reader can always read on.
THEOREM NeverFull == Spec => []AlwaysRoom
<1>1. FramingInv => AlwaysRoom
  BY DEF FramingInv
<1> QED BY <1>1, FramingInvariant, PTL
=============================================================================
