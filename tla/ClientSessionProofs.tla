-------------------------- MODULE ClientSessionProofs --------------------------
(***************************************************************************)
(* What a worker makes of the bytes of a client, for any length of token,  *)
(* buffer and reads, any lines, any number of connections and conns.       *)
(***************************************************************************)
EXTENDS ClientSession, FiniteSetTheorems, FunctionTheorems, TLAPS

\* A connection has a conn while it is open, which serves it alone.
StageInv ==
  /\ \A c \in Conn : stage[c] = "open" <=> obj[c] # NoObj
  /\ \A c \in Conn : stage[c] = "open" => serves[obj[c]] = c
  /\ \A c, d \in Conn : obj[c] = obj[d] /\ c # d => obj[c] = NoObj

\* Nothing has been read or sent for a connection that is yet to come.
NewInv ==
  /\ \A c \in Conn : stage[c] = "none" =>
       arrived[c] = 0 /\ read[c] = 0 /\ calls[c] = 0 /\ ends[c] = <<>>
  /\ \A r \in forwarded : stage[r[1]] # "none"

\* Until the token is complete the buffer holds what has come of it.
UntilToken(c) ==
  stage[c] = "open" /\ ~isVerify[obj[c]] =>
    /\ rlen[obj[c]] < TokenLength
    /\ read[c] = rlen[obj[c]] /\ arrived[c] = read[c] /\ calls[c] = 0
    /\ \A i \in 1..rlen[obj[c]] : rBuf[obj[c]][i] = <<c, i>>

\* The first len bytes of buf are those of c behind its token, whose lines
\* end at e, but for the CRs of its first h lines.
Holds(e, buf, c, len, h) ==
  /\ h \in 0..Len(e)
  /\ \A k \in 1..h : e[k] <= len
  /\ \A i \in 1..len : buf[i] = IF \E k \in 1..h : i = e[k] - 1
                                THEN Nul ELSE <<c, TokenLength + i>>

\* From then on it holds its lines, and a callback that has read its first
\* line has handled one.
BehindToken(c) ==
  stage[c] = "open" /\ isVerify[obj[c]] =>
    /\ token[c]
    /\ read[c] = TokenLength + rlen[obj[c]] /\ read[c] <= arrived[c]
    /\ arrived[c] = read[c] \/ rlen[obj[c]] = BufSize
    /\ Holds(ends[c], rBuf[obj[c]], c, rlen[obj[c]], calls[c])
    /\ ends[c] # <<>> /\ ends[c][1] <= rlen[obj[c]] => calls[c] > 0

\* What is handled is sent, if it is a request that fits.
HandledIsSent(c) ==
  stage[c] = "open" /\ calls[c] > 0 /\ Sendable(c) /\ ends[c] # <<>> /\ TextLength(c) > 0
  => <<c, FirstLine(c)>> \in forwarded

ConnInv(c) == UntilToken(c) /\ BehindToken(c) /\ HandledIsSent(c)

SessionInv ==
  /\ TypeOK
  /\ StageInv
  /\ NewInv
  /\ \A c \in Conn : ConnInv(c)
  /\ OnlyOwnFirstLine

-----------------------------------------------------------------------------
(* The buffer.                                                             *)

\* The least element of a set of numbers.
LEMMA MinIs ==
  ASSUME NEW S \in SUBSET Int, NEW x \in S, \A y \in S : x <= y
  PROVE  Min(S) = x
<1>1. \E z \in S : \A y \in S : z <= y
  OBVIOUS
<1>2. Min(S) \in S /\ \A y \in S : Min(S) <= y
  BY <1>1 DEF Min
<1>3. Min(S) <= x /\ x <= Min(S) /\ Min(S) \in Int
  BY <1>2
<1> QED BY <1>3

\* The places of the line ends of a connection.
LEMMA EndsFacts ==
  ASSUME TypeOK, NEW c \in Conn
  PROVE  /\ ends[c] \in Seq(Nat) /\ Len(ends[c]) \in Nat
         /\ \A k \in 1..Len(ends[c]) : ends[c][k] \in Nat /\ ends[c][k] >= 2
         /\ \A j, k \in 1..Len(ends[c]) : j < k => ends[c][j] + 2 <= ends[c][k]
         /\ ends[c] # <<>> <=> Len(ends[c]) > 0
         /\ c \in Nat \ {0}
<1>1. ends[c] \in Streams \/ ends[c] = <<>>
  BY DEF TypeOK
<1>2. ends[c] \in Seq(Nat)
  <2>1. <<>> \in Seq(Nat) /\ Streams \subseteq Seq(Nat)
    BY ClientSessionAssumption
  <2> QED BY <1>1, <2>1
<1>3. c \in Nat \ {0}
  BY ClientSessionAssumption DEF Conn
<1> QED BY <1>1, <1>2, <1>3, ClientSessionAssumption

\* A byte of c is a CR or a LF if a line of it ends there, and the 0 that
\* takes the place of a CR is neither.
LEMMA ByteFacts ==
  ASSUME TypeOK, NEW c \in Conn, NEW p \in Nat
  PROVE  /\ ~IsCR(Nul) /\ ~IsLF(Nul) /\ <<c, p>> # Nul
         /\ IsCR(<<c, p>>) <=> \E k \in 1..Len(ends[c]) : p = TokenLength + ends[c][k] - 1
         /\ IsLF(<<c, p>>) <=> \E k \in 1..Len(ends[c]) : p = TokenLength + ends[c][k]
<1>1. c # 0
  BY EndsFacts
<1>2. <<c, p>> # Nul
  BY <1>1 DEF Nul
<1> QED BY <1>2 DEF IsCR, IsLF

\* The CRLFs that are left in the buffer are those of the lines that came
\* and were not handled.
LEMMA CRLFsLeft ==
  ASSUME TypeOK, NEW c \in Conn, NEW buf, NEW len \in Nat, NEW h \in Nat,
         Holds(ends[c], buf, c, len, h)
  PROVE  CRLFs(buf, len) = {ends[c][k] - 1 : k \in {l \in (h + 1)..Len(ends[c]) : ends[c][l] <= len}}
<1> DEFINE e == ends[c]
           Left == {l \in (h + 1)..Len(e) : e[l] <= len}
<1>1. /\ Len(e) \in Nat /\ h \in 0..Len(e)
      /\ \A k \in 1..Len(e) : e[k] \in Nat /\ e[k] >= 2
      /\ \A j, k \in 1..Len(e) : j < k => e[j] + 2 <= e[k]
      /\ TokenLength \in Nat
  BY EndsFacts, ClientSessionAssumption DEF Holds
<1>2. \A i \in 1..len : buf[i] = IF \E k \in 1..h : i = e[k] - 1
                                 THEN Nul ELSE <<c, TokenLength + i>>
  BY DEF Holds
<1>3. \A i \in 1..len : TokenLength + i \in Nat
  BY <1>1
<1> HIDE DEF e
<1>4. ASSUME NEW i \in 1..(len - 1), IsCR(buf[i])
      PROVE  \E k \in Left : i = e[k] - 1
  <2>1. i \in 1..len /\ ~(\E k \in 1..h : i = e[k] - 1)
    <3>1. i \in 1..len /\ 0 \in Nat
      OBVIOUS
    <3>2. buf[i] # Nul
      BY <1>4, <3>1, ByteFacts
    <3> QED BY <1>2, <3>1, <3>2
  <2>2. buf[i] = <<c, TokenLength + i>>
    BY <1>2, <2>1
  <2>3. PICK k \in 1..Len(e) : TokenLength + i = TokenLength + e[k] - 1
    BY <1>3, <1>4, <2>1, <2>2, ByteFacts DEF e
  <2>4. i = e[k] - 1
    BY <1>1, <2>3
  <2>5. k \notin 1..h
    BY <2>1, <2>4
  <2> QED BY <1>1, <2>4, <2>5
<1>5. ASSUME NEW k \in Left
      PROVE  /\ e[k] - 1 \in 1..(len - 1)
             /\ IsCR(buf[e[k] - 1]) /\ IsLF(buf[e[k] - 1 + 1])
  <2>1. k \in 1..Len(e) /\ k > h /\ e[k] <= len /\ e[k] \in Nat /\ e[k] >= 2
    BY <1>1
  <2>2. \A j \in 1..h : e[j] + 2 <= e[k] /\ e[j] \in Nat
    BY <1>1, <2>1
  <2>3. e[k] - 1 \in 1..len /\ e[k] \in 1..len /\ e[k] - 1 \in 1..(len - 1) /\ e[k] - 1 + 1 = e[k]
    BY <2>1
  <2>4. buf[e[k] - 1] = <<c, TokenLength + (e[k] - 1)>> /\ buf[e[k]] = <<c, TokenLength + e[k]>>
    <3>1. ~(\E j \in 1..h : e[k] - 1 = e[j] - 1)
      BY <2>1, <2>2
    <3>2. ~(\E j \in 1..h : e[k] = e[j] - 1)
      BY <2>1, <2>2
    <3>3. buf[e[k] - 1] = <<c, TokenLength + (e[k] - 1)>>
      BY <1>2, <2>3, <3>1
    <3>4. buf[e[k]] = <<c, TokenLength + e[k]>>
      BY <1>2, <2>3, <3>2
    <3> QED BY <3>3, <3>4
  <2>5. TokenLength + (e[k] - 1) = TokenLength + e[k] - 1
    BY <1>1, <2>1
  <2>6. IsCR(<<c, TokenLength + (e[k] - 1)>>) /\ IsLF(<<c, TokenLength + e[k]>>)
    BY <1>3, <2>1, <2>3, <2>5, ByteFacts DEF e
  <2> QED BY <2>3, <2>4, <2>6
<1> HIDE DEF Left
<1>6. CRLFs(buf, len) = {e[k] - 1 : k \in Left}
  <2>1. ASSUME NEW i \in CRLFs(buf, len) PROVE i \in {e[k] - 1 : k \in Left}
    BY <1>4 DEF CRLFs
  <2>2. ASSUME NEW k \in Left PROVE e[k] - 1 \in CRLFs(buf, len)
    BY <1>5 DEF CRLFs
  <2> QED BY <2>1, <2>2
<1> QED BY <1>6 DEF Left, e

\* If the first line came and was not handled, there is one.
LEMMA LineIsFound ==
  ASSUME TypeOK, NEW c \in Conn, NEW buf, NEW len \in Nat,
         Holds(ends[c], buf, c, len, 0), ends[c] # <<>>, ends[c][1] <= len
  PROVE  CRLFs(buf, len) # {}
<1>1. Len(ends[c]) \in Nat /\ Len(ends[c]) > 0 /\ 0 + 1 = 1
  BY EndsFacts
<1>2. 1 \in {l \in (0 + 1)..Len(ends[c]) : ends[c][l] <= len}
  BY <1>1
<1>3. CRLFs(buf, len) = {ends[c][k] - 1 : k \in {l \in (0 + 1)..Len(ends[c]) : ends[c][l] <= len}}
  <2>1. 0 \in Nat
    OBVIOUS
  <2> QED BY <2>1, CRLFsLeft
<1>4. ends[c][1] - 1 \in CRLFs(buf, len)
  BY <1>2, <1>3
<1> QED BY <1>4

\* The first of them is that of the next line.
LEMMA FirstIsNext ==
  ASSUME TypeOK, NEW c \in Conn, NEW buf, NEW len \in Nat, NEW h \in Nat,
         Holds(ends[c], buf, c, len, h), CRLFs(buf, len) # {}
  PROVE  /\ h + 1 \in 1..Len(ends[c]) /\ ends[c][h + 1] <= len
         /\ FirstCRLF(buf, len) = ends[c][h + 1] - 1
<1> DEFINE e == ends[c]
           Left == {l \in (h + 1)..Len(e) : e[l] <= len}
<1>1. /\ Len(e) \in Nat /\ h \in 0..Len(e)
      /\ \A k \in 1..Len(e) : e[k] \in Nat /\ e[k] >= 2
      /\ \A j, k \in 1..Len(e) : j < k => e[j] + 2 <= e[k]
  BY EndsFacts DEF Holds
<1>2. CRLFs(buf, len) = {e[k] - 1 : k \in Left}
  BY CRLFsLeft
<1> HIDE DEF e
<1>3. PICK k \in Left : TRUE
  BY <1>2
<1>4. \A l \in Left : l \in 1..Len(e) /\ e[l] <= len /\ (l = h + 1 \/ h + 1 < l)
  BY <1>1
<1>5. h + 1 \in 1..Len(e) /\ e[h + 1] <= len /\ h + 1 \in Left
  <2>1. h + 1 \in 1..Len(e)
    BY <1>1, <1>3
  <2>2. e[h + 1] <= e[k]
    BY <1>1, <1>3, <1>4, <2>1
  <2>3. e[h + 1] <= len
    BY <1>1, <1>3, <1>4, <2>1, <2>2
  <2> QED BY <1>1, <2>1, <2>3
<1>6. \A l \in Left : e[h + 1] - 1 <= e[l] - 1
  BY <1>1, <1>4, <1>5
<1> HIDE DEF Left
<1>7. Min(CRLFs(buf, len)) = e[h + 1] - 1
  <2>1. CRLFs(buf, len) \in SUBSET Int
    BY DEF CRLFs
  <2>2. e[h + 1] - 1 \in CRLFs(buf, len) /\ \A y \in CRLFs(buf, len) : e[h + 1] - 1 <= y
    BY <1>2, <1>5, <1>6
  <2> QED BY <2>1, <2>2, MinIs
<1> QED BY <1>5, <1>7 DEF e, FirstCRLF

\* A text ends in front of the CR of its line, or of the zero byte n in it.
LEMMA TextEndsInLine ==
  ASSUME NEW n \in Nat, NEW m \in Nat, m >= 2, NEW len \in Nat, m <= len,
         NEW t, t = IF n \in 1..(m - 2) THEN n - 1 ELSE m - 2
  PROVE  /\ t \in Nat /\ t <= m - 2 /\ 1..t \subseteq 1..len /\ t + 1 \in 1..len
         /\ \A i \in 1..t : n # i
         /\ t + 1 = m - 1 \/ (t + 1 = n /\ t + 1 < m - 1)
<1>1. CASE n \in 1..(m - 2)
  <2>1. t = n - 1
    BY <1>1
  <2> QED BY <1>1, <2>1
<1>2. CASE n \notin 1..(m - 2)
  <2>1. t = m - 2 /\ t \in Nat
    BY <1>2
  <2>2. \A i \in 1..t : n # i
    BY <1>2, <2>1
  <2> QED BY <2>1, <2>2
<1> QED BY <1>1, <1>2

\* With one more CR overwritten the buffer holds the same bytes, and its
\* text is the first line, always.
LEMMA LineEnded ==
  ASSUME TypeOK, NEW c \in Conn, NEW buf \in [1..BufSize -> Byte], NEW len \in 0..BufSize, NEW h \in Nat,
         Holds(ends[c], buf, c, len, h), CRLFs(buf, len) # {},
         NEW b, b = [buf EXCEPT ![FirstCRLF(buf, len)] = Nul]
  PROVE  /\ b \in [1..BufSize -> Byte]
         /\ Holds(ends[c], b, c, len, h + 1)
         /\ CString(b) = FirstLine(c) /\ CString(b) \in Seq(Byte)
<1> DEFINE e == ends[c]
<1>1. /\ Len(e) \in Nat /\ h \in 0..Len(e) /\ len \in Nat /\ BufSize \in Nat /\ TokenLength \in Nat
      /\ \A k \in 1..Len(e) : e[k] \in Nat /\ e[k] >= 2
      /\ \A j, k \in 1..Len(e) : j < k => e[j] + 2 <= e[k]
  BY EndsFacts, ClientSessionAssumption DEF Holds
<1>2. /\ \A k \in 1..h : e[k] <= len
      /\ \A i \in 1..len : buf[i] = IF \E k \in 1..h : i = e[k] - 1
                                    THEN Nul ELSE <<c, TokenLength + i>>
  BY DEF Holds
<1>3. h + 1 \in 1..Len(e) /\ e[h + 1] <= len /\ FirstCRLF(buf, len) = e[h + 1] - 1
  BY <1>1, FirstIsNext
<1>4. e[h + 1] - 1 \in 1..len /\ 1..len \subseteq 1..BufSize
  BY <1>1, <1>3
<1>5. Nul \in Byte
  BY DEF Byte
<1> HIDE DEF e
<1>6. /\ b \in [1..BufSize -> Byte] /\ b[e[h + 1] - 1] = Nul
      /\ \A i \in 1..BufSize : i # e[h + 1] - 1 => b[i] = buf[i]
  BY <1>3, <1>4, <1>5
<1>7. h + 1 \in 0..Len(e) /\ \A k \in 1..(h + 1) : k \in 1..h \/ k = h + 1
  BY <1>1, <1>3
<1>8. 1..h \subseteq 1..(h + 1) /\ h + 1 \in 1..(h + 1) /\ 1 \in 1..(h + 1)
  BY <1>1
<1>9. \A i \in 1..len : b[i] = IF \E k \in 1..(h + 1) : i = e[k] - 1
                               THEN Nul ELSE <<c, TokenLength + i>>
  <2> SUFFICES ASSUME NEW i \in 1..len
               PROVE  b[i] = IF \E k \in 1..(h + 1) : i = e[k] - 1
                             THEN Nul ELSE <<c, TokenLength + i>>
    OBVIOUS
  <2>1. CASE i = e[h + 1] - 1
    BY <1>6, <1>8, <2>1
  <2>2. CASE i # e[h + 1] - 1
    <3>1. b[i] = buf[i]
      BY <1>4, <1>6, <2>2
    <3>2. (\E k \in 1..(h + 1) : i = e[k] - 1) <=> \E k \in 1..h : i = e[k] - 1
      BY <1>7, <1>8, <2>2
    <3> QED BY <1>2, <3>1, <3>2
  <2> QED BY <2>1, <2>2
<1>10. Holds(e, b, c, len, h + 1)
  BY <1>2, <1>3, <1>7, <1>9 DEF Holds
<1>11. 1 \in 1..Len(e) /\ e[1] \in Nat /\ e[1] >= 2 /\ e[1] <= len
  BY <1>1, <1>2, <1>3
<1>12. \A k \in 1..(h + 1) : e[1] <= e[k] /\ e[k] \in Nat
  BY <1>1, <1>3, <1>11
<1> DEFINE t == TextLength(c)
<1>13. /\ t \in Nat /\ t <= e[1] - 2 /\ 1..t \subseteq 1..len /\ t + 1 \in 1..len
       /\ \A i \in 1..t : nul[c] # i
       /\ t + 1 = e[1] - 1 \/ (t + 1 = nul[c] /\ t + 1 < e[1] - 1)
  <2>1. nul[c] \in Nat
    BY DEF TypeOK
  <2>2. t = IF nul[c] \in 1..(e[1] - 2) THEN nul[c] - 1 ELSE e[1] - 2
    BY DEF TextLength, e
  <2>3. PICK n \in Nat : n = nul[c]
    BY <2>1
  <2>4. PICK m \in Nat : m = e[1]
    BY <1>11
  <2> HIDE DEF t
  <2>5. m >= 2 /\ m <= len /\ len \in Nat /\ t = IF n \in 1..(m - 2) THEN n - 1 ELSE m - 2
    BY <1>1, <1>11, <2>2, <2>3, <2>4
  <2>6. /\ t \in Nat /\ t <= m - 2 /\ 1..t \subseteq 1..len /\ t + 1 \in 1..len
        /\ \A i \in 1..t : n # i
        /\ t + 1 = m - 1 \/ (t + 1 = n /\ t + 1 < m - 1)
    BY ONLY <2>5, TextEndsInLine, m \in Nat, n \in Nat
  <2> QED BY <2>3, <2>4, <2>6
<1> HIDE DEF t
\* Up to there the bytes are what the client sent, and none of them is 0.
<1>14. ASSUME NEW i \in 1..len, i < e[1] - 1
       PROVE  /\ b[i] = <<c, TokenLength + i>> /\ ~IsCR(b[i]) /\ ~IsLF(b[i])
              /\ IsNul(b[i]) <=> i = nul[c]
  <2>1. i \in Nat \ {0} /\ TokenLength + i \in Nat /\ nul[c] \in Nat
    BY <1>1 DEF TypeOK
  <2>2. \A k \in 1..(h + 1) : i # e[k] - 1
    BY <1>11, <1>12, <1>14, <2>1
  <2>3. b[i] = <<c, TokenLength + i>>
    BY <1>9, <2>2
  <2>4. \A k \in 1..Len(e) : e[k] \in Nat /\ i < e[k] - 1
    <3> SUFFICES ASSUME NEW k \in 1..Len(e) PROVE e[k] \in Nat /\ i < e[k] - 1
      OBVIOUS
    <3>1. e[k] \in Nat /\ (k = 1 \/ 1 < k)
      BY <1>1
    <3>2. e[1] <= e[k]
      BY <1>1, <1>11, <3>1
    <3> QED BY <1>11, <1>14, <2>1, <3>1, <3>2
  <2>5. ~IsCR(b[i]) /\ ~IsLF(b[i]) /\ b[i] # Nul
    <3>1. \A k \in 1..Len(e) : TokenLength + i # TokenLength + e[k] - 1 /\ TokenLength + i # TokenLength + e[k]
      BY <1>1, <2>1, <2>4
    <3> QED BY <2>1, <2>3, <3>1, ByteFacts DEF e
  <2>6. b[i][1] = c /\ b[i][2] = TokenLength + i
    BY <2>3
  <2>7. IsNul(b[i]) <=> TokenLength + i = TokenLength + nul[c] /\ nul[c] # 0
    BY <2>5, <2>6 DEF IsNul
  <2>8. TokenLength + i = TokenLength + nul[c] <=> i = nul[c]
    BY <1>1, <2>1
  <2>9. i # 0
    BY <2>1
  <2>10. IsNul(b[i]) <=> i = nul[c]
    BY ONLY <2>7, <2>8, <2>9
  <2> QED BY <2>3, <2>5, <2>10
<1>15. Min({i \in 1..BufSize : IsNul(b[i])}) = t + 1
  <2> DEFINE N == {i \in 1..BufSize : IsNul(b[i])}
  <2>1. t + 1 \in N
    <3>1. IsNul(b[t + 1])
      <4>1. CASE t + 1 = e[1] - 1
        <5>1. b[t + 1] = Nul
          BY <1>8, <1>9, <1>13, <4>1
        <5> QED BY <5>1 DEF IsNul
      <4>2. CASE t + 1 # e[1] - 1
        BY <1>13, <1>14, <4>2
      <4> QED BY <4>1, <4>2
    <3> QED BY <1>4, <1>13, <3>1
  <2>2. ASSUME NEW i \in N PROVE t + 1 <= i
    <3> SUFFICES ASSUME i < t + 1 PROVE FALSE
      BY <1>13
    <3>1. i \in 1..len /\ i \in 1..t /\ i < e[1] - 1
      BY <1>11, <1>13
    <3>2. IsNul(b[i]) /\ nul[c] # i
      BY <1>13, <3>1
    <3> QED BY <1>14, <3>1, <3>2
  <2>3. N \in SUBSET Int
    OBVIOUS
  <2> HIDE DEF N
  <2>4. Min(N) = t + 1
    BY <2>1, <2>2, <2>3, MinIs
  <2> QED BY <2>4 DEF N
<1>16. CString(b) = [i \in 1..t |-> b[i]] /\ CString(b) \in Seq(Byte)
  <2>1. t \in Nat /\ 1..t \subseteq 1..BufSize /\ (t + 1) - 1 = t
    BY <1>4, <1>13
  <2>2. CString(b) = SubSeq(b, 1, t)
    BY <1>15, <2>1 DEF CString
  <2>3. b \in Seq(Byte) /\ Len(b) = BufSize
    BY <1>1, <1>6
  <2>4. [i \in 1..t |-> b[i]] \in Seq(Byte)
    BY <1>6, <2>1
  <2>5. SubSeq(b, 1, t) = [i \in 1..t |-> b[i]]
    BY <2>1, <2>3
  <2> QED BY <2>2, <2>4, <2>5
<1>17. CString(b) = FirstLine(c)
  <2>1. \A i \in 1..t : b[i] = <<c, TokenLength + i>>
    <3> SUFFICES ASSUME NEW i \in 1..t PROVE b[i] = <<c, TokenLength + i>>
      OBVIOUS
    <3>1. i \in 1..len /\ i < e[1] - 1
      BY <1>11, <1>13
    <3> QED BY <1>14, <3>1
  <2> QED BY <1>16, <2>1 DEF FirstLine, t
<1> QED BY <1>6, <1>10, <1>16, <1>17 DEF e

-----------------------------------------------------------------------------
(* One callback.                                                           *)

\* The second half of ClientTcpReadCb has left b in the buffer, whose first
\* len bytes are there, with h lines handled, and has sent on what it should.
LeavesBuffer(c, o, len, b, h) ==
  /\ rBuf' = [rBuf EXCEPT ![o] = b] /\ rlen' = [rlen EXCEPT ![o] = len]
  /\ calls' = [calls EXCEPT ![c] = h]
  /\ Holds(ends[c], b, c, len, h)
  /\ ends[c] # <<>> /\ ends[c][1] <= len => h > 0
  /\ \/ /\ forwarded' = forwarded
        /\ h = calls[c] \/ ~Sendable(c) \/ TextLength(c) = 0
     \/ /\ forwarded' = forwarded \cup {<<c, FirstLine(c)>>}
        /\ Sendable(c) /\ ends[c] # <<>> /\ FirstLine(c) \in Seq(Byte)

\* The second half of ClientTcpReadCb on the bytes behind a token: it ends
\* one line more, and hands on the first, if there is a line to end.
LEMMA LineHandled ==
  ASSUME TypeOK, NEW c \in Conn, NEW o \in Obj, serves[o] = c,
         NEW buf \in [1..BufSize -> Byte], NEW len \in 0..BufSize,
         Holds(ends[c], buf, c, len, calls[c]), HandleLine(o, buf, len)
  PROVE  \E b \in [1..BufSize -> Byte], h \in Nat : LeavesBuffer(c, o, len, b, h)
<1> DEFINE e == ends[c]
<1>1. /\ Len(e) \in Nat /\ calls[c] \in 0..Len(e) /\ calls[c] \in Nat /\ len \in Nat
      /\ \A k \in 1..Len(e) : e[k] \in Nat /\ e[k] >= 2
      /\ e # <<>> <=> Len(e) > 0
  <2>1. calls[c] \in Nat
    BY DEF TypeOK
  <2>2. BufSize \in Nat
    BY ClientSessionAssumption
  <2> QED BY <2>1, <2>2, EndsFacts DEF Holds
<1>2. CASE CRLFs(buf, len) = {}
  <2>1. /\ rBuf' = [rBuf EXCEPT ![o] = buf] /\ rlen' = [rlen EXCEPT ![o] = len]
        /\ calls' = calls /\ forwarded' = forwarded
    BY <1>2 DEF HandleLine
  <2>2. calls' = [calls EXCEPT ![c] = calls[c]]
    BY <2>1 DEF TypeOK
  <2>3. e # <<>> /\ e[1] <= len => calls[c] > 0
    <3> SUFFICES ASSUME e # <<>>, e[1] <= len, calls[c] = 0 PROVE FALSE
      BY <1>1
    <3> QED BY <1>1, <1>2, LineIsFound
  <2>4. Holds(ends[c], buf, c, len, calls[c])
    OBVIOUS
  <2>5. LeavesBuffer(c, o, len, buf, calls[c])
    BY <2>1, <2>2, <2>3, <2>4 DEF LeavesBuffer
  <2> QED BY <1>1, <2>5
<1>3. CASE CRLFs(buf, len) # {}
  <2> DEFINE b == [buf EXCEPT ![FirstCRLF(buf, len)] = Nul]
             h == calls[c] + 1
  <2>1. /\ b \in [1..BufSize -> Byte] /\ Holds(e, b, c, len, h)
        /\ CString(b) = FirstLine(c) /\ FirstLine(c) \in Seq(Byte)
    <3>1. PICK g \in Nat : g = calls[c]
      BY <1>1
    <3>2. Holds(ends[c], buf, c, len, g)
      BY <3>1
    <3>3. /\ b \in [1..BufSize -> Byte] /\ Holds(ends[c], b, c, len, g + 1)
          /\ CString(b) = FirstLine(c) /\ CString(b) \in Seq(Byte)
      BY <1>3, <3>2, LineEnded
    <3> QED BY <3>1, <3>3
  <2>2. /\ rBuf' = [rBuf EXCEPT ![o] = b] /\ rlen' = [rlen EXCEPT ![o] = len]
        /\ ClientInMessageOpt(o, CString(b))
    BY <1>3 DEF HandleLine
  <2> HIDE DEF b
  <2>3. /\ calls' = [calls EXCEPT ![c] = h]
        /\ forwarded' = IF IsRequest(FirstLine(c)) /\ ~TooLarge(FirstLine(c))
                        THEN forwarded \cup {<<c, FirstLine(c)>>} ELSE forwarded
    BY <2>1, <2>2 DEF ClientInMessageOpt
  <2>4. h \in Nat /\ h > 0 /\ Len(e) > 0 /\ e # <<>> /\ e[1] \in Nat /\ e[1] >= 2
    <3>1. h \in 0..Len(e)
      BY <2>1 DEF Holds
    <3> QED BY <1>1, <3>1
  <2> HIDE DEF h
  <2>5. TextLength(c) \in Nat /\ size[c] \in Nat /\ BufSize \in Nat
    <3>1. nul[c] \in Nat /\ size[c] \in Nat
      BY DEF TypeOK
    <3>2. BufSize \in Nat
      BY ClientSessionAssumption
    <3> QED BY <2>4, <3>1, <3>2 DEF TextLength
  <2>6. IsRequest(FirstLine(c)) /\ ~TooLarge(FirstLine(c)) <=> Sendable(c) /\ TextLength(c) > 0
    <3>1. CASE TextLength(c) > 0
      <4>1. FirstLine(c) # <<>> /\ FirstLine(c)[1] = <<c, TokenLength + 1>>
        BY <2>5, <3>1 DEF FirstLine
      <4>2. FirstLine(c)[1][1] = c
        BY <4>1
      <4> QED BY <2>5, <3>1, <4>1, <4>2 DEF IsRequest, TooLarge, Sendable
    <3>2. CASE ~(TextLength(c) > 0)
      <4>1. FirstLine(c) = <<>>
        BY <2>5, <3>2 DEF FirstLine
      <4> QED BY <3>2, <4>1 DEF IsRequest
    <3> QED BY <3>1, <3>2
  <2>7. \/ /\ forwarded' = forwarded
           /\ ~Sendable(c) \/ TextLength(c) = 0
        \/ /\ forwarded' = forwarded \cup {<<c, FirstLine(c)>>}
           /\ Sendable(c) /\ e # <<>> /\ FirstLine(c) \in Seq(Byte)
    BY <2>1, <2>3, <2>4, <2>5, <2>6
  <2>8. LeavesBuffer(c, o, len, b, h)
    BY <2>1, <2>2, <2>3, <2>4, <2>7 DEF LeavesBuffer
  <2> QED BY <2>1, <2>4, <2>8
<1> QED BY <1>2, <1>3

\* What a read callback takes from the socket, and where it puts it.
LEMMA ReadFacts ==
  ASSUME TypeOK, NEW c \in Conn, obj[c] \in Obj, NEW n \in 1..MaxRead,
         read[c] <= arrived[c], arrived[c] + n <= TokenLength + MaxBytes
  PROVE  /\ RecvSize(c, n) \in Nat
         /\ read[c] + RecvSize(c, n) <= arrived[c] + n
         /\ rlen[obj[c]] + RecvSize(c, n) \in 0..BufSize
         /\ \/ read[c] + RecvSize(c, n) = arrived[c] + n
            \/ rlen[obj[c]] + RecvSize(c, n) = BufSize
         /\ Filled(c, n) \in [1..BufSize -> Byte]
         /\ \A i \in 1..rlen[obj[c]] : Filled(c, n)[i] = rBuf[obj[c]][i]
         /\ \A i \in (rlen[obj[c]] + 1)..(rlen[obj[c]] + RecvSize(c, n)) :
              Filled(c, n)[i] = <<c, read[c] + i - rlen[obj[c]]>>
<1> DEFINE o == obj[c]
           l == rlen[o]
           p == read[c]
           a == arrived[c] + n - p
           r == RecvSize(c, n)
<1>1. /\ l \in 0..BufSize /\ p \in Nat /\ BufSize \in Nat /\ a \in Nat
      /\ rBuf[o] \in [1..BufSize -> Byte] /\ arrived[c] \in Nat
      /\ TokenLength + MaxBytes \in Nat /\ p + a <= TokenLength + MaxBytes
  BY ClientSessionAssumption DEF TypeOK
<1>2. r = Min({a, BufSize - l})
  BY DEF RecvSize
<1>3. r \in Nat /\ r <= a /\ l + r \in 0..BufSize /\ (r = a \/ l + r = BufSize)
  <2>1. CASE a <= BufSize - l
    <3>1. \A y \in {a, BufSize - l} : a <= y
      BY <1>1, <2>1
    <3>2. a \in {a, BufSize - l} /\ {a, BufSize - l} \in SUBSET Int
      BY <1>1
    <3>3. Min({a, BufSize - l}) = a
      BY ONLY <3>1, <3>2, MinIs
    <3>4. r = a
      BY ONLY <1>2, <3>3
    <3> HIDE DEF r, p, l, a
    <3> QED BY <1>1, <2>1, <3>4
  <2>2. CASE ~(a <= BufSize - l)
    <3>1. \A y \in {a, BufSize - l} : BufSize - l <= y
      BY <1>1, <2>2
    <3>2. BufSize - l \in {a, BufSize - l} /\ {a, BufSize - l} \in SUBSET Int
      BY <1>1
    <3>3. Min({a, BufSize - l}) = BufSize - l
      BY ONLY <3>1, <3>2, MinIs
    <3>4. r = BufSize - l
      BY ONLY <1>2, <3>3
    <3> HIDE DEF r, p, l, a
    <3> QED BY <1>1, <2>2, <3>4
  <2> QED BY <2>1, <2>2
<1>4. Filled(c, n) = [i \in 1..BufSize |-> IF i \in (l + 1)..(l + r)
                                           THEN <<c, p + i - l>> ELSE rBuf[o][i]]
  BY DEF Filled
<1>5. p + r <= arrived[c] + n /\ (p + r = arrived[c] + n \/ l + r = BufSize)
  BY <1>1, <1>3
<1> HIDE DEF r, p, l, a
<1>6. \A i \in (l + 1)..(l + r) : p + i - l \in Position
  <2>1. \A i \in (l + 1)..(l + r) : i \in Int /\ 1 <= p + (i - l) /\ p + (i - l) <= p + a
    BY <1>1, <1>3
  <2> QED BY <1>1, <2>1 DEF Position
<1>7. \A i \in (l + 1)..(l + r) : <<c, p + i - l>> \in Byte
  BY <1>6 DEF Byte
<1>8. (l + 1)..(l + r) \subseteq 1..BufSize /\ 1..l \subseteq 1..BufSize
      /\ \A i \in 1..l : i \notin (l + 1)..(l + r)
  BY <1>1, <1>3
<1>9. Filled(c, n) \in [1..BufSize -> Byte]
  BY <1>1, <1>4, <1>7
<1>10. \A i \in 1..l : Filled(c, n)[i] = rBuf[o][i]
  BY <1>4, <1>8
<1>11. \A i \in (l + 1)..(l + r) : Filled(c, n)[i] = <<c, p + i - l>>
  BY <1>4, <1>8
<1> QED BY <1>3, <1>5, <1>9, <1>10, <1>11 DEF r, p, l

\* A connection that a step does not touch keeps what is said of it.
LEMMA ConnKept ==
  ASSUME NEW d \in Conn, ConnInv(d), stage'[d] = stage[d],
         stage[d] = "open" =>
           /\ obj'[d] = obj[d] /\ rBuf'[obj[d]] = rBuf[obj[d]]
           /\ rlen'[obj[d]] = rlen[obj[d]] /\ isVerify'[obj[d]] = isVerify[obj[d]],
         token'[d] = token[d], nul'[d] = nul[d], size'[d] = size[d], ends'[d] = ends[d],
         arrived'[d] = arrived[d], read'[d] = read[d], calls'[d] = calls[d],
         forwarded \subseteq forwarded'
  PROVE  ConnInv(d)'
<1>1. UntilToken(d)'
  BY DEF ConnInv, UntilToken
<1>2. BehindToken(d)'
  <2> SUFFICES ASSUME stage[d] = "open", isVerify[obj[d]] PROVE BehindToken(d)'
    BY DEF BehindToken
  <2>1. BehindToken(d)
    BY DEF ConnInv
  <2>2. Holds(ends[d], rBuf[obj[d]], d, rlen[obj[d]], calls[d])
    BY <2>1 DEF BehindToken
  <2>3. Holds(ends[d], rBuf[obj[d]], d, rlen[obj[d]], calls[d])'
    <3>1. /\ ends'[d] = ends[d] /\ rBuf'[obj'[d]] = rBuf[obj[d]]
          /\ rlen'[obj'[d]] = rlen[obj[d]] /\ calls'[d] = calls[d]
      OBVIOUS
    <3>2. Holds(ends'[d], rBuf'[obj'[d]], d, rlen'[obj'[d]], calls'[d])
      BY ONLY <2>2, <3>1
    <3> QED BY <3>2 DEF Holds
  <2> QED BY <2>1, <2>3 DEF BehindToken
<1>3. FirstLine(d)' = FirstLine(d) /\ TextLength(d)' = TextLength(d) /\ Sendable(d)' = Sendable(d)
  BY DEF FirstLine, TextLength, Sendable
<1>4. HandledIsSent(d)'
  BY <1>3 DEF ConnInv, HandledIsSent
<1> QED BY <1>1, <1>2, <1>4 DEF ConnInv

\* Nothing is said of a connection that is not open.
LEMMA NotOpen ==
  ASSUME NEW d \in Conn, stage'[d] # "open"
  PROVE  ConnInv(d)'
BY DEF ConnInv, UntilToken, BehindToken, HandledIsSent

-----------------------------------------------------------------------------
(* The steps.                                                              *)

LEMMA InitSessionInv == Init => SessionInv
<1> SUFFICES ASSUME Init PROVE SessionInv
  OBVIOUS
<1> USE DEF Init
<1>1. TypeOK
  <2>1. Nul \in Byte /\ BufSize \in Nat /\ TokenLength + MaxBytes \in Nat
    BY ClientSessionAssumption DEF Byte
  <2> QED BY <2>1 DEF TypeOK
<1>2. StageInv /\ NewInv /\ OnlyOwnFirstLine
  BY DEF StageInv, NewInv, OnlyOwnFirstLine
<1>3. \A c \in Conn : ConnInv(c)
  BY DEF ConnInv, UntilToken, BehindToken, HandledIsSent
<1> QED BY <1>1, <1>2, <1>3 DEF SessionInv

LEMMA ConnectKeepsInv ==
  ASSUME SessionInv, NEW c \in Conn, NEW o \in Obj, Connect(c, o)
  PROVE  SessionInv'
<1> USE DEF Connect, ConnNew
<1>1. TypeOK /\ StageInv /\ NewInv /\ OnlyOwnFirstLine /\ \A d \in Conn : ConnInv(d)
  BY DEF SessionInv
<1>2. BufSize \in Nat /\ TokenLength \in Nat /\ TokenLength > 0 /\ o # NoObj
  BY ClientSessionAssumption
<1>3. TypeOK'
  <2>1. /\ rlen' \in [Obj -> 0..BufSize] /\ isVerify' \in [Obj -> BOOLEAN]
        /\ serves' \in [Obj -> Conn \cup {0}]
        /\ stage' \in [Conn -> {"none", "open", "closed"}] /\ obj' \in [Conn -> Obj \cup {NoObj}]
    BY <1>1, <1>2 DEF TypeOK
  <2>2. token' \in [Conn -> BOOLEAN] /\ nul' \in [Conn -> Nat] /\ size' \in [Conn -> Nat]
    <3>1. Nuls \subseteq Nat /\ Sizes \subseteq Nat
      BY ClientSessionAssumption
    <3>2. PICK p \in Nuls : nul' = [nul EXCEPT ![c] = p]
      OBVIOUS
    <3>3. PICK m \in Sizes : size' = [size EXCEPT ![c] = m]
      OBVIOUS
    <3> QED BY <1>1, <3>1, <3>2, <3>3 DEF TypeOK
  <2>3. ends' \in [Conn -> Streams \cup {<<>>}]
    BY <1>1 DEF TypeOK
  <2> QED BY <1>1, <2>1, <2>2, <2>3 DEF TypeOK
<1>4. /\ stage'[c] = "open" /\ obj'[c] = o /\ serves'[o] = c /\ rlen'[o] = 0 /\ isVerify'[o] = FALSE
      /\ arrived' = arrived /\ read' = read /\ calls' = calls /\ forwarded' = forwarded
      /\ rBuf' = rBuf /\ stage[c] = "none"
  BY <1>1 DEF TypeOK
<1>5. \A d \in Conn : d # c =>
        /\ stage'[d] = stage[d] /\ obj'[d] = obj[d] /\ obj[d] # o
        /\ token'[d] = token[d] /\ ends'[d] = ends[d] /\ nul'[d] = nul[d] /\ size'[d] = size[d]
  BY <1>1 DEF TypeOK
<1>6. \A p \in Obj : p # o =>
        serves'[p] = serves[p] /\ rlen'[p] = rlen[p] /\ isVerify'[p] = isVerify[p]
  BY <1>1 DEF TypeOK
<1>7. \A d \in Conn : stage[d] = "open" => obj[d] \in Obj
  BY <1>1 DEF StageInv, TypeOK
<1> HIDE DEF Connect, ConnNew
<1>8. StageInv'
  BY <1>1, <1>2, <1>4, <1>5, <1>6, <1>7 DEF StageInv
<1>9. NewInv'
  BY <1>1, <1>4, <1>5 DEF NewInv, TypeOK
<1>10. OnlyOwnFirstLine'
  <2> SUFFICES ASSUME NEW r \in forwarded
               PROVE  /\ token'[r[1]] /\ Sendable(r[1])' /\ ends'[r[1]] # <<>>
                      /\ r[2] = FirstLine(r[1])'
    BY <1>4 DEF OnlyOwnFirstLine
  <2>1. r[1] \in Conn /\ r[1] # c
    BY <1>1, <1>4 DEF NewInv, TypeOK
  <2>2. FirstLine(r[1])' = FirstLine(r[1]) /\ Sendable(r[1])' = Sendable(r[1])
    BY <1>5, <2>1 DEF FirstLine, TextLength, Sendable
  <2> QED BY <1>1, <1>5, <2>1, <2>2 DEF OnlyOwnFirstLine
<1>11. ASSUME NEW d \in Conn PROVE ConnInv(d)'
  <2>1. CASE d = c
    <3>1. UntilToken(c)' /\ BehindToken(c)' /\ HandledIsSent(c)'
      <4>1. arrived'[c] = 0 /\ read'[c] = 0 /\ calls'[c] = 0
        BY <1>1, <1>4 DEF NewInv
      <4> QED BY <1>2, <1>4, <4>1 DEF UntilToken, BehindToken, HandledIsSent
    <3> QED BY <2>1, <3>1 DEF ConnInv
  <2>2. CASE d # c
    <3>1. stage[d] = "open" => obj[d] \in Obj /\ obj[d] # o
      BY <1>5, <1>7, <2>2
    <3> QED BY <1>1, <1>4, <1>5, <1>6, <2>2, <3>1, ConnKept
  <2> QED BY <2>1, <2>2
<1> QED BY <1>3, <1>8, <1>9, <1>10, <1>11 DEF SessionInv

\* A closed connection leaves the others as they are.
LEMMA CloseKeepsInv ==
  ASSUME SessionInv, NEW c \in Conn, stage[c] = "open", ConnClose(c), TypeOK',
         UNCHANGED <<serves, clientVars, calls, forwarded>>,
         \A p \in Obj : p # obj[c] =>
           rBuf'[p] = rBuf[p] /\ rlen'[p] = rlen[p] /\ isVerify'[p] = isVerify[p],
         \A d \in Conn : d # c => arrived'[d] = arrived[d] /\ read'[d] = read[d]
  PROVE  SessionInv'
<1>1. TypeOK /\ StageInv /\ NewInv /\ OnlyOwnFirstLine /\ \A d \in Conn : ConnInv(d)
  BY DEF SessionInv
<1>2. /\ stage'[c] = "closed" /\ obj'[c] = NoObj /\ serves' = serves
      /\ token' = token /\ ends' = ends /\ nul' = nul /\ size' = size
      /\ calls' = calls /\ forwarded' = forwarded
  BY <1>1 DEF ConnClose, TypeOK, clientVars
<1>3. \A d \in Conn : d # c => stage'[d] = stage[d] /\ obj'[d] = obj[d]
  BY <1>1 DEF ConnClose, TypeOK
<1>4. \A d \in Conn : d # c /\ stage[d] = "open" => obj[d] \in Obj /\ obj[d] # obj[c]
  BY <1>1 DEF StageInv, TypeOK
<1>5. StageInv'
  BY <1>1, <1>2, <1>3 DEF StageInv
<1>6. NewInv'
  BY <1>1, <1>2, <1>3 DEF NewInv, TypeOK
<1>7. OnlyOwnFirstLine'
  BY <1>1, <1>2 DEF OnlyOwnFirstLine, FirstLine, TextLength, Sendable
<1>8. ASSUME NEW d \in Conn PROVE ConnInv(d)'
  <2>1. CASE d = c
    BY <1>2, <2>1, NotOpen
  <2>2. CASE d # c
    BY <1>1, <1>2, <1>3, <1>4, <2>2, ConnKept
  <2> QED BY <2>1, <2>2
<1> QED BY <1>5, <1>6, <1>7, <1>8 DEF SessionInv

LEMMA ErrorKeepsInv ==
  ASSUME SessionInv, NEW c \in Conn, ClientTcpErrorCb(c)
  PROVE  SessionInv'
<1> USE DEF ClientTcpErrorCb
<1>1. TypeOK
  BY DEF SessionInv
<1>2. TypeOK'
  <2>1. stage' \in [Conn -> {"none", "open", "closed"}] /\ obj' \in [Conn -> Obj \cup {NoObj}]
    BY <1>1 DEF TypeOK, ConnClose
  <2> QED BY <1>1, <2>1 DEF TypeOK, connVars, clientVars
<1>3. UNCHANGED <<serves, clientVars, calls, forwarded>>
  BY DEF connVars
<1>4. rBuf' = rBuf /\ rlen' = rlen /\ isVerify' = isVerify /\ arrived' = arrived /\ read' = read
  BY DEF connVars
<1> QED BY <1>2, <1>3, <1>4, CloseKeepsInv

\* A callback that runs HandleLine on the bytes behind a token.
LEMMA HandledKeepsInv ==
  ASSUME SessionInv, NEW c \in Conn, NEW o \in Obj, NEW n \in Nat, NEW m \in Nat,
         stage[c] = "open", obj[c] = o, token[c],
         NEW buf \in [1..BufSize -> Byte], NEW len \in 0..BufSize,
         Holds(ends[c], buf, c, len, calls[c]), HandleLine(o, buf, len),
         isVerify' = [isVerify EXCEPT ![o] = TRUE],
         arrived' = [arrived EXCEPT ![c] = n], read' = [read EXCEPT ![c] = m],
         n <= TokenLength + MaxBytes, m = TokenLength + len,
         m <= n, n = m \/ len = BufSize,
         UNCHANGED <<stage, obj, serves, clientVars>>
  PROVE  SessionInv'
<1>1. TypeOK /\ StageInv /\ NewInv /\ OnlyOwnFirstLine /\ \A d \in Conn : ConnInv(d)
  BY DEF SessionInv
<1>2. serves[o] = c
  BY <1>1 DEF StageInv
<1>0. PICK b \in [1..BufSize -> Byte], h \in Nat : LeavesBuffer(c, o, len, b, h)
  BY <1>1, <1>2, LineHandled
<1>3. /\ rBuf' = [rBuf EXCEPT ![o] = b] /\ rlen' = [rlen EXCEPT ![o] = len]
      /\ calls' = [calls EXCEPT ![c] = h]
      /\ Holds(ends[c], b, c, len, h)
      /\ ends[c] # <<>> /\ ends[c][1] <= len => h > 0
      /\ \/ /\ forwarded' = forwarded
            /\ h = calls[c] \/ ~Sendable(c) \/ TextLength(c) = 0
         \/ /\ forwarded' = forwarded \cup {<<c, FirstLine(c)>>}
            /\ Sendable(c) /\ ends[c] # <<>> /\ FirstLine(c) \in Seq(Byte)
  BY <1>0 DEF LeavesBuffer
<1>4. /\ stage' = stage /\ obj' = obj /\ serves' = serves
      /\ token' = token /\ ends' = ends /\ nul' = nul /\ size' = size
  BY DEF clientVars
<1>5. forwarded \subseteq forwarded'
  BY <1>3
<1>6. \A r \in forwarded' : r \in forwarded
        \/ /\ r = <<c, FirstLine(c)>> /\ Sendable(c) /\ ends[c] # <<>> /\ FirstLine(c) \in Seq(Byte)
  BY <1>3
<1>7. TokenLength \in Nat /\ BufSize \in Nat /\ TokenLength + MaxBytes \in Nat /\ len \in Nat
  BY ClientSessionAssumption
<1>8. TypeOK'
  <2>1. /\ rBuf' \in [Obj -> [1..BufSize -> Byte]] /\ rlen' \in [Obj -> 0..BufSize]
        /\ isVerify' \in [Obj -> BOOLEAN] /\ calls' \in [Conn -> Nat]
    BY <1>1, <1>3 DEF TypeOK
  <2>2. n \in 0..(TokenLength + MaxBytes) /\ m \in 0..(TokenLength + MaxBytes)
    BY <1>7
  <2>3. /\ arrived' \in [Conn -> 0..(TokenLength + MaxBytes)]
        /\ read' \in [Conn -> 0..(TokenLength + MaxBytes)]
    BY <1>1, <2>2 DEF TypeOK
  <2>4. \A r \in forwarded' : r[1] \in Conn /\ r[2] \in Seq(Byte)
    BY <1>1, <1>6 DEF TypeOK
  <2> QED BY <1>1, <1>4, <2>1, <2>3, <2>4 DEF TypeOK
<1>9. StageInv'
  BY <1>1, <1>4 DEF StageInv
<1>10. \A d \in Conn : d # c =>
         arrived'[d] = arrived[d] /\ read'[d] = read[d] /\ calls'[d] = calls[d]
  BY <1>1, <1>3 DEF TypeOK
<1>11. NewInv'
  <2>1. ASSUME NEW d \in Conn, stage'[d] = "none"
        PROVE  arrived'[d] = 0 /\ read'[d] = 0 /\ calls'[d] = 0 /\ ends'[d] = <<>>
    BY <1>1, <1>4, <1>10, <2>1 DEF NewInv
  <2>2. ASSUME NEW r \in forwarded' PROVE stage'[r[1]] # "none"
    BY <1>1, <1>4, <1>6 DEF NewInv
  <2> QED BY <2>1, <2>2 DEF NewInv
<1>12. OnlyOwnFirstLine'
  <2> SUFFICES ASSUME NEW r \in forwarded'
               PROVE  /\ token'[r[1]] /\ Sendable(r[1])' /\ ends'[r[1]] # <<>>
                      /\ r[2] = FirstLine(r[1])'
    BY DEF OnlyOwnFirstLine
  <2>1. FirstLine(r[1])' = FirstLine(r[1]) /\ Sendable(r[1])' = Sendable(r[1])
    BY <1>4 DEF FirstLine, TextLength, Sendable
  <2>2. token[r[1]] /\ Sendable(r[1]) /\ ends[r[1]] # <<>> /\ r[2] = FirstLine(r[1])
    BY <1>1, <1>6 DEF OnlyOwnFirstLine
  <2> QED BY <1>4, <2>1, <2>2
<1>13. ASSUME NEW d \in Conn PROVE ConnInv(d)'
  <2>1. CASE d # c
    <3>1. stage[d] = "open" => obj[d] \in Obj /\ obj[d] # o
      BY <1>1, <2>1 DEF StageInv, TypeOK
    <3>2. stage[d] = "open" =>
            /\ obj'[d] = obj[d] /\ rBuf'[obj[d]] = rBuf[obj[d]]
            /\ rlen'[obj[d]] = rlen[obj[d]] /\ isVerify'[obj[d]] = isVerify[obj[d]]
      BY <1>1, <1>3, <1>4, <3>1 DEF TypeOK
    <3> QED BY <1>1, <1>4, <1>5, <1>10, <2>1, <3>2, ConnKept
  <2>2. CASE d = c
    <3>1. /\ rBuf'[o] = b /\ rlen'[o] = len /\ isVerify'[o] = TRUE /\ calls'[c] = h
          /\ arrived'[c] = n /\ read'[c] = m /\ obj'[c] = o
      BY <1>1, <1>3, <1>4 DEF TypeOK
    <3>2. UntilToken(c)'
      BY <3>1 DEF UntilToken
    <3>3. BehindToken(c)'
      <4>1. rBuf'[obj'[c]] = b /\ rlen'[obj'[c]] = len /\ ends'[c] = ends[c]
        BY <1>4, <3>1
      <4>2. Holds(ends'[c], rBuf'[obj'[c]], c, rlen'[obj'[c]], calls'[c])
        BY <1>3, <3>1, <4>1
      <4>3. ends'[c] # <<>> /\ ends'[c][1] <= rlen'[obj'[c]] => calls'[c] > 0
        BY <1>3, <3>1, <4>1
      <4>4. /\ read'[c] = TokenLength + rlen'[obj'[c]] /\ read'[c] <= arrived'[c]
            /\ arrived'[c] = read'[c] \/ rlen'[obj'[c]] = BufSize
        BY <3>1, <4>1
      <4> QED BY <1>4, <4>2, <4>3, <4>4 DEF BehindToken
    <3>4. HandledIsSent(c)'
      <4>1. FirstLine(c)' = FirstLine(c) /\ TextLength(c)' = TextLength(c) /\ Sendable(c)' = Sendable(c)
        BY <1>4 DEF FirstLine, TextLength, Sendable
      <4> SUFFICES ASSUME h > 0, Sendable(c), ends[c] # <<>>, TextLength(c) > 0
                   PROVE  <<c, FirstLine(c)>> \in forwarded'
        BY <1>4, <3>1, <4>1 DEF HandledIsSent
      <4>2. CASE h = calls[c]
        BY <1>1, <1>5, <4>2 DEF ConnInv, HandledIsSent
      <4>3. CASE h # calls[c]
        BY <1>3, <4>3
      <4> QED BY <4>2, <4>3
    <3> QED BY <2>2, <3>2, <3>3, <3>4 DEF ConnInv
  <2> QED BY <2>1, <2>2
<1> QED BY <1>8, <1>9, <1>11, <1>12, <1>13 DEF SessionInv

\* Before the token is complete the buffer holds what has come of it, one
\* byte more for each that came, and there is no CRLF in it.
LEMMA TokenPart ==
  ASSUME SessionInv, NEW c \in Conn, NEW n \in 1..MaxRead, stage[c] = "open",
         ~isVerify[obj[c]], arrived[c] + n <= TokenLength + MaxBytes
  PROVE  LET len == rlen[obj[c]] + RecvSize(c, n) IN
         /\ RecvSize(c, n) = n /\ len \in 0..BufSize
         /\ read[c] + n = len /\ arrived[c] + n = len /\ calls[c] = 0
         /\ Filled(c, n) \in [1..BufSize -> Byte]
         /\ \A i \in 1..len : Filled(c, n)[i] = <<c, i>>
         /\ len < TokenLength => CRLFs(Filled(c, n), len) = {}
<1> DEFINE o == obj[c]
           len == rlen[o] + RecvSize(c, n)
<1>1. TypeOK /\ StageInv /\ UntilToken(c) /\ o \in Obj
  BY DEF SessionInv, ConnInv, StageInv, TypeOK
<1>2. /\ rlen[o] < TokenLength /\ read[c] = rlen[o] /\ arrived[c] = read[c] /\ calls[c] = 0
      /\ \A i \in 1..rlen[o] : rBuf[o][i] = <<c, i>>
  BY <1>1 DEF UntilToken
<1>3. /\ rlen[o] \in Nat /\ BufSize \in Nat /\ TokenLength \in Nat /\ MaxRead \in Nat
      /\ TokenLength + MaxRead <= BufSize
  BY <1>1, ClientSessionAssumption DEF TypeOK
<1>4. read[c] <= arrived[c]
  BY <1>2, <1>3
<1>5. /\ RecvSize(c, n) \in Nat
      /\ read[c] + RecvSize(c, n) <= arrived[c] + n
      /\ len \in 0..BufSize
      /\ read[c] + RecvSize(c, n) = arrived[c] + n \/ len = BufSize
      /\ Filled(c, n) \in [1..BufSize -> Byte]
      /\ \A i \in 1..rlen[o] : Filled(c, n)[i] = rBuf[o][i]
      /\ \A i \in (rlen[o] + 1)..len : Filled(c, n)[i] = <<c, read[c] + i - rlen[o]>>
  BY <1>1, <1>4, ReadFacts
<1>6. RecvSize(c, n) = n
  BY <1>2, <1>3, <1>5
<1>7. \A i \in 1..len : Filled(c, n)[i] = <<c, i>>
  <2> SUFFICES ASSUME NEW i \in 1..len PROVE Filled(c, n)[i] = <<c, i>>
    OBVIOUS
  <2>1. CASE i <= rlen[o]
    <3>1. i \in 1..rlen[o]
      BY <1>3, <2>1
    <3>2. rBuf[o][i] = <<c, i>>
      BY <1>2, <3>1
    <3>3. Filled(c, n)[i] = rBuf[o][i]
      BY <1>5, <3>1
    <3> QED BY <3>2, <3>3
  <2>2. CASE ~(i <= rlen[o])
    <3>1. i \in (rlen[o] + 1)..len /\ read[c] + i - rlen[o] = i
      BY <1>2, <1>3, <1>5, <2>2
    <3> QED BY <1>5, <3>1
  <2> QED BY <2>1, <2>2
<1>8. ASSUME len < TokenLength, NEW i \in CRLFs(Filled(c, n), len) PROVE FALSE
  <2>1. i \in 1..len /\ i \in Nat /\ i < TokenLength /\ IsCR(<<c, i>>)
    <3>1. i \in 1..(len - 1) /\ IsCR(Filled(c, n)[i])
      BY <1>8 DEF CRLFs
    <3>2. len \in Nat /\ i \in 1..len /\ i \in Nat /\ i < TokenLength
      BY <1>3, <1>5, <1>8, <3>1
    <3> QED BY <1>7, <3>1, <3>2
  <2>2. PICK k \in 1..Len(ends[c]) : i = TokenLength + ends[c][k] - 1
    BY <1>1, <2>1, ByteFacts
  <2>3. ends[c][k] \in Nat /\ ends[c][k] >= 2
    BY <1>1, EndsFacts
  <2> QED BY <1>3, <2>1, <2>2, <2>3
<1>9. read[c] + n = len /\ arrived[c] + n = len
  BY <1>2, <1>6
<1> QED BY <1>2, <1>5, <1>6, <1>7, <1>8, <1>9

\* The token is taken out of the buffer and the bytes behind it are left.
LEMMA TokenTakenOut ==
  ASSUME SessionInv, NEW c \in Conn, NEW n \in 1..MaxRead, stage[c] = "open",
         ~isVerify[obj[c]], arrived[c] + n <= TokenLength + MaxBytes,
         NEW len \in Nat, len = rlen[obj[c]] + RecvSize(c, n), len >= TokenLength,
         NEW buf, buf = WithoutToken(Filled(c, n), len)
  PROVE  /\ buf \in [1..BufSize -> Byte] /\ len - TokenLength \in 0..BufSize
         /\ Holds(ends[c], buf, c, len - TokenLength, calls[c])
<1> DEFINE f == Filled(c, n)
<1>1. /\ len \in 0..BufSize /\ calls[c] = 0 /\ f \in [1..BufSize -> Byte]
      /\ \A i \in 1..len : f[i] = <<c, i>>
  BY TokenPart
<1>2. TypeOK /\ TokenLength \in Nat /\ TokenLength > 0 /\ BufSize \in Nat
  BY ClientSessionAssumption DEF SessionInv
<1> HIDE DEF f
<1>3. buf = [i \in 1..BufSize |-> IF i <= len - TokenLength THEN f[i + TokenLength] ELSE f[i]]
  BY DEF WithoutToken, f
<1>4. \A i \in 1..(len - TokenLength) : /\ i \in 1..BufSize /\ i + TokenLength \in 1..len
                                        /\ i + TokenLength = TokenLength + i
                                        /\ i <= len - TokenLength
  BY <1>1, <1>2
<1>5. buf \in [1..BufSize -> Byte]
  <2>1. \A i \in 1..BufSize : i <= len - TokenLength => i + TokenLength \in 1..BufSize
    BY <1>1, <1>2
  <2> QED BY <1>1, <1>3, <2>1
<1>6. \A i \in 1..(len - TokenLength) : buf[i] = <<c, TokenLength + i>>
  BY <1>1, <1>3, <1>4
<1>7. Len(ends[c]) \in Nat /\ 0 \in 0..Len(ends[c])
  BY <1>2, EndsFacts
<1>8. Holds(ends[c], buf, c, len - TokenLength, 0)
  BY <1>6, <1>7 DEF Holds
<1> QED BY <1>1, <1>2, <1>5, <1>8

\* What comes behind the token is added to what the buffer holds.
LEMMA MoreBehindToken ==
  ASSUME SessionInv, NEW c \in Conn, NEW n \in 1..MaxRead, stage[c] = "open",
         isVerify[obj[c]], arrived[c] + n <= TokenLength + MaxBytes,
         NEW len, len = rlen[obj[c]] + RecvSize(c, n)
  PROVE  /\ Filled(c, n) \in [1..BufSize -> Byte] /\ len \in 0..BufSize
         /\ Holds(ends[c], Filled(c, n), c, len, calls[c])
         /\ read[c] + RecvSize(c, n) = TokenLength + len
         /\ read[c] + RecvSize(c, n) <= arrived[c] + n
         /\ arrived[c] + n = read[c] + RecvSize(c, n) \/ len = BufSize
<1> DEFINE o == obj[c]
           l == rlen[o]
           e == ends[c]
           f == Filled(c, n)
           h == calls[c]
<1>1. TypeOK /\ StageInv /\ BehindToken(c) /\ o \in Obj
  BY DEF SessionInv, ConnInv, StageInv, TypeOK
<1>2. /\ read[c] = TokenLength + l /\ read[c] <= arrived[c]
      /\ Holds(e, rBuf[o], c, l, h)
  BY <1>1 DEF BehindToken
<1>3. /\ l \in Nat /\ BufSize \in Nat /\ TokenLength \in Nat
      /\ Len(e) \in Nat /\ h \in 0..Len(e) /\ h \in Nat
      /\ \A k \in 1..Len(e) : e[k] \in Nat /\ e[k] >= 2
  <2>1. l \in Nat /\ BufSize \in Nat /\ TokenLength \in Nat /\ h \in Nat
    BY <1>1, ClientSessionAssumption DEF TypeOK
  <2>2. h \in 0..Len(e)
    BY <1>2 DEF Holds
  <2>3. Len(e) \in Nat /\ \A k \in 1..Len(e) : e[k] \in Nat /\ e[k] >= 2
    BY <1>1, EndsFacts
  <2> QED BY <2>1, <2>2, <2>3
<1>4. /\ RecvSize(c, n) \in Nat
      /\ read[c] + RecvSize(c, n) <= arrived[c] + n
      /\ len \in 0..BufSize
      /\ read[c] + RecvSize(c, n) = arrived[c] + n \/ len = BufSize
      /\ f \in [1..BufSize -> Byte]
      /\ \A i \in 1..l : f[i] = rBuf[o][i]
      /\ \A i \in (l + 1)..len : f[i] = <<c, read[c] + i - l>>
  BY <1>1, <1>2, ReadFacts
<1>5. /\ \A k \in 1..h : e[k] <= l
      /\ \A i \in 1..l : rBuf[o][i] = IF \E k \in 1..h : i = e[k] - 1
                                      THEN Nul ELSE <<c, TokenLength + i>>
  BY <1>2 DEF Holds
<1>6. read[c] + RecvSize(c, n) = TokenLength + len /\ l <= len
  BY <1>2, <1>3, <1>4
<1> HIDE DEF f, l, e, h
<1>7. \A k \in 1..h : e[k] <= len /\ e[k] \in Nat
  BY <1>3, <1>4, <1>5, <1>6
<1>8. \A i \in 1..len : f[i] = IF \E k \in 1..h : i = e[k] - 1
                               THEN Nul ELSE <<c, TokenLength + i>>
  <2> SUFFICES ASSUME NEW i \in 1..len
               PROVE  f[i] = IF \E k \in 1..h : i = e[k] - 1 THEN Nul ELSE <<c, TokenLength + i>>
    OBVIOUS
  <2>1. CASE i <= l
    <3>1. i \in 1..l
      BY <1>3, <2>1
    <3> QED BY <1>4, <1>5, <3>1
  <2>2. CASE ~(i <= l)
    <3>1. i \in (l + 1)..len /\ read[c] + i - l = TokenLength + i
      BY <1>2, <1>3, <1>4, <2>2 DEF l
    <3>2. ~(\E k \in 1..h : i = e[k] - 1)
      BY <1>3, <1>5, <1>7, <2>2
    <3> QED BY <1>4, <3>1, <3>2
  <2> QED BY <2>1, <2>2
<1>9. Holds(e, f, c, len, h)
  BY <1>3, <1>7, <1>8 DEF Holds
<1> QED BY <1>4, <1>6, <1>9 DEF e, f, h

LEMMA ReadKeepsInv ==
  ASSUME SessionInv, NEW c \in Conn, NEW n \in 1..MaxRead, ClientTcpReadCb(c, n)
  PROVE  SessionInv'
<1> DEFINE o == obj[c]
           r == RecvSize(c, n)
           len == rlen[o] + r
           f == Filled(c, n)
<1>1. /\ TypeOK /\ StageInv /\ NewInv /\ OnlyOwnFirstLine /\ ConnInv(c)
      /\ \A d \in Conn : ConnInv(d)
  BY DEF SessionInv
<1>2. /\ stage[c] = "open" /\ arrived[c] + n <= TokenLength + MaxBytes
      /\ arrived' = [arrived EXCEPT ![c] = arrived[c] + n]
      /\ read' = [read EXCEPT ![c] = read[c] + r]
      /\ UNCHANGED <<serves, clientVars>>
  BY DEF ClientTcpReadCb
<1>3. o \in Obj /\ o # NoObj /\ rlen[o] \in Nat /\ arrived[c] \in Nat /\ read[c] \in Nat
      /\ arrived[c] + n \in Nat
  BY <1>1, <1>2 DEF StageInv, TypeOK
<1>4. TokenLength \in Nat /\ BufSize \in Nat /\ TokenLength + MaxBytes \in Nat
  BY ClientSessionAssumption
<1>5. CASE ~isVerify[o]
  <2>1. /\ r = n /\ len \in 0..BufSize /\ len \in Nat
        /\ read[c] + n = len /\ arrived[c] + n = len /\ calls[c] = 0
        /\ f \in [1..BufSize -> Byte]
        /\ \A i \in 1..len : f[i] = <<c, i>>
        /\ len < TokenLength => CRLFs(f, len) = {}
    <3>1. /\ r = n /\ len \in 0..BufSize
          /\ read[c] + n = len /\ arrived[c] + n = len /\ calls[c] = 0
          /\ f \in [1..BufSize -> Byte]
          /\ \A i \in 1..len : f[i] = <<c, i>>
          /\ len < TokenLength => CRLFs(f, len) = {}
      BY <1>2, <1>5, TokenPart
    <3>2. len \in Nat
      BY <1>4, <3>1
    <3> QED BY <3>1, <3>2
  <2>2. CASE len >= TokenLength /\ ~token[c]
    <3>1. /\ rBuf' = [rBuf EXCEPT ![o] = f] /\ rlen' = [rlen EXCEPT ![o] = len]
          /\ isVerify' = [isVerify EXCEPT ![o] = TRUE]
          /\ ConnClose(c) /\ UNCHANGED <<calls, forwarded>>
      BY <1>5, <2>2 DEF ClientTcpReadCb, TokenIsWrong
    <3>2. TypeOK'
      <4>1. /\ rBuf' \in [Obj -> [1..BufSize -> Byte]] /\ rlen' \in [Obj -> 0..BufSize]
            /\ isVerify' \in [Obj -> BOOLEAN]
        BY <1>1, <2>1, <3>1 DEF TypeOK
      <4>2. stage' \in [Conn -> {"none", "open", "closed"}] /\ obj' \in [Conn -> Obj \cup {NoObj}]
        BY <1>1, <3>1 DEF TypeOK, ConnClose
      <4>3. arrived[c] + n \in 0..(TokenLength + MaxBytes) /\ read[c] + r \in 0..(TokenLength + MaxBytes)
        BY <1>2, <1>3, <1>4, <2>1
      <4>4. /\ arrived' \in [Conn -> 0..(TokenLength + MaxBytes)]
            /\ read' \in [Conn -> 0..(TokenLength + MaxBytes)]
        BY <1>1, <1>2, <4>3 DEF TypeOK
      <4> QED BY <1>1, <1>2, <3>1, <4>1, <4>2, <4>4 DEF TypeOK, clientVars
    <3>3. \A p \in Obj : p # o =>
            rBuf'[p] = rBuf[p] /\ rlen'[p] = rlen[p] /\ isVerify'[p] = isVerify[p]
      BY <1>1, <3>1 DEF TypeOK
    <3>4. \A d \in Conn : d # c => arrived'[d] = arrived[d] /\ read'[d] = read[d]
      BY <1>1, <1>2 DEF TypeOK
    <3>5. UNCHANGED <<serves, clientVars, calls, forwarded>>
      BY <1>2, <3>1
    <3> QED BY <1>2, <3>1, <3>2, <3>3, <3>4, <3>5, CloseKeepsInv
  <2>3. CASE len >= TokenLength /\ token[c]
    <3> DEFINE buf == WithoutToken(f, len)
               n1 == len - TokenLength
    <3>1. /\ isVerify' = [isVerify EXCEPT ![o] = TRUE] /\ UNCHANGED <<stage, obj>>
          /\ HandleLine(o, buf, n1)
      BY <1>5, <2>3 DEF ClientTcpReadCb, TokenIsWrong
    <3>2. buf \in [1..BufSize -> Byte] /\ n1 \in 0..BufSize /\ Holds(ends[c], buf, c, n1, calls[c])
      BY <1>2, <1>5, <2>1, <2>3, TokenTakenOut
    <3>3. arrived' = [arrived EXCEPT ![c] = len] /\ read' = [read EXCEPT ![c] = len]
      BY <1>2, <2>1
    <3>4. len <= TokenLength + MaxBytes /\ len = TokenLength + n1 /\ len <= len
      BY <1>2, <1>4, <2>1
    <3> HIDE DEF buf, n1, len
    <3>5. UNCHANGED <<stage, obj, serves, clientVars>>
      BY <1>2, <3>1
    <3> QED BY <1>2, <1>3, <2>1, <2>3, <3>1, <3>2, <3>3, <3>4, <3>5, HandledKeepsInv
  <2>4. CASE ~(len >= TokenLength)
    <3>1. HandleLine(o, f, len) /\ UNCHANGED <<isVerify, stage, obj>>
      BY <1>5, <2>4 DEF ClientTcpReadCb
    <3>2. len < TokenLength
      BY <1>4, <2>1, <2>4
    <3>3. /\ rBuf' = [rBuf EXCEPT ![o] = f] /\ rlen' = [rlen EXCEPT ![o] = len]
          /\ UNCHANGED <<calls, forwarded>>
      BY <2>1, <3>1, <3>2 DEF HandleLine
    <3>4. /\ stage' = stage /\ obj' = obj /\ serves' = serves /\ isVerify' = isVerify
          /\ token' = token /\ ends' = ends /\ nul' = nul /\ size' = size
          /\ calls' = calls /\ forwarded' = forwarded
      BY <1>2, <3>1, <3>3 DEF clientVars
    <3>5. /\ \A p \in Obj : p # o => rBuf'[p] = rBuf[p] /\ rlen'[p] = rlen[p]
          /\ rBuf'[o] = f /\ rlen'[o] = len
          /\ arrived'[c] = len /\ read'[c] = len
          /\ \A d \in Conn : d # c => arrived'[d] = arrived[d] /\ read'[d] = read[d]
      BY <1>1, <1>2, <1>3, <2>1, <3>3 DEF TypeOK
    <3>6. TypeOK'
      <4>1. rBuf' \in [Obj -> [1..BufSize -> Byte]] /\ rlen' \in [Obj -> 0..BufSize]
        BY <1>1, <2>1, <3>3 DEF TypeOK
      <4>2. arrived[c] + n \in 0..(TokenLength + MaxBytes) /\ read[c] + r \in 0..(TokenLength + MaxBytes)
        BY <1>2, <1>3, <1>4, <2>1
      <4>3. /\ arrived' \in [Conn -> 0..(TokenLength + MaxBytes)]
            /\ read' \in [Conn -> 0..(TokenLength + MaxBytes)]
        BY <1>1, <1>2, <4>2 DEF TypeOK
      <4> QED BY <1>1, <3>4, <4>1, <4>3 DEF TypeOK
    <3>7. StageInv'
      BY <1>1, <3>4 DEF StageInv
    <3>8. NewInv'
      BY <1>1, <1>2, <3>4, <3>5 DEF NewInv
    <3>9. OnlyOwnFirstLine'
      BY <1>1, <3>4 DEF OnlyOwnFirstLine, FirstLine, TextLength, Sendable
    <3>10. ASSUME NEW d \in Conn PROVE ConnInv(d)'
      <4>1. CASE d = c
        <5>1. UntilToken(c)'
          BY <2>1, <3>2, <3>4, <3>5 DEF UntilToken
        <5>2. BehindToken(c)'
          BY <1>5, <3>4 DEF BehindToken
        <5>3. HandledIsSent(c)'
          BY <2>1, <3>4 DEF HandledIsSent
        <5> QED BY <4>1, <5>1, <5>2, <5>3 DEF ConnInv
      <4>2. CASE d # c
        <5>1. stage[d] = "open" => obj[d] \in Obj /\ obj[d] # o
          BY <1>1, <4>2 DEF StageInv, TypeOK
        <5>2. forwarded \subseteq forwarded'
          BY <3>4
        <5> QED BY <1>1, <3>4, <3>5, <4>2, <5>1, <5>2, ConnKept
      <4> QED BY <4>1, <4>2
    <3> QED BY <3>6, <3>7, <3>8, <3>9, <3>10 DEF SessionInv
  <2> QED BY <2>2, <2>3, <2>4
<1>6. CASE isVerify[o]
  <2>1. HandleLine(o, f, len) /\ UNCHANGED <<isVerify, stage, obj>>
    BY <1>6 DEF ClientTcpReadCb
  <2>2. /\ f \in [1..BufSize -> Byte] /\ len \in 0..BufSize
        /\ Holds(ends[c], f, c, len, calls[c])
        /\ read[c] + r = TokenLength + len
        /\ read[c] + r <= arrived[c] + n
        /\ arrived[c] + n = read[c] + r \/ len = BufSize
    BY <1>2, <1>6, MoreBehindToken
  <2>3. isVerify' = [isVerify EXCEPT ![o] = TRUE]
    BY <1>1, <1>6, <2>1 DEF TypeOK
  <2>4. token[c]
    BY <1>1, <1>2, <1>6 DEF ConnInv, BehindToken
  <2>5. read[c] + r \in Nat
    BY <1>4, <2>2
  <2>6. UNCHANGED <<stage, obj, serves, clientVars>>
    BY <1>2, <2>1
  <2> HIDE DEF f, len, r
  <2> QED BY <1>2, <1>3, <2>1, <2>2, <2>3, <2>4, <2>5, <2>6, HandledKeepsInv
<1> QED BY <1>5, <1>6

LEMMA StepKeepsInv == SessionInv /\ [Next]_vars => SessionInv'
<1> SUFFICES ASSUME SessionInv, [Next]_vars PROVE SessionInv'
  OBVIOUS
<1>1. ASSUME NEW c \in Conn, NEW o \in Obj, Connect(c, o) PROVE SessionInv'
  BY <1>1, ConnectKeepsInv
<1>2. ASSUME NEW c \in Conn, ClientTcpErrorCb(c) PROVE SessionInv'
  BY <1>2, ErrorKeepsInv
<1>3. ASSUME NEW c \in Conn, NEW n \in 1..MaxRead, ClientTcpReadCb(c, n) PROVE SessionInv'
  BY <1>3, ReadKeepsInv
<1>4. CASE UNCHANGED vars
  <2>1. UNCHANGED <<rBuf, rlen, isVerify, serves, stage, obj, token, ends, nul, size, arrived,
                    read, calls, forwarded>>
    BY <1>4 DEF vars, connVars, clientVars
  <2>2. TypeOK'
    BY <2>1 DEF SessionInv, TypeOK
  <2>3. StageInv' /\ NewInv'
    BY <2>1 DEF SessionInv, StageInv, NewInv
  <2>4. ASSUME NEW d \in Conn PROVE ConnInv(d)'
    <3>1. ConnInv(d)
      BY DEF SessionInv
    <3> QED BY <2>1, <3>1, ConnKept
  <2>5. OnlyOwnFirstLine'
    BY <2>1 DEF SessionInv, OnlyOwnFirstLine, FirstLine, TextLength, Sendable
  <2> QED BY <2>2, <2>3, <2>4, <2>5 DEF SessionInv
<1> QED BY <1>1, <1>2, <1>3, <1>4 DEF Next

-----------------------------------------------------------------------------
(* The theorems.                                                           *)

\* The CRLFs in the buffer are those of the lines that were read and not
\* handled, and the handled ones are the first.
LEMMA CRLFsCounted ==
  ASSUME SessionInv, NEW c \in Conn, stage[c] = "open"
  PROVE  calls[c] + Cardinality(CRLFs(rBuf[obj[c]], rlen[obj[c]])) = Cardinality(LinesRead(c))
<1> DEFINE o == obj[c]
           len == rlen[o]
           e == ends[c]
           h == calls[c]
<1>1. TypeOK /\ StageInv /\ ConnInv(c) /\ o \in Obj
  BY DEF SessionInv, StageInv, TypeOK
<1>2. /\ len \in Nat /\ read[c] \in Nat /\ h \in Nat /\ TokenLength \in Nat /\ BufSize \in Nat
      /\ len \in 0..BufSize
  BY <1>1, ClientSessionAssumption DEF TypeOK
<1>3. /\ Len(e) \in Nat
      /\ \A k \in 1..Len(e) : e[k] \in Nat /\ e[k] >= 2
      /\ \A j, k \in 1..Len(e) : j < k => e[j] + 2 <= e[k]
  BY <1>1, EndsFacts
<1>4. LinesRead(c) \subseteq 1..Len(e)
  BY DEF LinesRead
<1>5. IsFiniteSet(LinesRead(c)) /\ IsFiniteSet(1..h) /\ Cardinality(1..h) = h
  <2> HIDE DEF e, h
  <2>1. /\ IsFiniteSet(1..Len(e)) /\ IsFiniteSet(1..h)
        /\ Cardinality(1..h) = IF 1 > h THEN 0 ELSE h - 1 + 1
    <3>1. 1 \in Int /\ h \in Int /\ Len(e) \in Int
      BY <1>2, <1>3
    <3> QED BY <3>1, FS_Interval
  <2>2. Cardinality(1..h) = h
    BY <1>2, <2>1
  <2> QED BY <1>4, <2>1, <2>2, FS_Subset
<1>6. CASE ~isVerify[o]
  <2>1. /\ len < TokenLength /\ read[c] = len /\ h = 0
        /\ \A i \in 1..len : rBuf[o][i] = <<c, i>>
    BY <1>1, <1>6 DEF ConnInv, UntilToken
  <2>2. LinesRead(c) = {}
    BY <1>2, <1>3, <2>1 DEF LinesRead
  <2>3. ASSUME NEW i \in CRLFs(rBuf[o], len) PROVE FALSE
    <3>1. i \in 1..(len - 1) /\ IsCR(rBuf[o][i])
      BY DEF CRLFs
    <3>2. i \in 1..len /\ i \in Nat /\ i < TokenLength
      BY <1>2, <2>1, <3>1
    <3>3. IsCR(<<c, i>>)
      BY <2>1, <3>1, <3>2
    <3>4. PICK k \in 1..Len(ends[c]) : i = TokenLength + ends[c][k] - 1
      BY <1>1, <3>2, <3>3, ByteFacts
    <3> QED BY <1>2, <1>3, <3>2, <3>4
  <2>4. CRLFs(rBuf[o], len) = {}
    BY <2>3
  <2>5. Cardinality({}) = 0
    BY FS_EmptySet
  <2> QED BY <2>1, <2>2, <2>4, <2>5
<1>7. CASE isVerify[o]
  <2> DEFINE Left == {l \in (h + 1)..Len(e) : e[l] <= len}
             C == CRLFs(rBuf[o], len)
  <2>1. read[c] = TokenLength + len /\ Holds(e, rBuf[o], c, len, h)
    BY <1>1, <1>7 DEF ConnInv, BehindToken
  <2>2. h \in 0..Len(e) /\ \A k \in 1..h : e[k] <= len
    BY <2>1 DEF Holds
  <2>3. C = {e[k] - 1 : k \in Left}
    <3>1. PICK g \in Nat : g = calls[c]
      BY <1>2
    <3>2. PICK b : b = rBuf[o]
      OBVIOUS
    <3>3. PICK n \in Nat : n = len
      BY <1>2
    <3>4. Holds(ends[c], b, c, n, g)
      BY <2>1, <3>1, <3>2, <3>3
    <3>5. CRLFs(b, n) = {ends[c][k] - 1 : k \in {l \in (g + 1)..Len(ends[c]) : ends[c][l] <= n}}
      BY ONLY <1>1, <3>4, CRLFsLeft
    <3> QED BY <3>1, <3>2, <3>3, <3>5
  <2>4. LinesRead(c) = (1..h) \cup Left
    <3>1. ASSUME NEW k \in 1..Len(e)
          PROVE  TokenLength + e[k] <= read[c] <=> k \in 1..h \/ k \in Left
      BY <1>2, <1>3, <2>1, <2>2
    <3>2. 1..h \subseteq 1..Len(e) /\ Left \subseteq 1..Len(e)
      BY <1>2, <1>3, <2>2
    <3> HIDE DEF Left, e
    <3> QED BY <3>1, <3>2 DEF LinesRead, e
  <2>5. (1..h) \cap Left = {} /\ Left \subseteq LinesRead(c)
    <3>1. (1..h) \cap Left = {}
      BY <1>2
    <3> QED BY <2>4, <3>1
  <2>6. IsFiniteSet(Left)
    BY <1>5, <2>5, FS_Subset
  <2>7. Cardinality(LinesRead(c)) = h + Cardinality(Left)
    <3>1. Cardinality((1..h) \cap Left) = 0
      BY <2>5, FS_EmptySet
    <3>2. Cardinality((1..h) \cup Left) =
            Cardinality(1..h) + Cardinality(Left) - Cardinality((1..h) \cap Left)
      BY <1>5, <2>6, FS_Union
    <3>3. Cardinality(Left) \in Nat
      BY <2>6, FS_CardinalityType
    <3> QED BY <1>2, <1>5, <2>4, <3>1, <3>2, <3>3
  <2>8. \A k, l \in Left : e[k] - 1 = e[l] - 1 => k = l
    <3> SUFFICES ASSUME NEW k \in Left, NEW l \in Left, e[k] - 1 = e[l] - 1, k # l PROVE FALSE
      OBVIOUS
    <3>1. k \in 1..Len(e) /\ l \in 1..Len(e) /\ e[k] \in Nat /\ e[l] \in Nat
      BY <1>2, <1>3
    <3>2. k < l \/ l < k
      BY <3>1
    <3> QED BY <1>3, <3>1, <3>2
  <2> HIDE DEF Left
  <2>9. Cardinality(C) = Cardinality(Left)
    <3> DEFINE f == [k \in Left |-> e[k] - 1]
    <3>1. f \in Surjection(Left, C)
      <4>1. f \in [Left -> C]
        BY <2>3
      <4>2. \A i \in C : \E k \in Left : f[k] = i
        BY <2>3
      <4> HIDE DEF f, C
      <4> QED BY <4>1, <4>2, Fun_IsSurj
    <3>2. f \in Injection(Left, C)
      <4>1. f \in [Left -> C]
        BY <2>3
      <4>2. \A k, l \in Left : f[k] = f[l] => k = l
        BY <2>8
      <4> HIDE DEF f, C
      <4> QED BY <4>1, <4>2, Fun_IsInj
    <3> HIDE DEF f, C
    <3>3. f \in Bijection(Left, C)
      BY <3>1, <3>2 DEF Bijection
    <3>4. ExistsBijection(Left, C)
      BY <3>3 DEF ExistsBijection
    <3> QED BY <2>6, <3>4, FS_Bijection
  <2> QED BY <2>7, <2>9
<1> QED BY <1>6, <1>7

\* The invariant, with what it says of types.
THEOREM SessionInvariant == Spec => []SessionInv
<1>1. Init => SessionInv
  BY InitSessionInv
<1>2. SessionInv /\ [Next]_vars => SessionInv'
  BY StepKeepsInv
<1> QED BY <1>1, <1>2, PTL DEF Spec

THEOREM SessionTypeCorrect == Spec => []TypeOK
<1>1. SessionInv => TypeOK
  BY DEF SessionInv
<1> QED BY <1>1, SessionInvariant, PTL

\* What is sent on under the tag of a connection is its own first line, and
\* its token was right, whatever its conn was used for before.
THEOREM OnlyOwnFirstLineSent == Spec => []OnlyOwnFirstLine
<1>1. SessionInv => OnlyOwnFirstLine
  BY DEF SessionInv
<1> QED BY <1>1, SessionInvariant, PTL

\* A line that has been read completely is handled once or is still to be.
THEOREM LinesAndCallsMatch == Spec => []EachLineOneCall
<1>1. SessionInv => EachLineOneCall
  BY CRLFsCounted DEF EachLineOneCall
<1> QED BY <1>1, SessionInvariant, PTL

\* A first line that fits the buffer, and the app server's once it is
\* tagged, is sent on by the callback that reads its last byte.
THEOREM FirstLineSent == Spec => []FirstLineHandled
<1>1. SessionInv => FirstLineHandled
  <2> SUFFICES ASSUME SessionInv, NEW c \in Conn, stage[c] = "open", token[c], Sendable(c),
                      ends[c] # <<>>, TextLength(c) > 0, ends[c][1] <= BufSize,
                      arrived[c] >= TokenLength + ends[c][1]
               PROVE  <<c, FirstLine(c)>> \in forwarded
    BY DEF FirstLineHandled
  <2>1. TypeOK /\ StageInv /\ ConnInv(c)
    BY DEF SessionInv
  <2>2. obj[c] \in Obj /\ rlen[obj[c]] \in Nat /\ TokenLength \in Nat /\ BufSize \in Nat
    BY <2>1, ClientSessionAssumption DEF StageInv, TypeOK
  <2>3. ends[c][1] \in Nat
    BY <2>1, EndsFacts
  <2>4. isVerify[obj[c]]
    BY <2>1, <2>2, <2>3 DEF ConnInv, UntilToken
  <2>5. ends[c][1] <= rlen[obj[c]]
    <3>1. /\ read[c] = TokenLength + rlen[obj[c]]
          /\ arrived[c] = read[c] \/ rlen[obj[c]] = BufSize
      BY <2>1, <2>4 DEF ConnInv, BehindToken
    <3> QED BY <2>2, <2>3, <3>1
  <2>6. calls[c] > 0
    BY <2>1, <2>4, <2>5 DEF ConnInv, BehindToken
  <2> QED BY <2>1, <2>6 DEF ConnInv, HandledIsSent
<1> QED BY <1>1, SessionInvariant, PTL

=============================================================================
