---------------------------- MODULE SharedStream ----------------------------
(***************************************************************************)
(* The messages that several threads write to one connection with WriteSfd *)
(* (public/socket_wrapper.h), in as many write() calls as the socket takes.*)
(* Towards an app server the workers hold mutex_ over the whole message    *)
(* (SendToAppServerModule); towards the gateway the consumers hold nothing *)
(* (SendToGateway).  `locked' says which of the two the behaviour is about.*)
(*                                                                         *)
(* A message is its number in the order of the starts and consists of      *)
(* Units parts: its text, its CR, which is the last part but one, and its  *)
(* LF.  write() works on bytes, so it may stop between those two.  The     *)
(* stream is the sequence of <<message, part>> the reader gets; Framing    *)
(* says how it reads them.                                                 *)
(***************************************************************************)
EXTENDS Integers, Sequences, FiniteSets

CONSTANTS
  Writer,       \* the threads
  Nobody,       \* no thread holds the lock
  Units,        \* parts of a message, CR and LF included
  MaxMessages   \* bound: messages started

ASSUME SharedStreamAssumption ==
  /\ Nobody \notin Writer
  /\ Units \in Nat /\ Units >= 3
  /\ MaxMessages \in Nat

Message == 1..MaxMessages
None == 0

VARIABLES
  locked,    \* whether writers take the lock
  lock,      \* its holder
  msg,       \* writer -> the message it is writing, or None
  done,      \* writer -> WriteSfd's write_len
  stream,    \* what was written
  started,   \* messages started
  cut,       \* history: messages that were given up
  beside     \* history: messages in the making while another one was

vars == <<locked, lock, msg, done, stream, started, cut, beside>>

Writing == {w \in Writer : msg[w] # None}

TypeOK ==
  /\ locked \in BOOLEAN
  /\ lock \in Writer \cup {Nobody}
  /\ msg \in [Writer -> Message \cup {None}]
  /\ done \in [Writer -> 0..(Units - 1)]
  /\ stream \in Seq(Message \X (1..Units))
  /\ started \in 0..MaxMessages
  /\ cut \subseteq 1..started /\ beside \subseteq 1..started

Init ==
  /\ locked \in BOOLEAN
  /\ lock = Nobody
  /\ msg = [w \in Writer |-> None] /\ done = [w \in Writer |-> 0]
  /\ stream = <<>> /\ started = 0
  /\ cut = {} /\ beside = {}

-----------------------------------------------------------------------------
(* The writers.                                                            *)

\* A slip: the lock is let go after the look-up.
Acquire_LooksUpOnly(w) == lock = Nobody /\ UNCHANGED lock

\* scoped_lock, on the side that has one.
Acquire(w) == IF locked THEN lock = Nobody /\ lock' = w ELSE UNCHANGED lock

\* Its destructor, on every way out.
Release(w) == lock' = IF locked THEN Nobody ELSE lock

\* SendToAppServerModule or SendToGateway calls WriteSfd.
StartMessage(w) ==
  /\ msg[w] = None /\ started < MaxMessages
  /\ Acquire(w)
  /\ started' = started + 1
  /\ msg' = [msg EXCEPT ![w] = started + 1]
  /\ done' = [done EXCEPT ![w] = 0]
  /\ beside' = IF Writing = {} THEN beside
               ELSE beside \cup {started + 1} \cup {msg[v] : v \in Writing}
  /\ UNCHANGED <<locked, stream, cut>>

\* Slips: the next write() starts from the beginning of the buffer; the
\* terminating zero is counted in.
Parts_FromStart(w, len) == [i \in 1..len |-> <<msg[w], i>>]

Parts_OneMore(w, len) == [i \in 1..(len + 1) |-> <<msg[w], done[w] + i>>]

\* What write(sfd, buf + write_len, ...) puts into the stream.
Parts(w, len) == [i \in 1..len |-> <<msg[w], done[w] + i>>]

\* A write() that takes len parts; after the last one WriteSfd returns true.
WritePart(w, len) ==
  /\ msg[w] # None /\ done[w] + len <= Units
  /\ stream' = stream \o Parts(w, len)
  /\ IF done[w] + len = Units
     THEN /\ msg' = [msg EXCEPT ![w] = None] /\ done' = [done EXCEPT ![w] = 0]
          /\ Release(w)
     ELSE /\ done' = [done EXCEPT ![w] = @ + len]
          /\ UNCHANGED <<msg, lock>>
  /\ UNCHANGED <<locked, started, cut, beside>>

\* EAGAIN for more than three seconds: WriteSfd returns false.  The caller
\* logs it; the connection stays, with what has been written.
WriteTimesOut(w) ==
  /\ msg[w] # None
  /\ cut' = cut \cup {msg[w]}
  /\ msg' = [msg EXCEPT ![w] = None] /\ done' = [done EXCEPT ![w] = 0]
  /\ Release(w)
  /\ UNCHANGED <<locked, stream, started, beside>>

Next == \E w \in Writer : \/ StartMessage(w) \/ WriteTimesOut(w)
                          \/ \E len \in 1..Units : WritePart(w, len)

Spec == Init /\ [][Next]_vars

-----------------------------------------------------------------------------
(* What the reader makes of it.                                            *)

\* Where an LF stands behind a CR, be it that of another message, and the
\* line that ends there.
LineEnds == {i \in 2..Len(stream) : stream[i][2] = Units /\ stream[i - 1][2] = Units - 1}
Before(i) == {j \in LineEnds : j < i}
LineStart(i) == IF Before(i) = {} THEN 1
                ELSE 1 + CHOOSE j \in Before(i) : \A k \in Before(i) : k <= j
Line(i) == SubSeq(stream, LineStart(i), i)

Whole(i) == Line(i) = [k \in 1..Units |-> <<stream[i][1], k>>]
\* The parts of other messages in a line.
Strangers(i) == {Line(i)[k][1] : k \in 1..Len(Line(i))} \ {stream[i][1]}

Finished == (1..started) \ (cut \cup {msg[w] : w \in Writing})

-----------------------------------------------------------------------------
(* Properties.                                                             *)

\* Only messages that were written to the end end lines, one each, in
\* whatever way writes were mixed and given up: a damaged message never
\* takes two lines.  A message that was written to the end and ends no line
\* had another one beside it, which came between its CR and its LF; under
\* the lock there is none, and each ends its line.
OneLineEach ==
  LET Ending == {stream[i][1] : i \in LineEnds} IN
  /\ \A i, j \in LineEnds : stream[i][1] = stream[j][1] => i = j
  /\ Ending \subseteq Finished
  /\ Finished \ Ending \subseteq beside
  /\ locked => Ending = Finished

\* A line that is not exactly one message has a reason: its message was in
\* the making together with another one, or the line has parts of a message
\* that was so or was given up (what is left of that one, or its LF, which
\* lost its CR).  Under the lock only giving up is left.
DamageHasReason ==
  /\ locked => beside = {}
  /\ \A i \in LineEnds :
       ~Whole(i) => stream[i][1] \in beside \/ Strangers(i) \cap (cut \cup beside) # {}

\* Under the lock the damage of a write that was given up ends with the next
\* message: that one is in the line, whole, behind what was left of it, and
\* each message that was given up spoils one line at the most.
DamageEndsWithNext ==
  locked =>
    /\ \A i \in LineEnds :
         /\ Len(Line(i)) >= Units
         /\ \A k \in 1..Units : stream[i - Units + k] = <<stream[i][1], k>>
         /\ Strangers(i) \subseteq cut
    /\ \A i, j \in LineEnds : Strangers(i) \cap Strangers(j) # {} => i = j

\* Framing's assumption that a line is shorter than the reader's buffer: on
\* the side with the lock it holds as long as nothing was given up - what is
\* open at the end of the stream is part of one message.
OpenLineIsShort ==
  locked /\ cut = {} =>
    LET open == {i \in 1..Len(stream) : \A j \in LineEnds : j < i} IN
    /\ Cardinality(open) < Units
    /\ \A i, j \in open : stream[i][1] = stream[j][1]
=============================================================================
