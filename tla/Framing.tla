------------------------------ MODULE Framing ------------------------------
(***************************************************************************)
(* How one long-lived connection between the gateway and an app server is  *)
(* cut into messages again.  CAppServerTransport::ReadCb in the gateway    *)
(* and CGatewayTransport::ReadCb in the app server are the same code: read *)
(* what there is into a buffer of DATA_BUFFER_SIZE bytes, hand over every  *)
(* string that ends in CRLF, and drop what has been handed over.           *)
(*                                                                         *)
(* A byte is its position in the stream, and what a byte is follows from   *)
(* the positions at which the messages end: message k ends in a CR at      *)
(* ends[k] - 1 and an LF at ends[k].  The buffer always holds a contiguous *)
(* part of the stream, the positions lo+1 .. hi.  No other byte of a       *)
(* message is a CR or an LF (JSON as written by the two programs).         *)
(***************************************************************************)
EXTENDS Integers, Sequences

CONSTANTS
  BufSize,     (* DATA_BUFFER_SIZE *)
  MaxMessages  (* Bound: messages sent over the connection. *)

ASSUME FramingAssumption == BufSize \in Nat /\ BufSize > 2 /\ MaxMessages \in Nat

VARIABLES
  ends,       (* where the messages sent so far end in the stream          *)
  lo, hi,     (* ptr_data->buf holds the bytes lo+1 .. hi, len is hi - lo  *)
  times,      (* message -> how often it was handed over                   *)
  truncated,  (* history: messages handed over without their first bytes   *)
  split       (* history: messages with a read that ended after their CR   *)

vars == <<ends, lo, hi, times, truncated, split>>

Message == 1..MaxMessages
Sent == 1..Len(ends)
Start(k) == IF k = 1 THEN 0 ELSE ends[k - 1]
Total == IF ends = <<>> THEN 0 ELSE ends[Len(ends)]

TypeOK ==
  /\ ends \in Seq(Nat) /\ Len(ends) <= MaxMessages
  /\ lo \in 0..hi
  /\ hi \in 0..Total
  /\ times \in [Message -> Nat]
  /\ truncated \subseteq Message
  /\ split \subseteq Message

Init ==
  /\ ends = <<>>
  /\ lo = 0 /\ hi = 0
  /\ times = [k \in Message |-> 0]
  /\ truncated = {} /\ split = {}

\* A slip: > for >= in the test of the length.
Fits_OffByOne(len) == len <= BufSize

\* Longer ones are refused by SendToAppServerModule and SendToGateway.
Fits(len) == len < BufSize

\* The peer sends a message of len bytes, its CRLF among them.
Send(len) ==
  /\ Len(ends) < MaxMessages
  /\ Fits(len)
  /\ ends' = Append(ends, Total + len)
  /\ UNCHANGED <<lo, hi, times, truncated, split>>

\* FindCRLF and SplitData: messages whose CRLF is in the buffer.
Complete(h) == {k \in Sent : lo < ends[k] - 1 /\ ends[k] <= h}

\* find_last_of(CRLF) looks for the last CR or LF, not for the last CRLF.
Marks(h) == {p \in (lo + 1)..h : \E k \in Sent : p = ends[k] - 1 \/ p = ends[k]}

\* Slips: the handed-over part stays in the buffer, and strlen(CRLF) is
\* added to the index of the last mark instead of 1.
Drop_Nothing(h) == lo' = lo
Drop_TooFar(h) == \E p \in Marks(h) : lo' = p + 1 /\ \A q \in Marks(h) : q <= p

\* What is up to the last mark is moved out of the buffer.
Drop(h) == \E p \in Marks(h) : lo' = p /\ \A q \in Marks(h) : q <= p

\* ReadCb: a read ends at any byte that has been sent and has room.
ReadCb(h) ==
  /\ h \in (hi + 1)..Total
  /\ h - lo <= BufSize
  /\ hi' = h
  /\ split' = split \cup {k \in Sent : ends[k] - 1 = h}
  /\ IF Complete(h) # {}
     THEN /\ times' = [k \in Message |-> IF k \in Complete(h) THEN times[k] + 1 ELSE times[k]]
          /\ truncated' = truncated \cup {k \in Complete(h) : Start(k) < lo}
          /\ Drop(h)
     ELSE UNCHANGED <<times, truncated, lo>>
  /\ UNCHANGED ends

Next == \/ \E len \in 2..BufSize : Send(len)
        \/ \E h \in 1..Total : ReadCb(h)

Spec == Init /\ [][Next]_vars

-----------------------------------------------------------------------------
(* Properties.                                                             *)

\* However TCP cuts the stream: a message that has been read completely was
\* handed over exactly once and whole, unless a read ended between its CR
\* and its LF; then it may be missing, but still comes never twice or cut.
HandedOverOnce ==
  /\ truncated = {}
  /\ \A k \in Sent : /\ times[k] <= 1
                     /\ ends[k] <= hi /\ k \notin split => times[k] = 1
                     /\ ends[k] > hi => times[k] = 0

\* The reader never fills its buffer with a message that is not complete,
\* which would stop it for good: the senders' limit leaves just enough room,
\* even for the LF that a read ending after a CR leaves in front.
AlwaysRoom == hi - lo < BufSize

\* What the comments in both callbacks claim to handle: several messages may
\* arrive at once.  Every message that has been read is handed over.
NoMessageLost == \A k \in Sent : ends[k] <= hi => times[k] >= 1
=============================================================================
