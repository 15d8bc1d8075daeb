------------------------------ MODULE Handover ------------------------------
(***************************************************************************)
(* What the gateway promises for the connections it accepts: each is given *)
(* to one worker, a worker takes its connections in the order in which     *)
(* they were accepted, and a connection that is served has a conn that     *)
(* serves no other.  There are no items, free lists or notify bytes here:  *)
(* `ConnDispatch' implements it with them.                                 *)
(***************************************************************************)
EXTENDS Naturals, Sequences

CONSTANTS Conn, Worker, None

VARIABLES
  accepted,  (* connections accepted so far; they are 1..accepted *)
  waiting,   (* worker -> the connections that wait for it, oldest first *)
  taken,     (* worker -> the connection it sets up, or None *)
  using,     (* connection -> the conn that serves it, or None *)
  ended      (* connections that were closed *)

vars == <<accepted, waiting, taken, using, ended>>

Init ==
  /\ accepted = 0
  /\ waiting = [w \in Worker |-> <<>>]
  /\ taken = [w \in Worker |-> None]
  /\ using = [c \in Conn |-> None]
  /\ ended = {}

Accept(w) ==
  /\ accepted + 1 \in Conn
  /\ accepted' = accepted + 1
  /\ waiting' = [waiting EXCEPT ![w] = Append(@, accepted + 1)]
  /\ UNCHANGED <<taken, using, ended>>

Take(w) ==
  /\ taken[w] = None /\ waiting[w] # <<>>
  /\ taken' = [taken EXCEPT ![w] = Head(waiting[w])]
  /\ waiting' = [waiting EXCEPT ![w] = Tail(@)]
  /\ UNCHANGED <<accepted, using, ended>>

\* Any conn that no connection has will do.
Serve(w) ==
  LET c == taken[w] IN
  /\ c # None /\ using[c] = None /\ c \notin ended
  /\ using' = [using EXCEPT ![c] = using'[c]]
  /\ using'[c] # None /\ \A d \in Conn \ {c} : using[d] # using'[c]
  /\ taken' = [taken EXCEPT ![w] = None]
  /\ UNCHANGED <<accepted, waiting, ended>>

GiveUp(w) ==
  LET c == taken[w] IN
  /\ c # None /\ using[c] = None /\ c \notin ended
  /\ ended' = ended \cup {c}
  /\ taken' = [taken EXCEPT ![w] = None]
  /\ UNCHANGED <<accepted, waiting, using>>

Close(c) ==
  /\ using[c] # None
  /\ using' = [using EXCEPT ![c] = None]
  /\ ended' = ended \cup {c}
  /\ UNCHANGED <<accepted, waiting, taken>>

Next == \/ \E w \in Worker : Accept(w) \/ Take(w) \/ Serve(w) \/ GiveUp(w)
        \/ \E c \in Conn : Close(c)

Spec == Init /\ [][Next]_vars
=============================================================================
