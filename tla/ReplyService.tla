---------------------------- MODULE ReplyService ----------------------------
(***************************************************************************)
(* What the gateway promises a client for the replies to its requests: a   *)
(* reply is written to the connection that asked, or to nobody once that   *)
(* is gone; it is never dropped before.  What the check of the id cannot   *)
(* give is part of the promise: a connection that closes while the reply   *)
(* is on its way leaves the rest to whoever has its descriptor by then,    *)
(* and a reply older than the process or than one turn of the ids may be   *)
(* taken for another's.  There are no descriptors, ids and maps here;      *)
(* `ClientRouting' implements it with them.                                *)
(***************************************************************************)
EXTENDS Naturals

CONSTANTS
  Client,    (* the clients, numbered as they come                          *)
  Others,    (* who else may have a descriptor                              *)
  Window,    (* accepts until an id comes again                             *)
  None

VARIABLES
  accepted,  (* clients so far; they are 1..accepted                        *)
  base,      (* those of earlier processes are 1..base                      *)
  conn,      (* client -> what became of its connection                     *)
  asked,     (* clients that have asked                                     *)
  writing,   (* the client whose reply is being written, or None            *)
  received,  (* <<who got a piece, whose reply it was>>                     *)
  dropped    (* clients a reply to whom was dropped                         *)

clients == <<accepted, base, conn, asked>>
replies == <<writing, received, dropped>>
vars == <<clients, replies>>

Init ==
  /\ accepted = 0 /\ base = 0
  /\ conn = [c \in Client |-> "none"]
  /\ asked = {} /\ writing = None /\ received = {} /\ dropped = {}

Accept ==
  /\ accepted + 1 \in Client
  /\ accepted' = accepted + 1
  /\ conn' = [conn EXCEPT ![accepted + 1] = "open"]
  /\ UNCHANGED <<base, asked, replies>>

Ask(c) ==
  /\ conn[c] = "open"
  /\ asked' = asked \cup {c}
  /\ UNCHANGED <<accepted, base, conn, replies>>

\* Its replies are not taken any more, but it has still its descriptor.
Leave(c) ==
  /\ conn[c] = "open"
  /\ conn' = [conn EXCEPT ![c] = "leaving"]
  /\ UNCHANGED <<accepted, base, asked, replies>>

\* Who has asked leaves before it is closed.
Close(c) ==
  /\ conn[c] = "leaving" \/ (conn[c] = "open" /\ c \notin asked)
  /\ conn' = [conn EXCEPT ![c] = "closed"]
  /\ UNCHANGED <<accepted, base, asked, replies>>

Fresh(c) == c > base /\ accepted - c < Window

\* A reply to a request, the first or another one.
Reply(c) ==
  /\ writing = None /\ c \in asked
  /\ conn[c] = "open" \/ (conn[c] = "closed" /\ ~Fresh(c))
  /\ writing' = c
  /\ UNCHANGED <<clients, received, dropped>>

Drop(c) ==
  /\ writing = None /\ c \in asked
  /\ conn[c] \in {"leaving", "closed"}
  /\ dropped' = dropped \cup {c}
  /\ UNCHANGED <<clients, writing, received>>

Deliver ==
  /\ writing # None
  /\ \E r \in Client \cup Others :
       /\ conn[writing] # "closed" => r = writing
       /\ received' = received \cup {<<r, writing>>}
  /\ writing' \in {writing, None}
  /\ UNCHANGED <<clients, dropped>>

GiveUp ==
  /\ writing # None
  /\ writing' = None
  /\ UNCHANGED <<clients, received, dropped>>

Restart ==
  /\ base' = accepted
  /\ conn' = [c \in Client |-> IF c <= accepted THEN "closed" ELSE "none"]
  /\ writing' = None
  /\ UNCHANGED <<accepted, asked, received, dropped>>

Next == \/ Accept
        \/ \E c \in Client : Ask(c) \/ Leave(c) \/ Close(c) \/ Reply(c) \/ Drop(c)
        \/ Deliver \/ GiveUp
        \/ Restart

Spec == Init /\ [][Next]_vars
=============================================================================
