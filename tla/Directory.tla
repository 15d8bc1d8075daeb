----------------------------- MODULE Directory -----------------------------
(***************************************************************************)
(* What the gateway promises for the names of app servers: a name leads to *)
(* the connection that took it first, until the end of that connection has *)
(* been handled, and a request for a name goes to the connection that was  *)
(* found for it, unless that one closes meanwhile.  There are no           *)
(* descriptors here, which `AppRegistry' implements it with and which      *)
(* others use again.                                                       *)
(***************************************************************************)
EXTENDS Naturals, Sequences

CONSTANTS
  Names,
  Receiver,  (* whoever may get what is written: connections and others     *)
  None

VARIABLES
  called,    (* the names of the connections so far, 1..Len(called)         *)
  member,    (* the connections that have registered                        *)
  ended,     (* the connections that are closed                             *)
  leaving,   (* the connection whose end is being handled, or None          *)
  entry,     (* name -> the connection that is found for it                 *)
  target,    (* the connection that a request is being sent to, or None     *)
  reached    (* who got the last piece of it, or None                       *)

conns == <<called, member, ended, leaving>>
request == <<target, reached>>
vars == <<conns, entry, request>>

Number == 1..Len(called)

Init ==
  /\ called = <<>> /\ member = {} /\ ended = {} /\ leaving = None
  /\ entry = [n \in {} |-> None]
  /\ target = None /\ reached = None

Connect(n) ==
  /\ called' = Append(called, n)
  /\ UNCHANGED <<member, ended, leaving, entry, request>>

\* The gateway does not take it.
Refuse(c) ==
  /\ leaving = None /\ c \notin member
  /\ ended' = ended \cup {c}
  /\ UNCHANGED <<called, member, leaving, entry, request>>

\* A name that is taken stays with whom it has.
Register(c) ==
  /\ leaving = None /\ c \notin member \cup ended
  /\ member' = member \cup {c}
  /\ entry' = [n \in DOMAIN entry \cup {called[c]} |-> IF n \in DOMAIN entry THEN entry[n] ELSE c]
  /\ UNCHANGED <<called, ended, leaving, request>>

\* From here on its name may go and it may close, in either order.
Leave(c) ==
  /\ leaving = None /\ c \notin ended
  /\ leaving' = c
  /\ UNCHANGED <<called, member, ended, entry, request>>

HasEntry(e, c) == \E n \in DOMAIN e : e[n] = c

\* Nothing else happens to names and connections until both are done.
Handled == leaving' = None => leaving \in ended' /\ ~HasEntry(entry', leaving)

Forget ==
  /\ leaving # None
  /\ entry' = [n \in {m \in DOMAIN entry : entry[m] # leaving} |-> entry[n]]
  /\ leaving' \in {leaving, None} /\ Handled
  /\ UNCHANGED <<called, member, ended, request>>

Close ==
  /\ leaving # None
  /\ ended' = ended \cup {leaving}
  /\ member' = member \ {leaving}
  /\ leaving' \in {leaving, None} /\ Handled
  /\ UNCHANGED <<called, entry, request>>

Ask(n) ==
  /\ target = None /\ n \in DOMAIN entry
  /\ target' = entry[n] /\ reached' = None
  /\ UNCHANGED <<conns, entry>>

Deliver ==
  /\ target # None
  /\ reached' \in Receiver /\ (target \notin ended => reached' = target)
  /\ target' \in {target, None}
  /\ UNCHANGED <<conns, entry>>

GiveUp ==
  /\ target # None
  /\ target' = None
  /\ UNCHANGED <<conns, entry, reached>>

\* All names are forgotten, and everybody has to connect again.
Restart ==
  /\ member' = {} /\ ended' = Number /\ leaving' = None
  /\ entry' = [n \in {} |-> None]
  /\ target' = None /\ reached' = None
  /\ UNCHANGED called

Next == \/ \E n \in Names : Connect(n) \/ Ask(n)
        \/ \E c \in Number : Refuse(c) \/ Register(c) \/ Leave(c)
        \/ Forget \/ Close
        \/ Deliver \/ GiveUp
        \/ Restart

Spec == Init /\ [][Next]_vars
=============================================================================
