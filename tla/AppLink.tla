------------------------------- MODULE AppLink -------------------------------
(***************************************************************************)
(* The app server's end of the connection to the gateway                   *)
(* (appServerXX/gateway_transport.cc).  The main thread opens the port for *)
(* statistics and waits for events of it.  The gateway thread tries every  *)
(* five seconds to connect from its fixed port, registers, and runs an     *)
(* event loop until the connection ends.  Consumer threads write their     *)
(* answers to the descriptor number in g_clientInfo.sfd, which nobody      *)
(* resets; a write changes nothing that is modelled here.                  *)
(*                                                                         *)
(* owner is the descriptor table of the process: what a number stands for. *)
(* The kernel may give out any free number.                                *)
(***************************************************************************)
EXTENDS Naturals, FiniteSets

CONSTANTS
  Fd,        \* descriptors left for the link, event bases and others
  NoFd,      \* no socket was made yet
  MaxOthers  \* bound: descriptors other threads have open at one time

ASSUME AppLinkAssumption ==
  /\ IsFiniteSet(Fd) /\ NoFd \notin Fd
  /\ MaxOthers \in Nat
  /\ Cardinality(Fd) >= MaxOthers + 2

\* link: the socket of the thread; leaked: a connected socket it has lost;
\* base: an event base; other: a log file, a connection of the business code.
Owner == {"free", "link", "leaked", "base", "other"}

VARIABLES
  owner,                \* what each descriptor is
  pc,                   \* place of the thread in SetupGatewayTransport
  sfd,                  \* its socket, ptr_recv_data->sfd
  local_connect_flag_,
  clientInfo_sfd        \* g_clientInfo.sfd

vars == <<owner, pc, sfd, local_connect_flag_, clientInfo_sfd>>

TypeOK ==
  /\ owner \in [Fd -> Owner]
  /\ pc \in {"start", "timer", "socket", "failed", "connected", "registered", "loop", "ended",
            "crashed", "exited"}
  /\ sfd \in Fd \cup {NoFd}
  /\ pc \notin {"start", "timer", "exited"} => sfd \in Fd
  /\ local_connect_flag_ \in BOOLEAN
  /\ clientInfo_sfd \in Fd \cup {NoFd}

Init ==
  /\ owner = [f \in Fd |-> "free"]
  /\ pc = "start"
  /\ sfd = NoFd
  /\ local_connect_flag_ = FALSE
  /\ clientInfo_sfd = NoFd

OwnedBy(kind) == {f \in Fd : owner[f] = kind}

\* The process is there.
Running == pc \notin {"crashed", "exited"}

-----------------------------------------------------------------------------
(* The main thread.                                                        *)

\* SetupTransport opens the port for statistics; Run starts the gateway
\* thread, which starts the consumers.
SetupTransport ==
  /\ pc = "start"
  /\ pc' = "timer"
  /\ UNCHANGED <<owner, sfd, local_connect_flag_, clientInfo_sfd>>

\* Every failure of InitStatsSocket ends the process.
InitStatsSocketFails ==
  /\ pc = "start"
  /\ pc' = "exited"
  /\ UNCHANGED <<owner, sfd, local_connect_flag_, clientInfo_sfd>>

\* Somebody connects to that port.  The listening socket was put into a
\* bufferevent: libevent reads from it, gets an error, and as there is no
\* error callback only takes its event out.  AcceptCb never runs; no event
\* is left, event_base_dispatch returns, and so do Run and main.
StatsConnection ==
  /\ Running /\ pc # "start"
  /\ pc' = "exited"
  /\ owner' = [f \in Fd |-> "free"]
  /\ UNCHANGED <<sfd, local_connect_flag_, clientInfo_sfd>>

-----------------------------------------------------------------------------
(* The gateway thread.                                                     *)

\* A slip: the -1 of socket() is taken for a descriptor.
Attempt_Unchecked(f) ==
  /\ pc = "timer" /\ ~local_connect_flag_
  /\ owner' = [owner EXCEPT ![f] = IF @ = "free" THEN "link" ELSE @]
  /\ sfd' = IF owner[f] = "free" THEN f ELSE NoFd
  /\ pc' = "socket"
  /\ UNCHANGED <<local_connect_flag_, clientInfo_sfd>>

\* The loop goes on while the flag is down: five seconds, then socket().
\* Without a free descriptor it is tried again, and nothing has changed.
Attempt(f) ==
  /\ pc = "timer" /\ ~local_connect_flag_
  /\ owner[f] = "free"
  /\ owner' = [owner EXCEPT ![f] = "link"]
  /\ sfd' = f
  /\ pc' = "socket"
  /\ UNCHANGED <<local_connect_flag_, clientInfo_sfd>>

\* setsockopt, bind or connect fails at once, or getsockopt does: one close.
SocketFails ==
  /\ pc = "socket"
  /\ owner' = [owner EXCEPT ![sfd] = "free"]
  /\ pc' = "timer"
  /\ UNCHANGED <<sfd, local_connect_flag_, clientInfo_sfd>>

\* connect_nonb runs into its timeout or finds an error on the socket: it
\* closes the descriptor, and so will its caller.
ConnectNonbFails ==
  /\ pc = "socket"
  /\ owner' = [owner EXCEPT ![sfd] = "free"]
  /\ pc' = "failed"
  /\ UNCHANGED <<sfd, local_connect_flag_, clientInfo_sfd>>

\* The second close, of the number: what it stands for by now is closed.
ClosesAgain ==
  /\ pc = "failed"
  /\ owner' = [owner EXCEPT ![sfd] = "free"]
  /\ pc' = "timer"
  /\ UNCHANGED <<sfd, local_connect_flag_, clientInfo_sfd>>

\* A socket of this process that is still open holds the fixed port and the
\* gateway's address: there is no second connection beside it.
Connects ==
  /\ pc = "socket"
  /\ OwnedBy("leaked") = {}
  /\ pc' = "connected"
  /\ UNCHANGED <<owner, sfd, local_connect_flag_, clientInfo_sfd>>

\* A slip: the socket stays open.
RegisterFails_NoClose ==
  /\ pc = "connected"
  /\ pc' = "timer"
  /\ UNCHANGED <<owner, sfd, local_connect_flag_, clientInfo_sfd>>

\* TCP_NODELAY or the write of the registration fails.
RegisterFails ==
  /\ pc = "connected"
  /\ owner' = [owner EXCEPT ![sfd] = "free"]
  /\ pc' = "timer"
  /\ UNCHANGED <<sfd, local_connect_flag_, clientInfo_sfd>>

\* A slip: the number is kept from the first connection.
Registers_Once ==
  /\ pc = "connected"
  /\ clientInfo_sfd' = IF clientInfo_sfd = NoFd THEN sfd ELSE clientInfo_sfd
  /\ pc' = "registered"
  /\ UNCHANGED <<owner, sfd, local_connect_flag_>>

\* The registration is written; the consumers get the new number.
Registers ==
  /\ pc = "connected"
  /\ clientInfo_sfd' = sfd
  /\ pc' = "registered"
  /\ UNCHANGED <<owner, sfd, local_connect_flag_>>

\* A base of its own for every connection, and the event loop.
AddNewConnToEvent(f) ==
  /\ pc = "registered"
  /\ owner[f] = "free"
  /\ owner' = [owner EXCEPT ![f] = "base"]
  /\ local_connect_flag_' = TRUE
  /\ pc' = "loop"
  /\ UNCHANGED <<sfd, clientInfo_sfd>>

\* bufferevent_socket_new fails: neither base nor socket is given back.
AddNewConnFails(f) ==
  /\ pc = "registered"
  /\ owner[f] = "free"
  /\ owner' = [owner EXCEPT ![f] = "base", ![sfd] = "leaked"]
  /\ pc' = "timer"
  /\ UNCHANGED <<sfd, local_connect_flag_, clientInfo_sfd>>

\* event_base_new gets no descriptor: libevent ends the process, or returns
\* NULL, which event_base_dispatch follows (the assert is compiled out).
NoEventBase ==
  /\ pc = "registered"
  /\ OwnedBy("free") = {}
  /\ pc' = "crashed"
  /\ UNCHANGED <<owner, sfd, local_connect_flag_, clientInfo_sfd>>

\* The gateway is gone: the bufferevent closes the socket.
ErrorCb ==
  /\ pc = "loop"
  /\ owner' = [owner EXCEPT ![sfd] = "free"]
  /\ pc' = "ended"
  /\ UNCHANGED <<sfd, local_connect_flag_, clientInfo_sfd>>

\* A slip: the flag stays up.
DispatchReturns_KeepsFlag ==
  /\ pc = "ended"
  /\ pc' = "timer"
  /\ UNCHANGED <<owner, sfd, local_connect_flag_, clientInfo_sfd>>

\* No event is left, event_base_dispatch returns.  The base is not freed.
DispatchReturns ==
  /\ pc = "ended"
  /\ local_connect_flag_' = FALSE
  /\ pc' = "timer"
  /\ UNCHANGED <<owner, sfd, clientInfo_sfd>>

-----------------------------------------------------------------------------
(* Other threads.                                                          *)

OtherOpens(f) ==
  /\ Running /\ owner[f] = "free"
  /\ Cardinality(OwnedBy("other")) < MaxOthers
  /\ owner' = [owner EXCEPT ![f] = "other"]
  /\ UNCHANGED <<pc, sfd, local_connect_flag_, clientInfo_sfd>>

OtherCloses(f) ==
  /\ Running /\ owner[f] = "other"
  /\ owner' = [owner EXCEPT ![f] = "free"]
  /\ UNCHANGED <<pc, sfd, local_connect_flag_, clientInfo_sfd>>

AddsConn == \E f \in Fd : AddNewConnToEvent(f)

Next == \/ \E f \in Fd : Attempt(f) \/ AddNewConnFails(f) \/ OtherOpens(f) \/ OtherCloses(f)
        \/ SetupTransport \/ InitStatsSocketFails \/ StatsConnection
        \/ SocketFails \/ ConnectNonbFails \/ ClosesAgain \/ Connects
        \/ RegisterFails \/ Registers
        \/ AddsConn \/ NoEventBase \/ ErrorCb \/ DispatchReturns

Spec == Init /\ [][Next]_vars

\* The thread runs on.  A gateway that is up often enough accepts some
\* attempt and reads its registration; memory is there often enough.
FairSpec ==
  /\ Spec
  /\ WF_vars(SetupTransport) /\ WF_vars(\E f \in Fd : Attempt(f)) /\ WF_vars(ClosesAgain)
  /\ WF_vars(SocketFails) /\ WF_vars(DispatchReturns)
  /\ SF_vars(Connects) /\ SF_vars(Registers)
  /\ SF_vars(AddsConn) /\ WF_vars(NoEventBase)

-----------------------------------------------------------------------------
(* Properties.                                                             *)

\* While the event loop serves a connection, its socket is open, and the
\* number the consumers write to is this socket's, whatever was closed,
\* closed twice and reused before.
LinkIsNamed ==
  pc = "loop" => owner[sfd] = "link" /\ clientInfo_sfd = sfd

\* Every way an attempt or a connection ends gives its socket back: at the
\* timer none is open that would keep the fixed port (but for one that was
\* lost when AddNewConnToEvent failed), and an attempt has only one.
NoSocketLeft ==
  /\ pc \in {"timer", "failed", "ended"} => OwnedBy("link") = {}
  /\ \A f, g \in OwnedBy("link") : f = g

\* Event bases hold so many descriptors that others may keep the rest.
Exhausted == Cardinality(OwnedBy("base")) + MaxOthers + 2 > Cardinality(Fd)

\* From any failure the thread gets back to a registered connection, again
\* and again, as long as it has lost no socket and descriptors last - and
\* the port for statistics has not ended the process.
LinkComesBack ==
  []<>(pc = "loop" \/ Exhausted \/ OwnedBy("leaked") # {} \/ pc = "exited")

\* README: the framework reconnects by itself.  Each reconnect costs the
\* descriptors of an event base, and after the last one it is over.
ReconnectsForEver == []<>(pc = "loop" \/ OwnedBy("leaked") # {} \/ pc = "exited")
=============================================================================
