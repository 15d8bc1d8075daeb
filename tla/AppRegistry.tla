----------------------------- MODULE AppRegistry -----------------------------
(***************************************************************************)
(* The gateway's table of app servers, map_appServer_sfd_, and the requests *)
(* that are forwarded by it (gatewayServer/appServer_transport.cc).  One    *)
(* transport thread accepts the app servers' connections, enters the name  *)
(* each of them sends, and takes it out when the connection ends.  Workers *)
(* look a name up under mutex_ and write to the descriptor they found; the *)
(* transport thread does not take mutex_.                                  *)
(*                                                                         *)
(* Connections are numbered in the order they are opened in.  owner is the *)
(* descriptor table: free, a client, or the connection of an app server.   *)
(***************************************************************************)
EXTENDS Integers, Sequences, FiniteSets, ThreadSafeMap

CONSTANTS
  Fd,             \* descriptors
  Instance,       \* app server processes, each with an address of its own
  NameOf,         \* the name each of them is configured to register
  Pieces,         \* write() calls that a request may take
  MaxConns,       \* bound: connections of app servers
  MaxRestarts     \* bound: restarts of the gateway

\* 0 to 2 are the standard streams.
ASSUME AppRegistryAssumption ==
  /\ Fd \subseteq Nat \ {0}
  /\ NameOf \in [Instance -> STRING]
  /\ Pieces \in Nat \ {0}
  /\ MaxConns \in Nat /\ MaxRestarts \in Nat

Conn == 1..MaxConns
Names == {NameOf[a] : a \in Instance}
Free == 0
Client == -1

VARIABLES
  owner, map_appServer_sfd_,
  from,                      \* which process opened each connection
  stage, conn_sfd,           \* a connection at the gateway, its descriptor
  up,                        \* the app server still holds its end
  tpc, tconn, todo,          \* transport thread: ErrorCb, what it has to do
  spc, sname, sconn, sleft,  \* the worker that holds mutex_
  reached,                   \* who got its last piece
  restarts

connVars == <<from, stage, conn_sfd, up>>
transportVars == <<tpc, tconn, todo>>
senderVars == <<spc, sname, sconn, sleft, reached>>
vars == <<owner, map_appServer_sfd_, connVars, transportVars, senderVars, restarts>>

Opened == 1..Len(from)
Name(c) == NameOf[from[c]]

TypeOK ==
  /\ owner \in [Fd -> Conn \cup {Free, Client}]
  /\ DOMAIN map_appServer_sfd_ \subseteq Names
  /\ \A n \in DOMAIN map_appServer_sfd_ : map_appServer_sfd_[n] \in Fd
  /\ from \in Seq(Instance) /\ Len(from) <= MaxConns
  /\ stage \in [Conn -> {"none", "connecting", "open", "registered", "closed"}]
  /\ conn_sfd \in [Conn -> Fd \cup {Free}]
  /\ up \in [Conn -> BOOLEAN]
  /\ tpc \in {"loop", "error"} /\ tconn \in Conn \cup {Free}
  /\ todo \subseteq {"erase", "close"}
  /\ spc \in {"idle", "write"} /\ sconn \in Conn \cup {Free}
  /\ sname \in Names \cup {""} /\ sleft \in 0..Pieces
  /\ reached \in Conn \cup {Free, Client}
  /\ restarts \in 0..MaxRestarts

Init ==
  /\ owner = [f \in Fd |-> Free]
  /\ map_appServer_sfd_ = EmptyMap
  /\ from = <<>>
  /\ stage = [c \in Conn |-> "none"] /\ conn_sfd = [c \in Conn |-> Free]
  /\ up = [c \in Conn |-> FALSE]
  /\ tpc = "loop" /\ tconn = Free /\ todo = {}
  /\ spc = "idle" /\ sname = "" /\ sconn = Free /\ sleft = 0
  /\ reached = Free
  /\ restarts = 0

-----------------------------------------------------------------------------
(* The app servers and the clients.                                        *)

\* An app server connects when its previous connection has ended: it has
\* one link at a time.
Connect(a) ==
  LET c == Len(from) + 1 IN
  /\ c <= MaxConns
  /\ \A d \in Opened : from[d] = a => ~up[d]
  /\ from' = Append(from, a)
  /\ stage' = [stage EXCEPT ![c] = "connecting"]
  /\ up' = [up EXCEPT ![c] = TRUE]
  /\ UNCHANGED <<owner, map_appServer_sfd_, conn_sfd, transportVars, senderVars, restarts>>

\* It ends, or gives up, at any time.
PeerEnds(c) ==
  /\ up[c]
  /\ up' = [up EXCEPT ![c] = FALSE]
  /\ UNCHANGED <<owner, map_appServer_sfd_, from, stage, conn_sfd, transportVars, senderVars, restarts>>

\* The master accepts clients, the workers close them.
ClientAccept(f) ==
  /\ owner[f] = Free
  /\ owner' = [owner EXCEPT ![f] = Client]
  /\ UNCHANGED <<map_appServer_sfd_, connVars, transportVars, senderVars, restarts>>

ClientClose(f) ==
  /\ owner[f] = Client
  /\ owner' = [owner EXCEPT ![f] = Free]
  /\ UNCHANGED <<map_appServer_sfd_, connVars, transportVars, senderVars, restarts>>

-----------------------------------------------------------------------------
(* The transport thread.                                                   *)

\* accept() gives out the connections in the order they came in.
NextConnecting(c) ==
  /\ tpc = "loop"
  /\ stage[c] = "connecting"
  /\ \A d \in Opened : d < c => stage[d] # "connecting"

AcceptCb(c, f) ==
  /\ NextConnecting(c)
  /\ owner[f] = Free
  /\ owner' = [owner EXCEPT ![f] = c]
  /\ conn_sfd' = [conn_sfd EXCEPT ![c] = f]
  /\ stage' = [stage EXCEPT ![c] = "open"]
  /\ UNCHANGED <<map_appServer_sfd_, from, up, transportVars, senderVars, restarts>>

\* SetSocketNoBlock fails, and the descriptor is closed again.
AcceptFails(c) ==
  /\ NextConnecting(c)
  /\ stage' = [stage EXCEPT ![c] = "closed"]
  /\ UNCHANGED <<owner, map_appServer_sfd_, from, conn_sfd, up, transportVars, senderVars, restarts>>

\* The end of an older connection of the same process is reported first: it
\* came at least the five seconds of the reconnect timer before, and from
\* the same fixed port no second connection stands beside it.
OlderOnesClosed(c) == \A d \in Opened : d < c /\ from[d] = from[c] => stage[d] = "closed"

\* A slip: an entry that is there is replaced.
Register_Replaces(c) ==
  /\ tpc = "loop"
  /\ stage[c] = "open" /\ OlderOnesClosed(c)
  /\ map_appServer_sfd_' = [n \in DOMAIN map_appServer_sfd_ \cup {Name(c)} |->
                             IF n = Name(c) THEN conn_sfd[c] ELSE map_appServer_sfd_[n]]
  /\ stage' = [stage EXCEPT ![c] = "registered"]
  /\ UNCHANGED <<owner, from, conn_sfd, up, transportVars, senderVars, restarts>>

\* SendToClient, for REPORT_PROCESS_NAME: insert() leaves an entry alone
\* that is there.
Register(c) ==
  /\ tpc = "loop"
  /\ stage[c] = "open" /\ OlderOnesClosed(c)
  /\ map_appServer_sfd_' = MapInsert(map_appServer_sfd_, Name(c), conn_sfd[c])
  /\ stage' = [stage EXCEPT ![c] = "registered"]
  /\ UNCHANGED <<owner, from, conn_sfd, up, transportVars, senderVars, restarts>>

\* ErrorCb: bufferevent_free, then the loop that erases.
ErrorCb(c) ==
  /\ tpc = "loop"
  /\ stage[c] \in {"open", "registered"} /\ ~up[c]
  /\ tpc' = "error" /\ tconn' = c /\ todo' = {"erase", "close"}
  /\ UNCHANGED <<owner, map_appServer_sfd_, connVars, senderVars, restarts>>

\* Both done, the thread is back in its event loop.
Does(what) ==
  /\ tpc = "error" /\ what \in todo
  /\ todo' = todo \ {what}
  /\ tpc' = IF todo' = {} THEN "loop" ELSE "error"
  /\ UNCHANGED tconn

\* The names under this descriptor.
NamesOf(f) == {n \in DOMAIN map_appServer_sfd_ : map_appServer_sfd_[n] = f}

\* A slip: the entry stays, as if the next insert would replace it.
ErrorCbErases_KeepsEntry ==
  /\ Does("erase")
  /\ UNCHANGED <<owner, map_appServer_sfd_, connVars, senderVars, restarts>>

\* A slip: clear().
ErrorCbErases_Clears ==
  /\ Does("erase")
  /\ map_appServer_sfd_' = EmptyMap
  /\ UNCHANGED <<owner, connVars, senderVars, restarts>>

\* The iterator is advanced after its erase: the loop goes on somewhere in
\* the map, where nothing else matches, or the process dies (Restart).
ErrorCbErases ==
  /\ Does("erase")
  /\ map_appServer_sfd_' =
       [n \in DOMAIN map_appServer_sfd_ \ NamesOf(conn_sfd[tconn]) |-> map_appServer_sfd_[n]]
  /\ UNCHANGED <<owner, connVars, senderVars, restarts>>

\* bufferevent_free comes first in the source; libevent 2.0 keeps the
\* bufferevent until the callback has returned, and closes last.  Either.
ErrorCbCloses ==
  /\ Does("close")
  /\ owner' = [owner EXCEPT ![conn_sfd[tconn]] = Free]
  /\ stage' = [stage EXCEPT ![tconn] = "closed"]
  /\ UNCHANGED <<map_appServer_sfd_, from, conn_sfd, up, senderVars, restarts>>

-----------------------------------------------------------------------------
(* A worker: SendToAppServerModule, one at a time.                          *)

\* The connection that registered what is in the map under f: the last one
\* accepted on f.
LastOn(f) == CHOOSE c \in Opened : /\ conn_sfd[c] = f
                                   /\ \A d \in Opened : conn_sfd[d] = f => d <= c

\* An unknown name is refused.  A find that races with the transport thread
\* sees the map before or after its change, or the process dies.
LookUp(n) ==
  /\ spc = "idle"
  /\ n \in DOMAIN map_appServer_sfd_
  /\ spc' = "write" /\ sname' = n /\ sleft' = Pieces
  /\ sconn' = LastOn(map_appServer_sfd_[n])
  /\ reached' = Free
  /\ UNCHANGED <<owner, map_appServer_sfd_, connVars, transportVars, restarts>>

\* WriteSfd writes to the descriptor, whoever has it by now.
WritePiece ==
  /\ spc = "write" /\ owner[conn_sfd[sconn]] # Free
  /\ reached' = owner[conn_sfd[sconn]]
  /\ sleft' = sleft - 1
  /\ spc' = IF sleft > 1 THEN "write" ELSE "idle"
  /\ UNCHANGED <<owner, map_appServer_sfd_, connVars, transportVars, sname, sconn, restarts>>

\* The descriptor is closed, or nothing could be written for three seconds.
WriteFails ==
  /\ spc = "write"
  /\ spc' = "idle" /\ sleft' = 0
  /\ UNCHANGED <<owner, map_appServer_sfd_, connVars, transportVars, sname, sconn, reached, restarts>>

\* The gateway dies, of the races above or otherwise, and is started again.
Restart ==
  /\ restarts < MaxRestarts
  /\ restarts' = restarts + 1
  /\ owner' = [f \in Fd |-> Free] /\ map_appServer_sfd_' = EmptyMap
  /\ stage' = [c \in Conn |-> IF c \in Opened THEN "closed" ELSE "none"]
  /\ up' = [c \in Conn |-> FALSE]
  /\ tpc' = "loop" /\ tconn' = Free /\ todo' = {}
  /\ spc' = "idle" /\ sname' = "" /\ sconn' = Free /\ sleft' = 0 /\ reached' = Free
  /\ UNCHANGED <<from, conn_sfd>>

Next ==
  \/ \E a \in Instance : Connect(a)
  \/ \E n \in Names : LookUp(n)
  \/ \E c \in Conn : PeerEnds(c) \/ AcceptFails(c) \/ Register(c) \/ ErrorCb(c)
  \/ \E c \in Conn, f \in Fd : AcceptCb(c, f)
  \/ \E f \in Fd : ClientAccept(f) \/ ClientClose(f)
  \/ ErrorCbErases \/ ErrorCbCloses
  \/ WritePiece \/ WriteFails
  \/ Restart

Spec == Init /\ [][Next]_vars

-----------------------------------------------------------------------------
(* Properties.                                                             *)

\* ErrorCb has still to take the names of connection c out.
BeingErased(c) == tpc = "error" /\ tconn = c /\ "erase" \in todo

\* What is in the map leads to an open connection that registered that
\* name - but for the moment in which ErrorCb is removing it - although the
\* map is never told when a descriptor is used again.
EntryIsRegistered ==
  \A n \in DOMAIN map_appServer_sfd_ : \E c \in Opened :
    /\ conn_sfd[c] = map_appServer_sfd_[n] /\ Name(c) = n
    /\ \/ owner[conn_sfd[c]] = c /\ stage[c] = "registered"
       \/ BeingErased(c)

\* A request goes to the connection that was found for its name.  If any
\* piece went to somebody else, that connection was closed in the meantime.
AstrayOnlyAfterClose ==
  reached # Free =>
    /\ Name(sconn) = sname
    /\ reached # sconn => stage[sconn] = "closed"

\* An app server alone under its name, that is registered and has not been
\* noticed to be gone, is found, however often it and others came and went.
AloneIsRoutable ==
  \A c \in Opened :
    /\ stage[c] = "registered" /\ ~(tpc = "error" /\ tconn = c)
    /\ \A a \in Instance : NameOf[a] = Name(c) => a = from[c]
    => Name(c) \in DOMAIN map_appServer_sfd_ /\ map_appServer_sfd_[Name(c)] = conn_sfd[c]

\* The names of the connections, and the connections that are meant by the
\* descriptors in the map.
Called == [c \in Opened |-> Name(c)]
Found == [n \in DOMAIN map_appServer_sfd_ |-> LastOn(map_appServer_sfd_[n])]

D == INSTANCE Directory WITH
       Receiver <- Conn \cup {Client}, None <- Free,
       called <- Called,
       member <- {c \in Opened : stage[c] = "registered"},
       ended <- {c \in Opened : stage[c] = "closed"},
       leaving <- IF tpc = "error" THEN tconn ELSE Free,
       entry <- Found,
       target <- IF spc = "write" THEN sconn ELSE Free

\* Descriptors that the kernel gives out again, to app servers and clients,
\* and a map that only the transport thread changes implement a directory of
\* connections: no name is lost, taken over or left behind but by the end of
\* the connection that has it, and every request goes to the one found.
ImplementsDirectory == D!Spec
=============================================================================
