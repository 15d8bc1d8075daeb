--------------------------- MODULE ClientRouting ---------------------------
(***************************************************************************)
(* How the gateway routes a reply of an app server back to the client that *)
(* asked.  Three kinds of threads share the process' descriptor table and  *)
(* the map `map_csfd_id_' (client descriptor -> id):                       *)
(*   - the master thread accepts clients (CMasterThread::AcceptCb);        *)
(*   - the worker threads own the connections (CWorkerThread callbacks);   *)
(*   - the transport thread receives the app servers' replies              *)
(*     (CAppServerTransport::SendToClient) and writes them to clients.     *)
(* A request leaves the gateway tagged with the descriptor and the id of   *)
(* its connection; the reply comes back, at any later time, with the same  *)
(* tag, and is written only if the map still holds that id for that        *)
(* descriptor.  This is about tags that come back as they were sent: a     *)
(* client's request has no members cfd and cfdid of its own (the gateway   *)
(* appends its two and reads the first of that name in the reply), and an  *)
(* app server, which is external, leaves them alone.                       *)
(*                                                                         *)
(* Clients are numbered in the order in which their ids are allocated.     *)
(* Callbacks of different connections interleave freely: each connection   *)
(* has its own worker, which is what thread_num_ = 4 workers give to the   *)
(* few clients of a model.  Which worker serves whom, and the queue that   *)
(* hands the connection over, do not matter here.                          *)
(***************************************************************************)
EXTENDS Integers, ThreadSafeMap

CONSTANTS
  Fd,           (* Descriptor numbers accept() may return.                 *)
  IdMax,        (* The 65535 of GetClientfdMapId.                          *)
  Pieces,       (* write() calls that one reply may need.                  *)
  MaxClients,   (* Bound: clients accepted in a behaviour.                 *)
  MaxRestarts   (* Bound: restarts of the gateway process.                 *)

ASSUME RoutingAssumption ==
  /\ Fd \subseteq Nat
  /\ IdMax \in Nat
  /\ Pieces \in Nat \ {0}
  /\ MaxClients \in Nat
  /\ MaxRestarts \in Nat

Client == 1..MaxClients
Id == 0..(IdMax + 1)
\* GetClientfdMapId runs through IdMax + 2 values before one comes again.
IdPeriod == IdMax + 2

Free == 0     (* owner of a descriptor that is not open                    *)
App  == -1    (* owner of a descriptor that is an app server's connection  *)
NoFd == -1    (* descriptor of a client that has not been accepted         *)

VARIABLES
  owner,         (* kernel: whose connection a descriptor is               *)
  map_csfd_id_,  (* CMasterThread::map_csfd_id_                            *)
  id_,           (* CMasterThread::id_                                     *)
  accepted,      (* number of clients that got an id                       *)
  base,          (* `accepted' when this gateway process started           *)
  restarts,      (* restarts so far                                        *)
  mpc, msfd,     (* master thread: where it is in AcceptCb, and its sfd    *)
  stage,         (* client -> what became of its connection                *)
  conn_sfd,      (* client -> conn::sfd                                    *)
  conn_id,       (* client -> conn::id                                     *)
  asked,         (* clients with a request at an app server                *)
  tpc, tclient,  (* transport thread: its place in SendToClient, and whose *)
  tleft,         (*   reply it is writing, and write() calls left          *)
  received,      (* history: <<who got a piece, whose reply it was>>       *)
  dropped        (* history: clients a reply to whom was dropped           *)

kernelVars == <<owner>>
masterVars == <<mpc, msfd, id_, accepted, base, restarts>>
connVars   == <<stage, conn_sfd, conn_id, asked>>
writeVars  == <<tpc, tclient, tleft>>
history    == <<received, dropped>>
vars == <<kernelVars, map_csfd_id_, masterVars, connVars, writeVars, history>>

Stages == {"none", "queued", "open", "verified", "erased", "closed"}
\* A worker (or its queue) still holds the connection: nobody has closed it.
Live == {"queued", "open", "verified", "erased"}

TypeOK ==
  /\ owner \in [Fd -> Client \cup {Free, App}]
  /\ DOMAIN map_csfd_id_ \subseteq Fd
  /\ \A f \in DOMAIN map_csfd_id_ : map_csfd_id_[f] \in Id
  /\ id_ \in Id
  /\ accepted \in 0..MaxClients
  /\ base \in 0..accepted
  /\ restarts \in 0..MaxRestarts
  /\ mpc \in {"wait", "accepted", "erased"}
  /\ msfd \in Fd \cup {NoFd}
  /\ stage \in [Client -> Stages]
  /\ conn_sfd \in [Client -> Fd \cup {NoFd}]
  /\ conn_id \in [Client -> Id]
  /\ asked \subseteq Client
  /\ tpc \in {"read", "write"}
  /\ tclient \in 0..MaxClients
  /\ tleft \in 0..Pieces
  /\ received \subseteq (Client \cup {App}) \X Client
  /\ dropped \subseteq Client

Init ==
  /\ owner = [f \in Fd |-> Free]
  /\ map_csfd_id_ = EmptyMap
  /\ id_ = 0
  /\ accepted = 0 /\ base = 0 /\ restarts = 0
  /\ mpc = "wait" /\ msfd = NoFd
  /\ stage = [c \in Client |-> "none"]
  /\ conn_sfd = [c \in Client |-> NoFd]
  /\ conn_id = [c \in Client |-> 0]
  /\ asked = {}
  /\ tpc = "read" /\ tclient = 0 /\ tleft = 0
  /\ received = {} /\ dropped = {}

-----------------------------------------------------------------------------
(* Master thread.                                                          *)

\* Slips in GetClientfdMapId: no wrap, and a wrap to the first id, 1.
GetClientfdMapId_NoWrap == id_ + 1
GetClientfdMapId_WrapsToOne == IF id_ > IdMax THEN 1 ELSE id_ + 1

\* The wrap test is on the old value: ids run through 0..IdMax+1.
GetClientfdMapId == IF id_ > IdMax THEN 0 ELSE id_ + 1

\* accept() returns a descriptor that nobody has open.
Accept(f) ==
  /\ mpc = "wait" /\ accepted < MaxClients
  /\ owner[f] = Free
  /\ owner' = [owner EXCEPT ![f] = accepted + 1]
  /\ mpc' = "accepted" /\ msfd' = f
  /\ UNCHANGED <<map_csfd_id_, id_, accepted, base, restarts, connVars, writeVars, history>>

\* SetSocketNoBlock failed: the client is gone before it was numbered.
AcceptFails ==
  /\ mpc = "accepted"
  /\ owner' = [owner EXCEPT ![msfd] = Free]
  /\ mpc' = "wait"
  /\ UNCHANGED <<map_csfd_id_, id_, accepted, base, restarts, msfd, connVars, writeVars, history>>

\* A slip: no erase() before insert(), which then keeps a stale entry.
AcceptErases_KeepsEntry ==
  /\ mpc = "accepted"
  /\ id_' = GetClientfdMapId
  /\ mpc' = "erased"
  /\ UNCHANGED <<owner, map_csfd_id_, accepted, base, restarts, msfd, connVars, writeVars, history>>

\* A new id, and what an earlier connection left under this descriptor goes.
AcceptErases ==
  /\ mpc = "accepted"
  /\ id_' = GetClientfdMapId
  /\ map_csfd_id_' = MapErase(map_csfd_id_, msfd)
  /\ mpc' = "erased"
  /\ UNCHANGED <<owner, accepted, base, restarts, msfd, connVars, writeVars, history>>

\* insert() and DispatchSfdToWorker.  Nobody reads the queue item in between,
\* and no request carries the new id yet, so the two make one step.
AcceptDispatches ==
  LET c == accepted + 1 IN
  /\ mpc = "erased"
  /\ map_csfd_id_' = MapInsert(map_csfd_id_, msfd, id_)
  /\ accepted' = c
  /\ stage' = [stage EXCEPT ![c] = "queued"]
  /\ conn_sfd' = [conn_sfd EXCEPT ![c] = msfd]
  /\ conn_id' = [conn_id EXCEPT ![c] = id_]
  /\ mpc' = "wait"
  /\ UNCHANGED <<owner, id_, base, restarts, msfd, asked, writeVars, history>>

-----------------------------------------------------------------------------
(* Worker threads: the life of one connection.                             *)

\* close(), by close() itself or by bufferevent_free with CLOSE_ON_FREE.
Close(f) == owner' = [owner EXCEPT ![f] = Free]

\* ThreadLibeventProcess: conn_new registers the callbacks ...
ConnNew(c) ==
  /\ stage[c] = "queued"
  /\ stage' = [stage EXCEPT ![c] = "open"]
  /\ UNCHANGED <<kernelVars, map_csfd_id_, masterVars, conn_sfd, conn_id, asked, writeVars, history>>

\* ... or fails; the descriptor is closed and its entry stays in the map.
ConnNewFails(c) ==
  /\ stage[c] = "queued"
  /\ Close(conn_sfd[c])
  /\ stage' = [stage EXCEPT ![c] = "closed"]
  /\ UNCHANGED <<map_csfd_id_, masterVars, conn_sfd, conn_id, asked, writeVars, history>>

\* ClientTcpReadCb: the first TOKEN_LENGTH bytes are the token ...
TokenAccepted(c) ==
  /\ stage[c] = "open"
  /\ stage' = [stage EXCEPT ![c] = "verified"]
  /\ UNCHANGED <<kernelVars, map_csfd_id_, masterVars, conn_sfd, conn_id, asked, writeVars, history>>

\* ... or are not: conn_close, which leaves the entry in the map.
TokenRejected(c) ==
  /\ stage[c] = "open"
  /\ Close(conn_sfd[c])
  /\ stage' = [stage EXCEPT ![c] = "closed"]
  /\ UNCHANGED <<map_csfd_id_, masterVars, conn_sfd, conn_id, asked, writeVars, history>>

\* ClientInMessageOpt: the request goes out with conn_sfd[c] and conn_id[c].
ForwardRequest(c) ==
  /\ stage[c] = "verified"
  /\ asked' = asked \cup {c}
  /\ UNCHANGED <<kernelVars, map_csfd_id_, masterVars, stage, conn_sfd, conn_id, writeVars, history>>

\* Slips in ClientTcpErrorCb: the entry is forgotten, and conn_close comes
\* before erase().
ErrorCbErases_KeepsEntry(c) ==
  /\ stage[c] \in {"open", "verified"}
  /\ stage' = [stage EXCEPT ![c] = "erased"]
  /\ UNCHANGED <<kernelVars, map_csfd_id_, masterVars, conn_sfd, conn_id, asked, writeVars, history>>

ErrorCbErases_ClosesFirst(c) ==
  /\ stage[c] \in {"open", "verified"}
  /\ Close(conn_sfd[c])
  /\ stage' = [stage EXCEPT ![c] = "erased"]
  /\ UNCHANGED <<map_csfd_id_, masterVars, conn_sfd, conn_id, asked, writeVars, history>>

\* ClientTcpErrorCb (end of file, error or the read timeout): first erase ...
ErrorCbErases(c) ==
  /\ stage[c] \in {"open", "verified"}
  /\ map_csfd_id_' = MapErase(map_csfd_id_, conn_sfd[c])
  /\ stage' = [stage EXCEPT ![c] = "erased"]
  /\ UNCHANGED <<kernelVars, masterVars, conn_sfd, conn_id, asked, writeVars, history>>

\* ... then conn_close frees the bufferevent and with it the descriptor.
ErrorCbCloses(c) ==
  /\ stage[c] = "erased"
  /\ Close(conn_sfd[c])
  /\ stage' = [stage EXCEPT ![c] = "closed"]
  /\ UNCHANGED <<map_csfd_id_, masterVars, conn_sfd, conn_id, asked, writeVars, history>>

-----------------------------------------------------------------------------
(* Transport thread.                                                       *)

\* Descriptor and id that RestructJsonStringToLogic put into a request, as
\* RestructJsonStringToclient reads them out of the reply and takes them off:
\* the same pair, as the request had no other cfd and cfdid (see above).
ReplyTag(c) == <<conn_sfd[c], conn_id[c]>>

\* The check of SendToClient on the tag that came back with the reply.
TagMatches(c) == MapFinds(map_csfd_id_, ReplyTag(c)[1], ReplyTag(c)[2])

\* A reply to any request that was ever forwarded, once or many times, in
\* any order.
SendToClient(c) ==
  /\ tpc = "read"
  /\ c \in asked
  /\ TagMatches(c)
  /\ tpc' = "write" /\ tclient' = c /\ tleft' = Pieces
  /\ UNCHANGED <<kernelVars, map_csfd_id_, masterVars, connVars, history>>

\* Entry missing, or with another id: logged and dropped.
DropReply(c) ==
  /\ tpc = "read"
  /\ c \in asked
  /\ ~TagMatches(c)
  /\ dropped' = dropped \cup {c}
  /\ UNCHANGED <<kernelVars, map_csfd_id_, masterVars, connVars, writeVars, received>>

\* One write() of WriteSfd: it reaches whoever owns the descriptor now.
WritePiece ==
  LET f == conn_sfd[tclient] IN
  /\ tpc = "write"
  /\ owner[f] # Free
  /\ received' = received \cup {<<owner[f], tclient>>}
  /\ tleft' = tleft - 1
  /\ tpc' = IF tleft = 1 THEN "read" ELSE "write"
  /\ UNCHANGED <<kernelVars, map_csfd_id_, masterVars, connVars, tclient, dropped>>

\* write() fails (always when the descriptor is closed), or stays EAGAIN for
\* more than three seconds: WriteSfd returns false, the rest is not sent.
WriteFails ==
  /\ tpc = "write"
  /\ tpc' = "read"
  /\ UNCHANGED <<kernelVars, map_csfd_id_, masterVars, connVars, tclient, tleft, history>>

\* CAppServerTransport::AcceptCb and ErrorCb run on the same thread and take
\* and give back descriptors of the same table.
AppAccept(f) ==
  /\ tpc = "read"
  /\ owner[f] = Free
  /\ owner' = [owner EXCEPT ![f] = App]
  /\ UNCHANGED <<map_csfd_id_, masterVars, connVars, writeVars, history>>

AppClose(f) ==
  /\ tpc = "read"
  /\ owner[f] = App
  /\ owner' = [owner EXCEPT ![f] = Free]
  /\ UNCHANGED <<map_csfd_id_, masterVars, connVars, writeVars, history>>

-----------------------------------------------------------------------------
(* The gateway process dies and starts again: nothing of its state is      *)
(* kept, and id_ is 0 again (main, Run, the static initialisers).  The app *)
(* servers keep running, and answer what they were asked over their next   *)
(* connection.                                                             *)
Restart ==
  /\ restarts < MaxRestarts
  /\ restarts' = restarts + 1
  /\ owner' = [f \in Fd |-> Free]
  /\ map_csfd_id_' = EmptyMap
  /\ id_' = 0
  /\ base' = accepted
  /\ mpc' = "wait"
  /\ stage' = [c \in Client |-> IF stage[c] = "none" THEN "none" ELSE "closed"]
  /\ tpc' = "read"
  /\ UNCHANGED <<accepted, msfd, conn_sfd, conn_id, asked, tclient, tleft, history>>

Master == \/ \E f \in Fd : Accept(f)
          \/ AcceptFails
          \/ AcceptErases
          \/ AcceptDispatches

Worker(c) == \/ ConnNew(c) \/ ConnNewFails(c)
             \/ TokenAccepted(c) \/ TokenRejected(c)
             \/ ForwardRequest(c)
             \/ ErrorCbErases(c) \/ ErrorCbCloses(c)

Transport == \/ \E c \in Client : SendToClient(c) \/ DropReply(c)
             \/ WritePiece \/ WriteFails
             \/ \E f \in Fd : AppAccept(f) \/ AppClose(f)

Next == Master \/ (\E c \in Client : Worker(c)) \/ Transport \/ Restart

Spec == Init /\ [][Next]_vars

-----------------------------------------------------------------------------
(* Properties.                                                             *)

\* Safety of the check itself: at the instant the tag of a reply is found in
\* the map, the descriptor is still the one of the client that asked - as
\* long as the gateway has not restarted and fewer than IdPeriod clients
\* were accepted since.  (SendToClient against AcceptCb, ClientTcpErrorCb,
\* conn_close without erase, and the wrap of GetClientfdMapId.)
Fresh(c) == c > base /\ accepted - c < IdPeriod
Matched == tpc = "read" /\ tpc' = "write"
MatchFindsOwner ==
  [][Matched /\ Fresh(tclient') => owner[conn_sfd[tclient']] = tclient']_vars

\* The comment in SendToClient: an entry that is missing or has another id
\* means that the original connection is dead.  A reply is never dropped
\* while a worker still serves the client that asked.
DroppedOnlyIfDead == \A c \in dropped : stage[c] \in {"erased", "closed"}

\* No piece of a reply reaches anybody but the client that asked while the
\* connection of that client is still open, however the accepts, closes and
\* the pieces of one WriteSfd interleave, and after any number of restarts.
MisdeliveredOnlyAfterClose ==
  \A d \in received : d[1] # d[2] => stage[d[2]] = "closed"

\* What the comment on map_csfd_id_ promises: the map keeps a reply from
\* going to another client when a descriptor is reused.  SendToClient lets
\* the lock of the map go before WriteSfd, so this is not what happens.
NoCrossTalk == \A d \in received : d[1] = d[2]

\* What a client sees of its connection.
Seen == [c \in Client |-> IF stage[c] \in {"queued", "open", "verified"} THEN "open"
                         ELSE IF stage[c] = "erased" THEN "leaving" ELSE stage[c]]

RS == INSTANCE ReplyService WITH
        Others <- {App}, Window <- IdPeriod, None <- 0,
        conn <- Seen, writing <- IF tpc = "write" THEN tclient ELSE 0

\* Descriptors that are reused, ids that wrap around, and entries that stay
\* behind implement a service that knows its clients themselves: every reply
\* that is younger than the process and than one turn of the ids is begun
\* only for a client that is there, and dropped only for one that is not.
ImplementsReplyService == RS!Spec
=============================================================================
