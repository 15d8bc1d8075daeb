---------------------------- MODULE ConnDispatch ----------------------------
(***************************************************************************)
(* How a new client connection gets from the gateway's master thread to a  *)
(* worker thread (gatewayServer/worker_threads.cc), from the start of the  *)
(* workers on.  The master puts a CQ_ITEM on the queue of the next worker  *)
(* and writes a byte to its notify pipe; the worker reads a byte, takes an *)
(* item, sets up a conn and gives the item back.  Items and conns come     *)
(* from two free lists that all threads share.                             *)
(*                                                                         *)
(* A step is one critical section, or what a thread does between two of    *)
(* them with objects that only it holds.  A connection is its number in    *)
(* the order of accepts, and stands for the descriptor, the id and the     *)
(* address that the code copies.  The list that runs through the `next'    *)
(* fields of the items is a sequence.                                      *)
(*                                                                         *)
(* SIGUSR1 reads the configuration again, thread_num_ included, in the     *)
(* middle of whatever the threads are doing.  Nothing checks the number: 0 *)
(* is taken as it comes.  A negative one, which the unsigned field makes   *)
(* huge, runs out of descriptors at the start (StartFails) and is as bad   *)
(* as any other that is too large after a reload.                          *)
(***************************************************************************)
EXTENDS Integers, Sequences

CONSTANTS
  MaxThreads,     (* Largest worker.thread.num in a configuration.         *)
  ItemsPerAlloc,  (* ITEMS_PER_ALLOC                                       *)
  PipeSize,       (* Bytes that fit into a notify pipe.                    *)
  MaxConns,       (* Bound: connections accepted in a behaviour.           *)
  MaxReloads      (* Bound: signals that reload the configuration.         *)

ASSUME DispatchAssumption ==
  /\ MaxThreads \in Nat \ {0}
  /\ ItemsPerAlloc \in Nat /\ ItemsPerAlloc > 1
  /\ PipeSize \in Nat \ {0}
  /\ MaxConns \in Nat
  /\ MaxReloads \in Nat

Worker == 0..(MaxThreads - 1)
Conn == 1..MaxConns
None == 0

VARIABLES
  thread_num_,    (* CGlobalSettings::thread_num_                          *)
  reloads,        (* signals so far                                        *)
  mpc,            (* master: where it is                                   *)
  threads,        (* length of vec_libevent_thread_                        *)
  created,        (* workers created so far                                *)
  init_count_,    (* workers that have registered                          *)
  last_thread_,   (* worker that got the last connection                   *)
  mitem,          (* item in the master's hands                            *)
  allocated,      (* items allocated so far; they are 1..allocated         *)
  cqi_freelist_,  (* the free items, as a list                             *)
  item_conn,      (* item -> the connection written into it                *)
  queue,          (* worker -> new_conn_queue                              *)
  notify,         (* worker -> bytes in its notify pipe                    *)
  wpc, witem,     (* worker -> where it is, and the item in its hands      *)
  wobj,           (* worker -> the conn that it is setting up              *)
  objects,        (* conns allocated so far; they are 1..objects           *)
  freeconn,       (* vec_freeconn_, up to freecurr_                        *)
  obj_conn,       (* conn -> the connection written into it                *)
  accepted,       (* connections accepted so far                           *)
  stage,          (* connection -> what became of it                       *)
  obj             (* connection -> its conn                                *)

startVars  == <<thread_num_, reloads, threads, created, init_count_>>
itemVars   == <<mitem, allocated, cqi_freelist_, item_conn>>
queueVars  == <<queue, notify>>
workerVars == <<wpc, witem, wobj>>
objVars    == <<objects, freeconn, obj_conn>>
connVars   == <<accepted, stage, obj>>
vars == <<mpc, startVars, last_thread_, itemVars, queueVars, workerVars, objVars, connVars>>

\* The items and the conns that exist.
Item == 1..allocated
Object == 1..objects

TypeOK ==
  /\ thread_num_ \in 0..MaxThreads
  /\ reloads \in 0..MaxReloads
  /\ mpc \in {"init", "setup", "create", "wait", "transport", "accept", "alloc", "push",
             "notify", "crashed", "exited"}
  /\ threads \in 0..MaxThreads
  /\ created \in 0..threads
  /\ init_count_ \in Nat
  /\ last_thread_ \in Worker \cup {-1}
  /\ mitem \in Item \cup {None}
  /\ allocated \in Nat
  /\ cqi_freelist_ \in Seq(Item)
  /\ item_conn \in [Item -> Conn \cup {None}]
  /\ queue \in [Worker -> Seq(Item)]
  /\ notify \in [Worker -> 0..PipeSize]
  /\ wpc \in [Worker -> {"none", "start", "loop", "notified", "popped", "conn", "free"}]
  /\ witem \in [Worker -> Item \cup {None}]
  /\ wobj \in [Worker -> Object \cup {None}]
  /\ objects \in Nat
  /\ freeconn \in Seq(Object)
  /\ obj_conn \in [Object -> Conn]
  /\ accepted \in 0..MaxConns
  /\ stage \in [Conn -> {"none", "dispatched", "served", "closed"}]
  /\ obj \in [Conn -> Object \cup {None}]

Init ==
  /\ thread_num_ \in 0..MaxThreads /\ reloads = 0
  /\ mpc = "init" /\ threads = 0 /\ created = 0 /\ init_count_ = 0
  /\ last_thread_ = -1
  /\ mitem = None /\ allocated = 0 /\ cqi_freelist_ = <<>>
  /\ item_conn = <<>>
  /\ queue = [w \in Worker |-> <<>>] /\ notify = [w \in Worker |-> 0]
  /\ wpc = [w \in Worker |-> "none"]
  /\ witem = [w \in Worker |-> None] /\ wobj = [w \in Worker |-> None]
  /\ objects = 0 /\ freeconn = <<>> /\ obj_conn = <<>>
  /\ accepted = 0 /\ stage = [c \in Conn |-> "none"] /\ obj = [c \in Conn |-> None]

-----------------------------------------------------------------------------
(* The start: InitMasterThread and InitThread.                             *)

\* An exception that nobody catches takes the whole process down, and so
\* does an error of the start.
Running == mpc \notin {"crashed", "exited"}

At(w, place) == Running /\ wpc[w] = place

\* SigUsr reads all settings again, on any thread and at any time.
Reload ==
  /\ Running /\ reloads < MaxReloads
  /\ reloads' = reloads + 1
  /\ thread_num_' \in 0..MaxThreads
  /\ UNCHANGED <<mpc, threads, created, init_count_, last_thread_, itemVars, queueVars,
                 workerVars, objVars, connVars>>

\* The file cannot be read any more: InitConfigure exits.
ReloadFails ==
  /\ Running /\ reloads < MaxReloads
  /\ reloads' = reloads + 1
  /\ mpc' = "exited"
  /\ UNCHANGED <<thread_num_, threads, created, init_count_, last_thread_, itemVars, queueVars,
                 workerVars, objVars, connVars>>

\* The port for clients is open from here on: they wait in the backlog.
InitRemoteListenSocket ==
  /\ mpc = "init"
  /\ mpc' = "setup"
  /\ UNCHANGED <<startVars, last_thread_, itemVars, queueVars, workerVars, objVars, connVars>>

\* A socket, pipe, event or thread of the start fails: Run, or the place
\* itself, ends the process.
StartFails ==
  /\ mpc \in {"init", "setup", "create", "transport"}
  /\ mpc' = "exited"
  /\ UNCHANGED <<startVars, last_thread_, itemVars, queueVars, workerVars, objVars, connVars>>

\* A slip: <= in the condition of the loop.
SetupThread_OneMore ==
  /\ mpc = "setup"
  /\ IF threads <= thread_num_
     THEN threads' = threads + 1 /\ UNCHANGED mpc
     ELSE mpc' = "create" /\ UNCHANGED threads
  /\ UNCHANGED <<thread_num_, reloads, created, init_count_, last_thread_, itemVars, queueVars,
                 workerVars, objVars, connVars>>

\* One turn of the first loop: a pipe and a queue, or the loop ends.
SetupThread ==
  /\ mpc = "setup"
  /\ IF threads < thread_num_
     THEN threads' = threads + 1 /\ UNCHANGED mpc
     ELSE mpc' = "create" /\ UNCHANGED threads
  /\ UNCHANGED <<thread_num_, reloads, created, init_count_, last_thread_, itemVars, queueVars,
                 workerVars, objVars, connVars>>

\* One turn of the second: at() throws for a thread that was not set up,
\* and nothing catches it.
CreateWorker ==
  /\ mpc = "create" /\ created < thread_num_
  /\ IF created < threads
     THEN /\ created' = created + 1
          /\ wpc' = [wpc EXCEPT ![created] = "start"]
          /\ UNCHANGED mpc
     ELSE /\ mpc' = "crashed"
          /\ UNCHANGED <<created, wpc>>
  /\ UNCHANGED <<thread_num_, reloads, threads, init_count_, last_thread_, itemVars, queueVars,
                 witem, wobj, objVars, connVars>>

\* WaitForThreadRegistration: `if', then pthread_cond_wait.
WaitForThreadRegistration ==
  /\ mpc = "create" /\ created >= thread_num_
  /\ mpc' = IF init_count_ < thread_num_ THEN "wait" ELSE "transport"
  /\ UNCHANGED <<startVars, last_thread_, itemVars, queueVars, workerVars, objVars, connVars>>

\* pthread_cond_wait may return without a signal, and nothing looks again.
SpuriousWakeup ==
  /\ mpc = "wait"
  /\ mpc' = "transport"
  /\ UNCHANGED <<startVars, last_thread_, itemVars, queueVars, workerVars, objVars, connVars>>

\* A slip: the test before the increment.
IsLast_TestsFirst == init_count_ = thread_num_

\* The last worker to register signals.
IsLast == init_count_ + 1 = thread_num_

\* RegisterThreadInitialized, then event_base_dispatch.
RegisterThreadInitialized(w) ==
  /\ At(w, "start")
  /\ init_count_' = init_count_ + 1
  /\ mpc' = IF IsLast /\ mpc = "wait" THEN "transport" ELSE mpc
  /\ wpc' = [wpc EXCEPT ![w] = "loop"]
  /\ UNCHANGED <<thread_num_, reloads, threads, created, last_thread_, itemVars, queueVars,
                 witem, wobj, objVars, connVars>>

\* The port for app servers and the thread that serves it; then the master
\* enters its event loop, in CMasterThread::Run.
SetupAppServerTransport ==
  /\ mpc = "transport"
  /\ mpc' = "accept"
  /\ UNCHANGED <<startVars, last_thread_, itemVars, queueVars, workerVars, objVars, connVars>>

-----------------------------------------------------------------------------
(* Master: AcceptCb calls DispatchSfdToWorker.                             *)

\* ConnQueueItemNew finds a free item ...
ItemFromFreelist ==
  /\ mpc = "accept" /\ accepted < MaxConns
  /\ cqi_freelist_ # <<>>
  /\ mitem' = Head(cqi_freelist_)
  /\ cqi_freelist_' = Tail(cqi_freelist_)
  /\ mpc' = "push"
  /\ UNCHANGED <<startVars, last_thread_, allocated, item_conn, queueVars, workerVars, objVars, connVars>>

\* ... or none, and lets the lock go before it allocates a block.
FreelistEmpty ==
  /\ mpc = "accept" /\ accepted < MaxConns
  /\ cqi_freelist_ = <<>>
  /\ mpc' = "alloc"
  /\ UNCHANGED <<startVars, last_thread_, itemVars, queueVars, workerVars, objVars, connVars>>

\* A slip: the first item of the block goes to the free list too.
Block_All == [i \in 1..ItemsPerAlloc |-> allocated + i]

\* The items of a block but the first one, which the caller gets.
Block == [i \in 1..(ItemsPerAlloc - 1) |-> allocated + 1 + i]

\* The block goes in front of what workers have given back meanwhile.
AllocItems ==
  /\ mpc = "alloc"
  /\ mitem' = allocated + 1
  /\ cqi_freelist_' = Block \o cqi_freelist_
  /\ allocated' = allocated + ItemsPerAlloc
  /\ item_conn' = [i \in 1..allocated' |-> IF i <= allocated THEN item_conn[i] ELSE None]
  /\ mpc' = "push"
  /\ UNCHANGED <<startVars, last_thread_, queueVars, workerVars, objVars, connVars>>

\* A slip: no modulo.
NextThread_NoWrap == last_thread_ + 1

\* Round robin.
NextThread == (last_thread_ + 1) % thread_num_

\* A slip: the item replaces the list.
Pushed_Replaces(q, item) == <<item>>
\* A slip: the item goes to the head of the list.
Pushed_First(q, item) == <<item>> \o q
Pushed(q, item) == Append(q, item)

\* There is no remainder by 0, and at() throws when a reload has raised
\* thread_num_.
NextThreadMissing ==
  /\ mpc = "push"
  /\ thread_num_ # 0 => NextThread >= threads
  /\ mpc' = "crashed"
  /\ UNCHANGED <<startVars, last_thread_, itemVars, queueVars, workerVars, objVars, connVars>>

\* The item is filled and pushed on the queue of the next worker.
ConnQueuePush ==
  LET c == accepted + 1 IN
  /\ mpc = "push"
  /\ thread_num_ # 0 /\ NextThread < threads
  /\ accepted' = c
  /\ stage' = [stage EXCEPT ![c] = "dispatched"]
  /\ item_conn' = [item_conn EXCEPT ![mitem] = c]
  /\ last_thread_' = NextThread
  /\ queue' = [queue EXCEPT ![NextThread] = Pushed(@, mitem)]
  /\ mitem' = None
  /\ mpc' = "notify"
  /\ UNCHANGED <<startVars, allocated, cqi_freelist_, notify, workerVars, objVars, obj>>

\* A slip: the byte is saved if the queue was not empty.
Byte_IfFirst == IF Len(queue[last_thread_]) = 1 THEN 1 ELSE 0

Byte == 1

\* The write blocks while the pipe is full.
NotifyWorker ==
  /\ mpc = "notify"
  /\ notify[last_thread_] < PipeSize
  /\ notify' = [notify EXCEPT ![last_thread_] = @ + Byte]
  /\ mpc' = "accept"
  /\ UNCHANGED <<startVars, last_thread_, itemVars, queue, workerVars, objVars, connVars>>

-----------------------------------------------------------------------------
(* Worker w: ThreadLibeventProcess.                                        *)

\* A slip: everything in the pipe is read for one item.
ReadNotify_Drains(w) ==
  /\ At(w, "loop") /\ notify[w] > 0
  /\ notify' = [notify EXCEPT ![w] = 0]
  /\ wpc' = [wpc EXCEPT ![w] = "notified"]
  /\ UNCHANGED <<mpc, startVars, last_thread_, itemVars, queue, witem, wobj, objVars, connVars>>

ReadNotify(w) ==
  /\ At(w, "loop") /\ notify[w] > 0
  /\ notify' = [notify EXCEPT ![w] = @ - 1]
  /\ wpc' = [wpc EXCEPT ![w] = "notified"]
  /\ UNCHANGED <<mpc, startVars, last_thread_, itemVars, queue, witem, wobj, objVars, connVars>>

\* There is an item for every byte (NoneStranded), so that NULL, for which
\* nothing would be done, never comes back.
ConnQueuePop(w) ==
  /\ At(w, "notified") /\ queue[w] # <<>>
  /\ witem' = [witem EXCEPT ![w] = Head(queue[w])]
  /\ queue' = [queue EXCEPT ![w] = Tail(@)]
  /\ wpc' = [wpc EXCEPT ![w] = "popped"]
  /\ UNCHANGED <<mpc, startVars, last_thread_, itemVars, notify, wobj, objVars, connVars>>

\* conn_new: the last conn of the free list, or a new one, gets what the
\* item holds.  malloc and new do not fail.
ConnNew(w) ==
  /\ At(w, "popped")
  /\ IF freeconn # <<>>
     THEN /\ wobj' = [wobj EXCEPT ![w] = freeconn[Len(freeconn)]]
          /\ freeconn' = SubSeq(freeconn, 1, Len(freeconn) - 1)
          /\ UNCHANGED objects
     ELSE /\ wobj' = [wobj EXCEPT ![w] = objects + 1]
          /\ objects' = objects + 1
          /\ UNCHANGED freeconn
  /\ obj_conn' = [o \in 1..objects' |-> IF o = wobj'[w] THEN item_conn[witem[w]] ELSE obj_conn[o]]
  /\ wpc' = [wpc EXCEPT ![w] = "conn"]
  /\ UNCHANGED <<mpc, startVars, last_thread_, itemVars, queueVars, witem, connVars>>

\* The bufferevent is set up: the worker's event loop serves the connection.
ServesConn(w) ==
  LET c == item_conn[witem[w]] IN
  /\ At(w, "conn")
  /\ stage' = [stage EXCEPT ![c] = "served"]
  /\ obj' = [obj EXCEPT ![c] = wobj[w]]
  /\ wobj' = [wobj EXCEPT ![w] = None]
  /\ wpc' = [wpc EXCEPT ![w] = "free"]
  /\ UNCHANGED <<mpc, startVars, last_thread_, itemVars, queueVars, witem, objVars, accepted>>

\* bufferevent_socket_new returned NULL: the conn goes back and the caller
\* closes the descriptor.
ConnNewFails(w) ==
  LET c == item_conn[witem[w]] IN
  /\ At(w, "conn")
  /\ stage' = [stage EXCEPT ![c] = "closed"]
  /\ freeconn' = Append(freeconn, wobj[w])
  /\ wobj' = [wobj EXCEPT ![w] = None]
  /\ wpc' = [wpc EXCEPT ![w] = "free"]
  /\ UNCHANGED <<mpc, startVars, last_thread_, itemVars, queueVars, witem, objects, obj_conn, accepted, obj>>

ConnQueueItemFree(w) ==
  /\ At(w, "free")
  /\ cqi_freelist_' = <<witem[w]>> \o cqi_freelist_
  /\ witem' = [witem EXCEPT ![w] = None]
  /\ wpc' = [wpc EXCEPT ![w] = "loop"]
  /\ UNCHANGED <<mpc, startVars, last_thread_, mitem, allocated, item_conn, queueVars, wobj, objVars, connVars>>

\* A slip: the conn comes back twice, from the callback and from conn_close.
ConnClose_Twice(c) ==
  /\ Running /\ stage[c] = "served"
  /\ stage' = [stage EXCEPT ![c] = "closed"]
  /\ freeconn' = freeconn \o <<obj[c], obj[c]>>
  /\ obj' = [obj EXCEPT ![c] = None]
  /\ UNCHANGED <<mpc, startVars, last_thread_, itemVars, queueVars, workerVars, objects, obj_conn, accepted>>

\* conn_close, from a callback of the connection.  That a worker runs its
\* callbacks one at a time is left out: more orders are allowed here.
ConnClose(c) ==
  /\ Running /\ stage[c] = "served"
  /\ stage' = [stage EXCEPT ![c] = "closed"]
  /\ freeconn' = Append(freeconn, obj[c])
  /\ obj' = [obj EXCEPT ![c] = None]
  /\ UNCHANGED <<mpc, startVars, last_thread_, itemVars, queueVars, workerVars, objects, obj_conn, accepted>>

Dispatch == AllocItems \/ ConnQueuePush \/ NextThreadMissing \/ NotifyWorker
Start == \/ InitRemoteListenSocket \/ SetupThread \/ CreateWorker
         \/ WaitForThreadRegistration \/ SetupAppServerTransport
Process(w) == \/ ReadNotify(w) \/ ConnQueuePop(w) \/ ConnNew(w)
              \/ ServesConn(w) \/ ConnNewFails(w) \/ ConnQueueItemFree(w)

Next == \/ Reload \/ ReloadFails
        \/ Start \/ StartFails \/ SpuriousWakeup
        \/ ItemFromFreelist \/ FreelistEmpty \/ Dispatch
        \/ \E w \in Worker : RegisterThreadInitialized(w) \/ Process(w)
        \/ \E c \in Conn : ConnClose(c)

Spec == Init /\ [][Next]_vars

\* Every thread runs on.  Nothing is assumed of clients, who connect and
\* disconnect when they like, or of spurious wakeups.
FairSpec ==
  /\ Spec
  /\ WF_vars(Start) /\ WF_vars(Dispatch)
  /\ \A w \in Worker : WF_vars(RegisterThreadInitialized(w)) /\ WF_vars(Process(w))

-----------------------------------------------------------------------------
(* Properties.                                                             *)

\* Nobody is left on a queue without a byte that makes the worker look, and
\* no byte is left without an item: ConnQueuePop never returns NULL.
NoneStranded ==
  Running => \A w \in Worker :
    Len(queue[w]) = notify[w] + (IF wpc[w] = "notified" THEN 1 ELSE 0)
                    + (IF mpc = "notify" /\ last_thread_ = w THEN 1 ELSE 0)

\* Where an item is: in the free list, in a queue, or in somebody's hands.
InFreelist(i) == {<<"free", 0, k>> : k \in {n \in 1..Len(cqi_freelist_) : cqi_freelist_[n] = i}}
InQueue(w, i) == {<<"queue", w, k>> : k \in {n \in 1..Len(queue[w]) : queue[w][n] = i}}
InQueues(i) == UNION {InQueue(w, i) : w \in Worker}
WithWorker(i) == {<<"worker", w, 0>> : w \in {v \in Worker : witem[v] = i}}
WithMaster(i) == {<<"master", 0, 0>> : n \in {mitem} \cap {i}}
Places(i) == InFreelist(i) \cup InQueues(i) \cup WithWorker(i) \cup WithMaster(i)

\* The links of the free list and of the queues run through the same field:
\* an item is in one place at a time, in one list or in one thread's hands.
OnePlace == \A i \in Item : \E p \in Places(i) : Places(i) = {p}

\* A connection that is served has a conn to itself, with its own descriptor
\* and id in it, though items and conns are used over and over by all
\* threads; no conn in use is on the free list.
ServedAsDispatched ==
  \A c \in Conn : stage[c] = "served" =>
    /\ obj_conn[obj[c]] = c
    /\ \A k \in 1..Len(freeconn) : freeconn[k] # obj[c]

\* Until it is served or closed, a connection that was dispatched is in an
\* item on a queue or in the hands of a worker.
NoneForgotten ==
  \A c \in Conn : stage[c] = "dispatched" =>
    \E w \in Worker : \/ \E k \in 1..Len(queue[w]) : item_conn[queue[w][k]] = c
                      \/ witem[w] # None /\ item_conn[witem[w]] = c

\* A connection on the queue of a worker that was set up and not created:
\* a reload lowered thread_num_ between the loops of InitThread, another one
\* raised it again.
ForNobody(c) ==
  \E w \in Worker : w >= created /\ \E k \in 1..Len(queue[w]) : item_conn[queue[w][k]] = c

\* Every connection that was dispatched is set up or given up, even those
\* accepted before the worker has started its event loop - unless the
\* process ends first or the connection was given to nobody, both of which
\* take a reload.
EveryConnServed ==
  \A c \in Conn :
    stage[c] = "dispatched" ~> (stage[c] \in {"served", "closed"} \/ ForNobody(c) \/ ~Running)

\* The signal for the master comes once; it is not lost.  A reload during
\* the start can change the number that is waited for.
GatewayStarts ==
  <>(mpc \notin {"init", "setup", "create", "wait", "transport"} \/ reloads > 0)

\* The worker that is picked for a connection exists - vec_libevent_thread_
\* is not indexed beyond its end, at the start or at any dispatch - as long
\* as no reload has changed thread_num_, which the comment in SigUsr says a
\* reload does not do, and the configuration asks for a worker at all.
CrashNeedsReload == mpc = "crashed" => reloads > 0 \/ thread_num_ = 0

\* The master died with an item in its hands, in DispatchSfdToWorker.
DiedDispatching == mpc = "crashed" /\ mitem # None

\* The comment in SigUsr: a reload is about the connection timeout (and the
\* log) only.  It also sets thread_num_, by which the next connection is
\* dispatched: with all workers up and running, one that does not exist is
\* indexed, or there is no remainder.
ReloadIsHarmless == threads > 0 /\ init_count_ = threads => ~DiedDispatching

\* The connections behind the items of a queue, and the one that a worker
\* holds until it is served or given up.
QueuedConns == [w \in Worker |-> [k \in 1..Len(queue[w]) |-> item_conn[queue[w][k]]]]
ConnInHand == [w \in Worker |-> IF wpc[w] \in {"popped", "conn"} THEN item_conn[witem[w]] ELSE None]
ClosedConns == {c \in Conn : stage[c] = "closed"}

HO == INSTANCE Handover WITH
        waiting <- QueuedConns, taken <- ConnInHand, using <- obj, ended <- ClosedConns

\* Items that are used again and again, the two lists through one field, the
\* bytes in the pipes and the recycled conns implement queues of connections:
\* each goes to one worker, in the order of accepts, is set up once, and has
\* a conn to itself until it is closed.
ImplementsHandover == HO!Spec
=============================================================================
