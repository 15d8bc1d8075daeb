-------------------------- MODULE ConnDispatchProofs --------------------------
(***************************************************************************)
(* Safety of the hand-over of connections, for any numbers of threads and  *)
(* connections, block and pipe sizes, and reloads at any time.             *)
(***************************************************************************)
EXTENDS ConnDispatch, TLAPS

-----------------------------------------------------------------------------
(* Lists, as things are queued in and taken from, and remainders.          *)

\* The list without its first element.
LEMMA TailFacts ==
  ASSUME NEW S, NEW s \in Seq(S), s # <<>>
  PROVE  /\ Tail(s) \in Seq(S) /\ Len(Tail(s)) = Len(s) - 1 /\ Len(s) \in Nat \ {0}
         /\ \A k \in 1..Len(Tail(s)) : k + 1 \in 1..Len(s) /\ Tail(s)[k] = s[k + 1]
         /\ Head(s) = s[1] /\ s[1] \in S
OBVIOUS

\* One element more at the end.
LEMMA AppendFacts ==
  ASSUME NEW S, NEW s \in Seq(S), NEW x \in S
  PROVE  /\ Append(s, x) \in Seq(S) /\ Len(Append(s, x)) = Len(s) + 1 /\ Len(s) \in Nat
         /\ \A k \in 1..Len(s) : Append(s, x)[k] = s[k]
         /\ Append(s, x)[Len(s) + 1] = x
OBVIOUS

\* One list behind another.
LEMMA ConcatFacts ==
  ASSUME NEW S, NEW r \in Seq(S), NEW s \in Seq(S)
  PROVE  /\ r \o s \in Seq(S) /\ Len(r \o s) = Len(r) + Len(s) /\ Len(r) \in Nat /\ Len(s) \in Nat
         /\ \A k \in 1..Len(r) : (r \o s)[k] = r[k]
         /\ \A k \in 1..Len(s) : (r \o s)[Len(r) + k] = s[k]
OBVIOUS

\* The list without its last element.
LEMMA FrontFacts ==
  ASSUME NEW S, NEW s \in Seq(S), s # <<>>
  PROVE  /\ SubSeq(s, 1, Len(s) - 1) \in Seq(S) /\ Len(SubSeq(s, 1, Len(s) - 1)) = Len(s) - 1
         /\ \A k \in 1..(Len(s) - 1) : SubSeq(s, 1, Len(s) - 1)[k] = s[k]
         /\ s[Len(s)] \in S /\ Len(s) \in Nat \ {0}
<1>1. Len(s) \in Nat \ {0}
  OBVIOUS
<1>2. s[Len(s)] \in S
  BY <1>1
<1>3. \A k \in 1..(Len(s) - 1) : s[k] \in S
  BY <1>1
<1>4. SubSeq(s, 1, Len(s) - 1) = [k \in 1..(Len(s) - 1) |-> s[k]]
  BY <1>1
<1>5. [k \in 1..(Len(s) - 1) |-> s[k]] \in Seq(S)
  BY <1>1, <1>3
<1>6. Len([k \in 1..(Len(s) - 1) |-> s[k]]) = Len(s) - 1
  BY <1>1, <1>3
<1> QED BY <1>1, <1>2, <1>4, <1>5, <1>6

\* A list of more kinds of elements.
LEMMA SeqWiden ==
  ASSUME NEW S, NEW T, S \subseteq T, NEW s \in Seq(S)
  PROVE  s \in Seq(T)
OBVIOUS

\* Division with remainder.
LEMMA DivMod ==
  ASSUME NEW p \in Nat \ {0}, NEW n \in Nat
  PROVE  /\ n = (p * (n \div p)) + (n % p)
         /\ n % p \in 0..(p - 1)
         /\ n \div p \in Int
BY Z3

-----------------------------------------------------------------------------
(* The invariant.                                                          *)

WorkerPlace == {"none", "start", "loop", "notified", "popped", "conn", "free"}
Stage == {"none", "dispatched", "served", "closed"}

\* TypeOK in parts: the start, the items, the conns and connections.
TypeOfStart ==
  /\ thread_num_ \in 0..MaxThreads
  /\ reloads \in 0..MaxReloads
  /\ mpc \in {"init", "setup", "create", "wait", "transport", "accept", "alloc", "push",
             "notify", "crashed", "exited"}
  /\ threads \in 0..MaxThreads
  /\ created \in 0..threads
  /\ init_count_ \in Nat
  /\ last_thread_ \in Worker \cup {-1}

TypeOfItems ==
  /\ mitem \in Item \cup {None}
  /\ allocated \in Nat
  /\ cqi_freelist_ \in Seq(Item)
  /\ item_conn \in [Item -> Conn \cup {None}]
  /\ queue \in [Worker -> Seq(Item)]
  /\ notify \in [Worker -> 0..PipeSize]
  /\ wpc \in [Worker -> WorkerPlace]
  /\ witem \in [Worker -> Item \cup {None}]

TypeOfConns ==
  /\ wobj \in [Worker -> Object \cup {None}]
  /\ objects \in Nat
  /\ freeconn \in Seq(Object)
  /\ obj_conn \in [Object -> Conn]
  /\ accepted \in 0..MaxConns
  /\ stage \in [Conn -> Stage]
  /\ obj \in [Conn -> Object \cup {None}]

\* Without a reload there are as many threads as the configuration says once
\* the first loop of InitThread is through.
StartInv ==
  reloads = 0 =>
    /\ mpc = "crashed" => thread_num_ = 0
    /\ threads <= thread_num_
    /\ mpc \notin {"init", "setup", "exited"} => threads = thread_num_

\* A worker that has not been created is nowhere.
Uncreated == \A w \in Worker : w >= created => wpc[w] = "none"

\* The place of a thread tells what it holds, and who has a number.
HandsInv ==
  /\ mpc = "push" => mitem # None
  /\ mpc \notin {"push", "crashed", "exited"} => mitem = None
  /\ mpc \in {"alloc", "push"} => accepted < MaxConns
  /\ mpc = "notify" => last_thread_ \in Worker
  /\ \A w \in Worker : /\ witem[w] # None <=> wpc[w] \in {"popped", "conn", "free"}
                       /\ wobj[w] # None <=> wpc[w] = "conn"
  /\ \A c \in Conn : stage[c] = "none" <=> c > accepted

\* No item twice in one kind of place ...
FreeOnce == \A j, k \in 1..Len(cqi_freelist_) : cqi_freelist_[j] = cqi_freelist_[k] => j = k

QueuedOnce ==
  \A w, v \in Worker : \A j \in 1..Len(queue[w]), k \in 1..Len(queue[v]) :
    queue[w][j] = queue[v][k] => w = v /\ j = k

HeldOnce ==
  \A w \in Worker : /\ \A v \in Worker : witem[w] = witem[v] /\ w # v => witem[w] = None
                    /\ witem[w] = mitem => mitem = None

\* ... nor in two kinds.
FreeApart ==
  \A j \in 1..Len(cqi_freelist_) :
    /\ cqi_freelist_[j] # mitem
    /\ \A w \in Worker : /\ cqi_freelist_[j] # witem[w]
                         /\ \A k \in 1..Len(queue[w]) : cqi_freelist_[j] # queue[w][k]

QueuedApart ==
  \A w \in Worker : \A k \in 1..Len(queue[w]) :
    /\ queue[w][k] # mitem
    /\ \A v \in Worker : queue[w][k] # witem[v]

\* And none nowhere.
Somewhere ==
  \A i \in Item : \/ \E j \in 1..Len(cqi_freelist_) : cqi_freelist_[j] = i
                  \/ \E w \in Worker : \E k \in 1..Len(queue[w]) : queue[w][k] = i
                  \/ \E w \in Worker : witem[w] = i
                  \/ mitem = i

\* An item on its way carries a connection that waits for it ...
Carries(i) == item_conn[i] \in Conn /\ stage[item_conn[i]] = "dispatched"

Carried ==
  /\ \A w \in Worker : \A k \in 1..Len(queue[w]) : Carries(queue[w][k])
  /\ \A w \in Worker :
       /\ wpc[w] \in {"popped", "conn"} => Carries(witem[w])
       /\ wpc[w] = "free" => /\ item_conn[witem[w]] \in Conn
                             /\ stage[item_conn[witem[w]]] \in {"served", "closed"}

\* ... and that no other item carries.
CarriedOnce ==
  /\ \A w, v \in Worker : \A j \in 1..Len(queue[w]), k \in 1..Len(queue[v]) :
       item_conn[queue[w][j]] = item_conn[queue[v][k]] => w = v /\ j = k
  /\ \A w, v \in Worker : \A k \in 1..Len(queue[w]) :
       wpc[v] \in {"popped", "conn"} => item_conn[queue[w][k]] # item_conn[witem[v]]
  /\ \A w, v \in Worker :
       /\ wpc[w] \in {"popped", "conn"} /\ wpc[v] \in {"popped", "conn"}
       /\ item_conn[witem[w]] = item_conn[witem[v]]
       => w = v

\* A conn that is set up or in use is nobody else's.
ObjInv ==
  /\ \A j, k \in 1..Len(freeconn) : freeconn[j] = freeconn[k] => j = k
  /\ \A w \in Worker : wpc[w] = "conn" =>
       /\ obj_conn[wobj[w]] = item_conn[witem[w]]
       /\ \A k \in 1..Len(freeconn) : freeconn[k] # wobj[w]
  /\ \A c \in Conn : stage[c] = "served" => obj[c] # None

DispatchInv ==
  /\ TypeOfStart
  /\ TypeOfItems
  /\ TypeOfConns
  /\ StartInv
  /\ Uncreated
  /\ NoneStranded
  /\ HandsInv
  /\ FreeOnce
  /\ QueuedOnce
  /\ HeldOnce
  /\ FreeApart
  /\ QueuedApart
  /\ Somewhere
  /\ Carried
  /\ CarriedOnce
  /\ ObjInv
  /\ ServedAsDispatched
  /\ NoneForgotten

-----------------------------------------------------------------------------
(* Facts about every state.                                                *)

\* 0 is no item, conn or connection; lists have lengths.
LEMMA Facts ==
  ASSUME TypeOfStart, TypeOfItems, TypeOfConns
  PROVE  /\ None \notin Item /\ None \notin Conn /\ None \notin Object
         /\ Conn \subseteq Nat \ {0} /\ Item \subseteq Nat \ {0} /\ Worker \subseteq Nat /\ -1 \notin Worker
         /\ \A w \in Worker : Len(queue[w]) \in Nat /\ \A k \in 1..Len(queue[w]) : queue[w][k] \in Item
         /\ Len(cqi_freelist_) \in Nat /\ \A k \in 1..Len(cqi_freelist_) : cqi_freelist_[k] \in Item
         /\ Len(freeconn) \in Nat /\ \A k \in 1..Len(freeconn) : freeconn[k] \in Object
<1> USE DispatchAssumption
<1>1. None \notin Item /\ None \notin Conn /\ None \notin Object
  BY DEF TypeOfItems, TypeOfConns, None, Item, Conn, Object
<1>2. Conn \subseteq Nat \ {0} /\ Item \subseteq Nat \ {0} /\ Worker \subseteq Nat /\ -1 \notin Worker
  BY DEF TypeOfItems, Conn, Item, Worker
<1>3. \A w \in Worker : queue[w] \in Seq(Item)
  BY DEF TypeOfItems
<1>4. \A w \in Worker : Len(queue[w]) \in Nat /\ \A k \in 1..Len(queue[w]) : queue[w][k] \in Item
  BY <1>3
<1>5. cqi_freelist_ \in Seq(Item) /\ freeconn \in Seq(Object)
  BY DEF TypeOfItems, TypeOfConns
<1>6. /\ Len(cqi_freelist_) \in Nat /\ \A k \in 1..Len(cqi_freelist_) : cqi_freelist_[k] \in Item
      /\ Len(freeconn) \in Nat /\ \A k \in 1..Len(freeconn) : freeconn[k] \in Object
  BY <1>5
<1> QED BY <1>1, <1>2, <1>4, <1>6

\* The worker that is picked is one of those the configuration names.
LEMMA PickedWorker ==
  ASSUME TypeOfStart, thread_num_ # 0
  PROVE  NextThread \in 0..(thread_num_ - 1) /\ NextThread \in Worker /\ last_thread_ + 1 \in Nat
<1>1. thread_num_ \in Nat \ {0} /\ thread_num_ <= MaxThreads /\ last_thread_ + 1 \in Nat
  BY DispatchAssumption DEF TypeOfStart, Worker
<1>2. (last_thread_ + 1) % thread_num_ \in 0..(thread_num_ - 1)
  BY <1>1, DivMod
<1> QED BY <1>1, <1>2, DispatchAssumption DEF NextThread, Worker


\* The items are the same as long as none is allocated.
LEMMA ItemIsItem ==
  ASSUME allocated' = allocated
  PROVE  Item' = Item
BY DEF Item

\* What is not about a variable that changes stays true.
LEMMA Frame ==
  ASSUME DispatchInv
  PROVE  /\ UNCHANGED <<thread_num_, reloads, mpc, threads, created, init_count_, last_thread_>> => TypeOfStart'
         /\ UNCHANGED <<mitem, allocated, cqi_freelist_, item_conn, queue, notify, wpc, witem>> => TypeOfItems'
         /\ UNCHANGED <<wobj, objects, freeconn, obj_conn, accepted, stage, obj>> => TypeOfConns'
         /\ UNCHANGED <<reloads, mpc, threads, thread_num_>> => StartInv'
         /\ UNCHANGED <<wpc, created>> => Uncreated'
         /\ UNCHANGED <<queue, notify, wpc, mpc, last_thread_>> => NoneStranded'
         /\ UNCHANGED <<mpc, mitem, accepted, last_thread_, witem, wobj, wpc, stage>> => HandsInv'
         /\ UNCHANGED cqi_freelist_ => FreeOnce'
         /\ UNCHANGED queue => QueuedOnce'
         /\ UNCHANGED <<witem, mitem>> => HeldOnce'
         /\ UNCHANGED <<cqi_freelist_, mitem, witem, queue>> => FreeApart'
         /\ UNCHANGED <<queue, mitem, witem>> => QueuedApart'
         /\ UNCHANGED <<allocated, cqi_freelist_, queue, witem, mitem>> => Somewhere'
         /\ UNCHANGED <<queue, item_conn, stage, wpc, witem>> => Carried'
         /\ UNCHANGED <<queue, item_conn, wpc, witem>> => CarriedOnce'
         /\ UNCHANGED <<freeconn, wpc, wobj, obj_conn, item_conn, witem, stage, obj>> => ObjInv'
         /\ UNCHANGED <<stage, obj, obj_conn, freeconn>> => ServedAsDispatched'
         /\ UNCHANGED <<stage, queue, item_conn, witem>> => NoneForgotten'
<1> USE DEF DispatchInv
<1>1. UNCHANGED <<thread_num_, reloads, mpc, threads, created, init_count_, last_thread_>> => TypeOfStart'
  BY DEF TypeOfStart
<1>2. UNCHANGED <<mitem, allocated, cqi_freelist_, item_conn, queue, notify, wpc, witem>> => TypeOfItems'
  <2> SUFFICES ASSUME UNCHANGED <<mitem, allocated, cqi_freelist_, item_conn, queue, notify, wpc, witem>> PROVE TypeOfItems'
    OBVIOUS
  <2>1. Item' = Item
    BY DEF Item
  <2> QED BY <2>1 DEF TypeOfItems
<1>3. UNCHANGED <<wobj, objects, freeconn, obj_conn, accepted, stage, obj>> => TypeOfConns'
  <2> SUFFICES ASSUME UNCHANGED <<wobj, objects, freeconn, obj_conn, accepted, stage, obj>> PROVE TypeOfConns'
    OBVIOUS
  <2>1. Object' = Object
    BY DEF Object
  <2> QED BY <2>1 DEF TypeOfConns
<1>4. UNCHANGED <<reloads, mpc, threads, thread_num_>> => StartInv'
  BY DEF StartInv
<1>5. UNCHANGED <<wpc, created>> => Uncreated'
  BY DEF Uncreated
<1>6. UNCHANGED <<queue, notify, wpc, mpc, last_thread_>> => NoneStranded'
  BY DEF NoneStranded, Running
<1>7. UNCHANGED <<mpc, mitem, accepted, last_thread_, witem, wobj, wpc, stage>> => HandsInv'
  BY DEF HandsInv
<1>8. UNCHANGED cqi_freelist_ => FreeOnce'
  BY DEF FreeOnce
<1>9. UNCHANGED queue => QueuedOnce'
  BY DEF QueuedOnce
<1>10. UNCHANGED <<witem, mitem>> => HeldOnce'
  BY DEF HeldOnce
<1>11. UNCHANGED <<cqi_freelist_, mitem, witem, queue>> => FreeApart'
  BY DEF FreeApart
<1>12. UNCHANGED <<queue, mitem, witem>> => QueuedApart'
  BY DEF QueuedApart
<1>13. UNCHANGED <<allocated, cqi_freelist_, queue, witem, mitem>> => Somewhere'
  BY DEF Somewhere, Item
<1>14. UNCHANGED <<queue, item_conn, stage, wpc, witem>> => Carried'
  BY DEF Carried, Carries
<1>15. UNCHANGED <<queue, item_conn, wpc, witem>> => CarriedOnce'
  BY DEF CarriedOnce
<1>16. UNCHANGED <<freeconn, wpc, wobj, obj_conn, item_conn, witem, stage, obj>> => ObjInv'
  BY DEF ObjInv
<1>17. UNCHANGED <<stage, obj, obj_conn, freeconn>> => ServedAsDispatched'
  BY DEF ServedAsDispatched
<1>18. UNCHANGED <<stage, queue, item_conn, witem>> => NoneForgotten'
  BY DEF NoneForgotten
<1> QED BY <1>1, <1>2, <1>3, <1>4, <1>5, <1>6, <1>7, <1>8, <1>9, <1>10, <1>11, <1>12,
         <1>13, <1>14, <1>15, <1>16, <1>17, <1>18


-----------------------------------------------------------------------------
(* The steps.                                                              *)

\* Only the settings change.
LEMMA ReloadKeepsInv ==
  ASSUME DispatchInv, Reload
  PROVE  DispatchInv'
<1> USE DEF DispatchInv, startVars, itemVars, queueVars, workerVars, objVars,
         connVars, Reload, Running
<1>1. /\ TypeOfItems' /\ TypeOfConns' /\ Uncreated' /\ NoneStranded' /\ HandsInv'
      /\ FreeOnce' /\ QueuedOnce' /\ HeldOnce' /\ FreeApart' /\ QueuedApart'
      /\ Somewhere' /\ Carried' /\ CarriedOnce' /\ ObjInv' /\ ServedAsDispatched'
      /\ NoneForgotten'
  BY Frame
<1>2. TypeOfStart'
  BY DispatchAssumption DEF TypeOfStart
<1>3. StartInv'
  BY Facts, DispatchAssumption DEF StartInv, TypeOfStart
<1> QED BY <1>1, <1>2, <1>3

\* The process ends.
LEMMA ReloadFailsKeepsInv ==
  ASSUME DispatchInv, ReloadFails
  PROVE  DispatchInv'
<1> USE DEF DispatchInv, startVars, itemVars, queueVars, workerVars, objVars,
         connVars, ReloadFails
<1>1. /\ TypeOfItems' /\ TypeOfConns' /\ Uncreated' /\ FreeOnce' /\ QueuedOnce'
      /\ HeldOnce' /\ FreeApart' /\ QueuedApart' /\ Somewhere' /\ Carried'
      /\ CarriedOnce' /\ ObjInv' /\ ServedAsDispatched' /\ NoneForgotten'
  BY Frame
<1>2. TypeOfStart'
  BY DispatchAssumption DEF TypeOfStart
<1>3. StartInv'
  BY DEF StartInv, TypeOfStart
<1>4. NoneStranded'
  BY DEF NoneStranded, Running
<1>5. HandsInv'
  BY DEF HandsInv
<1> QED BY <1>1, <1>2, <1>3, <1>4, <1>5

\* The master goes on.
LEMMA InitRemoteListenSocketKeepsInv ==
  ASSUME DispatchInv, InitRemoteListenSocket
  PROVE  DispatchInv'
<1> USE DEF DispatchInv, startVars, itemVars, queueVars, workerVars, objVars,
         connVars, InitRemoteListenSocket
<1>1. /\ TypeOfItems' /\ TypeOfConns' /\ Uncreated' /\ FreeOnce' /\ QueuedOnce'
      /\ HeldOnce' /\ FreeApart' /\ QueuedApart' /\ Somewhere' /\ Carried'
      /\ CarriedOnce' /\ ObjInv' /\ ServedAsDispatched' /\ NoneForgotten'
  BY Frame
<1>2. TypeOfStart'
  BY DispatchAssumption DEF TypeOfStart
<1>3. StartInv'
  BY DispatchAssumption DEF StartInv
<1>4. NoneStranded'
  BY DispatchAssumption DEF NoneStranded, Running
<1>5. HandsInv'
  BY DispatchAssumption DEF HandsInv
<1> QED BY <1>1, <1>2, <1>3, <1>4, <1>5

\* The process ends.
LEMMA StartFailsKeepsInv ==
  ASSUME DispatchInv, StartFails
  PROVE  DispatchInv'
<1> USE DEF DispatchInv, startVars, itemVars, queueVars, workerVars, objVars,
         connVars, StartFails
<1>1. /\ TypeOfItems' /\ TypeOfConns' /\ Uncreated' /\ FreeOnce' /\ QueuedOnce'
      /\ HeldOnce' /\ FreeApart' /\ QueuedApart' /\ Somewhere' /\ Carried'
      /\ CarriedOnce' /\ ObjInv' /\ ServedAsDispatched' /\ NoneForgotten'
  BY Frame
<1>2. TypeOfStart'
  BY DispatchAssumption DEF TypeOfStart
<1>3. StartInv'
  BY DispatchAssumption DEF StartInv
<1>4. NoneStranded'
  BY DispatchAssumption DEF NoneStranded, Running
<1>5. HandsInv'
  BY DispatchAssumption DEF HandsInv
<1> QED BY <1>1, <1>2, <1>3, <1>4, <1>5

\* A thread more, up to the number configured.
LEMMA SetupThreadKeepsInv ==
  ASSUME DispatchInv, SetupThread
  PROVE  DispatchInv'
<1> USE DEF DispatchInv, startVars, itemVars, queueVars, workerVars, objVars,
         connVars, SetupThread
<1>1. /\ TypeOfItems' /\ TypeOfConns' /\ Uncreated' /\ FreeOnce' /\ QueuedOnce'
      /\ HeldOnce' /\ FreeApart' /\ QueuedApart' /\ Somewhere' /\ Carried'
      /\ CarriedOnce' /\ ObjInv' /\ ServedAsDispatched' /\ NoneForgotten'
  BY Frame
<1>2. TypeOfStart'
  BY DispatchAssumption DEF TypeOfStart
<1>3. StartInv'
  BY Facts, DispatchAssumption DEF StartInv, TypeOfStart
<1>4. NoneStranded'
  BY DispatchAssumption DEF NoneStranded, Running
<1>5. HandsInv'
  BY DispatchAssumption DEF HandsInv
<1> QED BY <1>1, <1>2, <1>3, <1>4, <1>5

\* The next worker gets a thread, if it was set up.
LEMMA CreateWorkerKeepsInv ==
  ASSUME DispatchInv, CreateWorker
  PROVE  DispatchInv'
<1> USE DEF DispatchInv, startVars, itemVars, queueVars, workerVars, objVars,
         connVars, CreateWorker
<1>1. created \in Nat /\ (created < threads => created \in Worker)
  BY DispatchAssumption DEF TypeOfStart, Worker
<1>2. /\ wpc' \in [Worker -> WorkerPlace]
      /\ \A v \in Worker : wpc'[v] = wpc[v] \/ (v = created /\ wpc[v] = "none" /\ wpc'[v] = "start" /\ created' = created + 1)
  <2>1. wpc \in [Worker -> WorkerPlace] /\ "start" \in WorkerPlace
    BY DEF TypeOfItems, WorkerPlace
  <2>2. CASE created < threads
    <3>1. wpc' = [wpc EXCEPT ![created] = "start"] /\ created \in Worker /\ created' = created + 1
      BY <1>1, <2>2
    <3>2. wpc[created] = "none"
      BY <1>1, <3>1 DEF Uncreated
    <3> QED BY <2>1, <3>1, <3>2
  <2>3. CASE ~(created < threads)
    BY <2>1, <2>3
  <2> QED BY <2>2, <2>3
<1>3. created' \in Nat /\ created' >= created
  BY <1>1
<1>4. /\ TypeOfConns' /\ FreeOnce' /\ QueuedOnce' /\ HeldOnce' /\ FreeApart'
      /\ QueuedApart' /\ Somewhere' /\ ServedAsDispatched' /\ NoneForgotten'
  BY Frame
<1>5. TypeOfStart'
  BY DispatchAssumption DEF TypeOfStart
<1>6. TypeOfItems'
  BY <1>2, ItemIsItem DEF TypeOfItems
<1>7. StartInv'
  BY DispatchAssumption DEF StartInv
<1>8. Uncreated'
  <2> SUFFICES ASSUME NEW v \in Worker, v >= created' PROVE wpc'[v] = "none"
    BY DEF Uncreated
  <2>1. v >= created /\ (created' = created + 1 => v # created)
    BY <1>1, <1>3, Facts
  <2> QED BY <1>2, <2>1 DEF Uncreated
<1>9. NoneStranded'
  BY <1>2 DEF NoneStranded, Running
<1>10. HandsInv'
  BY <1>2 DEF HandsInv
<1>11. Carried'
  BY <1>2 DEF Carried, Carries
<1>12. CarriedOnce'
  BY <1>2 DEF CarriedOnce
<1>13. ObjInv'
  BY <1>2 DEF ObjInv
<1> QED BY <1>4, <1>5, <1>6, <1>7, <1>8, <1>9, <1>10, <1>11, <1>12, <1>13

\* The master goes on, or waits.
LEMMA WaitForThreadRegistrationKeepsInv ==
  ASSUME DispatchInv, WaitForThreadRegistration
  PROVE  DispatchInv'
<1> USE DEF DispatchInv, startVars, itemVars, queueVars, workerVars, objVars,
         connVars, WaitForThreadRegistration
<1>1. /\ TypeOfItems' /\ TypeOfConns' /\ Uncreated' /\ FreeOnce' /\ QueuedOnce'
      /\ HeldOnce' /\ FreeApart' /\ QueuedApart' /\ Somewhere' /\ Carried'
      /\ CarriedOnce' /\ ObjInv' /\ ServedAsDispatched' /\ NoneForgotten'
  BY Frame
<1>2. TypeOfStart'
  BY DispatchAssumption DEF TypeOfStart
<1>3. StartInv'
  BY DispatchAssumption DEF StartInv
<1>4. NoneStranded'
  BY DispatchAssumption DEF NoneStranded, Running
<1>5. HandsInv'
  BY DispatchAssumption DEF HandsInv
<1> QED BY <1>1, <1>2, <1>3, <1>4, <1>5

\* The master goes on.
LEMMA SpuriousWakeupKeepsInv ==
  ASSUME DispatchInv, SpuriousWakeup
  PROVE  DispatchInv'
<1> USE DEF DispatchInv, startVars, itemVars, queueVars, workerVars, objVars,
         connVars, SpuriousWakeup
<1>1. /\ TypeOfItems' /\ TypeOfConns' /\ Uncreated' /\ FreeOnce' /\ QueuedOnce'
      /\ HeldOnce' /\ FreeApart' /\ QueuedApart' /\ Somewhere' /\ Carried'
      /\ CarriedOnce' /\ ObjInv' /\ ServedAsDispatched' /\ NoneForgotten'
  BY Frame
<1>2. TypeOfStart'
  BY DispatchAssumption DEF TypeOfStart
<1>3. StartInv'
  BY DispatchAssumption DEF StartInv
<1>4. NoneStranded'
  BY DispatchAssumption DEF NoneStranded, Running
<1>5. HandsInv'
  BY DispatchAssumption DEF HandsInv
<1> QED BY <1>1, <1>2, <1>3, <1>4, <1>5

\* A worker enters its event loop.
LEMMA RegisterThreadInitializedKeepsInv ==
  ASSUME DispatchInv, NEW w \in Worker, RegisterThreadInitialized(w)
  PROVE  DispatchInv'
<1> USE DEF DispatchInv, startVars, itemVars, queueVars, workerVars, objVars,
         connVars, RegisterThreadInitialized, At
<1>1. /\ wpc' \in [Worker -> WorkerPlace] /\ wpc[w] = "start" /\ wpc'[w] = "loop"
      /\ \A v \in Worker : v # w => wpc'[v] = wpc[v]
  BY DEF TypeOfItems, WorkerPlace
<1>2. /\ TypeOfConns' /\ FreeOnce' /\ QueuedOnce' /\ HeldOnce' /\ FreeApart'
      /\ QueuedApart' /\ Somewhere' /\ ServedAsDispatched' /\ NoneForgotten'
  BY Frame
<1>3. TypeOfStart'
  BY DispatchAssumption DEF TypeOfStart
<1>4. TypeOfItems'
  BY <1>1, ItemIsItem DEF TypeOfItems
<1>5. StartInv'
  BY DispatchAssumption DEF StartInv
<1>6. Uncreated'
  BY <1>1 DEF Uncreated
<1>7. NoneStranded'
  BY Facts, DispatchAssumption DEF NoneStranded, Running, TypeOfItems
<1>8. HandsInv'
  BY Facts, DispatchAssumption DEF HandsInv, TypeOfItems, TypeOfConns
<1>9. Carried'
  BY Facts, DispatchAssumption DEF Carried, Carries, TypeOfItems
<1>10. CarriedOnce'
  BY DispatchAssumption DEF CarriedOnce
<1>11. ObjInv'
  BY DispatchAssumption DEF ObjInv
<1> QED BY <1>2, <1>3, <1>4, <1>5, <1>6, <1>7, <1>8, <1>9, <1>10, <1>11

\* The master goes on.
LEMMA SetupAppServerTransportKeepsInv ==
  ASSUME DispatchInv, SetupAppServerTransport
  PROVE  DispatchInv'
<1> USE DEF DispatchInv, startVars, itemVars, queueVars, workerVars, objVars,
         connVars, SetupAppServerTransport
<1>1. /\ TypeOfItems' /\ TypeOfConns' /\ Uncreated' /\ FreeOnce' /\ QueuedOnce'
      /\ HeldOnce' /\ FreeApart' /\ QueuedApart' /\ Somewhere' /\ Carried'
      /\ CarriedOnce' /\ ObjInv' /\ ServedAsDispatched' /\ NoneForgotten'
  BY Frame
<1>2. TypeOfStart'
  BY DispatchAssumption DEF TypeOfStart
<1>3. StartInv'
  BY DispatchAssumption DEF StartInv
<1>4. NoneStranded'
  BY DispatchAssumption DEF NoneStranded, Running
<1>5. HandsInv'
  BY DispatchAssumption DEF HandsInv
<1> QED BY <1>1, <1>2, <1>3, <1>4, <1>5

\* The first free item goes from the list into the master's hands.
LEMMA ItemFromFreelistKeepsInv ==
  ASSUME DispatchInv, ItemFromFreelist
  PROVE  DispatchInv'
<1> USE DEF DispatchInv, startVars, itemVars, queueVars, workerVars, objVars,
         connVars, ItemFromFreelist
<1>1. cqi_freelist_ \in Seq(Item) /\ cqi_freelist_ # <<>>
  BY DEF TypeOfItems
<1>2. /\ Tail(cqi_freelist_) \in Seq(Item) /\ Len(Tail(cqi_freelist_)) = Len(cqi_freelist_) - 1 /\ Len(cqi_freelist_) \in Nat \ {0}
      /\ \A k \in 1..Len(Tail(cqi_freelist_)) : k + 1 \in 1..Len(cqi_freelist_) /\ Tail(cqi_freelist_)[k] = cqi_freelist_[k + 1]
      /\ Head(cqi_freelist_) = cqi_freelist_[1] /\ cqi_freelist_[1] \in Item
  BY <1>1, TailFacts
<1>3. /\ cqi_freelist_' = Tail(cqi_freelist_) /\ mitem' = cqi_freelist_[1]
  BY <1>2
<1>4. /\ TypeOfConns' /\ Uncreated' /\ QueuedOnce' /\ Carried' /\ CarriedOnce'
      /\ ObjInv' /\ ServedAsDispatched' /\ NoneForgotten'
  BY Frame
<1>5. TypeOfStart'
  BY DispatchAssumption DEF TypeOfStart
<1>6. TypeOfItems'
  BY Facts, <1>2, <1>3 DEF TypeOfItems, Item
<1>7. StartInv'
  BY DispatchAssumption DEF StartInv
<1>8. NoneStranded'
  BY DispatchAssumption DEF NoneStranded, Running
<1>9. HandsInv'
  BY Facts, <1>2, <1>3 DEF HandsInv, TypeOfItems, TypeOfConns
<1>10. FreeOnce'
  BY Facts, <1>2, <1>3 DEF FreeOnce, FreeApart
<1>11. HeldOnce'
  BY Facts, <1>2, <1>3 DEF HeldOnce, TypeOfItems, HandsInv, FreeApart, QueuedApart
<1>12. FreeApart'
  BY Facts, <1>2, <1>3 DEF FreeApart, FreeOnce, TypeOfItems, HandsInv, HeldOnce,
         QueuedApart
<1>13. QueuedApart'
  BY Facts, <1>2, <1>3 DEF QueuedApart, QueuedOnce, FreeApart, TypeOfItems, HandsInv,
         HeldOnce
<1>14. Somewhere'
  <2> SUFFICES ASSUME NEW i \in Item
               PROVE  \/ \E k \in 1..Len(cqi_freelist_') : cqi_freelist_'[k] = i
                      \/ \E w \in Worker : \E k \in 1..Len(queue[w]) : queue[w][k] = i
                      \/ \E w \in Worker : witem[w] = i
                      \/ mitem' = i
    BY DEF Somewhere, Item
  <2>1. ASSUME NEW j \in 1..Len(cqi_freelist_), cqi_freelist_[j] = i
        PROVE  mitem' = i \/ \E k \in 1..Len(cqi_freelist_') : cqi_freelist_'[k] = i
    <3>1. CASE j = 1
      BY <1>3, <2>1, <3>1
    <3>2. CASE j # 1
      <4>1. j - 1 \in 1..Len(cqi_freelist_') /\ (j - 1) + 1 = j
        BY <1>2, <1>3, <3>2
      <4> QED BY <1>2, <1>3, <2>1, <4>1
    <3> QED BY <3>1, <3>2
  <2>2. mitem # i
    BY Facts DEF HandsInv
  <2> QED BY <2>1, <2>2 DEF Somewhere
<1> QED BY <1>4, <1>5, <1>6, <1>7, <1>8, <1>9, <1>10, <1>11, <1>12, <1>13, <1>14

\* The master goes on to allocate.
LEMMA FreelistEmptyKeepsInv ==
  ASSUME DispatchInv, FreelistEmpty
  PROVE  DispatchInv'
<1> USE DEF DispatchInv, startVars, itemVars, queueVars, workerVars, objVars,
         connVars, FreelistEmpty
<1>1. /\ TypeOfItems' /\ TypeOfConns' /\ Uncreated' /\ FreeOnce' /\ QueuedOnce'
      /\ HeldOnce' /\ FreeApart' /\ QueuedApart' /\ Somewhere' /\ Carried'
      /\ CarriedOnce' /\ ObjInv' /\ ServedAsDispatched' /\ NoneForgotten'
  BY Frame
<1>2. TypeOfStart'
  BY DispatchAssumption DEF TypeOfStart
<1>3. StartInv'
  BY DispatchAssumption DEF StartInv
<1>4. NoneStranded'
  BY DispatchAssumption DEF NoneStranded, Running
<1>5. HandsInv'
  BY DispatchAssumption DEF HandsInv
<1> QED BY <1>1, <1>2, <1>3, <1>4, <1>5

\* The first of the new items is the master's, the others are free, and none of them was anywhere before.
LEMMA AllocItemsKeepsInv ==
  ASSUME DispatchInv, AllocItems
  PROVE  DispatchInv'
<1> USE DEF DispatchInv, startVars, itemVars, queueVars, workerVars, objVars,
         connVars, AllocItems
<1>0. ItemsPerAlloc \in Nat /\ ItemsPerAlloc > 1 /\ allocated \in Nat
  BY DispatchAssumption DEF TypeOfItems
<1>1. /\ allocated' \in Nat /\ allocated < allocated' /\ Item \subseteq Item' /\ mitem' \in Item' /\ mitem' \notin Item
      /\ \A i \in Item' : i \in Item \/ i = mitem' \/ \E k \in 1..(ItemsPerAlloc - 1) : i = allocated + 1 + k
  BY <1>0 DEF Item
<1>2. Block \in Seq(Item') /\ Len(Block) = ItemsPerAlloc - 1 /\ \A k \in 1..Len(Block) : Block[k] = allocated + 1 + k
  BY <1>0 DEF Item, Block
<1>3. cqi_freelist_ \in Seq(Item')
  BY <1>1, SeqWiden DEF TypeOfItems
<1>4. /\ cqi_freelist_' \in Seq(Item') /\ Len(cqi_freelist_') = Len(Block) + Len(cqi_freelist_)
      /\ \A k \in 1..Len(Block) : cqi_freelist_'[k] = Block[k]
      /\ \A k \in 1..Len(cqi_freelist_) : cqi_freelist_'[Len(Block) + k] = cqi_freelist_[k]
  <2>1. cqi_freelist_' = Block \o cqi_freelist_
    OBVIOUS
  <2> DEFINE S == Item'
             l == cqi_freelist_
  <2>2. Block \in Seq(S) /\ l \in Seq(S)
    BY <1>2, <1>3
  <2> HIDE DEF AllocItems, S, l
  <2>3. /\ Block \o l \in Seq(S) /\ Len(Block \o l) = Len(Block) + Len(l)
        /\ \A k \in 1..Len(Block) : (Block \o l)[k] = Block[k]
        /\ \A k \in 1..Len(l) : (Block \o l)[Len(Block) + k] = l[k]
    BY <2>2, ConcatFacts
  <2> QED BY <2>1, <2>3 DEF S, l
<1>5. \A w \in Worker : queue[w] \in Seq(Item')
  BY <1>1, SeqWiden DEF TypeOfItems
<1>6. item_conn' \in [Item' -> Conn \cup {None}] /\ \A i \in Item : item_conn'[i] = item_conn[i]
  BY <1>0, <1>1 DEF Item, TypeOfItems
<1>7. \A k \in 1..Len(cqi_freelist_') :
        \/ /\ k \in 1..Len(Block) /\ cqi_freelist_'[k] = allocated + 1 + k
           /\ cqi_freelist_'[k] \notin Item /\ cqi_freelist_'[k] # mitem' /\ cqi_freelist_'[k] # None
        \/ \E j \in 1..Len(cqi_freelist_) : k = Len(Block) + j /\ cqi_freelist_'[k] = cqi_freelist_[j]
  <2> SUFFICES ASSUME NEW k \in 1..Len(cqi_freelist_')
               PROVE  \/ /\ k \in 1..Len(Block) /\ cqi_freelist_'[k] = allocated + 1 + k
                         /\ cqi_freelist_'[k] \notin Item /\ cqi_freelist_'[k] # mitem' /\ cqi_freelist_'[k] # None
                      \/ \E j \in 1..Len(cqi_freelist_) : k = Len(Block) + j /\ cqi_freelist_'[k] = cqi_freelist_[j]
    OBVIOUS
  <2>1. Len(Block) \in Nat /\ Len(cqi_freelist_) \in Nat
    BY <1>0, <1>2, Facts
  <2>2. CASE k \in 1..Len(Block)
    BY <1>0, <1>2, <1>4, <2>2 DEF Item, None
  <2>3. CASE k \notin 1..Len(Block)
    <3>1. k - Len(Block) \in 1..Len(cqi_freelist_) /\ k = Len(Block) + (k - Len(Block))
      BY <1>4, <2>1, <2>3
    <3> QED BY <1>4, <3>1
  <2> QED BY <2>2, <2>3
<1>8. mitem = None /\ mitem' # None /\ mitem' \notin Item /\ None \notin Item
  BY <1>0, <1>1, Facts DEF HandsInv, None
<1>9. /\ \A k \in 1..Len(cqi_freelist_) : cqi_freelist_[k] \in Item
      /\ \A w \in Worker : \A k \in 1..Len(queue[w]) :
           queue[w][k] \in Item /\ item_conn'[queue[w][k]] = item_conn[queue[w][k]]
      /\ \A w \in Worker : witem[w] \in Item \cup {None}
      /\ \A w \in Worker : witem[w] \in Item => item_conn'[witem[w]] = item_conn[witem[w]]
      /\ \A w \in Worker : wpc[w] \in {"popped", "conn", "free"} => witem[w] \in Item
  BY <1>6, Facts DEF TypeOfItems, HandsInv
<1>10. /\ queue' = queue /\ witem' = witem /\ wpc' = wpc /\ stage' = stage /\ freeconn' = freeconn
       /\ wobj' = wobj /\ obj_conn' = obj_conn /\ obj' = obj
  OBVIOUS
<1>11. TypeOfConns' /\ Uncreated' /\ QueuedOnce' /\ ServedAsDispatched'
  BY Frame
<1>12. TypeOfStart'
  BY DispatchAssumption DEF TypeOfStart
<1>13. TypeOfItems'
  BY Facts, <1>0, <1>1, <1>2, <1>4, <1>5, <1>6 DEF TypeOfItems, Item
<1>14. StartInv'
  BY DispatchAssumption DEF StartInv
<1>15. NoneStranded'
  BY DispatchAssumption DEF NoneStranded, Running
<1>16. HandsInv'
  BY Facts, <1>0, <1>1, <1>2, <1>4, <1>5, <1>6 DEF HandsInv, TypeOfItems,
         TypeOfStart, TypeOfConns, Carried, Carries, None
<1>17. FreeOnce'
  <2> SUFFICES ASSUME NEW j \in 1..Len(cqi_freelist_'), NEW k \in 1..Len(cqi_freelist_'), cqi_freelist_'[j] = cqi_freelist_'[k]
               PROVE  j = k
    BY DEF FreeOnce
  <2>1. CASE j \in 1..Len(Block) /\ k \in 1..Len(Block)
    BY <1>0, <1>2, <1>4, <2>1
  <2>2. CASE cqi_freelist_'[j] \in Item
    <3>1. PICK a \in 1..Len(cqi_freelist_) : j = Len(Block) + a /\ cqi_freelist_'[j] = cqi_freelist_[a]
      BY <1>7, <2>2
    <3>2. PICK b \in 1..Len(cqi_freelist_) : k = Len(Block) + b /\ cqi_freelist_'[k] = cqi_freelist_[b]
      BY <1>7, <2>2
    <3>3. a = b
      BY <3>1, <3>2 DEF FreeOnce
    <3> QED BY <3>1, <3>2, <3>3
  <2> QED BY <1>7, <1>9, <2>1, <2>2
<1>18. HeldOnce'
  BY <1>8, <1>9, <1>10 DEF HeldOnce
<1>19. FreeApart'
  <2> HIDE DEF AllocItems
  <2> SUFFICES ASSUME NEW j \in 1..Len(cqi_freelist_')
               PROVE  /\ cqi_freelist_'[j] # mitem'
                      /\ \A w \in Worker : /\ cqi_freelist_'[j] # witem[w]
                                           /\ \A k \in 1..Len(queue[w]) : cqi_freelist_'[j] # queue[w][k]
    BY <1>10 DEF FreeApart
  <2>1. CASE cqi_freelist_'[j] \in Item
    <3>1. PICK a \in 1..Len(cqi_freelist_) : cqi_freelist_'[j] = cqi_freelist_[a]
      BY <1>7, <2>1
    <3> QED BY <1>8, <2>1, <3>1 DEF FreeApart
  <2>2. CASE cqi_freelist_'[j] \notin Item
    BY <1>7, <1>9, <2>2
  <2> QED BY <2>1, <2>2
<1>20. QueuedApart'
  BY <1>8, <1>9, <1>10 DEF QueuedApart
<1>21. Somewhere'
  <2> SUFFICES ASSUME NEW i \in Item'
               PROVE  \/ \E k \in 1..Len(cqi_freelist_') : cqi_freelist_'[k] = i
                      \/ \E w \in Worker : \E k \in 1..Len(queue[w]) : queue[w][k] = i
                      \/ \E w \in Worker : witem[w] = i
                      \/ mitem' = i
    BY <1>10 DEF Somewhere
  <2>1. CASE i \in Item
    <3>1. ASSUME NEW j \in 1..Len(cqi_freelist_), cqi_freelist_[j] = i PROVE \E k \in 1..Len(cqi_freelist_') : cqi_freelist_'[k] = i
      <4>1. Len(Block) + j \in 1..Len(cqi_freelist_')
        BY <1>0, <1>2, <1>4, Facts
      <4> QED BY <1>4, <3>1, <4>1
    <3> QED BY <1>8, <2>1, <3>1 DEF Somewhere
  <2>2. ASSUME NEW k \in 1..(ItemsPerAlloc - 1), i = allocated + 1 + k
        PROVE  \E j \in 1..Len(cqi_freelist_') : cqi_freelist_'[j] = i
    <3>1. k \in 1..Len(Block) /\ k \in 1..Len(cqi_freelist_')
      BY <1>0, <1>2, <1>4, Facts
    <3> QED BY <1>2, <1>4, <2>2, <3>1
  <2> QED BY <1>1, <2>1, <2>2
<1>22. Carried'
  <2> HIDE DEF AllocItems
  <2> QED BY <1>9, <1>10 DEF Carried, Carries
<1>23. CarriedOnce'
  <2> HIDE DEF AllocItems
  <2> QED BY <1>9, <1>10 DEF CarriedOnce
<1>24. ObjInv'
  <2> HIDE DEF AllocItems
  <2> QED BY <1>9, <1>10 DEF ObjInv
<1>25. NoneForgotten'
  <2> HIDE DEF AllocItems
  <2> SUFFICES ASSUME NEW c \in Conn, stage[c] = "dispatched"
               PROVE  \E w \in Worker : \/ \E k \in 1..Len(queue[w]) : item_conn'[queue[w][k]] = c
                                        \/ witem[w] # None /\ item_conn'[witem[w]] = c
    BY <1>10 DEF NoneForgotten
  <2> QED BY <1>9 DEF NoneForgotten
<1> QED BY <1>11, <1>12, <1>13, <1>14, <1>15, <1>16, <1>17, <1>18, <1>19, <1>20,
         <1>21, <1>22, <1>23, <1>24, <1>25

\* Without a reload every thread that can be picked is there, and one can be
\* picked unless none was asked for.
LEMMA NextThreadMissingKeepsInv ==
  ASSUME DispatchInv, NextThreadMissing
  PROVE  DispatchInv'
<1> USE DEF DispatchInv, startVars, itemVars, queueVars, workerVars, objVars,
         connVars, NextThreadMissing
<1>1. /\ TypeOfItems' /\ TypeOfConns' /\ Uncreated' /\ FreeOnce' /\ QueuedOnce'
      /\ HeldOnce' /\ FreeApart' /\ QueuedApart' /\ Somewhere' /\ Carried'
      /\ CarriedOnce' /\ ObjInv' /\ ServedAsDispatched' /\ NoneForgotten'
  BY Frame
<1>2. TypeOfStart'
  BY DispatchAssumption DEF TypeOfStart
<1>3. StartInv'
  <2>1. CASE thread_num_ = 0
    BY <2>1 DEF StartInv
  <2>2. CASE thread_num_ # 0
    BY <2>2, Facts, PickedWorker, DispatchAssumption DEF StartInv, TypeOfStart
  <2> QED BY <2>1, <2>2
<1>4. NoneStranded'
  BY DispatchAssumption DEF NoneStranded, Running
<1>5. HandsInv'
  BY DispatchAssumption DEF HandsInv
<1> QED BY <1>1, <1>2, <1>3, <1>4, <1>5

\* The item goes from the master's hands to the end of a queue, with a connection that no other item has.
LEMMA ConnQueuePushKeepsInv ==
  ASSUME DispatchInv, ConnQueuePush
  PROVE  DispatchInv'
<1> USE DEF DispatchInv, startVars, itemVars, queueVars, workerVars, objVars,
         connVars, ConnQueuePush, Pushed
<1> DEFINE n == NextThread
           c == accepted + 1
<1>1. n \in Worker
  BY PickedWorker
<1>2. c \in Conn /\ stage[c] = "none" /\ mitem \in Item /\ accepted \in Nat
  BY Facts, DispatchAssumption DEF TypeOfConns, TypeOfItems, HandsInv, Conn
<1>3. queue[n] \in Seq(Item)
  BY <1>1 DEF TypeOfItems
<1>4. /\ queue'[n] \in Seq(Item) /\ Len(queue'[n]) = Len(queue[n]) + 1
      /\ \A k \in 1..Len(queue[n]) : queue'[n][k] = queue[n][k]
      /\ queue'[n][Len(queue[n]) + 1] = mitem
      /\ \A w \in Worker : w # n => queue'[w] = queue[w]
      /\ queue' \in [Worker -> Seq(Item)]
  BY <1>1, <1>2, <1>3, AppendFacts DEF TypeOfItems
<1>5. /\ item_conn'[mitem] = c /\ item_conn' \in [Item -> Conn \cup {None}]
      /\ \A i \in Item : i # mitem => item_conn'[i] = item_conn[i]
  BY <1>2 DEF TypeOfItems
<1>6. /\ stage'[c] = "dispatched" /\ stage' \in [Conn -> Stage]
      /\ \A d \in Conn : d # c => stage'[d] = stage[d]
  BY <1>2 DEF TypeOfConns, Stage
<1>7. last_thread_' = n /\ mitem' = None /\ mpc' = "notify" /\ accepted' = c
  OBVIOUS
<1> HIDE DEF n, c
<1>8. /\ \A w \in Worker : \A k \in 1..Len(queue[w]) :
           /\ k \in 1..Len(queue'[w]) /\ queue'[w][k] = queue[w][k]
           /\ queue[w][k] \in Item /\ queue[w][k] # mitem
           /\ item_conn'[queue[w][k]] = item_conn[queue[w][k]]
           /\ item_conn[queue[w][k]] # c
      /\ Len(queue[n]) + 1 \in 1..Len(queue'[n])
  <2>1. \A w \in Worker : \A k \in 1..Len(queue[w]) : queue[w][k] \in Item /\ queue[w][k] # mitem
    BY Facts DEF QueuedApart
  <2>2. \A w \in Worker : \A k \in 1..Len(queue[w]) : item_conn[queue[w][k]] # c
    BY <1>2 DEF Carried, Carries
  <2>3. \A w \in Worker : Len(queue[w]) \in Nat /\ Len(queue[n]) + 1 \in 1..(Len(queue[n]) + 1)
    BY <1>1, Facts
  <2>4. \A w \in Worker : 1..Len(queue[w]) \subseteq 1..Len(queue'[w])
    BY <1>4, <2>3
  <2> QED BY <1>4, <1>5, <2>1, <2>2, <2>3, <2>4
<1>9. \A w \in Worker : \A k \in 1..Len(queue'[w]) :
        \/ k \in 1..Len(queue[w]) /\ queue'[w][k] = queue[w][k]
        \/ w = n /\ k = Len(queue[n]) + 1 /\ queue'[w][k] = mitem
  <2> SUFFICES ASSUME NEW w \in Worker, NEW k \in 1..Len(queue'[w])
               PROVE  \/ k \in 1..Len(queue[w]) /\ queue'[w][k] = queue[w][k]
                      \/ w = n /\ k = Len(queue[n]) + 1 /\ queue'[w][k] = mitem
    OBVIOUS
  <2>1. CASE w = n
    <3>1. k \in 1..Len(queue[n]) \/ k = Len(queue[n]) + 1
      BY <1>1, <1>4, <2>1, Facts
    <3> QED BY <1>4, <2>1, <3>1
  <2>2. CASE w # n
    BY <1>4, <2>2
  <2> QED BY <2>1, <2>2
<1>10. \A w \in Worker : witem[w] # None =>
         /\ witem[w] \in Item /\ witem[w] # mitem
         /\ item_conn'[witem[w]] = item_conn[witem[w]]
  <2>1. \A w \in Worker : witem[w] # None => witem[w] \in Item /\ witem[w] # mitem
    BY <1>2, Facts DEF TypeOfItems, HeldOnce
  <2> QED BY <1>5, <2>1
<1>11. \A w \in Worker : wpc[w] \in {"popped", "conn", "free"} =>
         witem[w] # None /\ (item_conn[witem[w]] = c => wpc[w] = "none")
  BY <1>2 DEF HandsInv, Carried, Carries, Stage
<1>12. /\ witem' = witem /\ wpc' = wpc /\ freeconn' = freeconn /\ cqi_freelist_' = cqi_freelist_ /\ notify' = notify
       /\ wobj' = wobj /\ obj_conn' = obj_conn /\ obj' = obj /\ allocated' = allocated
       /\ UNCHANGED <<thread_num_, reloads, threads, created, init_count_, objects>> /\ mpc = "push"
  OBVIOUS
<1>13. Item' = Item
  BY <1>12, ItemIsItem
<1>14. mitem # None /\ mitem \in Item /\ None \notin Item /\ mitem \notin {witem[w] : w \in Worker}
  BY <1>2, Facts DEF HeldOnce
<1> HIDE DEF ConnQueuePush
<1>15. Uncreated' /\ FreeOnce'
  BY Frame, <1>12
<1>16. TypeOfStart'
  BY <1>1, <1>7, <1>12 DEF TypeOfStart
<1>17. TypeOfItems'
  BY <1>4, <1>5, <1>7, <1>12, <1>13 DEF TypeOfItems
<1>18. TypeOfConns'
  <2>1. Object' = Object /\ accepted' \in 0..MaxConns
    BY <1>2, <1>7, <1>12, DispatchAssumption DEF Object, Conn
  <2> QED BY <1>6, <1>12, <2>1 DEF TypeOfConns
<1>19. StartInv'
  BY <1>7, <1>12 DEF StartInv
<1>20. NoneStranded'
  <2> SUFFICES ASSUME NEW w \in Worker
               PROVE  Len(queue'[w]) = notify[w] + (IF wpc[w] = "notified" THEN 1 ELSE 0)
                                       + (IF n = w THEN 1 ELSE 0)
    BY <1>7, <1>12 DEF NoneStranded, Running
  <2>1. notify[w] \in Nat /\ Len(queue[w]) = notify[w] + (IF wpc[w] = "notified" THEN 1 ELSE 0) + 0
    BY <1>12, DispatchAssumption DEF NoneStranded, Running, TypeOfItems
  <2> QED BY <1>4, <2>1
<1>21. HandsInv'
  <2>1. ASSUME NEW d \in Conn PROVE stage'[d] = "none" <=> d > accepted'
    <3>1. accepted' = accepted + 1 /\ c = accepted + 1 /\ d \in Nat
      BY <1>7, Facts DEF c
    <3>2. stage[d] = "none" <=> d > accepted
      BY DEF HandsInv
    <3> QED BY <1>2, <1>6, <3>1, <3>2
  <2> QED BY <1>1, <1>7, <1>12, <2>1 DEF HandsInv
<1>22. QueuedOnce'
  <2> SUFFICES ASSUME NEW w \in Worker, NEW v \in Worker,
                      NEW j \in 1..Len(queue'[w]), NEW k \in 1..Len(queue'[v]),
                      queue'[w][j] = queue'[v][k]
               PROVE  w = v /\ j = k
    BY DEF QueuedOnce
  <2>1. CASE j \in 1..Len(queue[w]) /\ k \in 1..Len(queue[v])
    <3>1. queue[w][j] = queue[v][k]
      BY <1>8, <2>1
    <3> QED BY <2>1, <3>1 DEF QueuedOnce
  <2>2. CASE j \notin 1..Len(queue[w]) /\ k \notin 1..Len(queue[v])
    BY <1>9, <2>2
  <2>3. CASE j \notin 1..Len(queue[w]) /\ k \in 1..Len(queue[v])
    BY <1>8, <1>9, <2>3
  <2>4. CASE j \in 1..Len(queue[w]) /\ k \notin 1..Len(queue[v])
    BY <1>8, <1>9, <2>4
  <2> QED BY <2>1, <2>2, <2>3, <2>4
<1>23. HeldOnce'
  BY <1>7, <1>12 DEF HeldOnce
<1>24. FreeApart'
  <2> SUFFICES ASSUME NEW j \in 1..Len(cqi_freelist_)
               PROVE  /\ cqi_freelist_[j] # None
                      /\ \A w \in Worker : \A k \in 1..Len(queue'[w]) : cqi_freelist_[j] # queue'[w][k]
    BY <1>7, <1>12 DEF FreeApart
  <2>1. cqi_freelist_[j] \in Item /\ cqi_freelist_[j] # mitem
    BY Facts DEF FreeApart
  <2>2. \A w \in Worker : \A k \in 1..Len(queue[w]) : cqi_freelist_[j] # queue[w][k]
    BY DEF FreeApart
  <2>3. \A w \in Worker : \A k \in 1..Len(queue'[w]) : cqi_freelist_[j] # queue'[w][k]
    BY <1>9, <2>1, <2>2
  <2> QED BY <1>14, <2>1, <2>3
<1>25. QueuedApart'
  <2> SUFFICES ASSUME NEW w \in Worker, NEW k \in 1..Len(queue'[w])
               PROVE  queue'[w][k] # None /\ \A v \in Worker : queue'[w][k] # witem[v]
    BY <1>7, <1>12 DEF QueuedApart
  <2>1. CASE k \in 1..Len(queue[w])
    BY <1>8, <1>14, <2>1 DEF QueuedApart
  <2>2. CASE queue'[w][k] = mitem
    BY <1>14, <2>2
  <2> QED BY <1>9, <2>1, <2>2
<1>26. Somewhere'
  <2> SUFFICES ASSUME NEW i \in Item
               PROVE  \/ \E j \in 1..Len(cqi_freelist_) : cqi_freelist_[j] = i
                      \/ \E w \in Worker : \E k \in 1..Len(queue'[w]) : queue'[w][k] = i
                      \/ \E w \in Worker : witem[w] = i
    BY <1>12, <1>13 DEF Somewhere
  <2>1. CASE mitem = i
    BY <1>1, <1>4, <1>8, <2>1
  <2>2. CASE \E w \in Worker : \E k \in 1..Len(queue[w]) : queue[w][k] = i
    BY <1>8, <2>2
  <2> QED BY <2>1, <2>2 DEF Somewhere
<1>27. Carried'
  <2> DEFINE Ok(i) == item_conn'[i] \in Conn /\ stage'[item_conn'[i]] = "dispatched"
  <2>1. \A w \in Worker : \A k \in 1..Len(queue'[w]) : Ok(queue'[w][k])
    <3> SUFFICES ASSUME NEW w \in Worker, NEW k \in 1..Len(queue'[w]) PROVE Ok(queue'[w][k])
      OBVIOUS
    <3>1. CASE k \in 1..Len(queue[w])
      <4>1. item_conn[queue[w][k]] \in Conn /\ stage[item_conn[queue[w][k]]] = "dispatched"
        BY <3>1 DEF Carried, Carries
      <4> QED BY <1>6, <1>8, <3>1, <4>1
    <3>2. CASE queue'[w][k] = mitem
      BY <1>2, <1>5, <1>6, <3>2
    <3> QED BY <1>9, <3>1, <3>2
  <2>2. \A w \in Worker : wpc[w] \in {"popped", "conn", "free"} =>
          /\ item_conn'[witem[w]] = item_conn[witem[w]] /\ item_conn[witem[w]] # c
    BY <1>10, <1>11
  <2>3. \A w \in Worker : /\ wpc[w] \in {"popped", "conn"} => Ok(witem[w])
                          /\ wpc[w] = "free" => /\ item_conn'[witem[w]] \in Conn
                                                /\ stage'[item_conn'[witem[w]]] \in {"served", "closed"}
    BY <1>6, <2>2 DEF Carried, Carries
  <2> QED BY <1>12, <2>1, <2>3 DEF Carried, Carries
<1>28. CarriedOnce'
  <2>1. \A w, v \in Worker : \A j \in 1..Len(queue'[w]), k \in 1..Len(queue'[v]) :
          item_conn'[queue'[w][j]] = item_conn'[queue'[v][k]] => w = v /\ j = k
    <3> SUFFICES ASSUME NEW w \in Worker, NEW v \in Worker,
                        NEW j \in 1..Len(queue'[w]), NEW k \in 1..Len(queue'[v]),
                        item_conn'[queue'[w][j]] = item_conn'[queue'[v][k]]
                 PROVE  w = v /\ j = k
      OBVIOUS
    <3>1. CASE j \in 1..Len(queue[w]) /\ k \in 1..Len(queue[v])
      <4>1. item_conn[queue[w][j]] = item_conn[queue[v][k]]
        BY <1>8, <3>1
      <4> QED BY <3>1, <4>1 DEF CarriedOnce
    <3>2. CASE j \notin 1..Len(queue[w]) /\ k \notin 1..Len(queue[v])
      BY <1>9, <3>2
    <3>3. CASE j \notin 1..Len(queue[w]) /\ k \in 1..Len(queue[v])
      <4>1. item_conn'[queue'[w][j]] = c
        BY <1>5, <1>9, <3>3
      <4>2. item_conn'[queue'[v][k]] # c
        BY <1>8, <3>3
      <4> QED BY <4>1, <4>2
    <3>4. CASE j \in 1..Len(queue[w]) /\ k \notin 1..Len(queue[v])
      <4>1. item_conn'[queue'[v][k]] = c
        BY <1>5, <1>9, <3>4
      <4>2. item_conn'[queue'[w][j]] # c
        BY <1>8, <3>4
      <4> QED BY <4>1, <4>2
    <3> QED BY <3>1, <3>2, <3>3, <3>4
  <2>2. ASSUME NEW v \in Worker, wpc[v] \in {"popped", "conn"}
        PROVE  item_conn'[witem[v]] = item_conn[witem[v]] /\ item_conn[witem[v]] # c
    BY <1>10, <1>11, <2>2
  <2>3. \A w, v \in Worker : \A k \in 1..Len(queue'[w]) :
          wpc[v] \in {"popped", "conn"} => item_conn'[queue'[w][k]] # item_conn'[witem[v]]
    BY <1>5, <1>8, <1>9, <2>2 DEF CarriedOnce
  <2>4. \A w, v \in Worker :
          /\ wpc[w] \in {"popped", "conn"} /\ wpc[v] \in {"popped", "conn"}
          /\ item_conn'[witem[w]] = item_conn'[witem[v]]
          => w = v
    BY <2>2 DEF CarriedOnce
  <2> QED BY <1>12, <2>1, <2>3, <2>4 DEF CarriedOnce
<1>29. ObjInv'
  <2>1. \A w \in Worker : wpc[w] = "conn" => item_conn'[witem[w]] = item_conn[witem[w]]
    BY <1>10, <1>11
  <2>2. \A d \in Conn : stage'[d] = "served" => stage[d] = "served"
    BY <1>2, <1>6
  <2> QED BY <1>12, <2>1, <2>2 DEF ObjInv
<1>30. ServedAsDispatched'
  <2>1. \A d \in Conn : stage'[d] = "served" => stage[d] = "served"
    BY <1>2, <1>6
  <2> QED BY <1>12, <2>1 DEF ServedAsDispatched
<1>31. NoneForgotten'
  <2> SUFFICES ASSUME NEW d \in Conn, stage'[d] = "dispatched"
               PROVE  \E w \in Worker : \/ \E k \in 1..Len(queue'[w]) : item_conn'[queue'[w][k]] = d
                                        \/ witem[w] # None /\ item_conn'[witem[w]] = d
    BY <1>12 DEF NoneForgotten
  <2>1. CASE d = c
    BY <1>1, <1>4, <1>5, <1>8, <2>1
  <2>2. CASE d # c
    <3>1. stage[d] = "dispatched"
      BY <1>6, <2>2
    <3>2. PICK w \in Worker : \/ \E k \in 1..Len(queue[w]) : item_conn[queue[w][k]] = d
                              \/ witem[w] # None /\ item_conn[witem[w]] = d
      BY <3>1 DEF NoneForgotten
    <3> QED BY <1>8, <1>10, <3>2
  <2> QED BY <2>1, <2>2
<1> QED BY <1>15, <1>16, <1>17, <1>18, <1>19, <1>20, <1>21, <1>22, <1>23, <1>24,
         <1>25, <1>26, <1>27, <1>28, <1>29, <1>30, <1>31

\* The byte for the item that was pushed is in the pipe.
LEMMA NotifyWorkerKeepsInv ==
  ASSUME DispatchInv, NotifyWorker
  PROVE  DispatchInv'
<1> USE DEF DispatchInv, startVars, itemVars, queueVars, workerVars, objVars,
         connVars, NotifyWorker, Byte
<1>1. last_thread_ \in Worker /\ notify[last_thread_] \in Nat /\ notify[last_thread_] + 1 \in 0..PipeSize
  BY DispatchAssumption DEF HandsInv, TypeOfItems
<1>2. notify' \in [Worker -> 0..PipeSize]
  BY <1>1 DEF TypeOfItems
<1>3. /\ TypeOfConns' /\ Uncreated' /\ FreeOnce' /\ QueuedOnce' /\ HeldOnce'
      /\ FreeApart' /\ QueuedApart' /\ Somewhere' /\ Carried' /\ CarriedOnce'
      /\ ObjInv' /\ ServedAsDispatched' /\ NoneForgotten'
  BY Frame
<1>4. TypeOfStart'
  BY DispatchAssumption DEF TypeOfStart
<1>5. TypeOfItems'
  BY <1>2, ItemIsItem DEF TypeOfItems
<1>6. StartInv'
  BY DispatchAssumption DEF StartInv
<1>7. NoneStranded'
  BY Facts, DispatchAssumption DEF NoneStranded, Running, TypeOfItems
<1>8. HandsInv'
  BY DispatchAssumption DEF HandsInv
<1> QED BY <1>3, <1>4, <1>5, <1>6, <1>7, <1>8

\* The byte is in the worker's hands, as it were.
LEMMA ReadNotifyKeepsInv ==
  ASSUME DispatchInv, NEW w \in Worker, ReadNotify(w)
  PROVE  DispatchInv'
<1> USE DEF DispatchInv, startVars, itemVars, queueVars, workerVars, objVars,
         connVars, ReadNotify, At
<1>1. notify[w] \in Nat /\ notify[w] - 1 \in 0..PipeSize
  BY DispatchAssumption DEF TypeOfItems
<1>2. /\ notify' \in [Worker -> 0..PipeSize]
      /\ wpc' \in [Worker -> WorkerPlace] /\ wpc[w] = "loop" /\ wpc'[w] = "notified"
      /\ \A v \in Worker : v # w => wpc'[v] = wpc[v]
  BY <1>1 DEF TypeOfItems, WorkerPlace
<1>3. /\ TypeOfStart' /\ TypeOfConns' /\ StartInv' /\ FreeOnce' /\ QueuedOnce'
      /\ HeldOnce' /\ FreeApart' /\ QueuedApart' /\ Somewhere' /\ ServedAsDispatched'
      /\ NoneForgotten'
  BY Frame
<1>4. TypeOfItems'
  BY <1>2, ItemIsItem DEF TypeOfItems
<1>5. Uncreated'
  BY <1>2 DEF Uncreated
<1>6. NoneStranded'
  BY Facts, DispatchAssumption DEF NoneStranded, Running, TypeOfItems
<1>7. HandsInv'
  BY DispatchAssumption DEF HandsInv
<1>8. Carried'
  BY Facts, DispatchAssumption DEF Carried, Carries, TypeOfItems
<1>9. CarriedOnce'
  BY DispatchAssumption DEF CarriedOnce
<1>10. ObjInv'
  BY DispatchAssumption DEF ObjInv
<1> QED BY <1>3, <1>4, <1>5, <1>6, <1>7, <1>8, <1>9, <1>10

\* The first item of the queue goes into the worker's hands.
LEMMA ConnQueuePopKeepsInv ==
  ASSUME DispatchInv, NEW w \in Worker, ConnQueuePop(w)
  PROVE  DispatchInv'
<1> USE DEF DispatchInv, startVars, itemVars, queueVars, workerVars, objVars,
         connVars, ConnQueuePop, At
<1>1. queue[w] \in Seq(Item) /\ queue[w] # <<>> /\ wpc[w] = "notified" /\ Running
  BY DEF TypeOfItems
<1>2. /\ queue'[w] \in Seq(Item) /\ Len(queue'[w]) = Len(queue[w]) - 1 /\ Len(queue[w]) \in Nat \ {0}
      /\ \A k \in 1..Len(queue'[w]) : k + 1 \in 1..Len(queue[w]) /\ queue'[w][k] = queue[w][k + 1]
      /\ witem'[w] = queue[w][1] /\ queue[w][1] \in Item /\ 1 \in 1..Len(queue[w])
  <2>1. queue'[w] = Tail(queue[w]) /\ witem'[w] = Head(queue[w])
    BY DEF TypeOfItems
  <2>2. /\ Tail(queue[w]) \in Seq(Item) /\ Len(Tail(queue[w])) = Len(queue[w]) - 1
        /\ Len(queue[w]) \in Nat \ {0}
        /\ \A k \in 1..Len(Tail(queue[w])) : k + 1 \in 1..Len(queue[w]) /\ Tail(queue[w])[k] = queue[w][k + 1]
        /\ Head(queue[w]) = queue[w][1] /\ queue[w][1] \in Item
    BY <1>1, TailFacts
  <2>3. 1 \in 1..Len(queue[w])
    BY <2>2
  <2> HIDE DEF ConnQueuePop, DispatchInv
  <2>4. \A k \in 1..Len(queue'[w]) : k + 1 \in 1..Len(queue[w]) /\ queue'[w][k] = queue[w][k + 1]
    BY <2>1, <2>2
  <2> QED BY <2>1, <2>2, <2>3, <2>4
<1>3. /\ \A v \in Worker : v # w => queue'[v] = queue[v] /\ witem'[v] = witem[v] /\ wpc'[v] = wpc[v]
      /\ queue' \in [Worker -> Seq(Item)]
      /\ wpc' \in [Worker -> WorkerPlace] /\ wpc'[w] = "popped"
      /\ witem' \in [Worker -> Item \cup {None}]
  BY <1>2 DEF TypeOfItems, WorkerPlace
<1>4. /\ cqi_freelist_' = cqi_freelist_ /\ mitem' = mitem /\ allocated' = allocated /\ item_conn' = item_conn
      /\ notify' = notify /\ wobj' = wobj /\ stage' = stage /\ obj' = obj /\ mpc' = mpc
      /\ obj_conn' = obj_conn /\ freeconn' = freeconn /\ created' = created
      /\ UNCHANGED <<thread_num_, reloads, threads, init_count_, last_thread_, objects, accepted>>
  OBVIOUS
<1>5. Item' = Item /\ None \notin Item /\ witem[w] = None /\ wobj[w] = None
  BY <1>1, <1>4, ItemIsItem, Facts DEF HandsInv
<1>6. ASSUME NEW v \in Worker, NEW k \in 1..Len(queue'[v])
      PROVE  \E j \in 1..Len(queue[v]) : /\ queue'[v][k] = queue[v][j]
                                         /\ v = w => j = k + 1 /\ j # 1
                                         /\ v # w => j = k
  <2>1. CASE v = w
    BY <1>2, <2>1
  <2>2. CASE v # w
    BY <1>3, <2>2
  <2> QED BY <2>1, <2>2
<1>7. ASSUME NEW v \in Worker, NEW j \in 1..Len(queue[v])
      PROVE  \/ v = w /\ queue[v][j] = witem'[w]
             \/ \E k \in 1..Len(queue'[v]) : queue'[v][k] = queue[v][j]
  <2>1. CASE v = w /\ j = 1
    BY <1>2, <2>1
  <2>2. CASE v = w /\ j # 1
    <3>1. j - 1 \in 1..Len(queue'[w]) /\ (j - 1) + 1 = j
      BY <1>2, <2>2
    <3> QED BY <1>2, <2>2, <3>1
  <2>3. CASE v # w
    BY <1>3, <2>3
  <2> QED BY <2>1, <2>2, <2>3
<1> HIDE DEF ConnQueuePop
<1>8. TypeOfStart' /\ TypeOfConns' /\ StartInv' /\ FreeOnce' /\ ServedAsDispatched'
  BY Frame, <1>4
<1>9. TypeOfItems'
  BY <1>3, <1>4, <1>5 DEF TypeOfItems
<1>10. Uncreated'
  BY <1>1, <1>3, <1>4 DEF Uncreated
<1>11. NoneStranded'
  <2> SUFFICES ASSUME NEW v \in Worker
               PROVE  Len(queue'[v]) = notify[v] + (IF wpc'[v] = "notified" THEN 1 ELSE 0)
                                       + (IF mpc = "notify" /\ last_thread_ = v THEN 1 ELSE 0)
    BY <1>4 DEF NoneStranded, Running
  <2>1. notify[v] \in Nat /\ Len(queue[v]) = notify[v] + (IF wpc[v] = "notified" THEN 1 ELSE 0)
                                             + (IF mpc = "notify" /\ last_thread_ = v THEN 1 ELSE 0)
    BY <1>1, DispatchAssumption DEF NoneStranded, TypeOfItems
  <2>2. CASE v = w
    BY <1>1, <1>2, <1>3, <2>1, <2>2
  <2>3. CASE v # w
    BY <1>3, <2>1, <2>3
  <2> QED BY <2>2, <2>3
<1>12. HandsInv'
  <2>1. ASSUME NEW v \in Worker
        PROVE  /\ witem'[v] # None <=> wpc'[v] \in {"popped", "conn", "free"}
               /\ wobj[v] # None <=> wpc'[v] = "conn"
    <3>1. CASE v = w
      BY <1>2, <1>3, <1>5, <3>1
    <3>2. CASE v # w
      BY <1>3, <3>2 DEF HandsInv
    <3> QED BY <3>1, <3>2
  <2> QED BY <1>4, <2>1 DEF HandsInv
<1>13. QueuedOnce'
  <2> SUFFICES ASSUME NEW u \in Worker, NEW v \in Worker,
                      NEW i \in 1..Len(queue'[u]), NEW k \in 1..Len(queue'[v]),
                      queue'[u][i] = queue'[v][k]
               PROVE  u = v /\ i = k
    BY DEF QueuedOnce
  <2>1. PICK a \in 1..Len(queue[u]) : /\ queue'[u][i] = queue[u][a]
                                      /\ u = w => a = i + 1
                                      /\ u # w => a = i
    BY <1>6
  <2>2. PICK b \in 1..Len(queue[v]) : /\ queue'[v][k] = queue[v][b]
                                      /\ v = w => b = k + 1
                                      /\ v # w => b = k
    BY <1>6
  <2>3. queue[u][a] = queue[v][b]
    BY <2>1, <2>2
  <2>4. u = v /\ a = b
    BY <2>3 DEF QueuedOnce
  <2> QED BY <2>1, <2>2, <2>4
<1>14. HeldOnce'
  <2>1. queue[w][1] # mitem /\ \A v \in Worker : queue[w][1] # witem[v]
    BY <1>2 DEF QueuedApart
  <2> SUFFICES ASSUME NEW u \in Worker
               PROVE  /\ \A v \in Worker : witem'[u] = witem'[v] /\ u # v => witem'[u] = None
                      /\ witem'[u] = mitem => mitem = None
    BY <1>4 DEF HeldOnce
  <2>2. CASE u = w
    BY <1>2, <1>3, <2>1, <2>2
  <2>3. CASE u # w
    <3>1. witem'[u] = witem[u] /\ witem[u] # witem'[w]
      BY <1>2, <1>3, <2>1, <2>3
    <3>2. \A v \in Worker : v # w => witem'[v] = witem[v]
      BY <1>3
    <3> QED BY <3>1, <3>2 DEF HeldOnce
  <2> QED BY <2>2, <2>3
<1>15. FreeApart'
  <2> SUFFICES ASSUME NEW j \in 1..Len(cqi_freelist_), NEW v \in Worker
               PROVE  /\ cqi_freelist_[j] # witem'[v]
                      /\ \A k \in 1..Len(queue'[v]) : cqi_freelist_[j] # queue'[v][k]
    BY <1>4 DEF FreeApart
  <2>1. cqi_freelist_[j] # witem'[v]
    <3>1. witem'[v] = queue[w][1] \/ witem'[v] = witem[v]
      BY <1>2, <1>3
    <3>2. cqi_freelist_[j] # queue[w][1]
      BY <1>2 DEF FreeApart
    <3>3. cqi_freelist_[j] # witem[v]
      BY DEF FreeApart
    <3> QED BY <3>1, <3>2, <3>3
  <2>2. ASSUME NEW k \in 1..Len(queue'[v]) PROVE cqi_freelist_[j] # queue'[v][k]
    <3>1. PICK i \in 1..Len(queue[v]) : queue'[v][k] = queue[v][i]
      BY <1>6
    <3> QED BY <3>1 DEF FreeApart
  <2> QED BY <2>1, <2>2
<1>16. QueuedApart'
  <2> SUFFICES ASSUME NEW u \in Worker, NEW k \in 1..Len(queue'[u])
               PROVE  queue'[u][k] # mitem /\ \A v \in Worker : queue'[u][k] # witem'[v]
    BY <1>4 DEF QueuedApart
  <2>1. PICK j \in 1..Len(queue[u]) : queue'[u][k] = queue[u][j] /\ (u = w => j # 1)
    BY <1>6
  <2>2. queue[u][j] # queue[w][1]
    <3>1. 1 \in 1..Len(queue[w])
      BY <1>2
    <3>2. queue[u][j] = queue[w][1] => u = w /\ j = 1
      BY <3>1 DEF QueuedOnce
    <3> QED BY <2>1, <3>2
  <2>3. queue[u][j] # mitem /\ \A v \in Worker : queue[u][j] # witem[v]
    BY DEF QueuedApart
  <2>4. \A v \in Worker : witem'[v] = queue[w][1] \/ witem'[v] = witem[v]
    BY <1>2, <1>3
  <2> QED BY <2>1, <2>2, <2>3, <2>4
<1>17. Somewhere'
  <2> SUFFICES ASSUME NEW i \in Item
               PROVE  \/ \E j \in 1..Len(cqi_freelist_) : cqi_freelist_[j] = i
                      \/ \E v \in Worker : \E k \in 1..Len(queue'[v]) : queue'[v][k] = i
                      \/ \E v \in Worker : witem'[v] = i
                      \/ mitem = i
    BY <1>4, <1>5 DEF Somewhere
  <2>1. ASSUME NEW v \in Worker, NEW j \in 1..Len(queue[v]), queue[v][j] = i
        PROVE  \/ witem'[w] = i
               \/ \E k \in 1..Len(queue'[v]) : queue'[v][k] = i
    BY <1>7, <2>1
  <2>2. ASSUME NEW v \in Worker, witem[v] = i PROVE witem'[v] = i
    BY <1>3, <1>5, <2>2
  <2> QED BY <2>1, <2>2 DEF Somewhere
<1>18. Carried'
  <2>1. ASSUME NEW v \in Worker, NEW k \in 1..Len(queue'[v]) PROVE Carries(queue'[v][k])
    BY <1>6 DEF Carried
  <2>2. Carries(witem'[w])
    BY <1>2 DEF Carried
  <2>3. ASSUME NEW v \in Worker
        PROVE  /\ wpc'[v] \in {"popped", "conn"} => Carries(witem'[v])
               /\ wpc'[v] = "free" => /\ item_conn[witem'[v]] \in Conn
                                      /\ stage[item_conn[witem'[v]]] \in {"served", "closed"}
    <3>1. CASE v = w
      BY <1>3, <2>2, <3>1
    <3>2. CASE v # w
      BY <1>3, <3>2 DEF Carried
    <3> QED BY <3>1, <3>2
  <2> QED BY <1>4, <2>1, <2>3 DEF Carried, Carries
<1>19. CarriedOnce'
  <2>1. ASSUME NEW u \in Worker, NEW v \in Worker, NEW i \in 1..Len(queue'[u]), NEW k \in 1..Len(queue'[v]),
               item_conn[queue'[u][i]] = item_conn[queue'[v][k]]
        PROVE  u = v /\ i = k
    <3>1. PICK a \in 1..Len(queue[u]) : /\ queue'[u][i] = queue[u][a]
                                        /\ u = w => a = i + 1
                                        /\ u # w => a = i
      BY <1>6
    <3>2. PICK b \in 1..Len(queue[v]) : /\ queue'[v][k] = queue[v][b]
                                        /\ v = w => b = k + 1
                                        /\ v # w => b = k
      BY <1>6
    <3>3. item_conn[queue[u][a]] = item_conn[queue[v][b]]
      BY <2>1, <3>1, <3>2
    <3>4. u = v /\ a = b
      BY <3>3 DEF CarriedOnce
    <3> QED BY <3>1, <3>2, <3>4
  <2>2. ASSUME NEW u \in Worker, NEW v \in Worker, NEW k \in 1..Len(queue'[u]),
               wpc'[v] \in {"popped", "conn"}
        PROVE  item_conn[queue'[u][k]] # item_conn[witem'[v]]
    <3>1. PICK j \in 1..Len(queue[u]) : queue'[u][k] = queue[u][j] /\ (u = w => j # 1)
      BY <1>6
    <3>2. CASE v = w
      <4>1. 1 \in 1..Len(queue[w])
        BY <1>2
      <4>2. item_conn[queue[u][j]] = item_conn[queue[w][1]] => u = w /\ j = 1
        BY <4>1 DEF CarriedOnce
      <4> QED BY <1>2, <3>1, <3>2, <4>2
    <3>3. CASE v # w
      <4>1. witem'[v] = witem[v] /\ wpc[v] \in {"popped", "conn"}
        BY <1>3, <2>2, <3>3
      <4>2. item_conn[queue[u][j]] # item_conn[witem[v]]
        BY <4>1 DEF CarriedOnce
      <4> QED BY <3>1, <4>1, <4>2
    <3> QED BY <3>2, <3>3
  <2>3. ASSUME NEW u \in Worker, NEW v \in Worker, wpc'[u] \in {"popped", "conn"},
               wpc'[v] \in {"popped", "conn"}, item_conn[witem'[u]] = item_conn[witem'[v]]
        PROVE  u = v
    <3>1. CASE u = w /\ v # w
      BY <1>2, <1>3, <2>3, <3>1 DEF CarriedOnce
    <3>2. CASE u # w /\ v = w
      BY <1>2, <1>3, <2>3, <3>2 DEF CarriedOnce
    <3>3. CASE u # w /\ v # w
      BY <1>3, <2>3, <3>3 DEF CarriedOnce
    <3> QED BY <3>1, <3>2, <3>3
  <2> QED BY <1>4, <2>1, <2>2, <2>3 DEF CarriedOnce
<1>20. ObjInv'
  <2>1. ASSUME NEW v \in Worker, wpc'[v] = "conn" PROVE wpc[v] = "conn" /\ witem'[v] = witem[v]
    BY <1>3, <2>1
  <2> QED BY <1>4, <2>1 DEF ObjInv
<1>21. NoneForgotten'
  <2> SUFFICES ASSUME NEW d \in Conn, stage[d] = "dispatched"
               PROVE  \E v \in Worker : \/ \E k \in 1..Len(queue'[v]) : item_conn[queue'[v][k]] = d
                                        \/ witem'[v] # None /\ item_conn[witem'[v]] = d
    BY <1>4 DEF NoneForgotten
  <2>1. ASSUME NEW v \in Worker, NEW j \in 1..Len(queue[v]), item_conn[queue[v][j]] = d
        PROVE  \/ witem'[w] # None /\ item_conn[witem'[w]] = d
               \/ \E k \in 1..Len(queue'[v]) : item_conn[queue'[v][k]] = d
    <3>1. witem'[w] # None
      BY <1>2, <1>5
    <3> QED BY <1>7, <2>1, <3>1
  <2>2. ASSUME NEW v \in Worker, witem[v] # None PROVE witem'[v] = witem[v]
    BY <1>3, <1>5, <2>2
  <2> QED BY <2>1, <2>2 DEF NoneForgotten
<1> QED BY <1>8, <1>9, <1>10, <1>11, <1>12, <1>13, <1>14, <1>15, <1>16, <1>17, <1>18,
         <1>19, <1>20, <1>21

\* The conn is new, or comes off the free list: nobody has it.
LEMMA ConnNewKeepsInv ==
  ASSUME DispatchInv, NEW w \in Worker, ConnNew(w)
  PROVE  DispatchInv'
<1> USE DEF DispatchInv, startVars, itemVars, queueVars, workerVars, objVars,
         connVars, ConnNew, At
<1>1. /\ witem[w] \in Item /\ item_conn[witem[w]] \in Conn
  BY DEF TypeOfItems, HandsInv, Carried, Carries
<1>2. /\ Object \subseteq Object' /\ objects' \in Nat /\ wobj'[w] \in Object'
      /\ freeconn' \in Seq(Object')
      /\ \A k \in 1..Len(freeconn') : k \in 1..Len(freeconn) /\ freeconn'[k] = freeconn[k] /\ freeconn[k] # wobj'[w]
      /\ \A c \in Conn : stage[c] = "served" => obj[c] # wobj'[w]
      /\ \A v \in Worker : wobj[v] # None => wobj[v] # wobj'[w]
  <2>1. CASE freeconn # <<>>
    <3>1. freeconn \in Seq(Object) BY DEF TypeOfConns
    <3>2. /\ freeconn' \in Seq(Object) /\ Len(freeconn') = Len(freeconn) - 1 /\ Len(freeconn) \in Nat \ {0}
          /\ \A k \in 1..(Len(freeconn) - 1) : freeconn'[k] = freeconn[k]
          /\ wobj'[w] = freeconn[Len(freeconn)] /\ freeconn[Len(freeconn)] \in Object
      <4>1. /\ freeconn' = SubSeq(freeconn, 1, Len(freeconn) - 1)
            /\ wobj' = [wobj EXCEPT ![w] = freeconn[Len(freeconn)]]
        BY <2>1
      <4>2. wobj'[w] = freeconn[Len(freeconn)]
        BY <4>1 DEF TypeOfConns
      <4>3. /\ SubSeq(freeconn, 1, Len(freeconn) - 1) \in Seq(Object)
            /\ Len(SubSeq(freeconn, 1, Len(freeconn) - 1)) = Len(freeconn) - 1
            /\ \A k \in 1..(Len(freeconn) - 1) : SubSeq(freeconn, 1, Len(freeconn) - 1)[k] = freeconn[k]
            /\ freeconn[Len(freeconn)] \in Object /\ Len(freeconn) \in Nat \ {0}
        BY <2>1, <3>1, FrontFacts
      <4> DEFINE l == SubSeq(freeconn, 1, Len(freeconn) - 1)
      <4>4. /\ l \in Seq(Object) /\ Len(l) = Len(freeconn) - 1
            /\ \A k \in 1..(Len(freeconn) - 1) : l[k] = freeconn[k]
            /\ freeconn' = l
        BY <4>1, <4>3
      <4> HIDE DEF ConnNew, DispatchInv, l
      <4>5. freeconn' \in Seq(Object) /\ Len(freeconn') = Len(freeconn) - 1
        BY <4>4
      <4>6. \A k \in 1..(Len(freeconn) - 1) : freeconn'[k] = freeconn[k]
        BY <4>4
      <4> QED BY <4>2, <4>3, <4>5, <4>6
    <3>3. objects' = objects /\ Object' = Object BY <2>1 DEF Object
    <3> QED BY <3>2, <3>3 DEF ObjInv, ServedAsDispatched, HandsInv, TypeOfConns
  <2>2. CASE freeconn = <<>>
    <3>1. objects \in Nat /\ objects' = objects + 1 /\ wobj'[w] = objects + 1 /\ freeconn' = <<>>
      BY <2>2 DEF TypeOfConns
    <3>2. Object \subseteq Object' /\ objects + 1 \in Object' /\ objects + 1 \notin Object
      BY <3>1 DEF Object
    <3>3. \A c \in Conn : stage[c] = "served" => obj[c] \in Object
      BY DEF ObjInv, TypeOfConns
    <3>4. \A v \in Worker : wobj[v] # None => wobj[v] \in Object
      BY DEF TypeOfConns
    <3> QED BY <3>1, <3>2, <3>3, <3>4
  <2> QED BY <2>1, <2>2
<1>3. /\ obj_conn' \in [Object' -> Conn] /\ obj_conn'[wobj'[w]] = item_conn[witem[w]]
      /\ \A o \in Object : o # wobj'[w] => obj_conn'[o] = obj_conn[o]
  BY <1>1, <1>2 DEF Object, TypeOfConns
<1>4. /\ wobj' \in [Worker -> Object' \cup {None}]
      /\ \A v \in Worker : v # w => wobj'[v] = wobj[v] /\ wpc'[v] = wpc[v]
      /\ wpc'[w] = "conn"
      /\ wpc' \in [Worker -> WorkerPlace]
      /\ obj \in [Conn -> Object' \cup {None}]
  BY <1>2 DEF TypeOfConns, TypeOfItems, WorkerPlace
<1>5. /\ cqi_freelist_' = cqi_freelist_ /\ mitem' = mitem /\ allocated' = allocated /\ item_conn' = item_conn
      /\ queue' = queue /\ notify' = notify /\ witem' = witem /\ stage' = stage /\ obj' = obj
      /\ UNCHANGED <<mpc, thread_num_, reloads, threads, created, init_count_, last_thread_, accepted>>
      /\ wpc[w] = "popped"
  OBVIOUS
<1>6. Item' = Item
  BY <1>5, ItemIsItem
<1>7. ASSUME NEW v \in Worker
      PROVE  /\ wpc'[v] = "conn" => v = w \/ wpc[v] = "conn"
             /\ wpc'[v] \in {"popped", "conn"} <=> wpc[v] \in {"popped", "conn"}
             /\ wpc'[v] = "free" <=> wpc[v] = "free"
             /\ wpc'[v] = "notified" <=> wpc[v] = "notified"
             /\ wpc'[v] = "none" <=> wpc[v] = "none"
  <2>1. CASE v = w
    BY <1>4, <1>5, <2>1
  <2>2. CASE v # w
    BY <1>4, <2>2
  <2> QED BY <2>1, <2>2
<1> HIDE DEF ConnNew
<1>8. /\ TypeOfStart' /\ StartInv' /\ FreeOnce' /\ QueuedOnce' /\ HeldOnce'
      /\ FreeApart' /\ QueuedApart' /\ Somewhere' /\ NoneForgotten'
  BY Frame, <1>5
<1>9. TypeOfItems'
  BY <1>4, <1>5, <1>6 DEF TypeOfItems
<1>10. TypeOfConns'
  BY <1>2, <1>3, <1>4, <1>5 DEF TypeOfConns
<1>11. Uncreated'
  BY <1>5, <1>7 DEF Uncreated
<1>12. NoneStranded'
  BY <1>5, <1>7 DEF NoneStranded, Running
<1>13. HandsInv'
  <2>1. ASSUME NEW v \in Worker
        PROVE  /\ witem[v] # None <=> wpc'[v] \in {"popped", "conn", "free"}
               /\ wobj'[v] # None <=> wpc'[v] = "conn"
    <3>1. CASE v = w
      <4>1. witem[w] # None /\ wobj'[w] # None
        BY <1>1, <1>2, Facts DEF HandsInv, Object, None
      <4> QED BY <1>4, <3>1, <4>1
    <3>2. CASE v # w
      BY <1>4, <3>2 DEF HandsInv
    <3> QED BY <3>1, <3>2
  <2> QED BY <1>5, <2>1 DEF HandsInv
<1>14. Carried'
  BY <1>5, <1>7 DEF Carried, Carries
<1>15. CarriedOnce'
  BY <1>5, <1>7 DEF CarriedOnce
<1>16. ObjInv'
  <2>1. \A j, k \in 1..Len(freeconn') : freeconn'[j] = freeconn'[k] => j = k
    BY <1>2 DEF ObjInv
  <2>2. ASSUME NEW v \in Worker, wpc'[v] = "conn"
        PROVE  /\ obj_conn'[wobj'[v]] = item_conn[witem[v]]
               /\ \A k \in 1..Len(freeconn') : freeconn'[k] # wobj'[v]
    <3>1. CASE v = w
      BY <1>2, <1>3, <3>1
    <3>2. CASE v # w
      <4>1. wpc[v] = "conn" /\ wobj'[v] = wobj[v]
        BY <1>4, <2>2, <3>2
      <4>2. wobj[v] \in Object /\ wobj[v] # wobj'[w]
        BY <1>2, <4>1 DEF HandsInv, TypeOfConns
      <4> QED BY <1>2, <1>3, <4>1, <4>2 DEF ObjInv
    <3> QED BY <3>1, <3>2
  <2> QED BY <1>5, <2>1, <2>2 DEF ObjInv
<1>17. ServedAsDispatched'
  <2> SUFFICES ASSUME NEW c \in Conn, stage[c] = "served"
               PROVE  /\ obj_conn'[obj[c]] = c
                      /\ \A k \in 1..Len(freeconn') : freeconn'[k] # obj[c]
    BY <1>5 DEF ServedAsDispatched
  <2>1. obj[c] \in Object /\ obj[c] # wobj'[w]
    BY <1>2 DEF ObjInv, TypeOfConns
  <2> QED BY <1>2, <1>3, <2>1 DEF ServedAsDispatched
<1> QED BY <1>8, <1>9, <1>10, <1>11, <1>12, <1>13, <1>14, <1>15, <1>16, <1>17

\* The connection has the conn that was set up for it.
LEMMA ServesConnKeepsInv ==
  ASSUME DispatchInv, NEW w \in Worker, ServesConn(w)
  PROVE  DispatchInv'
<1> USE DEF DispatchInv, startVars, itemVars, queueVars, workerVars, objVars,
         connVars, ServesConn, At
<1> DEFINE c == item_conn[witem[w]]
<1>1. /\ witem[w] \in Item /\ c \in Conn /\ stage[c] = "dispatched" /\ wobj[w] \in Object
  BY DEF TypeOfItems, TypeOfConns, HandsInv, Carried, Carries
<1>2. /\ stage'[c] = "served" /\ stage' \in [Conn -> Stage]
      /\ \A d \in Conn : d # c => stage'[d] = stage[d]
      /\ wobj' \in [Worker -> Object \cup {None}] /\ wobj'[w] = None
      /\ \A v \in Worker : v # w => wobj'[v] = wobj[v] /\ wpc'[v] = wpc[v]
      /\ wpc'[w] = "free"
      /\ wpc' \in [Worker -> WorkerPlace]
  BY <1>1 DEF TypeOfConns, TypeOfItems, WorkerPlace, Stage
<1>3. /\ obj'[c] = wobj[w] /\ obj' \in [Conn -> Object \cup {None}]
      /\ \A d \in Conn : d # c => obj'[d] = obj[d]
  BY <1>1 DEF TypeOfConns
<1>4. /\ cqi_freelist_' = cqi_freelist_ /\ mitem' = mitem /\ allocated' = allocated /\ item_conn' = item_conn
      /\ queue' = queue /\ notify' = notify /\ witem' = witem /\ objects' = objects
      /\ obj_conn' = obj_conn /\ freeconn' = freeconn
      /\ UNCHANGED <<mpc, thread_num_, reloads, threads, created, init_count_, last_thread_, accepted>>
      /\ wpc[w] = "conn"
  OBVIOUS
<1>5. Item' = Item /\ Object' = Object
  BY <1>4, ItemIsItem DEF Object
<1>6. ASSUME NEW v \in Worker
      PROVE  /\ wpc'[v] \in {"popped", "conn"} => wpc[v] \in {"popped", "conn"} /\ v # w
             /\ wpc'[v] = "free" => v = w \/ wpc[v] = "free"
             /\ wpc'[v] = "conn" => wpc[v] = "conn" /\ v # w /\ wobj'[v] = wobj[v]
             /\ wpc'[v] = "notified" <=> wpc[v] = "notified"
             /\ wpc'[v] = "none" <=> wpc[v] = "none"
  <2>1. CASE v = w
    BY <1>2, <1>4, <2>1
  <2>2. CASE v # w
    BY <1>2, <2>2
  <2> QED BY <2>1, <2>2
<1>7. \A d \in Conn : stage'[d] \in {"none", "dispatched"} => stage'[d] = stage[d] /\ d # c
  BY <1>1, <1>2
<1> HIDE DEF ServesConn, c
<1>8. /\ TypeOfStart' /\ StartInv' /\ FreeOnce' /\ QueuedOnce' /\ HeldOnce'
      /\ FreeApart' /\ QueuedApart' /\ Somewhere'
  BY Frame, <1>4
<1>9. TypeOfItems'
  BY <1>2, <1>4, <1>5 DEF TypeOfItems
<1>10. TypeOfConns'
  BY <1>2, <1>3, <1>4, <1>5 DEF TypeOfConns
<1>11. Uncreated'
  BY <1>4, <1>6 DEF Uncreated
<1>12. NoneStranded'
  BY <1>4, <1>6 DEF NoneStranded, Running
<1>13. HandsInv'
  <2>1. ASSUME NEW v \in Worker
        PROVE  /\ witem[v] # None <=> wpc'[v] \in {"popped", "conn", "free"}
               /\ wobj'[v] # None <=> wpc'[v] = "conn"
    <3>1. CASE v = w
      <4>1. witem[w] # None
        BY <1>1, Facts
      <4> QED BY <1>2, <3>1, <4>1
    <3>2. CASE v # w
      BY <1>2, <3>2 DEF HandsInv
    <3> QED BY <3>1, <3>2
  <2>2. ASSUME NEW d \in Conn PROVE stage'[d] = "none" <=> d > accepted
    <3>1. stage[d] = "none" <=> d > accepted
      BY DEF HandsInv
    <3> QED BY <1>1, <1>2, <3>1
  <2> QED BY <1>4, <2>1, <2>2 DEF HandsInv
<1>14. Carried'
  <2>1. ASSUME NEW v \in Worker, NEW k \in 1..Len(queue[v])
        PROVE  item_conn[queue[v][k]] \in Conn /\ stage'[item_conn[queue[v][k]]] = "dispatched"
    <3>1. item_conn[queue[v][k]] \in Conn /\ stage[item_conn[queue[v][k]]] = "dispatched"
      BY DEF Carried, Carries
    <3>2. item_conn[queue[v][k]] # c
      BY <1>4 DEF CarriedOnce, c
    <3> QED BY <1>2, <3>1, <3>2
  <2>2. ASSUME NEW v \in Worker, wpc'[v] \in {"popped", "conn"}
        PROVE  item_conn[witem[v]] \in Conn /\ stage'[item_conn[witem[v]]] = "dispatched"
    <3>1. wpc[v] \in {"popped", "conn"} /\ v # w
      BY <1>6, <2>2
    <3>2. item_conn[witem[v]] \in Conn /\ stage[item_conn[witem[v]]] = "dispatched"
      BY <3>1 DEF Carried, Carries
    <3>3. item_conn[witem[v]] # c
      BY <1>4, <3>1 DEF CarriedOnce, c
    <3> QED BY <1>2, <3>2, <3>3
  <2>3. ASSUME NEW v \in Worker, wpc'[v] = "free"
        PROVE  /\ item_conn[witem[v]] \in Conn
               /\ stage'[item_conn[witem[v]]] \in {"served", "closed"}
    <3>1. CASE v = w
      BY <1>1, <1>2, <3>1 DEF c
    <3>2. CASE v # w
      <4>1. /\ item_conn[witem[v]] \in Conn
            /\ stage[item_conn[witem[v]]] \in {"served", "closed"}
        BY <1>6, <2>3, <3>2 DEF Carried
      <4> QED BY <1>2, <4>1
    <3> QED BY <3>1, <3>2
  <2> QED BY <1>4, <2>1, <2>2, <2>3 DEF Carried, Carries
<1>15. CarriedOnce'
  BY <1>4, <1>6 DEF CarriedOnce
<1>16. ObjInv'
  <2>1. ASSUME NEW d \in Conn, stage'[d] = "served" PROVE obj'[d] # None
    <3>1. CASE d = c
      BY <1>1, <1>3, <3>1, Facts
    <3>2. CASE d # c
      BY <1>2, <1>3, <2>1, <3>2 DEF ObjInv
    <3> QED BY <3>1, <3>2
  <2> QED BY <1>4, <1>6, <2>1 DEF ObjInv
<1>17. ServedAsDispatched'
  <2> SUFFICES ASSUME NEW d \in Conn, stage'[d] = "served"
               PROVE  /\ obj_conn[obj'[d]] = d
                      /\ \A k \in 1..Len(freeconn) : freeconn[k] # obj'[d]
    BY <1>4 DEF ServedAsDispatched
  <2>1. CASE d = c
    BY <1>3, <1>4, <2>1 DEF ObjInv, c
  <2>2. CASE d # c
    BY <1>2, <1>3, <2>2 DEF ServedAsDispatched
  <2> QED BY <2>1, <2>2
<1>18. NoneForgotten'
  <2>1. ASSUME NEW d \in Conn, stage'[d] = "dispatched" PROVE stage[d] = "dispatched"
    BY <1>7, <2>1
  <2> QED BY <1>4, <2>1 DEF NoneForgotten
<1> QED BY <1>8, <1>9, <1>10, <1>11, <1>12, <1>13, <1>14, <1>15, <1>16, <1>17, <1>18

\* The conn goes back; it was only this worker's.
LEMMA ConnNewFailsKeepsInv ==
  ASSUME DispatchInv, NEW w \in Worker, ConnNewFails(w)
  PROVE  DispatchInv'
<1> USE DEF DispatchInv, startVars, itemVars, queueVars, workerVars, objVars,
         connVars, ConnNewFails, At
<1> DEFINE c == item_conn[witem[w]]
<1>1. /\ witem[w] \in Item /\ c \in Conn /\ stage[c] = "dispatched" /\ wobj[w] \in Object
  BY DEF TypeOfItems, TypeOfConns, HandsInv, Carried, Carries
<1>2. /\ stage'[c] = "closed" /\ stage' \in [Conn -> Stage]
      /\ \A d \in Conn : d # c => stage'[d] = stage[d]
      /\ wobj' \in [Worker -> Object \cup {None}] /\ wobj'[w] = None
      /\ \A v \in Worker : v # w => wobj'[v] = wobj[v] /\ wpc'[v] = wpc[v]
      /\ wpc'[w] = "free"
      /\ wpc' \in [Worker -> WorkerPlace]
  BY <1>1 DEF TypeOfConns, TypeOfItems, WorkerPlace, Stage
<1>3. /\ freeconn' \in Seq(Object) /\ Len(freeconn') = Len(freeconn) + 1 /\ Len(freeconn) \in Nat
      /\ \A k \in 1..Len(freeconn) : freeconn'[k] = freeconn[k]
      /\ freeconn'[Len(freeconn) + 1] = wobj[w]
  BY <1>1, AppendFacts DEF TypeOfConns
<1>4. /\ cqi_freelist_' = cqi_freelist_ /\ mitem' = mitem /\ allocated' = allocated /\ item_conn' = item_conn
      /\ queue' = queue /\ notify' = notify /\ witem' = witem /\ objects' = objects
      /\ obj_conn' = obj_conn /\ obj' = obj
      /\ UNCHANGED <<mpc, thread_num_, reloads, threads, created, init_count_, last_thread_, accepted>>
      /\ wpc[w] = "conn"
  OBVIOUS
<1>5. Item' = Item /\ Object' = Object
  BY <1>4, ItemIsItem DEF Object
<1>6. ASSUME NEW v \in Worker
      PROVE  /\ wpc'[v] \in {"popped", "conn"} => wpc[v] \in {"popped", "conn"} /\ v # w
             /\ wpc'[v] = "free" => v = w \/ wpc[v] = "free"
             /\ wpc'[v] = "conn" => wpc[v] = "conn" /\ v # w /\ wobj'[v] = wobj[v]
             /\ wpc'[v] = "notified" <=> wpc[v] = "notified"
             /\ wpc'[v] = "none" <=> wpc[v] = "none"
  <2>1. CASE v = w
    BY <1>2, <1>4, <2>1
  <2>2. CASE v # w
    BY <1>2, <2>2
  <2> QED BY <2>1, <2>2
<1>7. \A d \in Conn : stage'[d] \in {"none", "dispatched"} => stage'[d] = stage[d] /\ d # c
  BY <1>1, <1>2
<1> HIDE DEF ConnNewFails, c
<1>8. /\ TypeOfStart' /\ StartInv' /\ FreeOnce' /\ QueuedOnce' /\ HeldOnce'
      /\ FreeApart' /\ QueuedApart' /\ Somewhere'
  BY Frame, <1>4
<1>9. TypeOfItems'
  BY <1>2, <1>4, <1>5 DEF TypeOfItems
<1>10. TypeOfConns'
  BY <1>2, <1>3, <1>4, <1>5 DEF TypeOfConns
<1>11. Uncreated'
  BY <1>4, <1>6 DEF Uncreated
<1>12. NoneStranded'
  BY <1>4, <1>6 DEF NoneStranded, Running
<1>13. HandsInv'
  <2>1. ASSUME NEW v \in Worker
        PROVE  /\ witem[v] # None <=> wpc'[v] \in {"popped", "conn", "free"}
               /\ wobj'[v] # None <=> wpc'[v] = "conn"
    <3>1. CASE v = w
      <4>1. witem[w] # None
        BY <1>1, Facts
      <4> QED BY <1>2, <3>1, <4>1
    <3>2. CASE v # w
      BY <1>2, <3>2 DEF HandsInv
    <3> QED BY <3>1, <3>2
  <2>2. ASSUME NEW d \in Conn PROVE stage'[d] = "none" <=> d > accepted
    <3>1. stage[d] = "none" <=> d > accepted
      BY DEF HandsInv
    <3> QED BY <1>1, <1>2, <3>1
  <2> QED BY <1>4, <2>1, <2>2 DEF HandsInv
<1>14. Carried'
  <2>1. ASSUME NEW v \in Worker, NEW k \in 1..Len(queue[v])
        PROVE  item_conn[queue[v][k]] \in Conn /\ stage'[item_conn[queue[v][k]]] = "dispatched"
    <3>1. item_conn[queue[v][k]] \in Conn /\ stage[item_conn[queue[v][k]]] = "dispatched"
      BY DEF Carried, Carries
    <3>2. item_conn[queue[v][k]] # c
      BY <1>4 DEF CarriedOnce, c
    <3> QED BY <1>2, <3>1, <3>2
  <2>2. ASSUME NEW v \in Worker, wpc'[v] \in {"popped", "conn"}
        PROVE  item_conn[witem[v]] \in Conn /\ stage'[item_conn[witem[v]]] = "dispatched"
    <3>1. wpc[v] \in {"popped", "conn"} /\ v # w
      BY <1>6, <2>2
    <3>2. item_conn[witem[v]] \in Conn /\ stage[item_conn[witem[v]]] = "dispatched"
      BY <3>1 DEF Carried, Carries
    <3>3. item_conn[witem[v]] # c
      BY <1>4, <3>1 DEF CarriedOnce, c
    <3> QED BY <1>2, <3>2, <3>3
  <2>3. ASSUME NEW v \in Worker, wpc'[v] = "free"
        PROVE  /\ item_conn[witem[v]] \in Conn
               /\ stage'[item_conn[witem[v]]] \in {"served", "closed"}
    <3>1. CASE v = w
      BY <1>1, <1>2, <3>1 DEF c
    <3>2. CASE v # w
      <4>1. /\ item_conn[witem[v]] \in Conn
            /\ stage[item_conn[witem[v]]] \in {"served", "closed"}
        BY <1>6, <2>3, <3>2 DEF Carried
      <4> QED BY <1>2, <4>1
    <3> QED BY <3>1, <3>2
  <2> QED BY <1>4, <2>1, <2>2, <2>3 DEF Carried, Carries
<1>15. CarriedOnce'
  BY <1>4, <1>6 DEF CarriedOnce
<1>16. ObjInv'
  <2>1. \A k \in 1..Len(freeconn') : k \in 1..Len(freeconn) \/ k = Len(freeconn) + 1
    BY <1>3
  <2>2. \A k \in 1..Len(freeconn) : freeconn[k] # wobj[w]
    BY <1>4 DEF ObjInv
  <2>3. \A j, k \in 1..Len(freeconn') : freeconn'[j] = freeconn'[k] => j = k
    BY <1>3, <2>1, <2>2 DEF ObjInv
  <2>4. ASSUME NEW v \in Worker, wpc'[v] = "conn"
        PROVE  /\ obj_conn[wobj'[v]] = item_conn[witem[v]]
               /\ \A k \in 1..Len(freeconn') : freeconn'[k] # wobj'[v]
    <3>1. wpc[v] = "conn" /\ v # w /\ wobj'[v] = wobj[v]
      BY <1>6, <2>4
    <3>2. /\ obj_conn[wobj[v]] = item_conn[witem[v]] /\ obj_conn[wobj[w]] = item_conn[witem[w]]
          /\ \A k \in 1..Len(freeconn) : freeconn[k] # wobj[v]
      BY <1>4, <3>1 DEF ObjInv
    <3>3. item_conn[witem[v]] # item_conn[witem[w]]
      BY <1>4, <3>1 DEF CarriedOnce
    <3>4. wobj[v] # wobj[w]
      BY <3>2, <3>3
    <3> QED BY <1>3, <2>1, <3>1, <3>2, <3>4
  <2>5. ASSUME NEW d \in Conn, stage'[d] = "served" PROVE stage[d] = "served"
    BY <1>2, <2>5
  <2> QED BY <1>4, <2>3, <2>4, <2>5 DEF ObjInv
<1>17. ServedAsDispatched'
  <2> SUFFICES ASSUME NEW d \in Conn, stage'[d] = "served"
               PROVE  /\ obj_conn[obj[d]] = d
                      /\ \A k \in 1..Len(freeconn') : freeconn'[k] # obj[d]
    BY <1>4 DEF ServedAsDispatched
  <2>1. d # c /\ stage[d] = "served"
    BY <1>2
  <2>2. obj_conn[obj[d]] = d /\ \A k \in 1..Len(freeconn) : freeconn[k] # obj[d]
    BY <2>1 DEF ServedAsDispatched
  <2>3. obj_conn[wobj[w]] = c
    BY <1>4 DEF ObjInv, c
  <2>4. wobj[w] # obj[d]
    BY <2>1, <2>2, <2>3
  <2>5. \A k \in 1..Len(freeconn') : k \in 1..Len(freeconn) \/ k = Len(freeconn) + 1
    BY <1>3
  <2> QED BY <1>3, <2>2, <2>4, <2>5
<1>18. NoneForgotten'
  <2>1. ASSUME NEW d \in Conn, stage'[d] = "dispatched" PROVE stage[d] = "dispatched"
    BY <1>7, <2>1
  <2> QED BY <1>4, <2>1 DEF NoneForgotten
<1> QED BY <1>8, <1>9, <1>10, <1>11, <1>12, <1>13, <1>14, <1>15, <1>16, <1>17, <1>18

\* The item goes from the worker's hands to the front of the free list.
LEMMA ConnQueueItemFreeKeepsInv ==
  ASSUME DispatchInv, NEW w \in Worker, ConnQueueItemFree(w)
  PROVE  DispatchInv'
<1> USE DEF DispatchInv, startVars, itemVars, queueVars, workerVars, objVars,
         connVars, ConnQueueItemFree, At
<1>1. witem[w] \in Item /\ witem[w] # None /\ wpc[w] = "free" /\ wobj[w] = None
  BY Facts DEF TypeOfItems, HandsInv
<1>2. /\ cqi_freelist_' \in Seq(Item) /\ Len(cqi_freelist_') = Len(cqi_freelist_) + 1 /\ Len(cqi_freelist_) \in Nat
      /\ cqi_freelist_'[1] = witem[w]
      /\ \A k \in 1..Len(cqi_freelist_) : cqi_freelist_'[1 + k] = cqi_freelist_[k]
  <2>1. <<witem[w]>> \in Seq(Item) /\ Len(<<witem[w]>>) = 1 /\ <<witem[w]>>[1] = witem[w] /\ cqi_freelist_ \in Seq(Item)
    BY <1>1 DEF TypeOfItems
  <2>2. cqi_freelist_' = <<witem[w]>> \o cqi_freelist_
    OBVIOUS
  <2> DEFINE l == <<witem[w]>>
  <2> HIDE DEF DispatchInv, ConnQueueItemFree, l
  <2>3. /\ l \o cqi_freelist_ \in Seq(Item) /\ Len(l \o cqi_freelist_) = 1 + Len(cqi_freelist_) /\ Len(cqi_freelist_) \in Nat
        /\ (l \o cqi_freelist_)[1] = witem[w]
        /\ \A k \in 1..Len(cqi_freelist_) : (l \o cqi_freelist_)[1 + k] = cqi_freelist_[k]
    <3>1. l \in Seq(Item) /\ Len(l) = 1 /\ l[1] = witem[w] /\ cqi_freelist_ \in Seq(Item)
      BY <2>1 DEF l
    <3> QED BY <3>1, ConcatFacts
  <2> QED BY <2>2, <2>3 DEF l
<1>3. /\ witem'[w] = None /\ wpc'[w] = "loop"
      /\ \A v \in Worker : v # w => witem'[v] = witem[v] /\ wpc'[v] = wpc[v]
      /\ wpc' \in [Worker -> WorkerPlace]
      /\ witem' \in [Worker -> Item \cup {None}]
  BY DEF TypeOfItems, WorkerPlace
<1>4. /\ mitem' = mitem /\ allocated' = allocated /\ item_conn' = item_conn
      /\ queue' = queue /\ notify' = notify /\ wobj' = wobj /\ stage' = stage /\ obj' = obj
      /\ obj_conn' = obj_conn /\ freeconn' = freeconn /\ objects' = objects
      /\ UNCHANGED <<mpc, thread_num_, reloads, threads, created, init_count_, last_thread_, accepted>>
  OBVIOUS
<1>5. Item' = Item /\ None \notin Item
  BY <1>4, ItemIsItem, Facts
<1>6. \A k \in 1..Len(cqi_freelist_') :
        \/ k = 1 /\ cqi_freelist_'[k] = witem[w]
        \/ k - 1 \in 1..Len(cqi_freelist_) /\ cqi_freelist_'[k] = cqi_freelist_[k - 1]
  <2>1. ASSUME NEW k \in 1..Len(cqi_freelist_'), k # 1
        PROVE  k - 1 \in 1..Len(cqi_freelist_) /\ cqi_freelist_'[k] = cqi_freelist_[k - 1]
    <3>1. k - 1 \in 1..Len(cqi_freelist_) /\ 1 + (k - 1) = k
      BY <1>2, <2>1
    <3> QED BY <1>2, <3>1
  <2> SUFFICES ASSUME NEW k \in 1..Len(cqi_freelist_')
               PROVE  \/ k = 1 /\ cqi_freelist_'[k] = witem[w]
                      \/ k - 1 \in 1..Len(cqi_freelist_) /\ cqi_freelist_'[k] = cqi_freelist_[k - 1]
    OBVIOUS
  <2>2. CASE k = 1
    BY <1>2, <2>2
  <2> QED BY <2>1, <2>2
<1>7. \A k \in 1..Len(cqi_freelist_) : 1 + k \in 1..Len(cqi_freelist_') /\ cqi_freelist_'[1 + k] = cqi_freelist_[k]
  BY <1>2
<1>8. ASSUME NEW v \in Worker
      PROVE  /\ wpc'[v] \in {"popped", "conn", "free"} => wpc'[v] = wpc[v] /\ v # w /\ witem'[v] = witem[v]
             /\ wpc'[v] = "notified" <=> wpc[v] = "notified"
             /\ wpc'[v] = "none" <=> wpc[v] = "none"
             /\ wpc'[v] = "conn" <=> wpc[v] = "conn"
             /\ witem'[v] = None \/ (witem'[v] = witem[v] /\ v # w)
             /\ v # w => witem'[v] = witem[v] /\ wpc'[v] = wpc[v]
  <2>1. CASE v = w
    BY <1>1, <1>3, <2>1
  <2>2. CASE v # w
    BY <1>3, <2>2
  <2> QED BY <2>1, <2>2
<1> HIDE DEF ConnQueueItemFree
<1>9. TypeOfStart' /\ TypeOfConns' /\ StartInv' /\ QueuedOnce' /\ ServedAsDispatched'
  BY Frame, <1>4
<1>10. TypeOfItems'
  BY <1>2, <1>3, <1>4, <1>5 DEF TypeOfItems
<1>11. Uncreated'
  BY <1>4, <1>8 DEF Uncreated
<1>12. NoneStranded'
  BY <1>4, <1>8 DEF NoneStranded, Running
<1>13. HandsInv'
  <2>1. ASSUME NEW v \in Worker
        PROVE  /\ witem'[v] # None <=> wpc'[v] \in {"popped", "conn", "free"}
               /\ wobj[v] # None <=> wpc'[v] = "conn"
    <3>1. CASE v = w
      BY <1>1, <1>3, <3>1
    <3>2. CASE v # w
      BY <1>3, <3>2 DEF HandsInv
    <3> QED BY <3>1, <3>2
  <2> QED BY <1>4, <2>1 DEF HandsInv
<1>14. FreeOnce'
  <2> SUFFICES ASSUME NEW j \in 1..Len(cqi_freelist_'), NEW k \in 1..Len(cqi_freelist_'), cqi_freelist_'[j] = cqi_freelist_'[k]
               PROVE  j = k
    BY DEF FreeOnce
  <2>1. \A i \in 1..Len(cqi_freelist_) : cqi_freelist_[i] # witem[w]
    BY DEF FreeApart
  <2>2. CASE j = 1 \/ k = 1
    BY <1>6, <2>1, <2>2
  <2>3. CASE j # 1 /\ k # 1
    <3>1. j - 1 \in 1..Len(cqi_freelist_) /\ k - 1 \in 1..Len(cqi_freelist_) /\ cqi_freelist_[j - 1] = cqi_freelist_[k - 1]
      BY <1>6, <2>3
    <3>2. j - 1 = k - 1
      BY <3>1 DEF FreeOnce
    <3> QED BY <3>2
  <2> QED BY <2>2, <2>3
<1>15. HeldOnce'
  <2> SUFFICES ASSUME NEW u \in Worker
               PROVE  /\ \A v \in Worker : witem'[u] = witem'[v] /\ u # v => witem'[u] = None
                      /\ witem'[u] = mitem => mitem = None
    BY <1>4 DEF HeldOnce
  <2>1. CASE witem'[u] = None
    BY <2>1
  <2>2. CASE witem'[u] # None
    <3>1. witem'[u] = witem[u]
      BY <1>8, <2>2
    <3>2. \A v \in Worker : witem'[v] = None \/ witem'[v] = witem[v]
      BY <1>8
    <3> QED BY <2>2, <3>1, <3>2 DEF HeldOnce
  <2> QED BY <2>1, <2>2
<1>16. FreeApart'
  <2> SUFFICES ASSUME NEW j \in 1..Len(cqi_freelist_')
               PROVE  /\ cqi_freelist_'[j] # mitem
                      /\ \A v \in Worker : /\ cqi_freelist_'[j] # witem'[v]
                                           /\ \A k \in 1..Len(queue[v]) : cqi_freelist_'[j] # queue[v][k]
    BY <1>4 DEF FreeApart
  <2>1. CASE cqi_freelist_'[j] = witem[w]
    <3>1. witem[w] # mitem
      BY <1>1 DEF HeldOnce
    <3>2. \A v \in Worker : witem'[v] # witem[w]
      BY <1>1, <1>8 DEF HeldOnce
    <3>3. \A v \in Worker : \A k \in 1..Len(queue[v]) : queue[v][k] # witem[w]
      BY DEF QueuedApart
    <3> QED BY <2>1, <3>1, <3>2, <3>3
  <2>2. ASSUME NEW i \in 1..Len(cqi_freelist_), cqi_freelist_'[j] = cqi_freelist_[i]
        PROVE  /\ cqi_freelist_'[j] # mitem
               /\ \A v \in Worker : /\ cqi_freelist_'[j] # witem'[v]
                                    /\ \A k \in 1..Len(queue[v]) : cqi_freelist_'[j] # queue[v][k]
    <3>1. cqi_freelist_[i] # None
      BY <1>5, Facts
    <3>2. \A v \in Worker : witem'[v] = None \/ witem'[v] = witem[v]
      BY <1>8
    <3> QED BY <2>2, <3>1, <3>2 DEF FreeApart
  <2> QED BY <1>6, <2>1, <2>2
<1>17. QueuedApart'
  <2> SUFFICES ASSUME NEW u \in Worker, NEW k \in 1..Len(queue[u])
               PROVE  queue[u][k] # mitem /\ \A v \in Worker : queue[u][k] # witem'[v]
    BY <1>4 DEF QueuedApart
  <2>1. queue[u][k] # None
    BY <1>5, Facts
  <2>2. \A v \in Worker : witem'[v] = None \/ witem'[v] = witem[v]
    BY <1>8
  <2> QED BY <2>1, <2>2 DEF QueuedApart
<1>18. Somewhere'
  <2> SUFFICES ASSUME NEW i \in Item
               PROVE  \/ \E j \in 1..Len(cqi_freelist_') : cqi_freelist_'[j] = i
                      \/ \E v \in Worker : \E k \in 1..Len(queue[v]) : queue[v][k] = i
                      \/ \E v \in Worker : witem'[v] = i
                      \/ mitem = i
    BY <1>4, <1>5 DEF Somewhere
  <2>1. ASSUME NEW j \in 1..Len(cqi_freelist_), cqi_freelist_[j] = i PROVE \E k \in 1..Len(cqi_freelist_') : cqi_freelist_'[k] = i
    BY <1>7, <2>1
  <2>2. ASSUME NEW v \in Worker, witem[v] = i
        PROVE  witem'[v] = i \/ \E k \in 1..Len(cqi_freelist_') : cqi_freelist_'[k] = i
    <3>1. CASE v = w
      <4>1. 1 \in 1..Len(cqi_freelist_') /\ cqi_freelist_'[1] = i
        BY <1>2, <2>2, <3>1
      <4> QED BY <4>1
    <3>2. CASE v # w
      BY <1>8, <2>2, <3>2
    <3> QED BY <3>1, <3>2
  <2> QED BY <2>1, <2>2 DEF Somewhere
<1>19. Carried'
  <2>1. \A v \in Worker : wpc'[v] \in {"popped", "conn", "free"} => wpc'[v] = wpc[v] /\ witem'[v] = witem[v]
    BY <1>8
  <2> QED BY <1>4, <2>1 DEF Carried, Carries
<1>20. CarriedOnce'
  <2>1. \A v \in Worker : wpc'[v] \in {"popped", "conn"} => wpc'[v] = wpc[v] /\ witem'[v] = witem[v]
    BY <1>8
  <2> QED BY <1>4, <2>1 DEF CarriedOnce
<1>21. ObjInv'
  <2>1. \A v \in Worker : wpc'[v] = "conn" => wpc[v] = "conn" /\ witem'[v] = witem[v]
    BY <1>8
  <2> QED BY <1>4, <2>1 DEF ObjInv
<1>22. NoneForgotten'
  <2> SUFFICES ASSUME NEW d \in Conn, stage[d] = "dispatched"
               PROVE  \E v \in Worker : \/ \E k \in 1..Len(queue[v]) : item_conn[queue[v][k]] = d
                                        \/ witem'[v] # None /\ item_conn[witem'[v]] = d
    BY <1>4 DEF NoneForgotten
  <2>1. item_conn[witem[w]] # d
    BY <1>1 DEF Carried
  <2>2. \A v \in Worker : v # w => witem'[v] = witem[v]
    BY <1>8
  <2> QED BY <2>1, <2>2 DEF NoneForgotten
<1> QED BY <1>9, <1>10, <1>11, <1>12, <1>13, <1>14, <1>15, <1>16, <1>17, <1>18,
         <1>19, <1>20, <1>21, <1>22

\* The conn goes back; it was only this connection's.
LEMMA ConnCloseKeepsInv ==
  ASSUME DispatchInv, NEW c \in Conn, ConnClose(c)
  PROVE  DispatchInv'
<1> USE DEF DispatchInv, startVars, itemVars, queueVars, workerVars, objVars,
         connVars, ConnClose, Running
<1>1. obj[c] \in Object
  BY DEF ObjInv, TypeOfConns
<1>2. /\ freeconn' \in Seq(Object) /\ Len(freeconn') = Len(freeconn) + 1 /\ Len(freeconn) \in Nat
      /\ \A k \in 1..Len(freeconn) : freeconn'[k] = freeconn[k]
      /\ freeconn'[Len(freeconn) + 1] = obj[c]
  BY <1>1, AppendFacts DEF TypeOfConns
<1>3. /\ stage'[c] = "closed" /\ stage' \in [Conn -> Stage]
      /\ \A d \in Conn : d # c => stage'[d] = stage[d] /\ obj'[d] = obj[d]
      /\ obj'[c] = None /\ obj' \in [Conn -> Object \cup {None}]
  BY DEF TypeOfConns, Stage
<1>4. /\ cqi_freelist_' = cqi_freelist_ /\ mitem' = mitem /\ allocated' = allocated /\ item_conn' = item_conn
      /\ queue' = queue /\ notify' = notify /\ witem' = witem /\ objects' = objects
      /\ obj_conn' = obj_conn /\ wpc' = wpc /\ wobj' = wobj
      /\ UNCHANGED <<mpc, thread_num_, reloads, threads, created, init_count_, last_thread_, accepted>>
      /\ stage[c] = "served"
  OBVIOUS
<1>5. Object' = Object
  BY <1>4 DEF Object
<1> HIDE DEF ConnClose
<1>6. /\ TypeOfStart' /\ TypeOfItems' /\ StartInv' /\ Uncreated' /\ NoneStranded'
      /\ FreeOnce' /\ QueuedOnce' /\ HeldOnce' /\ FreeApart' /\ QueuedApart'
      /\ Somewhere' /\ CarriedOnce'
  BY Frame, <1>4
<1>7. TypeOfConns'
  BY <1>2, <1>3, <1>4, <1>5 DEF TypeOfConns
<1>8. HandsInv'
  <2>1. ASSUME NEW d \in Conn PROVE stage'[d] = "none" <=> d > accepted
    <3>1. stage[d] = "none" <=> d > accepted
      BY DEF HandsInv
    <3> QED BY <1>3, <1>4, <3>1
  <2> QED BY <1>4, <2>1 DEF HandsInv
<1>9. Carried'
  <2>1. ASSUME NEW i, Carries(i)
        PROVE  item_conn[i] \in Conn /\ stage'[item_conn[i]] = "dispatched"
    BY <1>3, <1>4, <2>1 DEF Carries
  <2>2. ASSUME NEW v \in Worker, wpc[v] = "free"
        PROVE  item_conn[witem[v]] \in Conn /\ stage'[item_conn[witem[v]]] \in {"served", "closed"}
    BY <1>3, <2>2 DEF Carried
  <2> QED BY <1>4, <2>1, <2>2 DEF Carried, Carries
<1>10. ObjInv'
  <2>1. \A k \in 1..Len(freeconn') : k \in 1..Len(freeconn) \/ k = Len(freeconn) + 1
    BY <1>2
  <2>2. \A k \in 1..Len(freeconn) : freeconn[k] # obj[c]
    BY <1>4 DEF ServedAsDispatched
  <2>3. \A j, k \in 1..Len(freeconn') : freeconn'[j] = freeconn'[k] => j = k
    BY <1>2, <2>1, <2>2 DEF ObjInv
  <2>4. ASSUME NEW v \in Worker, wpc[v] = "conn"
        PROVE  /\ obj_conn[wobj[v]] = item_conn[witem[v]]
               /\ \A k \in 1..Len(freeconn') : freeconn'[k] # wobj[v]
    <3>1. /\ obj_conn[wobj[v]] = item_conn[witem[v]] /\ obj_conn[obj[c]] = c
          /\ \A k \in 1..Len(freeconn) : freeconn[k] # wobj[v]
      BY <1>4, <2>4 DEF ObjInv, ServedAsDispatched
    <3>2. stage[item_conn[witem[v]]] = "dispatched"
      BY <2>4 DEF Carried, Carries
    <3>3. wobj[v] # obj[c]
      BY <1>4, <3>1, <3>2
    <3> QED BY <1>2, <2>1, <3>1, <3>3
  <2>5. ASSUME NEW d \in Conn, stage'[d] = "served" PROVE stage[d] = "served" /\ obj'[d] = obj[d]
    BY <1>3, <2>5
  <2> QED BY <1>4, <2>3, <2>4, <2>5 DEF ObjInv
<1>11. ServedAsDispatched'
  <2> SUFFICES ASSUME NEW d \in Conn, stage'[d] = "served"
               PROVE  /\ obj_conn[obj'[d]] = d
                      /\ \A k \in 1..Len(freeconn') : freeconn'[k] # obj'[d]
    BY <1>4 DEF ServedAsDispatched
  <2>1. d # c /\ stage[d] = "served" /\ obj'[d] = obj[d]
    BY <1>3
  <2>2. obj_conn[obj[d]] = d /\ \A k \in 1..Len(freeconn) : freeconn[k] # obj[d]
    BY <2>1 DEF ServedAsDispatched
  <2>3. obj_conn[obj[c]] = c
    BY <1>4 DEF ServedAsDispatched
  <2>4. obj[c] # obj[d]
    BY <2>1, <2>2, <2>3
  <2>5. \A k \in 1..Len(freeconn') : k \in 1..Len(freeconn) \/ k = Len(freeconn) + 1
    BY <1>2
  <2> QED BY <1>2, <2>1, <2>2, <2>4, <2>5
<1>12. NoneForgotten'
  <2>1. ASSUME NEW d \in Conn, stage'[d] = "dispatched" PROVE stage[d] = "dispatched"
    BY <1>3, <2>1
  <2> QED BY <1>4, <2>1 DEF NoneForgotten
<1> QED BY <1>6, <1>7, <1>8, <1>9, <1>10, <1>11, <1>12

-----------------------------------------------------------------------------
(* The theorems.                                                           *)

\* Before the start there is nothing.
LEMMA InitDispatchInv ==
  ASSUME Init
  PROVE  DispatchInv
<1> USE DispatchAssumption DEF Init
<1>1. Item = {} /\ Object = {} /\ -1 \notin Worker /\ None = 0
  BY DEF Item, Object, Worker, None
<1>2. <<>> \in [{} -> Conn \cup {None}] /\ <<>> \in [{} -> Conn] /\ <<>> \in Seq({}) /\ Len(<<>>) = 0
  OBVIOUS
<1>3. \A c \in Conn : c > 0
  BY DEF Conn
<1>4. TypeOfStart
  BY DEF TypeOfStart
<1>5. TypeOfItems
  BY <1>1, <1>2 DEF TypeOfItems, WorkerPlace
<1>6. TypeOfConns
  BY <1>1, <1>2 DEF TypeOfConns, Stage
<1>7. StartInv /\ Uncreated
  BY DEF StartInv, Uncreated
<1>8. NoneStranded
  BY <1>2 DEF NoneStranded, Running
<1>9. HandsInv
  BY <1>1, <1>3 DEF HandsInv
<1>10. FreeOnce /\ QueuedOnce /\ HeldOnce
  BY <1>2 DEF FreeOnce, QueuedOnce, HeldOnce
<1>11. FreeApart /\ QueuedApart /\ Somewhere
  BY <1>1, <1>2 DEF FreeApart, QueuedApart, Somewhere
<1>12. Carried /\ CarriedOnce
  BY <1>2 DEF Carried, CarriedOnce
<1>13. ObjInv /\ ServedAsDispatched /\ NoneForgotten
  BY <1>2 DEF ObjInv, ServedAsDispatched, NoneForgotten
<1> QED BY <1>4, <1>5, <1>6, <1>7, <1>8, <1>9, <1>10, <1>11, <1>12, <1>13 DEF DispatchInv

\* Every step of every thread keeps the invariant.
LEMMA StepKeepsDispatchInv ==
  ASSUME DispatchInv, [Next]_vars
  PROVE  DispatchInv'
<1>1. CASE Reload
  BY <1>1, ReloadKeepsInv
<1>2. CASE InitRemoteListenSocket
  BY <1>2, InitRemoteListenSocketKeepsInv
<1>3. CASE StartFails
  BY <1>3, StartFailsKeepsInv
<1>4. CASE SetupThread
  BY <1>4, SetupThreadKeepsInv
<1>5. CASE CreateWorker
  BY <1>5, CreateWorkerKeepsInv
<1>6. CASE WaitForThreadRegistration
  BY <1>6, WaitForThreadRegistrationKeepsInv
<1>7. CASE SpuriousWakeup
  BY <1>7, SpuriousWakeupKeepsInv
<1>8. ASSUME NEW w \in Worker, RegisterThreadInitialized(w) PROVE DispatchInv'
  BY <1>8, RegisterThreadInitializedKeepsInv
<1>9. CASE SetupAppServerTransport
  BY <1>9, SetupAppServerTransportKeepsInv
<1>10. CASE ItemFromFreelist
  BY <1>10, ItemFromFreelistKeepsInv
<1>11. CASE FreelistEmpty
  BY <1>11, FreelistEmptyKeepsInv
<1>12. CASE AllocItems
  BY <1>12, AllocItemsKeepsInv
<1>13. CASE NextThreadMissing
  BY <1>13, NextThreadMissingKeepsInv
<1>14. CASE ConnQueuePush
  BY <1>14, ConnQueuePushKeepsInv
<1>15. CASE NotifyWorker
  BY <1>15, NotifyWorkerKeepsInv
<1>16. ASSUME NEW w \in Worker, ReadNotify(w) PROVE DispatchInv'
  BY <1>16, ReadNotifyKeepsInv
<1>17. ASSUME NEW w \in Worker, ConnQueuePop(w) PROVE DispatchInv'
  BY <1>17, ConnQueuePopKeepsInv
<1>18. ASSUME NEW w \in Worker, ConnNew(w) PROVE DispatchInv'
  BY <1>18, ConnNewKeepsInv
<1>19. ASSUME NEW w \in Worker, ServesConn(w) PROVE DispatchInv'
  BY <1>19, ServesConnKeepsInv
<1>20. ASSUME NEW w \in Worker, ConnNewFails(w) PROVE DispatchInv'
  BY <1>20, ConnNewFailsKeepsInv
<1>21. ASSUME NEW w \in Worker, ConnQueueItemFree(w) PROVE DispatchInv'
  BY <1>21, ConnQueueItemFreeKeepsInv
<1>22. ASSUME NEW c \in Conn, ConnClose(c) PROVE DispatchInv'
  BY <1>22, ConnCloseKeepsInv
<1>23. CASE ReloadFails
  BY <1>23, ReloadFailsKeepsInv
<1>24. CASE UNCHANGED vars
  BY <1>24, Frame DEF vars, startVars, itemVars, queueVars, workerVars, objVars, connVars, DispatchInv
<1> QED BY <1>1, <1>2, <1>3, <1>4, <1>5, <1>6, <1>7, <1>8, <1>9, <1>10, <1>11,
           <1>12, <1>13, <1>14, <1>15, <1>16, <1>17, <1>18, <1>19, <1>20, <1>21,
           <1>22, <1>23, <1>24
  DEF Next, Start, Dispatch, Process

\* All of the above holds in every state of every behaviour.
THEOREM DispatchInvariant == Spec => []DispatchInv
<1>1. Init => DispatchInv
  BY InitDispatchInv
<1>2. DispatchInv /\ [Next]_vars => DispatchInv'
  BY StepKeepsDispatchInv
<1> QED BY <1>1, <1>2, PTL DEF Spec

\* The variables of the threads have their types.
THEOREM DispatchTypeCorrect == Spec => []TypeOK
<1>1. DispatchInv => TypeOK
  BY DEF DispatchInv, TypeOfStart, TypeOfItems, TypeOfConns, WorkerPlace, Stage, TypeOK
<1> QED BY <1>1, DispatchInvariant, PTL

\* As many bytes as items: no connection waits on a queue that its worker
\* has no reason to look at, and no worker finds its queue empty.
THEOREM NoConnIsStranded == Spec => []NoneStranded
<1>1. DispatchInv => NoneStranded
  BY DEF DispatchInv
<1> QED BY <1>1, DispatchInvariant, PTL

\* An item is in one list, or in one thread's hands, and never lost: the
\* links of the lists, which run through the items, are never mixed up.
THEOREM ItemsAreInOnePlace == Spec => []OnePlace
<1>1. ASSUME DispatchInv, NEW i \in Item
      PROVE  \E p \in Places(i) : Places(i) = {p}
  <2> USE <1>1 DEF DispatchInv
  <2>1. /\ \A p \in InFreelist(i) : \E k \in 1..Len(cqi_freelist_) : cqi_freelist_[k] = i /\ p = <<"free", 0, k>>
        /\ \A k \in 1..Len(cqi_freelist_) : cqi_freelist_[k] = i => <<"free", 0, k>> \in InFreelist(i)
    BY DEF InFreelist
  <2>2. /\ \A w \in Worker : \A p \in InQueue(w, i) :
             \E k \in 1..Len(queue[w]) : queue[w][k] = i /\ p = <<"queue", w, k>>
        /\ \A w \in Worker : \A k \in 1..Len(queue[w]) : queue[w][k] = i => <<"queue", w, k>> \in InQueue(w, i)
    BY DEF InQueue
  <2>3. /\ \A p \in WithWorker(i) : \E w \in Worker : witem[w] = i /\ p = <<"worker", w, 0>>
        /\ \A w \in Worker : witem[w] = i => <<"worker", w, 0>> \in WithWorker(i)
    BY DEF WithWorker
  <2>4. /\ \A p \in WithMaster(i) : mitem = i /\ p = <<"master", 0, 0>>
        /\ mitem = i => <<"master", 0, 0>> \in WithMaster(i)
    BY DEF WithMaster
  <2>5. /\ \A p \in InQueues(i) : \E w \in Worker : p \in InQueue(w, i)
        /\ \A w \in Worker : InQueue(w, i) \subseteq InQueues(i)
    BY DEF InQueues
  <2>6. ASSUME NEW p \in Places(i)
        PROVE  \/ \E k \in 1..Len(cqi_freelist_) : cqi_freelist_[k] = i /\ p = <<"free", 0, k>>
               \/ \E w \in Worker : \E k \in 1..Len(queue[w]) : queue[w][k] = i /\ p = <<"queue", w, k>>
               \/ \E w \in Worker : witem[w] = i /\ p = <<"worker", w, 0>>
               \/ mitem = i /\ p = <<"master", 0, 0>>
    <3> HIDE DEF DispatchInv
    <3>1. CASE p \in InQueues(i)
      BY <2>2, <2>5, <3>1
    <3>2. CASE p \in InFreelist(i)
      BY <2>1, <3>2
    <3>3. CASE p \in WithWorker(i)
      BY <2>3, <3>3
    <3>4. CASE p \in WithMaster(i)
      BY <2>4, <3>4
    <3> QED BY <3>1, <3>2, <3>3, <3>4 DEF Places
  <2>7. /\ \A k \in 1..Len(cqi_freelist_) : cqi_freelist_[k] = i => <<"free", 0, k>> \in Places(i)
        /\ \A w \in Worker : \A k \in 1..Len(queue[w]) :
             queue[w][k] = i => <<"queue", w, k>> \in Places(i)
        /\ \A w \in Worker : witem[w] = i => <<"worker", w, 0>> \in Places(i)
        /\ mitem = i => <<"master", 0, 0>> \in Places(i)
    <3> HIDE DEF DispatchInv
    <3> QED BY <2>1, <2>2, <2>3, <2>4, <2>5 DEF Places
  <2>8. PICK p \in Places(i) : TRUE
    BY <2>7 DEF Somewhere
  <2>9. i # None
    BY Facts
  <2>10. ASSUME NEW q \in Places(i) PROVE q = p
    <3>1. ASSUME NEW k \in 1..Len(cqi_freelist_), cqi_freelist_[k] = i
          PROVE  /\ mitem # i
                 /\ \A w \in Worker : witem[w] # i /\ \A j \in 1..Len(queue[w]) : queue[w][j] # i
                 /\ \A j \in 1..Len(cqi_freelist_) : cqi_freelist_[j] = i => j = k
      BY <3>1 DEF FreeApart, FreeOnce
    <3>2. ASSUME NEW w \in Worker, NEW k \in 1..Len(queue[w]), queue[w][k] = i
          PROVE  /\ mitem # i
                 /\ \A v \in Worker : witem[v] # i
                 /\ \A v \in Worker : \A j \in 1..Len(queue[v]) : queue[v][j] = i => v = w /\ j = k
      <4>1. queue[w][k] # mitem /\ \A v \in Worker : queue[w][k] # witem[v]
        BY DEF QueuedApart
      <4>2. ASSUME NEW v \in Worker, NEW j \in 1..Len(queue[v]), queue[v][j] = i
            PROVE  v = w /\ j = k
        <5>1. queue[v][j] = queue[w][k]
          BY <3>2, <4>2
        <5> QED BY <5>1 DEF QueuedOnce
      <4> QED BY <3>2, <4>1, <4>2
    <3>3. ASSUME NEW w \in Worker, witem[w] = i
          PROVE  mitem # i /\ \A v \in Worker : witem[v] = i => v = w
      BY <2>9, <3>3 DEF HeldOnce
    <3> QED BY <2>6, <3>1, <3>2, <3>3
  <2> QED BY <2>8, <2>10
<1>2. DispatchInv => OnePlace
  BY <1>1 DEF OnePlace
<1> QED BY <1>2, DispatchInvariant, PTL

\* A connection is served through a conn of its own that holds what was
\* accepted, though threads take items and conns from shared lists and put
\* them back in any order.
THEOREM ConnsAreServedAsDispatched == Spec => []ServedAsDispatched
<1>1. DispatchInv => ServedAsDispatched
  BY DEF DispatchInv
<1> QED BY <1>1, DispatchInvariant, PTL

\* A connection that was dispatched stays in an item that is on its way.
THEOREM NoConnIsForgotten == Spec => []NoneForgotten
<1>1. DispatchInv => NoneForgotten
  BY DEF DispatchInv
<1> QED BY <1>1, DispatchInvariant, PTL

\* Whatever the number of threads, if it is not 0: without a reload no thread
\* is indexed that was not set up.
THEOREM CrashesAreFromReloads == Spec => []CrashNeedsReload
<1>1. DispatchInv => CrashNeedsReload
  BY DEF DispatchInv, TypeOfStart, StartInv, CrashNeedsReload
<1> QED BY <1>1, DispatchInvariant, PTL

-----------------------------------------------------------------------------
(* The abstract specification.                                             *)

\* Only a connection that is served has a conn.
UsedIsServed == \A c \in Conn : stage[c] # "served" => obj[c] = None

LEMMA StepKeepsUsedIsServed ==
  ASSUME DispatchInv, UsedIsServed, [Next]_vars
  PROVE  UsedIsServed'
<1> USE DEF UsedIsServed
<1>1. /\ stage \in [Conn -> Stage] /\ obj \in [Conn -> Object \cup {None}]
      /\ accepted \in Nat /\ \A c \in Conn : stage[c] = "none" <=> c > accepted
  BY DispatchAssumption DEF DispatchInv, TypeOfConns, Carried, HandsInv
<1>2. CASE ConnQueuePush
  <2>1. /\ stage' = [stage EXCEPT ![accepted + 1] = "dispatched"] /\ obj' = obj
        /\ stage[accepted + 1] = "none" \/ accepted + 1 \notin Conn
    BY <1>1, <1>2 DEF ConnQueuePush, Conn
  <2> QED BY <1>1, <2>1
<1>3. ASSUME NEW w \in Worker, ServesConn(w) PROVE UsedIsServed'
  <2>1. /\ stage' = [stage EXCEPT ![item_conn[witem[w]]] = "served"]
        /\ obj' = [obj EXCEPT ![item_conn[witem[w]]] = wobj[w]]
    BY <1>3 DEF ServesConn
  <2> QED BY <1>1, <2>1
<1>4. ASSUME NEW w \in Worker, ConnNewFails(w) PROVE UsedIsServed'
  <2>1. Carries(witem[w])
    BY <1>4 DEF DispatchInv, Carried, ConnNewFails, At
  <2>2. stage' = [stage EXCEPT ![item_conn[witem[w]]] = "closed"] /\ obj' = obj
    BY <1>4 DEF ConnNewFails
  <2> QED BY <1>1, <2>1, <2>2 DEF Carries
<1>5. ASSUME NEW c \in Conn, ConnClose(c) PROVE UsedIsServed'
  BY <1>1, <1>5 DEF ConnClose
<1>6. CASE UNCHANGED <<stage, obj>>
  BY <1>6
<1>7. ASSUME ~UNCHANGED <<stage, obj>>
      PROVE  \/ ConnQueuePush \/ \E w \in Worker : ServesConn(w) \/ ConnNewFails(w)
             \/ \E c \in Conn : ConnClose(c)
  BY <1>7 DEF Next, Start, Dispatch, Process, Reload, ReloadFails, InitRemoteListenSocket, StartFails,
              SetupThread, CreateWorker, WaitForThreadRegistration, SpuriousWakeup,
              RegisterThreadInitialized, SetupAppServerTransport, ItemFromFreelist,
              FreelistEmpty, AllocItems, NextThreadMissing, NotifyWorker, ReadNotify,
              ConnQueuePop, ConnNew, ConnQueueItemFree, vars, connVars
<1> QED BY <1>2, <1>3, <1>4, <1>5, <1>6, <1>7

\* Most steps do not show: the queues hold the same connections and the
\* workers have the same in their hands.
LEMMA HandoverStutters ==
  ASSUME UNCHANGED <<queue, accepted, obj, stage>>,
         \A w \in Worker : \A k \in 1..Len(queue[w]) : item_conn'[queue[w][k]] = item_conn[queue[w][k]],
         \A w \in Worker : \/ wpc[w] \notin {"popped", "conn"} /\ wpc'[w] \notin {"popped", "conn"}
                           \/ /\ wpc[w] \in {"popped", "conn"} /\ wpc'[w] \in {"popped", "conn"}
                              /\ item_conn'[witem'[w]] = item_conn[witem[w]]
  PROVE  UNCHANGED HO!vars
<1>1. QueuedConns' = QueuedConns
  BY DEF QueuedConns
<1>2. ConnInHand' = ConnInHand
  BY DEF ConnInHand
<1>3. ClosedConns' = ClosedConns
  BY DEF ClosedConns
<1> QED BY <1>1, <1>2, <1>3 DEF HO!vars

\* ConnQueuePush implements Accept: no item on its way is overwritten.
LEMMA PushRefines ==
  ASSUME DispatchInv, ConnQueuePush
  PROVE  HO!Accept(NextThread) /\ NextThread \in Worker
<1> DEFINE n == NextThread
           c == accepted + 1
<1>1. /\ TypeOfStart /\ TypeOfItems /\ TypeOfConns /\ HandsInv /\ QueuedApart /\ HeldOnce
  BY DEF DispatchInv
<1>2. /\ item_conn' = [item_conn EXCEPT ![mitem] = c]
      /\ queue' = [queue EXCEPT ![n] = Append(queue[n], mitem)]
      /\ accepted' = c /\ stage' = [stage EXCEPT ![c] = "dispatched"]
      /\ UNCHANGED <<wpc, witem, obj>> /\ mpc = "push" /\ thread_num_ # 0
  BY DEF ConnQueuePush, Pushed, workerVars
<1>3. n \in Worker
  BY <1>1, <1>2, PickedWorker
<1>4. mitem \in Item /\ mitem # None /\ c \in Conn /\ accepted \in Nat
  <2>1. accepted \in Nat /\ accepted < MaxConns
    BY <1>1, <1>2, DispatchAssumption DEF HandsInv, TypeOfConns
  <2>2. c \in Conn
    BY <2>1, DispatchAssumption DEF Conn
  <2>3. mitem # None /\ mitem \in Item
    BY <1>1, <1>2 DEF HandsInv, TypeOfItems
  <2> QED BY <2>1, <2>2, <2>3
<1> HIDE DEF n, c
<1>5. /\ \A w \in Worker : \A k \in 1..Len(queue[w]) : queue[w][k] \in Item /\ queue[w][k] # mitem
      /\ \A w \in Worker : queue[w] \in Seq(Item) /\ Len(queue[w]) \in Nat
  <2>1. \A w \in Worker : queue[w] \in Seq(Item)
    BY <1>1 DEF TypeOfItems
  <2> QED BY <1>1, <2>1, Facts DEF QueuedApart
<1>6. /\ item_conn'[mitem] = c
      /\ \A i \in Item : i # mitem => item_conn'[i] = item_conn[i]
  BY <1>1, <1>2, <1>4 DEF TypeOfItems
<1>7. QueuedConns' = [QueuedConns EXCEPT ![n] = Append(@, c)]
  <2>1. ASSUME NEW w \in Worker, w # n PROVE QueuedConns'[w] = QueuedConns[w]
    <3>1. queue'[w] = queue[w]
      BY <1>1, <1>2, <1>3, <2>1 DEF TypeOfItems
    <3> QED BY <1>5, <1>6, <3>1 DEF QueuedConns
  <2>2. QueuedConns'[n] = Append(QueuedConns[n], c)
    <3> DEFINE q == queue[n]
    <3>1. queue'[n] = Append(q, mitem)
      BY <1>1, <1>2, <1>3 DEF TypeOfItems
    <3>2. /\ Append(q, mitem) \in Seq(Item) /\ Len(Append(q, mitem)) = Len(q) + 1 /\ Len(q) \in Nat
          /\ \A k \in 1..Len(q) : Append(q, mitem)[k] = q[k]
          /\ Append(q, mitem)[Len(q) + 1] = mitem
      BY <1>3, <1>4, <1>5, AppendFacts
    <3> HIDE DEF q
    <3>3. QueuedConns'[n] = [k \in 1..(Len(q) + 1) |-> item_conn'[Append(q, mitem)[k]]]
      BY <1>3, <3>1, <3>2 DEF QueuedConns
    <3>4. \A k \in 1..(Len(q) + 1) : k \in 1..Len(q) \/ k = Len(q) + 1
      BY <3>2
    <3>5. QueuedConns[n] = [k \in 1..Len(q) |-> item_conn[q[k]]]
      BY <1>3 DEF QueuedConns, q
    <3>6. \A k \in 1..Len(q) : item_conn'[Append(q, mitem)[k]] = item_conn[q[k]]
      BY <1>3, <1>5, <1>6, <3>2 DEF q
    <3>7. item_conn'[Append(q, mitem)[Len(q) + 1]] = c
      BY <1>6, <3>2
    <3>8. Append([k \in 1..Len(q) |-> item_conn[q[k]]], c)
            = [k \in 1..(Len(q) + 1) |-> IF k = Len(q) + 1 THEN c ELSE item_conn[q[k]]]
      BY <3>2
    <3>9. \A k \in 1..(Len(q) + 1) :
            item_conn'[Append(q, mitem)[k]] = IF k = Len(q) + 1 THEN c ELSE item_conn[q[k]]
      BY <3>2, <3>4, <3>6, <3>7
    <3> QED BY <3>3, <3>5, <3>8, <3>9
  <2>3. QueuedConns' = [w \in Worker |-> QueuedConns'[w]] /\ QueuedConns = [w \in Worker |-> QueuedConns[w]]
    BY DEF QueuedConns
  <2> HIDE DEF QueuedConns
  <2> QED BY <1>3, <2>1, <2>2, <2>3
<1>8. ConnInHand' = ConnInHand
  <2>1. ASSUME NEW w \in Worker, wpc[w] \in {"popped", "conn"}
        PROVE  item_conn'[witem[w]] = item_conn[witem[w]]
    <3>1. witem[w] # None /\ witem[w] \in Item /\ witem[w] # mitem
      BY <1>1, <1>4, <2>1 DEF HandsInv, TypeOfItems, HeldOnce
    <3> QED BY <1>6, <3>1
  <2> QED BY <1>2, <2>1 DEF ConnInHand
<1>9. ClosedConns' = ClosedConns
  <2>1. stage[c] # "closed" /\ stage'[c] # "closed"
    <3>1. stage[c] = "none"
      BY <1>1, <1>4 DEF HandsInv, c
    <3> QED BY <1>1, <1>2, <1>4, <3>1 DEF TypeOfConns
  <2>2. \A d \in Conn : d # c => stage'[d] = stage[d]
    BY <1>1, <1>2 DEF TypeOfConns
  <2> QED BY <2>1, <2>2 DEF ClosedConns
<1> QED BY <1>2, <1>3, <1>4, <1>7, <1>8, <1>9 DEF HO!Accept, n, c

\* ConnQueuePop implements Take.
LEMMA PopRefines ==
  ASSUME DispatchInv, NEW w \in Worker, ConnQueuePop(w)
  PROVE  HO!Take(w)
<1> DEFINE q == queue[w]
<1>1. TypeOfStart /\ TypeOfItems /\ TypeOfConns /\ HandsInv
  BY DEF DispatchInv
<1>2. /\ wpc[w] = "notified" /\ q # <<>>
      /\ witem' = [witem EXCEPT ![w] = Head(q)]
      /\ queue' = [queue EXCEPT ![w] = Tail(q)]
      /\ wpc' = [wpc EXCEPT ![w] = "popped"]
      /\ UNCHANGED <<item_conn, accepted, stage, obj>>
  BY DEF ConnQueuePop, At, itemVars, connVars
<1>3. /\ Tail(q) \in Seq(Item) /\ Len(Tail(q)) = Len(q) - 1 /\ Len(q) \in Nat \ {0}
      /\ \A k \in 1..Len(Tail(q)) : k + 1 \in 1..Len(q) /\ Tail(q)[k] = q[k + 1]
      /\ Head(q) = q[1] /\ q[1] \in Item
  <2>1. q \in Seq(Item)
    BY <1>1 DEF TypeOfItems
  <2> QED BY <1>2, <2>1, TailFacts
<1>4. /\ queue'[w] = Tail(q) /\ wpc'[w] = "popped" /\ witem'[w] = q[1]
      /\ \A v \in Worker : v # w => queue'[v] = queue[v] /\ wpc'[v] = wpc[v] /\ witem'[v] = witem[v]
  BY <1>1, <1>2, <1>3 DEF TypeOfItems
<1> HIDE DEF q
<1>5. QueuedConns[w] = [k \in 1..Len(q) |-> item_conn[q[k]]]
  BY DEF QueuedConns, q
<1>6. QueuedConns[w] # <<>> /\ Head(QueuedConns[w]) = item_conn[q[1]]
  BY <1>3, <1>5
<1>7. ConnInHand[w] = None
  BY <1>2 DEF ConnInHand
<1>8. ConnInHand' = [ConnInHand EXCEPT ![w] = Head(QueuedConns[w])]
  <2>1. ConnInHand'[w] = item_conn[q[1]]
    BY <1>2, <1>4 DEF ConnInHand
  <2>2. \A v \in Worker : v # w => ConnInHand'[v] = ConnInHand[v]
    BY <1>2, <1>4 DEF ConnInHand
  <2>3. ConnInHand' = [v \in Worker |-> ConnInHand'[v]] /\ ConnInHand = [v \in Worker |-> ConnInHand[v]]
    BY DEF ConnInHand
  <2> HIDE DEF ConnInHand
  <2> QED BY <1>6, <2>1, <2>2, <2>3
<1>9. QueuedConns' = [QueuedConns EXCEPT ![w] = Tail(@)]
  <2>1. QueuedConns'[w] = [k \in 1..(Len(q) - 1) |-> item_conn[q[k + 1]]]
    <3>1. QueuedConns'[w] = [k \in 1..Len(Tail(q)) |-> item_conn'[Tail(q)[k]]]
      BY <1>4 DEF QueuedConns
    <3> QED BY <1>2, <1>3, <3>1
  <2>2. QueuedConns'[w] = Tail(QueuedConns[w])
    <3>1. Tail([k \in 1..Len(q) |-> item_conn[q[k]]]) = [k \in 1..(Len(q) - 1) |-> item_conn[q[k + 1]]]
      BY <1>3
    <3> QED BY <1>5, <2>1, <3>1
  <2>3. \A v \in Worker : v # w => QueuedConns'[v] = QueuedConns[v]
    BY <1>2, <1>4 DEF QueuedConns
  <2>4. QueuedConns' = [v \in Worker |-> QueuedConns'[v]] /\ QueuedConns = [v \in Worker |-> QueuedConns[v]]
    BY DEF QueuedConns
  <2> HIDE DEF QueuedConns
  <2> QED BY <2>2, <2>3, <2>4
<1>10. ClosedConns' = ClosedConns
  BY <1>2 DEF ClosedConns
<1> QED BY <1>2, <1>6, <1>7, <1>8, <1>9, <1>10 DEF HO!Take

\* What a worker has in its hands waits for it, and no other worker has it.
LEMMA InHand ==
  ASSUME DispatchInv, UsedIsServed, NEW w \in Worker, At(w, "conn")
  PROVE  /\ ConnInHand[w] = item_conn[witem[w]] /\ item_conn[witem[w]] \in Conn
         /\ ConnInHand[w] # None /\ stage[ConnInHand[w]] = "dispatched"
         /\ obj[ConnInHand[w]] = None /\ ConnInHand[w] \notin ClosedConns
<1>1. Carries(witem[w])
  BY DEF DispatchInv, Carried, At
<1>2. TypeOfStart /\ TypeOfItems /\ TypeOfConns
  BY DEF DispatchInv
<1> QED BY <1>1, <1>2, Facts DEF Carries, ConnInHand, UsedIsServed, ClosedConns, At

\* A worker that lets its connection go has none, and the others keep theirs.
LEMMA HandEmptied ==
  ASSUME DispatchInv, NEW w \in Worker, wpc' = [wpc EXCEPT ![w] = "free"],
         UNCHANGED <<witem, item_conn, queue>>
  PROVE  /\ ConnInHand' = [ConnInHand EXCEPT ![w] = None]
         /\ QueuedConns' = QueuedConns
<1>1. wpc'[w] = "free" /\ \A v \in Worker : v # w => wpc'[v] = wpc[v]
  BY DEF DispatchInv, TypeOfItems
<1>2. ConnInHand'[w] = None /\ \A v \in Worker : v # w => ConnInHand'[v] = ConnInHand[v]
  BY <1>1 DEF ConnInHand
<1>3. ConnInHand' = [v \in Worker |-> ConnInHand'[v]] /\ ConnInHand = [v \in Worker |-> ConnInHand[v]]
  BY DEF ConnInHand
<1>4. ConnInHand' = [ConnInHand EXCEPT ![w] = None]
  <2> HIDE DEF ConnInHand
  <2> QED BY <1>2, <1>3
<1> QED BY <1>4 DEF QueuedConns

\* ServesConn implements Serve: the conn is nobody else's.
LEMMA ServeRefines ==
  ASSUME DispatchInv, UsedIsServed, NEW w \in Worker, ServesConn(w)
  PROVE  HO!Serve(w)
<1> DEFINE c == item_conn[witem[w]]
<1>1. /\ At(w, "conn") /\ stage' = [stage EXCEPT ![c] = "served"]
      /\ obj' = [obj EXCEPT ![c] = wobj[w]] /\ wpc' = [wpc EXCEPT ![w] = "free"]
      /\ UNCHANGED <<witem, item_conn, queue, accepted>>
  BY DEF ServesConn, itemVars, queueVars
<1>2. TypeOfStart /\ TypeOfItems /\ TypeOfConns /\ HandsInv /\ ObjInv /\ ServedAsDispatched
  BY DEF DispatchInv
<1>3. /\ ConnInHand[w] = c /\ c \in Conn /\ c # None /\ obj[c] = None
      /\ c \notin ClosedConns
  BY <1>1, InHand
<1>4. wobj[w] # None /\ obj_conn[wobj[w]] = c
  BY <1>1, <1>2 DEF HandsInv, ObjInv, At
<1> HIDE DEF c
<1>5. obj'[c] = wobj[w] /\ obj' = [obj EXCEPT ![c] = obj'[c]]
  BY <1>1, <1>2, <1>3 DEF TypeOfConns
<1>6. \A d \in Conn \ {c} : obj[d] # wobj[w]
  <2> SUFFICES ASSUME NEW d \in Conn, d # c, obj[d] = wobj[w] PROVE FALSE
    OBVIOUS
  <2>1. stage[d] = "served"
    BY <1>4 DEF UsedIsServed
  <2>2. obj_conn[obj[d]] = d
    BY <1>2, <2>1 DEF ServedAsDispatched
  <2> QED BY <1>4, <2>2
<1>7. ConnInHand' = [ConnInHand EXCEPT ![w] = None] /\ QueuedConns' = QueuedConns
  BY <1>1, HandEmptied
<1>8. ClosedConns' = ClosedConns
  BY <1>1, <1>2, <1>3 DEF ClosedConns, TypeOfConns
<1> QED BY <1>1, <1>3, <1>4, <1>5, <1>6, <1>7, <1>8 DEF HO!Serve

\* ConnNewFails implements GiveUp, conn_close implements Close.
LEMMA GiveUpRefines ==
  ASSUME DispatchInv, UsedIsServed, NEW w \in Worker, ConnNewFails(w)
  PROVE  HO!GiveUp(w)
<1> DEFINE c == item_conn[witem[w]]
<1>1. /\ At(w, "conn") /\ stage' = [stage EXCEPT ![c] = "closed"]
      /\ wpc' = [wpc EXCEPT ![w] = "free"]
      /\ UNCHANGED <<witem, item_conn, queue, accepted, obj>>
  BY DEF ConnNewFails, itemVars, queueVars
<1>2. /\ ConnInHand[w] = c /\ c \in Conn /\ c # None /\ obj[c] = None
      /\ c \notin ClosedConns
  BY <1>1, InHand
<1> HIDE DEF c
<1>3. ClosedConns' = ClosedConns \cup {c}
  BY <1>1, <1>2 DEF ClosedConns, DispatchInv, TypeOfConns
<1>4. ConnInHand' = [ConnInHand EXCEPT ![w] = None] /\ QueuedConns' = QueuedConns
  BY <1>1, HandEmptied
<1> QED BY <1>1, <1>2, <1>3, <1>4 DEF HO!GiveUp

LEMMA CloseRefines ==
  ASSUME DispatchInv, NEW c \in Conn, ConnClose(c)
  PROVE  HO!Close(c)
<1>1. /\ stage[c] = "served" /\ stage' = [stage EXCEPT ![c] = "closed"]
      /\ obj' = [obj EXCEPT ![c] = None]
      /\ UNCHANGED <<wpc, witem, item_conn, queue, accepted>>
  BY DEF ConnClose, itemVars, queueVars, workerVars
<1>2. obj[c] # None
  BY <1>1 DEF DispatchInv, ObjInv
<1>3. ClosedConns' = ClosedConns \cup {c}
  BY <1>1 DEF ClosedConns, DispatchInv, TypeOfConns
<1>4. ConnInHand' = ConnInHand /\ QueuedConns' = QueuedConns
  BY <1>1 DEF ConnInHand, QueuedConns
<1> QED BY <1>1, <1>2, <1>3, <1>4 DEF HO!Close

\* The rest of the gateway's steps do not show.
LEMMA AllocRefines ==
  ASSUME DispatchInv, AllocItems
  PROVE  UNCHANGED HO!vars
<1>1. TypeOfStart /\ TypeOfItems /\ TypeOfConns /\ HandsInv
  BY DEF DispatchInv
<1>2. /\ item_conn' = [i \in 1..allocated' |-> IF i <= allocated THEN item_conn[i] ELSE None]
      /\ allocated' = allocated + ItemsPerAlloc
      /\ UNCHANGED <<queue, wpc, witem, accepted, obj, stage>>
  BY DEF AllocItems, queueVars, workerVars, connVars
<1>3. \A i \in Item : item_conn'[i] = item_conn[i]
  <2>1. allocated \in Nat /\ ItemsPerAlloc \in Nat
    BY <1>1, DispatchAssumption DEF TypeOfItems
  <2>2. \A i \in Item : i \in 1..allocated' /\ i <= allocated
    BY <1>2, <2>1 DEF Item
  <2> QED BY <1>2, <2>2
<1>4. \A w \in Worker : wpc[w] \in {"popped", "conn"} => witem[w] \in Item
  BY <1>1 DEF HandsInv, TypeOfItems
<1>5. \A w \in Worker : \A k \in 1..Len(queue[w]) : item_conn'[queue[w][k]] = item_conn[queue[w][k]]
  BY <1>1, <1>3, Facts
<1> QED BY <1>2, <1>3, <1>4, <1>5, HandoverStutters

LEMMA OthersRefine ==
  ASSUME DispatchInv,
         \/ Reload \/ ReloadFails \/ Start \/ StartFails \/ SpuriousWakeup
         \/ ItemFromFreelist \/ FreelistEmpty \/ NextThreadMissing \/ NotifyWorker
         \/ \E w \in Worker : \/ RegisterThreadInitialized(w) \/ ReadNotify(w)
                              \/ ConnNew(w) \/ ConnQueueItemFree(w)
         \/ UNCHANGED vars
  PROVE  UNCHANGED HO!vars
<1>1. wpc \in [Worker -> WorkerPlace] /\ witem \in [Worker -> Item \cup {None}]
      /\ \A w \in Worker : w >= created => wpc[w] = "none"
      /\ created \in Nat
  BY DispatchAssumption DEF DispatchInv, TypeOfItems, TypeOfStart, Uncreated
<1>2. CASE \/ Reload \/ ReloadFails \/ InitRemoteListenSocket \/ SetupThread
           \/ WaitForThreadRegistration
           \/ SetupAppServerTransport \/ StartFails \/ SpuriousWakeup
           \/ ItemFromFreelist \/ FreelistEmpty \/ NextThreadMissing \/ NotifyWorker
           \/ UNCHANGED vars
  <2>1. UNCHANGED <<queue, item_conn, wpc, witem, accepted, obj, stage>>
    BY <1>2 DEF Reload, ReloadFails, InitRemoteListenSocket, SetupThread, WaitForThreadRegistration,
                SetupAppServerTransport, StartFails, SpuriousWakeup, ItemFromFreelist,
                FreelistEmpty, NextThreadMissing, NotifyWorker,
                vars, itemVars, queueVars, workerVars, connVars
  <2> QED BY <2>1, HandoverStutters
<1>3. CASE CreateWorker
  <2>1. UNCHANGED <<queue, item_conn, witem, accepted, obj, stage>>
    BY <1>3 DEF CreateWorker, itemVars, queueVars, connVars
  <2>2. wpc' = wpc \/ (wpc' = [wpc EXCEPT ![created] = "start"])
    BY <1>3 DEF CreateWorker
  <2>3. \A w \in Worker : w = created => w >= created
    BY <1>1 DEF Worker
  <2>4. \A w \in Worker : wpc'[w] = wpc[w] \/ (wpc[w] = "none" /\ wpc'[w] = "start")
    BY <1>1, <2>2, <2>3
  <2> QED BY <2>1, <2>4, HandoverStutters
<1>4. ASSUME NEW w \in Worker, RegisterThreadInitialized(w) \/ ReadNotify(w) \/ ConnNew(w)
      PROVE  UNCHANGED HO!vars
  <2>1. UNCHANGED <<queue, item_conn, witem, accepted, obj, stage>>
    BY <1>4 DEF RegisterThreadInitialized, ReadNotify, ConnNew, itemVars, queueVars, connVars
  <2>2. \A v \in Worker : \/ wpc[v] \notin {"popped", "conn"} /\ wpc'[v] \notin {"popped", "conn"}
                          \/ wpc[v] \in {"popped", "conn"} /\ wpc'[v] \in {"popped", "conn"}
    BY <1>1, <1>4 DEF RegisterThreadInitialized, ReadNotify, ConnNew, At
  <2> QED BY <2>1, <2>2, HandoverStutters
<1>5. ASSUME NEW w \in Worker, ConnQueueItemFree(w)
      PROVE  UNCHANGED HO!vars
  <2>1. UNCHANGED <<queue, item_conn, accepted, obj, stage>>
    BY <1>5 DEF ConnQueueItemFree, queueVars, connVars
  <2>2. \A v \in Worker : \/ v = w /\ wpc[v] = "free" /\ wpc'[v] = "loop"
                          \/ v # w /\ wpc'[v] = wpc[v] /\ witem'[v] = witem[v]
    BY <1>1, <1>5 DEF ConnQueueItemFree, At
  <2> QED BY <2>1, <2>2, HandoverStutters
<1> QED BY <1>2, <1>3, <1>4, <1>5 DEF Start

\* Every behaviour of the dispatch is one of the abstract hand-over: each
\* connection goes to one worker, in the order of accepts, and is set up once
\* with a conn of its own, whatever is recycled underneath.
THEOREM DispatchRefinesHandover == Spec => ImplementsHandover
<1>1. Init => HO!Init /\ UsedIsServed
  BY DEF Init, HO!Init, QueuedConns, ConnInHand, ClosedConns, UsedIsServed
<1>2. DispatchInv /\ UsedIsServed /\ [Next]_vars => UsedIsServed'
  BY StepKeepsUsedIsServed
<1>3. ASSUME DispatchInv, UsedIsServed, [Next]_vars
      PROVE  [HO!Next]_(HO!vars)
  <2>1. CASE ConnQueuePush
    BY <1>3, <2>1, PushRefines DEF HO!Next
  <2>2. ASSUME NEW w \in Worker, ConnQueuePop(w) \/ ServesConn(w) \/ ConnNewFails(w)
        PROVE  HO!Next
    BY <1>3, <2>2, PopRefines, ServeRefines, GiveUpRefines DEF HO!Next
  <2>3. ASSUME NEW c \in Conn, ConnClose(c) PROVE HO!Next
    BY <1>3, <2>3, CloseRefines DEF HO!Next
  <2>4. CASE AllocItems
    BY <1>3, <2>4, AllocRefines
  <2>5. CASE \/ Reload \/ ReloadFails \/ Start \/ StartFails \/ SpuriousWakeup
             \/ ItemFromFreelist \/ FreelistEmpty \/ NextThreadMissing \/ NotifyWorker
             \/ \E w \in Worker : \/ RegisterThreadInitialized(w) \/ ReadNotify(w)
                                  \/ ConnNew(w) \/ ConnQueueItemFree(w)
             \/ UNCHANGED vars
    BY <1>3, <2>5, OthersRefine
  <2> QED BY <1>3, <2>1, <2>2, <2>3, <2>4, <2>5 DEF Next, Dispatch, Process
<1> QED BY <1>1, <1>2, <1>3, DispatchInvariant, PTL DEF Spec, ImplementsHandover, HO!Spec

=============================================================================
