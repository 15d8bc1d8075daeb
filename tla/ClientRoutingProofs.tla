------------------------ MODULE ClientRoutingProofs ------------------------
(***************************************************************************)
(* The safety of the routing of replies, for every set of descriptors, id  *)
(* range, number of clients, of restarts and of pieces of a write.         *)
(*                                                                         *)
(* RoutingInv is inductive: the initial state satisfies it, and there is a *)
(* lemma per action, with a step for each conjunct that the action can     *)
(* disturb.  The safety properties follow from it.                         *)
(***************************************************************************)
EXTENDS ClientRouting, TLAPS

-----------------------------------------------------------------------------
(* Remainders, for the ids of GetClientfdMapId, which wrap around.         *)
(* `a + b % p' reads as `(a + b) % p' in TLA+, hence the parentheses.      *)

\* Division with remainder.
LEMMA DivMod ==
  ASSUME NEW p \in Nat \ {0}, NEW n \in Nat
  PROVE  /\ n = (p * (n \div p)) + (n % p)
         /\ n % p \in 0..(p - 1)
         /\ n \div p \in Int
BY Z3

\* The only multiple of p strictly between -p and p is 0.
LEMMA SmallMultiple ==
  ASSUME NEW p \in Nat \ {0}, NEW k \in Int, -p < p * k, p * k < p
  PROVE  k = 0
<1>1. k >= 1 => p * k >= p
  BY Z3
<1>2. k <= -1 => p * k <= -p
  BY Z3
<1> QED BY <1>1, <1>2

\* Quotient and remainder are unique.
LEMMA ModUnique ==
  ASSUME NEW p \in Nat \ {0}, NEW n \in Nat, NEW q \in Int, NEW r \in 0..(p - 1),
         n = (p * q) + r
  PROVE  n % p = r
<1>1. n = (p * (n \div p)) + (n % p) /\ n % p \in 0..(p - 1) /\ n \div p \in Int
  BY DivMod
<1> DEFINE k == (n \div p) - q
<1>2. k \in Int
  BY <1>1
<1>3. p * k = (p * (n \div p)) - (p * q)
  BY <1>1, Z3
<1>4. p * k = r - (n % p)
  BY <1>1, <1>3, p * (n \div p) \in Int, p * q \in Int
<1>5. -p < p * k /\ p * k < p
  BY <1>1, <1>4
<1>6. k = 0
  BY <1>2, <1>5, SmallMultiple
<1> QED BY <1>1, <1>4, <1>6

\* The remainder of the next number: one more, or 0 after the last.
LEMMA ModSuccessor ==
  ASSUME NEW p \in Nat \ {0}, NEW n \in Nat
  PROVE  (n + 1) % p = IF n % p = p - 1 THEN 0 ELSE (n % p) + 1
<1> DEFINE q == n \div p
           r == n % p
<1>1. n = (p * q) + r /\ r \in 0..(p - 1) /\ q \in Int
  BY DivMod
<1>2. n + 1 \in Nat /\ q + 1 \in Int /\ 0 \in 0..(p - 1)
  BY <1>1
<1>3. p * (q + 1) = (p * q) + p
  BY <1>1, Z3
<1> HIDE DEF q, r
<1>4. CASE r = p - 1
  <2>1. n + 1 = (p * (q + 1)) + 0
    BY <1>1, <1>3, <1>4
  <2>2. (n + 1) % p = 0
    BY <1>2, <2>1, ModUnique
  <2> QED BY <1>4, <2>2 DEF r
<1>5. CASE r # p - 1
  <2>1. n + 1 = (p * q) + (r + 1) /\ r + 1 \in 0..(p - 1)
    BY <1>1, <1>5
  <2>2. (n + 1) % p = r + 1
    BY <1>1, <1>2, <2>1, ModUnique
  <2> QED BY <1>5, <2>2 DEF r
<1> QED BY <1>4, <1>5

\* Two numbers less than p apart have different remainders.
LEMMA ModDistinct ==
  ASSUME NEW p \in Nat \ {0}, NEW m \in Nat, NEW n \in Nat, m < n, n - m < p
  PROVE  m % p # n % p
<1> DEFINE k == (n \div p) - (m \div p)
<1>1. /\ m = (p * (m \div p)) + (m % p) /\ m % p \in 0..(p - 1) /\ m \div p \in Int
      /\ n = (p * (n \div p)) + (n % p) /\ n % p \in 0..(p - 1) /\ n \div p \in Int
  BY DivMod
<1> SUFFICES ASSUME m % p = n % p PROVE FALSE
  OBVIOUS
<1>2. p * k = (p * (n \div p)) - (p * (m \div p))
  BY <1>1, Z3
<1>3. p * k = n - m
  BY <1>1, <1>2
<1>4. k = 0
  BY <1>1, <1>3, SmallMultiple
<1> QED BY <1>3, <1>4

\* Below 2p the remainder is the number, less p if it has reached p.
LEMMA ModBelowTwice ==
  ASSUME NEW p \in Nat \ {0}, NEW n \in Nat, n < p + p
  PROVE  n % p = IF n < p THEN n ELSE n - p
<1>1. CASE n < p
  <2>1. n = (p * 0) + n /\ n \in 0..(p - 1) /\ 0 \in Int
    BY <1>1
  <2>2. n % p = n
    BY <2>1, ModUnique
  <2> QED BY <1>1, <2>2
<1>2. CASE n >= p
  <2>1. n = (p * 1) + (n - p) /\ n - p \in 0..(p - 1) /\ 1 \in Int
    BY <1>2
  <2>2. n % p = n - p
    BY <2>1, ModUnique
  <2> QED BY <1>2, <2>2
<1> QED BY <1>1, <1>2

-----------------------------------------------------------------------------
(* The inductive invariant.                                                *)

\* Latest client accepted on a descriptor by this process.
LatestOn(m, f) ==
  /\ m \in (base + 1)..accepted /\ conn_sfd[m] = f
  /\ \A k \in (base + 1)..accepted : conn_sfd[k] = f => k <= m

\* Ids are allocated in sequence, modulo the period, from 1 in each process.
IdSequence ==
  /\ id_ = ((IF mpc = "erased" THEN accepted + 1 ELSE accepted) - base) % IdPeriod
  /\ \A c \in (base + 1)..accepted : conn_id[c] = (c - base) % IdPeriod

\* The stage of a client tells whether it has been accepted, and by whom.
StageOfNumber ==
  /\ \A c \in Client : (stage[c] = "none") <=> (c > accepted)
  /\ \A c \in 1..base : stage[c] = "closed"
  /\ \A c \in 1..accepted : conn_sfd[c] \in Fd

\* The kernel and the workers agree on whose a descriptor is.
OwnerIsLive ==
  /\ \A c \in Client : stage[c] \in Live => owner[conn_sfd[c]] = c
  /\ mpc # "wait" => msfd \in Fd /\ owner[msfd] = accepted + 1

\* An entry is the one of the last client accepted on its descriptor.
EntryIsLatest ==
  /\ \A f \in DOMAIN map_csfd_id_ :
       \E m \in Client : LatestOn(m, f) /\ map_csfd_id_[f] = conn_id[m]
  /\ mpc = "erased" => msfd \notin DOMAIN map_csfd_id_

\* A connection that can still be answered has its entry.
LiveIsMapped ==
  \A c \in Client :
    /\ stage[c] \in {"queued", "open", "verified"} =>
         MapFinds(map_csfd_id_, conn_sfd[c], conn_id[c])
    /\ stage[c] = "erased" => conn_sfd[c] \notin DOMAIN map_csfd_id_

\* The connection of a client that asked went through ErrorCbErases: an
\* entry under its descriptor can only be the one of a later client.
DeadIsUnmapped ==
  /\ \A c \in asked : stage[c] \in {"verified", "erased", "closed"}
  /\ \A c \in asked : c > base /\ stage[c] = "closed"
                       /\ conn_sfd[c] \in DOMAIN map_csfd_id_ =>
       \E k \in (c + 1)..accepted : conn_sfd[k] = conn_sfd[c]

\* While a reply is being written its client owns the descriptor or is gone.
WriterInv ==
  tpc = "write" => /\ tclient \in asked
                   /\ tleft > 0
                   /\ \/ stage[tclient] = "closed"
                      \/ owner[conn_sfd[tclient]] = tclient

RoutingInv ==
  /\ TypeOK
  /\ IdSequence
  /\ StageOfNumber
  /\ OwnerIsLive
  /\ EntryIsLatest
  /\ LiveIsMapped
  /\ DeadIsUnmapped
  /\ WriterInv
  /\ MisdeliveredOnlyAfterClose
  /\ DroppedOnlyIfDead

-----------------------------------------------------------------------------
(* The clients and their connections.                                      *)

\* What the steps need most: a live connection was accepted by this process,
\* owns its descriptor alone, and that is not the one being accepted.
LEMMA LiveFacts ==
  ASSUME RoutingInv
  PROVE  /\ \A c \in Client : stage[c] \in Live =>
              /\ c \in 1..accepted /\ c > base
              /\ conn_sfd[c] \in Fd /\ owner[conn_sfd[c]] = c
              /\ mpc # "wait" => conn_sfd[c] # msfd
         /\ \A c, d \in Client :
              stage[c] \in Live /\ stage[d] \in Live /\ conn_sfd[c] = conn_sfd[d] => c = d
         /\ \A c \in asked : c \in Client /\ c <= accepted
         /\ mpc # "wait" => accepted + 1 \in Client
         /\ accepted \in 0..MaxClients /\ base \in 0..accepted /\ MaxClients \in Nat
BY RoutingAssumption
   DEF RoutingInv, TypeOK, StageOfNumber, OwnerIsLive, DeadIsUnmapped,
       Live, Stages, Client, Free, App

\* A process starts with no connections, an empty map and id 0.
LEMMA InitHolds == Init => RoutingInv
<1> SUFFICES ASSUME Init PROVE RoutingInv
  OBVIOUS
<1> USE RoutingAssumption DEF Init
<1>1. TypeOK
  BY DEF TypeOK, EmptyMap, Client, Id, Stages
<1>2. IdSequence
  <2>1. IdPeriod \in Nat \ {0}
    BY DEF IdPeriod
  <2>2. 0 % IdPeriod = 0
    BY <2>1, ModBelowTwice
  <2> QED BY <2>2 DEF IdSequence
<1>3. StageOfNumber /\ OwnerIsLive
  BY DEF StageOfNumber, OwnerIsLive, Live, Client
<1>4. EntryIsLatest /\ LiveIsMapped
  BY DEF EntryIsLatest, LiveIsMapped, EmptyMap
<1>5. DeadIsUnmapped /\ WriterInv /\ MisdeliveredOnlyAfterClose /\ DroppedOnlyIfDead
  BY DEF DeadIsUnmapped, WriterInv, MisdeliveredOnlyAfterClose, DroppedOnlyIfDead
<1> QED BY <1>1, <1>2, <1>3, <1>4, <1>5 DEF RoutingInv

-----------------------------------------------------------------------------
\* Accept: a descriptor that was free goes to a client that is not numbered yet.
LEMMA AcceptKeepsInv ==
  ASSUME RoutingInv, NEW f \in Fd, Accept(f)
  PROVE  RoutingInv'
<1> USE RoutingAssumption, LiveFacts
        DEF RoutingInv, Client, Live,
            kernelVars, masterVars, connVars, writeVars, history, Accept
<1>1. TypeOK'
  BY DEF TypeOK, Stages, Id, Free, App, NoFd
<1>2. IdSequence'
  BY DEF IdSequence, TypeOK
<1>3. OwnerIsLive'
  BY DEF OwnerIsLive, TypeOK, Free, App, StageOfNumber
<1>4. EntryIsLatest'
  BY DEF EntryIsLatest, TypeOK, LatestOn, StageOfNumber
<1>5. WriterInv'
  BY DEF WriterInv, TypeOK, DeadIsUnmapped, OwnerIsLive, Free, App, StageOfNumber
<1>6. StageOfNumber' /\ LiveIsMapped' /\ DeadIsUnmapped' /\ MisdeliveredOnlyAfterClose' /\ DroppedOnlyIfDead'
  BY DEF StageOfNumber, LiveIsMapped, DeadIsUnmapped, MisdeliveredOnlyAfterClose, DroppedOnlyIfDead, MapFinds
<1> QED BY <1>1, <1>2, <1>3, <1>4, <1>5, <1>6

\* AcceptFails: the descriptor being accepted is no live connection's.
LEMMA AcceptFailsKeepsInv ==
  ASSUME RoutingInv, AcceptFails
  PROVE  RoutingInv'
<1> USE RoutingAssumption, LiveFacts
        DEF RoutingInv, Client, Live,
            kernelVars, masterVars, connVars, writeVars, history, AcceptFails
<1>1. TypeOK'
  BY DEF TypeOK, Stages, Id, Free, App, NoFd
<1>2. IdSequence'
  BY DEF IdSequence, TypeOK
<1>3. OwnerIsLive'
  BY DEF OwnerIsLive, TypeOK, Free, App, StageOfNumber
<1>4. EntryIsLatest'
  BY DEF EntryIsLatest, TypeOK, LatestOn, StageOfNumber
<1>5. WriterInv'
  BY DEF WriterInv, TypeOK, DeadIsUnmapped, OwnerIsLive, Free, App, StageOfNumber
<1>6. StageOfNumber' /\ LiveIsMapped' /\ DeadIsUnmapped' /\ MisdeliveredOnlyAfterClose' /\ DroppedOnlyIfDead'
  BY DEF StageOfNumber, LiveIsMapped, DeadIsUnmapped, MisdeliveredOnlyAfterClose, DroppedOnlyIfDead, MapFinds
<1> QED BY <1>1, <1>2, <1>3, <1>4, <1>5, <1>6

\* AcceptErases: the id advances along its period, and the entry erased is of no live
\* connection, for the master's descriptor is none of theirs.
LEMMA AcceptErasesKeepsInv ==
  ASSUME RoutingInv, AcceptErases
  PROVE  RoutingInv'
<1> USE RoutingAssumption, LiveFacts
        DEF RoutingInv, Client, Live,
            kernelVars, masterVars, connVars, writeVars, history, AcceptErases
<1>1. TypeOK'
  <2>1. id_' \in Id
    BY DEF TypeOK, Id, GetClientfdMapId
  <2>2. DOMAIN map_csfd_id_' \subseteq Fd /\ \A f \in DOMAIN map_csfd_id_' : map_csfd_id_'[f] \in Id
    BY DEF TypeOK, MapErase
  <2> QED BY <2>1, <2>2 DEF TypeOK
<1>2. IdSequence'
  <2> DEFINE n == accepted - base
  <2>1. n \in Nat /\ IdPeriod \in Nat \ {0} /\ id_ = n % IdPeriod
    BY DEF IdSequence, IdPeriod
  <2>2. id_ \in 0..(IdPeriod - 1)
    BY DEF TypeOK, Id, IdPeriod
  <2>3. (n + 1) % IdPeriod = IF n % IdPeriod = IdPeriod - 1 THEN 0 ELSE (n % IdPeriod) + 1
    BY <2>1, ModSuccessor
  <2>4. GetClientfdMapId = IF id_ = IdPeriod - 1 THEN 0 ELSE id_ + 1
    BY <2>2 DEF GetClientfdMapId, IdPeriod
  <2>5. id_' = (n + 1) % IdPeriod
    BY <2>1, <2>3, <2>4
  <2>6. n + 1 = (accepted + 1) - base
    OBVIOUS
  <2> QED BY <2>5, <2>6 DEF IdSequence, IdPeriod
<1>3. OwnerIsLive'
  BY DEF OwnerIsLive, TypeOK, Free, App, StageOfNumber
<1>4. EntryIsLatest'
  BY DEF EntryIsLatest, TypeOK, LatestOn, StageOfNumber, MapErase
<1>5. LiveIsMapped'
  BY DEF LiveIsMapped, TypeOK, MapFinds, OwnerIsLive, MapErase
<1>6. DeadIsUnmapped'
  BY DEF DeadIsUnmapped, TypeOK, StageOfNumber, LiveIsMapped, MapErase
<1>7. StageOfNumber' /\ WriterInv' /\ MisdeliveredOnlyAfterClose' /\ DroppedOnlyIfDead'
  BY DEF StageOfNumber, WriterInv, MisdeliveredOnlyAfterClose, DroppedOnlyIfDead
<1> QED BY <1>1, <1>2, <1>3, <1>4, <1>5, <1>6, <1>7

\* AcceptDispatches: the new client is the latest on its descriptor, and the entry is its.
LEMMA AcceptDispatchesKeepsInv ==
  ASSUME RoutingInv, AcceptDispatches
  PROVE  RoutingInv'
<1> USE RoutingAssumption, LiveFacts
        DEF RoutingInv, Client, Live,
            kernelVars, masterVars, connVars, writeVars, history, AcceptDispatches
<1>1. TypeOK'
  <2>1. DOMAIN map_csfd_id_' \subseteq Fd /\ \A f \in DOMAIN map_csfd_id_' : map_csfd_id_'[f] \in Id
    BY DEF TypeOK, MapInsert, OwnerIsLive
  <2>2. accepted' \in 0..MaxClients /\ base' \in 0..accepted'
    OBVIOUS
  <2> QED BY <2>1, <2>2 DEF TypeOK, Stages
<1>2. IdSequence'
  BY DEF IdSequence, TypeOK
<1>3. StageOfNumber'
  BY DEF StageOfNumber, TypeOK, DeadIsUnmapped, OwnerIsLive
<1>4. OwnerIsLive'
  BY DEF OwnerIsLive, TypeOK, Free, App, StageOfNumber
<1>5. EntryIsLatest'
  <2>1. PICK c \in Client, f0 \in Fd : c = accepted + 1 /\ f0 = msfd
    BY DEF OwnerIsLive
  <2>2. c \in (base' + 1)..accepted' /\ conn_sfd'[c] = f0 /\ conn_id'[c] = id_
    BY <2>1 DEF TypeOK
  <2>3. \A k \in 1..accepted : k # c /\ conn_sfd'[k] = conn_sfd[k] /\ conn_id'[k] = conn_id[k]
    BY <2>1 DEF TypeOK
  <2>4. DOMAIN map_csfd_id_' = DOMAIN map_csfd_id_ \cup {f0} /\ map_csfd_id_'[f0] = id_
    BY <2>1 DEF MapInsert, EntryIsLatest
  <2>5. \A f \in DOMAIN map_csfd_id_ : f # f0 /\ map_csfd_id_'[f] = map_csfd_id_[f]
    BY <2>1 DEF MapInsert, EntryIsLatest
  <2>6. LatestOn(c, f0)'
    BY <2>1, <2>2 DEF LatestOn
  <2>7. ASSUME NEW f \in DOMAIN map_csfd_id_
        PROVE  \E m \in Client : LatestOn(m, f)' /\ map_csfd_id_'[f] = conn_id'[m]
    <3>1. PICK m \in Client : LatestOn(m, f) /\ map_csfd_id_[f] = conn_id[m]
      BY DEF EntryIsLatest
    <3>2. m \in 1..accepted
      BY <3>1 DEF LatestOn
    <3>3. LatestOn(m, f)'
      BY <2>1, <2>2, <2>3, <2>5, <3>1 DEF LatestOn
    <3> QED BY <2>3, <2>5, <3>1, <3>2, <3>3
  <2>8. mpc' # "erased"
    OBVIOUS
  <2> QED BY <2>2, <2>4, <2>6, <2>7, <2>8 DEF EntryIsLatest
<1>6. LiveIsMapped'
  <2> DEFINE c == accepted + 1
  <2>1. msfd \notin DOMAIN map_csfd_id_ /\ msfd \in Fd
    BY DEF EntryIsLatest, OwnerIsLive
  <2>2. /\ stage'[c] = "queued" /\ conn_sfd'[c] = msfd /\ conn_id'[c] = id_
        /\ MapFinds(map_csfd_id_', msfd, id_)
    BY <2>1 DEF TypeOK, MapFinds, MapInsert
  <2>3. ASSUME NEW d \in Client, d # c, stage[d] \in Live
        PROVE  /\ conn_sfd[d] # msfd
               /\ conn_sfd'[d] = conn_sfd[d] /\ conn_id'[d] = conn_id[d]
               /\ conn_sfd[d] \in DOMAIN map_csfd_id_' <=> conn_sfd[d] \in DOMAIN map_csfd_id_
               /\ conn_sfd[d] \in DOMAIN map_csfd_id_ =>
                    map_csfd_id_'[conn_sfd[d]] = map_csfd_id_[conn_sfd[d]]
    BY <2>3 DEF TypeOK, MapInsert
  <2>4. \A d \in Client : d # c => stage'[d] = stage[d]
    BY DEF TypeOK
  <2> QED BY <2>2, <2>3, <2>4 DEF LiveIsMapped, MapFinds
<1>7. DeadIsUnmapped'
  <2> DEFINE c == accepted + 1
  <2>1. /\ \A d \in asked : d # c /\ stage'[d] = stage[d] /\ conn_sfd'[d] = conn_sfd[d]
        /\ c \in Client /\ conn_sfd'[c] = msfd
    BY DEF TypeOK
  <2>2. DOMAIN map_csfd_id_' = DOMAIN map_csfd_id_ \cup {msfd}
    BY DEF MapInsert
  <2>3. ASSUME NEW d \in asked, d > base, stage[d] = "closed",
               conn_sfd[d] \in DOMAIN map_csfd_id_'
        PROVE  \E k \in (d + 1)..(accepted + 1) : conn_sfd'[k] = conn_sfd[d]
    <3>1. CASE conn_sfd[d] = msfd
      <4>1. c \in (d + 1)..(accepted + 1)
        OBVIOUS
      <4> QED BY <2>1, <3>1, <4>1
    <3>2. CASE conn_sfd[d] # msfd
      <4>1. PICK k \in (d + 1)..accepted : conn_sfd[k] = conn_sfd[d]
        BY <2>2, <2>3, <3>2 DEF DeadIsUnmapped
      <4>2. k \in (d + 1)..(accepted + 1) /\ k \in Client /\ k # c
        OBVIOUS
      <4>3. conn_sfd'[k] = conn_sfd[k]
        BY <4>2 DEF TypeOK
      <4> QED BY <4>1, <4>2, <4>3
    <3> QED BY <3>1, <3>2
  <2>4. \A d \in asked : stage[d] \in {"verified", "erased", "closed"}
    BY DEF DeadIsUnmapped
  <2> QED BY <2>1, <2>3, <2>4 DEF DeadIsUnmapped
<1>8. WriterInv'
  BY DEF WriterInv, TypeOK, DeadIsUnmapped, OwnerIsLive, Free, App, StageOfNumber
<1>9. MisdeliveredOnlyAfterClose'
  <2>1. \A d \in Client : stage[d] = "closed" => d # accepted + 1 /\ stage'[d] = "closed"
    BY DEF TypeOK, StageOfNumber
  <2>2. \A d \in received : d[2] \in Client
    BY DEF TypeOK
  <2> QED BY <2>1, <2>2 DEF MisdeliveredOnlyAfterClose
<1>10. DroppedOnlyIfDead'
  <2>1. \A d \in Client : stage[d] \in {"erased", "closed"} =>
          d # accepted + 1 /\ stage'[d] = stage[d]
    BY DEF TypeOK, StageOfNumber
  <2>2. dropped \subseteq Client
    BY DEF TypeOK
  <2> QED BY <2>1, <2>2 DEF DroppedOnlyIfDead
<1> QED BY <1>1, <1>2, <1>3, <1>4, <1>5, <1>6, <1>7, <1>8, <1>9, <1>10

\* ConnNew: the connection stays live and mapped.
LEMMA ConnNewKeepsInv ==
  ASSUME RoutingInv, NEW c \in Client, ConnNew(c)
  PROVE  RoutingInv'
<1> USE RoutingAssumption, LiveFacts
        DEF RoutingInv, Client, Live,
            kernelVars, masterVars, connVars, writeVars, history, ConnNew
<1>1. TypeOK'
  BY DEF TypeOK, Stages, Id, Free, App, NoFd
<1>2. StageOfNumber'
  BY DEF StageOfNumber, TypeOK, DeadIsUnmapped, OwnerIsLive
<1>3. OwnerIsLive'
  BY DEF OwnerIsLive, TypeOK, Free, App, StageOfNumber
<1>4. LiveIsMapped'
  BY DEF LiveIsMapped, TypeOK, MapFinds, OwnerIsLive
<1>5. DeadIsUnmapped'
  BY DEF DeadIsUnmapped, TypeOK, StageOfNumber, LiveIsMapped
<1>6. WriterInv'
  BY DEF WriterInv, TypeOK, DeadIsUnmapped, OwnerIsLive, Free, App, StageOfNumber
<1>7. MisdeliveredOnlyAfterClose'
  BY DEF MisdeliveredOnlyAfterClose, WriterInv, TypeOK
<1>8. DroppedOnlyIfDead'
  BY DEF DroppedOnlyIfDead, DeadIsUnmapped, LiveIsMapped, TagMatches, ReplyTag, MapFinds, TypeOK
<1>9. IdSequence' /\ EntryIsLatest'
  BY DEF IdSequence, EntryIsLatest, LatestOn
<1> QED BY <1>1, <1>2, <1>3, <1>4, <1>5, <1>6, <1>7, <1>8, <1>9

\* ConnNewFails: the entry that stays behind is of a client that never asked.
LEMMA ConnNewFailsKeepsInv ==
  ASSUME RoutingInv, NEW c \in Client, ConnNewFails(c)
  PROVE  RoutingInv'
<1> USE RoutingAssumption, LiveFacts
        DEF RoutingInv, Client, Live,
            kernelVars, masterVars, connVars, writeVars, history, Close, ConnNewFails
<1>1. TypeOK'
  BY DEF TypeOK, Stages, Id, Free, App, NoFd
<1>2. StageOfNumber'
  BY DEF StageOfNumber, TypeOK, DeadIsUnmapped, OwnerIsLive
<1>3. OwnerIsLive'
  BY DEF OwnerIsLive, TypeOK, Free, App, StageOfNumber
<1>4. LiveIsMapped'
  BY DEF LiveIsMapped, TypeOK, MapFinds, OwnerIsLive
<1>5. DeadIsUnmapped'
  BY DEF DeadIsUnmapped, TypeOK, StageOfNumber, LiveIsMapped
<1>6. WriterInv'
  BY DEF WriterInv, TypeOK, DeadIsUnmapped, OwnerIsLive, Free, App, StageOfNumber
<1>7. MisdeliveredOnlyAfterClose'
  BY DEF MisdeliveredOnlyAfterClose, WriterInv, TypeOK
<1>8. DroppedOnlyIfDead'
  BY DEF DroppedOnlyIfDead, DeadIsUnmapped, LiveIsMapped, TagMatches, ReplyTag, MapFinds, TypeOK
<1>9. IdSequence' /\ EntryIsLatest'
  BY DEF IdSequence, EntryIsLatest, LatestOn
<1> QED BY <1>1, <1>2, <1>3, <1>4, <1>5, <1>6, <1>7, <1>8, <1>9

\* TokenAccepted: the connection stays live and mapped.
LEMMA TokenAcceptedKeepsInv ==
  ASSUME RoutingInv, NEW c \in Client, TokenAccepted(c)
  PROVE  RoutingInv'
<1> USE RoutingAssumption, LiveFacts
        DEF RoutingInv, Client, Live,
            kernelVars, masterVars, connVars, writeVars, history, TokenAccepted
<1>1. TypeOK'
  BY DEF TypeOK, Stages, Id, Free, App, NoFd
<1>2. StageOfNumber'
  BY DEF StageOfNumber, TypeOK, DeadIsUnmapped, OwnerIsLive
<1>3. OwnerIsLive'
  BY DEF OwnerIsLive, TypeOK, Free, App, StageOfNumber
<1>4. LiveIsMapped'
  BY DEF LiveIsMapped, TypeOK, MapFinds, OwnerIsLive
<1>5. DeadIsUnmapped'
  BY DEF DeadIsUnmapped, TypeOK, StageOfNumber, LiveIsMapped
<1>6. WriterInv'
  BY DEF WriterInv, TypeOK, DeadIsUnmapped, OwnerIsLive, Free, App, StageOfNumber
<1>7. MisdeliveredOnlyAfterClose'
  BY DEF MisdeliveredOnlyAfterClose, WriterInv, TypeOK
<1>8. DroppedOnlyIfDead'
  BY DEF DroppedOnlyIfDead, DeadIsUnmapped, LiveIsMapped, TagMatches, ReplyTag, MapFinds, TypeOK
<1>9. IdSequence' /\ EntryIsLatest'
  BY DEF IdSequence, EntryIsLatest, LatestOn
<1> QED BY <1>1, <1>2, <1>3, <1>4, <1>5, <1>6, <1>7, <1>8, <1>9

\* TokenRejected: as for a failed conn_new, the stale entry is of a client that never asked.
LEMMA TokenRejectedKeepsInv ==
  ASSUME RoutingInv, NEW c \in Client, TokenRejected(c)
  PROVE  RoutingInv'
<1> USE RoutingAssumption, LiveFacts
        DEF RoutingInv, Client, Live,
            kernelVars, masterVars, connVars, writeVars, history, Close, TokenRejected
<1>1. TypeOK'
  BY DEF TypeOK, Stages, Id, Free, App, NoFd
<1>2. StageOfNumber'
  BY DEF StageOfNumber, TypeOK, DeadIsUnmapped, OwnerIsLive
<1>3. OwnerIsLive'
  BY DEF OwnerIsLive, TypeOK, Free, App, StageOfNumber
<1>4. LiveIsMapped'
  BY DEF LiveIsMapped, TypeOK, MapFinds, OwnerIsLive
<1>5. DeadIsUnmapped'
  BY DEF DeadIsUnmapped, TypeOK, StageOfNumber, LiveIsMapped
<1>6. WriterInv'
  BY DEF WriterInv, TypeOK, DeadIsUnmapped, OwnerIsLive, Free, App, StageOfNumber
<1>7. MisdeliveredOnlyAfterClose'
  BY DEF MisdeliveredOnlyAfterClose, WriterInv, TypeOK
<1>8. DroppedOnlyIfDead'
  BY DEF DroppedOnlyIfDead, DeadIsUnmapped, LiveIsMapped, TagMatches, ReplyTag, MapFinds, TypeOK
<1>9. IdSequence' /\ EntryIsLatest'
  BY DEF IdSequence, EntryIsLatest, LatestOn
<1> QED BY <1>1, <1>2, <1>3, <1>4, <1>5, <1>6, <1>7, <1>8, <1>9

\* ForwardRequest: only verified connections ask.
LEMMA ForwardRequestKeepsInv ==
  ASSUME RoutingInv, NEW c \in Client, ForwardRequest(c)
  PROVE  RoutingInv'
<1> USE RoutingAssumption, LiveFacts
        DEF RoutingInv, Client, Live,
            kernelVars, masterVars, connVars, writeVars, history, ForwardRequest
<1>1. TypeOK'
  BY DEF TypeOK, Stages, Id, Free, App, NoFd
<1>2. DeadIsUnmapped'
  BY DEF DeadIsUnmapped, TypeOK, StageOfNumber, LiveIsMapped
<1>3. WriterInv'
  BY DEF WriterInv, TypeOK, DeadIsUnmapped, OwnerIsLive, Free, App, StageOfNumber
<1>4. IdSequence' /\ StageOfNumber' /\ OwnerIsLive' /\ EntryIsLatest' /\ LiveIsMapped' /\ MisdeliveredOnlyAfterClose' /\ DroppedOnlyIfDead'
  BY DEF IdSequence, StageOfNumber, OwnerIsLive, EntryIsLatest, LiveIsMapped, MisdeliveredOnlyAfterClose, DroppedOnlyIfDead, LatestOn, MapFinds
<1> QED BY <1>1, <1>2, <1>3, <1>4

\* ErrorCbErases: only the entry of this connection goes, since live connections have
\* different descriptors.
LEMMA ErrorCbErasesKeepsInv ==
  ASSUME RoutingInv, NEW c \in Client, ErrorCbErases(c)
  PROVE  RoutingInv'
<1> USE RoutingAssumption, LiveFacts
        DEF RoutingInv, Client, Live,
            kernelVars, masterVars, connVars, writeVars, history, ErrorCbErases
<1>1. TypeOK'
  BY DEF TypeOK, Stages, Id, Free, App, NoFd, MapErase
<1>2. StageOfNumber'
  BY DEF StageOfNumber, TypeOK, DeadIsUnmapped, OwnerIsLive
<1>3. OwnerIsLive'
  BY DEF OwnerIsLive, TypeOK, Free, App, StageOfNumber
<1>4. EntryIsLatest'
  BY DEF EntryIsLatest, TypeOK, LatestOn, StageOfNumber, MapErase
<1>5. LiveIsMapped'
  BY DEF LiveIsMapped, TypeOK, MapFinds, OwnerIsLive, MapErase
<1>6. DeadIsUnmapped'
  BY DEF DeadIsUnmapped, TypeOK, StageOfNumber, LiveIsMapped, MapErase
<1>7. WriterInv'
  BY DEF WriterInv, TypeOK, DeadIsUnmapped, OwnerIsLive, Free, App, StageOfNumber
<1>8. MisdeliveredOnlyAfterClose'
  BY DEF MisdeliveredOnlyAfterClose, WriterInv, TypeOK
<1>9. DroppedOnlyIfDead'
  BY DEF DroppedOnlyIfDead, DeadIsUnmapped, LiveIsMapped, TagMatches, ReplyTag, MapFinds, TypeOK
<1>10. IdSequence'
  BY DEF IdSequence
<1> QED BY <1>1, <1>2, <1>3, <1>4, <1>5, <1>6, <1>7, <1>8, <1>9, <1>10

\* ErrorCbCloses: the entry of a connection that asked is gone before its descriptor.
LEMMA ErrorCbClosesKeepsInv ==
  ASSUME RoutingInv, NEW c \in Client, ErrorCbCloses(c)
  PROVE  RoutingInv'
<1> USE RoutingAssumption, LiveFacts
        DEF RoutingInv, Client, Live,
            kernelVars, masterVars, connVars, writeVars, history, Close, ErrorCbCloses
<1>1. TypeOK'
  BY DEF TypeOK, Stages, Id, Free, App, NoFd
<1>2. StageOfNumber'
  BY DEF StageOfNumber, TypeOK, DeadIsUnmapped, OwnerIsLive
<1>3. OwnerIsLive'
  BY DEF OwnerIsLive, TypeOK, Free, App, StageOfNumber
<1>4. LiveIsMapped'
  BY DEF LiveIsMapped, TypeOK, MapFinds, OwnerIsLive
<1>5. DeadIsUnmapped'
  BY DEF DeadIsUnmapped, TypeOK, StageOfNumber, LiveIsMapped
<1>6. WriterInv'
  BY DEF WriterInv, TypeOK, DeadIsUnmapped, OwnerIsLive, Free, App, StageOfNumber
<1>7. MisdeliveredOnlyAfterClose'
  BY DEF MisdeliveredOnlyAfterClose, WriterInv, TypeOK
<1>8. DroppedOnlyIfDead'
  BY DEF DroppedOnlyIfDead, DeadIsUnmapped, LiveIsMapped, TagMatches, ReplyTag, MapFinds, TypeOK
<1>9. IdSequence' /\ EntryIsLatest'
  BY DEF IdSequence, EntryIsLatest, LatestOn
<1> QED BY <1>1, <1>2, <1>3, <1>4, <1>5, <1>6, <1>7, <1>8, <1>9

\* SendToClient: a tag that matches is of a client that owns its descriptor, or is closed.
LEMMA SendToClientKeepsInv ==
  ASSUME RoutingInv, NEW c \in Client, SendToClient(c)
  PROVE  RoutingInv'
<1> USE RoutingAssumption, LiveFacts
        DEF RoutingInv, Client, Live,
            kernelVars, masterVars, connVars, writeVars, history, SendToClient
<1>1. TypeOK'
  BY DEF TypeOK, Stages, Id, Free, App, NoFd
<1>2. WriterInv'
  BY DEF WriterInv, TypeOK, DeadIsUnmapped, OwnerIsLive, Free, App, StageOfNumber
<1>3. IdSequence' /\ StageOfNumber' /\ OwnerIsLive' /\ EntryIsLatest' /\ LiveIsMapped' /\ DeadIsUnmapped' /\ MisdeliveredOnlyAfterClose' /\ DroppedOnlyIfDead'
  BY DEF IdSequence, StageOfNumber, OwnerIsLive, EntryIsLatest, LiveIsMapped, DeadIsUnmapped, MisdeliveredOnlyAfterClose, DroppedOnlyIfDead, LatestOn, MapFinds
<1> QED BY <1>1, <1>2, <1>3

\* DropReply: a verified connection is mapped, so its reply is not dropped.
LEMMA DropReplyKeepsInv ==
  ASSUME RoutingInv, NEW c \in Client, DropReply(c)
  PROVE  RoutingInv'
<1> USE RoutingAssumption, LiveFacts
        DEF RoutingInv, Client, Live,
            kernelVars, masterVars, connVars, writeVars, history, DropReply
<1>1. TypeOK'
  BY DEF TypeOK, Stages, Id, Free, App, NoFd
<1>2. DroppedOnlyIfDead'
  BY DEF DroppedOnlyIfDead, DeadIsUnmapped, LiveIsMapped, TagMatches, ReplyTag, MapFinds, TypeOK
<1>3. IdSequence' /\ StageOfNumber' /\ OwnerIsLive' /\ EntryIsLatest' /\ LiveIsMapped' /\ DeadIsUnmapped' /\ WriterInv' /\ MisdeliveredOnlyAfterClose'
  BY DEF IdSequence, StageOfNumber, OwnerIsLive, EntryIsLatest, LiveIsMapped, DeadIsUnmapped, WriterInv, MisdeliveredOnlyAfterClose, LatestOn, MapFinds
<1> QED BY <1>1, <1>2, <1>3

\* WritePiece: if the owner is not the client that asked, that client is closed.
LEMMA WritePieceKeepsInv ==
  ASSUME RoutingInv, WritePiece
  PROVE  RoutingInv'
<1> USE RoutingAssumption, LiveFacts
        DEF RoutingInv, Client, Live,
            kernelVars, masterVars, connVars, writeVars, history, WritePiece
<1>1. TypeOK'
  <2>1. tclient \in asked /\ tleft > 0
    BY DEF WriterInv
  <2>2. tclient \in Client /\ conn_sfd[tclient] \in Fd
    BY <2>1 DEF StageOfNumber
  <2>3. owner[conn_sfd[tclient]] \in Client \cup {App}
    <3>1. owner[conn_sfd[tclient]] # Free
      BY DEF WritePiece
    <3>2. owner \in [Fd -> Client \cup {Free, App}]
      BY DEF TypeOK
    <3> QED BY ONLY <2>2, <3>1, <3>2
  <2>4. received' \subseteq (Client \cup {App}) \X Client
    BY <2>2, <2>3 DEF TypeOK
  <2>5. tleft' \in 0..Pieces
    BY <2>1 DEF TypeOK
  <2> QED BY <2>4, <2>5 DEF TypeOK
<1>2. WriterInv'
  BY DEF WriterInv, TypeOK, DeadIsUnmapped, OwnerIsLive, Free, App, StageOfNumber
<1>3. MisdeliveredOnlyAfterClose'
  BY DEF MisdeliveredOnlyAfterClose, WriterInv, TypeOK
<1>4. IdSequence' /\ StageOfNumber' /\ OwnerIsLive' /\ EntryIsLatest' /\ LiveIsMapped' /\ DeadIsUnmapped' /\ DroppedOnlyIfDead'
  BY DEF IdSequence, StageOfNumber, OwnerIsLive, EntryIsLatest, LiveIsMapped, DeadIsUnmapped, DroppedOnlyIfDead, LatestOn, MapFinds
<1> QED BY <1>1, <1>2, <1>3, <1>4

\* WriteFails: the rest of the reply is given up.
LEMMA WriteFailsKeepsInv ==
  ASSUME RoutingInv, WriteFails
  PROVE  RoutingInv'
<1> USE RoutingAssumption, LiveFacts
        DEF RoutingInv, Client, Live,
            kernelVars, masterVars, connVars, writeVars, history, WriteFails
<1>1. TypeOK'
  BY DEF TypeOK, Stages, Id, Free, App, NoFd
<1>2. WriterInv'
  BY DEF WriterInv, TypeOK, DeadIsUnmapped, OwnerIsLive, Free, App, StageOfNumber
<1>3. IdSequence' /\ StageOfNumber' /\ OwnerIsLive' /\ EntryIsLatest' /\ LiveIsMapped' /\ DeadIsUnmapped' /\ MisdeliveredOnlyAfterClose' /\ DroppedOnlyIfDead'
  BY DEF IdSequence, StageOfNumber, OwnerIsLive, EntryIsLatest, LiveIsMapped, DeadIsUnmapped, MisdeliveredOnlyAfterClose, DroppedOnlyIfDead, LatestOn, MapFinds
<1> QED BY <1>1, <1>2, <1>3

\* AppAccept: a descriptor that was free is no live connection's.
LEMMA AppAcceptKeepsInv ==
  ASSUME RoutingInv, NEW f \in Fd, AppAccept(f)
  PROVE  RoutingInv'
<1> USE RoutingAssumption, LiveFacts
        DEF RoutingInv, Client, Live,
            kernelVars, masterVars, connVars, writeVars, history, AppAccept
<1>1. TypeOK'
  BY DEF TypeOK, Stages, Id, Free, App, NoFd
<1>2. OwnerIsLive'
  BY DEF OwnerIsLive, TypeOK, Free, App, StageOfNumber
<1>3. WriterInv'
  BY DEF WriterInv, TypeOK, DeadIsUnmapped, OwnerIsLive, Free, App, StageOfNumber
<1>4. IdSequence' /\ StageOfNumber' /\ EntryIsLatest' /\ LiveIsMapped' /\ DeadIsUnmapped' /\ MisdeliveredOnlyAfterClose' /\ DroppedOnlyIfDead'
  BY DEF IdSequence, StageOfNumber, EntryIsLatest, LiveIsMapped, DeadIsUnmapped, MisdeliveredOnlyAfterClose, DroppedOnlyIfDead, LatestOn, MapFinds
<1> QED BY <1>1, <1>2, <1>3, <1>4

\* AppClose: an app server's descriptor is no live connection's.
LEMMA AppCloseKeepsInv ==
  ASSUME RoutingInv, NEW f \in Fd, AppClose(f)
  PROVE  RoutingInv'
<1> USE RoutingAssumption, LiveFacts
        DEF RoutingInv, Client, Live,
            kernelVars, masterVars, connVars, writeVars, history, AppClose
<1>1. TypeOK'
  BY DEF TypeOK, Stages, Id, Free, App, NoFd
<1>2. OwnerIsLive'
  BY DEF OwnerIsLive, TypeOK, Free, App, StageOfNumber
<1>3. WriterInv'
  BY DEF WriterInv, TypeOK, DeadIsUnmapped, OwnerIsLive, Free, App, StageOfNumber
<1>4. IdSequence' /\ StageOfNumber' /\ EntryIsLatest' /\ LiveIsMapped' /\ DeadIsUnmapped' /\ MisdeliveredOnlyAfterClose' /\ DroppedOnlyIfDead'
  BY DEF IdSequence, StageOfNumber, EntryIsLatest, LiveIsMapped, DeadIsUnmapped, MisdeliveredOnlyAfterClose, DroppedOnlyIfDead, LatestOn, MapFinds
<1> QED BY <1>1, <1>2, <1>3, <1>4

\* Restart: every connection is closed and the map is empty.
LEMMA RestartKeepsInv ==
  ASSUME RoutingInv, Restart
  PROVE  RoutingInv'
<1> USE RoutingAssumption, LiveFacts
        DEF RoutingInv, Client, Live,
            kernelVars, masterVars, connVars, writeVars, history, Restart
<1>1. TypeOK'
  <2>1. DOMAIN map_csfd_id_' = {}
    BY DEF EmptyMap
  <2>2. stage' \in [Client -> Stages]
    BY DEF TypeOK, Stages
  <2>3. restarts' \in 0..MaxRestarts /\ id_' \in Id
    BY DEF TypeOK, Id
  <2> QED BY <2>1, <2>2, <2>3 DEF TypeOK
<1>2. IdSequence'
  <2>1. IdPeriod \in Nat \ {0}
    BY DEF IdPeriod
  <2>2. 0 % IdPeriod = 0
    BY <2>1, ModBelowTwice
  <2>3. accepted - accepted = 0
    OBVIOUS
  <2> QED BY <2>2, <2>3 DEF IdSequence, IdPeriod
<1>3. StageOfNumber'
  BY DEF StageOfNumber, TypeOK, DeadIsUnmapped, OwnerIsLive
<1>4. OwnerIsLive'
  BY DEF OwnerIsLive, TypeOK, Free, App, StageOfNumber
<1>5. EntryIsLatest'
  BY DEF EntryIsLatest, TypeOK, LatestOn, StageOfNumber, EmptyMap
<1>6. LiveIsMapped'
  BY DEF LiveIsMapped, TypeOK, MapFinds, OwnerIsLive, EmptyMap
<1>7. DeadIsUnmapped'
  BY DEF DeadIsUnmapped, TypeOK, StageOfNumber, LiveIsMapped, EmptyMap
<1>8. WriterInv'
  BY DEF WriterInv, TypeOK, DeadIsUnmapped, OwnerIsLive, Free, App, StageOfNumber
<1>9. MisdeliveredOnlyAfterClose'
  BY DEF MisdeliveredOnlyAfterClose, WriterInv, TypeOK
<1>10. DroppedOnlyIfDead'
  BY DEF DroppedOnlyIfDead, DeadIsUnmapped, LiveIsMapped, TagMatches, ReplyTag, MapFinds, TypeOK
<1> QED BY <1>1, <1>2, <1>3, <1>4, <1>5, <1>6, <1>7, <1>8, <1>9, <1>10

-----------------------------------------------------------------------------
\* Every step of every thread, and a restart, keeps the invariant.
LEMMA StepKeepsInv == RoutingInv /\ [Next]_vars => RoutingInv'
<1> SUFFICES ASSUME RoutingInv, [Next]_vars PROVE RoutingInv'
  OBVIOUS
<1>1. CASE Master
  BY <1>1, AcceptKeepsInv, AcceptFailsKeepsInv, AcceptErasesKeepsInv,
     AcceptDispatchesKeepsInv DEF Master
<1>2. ASSUME NEW c \in Client, Worker(c) PROVE RoutingInv'
  BY <1>2, ConnNewKeepsInv, ConnNewFailsKeepsInv, TokenAcceptedKeepsInv,
     TokenRejectedKeepsInv, ForwardRequestKeepsInv, ErrorCbErasesKeepsInv,
     ErrorCbClosesKeepsInv DEF Worker
<1>3. CASE Transport
  BY <1>3, SendToClientKeepsInv, DropReplyKeepsInv, WritePieceKeepsInv,
     WriteFailsKeepsInv, AppAcceptKeepsInv, AppCloseKeepsInv DEF Transport
<1>4. CASE UNCHANGED vars
  BY <1>4 DEF vars, kernelVars, masterVars, connVars, writeVars, history,
     RoutingInv, TypeOK, IdSequence, StageOfNumber, OwnerIsLive, EntryIsLatest,
     LatestOn, LiveIsMapped, MapFinds, DeadIsUnmapped, WriterInv,
     MisdeliveredOnlyAfterClose, DroppedOnlyIfDead
<1> QED BY <1>1, <1>2, <1>3, <1>4, RestartKeepsInv DEF Next

\* The inductive invariant holds in every reachable state.
THEOREM RoutingInvariant == Spec => []RoutingInv
BY InitHolds, StepKeepsInv, PTL DEF Spec

\* Every variable keeps its type; in particular ids stay in 0..IdMax+1.
THEOREM TypeCorrect == Spec => []TypeOK
<1>1. RoutingInv => TypeOK
  BY DEF RoutingInv
<1> QED BY <1>1, RoutingInvariant, PTL

\* A reply reaches somebody else only after its own client's connection was
\* closed: SendToClient never takes a reply from a client that is connected.
THEOREM MisdeliveryIsLate == Spec => []MisdeliveredOnlyAfterClose
<1>1. RoutingInv => MisdeliveredOnlyAfterClose
  BY DEF RoutingInv
<1> QED BY <1>1, RoutingInvariant, PTL

\* SendToClient drops a reply only if the connection that asked is dead.
THEOREM DropsAreRight == Spec => []DroppedOnlyIfDead
<1>1. RoutingInv => DroppedOnlyIfDead
  BY DEF RoutingInv
<1> QED BY <1>1, RoutingInvariant, PTL

\* A tag found in the map is the tag of the descriptor's present owner: an
\* entry left by a later client has another id, as long as fewer than
\* IdPeriod clients were accepted since (ModDistinct).
LEMMA MatchIsExact ==
  ASSUME RoutingInv, NEW c \in asked, TagMatches(c), Fresh(c)
  PROVE  stage[c] = "verified" /\ owner[conn_sfd[c]] = c
<1> USE RoutingAssumption, LiveFacts DEF RoutingInv
<1>1. stage[c] \in {"verified", "erased", "closed"}
  BY DEF DeadIsUnmapped
<1>2. CASE stage[c] = "verified"
  BY <1>2 DEF Live
<1>3. CASE stage[c] = "erased"
  BY <1>3 DEF LiveIsMapped, TagMatches, ReplyTag, MapFinds
<1>4. ASSUME stage[c] = "closed" PROVE FALSE
  <2>1. conn_sfd[c] \in DOMAIN map_csfd_id_ /\ map_csfd_id_[conn_sfd[c]] = conn_id[c]
    BY DEF TagMatches, ReplyTag, MapFinds
  <2>2. PICK k \in (c + 1)..accepted : conn_sfd[k] = conn_sfd[c]
    BY <1>4, <2>1 DEF DeadIsUnmapped, Fresh
  <2>3. PICK m \in Client : LatestOn(m, conn_sfd[c]) /\ conn_id[c] = conn_id[m]
    BY <2>1 DEF EntryIsLatest
  <2>4. c \in (base + 1)..accepted /\ k \in (base + 1)..accepted
    BY DEF Fresh, Client
  <2>5. m \in (base + 1)..accepted /\ k <= m
    BY <2>2, <2>3, <2>4 DEF LatestOn
  <2>6. (m - base) % IdPeriod = (c - base) % IdPeriod
    BY <2>3, <2>4, <2>5 DEF IdSequence
  <2>7. /\ c - base \in Nat /\ m - base \in Nat /\ IdPeriod \in Nat \ {0}
        /\ c - base < m - base /\ (m - base) - (c - base) < IdPeriod
    BY <2>4, <2>5 DEF Fresh, IdPeriod, Client
  <2> QED BY <2>6, <2>7, ModDistinct
<1> QED BY <1>1, <1>2, <1>3, <1>4

\* The check of SendToClient is exact for every reply that is younger than
\* the process and than one turn of the ids.
THEOREM MatchIsSafe == Spec => MatchFindsOwner
<1>1. ASSUME RoutingInv, [Next]_vars, Matched, Fresh(tclient')
      PROVE  owner[conn_sfd[tclient']] = tclient'
  <2>1. PICK c \in Client : SendToClient(c)
    <3>1. ~UNCHANGED vars
      BY <1>1 DEF Matched, vars, writeVars
    <3>2. ~Master /\ ~Restart /\ \A c \in Client : ~Worker(c)
      BY <1>1 DEF Matched, Master, Accept, AcceptFails, AcceptErases, AcceptDispatches,
         Restart, Worker, ConnNew, ConnNewFails, TokenAccepted, TokenRejected,
         ForwardRequest, ErrorCbErases, ErrorCbCloses, writeVars
    <3>3. ~WritePiece /\ ~WriteFails /\ \A f \in Fd : ~AppAccept(f) /\ ~AppClose(f)
      BY <1>1 DEF Matched, WritePiece, WriteFails, AppAccept, AppClose, writeVars
    <3>4. \A c \in Client : ~DropReply(c)
      BY <1>1 DEF Matched, DropReply, writeVars
    <3> QED BY <1>1, <3>1, <3>2, <3>3, <3>4 DEF Next, Transport
  <2>2. c \in asked /\ TagMatches(c) /\ tclient' = c
    BY <2>1 DEF SendToClient
  <2> QED BY <1>1, <2>2, MatchIsExact
<1>2. RoutingInv /\ [Next]_vars =>
        [Matched /\ Fresh(tclient') => owner[conn_sfd[tclient']] = tclient']_vars
  BY <1>1
<1> QED BY <1>2, RoutingInvariant, PTL DEF Spec, MatchFindsOwner

-----------------------------------------------------------------------------
(* ClientRouting implements ReplyService.                                  *)

LEMMA InitRefines == Init => RS!Init
<1> SUFFICES ASSUME Init PROVE RS!Init
  OBVIOUS
<1>1. Seen = [c \in Client |-> "none"]
  BY DEF Init, Seen
<1> QED BY <1>1 DEF Init, RS!Init

\* A step after which each client sees of its connection what it saw before.
LEMMA ServiceStutters ==
  ASSUME UNCHANGED <<accepted, base, asked, tpc, tclient, history>>,
         \A c \in Client : Seen[c]' = Seen[c]
  PROVE  UNCHANGED RS!vars
<1>1. Seen' = Seen
  BY DEF Seen
<1> QED BY <1>1 DEF RS!vars, RS!clients, RS!replies, history

\* A step that changes only the stage of one client.
LEMMA SeenChanges ==
  ASSUME TypeOK, NEW c \in Client, NEW new, stage' = [stage EXCEPT ![c] = new]
  PROVE  Seen' = [Seen EXCEPT ![c] = IF new \in {"queued", "open", "verified"} THEN "open"
                                     ELSE IF new = "erased" THEN "leaving" ELSE new]
<1>1. stage'[c] = new /\ \A d \in Client : d # c => stage'[d] = stage[d]
  BY DEF TypeOK
<1> QED BY <1>1 DEF Seen

LEMMA AcceptRefines ==
  ASSUME RoutingInv, AcceptDispatches
  PROVE  RS!Accept
<1>1. accepted + 1 \in Client /\ accepted' = accepted + 1
  BY LiveFacts DEF AcceptDispatches
<1>2. stage' = [stage EXCEPT ![accepted + 1] = "queued"]
  BY DEF AcceptDispatches
<1>3. Seen' = [Seen EXCEPT ![accepted + 1] = "open"]
  BY <1>1, <1>2, SeenChanges DEF RoutingInv
<1>4. UNCHANGED <<base, asked, writeVars, history>>
  BY DEF AcceptDispatches
<1> QED BY <1>1, <1>3, <1>4 DEF RS!Accept, RS!replies, writeVars, history

LEMMA WorkerRefines ==
  ASSUME RoutingInv, NEW c \in Client, Worker(c)
  PROVE  [RS!Next]_(RS!vars)
<1>1. /\ TypeOK /\ stage[c] \in Stages
      /\ c \in asked => stage[c] \in {"verified", "erased", "closed"}
  BY DEF RoutingInv, TypeOK, DeadIsUnmapped
<1>2. CASE ConnNew(c) \/ TokenAccepted(c)
  <2>1. /\ UNCHANGED <<accepted, base, asked, tpc, tclient, history>>
        /\ stage[c] \in {"queued", "open"}
        /\ stage' = [stage EXCEPT ![c] = "open"] \/ stage' = [stage EXCEPT ![c] = "verified"]
    BY <1>2 DEF ConnNew, TokenAccepted, masterVars, writeVars, history
  <2>2. \A d \in Client : \/ stage'[d] = stage[d]
                          \/ d = c /\ stage'[d] \in {"open", "verified"}
    BY <1>1, <2>1 DEF TypeOK
  <2>3. \A d \in Client : Seen[d]' = Seen[d]
    BY <2>1, <2>2 DEF Seen
  <2> QED BY <2>1, <2>3, ServiceStutters
<1>3. CASE ForwardRequest(c)
  <2>1. UNCHANGED <<accepted, base, stage, writeVars, history>> /\ stage[c] = "verified" /\ asked' = asked \cup {c}
    BY <1>3 DEF ForwardRequest, masterVars
  <2>2. Seen' = Seen /\ Seen[c] = "open"
    BY <2>1 DEF Seen
  <2>3. RS!Ask(c)
    BY <2>1, <2>2 DEF RS!Ask, RS!replies, writeVars, history
  <2> QED BY <2>3 DEF RS!Next
<1>4. CASE ErrorCbErases(c)
  <2>1. /\ UNCHANGED <<accepted, base, asked, writeVars, history>>
        /\ stage[c] \in {"open", "verified"} /\ stage' = [stage EXCEPT ![c] = "erased"]
    BY <1>4 DEF ErrorCbErases, masterVars
  <2>2. Seen' = [Seen EXCEPT ![c] = "leaving"] /\ Seen[c] = "open"
    <3>1. Seen' = [Seen EXCEPT ![c] = "leaving"]
      BY <1>1, <2>1, SeenChanges
    <3> QED BY <2>1, <3>1 DEF Seen
  <2>3. RS!Leave(c)
    BY <2>1, <2>2 DEF RS!Leave, RS!replies, writeVars, history
  <2> QED BY <2>3 DEF RS!Next
<1>5. CASE ConnNewFails(c) \/ TokenRejected(c) \/ ErrorCbCloses(c)
  <2>1. /\ UNCHANGED <<accepted, base, asked, writeVars, history>>
        /\ stage[c] \in {"queued", "open", "erased"} /\ stage' = [stage EXCEPT ![c] = "closed"]
    BY <1>5 DEF ConnNewFails, TokenRejected, ErrorCbCloses, masterVars
  <2>2. Seen' = [Seen EXCEPT ![c] = "closed"]
    BY <1>1, <2>1, SeenChanges
  <2>3. Seen[c] = "leaving" \/ (Seen[c] = "open" /\ c \notin asked)
    BY <1>1, <2>1 DEF Seen
  <2>4. RS!Close(c)
    BY <2>1, <2>2, <2>3 DEF RS!Close, RS!replies, writeVars, history
  <2> QED BY <2>4 DEF RS!Next
<1> QED BY <1>2, <1>3, <1>4, <1>5 DEF Worker

\* A tag that is found is the one of a client that is there, or of one so old
\* that ids have come again.
LEMMA ReplyRefines ==
  ASSUME RoutingInv, NEW c \in Client, SendToClient(c)
  PROVE  RS!Reply(c)
<1>1. /\ tpc = "read" /\ tpc' = "write" /\ tclient' = c /\ c \in asked /\ TagMatches(c)
      /\ UNCHANGED <<accepted, base, asked, stage, history>>
  BY DEF SendToClient, masterVars, connVars
<1>2. Seen' = Seen
  BY <1>1 DEF Seen
<1>3. stage[c] = "verified" \/ (stage[c] = "closed" /\ ~Fresh(c))
  <2>1. Fresh(c) => stage[c] = "verified"
    BY <1>1, MatchIsExact
  <2>2. stage[c] \in {"verified", "erased", "closed"}
    BY <1>1 DEF RoutingInv, DeadIsUnmapped
  <2>3. stage[c] # "erased"
    BY <1>1 DEF RoutingInv, LiveIsMapped, TagMatches, ReplyTag, MapFinds
  <2> QED BY <2>1, <2>2, <2>3
<1>4. Seen[c] = "open" \/ (Seen[c] = "closed" /\ ~RS!Fresh(c))
  BY <1>3 DEF Seen, Fresh, RS!Fresh
<1>5. c # 0
  BY DEF Client
<1> QED BY <1>1, <1>2, <1>4, <1>5 DEF RS!Reply, RS!clients, history

LEMMA DropRefines ==
  ASSUME RoutingInv, NEW c \in Client, DropReply(c)
  PROVE  RS!Drop(c)
<1>1. /\ tpc = "read" /\ c \in asked /\ ~TagMatches(c) /\ dropped' = dropped \cup {c}
      /\ UNCHANGED <<accepted, base, asked, stage, tpc, tclient, received>>
  BY DEF DropReply, masterVars, connVars, writeVars
<1>2. Seen' = Seen
  BY <1>1 DEF Seen
<1>3. stage[c] \in {"erased", "closed"}
  <2>1. stage[c] \in {"verified", "erased", "closed"}
    BY <1>1 DEF RoutingInv, DeadIsUnmapped
  <2>2. stage[c] # "verified"
    BY <1>1 DEF RoutingInv, LiveIsMapped, TagMatches, ReplyTag
  <2> QED BY <2>1, <2>2
<1>4. Seen[c] \in {"leaving", "closed"}
  BY <1>3 DEF Seen
<1> QED BY <1>1, <1>2, <1>4 DEF RS!Drop, RS!clients

\* What is being written reaches its client as long as that has not closed.
LEMMA DeliverRefines ==
  ASSUME RoutingInv, WritePiece
  PROVE  RS!Deliver
<1> DEFINE r == owner[conn_sfd[tclient]]
<1>1. /\ tpc = "write" /\ r # Free /\ received' = received \cup {<<r, tclient>>}
      /\ tpc' \in {"read", "write"}
      /\ UNCHANGED <<accepted, base, asked, stage, tclient, dropped>>
  BY DEF WritePiece, masterVars, connVars
<1>2. tclient \in asked /\ (stage[tclient] = "closed" \/ r = tclient)
  BY <1>1 DEF RoutingInv, WriterInv
<1>3. tclient \in Client /\ tclient # 0 /\ conn_sfd[tclient] \in Fd
  BY <1>2, LiveFacts DEF RoutingInv, StageOfNumber, Client
<1>4. r \in Client \cup {App}
  <2>1. owner \in [Fd -> Client \cup {Free, App}]
    BY DEF RoutingInv, TypeOK
  <2> QED BY ONLY <1>1, <1>3, <2>1
<1>5. Seen' = Seen /\ (Seen[tclient] # "closed" => r = tclient)
  BY <1>1, <1>2, <1>3 DEF Seen
<1> HIDE DEF r
<1> QED BY <1>1, <1>3, <1>4, <1>5 DEF RS!Deliver, RS!clients

LEMMA GiveUpRefines ==
  ASSUME RoutingInv, WriteFails
  PROVE  RS!GiveUp
<1>1. /\ tpc = "write" /\ tpc' = "read"
      /\ UNCHANGED <<accepted, base, asked, stage, history>>
  BY DEF WriteFails, masterVars, connVars
<1>2. tclient # 0
  BY <1>1, LiveFacts DEF RoutingInv, WriterInv, Client
<1>3. Seen' = Seen
  BY <1>1 DEF Seen
<1> QED BY <1>1, <1>2, <1>3 DEF RS!GiveUp, RS!clients, history

LEMMA RestartRefines ==
  ASSUME RoutingInv, Restart
  PROVE  RS!Restart
<1>1. /\ base' = accepted /\ tpc' = "read"
      /\ stage' = [c \in Client |-> IF stage[c] = "none" THEN "none" ELSE "closed"]
      /\ UNCHANGED <<accepted, asked, history>>
  BY DEF Restart
<1>2. \A c \in Client : stage[c] = "none" <=> ~(c <= accepted)
  BY LiveFacts DEF RoutingInv, StageOfNumber, Client
<1>3. Seen' = [c \in Client |-> IF c <= accepted THEN "closed" ELSE "none"]
  BY <1>1, <1>2 DEF Seen
<1> QED BY <1>1, <1>3 DEF RS!Restart, history

\* Every behaviour of the routing is one of the service that knows its
\* clients: descriptors that are used again, entries that stay behind and ids
\* that wrap around do not show, but for replies older than the process or
\* than one turn of the ids, and for connections that close during a write.
THEOREM RoutingRefinesService == Spec => ImplementsReplyService
<1>1. ASSUME RoutingInv, [Next]_vars PROVE [RS!Next]_(RS!vars)
  <2>1. CASE \/ \E f \in Fd : Accept(f) \/ AppAccept(f) \/ AppClose(f)
             \/ AcceptFails \/ AcceptErases \/ UNCHANGED vars
    <3>1. UNCHANGED <<accepted, base, asked, stage, tpc, tclient, history>>
      BY <2>1 DEF Accept, AppAccept, AppClose, AcceptFails, AcceptErases, vars,
         masterVars, connVars, writeVars, history
    <3>2. \A c \in Client : Seen[c]' = Seen[c]
      BY <3>1 DEF Seen
    <3> QED BY <3>1, <3>2, ServiceStutters
  <2>2. CASE AcceptDispatches
    BY <1>1, <2>2, AcceptRefines DEF RS!Next
  <2>3. ASSUME NEW c \in Client, Worker(c) PROVE [RS!Next]_(RS!vars)
    BY <1>1, <2>3, WorkerRefines
  <2>4. ASSUME NEW c \in Client, SendToClient(c) \/ DropReply(c) PROVE RS!Next
    BY <1>1, <2>4, ReplyRefines, DropRefines DEF RS!Next
  <2>5. CASE WritePiece \/ WriteFails \/ Restart
    BY <1>1, <2>5, DeliverRefines, GiveUpRefines, RestartRefines DEF RS!Next
  <2> QED BY <1>1, <2>1, <2>2, <2>3, <2>4, <2>5 DEF Next, Master, Transport
<1> QED BY <1>1, InitRefines, RoutingInvariant, PTL DEF Spec, ImplementsReplyService, RS!Spec
=============================================================================
