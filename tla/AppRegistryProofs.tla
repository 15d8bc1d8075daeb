-------------------------- MODULE AppRegistryProofs --------------------------
(***************************************************************************)
(* Safety of the table of app servers, for any number of descriptors, app  *)
(* servers, connections and restarts.                                      *)
(***************************************************************************)
EXTENDS AppRegistry, TLAPS

Open == {"open", "registered"}

\* A connection has a number once it is there, and a descriptor while it is
\* open.
StageIsNumbered ==
  \A c \in Conn : /\ stage[c] = "none" <=> c \notin Opened
                  /\ stage[c] \in {"none", "connecting"} => conn_sfd[c] = Free
                  /\ stage[c] \in Open => conn_sfd[c] \in Fd

\* Connections are accepted in the order they come in.
AcceptedInOrder ==
  \A c, d \in Opened : c < d /\ stage[c] = "connecting" => stage[d] = "connecting"

\* The descriptor table and the connections agree.
OwnerIsOpen ==
  \A f \in Fd, c \in Conn : owner[f] = c <=> stage[c] \in Open /\ conn_sfd[c] = f

\* The owner of a descriptor is the last connection accepted on it.
OwnerIsLatest ==
  \A c, d \in Opened : stage[c] \in Open /\ conn_sfd[d] = conn_sfd[c] => d <= c

\* ErrorCb in the middle: what it still has to do tells what is still there.
ErrorInv ==
  /\ tpc = "loop" => todo = {}
  /\ tpc = "error" =>
       /\ tconn \in Opened /\ conn_sfd[tconn] \in Fd
       /\ todo # {} /\ todo \subseteq {"erase", "close"}
       /\ "close" \in todo => stage[tconn] \in Open
       /\ "close" \notin todo => stage[tconn] = "closed" /\ owner[conn_sfd[tconn]] \notin Conn
       /\ "erase" \notin todo =>
            \A n \in DOMAIN map_appServer_sfd_ : map_appServer_sfd_[n] # conn_sfd[tconn]

\* An entry belongs to the last connection accepted on its descriptor, which
\* is registered or being taken out.
EntryIsLatest ==
  \A n \in DOMAIN map_appServer_sfd_ : \E c \in Opened :
    /\ conn_sfd[c] = map_appServer_sfd_[n] /\ Name(c) = n
    /\ stage[c] = "registered" \/ BeingErased(c)
    /\ \A d \in Opened : conn_sfd[d] = conn_sfd[c] => d <= c

\* When a connection is registered, the older ones of its app server are
\* closed.
OldOnesStayClosed ==
  \A c, d \in Opened : d < c /\ from[d] = from[c] /\ stage[c] = "registered"
                       => stage[d] = "closed"

\* The worker writes to the connection it has found, or to one that closed.
SenderInv ==
  /\ spc = "write" => /\ sconn \in Opened /\ conn_sfd[sconn] \in Fd
                      /\ Name(sconn) = sname
                      /\ sleft > 0
                      /\ stage[sconn] = "closed" \/ owner[conn_sfd[sconn]] = sconn
  /\ reached # Free => sconn \in Opened

RegistryInv ==
  /\ TypeOK
  /\ StageIsNumbered
  /\ AcceptedInOrder
  /\ OwnerIsOpen
  /\ OwnerIsLatest
  /\ ErrorInv
  /\ EntryIsLatest
  /\ OldOnesStayClosed
  /\ SenderInv
  /\ AstrayOnlyAfterClose
  /\ AloneIsRoutable

\* The parts of TypeOK that proofs use with arithmetic.
LEMMA TypeParts ==
  ASSUME TypeOK
  PROVE  /\ owner \in [Fd -> Conn \cup {Free, Client}]
         /\ stage \in [Conn -> {"none", "connecting", "open", "registered", "closed"}]
         /\ conn_sfd \in [Conn -> Fd \cup {Free}]
         /\ from \in Seq(Instance) /\ Len(from) <= MaxConns
         /\ sleft \in 0..Pieces /\ restarts \in 0..MaxRestarts
BY DEF TypeOK

\* Numbers and the two other kinds of owners are apart.
LEMMA Facts ==
  ASSUME TypeOK
  PROVE  /\ Opened \subseteq Conn /\ Conn \subseteq Nat \ {0}
         /\ Free \notin Conn /\ Client \notin Conn /\ Free # Client
         /\ Free \notin Fd
         /\ owner \in [Fd -> Conn \cup {Free, Client}]
         /\ stage \in [Conn -> {"none", "connecting", "open", "registered", "closed"}]
         /\ conn_sfd \in [Conn -> Fd \cup {Free}]
<1>1. Opened \subseteq Conn BY TypeParts, AppRegistryAssumption DEF Opened, Conn
<1>2. Conn \subseteq Nat \ {0} BY AppRegistryAssumption DEF Conn
<1>3. Free \notin Conn /\ Client \notin Conn /\ Free # Client BY <1>2 DEF Free, Client
<1>4. Free \notin Fd BY AppRegistryAssumption DEF Free
<1> QED BY <1>1, <1>2, <1>3, <1>4, TypeParts

-----------------------------------------------------------------------------
(* The initial state and every step.                                       *)

LEMMA InitRegistryInv == Init => RegistryInv
<1> SUFFICES ASSUME Init PROVE RegistryInv
  OBVIOUS
<1>1. Opened = {} /\ DOMAIN map_appServer_sfd_ = {}
  <2>1. from = <<>> /\ map_appServer_sfd_ = EmptyMap BY DEF Init
  <2>2. Opened = {} BY <2>1 DEF Opened
  <2> QED BY <2>1, <2>2 DEF EmptyMap
<1>2. Conn \cap {Free, Client} = {} /\ Free \notin Fd
  <2>1. Conn \subseteq Nat \ {0} BY AppRegistryAssumption DEF Conn
  <2> QED BY <2>1, AppRegistryAssumption DEF Free, Client
<1>3. sleft \in 0..Pieces /\ restarts \in 0..MaxRestarts /\ from \in Seq(Instance) /\ Len(from) <= MaxConns
  <2>1. sleft = 0 /\ restarts = 0 /\ from = <<>> BY DEF Init
  <2> QED BY <2>1, AppRegistryAssumption
<1> USE DEF Init
<1>4. TypeOK
  BY <1>1, <1>3 DEF TypeOK
<1>5. StageIsNumbered /\ AcceptedInOrder /\ OwnerIsLatest /\ OldOnesStayClosed
  BY <1>1 DEF StageIsNumbered, AcceptedInOrder, OwnerIsLatest, OldOnesStayClosed, Open
<1>6. OwnerIsOpen
  BY <1>2 DEF OwnerIsOpen, Open
<1>7. ErrorInv /\ EntryIsLatest /\ SenderInv /\ AstrayOnlyAfterClose /\ AloneIsRoutable
  BY <1>1 DEF ErrorInv, EntryIsLatest, SenderInv, AstrayOnlyAfterClose, AloneIsRoutable
<1> QED BY <1>4, <1>5, <1>6, <1>7 DEF RegistryInv

\* A new connection has the next number and no descriptor.
LEMMA ConnectKeepsInv ==
  ASSUME RegistryInv, NEW a \in Instance, Connect(a)
  PROVE  RegistryInv'
<1> USE DEF RegistryInv, connVars, transportVars, senderVars, Connect
<1> DEFINE k == Len(from) + 1
<1>1. /\ k \in Conn /\ k \notin Opened /\ Opened' = Opened \cup {k} /\ Opened \subseteq Conn
      /\ from' \in Seq(Instance) /\ Len(from') = k
      /\ \A d \in Opened : d < k /\ from'[d] = from[d]
  BY TypeParts, AppRegistryAssumption DEF Opened, Conn
<1>2. \A d \in Opened : Name(d)' = Name(d)
  BY <1>1 DEF Name
<1>3. stage[k] = "none" /\ conn_sfd[k] = Free
  BY <1>1 DEF StageIsNumbered
<1>4. /\ stage'[k] = "connecting" /\ stage' \in [Conn -> {"none", "connecting", "open", "registered", "closed"}]
      /\ \A d \in Conn : d # k => stage'[d] = stage[d]
  BY <1>1, Facts
<1>5. TypeOK'
  <2>1. Len(from') <= MaxConns
    BY <1>1
  <2>2. up' \in [Conn -> BOOLEAN]
    BY DEF TypeOK
  <2> HIDE DEF k
  <2> QED BY <1>1, <1>4, <2>1, <2>2 DEF TypeOK
<1> HIDE DEF k
<1> USE <1>1, <1>3, <1>4
<1>6. AcceptedInOrder'
  BY Facts DEF AcceptedInOrder
<1>7. OwnerIsOpen'
  BY DEF OwnerIsOpen, Open
<1>8. OwnerIsLatest'
  BY Facts DEF OwnerIsLatest, StageIsNumbered, Open
<1>9. EntryIsLatest'
  <2> SUFFICES ASSUME NEW n \in DOMAIN map_appServer_sfd_
               PROVE  EntryIsLatest!(n)'
    BY DEF EntryIsLatest
  <2>1. PICK c \in Opened : /\ conn_sfd[c] = map_appServer_sfd_[n] /\ Name(c) = n
                            /\ stage[c] = "registered" \/ BeingErased(c)
                            /\ \A d \in Opened : conn_sfd[d] = conn_sfd[c] => d <= c
    BY DEF EntryIsLatest
  <2>2. conn_sfd[c] # Free
    BY <2>1, Facts DEF BeingErased, ErrorInv, StageIsNumbered, Open
  <2> QED BY <1>2, <2>1, <2>2 DEF BeingErased
<1>10. OldOnesStayClosed'
  BY Facts DEF OldOnesStayClosed
<1>11. AstrayOnlyAfterClose'
  BY <1>2 DEF AstrayOnlyAfterClose, SenderInv
<1>12. AloneIsRoutable'
  <2> SUFFICES ASSUME NEW d \in Opened', stage'[d] = "registered", ~(tpc = "error" /\ tconn = d),
                      \A b \in Instance : NameOf[b] = Name(d)' => b = from'[d]
               PROVE  Name(d)' \in DOMAIN map_appServer_sfd_ /\ map_appServer_sfd_[Name(d)'] = conn_sfd[d]
    BY DEF AloneIsRoutable
  <2>1. d \in Opened /\ stage[d] = "registered" OBVIOUS
  <2>2. \A b \in Instance : NameOf[b] = Name(d) => b = from[d] BY <1>2, <2>1
  <2> QED BY <1>2, <2>1, <2>2 DEF AloneIsRoutable
<1>13. StageIsNumbered'
  BY Facts DEF StageIsNumbered, Opened, Open
<1>14. ErrorInv'
  BY Facts DEF ErrorInv, Opened, Open
<1>15. SenderInv'
  BY Facts DEF SenderInv, Opened, Name
<1> QED BY <1>4, <1>5, <1>6, <1>7, <1>8, <1>9, <1>10, <1>11, <1>12, <1>13, <1>14, <1>15

\* Nothing at the gateway changes.
LEMMA PeerEndsKeepsInv ==
  ASSUME RegistryInv, NEW c \in Conn, PeerEnds(c)
  PROVE  RegistryInv'
<1> USE DEF RegistryInv, connVars, transportVars, senderVars, PeerEnds
<1>1. /\ StageIsNumbered' /\ AcceptedInOrder' /\ OwnerIsOpen' /\ OwnerIsLatest'
      /\ ErrorInv' /\ EntryIsLatest' /\ OldOnesStayClosed' /\ SenderInv' /\ AstrayOnlyAfterClose' /\ AloneIsRoutable'
  BY DEF StageIsNumbered, AcceptedInOrder, OwnerIsOpen, OwnerIsLatest, ErrorInv,
         EntryIsLatest, OldOnesStayClosed, SenderInv, AstrayOnlyAfterClose, AloneIsRoutable, Opened, BeingErased, Name
<1>2. TypeOK'
  BY AppRegistryAssumption, Facts DEF TypeOK, ErrorInv, SenderInv, Opened, Conn, Free, Client
<1> QED BY <1>1, <1>2

\* A client gets a descriptor that is free.
LEMMA ClientAcceptKeepsInv ==
  ASSUME RegistryInv, NEW f \in Fd, ClientAccept(f)
  PROVE  RegistryInv'
<1> USE DEF RegistryInv, connVars, transportVars, senderVars, ClientAccept
<1>1. /\ StageIsNumbered' /\ AcceptedInOrder' /\ OwnerIsLatest' /\ EntryIsLatest'
      /\ OldOnesStayClosed' /\ AstrayOnlyAfterClose' /\ AloneIsRoutable'
  BY DEF StageIsNumbered, AcceptedInOrder, OwnerIsLatest, EntryIsLatest, OldOnesStayClosed,
         AstrayOnlyAfterClose, AloneIsRoutable, Opened, BeingErased, Name
<1>2. TypeOK'
  BY AppRegistryAssumption, Facts DEF TypeOK, ErrorInv, SenderInv, Opened, Conn, Free, Client
<1>3. OwnerIsOpen'
  BY Facts DEF OwnerIsOpen, Opened, Open
<1>4. ErrorInv'
  BY Facts DEF ErrorInv, Opened, Open
<1>5. SenderInv'
  BY Facts DEF SenderInv, Opened, Name
<1> QED BY <1>1, <1>2, <1>3, <1>4, <1>5

\* A client gives its descriptor back.
LEMMA ClientCloseKeepsInv ==
  ASSUME RegistryInv, NEW f \in Fd, ClientClose(f)
  PROVE  RegistryInv'
<1> USE DEF RegistryInv, connVars, transportVars, senderVars, ClientClose
<1>1. /\ StageIsNumbered' /\ AcceptedInOrder' /\ OwnerIsLatest' /\ EntryIsLatest'
      /\ OldOnesStayClosed' /\ AstrayOnlyAfterClose' /\ AloneIsRoutable'
  BY DEF StageIsNumbered, AcceptedInOrder, OwnerIsLatest, EntryIsLatest, OldOnesStayClosed,
         AstrayOnlyAfterClose, AloneIsRoutable, Opened, BeingErased, Name
<1>2. TypeOK'
  BY AppRegistryAssumption, Facts DEF TypeOK, ErrorInv, SenderInv, Opened, Conn, Free, Client
<1>3. OwnerIsOpen'
  BY Facts DEF OwnerIsOpen, Opened, Open
<1>4. ErrorInv'
  BY Facts DEF ErrorInv, Opened, Open
<1>5. SenderInv'
  BY Facts DEF SenderInv, Opened, Name
<1> QED BY <1>1, <1>2, <1>3, <1>4, <1>5

\* The connection that is accepted is the last one on its descriptor.
LEMMA AcceptCbKeepsInv ==
  ASSUME RegistryInv, NEW c \in Conn, NEW f \in Fd, AcceptCb(c, f)
  PROVE  RegistryInv'
<1> USE DEF RegistryInv, connVars, transportVars, senderVars, AcceptCb, NextConnecting
<1>1. TypeOK'
  BY AppRegistryAssumption, Facts DEF TypeOK, ErrorInv, SenderInv, Opened, Conn, Free, Client
<1>2. StageIsNumbered'
  BY Facts DEF StageIsNumbered, Opened, Open
<1>3. AcceptedInOrder'
  BY Facts DEF AcceptedInOrder, Opened, StageIsNumbered
<1>4. OwnerIsOpen'
  BY Facts DEF OwnerIsOpen, Opened, Open
<1>5. OwnerIsLatest'
  BY Facts DEF OwnerIsLatest, Open, OwnerIsOpen, StageIsNumbered, AcceptedInOrder, Opened
<1>6. ErrorInv'
  BY Facts DEF ErrorInv, Opened, Open
<1>7. EntryIsLatest'
  BY Facts DEF EntryIsLatest, BeingErased, Name, ErrorInv, Open, OwnerIsOpen, OwnerIsLatest, StageIsNumbered, Opened
<1>8. OldOnesStayClosed'
  BY Facts DEF OldOnesStayClosed, Opened, Open
<1>9. SenderInv'
  BY Facts DEF SenderInv, Opened, Name
<1>10. AstrayOnlyAfterClose'
  BY Facts DEF AstrayOnlyAfterClose, Opened, Name
<1>11. AloneIsRoutable'
  BY Facts DEF AloneIsRoutable, Opened, Name
<1> QED BY <1>1, <1>2, <1>3, <1>4, <1>5, <1>6, <1>7, <1>8, <1>9, <1>10, <1>11

\* The connection is closed before it has a descriptor.
LEMMA AcceptFailsKeepsInv ==
  ASSUME RegistryInv, NEW c \in Conn, AcceptFails(c)
  PROVE  RegistryInv'
<1> USE DEF RegistryInv, connVars, transportVars, senderVars, AcceptFails, NextConnecting
<1>1. TypeOK'
  BY AppRegistryAssumption, Facts DEF TypeOK, ErrorInv, SenderInv, Opened, Conn, Free, Client
<1>2. StageIsNumbered'
  BY Facts DEF StageIsNumbered, Opened, Open
<1>3. AcceptedInOrder'
  BY Facts DEF AcceptedInOrder, StageIsNumbered, Opened
<1>4. OwnerIsOpen'
  BY Facts DEF OwnerIsOpen, Opened, Open
<1>5. OwnerIsLatest'
  BY Facts DEF OwnerIsLatest, Opened, Open
<1>6. ErrorInv'
  BY Facts DEF ErrorInv, Opened, Open
<1>7. EntryIsLatest'
  BY Facts DEF EntryIsLatest, Opened, BeingErased, Name
<1>8. OldOnesStayClosed'
  BY Facts DEF OldOnesStayClosed, Opened, Open
<1>9. SenderInv'
  BY Facts DEF SenderInv, Opened, Name
<1>10. AstrayOnlyAfterClose'
  BY Facts DEF AstrayOnlyAfterClose, Opened, Name
<1>11. AloneIsRoutable'
  BY Facts DEF AloneIsRoutable, Opened, Name
<1> QED BY <1>1, <1>2, <1>3, <1>4, <1>5, <1>6, <1>7, <1>8, <1>9, <1>10, <1>11

\* An entry is made unless there is one of that name, and there is none if no other app server has it.
LEMMA RegisterKeepsInv ==
  ASSUME RegistryInv, NEW c \in Conn, Register(c)
  PROVE  RegistryInv'
<1> USE DEF RegistryInv, connVars, transportVars, senderVars, Register
<1>1. Opened' = Opened /\ \A d \in Opened : Name(d)' = Name(d)
  BY DEF Opened, Name
<1>2. c \in Opened /\ owner[conn_sfd[c]] = c /\ conn_sfd[c] \in Fd
  BY DEF StageIsNumbered, OwnerIsOpen, Open
<1>3. from[c] \in Instance /\ Name(c) \in Names
  BY <1>2, TypeParts DEF Opened, Name, Names
<1>4. /\ DOMAIN map_appServer_sfd_' = DOMAIN map_appServer_sfd_ \cup {Name(c)}
      /\ \A n \in DOMAIN map_appServer_sfd_ : map_appServer_sfd_'[n] = map_appServer_sfd_[n]
      /\ Name(c) \notin DOMAIN map_appServer_sfd_ => map_appServer_sfd_'[Name(c)] = conn_sfd[c]
  BY DEF MapInsert
<1>5. /\ stage'[c] = "registered" /\ \A d \in Conn : d # c => stage'[d] = stage[d]
      /\ stage' \in [Conn -> {"none", "connecting", "open", "registered", "closed"}]
  BY Facts
<1>6. TypeOK'
  BY <1>2, <1>3, <1>4, <1>5 DEF TypeOK
<1>7. EntryIsLatest'
  <2>1. \A d \in Opened : conn_sfd[d] = conn_sfd[c] => d <= c
    BY <1>2 DEF OwnerIsLatest, Open
  <2>2. ~BeingErased(c) /\ \A d \in Opened : ~BeingErased(d) /\ ~BeingErased(d)'
    BY DEF BeingErased
  <2>3. Opened \subseteq Conn
    BY Facts
  <2> QED BY <1>1, <1>2, <1>4, <1>5, <2>1, <2>2, <2>3 DEF EntryIsLatest
<1>8. AloneIsRoutable'
  <2> SUFFICES ASSUME NEW d \in Opened, stage'[d] = "registered",
                      \A a \in Instance : NameOf[a] = Name(d) => a = from[d]
               PROVE  Name(d) \in DOMAIN map_appServer_sfd_' /\ map_appServer_sfd_'[Name(d)] = conn_sfd[d]
    BY <1>1 DEF AloneIsRoutable
  <2>1. CASE d # c
    BY <2>1, <1>4, <1>5, Facts DEF AloneIsRoutable
  <2>2. ASSUME d = c, Name(c) \in DOMAIN map_appServer_sfd_ PROVE FALSE
    <3>1. PICK e \in Opened : Name(e) = Name(c) /\ stage[e] = "registered"
      BY <2>2 DEF EntryIsLatest, BeingErased
    <3>2. from[e] \in Instance
      BY <3>1, TypeParts DEF Opened
    <3>3. from[e] = from[c]
      BY <2>2, <3>1, <3>2 DEF Name
    <3> QED BY <1>2, <3>1, <3>3, Facts DEF OlderOnesClosed, OldOnesStayClosed
  <2> QED BY <2>1, <2>2, <1>4
<1>9. StageIsNumbered'
  BY Facts DEF StageIsNumbered, Opened, Open
<1>10. AcceptedInOrder'
  BY Facts DEF AcceptedInOrder, Opened, StageIsNumbered
<1>11. OwnerIsOpen'
  BY Facts DEF OwnerIsOpen, Opened, Open
<1>12. OwnerIsLatest'
  BY Facts DEF OwnerIsLatest, Opened, Open
<1>13. ErrorInv'
  BY Facts DEF ErrorInv, Opened, Open
<1>14. OldOnesStayClosed'
  BY <1>1, <1>2, <1>5, Facts DEF OldOnesStayClosed, OlderOnesClosed
<1>15. SenderInv'
  BY Facts DEF SenderInv, Opened, Name
<1>16. AstrayOnlyAfterClose'
  BY Facts DEF AstrayOnlyAfterClose, Opened, Name
<1> QED BY <1>1, <1>5, <1>6, <1>7, <1>8, <1>9, <1>10, <1>11, <1>12, <1>13, <1>14, <1>15, <1>16

\* The connection was open; from now on its entry is being taken out.
LEMMA ErrorCbKeepsInv ==
  ASSUME RegistryInv, NEW c \in Conn, ErrorCb(c)
  PROVE  RegistryInv'
<1> USE DEF RegistryInv, connVars, transportVars, senderVars, ErrorCb
<1>1. /\ StageIsNumbered' /\ AcceptedInOrder' /\ OwnerIsOpen' /\ OwnerIsLatest'
      /\ OldOnesStayClosed' /\ SenderInv' /\ AstrayOnlyAfterClose'
  BY DEF StageIsNumbered, AcceptedInOrder, OwnerIsOpen, OwnerIsLatest, OldOnesStayClosed,
         SenderInv, AstrayOnlyAfterClose, Opened, Name
<1>2. TypeOK'
  BY AppRegistryAssumption, Facts DEF TypeOK, ErrorInv, SenderInv, Opened, Conn, Free, Client
<1>3. ErrorInv'
  BY Facts DEF ErrorInv, Open, StageIsNumbered, OwnerIsOpen, Opened
<1>4. EntryIsLatest'
  BY Facts DEF EntryIsLatest, Opened, BeingErased, Name
<1>5. AloneIsRoutable'
  BY Facts DEF AloneIsRoutable, Name, Opened
<1> QED BY <1>1, <1>2, <1>3, <1>4, <1>5

\* Entries of other descriptors stay.
LEMMA ErrorCbErasesKeepsInv ==
  ASSUME RegistryInv, ErrorCbErases
  PROVE  RegistryInv'
<1> USE DEF RegistryInv, connVars, transportVars, senderVars, ErrorCbErases, Does, NamesOf
<1>1. /\ StageIsNumbered' /\ AcceptedInOrder' /\ OwnerIsOpen' /\ OwnerIsLatest'
      /\ OldOnesStayClosed' /\ SenderInv' /\ AstrayOnlyAfterClose'
  BY DEF StageIsNumbered, AcceptedInOrder, OwnerIsOpen, OwnerIsLatest, OldOnesStayClosed,
         SenderInv, AstrayOnlyAfterClose, Opened, Name
<1>2. TypeOK'
  BY AppRegistryAssumption, Facts DEF TypeOK, ErrorInv, SenderInv, Opened
<1>3. ErrorInv'
  BY Facts DEF ErrorInv, Opened, Open
<1>4. EntryIsLatest'
  BY Facts DEF EntryIsLatest, Opened, BeingErased, Name
<1>5. AloneIsRoutable'
  BY Facts DEF AloneIsRoutable, Name, EntryIsLatest, BeingErased, OldOnesStayClosed, StageIsNumbered, ErrorInv, OwnerIsOpen, Open, Opened
<1> QED BY <1>1, <1>2, <1>3, <1>4, <1>5

\* The descriptor becomes free; its entry is gone, or going.
LEMMA ErrorCbClosesKeepsInv ==
  ASSUME RegistryInv, ErrorCbCloses
  PROVE  RegistryInv'
<1> USE DEF RegistryInv, connVars, transportVars, senderVars, ErrorCbCloses, Does
<1>1. TypeOK'
  BY AppRegistryAssumption, Facts DEF TypeOK, ErrorInv, SenderInv, Opened, Conn, Free, Client
<1>2. StageIsNumbered'
  BY Facts DEF StageIsNumbered, Open, ErrorInv, Opened
<1>3. AcceptedInOrder'
  BY Facts DEF AcceptedInOrder, StageIsNumbered, ErrorInv, Opened
<1>4. OwnerIsOpen'
  BY Facts DEF OwnerIsOpen, Open, ErrorInv, Opened
<1>5. OwnerIsLatest'
  BY Facts DEF OwnerIsLatest, Opened, Open
<1>6. ErrorInv'
  BY Facts DEF ErrorInv, Opened, Open
<1>7. EntryIsLatest'
  BY Facts DEF EntryIsLatest, BeingErased, Name, ErrorInv, Open, Opened
<1>8. OldOnesStayClosed'
  BY Facts DEF OldOnesStayClosed, Opened, Open
<1>9. SenderInv'
  BY Facts DEF SenderInv, Name, StageIsNumbered, OwnerIsOpen, ErrorInv, Open, EntryIsLatest, BeingErased, Opened
<1>10. AstrayOnlyAfterClose'
  BY Facts DEF AstrayOnlyAfterClose, Opened, Name
<1>11. AloneIsRoutable'
  BY Facts DEF AloneIsRoutable, Opened, Name
<1> QED BY <1>1, <1>2, <1>3, <1>4, <1>5, <1>6, <1>7, <1>8, <1>9, <1>10, <1>11

\* The connection found is the last one on its descriptor.
LEMMA LookUpKeepsInv ==
  ASSUME RegistryInv, NEW n \in Names, LookUp(n)
  PROVE  RegistryInv'
<1> USE DEF RegistryInv, connVars, transportVars, senderVars, LookUp
<1>1. Opened' = Opened /\ \A d \in Opened : Name(d)' = Name(d)
  BY DEF Opened, Name
<1>2. PICK c \in Opened :
        /\ conn_sfd[c] = map_appServer_sfd_[n] /\ Name(c) = n
        /\ stage[c] = "registered" \/ BeingErased(c)
        /\ \A d \in Opened : conn_sfd[d] = conn_sfd[c] => d <= c
  BY DEF EntryIsLatest
<1>3. \A b \in Opened : /\ conn_sfd[b] = map_appServer_sfd_[n]
                        /\ \A d \in Opened : conn_sfd[d] = map_appServer_sfd_[n] => d <= b
                        => b = c
  BY <1>2, Facts
<1>4. sconn' = c
  BY <1>2, <1>3 DEF LastOn
<1>5. c \in Conn /\ map_appServer_sfd_[n] \in Fd
  BY Facts DEF TypeOK
<1>6. TypeOK'
  <2>1. Pieces \in 0..Pieces BY AppRegistryAssumption
  <2> QED BY <1>4, <1>5, <2>1 DEF TypeOK
<1>7. stage[c] = "closed" \/ owner[conn_sfd[c]] = c
  BY <1>2, <1>5 DEF BeingErased, ErrorInv, OwnerIsOpen, Open
<1>8. SenderInv'
  BY <1>1, <1>2, <1>4, <1>5, <1>7, AppRegistryAssumption DEF SenderInv
<1>9. /\ StageIsNumbered' /\ AcceptedInOrder' /\ OwnerIsOpen' /\ OwnerIsLatest'
      /\ ErrorInv' /\ EntryIsLatest' /\ OldOnesStayClosed' /\ AloneIsRoutable'
  BY DEF StageIsNumbered, AcceptedInOrder, OwnerIsOpen, OwnerIsLatest, ErrorInv,
         EntryIsLatest, OldOnesStayClosed, AloneIsRoutable, Opened, BeingErased, Name
<1>10. AstrayOnlyAfterClose'
  BY Facts DEF AstrayOnlyAfterClose, Opened, Name
<1> QED BY <1>1, <1>4, <1>6, <1>8, <1>9, <1>10

\* The piece goes to the connection that was found, unless that was closed.
LEMMA WritePieceKeepsInv ==
  ASSUME RegistryInv, WritePiece
  PROVE  RegistryInv'
<1> USE DEF RegistryInv, connVars, transportVars, senderVars, WritePiece
<1>1. Opened' = Opened /\ \A d \in Opened : Name(d)' = Name(d)
  BY DEF Opened, Name
<1>2. sleft \in 1..Pieces /\ sleft' \in 0..Pieces /\ (sleft > 1 => sleft' > 0)
  BY TypeParts, AppRegistryAssumption DEF SenderInv
<1>3. reached' \in Conn \cup {Client}
  BY Facts DEF SenderInv
<1>4. TypeOK'
  BY <1>2, <1>3 DEF TypeOK
<1>5. SenderInv'
  BY <1>1, <1>2 DEF SenderInv
<1>6. /\ StageIsNumbered' /\ AcceptedInOrder' /\ OwnerIsOpen' /\ OwnerIsLatest'
      /\ ErrorInv' /\ EntryIsLatest' /\ OldOnesStayClosed' /\ AloneIsRoutable'
  BY DEF StageIsNumbered, AcceptedInOrder, OwnerIsOpen, OwnerIsLatest, ErrorInv,
         EntryIsLatest, OldOnesStayClosed, AloneIsRoutable, Opened, BeingErased, Name
<1>7. AstrayOnlyAfterClose'
  BY Facts DEF AstrayOnlyAfterClose, Name, SenderInv
<1> QED BY <1>1, <1>3, <1>4, <1>5, <1>6, <1>7

\* The worker is through.
LEMMA WriteFailsKeepsInv ==
  ASSUME RegistryInv, WriteFails
  PROVE  RegistryInv'
<1> USE DEF RegistryInv, connVars, transportVars, senderVars, WriteFails
<1>4. TypeOK'
  <2>1. sleft' \in 0..Pieces BY AppRegistryAssumption
  <2> QED BY <2>1 DEF TypeOK
<1>5. /\ StageIsNumbered' /\ AcceptedInOrder' /\ OwnerIsOpen' /\ OwnerIsLatest'
      /\ ErrorInv' /\ EntryIsLatest' /\ OldOnesStayClosed' /\ AstrayOnlyAfterClose' /\ AloneIsRoutable'
  BY DEF StageIsNumbered, AcceptedInOrder, OwnerIsOpen, OwnerIsLatest, ErrorInv,
         EntryIsLatest, OldOnesStayClosed, AstrayOnlyAfterClose, AloneIsRoutable, Opened, BeingErased, Name
<1>6. SenderInv'
  BY Facts DEF SenderInv, Opened, Name
<1> QED BY <1>4, <1>5, <1>6

\* Everything is closed.
LEMMA RestartKeepsInv ==
  ASSUME RegistryInv, Restart
  PROVE  RegistryInv'
<1> USE DEF RegistryInv, connVars, transportVars, senderVars, Restart
<1>1. map_appServer_sfd_' = EmptyMap /\ DOMAIN EmptyMap = {} BY DEF EmptyMap
<1>2. restarts' \in 0..MaxRestarts /\ sleft' \in 0..Pieces
  <2>1. restarts \in 0..MaxRestarts BY TypeParts
  <2>2. restarts < MaxRestarts /\ restarts' = restarts + 1 /\ sleft' = 0 OBVIOUS
  <2>3. MaxRestarts \in Nat /\ Pieces \in Nat BY AppRegistryAssumption
  <2> HIDE DEF RegistryInv, Restart
  <2> QED BY <2>1, <2>2, <2>3
<1>3. TypeOK'
  BY <1>1, <1>2 DEF TypeOK
<1>4. StageIsNumbered'
  BY Facts DEF StageIsNumbered, Opened, Open
<1>5. AcceptedInOrder'
  BY Facts DEF AcceptedInOrder, Opened, StageIsNumbered
<1>6. OwnerIsOpen'
  BY Facts DEF OwnerIsOpen, Opened, Open
<1>7. OwnerIsLatest'
  BY Facts DEF OwnerIsLatest, Opened, Open
<1>8. ErrorInv'
  BY Facts DEF ErrorInv, Opened, Open
<1>9. EntryIsLatest'
  BY <1>1 DEF EntryIsLatest
<1>10. OldOnesStayClosed'
  BY Facts DEF OldOnesStayClosed, Opened, Open
<1>11. SenderInv'
  BY Facts DEF SenderInv, Opened, Name
<1>12. AstrayOnlyAfterClose'
  BY Facts DEF AstrayOnlyAfterClose, Opened, Name
<1>13. AloneIsRoutable'
  BY Facts DEF AloneIsRoutable, Opened, Name
<1> QED BY <1>1, <1>2, <1>3, <1>4, <1>5, <1>6, <1>7, <1>8, <1>9, <1>10, <1>11, <1>12, <1>13

LEMMA StepKeepsRegistryInv ==
  ASSUME RegistryInv, [Next]_vars
  PROVE  RegistryInv'
<1>1. CASE \E a \in Instance : Connect(a)
  BY <1>1, ConnectKeepsInv
<1>2. CASE \E n \in Names : LookUp(n)
  BY <1>2, LookUpKeepsInv
<1>3. CASE \E c \in Conn : PeerEnds(c) \/ AcceptFails(c) \/ Register(c) \/ ErrorCb(c)
  BY <1>3, PeerEndsKeepsInv, AcceptFailsKeepsInv, RegisterKeepsInv, ErrorCbKeepsInv
<1>4. CASE \E c \in Conn, f \in Fd : AcceptCb(c, f)
  BY <1>4, AcceptCbKeepsInv
<1>5. CASE \E f \in Fd : ClientAccept(f) \/ ClientClose(f)
  BY <1>5, ClientAcceptKeepsInv, ClientCloseKeepsInv
<1>6. CASE ErrorCbErases \/ ErrorCbCloses
  BY <1>6, ErrorCbErasesKeepsInv, ErrorCbClosesKeepsInv
<1>7. CASE WritePiece \/ WriteFails
  BY <1>7, WritePieceKeepsInv, WriteFailsKeepsInv
<1>8. CASE Restart
  BY <1>8, RestartKeepsInv
<1>9. CASE UNCHANGED vars
  <2> USE <1>9 DEF vars, connVars, transportVars, senderVars, RegistryInv
  <2>1. TypeOK' BY DEF TypeOK, Opened
  <2>2. StageIsNumbered' /\ AcceptedInOrder' /\ OwnerIsOpen' /\ OwnerIsLatest' /\ OldOnesStayClosed'
    BY DEF StageIsNumbered, AcceptedInOrder, OwnerIsOpen, OwnerIsLatest, OldOnesStayClosed, Opened
  <2>3. ErrorInv' /\ EntryIsLatest' /\ SenderInv'
    BY DEF ErrorInv, EntryIsLatest, SenderInv, Opened, BeingErased, Name
  <2>4. AstrayOnlyAfterClose' /\ AloneIsRoutable'
    BY DEF AstrayOnlyAfterClose, AloneIsRoutable, Opened, Name
  <2> QED BY <2>1, <2>2, <2>3, <2>4
<1> QED BY <1>1, <1>2, <1>3, <1>4, <1>5, <1>6, <1>7, <1>8, <1>9 DEF Next

-----------------------------------------------------------------------------
(* The theorems.                                                           *)

\* The inductive invariant holds.
THEOREM RegistryInvariant == Spec => []RegistryInv
<1>1. RegistryInv /\ [Next]_vars => RegistryInv' BY StepKeepsRegistryInv
<1> QED BY InitRegistryInv, <1>1, PTL DEF Spec

\* Type correctness of AppRegistry.
THEOREM RegistryTypeCorrect == Spec => []TypeOK
<1>1. RegistryInv => TypeOK BY DEF RegistryInv
<1> QED BY <1>1, RegistryInvariant, PTL

\* What is found in the map is an open connection that registered the name,
\* or one whose end is being handled.
THEOREM EntriesAreRegistered == Spec => []EntryIsRegistered
<1>1. ASSUME RegistryInv PROVE EntryIsRegistered
  <2> SUFFICES ASSUME NEW n \in DOMAIN map_appServer_sfd_
               PROVE  \E c \in Opened :
                        /\ conn_sfd[c] = map_appServer_sfd_[n] /\ Name(c) = n
                        /\ \/ owner[conn_sfd[c]] = c /\ stage[c] = "registered"
                           \/ BeingErased(c)
    BY DEF EntryIsRegistered
  <2>1. PICK c \in Opened : /\ conn_sfd[c] = map_appServer_sfd_[n] /\ Name(c) = n
                            /\ stage[c] = "registered" \/ BeingErased(c)
    BY <1>1 DEF RegistryInv, EntryIsLatest
  <2>2. c \in Conn /\ map_appServer_sfd_[n] \in Fd
    BY <1>1, Facts DEF RegistryInv, TypeOK
  <2> QED BY <1>1, <2>1, <2>2 DEF RegistryInv, OwnerIsOpen, Open
<1> QED BY <1>1, RegistryInvariant, PTL

\* A request goes to the connection that was found, or that one has closed.
THEOREM RequestsAreStrayOnlyAfterClose == Spec => []AstrayOnlyAfterClose
<1>1. RegistryInv => AstrayOnlyAfterClose BY DEF RegistryInv
<1> QED BY <1>1, RegistryInvariant, PTL

\* A registered app server that is alone under its name is found.
THEOREM AloneIsFound == Spec => []AloneIsRoutable
<1>1. RegistryInv => AloneIsRoutable BY DEF RegistryInv
<1> QED BY <1>1, RegistryInvariant, PTL

-----------------------------------------------------------------------------
(* AppRegistry implements Directory.                                       *)

\* The connection that is meant by a descriptor in the map.
LEMMA FoundIs ==
  ASSUME RegistryInv, NEW n \in DOMAIN map_appServer_sfd_
  PROVE  /\ Found[n] = LastOn(map_appServer_sfd_[n]) /\ Found[n] \in Opened
         /\ conn_sfd[Found[n]] = map_appServer_sfd_[n] /\ map_appServer_sfd_[n] \in Fd
         /\ Name(Found[n]) = n
         /\ stage[Found[n]] = "registered" \/ BeingErased(Found[n])
         /\ \A d \in Opened : conn_sfd[d] = map_appServer_sfd_[n] => d <= Found[n]
<1>1. PICK c \in Opened :
        /\ conn_sfd[c] = map_appServer_sfd_[n] /\ Name(c) = n
        /\ stage[c] = "registered" \/ BeingErased(c)
        /\ \A d \in Opened : conn_sfd[d] = conn_sfd[c] => d <= c
  BY DEF RegistryInv, EntryIsLatest
<1>2. \A b \in Opened : /\ conn_sfd[b] = map_appServer_sfd_[n]
                        /\ \A d \in Opened : conn_sfd[d] = map_appServer_sfd_[n] => d <= b
                        => b = c
  BY <1>1, Facts DEF RegistryInv
<1>3. LastOn(map_appServer_sfd_[n]) = c
  BY <1>1, <1>2 DEF LastOn
<1>4. Found[n] = LastOn(map_appServer_sfd_[n])
  BY DEF Found
<1>5. map_appServer_sfd_[n] \in Fd
  BY DEF RegistryInv, TypeOK
<1> QED BY <1>1, <1>3, <1>4, <1>5

\* The last connection that got a descriptor, by what it is.
LEMMA LastOnIs ==
  ASSUME Opened \subseteq Nat, NEW c \in Opened, NEW f, conn_sfd[c] = f,
         \A d \in Opened : conn_sfd[d] = f => d <= c
  PROVE  LastOn(f) = c
<1>1. \A b \in Opened : /\ conn_sfd[b] = f
                        /\ \A d \in Opened : conn_sfd[d] = f => d <= b
                        => b = c
  OBVIOUS
<1> QED BY <1>1 DEF LastOn

\* The numbers of Directory are the connections of AppRegistry.
LEMMA NumbersAreOpened ==
  ASSUME TypeOK
  PROVE  /\ Called \in Seq(Names) /\ Len(Called) = Len(from) /\ D!Number = Opened
         /\ \A c \in Opened : Called[c] = Name(c)
<1>1. from \in Seq(Instance) /\ Len(from) \in Nat
  BY TypeParts
<1>2. \A c \in Opened : Name(c) \in Names
  BY <1>1 DEF Opened, Name, Names
<1>3. Called \in [1..Len(from) -> Names]
  BY <1>2 DEF Called, Opened
<1>4. Called \in Seq(Names) /\ Len(Called) = Len(from)
  BY <1>1, <1>3
<1> QED BY <1>4 DEF D!Number, Opened, Called

\* A step that leaves connections, map and request alone.
LEMMA DirectoryStutters ==
  ASSUME UNCHANGED <<from, conn_sfd, map_appServer_sfd_, tpc, tconn, spc, sconn, reached>>,
         \A c \in Opened : /\ stage'[c] = "registered" <=> stage[c] = "registered"
                           /\ stage'[c] = "closed" <=> stage[c] = "closed"
  PROVE  UNCHANGED D!vars
<1>1. Opened' = Opened
  BY DEF Opened
<1>2. Called' = Called
  BY <1>1 DEF Called, Name
<1>3. Found' = Found
  BY <1>1 DEF Found, LastOn
<1> QED BY <1>1, <1>2, <1>3 DEF D!vars, D!conns, D!request

\* Where the map does not change, its descriptors go on to mean the same.
LEMMA FoundStays ==
  ASSUME UNCHANGED <<from, conn_sfd, map_appServer_sfd_>>
  PROVE  Opened' = Opened /\ Called' = Called /\ Found' = Found
<1>1. Opened' = Opened
  BY DEF Opened
<1> QED BY <1>1 DEF Called, Name, Found, LastOn

LEMMA ConnectRefines ==
  ASSUME RegistryInv, RegistryInv', NEW a \in Instance, Connect(a)
  PROVE  NameOf[a] \in Names /\ D!Connect(NameOf[a])
<1> DEFINE k == Len(from) + 1
<1>1. /\ TypeOK /\ TypeOK' /\ from \in Seq(Instance) /\ Len(from) \in Nat
      /\ from' = Append(from, a) /\ k \in Conn
  BY TypeParts, AppRegistryAssumption DEF RegistryInv, Connect, Conn
<1>2. /\ k \notin Opened /\ Opened' = Opened \cup {k} /\ from'[k] = a
      /\ \A d \in Opened : from'[d] = from[d]
  BY <1>1 DEF Opened
<1>3. Called' = Append(Called, NameOf[a])
  <2>1. /\ Called \in Seq(Names) /\ Len(Called) = Len(from)
        /\ \A c \in Opened : Called[c] = Name(c)
    BY <1>1, NumbersAreOpened
  <2>2. Called' = [c \in 1..k |-> NameOf[from'[c]]]
    BY <1>1 DEF Called, Opened, Name
  <2>3. \A c \in 1..Len(from) : NameOf[from'[c]] = Called[c]
    BY <1>2, <2>1 DEF Opened, Name
  <2>4. Append(Called, NameOf[a]) = [c \in 1..k |-> IF c = k THEN NameOf[a] ELSE Called[c]]
    BY <1>1, <2>1
  <2> QED BY <1>1, <1>2, <2>2, <2>3, <2>4
<1>4. stage[k] = "none" /\ conn_sfd[k] = Free
  BY <1>1, <1>2 DEF RegistryInv, StageIsNumbered
<1>5. /\ stage'[k] = "connecting"
      /\ \A d \in Opened : stage'[d] = stage[d]
      /\ conn_sfd' = conn_sfd /\ map_appServer_sfd_' = map_appServer_sfd_
  BY <1>1, <1>2, Facts DEF Connect
<1>6. Found' = Found
  <2> SUFFICES ASSUME NEW n \in DOMAIN map_appServer_sfd_ PROVE Found'[n] = Found[n]
    BY <1>5 DEF Found
  <2>1. /\ Found[n] \in Opened /\ conn_sfd[Found[n]] = map_appServer_sfd_[n]
        /\ \A d \in Opened : conn_sfd[d] = map_appServer_sfd_[n] => d <= Found[n]
        /\ map_appServer_sfd_[n] # Free
    BY <1>1, FoundIs, Facts
  <2>2. LastOn(map_appServer_sfd_[n])' = Found[n]
    <3>1. Found[n] \in Opened' /\ conn_sfd'[Found[n]] = map_appServer_sfd_'[n]
          /\ \A d \in Opened' : conn_sfd'[d] = map_appServer_sfd_'[n] => d <= Found[n]
      BY <1>2, <1>4, <1>5, <2>1
    <3>2. \A b \in Opened' : /\ conn_sfd'[b] = map_appServer_sfd_'[n]
                             /\ \A d \in Opened' : conn_sfd'[d] = map_appServer_sfd_'[n] => d <= b
                             => b = Found[n]
      <4>1. Opened' \subseteq Nat
        BY <1>1, <1>2, Facts DEF Conn
      <4>2. PICK m \in Nat : m = Found[n]
        BY <3>1, <4>1
      <4> SUFFICES ASSUME NEW b \in Opened', b <= m, m <= b PROVE b = m
        BY <3>1, <4>2
      <4> QED BY <4>1
    <3> QED BY <3>1, <3>2 DEF LastOn
  <2> QED BY <1>5, <2>2 DEF Found
<1>7. /\ {c \in Opened : stage[c] = "registered"}' = {c \in Opened : stage[c] = "registered"}
      /\ {c \in Opened : stage[c] = "closed"}' = {c \in Opened : stage[c] = "closed"}
  BY <1>2, <1>5
<1>8. NameOf[a] \in Names
  BY DEF Names
<1> QED BY <1>3, <1>6, <1>7, <1>8 DEF D!Connect, D!request, Connect, transportVars, senderVars

\* LastOn depends on the connections and their descriptors only.
LEMMA LastOnStays ==
  ASSUME UNCHANGED <<from, conn_sfd>>
  PROVE  Opened' = Opened /\ Called' = Called /\ \A f : LastOn(f)' = LastOn(f)
<1>1. Opened' = Opened
  BY DEF Opened
<1> QED BY <1>1 DEF Called, Name, LastOn

LEMMA RegisterRefines ==
  ASSUME RegistryInv, NEW c \in Conn, Register(c)
  PROVE  c \in D!Number /\ D!Register(c)
<1>1. TypeOK /\ UNCHANGED <<from, conn_sfd>>
  BY DEF RegistryInv, Register
<1>2. c \in Opened /\ stage[c] = "open" /\ tpc = "loop"
  BY DEF RegistryInv, StageIsNumbered, Register
<1>3. D!Number = Opened /\ Called[c] = Name(c)
  BY <1>1, <1>2, NumbersAreOpened
<1>4. Opened' = Opened /\ Called' = Called /\ \A f : LastOn(f)' = LastOn(f)
  BY <1>1, LastOnStays
<1>5. LastOn(conn_sfd[c]) = c
  <2>1. \A d \in Opened : conn_sfd[d] = conn_sfd[c] => d <= c
    BY <1>2 DEF RegistryInv, OwnerIsLatest, Open
  <2>2. Opened \subseteq Nat
    BY <1>1, Facts
  <2> QED BY <1>2, <2>1, <2>2, LastOnIs
<1>6. /\ DOMAIN map_appServer_sfd_' = DOMAIN map_appServer_sfd_ \cup {Name(c)}
      /\ \A n \in DOMAIN map_appServer_sfd_ : map_appServer_sfd_'[n] = map_appServer_sfd_[n]
      /\ Name(c) \notin DOMAIN map_appServer_sfd_ => map_appServer_sfd_'[Name(c)] = conn_sfd[c]
  BY DEF MapInsert, Register
<1>7. Found' = [n \in DOMAIN Found \cup {Called[c]} |-> IF n \in DOMAIN Found THEN Found[n] ELSE c]
  <2>1. Found' = [n \in DOMAIN map_appServer_sfd_' |-> LastOn(map_appServer_sfd_'[n])]
    BY <1>4 DEF Found
  <2>2. DOMAIN Found = DOMAIN map_appServer_sfd_
    BY DEF Found
  <2>3. \A n \in DOMAIN Found : LastOn(map_appServer_sfd_'[n]) = Found[n]
    BY <1>6, <2>2 DEF Found
  <2> QED BY <1>3, <1>5, <1>6, <2>1, <2>2, <2>3
<1>8. stage' = [stage EXCEPT ![c] = "registered"]
  BY DEF Register
<1>9. /\ {d \in Opened : stage[d] = "registered"}' = {d \in Opened : stage[d] = "registered"} \cup {c}
      /\ {d \in Opened : stage[d] = "closed"}' = {d \in Opened : stage[d] = "closed"}
  BY <1>1, <1>2, <1>4, <1>8, Facts
<1> QED BY <1>2, <1>3, <1>4, <1>7, <1>9 DEF D!Register, D!request, Register, transportVars, senderVars

LEMMA RefuseRefines ==
  ASSUME RegistryInv, NEW c \in Conn, AcceptFails(c)
  PROVE  c \in D!Number /\ D!Refuse(c)
<1>1. TypeOK /\ UNCHANGED <<from, conn_sfd, map_appServer_sfd_>>
  BY DEF RegistryInv, AcceptFails
<1>2. c \in Opened /\ stage[c] = "connecting" /\ tpc = "loop"
  BY DEF RegistryInv, StageIsNumbered, AcceptFails, NextConnecting
<1>3. D!Number = Opened
  BY <1>1, NumbersAreOpened
<1>4. Opened' = Opened /\ Called' = Called /\ Found' = Found
  BY <1>1, FoundStays
<1>5. stage' = [stage EXCEPT ![c] = "closed"]
  BY DEF AcceptFails
<1>6. /\ {d \in Opened : stage[d] = "registered"}' = {d \in Opened : stage[d] = "registered"}
      /\ {d \in Opened : stage[d] = "closed"}' = {d \in Opened : stage[d] = "closed"} \cup {c}
  BY <1>1, <1>2, <1>4, <1>5, Facts
<1> QED BY <1>2, <1>3, <1>4, <1>6 DEF D!Refuse, D!request, AcceptFails, transportVars, senderVars

LEMMA LeaveRefines ==
  ASSUME RegistryInv, NEW c \in Conn, ErrorCb(c)
  PROVE  c \in D!Number /\ D!Leave(c)
<1>1. TypeOK /\ UNCHANGED <<from, conn_sfd, map_appServer_sfd_, stage>>
  BY DEF RegistryInv, ErrorCb, connVars
<1>2. c \in Opened /\ stage[c] # "closed" /\ tpc = "loop"
  BY DEF RegistryInv, StageIsNumbered, ErrorCb
<1>3. D!Number = Opened
  BY <1>1, NumbersAreOpened
<1>4. Opened' = Opened /\ Called' = Called /\ Found' = Found
  BY <1>1, FoundStays
<1> QED BY <1>1, <1>2, <1>3, <1>4 DEF D!Leave, D!request, ErrorCb, senderVars

\* The entries under the descriptor that is being closed are those of its
\* connection.
LEMMA ForgetRefines ==
  ASSUME RegistryInv, ErrorCbErases
  PROVE  D!Forget
<1>1. TypeOK /\ UNCHANGED <<from, conn_sfd, stage>>
  BY DEF RegistryInv, ErrorCbErases, connVars
<1>2. tpc = "error" /\ "erase" \in todo /\ tconn \in Opened /\ tconn' = tconn /\ tconn # Free
  BY <1>1, Facts DEF RegistryInv, ErrorInv, ErrorCbErases, Does
<1>3. Opened' = Opened /\ Called' = Called /\ \A f : LastOn(f)' = LastOn(f)
  BY <1>1, LastOnStays
<1>4. ASSUME NEW n \in DOMAIN map_appServer_sfd_
      PROVE  map_appServer_sfd_[n] = conn_sfd[tconn] <=> Found[n] = tconn
  <2>1. /\ conn_sfd[Found[n]] = map_appServer_sfd_[n] /\ Found[n] \in Opened
        /\ stage[Found[n]] = "registered" \/ BeingErased(Found[n])
        /\ \A d \in Opened : conn_sfd[d] = map_appServer_sfd_[n] => d <= Found[n]
    BY FoundIs
  <2>2. ASSUME map_appServer_sfd_[n] = conn_sfd[tconn], stage[Found[n]] = "registered" PROVE Found[n] = tconn
    <3>1. Found[n] \in Conn /\ map_appServer_sfd_[n] \in Fd
      BY <1>1, <2>1, Facts, FoundIs
    <3>2. owner[conn_sfd[tconn]] = Found[n]
      BY <2>1, <2>2, <3>1 DEF RegistryInv, OwnerIsOpen, Open
    <3>3. stage[tconn] \in Open
      BY <1>2, <3>1, <3>2 DEF RegistryInv, ErrorInv
    <3>4. owner[conn_sfd[tconn]] = tconn
      BY <1>1, <1>2, <2>2, <3>1, <3>3, Facts DEF RegistryInv, OwnerIsOpen
    <3> QED BY <3>2, <3>4
  <2> QED BY <2>1, <2>2 DEF BeingErased
<1>5. map_appServer_sfd_' = [n \in DOMAIN map_appServer_sfd_ \ NamesOf(conn_sfd[tconn]) |-> map_appServer_sfd_[n]]
  BY DEF ErrorCbErases
<1>6. Found' = [n \in {m \in DOMAIN Found : Found[m] # tconn} |-> Found[n]]
  <2>1. DOMAIN Found = DOMAIN map_appServer_sfd_
    BY DEF Found
  <2>2. DOMAIN map_appServer_sfd_' = {m \in DOMAIN Found : Found[m] # tconn}
    BY <1>4, <1>5, <2>1 DEF NamesOf
  <2>3. \A n \in DOMAIN map_appServer_sfd_' : LastOn(map_appServer_sfd_'[n]) = Found[n]
    BY <1>5 DEF Found
  <2>4. Found' = [n \in DOMAIN map_appServer_sfd_' |-> LastOn(map_appServer_sfd_'[n])]
    BY <1>3 DEF Found
  <2> QED BY <2>2, <2>3, <2>4
<1>7. tpc' = "error" \/ stage[tconn] = "closed"
  BY <1>2 DEF ErrorCbErases, Does, RegistryInv, ErrorInv
<1>8. ~D!HasEntry(Found', tconn)
  BY <1>6 DEF D!HasEntry
<1>9. tpc' = "error" \/ tpc' = "loop"
  BY DEF ErrorCbErases, Does
<1> QED BY <1>1, <1>2, <1>3, <1>6, <1>7, <1>8, <1>9 DEF D!Forget, D!Handled, D!request, ErrorCbErases, senderVars

LEMMA CloseRefines ==
  ASSUME RegistryInv, ErrorCbCloses
  PROVE  D!Close
<1>1. TypeOK /\ UNCHANGED <<from, conn_sfd, map_appServer_sfd_>>
  BY DEF RegistryInv, ErrorCbCloses
<1>2. tpc = "error" /\ "close" \in todo /\ tconn \in Opened /\ tconn' = tconn /\ tconn # Free
  BY <1>1, Facts DEF RegistryInv, ErrorInv, ErrorCbCloses, Does
<1>3. Opened' = Opened /\ Called' = Called /\ Found' = Found
  BY <1>1, FoundStays
<1>4. stage' = [stage EXCEPT ![tconn] = "closed"]
  BY DEF ErrorCbCloses
<1>5. /\ {d \in Opened : stage[d] = "registered"}' = {d \in Opened : stage[d] = "registered"} \ {tconn}
      /\ {d \in Opened : stage[d] = "closed"}' = {d \in Opened : stage[d] = "closed"} \cup {tconn}
  BY <1>1, <1>2, <1>3, <1>4, Facts
<1>6. tpc' = "loop" => ~D!HasEntry(Found, tconn)
  <2> SUFFICES ASSUME tpc' = "loop", NEW n \in DOMAIN Found, Found[n] = tconn PROVE FALSE
    BY DEF D!HasEntry
  <2>1. "erase" \notin todo
    BY DEF ErrorCbCloses, Does
  <2>2. n \in DOMAIN map_appServer_sfd_
    BY DEF Found
  <2>3. map_appServer_sfd_[n] = conn_sfd[tconn]
    BY <2>2, FoundIs
  <2> QED BY <1>2, <2>1, <2>2, <2>3 DEF RegistryInv, ErrorInv
<1>7. tpc' = "error" \/ tpc' = "loop"
  BY DEF ErrorCbCloses, Does
<1> QED BY <1>2, <1>3, <1>5, <1>6, <1>7 DEF D!Close, D!Handled, D!request, ErrorCbCloses, senderVars

LEMMA AskRefines ==
  ASSUME RegistryInv, NEW n \in Names, LookUp(n)
  PROVE  D!Ask(n)
<1>1. TypeOK /\ UNCHANGED <<from, conn_sfd, map_appServer_sfd_, stage, tpc, tconn>>
  BY DEF RegistryInv, LookUp, connVars, transportVars
<1>2. Opened' = Opened /\ Called' = Called /\ Found' = Found
  BY <1>1, FoundStays
<1>3. n \in DOMAIN Found /\ sconn' = Found[n]
  BY DEF LookUp, Found
<1>4. spc = "idle" /\ spc' = "write" /\ reached' = Free
  BY DEF LookUp
<1> QED BY <1>1, <1>2, <1>3, <1>4 DEF D!Ask, D!conns

LEMMA DeliverRefines ==
  ASSUME RegistryInv, WritePiece
  PROVE  D!Deliver
<1>1. TypeOK /\ UNCHANGED <<from, conn_sfd, map_appServer_sfd_, stage, tpc, tconn, sconn>>
  BY DEF RegistryInv, WritePiece, connVars, transportVars
<1>2. Opened' = Opened /\ Called' = Called /\ Found' = Found
  BY <1>1, FoundStays
<1>3. spc = "write" /\ spc' \in {"write", "idle"} /\ reached' = owner[conn_sfd[sconn]] /\ reached' # Free
  BY DEF WritePiece
<1>4. /\ sconn \in Opened /\ conn_sfd[sconn] \in Fd
      /\ stage[sconn] = "closed" \/ owner[conn_sfd[sconn]] = sconn
  BY <1>3 DEF RegistryInv, SenderInv
<1>5. reached' \in Conn \cup {Client}
  BY <1>1, <1>3, <1>4, Facts
<1>6. sconn # Free
  BY <1>1, <1>4, Facts
<1> QED BY <1>1, <1>2, <1>3, <1>4, <1>5, <1>6 DEF D!Deliver, D!conns

LEMMA GiveUpRefines ==
  ASSUME RegistryInv, WriteFails
  PROVE  D!GiveUp
<1>1. TypeOK /\ UNCHANGED <<from, conn_sfd, map_appServer_sfd_, stage, tpc, tconn, sconn, reached>>
  BY DEF RegistryInv, WriteFails, connVars, transportVars
<1>2. Opened' = Opened /\ Called' = Called /\ Found' = Found
  BY <1>1, FoundStays
<1>3. spc = "write" /\ spc' = "idle"
  BY DEF WriteFails
<1>4. sconn # Free
  BY <1>1, <1>3, Facts DEF RegistryInv, SenderInv
<1> QED BY <1>1, <1>2, <1>3, <1>4 DEF D!GiveUp, D!conns

LEMMA RestartRefines ==
  ASSUME RegistryInv, Restart
  PROVE  D!Restart
<1>1. TypeOK /\ UNCHANGED <<from, conn_sfd>>
  BY DEF RegistryInv, Restart
<1>2. Opened' = Opened /\ Called' = Called
  BY <1>1, LastOnStays
<1>3. D!Number = Opened /\ Opened \subseteq Conn
  BY <1>1, NumbersAreOpened, Facts
<1>4. stage' = [c \in Conn |-> IF c \in Opened THEN "closed" ELSE "none"]
  BY DEF Restart
<1>5. /\ {d \in Opened : stage[d] = "registered"}' = {}
      /\ {d \in Opened : stage[d] = "closed"}' = Opened
  BY <1>2, <1>3, <1>4
<1>6. Found' = [n \in {} |-> Free]
  <2>1. DOMAIN map_appServer_sfd_' = {}
    BY DEF Restart, EmptyMap
  <2> QED BY <2>1 DEF Found
<1>7. tpc' = "loop" /\ spc' = "idle" /\ reached' = Free
  BY DEF Restart
<1> QED BY <1>2, <1>3, <1>5, <1>6, <1>7 DEF D!Restart

\* A descriptor that is given out is in no entry, and the new connection not
\* the one that is meant by any.
LEMMA AcceptStutters ==
  ASSUME RegistryInv, NEW c \in Conn, NEW f \in Fd, AcceptCb(c, f)
  PROVE  UNCHANGED D!vars
<1>1. /\ TypeOK /\ tpc = "loop" /\ owner[f] = Free /\ stage[c] = "connecting" /\ c \in Opened
      /\ UNCHANGED <<from, map_appServer_sfd_, tpc, tconn, spc, sconn, reached>>
      /\ conn_sfd' = [conn_sfd EXCEPT ![c] = f] /\ stage' = [stage EXCEPT ![c] = "open"]
  BY DEF RegistryInv, StageIsNumbered, AcceptCb, NextConnecting, transportVars, senderVars
<1>2. Opened' = Opened /\ Opened \subseteq Conn /\ Opened \subseteq Nat
  BY <1>1, Facts DEF Opened
<1>3. Called' = Called
  BY <1>1, <1>2 DEF Called, Name
<1>4. Found' = Found
  <2> SUFFICES ASSUME NEW n \in DOMAIN map_appServer_sfd_
               PROVE  LastOn(map_appServer_sfd_[n])' = Found[n]
    BY <1>1 DEF Found
  <2>1. PICK m \in Opened :
          /\ m = Found[n] /\ conn_sfd[m] = map_appServer_sfd_[n] /\ map_appServer_sfd_[n] \in Fd
          /\ stage[m] = "registered" \/ BeingErased(m)
          /\ \A d \in Opened : conn_sfd[d] = map_appServer_sfd_[n] => d <= m
    BY FoundIs
  <2>2. stage[m] = "registered"
    BY <1>1, <2>1 DEF BeingErased
  <2>3. owner[conn_sfd[m]] = m
    BY <1>2, <2>1, <2>2 DEF RegistryInv, OwnerIsOpen, Open
  <2>4. map_appServer_sfd_[n] # f /\ m # c
    BY <1>1, <1>2, <2>1, <2>2, <2>3, Facts
  <2>5. /\ conn_sfd'[m] = map_appServer_sfd_'[n]
        /\ \A d \in Opened : conn_sfd'[d] = map_appServer_sfd_'[n] => d <= m
    BY <1>1, <1>2, <2>1, <2>4, Facts
  <2>6. \A b \in Opened : /\ conn_sfd'[b] = map_appServer_sfd_'[n]
                          /\ \A d \in Opened : conn_sfd'[d] = map_appServer_sfd_'[n] => d <= b
                          => b = m
    <3> SUFFICES ASSUME NEW b \in Opened, conn_sfd'[b] = map_appServer_sfd_'[n],
                        \A d \in Opened : conn_sfd'[d] = map_appServer_sfd_'[n] => d <= b
                 PROVE  b = m
      OBVIOUS
    <3>1. m <= b /\ b <= m
      BY <2>5
    <3> QED BY ONLY <1>2, <3>1
  <2> QED BY <1>2, <2>1, <2>5, <2>6 DEF LastOn
<1>5. /\ {d \in Opened : stage[d] = "registered"}' = {d \in Opened : stage[d] = "registered"}
      /\ {d \in Opened : stage[d] = "closed"}' = {d \in Opened : stage[d] = "closed"}
  BY <1>1, <1>2, Facts
<1> QED BY <1>1, <1>3, <1>4, <1>5 DEF D!vars, D!conns, D!request

\* Every behaviour of the table of app servers is one of the abstract
\* directory: a name stays with the connection that took it until the end of
\* that connection is handled, though nobody tells the map when the kernel
\* gives a descriptor out again.
THEOREM RegistryRefinesDirectory == Spec => ImplementsDirectory
<1>1. Init => D!Init
  <2> SUFFICES ASSUME Init PROVE D!Init
    OBVIOUS
  <2>1. from = <<>> /\ map_appServer_sfd_ = EmptyMap /\ tpc = "loop" /\ spc = "idle" /\ reached = Free
    BY DEF Init
  <2>2. Opened = {} /\ DOMAIN map_appServer_sfd_ = {}
    BY <2>1 DEF Opened, EmptyMap
  <2>3. Called = <<>> /\ Found = [n \in {} |-> Free]
    BY <2>2 DEF Called, Found
  <2> QED BY <2>1, <2>2, <2>3 DEF D!Init
<1>2. ASSUME RegistryInv, RegistryInv', [Next]_vars
      PROVE  [D!Next]_(D!vars)
  <2>1. ASSUME NEW a \in Instance, Connect(a) PROVE D!Next
    BY <1>2, <2>1, ConnectRefines DEF D!Next
  <2>2. ASSUME NEW n \in Names, LookUp(n) PROVE D!Next
    BY <1>2, <2>2, AskRefines DEF D!Next
  <2>3. ASSUME NEW c \in Conn, AcceptFails(c) \/ Register(c) \/ ErrorCb(c) PROVE D!Next
    BY <1>2, <2>3, RefuseRefines, RegisterRefines, LeaveRefines DEF D!Next
  <2>4. CASE ErrorCbErases \/ ErrorCbCloses
    BY <1>2, <2>4, ForgetRefines, CloseRefines DEF D!Next
  <2>5. CASE WritePiece \/ WriteFails \/ Restart
    BY <1>2, <2>5, DeliverRefines, GiveUpRefines, RestartRefines DEF D!Next
  <2>6. ASSUME NEW c \in Conn, NEW f \in Fd, AcceptCb(c, f) PROVE UNCHANGED D!vars
    BY <1>2, <2>6, AcceptStutters
  <2>7. CASE \/ \E c \in Conn : PeerEnds(c)
             \/ \E f \in Fd : ClientAccept(f) \/ ClientClose(f)
             \/ UNCHANGED vars
    <3>1. UNCHANGED <<from, conn_sfd, map_appServer_sfd_, tpc, tconn, spc, sconn, reached, stage>>
      BY <2>7 DEF PeerEnds, ClientAccept, ClientClose, vars, connVars, transportVars, senderVars
    <3> QED BY <3>1, DirectoryStutters
  <2> QED BY <1>2, <2>1, <2>2, <2>3, <2>4, <2>5, <2>6, <2>7 DEF Next
<1> QED BY <1>1, <1>2, RegistryInvariant, PTL DEF Spec, ImplementsDirectory, D!Spec
=============================================================================
