---------------------------- MODULE AppLinkProofs ----------------------------
(***************************************************************************)
(* Safety of the app server's link, for any number of descriptors and of   *)
(* reconnects.                                                             *)
(***************************************************************************)
EXTENDS AppLink, TLAPS

\* The places at which the thread has a socket.
Holding == {"socket", "connected", "registered", "loop", "crashed"}

\* The only socket open as the link's is sfd, and only at those places.
LinkIsSfd == \A f \in Fd : owner[f] = "link" <=> (pc \in Holding /\ f = sfd)

\* From the registration on the consumers have its number.
NumberIsNew == pc \in {"registered", "loop"} => clientInfo_sfd = sfd

LinkInv == TypeOK /\ LinkIsSfd /\ NumberIsNew

LEMMA InitLinkInv == Init => LinkInv
BY DEF Init, LinkInv, TypeOK, LinkIsSfd, NumberIsNew, Holding, Owner

\* The socket is opened.
LEMMA AttemptKeepsInv ==
  ASSUME LinkInv, NEW f \in Fd, Attempt(f)
  PROVE  LinkInv'
BY DEF LinkInv, TypeOK, LinkIsSfd, NumberIsNew, Holding, Owner, Attempt

\* The failures: each close takes the link's socket, or somebody else's.
LEMMA FailuresKeepInv ==
  ASSUME LinkInv,
         SocketFails \/ ConnectNonbFails \/ ClosesAgain \/ RegisterFails \/ ErrorCb
  PROVE  LinkInv'
<1> USE DEF LinkInv, TypeOK, LinkIsSfd, NumberIsNew, Holding, Owner
<1>1. CASE SocketFails BY <1>1 DEF SocketFails
<1>2. CASE ConnectNonbFails BY <1>2 DEF ConnectNonbFails
<1>3. CASE ClosesAgain BY <1>3 DEF ClosesAgain
<1>4. CASE RegisterFails BY <1>4 DEF RegisterFails
<1>5. CASE ErrorCb BY <1>5 DEF ErrorCb
<1> QED BY <1>1, <1>2, <1>3, <1>4, <1>5

\* The steps between two changes of the descriptor table.
LEMMA QuietStepsKeepInv ==
  ASSUME LinkInv,
         \/ Connects \/ Registers \/ NoEventBase \/ DispatchReturns
         \/ SetupTransport \/ InitStatsSocketFails
  PROVE  LinkInv'
<1> USE DEF LinkInv, TypeOK, LinkIsSfd, NumberIsNew, Holding, Owner
<1>1. CASE Connects BY <1>1 DEF Connects
<1>2. CASE Registers BY <1>2 DEF Registers
<1>3. CASE NoEventBase BY <1>3 DEF NoEventBase
<1>4. CASE DispatchReturns BY <1>4 DEF DispatchReturns
<1>5. CASE SetupTransport BY <1>5 DEF SetupTransport
<1>6. CASE InitStatsSocketFails BY <1>6 DEF InitStatsSocketFails
<1> QED BY <1>1, <1>2, <1>3, <1>4, <1>5, <1>6

\* The process ends, and with it all its descriptors.
LEMMA ExitKeepsInv ==
  ASSUME LinkInv, StatsConnection
  PROVE  LinkInv'
BY DEF LinkInv, TypeOK, LinkIsSfd, NumberIsNew, Holding, Owner, StatsConnection

\* The event base, whose descriptor is not the socket's.
LEMMA AddNewConnKeepsInv ==
  ASSUME LinkInv, NEW f \in Fd,
         AddNewConnToEvent(f) \/ AddNewConnFails(f)
  PROVE  LinkInv'
<1> USE DEF LinkInv, TypeOK, LinkIsSfd, NumberIsNew, Holding, Owner
<1>1. CASE AddNewConnToEvent(f) BY <1>1 DEF AddNewConnToEvent
<1>2. CASE AddNewConnFails(f) BY <1>2 DEF AddNewConnFails
<1> QED BY <1>1, <1>2

\* Other threads close what is theirs.
LEMMA OthersKeepInv ==
  ASSUME LinkInv, NEW f \in Fd, OtherOpens(f) \/ OtherCloses(f)
  PROVE  LinkInv'
<1> USE DEF LinkInv, TypeOK, LinkIsSfd, NumberIsNew, Holding, Owner, Running
<1>1. CASE OtherOpens(f) BY <1>1 DEF OtherOpens
<1>2. CASE OtherCloses(f) BY <1>2 DEF OtherCloses
<1> QED BY <1>1, <1>2

LEMMA StepKeepsLinkInv ==
  ASSUME LinkInv, [Next]_vars
  PROVE  LinkInv'
<1>1. ASSUME NEW f \in Fd, Attempt(f) \/ AddNewConnFails(f) \/ OtherOpens(f) \/ OtherCloses(f)
      PROVE  LinkInv'
  BY <1>1, AttemptKeepsInv, AddNewConnKeepsInv, OthersKeepInv
<1>2. CASE SocketFails \/ ConnectNonbFails \/ ClosesAgain \/ RegisterFails \/ ErrorCb
  BY <1>2, FailuresKeepInv
<1>3. CASE \/ Connects \/ Registers \/ NoEventBase \/ DispatchReturns
           \/ SetupTransport \/ InitStatsSocketFails
  BY <1>3, QuietStepsKeepInv
<1>4. CASE AddsConn
  BY <1>4, AddNewConnKeepsInv DEF AddsConn
<1>5. CASE StatsConnection
  BY <1>5, ExitKeepsInv
<1>6. CASE UNCHANGED vars
  BY <1>6 DEF vars, LinkInv, TypeOK, LinkIsSfd, NumberIsNew
<1> QED BY <1>1, <1>2, <1>3, <1>4, <1>5, <1>6 DEF Next

\* The inductive invariant holds.
THEOREM LinkInvariant == Spec => []LinkInv
<1>1. Init => LinkInv BY InitLinkInv
<1>2. LinkInv /\ [Next]_vars => LinkInv' BY StepKeepsLinkInv
<1> QED BY <1>1, <1>2, PTL DEF Spec

\* Type correctness of AppLink.
THEOREM LinkTypeCorrect == Spec => []TypeOK
<1>1. LinkInv => TypeOK BY DEF LinkInv
<1> QED BY <1>1, LinkInvariant, PTL

\* While a connection is served, its socket is open and is the one that the
\* consumers write to, through any history of closes, double closes and
\* descriptors used again.
THEOREM LinkStaysNamed == Spec => []LinkIsNamed
<1>1. LinkInv => LinkIsNamed
  BY DEF LinkInv, LinkIsNamed, TypeOK, LinkIsSfd, NumberIsNew, Holding
<1> QED BY <1>1, LinkInvariant, PTL

\* No failure leaves a socket behind, and there is never a second one.
THEOREM SocketsAreClosed == Spec => []NoSocketLeft
<1>1. LinkInv => NoSocketLeft
  BY DEF LinkInv, NoSocketLeft, OwnedBy, LinkIsSfd, Holding
<1> QED BY <1>1, LinkInvariant, PTL
=============================================================================
