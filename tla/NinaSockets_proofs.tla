------------------------- MODULE NinaSockets_proofs -------------------------
(***************************************************************************)
(* Proofs about NinaSockets.                                               *)
(***************************************************************************)
EXTENDS NinaSockets, TLAPS, WellFoundedInduction, FiniteSetTheorems

LessThan == {p \in Nat \X Nat : p[1] < p[2]}

(* A set of sockets or descriptors with members has a least one.           *)
LEMMA LeastIsMember ==
  ASSUME NEW S \in SUBSET Nat, S # {}
  PROVE  Least(S) \in S
<1>1. IsWellFoundedOn(LessThan, Nat)
  BY NatLessThanWellFounded DEF OpToRel, LessThan
<1>2. PICK x \in S : \A y \in S : ~(<<y, x>> \in LessThan)
  BY <1>1, WFMin
<1>3. ASSUME NEW y \in S PROVE x <= y
  <2>1. x \in Nat /\ y \in Nat /\ <<y, x>> \notin LessThan
    BY <1>2, <1>3
  <2>2. LessThan = {p \in Nat \X Nat : p[1] < p[2]}
    BY DEF LessThan
  <2>3. ~(y < x)
    BY <2>1, <2>2
  <2> QED
    BY <2>1, <2>3
<1> QED
  BY <1>3, Zenon DEF Least

What == {"closed", "listening"} \cup Peers

LEMMA SocketsAreNumbers == /\ Sockets \subseteq Nat /\ Fds \subseteq Nat
                           /\ None \notin Sockets /\ None \notin Fds
                           /\ Outside \notin Sockets /\ Outside # None
BY ConstantsAssumption DEF Sockets, Fds

(***************************************************************************)
(* What the commands do to the state of the co-processor: they keep its    *)
(* type, and change the set of free sockets as said.                       *)
(***************************************************************************)
LEMMA OpenedType ==
  ASSUME NEW n \in NinaState, NEW f \in Fds, NEW what \in What
  PROVE  Opened(n, f, what) \in NinaState /\ Opened(n, f, what).free = n.free
BY DEF Opened, NinaState, What

LEMMA ClosedType ==
  ASSUME NEW n \in NinaState, NEW f \in Fds
  PROVE  Closed(n, f) \in NinaState /\ Closed(n, f).free = n.free
BY DEF Closed, NinaState

LEMMA BookedType ==
  ASSUME NEW n \in NinaState, NEW s
  PROVE  Booked(n, s) \in NinaState /\ Booked(n, s).free = n.free \ {s}
BY DEF Booked, NinaState

LEMMA ReleasedType ==
  ASSUME NEW n \in NinaState, NEW s \in Sockets
  PROVE  Released(n, s) \in NinaState /\ Released(n, s).free = n.free \cup {s}
BY DEF Released, NinaState

LEMMA ClosedFdsType ==
  ASSUME NEW n \in NinaState, ClosedFds(n) # {}
  PROVE  Least(ClosedFds(n)) \in Fds
BY LeastIsMember, SocketsAreNumbers DEF ClosedFds

LEMMA GetSocketType ==
  ASSUME NEW n \in NinaState
  PROVE  GetSocket(n) \in n.free \cup {None}
BY LeastIsMember, SocketsAreNumbers DEF GetSocket, NinaState

(* Writing an entry of a table of the co-processor.                        *)
WithClient(n, s, f)   == [n EXCEPT !.tcpClient[s] = f]
WithServer(n, s, f)   == [n EXCEPT !.tcpServer[s] = f]
WithAccepted(n, s, f) == [n EXCEPT !.accepted[s] = f]

LEMMA EntriesType ==
  ASSUME NEW n \in NinaState, NEW s \in Sockets, NEW f \in Fds \cup {None}
  PROVE  /\ WithClient(n, s, f) \in NinaState /\ WithClient(n, s, f).free = n.free
         /\ WithServer(n, s, f) \in NinaState /\ WithServer(n, s, f).free = n.free
         /\ WithAccepted(n, s, f) \in NinaState /\ WithAccepted(n, s, f).free = n.free
BY DEF NinaState, WithClient, WithServer, WithAccepted

LEMMA DroppedType ==
  ASSUME NEW n \in NinaState, NEW s \in Sockets
  PROVE  Dropped(n, s) \in NinaState /\ Dropped(n, s).free = n.free
<1>1. CASE s \in n.free \/ n.tcpClient[s] = None
  BY <1>1 DEF Dropped
<1>2. CASE ~(s \in n.free \/ n.tcpClient[s] = None)
  <2> DEFINE m == Closed(n, n.tcpClient[s])
  <2>1. n.tcpClient[s] \in Fds
    BY <1>2 DEF NinaState
  <2>2. m \in NinaState /\ m.free = n.free
    BY <2>1, ClosedType
  <2>3. Dropped(n, s) = WithClient(m, s, None)
    BY <1>2, Zenon DEF Dropped, WithClient
  <2> HIDE DEF m
  <2> QED
    BY <2>2, <2>3, EntriesType
<1> QED
  BY <1>1, <1>2

LEMMA TakenType ==
  ASSUME NEW n \in NinaState, NEW p \in Phones
  PROVE  /\ Taken(n, p) \in NinaState /\ Taken(n, p).free = n.free
         /\ TakenFd(n) \in Fds \cup {None}
<1> DEFINE m == [n EXCEPT !.knocks[p] = None]
<1>1. m \in NinaState /\ m.free = n.free
  BY DEF NinaState
<1>2. p \in What
  BY DEF What, Peers
<1>3. Taken(n, p) = IF ClosedFds(n) = {} THEN m ELSE Opened(m, Least(ClosedFds(n)), p)
  BY DEF Taken
<1> QED
  BY <1>1, <1>2, <1>3, ClosedFdsType, OpenedType DEF TakenFd

(* A server's socket is booked only if it listens.                         *)
LEMMA StartServerType ==
  ASSUME NEW n \in NinaState, NEW s \in Sockets, NEW ok \in BOOLEAN
  PROVE  /\ StartServer(n, s, ok) \in NinaState
         /\ StartServer(n, s, ok).free \in {n.free, n.free \ {s}}
<1>1. CASE ok /\ ClosedFds(n) # {}
  <2> DEFINE m == Opened(Booked(n, s), Least(ClosedFds(n)), "listening")
  <2>1. m \in NinaState /\ m.free = n.free \ {s}
    BY <1>1, ClosedFdsType, BookedType, OpenedType DEF What
  <2>2. StartServer(n, s, ok) = WithServer(m, s, Least(ClosedFds(n)))
    BY <1>1, Zenon DEF StartServer, WithServer
  <2>3. Least(ClosedFds(n)) \in Fds
    BY <1>1, ClosedFdsType
  <2> HIDE DEF m
  <2> QED
    BY <2>1, <2>2, <2>3, EntriesType
<1>2. CASE ~(ok /\ ClosedFds(n) # {})
  <2>1. StartServer(n, s, ok) = WithServer(n, s, None)
    BY <1>2, Zenon DEF StartServer, WithServer
  <2> QED
    BY <2>1, EntriesType
<1> QED
  BY <1>1, <1>2

LEMMA StartClientType ==
  ASSUME NEW n \in NinaState, NEW s \in Sockets, NEW ok \in BOOLEAN
  PROVE  /\ StartClient(n, s, ok) \in NinaState
         /\ StartClient(n, s, ok).free \in {n.free, n.free \ {s}}
<1>1. CASE ok /\ ClosedFds(n) # {}
  <2> DEFINE m == Opened(Booked(n, s), Least(ClosedFds(n)), Caster)
  <2>1. m \in NinaState /\ m.free = n.free \ {s}
    BY <1>1, ClosedFdsType, BookedType, OpenedType DEF What, Peers
  <2>2. StartClient(n, s, ok) = WithClient(m, s, Least(ClosedFds(n)))
    BY <1>1, Zenon DEF StartClient, WithClient
  <2>3. Least(ClosedFds(n)) \in Fds
    BY <1>1, ClosedFdsType
  <2> HIDE DEF m
  <2> QED
    BY <2>1, <2>2, <2>3, EntriesType
<1>2. CASE ~(ok /\ ClosedFds(n) # {})
  <2>1. StartClient(n, s, ok) = WithClient(n, s, None)
    BY <1>2, Zenon DEF StartClient, WithClient
  <2> QED
    BY <2>1, EntriesType
<1> QED
  BY <1>1, <1>2

LEMMA StopClientType ==
  ASSUME NEW n \in NinaState, NEW s \in Sockets
  PROVE  StopClient(n, s) \in NinaState /\ StopClient(n, s).free = n.free \cup {s}
BY DroppedType, ReleasedType DEF StopClient

(* A socket that is not alive is free once its state has been asked for.   *)
LEMMA GetClientStateType ==
  ASSUME NEW n \in NinaState, NEW s \in Sockets
  PROVE  /\ GetClientState(n, s) \in NinaState
         /\ Alive(n, s) => GetClientState(n, s).free = n.free
         /\ ~Alive(n, s) => GetClientState(n, s).free = n.free \cup {s}
BY DroppedType, ReleasedType DEF GetClientState

LEMMA ServerAcceptType ==
  ASSUME NEW n \in NinaState, NEW s \in Sockets, NEW m \in ServerAccept(n, s)
  PROVE  m \in NinaState /\ m.free = n.free
<1>1. CASE n.accepted[s] # None
  BY <1>1 DEF ServerAccept
<1>2. CASE n.accepted[s] = None
  <2>1. PICK p \in Waiting(n, n.tcpServer[s]) :
          m = [Taken(n, p) EXCEPT !.accepted[s] = TakenFd(n)]
    BY <1>2 DEF ServerAccept
  <2>2. p \in Phones
    BY <2>1 DEF Waiting
  <2>3. /\ Taken(n, p) \in NinaState /\ Taken(n, p).free = n.free
        /\ TakenFd(n) \in Fds \cup {None}
    BY <2>2, TakenType
  <2> QED
    BY <2>1, <2>3 DEF NinaState
<1> QED
  BY <1>1, <1>2

(* What is taken for a socket's number.                                    *)
Numbers == Sockets \cup {Outside, None}

(* Counting bytes takes no socket.                                         *)
LEMMA ByteCountType ==
  ASSUME NEW n \in NinaState, NEW s \in Sockets, NEW answer \in ByteCount(n, s)
  PROVE  answer[1] \in NinaState /\ answer[2] \in Numbers /\ answer[1].free = n.free
<1>1. 0 \in Numbers /\ Counts \subseteq Numbers
  BY ConstantsAssumption DEF Numbers, Sockets
<1>2. \/ answer = <<n, 0>> \/ answer = <<Dropped(n, s), 0>>
      \/ \E count \in Counts : answer = <<n, count>>
  BY Zenon DEF ByteCount
<1>3. Dropped(n, s) \in NinaState /\ Dropped(n, s).free = n.free
  BY DroppedType
<1> QED
  BY <1>1, <1>2, <1>3

(* Asking a server for a newcomer takes at most the socket answered.       *)
LEMMA AvailAcceptType ==
  ASSUME NEW n \in NinaState, NEW s \in Sockets \cup {None},
         NEW answer \in AvailAccept(n, s)
  PROVE  /\ answer[1] \in NinaState /\ answer[2] \in Numbers
         /\ answer[1].free \in {n.free, n.free \ {answer[2]}}
<1>0. 0 \in Numbers /\ Sockets \cup {None} \subseteq Numbers /\ Counts \subseteq Numbers
  BY ConstantsAssumption DEF Sockets, Numbers
<1>1. CASE s = None
  BY <1>0, <1>1 DEF AvailAccept
<1>2. CASE s # None /\ s \in n.free
  BY <1>0, <1>2 DEF AvailAccept
<1>3. CASE s # None /\ s \notin n.free /\ n.tcpServer[s] = None
  <2>1. answer \in ByteCount(n, s) /\ s \in Sockets
    BY <1>3 DEF AvailAccept
  <2> QED
    BY <2>1, ByteCountType
<1>4. CASE /\ s # None /\ s \notin n.free /\ n.tcpServer[s] # None
           /\ n.free = {} \/ ServerAccept(n, s) = {}
  <2>1. answer = <<n, None>>
    BY <1>4, Zenon DEF AvailAccept
  <2> QED
    BY <1>0, <2>1
<1>5. CASE /\ s # None /\ s \notin n.free /\ n.tcpServer[s] # None
           /\ ~(n.free = {} \/ ServerAccept(n, s) = {})
  <2> DEFINE i == Least(n.free)
  <2>1. i \in n.free /\ i \in Sockets
    BY <1>5, LeastIsMember, SocketsAreNumbers DEF NinaState
  <2>2. PICK m \in ServerAccept(n, s) :
          answer = IF m.accepted[s] = None THEN <<m, None>>
                   ELSE <<[Booked(m, i) EXCEPT !.tcpClient[i] = m.accepted[s],
                                               !.accepted[s] = None], i>>
    BY <1>5, Zenon DEF AvailAccept
  <2>3. s \in Sockets
    BY <1>5
  <2>4. m \in NinaState /\ m.free = n.free
    BY <2>3, ServerAcceptType
  <2>5. CASE m.accepted[s] = None
    BY <1>0, <2>2, <2>4, <2>5
  <2>6. CASE m.accepted[s] # None
    <3>1. m.accepted[s] \in Fds
      BY <2>3, <2>4, <2>6 DEF NinaState
    <3>2. Booked(m, i) \in NinaState /\ Booked(m, i).free = n.free \ {i}
      BY <2>4, BookedType
    <3> DEFINE b == Booked(m, i)
               c == WithClient(b, i, m.accepted[s])
    <3>3. answer = <<WithAccepted(c, s, None), i>>
      <4>1. answer = <<[Booked(m, i) EXCEPT !.tcpClient[i] = m.accepted[s],
                                            !.accepted[s] = None], i>>
        BY <2>2, <2>6, Zenon
      <4> QED
        BY <4>1 DEF WithAccepted, WithClient
    <3> HIDE DEF b
    <3>4. c \in NinaState /\ c.free = n.free \ {i}
      BY <2>1, <3>1, <3>2, EntriesType DEF b
    <3> HIDE DEF c
    <3>5. WithAccepted(c, s, None) \in NinaState /\ WithAccepted(c, s, None).free = n.free \ {i}
      BY <2>3, <3>4, EntriesType
    <3> QED
      BY <1>0, <2>1, <3>5, <3>3
  <2> QED
    BY <2>5, <2>6
<1> QED
  BY <1>1, <1>2, <1>3, <1>4, <1>5

-----------------------------------------------------------------------------
(***************************************************************************)
(* Type correctness.                                                       *)
(***************************************************************************)
LEMMA PrunedType ==
  ASSUME NEW n \in NinaState, NEW s \in Sockets
  PROVE  Pruned(n, s) \in NinaState /\ Pruned(n, s).free = n.free
<1> DEFINE dead == {f \in n.spawned[s] : n.lwip[f] \notin Peers \/ f \in n.hung}
           l == [f \in Fds |-> IF f \in dead THEN "closed" ELSE n.lwip[f]]
           h == n.hung \ dead
           w == [n.spawned EXCEPT ![s] = @ \ dead]
           k == [p \in Phones |-> IF n.knocks[p] \in dead THEN None ELSE n.knocks[p]]
<1>1. /\ l \in [Fds -> What] /\ h \in SUBSET Fds
      /\ w \in [Sockets -> SUBSET Fds]
      /\ k \in [Phones -> Fds \cup {None}]
  BY DEF NinaState, What
<1>2. Pruned(n, s) = [n EXCEPT !.lwip = l, !.hung = h, !.spawned = w, !.knocks = k]
  BY DEF Pruned, NinaState
<1> HIDE DEF dead, l, h, w, k
<1> QED
  BY <1>1, <1>2 DEF NinaState, What

LEMMA CloseConnectionsType ==
  ASSUME NEW n \in NinaState
  PROVE  CloseConnections(n) \in NinaState /\ CloseConnections(n).free = n.free
BY DEF CloseConnections, NinaState

LEMMA InitType == Init => TypeOK
<1> SUFFICES ASSUME Init PROVE TypeOK
  OBVIOUS
<1>1. nina \in NinaState
  BY DEF Init, NinaState
<1>2. next \in Table /\ drops \in 0 .. MaxDrops /\ misreads \in 0 .. MaxMisreads
  BY ConstantsAssumption DEF Init, Table
<1> QED
  BY <1>1, <1>2 DEF Init, TypeOK

(* Whom the server answers, and where a newcomer is put.                   *)
LEMMA AnswerType ==
  ASSUME TypeOK, NEW answer \in AvailAccept(nina, server)
  PROVE  /\ answer[1] \in NinaState /\ answer[2] \in Numbers
         /\ answer[1].free \in {nina.free, nina.free \ {answer[2]}}
BY AvailAcceptType DEF TypeOK

(* The client whose place is taken is not there or not alive, or beyond    *)
(* the tables.                                                             *)
LEMMA AdmitPlace ==
  ASSUME NEW n, NEW new, Admit(n, new)
  PROVE  \/ nina' = TurnedAway(n, new) /\ clients' = clients
         \/ \E i \in Table :
              /\ i \in Strays \/ clients[i] = None \/ ~Alive(n, clients[i])
              /\ nina' = Disowned(n, clients[i])
              /\ clients' = [clients EXCEPT ![i] = new]
<1>1. PICK dead \in SUBSET Strays :
        LET usable == {i \in Table \ Strays : clients[i] = None \/ ~Alive(n, clients[i])} \cup dead
            i      == Least(usable)
        IN \/ /\ usable = {}
              /\ nina' = TurnedAway(n, new)
              /\ clients' = clients
           \/ /\ usable # {}
              /\ nina' = Disowned(n, clients[i])
              /\ clients' = [clients EXCEPT ![i] = new]
  BY Zenon DEF Admit
<1> DEFINE usable == {i \in Table \ Strays : clients[i] = None \/ ~Alive(n, clients[i])} \cup dead
           i == Least(usable)
<1>2. usable \in SUBSET Nat /\ \A j \in usable : j \in Table
  <2>1. Table \subseteq Nat /\ Strays \subseteq Table
    BY DEF Table, Strays
  <2>2. usable \subseteq Table
    BY <2>1
  <2> QED
    BY <2>1, <2>2
<1>3. CASE usable # {}
  <2>1. i \in usable
    BY <1>2, <1>3, LeastIsMember
  <2>2. i \in Table /\ (i \in Strays \/ clients[i] = None \/ ~Alive(n, clients[i]))
    BY <1>2, <2>1
  <2>3. nina' = Disowned(n, clients[i]) /\ clients' = [clients EXCEPT ![i] = new]
    BY <1>1, <1>3
  <2> HIDE DEF i
  <2> QED
    BY <2>2, <2>3
<1> QED
  BY <1>1, <1>3

(* Admitting a newcomer either gives its socket back or has it in the      *)
(* table, and gives back the socket of the client it takes the place of.   *)
LEMMA AdmitEffect ==
  ASSUME TypeOK, NEW n \in NinaState, NEW new \in Sockets \cup {Outside}, Admit(n, new)
  PROVE  /\ nina' \in NinaState /\ clients' \in [Table -> Numbers]
         /\ n.free \subseteq nina'.free
         /\ new \in nina'.free \cup {Outside} \/ \E i \in Table : clients'[i] = new
         /\ \A i \in Table : \/ clients'[i] = clients[i]
                             \/ clients[i] \in nina'.free \cup {None, Outside}
<1>0. clients \in [Table -> Numbers]
  BY DEF TypeOK, Numbers
<1>1. CASE nina' = TurnedAway(n, new) /\ clients' = clients
  BY <1>0, <1>1, StopClientType DEF TurnedAway
<1>2. ASSUME NEW i \in Table,
             i \in Strays \/ clients[i] = None \/ ~Alive(n, clients[i]),
             nina' = Disowned(n, clients[i]),
             clients' = [clients EXCEPT ![i] = new]
      PROVE  /\ nina' \in NinaState /\ clients' \in [Table -> Numbers]
             /\ n.free \subseteq nina'.free
             /\ clients'[i] = new
             /\ \A j \in Table : \/ clients'[j] = clients[j]
                                 \/ clients[j] \in nina'.free \cup {None, Outside}
  <2>1. /\ clients' \in [Table -> Numbers] /\ clients'[i] = new
        /\ \A j \in Table : j = i \/ clients'[j] = clients[j]
    BY <1>0, <1>2 DEF Numbers
  <2>2. CASE clients[i] \in Sockets
    <3>1. ~Alive(n, clients[i])
      BY <1>2, <2>2, SocketsAreNumbers DEF Strays
    <3>2. nina' = GetClientState(n, clients[i])
      BY <1>2, <2>2 DEF Disowned
    <3>3. nina' \in NinaState /\ nina'.free = n.free \cup {clients[i]}
      BY <2>2, <3>1, <3>2, GetClientStateType
    <3> QED
      BY <2>1, <3>3
  <2>3. CASE clients[i] \notin Sockets
    <3>1. nina' = n
      BY <1>2, <2>3 DEF Disowned
    <3>2. clients[i] \in {None, Outside}
      BY <1>0, <2>3 DEF Numbers
    <3> QED
      BY <2>1, <3>1, <3>2
  <2> QED
    BY <2>2, <2>3
<1>3. CASE \E i \in Table :
             /\ i \in Strays \/ clients[i] = None \/ ~Alive(n, clients[i])
             /\ nina' = Disowned(n, clients[i])
             /\ clients' = [clients EXCEPT ![i] = new]
  BY <1>2, <1>3
<1> QED
  BY <1>1, <1>3, AdmitPlace

LEMMA ForgetType ==
  ASSUME TypeOK, NEW S, Forget(S)
  PROVE  orphans' \subseteq Sockets
BY DEF Forget, TypeOK

(* Each step of the rover keeps the type.                                  *)
LEMMA RoverKeepsType ==
  ASSUME TypeOK, Superloop
  PROVE  TypeOK'
<1>1. CASE NtripPoll
  <2>1. nina' \in NinaState /\ sock' \in Sockets \cup {None}
    <3>1. CASE NtripStays
      BY <3>1 DEF NtripStays, TypeOK
    <3>2. CASE NtripConnects
      <4> DEFINE s == GetSocket(nina)
      <4>1. s \in Sockets
        BY <3>2, GetSocketType DEF NtripConnects, TypeOK, NinaState
      <4>2. PICK ok \in BOOLEAN :
              /\ nina' = GetClientState(StartClient(nina, s, ok), s)
              /\ sock' = IF Alive(StartClient(nina, s, ok), s) THEN s ELSE None
        BY <3>2 DEF NtripConnects
      <4>3. StartClient(nina, s, ok) \in NinaState
        BY <4>1, StartClientType DEF TypeOK
      <4> QED
        BY <4>1, <4>2, <4>3, GetClientStateType
    <3>3. CASE NtripLost
      BY <3>3, GetClientStateType DEF NtripLost, TypeOK
    <3>4. CASE NtripStops
      BY <3>4, StopClientType DEF NtripStops, TypeOK
    <3> QED
      BY <1>1, <3>1, <3>2, <3>3, <3>4 DEF NtripPoll
  <2>2. orphans' \subseteq Sockets
    BY <1>1, ForgetType DEF NtripPoll
  <2> QED
    BY <1>1, <2>1, <2>2 DEF NtripPoll, TypeOK
<1>2. CASE EnsureServer
  <2>1. /\ nina' \in NinaState /\ server' \in Sockets \cup {None}
        /\ serverUp' \in BOOLEAN /\ phase' \in {"ntrip", "accept"}
    <3>1. CASE ServerDown
      BY <3>1 DEF ServerDown, TypeOK
    <3>2. CASE ServerBegins
      <4> DEFINE s == GetSocket(nina)
      <4>1. s \in Sockets \cup {None}
        BY GetSocketType DEF TypeOK, NinaState
      <4>2. server' = s /\ serverUp' = TRUE /\ phase' = "accept"
        BY <3>2 DEF ServerBegins
      <4>3. nina' \in NinaState
        <5>1. CASE s = None
          BY <3>2, <5>1 DEF ServerBegins, TypeOK
        <5>2. CASE s # None
          <6>1. PICK ok \in MayListen(nina) : nina' = StartServer(nina, s, ok)
            BY <3>2, <5>2 DEF ServerBegins
          <6>2. ok \in BOOLEAN
            BY <6>1 DEF MayListen
          <6> QED
            BY <4>1, <5>2, <6>1, <6>2, StartServerType DEF TypeOK
        <5> QED
          BY <5>1, <5>2
      <4> QED
        BY <4>1, <4>2, <4>3
    <3>3. CASE ServerStays
      BY <3>3 DEF ServerStays, TypeOK
    <3> QED
      BY <1>2, <3>1, <3>2, <3>3 DEF EnsureServer
  <2>2. orphans' \subseteq Sockets
    <3>1. Forget({server})
      BY <1>2 DEF EnsureServer
    <3> QED
      BY <3>1, ForgetType
  <2> QED
    BY <1>2, <2>1, <2>2 DEF EnsureServer, TypeOK
<1>3. CASE AcceptClients
  <2>1. PICK answer \in AvailAccept(nina, server) :
          /\ \/ /\ answer[2] = None
                /\ nina' = answer[1]
                /\ UNCHANGED <<clients, misreads>>
             \/ answer[2] # None /\ Ignored(answer[1], answer[2])
             \/ /\ answer[2] # None
                /\ Admit(answer[1], answer[2])
                /\ misreads' = misreads
          /\ Forget({answer[2]})
    BY <1>3 DEF AcceptClients
  <2>0. clients \in [Table -> Numbers]
    BY DEF TypeOK, Numbers
  <2>2. answer[1] \in NinaState /\ answer[2] \in Numbers
    BY AnswerType
  <2>3. /\ nina' \in NinaState /\ clients' \in [Table -> Numbers]
        /\ misreads' \in 0 .. MaxMisreads
    <3>1. CASE answer[2] = None /\ nina' = answer[1] /\ UNCHANGED <<clients, misreads>>
      BY <2>0, <2>2, <3>1 DEF TypeOK
    <3>2. CASE Ignored(answer[1], answer[2])
      <4>1. misreads' \in {misreads, misreads + 1} /\ misreads' <= MaxMisreads
        BY <3>2 DEF Ignored
      <4>2. nina' \in NinaState /\ clients' \in [Table -> Numbers]
        BY <2>0, <2>2, <3>2 DEF Ignored
      <4>3. misreads' \in 0 .. MaxMisreads
        BY <4>1, ConstantsAssumption DEF TypeOK
      <4> QED
        BY <4>2, <4>3
    <3>3. CASE answer[2] # None /\ Admit(answer[1], answer[2]) /\ misreads' = misreads
      <4>1. answer[2] \in Sockets \cup {Outside}
        BY <2>2, <3>3 DEF Numbers
      <4> QED
        BY <2>2, <3>3, <4>1, AdmitEffect DEF TypeOK
    <3> QED
      BY <2>1, <3>1, <3>2, <3>3
  <2>4. orphans' \subseteq Sockets
    <3> QED
      BY <2>1, ForgetType
  <2>5. 1 \in Table
    BY ConstantsAssumption DEF Table
  <2> QED
    BY <1>3, <2>3, <2>4, <2>5 DEF AcceptClients, TypeOK, Numbers
<1>4. CASE PruneClient
  <2>1. nina' \in NinaState /\ clients' \in [Table -> Sockets \cup {None, Outside}]
    <3>1. CASE UNCHANGED <<nina, clients>>
      BY <3>1 DEF TypeOK
    <3>2. CASE /\ clients[next] # None /\ nina' = Disowned(nina, clients[next])
               /\ clients' = Vacated(next)
      <4>1. nina' \in NinaState
        BY <3>2, GetClientStateType DEF Disowned, TypeOK
      <4> QED
        BY <3>2, <4>1 DEF Vacated, TypeOK
    <3> QED
      BY <1>4, <3>1, <3>2 DEF PruneClient
  <2>2. next' \in Table /\ phase' \in {"ntrip", "prune"}
    BY <1>4, ConstantsAssumption DEF PruneClient, TypeOK, Table
  <2>3. orphans' \subseteq Sockets
    BY <1>4, ForgetType DEF PruneClient
  <2> QED
    BY <1>4, <2>1, <2>2, <2>3 DEF PruneClient, TypeOK
<1> QED
  BY <1>1, <1>2, <1>3, <1>4 DEF Superloop

LEMMA NetworkKeepsType ==
  ASSUME TypeOK, Gpio \/ Network
  PROVE  TypeOK' /\ nina'.free = nina.free
<1>1. CASE Gpio
  <2>1. /\ nina' \in NinaState /\ nina'.free = nina.free
        /\ gpio' \in Sockets \cup {None}
    <3>1. CASE GpioAvailable
      <4>1. gpio \in Sockets /\ gpio' = None
        BY <3>1 DEF GpioAvailable, TypeOK
      <4>2. CASE nina' = Pruned(nina, gpio)
        BY <4>1, <4>2, PrunedType DEF TypeOK
      <4>3. ASSUME NEW p \in Waiting(nina, nina.tcpServer[gpio]),
                   nina' = Pruned([Taken(nina, p) EXCEPT
                                    !.spawned[gpio] = @ \cup ({TakenFd(nina)} \ {None})], gpio)
            PROVE  nina' \in NinaState /\ nina'.free = nina.free
        <5> DEFINE m == Taken(nina, p)
                   w == [m EXCEPT !.spawned[gpio] = @ \cup ({TakenFd(nina)} \ {None})]
        <5>1. p \in Phones
          BY <4>3 DEF Waiting
        <5>2. m \in NinaState /\ m.free = nina.free /\ TakenFd(nina) \in Fds \cup {None}
          BY <5>1, TakenType DEF TypeOK
        <5>3. nina' = Pruned(w, gpio)
          BY <4>3
        <5> HIDE DEF m
        <5>4. w \in NinaState /\ w.free = nina.free
          BY <4>1, <5>2 DEF NinaState
        <5> HIDE DEF w
        <5> QED
          BY <4>1, <5>3, <5>4, PrunedType
      <4> QED
        BY <3>1, <4>1, <4>2, <4>3 DEF GpioAvailable
    <3>2. ASSUME NEW s \in Sockets, GpioHasClient(s)
          PROVE  /\ nina' \in NinaState /\ nina'.free = nina.free
                 /\ gpio' \in Sockets \cup {None}
      BY <3>2, ServerAcceptType DEF GpioHasClient, TypeOK
    <3>3. ASSUME NEW s \in Sockets, GpioClient(s)
          PROVE  /\ nina' \in NinaState /\ nina'.free = nina.free
                 /\ gpio' \in Sockets \cup {None}
      BY <3>3, DroppedType DEF GpioClient, TypeOK
    <3> QED
      BY <1>1, <3>1, <3>2, <3>3 DEF Gpio
  <2> QED
    BY <1>1, <2>1 DEF Gpio, rover, TypeOK
<1>2. ASSUME NEW p \in Phones, PhoneConnects(p) PROVE TypeOK' /\ nina'.free = nina.free
  BY <1>2 DEF PhoneConnects, rover, TypeOK, NinaState
<1>3. ASSUME NEW p \in Peers, PeerCloses(p) PROVE TypeOK' /\ nina'.free = nina.free
  BY <1>3 DEF PeerCloses, Connections, rover, TypeOK, NinaState
<1>4. CASE WifiDrops
  <2>1. nina' \in NinaState /\ nina'.free = nina.free
    BY <1>4, CloseConnectionsType DEF WifiDrops, TypeOK
  <2>2. drops' \in 0 .. MaxDrops
    BY <1>4, ConstantsAssumption DEF WifiDrops, TypeOK
  <2> QED
    BY <1>4, <2>1, <2>2 DEF WifiDrops, TypeOK
<1>5. CASE WifiJoins
  BY <1>5 DEF WifiJoins, TypeOK
<1> QED
  BY <1>1, <1>2, <1>3, <1>4, <1>5 DEF Network

(* Every variable keeps its type, for any number of sockets, clients,      *)
(* phones and losses of the link.                                          *)
THEOREM TypeCorrect == Spec => []TypeOK
<1>1. Init => TypeOK
  BY InitType
<1>2. TypeOK /\ [Next]_vars => TypeOK'
  <2>1. TypeOK /\ Next => TypeOK'
    BY RoverKeepsType, NetworkKeepsType DEF Next
  <2>2. TypeOK /\ UNCHANGED vars => TypeOK'
    BY DEF TypeOK, vars
  <2> QED
    BY <2>1, <2>2
<1> QED
  BY <1>1, <1>2, PTL DEF Spec

-----------------------------------------------------------------------------
(***************************************************************************)
(* Every socket is accounted for.  A server whose station link has been    *)
(* lost is as good as leaked: it is counted before it is replaced.         *)
(***************************************************************************)
Doomed == server # None /\ (~serverUp \/ ~wifi)

Known == Busy \subseteq Held \cup orphans
Count == Cardinality(orphans) + (IF Doomed THEN 1 ELSE 0) <= drops + misreads

LeakInv == TypeOK /\ Known /\ Count

(* Sockets are forgotten by Forget() only: what a step books, the rover    *)
(* holds or forgets, what it held it still does, has given back or forgets.*)
LEMMA NoneSlips ==
  ASSUME TypeOK, TypeOK', Known, NEW S, Forget(S),
         \A t \in nina.free : t \in nina'.free \cup Held' \cup S,
         \A t \in Held : t \in nina'.free \cup Held' \cup S
  PROVE  Known'
<1> SUFFICES ASSUME NEW t \in Sockets, t \notin nina'.free, t \notin Held'
             PROVE  t \in orphans'
  BY DEF Known, Busy
<1>2. t \in orphans \cup (S \cap Sockets)
  <2>1. CASE t \in nina.free
    BY <2>1
  <2>2. CASE t \notin nina.free
    BY <2>2 DEF Known, Busy
  <2> QED
    BY <2>1, <2>2
<1> QED
  BY <1>2 DEF Forget

LEMMA OrphansFinite ==
  ASSUME NEW S \in SUBSET Sockets
  PROVE  IsFiniteSet(S) /\ Cardinality(S) \in Nat
<1>1. IsFiniteSet(Sockets)
  BY FS_Interval, ConstantsAssumption DEF Sockets
<1> QED
  BY <1>1, FS_Subset, FS_CardinalityType

(* Forgetting adds at most one socket to the orphans.                      *)
LEMMA OneMore ==
  ASSUME TypeOK, TypeOK', NEW x, orphans' \subseteq orphans \cup {x}
  PROVE  Cardinality(orphans') <= Cardinality(orphans) + 1
<1>1. /\ IsFiniteSet(orphans) /\ Cardinality(orphans) \in Nat /\ Cardinality(orphans') \in Nat
  BY OrphansFinite DEF TypeOK
<1>2. /\ IsFiniteSet(orphans \cup {x})
      /\ Cardinality(orphans \cup {x}) \in {Cardinality(orphans), Cardinality(orphans) + 1}
  BY <1>1, FS_AddElement
<1>3. Cardinality(orphans') <= Cardinality(orphans \cup {x})
  BY <1>2, FS_Subset
<1> QED
  BY <1>1, <1>2, <1>3

LEMMA NoneMore ==
  ASSUME TypeOK, TypeOK', orphans' \subseteq orphans
  PROVE  Cardinality(orphans') <= Cardinality(orphans)
BY OrphansFinite, FS_Subset DEF TypeOK

LEMMA ForgetEffect ==
  ASSUME NEW S, Forget(S)
  PROVE  /\ orphans' \subseteq orphans \cup (S \cap Sockets)
         /\ orphans' \cap nina'.free = {} /\ orphans' \cap Held' = {}
BY DEF Forget

LEMMA NtripAccounts ==
  ASSUME LeakInv, TypeOK', NtripPoll
  PROVE  Known' /\ Count'
<1> USE DEF LeakInv
<1>0. Forget({}) /\ UNCHANGED <<wifi, serverUp, server, clients, drops, misreads>>
  BY DEF NtripPoll
<1>2. /\ \A t \in nina.free : t \in nina'.free \cup Held'
      /\ \A t \in Held : t \in nina'.free \cup Held'
  <2>1. CASE NtripStays
    BY <1>0, <2>1 DEF NtripStays, Held
  <2>2. CASE NtripConnects
    <3> DEFINE s == GetSocket(nina)
    <3>1. s \in Sockets /\ s # None /\ sock = None
      BY <2>2, GetSocketType DEF NtripConnects, TypeOK, NinaState
    <3>2. PICK ok \in BOOLEAN :
            /\ nina' = GetClientState(StartClient(nina, s, ok), s)
            /\ sock' = IF Alive(StartClient(nina, s, ok), s) THEN s ELSE None
      BY <2>2 DEF NtripConnects
    <3> DEFINE n == StartClient(nina, s, ok)
    <3>3. n \in NinaState /\ n.free \in {nina.free, nina.free \ {s}}
      BY <3>1, StartClientType DEF TypeOK
    <3>4. /\ Alive(n, s) => nina'.free = n.free /\ sock' = s
          /\ ~Alive(n, s) => nina'.free = n.free \cup {s}
      BY <3>1, <3>2, <3>3, GetClientStateType
    <3>5. Held \subseteq Held'
      BY <1>0, <3>1 DEF Held
    <3>6. sock' = s => s \in Held'
      BY <3>1, SocketsAreNumbers DEF Held
    <3> HIDE DEF n, s
    <3> QED
      BY <3>3, <3>4, <3>5, <3>6
  <2>3. CASE NtripLost
    <3>1. sock \in Sockets /\ ~Alive(nina, sock) /\ nina' = GetClientState(nina, sock)
      BY <2>3 DEF NtripLost, TypeOK
    <3>2. nina'.free = nina.free \cup {sock}
      BY <3>1, GetClientStateType DEF TypeOK
    <3> QED
      BY <1>0, <3>2 DEF Held
  <2>4. CASE NtripStops
    <3>1. nina'.free = nina.free \cup {sock}
      BY <2>4, StopClientType DEF NtripStops, TypeOK
    <3> QED
      BY <1>0, <3>1 DEF Held
  <2> QED
    BY <2>1, <2>2, <2>3, <2>4 DEF NtripPoll
<1>3. Known'
  BY <1>0, <1>2, NoneSlips
<1>4. Cardinality(orphans') <= Cardinality(orphans)
  BY <1>0, ForgetEffect, NoneMore
<1>5. Count'
  <2>1. Doomed' = Doomed
    BY <1>0 DEF Doomed
  <2>2. Cardinality(orphans) \in Nat /\ Cardinality(orphans') \in Nat
    BY OrphansFinite DEF TypeOK
  <2> QED
    BY <1>0, <1>4, <2>1, <2>2 DEF Count, TypeOK
<1> QED
  BY <1>3, <1>5

(* A server is replaced only after a loss of the link.                     *)
LEMMA ServerAccounts ==
  ASSUME LeakInv, TypeOK', EnsureServer
  PROVE  Known' /\ Count'
<1> USE DEF LeakInv
<1>0. Forget({server}) /\ UNCHANGED <<wifi, sock, clients, drops, misreads>>
  BY DEF EnsureServer
<1>1. \A t \in Held : t \in Held' \cup {server}
  BY <1>0 DEF Held
<1>2. /\ \A t \in nina.free : t \in nina'.free \cup Held'
      /\ Doomed' => Doomed
      /\ ~Doomed => orphans' \subseteq orphans
      /\ orphans' \subseteq orphans \cup {server}
      /\ ~Doomed' \/ orphans' \subseteq orphans
  <2>1. CASE ServerDown
    <3>1. server \in Held' \cup {None}
      BY <2>1, SocketsAreNumbers DEF ServerDown, Held, TypeOK
    <3>2. orphans' \subseteq orphans
      BY <1>0, <3>1, ForgetEffect, SocketsAreNumbers
    <3> QED
      BY <1>0, <2>1, <3>2 DEF ServerDown, Doomed
  <2>2. CASE ServerStays
    <3>1. server \in Held' \cup {None}
      BY <2>2, SocketsAreNumbers DEF ServerStays, Held, TypeOK
    <3>2. orphans' \subseteq orphans
      BY <1>0, <3>1, ForgetEffect, SocketsAreNumbers
    <3> QED
      BY <1>0, <2>2, <3>2 DEF ServerStays, Doomed
  <2>3. CASE ServerBegins
    <3> DEFINE s == GetSocket(nina)
    <3>1. /\ wifi /\ ~serverUp /\ server' = s /\ serverUp' = TRUE
          /\ s \in nina.free \cup {None}
      BY <2>3, GetSocketType DEF ServerBegins, TypeOK
    <3>2. ~Doomed'
      BY <1>0, <3>1, Zenon DEF Doomed
    <3>3. \A t \in nina.free : t \in nina'.free \cup Held'
      <4>1. CASE s = None
        <5>1. nina' = nina
          BY <2>3, <4>1 DEF ServerBegins
        <5> QED
          BY <5>1
      <4>2. CASE s # None
        <5>1. PICK ok \in MayListen(nina) : nina' = StartServer(nina, s, ok)
          BY <2>3, <4>2 DEF ServerBegins
        <5>2. ok \in BOOLEAN /\ s \in Sockets
          BY <3>1, <4>2, <5>1 DEF MayListen, TypeOK, NinaState
        <5>3. nina'.free \in {nina.free, nina.free \ {s}}
          BY <5>1, <5>2, StartServerType DEF TypeOK
        <5>4. s \in Held'
          BY <3>1, <4>2, <5>2, SocketsAreNumbers DEF Held
        <5> HIDE DEF s
        <5> QED
          BY <5>3, <5>4
      <4> QED
        BY <4>1, <4>2
    <3>4. orphans' \subseteq orphans \cup ({server} \cap Sockets)
      BY <1>0, ForgetEffect
    <3>5. ~Doomed => server = None
      BY <3>1 DEF Doomed
    <3> QED
      BY <3>2, <3>3, <3>4, <3>5, SocketsAreNumbers
  <2> QED
    BY <2>1, <2>2, <2>3 DEF EnsureServer
<1>3. Known'
  BY <1>0, <1>1, <1>2, NoneSlips
<1>4. Count'
  <2>1. Cardinality(orphans) \in Nat /\ Cardinality(orphans') \in Nat
    BY OrphansFinite DEF TypeOK
  <2>2. CASE orphans' \subseteq orphans
    <3>1. Cardinality(orphans') <= Cardinality(orphans)
      BY <2>2, NoneMore
    <3> QED
      BY <1>0, <1>2, <2>1, <3>1 DEF Count, TypeOK
  <2>3. CASE ~(orphans' \subseteq orphans)
    <3>1. Cardinality(orphans') <= Cardinality(orphans) + 1
      BY <1>2, OneMore
    <3>2. Doomed /\ ~Doomed'
      BY <1>2, <2>3
    <3> QED
      BY <1>0, <2>1, <3>1, <3>2 DEF Count, TypeOK
  <2> QED
    BY <2>2, <2>3
<1> QED
  BY <1>3, <1>4

(* A newcomer is given back, has a place in the table, or is counted.      *)
LEMMA AcceptAccounts ==
  ASSUME LeakInv, TypeOK', AcceptClients
  PROVE  Known' /\ Count'
<1> USE DEF LeakInv
<1>0. UNCHANGED <<wifi, sock, serverUp, server, drops>>
  BY DEF AcceptClients
<1>1. PICK answer \in AvailAccept(nina, server) :
        /\ \/ /\ answer[2] = None
              /\ nina' = answer[1]
              /\ UNCHANGED <<clients, misreads>>
           \/ answer[2] # None /\ Ignored(answer[1], answer[2])
           \/ /\ answer[2] # None
              /\ Admit(answer[1], answer[2])
              /\ misreads' = misreads
        /\ Forget({answer[2]})
  BY DEF AcceptClients
<1> DEFINE n == answer[1]
           new == answer[2]
<1>2. /\ n \in NinaState /\ new \in Numbers
      /\ n.free \in {nina.free, nina.free \ {new}}
  BY AnswerType
<1>3. orphans' \subseteq orphans \cup ({new} \cap Sockets) /\ Forget({new})
      /\ orphans' \cap nina'.free = {} /\ orphans' \cap Held' = {}
  BY <1>1, ForgetEffect
<1>4. Doomed' = Doomed
  BY <1>0 DEF Doomed
<1>5. /\ \A t \in Held : t \in nina'.free \cup Held'
      /\ n.free \subseteq nina'.free
      /\ \/ misreads' = misreads /\ orphans' \subseteq orphans
         \/ misreads' = misreads + 1
  <2>1. CASE new = None /\ nina' = n /\ UNCHANGED <<clients, misreads>>
    BY <1>0, <1>3, <2>1, SocketsAreNumbers DEF Held
  <2>2. CASE new # None /\ Ignored(n, new)
    <3>1. nina' = n /\ clients' = clients
          /\ misreads' = IF new \in n.free \cup Held \cup {Outside} THEN misreads ELSE misreads + 1
      BY <2>2 DEF Ignored
    <3>2. Held' = Held
      BY <1>0, <3>1 DEF Held
    <3>3. CASE new \in n.free \cup Held \cup {Outside}
      BY <1>3, <3>1, <3>2, <3>3, SocketsAreNumbers
    <3>4. CASE new \notin n.free \cup Held \cup {Outside}
      BY <3>1, <3>2, <3>4
    <3> QED
      BY <3>3, <3>4
  <2>3. CASE new # None /\ Admit(n, new) /\ misreads' = misreads
    <3>1. new \in Sockets \cup {Outside}
      BY <1>2, <2>3 DEF Numbers
    <3>2. /\ n.free \subseteq nina'.free
          /\ new \in nina'.free \cup {Outside} \/ \E i \in Table : clients'[i] = new
          /\ \A i \in Table : \/ clients'[i] = clients[i]
                              \/ clients[i] \in nina'.free \cup {None, Outside}
      BY <1>2, <2>3, <3>1, AdmitEffect
    <3>3. new \in nina'.free \cup Held' \cup {Outside}
      BY <2>3, <3>2 DEF Held
    <3>4. \A t \in Held : t \in nina'.free \cup Held'
      BY <1>0, <3>2 DEF Held
    <3> QED
      BY <1>3, <2>3, <3>2, <3>3, <3>4, SocketsAreNumbers
  <2> QED
    BY <1>1, <2>1, <2>2, <2>3
<1>6. Known'
  <2>1. \A t \in nina.free : t \in nina'.free \cup {new}
    BY <1>2, <1>5
  <2> QED
    BY <1>3, <1>5, <2>1, NoneSlips
<1>7. Count'
  <2>1. Cardinality(orphans) \in Nat /\ Cardinality(orphans') \in Nat
    BY OrphansFinite DEF TypeOK
  <2>2. CASE misreads' = misreads /\ orphans' \subseteq orphans
    BY <1>0, <1>4, <2>1, <2>2, NoneMore DEF Count, TypeOK
  <2>3. CASE misreads' = misreads + 1
    <3>1. Cardinality(orphans') <= Cardinality(orphans) + 1
      BY <1>3, OneMore
    <3> QED
      BY <1>0, <1>4, <2>1, <2>3, <3>1 DEF Count, TypeOK
  <2> QED
    BY <1>5, <2>2, <2>3
<1> QED
  BY <1>6, <1>7

LEMMA PruneAccounts ==
  ASSUME LeakInv, TypeOK', PruneClient
  PROVE  Known' /\ Count'
<1> USE DEF LeakInv
<1>0. Forget({}) /\ UNCHANGED <<wifi, sock, serverUp, server, drops, misreads>>
  BY DEF PruneClient
<1>1. /\ nina.free \subseteq nina'.free
      /\ \A t \in Held : t \in nina'.free \cup Held'
  <2>1. CASE UNCHANGED <<nina, clients>>
    BY <1>0, <2>1 DEF Held
  <2>2. CASE /\ clients[next] # None /\ ~Alive(nina, clients[next])
             /\ nina' = Disowned(nina, clients[next])
             /\ clients' = Vacated(next)
    <3>2. /\ nina.free \subseteq nina'.free
          /\ clients[next] \in nina'.free \cup {Outside}
      <4>1. CASE clients[next] \in Sockets
        <5>1. nina' = GetClientState(nina, clients[next])
          BY <2>2, <4>1 DEF Disowned
        <5>2. nina'.free = nina.free \cup {clients[next]}
          BY <2>2, <4>1, <5>1, GetClientStateType DEF TypeOK
        <5> QED
          BY <5>2
      <4>2. CASE clients[next] \notin Sockets
        BY <2>2, <4>2 DEF Disowned, TypeOK
      <4> QED
        BY <4>1, <4>2
    <3>3. \A i \in Table : i = next \/ clients'[i] = clients[i]
      BY <2>2 DEF Vacated, TypeOK
    <3> QED
      BY <1>0, <3>2, <3>3 DEF Held
  <2> QED
    BY <2>1, <2>2 DEF PruneClient
<1>2. Known'
  BY <1>0, <1>1, NoneSlips
<1>3. Cardinality(orphans') <= Cardinality(orphans)
  BY <1>0, ForgetEffect, NoneMore
<1>4. Count'
  <2>1. Doomed' = Doomed
    BY <1>0 DEF Doomed
  <2>2. Cardinality(orphans) \in Nat /\ Cardinality(orphans') \in Nat
    BY OrphansFinite DEF TypeOK
  <2> QED
    BY <1>0, <1>3, <2>1, <2>2 DEF Count, TypeOK
<1> QED
  BY <1>2, <1>4

(* A loss of the link dooms the server, and counts it.                     *)
LEMMA WorldAccounts ==
  ASSUME LeakInv, TypeOK', Gpio \/ Network
  PROVE  Known' /\ Count'
<1> USE DEF LeakInv
<1>1. nina'.free = nina.free
  BY NetworkKeepsType
<1>2. UNCHANGED <<sock, serverUp, server, clients, misreads, orphans>>
  BY DEF Gpio, Network, PhoneConnects, PeerCloses, WifiDrops, WifiJoins, rover
<1>3. Known'
  BY <1>1, <1>2 DEF Known, Busy, Held
<1>4. \/ drops' = drops + 1
      \/ drops' = drops /\ (Doomed' => Doomed)
  <2>1. CASE wifi' = wifi /\ drops' = drops
    BY <1>2, <2>1 DEF Doomed
  <2>2. CASE WifiDrops
    BY <2>2 DEF WifiDrops
  <2>3. CASE WifiJoins
    BY <1>2, <2>3 DEF WifiJoins, Doomed
  <2> QED
    BY <2>1, <2>2, <2>3 DEF Gpio, Network, PhoneConnects, PeerCloses, rover
<1>5. Cardinality(orphans) \in Nat
  BY OrphansFinite DEF TypeOK
<1>6. Count'
  BY <1>2, <1>4, <1>5 DEF Count, TypeOK
<1> QED
  BY <1>3, <1>6

(* Every socket that is taken is held by one of the rover's two users, or  *)
(* was lost to a drop of the link or to a newcomer taken for a client of   *)
(* the table, at most one to each.                                         *)
THEOREM LeaksAccountedHolds == Spec => []LeaksAccounted
<1>1. Init => LeakInv
  <2> SUFFICES ASSUME Init PROVE LeakInv
    OBVIOUS
  <2>1. TypeOK
    BY InitType
  <2>2. Known /\ ~Doomed /\ orphans = {} /\ drops = 0 /\ misreads = 0
    BY DEF Init, Known, Busy, Doomed
  <2>3. Cardinality(orphans) = 0
    BY <2>2, FS_EmptySet
  <2> QED
    BY <2>1, <2>2, <2>3 DEF LeakInv, Count
<1>2. LeakInv /\ [Next]_vars => LeakInv'
  <2> SUFFICES ASSUME LeakInv, [Next]_vars PROVE LeakInv'
    OBVIOUS
  <2>1. CASE Next
    <3>1. TypeOK'
      BY <2>1, RoverKeepsType, NetworkKeepsType DEF Next, LeakInv
    <3>2. Known' /\ Count'
      BY <2>1, <3>1, NtripAccounts, ServerAccounts, AcceptAccounts, PruneAccounts,
         WorldAccounts DEF Next, Superloop
    <3> QED
      BY <3>1, <3>2 DEF LeakInv
  <2>2. CASE UNCHANGED vars
    BY <2>2 DEF LeakInv, TypeOK, Known, Busy, Held, Count, Doomed, vars
  <2> QED
    BY <2>1, <2>2
<1>3. LeakInv => LeaksAccounted
  <2> SUFFICES ASSUME LeakInv PROVE LeaksAccounted
    OBVIOUS
  <2>1. Cardinality(orphans) \in Nat
    BY OrphansFinite DEF LeakInv, TypeOK
  <2> QED
    BY <2>1 DEF LeakInv, TypeOK, Known, Count, LeaksAccounted
<1> QED
  BY <1>1, <1>2, <1>3, PTL DEF Spec

-----------------------------------------------------------------------------
(***************************************************************************)
(* One user to each socket and one object to each descriptor, until the    *)
(* link is lost.                                                           *)
(***************************************************************************)

(* The tables of co-processor n, of which srv is the one server: each open *)
(* descriptor is in one entry, and each entry has an open descriptor.      *)
ClientEntries(n, srv) ==
  \A s \in Sockets : n.tcpClient[s] # None =>
    /\ s \notin n.free /\ s # srv
    /\ n.lwip[n.tcpClient[s]] \in Peers
    /\ \A t \in Sockets : n.tcpClient[t] = n.tcpClient[s] => t = s

OtherServers(n, srv) ==
  \A s \in Sockets : s # srv =>
    n.tcpServer[s] = None /\ n.accepted[s] = None /\ n.spawned[s] = {}

ServerEntries(n, srv) ==
  srv # None =>
    /\ srv \notin n.free
    /\ n.tcpServer[srv] # None /\ n.lwip[n.tcpServer[srv]] = "listening"
    /\ \A f \in n.spawned[srv] \cup ({n.accepted[srv]} \ {None}) :
         n.lwip[f] \in Phones /\ \A s \in Sockets : n.tcpClient[s] # f
    /\ n.accepted[srv] \notin n.spawned[srv]

Listeners(n, srv) ==
  \A f \in Fds : n.lwip[f] = "listening" => srv # None /\ f = n.tcpServer[srv]

Entered(n, srv) ==
  \A f \in Fds : n.lwip[f] \in Peers =>
    \/ \E s \in Sockets : n.tcpClient[s] = f
    \/ srv # None /\ (n.accepted[srv] = f \/ f \in n.spawned[srv])

Tables(n, srv) ==
  /\ ClientEntries(n, srv) /\ OtherServers(n, srv) /\ ServerEntries(n, srv)
  /\ Listeners(n, srv) /\ Entered(n, srv)

(* A socket whose client, if it has one, is connected to one of who.       *)
Serves(n, s, who) ==
  s \notin n.free /\ (n.tcpClient[s] # None => n.lwip[n.tcpClient[s]] \in who)

Users(n) ==
  /\ sock # None => sock # server /\ Serves(n, sock, {Caster})
  /\ \A i \in Table : clients[i] # None =>
       /\ clients[i] \in Sockets \ {sock, server}
       /\ Serves(n, clients[i], Phones)
       /\ \A j \in Table : clients[j] = clients[i] => j = i

(* Until the server has begun the caster's is the only socket taken.       *)
Begun ==
  /\ server # None => serverUp /\ wifi
  /\ server = None => /\ ~serverUp /\ phase \in {"ntrip", "server"}
                      /\ Busy \subseteq {sock}
                      /\ \A i \in Table : clients[i] = None
  /\ gpio \in {None, server}

Owned == Tables(nina, server) /\ Users(nina) /\ Begun

OwnInv == TypeOK /\ (drops = 0 => Owned)

(* From n to m nothing happens to the sockets other than s.                *)
Others(n, m, s) ==
  \A t \in Sockets \ {s} :
    /\ t \in n.free <=> t \in m.free
    /\ m.tcpClient[t] = n.tcpClient[t]
    /\ n.tcpClient[t] # None => m.lwip[n.tcpClient[t]] = n.lwip[n.tcpClient[t]]

(* What Tables() and Others() look at.                                     *)
SameEntries(n, m) ==
  /\ m.free = n.free /\ m.tcpServer = n.tcpServer /\ m.accepted = n.accepted
  /\ m.spawned = n.spawned /\ m.tcpClient = n.tcpClient /\ m.lwip = n.lwip

LEMMA SameKeeps ==
  ASSUME NEW n \in NinaState, NEW m \in NinaState, NEW srv, Tables(n, srv),
         SameEntries(n, m)
  PROVE  Tables(m, srv) /\ \A s : Others(n, m, s)
BY DEF Tables, ClientEntries, OtherServers, ServerEntries, Listeners, Entered,
       SameEntries, Others

LEMMA WhatIsWhat ==
  /\ \A p \in Peers : p # "closed" /\ p # "listening"
  /\ Phones \subseteq Peers /\ Caster \in Peers /\ Caster \notin Phones
BY ConstantsAssumption DEF Peers

(* A client that is closed leaves the tables in order.                     *)
LEMMA DroppedTables ==
  ASSUME NEW n \in NinaState, NEW srv \in Sockets \cup {None}, Tables(n, srv),
         NEW s \in Sockets
  PROVE  /\ Tables(Dropped(n, s), srv) /\ Others(n, Dropped(n, s), s)
         /\ Dropped(n, s).tcpClient[s] = None
<1>1. CASE s \in n.free \/ n.tcpClient[s] = None
  <2>1. Dropped(n, s) = n
    BY <1>1 DEF Dropped
  <2> QED
    BY <1>1, <2>1 DEF Tables, ClientEntries, Others
<1>2. CASE ~(s \in n.free \/ n.tcpClient[s] = None)
  <2> DEFINE f == n.tcpClient[s]
             m == Dropped(n, s)
  <2>1. f \in Fds /\ f # None /\ n.lwip[f] \in Peers
    BY <1>2 DEF NinaState, Tables, ClientEntries
  <2>2. /\ m.free = n.free /\ m.tcpServer = n.tcpServer
        /\ m.accepted = n.accepted /\ m.spawned = n.spawned
        /\ m.tcpClient = [n.tcpClient EXCEPT ![s] = None]
        /\ m.lwip = [n.lwip EXCEPT ![f] = "closed"]
    BY <1>2 DEF Dropped, Closed, NinaState
  <2>3. \A t \in Sockets : /\ t # s => m.tcpClient[t] = n.tcpClient[t]
                           /\ m.tcpClient[s] = None
    BY <2>2 DEF NinaState
  <2>4. \A g \in Fds : IF g = f THEN m.lwip[g] = "closed" ELSE m.lwip[g] = n.lwip[g]
    BY <2>1, <2>2 DEF NinaState
  <2>5. \A t \in Sockets : n.tcpClient[t] # None => n.tcpClient[t] \in Fds
    BY DEF NinaState
  <2>6. \A t \in Sockets : t # s => n.tcpClient[t] # f
    BY <1>2 DEF Tables, ClientEntries
  <2> HIDE DEF f, m
  <2>7. Others(n, m, s)
    BY <2>2, <2>3, <2>4, <2>5, <2>6 DEF Others
  <2>8. ClientEntries(m, srv)
    BY <2>2, <2>3, <2>4, <2>5, <2>6 DEF Tables, ClientEntries
  <2>9. OtherServers(m, srv)
    BY <2>2 DEF Tables, OtherServers
  <2>10. ServerEntries(m, srv)
    <3> SUFFICES ASSUME srv # None PROVE ServerEntries(m, srv)
      BY DEF ServerEntries
    <3>1. n.tcpServer[srv] \in Fds /\ n.tcpServer[srv] # f
      BY <2>1, WhatIsWhat DEF Tables, ServerEntries, NinaState
    <3>2. \A g \in n.spawned[srv] \cup ({n.accepted[srv]} \ {None}) : g \in Fds /\ g # f
      BY DEF Tables, ServerEntries, NinaState, f
    <3> QED
      BY <2>2, <2>3, <2>4, <3>1, <3>2, SocketsAreNumbers DEF Tables, ServerEntries
  <2>11. Listeners(m, srv)
    BY <2>2, <2>4 DEF Tables, Listeners
  <2>12. Entered(m, srv)
    <3> SUFFICES ASSUME NEW g \in Fds, m.lwip[g] \in Peers
                 PROVE  \/ \E t \in Sockets : m.tcpClient[t] = g
                        \/ srv # None /\ (m.accepted[srv] = g \/ g \in m.spawned[srv])
      BY DEF Entered
    <3>1. g # f /\ n.lwip[g] \in Peers
      BY <2>4, WhatIsWhat
    <3> QED
      BY <2>2, <2>3, <3>1 DEF Tables, Entered, f
  <2> QED
    BY <2>3, <2>7, <2>8, <2>9, <2>10, <2>11, <2>12 DEF Tables, m
<1> QED
  BY <1>1, <1>2

(* A socket without a client may be given back.                            *)
LEMMA ReleasedTables ==
  ASSUME NEW n \in NinaState, NEW srv \in Sockets \cup {None}, Tables(n, srv),
         NEW s \in Sockets, s # srv, n.tcpClient[s] = None
  PROVE  Tables(Released(n, s), srv) /\ Others(n, Released(n, s), s)
<1> DEFINE m == Released(n, s)
<1>1. /\ m.free = n.free \cup {s} /\ m.tcpServer = n.tcpServer
      /\ m.accepted = n.accepted /\ m.spawned = n.spawned
      /\ m.tcpClient = n.tcpClient /\ m.lwip = n.lwip
  BY DEF Released, NinaState
<1> HIDE DEF m
<1>2. Others(n, m, s)
  BY <1>1 DEF Others
<1>3. ClientEntries(m, srv)
  BY <1>1 DEF Tables, ClientEntries
<1>4. OtherServers(m, srv) /\ ServerEntries(m, srv) /\ Listeners(m, srv) /\ Entered(m, srv)
  BY <1>1 DEF Tables, OtherServers, ServerEntries, Listeners, Entered
<1> QED
  BY <1>2, <1>3, <1>4 DEF Tables, m

LEMMA OthersTrans ==
  ASSUME NEW n, NEW m, NEW o, NEW s, Others(n, m, s), Others(m, o, s)
  PROVE  Others(n, o, s)
BY DEF Others

LEMMA StopClientTables ==
  ASSUME NEW n \in NinaState, NEW srv \in Sockets \cup {None}, Tables(n, srv),
         NEW s \in Sockets, s # srv
  PROVE  Tables(StopClient(n, s), srv) /\ Others(n, StopClient(n, s), s)
<1> DEFINE m == Dropped(n, s)
<1>1. m \in NinaState /\ Tables(m, srv) /\ Others(n, m, s) /\ m.tcpClient[s] = None
  BY DroppedTables, DroppedType
<1>2. StopClient(n, s) = Released(m, s)
  BY DEF StopClient
<1> HIDE DEF m
<1>3. Tables(Released(m, s), srv) /\ Others(m, Released(m, s), s)
  BY <1>1, ReleasedTables
<1> QED
  BY <1>1, <1>2, <1>3, OthersTrans

LEMMA GetClientStateTables ==
  ASSUME NEW n \in NinaState, NEW srv \in Sockets \cup {None}, Tables(n, srv),
         NEW s \in Sockets, s # srv
  PROVE  /\ Tables(GetClientState(n, s), srv) /\ Others(n, GetClientState(n, s), s)
         /\ Alive(n, s) => GetClientState(n, s) = n
<1>1. CASE Alive(n, s)
  BY <1>1 DEF GetClientState, Others
<1>2. CASE ~Alive(n, s)
  <2>1. GetClientState(n, s) = StopClient(n, s)
    BY <1>2 DEF GetClientState, StopClient
  <2> QED
    BY <1>2, <2>1, StopClientTables
<1> QED
  BY <1>1, <1>2

(* A free socket and a closed descriptor have no entries, so a client may  *)
(* be put there.                                                           *)
LEMMA ClosedHasNoEntry ==
  ASSUME NEW n \in NinaState, NEW srv \in Sockets \cup {None}, Tables(n, srv),
         NEW f \in Fds, n.lwip[f] = "closed"
  PROVE  /\ \A s \in Sockets : n.tcpClient[s] # f
         /\ srv # None => /\ n.tcpServer[srv] # f /\ n.accepted[srv] # f
                          /\ f \notin n.spawned[srv]
<1>1. ASSUME NEW s \in Sockets, n.tcpClient[s] = f PROVE FALSE
  BY <1>1, WhatIsWhat, SocketsAreNumbers DEF Tables, ClientEntries
<1>2. ASSUME srv # None
      PROVE  n.tcpServer[srv] # f /\ n.accepted[srv] # f /\ f \notin n.spawned[srv]
  BY <1>2, WhatIsWhat, SocketsAreNumbers DEF Tables, ServerEntries
<1> QED
  BY <1>1, <1>2

LEMMA StartClientTables ==
  ASSUME NEW n \in NinaState, NEW srv \in Sockets \cup {None}, Tables(n, srv),
         NEW s \in n.free, NEW ok \in BOOLEAN
  PROVE  /\ Tables(StartClient(n, s, ok), srv) /\ Others(n, StartClient(n, s, ok), s)
         /\ s # srv
         /\ Alive(StartClient(n, s, ok), s) => Serves(StartClient(n, s, ok), s, {Caster})
<1> DEFINE m == StartClient(n, s, ok)
<1>0. s \in Sockets /\ s # srv /\ n.tcpClient[s] = None
  <2>1. s \in Sockets /\ s # None
    BY SocketsAreNumbers DEF NinaState
  <2>2. s # srv
    BY <2>1 DEF Tables, ServerEntries
  <2> QED
    BY <2>1, <2>2 DEF Tables, ClientEntries
<1>1. CASE ok /\ ClosedFds(n) # {}
  <2> DEFINE f == Least(ClosedFds(n))
  <2>1. f \in Fds /\ n.lwip[f] = "closed"
    BY <1>1, LeastIsMember, SocketsAreNumbers DEF ClosedFds
  <2>2. /\ m.free = n.free \ {s} /\ m.tcpServer = n.tcpServer
        /\ m.accepted = n.accepted /\ m.spawned = n.spawned
        /\ m.tcpClient = [n.tcpClient EXCEPT ![s] = f]
        /\ m.lwip = [n.lwip EXCEPT ![f] = Caster]
    BY <1>1 DEF StartClient, Opened, Booked, NinaState
  <2>3. /\ m.tcpClient[s] = f
        /\ \A t \in Sockets : t # s => m.tcpClient[t] = n.tcpClient[t]
        /\ \A t \in Sockets : n.tcpClient[t] # None => n.tcpClient[t] \in Fds
    BY <1>0, <2>2 DEF NinaState
  <2>4. /\ m.lwip[f] = Caster
        /\ \A g \in Fds : g # f => m.lwip[g] = n.lwip[g]
    BY <2>1, <2>2 DEF NinaState
  <2>5. /\ \A t \in Sockets : n.tcpClient[t] # f
        /\ srv # None => /\ n.tcpServer[srv] # f /\ n.accepted[srv] # f
                         /\ f \notin n.spawned[srv]
    BY <2>1, ClosedHasNoEntry
  <2>6. srv # None => /\ n.tcpServer[srv] \in Fds \cup {None}
                      /\ n.accepted[srv] \in Fds \cup {None}
                      /\ n.spawned[srv] \subseteq Fds
    BY DEF NinaState
  <2> HIDE DEF f, m
  <2>7. Others(n, m, s)
    BY <2>2, <2>3, <2>4, <2>5 DEF Others
  <2>8. ClientEntries(m, srv)
    BY <1>0, <2>2, <2>3, <2>4, <2>5, WhatIsWhat DEF Tables, ClientEntries
  <2>9. OtherServers(m, srv)
    BY <2>2 DEF Tables, OtherServers
  <2>10. ServerEntries(m, srv)
    BY <1>0, <2>2, <2>3, <2>4, <2>5, <2>6 DEF Tables, ServerEntries
  <2>11. Listeners(m, srv)
    BY <2>2, <2>4, WhatIsWhat DEF Tables, Listeners
  <2>12. Entered(m, srv)
    <3> SUFFICES ASSUME NEW g \in Fds, m.lwip[g] \in Peers
                 PROVE  \/ \E t \in Sockets : m.tcpClient[t] = g
                        \/ srv # None /\ (m.accepted[srv] = g \/ g \in m.spawned[srv])
      BY DEF Entered
    <3>1. CASE g = f
      BY <1>0, <2>3, <3>1
    <3>2. CASE g # f
      <4>1. n.lwip[g] \in Peers
        BY <2>4, <3>2
      <4>2. CASE srv # None /\ (n.accepted[srv] = g \/ g \in n.spawned[srv])
        BY <2>2, <4>2
      <4>3. CASE \E t \in Sockets : n.tcpClient[t] = g
        <5>1. PICK t \in Sockets : n.tcpClient[t] = g
          BY <4>3
        <5>2. t # s
          BY <1>0, <5>1, SocketsAreNumbers
        <5> QED
          BY <2>3, <5>1, <5>2
      <4> QED
        BY <4>1, <4>2, <4>3 DEF Tables, Entered
    <3> QED
      BY <3>1, <3>2
  <2>13. Serves(m, s, {Caster})
    BY <2>2, <2>3, <2>4 DEF Serves
  <2> QED
    BY <1>0, <2>7, <2>8, <2>9, <2>10, <2>11, <2>12, <2>13 DEF Tables, m
<1>2. CASE ~(ok /\ ClosedFds(n) # {})
  <2>1. SameEntries(n, m)
    <3>1. m = [n EXCEPT !.tcpClient[s] = None]
      BY <1>2 DEF StartClient
    <3> QED
      BY <1>0, <3>1 DEF SameEntries, NinaState
  <2>2. m \in NinaState
    BY <1>0, StartClientType
  <2>3. ~Alive(m, s)
    BY <2>1 DEF Alive, SameEntries
  <2> QED
    BY <1>0, <2>1, <2>2, <2>3, SameKeeps
<1> QED
  BY <1>1, <1>2

(* The first server takes the descriptor it listens at.                    *)
LEMMA StartServerTables ==
  ASSUME NEW n \in NinaState, Tables(n, None), NEW s \in n.free, ClosedFds(n) # {}
  PROVE  /\ Tables(StartServer(n, s, TRUE), s) /\ Others(n, StartServer(n, s, TRUE), s)
         /\ StartServer(n, s, TRUE).free = n.free \ {s}
<1> DEFINE m == StartServer(n, s, TRUE)
           f == Least(ClosedFds(n))
<1>0. s \in Sockets /\ s # None /\ n.tcpClient[s] = None
  BY SocketsAreNumbers DEF Tables, ClientEntries, NinaState
<1>1. f \in Fds /\ n.lwip[f] = "closed"
  BY LeastIsMember, SocketsAreNumbers DEF ClosedFds
<1>2. /\ m.free = n.free \ {s} /\ m.tcpServer = [n.tcpServer EXCEPT ![s] = f]
      /\ m.accepted = n.accepted /\ m.spawned = n.spawned
      /\ m.tcpClient = n.tcpClient /\ m.lwip = [n.lwip EXCEPT ![f] = "listening"]
  BY DEF StartServer, Opened, Booked, NinaState
<1>3. /\ m.tcpServer[s] = f /\ f # None
      /\ \A t \in Sockets : t # s => m.tcpServer[t] = n.tcpServer[t]
      /\ \A t \in Sockets : n.tcpClient[t] # None => n.tcpClient[t] \in Fds
  <2>1. n.tcpServer \in [Sockets -> Fds \cup {None}] /\ n.tcpClient \in [Sockets -> Fds \cup {None}]
    BY DEF NinaState
  <2> HIDE DEF f, m
  <2> QED
    BY <1>0, <1>1, <1>2, <2>1, SocketsAreNumbers
<1>4. /\ m.lwip[f] = "listening"
      /\ \A g \in Fds : g # f => m.lwip[g] = n.lwip[g]
  BY <1>1, <1>2 DEF NinaState
<1>5. \A t \in Sockets : n.tcpClient[t] # f
  BY <1>1, ClosedHasNoEntry
<1>6. n.accepted[s] = None /\ n.spawned[s] = {}
  BY <1>0 DEF Tables, OtherServers
<1> HIDE DEF f, m
<1>7. Others(n, m, s)
  BY <1>2, <1>3, <1>4, <1>5 DEF Others
<1>8. ClientEntries(m, s)
  BY <1>0, <1>2, <1>3, <1>4, <1>5 DEF Tables, ClientEntries
<1>9. OtherServers(m, s)
  <2>1. \A t \in Sockets : t # None
    BY SocketsAreNumbers
  <2> QED
    BY <1>2, <1>3, <2>1 DEF Tables, OtherServers
<1>10. ServerEntries(m, s)
  BY <1>2, <1>3, <1>4, <1>6 DEF ServerEntries
<1>11. Listeners(m, s)
  BY <1>0, <1>2, <1>3, <1>4 DEF Tables, Listeners
<1>12. Entered(m, s)
  BY <1>2, <1>4, WhatIsWhat DEF Tables, Entered
<1> QED
  BY <1>2, <1>7, <1>8, <1>9, <1>10, <1>11, <1>12 DEF Tables, m

(* A connection out of the backlog opens a closed descriptor, if there is  *)
(* one, and goes among the server's.                                       *)
LEMMA TakenEntries ==
  ASSUME NEW n \in NinaState, NEW p \in Phones
  PROVE  LET m == Taken(n, p)
             f == TakenFd(n)
         IN /\ m.free = n.free /\ m.tcpServer = n.tcpServer /\ m.accepted = n.accepted
            /\ m.spawned = n.spawned /\ m.tcpClient = n.tcpClient
            /\ \/ f = None /\ m.lwip = n.lwip
               \/ /\ f \in Fds /\ n.lwip[f] = "closed"
                  /\ m.lwip = [n.lwip EXCEPT ![f] = p]
<1>1. CASE ClosedFds(n) = {}
  BY <1>1 DEF Taken, TakenFd, NinaState
<1>2. CASE ClosedFds(n) # {}
  <2>1. TakenFd(n) = Least(ClosedFds(n))
    BY <1>2 DEF TakenFd
  <2>2. TakenFd(n) \in Fds /\ n.lwip[TakenFd(n)] = "closed"
    BY <1>2, <2>1, LeastIsMember, SocketsAreNumbers DEF ClosedFds
  <2>3. Taken(n, p) = Opened([n EXCEPT !.knocks[p] = None], TakenFd(n), p)
    BY <1>2, <2>1 DEF Taken
  <2> QED
    BY <2>2, <2>3 DEF Opened, NinaState
<1> QED
  BY <1>1, <1>2

(* m is n with descriptor f, unless None, given to a phone and to srv.     *)
LEMMA ArrivalTables ==
  ASSUME NEW n \in NinaState, NEW m \in NinaState, NEW srv \in Sockets, Tables(n, srv),
         m.free = n.free, m.tcpServer = n.tcpServer, m.tcpClient = n.tcpClient,
         NEW f \in Fds \cup {None}, NEW p \in Phones,
         f = None => m.lwip = n.lwip,
         f # None => n.lwip[f] = "closed" /\ m.lwip = [n.lwip EXCEPT ![f] = p],
         \A s \in Sockets : s # srv => /\ m.accepted[s] = n.accepted[s]
                                       /\ m.spawned[s] = n.spawned[s],
         \/ /\ n.accepted[srv] = None /\ m.accepted[srv] = f
            /\ m.spawned[srv] = n.spawned[srv]
         \/ /\ m.accepted[srv] = n.accepted[srv]
            /\ m.spawned[srv] = n.spawned[srv] \cup ({f} \ {None})
  PROVE  Tables(m, srv) /\ Others(n, m, None)
<1>0. srv # None
  BY SocketsAreNumbers
<1>1. /\ \A g \in Fds : g # f => m.lwip[g] = n.lwip[g]
      /\ f # None => m.lwip[f] = p
  BY DEF NinaState
<1>2. f # None => /\ \A s \in Sockets : n.tcpClient[s] # f
                  /\ n.tcpServer[srv] # f /\ n.accepted[srv] # f
                  /\ f \notin n.spawned[srv]
  BY <1>0, ClosedHasNoEntry
<1>3. /\ \A s \in Sockets : n.tcpClient[s] # None => n.tcpClient[s] \in Fds
      /\ n.tcpServer[srv] \in Fds \cup {None} /\ n.accepted[srv] \in Fds \cup {None}
      /\ n.spawned[srv] \subseteq Fds
  BY DEF NinaState
<1>4. Others(n, m, None)
  BY <1>1, <1>2, <1>3 DEF Others
<1>5. ClientEntries(m, srv)
  BY <1>1, <1>2, <1>3 DEF Tables, ClientEntries
<1>6. OtherServers(m, srv)
  BY DEF Tables, OtherServers
<1>7. ServerEntries(m, srv)
  <2>1. /\ srv \notin n.free /\ n.tcpServer[srv] # None
        /\ n.lwip[n.tcpServer[srv]] = "listening"
        /\ n.accepted[srv] \notin n.spawned[srv]
        /\ \A g \in n.spawned[srv] \cup ({n.accepted[srv]} \ {None}) :
             n.lwip[g] \in Phones /\ \A s \in Sockets : n.tcpClient[s] # g
    BY <1>0 DEF Tables, ServerEntries
  <2>2. m.lwip[m.tcpServer[srv]] = "listening"
    BY <1>1, <1>2, <1>3, <2>1
  <2>3. m.accepted[srv] \notin m.spawned[srv]
    BY <1>2, <1>3, <2>1, SocketsAreNumbers
  <2>4. ASSUME NEW g \in m.spawned[srv] \cup ({m.accepted[srv]} \ {None})
        PROVE  m.lwip[g] \in Phones /\ \A s \in Sockets : m.tcpClient[s] # g
    <3>1. CASE g = f
      <4>1. f # None
        BY <1>3, <2>4, <3>1, SocketsAreNumbers
      <4> QED
        BY <1>1, <1>2, <3>1, <4>1
    <3>2. CASE g # f
      <4>1. g \in n.spawned[srv] \cup ({n.accepted[srv]} \ {None})
        BY <2>4, <3>2
      <4> QED
        BY <1>1, <1>3, <2>1, <3>2, <4>1
    <3> QED
      BY <3>1, <3>2
  <2> QED
    BY <2>1, <2>2, <2>3, <2>4 DEF ServerEntries
<1>8. Listeners(m, srv)
  BY <1>1, WhatIsWhat, SocketsAreNumbers DEF Tables, Listeners
<1>9. Entered(m, srv)
  <2> SUFFICES ASSUME NEW g \in Fds, m.lwip[g] \in Peers
               PROVE  \/ \E t \in Sockets : m.tcpClient[t] = g
                      \/ m.accepted[srv] = g \/ g \in m.spawned[srv]
    BY <1>0 DEF Entered
  <2>1. CASE g = f
    BY <2>1, SocketsAreNumbers
  <2>2. CASE g # f
    <3>1. n.lwip[g] \in Peers
      BY <1>1, <2>2
    <3>2. \/ \E t \in Sockets : n.tcpClient[t] = g
          \/ n.accepted[srv] = g \/ g \in n.spawned[srv]
      BY <3>1 DEF Tables, Entered
    <3> QED
      BY <3>2, SocketsAreNumbers
  <2> QED
    BY <2>1, <2>2
<1> QED
  BY <1>4, <1>5, <1>6, <1>7, <1>8, <1>9 DEF Tables

LEMMA ServerAcceptTables ==
  ASSUME NEW n \in NinaState, NEW srv \in Sockets, Tables(n, srv),
         NEW m \in ServerAccept(n, srv)
  PROVE  m \in NinaState /\ m.free = n.free /\ Tables(m, srv) /\ Others(n, m, None)
<1>0. m \in NinaState /\ m.free = n.free
  BY ServerAcceptType
<1>1. CASE n.accepted[srv] # None
  BY <1>0, <1>1 DEF ServerAccept, Others
<1>2. CASE n.accepted[srv] = None
  <2>1. PICK p \in Waiting(n, n.tcpServer[srv]) :
          m = [Taken(n, p) EXCEPT !.accepted[srv] = TakenFd(n)]
    BY <1>2 DEF ServerAccept
  <2>2. p \in Phones
    BY <2>1 DEF Waiting
  <2> DEFINE t == Taken(n, p)
             f == TakenFd(n)
  <2>3. t \in NinaState /\ f \in Fds \cup {None}
    BY <2>2, TakenType
  <2>4. /\ t.free = n.free /\ t.tcpServer = n.tcpServer /\ t.accepted = n.accepted
        /\ t.spawned = n.spawned /\ t.tcpClient = n.tcpClient
        /\ f = None => t.lwip = n.lwip
        /\ f # None => n.lwip[f] = "closed" /\ t.lwip = [n.lwip EXCEPT ![f] = p]
    BY <2>2, TakenEntries, SocketsAreNumbers
  <2> HIDE DEF t, f
  <2>5. /\ m.free = t.free /\ m.tcpServer = t.tcpServer /\ m.spawned = t.spawned
        /\ m.tcpClient = t.tcpClient /\ m.lwip = t.lwip
        /\ m.accepted[srv] = f
        /\ \A s \in Sockets : s # srv => m.accepted[s] = t.accepted[s]
    BY <2>1, <2>3 DEF NinaState, t, f
  <2> QED
    BY <1>0, <1>2, <2>2, <2>3, <2>4, <2>5, ArrivalTables
<1> QED
  BY <1>1, <1>2

(* A connection taken goes over to a socket of its own.                    *)
LEMMA HandOverTables ==
  ASSUME NEW n \in NinaState, NEW srv \in Sockets, Tables(n, srv),
         n.accepted[srv] # None, NEW i \in n.free, NEW m,
         m = [Booked(n, i) EXCEPT !.tcpClient[i] = n.accepted[srv], !.accepted[srv] = None]
  PROVE  Tables(m, srv) /\ Others(n, m, i) /\ Serves(m, i, Phones) /\ i # srv
<1> DEFINE f == n.accepted[srv]
<1>0. /\ srv # None /\ i \in Sockets /\ i # srv /\ n.tcpClient[i] = None
      /\ f \in Fds /\ f # None /\ n.lwip[f] \in Phones /\ f \notin n.spawned[srv]
      /\ \A s \in Sockets : n.tcpClient[s] # f
  BY SocketsAreNumbers DEF Tables, ClientEntries, ServerEntries, NinaState
<1>1. /\ m.free = n.free \ {i} /\ m.tcpServer = n.tcpServer
      /\ m.accepted = [n.accepted EXCEPT ![srv] = None] /\ m.spawned = n.spawned
      /\ m.tcpClient = [n.tcpClient EXCEPT ![i] = f] /\ m.lwip = n.lwip
  BY DEF Booked, NinaState
<1>2. /\ m.tcpClient[i] = f /\ m.accepted[srv] = None
      /\ \A s \in Sockets : s # i => m.tcpClient[s] = n.tcpClient[s]
      /\ \A s \in Sockets : s # srv => m.accepted[s] = n.accepted[s]
  BY <1>0, <1>1 DEF NinaState
<1> HIDE DEF f
<1>3. Others(n, m, i) /\ Serves(m, i, Phones)
  BY <1>0, <1>1, <1>2 DEF Others, Serves
<1>4. ClientEntries(m, srv)
  BY <1>0, <1>1, <1>2, WhatIsWhat DEF Tables, ClientEntries
<1>5. OtherServers(m, srv)
  BY <1>1, <1>2 DEF Tables, OtherServers
<1>6. ServerEntries(m, srv)
  BY <1>0, <1>1, <1>2 DEF Tables, ServerEntries
<1>7. Listeners(m, srv)
  BY <1>1 DEF Tables, Listeners
<1>8. Entered(m, srv)
  <2> SUFFICES ASSUME NEW g \in Fds, n.lwip[g] \in Peers
               PROVE  (\E t \in Sockets : m.tcpClient[t] = g) \/ g \in m.spawned[srv]
    BY <1>0, <1>1 DEF Entered
  <2>1. CASE \E t \in Sockets : n.tcpClient[t] = g
    <3>1. PICK t \in Sockets : n.tcpClient[t] = g
      BY <2>1
    <3>2. t # i
      BY <1>0, <3>1, SocketsAreNumbers
    <3> QED
      BY <1>2, <3>1, <3>2
  <2>2. CASE n.accepted[srv] = g \/ g \in n.spawned[srv]
    BY <1>0, <1>1, <1>2, <2>2 DEF f
  <2> QED
    BY <2>1, <2>2 DEF Tables, Entered
<1> QED
  BY <1>0, <1>3, <1>4, <1>5, <1>6, <1>7, <1>8 DEF Tables

(* A server that listens answers a newcomer in a socket that was free, or  *)
(* none.                                                                   *)
LEMMA AvailAcceptTables ==
  ASSUME NEW n \in NinaState, NEW srv \in Sockets, Tables(n, srv),
         NEW answer \in AvailAccept(n, srv)
  PROVE  /\ answer[1] \in NinaState /\ Tables(answer[1], srv)
         /\ Others(n, answer[1], answer[2])
         /\ answer[2] # None => /\ answer[2] \in n.free /\ answer[2] # srv
                                /\ Serves(answer[1], answer[2], Phones)
<1>0. srv # None /\ srv \notin n.free /\ n.tcpServer[srv] # None
  BY SocketsAreNumbers DEF Tables, ServerEntries
<1>1. CASE n.free = {} \/ ServerAccept(n, srv) = {}
  <2>1. answer = <<n, None>>
    BY <1>0, <1>1, Zenon DEF AvailAccept
  <2> QED
    BY <2>1 DEF Others
<1>2. CASE ~(n.free = {} \/ ServerAccept(n, srv) = {})
  <2> DEFINE i == Least(n.free)
  <2>1. i \in n.free /\ i # None
    BY <1>2, LeastIsMember, SocketsAreNumbers DEF NinaState
  <2>2. PICK m \in ServerAccept(n, srv) :
          answer = IF m.accepted[srv] = None THEN <<m, None>>
                   ELSE <<[Booked(m, i) EXCEPT !.tcpClient[i] = m.accepted[srv],
                                               !.accepted[srv] = None], i>>
    BY <1>0, <1>2, Zenon DEF AvailAccept
  <2>3. m \in NinaState /\ m.free = n.free /\ Tables(m, srv) /\ Others(n, m, None)
    BY ServerAcceptTables
  <2>4. CASE m.accepted[srv] = None
    BY <2>2, <2>3, <2>4
  <2>5. CASE m.accepted[srv] # None
    <3> DEFINE o == [Booked(m, i) EXCEPT !.tcpClient[i] = m.accepted[srv],
                                         !.accepted[srv] = None]
    <3>1. answer = <<o, i>>
      BY <2>2, <2>5, Zenon
    <3>2. Tables(o, srv) /\ Others(m, o, i) /\ Serves(o, i, Phones) /\ i # srv
      BY <2>1, <2>3, <2>5, HandOverTables
    <3>3. answer[1] \in NinaState
      BY AvailAcceptType
    <3> HIDE DEF o, i
    <3>4. Others(n, o, i)
      BY <2>3, <3>2, SocketsAreNumbers DEF Others
    <3> QED
      BY <2>1, <3>1, <3>2, <3>3, <3>4
  <2> QED
    BY <2>4, <2>5
<1> QED
  BY <1>1, <1>2

(* Its dead connections closed, a server keeps the rest.                   *)
LEMMA PrunedTables ==
  ASSUME NEW n \in NinaState, NEW srv \in Sockets, Tables(n, srv)
  PROVE  Tables(Pruned(n, srv), srv) /\ Others(n, Pruned(n, srv), None)
<1> DEFINE m == Pruned(n, srv)
           dead == {f \in n.spawned[srv] : n.lwip[f] \notin Peers \/ f \in n.hung}
<1>0. /\ srv # None /\ srv \notin n.free /\ n.tcpServer[srv] \in Fds
      /\ n.tcpServer[srv] # None /\ n.lwip[n.tcpServer[srv]] = "listening"
      /\ n.accepted[srv] \notin n.spawned[srv]
      /\ n.accepted[srv] \in Fds \cup {None} /\ n.spawned[srv] \subseteq Fds
      /\ \A f \in n.spawned[srv] \cup ({n.accepted[srv]} \ {None}) :
           n.lwip[f] \in Phones /\ \A s \in Sockets : n.tcpClient[s] # f
  BY SocketsAreNumbers DEF Tables, ServerEntries, NinaState
<1>1. /\ m.free = n.free /\ m.tcpServer = n.tcpServer /\ m.accepted = n.accepted
      /\ m.tcpClient = n.tcpClient
      /\ m.spawned = [n.spawned EXCEPT ![srv] = n.spawned[srv] \ dead]
      /\ m.lwip = [f \in Fds |-> IF f \in dead THEN "closed" ELSE n.lwip[f]]
  BY DEF Pruned, NinaState
<1>2. /\ m.spawned[srv] = n.spawned[srv] \ dead
      /\ \A s \in Sockets : s # srv => m.spawned[s] = n.spawned[s]
      /\ \A f \in Fds : m.lwip[f] = IF f \in dead THEN "closed" ELSE n.lwip[f]
  BY <1>1 DEF NinaState
<1>3. dead \subseteq n.spawned[srv]
  OBVIOUS
<1> HIDE DEF m, dead
<1>4. \A s \in Sockets : n.tcpClient[s] # None =>
        n.tcpClient[s] \in Fds /\ n.tcpClient[s] \notin dead
  BY <1>0, <1>3 DEF NinaState
<1>5. n.tcpServer[srv] \notin dead /\ n.accepted[srv] \notin dead
  BY <1>0, <1>3, WhatIsWhat
<1>6. Others(n, m, None)
  BY <1>1, <1>2, <1>4 DEF Others
<1>7. ClientEntries(m, srv)
  BY <1>1, <1>2, <1>4 DEF Tables, ClientEntries
<1>8. OtherServers(m, srv)
  BY <1>1, <1>2 DEF Tables, OtherServers
<1>9. ServerEntries(m, srv)
  BY <1>0, <1>1, <1>2, <1>5 DEF ServerEntries
<1>10. Listeners(m, srv)
  BY <1>1, <1>2 DEF Tables, Listeners
<1>11. Entered(m, srv)
  <2> SUFFICES ASSUME NEW g \in Fds, m.lwip[g] \in Peers
               PROVE  \/ \E t \in Sockets : m.tcpClient[t] = g
                      \/ m.accepted[srv] = g \/ g \in m.spawned[srv]
    BY <1>0 DEF Entered
  <2>1. g \notin dead /\ n.lwip[g] \in Peers
    BY <1>2, WhatIsWhat
  <2> QED
    BY <1>1, <1>2, <2>1 DEF Tables, Entered
<1> QED
  BY <1>6, <1>7, <1>8, <1>9, <1>10, <1>11 DEF Tables, m

(* The steps of the rover.                                                 *)
LEMMA OthersUsers ==
  ASSUME TypeOK, Users(nina), NEW m, NEW s, Others(nina, m, s),
         s # None => s # sock /\ \A i \in Table : s # clients[i]
  PROVE  Users(m)
<1>1. ASSUME sock # None PROVE sock # server /\ Serves(m, sock, {Caster})
  BY <1>1 DEF Users, Serves, Others, TypeOK
<1>2. ASSUME NEW i \in Table, clients[i] # None PROVE Serves(m, clients[i], Phones)
  BY <1>2 DEF Users, Serves, Others, TypeOK
<1> QED
  BY <1>1, <1>2 DEF Users

LEMMA NtripOwns ==
  ASSUME TypeOK, TypeOK', Owned, NtripPoll
  PROVE  Owned'
<1>0. /\ phase = "ntrip" /\ phase' = "server"
      /\ UNCHANGED <<gpio, next, wifi, serverUp, server, clients, drops, misreads>>
  BY DEF NtripPoll
<1>1. CASE NtripStays
  BY <1>0, <1>1 DEF NtripStays, Owned, Tables, ClientEntries, OtherServers, ServerEntries,
     Listeners, Entered, Users, Serves, Begun, Busy
<1>2. CASE NtripConnects
  <2> DEFINE s == GetSocket(nina)
  <2>1. s \in nina.free /\ s \in Sockets /\ s # None /\ sock = None
    BY <1>2, GetSocketType DEF NtripConnects, TypeOK, NinaState
  <2>2. PICK ok \in BOOLEAN :
          /\ nina' = GetClientState(StartClient(nina, s, ok), s)
          /\ sock' = IF Alive(StartClient(nina, s, ok), s) THEN s ELSE None
    BY <1>2 DEF NtripConnects
  <2> DEFINE n == StartClient(nina, s, ok)
  <2> HIDE DEF s
  <2>3. /\ n \in NinaState /\ Tables(n, server) /\ Others(nina, n, s)
        /\ s # server /\ (Alive(n, s) => Serves(n, s, {Caster}))
    BY <2>1, StartClientType, StartClientTables DEF TypeOK, Owned
  <2> HIDE DEF n
  <2>4. /\ Tables(nina', server) /\ Others(n, nina', s)
        /\ Alive(n, s) => nina' = n
        /\ ~Alive(n, s) => s \in nina'.free
    BY <2>1, <2>2, <2>3, GetClientStateTables, GetClientStateType DEF n, TypeOK
  <2>5. Others(nina, nina', s)
    BY <2>3, <2>4, OthersTrans
  <2>6. \A i \in Table : s # clients[i]
    BY <2>1 DEF Owned, Users, Serves
  <2>7. Users(nina')
    BY <2>1, <2>5, <2>6, OthersUsers DEF Owned
  <2>8. sock' = IF Alive(n, s) THEN s ELSE None
    BY <2>2 DEF n
  <2>9. Users(nina)'
    BY <1>0, <2>1, <2>3, <2>4, <2>6, <2>7, <2>8 DEF Users, Serves
  <2>10. Begun'
    <3>1. server = None => Busy' \subseteq {sock'}
      <4> SUFFICES ASSUME server = None, NEW t \in Sockets, t \notin nina'.free
                   PROVE  t = sock'
        BY DEF Busy
      <4>1. t \in nina.free
        BY <2>1, SocketsAreNumbers DEF Owned, Begun, Busy
      <4>2. t = s
        BY <2>5, <4>1 DEF Others
      <4> QED
        BY <2>4, <2>8, <4>2
    <3> QED
      BY <1>0, <3>1 DEF Owned, Begun
  <2> QED
    BY <1>0, <2>4, <2>9, <2>10 DEF Owned
<1>3. CASE NtripLost \/ NtripStops
  <2>1. /\ sock # None /\ sock \in Sockets /\ sock' = None /\ sock # server
        /\ \A i \in Table : sock # clients[i]
    BY <1>3 DEF NtripLost, NtripStops, TypeOK, Owned, Users
  <2>2. /\ Tables(nina', server) /\ Others(nina, nina', sock)
        /\ sock \in nina'.free
    <3>1. CASE NtripLost
      BY <2>1, <3>1, GetClientStateTables, GetClientStateType DEF NtripLost, TypeOK, Owned
    <3>2. CASE NtripStops
      BY <2>1, <3>2, StopClientTables, StopClientType DEF NtripStops, TypeOK, Owned
    <3> QED
      BY <1>3, <3>1, <3>2
  <2>3. Users(nina)'
    <3> SUFFICES ASSUME NEW i \in Table, clients[i] # None
                 PROVE  Serves(nina', clients[i], Phones)
      BY <1>0, <2>1, SocketsAreNumbers DEF Users, Serves, Owned
    <3>1. clients[i] \in Sockets \ {sock} /\ Serves(nina, clients[i], Phones)
      BY <2>1 DEF TypeOK, Owned, Users
    <3> QED
      BY <2>2, <3>1 DEF Others, Serves
  <2>4. Begun'
    <3>1. server = None => Busy' \subseteq {sock'}
      BY <2>1, <2>2 DEF Owned, Begun, Busy, Others
    <3> QED
      BY <1>0, <3>1 DEF Owned, Begun
  <2> QED
    BY <1>0, <2>2, <2>3, <2>4 DEF Owned
<1> QED
  BY <1>1, <1>2, <1>3 DEF NtripPoll

(* The server begins while the caster has at most one socket and one       *)
(* descriptor, so there is one of each left and nothing else listens.      *)
LEMMA ServerOwns ==
  ASSUME TypeOK, TypeOK', Owned, EnsureServer
  PROVE  Owned'
<1>0. UNCHANGED <<gpio, next, wifi, sock, clients, drops, misreads>>
  BY DEF EnsureServer
<1>1. CASE ServerDown
  <2>1. server = None
    BY <1>1 DEF ServerDown, Owned, Begun
  <2> QED
    BY <1>0, <1>1, <2>1 DEF ServerDown, Owned, Tables, ClientEntries, OtherServers,
       ServerEntries, Listeners, Entered, Users, Serves, Begun, Busy
<1>2. CASE ServerStays
  <2>1. server # None
    BY <1>2 DEF ServerStays, Owned, Begun
  <2> QED
    BY <1>0, <1>2, <2>1 DEF ServerStays, Owned, Tables, ClientEntries, OtherServers,
       ServerEntries, Listeners, Entered, Users, Serves, Begun, Busy
<1>3. CASE ServerBegins
  <2> DEFINE s == GetSocket(nina)
  <2>1. /\ server = None /\ wifi /\ Busy \subseteq {sock}
        /\ \A i \in Table : clients[i] = None
        /\ gpio = None
    BY <1>3 DEF ServerBegins, Owned, Begun
  <2>2. 0 \in Sockets /\ 1 \in Sockets /\ Fds = Sockets
    BY ConstantsAssumption DEF Sockets, Fds
  <2>3. nina.free # {}
    <3>1. 0 \in nina.free \/ 1 \in nina.free
      BY <2>1, <2>2 DEF Busy
    <3> QED
      BY <3>1
  <2>4. s \in nina.free /\ s \in Sockets /\ s # None
    BY <2>3, LeastIsMember, SocketsAreNumbers DEF GetSocket, TypeOK, NinaState
  <2>5. \A f \in Fds : nina.lwip[f] # "listening"
    BY <2>1 DEF Owned, Tables, Listeners
  <2>6. ClosedFds(nina) # {}
    <3>1. \A f \in Fds : nina.lwip[f] \in Peers => nina.tcpClient[sock] = f
      <4> SUFFICES ASSUME NEW f \in Fds, nina.lwip[f] \in Peers
                   PROVE  nina.tcpClient[sock] = f
        OBVIOUS
      <4>1. PICK t \in Sockets : nina.tcpClient[t] = f
        BY <2>1 DEF Owned, Tables, Entered
      <4>2. t \notin nina.free
        BY <4>1, SocketsAreNumbers DEF Owned, Tables, ClientEntries
      <4> QED
        BY <2>1, <4>1, <4>2 DEF Busy
    <3>2. nina.lwip[0] \notin Peers \/ nina.lwip[1] \notin Peers
      BY <2>2, <3>1
    <3>3. \E f \in Fds : nina.lwip[f] = "closed"
      <4>1. nina.lwip \in [Fds -> {"closed", "listening"} \cup Peers]
        BY DEF TypeOK, NinaState
      <4> QED
        BY <2>2, <2>5, <3>2, <4>1
    <3> QED
      BY <3>3 DEF ClosedFds
  <2>7. nina' = StartServer(nina, s, TRUE) /\ server' = s
    <3>1. PICK ok \in MayListen(nina) : nina' = StartServer(nina, s, ok)
      BY <1>3, <2>4 DEF ServerBegins
    <3>2. ok = TRUE
      BY <2>5, <3>1 DEF MayListen
    <3> QED
      BY <1>3, <3>1, <3>2 DEF ServerBegins
  <2> HIDE DEF s
  <2>8. Tables(nina', s) /\ Others(nina, nina', s)
    BY <2>1, <2>4, <2>6, <2>7, StartServerTables DEF TypeOK, Owned
  <2>9. sock # None => sock # s
    BY <2>4 DEF Owned, Users, Serves
  <2>10. Users(nina')
    BY <2>1, <2>4, <2>8, <2>9, OthersUsers DEF Owned
  <2>11. Users(nina)'
    BY <1>0, <2>1, <2>7, <2>9, <2>10 DEF Users, Serves
  <2>12. Begun'
    BY <1>0, <1>3, <2>1, <2>4, <2>7 DEF ServerBegins, Begun
  <2> QED
    BY <2>7, <2>8, <2>11, <2>12 DEF Owned
<1> QED
  BY <1>1, <1>2, <1>3 DEF EnsureServer

LEMMA AcceptOwns ==
  ASSUME TypeOK, TypeOK', Owned, AcceptClients
  PROVE  Owned'
<1>0. UNCHANGED <<gpio, wifi, sock, serverUp, server, drops>> /\ phase = "accept"
  BY DEF AcceptClients
<1>1. server # None /\ server \in Sockets
  BY <1>0 DEF Owned, Begun, TypeOK
<1>2. PICK answer \in AvailAccept(nina, server) :
        \/ answer[2] = None /\ nina' = answer[1] /\ clients' = clients
        \/ answer[2] # None /\ Ignored(answer[1], answer[2])
        \/ answer[2] # None /\ Admit(answer[1], answer[2])
  BY DEF AcceptClients
<1> DEFINE n == answer[1]
           new == answer[2]
<1>3. /\ n \in NinaState /\ Tables(n, server) /\ Others(nina, n, new)
      /\ new # None => new \in nina.free /\ new # server /\ Serves(n, new, Phones)
  BY <1>1, AvailAcceptTables DEF TypeOK, Owned
<1> HIDE DEF n, new
<1>4. new # None => /\ new \in Sockets /\ new # sock
                    /\ \A i \in Table : new # clients[i]
  BY <1>3 DEF Owned, Users, Serves, TypeOK, NinaState
<1>5. Users(n)
  BY <1>3, <1>4, OthersUsers DEF Owned
<1>6. Begun'
  BY <1>0, <1>1 DEF Owned, Begun
<1>7. CASE nina' = n /\ clients' = clients
  <2>1. Users(nina)'
    BY <1>0, <1>5, <1>7 DEF Users, Serves
  <2> QED
    BY <1>0, <1>3, <1>6, <1>7, <2>1 DEF Owned
<1>8. CASE new # None /\ Admit(n, new)
  <2>1. CASE nina' = TurnedAway(n, new) /\ clients' = clients
    <3>1. Tables(nina', server) /\ Others(n, nina', new)
      BY <1>1, <1>3, <1>4, <1>8, <2>1, StopClientTables, SocketsAreNumbers DEF TurnedAway
    <3>2. Others(nina, nina', new)
      BY <1>3, <3>1, OthersTrans
    <3>3. Users(nina')
      BY <1>4, <3>2, OthersUsers DEF Owned
    <3>4. Users(nina)'
      BY <1>0, <2>1, <3>3 DEF Users, Serves
    <3> QED
      BY <1>0, <1>6, <3>1, <3>4 DEF Owned
  <2>2. ASSUME NEW i \in Table, nina' = Disowned(n, clients[i]),
               clients' = [clients EXCEPT ![i] = new]
        PROVE  Owned'
    <3>1. i \in Table
      OBVIOUS
    <3>2. /\ clients'[i] = new
          /\ \A j \in Table : j # i => clients'[j] = clients[j]
      BY <2>2, <3>1 DEF TypeOK
    <3>3. Tables(nina', server) /\ Others(n, nina', clients[i])
      <4>1. CASE clients[i] = None
        BY <1>3, <2>2, <4>1, SocketsAreNumbers DEF Others, Disowned
      <4>2. CASE clients[i] # None
        <5>1. clients[i] \in Sockets /\ clients[i] # server
          BY <3>1, <4>2 DEF Owned, Users
        <5>2. nina' = GetClientState(n, clients[i])
          BY <2>2, <5>1 DEF Disowned
        <5> QED
          BY <1>1, <1>3, <4>2, <5>1, <5>2, GetClientStateTables
      <4> QED
        BY <4>1, <4>2
    <3>4. sock # None => sock # server /\ Serves(nina', sock, {Caster})
      <4>1. ASSUME sock # None PROVE sock \in Sockets \ {clients[i]} /\ Serves(n, sock, {Caster})
        BY <1>5, <3>1, <4>1 DEF TypeOK, Users
      <4> QED
        BY <3>3, <4>1 DEF Others, Serves, Owned, Users
    <3>5. Serves(nina', new, Phones)
      BY <1>3, <1>4, <1>8, <3>1, <3>3 DEF Others, Serves
    <3>6. ASSUME NEW j \in Table, j # i, clients[j] # None
          PROVE  Serves(nina', clients[j], Phones)
      <4>1. clients[j] \in Sockets \ {clients[i]} /\ Serves(n, clients[j], Phones)
        BY <1>5, <3>1, <3>6 DEF TypeOK, Users
      <4> QED
        BY <3>3, <4>1 DEF Others, Serves
    <3>7. ASSUME NEW j \in Table, clients'[j] # None
          PROVE  /\ clients'[j] \in Sockets \ {sock, server}
                 /\ Serves(nina', clients'[j], Phones)
                 /\ \A k \in Table : clients'[k] = clients'[j] => k = j
      <4>1. CASE j = i
        BY <1>3, <1>4, <1>8, <3>1, <3>2, <3>5, <4>1
      <4>2. CASE j # i
        BY <1>4, <1>8, <3>2, <3>6, <3>7, <4>2 DEF Owned, Users
      <4> QED
        BY <4>1, <4>2
    <3>8. Users(nina)'
      BY <1>0, <3>4, <3>7 DEF Users, Serves
    <3> QED
      BY <1>0, <1>6, <3>3, <3>8 DEF Owned
  <2> QED
    BY <1>8, <2>1, <2>2, AdmitPlace
<1> QED
  BY <1>2, <1>7, <1>8 DEF Ignored, n, new

LEMMA PruneOwns ==
  ASSUME TypeOK, TypeOK', Owned, PruneClient
  PROVE  Owned'
<1>0. UNCHANGED <<gpio, wifi, sock, serverUp, server, drops>> /\ phase = "prune"
  BY DEF PruneClient
<1>1. server # None
  BY <1>0 DEF Owned, Begun
<1>2. Begun'
  BY <1>0, <1>1 DEF Owned, Begun
<1>3. CASE UNCHANGED <<nina, clients>>
  <2>1. Users(nina)'
    BY <1>0, <1>3 DEF Owned, Users, Serves
  <2> QED
    BY <1>0, <1>2, <1>3, <2>1 DEF Owned
<1>4. CASE /\ clients[next] # None
           /\ nina' = Disowned(nina, clients[next])
           /\ clients' = Vacated(next)
  <2>1. next \in Table /\ clients[next] \in Sockets /\ clients[next] # server
    BY <1>4 DEF TypeOK, Owned, Users
  <2>2. Tables(nina', server) /\ Others(nina, nina', clients[next])
    BY <1>4, <2>1, GetClientStateTables DEF Disowned, TypeOK, Owned
  <2>3. /\ clients'[next] = None
        /\ \A j \in Table : j # next => clients'[j] = clients[j]
    BY <1>4, <2>1 DEF Vacated, TypeOK
  <2>4. sock # None => Serves(nina', sock, {Caster})
    <3>1. ASSUME sock # None
          PROVE  sock \in Sockets \ {clients[next]} /\ Serves(nina, sock, {Caster})
      BY <2>1, <3>1 DEF TypeOK, Owned, Users
    <3> QED
      BY <2>2, <3>1 DEF Others, Serves
  <2>5. ASSUME NEW j \in Table, j # next, clients[j] # None
        PROVE  Serves(nina', clients[j], Phones)
    <3>1. clients[j] \in Sockets \ {clients[next]} /\ Serves(nina, clients[j], Phones)
      BY <2>1, <2>5 DEF TypeOK, Owned, Users
    <3> QED
      BY <2>2, <3>1 DEF Others, Serves
  <2>6. Users(nina)'
    BY <1>0, <2>3, <2>4, <2>5 DEF Owned, Users, Serves
  <2> QED
    BY <1>0, <1>2, <2>2, <2>6 DEF Owned
<1> QED
  BY <1>3, <1>4 DEF PruneClient

(* What the co-processor's task takes from the backlog is the server's.    *)
LEMMA GpioTakes ==
  ASSUME TypeOK, Owned, GpioAvailable \/ \E s \in Sockets : GpioHasClient(s)
  PROVE  /\ Tables(nina', server) /\ Others(nina, nina', None)
         /\ gpio' \in {None, server}
<1>1. ASSUME NEW s \in Sockets, GpioHasClient(s)
      PROVE  /\ Tables(nina', server) /\ Others(nina, nina', None)
             /\ gpio' \in {None, server}
  <2>1. s = server
    BY <1>1, SocketsAreNumbers DEF GpioHasClient, Owned, Tables, OtherServers
  <2>2. CASE nina' \in ServerAccept(nina, s) /\ gpio' = None
    BY <2>1, <2>2, ServerAcceptTables DEF TypeOK, Owned
  <2>3. CASE nina' = nina /\ gpio' = s
    BY <2>1, <2>3 DEF Owned, Others
  <2> QED
    BY <1>1, <2>2, <2>3 DEF GpioHasClient
<1>2. ASSUME GpioAvailable
      PROVE  /\ Tables(nina', server) /\ Others(nina, nina', None)
             /\ gpio' \in {None, server}
  <2>1. gpio = server /\ server \in Sockets /\ gpio' = None
    BY <1>2 DEF GpioAvailable, Owned, Begun, TypeOK
  <2>2. CASE nina' = Pruned(nina, gpio)
    BY <2>1, <2>2, PrunedTables DEF TypeOK, Owned
  <2>3. ASSUME NEW p \in Phones,
               nina' = Pruned([Taken(nina, p) EXCEPT
                                 !.spawned[gpio] = @ \cup ({TakenFd(nina)} \ {None})], gpio)
        PROVE  Tables(nina', server) /\ Others(nina, nina', None)
    <3> DEFINE t == Taken(nina, p)
               f == TakenFd(nina)
               m == [t EXCEPT !.spawned[server] = @ \cup ({f} \ {None})]
    <3>1. t \in NinaState /\ f \in Fds \cup {None}
      BY TakenType DEF TypeOK
    <3>2. /\ t.free = nina.free /\ t.tcpServer = nina.tcpServer
          /\ t.accepted = nina.accepted /\ t.spawned = nina.spawned
          /\ t.tcpClient = nina.tcpClient
          /\ f = None => t.lwip = nina.lwip
          /\ f # None => nina.lwip[f] = "closed" /\ t.lwip = [nina.lwip EXCEPT ![f] = p]
      BY TakenEntries, SocketsAreNumbers DEF TypeOK
    <3> HIDE DEF t, f
    <3>3. /\ m \in NinaState /\ m.free = t.free /\ m.tcpServer = t.tcpServer
          /\ m.accepted = t.accepted /\ m.tcpClient = t.tcpClient /\ m.lwip = t.lwip
          /\ m.spawned[server] = t.spawned[server] \cup ({f} \ {None})
          /\ \A s \in Sockets : s # server => m.spawned[s] = t.spawned[s]
      BY <2>1, <3>1 DEF NinaState
    <3>4. nina' = Pruned(m, server)
      BY <2>1, <2>3 DEF t, f
    <3> HIDE DEF m
    <3>5. Tables(m, server) /\ Others(nina, m, None)
      BY <2>1, <3>1, <3>2, <3>3, ArrivalTables DEF TypeOK, Owned
    <3>6. Tables(nina', server) /\ Others(m, nina', None)
      BY <2>1, <3>3, <3>4, <3>5, PrunedTables
    <3> QED
      BY <3>5, <3>6, OthersTrans
  <2> QED
    BY <1>2, <2>1, <2>2, <2>3 DEF GpioAvailable, Waiting
<1> QED
  BY <1>1, <1>2

(* The co-processor's task and the network leave the sockets in use alone, *)
(* until the link is lost.                                                 *)
LEMMA GpioOwns ==
  ASSUME TypeOK, TypeOK', Owned, Gpio
  PROVE  Owned'
<1>0. UNCHANGED rover
  BY DEF Gpio
<1>3. ASSUME NEW s \in Sockets, GpioClient(s)
      PROVE  Owned'
  <2>1. nina' = Dropped(nina, s) /\ gpio' = None
    BY <1>3 DEF GpioClient
  <2>2. /\ Tables(nina', server) /\ Others(nina, nina', s)
        /\ nina'.tcpClient[s] = None /\ nina'.free = nina.free
    BY <2>1, DroppedTables, DroppedType DEF TypeOK, Owned
  <2>3. ASSUME NEW t \in Sockets, NEW who, Serves(nina, t, who)
        PROVE  Serves(nina', t, who)
    BY <2>2, <2>3 DEF Serves, Others
  <2>4. Users(nina')
    BY <2>3 DEF Users, TypeOK, Owned
  <2>5. Users(nina)'
    BY <1>0, <2>4 DEF rover, Users, Serves
  <2> QED
    BY <1>0, <2>1, <2>2, <2>5 DEF Owned, Begun, Busy, rover
<1>4. CASE Tables(nina', server) /\ Others(nina, nina', None) /\ gpio' \in {None, server}
  <2>1. Users(nina')
    BY <1>4, OthersUsers DEF Owned
  <2>2. Users(nina)'
    BY <1>0, <2>1 DEF rover, Users, Serves
  <2>3. nina'.free = nina.free
    BY NetworkKeepsType
  <2> QED
    BY <1>0, <1>4, <2>2, <2>3 DEF Owned, Begun, Busy, rover
<1> QED
  BY <1>3, <1>4, GpioTakes DEF Gpio

LEMMA NetworkOwns ==
  ASSUME TypeOK, TypeOK', Owned, Network, drops' = 0, drops = 0
  PROVE  Owned'
<1>1. UNCHANGED <<gpio, phase, sock, serverUp, server, clients>> /\ (wifi => wifi')
  BY DEF Network, PhoneConnects, PeerCloses, WifiDrops, WifiJoins, rover
<1>2. SameEntries(nina, nina')
  <2>1. CASE \E p \in Phones : PhoneConnects(p)
    BY <2>1 DEF PhoneConnects, SameEntries, TypeOK, NinaState
  <2>2. CASE \E p \in Peers : PeerCloses(p)
    BY <2>2 DEF PeerCloses, SameEntries, TypeOK, NinaState
  <2>3. CASE WifiDrops
    BY <2>3 DEF WifiDrops
  <2>4. CASE WifiJoins
    BY <2>4 DEF WifiJoins, SameEntries
  <2> QED
    BY <2>1, <2>2, <2>3, <2>4 DEF Network
<1>3. Tables(nina', server) /\ Others(nina, nina', None)
  BY <1>2, SameKeeps DEF TypeOK, Owned
<1>4. Users(nina')
  BY <1>3, OthersUsers DEF Owned
<1>5. Users(nina)'
  BY <1>1, <1>4 DEF Users, Serves
<1> QED
  BY <1>1, <1>2, <1>3, <1>5 DEF Owned, Begun, Busy, SameEntries

LEMMA OwnedInductive == OwnInv /\ [Next]_vars => OwnInv'
<1> SUFFICES ASSUME OwnInv, [Next]_vars PROVE OwnInv'
  OBVIOUS
<1>1. CASE Next
  <2>1. TypeOK /\ TypeOK'
    BY <1>1, RoverKeepsType, NetworkKeepsType DEF Next, OwnInv
  <2>2. drops' = 0 => drops = 0
    BY <1>1, <2>1 DEF Next, Superloop, NtripPoll, EnsureServer, AcceptClients, PruneClient, Gpio,
       Network, PhoneConnects, PeerCloses, WifiDrops, WifiJoins, rover, TypeOK
  <2>3. drops' = 0 => Owned'
    BY <1>1, <2>1, <2>2, NtripOwns, ServerOwns, AcceptOwns, PruneOwns, GpioOwns, NetworkOwns
       DEF Next, Superloop, OwnInv, Owned
  <2> QED
    BY <2>1, <2>3 DEF OwnInv, Owned
<1>2. CASE UNCHANGED vars
  BY <1>2 DEF vars, OwnInv, Owned, TypeOK, Tables, ClientEntries, OtherServers, ServerEntries,
     Listeners, Entered, Users, Serves, Begun, Busy
<1> QED
  BY <1>1, <1>2

LEMMA OwnedFromStart == Init => OwnInv
<1> SUFFICES ASSUME Init PROVE OwnInv
  OBVIOUS
<1>1. TypeOK
  BY InitType
<1>2. Tables(nina, None)
  BY WhatIsWhat DEF Init, Tables, ClientEntries, OtherServers, ServerEntries, Listeners, Entered
<1>3. Users(nina) /\ Begun
  BY DEF Init, Users, Begun, Busy
<1> QED
  BY <1>1, <1>2, <1>3 DEF Init, OwnInv, Owned

(* Until the link is lost the server listens, whatever its neighbours in   *)
(* the two tables open, stop and have closed under them.                   *)
THEOREM ListensUntilLostHolds == Spec => []ListensUntilLost
<1>1. OwnInv => ListensUntilLost
  BY DEF OwnInv, Owned, Tables, ServerEntries, Begun, ListensUntilLost, RestartWorks
<1> QED
  BY <1>1, OwnedFromStart, OwnedInductive, PTL DEF Spec

(* Until the link is lost no two users share a socket, what the NTRIP      *)
(* client sends reaches the caster only, what the broadcaster sends phones *)
(* only, and its server listens.                                           *)
THEOREM OneUserEachHolds == Spec => []OneUserEach
<1>1. OwnInv /\ ListensUntilLost => OneUserEach
  <2> SUFFICES ASSUME OwnInv, ListensUntilLost, drops = 0 PROVE OneUserEach
    BY DEF OneUserEach
  <2>1. Tables(nina, server) /\ Users(nina) /\ TypeOK
    BY DEF OwnInv, Owned
  <2>2. ASSUME NEW s \in Sockets, s # server, NEW who, Serves(nina, s, who)
        PROVE  Reached(nina, s) \subseteq who
    <3>1. s \notin nina.free /\ nina.tcpServer[s] = None
      BY <2>1, <2>2 DEF Tables, OtherServers, Serves
    <3>2. Reached(nina, s) = {nina.lwip[f] : f \in {nina.tcpClient[s]} \ {None}} \cap Peers
      BY <3>1 DEF Reached
    <3> QED
      BY <2>2, <3>2 DEF Serves
  <2>3. sock # None => sock # server /\ Reached(nina, sock) \subseteq {Caster}
    BY <2>1, <2>2 DEF Users, TypeOK
  <2>4. ASSUME NEW i \in Taking
        PROVE  /\ clients[i] \in Sockets \ {sock, server}
               /\ Reached(nina, clients[i]) \subseteq Phones
               /\ \A j \in Taking : clients[i] = clients[j] => i = j
    BY <2>1, <2>2 DEF Users, TypeOK, Taking
  <2> QED
    BY <2>3, <2>4 DEF OneUserEach
<1> QED
  BY <1>1, OwnedFromStart, OwnedInductive, ListensUntilLostHolds, PTL DEF Spec

(***************************************************************************)
(* The connection to the caster.  The client's socket is the only one      *)
(* with a client connected to it: this is preserved since a step changes   *)
(* the entry of at most one socket.                                        *)
(***************************************************************************)
Upstream(n, s) == n.tcpClient[s] # None /\ n.lwip[n.tcpClient[s]] = Caster

OneUpstream(n) == \A s \in Sockets : Upstream(n, s) => s = sock

UpstreamInv == OwnInv /\ (drops = 0 => OneUpstream(nina))

LEMMA StoppedIsGone ==
  ASSUME NEW n \in NinaState, NEW srv \in Sockets \cup {None}, Tables(n, srv),
         NEW s \in Sockets, s # srv
  PROVE  /\ ~Upstream(StopClient(n, s), s)
         /\ GetClientState(n, s) = n \/ ~Upstream(GetClientState(n, s), s)
<1>1. Dropped(n, s).tcpClient[s] = None
  BY DroppedTables
<1>2. Released(Dropped(n, s), s).tcpClient[s] = None
  BY <1>1, DroppedType DEF Released, NinaState
<1> QED
  BY <1>2 DEF StopClient, GetClientState, Upstream

(* Only the socket x may have changed, and it is no client of the caster's.*)
LEMMA OthersUpstream ==
  ASSUME NEW n, NEW m, NEW x, OneUpstream(n), Others(n, m, x),
         x \in Sockets => ~Upstream(m, x)
  PROVE  OneUpstream(m)
BY DEF OneUpstream, Others, Upstream

LEMMA NtripUpstream ==
  ASSUME TypeOK, Owned, OneUpstream(nina), NtripPoll
  PROVE  OneUpstream(nina)'
<1>1. CASE NtripStays
  BY <1>1 DEF NtripStays, OneUpstream, Upstream
<1>2. CASE NtripConnects
  <2> DEFINE s == GetSocket(nina)
  <2>1. s \in nina.free /\ s \in Sockets /\ sock = None
    BY <1>2, GetSocketType DEF NtripConnects, TypeOK, NinaState
  <2>2. PICK ok \in BOOLEAN :
          /\ nina' = GetClientState(StartClient(nina, s, ok), s)
          /\ sock' = IF Alive(StartClient(nina, s, ok), s) THEN s ELSE None
    BY <1>2 DEF NtripConnects
  <2> DEFINE n == StartClient(nina, s, ok)
  <2> HIDE DEF s
  <2>3. /\ n \in NinaState /\ Tables(n, server) /\ Others(nina, n, s) /\ s # server
    BY <2>1, StartClientType, StartClientTables DEF TypeOK, Owned
  <2> HIDE DEF n
  <2>4. Others(n, nina', s)
    BY <2>2, <2>3, <2>1, GetClientStateTables DEF n, TypeOK
  <2>5. Others(nina, nina', s)
    BY <2>3, <2>4, OthersTrans
  <2>6. \A t \in Sockets : t # s => ~Upstream(nina', t)
    BY <2>1, <2>5, SocketsAreNumbers DEF OneUpstream, Others, Upstream
  <2>7. CASE Alive(n, s)
    BY <2>2, <2>6, <2>7 DEF n, OneUpstream, Upstream
  <2>8. CASE ~Alive(n, s)
    <3>1. nina' = StopClient(n, s)
      BY <2>2, <2>8 DEF n, GetClientState, StopClient
    <3>2. ~Upstream(nina', s)
      BY <2>1, <2>3, <3>1, StoppedIsGone DEF TypeOK
    <3> QED
      BY <2>6, <3>2 DEF OneUpstream, Upstream
  <2> QED
    BY <2>7, <2>8
<1>3. CASE NtripLost \/ NtripStops
  <2>1. /\ sock \in Sockets /\ sock' = None /\ sock # server
        /\ nina' = StopClient(nina, sock)
    BY <1>3 DEF NtripLost, NtripStops, TypeOK, Owned, Users, GetClientState, StopClient
  <2>2. Others(nina, nina', sock) /\ ~Upstream(nina', sock)
    BY <2>1, StopClientTables, StoppedIsGone DEF TypeOK, Owned
  <2>3. \A s \in Sockets : ~Upstream(nina', s)
    BY <2>2 DEF OneUpstream, Others, Upstream
  <2> QED
    BY <2>3 DEF OneUpstream, Upstream
<1> QED
  BY <1>1, <1>2, <1>3 DEF NtripPoll

LEMMA ServerUpstream ==
  ASSUME TypeOK, Owned, OneUpstream(nina), EnsureServer
  PROVE  OneUpstream(nina)'
<1>1. sock' = sock
  BY DEF EnsureServer
<1>2. CASE nina' = nina
  BY <1>1, <1>2 DEF OneUpstream, Upstream
<1>3. ASSUME NEW s \in nina.free, NEW ok \in BOOLEAN, nina' = StartServer(nina, s, ok)
      PROVE  OneUpstream(nina')
  <2>1. s \in Sockets /\ nina.tcpClient[s] = None
    BY <1>3 DEF TypeOK, NinaState, Owned, Tables, ClientEntries
  <2>2. nina'.tcpClient = nina.tcpClient
    BY <1>3 DEF StartServer, Opened, Booked
  <2>3. \A g \in Fds : nina'.lwip[g] # nina.lwip[g] => nina'.lwip[g] = "listening"
    <3>1. CASE ok /\ ClosedFds(nina) # {}
      <4> DEFINE f == Least(ClosedFds(nina))
      <4>1. f \in Fds
        BY <3>1, ClosedFdsType DEF TypeOK
      <4>2. nina'.lwip = [nina.lwip EXCEPT ![f] = "listening"]
        BY <1>3, <3>1 DEF StartServer, Opened, Booked
      <4> HIDE DEF f
      <4> QED
        BY <4>1, <4>2 DEF TypeOK, NinaState
    <3>2. CASE ~(ok /\ ClosedFds(nina) # {})
      BY <1>3, <3>2 DEF StartServer
    <3> QED
      BY <3>1, <3>2
  <2>4. Caster # "listening"
    BY WhatIsWhat
  <2> QED
    BY <2>1, <2>2, <2>3, <2>4 DEF OneUpstream, Upstream, TypeOK, NinaState
<1>4. CASE ServerBegins
  <2>1. CASE GetSocket(nina) = None
    BY <1>2, <1>4, <2>1 DEF ServerBegins
  <2>2. CASE GetSocket(nina) # None
    <3>1. PICK ok \in MayListen(nina) : nina' = StartServer(nina, GetSocket(nina), ok)
      BY <1>4, <2>2 DEF ServerBegins
    <3>2. ok \in BOOLEAN
      BY <3>1 DEF MayListen
    <3>3. GetSocket(nina) \in nina.free
      BY <2>2, GetSocketType DEF TypeOK
    <3>4. OneUpstream(nina')
      BY <1>3, <3>1, <3>2, <3>3
    <3> QED
      BY <1>1, <3>4 DEF OneUpstream, Upstream
  <2> QED
    BY <2>1, <2>2
<1> QED
  BY <1>2, <1>4 DEF EnsureServer, ServerDown, ServerStays

LEMMA AcceptUpstream ==
  ASSUME TypeOK, Owned, OneUpstream(nina), AcceptClients
  PROVE  OneUpstream(nina)'
<1>0. sock' = sock /\ phase = "accept"
  BY DEF AcceptClients
<1>1. server # None /\ server \in Sockets
  BY <1>0 DEF Owned, Begun, TypeOK
<1>2. PICK answer \in AvailAccept(nina, server) :
        \/ answer[2] = None /\ nina' = answer[1] /\ clients' = clients
        \/ answer[2] # None /\ Ignored(answer[1], answer[2])
        \/ answer[2] # None /\ Admit(answer[1], answer[2])
  BY DEF AcceptClients
<1> DEFINE n == answer[1]
           new == answer[2]
<1>3. /\ n \in NinaState /\ Tables(n, server) /\ Others(nina, n, new)
      /\ new # None => new \in nina.free /\ new # server /\ Serves(n, new, Phones)
  BY <1>1, AvailAcceptTables DEF TypeOK, Owned
<1> HIDE DEF n, new
<1>4. OneUpstream(n)
  <2>1. new \in Sockets => ~Upstream(n, new)
    BY <1>3, SocketsAreNumbers, WhatIsWhat DEF Serves, Upstream
  <2> QED
    BY <1>3, <2>1, OthersUpstream
<1>5. ASSUME NEW s \in Sockets, s # server,
             nina' = StopClient(n, s) \/ nina' = GetClientState(n, s)
      PROVE  OneUpstream(nina')
  <2>1. nina' = n \/ (Others(n, nina', s) /\ ~Upstream(nina', s))
    BY <1>1, <1>3, <1>5, StoppedIsGone, StopClientTables, GetClientStateTables
  <2> QED
    BY <1>4, <2>1, OthersUpstream
<1>6. CASE new # None /\ Admit(n, new)
  <2>1. CASE nina' = TurnedAway(n, new)
    <3>1. new \in Sockets
      BY <1>3, <1>6 DEF TypeOK, NinaState
    <3>2. OneUpstream(nina')
      BY <1>3, <1>5, <1>6, <2>1, <3>1, SocketsAreNumbers DEF TurnedAway
    <3> QED
      BY <1>0, <3>2 DEF OneUpstream, Upstream
  <2>2. ASSUME NEW i \in Table, nina' = Disowned(n, clients[i])
        PROVE  OneUpstream(nina)'
    <3>2. OneUpstream(nina')
      <4>1. CASE clients[i] = None
        BY <1>4, <2>2, <4>1, SocketsAreNumbers DEF Disowned
      <4>2. CASE clients[i] # None
        <5>1. clients[i] \in Sockets /\ clients[i] # server
          BY <2>2, <4>2 DEF Owned, Users
        <5> QED
          BY <1>5, <2>2, <5>1 DEF Disowned
      <4> QED
        BY <4>1, <4>2
    <3> QED
      BY <1>0, <3>2 DEF OneUpstream, Upstream
  <2> QED
    BY <1>6, <2>1, <2>2, AdmitPlace
<1>7. CASE nina' = n
  BY <1>0, <1>4, <1>7 DEF OneUpstream, Upstream
<1> QED
  BY <1>2, <1>6, <1>7 DEF Ignored, n, new

LEMMA PruneUpstream ==
  ASSUME TypeOK, Owned, OneUpstream(nina), PruneClient
  PROVE  OneUpstream(nina)'
<1>0. sock' = sock
  BY DEF PruneClient
<1>1. CASE nina' = nina
  BY <1>0, <1>1 DEF OneUpstream, Upstream
<1>2. CASE clients[next] # None /\ nina' = Disowned(nina, clients[next])
  <2>1. next \in Table /\ clients[next] \in Sockets /\ clients[next] # server
    BY <1>2 DEF TypeOK, Owned, Users
  <2>2. \/ nina' = nina
        \/ Others(nina, nina', clients[next]) /\ ~Upstream(nina', clients[next])
    BY <1>2, <2>1, StoppedIsGone, GetClientStateTables DEF Disowned, TypeOK, Owned
  <2>3. OneUpstream(nina')
    BY <2>2, OthersUpstream
  <2> QED
    BY <1>0, <2>3 DEF OneUpstream, Upstream
<1> QED
  BY <1>1, <1>2 DEF PruneClient

LEMMA GpioUpstream ==
  ASSUME TypeOK, Owned, OneUpstream(nina), Gpio
  PROVE  OneUpstream(nina)'
<1>0. sock' = sock
  BY DEF Gpio, rover
<1>1. \E x \in Sockets \cup {None} :
        Others(nina, nina', x) /\ (x # None => ~Upstream(nina', x))
  <2>1. ASSUME NEW s \in Sockets, GpioClient(s)
        PROVE  Others(nina, nina', s) /\ ~Upstream(nina', s)
    <3>1. nina' = Dropped(nina, s)
      BY <2>1 DEF GpioClient
    <3> QED
      BY <3>1, DroppedTables DEF TypeOK, Owned, Upstream
  <2> QED
    BY <2>1, GpioTakes DEF Gpio
<1>2. OneUpstream(nina')
  BY <1>1, OthersUpstream, SocketsAreNumbers
<1> QED
  BY <1>0, <1>2 DEF OneUpstream, Upstream

LEMMA UpstreamInductive == UpstreamInv /\ [Next]_vars => UpstreamInv'
<1> SUFFICES ASSUME UpstreamInv, [Next]_vars PROVE UpstreamInv'
  OBVIOUS
<1>1. OwnInv'
  BY OwnedInductive DEF UpstreamInv
<1>2. CASE Next
  <2>1. TypeOK /\ drops \in Nat /\ drops' \in Nat
    BY <1>1, ConstantsAssumption DEF UpstreamInv, OwnInv, TypeOK
  <2>2. CASE Superloop \/ Gpio
    <3>1. drops' = drops
      BY <2>2 DEF Superloop, NtripPoll, EnsureServer, AcceptClients, PruneClient, Gpio, rover
    <3> QED
      BY <1>1, <2>1, <2>2, <3>1, NtripUpstream, ServerUpstream, AcceptUpstream, PruneUpstream,
         GpioUpstream DEF Superloop, UpstreamInv, OwnInv, OneUpstream, Upstream
  <2>3. CASE Network
    <3>1. CASE WifiDrops
      <4>1. drops' # 0
        BY <2>1, <3>1 DEF WifiDrops
      <4> QED
        BY <1>1, <4>1 DEF UpstreamInv
    <3>2. CASE ~WifiDrops
      <4>1. sock' = sock /\ drops' = drops
        BY <2>3, <3>2 DEF Network, PhoneConnects, PeerCloses, WifiJoins, rover
      <4>2. nina'.tcpClient = nina.tcpClient /\ nina'.lwip = nina.lwip
        BY <2>1, <2>3, <3>2 DEF Network, PhoneConnects, PeerCloses, WifiJoins, TypeOK, NinaState
      <4> QED
        BY <1>1, <4>1, <4>2 DEF UpstreamInv, OneUpstream, Upstream
    <3> QED
      BY <3>1, <3>2
  <2> QED
    BY <1>2, <2>2, <2>3 DEF Next
<1>3. CASE UNCHANGED vars
  BY <1>1, <1>3 DEF vars, UpstreamInv, OneUpstream, Upstream
<1> QED
  BY <1>2, <1>3

(* Until the link is lost the one open connection to the caster is that of *)
(* the client's socket: none is left behind by a reconnection.             *)
THEOREM CasterConnectedOnceHolds == Spec => []CasterConnectedOnce
<1>1. Init => UpstreamInv
  BY OwnedFromStart DEF Init, UpstreamInv, OneUpstream, Upstream
<1>2. UpstreamInv => CasterConnectedOnce
  <2> SUFFICES ASSUME UpstreamInv, drops = 0, NEW f \in Fds, nina.lwip[f] = Caster
               PROVE  sock # None /\ nina.tcpClient[sock] = f
    BY DEF CasterConnectedOnce
  <2>1. Tables(nina, server) /\ OneUpstream(nina)
    BY DEF UpstreamInv, OwnInv, Owned
  <2>2. ~(server # None /\ (nina.accepted[server] = f \/ f \in nina.spawned[server]))
    BY <2>1, SocketsAreNumbers, WhatIsWhat DEF Tables, ServerEntries
  <2>3. PICK s \in Sockets : nina.tcpClient[s] = f
    BY <2>1, <2>2, WhatIsWhat DEF Tables, Entered
  <2> QED
    BY <2>1, <2>3, SocketsAreNumbers DEF OneUpstream, Upstream
<1> QED
  BY <1>1, <1>2, UpstreamInductive, PTL DEF Spec

(* Until the link is lost every open connection is in one entry of the     *)
(* co-processor's tables, that to the caster in the client's.               *)
THEOREM DescriptorsOwnedHolds == Spec => []DescriptorsOwned
<1>1. OwnInv /\ CasterConnectedOnce => DescriptorsOwned
  <2> SUFFICES ASSUME OwnInv, CasterConnectedOnce, drops = 0, NEW f \in Fds, nina.lwip[f] \in Peers
               PROVE  Cardinality(Owners(f)) = 1
    BY DEF DescriptorsOwned
  <2>1. Tables(nina, server)
    BY DEF OwnInv, Owned
  <2>2. f # None /\ server \in Sockets \cup {None}
    BY SocketsAreNumbers DEF OwnInv, TypeOK
  <2>3. \E s : Owners(f) = {s}
    <3>1. CASE \E s \in Sockets : nina.tcpClient[s] = f
      <4>1. PICK s \in Sockets : nina.tcpClient[s] = f
        BY <3>1
      <4>2. s \notin nina.free /\ \A t \in Sockets : nina.tcpClient[t] = f => t = s
        BY <2>1, <2>2, <4>1 DEF Tables, ClientEntries
      <4>3. \A t \in Sockets : nina.accepted[t] # f /\ f \notin nina.spawned[t]
        <5>1. ASSUME NEW t \in Sockets, t # server
              PROVE  nina.accepted[t] # f /\ f \notin nina.spawned[t]
          BY <2>1, <2>2, <5>1 DEF Tables, OtherServers
        <5>2. server # None => nina.accepted[server] # f /\ f \notin nina.spawned[server]
          BY <2>1, <2>2, <4>1 DEF Tables, ServerEntries
        <5> QED
          BY <5>1, <5>2, SocketsAreNumbers
      <4>4. Owners(f) = {s}
        BY <4>1, <4>2, <4>3 DEF Owners, Busy
      <4> QED
        BY <4>4
    <3>2. CASE ~\E s \in Sockets : nina.tcpClient[s] = f
      <4>1. server # None /\ (nina.accepted[server] = f \/ f \in nina.spawned[server])
        BY <2>1, <3>2 DEF Tables, Entered
      <4>2. server \in Sockets \ nina.free
        BY <2>1, <2>2, <4>1 DEF Tables, ServerEntries
      <4>3. \A t \in Sockets : t # server => nina.accepted[t] # f /\ f \notin nina.spawned[t]
        BY <2>1, <2>2 DEF Tables, OtherServers
      <4>4. Owners(f) = {server}
        BY <3>2, <4>1, <4>2, <4>3 DEF Owners, Busy
      <4> QED
        BY <4>4
    <3> QED
      BY <3>1, <3>2
  <2> QED
    BY <2>3, FS_Singleton
<1> QED
  BY <1>1, OwnedFromStart, OwnedInductive, CasterConnectedOnceHolds, PTL DEF Spec

(* Until the link is lost a phone that accept() handed out is in the       *)
(* rover's table, but for the newcomers taken for a client of the table.   *)
THEOREM HandedOutListedHolds == Spec => []HandedOutListed
<1>1. OwnInv /\ LeaksAccounted => HandedOutListed
  <2> SUFFICES ASSUME OwnInv, LeaksAccounted, drops = 0
               PROVE  Cardinality(HandedOut \ {clients[i] : i \in Table}) <= misreads
    BY DEF HandedOutListed
  <2> DEFINE stray == HandedOut \ {clients[i] : i \in Table}
  <2>1. Tables(nina, server) /\ Users(nina) /\ TypeOK
    BY DEF OwnInv, Owned
  <2>2. sock \notin HandedOut
    BY <2>1, WhatIsWhat, SocketsAreNumbers DEF HandedOut, Busy, Users, Serves
  <2>3. server \notin HandedOut
    BY <2>1 DEF HandedOut, Busy, Tables, ClientEntries
  <2>4. stray \subseteq orphans
    BY <2>2, <2>3 DEF LeaksAccounted, Held, HandedOut
  <2>5. IsFiniteSet(orphans) /\ Cardinality(orphans) \in Nat
    BY <2>1, OrphansFinite DEF TypeOK
  <2>6. Cardinality(stray) <= Cardinality(orphans) /\ Cardinality(stray) \in Nat
    BY <2>4, <2>5, FS_Subset, FS_CardinalityType
  <2>7. Cardinality(orphans) <= misreads /\ misreads \in Nat
    BY <2>1, ConstantsAssumption DEF LeaksAccounted, TypeOK
  <2> HIDE DEF stray
  <2>8. Cardinality(stray) <= misreads
    BY <2>5, <2>6, <2>7
  <2> QED
    BY <2>8 DEF stray
<1> QED
  BY <1>1, OwnedFromStart, OwnedInductive, LeaksAccountedHolds, PTL DEF Spec

=============================================================================
