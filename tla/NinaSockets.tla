----------------------------- MODULE NinaSockets -----------------------------
(***************************************************************************)
(* The socket table of the AirLift co-processor (nina-fw, CommandHandler   *)
(* .cpp) under its two long-lived users on the rover, the NTRIP client and *)
(* the NMEA broadcaster, in the coexistence build.                         *)
(*                                                                         *)
(* Three kinds of number stand for a connection: the rover's WiFiClient    *)
(* and WiFiServer hold a socket, which is an index into the tables of the  *)
(* co-processor; its WiFiClient and WiFiServer objects hold a descriptor   *)
(* of lwIP; only lwIP knows the peer.  Each level reuses its numbers as    *)
(* soon as they are free, whoever still holds them.                        *)
(*                                                                         *)
(* A command is an operator from the co-processor's state to the next one, *)
(* and a step of the rover's superloop is the sequence of the commands it  *)
(* sends.  Peers, the WiFi driver's callback and the co-processor's second *)
(* task, gpio0Updater, act between any two of these steps.                 *)
(***************************************************************************)
EXTENDS Integers, FiniteSets

CONSTANTS
  MaxSockets,   \* MAX_SOCKETS and CONFIG_LWIP_MAX_SOCKETS, which are equal
  MaxClients,   \* kMaxClients
  Phones,
  Caster,
  None,         \* NO_SOCKET_AVAIL, a descriptor of -1
  Outside,      \* any socket number beyond the tables
  Counts,       \* bound: what a byte taken for a socket's number may be
  MaxDrops,     \* bound: losses of the station's link
  MaxMisreads   \* bound: newcomers taken for a client of the table

ASSUME ConstantsAssumption ==
  /\ MaxSockets \in Nat \ {0, 1}   \* one for the caster, one for the server
  /\ MaxClients \in Nat \ {0} /\ MaxDrops \in Nat
  /\ MaxMisreads \in Nat
  /\ None \notin Int /\ Outside \notin Int /\ Outside # None
  /\ Counts \subseteq (0 .. MaxSockets - 1) \cup {Outside, None}
  /\ Caster \notin Phones
  /\ {"closed", "listening"} \cap (Phones \cup {Caster}) = {}

Sockets == 0 .. MaxSockets - 1
Fds     == 0 .. MaxSockets - 1
Table   == 1 .. MaxClients
Peers   == Phones \cup {Caster}

VARIABLES
  nina,         \* the co-processor
  (* its task gpio0Updater *)
  gpio,         \* the server it found no client waiting at, or None
  (* the rover *)
  phase,        \* "ntrip", "server", "accept", "prune": where the superloop stands
  next,         \* the client to be pruned next
  wifi,         \* WiFi.status() = WL_CONNECTED
  sock,         \* socket of ntrip.cpp's WiFiClient
  serverUp, server,     \* tcp_nmea.cpp: the flag, the socket of the WiFiServer
  clients,      \* sockets of tcp_nmea.cpp's table
  (* history *)
  drops, misreads,
  orphans       \* sockets the rover forgot without giving them back

vars == <<nina, gpio, phase, next, wifi, sock, serverUp, server, clients, drops, misreads, orphans>>

NinaState ==
  [free      : SUBSET Sockets,                    \* socketTypes[s] = 255
   tcpServer : [Sockets -> Fds \cup {None}],
   accepted  : [Sockets -> Fds \cup {None}],      \* _accepted_sock of a server
   spawned   : [Sockets -> SUBSET Fds],           \* _spawnedSockets of a server
   tcpClient : [Sockets -> Fds \cup {None}],
   lwip      : [Fds -> {"closed", "listening"} \cup Peers],
   hung      : SUBSET Fds,                        \* closed by the peer, all of it read
   knocks    : [Phones -> Fds \cup {None}]]       \* in a listener's backlog

Held == ({sock, server} \cup {clients[i] : i \in Table}) \ {None, Outside}

TypeOK ==
  /\ nina \in NinaState
  /\ gpio \in Sockets \cup {None}
  /\ phase \in {"ntrip", "server", "accept", "prune"} /\ next \in Table
  /\ wifi \in BOOLEAN /\ serverUp \in BOOLEAN
  /\ sock \in Sockets \cup {None} /\ server \in Sockets \cup {None}
  /\ clients \in [Table -> Sockets \cup {None, Outside}]
  /\ drops \in 0 .. MaxDrops /\ misreads \in 0 .. MaxMisreads
  /\ orphans \subseteq Sockets

-----------------------------------------------------------------------------
(* lwIP, as WiFiClient.cpp and WiFiServer.cpp use it.                      *)

Least(S) == CHOOSE x \in S : \A y \in S : x <= y

ClosedFds(n) == {f \in Fds : n.lwip[f] = "closed"}

Opened(n, f, what) == [n EXCEPT !.lwip[f] = what]

(* lwip_close(); a closed listener turns its backlog away.                 *)
Closed(n, f) ==
  [n EXCEPT !.lwip[f] = "closed", !.hung = @ \ {f},
            !.knocks = [p \in Phones |-> IF @[p] = f THEN None ELSE @[p]]]

(* Who is in the backlog of descriptor f.                                  *)
Waiting(n, f) == {p \in Phones : n.knocks[p] = f}

(* lwip_accept() with p in the backlog: a connection for which there is no *)
(* descriptor is dropped.                                                  *)
Taken(n, p) ==
  LET m == [n EXCEPT !.knocks[p] = None]
  IN IF ClosedFds(n) = {} THEN m ELSE Opened(m, Least(ClosedFds(n)), p)

TakenFd(n) == IF ClosedFds(n) = {} THEN None ELSE Least(ClosedFds(n))

-----------------------------------------------------------------------------
(* The commands.                                                           *)

Booked(n, s)   == [n EXCEPT !.free = @ \ {s}]
Released(n, s) == [n EXCEPT !.free = @ \cup {s}]

(* A booked socket with a client that WiFiClient::connected() vouches for. *)
Alive(n, s) ==
  LET f == n.tcpClient[s]
  IN s \in Sockets \ n.free /\ f # None /\ n.lwip[f] \in Peers /\ f \notin n.hung

(* A client whose descriptor reports an error closes it: its own           *)
(* connection after the peer has gone, or whatever has the number by now.  *)
Dropped(n, s) ==
  IF s \in n.free \/ n.tcpClient[s] = None THEN n
  ELSE [Closed(n, n.tcpClient[s]) EXCEPT !.tcpClient[s] = None]

FaultOffByOne(n) == IF n.free = {} THEN MaxSockets ELSE Least(n.free)

(* getSocket().                                                            *)
GetSocket(n) == IF n.free = {} THEN None ELSE Least(n.free)

(* startServerTcp(): listening fails without a descriptor, and may when    *)
(* another socket listens on the port.                                     *)
StartServer(n, s, ok) ==
  IF ok /\ ClosedFds(n) # {}
  THEN [Opened(Booked(n, s), Least(ClosedFds(n)), "listening")
          EXCEPT !.tcpServer[s] = Least(ClosedFds(n))]
  ELSE [n EXCEPT !.tcpServer[s] = None]

MayListen(n) == IF \E f \in Fds : n.lwip[f] = "listening" THEN BOOLEAN ELSE {TRUE}

(* startClientTcp(): the object's old descriptor is overwritten, not       *)
(* closed; the socket is booked only once the connection is made.          *)
StartClient(n, s, ok) ==
  IF ok /\ ClosedFds(n) # {}
  THEN [Opened(Booked(n, s), Least(ClosedFds(n)), Caster)
          EXCEPT !.tcpClient[s] = Least(ClosedFds(n))]
  ELSE [n EXCEPT !.tcpClient[s] = None]

FaultForgetToStop(n, s) == Released(n, s)

(* stopClientTcp(): stops what is booked, frees the socket in any case.    *)
StopClient(n, s) == Released(Dropped(n, s), s)

FaultOnlyReport(n, s) == IF Alive(n, s) THEN n ELSE Dropped(n, s)

(* getClientStateTcp(): answers, and frees a socket that is not connected, *)
(* whoever asks and whatever the socket is to its owner.                   *)
GetClientState(n, s) == IF Alive(n, s) THEN n ELSE Released(Dropped(n, s), s)

(* WiFiServer::accept(): the connection gpio0Updater has taken from the    *)
(* backlog, else the first one there.  Left is the co-processor after it   *)
(* with the descriptor in accepted.                                        *)
ServerAccept(n, s) ==
  IF n.accepted[s] # None THEN {n}
  ELSE {[Taken(n, p) EXCEPT !.accepted[s] = TakenFd(n)] : p \in Waiting(n, n.tcpServer[s])}

(* WiFiClient::available() of a booked socket: how many bytes wait there,  *)
(* none on a listener; a descriptor closed underneath is let go.           *)
ByteCount(n, s) ==
  LET f == n.tcpClient[s]
  IN IF f # None /\ n.lwip[f] \in Peers THEN {<<n, count>> : count \in Counts}
     ELSE IF f # None /\ n.lwip[f] = "closed" THEN {<<Dropped(n, s), 0>>}
     ELSE {<<n, 0>>}

(* availDataTcp() with accept, for the socket s of a WiFiServer: the next  *)
(* state and what is answered, which the rover takes for a socket's number *)
(* also where it is a count of bytes, or 0 for nothing.  Without a socket  *)
(* the tables are read out of their bounds.                                *)
AvailAccept(n, s) ==
  IF s = None THEN {<<n, any>> : any \in Counts}
  ELSE IF s \in n.free THEN {<<n, 0>>}
  ELSE IF n.tcpServer[s] = None THEN ByteCount(n, s)
  ELSE IF n.free = {} \/ ServerAccept(n, s) = {} THEN {<<n, None>>}
  ELSE {LET i == Least(n.free)
        IN IF m.accepted[s] = None THEN <<m, None>>
           ELSE <<[Booked(m, i) EXCEPT !.tcpClient[i] = m.accepted[s],
                                       !.accepted[s] = None], i>> :
        m \in ServerAccept(n, s)}

(* The peers a write to socket s reaches (sendDataTcp): all a server has   *)
(* spawned, or the client.                                                 *)
Reached(n, s) ==
  {n.lwip[f] : f \in IF s \in n.free THEN {}
                     ELSE IF n.tcpServer[s] # None THEN n.spawned[s]
                     ELSE {n.tcpClient[s]} \ {None}} \cap Peers

-----------------------------------------------------------------------------
Init ==
  /\ nina = [free |-> Sockets,
             tcpServer |-> [s \in Sockets |-> None],
             accepted |-> [s \in Sockets |-> None],
             spawned |-> [s \in Sockets |-> {}],
             tcpClient |-> [s \in Sockets |-> None],
             lwip |-> [f \in Fds |-> "closed"],
             hung |-> {},
             knocks |-> [p \in Phones |-> None]]
  /\ gpio = None
  /\ phase = "ntrip" /\ next = 1
  /\ wifi = FALSE /\ sock = None
  /\ serverUp = FALSE /\ server = None
  /\ clients = [i \in Table |-> None]
  /\ drops = 0 /\ misreads = 0 /\ orphans = {}

rover == <<phase, next, wifi, sock, serverUp, server, clients, drops, misreads, orphans>>

(* The rover has no number of the sockets in S any more, but for those it  *)
(* has given back or still holds.                                          *)
Forget(S) == orphans' = (orphans \cup (S \cap Sockets)) \ (nina'.free \cup Held')

-----------------------------------------------------------------------------
(* ntripPoll(), as far as it concerns its socket.                          *)

(* WaitRetry, WifiConnecting; or the connection is up and used.            *)
NtripStays ==
  /\ sock # None => Alive(nina, sock)
  /\ UNCHANGED <<nina, sock>>

(* CasterConnecting: WiFiClient::connect() asks for a socket, starts the   *)
(* client and polls its state.                                             *)
NtripConnects ==
  /\ sock = None /\ wifi
  /\ LET s == GetSocket(nina)
     IN /\ s # None
        /\ \E ok \in BOOLEAN :
             LET n == StartClient(nina, s, ok)
             IN /\ nina' = GetClientState(n, s)
                /\ sock' = IF Alive(n, s) THEN s ELSE None

(* sock.connected() finds the connection gone.                             *)
NtripLost ==
  /\ sock # None /\ ~Alive(nina, sock)
  /\ nina' = GetClientState(nina, sock)
  /\ sock' = None

(* backoff() after a refusal, a time-out or the loss of WiFi; the          *)
(* Corrections card.                                                       *)
NtripStops ==
  /\ sock # None
  /\ nina' = StopClient(nina, sock)
  /\ sock' = None

NtripPoll ==
  /\ phase = "ntrip" /\ phase' = "server"
  /\ NtripStays \/ NtripConnects \/ NtripLost \/ NtripStops
  /\ UNCHANGED <<gpio, next, wifi, serverUp, server, clients, drops, misreads>>
  /\ Forget({})

-----------------------------------------------------------------------------
(* tcpNmeaPoll().                                                          *)

(* WiFi is down: the server counts as down, nothing else is touched.       *)
ServerDown ==
  /\ ~wifi
  /\ serverUp' = FALSE /\ phase' = "ntrip"
  /\ UNCHANGED <<nina, server>>

(* WiFiServer::begin() takes a socket and starts a server there.           *)
ServerBegins ==
  /\ wifi /\ ~serverUp
  /\ LET s == GetSocket(nina)
     IN /\ server' = s
        /\ IF s = None THEN nina' = nina
           ELSE \E ok \in MayListen(nina) : nina' = StartServer(nina, s, ok)
  /\ serverUp' = TRUE /\ phase' = "accept"

ServerStays ==
  /\ wifi /\ serverUp
  /\ phase' = "accept"
  /\ UNCHANGED <<nina, serverUp, server>>

EnsureServer ==
  /\ phase = "server"
  /\ ServerDown \/ ServerBegins \/ ServerStays
  /\ UNCHANGED <<gpio, next, wifi, sock, clients, drops, misreads>>
  /\ Forget({server})

(* Two sockets give the same remoteIP() and remotePort() (getRemoteData):   *)
(* 0 for both, or one connection.                                          *)
SameRemote(n, s, t) ==
  \/ s \in n.free /\ t \in n.free
  \/ Alive(n, s) /\ Alive(n, t) /\ n.tcpClient[s] = n.tcpClient[t]

(* A booked socket without a connection: getpeername() fails, and the      *)
(* address answered is what the stack held before.  Beyond the tables it   *)
(* is what lies there.                                                     *)
Unreadable(n, s) == s = Outside \/ (s \notin n.free /\ ~Alive(n, s))

Taking == {i \in Table : clients[i] # None}
Strays == {i \in Table : clients[i] = Outside}

(* connected() of a client in the table that it finds gone.  Beyond the    *)
(* tables it answers what lies there, and what it writes there is left out.*)
Disowned(n, s) == IF s \in Sockets THEN GetClientState(n, s) ELSE n

(* incoming.stop(), the table being full.                                  *)
TurnedAway(n, new) == IF new = Outside THEN n ELSE StopClient(n, new)

(* The new connection goes to the first place without a live client, whose *)
(* connected() it takes to find out.                                       *)
Admit(n, new) ==
  \E dead \in SUBSET Strays :
    LET usable == {i \in Table \ Strays : clients[i] = None \/ ~Alive(n, clients[i])} \cup dead
        i      == Least(usable)
    IN \/ /\ usable = {}
          /\ nina' = TurnedAway(n, new)
          /\ clients' = clients
       \/ /\ usable # {}
          /\ nina' = Disowned(n, clients[i])
          /\ clients' = [clients EXCEPT ![i] = new]

(* What the server answers is in the table already, or taken for such:     *)
(* the newcomer is forgotten with its socket.                              *)
Ignored(n, new) ==
  /\ \E i \in Taking : \/ SameRemote(n, clients[i], new)
                       \/ Unreadable(n, clients[i]) \/ Unreadable(n, new)
  /\ nina' = n /\ clients' = clients
  /\ misreads' = IF new \in n.free \cup Held \cup {Outside} THEN misreads ELSE misreads + 1
  /\ misreads' <= MaxMisreads

(* acceptClients().                                                        *)
AcceptClients ==
  /\ phase = "accept" /\ phase' = "prune" /\ next' = 1
  /\ UNCHANGED <<gpio, wifi, sock, serverUp, server, drops>>
  /\ \E answer \in AvailAccept(nina, server) :
       LET n   == answer[1]
           new == answer[2]
       IN /\ \/ /\ new = None
                /\ nina' = n
                /\ UNCHANGED <<clients, misreads>>
             \/ new # None /\ Ignored(n, new)
             \/ /\ new # None /\ ~\E i \in Taking : SameRemote(n, clients[i], new)
                /\ Admit(n, new)
                /\ misreads' = misreads
          /\ Forget({new})

FaultKeepsNumber(i) == clients

(* clients[i] = WiFiClient().                                              *)
Vacated(i) == [clients EXCEPT ![i] = None]

(* One turn of the loop over the table: connected(), then drain.           *)
PruneClient ==
  /\ phase = "prune"
  /\ \/ /\ clients[next] # None => next \in Strays \/ Alive(nina, clients[next])
        /\ UNCHANGED <<nina, clients>>
     \/ /\ clients[next] # None /\ ~Alive(nina, clients[next])
        /\ nina' = Disowned(nina, clients[next])
        /\ clients' = Vacated(next)
  /\ next' = IF next = MaxClients THEN 1 ELSE next + 1
  /\ phase' = IF next = MaxClients THEN "ntrip" ELSE "prune"
  /\ UNCHANGED <<gpio, wifi, sock, serverUp, server, drops, misreads>>
  /\ Forget({})

-----------------------------------------------------------------------------
(* The co-processor's task gpio0Updater (updateGpio0Pin), which shares the *)
(* tables with the commands and takes no lock.                             *)

(* Its scan ends at the first socket that has something, such as a server  *)
(* with a connection taken and not asked for.                              *)
Scanned(n, s) == \A t \in Sockets : t < s /\ t \notin n.free => n.accepted[t] = None

(* hasClient() of a server: takes a connection, or finds none, and then    *)
(* the task goes on to available().                                        *)
GpioHasClient(s) ==
  /\ gpio = None /\ Scanned(nina, s)
  /\ s \notin nina.free /\ nina.tcpServer[s] # None /\ nina.accepted[s] = None
  /\ \/ nina' \in ServerAccept(nina, s) /\ gpio' = None
     \/ Waiting(nina, nina.tcpServer[s]) = {} /\ nina' = nina /\ gpio' = s

(* The descriptors of S are closed, and spawned clients of s no more.      *)
Pruned(n, s) ==
  LET dead == {f \in n.spawned[s] : n.lwip[f] \notin Peers \/ f \in n.hung}
  IN [n EXCEPT !.lwip = [f \in Fds |-> IF f \in dead THEN "closed" ELSE @[f]],
               !.hung = @ \ dead,
               !.spawned[s] = @ \ dead,
               !.knocks = [p \in Phones |-> IF @[p] \in dead THEN None ELSE @[p]]]

(* available() of that server: a connection that has arrived since is kept *)
(* among the spawned ones, where accept() never looks.                     *)
GpioAvailable ==
  /\ gpio # None /\ gpio' = None
  /\ \/ /\ Waiting(nina, nina.tcpServer[gpio]) = {}
        /\ nina' = Pruned(nina, gpio)
     \/ \E p \in Waiting(nina, nina.tcpServer[gpio]) :
          nina' = Pruned([Taken(nina, p) EXCEPT !.spawned[gpio] = @ \cup ({TakenFd(nina)} \ {None})],
                         gpio)

(* connected() of a client.                                                *)
Unnoticed(n, s) == s \notin n.free /\ n.tcpClient[s] # None /\ ~Alive(n, s) /\ Scanned(n, s)

GpioClient(s) ==
  /\ gpio = None /\ Unnoticed(nina, s)
  /\ nina' = Dropped(nina, s) /\ gpio' = None

Gpio == /\ GpioAvailable \/ \E s \in Sockets : GpioHasClient(s) \/ GpioClient(s)
        /\ UNCHANGED rover

-----------------------------------------------------------------------------
(* The network.                                                            *)

Connections(n, p) == {f \in Fds : n.lwip[f] = p}

(* A backlog has room for one (lwip_listen(_socket, 1)).                   *)
PhoneConnects(p) ==
  /\ wifi /\ nina.knocks[p] = None /\ Connections(nina, p) \subseteq nina.hung
  /\ \E f \in Fds : /\ nina.lwip[f] = "listening" /\ Waiting(nina, f) = {}
                    /\ nina' = [nina EXCEPT !.knocks[p] = f]
  /\ UNCHANGED <<gpio, rover>>

(* connected() vouches for a connection as long as bytes are unread, which *)
(* every poll reads: this is when its peer has closed and the last is read.*)
PeerCloses(p) ==
  /\ wifi
  /\ Connections(nina, p) \ nina.hung # {}
  /\ nina' = [nina EXCEPT !.hung = @ \cup Connections(nina, p)]
  /\ UNCHANGED <<gpio, rover>>

(* handleWiFiDisconnect(): every descriptor with a local address is closed,*)
(* under the objects that hold it.                                         *)
CloseConnections(n) ==
  LET open == {f \in Fds : n.lwip[f] \in Peers}
  IN [n EXCEPT !.lwip = [f \in Fds |-> IF f \in open THEN "closed" ELSE @[f]],
               !.hung = {}]

(* The driver calls it on most disconnections, not on a lost address.      *)
WifiDrops ==
  /\ wifi /\ drops < MaxDrops
  /\ wifi' = FALSE /\ drops' = drops + 1
  /\ nina' = CloseConnections(nina) \/ nina' = nina
  /\ UNCHANGED <<gpio, phase, next, sock, serverUp, server, clients, misreads, orphans>>

(* Joining takes seconds, a scan of gpio0Updater a tick.                   *)
WifiJoins ==
  /\ gpio = None /\ \A s \in Sockets : ~Unnoticed(nina, s)
  /\ ~wifi /\ wifi' = TRUE
  /\ UNCHANGED <<nina, gpio, phase, next, sock, serverUp, server, clients, drops, misreads, orphans>>

Superloop == NtripPoll \/ EnsureServer \/ AcceptClients \/ PruneClient

Network == \/ \E p \in Phones : PhoneConnects(p)
           \/ \E p \in Peers : PeerCloses(p)
           \/ WifiDrops \/ WifiJoins

Next == Superloop \/ Gpio \/ Network

Spec == Init /\ [][Next]_vars

-----------------------------------------------------------------------------
Busy == Sockets \ nina.free

(* The rover knows of every socket that is taken, but for the server it    *)
(* replaces after a loss of the link and a newcomer taken for a client it  *)
(* has: each costs one socket, for good (ensureServer, acceptClients).     *)
LeaksAccounted == /\ Busy \subseteq Held \cup orphans
                  /\ Cardinality(orphans) <= drops + misreads

(* "restarts after a drop" (tcp_nmea.cpp).                                 *)
RestartWorks == serverUp => /\ server # None
                            /\ nina.tcpServer[server] # None
                            /\ nina.lwip[nina.tcpServer[server]] = "listening"

(* The server listens from its first begin() on until the link is lost: no *)
(* other user's stop(), and no getClientState() of the accept loop, closes *)
(* its socket or its descriptor, whose numbers they all may reuse.         *)
ListensUntilLost == drops = 0 => RestartWorks

(* Until the link is lost each of the three users has sockets of its own:  *)
(* the server listens, NMEA reaches phones only and requests the caster    *)
(* only (the hazard of two number spaces that are both reused), and no     *)
(* count of bytes is taken for a client's number, which may then be        *)
(* another user's or lie beyond the tables (CommandHandler.cpp:555).       *)
OneUserEach ==
  /\ ListensUntilLost
  /\ drops = 0 =>
       /\ sock # None => sock # server /\ Reached(nina, sock) \subseteq {Caster}
       /\ \A i \in Taking : /\ clients[i] \in Sockets \ {sock, server}
                             /\ Reached(nina, clients[i]) \subseteq Phones
                             /\ \A j \in Taking : clients[i] = clients[j] => i = j

(* Until the link is lost there is at most one connection to the caster,   *)
(* and it is the client's: reconnecting leaves none behind, neither open   *)
(* at the caster (which may admit a user once) nor in a descriptor.        *)
CasterConnectedOnce ==
  drops = 0 => \A f \in Fds : nina.lwip[f] = Caster =>
                 sock # None /\ nina.tcpClient[sock] = f

(* Until the link is lost an open connection belongs to exactly one object *)
(* of the co-processor, so that it is closed once and not leaked; the one  *)
(* to the caster belongs to that of the client.                            *)
Owners(f) == {s \in Busy : nina.tcpClient[s] = f} \cup
             {s \in Busy : nina.accepted[s] = f} \cup
             {s \in Busy : f \in nina.spawned[s]}
DescriptorsOwned ==
  /\ CasterConnectedOnce
  /\ drops = 0 => \A f \in Fds : nina.lwip[f] \in Peers => Cardinality(Owners(f)) = 1

(* Until the link is lost every phone that accept() handed out is in the   *)
(* rover's table, so that it gets its lines and its socket is given back,  *)
(* but for the newcomers taken for a client of the table.                  *)
HandedOut == {s \in Busy : /\ nina.tcpClient[s] # None
                           /\ nina.lwip[nina.tcpClient[s]] \in Phones}
HandedOutListed ==
  drops = 0 => Cardinality(HandedOut \ {clients[i] : i \in Table}) <= misreads

==============================================================================
