---------------------------- MODULE NmeaPipeline ----------------------------
(***************************************************************************)
(* The way of an NMEA sentence through one pass of the superloop: gnssPoll *)
(* completes sentences into an 8-line queue (gnss.cpp), tcpNmeaPoll drains *)
(* that queue to up to three TCP clients and tees every line to the BLE    *)
(* ring (tcp_nmea.cpp), bleNusPoll notifies a few lines to the subscribed  *)
(* central (ble_nus.cpp).                                                  *)
(*                                                                         *)
(* A sentence is its number in order of completion, a TCP connection is a  *)
(* member of Phones.  phase is where the superloop stands; phones and the  *)
(* radio act between any two steps, also in the middle of a drain.         *)
(***************************************************************************)
EXTENDS Integers, Sequences, FiniteSets

CONSTANTS
  Phones,         \* TCP connections that may come and go
  Centrals,       \* BLE centrals
  None,           \* no connection, no central
  QueueLines,     \* kNmeaQueueLines
  RingLines,      \* kQueueLines of the BLE ring
  MaxClients,     \* kMaxClients
  MaxNotify,      \* kMaxNotifyPerPass
  MaxLines        \* bound: sentences the receiver completes

ASSUME ConstantsAssumption ==
  /\ None \notin Phones /\ None \notin Centrals
  /\ QueueLines \in Nat \ {0} /\ RingLines \in Nat \ {0}
  /\ MaxClients \in Nat \ {0} /\ MaxNotify \in Nat \ {0}
  /\ MaxLines \in Nat

VARIABLES
  coex,           \* the build: FEATURE_BLE and accept(), or neither
  bleUp,          \* BLE.begin() succeeded
  phase,          \* where the superloop stands
  made,           \* sentences completed so far
  queue,          \* nmeaQueue
  wifi,           \* WiFi.status() == WL_CONNECTED
  bound,          \* server->begin() ran: the module listens ever after
  clients,        \* the client table
  conn,           \* each TCP connection as its phone knows it
  tcpClients,     \* g_link.tcpClients, and live in tcpNmeaPoll
  ring,           \* the BLE ring
  sent,           \* notifications of this pass
  listener,       \* the central BLE.poll() last found; bleSubscribed iff one
  (* history *)
  passStart,      \* made when this pass of the superloop began
  drained,        \* the last line taken from the queue
  heard,          \* the last line out when each live connection last heard
  bleHeard,       \* the last line the subscribed central received
  subMark         \* made when the present subscription was seen

build == <<coex, bleUp>>
gnss  == <<made, queue>>
tcp   == <<bound, clients, tcpClients>>
ble   == <<ring, sent, listener, bleHeard, subMark>>
vars  == <<build, gnss, tcp, ble, phase, passStart, drained, wifi, conn, heard>>

Phases == {"gnss", "tcp", "drain", "ble", "notify"}
Slots  == 1 .. MaxClients

(* A TCP connection: none, one the module holds but the sketch has not     *)
(* seen, one in the table, one in the table whose phone has left: with     *)
(* bytes it sent still unread, or with none.                               *)
Conns == {"idle", "pending", "live", "left", "gone"}

DataOK ==
  /\ phase \in Phases
  /\ made \in 0 .. MaxLines /\ passStart \in 0 .. made
  /\ queue \in Seq(1 .. made) /\ Len(queue) <= QueueLines
  /\ drained \in 0 .. made
  /\ clients \in [Slots -> Phones \cup {None}]
  /\ conn \in [Phones -> Conns]
  /\ tcpClients \in 0 .. MaxClients
  /\ heard \in [Phones -> 0 .. made]
  /\ ring \in Seq(1 .. made) /\ Len(ring) <= RingLines
  /\ sent \in 0 .. MaxNotify
  /\ listener \in Centrals \cup {None}
  /\ bleHeard \in 0 .. made /\ subMark \in 0 .. made

FlagsOK ==
  /\ coex \in BOOLEAN /\ bleUp \in BOOLEAN
  /\ wifi \in BOOLEAN /\ bound \in BOOLEAN

TypeOK == DataOK /\ FlagsOK

Init ==
  /\ coex \in BOOLEAN /\ bleUp \in BOOLEAN /\ (bleUp => coex)
  /\ phase = "gnss" /\ made = 0 /\ passStart = 0 /\ queue = <<>> /\ drained = 0
  /\ wifi = FALSE /\ bound = FALSE
  /\ clients = [s \in Slots |-> None] /\ tcpClients = 0
  /\ conn = [p \in Phones |-> "idle"] /\ heard = [p \in Phones |-> 0]
  /\ ring = <<>> /\ sent = 0 /\ listener = None
  /\ bleHeard = 0 /\ subMark = 0

EndOfPass == phase' = "gnss" /\ passStart' = made

-----------------------------------------------------------------------------
(* gnss.cpp                                                                *)

FaultOverwrite(q, n) ==
  IF Len(q) < QueueLines THEN Append(q, n) ELSE <<n>> \o Tail(q)
FaultOverrun(q, n) == Append(q, n)

(* feedNmeaByte() at the end of a sentence: a full queue drops it whole.   *)
Enqueue(q, n) == IF Len(q) < QueueLines THEN Append(q, n) ELSE q

FeedLine ==
  /\ phase = "gnss" /\ made < MaxLines
  /\ made' = made + 1
  /\ queue' = Enqueue(queue, made + 1)
  /\ UNCHANGED <<build, tcp, ble, phase, passStart, drained, wifi, conn, heard>>

(* The receiver's bytes of this pass are parsed; ntripPoll() leaves all    *)
(* of this alone.                                                          *)
GnssDone ==
  /\ phase = "gnss"
  /\ phase' = "tcp"
  /\ UNCHANGED <<build, gnss, tcp, ble, passStart, drained, wifi, conn, heard>>

-----------------------------------------------------------------------------
(* tcp_nmea.cpp                                                            *)

(* connected() answers TRUE as long as bytes are unread, phone or no phone. *)
Connected(p) == p # None /\ conn[p] \in {"live", "left"}

FaultNoDedupe(p)  == FALSE
FaultOnlyEmpty(s) == clients[s] = None

(* The connection available() or accept() returned is in the table already.*)
Tracked(p) == \E s \in Slots : clients[s] = p

(* A slot a newcomer may take: empty, or held by a connection that died    *)
(* and has nothing left to read.                                           *)
Usable(s) == ~Connected(clients[s])

(* What the server hands out: accept() a waiting connection if there is    *)
(* one; available() (the shipping stack) a waiting one or one in the table,*)
(* and neither until it has sent something.                                *)
Waiting  == {p \in Phones : conn[p] = "pending"}
Incoming ==
  IF coex THEN IF Waiting = {} THEN {None} ELSE Waiting
          ELSE {None} \cup Waiting \cup {p \in Phones : Connected(p)}

(* acceptClients() with the connection p the server handed out (None: no   *)
(* client): the table it leaves.  A newcomer takes the first usable slot;  *)
(* with none it is stopped.                                                *)
Admit(p, table) ==
  \/ /\ p = None \/ Tracked(p)
     /\ table = clients
  \/ /\ p # None /\ ~Tracked(p)
     /\ \/ \E s \in Slots :
             /\ Usable(s) /\ \A t \in 1 .. s - 1 : ~Usable(t)
             /\ table = [clients EXCEPT ![s] = p]
        \/ /\ \A s \in Slots : ~Usable(s)
           /\ table = clients

FaultCountBefore == Cardinality({s \in Slots : Connected(clients[s])})

(* live: the clients left in the table after acceptance and pruning.       *)
LiveCount == Cardinality({s \in Slots : clients'[s] # None})

(* acceptClients(), then the loop that drops the dead, reads away what the *)
(* others sent and counts them.                                            *)
AcceptAndPrune ==
  \E p \in Incoming, table \in [Slots -> Phones \cup {None}] :
    /\ Admit(p, table)
    /\ conn' = [q \in Phones |->
         CASE conn[q] = "gone" -> "idle"
           [] conn[q] = "left" -> "gone"
           [] conn[q] = "pending" /\ q = p ->
                IF \E s \in Slots : table[s] = p THEN "live" ELSE "idle"
           [] OTHER -> conn[q]]
    /\ clients' = [s \in Slots |->
         IF table[s] # None /\ conn[table[s]] # "gone" THEN table[s] ELSE None]
    /\ heard' = [q \in Phones |->
         IF conn'[q] # "live" THEN 0 ELSE IF conn[q] = "live" THEN heard[q] ELSE drained]
    /\ tcpClients' = LiveCount

FaultSkipDrain == "ble"

(* With the server down the coexistence build drains all the same; the     *)
(* shipping build returns.                                                 *)
PhaseWhenDown == IF coex THEN "drain" ELSE "gnss"

(* tcpNmeaPoll() up to the drain: ensureServer(), then the clients.        *)
TcpPoll ==
  /\ phase = "tcp"
  /\ bound' = (bound \/ wifi)
  /\ IF wifi
       THEN /\ AcceptAndPrune
            /\ phase' = "drain"
            /\ UNCHANGED passStart
       ELSE /\ tcpClients' = 0
            /\ phase' = PhaseWhenDown
            /\ passStart' = IF coex THEN passStart ELSE made
            /\ UNCHANGED <<clients, conn, heard>>
  /\ UNCHANGED <<build, gnss, ble, drained, wifi>>

(* The loop over the clients for one line.                                 *)
Broadcast(n) ==
  heard' = [p \in Phones |->
    IF tcpClients > 0 /\ Connected(p) /\ \E s \in Slots : clients[s] = p
    THEN n ELSE heard[p]]

FaultQueueForNobody(n) ==
  IF ~bleUp THEN ring
  ELSE Append(IF Len(ring) = RingLines THEN Tail(ring) ELSE ring, n)

(* bleNusOnNmeaLine(): nothing for nobody, the oldest line makes room.     *)
Tee(n) ==
  IF ~bleUp \/ listener = None THEN ring
  ELSE Append(IF Len(ring) = RingLines THEN Tail(ring) ELSE ring, n)

(* One turn of the drain loop.  A line too long for a notification skips   *)
(* the ring whole.                                                         *)
DrainLine ==
  /\ phase = "drain" /\ queue # <<>>
  /\ queue' = Tail(queue)
  /\ drained' = Head(queue)
  /\ \E fits \in BOOLEAN : ring' = IF fits THEN Tee(Head(queue)) ELSE ring
  /\ Broadcast(Head(queue))
  /\ UNCHANGED <<build, made, tcp, phase, passStart, wifi, conn, sent, listener,
                 bleHeard, subMark>>

DrainDone ==
  /\ phase = "drain" /\ queue = <<>>
  /\ IF bleUp THEN phase' = "ble" /\ UNCHANGED passStart ELSE EndOfPass
  /\ UNCHANGED <<build, gnss, tcp, ble, drained, wifi, conn, heard>>

-----------------------------------------------------------------------------
(* ble_nus.cpp                                                             *)

FaultNoFlush == ring

(* qTail = qHead, qCount = 0.                                              *)
Flushed == <<>>

(* bleNusPoll() up to the sends.  The subscription is a write this host    *)
(* answers, so one BLE.poll() sees a central come, or go, or neither.      *)
BlePoll ==
  /\ phase = "ble"
  /\ listener' \in IF listener = None THEN Centrals \cup {None}
                                      ELSE {listener, None}
  /\ IF listener' = None
       THEN ring' = Flushed /\ EndOfPass
       ELSE UNCHANGED <<ring, passStart>> /\ phase' = "notify"
  /\ sent' = 0
  /\ IF listener' = listener
       THEN UNCHANGED <<bleHeard, subMark>>
       ELSE bleHeard' = 0 /\ subMark' = made
  /\ UNCHANGED <<build, gnss, tcp, drained, wifi, conn, heard>>

(* One nusTx.writeValue(), its result ignored: a central that is out of    *)
(* range, or gone since BLE.poll(), hears nothing.                         *)
Notify ==
  /\ phase = "notify" /\ ring # <<>> /\ sent < MaxNotify
  /\ ring' = Tail(ring)
  /\ sent' = sent + 1
  /\ bleHeard' \in {bleHeard, Head(ring)}
  /\ UNCHANGED <<build, gnss, tcp, phase, passStart, drained, wifi, conn, heard,
                 listener, subMark>>

NotifyDone ==
  /\ phase = "notify" /\ (ring = <<>> \/ sent = MaxNotify)
  /\ EndOfPass
  /\ UNCHANGED <<build, gnss, tcp, ble, drained, wifi, conn, heard>>

Superloop == FeedLine \/ GnssDone \/ TcpPoll \/ DrainLine \/ DrainDone
               \/ BlePoll \/ Notify \/ NotifyDone

-----------------------------------------------------------------------------
(* Phones and the radio.                                                   *)

(* The module completes the handshake by itself once it listens.           *)
PhoneConnects ==
  /\ bound /\ wifi
  /\ \E p \in Phones :
       /\ conn[p] = "idle"
       /\ conn' = [conn EXCEPT ![p] = "pending"]
  /\ UNCHANGED <<build, gnss, tcp, ble, phase, passStart, drained, wifi, heard>>

(* What a connection may become when its phone, or the link, goes.  Before *)
(* acceptance it counts as never made: accepted after its end it would be  *)
(* dropped, or read to its end, in the very pass that accepts it.          *)
Ended(c) == CASE c = "pending" -> {"idle"}
              [] c = "live"    -> {"left", "gone"}
              [] OTHER         -> {c}

PhoneLeaves ==
  /\ \E p \in Phones :
       /\ conn[p] \in {"pending", "live"}
       /\ \E c \in Ended(conn[p]) : conn' = [conn EXCEPT ![p] = c]
  /\ UNCHANGED <<build, gnss, tcp, ble, phase, passStart, drained, wifi, heard>>

WifiUp ==
  /\ ~wifi
  /\ wifi' = TRUE
  /\ UNCHANGED <<build, gnss, tcp, ble, phase, passStart, drained, conn, heard>>

WifiDown ==
  /\ wifi
  /\ wifi' = FALSE
  /\ conn' \in [Phones -> Conns] /\ \A p \in Phones : conn'[p] \in Ended(conn[p])
  /\ UNCHANGED <<build, gnss, tcp, ble, phase, passStart, drained, heard>>

World == PhoneConnects \/ PhoneLeaves \/ WifiUp \/ WifiDown

Next == Superloop \/ World

Spec == Init /\ [][Next]_vars

-----------------------------------------------------------------------------
(* Properties.                                                             *)

(* A line reaches listeners in the order the receiver completed it, never  *)
(* twice: through both bounded buffers, whichever end each one drops at.   *)
InOrder ==
  [][/\ drained' # drained => drained' > drained
     /\ listener' = listener /\ bleHeard' # bleHeard => bleHeard' > bleHeard]_vars

(* A phone in the table misses no line that leaves the queue, from the     *)
(* drain right after its acceptance on, whoever else comes, is refused,    *)
(* dies, or leaves a dead slot behind meanwhile.                           *)
NoLineMissed == \A p \in Phones : conn[p] = "live" => heard[p] = drained

(* A live connection holds exactly one slot: none is overwritten by a      *)
(* newcomer, and none is entered again when available() returns it for     *)
(* the bytes it sent (it would then get every line twice).                 *)
OneSlotEach ==
  \A p \in Phones :
    conn[p] = "live" => Cardinality({s \in Slots : clients[s] = p}) = 1

(* A phone is turned away only when kMaxClients connections answer         *)
(* connected(); one of them whose phone has left (tcp_nmea.cpp:67 asks     *)
(* before its last bytes are read at :109) does so at most once, since the *)
(* pass that turns the newcomer away also reads it empty.  A connection    *)
(* that died with nothing to read keeps nobody out.                        *)
RefusedOnlyWhenFull ==
  [][\A p \in Phones :
       phase = "tcp" /\ phase' = "drain" /\ conn[p] = "pending" /\ conn'[p] = "idle" =>
         /\ Cardinality({q \in Phones : conn[q] \in {"live", "left"}}) = MaxClients
         /\ \A q \in Phones : conn[q] = "left" => conn'[q] = "gone"]_vars

(* "No stale backlog greets the next subscriber": whatever a central hears *)
(* was completed after its subscription was seen, also when WiFi was down  *)
(* when it came, or an earlier central left a full ring behind.            *)
NoGreetingBacklog == bleHeard # 0 => bleHeard > subMark

(* The coexistence build drains the queue in every pass, WiFi or not, so a *)
(* line leaves it in the pass that completed it, and a phone that connects *)
(* late gets no old position.                                              *)
FreshWhenDrained == [][coex /\ drained' # drained => drained' > passStart]_vars
=============================================================================
