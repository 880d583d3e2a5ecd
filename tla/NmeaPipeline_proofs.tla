------------------------ MODULE NmeaPipeline_proofs ------------------------
(***************************************************************************)
(* Proofs about NmeaPipeline, for every number of phones, centrals, slots  *)
(* and lines, and every size of the two buffers.                           *)
(***************************************************************************)
EXTENDS NmeaPipeline, FiniteSetTheorems, FunctionTheorems, SequenceTheorems, TLAPS

(* The lines of s come in the order they were completed.                   *)
Sorted(s)   == \A i, j \in 1 .. Len(s) : i < j => s[i] < s[j]
Above(s, n) == \A i \in 1 .. Len(s) : s[i] > n
UpTo(s, n)  == \A i \in 1 .. Len(s) : s[i] <= n

-----------------------------------------------------------------------------
(* Lemmas about sequences and buffers.                                     *)

(***************************************************************************)
(* A sequence over a set is one over every larger set.                     *)
(***************************************************************************)
LEMMA SeqWiden ==
  ASSUME NEW S, NEW T, S \subseteq T, NEW s \in Seq(S)
  PROVE  s \in Seq(T)
<1>1. s \in [1 .. Len(s) -> T] /\ Len(s) \in Nat
  OBVIOUS
<1>2. QED
  BY <1>1

(***************************************************************************)
(* What the head and the tail of a buffer say about its lines.             *)
(***************************************************************************)
LEMMA TailKeeps ==
  ASSUME NEW s \in Seq(Nat), s # <<>>, NEW m \in Nat
  PROVE  /\ Head(s) \in Nat /\ Tail(s) \in Seq(Nat) /\ Len(Tail(s)) = Len(s) - 1
         /\ Sorted(s) => Sorted(Tail(s)) /\ Above(Tail(s), Head(s))
         /\ Above(s, m) => Above(Tail(s), m) /\ Head(s) > m
         /\ UpTo(s, m) => UpTo(Tail(s), m) /\ Head(s) <= m
<1>1. /\ Head(s) = s[1] /\ 1 \in 1 .. Len(s) /\ Head(s) \in Nat
      /\ Tail(s) \in Seq(Nat) /\ Len(Tail(s)) = Len(s) - 1
      /\ \A i \in 1 .. Len(s) - 1 : Tail(s)[i] = s[i + 1] /\ i + 1 \in 1 .. Len(s)
  OBVIOUS
<1>2. Sorted(s) => Sorted(Tail(s)) /\ Above(Tail(s), Head(s))
  BY <1>1 DEF Sorted, Above
<1>3. Above(s, m) => Above(Tail(s), m) /\ Head(s) > m
  BY <1>1 DEF Above
<1>4. UpTo(s, m) => UpTo(Tail(s), m) /\ Head(s) <= m
  BY <1>1 DEF UpTo
<1>5. QED
  BY <1>1, <1>2, <1>3, <1>4

(***************************************************************************)
(* A newer line at the end keeps a buffer in order.                        *)
(***************************************************************************)
LEMMA AppendKeeps ==
  ASSUME NEW s \in Seq(Nat), NEW n \in Nat, NEW m \in Nat
  PROVE  /\ Append(s, n) \in Seq(Nat)
         /\ Sorted(s) /\ (\A i \in 1 .. Len(s) : s[i] < n) => Sorted(Append(s, n))
         /\ Above(s, m) /\ n > m => Above(Append(s, n), m)
         /\ UpTo(s, m) /\ n <= m => UpTo(Append(s, n), m)
<1>1. /\ Append(s, n) \in Seq(Nat) /\ Len(Append(s, n)) = Len(s) + 1
      /\ \A i \in 1 .. Len(s) : Append(s, n)[i] = s[i]
      /\ Append(s, n)[Len(s) + 1] = n /\ Len(s) \in Nat
  OBVIOUS
<1>2. Sorted(s) /\ (\A i \in 1 .. Len(s) : s[i] < n) => Sorted(Append(s, n))
  BY <1>1 DEF Sorted
<1>3. Above(s, m) /\ n > m => Above(Append(s, n), m)
  BY <1>1 DEF Above
<1>4. UpTo(s, m) /\ n <= m => UpTo(Append(s, n), m)
  BY <1>1 DEF UpTo
<1>5. QED
  BY <1>1, <1>2, <1>3, <1>4

(***************************************************************************)
(* The empty buffer, and a buffer with one element more.                   *)
(***************************************************************************)
LEMMA EmptyTyped ==
  ASSUME NEW S
  PROVE  <<>> \in Seq(S) /\ Len(<<>>) = 0
  OBVIOUS

(***************************************************************************)
(* A buffer with one element more.                                         *)
(***************************************************************************)
LEMMA AppendTyped ==
  ASSUME NEW S, NEW s \in Seq(S), NEW e \in S
  PROVE  Append(s, e) \in Seq(S) /\ Len(Append(s, e)) = Len(s) + 1
  OBVIOUS

(***************************************************************************)
(* A full queue drops the new line; the queue never exceeds its size.      *)
(***************************************************************************)
LEMMA EnqueueTyped ==
  ASSUME NEW k \in Nat, NEW q \in Seq(1 .. k), Len(q) <= QueueLines
  PROVE  Enqueue(q, k + 1) \in Seq(1 .. k + 1) /\ Len(Enqueue(q, k + 1)) <= QueueLines
<1>1. q \in Seq(1 .. k + 1)
  BY SeqWiden, 1 .. k \subseteq 1 .. k + 1
<1>2. Append(q, k + 1) \in Seq(1 .. k + 1) /\ Len(Append(q, k + 1)) = Len(q) + 1
  BY <1>1, k + 1 \in 1 .. k + 1, AppendTyped
<1>3. Len(q) \in Nat /\ QueueLines \in Nat
  BY ConstantsAssumption
<1>4. CASE Len(q) < QueueLines
  BY <1>2, <1>3, <1>4 DEF Enqueue
<1>5. CASE ~(Len(q) < QueueLines)
  <2>1. Enqueue(q, k + 1) = q
    BY <1>5 DEF Enqueue
  <2>2. QED
    BY <1>1, <2>1, Zenon
<1>6. QED
  BY <1>4, <1>5

(***************************************************************************)
(* The BLE ring drops its oldest line and never exceeds its size.          *)
(***************************************************************************)
LEMMA TeeTyped ==
  ASSUME NEW k \in Nat, ring \in Seq(1 .. k), Len(ring) <= RingLines, NEW n \in 1 .. k
  PROVE  Tee(n) \in Seq(1 .. k) /\ Len(Tee(n)) <= RingLines
<1>1. Len(ring) \in Nat /\ RingLines \in Nat \ {0}
  BY ConstantsAssumption
<1>2. CASE ~bleUp \/ listener = None
  BY <1>2, Zenon DEF Tee
<1>3. CASE ~(~bleUp \/ listener = None) /\ Len(ring) = RingLines
  <2>1. Tee(n) = Append(Tail(ring), n)
    BY <1>3, Zenon DEF Tee
  <2>2. Tail(ring) \in Seq(1 .. k) /\ Len(Tail(ring)) = Len(ring) - 1
    BY <1>1, <1>3
  <2>3. QED
    BY <1>1, <2>1, <2>2, AppendTyped
<1>4. CASE ~(~bleUp \/ listener = None) /\ Len(ring) # RingLines
  <2>1. Tee(n) = Append(ring, n)
    BY <1>4, Zenon DEF Tee
  <2>2. QED
    BY <1>1, <1>4, <2>1, AppendTyped
<1>5. QED
  BY <1>2, <1>3, <1>4

(***************************************************************************)
(* Subsets of the slots are finite, and no larger than the table.          *)
(***************************************************************************)
LEMMA SlotsCount ==
  ASSUME NEW S, S \subseteq Slots
  PROVE  /\ IsFiniteSet(S) /\ Cardinality(S) \in 0 .. MaxClients
         /\ Cardinality(S) = 0 => S = {}
<1>1. IsFiniteSet(Slots) /\ Cardinality(Slots) = MaxClients
  BY FS_Interval, ConstantsAssumption DEF Slots
<1>2. IsFiniteSet(S) /\ Cardinality(S) <= MaxClients /\ Cardinality(S) \in Nat
  BY <1>1, FS_Subset, FS_CardinalityType
<1>3. QED
  BY <1>2, FS_EmptySet, ConstantsAssumption

-----------------------------------------------------------------------------
(* Type correctness.                                                       *)

(***************************************************************************)
(* The initial state is well typed.                                        *)
(***************************************************************************)
LEMMA InitTyped == Init => TypeOK
<1> SUFFICES ASSUME Init PROVE TypeOK
  OBVIOUS
<1>1. DataOK
  BY ConstantsAssumption DEF Init, DataOK, Phases, Conns
<1>2. FlagsOK
  BY Zenon DEF Init, FlagsOK
<1>3. QED
  BY <1>1, <1>2 DEF TypeOK

(***************************************************************************)
(* A sentence completed raises the bound of every line number.             *)
(***************************************************************************)
LEMMA FeedKeepsData == DataOK /\ FeedLine => DataOK'
<1> SUFFICES ASSUME DataOK, FeedLine PROVE DataOK'
  OBVIOUS
<1> USE DEF DataOK
<1>1. made' = made + 1 /\ made' \in 0 .. MaxLines /\ made \in Nat
  BY ConstantsAssumption DEF FeedLine
<1>2. 1 .. made \subseteq 1 .. made' /\ 0 .. made \subseteq 0 .. made'
  BY <1>1
<1>3. queue' \in Seq(1 .. made') /\ Len(queue') <= QueueLines
  BY <1>1, EnqueueTyped DEF FeedLine
<1>4. ring \in Seq(1 .. made')
  BY <1>2, SeqWiden
<1>5. heard \in [Phones -> 0 .. made']
  BY <1>2
<1>6. UNCHANGED <<phase, passStart, drained, tcp, conn, heard, ble>>
  BY DEF FeedLine
<1>7. QED
  BY <1>1, <1>2, <1>3, <1>4, <1>5, <1>6 DEF tcp, ble

(***************************************************************************)
(* The client count is that of a set of slots.                             *)
(***************************************************************************)
LEMMA TcpKeepsData == DataOK /\ TcpPoll => DataOK'
<1> SUFFICES ASSUME DataOK, TcpPoll PROVE DataOK'
  OBVIOUS
<1> USE DEF DataOK
<1>1. UNCHANGED <<made, queue, drained, ring, sent, listener, bleHeard, subMark>>
  BY DEF TcpPoll, gnss, ble
<1>2. phase' \in Phases /\ passStart' \in 0 .. made
  BY DEF TcpPoll, PhaseWhenDown, Phases
<1>3. CASE wifi
  <2>1. PICK p \in Incoming, table \in [Slots -> Phones \cup {None}] :
          /\ conn' = [q \in Phones |->
               CASE conn[q] = "gone" -> "idle"
                 [] conn[q] = "left" -> "gone"
                 [] conn[q] = "pending" /\ q = p ->
                      IF \E s \in Slots : table[s] = p THEN "live" ELSE "idle"
                 [] OTHER -> conn[q]]
          /\ clients' = [s \in Slots |->
               IF table[s] # None /\ conn[table[s]] # "gone" THEN table[s] ELSE None]
          /\ heard' = [q \in Phones |->
               IF conn'[q] # "live" THEN 0 ELSE IF conn[q] = "live" THEN heard[q] ELSE drained]
          /\ tcpClients' = LiveCount
    BY <1>3 DEF TcpPoll, AcceptAndPrune
  <2>2. conn' \in [Phones -> Conns]
    BY <2>1 DEF Conns
  <2>3. clients' \in [Slots -> Phones \cup {None}]
    BY <2>1
  <2>4. heard' \in [Phones -> 0 .. made]
    BY <2>1
  <2>5. tcpClients' \in 0 .. MaxClients
    BY <2>1, SlotsCount, {s \in Slots : clients'[s] # None} \subseteq Slots DEF LiveCount
  <2>6. QED
    BY <1>1, <1>2, <2>2, <2>3, <2>4, <2>5
<1>4. CASE ~wifi
  BY <1>1, <1>2, <1>4, ConstantsAssumption DEF TcpPoll
<1>5. QED
  BY <1>3, <1>4

(***************************************************************************)
(* A line moves from the queue to the ring.                                *)
(***************************************************************************)
LEMMA DrainKeepsData == DataOK /\ DrainLine => DataOK'
<1> SUFFICES ASSUME DataOK, DrainLine PROVE DataOK'
  OBVIOUS
<1> USE DEF DataOK
<1>1. made \in Nat /\ Head(queue) \in 1 .. made /\ Tail(queue) \in Seq(1 .. made)
      /\ Len(Tail(queue)) <= QueueLines
  BY ConstantsAssumption DEF DrainLine
<1>2. queue' = Tail(queue) /\ drained' = Head(queue)
  BY DEF DrainLine
<1>3. ring' \in Seq(1 .. made) /\ Len(ring') <= RingLines
  <2>1. ring' = Tee(Head(queue)) \/ ring' = ring
    BY Zenon DEF DrainLine
  <2>2. Tee(Head(queue)) \in Seq(1 .. made) /\ Len(Tee(Head(queue))) <= RingLines
    BY <1>1, TeeTyped
  <2>3. QED
    BY <2>1, <2>2, Zenon
<1>4. heard' \in [Phones -> 0 .. made]
  BY <1>1 DEF DrainLine, Broadcast
<1>5. UNCHANGED <<made, tcp, phase, passStart, conn, sent, listener, bleHeard, subMark>>
  BY DEF DrainLine
<1>6. QED
  BY <1>1, <1>2, <1>3, <1>4, <1>5 DEF tcp

(***************************************************************************)
(* A subscription seen, or lost, empties the ring or leaves it.            *)
(***************************************************************************)
LEMMA BleKeepsData == DataOK /\ BlePoll => DataOK'
<1> SUFFICES ASSUME DataOK, BlePoll PROVE DataOK'
  OBVIOUS
<1> USE DEF DataOK
<1>1. UNCHANGED <<made, queue, drained, clients, tcpClients, conn, heard>>
  BY DEF BlePoll, gnss, tcp
<1>2. listener' \in Centrals \cup {None} /\ sent' \in 0 .. MaxNotify
  BY ConstantsAssumption DEF BlePoll
<1>3. phase' \in Phases /\ passStart' \in 0 .. made
  BY DEF BlePoll, EndOfPass, Phases
<1>4. ring' \in Seq(1 .. made) /\ Len(ring') <= RingLines
  <2>1. ring' = <<>> \/ ring' = ring
    BY Zenon DEF BlePoll, Flushed
  <2>2. CASE ring' = <<>>
    BY <2>2, EmptyTyped, ConstantsAssumption
  <2>3. QED
    BY <2>1, <2>2, Zenon
<1>5. bleHeard' \in 0 .. made /\ subMark' \in 0 .. made
  BY DEF BlePoll
<1>6. QED
  BY <1>1, <1>2, <1>3, <1>4, <1>5

(***************************************************************************)
(* A line leaves the ring.                                                 *)
(***************************************************************************)
LEMMA NotifyKeepsData == DataOK /\ Notify => DataOK'
<1> SUFFICES ASSUME DataOK, Notify PROVE DataOK'
  OBVIOUS
<1> USE DEF DataOK
<1>1. Head(ring) \in 1 .. made /\ Tail(ring) \in Seq(1 .. made)
      /\ Len(Tail(ring)) <= RingLines
  BY ConstantsAssumption DEF Notify
<1>2. sent' \in 0 .. MaxNotify
  BY ConstantsAssumption DEF Notify
<1>3. UNCHANGED <<made, queue, tcp, phase, passStart, drained, conn, heard, listener,
                  subMark>>
  BY DEF Notify, gnss
<1>4. QED
  BY <1>1, <1>2, <1>3 DEF Notify, tcp

(***************************************************************************)
(* Phones and the radio move connections from one kind to another.         *)
(***************************************************************************)
LEMMA WorldKeepsData == DataOK /\ World => DataOK'
<1> SUFFICES ASSUME DataOK, World PROVE DataOK'
  OBVIOUS
<1> USE DEF DataOK
<1>1. UNCHANGED <<gnss, tcp, ble, phase, passStart, drained, heard>>
  BY DEF World, PhoneConnects, PhoneLeaves, WifiUp, WifiDown
<1>2. conn' \in [Phones -> Conns]
  BY DEF World, PhoneConnects, PhoneLeaves, WifiUp, WifiDown, Ended, Conns
<1>3. QED
  BY <1>1, <1>2 DEF gnss, tcp, ble

(***************************************************************************)
(* Every step keeps numbers, sets and buffers in range.                    *)
(***************************************************************************)
LEMMA DataStep == DataOK /\ [Next]_vars => DataOK'
<1> SUFFICES ASSUME DataOK, [Next]_vars PROVE DataOK'
  OBVIOUS
<1>1. CASE GnssDone
  BY <1>1 DEF GnssDone, DataOK, gnss, tcp, ble, Phases
<1>2. CASE DrainDone
  BY <1>2 DEF DrainDone, EndOfPass, DataOK, gnss, tcp, ble, Phases
<1>3. CASE NotifyDone
  BY <1>3 DEF NotifyDone, EndOfPass, DataOK, gnss, tcp, ble, Phases
<1>4. CASE UNCHANGED vars
  BY <1>4 DEF vars, DataOK, gnss, tcp, ble
<1>5. QED
  BY <1>1, <1>2, <1>3, <1>4, FeedKeepsData, TcpKeepsData, DrainKeepsData,
     BleKeepsData, NotifyKeepsData, WorldKeepsData DEF Next, Superloop

(***************************************************************************)
(* Every step keeps the flags Boolean.                                     *)
(***************************************************************************)
LEMMA FlagsStep == FlagsOK /\ [Next]_vars => FlagsOK'
<1> SUFFICES ASSUME FlagsOK, [Next]_vars PROVE FlagsOK'
  OBVIOUS
<1>1. UNCHANGED <<coex, bleUp>>
  BY DEF Next, Superloop, World, vars, build, FeedLine, GnssDone, TcpPoll, DrainLine,
         DrainDone, BlePoll, Notify, NotifyDone, PhoneConnects, PhoneLeaves, WifiUp,
         WifiDown
<1>2. wifi' \in BOOLEAN
  BY Zenon DEF FlagsOK, Next, Superloop, World, vars, FeedLine, GnssDone, TcpPoll,
         DrainLine, DrainDone, BlePoll, Notify, NotifyDone, PhoneConnects, PhoneLeaves,
         WifiUp, WifiDown
<1>3. bound' \in BOOLEAN
  <2>1. CASE TcpPoll
    BY <2>1, Zenon DEF TcpPoll
  <2>2. CASE UNCHANGED tcp
    BY <2>2 DEF tcp, FlagsOK
  <2>3. QED
    BY <2>1, <2>2 DEF Next, Superloop, World, vars, FeedLine, GnssDone, DrainLine,
       DrainDone, BlePoll, Notify, NotifyDone, PhoneConnects, PhoneLeaves, WifiUp, WifiDown
<1>4. QED
  BY <1>1, <1>2, <1>3 DEF FlagsOK

(***************************************************************************)
(* Every variable keeps its type: no buffer outgrows its array, the client *)
(* count stays within the table.                                           *)
(***************************************************************************)
THEOREM TypeCorrect == Spec => []TypeOK
<1>1. TypeOK /\ [Next]_vars => TypeOK'
  BY DataStep, FlagsStep DEF TypeOK
<1>2. QED
  BY <1>1, InitTyped, PTL DEF Spec

-----------------------------------------------------------------------------
(* The queue and the ring.                                                 *)

(* The queue holds, in order, lines newer than every line taken from it,   *)
(* than the subscription, and in the coexistence build than this pass.     *)
QueueInv ==
  /\ Sorted(queue) /\ Above(queue, drained) /\ Above(queue, subMark)
  /\ coex => Above(queue, passStart)
  /\ phase \in {"ble", "notify"} => queue = <<>>

(* The ring holds, in order, lines taken from the queue that the central   *)
(* has not heard and that were completed after its subscription.           *)
RingInv ==
  /\ Sorted(ring) /\ UpTo(ring, drained) /\ Above(ring, bleHeard)
  /\ Above(ring, subMark) /\ bleHeard <= drained
  /\ listener = None => ring = <<>>
  /\ NoGreetingBacklog

BufferInv == QueueInv /\ RingInv

(***************************************************************************)
(* Buffers over 1 .. made are buffers of numbers, and end at made.         *)
(***************************************************************************)
LEMMA Numbers ==
  ASSUME DataOK
  PROVE  /\ queue \in Seq(Nat) /\ ring \in Seq(Nat)
         /\ \A i \in 1 .. Len(queue) : queue[i] < made + 1
         /\ made \in Nat /\ drained \in Nat /\ bleHeard \in Nat
         /\ subMark \in Nat /\ passStart \in Nat
         /\ subMark < made + 1 /\ passStart < made + 1 /\ drained < made + 1
<1>1. 1 .. made \subseteq Nat /\ made \in Nat
  BY DEF DataOK
<1>2. queue \in Seq(Nat) /\ ring \in Seq(Nat)
  BY <1>1, SeqWiden DEF DataOK
<1>3. \A i \in 1 .. Len(queue) : queue[i] < made + 1
  BY <1>1 DEF DataOK
<1>4. QED
  BY <1>1, <1>2, <1>3 DEF DataOK

(***************************************************************************)
(* An empty buffer is in order and within any bound.                       *)
(***************************************************************************)
LEMMA EmptyFits ==
  ASSUME NEW s, s = <<>>, NEW m
  PROVE  Sorted(s) /\ Above(s, m) /\ UpTo(s, m)
  BY DEF Sorted, Above, UpTo

(***************************************************************************)
(* The buffers start empty.                                                *)
(***************************************************************************)
LEMMA InitBuffers == Init => BufferInv
<1> SUFFICES ASSUME Init PROVE BufferInv
  OBVIOUS
<1>1. queue = <<>> /\ ring = <<>> /\ bleHeard = 0 /\ drained = 0
  BY DEF Init
<1>2. QED
  BY <1>1, EmptyFits DEF BufferInv, QueueInv, RingInv, NoGreetingBacklog

(***************************************************************************)
(* A sentence completed: it is newer than everything, or dropped.          *)
(***************************************************************************)
LEMMA FeedKeepsBuffers == DataOK /\ BufferInv /\ FeedLine => BufferInv'
<1> SUFFICES ASSUME DataOK, BufferInv, FeedLine PROVE BufferInv'
  OBVIOUS
<1>1. UNCHANGED <<coex, phase, passStart, drained, ring, listener, bleHeard, subMark>>
  BY DEF FeedLine, build, ble
<1>2. queue' = queue \/ queue' = Append(queue, made + 1)
  BY DEF FeedLine, Enqueue
<1>3. phase \notin {"ble", "notify"}
  BY DEF FeedLine
<1> DEFINE longer == Append(queue, made + 1)
<1>4. \A m \in Nat : Above(queue, m) /\ m < made + 1 => Above(queue', m)
  <2>1. made + 1 \in Nat /\ queue \in Seq(Nat)
    BY Numbers
  <2>2. ASSUME NEW m \in Nat, Above(queue, m), m < made + 1
        PROVE  Above(longer, m)
    BY <2>1, <2>2, AppendKeeps
  <2>3. QED
    BY <1>2, <2>2
<1>5. Sorted(queue')
  <2>1. made + 1 \in Nat /\ queue \in Seq(Nat)
        /\ \A i \in 1 .. Len(queue) : queue[i] < made + 1
    BY Numbers
  <2>2. Sorted(queue)
    BY DEF BufferInv, QueueInv
  <2>3. Sorted(longer)
    BY <2>1, <2>2, AppendKeeps
  <2>4. QED
    BY <1>2, <2>2, <2>3
<1>6. QueueInv'
  BY <1>1, <1>3, <1>4, <1>5, Numbers DEF BufferInv, QueueInv
<1>7. RingInv'
  BY <1>1 DEF BufferInv, RingInv, NoGreetingBacklog
<1>8. QED
  BY <1>6, <1>7 DEF BufferInv

(***************************************************************************)
(* A line taken: newer than the ring's, it goes to the end of the ring.    *)
(***************************************************************************)
LEMMA DrainKeepsBuffers == DataOK /\ BufferInv /\ DrainLine => BufferInv'
<1> SUFFICES ASSUME DataOK, BufferInv, DrainLine PROVE BufferInv'
  OBVIOUS
<1>1. UNCHANGED <<coex, phase, passStart, listener, bleHeard, subMark>>
  BY DEF DrainLine, build
<1>2. queue # <<>> /\ queue' = Tail(queue) /\ drained' = Head(queue) /\ phase = "drain"
  BY DEF DrainLine
<1> DEFINE n == Head(queue)
<1>3. /\ n \in Nat /\ n > drained /\ n > subMark
      /\ Sorted(queue') /\ Above(queue', n) /\ Above(queue', subMark)
      /\ coex => Above(queue', passStart)
  BY <1>2, Numbers, TailKeeps DEF BufferInv, QueueInv
<1>4. QueueInv'
  BY <1>1, <1>2, <1>3 DEF QueueInv
<1>5. /\ Sorted(ring) /\ UpTo(ring, drained) /\ Above(ring, bleHeard)
      /\ Above(ring, subMark) /\ bleHeard <= drained
      /\ ring \in Seq(Nat) /\ drained \in Nat /\ bleHeard \in Nat /\ subMark \in Nat
  BY Numbers DEF BufferInv, RingInv
<1> DEFINE Fits(s) == /\ s \in Seq(Nat) /\ Sorted(s) /\ UpTo(s, drained)
                      /\ Above(s, bleHeard) /\ Above(s, subMark)
           Good(s) == /\ Sorted(s) /\ UpTo(s, n) /\ Above(s, bleHeard)
                      /\ Above(s, subMark)
<1>6. ASSUME NEW s, Fits(s) PROVE Good(s) /\ Good(Append(s, n))
  <2>1. \A i \in 1 .. Len(s) : s[i] \in Nat /\ s[i] < n
    BY <1>3, <1>5, <1>6 DEF UpTo
  <2>2. UpTo(s, n)
    BY <1>3, <2>1 DEF UpTo
  <2>3. Good(s)
    BY <1>6, <2>2
  <2>4. n > bleHeard
    BY <1>3, <1>5
  <2>5. Good(Append(s, n))
    <3>1. s \in Seq(Nat) /\ n \in Nat /\ bleHeard \in Nat /\ subMark \in Nat /\ n > subMark
      BY <1>3, <1>5, <1>6
    <3>2. Sorted(Append(s, n))
      BY <1>6, <2>1, <3>1, AppendKeeps
    <3>3. UpTo(Append(s, n), n)
      BY <2>2, <3>1, AppendKeeps
    <3>4. Above(Append(s, n), bleHeard)
      BY <1>6, <2>4, <3>1, AppendKeeps
    <3>5. Above(Append(s, n), subMark)
      BY <1>6, <3>1, AppendKeeps
    <3>6. QED
      BY <3>2, <3>3, <3>4, <3>5
  <2>6. QED
    BY <2>3, <2>5
<1>7. Fits(ring)
  BY <1>5
<1>8. ring # <<>> => Fits(Tail(ring))
  BY <1>5, TailKeeps
<1>9. \/ ring' = ring
      \/ /\ listener # None
         /\ \/ ring' = Append(ring, n)
            \/ ring' = Append(Tail(ring), n) /\ Len(ring) = RingLines
  BY Zenon DEF DrainLine, Tee
<1>10. Len(ring) = RingLines => ring # <<>>
  BY ConstantsAssumption
<1>11. Good(ring')
  <2> HIDE DEF n, Fits, Good
  <2>1. QED
    BY <1>6, <1>7, <1>8, <1>9, <1>10
<1>12. listener' = None => ring' = <<>>
  BY <1>1, <1>9 DEF BufferInv, RingInv
<1>13. RingInv'
  BY <1>1, <1>2, <1>3, <1>5, <1>11, <1>12 DEF BufferInv, RingInv, NoGreetingBacklog
<1>14. QED
  BY <1>4, <1>13 DEF BufferInv

(***************************************************************************)
(* A central comes to an empty ring, and one that goes leaves it empty.    *)
(***************************************************************************)
LEMMA BleKeepsBuffers == DataOK /\ BufferInv /\ BlePoll => BufferInv'
<1> SUFFICES ASSUME DataOK, BufferInv, BlePoll PROVE BufferInv'
  OBVIOUS
<1>1. UNCHANGED <<coex, queue, drained>> /\ phase = "ble"
  BY DEF BlePoll, build, gnss
<1>2. queue' = <<>>
  BY <1>1 DEF BufferInv, QueueInv
<1>3. QueueInv'
  BY <1>2, EmptyFits DEF QueueInv
<1>4. CASE listener' = None
  <2>1. ring' = <<>>
    BY <1>4 DEF BlePoll, Flushed
  <2>2. bleHeard' = 0 \/ UNCHANGED <<bleHeard, subMark>>
    BY DEF BlePoll
  <2>3. bleHeard' <= drained'
    BY <1>1, <2>2, Numbers DEF BufferInv, RingInv
  <2>4. NoGreetingBacklog'
    BY <2>2 DEF BufferInv, RingInv, NoGreetingBacklog
  <2>5. QED
    BY <1>3, <2>1, <2>3, <2>4, EmptyFits DEF BufferInv, RingInv
<1>5. CASE listener' # None /\ listener' = listener
  <2>1. UNCHANGED <<ring, bleHeard, subMark>>
    BY <1>5 DEF BlePoll
  <2>2. QED
    BY <1>1, <1>3, <1>5, <2>1 DEF BufferInv, RingInv, NoGreetingBacklog
<1>6. CASE listener' # None /\ listener' # listener
  <2>1. listener = None
    BY <1>6 DEF BlePoll
  <2>2. ring' = <<>> /\ bleHeard' = 0
    BY <1>6, <2>1 DEF BlePoll, BufferInv, RingInv
  <2>3. bleHeard' <= drained'
    BY <1>1, <2>2, Numbers
  <2>4. QED
    BY <1>3, <1>6, <2>2, <2>3, EmptyFits DEF BufferInv, RingInv, NoGreetingBacklog
<1>7. QED
  BY <1>4, <1>5, <1>6

(***************************************************************************)
(* The oldest line of the ring is newer than what the central has heard.   *)
(***************************************************************************)
LEMMA NotifyKeepsBuffers == DataOK /\ BufferInv /\ Notify => BufferInv'
<1> SUFFICES ASSUME DataOK, BufferInv, Notify PROVE BufferInv'
  OBVIOUS
<1>1. UNCHANGED <<coex, phase, passStart, queue, drained, listener, subMark>>
  BY DEF Notify, build, gnss
<1>2. ring # <<>> /\ ring' = Tail(ring) /\ bleHeard' \in {bleHeard, Head(ring)}
  BY DEF Notify
<1>3. QueueInv'
  BY <1>1 DEF BufferInv, QueueInv
<1>4. /\ Sorted(ring') /\ UpTo(ring', drained) /\ Above(ring', subMark)
      /\ Above(ring', bleHeard) /\ Above(ring', Head(ring))
      /\ Head(ring) <= drained /\ Head(ring) > subMark
  BY <1>2, Numbers, TailKeeps DEF BufferInv, RingInv
<1>5. Above(ring', bleHeard') /\ bleHeard' <= drained /\ NoGreetingBacklog'
  BY <1>1, <1>2, <1>4 DEF BufferInv, RingInv, NoGreetingBacklog
<1>6. listener # None
  BY <1>2 DEF BufferInv, RingInv
<1>7. QED
  BY <1>1, <1>3, <1>4, <1>5, <1>6 DEF BufferInv, RingInv

(***************************************************************************)
(* A pass of the coexistence build ends with the queue empty.              *)
(***************************************************************************)
LEMMA EndKeepsBuffers ==
  DataOK /\ BufferInv /\ (TcpPoll \/ GnssDone \/ DrainDone \/ NotifyDone) => BufferInv'
<1> SUFFICES ASSUME DataOK, BufferInv, TcpPoll \/ GnssDone \/ DrainDone \/ NotifyDone
             PROVE  BufferInv'
  OBVIOUS
<1>1. UNCHANGED <<coex, queue, drained, ring, listener, bleHeard, subMark>>
  BY DEF TcpPoll, GnssDone, DrainDone, NotifyDone, build, gnss, ble
<1>2. RingInv'
  BY <1>1 DEF BufferInv, RingInv, NoGreetingBacklog
<1>3. passStart' = passStart \/ queue = <<>> \/ ~coex
  BY DEF TcpPoll, GnssDone, DrainDone, NotifyDone, BufferInv, QueueInv
<1>4. coex' => Above(queue', passStart')
  BY <1>1, <1>3, EmptyFits DEF BufferInv, QueueInv
<1>5. phase' \in {"ble", "notify"} => queue' = <<>>
  BY <1>1 DEF TcpPoll, PhaseWhenDown, GnssDone, DrainDone, NotifyDone, EndOfPass
<1>6. QED
  BY <1>1, <1>2, <1>4, <1>5 DEF BufferInv, QueueInv

(***************************************************************************)
(* Every step keeps the two buffers as BufferInv says.                     *)
(***************************************************************************)
LEMMA BuffersStep == DataOK /\ BufferInv /\ [Next]_vars => BufferInv'
<1> SUFFICES ASSUME DataOK, BufferInv, [Next]_vars PROVE BufferInv'
  OBVIOUS
<1>1. CASE World \/ UNCHANGED vars
  <2>1. UNCHANGED <<coex, phase, passStart, queue, drained, ring, listener, bleHeard,
                    subMark>>
    BY <1>1 DEF World, PhoneConnects, PhoneLeaves, WifiUp, WifiDown, vars, build, gnss, ble
  <2>2. QED
    BY <2>1 DEF BufferInv, QueueInv, RingInv, NoGreetingBacklog
<1>2. QED
  BY <1>1, FeedKeepsBuffers, DrainKeepsBuffers, BleKeepsBuffers, NotifyKeepsBuffers,
     EndKeepsBuffers DEF Next, Superloop

(***************************************************************************)
(* In every behaviour the two buffers are as BufferInv says.               *)
(***************************************************************************)
LEMMA Buffers == Spec => [](DataOK /\ BufferInv)
<1>1. Init => DataOK /\ BufferInv
  BY InitTyped, InitBuffers DEF TypeOK
<1>2. DataOK /\ BufferInv /\ [Next]_vars => (DataOK /\ BufferInv)'
  BY DataStep, BuffersStep
<1>3. QED
  BY <1>1, <1>2, PTL DEF Spec

(***************************************************************************)
(* "No stale backlog greets the next subscriber": what a central hears was *)
(* completed after its subscription was seen.                              *)
(***************************************************************************)
THEOREM SubscriberHearsNoBacklog == Spec => []NoGreetingBacklog
<1>1. BufferInv => NoGreetingBacklog
  BY DEF BufferInv, RingInv
<1>2. QED
  BY <1>1, Buffers, PTL

(***************************************************************************)
(* No listener gets a line out of order or twice: what leaves the queue is *)
(* newer than what left before, what a central receives newer than what it *)
(* had received.                                                           *)
(***************************************************************************)
THEOREM LinesInOrder == Spec => InOrder
<1> DEFINE Newer == /\ drained' # drained => drained' > drained
                    /\ listener' = listener /\ bleHeard' # bleHeard =>
                         bleHeard' > bleHeard
<1>1. ASSUME DataOK, BufferInv, [Next]_vars PROVE [Newer]_vars
  <2>1. CASE DrainLine
    <3>1. UNCHANGED bleHeard /\ queue # <<>> /\ drained' = Head(queue)
      BY <2>1 DEF DrainLine
    <3>2. Head(queue) > drained
      BY <1>1, <3>1, Numbers, TailKeeps DEF BufferInv, QueueInv
    <3>3. QED
      BY <3>1, <3>2
  <2>2. CASE Notify
    <3>1. UNCHANGED drained /\ ring # <<>> /\ bleHeard' \in {bleHeard, Head(ring)}
      BY <2>2 DEF Notify
    <3>2. Head(ring) > bleHeard
      BY <1>1, <3>1, Numbers, TailKeeps DEF BufferInv, RingInv
    <3>3. QED
      BY <3>1, <3>2
  <2>3. CASE BlePoll
    BY <2>3 DEF BlePoll
  <2>4. CASE FeedLine \/ GnssDone \/ TcpPoll \/ DrainDone \/ NotifyDone \/ World
    BY <2>4 DEF FeedLine, GnssDone, TcpPoll, DrainDone, NotifyDone, World, PhoneConnects,
                PhoneLeaves, WifiUp, WifiDown, ble
  <2>5. QED
    BY <1>1, <2>1, <2>2, <2>3, <2>4 DEF Next, Superloop
<1>2. QED
  BY <1>1, Buffers, PTL DEF Spec, InOrder

(***************************************************************************)
(* The coexistence build takes no line from the queue that an earlier pass *)
(* completed.                                                              *)
(***************************************************************************)
THEOREM CoexDrainsFresh == Spec => FreshWhenDrained
<1>1. ASSUME DataOK, BufferInv, [Next]_vars
      PROVE  [coex /\ drained' # drained => drained' > passStart]_vars
  <2>1. CASE DrainLine
    <3>1. queue # <<>> /\ drained' = Head(queue)
      BY <2>1 DEF DrainLine
    <3>2. coex => Head(queue) > passStart
      BY <1>1, <3>1, Numbers, TailKeeps DEF BufferInv, QueueInv
    <3>3. QED
      BY <3>1, <3>2
  <2>2. CASE UNCHANGED drained
    BY <2>2
  <2>3. QED
    BY <1>1, <2>1, <2>2 DEF Next, Superloop, World, vars, FeedLine, GnssDone, TcpPoll,
       DrainDone, BlePoll, Notify, NotifyDone, PhoneConnects, PhoneLeaves, WifiUp, WifiDown
<1>2. QED
  BY <1>1, Buffers, PTL DEF Spec, FreshWhenDrained

-----------------------------------------------------------------------------
(* The client table.                                                       *)

InTable(p) == \E s \in Slots : clients[s] = p

(* Every connection that answers connected() has a slot, no two slots hold *)
(* the same, and none holds a connection that is not, or was not, live.    *)
TableInv ==
  /\ \A p \in Phones : conn[p] \in {"live", "left"} => InTable(p)
  /\ \A s, t \in Slots : clients[s] # None /\ clients[s] = clients[t] => s = t
  /\ \A s \in Slots : clients[s] # None => conn[clients[s]] \in {"live", "left", "gone"}

(* The drain skips the clients only when none is live.                     *)
ServedInv ==
  /\ ~wifi \/ (phase = "drain" /\ tcpClients = 0) => \A p \in Phones : conn[p] # "live"
  /\ NoLineMissed

ClientInv == TableInv /\ ServedInv

(***************************************************************************)
(* The table starts empty, with nobody connected.                          *)
(***************************************************************************)
LEMMA InitClients == Init => ClientInv
<1> SUFFICES ASSUME Init PROVE ClientInv
  OBVIOUS
<1>1. conn = [p \in Phones |-> "idle"] /\ clients = [s \in Slots |-> None]
  BY DEF Init
<1>2. QED
  BY <1>1 DEF ClientInv, TableInv, ServedInv, NoLineMissed

(***************************************************************************)
(* What acceptClients() leaves in the table: everyone who was live, and a  *)
(* newcomer at most once.                                                  *)
(***************************************************************************)
LEMMA AdmitKeeps ==
  ASSUME DataOK, TableInv, NEW p \in Incoming, NEW table \in [Slots -> Phones \cup {None}],
         Admit(p, table)
  PROVE  /\ \A q \in Phones : conn[q] \in {"live", "left"} => \E s \in Slots : table[s] = q
         /\ \A s, t \in Slots : table[s] # None /\ table[s] = table[t] => s = t
<1>1. CASE table = clients
  BY <1>1 DEF TableInv, InTable
<1>2. CASE ~Tracked(p) /\ \E s \in Slots : Usable(s) /\ table = [clients EXCEPT ![s] = p]
  <2>1. PICK s \in Slots : Usable(s) /\ table = [clients EXCEPT ![s] = p]
    BY <1>2
  <2>2. clients \in [Slots -> Phones \cup {None}]
    BY DEF DataOK
  <2>3. ASSUME NEW q \in Phones, conn[q] \in {"live", "left"}
        PROVE  \E t \in Slots : table[t] = q
    <3>1. PICK t \in Slots : clients[t] = q
      BY <2>3 DEF TableInv, InTable
    <3>2. t # s
      BY <2>1, <2>3, <3>1, ConstantsAssumption DEF Usable, Connected
    <3>3. table[t] = q
      BY <2>1, <2>2, <3>1, <3>2
    <3>4. QED
      BY <3>3
  <2>4. ASSUME NEW t \in Slots, NEW u \in Slots, table[t] # None, table[t] = table[u]
        PROVE  t = u
    <3>1. \A v \in Slots : table[v] = IF v = s THEN p ELSE clients[v]
      BY <2>1, <2>2
    <3>2. \A v \in Slots : clients[v] # p
      BY <1>2 DEF Tracked
    <3>3. QED
      BY <2>4, <3>1, <3>2 DEF TableInv
  <2>5. QED
    BY <2>3, <2>4
<1>3. QED
  BY <1>1, <1>2 DEF Admit

(***************************************************************************)
(* Acceptance and pruning keep the table right.                            *)
(***************************************************************************)
LEMMA AcceptKeepsClients ==
  ASSUME DataOK, ClientInv, TcpPoll, wifi
  PROVE  ClientInv'
<1>1. PICK p \in Incoming, table \in [Slots -> Phones \cup {None}] :
        /\ Admit(p, table)
        /\ conn' = [q \in Phones |->
             CASE conn[q] = "gone" -> "idle"
               [] conn[q] = "left" -> "gone"
               [] conn[q] = "pending" /\ q = p ->
                    IF \E s \in Slots : table[s] = p THEN "live" ELSE "idle"
               [] OTHER -> conn[q]]
        /\ clients' = [s \in Slots |->
             IF table[s] # None /\ conn[table[s]] # "gone" THEN table[s] ELSE None]
        /\ heard' = [q \in Phones |->
             IF conn'[q] # "live" THEN 0 ELSE IF conn[q] = "live" THEN heard[q] ELSE drained]
        /\ tcpClients' = LiveCount
  BY DEF TcpPoll, AcceptAndPrune
<1>2. /\ \A q \in Phones : conn[q] \in {"live", "left"} => \E s \in Slots : table[s] = q
      /\ \A s, t \in Slots : table[s] # None /\ table[s] = table[t] => s = t
  BY <1>1, AdmitKeeps DEF ClientInv
<1>3. p # None => conn[p] \in {"pending", "live", "left"}
  BY DEF Incoming, Waiting, Connected
<1>4. ASSUME NEW q \in Phones, conn'[q] = "live"
      PROVE  /\ \E s \in Slots : table[s] = q
             /\ conn[q] = "live" \/ (conn[q] = "pending" /\ q = p)
  <2>1. conn[q] = "live" \/ (conn[q] = "pending" /\ q = p /\ \E s \in Slots : table[s] = q)
    BY <1>1, <1>4
  <2>2. QED
    BY <1>2, <2>1
<1>5. ASSUME NEW q \in Phones, conn'[q] = "live" PROVE InTable(q)'
  <2>1. PICK s \in Slots : table[s] = q
    BY <1>4, <1>5
  <2>2. conn[q] # "gone" /\ q # None
    BY <1>4, <1>5, ConstantsAssumption
  <2>3. clients'[s] = q
    BY <1>1, <2>1, <2>2
  <2>4. QED
    BY <2>3 DEF InTable
<1>6. \A s \in Slots : clients'[s] = table[s] \/ clients'[s] = None
  BY <1>1
<1>7. \A s, t \in Slots : clients'[s] # None /\ clients'[s] = clients'[t] => s = t
  BY <1>2, <1>6
<1>8. ASSUME NEW s \in Slots, clients'[s] # None
      PROVE  conn'[clients'[s]] \in {"live", "gone"}
  <2>1. clients'[s] = table[s] /\ table[s] \in Phones /\ conn[table[s]] # "gone"
    BY <1>1, <1>8
  <2>2. CASE table[s] = p
    <3>1. conn[p] \in {"pending", "live", "left"} /\ \E t \in Slots : table[t] = p
      BY <1>3, <2>1, <2>2, ConstantsAssumption
    <3>2. p \in Phones
      BY <2>1, <2>2
    <3>3. conn'[p] \in {"live", "gone"}
      BY <1>1, <3>1, <3>2
    <3>4. QED
      BY <2>1, <2>2, <3>3
  <2>3. CASE table[s] # p
    <3>1. table[s] = clients[s]
      BY <1>1, <2>3 DEF Admit, DataOK
    <3>2. conn[table[s]] \in {"live", "left"}
      BY <1>8, <2>1, <3>1 DEF ClientInv, TableInv
    <3>3. QED
      BY <1>1, <2>1, <2>3, <3>2
  <2>4. QED
    BY <2>2, <2>3
<1>9. TableInv'
  <2>1. \A q \in Phones : conn'[q] # "left"
    BY <1>1
  <2>2. QED
    BY <1>5, <1>7, <1>8, <2>1 DEF TableInv
<1>10. NoLineMissed'
  <2>1. UNCHANGED drained
    BY DEF TcpPoll
  <2>2. ASSUME NEW q \in Phones, conn'[q] = "live" PROVE heard'[q] = drained
    <3>1. CASE conn[q] = "live"
      BY <1>1, <2>2, <3>1 DEF ClientInv, ServedInv, NoLineMissed
    <3>2. CASE conn[q] = "pending" /\ q = p
      BY <1>1, <2>2, <3>2
    <3>3. QED
      BY <1>4, <2>2, <3>1, <3>2
  <2>3. QED
    BY <2>1, <2>2 DEF NoLineMissed
<1>11. tcpClients' = 0 => \A q \in Phones : conn'[q] # "live"
  <2> SUFFICES ASSUME tcpClients' = 0, NEW q \in Phones, conn'[q] = "live"
               PROVE  FALSE
    OBVIOUS
  <2> DEFINE S == {s \in Slots : clients'[s] # None}
  <2>1. S = {}
    BY <1>1, S \subseteq Slots, SlotsCount DEF LiveCount
  <2>2. PICK s \in Slots : clients'[s] = q
    BY <1>5 DEF InTable
  <2>3. s \in S
    BY <2>2, ConstantsAssumption
  <2>4. QED
    BY <2>1, <2>3
<1>12. UNCHANGED wifi
  BY DEF TcpPoll
<1>13. QED
  BY <1>9, <1>10, <1>11, <1>12 DEF ClientInv, ServedInv

(***************************************************************************)
(* With WiFi down nobody is live, so the count of 0 is the truth.          *)
(***************************************************************************)
LEMMA DownKeepsClients ==
  ASSUME ClientInv, TcpPoll, ~wifi
  PROVE  ClientInv'
<1>1. UNCHANGED <<clients, conn, heard, drained, wifi>>
  BY DEF TcpPoll
<1>2. QED
  BY <1>1 DEF ClientInv, TableInv, InTable, ServedInv, NoLineMissed

(***************************************************************************)
(* A line taken from the queue goes to every live connection.              *)
(***************************************************************************)
LEMMA DrainKeepsClients ==
  ASSUME DataOK, ClientInv, DrainLine
  PROVE  ClientInv'
<1>1. UNCHANGED <<clients, conn, wifi, phase, tcpClients>> /\ phase = "drain"
      /\ drained' = Head(queue)
  BY DEF DrainLine, tcp
<1>2. ASSUME NEW p \in Phones, conn[p] = "live" PROVE heard'[p] = Head(queue)
  <2>1. tcpClients # 0 /\ tcpClients \in Nat
    BY <1>1, <1>2 DEF ClientInv, ServedInv, DataOK
  <2>2. InTable(p) /\ Connected(p)
    BY <1>2, ConstantsAssumption DEF ClientInv, TableInv, Connected
  <2>3. QED
    BY <2>1, <2>2 DEF DrainLine, Broadcast, InTable
<1>3. QED
  BY <1>1, <1>2 DEF ClientInv, TableInv, InTable, ServedInv, NoLineMissed

(***************************************************************************)
(* Phones and the radio make no connection live, and leave the table to    *)
(* the next pass.                                                          *)
(***************************************************************************)
LEMMA WorldKeepsClients ==
  ASSUME DataOK, ClientInv, World
  PROVE  ClientInv'
<1>1. UNCHANGED <<clients, tcpClients, heard, drained, phase>>
  BY DEF World, PhoneConnects, PhoneLeaves, WifiUp, WifiDown, tcp
<1>2. ASSUME NEW p \in Phones
      PROVE  /\ conn'[p] = "live" => conn[p] = "live"
             /\ conn'[p] = "left" => conn[p] \in {"live", "left"}
             /\ conn[p] \in {"live", "left", "gone"}
                  => conn'[p] \in {"live", "left", "gone"}
             /\ ~wifi' => conn'[p] # "live"
  <2>1. conn \in [Phones -> Conns]
    BY DEF DataOK
  <2>2. ~wifi => conn[p] # "live"
    BY DEF ClientInv, ServedInv
  <2>3. CASE PhoneConnects
    BY <2>1, <2>2, <2>3 DEF PhoneConnects
  <2>4. CASE PhoneLeaves
    BY <2>1, <2>2, <2>4 DEF PhoneLeaves, Ended
  <2>5. CASE WifiUp
    BY <2>5 DEF WifiUp
  <2>6. CASE WifiDown
    BY <2>1, <2>6 DEF WifiDown, Ended, Conns
  <2>7. QED
    BY <2>3, <2>4, <2>5, <2>6 DEF World
<1>3. \A s \in Slots : clients[s] # None => clients[s] \in Phones
  BY DEF DataOK
<1>4. TableInv'
  BY <1>1, <1>2, <1>3 DEF ClientInv, TableInv, InTable
<1>5. ServedInv'
  BY <1>1, <1>2 DEF ClientInv, ServedInv, NoLineMissed
<1>6. QED
  BY <1>4, <1>5 DEF ClientInv

(***************************************************************************)
(* Every step keeps the table as ClientInv says.                           *)
(***************************************************************************)
LEMMA ClientsStep == DataOK /\ ClientInv /\ [Next]_vars => ClientInv'
<1> SUFFICES ASSUME DataOK, ClientInv, [Next]_vars PROVE ClientInv'
  OBVIOUS
<1>1. CASE FeedLine \/ GnssDone \/ DrainDone \/ BlePoll \/ Notify \/ NotifyDone
             \/ UNCHANGED vars
  <2>1. UNCHANGED <<clients, tcpClients, conn, heard, drained, wifi>>
    BY <1>1 DEF FeedLine, GnssDone, DrainDone, BlePoll, Notify, NotifyDone, vars, tcp
  <2>2. phase' = "drain" => phase = "drain"
    BY <1>1 DEF FeedLine, GnssDone, DrainDone, BlePoll, Notify, NotifyDone, vars, EndOfPass
  <2>3. QED
    BY <2>1, <2>2 DEF ClientInv, TableInv, InTable, ServedInv, NoLineMissed
<1>2. QED
  BY <1>1, AcceptKeepsClients, DownKeepsClients, DrainKeepsClients, WorldKeepsClients
     DEF Next, Superloop

(***************************************************************************)
(* In every behaviour the table is as ClientInv says.                      *)
(***************************************************************************)
LEMMA ClientTable == Spec => [](DataOK /\ ClientInv)
<1>1. Init => DataOK /\ ClientInv
  BY InitTyped, InitClients DEF TypeOK
<1>2. DataOK /\ ClientInv /\ [Next]_vars => (DataOK /\ ClientInv)'
  BY DataStep, ClientsStep
<1>3. QED
  BY <1>1, <1>2, PTL DEF Spec

(***************************************************************************)
(* A phone in the table misses no line that leaves the queue.              *)
(***************************************************************************)
THEOREM PhonesMissNothing == Spec => []NoLineMissed
<1>1. ClientInv => NoLineMissed
  BY DEF ClientInv, ServedInv
<1>2. QED
  BY <1>1, ClientTable, PTL

(***************************************************************************)
(* A live connection holds exactly one slot.                               *)
(***************************************************************************)
THEOREM OneSlotPerPhone == Spec => []OneSlotEach
<1>1. ClientInv => OneSlotEach
  <2> SUFFICES ASSUME ClientInv, NEW p \in Phones, conn[p] = "live"
               PROVE  Cardinality({s \in Slots : clients[s] = p}) = 1
    BY DEF OneSlotEach
  <2>1. PICK s \in Slots : clients[s] = p
    BY DEF ClientInv, TableInv, InTable
  <2>2. {t \in Slots : clients[t] = p} = {s}
    BY <2>1, ConstantsAssumption DEF ClientInv, TableInv
  <2>3. QED
    BY <2>2, FS_Singleton
<1>2. QED
  BY <1>1, ClientTable, PTL

(***************************************************************************)
(* A phone is turned away only when all the slots hold a connection that   *)
(* answers connected(), and those whose phone has left answer it no more   *)
(* after that pass.                                                        *)
(***************************************************************************)
THEOREM RefusalMeansFull == Spec => RefusedOnlyWhenFull
<1> DEFINE Live == {q \in Phones : conn[q] \in {"live", "left"}}
           Read == \A q \in Phones : conn[q] = "left" => conn'[q] = "gone"
           Refused(p) == phase = "tcp" /\ phase' = "drain" /\ conn[p] = "pending"
                         /\ conn'[p] = "idle"
           Full == \A p \in Phones : Refused(p) => Cardinality(Live) = MaxClients /\ Read
<1>1. ASSUME DataOK, ClientInv, TcpPoll, NEW r \in Phones, Refused(r)
      PROVE  (\A s \in Slots : Connected(clients[s])) /\ Read
  <2>1. wifi
    BY <1>1 DEF TcpPoll
  <2>2. PICK p \in Incoming, table \in [Slots -> Phones \cup {None}] :
          /\ Admit(p, table)
          /\ conn' = [q \in Phones |->
               CASE conn[q] = "gone" -> "idle"
                 [] conn[q] = "left" -> "gone"
                 [] conn[q] = "pending" /\ q = p ->
                      IF \E s \in Slots : table[s] = p THEN "live" ELSE "idle"
                 [] OTHER -> conn[q]]
    BY <1>1, <2>1 DEF TcpPoll, AcceptAndPrune
  <2> HIDE DEF Read
  <2>0. Read
    BY <2>2 DEF Read
  <2>3. r = p /\ ~ \E s \in Slots : table[s] = p
    BY <1>1, <2>2
  <2>4. p # None
    BY <2>3, ConstantsAssumption
  <2>5. clients \in [Slots -> Phones \cup {None}]
    BY <1>1 DEF DataOK
  <2>6. ~ \E s \in Slots : table = [clients EXCEPT ![s] = p]
    BY <2>3, <2>5
  <2>7. ~ (Tracked(p) /\ table = clients)
    BY <2>3 DEF Tracked
  <2>8. \A s \in Slots : ~Usable(s)
    BY <2>2, <2>4, <2>6, <2>7 DEF Admit
  <2>9. QED
    BY <2>0, <2>8 DEF Usable
<1>2. ASSUME DataOK, ClientInv, \A s \in Slots : Connected(clients[s])
      PROVE  Cardinality(Live) = MaxClients
  <2>1. clients \in Bijection(Slots, Live)
    <3>1. clients \in [Slots -> Live]
      BY <1>2 DEF DataOK, Connected
    <3>2. \A s, t \in Slots : clients[s] = clients[t] => s = t
      BY <1>2 DEF ClientInv, TableInv, Connected
    <3>3. \A q \in Live : \E s \in Slots : clients[s] = q
      BY <1>2 DEF ClientInv, TableInv, InTable
    <3>4. QED
      BY <3>1, <3>2, <3>3, Fun_IsBij
  <2>2. IsFiniteSet(Slots) /\ Cardinality(Slots) = MaxClients
    BY FS_Interval, ConstantsAssumption DEF Slots
  <2>3. QED
    BY <2>1, <2>2, FS_Bijection DEF ExistsBijection
<1>3. ASSUME DataOK, ClientInv, [Next]_vars PROVE [Full]_vars
  <2>1. CASE TcpPoll
    <3> HIDE DEF Refused, Live, Read
    <3>1. QED
      BY <1>1, <1>2, <1>3, <2>1
  <2>2. CASE phase' # "drain" \/ phase # "tcp" \/ UNCHANGED vars
    BY <2>2
  <2>3. QED
    BY <1>3, <2>1, <2>2 DEF Next, Superloop, World, FeedLine, GnssDone, DrainLine,
       DrainDone, BlePoll, Notify, NotifyDone, PhoneConnects, PhoneLeaves, WifiUp, WifiDown
<1>4. DataOK /\ ClientInv /\ [Next]_vars =>
        [\A p \in Phones :
           phase = "tcp" /\ phase' = "drain" /\ conn[p] = "pending" /\ conn'[p] = "idle" =>
             /\ Cardinality({q \in Phones : conn[q] \in {"live", "left"}}) = MaxClients
             /\ \A q \in Phones : conn[q] = "left" => conn'[q] = "gone"]_vars
  BY <1>3
<1>5. QED
  BY <1>4, ClientTable, PTL DEF Spec, RefusedOnlyWhenFull

-----------------------------------------------------------------------------
(***************************************************************************)
(* The arrays of NmeaBuffers implement the sequences of NmeaPipeline.      *)
(*                                                                         *)
(* B!P is NmeaPipeline with the lines read off the arrays for queue and    *)
(* ring.  The lemmas about one buffer hold for any size n and any number m *)
(* of sentences; with them each step of the code is the step of that name. *)
(***************************************************************************)
VARIABLES nmeaQ, bleQ

B == INSTANCE NmeaBuffers

(* What B!Agree says of a buffer, for any number m of sentences.           *)
Sound(q, n, m) ==
  /\ q \in [line : [0 .. n - 1 -> 0 .. m], head : 0 .. n - 1,
            tail : 0 .. n - 1, count : 0 .. n]
  /\ q.head = B!Slot(q.tail, q.count + 1, n)
  /\ \A i \in 1 .. q.count : q.line[B!Slot(q.tail, i, n)] # 0

(***************************************************************************)
(* An index modulo the size of the buffer, as a case distinction.          *)
(***************************************************************************)
LEMMA Wraps ==
  ASSUME NEW n \in Nat \ {0}, NEW i \in 0 .. n - 1
  PROVE  /\ B!Advance(i, n) = IF i + 1 = n THEN 0 ELSE i + 1
         /\ B!Advance(i, n) \in 0 .. n - 1
<1>1. CASE i + 1 = n
  <2>1. n % n = 0
    OBVIOUS
  <2> QED
    BY <1>1, <2>1 DEF B!Advance
<1>2. CASE i + 1 < n
  <2>1. (i + 1) % n = i + 1
    BY <1>2
  <2> QED
    BY <1>2, <2>1 DEF B!Advance
<1> QED
  BY <1>1, <1>2

(***************************************************************************)
(* The slots a buffer that starts at t reads its lines from: all           *)
(* different, and each the successor of the one before.                    *)
(***************************************************************************)
LEMMA SlotsOf ==
  ASSUME NEW n \in Nat \ {0}, NEW t \in 0 .. n - 1
  PROVE  /\ B!Slot(t, 1, n) = t
         /\ \A i \in 1 .. n + 1 : B!Slot(t, i, n) \in 0 .. n - 1
         /\ \A i, j \in 1 .. n : i # j => B!Slot(t, i, n) # B!Slot(t, j, n)
         /\ \A i \in 1 .. n : B!Advance(B!Slot(t, i, n), n) = B!Slot(t, i + 1, n)
         /\ \A i \in 1 .. n : B!Slot(B!Advance(t, n), i, n) = B!Slot(t, i + 1, n)
<1>1. \A i \in 1 .. n + 1 : B!Slot(t, i, n) \in 0 .. n - 1
  BY DEF B!Slot
<1>2. \A i, j \in 1 .. n : i # j => B!Slot(t, i, n) # B!Slot(t, j, n)
  BY DEF B!Slot
<1>3. B!Slot(t, 1, n) = t
  BY DEF B!Slot
<1>4. ASSUME NEW i \in 1 .. n
      PROVE  B!Advance(B!Slot(t, i, n), n) = B!Slot(t, i + 1, n)
  <2>1. B!Slot(t, i, n) \in 0 .. n - 1
    BY <1>1
  <2>2. B!Advance(B!Slot(t, i, n), n)
          = IF B!Slot(t, i, n) + 1 = n THEN 0 ELSE B!Slot(t, i, n) + 1
    BY <2>1, Wraps
  <2> QED
    BY <2>2 DEF B!Slot
<1>5. ASSUME NEW i \in 1 .. n
      PROVE  B!Slot(B!Advance(t, n), i, n) = B!Slot(t, i + 1, n)
  <2>1. B!Advance(t, n) = IF t + 1 = n THEN 0 ELSE t + 1
    BY Wraps
  <2>2. CASE t + 1 = n
    BY <2>1, <2>2 DEF B!Slot
  <2>3. CASE t + 1 # n
    BY <2>1, <2>3 DEF B!Slot
  <2> QED
    BY <2>2, <2>3
<1> QED
  BY <1>1, <1>2, <1>3, <1>4, <1>5

(***************************************************************************)
(* The indices after a line is put into a buffer that is not full.         *)
(***************************************************************************)
LEMMA PutIndices ==
  ASSUME NEW n \in Nat \ {0}, NEW t \in 0 .. n - 1, NEW c \in 0 .. n, c < n
  PROVE  /\ B!Advance(B!Slot(t, c + 1, n), n) = B!Slot(t, (c + 1) + 1, n)
         /\ B!Advance(B!Slot(t, c + 1, n), n) \in 0 .. n - 1
         /\ B!Slot(t, c + 1, n) \in 0 .. n - 1
         /\ c \in Nat /\ c + 1 \in 0 .. n
         /\ \A i \in 1 .. c : B!Slot(t, i, n) \in 0 .. n - 1
                             /\ B!Slot(t, i, n) # B!Slot(t, c + 1, n)
<1>1. c + 1 \in 1 .. n /\ c + 1 \in 1 .. n + 1
  OBVIOUS
<1>2. \A i \in 1 .. c : i \in 1 .. n /\ i \in 1 .. n + 1 /\ i # c + 1
  OBVIOUS
<1>3. B!Advance(B!Slot(t, c + 1, n), n) \in 0 .. n - 1
  BY <1>1, SlotsOf, Wraps
<1>4. B!Slot(t, c + 1, n) \in 0 .. n - 1
  BY <1>1, SlotsOf
<1>5. B!Advance(B!Slot(t, c + 1, n), n) = B!Slot(t, (c + 1) + 1, n)
  BY <1>1, SlotsOf
<1>6. \A i \in 1 .. c : B!Slot(t, i, n) \in 0 .. n - 1 /\ B!Slot(t, i, n) # B!Slot(t, c + 1, n)
  BY <1>1, <1>2, SlotsOf
<1> QED
  BY <1>1, <1>3, <1>4, <1>5, <1>6

(***************************************************************************)
(* The indices after a line is taken from a buffer that is not empty.      *)
(***************************************************************************)
LEMMA TakeIndices ==
  ASSUME NEW n \in Nat \ {0}, NEW t \in 0 .. n - 1, NEW c \in 0 .. n, c > 0
  PROVE  /\ B!Advance(t, n) \in 0 .. n - 1
         /\ B!Slot(B!Advance(t, n), (c - 1) + 1, n) = B!Slot(t, c + 1, n)
         /\ B!Slot(t, 1, n) = t
         /\ c - 1 \in 0 .. n /\ c \in Nat /\ 1 \in 1 .. c
         /\ \A i \in 1 .. c - 1 : i + 1 \in 1 .. c
              /\ B!Slot(B!Advance(t, n), i, n) = B!Slot(t, i + 1, n)
<1>1. (c - 1) + 1 = c /\ c \in 1 .. n
  OBVIOUS
<1>2. \A i \in 1 .. c - 1 : i \in 1 .. n /\ i + 1 \in 1 .. c
  OBVIOUS
<1> QED
  BY <1>1, <1>2, SlotsOf, Wraps

(***************************************************************************)
(* The sequence a sound buffer stands for.                                 *)
(***************************************************************************)
LEMMA Reads ==
  ASSUME NEW n \in Nat \ {0}, NEW m \in Nat, NEW q, Sound(q, n, m)
  PROVE  /\ B!Lines(q, n) \in Seq(1 .. m)
         /\ Len(B!Lines(q, n)) = q.count
         /\ \A i \in 1 .. q.count : B!Lines(q, n)[i] = q.line[B!Slot(q.tail, i, n)]
         /\ q.count \in Nat /\ q.count <= n
         /\ B!Lines(q, n) = <<>> <=> q.count = 0
<1>1. q.count \in 0 .. n /\ q.tail \in 0 .. n - 1 /\ q.line \in [0 .. n - 1 -> 0 .. m]
  BY DEF Sound
<1>2. \A i \in 1 .. q.count : B!Slot(q.tail, i, n) \in 0 .. n - 1
  BY <1>1 DEF B!Slot
<1>3. \A i \in 1 .. q.count : q.line[B!Slot(q.tail, i, n)] \in 1 .. m
  BY <1>1, <1>2 DEF Sound
<1> DEFINE s == B!Lines(q, n)
<1>4. s \in [1 .. q.count -> 1 .. m]
  BY <1>3 DEF B!Lines
<1>5. s \in Seq(1 .. m) /\ Len(s) = q.count
  BY <1>1, <1>4
<1>6. \A i \in 1 .. q.count : s[i] = q.line[B!Slot(q.tail, i, n)]
  BY DEF B!Lines
<1>7. s = <<>> <=> q.count = 0
  <2> HIDE DEF s
  <2> QED
    BY <1>1, <1>5, EmptySeq
<1> QED
  BY <1>1, <1>5, <1>6, <1>7

(***************************************************************************)
(* Putting a line into a buffer that is not full appends it.               *)
(***************************************************************************)
LEMMA PutAppends ==
  ASSUME NEW n \in Nat \ {0}, NEW m \in Nat, NEW q, Sound(q, n, m), q.count < n,
         NEW x \in 1 .. m
  PROVE  /\ Sound(B!Put(q, x, n), n, m)
         /\ B!Lines(B!Put(q, x, n), n) = Append(B!Lines(q, n), x)
<1> DEFINE r == B!Put(q, x, n)
<1>1. /\ q.count \in 0 .. n /\ q.tail \in 0 .. n - 1 /\ q.head \in 0 .. n - 1
      /\ q.line \in [0 .. n - 1 -> 0 .. m] /\ q.head = B!Slot(q.tail, q.count + 1, n)
  BY DEF Sound
<1>2. /\ r.tail = q.tail /\ r.count = q.count + 1 /\ r.head = B!Advance(q.head, n)
      /\ r.line = [q.line EXCEPT ![q.head] = x]
  BY DEF B!Put
<1>3. /\ B!Advance(q.head, n) = B!Slot(q.tail, (q.count + 1) + 1, n)
      /\ B!Advance(q.head, n) \in 0 .. n - 1
      /\ q.count \in Nat /\ q.count + 1 \in 0 .. n
      /\ \A i \in 1 .. q.count : B!Slot(q.tail, i, n) \in 0 .. n - 1
                               /\ B!Slot(q.tail, i, n) # q.head
  <2> DEFINE c == q.count   tail == q.tail
  <2>1. c \in 0 .. n /\ tail \in 0 .. n - 1 /\ c < n /\ q.head = B!Slot(tail, c + 1, n)
    BY <1>1
  <2> HIDE DEF c, tail
  <2>2. /\ B!Advance(q.head, n) = B!Slot(tail, (c + 1) + 1, n)
        /\ B!Advance(q.head, n) \in 0 .. n - 1
        /\ c \in Nat /\ c + 1 \in 0 .. n
        /\ \A i \in 1 .. c : B!Slot(tail, i, n) \in 0 .. n - 1
                             /\ B!Slot(tail, i, n) # q.head
    BY <2>1, PutIndices
  <2> QED
    BY <2>2 DEF c, tail
<1>4. r \in [line : [0 .. n - 1 -> 0 .. m], head : 0 .. n - 1, tail : 0 .. n - 1,
             count : 0 .. n]
  <2>1. r.line \in [0 .. n - 1 -> 0 .. m]
    BY <1>1, <1>2
  <2> QED
    BY <1>1, <1>2, <1>3, <2>1 DEF B!Put
<1> HIDE DEF r
<1>6. B!Slot(r.tail, q.count + 1, n) = q.head
  BY <1>1, <1>2
<1>7. r.head = B!Slot(r.tail, r.count + 1, n)
  BY <1>2, <1>3
<1>8. \A i \in 1 .. q.count : r.line[B!Slot(r.tail, i, n)] = q.line[B!Slot(q.tail, i, n)]
  BY <1>1, <1>2, <1>3
<1>9. r.line[B!Slot(r.tail, q.count + 1, n)] = x
  BY <1>1, <1>2, <1>6
<1>10. \A i \in 1 .. r.count : r.line[B!Slot(r.tail, i, n)] # 0
  <2> TAKE i \in 1 .. r.count
  <2>1. CASE i \in 1 .. q.count
    BY <1>8, <2>1 DEF Sound
  <2>2. CASE i = q.count + 1
    BY <1>9, <2>2
  <2> QED
    BY <1>1, <1>2, <2>1, <2>2
<1>11. Sound(r, n, m)
  BY <1>4, <1>7, <1>10 DEF Sound
<1>12. B!Lines(r, n) = Append(B!Lines(q, n), x)
  <2> DEFINE s == B!Lines(q, n)   t == B!Lines(r, n)
  <2>1. /\ s \in Seq(1 .. m) /\ Len(s) = q.count
        /\ \A i \in 1 .. q.count : s[i] = q.line[B!Slot(q.tail, i, n)]
    BY Reads
  <2>2. /\ t \in Seq(1 .. m) /\ Len(t) = q.count + 1
        /\ \A i \in 1 .. q.count + 1 : t[i] = r.line[B!Slot(r.tail, i, n)]
    <3>1. /\ t \in Seq(1 .. m) /\ Len(t) = r.count
          /\ \A i \in 1 .. r.count : t[i] = r.line[B!Slot(r.tail, i, n)]
      BY <1>11, Reads
    <3> HIDE DEF s, t
    <3>2. r.count = q.count + 1
      BY <1>2
    <3> QED BY <3>1, <3>2
  <2> HIDE DEF s, t
  <2>3. /\ Append(s, x) \in Seq(1 .. m) /\ Len(Append(s, x)) = q.count + 1
        /\ \A i \in 1 .. q.count : Append(s, x)[i] = s[i]
        /\ Append(s, x)[q.count + 1] = x
    BY <2>1
  <2>4. \A i \in 1 .. q.count + 1 : t[i] = Append(s, x)[i]
    <3> TAKE i \in 1 .. q.count + 1
    <3>1. CASE i \in 1 .. q.count
      BY <1>8, <2>1, <2>2, <2>3, <3>1
    <3>2. CASE i = q.count + 1
      BY <1>9, <2>2, <2>3, <3>2
    <3>3. \A c \in Nat : \A j \in 1 .. c + 1 : j \in 1 .. c \/ j = c + 1
      OBVIOUS
    <3> QED
      BY <1>3, <3>1, <3>2, <3>3
  <2>5. t = Append(s, x)
    BY <2>2, <2>3, <2>4, SeqEqual
  <2> QED
    BY <2>5 DEF s, t
<1> QED
  BY <1>11, <1>12 DEF r

(***************************************************************************)
(* Head and tail of a sequence whose length is known.                      *)
(***************************************************************************)
LEMMA TailOf ==
  ASSUME NEW S, NEW s \in Seq(S), NEW c \in Nat, Len(s) = c, c > 0
  PROVE  /\ Tail(s) \in Seq(S) /\ Len(Tail(s)) = c - 1
         /\ \A i \in 1 .. c - 1 : Tail(s)[i] = s[i + 1]
         /\ Head(s) = s[1] /\ Head(s) \in S /\ s # <<>>
<1>1. s # <<>>
  BY EmptySeq
<1> QED
  BY <1>1, HeadTailProperties

(***************************************************************************)
(* Taking the oldest line leaves the tail.                                 *)
(***************************************************************************)
LEMMA TakeTails ==
  ASSUME NEW n \in Nat \ {0}, NEW m \in Nat, NEW q, Sound(q, n, m), q.count > 0
  PROVE  /\ Sound(B!Take(q, n), n, m)
         /\ B!Lines(B!Take(q, n), n) = Tail(B!Lines(q, n))
         /\ B!First(q) = Head(B!Lines(q, n))
         /\ B!First(q) \in 1 .. m
         /\ B!Take(q, n).count = q.count - 1
<1> DEFINE r == B!Take(q, n)
           s == B!Lines(q, n)
           t == B!Lines(r, n)
<1>1. /\ q.count \in 0 .. n /\ q.tail \in 0 .. n - 1 /\ q.head \in 0 .. n - 1
      /\ q.line \in [0 .. n - 1 -> 0 .. m] /\ q.head = B!Slot(q.tail, q.count + 1, n)
  BY DEF Sound
<1>2. /\ B!Advance(q.tail, n) \in 0 .. n - 1
      /\ B!Slot(B!Advance(q.tail, n), (q.count - 1) + 1, n) = B!Slot(q.tail, q.count + 1, n)
      /\ B!Slot(q.tail, 1, n) = q.tail
      /\ q.count - 1 \in 0 .. n /\ q.count \in Nat /\ 1 \in 1 .. q.count
      /\ \A i \in 1 .. q.count - 1 : i + 1 \in 1 .. q.count
           /\ B!Slot(B!Advance(q.tail, n), i, n) = B!Slot(q.tail, i + 1, n)
  BY <1>1, TakeIndices
<1>3. /\ r \in [line : [0 .. n - 1 -> 0 .. m], head : 0 .. n - 1, tail : 0 .. n - 1,
                count : 0 .. n]
      /\ r.line = q.line /\ r.head = q.head /\ r.tail = B!Advance(q.tail, n)
      /\ r.count = q.count - 1
  BY <1>2 DEF B!Take, Sound
<1> HIDE DEF r
<1>5. r.head = B!Slot(r.tail, r.count + 1, n)
  BY <1>1, <1>2, <1>3
<1>7. \A i \in 1 .. r.count : r.line[B!Slot(r.tail, i, n)] = q.line[B!Slot(q.tail, i + 1, n)]
  BY <1>2, <1>3
<1>8. \A i \in 1 .. r.count : r.line[B!Slot(r.tail, i, n)] # 0
  <2> TAKE i \in 1 .. r.count
  <2>1. i + 1 \in 1 .. q.count
    BY <1>2, <1>3
  <2>2. q.line[B!Slot(q.tail, i + 1, n)] # 0
    BY <2>1 DEF Sound
  <2> QED
    BY <1>7, <2>2
<1>9. Sound(r, n, m)
  BY <1>3, <1>5, <1>8 DEF Sound
<1>10. /\ s \in Seq(1 .. m) /\ Len(s) = q.count /\ s # <<>>
       /\ \A i \in 1 .. q.count : s[i] = q.line[B!Slot(q.tail, i, n)]
  BY <1>2, Reads
<1>11. /\ t \in Seq(1 .. m) /\ Len(t) = q.count - 1
       /\ \A i \in 1 .. q.count - 1 : t[i] = r.line[B!Slot(r.tail, i, n)]
  BY <1>3, <1>9, Reads
<1> HIDE DEF s, t
<1>12. B!First(q) = s[1]
  <2>1. B!Slot(q.tail, 1, n) = q.tail
    BY <1>2
  <2>2. 1 \in 1 .. q.count
    BY <1>2
  <2> QED
    BY <1>10, <2>1, <2>2 DEF B!First
<1>13. /\ Tail(s) \in Seq(1 .. m) /\ Len(Tail(s)) = q.count - 1
       /\ \A i \in 1 .. q.count - 1 : Tail(s)[i] = s[i + 1]
       /\ Head(s) = s[1] /\ Head(s) \in 1 .. m
  BY <1>2, <1>10, TailOf
<1>14. \A i \in 1 .. q.count - 1 : t[i] = Tail(s)[i]
  BY <1>2, <1>3, <1>7, <1>10, <1>11, <1>13
<1>15. t = Tail(s)
  BY <1>11, <1>13, <1>14, SeqEqual
<1> QED
  BY <1>3, <1>9, <1>12, <1>13, <1>15 DEF r, s, t

(***************************************************************************)
(* qTail = qHead, qCount = 0 leaves a sound, empty buffer.                 *)
(***************************************************************************)
LEMMA FlushEmpties ==
  ASSUME NEW n \in Nat \ {0}, NEW m \in Nat, NEW q, Sound(q, n, m)
  PROVE  Sound(B!Flushed(q), n, m) /\ B!Lines(B!Flushed(q), n) = <<>>
<1> DEFINE r == B!Flushed(q)
<1>1. q.head \in 0 .. n - 1
  BY DEF Sound
<1>2. /\ r \in [line : [0 .. n - 1 -> 0 .. m], head : 0 .. n - 1, tail : 0 .. n - 1,
                count : 0 .. n]
      /\ r.head = q.head /\ r.tail = q.head /\ r.count = 0
  <2>1. 0 \in 0 .. n
    OBVIOUS
  <2> QED
    BY <2>1 DEF Sound, B!Flushed
<1> HIDE DEF r
<1>3. Sound(r, n, m)
  <2>1. B!Slot(r.tail, r.count + 1, n) = r.head
    <3>1. r.count + 1 = 1 /\ r.tail \in 0 .. n - 1
      BY <1>1, <1>2
    <3>2. B!Slot(r.tail, 1, n) = r.tail
      BY <3>1, SlotsOf
    <3> QED
      BY <1>2, <3>1, <3>2
  <2>2. 1 .. r.count = {}
    BY <1>2
  <2> QED
    BY <1>2, <2>1, <2>2 DEF Sound
<1> QED
  BY <1>2, <1>3, Reads DEF r

(***************************************************************************)
(* A buffer stays sound when the receiver completes another sentence.      *)
(***************************************************************************)
LEMMA MoreSentences ==
  ASSUME NEW n \in Nat \ {0}, NEW m \in Nat, NEW q, Sound(q, n, m)
  PROVE  Sound(q, n, m + 1)
  BY DEF Sound

(***************************************************************************)
(* The buffers at power-on.                                                *)
(***************************************************************************)
LEMMA EmptyIsSound ==
  ASSUME NEW n \in Nat \ {0}
  PROVE  Sound(B!Empty(n), n, 0) /\ B!Lines(B!Empty(n), n) = <<>>
<1> DEFINE r == B!Empty(n)
<1>1. /\ r \in [line : [0 .. n - 1 -> 0 .. 0], head : 0 .. n - 1, tail : 0 .. n - 1,
                count : 0 .. n]
      /\ r.head = 0 /\ r.tail = 0 /\ r.count = 0
  <2>1. 0 \in 0 .. n /\ 0 \in 0 .. n - 1
    OBVIOUS
  <2> QED
    BY <2>1 DEF B!Empty
<1> HIDE DEF r
<1>2. B!Slot(r.tail, r.count + 1, n) = r.head
  <2>1. r.count + 1 = 1 /\ 0 \in 0 .. n - 1
    BY <1>1
  <2> QED
    BY <1>1, <2>1, SlotsOf
<1>3. Sound(r, n, 0)
  <2>1. 1 .. r.count = {}
    BY <1>1
  <2> QED
    BY <1>1, <1>2, <2>1 DEF Sound
<1> QED
  BY <1>1, <1>3, Reads DEF r

(* The inductive invariant: both buffers are sound.                        *)
ArraysInv ==
  /\ made \in Nat
  /\ Sound(nmeaQ, QueueLines, made) /\ Sound(bleQ, RingLines, made)

(***************************************************************************)
(* Queueing a sentence on the array is queueing it on the sequence, full   *)
(* or not.                                                                 *)
(***************************************************************************)
LEMMA FeedLineImplements ==
  ASSUME ArraysInv, B!FeedLine
  PROVE  ArraysInv' /\ B!P!FeedLine
<1> DEFINE queueNow == B!Lines(nmeaQ, QueueLines)
<1>1. QueueLines \in Nat \ {0} /\ RingLines \in Nat \ {0}
  BY ConstantsAssumption
<1>2. /\ made \in Nat /\ made' = made + 1 /\ made' \in Nat /\ made' \in 1 .. made'
      /\ Sound(nmeaQ, QueueLines, made') /\ Sound(bleQ, RingLines, made') /\ bleQ' = bleQ
  BY <1>1, MoreSentences DEF ArraysInv, B!FeedLine
<1>3. Len(queueNow) = nmeaQ.count
  BY <1>1, <1>2, Reads
<1>4. /\ Sound(nmeaQ', QueueLines, made')
      /\ B!Lines(nmeaQ', QueueLines) = IF Len(queueNow) < QueueLines
                                        THEN Append(queueNow, made + 1) ELSE queueNow
  <2>1. CASE nmeaQ.count < QueueLines
    <3>1. nmeaQ' = B!Put(nmeaQ, made', QueueLines)
      BY <1>2, <2>1 DEF B!FeedLine
    <3> QED
      BY <1>1, <1>2, <1>3, <2>1, <3>1, PutAppends
  <2>2. CASE ~(nmeaQ.count < QueueLines)
    BY <1>2, <1>3, <2>2 DEF B!FeedLine
  <2> QED
    BY <2>1, <2>2
<1>5. ArraysInv'
  BY <1>2, <1>4 DEF ArraysInv
<1>6. B!P!FeedLine
  BY <1>2, <1>4 DEF B!FeedLine, B!P!FeedLine, B!P!Enqueue, B!P!build, B!P!tcp, B!P!ble, B!tcp
<1> QED
  BY <1>5, <1>6

(***************************************************************************)
(* The ring drops its oldest line and takes the new one.                   *)
(***************************************************************************)
LEMMA TeeImplements ==
  ASSUME ArraysInv, NEW x \in 1 .. made
  PROVE  /\ Sound(B!OnNmeaLine(bleQ, x), RingLines, made)
         /\ B!Lines(B!OnNmeaLine(bleQ, x), RingLines) = B!P!Tee(x)
<1> DEFINE ringNow == B!Lines(bleQ, RingLines)
           room == IF bleQ.count = RingLines THEN B!Take(bleQ, RingLines) ELSE bleQ
<1>1. RingLines \in Nat \ {0} /\ made \in Nat /\ Sound(bleQ, RingLines, made)
  BY ConstantsAssumption DEF ArraysInv
<1>2. Len(ringNow) = bleQ.count /\ bleQ.count \in Nat /\ bleQ.count <= RingLines
  BY <1>1, Reads
<1>3. /\ Sound(room, RingLines, made) /\ room.count < RingLines
      /\ B!Lines(room, RingLines) = IF Len(ringNow) = RingLines THEN Tail(ringNow) ELSE ringNow
  <2>1. CASE bleQ.count = RingLines
    <3>1. bleQ.count > 0 /\ bleQ.count - 1 < RingLines
      BY <1>1, <2>1
    <3> QED
      BY <1>1, <1>2, <2>1, <3>1, TakeTails
  <2>2. CASE bleQ.count # RingLines
    <3>1. bleQ.count < RingLines
      BY <1>1, <1>2, <2>2
    <3> QED
      BY <1>1, <1>2, <2>2, <3>1
  <2> QED
    BY <2>1, <2>2
<1> HIDE DEF room
<1>4. /\ Sound(B!Put(room, x, RingLines), RingLines, made)
      /\ B!Lines(B!Put(room, x, RingLines), RingLines) = Append(B!Lines(room, RingLines), x)
  BY <1>1, <1>3, PutAppends
<1> QED
  BY <1>1, <1>3, <1>4 DEF B!OnNmeaLine, B!P!Tee, room

(***************************************************************************)
(* One line leaves the queue and may enter the ring.                       *)
(***************************************************************************)
LEMMA DrainLineImplements ==
  ASSUME ArraysInv, B!DrainLine
  PROVE  ArraysInv' /\ B!P!DrainLine
<1>1. /\ QueueLines \in Nat \ {0} /\ made \in Nat /\ Sound(nmeaQ, QueueLines, made)
      /\ nmeaQ.count > 0 /\ made' = made
  BY ConstantsAssumption DEF ArraysInv, B!DrainLine
<1>2. /\ Sound(nmeaQ', QueueLines, made)
      /\ B!Lines(nmeaQ', QueueLines) = Tail(B!Lines(nmeaQ, QueueLines))
      /\ B!First(nmeaQ) = Head(B!Lines(nmeaQ, QueueLines)) /\ B!First(nmeaQ) \in 1 .. made
  BY <1>1, TakeTails DEF B!DrainLine
<1>3. B!Lines(nmeaQ, QueueLines) # <<>>
  BY <1>1, Reads
<1>4. PICK fits \in BOOLEAN :
        bleQ' = IF fits THEN B!OnNmeaLine(bleQ, B!First(nmeaQ)) ELSE bleQ
  BY DEF B!DrainLine
<1>5. /\ Sound(bleQ', RingLines, made)
      /\ B!Lines(bleQ', RingLines) = IF fits THEN B!P!Tee(B!First(nmeaQ))
                                             ELSE B!Lines(bleQ, RingLines)
  BY <1>2, <1>4, TeeImplements DEF ArraysInv
<1>6. ArraysInv'
  BY <1>1, <1>2, <1>5 DEF ArraysInv
<1>7. B!P!DrainLine
  BY <1>2, <1>3, <1>5 DEF B!DrainLine, B!P!DrainLine, B!P!build, B!P!tcp, B!tcp
<1> QED
  BY <1>6, <1>7

(***************************************************************************)
(* The drain ends on a count of zero, which is an empty queue.             *)
(***************************************************************************)
LEMMA DrainDoneImplements ==
  ASSUME ArraysInv, B!DrainDone
  PROVE  ArraysInv' /\ B!P!DrainDone
<1>1. made' = made /\ nmeaQ' = nmeaQ /\ bleQ' = bleQ /\ nmeaQ.count = 0
  BY DEF B!DrainDone, B!buffers
<1>2. B!Lines(nmeaQ, QueueLines) = <<>>
  BY <1>1, Reads, ConstantsAssumption DEF ArraysInv
<1>3. ArraysInv'
  BY <1>1 DEF ArraysInv
<1>4. B!P!DrainDone
  BY <1>1, <1>2 DEF B!DrainDone, B!P!DrainDone, B!P!build, B!P!gnss, B!P!tcp, B!P!ble, B!tcp
<1> QED
  BY <1>3, <1>4

(***************************************************************************)
(* The flush of bleNusPoll(), or none.                                     *)
(***************************************************************************)
LEMMA BlePollImplements ==
  ASSUME ArraysInv, B!BlePoll
  PROVE  ArraysInv' /\ B!P!BlePoll
<1>1. /\ RingLines \in Nat \ {0} /\ made \in Nat /\ Sound(bleQ, RingLines, made)
      /\ made' = made /\ nmeaQ' = nmeaQ
  BY ConstantsAssumption DEF ArraysInv, B!BlePoll
<1>2. /\ Sound(bleQ', RingLines, made)
      /\ listener' = None => B!Lines(bleQ', RingLines) = <<>>
      /\ listener' # None => bleQ' = bleQ
  <2>1. CASE listener' = None
    BY <1>1, <2>1, FlushEmpties DEF B!BlePoll
  <2>2. CASE listener' # None
    BY <1>1, <2>2 DEF B!BlePoll
  <2> QED
    BY <2>1, <2>2
<1>3. ArraysInv'
  BY <1>1, <1>2 DEF ArraysInv
<1>4. B!P!BlePoll
  BY <1>1, <1>2 DEF B!BlePoll, B!P!BlePoll, B!P!Flushed, B!P!build, B!P!gnss, B!P!tcp, B!tcp
<1> QED
  BY <1>3, <1>4

(***************************************************************************)
(* One line leaves the ring.                                               *)
(***************************************************************************)
LEMMA NotifyImplements ==
  ASSUME ArraysInv, B!Notify
  PROVE  ArraysInv' /\ B!P!Notify
<1>1. /\ RingLines \in Nat \ {0} /\ made \in Nat /\ Sound(bleQ, RingLines, made)
      /\ bleQ.count > 0 /\ made' = made /\ nmeaQ' = nmeaQ
  BY ConstantsAssumption DEF ArraysInv, B!Notify
<1>2. /\ Sound(bleQ', RingLines, made)
      /\ B!Lines(bleQ', RingLines) = Tail(B!Lines(bleQ, RingLines))
      /\ B!First(bleQ) = Head(B!Lines(bleQ, RingLines))
  BY <1>1, TakeTails DEF B!Notify
<1>3. B!Lines(bleQ, RingLines) # <<>>
  BY <1>1, Reads
<1>4. ArraysInv'
  BY <1>1, <1>2 DEF ArraysInv
<1>5. B!P!Notify
  BY <1>1, <1>2, <1>3 DEF B!Notify, B!P!Notify, B!P!build, B!P!gnss, B!P!tcp, B!tcp
<1> QED
  BY <1>4, <1>5

(***************************************************************************)
(* The sends end on an empty ring or at kMaxNotifyPerPass.                 *)
(***************************************************************************)
LEMMA NotifyDoneImplements ==
  ASSUME ArraysInv, B!NotifyDone
  PROVE  ArraysInv' /\ B!P!NotifyDone
<1>1. /\ made' = made /\ nmeaQ' = nmeaQ /\ bleQ' = bleQ
      /\ bleQ.count = 0 \/ sent = MaxNotify
  BY DEF B!NotifyDone, B!buffers
<1>2. bleQ.count = 0 => B!Lines(bleQ, RingLines) = <<>>
  BY Reads, ConstantsAssumption DEF ArraysInv
<1>3. ArraysInv'
  BY <1>1 DEF ArraysInv
<1>4. B!P!NotifyDone
  BY <1>1, <1>2 DEF B!NotifyDone, B!P!NotifyDone, B!P!build, B!P!gnss, B!P!tcp, B!P!ble, B!tcp
<1> QED
  BY <1>3, <1>4

(***************************************************************************)
(* The steps that leave both buffers alone.                                *)
(***************************************************************************)
LEMMA ElsewhereImplements ==
  ASSUME ArraysInv, B!Elsewhere
  PROVE  ArraysInv' /\ B!P!Next
<1>1. nmeaQ' = nmeaQ /\ bleQ' = bleQ
  BY DEF B!Elsewhere, B!buffers
<1>2. made' = made
  BY DEF B!Elsewhere, B!P!GnssDone, B!P!TcpPoll, B!P!World, B!P!PhoneConnects, B!P!PhoneLeaves,
     B!P!WifiUp, B!P!WifiDown, B!P!gnss
<1>3. ArraysInv'
  BY <1>1, <1>2 DEF ArraysInv
<1>4. B!P!Next
  BY DEF B!Elsewhere, B!P!Next, B!P!Superloop
<1> QED
  BY <1>3, <1>4

(***************************************************************************)
(* Every step keeps both buffers sound and is a step of NmeaPipeline.      *)
(***************************************************************************)
LEMMA ArraysStep ==
  ASSUME ArraysInv, [B!Next]_B!vars
  PROVE  ArraysInv' /\ [B!P!Next]_B!P!vars
<1>1. CASE UNCHANGED B!vars
  <2>1. ArraysInv'
    BY <1>1 DEF ArraysInv, B!vars, B!buffers
  <2>2. UNCHANGED B!P!vars
    BY <1>1 DEF B!vars, B!buffers, B!tcp, B!P!vars, B!P!build, B!P!gnss, B!P!tcp, B!P!ble
  <2> QED
    BY <2>1, <2>2
<1>2. CASE B!FeedLine
  BY <1>2, FeedLineImplements DEF B!P!Next, B!P!Superloop
<1>3. CASE B!DrainLine
  BY <1>3, DrainLineImplements DEF B!P!Next, B!P!Superloop
<1>4. CASE B!DrainDone
  BY <1>4, DrainDoneImplements DEF B!P!Next, B!P!Superloop
<1>5. CASE B!BlePoll
  BY <1>5, BlePollImplements DEF B!P!Next, B!P!Superloop
<1>6. CASE B!Notify
  BY <1>6, NotifyImplements DEF B!P!Next, B!P!Superloop
<1>7. CASE B!NotifyDone
  BY <1>7, NotifyDoneImplements DEF B!P!Next, B!P!Superloop
<1>8. CASE B!Elsewhere
  BY <1>8, ElsewhereImplements
<1> QED
  BY <1>1, <1>2, <1>3, <1>4, <1>5, <1>6, <1>7, <1>8 DEF B!Next

(***************************************************************************)
(* Both buffers are sound at power-on.                                     *)
(***************************************************************************)
LEMMA ArraysStart == B!Init => ArraysInv
  BY EmptyIsSound, ConstantsAssumption DEF B!Init, B!P!Init, ArraysInv

(***************************************************************************)
(* Head, tail and count agree in every reachable state, whichever of the   *)
(* four functions wrote them last, for any two sizes of the buffers.       *)
(***************************************************************************)
THEOREM IndicesNeverDisagree == B!Spec => []B!IndicesAgree
<1>1. ArraysInv => B!IndicesAgree
  BY DEF ArraysInv, Sound, B!IndicesAgree, B!Agree, B!Buffers
<1>2. ArraysInv /\ [B!Next]_B!vars => ArraysInv'
  BY ArraysStep
<1> QED
  BY <1>1, <1>2, ArraysStart, PTL DEF B!Spec

(***************************************************************************)
(* The arrays implement the sequences of NmeaPipeline, so that what is     *)
(* proved of NmeaPipeline above holds of the buffers as the code keeps     *)
(* them.                                                                   *)
(***************************************************************************)
THEOREM BuffersImplement == B!Spec => B!Implements
<1>1. ArraysInv /\ [B!Next]_B!vars => ArraysInv'
  BY ArraysStep
<1>2. ArraysInv /\ [B!Next]_B!vars => [B!P!Next]_B!P!vars
  BY ArraysStep
<1>3. B!Init => B!P!Init
  BY DEF B!Init
<1> QED
  BY <1>1, <1>2, <1>3, ArraysStart, PTL DEF B!Spec, B!Implements, B!P!Spec
=============================================================================
