----------------------------- MODULE NmeaBuffers -----------------------------
(***************************************************************************)
(* The two line buffers of NmeaPipeline as the code keeps them: an array,  *)
(* the index of the next slot to fill, the index of the oldest line and a  *)
(* count, for the queue of gnss.cpp and for the ring of ble_nus.cpp.  Each *)
(* buffer is written and emptied by different functions of one superloop.  *)
(*                                                                         *)
(* NmeaPipeline, with its sequences read off the arrays, is what these     *)
(* buffers promise; the steps that touch neither buffer are its own.       *)
(***************************************************************************)
EXTENDS Integers, Sequences, FiniteSets

CONSTANTS Phones, Centrals, None, QueueLines, RingLines, MaxClients, MaxNotify,
          MaxLines                                        \* as in NmeaPipeline

VARIABLES
  nmeaQ,          \* nmeaQueue, nmeaQHead, nmeaQTail, nmeaQCount
  bleQ,           \* q, qHead, qTail, qCount
  coex, bleUp, phase, made, wifi, bound, clients, conn, tcpClients, sent,
  listener, passStart, drained, heard, bleHeard, subMark  \* as in NmeaPipeline

(* The lines a buffer of n slots holds, oldest first.                      *)
Slot(tail, i, n) == IF tail + i - 1 < n THEN tail + i - 1 ELSE tail + i - 1 - n
Lines(q, n)      == [i \in 1 .. q.count |-> q.line[Slot(q.tail, i, n)]]

P == INSTANCE NmeaPipeline WITH queue <- Lines(nmeaQ, QueueLines),
                                ring  <- Lines(bleQ, RingLines)

buffers == <<nmeaQ, bleQ>>
tcp     == <<bound, clients, tcpClients>>
vars    == <<buffers, coex, bleUp, phase, made, wifi, tcp, conn, sent, listener,
             passStart, drained, heard, bleHeard, subMark>>

Buffers(n) == [line : [0 .. n - 1 -> 0 .. made], head : 0 .. n - 1,
               tail : 0 .. n - 1, count : 0 .. n]

Empty(n) == [line |-> [i \in 0 .. n - 1 |-> 0], head |-> 0, tail |-> 0, count |-> 0]

Init ==
  /\ nmeaQ = Empty(QueueLines) /\ bleQ = Empty(RingLines)
  /\ P!Init

-----------------------------------------------------------------------------
(* What the functions do to a buffer of n slots.                           *)

Advance(i, n) == (i + 1) % n

Put(q, x, n) == [line  |-> [q.line EXCEPT ![q.head] = x],
                 head  |-> Advance(q.head, n),
                 tail  |-> q.tail,
                 count |-> q.count + 1]

Take(q, n) == [q EXCEPT !.tail = Advance(q.tail, n), !.count = q.count - 1]

First(q) == q.line[q.tail]

(* qTail = qHead; qCount = 0.                                              *)
Flushed(q) == [q EXCEPT !.tail = q.head, !.count = 0]

-----------------------------------------------------------------------------
(* feedNmeaByte() at the end of a sentence.                                *)
FeedLine ==
  /\ phase = "gnss" /\ made < MaxLines
  /\ made' = made + 1
  /\ nmeaQ' = IF nmeaQ.count < QueueLines
                THEN Put(nmeaQ, made + 1, QueueLines) ELSE nmeaQ
  /\ UNCHANGED <<bleQ, coex, bleUp, phase, wifi, tcp, conn, sent, listener,
                 passStart, drained, heard, bleHeard, subMark>>

(* bleNusOnNmeaLine().                                                     *)
OnNmeaLine(q, x) ==
  IF ~bleUp \/ listener = None THEN q
  ELSE Put(IF q.count = RingLines THEN Take(q, RingLines) ELSE q, x, RingLines)

(* One turn of the drain loop: gnssNextNmea(), the clients, the tee.       *)
DrainLine ==
  /\ phase = "drain" /\ nmeaQ.count > 0
  /\ nmeaQ' = Take(nmeaQ, QueueLines)
  /\ drained' = First(nmeaQ)
  /\ \E fits \in BOOLEAN : bleQ' = IF fits THEN OnNmeaLine(bleQ, First(nmeaQ)) ELSE bleQ
  /\ P!Broadcast(First(nmeaQ))
  /\ UNCHANGED <<coex, bleUp, phase, made, wifi, tcp, conn, sent, listener,
                 passStart, bleHeard, subMark>>

DrainDone ==
  /\ phase = "drain" /\ nmeaQ.count = 0
  /\ IF bleUp THEN phase' = "ble" /\ UNCHANGED passStart ELSE P!EndOfPass
  /\ UNCHANGED <<buffers, coex, bleUp, made, wifi, tcp, conn, sent, listener,
                 drained, heard, bleHeard, subMark>>

(* bleNusPoll() up to the sends.                                           *)
BlePoll ==
  /\ phase = "ble"
  /\ listener' \in IF listener = None THEN Centrals \cup {None}
                                      ELSE {listener, None}
  /\ IF listener' = None
       THEN bleQ' = Flushed(bleQ) /\ P!EndOfPass
       ELSE UNCHANGED <<bleQ, passStart>> /\ phase' = "notify"
  /\ sent' = 0
  /\ IF listener' = listener
       THEN UNCHANGED <<bleHeard, subMark>>
       ELSE bleHeard' = 0 /\ subMark' = made
  /\ UNCHANGED <<nmeaQ, coex, bleUp, made, wifi, tcp, conn, drained, heard>>

Notify ==
  /\ phase = "notify" /\ bleQ.count > 0 /\ sent < MaxNotify
  /\ bleQ' = Take(bleQ, RingLines)
  /\ sent' = sent + 1
  /\ bleHeard' \in {bleHeard, First(bleQ)}
  /\ UNCHANGED <<nmeaQ, coex, bleUp, phase, made, wifi, tcp, conn, listener,
                 passStart, drained, heard, subMark>>

NotifyDone ==
  /\ phase = "notify" /\ (bleQ.count = 0 \/ sent = MaxNotify)
  /\ P!EndOfPass
  /\ UNCHANGED <<buffers, coex, bleUp, made, wifi, tcp, conn, sent, listener,
                 drained, heard, bleHeard, subMark>>

(* The steps that leave both buffers alone.                                *)
Elsewhere == UNCHANGED buffers /\ (P!GnssDone \/ P!TcpPoll \/ P!World)

Next == FeedLine \/ DrainLine \/ DrainDone \/ BlePoll \/ Notify \/ NotifyDone
          \/ Elsewhere

Spec == Init /\ [][Next]_vars

-----------------------------------------------------------------------------
(* Properties.                                                             *)

(* head, tail and count are written by different functions: the three      *)
(* never come to disagree, so that a full buffer is not taken for an empty *)
(* one, and no line is read that was not written.                          *)
Agree(q, n) ==
  /\ q \in Buffers(n)
  /\ q.head = Slot(q.tail, q.count + 1, n)
  /\ \A i \in 1 .. q.count : q.line[Slot(q.tail, i, n)] # 0
IndicesAgree == Agree(nmeaQ, QueueLines) /\ Agree(bleQ, RingLines)

(* The arrays behave as the sequences of NmeaPipeline at every step:       *)
(* across the wrap of an index, when the queue drops its newest line, when *)
(* the ring drops its oldest, and when it is flushed half read.            *)
Implements == P!Spec
=============================================================================
