------------------------- MODULE NtripClient_proofs -------------------------
(***************************************************************************)
(* Proofs about NtripClient, for every number of SSID slots and every      *)
(* value of the timeouts, delays and bounds.                               *)
(***************************************************************************)
EXTENDS NtripClient, TLAPS

(***************************************************************************)
(* Ages saturate: whatever time passes, an age stays an age.               *)
(***************************************************************************)
LEMMA AgedIsAge ==
  ASSUME NEW d \in Nat
  PROVE  /\ \A age \in 0 .. AgeCap : Aged(age, d) \in 0 .. AgeCap
         /\ \A age \in 0 .. Never : Aged(age, d) \in 0 .. Never
  BY ConstantsAssumption DEF Aged, AtMost, Never

(***************************************************************************)
(* The slot after any slot is a slot.                                      *)
(***************************************************************************)
LEMMA NextSlot ==
  ASSUME NEW slot \in Ssids
  PROVE  (slot + 1) % MaxNets \in 0 .. MaxNets - 1
  BY ConstantsAssumption

(***************************************************************************)
(* A doubled retry delay stays between the first and the largest one.      *)
(***************************************************************************)
LEMMA NextDelayInRange ==
  ASSUME retryDelay \in RetryInit .. RetryMax
  PROVE  NextDelay \in RetryInit .. RetryMax
  BY ConstantsAssumption DEF NextDelay, AtMost

(***************************************************************************)
(* The helpers every handler ends in: enter() and sock.stop().             *)
(***************************************************************************)
LEMMA EnterTyped == 
  ASSUME NEW s \in States, Enter(s)
  PROVE state' \in States /\ stateAge' \in 0 .. AgeCap
  BY ConstantsAssumption DEF Enter
(***************************************************************************)
(* A stopped socket has no peer and nothing to read.                       *)
(***************************************************************************)
LEMMA StopTyped == 
  ASSUME StopSocket
  PROVE peer' \in Peers /\ rx' \in Seq(Items)
  BY DEF StopSocket, Peers

(***************************************************************************)
(* One item is a buffer.                                                   *)
(***************************************************************************)
LEMMA SingletonSeq == ASSUME NEW S, NEW x \in S PROVE <<x>> \in Seq(S)
  OBVIOUS

(***************************************************************************)
(* So is none.                                                             *)
(***************************************************************************)
LEMMA EmptyIsSeq == ASSUME NEW S PROVE <<>> \in Seq(S)
  OBVIOUS

(***************************************************************************)
(* The initial state is well typed.                                        *)
(***************************************************************************)
LEMMA InitTyped == Init => TypeOK
<1> SUFFICES ASSUME Init PROVE TypeOK
  OBVIOUS
<1>1. DataOK
  BY ConstantsAssumption DEF Init, DataOK, States, Peers, Never
<1>2. FlagsOK
  BY Zenon DEF Init, FlagsOK
<1>3. QED
  BY <1>1, <1>2 DEF TypeOK

(***************************************************************************)
(* Numbers, state and buffer stay in range, one lemma per arm of the switch. *)
(***************************************************************************)
LEMMA PollWifiKeepsData == DataOK /\ PollWifiConnecting => DataOK'
<1> SUFFICES ASSUME DataOK, PollWifiConnecting PROVE DataOK'
  OBVIOUS
<1> USE DEF DataOK
<1>1. CASE Ssids = {}
  BY <1>1, ConstantsAssumption DEF PollWifiConnecting, Enter, socket, States
<1>2. CASE Ssids # {}
  <2>1. PICK d \in 0 .. StallMax, up \in BOOLEAN, slot \in Ssids :
           /\ Blocked(d) /\ wifiIdx' = (slot + 1) % MaxNets
           /\ Enter(IF up THEN "CasterConnecting" ELSE "WaitRetry")
    BY <1>2 DEF PollWifiConnecting
  <2>2. d \in Nat
    BY ConstantsAssumption
  <2>3. ggaAge' \in 0 .. Never /\ rtcmAge' \in 0 .. Never /\ uptime' \in 0 .. AgeCap
    BY <2>1, <2>2, AgedIsAge DEF Blocked
  <2>4. wifiIdx' \in 0 .. MaxNets - 1
    BY <2>1, NextSlot
  <2>5. UNCHANGED <<retryDelay, socket>>
    BY DEF PollWifiConnecting
  <2>6. state' \in States /\ stateAge' \in 0 .. AgeCap
    BY <2>1, ConstantsAssumption DEF Enter, States
  <2>. QED
    BY <2>3, <2>4, <2>5, <2>6 DEF socket
<1>3. QED
  BY <1>1, <1>2

(***************************************************************************)
(* The caster handshake: one arm of the switch.                            *)
(***************************************************************************)
LEMMA PollCasterKeepsData == DataOK /\ PollCasterConnecting => DataOK'
<1> SUFFICES ASSUME DataOK, PollCasterConnecting PROVE DataOK'
  OBVIOUS
<1> USE DEF DataOK
<1>0. UNCHANGED <<retryDelay, wifiIdx>>
    BY DEF PollCasterConnecting
<1>1. CASE wifi'
  <2>1. PICK d \in 0 .. StallMax : Blocked(d)
    BY <1>1 DEF PollCasterConnecting
  <2>2. d \in Nat
    BY ConstantsAssumption
  <2>3. ggaAge' \in 0 .. Never /\ rtcmAge' \in 0 .. Never /\ uptime' \in 0 .. AgeCap
    BY <2>1, <2>2, AgedIsAge DEF Blocked
  <2>4. CASE SendRequest /\ Enter("HeaderWait")
    <3>1. peer' \in Peers
      BY <2>4 DEF SendRequest, Peers
    <3>2. rx' \in Seq(Items)
      <4>1. "icy" \in Items
        BY DEF Items
      <4>2. <<"icy">> \in Seq(Items)
        BY <4>1, SingletonSeq
      <4>3. QED
        BY <2>4, <4>2, EmptyIsSeq DEF SendRequest
    <3>3. QED
      BY <2>3, <2>4, <1>0, <3>1, <3>2, EnterTyped DEF States
  <2>5. CASE Backoff
    BY <2>3, <2>5, <1>0, EnterTyped, StopTyped DEF Backoff, States
  <2>. QED
    BY <2>4, <2>5, <1>1 DEF PollCasterConnecting
<1>2. CASE ~wifi'
  BY <1>2, <1>0, EnterTyped DEF PollCasterConnecting, socket, States
<1>3. QED
  BY <1>1, <1>2

(***************************************************************************)
(* The wait for the header: one arm of the switch.                         *)
(***************************************************************************)
LEMMA PollHeaderKeepsData == DataOK /\ PollHeaderWait => DataOK'
<1> SUFFICES ASSUME DataOK, PollHeaderWait PROVE DataOK'
  OBVIOUS
<1> USE DEF DataOK
<1>0. UNCHANGED <<wifiIdx, uptime>>
  BY DEF PollHeaderWait, world
<1>1. CASE Backoff /\ UNCHANGED <<rtcmAge, retryDelay, ggaAge>>
  BY <1>0, <1>1, EnterTyped, StopTyped DEF Backoff, States
<1>2. CASE rx' = <<>> /\ UNCHANGED <<state, stateAge, rtcmAge, retryDelay, ggaAge, peer>>
  BY <1>0, <1>2
<1>3. ASSUME NEW end \in DOMAIN rx, Accepted(end)
      PROVE  DataOK'
  <2>1. rx' \in Seq(Items)
    BY <1>3 DEF Accepted
  <2>2. rtcmAge' \in 0 .. Never /\ retryDelay' \in RetryInit .. RetryMax
    BY <1>3, ConstantsAssumption DEF Accepted, Never
  <2>3. QED
    <3>1. ggaAge' \in 0 .. Never
      BY <1>3, ConstantsAssumption DEF Accepted, GgaAgeOnConnect, Never
    <3>2. QED
      BY <1>3, <1>0, <2>1, <2>2, <3>1, EnterTyped DEF Accepted, States
<1>4. QED
  BY <1>1, <1>2, <1>3 DEF PollHeaderWait

(***************************************************************************)
(* The stream: one arm of the switch.                                      *)
(***************************************************************************)
LEMMA PollConnectedKeepsData == DataOK /\ PollConnected => DataOK'
<1> SUFFICES ASSUME DataOK, PollConnected PROVE DataOK'
  OBVIOUS
<1> USE DEF DataOK
<1>0. UNCHANGED <<wifiIdx, uptime, retryDelay>>
  BY DEF PollConnected
<1>1. CASE Backoff /\ UNCHANGED <<rtcmAge, ggaAge>>
  BY <1>0, <1>1, EnterTyped, StopTyped DEF Backoff, States
<1>2. CASE Stream
  <2>1. rtcmAge' \in 0 .. Never
    BY <1>2, ConstantsAssumption DEF Stream, AgeAfterDrain, Never
  <2>2. CASE Backoff /\ UNCHANGED ggaAge
    BY <1>0, <2>1, <2>2, EnterTyped, StopTyped DEF Backoff, States
  <2>3. CASE ~(Backoff /\ UNCHANGED ggaAge)
    <3>1. ggaAge' \in 0 .. Never
      BY <1>2, <2>3, ConstantsAssumption DEF Stream, Never
    <3>2. rx' = <<>> /\ UNCHANGED <<state, stateAge, peer>>
      BY <1>2, <2>3 DEF Stream
    <3>. QED
      BY <1>0, <2>1, <3>1, <3>2
  <2>. QED
    BY <2>2, <2>3
<1>3. QED
  BY <1>1, <1>2 DEF PollConnected

(***************************************************************************)
(* The wait before a retry: one arm of the switch.                         *)
(***************************************************************************)
LEMMA PollRetryKeepsData == DataOK /\ PollWaitRetry => DataOK'
<1> SUFFICES ASSUME DataOK, PollWaitRetry PROVE DataOK'
  OBVIOUS
<1> USE DEF DataOK
<1>0. UNCHANGED <<wifiIdx, uptime, ggaAge, rtcmAge, peer, rx>>
  BY DEF PollWaitRetry, socket, world
<1>1. CASE UNCHANGED <<state, stateAge, retryDelay>>
  BY <1>0, <1>1
<1>2. CASE /\ retryDelay' = NextDelay 
           /\ Enter(IF wifi' THEN "CasterConnecting" ELSE "WifiConnecting")
  BY <1>0, <1>2, EnterTyped, NextDelayInRange DEF States
<1>3. QED
  BY <1>1, <1>2 DEF PollWaitRetry

(***************************************************************************)
(* The caster, the radio, the receiver and the clock.                      *)
(***************************************************************************)
LEMMA WorldKeepsData == DataOK /\ World => DataOK'
<1> SUFFICES ASSUME DataOK, World PROVE DataOK'
  OBVIOUS
<1> USE DEF DataOK, client, link, socket, world
<1>1. CASE WifiDrops
  BY <1>1 DEF WifiDrops, Peers
<1>2. CASE WifiReturns
  BY <1>2 DEF WifiReturns
<1>3. CASE CasterSends
  BY <1>3 DEF CasterSends
<1>4. CASE CasterCloses
  BY <1>4 DEF CasterCloses, Peers
<1>5. CASE CasterDies
  BY <1>5 DEF CasterDies, Peers
<1>6. CASE FixAcquired
  BY <1>6 DEF FixAcquired
<1>7. CASE Heal
  BY <1>7 DEF Heal
<1>8. CASE Wrap
  BY <1>8, ConstantsAssumption DEF Wrap
<1>9. QED
  BY <1>1, <1>2, <1>3, <1>4, <1>5, <1>6, <1>7, <1>8 DEF World

(***************************************************************************)
(* Every step keeps numbers, state and buffer in range.                    *)
(***************************************************************************)
LEMMA StepKeepsData == DataOK /\ [Next]_vars => DataOK'
<1> SUFFICES ASSUME DataOK, [Next]_vars PROVE DataOK'
  OBVIOUS
<1>1. CASE PollApMode
  <2>1. CASE StopSocket /\ Enter("WaitRetry")
    BY <1>1, <2>1, EnterTyped, StopTyped DEF DataOK, PollApMode, world, States
  <2>2. CASE UNCHANGED <<socket, state, stateAge>>
    BY <1>1, <2>2 DEF DataOK, PollApMode, socket, world
  <2>3. QED
    BY <1>1, <2>1, <2>2 DEF PollApMode
<1>2. CASE RequestReconnect
  BY <1>2, ConstantsAssumption
     DEF DataOK, RequestReconnect, Enter, StopSocket, world, States, Peers
<1>3. CASE Tick
  BY <1>3, AgedIsAge DEF DataOK, Tick, Blocked, Items
<1>4. CASE UNCHANGED vars
  BY <1>4 DEF DataOK, vars, client, link, socket, world
<1>5. QED
  BY <1>1, <1>2, <1>3, <1>4, PollWifiKeepsData, PollCasterKeepsData,
     PollHeaderKeepsData, PollConnectedKeepsData, PollRetryKeepsData,
     WorldKeepsData DEF Next, Poll

(***************************************************************************)
(* The flags stay Booleans.                                                *)
(***************************************************************************)
LEMMA StepKeepsFlags == FlagsOK /\ [Next]_vars => FlagsOK'
<1> SUFFICES ASSUME FlagsOK, [Next]_vars PROVE FlagsOK'
  OBVIOUS
<1> USE DEF FlagsOK, client, link, socket, world
<1>1. CASE PollApMode
  BY Zenon, <1>1 DEF PollApMode, StopSocket
<1>2. CASE PollWifiConnecting
  BY Zenon, <1>2 DEF PollWifiConnecting, Polling
<1>3. CASE PollCasterConnecting
  BY Zenon, <1>3 DEF PollCasterConnecting, Polling, SecondStatus, SendRequest, Backoff, StopSocket
<1>4. CASE PollHeaderWait
  BY Zenon, <1>4 DEF PollHeaderWait, Polling, Accepted, Backoff, StopSocket, Verdict
<1>5. CASE PollConnected
  <2>1. wifi' \in BOOLEAN /\ wifiUp' \in BOOLEAN /\ polled' \in BOOLEAN
    BY Zenon, <1>5 DEF PollConnected, Polling, SecondStatus
  <2>2. UNCHANGED <<hdrOk, apActive, fix, healthy>>
    BY Zenon, <1>5 DEF PollConnected
  <2>3. CASE Backoff
    BY Zenon, <2>1, <2>2, <2>3 DEF Backoff, StopSocket
  <2>4. CASE Stream /\ ~Backoff
    BY Zenon, <2>1, <2>2, <2>4 DEF Stream
  <2>5. QED
    BY Zenon, <1>5, <2>3, <2>4 DEF PollConnected
<1>6. CASE PollWaitRetry
  BY Zenon, <1>6 DEF PollWaitRetry, Polling, SecondStatus
<1>7. CASE RequestReconnect
  BY Zenon, <1>7 DEF RequestReconnect, StopSocket
<1>8. CASE Tick
  BY Zenon, <1>8 DEF Tick, Blocked
<1>9. CASE World
  <2>1. CASE WifiDrops \/ WifiReturns
    BY Zenon, <2>1 DEF WifiDrops, WifiReturns
  <2>2. CASE CasterSends
    <3>1. granted' \in BOOLEAN
      BY Zenon, <2>2 DEF CasterSends
    <3>2. UNCHANGED <<hdrOk, wifiUp, ntripConnected, apActive, wifi, fix, peerGga, healthy,
                      polled>>
      BY Zenon, <2>2 DEF CasterSends
    <3>3. QED
      BY Zenon, <3>1, <3>2
  <2>3. CASE CasterCloses \/ CasterDies
    <3>1. UNCHANGED <<hdrOk, wifiUp, ntripConnected, apActive, wifi, fix, peerGga, healthy,
                      polled, granted>>
      <4>1. CASE CasterCloses
        BY Zenon, <4>1 DEF CasterCloses
      <4>2. CASE CasterDies
        BY Zenon, <4>2 DEF CasterDies
      <4>3. QED
        BY Zenon, <2>3, <4>1, <4>2
    <3>2. QED
      BY Zenon, <3>1
  <2>4. CASE FixAcquired \/ Heal
    BY Zenon, <2>4 DEF FixAcquired, Heal
  <2>5. CASE Wrap
    BY Zenon, <2>5 DEF Wrap
  <2>6. QED
    BY Zenon, <1>9, <2>1, <2>2, <2>3, <2>4, <2>5 DEF World
<1>10. CASE UNCHANGED vars
  BY Zenon, <1>10 DEF vars
<1>11. QED
  BY <1>1, <1>2, <1>3, <1>4, <1>5, <1>6, <1>7, <1>8, <1>9, <1>10 DEF Next, Poll

(***************************************************************************)
(* Every reachable state of the client is well typed: in particular the    *)
(* retry delay never leaves its range, however often it doubles.           *)
(***************************************************************************)
THEOREM TypeCorrect == Spec => []TypeOK
<1>1. TypeOK /\ [Next]_vars => TypeOK'
  BY StepKeepsData, StepKeepsFlags DEF TypeOK
<1>2. QED
  BY <1>1, InitTyped, PTL DEF Spec

-----------------------------------------------------------------------------
(***************************************************************************)
(* The inductive invariant of the safety properties.  A verdict, or a line *)
(* that will become one, is evidence of this connection's grant; and a     *)
(* rover in AP mode never associates, so it never opens a socket.          *)
(***************************************************************************)
Evidence ==
  /\ (\E i \in DOMAIN rx : rx[i] \in Grants) => granted
  /\ state = "HeaderWait" /\ hdrOk => granted

ApIsIdle == apActive => ~wifi /\ state = "WifiConnecting"

IInv == /\ FlagMatchesState
        /\ SocketReturned
        /\ OnlyGrantedStreams
        /\ Evidence
        /\ ApIsIdle

(***************************************************************************)
(* The inductive invariant holds at boot.                                  *)
(***************************************************************************)
LEMMA InitIInv == Init => IInv
  BY DEF Init, IInv, FlagMatchesState, SocketReturned, OnlyGrantedStreams,
     Evidence, ApIsIdle

(***************************************************************************)
(* Backing off re-establishes everything at once: no socket, no flag.      *)
(***************************************************************************)
LEMMA BackoffIInv ==
  ASSUME TypeOK, Backoff, ~apActive'
  PROVE  IInv'
  BY DEF IInv, Backoff, StopSocket, Enter, FlagMatchesState,
     SocketReturned, OnlyGrantedStreams, Evidence, ApIsIdle

(***************************************************************************)
(* Every step keeps the inductive invariant.                               *)
(***************************************************************************)
LEMMA StepKeepsIInv == TypeOK /\ IInv /\ [Next]_vars => IInv'
<1> SUFFICES ASSUME TypeOK, IInv, [Next]_vars PROVE IInv'
  OBVIOUS
<1> USE DEF IInv, FlagMatchesState, SocketReturned, OnlyGrantedStreams, Evidence,
            ApIsIdle
<1>1. CASE PollApMode
  BY <1>1 DEF PollApMode, socket, world
<1>2. CASE PollWifiConnecting
  BY <1>2 DEF PollWifiConnecting, Polling, Enter, socket
<1>3. CASE PollCasterConnecting
  <2>1. ~apActive'
    BY <1>3 DEF PollCasterConnecting, Polling
  <2>2. CASE UNCHANGED socket /\ Enter("WifiConnecting") /\ UNCHANGED ntripConnected
    BY <1>3, <2>1, <2>2 DEF socket, Enter, PollCasterConnecting
  <2>3. CASE SendRequest /\ Enter("HeaderWait") /\ UNCHANGED ntripConnected
    BY <1>3, <2>1, <2>3 DEF SendRequest, Enter, PollCasterConnecting, Grants
  <2>4. QED
    BY <1>3, <2>1, <2>2, <2>3, BackoffIInv DEF PollCasterConnecting
<1>4. CASE PollHeaderWait
  <2>1. ~apActive'
    BY <1>4 DEF PollHeaderWait, Polling, world
  <2>2. ASSUME NEW end \in DOMAIN rx, EndsHeader(end), hdrOk', hdrOk' = Verdict(end),
               Accepted(end)
        PROVE  IInv'
    <3>1. granted
      <4>1. Verdict(end)
        BY Zenon, <2>2
      <4>2. state = "HeaderWait" /\ rx \in Seq(Items)
        BY <1>4 DEF PollHeaderWait, TypeOK, DataOK
      <4>3. CASE rx[end] = "icy"
        BY <4>3 DEF Grants
      <4>4. CASE hdrOk
        BY <4>2, <4>4
      <4>5. ASSUME NEW i \in 1 .. end, rx[i] = "http200"
            PROVE  granted
        <5>1. i \in DOMAIN rx
          BY <4>2
        <5>2. QED
          BY <4>5, <5>1 DEF Grants
      <4>6. QED
        BY <4>1, <4>3, <4>4, <4>5 DEF Verdict
    <3>2. QED
      BY <2>1, <2>2, <3>1 DEF Accepted, Enter
  <2>3. ASSUME hdrOk' = (hdrOk \/ "http200" \in Range(rx)), rx' = <<>>,
               UNCHANGED <<state, ntripConnected, peer, granted, peerGga>>
        PROVE  IInv'
    <3>1. hdrOk' => granted
      BY <1>4, <2>3 DEF PollHeaderWait, Range, Grants
    <3>2. QED
      BY <1>4, <2>1, <2>3, <3>1 DEF PollHeaderWait
  <2>4. QED
    BY <1>4, <2>1, <2>2, <2>3, BackoffIInv DEF PollHeaderWait
<1>5. CASE PollConnected
  <2>1. ~apActive'
    BY <1>5 DEF PollConnected, Polling
  <2>2. CASE Stream /\ ~Backoff
    BY <1>5, <2>1, <2>2 DEF Stream, PollConnected
  <2>3. QED
    BY <1>5, <2>1, <2>2, BackoffIInv DEF PollConnected
<1>6. CASE PollWaitRetry
  BY <1>6 DEF PollWaitRetry, Polling, Enter, socket, world
<1>7. CASE RequestReconnect
  BY <1>7 DEF RequestReconnect, StopSocket, Enter, world
<1>8. CASE Tick
  BY <1>8 DEF Tick, Grants
<1>9. CASE World
  <2> USE DEF client, link, socket, world
  <2>1. CASE WifiDrops \/ WifiReturns
    BY <2>1 DEF WifiDrops, WifiReturns
  <2>2. CASE CasterSends
    <3>1. PICK item \in Items : rx' = Append(rx, item)
                                 /\ granted' = (granted \/ item \in Grants)
      BY <2>2 DEF CasterSends
    <3>2. ASSUME NEW i \in DOMAIN rx', rx'[i] \in Grants
          PROVE  granted'
      <4>1. rx \in Seq(Items)
        BY DEF TypeOK, DataOK
      <4>2. item \in Grants => granted'
        BY Zenon, <3>1
      <4>3. granted => granted'
        BY Zenon, <3>1
      <4>4. (i \in DOMAIN rx /\ rx[i] \in Grants) \/ item \in Grants
        BY <3>1, <3>2, <4>1
      <4>5. QED
        BY <4>2, <4>3, <4>4
    <3>3. granted => granted'
      BY Zenon, <3>1
    <3>4. QED
      BY <2>2, <3>2, <3>3 DEF CasterSends
  <2>3. CASE CasterCloses \/ CasterDies
    BY <2>3 DEF CasterCloses, CasterDies
  <2>4. CASE FixAcquired \/ Heal \/ Wrap
    BY <2>4 DEF FixAcquired, Heal, Wrap
  <2>5. QED
    BY <1>9, <2>1, <2>2, <2>3, <2>4 DEF World
<1>10. CASE UNCHANGED vars
  BY <1>10 DEF vars, client, link, socket, world
<1>11. QED
  BY <1>1, <1>2, <1>3, <1>4, <1>5, <1>6, <1>7, <1>8, <1>9, <1>10 DEF Next, Poll

(***************************************************************************)
(* In every behaviour the inductive invariant holds.                       *)
(***************************************************************************)
LEMMA Invariance == Spec => [](TypeOK /\ IInv)
  BY TypeCorrect, InitIInv, StepKeepsIInv, PTL DEF Spec

(***************************************************************************)
(* What the user is shown is where the client is.                          *)
(***************************************************************************)
THEOREM FlagIsHonest == Spec => []FlagMatchesState
  BY Invariance, PTL DEF IInv

(***************************************************************************)
(* No failure path keeps a socket.                                         *)
(***************************************************************************)
THEOREM NoSocketLeak == Spec => []SocketReturned
  BY Invariance, PTL DEF IInv

(***************************************************************************)
(* Corrections are injected, and positions sent, only on a connection      *)
(* whose own header granted the request.                                   *)
(***************************************************************************)
THEOREM StreamsAreGranted == Spec => []OnlyGrantedStreams
  BY Invariance, PTL DEF IInv

(***************************************************************************)
(* A stream with bytes waiting is never torn down as stale.                *)
(***************************************************************************)
THEOREM WatchdogIsFair == Spec => NoFalseStale
<1>1. TypeOK /\ IInv /\ [Next]_vars
        => [state = "Connected" /\ state' = "WaitRetry" /\ wifi'
              => ~SockConnected \/ (rx = <<>> /\ rtcmAge > CorrectionStale)]_vars
  <2> SUFFICES ASSUME IInv, [Next]_vars, state = "Connected", state' = "WaitRetry",
                      wifi', SockConnected
               PROVE  rx = <<>> /\ rtcmAge > CorrectionStale
    OBVIOUS
  <2>1. ~apActive
    BY DEF IInv, ApIsIdle
  <2>2. PollConnected
    BY <2>1 DEF Next, Poll, PollApMode, PollWifiConnecting, PollCasterConnecting,
       PollHeaderWait, PollWaitRetry, RequestReconnect, Enter, Tick, World, WifiDrops,
       WifiReturns, CasterSends, CasterCloses, CasterDies, FixAcquired, Heal, Wrap, client,
       vars
  <2>3. AgeAfterDrain > CorrectionStale
    BY <2>2 DEF PollConnected, Stream
  <2>4. QED
    BY <2>3, ConstantsAssumption DEF AgeAfterDrain
<1>2. QED
  BY <1>1, Invariance, PTL DEF Spec, NoFalseStale

-----------------------------------------------------------------------------
(***************************************************************************)
(* The safety half of recovery.  Secure says how much of the watchdog's    *)
(* limit is left when the next data can come: a poll leaves the sum of     *)
(* Dry and GgaWait as it is or has the GGA sent, and a tick adds one to    *)
(* the first and takes one from the second.                                *)
(***************************************************************************)
Calm == healthy => fix /\ ~apActive

LEMMA StepKeepsCalm == Calm /\ [Next]_vars => Calm'
<1> SUFFICES ASSUME Calm, [Next]_vars
             PROVE  Calm'
  OBVIOUS
<1>1. CASE UNCHANGED <<apActive, fix, healthy>>
  BY <1>1 DEF Calm
<1>2. CASE FixAcquired
  BY <1>2 DEF Calm, FixAcquired
<1>3. CASE Heal
  BY <1>3 DEF Calm, Heal
<1>4. Poll => UNCHANGED <<apActive, fix, healthy>>
  BY DEF Poll, PollApMode, PollWifiConnecting, PollCasterConnecting, PollHeaderWait,
     PollConnected, PollWaitRetry, world
<1>5. RequestReconnect \/ Tick => UNCHANGED <<apActive, fix, healthy>>
  BY DEF RequestReconnect, Tick, world
<1>6. World => UNCHANGED <<apActive, fix, healthy>> \/ FixAcquired \/ Heal
  BY DEF World, WifiDrops, WifiReturns, CasterSends, CasterCloses, CasterDies, Wrap, world
<1> QED
  BY <1>1, <1>2, <1>3, <1>4, <1>5, <1>6 DEF Next, vars, world

(* What is left of the watchdog's limit, as plain arithmetic.              *)
LEMMA Slack ==
  ASSUME NEW d \in Nat, NEW g \in Nat, NEW dd \in Nat, NEW gg \in Nat, NEW limit \in Nat,
         d + g <= limit, dd <= d + 1, gg <= g - 1
  PROVE  dd + gg <= limit
  OBVIOUS

LEMMA WaitsAreNumbers ==
  ASSUME DataOK
  PROVE  Dry \in Nat /\ GgaWait \in Nat
  BY ConstantsAssumption DEF DataOK, Dry, GgaWait, SinceGga, Never

LEMMA PollSecures ==
  ASSUME TypeOK, Calm, Secure, Poll
  PROVE  Secure'
<1>1. ~apActive /\ fix /\ polled' = TRUE /\ PollConnected
  BY DEF Secure, Calm, Poll, PollApMode, PollWifiConnecting, PollCasterConnecting,
     PollHeaderWait, PollConnected, PollWaitRetry, Polling
<1>2. wifi' = TRUE
  BY <1>1 DEF PollConnected, SecondStatus, Secure
<1>3. Stream /\ healthy' = healthy
  BY <1>1, <1>2 DEF PollConnected, SockConnected, Secure
<1>4. Dry \in Nat /\ GgaWait \in Nat
  BY WaitsAreNumbers DEF TypeOK
<1>5. AgeAfterDrain = Dry /\ Dry <= CorrectionStale
  <2>1. AgeAfterDrain = Dry
    BY DEF AgeAfterDrain, Dry
  <2>2. Dry + (IF peerGga THEN 0 ELSE GgaWait) <= CorrectionStale
    BY DEF Secure
  <2>3. CASE peerGga
    BY <1>4, <2>1, <2>2, <2>3, ConstantsAssumption
  <2>4. CASE ~peerGga
    <3>1. Dry + GgaWait <= CorrectionStale
      BY <2>2, <2>4
    <3> QED
      BY <1>4, <2>1, <3>1, ConstantsAssumption
  <2> QED
    BY <2>3, <2>4
<1>6. /\ rx' = <<>> /\ rtcmAge' = Dry /\ state' = state /\ peer' = peer
      /\ IF SinceGga >= GgaPeriod THEN peerGga' ELSE ggaAge' = ggaAge /\ peerGga' = peerGga
  <2>1. ~(AgeAfterDrain > CorrectionStale)
    BY <1>4, <1>5, ConstantsAssumption
  <2>2. rtcmAge' = Dry
    BY <1>3, <1>5 DEF Stream
  <2>3. peer = "open"
    BY DEF Secure
  <2>4. rx' = <<>> /\ state' = state /\ peer' = peer
    BY <1>3, <2>1 DEF Stream
  <2>5. IF SinceGga >= GgaPeriod THEN peerGga' ELSE ggaAge' = ggaAge /\ peerGga' = peerGga
    BY <1>1, <1>3, <2>1, <2>3 DEF Stream
  <2> QED
    BY <2>2, <2>4, <2>5
<1>7. Dry' = Dry
  BY <1>6 DEF Dry
<1>8. CASE SinceGga >= GgaPeriod
  <2>1. peerGga'
    BY <1>6, <1>8
  <2>2. Dry' + 0 <= CorrectionStale
    BY <1>4, <1>5, <1>7
  <2> QED
    BY <1>2, <1>3, <1>6, <2>1, <2>2 DEF Secure
<1>9. CASE ~(SinceGga >= GgaPeriod)
  <2>1. SinceGga' = SinceGga
    BY <1>1, <1>6, <1>9 DEF SinceGga, PollConnected
  <2>2. GgaWait' = GgaWait
    BY <1>9, <2>1, ConstantsAssumption DEF GgaWait, SinceGga, TypeOK, DataOK, Never
  <2> QED
    BY <1>2, <1>3, <1>6, <1>7, <1>9, <2>2 DEF Secure
<1> QED
  BY <1>8, <1>9

LEMMA TickSecures ==
  ASSUME TypeOK, Secure, Tick
  PROVE  Secure'
<1>1. /\ polled /\ polled' = FALSE
      /\ UNCHANGED <<healthy, wifi, state, peer, peerGga>>
      /\ rtcmAge' = Aged(rtcmAge, 1) /\ ggaAge' = Aged(ggaAge, 1)
      /\ uptime' = Aged(uptime, 1)
  BY DEF Tick, Secure, Blocked
<1>2. /\ rx \in Seq(Items) /\ rtcmAge \in 0 .. Never /\ ggaAge \in 0 .. Never
      /\ uptime \in 0 .. AgeCap
  BY DEF TypeOK, DataOK
<1>3. Dry \in Nat /\ GgaWait \in Nat
  BY WaitsAreNumbers DEF TypeOK
<1>4. rx # <<>> => rx' # <<>>
  <2>1. rx' = rx \/ rx' = Append(rx, "data")
    BY DEF Tick
  <2> QED
    BY <1>2, <2>1
<1>5. CASE peerGga
  <2>1. rx' # <<>>
    <3>1. CASE Len(rx) < RxCap
      <4>1. rx' = Append(rx, "data")
        BY <1>5, <3>1 DEF Tick, Secure
      <4> QED
        BY <1>2, <4>1
    <3>2. CASE ~(Len(rx) < RxCap)
      <4>1. rx # <<>>
        BY <3>2, ConstantsAssumption
      <4> QED
        BY <1>4, <4>1
    <3> QED
      BY <3>1, <3>2
  <2>2. Dry' = 0
    BY <2>1 DEF Dry
  <2> QED
    BY <1>1, <1>5, <2>2, ConstantsAssumption DEF Secure
<1>6. CASE ~peerGga
  <2>1. Dry + GgaWait <= CorrectionStale
    BY <1>6 DEF Secure
  <2>2. Dry' <= Dry + 1 /\ Dry' \in Nat
    <3>1. CASE rx' # <<>>
      BY <1>3, <3>1 DEF Dry
    <3>2. CASE rx' = <<>>
      <4>1. rx = <<>> /\ Dry = rtcmAge
        BY <1>4, <3>2 DEF Dry
      <4>2. rtcmAge < AgeCap
        BY <1>3, <2>1, <4>1, ConstantsAssumption
      <4>3. rtcmAge' = rtcmAge + 1
        BY <1>1, <1>2, <4>2, ConstantsAssumption DEF Aged, AtMost, Never
      <4> QED
        BY <1>2, <3>2, <4>1, <4>3, ConstantsAssumption DEF Dry, Never
    <3> QED
      BY <3>1, <3>2
  <2>3. GgaWait' <= GgaWait - 1 /\ GgaWait' \in Nat
    <3>1. SinceGga \in 0 .. AgeCap
      BY <1>2, ConstantsAssumption DEF SinceGga, Never
    <3>2. SinceGga' = IF SinceGga + 1 > AgeCap THEN AgeCap ELSE SinceGga + 1
      BY <1>1, <1>2, ConstantsAssumption DEF SinceGga, Aged, AtMost, Never
    <3> QED
      BY <1>1, <3>1, <3>2, ConstantsAssumption DEF GgaWait
  <2>4. Dry' + GgaWait' <= CorrectionStale
    BY <1>3, <2>1, <2>2, <2>3, Slack, ConstantsAssumption
  <2> QED
    BY <1>1, <1>6, <2>4 DEF Secure
<1> QED
  BY <1>5, <1>6 DEF TypeOK, FlagsOK

LEMMA AcceptSecures ==
  ASSUME TypeOK, Calm, AcceptedInTime, [Next]_vars
  PROVE  Secure'
<1>1. PollHeaderWait
  BY DEF AcceptedInTime, Next, Poll, PollApMode, PollWifiConnecting, PollCasterConnecting,
     PollConnected, PollWaitRetry, RequestReconnect, Enter, Tick, World, WifiDrops,
     WifiReturns, CasterSends, CasterCloses, CasterDies, FixAcquired, Heal, Wrap, client, vars
<1>2. PICK end \in DOMAIN rx : Accepted(end)
  BY <1>1 DEF PollHeaderWait, AcceptedInTime, Backoff, Enter
<1>3. /\ healthy' = TRUE /\ wifi' = TRUE /\ polled' = TRUE /\ state' = "Connected"
      /\ peer' = "open" /\ rtcmAge' = 0 /\ ggaAge' = Never /\ uptime' = uptime
  BY <1>1, <1>2 DEF PollHeaderWait, Polling, Accepted, AcceptedInTime, GgaAgeOnConnect,
     world, Enter, TypeOK, FlagsOK
<1>4. Dry' = 0
  BY <1>3 DEF Dry
<1>5. GgaWait' <= CorrectionStale /\ GgaWait' \in Nat
  BY <1>3, ConstantsAssumption DEF GgaWait, SinceGga, AcceptedInTime, TypeOK, DataOK
<1>6. Dry' + 0 <= CorrectionStale /\ Dry' + GgaWait' <= CorrectionStale
  <2>1. \A n \in Nat : n <= CorrectionStale => 0 + n <= CorrectionStale
    OBVIOUS
  <2>2. 0 + 0 <= CorrectionStale
    BY ConstantsAssumption
  <2>3. 0 + GgaWait' <= CorrectionStale
    BY <1>5, <2>1
  <2> QED
    BY <1>4, <2>2, <2>3
<1> QED
  BY <1>3, <1>6 DEF Secure

(***************************************************************************)
(* A stream accepted in healthy times, late enough after the boot or the   *)
(* last wrap of millis(), is never given up, for every watchdog limit, GGA *)
(* period and retry delay, unless millis() wraps before its first GGA.     *)
(***************************************************************************)
THEOREM HealthyStreamIsKept == Spec => HealthyStreamKept
<1>1. Init => Calm
  BY DEF Init, Calm
<1>2. TypeOK /\ Calm /\ [Next]_vars => [Secure \/ AcceptedInTime => Secure' \/ WrapsBeforeGga]_vars
  <2> SUFFICES ASSUME TypeOK, Calm, Next, Secure \/ AcceptedInTime
               PROVE  Secure' \/ WrapsBeforeGga
    BY DEF vars
  <2>1. CASE AcceptedInTime
    BY <2>1, AcceptSecures
  <2>2. CASE Secure /\ Poll
    BY <2>2, PollSecures
  <2>3. CASE Secure /\ Tick
    BY <2>3, TickSecures
  <2>4. CASE Secure /\ Wrap
    <3>1. CASE peerGga
      <4>1. UNCHANGED <<healthy, wifi, state, peer, peerGga, rx, rtcmAge>>
        BY <2>4 DEF Wrap, client, link, socket
      <4> QED
        BY <2>4, <3>1, <4>1 DEF Secure, Dry
    <3> QED
      BY <2>4, <3>1 DEF WrapsBeforeGga, TypeOK, FlagsOK
  <2>5. CASE Secure /\ (RequestReconnect \/ World) /\ ~Wrap
    BY <2>5 DEF Secure, Calm, RequestReconnect, World, WifiDrops, WifiReturns, CasterSends,
       CasterCloses, CasterDies, FixAcquired, Heal
  <2> QED
    BY <2>1, <2>2, <2>3, <2>4, <2>5 DEF Next
<1> QED
  BY <1>1, <1>2, StepKeepsCalm, TypeCorrect, PTL DEF Spec, HealthyStreamKept

(***************************************************************************)
(* The watchdog spares every stream that is not dry, and a stream accepted *)
(* in healthy times is kept.                                               *)
(***************************************************************************)
THEOREM StreamsAreKept == Spec => StreamsKept
  BY WatchdogIsFair, HealthyStreamIsKept DEF StreamsKept

-----------------------------------------------------------------------------
(***************************************************************************)
(* Once the caster is dead nothing sets the clock of the deadline back.    *)
(***************************************************************************)
LEMMA AgedGrows ==
  ASSUME NEW d \in Nat
  PROVE  /\ \A age \in 0 .. AgeCap : Aged(age, d) >= age
         /\ \A age \in 0 .. Never : Aged(age, d) >= age
  BY ConstantsAssumption DEF Aged, AtMost, Never

LEMMA ClocksAreNumbers ==
  ASSUME TypeOK
  PROVE  /\ stateAge \in 0 .. AgeCap /\ rtcmAge \in 0 .. Never
         /\ Deadline \in Nat
  BY ConstantsAssumption DEF TypeOK, DataOK, Deadline, Dry, Never

(***************************************************************************)
(* A poll of a socket whose caster is dead, the link being up.             *)
(***************************************************************************)
LEMMA DeadHeader ==
  ASSUME TypeOK, PollHeaderWait, peer = "dead", peer' = "dead"
  PROVE  /\ stateAge <= SocketTimeout
         /\ (state' = state /\ Deadline' >= Deadline) \/ state' = "Connected"
<1>1. ~HeaderExpired /\ state = "HeaderWait"
  BY DEF PollHeaderWait, Backoff, StopSocket
<1>2. stateAge \in Nat /\ SocketTimeout \in Nat
  BY ClocksAreNumbers, ConstantsAssumption
<1>3. (state' = state /\ stateAge' = stateAge) \/ state' = "Connected"
  BY DEF PollHeaderWait, Backoff, StopSocket, Accepted, Enter
<1>4. state' = state /\ stateAge' = stateAge => Deadline' >= Deadline
  BY <1>1, <1>2 DEF Deadline
<1> QED
  BY <1>1, <1>2, <1>3, <1>4 DEF HeaderExpired

LEMMA DeadStream ==
  ASSUME TypeOK, PollConnected, peer = "dead", peer' = "dead"
  PROVE  Dry <= CorrectionStale /\ state' = state /\ Deadline' >= Deadline
<1>1. Stream /\ ~(AgeAfterDrain > CorrectionStale)
  BY DEF PollConnected, Backoff, StopSocket, Stream
<1>2. rx' = <<>> /\ state' = "Connected" /\ state = "Connected" /\ rtcmAge' = AgeAfterDrain
  BY <1>1 DEF Stream, PollConnected
<1>3. AgeAfterDrain = Dry /\ Deadline = Dry /\ Deadline' = Dry
  BY <1>2 DEF AgeAfterDrain, Dry, Deadline
<1>4. Deadline \in Nat /\ CorrectionStale \in Nat
  BY ClocksAreNumbers, ConstantsAssumption
<1> QED
  BY <1>1, <1>2, <1>3, <1>4

(***************************************************************************)
(* No poll past its limit keeps the socket of a dead caster, and the time  *)
(* to it only runs down.                                                   *)
(***************************************************************************)
THEOREM DeadlineRunsHolds == Spec => DeadlineRuns
<1> DEFINE A == peer = "dead" /\ peer' = "dead" =>
                  /\ \/ state' = state /\ Deadline' >= Deadline
                     \/ state = "HeaderWait" /\ state' = "Connected"
                  /\ Poll => Deadline <= Limit
<1>1. TypeOK /\ IInv /\ [Next]_vars => [A]_vars
  <2> SUFFICES ASSUME TypeOK, IInv, Next, peer = "dead", peer' = "dead"
               PROVE  /\ \/ state' = state /\ Deadline' >= Deadline
                         \/ state = "HeaderWait" /\ state' = "Connected"
                      /\ Poll => Deadline <= Limit
    OBVIOUS
  <2>1. state \in {"HeaderWait", "Connected"} /\ ~apActive /\ Deadline \in Nat
    BY ClocksAreNumbers DEF IInv, SocketReturned, ApIsIdle
  <2>2. Poll => PollHeaderWait \/ PollConnected
    BY <2>1 DEF Poll, PollApMode, PollWifiConnecting, PollCasterConnecting, PollWaitRetry
  <2>3. CASE Poll
    <3>1. CASE PollHeaderWait
      BY <2>1, <3>1, DeadHeader DEF PollHeaderWait, Deadline, Limit
    <3>2. CASE PollConnected
      BY <2>1, <3>2, DeadStream DEF PollConnected, Deadline, Limit
    <3> QED
      BY <2>2, <2>3, <3>1, <3>2
  <2>4. CASE Tick
    <3>1. state' = state /\ rx' = rx
      BY <2>4 DEF Tick
    <3>2. stateAge' = Aged(stateAge, 1) /\ rtcmAge' = Aged(rtcmAge, 1)
      BY <2>4 DEF Tick, Blocked
    <3>3. stateAge' >= stateAge /\ rtcmAge' >= rtcmAge
      BY <3>2, ClocksAreNumbers, AgedGrows
    <3>4. Deadline' >= Deadline
      BY <3>1, <3>3 DEF Deadline, Dry
    <3> QED
      BY <2>3, <3>1, <3>4
  <2>5. CASE RequestReconnect \/ World
    <3>1. /\ state' = state /\ stateAge' = stateAge /\ rx' = rx /\ rtcmAge' = rtcmAge
      BY <2>5 DEF RequestReconnect, StopSocket, World, WifiDrops, WifiReturns, CasterSends,
         CasterCloses, CasterDies, FixAcquired, Heal, Wrap, client, link, socket
    <3>2. Deadline' >= Deadline
      BY <2>1, <3>1 DEF Deadline, Dry
    <3> QED
      BY <2>3, <3>1, <3>2
  <2> QED
    BY <2>3, <2>4, <2>5 DEF Next
<1> QED
  BY <1>1, Invariance, PTL DEF Spec, DeadlineRuns

=============================================================================
