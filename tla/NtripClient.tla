---------------------------- MODULE NtripClient ----------------------------
(***************************************************************************)
(* The NTRIP client of the rover (firmware/pynt/rover/ntrip.cpp): a polled *)
(* state machine that owns the WiFi association and the caster socket, and *)
(* hands every byte of an accepted stream to the GNSS receiver.            *)
(*                                                                         *)
(* One action per arm of ntripPoll()'s switch, each atomic: the superloop  *)
(* is single threaded, so only the radio, the caster, the clock and the    *)
(* web card's ntripRequestReconnect() act between two polls.               *)
(*                                                                         *)
(* Time.  The code keeps stamps and compares millis() - stamp with a       *)
(* limit.  The model keeps the differences: an age grows with Tick (and    *)
(* with the calls that block), and AgeCap stands for "that old or older".  *)
(* A stamp that is 0 for "none" is absolute: its age is the time since the *)
(* boot or the last wrap of millis().                                      *)
(***************************************************************************)
EXTENDS Integers, Sequences, Functions

CONSTANTS
  MaxNets,          \* kMaxWifiNetworks: SSID slots in the settings
  Ssids,            \* the slots that hold an SSID
  InRange,          \* the slots whose access point answers in healthy times
  RetryInit,        \* first retry delay (1000 ms)
  RetryMax,         \* kRetryMaxMs
  SocketTimeout,    \* kSocketTimeoutMs
  CorrectionStale,  \* kCorrectionStaleMs
  GgaPeriod,        \* g_settings.ggaPeriodS
  AgeCap,           \* bound: ages saturate here
  StallMax,         \* bound: longest blocking WiFi.begin() or connect()
  RxCap             \* bound: unread items in the socket's receive buffer

ASSUME ConstantsAssumption ==
  /\ MaxNets \in Nat \ {0}
  /\ Ssids \subseteq 0 .. MaxNets - 1
  /\ InRange \subseteq Ssids
  /\ RetryInit \in Nat \ {0} /\ RetryMax \in Nat /\ RetryInit <= RetryMax
  /\ SocketTimeout \in Nat /\ CorrectionStale \in Nat \ {0} /\ GgaPeriod \in Nat
  /\ AgeCap \in Nat
  /\ AgeCap > SocketTimeout /\ AgeCap > CorrectionStale
  /\ AgeCap >= RetryMax /\ AgeCap >= GgaPeriod
  /\ StallMax \in Nat /\ RxCap \in Nat \ {0}

VARIABLES
  (* ntrip.cpp's statics *)
  state,           \* where the client is
  stateAge,        \* millis() - stateEnteredMs
  retryDelay,      \* retryDelayMs
  ggaAge,          \* millis() - lastGgaSentMs, or Never where that is 0
  wifiIdx,         \* SSID slot to try next
  hdrOk,           \* the caster's header said 200
  (* g_link *)
  wifiUp, ntripConnected,
  rtcmAge,         \* correctionAgeMs()
  (* the world *)
  uptime,          \* millis(), since the boot or its last wrap
  apActive,        \* webConfigApActive(): fixed at boot
  wifi,            \* WiFi.status() == WL_CONNECTED
  fix,             \* g_gnss.lastGga holds a sentence
  peer,            \* the far end of sock
  rx,              \* what sock.available() counts
  granted,         \* the caster accepted the request of this connection
  peerGga,         \* the caster got a GGA on this connection
  healthy,         \* nothing fails any more
  polled           \* in healthy times: ntripPoll() ran since the last Tick

client == <<state, stateAge, retryDelay, ggaAge, wifiIdx, hdrOk>>
link   == <<wifiUp, ntripConnected, rtcmAge>>
socket == <<peer, rx, granted, peerGga>>
world  == <<uptime, apActive, fix, healthy>>
vars   == <<client, link, socket, world, wifi, polled>>

States == {"WifiConnecting", "CasterConnecting", "HeaderWait", "Connected",
           "WaitRetry"}

(* What can stand in the receive buffer: the header lines headerPoll()     *)
(* tells apart, and "data" for anything else -- another header line while  *)
(* the header is read, correction bytes after it.                          *)
Items     == {"icy", "http200", "sourcetable", "blank", "data"}
HeaderEnd == {"icy", "sourcetable", "blank"}
Grants    == {"icy", "http200"}

(* The far end: no socket, a live caster, one that closed, or one that is  *)
(* gone without a FIN ("half-open TCP is common on hotspot handoffs").     *)
Peers == {"none", "open", "closed", "dead"}

Never == AgeCap + 1        \* no stamp; UINT32_MAX of correctionAgeMs()

AtMost(n, cap) == IF n > cap THEN cap ELSE n
Aged(age, d)   == IF age = Never THEN Never ELSE AtMost(age + d, AgeCap)

DataOK ==
  /\ state \in States
  /\ stateAge \in 0 .. AgeCap
  /\ retryDelay \in RetryInit .. RetryMax
  /\ ggaAge \in 0 .. Never
  /\ wifiIdx \in 0 .. MaxNets - 1
  /\ rtcmAge \in 0 .. Never
  /\ uptime \in 0 .. AgeCap
  /\ peer \in Peers
  /\ rx \in Seq(Items)

FlagsOK ==
  /\ hdrOk \in BOOLEAN /\ wifiUp \in BOOLEAN /\ ntripConnected \in BOOLEAN
  /\ apActive \in BOOLEAN /\ wifi \in BOOLEAN /\ fix \in BOOLEAN
  /\ granted \in BOOLEAN /\ peerGga \in BOOLEAN /\ healthy \in BOOLEAN
  /\ polled \in BOOLEAN

TypeOK == DataOK /\ FlagsOK

-----------------------------------------------------------------------------
(* Statics at power-on, after ntripInit() entered WifiConnecting.          *)
Init ==
  /\ state = "WifiConnecting" /\ stateAge = 0
  /\ retryDelay = RetryInit
  /\ ggaAge = Never /\ wifiIdx = 0 /\ hdrOk = FALSE
  /\ wifiUp = FALSE /\ ntripConnected = FALSE /\ rtcmAge = Never
  /\ uptime = 0 /\ apActive \in BOOLEAN
  /\ wifi = FALSE /\ fix = FALSE
  /\ peer = "none" /\ rx = <<>> /\ granted = FALSE /\ peerGga = FALSE
  /\ healthy = FALSE /\ polled = FALSE

-----------------------------------------------------------------------------
(* Helpers of the handlers.                                                *)

Enter(s) == state' = s /\ stateAge' = 0

(* sock.stop(): the NINA drops the connection and its unread bytes.        *)
StopSocket ==
  peer' = "none" /\ rx' = <<>> /\ granted' = FALSE /\ peerGga' = FALSE

FaultKeepsSocket ==
  UNCHANGED socket /\ ntripConnected' = FALSE /\ Enter("WaitRetry")

Backoff ==
  /\ StopSocket
  /\ ntripConnected' = FALSE
  /\ Enter("WaitRetry")

(* sock.connected(): true until the far end's FIN arrived and its last     *)
(* byte was read; a dead peer looks connected.                             *)
SockConnected == peer \in {"open", "dead"} \/ (peer = "closed" /\ rx # <<>>)

(* A call that blocks for d: every age but the state's moves on.           *)
Blocked(d) ==
  /\ uptime' = Aged(uptime, d)
  /\ ggaAge' = Aged(ggaAge, d)
  /\ rtcmAge' = Aged(rtcmAge, d)

(* WiFi.status() read again later in the same poll: the link may have      *)
(* gone down since g_link.wifiUp was refreshed.                            *)
SecondStatus(w) == (w => wifi) /\ (healthy => w = wifi) /\ wifi' = w

Polling == ~apActive /\ wifiUp' = wifi /\ polled' = healthy

-----------------------------------------------------------------------------
(* ntripPoll() in AP provisioning mode: stand down.                        *)
PollApMode ==
  /\ apActive
  /\ IF state \in {"Connected", "HeaderWait"}
       THEN StopSocket /\ Enter("WaitRetry")
       ELSE UNCHANGED <<socket, state, stateAge>>
  /\ wifiUp' = FALSE /\ ntripConnected' = FALSE
  /\ UNCHANGED <<retryDelay, ggaAge, wifiIdx, hdrOk, rtcmAge, world, wifi,
                 polled>>

(* wifiTryNext(): the slot it tries is the first one holding an SSID, from *)
(* wifiIdx on, cyclically.                                                 *)
NextSsid(slot) ==
  /\ slot \in Ssids
  /\ \A s \in Ssids : (slot - wifiIdx) % MaxNets <= (s - wifiIdx) % MaxNets

(* case WifiConnecting: one SSID attempt, up to StallMax long.             *)
PollWifiConnecting ==
  /\ state = "WifiConnecting"
  /\ Polling
  /\ IF Ssids = {}
       THEN /\ Enter("WaitRetry")
            /\ UNCHANGED <<uptime, ggaAge, rtcmAge, wifiIdx, wifi>>
       ELSE \E d \in 0 .. StallMax, up \in BOOLEAN, slot \in Ssids :
              /\ NextSsid(slot)
              /\ healthy => up = (slot \in InRange)
              /\ Blocked(d)
              /\ wifiIdx' = (slot + 1) % MaxNets
              /\ wifi' = up
              /\ Enter(IF up THEN "CasterConnecting" ELSE "WaitRetry")
  /\ UNCHANGED <<retryDelay, hdrOk, ntripConnected, socket, apActive, fix,
                 healthy>>

FaultKeepsVerdict ==
  /\ peer' = "open" /\ rx' = (IF healthy THEN <<"icy">> ELSE <<>>)
  /\ granted' = healthy /\ peerGga' = FALSE /\ UNCHANGED hdrOk

(* casterSendRequest() on success: a fresh socket, the request sent, the   *)
(* header scratch cleared.  A healthy caster has answered by the next poll.*)
SendRequest ==
  /\ peer' = "open"
  /\ rx' = IF healthy THEN <<"icy">> ELSE <<>>
  /\ granted' = healthy
  /\ peerGga' = FALSE
  /\ hdrOk' = FALSE

(* case CasterConnecting.  The request fails when no host or mount is set, *)
(* or the name or the TCP connection does not come through.                *)
PollCasterConnecting ==
  /\ state = "CasterConnecting"
  /\ Polling
  /\ \E w \in BOOLEAN : SecondStatus(w)
  /\ \/ /\ ~wifi'
        /\ Enter("WifiConnecting")
        /\ UNCHANGED <<hdrOk, ntripConnected, socket, uptime, ggaAge, rtcmAge>>
     \/ /\ wifi'
        /\ \E d \in 0 .. StallMax : Blocked(d)
        /\ \/ SendRequest /\ Enter("HeaderWait") /\ UNCHANGED ntripConnected
           \/ ~healthy /\ Backoff /\ UNCHANGED hdrOk
  /\ UNCHANGED <<retryDelay, wifiIdx, apActive, fix, healthy>>

(* headerPoll(): the buffered item that ends the header, and what the      *)
(* header said by then.                                                    *)
EndsHeader(end) ==
  /\ rx[end] \in HeaderEnd
  /\ \A i \in 1 .. end - 1 : rx[i] \notin HeaderEnd

Verdict(end) ==
  \/ rx[end] = "icy"
  \/ rx[end] = "blank" /\ (hdrOk \/ \E i \in 1 .. end : rx[i] = "http200")

FaultGgaJustSent == 0

(* lastGgaSentMs = 0: no GGA on this connection yet.                       *)
GgaAgeOnConnect == Never

(* The header accepted the request: corrections are expected from here.    *)
Accepted(end) ==
  /\ ntripConnected' = TRUE
  /\ rtcmAge' = 0
  /\ retryDelay' = RetryInit
  /\ ggaAge' = GgaAgeOnConnect
  /\ rx' = SubSeq(rx, end + 1, Len(rx))
  /\ UNCHANGED <<peer, granted, peerGga>>
  /\ Enter("Connected")

FaultNoDeadline == FALSE

HeaderExpired == stateAge > SocketTimeout

(* case HeaderWait: the deadline is looked at before the buffer.           *)
PollHeaderWait ==
  /\ state = "HeaderWait"
  /\ Polling
  /\ \/ /\ ~SockConnected \/ HeaderExpired
        /\ Backoff
        /\ UNCHANGED <<hdrOk, rtcmAge, retryDelay, ggaAge>>
     \/ /\ SockConnected /\ ~HeaderExpired
        /\ \/ /\ \A i \in DOMAIN rx : rx[i] \notin HeaderEnd
              /\ hdrOk' = (hdrOk \/ "http200" \in Range(rx))
              /\ rx' = <<>>
              /\ UNCHANGED <<state, stateAge, ntripConnected, rtcmAge,
                             retryDelay, ggaAge, peer, granted, peerGga>>
           \/ \E end \in DOMAIN rx :
              /\ EndsHeader(end)
              /\ hdrOk' = Verdict(end)
              /\ IF hdrOk' THEN Accepted(end)
                           ELSE Backoff /\ UNCHANGED <<rtcmAge, retryDelay, ggaAge>>
  /\ UNCHANGED <<wifiIdx, world, wifi>>

(* millis() - lastGgaSentMs.                                               *)
SinceGga == IF ggaAge = Never THEN uptime ELSE ggaAge

FaultStaleFirst == rtcmAge

(* correctionAgeMs() once everything the socket holds was injected.        *)
AgeAfterDrain == IF rx # <<>> THEN 0 ELSE rtcmAge

(* case Connected, link and socket up: drain, then the watchdog, then the  *)
(* GGA for a VRS mount.                                                    *)
Stream ==
  /\ rtcmAge' = AgeAfterDrain
  /\ IF AgeAfterDrain > CorrectionStale
       THEN Backoff /\ UNCHANGED ggaAge
       ELSE /\ rx' = <<>>
            /\ IF fix /\ SinceGga >= GgaPeriod
                 THEN ggaAge' = 0 /\ peerGga' = (peerGga \/ peer = "open")
                 ELSE UNCHANGED <<ggaAge, peerGga>>
            /\ UNCHANGED <<state, stateAge, ntripConnected, peer, granted>>

PollConnected ==
  /\ state = "Connected"
  /\ Polling
  /\ \E w \in BOOLEAN : SecondStatus(w)
  /\ IF wifi' /\ SockConnected
       THEN Stream
       ELSE Backoff /\ UNCHANGED <<rtcmAge, ggaAge>>
  /\ UNCHANGED <<retryDelay, wifiIdx, hdrOk, uptime, apActive, fix, healthy>>

FaultUncapped == 2 * retryDelay

NextDelay == AtMost(2 * retryDelay, RetryMax)

(* case WaitRetry.                                                         *)
PollWaitRetry ==
  /\ state = "WaitRetry"
  /\ Polling
  /\ \/ /\ stateAge < retryDelay
        /\ UNCHANGED <<state, stateAge, retryDelay, wifi>>
     \/ /\ stateAge >= retryDelay
        /\ \E w \in BOOLEAN : SecondStatus(w)
        /\ retryDelay' = NextDelay
        /\ Enter(IF wifi' THEN "CasterConnecting" ELSE "WifiConnecting")
  /\ UNCHANGED <<ggaAge, wifiIdx, hdrOk, ntripConnected, rtcmAge, socket, world>>

Poll ==
  \/ PollApMode
  \/ PollWifiConnecting
  \/ PollCasterConnecting
  \/ PollHeaderWait
  \/ PollConnected
  \/ PollWaitRetry

(* ntripRequestReconnect(): the Corrections card was saved, between polls. *)
RequestReconnect ==
  /\ ~healthy
  /\ StopSocket
  /\ ntripConnected' = FALSE
  /\ retryDelay' = RetryInit
  /\ Enter(IF wifi THEN "CasterConnecting" ELSE "WifiConnecting")
  /\ UNCHANGED <<ggaAge, wifiIdx, hdrOk, wifiUp, rtcmAge, world, wifi, polled>>

-----------------------------------------------------------------------------
(* The world, as ntrip.cpp's calls see it.                                 *)

(* The clock.  In healthy times the superloop runs at least once a tick,   *)
(* and a caster that knows where the rover is sends corrections each tick. *)
Tick ==
  /\ healthy => polled
  /\ stateAge' = Aged(stateAge, 1)
  /\ Blocked(1)
  /\ polled' = FALSE
  /\ rx' = IF healthy /\ state = "Connected" /\ peer = "open" /\ peerGga
                /\ Len(rx) < RxCap
             THEN Append(rx, "data") ELSE rx
  /\ UNCHANGED <<state, retryDelay, wifiIdx, hdrOk, wifiUp, ntripConnected,
                 apActive, fix, healthy, peer, granted, peerGga, wifi>>

(* millis() wraps after 49.7 days: a difference of stamps does not notice. *)
Wrap ==
  /\ uptime = AgeCap
  /\ uptime' = 0
  /\ UNCHANGED <<client, link, socket, apActive, fix, healthy, wifi, polled>>

(* The station loses its access point; the connection is dead with it.     *)
WifiDrops ==
  /\ ~healthy /\ wifi
  /\ wifi' = FALSE
  /\ peer' = IF peer = "open" THEN "dead" ELSE peer
  /\ UNCHANGED <<client, link, rx, granted, peerGga, world, polled>>

(* An association or a lease that comes through after WiFi.begin() gave up.*)
WifiReturns ==
  /\ ~healthy /\ ~wifi /\ ~apActive
  /\ wifi' = TRUE
  /\ UNCHANGED <<client, link, socket, world, polled>>

(* A caster may send anything, in pieces, at any time.                     *)
CasterSends ==
  /\ ~healthy /\ peer = "open" /\ wifi /\ Len(rx) < RxCap
  /\ \E item \in Items :
       /\ rx' = Append(rx, item)
       /\ granted' = (granted \/ item \in Grants)
  /\ UNCHANGED <<client, link, peer, peerGga, world, wifi, polled>>

CasterCloses ==
  /\ ~healthy /\ peer \in {"open", "dead"}
  /\ peer' = "closed"
  /\ UNCHANGED <<client, link, rx, granted, peerGga, world, wifi, polled>>

CasterDies ==
  /\ ~healthy /\ peer = "open"
  /\ peer' = "dead"
  /\ UNCHANGED <<client, link, rx, granted, peerGga, world, wifi, polled>>

(* The receiver gets a position: lastGga is never cleared again.           *)
FixAcquired ==
  /\ ~fix
  /\ fix' = TRUE
  /\ UNCHANGED <<client, link, socket, uptime, apActive, healthy, wifi, polled>>

(* From here on radio, caster and superloop behave.                        *)
Heal ==
  /\ ~healthy /\ ~apActive /\ fix /\ InRange # {}
  /\ healthy' = TRUE
  /\ UNCHANGED <<client, link, socket, uptime, apActive, fix, wifi, polled>>

World == WifiDrops \/ WifiReturns \/ CasterSends \/ CasterCloses
           \/ CasterDies \/ FixAcquired \/ Heal \/ Wrap

Next == Poll \/ RequestReconnect \/ Tick \/ World

(* The superloop calls ntripPoll() for ever, and time passes.              *)
Fairness == WF_vars(Poll) /\ WF_vars(Tick)

Spec == Init /\ [][Next]_vars /\ Fairness

-----------------------------------------------------------------------------
(* Properties.                                                             *)

(* The "connected" the UI, the web page and the serial status show is the  *)
(* client's real state after every poll and every settings edit, whichever *)
(* way out of Connected was taken.                                         *)
FlagMatchesState == ntripConnected <=> state = "Connected"

(* The co-processor's few sockets serve the whole rover.  The client holds *)
(* one only while it waits for a header or streams: every failure path     *)
(* gave it back, so reconnecting for days cannot use up the table.         *)
SocketReturned == state \notin {"HeaderWait", "Connected"} => peer = "none"

(* Nothing is streamed into the receiver, and no position is sent          *)
(* upstream, unless the caster granted the request of this very            *)
(* connection; the verdict on an earlier one cannot leak into it.          *)
OnlyGrantedStreams == (state = "Connected" \/ peerGga) => granted

(* The correction watchdog fires only on a stream that is really dry: a    *)
(* poll after a long stall of the superloop that finds correction bytes    *)
(* waiting keeps the connection.                                           *)
NoFalseStale ==
  [][state = "Connected" /\ state' = "WaitRetry" /\ wifi'
       => ~SockConnected \/ (rx = <<>> /\ rtcmAge > CorrectionStale)]_vars

(* The deadline of a connection runs on, whatever else happens, once its   *)
(* caster is dead: its clock is never set back, but for the one header     *)
(* that had come before, and no poll past the limit keeps the socket.      *)
Dry      == IF rx # <<>> THEN 0 ELSE rtcmAge
Deadline == IF state = "HeaderWait" THEN stateAge ELSE Dry
Limit    == IF state = "HeaderWait" THEN SocketTimeout ELSE CorrectionStale
DeadlineRuns ==
  [][peer = "dead" /\ peer' = "dead" =>
       /\ \/ state' = state /\ Deadline' >= Deadline
          \/ state = "HeaderWait" /\ state' = "Connected"
       /\ Poll => Deadline <= Limit]_vars

(* A half-open connection is never held for ever, whether the caster       *)
(* vanished before its header or in the middle of the stream.              *)
DeadSocketDropped == DeadlineRuns /\ ((peer = "dead") ~> (peer # "dead"))

(* Once radio, caster and superloop behave, the client gets to Connected   *)
(* and stays there, whatever it was doing: it finds the slot that is in    *)
(* range, and a VRS caster, which is silent until it has a position, hears *)
(* one before the correction watchdog gives up on it.  The model lets      *)
(* millis() wrap as soon as it likes; the property leaves out the run in   *)
(* which it does so over and over while the caster waits for its first GGA.*)
WrapsBeforeGga == Wrap /\ ~peerGga
Recovers ==
  <>[]healthy => []<><<WrapsBeforeGga>>_vars \/ <>[](state = "Connected")

(* The safety half of it, which needs no fairness: a stream accepted in    *)
(* healthy times is kept for ever, whatever ggaPeriodS is set to, if only  *)
(* the rover has been up long enough, or millis() wrapped long enough ago, *)
(* for the first GGA to go out before the watchdog's limit, and it does    *)
(* not wrap just before that GGA.  Kept are the streams in Secure: what    *)
(* the next drain finds is young enough, and either the caster has a       *)
(* position and sends, or it gets one in time.                             *)
GgaWait == LET due == IF SinceGga >= GgaPeriod THEN 0 ELSE GgaPeriod - SinceGga
           IN IF polled /\ due = 0 THEN 1 ELSE due     \* ticks to the next GGA
Secure ==
  /\ healthy /\ wifi /\ state = "Connected" /\ peer = "open"
  /\ Dry + (IF peerGga THEN 0 ELSE GgaWait) <= CorrectionStale
AcceptedInTime ==
  /\ healthy /\ wifi /\ state = "HeaderWait" /\ peer = "open" /\ state' = "Connected"
  /\ uptime + CorrectionStale >= GgaPeriod
HealthyStreamKept == [][Secure \/ AcceptedInTime => Secure' \/ WrapsBeforeGga]_vars

(* What the client has, it keeps: on any day the watchdog spares a stream  *)
(* that is not dry, and on a good one no stream is given up at all.        *)
StreamsKept == NoFalseStale /\ HealthyStreamKept
=============================================================================
