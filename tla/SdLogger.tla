------------------------------ MODULE SdLogger ------------------------------
(***************************************************************************)
(* The .ubx logger (firmware/pynt/rover/sd_logger.cpp) and everything that *)
(* calls it: the LOG and PWR touch buttons (ui.cpp), "log on/off" and      *)
(* "mode=" of the serial menu, the Logging card and the pending reboot of  *)
(* the web page.                                                           *)
(*                                                                         *)
(* Raw measurements leave the receiver's file buffer in chunks, numbered   *)
(* in order of arrival.  A file on the card is the sequence of chunks a    *)
(* power loss leaves in it; tail holds what was written to the open file   *)
(* since its last sync.  step is where sdLoggerPoll() stands; commands     *)
(* come when it is at rest, power and card may fail at any point.          *)
(***************************************************************************)
EXTENDS Integers, Sequences

CONSTANTS
  Modes,          \* DeviceMode: the r_ or b_ of a file name
  NoFile,         \* no log opened since the restart
  MaxStamp,       \* bound: distinct GNSS times, to the second, of a name
  MaxSuffix,      \* collision suffixes: none, a .. z
  SyncPeriod,     \* the 8000 ms between syncs
  StallMax,       \* bound: longest pass of the superloop (WiFi.begin())
  BufChunks,      \* kFileBufferSize, in chunks
  MaxChunks       \* bound: chunks the receiver produces

ASSUME ConstantsAssumption ==
  /\ NoFile \notin [mode : Modes, stamp : Nat, suffix : Nat]
  /\ MaxStamp \in Nat /\ MaxSuffix \in Nat
  /\ SyncPeriod \in Nat /\ StallMax \in Nat \ {0}
  /\ BufChunks \in Nat \ {0} /\ MaxChunks \in Nat

VARIABLES
  (* sd_logger.cpp and g_log *)
  step,            \* where sdLoggerPoll() stands
  sdOk, loggingEnabled, fileOpen,
  shutdownLatched,
  current,         \* the name of the last log opened
  bytesWritten,    \* chunks counted into it
  flushAge,        \* millis() - lastFlushMs
  (* what it reads *)
  mode,            \* g_settings.mode
  timeValid, stamp,\* g_gnss
  buffer,          \* the receiver library's file buffer
  chunks,          \* chunks received so far
  (* the card *)
  cardOk,          \* the card answers
  card,            \* file name -> chunks that survive a power loss
  tail,            \* chunks written to the open file since its last sync
  tailAge          \* history: how long the oldest of them waits

flags  == <<sdOk, loggingEnabled, fileOpen, shutdownLatched>>
file   == <<current, bytesWritten>>
input  == <<mode, timeValid, stamp, buffer, chunks>>
media  == <<card, tail, tailAge>>
vars   == <<step, flags, file, flushAge, input, cardOk, media>>

Steps  == {"rest", "open", "drain", "flush"}
Names  == [mode : Modes, stamp : 0 .. MaxStamp, suffix : 0 .. MaxSuffix]
AgeCap == SyncPeriod + StallMax + 1     \* bound: ages saturate here

AtMost(n, cap) == IF n > cap THEN cap ELSE n

DataOK ==
  /\ step \in Steps
  /\ current \in Names \cup {NoFile} /\ bytesWritten \in 0 .. MaxChunks
  /\ flushAge \in 0 .. AgeCap /\ tailAge \in 0 .. AgeCap
  /\ mode \in Modes /\ stamp \in 0 .. MaxStamp
  /\ chunks \in 0 .. MaxChunks
  /\ buffer \in Seq(1 .. chunks) /\ Len(buffer) <= BufChunks
  /\ DOMAIN card \subseteq Names /\ card \in [DOMAIN card -> Seq(1 .. chunks)]
  /\ tail \in Seq(1 .. chunks)

FlagsOK ==
  /\ sdOk \in BOOLEAN /\ loggingEnabled \in BOOLEAN /\ fileOpen \in BOOLEAN
  /\ shutdownLatched \in BOOLEAN /\ timeValid \in BOOLEAN /\ cardOk \in BOOLEAN

TypeOK == DataOK /\ FlagsOK

(* After a reset: sdLoggerInit(), then sdLoggerSetEnabled(logUbx) with     *)
(* whatever /config.txt said.                                              *)
Init ==
  /\ step = "rest"
  /\ cardOk \in BOOLEAN /\ sdOk = cardOk
  /\ loggingEnabled \in BOOLEAN /\ mode \in Modes
  /\ fileOpen = FALSE /\ shutdownLatched = FALSE
  /\ current = NoFile /\ bytesWritten = 0 /\ flushAge = 0
  /\ timeValid = FALSE /\ stamp = 0 /\ buffer = <<>> /\ chunks = 0
  /\ card = <<>> /\ tail = <<>> /\ tailAge = 0

-----------------------------------------------------------------------------
(* Helpers of sd_logger.cpp.                                               *)

NameOf(k) == [mode |-> mode, stamp |-> stamp, suffix |-> k]

FaultPastZ == 0 .. MaxSuffix + 1

(* No suffix, then a .. z.                                                 *)
SuffixRange == 0 .. MaxSuffix

FaultNoCollisionGuard(k) == k = 0

(* makeName() and the collision guard of openFile(): the first of the 27   *)
(* names of this second that the card does not hold.                       *)
FirstFree(k) ==
  /\ NameOf(k) \notin DOMAIN card
  /\ \A i \in 0 .. k - 1 : NameOf(i) \in DOMAIN card

NameLeft == \E k \in SuffixRange : NameOf(k) \notin DOMAIN card

FaultOncePerBoot ==
  loggingEnabled /\ ~shutdownLatched /\ timeValid /\ ~fileOpen /\ bytesWritten = 0

WantsOpen == loggingEnabled /\ ~shutdownLatched /\ timeValid /\ ~fileOpen

(* Every byte written so far becomes part of the file that survives.       *)
Synced(len) == [card EXCEPT ![current] = SubSeq(@ \o tail, 1, len)]

FaultCloseUnsynced ==
  fileOpen' = FALSE /\ tail' = <<>> /\ tailAge' = 0 /\ UNCHANGED card

(* closeFile(): truncate to the bytes counted, sync, close -- or, with a   *)
(* card that does not answer, nothing of it, unnoticed.                    *)
CloseFile ==
  IF ~fileOpen THEN UNCHANGED <<fileOpen, media>>
  ELSE /\ fileOpen' = FALSE
       /\ card' = IF cardOk THEN Synced(bytesWritten) ELSE card
       /\ tail' = <<>> /\ tailAge' = 0

-----------------------------------------------------------------------------
(* sdLoggerPoll(), in its three parts.                                     *)

PollNoCard ==
  /\ step = "open" /\ ~sdOk
  /\ step' = "rest"
  /\ UNCHANGED <<flags, file, flushAge, input, cardOk, media>>

(* openFile().  Without a free name, or with a dead card, it fails and is  *)
(* tried again in the next pass.                                           *)
PollOpen ==
  /\ step = "open" /\ sdOk
  /\ step' = "drain"
  /\ \/ /\ WantsOpen /\ cardOk
        /\ \E k \in SuffixRange :
             /\ FirstFree(k)
             /\ current' = NameOf(k)
             /\ card' = [f \in DOMAIN card \cup {NameOf(k)} |->
                           IF f = NameOf(k) THEN <<>> ELSE card[f]]
        /\ fileOpen' = TRUE /\ bytesWritten' = 0
     \/ /\ WantsOpen => ~cardOk \/ ~NameLeft
        /\ UNCHANGED <<current, card, fileOpen, bytesWritten>>
  /\ UNCHANGED <<sdOk, loggingEnabled, shutdownLatched, flushAge, input, cardOk,
                 tail, tailAge>>

FaultFailSilently ==
  UNCHANGED <<sdOk, fileOpen, bytesWritten, media>>

(* logFile.write() came back short: a full, pulled or dying card.  The     *)
(* close may still get out what was written before.                        *)
WriteFailed ==
  /\ fileOpen' = FALSE /\ sdOk' = FALSE
  /\ card' \in {card} \cup IF cardOk THEN {Synced(bytesWritten)} ELSE {}
  /\ tail' = <<>> /\ tailAge' = 0
  /\ UNCHANGED bytesWritten

(* drainOneChunk(): with no file open the chunk is thrown away.            *)
PollDrain ==
  /\ step = "drain"
  /\ step' = "flush"
  /\ IF buffer = <<>>
       THEN UNCHANGED <<buffer, fileOpen, sdOk, bytesWritten, media>>
       ELSE /\ buffer' = Tail(buffer)
            /\ \/ /\ ~fileOpen
                  /\ UNCHANGED <<fileOpen, sdOk, bytesWritten, media>>
               \/ /\ fileOpen /\ cardOk
                  /\ tail' = Append(tail, Head(buffer))
                  /\ tailAge' = IF tail = <<>> THEN 0 ELSE tailAge
                  /\ bytesWritten' = bytesWritten + 1
                  /\ UNCHANGED <<fileOpen, sdOk, card>>
               \/ fileOpen /\ WriteFailed
  /\ UNCHANGED <<loggingEnabled, shutdownLatched, current, flushAge, mode,
                 timeValid, stamp, chunks, cardOk>>

FaultSyncTwice == fileOpen /\ flushAge > 2 * SyncPeriod

SyncDue == fileOpen /\ flushAge > SyncPeriod

PollFlush ==
  /\ step = "flush"
  /\ step' = "rest"
  /\ IF SyncDue
       THEN /\ flushAge' = 0
            /\ IF cardOk
                 THEN /\ card' = Synced(Len(card[current]) + Len(tail))
                      /\ tail' = <<>> /\ tailAge' = 0
                 ELSE UNCHANGED media
       ELSE UNCHANGED <<flushAge, media>>
  /\ UNCHANGED <<flags, file, input, cardOk>>

Poll == PollNoCard \/ PollOpen \/ PollDrain \/ PollFlush

(* The rest of a pass takes d.                                             *)
RestOfPass(d) ==
  /\ step = "rest"
  /\ step' = "open"
  /\ flushAge' = AtMost(flushAge + d, AgeCap)
  /\ tailAge' = IF tail = <<>> THEN 0 ELSE AtMost(tailAge + d, AgeCap)
  /\ UNCHANGED <<flags, file, input, cardOk, card, tail>>

-----------------------------------------------------------------------------
(* Callers of sdLoggerSetEnabled() and sdLoggerShutdown().                 *)

SetEnabled(on) ==
  IF shutdownLatched THEN UNCHANGED <<loggingEnabled, fileOpen, media>>
  ELSE /\ loggingEnabled' = on
       /\ IF on THEN UNCHANGED <<fileOpen, media>> ELSE CloseFile

(* "log on", "log off" and the Logging card.                               *)
CommandLog ==
  /\ step = "rest"
  /\ \E on \in BOOLEAN : SetEnabled(on)
  /\ UNCHANGED <<step, sdOk, shutdownLatched, file, flushAge, input, cardOk>>

(* The LOG button.                                                         *)
TouchLog ==
  /\ step = "rest"
  /\ SetEnabled(~(fileOpen \/ loggingEnabled))
  /\ UNCHANGED <<step, sdOk, shutdownLatched, file, flushAge, input, cardOk>>

FaultModeOnly(m) == mode' = m /\ UNCHANGED <<loggingEnabled, fileOpen, media>>

(* "mode=": an open log is closed and re-enabled, so the new mode gets a   *)
(* file of its own.                                                        *)
SwitchMode(m) ==
  /\ mode' = m
  /\ IF fileOpen /\ ~shutdownLatched
       THEN CloseFile /\ loggingEnabled' = TRUE
       ELSE UNCHANGED <<loggingEnabled, fileOpen, media>>

SerialMode ==
  /\ step = "rest"
  /\ \E m \in Modes : SwitchMode(m)
  /\ UNCHANGED <<step, sdOk, shutdownLatched, file, flushAge, timeValid, stamp,
                 buffer, chunks, cardOk>>

(* Latching before closing through sdLoggerSetEnabled(), which then        *)
(* returns at its guard.                                                   *)
FaultLatchFirst ==
  /\ UNCHANGED <<fileOpen, media>>
  /\ loggingEnabled' = FALSE /\ shutdownLatched' = TRUE

(* sdLoggerShutdown().                                                     *)
CloseForGood ==
  /\ CloseFile
  /\ loggingEnabled' = FALSE /\ shutdownLatched' = TRUE

(* PWR, confirmed: "SAFE TO POWER OFF".                                    *)
Shutdown ==
  /\ step = "rest" /\ ~shutdownLatched
  /\ CloseForGood
  /\ UNCHANGED <<step, sdOk, file, flushAge, input, cardOk>>

-----------------------------------------------------------------------------
(* The receiver, the card, the power.                                      *)

(* onPvt().                                                                *)
Pvt ==
  /\ step = "rest"
  /\ timeValid' \in BOOLEAN
  /\ stamp' \in {stamp, AtMost(stamp + 1, MaxStamp)}
  /\ UNCHANGED <<step, flags, file, flushAge, mode, buffer, chunks, cardOk, media>>

Receive ==
  /\ step = "rest" /\ chunks < MaxChunks /\ Len(buffer) < BufChunks
  /\ chunks' = chunks + 1
  /\ buffer' = Append(buffer, chunks + 1)
  /\ UNCHANGED <<step, flags, file, flushAge, mode, timeValid, stamp, cardOk, media>>

CardDies ==
  /\ cardOk
  /\ cardOk' = FALSE
  /\ UNCHANGED <<step, flags, file, flushAge, input, media>>

Restarted ==
  /\ step' = "rest"
  /\ cardOk' \in BOOLEAN /\ sdOk' = cardOk'
  /\ loggingEnabled' \in BOOLEAN /\ mode' \in Modes
  /\ fileOpen' = FALSE /\ shutdownLatched' = FALSE
  /\ current' = NoFile /\ bytesWritten' = 0 /\ flushAge' = 0
  /\ timeValid' = FALSE /\ stamp' = stamp /\ buffer' = <<>> /\ chunks' = chunks
  /\ tail' = <<>> /\ tailAge' = 0

(* The power bank is pulled, and comes back, whatever the logger does.     *)
PowerYank == Restarted /\ UNCHANGED card

(* The web page's reboot: sdLoggerShutdown() first.                        *)
WebReboot ==
  /\ step = "rest"
  /\ card' = IF fileOpen /\ cardOk THEN Synced(bytesWritten) ELSE card
  /\ Restarted

World == Pvt \/ Receive \/ CardDies \/ PowerYank

Next ==
  \/ Poll
  \/ \E d \in 1 .. StallMax : RestOfPass(d)
  \/ CommandLog \/ TouchLog \/ SerialMode \/ Shutdown \/ WebReboot
  \/ World

Spec == Init /\ [][Next]_vars

-----------------------------------------------------------------------------
(* Properties.                                                             *)

(* What a power loss would leave of a log is never lost again: no name is  *)
(* reused, over restarts, repeated seconds and mode switches, and the      *)
(* truncation of the pre-allocated tail cuts no data off.                  *)
NeverOverwritten ==
  [][\A f \in DOMAIN card :
       /\ f \in DOMAIN card'
       /\ Len(card[f]) <= Len(card'[f])
       /\ SubSeq(card'[f], 1, Len(card[f])) = card[f]
       /\ card'[f] # card[f] => fileOpen /\ f = current]_vars

(* A log has no hole: a chunk that did not reach the card ends its file.   *)
NoHoles ==
  \A f \in DOMAIN card :
    LET log == IF fileOpen /\ f = current THEN card[f] \o tail ELSE card[f]
    IN  \A i \in 1 .. Len(log) - 1 : log[i + 1] = log[i] + 1

(* The r_ or b_ of the open file is the mode the receiver works in, also   *)
(* after a live mode switch.                                               *)
PrefixIsMode == fileOpen => current.mode = mode

(* After "SAFE TO POWER OFF" nothing waits for a sync and no file opens    *)
(* again, whatever the serial menu or the web page asks for.               *)
SafeToPowerOff == shutdownLatched => ~fileOpen /\ tail = <<>>

(* ... and closing a log lost nothing of it: on a card that answers, all   *)
(* that was written is in the file when the pre-allocation is trimmed.     *)
ClosedWhole ==
  [][step = "rest" /\ fileOpen /\ ~fileOpen' /\ cardOk /\ ~PowerYank
       => card'[current] = card[current] \o tail]_vars

(* While logging is on and the card answers, every chunk taken from the    *)
(* receiver lands in a file, through toggles and mode switches, or the     *)
(* card is reported as failed.                                             *)
NoneDiscarded ==
  [][step = "drain" /\ step' = "flush" /\ buffer # <<>> /\ loggingEnabled
       /\ timeValid /\ cardOk /\ sdOk' /\ NameLeft
       => tail' = Append(tail, Head(buffer))]_vars

(* The bytes a power loss costs were written no longer ago than the sync   *)
(* period and the pass it ended in.                                        *)
BoundedLoss == cardOk => tailAge < SyncPeriod + StallMax
=============================================================================
