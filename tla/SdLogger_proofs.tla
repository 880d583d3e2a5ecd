-------------------------- MODULE SdLogger_proofs --------------------------
(***************************************************************************)
(* Proofs about SdLogger, for every number of modes, names, chunks and     *)
(* restarts, and every sync period and pass length.                        *)
(***************************************************************************)
EXTENDS SdLogger, SequenceTheorems, TLAPS

(* The card once all that was written to the open file has survived.       *)
Log   == card[current] \o tail
Whole == [card EXCEPT ![current] = Log]

(* The card with an empty file more.                                       *)
Created(name) ==
  [f \in DOMAIN card \cup {name} |-> IF f = name THEN <<>> ELSE card[f]]

(* An open file is on the card under the present mode, and counted; bytes  *)
(* wait for a sync only in an open file; PWR leaves none open.             *)
FileInv ==
  /\ fileOpen => /\ current \in DOMAIN card /\ current.mode = mode
                 /\ bytesWritten = Len(card[current]) + Len(tail)
  /\ ~fileOpen => tail = <<>>
  /\ shutdownLatched => ~fileOpen
  /\ bytesWritten + Len(buffer) <= chunks

Inv == DataOK /\ FileInv

-----------------------------------------------------------------------------
(* The card.                                                               *)

(***************************************************************************)
(* A sequence over a set is one over every larger set.                     *)
(***************************************************************************)
LEMMA SeqWiden ==
  ASSUME NEW S, NEW T, S \subseteq T, NEW s \in Seq(S)
  PROVE  s \in Seq(T)
<1>1. s \in [1 .. Len(s) -> T] /\ Len(s) \in Nat
  OBVIOUS
<1>2. QED
  BY <1>1

(***************************************************************************)
(* What is left of a buffer when its first element is taken.               *)
(***************************************************************************)
LEMMA TailTyped ==
  ASSUME NEW S, NEW s \in Seq(S), s # <<>>
  PROVE  /\ Tail(s) \in Seq(S) /\ Len(Tail(s)) = Len(s) - 1
         /\ Head(s) \in S /\ Len(s) \in Nat
  OBVIOUS

(***************************************************************************)
(* Truncating an open file to the bytes counted into it keeps all of them. *)
(***************************************************************************)
LEMMA SyncedIsWhole ==
  ASSUME Inv, fileOpen
  PROVE  /\ Log \in Seq(1 .. chunks) /\ Len(Log) = Len(card[current]) + Len(tail)
         /\ Synced(bytesWritten) = Whole
         /\ Synced(Len(card[current]) + Len(tail)) = Whole
<1>1. /\ card[current] \in Seq(1 .. chunks) /\ tail \in Seq(1 .. chunks)
      /\ bytesWritten = Len(card[current]) + Len(tail)
  BY DEF Inv, DataOK, FileInv
<1>2. Log \in Seq(1 .. chunks) /\ Len(Log) = Len(card[current]) + Len(tail)
  BY <1>1, ConcatProperties DEF Log
<1>3. SubSeq(Log, 1, Len(Log)) = Log
  BY <1>2, SubSeqFull
<1>4. QED
  BY <1>1, <1>2, <1>3 DEF Synced, Whole, Log

(***************************************************************************)
(* The three things that happen to the card keep its type.                 *)
(***************************************************************************)
LEMMA CardTyped ==
  ASSUME Inv, chunks' \in 0 .. MaxChunks, chunks <= chunks',
         \/ card' = card
         \/ fileOpen /\ card' = Whole
         \/ \E k \in SuffixRange : card' = Created(NameOf(k))
  PROVE  DOMAIN card' \subseteq Names /\ card' \in [DOMAIN card' -> Seq(1 .. chunks')]
<1>1. /\ DOMAIN card \subseteq Names /\ card \in [DOMAIN card -> Seq(1 .. chunks)]
  BY DEF Inv, DataOK
<1>2. chunks \in Nat /\ 1 .. chunks \subseteq 1 .. chunks'
  BY DEF Inv, DataOK
<1>3. Seq(1 .. chunks) \subseteq Seq(1 .. chunks')
  BY <1>2, SeqWiden
<1>4. CASE card' = card
  BY <1>1, <1>3, <1>4
<1>5. CASE fileOpen /\ card' = Whole
  <2>1. Log \in Seq(1 .. chunks)
    BY <1>5, SyncedIsWhole
  <2>2. QED
    BY <1>1, <1>3, <1>5, <2>1 DEF Whole
<1>6. ASSUME NEW k \in SuffixRange, card' = Created(NameOf(k))
      PROVE  DOMAIN card' \subseteq Names /\ card' \in [DOMAIN card' -> Seq(1 .. chunks')]
  <2>1. NameOf(k) \in Names
    BY <1>6 DEF NameOf, Names, SuffixRange, Inv, DataOK
  <2>2. <<>> \in Seq(1 .. chunks')
    BY EmptySeq
  <2> DEFINE name == NameOf(k)
  <2> HIDE DEF name
  <2>3. card' = [f \in DOMAIN card \cup {name} |-> IF f = name THEN <<>> ELSE card[f]]
    BY <1>6 DEF Created, name
  <2>4. DOMAIN card' = DOMAIN card \cup {name}
    BY <2>3, Zenon
  <2>5. \A f \in DOMAIN card' : card'[f] \in Seq(1 .. chunks')
    BY <1>1, <1>3, <2>2, <2>3, <2>4
  <2>6. card' \in [DOMAIN card' -> Seq(1 .. chunks')]
    BY <2>3, <2>4, <2>5
  <2>7. QED
    BY <1>1, <2>1, <2>4, <2>6 DEF name
<1>7. QED
  BY <1>4, <1>5, <1>6

(***************************************************************************)
(* Closing a file leaves all of it on a card that answers, and else what   *)
(* was there.                                                              *)
(***************************************************************************)
LEMMA CloseMoves ==
  ASSUME Inv, CloseFile
  PROVE  /\ ~fileOpen' /\ tail' = <<>> /\ tailAge' \in 0 .. AgeCap
         /\ card' = card \/ (fileOpen /\ cardOk /\ card' = Whole)
         /\ fileOpen /\ cardOk => card' = Whole
<1>1. CASE fileOpen
  <2>1. Synced(bytesWritten) = Whole
    BY <1>1, SyncedIsWhole
  <2>2. 0 \in 0 .. AgeCap
    BY ConstantsAssumption DEF AgeCap
  <2>3. QED
    BY <1>1, <2>1, <2>2 DEF CloseFile
<1>2. CASE ~fileOpen
  BY <1>2 DEF CloseFile, media, Inv, FileInv, DataOK
<1>3. QED
  BY <1>1, <1>2

(***************************************************************************)
(* Ages saturate.                                                          *)
(***************************************************************************)
LEMMA AgesTyped ==
  /\ 0 \in 0 .. AgeCap
  /\ \A age \in 0 .. AgeCap, d \in Nat : AtMost(age + d, AgeCap) \in 0 .. AgeCap
  BY ConstantsAssumption DEF AgeCap, AtMost

-----------------------------------------------------------------------------
(* The actions.                                                            *)

(***************************************************************************)
(* Nothing is opened, known or written after power-up.                     *)
(***************************************************************************)
LEMMA InitInv == Init => Inv
<1> SUFFICES ASSUME Init PROVE Inv
  OBVIOUS
<1>1. 0 \in 0 .. AgeCap /\ MaxStamp \in Nat /\ MaxChunks \in Nat /\ BufChunks \in Nat
  BY ConstantsAssumption, AgesTyped
<1>2. <<>> \in Seq(1 .. 0) /\ Len(<<>>) = 0 /\ DOMAIN <<>> = {}
  OBVIOUS
<1>3. card = <<>> /\ card \in [DOMAIN card -> Seq(1 .. chunks)]
  BY DEF Init
<1>4. DataOK
  BY <1>1, <1>2, <1>3 DEF Init, DataOK, Steps
<1>5. FileInv
  BY <1>2 DEF Init, FileInv
<1>6. QED
  BY <1>4, <1>5 DEF Inv

(***************************************************************************)
(* A pass of sdLoggerPoll().                                               *)
(***************************************************************************)
LEMMA OpenKeepsInv ==
  ASSUME Inv, PollOpen
  PROVE  Inv' /\ (card' = card \/ \E k \in SuffixRange :
                    NameOf(k) \notin DOMAIN card /\ card' = Created(NameOf(k)))
<1>1. /\ step' = "drain"
      /\ UNCHANGED <<flushAge, mode, stamp, buffer, chunks, tail, tailAge,
                     shutdownLatched>>
  BY DEF PollOpen, input
<1>2. CASE UNCHANGED <<current, card, fileOpen, bytesWritten>>
  BY <1>1, <1>2 DEF Inv, DataOK, FileInv, Steps
<1>3. ASSUME NEW k \in SuffixRange, WantsOpen, NameOf(k) \notin DOMAIN card,
             current' = NameOf(k), card' = Created(NameOf(k)),
             fileOpen' = TRUE, bytesWritten' = 0
      PROVE  Inv'
  <2>1. DOMAIN card' \subseteq Names /\ card' \in [DOMAIN card' -> Seq(1 .. chunks')]
    BY <1>1, <1>3, CardTyped DEF Inv, DataOK
  <2>2. current' \in Names /\ current'.mode = mode
    BY <1>3 DEF NameOf, Names, SuffixRange, Inv, DataOK
  <2>3. tail = <<>> /\ ~shutdownLatched
    BY <1>3 DEF WantsOpen, Inv, FileInv
  <2>4. card'[current'] = <<>> /\ current' \in DOMAIN card'
    BY <1>3 DEF Created
  <2>5. Len(card'[current']) + Len(tail') = 0
    BY <1>1, <2>3, <2>4
  <2>6. Len(buffer) <= chunks /\ bytesWritten' \in 0 .. MaxChunks
    BY <1>3, ConstantsAssumption DEF Inv, DataOK, FileInv
  <2>7. DataOK'
    BY <1>1, <2>1, <2>2, <2>6 DEF Inv, DataOK, Steps
  <2>8. FileInv'
    BY <1>1, <1>3, <2>2, <2>3, <2>4, <2>5, <2>6 DEF Inv, DataOK, FileInv
  <2>9. QED
    BY <2>7, <2>8 DEF Inv
<1>4. \/ UNCHANGED <<current, card, fileOpen, bytesWritten>>
      \/ \E k \in SuffixRange :
           /\ WantsOpen /\ NameOf(k) \notin DOMAIN card
           /\ current' = NameOf(k) /\ card' = Created(NameOf(k))
           /\ fileOpen' = TRUE /\ bytesWritten' = 0
  BY DEF PollOpen, FirstFree, Created
<1>5. QED
  BY <1>2, <1>3, <1>4

(***************************************************************************)
(* drainOneChunk(): written and counted, thrown away, or the last.         *)
(***************************************************************************)
LEMMA DrainKeepsInv ==
  ASSUME Inv, PollDrain
  PROVE  Inv' /\ (card' = card \/ (fileOpen /\ cardOk /\ card' = Whole))
<1>1. /\ step' = "flush"
      /\ UNCHANGED <<flushAge, current, mode, stamp, chunks, shutdownLatched>>
  BY DEF PollDrain
<1>2. CASE UNCHANGED <<buffer, fileOpen, bytesWritten, media>>
  BY <1>1, <1>2 DEF media, Inv, DataOK, FileInv, Steps
<1>3. CASE buffer # <<>>
  <2>1. /\ buffer' = Tail(buffer) /\ buffer' \in Seq(1 .. chunks)
        /\ Len(buffer') = Len(buffer) - 1 /\ Head(buffer) \in 1 .. chunks
        /\ Len(buffer) \in Nat
    <3>1. buffer \in Seq(1 .. chunks)
      BY DEF Inv, DataOK
    <3>2. buffer' = Tail(buffer)
      BY <1>3 DEF PollDrain
    <3>3. /\ Tail(buffer) \in Seq(1 .. chunks) /\ Len(Tail(buffer)) = Len(buffer) - 1
          /\ Head(buffer) \in 1 .. chunks /\ Len(buffer) \in Nat
      BY <1>3, <3>1, TailTyped
    <3>4. QED
      BY <3>2, <3>3
  <2>2. Len(buffer') <= BufChunks
    BY <2>1, ConstantsAssumption DEF Inv, DataOK
  <2>3. CASE ~fileOpen /\ UNCHANGED <<fileOpen, sdOk, bytesWritten, media>>
    BY <1>1, <2>1, <2>2, <2>3 DEF media, Inv, DataOK, FileInv, Steps
  <2>4. CASE /\ fileOpen /\ UNCHANGED <<fileOpen, sdOk, card>>
             /\ tail' = Append(tail, Head(buffer))
             /\ tailAge' = (IF tail = <<>> THEN 0 ELSE tailAge)
             /\ bytesWritten' = bytesWritten + 1
    <3>1. tail' \in Seq(1 .. chunks) /\ Len(tail') = Len(tail) + 1
      BY <2>1, <2>4 DEF Inv, DataOK
    <3>2. tailAge' \in 0 .. AgeCap
      BY <2>4, AgesTyped DEF Inv, DataOK
    <3>3. bytesWritten' + Len(buffer') <= chunks /\ bytesWritten' \in 0 .. MaxChunks
      <4>1. /\ bytesWritten + Len(buffer) <= chunks /\ bytesWritten \in Nat
            /\ chunks \in Nat /\ chunks <= MaxChunks /\ MaxChunks \in Nat
        BY ConstantsAssumption DEF Inv, DataOK, FileInv
      <4>2. Len(buffer') \in Nat
        BY <2>1
      <4>3. bytesWritten' = bytesWritten + 1
        BY <2>4
      <4>4. QED
        BY <2>1, <4>1, <4>2, <4>3
    <3>4. card[current] \in Seq(1 .. chunks) /\ Len(card[current]) \in Nat /\ Len(tail) \in Nat
      <4>1. current \in DOMAIN card
        BY <2>4 DEF Inv, FileInv
      <4>2. card \in [DOMAIN card -> Seq(1 .. chunks)] /\ tail \in Seq(1 .. chunks)
        BY DEF Inv, DataOK
      <4>3. card[current] \in Seq(1 .. chunks)
        BY <4>1, <4>2
      <4>4. QED
        BY <4>2, <4>3
    <3>5. DataOK'
      <4>1. DOMAIN card' \subseteq Names /\ card' \in [DOMAIN card' -> Seq(1 .. chunks')]
        BY <1>1, <2>4, CardTyped DEF Inv, DataOK
      <4>2. step' \in Steps
        BY <1>1 DEF Steps
      <4>3. /\ current' \in Names \cup {NoFile} /\ flushAge' \in 0 .. AgeCap
            /\ mode' \in Modes /\ stamp' \in 0 .. MaxStamp /\ chunks' \in 0 .. MaxChunks
        BY <1>1 DEF Inv, DataOK
      <4>4. /\ buffer' \in Seq(1 .. chunks') /\ Len(buffer') <= BufChunks
            /\ tail' \in Seq(1 .. chunks')
        BY <1>1, <2>1, <2>2, <3>1
      <4>5. QED
        BY <3>2, <3>3, <4>1, <4>2, <4>3, <4>4, Zenon DEF DataOK
    <3>6. FileInv'
      BY <1>1, <2>1, <2>4, <3>1, <3>3, <3>4 DEF Inv, FileInv
    <3>7. QED
      BY <2>4, <3>5, <3>6 DEF Inv
  <2>5. CASE fileOpen /\ WriteFailed
    <3>1. card' = card \/ (cardOk /\ card' = Whole)
      BY <2>5, SyncedIsWhole DEF WriteFailed
    <3>2. DOMAIN card' \subseteq Names /\ card' \in [DOMAIN card' -> Seq(1 .. chunks')]
      BY <1>1, <2>5, <3>1, CardTyped DEF Inv, DataOK
    <3>3. ~fileOpen' /\ tail' = <<>> /\ tailAge' = 0 /\ bytesWritten' = bytesWritten
      BY <2>5 DEF WriteFailed
    <3>4. tail' \in Seq(1 .. chunks)
      BY <3>3, EmptySeq
    <3>5. DataOK'
      BY <1>1, <2>1, <2>2, <3>2, <3>3, <3>4, AgesTyped DEF Inv, DataOK, Steps
    <3>6. FileInv'
      BY <1>1, <2>1, <3>3 DEF Inv, DataOK, FileInv
    <3>7. QED
      BY <2>5, <3>1, <3>5, <3>6 DEF Inv
  <2>6. QED
    BY <1>3, <2>3, <2>4, <2>5 DEF PollDrain
<1>4. QED
  BY <1>2, <1>3 DEF PollDrain, media

(***************************************************************************)
(* The sync leaves all of the open file on the card.                       *)
(***************************************************************************)
LEMMA FlushKeepsInv ==
  ASSUME Inv, PollFlush
  PROVE  Inv' /\ (card' = card \/ (fileOpen /\ cardOk /\ card' = Whole))
<1>1. /\ step' = "rest"
      /\ UNCHANGED <<fileOpen, shutdownLatched, current, bytesWritten, mode, stamp,
                     buffer, chunks>>
  BY DEF PollFlush, flags, file, input
<1>2. flushAge' \in 0 .. AgeCap
  BY AgesTyped DEF PollFlush, Inv, DataOK
<1>3. CASE UNCHANGED media
  BY <1>1, <1>2, <1>3 DEF media, Inv, DataOK, FileInv, Steps
<1>4. CASE ~UNCHANGED media
  <2>1. /\ fileOpen /\ cardOk /\ tail' = <<>> /\ tailAge' = 0
        /\ card' = Synced(Len(card[current]) + Len(tail))
    BY <1>4 DEF PollFlush, SyncDue
  <2>2. card' = Whole /\ Log \in Seq(1 .. chunks) /\ Len(Log) = bytesWritten
    BY <2>1, SyncedIsWhole DEF Inv, FileInv
  <2>3. DOMAIN card' \subseteq Names /\ card' \in [DOMAIN card' -> Seq(1 .. chunks')]
    BY <1>1, <2>1, <2>2, CardTyped DEF Inv, DataOK
  <2>4. tail' \in Seq(1 .. chunks) /\ Len(tail') = 0
    BY <2>1, EmptySeq
  <2>5. current \in DOMAIN card
    BY <2>1 DEF Inv, FileInv
  <2>6. card'[current] = Log /\ current \in DOMAIN card'
    BY <2>2, <2>5 DEF Whole, Inv, DataOK
  <2>7. DataOK'
    BY <1>1, <1>2, <2>1, <2>3, <2>4, AgesTyped DEF Inv, DataOK, Steps
  <2>8. FileInv'
    BY <1>1, <2>1, <2>2, <2>4, <2>6 DEF Inv, DataOK, FileInv
  <2>9. QED
    BY <2>1, <2>2, <2>7, <2>8 DEF Inv
<1>5. QED
  BY <1>3, <1>4 DEF media

(***************************************************************************)
(* Time passes for the two ages only.                                      *)
(***************************************************************************)
LEMMA RestKeepsInv ==
  ASSUME Inv, NEW d \in 1 .. StallMax, RestOfPass(d)
  PROVE  Inv' /\ card' = card
<1>1. UNCHANGED <<fileOpen, shutdownLatched, current, bytesWritten, mode, stamp, buffer,
                  chunks, card, tail>> /\ step' = "open"
  BY DEF RestOfPass, flags, file, input
<1>2. d \in Nat
  BY ConstantsAssumption
<1>3. flushAge' \in 0 .. AgeCap /\ tailAge' \in 0 .. AgeCap
  BY <1>2, AgesTyped DEF RestOfPass, Inv, DataOK
<1>4. QED
  BY <1>1, <1>3 DEF Inv, DataOK, FileInv, Steps

(* The commands: whatever they close, they close whole, and a new mode     *)
(* finds no file open.                                                     *)
Commands == CommandLog \/ TouchLog \/ SerialMode \/ Shutdown

(***************************************************************************)
(* A command closes the open file whole or leaves it alone.                *)
(***************************************************************************)
LEMMA CommandsKeepInv ==
  ASSUME Inv, Commands
  PROVE  /\ Inv' /\ (card' = card \/ (fileOpen /\ cardOk /\ card' = Whole))
         /\ fileOpen /\ cardOk /\ ~fileOpen' => card' = Whole
<1>1. UNCHANGED <<step, current, bytesWritten, flushAge, stamp, buffer, chunks>>
  BY DEF Commands, CommandLog, TouchLog, SerialMode, Shutdown, SetEnabled, SwitchMode,
         CloseForGood, file, input
<1>2. mode' \in Modes
  BY DEF Commands, CommandLog, TouchLog, SerialMode, Shutdown, SetEnabled, SwitchMode,
         CloseForGood, input, Inv, DataOK
<1>3. \/ CloseFile
      \/ UNCHANGED <<fileOpen, media>> /\ (fileOpen => mode' = mode)
  <2>1. CASE CommandLog
    BY <2>1 DEF CommandLog, SetEnabled, input
  <2>2. CASE TouchLog
    BY <2>2 DEF TouchLog, SetEnabled, input
  <2>3. CASE SerialMode
    BY <2>3 DEF SerialMode, SwitchMode, Inv, FileInv
  <2>4. CASE Shutdown
    BY <2>4 DEF Shutdown, CloseForGood
  <2>5. QED
    BY <2>1, <2>2, <2>3, <2>4 DEF Commands
<1>4. shutdownLatched' => ~fileOpen'
  <2>1. CASE UNCHANGED shutdownLatched
    <3>1. CASE CloseFile
      BY <3>1, CloseMoves
    <3>2. CASE UNCHANGED fileOpen
      BY <2>1, <3>2 DEF Inv, FileInv
    <3>3. QED
      BY <1>3, <3>1, <3>2
  <2>2. CASE Shutdown
    BY <2>2, CloseMoves DEF Shutdown, CloseForGood
  <2>3. QED
    BY <2>1, <2>2 DEF Commands, CommandLog, TouchLog, SerialMode
<1>5. CASE UNCHANGED <<fileOpen, media>> /\ (fileOpen => mode' = mode)
  BY <1>1, <1>2, <1>4, <1>5 DEF media, Inv, DataOK, FileInv
<1>6. CASE CloseFile
  <2>1. /\ ~fileOpen' /\ tail' = <<>> /\ tailAge' \in 0 .. AgeCap
        /\ card' = card \/ (fileOpen /\ cardOk /\ card' = Whole)
        /\ fileOpen /\ cardOk => card' = Whole
    BY <1>6, CloseMoves
  <2>2. DOMAIN card' \subseteq Names /\ card' \in [DOMAIN card' -> Seq(1 .. chunks')]
    BY <1>1, <2>1, CardTyped DEF Inv, DataOK
  <2>3. tail' \in Seq(1 .. chunks')
    BY <2>1, EmptySeq
  <2>4. DataOK'
    BY <1>1, <1>2, <2>1, <2>2, <2>3 DEF Inv, DataOK
  <2>5. FileInv'
    BY <1>1, <1>4, <2>1 DEF Inv, FileInv
  <2>6. QED
    BY <2>1, <2>4, <2>5 DEF Inv
<1>7. QED
  BY <1>3, <1>5, <1>6

(***************************************************************************)
(* A restart forgets everything but the card.                              *)
(***************************************************************************)
LEMMA RestartKeepsInv ==
  ASSUME Inv, PowerYank \/ WebReboot
  PROVE  /\ Inv' /\ (card' = card \/ (fileOpen /\ cardOk /\ card' = Whole))
         /\ WebReboot /\ fileOpen /\ cardOk => card' = Whole
<1>1. /\ step' = "rest" /\ mode' \in Modes /\ fileOpen' = FALSE /\ shutdownLatched' = FALSE
      /\ current' = NoFile /\ bytesWritten' = 0 /\ flushAge' = 0
      /\ stamp' = stamp /\ buffer' = <<>> /\ chunks' = chunks
      /\ tail' = <<>> /\ tailAge' = 0
  BY DEF PowerYank, WebReboot, Restarted
<1>2. /\ card' = card \/ (fileOpen /\ cardOk /\ card' = Whole)
      /\ WebReboot /\ fileOpen /\ cardOk => card' = Whole
  BY SyncedIsWhole DEF PowerYank, WebReboot
<1>3. DOMAIN card' \subseteq Names /\ card' \in [DOMAIN card' -> Seq(1 .. chunks')]
  BY <1>1, <1>2, CardTyped DEF Inv, DataOK
<1>4. <<>> \in Seq(1 .. chunks') /\ Len(<<>>) = 0
  BY EmptySeq
<1>5. BufChunks \in Nat /\ MaxChunks \in Nat /\ chunks \in Nat
  BY ConstantsAssumption DEF Inv, DataOK
<1>6. DataOK'
  BY <1>1, <1>3, <1>4, <1>5, AgesTyped DEF Inv, DataOK, Steps
<1>7. FileInv'
  BY <1>1, <1>4, <1>5 DEF FileInv
<1>8. QED
  BY <1>2, <1>6, <1>7 DEF Inv

(***************************************************************************)
(* The receiver's time and data, and a dying card, touch no file.          *)
(***************************************************************************)
LEMMA InputKeepsInv ==
  ASSUME Inv, Pvt \/ Receive \/ CardDies \/ PollNoCard \/ UNCHANGED vars
  PROVE  Inv' /\ UNCHANGED <<card, fileOpen>>
<1>1. UNCHANGED <<current, bytesWritten, flushAge, mode, card, tail, tailAge, fileOpen,
                  shutdownLatched>>
  BY DEF Pvt, Receive, CardDies, PollNoCard, vars, flags, file, input, media
<1>2. step' \in Steps /\ stamp' \in 0 .. MaxStamp
  BY ConstantsAssumption
     DEF Pvt, Receive, CardDies, PollNoCard, vars, input, AtMost, Inv, DataOK, Steps
<1>3. CASE UNCHANGED <<buffer, chunks>>
  BY <1>1, <1>2, <1>3 DEF Inv, DataOK, FileInv
<1>4. CASE Receive
  <2>1. /\ chunks' = chunks + 1 /\ buffer' = Append(buffer, chunks + 1)
        /\ chunks < MaxChunks /\ Len(buffer) < BufChunks
    BY <1>4 DEF Receive
  <2>2. chunks \in Nat /\ chunks' \in 0 .. MaxChunks /\ chunks <= chunks'
    <3>1. chunks \in 0 .. MaxChunks
      BY DEF Inv, DataOK
    <3>2. MaxChunks \in Nat
      BY ConstantsAssumption
    <3>3. QED
      BY <2>1, <3>1, <3>2
  <2>3. 1 .. chunks \subseteq 1 .. chunks' /\ chunks' \in 1 .. chunks'
    BY <2>1, <2>2
  <2>4. buffer \in Seq(1 .. chunks') /\ tail \in Seq(1 .. chunks')
    BY <2>3, SeqWiden DEF Inv, DataOK
  <2>5. /\ buffer' \in Seq(1 .. chunks') /\ Len(buffer') = Len(buffer) + 1
        /\ Len(buffer) \in Nat
    BY <2>1, <2>3, <2>4
  <2>6. Len(buffer') <= BufChunks
    BY <2>1, <2>5, ConstantsAssumption
  <2>7. DOMAIN card' \subseteq Names /\ card' \in [DOMAIN card' -> Seq(1 .. chunks')]
    BY <1>1, <2>2, CardTyped
  <2>8. DataOK'
    BY <1>1, <1>2, <2>2, <2>4, <2>5, <2>6, <2>7 DEF Inv, DataOK
  <2>9. bytesWritten' + Len(buffer') <= chunks'
    BY <1>1, <2>1, <2>2, <2>5 DEF Inv, DataOK, FileInv
  <2>10. FileInv'
    BY <1>1, <2>9 DEF Inv, FileInv
  <2>11. QED
    BY <1>1, <2>8, <2>10 DEF Inv
<1>5. QED
  BY <1>1, <1>3, <1>4 DEF Pvt, CardDies, PollNoCard, vars, input

(***************************************************************************)
(* Every step keeps an open file as FileInv says.                          *)
(***************************************************************************)
LEMMA InvStep == Inv /\ [Next]_vars => Inv'
  BY OpenKeepsInv, DrainKeepsInv, FlushKeepsInv, RestKeepsInv, CommandsKeepInv,
     RestartKeepsInv, InputKeepsInv DEF Next, Poll, World, Commands

(***************************************************************************)
(* Every step keeps the flags Boolean.                                     *)
(***************************************************************************)
LEMMA FlagsStep == FlagsOK /\ [Next]_vars => FlagsOK'
<1> SUFFICES ASSUME FlagsOK, [Next]_vars PROVE FlagsOK'
  OBVIOUS
<1>1. CASE UNCHANGED vars
  BY <1>1 DEF vars, flags, input, FlagsOK
<1>2. CASE Poll
  <2>1. UNCHANGED <<loggingEnabled, shutdownLatched, timeValid, cardOk>>
    BY <1>2 DEF Poll, PollNoCard, PollOpen, PollDrain, PollFlush, flags, input
  <2>2. sdOk' = sdOk \/ sdOk' = FALSE
    BY <1>2, Zenon
       DEF Poll, PollNoCard, PollOpen, PollDrain, WriteFailed, PollFlush, flags
  <2>3. fileOpen' = fileOpen \/ fileOpen' = FALSE \/ fileOpen' = TRUE
    BY <1>2, Zenon
       DEF Poll, PollNoCard, PollOpen, PollDrain, WriteFailed, PollFlush, flags
  <2>4. QED
    BY <2>1, <2>2, <2>3, Zenon DEF FlagsOK
<1>3. CASE Commands
  <2>1. UNCHANGED <<sdOk, timeValid, cardOk>>
    BY <1>3 DEF Commands, CommandLog, TouchLog, SerialMode, Shutdown, input
  <2>2. shutdownLatched' \in BOOLEAN
    BY <1>3, Zenon DEF Commands, CommandLog, TouchLog, SerialMode, Shutdown, CloseForGood,
       FlagsOK
  <2>3. fileOpen' = fileOpen \/ fileOpen' = FALSE
    BY <1>3, Zenon DEF Commands, CommandLog, TouchLog, SerialMode, Shutdown, CloseForGood,
       SetEnabled, SwitchMode, CloseFile
  <2>4. loggingEnabled' \in BOOLEAN
    <3>1. ASSUME NEW on \in BOOLEAN, SetEnabled(on) PROVE loggingEnabled' \in BOOLEAN
      BY <3>1, Zenon DEF SetEnabled, FlagsOK
    <3>2. (~(fileOpen \/ loggingEnabled)) \in BOOLEAN
      OBVIOUS
    <3>3. CASE CommandLog \/ TouchLog
      BY <3>1, <3>2, <3>3 DEF CommandLog, TouchLog
    <3>4. CASE SerialMode \/ Shutdown
      BY <3>4, Zenon DEF SerialMode, SwitchMode, Shutdown, CloseForGood, FlagsOK
    <3>5. QED
      BY <1>3, <3>3, <3>4 DEF Commands
  <2>5. QED
    BY <2>1, <2>2, <2>3, <2>4, Zenon DEF FlagsOK
<1>4. CASE PowerYank \/ WebReboot
  BY <1>4, Zenon DEF PowerYank, WebReboot, Restarted, FlagsOK
<1>5. CASE Pvt \/ Receive \/ CardDies \/ \E d \in 1 .. StallMax : RestOfPass(d)
  <2>1. UNCHANGED <<sdOk, loggingEnabled, fileOpen, shutdownLatched>>
    BY <1>5 DEF Pvt, Receive, CardDies, RestOfPass, flags
  <2>2. timeValid' \in BOOLEAN
    BY <1>5, Zenon DEF Pvt, Receive, CardDies, RestOfPass, input, FlagsOK
  <2>3. cardOk' = cardOk \/ cardOk' = FALSE
    BY <1>5, Zenon DEF Pvt, Receive, CardDies, RestOfPass
  <2>4. QED
    BY <2>1, <2>2, <2>3, Zenon DEF FlagsOK
<1>6. QED
  BY <1>1, <1>2, <1>3, <1>4, <1>5 DEF Next, World, Commands

(***************************************************************************)
(* In every behaviour an open file is as FileInv says.                     *)
(***************************************************************************)
LEMMA FilesCounted == Spec => []Inv
  BY InitInv, InvStep, PTL DEF Spec

(***************************************************************************)
(* Every variable keeps its type: no count outgrows what was received, and *)
(* no file is named outside the 27 names of a second.                      *)
(***************************************************************************)
THEOREM TypeCorrect == Spec => []TypeOK
<1>1. Init => Inv /\ FlagsOK
  <2>1. Init => FlagsOK
    BY Zenon DEF Init, FlagsOK
  <2>2. QED
    BY <2>1, InitInv
<1>2. Inv /\ FlagsOK /\ [Next]_vars => (Inv /\ FlagsOK)'
  BY InvStep, FlagsStep
<1>3. Inv /\ FlagsOK => TypeOK
  BY DEF Inv, TypeOK
<1>4. QED
  BY <1>1, <1>2, <1>3, PTL DEF Spec

(***************************************************************************)
(* The prefix of the open log is the mode the receiver works in.           *)
(***************************************************************************)
THEOREM LogHasPresentMode == Spec => []PrefixIsMode
<1>1. Inv => PrefixIsMode
  BY DEF Inv, FileInv, PrefixIsMode
<1>2. QED
  BY <1>1, FilesCounted, PTL

(***************************************************************************)
(* After "SAFE TO POWER OFF" no file is open and no byte waits for a sync. *)
(***************************************************************************)
THEOREM PowerOffIsSafe == Spec => []SafeToPowerOff
<1>1. Inv => SafeToPowerOff
  BY DEF Inv, FileInv, SafeToPowerOff
<1>2. QED
  BY <1>1, FilesCounted, PTL

-----------------------------------------------------------------------------
(* What survives.                                                          *)

CardMove ==
  \/ card' = card
  \/ fileOpen /\ card' = Whole
  \/ \E k \in SuffixRange :
       NameOf(k) \notin DOMAIN card /\ card' = Created(NameOf(k))

(***************************************************************************)
(* Any step leaves the card alone, syncs all of the open file, or creates  *)
(* a file under a new name.                                                *)
(***************************************************************************)
LEMMA StepMovesCard == Inv /\ [Next]_vars => CardMove
  BY OpenKeepsInv, DrainKeepsInv, FlushKeepsInv, RestKeepsInv, CommandsKeepInv,
     RestartKeepsInv, InputKeepsInv DEF Next, Poll, World, Commands, CardMove

(***************************************************************************)
(* A sequence begins with itself, also after something is added to it.     *)
(***************************************************************************)
LEMMA ConcatBegins ==
  ASSUME NEW S, NEW s \in Seq(S), NEW t \in Seq(S)
  PROVE  /\ SubSeq(s \o t, 1, Len(s)) = s /\ Len(s) <= Len(s \o t)
         /\ SubSeq(s, 1, Len(s)) = s /\ Len(s) <= Len(s)
<1>1. Len(s) \in Nat /\ Len(t) \in Nat /\ Len(s \o t) = Len(s) + Len(t)
  BY ConcatProperties
<1>2. SubSeq(s, 1, Len(s)) = s
  BY SubSeqFull
<1>3. CASE Len(s) = 0
  <2>1. s = <<>> /\ SubSeq(s \o t, 1, Len(s)) = <<>>
    BY <1>3, SubSeqEmpty
  <2>2. QED
    BY <1>1, <1>2, <2>1
<1>4. CASE Len(s) # 0
  <2>1. 1 \in 1 .. Len(s) /\ Len(s) \in 1 .. Len(s)
    BY <1>1, <1>4
  <2>2. SubSeq(s \o t, 1, Len(s)) = SubSeq(s, 1, Len(s))
    BY <2>1, SubSeqOfConcat1
  <2>3. QED
    BY <1>1, <1>2, <2>2
<1>5. QED
  BY <1>3, <1>4

(***************************************************************************)
(* What a power loss would leave of a log is never lost again.             *)
(***************************************************************************)
THEOREM LogsSurvive == Spec => NeverOverwritten
<1> DEFINE Kept(f) == /\ f \in DOMAIN card'
                      /\ Len(card[f]) <= Len(card'[f])
                      /\ SubSeq(card'[f], 1, Len(card[f])) = card[f]
                      /\ card'[f] # card[f] => fileOpen /\ f = current
<1>1. ASSUME Inv, CardMove, NEW f \in DOMAIN card PROVE Kept(f)
  <2>1. card[f] \in Seq(1 .. chunks)
    BY <1>1 DEF Inv, DataOK
  <2>2. SubSeq(card[f], 1, Len(card[f])) = card[f] /\ Len(card[f]) <= Len(card[f])
    BY <2>1, ConcatBegins
  <2>3. CASE f \in DOMAIN card' /\ card'[f] = card[f]
    BY <2>2, <2>3
  <2>4. CASE fileOpen /\ card' = Whole /\ f = current
    <3>1. f \in DOMAIN card' /\ card'[f] = card[f] \o tail
      BY <1>1, <2>4 DEF Whole, Log, Inv, DataOK
    <3>2. tail \in Seq(1 .. chunks)
      BY <1>1 DEF Inv, DataOK
    <3>3. /\ SubSeq(card[f] \o tail, 1, Len(card[f])) = card[f]
          /\ Len(card[f]) <= Len(card[f] \o tail)
      BY <2>1, <3>2, ConcatBegins
    <3>4. QED
      BY <2>4, <3>1, <3>3
  <2>5. CASE fileOpen /\ card' = Whole /\ f # current
    BY <1>1, <2>3, <2>5 DEF Whole, Inv, DataOK
  <2>6. CASE \E k \in SuffixRange :
               NameOf(k) \notin DOMAIN card /\ card' = Created(NameOf(k))
    <3>1. PICK k \in SuffixRange :
            NameOf(k) \notin DOMAIN card /\ card' = Created(NameOf(k))
      BY <2>6
    <3>2. f # NameOf(k)
      BY <1>1, <3>1
    <3>3. f \in DOMAIN card' /\ card'[f] = card[f]
      BY <1>1, <3>1, <3>2 DEF Created
    <3>4. QED
      BY <2>3, <3>3
  <2>7. QED
    BY <1>1, <2>3, <2>4, <2>5, <2>6 DEF CardMove
<1>2. ASSUME Inv, [Next]_vars PROVE [\A f \in DOMAIN card : Kept(f)]_vars
  <2> HIDE DEF Kept
  <2>1. QED
    BY <1>1, <1>2, StepMovesCard
<1>3. QED
  BY <1>2, FilesCounted, PTL DEF Spec, NeverOverwritten

(***************************************************************************)
(* Closing a log loses nothing of it while the card answers.               *)
(***************************************************************************)
THEOREM ClosedLogsWhole == Spec => ClosedWhole
<1> DEFINE Closes == step = "rest" /\ fileOpen /\ ~fileOpen' /\ cardOk /\ ~PowerYank
<1>1. ASSUME Inv, [Next]_vars, Closes PROVE card'[current] = card[current] \o tail
  <2>1. card' = Whole
    <3>1. CASE Commands
      BY <1>1, <3>1, CommandsKeepInv
    <3>2. CASE WebReboot
      BY <1>1, <3>2, RestartKeepsInv
    <3>3. CASE Pvt \/ Receive \/ CardDies \/ UNCHANGED vars
      BY <1>1, <3>3, InputKeepsInv
    <3>4. CASE \E d \in 1 .. StallMax : RestOfPass(d)
      BY <1>1, <3>4 DEF RestOfPass, flags
    <3>5. ~Poll
      BY <1>1 DEF Poll, PollNoCard, PollOpen, PollDrain, PollFlush
    <3>6. QED
      BY <1>1, <3>1, <3>2, <3>3, <3>4, <3>5 DEF Next, World, Commands
  <2>2. current \in DOMAIN card
    BY <1>1 DEF Inv, FileInv
  <2>3. QED
    BY <2>1, <2>2 DEF Whole, Log
<1>2. ASSUME Inv, [Next]_vars
      PROVE  [Closes => card'[current] = card[current] \o tail]_vars
  BY <1>1, <1>2
<1>3. QED
  BY <1>2, FilesCounted, PTL DEF Spec, ClosedWhole

-----------------------------------------------------------------------------
(* Holes.                                                                  *)

(* s is a run of consecutive chunks; one that ends with chunk n.           *)
Run(s)     == \A i \in 1 .. Len(s) - 1 : s[i + 1] = s[i] + 1
Ends(s, n) == \A i \in 1 .. Len(s) : s[i] = n - Len(s) + i

(* The buffer ends with the chunk received last, the open log with the one *)
(* before the buffer, and every file is a run.                             *)
HoleInv ==
  /\ Ends(buffer, chunks)
  /\ fileOpen => Ends(Log, chunks - Len(buffer))
  /\ \A f \in DOMAIN card : Run(card[f])

(***************************************************************************)
(* The empty run ends anywhere.                                            *)
(***************************************************************************)
LEMMA EmptyRun == Run(<<>>) /\ \A n \in Int : Ends(<<>>, n)
  BY DEF Run, Ends

(***************************************************************************)
(* A run read from its end, extended, and consumed.                        *)
(***************************************************************************)
LEMMA Runs ==
  ASSUME NEW s \in Seq(Nat), NEW n \in Int, Ends(s, n)
  PROVE  /\ Run(s) /\ Ends(Append(s, n + 1), n + 1)
         /\ s # <<>> => Head(s) = n - Len(s) + 1 /\ Ends(Tail(s), n)
<1>1. Len(s) \in Nat
  OBVIOUS
<1>2. Run(s)
  <2>1. \A i \in 1 .. Len(s) - 1 : i \in 1 .. Len(s) /\ i + 1 \in 1 .. Len(s)
    BY <1>1
  <2>2. \A i \in 1 .. Len(s) - 1 : s[i] = n - Len(s) + i /\ s[i + 1] = n - Len(s) + (i + 1)
    BY <2>1 DEF Ends
  <2>3. QED
    BY <1>1, <2>2 DEF Run
<1>3. Ends(Append(s, n + 1), n + 1)
  <2>1. /\ Len(Append(s, n + 1)) = Len(s) + 1
        /\ \A i \in 1 .. Len(s) : Append(s, n + 1)[i] = s[i]
        /\ Append(s, n + 1)[Len(s) + 1] = n + 1
    OBVIOUS
  <2>2. QED
    BY <1>1, <2>1 DEF Ends
<1>4. ASSUME s # <<>> PROVE Head(s) = n - Len(s) + 1 /\ Ends(Tail(s), n)
  <2>1. /\ Head(s) = s[1] /\ 1 \in 1 .. Len(s) /\ Len(Tail(s)) = Len(s) - 1
        /\ \A i \in 1 .. Len(s) - 1 : Tail(s)[i] = s[i + 1] /\ i + 1 \in 1 .. Len(s)
    BY <1>4
  <2>2. Head(s) = n - Len(s) + 1
    BY <2>1 DEF Ends
  <2>3. \A i \in 1 .. Len(s) - 1 : Tail(s)[i] = n - Len(s) + (i + 1)
    BY <2>1 DEF Ends
  <2>4. \A i \in 1 .. Len(s) - 1 : n - (Len(s) - 1) + i = n - Len(s) + (i + 1)
    BY <1>1
  <2>5. \A i \in 1 .. Len(s) - 1 : Tail(s)[i] = n - (Len(s) - 1) + i
    BY <2>3, <2>4
  <2>6. Ends(Tail(s), n)
    BY <2>1, <2>5, Zenon DEF Ends
  <2>7. QED
    BY <2>2, <2>6
<1>5. QED
  BY <1>2, <1>3, <1>4

(***************************************************************************)
(* What is appended to a tail is appended to the whole.                    *)
(***************************************************************************)
LEMMA ConcatAppend ==
  ASSUME NEW S, NEW s \in Seq(S), NEW t \in Seq(S), NEW e \in S
  PROVE  s \o Append(t, e) = Append(s \o t, e)
<1>1. <<e>> \in Seq(S) /\ s \o t \in Seq(S)
  BY ConcatProperties
<1>2. Append(t, e) = t \o <<e>> /\ Append(s \o t, e) = (s \o t) \o <<e>>
  BY <1>1, AppendIsConcat
<1>3. QED
  BY <1>1, <1>2, ConcatAssociative

(***************************************************************************)
(* The sequences of the logger hold numbers.                               *)
(***************************************************************************)
LEMMA Numbers ==
  ASSUME Inv
  PROVE  /\ buffer \in Seq(Nat) /\ tail \in Seq(Nat)
         /\ chunks \in Nat /\ Len(buffer) \in Nat
         /\ fileOpen => card[current] \in Seq(Nat) /\ Log \in Seq(Nat)
<1>1. chunks \in Nat /\ 1 .. chunks \subseteq Nat
  BY DEF Inv, DataOK
<1>2. buffer \in Seq(Nat) /\ tail \in Seq(Nat)
  BY <1>1, SeqWiden DEF Inv, DataOK
<1>3. fileOpen => card[current] \in Seq(Nat) /\ Log \in Seq(Nat)
  <2>1. fileOpen => card[current] \in Seq(1 .. chunks) /\ Log \in Seq(1 .. chunks)
    BY SyncedIsWhole DEF Inv, DataOK, FileInv
  <2>2. QED
    BY <1>1, <2>1, SeqWiden
<1>4. QED
  BY <1>1, <1>2, <1>3

(***************************************************************************)
(* Whatever a step does to the card, its files stay runs.                  *)
(***************************************************************************)
LEMMA FilesStayRuns ==
  ASSUME Inv, HoleInv, CardMove
  PROVE  \A f \in DOMAIN card' : Run(card'[f])
<1>1. fileOpen => Run(Log)
  BY Numbers, Runs DEF HoleInv
<1>2. CASE card' = card
  BY <1>2 DEF HoleInv
<1>3. CASE fileOpen /\ card' = Whole
  BY <1>1, <1>3 DEF HoleInv, Whole, Inv, DataOK
<1>4. CASE \E k \in SuffixRange : card' = Created(NameOf(k))
  BY <1>4, EmptyRun DEF HoleInv, Created
<1>5. QED
  BY <1>2, <1>3, <1>4 DEF CardMove

(***************************************************************************)
(* A chunk taken from the buffer is the next one of the open log, or ends  *)
(* it.                                                                     *)
(***************************************************************************)
LEMMA DrainKeepsRuns ==
  ASSUME Inv, HoleInv, PollDrain
  PROVE  /\ Ends(buffer', chunks')
         /\ fileOpen' => Ends(Log', chunks' - Len(buffer'))
<1>1. UNCHANGED <<chunks, current>>
  BY DEF PollDrain
<1>2. CASE buffer = <<>>
  BY <1>1, <1>2 DEF PollDrain, media, HoleInv, Log
<1>3. CASE buffer # <<>>
  <2>1. buffer' = Tail(buffer) /\ Len(buffer') = Len(buffer) - 1
    BY <1>3, Numbers DEF PollDrain
  <2>2. Ends(buffer', chunks') /\ Head(buffer) = chunks - Len(buffer) + 1
    BY <1>1, <1>3, <2>1, Numbers, Runs DEF HoleInv
  <2>3. ASSUME fileOpen' PROVE Ends(Log', chunks' - Len(buffer'))
    <3>1. fileOpen /\ tail' = Append(tail, Head(buffer)) /\ UNCHANGED card
      BY <1>3, <2>3 DEF PollDrain, WriteFailed
    <3>2. /\ card[current] \in Seq(Nat) /\ tail \in Seq(Nat) /\ Head(buffer) \in Nat
          /\ Log \in Seq(Nat) /\ chunks - Len(buffer) \in Int
      BY <1>3, <3>1, Numbers, TailTyped
    <3>3. Log' = Append(Log, Head(buffer))
      <4>1. Log' = card[current] \o Append(tail, Head(buffer))
        BY <1>1, <3>1 DEF Log
      <4>2. card[current] \o Append(tail, Head(buffer))
              = Append(card[current] \o tail, Head(buffer))
        <5>1. \A s, t \in Seq(Nat), e \in Nat : s \o Append(t, e) = Append(s \o t, e)
          BY ConcatAppend
        <5>2. QED
          BY <3>2, <5>1, Zenon
      <4>3. QED
        BY <4>1, <4>2 DEF Log
    <3>4. Ends(Log, chunks - Len(buffer))
      BY <3>1 DEF HoleInv
    <3>5. Ends(Append(Log, chunks - Len(buffer) + 1), chunks - Len(buffer) + 1)
      BY <3>2, <3>4, Runs
    <3>6. chunks' - Len(buffer') = chunks - Len(buffer) + 1
      <4>1. chunks \in Nat /\ Len(buffer) \in Nat /\ chunks' = chunks
        BY <1>1, Numbers
      <4>2. chunks - (Len(buffer) - 1) = chunks - Len(buffer) + 1
        BY <4>1
      <4>3. QED
        BY <2>1, <4>1, <4>2, Zenon
    <3>7. QED
      BY <2>2, <3>3, <3>5, <3>6
  <2>4. QED
    BY <2>2, <2>3
<1>4. QED
  BY <1>2, <1>3

(***************************************************************************)
(* Every step keeps the logs free of holes.                                *)
(***************************************************************************)
LEMMA HolesStep == Inv /\ HoleInv /\ [Next]_vars => HoleInv'
<1> SUFFICES ASSUME Inv, HoleInv, [Next]_vars PROVE HoleInv'
  OBVIOUS
<1>1. \A f \in DOMAIN card' : Run(card'[f])
  BY StepMovesCard, FilesStayRuns
<1> SUFFICES Ends(buffer', chunks') /\ (fileOpen' => Ends(Log', chunks' - Len(buffer')))
  BY <1>1 DEF HoleInv
<1>2. CASE PollDrain
  BY <1>2, DrainKeepsRuns
<1>3. CASE Receive
  <2>1. /\ chunks' = chunks + 1 /\ buffer' = Append(buffer, chunks + 1)
        /\ UNCHANGED <<fileOpen, current, card, tail>>
    BY <1>3 DEF Receive, flags, file, media
  <2>2. Ends(buffer', chunks') /\ Len(buffer') = Len(buffer) + 1
    BY <2>1, Numbers, Runs DEF HoleInv
  <2>3. chunks' - Len(buffer') = chunks - Len(buffer)
    BY <2>1, <2>2, Numbers
  <2>4. Log' = Log
    BY <2>1 DEF Log
  <2>5. QED
    BY <2>1, <2>2, <2>3, <2>4 DEF HoleInv
<1>4. CASE PowerYank \/ WebReboot
  BY <1>4, EmptyRun, Numbers DEF PowerYank, WebReboot, Restarted
<1>5. CASE PollOpen \/ PollFlush \/ PollNoCard \/ Commands \/ Pvt \/ CardDies
             \/ (\E d \in 1 .. StallMax : RestOfPass(d)) \/ UNCHANGED vars
  <2>1. UNCHANGED <<buffer, chunks>>
    BY <1>5 DEF PollOpen, PollFlush, PollNoCard, Commands, CommandLog, TouchLog, SerialMode,
                Shutdown, Pvt, CardDies, RestOfPass, vars, input
  <2>2. ASSUME fileOpen' PROVE (fileOpen /\ Log' = Log) \/ Log' = <<>>
    <3>1. CASE PollOpen
      <4>1. CASE UNCHANGED <<current, card, fileOpen>>
        BY <2>2, <3>1, <4>1 DEF PollOpen, Log
      <4>2. CASE ~UNCHANGED <<current, card, fileOpen>>
        <5>1. WantsOpen /\ UNCHANGED tail /\ card'[current'] = <<>>
          BY <3>1, <4>2 DEF PollOpen
        <5>2. tail = <<>>
          BY <5>1 DEF WantsOpen, Inv, FileInv
        <5>3. QED
          BY <5>1, <5>2 DEF Log
      <4>3. QED
        BY <4>1, <4>2
    <3>2. CASE PollFlush
      <4>1. UNCHANGED <<fileOpen, current>>
        BY <3>2 DEF PollFlush, flags, file
      <4>2. CASE UNCHANGED <<card, tail>>
        BY <2>2, <4>1, <4>2 DEF Log
      <4>3. CASE ~UNCHANGED <<card, tail>>
        <5>1. card' = Whole /\ tail' = <<>>
          BY <2>2, <3>2, <4>1, <4>3, SyncedIsWhole DEF PollFlush, media
        <5>2. card'[current] = Log
          BY <2>2, <4>1, <5>1 DEF Whole, Inv, FileInv
        <5>3. Log' = Log \o <<>> /\ Log \in Seq(Nat)
          BY <2>2, <4>1, <5>1, <5>2, Numbers DEF Log
        <5>4. QED
          BY <2>2, <4>1, <5>3, ConcatEmptySeq
      <4>4. QED
        BY <4>2, <4>3
    <3>3. CASE Commands
      <4>1. UNCHANGED <<current, card, tail, fileOpen>>
        BY <2>2, <3>3, CloseMoves DEF Commands, CommandLog, TouchLog, SerialMode, Shutdown,
           SetEnabled, SwitchMode, CloseForGood, file, media
      <4>2. QED
        BY <2>2, <4>1 DEF Log
    <3>4. CASE PollNoCard \/ Pvt \/ CardDies
               \/ (\E d \in 1 .. StallMax : RestOfPass(d)) \/ UNCHANGED vars
      BY <2>2, <3>4
         DEF PollNoCard, Pvt, CardDies, RestOfPass, vars, flags, file, media, Log
    <3>5. QED
      BY <1>5, <3>1, <3>2, <3>3, <3>4
  <2>3. QED
    BY <2>1, <2>2, EmptyRun, Numbers DEF HoleInv
<1>6. QED
  BY <1>2, <1>3, <1>4, <1>5 DEF Next, Poll, World, Commands

(***************************************************************************)
(* A log has no hole, whatever fails or restarts.                          *)
(***************************************************************************)
THEOREM LogsHaveNoHoles == Spec => []NoHoles
<1>1. Init => HoleInv
  BY EmptyRun DEF Init, HoleInv
<1>2. Inv /\ HoleInv => NoHoles
  <2> SUFFICES ASSUME Inv, HoleInv PROVE NoHoles
    OBVIOUS
  <2>1. fileOpen => Run(Log)
    BY Numbers, Runs DEF HoleInv
  <2>2. QED
    BY <2>1 DEF HoleInv, NoHoles, Run, Log
<1>3. QED
  BY <1>1, <1>2, FilesCounted, HolesStep, PTL DEF Spec

-----------------------------------------------------------------------------
(* What is thrown away, and what waits for a sync.                         *)

(* Past openFile() a log that is wanted and possible is open.              *)
OpenInv ==
  /\ step = "drain" /\ loggingEnabled /\ timeValid /\ cardOk /\ NameLeft => fileOpen
  /\ shutdownLatched => ~loggingEnabled
  /\ fileOpen => sdOk

(* What waits for a sync was written after the last one, which no pass     *)
(* leaves further back than the period.                                    *)
AgeInv ==
  /\ tail = <<>> => tailAge = 0
  /\ step # "rest" => flushAge >= 1
  /\ cardOk /\ tail # <<>> =>
       /\ tailAge < flushAge /\ tailAge < SyncPeriod + StallMax
       /\ step = "rest" => flushAge <= SyncPeriod

(***************************************************************************)
(* openFile() comes before the drain in every pass.                        *)
(***************************************************************************)
LEMMA OpenStep == Inv /\ OpenInv /\ [Next]_vars => OpenInv'
<1> SUFFICES ASSUME Inv, OpenInv, [Next]_vars PROVE OpenInv'
  OBVIOUS
<1>1. CASE PollOpen
  <2>1. UNCHANGED <<sdOk, loggingEnabled, shutdownLatched, timeValid, cardOk>> /\ sdOk
    BY <1>1 DEF PollOpen, input
  <2>2. CASE UNCHANGED <<card, fileOpen>> /\ (WantsOpen => ~cardOk \/ ~NameLeft)
    <3>1. NameLeft' <=> NameLeft
      BY <1>1, <2>2 DEF PollOpen, NameLeft, NameOf, input
    <3>2. QED
      BY <2>1, <2>2, <3>1 DEF OpenInv, WantsOpen
  <2>3. CASE fileOpen' = TRUE
    BY <2>1, <2>3 DEF OpenInv
  <2>4. QED
    BY <1>1, <2>2, <2>3 DEF PollOpen
<1>2. CASE PollDrain
  BY <1>2 DEF PollDrain, WriteFailed, OpenInv, media
<1>3. CASE Commands
  <2>1. UNCHANGED <<step, sdOk>> /\ step = "rest"
    BY <1>3 DEF Commands, CommandLog, TouchLog, SerialMode, Shutdown
  <2>2. fileOpen' => fileOpen
    BY <1>3, CloseMoves DEF Commands, CommandLog, TouchLog, SerialMode, Shutdown,
       SetEnabled, SwitchMode, CloseForGood, media
  <2>3. shutdownLatched' => ~loggingEnabled'
    <3>1. CASE Shutdown
      BY <3>1 DEF Shutdown, CloseForGood
    <3>2. CASE SerialMode
      BY <3>2 DEF SerialMode, SwitchMode, OpenInv
    <3>3. ASSUME NEW on, SetEnabled(on), UNCHANGED shutdownLatched
          PROVE  shutdownLatched' => ~loggingEnabled'
      BY <3>3 DEF SetEnabled, OpenInv
    <3>4. QED
      BY <1>3, <3>1, <3>2, <3>3 DEF Commands, CommandLog, TouchLog
  <2>4. QED
    BY <2>1, <2>2, <2>3 DEF OpenInv
<1>4. CASE PowerYank \/ WebReboot
  BY <1>4 DEF PowerYank, WebReboot, Restarted, OpenInv
<1>5. CASE PollFlush \/ PollNoCard \/ Pvt \/ Receive
             \/ \E d \in 1 .. StallMax : RestOfPass(d)
  BY <1>5 DEF PollFlush, PollNoCard, Pvt, Receive, RestOfPass, flags, OpenInv
<1>6. CASE CardDies
  BY <1>6 DEF CardDies, flags, OpenInv
<1>7. CASE UNCHANGED vars
  BY <1>7 DEF vars, flags, input, media, OpenInv, NameLeft, NameOf
<1>8. QED
  BY <1>1, <1>2, <1>3, <1>4, <1>5, <1>6, <1>7 DEF Next, Poll, World, Commands

(***************************************************************************)
(* No sync comes later than the end of the pass that the period ends in.   *)
(***************************************************************************)
LEMMA AgeStep == Inv /\ OpenInv /\ AgeInv /\ [Next]_vars => AgeInv'
<1> SUFFICES ASSUME Inv, OpenInv, AgeInv, [Next]_vars PROVE AgeInv'
  OBVIOUS
<1>0. /\ flushAge \in Nat /\ tailAge \in Nat /\ SyncPeriod \in Nat
      /\ StallMax \in Nat /\ StallMax >= 1 /\ AgeCap = SyncPeriod + StallMax + 1
      /\ tail # <<>> => fileOpen
  <2>1. /\ SyncPeriod \in Nat /\ StallMax \in Nat /\ StallMax >= 1
        /\ AgeCap = SyncPeriod + StallMax + 1
    BY ConstantsAssumption DEF AgeCap
  <2>2. flushAge \in 0 .. AgeCap /\ tailAge \in 0 .. AgeCap
    BY DEF Inv, DataOK
  <2>3. tail # <<>> => fileOpen
    BY DEF Inv, FileInv
  <2>4. QED
    BY <2>1, <2>2, <2>3
<1>1. ASSUME tail' = <<>>, tailAge' = 0, step' # "rest" => flushAge' >= 1
      PROVE  AgeInv'
  BY <1>1 DEF AgeInv
<1>2. CASE PollOpen
  BY <1>2 DEF PollOpen, AgeInv
<1>3. CASE PollDrain
  <2>1. step = "drain" /\ step' = "flush" /\ UNCHANGED <<flushAge, cardOk>>
    BY <1>3 DEF PollDrain
  <2>2. CASE UNCHANGED <<tail, tailAge>>
    BY <2>1, <2>2 DEF AgeInv
  <2>3. CASE tail' = <<>> /\ tailAge' = 0
    BY <1>1, <2>1, <2>3 DEF AgeInv
  <2>4. CASE tail' = Append(tail, Head(buffer)) /\ buffer # <<>>
             /\ tailAge' = IF tail = <<>> THEN 0 ELSE tailAge
    <3>1. tail' # <<>>
      BY <2>4, Numbers, TailTyped
    <3>2. QED
      BY <1>0, <2>1, <2>4, <3>1 DEF AgeInv
  <2>5. QED
    BY <1>3, <2>2, <2>3, <2>4 DEF PollDrain, WriteFailed, media
<1>4. CASE PollFlush
  <2>1. step' = "rest" /\ UNCHANGED cardOk
    BY <1>4 DEF PollFlush
  <2>2. CASE SyncDue /\ cardOk
    BY <1>1, <1>4, <2>1, <2>2 DEF PollFlush
  <2>3. CASE SyncDue /\ ~cardOk
    BY <1>4, <2>1, <2>3 DEF PollFlush, media, AgeInv
  <2>4. CASE ~SyncDue
    BY <1>0, <1>4, <2>1, <2>4 DEF PollFlush, SyncDue, media, AgeInv
  <2>5. QED
    BY <2>2, <2>3, <2>4
<1>5. ASSUME NEW d \in 1 .. StallMax, RestOfPass(d) PROVE AgeInv'
  <2>1. /\ step = "rest" /\ UNCHANGED <<cardOk, tail>> /\ d \in Nat /\ d >= 1
        /\ flushAge' = AtMost(flushAge + d, AgeCap)
        /\ tailAge' = IF tail = <<>> THEN 0 ELSE AtMost(tailAge + d, AgeCap)
    BY <1>0, <1>5 DEF RestOfPass
  <2>2. flushAge' >= 1
    BY <1>0, <2>1 DEF AtMost
  <2>3. CASE cardOk /\ tail # <<>>
    <3>1. /\ flushAge' = flushAge + d /\ tailAge' = tailAge + d
          /\ tailAge < flushAge /\ flushAge <= SyncPeriod /\ d <= StallMax
      <4>1. tailAge < flushAge /\ flushAge <= SyncPeriod
        BY <2>1, <2>3, Zenon DEF AgeInv
      <4>2. ~(flushAge + d > AgeCap) /\ ~(tailAge + d > AgeCap)
        BY <1>0, <1>5, <2>1, <4>1
      <4>3. AtMost(flushAge + d, AgeCap) = flushAge + d
            /\ AtMost(tailAge + d, AgeCap) = tailAge + d
        BY <4>2, Zenon DEF AtMost
      <4>4. QED
        BY <1>5, <2>1, <2>3, <4>1, <4>3
    <3>2. QED
      BY <1>0, <1>5, <2>1, <2>2, <2>3, <3>1 DEF RestOfPass, AgeInv
  <2>4. CASE ~(cardOk /\ tail # <<>>)
    BY <2>1, <2>2, <2>4 DEF AgeInv
  <2>5. QED
    BY <2>3, <2>4
<1>6. CASE Commands
  <2>1. UNCHANGED <<step, flushAge, cardOk>>
    BY <1>6 DEF Commands, CommandLog, TouchLog, SerialMode, Shutdown
  <2>2. CASE UNCHANGED media
    BY <2>1, <2>2 DEF media, AgeInv
  <2>3. CASE tail' = <<>> /\ tailAge' = 0
    BY <1>1, <2>1, <2>3 DEF AgeInv
  <2>4. QED
    BY <1>6, <2>2, <2>3 DEF Commands, CommandLog, TouchLog, SerialMode, Shutdown,
       SetEnabled, SwitchMode, CloseForGood, CloseFile
<1>7. CASE PowerYank \/ WebReboot
  BY <1>1, <1>7 DEF PowerYank, WebReboot, Restarted
<1>8. CASE PollNoCard
  BY <1>0, <1>8 DEF PollNoCard, flags, media, OpenInv, AgeInv
<1>9. CASE Pvt \/ Receive \/ CardDies \/ UNCHANGED vars
  BY <1>9 DEF Pvt, Receive, CardDies, vars, media, AgeInv
<1>10. QED
  BY <1>2, <1>3, <1>4, <1>5, <1>6, <1>7, <1>8, <1>9 DEF Next, Poll, World, Commands

(***************************************************************************)
(* In every behaviour both hold.                                           *)
(***************************************************************************)
LEMMA OpenAndAge == Spec => [](Inv /\ OpenInv /\ AgeInv)
<1>1. Init => Inv /\ OpenInv /\ AgeInv
  BY InitInv DEF Init, OpenInv, AgeInv
<1>2. Inv /\ OpenInv /\ AgeInv /\ [Next]_vars => (Inv /\ OpenInv /\ AgeInv)'
  BY InvStep, OpenStep, AgeStep
<1>3. QED
  BY <1>1, <1>2, PTL DEF Spec

(***************************************************************************)
(* While logging is on, every chunk taken from the receiver lands in a     *)
(* file, or the card is reported as failed.                                *)
(***************************************************************************)
THEOREM NothingDiscarded == Spec => NoneDiscarded
<1> DEFINE Taken == /\ step = "drain" /\ step' = "flush" /\ buffer # <<>> /\ loggingEnabled
                    /\ timeValid /\ cardOk /\ sdOk' /\ NameLeft
<1>1. ASSUME Inv, OpenInv, [Next]_vars, Taken PROVE tail' = Append(tail, Head(buffer))
  <2>1. fileOpen
    BY <1>1 DEF OpenInv
  <2>2. PollDrain
    BY <1>1 DEF Next, Poll, World, PollNoCard, PollOpen, PollFlush, CommandLog, TouchLog,
       SerialMode, Shutdown, WebReboot, Pvt, Receive, CardDies, PowerYank, Restarted,
       RestOfPass, vars
  <2>3. QED
    BY <1>1, <2>1, <2>2 DEF PollDrain, WriteFailed
<1>2. ASSUME Inv, OpenInv, [Next]_vars
      PROVE  [Taken => tail' = Append(tail, Head(buffer))]_vars
  BY <1>1, <1>2
<1>3. QED
  BY <1>2, OpenAndAge, PTL DEF Spec, NoneDiscarded

(***************************************************************************)
(* The bytes a power loss costs are no older than the sync period and the  *)
(* pass it ended in.                                                       *)
(***************************************************************************)
THEOREM LossIsBounded == Spec => []BoundedLoss
<1>1. ASSUME AgeInv, cardOk PROVE tailAge < SyncPeriod + StallMax
  <2>1. CASE tail = <<>>
    <3>1. tailAge = 0
      BY <1>1, <2>1, Zenon DEF AgeInv
    <3>2. QED
      BY <3>1, ConstantsAssumption
  <2>2. CASE tail # <<>>
    BY <1>1, <2>2, Zenon DEF AgeInv
  <2>3. QED
    BY <2>1, <2>2
<1>2. AgeInv => BoundedLoss
  BY <1>1 DEF BoundedLoss
<1>3. QED
  BY <1>2, OpenAndAge, PTL
=============================================================================
