------------------------------- MODULE TouchUi -------------------------------
(***************************************************************************)
(* The touch screen (ui.cpp): three buttons under three pages, sampled     *)
(* once in a pass of the superloop, however long the pass; the first       *)
(* button changes with the page, and the power button asks back.           *)
(*                                                                         *)
(* A finger is put down, slides and is lifted at any time between samples. *)
(***************************************************************************)
EXTENDS Integers

CONSTANTS
  None,
  Lockout,      \* debounce and repeat lockout
  Redraw,       \* period of the redraw
  Window        \* how long the power button waits for the second tap

Web    == 2                                     \* the WEB page
Pages  == 0 .. Web
Spots  == {"first", "page", "pwr", "above"}     \* above: no button there

ASSUME ConstantsAssumption ==
  /\ None \notin Int \cup Spots
  /\ Lockout \in Nat \ {0} /\ Redraw \in Nat /\ Window \in Nat \ {0}

VARIABLES
  (* ui.cpp: times are what millis() is past them, capped *)
  page, lastTouch, lastDraw,
  confirm,          \* since pwrConfirmMs, or None if that is 0
  shutdownDone,
  first, pwr,       \* what the buttons read
  (* the finger *)
  finger, held,     \* where it is, or None; how long it is down
  (* history *)
  armedBy,          \* the press that asked to shut down: "this" or an "earlier"
  did               \* what the last step did for the user

screen == <<page, lastTouch, lastDraw, confirm, shutdownDone, first, pwr>>
vars   == <<screen, finger, held, armedBy, did>>

TypeOK ==
  /\ page \in Pages /\ lastTouch \in 0 .. Lockout /\ lastDraw \in 0 .. Redraw
  /\ confirm \in 0 .. Window \cup {None} /\ shutdownDone \in BOOLEAN
  /\ first \in {"LOG", "AP"} /\ pwr \in {"PWR", "SURE?"}
  /\ finger \in Spots \cup {None} /\ held \in 0 .. Lockout
  /\ armedBy \in {"this", "earlier"}
  /\ did \in {"nothing", "log", "ap", "turn", "ask", "shut down"}

Init ==
  /\ page = 0 /\ lastTouch = Lockout /\ lastDraw = Redraw
  /\ confirm = None /\ shutdownDone = FALSE
  /\ first = "LOG" /\ pwr = "PWR"
  /\ finger = None /\ held = 0
  /\ armedBy = "earlier" /\ did = "nothing"

-----------------------------------------------------------------------------
(* uiPoll().                                                               *)

Open(c) == c # None /\ c < Window

(* drawButtons().                                                          *)
DrawButtons(p, c) ==
  /\ first' = IF p = Web THEN "AP" ELSE "LOG"
  /\ pwr' = IF Open(c) THEN "SURE?" ELSE "PWR"

Due == lastDraw >= Redraw

Expired(c) == Due /\ c # None /\ c >= Window

FaultForgetDraw(p, c) ==
  /\ lastDraw' = IF Due THEN 0 ELSE lastDraw
  /\ confirm' = IF Expired(c) THEN None ELSE c
  /\ IF p # None THEN DrawButtons(p, c) ELSE UNCHANGED <<first, pwr>>

(* The rest of uiPoll(), after a touch that left the confirmation at c;    *)
(* p: the page whose buttons the touch has drawn, or None.  A redraw that  *)
(* is due draws the buttons if the window is over or the log file was      *)
(* opened or closed.                                                       *)
RedrawAfter(p, c) ==
  /\ lastDraw' = IF Due THEN 0 ELSE lastDraw
  /\ confirm' = IF Expired(c) THEN None ELSE c
  /\ \/ p # None /\ DrawButtons(p, c)
     \/ p = None /\ Due /\ DrawButtons(page, c)
     \/ p = None /\ ~Expired(c) /\ UNCHANGED <<first, pwr>>

(* No finger, or too light or too hard a touch, or within the lockout.     *)
NoTouch ==
  /\ did' = "nothing"
  /\ RedrawAfter(None, confirm)
  /\ UNCHANGED <<page, lastTouch, shutdownDone, armedBy>>

FaultNoLockout(spot) == finger = spot /\ lastTouch' = 0

Touch(spot) == finger = spot /\ lastTouch >= Lockout /\ lastTouch' = 0

TouchAbove ==
  /\ Touch("above") /\ did' = "nothing"
  /\ RedrawAfter(None, confirm)
  /\ UNCHANGED <<page, shutdownDone, armedBy>>

(* LOG, or on the WEB page the request for AP mode.                        *)
TouchFirst ==
  /\ Touch("first") /\ did' = IF page = Web THEN "ap" ELSE "log"
  /\ RedrawAfter(page, confirm)
  /\ UNCHANGED <<page, shutdownDone, armedBy>>

FaultFourPages == page' = (page + 1) % 4 /\ RedrawAfter(page', confirm)

FaultDrawFirst == page' = (page + 1) % 3 /\ RedrawAfter(page, confirm)

Turn == page' = (page + 1) % 3 /\ RedrawAfter(page', confirm)

TouchPage ==
  /\ Touch("page") /\ did' = "turn"
  /\ Turn
  /\ UNCHANGED <<shutdownDone, armedBy>>

(* Two taps: the second within the window.                                 *)
TouchPwr ==
  /\ Touch("pwr")
  /\ \/ /\ Open(confirm)
        /\ shutdownDone' = TRUE /\ did' = "shut down"
        /\ UNCHANGED <<lastDraw, confirm, first, pwr, armedBy>>
     \/ /\ ~Open(confirm)
        /\ RedrawAfter(page, 0) /\ armedBy' = "this" /\ did' = "ask"
        /\ UNCHANGED shutdownDone
  /\ UNCHANGED page

UiPoll ==
  /\ ~shutdownDone
  /\ NoTouch \/ TouchAbove \/ TouchFirst \/ TouchPage \/ TouchPwr
  /\ UNCHANGED <<finger, held>>

-----------------------------------------------------------------------------
(* The finger and the time.                                                *)

Put ==
  /\ finger = None /\ finger' \in Spots /\ held' = 0
  /\ armedBy' = "earlier" /\ did' = "nothing"
  /\ UNCHANGED screen

Slide ==
  /\ finger # None /\ finger' \in Spots \ {finger} /\ did' = "nothing"
  /\ UNCHANGED <<screen, held, armedBy>>

Lift ==
  /\ finger # None /\ finger' = None /\ held' = 0 /\ did' = "nothing"
  /\ UNCHANGED <<screen, armedBy>>

Older(t, cap) == IF t < cap THEN t + 1 ELSE t

Tick ==
  /\ lastTouch' = Older(lastTouch, Lockout) /\ lastDraw' = Older(lastDraw, Redraw)
  /\ confirm' = IF confirm = None THEN None ELSE Older(confirm, Window)
  /\ held' = IF finger = None THEN 0 ELSE Older(held, Lockout)
  /\ did' = "nothing"
  /\ UNCHANGED <<page, shutdownDone, first, pwr, finger, armedBy>>

Next == UiPoll \/ Put \/ Slide \/ Lift \/ Tick

(* The superloop polls, and time goes by.                                  *)
Spec == Init /\ [][Next]_vars /\ WF_vars(UiPoll) /\ WF_vars(Tick)

-----------------------------------------------------------------------------
(* "Two-tap confirm": it takes two presses to shut down, or one that is    *)
(* held for longer than the lockout; a bouncing or short one never does.   *)
TwoTaps ==
  [][did' = "shut down" => armedBy = "earlier" \/ held >= Lockout]_vars

(* A button does what it reads: AP only under AP, LOG only under LOG, and  *)
(* a tap shuts down only under SURE?                                       *)
ButtonsSayWhat ==
  [][/\ did' = "ap" => first = "AP"
     /\ did' = "log" => first = "LOG"
     /\ did' = "shut down" => pwr = "SURE?"]_vars

(* SURE? stands over a window that runs, and only asking anew gives it     *)
(* more time, neither a page turned nor a button redrawn; the first redraw *)
(* due past its end takes it away.                                         *)
QuestionTimed ==
  [][/\ pwr' = "SURE?" => confirm' # None
     /\ pwr' = "SURE?" /\ did' # "ask" => pwr = "SURE?" /\ confirm' >= confirm
     /\ UiPoll /\ Due /\ ~Open(confirm) /\ did' # "ask" => pwr' = "PWR"]_vars

(* SURE? goes away, unless it is asked for again and again.                *)
QuestionFades ==
  /\ QuestionTimed
  /\ \/ []<>(did = "ask")
     \/ pwr = "SURE?" ~> (pwr = "PWR" \/ shutdownDone)
=============================================================================
