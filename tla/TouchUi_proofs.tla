---------------------------- MODULE TouchUi_proofs ----------------------------
(***************************************************************************)
(* For every lockout, window and order of touches: TouchUi keeps its types,*)
(* its two taps, and what its buttons read.                                *)
(***************************************************************************)
EXTENDS TouchUi, TLAPS

(* The buttons read what the page and the window ask for, SURE? at times   *)
(* for longer, but not once the window is forgotten; and since a press     *)
(* asked, it is down for at least as long as nothing was touched.          *)
Labels == /\ (first = "AP") <=> (page = Web)
          /\ Open(confirm) => pwr = "SURE?"
          /\ pwr = "SURE?" => confirm # None

Lasting == armedBy = "this" /\ finger # None => lastTouch <= held

IInv == TypeOK /\ Labels /\ Lasting

LEMMA OlderType ==
  ASSUME NEW cap \in Nat, NEW t \in 0 .. cap
  PROVE  /\ Older(t, cap) \in 0 .. cap /\ t <= Older(t, cap)
         /\ \A s \in 0 .. cap : s <= t => Older(s, cap) <= Older(t, cap)
BY DEF Older

LEMMA ConstantTypes ==
  /\ Lockout \in Nat /\ Redraw \in Nat /\ Window \in Nat /\ 0 < Lockout /\ 0 < Window
  /\ 0 \in 0 .. Window /\ 0 \in 0 .. Redraw /\ 0 \in 0 .. Lockout
  /\ None \notin Int
BY ConstantsAssumption

LEMMA SpotIsThere == "pwr" # None
BY ConstantsAssumption DEF Spots

-----------------------------------------------------------------------------
(* A redraw, with the confirmation at c.                                   *)

LEMMA RedrawKeeps ==
  ASSUME IInv, NEW c \in 0 .. Window \cup {None}, NEW p \in Pages \cup {None},
         p = None => page' = page /\ c = confirm,
         p # None => page' = p,
         RedrawAfter(p, c)
  PROVE  /\ lastDraw' \in 0 .. Redraw /\ confirm' \in 0 .. Window \cup {None}
         /\ first' \in {"LOG", "AP"} /\ pwr' \in {"PWR", "SURE?"}
         /\ Labels'
         /\ pwr' = "SURE?" => confirm' = c /\ (Open(c) \/ pwr = "SURE?")
         /\ Due /\ ~Open(c) => pwr' = "PWR"
<1>0. None \notin Pages /\ Web \in Pages
  BY ConstantTypes DEF Pages, Web
<1>1. lastDraw' \in 0 .. Redraw /\ confirm' \in {c, None}
  BY ConstantTypes DEF RedrawAfter, IInv, TypeOK
<1>2. Open(confirm') => Open(c)
  BY <1>1 DEF Open
<1>x. /\ confirm' = IF Expired(c) THEN None ELSE c
      /\ Open(c) => c # None /\ ~Expired(c)
      /\ Due /\ ~Open(c) /\ c # None => Expired(c)
  BY ConstantTypes DEF RedrawAfter, Expired, Open
<1>d. ASSUME pwr' = IF Open(c) THEN "SURE?" ELSE "PWR"
      PROVE  /\ pwr' = "SURE?" => confirm' = c /\ c # None /\ Open(c)
             /\ Due /\ ~Open(c) => pwr' = "PWR"
  BY <1>x, <1>d
<1>3. CASE p # None
  <2>1. first' = IF p = Web THEN "AP" ELSE "LOG"
    BY <1>3 DEF RedrawAfter, DrawButtons
  <2>2. pwr' = IF Open(c) THEN "SURE?" ELSE "PWR"
    BY <1>3 DEF RedrawAfter, DrawButtons
  <2>3. (first' = "AP") <=> (page' = Web)
    BY <1>3, <2>1
  <2> QED BY <1>1, <1>2, <1>d, <2>1, <2>2, <2>3 DEF Labels
<1>4. CASE p = None /\ DrawButtons(page, c)
  <2>1. first' = (IF page = Web THEN "AP" ELSE "LOG") /\ pwr' = IF Open(c) THEN "SURE?" ELSE "PWR"
    BY <1>4 DEF DrawButtons
  <2>2. (first' = "AP") <=> (page' = Web)
    BY <1>4, <2>1
  <2> QED BY <1>1, <1>2, <1>d, <2>1, <2>2 DEF Labels
<1>5. CASE p = None /\ ~Expired(c) /\ UNCHANGED <<first, pwr>>
  <2>1. confirm' = confirm /\ c = confirm /\ page' = page
    BY <1>5, <1>x
  <2>2. Due /\ ~Open(c) => c = None
    BY <1>5, <1>x
  <2>3. pwr \in {"PWR", "SURE?"} /\ first \in {"LOG", "AP"} /\ Labels
    BY DEF IInv, TypeOK
  <2>4. Labels'
    BY <1>5, <2>1, <2>3 DEF Labels, Open
  <2> QED BY <1>1, <1>5, <2>1, <2>2, <2>3, <2>4 DEF Labels
<1> QED BY <1>3, <1>4, <1>5, <1>0 DEF RedrawAfter

LEMMA UiPollKeeps ==
  ASSUME IInv, UiPoll
  PROVE  IInv' /\ (did' = "shut down" => armedBy = "earlier" \/ held >= Lockout)
<1>0. UNCHANGED <<finger, held>> /\ TypeOK
  BY DEF UiPoll, IInv
<1>t. /\ held \in Int /\ 0 <= held /\ held' = held /\ finger' = finger
      /\ lastTouch \in Int /\ Lockout \in Int
  <2>1. held \in 0 .. Lockout /\ lastTouch \in 0 .. Lockout
    BY <1>0, Zenon DEF TypeOK
  <2>2. held' = held /\ finger' = finger
    BY <1>0
  <2>3. Lockout \in Nat
    BY ConstantTypes
  <2> QED BY <2>1, <2>2, <2>3
<1>1. CASE NoTouch
  <2>1. UNCHANGED <<page, lastTouch, shutdownDone, armedBy>> /\ did' = "nothing"
        /\ RedrawAfter(None, confirm)
    BY <1>1 DEF NoTouch
  <2>2. Labels' /\ lastDraw' \in 0 .. Redraw /\ confirm' \in 0 .. Window \cup {None}
        /\ first' \in {"LOG", "AP"} /\ pwr' \in {"PWR", "SURE?"}
    BY <2>1, RedrawKeeps DEF IInv, TypeOK
  <2> QED BY <1>0, <2>1, <2>2 DEF IInv, TypeOK, Lasting
<1>2. ASSUME UNCHANGED shutdownDone, lastTouch' = 0,
             did' \in {"nothing", "log", "ap", "turn", "ask"},
             armedBy' \in {armedBy, "this"}, page' \in Pages,
             NEW c \in 0 .. Window \cup {None}, NEW p \in Pages \cup {None},
             p = None => page' = page /\ c = confirm,
             p # None => page' = p,
             RedrawAfter(p, c)
      PROVE  IInv' /\ (did' = "shut down" => armedBy = "earlier" \/ held >= Lockout)
  <2>1. Labels' /\ lastDraw' \in 0 .. Redraw /\ confirm' \in 0 .. Window \cup {None}
        /\ first' \in {"LOG", "AP"} /\ pwr' \in {"PWR", "SURE?"}
    BY <1>2, RedrawKeeps
  <2>2. lastTouch' \in 0 .. Lockout /\ lastTouch' <= held'
    BY <1>t, <1>2, ConstantTypes
  <2>3. armedBy' \in {"this", "earlier"}
    BY <1>0, <1>2 DEF TypeOK
  <2> QED BY <1>0, <1>2, <2>1, <2>2, <2>3 DEF IInv, TypeOK, Lasting
<1>3. page \in Pages /\ confirm \in 0 .. Window \cup {None}
  BY <1>0 DEF TypeOK
<1>4. CASE TouchAbove
  BY <1>2, <1>3, <1>4 DEF TouchAbove, Touch
<1>5. CASE TouchFirst
  BY <1>2, <1>3, <1>5, ConstantTypes DEF TouchFirst, Touch, Pages
<1>6. CASE TouchPage
  <2>1. page' \in Pages /\ page' # None /\ RedrawAfter(page', confirm)
    <3>1. (page + 1) % 3 \in Pages
      BY <1>3 DEF Pages, Web
    <3> QED BY <1>6, <3>1, ConstantTypes DEF TouchPage, Turn, Pages
  <2> QED BY <1>2, <1>3, <1>6, <2>1 DEF TouchPage, Touch
<1>7. CASE TouchPwr
  <2>1. CASE shutdownDone' = TRUE /\ did' = "shut down"
             /\ UNCHANGED <<lastDraw, confirm, first, pwr, armedBy>>
    <3>1. lastTouch' = 0 /\ finger = "pwr" /\ lastTouch >= Lockout /\ page' = page
      BY <1>7 DEF TouchPwr, Touch
    <3>2. armedBy = "this" => held >= Lockout
      <4>1. armedBy = "this" => lastTouch <= held
        <5>1. finger # None
          BY <3>1, SpotIsThere
        <5> QED BY <5>1 DEF IInv, Lasting
      <4> QED BY <1>t, <3>1, <4>1
    <3>3. Labels'
      BY <2>1, <3>1 DEF IInv, Labels, Open
    <3>4. lastTouch' \in 0 .. Lockout /\ lastTouch' <= held'
      BY <1>t, <3>1, ConstantTypes
    <3> QED BY <1>0, <2>1, <3>1, <3>2, <3>3, <3>4 DEF IInv, TypeOK, Lasting
  <2>2. CASE RedrawAfter(page, 0) /\ armedBy' = "this" /\ did' = "ask"
             /\ UNCHANGED shutdownDone
    <3>1. page' = page /\ lastTouch' = 0
      BY <1>7 DEF TouchPwr, Touch
    <3>2. page # None /\ 0 \in 0 .. Window
      BY <1>3, ConstantTypes DEF Pages
    <3> QED BY <1>2, <1>3, <2>2, <3>1, <3>2
  <2> QED BY <1>7, <2>1, <2>2 DEF TouchPwr
<1> QED BY <1>1, <1>4, <1>5, <1>6, <1>7 DEF UiPoll

LEMMA FingerKeeps ==
  ASSUME IInv, Put \/ Slide \/ Lift
  PROVE  IInv' /\ did' = "nothing"
<1>1. UNCHANGED <<page, lastTouch, lastDraw, confirm, shutdownDone, first, pwr>>
      /\ did' = "nothing"
  BY DEF Put, Slide, Lift, screen
<1>2. finger' \in Spots \cup {None} /\ held' \in 0 .. Lockout /\ armedBy' \in {"this", "earlier"}
  BY ConstantTypes DEF IInv, TypeOK, Put, Slide, Lift
<1>3. Lasting'
  BY <1>1 DEF IInv, Lasting, Put, Slide, Lift
<1> QED BY <1>1, <1>2, <1>3 DEF IInv, TypeOK, Labels, Open

LEMMA TickKeeps ==
  ASSUME IInv, Tick
  PROVE  IInv' /\ did' = "nothing"
<1>0. /\ lastTouch \in 0 .. Lockout /\ lastDraw \in 0 .. Redraw /\ held \in 0 .. Lockout
      /\ confirm \in 0 .. Window \cup {None}
  BY DEF IInv, TypeOK
<1>1. /\ lastTouch' = Older(lastTouch, Lockout) /\ lastDraw' = Older(lastDraw, Redraw)
      /\ confirm' = (IF confirm = None THEN None ELSE Older(confirm, Window))
      /\ held' = (IF finger = None THEN 0 ELSE Older(held, Lockout))
      /\ did' = "nothing"
      /\ UNCHANGED <<page, shutdownDone, first, pwr, finger, armedBy>>
  BY DEF Tick
<1>2. /\ lastTouch' \in 0 .. Lockout /\ lastDraw' \in 0 .. Redraw /\ held' \in 0 .. Lockout
      /\ confirm' \in 0 .. Window \cup {None}
  BY <1>0, <1>1, OlderType, ConstantTypes
<1>3. Open(confirm') => Open(confirm)
  BY <1>0, <1>1, OlderType, ConstantTypes DEF Open
<1>4. Lasting'
  <2>1. CASE armedBy = "this" /\ finger # None
    <3>1. lastTouch <= held
      BY <2>1 DEF IInv, Lasting
    <3>2. lastTouch' <= held'
      BY <1>0, <1>1, <2>1, <3>1, OlderType, ConstantTypes
    <3> QED BY <3>2 DEF Lasting
  <2> QED BY <1>1, <2>1 DEF Lasting
<1>5. Labels'
  <2>1. confirm # None => confirm' # None
    BY <1>0, <1>1, OlderType, ConstantTypes
  <2> QED BY <1>1, <1>3, <2>1 DEF IInv, Labels
<1> QED BY <1>1, <1>2, <1>4, <1>5 DEF IInv, TypeOK

-----------------------------------------------------------------------------

LEMMA Inductive == Spec => []IInv
<1>1. Init => IInv
  <2> SUFFICES ASSUME Init PROVE IInv
    OBVIOUS
  <2>1. Lockout \in 0 .. Lockout /\ Redraw \in 0 .. Redraw
    BY ConstantTypes
  <2>2. TypeOK
    <3>1. page \in Pages
      BY DEF Init, Pages, Web
    <3>2. lastTouch \in 0 .. Lockout /\ lastDraw \in 0 .. Redraw /\ held \in 0 .. Lockout
      BY <2>1, ConstantTypes, Zenon DEF Init
    <3> QED BY <3>1, <3>2 DEF Init, TypeOK
  <2>3. Labels /\ Lasting
    BY DEF Init, Labels, Lasting, Open, Web
  <2> QED BY <2>2, <2>3 DEF IInv
<1>2. IInv /\ [Next]_vars => IInv'
  <2>1. ASSUME IInv, Next PROVE IInv'
    BY <2>1, UiPollKeeps, FingerKeeps, TickKeeps DEF Next
  <2>2. ASSUME IInv, UNCHANGED vars PROVE IInv'
    BY <2>2 DEF vars, screen, IInv, TypeOK, Labels, Lasting, Open
  <2> QED BY <2>1, <2>2
<1> QED BY <1>1, <1>2, PTL DEF Spec

(* Every time, page and label has its type (ui.cpp, uiPoll).               *)
THEOREM TypeCorrect == Spec => []TypeOK
<1>1. IInv => TypeOK
  BY DEF IInv
<1> QED BY <1>1, Inductive, PTL

(* The lockout of handleTouch() makes one short press one tap: it never    *)
(* answers its own question.                                               *)
THEOREM TwoTapsHolds == Spec => TwoTaps
<1> DEFINE A == did' = "shut down" => armedBy = "earlier" \/ held >= Lockout
<1>1. IInv /\ [Next]_vars => [A]_vars
  BY UiPollKeeps, FingerKeeps, TickKeeps DEF Next
<1> QED BY <1>1, Inductive, PTL DEF Spec, TwoTaps

(* drawButtons() is called wherever what a button does has changed.        *)
THEOREM ButtonsSayWhatHolds == Spec => ButtonsSayWhat
<1> DEFINE A == /\ did' = "ap" => first = "AP"
                /\ did' = "log" => first = "LOG"
                /\ did' = "shut down" => pwr = "SURE?"
<1>1. ASSUME IInv, UiPoll PROVE A
  <2>1. Labels /\ first \in {"LOG", "AP"}
    BY <1>1 DEF IInv, TypeOK
  <2>2. did' \in {"ap", "log"} => TouchFirst
    BY <1>1 DEF UiPoll, NoTouch, TouchAbove, TouchFirst, TouchPage, TouchPwr
  <2>3. did' = "shut down" => Open(confirm)
    BY <1>1 DEF UiPoll, NoTouch, TouchAbove, TouchFirst, TouchPage, TouchPwr
  <2> QED BY <2>1, <2>2, <2>3 DEF Labels, TouchFirst
<1>2. IInv /\ [Next]_vars => [A]_vars
  BY <1>1, FingerKeeps, TickKeeps DEF Next
<1> QED BY <1>2, Inductive, PTL DEF Spec, ButtonsSayWhat

(* The question is never given more time but by asking anew, and the first *)
(* redraw due past its end takes it away.                                  *)
THEOREM QuestionTimedHolds == Spec => QuestionTimed
<1> DEFINE A == /\ pwr' = "SURE?" => confirm' # None
                /\ pwr' = "SURE?" /\ did' # "ask" => pwr = "SURE?" /\ confirm' >= confirm
                /\ UiPoll /\ Due /\ ~Open(confirm) /\ did' # "ask" => pwr' = "PWR"
<1>1. ASSUME IInv, UiPoll PROVE A
  <2> DEFINE B == /\ pwr' = "SURE?" => pwr = "SURE?" /\ confirm' = confirm
                  /\ Due /\ ~Open(confirm) => pwr' = "PWR"
  <2>1. IInv' /\ TypeOK /\ Labels
    BY <1>1, UiPollKeeps DEF IInv
  <2>2. confirm \in 0 .. Window \cup {None} /\ page \in Pages
    BY <2>1 DEF TypeOK
  <2>3. None \notin Pages
    BY ConstantTypes DEF Pages, Web
  <2>4. ASSUME NEW p \in Pages \cup {None}, RedrawAfter(p, confirm),
               p = None => page' = page, p # None => page' = p
        PROVE  B
    BY <1>1, <2>1, <2>2, <2>4, RedrawKeeps DEF Labels
  <2> HIDE DEF B
  <2>5. NoTouch \/ TouchAbove => B
    BY <2>4 DEF NoTouch, TouchAbove
  <2>6. TouchFirst => B
    BY <2>2, <2>3, <2>4 DEF TouchFirst
  <2>7. TouchPage => B
    <3>1. page' \in Pages
      BY <2>1, Zenon DEF IInv, TypeOK
    <3> QED BY <2>3, <2>4, <3>1 DEF TouchPage, Turn
  <2>8. TouchPwr => did' = "ask" \/ B
    BY DEF TouchPwr, B
  <2>9. did' = "ask" \/ B
    BY <1>1, <2>5, <2>6, <2>7, <2>8 DEF UiPoll
  <2>10. pwr' = "SURE?" => confirm' # None
    BY <2>1 DEF IInv, Labels
  <2>11. confirm' = confirm /\ confirm' # None => confirm' >= confirm
    BY <2>2, ConstantTypes
  <2> QED BY <2>9, <2>10, <2>11 DEF B
<1>2. ASSUME IInv, Put \/ Slide \/ Lift \/ Tick PROVE ~UiPoll => A
  <2>1. IInv' /\ TypeOK /\ Labels
    BY <1>2, FingerKeeps, TickKeeps DEF IInv
  <2>2. pwr' = pwr /\ (confirm' = confirm \/ (confirm # None /\ confirm' = Older(confirm, Window)))
    BY <1>2 DEF Put, Slide, Lift, Tick, screen
  <2>3. confirm \in 0 .. Window \cup {None}
    BY <2>1 DEF TypeOK
  <2>4. confirm # None => confirm' >= confirm
    BY <2>2, <2>3, OlderType, ConstantTypes
  <2> QED BY <2>1, <2>2, <2>4 DEF IInv, Labels
<1>3. IInv /\ [Next]_vars => [A]_vars
  BY <1>1, <1>2 DEF Next
<1> QED BY <1>3, Inductive, PTL DEF Spec, QuestionTimed
=============================================================================
