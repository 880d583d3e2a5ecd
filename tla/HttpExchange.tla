---------------------------- MODULE HttpExchange ----------------------------
(***************************************************************************)
(* What the configuration page promises a browser, whatever it does on the *)
(* way: one browser is served at a time, it is answered at most once, and  *)
(* the answer is the one its own request deserves.                         *)
(***************************************************************************)
CONSTANTS Browsers, None,
          Verdict     \* the answer to the whole request of each browser

VARIABLES served, answer

Init == served = None /\ answer = None

Accept == served = None /\ served' \in Browsers /\ answer' = None

Answer == served # None /\ answer = None /\ answer' = Verdict[served] /\ served' = served

Close  == served # None /\ served' = None /\ answer' = None

Next == Accept \/ Answer \/ Close

Spec == Init /\ [][Next]_<<served, answer>>

=============================================================================
