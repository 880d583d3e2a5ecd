------------------------------ MODULE MCTouchUi ------------------------------
(* TouchUi with times in the order of the real ones: 300, 500, 3000 ms.    *)
EXTENDS TouchUi
=============================================================================
