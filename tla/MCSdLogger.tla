----------------------------- MODULE MCSdLogger -----------------------------
(* SdLogger within one second of GNSS time, so that names collide and run  *)
(* out, and with a pass longer than the sync period, as ten seconds of     *)
(* WiFi.begin() are longer than eight.                                     *)
EXTENDS SdLogger, TLC

Symmetry == Permutations(Modes)
=============================================================================
