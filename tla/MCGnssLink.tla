------------------------------ MODULE MCGnssLink ------------------------------
(* GnssLink with a rover's settings and those of two survey-ins, each with *)
(* a low elevation mask or a high one.                                     *)
EXTENDS GnssLink
=============================================================================
