--------------------------- MODULE MCNtripClient ---------------------------
(* NtripClient with times in units that keep the order of the real limits: *)
(* 5 s header deadline < 10 s correction limit <= 10 s GGA period, retry   *)
(* delays that double into a maximum that is no power of two.              *)
EXTENDS NtripClient

MCSsids   == {0, 2}    \* slot 1 is empty: wifiTryNext() skips it
MCInRange == {2}
=============================================================================
