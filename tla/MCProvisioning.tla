--------------------------- MODULE MCProvisioning ---------------------------
(* Provisioning with one WiFi slot and its password, compiled in as by a   *)
(* secrets.h.  Of the keys that always have a line, webenable is there.    *)
EXTENDS Provisioning

CONSTANTS wifi1, pass1, word

PassRides == [k \in {pass1} |-> wifi1]

Compiled == [k \in {wifi1, "webenable"} |-> IF k = "webenable" THEN On ELSE word]

(* A broken save leaves nothing, or the flag with one line more.           *)
MCLeft == {{}, {"webenable", "bootap"}, {wifi1, "bootap"}}
=============================================================================
