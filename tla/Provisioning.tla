---------------------------- MODULE Provisioning ----------------------------
(***************************************************************************)
(* The configuration of the coexistence build: settings.cpp, its users in  *)
(* serial_menu.cpp and web_config.cpp, and the two things that outlive a   *)
(* reset through it, the one-shot bootap and the pending reboot.           *)
(*                                                                         *)
(* A configuration maps keys to words or to Unset (an empty string, a 0).  *)
(* /config.txt maps the keys it has lines for; no line and no file are the *)
(* same to settingsLoad().  A handler that changes settings saves them in  *)
(* the same step; power lost during a save is an action of its own,        *)
(* CutInSave, since only the card remembers what the handler did.          *)
(***************************************************************************)
EXTENDS Integers

CONSTANTS
  Slots,        \* wifi1 .. wifi4, fixedlat: a line only when set
  RidesOn,      \* pass1 -> wifi1, fixedalt -> fixedlat: a line only when the
                \* other has one
  Texts,        \* keys with a line whatever their value: caster, user, ...
  Words,        \* what these may be set to
  Passwords,    \* ... an admin or AP password, which is one key here
  On,           \* ... webenable and bootap
  Unset,        \* an empty string, a 0
  CompiledIn,   \* secrets.h and the initializers of Settings, where not empty
  Left          \* bound: sets of keys; the lines of one are left by a save that
                \* card or power fail under

Riders == DOMAIN RidesOn
Keys   == Slots \cup Riders \cup Texts \cup {"adminpass", "webenable", "bootap"}

ASSUME ConstantsAssumption ==
  /\ Unset \notin Words \cup Passwords \cup {On}
  /\ Passwords # {}
  /\ Slots \cap Texts = {} /\ Riders \cap (Slots \cup Texts) = {}
  /\ (Slots \cup Riders \cup Texts) \cap {"adminpass", "webenable", "bootap"} = {}
  /\ \A k \in Riders : RidesOn[k] \in Slots
  /\ DOMAIN CompiledIn \subseteq Slots \cup Riders \cup Texts \cup {"webenable"}
  /\ \A k \in DOMAIN CompiledIn : CompiledIn[k] \in IF k = "webenable" THEN {On} ELSE Words
  /\ "webenable" \in DOMAIN CompiledIn
  /\ Left \subseteq SUBSET Keys

VARIABLES
  (* settings.cpp, web_config.cpp and g_log *)
  step,         \* "down", then where setup() stands, then "loop"
  settings,     \* g_settings
  sdOk,         \* sdIsOk()
  server,       \* server # nullptr
  serverUp, apActive,
  http,         \* HttpState; ReadRequest and ReadBody are "read"
  reboot,       \* rebootAtMs: "none", "armed", or "due" when millis() is past it
  (* the card *)
  file,         \* /config.txt
  (* history *)
  reported,     \* the last load or save was reported as done ...
  torn,         \* ... and the card failed under it, which nobody noticed
  asked         \* AP mode asked for: "no" (or granted), "yes", "missed" by a
                \* boot, "slipped" if it was granted and the flag remains

web  == <<server, serverUp, apActive, http, reboot>>
vars == <<step, settings, sdOk, web, file, reported, torn, asked>>

Flags     == {"webenable", "bootap"}
Settable  == [k \in Keys |-> IF k \in Flags THEN {On}
                            ELSE IF k = "adminpass" THEN Passwords ELSE Words]
Values(k) == Settable[k] \cup {Unset}
AnyValue  == Words \cup Passwords \cup {On, Unset}
Requests  == {"no", "yes", "missed", "slipped"}
Files     == {f \in UNION {[K -> AnyValue] : K \in SUBSET Keys} :
                \A k \in DOMAIN f : f[k] \in Values(k)}

DataOK ==
  /\ step \in {"down", "load", "init", "ap", "loop"}
  /\ settings \in [Keys -> AnyValue]
  /\ \A k \in Keys : settings[k] \in Values(k)
  /\ file \in Files
  /\ http \in {"idle", "read", "respond"} /\ reboot \in {"none", "armed", "due"}
  /\ asked \in Requests

FlagsOK ==
  /\ sdOk \in BOOLEAN /\ server \in BOOLEAN /\ serverUp \in BOOLEAN
  /\ apActive \in BOOLEAN /\ reported \in BOOLEAN /\ torn \in BOOLEAN

TypeOK == DataOK /\ FlagsOK

-----------------------------------------------------------------------------
(* settings.cpp.                                                           *)

(* g_settings before /config.txt is read, seedFromSecrets() included.      *)
Fresh == [k \in Keys |-> IF k \in DOMAIN CompiledIn THEN CompiledIn[k] ELSE Unset]

(* settingsLoad(): the lines of the file override.                         *)
Loaded(f) == [k \in Keys |-> IF k \in DOMAIN f THEN f[k] ELSE Fresh[k]]

FaultOnlySet(s) == {k \in Keys : s[k] # Unset}

(* The keys settingsSave() writes a line for.                              *)
Lines(s) == {k \in Keys : \/ k \in Texts \cup {"webenable"}
                          \/ k \notin Riders /\ s[k] # Unset
                          \/ k \in Riders /\ s[RidesOn[k]] # Unset}

Written(s) == [k \in Lines(s) |-> s[k]]

(* What can be left of a save that card or power fail under after O_TRUNC: *)
(* some of the lines, usually none.                                        *)
Remains(s) == {[k \in Lines(s) \cap K |-> s[k]] : K \in Left}

(* settingsSave() fails, and says so, without a card and when the file     *)
(* does not open for writing: a locked card, a loose contact.  What the    *)
(* prints and close() return it does not look at.                          *)
Outcomes == IF sdOk THEN {"written", "torn", "failed"} ELSE {"failed"}

(* settings become s, and are saved; a save that fails touches nothing.    *)
SaveAs(s, out) ==
  /\ settings' = s
  /\ \/ out = "written" /\ file' = Written(s)
     \/ out = "torn" /\ file' \in Remains(s)
     \/ out = "failed" /\ file' = file
  /\ reported' = (out # "failed") /\ torn' = (out = "torn")

Set(k, v) == [settings EXCEPT ![k] = v]

-----------------------------------------------------------------------------
(* setup().                                                                *)

(* A reset, or power lost.                                                 *)
Down ==
  /\ step' = "down" /\ settings' = Fresh /\ sdOk' = FALSE
  /\ server' = FALSE /\ serverUp' = FALSE /\ apActive' = FALSE
  /\ http' = "idle" /\ reboot' = "none"
  /\ reported' = FALSE /\ torn' = FALSE

Init ==
  /\ step = "down" /\ settings = Fresh /\ sdOk = FALSE
  /\ server = FALSE /\ serverUp = FALSE /\ apActive = FALSE
  /\ http = "idle" /\ reboot = "none"
  /\ reported = FALSE /\ torn = FALSE
  /\ file \in Files
  /\ asked = IF Loaded(file)["bootap"] = On THEN "yes" ELSE "no"

(* sdLoggerInit().                                                         *)
BootMount ==
  /\ step = "down"
  /\ step' = "load"
  /\ sdOk' \in BOOLEAN
  /\ UNCHANGED <<settings, web, file, reported, torn, asked>>

(* settingsLoad().  A file that does not open is taken for one that is not *)
(* there.                                                                  *)
BootLoad ==
  /\ step = "load"
  /\ step' = "init"
  /\ \/ /\ sdOk
        /\ settings' = Loaded(file) /\ reported' = TRUE /\ torn' = FALSE
        /\ asked' = IF Loaded(file)["bootap"] = On THEN asked ELSE "no"
     \/ UNCHANGED <<settings, reported, torn, asked>>
  /\ UNCHANGED <<sdOk, web, file>>

(* webConfigInit() up to the server.                                       *)
BootWeb ==
  /\ step = "init"
  /\ IF settings["webenable"] = Unset
       THEN /\ step' = "loop"
            /\ asked' = IF settings["bootap"] = On /\ asked = "yes"
                          THEN "missed" ELSE asked
            /\ UNCHANGED <<settings, file, reported, torn, server>>
       ELSE /\ step' = "ap" /\ server' = TRUE
            /\ IF settings["adminpass"] = Unset
                 THEN \E p \in Passwords : \E out \in Outcomes : SaveAs(Set("adminpass", p), out)
                 ELSE UNCHANGED <<settings, file, reported, torn>>
            /\ UNCHANGED asked
  /\ UNCHANGED <<sdOk, serverUp, apActive, http, reboot>>

(* The flag is cleared, and the save of it not checked.                    *)
ClearBootap ==
  \E out \in Outcomes :
    /\ SaveAs(Set("bootap", Unset), out)
    /\ asked' = IF out = "failed" THEN "slipped" ELSE "no"

(* webConfigInit(), its end: first the flag, then beginAP(), which may     *)
(* fail.                                                                   *)
BootAp ==
  /\ step = "ap"
  /\ step' = "loop"
  /\ IF settings["bootap"] = On
       THEN ClearBootap /\ apActive' \in BOOLEAN
       ELSE UNCHANGED <<settings, file, reported, torn, asked, apActive>>
  /\ UNCHANGED <<sdOk, server, serverUp, http, reboot>>

Boot == BootMount \/ BootLoad \/ BootWeb \/ BootAp

-----------------------------------------------------------------------------
(* Commands.                                                               *)

(* rebootAtMs = millis() + d.  Across the wrap of millis() the sum is      *)
(* small, and millis() is past it at once.                                 *)
Arm == reboot' \in {"armed", "due"}

(* "key=value" of the serial menu.                                         *)
SerialSet ==
  /\ step = "loop"
  /\ \E k \in Keys : \E v \in Values(k) : \E out \in Outcomes :
       /\ SaveAs(Set(k, v), out)
       /\ asked' = IF k # "bootap" \/ (v = Unset /\ out = "failed") THEN asked
                   ELSE IF v = On THEN "yes" ELSE "no"
  /\ UNCHANGED <<step, sdOk, web>>

(* "save" of the serial menu.                                              *)
SerialSave ==
  /\ step = "loop"
  /\ \E out \in Outcomes : SaveAs(settings, out)
  /\ UNCHANGED <<step, sdOk, web, asked>>

FaultNoRevert ==
  settings' = Set("bootap", On) /\ UNCHANGED <<file, torn, reboot, asked>> /\ reported' = FALSE

(* The request could not be kept: the flag is withdrawn.                   *)
Withdraw ==
  /\ settings' = Set("bootap", Unset)
  /\ reported' = (reported /\ settings["bootap"] = Unset)
  /\ UNCHANGED <<file, torn, reboot, asked>>

(* webConfigRequestApMode(), the AP button of the WEB page.                *)
ApButton ==
  /\ step = "loop"
  /\ \/ apActive /\ Arm /\ UNCHANGED <<settings, file, reported, torn, asked>>
     \/ /\ ~apActive /\ asked' = "yes" /\ Arm
        /\ \E out \in Outcomes \ {"failed"} : SaveAs(Set("bootap", On), out)
     \/ ~apActive /\ Withdraw
  /\ UNCHANGED <<step, sdOk, server, serverUp, apActive, http>>

-----------------------------------------------------------------------------
(* webConfigPoll().                                                        *)

Polls == step = "loop" /\ settings["webenable"] = On /\ server

(* sdLoggerShutdown() and NVIC_SystemReset().                              *)
PollReboot ==
  /\ Polls /\ reboot = "due" /\ http = "idle"
  /\ Down
  /\ UNCHANGED <<file, asked>>

(* A pass that gets beyond the reboot check.                               *)
Serves == Polls /\ ~(reboot = "due" /\ http = "idle")

(* The station's link is gone: resetConn().                                *)
TakeDown ==
  /\ serverUp' = FALSE /\ http' = "idle"

PollNetDown ==
  /\ Serves /\ ~apActive /\ serverUp
  /\ TakeDown
  /\ UNCHANGED <<step, settings, sdOk, server, apActive, reboot, file,
                 reported, torn, asked>>

(* pollIdle(): a connection, or none.                                      *)
PollIdle ==
  /\ Serves /\ http = "idle"
  /\ serverUp' = TRUE /\ http' \in {"idle", "read"}
  /\ UNCHANGED <<step, settings, sdOk, server, apActive, reboot, file,
                 reported, torn, asked>>

(* The WiFi card sets a slot, and with it what rides on it.                *)
SetSlot(k, v, w) ==
  [j \in Keys |-> IF j = k THEN v
                 ELSE IF j \in Riders /\ RidesOn[j] = k THEN w ELSE settings[j]]

FaultRawWord(k) == Words

(* What a card of the page may set a key to on its own: no flag, no empty  *)
(* password.                                                               *)
PageMaySet(k) == IF k = "adminpass" THEN Passwords
                 ELSE IF k \in Texts THEN Values(k) ELSE {}

(* A complete request, routed: POST with a setting, POST /api/reboot, or   *)
(* one that changes nothing (GET, 4xx).                                    *)
PollRoute ==
  /\ Serves /\ http = "read"
  /\ serverUp' = TRUE /\ http' = "respond"
  /\ \/ /\ \E k \in Slots : \E v, w \in Words \cup {Unset} : \E out \in Outcomes :
              SaveAs(SetSlot(k, v, w), out)
        /\ UNCHANGED reboot
     \/ /\ \E k \in Keys : \E v \in PageMaySet(k) : \E out \in Outcomes :
              SaveAs(Set(k, v), out)
        /\ UNCHANGED reboot
     \/ Arm /\ UNCHANGED <<settings, file, reported, torn>>
     \/ UNCHANGED <<settings, file, reported, torn, reboot>>
  /\ UNCHANGED <<step, sdOk, server, apActive, asked>>

(* resetConn(): the answer is out, the phone is gone, or a deadline is     *)
(* past.                                                                   *)
PollEnd ==
  /\ Serves /\ http # "idle"
  /\ serverUp' = TRUE /\ http' = "idle"
  /\ UNCHANGED <<step, settings, sdOk, server, apActive, reboot, file,
                 reported, torn, asked>>

Poll == PollReboot \/ PollNetDown \/ PollIdle \/ PollRoute \/ PollEnd

-----------------------------------------------------------------------------
(* Clock, card and power.                                                  *)

Tick ==
  /\ reboot = "armed" /\ reboot' = "due"
  /\ UNCHANGED <<step, settings, sdOk, server, serverUp, apActive, http,
                 file, reported, torn, asked>>

(* After 49.7 days millis() is 0 again, below any rebootAtMs.              *)
Wrap ==
  /\ reboot = "due" /\ reboot' = "armed"
  /\ UNCHANGED <<step, settings, sdOk, server, serverUp, apActive, http,
                 file, reported, torn, asked>>

(* drainOneChunk() gives the card up.                                      *)
LogWriteFails ==
  /\ step = "loop" /\ sdOk /\ sdOk' = FALSE
  /\ UNCHANGED <<step, settings, web, file, reported, torn, asked>>

PowerCut ==
  /\ Down
  /\ UNCHANGED <<file, asked>>

(* What a save in this step would be writing.                              *)
SetOne == UNION {{Set(k, v) : v \in Values(k)} : k \in Keys}
SetTwo == {SetSlot(k, v, w) : k \in Slots, v, w \in Words \cup {Unset}}
ToSave ==
  {s \in SetOne \cup SetTwo :
     \/ step = "loop"
     \/ step = "init" /\ settings["adminpass"] = Unset /\ settings["webenable"] = On
        /\ s["adminpass"] # Unset
     \/ step = "ap" /\ settings["bootap"] = On /\ s["bootap"] = Unset}

(* Power goes between O_TRUNC and close().                                 *)
CutInSave ==
  /\ sdOk
  /\ \E s \in ToSave : file' \in Remains(s)
  /\ Down
  /\ asked' = IF Loaded(file')["bootap"] # On THEN "no"
              ELSE IF settings["bootap"] = On THEN asked ELSE "yes"

(* A line of /config.txt is edited, added or removed on a laptop.          *)
EditCard ==
  /\ step = "down"
  /\ \E k \in Keys :
       /\ \/ \E v \in Values(k) : file' = [j \in DOMAIN file \cup {k} |->
                                            IF j = k THEN v ELSE file[j]]
          \/ file' = [j \in DOMAIN file \ {k} |-> file[j]]
       /\ asked' = IF k # "bootap" THEN asked
                   ELSE IF Loaded(file')["bootap"] = On THEN "yes" ELSE "no"
  /\ UNCHANGED <<step, settings, sdOk, web, reported, torn>>

World == Tick \/ Wrap \/ LogWriteFails \/ PowerCut \/ CutInSave \/ EditCard

Next == Boot \/ SerialSet \/ SerialSave \/ ApButton \/ Poll \/ World

Spec == Init /\ [][Next]_vars

-----------------------------------------------------------------------------
(* Properties.                                                             *)

(* What the menu or the page reported as saved is what the next boot finds *)
(* under every key -- unless the card failed in the middle of that save,   *)
(* which it does not notice, and except under an empty slot that is        *)
(* compiled in and under what rides on an empty slot.                      *)
Stored == reported /\ ~torn
StoredIsBooted ==
  Stored => \A k \in Keys :
              \/ Loaded(file)[k] = settings[k]
              \/ settings[k] = Unset /\ k \in Slots \cap DOMAIN CompiledIn
              \/ k \in Riders /\ settings[RidesOn[k]] = Unset

(* A bootap the rover knows to be on the card, having loaded or saved it,  *)
(* stands for a request that no boot has granted yet, whatever was saved,  *)
(* refused or lost since -- possibly one that a boot with the page off has *)
(* passed by -- with one exception: a request granted by a boot that could *)
(* not save the cleared flag.  In AP mode neither is there: the flag is    *)
(* one of a request made in AP mode.                                       *)
FlagIsARequest ==
  Stored /\ Loaded(file)["bootap"] = On
    => \/ asked = "yes"
       \/ asked \in {"missed", "slipped"} /\ ~apActive

(* webConfigInit(): "clear the flag FIRST so any exit -- button, power     *)
(* cycle, crash -- lands in STA".  In AP mode the card has no bootap, but  *)
(* for one asked for there.                                                *)
AnyExitIsSta == apActive /\ Loaded(file)["bootap"] = On => asked = "yes"

(* "ok, saved": what the menu has set, or cleared, and reported as saved   *)
(* is what the next boot finds, on a card that works.                      *)
SavedIsKept ==
  [][SerialSet /\ Stored' =>
       \A k \in Keys : settings'[k] # settings[k]
                       => Loaded(file')[k] = settings'[k]]_vars
=============================================================================
