------------------------------- MODULE GnssLink -------------------------------
(***************************************************************************)
(* The UART link to the ZED-F9P (gnss.cpp, gnss_config.cpp): finding the   *)
(* module at either baud, writing the configuration the settings ask for,  *)
(* and the two requests a poll serves, a re-apply and a factory recovery.  *)
(*                                                                         *)
(* gnssPoll() blocks for seconds, so it is a sequence of steps, each up to *)
(* an exchange with the module, which may be pulled, put back or replaced  *)
(* between any two; a command or its answer may be lost.                   *)
(***************************************************************************)
EXTENDS Naturals

CONSTANTS
  Settings,     \* what g_settings asks of TMODE: mode, svin*, fixed*
  Base,         \* those with mode=base, in which it surveys in
  Tunings,      \* the rest that g_settings asks: elevmask, measrate, dynmodel, nmeagsv
  Factory,      \* what the module has on its own
  None,
  MaxLost,      \* bound: commands and answers lost
  MaxUpsets     \* bound: times the module is pulled or the firmware reset

Groups == {"ports", "messages", "nav", "tmode"}     \* one VALSET each

Project == 115200
Default == 38400

ASSUME ConstantsAssumption ==
  /\ Base \subseteq Settings /\ None \notin Settings
  /\ Factory \notin Settings \cup Tunings \cup {"project"}
  /\ MaxLost \in Nat /\ MaxUpsets \in Nat

VARIABLES
  (* gnss.cpp *)
  pc, job,      \* where in gnssInit() or gnssPoll(); for whom it connects or applies, or None
  uart,         \* the baud of SerialGNSS
  f9pDetected, modeApplyRequested, factoryRecoverRequested,
  callbacks,    \* onPvt and onSvin are installed
  settings, tuning,     \* g_settings
  survey,       \* whose survey-in g_base shows
  (* the module *)
  there, baud, config,
  buffered,     \* the NAV-SVIN that waits to be parsed
  (* bounds and history *)
  lost, upsets,
  amiss         \* what has gone wrong since a configuration was last confirmed

requests == <<modeApplyRequested, factoryRecoverRequested>>
asked    == <<settings, tuning>>
module   == <<there, baud, config>>
vars == <<pc, job, uart, f9pDetected, requests, callbacks, asked, survey, module, buffered,
          lost, upsets, amiss>>

Configured == Settings \cup Tunings \cup {Factory, "project"}

TypeOK ==
  /\ pc \in {"loop", "fast", "slow", "raised", "apply", "logging", "modes", "recover", "check"}
  /\ job \in {"boot", "retry", "mode", "recover", None}
  /\ uart \in {Project, Default} /\ baud \in {Project, Default}
  /\ {f9pDetected, modeApplyRequested, factoryRecoverRequested, callbacks, there} \subseteq BOOLEAN
  /\ settings \in Settings /\ tuning \in Tunings /\ {survey, buffered} \subseteq Base \cup {None}
  /\ config \in [Groups -> Configured]
  /\ lost \in 0 .. MaxLost /\ upsets \in 0 .. MaxUpsets
  /\ amiss \subseteq {"unacked", "replaced", "recovery", "untold"}

(* A new module, or one that was configured elsewhere.                     *)
NewModule ==
  /\ baud' \in {Project, Default} /\ config' = [g \in Groups |-> Factory]

Init ==
  /\ pc = "fast" /\ job = "boot" /\ uart = Project
  /\ f9pDetected = FALSE /\ modeApplyRequested = FALSE /\ factoryRecoverRequested = FALSE
  /\ callbacks = FALSE /\ settings \in Settings /\ tuning \in Tunings /\ survey = None
  /\ there \in BOOLEAN /\ baud \in {Project, Default}
  /\ config = [g \in Groups |-> Factory] /\ buffered = None
  /\ lost = 0 /\ upsets = 0 /\ amiss = {}

-----------------------------------------------------------------------------
(* Exchanges.                                                              *)

Reachable == there /\ baud = uart

Loses == Reachable /\ lost < MaxLost /\ lost' = lost + 1

(* gnss.begin() and a VALSET: an answer, or none.                          *)
Answers == Reachable /\ UNCHANGED lost
Silent  == (~Reachable /\ UNCHANGED lost) \/ Loses

-----------------------------------------------------------------------------
(* connectGnss(): at the project's baud, or at the default to raise it.    *)

link == <<callbacks, asked, survey, there, buffered, upsets>>

FaultDefaultOnly ==
  /\ pc' = "slow" /\ uart' = Default

Connect == pc' = "fast" /\ uart' = Project

Found == pc' = "apply" /\ f9pDetected' = TRUE /\ UNCHANGED job

(* What comes next no longer depends on the job.                           *)
Done(next) == pc' = next /\ job' = None

(* A failed recovery leaves f9pDetected set.                               *)
NotFound ==
  /\ Done(IF job = "recover" THEN "check" ELSE "loop")
  /\ amiss' = IF job = "recover" THEN amiss \cup {"recovery"} ELSE amiss
  /\ UNCHANGED f9pDetected

Fast ==
  /\ pc = "fast"
  /\ \/ Answers /\ Found /\ UNCHANGED uart
     \/ Silent /\ pc' = "slow" /\ uart' = Default /\ UNCHANGED <<f9pDetected, job>>
  /\ UNCHANGED <<requests, link, baud, config, amiss>>

(* The VALSET of the baud, acknowledged or not, then the UART.             *)
RaiseBaud ==
  /\ uart' = Project
  /\ \/ baud' = Project /\ UNCHANGED lost
     \/ Loses /\ UNCHANGED baud

Slow ==
  /\ pc = "slow"
  /\ \/ Reachable /\ RaiseBaud /\ pc' = "raised" /\ UNCHANGED <<f9pDetected, job, amiss>>
     \/ Silent /\ NotFound /\ UNCHANGED <<uart, baud>>
  /\ UNCHANGED <<requests, link, config>>

Raised ==
  /\ pc = "raised"
  /\ \/ Answers /\ Found /\ UNCHANGED amiss
     \/ Silent /\ NotFound
  /\ UNCHANGED <<uart, requests, link, baud, config>>

-----------------------------------------------------------------------------
(* gnssApplyProjectConfig() and setupLogging().                            *)

(* What each VALSET is made from.  That of the ports asks the same always. *)
Wanted ==
  [g \in Groups |-> CASE g = "ports" -> "project"
                      [] g = "tmode" -> settings
                      [] g \in {"messages", "nav"} -> tuning]

(* Which VALSETs arrive; all are acknowledged, or nothing is retried.      *)
Apply ==
  /\ pc = "apply"
  /\ \/ /\ Answers /\ amiss' = {}
        /\ config' = Wanted
     \/ /\ Silent /\ amiss' = amiss \cup {"unacked"}
        /\ \E got \in SUBSET IF Reachable THEN Groups ELSE {} :
             config' = [g \in Groups |-> IF g \in got THEN Wanted[g] ELSE config[g]]
  /\ IF job = "mode" THEN Done("recover") ELSE pc' = "logging" /\ UNCHANGED job
  /\ UNCHANGED <<uart, f9pDetected, requests, link, baud>>

(* Without an acknowledgement a callback may be left out.                  *)
SetupLogging ==
  /\ pc = "logging"
  /\ \/ Answers /\ callbacks' = TRUE
     \/ Silent /\ callbacks' \in {callbacks, TRUE}
  /\ Done(IF job = "boot" THEN "loop" ELSE IF job = "retry" THEN "modes" ELSE "check")
  /\ UNCHANGED <<uart, f9pDetected, requests, asked, survey, module, buffered, upsets, amiss>>

-----------------------------------------------------------------------------
(* gnssPoll().                                                             *)

(* Every five seconds, until the module is found once.                     *)
PollRetry ==
  /\ pc = "loop" /\ ~f9pDetected /\ Connect /\ job' = "retry"
  /\ UNCHANGED <<f9pDetected, requests, link, baud, config, lost, amiss>>

PollDetected ==
  /\ pc = "loop" /\ f9pDetected /\ pc' = "modes"
  /\ UNCHANGED <<job, uart, f9pDetected, requests, link, baud, config, lost, amiss>>

FaultNoApply == pc' = "recover" /\ UNCHANGED job

ApplyMode == pc' = "apply" /\ job' = "mode"

(* Stale survey-in numbers are cleared before the VALSETs.                 *)
ModeApply ==
  /\ pc = "modes"
  /\ IF modeApplyRequested THEN modeApplyRequested' = FALSE /\ survey' = None /\ ApplyMode
     ELSE pc' = "recover" /\ UNCHANGED <<job, modeApplyRequested, survey>>
  /\ UNCHANGED <<uart, f9pDetected, factoryRecoverRequested, callbacks, asked, module,
                 buffered, lost, upsets, amiss>>

(* gnssFactoryRecover(): the module reboots with its own settings.         *)
FactoryDefault ==
  \/ /\ Answers /\ baud' = Default
     /\ config' = [g \in Groups |-> Factory]
  \/ Silent /\ UNCHANGED <<baud, config>>

FactoryRecover ==
  /\ pc = "recover"
  /\ \/ /\ factoryRecoverRequested /\ factoryRecoverRequested' = FALSE
        /\ FactoryDefault
        /\ uart' = Default /\ pc' = "slow" /\ job' = "recover"
     \/ /\ ~factoryRecoverRequested /\ pc' = "check"
        /\ UNCHANGED <<factoryRecoverRequested, uart, job, baud, config, lost>>
  /\ UNCHANGED <<f9pDetected, modeApplyRequested, link, amiss>>

FaultReadLate == config["tmode"]

FaultKeepSurvey == IF survey = None THEN buffered ELSE survey

(* onSvin().                                                               *)
OnSvin == buffered

(* checkUblox() and checkCallbacks().                                      *)
Check ==
  /\ pc = "check" /\ pc' = "loop"
  /\ buffered' = None
  /\ survey' = IF callbacks /\ buffered # None THEN OnSvin ELSE survey
  /\ UNCHANGED <<job, uart, f9pDetected, requests, callbacks, asked, module, lost, upsets, amiss>>

Host == \/ Fast \/ Slow \/ Raised \/ Apply \/ SetupLogging
        \/ PollRetry \/ PollDetected \/ ModeApply \/ FactoryRecover \/ Check

-----------------------------------------------------------------------------
(* The user, the module and the power.                                     *)

(* mode, svin* and fixed* of the menu, and the card of the page: new       *)
(* settings and a request, in the same pass.                               *)
Ask ==
  /\ pc = "loop" /\ modeApplyRequested' = TRUE
  /\ \/ settings' \in Settings /\ UNCHANGED tuning
     \/ tuning' \in Tunings /\ UNCHANGED settings
  /\ UNCHANGED <<pc, job, uart, f9pDetected, factoryRecoverRequested, callbacks, survey, module,
                 buffered, lost, upsets, amiss>>

(* elevmask, measrate, dynmodel and nmeagsv of the menu: no request.       *)
Tune ==
  /\ pc = "loop" /\ tuning' \in Tunings \ {tuning}
  /\ amiss' = amiss \cup {"untold"}
  /\ UNCHANGED <<pc, job, uart, f9pDetected, requests, callbacks, settings, survey, module,
                 buffered, lost, upsets>>

AskRecover ==
  /\ pc = "loop" /\ factoryRecoverRequested' = TRUE
  /\ UNCHANGED <<pc, job, uart, f9pDetected, modeApplyRequested, link, baud, config, lost, amiss>>

(* NAV-SVIN, once a second in base mode.                                   *)
Reports ==
  /\ Reachable /\ config["tmode"] \in Base
  /\ buffered' = config["tmode"]
  /\ UNCHANGED <<pc, job, uart, f9pDetected, requests, callbacks, asked, survey, module,
                 lost, upsets, amiss>>

Upset == upsets < MaxUpsets /\ upsets' = upsets + 1

Pull ==
  /\ there /\ there' = FALSE /\ Upset
  /\ UNCHANGED <<pc, job, uart, f9pDetected, requests, callbacks, asked, survey, baud, config,
                 buffered, lost, amiss>>

(* The same module has kept what was written, in flash.                    *)
Plug ==
  /\ ~there /\ there' = TRUE
  /\ \/ UNCHANGED <<baud, config, amiss>>
     \/ NewModule /\ amiss' = amiss \cup {"replaced"}
  /\ UNCHANGED <<pc, job, uart, f9pDetected, requests, callbacks, asked, survey, buffered,
                 lost, upsets>>

(* A reset of the firmware; the settings are on the card.                  *)
Reset ==
  /\ Upset
  /\ Connect /\ job' = "boot"
  /\ f9pDetected' = FALSE /\ modeApplyRequested' = FALSE /\ factoryRecoverRequested' = FALSE
  /\ callbacks' = FALSE /\ survey' = None /\ buffered' = None
  /\ UNCHANGED <<asked, module, lost, amiss>>

World == Ask \/ Tune \/ AskRecover \/ Reports \/ Pull \/ Plug \/ Reset

Next == Host \/ World

(* The superloop goes on, and a module in base mode reports.               *)
Spec == Init /\ [][Next]_vars /\ WF_vars(Host) /\ WF_vars(Reports)

-----------------------------------------------------------------------------
ModeAgrees   == baud = uart /\ \A g \in {"ports", "tmode"} : config[g] = Wanted[g]
TuningAgrees == \A g \in {"messages", "nav"} : config[g] = Wanted[g]

Agree ==
  /\ amiss \subseteq {"untold"} => ModeAgrees
  /\ amiss = {} => TuningAgrees

(* Between passes, with the module found and no re-apply pending, both     *)
(* ends of the UART have one baud and the module has every group of the    *)
(* settings -- whatever was asked for, pulled, lost or recovered before,   *)
(* unless since the last confirmed configuration the module was replaced,  *)
(* a write went unacknowledged or a recovery did not find the module.      *)
(* elevmask, measrate, dynmodel and nmeagsv typed into the menu reach it   *)
(* with the next configuration only ("untold"); the mode is right then too.*)
AgreeUnlessAmiss ==
  pc = "loop" /\ f9pDetected /\ ~modeApplyRequested => Agree

(* A module that is late, or at another baud, or hard to hear, is found.   *)
LateModuleFound == (there /\ ~f9pDetected) ~> (f9pDetected \/ ~there)

Surveys == /\ there /\ f9pDetected /\ callbacks /\ ModeAgrees
           /\ ~modeApplyRequested /\ ~factoryRecoverRequested /\ settings \in Base

(* Once the survey-in shown is that of these settings, and none of earlier *)
(* ones waits to be parsed, it stays for as long as the module surveys.    *)
CaughtUp    == Surveys /\ survey = settings /\ buffered \in {settings, None}
SurveyStays == [][CaughtUp /\ Surveys' => CaughtUp']_vars

(* The survey-in that is shown in base mode is in the end that of these    *)
(* settings, also if one of earlier ones was parsed after the switch.      *)
SurveyCatchesUp == SurveyStays /\ (<>[]Surveys => <>[](survey = settings))

(* "A late-powered or reseated Lite must not require a reboot": the same   *)
(* module, in its place for good, ends up in the mode the settings ask for.*)
ReseatedWorks ==
  <>[](there /\ "replaced" \notin amiss)
    => []<>(pc = "loop" /\ f9pDetected /\ ~modeApplyRequested /\ ModeAgrees)
=============================================================================
