---------------------------- MODULE GnssLink_proofs ----------------------------
(***************************************************************************)
(* For all settings and any number of pulls, resets and losses: GnssLink   *)
(* keeps its types, and module and settings agree unless something was     *)
(* amiss.                                                                  *)
(***************************************************************************)
EXTENDS GnssLink, TLAPS

Pcs  == {"loop", "fast", "slow", "raised", "apply", "logging", "modes", "recover", "check"}
Jobs == {"boot", "retry", "mode", "recover", None}

-----------------------------------------------------------------------------
(* Types.                                                                  *)

(* The type invariant, an element relation for each variable.              *)
Types ==
  /\ pc \in Pcs /\ job \in Jobs
  /\ uart \in {Project, Default} /\ baud \in {Project, Default}
  /\ f9pDetected \in BOOLEAN /\ modeApplyRequested \in BOOLEAN
  /\ factoryRecoverRequested \in BOOLEAN /\ callbacks \in BOOLEAN /\ there \in BOOLEAN
  /\ settings \in Settings /\ tuning \in Tunings /\ survey \in Base \cup {None} /\ buffered \in Base \cup {None}
  /\ config \in [Groups -> Configured]
  /\ lost \in 0 .. MaxLost /\ upsets \in 0 .. MaxUpsets
  /\ amiss \subseteq {"unacked", "replaced", "recovery", "untold"}

LEMMA TypesAre == TypeOK <=> Types
BY DEF TypeOK, Types, Pcs, Jobs

LEMMA LossType ==
  ASSUME Types
  PROVE  /\ Loses => lost' \in 0 .. MaxLost
         /\ Answers => lost' \in 0 .. MaxLost
         /\ Silent => lost' \in 0 .. MaxLost
         /\ Upset => upsets' \in 0 .. MaxUpsets
BY ConstantsAssumption DEF Types, Loses, Answers, Silent, Upset

LEMMA ConfigType ==
  ASSUME Types
  PROVE  /\ Wanted \in [Groups -> Configured]
         /\ [g \in Groups |-> Factory] \in [Groups -> Configured]
         /\ \A got : [g \in Groups |-> IF g \in got THEN Wanted[g] ELSE config[g]]
                       \in [Groups -> Configured]
<1>1. Wanted \in [Groups -> Configured]
  BY DEF Types, Wanted, Groups, Configured
<1>2. config \in [Groups -> Configured] /\ Factory \in Configured
  BY DEF Types, Configured
<1> QED BY <1>1, <1>2

LEMMA HostTypes ==
  ASSUME Types, Host
  PROVE  Types'
<1> USE DEF Types, requests, module, link, asked
<1>1. CASE Fast
  <2>1. lost' \in 0 .. MaxLost
    BY <1>1, LossType DEF Fast
  <2> QED BY <1>1, <2>1 DEF Fast, Found, Pcs, Jobs
<1>2. CASE Slow
  <2>1. lost' \in 0 .. MaxLost
    BY <1>2, LossType DEF Slow, RaiseBaud
  <2>2. CASE RaiseBaud /\ pc' = "raised" /\ UNCHANGED <<f9pDetected, job, amiss>>
    BY <1>2, <2>1, <2>2 DEF Slow, RaiseBaud, Pcs, Jobs
  <2>3. CASE NotFound /\ UNCHANGED <<uart, baud>>
    BY <1>2, <2>1, <2>3 DEF Slow, NotFound, Done, Pcs, Jobs
  <2> QED BY <1>2, <2>2, <2>3 DEF Slow
<1>3. CASE Raised
  <2>1. lost' \in 0 .. MaxLost
    BY <1>3, LossType DEF Raised
  <2> QED BY <1>3, <2>1 DEF Raised, Found, NotFound, Done, Pcs, Jobs
<1>4. CASE Apply
  <2>1. lost' \in 0 .. MaxLost
    BY <1>4, LossType DEF Apply
  <2>2. config' \in [Groups -> Configured]
    BY <1>4, ConfigType DEF Apply
  <2>3. pc' \in Pcs /\ job' \in Jobs
    BY <1>4 DEF Apply, Done, Pcs, Jobs
  <2>4. amiss' \subseteq {"unacked", "replaced", "recovery", "untold"}
    BY <1>4 DEF Apply
  <2> QED BY <1>4, <2>1, <2>2, <2>3, <2>4 DEF Apply
<1>5. CASE SetupLogging
  <2>1. lost' \in 0 .. MaxLost
    BY <1>5, LossType DEF SetupLogging
  <2> QED BY <1>5, <2>1 DEF SetupLogging, Done, Pcs, Jobs
<1>6. CASE PollRetry
  BY <1>6 DEF PollRetry, Connect, Pcs, Jobs
<1>7. CASE PollDetected
  BY <1>7 DEF PollDetected, Pcs
<1>8. CASE ModeApply
  BY <1>8 DEF ModeApply, ApplyMode, Pcs, Jobs
<1>9. CASE FactoryRecover
  <2>1. lost' \in 0 .. MaxLost
    BY <1>9, LossType DEF FactoryRecover, FactoryDefault
  <2>2. config' \in [Groups -> Configured]
    BY <1>9, ConfigType DEF FactoryRecover, FactoryDefault
  <2> QED BY <1>9, <2>1, <2>2 DEF FactoryRecover, FactoryDefault, Pcs, Jobs
<1>10. CASE Check
  BY <1>10 DEF Check, OnSvin, Pcs
<1> QED BY <1>1, <1>2, <1>3, <1>4, <1>5, <1>6, <1>7, <1>8, <1>9, <1>10 DEF Host

LEMMA WorldTypes ==
  ASSUME Types, World
  PROVE  Types'
<1> USE DEF Types, requests, module, link, asked
<1>1. CASE Ask
  BY <1>1 DEF Ask
<1>2. CASE AskRecover \/ Tune
  BY <1>2 DEF AskRecover, Tune
<1>3. CASE Reports
  BY <1>3 DEF Reports
<1>4. CASE Pull
  BY <1>4, LossType DEF Pull
<1>5. CASE Plug
  BY <1>5, ConfigType DEF Plug, NewModule
<1>6. CASE Reset
  BY <1>6, LossType DEF Reset, Connect, Pcs, Jobs
<1> QED BY <1>1, <1>2, <1>3, <1>4, <1>5, <1>6 DEF World

-----------------------------------------------------------------------------
(* Agreement: where in a poll it is known, and why.                        *)

Detection ==
  /\ pc \in {"fast", "slow", "raised"} /\ job # "recover" => ~f9pDetected
  /\ pc \in {"slow", "raised"} /\ job = "recover" => f9pDetected
  /\ pc \in {"apply", "logging", "modes", "recover", "check"} => f9pDetected
  /\ pc = "fast" => job # "recover"

Confirmed ==
  pc = "logging" => Agree

Kept ==
  /\ pc \in {"loop", "modes", "check"} /\ f9pDetected /\ ~modeApplyRequested => Agree
  /\ pc = "recover" => Agree

IInv == Types /\ Detection /\ Confirmed /\ Kept

LEMMA DetectionKept ==
  ASSUME IInv, Next
  PROVE  Detection'
<1> USE DEF Detection
<1>0. Detection /\ pc \in Pcs /\ job \in Jobs
  BY DEF IInv, Types
<1>1. CASE Fast
  BY <1>0, <1>1 DEF Fast, Found
<1>2. CASE Slow
  BY <1>0, <1>2 DEF Slow, NotFound, Done
<1>3. CASE Raised
  BY <1>0, <1>3 DEF Raised, Found, NotFound, Done
<1>4. CASE Apply
  BY <1>0, <1>4 DEF Apply, Done
<1>5. CASE SetupLogging
  BY <1>0, <1>5 DEF SetupLogging, Done
<1>6. CASE PollRetry
  BY <1>0, <1>6 DEF PollRetry, Connect
<1>7. CASE PollDetected
  BY <1>0, <1>7 DEF PollDetected
<1>8. CASE ModeApply
  BY <1>0, <1>8 DEF ModeApply, ApplyMode
<1>9. CASE FactoryRecover
  BY <1>0, <1>9 DEF FactoryRecover
<1>10. CASE Check
  BY <1>0, <1>10 DEF Check
<1>11. CASE Ask \/ Tune \/ AskRecover \/ Reports \/ Pull \/ Plug
  BY <1>0, <1>11 DEF Ask, Tune, AskRecover, Reports, Pull, Plug
<1>12. CASE Reset
  BY <1>0, <1>12 DEF Reset, Connect
<1> QED BY <1>1, <1>2, <1>3, <1>4, <1>5, <1>6, <1>7, <1>8, <1>9, <1>10, <1>11, <1>12
        DEF Next, Host, World

(* A step that leaves both ends and the settings alone leaves agreement.   *)
LEMMA AgreeKept ==
  ASSUME Agree, UNCHANGED <<baud, uart, config, settings, tuning, amiss>>
  PROVE  Agree'
<1>1. Wanted' = Wanted
  BY DEF Wanted
<1> QED BY <1>1 DEF Agree, ModeAgrees, TuningAgrees

LEMMA AgreementKept ==
  ASSUME IInv, Next
  PROVE  Confirmed' /\ Kept'
<1>0. Detection /\ Confirmed /\ Kept /\ pc \in Pcs
  BY DEF IInv, Types
<1>1. CASE Fast
  BY <1>0, <1>1 DEF Fast, Found, Detection, Confirmed, Kept
<1>2. CASE Slow
  <2>1. pc' \in {"raised", "check", "loop"}
    BY <1>2 DEF Slow, NotFound, Done
  <2>2. CASE pc' = "check"
    <3>1. "recovery" \in amiss'
      BY <1>2, <2>2 DEF Slow, NotFound, Done
    <3>2. Agree'
      BY <3>1 DEF Agree
    <3> QED BY <2>2, <3>2 DEF Confirmed, Kept
  <2>3. CASE pc' = "loop"
    BY <1>0, <1>2, <2>3 DEF Slow, NotFound, Done, Detection, Confirmed, Kept
  <2> QED BY <2>1, <2>2, <2>3 DEF Confirmed, Kept
<1>3. CASE Raised
  <2>1. pc' \in {"apply", "check", "loop"}
    BY <1>3 DEF Raised, Found, NotFound, Done
  <2>2. CASE pc' = "check"
    <3>1. "recovery" \in amiss'
      BY <1>3, <2>2 DEF Raised, Found, NotFound, Done
    <3>2. Agree'
      BY <3>1 DEF Agree
    <3> QED BY <2>2, <3>2 DEF Confirmed, Kept
  <2>3. CASE pc' = "loop"
    BY <1>0, <1>3, <2>3 DEF Raised, Found, NotFound, Done, Detection, Confirmed, Kept
  <2> QED BY <2>1, <2>2, <2>3 DEF Confirmed, Kept
<1>4. CASE Apply
  <2>1. pc' \in {"recover", "logging"}
    BY <1>4 DEF Apply, Done
  <2>2. Agree'
    <3>1. CASE amiss' = {}
      <4>1. baud = uart /\ config' = Wanted /\ UNCHANGED <<uart, baud, settings, tuning>>
        BY <1>4, <3>1 DEF Apply, link, asked, Answers, Reachable
      <4>2. Wanted' = Wanted
        BY <4>1 DEF Wanted
      <4>3. \A g \in Groups : config'[g] = Wanted'[g]
        BY <4>1, <4>2
      <4> QED BY <4>1, <4>3 DEF Agree, ModeAgrees, TuningAgrees, Groups
    <3>2. CASE "unacked" \in amiss'
      BY <3>2 DEF Agree
    <3> QED BY <1>4, <3>1, <3>2 DEF Apply
  <2> QED BY <2>1, <2>2 DEF Confirmed, Kept
<1>5. CASE SetupLogging
  <2>1. pc = "logging" /\ UNCHANGED <<baud, uart, config, settings, tuning, amiss>>
    BY <1>5 DEF SetupLogging, module, asked
  <2>2. Agree'
    BY <1>0, <2>1, AgreeKept DEF Confirmed
  <2> QED BY <2>2 DEF Confirmed, Kept
<1>6. CASE PollRetry
  BY <1>6 DEF PollRetry, Connect, Confirmed, Kept
<1>7. CASE PollDetected \/ Check
  <2>1. /\ pc \in {"loop", "check"} /\ pc' \in {"modes", "loop"}
        /\ UNCHANGED <<baud, uart, config, settings, tuning, amiss, f9pDetected, modeApplyRequested>>
    BY <1>7 DEF PollDetected, Check, requests, link, module, asked
  <2>2. f9pDetected' /\ ~modeApplyRequested' => Agree
    BY <1>0, <2>1 DEF Kept
  <2>3. f9pDetected' /\ ~modeApplyRequested' => Agree'
    BY <2>1, <2>2, AgreeKept
  <2> QED BY <2>1, <2>3 DEF Confirmed, Kept
<1>8. CASE ModeApply
  <2>1. CASE modeApplyRequested
    BY <1>8, <2>1 DEF ModeApply, ApplyMode, Confirmed, Kept
  <2>2. CASE ~modeApplyRequested
    <3>1. pc = "modes" /\ pc' = "recover" /\ UNCHANGED <<baud, uart, config, settings, tuning, amiss>>
      BY <1>8, <2>2 DEF ModeApply, module, asked
    <3>2. Agree
      BY <1>0, <2>2, <3>1 DEF Detection, Kept
    <3>3. Agree'
      BY <3>1, <3>2, AgreeKept
    <3> QED BY <3>1, <3>3 DEF Confirmed, Kept
  <2> QED BY <2>1, <2>2
<1>9. CASE FactoryRecover
  <2>1. CASE factoryRecoverRequested
    BY <1>9, <2>1 DEF FactoryRecover, Confirmed, Kept
  <2>2. CASE ~factoryRecoverRequested
    <3>1. pc = "recover" /\ pc' = "check" /\ UNCHANGED <<baud, uart, config, settings, tuning, amiss>>
      BY <1>9, <2>2 DEF FactoryRecover, link, asked
    <3>2. Agree'
      BY <1>0, <3>1, AgreeKept DEF Kept
    <3> QED BY <3>1, <3>2 DEF Confirmed, Kept
  <2> QED BY <2>1, <2>2
<1>10. CASE Ask
  BY <1>10 DEF Ask, Confirmed, Kept
<1>11. CASE AskRecover \/ Reports \/ Pull
  <2>1. UNCHANGED <<pc, baud, uart, config, settings, tuning, amiss, f9pDetected, modeApplyRequested>>
    BY <1>11 DEF AskRecover, Reports, Pull, requests, link, module, asked
  <2>2. Agree => Agree'
    BY <2>1, AgreeKept
  <2> QED BY <1>0, <2>1, <2>2 DEF Confirmed, Kept
<1>12. CASE Plug
  <2>1. UNCHANGED <<pc, uart, settings, tuning, f9pDetected, modeApplyRequested>>
    BY <1>12 DEF Plug, requests, asked
  <2>2. CASE UNCHANGED <<baud, config, amiss>>
    <3>1. Agree => Agree'
      BY <2>1, <2>2, AgreeKept
    <3> QED BY <1>0, <2>1, <2>2, <3>1 DEF Confirmed, Kept
  <2>3. CASE "replaced" \in amiss'
    <3>1. Agree'
      BY <2>3 DEF Agree
    <3> QED BY <3>1 DEF Confirmed, Kept
  <2> QED BY <1>12, <2>2, <2>3 DEF Plug
<1>13. CASE Tune
  <2>1. /\ amiss' = amiss \cup {"untold"}
        /\ UNCHANGED <<pc, baud, uart, config, settings, f9pDetected, modeApplyRequested>>
    BY <1>13 DEF Tune, requests, module
  <2>2. ModeAgrees => ModeAgrees'
    BY <2>1 DEF ModeAgrees, Wanted, Groups
  <2>3. Agree => Agree'
    BY <2>1, <2>2 DEF Agree
  <2> QED BY <1>0, <2>1, <2>3 DEF Confirmed, Kept
<1>14. CASE Reset
  BY <1>14 DEF Reset, Connect, Confirmed, Kept
<1> QED BY <1>1, <1>2, <1>3, <1>4, <1>5, <1>6, <1>7, <1>8, <1>9, <1>10, <1>11, <1>12, <1>13, <1>14
        DEF Next, Host, World

LEMMA Inductive == Spec => []IInv
<1>1. Init => IInv
  <2> SUFFICES ASSUME Init PROVE IInv
    OBVIOUS
  <2>1. config \in [Groups -> Configured]
    BY DEF Init, Configured
  <2>2. 0 \in 0 .. MaxLost /\ 0 \in 0 .. MaxUpsets
    BY ConstantsAssumption
  <2>3. Types
    BY <2>1, <2>2 DEF Init, Types, Pcs, Jobs
  <2> QED BY <2>3 DEF Init, IInv, Detection, Confirmed, Kept
<1>2. IInv /\ [Next]_vars => IInv'
  <2>1. ASSUME IInv, Next PROVE IInv'
    <3>1. Types'
      BY <2>1, HostTypes, WorldTypes DEF IInv, Next
    <3> QED BY <2>1, <3>1, DetectionKept, AgreementKept DEF IInv
  <2>2. ASSUME IInv, UNCHANGED vars PROVE IInv'
    <3>1. UNCHANGED <<pc, job, uart, f9pDetected, modeApplyRequested, factoryRecoverRequested,
                      callbacks, settings, tuning, survey, there, baud, config, buffered,
                      lost, upsets, amiss>>
      BY <2>2 DEF vars, requests, module, asked
    <3>2. Agree => Agree'
      BY <3>1, AgreeKept
    <3>3. Types'
      BY <2>2, <3>1 DEF IInv, Types
    <3> QED BY <2>2, <3>1, <3>2, <3>3 DEF IInv, Detection, Confirmed, Kept
  <2> QED BY <2>1, <2>2
<1> QED BY <1>1, <1>2, PTL DEF Spec

(* Every variable of the link has its type, whatever is asked for, lost    *)
(* or pulled (gnss.cpp, gnssInit and gnssPoll).                            *)
THEOREM TypeCorrect == Spec => []TypeOK
<1>1. IInv => TypeOK
  BY TypesAre DEF IInv
<1> QED BY <1>1, Inductive, PTL

(* A detected module with nothing pending has the baud and every group of  *)
(* the settings, unless something was amiss (gnssPoll); and the mode's if  *)
(* all that was is a key the menu changes without a request (handleLine).  *)
THEOREM AgreeHolds == Spec => []AgreeUnlessAmiss
<1>1. IInv => AgreeUnlessAmiss
  BY DEF IInv, Kept, AgreeUnlessAmiss
<1> QED BY <1>1, Inductive, PTL

(* The survey-in of the present settings, once shown, is replaced by none  *)
(* of earlier ones, since every report that can still come is of these     *)
(* settings (onSvin).                                                      *)
THEOREM SurveyStaysHolds == Spec => SurveyStays
<1>1. ASSUME CaughtUp, Next, Surveys' PROVE CaughtUp'
  <2>1. f9pDetected' /\ ~modeApplyRequested' /\ ~modeApplyRequested /\ ~factoryRecoverRequested
    BY <1>1 DEF CaughtUp, Surveys
  <2>2. ~Ask /\ ~Reset /\ (ModeApply => survey' = survey)
    BY <2>1 DEF Ask, Reset, ModeApply
  <2>3. CASE Host /\ ~Check
    <3>1. UNCHANGED <<settings, survey, buffered>>
      BY <2>2, <2>3 DEF Host, Fast, Slow, Raised, Apply, SetupLogging, PollRetry, PollDetected,
                        ModeApply, FactoryRecover, link, asked
    <3> QED BY <1>1, <3>1 DEF CaughtUp
  <2>4. CASE Check
    BY <1>1, <2>4 DEF Check, OnSvin, CaughtUp, asked
  <2>5. CASE Reports
    <3>1. config["tmode"] = settings
      BY <1>1 DEF CaughtUp, Surveys, ModeAgrees, Wanted, Groups
    <3> QED BY <1>1, <2>5, <3>1 DEF Reports, CaughtUp, asked
  <2>6. CASE AskRecover \/ Tune \/ Pull \/ Plug
    BY <1>1, <2>6 DEF AskRecover, Tune, Pull, Plug, link, asked, CaughtUp
  <2> QED BY <1>1, <2>2, <2>3, <2>4, <2>5, <2>6 DEF Next, World
<1>2. [Next]_vars => [CaughtUp /\ Surveys' => CaughtUp']_vars
  BY <1>1
<1> QED BY <1>2, PTL DEF Spec, SurveyStays

=============================================================================
