------------------------ MODULE Provisioning_proofs -------------------------
(***************************************************************************)
(* Theorems about Provisioning, for any keys, words and compiled-in        *)
(* values.  Every step moves the pair (settings, /config.txt) in one of    *)
(* six ways (StepMoves); what a save writes, a load reads back (RoundTrip).*)
(***************************************************************************)
EXTENDS Provisioning, TLAPS

Typed(s) == s \in [Keys -> AnyValue] /\ \A k \in Keys : s[k] \in Values(k)

Agrees(s, f) ==
  \A k \in Keys : \/ Loaded(f)[k] = s[k]
                  \/ s[k] = Unset /\ k \in Slots \cap DOMAIN CompiledIn
                  \/ k \in Riders /\ s[RidesOn[k]] = Unset

(* Beyond the invariants of the runs: nothing is reported as saved while   *)
(* the card may be edited; a bootap in memory or on the card is a request, *)
(* and there is none in memory before the file is read; AP mode begins     *)
(* where setup() ends.                                                     *)
RequestInv ==
  /\ step = "down" => settings["bootap"] = Unset
  /\ Loaded(file)["bootap"] = On => asked # "no"
  /\ settings["bootap"] = On => asked # "no"
  /\ apActive => step = "loop" /\ (settings["bootap"] = On => asked = "yes")

StoredInv == StoredIsBooted /\ (step = "down" => ~reported)

-----------------------------------------------------------------------------
(* Values, files and the round trip.                                       *)

(***************************************************************************)
(* The named keys are keys, and different.                                 *)
(***************************************************************************)
LEMMA KeysApart ==
  /\ "bootap" \in Keys /\ "adminpass" \in Keys /\ "webenable" \in Keys
  /\ "bootap" \notin Slots \cup Riders \cup Texts /\ "bootap" \notin DOMAIN CompiledIn
  /\ On # Unset
  /\ \A k \in Keys : Unset \in Values(k) /\ Values(k) \subseteq AnyValue
  /\ On \in Values("bootap") /\ Passwords \subseteq Values("adminpass")
BY ConstantsAssumption DEF Keys, Values, Settable, AnyValue, Flags

(***************************************************************************)
(* A function from some of the keys to values of theirs is a file.         *)
(***************************************************************************)
LEMMA FileIntro ==
  ASSUME NEW K \in SUBSET Keys, NEW f \in [K -> AnyValue],
         \A k \in K : f[k] \in Values(k)
  PROVE  f \in Files
BY DEF Files

(***************************************************************************)
(* And a file is one.                                                      *)
(***************************************************************************)
LEMMA FileElim ==
  ASSUME NEW f \in Files
  PROVE  /\ DOMAIN f \subseteq Keys
         /\ \A k \in DOMAIN f : f[k] \in Values(k) /\ f[k] \in AnyValue
         /\ f \in [DOMAIN f -> AnyValue]
<1>1. PICK K \in SUBSET Keys : f \in [K -> AnyValue]
  BY DEF Files
<1>2. \A k \in DOMAIN f : f[k] \in Values(k)
  BY DEF Files
<1>3. QED
  BY <1>1, <1>2

(***************************************************************************)
(* The compiled-in values are typed.                                       *)
(***************************************************************************)
LEMMA FreshTyped == Typed(Fresh) /\ Fresh["bootap"] = Unset
<1>1. ASSUME NEW k \in Keys PROVE Fresh[k] \in Values(k)
  BY <1>1, ConstantsAssumption DEF Fresh, Values, Settable, Flags, Keys
<1>2. Fresh \in [Keys -> AnyValue]
  BY <1>1, KeysApart DEF Fresh
<1>3. Fresh["bootap"] = Unset
  BY KeysApart DEF Fresh
<1>4. QED
  BY <1>1, <1>2, <1>3 DEF Typed

(***************************************************************************)
(* What settingsLoad() makes of a file is typed.                           *)
(***************************************************************************)
LEMMA LoadedTyped ==
  ASSUME NEW f \in Files
  PROVE  Typed(Loaded(f))
<1>1. ASSUME NEW k \in Keys PROVE Loaded(f)[k] \in Values(k)
  BY <1>1, FileElim, FreshTyped DEF Loaded, Typed
<1>2. Loaded(f) \in [Keys -> AnyValue]
  BY <1>1, KeysApart DEF Loaded
<1>3. QED
  BY <1>1, <1>2 DEF Typed

(***************************************************************************)
(* Any part of what settingsSave() writes is a file.                       *)
(***************************************************************************)
LEMMA PartTyped ==
  ASSUME NEW s, Typed(s), NEW K \in SUBSET Lines(s)
  PROVE  [k \in K |-> s[k]] \in Files
<1> DEFINE f == [k \in K |-> s[k]]
<1>1. K \subseteq Keys
  BY DEF Lines
<1>2. \A k \in K : s[k] \in AnyValue /\ s[k] \in Values(k)
  BY <1>1 DEF Typed
<1>3. f \in [K -> AnyValue] /\ \A k \in K : f[k] \in Values(k)
  BY <1>2
<1>4. QED
  BY <1>1, <1>3, FileIntro

(***************************************************************************)
(* So is what a broken save leaves.                                        *)
(***************************************************************************)
LEMMA RemainsTyped ==
  ASSUME NEW s, Typed(s), NEW f \in Remains(s)
  PROVE  f \in Files
<1>1. PICK K \in Left : f = [k \in Lines(s) \cap K |-> s[k]]
  BY DEF Remains
<1>2. Lines(s) \cap K \in SUBSET Lines(s)
  OBVIOUS
<1>3. QED
  BY <1>1, <1>2, PartTyped

(***************************************************************************)
(* Assigning a value of its key keeps settings typed.                      *)
(***************************************************************************)
LEMMA SetTyped ==
  ASSUME Typed(settings), NEW k \in Keys, NEW v \in Values(k)
  PROVE  Typed(Set(k, v))
BY KeysApart DEF Typed, Set

(***************************************************************************)
(* So does setting a slot and what rides on it, and it leaves bootap.      *)
(***************************************************************************)
LEMMA SetSlotTyped ==
  ASSUME Typed(settings), NEW k \in Slots, NEW v \in Words \cup {Unset},
         NEW w \in Words \cup {Unset}
  PROVE  Typed(SetSlot(k, v, w)) /\ SetSlot(k, v, w)["bootap"] = settings["bootap"]
<1>1. ASSUME NEW j \in Slots \cup Riders
      PROVE  j \in Keys /\ Values(j) = Words \cup {Unset}
  BY ConstantsAssumption DEF Keys, Values, Settable, Flags
<1>2. ASSUME NEW j \in Keys PROVE SetSlot(k, v, w)[j] \in Values(j)
  BY <1>1 DEF SetSlot, Typed
<1>3. SetSlot(k, v, w) \in [Keys -> AnyValue]
  BY DEF SetSlot, Typed, AnyValue
<1>4. SetSlot(k, v, w)["bootap"] = settings["bootap"]
  BY KeysApart DEF SetSlot
<1>5. QED
  BY <1>2, <1>3, <1>4 DEF Typed

(***************************************************************************)
(* A save is read back: but for an empty slot with a compiled-in name,     *)
(* and what rides on an empty slot, every key has its value again after    *)
(* the next load.                                                          *)
(***************************************************************************)
LEMMA RoundTrip ==
  ASSUME NEW s, Typed(s)
  PROVE  Agrees(s, Written(s))
<1> SUFFICES ASSUME NEW k \in Keys
             PROVE  \/ Loaded(Written(s))[k] = s[k]
                    \/ s[k] = Unset /\ k \in Slots \cap DOMAIN CompiledIn
                    \/ k \in Riders /\ s[RidesOn[k]] = Unset
  BY DEF Agrees
<1>1. CASE k \in Lines(s)
  BY <1>1 DEF Loaded, Written
<1>2. CASE k \notin Lines(s)
  <2>1. /\ k \notin Texts \cup {"webenable"}
        /\ k \in Riders => s[RidesOn[k]] = Unset
        /\ k \notin Riders => s[k] = Unset
    BY <1>2 DEF Lines
  <2>2. Loaded(Written(s))[k] = Fresh[k]
    BY <1>2 DEF Loaded, Written
  <2>3. CASE k \in DOMAIN CompiledIn
    BY <2>1, <2>3, ConstantsAssumption
  <2>4. CASE k \notin DOMAIN CompiledIn
    BY <2>1, <2>2, <2>4 DEF Fresh
  <2>5. QED
    BY <2>3, <2>4
<1>3. QED
  BY <1>1, <1>2

(***************************************************************************)
(* bootap in particular.                                                   *)
(***************************************************************************)
LEMMA BootapKept ==
  ASSUME NEW s, NEW f, Agrees(s, f)
  PROVE  Loaded(f)["bootap"] = s["bootap"]
BY KeysApart DEF Agrees

-----------------------------------------------------------------------------
(* The six ways of a step.                                                 *)

Results  == {"written", "torn", "failed"}
Kept     == UNCHANGED <<settings, file, reported, torn>>
Saved    == \E s : Typed(s) /\ \E out \in Results : SaveAs(s, out)
Reverted == /\ settings' = Set("bootap", Unset) /\ UNCHANGED file
            /\ reported' = (reported /\ settings["bootap"] = Unset) /\ UNCHANGED torn
Lost     == /\ settings' = Fresh /\ file' \in Files
            /\ reported' = FALSE /\ torn' = FALSE
Read     == /\ settings' = Loaded(file) /\ UNCHANGED file
            /\ reported' = TRUE /\ torn' = FALSE
Edited   == /\ step = "down" /\ file' \in Files
            /\ UNCHANGED <<step, settings, reported, torn>>

(***************************************************************************)
(* A save of typed settings, however it ends.                              *)
(***************************************************************************)
LEMMA SaveMoves ==
  ASSUME NEW s, Typed(s), NEW out \in Outcomes, SaveAs(s, out)
  PROVE  Saved
<1>1. out \in Results
  BY DEF Outcomes, Results
<1>2. QED
  BY Zenon, <1>1 DEF Saved

(***************************************************************************)
(* setup().                                                                *)
(***************************************************************************)
LEMMA BootMoves == DataOK /\ Boot => Kept \/ Saved \/ Read
<1> SUFFICES ASSUME DataOK, Boot PROVE Kept \/ Saved \/ Read
  OBVIOUS
<1>0. Typed(settings)
  BY DEF DataOK, Typed
<1>1. CASE BootMount
  BY Zenon, <1>1 DEF BootMount, Kept
<1>2. CASE BootLoad
  BY Zenon, <1>2 DEF BootLoad, Kept, Read
<1>3. CASE BootWeb
  <2>1. \/ UNCHANGED <<settings, file, reported, torn>>
        \/ \E p \in Passwords : \E out \in Outcomes : SaveAs(Set("adminpass", p), out)
    BY Zenon, <1>3 DEF BootWeb
  <2>2. ASSUME NEW p \in Passwords, NEW out \in Outcomes, SaveAs(Set("adminpass", p), out)
        PROVE  Saved
    <3>1. Typed(Set("adminpass", p))
      BY <1>0, KeysApart, SetTyped
    <3>2. QED
      BY <2>2, <3>1, SaveMoves
  <2>3. QED
    BY Zenon, <2>1, <2>2 DEF Kept
<1>4. CASE BootAp
  <2>1. \/ UNCHANGED <<settings, file, reported, torn>>
        \/ \E out \in Outcomes : SaveAs(Set("bootap", Unset), out)
    BY Zenon, <1>4 DEF BootAp, ClearBootap
  <2>2. Typed(Set("bootap", Unset))
    BY <1>0, KeysApart, SetTyped
  <2>3. QED
    BY Zenon, <2>1, <2>2, SaveMoves DEF Kept
<1>5. QED
  BY Zenon, <1>1, <1>2, <1>3, <1>4 DEF Boot

(***************************************************************************)
(* The serial menu and the AP button.                                      *)
(***************************************************************************)
LEMMA CommandMoves ==
  DataOK /\ (SerialSet \/ SerialSave \/ ApButton) => Kept \/ Saved \/ Reverted
<1> SUFFICES ASSUME DataOK, SerialSet \/ SerialSave \/ ApButton
             PROVE  Kept \/ Saved \/ Reverted
  OBVIOUS
<1>0. Typed(settings)
  BY DEF DataOK, Typed
<1>1. CASE SerialSet
  <2>1. PICK k \in Keys : \E v \in Values(k) : \E out \in Outcomes : SaveAs(Set(k, v), out)
    BY Zenon, <1>1 DEF SerialSet
  <2>2. PICK v \in Values(k) : \E out \in Outcomes : SaveAs(Set(k, v), out)
    BY Zenon, <2>1
  <2>3. Typed(Set(k, v))
    BY <1>0, SetTyped
  <2>4. QED
    BY Zenon, <2>2, <2>3, SaveMoves
<1>2. CASE SerialSave
  BY Zenon, <1>0, <1>2, SaveMoves DEF SerialSave
<1>3. CASE ApButton
  <2>1. \/ UNCHANGED <<settings, file, reported, torn>>
        \/ \E out \in Outcomes : SaveAs(Set("bootap", On), out)
        \/ Withdraw
    BY <1>3 DEF ApButton
  <2>2. Typed(Set("bootap", On))
    BY <1>0, KeysApart, SetTyped
  <2>3. (\E out \in Outcomes : SaveAs(Set("bootap", On), out)) => Saved
    BY Zenon, <2>2, SaveMoves
  <2>4. QED
    BY Zenon, <2>1, <2>3 DEF Kept, Withdraw, Reverted
<1>4. QED
  BY <1>1, <1>2, <1>3

(***************************************************************************)
(* webConfigPoll().                                                        *)
(***************************************************************************)
LEMMA PollMoves == DataOK /\ Poll => Kept \/ Saved \/ Lost
<1> SUFFICES ASSUME DataOK, Poll PROVE Kept \/ Saved \/ Lost
  OBVIOUS
<1>0. Typed(settings) /\ file \in Files
  BY DEF DataOK, Typed
<1>1. CASE PollReboot
  BY Zenon, <1>0, <1>1 DEF PollReboot, Down, Lost
<1>2. CASE PollNetDown
  BY Zenon, <1>2 DEF PollNetDown, Kept
<1>3. CASE PollIdle
  BY Zenon, <1>3 DEF PollIdle, Kept
<1>4. CASE PollRoute
  <2>1. \/ UNCHANGED <<settings, file, reported, torn>>
        \/ \E k \in Slots : \E v, w \in Words \cup {Unset} : \E out \in Outcomes :
             SaveAs(SetSlot(k, v, w), out)
        \/ \E k \in Keys : \E v \in PageMaySet(k) : \E out \in Outcomes :
             SaveAs(Set(k, v), out)
    BY Zenon, <1>4 DEF PollRoute
  <2>2. ASSUME NEW k \in Keys PROVE PageMaySet(k) \subseteq Values(k)
    BY <2>2, KeysApart DEF PageMaySet
  <2>3. (\E k \in Slots : \E v, w \in Words \cup {Unset} : \E out \in Outcomes :
          SaveAs(SetSlot(k, v, w), out)) => Saved
    BY Zenon, <1>0, SetSlotTyped, SaveMoves
  <2>4. (\E k \in Keys : \E v \in PageMaySet(k) : \E out \in Outcomes :
          SaveAs(Set(k, v), out)) => Saved
    BY <1>0, <2>2, SetTyped, SaveMoves
  <2>5. QED
    BY Zenon, <2>1, <2>3, <2>4 DEF Kept
<1>5. CASE PollEnd
  BY Zenon, <1>5 DEF PollEnd, Kept
<1>6. QED
  BY Zenon, <1>1, <1>2, <1>3, <1>4, <1>5 DEF Poll

(***************************************************************************)
(* The settings a save may be writing when power goes are typed.           *)
(***************************************************************************)
LEMMA ToSaveTyped ==
  ASSUME Typed(settings), NEW s \in ToSave
  PROVE  Typed(s)
<1>1. s \in SetOne \/ s \in SetTwo
  BY Zenon DEF ToSave
<1>2. CASE s \in SetOne
  <2>1. PICK k \in Keys : s \in {Set(k, v) : v \in Values(k)}
    BY Zenon, <1>2 DEF SetOne
  <2>2. PICK v \in Values(k) : s = Set(k, v)
    BY Zenon, <2>1
  <2>3. QED
    BY <2>2, SetTyped
<1>3. CASE s \in SetTwo
  <2>1. \E k \in Slots : \E v, w \in Words \cup {Unset} : s = SetSlot(k, v, w)
    BY <1>3 DEF SetTwo
  <2>2. QED
    BY Zenon, <2>1, SetSlotTyped
<1>4. QED
  BY Zenon, <1>1, <1>2, <1>3

(***************************************************************************)
(* A line edited, added or removed leaves a file.                          *)
(***************************************************************************)
LEMMA EditTyped ==
  ASSUME file \in Files, NEW k \in Keys
  PROVE  /\ \A v \in Values(k) :
              [j \in DOMAIN file \cup {k} |-> IF j = k THEN v ELSE file[j]] \in Files
         /\ [j \in DOMAIN file \ {k} |-> file[j]] \in Files
<1>1. /\ DOMAIN file \subseteq Keys
      /\ \A j \in DOMAIN file : file[j] \in Values(j) /\ file[j] \in AnyValue
  BY FileElim
<1>2. ASSUME NEW v \in Values(k)
      PROVE  [j \in DOMAIN file \cup {k} |-> IF j = k THEN v ELSE file[j]] \in Files
  <2> DEFINE D == DOMAIN file \cup {k}
             f == [j \in D |-> IF j = k THEN v ELSE file[j]]
  <2>1. v \in AnyValue
    BY KeysApart
  <2>2. f \in [D -> AnyValue]
    BY <1>1, <2>1
  <2>3. \A j \in D : f[j] \in Values(j)
    BY <1>1
  <2>4. D \in SUBSET Keys
    BY <1>1
  <2>5. QED
    BY <2>2, <2>3, <2>4, FileIntro
<1>3. [j \in DOMAIN file \ {k} |-> file[j]] \in Files
  <2> DEFINE D == DOMAIN file \ {k}
             f == [j \in D |-> file[j]]
  <2>1. f \in [D -> AnyValue] /\ \A j \in D : f[j] \in Values(j)
    BY <1>1
  <2>2. D \in SUBSET Keys
    BY <1>1
  <2>3. QED
    BY <2>1, <2>2, FileIntro
<1>4. QED
  BY <1>2, <1>3

(***************************************************************************)
(* Clock, card and power.                                                  *)
(***************************************************************************)
LEMMA WorldMoves == DataOK /\ World => Kept \/ Lost \/ Edited
<1> SUFFICES ASSUME DataOK, World PROVE Kept \/ Lost \/ Edited
  OBVIOUS
<1>0. Typed(settings) /\ file \in Files
  BY DEF DataOK, Typed
<1>1. CASE Tick
  BY Zenon, <1>1 DEF Tick, Kept
<1>2. CASE Wrap
  BY Zenon, <1>2 DEF Wrap, Kept
<1>3. CASE LogWriteFails
  BY Zenon, <1>3 DEF LogWriteFails, Kept
<1>4. CASE PowerCut
  BY Zenon, <1>0, <1>4 DEF PowerCut, Down, Lost
<1>5. CASE CutInSave
  <2>1. PICK s \in ToSave : file' \in Remains(s)
    BY Zenon, <1>5 DEF CutInSave
  <2>2. Typed(s)
    BY <1>0, ToSaveTyped
  <2>3. file' \in Files
    BY <2>1, <2>2, RemainsTyped
  <2>4. QED
    BY Zenon, <1>5, <2>3 DEF CutInSave, Down, Lost
<1>6. CASE EditCard
  <2>1. PICK k \in Keys :
          \/ \E v \in Values(k) :
               file' = [j \in DOMAIN file \cup {k} |-> IF j = k THEN v ELSE file[j]]
          \/ file' = [j \in DOMAIN file \ {k} |-> file[j]]
    BY Zenon, <1>6 DEF EditCard
  <2>2. file' \in Files
    BY <1>0, <2>1, EditTyped
  <2>3. QED
    BY Zenon, <1>6, <2>2 DEF EditCard, Edited
<1>7. QED
  BY Zenon, <1>1, <1>2, <1>3, <1>4, <1>5, <1>6 DEF World

(***************************************************************************)
(* Together.                                                               *)
(***************************************************************************)
LEMMA StepMoves ==
  DataOK /\ [Next]_vars => Kept \/ Saved \/ Reverted \/ Lost \/ Read \/ Edited
<1>1. UNCHANGED vars => Kept
  BY Zenon DEF vars, Kept
<1>2. QED
  BY Zenon, <1>1, BootMoves, CommandMoves, PollMoves, WorldMoves DEF Next
-----------------------------------------------------------------------------
(* Type correctness.                                                       *)

(***************************************************************************)
(* Settings and file stay typed.                                           *)
(***************************************************************************)
LEMMA SettingsTyped ==
  DataOK /\ [Next]_vars => Typed(settings)' /\ file' \in Files
<1> SUFFICES ASSUME DataOK, [Next]_vars PROVE Typed(settings)' /\ file' \in Files
  OBVIOUS
<1>0. Typed(settings) /\ file \in Files
  BY DEF DataOK, Typed
<1>1. CASE Kept
  BY <1>0, <1>1 DEF Kept, Typed
<1>2. CASE Saved
  <2>1. PICK s : Typed(s) /\ \E out \in Results : SaveAs(s, out)
    BY Zenon, <1>2 DEF Saved
  <2>2. Written(s) \in Files
    BY <2>1, PartTyped DEF Written
  <2>3. settings' = s /\ (file' = Written(s) \/ file' \in Remains(s) \/ file' = file)
    BY Zenon, <2>1 DEF SaveAs
  <2>4. QED
    BY <1>0, <2>1, <2>2, <2>3, RemainsTyped DEF Typed
<1>3. CASE Reverted
  <2>1. Typed(Set("bootap", Unset))
    BY <1>0, KeysApart, SetTyped
  <2>2. QED
    BY <1>0, <1>3, <2>1 DEF Reverted, Typed
<1>4. CASE Lost
  BY <1>4, FreshTyped DEF Lost, Typed
<1>5. CASE Read
  <2>1. Typed(Loaded(file))
    BY <1>0, LoadedTyped
  <2>2. QED
    BY <1>0, <1>5, <2>1 DEF Read, Typed
<1>6. CASE Edited
  BY <1>0, <1>6 DEF Edited, Typed
<1>7. QED
  BY <1>1, <1>2, <1>3, <1>4, <1>5, <1>6, StepMoves

(***************************************************************************)
(* The enumerations do.                                                    *)
(***************************************************************************)
LEMMA PhasesTyped ==
  DataOK /\ [Next]_vars =>
    /\ step' \in {"down", "load", "init", "ap", "loop"}
    /\ http' \in {"idle", "read", "respond"} /\ reboot' \in {"none", "armed", "due"}
    /\ asked' \in Requests
<1> USE DEF DataOK, Requests
<1>1. CASE Boot
  BY <1>1 DEF Boot, BootMount, BootLoad, BootWeb, BootAp, ClearBootap, web
<1>2. CASE SerialSet \/ SerialSave \/ ApButton
  BY <1>2 DEF SerialSet, SerialSave, ApButton, Withdraw, Arm, web
<1>3. CASE Poll
  BY <1>3 DEF Poll, PollReboot, Down, PollNetDown, TakeDown, PollIdle, PollRoute,
              Arm, PollEnd
<1>4. CASE World
  BY <1>4 DEF World, Tick, Wrap, LogWriteFails, PowerCut, CutInSave, EditCard,
              Down, web
<1>5. CASE UNCHANGED vars
  BY <1>5 DEF vars, web
<1>6. QED
  BY <1>1, <1>2, <1>3, <1>4, <1>5 DEF Next

(***************************************************************************)
(* And so do the Booleans.                                                 *)
(***************************************************************************)
LEMMA FlagsTyped ==
  FlagsOK /\ [Next]_vars =>
    /\ sdOk' \in BOOLEAN /\ server' \in BOOLEAN /\ serverUp' \in BOOLEAN
    /\ apActive' \in BOOLEAN
<1> SUFFICES ASSUME FlagsOK, [Next]_vars
             PROVE  /\ sdOk' \in BOOLEAN /\ server' \in BOOLEAN /\ serverUp' \in BOOLEAN
                    /\ apActive' \in BOOLEAN
  OBVIOUS
<1>1. CASE Boot
  BY Zenon, <1>1 DEF Boot, BootMount, BootLoad, BootWeb, BootAp, web, FlagsOK
<1>2. CASE SerialSet \/ SerialSave \/ ApButton
  BY Zenon, <1>2 DEF SerialSet, SerialSave, ApButton, web, FlagsOK
<1>3. CASE Poll
  BY Zenon, <1>3 DEF Poll, PollReboot, Down, PollNetDown, TakeDown, PollIdle,
                     PollRoute, PollEnd, FlagsOK
<1>4. CASE World
  BY Zenon, <1>4 DEF World, Tick, Wrap, LogWriteFails, PowerCut, CutInSave, EditCard,
                     Down, web, FlagsOK
<1>5. CASE UNCHANGED vars
  BY Zenon, <1>5 DEF vars, web, FlagsOK
<1>6. QED
  BY Zenon, <1>1, <1>2, <1>3, <1>4, <1>5 DEF Next

(***************************************************************************)
(* reported and torn too.                                                  *)
(***************************************************************************)
LEMMA StoredTyped ==
  DataOK /\ FlagsOK /\ [Next]_vars => reported' \in BOOLEAN /\ torn' \in BOOLEAN
<1> SUFFICES ASSUME DataOK, FlagsOK, [Next]_vars
             PROVE  reported' \in BOOLEAN /\ torn' \in BOOLEAN
  OBVIOUS
<1>1. Saved => reported' \in BOOLEAN /\ torn' \in BOOLEAN
  BY Zenon DEF Saved, SaveAs
<1>2. Kept \/ Reverted \/ Lost \/ Read \/ Edited
        => reported' \in BOOLEAN /\ torn' \in BOOLEAN
  BY Zenon DEF FlagsOK, Kept, Reverted, Lost, Read, Edited
<1>3. QED
  BY Zenon, <1>1, <1>2, StepMoves

(***************************************************************************)
(* The configuration in memory and the file on the card hold, for every    *)
(* key, a value that key can have, whatever was set, saved, lost or edited *)
(* on a laptop, and every step and phase stays in its enumeration.         *)
(***************************************************************************)
THEOREM TypeCorrect == Spec => []TypeOK
<1>1. Init => TypeOK
  <2>1. Init => DataOK
    BY FreshTyped DEF Init, DataOK, Typed, Requests
  <2>2. Init => FlagsOK
    BY Zenon DEF Init, FlagsOK
  <2>3. QED
    BY <2>1, <2>2 DEF TypeOK
<1>2. TypeOK /\ [Next]_vars => TypeOK'
  <2> SUFFICES ASSUME DataOK, FlagsOK, [Next]_vars PROVE DataOK' /\ FlagsOK'
    BY DEF TypeOK
  <2>1. DataOK'
    BY SettingsTyped, PhasesTyped DEF DataOK, Typed
  <2>2. FlagsOK'
    BY Zenon, StoredTyped, FlagsTyped DEF FlagsOK
  <2>3. QED
    BY <2>1, <2>2
<1>3. QED
  BY <1>1, <1>2, PTL DEF Spec

-----------------------------------------------------------------------------
(* What is stored.                                                         *)

(***************************************************************************)
(* StoredIsBooted in the words of these proofs.                            *)
(***************************************************************************)
LEMMA StoredAgrees == StoredIsBooted <=> (Stored => Agrees(settings, file))
BY DEF StoredIsBooted, Agrees

(***************************************************************************)
(* StoredInv is inductive.                                                 *)
(***************************************************************************)
LEMMA StoredStep ==
  DataOK /\ StoredInv /\ [Next]_vars => StoredInv'
<1> SUFFICES ASSUME DataOK, StoredInv, [Next]_vars PROVE StoredInv'
  OBVIOUS
<1>0. /\ Stored => Agrees(settings, file)
      /\ step = "down" => ~reported
  BY Zenon, StoredAgrees DEF StoredInv
<1>1. Stored' => Agrees(settings, file)'
  <2>1. CASE Kept
    BY <1>0, <2>1 DEF Kept, Stored, Agrees, Loaded, Fresh
  <2>2. CASE Saved
    <3>1. PICK s : Typed(s) /\ \E out \in Results : SaveAs(s, out)
      BY Zenon, <2>2 DEF Saved
    <3>2. Stored' => settings' = s /\ file' = Written(s)
      BY <3>1 DEF SaveAs, Stored
    <3>3. Agrees(s, Written(s))
      BY <3>1, RoundTrip
    <3>4. QED
      BY <3>2, <3>3 DEF Agrees, Loaded, Fresh
  <2>3. CASE Reverted
    <3>1. Stored' => Stored /\ settings["bootap"] = Unset
      BY Zenon, <2>3 DEF Reverted, Stored
    <3>2. settings["bootap"] = Unset => settings' = settings
      BY <2>3 DEF Reverted, Set, DataOK
    <3>3. file' = file
      BY <2>3 DEF Reverted
    <3>4. QED
      BY <1>0, <3>1, <3>2, <3>3 DEF Agrees, Loaded, Fresh
  <2>4. CASE Lost
    BY <2>4 DEF Lost, Stored
  <2>5. CASE Read
    BY <2>5 DEF Read, Agrees, Loaded, Fresh
  <2>6. CASE Edited
    BY <1>0, <2>6 DEF Edited, Stored
  <2>7. QED
    BY <2>1, <2>2, <2>3, <2>4, <2>5, <2>6, StepMoves
<1>2. step' = "down" => ~reported'
  <2>1. CASE Boot
    BY <2>1 DEF Boot, BootMount, BootLoad, BootWeb, BootAp
  <2>2. CASE SerialSet \/ SerialSave \/ ApButton
    BY <2>2 DEF SerialSet, SerialSave, ApButton
  <2>3. CASE Poll
    BY <2>3 DEF Poll, PollReboot, Polls, Serves, Down, PollNetDown, PollIdle,
                PollRoute, PollEnd
  <2>4. CASE World
    BY <1>0, <2>4 DEF World, Tick, Wrap, LogWriteFails, PowerCut, CutInSave,
                      EditCard, Down
  <2>5. CASE UNCHANGED vars
    BY <1>0, <2>5 DEF vars
  <2>6. QED
    BY <2>1, <2>2, <2>3, <2>4, <2>5 DEF Next
<1>3. QED
  <2>1. StoredIsBooted'
    BY <1>1 DEF StoredIsBooted, Stored, Agrees, Loaded, Fresh
  <2>2. QED
    BY <1>2, <2>1 DEF StoredInv

(***************************************************************************)
(* Whatever is set by the serial menu, the page, setup() or the AP button: *)
(* what is reported as saved is what the next boot loads, unless the card  *)
(* failed in the middle of that save, and but for a cleared slot that is   *)
(* compiled in and what rides on a cleared slot.                           *)
(***************************************************************************)
THEOREM SavedIsBooted == Spec => []StoredIsBooted
<1>1. Init => StoredInv
  BY DEF Init, StoredInv, StoredIsBooted, Stored
<1>2. TypeOK /\ StoredInv /\ [Next]_vars => StoredInv'
  BY StoredStep DEF TypeOK
<1>3. StoredInv => StoredIsBooted
  BY DEF StoredInv
<1>4. QED
  BY <1>1, <1>2, <1>3, TypeCorrect, PTL DEF Spec

-----------------------------------------------------------------------------
(* The one-shot flag.                                                      *)

Bootap(f) == Loaded(f)["bootap"]

(***************************************************************************)
(* A save decides what the next boot finds of bootap, or leaves it.        *)
(***************************************************************************)
LEMMA SaveBootap ==
  ASSUME NEW s, Typed(s), NEW out \in Outcomes, SaveAs(s, out)
  PROVE  /\ settings' = s
         /\ \/ Bootap(file') \in {s["bootap"], Unset}
            \/ out = "failed" /\ Bootap(file') = Bootap(file)
<1>1. settings' = s
  BY Zenon DEF SaveAs
<1>2. \/ out = "written" /\ file' = Written(s)
      \/ out = "torn" /\ file' \in Remains(s)
      \/ out = "failed" /\ file' = file
  BY Zenon DEF SaveAs
<1>3. Bootap(Written(s)) = s["bootap"]
  BY RoundTrip, BootapKept DEF Bootap
<1>4. \A f \in Remains(s) : Bootap(f) \in {s["bootap"], Unset}
  BY FreshTyped, KeysApart DEF Remains, Bootap, Loaded
<1>5. QED
  BY <1>1, <1>2, <1>3, <1>4

(***************************************************************************)
(* Setting another key leaves bootap, setting it sets it.                  *)
(***************************************************************************)
LEMMA SetBootap ==
  ASSUME Typed(settings), NEW k \in Keys, NEW v
  PROVE  Set(k, v)["bootap"] = IF k = "bootap" THEN v ELSE settings["bootap"]
BY KeysApart DEF Typed, Set

(***************************************************************************)
(* RequestInv through setup().                                             *)
(***************************************************************************)
LEMMA BootRequest == DataOK /\ RequestInv /\ Boot => RequestInv'
<1> SUFFICES ASSUME DataOK, RequestInv, Boot PROVE RequestInv'
  OBVIOUS
<1> USE DEF Bootap
<1>0. /\ Typed(settings) /\ file \in Files
      /\ step = "down" => settings["bootap"] = Unset
      /\ Bootap(file) = On => asked # "no"
      /\ settings["bootap"] = On => asked # "no"
      /\ apActive => step = "loop" /\ (settings["bootap"] = On => asked = "yes")
  BY Zenon DEF DataOK, Typed, RequestInv
<1> SUFFICES /\ step' # "down"
             /\ Bootap(file') = On => asked' # "no"
             /\ settings'["bootap"] = On => asked' # "no"
             /\ apActive' => step' = "loop" /\ settings'["bootap"] # On
  BY DEF RequestInv, Loaded, Fresh
<1>1. CASE BootMount
  BY <1>0, <1>1 DEF BootMount, web
<1>2. CASE BootLoad
  BY <1>0, <1>2 DEF BootLoad, web
<1>3. CASE BootWeb
  <2>1. ~apActive' /\ step' # "down"
    BY <1>0, <1>3 DEF BootWeb
  <2>2. CASE settings["webenable"] = Unset
    BY <1>0, <1>3, <2>1, <2>2 DEF BootWeb
  <2>3. CASE settings["webenable"] # Unset /\ UNCHANGED <<settings, file>>
    BY <1>0, <1>3, <2>1, <2>3 DEF BootWeb
  <2>4. CASE \E pw \in Passwords : \E out \in Outcomes :
               SaveAs(Set("adminpass", pw), out) /\ UNCHANGED asked
    <3>1. PICK pw \in Passwords : \E out \in Outcomes :
               SaveAs(Set("adminpass", pw), out) /\ UNCHANGED asked
      BY Zenon, <2>4
    <3>2. PICK out \in Outcomes : SaveAs(Set("adminpass", pw), out) /\ UNCHANGED asked
      BY Zenon, <3>1
    <3>3. Typed(Set("adminpass", pw))
      BY <1>0, KeysApart, SetTyped
    <3>4. Set("adminpass", pw)["bootap"] = settings["bootap"]
      BY <1>0, KeysApart, SetBootap
    <3>5. /\ settings'["bootap"] = settings["bootap"]
          /\ Bootap(file') \in {settings["bootap"], Unset, Bootap(file)}
      <4>1. /\ settings' = Set("adminpass", pw)
            /\ \/ Bootap(file') \in {Set("adminpass", pw)["bootap"], Unset}
               \/ Bootap(file') = Bootap(file)
        BY Zenon, <3>2, <3>3, SaveBootap
      <4>2. QED
        BY <3>4, <4>1
    <3>6. QED
      BY <1>0, <2>1, <3>2, <3>5, KeysApart
  <2>5. QED
    BY Zenon, <1>3, <2>2, <2>3, <2>4 DEF BootWeb
<1>4. CASE BootAp
  <2>1. step = "ap" /\ step' = "loop"
    BY <1>4 DEF BootAp
  <2>2. CASE settings["bootap"] = On
    <3>1. PICK out \in Outcomes : /\ SaveAs(Set("bootap", Unset), out)
                                 /\ asked' = IF out = "failed" THEN "slipped" ELSE "no"
      BY Zenon, <1>4, <2>2 DEF BootAp, ClearBootap
    <3>2. Typed(Set("bootap", Unset)) /\ Set("bootap", Unset)["bootap"] = Unset
      BY <1>0, KeysApart, SetTyped, SetBootap
    <3>3. /\ settings'["bootap"] = Unset
          /\ Bootap(file') = Unset \/ out = "failed"
      BY <3>1, <3>2, SaveBootap
    <3>4. QED
      BY <2>1, <3>1, <3>3, KeysApart
  <2>3. CASE settings["bootap"] # On
    BY <1>0, <1>4, <2>1, <2>3 DEF BootAp
  <2>4. QED
    BY <2>2, <2>3
<1>5. QED
  BY Zenon, <1>1, <1>2, <1>3, <1>4 DEF Boot

(***************************************************************************)
(* RequestInv through the serial menu and the AP button.                   *)
(***************************************************************************)
LEMMA CommandRequest ==
  DataOK /\ RequestInv /\ (SerialSet \/ SerialSave \/ ApButton) => RequestInv'
<1> SUFFICES ASSUME DataOK, RequestInv, SerialSet \/ SerialSave \/ ApButton
             PROVE  RequestInv'
  OBVIOUS
<1> USE DEF Bootap
<1>0. /\ Typed(settings) /\ file \in Files
      /\ Bootap(file) = On => asked # "no"
      /\ settings["bootap"] = On => asked # "no"
      /\ apActive => step = "loop" /\ (settings["bootap"] = On => asked = "yes")
  BY Zenon DEF DataOK, Typed, RequestInv
<1>1. step = "loop" /\ step' = "loop" /\ apActive' = apActive
  BY DEF SerialSet, SerialSave, ApButton, web
<1> SUFFICES /\ Bootap(file') = On => asked' # "no"
             /\ settings'["bootap"] = On => asked' # "no"
             /\ apActive /\ settings'["bootap"] = On => asked' = "yes"
  BY <1>1 DEF RequestInv, Loaded, Fresh
<1>2. CASE SerialSet
  <2>1. PICK k \in Keys : \E v \in Values(k) : \E out \in Outcomes :
              /\ SaveAs(Set(k, v), out)
              /\ asked' = IF k # "bootap" \/ (v = Unset /\ out = "failed") THEN asked
                          ELSE IF v = On THEN "yes" ELSE "no"
    BY Zenon, <1>2 DEF SerialSet
  <2>2. PICK v \in Values(k) : \E out \in Outcomes :
              /\ SaveAs(Set(k, v), out)
              /\ asked' = IF k # "bootap" \/ (v = Unset /\ out = "failed") THEN asked
                          ELSE IF v = On THEN "yes" ELSE "no"
    BY Zenon, <2>1
  <2>3. PICK out \in Outcomes :
              /\ SaveAs(Set(k, v), out)
              /\ asked' = IF k # "bootap" \/ (v = Unset /\ out = "failed") THEN asked
                          ELSE IF v = On THEN "yes" ELSE "no"
    BY Zenon, <2>2
  <2>4. /\ settings' = Set(k, v)
        /\ \/ Bootap(file') \in {Set(k, v)["bootap"], Unset}
           \/ out = "failed" /\ Bootap(file') = Bootap(file)
    BY Zenon, <1>0, <2>3, SetTyped, SaveBootap
  <2>5. Set(k, v)["bootap"] = IF k = "bootap" THEN v ELSE settings["bootap"]
    BY <1>0, SetBootap
  <2>6. k = "bootap" => v \in {On, Unset}
    BY KeysApart DEF Values, Settable, Flags
  <2>7. CASE k # "bootap"
    BY <1>0, <2>3, <2>4, <2>5, <2>7, KeysApart
  <2>8. CASE k = "bootap"
    BY <1>0, <2>3, <2>4, <2>5, <2>6, <2>8, KeysApart
  <2>9. QED
    BY <2>7, <2>8
<1>3. CASE SerialSave
  <2>1. PICK out \in Outcomes : SaveAs(settings, out)
    BY Zenon, <1>3 DEF SerialSave
  <2>2. /\ settings' = settings
        /\ \/ Bootap(file') \in {settings["bootap"], Unset}
           \/ Bootap(file') = Bootap(file)
    BY Zenon, <1>0, <2>1, SaveBootap
  <2>3. QED
    BY <1>0, <1>3, <2>2, KeysApart DEF SerialSave
<1>4. CASE ApButton
  <2>1. CASE UNCHANGED <<settings, file, reported, torn, asked>>
    BY <1>0, <2>1
  <2>2. CASE asked' = "yes"
    BY <2>2
  <2>3. CASE Withdraw
    <3>1. Set("bootap", Unset)["bootap"] = Unset
      BY <1>0, KeysApart, SetBootap
    <3>2. QED
      BY <1>0, <2>3, <3>1, KeysApart DEF Withdraw
  <2>4. QED
    BY <1>4, <2>1, <2>2, <2>3 DEF ApButton
<1>5. QED
  BY <1>2, <1>3, <1>4

(***************************************************************************)
(* RequestInv through webConfigPoll().                                     *)
(***************************************************************************)
LEMMA PollRequest == DataOK /\ RequestInv /\ Poll => RequestInv'
<1> SUFFICES ASSUME DataOK, RequestInv, Poll PROVE RequestInv'
  OBVIOUS
<1> USE DEF Bootap
<1>0. /\ Typed(settings) /\ file \in Files
      /\ Bootap(file) = On => asked # "no"
      /\ settings["bootap"] = On => asked # "no"
      /\ apActive => step = "loop" /\ (settings["bootap"] = On => asked = "yes")
  BY Zenon DEF DataOK, Typed, RequestInv
<1>1. CASE PollReboot
  <2>1. /\ settings'["bootap"] = Unset /\ ~apActive'
        /\ file' = file /\ asked' = asked
    BY <1>1, FreshTyped DEF PollReboot, Down
  <2>2. QED
    BY <1>0, <2>1, KeysApart DEF RequestInv, Loaded, Fresh
<1>2. CASE PollNetDown \/ PollIdle \/ PollEnd
  BY <1>0, <1>2 DEF PollNetDown, PollIdle, PollEnd, RequestInv, Serves, Polls,
                    Loaded, Fresh
<1>3. CASE PollRoute
  <2>1. /\ step = "loop" /\ step' = "loop" /\ apActive' = apActive /\ asked' = asked
    BY <1>3 DEF PollRoute, Serves, Polls
  <2>2. CASE \E k \in Keys : \E v \in PageMaySet(k) : \E out \in Outcomes :
               SaveAs(Set(k, v), out)
    <3>1. PICK k \in Keys : \E v \in PageMaySet(k) : \E out \in Outcomes :
               SaveAs(Set(k, v), out)
      BY Zenon, <2>2
    <3>2. PICK v \in PageMaySet(k) : \E out \in Outcomes : SaveAs(Set(k, v), out)
      BY Zenon, <3>1
    <3>3. v \in Values(k) /\ k # "bootap"
      BY KeysApart DEF PageMaySet, Flags
    <3>4. Typed(Set(k, v)) /\ Set(k, v)["bootap"] = settings["bootap"]
      BY <1>0, <3>3, SetTyped, SetBootap
    <3>5. /\ settings'["bootap"] = settings["bootap"]
          /\ Bootap(file') \in {settings["bootap"], Unset, Bootap(file)}
      <4>1. PICK out \in Outcomes : SaveAs(Set(k, v), out)
        BY Zenon, <3>2
      <4>2. /\ settings' = Set(k, v)
            /\ \/ Bootap(file') \in {Set(k, v)["bootap"], Unset}
               \/ Bootap(file') = Bootap(file)
        BY Zenon, <4>1, <3>4, SaveBootap
      <4>3. QED
        BY <3>4, <4>2
    <3>6. QED
      BY <1>0, <2>1, <3>5, KeysApart DEF RequestInv, Loaded, Fresh
  <2>3. CASE \E k \in Slots : \E v, w \in Words \cup {Unset} : \E out \in Outcomes :
               SaveAs(SetSlot(k, v, w), out)
    <3>1. PICK k \in Slots : \E v, w \in Words \cup {Unset} : \E out \in Outcomes :
               SaveAs(SetSlot(k, v, w), out)
      BY Zenon, <2>3
    <3>2. PICK v \in Words \cup {Unset} : \E w \in Words \cup {Unset} :
               \E out \in Outcomes : SaveAs(SetSlot(k, v, w), out)
      BY Zenon, <3>1
    <3>3. PICK w \in Words \cup {Unset} : \E out \in Outcomes :
               SaveAs(SetSlot(k, v, w), out)
      BY Zenon, <3>2
    <3>4. Typed(SetSlot(k, v, w)) /\ SetSlot(k, v, w)["bootap"] = settings["bootap"]
      BY Zenon, <1>0, SetSlotTyped
    <3>5. /\ settings' = SetSlot(k, v, w)
          /\ \/ Bootap(file') \in {SetSlot(k, v, w)["bootap"], Unset}
             \/ Bootap(file') = Bootap(file)
      BY Zenon, <3>3, <3>4, SaveBootap
    <3>6. QED
      BY <1>0, <2>1, <3>4, <3>5, KeysApart DEF RequestInv, Loaded, Fresh
  <2>4. CASE UNCHANGED <<settings, file>>
    BY <1>0, <2>1, <2>4 DEF RequestInv, Loaded, Fresh
  <2>5. QED
    BY Zenon, <1>3, <2>2, <2>3, <2>4 DEF PollRoute
<1>4. QED
  BY Zenon, <1>1, <1>2, <1>3 DEF Poll

(***************************************************************************)
(* RequestInv through clock, card and power.                               *)
(***************************************************************************)
LEMMA WorldRequest == DataOK /\ RequestInv /\ World => RequestInv'
<1> SUFFICES ASSUME DataOK, RequestInv, World PROVE RequestInv'
  OBVIOUS
<1> USE DEF Bootap
<1>0. /\ Typed(settings) /\ file \in Files
      /\ step = "down" => settings["bootap"] = Unset
      /\ Bootap(file) = On => asked # "no"
      /\ settings["bootap"] = On => asked # "no"
      /\ apActive => step = "loop" /\ (settings["bootap"] = On => asked = "yes")
  BY Zenon DEF DataOK, Typed, RequestInv
<1>1. CASE Tick \/ Wrap \/ LogWriteFails
  BY <1>0, <1>1 DEF Tick, Wrap, LogWriteFails, web, RequestInv, Loaded, Fresh
<1>2. CASE PowerCut \/ CutInSave
  <2>1. settings'["bootap"] = Unset /\ ~apActive'
    BY <1>2, FreshTyped DEF PowerCut, CutInSave, Down
  <2>2. Bootap(file') = On => asked' # "no"
    <3>1. CASE PowerCut
      BY <1>0, <3>1 DEF PowerCut
    <3>2. CASE CutInSave
      BY <1>0, <3>2 DEF CutInSave
    <3>3. QED
      BY <1>2, <3>1, <3>2
  <2>3. QED
    BY <2>1, <2>2, KeysApart DEF RequestInv, Loaded, Fresh
<1>3. CASE EditCard
  <2>1. /\ step = "down" /\ step' = "down" /\ settings' = settings
        /\ ~apActive /\ apActive' = apActive
    BY <1>0, <1>3 DEF EditCard, web
  <2>2. PICK k \in Keys :
          /\ \/ \E v \in Values(k) : file' = [j \in DOMAIN file \cup {k} |->
                                               IF j = k THEN v ELSE file[j]]
             \/ file' = [j \in DOMAIN file \ {k} |-> file[j]]
          /\ asked' = IF k # "bootap" THEN asked
                      ELSE IF Loaded(file')["bootap"] = On THEN "yes" ELSE "no"
    BY Zenon, <1>3 DEF EditCard
  <2>3. CASE k # "bootap"
    <3>1. Bootap(file') = Bootap(file)
      BY <2>2, <2>3, KeysApart DEF Loaded
    <3>2. QED
      BY <1>0, <2>1, <2>2, <2>3, <3>1, KeysApart DEF RequestInv, Loaded, Fresh
  <2>4. CASE k = "bootap"
    <3>1. Bootap(file') = On => asked' # "no"
      BY <2>2, <2>4
    <3>2. QED
      BY <1>0, <2>1, <3>1, KeysApart DEF RequestInv, Loaded, Fresh
  <2>5. QED
    BY <2>3, <2>4
<1>4. QED
  BY Zenon, <1>1, <1>2, <1>3 DEF World

(***************************************************************************)
(* However saves fail, power goes and the card is edited: a bootap that is *)
(* known to be on the card is a request of the user's that no boot has     *)
(* granted, or one that a boot granted whose save of the cleared flag      *)
(* failed; and in AP mode one that was made there.                         *)
(***************************************************************************)
THEOREM FlagMeansRequest == Spec => []FlagIsARequest
<1>1. Init => RequestInv
  BY FreshTyped, KeysApart DEF Init, RequestInv
<1>2. TypeOK /\ RequestInv /\ [Next]_vars => RequestInv'
  <2>1. RequestInv /\ UNCHANGED vars => RequestInv'
    BY DEF vars, web, RequestInv, Loaded, Fresh
  <2>2. QED
    BY Zenon, <2>1, BootRequest, CommandRequest, PollRequest, WorldRequest
       DEF TypeOK, Next
<1>3. TypeOK /\ StoredIsBooted /\ RequestInv => FlagIsARequest
  <2> SUFFICES ASSUME TypeOK, StoredIsBooted, RequestInv, Stored,
                      Loaded(file)["bootap"] = On
               PROVE  \/ asked = "yes"
                      \/ asked \in {"missed", "slipped"} /\ ~apActive
    BY DEF FlagIsARequest
  <2>1. settings["bootap"] = On
    BY StoredAgrees, BootapKept
  <2>2. QED
    BY <2>1 DEF RequestInv, TypeOK, DataOK, Requests
<1>4. QED
  BY <1>1, <1>2, <1>3, TypeCorrect, SavedIsBooted, PTL DEF Spec
=============================================================================
