-------------------------- MODULE HwcDisplayProofs --------------------------
(***************************************************************************)
(* Proof that the staged mode of HwcDisplay is consistent in every        *)
(* reachable state, for every set of configs, layers and z-orders.        *)
(*                                                                         *)
(* The staged-mode invariant concerns activeConfig, stagedMode and hwMode *)
(* only.  The type of the whole state is proved separately: the           *)
(* composition picks least elements of sets of naturals, which exist      *)
(* because < is well founded on Nat (WFMin of WellFoundedInduction).      *)
(***************************************************************************)
EXTENDS HwcDisplay, WellFoundedInduction, TLAPS

(* The types of the mode variables.                                        *)
ModesOK ==
  /\ activeConfig \in ConfigIds
  /\ stagedMode \in Modes \cup {NoMode}
  /\ hwMode \in Modes \cup {BootMode}

IInv == ModesOK /\ StagedModeConsistent

(* The mode variables a step leaves alone.                                 *)
ModesUnchanged == UNCHANGED <<activeConfig, stagedMode, hwMode>>

-----------------------------------------------------------------------------
LEMMA InitIInv == Init => IInv
<1> SUFFICES ASSUME Init PROVE IInv
  OBVIOUS
<1>1. ConfigMode[PreferredConfig] \in Modes
  BY DisplayAssumption DEF Modes
<1>. QED
  BY <1>1, DisplayAssumption DEF Init, IInv, ModesOK, StagedModeConsistent

(* A step that leaves the mode variables alone preserves the invariant.   *)
LEMMA UnchangedIInv == IInv /\ ModesUnchanged => IInv'
  BY DEF IInv, ModesOK, StagedModeConsistent, ModesUnchanged

(* Every step other than SetActiveConfig and PresentDisplay leaves the    *)
(* mode variables alone: the test-only commit of ValidateDisplay among    *)
(* them, since only a real commit touches the staged mode.                *)
LEMMA CreateLayerModes == CreateLayer => ModesUnchanged
  BY DEF CreateLayer, ModesUnchanged

LEMMA DestroyLayerModes == ASSUME NEW h PROVE DestroyLayer(h) => ModesUnchanged
  BY DEF DestroyLayer, ModesUnchanged

LEMMA SetLayerStateModes ==
  ASSUME NEW h, NEW z, NEW t PROVE SetLayerState(h, z, t) => ModesUnchanged
  BY DEF SetLayerState, ModesUnchanged

LEMMA ValidateDisplayModes == ValidateDisplay => ModesUnchanged
<1> SUFFICES ASSUME ValidateDisplay PROVE ModesUnchanged
  OBVIOUS
<1>1. UNCHANGED <<stagedMode, hwMode>>
  BY DEF ValidateDisplay, CommitSucceeded
<1>2. UNCHANGED activeConfig
  BY DEF ValidateDisplay
<1>. QED
  BY <1>1, <1>2 DEF ModesUnchanged

LEMMA AcceptDisplayChangesModes == AcceptDisplayChanges => ModesUnchanged
  BY DEF AcceptDisplayChanges, ModesUnchanged

LEMMA SetPowerModeModes == ASSUME NEW mode PROVE SetPowerMode(mode) => ModesUnchanged
  BY DEF SetPowerMode, ModesUnchanged

(* SetActiveConfig stages the mode of the config it makes active.          *)
LEMMA SetActiveConfigIInv ==
  ASSUME IInv, NEW cfg, SetActiveConfig(cfg)
  PROVE  IInv'
<1>1. cfg \in ConfigIds /\ activeConfig' = cfg /\ stagedMode' = ConfigMode[cfg]
      /\ hwMode' = hwMode
  BY DEF SetActiveConfig
<1>2. ConfigMode[cfg] \in Modes
  BY <1>1 DEF Modes
<1>. QED
  BY <1>1, <1>2, DisplayAssumption DEF IInv, ModesOK, StagedModeConsistent

(* PresentDisplay: only a successful real commit touches the modes, and it *)
(* moves the staged mode (the active config's) onto the CRTC.             *)
LEMMA PresentDisplayIInv ==
  ASSUME IInv, PresentDisplay
  PROVE  IInv'
<1>1. UNCHANGED activeConfig
  BY DEF PresentDisplay
<1>2. PICK r \in CompositionResults(ZMapOf(layers)) :
        IF r = "None"
        THEN CommitSucceeded(ZMapOf(layers), FALSE) /\ frameNo' = frameNo + 1
        ELSE UNCHANGED <<hwFrame, hwMode, hwActive, stagedMode, frameNo>>
  BY DEF PresentDisplay
<1>3. CASE r = "None"
  <2>1. stagedMode' = NoMode
        /\ hwMode' = IF stagedMode # NoMode THEN stagedMode ELSE hwMode
    BY <1>2, <1>3 DEF CommitSucceeded
  <2>2. hwMode' = ConfigMode[activeConfig]
    BY <2>1 DEF IInv, StagedModeConsistent
  <2>3. ConfigMode[activeConfig] \in Modes
    BY DEF IInv, ModesOK, Modes
  <2>. QED
    BY <1>1, <2>1, <2>2, <2>3 DEF IInv, ModesOK, StagedModeConsistent
<1>4. CASE r # "None"
  BY <1>1, <1>2, <1>4, UnchangedIInv DEF ModesUnchanged
<1>. QED
  BY <1>3, <1>4

LEMMA NextIInv == IInv /\ [Next]_vars => IInv'
<1> SUFFICES ASSUME IInv, [Next]_vars PROVE IInv'
  OBVIOUS
<1>1. CASE CreateLayer
  BY <1>1, CreateLayerModes, UnchangedIInv
<1>2. CASE \E h \in Handles : DestroyLayer(h)
  BY <1>2, DestroyLayerModes, UnchangedIInv
<1>3. CASE \E h \in Handles, z \in ZOrders, t \in {"Device", "Client"} :
             SetLayerState(h, z, t)
  BY <1>3, SetLayerStateModes, UnchangedIInv
<1>4. CASE ValidateDisplay
  BY <1>4, ValidateDisplayModes, UnchangedIInv
<1>5. CASE AcceptDisplayChanges
  BY <1>5, AcceptDisplayChangesModes, UnchangedIInv
<1>6. CASE \E cfg \in ConfigIds \cup {0} : SetActiveConfig(cfg)
  BY <1>6, SetActiveConfigIInv
<1>7. CASE PresentDisplay
  BY <1>7, PresentDisplayIInv
<1>8. CASE \E mode \in {"Off", "On"} : SetPowerMode(mode)
  BY <1>8, SetPowerModeModes, UnchangedIInv
<1>9. CASE UNCHANGED vars
  BY <1>9, UnchangedIInv DEF vars, ModesUnchanged
<1>. QED
  BY <1>1, <1>2, <1>3, <1>4, <1>5, <1>6, <1>7, <1>8, <1>9 DEF Next

-----------------------------------------------------------------------------
(***************************************************************************)
(* Type correctness.  TypeOK bounds the statistics by MaxPresents, but    *)
(* only totalFrames is guarded by that bound; the other counters move     *)
(* with it, so the inductive invariant adds that none of them passes it.  *)
(***************************************************************************)
CountersBounded ==
  /\ failedPresent <= totalFrames
  /\ frameNo <= totalFrames
  /\ presentErrors <= totalFrames

TInv == TypeOK /\ CountersBounded

(* Least picks an element of a nonempty set of naturals below all others. *)
LEMMA LeastIsLeast ==
  ASSUME NEW S \in SUBSET Nat, S # {}
  PROVE  Least(S) \in S /\ \A y \in S : Least(S) <= y
<1>1. \E x \in S : \A y \in S : ~(<<y, x>> \in OpToRel(<, Nat))
  BY NatLessThanWellFounded, WFMin
<1>2. PICK x \in S : \A y \in S : ~(<<y, x>> \in OpToRel(<, Nat))
  BY <1>1
<1>3. OpToRel(<, Nat) = {ss \in Nat \X Nat : ss[1] < ss[2]}
  BY DEF OpToRel
<1>4. \A y \in S : ~(y < x)
  BY <1>2, <1>3
<1>5. \A y \in S : x <= y
  BY <1>4
<1>. QED
  BY <1>5 DEF Least

(* The z-map CreateComposition builds from well-typed layers is a set of  *)
(* composition entries: each z is a layer's z, each source a live handle  *)
(* or the client layer.                                                   *)
LEMMA ZMapType ==
  ASSUME NEW ls \in [Handles -> Layer \cup {NoLayer}]
  PROVE  ZMapOf(ls) \subseteq Entry
<1>0. Handles \subseteq Nat /\ ZOrders \subseteq Nat
  BY DisplayAssumption DEF Handles
<1>1. DeviceEntries(ls) \subseteq Entry
  <2> SUFFICES ASSUME NEW h \in OfType(ls, "Device")
               PROVE  [z |-> ls[h].z,
                       src |-> Least({g \in OfType(ls, "Device") : ls[g].z = ls[h].z})]
                        \in Entry
    BY DEF DeviceEntries
  <2>1. ls[h] \in Layer
    BY DEF OfType
  <2>2. ls[h].z \in ZOrders
    BY <2>1 DEF Layer
  <2>3. Least({g \in OfType(ls, "Device") : ls[g].z = ls[h].z}) \in Handles
    <3>1. {g \in OfType(ls, "Device") : ls[g].z = ls[h].z} \subseteq Handles
      BY DEF OfType
    <3>. QED
      BY <1>0, <3>1, LeastIsLeast
  <2>. QED
    BY <2>2, <2>3 DEF Entry
<1>2. ClientEntry(ls) \subseteq Entry
  <2> DEFINE cz == Least({ls[h].z : h \in OfType(ls, "Client")})
  <2> SUFFICES ASSUME OfType(ls, "Client") # {}
               PROVE  [z |-> cz, src |-> ClientSrc] \in Entry
    BY DEF ClientEntry
  <2>1. {ls[h].z : h \in OfType(ls, "Client")} \subseteq ZOrders
    BY DEF OfType, Layer
  <2>2. {ls[h].z : h \in OfType(ls, "Client")} # {}
    OBVIOUS
  <2>3. cz \in {ls[h].z : h \in OfType(ls, "Client")}
    BY <1>0, <2>1, <2>2, LeastIsLeast
  <2>4. cz \in ZOrders
    BY <2>1, <2>3
  <2>. QED
    BY <2>4 DEF Entry
<1>. QED
  BY <1>1, <1>2 DEF ZMapOf

LEMMA InitTInv == Init => TInv
<1> SUFFICES ASSUME Init PROVE TInv
  OBVIOUS
<1>1. ConfigMode[PreferredConfig] \in Modes
  BY DisplayAssumption DEF Modes
<1>2. layers \in [Handles -> Layer \cup {NoLayer}]
  BY DEF Init
<1>. QED
  BY <1>1, <1>2, DisplayAssumption DEF Init, TInv, TypeOK, CountersBounded

(* Validated(v) keeps every live layer a layer record and the others absent. *)
LEMMA ValidatedType ==
  ASSUME TypeOK, NEW v \in [Live -> {"Device", "Client"}]
  PROVE  Validated(v) \in [Handles -> Layer \cup {NoLayer}]
BY DEF Validated, Live, TypeOK, Layer, Types

LEMMA NextTInv == TInv /\ [Next]_vars => TInv'
<1> SUFFICES ASSUME TInv, [Next]_vars PROVE TInv'
  OBVIOUS
<1>0. Handles \subseteq Nat /\ MaxLayers \in Nat /\ MaxPresents \in Nat
  BY DisplayAssumption DEF Handles
<1>1. CASE CreateLayer
  <2>1. layerIdx \in Handles
    BY <1>0, <1>1 DEF CreateLayer, TInv, TypeOK, Handles
  <2>2. [z |-> 0, sf |-> "Invalid", validated |-> "Invalid"] \in Layer
    BY DisplayAssumption DEF Layer, Types
  <2>3. layers' \in [Handles -> Layer \cup {NoLayer}]
    BY <1>1, <2>1, <2>2 DEF CreateLayer, TInv, TypeOK
  <2>. QED
    BY <1>0, <1>1, <2>3 DEF CreateLayer, TInv, TypeOK, CountersBounded
<1>2. CASE \E h \in Handles : DestroyLayer(h)
  BY <1>2 DEF DestroyLayer, TInv, TypeOK, CountersBounded
<1>3. CASE \E h \in Handles, z \in ZOrders, t \in {"Device", "Client"} :
             SetLayerState(h, z, t)
  <2>1. PICK h \in Handles, z \in ZOrders, t \in {"Device", "Client"} :
              SetLayerState(h, z, t)
    BY <1>3
  <2>2. layers[h] \in Layer
    BY <2>1 DEF SetLayerState, Live, TInv, TypeOK
  <2>3. [layers[h] EXCEPT !.z = z, !.sf = t] \in Layer
    BY <2>2 DEF Layer, Types
  <2>4. layers' \in [Handles -> Layer \cup {NoLayer}]
    BY <2>1, <2>3 DEF SetLayerState, TInv, TypeOK
  <2>. QED
    BY <2>1, <2>4 DEF SetLayerState, TInv, TypeOK, CountersBounded
<1>4. CASE ValidateDisplay
  <2>1. PICK v \in [Live -> {"Device", "Client"}] :
          IF OfType(Validated(v), "Device") = {}
          THEN layers' = Validated(v) /\ UNCHANGED <<hwFrame, hwMode, hwActive, stagedMode>>
          ELSE \E r \in CompositionResults(ZMapOf(Validated(v))) :
                 IF r = "None"
                 THEN layers' = Validated(v) /\ CommitSucceeded(ZMapOf(Validated(v)), TRUE)
                 ELSE /\ layers' = Validated([h \in Live |-> "Client"])
                      /\ UNCHANGED <<hwFrame, hwMode, hwActive, stagedMode>>
    BY <1>4 DEF ValidateDisplay
  <2>2. [h \in Live |-> "Client"] \in [Live -> {"Device", "Client"}]
    OBVIOUS
  <2>3. /\ layers' \in {Validated(v), Validated([h \in Live |-> "Client"])}
        /\ UNCHANGED <<hwFrame, hwMode, hwActive, stagedMode>>
    BY <2>1 DEF CommitSucceeded
  <2>4. layers' \in [Handles -> Layer \cup {NoLayer}]
    BY <2>2, <2>3, ValidatedType DEF TInv
  <2>. QED
    BY <1>4, <2>3, <2>4 DEF ValidateDisplay, TInv, TypeOK, CountersBounded
<1>5. CASE AcceptDisplayChanges
  <2>1. layers' \in [Handles -> Layer \cup {NoLayer}]
    BY <1>5 DEF AcceptDisplayChanges, Live, TInv, TypeOK, Layer, Types
  <2>. QED
    BY <1>5, <2>1 DEF AcceptDisplayChanges, TInv, TypeOK, CountersBounded
<1>6. CASE \E cfg \in ConfigIds \cup {0} : SetActiveConfig(cfg)
  BY <1>6 DEF SetActiveConfig, TInv, TypeOK, CountersBounded, Modes
<1>7. CASE PresentDisplay
  <2>1. PICK r \in CompositionResults(ZMapOf(layers)) :
          /\ failedPresent' = IF r # "None" THEN failedPresent + 1 ELSE failedPresent
          /\ presentErrors' = IF r \in {"None", "BadLayer"} THEN presentErrors
                                                           ELSE presentErrors + 1
          /\ IF r = "None"
             THEN CommitSucceeded(ZMapOf(layers), FALSE) /\ frameNo' = frameNo + 1
             ELSE UNCHANGED <<hwFrame, hwMode, hwActive, stagedMode, frameNo>>
    BY <1>7 DEF PresentDisplay
  <2>2. /\ totalFrames < MaxPresents /\ totalFrames' = totalFrames + 1
        /\ UNCHANGED <<layers, layerIdx, activeConfig>>
    BY <1>7 DEF PresentDisplay
  <2>3. CASE r = "None"
    <3>1. /\ failedPresent' = failedPresent /\ presentErrors' = presentErrors
          /\ frameNo' = frameNo + 1
          /\ CommitSucceeded(ZMapOf(layers), FALSE)
      BY <2>1, <2>3
    <3>2. ZMapOf(layers) \subseteq Entry
      BY ZMapType DEF TInv, TypeOK
    <3>3. hwFrame' \subseteq Entry /\ hwActive' \in BOOLEAN
          /\ stagedMode' \in Modes \cup {NoMode} /\ hwMode' \in Modes \cup {BootMode}
      BY <3>1, <3>2 DEF CommitSucceeded, TInv, TypeOK
    <3>. QED
      BY <1>0, <2>2, <3>1, <3>3 DEF TInv, TypeOK, CountersBounded
  <2>4. CASE r # "None"
    <3>1. /\ failedPresent' = failedPresent + 1
          /\ presentErrors' \in {presentErrors, presentErrors + 1}
          /\ UNCHANGED <<hwFrame, hwMode, hwActive, stagedMode, frameNo>>
      BY <2>1, <2>4
    <3>. QED
      BY <1>0, <2>2, <3>1 DEF TInv, TypeOK, CountersBounded
  <2>. QED
    BY <2>3, <2>4
<1>8. CASE \E mode \in {"Off", "On"} : SetPowerMode(mode)
  BY <1>8 DEF SetPowerMode, TInv, TypeOK, CountersBounded
<1>9. CASE UNCHANGED vars
  BY <1>9 DEF vars, TInv, TypeOK, CountersBounded
<1>. QED
  BY <1>1, <1>2, <1>3, <1>4, <1>5, <1>6, <1>7, <1>8, <1>9 DEF Next

(* Every reachable state is well typed: handles stay below MaxLayers, the  *)
(* committed frame holds only composition entries (the least-handle and   *)
(* least-z choices of CreateComposition exist), and the statistics of     *)
(* PresentDisplay stay within the number of presents.                     *)
THEOREM TypeCorrect == Spec => []TypeOK
<1>1. TInv => TypeOK
  BY DEF TInv
<1>. QED
  BY <1>1, InitTInv, NextTInv, PTL DEF Spec

-----------------------------------------------------------------------------
(* The staged mode is always the active config's mode or nothing, and     *)
(* when nothing is staged the CRTC scans out the active config's mode:    *)
(* SetActiveConfig and CreateComposition apply a config exactly once.     *)
THEOREM StagedModeSafe == Spec => []StagedModeConsistent
<1>1. IInv => StagedModeConsistent
  BY DEF IInv
<1>. QED
  BY <1>1, InitIInv, NextIInv, PTL DEF Spec


-----------------------------------------------------------------------------
(***************************************************************************)
(* Refinement of ModeRequest.  SetActiveConfig maps to Request, a real     *)
(* commit that finds a staged mode to Apply, and every other step to a    *)
(* stutter of (activeConfig, stagedMode # NoMode, hwMode).  Apply needs   *)
(* the staged mode to be the active config's: that is StagedModeSafe's    *)
(* invariant, so the proof reuses IInv.                                   *)
(***************************************************************************)
RequestVars == <<activeConfig, stagedMode # NoMode, hwMode>>

LEMMA InitRefines == Init => Requests!Init
<1> SUFFICES ASSUME Init PROVE Requests!Init
  OBVIOUS
<1>1. ConfigMode[PreferredConfig] \in Modes
  BY DisplayAssumption DEF Modes
<1>2. stagedMode # NoMode
  BY <1>1, DisplayAssumption DEF Init
<1>. QED
  BY <1>2 DEF Init, Requests!Init, Modes

LEMMA PresentDisplayRefines ==
  ASSUME IInv, PresentDisplay
  PROVE  [Requests!Next]_RequestVars
<1>1. UNCHANGED activeConfig
  BY DEF PresentDisplay
<1>2. PICK r \in CompositionResults(ZMapOf(layers)) :
        IF r = "None"
        THEN CommitSucceeded(ZMapOf(layers), FALSE) /\ frameNo' = frameNo + 1
        ELSE UNCHANGED <<hwFrame, hwMode, hwActive, stagedMode, frameNo>>
  BY DEF PresentDisplay
<1>3. CASE r = "None" /\ stagedMode # NoMode
  <2>1. stagedMode' = NoMode /\ hwMode' = stagedMode
    BY <1>2, <1>3 DEF CommitSucceeded
  <2>2. stagedMode = ConfigMode[activeConfig]
    BY <1>3 DEF IInv, StagedModeConsistent
  <2>3. Requests!Apply
    BY <1>1, <1>3, <2>1, <2>2 DEF Requests!Apply
  <2>. QED
    BY <2>3 DEF Requests!Next
<1>4. CASE r = "None" /\ stagedMode = NoMode
  <2>1. stagedMode' = NoMode /\ hwMode' = hwMode
    BY <1>2, <1>4 DEF CommitSucceeded
  <2>. QED
    BY <1>1, <1>4, <2>1 DEF RequestVars
<1>5. CASE r # "None"
  BY <1>1, <1>2, <1>5 DEF RequestVars
<1>. QED
  BY <1>3, <1>4, <1>5

LEMMA NextRefines == IInv /\ [Next]_vars => [Requests!Next]_RequestVars
<1> SUFFICES ASSUME IInv, [Next]_vars PROVE [Requests!Next]_RequestVars
  OBVIOUS
<1>1. CASE \E cfg \in ConfigIds \cup {0} : SetActiveConfig(cfg)
  <2>1. PICK cfg \in ConfigIds \cup {0} : SetActiveConfig(cfg)
    BY <1>1
  <2>2. ConfigMode[cfg] # NoMode
    BY <2>1, DisplayAssumption DEF SetActiveConfig, Modes
  <2>3. Requests!Request(cfg)
    BY <2>1, <2>2 DEF SetActiveConfig, Requests!Request
  <2>. QED
    BY <2>1, <2>3 DEF SetActiveConfig, Requests!Next
<1>2. CASE PresentDisplay
  BY <1>2, PresentDisplayRefines
<1>3. CASE \/ CreateLayer
           \/ \E h \in Handles : DestroyLayer(h)
           \/ \E h \in Handles, z \in ZOrders, t \in {"Device", "Client"} :
                SetLayerState(h, z, t)
           \/ ValidateDisplay
           \/ AcceptDisplayChanges
           \/ \E mode \in {"Off", "On"} : SetPowerMode(mode)
  BY <1>3, CreateLayerModes, DestroyLayerModes, SetLayerStateModes,
     ValidateDisplayModes, AcceptDisplayChangesModes, SetPowerModeModes
  DEF ModesUnchanged, RequestVars
<1>4. CASE UNCHANGED vars
  BY <1>4 DEF vars, RequestVars
<1>. QED
  BY <1>1, <1>2, <1>3, <1>4 DEF Next

(* SetActiveConfig and CreateComposition implement the deferred mode set  *)
(* of ModeRequest for every set of configs: a requested mode is applied   *)
(* exactly once, by a real commit, as the active config's mode.           *)
THEOREM ImplementsModeRequest == Spec => ModeContract
<1>1. IInv /\ [Next]_vars => [Requests!Next]_RequestVars
  BY NextRefines
<1>. QED
  BY <1>1, InitRefines, InitIInv, NextIInv, PTL
  DEF Spec, ModeContract, Requests!Spec, RequestVars

=============================================================================
