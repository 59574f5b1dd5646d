----------------------------- MODULE HwcDisplay -----------------------------
(***************************************************************************)
(* The per-frame part of one display of src/hwc2_device/HwcDisplay.cpp:   *)
(* its layers, validation, the composition built from the layers by z-    *)
(* order, the atomic commit (test-only or real), PresentDisplay and its    *)
(* statistics, the active configuration with its staged mode, and the     *)
(* power mode.  All of these run on the consumer's thread under the        *)
(* master lock, so every operation is one atomic step.                    *)
(*                                                                         *)
(* The kernel side is the state the last successful commit left: hwMode   *)
(* (the mode the CRTC scans out), hwFrame (the planes' contents, as the    *)
(* set of z-ordered composition entries) and hwActive.  The collaborators  *)
(* that are not under src/ are choices: the backend's Device/Client        *)
(* decision per layer, and the success of buffer import, plane planning   *)
(* and the atomic commit.                                                  *)
(***************************************************************************)
EXTENDS Naturals

CONSTANTS
  MaxLayers,     \* bound on CreateLayer calls: handles are 0..MaxLayers-1
  ZOrders,       \* z-orders the consumer assigns
  ConfigIds,     \* ids of configs_.hwc_configs
  ConfigMode,    \* the mode of each config
  PreferredConfig, \* configs_.preferred_config_id
  BootMode,      \* the mode the CRTC has before the first commit
  MaxPresents,   \* bound on PresentDisplay calls
  NoLayer,       \* an absent entry of layers_
  NoMode         \* an empty staged_mode optional

Handles == 0..(MaxLayers - 1)
Modes == {ConfigMode[i] : i \in ConfigIds}
Types == {"Invalid", "Device", "Client"}
Layer == [z : ZOrders, sf : Types, validated : Types]
(* The synthetic client_layer_ in a composition, numbered past the handles. *)
ClientSrc == MaxLayers

ASSUME DisplayAssumption ==
  /\ MaxLayers \in Nat /\ MaxPresents \in Nat
  /\ ZOrders \subseteq Nat /\ 0 \in ZOrders
  /\ ConfigMode \in [ConfigIds -> Modes]
  /\ ConfigIds \subseteq Nat \ {0}   \* config ids are numbered from 1
  /\ PreferredConfig \in ConfigIds
  /\ NoMode \notin Modes \cup {BootMode}
  /\ NoLayer \notin Layer

(* A composition entry: a layer (or the client layer) placed at a z.       *)
Entry == [z : ZOrders, src : Handles \cup {ClientSrc}]

VARIABLES
  layers,         \* layers_: handle -> HwcLayer, NoLayer if absent
  layerIdx,       \* layer_idx_
  activeConfig,   \* configs_.active_config_id
  stagedMode,     \* staged_mode
  hwMode,         \* the CRTC's current mode
  hwFrame,        \* the committed composition
  hwActive,       \* the CRTC is active
  totalFrames,    \* total_stats_.total_frames_
  failedPresent,  \* total_stats_.failed_kms_present_
  frameNo,        \* frame_no_
  presentErrors   \* history: PresentDisplay calls that returned an error

vars == <<layers, layerIdx, activeConfig, stagedMode, hwMode, hwFrame,
          hwActive, totalFrames, failedPresent, frameNo, presentErrors>>

TypeOK ==
  /\ layers \in [Handles -> Layer \cup {NoLayer}]
  /\ layerIdx \in 0..MaxLayers
  /\ activeConfig \in ConfigIds
  /\ stagedMode \in Modes \cup {NoMode}
  /\ hwMode \in Modes \cup {BootMode}
  /\ hwFrame \subseteq Entry
  /\ hwActive \in BOOLEAN
  /\ totalFrames \in 0..MaxPresents
  /\ failedPresent \in 0..MaxPresents
  /\ frameNo \in 0..MaxPresents
  /\ presentErrors \in 0..MaxPresents

-----------------------------------------------------------------------------
Live == {h \in Handles : layers[h] # NoLayer}

(* The least element of a nonempty set of naturals.                        *)
Least(S) == CHOOSE x \in S : \A y \in S : x <= y

(***************************************************************************)
(* The z-map CreateComposition builds from the layers ls.  layers_ is     *)
(* iterated in handle order and std::map::emplace keeps the entry already *)
(* at a key, so each z gets the Device layer of least handle at that z;   *)
(* the client layer is emplaced last, at the least z of the Client        *)
(* layers, and is dropped when a Device layer already sits there.  Layers *)
(* of any other type are skipped.                                          *)
(***************************************************************************)
OfType(ls, t) == {h \in Handles : ls[h] # NoLayer /\ ls[h].validated = t}

DeviceEntries(ls) ==
  {[z |-> zz, src |-> Least({h \in OfType(ls, "Device") : ls[h].z = zz})] :
     zz \in {ls[h].z : h \in OfType(ls, "Device")}}

ClientEntry(ls) ==
  LET cz == Least({ls[h].z : h \in OfType(ls, "Client")})
  IN  IF OfType(ls, "Client") = {} \/ cz \in {e.z : e \in DeviceEntries(ls)}
      THEN {}
      ELSE {[z |-> cz, src |-> ClientSrc]}

ZMapOf(ls) == DeviceEntries(ls) \cup ClientEntry(ls)

(***************************************************************************)
(* The results CreateComposition can return for the z-map zm: BadLayer   *)
(* when it is empty; otherwise a buffer import fails (NoResources),       *)
(* SetLayers fails (BadLayer), the plane plan fails (BadConfig), the      *)
(* atomic commit fails (BadParameter), or it succeeds (None).             *)
(***************************************************************************)
CompositionResults(zm) ==
  IF zm = {} THEN {"BadLayer"}
  ELSE {"None", "NoResources", "BadLayer", "BadConfig", "BadParameter"}

(* Mutant: staged_mode is reset after a test-only commit as well.         *)
CommitSucceededTestResets(zm, testOnly) ==
  /\ IF testOnly
     THEN UNCHANGED <<hwFrame, hwMode, hwActive>>
     ELSE /\ hwFrame' = zm /\ hwActive' = TRUE
          /\ hwMode' = IF stagedMode # NoMode THEN stagedMode ELSE hwMode
  /\ stagedMode' = NoMode

(* A successful commit of the z-map zm: the staged mode goes into the     *)
(* commit; a real commit puts the frame and the mode on the CRTC, which  *)
(* it activates (SetPowerMode's comment: "the next composition frame     *)
(* will implicitly activate the display"), and resets staged_mode; a     *)
(* test-only one changes nothing.                                         *)
CommitSucceeded(zm, testOnly) ==
  IF testOnly
  THEN UNCHANGED <<hwFrame, hwMode, hwActive, stagedMode>>
  ELSE /\ hwFrame' = zm /\ hwActive' = TRUE
       /\ hwMode' = IF stagedMode # NoMode THEN stagedMode ELSE hwMode
       /\ stagedMode' = NoMode

-----------------------------------------------------------------------------
(* HwcDisplay::Init ends with ChosePreferredConfig, which stages the       *)
(* preferred config's mode.                                                *)
Init ==
  /\ layers = [h \in Handles |-> NoLayer]
  /\ layerIdx = 0
  /\ activeConfig = PreferredConfig
  /\ stagedMode = ConfigMode[PreferredConfig]
  /\ hwMode \in Modes \cup {BootMode}
  /\ hwFrame = {}
  /\ hwActive \in BOOLEAN
  /\ totalFrames = 0 /\ failedPresent = 0 /\ frameNo = 0
  /\ presentErrors = 0

CreateLayer ==
  /\ layerIdx < MaxLayers
  /\ layers' = [layers EXCEPT ![layerIdx] =
                  IF @ = NoLayer
                  THEN [z |-> 0, sf |-> "Invalid",
                        validated |-> "Invalid"]
                  ELSE @]
  /\ layerIdx' = layerIdx + 1
  /\ UNCHANGED <<activeConfig, stagedMode, hwMode, hwFrame, hwActive,
                 totalFrames, failedPresent, frameNo, presentErrors>>

DestroyLayer(h) ==
  /\ h \in Live
  /\ layers' = [layers EXCEPT ![h] = NoLayer]
  /\ UNCHANGED <<layerIdx, activeConfig, stagedMode, hwMode, hwFrame,
                 hwActive, totalFrames, failedPresent, frameNo, presentErrors>>

(* HwcLayer::SetLayerZOrder and SetLayerCompositionType (consumer calls).  *)
SetLayerState(h, z, t) ==
  /\ h \in Live
  /\ layers' = [layers EXCEPT ![h].z = z, ![h].sf = t]
  /\ UNCHANGED <<layerIdx, activeConfig, stagedMode, hwMode, hwFrame,
                 hwActive, totalFrames, failedPresent, frameNo, presentErrors>>

(***************************************************************************)
(* ValidateDisplay: the backend decides Device or Client for every layer *)
(* and, unless all are Client, tries the result with a test-only          *)
(* CreateComposition; when that fails every layer falls back to Client.  *)
(***************************************************************************)
Validated(v) ==
  [h \in Handles |-> IF h \in Live THEN [layers[h] EXCEPT !.validated = v[h]]
                                    ELSE NoLayer]

ValidateDisplay ==
  /\ \E v \in [Live -> {"Device", "Client"}] :
       IF OfType(Validated(v), "Device") = {}
       THEN layers' = Validated(v) /\ UNCHANGED <<hwFrame, hwMode, hwActive, stagedMode>>
       ELSE \E r \in CompositionResults(ZMapOf(Validated(v))) :
              IF r = "None"
              THEN layers' = Validated(v) /\ CommitSucceeded(ZMapOf(Validated(v)), TRUE)
              ELSE /\ layers' = Validated([h \in Live |-> "Client"])
                   /\ UNCHANGED <<hwFrame, hwMode, hwActive, stagedMode>>
  /\ UNCHANGED <<layerIdx, activeConfig, totalFrames, failedPresent, frameNo,
                 presentErrors>>

AcceptDisplayChanges ==
  /\ layers' = [h \in Handles |->
                  IF h \in Live THEN [layers[h] EXCEPT !.sf = layers[h].validated]
                  ELSE NoLayer]
  /\ UNCHANGED <<layerIdx, activeConfig, stagedMode, hwMode, hwFrame,
                 hwActive, totalFrames, failedPresent, frameNo, presentErrors>>

(* Mutant: the existence check of the requested id is dropped.           *)
SetActiveConfigUnchecked(cfg) ==
  /\ stagedMode' = IF cfg \in ConfigIds THEN ConfigMode[cfg]
                                        ELSE ConfigMode[PreferredConfig]
  /\ activeConfig' = cfg
  /\ UNCHANGED <<layers, layerIdx, hwMode, hwFrame, hwActive, totalFrames,
                 failedPresent, frameNo, presentErrors>>

(* SetActiveConfig stages the mode; the real mode set is deferred to the   *)
(* next commit.  An unknown id returns BadConfig and changes nothing.      *)
SetActiveConfig(cfg) ==
  /\ cfg \in ConfigIds
  /\ stagedMode' = ConfigMode[cfg]
  /\ activeConfig' = cfg
  /\ UNCHANGED <<layers, layerIdx, hwMode, hwFrame, hwActive, totalFrames,
                 failedPresent, frameNo, presentErrors>>

(***************************************************************************)
(* PresentDisplay: count the frame, CreateComposition for real; BadLayer  *)
(* (empty z-map) is counted as failed yet reported as success; any other  *)
(* error is counted and returned.                                         *)
(***************************************************************************)
PresentDisplay ==
  /\ totalFrames < MaxPresents
  /\ totalFrames' = totalFrames + 1
  /\ \E r \in CompositionResults(ZMapOf(layers)) :
       /\ failedPresent' = IF r # "None" THEN failedPresent + 1 ELSE failedPresent
       /\ presentErrors' = IF r \in {"None", "BadLayer"} THEN presentErrors
                                                        ELSE presentErrors + 1
       /\ IF r = "None"
          THEN CommitSucceeded(ZMapOf(layers), FALSE) /\ frameNo' = frameNo + 1
          ELSE UNCHANGED <<hwFrame, hwMode, hwActive, stagedMode, frameNo>>
  /\ UNCHANGED <<layers, layerIdx, activeConfig>>

(***************************************************************************)
(* SetPowerMode: Off commits active = false (the commit may fail); On     *)
(* activates through DPMS (which may fail); Doze is Unsupported.          *)
(***************************************************************************)
SetPowerMode(mode) ==
  /\ \/ mode = "Off" /\ hwActive' \in {hwActive, FALSE}
     \/ mode = "On" /\ hwActive' \in {hwActive, TRUE}
  /\ UNCHANGED <<layers, layerIdx, activeConfig, stagedMode, hwMode,
                 hwFrame, totalFrames, failedPresent, frameNo, presentErrors>>

Next ==
  \/ CreateLayer
  \/ \E h \in Handles : DestroyLayer(h)
  \/ \E h \in Handles, z \in ZOrders, t \in {"Device", "Client"} :
       SetLayerState(h, z, t)
  \/ ValidateDisplay
  \/ AcceptDisplayChanges
  \/ \E cfg \in ConfigIds \cup {0} : SetActiveConfig(cfg)
  \/ PresentDisplay
  \/ \E mode \in {"Off", "On"} : SetPowerMode(mode)

Spec == Init /\ [][Next]_vars

-----------------------------------------------------------------------------
(***************************************************************************)
(* Staged mode (SetActiveConfig, CreateComposition): what is staged is    *)
(* the active config's mode, and once nothing is staged the CRTC scans   *)
(* out the active config's mode -- the staged mode is cleared only by the *)
(* real commit that applied it, never by a test-only or failed commit.   *)
(***************************************************************************)
StagedModeConsistent ==
  /\ stagedMode \in {NoMode, ConfigMode[activeConfig]}
  /\ stagedMode = NoMode => hwMode = ConfigMode[activeConfig]

(***************************************************************************)
(* Refinement.  The display implements the config contract ModeRequest:   *)
(* SetActiveConfig is a Request, the real commit that applies and clears  *)
(* the staged mode its Apply, and every other step, ValidateDisplay's     *)
(* test-only commit and failed presents included, leaves the active       *)
(* config, the pending request and the CRTC's mode as they were.          *)
(***************************************************************************)
Requests == INSTANCE ModeRequest
              WITH config <- activeConfig,
                   pending <- stagedMode # NoMode,
                   mode <- hwMode

(* SetActiveConfig and CreateComposition implement the deferred mode set  *)
(* of the spec: a requested mode is applied exactly once, as the active   *)
(* config's mode.                                                          *)
ModeContract == Requests!Spec

(***************************************************************************)
(* PresentDisplay statistics: failed_kms_present_ counts the presents that *)
(* failed, i.e. returned an error to the consumer (spec: an empty         *)
(* composition is benign).                                                 *)
(***************************************************************************)
PresentStatsAccurate == failedPresent = presentErrors

(***************************************************************************)
(* CreateComposition: a present that commits puts every Device layer, and  *)
(* the client layer when some layer is Client, on the CRTC.               *)
(***************************************************************************)
CompositionComplete ==
  [][frameNo' = frameNo + 1 =>
       {e.src : e \in hwFrame'} =
         OfType(layers, "Device") \cup
           (IF OfType(layers, "Client") = {} THEN {} ELSE {ClientSrc})]_vars

=============================================================================
