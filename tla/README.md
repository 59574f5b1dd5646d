# Formal models of drm_hwcomposer

TLA+ models of the display-binding and frame-commit core of drm_hwcomposer
(`src/`), checked with TLC on small instances and, where it matters most,
proved with TLAPS for every instance. `PROJECT.json` lists the components,
runs, mutants, the source lines every definition models, the hazards and the
theorems; this file explains them.

## 1. The system

| Component | Source | State it keeps | Operations |
|---|---|---|---|
| Resource registry & ownership | `drm/ResourceManager.{h,cpp}`, `drm/DrmCrtc.h`, `unnamed/part_001` (DrmDevice, DrmConnector) | devices, connector map `connectors_` (display number → owned connector), master lock, a weak `owned` back-reference on every DRM object | `Init`, `AddDrmDevice`, `ReorderConnectors`, `MakePrimaryDisplayCandidates`, `DrmDevice::Init`, `DrmConnector::UpdateModes` |
| Pipeline binder | `drm/DrmDisplayPipeline.cpp`, `unnamed/part_000` | a pipeline = {connector, encoder, CRTC, primary plane, overlay planes} and the holders that own them | `CreatePipeline`, `TryCreatePipelineUsingEncoder`, `TryCreatePipeline`, destruction (holders released) |
| Display controller | `hwc2_device/HwcDisplay.cpp` | layers (handle → type, z-order), `layer_idx_`, configs and `active_config_id`, `staged_mode`, client layer, statistics, flattening state | `CreateLayer`, `DestroyLayer`, `ValidateDisplay`, `AcceptDisplayChanges`, `CreateComposition`, `PresentDisplay`, `SetActiveConfig`, `SetPowerMode`, `SetVsyncEnabled`, queries |
| Event dispatch | `hwc2_device/DrmHwcTwo.cpp`, vsync lambdas in `HwcDisplay::Init` | registered hotplug/refresh/vsync callbacks, `displays_`, `callback_lock_` | `Init`, `RegisterCallback`, `SendHotplugEventToClient`, `UpdateAllDiaplaysHotplugState`, vsync and flattening ticks |
| Enumeration & primary display policy | `drm/ResourceManager.cpp`, `unnamed/part_001` | ordered connectors of all devices, `vendor.hwc.drm.primary_display_order` | `ReadPrimaryDisplayOrderProp`, `MakePrimaryDisplayCandidates`, `ReorderConnectors`, `IsKMSDev` |

How they interact. `DrmHwcTwo::Init` initialises the resource manager, which
opens the DRM devices and numbers the connectors (primary first). One
`HwcDisplay` is created per numbered connector; its handle never changes. A
display obtains a pipeline through `DrmDisplayPipeline::CreatePipeline`, which
claims objects of the shared pool through their `owned` back-references. The
consumer (SurfaceFlinger) calls the display operations through hooks that hold
the master lock; per frame it validates (a backend assigns Device or Client
composition to each layer) and presents (`CreateComposition` orders the layers
by z and submits one atomic commit). Three kinds of threads call back into the
consumer: the uevent (hotplug) thread, under the master lock that
`SendHotplugEventToClient` drops around the callback; and, per display, a vsync
worker and a flattening worker, both under `callback_lock_`.

What is hard. (1) The binder must keep objects exclusively owned across any
sequence of connects and disconnects and still find a pipeline whenever one
exists. (2) The master lock is released in the middle of a loop over the
displays, so two threads can interleave inside the hotplug dispatch. (3) The
flattening countdown is decremented on the worker thread under
`callback_lock_` and rewritten by the validating thread without it. (4)
`RegisterCallback` writes the callback pointers without `callback_lock_` while
workers read them under it. (5) `CreateComposition` keys layers by z-order in
a `std::map`, so equal z-orders collide. (6) The staged mode must be applied
exactly once, by the first successful real commit.

Properties that make each component correct:
- ownership and binder: no object held by two pipelines; the claim table equals
  the live pipelines (no orphan after a failed try or a teardown); a pipeline
  is found whenever a legal one exists; the current setup is preferred;
- display controller: every Device layer and the client layer reach the
  commit in z-order; the staged mode is cleared only by a successful real
  commit, so the hardware mode equals the active config whenever nothing is
  staged; statistics count failures only; layer handles are never reused;
- dispatch: once the threads are quiescent the consumer's view of every
  display's connection equals its state; callbacks are invoked with the
  (function, data) pair registered together; a refresh is requested only after
  a full countdown;
- primary policy: display numbers are 1..n, each connector once; the primary
  is the first connected connector of the preference list, else an internal
  one; initialisation fails when there is no primary candidate.

## 2. Modules at a glance

| Module | Models | Runs | Proofs |
|---|---|---|---|
| `DrmDisplayPipeline` | pipeline binder and object ownership | `pipeline_binding` | `DrmDisplayPipelineProofs` |
| `ObjectOwnership` | abstract claim/release of objects, refined by `DrmDisplayPipeline` | (as `ClaimModel`) | `Refinement` |
| `HwcDisplay` | one display: layers, validate, composition, present, configs | `display_frames`, `present_stats`, `composition_zorder` | `HwcDisplayProofs` |
| `ModeRequest` | abstract deferred mode set, refined by `HwcDisplay` | (as `ModeContract`) | `ImplementsModeRequest` |
| `PrimaryDisplay` | device enumeration, connector numbering, primary choice, re-init | `display_numbering`, `swap_past_end`, `primary_listed` | `PrimaryDisplayProofs` |
| `DisplayCallbacks` | callback pairs, vsync worker, flattening worker and policy | `flattening_refresh`, `flattening_lost_update`, `callback_pair_tear` | `DisplayCallbacksProofs` |
| `HotplugDispatch` | uevent thread and forced hotplug loop around the unlocked callback | `hotplug_known`, `hotplug_view_order` | `HotplugDispatchProofs` |

## 3. Modules

### DrmDisplayPipeline (`src/drm/DrmDisplayPipeline.cpp`, `src/unnamed/part_000`)

State: `pipeline[c]` (the display's `unique_ptr<DrmDisplayPipeline>`, or
`NoPipeline`), `encOwner`, `crtcOwner`, `planeOwner` (the `owned` weak
reference of each object, `DrmCrtc.h:51`: the connector whose pipeline holds it,
or `NoOwner`), and `connected[c]`, the connection state the display last acted
on. The topology is constant: objects are numbered in device order, and the
compatibility relations (`SupportsEncoder`, `SupportsCrtc`,
`IsCrtcSupported`), plane types and the encoders' current CRTC (read once at
init) are CONSTANTS. The connector's current encoder is an input of each
`CreatePipeline` step (the kernel reports it, possibly stale).

Actions. `CreatePipeline(c, hint)` is the whole of
`DrmDisplayPipeline::CreatePipeline`: it runs under the master lock, so one
atomic step. The search order of the code (current encoder, in it current CRTC
then device CRTCs; then the device encoders the connector supports) is
expressed as ranks (`EncoderOrder`, `CrtcOrder`, `TriedBefore`), and the
result is the first candidate for which `TryCreatePipeline` succeeds
(`FirstUsable`). A failed try releases what it took (its holders go out of
scope), so it has no effect. The pipeline built (`NewPipeline`) takes the
single primary plane and every overlay plane of the CRTC that is still free
(best effort); cursor planes are ignored. `DestroyPipeline(c)` releases every
holder of the pipeline (`Release`). How a display decides to create or destroy
(`HwcDisplay::HandleHotplug`) is not under `src/` and is modelled from spec 4.5.

Run `pipeline_binding` (`MCDrmDisplayPipeline.cfg`): 3 connectors, 3 encoders,
3 CRTCs, 5 planes. Connectors share encoders and CRTCs; CRTC 3's only primary
plane is also CRTC 1's (the "already owned" error path); an overlay plane is
shared by all CRTCs (the best-effort skip); a cursor plane is seen by all.
Every connect/disconnect order and every current-encoder hint is explored
(213 states). Checked:
- `ExclusiveOwnership` — no encoder, CRTC or plane in two pipelines;
- `NoOrphanClaims` — every claimed object is held by its owner's live pipeline;
- `BindComplete` (action property) — a create that leaves the display without
  a pipeline happens only when no legal pipeline (spec 4.2) exists.

Proved (`DrmDisplayPipelineProofs`), for every topology satisfying
`TopologyAssumption`: `TypeCorrect` (Spec => []TypeOK), `Exclusive`
(Spec => []ExclusiveOwnership), `NoOrphans` (Spec => []NoOrphanClaims) and
`SearchExhaustive` (Spec => BindComplete).
Neither property is inductive by itself: a create step is safe only because
the objects it claims are free *and* a free object is in no pipeline. The
inductive invariant `IInv` is `TypeOK /\ OwnershipConsistent`, where
`OwnershipConsistent` says the owner of an object is `c` exactly when `c`'s
pipeline holds it. The proof has one lemma per action (`ClaimIInv`,
`ReleaseIInv`) split per displayed connector (the one acting, the others), and
lemmas on the candidates (`CandidateType`) and on the built pipeline
(`NewPipelineFree`). `SearchExhaustive` needs only `TypeOK`: a legal pair
(e, k) is itself a candidate, through the fallback ranks e and k of
`EncoderOrder` and `CrtcOrder` (`LegalIsCandidate`), so the "nothing usable"
branch of `CreatePipeline` cannot be taken, and the other branch installs a
`Pipeline`, which is not `NoPipeline` (`CreateFailsOnlyWhenNoneLegal`).

### HwcDisplay (`src/hwc2_device/HwcDisplay.cpp`)

One display. Every hook runs on the consumer's thread under the master lock,
so each operation is one step. State: `layers` (`layers_`: handle → z-order,
requested type `sf`, validated type, or `NoLayer`), `layerIdx`
(`layer_idx_`), `activeConfig`, `stagedMode` (`staged_mode`, `NoMode` when
empty), the statistics `totalFrames`, `failedPresent` and `frameNo`, and the
kernel side that commits leave behind: `hwMode`, `hwFrame` (the committed
z-map) and `hwActive`. `presentErrors` is a history variable. It counts the
presents that returned an error to the consumer. Configs are constant, with
ids numbered from 1. `GetDisplayConfigs` re-runs `configs_.Update` on the same
connector modes, so it changes nothing the model keeps.

Actions:
- `CreateLayer` and `DestroyLayer`.
- `SetLayerState`: the consumer's `SetLayerZOrder` and
  `SetLayerCompositionType`, from `HwcLayer`, which is not under `src/`.
- `ValidateDisplay`: the backend picks Device or Client per layer. Unless all
  layers are Client, it tries a test-only `CreateComposition`. A failed try
  sends every layer to Client.
- `AcceptDisplayChanges`.
- `SetActiveConfig`: the consumer may pass an unknown id, which returns
  BadConfig.
- `PresentDisplay`.
- `SetPowerMode`: Off is a commit that may fail; On goes through DPMS, which
  may fail.

`CreateComposition` is split into three definitions:
- `ZMapOf` is the z-map. Layers are iterated in handle order and
  `emplace` keeps the first layer at a z. The client layer goes at the least
  Client z.
- `CompositionResults` lists its error paths: BadLayer when the z-map is
  empty; otherwise NoResources, BadLayer, BadConfig or BadParameter for import,
  SetLayers, plan or commit failure, or None.
- `CommitSucceeded` is the successful commit. A real commit puts the frame and
  the staged mode on the CRTC, activates it (as `SetPowerMode`'s comment
  says), and clears `staged_mode`. A test-only commit changes nothing.

Runs (`MCHwcDisplay`: two handles, z-orders {0, 1}, two configs with
different modes, a boot mode that is neither, two presents; 109,380 states):
- `display_frames` (pass): `TypeOK`; `StagedModeConsistent`: the staged
  mode is the active config's mode or nothing, and when nothing is staged the
  CRTC has the active config's mode (it fails if a test-only or failed commit
  clears the staged mode); `ModeContract`: the display refines `ModeRequest` (below).
  Two handles and two z-orders are enough: every collision and every
  validate/commit outcome occurs.
- `present_stats` (violation): `PresentStatsAccurate`. With no layers,
  `PresentDisplay` counts a failed present yet returns success. Spec
  "Present" calls this case benign.
- `composition_zorder` (violation): `CompositionComplete`. Two Device layers
  at z 0 commit a frame that holds one of them.

Proved (`HwcDisplayProofs`), for all constants satisfying
`DisplayAssumption`:
- `StagedModeSafe` (Spec => []StagedModeConsistent). The inductive invariant
  `IInv` adds the types of the three mode variables (`ModesOK`). Each step
  either leaves those variables alone (one lemma per action) or is
  `SetActiveConfig` or a present, and each of those two has a lemma of its own.
- `ImplementsModeRequest` (Spec => ModeContract), see below.
- `TypeCorrect` (Spec => []TypeOK). `TypeOK` is not inductive: it bounds the
  statistics by `MaxPresents`, but only `totalFrames` is guarded by it, so the
  inductive invariant `TInv` adds `CountersBounded` (no counter passes
  `totalFrames`). The z-map takes least elements of sets of naturals;
  `LeastIsLeast` shows they exist and are least, from the well-foundedness of
  < on Nat (`WFMin` and `NatLessThanWellFounded` of `WellFoundedInduction`,
  which take no operator parameter), and `ZMapType` that every z-map holds
  only composition entries.

### ModeRequest and the second refinement

`ModeRequest` is the config contract of the spec ("Mode/config change" and
its round-trip check): `Request(c)` makes c active and its mode pending;
`Apply` puts the active config's mode on the screen and clears the request,
so a request is applied exactly once. `HwcDisplay` maps to it through
`Requests == INSTANCE ModeRequest WITH config <- activeConfig, pending <-
stagedMode # NoMode, mode <- hwMode`. `SetActiveConfig` is a `Request`, a
real commit that finds a staged mode is the `Apply`, and every other step
(the test-only commit of validate, failed presents, a real commit with
nothing staged) is a stutter. The proof (`InitRefines`,
`PresentDisplayRefines`, `NextRefines`) reuses `IInv`: `Apply` needs the
staged mode to be the active config's.

### ObjectOwnership and the refinement

`ObjectOwnership` is what the binder promises, stated without the search:
`owner` maps each object to a holder or `NoHolder`; `Acquire(h, S)` lets a
holder that holds nothing take a set of free objects at once, and
`ReleaseAll(h)` frees everything a holder has. `DrmDisplayPipeline` maps to
it through `ObjectOwner` (each encoder, CRTC and plane to its owner table
entry) with connectors as holders; `ClaimModel == Abstract!Spec` is checked as
a PROPERTY of `pipeline_binding` and proved as `Refinement`
(`DrmDisplayPipelineProofs`): the initial state maps to an initial state
(`InitRefines`), a create maps to an `Acquire` of the new pipeline's objects,
which are free by `OwnershipConsistent` (`ClaimRefines`), a destroy to a
`ReleaseAll` (`ReleaseRefines`). The proof reuses the inductive invariant
`IInv` of the safety proofs.

### PrimaryDisplay (`src/drm/ResourceManager.cpp`, `src/hwc2_device/DrmHwcTwo.cpp`)

State: `drms` (`drms_`: node and `DrmDevice::Init` outcome per device
object), `connectors` (`connectors_`: display number to connector object, a
pair of device position and physical connector), `displays` (`displays_` of
`DrmHwcTwo`), `order` (the parsed `primary_display_order`), `connected`,
`initResult`, `registrations`, and the history `pastEnd`. One action,
`RegisterHotplugCallback`, is `RegisterCallback(Hotplug)`; while `displays_`
is empty it runs the whole of `HwcInit` (`DrmHwcTwo::Init` with
`ResourceManager::Init` inside it) as one step, since initialisation runs on
the consumer's thread before the uevent listener starts. Inside it:
`DevicesAdded` is the device loop (a device whose `Init` failed late is kept,
`LoopFailed` is the loop's error); `FirstCandidates` is
`MakePrimaryDisplayCandidates` followed by `ReorderConnectors`, with the
preference list walked by `PlaceListed` exactly as the iterator code does
(each name searched from `begin()`, `iter_swap` with `curr_connector`);
`Numbered` is the numbering loop, and `CreateDisplays` the display loop.
Device outcomes, the connection state and the buffer/uevent set-up results
are chosen per step.

The loops of the code are functions over `0..n` defined by primitive
recursion, one entry per iteration: `DeviceLoop` (the `for (idx ...; ret ==
0; ...)` loop, one `NewDevice` per KMS node until a device fails),
`ConnectorLoop` (the `all_connectors` loop over `drms_`, `DevConns` being one
device's connectors, none when its `Init` failed before creating them),
`ConnectedLoop` (the `remove_if` of disconnected candidates), `PlaceLoop`
(the `display_order` loop), and `NumberLoop` (the consecutive numbering
after `PrimaryNumbered` has owned the primary). `CreateDisplays` visits the
keys of `connectors_` in `std::map` order (`KeyRank`). Two assumptions on
the constants come from how the device set is built: when
`vendor.hwc.drm.device` names a fixed path there is a node for it
(`FixedPath => NumNodes > 0`), and a physical connector is listed by the
resources of one card only (`NodeConns` ranges are disjoint), since a
connector id belongs to the card that reports it.

Instance (`MCPrimaryDisplay`): three nodes (card1 not KMS), four connectors
(internal, two external, and Composite-1, of neither type), four preference lists
(catch-all only, a name then catch-all, a name alone, a name twice), two
registrations; 2,744 states. Run `display_numbering` (pass) checks
`NumberingConsistent`: handles 0..n-1 are the connectors numbered 1..n, in
order, and no physical connector is numbered twice. The violation runs
record where the code departs from spec 4.3: `swap_past_end` (a name listed
twice advances `curr_connector` once per match, so with one connected
candidate `iter_swap` is given `end()`: undefined behaviour),
`primary_listed` (`PrimaryListed`, spec 4.3 step 2: the list `HDMI-A-1,
HDMI-A-1` with HDMI-A-1 and Composite-1 connected: the second search finds
HDMI-A-1 at the front and swaps it to the second position, so Composite-1,
unlisted, becomes primary). Two more departures are modelled, as the code
behaves, but not stated as properties: the fallback loop numbers
disconnected internal and external connectors (the code's comment says it
means to, spec 4.3 numbers connected ones), and a device whose `Init`
failed after creating its connectors stays in `drms_` and its connectors
get displays.

Proved (`PrimaryDisplayProofs`), for all constants satisfying `PrimaryAssumption`:
`DisplaysNumberedConsistently` (Spec => []NumberingConsistent) and
`TypeCorrect` (Spec => []TypeOK). `NumberingConsistent` is not inductive: a
re-initialisation appends new device objects and numbers them over the old
`connectors_`, so the proof needs to know where those objects come from. The
inductive invariant `NumberingInv` says that `drms_` has at most one live
device (one whose `Init` reached its connectors) per node, that
`connectors_` is an injective sequence of objects `<<j, p>>` with `p` a
connector of live device `j`, that `displays_` is empty or
`CreateDisplays(connectors_)`, and that `drms_` has at most `registrations
* NumNodes` entries. It implies both properties: two keys of `connectors_`
hold distinct objects; the same device gives distinct connectors, and
different live devices sit on different nodes, whose connector sets are
disjoint. It is preserved because one initialisation adds each node at most
once and only after the earlier devices (`DevicesAddedProps`,
`OneLivePerNodeStep`), and because each loop keeps its state in a set proved
closed under its body (`PlacedType`, `NumberLoopType`: `NumberConnector`
owns only unowned objects, so the map stays injective). Each loop lemma is
an induction over the loop index, argued by a least counterexample
(`LeastNat`). The proofs need both assumptions above.

### DisplayCallbacks (`src/hwc2_device/HwcDisplay.cpp`, `src/hwc2_device/DrmHwcTwo.cpp`)

Three threads share one display's callback state. The consumer's
`RegisterCallback` writes a (function, data) pair in two steps
(`RegisterFirst`, `RegisterSecond`) without `callback_lock_`. The vsync
worker (`VsyncTick`) calls vsync_2_4 or vsync under the lock. The flattening
worker's tick is split into `FlatCheck` (the guard's read of
`flattenning_state_ > ClientRefreshRequested`), `FlatLoad` (the read of
`--flattenning_state_`) and `FlatStore` (the write, the compare and the
refresh). The int is written by the validating thread without the lock, a
data race, so `FlatLoad` takes either the value the guard read (a build
that keeps it in a register) or the current one. The validating thread's decisions (`SetSink`,
`Flattenable`, from `Backend::ProcessClientFlatteningState`, not under
`src/`) write it between them. Registration k stores function k with data k.

Fairness: weak fairness of `FlatCheck`, `FlatLoad`, `FlatStore` and
`RegisterSecond`. The
flattening worker is woken on every vsync while armed, and a thread that has
taken `callback_lock_` or started a pair assignment finishes it; nothing is
assumed of the consumer or of the validating thread.

Run `flattening_refresh` (pass; countdown 2, two registrations, two policy
decisions; 4,736 states): `TypeOK`, where `flattenning_state_` ranges over
`Disabled - 1 .. Countdown`, the values the code can reach, and
`RefreshEventuallyRequested`, an armed countdown with a refresh callback
registered leads to a refresh or to flattening being switched off.
`TypeOK` is proved as `TypeCorrect` (`DisplayCallbacksProofs`). It is not
inductive as it stands: the inductive invariant adds `CheckedInRange`
(between the guard and the load the state is at least `Disabled`, since
the only writes there are the validating thread's sinks, `Flattened` or
the countdown). A lemma `CallType` covers the record a callback leaves in
`lastCall`. `TypeOK` says a callback carries registration numbers, not
that they are of the same registration: `callback_pair_tear` shows they
need not be. Violations:
- `flattening_lost_update` (`SinksStay`): a Disabled/NotRequired write
  between the guard and the store is overwritten by the countdown (or, read
  again by the decrement, turned into the next lower state: NotRequired
  becomes Disabled, Disabled becomes Disabled - 1, no state of the enum);
- `callback_pair_tear` (`CallbackPaired`): the vsync worker calls the new
  function with the old data.

### HotplugDispatch (`src/hwc2_device/DrmHwcTwo.cpp`)

Two threads walk the displays under the master lock: the uevent thread's
handler (`HotplugHandler`, registered in `DrmHwcTwo::Init`) and the
consumer's `RegisterCallback(Hotplug)` (`RegisterHotplug`), which forces a
report of every display. `HandleHotplug(t, d)` is one display's
`HandleHotplug` (not under `src/`, from spec 4.5): when the state changed or
the loop is forced it records the state and, when the pair is set, enters
`SendHotplugEventToClient`, which unlocks; `Deliver` is the callback (the
consumer's `view`), `Relock` takes the lock back and the loop moves on,
`EndLoop` releases it. `KernelChange` flips a connector and raises a uevent.

Fairness: weak fairness of the uevent handler and of each loop step. The
listener thread handles every uevent, and a thread inside the loop holds or
waits only for the master lock, which every holder releases within its loop.

Run `hotplug_known` (pass; two displays, three changes, two registrations;
55,444 states, so that two forced loops and the uevent loop overlap):
- `LoopExclusive`: a thread is inside the locked part of a loop exactly when
  it holds the master lock, so two loops never walk the displays together
  (it fails if `Relock` does not wait for the lock);
- `NoChangeMissed`: a connector change a display has not acted on is still
  pending, either as an unhandled uevent or as a display some loop has still
  to visit; the display a thread is reporting does not count, since its
  state was already read (it fails if `Relock` drops the rest of the loop);
- `KnownConverges`, every display eventually acts on the kernel's state.

Proved (`HotplugDispatchProofs`), for every set of displays and bounds:
`LockSerialisesLoops` (Spec => []LoopExclusive) and `NoChangeForgotten`
(Spec => []NoChangeMissed). The inductive invariant is `TypeOK /\ MsgShape
/\ LoopExclusive /\ NoChangeMissed`; `MsgShape` (a thread between unlock and
relock carries a report of a display) is what `Deliver` needs. The proof of
`NoChangeMissed` has one case per action, and `HandleHotplug` is split on
whether the display handled is the changed one: if it is, the display now
knows the kernel's state or is being reported with it. Run `hotplug_view_order` (violation): `ViewConverges` fails. The
consumer's forced loop reads a display as disconnected and unlocks; a plug
uevent is handled and reported as connected; then the forced report is
delivered, and the consumer keeps "disconnected" with no uevent left.

## 4. What is only model-checked, and what is not modelled

TLAPS cannot prove liveness or reason about ENABLED, and cannot prove what a
recursive definition computes for every input; those stay with TLC.
Every safety property of a passing run is proved. The binder's `TypeOK` is proved (`TypeCorrect`) and
not re-checked by its run.

Only model-checked:
- liveness: `RefreshEventuallyRequested` and `KnownConverges` (fairness and
  ENABLED);
- the properties of the violation runs, which do not hold.

Not modelled (see PROJECT.json "components"): the kernel ioctl transport and
property blobs; buffer import and metadata; color, HDR, brightness, content
type and virtual-display stubs (they change no state or return Unsupported);
`Dump`/statistics formatting; device-path enumeration (`stat`, `IsKMSDev`).
