------------------------- MODULE DrmDisplayPipeline -------------------------
(***************************************************************************)
(* Binding of a display pipeline {connector, encoder, CRTC, planes} out of *)
(* the shared DRM object pool, and its release.                            *)
(*                                                                         *)
(* Source: src/drm/DrmDisplayPipeline.cpp (CreatePipeline,                 *)
(* TryCreatePipelineUsingEncoder, TryCreatePipeline) and the pipeline      *)
(* struct of src/unnamed/part_000, whose holder members release their      *)
(* objects when the pipeline is destroyed.                                 *)
(*                                                                         *)
(* Every DRM object carries a weak `owned` back-reference (DrmCrtc.h:51). *)
(* It is modelled as encOwner, crtcOwner and planeOwner: the connector     *)
(* whose pipeline holds the object, or NoOwner.  A pipeline is created     *)
(* when the display of a connector sees it connected and destroyed when it *)
(* sees it disconnected; both run under the master lock, so each is one    *)
(* atomic step.  Objects are numbered in device order (DrmDevice vectors), *)
(* and 0 is the kernel's "no object" id, which FindXxxById maps to null.   *)
(***************************************************************************)
EXTENDS Naturals

CONSTANTS
  Connectors,      \* DrmConnector objects that back a display
  NumEncoders,     \* size of DrmDevice::GetEncoders()
  NumCrtcs,        \* size of DrmDevice::GetCrtcs()
  NumPlanes,       \* size of DrmDevice::GetPlanes()
  ConnEncoders,    \* DrmConnector::SupportsEncoder
  EncCrtcs,        \* DrmEncoder::SupportsCrtc
  EncCurrentCrtc,  \* DrmEncoder::GetCurrentCrtcId, read once at init
  PlaneCrtcs,      \* DrmPlane::IsCrtcSupported
  PlaneType,       \* DrmPlane::GetType
  NoOwner,         \* an expired `owned` weak reference
  NoPipeline       \* a display without a pipeline (null unique_ptr)

Encoders == 1..NumEncoders
Crtcs    == 1..NumCrtcs
Planes   == 1..NumPlanes

ASSUME TopologyAssumption ==
  /\ NumEncoders \in Nat /\ NumCrtcs \in Nat /\ NumPlanes \in Nat
  /\ ConnEncoders \in [Connectors -> SUBSET Encoders]
  /\ EncCrtcs \in [Encoders -> SUBSET Crtcs]
  /\ EncCurrentCrtc \in [Encoders -> Crtcs \cup {0}]
  /\ PlaneCrtcs \in [Planes -> SUBSET Crtcs]
  /\ PlaneType \in [Planes -> {"primary", "overlay", "cursor"}]
  /\ NoOwner \notin Connectors

(* The DrmDisplayPipeline struct: its objects and the holders of them.     *)
Pipeline == [enc : Encoders, crtc : Crtcs, primary : Planes,
             overlays : SUBSET Planes]

ASSUME NoPipelineAssumption == NoPipeline \notin Pipeline

VARIABLES
  connected,   \* connection state the display last acted on
  pipeline,    \* the display's pipeline, or NoPipeline
  encOwner,    \* DrmEncoder::owned
  crtcOwner,   \* DrmCrtc::owned
  planeOwner   \* DrmPlane::owned

vars == <<connected, pipeline, encOwner, crtcOwner, planeOwner>>

Owner == Connectors \cup {NoOwner}

TypeOK ==
  /\ connected \in [Connectors -> BOOLEAN]
  /\ pipeline \in [Connectors -> Pipeline \cup {NoPipeline}]
  /\ encOwner \in [Encoders -> Owner]
  /\ crtcOwner \in [Crtcs -> Owner]
  /\ planeOwner \in [Planes -> Owner]

-----------------------------------------------------------------------------
(* The planes of the device that can be used with CRTC k, of one class.    *)
PlanesOfType(k, type) ==
  {p \in Planes : k \in PlaneCrtcs[p] /\ PlaneType[p] = type}

(***************************************************************************)
(* TryCreatePipeline(enc, crtc) succeeds: the encoder and the CRTC can be  *)
(* owned, the CRTC has exactly one primary plane and it can be taken.  On  *)
(* every early return the holders taken so far go out of scope, so a      *)
(* failed try leaves no claim behind.                                      *)
(***************************************************************************)
CanCreate(e, k) ==
  /\ encOwner[e] = NoOwner
  /\ crtcOwner[k] = NoOwner
  /\ \E p \in Planes : /\ PlanesOfType(k, "primary") = {p}
                       /\ planeOwner[p] = NoOwner

(* Fault variant for mutation testing: owned overlay planes not skipped.  *)
NewPipelineTakingOwnedOverlays(e, k) ==
  [enc |-> e, crtc |-> k,
   primary |-> CHOOSE p \in PlanesOfType(k, "primary") : TRUE,
   overlays |-> PlanesOfType(k, "overlay")]

(* The pipeline TryCreatePipeline builds: overlay planes that are already  *)
(* owned are skipped, cursor planes ignored.                               *)
NewPipeline(e, k) ==
  [enc |-> e, crtc |-> k,
   primary |-> CHOOSE p \in PlanesOfType(k, "primary") : TRUE,
   overlays |-> {p \in PlanesOfType(k, "overlay") : planeOwner[p] = NoOwner}]

(***************************************************************************)
(* The order in which CreatePipeline tries (encoder, CRTC) pairs.  Rank 0  *)
(* is the currently bound object (tried first when the kernel reports     *)
(* one), rank i > 0 the i-th object of the device.  The connector's        *)
(* current encoder `hint` is an input: the kernel reports it.              *)
(***************************************************************************)
EncoderOrder(c, hint) ==
  {[rank |-> 0, obj |-> x] : x \in {hint} \cap Encoders}
    \cup {[rank |-> e, obj |-> e] : e \in ConnEncoders[c]}

(* Fault variant for mutation testing: the search stops at the encoder's  *)
(* current CRTC when there is one.                                         *)
CrtcOrderHintOnly(e) ==
  IF EncCurrentCrtc[e] \in Crtcs
  THEN {[rank |-> 0, obj |-> EncCurrentCrtc[e]]}
  ELSE {[rank |-> k, obj |-> k] : k \in EncCrtcs[e]}

CrtcOrder(e) ==
  {[rank |-> 0, obj |-> x] : x \in {EncCurrentCrtc[e]} \cap Crtcs}
    \cup {[rank |-> k, obj |-> k] : k \in EncCrtcs[e]}

Candidates(c, hint) ==
  UNION {{[erank |-> x.rank, enc |-> x.obj, crank |-> y.rank, crtc |-> y.obj] :
            y \in CrtcOrder(x.obj)} : x \in EncoderOrder(c, hint)}

TriedBefore(a, b) ==
  \/ a.erank < b.erank
  \/ a.erank = b.erank /\ a.crank < b.crank

(* cand is the pair CreatePipeline returns: the first one that succeeds.   *)
FirstUsable(c, hint, cand) ==
  /\ CanCreate(cand.enc, cand.crtc)
  /\ \A other \in Candidates(c, hint) :
       TriedBefore(other, cand) => ~CanCreate(other.enc, other.crtc)

(* The objects held by the display of connector c.                         *)
EncHeld(c)   == IF pipeline[c] = NoPipeline THEN {} ELSE {pipeline[c].enc}
CrtcHeld(c)  == IF pipeline[c] = NoPipeline THEN {} ELSE {pipeline[c].crtc}
PlanesHeld(c) ==
  IF pipeline[c] = NoPipeline THEN {}
  ELSE {pipeline[c].primary} \cup pipeline[c].overlays

(* Install pipeline p for c: its holders set the objects' owner to c.      *)
Claim(c, p) ==
  /\ pipeline' = [pipeline EXCEPT ![c] = p]
  /\ encOwner' = [encOwner EXCEPT ![p.enc] = c]
  /\ crtcOwner' = [crtcOwner EXCEPT ![p.crtc] = c]
  /\ planeOwner' = [q \in Planes |->
                      IF q = p.primary \/ q \in p.overlays THEN c
                      ELSE planeOwner[q]]

(* Fault variant for mutation testing: overlay holders outlive the        *)
(* pipeline.                                                               *)
ReleaseKeepingOverlays(c) ==
  /\ pipeline' = [pipeline EXCEPT ![c] = NoPipeline]
  /\ encOwner' = [e \in Encoders |->
                    IF e \in EncHeld(c) THEN NoOwner ELSE encOwner[e]]
  /\ crtcOwner' = [k \in Crtcs |->
                     IF k \in CrtcHeld(c) THEN NoOwner ELSE crtcOwner[k]]
  /\ planeOwner' = [p \in Planes |->
                      IF pipeline[c] # NoPipeline /\ p = pipeline[c].primary
                      THEN NoOwner ELSE planeOwner[p]]

(* Destroying c's pipeline destroys its holders, which expire the owner    *)
(* reference of every object the pipeline holds.                          *)
Release(c) ==
  /\ pipeline' = [pipeline EXCEPT ![c] = NoPipeline]
  /\ encOwner' = [e \in Encoders |->
                    IF e \in EncHeld(c) THEN NoOwner ELSE encOwner[e]]
  /\ crtcOwner' = [k \in Crtcs |->
                     IF k \in CrtcHeld(c) THEN NoOwner ELSE crtcOwner[k]]
  /\ planeOwner' = [p \in Planes |->
                      IF p \in PlanesHeld(c) THEN NoOwner ELSE planeOwner[p]]

-----------------------------------------------------------------------------
Init ==
  /\ connected = [c \in Connectors |-> FALSE]
  /\ pipeline = [c \in Connectors |-> NoPipeline]
  /\ encOwner = [e \in Encoders |-> NoOwner]
  /\ crtcOwner = [k \in Crtcs |-> NoOwner]
  /\ planeOwner = [p \in Planes |-> NoOwner]

(***************************************************************************)
(* The display of c sees its connector connected (or is retried while it  *)
(* has no pipeline) and calls DrmDisplayPipeline::CreatePipeline.  When no *)
(* candidate succeeds it is left without a pipeline.                       *)
(***************************************************************************)
CreatePipeline(c, hint) ==
  /\ pipeline[c] = NoPipeline
  /\ connected' = [connected EXCEPT ![c] = TRUE]
  /\ \/ \E cand \in Candidates(c, hint) :
          /\ FirstUsable(c, hint, cand)
          /\ Claim(c, NewPipeline(cand.enc, cand.crtc))
     \/ /\ \A cand \in Candidates(c, hint) : ~CanCreate(cand.enc, cand.crtc)
        /\ UNCHANGED <<pipeline, encOwner, crtcOwner, planeOwner>>

(* The display of c sees its connector disconnected: its pipeline goes.    *)
DestroyPipeline(c) ==
  /\ connected[c]
  /\ connected' = [connected EXCEPT ![c] = FALSE]
  /\ Release(c)

Next ==
  \/ \E c \in Connectors, hint \in Encoders \cup {0} : CreatePipeline(c, hint)
  \/ \E c \in Connectors : DestroyPipeline(c)

Spec == Init /\ [][Next]_vars

-----------------------------------------------------------------------------
(***************************************************************************)
(* Properties.                                                             *)
(***************************************************************************)

(* The claim table agrees with the live pipelines: an object's owner is c  *)
(* exactly when c's pipeline holds it.  A holder that is not released, or  *)
(* an owner set without a holder, breaks it.                               *)
OwnershipConsistent ==
  \A c \in Connectors :
    /\ \A e \in Encoders : encOwner[e] = c <=> e \in EncHeld(c)
    /\ \A k \in Crtcs : crtcOwner[k] = c <=> k \in CrtcHeld(c)
    /\ \A p \in Planes : planeOwner[p] = c <=> p \in PlanesHeld(c)

(* No encoder, CRTC or plane is held by the pipelines of two displays      *)
(* (spec 4.1, the core invariant of OwnDrmObject / TakeDrmObject).         *)
ExclusiveOwnership ==
  \A c1, c2 \in Connectors : c1 # c2 =>
    /\ EncHeld(c1) \cap EncHeld(c2) = {}
    /\ CrtcHeld(c1) \cap CrtcHeld(c2) = {}
    /\ PlanesHeld(c1) \cap PlanesHeld(c2) = {}

(* No object stays claimed when no live pipeline holds it: destroying a    *)
(* pipeline releases every holder, overlay planes included.                *)
NoOrphanClaims ==
  /\ \A e \in Encoders : encOwner[e] # NoOwner => e \in EncHeld(encOwner[e])
  /\ \A k \in Crtcs : crtcOwner[k] # NoOwner => k \in CrtcHeld(crtcOwner[k])
  /\ \A p \in Planes :
       planeOwner[p] # NoOwner => p \in PlanesHeld(planeOwner[p])

(* A legal pipeline for c in the current state (spec 4.2): an encoder of   *)
(* the connector and a CRTC of the encoder, both free, and a CRTC with a   *)
(* single, free, primary plane.                                            *)
LegalPipelineExists(c) ==
  \E e \in ConnEncoders[c] : \E k \in EncCrtcs[e] :
    /\ encOwner[e] = NoOwner
    /\ crtcOwner[k] = NoOwner
    /\ \E p \in PlanesOfType(k, "primary") :
         /\ PlanesOfType(k, "primary") = {p}
         /\ planeOwner[p] = NoOwner

(* CreatePipeline leaves a display without a pipeline only when no legal   *)
(* pipeline exists: the fallback over all encoders and CRTCs is           *)
(* exhaustive, whatever the stale hints say.                               *)
BindComplete ==
  [][\A c \in Connectors :
       (\E hint \in Encoders \cup {0} : CreatePipeline(c, hint))
         /\ pipeline'[c] = NoPipeline
       => ~LegalPipelineExists(c)]_vars

-----------------------------------------------------------------------------
(***************************************************************************)
(* Refinement.  The owner tables, read as one owner function over all      *)
(* shared objects, behave as ObjectOwnership says: CreatePipeline is an    *)
(* Acquire (or nothing, when no pair is usable) and DestroyPipeline a      *)
(* ReleaseAll.                                                             *)
(***************************************************************************)
DrmObjects ==
  [kind : {"encoder"}, id : Encoders] \cup [kind : {"crtc"}, id : Crtcs]
    \cup [kind : {"plane"}, id : Planes]

ObjectOwner ==
  [o \in DrmObjects |->
     IF o.kind = "encoder" THEN encOwner[o.id]
     ELSE IF o.kind = "crtc" THEN crtcOwner[o.id]
     ELSE planeOwner[o.id]]

Abstract == INSTANCE ObjectOwnership
              WITH Holders <- Connectors, Objects <- DrmObjects,
                   NoHolder <- NoOwner, owner <- ObjectOwner

(* The binder implements the claim model: objects go from free to one      *)
(* display as a whole pipeline and come back only when that display's     *)
(* pipeline is destroyed.                                                  *)
ClaimModel == Abstract!Spec

=============================================================================
