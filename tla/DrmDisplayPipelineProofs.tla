---------------------- MODULE DrmDisplayPipelineProofs ----------------------
(***************************************************************************)
(* Proofs about DrmDisplayPipeline for every topology that satisfies       *)
(* TopologyAssumption: the claim table always agrees with the live         *)
(* pipelines, hence no object is held by two displays and no claim is      *)
(* orphaned.                                                               *)
(***************************************************************************)
EXTENDS DrmDisplayPipeline, TLAPS

(* The inductive invariant: types, and owner = c exactly when c holds it.  *)
IInv == TypeOK /\ OwnershipConsistent

(* Every candidate pair names an encoder and a CRTC of the device.         *)
LEMMA CandidateType ==
  ASSUME NEW c \in Connectors, NEW hint \in Encoders \cup {0},
         NEW cand \in Candidates(c, hint)
  PROVE  cand.enc \in Encoders /\ cand.crtc \in Crtcs
BY TopologyAssumption DEF Candidates, EncoderOrder, CrtcOrder

(* A pipeline built from a usable pair is a Pipeline whose objects were    *)
(* all free before the step.                                               *)
LEMMA NewPipelineFree ==
  ASSUME TypeOK, NEW e \in Encoders, NEW k \in Crtcs, CanCreate(e, k)
  PROVE  /\ NewPipeline(e, k) \in Pipeline
         /\ encOwner[e] = NoOwner
         /\ crtcOwner[k] = NoOwner
         /\ planeOwner[NewPipeline(e, k).primary] = NoOwner
         /\ \A q \in NewPipeline(e, k).overlays : planeOwner[q] = NoOwner
<1>1. PICK p \in Planes : /\ PlanesOfType(k, "primary") = {p}
                          /\ planeOwner[p] = NoOwner
  BY DEF CanCreate
<1>2. NewPipeline(e, k).primary = p
  BY <1>1 DEF NewPipeline
<1>3. NewPipeline(e, k).overlays \subseteq Planes
  BY DEF NewPipeline, PlanesOfType
<1>4. QED
  BY <1>1, <1>2, <1>3 DEF CanCreate, NewPipeline, Pipeline

LEMMA InitIInv == Init => IInv
BY NoPipelineAssumption, TopologyAssumption
   DEF Init, IInv, TypeOK, Owner, OwnershipConsistent, EncHeld, CrtcHeld,
       PlanesHeld

(* A successful CreatePipeline installs a pipeline of free objects.        *)
LEMMA ClaimIInv ==
  ASSUME IInv, NEW c \in Connectors, pipeline[c] = NoPipeline,
         NEW e \in Encoders, NEW k \in Crtcs, CanCreate(e, k),
         Claim(c, NewPipeline(e, k)),
         connected' = [connected EXCEPT ![c] = TRUE]
  PROVE  IInv'
<1> DEFINE p == NewPipeline(e, k)
<1>1. /\ p \in Pipeline
      /\ encOwner[e] = NoOwner /\ crtcOwner[k] = NoOwner
      /\ planeOwner[p.primary] = NoOwner
      /\ \A q \in p.overlays : planeOwner[q] = NoOwner
  BY NewPipelineFree DEF IInv
<1>2. p.enc = e /\ p.crtc = k
  BY DEF NewPipeline
<1>3. TypeOK'
  BY <1>1, <1>2 DEF IInv, TypeOK, Claim, Owner
<1>4. ASSUME NEW d \in Connectors PROVE
        /\ \A x \in Encoders : encOwner'[x] = d <=> x \in EncHeld(d)'
        /\ \A x \in Crtcs : crtcOwner'[x] = d <=> x \in CrtcHeld(d)'
        /\ \A x \in Planes : planeOwner'[x] = d <=> x \in PlanesHeld(d)'
  <2>0. pipeline'[c] = p /\ p # NoPipeline /\ EncHeld(c) = {}
        /\ CrtcHeld(c) = {} /\ PlanesHeld(c) = {}
    BY <1>1, NoPipelineAssumption
    DEF IInv, TypeOK, Claim, EncHeld, CrtcHeld, PlanesHeld
  <2>1. CASE d = c
    <3>1. \A x \in Encoders : encOwner'[x] = d <=> x \in EncHeld(d)'
      BY <1>1, <1>2, <2>0, <2>1
      DEF IInv, TypeOK, OwnershipConsistent, Claim, EncHeld
    <3>2. \A x \in Crtcs : crtcOwner'[x] = d <=> x \in CrtcHeld(d)'
      BY <1>1, <1>2, <2>0, <2>1
      DEF IInv, TypeOK, OwnershipConsistent, Claim, CrtcHeld
    <3>3. \A x \in Planes : planeOwner'[x] = d <=> x \in PlanesHeld(d)'
      BY <1>1, <1>2, <2>0, <2>1
      DEF IInv, TypeOK, OwnershipConsistent, Claim, PlanesHeld
    <3>4. QED
      BY <3>1, <3>2, <3>3
  <2>2. CASE d # c
    BY <1>1, <1>2, <2>2, TopologyAssumption
    DEF IInv, TypeOK, OwnershipConsistent, Claim, EncHeld, CrtcHeld,
        PlanesHeld
  <2>3. QED
    BY <2>1, <2>2
<1>5. QED
  BY <1>3, <1>4 DEF IInv, OwnershipConsistent

(* Destroying a pipeline releases exactly the objects it holds.            *)
LEMMA ReleaseIInv ==
  ASSUME IInv, NEW c \in Connectors, Release(c),
         connected' = [connected EXCEPT ![c] = FALSE]
  PROVE  IInv'
<1>1. TypeOK'
  BY NoPipelineAssumption DEF IInv, TypeOK, Release, Owner
<1>2. ASSUME NEW d \in Connectors PROVE
        /\ \A x \in Encoders : encOwner'[x] = d <=> x \in EncHeld(d)'
        /\ \A x \in Crtcs : crtcOwner'[x] = d <=> x \in CrtcHeld(d)'
        /\ \A x \in Planes : planeOwner'[x] = d <=> x \in PlanesHeld(d)'
  <2>1. CASE d = c
    BY <2>1, TopologyAssumption
    DEF IInv, TypeOK, OwnershipConsistent, Release, EncHeld, CrtcHeld,
        PlanesHeld
  <2>2. CASE d # c
    BY <2>2, TopologyAssumption
    DEF IInv, TypeOK, OwnershipConsistent, Release, EncHeld, CrtcHeld,
        PlanesHeld
  <2>3. QED
    BY <2>1, <2>2
<1>3. QED
  BY <1>1, <1>2 DEF IInv, OwnershipConsistent

LEMMA NextIInv == IInv /\ [Next]_vars => IInv'
<1> SUFFICES ASSUME IInv, [Next]_vars PROVE IInv'
  OBVIOUS
<1>1. ASSUME NEW c \in Connectors, NEW hint \in Encoders \cup {0},
             CreatePipeline(c, hint)
      PROVE  IInv'
  <2>1. CASE \E cand \in Candidates(c, hint) :
               /\ FirstUsable(c, hint, cand)
               /\ Claim(c, NewPipeline(cand.enc, cand.crtc))
    <3>1. PICK cand \in Candidates(c, hint) :
               /\ FirstUsable(c, hint, cand)
               /\ Claim(c, NewPipeline(cand.enc, cand.crtc))
      BY <2>1
    <3>2. cand.enc \in Encoders /\ cand.crtc \in Crtcs
      BY CandidateType
    <3>3. QED
      BY <1>1, <3>1, <3>2, ClaimIInv DEF CreatePipeline, FirstUsable
  <2>2. CASE UNCHANGED <<pipeline, encOwner, crtcOwner, planeOwner>>
    BY <1>1, <2>2
    DEF CreatePipeline, IInv, TypeOK, OwnershipConsistent, EncHeld,
        CrtcHeld, PlanesHeld
  <2>3. QED
    BY <1>1, <2>1, <2>2 DEF CreatePipeline
<1>2. ASSUME NEW c \in Connectors, DestroyPipeline(c) PROVE IInv'
  BY <1>2, ReleaseIInv DEF DestroyPipeline
<1>3. CASE UNCHANGED vars
  BY <1>3 DEF vars, IInv, TypeOK, OwnershipConsistent, EncHeld, CrtcHeld,
     PlanesHeld
<1>4. QED
  BY <1>1, <1>2, <1>3 DEF Next

(* The type invariant holds in every reachable state.                      *)
THEOREM TypeCorrect == Spec => []TypeOK
<1>1. IInv => TypeOK
  BY DEF IInv
<1>2. QED
  BY <1>1, InitIInv, NextIInv, PTL DEF Spec

(* ExclusiveOwnership: for every topology, the pipelines of two displays   *)
(* never share an encoder, a CRTC or a plane (OwnDrmObject/TakeDrmObject   *)
(* in TryCreatePipeline, and the holders released with the pipeline).      *)
THEOREM Exclusive == Spec => []ExclusiveOwnership
<1>1. IInv => ExclusiveOwnership
  <2> SUFFICES ASSUME IInv, NEW c1 \in Connectors, NEW c2 \in Connectors,
                      c1 # c2
               PROVE  /\ EncHeld(c1) \cap EncHeld(c2) = {}
                      /\ CrtcHeld(c1) \cap CrtcHeld(c2) = {}
                      /\ PlanesHeld(c1) \cap PlanesHeld(c2) = {}
    BY DEF ExclusiveOwnership
  <2>1. /\ EncHeld(c1) \subseteq Encoders
        /\ CrtcHeld(c1) \subseteq Crtcs
        /\ PlanesHeld(c1) \subseteq Planes
    BY DEF IInv, TypeOK, Pipeline, EncHeld, CrtcHeld, PlanesHeld
  <2>2. QED
    BY <2>1 DEF IInv, OwnershipConsistent
<1>2. QED
  BY <1>1, InitIInv, NextIInv, PTL DEF Spec

(* NoOrphanClaims: every claimed object is held by its owner's pipeline.   *)
THEOREM NoOrphans == Spec => []NoOrphanClaims
<1>1. IInv => NoOrphanClaims
  BY DEF IInv, TypeOK, Owner, OwnershipConsistent, NoOrphanClaims
<1>2. QED
  BY <1>1, InitIInv, NextIInv, PTL DEF Spec

-----------------------------------------------------------------------------
(***************************************************************************)
(* Refinement of ObjectOwnership.                                          *)
(***************************************************************************)

(* The shared objects a pipeline holds, as abstract objects.               *)
PipelineObjects(p) ==
  {[kind |-> "encoder", id |-> p.enc], [kind |-> "crtc", id |-> p.crtc]}
    \cup {[kind |-> "plane", id |-> q] : q \in {p.primary} \cup p.overlays}

LEMMA InitRefines == Init => Abstract!Init
BY DEF Init, Abstract!Init, ObjectOwner, DrmObjects

(* A display without a pipeline owns no object.                            *)
LEMMA HoldsNothing ==
  ASSUME IInv, NEW c \in Connectors, pipeline[c] = NoPipeline
  PROVE  \A o \in DrmObjects : ObjectOwner[o] # c
BY DEF IInv, OwnershipConsistent, EncHeld, CrtcHeld, PlanesHeld, ObjectOwner,
       DrmObjects

(* A successful CreatePipeline is an Acquire of its pipeline's objects.    *)
LEMMA ClaimRefines ==
  ASSUME IInv, NEW c \in Connectors, pipeline[c] = NoPipeline,
         NEW e \in Encoders, NEW k \in Crtcs, CanCreate(e, k),
         Claim(c, NewPipeline(e, k))
  PROVE  Abstract!Acquire(c, PipelineObjects(NewPipeline(e, k)))
<1> DEFINE p == NewPipeline(e, k)
           S == PipelineObjects(p)
<1>1. /\ p \in Pipeline
      /\ encOwner[e] = NoOwner /\ crtcOwner[k] = NoOwner
      /\ planeOwner[p.primary] = NoOwner
      /\ \A q \in p.overlays : planeOwner[q] = NoOwner
      /\ p.enc = e /\ p.crtc = k
  BY NewPipelineFree DEF IInv, NewPipeline
<1>2. \A o \in DrmObjects : ObjectOwner[o] # c
  BY HoldsNothing
<1>3. S \subseteq Abstract!Free
  BY <1>1 DEF Abstract!Free, ObjectOwner, DrmObjects, PipelineObjects,
              Pipeline
<1>4. ASSUME NEW o \in DrmObjects
      PROVE  ObjectOwner'[o] = IF o \in S THEN c ELSE ObjectOwner[o]
  <2>1. CASE o.kind = "encoder"
    <3>1. o = [kind |-> "encoder", id |-> o.id] /\ o.id \in Encoders
      BY <2>1 DEF DrmObjects
    <3>2. o \in S <=> o.id = e
      BY <1>1, <3>1 DEF PipelineObjects
    <3>3. QED
      BY <1>1, <2>1, <3>1, <3>2
      DEF IInv, TypeOK, Claim, ObjectOwner, DrmObjects
  <2>2. CASE o.kind = "crtc"
    <3>1. o = [kind |-> "crtc", id |-> o.id] /\ o.id \in Crtcs
      BY <2>2 DEF DrmObjects
    <3>2. o \in S <=> o.id = k
      BY <1>1, <3>1 DEF PipelineObjects
    <3>3. QED
      BY <1>1, <2>2, <3>1, <3>2
      DEF IInv, TypeOK, Claim, ObjectOwner, DrmObjects
  <2>3. CASE o.kind = "plane"
    BY <1>1, <2>3 DEF Claim, ObjectOwner, DrmObjects, PipelineObjects
  <2>4. QED
    BY <2>1, <2>2, <2>3 DEF DrmObjects
<1>5. ObjectOwner' = [o \in DrmObjects |-> IF o \in S THEN c ELSE ObjectOwner[o]]
  BY <1>4 DEF ObjectOwner
<1>6. QED
  BY <1>2, <1>3, <1>5 DEF Abstract!Acquire

(* DestroyPipeline is a ReleaseAll: the objects its pipeline holds are     *)
(* exactly those owned by the display.                                     *)
LEMMA ReleaseRefines ==
  ASSUME IInv, NEW c \in Connectors, Release(c)
  PROVE  Abstract!ReleaseAll(c)
<1>1. ASSUME NEW o \in DrmObjects
      PROVE  ObjectOwner'[o] =
               IF ObjectOwner[o] = c THEN NoOwner ELSE ObjectOwner[o]
  <2>1. CASE o.kind = "encoder"
    BY <2>1 DEF IInv, OwnershipConsistent, Release, ObjectOwner, DrmObjects
  <2>2. CASE o.kind = "crtc"
    BY <2>2 DEF IInv, OwnershipConsistent, Release, ObjectOwner, DrmObjects
  <2>3. CASE o.kind = "plane"
    BY <2>3 DEF IInv, OwnershipConsistent, Release, ObjectOwner, DrmObjects
  <2>4. QED
    BY <2>1, <2>2, <2>3 DEF DrmObjects
<1>2. QED
  BY <1>1 DEF Abstract!ReleaseAll, ObjectOwner

LEMMA NextRefines == IInv /\ [Next]_vars => [Abstract!Next]_ObjectOwner
<1> SUFFICES ASSUME IInv, [Next]_vars PROVE [Abstract!Next]_ObjectOwner
  OBVIOUS
<1>1. ASSUME NEW c \in Connectors, NEW hint \in Encoders \cup {0},
             CreatePipeline(c, hint)
      PROVE  [Abstract!Next]_ObjectOwner
  <2>1. CASE \E cand \in Candidates(c, hint) :
               /\ FirstUsable(c, hint, cand)
               /\ Claim(c, NewPipeline(cand.enc, cand.crtc))
    <3>1. PICK cand \in Candidates(c, hint) :
               /\ FirstUsable(c, hint, cand)
               /\ Claim(c, NewPipeline(cand.enc, cand.crtc))
      BY <2>1
    <3>2. cand.enc \in Encoders /\ cand.crtc \in Crtcs
      BY CandidateType
    <3>3. Abstract!Acquire(c, PipelineObjects(NewPipeline(cand.enc, cand.crtc)))
      BY <1>1, <3>1, <3>2, ClaimRefines DEF CreatePipeline, FirstUsable
    <3>4. NewPipeline(cand.enc, cand.crtc) \in Pipeline
      BY <3>1, <3>2, NewPipelineFree DEF FirstUsable, IInv
    <3>5. PipelineObjects(NewPipeline(cand.enc, cand.crtc)) \in SUBSET DrmObjects
      BY <3>4 DEF PipelineObjects, DrmObjects, Pipeline
    <3>6. QED
      BY <3>3, <3>5 DEF Abstract!Next
  <2>2. CASE UNCHANGED <<pipeline, encOwner, crtcOwner, planeOwner>>
    BY <2>2 DEF ObjectOwner
  <2>3. QED
    BY <1>1, <2>1, <2>2 DEF CreatePipeline
<1>2. ASSUME NEW c \in Connectors, DestroyPipeline(c)
      PROVE  [Abstract!Next]_ObjectOwner
  BY <1>2, ReleaseRefines DEF DestroyPipeline, Abstract!Next
<1>3. CASE UNCHANGED vars
  BY <1>3 DEF vars, ObjectOwner
<1>4. QED
  BY <1>1, <1>2, <1>3 DEF Next

(* ClaimModel: for every topology, the binder implements the claim model   *)
(* of spec 4.1 (CreatePipeline takes only free objects, all at once, for   *)
(* a display holding none; destroying the pipeline gives all of them back). *)
THEOREM Refinement == Spec => ClaimModel
<1>1. Init => Abstract!Init
  BY InitRefines
<1>2. IInv /\ [Next]_vars => [Abstract!Next]_ObjectOwner
  BY NextRefines
<1>3. QED
  BY <1>1, <1>2, InitIInv, NextIInv, PTL DEF Spec, ClaimModel, Abstract!Spec


-----------------------------------------------------------------------------
(***************************************************************************)
(* The search of CreatePipeline is exhaustive.  A legal pipeline of c is   *)
(* an encoder of ConnEncoders[c] and a CRTC of EncCrtcs[e] that can be     *)
(* taken; the fallback ranks of EncoderOrder and CrtcOrder list that pair  *)
(* whatever the hints, so it is one of the candidates.                     *)
(***************************************************************************)
LEMMA LegalIsCandidate ==
  ASSUME NEW c \in Connectors, NEW hint \in Encoders \cup {0},
         NEW e \in ConnEncoders[c], NEW k \in EncCrtcs[e]
  PROVE  [erank |-> e, enc |-> e, crank |-> k, crtc |-> k]
           \in Candidates(c, hint)
<1>1. [rank |-> e, obj |-> e] \in EncoderOrder(c, hint)
  BY DEF EncoderOrder
<1>2. [rank |-> k, obj |-> k] \in CrtcOrder(e)
  BY DEF CrtcOrder
<1>3. QED
  BY <1>1, <1>2 DEF Candidates

(* A create step that leaves c without a pipeline found no usable pair,    *)
(* and so no legal pipeline existed when it ran.                           *)
LEMMA CreateFailsOnlyWhenNoneLegal ==
  ASSUME TypeOK, NEW c \in Connectors, NEW hint \in Encoders \cup {0},
         CreatePipeline(c, hint), pipeline'[c] = NoPipeline
  PROVE  ~LegalPipelineExists(c)
<1> SUFFICES ASSUME LegalPipelineExists(c) PROVE FALSE
  OBVIOUS
<1>1. PICK e \in ConnEncoders[c] : \E k \in EncCrtcs[e] :
        /\ encOwner[e] = NoOwner
        /\ crtcOwner[k] = NoOwner
        /\ \E p \in PlanesOfType(k, "primary") :
             /\ PlanesOfType(k, "primary") = {p}
             /\ planeOwner[p] = NoOwner
  BY DEF LegalPipelineExists
<1>2. PICK k \in EncCrtcs[e] :
        /\ encOwner[e] = NoOwner
        /\ crtcOwner[k] = NoOwner
        /\ \E p \in PlanesOfType(k, "primary") :
             /\ PlanesOfType(k, "primary") = {p}
             /\ planeOwner[p] = NoOwner
  BY <1>1
<1>3. CanCreate(e, k)
  BY <1>2 DEF CanCreate, PlanesOfType
<1>4. ~\A cand \in Candidates(c, hint) : ~CanCreate(cand.enc, cand.crtc)
  BY <1>3, LegalIsCandidate
<1>5. PICK cand \in Candidates(c, hint) :
        /\ FirstUsable(c, hint, cand)
        /\ Claim(c, NewPipeline(cand.enc, cand.crtc))
  BY <1>4 DEF CreatePipeline
<1>6. cand.enc \in Encoders /\ cand.crtc \in Crtcs
  BY CandidateType
<1>7. NewPipeline(cand.enc, cand.crtc) \in Pipeline
  BY <1>5, <1>6, NewPipelineFree DEF FirstUsable
<1>8. pipeline'[c] = NewPipeline(cand.enc, cand.crtc)
  BY <1>5 DEF Claim, TypeOK
<1>9. QED
  BY <1>7, <1>8, NoPipelineAssumption

(* Checked by the pipeline_binding run: no create step gives up while a legal *)
(* pipeline exists (CreatePipeline's fallback search over every encoder    *)
(* and CRTC of the device), for every topology.                            *)
THEOREM SearchExhaustive == Spec => BindComplete
<1>1. TypeOK /\ [Next]_vars =>
        [\A c \in Connectors :
           (\E hint \in Encoders \cup {0} : CreatePipeline(c, hint))
             /\ pipeline'[c] = NoPipeline
           => ~LegalPipelineExists(c)]_vars
  BY CreateFailsOnlyWhenNoneLegal
<1>2. IInv => TypeOK
  BY DEF IInv
<1>3. QED
  BY <1>1, <1>2, InitIInv, NextIInv, PTL DEF Spec, BindComplete

=============================================================================
