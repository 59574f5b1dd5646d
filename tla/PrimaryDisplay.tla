--------------------------- MODULE PrimaryDisplay ---------------------------
(***************************************************************************)
(* Device enumeration, connector numbering and the choice of the primary   *)
(* display: ResourceManager::Init, AddDrmDevice, ReorderConnectors and     *)
(* MakePrimaryDisplayCandidates (src/drm/ResourceManager.cpp), where       *)
(* DrmDevice::Init can fail (src/drm/ResourceManager.h, the DrmDevice part) *)
(* and DrmHwcTwo::Init with the re-initialisation RegisterCallback makes   *)
(* while no display exists (src/hwc2_device/DrmHwcTwo.cpp).                *)
(*                                                                         *)
(* A device object is a record of drms_; a connector object is the pair    *)
(* <<position of its device in drms_, physical connector>>, so the same   *)
(* physical connector seen through two device objects is two objects.     *)
(* Each initialisation is one step: it runs on the consumer's thread       *)
(* before the uevent listener is started.                                 *)
(***************************************************************************)
EXTENDS Naturals, Sequences, SequencesExt, TLC

CONSTANTS
  NumNodes,        \* /dev/dri/card0 .. card<NumNodes-1> exist (stat succeeds)
  NodeKMS,         \* DrmDevice::IsKMSDev of each node
  NodeConns,       \* the non-writeback connectors of each node, in order
  Phys,            \* physical connectors
  ConnName,        \* DrmConnector::name()
  ConnType,        \* "internal", "external" or "invalid" (neither)
  FixedPath,       \* vendor.hwc.drm.device names one device (no '%')
  OrderChoices,    \* values of vendor.hwc.drm.primary_display_order, parsed
  MaxRegistrations \* bound on RegisterCallback(Hotplug) calls

Nodes == 0..(NumNodes - 1)
CatchAll == "..."

(* The outcomes of DrmDevice::Init: success; a failure before the         *)
(* connectors are created (open, client caps, master, resources); a       *)
(* failure after them (plane resources or a plane's Init).                *)
Outcomes == {"ok", "early", "late"}

(* The nodes ResourceManager::Init may open.                              *)
Opened == IF FixedPath THEN {0} ELSE {n \in Nodes : NodeKMS[n]}

ASSUME PrimaryAssumption ==
  /\ NumNodes \in Nat /\ MaxRegistrations \in Nat
  /\ NodeKMS \in [Nodes -> BOOLEAN]
  /\ NodeConns \in [Nodes -> Seq(Phys)]
  /\ ConnType \in [Phys -> {"internal", "external", "invalid"}]
  /\ FixedPath \in BOOLEAN
  /\ OrderChoices \subseteq Seq(STRING) \ {<<>>}
  \* the device vendor.hwc.drm.device names is node 0 of the node set
  /\ FixedPath => NumNodes > 0
  \* a connector belongs to the one card whose resources list it
  /\ \A n1, n2 \in Nodes :
       n1 # n2 => Range(NodeConns[n1]) \cap Range(NodeConns[n2]) = {}

VARIABLES
  order,        \* the parsed primary_display_order (read at each init)
  drms,         \* drms_: sequence of [node, outcome]
  connectors,   \* connectors_: display number -> connector object
  displays,     \* displays_ of DrmHwcTwo: handle -> connector object
  connected,    \* connection state of each physical connector at the last init
  initResult,   \* result of the last DrmHwcTwo::Init: "none", "ok", "failed"
  registrations,\* RegisterCallback(Hotplug) calls
  pastEnd       \* history: iter_swap was given the end iterator

vars == <<order, drms, connectors, displays, connected, initResult,
          registrations, pastEnd>>

ConnObj == (1..(MaxRegistrations * NumNodes)) \X Phys

TypeOK ==
  /\ order \in OrderChoices
  /\ drms \in Seq([node : Nodes, outcome : Outcomes])
  /\ DOMAIN connectors = 1..Cardinality(DOMAIN connectors)
  /\ Range(connectors) \subseteq ConnObj
  /\ DOMAIN displays = 0..(Cardinality(DOMAIN displays) - 1)
  /\ connected \in [Phys -> BOOLEAN]
  /\ initResult \in {"none", "ok", "failed"}
  /\ registrations \in 0..MaxRegistrations
  /\ pastEnd \in BOOLEAN

-----------------------------------------------------------------------------
(***************************************************************************)
(* ResourceManager::Init's device loop and AddDrmDevice.  A node whose     *)
(* device object already holds DRM master fails again before creating its *)
(* connectors (a second fd cannot become master).  The loop stops after   *)
(* the first device whose Init fails; the device is kept in drms_ anyway. *)
(***************************************************************************)
MasterNodes(ds) == {ds[j].node : j \in {j \in DOMAIN ds : ds[j].outcome # "early"}}

DeviceOutcome(n, choice) ==
  IF n \in MasterNodes(drms) THEN "early" ELSE choice[n]

(* AddDrmDevice: the device object is pushed whatever its Init returned. *)
NewDevice(n, choice) == [node |-> n, outcome |-> DeviceOutcome(n, choice)]

(* The error of the device loop: that of its last device, if it failed.   *)
LoopFailed(added) == added # <<>> /\ added[Len(added)].outcome # "ok"

(* The loop over idx: added[i] is what the first i nodes add.  A KMS node *)
(* is added while ret == 0; stat failing past the last node ends it.     *)
DeviceLoop(choice) ==
  LET added[i \in 0..NumNodes] ==
        IF i = 0 THEN <<>>
        ELSE IF LoopFailed(added[i - 1]) \/ ~NodeKMS[i - 1] THEN added[i - 1]
        ELSE Append(added[i - 1], NewDevice(i - 1, choice))
  IN  added

DevicesAdded(choice) ==
  IF FixedPath THEN <<NewDevice(0, choice)>>
  ELSE DeviceLoop(choice)[NumNodes]

(* DrmDevice::GetConnectors of every device in drms_, in order.           *)
DevConns(ds, j) ==
  IF ds[j].outcome = "early" THEN <<>>
  ELSE [i \in DOMAIN NodeConns[ds[j].node] |-> <<j, NodeConns[ds[j].node][i]>>]

(* all[j]: the connectors of the first j devices.                         *)
ConnectorLoop(ds) ==
  LET all[j \in 0..Len(ds)] ==
        IF j = 0 THEN <<>> ELSE all[j - 1] \o DevConns(ds, j)
  IN  all

AllConnectors(ds) == ConnectorLoop(ds)[Len(ds)]

-----------------------------------------------------------------------------
(***************************************************************************)
(* MakePrimaryDisplayCandidates.  The connected connectors, then for each *)
(* name of the order list the first candidate of that name (searched in  *)
(* the whole vector) is swapped to the current position, which advances.  *)
(* With a name listed twice the current position can reach end(), and   *)
(* iter_swap with it is undefined: the flag records it and the sequence  *)
(* is left as it was.                                                      *)
(***************************************************************************)
Swap(s, i, j) == [s EXCEPT ![i] = s[j], ![j] = s[i]]

PlaceListed(st, name) ==
  LET it == SelectInSeq(st.seq, LAMBDA c : ConnName[c[2]] = name)
  IN  IF it = 0 THEN st
      ELSE IF st.curr > Len(st.seq)
      THEN [st EXCEPT !.curr = @ + 1, !.pastEnd = TRUE]
      ELSE [st EXCEPT !.seq = Swap(@, it, st.curr), !.curr = @ + 1]

(* The remove_if of the connectors whose state is not connected:         *)
(* sel[k] keeps the connected ones among the first k.                     *)
ConnectedLoop(all, conn) ==
  LET sel[k \in 0..Len(all)] ==
        IF k = 0 THEN <<>>
        ELSE IF conn[all[k][2]] THEN Append(sel[k - 1], all[k])
        ELSE sel[k - 1]
  IN  sel

(* st[k]: the candidates after the first k names of the order list.      *)
PlaceLoop(all, conn, ord) ==
  LET st[k \in 0..Len(ord)] ==
        IF k = 0
        THEN [seq |-> ConnectedLoop(all, conn)[Len(all)], curr |-> 1,
              pastEnd |-> FALSE]
        ELSE PlaceListed(st[k - 1], ord[k])
  IN  st

Placed(all, conn, ord) == PlaceLoop(all, conn, ord)[Len(ord)]

(***************************************************************************)
(* The first candidate, i.e. what ReorderConnectors tries as primary.    *)
(* With the catch-all marker last, the unplaced rest is std::partition-ed *)
(* internal first; the standard leaves the order unspecified, so the head *)
(* is any internal connector of the rest when its first is not internal.  *)
(* Without the marker the rest is erased.                                 *)
(***************************************************************************)
Internal(c) == ConnType[c[2]] = "internal"

FirstCandidates(st, ord) ==
  LET rest == SubSeq(st.seq, st.curr, Len(st.seq))
      ints == {rest[k] : k \in {k \in DOMAIN rest : Internal(rest[k])}}
  IN  IF st.curr > 1 THEN {st.seq[1]}
      ELSE IF ord[Len(ord)] # CatchAll \/ rest = <<>> THEN {}
      ELSE IF Internal(rest[1]) \/ ints = {} THEN {rest[1]}
      ELSE ints

(***************************************************************************)
(* ReorderConnectors' numbering: the primary gets number 1 if it can be   *)
(* owned, then every internal or external connector that can be owned     *)
(* gets the next number.  connectors_[n] = holder replaces an older holder *)
(* at n, which releases that connector.                                    *)
(***************************************************************************)
Owned(map) == Range(map)

Own(st, c) ==
  [map |-> [k \in DOMAIN st.map \cup {st.num} |->
              IF k = st.num THEN c ELSE st.map[k]],
   num |-> st.num + 1]

NumberConnectorUnowned(st, c) ==
  IF ConnType[c[2]] \in {"internal", "external"} THEN Own(st, c) ELSE st

NumberConnector(st, c) ==
  IF ConnType[c[2]] \in {"internal", "external"} /\ c \notin Owned(st.map)
  THEN Own(st, c) ELSE st

(* The primary, owned first as number 1 when it can be.                  *)
PrimaryNumbered(firstSet) ==
  LET start == [map |-> connectors, num |-> 1]
  IN  IF firstSet = {} THEN start
      ELSE LET p == CHOOSE p \in firstSet : TRUE
           IN  IF p \in Owned(connectors) THEN start ELSE Own(start, p)

(* st[k]: the numbering after the first k connectors of all_connectors.   *)
NumberLoop(all, st0) ==
  LET st[k \in 0..Len(all)] ==
        IF k = 0 THEN st0 ELSE NumberConnector(st[k - 1], all[k])
  IN  st

Numbered(all, firstSet) ==
  NumberLoop(all, PrimaryNumbered(firstSet))[Len(all)].map

(* The primary candidate as a set of at most one element.                 *)
Heads(S) == IF S = {} THEN {{}} ELSE {{p} : p \in S}

(* The key of a std::map with h smaller keys: the one its iteration     *)
(* visits (h + 1)-th.                                                      *)
KeyRank(D, h) == CHOOSE k \in D : Cardinality({x \in D : x < k}) = h

(* DrmHwcTwo::Init's display loop: one display per connectors_ entry, in  *)
(* key order, with handles counting up from kPrimaryDisplay (0).           *)
CreateDisplaysFromOne(map) ==
  [h \in 1..Cardinality(DOMAIN map) |-> map[KeyRank(DOMAIN map, h - 1)]]

CreateDisplays(map) ==
  [h \in 0..(Cardinality(DOMAIN map) - 1) |-> map[KeyRank(DOMAIN map, h)]]

-----------------------------------------------------------------------------
Init ==
  /\ order \in OrderChoices
  /\ drms = <<>>
  /\ connectors = <<>>
  /\ displays = <<>>
  /\ connected = [p \in Phys |-> FALSE]
  /\ initResult = "none"
  /\ registrations = 0
  /\ pastEnd = FALSE

(***************************************************************************)
(* DrmHwcTwo::Init: ResourceManager::Init (the device loop, then           *)
(* ReorderConnectors; an empty connectors_ returns -EINVAL only when the  *)
(* loop failed, else 0; then the buffer-info getter and the uevent        *)
(* listener must start), then one display per connectors_ entry in key    *)
(* order from handle 0.  The hotplug handler it registers is not state. *)
(***************************************************************************)
HwcInit ==
  \E choice \in [Opened -> Outcomes], conn \in [Phys -> BOOLEAN],
     bufOk, ueventOk \in BOOLEAN :
    LET added == DevicesAdded(choice)
        ds == drms \o added
        all == AllConnectors(ds)
        st == Placed(all, conn, order)
    IN  \E first \in Heads(FirstCandidates(st, order)) :
        LET map == Numbered(all, first)
            rmOk == IF DOMAIN map = {} THEN ~LoopFailed(added)
                    ELSE bufOk /\ ueventOk
        IN  /\ drms' = ds
            /\ connectors' = map
            /\ connected' = conn
            /\ pastEnd' = (pastEnd \/ st.pastEnd)
            /\ displays' = IF rmOk
                           THEN CreateDisplays(map)
                           ELSE displays
            /\ initResult' = IF rmOk THEN "ok" ELSE "failed"

(* RegisterCallback(Hotplug): initialise when there is no display yet.    *)
RegisterHotplugCallback ==
  /\ registrations < MaxRegistrations
  /\ registrations' = registrations + 1
  /\ IF displays = <<>> THEN HwcInit
     ELSE UNCHANGED <<drms, connectors, displays, connected, initResult,
                      pastEnd>>
  /\ UNCHANGED order

Next == RegisterHotplugCallback

Spec == Init /\ [][Next]_vars

-----------------------------------------------------------------------------
(***************************************************************************)
(* Numbering: no physical connector has two display numbers (even across  *)
(* re-initialisations that add device objects again), and display handle h *)
(* drives the connector of display number h + 1 (ReorderConnectors and the *)
(* display loop of DrmHwcTwo::Init agree).                                 *)
(***************************************************************************)
NumberingConsistent ==
  /\ \A k1, k2 \in DOMAIN connectors :
       k1 # k2 => connectors[k1][2] # connectors[k2][2]
  /\ \A h \in DOMAIN displays : displays[h] = connectors[h + 1]

(* MakePrimaryDisplayCandidates never hands the end iterator to iter_swap. *)
NoSwapPastEnd == ~pastEnd

(* The listed connectors move to the front in the list's order, so the    *)
(* primary (display handle 0) is the connected connector whose name comes *)
(* first in primary_display_order (spec 4.3, step 2), whatever the list  *)
(* repeats; MakePrimaryDisplayCandidates's swap loop is what decides it.  *)
PrimaryListed ==
  LET cands == {c[2] : c \in Range(AllConnectors(drms))}
                 \cap {p \in Phys : connected[p]}
      named == {i \in DOMAIN order : \E p \in cands : ConnName[p] = order[i]}
  IN  displays # <<>> /\ named # {} =>
        ConnName[displays[0][2]] = order[Min(named)]

=============================================================================
