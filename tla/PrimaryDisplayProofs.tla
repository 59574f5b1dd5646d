------------------------ MODULE PrimaryDisplayProofs ------------------------
(***************************************************************************)
(* Proofs about PrimaryDisplay: the numbering of connectors that           *)
(* ResourceManager::ReorderConnectors builds and the displays              *)
(* DrmHwcTwo::Init creates from it stay consistent across every           *)
(* re-initialisation, for all node sets, connector lists and order lists. *)
(*                                                                         *)
(* Each loop of the code is a recursive function over 0..n in the model;   *)
(* a lemma unfolds it, and a lemma per loop gives what every prefix of    *)
(* the loop keeps.                                                          *)
(***************************************************************************)
EXTENDS PrimaryDisplay, NaturalsInduction, WellFoundedInduction,
        FiniteSetTheorems, SequenceTheorems, TLAPS

(* A device object of drms_.                                               *)
DevRec == [node : Nodes, outcome : Outcomes]

(* The device objects whose Init got past creating their connectors.      *)
Live(ds) == {j \in DOMAIN ds : ds[j].outcome # "early"}

(* At most one live device object per node.                               *)
OneLivePerNode(ds) ==
  \A j1, j2 \in Live(ds) : ds[j1].node = ds[j2].node => j1 = j2

(* The connector objects those device objects own.                        *)
Objs(ds) == UNION {{<<j, p>> : p \in Range(NodeConns[ds[j].node])} : j \in Live(ds)}

(***************************************************************************)
(* The inductive invariant: at most one live device object per node (a    *)
(* second one fails to become master before it creates connectors),       *)
(* connectors_ numbers live connector objects 1..n without repetition,    *)
(* and displays_ is empty or built from connectors_ in key order.          *)
(***************************************************************************)
NumberingInv ==
  /\ order \in OrderChoices
  /\ drms \in Seq(DevRec)
  /\ Len(drms) <= registrations * NumNodes
  /\ OneLivePerNode(drms)
  /\ connectors \in Seq(Objs(drms))
  /\ IsInjective(connectors)
  /\ displays = <<>> \/ displays = CreateDisplays(connectors)
  /\ connected \in [Phys -> BOOLEAN]
  /\ initResult \in {"none", "ok", "failed"}
  /\ registrations \in 0..MaxRegistrations
  /\ pastEnd \in BOOLEAN

-----------------------------------------------------------------------------
(* A non-empty set of naturals has an element no other is below.          *)
LEMMA LeastNat ==
  ASSUME NEW S \in SUBSET Nat, S # {}
  PROVE  \E m \in S : \A y \in S : m <= y
<1>1. \E x \in S : \A y \in S : ~(<<y, x>> \in OpToRel(<, Nat))
  BY NatLessThanWellFounded, WFMin
<1>2. PICK x \in S : \A y \in S : ~(<<y, x>> \in OpToRel(<, Nat))
  BY <1>1
<1>3. OpToRel(<, Nat) = {ss \in Nat \X Nat : ss[1] < ss[2]}
  BY DEF OpToRel
<1>4. \A y \in S : ~(y < x)
  BY <1>2, <1>3
<1>. QED
  BY <1>4

LEMMA NumNodesNat == NumNodes \in Nat
BY PrimaryAssumption

(* The device loop unfolds one idx at a time.                              *)
LEMMA DeviceLoopDef ==
  ASSUME NEW choice
  PROVE  FiniteNatInductiveDefConclusion(DeviceLoop(choice), <<>>,
           LAMBDA v, i : IF LoopFailed(v) \/ ~NodeKMS[i - 1] THEN v
                         ELSE Append(v, NewDevice(i - 1, choice)),
           0, NumNodes)
<1>1. FiniteNatInductiveDefHypothesis(DeviceLoop(choice), <<>>,
           LAMBDA v, i : IF LoopFailed(v) \/ ~NodeKMS[i - 1] THEN v
                         ELSE Append(v, NewDevice(i - 1, choice)),
           0, NumNodes)
  BY DEF FiniteNatInductiveDefHypothesis, DeviceLoop
<1>. QED
  BY <1>1, NumNodesNat, FiniteNatInductiveDef

(* all_connectors grows by the connectors of one device at a time.        *)
LEMMA ConnectorLoopDef ==
  ASSUME NEW ds \in Seq(DevRec)
  PROVE  FiniteNatInductiveDefConclusion(ConnectorLoop(ds), <<>>,
           LAMBDA v, j : v \o DevConns(ds, j), 0, Len(ds))
<1>1. FiniteNatInductiveDefHypothesis(ConnectorLoop(ds), <<>>,
           LAMBDA v, j : v \o DevConns(ds, j), 0, Len(ds))
  BY DEF FiniteNatInductiveDefHypothesis, ConnectorLoop
<1>2. 0 \in Nat /\ Len(ds) \in Nat
  OBVIOUS
<1>. QED
  BY <1>1, <1>2, FiniteNatInductiveDef

(* The connectors of a device object are connector objects it owns.       *)
LEMMA DevConnsType ==
  ASSUME NEW ds \in Seq(DevRec), NEW j \in 1..Len(ds)
  PROVE  DevConns(ds, j) \in Seq(Objs(ds))
<1>1. CASE ds[j].outcome = "early"
  BY <1>1 DEF DevConns
<1>2. CASE ds[j].outcome # "early"
  <2> DEFINE cs == NodeConns[ds[j].node]
  <2>0. ds[j].node \in Nodes
    <3>1. ds[j] \in DevRec
      OBVIOUS
    <3>. QED
      BY <3>1 DEF DevRec
  <2>1. cs \in Seq(Phys)
    BY <2>0, PrimaryAssumption
  <2>2. j \in Live(ds)
    BY <1>2 DEF Live
  <2>3. \A i \in 1..Len(cs) : <<j, cs[i]>> \in Objs(ds)
    BY <2>1, <2>2 DEF Objs, Range
  <2>4. DevConns(ds, j) = [i \in 1..Len(cs) |-> <<j, cs[i]>>]
    BY <1>2, <2>1 DEF DevConns
  <2>. QED
    BY <2>1, <2>3, <2>4
<1>. QED
  BY <1>1, <1>2

(* Every connector of all_connectors is a connector object of drms_.      *)
LEMMA AllConnectorsType ==
  ASSUME NEW ds \in Seq(DevRec)
  PROVE  AllConnectors(ds) \in Seq(Objs(ds))
<1> DEFINE f == ConnectorLoop(ds)
           Bad == {j \in 0..Len(ds) : f[j] \notin Seq(Objs(ds))}
<1>1. \A j \in 0..Len(ds) : f[j] = IF j = 0 THEN <<>> ELSE f[j - 1] \o DevConns(ds, j)
  BY ConnectorLoopDef DEF FiniteNatInductiveDefConclusion
<1>2. Bad = {}
  <2> SUFFICES ASSUME Bad # {} PROVE FALSE
    OBVIOUS
  <2>1. PICK m \in Bad : \A y \in Bad : m <= y
    <3>1. Bad \subseteq Nat
      BY DEF Bad
    <3>. QED
      BY <3>1, LeastNat
  <2>2. m # 0
    <3>1. f[0] = <<>>
      BY <1>1
    <3>2. f[0] \in Seq(Objs(ds))
      BY <3>1
    <3>3. 0 \notin Bad
      BY <3>2 DEF Bad
    <3>. QED
      BY <2>1, <3>3
  <2>3. f[m - 1] \in Seq(Objs(ds))
    <3>1. m - 1 \in 0..Len(ds) /\ ~(m <= m - 1)
      BY <2>2
    <3>. QED
      BY <2>1, <3>1 DEF Bad
  <2>4. DevConns(ds, m) \in Seq(Objs(ds))
    BY <2>1, <2>2, DevConnsType DEF Bad
  <2>5. f[m] = f[m - 1] \o DevConns(ds, m)
    BY <1>1, <2>1, <2>2 DEF Bad
  <2>6. f[m] \in Seq(Objs(ds))
    BY <2>3, <2>4, <2>5
  <2>. QED
    BY <2>1, <2>6 DEF Bad
<1>. QED
  BY <1>2 DEF AllConnectors

(* What the device loop has added after the first i nodes.                 *)
DeviceLoopInv(choice, s, i) ==
  /\ s \in Seq(DevRec)
  /\ Len(s) <= i
  /\ \A a \in DOMAIN s : s[a].node < i /\ s[a] = NewDevice(s[a].node, choice)
  /\ \A a, b \in DOMAIN s : a < b => s[a].node < s[b].node

(* A device the loop adds for a KMS node is a well-typed device object.   *)
LEMMA NewDeviceType ==
  ASSUME NEW choice \in [Opened -> Outcomes], NEW n \in Opened
  PROVE  NewDevice(n, choice) \in DevRec
<1>1. Opened \subseteq Nodes
  BY PrimaryAssumption DEF Opened, Nodes
<1>2. DeviceOutcome(n, choice) \in Outcomes
  BY DEF DeviceOutcome, Outcomes
<1>. QED
  BY <1>1, <1>2 DEF NewDevice, DevRec

(* One idx of the loop keeps DeviceLoopInv.                                *)
LEMMA DeviceLoopStep ==
  ASSUME NEW choice \in [Opened -> Outcomes], ~FixedPath,
         NEW i \in 1..NumNodes, NEW s, DeviceLoopInv(choice, s, i - 1)
  PROVE  DeviceLoopInv(choice,
           IF LoopFailed(s) \/ ~NodeKMS[i - 1] THEN s
           ELSE Append(s, NewDevice(i - 1, choice)), i)
<1>1. CASE LoopFailed(s) \/ ~NodeKMS[i - 1]
  <2>1. DeviceLoopInv(choice, s, i)
    <3>1. \A a \in DOMAIN s : s[a] \in DevRec
      BY DEF DeviceLoopInv
    <3>2. \A a \in DOMAIN s : s[a].node \in Nat
      BY <3>1, NumNodesNat DEF DevRec, Nodes
    <3>. QED
      BY <3>2 DEF DeviceLoopInv
  <2>. QED
    BY <1>1, <2>1
<1>2. CASE ~(LoopFailed(s) \/ ~NodeKMS[i - 1])
  <2> DEFINE d == NewDevice(i - 1, choice)
             t == Append(s, d)
  <2>1. i - 1 \in Opened
    BY <1>2, PrimaryAssumption DEF Opened, Nodes
  <2>2. d \in DevRec /\ d.node = i - 1
    BY <2>1, NewDeviceType DEF NewDevice
  <2>3. t \in Seq(DevRec) /\ Len(t) <= i
    BY <2>2 DEF DeviceLoopInv
  <2>4. \A a \in DOMAIN t : t[a].node < i /\ t[a] = NewDevice(t[a].node, choice)
    <3> SUFFICES ASSUME NEW a \in DOMAIN t
                 PROVE  t[a].node < i /\ t[a] = NewDevice(t[a].node, choice)
      OBVIOUS
    <3>0. s \in Seq(DevRec)
      BY DEF DeviceLoopInv
    <3>1. CASE a = Len(s) + 1
      BY <2>2, <3>0, <3>1
    <3>2. CASE a \in 1..Len(s)
      <4>1. t[a] = s[a]
        BY <3>0, <3>2
      <4>2. s[a].node \in Nat
        <5>1. s[a] \in DevRec
          BY <3>0, <3>2
        <5>. QED
          BY <5>1, NumNodesNat DEF DevRec, Nodes
      <4>. QED
        BY <3>2, <4>1, <4>2 DEF DeviceLoopInv
    <3>. QED
      BY <3>0, <3>1, <3>2
  <2>5. \A a, b \in DOMAIN t : a < b => t[a].node < t[b].node
    BY <2>2 DEF DeviceLoopInv
  <2>. QED
    BY <1>2, <2>3, <2>4, <2>5 DEF DeviceLoopInv
<1>. QED
  BY <1>1, <1>2

(* The devices ResourceManager::Init adds: well typed, at most one per    *)
(* node, each with the outcome DeviceOutcome gives its node.              *)
LEMMA DevicesAddedProps ==
  ASSUME NEW choice \in [Opened -> Outcomes]
  PROVE  LET added == DevicesAdded(choice)
         IN  /\ added \in Seq(DevRec)
             /\ Len(added) <= NumNodes
             /\ \A a \in DOMAIN added :
                  added[a] = NewDevice(added[a].node, choice)
             /\ \A a, b \in DOMAIN added :
                  added[a].node = added[b].node => a = b
<1>1. CASE FixedPath
  <2>1. 0 \in Opened /\ NumNodes >= 1
    BY <1>1, PrimaryAssumption DEF Opened
  <2>2. NewDevice(0, choice) \in DevRec /\ NewDevice(0, choice).node = 0
    BY <2>1, NewDeviceType DEF NewDevice
  <2>. QED
    BY <1>1, <2>1, <2>2 DEF DevicesAdded
<1>2. CASE ~FixedPath
  <2> DEFINE f == DeviceLoop(choice)
             Bad == {i \in 0..NumNodes : ~DeviceLoopInv(choice, f[i], i)}
  <2>0. NumNodes \in Nat
    BY NumNodesNat
  <2>1. \A i \in 0..NumNodes :
          f[i] = IF i = 0 THEN <<>>
                 ELSE IF LoopFailed(f[i - 1]) \/ ~NodeKMS[i - 1] THEN f[i - 1]
                 ELSE Append(f[i - 1], NewDevice(i - 1, choice))
    BY DeviceLoopDef DEF FiniteNatInductiveDefConclusion
  <2>2. Bad = {}
    <3> SUFFICES ASSUME Bad # {} PROVE FALSE
      OBVIOUS
    <3>1. PICK m \in Bad : \A y \in Bad : m <= y
      <4>1. Bad \subseteq Nat
        BY <2>0 DEF Bad
      <4>. QED
        BY <4>1, LeastNat
    <3>2. m # 0
      <4>1. f[0] = <<>>
        BY <2>0, <2>1
      <4>2. DeviceLoopInv(choice, f[0], 0)
        BY <4>1 DEF DeviceLoopInv
      <4>. QED
        BY <3>1, <4>2 DEF Bad
    <3>3. DeviceLoopInv(choice, f[m - 1], m - 1)
      <4>1. m - 1 \in 0..NumNodes /\ ~(m <= m - 1)
        BY <2>0, <3>1, <3>2 DEF Bad
      <4>. QED
        BY <3>1, <4>1 DEF Bad
    <3>4. m \in 1..NumNodes
      BY <2>0, <3>1, <3>2 DEF Bad
    <3>5. DeviceLoopInv(choice, f[m], m)
      BY <1>2, <2>1, <3>3, <3>4, DeviceLoopStep
    <3>. QED
      BY <3>1, <3>5 DEF Bad
  <2>3. DeviceLoopInv(choice, f[NumNodes], NumNodes)
    BY <2>0, <2>2 DEF Bad
  <2>4. DevicesAdded(choice) = f[NumNodes]
    BY <1>2 DEF DevicesAdded
  <2> DEFINE added == f[NumNodes]
  <2>5. added \in Seq(DevRec) /\ Len(added) <= NumNodes
    BY <2>3 DEF DeviceLoopInv
  <2>6. \A a \in DOMAIN added : added[a] = NewDevice(added[a].node, choice)
    BY <2>3 DEF DeviceLoopInv
  <2>7. \A a, b \in DOMAIN added : added[a].node = added[b].node => a = b
    <3> SUFFICES ASSUME NEW a \in DOMAIN added, NEW b \in DOMAIN added, a # b
                 PROVE  added[a].node # added[b].node
      OBVIOUS
    <3>1. a < b \/ b < a
      BY <2>5
    <3>2. \A x, y \in DOMAIN added : x < y => added[x].node < added[y].node
      BY <2>3 DEF DeviceLoopInv
    <3>3. added[a].node \in Nat /\ added[b].node \in Nat
      <4>1. added[a] \in DevRec /\ added[b] \in DevRec
        BY <2>5
      <4>. QED
        BY <4>1, NumNodesNat DEF DevRec, Nodes
    <3>. QED
      BY <3>1, <3>2, <3>3
  <2>. QED
    BY <2>4, <2>5, <2>6, <2>7
<1>. QED
  BY <1>1, <1>2

-----------------------------------------------------------------------------
(* The remove_if of the disconnected connectors keeps elements of X.      *)
LEMMA ConnectedLoopType ==
  ASSUME NEW X, NEW all \in Seq(X), NEW conn
  PROVE  ConnectedLoop(all, conn)[Len(all)] \in Seq(X)
<1> DEFINE f == ConnectedLoop(all, conn)
           Bad == {k \in 0..Len(all) : f[k] \notin Seq(X)}
<1>2. \A k \in 0..Len(all) :
        f[k] = IF k = 0 THEN <<>>
               ELSE IF conn[all[k][2]] THEN Append(f[k - 1], all[k])
               ELSE f[k - 1]
  <2>1. FiniteNatInductiveDefHypothesis(f, <<>>,
           LAMBDA v, k : IF conn[all[k][2]] THEN Append(v, all[k]) ELSE v,
           0, Len(all))
    BY DEF FiniteNatInductiveDefHypothesis, ConnectedLoop
  <2>2. 0 \in Nat /\ Len(all) \in Nat
    OBVIOUS
  <2>3. FiniteNatInductiveDefConclusion(f, <<>>,
           LAMBDA v, k : IF conn[all[k][2]] THEN Append(v, all[k]) ELSE v,
           0, Len(all))
    BY <2>1, <2>2, FiniteNatInductiveDef
  <2>. QED
    BY <2>3 DEF FiniteNatInductiveDefConclusion
<1>3. Bad = {}
  <2> SUFFICES ASSUME Bad # {} PROVE FALSE
    OBVIOUS
  <2>1. PICK m \in Bad : \A y \in Bad : m <= y
    <3>1. Bad \subseteq Nat
      BY DEF Bad
    <3>. QED
      BY <3>1, LeastNat
  <2>2. m # 0
    <3>0. f[0] = <<>>
      <4>1. 0 \in 0..Len(all)
        OBVIOUS
      <4>. QED
        BY <1>2, <4>1, Zenon
    <3>1. f[0] \in Seq(X)
      BY <3>0
    <3>. QED
      BY <2>1, <3>1 DEF Bad
  <2>3. f[m - 1] \in Seq(X)
    <3>1. m - 1 \in 0..Len(all) /\ ~(m <= m - 1)
      BY <2>1, <2>2 DEF Bad
    <3>. QED
      BY <2>1, <3>1 DEF Bad
  <2>4. f[m] \in Seq(X)
    <3>1. m \in 1..Len(all)
      BY <2>1, <2>2 DEF Bad
    <3>2. all[m] \in X
      BY <3>1
    <3>3. f[m] = IF conn[all[m][2]] THEN Append(f[m - 1], all[m]) ELSE f[m - 1]
      <4>1. m \in 0..Len(all) /\ m # 0
        BY <2>2, <3>1
      <4>. QED
        BY <1>2, <4>1, Zenon
    <3>4. Append(f[m - 1], all[m]) \in Seq(X)
      BY <2>3, <3>2
    <3>. QED
      BY <2>3, <3>3, <3>4, Zenon
  <2>. QED
    BY <2>1, <2>4 DEF Bad
<1>. QED
  BY <1>3 DEF Bad

(* std::find_if over the candidates gives end() (0) or a position in them. *)
LEMMA FindNamedRange ==
  ASSUME NEW X, NEW sq \in Seq(X), NEW name
  PROVE  LET I == {i \in 1..Len(sq) : ConnName[sq[i][2]] = name}
         IN  (IF I # {} THEN Min(I) ELSE 0) \in 0..Len(sq)
<1> DEFINE I == {i \in 1..Len(sq) : ConnName[sq[i][2]] = name}
<1>2. CASE I # {}
  <2>1. \E m \in I : \A y \in I : m <= y
    <3>1. I \subseteq Nat
      BY DEF I
    <3>. QED
      BY <1>2, <3>1, LeastNat
  <2>2. Min(I) \in I
    BY <2>1 DEF Min
  <2>. QED
    BY <1>2, <2>2 DEF I
<1>. QED
  BY <1>2 DEF I

(* iter_swap of two positions of the candidates keeps a vector of X.      *)
LEMMA SwapType ==
  ASSUME NEW X, NEW sq \in Seq(X), NEW i \in 1..Len(sq), NEW j \in 1..Len(sq)
  PROVE  Swap(sq, i, j) \in Seq(X) /\ Len(Swap(sq, i, j)) = Len(sq)
BY DEF Swap

(* The candidates while the order list is walked: the current position   *)
(* has moved only after a candidate was found, so the vector is not      *)
(* empty then.                                                             *)
PlaceState(X) ==
  {st \in [seq : Seq(X), curr : Nat \ {0}, pastEnd : BOOLEAN] :
     st.curr > 1 => Len(st.seq) >= 1}

(* One name of primary_display_order keeps PlaceState.                    *)
LEMMA PlaceListedType ==
  ASSUME NEW X, NEW st \in PlaceState(X), NEW name
  PROVE  PlaceListed(st, name) \in PlaceState(X)
<1> DEFINE I == {i \in 1..Len(st.seq) : ConnName[st.seq[i][2]] = name}
           it == IF I # {} THEN Min(I) ELSE 0
<1>0. st.seq \in Seq(X) /\ st.curr \in Nat \ {0} /\ st.pastEnd \in BOOLEAN
      /\ (st.curr > 1 => Len(st.seq) >= 1)
  BY DEF PlaceState
<1>0a. st = [seq |-> st.seq, curr |-> st.curr, pastEnd |-> st.pastEnd]
  <2>1. st \in [seq : Seq(X), curr : Nat \ {0}, pastEnd : BOOLEAN]
    BY DEF PlaceState
  <2>. QED
    BY <2>1
<1>1. it \in 0..Len(st.seq)
  BY <1>0, FindNamedRange
<1>1a. SelectInSeq(st.seq, LAMBDA c : ConnName[c[2]] = name) = it
  BY DEF SelectInSeq
<1>2. CASE it = 0
  BY <1>2, <1>1a DEF PlaceListed
<1>3. CASE it # 0 /\ st.curr > Len(st.seq)
  <2> DEFINE r == [st EXCEPT !.curr = @ + 1, !.pastEnd = TRUE]
  <2>1. PlaceListed(st, name) = r
    BY <1>3, <1>1a DEF PlaceListed
  <2>2. st.curr + 1 \in Nat \ {0} /\ Len(st.seq) >= 1
    BY <1>0, <1>1, <1>3
  <2>3. r \in [seq : Seq(X), curr : Nat \ {0}, pastEnd : BOOLEAN]
    BY <1>0a, <1>0, <2>2, Zenon
  <2>4. r.seq = st.seq /\ r.curr = st.curr + 1
    BY <1>0a
  <2>5. r.curr > 1 => Len(r.seq) >= 1
    BY <2>2, <2>4
  <2>. QED
    BY <2>1, <2>3, <2>5, Zenon DEF PlaceState
<1>4. CASE it # 0 /\ ~(st.curr > Len(st.seq))
  <2> DEFINE sw == Swap(st.seq, it, st.curr)
             r == [st EXCEPT !.seq = sw, !.curr = @ + 1]
  <2>1. PlaceListed(st, name) = r
    BY <1>4, <1>1a DEF PlaceListed
  <2>2. sw \in Seq(X) /\ Len(sw) = Len(st.seq)
    <3>1. it \in 1..Len(st.seq) /\ st.curr \in 1..Len(st.seq)
      BY <1>0, <1>1, <1>4
    <3>. QED
      BY <1>0, <3>1, SwapType
  <2>3. st.curr + 1 \in Nat \ {0} /\ Len(st.seq) >= 1
    BY <1>0, <1>1, <1>4
  <2>4. r \in [seq : Seq(X), curr : Nat \ {0}, pastEnd : BOOLEAN]
    BY <1>0a, <1>0, <2>2, <2>3, Zenon
  <2>5. r.seq = sw /\ r.curr = st.curr + 1
    BY <1>0a
  <2>6. r.curr > 1 => Len(r.seq) >= 1
    BY <2>2, <2>3, <2>5
  <2>. QED
    BY <2>1, <2>4, <2>6, Zenon DEF PlaceState
<1>. QED
  BY <1>2, <1>3, <1>4

(* The whole order list keeps PlaceState, starting from the connected     *)
(* connectors with the current position at the first.                     *)
LEMMA PlacedType ==
  ASSUME NEW X, NEW all \in Seq(X), NEW conn, NEW ord \in Seq(STRING)
  PROVE  Placed(all, conn, ord) \in PlaceState(X)
<1> DEFINE st0 == [seq |-> ConnectedLoop(all, conn)[Len(all)], curr |-> 1,
                   pastEnd |-> FALSE]
           f == PlaceLoop(all, conn, ord)
           Bad == {k \in 0..Len(ord) : f[k] \notin PlaceState(X)}
<1>1. \A k \in 0..Len(ord) :
        f[k] = IF k = 0 THEN st0 ELSE PlaceListed(f[k - 1], ord[k])
  <2>1. FiniteNatInductiveDefHypothesis(f, st0,
           LAMBDA v, k : PlaceListed(v, ord[k]), 0, Len(ord))
    BY DEF FiniteNatInductiveDefHypothesis, PlaceLoop
  <2>2. 0 \in Nat /\ Len(ord) \in Nat
    OBVIOUS
  <2>3. FiniteNatInductiveDefConclusion(f, st0,
           LAMBDA v, k : PlaceListed(v, ord[k]), 0, Len(ord))
    BY <2>1, <2>2, FiniteNatInductiveDef
  <2>. QED
    BY <2>3 DEF FiniteNatInductiveDefConclusion
<1>2. st0 \in PlaceState(X)
  <2>1. ConnectedLoop(all, conn)[Len(all)] \in Seq(X) /\ 1 \in Nat \ {0}
    BY ConnectedLoopType
  <2>2. st0 \in [seq : Seq(X), curr : Nat \ {0}, pastEnd : BOOLEAN]
    BY <2>1, Zenon
  <2>3. ~(st0.curr > 1)
    OBVIOUS
  <2>. QED
    BY <2>2, <2>3, Zenon DEF PlaceState
<1>3. Bad = {}
  <2> SUFFICES ASSUME Bad # {} PROVE FALSE
    OBVIOUS
  <2>1. PICK m \in Bad : \A y \in Bad : m <= y
    <3>1. Bad \subseteq Nat
      BY DEF Bad
    <3>. QED
      BY <3>1, LeastNat
  <2>2. m # 0
    <3>1. f[0] = st0
      <4>1. 0 \in 0..Len(ord)
        OBVIOUS
      <4>. QED
        BY <1>1, <4>1, Zenon
    <3>. QED
      BY <1>2, <2>1, <3>1 DEF Bad
  <2>3. f[m - 1] \in PlaceState(X)
    <3>1. m - 1 \in 0..Len(ord) /\ ~(m <= m - 1)
      BY <2>1, <2>2 DEF Bad
    <3>. QED
      BY <2>1, <3>1 DEF Bad
  <2>4. f[m] = PlaceListed(f[m - 1], ord[m])
    BY <1>1, <2>1, <2>2 DEF Bad
  <2>5. f[m] \in PlaceState(X)
    BY <2>3, <2>4, PlaceListedType
  <2>. QED
    BY <2>1, <2>5 DEF Bad
<1>. QED
  BY <1>3 DEF Bad, Placed

(* The candidate ReorderConnectors tries as primary is one of them.       *)
LEMMA FirstCandidatesIn ==
  ASSUME NEW X, NEW st \in PlaceState(X), NEW ord
  PROVE  FirstCandidates(st, ord) \subseteq X
<1> DEFINE rest == SubSeq(st.seq, st.curr, Len(st.seq))
<1>0. st.seq \in Seq(X) /\ st.curr \in Nat \ {0}
      /\ (st.curr > 1 => Len(st.seq) >= 1)
  BY DEF PlaceState
<1>1. rest \in Seq(X)
  <2>1. \A i \in st.curr..Len(st.seq) : st.seq[i] \in X
    BY <1>0
  <2>. QED
    BY <1>0, <2>1, SubSeqProperties
<1>2. CASE st.curr > 1
  <2>1. st.seq[1] \in X
    BY <1>0, <1>2
  <2>. QED
    BY <1>2, <2>1 DEF FirstCandidates
<1>3. CASE ~(st.curr > 1)
  <2>1. rest # <<>> => rest[1] \in X
    BY <1>1
  <2>2. {rest[k] : k \in {k \in DOMAIN rest : Internal(rest[k])}} \subseteq X
    <3>1. \A k \in DOMAIN rest : rest[k] \in X
      BY <1>1
    <3>. QED
      BY <3>1, Zenon
  <2>. QED
    BY <1>3, <2>1, <2>2 DEF FirstCandidates
<1>. QED
  BY <1>2, <1>3

-----------------------------------------------------------------------------
(* The numbering while ReorderConnectors runs: connectors_ numbers 1..n   *)
(* objects of X without repetition, and num_displays is at most n + 1, so *)
(* connectors_[num_displays] either replaces an entry or extends 1..n.    *)
NumState(X) ==
  {st \in [map : Seq(X), num : Nat \ {0}] :
     st.num <= Len(st.map) + 1 /\ IsInjective(st.map)}

(* connectors_[n] = c for a connector c not yet numbered, with n at most  *)
(* one past the last number: the numbers stay 1..n' and distinct.         *)
Assign(m, n, c) == [k \in DOMAIN m \cup {n} |-> IF k = n THEN c ELSE m[k]]

LEMMA OwnMapType ==
  ASSUME NEW X, NEW m \in Seq(X), NEW n \in 1..Len(m) + 1, NEW c \in X,
         c \notin Range(m), IsInjective(m)
  PROVE  Assign(m, n, c) \in Seq(X) /\ n <= Len(Assign(m, n, c))
         /\ IsInjective(Assign(m, n, c))
<1> DEFINE m2 == Assign(m, n, c)
           L2 == IF n <= Len(m) THEN Len(m) ELSE Len(m) + 1
           e2 == [k \in 1..L2 |-> IF k = n THEN c ELSE m[k]]
<1>1. DOMAIN m \cup {n} = 1..L2
  OBVIOUS
<1>2. m2 = e2
  BY <1>1, Zenon DEF Assign
<1>3. e2 \in Seq(X) /\ Len(e2) = L2 /\ n <= L2
  <2>1. L2 \in Nat
    OBVIOUS
  <2>2. \A k \in 1..L2 : (IF k = n THEN c ELSE m[k]) \in X
    OBVIOUS
  <2>. QED
    BY <2>1, <2>2
<1>4. IsInjective(e2)
  <2> SUFFICES ASSUME NEW a \in 1..L2, NEW b \in 1..L2, e2[a] = e2[b]
               PROVE  a = b
    BY DEF IsInjective
  <2>1. CASE a = n /\ b # n
    <3>1. m[b] = c /\ b \in DOMAIN m
      BY <2>1
    <3>. QED
      BY <3>1 DEF Range
  <2>2. CASE b = n /\ a # n
    <3>1. m[a] = c /\ a \in DOMAIN m
      BY <2>2
    <3>. QED
      BY <3>1 DEF Range
  <2>3. CASE a # n /\ b # n
    <3>1. m[a] = m[b] /\ a \in DOMAIN m /\ b \in DOMAIN m
      BY <2>3
    <3>. QED
      BY <3>1 DEF IsInjective
  <2>. QED
    BY <2>1, <2>2, <2>3
<1>. QED
  BY <1>2, <1>3, <1>4

(* Owning a connector not yet owned keeps NumState.                        *)
LEMMA OwnType ==
  ASSUME NEW X, NEW st \in NumState(X), NEW c \in X, c \notin Range(st.map)
  PROVE  Own(st, c) \in NumState(X)
<1> DEFINE m2 == Assign(st.map, st.num, c)
<1>0. st.map \in Seq(X) /\ st.num \in 1..Len(st.map) + 1 /\ IsInjective(st.map)
  BY DEF NumState
<1>1. m2 \in Seq(X) /\ st.num <= Len(m2) /\ IsInjective(m2)
  BY <1>0, OwnMapType
<1>2. Own(st, c) = [map |-> m2, num |-> st.num + 1]
  BY DEF Own, Assign
<1>3. st.num + 1 <= Len(m2) + 1 /\ st.num + 1 \in Nat \ {0}
  BY <1>0, <1>1
<1>4. [map |-> m2, num |-> st.num + 1] \in [map : Seq(X), num : Nat \ {0}]
  BY <1>1, <1>3
<1>5. LET r == [map |-> m2, num |-> st.num + 1]
      IN  r.num <= Len(r.map) + 1 /\ IsInjective(r.map)
  BY <1>1, <1>3
<1>. QED
  BY <1>2, <1>4, <1>5, Zenon DEF NumState

(* One connector of all_connectors keeps NumState.                        *)
LEMMA NumberConnectorType ==
  ASSUME NEW X, NEW st \in NumState(X), NEW c \in X
  PROVE  NumberConnector(st, c) \in NumState(X)
<1>1. CASE ConnType[c[2]] \in {"internal", "external"} /\ c \notin Owned(st.map)
  BY <1>1, OwnType DEF NumberConnector, Owned
<1>2. CASE ~(ConnType[c[2]] \in {"internal", "external"} /\ c \notin Owned(st.map))
  BY <1>2 DEF NumberConnector
<1>. QED
  BY <1>1, <1>2

(* Numbering the primary first keeps NumState.                             *)
LEMMA PrimaryNumberedType ==
  ASSUME NEW X, connectors \in Seq(X), IsInjective(connectors),
         NEW first, first = {} \/ \E p \in X : first = {p}
  PROVE  PrimaryNumbered(first) \in NumState(X)
<1> DEFINE start == [map |-> connectors, num |-> 1]
<1>1. start \in NumState(X)
  <2>1. start \in [map : Seq(X), num : Nat \ {0}]
    OBVIOUS
  <2>2. start.num <= Len(start.map) + 1 /\ IsInjective(start.map)
    OBVIOUS
  <2>. QED
    BY <2>1, <2>2 DEF NumState
<1>2. CASE first = {}
  BY <1>1, <1>2 DEF PrimaryNumbered
<1>3. CASE first # {}
  <2>1. PICK p \in X : first = {p}
    BY <1>3
  <2>2. (CHOOSE q \in first : TRUE) = p
    BY <2>1
  <2>3. CASE p \in Owned(connectors)
    BY <1>1, <1>3, <2>2, <2>3 DEF PrimaryNumbered
  <2>4. CASE p \notin Owned(connectors)
    <3>1. Own(start, p) \in NumState(X)
      BY <1>1, <2>4, OwnType DEF Owned
    <3>. QED
      BY <1>3, <2>2, <2>4, <3>1 DEF PrimaryNumbered
  <2>. QED
    BY <2>3, <2>4
<1>. QED
  BY <1>2, <1>3

(* The loop over all_connectors keeps NumState.                            *)
LEMMA NumberLoopType ==
  ASSUME NEW X, NEW all \in Seq(X), NEW st0 \in NumState(X)
  PROVE  NumberLoop(all, st0)[Len(all)] \in NumState(X)
<1> DEFINE f == NumberLoop(all, st0)
           Bad == {k \in 0..Len(all) : f[k] \notin NumState(X)}
<1>1. \A k \in 0..Len(all) :
        f[k] = IF k = 0 THEN st0 ELSE NumberConnector(f[k - 1], all[k])
  <2>1. FiniteNatInductiveDefHypothesis(f, st0,
           LAMBDA v, k : NumberConnector(v, all[k]), 0, Len(all))
    BY DEF FiniteNatInductiveDefHypothesis, NumberLoop
  <2>2. 0 \in Nat /\ Len(all) \in Nat
    OBVIOUS
  <2>3. FiniteNatInductiveDefConclusion(f, st0,
           LAMBDA v, k : NumberConnector(v, all[k]), 0, Len(all))
    BY <2>1, <2>2, FiniteNatInductiveDef
  <2>. QED
    BY <2>3 DEF FiniteNatInductiveDefConclusion
<1>2. Bad = {}
  <2> SUFFICES ASSUME Bad # {} PROVE FALSE
    OBVIOUS
  <2>1. PICK m \in Bad : \A y \in Bad : m <= y
    <3>1. Bad \subseteq Nat
      BY DEF Bad
    <3>. QED
      BY <3>1, LeastNat
  <2>2. m # 0
    <3>1. f[0] = st0
      BY <1>1
    <3>. QED
      BY <2>1, <3>1 DEF Bad
  <2>3. f[m - 1] \in NumState(X)
    <3>1. m - 1 \in 0..Len(all) /\ ~(m <= m - 1)
      BY <2>1, <2>2 DEF Bad
    <3>. QED
      BY <2>1, <3>1 DEF Bad
  <2>4. f[m] = NumberConnector(f[m - 1], all[m]) /\ all[m] \in X
    BY <1>1, <2>1, <2>2 DEF Bad
  <2>5. f[m] \in NumState(X)
    BY <2>3, <2>4, NumberConnectorType
  <2>. QED
    BY <2>1, <2>5 DEF Bad
<1>. QED
  BY <1>2 DEF Bad

-----------------------------------------------------------------------------
(* In the keys 1..n, the key with h smaller keys is h + 1.                 *)
LEMMA KeyRankInterval ==
  ASSUME NEW n \in Nat, NEW h \in 0..(n - 1)
  PROVE  KeyRank(1..n, h) = h + 1
<1>1. \A k \in 1..n : {x \in 1..n : x < k} = 1..(k - 1)
  OBVIOUS
<1>2. \A k \in 1..n : Cardinality({x \in 1..n : x < k}) = k - 1
  <2> SUFFICES ASSUME NEW k \in 1..n
               PROVE  Cardinality({x \in 1..n : x < k}) = k - 1
    OBVIOUS
  <2>1. Cardinality(1..(k - 1)) = k - 1
    BY FS_Interval
  <2>. QED
    BY <1>1, <2>1
<1>3. \A k \in 1..n : Cardinality({x \in 1..n : x < k}) = h <=> k = h + 1
  BY <1>2
<1>4. h + 1 \in 1..n
  OBVIOUS
<1>. QED
  BY <1>3, <1>4, Zenon DEF KeyRank

(* DrmHwcTwo::Init gives handle h the connector of display number h + 1.   *)
LEMMA CreateDisplaysSeq ==
  ASSUME NEW X, NEW m \in Seq(X)
  PROVE  CreateDisplays(m) = [h \in 0..(Len(m) - 1) |-> m[h + 1]]
<1>1. Cardinality(DOMAIN m) = Len(m)
  <2>1. DOMAIN m = 1..Len(m)
    OBVIOUS
  <2>. QED
    BY <2>1, FS_Interval
<1>2. \A h \in 0..(Len(m) - 1) : KeyRank(DOMAIN m, h) = h + 1
  BY KeyRankInterval
<1>. QED
  BY <1>1, <1>2 DEF CreateDisplays

-----------------------------------------------------------------------------
(* Devices appended to drms_ keep the connector objects of those before.  *)
LEMMA ObjsAppend ==
  ASSUME NEW ds \in Seq(DevRec), NEW ad \in Seq(DevRec)
  PROVE  Objs(ds) \subseteq Objs(ds \o ad)
<1>1. \A j \in Live(ds) : j \in Live(ds \o ad) /\ (ds \o ad)[j] = ds[j]
  BY DEF Live
<1>. QED
  BY <1>1 DEF Objs

LEMMA OneLivePerNodeStep ==
  ASSUME drms \in Seq(DevRec), OneLivePerNode(drms),
         NEW choice \in [Opened -> Outcomes]
  PROVE  OneLivePerNode(drms \o DevicesAdded(choice))
<1> DEFINE ad == DevicesAdded(choice)
           ds == drms \o ad
           L == Len(drms)
<1>0. /\ ad \in Seq(DevRec)
      /\ \A a \in DOMAIN ad : ad[a] = NewDevice(ad[a].node, choice)
      /\ \A a, b \in DOMAIN ad : ad[a].node = ad[b].node => a = b
  BY DevicesAddedProps
<1>1. /\ DOMAIN ds = 1..(L + Len(ad))
      /\ \A j \in 1..L : ds[j] = drms[j]
      /\ \A j \in (L + 1)..(L + Len(ad)) : ds[j] = ad[j - L] /\ j - L \in DOMAIN ad
  BY <1>0
(* A live old device and a live new device are never on one node.         *)
<1>2. ASSUME NEW j1 \in 1..L, NEW j2 \in (L + 1)..(L + Len(ad)),
             j1 \in Live(ds), j2 \in Live(ds)
      PROVE  ds[j1].node # ds[j2].node
  <2> DEFINE n == ds[j2].node
  <2>1. ds[j2] = NewDevice(n, choice)
    BY <1>0, <1>1
  <2>2. DeviceOutcome(n, choice) # "early"
    BY <1>2, <2>1 DEF Live, NewDevice
  <2>3. n \notin MasterNodes(drms)
    BY <2>2 DEF DeviceOutcome
  <2>4. ds[j1] = drms[j1] /\ j1 \in {j \in DOMAIN drms : drms[j].outcome # "early"}
    BY <1>1, <1>2 DEF Live
  <2>. QED
    BY <2>3, <2>4 DEF MasterNodes
<1> SUFFICES ASSUME NEW j1 \in Live(ds), NEW j2 \in Live(ds),
                    ds[j1].node = ds[j2].node
             PROVE  j1 = j2
  BY DEF OneLivePerNode
<1>3. j1 \in 1..L \/ j1 \in (L + 1)..(L + Len(ad))
  BY <1>1 DEF Live
<1>4. j2 \in 1..L \/ j2 \in (L + 1)..(L + Len(ad))
  BY <1>1 DEF Live
<1>5. CASE j1 \in 1..L /\ j2 \in 1..L
  <2>1. j1 \in Live(drms) /\ j2 \in Live(drms) /\ drms[j1].node = drms[j2].node
    BY <1>1, <1>5 DEF Live
  <2>. QED
    BY <2>1 DEF OneLivePerNode
<1>6. CASE j1 \in (L + 1)..(L + Len(ad)) /\ j2 \in (L + 1)..(L + Len(ad))
  <2>1. ad[j1 - L].node = ad[j2 - L].node /\ j1 - L \in DOMAIN ad /\ j2 - L \in DOMAIN ad
    BY <1>1, <1>6
  <2>2. j1 - L = j2 - L
    BY <1>0, <2>1
  <2>. QED
    BY <2>2, <1>6
<1>7. CASE j1 \in 1..L /\ j2 \in (L + 1)..(L + Len(ad))
  BY <1>2, <1>7
<1>8. CASE j2 \in 1..L /\ j1 \in (L + 1)..(L + Len(ad))
  BY <1>2, <1>8
<1>. QED
  BY <1>3, <1>4, <1>5, <1>6, <1>7, <1>8

-----------------------------------------------------------------------------
(* 1..n and 0..(n - 1) have n elements.                                   *)
LEMMA CardInterval ==
  ASSUME NEW n \in Nat
  PROVE  Cardinality(1..n) = n /\ Cardinality(0..(n - 1)) = n
<1>1. Cardinality(1..n) = n
  BY FS_Interval
<1>2. Cardinality(0..(n - 1)) = n
  BY FS_Interval
<1>. QED
  BY <1>1, <1>2

(* The type invariant follows from NumberingInv.                           *)
LEMMA InvTypeOK ==
  NumberingInv => TypeOK
<1> SUFFICES ASSUME NumberingInv PROVE TypeOK
  OBVIOUS
<1>0. NumNodes \in Nat /\ MaxRegistrations \in Nat
  BY PrimaryAssumption
<1>1. DOMAIN connectors = 1..Cardinality(DOMAIN connectors)
  <2>1. connectors \in Seq(Objs(drms))
    BY DEF NumberingInv
  <2>2. Cardinality(1..Len(connectors)) = Len(connectors)
    BY <2>1, CardInterval
  <2>. QED
    BY <2>1, <2>2
<1>2. Range(connectors) \subseteq ConnObj
  <2>1. Len(drms) <= MaxRegistrations * NumNodes
    <3>1. Len(drms) <= registrations * NumNodes
          /\ registrations \in 0..MaxRegistrations /\ drms \in Seq(DevRec)
      BY DEF NumberingInv
    <3>2. registrations * NumNodes <= MaxRegistrations * NumNodes
      BY <1>0, <3>1
    <3>. QED
      BY <1>0, <3>1, <3>2
  <2>2. Objs(drms) \subseteq ConnObj
    <3> SUFFICES ASSUME NEW j \in Live(drms),
                        NEW p \in Range(NodeConns[drms[j].node])
                 PROVE  <<j, p>> \in ConnObj
      BY DEF Objs
    <3>1. drms \in Seq(DevRec)
      BY DEF NumberingInv
    <3>2. j \in 1..(MaxRegistrations * NumNodes)
      <4>1. j \in 1..Len(drms)
        BY <3>1 DEF Live
      <4>. QED
        BY <1>0, <2>1, <3>1, <4>1
    <3>3. drms[j].node \in Nodes
      <4>1. drms[j] \in DevRec
        BY <3>1 DEF Live
      <4>. QED
        BY <4>1 DEF DevRec
    <3>4. p \in Phys
      BY <3>3, PrimaryAssumption DEF Range
    <3>. QED
      BY <3>2, <3>4 DEF ConnObj
  <2>3. connectors \in Seq(Objs(drms))
    BY DEF NumberingInv
  <2>. QED
    BY <2>2, <2>3 DEF Range
<1>3. DOMAIN displays = 0..(Cardinality(DOMAIN displays) - 1)
  <2>1. CASE displays = <<>>
    <3>1. DOMAIN displays = {} /\ Cardinality({}) = 0
      BY <2>1, FS_EmptySet
    <3>. QED
      BY <3>1
  <2>2. CASE displays = CreateDisplays(connectors)
    <3>1. connectors \in Seq(Objs(drms))
      BY DEF NumberingInv
    <3>2. DOMAIN displays = 0..(Len(connectors) - 1)
      BY <2>2, <3>1, CreateDisplaysSeq
    <3>3. Cardinality(0..(Len(connectors) - 1)) = Len(connectors)
      BY <3>1, CardInterval
    <3>. QED
      BY <3>2, <3>3
  <2>. QED
    BY <2>1, <2>2 DEF NumberingInv
<1>4. /\ order \in OrderChoices
      /\ drms \in Seq([node : Nodes, outcome : Outcomes])
      /\ connected \in [Phys -> BOOLEAN]
      /\ initResult \in {"none", "ok", "failed"}
      /\ registrations \in 0..MaxRegistrations
      /\ pastEnd \in BOOLEAN
  BY DEF NumberingInv, DevRec
<1>. QED
  BY <1>1, <1>2, <1>3, <1>4 DEF TypeOK

(* NumberingConsistent follows from NumberingInv: two numbers hold two     *)
(* distinct objects of live devices, and live devices of one physical     *)
(* connector are one device, since a connector belongs to one node.       *)
LEMMA InvConsistent ==
  NumberingInv => NumberingConsistent
<1> SUFFICES ASSUME NumberingInv PROVE NumberingConsistent
  OBVIOUS
<1>0. connectors \in Seq(Objs(drms)) /\ IsInjective(connectors)
      /\ drms \in Seq(DevRec) /\ OneLivePerNode(drms)
  BY DEF NumberingInv
<1>1. ASSUME NEW k1 \in DOMAIN connectors, NEW k2 \in DOMAIN connectors, k1 # k2
      PROVE  connectors[k1][2] # connectors[k2][2]
  <2>1. connectors[k1] # connectors[k2]
    BY <1>0, <1>1 DEF IsInjective
  <2>2. PICK j1 \in Live(drms) :
          \E p \in Range(NodeConns[drms[j1].node]) : connectors[k1] = <<j1, p>>
    BY <1>0 DEF Objs
  <2>2a. PICK p1 \in Range(NodeConns[drms[j1].node]) : connectors[k1] = <<j1, p1>>
    BY <2>2
  <2>3. PICK j2 \in Live(drms) :
          \E p \in Range(NodeConns[drms[j2].node]) : connectors[k2] = <<j2, p>>
    BY <1>0 DEF Objs
  <2>3a. PICK p2 \in Range(NodeConns[drms[j2].node]) : connectors[k2] = <<j2, p2>>
    BY <2>3
  <2>4. CASE j1 = j2
    BY <2>1, <2>2a, <2>3a, <2>4
  <2>5. CASE j1 # j2
    <3>1. drms[j1].node # drms[j2].node
      BY <1>0, <2>5 DEF OneLivePerNode
    <3>2. drms[j1].node \in Nodes /\ drms[j2].node \in Nodes
      <4>1. drms[j1] \in DevRec /\ drms[j2] \in DevRec
        BY <1>0 DEF Live
      <4>. QED
        BY <4>1 DEF DevRec
    <3>3. Range(NodeConns[drms[j1].node]) \cap Range(NodeConns[drms[j2].node]) = {}
      BY <3>1, <3>2, PrimaryAssumption
    <3>. QED
      BY <2>2a, <2>3a, <3>3
  <2>. QED
    BY <2>4, <2>5
<1>2. \A h \in DOMAIN displays : displays[h] = connectors[h + 1]
  <2>1. CASE displays = <<>>
    BY <2>1
  <2>2. CASE displays = CreateDisplays(connectors)
    BY <1>0, <2>2, CreateDisplaysSeq
  <2>. QED
    BY <2>1, <2>2 DEF NumberingInv
<1>. QED
  BY <1>1, <1>2 DEF NumberingConsistent

(* The initial state satisfies NumberingInv.                               *)
LEMMA InitInv ==
  Init => NumberingInv
<1> SUFFICES ASSUME Init PROVE NumberingInv
  OBVIOUS
<1>1. drms \in Seq(DevRec) /\ Len(drms) <= registrations * NumNodes
  BY NumNodesNat DEF Init
<1>2. OneLivePerNode(drms) /\ connectors \in Seq(Objs(drms))
      /\ IsInjective(connectors)
  BY DEF Init, OneLivePerNode, Live, IsInjective
<1>3. registrations \in 0..MaxRegistrations
  BY PrimaryAssumption DEF Init
<1>. QED
  BY <1>1, <1>2, <1>3 DEF Init, NumberingInv

-----------------------------------------------------------------------------
(* One re-initialisation, for given outcomes of DrmDevice::Init,          *)
(* connection states and primary candidate, keeps NumberingInv: the new   *)
(* devices leave one live device per node, every connector they list is  *)
(* a live object, and ReorderConnectors numbers objects without repeats. *)
LEMMA ReinitInv ==
  ASSUME NumberingInv, displays = <<>>,
         registrations < MaxRegistrations, registrations' = registrations + 1,
         order' = order,
         NEW choice \in [Opened -> Outcomes], NEW conn \in [Phys -> BOOLEAN],
         NEW first \in Heads(FirstCandidates(
                         Placed(AllConnectors(drms \o DevicesAdded(choice)),
                                conn, order), order)),
         drms' = drms \o DevicesAdded(choice),
         connectors' = Numbered(AllConnectors(drms \o DevicesAdded(choice)), first),
         connected' = conn,
         pastEnd' = (pastEnd \/ Placed(AllConnectors(drms \o DevicesAdded(choice)),
                                       conn, order).pastEnd),
         displays' = CreateDisplays(connectors') \/ displays' = displays,
         initResult' \in {"ok", "failed"}
  PROVE  NumberingInv'
<1> DEFINE added == DevicesAdded(choice)
           ds == drms \o added
           all == AllConnectors(ds)
           st == Placed(all, conn, order)
           X == Objs(ds)
<1>0. NumNodes \in Nat /\ MaxRegistrations \in Nat
      /\ drms \in Seq(DevRec) /\ OneLivePerNode(drms)
      /\ Len(drms) <= registrations * NumNodes
      /\ registrations \in 0..MaxRegistrations
      /\ connectors \in Seq(Objs(drms)) /\ IsInjective(connectors)
      /\ order \in OrderChoices /\ pastEnd \in BOOLEAN
  BY PrimaryAssumption DEF NumberingInv
<1>1. added \in Seq(DevRec) /\ Len(added) <= NumNodes
  BY DevicesAddedProps
<1>2. ds \in Seq(DevRec) /\ Len(ds) <= (registrations + 1) * NumNodes
  BY <1>0, <1>1
<1>3. OneLivePerNode(ds)
  BY <1>0, OneLivePerNodeStep
<1>4. all \in Seq(X)
  BY <1>2, AllConnectorsType
<1>5. st \in PlaceState(X)
  <2>1. order \in Seq(STRING)
    BY <1>0, PrimaryAssumption
  <2>. QED
    BY <1>4, <2>1, PlacedType
<1>6. first = {} \/ \E p \in X : first = {p}
  <2>1. FirstCandidates(st, order) \subseteq X
    BY <1>5, FirstCandidatesIn
  <2>2. first \in Heads(FirstCandidates(st, order))
    BY DEF st, all, ds, added
  <2>. QED
    BY <2>1, <2>2, Zenon DEF Heads
<1>7. connectors \in Seq(X)
  <2>1. Objs(drms) \subseteq X
    BY <1>0, <1>1, ObjsAppend
  <2>. QED
    BY <1>0, <2>1
<1>8. connectors' \in Seq(X) /\ IsInjective(connectors')
  <2>1. PrimaryNumbered(first) \in NumState(X)
    BY <1>0, <1>6, <1>7, PrimaryNumberedType
  <2>2. NumberLoop(all, PrimaryNumbered(first))[Len(all)] \in NumState(X)
    BY <1>4, <2>1, NumberLoopType
  <2>3. connectors' = NumberLoop(all, PrimaryNumbered(first))[Len(all)].map
    BY DEF Numbered
  <2>. QED
    BY <2>2, <2>3 DEF NumState
<1>9. displays' = <<>> \/ displays' = CreateDisplays(connectors')
  OBVIOUS
<1>10. st.pastEnd \in BOOLEAN
  BY <1>5 DEF PlaceState
<1>11. pastEnd' \in BOOLEAN
  BY <1>0, <1>10
<1>. QED
  BY <1>0, <1>2, <1>3, <1>8, <1>9, <1>11 DEF NumberingInv

(* RegisterCallback(Hotplug) keeps NumberingInv: a first registration    *)
(* runs DrmHwcTwo::Init (ReinitInv), a later one only counts.            *)
LEMMA NextInv ==
  ASSUME NumberingInv, [Next]_vars
  PROVE  NumberingInv'
<1>0. NumNodes \in Nat /\ MaxRegistrations \in Nat
      /\ registrations \in 0..MaxRegistrations
      /\ Len(drms) <= registrations * NumNodes /\ drms \in Seq(DevRec)
  BY PrimaryAssumption DEF NumberingInv
<1>1. CASE UNCHANGED vars
  BY <1>1 DEF NumberingInv, vars, OneLivePerNode, Live, Objs
<1>2. CASE Next /\ displays # <<>>
  <2>1. registrations < MaxRegistrations /\ registrations' = registrations + 1
        /\ UNCHANGED <<order, drms, connectors, displays, connected,
                       initResult, pastEnd>>
    BY <1>2 DEF Next, RegisterHotplugCallback
  <2>2. Len(drms) <= (registrations + 1) * NumNodes
        /\ registrations + 1 \in 0..MaxRegistrations
    BY <1>0, <2>1
  <2>. QED
    BY <2>1, <2>2 DEF NumberingInv, OneLivePerNode, Live, Objs
<1>3. CASE Next /\ displays = <<>>
  <2>1. registrations < MaxRegistrations /\ registrations' = registrations + 1
        /\ order' = order /\ HwcInit
    BY <1>3 DEF Next, RegisterHotplugCallback
  <2>2. PICK choice \in [Opened -> Outcomes], conn \in [Phys -> BOOLEAN],
             bufOk \in BOOLEAN, ueventOk \in BOOLEAN :
          \E first \in Heads(FirstCandidates(
                 Placed(AllConnectors(drms \o DevicesAdded(choice)), conn, order),
                 order)) :
            LET map == Numbered(AllConnectors(drms \o DevicesAdded(choice)), first)
                rmOk == IF DOMAIN map = {} THEN ~LoopFailed(DevicesAdded(choice))
                        ELSE bufOk /\ ueventOk
            IN  /\ drms' = drms \o DevicesAdded(choice)
                /\ connectors' = map
                /\ connected' = conn
                /\ pastEnd' = (pastEnd \/ Placed(AllConnectors(drms \o
                                 DevicesAdded(choice)), conn, order).pastEnd)
                /\ displays' = IF rmOk THEN CreateDisplays(map) ELSE displays
                /\ initResult' = IF rmOk THEN "ok" ELSE "failed"
    BY <2>1, Zenon DEF HwcInit
  <2>3. PICK first \in Heads(FirstCandidates(
                 Placed(AllConnectors(drms \o DevicesAdded(choice)), conn, order),
                 order)) :
            LET map == Numbered(AllConnectors(drms \o DevicesAdded(choice)), first)
                rmOk == IF DOMAIN map = {} THEN ~LoopFailed(DevicesAdded(choice))
                        ELSE bufOk /\ ueventOk
            IN  /\ drms' = drms \o DevicesAdded(choice)
                /\ connectors' = map
                /\ connected' = conn
                /\ pastEnd' = (pastEnd \/ Placed(AllConnectors(drms \o
                                 DevicesAdded(choice)), conn, order).pastEnd)
                /\ displays' = IF rmOk THEN CreateDisplays(map) ELSE displays
                /\ initResult' = IF rmOk THEN "ok" ELSE "failed"
    BY <2>2
  <2>4. /\ displays' = CreateDisplays(connectors') \/ displays' = displays
        /\ initResult' \in {"ok", "failed"}
    BY <2>3, Zenon
  <2>. QED
    BY <1>3, <2>1, <2>3, <2>4, ReinitInv
<1>. QED
  BY <1>1, <1>2, <1>3

(* The numbering of DrmHwcTwo::Init and ReorderConnectors holds in every  *)
(* reachable state: no physical connector has two display numbers, and    *)
(* display handle h drives the connector numbered h + 1.                  *)
THEOREM DisplaysNumberedConsistently == Spec => []NumberingConsistent
<1>1. Init => NumberingInv
  BY InitInv
<1>2. NumberingInv /\ [Next]_vars => NumberingInv'
  BY NextInv
<1>3. NumberingInv => NumberingConsistent
  BY InvConsistent
<1>. QED
  BY <1>1, <1>2, <1>3, PTL DEF Spec

(* Every reachable state of the device, connector and display tables has   *)
(* the types the code gives them (TypeOK).                                *)
THEOREM TypeCorrect == Spec => []TypeOK
<1>1. Init => NumberingInv
  BY InitInv
<1>2. NumberingInv /\ [Next]_vars => NumberingInv'
  BY NextInv
<1>3. NumberingInv => TypeOK
  BY InvTypeOK
<1>. QED
  BY <1>1, <1>2, <1>3, PTL DEF Spec

=============================================================================
