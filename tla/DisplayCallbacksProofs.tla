----------------------- MODULE DisplayCallbacksProofs -----------------------
(***************************************************************************)
(* Type correctness of the callback and flattening state of a display,    *)
(* for every countdown and every bound.  TypeOK is not inductive: the     *)
(* tick's second read may see whatever the validating thread wrote after  *)
(* the guard.  Those writes are sinks, Flattened or the countdown, so    *)
(* while a tick is between guard and load the state is at least Disabled *)
(* (CheckedInRange), the value loaded is, and the value stored is at     *)
(* least Disabled - 1.                                                    *)
(***************************************************************************)
EXTENDS DisplayCallbacks, TLAPS

(* Between the guard and the load the state is not below Disabled.       *)
CheckedInRange == fPhase = "checked" => flat \in Disabled..Countdown

IInv == TypeOK /\ CheckedInRange

LEMMA InitType == Init => IInv
<1> SUFFICES ASSUME Init PROVE IInv
  OBVIOUS
<1>0. Countdown \in Nat \ {0} /\ MaxRegs \in Nat /\ MaxPolicy \in Nat
  BY CallbacksAssumption
<1>1. flat \in (Disabled - 1)..Countdown /\ policy \in Disabled..Countdown
      /\ fLocal \in Disabled..Countdown
  BY <1>0 DEF Init, NotRequired, Disabled
<1>2. Null \in Tokens
  BY <1>0 DEF Null, Tokens
<1>3. cb \in [Kinds -> [fn : Tokens, data : Tokens]]
  BY <1>2 DEF Init
<1>4. /\ pending \in {NoCall} \cup [kind : Kinds, fn : Tokens, data : Tokens]
      /\ lastCall \in {NoCall} \cup [kind : Kinds, fn : Tokens, data : Tokens]
  BY DEF Init
<1>5. regs \in 0..MaxRegs /\ policySteps \in 0..MaxPolicy /\ refreshes \in Nat
  BY <1>0 DEF Init
<1>6. /\ flatArmed \in BOOLEAN /\ vsyncArmed \in BOOLEAN
      /\ fPhase \in {"idle", "checked", "loaded"}
  BY DEF Init
<1>7. CheckedInRange
  BY DEF Init, CheckedInRange
<1>. QED
  BY <1>1, <1>3, <1>4, <1>5, <1>6, <1>7 DEF TypeOK, IInv

(* A callback of kind k made from well-typed pairs is a well-typed call.  *)
LEMMA CallType ==
  ASSUME TypeOK, NEW k \in Kinds, Call(k)
  PROVE  lastCall' \in {NoCall} \cup [kind : Kinds, fn : Tokens, data : Tokens]
BY DEF TypeOK, Call

LEMMA NextType == IInv /\ [Next]_vars => TypeOK'
<1> SUFFICES ASSUME TypeOK, CheckedInRange, [Next]_vars PROVE TypeOK'
  BY DEF IInv
<1>0. Countdown \in Nat \ {0} /\ MaxRegs \in Nat /\ MaxPolicy \in Nat
  BY CallbacksAssumption
<1>1. CASE \E k \in Kinds : RegisterFirst(k)
  BY <1>0, <1>1 DEF RegisterFirst, TypeOK, Tokens
<1>2. CASE RegisterSecond
  BY <1>2 DEF RegisterSecond, TypeOK, NoCall
<1>3. CASE \E on \in BOOLEAN : SetVsyncEnabled(on)
  BY <1>3 DEF SetVsyncEnabled, TypeOK
<1>4. CASE VsyncTick
  <2>1. lastCall' \in {NoCall} \cup [kind : Kinds, fn : Tokens, data : Tokens]
    <3>1. CASE Registered("vsync_2_4")
      <4>1. Call("vsync_2_4")
        BY <1>4, <3>1 DEF VsyncTick
      <4>. QED
        BY <4>1, CallType DEF Kinds
    <3>2. CASE ~Registered("vsync_2_4") /\ Registered("vsync")
      <4>1. Call("vsync")
        BY <1>4, <3>2 DEF VsyncTick
      <4>. QED
        BY <4>1, CallType DEF Kinds
    <3>3. CASE ~Registered("vsync_2_4") /\ ~Registered("vsync")
      BY <1>4, <3>3 DEF VsyncTick, TypeOK
    <3>. QED
      BY <3>1, <3>2, <3>3
  <2>. QED
    BY <1>4, <2>1 DEF VsyncTick, TypeOK
<1>5. CASE FlatLoad
  <2>1. flat \in Disabled..Countdown
    BY <1>5 DEF FlatLoad, CheckedInRange
  <2>2. fLocal' \in Disabled..Countdown
    BY <1>5, <2>1 DEF FlatLoad, TypeOK
  <2>. QED
    BY <1>5, <2>2 DEF FlatLoad, TypeOK
<1>10. CASE FlatCheck
  BY <1>0, <1>10 DEF FlatCheck, TypeOK, ClientRefreshRequested, Disabled
<1>6. CASE FlatStore
  <2>1. flat' \in (Disabled - 1)..Countdown
    BY <1>0, <1>6 DEF FlatStore, TypeOK, Disabled
  <2>2. /\ lastCall' \in {NoCall} \cup [kind : Kinds, fn : Tokens, data : Tokens]
        /\ refreshes' \in Nat /\ flatArmed' \in BOOLEAN
    <3>1. CASE ReachedRequest(fLocal, fLocal - 1) /\ Registered("refresh")
      <4>1. Call("refresh")
        BY <1>6, <3>1 DEF FlatStore
      <4>2. refreshes' = refreshes + 1 /\ flatArmed' = FALSE
        BY <1>6, <3>1 DEF FlatStore
      <4>3. lastCall' \in {NoCall} \cup [kind : Kinds, fn : Tokens, data : Tokens]
        BY <4>1, CallType DEF Kinds
      <4>4. refreshes' \in Nat
        BY <4>2 DEF TypeOK
      <4>5. flatArmed' \in BOOLEAN
        BY <4>2
      <4>. QED
        BY <4>3, <4>4, <4>5
    <3>2. CASE ~(ReachedRequest(fLocal, fLocal - 1) /\ Registered("refresh"))
      BY <1>6, <3>2 DEF FlatStore, TypeOK
    <3>. QED
      BY <3>1, <3>2
  <2>. QED
    BY <1>6, <2>1, <2>2 DEF FlatStore, TypeOK
<1>7. CASE \E s \in Sinks : SetSink(s)
  BY <1>0, <1>7 DEF SetSink, TypeOK, Sinks, Disabled, NotRequired
<1>8. CASE Flattenable
  <2>1. flat' \in Disabled..Countdown /\ flatArmed' \in BOOLEAN
    <3>1. CASE flat = ClientRefreshRequested
      BY <1>0, <1>8, <3>1 DEF Flattenable, TypeOK, Disabled, Flattened
    <3>2. CASE flat # ClientRefreshRequested
      BY <1>0, <1>8, <3>2 DEF Flattenable, TypeOK, Disabled
    <3>. QED
      BY <3>1, <3>2
  <2>2. policy' = flat' /\ policySteps' = policySteps + 1 /\ policySteps < MaxPolicy
    BY <1>8 DEF Flattenable
  <2>. QED
    BY <1>0, <1>8, <2>1, <2>2 DEF Flattenable, TypeOK, Disabled
<1>9. CASE UNCHANGED vars
  BY <1>9 DEF vars, TypeOK
<1>. QED
  BY <1>1, <1>2, <1>3, <1>4, <1>5, <1>6, <1>7, <1>8, <1>9, <1>10 DEF Next

(* No step but the tick's guard enters the checked phase, and it does so  *)
(* only on a countdown; the writes that can follow are all >= Disabled.   *)
LEMMA NextChecked == IInv /\ [Next]_vars => CheckedInRange'
<1> SUFFICES ASSUME TypeOK, CheckedInRange, [Next]_vars,
                    fPhase' = "checked"
             PROVE  flat' \in Disabled..Countdown
  BY DEF IInv, CheckedInRange
<1>0. Countdown \in Nat \ {0}
  BY CallbacksAssumption
<1>1. CASE \E k \in Kinds : RegisterFirst(k)
  BY <1>1 DEF RegisterFirst, CheckedInRange
<1>2. CASE RegisterSecond
  BY <1>2 DEF RegisterSecond, CheckedInRange
<1>3. CASE \E on \in BOOLEAN : SetVsyncEnabled(on)
  BY <1>3 DEF SetVsyncEnabled, CheckedInRange
<1>4. CASE VsyncTick
  BY <1>4 DEF VsyncTick, CheckedInRange
<1>5. CASE FlatCheck
  BY <1>0, <1>5 DEF FlatCheck, TypeOK, ClientRefreshRequested, Disabled
<1>6. CASE FlatLoad
  BY <1>6 DEF FlatLoad
<1>7. CASE FlatStore
  BY <1>7 DEF FlatStore
<1>8. CASE \E v \in Sinks : SetSink(v)
  BY <1>0, <1>8 DEF SetSink, Sinks, Disabled, NotRequired
<1>9. CASE Flattenable
  BY <1>0, <1>9 DEF Flattenable, Disabled, Flattened
<1>10. CASE UNCHANGED vars
  BY <1>10 DEF vars, CheckedInRange
<1>. QED
  BY <1>1, <1>2, <1>3, <1>4, <1>5, <1>6, <1>7, <1>8, <1>9, <1>10 DEF Next

-----------------------------------------------------------------------------
(* Every reachable state is well typed: however the flattening tick's     *)
(* guard, load and store interleave with the validating thread's unlocked *)
(* writes, flattenning_state_ never goes below Disabled - 1 (one value    *)
(* outside ClientFlattenningState, reached when Disabled is written      *)
(* between the guard and a second read),                                   *)
(* and every callback made is of a known kind with registration numbers  *)
(* as function and data (not necessarily of the same registration).      *)
THEOREM TypeCorrect == Spec => []TypeOK
<1>1. Init => IInv
  BY InitType
<1>2. IInv /\ [Next]_vars => IInv'
  BY NextType, NextChecked DEF IInv
<1>3. IInv => TypeOK
  BY DEF IInv
<1>. QED
  BY <1>1, <1>2, <1>3, PTL DEF Spec

=============================================================================
