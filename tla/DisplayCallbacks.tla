-------------------------- MODULE DisplayCallbacks --------------------------
(***************************************************************************)
(* The consumer callbacks of one display and the threads that call them:   *)
(* the vsync worker and the flattening worker, whose callbacks             *)
(* (HwcDisplay::Init, src/hwc2_device/HwcDisplay.cpp) run under            *)
(* callback_lock_, DrmHwcTwo::RegisterCallback, which assigns a            *)
(* (function, data) pair without that lock, and the validating thread,     *)
(* which moves the flattening state without it.                           *)
(*                                                                         *)
(* flattenning_state_ is an int: -3 Disabled, -2 NotRequired, -1          *)
(* Flattened, 0 ClientRefreshRequested, and a positive countdown.  The     *)
(* flattening tick reads it in its guard, then decrements it (a load and  *)
(* a store); the validating thread's write can fall between any two of   *)
(* these, and one value below Disabled is reachable.  A pair assignment writes *)
(* .first then .second; a worker can read between them.  Registration k   *)
(* registers function k with data k, so a torn pair has fn # data.        *)
(***************************************************************************)
EXTENDS Integers

CONSTANTS
  Countdown,   \* the countdown the validating thread arms (VsyncCountdownMax)
  MaxRegs,     \* bound on RegisterCallback calls
  MaxPolicy    \* bound on the validating thread's flattening decisions

Disabled == -3
NotRequired == -2
Flattened == -1
ClientRefreshRequested == 0
Sinks == {Disabled, NotRequired}

Kinds == {"refresh", "vsync", "vsync_2_4"}
Null == 0
NoCall == [kind |-> "none", fn |-> Null, data |-> Null]
Tokens == 0..MaxRegs

ASSUME CallbacksAssumption ==
  Countdown \in Nat \ {0} /\ MaxRegs \in Nat /\ MaxPolicy \in Nat

VARIABLES
  flat,        \* flattenning_state_
  flatArmed,   \* flattening_vsync_worker_ enabled
  vsyncArmed,  \* vsync_worker_ enabled
  cb,          \* the callback pairs of DrmHwcTwo
  regs,        \* RegisterCallback calls so far
  pending,     \* a pair assignment with .first written, .second not yet
  fPhase,      \* flattening tick: "idle", "checked", "loaded" (holds callback_lock_)
  fLocal,      \* the value the tick read last
  policy,      \* the value the validating thread wrote last
  policySteps, \* its decisions so far
  refreshes,   \* refresh callbacks made
  lastCall     \* the last callback made: kind, function, data

vars == <<flat, flatArmed, vsyncArmed, cb, regs, pending, fPhase, fLocal,
          policy, policySteps, refreshes, lastCall>>

TypeOK ==
  /\ flat \in (Disabled - 1)..Countdown
  /\ flatArmed \in BOOLEAN /\ vsyncArmed \in BOOLEAN
  /\ cb \in [Kinds -> [fn : Tokens, data : Tokens]]
  /\ regs \in 0..MaxRegs
  /\ pending \in {NoCall} \cup [kind : Kinds, fn : Tokens, data : Tokens]
  /\ fPhase \in {"idle", "checked", "loaded"} /\ fLocal \in Disabled..Countdown
  /\ policy \in Disabled..Countdown /\ policySteps \in 0..MaxPolicy
  /\ refreshes \in Nat
  /\ lastCall \in {NoCall} \cup [kind : Kinds, fn : Tokens, data : Tokens]

Registered(k) == cb[k].fn # Null /\ cb[k].data # Null

Call(k) == lastCall' = [kind |-> k, fn |-> cb[k].fn, data |-> cb[k].data]

-----------------------------------------------------------------------------
Init ==
  /\ flat = NotRequired
  /\ flatArmed = FALSE /\ vsyncArmed = FALSE
  /\ cb = [k \in Kinds |-> [fn |-> Null, data |-> Null]]
  /\ regs = 0 /\ pending = NoCall
  /\ fPhase = "idle" /\ fLocal = 1
  /\ policy = NotRequired /\ policySteps = 0
  /\ refreshes = 0 /\ lastCall = NoCall

(***************************************************************************)
(* RegisterCallback(Refresh / Vsync / Vsync_2_4): the pair assignment,     *)
(* .first then .second, with no lock held.                                 *)
(***************************************************************************)
RegisterFirst(k) ==
  /\ pending = NoCall /\ regs < MaxRegs
  /\ regs' = regs + 1
  /\ cb' = [cb EXCEPT ![k].fn = regs + 1]
  /\ pending' = [kind |-> k, fn |-> regs + 1, data |-> regs + 1]
  /\ UNCHANGED <<flat, flatArmed, vsyncArmed, fPhase, fLocal, policy,
                 policySteps, refreshes, lastCall>>

RegisterSecond ==
  /\ pending # NoCall
  /\ cb' = [cb EXCEPT ![pending.kind].data = pending.data]
  /\ pending' = NoCall
  /\ UNCHANGED <<flat, flatArmed, vsyncArmed, regs, fPhase, fLocal, policy,
                 policySteps, refreshes, lastCall>>

(* SetVsyncEnabled: VSyncControl of the vsync worker.                     *)
SetVsyncEnabled(on) ==
  /\ vsyncArmed' = on
  /\ UNCHANGED <<flat, flatArmed, cb, regs, pending, fPhase, fLocal, policy,
                 policySteps, refreshes, lastCall>>

(* The vsync worker's callback: under callback_lock_, vsync_2_4 when its   *)
(* pair is set, else vsync when its pair is set.                          *)
VsyncTick ==
  /\ vsyncArmed /\ fPhase = "idle"
  /\ IF Registered("vsync_2_4") THEN Call("vsync_2_4")
     ELSE IF Registered("vsync") THEN Call("vsync")
     ELSE UNCHANGED lastCall
  /\ UNCHANGED <<flat, flatArmed, vsyncArmed, cb, regs, pending, fPhase,
                 fLocal, policy, policySteps, refreshes>>

(***************************************************************************)
(* The flattening worker's callback, under callback_lock_: when the state  *)
(* is a countdown, decrement it; if that reaches ClientRefreshRequested   *)
(* and the refresh pair is set, call it and disarm the worker.  The guard  *)
(* reads flattenning_state_ (FlatCheck), the decrement reads it again     *)
(* (FlatLoad) and writes it (FlatStore).  The int is written by the       *)
(* validating thread without the lock, a data race: the build may reuse   *)
(* the value the guard read or read it anew, so the load takes either.    *)
(***************************************************************************)
FlatCheckUnguarded ==
  /\ flatArmed /\ fPhase = "idle"
  /\ fPhase' = "checked" /\ fLocal' = flat
  /\ UNCHANGED <<flat, flatArmed, vsyncArmed, cb, regs, pending, policy,
                 policySteps, refreshes, lastCall>>

FlatCheck ==
  /\ flatArmed /\ fPhase = "idle" /\ flat > ClientRefreshRequested
  /\ fPhase' = "checked" /\ fLocal' = flat
  /\ UNCHANGED <<flat, flatArmed, vsyncArmed, cb, regs, pending, policy,
                 policySteps, refreshes, lastCall>>

FlatLoad ==
  /\ fPhase = "checked"
  /\ fPhase' = "loaded" /\ fLocal' \in {fLocal, flat}
  /\ UNCHANGED <<flat, flatArmed, vsyncArmed, cb, regs, pending, policy,
                 policySteps, refreshes, lastCall>>

(* The refresh condition on the value before and after the decrement.    *)
ReachedRequestPostDecrement(old, new) == old = ClientRefreshRequested

ReachedRequest(old, new) == new = ClientRefreshRequested

FlatStore ==
  /\ fPhase = "loaded"
  /\ flat' = fLocal - 1
  /\ fPhase' = "idle"
  /\ IF ReachedRequest(fLocal, fLocal - 1) /\ Registered("refresh")
     THEN /\ Call("refresh") /\ refreshes' = refreshes + 1
          /\ flatArmed' = FALSE
     ELSE UNCHANGED <<lastCall, refreshes, flatArmed>>
  /\ UNCHANGED <<vsyncArmed, cb, regs, pending, fLocal, policy, policySteps>>

(***************************************************************************)
(* The validating thread's flattening decision, without callback_lock_:    *)
(* the policy may make flattening not required or disable it; a            *)
(* flattenable frame after the refresh request marks the display flattened, *)
(* otherwise it (re)arms the worker with the countdown.                    *)
(***************************************************************************)
SetSink(s) ==
  /\ policySteps < MaxPolicy
  /\ policySteps' = policySteps + 1
  /\ flat' = s /\ policy' = s
  /\ UNCHANGED <<flatArmed, vsyncArmed, cb, regs, pending, fPhase, fLocal,
                 refreshes, lastCall>>

Flattenable ==
  /\ policySteps < MaxPolicy
  /\ policySteps' = policySteps + 1
  /\ IF flat = ClientRefreshRequested
     THEN flat' = Flattened /\ UNCHANGED flatArmed
     ELSE flat' = Countdown /\ flatArmed' = TRUE
  /\ policy' = flat'
  /\ UNCHANGED <<vsyncArmed, cb, regs, pending, fPhase, fLocal, refreshes,
                 lastCall>>

Next ==
  \/ \E k \in Kinds : RegisterFirst(k)
  \/ RegisterSecond
  \/ \E on \in BOOLEAN : SetVsyncEnabled(on)
  \/ VsyncTick
  \/ FlatCheck
  \/ FlatLoad
  \/ FlatStore
  \/ \E s \in Sinks : SetSink(s)
  \/ Flattenable

(***************************************************************************)
(* The flattening worker ticks on every vsync while it is armed, and a     *)
(* thread holding callback_lock_ runs to the end of the callback; a pair  *)
(* assignment, once started, completes.                                   *)
(***************************************************************************)
Fairness ==
  /\ WF_vars(FlatCheck) /\ WF_vars(FlatLoad) /\ WF_vars(FlatStore)
  /\ WF_vars(RegisterSecond)

Spec == Init /\ [][Next]_vars /\ Fairness

-----------------------------------------------------------------------------
(***************************************************************************)
(* A countdown armed while a refresh callback is registered ends in a     *)
(* refresh request, unless the validating thread disables flattening or   *)
(* makes it not required (spec: flattening state machine).                *)
(***************************************************************************)
RefreshEventuallyRequested ==
  \A n \in 0..MaxPolicy :
    (flat > ClientRefreshRequested /\ flatArmed /\ Registered("refresh")
       /\ refreshes = n)
      ~> (refreshes > n \/ policy \in Sinks)

(* Disabled and NotRequired are left only by the validating thread's      *)
(* decisions, never by the flattening tick.                               *)
SinksStay == policy \in Sinks => flat = policy

(* Every callback is called with the data registered with that function.  *)
CallbackPaired == lastCall.fn = lastCall.data

=============================================================================
