-------------------------- MODULE HotplugDispatch --------------------------
(***************************************************************************)
(* Hotplug delivery (src/hwc2_device/DrmHwcTwo.cpp).  Two threads walk the *)
(* displays under the master lock: the uevent thread, in the handler       *)
(* DrmHwcTwo::Init registers, and the consumer's thread in                 *)
(* RegisterCallback(Hotplug), which forces a "connected" report for every  *)
(* display.  Every HAL entry point runs with the master lock held.         *)
(* SendHotplugEventToClient drops the lock around the callback and takes  *)
(* it back, so the other thread can run in between.                        *)
(*                                                                         *)
(* HwcDisplay::HandleHotplug is not under src/: it is modelled from spec  *)
(* 4.5 (report a display whose connection state changed, or every display  *)
(* when forced, and remember the state reported).                          *)
(***************************************************************************)
EXTENDS Naturals

CONSTANTS
  Displays,    \* the displays of DrmHwcTwo
  MaxChanges,  \* bound on connector state changes
  MaxRegs      \* bound on RegisterCallback(Hotplug) calls

Threads == {"uevent", "consumer"}
Free == "free"

ASSUME HotplugAssumption == MaxChanges \in Nat /\ MaxRegs \in Nat

VARIABLES
  hw,        \* the connector state the kernel reports
  known,     \* the state each display last acted on (HandleHotplug)
  view,      \* the state the consumer was last told, per display
  cbSet,     \* hotplug_callback_ is set
  lock,      \* master lock: Free or the thread holding it
  uevent,    \* a hotplug uevent is waiting for the uevent thread
  pc,        \* per thread: "idle", "loop", "send" (unlocked), "relock"
  todo,      \* per thread: displays the loop has still to visit
  force,     \* per thread: force_send_connected
  msg,       \* per thread: the event being sent
  changes, regs

vars == <<hw, known, view, cbSet, lock, uevent, pc, todo, force, msg,
          changes, regs>>

NoMsg == [disp |-> "none", connected |-> FALSE]

(* HWC2_CONNECTION_CONNECTED or HWC2_CONNECTION_DISCONNECTED.              *)
Report(b) == IF b THEN "connected" ELSE "disconnected"

TypeOK ==
  /\ hw \in [Displays -> BOOLEAN] /\ known \in [Displays -> BOOLEAN]
  /\ view \in [Displays -> {"none", "connected", "disconnected"}]
  /\ cbSet \in BOOLEAN /\ lock \in Threads \cup {Free} /\ uevent \in BOOLEAN
  /\ pc \in [Threads -> {"idle", "loop", "send", "relock"}]
  /\ todo \in [Threads -> SUBSET Displays] /\ force \in [Threads -> BOOLEAN]
  /\ msg \in [Threads -> {NoMsg} \cup [disp : Displays, connected : BOOLEAN]]
  /\ changes \in 0..MaxChanges /\ regs \in 0..MaxRegs

-----------------------------------------------------------------------------
Init ==
  /\ hw \in [Displays -> BOOLEAN]
  /\ known = hw
  /\ view = [d \in Displays |-> "none"]
  /\ cbSet = FALSE /\ lock = Free /\ uevent = FALSE
  /\ pc = [t \in Threads |-> "idle"]
  /\ todo = [t \in Threads |-> {}]
  /\ force = [t \in Threads |-> FALSE]
  /\ msg = [t \in Threads |-> NoMsg]
  /\ changes = 0 /\ regs = 0

(* A connector is plugged or unplugged; the kernel sends a uevent.        *)
KernelChange(d) ==
  /\ changes < MaxChanges
  /\ changes' = changes + 1
  /\ hw' = [hw EXCEPT ![d] = ~@]
  /\ uevent' = TRUE
  /\ UNCHANGED <<known, view, cbSet, lock, pc, todo, force, msg, regs>>

(* Taking the master lock and starting UpdateAllDiaplaysHotplugState.     *)
StartLoop(t, f) ==
  /\ pc[t] = "idle" /\ lock = Free
  /\ lock' = t
  /\ pc' = [pc EXCEPT ![t] = "loop"]
  /\ todo' = [todo EXCEPT ![t] = Displays]
  /\ force' = [force EXCEPT ![t] = f]

(* The hotplug handler: lock_guard on the master lock, then the loop.     *)
HotplugHandler ==
  /\ uevent
  /\ uevent' = FALSE
  /\ StartLoop("uevent", FALSE)
  /\ UNCHANGED <<hw, known, view, cbSet, msg, changes, regs>>

(* RegisterCallback(Hotplug): set the pair, then a forced loop.           *)
RegisterHotplug ==
  /\ regs < MaxRegs
  /\ regs' = regs + 1
  /\ cbSet' = TRUE
  /\ StartLoop("consumer", TRUE)
  /\ UNCHANGED <<hw, known, view, uevent, msg, changes>>

(***************************************************************************)
(* HandleHotplug of display d: when its state changed, or when forced,    *)
(* remember the state and call SendHotplugEventToClient, which, when the  *)
(* pair is set, unlocks the master lock before calling the consumer.     *)
(***************************************************************************)
HandleHotplug(t, d) ==
  /\ pc[t] = "loop" /\ d \in todo[t]
  /\ IF hw[d] # known[d] \/ force[t]
     THEN /\ known' = [known EXCEPT ![d] = hw[d]]
          /\ IF cbSet
             THEN /\ lock' = Free
                  /\ pc' = [pc EXCEPT ![t] = "send"]
                  /\ msg' = [msg EXCEPT ![t] = [disp |-> d, connected |-> hw[d]]]
                  /\ UNCHANGED todo
             ELSE /\ todo' = [todo EXCEPT ![t] = @ \ {d}]
                  /\ UNCHANGED <<lock, pc, msg>>
     ELSE /\ todo' = [todo EXCEPT ![t] = @ \ {d}]
          /\ UNCHANGED <<known, lock, pc, msg>>
  /\ UNCHANGED <<hw, view, cbSet, uevent, force, changes, regs>>

(* The consumer's hotplug callback runs, with no lock held.               *)
Deliver(t) ==
  /\ pc[t] = "send"
  /\ view' = [view EXCEPT ![msg[t].disp] = Report(msg[t].connected)]
  /\ pc' = [pc EXCEPT ![t] = "relock"]
  /\ UNCHANGED <<hw, known, cbSet, lock, uevent, todo, force, msg, changes,
                 regs>>

RelockSkippingRest(t) ==
  /\ pc[t] = "relock" /\ lock = Free
  /\ lock' = t
  /\ pc' = [pc EXCEPT ![t] = "loop"]
  /\ todo' = [todo EXCEPT ![t] = {}]
  /\ msg' = [msg EXCEPT ![t] = NoMsg]
  /\ UNCHANGED <<hw, known, view, cbSet, uevent, force, changes, regs>>

RelockUnlocked(t) ==
  /\ pc[t] = "relock"
  /\ lock' = t
  /\ pc' = [pc EXCEPT ![t] = "loop"]
  /\ todo' = [todo EXCEPT ![t] = @ \ {msg[t].disp}]
  /\ msg' = [msg EXCEPT ![t] = NoMsg]
  /\ UNCHANGED <<hw, known, view, cbSet, uevent, force, changes, regs>>

(* SendHotplugEventToClient takes the master lock back; the loop goes on. *)
Relock(t) ==
  /\ pc[t] = "relock" /\ lock = Free
  /\ lock' = t
  /\ pc' = [pc EXCEPT ![t] = "loop"]
  /\ todo' = [todo EXCEPT ![t] = @ \ {msg[t].disp}]
  /\ msg' = [msg EXCEPT ![t] = NoMsg]
  /\ UNCHANGED <<hw, known, view, cbSet, uevent, force, changes, regs>>

(* The loop is done: the lock_guard (or the HAL hook) unlocks.            *)
EndLoop(t) ==
  /\ pc[t] = "loop" /\ todo[t] = {}
  /\ lock' = Free
  /\ pc' = [pc EXCEPT ![t] = "idle"]
  /\ UNCHANGED <<hw, known, view, cbSet, uevent, todo, force, msg, changes,
                 regs>>

Next ==
  \/ \E d \in Displays : KernelChange(d)
  \/ HotplugHandler
  \/ RegisterHotplug
  \/ \E t \in Threads : \/ \E d \in Displays : HandleHotplug(t, d)
                        \/ Deliver(t) \/ Relock(t) \/ EndLoop(t)

(***************************************************************************)
(* The uevent thread handles every uevent, and a thread inside the loop   *)
(* runs it to the end: the callback returns and the lock is released by    *)
(* its holder within the loop, so no step waits forever.                  *)
(***************************************************************************)
Fairness ==
  /\ WF_vars(HotplugHandler)
  /\ \A t \in Threads :
       /\ WF_vars(\E d \in Displays : HandleHotplug(t, d))
       /\ WF_vars(Deliver(t)) /\ WF_vars(Relock(t)) /\ WF_vars(EndLoop(t))

Spec == Init /\ [][Next]_vars /\ Fairness

-----------------------------------------------------------------------------
(***************************************************************************)
(* The master lock serialises the loops: a thread walks the displays      *)
(* (HandleHotplug) exactly while it holds the lock, so the two threads    *)
(* never run HandleHotplug together, even though each drops the lock in   *)
(* the middle of its loop to call the consumer.                           *)
(***************************************************************************)
LoopExclusive == \A t \in Threads : pc[t] = "loop" <=> lock = t

(***************************************************************************)
(* No connector change is forgotten: a display whose kernel state differs *)
(* from the state it last acted on has a uevent pending, or is still to   *)
(* be visited by a loop (and not merely as the display whose report that  *)
(* loop is delivering, which Relock drops from the loop).                 *)
(***************************************************************************)
StillToVisit(t, d) ==
  d \in todo[t] /\ ~(pc[t] \in {"send", "relock"} /\ msg[t].disp = d)

NoChangeMissed ==
  \A d \in Displays :
    known[d] # hw[d] => uevent \/ \E t \in Threads : StillToVisit(t, d)

(* Once the connectors stop changing, every display acts on the state the *)
(* kernel reports: no uevent is lost while a loop is in progress.         *)
KnownConverges == <>[](\A d \in Displays : known[d] = hw[d])

(* Once a hotplug callback is registered and the connectors stop changing, *)
(* the consumer's last report for every display is its real state (spec   *)
(* 4.5: newly connected and disconnected connectors are reported).        *)
ViewConverges == <>[](cbSet => \A d \in Displays : view[d] = Report(hw[d]))

=============================================================================
