----------------------- MODULE HotplugDispatchProofs -----------------------
(***************************************************************************)
(* Proofs that the hotplug loops of DrmHwcTwo keep the master lock        *)
(* discipline and forget no connector change, for any set of displays and *)
(* any bounds.  Both invariants are inductive together with the type      *)
(* invariant: LoopExclusive needs only the types; NoChangeMissed needs    *)
(* the shape of the event a thread is delivering (a display).             *)
(***************************************************************************)
EXTENDS HotplugDispatch, TLAPS

(* A thread inside SendHotplugEventToClient carries the event of a display. *)
Sending(t) == pc[t] \in {"send", "relock"}

MsgShape ==
  \A t \in Threads : Sending(t) => msg[t] \in [disp : Displays, connected : BOOLEAN]

IInv == TypeOK /\ MsgShape /\ LoopExclusive /\ NoChangeMissed

LEMMA InitIInv == Init => IInv
<1> SUFFICES ASSUME Init PROVE IInv
  OBVIOUS
<1>1. TypeOK
  <2>1. /\ hw \in [Displays -> BOOLEAN] /\ known \in [Displays -> BOOLEAN]
        /\ view \in [Displays -> {"none", "connected", "disconnected"}]
    BY DEF Init
  <2>2. /\ pc \in [Threads -> {"idle", "loop", "send", "relock"}]
        /\ todo \in [Threads -> SUBSET Displays]
        /\ force \in [Threads -> BOOLEAN]
        /\ msg \in [Threads -> {NoMsg} \cup [disp : Displays, connected : BOOLEAN]]
    BY DEF Init
  <2>3. changes \in 0..MaxChanges /\ regs \in 0..MaxRegs
    BY HotplugAssumption DEF Init
  <2>. QED
    BY <2>1, <2>2, <2>3 DEF Init, TypeOK, Free
<1>4. MsgShape
  BY DEF Init, MsgShape, Sending
<1>2. LoopExclusive
  BY DEF Init, LoopExclusive, Threads, Free
<1>3. NoChangeMissed
  BY DEF Init, NoChangeMissed
<1>. QED
  BY <1>1, <1>2, <1>3, <1>4 DEF IInv

(* Every step keeps the types.                                             *)
LEMMA NextType == IInv /\ [Next]_vars => TypeOK'
<1> SUFFICES ASSUME IInv, [Next]_vars PROVE TypeOK'
  OBVIOUS
<1> USE DEF IInv, TypeOK, Threads, Free, NoMsg
<1>1. CASE \E d \in Displays : KernelChange(d)
  BY <1>1, HotplugAssumption DEF KernelChange
<1>2. CASE HotplugHandler
  BY <1>2 DEF HotplugHandler, StartLoop
<1>3. CASE RegisterHotplug
  BY <1>3, HotplugAssumption DEF RegisterHotplug, StartLoop
<1>4. CASE \E t \in Threads, d \in Displays : HandleHotplug(t, d)
  BY <1>4 DEF HandleHotplug
<1>5. CASE \E t \in Threads : Deliver(t)
  <2>1. PICK t \in Threads : Deliver(t)
    BY <1>5
  <2>2. msg[t].disp \in Displays
    BY <2>1 DEF Deliver, MsgShape, Sending
  <2>. QED
    BY <2>1, <2>2 DEF Deliver, Report
<1>6. CASE \E t \in Threads : Relock(t)
  BY <1>6 DEF Relock
<1>7. CASE \E t \in Threads : EndLoop(t)
  BY <1>7 DEF EndLoop
<1>8. CASE UNCHANGED vars
  BY <1>8 DEF vars
<1>. QED
  BY <1>1, <1>2, <1>3, <1>4, <1>5, <1>6, <1>7, <1>8 DEF Next
(* Only HandleHotplug enters the send window, with the event of a display; *)
(* Relock leaves it and clears the event.                                 *)
LEMMA NextMsgShape == IInv /\ [Next]_vars => MsgShape'
<1> SUFFICES ASSUME IInv, [Next]_vars PROVE MsgShape'
  OBVIOUS
<1> USE DEF IInv, TypeOK, MsgShape, Sending, Threads
<1>1. CASE \E d \in Displays : KernelChange(d)
  BY <1>1 DEF KernelChange
<1>2. CASE HotplugHandler
  BY <1>2 DEF HotplugHandler, StartLoop
<1>3. CASE RegisterHotplug
  BY <1>3 DEF RegisterHotplug, StartLoop
<1>4. CASE \E t \in Threads, d \in Displays : HandleHotplug(t, d)
  BY <1>4 DEF HandleHotplug
<1>5. CASE \E t \in Threads : Deliver(t)
  BY <1>5 DEF Deliver
<1>6. CASE \E t \in Threads : Relock(t)
  BY <1>6 DEF Relock
<1>7. CASE \E t \in Threads : EndLoop(t)
  BY <1>7 DEF EndLoop
<1>8. CASE UNCHANGED vars
  BY <1>8 DEF vars
<1>. QED
  BY <1>1, <1>2, <1>3, <1>4, <1>5, <1>6, <1>7, <1>8 DEF Next

(* A loop starts or resumes only with the lock free, and it gives the     *)
(* lock up whenever it leaves the "loop" state.                            *)
LEMMA NextLoopExclusive == IInv /\ [Next]_vars => LoopExclusive'
<1> SUFFICES ASSUME IInv, [Next]_vars PROVE LoopExclusive'
  OBVIOUS
<1> USE DEF IInv, TypeOK, LoopExclusive, Threads, Free
<1>1. CASE \E d \in Displays : KernelChange(d)
  BY <1>1 DEF KernelChange
<1>2. CASE HotplugHandler
  BY <1>2 DEF HotplugHandler, StartLoop
<1>3. CASE RegisterHotplug
  BY <1>3 DEF RegisterHotplug, StartLoop
<1>4. CASE \E t \in Threads, d \in Displays : HandleHotplug(t, d)
  BY <1>4 DEF HandleHotplug
<1>5. CASE \E t \in Threads : Deliver(t)
  BY <1>5 DEF Deliver
<1>6. CASE \E t \in Threads : Relock(t)
  BY <1>6 DEF Relock
<1>7. CASE \E t \in Threads : EndLoop(t)
  BY <1>7 DEF EndLoop
<1>8. CASE UNCHANGED vars
  BY <1>8 DEF vars
<1>. QED
  BY <1>1, <1>2, <1>3, <1>4, <1>5, <1>6, <1>7, <1>8 DEF Next

(***************************************************************************)
(* NoChangeMissed.  A KernelChange raises the uevent; the uevent handler  *)
(* consumes it only by starting a loop over every display; HandleHotplug  *)
(* drops a display from its loop only once it acted on the kernel state,  *)
(* and a display being reported is dropped by Relock only after it was    *)
(* acted on (which is why StillToVisit excludes it).  Every other step    *)
(* keeps each display that is still to visit still to visit.              *)
(***************************************************************************)
LEMMA KeepsCoverage ==
  ASSUME IInv, NEW d \in Displays,
         UNCHANGED <<hw, known, uevent>>,
         \A u \in Threads : StillToVisit(u, d) => StillToVisit(u, d)'
  PROVE  NoChangeMissed!(d)'
BY DEF IInv, NoChangeMissed

LEMMA NextNoChangeMissed == IInv /\ [Next]_vars => NoChangeMissed'
<1> SUFFICES ASSUME IInv, [Next]_vars, NEW d \in Displays
             PROVE  NoChangeMissed!(d)'
  BY DEF NoChangeMissed
<1> USE DEF Threads
<1>1. CASE \E e \in Displays : KernelChange(e)
  BY <1>1 DEF KernelChange
<1>2. CASE HotplugHandler
  <2>1. pc'["uevent"] = "loop" /\ todo'["uevent"] = Displays
    BY <1>2 DEF HotplugHandler, StartLoop, IInv, TypeOK
  <2>. QED
    BY <2>1 DEF StillToVisit
<1>3. CASE RegisterHotplug
  <2>1. pc'["consumer"] = "loop" /\ todo'["consumer"] = Displays
    BY <1>3 DEF RegisterHotplug, StartLoop, IInv, TypeOK
  <2>. QED
    BY <2>1 DEF StillToVisit
<1>4. CASE \E t \in Threads, e \in Displays : HandleHotplug(t, e)
  <2>1. PICK t \in Threads, e \in Displays : HandleHotplug(t, e)
    BY <1>4
  <2>2. UNCHANGED <<hw, uevent>>
    BY <2>1 DEF HandleHotplug
  <2>3. CASE e = d
    <3>1. known'[d] = hw[d]
      BY <2>1, <2>3 DEF HandleHotplug, IInv, TypeOK
    <3>. QED
      BY <2>2, <3>1
  <2>4. CASE e # d
    <3>1. known'[d] = known[d]
      BY <2>1, <2>4 DEF HandleHotplug, IInv, TypeOK
    <3>2. ASSUME NEW u \in Threads, StillToVisit(u, d)
          PROVE  StillToVisit(u, d)'
      BY <2>1, <2>4, <3>2 DEF HandleHotplug, StillToVisit, IInv, TypeOK, LoopExclusive
    <3>. QED
      BY <2>2, <3>1, <3>2 DEF IInv, NoChangeMissed
  <2>. QED
    BY <2>3, <2>4
<1>5. CASE \E t \in Threads : Deliver(t)
  <2>1. PICK t \in Threads : Deliver(t)
    BY <1>5
  <2>2. ASSUME NEW u \in Threads, StillToVisit(u, d)
        PROVE  StillToVisit(u, d)'
    BY <2>1, <2>2 DEF Deliver, StillToVisit, IInv, TypeOK
  <2>. QED
    BY <2>1, <2>2, KeepsCoverage DEF Deliver
<1>6. CASE \E t \in Threads : Relock(t)
  <2>1. PICK t \in Threads : Relock(t)
    BY <1>6
  <2>2. ASSUME NEW u \in Threads, StillToVisit(u, d)
        PROVE  StillToVisit(u, d)'
    BY <2>1, <2>2 DEF Relock, StillToVisit, IInv, TypeOK
  <2>. QED
    BY <2>1, <2>2, KeepsCoverage DEF Relock
<1>7. CASE \E t \in Threads : EndLoop(t)
  <2>1. PICK t \in Threads : EndLoop(t)
    BY <1>7
  <2>2. ASSUME NEW u \in Threads, StillToVisit(u, d)
        PROVE  StillToVisit(u, d)'
    BY <2>1, <2>2 DEF EndLoop, StillToVisit, IInv, TypeOK
  <2>. QED
    BY <2>1, <2>2, KeepsCoverage DEF EndLoop
<1>8. CASE UNCHANGED vars
  BY <1>8 DEF vars, IInv, NoChangeMissed, StillToVisit
<1>. QED
  BY <1>1, <1>2, <1>3, <1>4, <1>5, <1>6, <1>7, <1>8 DEF Next

LEMMA NextIInv == IInv /\ [Next]_vars => IInv'
BY NextType, NextMsgShape, NextLoopExclusive, NextNoChangeMissed DEF IInv

-----------------------------------------------------------------------------
(* The two threads never walk the displays together: the thread running   *)
(* HandleHotplug is the one holding the master lock, across the unlock    *)
(* SendHotplugEventToClient does around the consumer's callback.          *)
THEOREM LockSerialisesLoops == Spec => []LoopExclusive
<1>1. IInv => LoopExclusive
  BY DEF IInv
<1>. QED
  BY <1>1, InitIInv, NextIInv, PTL DEF Spec

(* A connector change is never forgotten by the hotplug dispatch: while a *)
(* display has not acted on the kernel's state, a uevent is pending or a  *)
(* loop still has to visit it.                                            *)
THEOREM NoChangeForgotten == Spec => []NoChangeMissed
<1>1. IInv => NoChangeMissed
  BY DEF IInv
<1>. QED
  BY <1>1, InitIInv, NextIInv, PTL DEF Spec

=============================================================================
