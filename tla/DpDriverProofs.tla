--------------------------- MODULE DpDriverProofs ---------------------------
(***************************************************************************)
(* Safety of the USB drawpad driver for any set of interfaces and handles: *)
(* IInv is inductive, it implies the safety properties that TLC checks on  *)
(* a small instance, and under it every step is a step of TabletPort.      *)
(***************************************************************************)
EXTENDS DpDriver, TLAPS


LEMMA InitIInv == Init => IInv
  BY DEF Init, IInv, TypeOK, ThreadInv, TransferInv, RejectInv, PC, Res, AllHeldPC,
         DisconnectPC

\* An action of the environment leaves every interface alone.
LEMMA EnvStep ==
    ASSUME IInv, UNCHANGED <<pc, mem, inp, xfer>>,
           device' \in {"gone", "boot", "tablet"}, module' \in {"out", "in", "leaving"}
    PROVE  IInv'
  BY DEF IInv, TypeOK, ThreadInv, TransferInv, RejectInv, mem, inp, xfer

\* The first allocations of usb_drawpad_probe, of which either may fail.
LEMMA AllocStep ==
    ASSUME IInv, NEW i \in Intf, ProbeAlloc(i)
    PROVE  IInv'
<1>1. PICK got \in SUBSET {"drawpad", "input"} :
          /\ live' = [live EXCEPT ![i] = @ \cup got]
          /\ Step(i, "p_alloc", IF got = {"drawpad", "input"} THEN "p_coherent" ELSE "fail1")
  BY DEF ProbeAlloc
<1>2. UNCHANGED <<device, module, intfdata, reg, users, cb, urb, reject>>
  BY DEF ProbeAlloc, env, inp, xfer
<1>3. TypeOK /\ \A j \in Intf : ThreadInv(j) /\ TransferInv(j) /\ RejectInv(j)
  BY DEF IInv
<1>4. pc[i] = "p_alloc" /\ live[i] = {} /\ reg[i] = "no" /\ ~intfdata[i]
  <2>1. pc[i] = "p_alloc"
    BY <1>1 DEF Step
  <2>2. ThreadInv(i) /\ reg[i] \in {"no", "yes", "going"}
    BY <1>3 DEF TypeOK
  <2> QED BY <2>1, <2>2 DEF ThreadInv
<1>5. /\ pc' = [pc EXCEPT ![i] = IF got = {"drawpad", "input"} THEN "p_coherent" ELSE "fail1"]
      /\ live' = [live EXCEPT ![i] = got]
  BY <1>1, <1>4 DEF Step
<1>6. pc \in [Intf -> PC] /\ live \in [Intf -> SUBSET Res]
  BY <1>3 DEF TypeOK
<1>7. /\ pc'[i] \in {"p_coherent", "fail1"} /\ live'[i] = got
      /\ pc'[i] = "p_coherent" => got = {"drawpad", "input"}
      /\ \A j \in Intf : j # i => pc'[j] = pc[j] /\ live'[j] = live[j]
  BY <1>5, <1>6
<1>8. TypeOK'
  <2>1. pc' \in [Intf -> PC]
    BY <1>5, <1>6 DEF PC, ProbePC
  <2>2. live' \in [Intf -> SUBSET Res]
    BY <1>5, <1>6 DEF Res
  <2> QED BY <1>2, <1>3, <2>1, <2>2, Zenon DEF TypeOK
<1>9. ASSUME NEW j \in Intf PROVE ThreadInv(j)'
  <2>1. CASE j = i
    BY <1>2, <1>4, <1>7, <2>1 DEF ThreadInv, AllHeldPC
  <2>2. CASE j # i
    BY <1>2, <1>3, <1>7, <2>2, Zenon DEF ThreadInv
  <2> QED BY <2>1, <2>2
<1>10. ASSUME NEW j \in Intf PROVE TransferInv(j)' /\ RejectInv(j)'
  <2>1. /\ pc'[j] \in DisconnectPC => pc'[j] = pc[j]
        /\ pc'[j] \in {"d_unregister", "d_detach"} => pc'[j] = pc[j]
        /\ pc'[j] = "d_killwait" <=> pc[j] = "d_killwait"
    BY <1>4, <1>7 DEF DisconnectPC
  <2> QED BY <1>2, <1>3, <2>1, Zenon DEF TransferInv, RejectInv
<1> QED BY <1>8, <1>9, <1>10 DEF IInv

\* Calling or executing usb_drawpad_probe preserves the invariant.
LEMMA ProbeStep ==
    ASSUME IInv, NEW i \in Intf, CallProbe(i) \/ Probe(i)
    PROVE  IInv'
<1> USE DEF IInv, TypeOK, ThreadInv, TransferInv, RejectInv, Step, AllHeldPC, Res, PC,
            ProbePC, DisconnectPC, env, mem, inp, xfer
<1>1. CASE CallProbe(i)
  BY <1>1 DEF CallProbe
<1>2. CASE ProbeCheck(i)
  BY <1>2 DEF ProbeCheck
<1>3. CASE ProbeAlloc(i)
  BY <1>3, AllocStep
<1>4. CASE ProbeCoherent(i)
  BY <1>4 DEF ProbeCoherent, Allocate
<1>5. CASE ProbeUrb(i)
  BY <1>5 DEF ProbeUrb, Allocate
<1>6. CASE ProbeRegister(i)
  BY <1>6 DEF ProbeRegister
<1>7. CASE ProbeIntfdata(i)
  BY <1>7 DEF ProbeIntfdata
<1>8. CASE ProbeFail3(i)
  BY <1>8 DEF ProbeFail3, Free
<1>9. CASE ProbeFail2(i)
  BY <1>9 DEF ProbeFail2, Free
<1>10. CASE ProbeFail1(i)
  BY <1>10 DEF ProbeFail1, Free
<1> QED
  BY <1>1, <1>2, <1>3, <1>4, <1>5, <1>6, <1>7, <1>8, <1>9, <1>10 DEF Probe

\* Open, close, the completion handler and their callers preserve it.
LEMMA SessionStep ==
    ASSUME IInv, NEW i \in Intf,
           \/ Callback(i) \/ Report(i) \/ Irq(i)
           \/ \E h \in Handle : InputOpen(i, h) \/ InputClose(i, h)
    PROVE  IInv'
<1> USE DEF IInv, TypeOK, ThreadInv, TransferInv, RejectInv, AllHeldPC, DisconnectPC,
            env, mem, inp, xfer
<1>1. ASSUME NEW h \in Handle, InputOpen(i, h) PROVE IInv'
  BY <1>1 DEF InputOpen
<1>2. ASSUME NEW h \in Handle, InputClose(i, h) PROVE IInv'
  BY <1>2 DEF InputClose
<1>3. CASE Open(i)
  BY <1>3 DEF Open, CanSubmit
<1>4. CASE Close(i)
  BY <1>4 DEF Close, KillBegin, Unlinked
<1>5. CASE CloseDone(i)
  BY <1>5 DEF CloseDone, KillEnd
<1>6. CASE Report(i)
  BY <1>6 DEF Report
<1>7. CASE Irq(i)
  BY <1>7 DEF Irq
<1> QED
  BY <1>1, <1>2, <1>3, <1>4, <1>5, <1>6, <1>7 DEF Callback

\* Calling or executing usb_drawpad_disconnect preserves it.
LEMMA DisconnectStep ==
    ASSUME IInv, NEW i \in Intf, CallDisconnect(i) \/ Disconnect(i)
    PROVE  IInv'
<1> USE DEF IInv, TypeOK, ThreadInv, TransferInv, RejectInv, Step, AllHeldPC, Res, PC,
            ProbePC, DisconnectPC, env, mem, inp, xfer
<1>1. CASE CallDisconnect(i)
  BY <1>1 DEF CallDisconnect, Unlinked
<1>2. CASE DisconnectTake(i)
  BY <1>2 DEF DisconnectTake
<1>3. CASE DisconnectKill(i)
  BY <1>3 DEF DisconnectKill, KillBegin, Unlinked
<1>4. CASE DisconnectKillDone(i)
  BY <1>4 DEF DisconnectKillDone, KillEnd
<1>5. CASE DisconnectUnregister(i)
  BY <1>5 DEF DisconnectUnregister
<1>6. CASE DisconnectDetached(i)
  BY <1>6 DEF DisconnectDetached
<1>7. CASE DisconnectFreeUrb(i)
  BY <1>7 DEF DisconnectFreeUrb, Free
<1>8. CASE DisconnectFreeData(i)
  BY <1>8 DEF DisconnectFreeData, Free
<1>9. CASE DisconnectKfree(i)
  BY <1>9 DEF DisconnectKfree, Free
<1> QED
  BY <1>1, <1>2, <1>3, <1>4, <1>5, <1>6, <1>7, <1>8, <1>9 DEF Disconnect

LEMMA NextIInv == IInv /\ [Next]_vars => IInv'
<1> SUFFICES ASSUME IInv, [Next]_vars PROVE IInv'
  OBVIOUS
<1>1. CASE UNCHANGED vars
  BY <1>1 DEF vars, env, mem, inp, xfer, IInv, TypeOK, ThreadInv, TransferInv, RejectInv
<1>2. ASSUME NEW d \in {"boot", "tablet"}, Plug(d) PROVE IInv'
  BY <1>2, EnvStep DEF Plug, IInv, TypeOK
<1>3. CASE Unplug \/ Insmod \/ Rmmod \/ RmmodDone
  BY <1>3, EnvStep DEF Unplug, Insmod, Rmmod, RmmodDone, IInv, TypeOK
<1>4. ASSUME NEW i \in Intf, CallProbe(i) \/ Probe(i) PROVE IInv'
  BY <1>4, ProbeStep
<1>5. ASSUME NEW i \in Intf, CallDisconnect(i) \/ Disconnect(i) PROVE IInv'
  BY <1>5, DisconnectStep
<1>6. ASSUME NEW i \in Intf,
             \/ Callback(i) \/ Report(i) \/ Irq(i)
             \/ \E h \in Handle : InputOpen(i, h) \/ InputClose(i, h)
      PROVE  IInv'
  BY <1>6, SessionStep
<1> QED
  BY <1>1, <1>2, <1>3, <1>4, <1>5, <1>6 DEF Next

\* The invariant holds in every reachable state of the driver.
THEOREM Inductive == Spec => []IInv
  BY InitIInv, NextIInv, PTL DEF Spec

\* Every variable keeps its type.
THEOREM TypeCorrect == Spec => []TypeOK
<1>1. IInv => TypeOK
  BY DEF IInv
<1> QED BY <1>1, Inductive, PTL

\* No transfer, open or close outlives the memory it works on, however probe,
\* disconnect, the users and the completion handler interleave.
THEOREM TransfersAreSafe == Spec => []InFlightLive
<1>1. IInv => InFlightLive
  BY DEF IInv, TypeOK, ThreadInv, TransferInv, InFlightLive, AllHeldPC, Buffers, Res, PC,
         ProbePC, DisconnectPC
<1> QED BY <1>1, Inductive, PTL

\* Nothing is used or freed twice by probe's unwinding or by disconnect.
THEOREM FreesAreSafe == Spec => []NoUseAfterFree
<1>1. IInv => NoUseAfterFree
  BY DEF IInv, ThreadInv, NoUseAfterFree, AllHeldPC, Res
<1> QED BY <1>1, Inductive, PTL

\* An unbound interface holds nothing: no path of probe or disconnect leaks.
THEOREM NothingLeaks == Spec => []NoLeak
<1>1. IInv => NoLeak
  BY DEF IInv, TypeOK, ThreadInv, TransferInv, NoLeak
<1> QED BY <1>1, Inductive, PTL

\* The tablet is polled only during a session of an open input device.
THEOREM PollsInSession == Spec => []PollOnlyWhileOpen
<1>1. IInv => PollOnlyWhileOpen
  BY DEF IInv, TypeOK, TransferInv, PollOnlyWhileOpen
<1> QED BY <1>1, Inductive, PTL

\* The first open of a session never finds the last session's transfer.
THEOREM OpensIdle == Spec => []OpenFindsIdle
<1>1. IInv => OpenFindsIdle
  BY DEF IInv, TypeOK, TransferInv, OpenFindsIdle
<1> QED BY <1>1, Inductive, PTL

\* After disconnect's usb_kill_urb no transfer is in flight again.
THEOREM KillIsFinal == Spec => []QuietAfterKill
<1>1. IInv => QuietAfterKill
  BY DEF IInv, TypeOK, ThreadInv, TransferInv, QuietAfterKill
<1> QED BY <1>1, Inductive, PTL

-----------------------------------------------------------------------------
(* Refinement.                                                             *)

Held == {i \in Intf : Buffers \subseteq live[i]}
Published == {i \in Intf : reg[i] = "yes"}
Flowing == {i \in Intf : urb[i] # "idle"}

LEMMA PortInit == Init => Port!Init
  BY DEF Init, Port!Init, Buffers

\* A step that changes one of the three views for one interface.
LEMMA PortStutter ==
    ASSUME UNCHANGED <<Held, Published, Flowing>>
    PROVE  UNCHANGED Port!portVars
  BY DEF Held, Published, Flowing, Port!portVars

\* Probe: the buffers are acquired with the URB, published by registering,
\* and released by the first statement of the unwinding.
LEMMA ProbeRefines ==
    ASSUME IInv, NEW i \in Intf, CallProbe(i) \/ Probe(i)
    PROVE  [Port!Next]_(Port!portVars)
<1> USE DEF IInv, TypeOK, ThreadInv, TransferInv, Step, AllHeldPC, Res, Buffers,
            Held, Published, Flowing
<1>1. CASE CallProbe(i) \/ ProbeCheck(i) \/ ProbeIntfdata(i)
  BY <1>1, PortStutter DEF CallProbe, ProbeCheck, ProbeIntfdata, env, mem, inp, xfer
<1>2. CASE ProbeAlloc(i)
  BY <1>2, PortStutter DEF ProbeAlloc, env, inp, xfer
<1>3. CASE ProbeCoherent(i)
  BY <1>3, PortStutter DEF ProbeCoherent, Allocate, env, inp, xfer
<1>4. CASE ProbeUrb(i)
  BY <1>4, PortStutter DEF ProbeUrb, Allocate, env, inp, xfer, Port!Next, Port!Acquire
<1>5. CASE ProbeRegister(i)
  BY <1>5, PortStutter DEF ProbeRegister, env, mem, xfer, Port!Next, Port!Publish
<1>6. CASE ProbeFail3(i)
  BY <1>6, PortStutter DEF ProbeFail3, Free, env, inp, xfer, Port!Next, Port!Release
<1>7. CASE ProbeFail2(i) \/ ProbeFail1(i)
  BY <1>7, PortStutter DEF ProbeFail2, ProbeFail1, Free, env, inp, xfer
<1> QED
  BY <1>1, <1>2, <1>3, <1>4, <1>5, <1>6, <1>7 DEF Probe

\* A session starts the transfer through a published device, and the
\* completion handler is the only step that stops it.
LEMMA SessionRefines ==
    ASSUME IInv, NEW i \in Intf,
           \/ Callback(i) \/ Report(i) \/ Irq(i)
           \/ \E h \in Handle : InputOpen(i, h) \/ InputClose(i, h)
    PROVE  [Port!Next]_(Port!portVars)
<1> USE DEF IInv, TypeOK, ThreadInv, TransferInv, Held, Published, Flowing
<1>1. CASE \E h \in Handle : InputOpen(i, h) \/ InputClose(i, h)
  BY <1>1, PortStutter DEF InputOpen, InputClose, env, mem, xfer
<1>2. CASE Open(i)
  <2>1. CASE urb'[i] = "active" /\ urb[i] = "idle"
    BY <1>2, <2>1 DEF Open, CanSubmit, DisconnectPC, AllHeldPC, env, mem, Port!Next, Port!Start
  <2>2. CASE UNCHANGED urb
    BY <1>2, <2>2, PortStutter DEF Open, env, mem
  <2> QED BY <1>2, <2>1, <2>2 DEF Open, CanSubmit
<1>3. CASE Close(i)
  BY <1>3, PortStutter DEF Close, KillBegin, Unlinked, env, mem
<1>4. CASE CloseDone(i)
  BY <1>4, PortStutter DEF CloseDone, KillEnd, env, mem
<1>5. CASE Report(i)
  BY <1>5, PortStutter DEF Report, env, mem, inp
<1>6. CASE Irq(i)
  BY <1>6 DEF Irq, env, mem, inp, Port!Next, Port!Stop
<1> QED
  BY <1>1, <1>2, <1>3, <1>4, <1>5, <1>6 DEF Callback

\* Disconnect withdraws the device, and its first free finds all quiet.
LEMMA DisconnectRefines ==
    ASSUME IInv, NEW i \in Intf, CallDisconnect(i) \/ Disconnect(i)
    PROVE  [Port!Next]_(Port!portVars)
<1> USE DEF IInv, TypeOK, ThreadInv, TransferInv, Step, AllHeldPC, DisconnectPC, Buffers,
            Held, Published, Flowing
<1>1. CASE CallDisconnect(i)
  BY <1>1, PortStutter DEF CallDisconnect, Unlinked, env, mem, inp
<1>2. CASE DisconnectTake(i)
  BY <1>2, PortStutter DEF DisconnectTake, env, inp, xfer
<1>3. CASE DisconnectKill(i) \/ DisconnectKillDone(i)
  BY <1>3, PortStutter DEF DisconnectKill, DisconnectKillDone, KillBegin, KillEnd,
                           Unlinked, env, mem, inp
<1>4. CASE DisconnectUnregister(i)
  BY <1>4 DEF DisconnectUnregister, env, mem, xfer, Port!Next, Port!Withdraw
<1>5. CASE DisconnectDetached(i)
  BY <1>5, PortStutter DEF DisconnectDetached, env, xfer
<1>6. CASE DisconnectFreeUrb(i)
  BY <1>6 DEF DisconnectFreeUrb, Free, env, inp, xfer, Port!Next, Port!Release
<1>7. CASE DisconnectFreeData(i) \/ DisconnectKfree(i)
  BY <1>7, PortStutter DEF DisconnectFreeData, DisconnectKfree, Free, env, inp, xfer
<1> QED
  BY <1>1, <1>2, <1>3, <1>4, <1>5, <1>6, <1>7 DEF Disconnect

LEMMA NextRefines == IInv /\ [Next]_vars => [Port!Next]_(Port!portVars)
<1> SUFFICES ASSUME IInv, [Next]_vars PROVE [Port!Next]_(Port!portVars)
  OBVIOUS
<1>1. CASE UNCHANGED vars
  BY <1>1, PortStutter DEF vars, mem, inp, xfer, Held, Published, Flowing
<1>2. CASE \/ \E d \in {"boot", "tablet"} : Plug(d)
           \/ Unplug \/ Insmod \/ Rmmod \/ RmmodDone
  BY <1>2, PortStutter DEF Plug, Unplug, Insmod, Rmmod, RmmodDone, mem, inp, xfer,
                           Held, Published, Flowing
<1>3. ASSUME NEW i \in Intf, CallProbe(i) \/ Probe(i) PROVE [Port!Next]_(Port!portVars)
  BY <1>3, ProbeRefines
<1>4. ASSUME NEW i \in Intf, CallDisconnect(i) \/ Disconnect(i)
      PROVE  [Port!Next]_(Port!portVars)
  BY <1>4, DisconnectRefines
<1>5. ASSUME NEW i \in Intf,
             \/ Callback(i) \/ Report(i) \/ Irq(i)
             \/ \E h \in Handle : InputOpen(i, h) \/ InputClose(i, h)
      PROVE  [Port!Next]_(Port!portVars)
  BY <1>5, SessionRefines
<1> QED
  BY <1>1, <1>2, <1>3, <1>4, <1>5 DEF Next

\* The driver implements TabletPort: for any tablet and any users, transfers
\* flow only through a published device that holds its buffers.
THEOREM DriverImplementsPort == Spec => ImplementsPort
  BY PortInit, NextRefines, Inductive, PTL DEF Spec, ImplementsPort, Port!Spec
=============================================================================
