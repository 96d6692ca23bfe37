------------------------------ MODULE DpDriver ------------------------------
(***************************************************************************)
(* The USB drawpad driver DP_Driver_Jan/dp_driver.c: probe, disconnect,    *)
(* open, close and the completion handler, for every interface of the      *)
(* tablet, together with the part of the kernel that calls them:           *)
(*   - the USB core runs probe and disconnect of one device one at a time  *)
(*     (device lock), and disables the endpoints before disconnect;        *)
(*   - the input core calls open for the first user and close for the last *)
(*     one, holding the mutex of the input device;                         *)
(*   - the host controller completes an URB on its own, outside any lock.  *)
(* One interface is one instance of struct usb_drawpad.                    *)
(***************************************************************************)
EXTENDS Naturals

CONSTANTS
    Intf,           \* the interfaces of the tablet (pen, buttons)
    Handle          \* the input handles (evdev, mousedev) that may open one

ASSUME IntfAssumption == Intf # {}
ASSUME HandleAssumption == Handle # {}

VARIABLES
    device,         \* what is plugged in: "gone", "boot" (0416:3f00, two
                    \* endpoints) or "tablet" (256c:006d, one endpoint)
    module,         \* dp_driver.ko: "out", "in" or "leaving" (rmmod)
    pc,             \* pc[i]: where probe or disconnect of i stands
    live,           \* live[i]: what probe has allocated and nobody freed
    intfdata,       \* intfdata[i]: the interface points at its drawpad
    reg,            \* reg[i]: the input device, "no", "yes" or "going" away
    users,          \* users[i]: the handles counted in input_dev->users
    cb,             \* cb[i]: the callback running under input_dev->mutex
    urb,            \* urb[i]: drawpad->irq, "idle", "active" (queued) or
                    \* "giveback" (unlinked, its completion handler pending)
    reject          \* reject[i]: the usb_kill_urb calls in progress

env  == <<device, module>>
mem  == <<live, intfdata>>
inp  == <<reg, users, cb>>
xfer == <<urb, reject>>
vars == <<env, pc, mem, inp, xfer>>

Res == {"drawpad", "input", "data", "urb"}

\* What a transfer in flight and the callbacks work on.
Buffers == {"drawpad", "data", "urb"}

ProbePC == {"p_check", "p_alloc", "p_coherent", "p_urb", "p_register",
            "p_intfdata", "fail3", "fail2", "fail1"}
DisconnectPC == {"d_take", "d_kill", "d_killwait", "d_unregister",
                 "d_detach", "d_freeurb", "d_freedata", "d_kfree"}
PC == {"unbound", "bound"} \cup ProbePC \cup DisconnectPC

Init ==
    /\ device = "gone" /\ module = "out"
    /\ pc = [i \in Intf |-> "unbound"]
    /\ live = [i \in Intf |-> {}]
    /\ intfdata = [i \in Intf |-> FALSE]
    /\ reg = [i \in Intf |-> "no"]
    /\ users = [i \in Intf |-> {}]
    /\ cb = [i \in Intf |-> "none"]
    /\ urb = [i \in Intf |-> "idle"]
    /\ reject = [i \in Intf |-> 0]

-----------------------------------------------------------------------------
(* The environment: the cable, insmod and rmmod, the USB core.             *)

\* The tablet shows up first as 0416:3f00 and later as 256c:006d.
Plug(d) ==
    /\ device = "gone" /\ \A i \in Intf : pc[i] = "unbound"
    /\ device' = d
    /\ UNCHANGED <<module, pc, mem, inp, xfer>>

Unplug ==
    /\ device # "gone"
    /\ device' = "gone"
    /\ UNCHANGED <<module, pc, mem, inp, xfer>>

Insmod ==
    /\ module = "out"
    /\ module' = "in"
    /\ UNCHANGED <<device, pc, mem, inp, xfer>>

Rmmod ==
    /\ module = "in"
    /\ module' = "leaving"
    /\ UNCHANGED <<device, pc, mem, inp, xfer>>

\* usb_deregister has unbound every interface.
RmmodDone ==
    /\ module = "leaving" /\ \A i \in Intf : pc[i] = "unbound"
    /\ module' = "out"
    /\ UNCHANGED <<device, pc, mem, inp, xfer>>

\* The device lock: one probe or disconnect at a time.
LockFree == \A i \in Intf : pc[i] \in {"unbound", "bound"}

Step(i, from, to) == pc[i] = from /\ pc' = [pc EXCEPT ![i] = to]

\* The USB core matches an interface to the driver and calls probe.
CallProbe(i) ==
    /\ LockFree /\ device # "gone" /\ module = "in"
    /\ Step(i, "unbound", "p_check")
    /\ UNCHANGED <<env, mem, inp, xfer>>

\* An URB queued on the endpoint is taken off the queue; its completion
\* handler runs later, and nobody but usb_kill_urb waits for it.
Unlinked(u) == IF u = "active" THEN "giveback" ELSE u

\* The USB core disables the endpoints and calls disconnect: unplug, rmmod,
\* or an unbind written to sysfs.
CallDisconnect(i) ==
    /\ LockFree
    /\ Step(i, "bound", "d_take")
    /\ urb' = [urb EXCEPT ![i] = Unlinked(@)]
    /\ UNCHANGED <<env, mem, inp, reject>>

\* The unbinding nobody can put off: the device or the driver is leaving.
MustDisconnect(i) == CallDisconnect(i) /\ (device = "gone" \/ module = "leaving")

-----------------------------------------------------------------------------
(* usb_drawpad_probe                                                       *)

\* Only an interface with a single interrupt IN endpoint is taken.
ProbeCheck(i) ==
    /\ Step(i, "p_check", IF device = "boot" THEN "unbound" ELSE "p_alloc")
    /\ UNCHANGED <<env, mem, inp, xfer>>

\* Both allocations are made before either result is looked at.
ProbeAlloc(i) ==
    /\ \E got \in SUBSET {"drawpad", "input"} :
          /\ live' = [live EXCEPT ![i] = @ \cup got]
          /\ Step(i, "p_alloc", IF got = {"drawpad", "input"}
                                THEN "p_coherent" ELSE "fail1")
    /\ UNCHANGED <<env, intfdata, inp, xfer>>

\* One more allocation: on failure the unwinding starts at label fail.
Allocate(i, r, from, to, fail) ==
    /\ \/ Step(i, from, to) /\ live' = [live EXCEPT ![i] = @ \cup {r}]
       \/ Step(i, from, fail) /\ UNCHANGED live
    /\ UNCHANGED <<env, intfdata, inp, xfer>>

\* Mutant: a failed DMA buffer unwinds from the label of the URB.
MutProbeCoherent(i) == Allocate(i, "data", "p_coherent", "p_urb", "fail2")

ProbeCoherent(i) == Allocate(i, "data", "p_coherent", "p_urb", "fail1")

\* Mutant: a failed URB unwinds without the DMA buffer.
MutProbeUrb(i) == Allocate(i, "urb", "p_urb", "p_register", "fail1")

ProbeUrb(i) == Allocate(i, "urb", "p_urb", "p_register", "fail2")

\* From here on open may be called, while probe has not returned yet.
ProbeRegister(i) ==
    /\ \/ Step(i, "p_register", "p_intfdata") /\ reg' = [reg EXCEPT ![i] = "yes"]
       \/ Step(i, "p_register", "fail3") /\ UNCHANGED reg
    /\ UNCHANGED <<env, mem, users, cb, xfer>>

\* Mutant: usb_set_intfdata is forgotten.
MutProbeIntfdata(i) ==
    /\ Step(i, "p_intfdata", "bound")
    /\ UNCHANGED <<env, mem, inp, xfer>>

ProbeIntfdata(i) ==
    /\ Step(i, "p_intfdata", "bound")
    /\ intfdata' = [intfdata EXCEPT ![i] = TRUE]
    /\ UNCHANGED <<env, live, inp, xfer>>

Free(i, rs, from, to) ==
    /\ Step(i, from, to)
    /\ live' = [live EXCEPT ![i] = @ \ rs]
    /\ UNCHANGED <<env, intfdata, inp, xfer>>

ProbeFail3(i) == Free(i, {"urb"}, "fail3", "fail2")

ProbeFail2(i) == Free(i, {"data"}, "fail2", "fail1")

ProbeFail1(i) == Free(i, {"input", "drawpad"}, "fail1", "unbound")

Probe(i) == \/ ProbeCheck(i) \/ ProbeAlloc(i) \/ ProbeCoherent(i)
            \/ ProbeUrb(i) \/ ProbeRegister(i) \/ ProbeIntfdata(i)
            \/ ProbeFail3(i) \/ ProbeFail2(i) \/ ProbeFail1(i)

-----------------------------------------------------------------------------
(* usb_drawpad_open, usb_drawpad_close, usb_drawpad_irq and the input core *)

\* input_open_device: only the first user reaches the driver.
InputOpen(i, h) ==
    /\ reg[i] = "yes" /\ cb[i] = "none" /\ h \notin users[i]
    /\ users' = [users EXCEPT ![i] = @ \cup {h}]
    /\ cb' = [cb EXCEPT ![i] = IF users[i] = {} THEN "open" ELSE "none"]
    /\ UNCHANGED <<env, pc, mem, reg, xfer>>

\* usb_submit_urb cannot succeed on a dead device, a disabled endpoint, a
\* killed URB or an URB that is already queued.
CanSubmit(i) == /\ device # "gone" /\ pc[i] \notin DisconnectPC
                /\ reject[i] = 0 /\ urb[i] = "idle"

Open(i) ==
    /\ cb[i] = "open"
    /\ cb' = [cb EXCEPT ![i] = "none"]
    /\ \/ /\ CanSubmit(i)
          /\ urb' = [urb EXCEPT ![i] = "active"]
          /\ UNCHANGED users
       \/ users' = [users EXCEPT ![i] = {}] /\ UNCHANGED urb  \* -EIO
    /\ UNCHANGED <<env, pc, mem, reg, reject>>

\* input_close_device: the last user, or the unregistering of the device.
InputClose(i, h) ==
    /\ cb[i] = "none" /\ h \in users[i]
    /\ users' = [users EXCEPT ![i] = @ \ {h}]
    /\ cb' = [cb EXCEPT ![i] = IF users[i] = {h} THEN "close" ELSE "none"]
    /\ UNCHANGED <<env, pc, mem, reg, xfer>>

\* The two halves of usb_kill_urb: unlink and forbid resubmission; wait for
\* the completion handler and allow submission again.
KillBegin(i) == /\ urb' = [urb EXCEPT ![i] = Unlinked(@)]
                /\ reject' = [reject EXCEPT ![i] = @ + 1]

KillEnd(i) == /\ urb[i] = "idle"
              /\ reject' = [reject EXCEPT ![i] = @ - 1]
              /\ UNCHANGED urb

\* Mutant: close leaves the transfer to the next session.
MutCloseNoKill(i) ==
    /\ cb[i] = "close"
    /\ cb' = [cb EXCEPT ![i] = "none"]
    /\ UNCHANGED <<env, pc, mem, reg, users, xfer>>

\* Mutant: usb_unlink_urb for usb_kill_urb, which does not wait.
MutCloseUnlink(i) ==
    /\ cb[i] = "close"
    /\ cb' = [cb EXCEPT ![i] = "none"]
    /\ urb' = [urb EXCEPT ![i] = Unlinked(@)]
    /\ UNCHANGED <<env, pc, mem, reg, users, reject>>

\* Mutant: close waits for the tablet's next report instead of unlinking.
MutCloseWaits(i) ==
    /\ cb[i] = "close"
    /\ cb' = [cb EXCEPT ![i] = "closewait"]
    /\ reject' = [reject EXCEPT ![i] = @ + 1]
    /\ UNCHANGED <<env, pc, mem, reg, users, urb>>

Close(i) ==
    /\ cb[i] = "close"
    /\ cb' = [cb EXCEPT ![i] = "closewait"]
    /\ KillBegin(i)
    /\ UNCHANGED <<env, pc, mem, reg, users>>

CloseDone(i) ==
    /\ cb[i] = "closewait"
    /\ cb' = [cb EXCEPT ![i] = "none"]
    /\ KillEnd(i)
    /\ UNCHANGED <<env, pc, mem, reg, users>>

\* A report of the pen, or an error: the controller retires the transfer.
Report(i) ==
    /\ urb[i] = "active"
    /\ urb' = [urb EXCEPT ![i] = "giveback"]
    /\ UNCHANGED <<env, pc, mem, inp, reject>>

\* usb_drawpad_irq prints, and does not submit the URB again.
Irq(i) ==
    /\ urb[i] = "giveback"
    /\ urb' = [urb EXCEPT ![i] = "idle"]
    /\ UNCHANGED <<env, pc, mem, inp, reject>>

-----------------------------------------------------------------------------
(* usb_drawpad_disconnect                                                  *)

DisconnectTake(i) ==
    /\ Step(i, "d_take", IF intfdata[i] THEN "d_kill" ELSE "unbound")
    /\ intfdata' = [intfdata EXCEPT ![i] = FALSE]
    /\ UNCHANGED <<env, live, inp, xfer>>

\* Mutant: disconnect unlinks the transfer and does not wait for its end.
MutDisconnectUnlink(i) ==
    /\ Step(i, "d_kill", "d_unregister")
    /\ urb' = [urb EXCEPT ![i] = Unlinked(@)]
    /\ UNCHANGED <<env, mem, inp, reject>>

DisconnectKill(i) ==
    /\ Step(i, "d_kill", "d_killwait")
    /\ KillBegin(i)
    /\ UNCHANGED <<env, mem, inp>>

\* Mutant: input_unregister_device is forgotten.
MutNoUnregister(i) ==
    /\ Step(i, "d_killwait", "d_freeurb")
    /\ KillEnd(i)
    /\ UNCHANGED <<env, mem, inp>>

DisconnectKillDone(i) ==
    /\ Step(i, "d_killwait", "d_unregister")
    /\ KillEnd(i)
    /\ UNCHANGED <<env, mem, inp>>

\* input_unregister_device marks the device as going away under its mutex.
DisconnectUnregister(i) ==
    /\ cb[i] = "none"
    /\ Step(i, "d_unregister", "d_detach")
    /\ reg' = [reg EXCEPT ![i] = "going"]
    /\ UNCHANGED <<env, mem, users, cb, xfer>>

\* It returns when every handle is closed, and the input device with it.
DisconnectDetached(i) ==
    /\ users[i] = {} /\ cb[i] = "none"
    /\ Step(i, "d_detach", "d_freeurb")
    /\ reg' = [reg EXCEPT ![i] = "no"]
    /\ live' = [live EXCEPT ![i] = @ \ {"input"}]
    /\ UNCHANGED <<env, intfdata, users, cb, xfer>>

DisconnectFreeUrb(i) == Free(i, {"urb"}, "d_freeurb", "d_freedata")

DisconnectFreeData(i) == Free(i, {"data"}, "d_freedata", "d_kfree")

DisconnectKfree(i) == Free(i, {"drawpad"}, "d_kfree", "unbound")

Disconnect(i) == \/ DisconnectTake(i) \/ DisconnectKill(i)
                 \/ DisconnectKillDone(i) \/ DisconnectUnregister(i)
                 \/ DisconnectDetached(i) \/ DisconnectFreeUrb(i)
                 \/ DisconnectFreeData(i) \/ DisconnectKfree(i)

-----------------------------------------------------------------------------
Callback(i) == Open(i) \/ Close(i) \/ CloseDone(i)

Next ==
    \/ \E d \in {"boot", "tablet"} : Plug(d)
    \/ Unplug \/ Insmod \/ Rmmod \/ RmmodDone
    \/ \E i \in Intf :
          \/ CallProbe(i) \/ CallDisconnect(i)
          \/ Probe(i) \/ Disconnect(i) \/ Callback(i)
          \/ Report(i) \/ Irq(i)
          \/ \E h \in Handle : InputOpen(i, h) \/ InputClose(i, h)

Spec == Init /\ [][Next]_vars

(***************************************************************************)
(* A kernel thread in the driver keeps running and completion handlers     *)
(* run; the kernel mutex hands itself over to its waiter, hence SF for the *)
(* step that takes it; a device that is going away closes its handles; an  *)
(* unplugged device or a leaving module is detached.  Users, plugging and  *)
(* the controller's reports owe nothing.                                   *)
(***************************************************************************)
Fairness ==
    /\ WF_vars(RmmodDone)
    /\ \A i \in Intf :
          /\ WF_vars(Probe(i))
          /\ WF_vars(Disconnect(i))
          /\ SF_vars(DisconnectUnregister(i))
          /\ SF_vars(MustDisconnect(i))
          /\ WF_vars(Callback(i))
          /\ WF_vars(Irq(i))
          /\ WF_vars(reg[i] = "going" /\ \E h \in Handle : InputClose(i, h))

FairSpec == Spec /\ Fairness

-----------------------------------------------------------------------------
TypeOK ==
    /\ device \in {"gone", "boot", "tablet"}
    /\ module \in {"out", "in", "leaving"}
    /\ pc \in [Intf -> PC]
    /\ live \in [Intf -> SUBSET Res]
    /\ intfdata \in [Intf -> BOOLEAN]
    /\ reg \in [Intf -> {"no", "yes", "going"}]
    /\ users \in [Intf -> SUBSET Handle]
    /\ cb \in [Intf -> {"none", "open", "close", "closewait"}]
    /\ urb \in [Intf -> {"idle", "active", "giveback"}]
    /\ reject \in [Intf -> 0..2]

\* While a transfer is in flight or open or close runs, the memory they work
\* on is allocated and the input device is registered: whatever the moment at
\* which disconnect frees it (261-263), the URB is quiet by then.
InFlightLive ==
    \A i \in Intf :
        (urb[i] # "idle" \/ cb[i] # "none" \/ users[i] # {})
            => Buffers \subseteq live[i] /\ reg[i] # "no"

\* Where the next statement works on everything probe has set up.
AllHeldPC == {"p_register", "p_intfdata", "fail3", "bound", "d_take", "d_kill",
              "d_killwait", "d_unregister", "d_detach"}

\* What the next statement of probe or disconnect dereferences or frees is
\* allocated: the labels unwind in the order of the allocations (192-198) and
\* disconnect frees each thing once, after its last use (259-263).
NoUseAfterFree ==
    \A i \in Intf :
        /\ pc[i] = "p_coherent" => {"drawpad", "input"} \subseteq live[i]
        /\ pc[i] = "p_urb" => {"drawpad", "input", "data"} \subseteq live[i]
        /\ pc[i] \in AllHeldPC => Res \subseteq live[i]
        /\ pc[i] = "d_freeurb" => "urb" \in live[i]
        /\ pc[i] \in {"fail2", "d_freedata"} => "data" \in live[i]
        /\ pc[i] = "d_kfree" => "drawpad" \in live[i]

\* However probe failed and however disconnect was reached, an interface that
\* is not bound holds no memory, no input device, no stale intfdata and no
\* user: in particular rmmod leaves nothing behind that calls the module.
NoLeak ==
    \A i \in Intf :
        pc[i] = "unbound" =>
            /\ live[i] = {} /\ reg[i] = "no" /\ ~intfdata[i]
            /\ users[i] = {} /\ cb[i] = "none" /\ urb[i] = "idle"

\* The transfer of an interface runs only for an open input device: the last
\* close has stopped it before it returns (50-58).
PollOnlyWhileOpen ==
    \A i \in Intf : urb[i] # "idle" => users[i] # {} \/ cb[i] # "none"

\* Open never meets the transfer of an earlier session still in flight, which
\* would make usb_submit_urb fail with -EBUSY (43-45).
OpenFindsIdle == \A i \in Intf : cb[i] = "open" => urb[i] = "idle"

\* Disconnect's usb_kill_urb (259) has the last word: an open that slips in
\* between it and input_unregister_device (260) starts no new transfer.
QuietAfterKill ==
    \A i \in Intf :
        pc[i] \in {"d_unregister", "d_detach", "d_freeurb", "d_freedata", "d_kfree"}
            => urb[i] = "idle"

\* Unplugging or rmmod at any moment ends with every interface let go, even
\* when probe, open or close are in progress.
DetachCompletes ==
    \A i \in Intf :
        (device = "gone" \/ module = "leaving") ~> (pc[i] = "unbound" /\ live[i] = {})

\* No callback hangs: neither open nor close waits for ever inside the driver.
CallbacksReturn == \A i \in Intf : (cb[i] # "none") ~> (cb[i] = "none")

-----------------------------------------------------------------------------
(* The inductive invariant behind the safety properties.                   *)

\* Memory, the input device and intfdata follow the driver's thread.
ThreadInv(i) ==
    /\ pc[i] \in {"unbound", "p_check", "p_alloc"} => live[i] = {}
    /\ pc[i] \in {"p_coherent", "fail1"} => live[i] \subseteq {"drawpad", "input"}
    /\ pc[i] = "p_coherent" => {"drawpad", "input"} \subseteq live[i]
    /\ pc[i] \in {"p_urb", "fail2"} => live[i] = {"drawpad", "input", "data"}
    /\ pc[i] \in AllHeldPC => live[i] = Res
    /\ pc[i] = "d_freeurb" => live[i] = {"drawpad", "data", "urb"}
    /\ pc[i] = "d_freedata" => live[i] = {"drawpad", "data"}
    /\ pc[i] = "d_kfree" => live[i] = {"drawpad"}
    /\ reg[i] = "yes" <=> pc[i] \in {"p_intfdata", "bound", "d_take", "d_kill",
                                     "d_killwait", "d_unregister"}
    /\ reg[i] = "going" <=> pc[i] = "d_detach"
    /\ intfdata[i] <=> pc[i] \in {"bound", "d_take"}

\* The transfer belongs to a session of a registered device.
TransferInv(i) ==
    /\ reg[i] = "no" => users[i] = {} /\ cb[i] = "none"
    /\ cb[i] \in {"close", "closewait"} => users[i] = {}
    /\ cb[i] = "open" => users[i] # {} /\ urb[i] = "idle"
    /\ cb[i] = "none" /\ users[i] = {} => urb[i] = "idle"
    /\ cb[i] = "closewait" => urb[i] # "active"
    /\ pc[i] \in DisconnectPC => urb[i] # "active"
    /\ pc[i] \in {"d_unregister", "d_detach"} => urb[i] = "idle"

\* reject counts the usb_kill_urb calls in progress.
RejectInv(i) ==
    reject[i] = (IF cb[i] = "closewait" THEN 1 ELSE 0)
              + (IF pc[i] = "d_killwait" THEN 1 ELSE 0)

\* What probe has acquired, the state of the input device and that of the
\* transfer are tied to where the driver's thread stands, at every moment.
IInv == TypeOK /\ \A i \in Intf : ThreadInv(i) /\ TransferInv(i) /\ RejectInv(i)

-----------------------------------------------------------------------------
(* The refinement: the driver implements TabletPort.                       *)

Port == INSTANCE TabletPort WITH
            held      <- {i \in Intf : Buffers \subseteq live[i]},
            published <- {i \in Intf : reg[i] = "yes"},
            flowing   <- {i \in Intf : urb[i] # "idle"}

\* Buffers are held before the device is published, transfers flow only
\* through a published device, buffers are released only when all is quiet.
ImplementsPort == Port!Spec
=============================================================================
