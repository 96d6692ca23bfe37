----------------------------- MODULE HidRebind ------------------------------
(***************************************************************************)
(* The script hid-rebind, which udev runs for each HID device that is      *)
(* added (udev.rules): it loads the installed driver and moves the device  *)
(* to it through sysfs.  The interfaces of one tablet are HID devices that *)
(* appear together, so several runs overlap.  The kernel announces a device *)
(* before it offers it to the drivers, so a run may be ahead of the        *)
(* kernel's own binding.  The name of a HID device is never used again; a  *)
(* device plugged in twice is two of them.                                 *)
(***************************************************************************)
EXTENDS Integers

CONSTANT Dev            \* the HID devices

VARIABLES
    kernel,             \* "lists": the generic driver leaves the devices on
                        \* a list alone; "rescans": it gives way to a driver
                        \* that is loaded; "raises": and bind tells why not
    accepts,            \* accepts[d]: the new driver's probe takes d
    present,            \* present[d]: "before", "here", "left"
    loaded,             \* the drivers there are: "old" the generic, "new"
    bound,              \* bound[d]: the driver of d, or "none"
    waiting,            \* the devices the kernel has yet to offer to drivers
    pc,                 \* pc[d]: the next command of the run for d; it ends
                        \* with "done" or, by exit or set -e, with "quit"
    cur,                \* cur[d]: what cur_driver was read to be
    took,               \* took[d]: the run has unbound d
    upset               \* upset[d]: what befell d during its run: "taken" from
                        \* its driver by others, "new" removed, bound to the
                        \* old driver "late", with only bind left to run

fixed == <<kernel, accepts>>
script == <<cur, took, upset>>
world == <<fixed, present, loaded, bound, waiting>>
vars == <<world, pc, script>>

Init ==
    /\ kernel \in {"lists", "rescans", "raises"}
    /\ accepts \in [Dev -> BOOLEAN]
    /\ present = [d \in Dev |-> "before"]
    /\ loaded \in {{"old"}, {"old", "new"}}
    /\ bound = [d \in Dev |-> "none"]
    /\ waiting = {}
    /\ pc = [d \in Dev |-> "idle"]
    /\ cur = [d \in Dev |-> "none"]
    /\ took = [d \in Dev |-> FALSE]
    /\ upset = [d \in Dev |-> {}]

Here(d) == present[d] = "here"
Active(d) == Here(d) /\ pc[d] \notin {"done", "quit"}
Set(f, d, x) == [f EXCEPT ![d] = x]

\* The run goes on with its next command, or ends and with it its variables.
Goto(d, from, to) == pc[d] = from /\ pc' = Set(pc, d, to)
End(d, from, to) ==
    /\ Goto(d, from, to)
    /\ cur' = Set(cur, d, "none") /\ took' = Set(took, d, FALSE) /\ upset' = Set(upset, d, {})

\* The new driver has d if d is offered to it.
NewTakes(d) == "new" \in loaded /\ accepts[d]

-----------------------------------------------------------------------------
(* The kernel and the user                                                 *)

\* A device is registered: udev is told, and the drivers come later.
Plug(d) ==
    /\ present[d] = "before"
    /\ present' = Set(present, d, "here")
    /\ waiting' = waiting \union {d}
    /\ Goto(d, "idle", "read")
    /\ UNCHANGED <<fixed, loaded, bound, script>>

\* Who may answer the offer of a device that has no driver.
Takers(d) ==
    LET new == IF NewTakes(d) THEN {"new"} ELSE {"none"}
    IN IF NewTakes(d) /\ kernel # "lists" THEN new ELSE new \union (loaded \ {"new"})

\* The kernel offers the device to the drivers, if it has none by now.
Offer(d) ==
    /\ d \in waiting
    /\ waiting' = waiting \ {d}
    /\ \/ bound[d] # "none" /\ UNCHANGED <<bound, upset>>
       \/ /\ bound[d] = "none"
          /\ \E b \in Takers(d) :
                /\ bound' = Set(bound, d, b)
                /\ upset' = IF b = "old" /\ pc[d] = "bind"
                            THEN Set(upset, d, upset[d] \union {"late"}) ELSE upset
    /\ UNCHANGED <<fixed, present, loaded, pc, cur, took>>

\* The device leaves, or usbhid is unbound from it (unbindThenBind.sh).
Unplug(d) ==
    /\ Here(d)
    /\ present' = Set(present, d, "left")
    /\ bound' = Set(bound, d, "none")
    /\ waiting' = waiting \ {d}
    /\ upset' = Set(upset, d, {})
    /\ UNCHANGED <<fixed, loaded, pc, cur, took>>

\* Somebody unbinds a device by hand.
UnbindByHand(d) ==
    /\ bound[d] # "none"
    /\ bound' = Set(bound, d, "none")
    /\ upset' = IF Active(d) THEN Set(upset, d, upset[d] \union {"taken"}) ELSE upset
    /\ UNCHANGED <<fixed, present, loaded, waiting, pc, cur, took>>

\* modprobe -r, as the drivers' README.md has it, or of the generic driver:
\* the sysfs directory goes, and newer kernels offer the devices anew.
Remove(m) ==
    /\ m \in loaded
    /\ loaded' = loaded \ {m}
    /\ bound' = [d \in Dev |-> IF bound[d] = m THEN "none" ELSE bound[d]]
    /\ upset' = [d \in Dev |-> IF Active(d)
                             THEN upset[d] \union ({m} \ {"old"})
                                           \union (IF bound[d] = m THEN {"taken"} ELSE {})
                             ELSE upset[d]]
    /\ waiting' = IF kernel = "lists" THEN waiting ELSE {d \in Dev : Here(d)}
    /\ UNCHANGED <<fixed, present, pc, cur, took>>

-----------------------------------------------------------------------------
(* hid-rebind                                                              *)

\* readlink; without a driver, the path of the missing link itself is kept.
\* readlink fails when the device is gone.
ReadDriver(d) ==
    /\ \/ /\ Here(d) /\ Goto(d, "read", "choose")
          /\ cur' = Set(cur, d, bound[d])
          /\ UNCHANGED <<took, upset>>
       \/ ~Here(d) /\ End(d, "read", "quit")
    /\ UNCHANGED world

\* No installed module fits, or the device has its driver already.
ChooseModule(d) ==
    /\ \/ End(d, "choose", "quit")
       \/ cur[d] = "new" /\ End(d, "choose", "done")
       \/ cur[d] # "new" /\ Goto(d, "choose", "load") /\ UNCHANGED script
    /\ UNCHANGED world

\* The driver of e when the new driver has been loaded: it is offered every
\* device without one, and newer kernels detach its devices from the generic
\* driver first.
Attached(e) ==
    IF Here(e) /\ (bound[e] = "none" \/ (bound[e] = "old" /\ kernel # "lists"))
    THEN (IF accepts[e] THEN "new" ELSE "none") ELSE bound[e]

\* Mutant: a module that does not load does not end the script.
MutLoadModule(d) ==
    /\ \/ /\ "new" \in loaded
          /\ Goto(d, "load", "test") /\ UNCHANGED <<loaded, bound, script>>
       \/ /\ "new" \notin loaded
          /\ Goto(d, "load", "test") /\ UNCHANGED script
          /\ loaded' = loaded \union {"new"}
          /\ bound' = [e \in Dev |-> Attached(e)]
       \/ /\ "new" \notin loaded
          /\ Goto(d, "load", "test") /\ UNCHANGED <<loaded, bound, script>>
    /\ UNCHANGED <<fixed, present, waiting>>

\* modprobe, which has nothing to do when another run has loaded the module,
\* and may fail.
LoadModule(d) ==
    /\ \/ /\ "new" \in loaded
          /\ Goto(d, "load", "test") /\ UNCHANGED <<loaded, bound, script>>
       \/ /\ "new" \notin loaded
          /\ Goto(d, "load", "test") /\ UNCHANGED script
          /\ loaded' = loaded \union {"new"}
          /\ bound' = [e \in Dev |-> Attached(e)]
       \/ "new" \notin loaded /\ End(d, "load", "quit") /\ UNCHANGED <<loaded, bound>>
    /\ UNCHANGED <<fixed, present, waiting>>

\* Whether cur_driver_path leads to a driver: the old driver's directory, or
\* the device's link, which by now may have appeared.
PathExists(d) == IF cur[d] = "old" THEN "old" \in loaded ELSE bound[d] # "none"

\* Mutant: the test is the wrong way round.
MutTestPath(d) ==
    /\ Goto(d, "test", IF PathExists(d) THEN "bind" ELSE "unbind")
    /\ UNCHANGED <<world, script>>

TestPath(d) ==
    /\ Goto(d, "test", IF PathExists(d) THEN "unbind" ELSE "bind")
    /\ UNCHANGED <<world, script>>

\* The driver whose unbind file is written to has the device.
HasIt(d) == bound[d] = "old" \/ cur[d] # "old"

\* Mutant: ENODEV is an error like others.
MutUnbind(d) ==
    /\ IF PathExists(d) /\ HasIt(d)
       THEN /\ Goto(d, "unbind", "bind")
            /\ bound' = Set(bound, d, "none")
            /\ took' = Set(took, d, TRUE)
            /\ UNCHANGED <<cur, upset>>
       ELSE End(d, "unbind", "quit") /\ UNCHANGED bound
    /\ UNCHANGED <<fixed, present, loaded, waiting>>

\* The name is written to unbind.  A driver that does not have the device
\* answers ENODEV, which is ignored; a path that is gone ends the script.
Unbind(d) ==
    /\ IF PathExists(d)
       THEN /\ Goto(d, "unbind", "bind")
            /\ bound' = IF HasIt(d) THEN Set(bound, d, "none") ELSE bound
            /\ took' = Set(took, d, HasIt(d))
            /\ UNCHANGED <<cur, upset>>
       ELSE End(d, "unbind", "quit") /\ UNCHANGED bound
    /\ UNCHANGED <<fixed, present, loaded, waiting>>

\* What the write to bind comes to: ENODEV, or an error that is raised, for
\* want of the driver's directory or, on newer kernels, because the device is
\* bound (EBUSY) or probe fails.
Takes(d) == NewTakes(d) /\ Here(d) /\ bound[d] = "none"
NoDevice(d) == "new" \in loaded /\ ~Takes(d) /\ (kernel = "raises" => bound[d] = "none")
Raises(d) ==
    \/ "new" \notin loaded
    \/ kernel = "raises" /\ Here(d) /\ (bound[d] # "none" \/ ~accepts[d])

\* The name is written to bind; ENODEV is ignored.
Bind(d) ==
    /\ \/ Takes(d) /\ End(d, "bind", "done") /\ bound' = Set(bound, d, "new")
       \/ NoDevice(d) /\ End(d, "bind", "done") /\ UNCHANGED bound
       \/ Raises(d) /\ End(d, "bind", "quit") /\ UNCHANGED bound
    /\ UNCHANGED <<fixed, present, loaded, waiting>>

Run(d) ==
    \/ ReadDriver(d) \/ ChooseModule(d) \/ LoadModule(d)
    \/ TestPath(d) \/ Unbind(d) \/ Bind(d)

Next ==
    \/ \E d \in Dev : Plug(d) \/ Offer(d) \/ Unplug(d) \/ UnbindByHand(d) \/ Run(d)
    \/ \E m \in {"old", "new"} : Remove(m)

Spec == Init /\ [][Next]_vars

\* udev starts each run and the shell goes on; udev's own time limit of three
\* minutes is left out.  The kernel comes to offer each device it registered.
FairSpec == Spec /\ \A d \in Dev : WF_vars(Run(d)) /\ WF_vars(Offer(d))

-----------------------------------------------------------------------------
TypeOK ==
    /\ kernel \in {"lists", "rescans", "raises"}
    /\ accepts \in [Dev -> BOOLEAN]
    /\ present \in [Dev -> {"before", "here", "left"}]
    /\ loaded \in SUBSET {"old", "new"}
    /\ bound \in [Dev -> {"none", "old", "new"}]
    /\ waiting \in SUBSET Dev
    /\ pc \in [Dev -> {"idle", "read", "choose", "load", "test", "unbind", "bind",
                       "done", "quit"}]
    /\ cur \in [Dev -> {"none", "old", "new"}]
    /\ took \in [Dev -> BOOLEAN]
    /\ upset \in [Dev -> SUBSET {"taken", "new", "late"}]

\* What the run for d knows, by its next command: what it has seen is still so,
\* or what made it otherwise is in upset.
RunInv(d) ==
    /\ pc[d] = "idle" <=> present[d] = "before"
    /\ d \in waiting => Here(d)
    /\ bound[d] # "none" => Here(d) /\ bound[d] \in loaded
    /\ bound[d] = "new" => accepts[d]
    /\ pc[d] \in {"test", "unbind", "bind"} /\ Here(d) => "new" \in loaded \union upset[d]
    /\ took[d] => pc[d] = "bind"
    /\ cur[d] = "new" => pc[d] = "choose"
    /\ cur[d] = "none" /\ pc[d] = "unbind" /\ Here(d) => bound[d] # "none" \/ upset[d] # {}
    /\ pc[d] = "bind" /\ bound[d] = "old" => "late" \in upset[d]

RebindInv == TypeOK /\ \A d \in Dev : RunInv(d)

\* A run that has written to bind ends with its device at the new driver, if
\* that takes it, whatever other runs, the kernel's own binding and a user have
\* done since cur_driver was read (49-54); unless the old driver came by the
\* device when the run had only bind left, after its test or its unbinding
\* (86-91).
DoneIsRebound ==
    [][\A d \in Dev : pc[d] = "bind" /\ pc'[d] = "done" /\ Here(d) /\ accepts[d] =>
           bound'[d] = "new" \/ "late" \in upset[d]]_vars

\* A run that has taken its device from a driver and then fails in bind (38-41,
\* 91) leaves it with the new driver, which another run's modprobe or the
\* kernel has brought, or the new driver does not take it or was removed, or
\* the old one has it back.
QuitLeavesDriver ==
    [][\A d \in Dev : pc[d] # "quit" /\ pc'[d] = "quit" /\ took[d] /\ Here(d) =>
           bound'[d] = "new" \/ ~accepts[d] \/ upset[d] \intersect {"new", "late"} # {}]_vars

\* The unbinding ends a run only when the old driver it had read was removed,
\* or when it had read none and the driver that the device got since was taken
\* from it by someone else (49-54, 86-87).
UnbindSucceeds ==
    [][\A d \in Dev : pc[d] = "unbind" /\ pc'[d] = "quit" /\ Here(d) =>
           IF cur[d] = "old" THEN "old" \notin loaded ELSE upset[d] # {}]_vars

\* A device that is announced is sooner or later with the new driver, or its
\* run found no module or failed, or the driver would not have it, or the old
\* driver came by it late.
Rebinds ==
    \A d \in Dev : pc[d] = "read" ~>
        (bound[d] = "new" \/ ~Here(d) \/ ~accepts[d] \/ pc[d] = "quit" \/ "late" \in upset[d])

\* What the script says of its last command, "Bind to the new driver" (90): a
\* run that comes to its end there has its device with the new driver.
RunRebinds ==
    [][\A d \in Dev : pc[d] = "bind" /\ pc'[d] = "done" /\ Here(d) /\ accepts[d] =>
           bound'[d] = "new"]_vars
=============================================================================
