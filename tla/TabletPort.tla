----------------------------- MODULE TabletPort -----------------------------
(***************************************************************************)
(* What the USB drawpad driver (DP_Driver_Jan/dp_driver.c) promises the    *)
(* rest of the kernel for each interface it drives: the transfer buffers   *)
(* are held before the input device is published, transfers flow only      *)
(* through a published device, and the buffers are given back only when    *)
(* the device is withdrawn and nothing flows any more.  DpDriver           *)
(* implements this specification.                                          *)
(***************************************************************************)
CONSTANT Intf           \* the USB interfaces of the tablet

VARIABLES
    held,               \* interfaces whose transfer buffers are allocated
    published,          \* interfaces whose input device accepts users
    flowing             \* interfaces with a transfer in flight

portVars == <<held, published, flowing>>

PortTypeOK == held \subseteq Intf /\ published \subseteq Intf /\ flowing \subseteq Intf

Init == held = {} /\ published = {} /\ flowing = {}

Acquire(i) ==
    /\ i \notin held
    /\ held' = held \cup {i}
    /\ UNCHANGED <<published, flowing>>

Publish(i) ==
    /\ i \in held \ published
    /\ published' = published \cup {i}
    /\ UNCHANGED <<held, flowing>>

\* Transfers start only through a published device.
Start(i) ==
    /\ i \in published \ flowing
    /\ flowing' = flowing \cup {i}
    /\ UNCHANGED <<held, published>>

Stop(i) ==
    /\ i \in flowing
    /\ flowing' = flowing \ {i}
    /\ UNCHANGED <<held, published>>

\* The device may be withdrawn under a running transfer (unplug).
Withdraw(i) ==
    /\ i \in published
    /\ published' = published \ {i}
    /\ UNCHANGED <<held, flowing>>

Release(i) ==
    /\ i \in held \ (published \cup flowing)
    /\ held' = held \ {i}
    /\ UNCHANGED <<published, flowing>>

Next == \E i \in Intf : \/ Acquire(i) \/ Publish(i) \/ Start(i)
                        \/ Stop(i) \/ Withdraw(i) \/ Release(i)

Spec == Init /\ [][Next]_portVars
=============================================================================
