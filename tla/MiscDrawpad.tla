---------------------------- MODULE MiscDrawpad -----------------------------
(***************************************************************************)
(* The misc-device driver InputDriverTest/drawpad_driver.c: init, exit,    *)
(* and open and release of /dev/drawpad by any number of processes, which  *)
(* count the users and hold IRQ 8 while there are some.                    *)
(* drawpad_users is a plain int without a lock (61-62 are commented out),  *)
(* so its ++ and -- are a read and a write.  The misc core calls open with *)
(* misc_mtx held; release runs under no lock.                              *)
(* drawpad_dx, drawpad_dy and drawpad_event are only ever set to 0 and     *)
(* drawpad_wait is never given a queue, so read, write and poll change     *)
(* nothing and are left out.                                               *)
(***************************************************************************)
EXTENDS Integers, FiniteSets

CONSTANT Proc           \* the processes that may open /dev/drawpad

ASSUME ProcAssumption == Proc # {} /\ IsFiniteSet(Proc)

VARIABLES
    mod,                \* "out", "region" (init or exit hold only the I/O
                        \* ports), "in" (the device is registered)
    exiting,            \* drawpad_exit has begun
    tpc,                \* tpc[p]: where open or release of p stands
    seen,               \* seen[p]: the value of drawpad_users p has read
    drawpad_users,
    irq                 \* who holds IRQ 8: "nobody", "drawpad" or "other"

vars == <<mod, exiting, tpc, seen, drawpad_users, irq>>

OpenPC == {"o_write", "o_irq", "o_undo", "o_undowrite"}
ReleasePC == {"r_write", "r_free"}

Init ==
    /\ mod = "out" /\ exiting = FALSE
    /\ tpc = [p \in Proc |-> "closed"]
    /\ seen = [p \in Proc |-> 0]
    /\ drawpad_users = 0
    /\ irq \in {"nobody", "other"}

-----------------------------------------------------------------------------
(* drawpad_init and drawpad_exit                                           *)

\* request_region; its failure leaves everything as it was.
InitRegion ==
    /\ mod = "out"
    /\ mod' = "region"
    /\ UNCHANGED <<exiting, tpc, seen, drawpad_users, irq>>

\* misc_register, or its failure and release_region.
InitRegister ==
    /\ mod = "region" /\ ~exiting
    /\ mod' \in {"in", "out"}
    /\ UNCHANGED <<exiting, tpc, seen, drawpad_users, irq>>

\* fops.owner pins the module: rmmod waits until every file is closed.
ExitDeregister ==
    /\ mod = "in" /\ \A p \in Proc : tpc[p] = "closed"
    /\ mod' = "region" /\ exiting' = TRUE
    /\ UNCHANGED <<tpc, seen, drawpad_users, irq>>

\* A later insmod starts from a fresh image: drawpad_users is 0 again.
ExitRegion ==
    /\ mod = "region" /\ exiting
    /\ mod' = "out" /\ exiting' = FALSE /\ drawpad_users' = 0
    /\ UNCHANGED <<tpc, seen, irq>>

-----------------------------------------------------------------------------
(* open_drawpad                                                            *)

Go(p, to) == tpc' = [tpc EXCEPT ![p] = to]

\* misc_open: the device is registered and nobody else is in an open.
OpenRead(p) ==
    /\ mod = "in" /\ tpc[p] = "closed"
    /\ \A q \in Proc : tpc[q] \notin OpenPC
    /\ Go(p, "o_write")
    /\ seen' = [seen EXCEPT ![p] = drawpad_users]
    /\ UNCHANGED <<mod, exiting, drawpad_users, irq>>

\* if(drawpad_users++) return 0;
OpenWrite(p) ==
    /\ tpc[p] = "o_write"
    /\ drawpad_users' = seen[p] + 1
    /\ Go(p, IF seen[p] # 0 THEN "open" ELSE "o_irq")
    /\ UNCHANGED <<mod, exiting, seen, irq>>

\* Mutant: a failed open keeps its place in the count.
MutOpenIrq(p) ==
    /\ tpc[p] = "o_irq"
    /\ \/ irq = "nobody" /\ irq' = "drawpad" /\ Go(p, "open")
       \/ UNCHANGED irq /\ Go(p, "closed")
    /\ UNCHANGED <<mod, exiting, seen, drawpad_users>>

\* Mutant: the error of request_irq is ignored.
MutIrqIgnored(p) ==
    /\ tpc[p] = "o_irq"
    /\ \/ irq = "nobody" /\ irq' = "drawpad"
       \/ UNCHANGED irq
    /\ Go(p, "open")
    /\ UNCHANGED <<mod, exiting, seen, drawpad_users>>

\* request_irq without IRQF_SHARED: refused while anybody holds the line,
\* and it may fail for want of memory.
OpenIrq(p) ==
    /\ tpc[p] = "o_irq"
    /\ \/ irq = "nobody" /\ irq' = "drawpad" /\ Go(p, "open")
       \/ UNCHANGED irq /\ Go(p, "o_undo")
    /\ UNCHANGED <<mod, exiting, seen, drawpad_users>>

OpenUndo(p) ==
    /\ tpc[p] = "o_undo"
    /\ Go(p, "o_undowrite")
    /\ seen' = [seen EXCEPT ![p] = drawpad_users]
    /\ UNCHANGED <<mod, exiting, drawpad_users, irq>>

\* drawpad_users--; return -EBUSY;
OpenUndoWrite(p) ==
    /\ tpc[p] = "o_undowrite"
    /\ drawpad_users' = seen[p] - 1
    /\ Go(p, "closed")
    /\ UNCHANGED <<mod, exiting, seen, irq>>

-----------------------------------------------------------------------------
(* close_drawpad                                                           *)

ReleaseRead(p) ==
    /\ tpc[p] = "open"
    /\ Go(p, "r_write")
    /\ seen' = [seen EXCEPT ![p] = drawpad_users]
    /\ UNCHANGED <<mod, exiting, drawpad_users, irq>>

\* Mutant: the old value is tested, if(drawpad_users--).
MutReleaseWrite(p) ==
    /\ tpc[p] = "r_write"
    /\ drawpad_users' = seen[p] - 1
    /\ Go(p, IF seen[p] # 0 THEN "closed" ELSE "r_free")
    /\ UNCHANGED <<mod, exiting, seen, irq>>

\* if(--drawpad_users) return 0;
ReleaseWrite(p) ==
    /\ tpc[p] = "r_write"
    /\ drawpad_users' = seen[p] - 1
    /\ Go(p, IF seen[p] # 1 THEN "closed" ELSE "r_free")
    /\ UNCHANGED <<mod, exiting, seen, irq>>

\* free_irq only warns about a line the driver does not hold.
ReleaseFree(p) ==
    /\ tpc[p] = "r_free"
    /\ irq' = IF irq = "drawpad" THEN "nobody" ELSE irq
    /\ Go(p, "closed")
    /\ UNCHANGED <<mod, exiting, seen, drawpad_users>>

\* Another driver (the RTC) takes or gives back the line.
OtherIrq ==
    /\ \/ irq = "nobody" /\ irq' = "other"
       \/ irq = "other" /\ irq' = "nobody"
    /\ UNCHANGED <<mod, exiting, tpc, seen, drawpad_users>>

-----------------------------------------------------------------------------
Next ==
    \/ InitRegion \/ InitRegister \/ ExitDeregister \/ ExitRegion \/ OtherIrq
    \/ \E p \in Proc :
          \/ OpenRead(p) \/ OpenWrite(p) \/ OpenIrq(p)
          \/ OpenUndo(p) \/ OpenUndoWrite(p)
          \/ ReleaseRead(p) \/ ReleaseWrite(p) \/ ReleaseFree(p)

Spec == Init /\ [][Next]_vars

Busy == {p \in Proc : tpc[p] \in OpenPC \cup ReleasePC}

\* The callers the counter was written for: no open or release overlaps
\* another one.
OneAtATime == \A p, q \in Busy : p = q

SerialSpec == Init /\ [][Next /\ OneAtATime']_vars

-----------------------------------------------------------------------------
OpenFiles == {p \in Proc : tpc[p] = "open"}

TypeOK ==
    /\ mod \in {"out", "region", "in"} /\ exiting \in BOOLEAN
    /\ tpc \in [Proc -> {"closed", "open"} \cup OpenPC \cup ReleasePC]
    /\ seen \in [Proc -> 0..Cardinality(Proc)]
    /\ drawpad_users \in 0..Cardinality(Proc)
    /\ irq \in {"nobody", "drawpad", "other"}

\* "# of current users" (55): whenever no open or release is in progress the
\* counter is the number of open files.
UsersExact == Busy = {} => drawpad_users = Cardinality(OpenFiles)

\* The first user takes the interrupt line and the last one gives it back:
\* between calls it is held exactly while the device is open (96-107, 121-128).
IrqWhileOpen == Busy = {} => (irq = "drawpad" <=> OpenFiles # {})

\* release frees only the line that open has taken: never free_irq on a line
\* that is free or another driver's (128).
FreesOwnIrq == \A p \in Proc : tpc[p] = "r_free" => irq = "drawpad"

\* Outside the lifetime of the device nobody is inside it, the handler is not
\* installed, and the count starts from nothing (168-192).
GoneIsGone ==
    mod # "in" => irq # "drawpad" /\ drawpad_users = 0
                  /\ \A p \in Proc : tpc[p] = "closed"

-----------------------------------------------------------------------------
(* The inductive invariant behind these, for callers one at a time.        *)

\* The processes the counter counts, and those for whom the line is held.
Counted == {p \in Proc : tpc[p] \in {"open", "o_irq", "o_undo", "o_undowrite", "r_write"}}
Holding == {p \in Proc : tpc[p] \in {"open", "r_write", "r_free"}}

\* The counter counts exactly, what a process has read is still true, and
\* the line is held on behalf of somebody or not at all.
CountInv ==
    /\ TypeOK /\ OneAtATime
    /\ drawpad_users = Cardinality(Counted)
    /\ \A p \in Proc :
          /\ tpc[p] \in {"o_write", "o_undowrite", "r_write"} => seen[p] = drawpad_users
          /\ tpc[p] \in {"o_irq", "o_undo", "o_undowrite"} => Counted = {p}
          /\ tpc[p] = "r_free" => Counted = {}
    /\ irq = "drawpad" <=> Holding # {}
    /\ mod # "in" => \A p \in Proc : tpc[p] = "closed"

=============================================================================
