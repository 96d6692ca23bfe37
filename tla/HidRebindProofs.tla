--------------------------- MODULE HidRebindProofs ---------------------------
(***************************************************************************)
(* The script hid-rebind, for any number of devices and overlapping runs:  *)
(* what a run has seen of its device stays so, or one of a few things has  *)
(* befallen the device, and they are all that can keep it from the new     *)
(* driver when the run ends.                                               *)
(***************************************************************************)
EXTENDS HidRebind, TLAPS

LEMMA InitInv == Init => RebindInv
BY DEF Init, RebindInv, RunInv, TypeOK, Here

LEMMA TypeKept ==
    ASSUME RebindInv, Next
    PROVE  TypeOK'
<1> USE DEF RebindInv, TypeOK, world, fixed, script, Goto, End, Set
<1>1. ASSUME NEW d \in Dev, Plug(d) PROVE TypeOK'
      BY <1>1 DEF Plug
<1>2. ASSUME NEW d \in Dev, Offer(d) PROVE TypeOK'
  <2>1. PICK b \in {"none", "old", "new"} :
            bound' \in {bound, [bound EXCEPT ![d] = b]}
        BY <1>2 DEF Offer, Takers
  <2>2. upset' \in [Dev -> SUBSET {"taken", "new", "late"}]
        BY <1>2 DEF Offer
  <2> QED BY <1>2, <2>1, <2>2 DEF Offer
<1>3. ASSUME NEW d \in Dev, Unplug(d) PROVE TypeOK'
      BY <1>3 DEF Unplug
<1>4. ASSUME NEW d \in Dev, UnbindByHand(d) PROVE TypeOK'
      BY <1>4 DEF UnbindByHand
<1>5. ASSUME NEW m \in {"old", "new"}, Remove(m) PROVE TypeOK'
  <2>1. bound' = [d \in Dev |-> IF bound[d] = m THEN "none" ELSE bound[d]]
        BY <1>5 DEF Remove
  <2>2. upset' = [d \in Dev |-> IF Active(d)
                     THEN upset[d] \union ({m} \ {"old"})
                                   \union (IF bound[d] = m THEN {"taken"} ELSE {})
                     ELSE upset[d]]
        BY <1>5 DEF Remove
  <2>3. /\ loaded' = loaded \ {m} /\ waiting' \in {waiting, {d \in Dev : Here(d)}}
        /\ UNCHANGED <<kernel, accepts, present, pc, cur, took>>
        BY <1>5 DEF Remove
  <2>4. ASSUME NEW d \in Dev PROVE upset'[d] \in SUBSET {"taken", "new", "late"}
        BY <2>2
  <2>5. upset' \in [Dev -> SUBSET {"taken", "new", "late"}]
        BY <2>2, <2>4
  <2>6. bound' \in [Dev -> {"none", "old", "new"}]
        BY <2>1
  <2> QED BY <2>3, <2>5, <2>6
<1>6. ASSUME NEW d \in Dev, ReadDriver(d) \/ ChooseModule(d) \/ TestPath(d) PROVE TypeOK'
  <2>1. CASE ReadDriver(d)
        BY <2>1 DEF ReadDriver
  <2>2. CASE ChooseModule(d)
        BY <2>2 DEF ChooseModule
  <2>3. CASE TestPath(d)
        BY <2>3 DEF TestPath
  <2> QED BY <1>6, <2>1, <2>2, <2>3
<1>7. ASSUME NEW d \in Dev, LoadModule(d) PROVE TypeOK'
  <2>1. [e \in Dev |-> Attached(e)] \in [Dev -> {"none", "old", "new"}]
        BY DEF Attached
  <2>2. /\ bound' \in {bound, [e \in Dev |-> Attached(e)]}
        /\ loaded' \in {loaded, loaded \union {"new"}}
        /\ UNCHANGED <<kernel, accepts, present, waiting>>
        BY <1>7 DEF LoadModule
  <2>3. CASE Goto(d, "load", "test") /\ UNCHANGED script
        BY <2>1, <2>2, <2>3
  <2>4. CASE End(d, "load", "quit")
        BY <2>1, <2>2, <2>4
  <2> QED BY <1>7, <2>3, <2>4 DEF LoadModule
<1>8. ASSUME NEW d \in Dev, Unbind(d) PROVE TypeOK'
  <2>1. UNCHANGED <<kernel, accepts, present, loaded, waiting>>
        BY <1>8 DEF Unbind
  <2>2. CASE PathExists(d)
    <3>1. /\ pc' = [pc EXCEPT ![d] = "bind"]
          /\ bound' \in {bound, [bound EXCEPT ![d] = "none"]}
          /\ took' = [took EXCEPT ![d] = HasIt(d)]
          /\ UNCHANGED <<cur, upset>>
          BY <1>8, <2>2 DEF Unbind
    <3>2. HasIt(d) \in BOOLEAN
          BY DEF HasIt
    <3> QED BY <2>1, <3>1, <3>2
  <2>3. CASE ~PathExists(d)
    <3>1. End(d, "unbind", "quit") /\ UNCHANGED bound
          BY <1>8, <2>3 DEF Unbind
    <3> QED BY <2>1, <3>1
  <2> QED BY <2>2, <2>3
<1>9. ASSUME NEW d \in Dev, Bind(d) PROVE TypeOK'
      BY <1>9 DEF Bind
<1> QED BY <1>1, <1>2, <1>3, <1>4, <1>5, <1>6, <1>7, <1>8, <1>9 DEF Next, Run

\* What the kernel and the user do to device d.
LEMMA WorldKeepsRunInv ==
    ASSUME RebindInv, NEW d \in Dev, NEW e \in Dev,
           Plug(d) \/ Offer(d) \/ Unplug(d) \/ UnbindByHand(d)
    PROVE  RunInv(e)'
<1> USE DEF RebindInv, TypeOK, RunInv, Here, Active, Goto, Set, world, fixed, script
<1>1. CASE Plug(d)
      BY <1>1 DEF Plug
<1>2. CASE Offer(d)
  <2>1. UNCHANGED <<pc, present, accepts, loaded, cur, took>> /\ waiting' = waiting \ {d}
        BY <1>2 DEF Offer
  <2>2. ASSUME bound[d] = "none", NEW b \in Takers(d), bound' = Set(bound, d, b),
               upset' = IF b = "old" /\ pc[d] = "bind"
                        THEN Set(upset, d, upset[d] \union {"late"}) ELSE upset
        PROVE  RunInv(e)'
    <3>1. b # "none" => b \in loaded /\ Here(d)
          BY <1>2 DEF Takers, NewTakes, Offer
    <3>2. b = "new" => accepts[d]
          BY DEF Takers, NewTakes
    <3>3. b \in {"none", "old", "new"}
          BY DEF Takers
    <3> QED BY <2>1, <2>2, <3>1, <3>2, <3>3
  <2>3. UNCHANGED <<bound, upset>> => RunInv(e)'
        BY <2>1
  <2> QED BY <1>2, <2>2, <2>3 DEF Offer
<1>3. CASE Unplug(d)
      BY <1>3 DEF Unplug
<1>4. CASE UnbindByHand(d)
      BY <1>4 DEF UnbindByHand
<1> QED BY <1>1, <1>2, <1>3, <1>4

\* The removal of a driver, for all devices.
LEMMA RemoveKeepsRunInv ==
    ASSUME RebindInv, NEW m \in {"old", "new"}, NEW e \in Dev, Remove(m)
    PROVE  RunInv(e)'
<1> USE DEF RebindInv, TypeOK, Here, Active, fixed
<1>1. /\ loaded' = loaded \ {m} /\ UNCHANGED <<pc, present, accepts, cur, took>>
      /\ e \in waiting' => e \in waiting \/ Here(e)
      BY DEF Remove
<1>2. bound'[e] = IF bound[e] = m THEN "none" ELSE bound[e]
      BY DEF Remove
<1>3. /\ upset[e] \subseteq upset'[e]
      /\ Active(e) /\ m = "new" => "new" \in upset'[e]
      /\ Active(e) /\ bound[e] = m => upset'[e] # {}
      BY DEF Remove
<1> QED BY <1>1, <1>2, <1>3 DEF RunInv

\* The commands of the run for d.
LEMMA RunKeepsRunInv ==
    ASSUME RebindInv, NEW d \in Dev, NEW e \in Dev, Run(d)
    PROVE  RunInv(e)'
<1> USE DEF RebindInv, TypeOK, RunInv, Here, Goto, End, Set, world, fixed, script
<1>1. CASE ReadDriver(d)
      BY <1>1 DEF ReadDriver
<1>2. CASE ChooseModule(d)
      BY <1>2 DEF ChooseModule
<1>3. CASE LoadModule(d)
      BY <1>3 DEF LoadModule, Attached
<1>4. CASE TestPath(d)
      BY <1>4 DEF TestPath, PathExists
<1>5. CASE Unbind(d)
      BY <1>5 DEF Unbind, PathExists, HasIt
<1>6. CASE Bind(d)
      BY <1>6 DEF Bind, Takes, NewTakes
<1> QED BY <1>1, <1>2, <1>3, <1>4, <1>5, <1>6 DEF Run

LEMMA StepKeepsInv == RebindInv /\ [Next]_vars => RebindInv'
<1> SUFFICES ASSUME RebindInv, [Next]_vars PROVE RebindInv'
    OBVIOUS
<1>1. CASE Next
  <2>1. TypeOK'
        BY <1>1, TypeKept
  <2>2. ASSUME NEW e \in Dev PROVE RunInv(e)'
        BY <1>1, <2>2, WorldKeepsRunInv, RemoveKeepsRunInv, RunKeepsRunInv DEF Next
  <2> QED BY <2>1, <2>2 DEF RebindInv
<1>2. CASE UNCHANGED vars
      BY <1>2 DEF vars, world, fixed, script, RebindInv, RunInv, TypeOK, Here
<1> QED BY <1>1, <1>2

\* The inductive invariant: what a run has seen of its device at each command
\* is still so, or what made it otherwise is on record, whatever the kernel,
\* the user and other runs do.
THEOREM InvHolds == Spec => []RebindInv
BY InitInv, StepKeepsInv, PTL DEF Spec

\* The step that changes the command of d's run to its end is one of the run.
LEMMA EndStep ==
    ASSUME RebindInv, Next, NEW d \in Dev, pc[d] # pc'[d], pc'[d] \in {"done", "quit"}
    PROVE  Run(d)
<1> USE DEF RebindInv, TypeOK, world, fixed, script, Goto, End, Set
<1>1. ASSUME NEW e \in Dev, Plug(e) PROVE FALSE
      BY <1>1 DEF Plug
<1>2. ASSUME NEW e \in Dev, Offer(e) \/ Unplug(e) \/ UnbindByHand(e) PROVE FALSE
      BY <1>2 DEF Offer, Unplug, UnbindByHand
<1>3. ASSUME NEW m \in {"old", "new"}, Remove(m) PROVE FALSE
      BY <1>3 DEF Remove
<1>4. ASSUME NEW e \in Dev, Run(e) PROVE e = d
      BY <1>4 DEF Run, ReadDriver, ChooseModule, LoadModule, TestPath, Unbind, Bind
<1> QED BY <1>1, <1>2, <1>3, <1>4 DEF Next

\* A run past bind leaves its device with the new driver, for any number of
\* devices whose runs overlap, unless the old driver came by it late.
THEOREM DoneIsAlwaysRebound == Spec => DoneIsRebound
<1> DEFINE A == \A d \in Dev : pc[d] = "bind" /\ pc'[d] = "done" /\ Here(d) /\ accepts[d] =>
                    bound'[d] = "new" \/ "late" \in upset[d]
<1>1. RebindInv /\ [Next]_vars => [A]_vars
  <2> SUFFICES ASSUME RebindInv, Next, NEW d \in Dev,
                      pc[d] = "bind", pc'[d] = "done", Here(d), accepts[d]
               PROVE  bound'[d] = "new" \/ "late" \in upset[d]
      OBVIOUS
  <2>1. Run(d)
        BY EndStep
  <2>2. Bind(d)
        BY <2>1 DEF Run, ReadDriver, ChooseModule, LoadModule, TestPath, Unbind, Goto, End
  <2>3. bound'[d] = "new" \/ (NoDevice(d) /\ UNCHANGED bound)
        BY <2>2 DEF Bind, Goto, End, Set, RebindInv, TypeOK
  <2> QED BY <2>3 DEF NoDevice, Takes, NewTakes, RebindInv, RunInv, TypeOK
<1> QED BY <1>1, InvHolds, PTL DEF Spec, DoneIsRebound

\* A run that has taken its device and then fails leaves it with the new
\* driver, or the new driver does not take it or was removed, or the old one
\* came by it again.
THEOREM QuitAlwaysLeavesDriver == Spec => QuitLeavesDriver
<1> DEFINE A == \A d \in Dev : pc[d] # "quit" /\ pc'[d] = "quit" /\ took[d] /\ Here(d) =>
                    bound'[d] = "new" \/ ~accepts[d] \/ upset[d] \intersect {"new", "late"} # {}
<1>1. RebindInv /\ [Next]_vars => [A]_vars
  <2> SUFFICES ASSUME RebindInv, Next, NEW d \in Dev,
                      pc[d] # "quit", pc'[d] = "quit", took[d], Here(d)
               PROVE  bound'[d] = "new" \/ ~accepts[d] \/ upset[d] \intersect {"new", "late"} # {}
      OBVIOUS
  <2>1. Run(d) /\ pc[d] = "bind"
        BY EndStep DEF RebindInv, RunInv
  <2>2. Bind(d)
        BY <2>1 DEF Run, ReadDriver, ChooseModule, LoadModule, TestPath, Unbind, Goto, End
  <2>3. Raises(d) /\ UNCHANGED bound
        BY <2>2 DEF Bind, Goto, End, Set, RebindInv, TypeOK
  <2>4. CASE "new" \notin loaded
        BY <2>1, <2>4 DEF RebindInv, RunInv
  <2>5. CASE bound[d] # "none" \/ ~accepts[d]
        BY <2>1, <2>3, <2>5 DEF RebindInv, RunInv, TypeOK
  <2> QED BY <2>3, <2>4, <2>5 DEF Raises
<1> QED BY <1>1, InvHolds, PTL DEF Spec, QuitLeavesDriver

\* The unbinding ends a run only for want of the removed old driver, or when
\* someone else took the device from the driver that the run's test had found.
THEOREM UnbindAlwaysSucceeds == Spec => UnbindSucceeds
<1> DEFINE A == \A d \in Dev : pc[d] = "unbind" /\ pc'[d] = "quit" /\ Here(d) =>
                    IF cur[d] = "old" THEN "old" \notin loaded ELSE upset[d] # {}
<1>1. RebindInv /\ [Next]_vars => [A]_vars
  <2> SUFFICES ASSUME RebindInv, Next, NEW d \in Dev,
                      pc[d] = "unbind", pc'[d] = "quit", Here(d)
               PROVE  IF cur[d] = "old" THEN "old" \notin loaded ELSE upset[d] # {}
      OBVIOUS
  <2>1. Run(d)
        BY EndStep
  <2>2. Unbind(d)
        BY <2>1 DEF Run, ReadDriver, ChooseModule, LoadModule, TestPath, Bind, Goto, End
  <2>3. ~PathExists(d)
        BY <2>2 DEF Unbind, Goto, Set, RebindInv, TypeOK
  <2> QED BY <2>3 DEF PathExists, RebindInv, RunInv, TypeOK
<1> QED BY <1>1, InvHolds, PTL DEF Spec, UnbindSucceeds
=============================================================================
