------------------------- MODULE MiscDrawpadProofs --------------------------
(***************************************************************************)
(* The user count and the interrupt line of drawpad_driver.c, for any      *)
(* finite set of processes, when no open or release overlaps another one.  *)
(***************************************************************************)
EXTENDS MiscDrawpad, FiniteSetTheorems, TLAPS

\* Counting one process more, or one less, moves the cardinality by one.
LEMMA CountedFinite ==
    ASSUME NEW S \in SUBSET Proc
    PROVE  /\ IsFiniteSet(S) /\ Cardinality(S) \in 0..Cardinality(Proc)
           /\ Cardinality(S) = 0 <=> S = {}
  BY ProcAssumption, FS_Subset, FS_CardinalityType, FS_EmptySet

LEMMA CountedOne ==
    ASSUME NEW S \in SUBSET Proc, NEW p \in S
    PROVE  /\ Cardinality(S \ {p}) = Cardinality(S) - 1
           /\ Cardinality(S) = 1 <=> S = {p}
<1>1. IsFiniteSet(S) /\ IsFiniteSet(S \ {p})
  BY CountedFinite
<1>2. Cardinality(S \ {p}) = Cardinality(S) - 1
  BY <1>1, FS_RemoveElement
<1>3. Cardinality(S \ {p}) = 0 <=> S \ {p} = {}
  BY CountedFinite
<1>4. Cardinality(S) \in Nat
  BY <1>1, FS_CardinalityType
<1> QED BY <1>2, <1>3, <1>4

LEMMA CountedMore ==
    ASSUME NEW S \in SUBSET Proc, NEW p \in Proc \ S
    PROVE  Cardinality(S \cup {p}) = Cardinality(S) + 1
<1> DEFINE T == S \cup {p}
<1>1. T \in SUBSET Proc /\ p \in T /\ T \ {p} = S
  OBVIOUS
<1>2. Cardinality(T \ {p}) = Cardinality(T) - 1
  BY <1>1, CountedOne
<1>3. Cardinality(S) \in Nat /\ Cardinality(T) \in Nat
  BY <1>1, CountedFinite, FS_CardinalityType
<1>4. Cardinality(S) = Cardinality(T) - 1
  BY <1>1, <1>2
<1> HIDE DEF T
<1>5. Cardinality(T) = Cardinality(S) + 1
  BY <1>3, <1>4
<1> QED BY <1>5 DEF T

LEMMA InitCountInv == Init => CountInv
<1> SUFFICES ASSUME Init PROVE CountInv
  OBVIOUS
<1>1. Counted = {} /\ Holding = {} /\ Busy = {}
  BY DEF Init, Counted, Holding, Busy, OpenPC, ReleasePC
<1>2. Cardinality(Counted) = 0 /\ 0 \in 0..Cardinality(Proc)
  BY <1>1, CountedFinite
<1> QED
  BY <1>1, <1>2 DEF Init, CountInv, TypeOK, OneAtATime

\* Steps of the module and of the other driver: no process moves.
LEMMA ModuleStep ==
    ASSUME CountInv,
           InitRegion \/ InitRegister \/ ExitDeregister \/ ExitRegion \/ OtherIrq \/ UNCHANGED vars
    PROVE  CountInv'
<1>1. UNCHANGED <<tpc, seen>> /\ (mod' # "in" => \A p \in Proc : tpc[p] = "closed")
  BY DEF CountInv, InitRegion, InitRegister, ExitDeregister, ExitRegion, OtherIrq, vars
<1>2. Counted' = Counted /\ Holding' = Holding /\ Busy' = Busy
  BY <1>1 DEF Counted, Holding, Busy
<1>3. drawpad_users' = drawpad_users
  <2>1. CASE ExitRegion
    <3>1. Counted = {}
      BY <2>1 DEF ExitRegion, CountInv, Counted
    <3> QED BY <2>1, <3>1, CountedFinite DEF ExitRegion, CountInv
  <2> QED
    BY <2>1 DEF InitRegion, InitRegister, ExitDeregister, OtherIrq, vars
<1>4. irq' = "drawpad" <=> irq = "drawpad"
  BY DEF InitRegion, InitRegister, ExitDeregister, ExitRegion, OtherIrq, vars
<1>5. TypeOK'
  BY <1>1, <1>3 DEF CountInv, TypeOK, InitRegion, InitRegister, ExitDeregister, ExitRegion,
                    OtherIrq, vars
<1> QED
  BY <1>1, <1>2, <1>3, <1>4, <1>5 DEF CountInv, OneAtATime

\* A process alone in open or release is the only one that is busy.
LEMMA Alone ==
    ASSUME CountInv, OneAtATime', NEW p \in Proc, NEW q \in Proc, q # p,
           tpc[p] \in OpenPC \cup ReleasePC \/ tpc'[p] \in OpenPC \cup ReleasePC,
           tpc'[q] = tpc[q]
    PROVE  tpc[q] \in {"closed", "open"}
  BY DEF CountInv, OneAtATime, Busy, TypeOK

\* What the step of p does to the sets the invariant counts.
LEMMA Moves ==
    ASSUME CountInv, NEW p \in Proc, NEW to, Go(p, to)
    PROVE  /\ tpc'[p] = to /\ \A q \in Proc \ {p} : tpc'[q] = tpc[q]
           /\ Counted' = IF to \in {"open", "o_irq", "o_undo", "o_undowrite", "r_write"}
                         THEN Counted \cup {p} ELSE Counted \ {p}
           /\ Holding' = IF to \in {"open", "r_write", "r_free"}
                         THEN Holding \cup {p} ELSE Holding \ {p}
  BY DEF CountInv, TypeOK, Go, Counted, Holding

\* Nothing but the conjuncts about p and the line has to be checked when the
\* step of p keeps the count right.
LEMMA StepKeepsCount ==
    ASSUME CountInv, OneAtATime', NEW p \in Proc,
           NEW to \in {"closed", "open"} \cup OpenPC \cup ReleasePC, Go(p, to),
           mod = "in", UNCHANGED <<mod, exiting>>,
           irq' \in {"nobody", "drawpad", "other"},
           drawpad_users' = Cardinality(Counted'),
           seen' = seen \/ seen' = [seen EXCEPT ![p] = drawpad_users],
           tpc[p] \in OpenPC \cup ReleasePC \/ to \in OpenPC \cup ReleasePC,
           to \in {"o_write", "o_undowrite", "r_write"} => seen'[p] = drawpad_users',
           to \in {"o_irq", "o_undo", "o_undowrite"} => Counted' = {p},
           to = "r_free" => Counted' = {},
           irq' = "drawpad" <=> Holding' # {}
    PROVE  CountInv'
<1>1. /\ tpc'[p] = to
      /\ \A q \in Proc \ {p} : tpc'[q] = tpc[q] /\ tpc[q] \in {"closed", "open"}
  BY Moves, Alone
<1>2. Counted' \in SUBSET Proc
  BY DEF Counted
<1>3. TypeOK'
  BY <1>2, CountedFinite DEF CountInv, TypeOK, Go
<1>4. ASSUME NEW q \in Proc
      PROVE /\ tpc'[q] \in {"o_write", "o_undowrite", "r_write"} => seen'[q] = drawpad_users'
            /\ tpc'[q] \in {"o_irq", "o_undo", "o_undowrite"} => Counted' = {q}
            /\ tpc'[q] = "r_free" => Counted' = {}
  BY <1>1, q = p \/ tpc'[q] \in {"closed", "open"}
<1> QED
  BY <1>3, <1>4 DEF CountInv

LEMMA OpenStep ==
    ASSUME CountInv, OneAtATime', NEW p \in Proc,
           OpenRead(p) \/ OpenWrite(p) \/ OpenIrq(p) \/ OpenUndo(p) \/ OpenUndoWrite(p)
    PROVE  CountInv'
<1> USE DEF OpenPC, ReleasePC
<1>0. /\ Counted \in SUBSET Proc /\ drawpad_users = Cardinality(Counted)
      /\ Cardinality(Counted) \in 0..Cardinality(Proc) /\ (Cardinality(Counted) = 0 <=> Counted = {})
      /\ drawpad_users \in 0..Cardinality(Proc) /\ irq \in {"nobody", "drawpad", "other"}
      /\ irq = "drawpad" <=> Holding # {}
      /\ p \in Counted <=> tpc[p] \in {"open", "o_irq", "o_undo", "o_undowrite", "r_write"}
      /\ p \in Holding <=> tpc[p] \in {"open", "r_write", "r_free"}
  BY CountedFinite DEF CountInv, TypeOK, Counted, Holding
<1>1. CASE OpenRead(p)
  <2>1. Go(p, "o_write") /\ tpc[p] = "closed" /\ UNCHANGED <<mod, exiting, drawpad_users, irq>>
    BY <1>1 DEF OpenRead
  <2>2. Counted' = Counted /\ Holding' = Holding
    BY <2>1, <1>0, Moves
  <2>3. seen' = [seen EXCEPT ![p] = drawpad_users] /\ seen'[p] = drawpad_users' /\ mod = "in"
    BY <1>1, <2>1 DEF OpenRead, CountInv, TypeOK
  <2> QED BY <1>0, <2>1, <2>2, <2>3, StepKeepsCount
<1>2. CASE OpenWrite(p)
  <2> DEFINE to == IF seen[p] # 0 THEN "open" ELSE "o_irq"
  <2>1. /\ Go(p, to) /\ tpc[p] = "o_write" /\ UNCHANGED <<mod, exiting, seen, irq>>
        /\ drawpad_users' = seen[p] + 1 /\ seen[p] = drawpad_users /\ mod = "in"
    BY <1>2 DEF OpenWrite, CountInv
  <2>2. Counted' = Counted \cup {p} /\ p \notin Counted
    BY <2>1, <1>0, Moves
  <2>3. drawpad_users' = Cardinality(Counted')
    BY <2>1, <2>2, <1>0, CountedMore
  <2>4. to = "o_irq" => Counted' = {p}
    BY <2>1, <2>2, <1>0
  <2>5. irq' = "drawpad" <=> Holding' # {}
    <3>1. CASE to = "open"
      <4>1. PICK q \in Counted : TRUE
        BY <3>1, <2>1, <1>0
      <4>2. q # p /\ q \in Proc /\ tpc'[q] = tpc[q]
        BY <4>1, <2>1, <2>2, <1>0, Moves
      <4>3. tpc[q] \in {"closed", "open"}
        BY <4>2, <2>1, Alone
      <4>4. q \in Holding
        BY <4>1, <4>3 DEF Counted, Holding
      <4> QED BY <4>4, <3>1, <2>1, <1>0, Moves
    <3>2. CASE to = "o_irq"
      BY <3>2, <2>1, <1>0, Moves
    <3> QED BY <3>1, <3>2
  <2> HIDE DEF to
  <2>6. to \in {"open", "o_irq"}
    BY DEF to
  <2> QED BY <1>0, <2>1, <2>3, <2>4, <2>5, <2>6, StepKeepsCount
<1>3. CASE OpenIrq(p)
  <2>1. /\ tpc[p] = "o_irq" /\ UNCHANGED <<mod, exiting, seen, drawpad_users>>
        /\ Counted = {p} /\ mod = "in"
    BY <1>3 DEF OpenIrq, CountInv
  <2>2. Holding = {}
    <3>1. ASSUME NEW q \in Holding, q # p PROVE FALSE
      <4>1. tpc[q] \notin {"open", "r_write"}
        BY <3>1, <2>1 DEF Counted, Holding
      <4>2. tpc[q] = "r_free"
        BY <3>1, <4>1 DEF Holding
      <4> QED BY <3>1, <4>2, <2>1 DEF CountInv, Holding
    <3> QED BY <3>1, <2>1, <1>0
  <2>3. CASE irq = "nobody" /\ irq' = "drawpad" /\ Go(p, "open")
    BY <2>1, <2>3, <1>0, Moves, StepKeepsCount
  <2>4. CASE UNCHANGED irq /\ Go(p, "o_undo")
    <3>1. Counted' = {p} /\ Holding' = {}
      BY <2>1, <2>2, <2>4, Moves
    <3> QED BY <2>1, <2>2, <2>4, <3>1, <1>0, StepKeepsCount
  <2> QED BY <1>3, <2>3, <2>4 DEF OpenIrq
<1>4. CASE OpenUndo(p)
  <2>1. /\ tpc[p] = "o_undo" /\ Go(p, "o_undowrite") /\ UNCHANGED <<mod, exiting, drawpad_users, irq>>
        /\ Counted = {p} /\ mod = "in" /\ seen' = [seen EXCEPT ![p] = drawpad_users]
        /\ seen'[p] = drawpad_users'
    BY <1>4 DEF OpenUndo, CountInv, TypeOK
  <2>2. Counted' = Counted /\ Holding' = Holding
    BY <2>1, <1>0, Moves
  <2> QED BY <1>0, <2>1, <2>2, StepKeepsCount
<1>5. CASE OpenUndoWrite(p)
  <2>1. /\ tpc[p] = "o_undowrite" /\ Go(p, "closed") /\ UNCHANGED <<mod, exiting, seen, irq>>
        /\ Counted = {p} /\ mod = "in" /\ drawpad_users' = drawpad_users - 1
    BY <1>5 DEF OpenUndoWrite, CountInv
  <2>2. Counted' = Counted \ {p} /\ Holding' = Holding \ {p} /\ p \notin Holding
    BY <2>1, <1>0, Moves
  <2>3. Holding' = Holding
    BY <2>2
  <2>4. drawpad_users' = Cardinality(Counted')
    BY <2>1, <2>2, <1>0, CountedOne
  <2> QED BY <1>0, <2>1, <2>3, <2>4, StepKeepsCount
<1> QED BY <1>1, <1>2, <1>3, <1>4, <1>5

LEMMA ReleaseStep ==
    ASSUME CountInv, OneAtATime', NEW p \in Proc,
           ReleaseRead(p) \/ ReleaseWrite(p) \/ ReleaseFree(p)
    PROVE  CountInv'
<1> USE DEF OpenPC, ReleasePC
<1>0. /\ Counted \in SUBSET Proc /\ drawpad_users = Cardinality(Counted)
      /\ Cardinality(Counted) \in 0..Cardinality(Proc) /\ (Cardinality(Counted) = 0 <=> Counted = {})
      /\ drawpad_users \in 0..Cardinality(Proc) /\ irq \in {"nobody", "drawpad", "other"}
      /\ irq = "drawpad" <=> Holding # {}
      /\ p \in Counted <=> tpc[p] \in {"open", "o_irq", "o_undo", "o_undowrite", "r_write"}
      /\ p \in Holding <=> tpc[p] \in {"open", "r_write", "r_free"}
  BY CountedFinite DEF CountInv, TypeOK, Counted, Holding
<1>1. CASE ReleaseRead(p)
  <2>1. /\ tpc[p] = "open" /\ Go(p, "r_write") /\ UNCHANGED <<mod, exiting, drawpad_users, irq>>
        /\ mod = "in" /\ seen' = [seen EXCEPT ![p] = drawpad_users]
        /\ seen'[p] = drawpad_users'
    BY <1>1 DEF ReleaseRead, CountInv, TypeOK
  <2>2. /\ Counted' = Counted \cup {p} /\ p \in Counted
        /\ Holding' = Holding \cup {p} /\ p \in Holding
    BY <2>1, <1>0, Moves
  <2>3. Counted' = Counted /\ Holding' = Holding
    BY <2>2
  <2> QED BY <1>0, <2>1, <2>3, StepKeepsCount
<1>2. CASE ReleaseWrite(p)
  <2> DEFINE to == IF seen[p] # 1 THEN "closed" ELSE "r_free"
  <2>1. /\ Go(p, to) /\ tpc[p] = "r_write" /\ UNCHANGED <<mod, exiting, seen, irq>>
        /\ drawpad_users' = seen[p] - 1 /\ seen[p] = drawpad_users /\ mod = "in"
    BY <1>2 DEF ReleaseWrite, CountInv
  <2>2. Counted' = Counted \ {p} /\ p \in Counted /\ p \in Holding
    BY <2>1, <1>0, Moves
  <2>3. drawpad_users' = Cardinality(Counted') /\ (seen[p] = 1 <=> Counted = {p})
    BY <2>1, <2>2, <1>0, CountedOne
  <2>4. to = "r_free" => Counted' = {}
    BY <2>2, <2>3
  <2>5. irq' = "drawpad" <=> Holding' # {}
    <3>1. CASE to = "closed"
      <4>1. PICK q \in Counted : q # p
        BY <3>1, <2>2, <2>3
      <4>2. q \in Proc /\ tpc'[q] = tpc[q] /\ tpc[q] \in {"closed", "open"}
        BY <4>1, <2>1, <1>0, Moves, Alone
      <4>3. q \in Holding /\ Holding' = Holding \ {p}
        BY <4>1, <4>2, <3>1, <2>1, Moves DEF Counted, Holding
      <4> QED BY <4>1, <4>3, <2>1, <1>0
    <3>2. CASE to = "r_free"
      <4>1. Holding' = Holding \cup {p}
        BY <3>2, <2>1, Moves
      <4> QED BY <4>1, <2>1, <2>2, <1>0
    <3> QED BY <3>1, <3>2
  <2> HIDE DEF to
  <2>6. to \in {"closed", "r_free"}
    BY DEF to
  <2> QED BY <1>0, <2>1, <2>3, <2>4, <2>5, <2>6, StepKeepsCount
<1>3. CASE ReleaseFree(p)
  <2>1. /\ tpc[p] = "r_free" /\ Go(p, "closed") /\ UNCHANGED <<mod, exiting, seen, drawpad_users>>
        /\ Counted = {} /\ mod = "in" /\ irq' = IF irq = "drawpad" THEN "nobody" ELSE irq
    BY <1>3 DEF ReleaseFree, CountInv
  <2>2. Counted' = Counted \ {p} /\ Holding' = Holding \ {p} /\ p \notin Counted
    BY <2>1, <1>0, Moves
  <2>3. Counted' = Counted
    BY <2>2
  <2>4. Holding \subseteq {p}
    <3>1. ASSUME NEW q \in Holding, q # p PROVE FALSE
      <4>1. q \in Proc /\ tpc'[q] = tpc[q] /\ tpc[q] \in {"closed", "open"}
        BY <3>1, <2>1, Moves, Alone DEF Holding
      <4>2. q \in Counted
        BY <3>1, <4>1 DEF Counted, Holding
      <4> QED BY <4>2, <2>1
    <3> QED BY <3>1
  <2>5. Holding' = {}
    BY <2>2, <2>4
  <2>6. irq' # "drawpad" /\ irq' \in {"nobody", "drawpad", "other"}
    BY <2>1, <1>0
  <2> QED BY <1>0, <2>1, <2>3, <2>5, <2>6, StepKeepsCount
<1> QED BY <1>1, <1>2, <1>3

LEMMA NextCountInv == CountInv /\ [Next /\ OneAtATime']_vars => CountInv'
<1> SUFFICES ASSUME CountInv, [Next /\ OneAtATime']_vars PROVE CountInv'
  OBVIOUS
<1>1. CASE InitRegion \/ InitRegister \/ ExitDeregister \/ ExitRegion \/ OtherIrq
           \/ UNCHANGED vars
  BY <1>1, ModuleStep
<1>2. ASSUME NEW p \in Proc, OneAtATime',
             OpenRead(p) \/ OpenWrite(p) \/ OpenIrq(p) \/ OpenUndo(p) \/ OpenUndoWrite(p)
      PROVE  CountInv'
  BY <1>2, OpenStep
<1>3. ASSUME NEW p \in Proc, OneAtATime', ReleaseRead(p) \/ ReleaseWrite(p) \/ ReleaseFree(p)
      PROVE  CountInv'
  BY <1>3, ReleaseStep
<1> QED
  BY <1>1, <1>2, <1>3 DEF Next

\* The count and the line are right at every moment, for callers one at a time.
THEOREM CountInductive == SerialSpec => []CountInv
  BY InitCountInv, NextCountInv, PTL DEF SerialSpec

\* Every variable stays in its set, whatever calls fail: the region, the
\* device and the line are never anything but free, the driver's or another's.
THEOREM TypeCorrect == SerialSpec => []TypeOK
<1>1. CountInv => TypeOK
  BY DEF CountInv
<1> QED BY <1>1, CountInductive, PTL

\* The counter is the number of open files.
THEOREM CounterIsExact == SerialSpec => []UsersExact
<1>1. CountInv => UsersExact
  <2> SUFFICES ASSUME CountInv, Busy = {} PROVE Counted = OpenFiles
    BY DEF UsersExact, CountInv
  <2> QED BY DEF Busy, Counted, OpenFiles, OpenPC, ReleasePC
<1> QED BY <1>1, CountInductive, PTL

\* The interrupt line is held exactly while the device is open.
THEOREM LineFollowsUsers == SerialSpec => []IrqWhileOpen
<1>1. CountInv => IrqWhileOpen
  <2> SUFFICES ASSUME CountInv, Busy = {} PROVE Holding = OpenFiles
    BY DEF IrqWhileOpen, CountInv
  <2> QED BY DEF Busy, Holding, OpenFiles, OpenPC, ReleasePC
<1> QED BY <1>1, CountInductive, PTL

\* release frees only the line that open took.
THEOREM LineIsOwn == SerialSpec => []FreesOwnIrq
<1>1. CountInv => FreesOwnIrq
  BY DEF CountInv, FreesOwnIrq, Holding
<1> QED BY <1>1, CountInductive, PTL

\* Without the device there is no user, no count and no interrupt handler.
THEOREM NothingStays == SerialSpec => []GoneIsGone
<1>1. CountInv => GoneIsGone
  <2> SUFFICES ASSUME CountInv, mod # "in"
               PROVE  irq # "drawpad" /\ drawpad_users = 0 /\ \A p \in Proc : tpc[p] = "closed"
    BY DEF GoneIsGone
  <2>1. Counted = {} /\ Holding = {}
    BY DEF CountInv, Counted, Holding
  <2>2. Cardinality(Counted) = 0
    BY <2>1, CountedFinite
  <2> QED BY <2>1, <2>2 DEF CountInv
<1> QED BY <1>1, CountInductive, PTL
=============================================================================
