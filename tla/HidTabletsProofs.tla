-------------------------- MODULE HidTabletsProofs --------------------------
(***************************************************************************)
(* The drivers hid-kye.c, hid-polostar.c and hid-viewsonic.c, for every    *)
(* number of input devices and any users: what is refused is stopped, a    *)
(* tablet is bound enabled, and the hardware is open while it is used; and *)
(* the descriptors that they put in are sound.                             *)
(***************************************************************************)
EXTENDS HidTablets, TLAPS, WellFoundedInduction

\* The open count does not wrap as long as it counts what is open.
LEMMA Modulo ==
    ASSUME NEW a \in Int, NEW w \in Nat \ {0}
    PROVE  a % w \in 0..(w - 1) /\ (a \in 0..(w - 1) => a % w = a)
OBVIOUS

\* The descriptor that replaces a tablet's own has the enabling report.
LEMMA FixedHasEnabling ==
    ASSUME NEW t \in Tablet
    PROVE  \E r \in Fixed[t] : EnablingReport(r)
<1> DEFINE e == [type |-> "feature", id |-> 5,
                 fields |-> <<[use |-> "mode", size |-> 8, count |-> 7, lo |-> -128, hi |-> 127]>>]
           m == [type |-> "feature", id |-> 5,
                 fields |-> <<[use |-> "mode", size |-> 8, count |-> 7, lo |-> -127, hi |-> 127]>>]
<1>1. EnablingReport(e) /\ EnablingReport(m)
      BY DEF EnablingReport
<1>2. e \in Fixed[t] \/ m \in Fixed[t]
      BY DEF Tablet, Fixed, Enabling, Feature, Field, EasyPenI405X, MousePenI608X,
             MousePenI608XV2, EasyPenM610X, EasyPenM406XE, PenSketchM912
<1> QED BY <1>1, <1>2

LEMMA ParamsFacts ==
    /\ MaxInputs \in Nat /\ Width \in Nat \ {0} /\ Width > MaxInputs + 1
    /\ 0 \in 0..MaxInputs /\ 0 \in 0..(Width - 1)
BY InputsAssumption, WidthAssumption

LEMMA InitInv == Init => IInv
<1> SUFFICES ASSUME Init PROVE IInv
    OBVIOUS
<1>1. TypeOK
      BY ParamsFacts DEF Init, TypeOK
<1>2. ProbeInv /\ RefusedIsStopped /\ FixedIsEnabled
      BY DEF Init, ProbeInv, RefusedIsStopped, FixedIsEnabled
<1>3. PolledForUsers
      BY DEF Init, PolledForUsers
<1> QED BY <1>1, <1>2, <1>3 DEF IInv

\* Steps of probe that open and close nothing.
LEMMA ProbeKeepsInv ==
    ASSUME IInv, Probe \/ Parse \/ Start \/ TabletEnable
    PROVE  IInv'
<1> USE DEF IInv, Goto, opening
<1>1. TypeOK'
      BY DEF TypeOK, Probe, Parse, Start, TabletEnable
<1>2. ReportFixup' = ReportFixup /\ dev' = dev
      BY DEF Probe, Parse, Start, TabletEnable, ReportFixup, OwnReports
<1>3. ProbeInv'
  <2>1. CASE Probe
        BY <1>2, <2>1 DEF Probe, ProbeInv
  <2>2. CASE Parse
        BY <1>2, <2>2 DEF Parse, ProbeInv
  <2>3. CASE Start
        BY <1>2, <2>3 DEF Start, ProbeInv, TypeOK
  <2>4. CASE TabletEnable
    <3>1. pc = "enable" /\ pc' \in {"bound", "stop"} /\ started
          BY <2>4 DEF TabletEnable, ProbeInv, TypeOK
    <3>2. /\ started' = started /\ inputs' = inputs /\ own' = own /\ reports' = reports
          /\ pc \in {"enable", "stop"} => dev.product \in Tablet
          BY <2>4 DEF TabletEnable, ProbeInv
    <3> QED BY <1>2, <3>1, <3>2 DEF ProbeInv
  <2> QED BY <2>1, <2>2, <2>3, <2>4
<1>4. RefusedIsStopped'
      BY DEF RefusedIsStopped, ProbeInv, PolledForUsers, TypeOK, Probe, Parse, Start, TabletEnable
<1>5. FixedIsEnabled'
  <2>1. CASE Probe \/ Parse \/ Start
        BY <2>1 DEF FixedIsEnabled, Probe, Parse, Start
  <2>2. CASE TabletEnable
    <3>1. dev.product \in Tablet
          BY <2>2 DEF TabletEnable, ProbeInv
    <3>2. dev.orig => reports = Fixed[dev.product]
      <4>1. reports = ReportFixup
            BY <2>2 DEF TabletEnable, ProbeInv
      <4>2. dev.product \in DOMAIN Fixed /\ dev.product # "pt1001"
            BY <3>1 DEF Tablet, Fixed
      <4>3. dev.product \notin Gaming /\ dev.product # "ergo"
            BY <3>1 DEF Tablet, Gaming
      <4> QED BY <4>1, <4>2, <4>3 DEF ReportFixup
    <3>3. dev.orig => \E r \in reports : EnablingReport(r)
          BY <3>1, <3>2, FixedHasEnabling
    <3> QED BY <2>2, <3>3 DEF FixedIsEnabled, TabletEnable
  <2> QED BY <2>1, <2>2
<1>6. PolledForUsers'
      BY DEF PolledForUsers, Probe, Parse, Start, TabletEnable
<1> QED BY <1>1, <1>3, <1>4, <1>5, <1>6

\* What is open is counted: the arithmetic of the count, on which the two
\* lemmas after it rest.
LEMMA CountFacts ==
    ASSUME IInv
    PROVE  /\ inputs \in Nat /\ count \in Nat /\ count < Width
           /\ (count + 1) % Width \in 0..(Width - 1)
           /\ (count - 1) % Width \in 0..(Width - 1)
           /\ (count - inputs) % Width \in 0..(Width - 1)
           /\ own # "failed" /\ inputs < MaxInputs => (count + 1) % Width = count + 1
           /\ own = "none" => (count + 1) % Width = count + 1
           /\ own # "failed" /\ inputs > 0 => (count - 1) % Width = count - 1
           /\ own # "failed" => (count - inputs) % Width = count - inputs
<1>1. /\ inputs \in Nat /\ count \in Nat /\ count < Width /\ inputs <= MaxInputs
      /\ own # "failed" => count = inputs \/ count = inputs + 1
      /\ own = "none" => count = inputs
      BY ParamsFacts DEF IInv, TypeOK, PolledForUsers
<1>2. /\ count + 1 \in Int /\ count - 1 \in Int /\ count - inputs \in Int
      /\ own # "failed" /\ inputs < MaxInputs => count + 1 \in 0..(Width - 1)
      /\ own = "none" => count + 1 \in 0..(Width - 1)
      /\ own # "failed" /\ inputs > 0 => count - 1 \in 0..(Width - 1)
      /\ own # "failed" => count - inputs \in 0..(Width - 1)
      BY <1>1, ParamsFacts
<1>3. Width \in Nat \ {0}
      BY ParamsFacts
<1> QED BY <1>1, <1>2, <1>3, Modulo

\* Users come and go while there are input devices, whatever probe does.
LEMMA UsersKeepInv ==
    ASSUME IInv, UserOpen \/ UserClose
    PROVE  IInv'
<1> USE DEF IInv
<1>1. TypeOK'
  <2>1. inputs' \in 0..MaxInputs
        BY CountFacts, ParamsFacts DEF TypeOK, UserOpen, UserClose
  <2>2. count' \in 0..(Width - 1)
        BY CountFacts DEF UserOpen, UserClose, Opened, Closed
  <2>3. polled' \in BOOLEAN
        BY DEF TypeOK, UserOpen, UserClose, Opened, Closed
  <2> QED BY <2>1, <2>2, <2>3 DEF TypeOK, UserOpen, UserClose
<1>2. started
      BY CountFacts DEF UserOpen, UserClose, ProbeInv
<1>3. ReportFixup' = ReportFixup /\ dev' = dev /\ pc' = pc /\ started'
      BY <1>2 DEF UserOpen, UserClose, ReportFixup, OwnReports
<1>4. ProbeInv'
      BY <1>3 DEF ProbeInv, UserOpen, UserClose
<1>5. RefusedIsStopped' /\ FixedIsEnabled'
      BY <1>3 DEF ProbeInv, RefusedIsStopped, FixedIsEnabled, UserOpen, UserClose
<1>6. PolledForUsers'
  <2>1. CASE UserOpen
        BY <2>1, CountFacts DEF UserOpen, Opened, PolledForUsers, TypeOK
  <2>2. CASE UserClose
        BY <2>2, CountFacts DEF UserClose, Closed, PolledForUsers, TypeOK
  <2> QED BY <2>1, <2>2
<1> QED BY <1>1, <1>4, <1>5, <1>6

\* Probe's own opening, and the ways it goes back.
LEMMA OpeningKeepsInv ==
    ASSUME IInv, EnablingErr \/ OpenAll \/ CloseAll
    PROVE  IInv'
<1> USE DEF IInv, Goto
<1>1. /\ EnablingErr => own = "none"
      /\ OpenAll => own = "none"
      /\ CloseAll => own = "failed"
      BY DEF ProbeInv, EnablingErr, OpenAll, CloseAll
<1>2. TypeOK'
  <2>1. count' \in 0..(Width - 1)
        BY CountFacts DEF TypeOK, EnablingErr, OpenAll, CloseAll, Stopped, Opened, NotOpened, Closed
  <2>2. inputs' \in 0..MaxInputs
        BY ParamsFacts DEF TypeOK, EnablingErr, OpenAll, CloseAll, Stopped
  <2>3. polled' \in BOOLEAN
        BY DEF TypeOK, EnablingErr, OpenAll, CloseAll, Stopped, Opened, NotOpened, Closed
  <2> QED BY <2>1, <2>2, <2>3 DEF TypeOK, EnablingErr, OpenAll, CloseAll, Stopped
<1>3. ReportFixup' = ReportFixup /\ dev' = dev
      BY DEF EnablingErr, OpenAll, CloseAll, ReportFixup, OwnReports
<1>4. ProbeInv'
      BY <1>1, <1>3 DEF ProbeInv, EnablingErr, OpenAll, CloseAll, Stopped
<1>5. FixedIsEnabled'
      BY <1>3 DEF FixedIsEnabled, ProbeInv, Tablet, EnablingErr, OpenAll, CloseAll, Stopped
<1>6. PolledForUsers'
  <2>1. CASE EnablingErr
        BY <1>1, <2>1, CountFacts DEF EnablingErr, Stopped, PolledForUsers
  <2>2. CASE OpenAll
    <3>1. own' = "failed" => PolledForUsers'
          BY DEF PolledForUsers
    <3>2. CASE own' = "ok"
      <4>1. count' = (count + 1) % Width /\ inputs' = inputs /\ Opened
            BY <2>2, <3>2 DEF OpenAll, Opened
      <4>2. count' = inputs + 1 /\ inputs \in Nat
            BY <1>1, <2>2, <4>1, CountFacts DEF PolledForUsers
      <4>3. polled'
            BY <1>1, <2>2, <4>1, CountFacts DEF Opened, PolledForUsers
      <4> QED BY <3>2, <4>1, <4>2, <4>3 DEF PolledForUsers
    <3> QED BY <2>2, <3>1, <3>2 DEF OpenAll
  <2>3. CASE CloseAll
        BY <1>1, <2>3 DEF CloseAll, PolledForUsers
  <2> QED BY <2>1, <2>2, <2>3
<1>7. RefusedIsStopped'
  <2>1. CASE EnablingErr
        BY <1>1, <2>1, CountFacts DEF EnablingErr, Stopped, RefusedIsStopped, PolledForUsers
  <2>2. CASE OpenAll \/ CloseAll
        BY <2>2 DEF OpenAll, CloseAll, RefusedIsStopped
  <2> QED BY <2>1, <2>2
<1> QED BY <1>2, <1>4, <1>5, <1>6, <1>7

LEMMA UnplugKeepsInv ==
    ASSUME IInv, Unplug
    PROVE  IInv'
<1>1. TypeOK'
      BY ParamsFacts DEF Unplug, TypeOK
<1>2. ProbeInv' /\ RefusedIsStopped' /\ FixedIsEnabled'
      BY DEF Unplug, ProbeInv, RefusedIsStopped, FixedIsEnabled
<1>3. PolledForUsers'
      BY DEF Unplug, PolledForUsers
<1> QED BY <1>1, <1>2, <1>3 DEF IInv

LEMMA StutterKeepsInv ==
    ASSUME IInv, UNCHANGED vars
    PROVE  IInv'
BY DEF IInv, vars, opening, TypeOK, ProbeInv, RefusedIsStopped, FixedIsEnabled,
       PolledForUsers, ReportFixup, OwnReports

\* The inductive invariant holds in every state: probe has at each step done
\* what comes before it and nothing else.
THEOREM InvHolds == Spec => []IInv
<1>1. IInv /\ [Next]_vars => IInv'
      BY ProbeKeepsInv, UsersKeepInv, OpeningKeepsInv, UnplugKeepsInv, StutterKeepsInv DEF Next
<1> QED BY <1>1, InitInv, PTL DEF Spec

\* A device that probe refuses is left stopped, closed and uncounted, whoever
\* had opened its input devices meanwhile.
THEOREM RefusedIsAlwaysStopped == Spec => []RefusedIsStopped
<1>1. IInv => RefusedIsStopped
      BY DEF IInv
<1> QED BY <1>1, InvHolds, PTL

\* A tablet is bound only when enabled, and one with a replaced descriptor
\* never fails to be.
THEOREM FixedIsAlwaysEnabled == Spec => []FixedIsEnabled
<1>1. IInv => FixedIsEnabled
      BY DEF IInv
<1> QED BY <1>1, InvHolds, PTL

\* The hardware is open exactly while somebody uses it, for any number of
\* users, unless probe's own opening failed.
THEOREM AlwaysPolledForUsers == Spec => []PolledForUsers
<1>1. IInv => PolledForUsers
      BY DEF IInv
<1> QED BY <1>1, InvHolds, PTL

-----------------------------------------------------------------------------
(* The descriptors                                                         *)

\* What FirstBit's sum is by its definition.
IsSum(r, f) ==
    f = [n \in 1..(Len(r.fields) + 1) |->
            IF n = 1 THEN 0
            ELSE f[n - 1] + r.fields[n - 1].size * r.fields[n - 1].count]

\* There is one such sum, so any function that adds up is it.
LEMMA SumIsFirstBit ==
  ASSUME NEW r, Len(r.fields) \in Nat, NEW g, IsSum(r, g)
  PROVE  \A i \in 1..(Len(r.fields) + 1) : FirstBit(r, i) = g[i]
<1> DEFINE f == CHOOSE s : IsSum(r, s)
           T == {n \in 1..(Len(r.fields) + 1) : f[n] # g[n]}
<1>1. IsSum(r, f)
  BY Zenon
<1>2. \A i : FirstBit(r, i) = f[i]
  BY Zenon DEF FirstBit, IsSum
<1> HIDE DEF f
<1>3. \A n \in 1..(Len(r.fields) + 1) :
         /\ n = 1 => f[n] = 0 /\ g[n] = 0
         /\ n # 1 => /\ f[n] = f[n - 1] + r.fields[n - 1].size * r.fields[n - 1].count
                     /\ g[n] = g[n - 1] + r.fields[n - 1].size * r.fields[n - 1].count
  BY <1>1 DEF IsSum
<1>4. T = {}
  <2> SUFFICES ASSUME T # {} PROVE FALSE
    OBVIOUS
  <2>1. T \subseteq Nat
    OBVIOUS
  <2>2. PICK n \in T : \A m \in T : ~(<<m, n>> \in OpToRel(<, Nat))
    <3> HIDE DEF T
    <3> QED BY <2>1, WFMin, NatLessThanWellFounded
  <2>3. \A m \in T : ~(m < n)
    BY <2>1, <2>2 DEF OpToRel
  <2>4. n \in 1..(Len(r.fields) + 1) /\ f[n] # g[n]
    OBVIOUS
  <2>5. n # 1
    BY <1>3, <2>4
  <2>6. n - 1 \in 1..(Len(r.fields) + 1) /\ n - 1 < n
    BY <2>4, <2>5
  <2>7. f[n - 1] = g[n - 1]
    BY <2>3, <2>6
  <2> QED BY <1>3, <2>4, <2>5, <2>7
<1> QED BY <1>2, <1>4

\* The number of bits in field i of a report.
BitsOf(r, i) == r.fields[i].size * r.fields[i].count

\* The sequence g, of length m, adds up the n fields of a report.
Sums(r, n, m, g) ==
    /\ n \in Nat /\ Len(r.fields) = n /\ m = n + 1
    /\ g \in [1..m -> Int] /\ g[1] = 0
    /\ \A i \in 1..n : g[i + 1] = g[i] + BitsOf(r, i)

\* A report is as long as a sequence says that adds up its fields.
LEMMA AddsUp ==
  ASSUME NEW r, NEW n, NEW m, NEW g, Sums(r, n, m, g)
  PROVE  Length(r) = g[m]
<1>0. /\ n \in Nat /\ Len(r.fields) = n /\ m = n + 1
      /\ g \in [1..(n + 1) -> Int] /\ g[1] = 0
      /\ \A i \in 1..n : g[i + 1] = g[i] + BitsOf(r, i)
  BY DEF Sums
<1>1. \A i \in 1..(n + 1) : i # 1 => i - 1 \in 1..n /\ (i - 1) + 1 = i
  BY <1>0
<1>2. \A i \in 1..(n + 1) : i # 1 => g[i] = g[i - 1] + BitsOf(r, i - 1)
  BY <1>0, <1>1
<1>3. g = [i \in 1..(n + 1) |->
             IF i = 1 THEN 0 ELSE g[i - 1] + r.fields[i - 1].size * r.fields[i - 1].count]
  BY <1>0, <1>2 DEF BitsOf
<1>4. IsSum(r, g)
  BY <1>0, <1>3 DEF IsSum
<1>5. \A i \in 1..(n + 1) : FirstBit(r, i) = g[i]
  BY <1>0, <1>4, SumIsFirstBit
<1> QED BY <1>0, <1>5 DEF Length

\* The size and the limits of a field, and those that leave it room.
Within(f, size, lo, hi) ==
    f.size = size /\ f.lo \in Int /\ f.hi \in Int /\ lo <= f.lo /\ f.hi <= hi

LEMMA Room ==
    ASSUME NEW f
    PROVE  /\ Within(f, 1, 0, 1) => Fits(f)
           /\ Within(f, 8, -128, 127) => Fits(f)
           /\ Within(f, 16, 0, 65535) => Fits(f)
           /\ Within(f, 16, -32768, 32767) => Fits(f)
<1>1. ASSUME Within(f, 1, 0, 1)
      PROVE  Fits(f)
  <2>1. f.size = 1 /\ f.lo \in Int /\ f.lo >= 0 /\ f.hi < 2
    BY <1>1, SMT DEF Within
  <2>2. 2 ^ 1 = 2
    OBVIOUS
  <2>3. 2 ^ f.size = 2
    BY <2>1, <2>2, SMT
  <2>4. f.hi < 2 ^ f.size
    BY <2>1, <2>3, SMT
  <2> QED BY <2>1, <2>4, SMT DEF Fits
<1>2. ASSUME Within(f, 8, -128, 127)
      PROVE  Fits(f)
  <2>1. f.size = 8 /\ f.lo \in Int /\ f.lo >= -128 /\ f.hi \in Int /\ f.hi < 128
    BY <1>2, SMT DEF Within
  <2>2. 2 ^ 8 = 256 /\ 2 ^ (8 - 1) = 128
    OBVIOUS
  <2>3. 2 ^ f.size = 256 /\ 2 ^ (f.size - 1) = 128
    BY <2>1, <2>2, SMT
  <2>4. f.hi < 2 ^ f.size /\ f.hi < 2 ^ (f.size - 1) /\ f.lo >= -(2 ^ (f.size - 1))
    BY <2>1, <2>3, SMT
  <2> QED BY <2>1, <2>4, SMT DEF Fits
<1>3. ASSUME Within(f, 16, 0, 65535)
      PROVE  Fits(f)
  <2>1. f.size = 16 /\ f.lo \in Int /\ f.lo >= 0 /\ f.hi < 65536
    BY <1>3, SMT DEF Within
  <2>2. 2 ^ 16 = 65536
    OBVIOUS
  <2>3. 2 ^ f.size = 65536
    BY <2>1, <2>2, SMT
  <2>4. f.hi < 2 ^ f.size
    BY <2>1, <2>3, SMT
  <2> QED BY <2>1, <2>4, SMT DEF Fits
<1>4. ASSUME Within(f, 16, -32768, 32767)
      PROVE  Fits(f)
  <2>1. f.size = 16 /\ f.lo \in Int /\ f.lo >= -32768 /\ f.hi \in Int /\ f.hi < 32768
    BY <1>4, SMT DEF Within
  <2>2. 2 ^ 16 = 65536 /\ 2 ^ (16 - 1) = 32768
    OBVIOUS
  <2>3. 2 ^ f.size = 65536 /\ 2 ^ (f.size - 1) = 32768
    BY <2>1, <2>2, SMT
  <2>4. f.hi < 2 ^ f.size /\ f.hi < 2 ^ (f.size - 1) /\ f.lo >= -(2 ^ (f.size - 1))
    BY <2>1, <2>3, SMT
  <2> QED BY <2>1, <2>4, SMT DEF Fits
<1> QED BY <1>1, <1>2, <1>3, <1>4

\* A field with room for its limits; a consumer control claims no more usages
\* than there are.
Word == {n \in Nat : n < 65536}
Usage == {n \in Nat : n < 12288}
Good(f) == Fits(f) /\ (f.use = "consumer" => f.hi < 12288)

LEMMA GoodBits ==
    ASSUME NEW use \in {"pad", "button", "pen", "inrange", "key"}, NEW n
    PROVE  Good(Bits(use, n))
<1>1. Within(Bits(use, n), 1, 0, 1) /\ Bits(use, n).use # "consumer"
  BY DEF Within, Bits, Field
<1> QED BY <1>1, Room DEF Good

LEMMA GoodAxis ==
    ASSUME NEW use \in {"x", "y", "pressure"}, NEW hi \in Word
    PROVE  Good(Axis(use, 16, hi))
<1>1. Within(Axis(use, 16, hi), 16, 0, 65535) /\ Axis(use, 16, hi).use # "consumer"
  <2> DEFINE f == Axis(use, 16, hi)
  <2>1. f.size = 16 /\ f.lo = 0 /\ f.hi = hi /\ f.use = use
    BY DEF Axis, Field
  <2>2. hi \in Int /\ hi <= 65535
    BY DEF Word
  <2> HIDE DEF f
  <2>3. Within(f, 16, 0, 65535) /\ f.use # "consumer"
    BY <2>1, <2>2, SMT DEF Within
  <2> QED BY <2>3 DEF f
<1> QED BY <1>1, Room, SMT DEF Good

LEMMA GoodOthers ==
    /\ Good(Notch("wheel", 8, 1)) /\ Good(Field("wheel", 8, 1, -127, 127))
    /\ Good(Field("mode", 8, 7, -128, 127)) /\ Good(Field("mode", 8, 7, -127, 127))
    /\ Good(Field("move", 16, 2, -32767, 32767))
    /\ Good(Field("pressure", 16, 1, 5, 2047))
<1>1. Good(Notch("wheel", 8, 1)) /\ Good(Field("wheel", 8, 1, -127, 127))
  <2>1. /\ Within(Notch("wheel", 8, 1), 8, -128, 127) /\ Notch("wheel", 8, 1).use # "consumer"
        /\ Within(Field("wheel", 8, 1, -127, 127), 8, -128, 127)
        /\ Field("wheel", 8, 1, -127, 127).use # "consumer"
    BY SMT DEF Within, Notch, Field
  <2> QED BY <2>1, Room, SMT DEF Good
<1>2. Good(Field("mode", 8, 7, -128, 127)) /\ Good(Field("mode", 8, 7, -127, 127))
  <2>1. /\ Within(Field("mode", 8, 7, -128, 127), 8, -128, 127)
        /\ Field("mode", 8, 7, -128, 127).use # "consumer"
        /\ Within(Field("mode", 8, 7, -127, 127), 8, -128, 127)
        /\ Field("mode", 8, 7, -127, 127).use # "consumer"
    BY SMT DEF Within, Field
  <2> QED BY <2>1, Room, SMT DEF Good
<1>3. Good(Field("move", 16, 2, -32767, 32767))
  <2>1. /\ Within(Field("move", 16, 2, -32767, 32767), 16, -32768, 32767)
        /\ Field("move", 16, 2, -32767, 32767).use # "consumer"
    BY SMT DEF Within, Field
  <2> QED BY <2>1, Room, SMT DEF Good
<1>4. Good(Field("pressure", 16, 1, 5, 2047))
  <2>1. /\ Within(Field("pressure", 16, 1, 5, 2047), 16, 0, 65535)
        /\ Field("pressure", 16, 1, 5, 2047).use # "consumer"
    BY SMT DEF Within, Field
  <2> QED BY <2>1, Room, SMT DEF Good
<1> QED BY <1>1, <1>2, <1>3, <1>4

LEMMA GoodConsumer ==
    ASSUME NEW usage \in Usage
    PROVE  Good(ConsumerField(usage))
<1>1. Within(ConsumerField(usage), 16, 0, 65535) /\ ConsumerField(usage).hi < 12288
  BY SMT DEF Within, ConsumerField, Field, Usage
<1> QED BY <1>1, Room, SMT DEF Good

\* The width of the fields that the descriptors are made of.
LEMMA Widths ==
    /\ \A use, n : Bits(use, n).size = 1 /\ Bits(use, n).count = n
    /\ \A n : Pad(n).size = 1 /\ Pad(n).count = n
    /\ \A use, size, hi : Axis(use, size, hi).size = size /\ Axis(use, size, hi).count = 1
    /\ \A use, size, n : Notch(use, size, n).size = size /\ Notch(use, size, n).count = n
    /\ \A use, size, n, lo, hi : /\ Field(use, size, n, lo, hi).size = size
                                 /\ Field(use, size, n, lo, hi).count = n
  BY DEF Bits, Pad, Axis, Notch, Field

\* A report of whole bytes and good fields.
Fine(r) == Length(r) % 8 = 0 /\ \A i \in DOMAIN r.fields : Good(r.fields[i])

\* The two enabling reports.
LEMMA EnablingFine ==
    ASSUME NEW r, r = Enabling
    PROVE  Fine(r)
<1>1. /\ Len(r.fields) = 1 /\ DOMAIN r.fields = 1..1
      /\ r.fields[1] = Field("mode", 8, 7, -128, 127)
  BY DEF Enabling, Feature
<1>2. \A i \in 1..1 : Good(r.fields[i])
  <2>1. /\ Good(Field("mode", 8, 7, -128, 127))
    BY GoodOthers
  <2> QED BY <1>1, <2>1
<1> DEFINE g == <<0, 56>>
<1>3. /\ BitsOf(r, 1) = 56
  BY <1>1, Widths DEF BitsOf
<1>4. Sums(r, 1, 2, g)
  <2>1. \A i \in 1..1 : g[i + 1] = g[i] + BitsOf(r, i)
    BY <1>3
  <2>2. g \in [1..2 -> Int] /\ g[1] = 0 /\ 1 \in Nat /\ 2 = 1 + 1
    OBVIOUS
  <2> HIDE DEF g
  <2> QED BY <1>1, <2>1, <2>2 DEF Sums
<1>5. g[2] % 8 = 0
  OBVIOUS
<1> HIDE DEF g
<1>6. Length(r) % 8 = 0
  BY <1>4, <1>5, AddsUp
<1> QED BY <1>1, <1>2, <1>6 DEF Fine

LEMMA EnablingM912Fine ==
    ASSUME NEW r, r = Feature(5, <<Field("mode", 8, 7, -127, 127)>>)
    PROVE  Fine(r)
<1>1. /\ Len(r.fields) = 1 /\ DOMAIN r.fields = 1..1
      /\ r.fields[1] = Field("mode", 8, 7, -127, 127)
  BY DEF Feature
<1>2. \A i \in 1..1 : Good(r.fields[i])
  <2>1. /\ Good(Field("mode", 8, 7, -127, 127))
    BY GoodOthers
  <2> QED BY <1>1, <2>1
<1> DEFINE g == <<0, 56>>
<1>3. /\ BitsOf(r, 1) = 56
  BY <1>1, Widths DEF BitsOf
<1>4. Sums(r, 1, 2, g)
  <2>1. \A i \in 1..1 : g[i + 1] = g[i] + BitsOf(r, i)
    BY <1>3
  <2>2. g \in [1..2 -> Int] /\ g[1] = 0 /\ 1 \in Nat /\ 2 = 1 + 1
    OBVIOUS
  <2> HIDE DEF g
  <2> QED BY <1>1, <2>1, <2>2 DEF Sums
<1>5. g[2] % 8 = 0
  OBVIOUS
<1> HIDE DEF g
<1>6. Length(r) % 8 = 0
  BY <1>4, <1>5, AddsUp
<1> QED BY <1>1, <1>2, <1>6 DEF Fine

\* The pens of hid-kye.c.
LEMMA KyePenFine ==
    ASSUME NEW x \in Word, NEW y \in Word, NEW p \in Word, NEW r, r = KyePen(x, y, p)
    PROVE  Fine(r)
<1>1. /\ Len(r.fields) = 7 /\ DOMAIN r.fields = 1..7
      /\ r.fields[1] = Bits("pen", 3)
      /\ r.fields[2] = Pad(4)
      /\ r.fields[3] = Bits("inrange", 1)
      /\ r.fields[4] = Pad(0)
      /\ r.fields[5] = Axis("x", 16, x)
      /\ r.fields[6] = Axis("y", 16, y)
      /\ r.fields[7] = Axis("pressure", 16, p)
  BY DEF KyePen, RangedPen, Input
<1>2. \A i \in 1..7 : Good(r.fields[i])
  <2>1. /\ Good(Bits("pen", 3))
        /\ Good(Pad(4))
        /\ Good(Bits("inrange", 1))
        /\ Good(Pad(0))
    BY GoodBits DEF Pad
  <2>2. /\ Good(Axis("x", 16, x))
        /\ Good(Axis("y", 16, y))
        /\ Good(Axis("pressure", 16, p))
    BY GoodAxis
  <2> QED BY <1>1, <2>1, <2>2
<1> DEFINE g == <<0, 3, 7, 8, 8, 24, 40, 56>>
<1>3. /\ BitsOf(r, 1) = 3
      /\ BitsOf(r, 2) = 4
      /\ BitsOf(r, 3) = 1
      /\ BitsOf(r, 4) = 0
      /\ BitsOf(r, 5) = 16
      /\ BitsOf(r, 6) = 16
      /\ BitsOf(r, 7) = 16
  BY <1>1, Widths DEF BitsOf
<1>4. Sums(r, 7, 8, g)
  <2>1. \A i \in 1..7 : g[i + 1] = g[i] + BitsOf(r, i)
    BY <1>3
  <2>2. g \in [1..8 -> Int] /\ g[1] = 0 /\ 7 \in Nat /\ 8 = 7 + 1
    OBVIOUS
  <2> HIDE DEF g
  <2> QED BY <1>1, <2>1, <2>2 DEF Sums
<1>5. g[8] % 8 = 0
  OBVIOUS
<1> HIDE DEF g
<1>6. Length(r) % 8 = 0
  BY <1>4, <1>5, AddsUp
<1> QED BY <1>1, <1>2, <1>6 DEF Fine

\* Their mice.
LEMMA KyePuckFine ==
    ASSUME NEW x \in Word, NEW y \in Word, NEW r, r = KyePuck(x, y)
    PROVE  Fine(r)
<1>1. /\ Len(r.fields) = 6 /\ DOMAIN r.fields = 1..6
      /\ r.fields[1] = Bits("button", 3)
      /\ r.fields[2] = Pad(5)
      /\ r.fields[3] = Axis("x", 16, x)
      /\ r.fields[4] = Axis("y", 16, y)
      /\ r.fields[5] = Notch("wheel", 8, 1)
      /\ r.fields[6] = Pad(8)
  BY DEF KyePuck, Input
<1>2. \A i \in 1..6 : Good(r.fields[i])
  <2>1. /\ Good(Bits("button", 3))
        /\ Good(Pad(5))
        /\ Good(Pad(8))
    BY GoodBits DEF Pad
  <2>2. /\ Good(Axis("x", 16, x))
        /\ Good(Axis("y", 16, y))
    BY GoodAxis
  <2>3. /\ Good(Notch("wheel", 8, 1))
    BY GoodOthers
  <2> QED BY <1>1, <2>1, <2>2, <2>3
<1> DEFINE g == <<0, 3, 8, 24, 40, 48, 56>>
<1>3. /\ BitsOf(r, 1) = 3
      /\ BitsOf(r, 2) = 5
      /\ BitsOf(r, 3) = 16
      /\ BitsOf(r, 4) = 16
      /\ BitsOf(r, 5) = 8
      /\ BitsOf(r, 6) = 8
  BY <1>1, Widths DEF BitsOf
<1>4. Sums(r, 6, 7, g)
  <2>1. \A i \in 1..6 : g[i + 1] = g[i] + BitsOf(r, i)
    BY <1>3
  <2>2. g \in [1..7 -> Int] /\ g[1] = 0 /\ 6 \in Nat /\ 7 = 6 + 1
    OBVIOUS
  <2> HIDE DEF g
  <2> QED BY <1>1, <2>1, <2>2 DEF Sums
<1>5. g[7] % 8 = 0
  OBVIOUS
<1> HIDE DEF g
<1>6. Length(r) % 8 = 0
  BY <1>4, <1>5, AddsUp
<1> QED BY <1>1, <1>2, <1>6 DEF Fine

LEMMA M912PuckFine ==
    ASSUME NEW r, r = Input(17, <<Bits("button", 3), Pad(4), Bits("inrange", 1), Axis("x", 16, 61440),
                             Axis("y", 16, 46080), Notch("wheel", 8, 1)>>)
    PROVE  Fine(r)
<1>1. /\ Len(r.fields) = 6 /\ DOMAIN r.fields = 1..6
      /\ r.fields[1] = Bits("button", 3)
      /\ r.fields[2] = Pad(4)
      /\ r.fields[3] = Bits("inrange", 1)
      /\ r.fields[4] = Axis("x", 16, 61440)
      /\ r.fields[5] = Axis("y", 16, 46080)
      /\ r.fields[6] = Notch("wheel", 8, 1)
  BY DEF Input
<1>2. \A i \in 1..6 : Good(r.fields[i])
  <2>1. /\ Good(Bits("button", 3))
        /\ Good(Pad(4))
        /\ Good(Bits("inrange", 1))
    BY GoodBits DEF Pad
  <2>2. {46080, 61440} \subseteq Word
    BY DEF Word
  <2>3. /\ Good(Axis("x", 16, 61440))
        /\ Good(Axis("y", 16, 46080))
    BY <2>2, GoodAxis
  <2>4. /\ Good(Notch("wheel", 8, 1))
    BY GoodOthers
  <2> QED BY <1>1, <2>1, <2>2, <2>3, <2>4
<1> DEFINE g == <<0, 3, 7, 8, 24, 40, 48>>
<1>3. /\ BitsOf(r, 1) = 3
      /\ BitsOf(r, 2) = 4
      /\ BitsOf(r, 3) = 1
      /\ BitsOf(r, 4) = 16
      /\ BitsOf(r, 5) = 16
      /\ BitsOf(r, 6) = 8
  BY <1>1, Widths DEF BitsOf
<1>4. Sums(r, 6, 7, g)
  <2>1. \A i \in 1..6 : g[i + 1] = g[i] + BitsOf(r, i)
    BY <1>3
  <2>2. g \in [1..7 -> Int] /\ g[1] = 0 /\ 6 \in Nat /\ 7 = 6 + 1
    OBVIOUS
  <2> HIDE DEF g
  <2> QED BY <1>1, <2>1, <2>2 DEF Sums
<1>5. g[7] % 8 = 0
  OBVIOUS
<1> HIDE DEF g
<1>6. Length(r) % 8 = 0
  BY <1>4, <1>5, AddsUp
<1> QED BY <1>1, <1>2, <1>6 DEF Fine

\* Their keys.
LEMMA KyeKeysFine ==
    ASSUME NEW n \in {4, 8}, NEW r, r = KyeKeys(n, 56 - n)
    PROVE  Fine(r)
<1>1. /\ Len(r.fields) = 2 /\ DOMAIN r.fields = 1..2
      /\ r.fields[1] = Bits("key", n)
      /\ r.fields[2] = Pad(56 - n)
  BY DEF KyeKeys, Input
<1>2. \A i \in 1..2 : Good(r.fields[i])
  <2>1. /\ Good(Bits("key", n))
        /\ Good(Pad(56 - n))
    BY GoodBits DEF Pad
  <2> QED BY <1>1, <2>1
<1> DEFINE g == <<0, n, 56>>
<1>3. /\ BitsOf(r, 1) = n
      /\ BitsOf(r, 2) = 56 - n
  BY <1>1, Widths DEF BitsOf
<1>4. Sums(r, 2, 3, g)
  <2>1. \A i \in 1..2 : g[i + 1] = g[i] + BitsOf(r, i)
    BY <1>3
  <2>2. g \in [1..3 -> Int] /\ g[1] = 0 /\ 2 \in Nat /\ 3 = 2 + 1
    OBVIOUS
  <2> HIDE DEF g
  <2> QED BY <1>1, <2>1, <2>2 DEF Sums
<1>5. g[3] % 8 = 0
  OBVIOUS
<1> HIDE DEF g
<1>6. Length(r) % 8 = 0
  BY <1>4, <1>5, AddsUp
<1> QED BY <1>1, <1>2, <1>6 DEF Fine

\* The reports of hid-polostar.c.
LEMMA Pt1001MouseFine ==
    ASSUME NEW r, r = Input(1, <<Bits("button", 5), Pad(3), Field("move", 16, 2, -32767, 32767),
                            Field("wheel", 8, 1, -127, 127)>>)
    PROVE  Fine(r)
<1>1. /\ Len(r.fields) = 4 /\ DOMAIN r.fields = 1..4
      /\ r.fields[1] = Bits("button", 5)
      /\ r.fields[2] = Pad(3)
      /\ r.fields[3] = Field("move", 16, 2, -32767, 32767)
      /\ r.fields[4] = Field("wheel", 8, 1, -127, 127)
  BY DEF Input
<1>2. \A i \in 1..4 : Good(r.fields[i])
  <2>1. /\ Good(Bits("button", 5))
        /\ Good(Pad(3))
    BY GoodBits DEF Pad
  <2>2. /\ Good(Field("move", 16, 2, -32767, 32767))
        /\ Good(Field("wheel", 8, 1, -127, 127))
    BY GoodOthers
  <2> QED BY <1>1, <2>1, <2>2
<1> DEFINE g == <<0, 5, 8, 40, 48>>
<1>3. /\ BitsOf(r, 1) = 5
      /\ BitsOf(r, 2) = 3
      /\ BitsOf(r, 3) = 32
      /\ BitsOf(r, 4) = 8
  BY <1>1, Widths DEF BitsOf
<1>4. Sums(r, 4, 5, g)
  <2>1. \A i \in 1..4 : g[i + 1] = g[i] + BitsOf(r, i)
    BY <1>3
  <2>2. g \in [1..5 -> Int] /\ g[1] = 0 /\ 4 \in Nat /\ 5 = 4 + 1
    OBVIOUS
  <2> HIDE DEF g
  <2> QED BY <1>1, <2>1, <2>2 DEF Sums
<1>5. g[5] % 8 = 0
  OBVIOUS
<1> HIDE DEF g
<1>6. Length(r) % 8 = 0
  BY <1>4, <1>5, AddsUp
<1> QED BY <1>1, <1>2, <1>6 DEF Fine

LEMMA Pt1001KeysFine ==
    ASSUME NEW r, r = Input(5, <<Pad(8), Bits("key", 18), Pad(6)>>)
    PROVE  Fine(r)
<1>1. /\ Len(r.fields) = 3 /\ DOMAIN r.fields = 1..3
      /\ r.fields[1] = Pad(8)
      /\ r.fields[2] = Bits("key", 18)
      /\ r.fields[3] = Pad(6)
  BY DEF Input
<1>2. \A i \in 1..3 : Good(r.fields[i])
  <2>1. /\ Good(Pad(8))
        /\ Good(Bits("key", 18))
        /\ Good(Pad(6))
    BY GoodBits DEF Pad
  <2> QED BY <1>1, <2>1
<1> DEFINE g == <<0, 8, 26, 32>>
<1>3. /\ BitsOf(r, 1) = 8
      /\ BitsOf(r, 2) = 18
      /\ BitsOf(r, 3) = 6
  BY <1>1, Widths DEF BitsOf
<1>4. Sums(r, 3, 4, g)
  <2>1. \A i \in 1..3 : g[i + 1] = g[i] + BitsOf(r, i)
    BY <1>3
  <2>2. g \in [1..4 -> Int] /\ g[1] = 0 /\ 3 \in Nat /\ 4 = 3 + 1
    OBVIOUS
  <2> HIDE DEF g
  <2> QED BY <1>1, <2>1, <2>2 DEF Sums
<1>5. g[4] % 8 = 0
  OBVIOUS
<1> HIDE DEF g
<1>6. Length(r) % 8 = 0
  BY <1>4, <1>5, AddsUp
<1> QED BY <1>1, <1>2, <1>6 DEF Fine

LEMMA Pt1001PenFine ==
    ASSUME NEW r, r = Input(9, <<Bits("pen", 3), Pad(5), Axis("x", 16, 4096), Axis("y", 16, 4096),
                            Axis("pressure", 16, 1023)>>)
    PROVE  Fine(r)
<1>1. /\ Len(r.fields) = 5 /\ DOMAIN r.fields = 1..5
      /\ r.fields[1] = Bits("pen", 3)
      /\ r.fields[2] = Pad(5)
      /\ r.fields[3] = Axis("x", 16, 4096)
      /\ r.fields[4] = Axis("y", 16, 4096)
      /\ r.fields[5] = Axis("pressure", 16, 1023)
  BY DEF Input
<1>2. \A i \in 1..5 : Good(r.fields[i])
  <2>1. /\ Good(Bits("pen", 3))
        /\ Good(Pad(5))
    BY GoodBits DEF Pad
  <2>2. {1023, 4096} \subseteq Word
    BY DEF Word
  <2>3. /\ Good(Axis("x", 16, 4096))
        /\ Good(Axis("y", 16, 4096))
        /\ Good(Axis("pressure", 16, 1023))
    BY <2>2, GoodAxis
  <2> QED BY <1>1, <2>1, <2>2, <2>3
<1> DEFINE g == <<0, 3, 8, 24, 40, 56>>
<1>3. /\ BitsOf(r, 1) = 3
      /\ BitsOf(r, 2) = 5
      /\ BitsOf(r, 3) = 16
      /\ BitsOf(r, 4) = 16
      /\ BitsOf(r, 5) = 16
  BY <1>1, Widths DEF BitsOf
<1>4. Sums(r, 5, 6, g)
  <2>1. \A i \in 1..5 : g[i + 1] = g[i] + BitsOf(r, i)
    BY <1>3
  <2>2. g \in [1..6 -> Int] /\ g[1] = 0 /\ 5 \in Nat /\ 6 = 5 + 1
    OBVIOUS
  <2> HIDE DEF g
  <2> QED BY <1>1, <2>1, <2>2 DEF Sums
<1>5. g[6] % 8 = 0
  OBVIOUS
<1> HIDE DEF g
<1>6. Length(r) % 8 = 0
  BY <1>4, <1>5, AddsUp
<1> QED BY <1>1, <1>2, <1>6 DEF Fine

\* The pen of hid-viewsonic.c.
LEMMA Pd1011Fine ==
    ASSUME NEW r, r = Input(2, <<Axis("x", 16, 43392), Axis("y", 16, 27120), Pad(1), Bits("pen", 2),
                            Pad(5), Field("pressure", 16, 1, 5, 2047), Pad(16)>>)
    PROVE  Fine(r)
<1>1. /\ Len(r.fields) = 7 /\ DOMAIN r.fields = 1..7
      /\ r.fields[1] = Axis("x", 16, 43392)
      /\ r.fields[2] = Axis("y", 16, 27120)
      /\ r.fields[3] = Pad(1)
      /\ r.fields[4] = Bits("pen", 2)
      /\ r.fields[5] = Pad(5)
      /\ r.fields[6] = Field("pressure", 16, 1, 5, 2047)
      /\ r.fields[7] = Pad(16)
  BY DEF Input
<1>2. \A i \in 1..7 : Good(r.fields[i])
  <2>1. /\ Good(Pad(1))
        /\ Good(Bits("pen", 2))
        /\ Good(Pad(5))
        /\ Good(Pad(16))
    BY GoodBits DEF Pad
  <2>2. {27120, 43392} \subseteq Word
    BY DEF Word
  <2>3. /\ Good(Axis("x", 16, 43392))
        /\ Good(Axis("y", 16, 27120))
    BY <2>2, GoodAxis
  <2>4. /\ Good(Field("pressure", 16, 1, 5, 2047))
    BY GoodOthers
  <2> QED BY <1>1, <2>1, <2>2, <2>3, <2>4
<1> DEFINE g == <<0, 16, 32, 33, 35, 40, 56, 72>>
<1>3. /\ BitsOf(r, 1) = 16
      /\ BitsOf(r, 2) = 16
      /\ BitsOf(r, 3) = 1
      /\ BitsOf(r, 4) = 2
      /\ BitsOf(r, 5) = 5
      /\ BitsOf(r, 6) = 16
      /\ BitsOf(r, 7) = 16
  BY <1>1, Widths DEF BitsOf
<1>4. Sums(r, 7, 8, g)
  <2>1. \A i \in 1..7 : g[i + 1] = g[i] + BitsOf(r, i)
    BY <1>3
  <2>2. g \in [1..8 -> Int] /\ g[1] = 0 /\ 7 \in Nat /\ 8 = 7 + 1
    OBVIOUS
  <2> HIDE DEF g
  <2> QED BY <1>1, <2>1, <2>2 DEF Sums
<1>5. g[8] % 8 = 0
  OBVIOUS
<1> HIDE DEF g
<1>6. Length(r) % 8 = 0
  BY <1>4, <1>5, AddsUp
<1> QED BY <1>1, <1>2, <1>6 DEF Fine

\* The consumer control of the gaming devices, and the mouse buttons.
LEMMA GamingFine ==
    ASSUME NEW usage \in Usage, NEW r, r = Input(3, <<ConsumerField(usage)>>)
    PROVE  Fine(r)
<1>1. /\ Len(r.fields) = 1 /\ DOMAIN r.fields = 1..1
      /\ r.fields[1] = ConsumerField(usage)
  BY DEF Input
<1>2. \A i \in 1..1 : Good(r.fields[i])
  <2>1. /\ Good(ConsumerField(usage))
    BY GoodConsumer
  <2> QED BY <1>1, <2>1
<1> DEFINE g == <<0, 16>>
<1>3. /\ BitsOf(r, 1) = 16
  BY <1>1, Widths DEF BitsOf, ConsumerField
<1>4. Sums(r, 1, 2, g)
  <2>1. \A i \in 1..1 : g[i + 1] = g[i] + BitsOf(r, i)
    BY <1>3
  <2>2. g \in [1..2 -> Int] /\ g[1] = 0 /\ 1 \in Nat /\ 2 = 1 + 1
    OBVIOUS
  <2> HIDE DEF g
  <2> QED BY <1>1, <2>1, <2>2 DEF Sums
<1>5. g[2] % 8 = 0
  OBVIOUS
<1> HIDE DEF g
<1>6. Length(r) % 8 = 0
  BY <1>4, <1>5, AddsUp
<1> QED BY <1>1, <1>2, <1>6 DEF Fine

LEMMA ErgoFine ==
    ASSUME NEW r, r = Input(0, <<Bits("button", 8)>>)
    PROVE  Fine(r)
<1>1. /\ Len(r.fields) = 1 /\ DOMAIN r.fields = 1..1
      /\ r.fields[1] = Bits("button", 8)
  BY DEF Input
<1>2. \A i \in 1..1 : Good(r.fields[i])
  <2>1. /\ Good(Bits("button", 8))
    BY GoodBits
  <2> QED BY <1>1, <2>1
<1> DEFINE g == <<0, 8>>
<1>3. /\ BitsOf(r, 1) = 8
  BY <1>1, Widths DEF BitsOf
<1>4. Sums(r, 1, 2, g)
  <2>1. \A i \in 1..1 : g[i + 1] = g[i] + BitsOf(r, i)
    BY <1>3
  <2>2. g \in [1..2 -> Int] /\ g[1] = 0 /\ 1 \in Nat /\ 2 = 1 + 1
    OBVIOUS
  <2> HIDE DEF g
  <2> QED BY <1>1, <2>1, <2>2 DEF Sums
<1>5. g[2] % 8 = 0
  OBVIOUS
<1> HIDE DEF g
<1>6. Length(r) % 8 = 0
  BY <1>4, <1>5, AddsUp
<1> QED BY <1>1, <1>2, <1>6 DEF Fine

\* A set of reports whose members are fine and have an ID each.
Sound(T) == \A r \in T : Fine(r) /\ \A r2 \in T : r2.id = r.id => r2 = r

\* The IDs of what hid-kye.c's tables are made of.
LEMMA KyeIDs ==
    /\ Enabling.id = 5
    /\ \A x, y, p : KyePen(x, y, p).id = 16
    /\ \A x, y : KyePuck(x, y).id = 17
    /\ \A n, padding : KyeKeys(n, padding).id = 18
    /\ \A id, fields : Input(id, fields).id = id /\ Feature(id, fields).id = id
  BY SMT DEF Enabling, Feature, KyePen, RangedPen, KyePuck, KyeKeys, Input

LEMMA EasyPenI405XSound == Sound(EasyPenI405X)
<1> DEFINE mode == Enabling
           pen == KyePen(14080, 10240, 1023)
<1>1. {1023, 10240, 14080} \subseteq Word
  BY DEF Word
<1>2. /\ Fine(mode) /\ mode.id = 5
      /\ Fine(pen) /\ pen.id = 16
  <2>1. Fine(mode) /\ mode.id = 5
    BY <1>1, EnablingFine, KyeIDs
  <2>2. Fine(pen) /\ pen.id = 16
    BY <1>1, KyePenFine, KyeIDs
  <2> HIDE DEF mode, pen
  <2> QED BY <2>1, <2>2
<1>3. EasyPenI405X = {mode, pen}
  BY SMT DEF EasyPenI405X
<1> HIDE DEF mode, pen
<1> QED BY <1>2, <1>3 DEF Sound

LEMMA MousePenI608XSound == Sound(MousePenI608X)
<1> DEFINE mode == Enabling
           pen == KyePen(20480, 15360, 1023)
           puck == KyePuck(20480, 15360)
<1>1. {1023, 15360, 20480} \subseteq Word
  BY DEF Word
<1>2. /\ Fine(mode) /\ mode.id = 5
      /\ Fine(pen) /\ pen.id = 16
      /\ Fine(puck) /\ puck.id = 17
  <2>1. Fine(mode) /\ mode.id = 5
    BY <1>1, EnablingFine, KyeIDs
  <2>2. Fine(pen) /\ pen.id = 16
    BY <1>1, KyePenFine, KyeIDs
  <2>3. Fine(puck) /\ puck.id = 17
    BY <1>1, KyePuckFine, KyeIDs
  <2> HIDE DEF mode, pen, puck
  <2> QED BY <2>1, <2>2, <2>3
<1>3. MousePenI608X = {mode, pen, puck}
  BY SMT DEF MousePenI608X
<1> HIDE DEF mode, pen, puck
<1> QED BY <1>2, <1>3 DEF Sound

LEMMA MousePenI608XV2Sound == Sound(MousePenI608XV2)
<1> DEFINE mode == Enabling
           pen == KyePen(40960, 30720, 2047)
           puck == KyePuck(40960, 30720)
<1>1. {2047, 30720, 40960} \subseteq Word
  BY DEF Word
<1>2. /\ Fine(mode) /\ mode.id = 5
      /\ Fine(pen) /\ pen.id = 16
      /\ Fine(puck) /\ puck.id = 17
  <2>1. Fine(mode) /\ mode.id = 5
    BY <1>1, EnablingFine, KyeIDs
  <2>2. Fine(pen) /\ pen.id = 16
    BY <1>1, KyePenFine, KyeIDs
  <2>3. Fine(puck) /\ puck.id = 17
    BY <1>1, KyePuckFine, KyeIDs
  <2> HIDE DEF mode, pen, puck
  <2> QED BY <2>1, <2>2, <2>3
<1>3. MousePenI608XV2 = {mode, pen, puck}
  BY SMT DEF MousePenI608XV2
<1> HIDE DEF mode, pen, puck
<1> QED BY <1>2, <1>3 DEF Sound

LEMMA EasyPenM610XSound == Sound(EasyPenM610X)
<1> DEFINE mode == Enabling
           pen == KyePen(40960, 25600, 1023)
           keys == KyeKeys(4, 52)
<1>1. {1023, 25600, 40960} \subseteq Word
  BY DEF Word
<1>2. /\ Fine(mode) /\ mode.id = 5
      /\ Fine(pen) /\ pen.id = 16
      /\ Fine(keys) /\ keys.id = 18
  <2>1. Fine(mode) /\ mode.id = 5
    BY <1>1, EnablingFine, KyeIDs
  <2>2. Fine(pen) /\ pen.id = 16
    BY <1>1, KyePenFine, KyeIDs
  <2>3. Fine(keys) /\ keys.id = 18
    BY <1>1, KyeKeysFine, KyeIDs
  <2> HIDE DEF mode, pen, keys
  <2> QED BY <2>1, <2>2, <2>3
<1>3. EasyPenM610X = {mode, pen, keys}
  BY SMT DEF EasyPenM610X
<1> HIDE DEF mode, pen, keys
<1> QED BY <1>2, <1>3 DEF Sound

LEMMA PenSketchM912Sound == Sound(PenSketchM912)
<1> DEFINE mode == Feature(5, <<Field("mode", 8, 7, -127, 127)>>)
           pen == KyePen(61440, 46080, 2047)
           puck == Input(17, <<Bits("button", 3), Pad(4), Bits("inrange", 1), Axis("x", 16, 61440),
                               Axis("y", 16, 46080), Notch("wheel", 8, 1)>>)
           keys == KyeKeys(8, 48)
<1>1. {2047, 46080, 61440} \subseteq Word
  BY DEF Word
<1>2. /\ Fine(mode) /\ mode.id = 5
      /\ Fine(pen) /\ pen.id = 16
      /\ Fine(puck) /\ puck.id = 17
      /\ Fine(keys) /\ keys.id = 18
  <2>1. Fine(mode) /\ mode.id = 5
    BY <1>1, EnablingM912Fine, KyeIDs
  <2>2. Fine(pen) /\ pen.id = 16
    BY <1>1, KyePenFine, KyeIDs
  <2>3. Fine(puck) /\ puck.id = 17
    BY <1>1, M912PuckFine, KyeIDs
  <2>4. Fine(keys) /\ keys.id = 18
    BY <1>1, KyeKeysFine, KyeIDs
  <2> HIDE DEF mode, pen, puck, keys
  <2> QED BY <2>1, <2>2, <2>3, <2>4
<1>3. PenSketchM912 = {mode, pen, puck, keys}
  BY SMT DEF PenSketchM912
<1> HIDE DEF mode, pen, puck, keys
<1> QED BY <1>2, <1>3 DEF Sound

LEMMA EasyPenM406XESound == Sound(EasyPenM406XE)
<1> DEFINE mode == Enabling
           pen == KyePen(15360, 10240, 1023)
           keys == KyeKeys(4, 52)
<1>1. {1023, 10240, 15360} \subseteq Word
  BY DEF Word
<1>2. /\ Fine(mode) /\ mode.id = 5
      /\ Fine(pen) /\ pen.id = 16
      /\ Fine(keys) /\ keys.id = 18
  <2>1. Fine(mode) /\ mode.id = 5
    BY <1>1, EnablingFine, KyeIDs
  <2>2. Fine(pen) /\ pen.id = 16
    BY <1>1, KyePenFine, KyeIDs
  <2>3. Fine(keys) /\ keys.id = 18
    BY <1>1, KyeKeysFine, KyeIDs
  <2> HIDE DEF mode, pen, keys
  <2> QED BY <2>1, <2>2, <2>3
<1>3. EasyPenM406XE = {mode, pen, keys}
  BY SMT DEF EasyPenM406XE
<1> HIDE DEF mode, pen, keys
<1> QED BY <1>2, <1>3 DEF Sound

LEMMA Pt1001Sound == Sound(Pt1001)
<1> DEFINE mouse == Input(1, <<Bits("button", 5), Pad(3), Field("move", 16, 2, -32767, 32767),
                               Field("wheel", 8, 1, -127, 127)>>)
           keys == Input(5, <<Pad(8), Bits("key", 18), Pad(6)>>)
           pen == Input(9, <<Bits("pen", 3), Pad(5), Axis("x", 16, 4096), Axis("y", 16, 4096),
                             Axis("pressure", 16, 1023)>>)
<1>1. /\ Fine(mouse) /\ mouse.id = 1
      /\ Fine(keys) /\ keys.id = 5
      /\ Fine(pen) /\ pen.id = 9
  <2>1. Fine(mouse) /\ mouse.id = 1
    BY Pt1001MouseFine, KyeIDs
  <2>2. Fine(keys) /\ keys.id = 5
    BY Pt1001KeysFine, KyeIDs
  <2>3. Fine(pen) /\ pen.id = 9
    BY Pt1001PenFine, KyeIDs
  <2> HIDE DEF mouse, keys, pen
  <2> QED BY <2>1, <2>2, <2>3
<1>2. Pt1001 = {mouse, keys, pen}
  BY SMT DEF Pt1001
<1> HIDE DEF mouse, keys, pen
<1> QED BY <1>1, <1>2 DEF Sound

LEMMA Pd1011Sound == Sound(Pd1011)
<1> DEFINE pen == Input(2, <<Axis("x", 16, 43392), Axis("y", 16, 27120), Pad(1), Bits("pen", 2),
                             Pad(5), Field("pressure", 16, 1, 5, 2047), Pad(16)>>)
<1>1. /\ Fine(pen) /\ pen.id = 2
  <2>1. Fine(pen) /\ pen.id = 2
    BY Pd1011Fine, KyeIDs
  <2> HIDE DEF pen
  <2> QED BY <2>1
<1>2. Pd1011 = {pen}
  BY SMT DEF Pd1011
<1> HIDE DEF pen
<1> QED BY <1>1, <1>2 DEF Sound

\* What hid_parse makes of the original descriptor of any device of the three
\* drivers.
LEMMA FixupSound ==
    ASSUME dev \in Device, dev.orig
    PROVE  Sound(ReportFixup)
<1>1. Sound({})
  BY DEF Sound
<1>2. \A r : Fine(r) => Sound({r})
  BY DEF Sound
<1>3. /\ DOMAIN Fixed = {"i405x", "i608x", "i608x_v2", "m610x", "m406xe", "m912", "pt1001", "pd1011"}
      /\ Fixed["i405x"] = EasyPenI405X /\ Fixed["i608x"] = MousePenI608X
      /\ Fixed["i608x_v2"] = MousePenI608XV2 /\ Fixed["m610x"] = EasyPenM610X
      /\ Fixed["m406xe"] = EasyPenM406XE /\ Fixed["m912"] = PenSketchM912
      /\ Fixed["pt1001"] = Pt1001 /\ Fixed["pd1011"] = Pd1011
  BY DEF Fixed
<1> HIDE DEF Fixed
<1>4. \/ dev.product \in DOMAIN Fixed
      \/ dev.product \in Gaming
      \/ dev.product = "ergo"
  <2>1. \/ dev.product \in Tablet
        \/ dev.product \in Gaming
        \/ dev.product \in {"ergo", "pt1001", "pd1011"}
    <3> HIDE DEF Tablet, Gaming
    <3> QED BY SMT DEF Device
  <2> QED BY <1>3, <2>1 DEF Tablet
<1>5. CASE dev.product \in DOMAIN Fixed /\ (dev.product = "pt1001" => dev.iface = 1)
  <2>1. dev.product \notin Gaming /\ dev.product # "ergo"
    BY <1>3, <1>5 DEF Gaming
  <2>2. ReportFixup = Fixed[dev.product]
    BY <1>5, <2>1, Zenon DEF ReportFixup
  <2>3. \A t \in DOMAIN Fixed : Sound(Fixed[t])
    BY <1>3, EasyPenI405XSound, MousePenI608XSound, MousePenI608XV2Sound, EasyPenM610XSound,
       EasyPenM406XESound, PenSketchM912Sound, Pt1001Sound, Pd1011Sound
  <2> QED BY <1>5, <2>2, <2>3
<1>6. CASE dev.product \in Gaming
  <2>1. dev.product \notin DOMAIN Fixed /\ dev.product \notin Tablet
        /\ dev.product \notin {"ergo", "pt1001", "pd1011"}
    BY <1>3, <1>6 DEF Gaming, Tablet
  <2>2. dev.usage \in {12287, 12288, 65535}
    BY <2>1 DEF Device
  <2>3. Clipped(dev.usage) \in Usage
    <3>1. Clipped(12287) \in Usage /\ Clipped(12288) \in Usage /\ Clipped(65535) \in Usage
      BY DEF Clipped, Usage
    <3> QED BY <2>2, <3>1
  <2>4. ReportFixup = {Input(3, <<ConsumerField(Clipped(dev.usage))>>)}
    BY <1>6, <2>1 DEF ReportFixup
  <2>5. Fine(Input(3, <<ConsumerField(Clipped(dev.usage))>>))
    BY <2>3, GamingFine
  <2> QED BY <1>2, <2>4, <2>5
<1>7. CASE dev.product = "ergo"
  <2>1. dev.product \notin DOMAIN Fixed /\ dev.product \notin Gaming
    BY <1>3, <1>7 DEF Gaming
  <2>2. ReportFixup = {Input(0, <<Bits("button", 8)>>)}
    BY <1>7, <2>1 DEF ReportFixup
  <2> QED BY <1>2, <2>2, ErgoFine
<1>8. CASE dev.product = "pt1001" /\ dev.iface # 1
  <2>1. dev.product \notin Gaming /\ dev.product # "ergo" /\ dev.product \notin Tablet
    BY <1>8 DEF Gaming, Tablet
  <2>2. dev.feature = "none"
    BY <2>1 DEF Device
  <2>3. ReportFixup = OwnReports
    BY <1>8, <2>1 DEF ReportFixup
  <2>4. OwnReports = {}
    BY <2>1, <2>2 DEF OwnReports
  <2> QED BY <1>1, <2>3, <2>4
<1> QED BY <1>4, <1>5, <1>6, <1>7, <1>8

\* Reports are those that hid_parse has made of the device's descriptor.
Parsed == reports = {} \/ reports = ReportFixup

LEMMA StaysParsed == Spec => []Parsed
<1>1. Init => Parsed
  BY DEF Init, Parsed
<1>2. Parsed /\ [Next]_vars => Parsed'
  <2> SUFFICES ASSUME Parsed, [Next]_vars PROVE Parsed'
    OBVIOUS
  <2>1. dev' = dev => ReportFixup' = ReportFixup
    BY DEF ReportFixup, OwnReports
  <2>2. CASE Unplug
    BY <2>2 DEF Unplug, Parsed
  <2>3. CASE Parse
    BY <2>1, <2>3 DEF Parse, Parsed
  <2>4. CASE \/ Probe \/ Start \/ TabletEnable \/ EnablingErr \/ OpenAll \/ CloseAll
             \/ UserOpen \/ UserClose \/ UNCHANGED vars
    <3>1. dev' = dev /\ reports' = reports
      BY <2>4 DEF Probe, Start, TabletEnable, EnablingErr, OpenAll, CloseAll, UserOpen, UserClose, vars
    <3> QED BY <2>1, <3>1 DEF Parsed
  <2> QED BY <2>2, <2>3, <2>4 DEF Next
<1> QED BY <1>1, <1>2, PTL DEF Spec

\* What the HID core takes apart of a device known by its original descriptor
\* are whole bytes, with room in each field and one report to an ID.
THEOREM ReportsAlwaysSound == Spec => []ReportsSound
<1>1. IInv /\ Parsed => ReportsSound
  <2> SUFFICES ASSUME IInv, Parsed, dev.orig
               PROVE  Sound(reports)
    BY DEF ReportsSound, Sound, Fine, Good
  <2>1. Sound({})
    BY DEF Sound
  <2>2. dev \in Device
    BY DEF IInv, TypeOK
  <2> QED BY <2>1, <2>2, FixupSound DEF Parsed
<1> QED BY <1>1, InvHolds, StaysParsed, PTL
=============================================================================
