------------------------- MODULE UclogicProbeProofs -------------------------
(***************************************************************************)
(* Probe, resume and remove of a UC-Logic interface: what params_init      *)
(* leaves in drvdata, and in the heap, after any history of failing        *)
(* allocations and requests, suspends and probes; and the descriptor that  *)
(* it gives to the HID core, whose reports are disjoint, whole and have    *)
(* their fields where uclogic_raw_event reads and writes them.             *)
(***************************************************************************)
EXTENDS UclogicProbe, TLAPS, WellFoundedInduction

-----------------------------------------------------------------------------
(* The parameters, field by field                                          *)

\* The sets of parameters with nothing but one piece of news.
LEMMA SimpleParams ==
    /\ Zero \in Params /\ Zero.has = {} /\ ~Zero.invalid /\ ~Zero.unused
    /\ Zero.pen = 0 /\ Zero.frame = 0 /\ Zero.flag = FALSE
    /\ Invalid(Zero) \in Params /\ Invalid(Zero).has = {} /\ Invalid(Zero).invalid
    /\ Invalid(Zero).pen = 0 /\ ~Invalid(Zero).unused
    /\ PenUnused \in Params /\ PenUnused.has = {} /\ ~PenUnused.invalid /\ PenUnused.unused
    /\ PenUnused.pen = 0 /\ PenUnused.frame = 0 /\ PenUnused.flag = FALSE
    /\ Common \in Params /\ Common.has = {"common"} /\ ~Common.invalid /\ ~Common.unused
    /\ Common.pen = 0 /\ Common.frame = 0 /\ Common.flag = FALSE
  BY DEF Zero, Invalid, PenUnused, Common, Params, Part

LEMMA PenParams ==
    ASSUME NEW id \in {7, 8}
    PROVE  /\ PenOnly(id) \in Params /\ PenOnly(id).has = {"pen"}
           /\ ~PenOnly(id).invalid /\ ~PenOnly(id).unused
           /\ PenOnly(id).pen = id /\ PenOnly(id).frame = 0 /\ PenOnly(id).flag = FALSE
           /\ PenOnly(id) = [Zero EXCEPT !.has = @ \cup {"pen"}, !.pen = id]
  BY DEF PenOnly, Zero, Params, Part

\* The frame adds its part, its ID and, on Huion's, the flag.
LEMMA FramedParams ==
    ASSUME NEW q \in Params
    PROVE  /\ Framed(q) \in Params /\ Framed(q).has = q.has \cup {"frame"}
           /\ Framed(q).invalid = q.invalid /\ Framed(q).unused = q.unused
           /\ Framed(q).pen = q.pen /\ Framed(q).frame = FrameId
           /\ Framed(q).flag = (dev.family = "huion")
<1> DEFINE huion == dev.family = "huion"
<1>1. FrameId \in {0, 6, 247}
  BY DEF FrameId
<1>2. huion \in BOOLEAN
  OBVIOUS
<1>3. Framed(q) = [q EXCEPT !.has = @ \cup {"frame"}, !.frame = FrameId, !.flag = huion]
  BY DEF Framed
<1> HIDE DEF FrameId, huion
<1>4. /\ Framed(q) \in Params /\ Framed(q).has = q.has \cup {"frame"}
      /\ Framed(q).invalid = q.invalid /\ Framed(q).unused = q.unused
      /\ Framed(q).pen = q.pen /\ Framed(q).frame = FrameId /\ Framed(q).flag = huion
  <2>1. Framed(q) \in Params
    <3>1. q.has \cup {"frame"} \in SUBSET Part
      BY DEF Params, Part
    <3>2. Framed(q) = [invalid |-> q.invalid, unused |-> q.unused, has |-> q.has \cup {"frame"},
                       pen |-> q.pen, frame |-> FrameId, flag |-> huion]
      BY <1>3 DEF Params
    <3>3. q.invalid \in BOOLEAN /\ q.unused \in BOOLEAN /\ q.pen \in {0, 7, 8}
      BY DEF Params
    <3> QED BY <1>1, <1>2, <3>1, <3>2, <3>3 DEF Params
  <2>2. /\ Framed(q).has = q.has \cup {"frame"} /\ Framed(q).frame = FrameId /\ Framed(q).flag = huion
    BY <1>3 DEF Params
  <2>3. Framed(q).invalid = q.invalid /\ Framed(q).unused = q.unused /\ Framed(q).pen = q.pen
    BY <1>3 DEF Params
  <2> QED BY <2>1, <2>2, <2>3
<1> QED BY <1>4 DEF huion

LEMMA UnframedParams ==
    ASSUME NEW q \in Unframed
    PROVE  /\ q \in {Zero, PenOnly(7), PenOnly(8)}
           /\ q \in Params /\ ~q.invalid /\ ~q.unused
           /\ dev.family \in {"huion", "deco01", "g5", "ex07s"}
           /\ q = Zero => dev.family = "deco01"
           /\ q = PenOnly(8) => dev.family = "huion"
<1>1. /\ q \in {Zero, PenOnly(7), PenOnly(8)} /\ dev.family \in {"huion", "deco01", "g5", "ex07s"}
      /\ dev.family = "huion" => q \in {PenOnly(7), PenOnly(8)}
      /\ dev.family = "deco01" => q \in {Zero, PenOnly(7)}
      /\ dev.family \in {"g5", "ex07s"} => q = PenOnly(7)
  BY DEF Unframed
<1>2. PenOnly(7) # PenOnly(8) /\ Zero # PenOnly(7) /\ Zero # PenOnly(8)
  BY SimpleParams, PenParams
<1> QED BY <1>1, <1>2, SimpleParams, PenParams

\* What params_init may end with: the parts that it holds are those that its
\* cleanup frees and those that its descriptor has.
LEMMA OutcomeParams ==
    ASSUME NEW q \in Outcomes \cup {PenOnly(8)}
    PROVE  /\ q \in Params /\ q.has \subseteq Part
           /\ CleanupFrees(q) = q.has /\ DescParts(q) = q.has
           /\ q.unused => q.has = {}
           /\ q.invalid => q.has = {}
<1>1. q \in Params /\ (q.unused => q.has = {}) /\ (q.invalid => q.has = {})
  <2>1. CASE q \in {Zero, Invalid(Zero), PenUnused, Common, PenOnly(7), PenOnly(8)}
    BY <2>1, SimpleParams, PenParams
  <2>2. CASE \E u \in Unframed : q = Framed(u)
    <3>1. PICK u \in Unframed : q = Framed(u)
      BY <2>2
    <3> QED BY <3>1, UnframedParams, FramedParams
  <2> QED BY <2>1, <2>2 DEF Outcomes
<1>2. q.has \subseteq Part
  BY <1>1 DEF Params
<1> QED BY <1>1, <1>2 DEF CleanupFrees, DescParts

LEMMA SimpleOutcomes ==
    /\ Zero \in Outcomes /\ Invalid(Zero) \in Outcomes /\ PenUnused \in Outcomes
    /\ Common \in Outcomes /\ PenOnly(7) \in Outcomes
    /\ \A q \in Unframed : Framed(q) \in Outcomes
  BY DEF Outcomes

\* No step changes the device, nor what depends on it alone.
LEMMA SameDevice ==
    ASSUME dev' = dev
    PROVE  PenID' = PenID /\ Outcomes' = Outcomes /\ Unframed' = Unframed
  BY DEF PenID, Outcomes, Unframed, Framed, FrameId

-----------------------------------------------------------------------------
(* What the steps of params_init have in common                            *)

LEMMA ParamsKnown ==
    ASSUME TypeOK, ParamsInv
    PROVE  p \in Outcomes \cup {PenOnly(8)}
<1>1. CASE pc \notin InitPC \ BlankPC /\ pc # "resume_cleanup"
  BY <1>1, SimpleOutcomes DEF ParamsInv
<1>2. CASE pc \in {"v1_ret", "v2_ret", "btn_buf", "btn_msg", "frame", "output", "cleanup",
                   "resume_cleanup"}
  BY <1>2, SimpleOutcomes, UnframedParams DEF ParamsInv
<1> QED BY <1>1, <1>2 DEF InitPC

LEMMA ParamsKnownNext ==
    ASSUME TypeOK, dev' = dev, pc' \in PC, ParamsInv'
    PROVE  p' \in Outcomes \cup {PenOnly(8)}
<1>0. Outcomes' = Outcomes /\ Unframed' = Unframed
  BY SameDevice
<1>1. CASE pc' \notin InitPC \ BlankPC /\ pc' # "resume_cleanup"
  BY <1>1, SimpleOutcomes DEF ParamsInv
<1>2. CASE pc' \in {"v1_ret", "v2_ret", "btn_buf", "btn_msg", "frame", "output", "cleanup",
                   "resume_cleanup"}
  BY <1>0, <1>2, SimpleOutcomes, UnframedParams DEF ParamsInv
<1> QED BY <1>1, <1>2 DEF InitPC

\* The types follow from the rest.
LEMMA Typed ==
    ASSUME TypeOK, dev' = dev, pc' \in PC, caller' \in {"probe", "resume"}, ParamsInv',
           DrvInv', found' \in BOOLEAN, desc' \in BOOLEAN, heap' \in [Kind -> Int], PartsInv',
           TempsInv', DescInv', mode' \in {"mouse", "v1", "v2"}, restored' \in BOOLEAN
    PROVE  TypeOK'
<1>1. p' \in Params
  BY ParamsKnownNext, OutcomeParams
<1>2. drv' \in Params
  <2>1. drv' \in Outcomes
    BY SameDevice DEF DrvInv
  <2> QED BY <2>1, OutcomeParams
<1>3. heap' \in [Kind -> 0..2]
  <2>1. \A k \in Kind : heap'[k] \in 0..2
    <3>1. \A k \in Part : heap'[k] \in 0..2
      BY DEF PartsInv, Ref
    <3>2. \A k \in {"buf", "str", "ver", "desc"} : heap'[k] \in 0..2
      BY DEF TempsInv, DescInv
    <3> QED BY <3>1, <3>2 DEF Kind, Temp
  <2> QED BY <2>1
<1>4. dev' \in Device
  BY DEF TypeOK
<1> QED BY <1>1, <1>2, <1>3, <1>4, Zenon DEF TypeOK

\* While params_init is at work drvdata and the replacement descriptor stay.
LEMMA InitStep ==
    ASSUME IInv, pc \in InitPC, pc' \in InitPC, InitFrame \/ mode' \in {"v1", "v2"},
           UNCHANGED <<dev, caller, drvdata, restored>>, found' \in BOOLEAN,
           heap' \in [Kind -> Int], heap'["desc"] = heap["desc"],
           ParamsInv', PathInv', PartsInv', TempsInv', ModeOf(p)'
    PROVE  IInv'
<1>1. /\ TypeOK /\ DrvInv /\ DescInv /\ ModeInv
      /\ dev' = dev /\ caller' = caller /\ drv' = drv /\ desc' = desc /\ restored' = restored
  BY DEF IInv, drvdata
<1>2. Settled' <=> Settled
  BY <1>1 DEF Settled, InitPC, BlankPC
<1>3. DrvInv'
  <2>1. PenID' = PenID /\ Outcomes' = Outcomes
    BY <1>1, SameDevice
  <2>2. pc \notin {"check", "get_desc", "unbound"} /\ pc' \notin {"check", "get_desc", "unbound"}
    BY DEF InitPC, BlankPC
  <2>3. (DescParts(drv) # {})' <=> DescParts(drv) # {}
    BY <1>1 DEF DescParts
  <2> QED BY <1>1, <1>2, <2>1, <2>2, <2>3, Zenon DEF DrvInv
<1>4. DescInv'
  BY <1>1, <1>2 DEF DescInv
<1>5. ModeInv'
  BY DEF ModeInv, InitPC, BlankPC
<1>6. TypeOK'
  <2>1. pc' \in PC
    BY DEF InitPC, BlankPC, PC
  <2>2. /\ caller' \in {"probe", "resume"} /\ desc' \in BOOLEAN /\ restored' \in BOOLEAN
        /\ mode' \in {"mouse", "v1", "v2"}
    BY <1>1 DEF TypeOK, InitFrame
  <2> QED BY <1>1, <1>3, <1>4, <2>1, <2>2, Typed
<1> QED BY <1>3, <1>4, <1>5, <1>6 DEF IInv

LEMMA PartsKept ==
    ASSUME PartsInv, drv' = drv, p'.has = p.has, \A k \in Part : heap'[k] = heap[k]
    PROVE  PartsInv'
  BY DEF PartsInv, Ref

\* The pen that each interface has by its product.
LEMMA PenByProduct ==
    LET v1 == IF dev.s100 = "ok" THEN 7 ELSE 0
    IN /\ dev.family = "huion" /\ dev.iface = 0
            => PenID = IF ~dev.transition /\ dev.s200 = "ok" THEN 8 ELSE v1
       /\ dev.family = "wp5540u" /\ dev.size = "v2" /\ dev.iface = 0 => PenID = v1
       /\ dev.family \in {"g540", "deco01", "g5", "ex07s"} /\ dev.iface = 1 => PenID = v1
       /\ dev.family = "huion" /\ dev.iface # 0 => PenID = 0
       /\ dev.family = "wp5540u" /\ (dev.size # "v2" \/ dev.iface # 0) => PenID = 0
       /\ dev.family \in {"g540", "deco01", "g5", "ex07s"} /\ dev.iface # 1 => PenID = 0
       /\ dev.family \notin Asked \cup {"wp5540u"} => PenID = 0
  BY DEF PenID, Asked

-----------------------------------------------------------------------------
(* params_init, step by step                                               *)

\* The choice by product allocates nothing.
LEMMA SelectKeeps ==
    ASSUME IInv, SelectTables \/ SelectHuion \/ SelectUgee
    PROVE  IInv'
<1>1. /\ pc = "switch" /\ pc' \in {"output", "opt_desc", "v1_buf", "ver_buf"}
      /\ p' \in {p, Invalid(p), PenUnused} /\ (p' # p => pc' = "output")
      /\ UNCHANGED <<found, heap>> /\ InitFrame
  BY DEF SelectTables, SelectHuion, SelectUgee, Goto
<1>2. p = Zero /\ TypeOK /\ PartsInv /\ TempsInv
  BY <1>1 DEF IInv, ParamsInv, InitPC, BlankPC
<1>3. PathInv'
  <2>1. /\ pc' = "opt_desc" => PenID = 0
        /\ pc' = "output" => PenID = 0
        /\ pc' = "v1_buf" => PenID = (IF dev.s100 = "ok" THEN 7 ELSE 0)
        /\ pc' = "ver_buf" => dev.family = "huion" /\ dev.iface = 0
    BY <1>1, PenByProduct DEF SelectTables, SelectHuion, SelectUgee, Goto
  <2>2. PenID' = PenID /\ dev' = dev
    BY <1>1, SameDevice DEF InitFrame
  <2>3. p'.pen = 0
    BY <1>1, <1>2, SimpleParams
  <2> QED BY <1>1, <2>1, <2>2, <2>3 DEF PathInv, V1PC, V2PC
<1>4. ParamsInv'
  <2>1. Outcomes' = Outcomes
    BY <1>1, SameDevice DEF InitFrame
  <2> QED BY <1>1, <1>2, <2>1, SimpleOutcomes DEF ParamsInv, InitPC, BlankPC
<1>5. p'.has = p.has /\ p'.pen = 0
  BY <1>1, <1>2, SimpleParams
<1>6. PartsInv'
  BY <1>1, <1>2, <1>5, PartsKept DEF InitFrame, drvdata
<1>7. TempsInv'
  BY <1>1, <1>2 DEF TempsInv, InitPC, BlankPC
<1>8. ModeOf(p)'
  BY <1>5 DEF ModeOf
<1>9. found' \in BOOLEAN /\ heap' \in [Kind -> Int] /\ heap'["desc"] = heap["desc"]
  BY <1>1, <1>2 DEF TypeOK
<1>10. pc \in InitPC /\ pc' \in InitPC /\ UNCHANGED <<dev, caller, drvdata, restored>>
  BY <1>1 DEF InitPC, BlankPC, InitFrame
<1> QED BY <1>1, <1>3, <1>4, <1>6, <1>7, <1>8, <1>9, <1>10, InitStep

\* A fixed descriptor, or none if it is not known what it would replace.
LEMMA OptDescKeeps ==
    ASSUME IInv, OptDesc
    PROVE  IInv'
<1>1. /\ pc = "opt_desc" /\ pc' \in {"output", "cleanup"}
      /\ UNCHANGED found /\ InitFrame
      /\ \/ pc' = "output" /\ p' = Common /\ heap' = [heap EXCEPT !["common"] = @ + 1]
         \/ p' = p /\ heap' = heap
         \/ p' = Zero /\ heap' = heap
  BY DEF OptDesc, Alloc, Step, Common
<1>2. p = Zero /\ TypeOK /\ PartsInv /\ TempsInv /\ PenID = 0
  BY <1>1 DEF IInv, ParamsInv, PathInv, InitPC, BlankPC
<1>3. Outcomes' = Outcomes /\ PenID' = PenID /\ dev' = dev /\ drv' = drv
  BY <1>1, SameDevice DEF InitFrame, drvdata
<1>4. p' \in {Zero, Common} /\ p'.pen = 0 /\ (pc' = "cleanup" => p' = Zero)
  BY <1>1, <1>2, SimpleParams
<1>5. ParamsInv'
  BY <1>1, <1>3, <1>4, SimpleOutcomes DEF ParamsInv, InitPC, BlankPC
<1>6. PathInv'
  BY <1>1, <1>2, <1>3, <1>4 DEF PathInv, V1PC, V2PC
<1>7. heap \in [Kind -> Int] /\ "common" \in Kind
  BY <1>2 DEF TypeOK, Kind, Part
<1>8. PartsInv'
  <2>1. CASE p' = Common /\ heap' = [heap EXCEPT !["common"] = @ + 1]
    <3>1. /\ Ref(p, "common") = 0 /\ Ref(p', "common") = 1
          /\ \A k \in Part : k # "common" => Ref(p', k) = Ref(p, k)
      BY <1>2, <2>1, SimpleParams DEF Ref
    <3>2. heap'["common"] = heap["common"] + 1 /\ \A k \in Part : k # "common" => heap'[k] = heap[k]
      BY <1>7, <2>1 DEF Kind
    <3>3. \A k \in Part : Ref(drv', k) = Ref(drv, k) /\ Ref(drv, k) \in {0, 1}
      BY <1>3 DEF Ref
    <3> QED BY <1>2, <3>1, <3>2, <3>3 DEF PartsInv, Part
  <2>2. CASE p' = Zero /\ heap' = heap
    BY <1>2, <1>3, <2>2, PartsKept
  <2> QED BY <1>1, <1>2, <2>1, <2>2
<1>9. /\ heap' \in [Kind -> Int] /\ heap'["desc"] = heap["desc"]
      /\ \A k \in Temp : heap'[k] = heap[k]
  BY <1>1, <1>7 DEF Kind, Temp, Part
<1>10. TempsInv'
  BY <1>1, <1>2, <1>9 DEF TempsInv, Temp, InitPC, BlankPC
<1>11. ModeOf(p)'
  BY <1>4 DEF ModeOf
<1>12. pc \in InitPC /\ pc' \in InitPC /\ UNCHANGED <<dev, caller, drvdata, restored>>
       /\ found' \in BOOLEAN
  BY <1>1, <1>2 DEF InitPC, BlankPC, InitFrame, TypeOK
<1> QED BY <1>1, <1>5, <1>6, <1>8, <1>9, <1>10, <1>11, <1>12, InitStep

\* A buffer that comes or goes leaves the other blocks as they are.
LEMMA OneBuffer ==
    ASSUME TypeOK, NEW k \in Temp,
           heap' \in {heap, [heap EXCEPT ![k] = @ + 1], Without(heap, {k})}
    PROVE  /\ heap' \in [Kind -> Int] /\ heap'["desc"] = heap["desc"]
           /\ \A j \in Part \cup Temp : j # k => heap'[j] = heap[j]
           /\ \A j \in Part : heap'[j] = heap[j]
           /\ heap' = [heap EXCEPT ![k] = @ + 1] => heap'[k] = heap[k] + 1
           /\ heap' = Without(heap, {k}) => heap'[k] = heap[k] - 1
<1>1. heap \in [Kind -> Int] /\ k \in Kind /\ k # "desc" /\ k \notin Part
  BY DEF TypeOK, Kind, Part, Temp
<1>2. CASE heap' = heap
  <2>1. heap # [heap EXCEPT ![k] = @ + 1] /\ heap # Without(heap, {k})
    BY <1>1 DEF Without
  <2> QED BY <1>1, <1>2, <2>1
<1>3. CASE heap' = [heap EXCEPT ![k] = @ + 1]
  <2>1. heap'[k] = heap[k] + 1 /\ heap' \in [Kind -> Int]
        /\ \A j \in Kind : j # k => heap'[j] = heap[j]
    BY <1>1, <1>3
  <2>2. heap' # Without(heap, {k})
    BY <1>1, <2>1 DEF Without
  <2> QED BY <1>1, <2>1, <2>2 DEF Kind
<1>4. CASE heap' = Without(heap, {k})
  <2>1. heap'[k] = heap[k] - 1 /\ heap' \in [Kind -> Int]
        /\ \A j \in Kind : j # k => heap'[j] = heap[j]
    BY <1>1, <1>4 DEF Without
  <2>2. heap' # [heap EXCEPT ![k] = @ + 1]
    BY <1>1, <2>1
  <2> QED BY <1>1, <2>1, <2>2 DEF Kind
<1> QED BY <1>2, <1>3, <1>4

\* The buffers for strings 100, 200 and 123 and for the firmware's version.
LEMMA BufferKeeps ==
    ASSUME IInv, PenBuf \/ VerBuf \/ BtnBuf
    PROVE  IInv'
<1>1. PICK k \in Temp, from \in {"v1_buf", "v2_buf", "ver_buf", "btn_buf"} :
          /\ pc = from
          /\ \/ heap' = heap /\ pc' = "cleanup"
             \/ /\ heap' = [heap EXCEPT ![k] = @ + 1]
                /\ \/ k = "buf" /\ from = "v1_buf" /\ pc' = "v1_msg"
                   \/ k = "buf" /\ from = "v2_buf" /\ pc' = "v2_msg"
                   \/ k = "ver" /\ from = "ver_buf" /\ pc' = "ver_msg"
                   \/ k = "str" /\ from = "btn_buf" /\ pc' = "btn_msg"
  BY DEF PenBuf, VerBuf, BtnBuf, Alloc, Step, Temp
<1>2. UNCHANGED <<p, found>> /\ InitFrame
  BY DEF PenBuf, VerBuf, BtnBuf
<1>3. TypeOK /\ ParamsInv /\ PathInv /\ PartsInv /\ TempsInv /\ ModeInv
  BY DEF IInv
<1>4. dev' = dev /\ drv' = drv /\ PenID' = PenID
  BY <1>2, SameDevice DEF InitFrame, drvdata
<1>5. ParamsInv'
  BY <1>1, <1>2, <1>3 DEF ParamsInv, InitPC, BlankPC
<1>6. PathInv'
  BY <1>1, <1>2, <1>3, <1>4 DEF PathInv, V1PC, V2PC
<1>7. /\ heap' \in [Kind -> Int] /\ heap'["desc"] = heap["desc"]
      /\ \A j \in Part \cup Temp : j # k => heap'[j] = heap[j]
      /\ \A j \in Part : heap'[j] = heap[j]
      /\ heap' = heap \/ heap'[k] = heap[k] + 1
  BY <1>1, <1>3, OneBuffer
<1>8. PartsInv'
  BY <1>2, <1>3, <1>4, <1>7, PartsKept
<1>9. TempsInv'
  <2>1. /\ from = "ver_buf" => heap["ver"] = 0
        /\ heap["buf"] = 0 /\ heap["str"] = 0
    BY <1>1, <1>3 DEF TempsInv
  <2>2. CASE heap' = heap /\ pc' = "cleanup"
    BY <1>3, <2>1, <2>2 DEF TempsInv, InitPC, BlankPC
  <2>3. CASE heap'[k] = heap[k] + 1 /\ pc' # "cleanup"
    BY <1>1, <1>3, <1>7, <2>1, <2>3 DEF TempsInv, InitPC, BlankPC, Temp
  <2> QED BY <1>1, <1>3, <1>7, <2>2, <2>3, OneBuffer
<1>10. ModeOf(p)'
  BY <1>2, <1>3 DEF ModeInv, ModeOf, InitFrame
<1>11. pc \in InitPC /\ pc' \in InitPC /\ UNCHANGED <<dev, caller, drvdata, restored>>
       /\ found' \in BOOLEAN
  BY <1>1, <1>2, <1>3 DEF InitPC, BlankPC, InitFrame, TypeOK
<1> QED BY <1>2, <1>5, <1>6, <1>7, <1>8, <1>9, <1>10, <1>11, InitStep

\* The answer to string 100 or 200: its buffer goes with everything but a
\* tablet that speaks this protocol, whose mode it has switched.
LEMMA PenMsgKeeps ==
    ASSUME IInv, NEW v \in {"v1", "v2"}, NEW answer,
           answer = (IF v = "v1" THEN dev.s100 ELSE dev.s200), PenMsg(v, answer)
    PROVE  IInv'
<1> DEFINE msg == IF v = "v1" THEN "v1_msg" ELSE "v2_msg"
           rdesc == IF v = "v1" THEN "v1_desc" ELSE "v2_desc"
           ret == IF v = "v1" THEN "v1_ret" ELSE "v2_ret"
<1>1. /\ pc = msg
      /\ \/ pc' = "cleanup" /\ heap' = Without(heap, {"buf"}) /\ UNCHANGED <<found, mode>>
         \/ /\ answer # "ok" /\ pc' = ret /\ heap' = Without(heap, {"buf"}) /\ found' = FALSE
            /\ UNCHANGED mode
         \/ answer = "ok" /\ pc' = rdesc /\ mode' = v /\ UNCHANGED <<found, heap>>
  <2>1. Label[v].msg = msg /\ Label[v].desc = rdesc /\ Label[v].ret = ret
    BY DEF Label
  <2> QED BY <2>1, Zenon DEF PenMsg, Step
<1>2. UNCHANGED <<dev, caller, p, drvdata, restored>>
  BY DEF PenMsg
<1>3. TypeOK /\ ParamsInv /\ PathInv /\ PartsInv /\ TempsInv /\ ModeInv
  BY DEF IInv
<1>4. dev' = dev /\ drv' = drv /\ p' = p /\ PenID' = PenID
  BY <1>2, SameDevice DEF drvdata
<1>5. p = Zero
  BY <1>1, <1>3 DEF ParamsInv, InitPC, BlankPC
<1>6. ParamsInv'
  BY <1>1, <1>4, <1>5 DEF ParamsInv, InitPC, BlankPC
<1>7. PathInv'
  BY <1>1, <1>3, <1>4 DEF PathInv, V1PC, V2PC
<1>8. /\ heap' \in [Kind -> Int] /\ heap'["desc"] = heap["desc"]
      /\ \A j \in Part \cup Temp : j # "buf" => heap'[j] = heap[j]
      /\ \A j \in Part : heap'[j] = heap[j]
      /\ pc' = rdesc => heap' = heap
      /\ pc' # rdesc => heap'["buf"] = heap["buf"] - 1
  <2>1. "buf" \in Temp
    BY DEF Temp
  <2>2. heap' \in {heap, Without(heap, {"buf"})}
        /\ (pc' = rdesc => heap' = heap) /\ (pc' # rdesc => heap' = Without(heap, {"buf"}))
    BY <1>1
  <2> QED BY <1>3, <2>1, <2>2, OneBuffer
<1>9. PartsInv'
  BY <1>3, <1>4, <1>8, PartsKept
<1>10. TempsInv'
  BY <1>1, <1>3, <1>8 DEF TempsInv, InitPC, BlankPC, Temp
<1>11. ModeOf(p)'
  BY <1>4, <1>5, SimpleParams DEF ModeOf
<1>12. pc \in InitPC /\ pc' \in InitPC /\ found' \in BOOLEAN /\ (mode' = mode \/ mode' \in {"v1", "v2"})
  BY <1>1, <1>3 DEF InitPC, BlankPC, TypeOK
<1>13. InitFrame \/ mode' \in {"v1", "v2"}
  BY <1>2, <1>12 DEF InitFrame
<1> QED BY <1>2, <1>6, <1>7, <1>8, <1>9, <1>10, <1>11, <1>12, <1>13, InitStep

\* The pen's part of the descriptor takes the place of the buffer.
LEMMA PenDescKeeps ==
    ASSUME IInv, NEW v \in {"v1", "v2"}, PenDesc(v, IF v = "v1" THEN 7 ELSE 8)
    PROVE  IInv'
<1> DEFINE id == IF v = "v1" THEN 7 ELSE 8
           rdesc == IF v = "v1" THEN "v1_desc" ELSE "v2_desc"
           ret == IF v = "v1" THEN "v1_ret" ELSE "v2_ret"
<1>1. /\ pc = rdesc
      /\ \/ /\ pc' = ret /\ heap' = [Without(heap, {"buf"}) EXCEPT !["pen"] = @ + 1]
            /\ p' = [p EXCEPT !.has = @ \cup {"pen"}, !.pen = id] /\ found' = TRUE
         \/ pc' = "cleanup" /\ heap' = Without(heap, {"buf"}) /\ UNCHANGED <<p, found>>
  <2>1. Label[v].desc = rdesc /\ Label[v].ret = ret
    BY DEF Label
  <2> QED BY <2>1, Zenon DEF PenDesc, Step
<1>2. InitFrame
  BY DEF PenDesc
<1>3. TypeOK /\ ParamsInv /\ PathInv /\ PartsInv /\ TempsInv /\ ModeInv
  BY DEF IInv
<1>4. dev' = dev /\ drv' = drv /\ mode' = mode /\ PenID' = PenID
  BY <1>2, SameDevice DEF drvdata, InitFrame
<1>5. p = Zero
  BY <1>1, <1>3 DEF ParamsInv, InitPC, BlankPC
<1>6. /\ pc' = ret => p' = PenOnly(id) /\ found'
      /\ pc' # ret => p' = Zero /\ pc' = "cleanup" /\ found' = found
  BY <1>1, <1>5, PenParams
<1>7. ParamsInv'
  BY <1>1, <1>6 DEF ParamsInv, InitPC, BlankPC
<1>8. PathInv'
  BY <1>1, <1>3, <1>4, <1>6 DEF PathInv, V1PC, V2PC
<1>9. heap \in [Kind -> Int] /\ {"buf", "str", "ver", "pen", "common", "frame", "desc"} = Kind
  BY <1>3 DEF TypeOK, Kind, Part, Temp
<1>10. /\ heap' \in [Kind -> Int] /\ heap'["desc"] = heap["desc"]
       /\ heap'["buf"] = heap["buf"] - 1 /\ heap'["str"] = heap["str"] /\ heap'["ver"] = heap["ver"]
       /\ heap'["common"] = heap["common"] /\ heap'["frame"] = heap["frame"]
       /\ heap'["pen"] = IF pc' = ret THEN heap["pen"] + 1 ELSE heap["pen"]
  BY <1>1, <1>9 DEF Without
<1>11. PartsInv'
  <2>1. /\ Ref(p', "pen") = (IF pc' = ret THEN 1 ELSE 0) /\ Ref(p, "pen") = 0
        /\ Ref(p', "common") = Ref(p, "common") /\ Ref(p', "frame") = Ref(p, "frame")
    BY <1>5, <1>6, SimpleParams, PenParams DEF Ref
  <2>2. \A k \in Part : Ref(drv', k) = Ref(drv, k) /\ Ref(drv, k) \in {0, 1}
    BY <1>4 DEF Ref
  <2> QED BY <1>3, <1>10, <2>1, <2>2 DEF PartsInv, Part
<1>12. TempsInv'
  BY <1>1, <1>3, <1>10 DEF TempsInv, InitPC, BlankPC
<1>13. ModeOf(p)'
  BY <1>1, <1>3, <1>4, <1>6, SimpleParams, PenParams DEF ModeOf, PathInv
<1>14. pc \in InitPC /\ pc' \in InitPC /\ UNCHANGED <<dev, caller, drvdata, restored>>
       /\ found' \in BOOLEAN
  BY <1>1, <1>2, <1>3 DEF InitPC, BlankPC, InitFrame, TypeOK
<1> QED BY <1>2, <1>7, <1>8, <1>10, <1>11, <1>12, <1>13, <1>14, InitStep

\* Where params_init goes with the pen it has found, or without; and with the
\* firmware's version.
LEMMA RetKeeps ==
    ASSUME IInv, PenV1Ret \/ PenV2Ret \/ VerMsg
    PROVE  IInv'
<1>1. /\ pc \in {"v1_ret", "v2_ret", "ver_msg"} /\ UNCHANGED <<found, heap>> /\ InitFrame
      /\ pc = "ver_msg" => pc' \in {"cleanup", IF dev.transition THEN "v1_buf" ELSE "v2_buf"} /\ p' = p
      /\ pc = "v2_ret" => pc' = (IF found THEN "frame" ELSE "v1_buf") /\ p' = p
      /\ pc = "v1_ret" =>
             /\ pc' \in {"btn_buf", "frame", "output"}
             /\ pc' = "btn_buf" => dev.family = "huion" /\ found
             /\ pc' = "frame" => \/ dev.family \in {"g5", "ex07s"} /\ found
                                 \/ dev.family = "deco01"
             /\ found \/ pc' = "frame" => p' = p
             /\ p' \in {p, Invalid(p)}
  BY DEF PenV1Ret, PenV2Ret, VerMsg, Step, Goto
<1>2. TypeOK /\ ParamsInv /\ PathInv /\ PartsInv /\ TempsInv /\ ModeInv
  BY DEF IInv
<1>3. /\ dev' = dev /\ drv' = drv /\ mode' = mode /\ found' = found
      /\ PenID' = PenID /\ Outcomes' = Outcomes /\ Unframed' = Unframed
  BY <1>1, SameDevice DEF drvdata, InitFrame
<1>4. /\ pc = "v1_ret" => p = (IF found THEN PenOnly(7) ELSE Zero)
      /\ pc = "v2_ret" => p = (IF found THEN PenOnly(8) ELSE Zero)
      /\ pc = "ver_msg" => p = Zero
  BY <1>1, <1>2 DEF ParamsInv, InitPC, BlankPC
<1>5. /\ pc = "v1_ret" => p.pen = PenID
      /\ pc = "v2_ret" /\ found => p.pen = PenID
      /\ pc = "v2_ret" /\ ~found => PenID = (IF dev.s100 = "ok" THEN 7 ELSE 0)
      /\ pc = "ver_msg" /\ dev.transition => PenID = (IF dev.s100 = "ok" THEN 7 ELSE 0)
      /\ pc = "ver_msg" /\ ~dev.transition => (PenID = 8 <=> dev.s200 = "ok")
      /\ pc \in {"v2_ret", "ver_msg"} => dev.family = "huion" /\ dev.iface = 0
      /\ pc = "v2_ret" => ~dev.transition
  BY <1>2, <1>4, PenByProduct, SimpleParams, PenParams DEF PathInv, V1PC, V2PC
<1>6. p'.has = p.has /\ p'.pen = p.pen /\ (p' # p => p' = Invalid(Zero))
  BY <1>1, <1>4, SimpleParams
<1>7. ParamsInv'
  <2>1. pc' = "frame" => p' \in Unframed
    BY <1>1, <1>4, <1>5 DEF Unframed
  <2>2. pc' = "output" => p' \in Outcomes
    BY <1>1, <1>4, <1>6, SimpleOutcomes
  <2>3. pc' \in {"cleanup", "btn_buf", "frame", "output", "v1_buf", "v2_buf"}
    BY <1>1
  <2>4. /\ pc' \in {"v1_buf", "v2_buf", "cleanup"} => p' = Zero
        /\ pc' = "btn_buf" => p' = PenOnly(7)
    BY <1>1, <1>4
  <2> QED BY <1>3, <2>1, <2>2, <2>3, <2>4 DEF ParamsInv, InitPC, BlankPC
<1>8. PathInv'
  <2>1. /\ pc' \in {"btn_buf", "frame", "output"} => p'.pen = PenID
        /\ pc' = "btn_buf" => dev.family = "huion"
        /\ pc' = "v1_buf" => PenID = (IF dev.s100 = "ok" THEN 7 ELSE 0)
        /\ pc' = "v2_buf" => /\ PenID = 8 <=> dev.s200 = "ok"
                             /\ dev.family = "huion" /\ dev.iface = 0 /\ ~dev.transition
        /\ pc' \in {"cleanup", "btn_buf", "frame", "output", "v1_buf", "v2_buf"}
    BY <1>1, <1>5, <1>6
  <2> QED BY <1>3, <2>1 DEF PathInv, V1PC, V2PC
<1>9. PartsInv'
  BY <1>1, <1>2, <1>3, <1>6, PartsKept
<1>10. TempsInv'
  <2>1. heap["buf"] = 0 /\ heap["str"] = 0 /\ heap["ver"] \in {0, 1} /\ heap' = heap
    BY <1>1, <1>2 DEF TempsInv
  <2>2. pc' \in {"cleanup", "btn_buf", "frame", "output", "v1_buf", "v2_buf"}
    BY <1>1
  <2> QED BY <2>1, <2>2 DEF TempsInv, InitPC, BlankPC
<1>11. ModeOf(p)'
  BY <1>2, <1>3, <1>6 DEF ModeInv, ModeOf
<1>12. /\ pc \in InitPC /\ pc' \in InitPC /\ UNCHANGED <<dev, caller, drvdata, restored>>
       /\ found' \in BOOLEAN /\ heap' \in [Kind -> Int] /\ heap'["desc"] = heap["desc"]
  BY <1>1, <1>2 DEF InitPC, BlankPC, InitFrame, TypeOK
<1> QED BY <1>1, <1>7, <1>8, <1>9, <1>10, <1>11, <1>12, InitStep

\* The buttons answer, or the interface ends as one with a pen only.
LEMMA BtnMsgKeeps ==
    ASSUME IInv, BtnMsg
    PROVE  IInv'
<1>1. /\ pc = "btn_msg" /\ pc' \in {"cleanup", "output", "frame"} /\ p' = p /\ InitFrame
      /\ pc' = "frame" => heap' = heap
      /\ pc' # "frame" => heap' = Without(heap, {"str"})
      /\ found' \in {found, FALSE}
  BY DEF BtnMsg, Step
<1>2. TypeOK /\ ParamsInv /\ PathInv /\ PartsInv /\ TempsInv /\ ModeInv
  BY DEF IInv
<1>3. /\ dev' = dev /\ drv' = drv /\ mode' = mode
      /\ PenID' = PenID /\ Outcomes' = Outcomes /\ Unframed' = Unframed
  BY <1>1, SameDevice DEF drvdata, InitFrame
<1>4. p = PenOnly(7) /\ p.pen = PenID /\ dev.family = "huion"
  BY <1>1, <1>2 DEF ParamsInv, PathInv
<1>5. ParamsInv'
  <2>1. p \in Unframed /\ p \in Outcomes
    BY <1>4, SimpleOutcomes DEF Unframed
  <2> QED BY <1>1, <1>3, <1>4, <2>1 DEF ParamsInv, InitPC, BlankPC
<1>6. PathInv'
  BY <1>1, <1>3, <1>4 DEF PathInv, V1PC, V2PC
<1>7. /\ heap' \in [Kind -> Int] /\ heap'["desc"] = heap["desc"]
      /\ \A j \in Part \cup Temp : j # "str" => heap'[j] = heap[j]
      /\ \A j \in Part : heap'[j] = heap[j]
      /\ pc' # "frame" => heap'["str"] = heap["str"] - 1
  <2>1. "str" \in Temp
    BY DEF Temp
  <2> QED BY <1>1, <1>2, <2>1, OneBuffer
<1>8. PartsInv'
  BY <1>1, <1>2, <1>3, <1>7, PartsKept
<1>9. TempsInv'
  BY <1>1, <1>2, <1>7 DEF TempsInv, InitPC, BlankPC, Temp
<1>10. ModeOf(p)'
  BY <1>1, <1>2, <1>3 DEF ModeInv, ModeOf
<1>11. pc \in InitPC /\ pc' \in InitPC /\ UNCHANGED <<dev, caller, drvdata, restored>>
       /\ found' \in BOOLEAN
  BY <1>1, <1>2 DEF InitPC, BlankPC, InitFrame, TypeOK
<1> QED BY <1>1, <1>5, <1>6, <1>7, <1>8, <1>9, <1>10, <1>11, InitStep

\* The frame's part joins the pen's, if there is one, and the buffer of
\* string 123 goes.
LEMMA FrameKeeps ==
    ASSUME IInv, Frame
    PROVE  IInv'
<1>1. /\ pc = "frame" /\ UNCHANGED found /\ InitFrame
      /\ \/ /\ pc' = "output" /\ p' = Framed(p)
            /\ heap' = [[heap EXCEPT !["str"] = 0] EXCEPT !["frame"] = @ + 1]
         \/ pc' = "cleanup" /\ p' = p /\ heap' = [heap EXCEPT !["str"] = 0]
  BY DEF Frame, Step, Framed
<1>2. TypeOK /\ ParamsInv /\ PathInv /\ PartsInv /\ TempsInv /\ ModeInv
  BY DEF IInv
<1>3. /\ dev' = dev /\ drv' = drv /\ mode' = mode
      /\ PenID' = PenID /\ Outcomes' = Outcomes /\ Unframed' = Unframed
  BY <1>1, SameDevice DEF drvdata, InitFrame
<1>4. p \in Unframed /\ p.pen = PenID
  BY <1>1, <1>2 DEF ParamsInv, PathInv
<1>5. /\ p \in {Zero, PenOnly(7), PenOnly(8)} /\ Framed(p) \in Outcomes
      /\ Framed(p).has = p.has \cup {"frame"} /\ Framed(p).pen = p.pen
  BY <1>4, UnframedParams, FramedParams, SimpleOutcomes
<1>6. p'.pen = p.pen
  BY <1>1, <1>5
<1>7. ParamsInv'
  BY <1>1, <1>3, <1>5 DEF ParamsInv, InitPC, BlankPC
<1>8. PathInv'
  BY <1>1, <1>3, <1>4, <1>6 DEF PathInv, V1PC, V2PC
<1>9. heap \in [Kind -> Int] /\ {"buf", "str", "ver", "pen", "common", "frame", "desc"} = Kind
  BY <1>2 DEF TypeOK, Kind, Part, Temp
<1>10. /\ heap' \in [Kind -> Int] /\ heap'["desc"] = heap["desc"]
       /\ heap'["buf"] = heap["buf"] /\ heap'["str"] = 0 /\ heap'["ver"] = heap["ver"]
       /\ heap'["common"] = heap["common"] /\ heap'["pen"] = heap["pen"]
       /\ heap'["frame"] = IF pc' = "output" THEN heap["frame"] + 1 ELSE heap["frame"]
  BY <1>1, <1>9
<1>11. PartsInv'
  <2>1. /\ Ref(p', "frame") = (IF pc' = "output" THEN 1 ELSE 0) /\ Ref(p, "frame") = 0
        /\ Ref(p', "common") = Ref(p, "common") /\ Ref(p', "pen") = Ref(p, "pen")
    BY <1>1, <1>5, SimpleParams, PenParams DEF Ref
  <2>2. \A k \in Part : Ref(drv', k) = Ref(drv, k) /\ Ref(drv, k) \in {0, 1}
    BY <1>3 DEF Ref
  <2> QED BY <1>2, <1>10, <2>1, <2>2 DEF PartsInv, Part
<1>12. TempsInv'
  BY <1>1, <1>2, <1>10 DEF TempsInv, InitPC, BlankPC
<1>13. ModeOf(p)'
  BY <1>2, <1>3, <1>6 DEF ModeInv, ModeOf
<1>14. pc \in InitPC /\ pc' \in InitPC /\ UNCHANGED <<dev, caller, drvdata, restored>>
       /\ found' \in BOOLEAN
  BY <1>1, <1>2 DEF InitPC, BlankPC, InitFrame, TypeOK
<1> QED BY <1>1, <1>7, <1>8, <1>10, <1>11, <1>12, <1>13, <1>14, InitStep

\* uclogic_params_cleanup frees the parts that the parameters hold.
LEMMA Freed ==
    ASSUME TypeOK, NEW q \in Outcomes \cup {PenOnly(8)}
    PROVE  LET h == Without(heap, CleanupFrees(q))
           IN /\ h \in [Kind -> Int]
              /\ \A k \in Part : h[k] = heap[k] - Ref(q, k)
              /\ \A k \in Temp \cup {"desc"} : h[k] = heap[k]
<1>1. heap \in [Kind -> Int] /\ CleanupFrees(q) = q.has /\ q.has \subseteq Part
  BY OutcomeParams DEF TypeOK
<1>2. Part \subseteq Kind /\ Temp \cup {"desc"} \subseteq Kind /\ Part \cap (Temp \cup {"desc"}) = {}
  BY DEF Kind, Part, Temp
<1> QED BY <1>1, <1>2 DEF Without, Ref

LEMMA RefZero ==
    \A k \in Part : Ref(Zero, k) = 0
  BY SimpleParams DEF Ref

LEMMA OutputKeeps ==
    ASSUME IInv, Output
    PROVE  IInv'
<1>1. /\ pc = "output" /\ heap' = [heap EXCEPT !["ver"] = 0]
      /\ UNCHANGED <<dev, caller, found, desc, mode, restored>>
      /\ \/ caller = "probe" /\ pc' = "check" /\ drv' = p /\ p' = Zero
         \/ caller = "resume" /\ pc' = "resume_cleanup" /\ UNCHANGED <<drv, p>>
  BY DEF Output, Step, IInv, TypeOK
<1>2. TypeOK /\ ParamsInv /\ PathInv /\ DrvInv /\ PartsInv /\ TempsInv /\ DescInv /\ ModeInv
  BY DEF IInv
<1>3. PenID' = PenID /\ Outcomes' = Outcomes /\ Unframed' = Unframed /\ dev' = dev
  BY <1>1, SameDevice
<1>4. p \in Outcomes /\ p.pen = PenID
  BY <1>1, <1>2 DEF ParamsInv, PathInv
<1>5. pc \in InitPC /\ (Settled <=> caller = "resume") /\ (Settled' <=> caller = "resume")
  BY <1>1 DEF Settled, InitPC, BlankPC
<1>6. ParamsInv'
  BY <1>1, <1>3, <1>4 DEF ParamsInv, InitPC, BlankPC
<1>7. PathInv'
  BY <1>1, <1>3, <1>4 DEF PathInv, V1PC, V2PC
<1>8. DrvInv'
  <2>1. CASE caller = "probe"
    <3>1. ~desc
      BY <1>2, <1>5, <2>1 DEF DrvInv
    <3> QED BY <1>1, <1>3, <1>4, <1>5, <2>1, <3>1 DEF DrvInv, InitPC, BlankPC
  <2>2. CASE caller = "resume"
    <3>1. drv' = drv /\ desc' = desc /\ pc' = "resume_cleanup" /\ (DescParts(drv) # {})' = (DescParts(drv) # {})
      BY <1>1, <2>2 DEF DescParts
    <3> QED BY <1>2, <1>3, <1>5, <2>2, <3>1 DEF DrvInv, InitPC, BlankPC
  <2> QED BY <1>2, <2>1, <2>2 DEF TypeOK
<1>9. /\ heap' \in [Kind -> Int] /\ heap'["ver"] = 0
      /\ \A k \in Kind : k # "ver" => heap'[k] = heap[k]
  BY <1>1, <1>2 DEF TypeOK, Kind, Temp
<1>10. PartsInv'
  <2>1. \A k \in Part : heap'[k] = Ref(p, k) + Ref(drv, k)
    BY <1>2, <1>9 DEF PartsInv, Kind, Part
  <2>2. CASE caller = "probe"
    <3>1. drv = Zero
      BY <1>2, <1>5, <2>2 DEF DrvInv
    <3>2. \A k \in Part : heap'[k] = Ref(p', k) + Ref(drv', k)
      BY <1>1, <2>1, <2>2, <3>1, RefZero DEF Ref
    <3> QED BY <3>2 DEF PartsInv
  <2>3. CASE caller = "resume"
    BY <1>1, <2>1, <2>3 DEF PartsInv, Ref
  <2> QED BY <1>2, <2>2, <2>3 DEF TypeOK
<1>11. TempsInv'
  BY <1>1, <1>2, <1>9 DEF TempsInv, Kind, Temp
<1>12. DescInv'
  BY <1>1, <1>2, <1>5, <1>9 DEF DescInv, Kind, InitPC, BlankPC
<1>13. ModeInv'
  BY <1>1, <1>2, SimpleParams DEF ModeInv, ModeOf
<1>14. TypeOK'
  BY <1>1, <1>2, <1>6, <1>8, <1>9, <1>10, <1>11, <1>12, Typed DEF TypeOK, PC
<1> QED BY <1>6, <1>7, <1>8, <1>10, <1>11, <1>12, <1>13, <1>14 DEF IInv

\* A params_init that fails frees what it has made; so does a resume that has
\* what it asked for.
LEMMA CleanupKeeps ==
    ASSUME IInv, Cleanup \/ ResumeCleanup
    PROVE  IInv'
<1>1. TypeOK /\ ParamsInv /\ PathInv /\ DrvInv /\ PartsInv /\ TempsInv /\ DescInv /\ ModeInv
  BY DEF IInv
<1> DEFINE h == Without(heap, CleanupFrees(p))
<1>2. /\ UNCHANGED <<dev, caller, found, mode>> /\ drv' = drv /\ desc' = desc /\ p' = Zero
      /\ \/ /\ pc = "cleanup" /\ pc' = (IF caller = "probe" THEN "unbound" ELSE "bound")
            /\ heap' = [h EXCEPT !["ver"] = 0] /\ restored' = (caller = "probe")
         \/ pc = "resume_cleanup" /\ caller = "resume" /\ pc' = "bound" /\ heap' = h /\ restored' = TRUE
  <2>1. CASE Cleanup
    <3>1. pc = "cleanup" /\ p \in {Zero, PenOnly(7), PenOnly(8)}
      BY <1>1, <2>1 DEF Cleanup, Step, ParamsInv
    <3>2. Cleaned(p) = Zero
      BY <3>1, SimpleParams, PenParams DEF Cleaned
    <3> QED BY <2>1, <3>1, <3>2 DEF Cleanup, Step, drvdata
  <2>2. CASE ResumeCleanup
    BY <1>1, <2>2 DEF ResumeCleanup, Step, PathInv, drvdata
  <2> QED BY <2>1, <2>2
<1>3. PenID' = PenID /\ Outcomes' = Outcomes /\ Unframed' = Unframed /\ dev' = dev
  BY <1>2, SameDevice
<1>4. /\ h \in [Kind -> Int] /\ \A k \in Part : h[k] = heap[k] - Ref(p, k)
      /\ \A k \in Temp \cup {"desc"} : h[k] = heap[k]
  BY <1>1, ParamsKnown, Freed
<1> HIDE DEF h
<1>5. /\ heap' \in [Kind -> Int] /\ \A k \in Part : heap'[k] = heap[k] - Ref(p, k)
      /\ heap'["buf"] = heap["buf"] /\ heap'["str"] = heap["str"] /\ heap'["desc"] = heap["desc"]
      /\ heap'["ver"] = 0
  <2>1. pc = "resume_cleanup" => heap["ver"] = 0
    BY <1>1 DEF TempsInv, InitPC, BlankPC
  <2>2. /\ heap' \in [Kind -> Int] /\ heap'["ver"] = 0
        /\ \A k \in Part \cup {"buf", "str", "desc"} : heap'[k] = h[k]
    BY <1>2, <1>4, <2>1 DEF Kind, Temp, Part
  <2> QED BY <1>4, <2>2 DEF Temp
<1>6. ParamsInv'
  BY <1>2 DEF ParamsInv, InitPC, BlankPC
<1>7. PathInv'
  BY <1>2 DEF PathInv, V1PC, V2PC
<1>8. caller \in {"probe", "resume"} /\ (caller = "resume" => Settled)
      /\ (pc = "cleanup" /\ caller = "probe" => ~Settled)
      /\ (caller = "resume" => Settled') /\ pc \in InitPC \cup {"resume_cleanup"}
  BY <1>1, <1>2 DEF Settled, InitPC, BlankPC, TypeOK
<1>9. DrvInv'
  <2>1. (DescParts(drv) # {})' = (DescParts(drv) # {})
    BY <1>2 DEF DescParts
  <2>2. CASE caller = "resume"
    <3>1. pc' = "bound"
      BY <1>2, <2>2
    <3> QED BY <1>1, <1>2, <1>3, <1>8, <2>1, <2>2, <3>1 DEF DrvInv, InitPC, BlankPC
  <2>3. CASE caller = "probe"
    <3>1. pc = "cleanup" /\ pc' = "unbound" /\ drv = Zero /\ pc \in InitPC
      BY <1>1, <1>2, <1>8, <2>3 DEF DrvInv, InitPC, BlankPC
    <3>2. ~Settled'
      BY <3>1 DEF Settled, InitPC, BlankPC
    <3> QED BY <1>1, <1>2, <1>3, <3>1, <3>2 DEF DrvInv, InitPC, BlankPC
  <2> QED BY <1>8, <2>2, <2>3
<1>10. PartsInv'
  <2>1. \A k \in Part : heap'[k] = Ref(drv, k)
    BY <1>1, <1>5 DEF PartsInv, Ref
  <2> QED BY <1>2, <2>1, RefZero DEF PartsInv, Ref
<1>11. TempsInv'
  BY <1>1, <1>2, <1>5 DEF TempsInv
<1>12. DescInv'
  BY <1>1, <1>2, <1>5 DEF DescInv, InitPC, BlankPC
<1>13. ModeInv'
  <2>1. ModeOf(p)'
    BY <1>2, SimpleParams DEF ModeOf
  <2>2. pc' = "bound" /\ restored' => ModeOf(drv)'
    <3>1. SUFFICES ASSUME pc' = "bound", restored' PROVE ModeOf(drv)'
      OBVIOUS
    <3>2. pc = "resume_cleanup" /\ caller = "resume"
      BY <1>2, <3>1
    <3>3. p.pen = PenID /\ drv.pen = PenID /\ ModeOf(p)
      BY <1>1, <1>8, <3>2 DEF PathInv, DrvInv, ModeInv
    <3> QED BY <1>2, <3>3 DEF ModeOf
  <2>3. pc' \in {"unbound", "bound"}
    BY <1>2
  <2> QED BY <2>1, <2>2, <2>3 DEF ModeInv
<1>14. TypeOK'
  <2>1. pc' \in PC /\ restored' \in BOOLEAN
    BY <1>2 DEF PC
  <2>2. caller' \in {"probe", "resume"} /\ found' \in BOOLEAN /\ desc' \in BOOLEAN
        /\ mode' \in {"mouse", "v1", "v2"}
    BY <1>1, <1>2 DEF TypeOK
  <2> QED BY <1>1, <1>3, <1>5, <1>6, <1>9, <1>10, <1>11, <1>12, <2>1, <2>2, Typed
<1> QED BY <1>6, <1>7, <1>9, <1>10, <1>11, <1>12, <1>13, <1>14 DEF IInv

-----------------------------------------------------------------------------
(* hid-uclogic-core.c                                                      *)

\* Outside params_init there are no parameters under construction and no
\* buffers, and nothing is said of the way through it.
LEMMA Idle ==
    ASSUME pc' \notin InitPC, pc' # "resume_cleanup", p' = Zero,
           heap'["buf"] = 0, heap'["str"] = 0, heap'["ver"] = 0
    PROVE  ParamsInv' /\ PathInv' /\ TempsInv'
<1>1. ParamsInv'
  BY DEF ParamsInv, InitPC, BlankPC
<1>2. PathInv'
  BY DEF PathInv, V1PC, V2PC, InitPC, BlankPC
<1>3. TempsInv'
  BY DEF TempsInv, InitPC, BlankPC
<1> QED BY <1>1, <1>2, <1>3

LEMMA IdleNow ==
    ASSUME IInv, pc \notin InitPC, pc # "resume_cleanup"
    PROVE  p = Zero /\ heap["buf"] = 0 /\ heap["str"] = 0 /\ heap["ver"] = 0
<1>1. ParamsInv /\ TempsInv
  BY DEF IInv
<1>2. p = Zero
  BY <1>1 DEF ParamsInv
<1>3. pc \notin {"v1_msg", "v1_desc", "v2_msg", "v2_desc", "btn_msg", "frame"}
  BY DEF InitPC, BlankPC
<1> QED BY <1>1, <1>2, <1>3 DEF TempsInv

\* uclogic_probe and uclogic_resume begin.
LEMMA BeginKeeps ==
    ASSUME IInv, Probe \/ Resume
    PROVE  IInv'
<1>1. TypeOK /\ DrvInv /\ PartsInv /\ DescInv
  BY DEF IInv
<1>2. /\ pc' = "switch" /\ UNCHANGED <<dev, found, mode>> /\ p' = Zero
      /\ \/ /\ pc = "unbound" /\ heap' = [heap EXCEPT !["desc"] = 0]
            /\ caller' = "probe" /\ drv' = Zero /\ desc' = FALSE /\ restored' = TRUE
         \/ /\ pc = "suspended" /\ caller' = "resume"
            /\ drv' = drv /\ desc' = desc /\ heap' = heap /\ restored' = restored
  BY DEF Probe, Resume, Step, drvdata
<1>3. p = Zero /\ heap["buf"] = 0 /\ heap["str"] = 0 /\ heap["ver"] = 0
  BY <1>2, IdleNow DEF InitPC, BlankPC
<1>4. PenID' = PenID /\ Outcomes' = Outcomes /\ Unframed' = Unframed /\ dev' = dev
  BY <1>2, SameDevice
<1>5. /\ heap' \in [Kind -> Int] /\ \A k \in Part \cup Temp : heap'[k] = heap[k]
      /\ heap'["desc"] = IF pc = "unbound" THEN 0 ELSE heap["desc"]
  BY <1>1, <1>2 DEF TypeOK, Kind, Part, Temp
<1>6. pc = "unbound" => drv = Zero
  BY <1>1 DEF DrvInv
<1>7. ParamsInv'
  BY <1>2 DEF ParamsInv, InitPC, BlankPC
<1>8. PathInv'
  BY <1>2 DEF PathInv, V1PC, V2PC
<1>9. pc' \in InitPC /\ (Settled' <=> pc = "suspended") /\ (pc = "suspended" => Settled)
  BY <1>2 DEF Settled, InitPC, BlankPC
<1>10. DrvInv'
  <2>1. CASE pc = "suspended"
    <3>1. (DescParts(drv) # {})' = (DescParts(drv) # {})
      BY <1>2, <2>1 DEF DescParts
    <3> QED BY <1>1, <1>2, <1>4, <1>9, <2>1, <3>1 DEF DrvInv
  <2>2. CASE pc = "unbound"
    BY <1>2, <1>4, <1>9, <2>2, SimpleOutcomes DEF DrvInv, InitPC, BlankPC
  <2> QED BY <1>2, <2>1, <2>2
<1>11. PartsInv'
  BY <1>1, <1>2, <1>3, <1>5, <1>6 DEF PartsInv, Ref
<1>12. TempsInv'
  BY <1>2, <1>3, <1>5 DEF TempsInv, Temp
<1>13. DescInv'
  BY <1>1, <1>2, <1>5, <1>9 DEF DescInv
<1>14. ModeInv'
  BY <1>2, SimpleParams DEF ModeInv, ModeOf
<1>15. TypeOK'
  <2>1. /\ pc' \in PC /\ restored' \in BOOLEAN /\ caller' \in {"probe", "resume"}
        /\ found' \in BOOLEAN /\ desc' \in BOOLEAN /\ mode' \in {"mouse", "v1", "v2"}
    BY <1>1, <1>2 DEF TypeOK, PC
  <2> QED BY <1>1, <1>4, <1>5, <1>7, <1>10, <1>11, <1>12, <1>13, <2>1, Typed
<1> QED BY <1>7, <1>8, <1>10, <1>11, <1>12, <1>13, <1>14, <1>15 DEF IInv

\* The rest of probe, and the descriptor that it builds.
LEMMA ProbeKeeps ==
    ASSUME IInv, ProbeCheck \/ GetDesc \/ Parse \/ Start
    PROVE  IInv'
<1>1. TypeOK /\ DrvInv /\ PartsInv /\ DescInv /\ ModeInv
  BY DEF IInv
<1>2. UNCHANGED <<dev, caller, p, found, mode, restored>> /\ drv' = drv
  BY DEF ProbeCheck, GetDesc, Parse, Start, ProbeFrame, drvdata
<1>3. \/ /\ pc = "check" /\ pc' = (IF drv.invalid THEN "failure" ELSE "get_desc")
         /\ desc' = desc /\ heap' = heap
      \/ /\ pc = "get_desc" /\ pc' = "parse" /\ DescParts(drv) = {} /\ ~desc' /\ heap' = heap
      \/ /\ pc = "get_desc" /\ pc' = "parse" /\ DescParts(drv) # {} /\ desc'
         /\ heap' = [heap EXCEPT !["desc"] = @ + 1]
      \/ /\ pc = "get_desc" /\ pc' = "failure" /\ ~desc' /\ heap' = heap
      \/ /\ pc = "parse" /\ pc' \in {"start", "failure"} /\ desc' = desc /\ heap' = heap
      \/ /\ pc = "start" /\ pc' \in {"bound", "failure"} /\ desc' = desc /\ heap' = heap
  BY DEF ProbeCheck, GetDesc, Parse, Start, Step, Alloc, drvdata
<1>4. desc' \in BOOLEAN
  BY <1>1 DEF ProbeCheck, GetDesc, Parse, Start, drvdata, TypeOK
<1>5. PenID' = PenID /\ Outcomes' = Outcomes /\ dev' = dev
  BY <1>2, SameDevice
<1>6. pc \in {"check", "get_desc", "parse", "start"}
      /\ pc' \in {"get_desc", "failure", "parse", "start", "bound"}
  BY <1>3
<1>7. /\ pc \notin InitPC \cup {"resume_cleanup"} /\ pc' \notin InitPC \cup {"resume_cleanup"}
      /\ (Settled <=> pc \in {"parse", "start"}) /\ (Settled' <=> pc' \in {"parse", "start", "bound"})
  BY <1>6 DEF Settled, InitPC, BlankPC
<1>8. p = Zero /\ heap["buf"] = 0 /\ heap["str"] = 0 /\ heap["ver"] = 0
  BY <1>7, IdleNow
<1>9. /\ heap' \in [Kind -> Int] /\ \A k \in Part \cup Temp : heap'[k] = heap[k]
      /\ heap'["desc"] = IF pc = "get_desc" /\ desc' THEN heap["desc"] + 1 ELSE heap["desc"]
  BY <1>1, <1>3 DEF TypeOK, Kind, Part, Temp
<1>10. ParamsInv' /\ PathInv' /\ TempsInv'
  BY <1>2, <1>7, <1>8, <1>9, Idle DEF Temp
<1>11. DrvInv'
  <2>1. DescParts(drv)' = DescParts(drv)
    BY <1>2 DEF DescParts
  <2>2. /\ pc' \in {"get_desc", "parse", "start", "bound"} => ~drv.invalid /\ drv.pen = PenID
        /\ pc' \in {"parse", "start", "bound"} => (desc' <=> DescParts(drv) # {})
        /\ pc' = "get_desc" => ~desc'
    BY <1>1, <1>3, <1>6, <1>7 DEF DrvInv
  <2> QED BY <1>1, <1>2, <1>5, <1>6, <1>7, <2>1, <2>2 DEF DrvInv
<1>12. PartsInv'
  BY <1>1, <1>2, <1>9, PartsKept
<1>13. DescInv'
  BY <1>1, <1>3, <1>6, <1>7, <1>9 DEF DescInv
<1>14. ModeInv'
  BY <1>1, <1>2, <1>3, <1>6 DEF ModeInv, ModeOf
<1>15. TypeOK'
  <2>1. /\ pc' \in PC /\ restored' \in BOOLEAN /\ caller' \in {"probe", "resume"}
        /\ found' \in BOOLEAN /\ mode' \in {"mouse", "v1", "v2"}
    BY <1>1, <1>2, <1>6 DEF TypeOK, PC
  <2> QED BY <1>1, <1>4, <1>5, <1>9, <1>10, <1>11, <1>12, <1>13, <2>1, Typed
<1> QED BY <1>10, <1>11, <1>12, <1>13, <1>14, <1>15 DEF IInv

\* A failed probe and remove give back the parts of the parameters.
LEMMA EndKeeps ==
    ASSUME IInv, Failure \/ Remove
    PROVE  IInv'
<1>1. TypeOK /\ DrvInv /\ PartsInv /\ DescInv
  BY DEF IInv
<1> DEFINE h == Without(heap, CleanupFrees(drv))
<1>2. /\ pc \in {"failure", "bound"} /\ pc' = "unbound" /\ drv' = Zero /\ desc' = FALSE
      /\ UNCHANGED <<dev, caller, p, found, mode, restored>>
      /\ \/ heap' = h
         \/ desc /\ heap' = Without(heap, CleanupFrees(drv) \cup {"desc"})
  BY DEF Failure, Remove, Step, ProbeFrame
<1>3. pc \notin InitPC \cup {"resume_cleanup"} /\ pc' \notin InitPC \cup {"resume_cleanup"} /\ ~Settled'
  BY <1>2 DEF Settled, InitPC, BlankPC
<1>4. p = Zero /\ heap["buf"] = 0 /\ heap["str"] = 0 /\ heap["ver"] = 0
  BY <1>3, IdleNow
<1>5. PenID' = PenID /\ Outcomes' = Outcomes /\ dev' = dev
  BY <1>2, SameDevice
<1>6. drv \in Outcomes \cup {PenOnly(8)}
  BY <1>1 DEF DrvInv
<1>7. /\ h \in [Kind -> Int] /\ \A k \in Part : h[k] = heap[k] - Ref(drv, k)
      /\ \A k \in Temp \cup {"desc"} : h[k] = heap[k]
  BY <1>1, <1>6, Freed
<1>8. /\ heap' \in [Kind -> Int] /\ \A k \in Part : heap'[k] = heap[k] - Ref(drv, k)
      /\ \A k \in Temp : heap'[k] = heap[k]
      /\ heap'["desc"] \in {heap["desc"], 0}
  <2>1. CASE heap' = h
    BY <1>7, <2>1
  <2>2. CASE desc /\ heap' = Without(heap, CleanupFrees(drv) \cup {"desc"})
    <3>1. CleanupFrees(drv) \subseteq Part
      BY <1>6, OutcomeParams
    <3>2. /\ heap' \in [Kind -> Int] /\ \A k \in Part \cup Temp : heap'[k] = h[k]
          /\ heap'["desc"] = heap["desc"] - 1
      BY <1>1, <2>2, <3>1 DEF Without, Kind, Part, Temp, TypeOK
    <3>3. heap["desc"] = 1
      BY <1>1, <2>2 DEF DescInv
    <3> QED BY <1>7, <3>2, <3>3
  <2> QED BY <1>2, <2>1, <2>2
<1> HIDE DEF h
<1>9. ParamsInv' /\ PathInv' /\ TempsInv'
  BY <1>2, <1>3, <1>4, <1>8, Idle DEF Temp
<1>10. DrvInv'
  BY <1>2, <1>3, <1>5, SimpleOutcomes DEF DrvInv
<1>11. PartsInv'
  <2>1. \A k \in Part : heap'[k] = Ref(p, k)
    BY <1>1, <1>8 DEF PartsInv, Ref
  <2> QED BY <1>2, <2>1, RefZero DEF PartsInv, Ref
<1>12. DescInv'
  BY <1>1, <1>2, <1>3, <1>8 DEF DescInv
<1>13. ModeInv'
  BY <1>2, <1>4, SimpleParams DEF ModeInv, ModeOf
<1>14. TypeOK'
  <2>1. /\ pc' \in PC /\ restored' \in BOOLEAN /\ caller' \in {"probe", "resume"}
        /\ found' \in BOOLEAN /\ desc' \in BOOLEAN /\ mode' \in {"mouse", "v1", "v2"}
    BY <1>1, <1>2 DEF TypeOK, PC
  <2> QED BY <1>1, <1>5, <1>8, <1>9, <1>10, <1>11, <1>12, <2>1, Typed
<1> QED BY <1>9, <1>10, <1>11, <1>12, <1>13, <1>14 DEF IInv

\* What a suspend may do to the tablet's mode only resume has to answer for.
LEMMA SuspendKeeps ==
    ASSUME IInv, Suspend
    PROVE  IInv'
<1>1. TypeOK /\ DrvInv /\ PartsInv /\ DescInv
  BY DEF IInv
<1>2. /\ pc = "bound" /\ pc' = "suspended" /\ mode' \in {mode, "mouse"}
      /\ UNCHANGED <<dev, caller, p, found, heap, restored>> /\ drv' = drv /\ desc' = desc
  BY DEF Suspend, Step, drvdata
<1>3. /\ pc \notin InitPC \cup {"resume_cleanup"} /\ pc' \notin InitPC \cup {"resume_cleanup"}
      /\ Settled /\ Settled'
  BY <1>2 DEF Settled, InitPC, BlankPC
<1>4. p = Zero /\ heap["buf"] = 0 /\ heap["str"] = 0 /\ heap["ver"] = 0
  BY <1>3, IdleNow
<1>5. PenID' = PenID /\ Outcomes' = Outcomes /\ dev' = dev
  BY <1>2, SameDevice
<1>6. ParamsInv' /\ PathInv' /\ TempsInv'
  BY <1>2, <1>3, <1>4, Idle
<1>7. DrvInv'
  <2>1. DescParts(drv)' = DescParts(drv)
    BY <1>2 DEF DescParts
  <2> QED BY <1>1, <1>2, <1>3, <1>5, <2>1 DEF DrvInv
<1>8. PartsInv'
  BY <1>1, <1>2, PartsKept
<1>9. DescInv'
  BY <1>1, <1>2, <1>3 DEF DescInv
<1>10. ModeInv'
  BY <1>2, <1>4, SimpleParams DEF ModeInv, ModeOf
<1>11. TypeOK'
  <2>1. /\ pc' \in PC /\ restored' \in BOOLEAN /\ caller' \in {"probe", "resume"}
        /\ found' \in BOOLEAN /\ desc' \in BOOLEAN /\ mode' \in {"mouse", "v1", "v2"}
        /\ heap' \in [Kind -> Int]
    BY <1>1, <1>2 DEF TypeOK, PC
  <2> QED BY <1>1, <1>5, <1>6, <1>7, <1>8, <1>9, <2>1, Typed
<1> QED BY <1>6, <1>7, <1>8, <1>9, <1>10, <1>11 DEF IInv

LEMMA InitIInv == Init => IInv
<1> SUFFICES ASSUME Init PROVE IInv
  OBVIOUS
<1>1. /\ pc = "unbound" /\ p = Zero /\ drv = Zero /\ desc = FALSE /\ mode = "mouse"
      /\ heap = [k \in Kind |-> 0] /\ caller = "probe" /\ found = FALSE /\ restored = TRUE
      /\ dev \in Device
  BY DEF Init
<1>2. heap \in [Kind -> 0..2] /\ \A k \in Part \cup Temp \cup {"desc"} : heap[k] = 0
  BY <1>1 DEF Kind
<1>3. ~Settled /\ pc \notin InitPC
  BY <1>1 DEF Settled, InitPC, BlankPC
<1>4. ParamsInv
  BY <1>1, <1>3 DEF ParamsInv
<1>5. PathInv
  BY <1>1 DEF PathInv, V1PC, V2PC
<1>6. DrvInv
  BY <1>1, <1>3, SimpleOutcomes DEF DrvInv
<1>7. PartsInv
  BY <1>1, <1>2, RefZero DEF PartsInv
<1>8. TempsInv
  BY <1>1, <1>2 DEF TempsInv, Temp
<1>9. DescInv
  BY <1>1, <1>2, <1>3 DEF DescInv
<1>10. ModeInv
  BY <1>1, SimpleParams DEF ModeInv, ModeOf
<1>11. TypeOK
  BY <1>1, <1>2, SimpleParams DEF TypeOK, PC
<1> QED BY <1>4, <1>5, <1>6, <1>7, <1>8, <1>9, <1>10, <1>11 DEF IInv

LEMMA StutterKeeps ==
    ASSUME IInv, UNCHANGED vars
    PROVE  IInv'
<1>1. /\ dev' = dev /\ pc' = pc /\ caller' = caller /\ p' = p /\ found' = found /\ drv' = drv
      /\ desc' = desc /\ heap' = heap /\ mode' = mode /\ restored' = restored
  BY DEF vars
<1>2. /\ PenID' = PenID /\ Outcomes' = Outcomes /\ Unframed' = Unframed
      /\ (Settled' <=> Settled) /\ DescParts(drv)' = DescParts(drv)
  BY <1>1, SameDevice DEF Settled, DescParts
<1>3. TypeOK' /\ ParamsInv' /\ PathInv'
  BY <1>1, <1>2 DEF IInv, TypeOK, ParamsInv, PathInv
<1>4. DrvInv'
  BY <1>1, <1>2 DEF IInv, DrvInv
<1>5. PartsInv' /\ TempsInv' /\ DescInv' /\ ModeInv'
  BY <1>1, <1>2 DEF IInv, PartsInv, Ref, TempsInv, DescInv, ModeInv, ModeOf
<1> QED BY <1>3, <1>4, <1>5 DEF IInv

LEMMA NextIInv == IInv /\ [Next]_vars => IInv'
<1> SUFFICES ASSUME IInv, [Next]_vars PROVE IInv'
  OBVIOUS
<1>1. CASE SelectTables \/ SelectHuion \/ SelectUgee
  BY <1>1, SelectKeeps
<1>2. CASE OptDesc
  BY <1>2, OptDescKeeps
<1>3. CASE PenBuf \/ VerBuf \/ BtnBuf
  BY <1>3, BufferKeeps
<1>4. CASE PenMsg("v1", dev.s100)
  BY <1>4, PenMsgKeeps
<1>5. CASE PenMsg("v2", dev.s200)
  BY <1>5, PenMsgKeeps
<1>6. CASE PenDesc("v1", 7)
  BY <1>6, PenDescKeeps
<1>7. CASE PenDesc("v2", 8)
  BY <1>7, PenDescKeeps
<1>8. CASE PenV1Ret \/ PenV2Ret \/ VerMsg
  BY <1>8, RetKeeps
<1>9. CASE BtnMsg
  BY <1>9, BtnMsgKeeps
<1>10. CASE Frame
  BY <1>10, FrameKeeps
<1>11. CASE Output
  BY <1>11, OutputKeeps
<1>12. CASE Cleanup \/ ResumeCleanup
  BY <1>12, CleanupKeeps
<1>13. CASE Probe \/ Resume
  BY <1>13, BeginKeeps
<1>14. CASE ProbeCheck \/ GetDesc \/ Parse \/ Start
  BY <1>14, ProbeKeeps
<1>15. CASE Failure \/ Remove
  BY <1>15, EndKeeps
<1>16. CASE Suspend
  BY <1>16, SuspendKeeps
<1>17. CASE UNCHANGED vars
  BY <1>17, StutterKeeps
<1> QED BY <1>1, <1>2, <1>3, <1>4, <1>5, <1>6, <1>7, <1>8, <1>9, <1>10, <1>11, <1>12, <1>13,
           <1>14, <1>15, <1>16, <1>17 DEF Next, ParamsInit

\* The parameters, the path through params_init, the blocks and the mode stay
\* together, whatever fails (uclogic_params_init 840-1136 and its callers).
THEOREM ProbeInductive == Spec => []IInv
<1> QED BY InitIInv, NextIInv, PTL DEF Spec

\* The types of the module's variables.
THEOREM ProbeTyped == Spec => []TypeOK
<1>1. IInv => TypeOK
  BY DEF IInv
<1> QED BY <1>1, ProbeInductive, PTL

\* No part of a descriptor is lost or freed twice, and no buffer survives a
\* call, over all failures of probe and resume.
THEOREM BlocksAreAccounted == Spec => []BlocksAccounted
<1>1. IInv => BlocksAccounted
  <2> SUFFICES ASSUME IInv PROVE BlocksAccounted
    OBVIOUS
  <2>1. \A k \in Part : heap[k] = Ref(p, k) + Ref(drv, k)
    BY DEF IInv, PartsInv
  <2>2. ASSUME AtRest, NEW k \in Temp PROVE heap[k] = 0
    <3>1. pc \notin InitPC /\ pc # "resume_cleanup"
      BY <2>2 DEF AtRest, InitPC, BlankPC
    <3> QED BY <3>1, IdleNow DEF Temp
  <2>3. desc => heap["desc"] > 0
    BY DEF IInv, DescInv
  <2> QED BY <2>1, <2>2, <2>3 DEF BlocksAccounted
<1> QED BY <1>1, ProbeInductive, PTL

\* What an outcome promises of its descriptor.
LEMMA OutcomeParts ==
    ASSUME NEW q \in Outcomes
    PROVE  /\ q.pen # 0 => "pen" \in q.has /\ q.pen \in {7, 8}
           /\ q.pen = 8 => dev.family = "huion"
           /\ q.frame # 0 => /\ "frame" \in q.has /\ q.frame = FrameId
                             /\ dev.family \in {"huion", "g5"}
<1>1. CASE q \in {Zero, PenUnused, Common, PenOnly(7)}
  BY <1>1, SimpleParams, PenParams
<1>2. CASE q = Invalid(Zero)
  BY <1>2 DEF Invalid, Zero
<1>3. CASE \E u \in Unframed : q = Framed(u)
  <2>1. PICK u \in Unframed : q = Framed(u)
    BY <1>3
  <2>2. /\ u \in {Zero, PenOnly(7), PenOnly(8)} /\ u \in Params
        /\ q.has = u.has \cup {"frame"} /\ q.pen = u.pen /\ q.frame = FrameId
        /\ dev.family \in {"huion", "deco01", "g5", "ex07s"}
        /\ u = PenOnly(8) => dev.family = "huion"
    BY <2>1, UnframedParams, FramedParams
  <2>3. FrameId # 0 => dev.family \in {"huion", "g5"}
    BY DEF FrameId
  <2> HIDE DEF FrameId
  <2> QED BY <2>2, <2>3, SimpleParams, PenParams
<1> QED BY <1>1, <1>2, <1>3 DEF Outcomes

\* The reports of the pen's part and of the frame's have the IDs that the
\* parameters name.
LEMMA PartIDs ==
    ASSUME NEW q
    PROVE  /\ q.pen = 7 => {r.id : r \in PartTable(q, "pen")} = {7}
           /\ q.pen = 8 => {r.id : r \in PartTable(q, "pen")} = {8}
           /\ dev.family \in {"huion", "g5"} => {r.id : r \in PartTable(q, "frame")} = {FrameId}
<1>1. {r.id : r \in PenV1} = {7}
  <2>1. RangedPen(7, 3, 16, 65535, 65535, 65535).id = 7
    BY DEF RangedPen, Input
  <2> QED BY <2>1 DEF PenV1, PressureMax
<1>2. {r.id : r \in PenV2} = {8}
  <2> DEFINE pen == RangedPen(8, 3, 24, 2 ^ 24 - 1, 2 ^ 24 - 1, 65535)
  <2>1. [pen EXCEPT !.fields = Append(@, Pad(16))].id = 8
    BY DEF RangedPen, Input
  <2>2. PenV2 = {[pen EXCEPT !.fields = Append(@, Pad(16))]}
    BY DEF PenV2, PressureMax
  <2> HIDE DEF pen
  <2> QED BY <2>1, <2>2
<1>3. \A n : {r.id : r \in Buttonpad(n)} = {247}
  BY DEF Buttonpad, Input
<1>4. {r.id : r \in G5Frame} = {6}
  BY DEF G5Frame, Input
<1>5. PartTable(q, "pen") = (IF q.pen = 8 THEN PenV2 ELSE PenV1)
  BY DEF PartTable
<1>6. PartTable(q, "frame") = FrameTable(q)
  BY DEF PartTable
<1>7. /\ dev.family = "huion" => FrameTable(q) \in {ButtonpadV1, ButtonpadV2} /\ FrameId = 247
      /\ dev.family = "g5" => FrameTable(q) = G5Frame /\ FrameId = 6
  BY DEF FrameTable, FrameId
<1> HIDE DEF FrameId
<1>8. \A T \in {ButtonpadV1, ButtonpadV2} : {r.id : r \in T} = {247}
  BY <1>3 DEF ButtonpadV1, ButtonpadV2
<1>9. q.pen = 7 => {r.id : r \in PartTable(q, "pen")} = {7}
  <2>1. q.pen = 7 => PartTable(q, "pen") = PenV1
    BY <1>5
  <2> QED BY <1>1, <2>1
<1>10. q.pen = 8 => {r.id : r \in PartTable(q, "pen")} = {8}
  <2>1. q.pen = 8 => PartTable(q, "pen") = PenV2
    BY <1>5
  <2> QED BY <1>2, <2>1
<1>11. dev.family \in {"huion", "g5"} => {r.id : r \in PartTable(q, "frame")} = {FrameId}
  <2>1. CASE dev.family = "huion"
    BY <1>6, <1>7, <1>8, <2>1
  <2>2. CASE dev.family = "g5"
    BY <1>4, <1>6, <1>7, <2>2
  <2> QED BY <2>1, <2>2
<1> QED BY <1>9, <1>10, <1>11

\* raw_event looks for the IDs of reports that the interface's descriptor
\* declares, and only where it has been replaced.
THEOREM TweaksAreOwn == Spec => []TweaksOwnReports
<1>1. IInv => TweaksOwnReports
  <2> SUFFICES ASSUME IInv, pc \in {"bound", "suspended"}
               PROVE  /\ drv.pen # 0 => desc /\ drv.pen \in IDs(drv, "pen")
                      /\ drv.frame # 0 => desc /\ drv.frame \in IDs(drv, "frame")
    BY DEF TweaksOwnReports
  <2>1. drv \in Outcomes /\ (desc <=> DescParts(drv) # {})
    BY DEF IInv, DrvInv, Settled
  <2>2. DescParts(drv) = drv.has
    BY <2>1, OutcomeParams
  <2>3. drv.pen # 0 => desc /\ drv.pen \in IDs(drv, "pen")
    BY <2>1, <2>2, OutcomeParts, PartIDs DEF IDs
  <2>4. drv.frame # 0 => desc /\ drv.frame \in IDs(drv, "frame")
    BY <2>1, <2>2, OutcomeParts, PartIDs DEF IDs
  <2> QED BY <2>3, <2>4
<1> QED BY <1>1, ProbeInductive, PTL

\* The kinds, field by field.
LEMMA KindFields ==
    /\ KindParams["plain"].unused = FALSE /\ KindParams["plain"].pen = 0
    /\ KindParams["plain"].frame = 0 /\ KindParams["plain"].flag = FALSE
    /\ KindParams["mouse"].unused = TRUE /\ KindParams["mouse"].pen = 0
    /\ KindParams["mouse"].frame = 0 /\ KindParams["mouse"].flag = FALSE
    /\ KindParams["v1"].unused = FALSE /\ KindParams["v1"].pen = 7
    /\ KindParams["v1"].frame = 0 /\ KindParams["v1"].flag = FALSE
    /\ KindParams["v1_buttons"].unused = FALSE /\ KindParams["v1_buttons"].pen = 7
    /\ KindParams["v1_buttons"].frame = 247 /\ KindParams["v1_buttons"].flag = TRUE
    /\ KindParams["v2_buttons"].unused = FALSE /\ KindParams["v2_buttons"].pen = 8
    /\ KindParams["v2_buttons"].frame = 247 /\ KindParams["v2_buttons"].flag = TRUE
    /\ KindParams["g5"].unused = FALSE /\ KindParams["g5"].pen = 7
    /\ KindParams["g5"].frame = 6 /\ KindParams["g5"].flag = FALSE
<1>1. /\ KindParams["plain"] = Noop /\ KindParams["mouse"] = [Noop EXCEPT !.unused = TRUE]
      /\ KindParams["v1"] = V1
      /\ KindParams["v1_buttons"] = [V1 EXCEPT !.flag = TRUE, !.frame = 247]
      /\ KindParams["v2_buttons"] = [V2 EXCEPT !.flag = TRUE, !.frame = 247]
      /\ KindParams["g5"] = [V1 EXCEPT !.frame = 6, !.dev_id = TRUE, !.re = TRUE]
  BY DEF KindParams
<1>2. /\ KindParams["plain"].unused = FALSE /\ KindParams["plain"].pen = 0
      /\ KindParams["plain"].frame = 0 /\ KindParams["plain"].flag = FALSE
      /\ KindParams["mouse"].unused = TRUE /\ KindParams["mouse"].pen = 0
      /\ KindParams["mouse"].frame = 0 /\ KindParams["mouse"].flag = FALSE
  BY <1>1 DEF Noop
<1>3. /\ KindParams["v1"].unused = FALSE /\ KindParams["v1"].pen = 7
      /\ KindParams["v1"].frame = 0 /\ KindParams["v1"].flag = FALSE
  BY <1>1 DEF V1, Noop
<1>4. /\ KindParams["v1_buttons"].unused = FALSE /\ KindParams["v1_buttons"].pen = 7
      /\ KindParams["v1_buttons"].frame = 247 /\ KindParams["v1_buttons"].flag = TRUE
  BY <1>1 DEF V1, Noop
<1>5. /\ KindParams["v2_buttons"].unused = FALSE /\ KindParams["v2_buttons"].pen = 8
      /\ KindParams["v2_buttons"].frame = 247 /\ KindParams["v2_buttons"].flag = TRUE
  BY <1>1 DEF V2, Noop
<1>6. /\ KindParams["g5"].unused = FALSE /\ KindParams["g5"].pen = 7
      /\ KindParams["g5"].frame = 6 /\ KindParams["g5"].flag = FALSE
  BY <1>1 DEF V1, Noop
<1> QED BY <1>2, <1>3, <1>4, <1>5, <1>6

\* An interface that gets bound is of a kind that raw_event is modelled for.
THEOREM KindIsKnown == Spec => []KindKnown
<1>1. IInv => KindKnown
  <2> SUFFICES ASSUME IInv, pc \in {"bound", "suspended"}
               PROVE  \E k \in Kinds :
                        /\ drv.unused = KindParams[k].unused /\ drv.pen = KindParams[k].pen
                        /\ drv.frame = KindParams[k].frame /\ drv.flag = KindParams[k].flag
    BY DEF KindKnown
  <2>1. drv \in Outcomes /\ ~drv.invalid
    BY DEF IInv, DrvInv, Settled
  <2> DEFINE Like(k) == /\ drv.unused = KindParams[k].unused /\ drv.pen = KindParams[k].pen
                        /\ drv.frame = KindParams[k].frame /\ drv.flag = KindParams[k].flag
  <2>2. CASE drv \in {Zero, Common}
    <3>1. /\ drv.unused = FALSE /\ drv.pen = 0 /\ drv.frame = 0 /\ drv.flag = FALSE
      BY <2>2 DEF Zero, Common
    <3>2. Like("plain")
      BY <3>1, KindFields, Zenon
    <3>3. "plain" \in Kinds
      BY DEF Kinds
    <3> QED BY <3>2, <3>3
  <2>3. CASE drv = PenUnused
    <3>1. /\ drv.unused = TRUE /\ drv.pen = 0 /\ drv.frame = 0 /\ drv.flag = FALSE
      BY <2>3 DEF PenUnused, Zero
    <3>2. Like("mouse")
      <4>1. drv.unused = KindParams["mouse"].unused
        <5>1. KindParams["mouse"].unused = TRUE
          BY KindFields
        <5> QED BY <3>1, <5>1
      <4>2. drv.flag = KindParams["mouse"].flag
        <5>1. KindParams["mouse"].flag = FALSE
          BY KindFields
        <5> QED BY <3>1, <5>1
      <4>3. drv.pen = KindParams["mouse"].pen /\ drv.frame = KindParams["mouse"].frame
        BY <3>1, KindFields
      <4> QED BY <4>1, <4>2, <4>3
    <3>3. "mouse" \in Kinds
      BY DEF Kinds
    <3> QED BY <3>2, <3>3
  <2>4. CASE drv = PenOnly(7)
    <3>1. /\ drv.unused = FALSE /\ drv.pen = 7 /\ drv.frame = 0 /\ drv.flag = FALSE
      BY <2>4 DEF PenOnly, Zero
    <3>2. Like("v1")
      BY <3>1, KindFields, Zenon
    <3>3. "v1" \in Kinds
      BY DEF Kinds
    <3> QED BY <3>2, <3>3
  <2>5. CASE \E u \in Unframed : drv = Framed(u)
    <3>1. PICK u \in Unframed : drv = Framed(u)
      BY <2>5
    <3>2. /\ u \in {Zero, PenOnly(7), PenOnly(8)} /\ u \in Params
          /\ drv.pen = u.pen /\ drv.frame = FrameId /\ drv.flag = (dev.family = "huion")
          /\ drv.unused = u.unused
          /\ dev.family \in {"huion", "deco01", "g5", "ex07s"}
          /\ u = PenOnly(8) => dev.family = "huion"
          /\ u = Zero => dev.family = "deco01"
      BY <3>1, UnframedParams, FramedParams
    <3>3. /\ dev.family = "huion" => FrameId = 247
          /\ dev.family = "g5" => FrameId = 6
          /\ dev.family \in {"deco01", "ex07s"} => FrameId = 0
      BY DEF FrameId
    <3>4. /\ u.unused = FALSE
          /\ u = Zero => u.pen = 0
          /\ u = PenOnly(7) => u.pen = 7
          /\ u = PenOnly(8) => u.pen = 8
      BY <3>1, <3>2, UnframedParams, SimpleParams, PenParams DEF Params
    <3>5. CASE u = PenOnly(8)
      <4>1. /\ drv.unused = FALSE /\ drv.pen = 8 /\ drv.frame = 247 /\ drv.flag = TRUE
        BY <3>2, <3>3, <3>4, <3>5
      <4>2. Like("v2_buttons")
        BY <4>1, KindFields, Zenon
      <4>3. "v2_buttons" \in Kinds
        BY DEF Kinds
      <4> QED BY <4>2, <4>3
    <3>6. CASE u = PenOnly(7) /\ dev.family = "huion"
      <4>1. /\ drv.unused = FALSE /\ drv.pen = 7 /\ drv.frame = 247 /\ drv.flag = TRUE
        BY <3>2, <3>3, <3>4, <3>6
      <4>2. Like("v1_buttons")
        BY <4>1, KindFields, Zenon
      <4>3. "v1_buttons" \in Kinds
        BY DEF Kinds
      <4> QED BY <4>2, <4>3
    <3>7. CASE u = PenOnly(7) /\ dev.family = "g5"
      <4>1. /\ drv.unused = FALSE /\ drv.pen = 7 /\ drv.frame = 6 /\ drv.flag = FALSE
        BY <3>2, <3>3, <3>4, <3>7
      <4>2. Like("g5")
        BY <4>1, KindFields, Zenon
      <4>3. "g5" \in Kinds
        BY DEF Kinds
      <4> QED BY <4>2, <4>3
    <3>8. CASE u = PenOnly(7) /\ dev.family \in {"deco01", "ex07s"}
      <4>1. /\ drv.unused = FALSE /\ drv.pen = 7 /\ drv.frame = 0 /\ drv.flag = FALSE
        BY <3>2, <3>3, <3>4, <3>8
      <4>2. Like("v1")
        BY <4>1, KindFields, Zenon
      <4>3. "v1" \in Kinds
        BY DEF Kinds
      <4> QED BY <4>2, <4>3
    <3>9. CASE u = Zero
      <4>1. /\ drv.unused = FALSE /\ drv.pen = 0 /\ drv.frame = 0 /\ drv.flag = FALSE
        BY <3>2, <3>3, <3>4, <3>9
      <4>2. Like("plain")
        BY <4>1, KindFields, Zenon
      <4>3. "plain" \in Kinds
        BY DEF Kinds
      <4> QED BY <4>2, <4>3
    <3> QED BY <3>2, <3>5, <3>6, <3>7, <3>8, <3>9
  <2>6. drv # Invalid(Zero)
    BY <2>1, SimpleParams
  <2> QED BY <2>1, <2>2, <2>3, <2>4, <2>5, <2>6 DEF Outcomes
<1> QED BY <1>1, ProbeInductive, PTL

\* A resume that reports success has put the tablet back into the mode of its
\* bound parameters, though it throws away what it has found (uclogic_resume
\* 244-258).
THEOREM ModeIsMatched == Spec => []ModeMatches
<1>1. IInv => ModeMatches
  BY DEF IInv, ModeInv, ModeOf, ModeMatches
<1> QED BY <1>1, ProbeInductive, PTL

-----------------------------------------------------------------------------
(* The bits of the reports                                                 *)

\* What FirstBit's sum is by its definition.
IsSum(r, f) ==
    f = [n \in 1..(Len(r.fields) + 1) |->
            IF n = 1 THEN 0
            ELSE f[n - 1] + r.fields[n - 1].size * r.fields[n - 1].count]

\* There is one such sum, so any function that adds up is it.
LEMMA SumIsFirstBit ==
    ASSUME NEW r, Len(r.fields) \in Nat, NEW g, IsSum(r, g)
    PROVE  \A i \in 1..(Len(r.fields) + 1) : FirstBit(r, i) = g[i]
<1> DEFINE f == CHOOSE s : IsSum(r, s)
           T == {n \in 1..(Len(r.fields) + 1) : f[n] # g[n]}
<1>1. IsSum(r, f)
  BY Zenon
<1>2. \A i : FirstBit(r, i) = f[i]
  BY Zenon DEF FirstBit, IsSum
<1> HIDE DEF f
<1>3. \A n \in 1..(Len(r.fields) + 1) :
         /\ n = 1 => f[n] = 0 /\ g[n] = 0
         /\ n # 1 => /\ f[n] = f[n - 1] + r.fields[n - 1].size * r.fields[n - 1].count
                     /\ g[n] = g[n - 1] + r.fields[n - 1].size * r.fields[n - 1].count
  BY <1>1 DEF IsSum
<1>4. T = {}
  <2> SUFFICES ASSUME T # {} PROVE FALSE
    OBVIOUS
  <2>1. T \subseteq Nat
    OBVIOUS
  <2>2. PICK n \in T : \A m \in T : ~(<<m, n>> \in OpToRel(<, Nat))
    <3> HIDE DEF T
    <3> QED BY <2>1, WFMin, NatLessThanWellFounded
  <2>3. \A m \in T : ~(m < n)
    BY <2>1, <2>2 DEF OpToRel
  <2>4. n \in 1..(Len(r.fields) + 1) /\ f[n] # g[n]
    OBVIOUS
  <2>5. n # 1
    BY <1>3, <2>4
  <2>6. n - 1 \in 1..(Len(r.fields) + 1) /\ n - 1 < n
    BY <2>4, <2>5
  <2>7. f[n - 1] = g[n - 1]
    BY <2>3, <2>6
  <2> QED BY <1>3, <2>4, <2>5, <2>7
<1> QED BY <1>2, <1>4

\* The number of bits in field i of a report.
Width(r, i) == r.fields[i].size * r.fields[i].count

\* The n fields of a report start where the sequence g, of length m, says.
StartsAt(r, n, m, g) ==
    /\ n \in Nat /\ Len(r.fields) = n /\ m = n + 1
    /\ g \in [1..m -> Int] /\ g[1] = 0
    /\ \A i \in 1..n : g[i + 1] = g[i] + Width(r, i)
    /\ \A i, j \in 1..m : i <= j => g[i] <= g[j]

LEMMA Starts ==
    ASSUME NEW r, NEW n, NEW m, NEW g, StartsAt(r, n, m, g)
    PROVE  \A i \in 1..(n + 1) : FirstBit(r, i) = g[i]
<1>1. /\ n \in Nat /\ Len(r.fields) = n /\ m = n + 1
      /\ g \in [1..(n + 1) -> Int] /\ g[1] = 0
      /\ \A i \in 1..n : g[i + 1] = g[i] + Width(r, i)
  BY DEF StartsAt
<1>2. \A i \in 1..(n + 1) : i # 1 => i - 1 \in 1..n /\ (i - 1) + 1 = i
  BY <1>1
<1>3. \A i \in 1..(n + 1) : i # 1 => g[i] = g[i - 1] + Width(r, i - 1)
  BY <1>1, <1>2
<1>4. g = [i \in 1..(n + 1) |->
             IF i = 1 THEN 0 ELSE g[i - 1] + r.fields[i - 1].size * r.fields[i - 1].count]
  BY <1>1, <1>3 DEF Width
<1>5. IsSum(r, g)
  BY <1>1, <1>4 DEF IsSum
<1> QED BY <1>1, <1>5, SumIsFirstBit

\* So a report is as long as where a field behind its last would start.
LEMMA LengthIs ==
    ASSUME NEW r, NEW n, NEW m, NEW g, StartsAt(r, n, m, g)
    PROVE  Length(r) = g[m]
<1>1. n \in Nat /\ Len(r.fields) = n /\ m = n + 1
  BY DEF StartsAt
<1>2. FirstBit(r, n + 1) = g[n + 1]
  BY <1>1, Starts
<1> QED BY <1>1, <1>2 DEF Length

\* And a bit belongs to the one field that starts before it and ends after it.
LEMMA FieldIs ==
    ASSUME NEW r, NEW n, NEW m, NEW g, StartsAt(r, n, m, g),
           NEW b \in Int, NEW i \in 1..n, g[i] <= b, b < g[i + 1]
    PROVE  FieldAt(r, b) = r.fields[i]
<1>1. /\ n \in Nat /\ Len(r.fields) = n /\ m = n + 1 /\ g \in [1..m -> Int]
      /\ \A j, k \in 1..m : j <= k => g[j] <= g[k]
  BY DEF StartsAt
<1>2. \A j \in 1..(n + 1) : FirstBit(r, j) = g[j]
  BY Starts
<1>3. ASSUME NEW j \in 1..Len(r.fields), FirstBit(r, j) <= b, b < FirstBit(r, j + 1)
      PROVE  j = i
  <2>1. j \in 1..n /\ g[j] <= b /\ b < g[j + 1]
    BY <1>1, <1>2, <1>3
  <2>2. ~(j + 1 <= i)
    BY <1>1, <2>1
  <2>3. ~(i + 1 <= j)
    BY <1>1, <2>1
  <2> QED BY <1>1, <2>1, <2>2, <2>3
<1>4. i \in 1..Len(r.fields) /\ FirstBit(r, i) <= b /\ b < FirstBit(r, i + 1)
  BY <1>1, <1>2
<1>5. (CHOOSE j \in 1..Len(r.fields) : FirstBit(r, j) <= b /\ b < FirstBit(r, j + 1)) = i
  BY <1>3, <1>4
<1> QED BY <1>5 DEF FieldAt

\* The width and the use of the fields that the descriptors are made of.
LEMMA Fields ==
    /\ \A use, n : Bits(use, n).size = 1 /\ Bits(use, n).count = n /\ Bits(use, n).use = use
    /\ \A n : Pad(n).size = 1 /\ Pad(n).count = n /\ Pad(n).use = "pad"
    /\ \A use, size, hi : /\ Axis(use, size, hi).size = size /\ Axis(use, size, hi).count = 1
                          /\ Axis(use, size, hi).use = use
    /\ \A use, size, n : Notch(use, size, n).size = size /\ Notch(use, size, n).count = n
    /\ \A use, size, n, lo, hi : /\ Field(use, size, n, lo, hi).size = size
                                 /\ Field(use, size, n, lo, hi).count = n
  BY DEF Bits, Pad, Axis, Notch, Field

\* Bits 0x20 and 0x40 of a v1 pen's reports.
LEMMA PenV1Bits ==
    ASSUME NEW r \in PenV1
    PROVE  /\ Length(r) = 56
           /\ FieldAt(r, 5).use = "pad"
           /\ FieldAt(r, 6).use = "inrange"
<1> DEFINE g == <<0, 3, 6, 7, 8, 24, 40, 56>>
<1>1. Len(r.fields) = 7
  BY DEF PenV1, RangedPen, Input, PressureMax
<1>2. /\ r.fields[1].size = 1 /\ r.fields[1].count = 3
      /\ r.fields[2].size = 1 /\ r.fields[2].count = 3
      /\ r.fields[3].size = 1 /\ r.fields[3].count = 1
      /\ r.fields[4].size = 1 /\ r.fields[4].count = 1
      /\ r.fields[5].size = 16 /\ r.fields[5].count = 1
      /\ r.fields[6].size = 16 /\ r.fields[6].count = 1
      /\ r.fields[7].size = 16 /\ r.fields[7].count = 1
  BY Fields DEF PenV1, RangedPen, Input, PressureMax
<1>3. /\ r.fields[2].use = "pad"
      /\ r.fields[3].use = "inrange"
  BY Fields DEF PenV1, RangedPen, Input, PressureMax
<1>4. /\ Width(r, 1) = 3
      /\ Width(r, 2) = 3
      /\ Width(r, 3) = 1
      /\ Width(r, 4) = 1
      /\ Width(r, 5) = 16
      /\ Width(r, 6) = 16
      /\ Width(r, 7) = 16
  BY <1>2 DEF Width
<1>5. StartsAt(r, 7, 8, g)
  <2>1. \A i \in 1..7 : g[i + 1] = g[i] + Width(r, i)
    BY <1>4
  <2>2. g \in [1..8 -> Int] /\ g[1] = 0 /\ 7 \in Nat /\ 8 = 7 + 1
    OBVIOUS
  <2>3. \A i, j \in 1..8 : i <= j => g[i] <= g[j]
    OBVIOUS
  <2> HIDE DEF g
  <2> QED BY <1>1, <2>1, <2>2, <2>3 DEF StartsAt
<1>6. /\ g[2] <= 5 /\ 5 < g[2 + 1]
      /\ g[3] <= 6 /\ 6 < g[3 + 1]
      /\ g[8] = 56
  OBVIOUS
<1> HIDE DEF g
<1>7. Length(r) = 56
  BY <1>5, <1>6, LengthIs
<1>8. FieldAt(r, 5) = r.fields[2]
  BY <1>5, <1>6, FieldIs
<1>9. FieldAt(r, 6) = r.fields[3]
  BY <1>5, <1>6, FieldIs
<1> QED BY <1>3, <1>7, <1>8, <1>9

\* Bits 0x20 and 0x40 of a v2 pen's reports.
LEMMA PenV2Bits ==
    ASSUME NEW r \in PenV2
    PROVE  /\ Length(r) = 88
           /\ FieldAt(r, 5).use = "pad"
           /\ FieldAt(r, 6).use = "inrange"
<1> DEFINE g == <<0, 3, 6, 7, 8, 32, 56, 72, 88>>
<1>1. Len(r.fields) = 8
  BY DEF PenV2, RangedPen, Input, PressureMax
<1>2. /\ r.fields[1].size = 1 /\ r.fields[1].count = 3
      /\ r.fields[2].size = 1 /\ r.fields[2].count = 3
      /\ r.fields[3].size = 1 /\ r.fields[3].count = 1
      /\ r.fields[4].size = 1 /\ r.fields[4].count = 1
      /\ r.fields[5].size = 24 /\ r.fields[5].count = 1
      /\ r.fields[6].size = 24 /\ r.fields[6].count = 1
      /\ r.fields[7].size = 16 /\ r.fields[7].count = 1
      /\ r.fields[8].size = 1 /\ r.fields[8].count = 16
  BY Fields DEF PenV2, RangedPen, Input, PressureMax
<1>3. /\ r.fields[2].use = "pad"
      /\ r.fields[3].use = "inrange"
  BY Fields DEF PenV2, RangedPen, Input, PressureMax
<1>4. /\ Width(r, 1) = 3
      /\ Width(r, 2) = 3
      /\ Width(r, 3) = 1
      /\ Width(r, 4) = 1
      /\ Width(r, 5) = 24
      /\ Width(r, 6) = 24
      /\ Width(r, 7) = 16
      /\ Width(r, 8) = 16
  BY <1>2 DEF Width
<1>5. StartsAt(r, 8, 9, g)
  <2>1. \A i \in 1..8 : g[i + 1] = g[i] + Width(r, i)
    BY <1>4
  <2>2. g \in [1..9 -> Int] /\ g[1] = 0 /\ 8 \in Nat /\ 9 = 8 + 1
    OBVIOUS
  <2>3. \A i, j \in 1..9 : i <= j => g[i] <= g[j]
    OBVIOUS
  <2> HIDE DEF g
  <2> QED BY <1>1, <2>1, <2>2, <2>3 DEF StartsAt
<1>6. /\ g[2] <= 5 /\ 5 < g[2 + 1]
      /\ g[3] <= 6 /\ 6 < g[3 + 1]
      /\ g[9] = 88
  OBVIOUS
<1> HIDE DEF g
<1>7. Length(r) = 88
  BY <1>5, <1>6, LengthIs
<1>8. FieldAt(r, 5) = r.fields[2]
  BY <1>5, <1>6, FieldIs
<1>9. FieldAt(r, 6) = r.fields[3]
  BY <1>5, <1>6, FieldIs
<1> QED BY <1>3, <1>7, <1>8, <1>9

\* Bit 0x20 of the buttons that come in a v1 pen's reports.
LEMMA ButtonpadV1Bits ==
    ASSUME NEW r \in ButtonpadV1
    PROVE  /\ Length(r) = 56
           /\ FieldAt(r, 5).use = "pad"
<1> DEFINE g == <<0, 1, 3, 24, 34, 36, 56>>
<1>1. Len(r.fields) = 6
  BY DEF ButtonpadV1, Buttonpad, Input
<1>2. /\ r.fields[1].size = 1 /\ r.fields[1].count = 1
      /\ r.fields[2].size = 1 /\ r.fields[2].count = 2
      /\ r.fields[3].size = 1 /\ r.fields[3].count = 21
      /\ r.fields[4].size = 1 /\ r.fields[4].count = 10
      /\ r.fields[5].size = 1 /\ r.fields[5].count = 2
      /\ r.fields[6].size = 1 /\ r.fields[6].count = 20
  BY Fields DEF ButtonpadV1, Buttonpad, Input
<1>3. /\ r.fields[3].use = "pad"
  BY Fields DEF ButtonpadV1, Buttonpad, Input
<1>4. /\ Width(r, 1) = 1
      /\ Width(r, 2) = 2
      /\ Width(r, 3) = 21
      /\ Width(r, 4) = 10
      /\ Width(r, 5) = 2
      /\ Width(r, 6) = 20
  BY <1>2 DEF Width
<1>5. StartsAt(r, 6, 7, g)
  <2>1. \A i \in 1..6 : g[i + 1] = g[i] + Width(r, i)
    BY <1>4
  <2>2. g \in [1..7 -> Int] /\ g[1] = 0 /\ 6 \in Nat /\ 7 = 6 + 1
    OBVIOUS
  <2>3. \A i, j \in 1..7 : i <= j => g[i] <= g[j]
    OBVIOUS
  <2> HIDE DEF g
  <2> QED BY <1>1, <2>1, <2>2, <2>3 DEF StartsAt
<1>6. /\ g[3] <= 5 /\ 5 < g[3 + 1]
      /\ g[7] = 56
  OBVIOUS
<1> HIDE DEF g
<1>7. Length(r) = 56
  BY <1>5, <1>6, LengthIs
<1>8. FieldAt(r, 5) = r.fields[3]
  BY <1>5, <1>6, FieldIs
<1> QED BY <1>3, <1>7, <1>8

\* Bit 0x20 of the buttons that come in a v2 pen's reports.
LEMMA ButtonpadV2Bits ==
    ASSUME NEW r \in ButtonpadV2
    PROVE  /\ Length(r) = 88
           /\ FieldAt(r, 5).use = "pad"
<1> DEFINE g == <<0, 1, 3, 24, 34, 36, 88>>
<1>1. Len(r.fields) = 6
  BY DEF ButtonpadV2, Buttonpad, Input
<1>2. /\ r.fields[1].size = 1 /\ r.fields[1].count = 1
      /\ r.fields[2].size = 1 /\ r.fields[2].count = 2
      /\ r.fields[3].size = 1 /\ r.fields[3].count = 21
      /\ r.fields[4].size = 1 /\ r.fields[4].count = 10
      /\ r.fields[5].size = 1 /\ r.fields[5].count = 2
      /\ r.fields[6].size = 1 /\ r.fields[6].count = 52
  BY Fields DEF ButtonpadV2, Buttonpad, Input
<1>3. /\ r.fields[3].use = "pad"
  BY Fields DEF ButtonpadV2, Buttonpad, Input
<1>4. /\ Width(r, 1) = 1
      /\ Width(r, 2) = 2
      /\ Width(r, 3) = 21
      /\ Width(r, 4) = 10
      /\ Width(r, 5) = 2
      /\ Width(r, 6) = 52
  BY <1>2 DEF Width
<1>5. StartsAt(r, 6, 7, g)
  <2>1. \A i \in 1..6 : g[i + 1] = g[i] + Width(r, i)
    BY <1>4
  <2>2. g \in [1..7 -> Int] /\ g[1] = 0 /\ 6 \in Nat /\ 7 = 6 + 1
    OBVIOUS
  <2>3. \A i, j \in 1..7 : i <= j => g[i] <= g[j]
    OBVIOUS
  <2> HIDE DEF g
  <2> QED BY <1>1, <2>1, <2>2, <2>3 DEF StartsAt
<1>6. /\ g[3] <= 5 /\ 5 < g[3 + 1]
      /\ g[7] = 88
  OBVIOUS
<1> HIDE DEF g
<1>7. Length(r) = 88
  BY <1>5, <1>6, LengthIs
<1>8. FieldAt(r, 5) = r.fields[3]
  BY <1>5, <1>6, FieldIs
<1> QED BY <1>3, <1>7, <1>8

\* The G5's device ID and encoder.
LEMMA G5FrameBits ==
    ASSUME NEW r \in G5Frame
    PROVE  /\ Length(r) = 32
           /\ FieldAt(r, 8).use = "dev_id"
           /\ FieldAt(r, 30) = Notch("wheel", 2, 1)
           /\ FieldAt(r, 29).use = "pad"
<1> DEFINE g == <<0, 5, 8, 16, 17, 19, 30, 32>>
<1>1. Len(r.fields) = 7
  BY DEF G5Frame, Input
<1>2. /\ r.fields[1].size = 1 /\ r.fields[1].count = 5
      /\ r.fields[2].size = 1 /\ r.fields[2].count = 3
      /\ r.fields[3].size = 8 /\ r.fields[3].count = 1
      /\ r.fields[4].size = 1 /\ r.fields[4].count = 1
      /\ r.fields[5].size = 1 /\ r.fields[5].count = 2
      /\ r.fields[6].size = 1 /\ r.fields[6].count = 11
      /\ r.fields[7].size = 2 /\ r.fields[7].count = 1
  BY Fields DEF G5Frame, Input
<1>3. /\ r.fields[3].use = "dev_id"
      /\ r.fields[7] = Notch("wheel", 2, 1)
      /\ r.fields[6].use = "pad"
  BY Fields DEF G5Frame, Input
<1>4. /\ Width(r, 1) = 5
      /\ Width(r, 2) = 3
      /\ Width(r, 3) = 8
      /\ Width(r, 4) = 1
      /\ Width(r, 5) = 2
      /\ Width(r, 6) = 11
      /\ Width(r, 7) = 2
  BY <1>2 DEF Width
<1>5. StartsAt(r, 7, 8, g)
  <2>1. \A i \in 1..7 : g[i + 1] = g[i] + Width(r, i)
    BY <1>4
  <2>2. g \in [1..8 -> Int] /\ g[1] = 0 /\ 7 \in Nat /\ 8 = 7 + 1
    OBVIOUS
  <2>3. \A i, j \in 1..8 : i <= j => g[i] <= g[j]
    OBVIOUS
  <2> HIDE DEF g
  <2> QED BY <1>1, <2>1, <2>2, <2>3 DEF StartsAt
<1>6. /\ g[3] <= 8 /\ 8 < g[3 + 1]
      /\ g[7] <= 30 /\ 30 < g[7 + 1]
      /\ g[6] <= 29 /\ 29 < g[6 + 1]
      /\ g[8] = 32
  OBVIOUS
<1> HIDE DEF g
<1>7. Length(r) = 32
  BY <1>5, <1>6, LengthIs
<1>8. FieldAt(r, 8) = r.fields[3]
  BY <1>5, <1>6, FieldIs
<1>9. FieldAt(r, 30) = r.fields[7]
  BY <1>5, <1>6, FieldIs
<1>10. FieldAt(r, 29) = r.fields[6]
  BY <1>5, <1>6, FieldIs
<1> QED BY <1>3, <1>7, <1>8, <1>9, <1>10

\* Only Huion's pen reports carry frame controls.
LEMMA FlagIsHuion ==
    ASSUME drv \in Outcomes, drv.flag
    PROVE  dev.family = "huion"
<1>1. Zero.flag = FALSE /\ PenUnused.flag = FALSE /\ Common.flag = FALSE /\ PenOnly(7).flag = FALSE
  BY SimpleParams, PenParams
<1>2. Invalid(Zero).flag = FALSE
  BY DEF Invalid, Zero
<1>3. PICK q \in Unframed : drv = Framed(q)
  BY <1>1, <1>2 DEF Outcomes
<1>4. q \in Params
  BY UnframedParams
<1>5. drv.flag = (dev.family = "huion")
  BY <1>3, <1>4, FramedParams
<1> QED BY <1>5, Zenon

\* Each bit that uclogic_raw_event reads or writes by its number belongs to the
\* field that it is about, in the descriptor the interface was given
\* (uclogic_raw_event 272-357, hid-uclogic-rdesc.c).
THEOREM TweaksAlwaysFit == Spec => []TweaksFit
<1>1. IInv => TweaksFit
  <2> SUFFICES ASSUME IInv, pc \in {"bound", "suspended"} PROVE TweaksFit
    BY Zenon DEF TweaksFit
  <2>1. drv \in Outcomes
    BY DEF IInv, DrvInv
  <2>2. /\ PartTable(drv, "pen") = (IF drv.pen = 8 THEN PenV2 ELSE PenV1)
        /\ PartTable(drv, "frame") = FrameTable(drv)
    BY DEF PartTable
  <2>3. \A r \in PartTable(drv, "pen") : FieldAt(r, 6).use = "inrange"
    BY <2>2, PenV1Bits, PenV2Bits
  <2>4. ASSUME drv.flag, NEW r1 \in PartTable(drv, "pen"), NEW r2 \in PartTable(drv, "frame")
        PROVE  /\ FieldAt(r1, 5).use = "pad" /\ FieldAt(r2, 5).use = "pad"
               /\ Length(r1) = Length(r2)
    <3>1. FrameTable(drv) = (IF drv.pen = 8 THEN ButtonpadV2 ELSE ButtonpadV1)
      BY <2>1, <2>4, FlagIsHuion DEF FrameTable
    <3>2. CASE drv.pen = 8
      <4>1. r1 \in PenV2 /\ r2 \in ButtonpadV2
        BY <2>2, <3>1, <3>2
      <4> QED BY <4>1, PenV2Bits, ButtonpadV2Bits
    <3>3. CASE drv.pen # 8
      <4>1. r1 \in PenV1 /\ r2 \in ButtonpadV1
        BY <2>2, <3>1, <3>3
      <4> QED BY <4>1, PenV1Bits, ButtonpadV1Bits
    <3> QED BY <3>2, <3>3
  <2>5. ASSUME dev.family = "g5", NEW r \in PartTable(drv, "frame")
        PROVE  /\ FieldAt(r, 8 * (G5DevIdByte - 1)).use = "dev_id"
               /\ FieldAt(r, G5ReLsb - 8) = Notch("wheel", 2, 1)
               /\ FieldAt(r, G5ReLsb - 9).use # "wheel"
    <3>1. r \in G5Frame
      BY <2>2, <2>5 DEF FrameTable
    <3>2. 8 * (G5DevIdByte - 1) = 8 /\ G5ReLsb - 8 = 30 /\ G5ReLsb - 9 = 29
      BY DEF G5DevIdByte, G5ReLsb
    <3>3. FieldAt(r, 8).use = "dev_id" /\ FieldAt(r, 30) = Notch("wheel", 2, 1) /\ FieldAt(r, 29).use = "pad"
      BY <3>1, G5FrameBits
    <3> QED BY <3>2, <3>3
  <2> QED BY <2>3, <2>4, <2>5 DEF TweaksFit
<1> QED BY <1>1, ProbeInductive, PTL

-----------------------------------------------------------------------------
(* The descriptors                                                         *)

\* A whole number of bytes, with room in each field for its limits.
Fine(r) == Length(r) % 8 = 0 /\ \A i \in DOMAIN r.fields : Fits(r.fields[i])

\* The size and the limits of a field, and those that leave it room.
Limits(f, size, lo, hi) ==
    f.size = size /\ f.lo = lo /\ f.hi \in Int /\ lo <= f.hi /\ f.hi <= hi

LEMMA Room ==
    ASSUME NEW f
    PROVE  /\ Limits(f, 1, 0, 1) => Fits(f)
           /\ Limits(f, 8, 0, 255) => Fits(f)
           /\ Limits(f, 16, 0, 65535) => Fits(f)
           /\ Limits(f, 24, 0, 16777215) => Fits(f)
           /\ Limits(f, 2, -1, 1) => Fits(f)
           /\ Limits(f, 8, -1, 1) => Fits(f)
           /\ Limits(f, 8, -127, 127) => Fits(f)
           /\ Limits(f, 16, -32768, 32767) => Fits(f)
<1>1. /\ 2 ^ 1 = 2 /\ 2 ^ 8 = 256 /\ 2 ^ 16 = 65536 /\ 2 ^ 24 = 16777216
      /\ 2 ^ (2 - 1) = 2 /\ 2 ^ (8 - 1) = 128 /\ 2 ^ (16 - 1) = 32768
  OBVIOUS
<1>2. ASSUME Limits(f, 1, 0, 1)
      PROVE  Fits(f)
  <2>1. f.size = 1 /\ f.lo = 0 /\ f.hi < 2
    BY <1>2, SMT DEF Limits
  <2>2. 2 ^ f.size = 2
    BY <1>1, <2>1, SMT
  <2>3. f.hi < 2 ^ f.size
    BY <2>1, <2>2, SMT
  <2> QED BY <2>1, <2>3, SMT DEF Fits
<1>3. ASSUME Limits(f, 8, 0, 255)
      PROVE  Fits(f)
  <2>1. f.size = 8 /\ f.lo = 0 /\ f.hi < 256
    BY <1>3, SMT DEF Limits
  <2>2. 2 ^ f.size = 256
    BY <1>1, <2>1, SMT
  <2>3. f.hi < 2 ^ f.size
    BY <2>1, <2>2, SMT
  <2> QED BY <2>1, <2>3, SMT DEF Fits
<1>4. ASSUME Limits(f, 16, 0, 65535)
      PROVE  Fits(f)
  <2>1. f.size = 16 /\ f.lo = 0 /\ f.hi < 65536
    BY <1>4, SMT DEF Limits
  <2>2. 2 ^ f.size = 65536
    BY <1>1, <2>1, SMT
  <2>3. f.hi < 2 ^ f.size
    BY <2>1, <2>2, SMT
  <2> QED BY <2>1, <2>3, SMT DEF Fits
<1>5. ASSUME Limits(f, 24, 0, 16777215)
      PROVE  Fits(f)
  <2>1. f.size = 24 /\ f.lo = 0 /\ f.hi < 16777216
    BY <1>5, SMT DEF Limits
  <2>2. 2 ^ f.size = 16777216
    BY <1>1, <2>1, SMT
  <2>3. f.hi < 2 ^ f.size
    BY <2>1, <2>2, SMT
  <2> QED BY <2>1, <2>3, SMT DEF Fits
<1>6. ASSUME Limits(f, 2, -1, 1)
      PROVE  Fits(f)
  <2>1. f.size = 2 /\ f.lo < 0 /\ f.lo >= -2 /\ f.hi < 2
    BY <1>6, SMT DEF Limits
  <2>2. 2 ^ (f.size - 1) = 2
    BY <1>1, <2>1, SMT
  <2>3. f.hi < 2 ^ (f.size - 1) /\ f.lo >= -(2 ^ (f.size - 1))
    BY <2>1, <2>2, SMT
  <2> QED BY <2>1, <2>3, SMT DEF Fits
<1>7. ASSUME Limits(f, 8, -1, 1)
      PROVE  Fits(f)
  <2>1. f.size = 8 /\ f.lo < 0 /\ f.lo >= -128 /\ f.hi < 128
    BY <1>7, SMT DEF Limits
  <2>2. 2 ^ (f.size - 1) = 128
    BY <1>1, <2>1, SMT
  <2>3. f.hi < 2 ^ (f.size - 1) /\ f.lo >= -(2 ^ (f.size - 1))
    BY <2>1, <2>2, SMT
  <2> QED BY <2>1, <2>3, SMT DEF Fits
<1>8. ASSUME Limits(f, 8, -127, 127)
      PROVE  Fits(f)
  <2>1. f.size = 8 /\ f.lo < 0 /\ f.lo >= -128 /\ f.hi < 128
    BY <1>8, SMT DEF Limits
  <2>2. 2 ^ (f.size - 1) = 128
    BY <1>1, <2>1, SMT
  <2>3. f.hi < 2 ^ (f.size - 1) /\ f.lo >= -(2 ^ (f.size - 1))
    BY <2>1, <2>2, SMT
  <2> QED BY <2>1, <2>3, SMT DEF Fits
<1>9. ASSUME Limits(f, 16, -32768, 32767)
      PROVE  Fits(f)
  <2>1. f.size = 16 /\ f.lo < 0 /\ f.lo >= -32768 /\ f.hi < 32768
    BY <1>9, SMT DEF Limits
  <2>2. 2 ^ (f.size - 1) = 32768
    BY <1>1, <2>1, SMT
  <2>3. f.hi < 2 ^ (f.size - 1) /\ f.lo >= -(2 ^ (f.size - 1))
    BY <2>1, <2>2, SMT
  <2> QED BY <2>1, <2>3, SMT DEF Fits
<1> QED BY <1>2, <1>3, <1>4, <1>5, <1>6, <1>7, <1>8, <1>9

\* The fields that the descriptors are made of, with the limits they are given.
Limits16 == {1023, 13166, 20000, 24999, 32000, 32767, 39999, 65535}

LEMMA Fitting ==
    /\ \A use, n : Fits(Bits(use, n)) /\ Fits(Pad(n))
    /\ \A use : Fits(Axis(use, 8, 255)) /\ Fits(Axis(use, 24, 2 ^ 24 - 1))
    /\ \A use : \A hi \in Limits16 : Fits(Axis(use, 16, hi))
    /\ \A use, n : Fits(Notch(use, 2, n)) /\ Fits(Notch(use, 8, n))
    /\ \A use, n : Fits(Field(use, 8, n, 0, 255)) /\ Fits(Field(use, 8, n, -127, 127))
    /\ \A use, n : Fits(Field(use, 16, n, -32768, 32767))
<1>1. ASSUME NEW use, NEW n
      PROVE  Fits(Bits(use, n)) /\ Fits(Pad(n))
  <2>1. Limits(Bits(use, n), 1, 0, 1) /\ Limits(Pad(n), 1, 0, 1)
    BY DEF Limits, Bits, Pad, Field
  <2> QED BY <2>1, Room
<1>2. ASSUME NEW use
      PROVE  Fits(Axis(use, 8, 255)) /\ Fits(Axis(use, 24, 2 ^ 24 - 1))
  <2>1. 2 ^ 24 - 1 = 16777215
    BY SMT
  <2>2. Limits(Axis(use, 8, 255), 8, 0, 255) /\ Limits(Axis(use, 24, 16777215), 24, 0, 16777215)
    BY SMT DEF Limits, Axis, Field
  <2> QED BY <2>1, <2>2, Room, SMT
<1>3. ASSUME NEW use, NEW hi \in Limits16
      PROVE  Fits(Axis(use, 16, hi))
  <2>1. Limits(Axis(use, 16, hi), 16, 0, 65535)
    BY SMT DEF Limits, Limits16, Axis, Field
  <2> QED BY <2>1, Room, SMT
<1>4. ASSUME NEW use, NEW n
      PROVE  Fits(Notch(use, 2, n)) /\ Fits(Notch(use, 8, n))
  <2>1. Limits(Notch(use, 2, n), 2, -1, 1) /\ Limits(Notch(use, 8, n), 8, -1, 1)
    BY DEF Limits, Notch, Field
  <2> QED BY <2>1, Room
<1>5. ASSUME NEW use, NEW n
      PROVE  Fits(Field(use, 8, n, 0, 255)) /\ Fits(Field(use, 8, n, -127, 127))
  <2>1. Limits(Field(use, 8, n, 0, 255), 8, 0, 255) /\ Limits(Field(use, 8, n, -127, 127), 8, -127, 127)
    BY DEF Limits, Field
  <2> QED BY <2>1, Room
<1>6. ASSUME NEW use, NEW n
      PROVE  Fits(Field(use, 16, n, -32768, 32767))
  <2>1. Limits(Field(use, 16, n, -32768, 32767), 16, -32768, 32767)
    BY SMT DEF Limits, Field
  <2> QED BY <2>1, Room, SMT
<1> QED BY <1>1, <1>2, <1>3, <1>4, <1>5, <1>6

\* The pen's part for v1 tablets.
LEMMA PenV1Fine ==
    ASSUME NEW r \in PenV1
    PROVE  Fine(r)
<1>1. /\ Len(r.fields) = 7 /\ DOMAIN r.fields = 1..7
      /\ r.fields[1] = Bits("pen", 3)
      /\ r.fields[2] = Pad(3)
      /\ r.fields[3] = Bits("inrange", 1)
      /\ r.fields[4] = Pad(1)
      /\ r.fields[5] = Axis("x", 16, 65535)
      /\ r.fields[6] = Axis("y", 16, 65535)
      /\ r.fields[7] = Axis("pressure", 16, 65535)
  BY DEF PenV1, RangedPen, Input, PressureMax
<1>2. \A i \in 1..7 : Fits(r.fields[i])
  <2>1. {65535} \subseteq Limits16
    BY DEF Limits16
  <2>2. /\ Fits(Bits("pen", 3))
        /\ Fits(Pad(3))
        /\ Fits(Bits("inrange", 1))
        /\ Fits(Pad(1))
        /\ Fits(Axis("x", 16, 65535))
        /\ Fits(Axis("y", 16, 65535))
        /\ Fits(Axis("pressure", 16, 65535))
    BY <2>1, Fitting
  <2> QED BY <1>1, <2>2
<1>3. Length(r) = 56
  BY PenV1Bits
<1> QED BY <1>1, <1>2, <1>3 DEF Fine

\* The pen's part for v2 tablets.
LEMMA PenV2Fine ==
    ASSUME NEW r \in PenV2
    PROVE  Fine(r)
<1>1. /\ Len(r.fields) = 8 /\ DOMAIN r.fields = 1..8
      /\ r.fields[1] = Bits("pen", 3)
      /\ r.fields[2] = Pad(3)
      /\ r.fields[3] = Bits("inrange", 1)
      /\ r.fields[4] = Pad(1)
      /\ r.fields[5] = Axis("x", 24, 2 ^ 24 - 1)
      /\ r.fields[6] = Axis("y", 24, 2 ^ 24 - 1)
      /\ r.fields[7] = Axis("pressure", 16, 65535)
      /\ r.fields[8] = Pad(16)
  BY DEF PenV2, RangedPen, Input, PressureMax
<1>2. \A i \in 1..8 : Fits(r.fields[i])
  <2>1. {65535} \subseteq Limits16
    BY DEF Limits16
  <2>2. /\ Fits(Bits("pen", 3))
        /\ Fits(Pad(3))
        /\ Fits(Bits("inrange", 1))
        /\ Fits(Pad(1))
        /\ Fits(Axis("x", 24, 2 ^ 24 - 1))
        /\ Fits(Axis("y", 24, 2 ^ 24 - 1))
        /\ Fits(Axis("pressure", 16, 65535))
        /\ Fits(Pad(16))
    BY <2>1, Fitting
  <2> QED BY <1>1, <2>2
<1>3. Length(r) = 88
  BY PenV2Bits
<1> QED BY <1>1, <1>2, <1>3 DEF Fine

\* The frame's part for Huion's v1 tablets.
LEMMA ButtonpadV1Fine ==
    ASSUME NEW r \in ButtonpadV1
    PROVE  Fine(r)
<1>1. /\ Len(r.fields) = 6 /\ DOMAIN r.fields = 1..6
      /\ r.fields[1] = Bits("barrel", 1)
      /\ r.fields[2] = Bits("xy", 2)
      /\ r.fields[3] = Pad(21)
      /\ r.fields[4] = Bits("button", 10)
      /\ r.fields[5] = Bits("button", 2)
      /\ r.fields[6] = Pad(20)
  BY DEF ButtonpadV1, Buttonpad, Input
<1>2. \A i \in 1..6 : Fits(r.fields[i])
  <2>1. /\ Fits(Bits("barrel", 1))
        /\ Fits(Bits("xy", 2))
        /\ Fits(Pad(21))
        /\ Fits(Bits("button", 10))
        /\ Fits(Bits("button", 2))
        /\ Fits(Pad(20))
    BY Fitting
  <2> QED BY <1>1, <2>1
<1>3. Length(r) = 56
  BY ButtonpadV1Bits
<1> QED BY <1>1, <1>2, <1>3 DEF Fine

\* The frame's part for Huion's v2 tablets.
LEMMA ButtonpadV2Fine ==
    ASSUME NEW r \in ButtonpadV2
    PROVE  Fine(r)
<1>1. /\ Len(r.fields) = 6 /\ DOMAIN r.fields = 1..6
      /\ r.fields[1] = Bits("barrel", 1)
      /\ r.fields[2] = Bits("xy", 2)
      /\ r.fields[3] = Pad(21)
      /\ r.fields[4] = Bits("button", 10)
      /\ r.fields[5] = Bits("button", 2)
      /\ r.fields[6] = Pad(52)
  BY DEF ButtonpadV2, Buttonpad, Input
<1>2. \A i \in 1..6 : Fits(r.fields[i])
  <2>1. /\ Fits(Bits("barrel", 1))
        /\ Fits(Bits("xy", 2))
        /\ Fits(Pad(21))
        /\ Fits(Bits("button", 10))
        /\ Fits(Bits("button", 2))
        /\ Fits(Pad(52))
    BY Fitting
  <2> QED BY <1>1, <2>1
<1>3. Length(r) = 88
  BY ButtonpadV2Bits
<1> QED BY <1>1, <1>2, <1>3 DEF Fine

\* The frame's part for the G5.
LEMMA G5FrameFine ==
    ASSUME NEW r \in G5Frame
    PROVE  Fine(r)
<1>1. /\ Len(r.fields) = 7 /\ DOMAIN r.fields = 1..7
      /\ r.fields[1] = Bits("button", 5)
      /\ r.fields[2] = Pad(3)
      /\ r.fields[3] = Axis("dev_id", 8, 255)
      /\ r.fields[4] = Bits("barrel", 1)
      /\ r.fields[5] = Bits("xy", 2)
      /\ r.fields[6] = Pad(11)
      /\ r.fields[7] = Notch("wheel", 2, 1)
  BY DEF G5Frame, Input
<1>2. \A i \in 1..7 : Fits(r.fields[i])
  <2>1. /\ Fits(Bits("button", 5))
        /\ Fits(Pad(3))
        /\ Fits(Axis("dev_id", 8, 255))
        /\ Fits(Bits("barrel", 1))
        /\ Fits(Bits("xy", 2))
        /\ Fits(Pad(11))
        /\ Fits(Notch("wheel", 2, 1))
    BY Fitting
  <2> QED BY <1>1, <2>1
<1>3. Length(r) = 32
  BY G5FrameBits
<1> QED BY <1>1, <1>2, <1>3 DEF Fine

\* The frame's part for the Deco 01.
LEMMA Deco01FrameFine ==
    ASSUME NEW r \in Deco01Frame
    PROVE  Fine(r)
<1>1. /\ Len(r.fields) = 4 /\ DOMAIN r.fields = 1..4
      /\ r.fields[1] = Bits("button", 8)
      /\ r.fields[2] = Bits("barrel", 1)
      /\ r.fields[3] = Bits("xy", 2)
      /\ r.fields[4] = Pad(21)
  BY DEF Deco01Frame, Input
<1>2. \A i \in 1..4 : Fits(r.fields[i])
  <2>1. /\ Fits(Bits("button", 8))
        /\ Fits(Bits("barrel", 1))
        /\ Fits(Bits("xy", 2))
        /\ Fits(Pad(21))
    BY Fitting
  <2> QED BY <1>1, <2>1
<1> DEFINE g == <<0, 8, 9, 11, 32>>
<1>3. /\ Width(r, 1) = 8
      /\ Width(r, 2) = 1
      /\ Width(r, 3) = 2
      /\ Width(r, 4) = 21
  BY <1>1, Fields DEF Width
<1>4. StartsAt(r, 4, 5, g)
  <2>1. \A i \in 1..4 : g[i + 1] = g[i] + Width(r, i)
    BY <1>3
  <2>2. g \in [1..5 -> Int] /\ g[1] = 0 /\ 4 \in Nat /\ 5 = 4 + 1
    OBVIOUS
  <2>3. \A i, j \in 1..5 : i <= j => g[i] <= g[j]
    OBVIOUS
  <2> HIDE DEF g
  <2> QED BY <1>1, <2>1, <2>2, <2>3 DEF StartsAt
<1>5. g[5] = 32
  OBVIOUS
<1> HIDE DEF g
<1>6. Length(r) = 32
  BY <1>4, <1>5, LengthIs
<1> QED BY <1>1, <1>2, <1>6 DEF Fine

\* The frame's part for the EX07(S): whole bytes of single bits.
LEMMA Ex07ButtonpadBits ==
    ASSUME NEW max, NEW r \in Ex07Buttonpad(max)
    PROVE  Length(r) % 8 = 0 /\ \A i \in DOMAIN r.fields : r.fields[i].size = 1
<1>1. /\ Len(r.fields) = 3 /\ DOMAIN r.fields = 1..3
      /\ r.fields[1] = Field("button", 1, 4, 0, max)
      /\ r.fields[2] = Field("pad", 1, 26, 0, max)
      /\ r.fields[3] = Field("button", 1, 2, 0, max)
  BY DEF Ex07Buttonpad, Input
<1>2. \A i \in 1..3 : r.fields[i].size = 1
  BY <1>1, Fields
<1> DEFINE g == <<0, 4, 30, 32>>
<1>3. /\ Width(r, 1) = 4
      /\ Width(r, 2) = 26
      /\ Width(r, 3) = 2
  BY <1>1, Fields DEF Width
<1>4. StartsAt(r, 3, 4, g)
  <2>1. \A i \in 1..3 : g[i + 1] = g[i] + Width(r, i)
    BY <1>3
  <2>2. g \in [1..4 -> Int] /\ g[1] = 0 /\ 3 \in Nat /\ 4 = 3 + 1
    OBVIOUS
  <2>3. \A i, j \in 1..4 : i <= j => g[i] <= g[j]
    OBVIOUS
  <2> HIDE DEF g
  <2> QED BY <1>1, <2>1, <2>2, <2>3 DEF StartsAt
<1>5. g[4] = 32
  OBVIOUS
<1> HIDE DEF g
<1>6. Length(r) = 32
  BY <1>4, <1>5, LengthIs
<1> QED BY <1>1, <1>2, <1>6

\* The pen of WP4030U, WP5540U, WP8060U and PF1209.
LEMMA WpPenFine ==
    ASSUME NEW r, r = WpPen(32767, 32767)
    PROVE  Fine(r)
<1>1. /\ Len(r.fields) = 5 /\ DOMAIN r.fields = 1..5
      /\ r.fields[1] = Bits("pen", 3)
      /\ r.fields[2] = Pad(5)
      /\ r.fields[3] = Axis("x", 16, 32767)
      /\ r.fields[4] = Axis("y", 16, 32767)
      /\ r.fields[5] = Axis("pressure", 16, 1023)
  BY DEF WpPen, Input
<1>2. \A i \in 1..5 : Fits(r.fields[i])
  <2>1. {1023, 32767} \subseteq Limits16
    BY DEF Limits16
  <2>2. /\ Fits(Bits("pen", 3))
        /\ Fits(Pad(5))
        /\ Fits(Axis("x", 16, 32767))
        /\ Fits(Axis("y", 16, 32767))
        /\ Fits(Axis("pressure", 16, 1023))
    BY <2>1, Fitting
  <2> QED BY <1>1, <2>2
<1> DEFINE g == <<0, 3, 8, 24, 40, 56>>
<1>3. /\ Width(r, 1) = 3
      /\ Width(r, 2) = 5
      /\ Width(r, 3) = 16
      /\ Width(r, 4) = 16
      /\ Width(r, 5) = 16
  BY <1>1, Fields DEF Width
<1>4. StartsAt(r, 5, 6, g)
  <2>1. \A i \in 1..5 : g[i + 1] = g[i] + Width(r, i)
    BY <1>3
  <2>2. g \in [1..6 -> Int] /\ g[1] = 0 /\ 5 \in Nat /\ 6 = 5 + 1
    OBVIOUS
  <2>3. \A i, j \in 1..6 : i <= j => g[i] <= g[j]
    OBVIOUS
  <2> HIDE DEF g
  <2> QED BY <1>1, <2>1, <2>2, <2>3 DEF StartsAt
<1>5. g[6] = 56
  OBVIOUS
<1> HIDE DEF g
<1>6. Length(r) = 56
  BY <1>4, <1>5, LengthIs
<1> QED BY <1>1, <1>2, <1>6 DEF Fine

\* Their mouse.
LEMMA WpMouseFine ==
    ASSUME NEW r, r = WpMouse
    PROVE  Fine(r)
<1>1. /\ Len(r.fields) = 5 /\ DOMAIN r.fields = 1..5
      /\ r.fields[1] = Bits("button", 3)
      /\ r.fields[2] = Pad(5)
      /\ r.fields[3] = Field("move", 8, 2, -127, 127)
      /\ r.fields[4] = Notch("wheel", 8, 1)
      /\ r.fields[5] = Pad(8)
  BY DEF WpMouse, Input
<1>2. \A i \in 1..5 : Fits(r.fields[i])
  <2>1. /\ Fits(Bits("button", 3))
        /\ Fits(Pad(5))
        /\ Fits(Field("move", 8, 2, -127, 127))
        /\ Fits(Notch("wheel", 8, 1))
        /\ Fits(Pad(8))
    BY Fitting
  <2> QED BY <1>1, <2>1
<1> DEFINE g == <<0, 3, 8, 24, 32, 40>>
<1>3. /\ Width(r, 1) = 3
      /\ Width(r, 2) = 5
      /\ Width(r, 3) = 16
      /\ Width(r, 4) = 8
      /\ Width(r, 5) = 8
  BY <1>1, Fields DEF Width
<1>4. StartsAt(r, 5, 6, g)
  <2>1. \A i \in 1..5 : g[i + 1] = g[i] + Width(r, i)
    BY <1>3
  <2>2. g \in [1..6 -> Int] /\ g[1] = 0 /\ 5 \in Nat /\ 6 = 5 + 1
    OBVIOUS
  <2>3. \A i, j \in 1..6 : i <= j => g[i] <= g[j]
    OBVIOUS
  <2> HIDE DEF g
  <2> QED BY <1>1, <2>1, <2>2, <2>3 DEF StartsAt
<1>5. g[6] = 40
  OBVIOUS
<1> HIDE DEF g
<1>6. Length(r) = 40
  BY <1>4, <1>5, LengthIs
<1> QED BY <1>1, <1>2, <1>6 DEF Fine

\* The pen of the WP1062.
LEMMA Wp1062Fine ==
    ASSUME NEW r \in Wp1062
    PROVE  Fine(r)
<1>1. /\ Len(r.fields) = 7 /\ DOMAIN r.fields = 1..7
      /\ r.fields[1] = Bits("pen", 3)
      /\ r.fields[2] = Pad(4)
      /\ r.fields[3] = Bits("inrange", 1)
      /\ r.fields[4] = Pad(0)
      /\ r.fields[5] = Axis("x", 16, 20000)
      /\ r.fields[6] = Axis("y", 16, 13166)
      /\ r.fields[7] = Axis("pressure", 16, 1023)
  BY DEF Wp1062, RangedPen, Input
<1>2. \A i \in 1..7 : Fits(r.fields[i])
  <2>1. {1023, 13166, 20000} \subseteq Limits16
    BY DEF Limits16
  <2>2. /\ Fits(Bits("pen", 3))
        /\ Fits(Pad(4))
        /\ Fits(Bits("inrange", 1))
        /\ Fits(Pad(0))
        /\ Fits(Axis("x", 16, 20000))
        /\ Fits(Axis("y", 16, 13166))
        /\ Fits(Axis("pressure", 16, 1023))
    BY <2>1, Fitting
  <2> QED BY <1>1, <2>2
<1> DEFINE g == <<0, 3, 7, 8, 8, 24, 40, 56>>
<1>3. /\ Width(r, 1) = 3
      /\ Width(r, 2) = 4
      /\ Width(r, 3) = 1
      /\ Width(r, 4) = 0
      /\ Width(r, 5) = 16
      /\ Width(r, 6) = 16
      /\ Width(r, 7) = 16
  BY <1>1, Fields DEF Width
<1>4. StartsAt(r, 7, 8, g)
  <2>1. \A i \in 1..7 : g[i + 1] = g[i] + Width(r, i)
    BY <1>3
  <2>2. g \in [1..8 -> Int] /\ g[1] = 0 /\ 7 \in Nat /\ 8 = 7 + 1
    OBVIOUS
  <2>3. \A i, j \in 1..8 : i <= j => g[i] <= g[j]
    OBVIOUS
  <2> HIDE DEF g
  <2> QED BY <1>1, <2>1, <2>2, <2>3 DEF StartsAt
<1>5. g[8] = 56
  OBVIOUS
<1> HIDE DEF g
<1>6. Length(r) = 56
  BY <1>4, <1>5, LengthIs
<1> QED BY <1>1, <1>2, <1>6 DEF Fine

\* The pen of the TWHL850.
LEMMA Twhl850PenFine ==
    ASSUME NEW r \in Twhl850Pen
    PROVE  Fine(r)
<1>1. /\ Len(r.fields) = 7 /\ DOMAIN r.fields = 1..7
      /\ r.fields[1] = Bits("pen", 3)
      /\ r.fields[2] = Pad(3)
      /\ r.fields[3] = Bits("inrange", 1)
      /\ r.fields[4] = Pad(1)
      /\ r.fields[5] = Axis("x", 16, 32000)
      /\ r.fields[6] = Axis("y", 16, 20000)
      /\ r.fields[7] = Axis("pressure", 16, 1023)
  BY DEF Twhl850Pen, RangedPen, Input
<1>2. \A i \in 1..7 : Fits(r.fields[i])
  <2>1. {1023, 20000, 32000} \subseteq Limits16
    BY DEF Limits16
  <2>2. /\ Fits(Bits("pen", 3))
        /\ Fits(Pad(3))
        /\ Fits(Bits("inrange", 1))
        /\ Fits(Pad(1))
        /\ Fits(Axis("x", 16, 32000))
        /\ Fits(Axis("y", 16, 20000))
        /\ Fits(Axis("pressure", 16, 1023))
    BY <2>1, Fitting
  <2> QED BY <1>1, <2>2
<1> DEFINE g == <<0, 3, 6, 7, 8, 24, 40, 56>>
<1>3. /\ Width(r, 1) = 3
      /\ Width(r, 2) = 3
      /\ Width(r, 3) = 1
      /\ Width(r, 4) = 1
      /\ Width(r, 5) = 16
      /\ Width(r, 6) = 16
      /\ Width(r, 7) = 16
  BY <1>1, Fields DEF Width
<1>4. StartsAt(r, 7, 8, g)
  <2>1. \A i \in 1..7 : g[i + 1] = g[i] + Width(r, i)
    BY <1>3
  <2>2. g \in [1..8 -> Int] /\ g[1] = 0 /\ 7 \in Nat /\ 8 = 7 + 1
    OBVIOUS
  <2>3. \A i, j \in 1..8 : i <= j => g[i] <= g[j]
    OBVIOUS
  <2> HIDE DEF g
  <2> QED BY <1>1, <2>1, <2>2, <2>3 DEF StartsAt
<1>5. g[8] = 56
  OBVIOUS
<1> HIDE DEF g
<1>6. Length(r) = 56
  BY <1>4, <1>5, LengthIs
<1> QED BY <1>1, <1>2, <1>6 DEF Fine

\* Its mouse.
LEMMA Twhl850MouseFine ==
    ASSUME NEW r \in Twhl850Mouse
    PROVE  Fine(r)
<1>1. /\ Len(r.fields) = 5 /\ DOMAIN r.fields = 1..5
      /\ r.fields[1] = Bits("button", 3)
      /\ r.fields[2] = Pad(5)
      /\ r.fields[3] = Field("move", 16, 2, -32768, 32767)
      /\ r.fields[4] = Notch("wheel", 8, 1)
      /\ r.fields[5] = Pad(8)
  BY DEF Twhl850Mouse, Input
<1>2. \A i \in 1..5 : Fits(r.fields[i])
  <2>1. /\ Fits(Bits("button", 3))
        /\ Fits(Pad(5))
        /\ Fits(Field("move", 16, 2, -32768, 32767))
        /\ Fits(Notch("wheel", 8, 1))
        /\ Fits(Pad(8))
    BY Fitting
  <2> QED BY <1>1, <2>1
<1> DEFINE g == <<0, 3, 8, 40, 48, 56>>
<1>3. /\ Width(r, 1) = 3
      /\ Width(r, 2) = 5
      /\ Width(r, 3) = 32
      /\ Width(r, 4) = 8
      /\ Width(r, 5) = 8
  BY <1>1, Fields DEF Width
<1>4. StartsAt(r, 5, 6, g)
  <2>1. \A i \in 1..5 : g[i + 1] = g[i] + Width(r, i)
    BY <1>3
  <2>2. g \in [1..6 -> Int] /\ g[1] = 0 /\ 5 \in Nat /\ 6 = 5 + 1
    OBVIOUS
  <2>3. \A i, j \in 1..6 : i <= j => g[i] <= g[j]
    OBVIOUS
  <2> HIDE DEF g
  <2> QED BY <1>1, <2>1, <2>2, <2>3 DEF StartsAt
<1>5. g[6] = 56
  OBVIOUS
<1> HIDE DEF g
<1>6. Length(r) = 56
  BY <1>4, <1>5, LengthIs
<1> QED BY <1>1, <1>2, <1>6 DEF Fine

\* Its keys.
LEMMA Twhl850KeysFine ==
    ASSUME NEW r \in Twhl850Keys
    PROVE  Fine(r)
<1>1. /\ Len(r.fields) = 2 /\ DOMAIN r.fields = 1..2
      /\ r.fields[1] = Bits("modifier", 8)
      /\ r.fields[2] = Field("key", 8, 6, 0, 255)
  BY DEF Twhl850Keys, Input
<1>2. \A i \in 1..2 : Fits(r.fields[i])
  <2>1. /\ Fits(Bits("modifier", 8))
        /\ Fits(Field("key", 8, 6, 0, 255))
    BY Fitting
  <2> QED BY <1>1, <2>1
<1> DEFINE g == <<0, 8, 56>>
<1>3. /\ Width(r, 1) = 8
      /\ Width(r, 2) = 48
  BY <1>1, Fields DEF Width
<1>4. StartsAt(r, 2, 3, g)
  <2>1. \A i \in 1..2 : g[i + 1] = g[i] + Width(r, i)
    BY <1>3
  <2>2. g \in [1..3 -> Int] /\ g[1] = 0 /\ 2 \in Nat /\ 3 = 2 + 1
    OBVIOUS
  <2>3. \A i, j \in 1..3 : i <= j => g[i] <= g[j]
    OBVIOUS
  <2> HIDE DEF g
  <2> QED BY <1>1, <2>1, <2>2, <2>3 DEF StartsAt
<1>5. g[3] = 56
  OBVIOUS
<1> HIDE DEF g
<1>6. Length(r) = 56
  BY <1>4, <1>5, LengthIs
<1> QED BY <1>1, <1>2, <1>6 DEF Fine

\* The pen of the TWHA60.
LEMMA Twha60PenFine ==
    ASSUME NEW r \in Twha60Pen
    PROVE  Fine(r)
<1>1. /\ Len(r.fields) = 7 /\ DOMAIN r.fields = 1..7
      /\ r.fields[1] = Bits("pen", 3)
      /\ r.fields[2] = Pad(4)
      /\ r.fields[3] = Bits("inrange", 1)
      /\ r.fields[4] = Pad(0)
      /\ r.fields[5] = Axis("x", 16, 39999)
      /\ r.fields[6] = Axis("y", 16, 24999)
      /\ r.fields[7] = Axis("pressure", 16, 1023)
  BY DEF Twha60Pen, RangedPen, Input
<1>2. \A i \in 1..7 : Fits(r.fields[i])
  <2>1. {1023, 24999, 39999} \subseteq Limits16
    BY DEF Limits16
  <2>2. /\ Fits(Bits("pen", 3))
        /\ Fits(Pad(4))
        /\ Fits(Bits("inrange", 1))
        /\ Fits(Pad(0))
        /\ Fits(Axis("x", 16, 39999))
        /\ Fits(Axis("y", 16, 24999))
        /\ Fits(Axis("pressure", 16, 1023))
    BY <2>1, Fitting
  <2> QED BY <1>1, <2>2
<1> DEFINE g == <<0, 3, 7, 8, 8, 24, 40, 56>>
<1>3. /\ Width(r, 1) = 3
      /\ Width(r, 2) = 4
      /\ Width(r, 3) = 1
      /\ Width(r, 4) = 0
      /\ Width(r, 5) = 16
      /\ Width(r, 6) = 16
      /\ Width(r, 7) = 16
  BY <1>1, Fields DEF Width
<1>4. StartsAt(r, 7, 8, g)
  <2>1. \A i \in 1..7 : g[i + 1] = g[i] + Width(r, i)
    BY <1>3
  <2>2. g \in [1..8 -> Int] /\ g[1] = 0 /\ 7 \in Nat /\ 8 = 7 + 1
    OBVIOUS
  <2>3. \A i, j \in 1..8 : i <= j => g[i] <= g[j]
    OBVIOUS
  <2> HIDE DEF g
  <2> QED BY <1>1, <2>1, <2>2, <2>3 DEF StartsAt
<1>5. g[8] = 56
  OBVIOUS
<1> HIDE DEF g
<1>6. Length(r) = 56
  BY <1>4, <1>5, LengthIs
<1> QED BY <1>1, <1>2, <1>6 DEF Fine

\* Its keys.
LEMMA Twha60KeysFine ==
    ASSUME NEW r \in Twha60Keys
    PROVE  Fine(r)
<1>1. /\ Len(r.fields) = 4 /\ DOMAIN r.fields = 1..4
      /\ r.fields[1] = Pad(8)
      /\ r.fields[2] = Bits("key", 12)
      /\ r.fields[3] = Bits("key", 12)
      /\ r.fields[4] = Pad(8)
  BY DEF Twha60Keys, Input
<1>2. \A i \in 1..4 : Fits(r.fields[i])
  <2>1. /\ Fits(Pad(8))
        /\ Fits(Bits("key", 12))
    BY Fitting
  <2> QED BY <1>1, <2>1
<1> DEFINE g == <<0, 8, 20, 32, 40>>
<1>3. /\ Width(r, 1) = 8
      /\ Width(r, 2) = 12
      /\ Width(r, 3) = 12
      /\ Width(r, 4) = 8
  BY <1>1, Fields DEF Width
<1>4. StartsAt(r, 4, 5, g)
  <2>1. \A i \in 1..4 : g[i + 1] = g[i] + Width(r, i)
    BY <1>3
  <2>2. g \in [1..5 -> Int] /\ g[1] = 0 /\ 4 \in Nat /\ 5 = 4 + 1
    OBVIOUS
  <2>3. \A i, j \in 1..5 : i <= j => g[i] <= g[j]
    OBVIOUS
  <2> HIDE DEF g
  <2> QED BY <1>1, <2>1, <2>2, <2>3 DEF StartsAt
<1>5. g[5] = 40
  OBVIOUS
<1> HIDE DEF g
<1>6. Length(r) = 40
  BY <1>4, <1>5, LengthIs
<1> QED BY <1>1, <1>2, <1>6 DEF Fine

\* A table whose reports are fine and have an ID each.
Sound(T) == \A r \in T : Fine(r) /\ \A r2 \in T : r.id = r2.id => r = r2

LEMMA SoundOne ==
    ASSUME NEW T, \A r, r2 \in T : r = r2, \A r \in T : Fine(r)
    PROVE  Sound(T)
  BY Zenon DEF Sound

LEMMA SoundTables ==
    /\ Sound(PenV1) /\ Sound(PenV2) /\ Sound(ButtonpadV1) /\ Sound(ButtonpadV2)
    /\ Sound(G5Frame) /\ Sound(Deco01Frame)
    /\ Sound(Pf1209) /\ Sound(Wp4030u) /\ Sound(Wp5540u) /\ Sound(Wp8060u) /\ Sound(Wp1062)
    /\ Sound(Twhl850Pen) /\ Sound(Twhl850Mouse) /\ Sound(Twhl850Keys)
    /\ Sound(Twha60Pen) /\ Sound(Twha60Keys) /\ Sound({})
<1>1. Sound(PenV1)
  <2>1. \A r, r2 \in PenV1 : r = r2
    BY SMT DEF PenV1
  <2> QED BY <2>1, PenV1Fine, SoundOne, Zenon
<1>2. Sound(PenV2)
  <2>1. \A r, r2 \in PenV2 : r = r2
    BY SMT DEF PenV2
  <2> QED BY <2>1, PenV2Fine, SoundOne, Zenon
<1>3. Sound(ButtonpadV1)
  <2>1. \A r, r2 \in ButtonpadV1 : r = r2
    BY SMT DEF ButtonpadV1, Buttonpad
  <2> QED BY <2>1, ButtonpadV1Fine, SoundOne, Zenon
<1>4. Sound(ButtonpadV2)
  <2>1. \A r, r2 \in ButtonpadV2 : r = r2
    BY SMT DEF ButtonpadV2, Buttonpad
  <2> QED BY <2>1, ButtonpadV2Fine, SoundOne, Zenon
<1>5. Sound(G5Frame)
  <2>1. \A r, r2 \in G5Frame : r = r2
    BY SMT DEF G5Frame
  <2> QED BY <2>1, G5FrameFine, SoundOne, Zenon
<1>6. Sound(Deco01Frame)
  <2>1. \A r, r2 \in Deco01Frame : r = r2
    BY SMT DEF Deco01Frame
  <2> QED BY <2>1, Deco01FrameFine, SoundOne, Zenon
<1>8. Sound(Wp1062)
  <2>1. \A r, r2 \in Wp1062 : r = r2
    BY SMT DEF Wp1062
  <2> QED BY <2>1, Wp1062Fine, SoundOne, Zenon
<1>9. Sound(Twhl850Pen)
  <2>1. \A r, r2 \in Twhl850Pen : r = r2
    BY SMT DEF Twhl850Pen
  <2> QED BY <2>1, Twhl850PenFine, SoundOne, Zenon
<1>10. Sound(Twhl850Mouse)
  <2>1. \A r, r2 \in Twhl850Mouse : r = r2
    BY SMT DEF Twhl850Mouse
  <2> QED BY <2>1, Twhl850MouseFine, SoundOne, Zenon
<1>11. Sound(Twhl850Keys)
  <2>1. \A r, r2 \in Twhl850Keys : r = r2
    BY SMT DEF Twhl850Keys
  <2> QED BY <2>1, Twhl850KeysFine, SoundOne, Zenon
<1>12. Sound(Twha60Pen)
  <2>1. \A r, r2 \in Twha60Pen : r = r2
    BY SMT DEF Twha60Pen
  <2> QED BY <2>1, Twha60PenFine, SoundOne, Zenon
<1>13. Sound(Twha60Keys)
  <2>1. \A r, r2 \in Twha60Keys : r = r2
    BY SMT DEF Twha60Keys
  <2> QED BY <2>1, Twha60KeysFine, SoundOne, Zenon
<1>14. Sound(Wp4030u) /\ Sound(Pf1209)
  <2>1. /\ \A r \in Wp4030u : r = WpPen(32767, 32767)
        /\ \A r \in Pf1209 : r \in {WpPen(32767, 32767), WpMouse}
    BY SMT DEF Wp4030u, Pf1209
  <2>2. \A r \in {WpPen(32767, 32767), WpMouse} : Fine(r)
    BY WpPenFine, WpMouseFine, SMT
  <2>3. WpPen(32767, 32767).id = 9 /\ WpMouse.id = 8
    BY SMT DEF WpPen, WpMouse, Input
  <2>4. \A r, r2 \in {WpPen(32767, 32767), WpMouse} : r.id = r2.id => r = r2
    BY <2>3, SMT
  <2> QED BY <2>1, <2>2, <2>4, SMT DEF Sound
<1>15. Sound(Wp5540u) /\ Sound(Wp8060u)
  BY <1>14, SMT DEF Wp5540u, Wp8060u, Pf1209
<1>16. Sound({})
  BY Zenon DEF Sound
<1> QED BY <1>1, <1>2, <1>3, <1>4, <1>5, <1>6, <1>8, <1>9, <1>10, <1>11, <1>12, <1>13, <1>14, <1>15,
           <1>16, Zenon

\* The fixed descriptor of each product that is known by its own.
LEMMA SoundOptTable ==
    ASSUME dev \in Device, dev.family \notin Asked
    PROVE  Sound(OptTable)
<1> DEFINE per_iface == [twhl850 |-> <<Twhl850Pen, Twhl850Mouse, Twhl850Keys>>,
                         twha60 |-> <<Twha60Pen, Twha60Keys, {}>>]
           same == [pf1209 |-> Pf1209, wp4030u |-> Wp4030u, wp5540u |-> Wp5540u,
                    wp8060u |-> Wp8060u, wp1062 |-> Wp1062]
<1>1. /\ dev.family \in {"pf1209", "wp4030u", "wp5540u", "wp8060u", "wp1062", "twhl850", "twha60"}
      /\ dev.iface \in {0, 1, 2}
  <2>1. dev.iface \in 0..2 \/ dev.iface \in {0, 1}
    BY Zenon DEF Device
  <2>2. \/ dev.family \in {"pf1209", "wp4030u", "wp8060u", "wp1062", "twhl850", "twha60"}
        \/ dev.family \in {"wp5540u", "huion", "g540", "deco01", "g5", "ex07s"}
    BY Zenon DEF Device
  <2> QED BY <2>1, <2>2 DEF Asked
<1>2. /\ DOMAIN per_iface = {"twhl850", "twha60"}
      /\ per_iface["twhl850"] = <<Twhl850Pen, Twhl850Mouse, Twhl850Keys>>
      /\ per_iface["twha60"] = <<Twha60Pen, Twha60Keys, {}>>
      /\ same["pf1209"] = Pf1209 /\ same["wp4030u"] = Wp4030u /\ same["wp5540u"] = Wp5540u
      /\ same["wp8060u"] = Wp8060u /\ same["wp1062"] = Wp1062
  OBVIOUS
<1>3. OptTable = IF dev.family \in DOMAIN per_iface THEN per_iface[dev.family][dev.iface + 1]
                 ELSE same[dev.family]
  BY DEF OptTable
<1> HIDE DEF per_iface, same
<1>4. CASE dev.family = "pf1209"
  <2>1. OptTable = Pf1209
    BY <1>2, <1>3, <1>4
  <2> QED BY <2>1, SoundTables
<1>5. CASE dev.family = "wp4030u"
  <2>1. OptTable = Wp4030u
    BY <1>2, <1>3, <1>5
  <2> QED BY <2>1, SoundTables
<1>6. CASE dev.family = "wp5540u"
  <2>1. OptTable = Wp5540u
    BY <1>2, <1>3, <1>6
  <2> QED BY <2>1, SoundTables
<1>7. CASE dev.family = "wp8060u"
  <2>1. OptTable = Wp8060u
    BY <1>2, <1>3, <1>7
  <2> QED BY <2>1, SoundTables
<1>8. CASE dev.family = "wp1062"
  <2>1. OptTable = Wp1062
    BY <1>2, <1>3, <1>8
  <2> QED BY <2>1, SoundTables
<1>9. CASE dev.family = "twhl850"
  <2>1. OptTable = <<Twhl850Pen, Twhl850Mouse, Twhl850Keys>>[dev.iface + 1]
    BY <1>2, <1>3, <1>9
  <2>2. OptTable \in {Twhl850Pen, Twhl850Mouse, Twhl850Keys}
    BY <1>1, <2>1
  <2> QED BY <2>2, SoundTables
<1>10. CASE dev.family = "twha60"
  <2>1. OptTable = <<Twha60Pen, Twha60Keys, {}>>[dev.iface + 1]
    BY <1>2, <1>3, <1>10
  <2>2. OptTable \in {Twha60Pen, Twha60Keys, {}}
    BY <1>1, <2>1
  <2> QED BY <2>2, SoundTables
<1> QED BY <1>1, <1>4, <1>5, <1>6, <1>7, <1>8, <1>9, <1>10

\* A part k whose reports are of whole bytes and have an ID each, and have room
\* for their limits but in the single bits of the EX07's frame.
Joins(k, T) ==
    \A r \in T :
        /\ Length(r) % 8 = 0
        /\ \A i \in DOMAIN r.fields :
               \/ Fits(r.fields[i])
               \/ k = "frame" /\ dev.family = "ex07s" /\ r.fields[i].size = 1
        /\ \A r2 \in T : r.id = r2.id => r = r2

LEMMA SoundJoins == \A k, T : Sound(T) => Joins(k, T)
  BY Zenon DEF Sound, Fine, Joins

LEMMA FrameTableJoins ==
    ASSUME NEW q, dev.family \in {"huion", "deco01", "g5", "ex07s"}
    PROVE  Joins("frame", FrameTable(q)) /\ \A r \in FrameTable(q) : r.id \in {6, 247}
<1>1. CASE dev.family # "ex07s"
  <2>1. FrameTable(q) \in {ButtonpadV1, ButtonpadV2, Deco01Frame, G5Frame}
    BY <1>1 DEF FrameTable
  <2>2. \A T \in {ButtonpadV1, ButtonpadV2, Deco01Frame, G5Frame} : \A r \in T : r.id \in {6, 247}
    BY DEF ButtonpadV1, ButtonpadV2, Buttonpad, Deco01Frame, G5Frame, Input
  <2>3. Sound(FrameTable(q))
    BY <2>1, SoundTables
  <2> QED BY <2>1, <2>2, <2>3, SoundJoins
<1>2. CASE dev.family = "ex07s"
  <2>1. FrameTable(q) = Ex07Buttonpad(PressureMax)
    BY <1>2 DEF FrameTable
  <2>2. \A r, r2 \in FrameTable(q) : r = r2 /\ r.id = 6
    BY <2>1, SMT DEF Ex07Buttonpad, Input
  <2>3. \A r \in FrameTable(q) :
            Length(r) % 8 = 0 /\ \A i \in DOMAIN r.fields : r.fields[i].size = 1
    BY <2>1, Ex07ButtonpadBits
  <2>4. Joins("frame", FrameTable(q))
    BY <1>2, <2>2, <2>3, Zenon DEF Joins
  <2> QED BY <2>2, <2>4
<1> QED BY <1>1, <1>2

\* What joined parts there are: the fixed descriptor stands alone.
LEMMA JoinedParts ==
    ASSUME NEW q \in Outcomes
    PROVE  /\ "common" \in q.has => q.has = {"common"}
           /\ q.has \subseteq Part
           /\ "frame" \in q.has => dev.family \in {"huion", "deco01", "g5", "ex07s"}
<1>1. CASE q \in {Zero, PenUnused, Common, PenOnly(7), Invalid(Zero)}
  BY <1>1, SimpleParams, PenParams DEF Part
<1>2. CASE \E u \in Unframed : q = Framed(u)
  <2>1. PICK u \in Unframed : q = Framed(u)
    BY <1>2
  <2>2. /\ u \in {Zero, PenOnly(7), PenOnly(8)} /\ u \in Params
        /\ q.has = u.has \cup {"frame"}
        /\ dev.family \in {"huion", "deco01", "g5", "ex07s"}
    BY <2>1, UnframedParams, FramedParams
  <2>3. u.has \subseteq {"pen"}
    BY <2>2, SimpleParams, PenParams
  <2> QED BY <2>2, <2>3 DEF Part
<1> QED BY <1>1, <1>2 DEF Outcomes

\* A fixed descriptor stays with a product that is asked nothing: no other
\* step puts the common part into a set of parameters.
LEMMA TablesKept == IInv /\ TablesInv /\ [Next]_vars => TablesInv'
<1> SUFFICES ASSUME IInv, TablesInv, [Next]_vars PROVE TablesInv'
  OBVIOUS
<1> DEFINE Known == dev.family \notin Asked
<1>1. p \in Params
  BY DEF IInv, TypeOK
<1>2. /\ pc = "opt_desc" => Known
      /\ "common" \in p.has => Known
      /\ "common" \in drv.has => Known
  BY DEF TablesInv
<1>3. /\ Zero.has = {} /\ PenUnused.has = {}
      /\ Invalid(p).has = p.has
      /\ Cleaned(p).has \subseteq p.has
  BY <1>1, SimpleParams DEF Invalid, Cleaned, Params
<1>4. SUFFICES /\ dev' = dev
               /\ pc' = "opt_desc" => Known
               /\ "common" \in p'.has => Known
               /\ "common" \in drv'.has => Known
  BY DEF TablesInv
<1> USE DEF Step, Goto, InitFrame, ProbeFrame, drvdata
<1>5. CASE SelectTables
  <2>1. dev' = dev /\ drv' = drv /\ p' \in {p, Invalid(p)} /\ Known
    BY <1>5 DEF SelectTables, Asked
  <2> QED BY <1>2, <1>3, <2>1
<1>6. CASE SelectHuion \/ SelectUgee
  <2>1. /\ dev' = dev /\ drv' = drv /\ p' \in {p, Invalid(p), PenUnused} /\ pc' # "opt_desc"
    BY <1>6 DEF SelectHuion, SelectUgee
  <2> QED BY <1>2, <1>3, <2>1
<1>7. CASE OptDesc
  <2>1. dev' = dev /\ drv' = drv /\ pc = "opt_desc"
    BY <1>7 DEF OptDesc, Alloc
  <2> QED BY <1>2, <2>1
<1>8. CASE \/ PenBuf \/ PenMsg("v1", dev.s100) \/ PenMsg("v2", dev.s200) \/ VerBuf \/ VerMsg
           \/ PenV2Ret \/ BtnBuf \/ BtnMsg
  <2>1. dev' = dev /\ drv' = drv /\ p' = p /\ pc' # "opt_desc"
    BY <1>8 DEF PenBuf, PenMsg, Label, VerBuf, VerMsg, PenV2Ret, BtnBuf, BtnMsg, Alloc
  <2> QED BY <1>2, <2>1
<1>9. CASE PenDesc("v1", 7) \/ PenDesc("v2", 8)
  <2> DEFINE New(id) == [p EXCEPT !.has = @ \cup {"pen"}, !.pen = id]
  <2>1. New(7).has = p.has \cup {"pen"} /\ New(8).has = p.has \cup {"pen"}
    BY <1>1 DEF Params
  <2>2. dev' = dev /\ drv' = drv /\ pc' # "opt_desc" /\ p' \in {p, New(7), New(8)}
    BY <1>9 DEF PenDesc, Label
  <2> HIDE DEF New
  <2> QED BY <1>2, <2>1, <2>2
<1>10. CASE PenV1Ret
  <2>1. dev' = dev /\ drv' = drv /\ p' \in {p, Invalid(p)} /\ pc' # "opt_desc"
    BY <1>10 DEF PenV1Ret
  <2> QED BY <1>2, <1>3, <2>1
<1>11. CASE Frame
  <2>1. "common" \in Framed(p).has => "common" \in p.has
    BY <1>1, FramedParams
  <2>2. dev' = dev /\ drv' = drv /\ p' \in {p, Framed(p)} /\ pc' # "opt_desc"
    BY <1>11 DEF Frame, Framed
  <2> QED BY <1>2, <2>1, <2>2
<1>12. CASE Output
  <2>1. dev' = dev /\ pc' # "opt_desc" /\ p' \in {p, Zero} /\ drv' \in {drv, p}
    BY <1>12 DEF Output
  <2> QED BY <1>2, <1>3, <2>1
<1>13. CASE Cleanup \/ ResumeCleanup
  <2>1. dev' = dev /\ drv' = drv /\ pc' # "opt_desc" /\ p' \in {Cleaned(p), Zero}
    BY <1>13 DEF Cleanup, ResumeCleanup
  <2> QED BY <1>2, <1>3, <2>1
<1>14. CASE \/ Probe \/ Resume \/ ProbeCheck \/ GetDesc \/ Parse \/ Start \/ Failure \/ Remove
            \/ Suspend
  <2>1. dev' = dev /\ pc' # "opt_desc" /\ p' \in {p, Zero} /\ drv' \in {drv, Zero}
    BY <1>14 DEF Probe, Resume, ProbeCheck, GetDesc, Alloc, Parse, Start, Failure, Remove, Suspend
  <2> QED BY <1>2, <1>3, <2>1
<1>15. CASE UNCHANGED vars
  BY <1>2, <1>15 DEF vars
<1> QED BY <1>5, <1>6, <1>7, <1>8, <1>9, <1>10, <1>11, <1>12, <1>13, <1>14, <1>15 DEF Next, ParamsInit

LEMMA TablesHold == Spec => []TablesInv
<1>1. Init => TablesInv
  BY SimpleParams DEF Init, TablesInv
<1> QED BY <1>1, TablesKept, ProbeInductive, PTL DEF Spec

\* The pen's reports and the frame's have different IDs in a joined
\* descriptor, and each part is of whole bytes with room in every field but the
\* single bits of the EX07's frame.
THEOREM PartsAlwaysFit == Spec => []PartsFitTogether
<1>1. IInv /\ TablesInv => PartsFitTogether
  <2> SUFFICES ASSUME IInv, TablesInv
               PROVE  /\ \A k1, k2 \in DescParts(drv) : k1 # k2 => IDs(drv, k1) \cap IDs(drv, k2) = {}
                      /\ \A k \in DescParts(drv) : Joins(k, PartTable(drv, k))
    BY DEF PartsFitTogether, Joins
  <2>1. drv \in Outcomes /\ dev \in Device
    BY DEF IInv, DrvInv, TypeOK
  <2>2. DescParts(drv) = drv.has
    BY <2>1, OutcomeParams
  <2>3. /\ "common" \in drv.has => drv.has = {"common"}
        /\ drv.has \subseteq {"common", "pen", "frame"}
        /\ "frame" \in drv.has => dev.family \in {"huion", "deco01", "g5", "ex07s"}
    BY <2>1, JoinedParts DEF Part
  <2>4. /\ PartTable(drv, "common") = OptTable
        /\ PartTable(drv, "pen") \in {PenV1, PenV2}
        /\ PartTable(drv, "frame") = FrameTable(drv)
    BY DEF PartTable
  <2>5. ASSUME "common" \in drv.has
        PROVE  Joins("common", PartTable(drv, "common"))
    <3>1. dev.family \notin Asked
      BY <2>5 DEF TablesInv
    <3> QED BY <2>1, <2>4, <3>1, SoundOptTable, SoundJoins
  <2>6. Joins("pen", PartTable(drv, "pen"))
    <3>1. Sound(PartTable(drv, "pen"))
      BY <2>4, SoundTables
    <3> QED BY <3>1, SoundJoins
  <2>7. ASSUME "frame" \in drv.has
        PROVE  Joins("frame", PartTable(drv, "frame")) /\ \A r \in PartTable(drv, "frame") : r.id \in {6, 247}
    BY <2>3, <2>4, <2>7, FrameTableJoins
  <2>8. \A r \in PartTable(drv, "pen") : r.id \in {7, 8}
    <3>1. \A r \in PenV1 : r.id = 7
      BY SMT DEF PenV1, RangedPen, Input, PressureMax
    <3>2. \A r \in PenV2 : r.id = 8
      BY SMT DEF PenV2, RangedPen, Input, PressureMax
    <3> QED BY <2>4, <3>1, <3>2
  <2>9. ASSUME "pen" \in drv.has, "frame" \in drv.has
        PROVE  IDs(drv, "pen") \cap IDs(drv, "frame") = {}
    <3>1. \A id \in IDs(drv, "pen") : id \in {7, 8}
      BY <2>8 DEF IDs
    <3>2. \A id \in IDs(drv, "frame") : id \in {6, 247}
      BY <2>7, <2>9 DEF IDs
    <3> QED BY <3>1, <3>2
  <2>10. \A k \in DescParts(drv) : Joins(k, PartTable(drv, k))
    <3> TAKE k \in DescParts(drv)
    <3>1. k \in drv.has /\ k \in {"common", "pen", "frame"}
      BY <2>2, <2>3
    <3>2. CASE k = "common"
      BY <2>5, <3>1, <3>2
    <3>3. CASE k = "pen"
      BY <2>6, <3>3
    <3>4. CASE k = "frame"
      BY <2>7, <3>1, <3>4
    <3> QED BY <3>1, <3>2, <3>3, <3>4
  <2>11. \A k1, k2 \in DescParts(drv) : k1 # k2 => IDs(drv, k1) \cap IDs(drv, k2) = {}
    <3> TAKE k1, k2 \in DescParts(drv)
    <3>1. k1 \in drv.has /\ k2 \in drv.has /\ {k1, k2} \subseteq {"common", "pen", "frame"}
      BY <2>2, <2>3
    <3>2. k1 # k2 => k1 # "common" /\ k2 # "common"
      BY <2>3, <3>1
    <3>3. k1 # k2 => {k1, k2} = {"pen", "frame"} /\ "pen" \in drv.has /\ "frame" \in drv.has
      BY <3>1, <3>2
    <3> QED BY <2>9, <3>3
  <2> QED BY <2>10, <2>11
<1> QED BY <1>1, ProbeInductive, TablesHold, PTL
=============================================================================
