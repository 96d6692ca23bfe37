-------------------------- MODULE UclogicDescProofs --------------------------
(***************************************************************************)
(* The two steps that make a pen's report descriptor: the numbers of       *)
(* uclogic_params_pen_init_v1 and _v2, for all bytes that a tablet may     *)
(* answer; and the scan that puts such values in the place of the          *)
(* placeholders, for every template and every list of values.              *)
(***************************************************************************)
EXTENDS PenNumbers, RdescTemplate, SequenceTheorems, TLAPS

-----------------------------------------------------------------------------
(* PenNumbers                                                              *)

\* Up to 2^21 the product fits into 32 bits with its sign.
LEMMA NoOverflow ==
    ASSUME NEW n \in Nat, n < 32 * Word
    PROVE  Times1000(n) = n * 1000
<1> DEFINE high == n \div Word
           low == n % Word
<1>1. /\ n = Word * high + low
      /\ high \in Nat /\ high < 32 /\ low \in Nat /\ low < Word
      BY SMT DEF Word
<1> DEFINE carry == (low * 1000) \div Word
           rest1 == (low * 1000) % Word
<1>2. /\ low * 1000 = Word * carry + rest1
      /\ carry \in Nat /\ carry < 1000 /\ rest1 \in Nat /\ rest1 < Word
      BY <1>1, SMT DEF Word
<1>3. high * 1000 + carry \in Nat /\ high * 1000 + carry < 32000
      BY <1>1, <1>2, SMT
<1>4. (high * 1000 + carry) % Word = high * 1000 + carry
      BY <1>3, SMT DEF Word
<1>5. high * 1000 + carry < Word \div 2
      BY <1>3, SMT DEF Word
<1>6. Times1000(n) = (high * 1000 + carry) * Word + rest1
      BY <1>4, <1>5 DEF Times1000
<1> QED BY <1>1, <1>2, <1>6, SMT DEF Word

\* So the physical maximum is the quotient that was meant.
LEMMA PhysicalExact ==
    ASSUME NEW n, n \in Nat, n < 32 * Word, NEW r, r \in Nat \ {0}
    PROVE  Physical(n, r) = (n * 1000) \div r
<1>1. Times1000(n) = n * 1000 /\ n * 1000 >= 0
      BY NoOverflow DEF Word
<1>2. r # 0 /\ ~(Times1000(n) < 0)
      BY <1>1
<1>3. Physical(n, r) = Times1000(n) \div r
      BY <1>2, Zenon DEF Physical, Quotient
<1> QED BY <1>1, <1>3

LEMMA Bytes ==
    ASSUME buf \in [2..11 -> 0..255], NEW i \in 2..11
    PROVE  buf[i] \in Nat /\ buf[i] < 256
<1>1. buf[i] \in 0..255
      BY Zenon
<1> QED BY <1>1

LEMMA Numbers ==
    ASSUME buf \in [2..11 -> 0..255]
    PROVE  /\ \A i \in 2..10 : Le16(i) \in Nat /\ Le16(i) < Word
           /\ \A i \in 2..9 : Le24(i) \in Nat
<1>1. ASSUME NEW i \in 2..10 PROVE Le16(i) \in Nat /\ Le16(i) < Word
  <2>1. i \in 2..11 /\ i + 1 \in 2..11
        OBVIOUS
  <2>2. buf[i] \in Nat /\ buf[i] < 256 /\ buf[i + 1] \in Nat /\ buf[i + 1] < 256
        BY <2>1, Bytes
  <2> QED BY <2>2 DEF Le16, Word
<1>2. ASSUME NEW i \in 2..9 PROVE Le24(i) \in Nat
  <2>1. i \in 2..11 /\ i + 1 \in 2..11 /\ i + 2 \in 2..11
        OBVIOUS
  <2>2. buf[i] \in Nat /\ buf[i + 1] \in Nat /\ buf[i + 2] \in Nat
        BY <2>1, Bytes
  <2> QED BY <2>2 DEF Le24, Word
<1> QED BY <1>1, <1>2

\* The third byte of X is a text's second character.
LEMMA SaneIsNoText ==
    ASSUME buf \in [2..11 -> 0..255], Sane(2)
    PROVE  ~IsText
<1>1. buf[2] \in Nat /\ buf[3] \in Nat /\ buf[4] \in Nat
      BY Bytes
<1>2. buf[2] + 256 * buf[2 + 1] + 65536 * buf[2 + 2] < 32 * 65536
      BY DEF Sane, Le24, Word
<1>3. buf[4] < 32
      BY <1>1, <1>2
<1> QED BY <1>1, <1>3 DEF IsText

LEMMA NumbersInit == StringRead => OutInv
BY BuffersAssumption DEF StringRead, OutInv, Nothing, Text, Filled

LEMMA NumbersStep == OutInv /\ [Fill]_numbers => OutInv'
<1> SUFFICES ASSUME OutInv, [Fill]_numbers PROVE OutInv'
    OBVIOUS
<1>1. buf' = buf /\ proto' = proto /\ rest' = rest
      BY DEF Fill, FillV1, FillV2, numbers
<1> DEFINE v1 == DescParams(Le16(2), Le16(4))
           v2 == DescParams(Le24(2), Le24(5))
<1>2. v1' = v1 /\ v2' = v2 /\ IsText' = IsText
      BY <1>1 DEF DescParams, Physical, Le16, Le24, IsText
<1>3. v1.state = "filled" /\ v2.state = "filled"
      BY DEF DescParams
<1>4. /\ buf \in [2..11 -> 0..255] /\ proto \in {"v1", "v2"}
      /\ out.state = "text" => proto = "v2" /\ IsText
      /\ out.state = "filled" => out = IF proto = "v1" THEN v1 ELSE v2
      BY DEF OutInv, Text, Filled
<1> SUFFICES /\ out'.state = "text" => proto = "v2" /\ IsText
             /\ out'.state = "filled" => out' = IF proto = "v1" THEN v1 ELSE v2
    BY <1>1, <1>2, <1>4 DEF OutInv, Text, Filled
<1>5. CASE FillV1
  <2>1. proto = "v1" /\ out' = v1
        BY <1>5 DEF FillV1
  <2> HIDE DEF v1, v2
  <2> QED BY <2>1, <1>3
<1>6. CASE FillV2 /\ IsText
  <2>1. out' = Nothing("text") /\ proto = "v2"
        BY <1>6 DEF FillV2
  <2>2. out'.state = "text"
        BY <2>1 DEF Nothing
  <2> HIDE DEF v1, v2
  <2> QED BY <2>1, <2>2, <1>6
<1>7. CASE FillV2 /\ ~IsText
  <2>1. proto = "v2" /\ out' = v2
        BY <1>7 DEF FillV2
  <2> HIDE DEF v1, v2
  <2> QED BY <2>1, <1>3
<1>8. CASE UNCHANGED numbers
  <2>1. out' = out
        BY <1>8 DEF numbers
  <2> HIDE DEF v1, v2
  <2> QED BY <2>1, <1>4
<1> HIDE DEF v1, v2
<1> QED BY <1>5, <1>6, <1>7, <1>8 DEF Fill

\* What is made of a string follows from its bytes, in every state.
THEOREM NumbersInductive == NumbersSpec => []OutInv
BY NumbersInit, NumbersStep, PTL DEF NumbersSpec

\* A tablet with sane maxima is never taken for a text, and its physical
\* maxima are exact, for all bytes of its answer.
THEOREM SaneIsAlwaysExact == NumbersSpec => []SaneIsExact
<1>1. OutInv => SaneIsExact
  <2> SUFFICES ASSUME OutInv, proto = "v2", Sane(2), Sane(5)
               PROVE  /\ ~Text
                      /\ Filled /\ Le16(10) # 0 =>
                             /\ out.x_pm = (Le24(2) * 1000) \div Le16(10)
                             /\ out.y_pm = (Le24(5) * 1000) \div Le16(10)
      BY DEF SaneIsExact
  <2>1. ~Text
        BY SaneIsNoText DEF OutInv
  <2>2. ASSUME Filled, Le16(10) # 0
        PROVE  /\ out.x_pm = (Le24(2) * 1000) \div Le16(10)
               /\ out.y_pm = (Le24(5) * 1000) \div Le16(10)
    <3>1. /\ out.x_pm = Physical(Le24(2), Le16(10))
          /\ out.y_pm = Physical(Le24(5), Le16(10))
          BY <2>2 DEF OutInv, DescParams
    <3>2. Le24(2) \in Nat /\ Le24(2) < 32 * Word
          BY Numbers DEF OutInv, Sane
    <3>3. Le24(5) \in Nat /\ Le24(5) < 32 * Word
          BY Numbers DEF OutInv, Sane
    <3>4. Le16(10) \in Nat \ {0}
          BY <2>2, Numbers DEF OutInv
    <3>5. Physical(Le24(2), Le16(10)) = (Le24(2) * 1000) \div Le16(10)
          BY <3>2, <3>4, PhysicalExact
    <3>6. Physical(Le24(5), Le16(10)) = (Le24(5) * 1000) \div Le16(10)
          BY <3>3, <3>4, PhysicalExact
    <3> QED BY <3>1, <3>5, <3>6
  <2> QED BY <2>1, <2>2
<1> QED BY <1>1, NumbersInductive, PTL

\* The arithmetic of v1 is exact, for all bytes of the answer.
THEOREM V1IsAlwaysExact == NumbersSpec => []V1IsExact
<1>1. OutInv => V1IsExact
  <2> SUFFICES ASSUME OutInv, proto = "v1", Filled, Le16(10) # 0
               PROVE  /\ out.x_pm = (Le16(2) * 1000) \div Le16(10)
                      /\ out.y_pm = (Le16(4) * 1000) \div Le16(10)
      BY DEF V1IsExact
  <2>1. /\ out.x_pm = Physical(Le16(2), Le16(10))
        /\ out.y_pm = Physical(Le16(4), Le16(10))
        BY DEF OutInv, DescParams
  <2>2. Le16(2) \in Nat /\ Le16(2) < 32 * Word
        BY Numbers DEF OutInv, Word
  <2>3. Le16(4) \in Nat /\ Le16(4) < 32 * Word
        BY Numbers DEF OutInv, Word
  <2>4. Le16(10) \in Nat \ {0}
        BY Numbers DEF OutInv
  <2>5. Physical(Le16(2), Le16(10)) = (Le16(2) * 1000) \div Le16(10)
        BY <2>2, <2>4, PhysicalExact
  <2>6. Physical(Le16(4), Le16(10)) = (Le16(4) * 1000) \div Le16(10)
        BY <2>3, <2>4, PhysicalExact
  <2> QED BY <2>1, <2>5, <2>6
<1> QED BY <1>1, NumbersInductive, PTL

-----------------------------------------------------------------------------
(* RdescTemplate                                                           *)

\* A template is a sequence of bytes, with a length.
LEMMA Lengths ==
  ASSUME NEW t \in Templates
  PROVE  t \in Seq(0..255) /\ Len(t) \in Nat
<1>1. t \in Seq(0..255)
  BY TemplateAssumption, Zenon
<1> QED BY <1>1, LenProperties

\* Two placeholders never share a byte: the first byte of one is neither in the
\* head of the other nor its index.
LEMMA NoOverlap ==
  ASSUME NEW t \in Templates, NEW i \in 1..Len(t), NEW k \in 1..Len(t),
         Placeholder(t, i), Placeholder(t, k), i <= k, k <= i + 3
  PROVE  i = k
<1>1. t \in Seq(0..255) /\ Len(Params) \in 0..254
  BY TemplateAssumption
<1>2. /\ t[i + 1] = 237 /\ t[i + 2] = 29 /\ t[i + 3] < Len(Params) /\ t[k] = 254
      /\ i + 3 <= Len(t)
  BY DEF Placeholder, IsHead, Room
<1>3. i \in Int /\ k \in Int /\ Len(t) \in Nat
  <2>1. Len(t) \in Nat
    BY Lengths
  <2> QED BY <2>1
<1>4. k \in {i, i + 1, i + 2, i + 3}
  BY <1>3
<1>5. k # i + 1 /\ k # i + 2
  BY <1>2
<1>6. k # i + 3
  <2>1. t[i + 3] \in 0..255
    <3>1. i + 3 \in 1..Len(t)
      BY <1>2, <1>3
    <3> QED BY <1>1, <3>1, ElementOfSeq
  <2>2. t[i + 3] # 254
    <3> DEFINE y == t[i + 3]
               m == Len(Params)
    <3>1. y < m /\ y \in 0..255 /\ m \in 0..254
      BY <1>1, <1>2, <2>1
    <3> HIDE DEF y, m
    <3>2. y # 254
      BY <3>1
    <3> QED BY <3>2 DEF y
  <2> QED BY <1>2, <2>2
<1> QED BY <1>4, <1>5, <1>6

\* Over a placeholder the reference puts the value that its index names.
LEMMA AppliedOver ==
  ASSUME NEW t \in Templates, NEW i \in 1..Len(t), Placeholder(t, i), NEW j \in i..(i + 3)
  PROVE  Applied(t)[j] = Byte(Params[t[i + 3] + 1], j - i)
<1>1. t \in Seq(0..255)
  BY TemplateAssumption
<1>2. j \in 1..Len(t)
  BY <1>1 DEF Placeholder, Room
<1>3. Covered(t, j)
  BY DEF Covered
<1> DEFINE c == CHOOSE c \in 1..Len(t) : Placeholder(t, c) /\ j \in c..(c + 3)
<1>4. c \in 1..Len(t) /\ Placeholder(t, c) /\ j \in c..(c + 3)
  BY <1>3 DEF Covered
<1>5. Applied(t)[j] = Byte(Params[t[c + 3] + 1], j - c)
  BY <1>2, <1>3 DEF Applied
<1> HIDE DEF c
<1>6. c = i
  <2>1. c \in Int /\ i \in Int /\ j \in Int /\ c <= j /\ j <= c + 3 /\ i <= j /\ j <= i + 3
    BY <1>1, <1>4
  <2>2. CASE c <= i
    BY <1>4, <2>1, <2>2, NoOverlap
  <2>3. CASE i <= c
    BY <1>4, <2>1, <2>3, NoOverlap
  <2> QED BY <2>1, <2>2, <2>3
<1> QED BY <1>5, <1>6

\* Elsewhere it leaves the template's bytes.
LEMMA AppliedElsewhere ==
  ASSUME NEW t, NEW j \in 1..Len(t), ~Covered(t, j)
  PROVE  Applied(t)[j] = t[j]
BY DEF Applied

LEMMA InitScan == Init => ScanInv
BY DEF Init, ScanInv

LEMMA CopyKeepsScan ==
  ASSUME ScanInv, NEW ok \in BOOLEAN, Copy(ok)
  PROVE  ScanInv'
<1>1. template \in Templates /\ template \in Seq(0..255) /\ p = 1 /\ template' = template /\ p' = 1
  BY TemplateAssumption DEF ScanInv, Copy
<1>2. CASE ok
  <2>1. pc' = "scan" /\ rdesc' = template
    BY <1>2 DEF Copy
  <2>2. template = [j \in 1..Len(template) |-> IF j < 1 THEN Applied(template)[j] ELSE template[j]]
    BY <1>1
  <2> QED BY <1>1, <2>1, <2>2 DEF ScanInv
<1>3. CASE ~ok
  BY <1>1, <1>3 DEF ScanInv, Copy
<1> QED BY <1>2, <1>3

\* The bytes ahead of the scan are the template's, so that what it finds is a
\* placeholder of the template.
LEMMA FoundIsPlaceholder ==
  ASSUME ScanInv, pc = "scan", Room(template, p)
  PROVE  /\ p \in 1..Len(template)
         /\ \A k \in 0..3 : rdesc[p + k] = template[p + k]
         /\ Found <=> Placeholder(template, p)
<1>1. p \in Nat \ {0} /\ Len(template) \in Nat /\ p + 3 <= Len(template)
  BY Lengths DEF ScanInv, Room
<1>2. \A j \in 1..Len(template) : p <= j => rdesc[j] = template[j]
  BY <1>1 DEF ScanInv
<1>3. \A k \in 0..3 : rdesc[p + k] = template[p + k]
  BY <1>1, <1>2
<1>4. rdesc[p] = template[p] /\ rdesc[p + 1] = template[p + 1]
      /\ rdesc[p + 2] = template[p + 2] /\ rdesc[p + 3] = template[p + 3]
  BY <1>1, <1>2
<1> QED BY <1>1, <1>3, <1>4 DEF Found, Placeholder, IsHead, Room

LEMMA ReplaceKeepsScan ==
  ASSUME ScanInv, Replace
  PROVE  ScanInv'
<1> DEFINE n == Len(template)
           v == Params[template[p + 3] + 1]
<1>1. /\ template \in Templates /\ n \in Nat /\ p \in 1..n /\ pc = "scan" /\ pc' = "scan"
      /\ template' = template /\ p' = p + 4 /\ p + 3 <= n /\ Placeholder(template, p)
      /\ rdesc[p + 3] = template[p + 3]
  <2>1. template \in Templates /\ n \in Nat
    BY Lengths DEF ScanInv
  <2>2. /\ pc = "scan" /\ pc' = "scan" /\ template' = template /\ p' = p + 4
        /\ Room(template, p) /\ Found
    BY DEF Replace, After, PH
  <2>3. p \in 1..n /\ Placeholder(template, p) /\ \A k \in 0..3 : rdesc[p + k] = template[p + k]
    BY <2>2, FoundIsPlaceholder
  <2>4. p + 3 <= n
    BY <2>2 DEF Room
  <2> HIDE DEF n
  <2> QED BY <2>1, <2>2, <2>3, <2>4
<1>2. rdesc = [j \in 1..n |-> IF j < p THEN Applied(template)[j] ELSE template[j]]
  BY <1>1 DEF ScanInv
<1>3. rdesc' = [j \in 1..n |-> IF j \in p..(p + 3) THEN Byte(v, j - p) ELSE rdesc[j]]
  BY <1>1, <1>2 DEF Replace, Put
<1>4. \A j \in p..(p + 3) : Applied(template)[j] = Byte(v, j - p)
  BY <1>1, AppliedOver
<1>5. rdesc' = [j \in 1..n |-> IF j < p' THEN Applied(template)[j] ELSE template[j]]
  <2> SUFFICES ASSUME NEW j \in 1..n
               PROVE  (IF j \in p..(p + 3) THEN Byte(v, j - p) ELSE rdesc[j])
                        = IF j < p' THEN Applied(template)[j] ELSE template[j]
    BY <1>3
  <2> HIDE DEF v
  <2>1. CASE j < p
    BY <1>1, <1>2, <2>1
  <2>2. CASE j \in p..(p + 3)
    BY <1>1, <1>4, <2>2
  <2>3. CASE j > p + 3
    BY <1>1, <1>2, <2>3
  <2> QED BY <1>1, <2>1, <2>2, <2>3
<1>6. \A i \in 1..n : Placeholder(template, i) => i + 4 <= p' \/ p' <= i
  <2> SUFFICES ASSUME NEW i \in 1..n, Placeholder(template, i), i > p, i <= p + 3 PROVE FALSE
    BY <1>1 DEF ScanInv, After, PH
  <2> QED BY <1>1, NoOverlap
<1> HIDE DEF v, n
<1> QED BY <1>1, <1>5, <1>6 DEF ScanInv, After, PH, n

LEMMA SkipKeepsScan ==
  ASSUME ScanInv, Skip
  PROVE  ScanInv'
<1> DEFINE n == Len(template)
<1>1. /\ template \in Templates /\ n \in Nat /\ p \in 1..n /\ pc = "scan" /\ pc' = "scan"
      /\ template' = template /\ p' = p + 1 /\ rdesc' = rdesc /\ ~Placeholder(template, p)
  <2>1. template \in Templates /\ n \in Nat
    BY Lengths DEF ScanInv
  <2>2. /\ pc = "scan" /\ pc' = "scan" /\ template' = template /\ p' = p + 1
        /\ rdesc' = rdesc /\ Room(template, p) /\ ~Found
    BY DEF Skip
  <2>3. p \in 1..n /\ ~Placeholder(template, p)
    BY <2>2, FoundIsPlaceholder
  <2> QED BY <2>1, <2>2, <2>3
<1>2. /\ rdesc = [j \in 1..n |-> IF j < p THEN Applied(template)[j] ELSE template[j]]
      /\ \A i \in 1..n : Placeholder(template, i) => i + 4 <= p \/ p <= i
  BY <1>1 DEF ScanInv, After, PH
<1>3. \A i \in 1..n : Placeholder(template, i) => i + 4 <= p' \/ p' <= i
  BY <1>1, <1>2
<1>4. ~Covered(template, p)
  BY <1>1, <1>2 DEF Covered
<1>5. Applied(template)[p] = template[p]
  BY <1>1, <1>4, AppliedElsewhere
<1>6. rdesc' = [j \in 1..n |-> IF j < p' THEN Applied(template)[j] ELSE template[j]]
  BY <1>1, <1>2, <1>5
<1> HIDE DEF n
<1> QED BY <1>1, <1>3, <1>6 DEF ScanInv, After, PH, n

\* The loop invariant holds of every scan (uclogic_rdesc_template_apply
\* 850-859).
THEOREM ScanInductive == Spec => []ScanInv
<1>1. ScanInv /\ [Next]_vars => ScanInv'
  <2> SUFFICES ASSUME ScanInv, [Next]_vars PROVE ScanInv'
    OBVIOUS
  <2>1. CASE \E ok \in BOOLEAN : Copy(ok)
    BY <2>1, CopyKeepsScan
  <2>2. CASE Replace
    BY <2>2, ReplaceKeepsScan
  <2>3. CASE Skip
    BY <2>3, SkipKeepsScan
  <2>4. CASE Return
    BY <2>4 DEF Return, ScanInv
  <2>5. CASE UNCHANGED vars
    BY <2>5 DEF vars, ScanInv
  <2> QED BY <2>1, <2>2, <2>3, <2>4, <2>5 DEF Next
<1> QED BY InitScan, <1>1, PTL DEF Spec

\* A descriptor made from a template, of whatever length and with whatever
\* values, has each placeholder of the template replaced by its value and each
\* other byte as it was (uclogic_rdesc_template_apply 845-861).
THEOREM ReplacesEverything == Spec => []PlaceholdersReplaced
<1>1. ScanInv => PlaceholdersReplaced
  <2> SUFFICES ASSUME ScanInv, pc = "done" PROVE rdesc = Applied(template)
    BY DEF PlaceholdersReplaced
  <2> DEFINE n == Len(template)
  <2>1. /\ template \in Templates /\ n \in Nat /\ p \in Nat \ {0} /\ p + 3 > n
        /\ rdesc = [j \in 1..n |-> IF j < p THEN Applied(template)[j] ELSE template[j]]
        /\ \A i \in 1..n : Placeholder(template, i) => i + 4 <= p \/ p <= i
    <3>1. template \in Templates /\ n \in Nat
      BY Lengths DEF ScanInv
    <3>2. p \in Nat \ {0} /\ ~(p + 3 <= n)
      BY DEF ScanInv, Room
    <3>3. /\ rdesc = [j \in 1..n |-> IF j < p THEN Applied(template)[j] ELSE template[j]]
          /\ \A i \in 1..n : Placeholder(template, i) => i + 4 <= p \/ p <= i
      BY DEF ScanInv, After, PH
    <3> QED BY <3>1, <3>2, <3>3
  <2>2. \A i \in 1..n : Placeholder(template, i) => i + 4 <= p
    BY <2>1 DEF Placeholder, Room
  <2>3. \A j \in 1..n : p <= j => Applied(template)[j] = template[j]
    <3> SUFFICES ASSUME NEW j \in 1..n, p <= j PROVE ~Covered(template, j)
      BY AppliedElsewhere
    <3> QED BY <2>1, <2>2 DEF Covered
  <2>4. rdesc = [j \in 1..n |-> Applied(template)[j]]
    BY <2>1, <2>3
  <2>5. Applied(template) = [j \in 1..n |-> Applied(template)[j]]
    BY DEF Applied
  <2> QED BY <2>4, <2>5
<1> QED BY <1>1, ScanInductive, PTL
=============================================================================
