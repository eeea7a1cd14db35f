---------------------------- MODULE EnumArrayProofs ----------------------------
(***************************************************************************)
(* EnumArray copies a value's leaves in order, for all arrays, however     *)
(* they hold each other, all widths of the integers and any depth of the   *)
(* stack.                                                                  *)
(***************************************************************************)
EXTENDS ArrayLeaves, FlattenFacts, FiniteSetTheorems

LEMMA Halves ==
  ASSUME NEW n \in Nat \ {0}, n % 2 = 0
  PROVE  n \div 2 \in Nat /\ 2 * (n \div 2) = n
OBVIOUS

LEMMA Widths ==
  /\ IntValues \in Nat \ {0} /\ IntValues \div 2 \in Nat /\ 2 * (IntValues \div 2) = IntValues
  /\ ShortValues \in Nat \ {0} /\ ShortValues \div 2 \in Nat /\ 2 * (ShortValues \div 2) = ShortValues
  /\ ByteValues \in Nat \ {0} /\ ByteValues \div 2 \in Nat /\ 2 * (ByteValues \div 2) = ByteValues
  /\ ByteValues <= ShortValues /\ ShortValues <= IntValues
BY WidthAssumption, Halves

(* Every element of a typed array is an int, or one too many.              *)
LEMMA LayoutBounds ==
  ASSUME NEW type \in DOMAIN Layout, NEW n \in Layout[type]
  PROVE  n \in Int /\ -(IntValues \div 2) <= n /\ n < IntValues
<1> DEFINE Within(set) == \A m \in set : m \in Int /\ -(IntValues \div 2) <= m /\ m < IntValues
<1>1. ASSUME NEW w, w \in Nat, w \div 2 \in Nat, 2 * (w \div 2) = w, w <= IntValues
      PROVE  Within(Signed(w)) /\ Within(Unsigned(w))
  <2> PICK h : h = w \div 2
    OBVIOUS
  <2> PICK k : k = IntValues \div 2
    OBVIOUS
  <2>1. /\ h \in Nat /\ 2 * h = w /\ w <= IntValues
        /\ IntValues \in Nat /\ k \in Nat /\ 2 * k = IntValues
    BY <1>1, Widths
  <2>2. \A m \in -h .. h - 1 : m \in Int /\ -k <= m /\ m < IntValues
    BY <2>1
  <2>3. \A m \in 0 .. w - 1 : m \in Int /\ -k <= m /\ m < IntValues
    BY <1>1, <2>1
  <2> QED
    BY <2>2, <2>3 DEF Signed, Unsigned
<1>2. /\ Within(Signed(IntValues)) /\ Within(Unsigned(IntValues))
      /\ Within(Signed(ShortValues)) /\ Within(Unsigned(ShortValues))
      /\ Within(Signed(ByteValues)) /\ Within(Unsigned(ByteValues))
  <2>1. IntValues <= IntValues /\ ShortValues <= IntValues /\ ByteValues <= IntValues
    BY Widths
  <2> HIDE DEF Within
  <2> QED
    BY <1>1, <2>1, Widths
<1> HIDE DEF Within
<1>3. Within(Layout[type])
  BY <1>2 DEF Layout, Int32Range
<1> QED
  BY <1>3 DEF Within

(* Assigned to an int, it is an int, the same modulo the width.            *)
LEMMA WidenFits ==
  ASSUME NEW type \in DOMAIN Layout, NEW n \in Layout[type]
  PROVE  Widen(type, n) \in Int32Range /\ (Widen(type, n) - n) % IntValues = 0
<1> PICK k, w : k = IntValues \div 2 /\ w = IntValues
  OBVIOUS
<1>1. n \in Int /\ -k <= n /\ n < w /\ w \in Nat \ {0} /\ k \in Nat /\ 2 * k = w
  BY LayoutBounds, Widths
<1>2. Int32Range = -k .. k - 1
  BY DEF Int32Range, Signed
<1>3. CASE n \in Int32Range
  <2>1. n - n = 0 /\ 0 % w = 0
    BY <1>1
  <2> QED
    BY <1>3, <2>1 DEF Widen
<1>4. CASE n \notin Int32Range
  <2>1. n - w \in -k .. k - 1 /\ (n - w) - n = -w
    BY <1>1, <1>2, <1>4
  <2>2. (-w) % w = 0
    BY <1>1
  <2> QED
    BY <1>2, <1>4, <2>1, <2>2 DEF Widen
<1> QED
  BY <1>3, <1>4

LEMMA Int32IsInt == Int32Range \subseteq Int
BY Widths DEF Int32Range, Signed

(* A double is cut to the int it contains, or to any.                      *)
LEMMA ToIntFits ==
  ASSUME NEW n \in Int
  PROVE  ToInt(n) \subseteq Int32Range
BY DEF ToInt

(* What either overload pushes are numbers.                                *)
LEMMA NativeIsInt ==
  ASSUME NEW t \in {"int", "float"}
  PROVE  NativeRange(t) \subseteq Int
BY Int32IsInt, FloatsAssumption DEF NativeRange

LEMMA SeqOfInts ==
  ASSUME NEW S, S \subseteq Int, NEW s \in Seq(S)
  PROVE  s \in Seq(Int)
<1>1. Len(s) \in Nat /\ s \in [1..Len(s) -> S]
  OBVIOUS
<1>2. s \in [1..Len(s) -> Int]
  BY <1>1
<1> QED
  BY <1>1, <1>2

LEMMA NativeSeq ==
  ASSUME NEW t \in {"int", "float"}, NEW s \in Seq(NativeRange(t))
  PROVE  s \in Seq(Int)
BY NativeIsInt, SeqOfInts
-----------------------------------------------------------------------------
LEMMA ElementKinds ==
  ASSUME NEW e \in Elements
  PROVE  /\ e.type \in STRING /\ e.type # "None" /\ e # None
         /\ e.type = "Number" => e.number \in Int
         /\ e.type = "Array" => e.array \in Arrays
         /\ e.type = "Float32Array" => e.elements \in Seq(Floats)
         /\ e.type \in DOMAIN Layout => e.elements \in Seq(Layout[e.type])
BY ElementsAssumption DEF None

(* What an overload pushes of a typed array.                               *)
LEMMA TypedCopy ==
  ASSUME NEW e \in Elements, NEW t \in {"int", "float"}, e.type \in Copied(t)
  PROVE  LET copy == [i \in DOMAIN e.elements |->
                        IF t = "int" THEN Widen(e.type, e.elements[i]) ELSE e.elements[i]]
         IN  /\ e.elements \in Seq(Int)
             /\ copy \in Seq(Int) /\ Len(copy) = Len(e.elements)
             /\ copy \in Seq(NativeRange(t))
<1> DEFINE copy == [i \in DOMAIN e.elements |->
                      IF t = "int" THEN Widen(e.type, e.elements[i]) ELSE e.elements[i]]
<1>1. CASE t = "float"
  <2>1. e.elements \in Seq(Floats) /\ NativeRange(t) = Floats
    BY <1>1, ElementKinds DEF Copied, NativeRange
  <2>2. e.elements \in Seq(Int)
    BY <2>1, NativeSeq
  <2>3. copy = e.elements
    BY <1>1, <2>2
  <2> QED
    BY <1>1, <2>1, <2>2, <2>3
<1>2. CASE t = "int"
  <2>1. e.type \in DOMAIN Layout
    BY <1>2 DEF Copied
  <2> PICK s : s = e.elements
    OBVIOUS
  <2>2. s \in Seq(Layout[e.type]) /\ Len(s) \in Nat /\ DOMAIN s = 1..Len(s)
    BY <2>1, ElementKinds
  <2>3. ASSUME NEW i \in 1..Len(s)
        PROVE  s[i] \in Int /\ Widen(e.type, s[i]) \in Int32Range
    <3>1. s[i] \in Layout[e.type]
      BY <2>2
    <3> QED
      BY <2>1, <3>1, LayoutBounds, WidenFits
  <2>4. s \in Seq(Int)
    <3>1. s \in [1..Len(s) -> Int]
      BY <2>2, <2>3
    <3> QED
      BY <2>2, <3>1
  <2>5. copy = [i \in 1..Len(s) |-> Widen(e.type, s[i])]
    BY <1>2, <2>2
  <2>6. copy \in [1..Len(s) -> Int32Range] /\ copy \in [1..Len(s) -> Int]
    BY <2>3, <2>5, Int32IsInt
  <2> HIDE DEF copy
  <2>7. copy \in Seq(Int32Range) /\ copy \in Seq(Int) /\ Len(copy) = Len(s)
    BY <2>2, <2>6
  <2>8. NativeRange(t) = Int32Range
    BY <1>2 DEF NativeRange
  <2> QED
    BY <2>4, <2>7, <2>8 DEF copy
<1> QED
  BY <1>1, <1>2
-----------------------------------------------------------------------------
LEMMA InitTypeOK == Init => TypeOK
BY MaxDepthAssumption DEF Init, TypeOK, Frame

(* What an overload pushes fits.                                           *)
LEMMA NumberFits ==
  ASSUME NEW number \in Int, NEW t \in {"int", "float"},
         NEW n \in IF t = "int" THEN ToInt(number) ELSE ToFloat(number)
  PROVE  n \in NativeRange(t)
BY ToIntFits DEF ToFloat, NativeRange

LEMMA NextTypeOK == TypeOK /\ [Next]_vars => TypeOK'
<1> SUFFICES ASSUME TypeOK, [Next]_vars PROVE TypeOK'
  OBVIOUS
<1>1. CASE PushNumber
  <2>1. call \in Elements /\ call.number \in Int
    BY <1>1, ElementKinds DEF PushNumber, TypeOK, None
  <2>2. PICK n \in IF target = "int" THEN ToInt(call.number) ELSE ToFloat(call.number) :
          out' = Append(out, n)
    BY <1>1 DEF PushNumber
  <2>3. n \in NativeRange(target)
    BY <2>1, <2>2, NumberFits DEF TypeOK
  <2>4. out \in Seq(NativeRange(target)) /\ target' = target
    BY <1>1 DEF PushNumber, TypeOK
  <2>5. out' \in Seq(NativeRange(target'))
    BY <2>2, <2>3, <2>4
  <2> QED
    BY <1>1, <2>5 DEF PushNumber, TypeOK
<1>2. CASE EnterArray
  <2>1. call \in Elements /\ call.array \in Arrays
    BY <1>2, ElementKinds DEF EnterArray, TypeOK, None
  <2>2. stack \in Seq(Frame) /\ Len(stack) < MaxDepth /\ MaxDepth \in Nat
    BY <1>2, MaxDepthAssumption DEF EnterArray, TypeOK
  <2> PICK f : f = [array |-> call.array, index |-> 0]
    OBVIOUS
  <2>3. f \in Frame
    BY <2>1 DEF Frame
  <2>4. stack' = Append(stack, f)
    BY <1>2 DEF EnterArray
  <2>5. stack' \in Seq(Frame) /\ Len(stack') <= MaxDepth
    BY <2>2, <2>3, <2>4
  <2> QED
    BY <1>2, <2>5 DEF EnterArray, TypeOK
<1>3. CASE Overflow
  BY <1>3 DEF Overflow, TypeOK
<1>4. CASE CopyTyped
  <2>1. call.type # "None"
    BY <1>4 DEF CopyTyped, Copied, Layout
  <2>2. call \in Elements
    BY <2>1 DEF TypeOK, None
  <2> DEFINE s == [i \in DOMAIN call.elements |->
                     IF target = "int" THEN Widen(call.type, call.elements[i])
                                       ELSE call.elements[i]]
  <2>3. s \in Seq(NativeRange(target))
    BY <1>4, <2>2, TypedCopy DEF CopyTyped, TypeOK
  <2>4. out \in Seq(NativeRange(target)) /\ out' = out \o s /\ target' = target
    BY <1>4 DEF CopyTyped, TypeOK
  <2> HIDE DEF s
  <2>5. out' \in Seq(NativeRange(target'))
    BY <2>3, <2>4
  <2> QED
    BY <1>4, <2>5 DEF CopyTyped, TypeOK
<1>5. CASE Throw
  BY <1>5 DEF Throw, TypeOK
<1>6. CASE NextElement
  <2> PICK f : f = Top
    OBVIOUS
  <2>1. stack \in Seq(Frame) /\ stack # <<>> /\ Len(stack) <= MaxDepth
    BY <1>6 DEF NextElement, TypeOK
  <2>2. Len(stack) \in 1..Len(stack) /\ f \in Frame
    BY <2>1 DEF Top
  <2>3. f.array \in Arrays /\ f.index \in Nat
    BY <2>2 DEF Frame
  <2>4. heap[f.array] \in Seq(Elements)
    BY <2>3, ElementsAssumption DEF TypeOK
  <2>5. f.index < Len(heap[f.array])
    BY <1>6 DEF NextElement
  <2>6. heap[f.array][f.index + 1] \in Elements
    BY <2>3, <2>4, <2>5
  <2> PICK g : g = [f EXCEPT !.index = @ + 1]
    OBVIOUS
  <2>7. g \in Frame
    BY <2>2, <2>3 DEF Frame
  <2>8. stack' = [stack EXCEPT ![Len(stack)] = g] /\ call' = heap[f.array][f.index + 1]
    BY <1>6 DEF NextElement, SetTop
  <2>9. stack' \in Seq(Frame) /\ Len(stack') = Len(stack)
    BY <2>1, <2>2, <2>7, <2>8
  <2> QED
    BY <1>6, <2>1, <2>6, <2>8, <2>9 DEF NextElement, TypeOK
<1>7. CASE ReturnFromArray
  <2>1. stack \in Seq(Frame) /\ stack # <<>> /\ Len(stack) <= MaxDepth /\ MaxDepth \in Nat
    BY <1>7, MaxDepthAssumption DEF ReturnFromArray, TypeOK
  <2>2. stack' = SubSeq(stack, 1, Len(stack) - 1)
    BY <1>7 DEF ReturnFromArray
  <2>3. stack' \in Seq(Frame) /\ Len(stack') <= MaxDepth
    BY <2>1, <2>2
  <2> QED
    BY <1>7, <2>3 DEF ReturnFromArray, TypeOK
<1>8. CASE Done
  BY <1>8 DEF Done, TypeOK
<1>9. CASE UNCHANGED vars
  BY <1>9 DEF vars, TypeOK
<1> QED
  BY <1>1, <1>2, <1>3, <1>4, <1>5, <1>6, <1>7, <1>8, <1>9 DEF Next

(* Whatever the script's arrays hold, what is pushed are ints where ints   *)
(* are asked for, also of an unsigned element or of a number out of range, *)
(* and floats where floats are.                                            *)
THEOREM TypeCorrect == Spec => []TypeOK
BY InitTypeOK, NextTypeOK, PTL DEF Spec
-----------------------------------------------------------------------------
(***************************************************************************)
(* The reference: its recursion on the depth has a solution, and what it   *)
(* makes of each kind of value.                                            *)
(***************************************************************************)
LeafSet == [type : STRING, number : Int] \cup {Unconvertible, TooDeep}

(* The leaves of every array when d more calls fit, given those of d - 1.  *)
Row(h, t, d, above) ==
  [a \in Arrays |-> IF d = 0 THEN <<TooDeep>> ELSE LeavesIn(h[a], t, above)]

Tabulates(f, h, t, n) == f = [d \in 0..n |-> Row(h, t, d, f[d - 1])]

LEMMA TableExists ==
  ASSUME NEW h, NEW t
  PROVE  \A n \in Nat : \E f : Tabulates(f, h, t, n)
<1> DEFINE T == {n \in Nat : \E f : Tabulates(f, h, t, n)}
<1>1. 0 \in T
  <2> DEFINE f == [d \in 0..0 |-> Row(h, t, d, 0)]
  <2>1. ASSUME NEW d \in 0..0
        PROVE  Row(h, t, d, 0) = Row(h, t, d, f[d - 1])
    BY DEF Row
  <2>2. f = [d \in 0..0 |-> Row(h, t, d, f[d - 1])]
    BY <2>1
  <2> HIDE DEF f
  <2> QED
    BY <2>2 DEF Tabulates
<1>2. ASSUME NEW n \in Nat, n \in T
      PROVE  n + 1 \in T
  <2>1. PICK f : Tabulates(f, h, t, n)
    BY <1>2
  <2>2. \A d \in 0..n : f[d] = Row(h, t, d, f[d - 1])
    BY <2>1 DEF Tabulates
  <2> DEFINE g == [d \in 0..n + 1 |-> IF d = n + 1 THEN Row(h, t, d, f[n]) ELSE f[d]]
  <2>3. ASSUME NEW d \in 0..n + 1
        PROVE  g[d] = Row(h, t, d, g[d - 1])
    <3>1. CASE d = n + 1
      <4>1. d - 1 = n /\ n \in 0..n + 1 /\ n # n + 1
        BY <3>1
      <4>2. g[d - 1] = f[n] /\ g[d] = Row(h, t, d, f[n])
        BY <3>1, <4>1
      <4> HIDE DEF g
      <4> QED
        BY <4>2
    <3>2. CASE d # n + 1 /\ d # 0
      <4>1. d \in 0..n /\ d - 1 \in 0..n + 1 /\ d - 1 # n + 1
        BY <3>2
      <4>2. g[d - 1] = f[d - 1] /\ g[d] = f[d]
        BY <3>2, <4>1
      <4> HIDE DEF g
      <4> QED
        BY <2>2, <4>1, <4>2
    <3>3. CASE d = 0
      <4>1. d \in 0..n /\ d # n + 1
        BY <3>3
      <4>2. g[d] = f[d]
        BY <4>1
      <4>3. Row(h, t, d, f[d - 1]) = Row(h, t, d, g[d - 1])
        BY <3>3 DEF Row
      <4> HIDE DEF g
      <4> QED
        BY <2>2, <4>1, <4>2, <4>3
    <3> QED
      BY <3>1, <3>2, <3>3
  <2>4. g = [d \in 0..n + 1 |-> g[d]]
    OBVIOUS
  <2> HIDE DEF g
  <2>5. g = [d \in 0..n + 1 |-> Row(h, t, d, g[d - 1])]
    BY <2>3, <2>4
  <2>6. Tabulates(g, h, t, n + 1)
    BY <2>5 DEF Tabulates
  <2>7. n + 1 \in Nat
    OBVIOUS
  <2> QED
    BY <2>6, <2>7
<1> HIDE DEF T
<1>3. Nat \subseteq T
  BY <1>1, <1>2, SetInduction
<1> QED
  BY <1>3 DEF T

LEMMA TableRows ==
  ASSUME NEW h, NEW t, NEW d \in 0..MaxDepth
  PROVE  LeafTable(h, t)[d] = Row(h, t, d, LeafTable(h, t)[d - 1])
<1> DEFINE table == CHOOSE f : f = [e \in 0..MaxDepth |->
                      [a \in Arrays |-> IF e = 0 THEN <<TooDeep>>
                                        ELSE LeavesIn(h[a], t, f[e - 1])]]
<1>1. LeafTable(h, t) = table
  BY DEF LeafTable
<1>2. \E f : f = [e \in 0..MaxDepth |->
                [a \in Arrays |-> IF e = 0 THEN <<TooDeep>>
                                  ELSE LeavesIn(h[a], t, f[e - 1])]]
  <2>1. PICK f : Tabulates(f, h, t, MaxDepth)
    BY TableExists, MaxDepthAssumption
  <2> QED
    BY <2>1 DEF Tabulates, Row
<1>3. table = [e \in 0..MaxDepth |->
                [a \in Arrays |-> IF e = 0 THEN <<TooDeep>>
                                  ELSE LeavesIn(h[a], t, table[e - 1])]]
  BY <1>2
<1> HIDE DEF table
<1>4. table[d] = Row(h, t, d, table[d - 1])
  BY <1>3 DEF Row
<1> QED
  BY <1>1, <1>4

(* The leaves of a value of each kind.                                     *)
LEMMA KindsOfLeaves ==
  ASSUME NEW e \in Elements, NEW t \in {"int", "float"}, NEW below
  PROVE  /\ e.type = "Number" => LeavesOf(e, t, below) = <<Leaf("Number", e.number)>>
         /\ e.type = "Array" => LeavesOf(e, t, below) = below[e.array]
         /\ e.type \in Copied(t) =>
              LeavesOf(e, t, below) =
                [i \in DOMAIN e.elements |-> Leaf(e.type, e.elements[i])]
         /\ e.type \notin {"Number", "Array"} \cup Copied(t) =>
              LeavesOf(e, t, below) = <<Unconvertible>>
<1>1. "Number" \notin Copied(t) /\ "Array" \notin Copied(t)
  BY DEF Copied, Layout
<1> HIDE DEF Copied
<1> QED
  BY <1>1 DEF LeavesOf

LEMMA TypedLeaves ==
  ASSUME NEW e \in Elements, NEW t \in {"int", "float"}, e.type \in Copied(t)
  PROVE  LET leaves == [i \in DOMAIN e.elements |-> Leaf(e.type, e.elements[i])]
         IN  /\ leaves \in Seq(LeafSet) /\ Len(leaves) = Len(e.elements)
             /\ \A i \in 1..Len(e.elements) : leaves[i] = Leaf(e.type, e.elements[i])
<1> PICK s : s = e.elements
  OBVIOUS
<1>1. s \in Seq(Int) /\ Len(s) \in Nat /\ DOMAIN s = 1..Len(s)
  <2>1. e.elements \in Seq(Int)
    BY TypedCopy
  <2> QED
    BY <2>1
<1>2. e.type \in STRING
  BY ElementKinds
<1>3. ASSUME NEW i \in 1..Len(s)
      PROVE  Leaf(e.type, s[i]) \in LeafSet
  BY <1>1, <1>2 DEF Leaf, LeafSet
<1> DEFINE leaves == [i \in DOMAIN s |-> Leaf(e.type, s[i])]
<1>4. leaves \in [1..Len(s) -> LeafSet] /\ \A i \in 1..Len(s) : leaves[i] = Leaf(e.type, s[i])
  BY <1>1, <1>3
<1>5. leaves \in Seq(LeafSet) /\ Len(leaves) = Len(s)
  <2> HIDE DEF leaves
  <2> QED
    BY <1>1, <1>4
<1> QED
  BY <1>4, <1>5

LEMMA LeavesOfType ==
  ASSUME NEW e \in Elements, NEW t \in {"int", "float"},
         NEW below \in [Arrays -> Seq(LeafSet)]
  PROVE  LeavesOf(e, t, below) \in Seq(LeafSet)
<1>1. CASE e.type = "Number"
  <2>1. Leaf("Number", e.number) \in LeafSet
    BY <1>1, ElementKinds DEF Leaf, LeafSet
  <2>2. <<Leaf("Number", e.number)>> \in Seq(LeafSet)
    BY <2>1
  <2> QED
    BY <1>1, <2>2, KindsOfLeaves
<1>2. CASE e.type = "Array"
  BY <1>2, ElementKinds, KindsOfLeaves
<1>3. CASE e.type \in Copied(t)
  BY <1>3, TypedLeaves, KindsOfLeaves
<1>4. CASE e.type \notin {"Number", "Array"} \cup Copied(t)
  <2>1. Unconvertible \in LeafSet
    BY DEF LeafSet
  <2>2. <<Unconvertible>> \in Seq(LeafSet)
    BY <2>1
  <2> QED
    BY <1>4, <2>2, KindsOfLeaves
<1> QED
  BY <1>1, <1>2, <1>3, <1>4

LEMMA PartsType ==
  ASSUME NEW values \in Seq(Elements), NEW t \in {"int", "float"},
         NEW below \in [Arrays -> Seq(LeafSet)]
  PROVE  LET parts == [i \in DOMAIN values |-> LeavesOf(values[i], t, below)]
         IN  /\ parts \in Seq(Seq(LeafSet)) /\ Len(parts) = Len(values)
             /\ \A i \in 1..Len(values) : parts[i] = LeavesOf(values[i], t, below)
<1> DEFINE parts == [i \in DOMAIN values |-> LeavesOf(values[i], t, below)]
<1>1. DOMAIN values = 1..Len(values) /\ Len(values) \in Nat
  OBVIOUS
<1>2. ASSUME NEW i \in 1..Len(values)
      PROVE  LeavesOf(values[i], t, below) \in Seq(LeafSet)
  <2>1. values[i] \in Elements
    OBVIOUS
  <2> QED
    BY <2>1, LeavesOfType
<1>3. /\ parts \in [1..Len(values) -> Seq(LeafSet)]
      /\ \A i \in 1..Len(values) : parts[i] = LeavesOf(values[i], t, below)
  BY <1>1, <1>2
<1>4. parts \in Seq(Seq(LeafSet)) /\ Len(parts) = Len(values)
  <2> HIDE DEF parts
  <2> QED
    BY <1>1, <1>3
<1> QED
  BY <1>3, <1>4

LEMMA LeavesInType ==
  ASSUME NEW values \in Seq(Elements), NEW t \in {"int", "float"},
         NEW below \in [Arrays -> Seq(LeafSet)]
  PROVE  LeavesIn(values, t, below) \in Seq(LeafSet)
BY PartsType, FlattenType DEF LeavesIn

LEMMA LeavesInEmpty ==
  ASSUME NEW t, NEW below
  PROVE  LeavesIn(<<>>, t, below) = <<>>
<1>1. [i \in DOMAIN <<>> |-> LeavesOf(<<>>[i], t, below)] = <<>>
  OBVIOUS
<1> QED
  BY <1>1, FlattenEmpty DEF LeavesIn

(* Those of the first value come first.                                    *)
LEMMA LeavesInHead ==
  ASSUME NEW values \in Seq(Elements), NEW t \in {"int", "float"},
         NEW below \in [Arrays -> Seq(LeafSet)], values # <<>>
  PROVE  LeavesIn(values, t, below)
           = LeavesOf(values[1], t, below) \o LeavesIn(Tail(values), t, below)
<1> DEFINE parts == [i \in DOMAIN values |-> LeavesOf(values[i], t, below)]
           rest == [i \in DOMAIN Tail(values) |-> LeavesOf(Tail(values)[i], t, below)]
<1>1. /\ parts \in Seq(Seq(LeafSet)) /\ Len(parts) = Len(values)
      /\ \A i \in 1..Len(values) : parts[i] = LeavesOf(values[i], t, below)
  BY PartsType
<1>2. /\ Len(values) \in Nat /\ Len(values) >= 1
      /\ Tail(values) \in Seq(Elements) /\ Len(Tail(values)) = Len(values) - 1
      /\ \A i \in 1..Len(values) - 1 : Tail(values)[i] = values[i + 1]
  OBVIOUS
<1>3. /\ rest \in Seq(Seq(LeafSet)) /\ Len(rest) = Len(values) - 1
      /\ \A i \in 1..Len(values) - 1 : rest[i] = LeavesOf(Tail(values)[i], t, below)
  <2> PICK v : v = Tail(values)
    OBVIOUS
  <2>1. v \in Seq(Elements) /\ Len(v) = Len(values) - 1
    BY <1>2
  <2>2. LET others == [i \in DOMAIN v |-> LeavesOf(v[i], t, below)]
        IN  /\ others \in Seq(Seq(LeafSet)) /\ Len(others) = Len(v)
            /\ \A i \in 1..Len(v) : others[i] = LeavesOf(v[i], t, below)
    BY <2>1, PartsType
  <2> QED
    BY <2>1, <2>2
<1>4. LeavesIn(values, t, below) = FlattenSeq(parts)
      /\ LeavesIn(Tail(values), t, below) = FlattenSeq(rest)
  BY DEF LeavesIn
<1> HIDE DEF parts, rest
<1>5. Tail(parts) = rest
  <2>1. /\ Tail(parts) \in Seq(Seq(LeafSet)) /\ Len(Tail(parts)) = Len(values) - 1
        /\ \A i \in 1..Len(values) - 1 : Tail(parts)[i] = parts[i + 1]
    BY <1>1, <1>2
  <2>2. ASSUME NEW i \in 1..Len(values) - 1
        PROVE  Tail(parts)[i] = rest[i]
    <3>1. i + 1 \in 1..Len(values)
      BY <1>2
    <3> QED
      BY <1>1, <1>2, <1>3, <2>1, <3>1
  <2>3. ASSUME NEW s \in Seq(Seq(LeafSet)), Len(s) = Len(values) - 1
        PROVE  s = [i \in 1..Len(values) - 1 |-> s[i]]
    BY <2>3
  <2>4. /\ Tail(parts) = [i \in 1..Len(values) - 1 |-> Tail(parts)[i]]
        /\ rest = [i \in 1..Len(values) - 1 |-> rest[i]]
    BY <1>3, <2>1, <2>3
  <2> QED
    BY <2>2, <2>4
<1>6. parts # <<>> /\ parts[1] = LeavesOf(values[1], t, below)
  BY <1>1, <1>2
<1> QED
  BY <1>1, <1>4, <1>5, <1>6, FlattenHead

LEMMA TableType ==
  ASSUME NEW h \in [Arrays -> Contents], NEW t \in {"int", "float"}
  PROVE  \A d \in 0..MaxDepth : LeafTable(h, t)[d] \in [Arrays -> Seq(LeafSet)]
<1> DEFINE T == {d \in Nat : d <= MaxDepth => LeafTable(h, t)[d] \in [Arrays -> Seq(LeafSet)]}
<1>1. 0 \in T
  <2>1. 0 \in 0..MaxDepth /\ TooDeep \in LeafSet
    BY MaxDepthAssumption DEF LeafSet
  <2>2. LeafTable(h, t)[0] = Row(h, t, 0, LeafTable(h, t)[0 - 1])
    BY <2>1, TableRows
  <2>3. LeafTable(h, t)[0] = [a \in Arrays |-> <<TooDeep>>]
    BY <2>2 DEF Row
  <2>4. <<TooDeep>> \in Seq(LeafSet)
    BY <2>1
  <2>5. LeafTable(h, t)[0] \in [Arrays -> Seq(LeafSet)]
    BY <2>3, <2>4
  <2> QED
    BY <2>5
<1>2. ASSUME NEW n \in Nat, n \in T
      PROVE  n + 1 \in T
  <2>1. ASSUME n + 1 <= MaxDepth, NEW d, d = n + 1
        PROVE  LeafTable(h, t)[d] \in [Arrays -> Seq(LeafSet)]
    <3>1. d \in 0..MaxDepth /\ d - 1 = n /\ d # 0 /\ n <= MaxDepth
      BY <2>1, MaxDepthAssumption
    <3>2. LeafTable(h, t)[n] \in [Arrays -> Seq(LeafSet)]
      BY <1>2, <3>1
    <3>3. LeafTable(h, t)[d] = [a \in Arrays |-> LeavesIn(h[a], t, LeafTable(h, t)[n])]
      <4>1. LeafTable(h, t)[d] = Row(h, t, d, LeafTable(h, t)[d - 1])
        BY <3>1, TableRows
      <4>2. LeafTable(h, t)[d] = Row(h, t, d, LeafTable(h, t)[n])
        BY <3>1, <4>1
      <4> QED
        BY <3>1, <4>2 DEF Row
    <3>4. ASSUME NEW a \in Arrays
          PROVE  LeavesIn(h[a], t, LeafTable(h, t)[n]) \in Seq(LeafSet)
      <4>1. h[a] \in Seq(Elements)
        BY ElementsAssumption
      <4> QED
        BY <3>2, <4>1, LeavesInType
    <3> QED
      BY <3>3, <3>4
  <2>2. n + 1 \in Nat
    OBVIOUS
  <2> QED
    BY <2>1, <2>2
<1> HIDE DEF T
<1>3. Nat \subseteq T
  BY <1>1, <1>2, SetInduction
<1> QED
  BY <1>3, MaxDepthAssumption DEF T
-----------------------------------------------------------------------------
(***************************************************************************)
(* The leaves still to be copied are those of the value in hand and, for   *)
(* each frame from the innermost out, those of the array's elements that   *)
(* have not been taken.  rest[k] is what the k outermost frames leave.     *)
(***************************************************************************)
RestOf(h, t, frame, k) ==
  LeavesIn(SubSeq(h[frame.array], frame.index + 1, Len(h[frame.array])), t,
           LeafTable(h, t)[MaxDepth - k])

IsRest(rest, h, t, frames) ==
  /\ rest \in [0..Len(frames) -> Seq(LeafSet)]
  /\ rest[0] = <<>>
  /\ \A k \in 1..Len(frames) : rest[k] = RestOf(h, t, frames[k], k) \o rest[k - 1]

InHand(h, t, value, depth) ==
  IF value = None THEN <<>> ELSE LeavesOf(value, t, LeafTable(h, t)[MaxDepth - depth])

Copies(copied, done, t) ==
  /\ Len(copied) = Len(done)
  /\ \A i \in 1..Len(done) : /\ done[i].type \notin {"Unconvertible", "TooDeep"}
                             /\ IsCopyOf(copied[i], done[i], t)

Splits(all, h, t, value, frames, copied) ==
  \E done \in Seq(LeafSet) : \E rest :
    /\ IsRest(rest, h, t, frames)
    /\ Copies(copied, done, t)
    /\ all = done \o (InHand(h, t, value, Len(frames)) \o rest[Len(frames)])

LeavesInv == Splits(Leaves, heap, target, call, stack, out)

ResultInv ==
  /\ result = "done" => call = None /\ stack = <<>>
  /\ result = "thrown" =>
       call \in Elements /\ call.type \notin {"Number", "Array"} \cup Copied(target)
  /\ result = "overflow" =>
       call \in Elements /\ call.type = "Array" /\ Len(stack) = MaxDepth

CopyInv == TypeOK /\ root \in Elements /\ LeavesInv /\ ResultInv

(* What is left, r, is front and then the rest of the frames s.            *)
RestAfter(r, front, h, t, s) ==
  \E rest : IsRest(rest, h, t, s) /\ r = front \o rest[Len(s)]

(* s2 has one frame more than the first m of s.                            *)
Grown(s2, s, m) == Len(s2) = m + 1 /\ \A k \in 1..m : s2[k] = s[k]

(* rest2 goes on from the first m of rest, for the frames s2.              *)
Continues(rest2, rest, h, t, s2, m) ==
  /\ IsRest(rest2, h, t, s2)
  /\ rest2[m + 1] = RestOf(h, t, s2[m + 1], m + 1) \o rest[m]

(* A new innermost frame, or another one in its place.                     *)
LEMMA RestGrows ==
  ASSUME NEW h, NEW t, NEW s \in Seq(Frame), NEW rest, IsRest(rest, h, t, s),
         NEW m \in 0..Len(s), NEW s2 \in Seq(Frame), Grown(s2, s, m),
         RestOf(h, t, s2[m + 1], m + 1) \in Seq(LeafSet)
  PROVE  \E rest2 : Continues(rest2, rest, h, t, s2, m)
<1> USE DEF Grown
<1> PICK new : new = RestOf(h, t, s2[m + 1], m + 1) \o rest[m]
  OBVIOUS
<1>1. /\ m \in Nat /\ rest \in [0..Len(s) -> Seq(LeafSet)] /\ rest[0] = <<>>
      /\ \A k \in 0..m : rest[k] \in Seq(LeafSet)
      /\ \A k \in 1..m : k \in 1..Len(s)
  <2>1. Len(s) \in Nat /\ m \in Nat /\ m <= Len(s)
    OBVIOUS
  <2>2. rest \in [0..Len(s) -> Seq(LeafSet)] /\ rest[0] = <<>>
    BY DEF IsRest
  <2>3. /\ \A k \in 0..m : k \in 0..Len(s)
        /\ \A k \in 1..m : k \in 1..Len(s)
    BY <2>1
  <2> QED
    BY <2>1, <2>2, <2>3
<1>2. ASSUME NEW k \in 1..m
      PROVE  rest[k] = RestOf(h, t, s[k], k) \o rest[k - 1]
  BY <1>1 DEF IsRest
<1>3. new \in Seq(LeafSet)
  <2>1. m \in 0..m
    BY <1>1
  <2> QED
    BY <1>1, <2>1, ConcatenationType
<1> DEFINE rest2 == [k \in 0..m + 1 |-> IF k = m + 1 THEN new ELSE rest[k]]
<1>4. /\ rest2[m + 1] = new
      /\ \A k \in 0..m : rest2[k] = rest[k]
  <2>1. m + 1 \in 0..m + 1 /\ \A k \in 0..m : k \in 0..m + 1 /\ k # m + 1
    BY <1>1
  <2> QED
    BY <2>1
<1>5. rest2 \in [0..m + 1 -> Seq(LeafSet)]
  <2>1. ASSUME NEW k \in 0..m + 1
        PROVE  (IF k = m + 1 THEN new ELSE rest[k]) \in Seq(LeafSet)
    <3>1. k # m + 1 => k \in 0..m
      BY <1>1
    <3> QED
      BY <1>1, <1>3, <3>1
  <2> QED
    BY <2>1
<1> HIDE DEF rest2
<1>6. rest2[0] = <<>>
  BY <1>1, <1>4
<1>7. ASSUME NEW k \in 1..m + 1
      PROVE  rest2[k] = RestOf(h, t, s2[k], k) \o rest2[k - 1]
  <2>1. k - 1 \in 0..m /\ rest2[k - 1] = rest[k - 1]
    BY <1>1, <1>4
  <2>2. CASE k = m + 1
    <3>1. k - 1 = m
      BY <1>1, <2>2
    <3> QED
      BY <1>4, <2>1, <2>2, <3>1
  <2>3. CASE k # m + 1
    <3>1. k \in 1..m /\ k \in 0..m
      BY <1>1, <2>3
    <3> QED
      BY <1>2, <1>4, <2>1, <3>1
  <2> QED
    BY <2>2, <2>3
<1>8. IsRest(rest2, h, t, s2)
  BY <1>5, <1>6, <1>7 DEF IsRest
<1> QED
  BY <1>4, <1>8 DEF Continues

LEMMA EnterRest ==
  ASSUME NEW h \in [Arrays -> Contents], NEW t \in {"int", "float"},
         NEW s \in Seq(Frame), NEW rest, IsRest(rest, h, t, s),
         Len(s) < MaxDepth, NEW a \in Arrays,
         NEW f, f = [array |-> a, index |-> 0]
  PROVE  RestAfter(LeafTable(h, t)[MaxDepth - Len(s)][a] \o rest[Len(s)], <<>>,
                   h, t, Append(s, f))
<1>0. PICK n, d, s2 : n = Len(s) /\ d = MaxDepth - n /\ s2 = Append(s, f)
  OBVIOUS
<1>1. /\ n \in Nat /\ n \in 0..Len(s) /\ d \in 0..MaxDepth /\ d # 0 /\ d - 1 \in 0..MaxDepth
      /\ MaxDepth - (n + 1) = d - 1 /\ MaxDepth - n = d
  BY <1>0, MaxDepthAssumption
<1>2. f \in Frame /\ f.array = a /\ f.index = 0
  BY DEF Frame
<1>3. /\ s2 \in Seq(Frame) /\ Len(s2) = n + 1 /\ s2[n + 1] = f
      /\ \A k \in 1..n : s2[k] = s[k]
  BY <1>0, <1>2
<1>4. h[a] \in Seq(Elements)
  BY ElementsAssumption
<1>5. RestOf(h, t, f, n + 1) = LeavesIn(h[a], t, LeafTable(h, t)[d - 1])
  <2>1. SubSeq(h[a], 0 + 1, Len(h[a])) = h[a]
    BY <1>4
  <2> QED
    BY <1>1, <1>2, <2>1 DEF RestOf
<1>6. LeafTable(h, t)[d][a] = LeavesIn(h[a], t, LeafTable(h, t)[d - 1])
  <2>1. LeafTable(h, t)[d] = Row(h, t, d, LeafTable(h, t)[d - 1])
    BY <1>1, TableRows
  <2> QED
    BY <1>1, <2>1 DEF Row
<1>7. RestOf(h, t, s2[n + 1], n + 1) \in Seq(LeafSet)
  BY <1>1, <1>3, <1>4, <1>5, TableType, LeavesInType
<1>8. Grown(s2, s, n)
  BY <1>3 DEF Grown
<1>9. \E rest2 : Continues(rest2, rest, h, t, s2, n)
  BY <1>1, <1>3, <1>7, <1>8, RestGrows
<1>10. PICK rest2 : Continues(rest2, rest, h, t, s2, n)
  BY <1>9
<1>11. rest2[n + 1] = LeafTable(h, t)[d][a] \o rest[n]
  BY <1>3, <1>5, <1>6, <1>10 DEF Continues
<1>12. rest2[Len(s2)] \in Seq(LeafSet)
  <2>1. Len(s2) \in 0..Len(s2)
    BY <1>1, <1>3
  <2> QED
    BY <1>10, <2>1 DEF Continues, IsRest
<1>13. <<>> \o rest2[Len(s2)] = rest2[Len(s2)]
  BY <1>12
<1>14. RestAfter(LeafTable(h, t)[d][a] \o rest[n], <<>>, h, t, s2)
  BY <1>3, <1>10, <1>11, <1>13 DEF Continues, RestAfter
<1> QED
  BY <1>0, <1>14

LEMMA SameSequence ==
  ASSUME NEW X, NEW a \in Seq(X), NEW b \in Seq(X), Len(a) = Len(b),
         \A i \in 1..Len(a) : a[i] = b[i]
  PROVE  a = b
OBVIOUS

LEMMA SubSeqHead ==
  ASSUME NEW X, NEW v \in Seq(X), NEW i \in 1..Len(v)
  PROVE  LET now == SubSeq(v, i, Len(v))
             later == SubSeq(v, i + 1, Len(v))
         IN  /\ now \in Seq(X) /\ now # <<>> /\ later \in Seq(X)
             /\ now[1] = v[i] /\ Tail(now) = later
<1>a. PICK n : n = Len(v)
  OBVIOUS
<1>b. PICK now, later : now = SubSeq(v, i, n) /\ later = SubSeq(v, i + 1, n)
  OBVIOUS
<1>1. n \in Nat /\ i \in Nat /\ 1 <= i /\ i <= n
  BY <1>a
<1>2. now \in Seq(X) /\ Len(now) = n - i + 1
  BY <1>1, <1>a, <1>b
<1>3. \A j \in 1..n - i + 1 : now[j] = v[i + j - 1]
  BY <1>1, <1>a, <1>b
<1>4. later \in Seq(X) /\ Len(later) = n - i
  BY <1>1, <1>a, <1>b
<1>5. \A j \in 1..n - i : later[j] = v[i + 1 + j - 1]
  BY <1>1, <1>a, <1>b
<1>6. now # <<>> /\ 1 \in 1..n - i + 1
  BY <1>1, <1>2
<1>7. now[1] = v[i]
  <2>1. i + 1 - 1 = i
    BY <1>1
  <2> QED
    BY <1>3, <1>6, <2>1
<1>8. Tail(now) \in Seq(X) /\ Len(Tail(now)) = n - i
  BY <1>1, <1>2, <1>6
<1>9. ASSUME NEW j \in 1..n - i
      PROVE  Tail(now)[j] = later[j]
  <2>1. j + 1 \in 1..n - i + 1 /\ i + (j + 1) - 1 = i + 1 + j - 1
    BY <1>1
  <2>2. j \in 1..Len(now) - 1
    BY <1>1, <1>2
  <2>3. Tail(now)[j] = now[j + 1]
    BY <1>2, <1>6, <2>2
  <2> QED
    BY <1>3, <1>5, <2>1, <2>3
<1>10. Tail(now) = later
  BY <1>4, <1>8, <1>9, SameSequence
<1> QED
  BY <1>a, <1>b, <1>2, <1>4, <1>6, <1>7, <1>10

LEMMA NextRest ==
  ASSUME NEW h \in [Arrays -> Contents], NEW t \in {"int", "float"},
         NEW s \in Seq(Frame), NEW rest, IsRest(rest, h, t, s),
         NEW n, n = Len(s), n # 0, n <= MaxDepth,
         NEW f, f = s[n], f.index < Len(h[f.array]),
         NEW g, g = [f EXCEPT !.index = @ + 1]
  PROVE  RestAfter(rest[n],
                   LeavesOf(h[f.array][f.index + 1], t, LeafTable(h, t)[MaxDepth - n]),
                   h, t, [s EXCEPT ![n] = g])
<1>a. PICK m, s2, d : m = n - 1 /\ s2 = [s EXCEPT ![n] = g] /\ d = MaxDepth - n
  OBVIOUS
<1>1. /\ n \in Nat /\ n \in 1..Len(s) /\ m \in Nat /\ m \in 0..Len(s) /\ m + 1 = n
      /\ d \in 0..MaxDepth
  BY <1>a, MaxDepthAssumption
<1>2. f \in Frame /\ f.array \in Arrays /\ f.index \in Nat
  <2>1. f \in Frame
    BY <1>1
  <2> QED
    BY <2>1 DEF Frame
<1>3. g \in Frame /\ g.array = f.array /\ g.index = f.index + 1
  <2>1. f = [array |-> f.array, index |-> f.index]
    BY <1>2 DEF Frame
  <2>2. g = [array |-> f.array, index |-> f.index + 1]
    BY <2>1
  <2>3. f.index + 1 \in Nat
    BY <1>2
  <2>4. g \in Frame
    BY <1>2, <2>2, <2>3 DEF Frame
  <2> QED
    BY <2>2, <2>4
<1>4. /\ s2 \in Seq(Frame) /\ Len(s2) = n /\ s2[n] = g
      /\ \A k \in 1..m : s2[k] = s[k]
  BY <1>a, <1>1, <1>3
<1>b. PICK v, i : v = h[f.array] /\ i = f.index + 1
  OBVIOUS
<1>5. v \in Seq(Elements) /\ i \in 1..Len(v) /\ Len(v) \in Nat
  <2>1. v \in Seq(Elements)
    BY <1>b, <1>2, ElementsAssumption
  <2>2. Len(v) \in Nat
    BY <2>1
  <2> QED
    BY <1>b, <1>2, <2>1, <2>2
<1>c. PICK now, later : now = SubSeq(v, i, Len(v)) /\ later = SubSeq(v, i + 1, Len(v))
  OBVIOUS
<1>6. /\ now \in Seq(Elements) /\ now # <<>> /\ later \in Seq(Elements)
      /\ now[1] = v[i] /\ Tail(now) = later
  <2>1. LET n1 == SubSeq(v, i, Len(v))
            n2 == SubSeq(v, i + 1, Len(v))
        IN  /\ n1 \in Seq(Elements) /\ n1 # <<>> /\ n2 \in Seq(Elements)
            /\ n1[1] = v[i] /\ Tail(n1) = n2
    BY <1>5, SubSeqHead
  <2> QED
    BY <1>c, <2>1
<1>d. PICK below : below = LeafTable(h, t)[d]
  OBVIOUS
<1>7. below \in [Arrays -> Seq(LeafSet)]
  BY <1>d, <1>1, TableType
<1>8. RestOf(h, t, f, n) = LeavesIn(now, t, below)
  BY <1>a, <1>b, <1>c, <1>d DEF RestOf
<1>9. RestOf(h, t, g, n) = LeavesIn(later, t, below)
  BY <1>a, <1>b, <1>c, <1>d, <1>3 DEF RestOf
<1>10. LeavesIn(now, t, below) = LeavesOf(v[i], t, below) \o LeavesIn(later, t, below)
  <2>1. LeavesIn(now, t, below)
          = LeavesOf(now[1], t, below) \o LeavesIn(Tail(now), t, below)
    BY <1>6, <1>7, LeavesInHead
  <2> QED
    BY <1>6, <2>1
<1>11. LeavesOf(v[i], t, below) \in Seq(LeafSet) /\ LeavesIn(later, t, below) \in Seq(LeafSet)
  <2>1. v[i] \in Elements
    BY <1>5
  <2>2. LeavesOf(v[i], t, below) \in Seq(LeafSet)
    BY <1>7, <2>1, LeavesOfType
  <2>3. LeavesIn(later, t, below) \in Seq(LeafSet)
    BY <1>6, <1>7, LeavesInType
  <2> QED
    BY <2>2, <2>3
<1>12. rest[n] = RestOf(h, t, f, n) \o rest[m] /\ rest[m] \in Seq(LeafSet)
  <2>1. rest[n] = RestOf(h, t, s[n], n) \o rest[n - 1]
    BY <1>1 DEF IsRest
  <2> QED
    BY <1>a, <1>1, <2>1 DEF IsRest
<1>13. PICK rest2 : /\ IsRest(rest2, h, t, s2)
                    /\ rest2[n] = RestOf(h, t, s2[n], n) \o rest[m]
  <2>1. Grown(s2, s, m) /\ n = m + 1
    BY <1>1, <1>4 DEF Grown
  <2>2. RestOf(h, t, s2[m + 1], m + 1) \in Seq(LeafSet)
    BY <1>1, <1>4, <1>9, <1>11
  <2>3. \E rest2 : Continues(rest2, rest, h, t, s2, m)
    BY <1>1, <1>4, <2>1, <2>2, RestGrows
  <2> QED
    BY <2>1, <2>3 DEF Continues
<1>14. rest2[n] = LeavesIn(later, t, below) \o rest[m]
  BY <1>4, <1>9, <1>13
<1>15. ASSUME NEW a \in Seq(LeafSet), NEW b \in Seq(LeafSet), NEW c \in Seq(LeafSet)
       PROVE  (a \o b) \o c = a \o (b \o c)
  OBVIOUS
<1>16. rest[n] = LeavesOf(v[i], t, below) \o rest2[n]
  <2>1. rest[n] = (LeavesOf(v[i], t, below) \o LeavesIn(later, t, below)) \o rest[m]
    BY <1>8, <1>10, <1>12
  <2>2. @ = LeavesOf(v[i], t, below) \o (LeavesIn(later, t, below) \o rest[m])
    BY <1>11, <1>12, <1>15
  <2> QED
    BY <1>14, <2>1, <2>2
<1>17. RestAfter(rest[n], LeavesOf(v[i], t, below), h, t, s2)
  BY <1>4, <1>13, <1>16 DEF RestAfter
<1> QED
  BY <1>a, <1>b, <1>d, <1>17

LEMMA ReturnRest ==
  ASSUME NEW h \in [Arrays -> Contents], NEW t \in {"int", "float"},
         NEW s \in Seq(Frame), NEW rest, IsRest(rest, h, t, s),
         NEW n, n = Len(s), n # 0,
         NEW f, f = s[n], f.index = Len(h[f.array])
  PROVE  RestAfter(rest[n], <<>>, h, t, SubSeq(s, 1, n - 1))
<1>0. PICK m, s2 : m = n - 1 /\ s2 = SubSeq(s, 1, n - 1)
  OBVIOUS
<1>1. n \in Nat /\ n \in 1..Len(s) /\ m \in Nat /\ m < n
  BY <1>0
<1>2. s2 \in Seq(Frame) /\ Len(s2) = m /\ \A k \in 1..m : s2[k] = s[k]
  BY <1>0, <1>1
<1>3. /\ rest \in [0..Len(s) -> Seq(LeafSet)] /\ rest[0] = <<>>
      /\ \A k \in 1..Len(s) : rest[k] = RestOf(h, t, s[k], k) \o rest[k - 1]
  BY DEF IsRest
<1> DEFINE rest2 == [k \in 0..m |-> rest[k]]
<1>4. rest2 \in [0..m -> Seq(LeafSet)] /\ \A k \in 0..m : rest2[k] = rest[k]
  <2>1. \A k \in 0..m : k \in 0..Len(s)
    BY <1>1
  <2> QED
    BY <1>3, <2>1
<1> HIDE DEF rest2
<1>5. ASSUME NEW k \in 1..m
      PROVE  rest2[k] = RestOf(h, t, s2[k], k) \o rest2[k - 1]
  <2>1. k \in 1..Len(s) /\ k \in 0..m /\ k - 1 \in 0..m
    BY <1>1
  <2> QED
    BY <1>2, <1>3, <1>4, <2>1
<1>6. IsRest(rest2, h, t, s2)
  <2>1. 0 \in 0..m
    BY <1>1
  <2> QED
    BY <1>2, <1>3, <1>4, <1>5, <2>1 DEF IsRest
<1>7. rest[n] = <<>> \o rest2[m]
  <2>1. f.array \in Arrays
    <3>1. f \in Frame
      BY <1>1
    <3> QED
      BY <3>1 DEF Frame
  <2>2. h[f.array] \in Seq(Elements)
    BY <2>1, ElementsAssumption
  <2>3. SubSeq(h[f.array], f.index + 1, Len(h[f.array])) = <<>>
    BY <2>2
  <2>4. RestOf(h, t, f, n) = <<>>
    BY <2>3, LeavesInEmpty DEF RestOf
  <2>5. rest[n] = RestOf(h, t, f, n) \o rest[m] /\ rest[m] \in Seq(LeafSet) /\ m \in 0..m
    <3>1. rest[n] = RestOf(h, t, s[n], n) \o rest[n - 1]
      BY <1>1, <1>3
    <3>2. m = n - 1
      BY <1>0
    <3>3. m \in 0..Len(s) /\ m \in 0..m
      BY <1>1
    <3> QED
      BY <1>3, <3>1, <3>2, <3>3
  <2>6. <<>> \o rest[m] = rest[m]
    BY <2>5
  <2> QED
    BY <1>4, <2>4, <2>5, <2>6
<1>8. RestAfter(rest[n], <<>>, h, t, s2)
  BY <1>2, <1>6, <1>7 DEF RestAfter
<1> QED
  BY <1>0, <1>8
-----------------------------------------------------------------------------
(***************************************************************************)
(* Each step keeps the split of the leaves into those copied, those of the *)
(* value in hand and the rest.                                             *)
(***************************************************************************)
LEMMA InHandType ==
  ASSUME NEW h \in [Arrays -> Contents], NEW t \in {"int", "float"},
         NEW value \in Elements \cup {None}, NEW depth \in 0..MaxDepth
  PROVE  InHand(h, t, value, depth) \in Seq(LeafSet)
<1>1. MaxDepth - depth \in 0..MaxDepth
  BY MaxDepthAssumption
<1>2. LeafTable(h, t)[MaxDepth - depth] \in [Arrays -> Seq(LeafSet)]
  BY <1>1, TableType
<1>3. CASE value = None
  BY <1>3 DEF InHand
<1>4. CASE value # None
  BY <1>2, <1>4, LeavesOfType DEF InHand
<1> QED
  BY <1>3, <1>4

LEMMA CopiesConcatenated ==
  ASSUME NEW t, NEW c1 \in Seq(Int), NEW c2 \in Seq(Int),
         NEW d1 \in Seq(LeafSet), NEW d2 \in Seq(LeafSet),
         Copies(c1, d1, t), Copies(c2, d2, t)
  PROVE  Copies(c1 \o c2, d1 \o d2, t)
<1>1. /\ Len(c1) = Len(d1) /\ Len(c2) = Len(d2) /\ Len(d1) \in Nat /\ Len(d2) \in Nat
      /\ Len(c1 \o c2) = Len(d1) + Len(d2) /\ Len(d1 \o d2) = Len(d1) + Len(d2)
  <2>1. Len(c1) = Len(d1) /\ Len(c2) = Len(d2)
    BY DEF Copies
  <2>2. Len(d1) \in Nat /\ Len(d2) \in Nat
    OBVIOUS
  <2>3. Len(c1 \o c2) = Len(c1) + Len(c2) /\ Len(d1 \o d2) = Len(d1) + Len(d2)
    OBVIOUS
  <2> QED
    BY <2>1, <2>2, <2>3
<1>2. ASSUME NEW i \in 1..Len(d1)
      PROVE  (c1 \o c2)[i] = c1[i] /\ (d1 \o d2)[i] = d1[i]
  BY <1>1
<1>3. ASSUME NEW i \in 1..Len(d2), NEW j, j = Len(d1) + i
      PROVE  (c1 \o c2)[j] = c2[i] /\ (d1 \o d2)[j] = d2[i]
  BY <1>1, <1>3
<1>4. ASSUME NEW j \in 1..Len(d1 \o d2)
      PROVE  /\ (d1 \o d2)[j].type \notin {"Unconvertible", "TooDeep"}
             /\ IsCopyOf((c1 \o c2)[j], (d1 \o d2)[j], t)
  <2>1. CASE j \in 1..Len(d1)
    BY <1>2, <2>1 DEF Copies
  <2>2. CASE j \notin 1..Len(d1)
    <3>1. PICK i \in 1..Len(d2) : j = Len(d1) + i
      <4>1. j - Len(d1) \in 1..Len(d2) /\ j = Len(d1) + (j - Len(d1))
        BY <1>1, <2>2
      <4> QED
        BY <4>1
    <3> QED
      BY <1>3, <3>1 DEF Copies
  <2> QED
    BY <2>1, <2>2
<1> QED
  BY <1>1, <1>4 DEF Copies

LEMMA CopySplits ==
  ASSUME NEW h \in [Arrays -> Contents], NEW t \in {"int", "float"},
         NEW value \in Elements, NEW s \in Seq(Frame), Len(s) <= MaxDepth,
         NEW o \in Seq(Int), NEW more \in Seq(Int), NEW all,
         Splits(all, h, t, value, s, o),
         Copies(more, InHand(h, t, value, Len(s)), t)
  PROVE  Splits(all, h, t, None, s, o \o more)
<1>1. PICK done, rest :
        /\ done \in Seq(LeafSet)
        /\ IsRest(rest, h, t, s)
        /\ Copies(o, done, t)
        /\ all = done \o (InHand(h, t, value, Len(s)) \o rest[Len(s)])
  BY DEF Splits
<1>2. PICK hand : hand = InHand(h, t, value, Len(s))
  OBVIOUS
<1>3. PICK r : r = rest[Len(s)]
  OBVIOUS
<1>4. Len(s) \in 0..MaxDepth /\ Len(s) \in 0..Len(s)
  <2>1. Len(s) \in Nat
    OBVIOUS
  <2> QED
    BY <2>1, MaxDepthAssumption
<1>5. hand \in Seq(LeafSet) /\ r \in Seq(LeafSet)
  BY <1>1, <1>2, <1>3, <1>4, InHandType DEF IsRest
<1>6. all = (done \o hand) \o (<<>> \o r)
  <2>1. <<>> \o r = r
    BY <1>5
  <2>2. done \o (hand \o r) = (done \o hand) \o r
    BY <1>5
  <2> QED
    BY <1>1, <1>2, <1>3, <2>1, <2>2
<1>7. Copies(o \o more, done \o hand, t)
  BY <1>1, <1>2, <1>5, CopiesConcatenated
<1>8. done \o hand \in Seq(LeafSet)
  BY <1>1, <1>5
<1>9. InHand(h, t, None, Len(s)) = <<>>
  BY DEF InHand
<1> QED
  BY <1>1, <1>3, <1>6, <1>7, <1>8, <1>9 DEF Splits

LEMMA EnterSplits ==
  ASSUME NEW h \in [Arrays -> Contents], NEW t \in {"int", "float"},
         NEW value \in Elements, value.type = "Array",
         NEW s \in Seq(Frame), Len(s) < MaxDepth, NEW o, NEW all,
         Splits(all, h, t, value, s, o)
  PROVE  Splits(all, h, t, None, Append(s, [array |-> value.array, index |-> 0]), o)
<1>1. PICK done, rest :
        /\ done \in Seq(LeafSet)
        /\ IsRest(rest, h, t, s)
        /\ Copies(o, done, t)
        /\ all = done \o (InHand(h, t, value, Len(s)) \o rest[Len(s)])
  BY DEF Splits
<1>2. PICK f : f = [array |-> value.array, index |-> 0]
  OBVIOUS
<1>3. PICK s2 : s2 = Append(s, f)
  OBVIOUS
<1>4. value.array \in Arrays /\ value # None
  BY ElementKinds
<1>5. RestAfter(LeafTable(h, t)[MaxDepth - Len(s)][value.array] \o rest[Len(s)], <<>>,
                h, t, s2)
  BY <1>1, <1>2, <1>3, <1>4, EnterRest
<1>6. InHand(h, t, value, Len(s)) = LeafTable(h, t)[MaxDepth - Len(s)][value.array]
  BY <1>4, KindsOfLeaves DEF InHand
<1>7. PICK rest2 : /\ IsRest(rest2, h, t, s2)
                   /\ InHand(h, t, value, Len(s)) \o rest[Len(s)] = <<>> \o rest2[Len(s2)]
  BY <1>5, <1>6 DEF RestAfter
<1>8. InHand(h, t, None, Len(s2)) = <<>>
  BY DEF InHand
<1>9. Splits(all, h, t, None, s2, o)
  BY <1>1, <1>7, <1>8 DEF Splits
<1> QED
  BY <1>2, <1>3, <1>9

LEMMA NextSplits ==
  ASSUME NEW h \in [Arrays -> Contents], NEW t \in {"int", "float"},
         NEW s \in Seq(Frame), s # <<>>, Len(s) <= MaxDepth, NEW o, NEW all,
         Splits(all, h, t, None, s, o),
         NEW f, f = s[Len(s)], f.index < Len(h[f.array]),
         NEW g, g = [f EXCEPT !.index = @ + 1],
         NEW value, value = h[f.array][f.index + 1], value \in Elements
  PROVE  Splits(all, h, t, value, [s EXCEPT ![Len(s)] = g], o)
<1>1. PICK done, rest :
        /\ done \in Seq(LeafSet)
        /\ IsRest(rest, h, t, s)
        /\ Copies(o, done, t)
        /\ all = done \o (InHand(h, t, None, Len(s)) \o rest[Len(s)])
  BY DEF Splits
<1>2. PICK n : n = Len(s)
  OBVIOUS
<1>3. n \in Nat /\ n # 0 /\ n \in 0..n
  BY <1>2
<1>4. PICK s2 : s2 = [s EXCEPT ![n] = g]
  OBVIOUS
<1>5. PICK rest2 :
        /\ IsRest(rest2, h, t, s2)
        /\ rest[n] = LeavesOf(h[f.array][f.index + 1], t, LeafTable(h, t)[MaxDepth - n])
                       \o rest2[Len(s2)]
  <2>1. RestAfter(rest[n],
                  LeavesOf(h[f.array][f.index + 1], t, LeafTable(h, t)[MaxDepth - n]),
                  h, t, s2)
    BY <1>1, <1>2, <1>3, <1>4, NextRest
  <2> QED
    BY <2>1 DEF RestAfter
<1>6. InHand(h, t, value, n) = LeavesOf(value, t, LeafTable(h, t)[MaxDepth - n])
  BY ElementKinds DEF InHand
<1>7. InHand(h, t, None, n) \o rest[n] = rest[n]
  <2>1. rest[n] \in Seq(LeafSet)
    BY <1>1, <1>2, <1>3 DEF IsRest
  <2>2. InHand(h, t, None, n) = <<>>
    BY DEF InHand
  <2> QED
    BY <2>1, <2>2
<1>8. Len(s2) = n
  BY <1>2, <1>4
<1>9. all = done \o (InHand(h, t, value, Len(s2)) \o rest2[Len(s2)])
  BY <1>1, <1>2, <1>5, <1>6, <1>7, <1>8
<1>10. Splits(all, h, t, value, s2, o)
  BY <1>1, <1>5, <1>9 DEF Splits
<1> QED
  BY <1>2, <1>4, <1>10

LEMMA ReturnSplits ==
  ASSUME NEW h \in [Arrays -> Contents], NEW t \in {"int", "float"},
         NEW s \in Seq(Frame), s # <<>>, NEW o, NEW all,
         Splits(all, h, t, None, s, o),
         NEW f, f = s[Len(s)], f.index = Len(h[f.array])
  PROVE  Splits(all, h, t, None, SubSeq(s, 1, Len(s) - 1), o)
<1>1. PICK done, rest :
        /\ done \in Seq(LeafSet)
        /\ IsRest(rest, h, t, s)
        /\ Copies(o, done, t)
        /\ all = done \o (InHand(h, t, None, Len(s)) \o rest[Len(s)])
  BY DEF Splits
<1>2. PICK n : n = Len(s)
  OBVIOUS
<1>3. n \in Nat /\ n # 0
  BY <1>2
<1>4. PICK s2 : s2 = SubSeq(s, 1, n - 1)
  OBVIOUS
<1>5. RestAfter(rest[n], <<>>, h, t, s2)
  BY <1>1, <1>2, <1>3, <1>4, ReturnRest
<1>6. PICK rest2 : IsRest(rest2, h, t, s2) /\ rest[n] = <<>> \o rest2[Len(s2)]
  BY <1>5 DEF RestAfter
<1>7. InHand(h, t, None, n) = <<>> /\ InHand(h, t, None, Len(s2)) = <<>>
  BY DEF InHand
<1>8. InHand(h, t, None, n) \o rest[n] = rest[n]
  <2>1. n \in 0..n
    BY <1>3
  <2>2. rest[n] \in Seq(LeafSet)
    BY <1>1, <1>2, <2>1 DEF IsRest
  <2> QED
    BY <1>7, <2>2
<1>9. all = done \o (InHand(h, t, None, Len(s2)) \o rest2[Len(s2)])
  BY <1>1, <1>2, <1>6, <1>7, <1>8
<1>10. Splits(all, h, t, None, s2, o)
  BY <1>1, <1>6, <1>9 DEF Splits
<1> QED
  BY <1>2, <1>4, <1>10
-----------------------------------------------------------------------------
(* A number is pushed as the nearest float, or without its fraction, if it *)
(* fits.                                                                   *)
LEMMA NumberCopied ==
  ASSUME NEW number \in Int, NEW t \in {"int", "float"},
         NEW n \in IF t = "int" THEN ToInt(number) ELSE ToFloat(number)
  PROVE  n \in Int /\ Copies(<<n>>, <<Leaf("Number", number)>>, t)
<1>1. IsCopyOf(n, Leaf("Number", number), t)
  <2>1. CASE t = "float"
    <3>1. n \in Floats /\ \A f \in Floats : Distance(n, number) <= Distance(f, number)
      BY <2>1 DEF ToFloat
    <3>2. \A f \in Floats \cup {n} : Distance(f, number) \in Int
      BY <3>1, FloatsAssumption DEF Distance
    <3>3. ~\E f \in Floats : Distance(f, number) < Distance(n, number)
      BY <3>1, <3>2
    <3>4. /\ Leaf("Number", number).type = "Number"
          /\ Leaf("Number", number).number = number
      BY DEF Leaf
    <3> QED
      BY <2>1, <3>1, <3>3, <3>4 DEF IsCopyOf, IsFloatOf
  <2>2. CASE t = "int"
    <3>1. ASSUME NEW whole \in Int32Range,
                 \/ number >= 0 /\ 2 * whole \in {number - 1, number}
                 \/ number < 0 /\ 2 * whole \in {number, number + 1}
          PROVE  n = whole
      <4>1. whole \in Int
        BY Int32IsInt
      <4>2. Truncated(number) = whole
        BY <3>1, <4>1 DEF Truncated
      <4> QED
        BY <2>2, <4>2 DEF ToInt
    <3>2. t # "float"
      BY <2>2
    <3>3. /\ Leaf("Number", number).type = "Number"
          /\ Leaf("Number", number).number = number
      BY DEF Leaf
    <3> QED
      BY <3>1, <3>2, <3>3 DEF IsCopyOf, IsIntOf
  <2> QED
    BY <2>1, <2>2
<1>2. n \in Int
  BY NumberFits, NativeIsInt
<1>3. Leaf("Number", number).type \notin {"Unconvertible", "TooDeep"}
  BY DEF Leaf
<1>4. PICK leaf : leaf = Leaf("Number", number)
  OBVIOUS
<1>5. Len(<<n>>) = 1 /\ Len(<<leaf>>) = 1 /\ <<n>>[1] = n /\ <<leaf>>[1] = leaf
  OBVIOUS
<1>6. Copies(<<n>>, <<leaf>>, t)
  <2>1. ASSUME NEW i \in 1..1
        PROVE  i = 1
    OBVIOUS
  <2> QED
    BY <1>1, <1>3, <1>4, <1>5, <2>1 DEF Copies
<1> QED
  BY <1>2, <1>4, <1>6

LEMMA TypedCopied ==
  ASSUME NEW e \in Elements, NEW t \in {"int", "float"}, e.type \in Copied(t)
  PROVE  Copies([i \in DOMAIN e.elements |->
                   IF t = "int" THEN Widen(e.type, e.elements[i]) ELSE e.elements[i]],
                [i \in DOMAIN e.elements |-> Leaf(e.type, e.elements[i])], t)
<1>1. PICK copy : copy = [i \in DOMAIN e.elements |->
                   IF t = "int" THEN Widen(e.type, e.elements[i]) ELSE e.elements[i]]
  OBVIOUS
<1>2. PICK leaves : leaves = [i \in DOMAIN e.elements |-> Leaf(e.type, e.elements[i])]
  OBVIOUS
<1>3. PICK s : s = e.elements
  OBVIOUS
<1>4. s \in Seq(Int) /\ Len(copy) = Len(s)
  BY <1>1, <1>3, TypedCopy
<1>5. Len(leaves) = Len(s) /\ \A i \in 1..Len(s) : leaves[i] = Leaf(e.type, s[i])
  BY <1>2, <1>3, TypedLeaves
<1>6. \A i \in 1..Len(s) : copy[i] = IF t = "int" THEN Widen(e.type, s[i]) ELSE s[i]
  <2>1. DOMAIN s = 1..Len(s)
    BY <1>4
  <2> QED
    BY <1>1, <1>3, <2>1
<1>7. e.type \notin {"Number", "Unconvertible", "TooDeep"}
  BY DEF Copied, Layout
<1>8. ASSUME NEW i \in 1..Len(s)
      PROVE  /\ leaves[i].type \notin {"Unconvertible", "TooDeep"}
             /\ IsCopyOf(copy[i], leaves[i], t)
  <2>1. leaves[i].type = e.type /\ leaves[i].number = s[i]
    <3>1. leaves[i] = Leaf(e.type, s[i])
      BY <1>5
    <3>2. Leaf(e.type, s[i]).type = e.type /\ Leaf(e.type, s[i]).number = s[i]
      BY DEF Leaf
    <3> QED
      BY <3>1, <3>2
  <2>2. CASE t = "float"
    BY <1>6, <1>7, <2>1, <2>2 DEF IsCopyOf, IsFloatOf
  <2>3. CASE t = "int"
    <3>1. e.type \in DOMAIN Layout
      BY <2>3 DEF Copied
    <3>2. s \in Seq(Layout[e.type])
      BY <1>3, <3>1, ElementKinds
    <3>3. s[i] \in Layout[e.type]
      BY <3>2
    <3>4. (Widen(e.type, s[i]) - s[i]) % IntValues = 0
      BY <3>1, <3>3, WidenFits
    <3>5. copy[i] = Widen(e.type, s[i]) /\ t # "float"
      BY <1>6, <2>3
    <3> QED
      BY <1>7, <2>1, <3>4, <3>5 DEF IsCopyOf, IsIntOf
  <2> QED
    BY <2>2, <2>3
<1>9. Copies(copy, leaves, t)
  BY <1>4, <1>5, <1>8 DEF Copies
<1> QED
  BY <1>1, <1>2, <1>9
-----------------------------------------------------------------------------
LEMMA InitCopyInv == LeavesInit => CopyInv
<1> SUFFICES ASSUME LeavesInit PROVE CopyInv
  OBVIOUS
<1>1. TypeOK /\ root \in Elements
  BY InitTypeOK DEF LeavesInit, Init
<1>2. /\ stack = <<>> /\ out = <<>> /\ result = "running" /\ call = root
      /\ heap \in [Arrays -> Contents] /\ target \in {"int", "float"}
  BY DEF LeavesInit, Init
<1>3. PICK rest : rest = [k \in 0..0 |-> <<>>]
  OBVIOUS
<1>4. Len(stack) = 0 /\ rest \in [0..0 -> Seq(LeafSet)] /\ rest[0] = <<>>
  BY <1>2, <1>3
<1>5. IsRest(rest, heap, target, stack)
  <2>1. 1..Len(stack) = {}
    BY <1>4
  <2> QED
    BY <1>4, <2>1 DEF IsRest
<1>6. Copies(out, <<>>, target)
  BY <1>2 DEF Copies
<1>7. root # None
  BY <1>1, ElementKinds
<1>8. Leaves = InHand(heap, target, call, Len(stack))
  <2>1. MaxDepth - Len(stack) = MaxDepth
    BY <1>4, MaxDepthAssumption
  <2> QED
    BY <1>2, <1>7, <2>1 DEF Leaves, InHand
<1>9. PICK hand : hand = InHand(heap, target, call, Len(stack))
  OBVIOUS
<1>10. hand \in Seq(LeafSet)
  <2>1. Len(stack) \in 0..MaxDepth
    BY <1>4, MaxDepthAssumption
  <2> QED
    BY <1>1, <1>2, <1>9, <2>1, InHandType
<1>11. hand = <<>> \o (hand \o rest[Len(stack)])
  BY <1>4, <1>10
<1>12. LeavesInv
  <2>1. <<>> \in Seq(LeafSet)
    OBVIOUS
  <2> QED
    BY <1>5, <1>6, <1>8, <1>9, <1>11, <2>1 DEF LeavesInv, Splits
<1> QED
  BY <1>1, <1>2, <1>12 DEF CopyInv, ResultInv

LEMMA LeavesKept ==
  ASSUME root' = root, heap' = heap, target' = target
  PROVE  Leaves' = Leaves
BY DEF Leaves

(* While the enumeration runs no result is promised.                       *)
LEMMA RunningResult == ASSUME result' = "running" PROVE ResultInv'
BY DEF ResultInv

LEMMA NextCopyInv == CopyInv /\ [LeavesNext]_LeavesVars => CopyInv'
<1> SUFFICES ASSUME CopyInv, [LeavesNext]_LeavesVars PROVE CopyInv'
  OBVIOUS
<1>1. TypeOK'
  BY NextTypeOK DEF CopyInv, LeavesNext, LeavesVars, vars
<1>2. root' = root /\ root' \in Elements
  BY DEF CopyInv, LeavesNext, LeavesVars
<1>3. /\ heap \in [Arrays -> Contents] /\ target \in {"int", "float"}
      /\ call \in Elements \cup {None}
      /\ stack \in Seq(Frame) /\ Len(stack) <= MaxDepth
      /\ out \in Seq(NativeRange(target))
      /\ Splits(Leaves, heap, target, call, stack, out)
  BY DEF CopyInv, TypeOK, LeavesInv
<1>0. out \in Seq(Int)
  BY <1>3, NativeSeq
<1>4. CASE PushNumber
  <2>1. /\ heap' = heap /\ target' = target /\ stack' = stack /\ call' = None
        /\ result' = "running" /\ call.type = "Number"
    BY <1>4 DEF PushNumber, Running
  <2>2. call \in Elements
    BY <1>3, <2>1 DEF None
  <2>3. PICK n \in IF target = "int" THEN ToInt(call.number) ELSE ToFloat(call.number) :
          out' = Append(out, n)
    BY <1>4 DEF PushNumber
  <2>4. call.number \in Int
    BY <2>1, <2>2, ElementKinds
  <2>5. n \in Int /\ Copies(<<n>>, <<Leaf("Number", call.number)>>, target)
    BY <1>3, <2>3, <2>4, NumberCopied
  <2>6. InHand(heap, target, call, Len(stack)) = <<Leaf("Number", call.number)>>
    BY <1>3, <2>1, <2>2, ElementKinds, KindsOfLeaves DEF InHand
  <2>7. <<n>> \in Seq(Int) /\ out' = out \o <<n>>
    <3>1. PICK o : o = out
      OBVIOUS
    <3>2. o \in Seq(Int) /\ out' = Append(o, n)
      BY <1>0, <1>3, <2>3, <3>1
    <3>3. Append(o, n) = o \o <<n>> /\ <<n>> \in Seq(Int)
      BY <2>5, <3>2
    <3> QED
      BY <3>1, <3>2, <3>3
  <2>8. Splits(Leaves, heap, target, None, stack, out \o <<n>>)
    BY <1>0, <1>3, <2>2, <2>5, <2>6, <2>7, CopySplits
  <2>9. LeavesInv'
    BY <1>2, <2>1, <2>7, <2>8, LeavesKept DEF LeavesInv
  <2> QED
    BY <1>1, <1>2, <2>1, <2>9, RunningResult DEF CopyInv
<1>5. CASE EnterArray
  <2>1. /\ heap' = heap /\ target' = target /\ out' = out /\ call' = None
        /\ stack' = Append(stack, [array |-> call.array, index |-> 0])
        /\ result' = "running" /\ call.type = "Array" /\ Len(stack) < MaxDepth
    BY <1>5 DEF EnterArray, Running
  <2>2. call \in Elements
    BY <1>3, <2>1 DEF None
  <2>3. Splits(Leaves, heap, target, None,
               Append(stack, [array |-> call.array, index |-> 0]), out)
    BY <1>3, <2>1, <2>2, EnterSplits
  <2>4. LeavesInv'
    BY <1>2, <2>1, <2>3, LeavesKept DEF LeavesInv
  <2> QED
    BY <1>1, <1>2, <2>1, <2>4, RunningResult DEF CopyInv
<1>6. CASE Overflow
  <2>1. /\ heap' = heap /\ target' = target /\ out' = out /\ call' = call /\ stack' = stack
        /\ result' = "overflow" /\ call.type = "Array" /\ Len(stack) = MaxDepth
    BY <1>6 DEF Overflow
  <2>2. call \in Elements
    BY <1>3, <2>1 DEF None
  <2>3. LeavesInv'
    BY <1>2, <1>3, <2>1, LeavesKept DEF LeavesInv
  <2>4. ResultInv'
    BY <2>1, <2>2 DEF ResultInv
  <2> QED
    BY <1>1, <1>2, <2>3, <2>4 DEF CopyInv
<1>7. CASE CopyTyped
  <2>1. /\ heap' = heap /\ target' = target /\ stack' = stack /\ call' = None
        /\ result' = "running" /\ call.type \in Copied(target)
    BY <1>7 DEF CopyTyped, Running
  <2>2. call \in Elements
    BY <1>3, <2>1 DEF None, Copied, Layout
  <2>3. PICK copy : copy = [i \in DOMAIN call.elements |->
                              IF target = "int" THEN Widen(call.type, call.elements[i])
                                                ELSE call.elements[i]]
    OBVIOUS
  <2>4. copy \in Seq(Int)
    BY <1>3, <2>1, <2>2, <2>3, TypedCopy
  <2>5. InHand(heap, target, call, Len(stack))
          = [i \in DOMAIN call.elements |-> Leaf(call.type, call.elements[i])]
    BY <1>3, <2>1, <2>2, ElementKinds, KindsOfLeaves DEF InHand
  <2>6. Copies(copy, InHand(heap, target, call, Len(stack)), target)
    BY <1>3, <2>1, <2>2, <2>3, <2>5, TypedCopied
  <2>7. Splits(Leaves, heap, target, None, stack, out \o copy)
    BY <1>0, <1>3, <2>2, <2>4, <2>6, CopySplits
  <2>8. out' = out \o copy
    BY <1>7, <2>3 DEF CopyTyped
  <2>9. LeavesInv'
    BY <1>2, <2>1, <2>7, <2>8, LeavesKept DEF LeavesInv
  <2> QED
    BY <1>1, <1>2, <2>1, <2>9, RunningResult DEF CopyInv
<1>8. CASE Throw
  <2>1. /\ heap' = heap /\ target' = target /\ out' = out /\ call' = call /\ stack' = stack
        /\ result' = "thrown"
        /\ call.type \notin {"None", "Number", "Array"} \cup Copied(target)
    BY <1>8 DEF Throw
  <2>2. call \in Elements
    BY <1>3, <2>1 DEF None
  <2>3. LeavesInv'
    BY <1>2, <1>3, <2>1, LeavesKept DEF LeavesInv
  <2>4. ResultInv'
    BY <2>1, <2>2 DEF ResultInv
  <2> QED
    BY <1>1, <1>2, <2>3, <2>4 DEF CopyInv
<1>9. CASE NextElement
  <2>1. PICK f : f = Top
    OBVIOUS
  <2>2. PICK g : g = [f EXCEPT !.index = @ + 1]
    OBVIOUS
  <2>3. PICK value : value = heap[f.array][f.index + 1]
    OBVIOUS
  <2>4. /\ heap' = heap /\ target' = target /\ out' = out /\ result' = "running"
        /\ call = None /\ stack # <<>> /\ f.index < Len(heap[f.array]) /\ call' = value
        /\ stack' = [stack EXCEPT ![Len(stack)] = g] /\ f = stack[Len(stack)]
    BY <1>9, <2>1, <2>2, <2>3 DEF NextElement, Running, SetTop, Top
  <2>5. value \in Elements
    <3>1. f \in Frame
      <4>1. Len(stack) \in 1..Len(stack)
        BY <1>3, <2>4
      <4> QED
        BY <1>3, <2>4, <4>1
    <3>2. f.array \in Arrays /\ f.index \in Nat
      BY <3>1 DEF Frame
    <3>3. heap[f.array] \in Seq(Elements)
      BY <1>3, <3>2, ElementsAssumption
    <3> QED
      BY <2>3, <2>4, <3>2, <3>3
  <2>6. Splits(Leaves, heap, target, value, [stack EXCEPT ![Len(stack)] = g], out)
    BY <1>3, <2>2, <2>3, <2>4, <2>5, NextSplits
  <2>7. LeavesInv'
    BY <1>2, <2>4, <2>6, LeavesKept DEF LeavesInv
  <2> QED
    BY <1>1, <1>2, <2>4, <2>7, RunningResult DEF CopyInv
<1>10. CASE ReturnFromArray
  <2>1. PICK f : f = Top
    OBVIOUS
  <2>2. /\ heap' = heap /\ target' = target /\ out' = out /\ result' = "running"
        /\ call = None /\ call' = None /\ stack # <<>> /\ f.index = Len(heap[f.array])
        /\ stack' = SubSeq(stack, 1, Len(stack) - 1) /\ f = stack[Len(stack)]
    BY <1>10, <2>1 DEF ReturnFromArray, Running, Top
  <2>3. Splits(Leaves, heap, target, None, SubSeq(stack, 1, Len(stack) - 1), out)
    BY <1>3, <2>2, ReturnSplits
  <2>4. LeavesInv'
    BY <1>2, <2>2, <2>3, LeavesKept DEF LeavesInv
  <2> QED
    BY <1>1, <1>2, <2>2, <2>4, RunningResult DEF CopyInv
<1>11. CASE Done
  <2>1. /\ heap' = heap /\ target' = target /\ out' = out /\ call' = call /\ stack' = stack
        /\ result' = "done" /\ call = None /\ stack = <<>>
    BY <1>11 DEF Done
  <2>2. LeavesInv'
    BY <1>2, <1>3, <2>1, LeavesKept DEF LeavesInv
  <2>3. ResultInv'
    BY <2>1 DEF ResultInv
  <2> QED
    BY <1>1, <1>2, <2>2, <2>3 DEF CopyInv
<1>12. CASE UNCHANGED LeavesVars
  <2>1. /\ heap' = heap /\ target' = target /\ out' = out /\ call' = call /\ stack' = stack
        /\ result' = result
    BY <1>12 DEF LeavesVars, vars
  <2>2. LeavesInv'
    BY <1>2, <1>3, <2>1, LeavesKept DEF LeavesInv
  <2>3. ResultInv'
    BY <2>1 DEF CopyInv, ResultInv
  <2> QED
    BY <1>1, <1>2, <2>2, <2>3 DEF CopyInv
<1> QED
  BY <1>4, <1>5, <1>6, <1>7, <1>8, <1>9, <1>10, <1>11, <1>12 DEF LeavesNext, Next

(* Where the copies end, the next leaf, if any, is the first of what is in *)
(* hand or, when nothing is, of the rest.                                  *)
LEMMA CopyInvEnumerates == CopyInv => EnumeratesLeaves
<1> SUFFICES ASSUME CopyInv PROVE EnumeratesLeaves
  OBVIOUS
<1>1. /\ heap \in [Arrays -> Contents] /\ target \in {"int", "float"}
      /\ call \in Elements \cup {None}
      /\ stack \in Seq(Frame) /\ Len(stack) <= MaxDepth
      /\ out \in Seq(NativeRange(target))
  BY DEF CopyInv, TypeOK
<1>0. out \in Seq(Int)
  BY <1>1, NativeSeq
<1>2. PICK done, rest :
        /\ done \in Seq(LeafSet)
        /\ IsRest(rest, heap, target, stack)
        /\ Copies(out, done, target)
        /\ Leaves = done \o (InHand(heap, target, call, Len(stack)) \o rest[Len(stack)])
  BY DEF CopyInv, LeavesInv, Splits
<1>3. PICK hand : hand = InHand(heap, target, call, Len(stack))
  OBVIOUS
<1>4. PICK r : r = rest[Len(stack)]
  OBVIOUS
<1>5. hand \in Seq(LeafSet) /\ r \in Seq(LeafSet)
  <2>1. Len(stack) \in 0..MaxDepth /\ Len(stack) \in 0..Len(stack)
    <3>1. Len(stack) \in Nat
      BY <1>1
    <3> QED
      BY <1>1, <3>1, MaxDepthAssumption
  <2> QED
    BY <1>1, <1>2, <1>3, <1>4, <2>1, InHandType DEF IsRest
<1>6. PICK all : all = Leaves
  OBVIOUS
<1>7. all = done \o (hand \o r)
  BY <1>2, <1>3, <1>4, <1>6
<1>8. /\ Len(out) = Len(done) /\ Len(out) \in Nat /\ DOMAIN out = 1..Len(done)
      /\ \A i \in 1..Len(done) : /\ done[i].type \notin {"Unconvertible", "TooDeep"}
                                 /\ IsCopyOf(out[i], done[i], target)
  <2>1. /\ Len(out) = Len(done)
        /\ \A i \in 1..Len(done) : /\ done[i].type \notin {"Unconvertible", "TooDeep"}
                                   /\ IsCopyOf(out[i], done[i], target)
    BY <1>2 DEF Copies
  <2>2. Len(out) \in Nat /\ DOMAIN out = 1..Len(out)
    BY <1>1
  <2> QED
    BY <2>1, <2>2
<1>9. /\ Len(all) = Len(done) + (Len(hand) + Len(r))
      /\ Len(hand) \in Nat /\ Len(r) \in Nat
      /\ \A i \in 1..Len(done) : all[i] = done[i]
  BY <1>5, <1>7
<1>10. Len(hand) = 1 => Len(out) < Len(all) /\ all[Len(out) + 1] = hand[1]
  <2>1. ASSUME Len(hand) = 1
        PROVE  (hand \o r)[1] = hand[1] /\ Len(hand \o r) >= 1 /\ hand \o r \in Seq(LeafSet)
    <3>1. 1 \in 1..Len(hand) /\ Len(r) \in Nat /\ Len(hand \o r) = Len(hand) + Len(r)
      <4>1. 1 \in 1..Len(hand)
        BY <2>1
      <4>2. Len(hand \o r) = Len(hand) + Len(r)
        BY <1>5
      <4> QED
        BY <1>9, <4>1, <4>2
    <3>2. (hand \o r)[1] = hand[1]
      BY <1>5, <3>1
    <3>3. hand \o r \in Seq(LeafSet)
      BY <1>5
    <3> QED
      BY <2>1, <3>1, <3>2, <3>3
  <2>2. ASSUME NEW q \in Seq(LeafSet), Len(q) >= 1
        PROVE  (done \o q)[Len(done) + 1] = q[1]
    BY <2>2
  <2> QED
    BY <1>7, <1>8, <1>9, <2>1, <2>2
<1>11. Len(out) <= Len(all)
  BY <1>8, <1>9
<1>12. ASSUME NEW i \in DOMAIN out
       PROVE  /\ all[i].type \notin {"Unconvertible", "TooDeep"}
              /\ IsCopyOf(out[i], all[i], target)
  BY <1>8, <1>9
<1>13. ASSUME result = "done"
       PROVE  Len(out) = Len(all)
  <2>1. call = None /\ stack = <<>>
    BY <1>13 DEF CopyInv, ResultInv
  <2>2. hand = <<>> /\ r = <<>>
    BY <1>2, <1>3, <1>4, <2>1 DEF InHand, IsRest
  <2> QED
    BY <1>8, <1>9, <2>2
<1>14. ASSUME result = "thrown"
       PROVE  Len(out) < Len(all) /\ all[Len(out) + 1].type = "Unconvertible"
  <2>1. call \in Elements /\ call.type \notin {"Number", "Array"} \cup Copied(target)
    BY <1>14 DEF CopyInv, ResultInv
  <2>2. hand = <<Unconvertible>>
    BY <1>1, <1>3, <2>1, ElementKinds, KindsOfLeaves DEF InHand
  <2>3. Len(hand) = 1 /\ hand[1] = Unconvertible
    BY <2>2
  <2> QED
    BY <1>10, <2>3 DEF Unconvertible
<1>15. ASSUME result = "overflow"
       PROVE  Len(out) < Len(all) /\ all[Len(out) + 1].type = "TooDeep"
  <2>1. call \in Elements /\ call.type = "Array" /\ Len(stack) = MaxDepth
    BY <1>15 DEF CopyInv, ResultInv
  <2>2. MaxDepth - Len(stack) = 0 /\ 0 \in 0..MaxDepth
    BY <2>1, MaxDepthAssumption
  <2>3. LeafTable(heap, target)[0] = Row(heap, target, 0, LeafTable(heap, target)[0 - 1])
    BY <2>2, TableRows
  <2>4. LeafTable(heap, target)[0] = [a \in Arrays |-> <<TooDeep>>]
    BY <2>3 DEF Row
  <2>5. hand = LeafTable(heap, target)[0][call.array]
    BY <1>1, <1>3, <2>1, <2>2, ElementKinds, KindsOfLeaves DEF InHand
  <2>6. hand = <<TooDeep>>
    BY <2>1, <2>4, <2>5, ElementKinds
  <2>7. Len(hand) = 1 /\ hand[1] = TooDeep
    BY <2>6
  <2> QED
    BY <1>10, <2>7 DEF TooDeep
<1> QED
  BY <1>6, <1>11, <1>12, <1>13, <1>14, <1>15 DEF EnumeratesLeaves

LEMMA SpecCopyInv == LeavesSpec => []CopyInv
BY InitCopyInv, NextCopyInv, PTL DEF LeavesSpec

(* EnumArray copies the leaves of the value it is called with in order,    *)
(* and stops at the first it cannot copy, however arrays hold each other   *)
(* and whatever the widths of the integers and the depth of the stack.     *)
THEOREM LeavesEnumerated == LeavesSpec => []EnumeratesLeaves
BY SpecCopyInv, CopyInvEnumerates, PTL
-----------------------------------------------------------------------------
(***************************************************************************)
(* Every frame's array is held by the one around it, and an array in hand  *)
(* by the innermost.  With as many frames as arrays, one of them is in     *)
(* two places.                                                             *)
(***************************************************************************)
Nested(h, s) == \A k \in 2..Len(s) : s[k].array \in Holds(h, s[k - 1].array)

HeldByTop(h, value, s) ==
  value \in Elements /\ value.type = "Array" /\ s # <<>> =>
    value.array \in Holds(h, s[Len(s)].array)

NestInv == Nested(heap, stack) /\ HeldByTop(heap, call, stack)

ChainInv == TypeOK /\ NestInv /\ ResultInv

LEMMA EnterNested ==
  ASSUME NEW h, NEW s \in Seq(Frame), Nested(h, s), NEW a,
         s # <<>> => a \in Holds(h, s[Len(s)].array)
  PROVE  Nested(h, Append(s, [array |-> a, index |-> 0]))
<1>1. PICK n : n = Len(s)
  OBVIOUS
<1>2. PICK f : f = [array |-> a, index |-> 0]
  OBVIOUS
<1>3. PICK s2 : s2 = Append(s, f)
  OBVIOUS
<1>4. /\ n \in Nat /\ Len(s2) = n + 1 /\ s2[n + 1] = f /\ f.array = a
      /\ \A k \in 1..n : s2[k] = s[k]
  BY <1>1, <1>2, <1>3
<1>5. ASSUME NEW k \in 2..n + 1
      PROVE  s2[k].array \in Holds(h, s2[k - 1].array)
  <2>1. CASE k = n + 1
    <3>1. k - 1 = n /\ n \in 1..n /\ s # <<>>
      BY <1>1, <1>4, <2>1
    <3> QED
      BY <1>1, <1>4, <2>1, <3>1
  <2>2. CASE k # n + 1
    <3>1. k \in 2..n /\ k \in 1..n /\ k - 1 \in 1..n
      BY <1>4, <2>2
    <3> QED
      BY <1>1, <1>4, <3>1 DEF Nested
  <2> QED
    BY <2>1, <2>2
<1>6. Nested(h, s2)
  BY <1>4, <1>5 DEF Nested
<1> QED
  BY <1>2, <1>3, <1>6

(* Only the arrays of the frames matter, and those of a part of them.      *)
LEMMA PartNested ==
  ASSUME NEW h, NEW s, Nested(h, s), NEW s2, Len(s) \in Nat, Len(s2) \in Nat,
         Len(s2) <= Len(s), \A k \in 1..Len(s2) : s2[k].array = s[k].array
  PROVE  Nested(h, s2)
<1>1. ASSUME NEW k \in 2..Len(s2)
      PROVE  s2[k].array \in Holds(h, s2[k - 1].array)
  <2>1. k \in 1..Len(s2) /\ k - 1 \in 1..Len(s2) /\ k \in 2..Len(s)
    OBVIOUS
  <2>2. s[k].array \in Holds(h, s[k - 1].array)
    BY <2>1 DEF Nested
  <2>3. s2[k].array = s[k].array /\ s2[k - 1].array = s[k - 1].array
    BY <2>1
  <2> QED
    BY <2>2, <2>3
<1> QED
  BY <1>1 DEF Nested

LEMMA InitChainInv == Init => ChainInv
<1> SUFFICES ASSUME Init PROVE ChainInv
  OBVIOUS
<1>1. TypeOK
  BY InitTypeOK
<1>2. stack = <<>> /\ result = "running"
  BY DEF Init
<1>3. 2..Len(stack) = {}
  BY <1>2
<1> QED
  BY <1>1, <1>2, <1>3 DEF ChainInv, NestInv, Nested, HeldByTop, ResultInv

LEMMA NextChainInv == ChainInv /\ [Next]_vars => ChainInv'
<1> SUFFICES ASSUME ChainInv, [Next]_vars PROVE ChainInv'
  OBVIOUS
<1>1. TypeOK'
  BY NextTypeOK DEF ChainInv
<1>2. /\ heap \in [Arrays -> Contents] /\ call \in Elements \cup {None}
      /\ stack \in Seq(Frame) /\ Len(stack) \in Nat
      /\ Nested(heap, stack) /\ HeldByTop(heap, call, stack)
  BY DEF ChainInv, TypeOK, NestInv
<1>3. None \notin Elements
  BY ElementKinds
<1>4. CASE PushNumber \/ CopyTyped
  <2>1. heap' = heap /\ stack' = stack /\ call' = None /\ result' = "running"
    BY <1>4 DEF PushNumber, CopyTyped, Running
  <2>2. NestInv'
    BY <1>2, <1>3, <2>1 DEF NestInv, HeldByTop
  <2> QED
    BY <1>1, <2>1, <2>2, RunningResult DEF ChainInv
<1>5. CASE EnterArray
  <2>1. /\ heap' = heap /\ call' = None /\ call.type = "Array" /\ result' = "running"
        /\ stack' = Append(stack, [array |-> call.array, index |-> 0])
    BY <1>5 DEF EnterArray, Running
  <2>2. call \in Elements
    BY <1>2, <2>1 DEF None
  <2>3. Nested(heap, stack')
    BY <1>2, <2>1, <2>2, EnterNested DEF HeldByTop
  <2>4. NestInv'
    BY <1>3, <2>1, <2>3 DEF NestInv, HeldByTop
  <2> QED
    BY <1>1, <2>1, <2>4, RunningResult DEF ChainInv
<1>6. CASE NextElement
  <2>1. PICK n : n = Len(stack)
    OBVIOUS
  <2>2. PICK f : f = stack[n]
    OBVIOUS
  <2>3. PICK g : g = [f EXCEPT !.index = @ + 1]
    OBVIOUS
  <2>4. /\ heap' = heap /\ result' = "running" /\ stack # <<>>
        /\ f.index < Len(heap[f.array]) /\ call' = heap[f.array][f.index + 1]
        /\ stack' = [stack EXCEPT ![n] = g]
    BY <1>6, <2>1, <2>2, <2>3 DEF NextElement, Running, SetTop, Top
  <2>5. n \in Nat /\ n \in 1..n /\ f \in Frame
    <3>1. n \in Nat /\ n \in 1..n
      BY <1>2, <2>1, <2>4
    <3> QED
      BY <1>2, <2>1, <2>2, <3>1
  <2>6. f.array \in Arrays /\ f.index \in Nat /\ g.array = f.array
    BY <2>3, <2>5 DEF Frame
  <2>7. Len(stack') = n /\ stack'[n] = g /\ \A k \in 1..n : stack'[k].array = stack[k].array
    BY <1>2, <2>1, <2>2, <2>4, <2>5, <2>6
  <2>8. Nested(heap, stack')
    <3>1. n <= n
      BY <2>5
    <3> QED
      BY <1>2, <2>1, <2>5, <2>7, <3>1, PartNested
  <2>9. call'.type = "Array" => call'.array \in Holds(heap, f.array)
    <3>1. heap[f.array] \in Seq(Elements)
      BY <1>2, <2>6, ElementsAssumption
    <3>2. f.index + 1 \in DOMAIN heap[f.array]
      BY <2>4, <2>6, <3>1
    <3> QED
      BY <2>4, <3>2 DEF Holds
  <2>10. NestInv'
    BY <2>4, <2>6, <2>7, <2>8, <2>9 DEF NestInv, HeldByTop
  <2> QED
    BY <1>1, <2>4, <2>10, RunningResult DEF ChainInv
<1>7. CASE ReturnFromArray
  <2>1. /\ heap' = heap /\ call' = None /\ result' = "running" /\ stack # <<>>
        /\ stack' = SubSeq(stack, 1, Len(stack) - 1)
    BY <1>7 DEF ReturnFromArray, Running
  <2>2. PICK n : n = Len(stack)
    OBVIOUS
  <2>3. n \in Nat /\ n # 0 /\ Len(stack') = n - 1 /\ \A k \in 1..n - 1 : stack'[k] = stack[k]
    BY <1>2, <2>1, <2>2
  <2>4. Nested(heap, stack')
    <3>1. n - 1 \in Nat /\ n - 1 <= n
      BY <2>3
    <3> QED
      BY <1>2, <2>2, <2>3, <3>1, PartNested
  <2>5. NestInv'
    BY <1>3, <2>1, <2>4 DEF NestInv, HeldByTop
  <2> QED
    BY <1>1, <2>1, <2>5, RunningResult DEF ChainInv
<1>8. CASE Overflow \/ Throw \/ Done
  <2>1. heap' = heap /\ stack' = stack /\ call' = call /\ target' = target
    BY <1>8 DEF Overflow, Throw, Done
  <2>2. NestInv'
    BY <1>2, <2>1 DEF NestInv
  <2>3. ResultInv'
    <3>1. CASE Overflow
      <4>1. result' = "overflow" /\ call.type = "Array" /\ Len(stack) = MaxDepth
        BY <3>1 DEF Overflow
      <4>2. call \in Elements
        BY <1>2, <4>1 DEF None
      <4> QED
        BY <2>1, <4>1, <4>2 DEF ResultInv
    <3>2. CASE Throw
      <4>1. /\ result' = "thrown"
            /\ call.type \notin {"None", "Number", "Array"} \cup Copied(target)
        BY <3>2 DEF Throw
      <4>2. call \in Elements
        BY <1>2, <4>1 DEF None
      <4> QED
        BY <2>1, <4>1, <4>2 DEF ResultInv
    <3>3. CASE Done
      BY <2>1, <3>3 DEF Done, ResultInv
    <3> QED
      BY <1>8, <3>1, <3>2, <3>3
  <2> QED
    BY <1>1, <2>2, <2>3 DEF ChainInv
<1>9. CASE UNCHANGED vars
  BY <1>1, <1>9 DEF vars, ChainInv, NestInv, ResultInv
<1> QED
  BY <1>4, <1>5, <1>6, <1>7, <1>8, <1>9 DEF Next

(* Going from an array to one it holds more often than there are arrays    *)
(* comes back to one.                                                      *)
LEMMA LongChainsReturn ==
  ASSUME IsFiniteSet(Arrays), Cardinality(Arrays) <= MaxDepth,
         NEW p \in [1..MaxDepth + 1 -> Arrays],
         \A k \in 2..MaxDepth + 1 : p[k] \in Holds(heap, p[k - 1])
  PROVE  Cyclic
<1>1. IsFiniteSet(1..MaxDepth + 1) /\ Cardinality(1..MaxDepth + 1) = MaxDepth + 1
  <2>1. 1 \in Int /\ MaxDepth + 1 \in Int /\ ~(1 > MaxDepth + 1)
        /\ MaxDepth + 1 - 1 + 1 = MaxDepth + 1
    BY MaxDepthAssumption
  <2> QED
    BY <2>1, FS_Interval
<1>2. Cardinality(Arrays) < Cardinality(1..MaxDepth + 1)
  <2>1. Cardinality(Arrays) \in Nat
    BY FS_CardinalityType
  <2> QED
    BY <1>1, <2>1, MaxDepthAssumption
<1>3. \E x, y \in 1..MaxDepth + 1 : x # y /\ p[x] = p[y]
  BY <1>1, <1>2, FS_PigeonHole
<1>4. PICK x, y \in 1..MaxDepth + 1 : x < y /\ p[x] = p[y]
  <2>1. PICK a, b \in 1..MaxDepth + 1 : a # b /\ p[a] = p[b]
    BY <1>3
  <2>2. a < b \/ b < a
    BY <2>1, MaxDepthAssumption
  <2> QED
    BY <2>1, <2>2
<1>5. PICK n : n = y - x
  OBVIOUS
<1>6. n \in 1..MaxDepth /\ x \in Nat /\ x + 0 = x /\ x + n = y /\ 0 \in 0..n /\ n \in 0..n
  BY <1>4, <1>5, MaxDepthAssumption
<1>7. \A i \in 0..n : x + i \in 1..MaxDepth + 1
  BY <1>4, <1>6, MaxDepthAssumption
<1> DEFINE path == [i \in 0..n |-> p[x + i]]
<1>8. path \in [0..n -> Arrays] /\ \A i \in 0..n : path[i] = p[x + i]
  BY <1>7
<1> HIDE DEF path
<1>9. path[n] = path[0]
  BY <1>4, <1>6, <1>8
<1>10. ASSUME NEW i \in 1..n
       PROVE  path[i] \in Holds(heap, path[i - 1])
  <2>1. /\ i \in 0..n /\ i - 1 \in 0..n /\ x + i \in 2..MaxDepth + 1
        /\ x + i - 1 = x + (i - 1)
    BY <1>4, <1>6, MaxDepthAssumption
  <2>2. p[x + i] \in Holds(heap, p[x + i - 1])
    BY <2>1
  <2> QED
    BY <1>8, <2>1, <2>2
<1> QED
  BY <1>6, <1>8, <1>9, <1>10 DEF Cyclic

LEMMA ChainInvCyclic == ChainInv => OverflowsOnlyIfCyclic
<1> SUFFICES ASSUME ChainInv, result = "overflow", IsFiniteSet(Arrays),
                    Cardinality(Arrays) <= MaxDepth
             PROVE  Cyclic
  BY DEF OverflowsOnlyIfCyclic
<1>1. call \in Elements /\ call.type = "Array" /\ Len(stack) = MaxDepth
  BY DEF ChainInv, ResultInv
<1>2. MaxDepth \in Nat /\ MaxDepth # 0
  BY MaxDepthAssumption
<1>3. stack \in Seq(Frame) /\ stack # <<>>
  BY <1>1, <1>2 DEF ChainInv, TypeOK
<1>4. call.array \in Arrays /\ call.array \in Holds(heap, stack[MaxDepth].array)
  BY <1>1, <1>3, ElementKinds DEF ChainInv, NestInv, HeldByTop
<1> DEFINE p == [k \in 1..MaxDepth + 1 |-> IF k = MaxDepth + 1 THEN call.array
                                           ELSE stack[k].array]
<1>5. /\ p[MaxDepth + 1] = call.array
      /\ \A k \in 1..MaxDepth : p[k] = stack[k].array
  BY <1>2
<1>6. p \in [1..MaxDepth + 1 -> Arrays]
  <2>1. ASSUME NEW k \in 1..MaxDepth + 1
        PROVE  (IF k = MaxDepth + 1 THEN call.array ELSE stack[k].array) \in Arrays
    <3>1. CASE k = MaxDepth + 1
      BY <1>4, <3>1
    <3>2. CASE k # MaxDepth + 1
      <4>1. k \in 1..Len(stack)
        BY <1>1, <1>2, <3>2
      <4>2. stack[k] \in Frame
        BY <1>3, <4>1
      <4>3. stack[k].array \in Arrays
        BY <4>2 DEF Frame
      <4> QED
        BY <3>2, <4>3
    <3> QED
      BY <3>1, <3>2
  <2> QED
    BY <2>1
<1> HIDE DEF p
<1>7. ASSUME NEW k \in 2..MaxDepth + 1
      PROVE  p[k] \in Holds(heap, p[k - 1])
  <2>1. CASE k = MaxDepth + 1
    <3>1. k - 1 = MaxDepth /\ MaxDepth \in 1..MaxDepth
      BY <1>2, <2>1
    <3> QED
      BY <1>4, <1>5, <2>1, <3>1
  <2>2. CASE k # MaxDepth + 1
    <3>1. k \in 2..Len(stack) /\ k \in 1..MaxDepth /\ k - 1 \in 1..MaxDepth
      BY <1>1, <1>2, <2>2
    <3>2. stack[k].array \in Holds(heap, stack[k - 1].array)
      BY <3>1 DEF ChainInv, NestInv, Nested
    <3> QED
      BY <1>5, <3>1, <3>2
  <2> QED
    BY <2>1, <2>2
<1> QED
  BY <1>6, <1>7, LongChainsReturn

(* With room for as many calls as the script has arrays, the recursion can *)
(* run out of stack only when some array, directly or through others,      *)
(* holds itself.                                                           *)
THEOREM OverflowCyclic == Spec => []OverflowsOnlyIfCyclic
<1>1. Spec => []ChainInv
  BY InitChainInv, NextChainInv, PTL DEF Spec
<1> QED
  BY <1>1, ChainInvCyclic, PTL
=============================================================================
