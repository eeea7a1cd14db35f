------------------------------- MODULE EnumArray -------------------------------
(***************************************************************************)
(* EnumArray<int> and EnumArray<float> of SoyV8.{h,cpp}: copy a script's   *)
(* value into a native array, descending into arrays.  The C++ recursion   *)
(* is kept as a stack, because script arrays are references: an array can  *)
(* hold itself, and an exception leaves what was already copied.           *)
(*                                                                         *)
(* Numbers are doubles; here they are counted in halves, so 3 stands for   *)
(* 1.5.  The widths of the integers are given by how many values they      *)
(* have: 2^32, 2^16 and 2^8 in the code.  A float holds only some of the   *)
(* numbers a double does; the outermost two of them stand for the          *)
(* infinities, at 2^128, from where IEEE rounding sees them.               *)
(***************************************************************************)
EXTENDS Integers, Sequences

CONSTANTS
  Arrays,    (* the script's arrays                                        *)
  Elements,  (* bound: the values they and the caller hold                 *)
  Contents,  (* bound: the sequences of Elements an array may hold         *)
  MaxDepth,  (* the calls the thread's stack has room for                  *)
  Floats,    (* the numbers that are floats                                *)
  IntValues, ShortValues, ByteValues  (* how many an int, short, char has  *)

ASSUME WidthAssumption ==
  /\ \A n \in {IntValues, ShortValues, ByteValues} : n \in Nat \ {0} /\ n % 2 = 0
  /\ ByteValues <= ShortValues /\ ShortValues <= IntValues

ASSUME FloatsAssumption == Floats \subseteq Int /\ Floats # {}

ASSUME MaxDepthAssumption == MaxDepth \in Nat \ {0}

VARIABLES
  heap,    (* the elements of each array                                   *)
  target,  (* "int" or "float": the overload                               *)
  call,    (* the value EnumArray was just called with, or None            *)
  stack,   (* the arrays being enumerated, outermost first                 *)
  out,     (* IntArray or FloatArray                                       *)
  result   (* "running", "done", "thrown", "overflow"                      *)

vars == <<heap, target, call, stack, out, result>>

None == [type |-> "None"]

Signed(values) == -(values \div 2) .. (values \div 2) - 1
Unsigned(values) == 0 .. values - 1

Int32Range == Signed(IntValues)

(* The typed arrays and the elements they can hold. *)
Layout ==
  [ Int32Array        |-> Int32Range,
    Uint32Array       |-> Unsigned(IntValues),
    Int16Array        |-> Signed(ShortValues),
    Uint16Array       |-> Unsigned(ShortValues),
    Int8Array         |-> Signed(ByteValues),
    Uint8Array        |-> Unsigned(ByteValues),
    Uint8ClampedArray |-> Unsigned(ByteValues) ]

ASSUME ElementsAssumption ==
  /\ \A e \in Elements :
       /\ e.type \in STRING /\ e.type # "None"
       /\ e.type = "Number" => e.number \in Int
       /\ e.type = "Array" => e.array \in Arrays
       /\ e.type = "Float32Array" => e.elements \in Seq(Floats)
       /\ e.type \in DOMAIN Layout => e.elements \in Seq(Layout[e.type])
  /\ Contents \subseteq Seq(Elements)

(* The typed arrays each overload has a branch for. *)
Copied(t) == IF t = "float" THEN {"Float32Array"} ELSE DOMAIN Layout

(* What the array copied into can hold. *)
NativeRange(t) == IF t = "float" THEN Floats ELSE Int32Range

Frame == [array : Arrays, index : Nat]

TypeOK ==
  /\ heap \in [Arrays -> Contents]
  /\ target \in {"int", "float"}
  /\ call \in Elements \cup {None}
  /\ stack \in Seq(Frame) /\ Len(stack) <= MaxDepth
  /\ out \in Seq(NativeRange(target))
  /\ result \in {"running", "done", "thrown", "overflow"}

Init ==
  /\ heap \in [Arrays -> Contents]
  /\ target \in {"int", "float"}
  /\ call \in Elements
  /\ stack = <<>>
  /\ out = <<>>
  /\ result = "running"
-----------------------------------------------------------------------------
Running == result = "running"

(* double to int drops the fraction, towards zero. *)
Truncated(n) == IF n < 0 THEN -((-n) \div 2) ELSE n \div 2

(* int from a number.  Out of range the C++ conversion is undefined. *)
ToInt(n) == IF Truncated(n) \in Int32Range THEN {Truncated(n)} ELSE Int32Range

Distance(m, n) == IF m < n THEN n - m ELSE m - n

(* double to float rounds to the nearest, between two as near to either.   *)
ToFloat(n) == {f \in Floats : \A g \in Floats : Distance(f, n) <= Distance(g, n)}

(* A bug: the element is kept as it is. *)
KeepUnsigned(type, n) == n

(* An element of a temporary array of the typed array's own type, assigned *)
(* to an int: only a uint32_t can be out of range, and wraps.              *)
Widen(type, n) == IF n \in Int32Range THEN n ELSE n - IntValues

(***************************************************************************)
(* The branches of EnumArray, by the value's type.                         *)
(***************************************************************************)
PushNumber ==
  /\ Running /\ call.type = "Number"
  /\ \E n \in IF target = "int" THEN ToInt(call.number) ELSE ToFloat(call.number) :
       out' = Append(out, n)
  /\ call' = None
  /\ UNCHANGED <<heap, target, stack, result>>

EnterArray ==
  /\ Running /\ call.type = "Array"
  /\ Len(stack) < MaxDepth
  /\ stack' = Append(stack, [array |-> call.array, index |-> 0])
  /\ call' = None
  /\ UNCHANGED <<heap, target, out, result>>

(* Nothing in EnumArray bounds the depth: the thread's stack does. *)
Overflow ==
  /\ Running /\ call.type = "Array"
  /\ Len(stack) = MaxDepth
  /\ result' = "overflow"
  /\ UNCHANGED <<heap, target, call, stack, out>>

(* The template EnumArray<ARRAYTYPE>: SafeCast holds in these branches, and *)
(* the element sizes agree by the type of the array it copies into; a      *)
(* length of zero returns early.  CopyContents writes all it is asked for. *)
CopyTyped ==
  /\ Running /\ call.type \in Copied(target)
  /\ out' = out \o [i \in DOMAIN call.elements |->
                      IF target = "int" THEN Widen(call.type, call.elements[i])
                                        ELSE call.elements[i]]
  /\ call' = None
  /\ UNCHANGED <<heap, target, stack, result>>

(* A bug: an unconvertible element is passed over. *)
PassOver ==
  /\ Running /\ call.type \notin {"None", "Number", "Array"} \cup Copied(target)
  /\ call' = None
  /\ UNCHANGED <<heap, target, stack, out, result>>

Throw ==
  /\ Running /\ call.type \notin {"None", "Number", "Array"} \cup Copied(target)
  /\ result' = "thrown"
  /\ UNCHANGED <<heap, target, call, stack, out>>
-----------------------------------------------------------------------------
(***************************************************************************)
(* The loop over ValueArray's elements, in the innermost call.             *)
(***************************************************************************)
Top == stack[Len(stack)]

SetTop(frame) == [stack EXCEPT ![Len(stack)] = frame]

(* A bug: recurses into the array again instead of its element. *)
NextElementIsParent ==
  /\ Running /\ call = None /\ stack # <<>>
  /\ Top.index < Len(heap[Top.array])
  /\ stack' = SetTop([Top EXCEPT !.index = @ + 1])
  /\ call' = [type |-> "Array", array |-> Top.array]
  /\ UNCHANGED <<heap, target, out, result>>

(* A bug: the index stays. *)
NextElementIsFirst ==
  /\ Running /\ call = None /\ stack # <<>>
  /\ Top.index < Len(heap[Top.array])
  /\ call' = heap[Top.array][Top.index + 1]
  /\ UNCHANGED <<heap, target, stack, out, result>>

NextElement ==
  /\ Running /\ call = None /\ stack # <<>>
  /\ Top.index < Len(heap[Top.array])
  /\ stack' = SetTop([Top EXCEPT !.index = @ + 1])
  /\ call' = heap[Top.array][Top.index + 1]
  /\ UNCHANGED <<heap, target, out, result>>

ReturnFromArray ==
  /\ Running /\ call = None /\ stack # <<>>
  /\ Top.index = Len(heap[Top.array])
  /\ stack' = SubSeq(stack, 1, Len(stack) - 1)
  /\ UNCHANGED <<heap, target, call, out, result>>

Done ==
  /\ Running /\ call = None /\ stack = <<>>
  /\ result' = "done"
  /\ UNCHANGED <<heap, target, call, stack, out>>

Next ==
  \/ PushNumber \/ EnterArray \/ Overflow \/ CopyTyped \/ Throw
  \/ NextElement \/ ReturnFromArray \/ Done

Spec == Init /\ [][Next]_vars

(* One thread runs the call to its end. *)
FairSpec == Spec /\ WF_vars(Next)
=============================================================================
