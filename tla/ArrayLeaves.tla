------------------------------ MODULE ArrayLeaves ------------------------------
(***************************************************************************)
(* What EnumArray promises: the leaves of the value it is called with, by  *)
(* recursion on the depth instead of a stack, and how what has been copied *)
(* relates to them.                                                        *)
(***************************************************************************)
EXTENDS EnumArray, SequencesExt, FiniteSets

VARIABLE root  (* history: the value EnumArray was first called with     *)

LeavesInit == Init /\ root = call
LeavesNext == Next /\ UNCHANGED root
LeavesVars == <<vars, root>>
LeavesSpec == LeavesInit /\ [][LeavesNext]_LeavesVars
-----------------------------------------------------------------------------
Leaf(type, n) == [type |-> type, number |-> n]
Unconvertible == [type |-> "Unconvertible"]
TooDeep == [type |-> "TooDeep"]

(* Leaves of a value for an overload, where arrays have the leaves given:  *)
(* numbers in halves, and marks where the enumeration must stop.           *)
LeavesOf(v, overload, arrayLeaves) ==
  CASE v.type = "Number" -> <<Leaf("Number", v.number)>>
    [] v.type = "Array" -> arrayLeaves[v.array]
    [] v.type \in Copied(overload) ->
         [i \in DOMAIN v.elements |-> Leaf(v.type, v.elements[i])]
    [] OTHER -> <<Unconvertible>>

(* The leaves of the values in a sequence, one after the other.            *)
LeavesIn(values, overload, arrayLeaves) ==
  FlattenSeq([i \in DOMAIN values |-> LeavesOf(values[i], overload, arrayLeaves)])

(* The leaves of each array of a heap when d more calls fit on the stack.  *)
LeafTable(arrays, overload) ==
  LET table[d \in 0..MaxDepth] ==
        [a \in Arrays |-> IF d = 0 THEN <<TooDeep>>
                          ELSE LeavesIn(arrays[a], overload, table[d - 1])]
  IN  table

Leaves == LeavesOf(root, target, LeafTable(heap, target)[MaxDepth])

(* x is what an overload copies leaf to.  As a float: a float itself, for  *)
(* a number the nearest there is.  As an int: a number without its         *)
(* fraction when it fits, any int when it does not, a typed element modulo *)
(* the width of int.                                                       *)
IsFloatOf(x, leaf) ==
  IF leaf.type = "Number"
    THEN x \in Floats /\ ~\E f \in Floats : Distance(f, leaf.number) < Distance(x, leaf.number)
    ELSE x = leaf.number

IsIntOf(x, leaf) ==
  IF leaf.type = "Number"
    THEN \A whole \in Int32Range :
           /\ leaf.number >= 0 /\ 2 * whole \in {leaf.number - 1, leaf.number} => x = whole
           /\ leaf.number < 0 /\ 2 * whole \in {leaf.number, leaf.number + 1} => x = whole
    ELSE (x - leaf.number) % IntValues = 0

IsCopyOf(x, leaf, overload) ==
  IF overload = "float" THEN IsFloatOf(x, leaf) ELSE IsIntOf(x, leaf)

(* What is in the array is a copy of the value's first leaves, in order,   *)
(* and the enumeration ends exactly where it must: after the last leaf, or *)
(* with an exception or an overflow at the first leaf that has no copy.    *)
EnumeratesLeaves ==
  /\ Len(out) <= Len(Leaves)
  /\ \A i \in DOMAIN out :
       /\ Leaves[i].type \notin {"Unconvertible", "TooDeep"}
       /\ IsCopyOf(out[i], Leaves[i], target)
  /\ result = "done" => Len(out) = Len(Leaves)
  /\ result = "thrown" =>
       Len(out) < Len(Leaves) /\ Leaves[Len(out) + 1].type = "Unconvertible"
  /\ result = "overflow" =>
       Len(out) < Len(Leaves) /\ Leaves[Len(out) + 1].type = "TooDeep"

(* Some array can be reached from itself by going from arrays to those     *)
(* they hold.  Nothing else overflows a stack with room for every array.   *)
Holds(arrays, a) ==
  {arrays[a][i].array : i \in {j \in DOMAIN arrays[a] : arrays[a][j].type = "Array"}}

Cyclic == \E n \in 1..MaxDepth : \E path \in [0..n -> Arrays] :
  /\ path[n] = path[0]
  /\ \A i \in 1..n : path[i] \in Holds(heap, path[i - 1])

OverflowsOnlyIfCyclic ==
  result = "overflow" /\ IsFiniteSet(Arrays) /\ Cardinality(Arrays) <= MaxDepth => Cyclic

(* The enumeration ends, also of an array that holds itself. *)
Ends == <>(result # "running")
=============================================================================
