------------------------------ MODULE MCEnumArray ------------------------------
(***************************************************************************)
(* Inputs for EnumArray: values of every kind an array may hold.           *)
(***************************************************************************)
EXTENDS ArrayLeaves

CONSTANTS a1, a2

Number(n) == [type |-> "Number", number |-> n]
Ref(a) == [type |-> "Array", array |-> a]
Typed(t, s) == [type |-> t, elements |-> s]

(* Floats of two binary digits, up to 6; 8 and -8 in place of infinity.    *)
MCFloats == LET positive == {1, 2, 3, 4, 6, 8, 12, 16}
            IN  positive \cup {0} \cup {-f : f \in positive}

(* 1.5 and -1.5, which are floats; 2.5, between two floats, and 5.5, nearer *)
(* to one; 20, too large for either type; both arrays; typed arrays at the *)
(* ends of their ranges (16 values of int); a value no branch takes.       *)
MCElements ==
  { Number(3), Number(-3), Number(5), Number(11), Number(40), Ref(a1), Ref(a2),
    Typed("Uint32Array", <<15, 7>>), Typed("Int16Array", <<-2, 1>>),
    Typed("Uint8ClampedArray", <<>>), Typed("Float32Array", <<6, -16>>),
    [type |-> "String"] }

(* One element of any kind, or two of those that matter for what follows.  *)
MCContents ==
  {<<>>} \cup {<<e>> : e \in MCElements}
         \cup {<<e, f>> : e, f \in { Number(3), Ref(a1), Ref(a2),
                  Typed("Uint32Array", <<15, 7>>), [type |-> "String"] }}
-----------------------------------------------------------------------------
MCInit ==
  /\ LeavesInit
  /\ root = Ref(a1) \/ \A a \in Arrays : heap[a] = <<>>
MCSpec == MCInit /\ [][LeavesNext]_LeavesVars
MCFairSpec == MCSpec /\ WF_LeavesVars(LeavesNext)
=============================================================================
