---------------------------- MODULE MCCallBridge ----------------------------
(***************************************************************************)
(* Instances of CallBridge for the model checker: a long long of four      *)
(* bits, integer types as wide and narrower, and every integer in and      *)
(* around their ranges.                                                    *)
(***************************************************************************)
EXTENDS CallBridge

MCInts == {[is |-> "int", n |-> n] : n \in -9..16}
\* Defaults of every kind, the largest unsigned and the least signed integer among them.
Absent(d) == [is |-> "absent", default |-> d]
Left == {Absent([of |-> "none"]), Absent([of |-> "str"]),
         Absent([of |-> "int", signed |-> FALSE, n |-> 15]), Absent([of |-> "int", signed |-> TRUE, n |-> -8])}
Others == [is : {"none", "str", "capsule", "object"}] \cup Left

Integer(signed, bits) == [caster |-> "int", signed |-> signed, bits |-> bits]
Integers4 == {Integer(signed, bits) : signed \in BOOLEAN, bits \in {2, 3, 4}}
Optional  == [caster |-> "optional", signed |-> TRUE, bits |-> 2]
OtherParams == [caster : {"bool", "str", "double", "handle"}] \cup {Optional}

\* No parameter, or a wrong number; one of any caster; two, of which any may fail.
NoParam == {[params |-> <<>>, args |-> <<>>], [params |-> <<Optional>>, args |-> <<>>]}
OneParam == {[params |-> <<p>>, args |-> <<a>>] : p \in Integers4 \cup OtherParams, a \in MCInts \cup Others}
TwoParams ==
  {[params |-> <<p, q>>, args |-> <<a, b>>] :
     p \in {Integer(TRUE, 4), Integer(FALSE, 4)}, q \in OtherParams,
     a \in {[is |-> "int", n |-> -1], [is |-> "int", n |-> 15]}, b \in Others \cup {[is |-> "int", n |-> 1]}}
MCCalls == NoParam \cup OneParam \cup TwoParams

\* An object; a list, empty, of one or of two; one of an object, a list of two and an object; an empty list in a list.
Object == [list |-> FALSE, items |-> <<>>]
ListOf(items) == [list |-> TRUE, items |-> items]
Pair == ListOf(<<Object, Object>>)
MCResults == {Object, ListOf(<<>>), ListOf(<<Object>>), Pair, ListOf(<<Object, Pair, Object>>), ListOf(<<ListOf(<<>>)>>)}
=============================================================================
