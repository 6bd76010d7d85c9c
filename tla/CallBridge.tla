----------------------------- MODULE CallBridge -----------------------------
(***************************************************************************)
(* binding/dispatch.hpp, convert.hpp, error.hpp and the entry points of    *)
(* class.hpp: one call of a bound function from Python.  It checks what it *)
(* was given, converts each argument through its caster, runs the C++      *)
(* function, builds the result, a list of lists perhaps, and turns every   *)
(* exception into a Python error.                                          *)
(*                                                                         *)
(* Python code and the allocator may fail at every call of CPython.        *)
(***************************************************************************)
EXTENDS Integers, Sequences, SequencesExt

CONSTANTS
  Wide,      \* the bits of a long long
  Huge,      \* no double holds 2 ^ Huge
  Calls,     \* what functions take and are given: [params, args]
  Results,   \* what functions return, and what is in it: [list, items]
  None       \* no value, no exception, no error, no answer

ASSUME WideAssumption == Wide \in Nat \ {0} /\ Huge \in Nat

(***************************************************************************)
(* A parameter by its caster, an integer's with its type; an argument by   *)
(* what Python passes, or the default of an optional one left out, as the  *)
(* module declares it.  "object" is an instance of a class in Python,      *)
(* whose __bool__, __float__ or metaclass may raise; an int or str of a    *)
(* subclass that overrides them is an "object" to the casters that ask.    *)
(* A result is one object, or a list or tuple of results.                  *)
(***************************************************************************)
Params == [caster : {"int", "optional"}, signed : BOOLEAN, bits : 1..Wide]
            \cup [caster : {"bool", "str", "double", "handle"}]

Defaults == [of : {"none", "str"}] \cup [of : {"int"}, signed : BOOLEAN, n : Int]

Args == [is : {"int"}, n : Int] \cup [is : {"none", "str", "capsule", "object"}]
          \cup [is : {"absent"}, default : Defaults]

ASSUME CallsAssumption == \A c \in Calls : c.params \in Seq(Params) /\ c.args \in Seq(Args)
ASSUME ResultsAssumption == \A r \in Results : r.list \in BOOLEAN /\ r.items \in Seq(Results)

Exceptions == {"cast_error", "error_already_set", "bad_alloc", "exception", "other"}
Errors     == {"raised", "TypeError", "MemoryError", "module error"}
ASSUME NoneIsNothing == None \notin Exceptions \cup Errors \cup {"null", "object"}

Slots   == {"property_getter", "class_repr", "class_richcompare", "class_hash"}
Keyword == {"call_wrapper_kw", "class_init"}  \* PyArg parses
Counted == {"call_wrapper", "call_method"}    \* PyTuple_Size counts
Raw     == {"raw"}                            \* a consumer's PyCFunction, which parses and catches
Entries == Slots \cup Keyword \cup Counted \cup Raw

VARIABLES
  entry,     \* the entry point called
  params,    \* the parameters of its function
  args,      \* the arguments it is given
  values,    \* values[i]: what argument i became, None before its conversion
  pc,        \* "enter", "convert", "build", "catch", "done"
  building,  \* what is left of the result and made of it: the call's own, then a frame per open container
  live,      \* how many references to Python objects the call owns, those it lost included
  thrown,    \* the C++ exception in flight
  error,     \* the Python error that is set; "raised" is one of Python's own
  raised,    \* history: Python code under the call has raised, whatever became of its error
  lost,      \* history: the references that an exception left without an owner
  answer     \* "null" (-1 where the slot returns int), or "object" (0)

callVars  == <<entry, params, args>>
buildVars == <<building, live, lost>>
vars == <<callVars, values, pc, buildVars, thrown, error, raised, answer>>

-----------------------------------------------------------------------------
(* Casters: what from_python returns or throws, and the error it leaves.   *)

Passed(v) == [value |-> v, thrown |-> None, error |-> None, raised |-> FALSE, lost |-> 0]
Threw(e, x, byCode, n) == [value |-> None, thrown |-> e, error |-> x, raised |-> byCode, lost |-> n]

(***************************************************************************)
(* "expected X, got Y".  py_type_name runs an object's metaclass, and      *)
(* leaves the error of a name that it cannot get; no memory for the text   *)
(* is bad_alloc; and where that comes from py_type_name's own copy, the    *)
(* type and the name are lost.  byCode: Python code has raised before.     *)
(***************************************************************************)
WrongType(a, byCode) ==
  LET left == {None, "MemoryError"} \cup IF a.is = "object" THEN {"raised"} ELSE {}
  IN  {Threw(e, x, byCode \/ x = "raised", 0) : e \in {"cast_error", "bad_alloc"}, x \in left}
        \cup {Threw("bad_alloc", None, byCode, 2)}

OutOfRange == {Threw(e, None, FALSE, 0) : e \in {"cast_error", "bad_alloc"}}
PythonFailed == {Threw("error_already_set", x, x = "raised", 0) : x \in {"raised", "MemoryError"}}

Lowest(p)  == IF p.signed THEN -(2 ^ (p.bits - 1)) ELSE 0
Highest(p) == Lowest(p) + 2 ^ p.bits - 1
\* static_cast to the parameter's type.
Narrowed(n, p) == ((n - Lowest(p)) % (2 ^ p.bits)) + Lowest(p)

LongLong         == [signed |-> TRUE, bits |-> Wide]
UnsignedLongLong == [signed |-> FALSE, bits |-> Wide]
Fits(n, p) == n \in Lowest(p)..Highest(p)

\* A default is a value of a C++ type: one of the two holds it.
ASSUME DefaultsAssumption ==
  \A c \in Calls : \A i \in DOMAIN c.args :
    c.args[i].is = "absent" /\ c.args[i].default.of = "int" =>
      Fits(c.args[i].default.n, IF c.args[i].default.signed THEN LongLong ELSE UnsignedLongLong)

(***************************************************************************)
(* The integer caster reads through long long, or unsigned long long for a *)
(* type as wide, and tells CPython's error return, -1 or the largest value,*)
(* from that very integer by PyErr_Occurred.  Then it checks the range.    *)
(***************************************************************************)
FromIntegerUnchecked(n, p) == IF Fits(n, LongLong) THEN {Passed(Narrowed(n, p))} ELSE OutOfRange

FromInteger(n, p) ==
  LET through == IF ~p.signed /\ p.bits >= Wide THEN UnsignedLongLong ELSE LongLong
      failed  == IF p.signed \/ p.bits < Wide THEN -1 ELSE Highest(UnsignedLongLong)
      wide    == IF Fits(n, through) THEN n ELSE failed
      occurs  == error # None \/ ~Fits(n, through)
  IN  IF (wide = failed /\ occurs) \/ ~Fits(wide, p) THEN OutOfRange ELSE {Passed(Narrowed(wide, p))}

\* The default that is stored at registration, an unsigned one through unsigned long long.
default_object_signed(d) ==
  IF d.of = "int" THEN [is |-> "int", n |-> Narrowed(d.n, LongLong)] ELSE [is |-> d.of]

default_object(d) ==
  IF d.of = "int"
  THEN [is |-> "int", n |-> Narrowed(d.n, IF d.signed THEN LongLong ELSE UnsignedLongLong)]
  ELSE [is |-> d.of]

\* The object that the caster gets.
Obj(a) == IF a.is = "absent" THEN default_object(a.default) ELSE a

\* A consumer's caster of a pointer: what is no such capsule sets an error, which it clears.
FromHandle(a) == IF a.is = "capsule" THEN {Passed("handle")} ELSE OutOfRange

\* An object's truth is what its __bool__ says.
FromTruth(a) ==
  LET truths == {t \in BOOLEAN : (a.is = "none" => ~t) /\ (a.is = "int" => t = (a.n # 0))}
  IN  {Passed(t) : t \in truths} \cup IF a.is = "object" THEN PythonFailed ELSE {}

(***************************************************************************)
(* Whatever PyFloat_AsDouble fails with, of an int too large, of no        *)
(* __float__ or of one that raised, is cleared and named a wrong type.     *)
(***************************************************************************)
FromNumber(a) ==
  CASE a.is = "int"    -> IF a.n \in (1 - 2 ^ Huge)..(2 ^ Huge - 1) THEN {Passed("double")} ELSE WrongType(a, FALSE)
    [] a.is = "object" -> {Passed("double")} \cup WrongType(a, FALSE) \cup WrongType(a, TRUE)
    [] OTHER           -> WrongType(a, FALSE)

\* A str's text may hold what UTF-8 cannot, and its copy find no memory.
FromText(a) ==
  IF a.is = "str" THEN {Passed("str"), Threw("bad_alloc", None, FALSE, 0)} \cup PythonFailed ELSE WrongType(a, FALSE)

\* from_python of p's caster, given a.
FromPython(p, a) ==
  CASE p.caster = "bool" -> FromTruth(a)
    [] p.caster = "str" -> FromText(a)
    [] p.caster = "handle" -> FromHandle(a)
    [] p.caster = "double" -> FromNumber(a)
    [] p.caster = "optional" /\ a.is = "none" -> {Passed("nullopt")}
    [] OTHER -> IF a.is = "int" THEN FromInteger(a.n, p) ELSE WrongType(a, FALSE)

-----------------------------------------------------------------------------
(* The call.                                                               *)

Init ==
  /\ entry \in Entries
  /\ \E c \in Calls :
       /\ params = c.params /\ args = c.args
       /\ entry \in Slots \cup Raw => params = <<>>
       /\ entry \notin Counted => Len(params) = Len(args)
       /\ entry \notin Keyword => \A i \in DOMAIN args : args[i].is # "absent"
  /\ values = [i \in DOMAIN params |-> None]
  /\ pc = "enter" /\ building = <<>> /\ live = 0 /\ lost = 0
  /\ thrown = None /\ error = None /\ raised = FALSE /\ answer = None

Throw(e, x, byCode) ==
  /\ thrown' = e /\ error' = x /\ raised' = (raised \/ byCode)
  /\ pc' = "catch" /\ UNCHANGED answer

Return(what, x) ==
  /\ answer' = what /\ error' = x /\ pc' = "done"
  /\ raised' = (raised \/ x = "raised") /\ thrown' = None

\* n references go with the scope that an exception leaves.
Lose(n) == live' = live + n /\ lost' = lost + n

Goto(label) == pc' = label /\ UNCHANGED <<thrown, error, raised, answer>>

(***************************************************************************)
(* PyArg refuses what it is given, class_init an instance that holds a T,  *)
(* before every try block.  The default of an absent argument was perhaps  *)
(* never allocated.  The others count their arguments and unwrap their     *)
(* instance; __eq__ declines what is not one.                              *)
(***************************************************************************)
Enter ==
  /\ pc = "enter"
  /\ \/ entry \in Keyword \cup Raw /\ Return("null", "TypeError")
     \/ (\E i \in DOMAIN args : args[i].is = "absent") /\ Return("null", "MemoryError")
     \/ entry = "class_richcompare" /\ Return("object", None)
     \/ /\ \/ entry \in Counted /\ Len(args) # Len(params)
           \/ entry \in Slots \cup {"call_method"}
        /\ \E e \in {"cast_error", "bad_alloc"} : Throw(e, None, FALSE)
     \/ Len(args) = Len(params) /\ Goto("convert")
  /\ UNCHANGED <<callVars, values, buildVars>>

(***************************************************************************)
(* The arguments are converted in an order that C++ leaves open, up to one *)
(* that throws.                                                            *)
(***************************************************************************)
Convert ==
  /\ pc = "convert"
  /\ \E i \in DOMAIN params :
       /\ values[i] = None
       /\ \E outcome \in FromPython(params[i], Obj(args[i])) :
            /\ values' = [values EXCEPT ![i] = outcome.value]
            /\ Lose(outcome.lost)
            /\ IF outcome.thrown = None THEN Goto("convert")
               ELSE Throw(outcome.thrown, outcome.error, outcome.raised)
  /\ UNCHANGED <<callVars, building>>

\* What a function, or a result's copy or move, throws.
CppExceptions == {"cast_error", "bad_alloc", "exception", "other"}

(***************************************************************************)
(* The function throws, or returns: nothing that has to be made (void, a   *)
(* comparison, a hash, a T for __init__), a text for __repr__, or a        *)
(* result.                                                                 *)
(***************************************************************************)
Call ==
  /\ pc = "convert" /\ \A i \in DOMAIN params : values[i] # None
  /\ \/ /\ \/ Throw("error_already_set", "raised", TRUE)
           \/ \E e \in CppExceptions : Throw(e, None, FALSE)
        /\ UNCHANGED building
     \/ /\ entry \notin {"class_repr", "property_getter"}
        /\ Return("object", None) /\ UNCHANGED building
     \/ /\ entry \notin {"class_init", "class_richcompare", "class_hash"}
        /\ \E r \in Results :
             /\ entry = "class_repr" => ~r.list
             /\ building' = <<[left |-> <<r>>, made |-> 0]>>
        /\ Goto("build")
  /\ UNCHANGED <<callVars, values, live, lost>>

Advanced(frame, n) == [left |-> Tail(frame.left), made |-> frame.made + n]
Innermost == Last(building)

(***************************************************************************)
(* The innermost container's next element: an object, which the container  *)
(* steals, or a container in its turn.  When CPython makes none its error  *)
(* stands: a container throws it, the call itself returns null.  Its copy  *)
(* may throw, or its move into the instance made for it, which is lost.    *)
(***************************************************************************)
Make ==
  /\ pc = "build" /\ Innermost.left # <<>>
  /\ LET r == Head(Innermost.left)
     IN  \/ /\ ~r.list
            /\ building' = Append(Front(building), Advanced(Innermost, 1))
            /\ live' = live + 1 /\ UNCHANGED lost /\ Goto("build")
         \/ /\ r.list
            /\ building' = Append(building, [left |-> r.items, made |-> 1])
            /\ live' = live + 1 /\ UNCHANGED lost /\ Goto("build")
         \/ /\ \E x \in {"MemoryError", "raised"} :
                 IF r.list \/ Len(building) > 1
                 THEN Throw("error_already_set", x, x = "raised") ELSE Return("null", x)
            /\ UNCHANGED buildVars
         \/ /\ entry # "class_repr" /\ \E e \in CppExceptions : Throw(e, None, FALSE)
            /\ Lose(0) \/ (~r.list /\ Lose(1))
            /\ UNCHANGED building
  /\ UNCHANGED <<callVars, values>>

\* A container is whole: it goes into the one around it; the result is returned.
Close ==
  /\ pc = "build" /\ Innermost.left = <<>>
  /\ IF Len(building) > 1
     THEN /\ LET around == Front(building)
             IN  building' = Append(Front(around), Advanced(Last(around), Innermost.made))
          /\ Goto("build")
     ELSE Return("object", None) /\ UNCHANGED building
  /\ UNCHANGED <<callVars, values, live, lost>>

(***************************************************************************)
(* The exception leaves a container's to_python: the container is released *)
(* with the elements that it has.                                          *)
(***************************************************************************)
UnwindInnerOnly ==
  /\ pc = "catch" /\ Len(building) > 1
  /\ live' = live - Innermost.made
  /\ building' = <<building[1]>>
  /\ UNCHANGED <<callVars, values, pc, lost, thrown, error, raised, answer>>

UnwindTwice ==
  /\ pc = "catch" /\ Len(building) > 1
  /\ live' = live - Innermost.made
  /\ LET around == Front(building)
     IN  building' = [around EXCEPT ![Len(around)].made = @ + Innermost.made]
  /\ UNCHANGED <<callVars, values, pc, lost, thrown, error, raised, answer>>

Unwind ==
  /\ pc = "catch" /\ Len(building) > 1
  /\ live' = live - Innermost.made
  /\ building' = Front(building)
  /\ UNCHANGED <<callVars, values, pc, lost, thrown, error, raised, answer>>

(***************************************************************************)
(* The Python error for an exception: set_cpp_error's branches in order.   *)
(***************************************************************************)
CppErrorByBase == IF thrown = "bad_alloc" THEN "MemoryError" ELSE "module error"

CppError ==
  CASE thrown = "error_already_set" -> error
    [] thrown = "bad_alloc"         -> "MemoryError"
    [] OTHER                        -> "module error"

\* The catch clauses of the entry points.
CatchForgetting ==
  /\ pc = "catch" /\ Len(building) <= 1
  /\ Return("null", error)
  /\ UNCHANGED <<callVars, values, buildVars>>

Catch ==
  /\ pc = "catch" /\ Len(building) <= 1
  /\ \/ /\ thrown = "cast_error" /\ entry = "class_repr"
        /\ \/ Return("object", error) /\ live' = live + 1
           \/ Return("null", "MemoryError") /\ UNCHANGED live
     \/ /\ thrown = "cast_error" /\ entry = "class_richcompare"
        /\ Return("object", error) /\ UNCHANGED live
     \/ /\ thrown = "cast_error" /\ entry \notin {"class_repr", "class_richcompare", "class_hash", "raw"}
        /\ Return("null", "TypeError") /\ UNCHANGED live
     \/ /\ thrown # "cast_error" \/ entry \in {"class_hash", "raw"}
        /\ Return("null", CppError) /\ UNCHANGED live
  /\ UNCHANGED <<callVars, values, building, lost>>

Next == Enter \/ Convert \/ Call \/ Make \/ Close \/ Unwind \/ Catch

Spec == Init /\ [][Next]_vars

-----------------------------------------------------------------------------
(* Properties.                                                             *)

TypeOK ==
  /\ entry \in Entries
  /\ DOMAIN values = DOMAIN params
  /\ pc \in {"enter", "convert", "build", "catch", "done"}
  /\ \A k \in DOMAIN building : building[k].made \in Nat
  /\ live \in Nat /\ lost \in 0..2
  /\ thrown \in Exceptions \cup {None}
  /\ error \in Errors \cup {None}
  /\ raised \in BOOLEAN
  /\ answer \in {None, "null", "object"}

(***************************************************************************)
(* CPython's convention: a call returns null exactly when a Python error   *)
(* is set, and no exception crosses into C (error.hpp, lines 3 to 5).      *)
(***************************************************************************)
NullIffError ==
  pc = "done" => /\ answer = "null" <=> error # None
                 /\ thrown = None

(***************************************************************************)
(* A call that fails has released every object it made, wherever in a list *)
(* of lists it failed (convert.hpp, lines 264 to 309).  Two places keep    *)
(* what they hold when an exception passes: py_type_name its type and its  *)
(* name, only when memory runs out (convert.hpp, line 50), and class_wrap  *)
(* the instance whose T would not move into it (class.hpp, line 106).      *)
(***************************************************************************)
FailureReleasesAll ==
  answer = "null" => /\ live = lost
                     /\ lost = 2 => error = "MemoryError"

(***************************************************************************)
(* An argument that Python code has a say in besides its truth: the casters*)
(* that expect something else name its type, and a float's asks __float__. *)
(***************************************************************************)
RefusedObject(i) == values[i] = None /\ params[i].caster # "bool" /\ Obj(args[i]).is = "object"

(***************************************************************************)
(* An error that Python code raised under the call, in the function, in an *)
(* argument's __bool__, in its text or in the making of the result, is the *)
(* one its caller sees, whatever branches the exception takes (error.hpp,  *)
(* lines 34 to 50).  It is replaced only where the caster of an argument   *)
(* that is refused asked: by the TypeError of the refusal, or for want of  *)
(* memory (convert.hpp, lines 41 to 56 and 155 to 163; against the words   *)
(* of examples/binding_consumer/python/tests/test_demo.py, line 331).      *)
(***************************************************************************)
PythonErrorStands ==
  pc = "done" /\ raised =>
    /\ answer = "null"
    /\ \/ error = "raised"
       \/ error \in {"TypeError", "MemoryError"} /\ \E i \in DOMAIN params : RefusedObject(i)

(***************************************************************************)
(* The function runs on the integers that Python passed, or on the default *)
(* that the module declares: one that the parameter's type cannot hold is  *)
(* refused and never wraps around, whether the type is as wide as long     *)
(* long or not, -1 and the largest unsigned value included (convert.hpp,   *)
(* lines 99 to 139; dispatch.hpp, lines 143 to 154).                       *)
(***************************************************************************)
IntegersArriveWhole ==
  \A i \in DOMAIN params :
    params[i].caster = "int" /\ values[i] # None =>
      values[i] = IF args[i].is = "absent" THEN args[i].default.n ELSE args[i].n
=============================================================================
