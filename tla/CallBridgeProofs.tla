-------------------------- MODULE CallBridgeProofs --------------------------
(***************************************************************************)
(* What a call from Python keeps (binding/dispatch.hpp, convert.hpp,       *)
(* error.hpp, class.hpp) for any parameters and arguments, integer types   *)
(* of any width, results nested to any depth, and a failure at any call of *)
(* CPython.                                                                *)
(***************************************************************************)
EXTENDS CallBridge, SequenceTheorems, TLAPS

-----------------------------------------------------------------------------
(* The inductive invariant, in parts.                                      *)

\* A container that is being filled.
Frame == [left : Seq(Results), made : Nat]

\* An argument is of a type, a default of a C++ one; once they are counted, one for each parameter.
Declared ==
  /\ params \in Seq(Params) /\ args \in Seq(Args)
  /\ \A i \in DOMAIN args :
       args[i].is = "absent" /\ args[i].default.of = "int" =>
         Fits(args[i].default.n, IF args[i].default.signed THEN LongLong ELSE UnsignedLongLong)
  /\ entry \in Slots \cup Raw => params = <<>>
  /\ pc = "convert" => Len(args) = Len(params)
  /\ values = [i \in DOMAIN params |-> values[i]]

(***************************************************************************)
(* What the phase of the call says of its errors.  An exception that a     *)
(* caster throws may leave an error of Python's behind it, but none is     *)
(* thrown where nothing is converted; and one that Python code raised      *)
(* travels as error_already_set, or belongs to an argument that is         *)
(* refused.                                                                *)
(***************************************************************************)
Refusing == thrown \in {"cast_error", "bad_alloc"} /\ \E i \in DOMAIN params : RefusedObject(i)

Phases ==
  /\ pc \in {"enter", "convert", "build"} =>
       thrown = None /\ error = None /\ ~raised /\ answer = None /\ lost = 0
  /\ pc = "catch" =>
       /\ thrown # None /\ answer = None
       /\ thrown = "error_already_set" => error # None
       /\ raised => (thrown = "error_already_set" /\ error = "raised") \/ Refusing
       /\ lost = 2 => thrown = "bad_alloc"
       /\ thrown = "cast_error" /\ params = <<>> => error = None
  /\ NullIffError /\ PythonErrorStands

(***************************************************************************)
(* What the call owns, and has not lost, is what the containers have made, *)
(* one within the other: total[k] is what the first k made.                *)
(***************************************************************************)
Owned(frames, n) ==
  \E total \in [0..Len(frames) -> Nat] :
    /\ total[0] = 0
    /\ \A k \in 1..Len(frames) : total[k] = total[k - 1] + frames[k].made
    /\ total[Len(frames)] = n

\* A container around another waits for it: its next element is not made yet.
Waiting(frames) == \A k \in 1..(Len(frames) - 1) : frames[k].left # <<>>

(***************************************************************************)
(* The call's own frame makes one object, and has made nothing while it    *)
(* waits for it: so nothing is left of a call that fails.                  *)
(***************************************************************************)
Built ==
  /\ building \in Seq(Frame)
  /\ pc \in {"enter", "convert"} => building = <<>>
  /\ pc = "build" => building # <<>>
  /\ building # <<>> =>
       \/ Len(building) = 1 /\ building[1].left = <<>> /\ pc # "catch"
       \/ Len(building[1].left) = 1 /\ building[1].made = 0
  /\ Waiting(building)
  /\ pc # "done" => Owned(building, live - lost)
  /\ FailureReleasesAll

Inv == TypeOK /\ Declared /\ Phases /\ Built

-----------------------------------------------------------------------------
(* What the containers own.                                                *)

LEMMA FramesType ==
  ASSUME NEW b \in Seq(Frame)
  PROVE  /\ Len(b) \in Nat /\ DOMAIN b = 1..Len(b)
         /\ \A k \in 1..Len(b) : b[k] \in Frame /\ b[k].made \in Nat /\ b[k].left \in Seq(Results)
<1>1. Len(b) \in Nat /\ DOMAIN b = 1..Len(b) /\ \A k \in 1..Len(b) : b[k] \in Frame
  OBVIOUS
<1>2. \A f \in Frame : f.made \in Nat /\ f.left \in Seq(Results)
  BY DEF Frame
<1>3. QED
  BY <1>1, <1>2

LEMMA NoFrames == <<>> \in Seq(Frame) /\ Len(<<>>) = 0 /\ DOMAIN <<>> = {}
  OBVIOUS

\* One container more: the others own what they did.
LEMMA AppendFrame ==
  ASSUME NEW b \in Seq(Frame), NEW f \in Frame
  PROVE  /\ Append(b, f) \in Seq(Frame) /\ Len(Append(b, f)) = Len(b) + 1
         /\ \A k \in 1..Len(b) : Append(b, f)[k] = b[k]
         /\ Append(b, f)[Len(b) + 1] = f
  OBVIOUS

\* Without the innermost.
LEMMA FrontFrames ==
  ASSUME NEW b \in Seq(Frame), b # <<>>
  PROVE  /\ Front(b) \in Seq(Frame) /\ Len(Front(b)) = Len(b) - 1 /\ Len(b) \in Nat \ {0}
         /\ \A k \in 1..(Len(b) - 1) : Front(b)[k] = b[k]
         /\ Last(b) = b[Len(b)] /\ Last(b) \in Frame
<1>1. Len(b) \in Nat \ {0}
  OBVIOUS
<1>2. Front(b) = SubSeq(b, 1, Len(b) - 1)
  BY DEF Front
<1>3. \A k \in 1..(Len(b) - 1) : b[k] \in Frame
  BY <1>1
<1>4. /\ Front(b) \in Seq(Frame) /\ Len(Front(b)) = Len(b) - 1
      /\ \A k \in 1..(Len(b) - 1) : Front(b)[k] = b[k]
  <2> DEFINE n == Len(b) - 1
  <2>1. n \in Int /\ \A k \in 1..n : b[k] \in Frame
    BY <1>1, <1>3
  <2> HIDE DEF n
  <2>2. /\ SubSeq(b, 1, n) \in Seq(Frame) /\ Len(SubSeq(b, 1, n)) = IF 1 <= n THEN n - 1 + 1 ELSE 0
        /\ \A k \in 1..(n - 1 + 1) : SubSeq(b, 1, n)[k] = b[1 + k - 1]
    BY <2>1, SubSeqProperties
  <2>3. n \in Nat /\ n - 1 + 1 = n /\ \A k \in 1..n : 1 + k - 1 = k
    BY <1>1 DEF n
  <2>4. Len(SubSeq(b, 1, n)) = n /\ \A k \in 1..n : SubSeq(b, 1, n)[k] = b[k]
    BY <2>2, <2>3
  <2>5. QED
    BY <1>2, <2>2, <2>4 DEF n
<1>5. Last(b) = b[Len(b)] /\ Last(b) \in Frame
  BY <1>1 DEF Last
<1>6. QED
  BY <1>1, <1>4, <1>5

LEMMA OwnedEmpty == Owned(<<>>, 0)
<1> DEFINE total == [k \in 0..0 |-> 0]
<1>1. Len(<<>>) = 0
  OBVIOUS
<1>2. total \in [0..Len(<<>>) -> Nat] /\ total[0] = 0 /\ total[Len(<<>>)] = 0
  BY <1>1
<1>3. \A k \in 1..Len(<<>>) : total[k] = total[k - 1] + <<>>[k].made
  BY <1>1
<1> HIDE DEF total
<1>4. QED
  BY <1>2, <1>3 DEF Owned

\* A single container owns what it made.
LEMMA OwnedAlone ==
  ASSUME NEW b \in Seq(Frame), NEW n, Owned(b, n), Len(b) <= 1
  PROVE  n = IF b = <<>> THEN 0 ELSE b[1].made
<1>1. PICK total \in [0..Len(b) -> Nat] :
        /\ total[0] = 0
        /\ \A k \in 1..Len(b) : total[k] = total[k - 1] + b[k].made
        /\ total[Len(b)] = n
  BY DEF Owned
<1>2. CASE Len(b) = 0
  BY <1>1, <1>2
<1>3. CASE Len(b) = 1
  <2>1. total[1] = total[1 - 1] + b[1].made /\ 1 - 1 = 0
    BY <1>1, <1>3
  <2>2. b[1].made \in Nat /\ b # <<>>
    BY <1>3, FramesType
  <2>3. QED
    BY <1>1, <1>3, <2>1, <2>2
<1>4. QED
  BY <1>2, <1>3, FramesType

LEMMA OwnedIsNat ==
  ASSUME NEW b \in Seq(Frame), NEW n, Owned(b, n)
  PROVE  n \in Nat
  BY FramesType DEF Owned

LEMMA OwnedAppend ==
  ASSUME NEW b \in Seq(Frame), NEW n \in Int, Owned(b, n), NEW f \in Frame
  PROVE  Owned(Append(b, f), n + f.made)
<1>1. PICK total \in [0..Len(b) -> Nat] :
        /\ total[0] = 0
        /\ \A k \in 1..Len(b) : total[k] = total[k - 1] + b[k].made
        /\ total[Len(b)] = n
  BY DEF Owned
<1>2. Len(b) \in Nat /\ f.made \in Nat /\ n \in Nat
  BY OwnedIsNat, FramesType DEF Frame
<1> DEFINE more == [k \in 0..(Len(b) + 1) |-> IF k <= Len(b) THEN total[k] ELSE n + f.made]
<1>3. more \in [0..(Len(b) + 1) -> Nat]
  BY <1>1, <1>2
<1>4. more[0] = 0 /\ more[Len(b) + 1] = n + f.made
  BY <1>1, <1>2
<1>5. ASSUME NEW k \in 1..(Len(b) + 1)
      PROVE  more[k] = more[k - 1] + Append(b, f)[k].made
  <2>1. CASE k \in 1..Len(b)
    <3>1. more[k] = total[k] /\ more[k - 1] = total[k - 1] /\ Append(b, f)[k] = b[k]
      BY <1>2, <2>1, AppendFrame
    <3>2. QED
      BY <1>1, <2>1, <3>1
  <2>2. CASE k = Len(b) + 1
    <3>1. more[k] = n + f.made /\ more[k - 1] = total[Len(b)] /\ Append(b, f)[k] = f
      BY <1>2, <2>2, AppendFrame
    <3>2. QED
      BY <1>1, <3>1
  <2>3. QED
    BY <1>2, <2>1, <2>2
<1> HIDE DEF more
<1>6. QED
  BY <1>3, <1>4, <1>5, AppendFrame DEF Owned

LEMMA OwnedFront ==
  ASSUME NEW b \in Seq(Frame), b # <<>>, NEW n \in Int, Owned(b, n)
  PROVE  Owned(Front(b), n - Last(b).made)
<1>1. PICK total \in [0..Len(b) -> Nat] :
        /\ total[0] = 0
        /\ \A k \in 1..Len(b) : total[k] = total[k - 1] + b[k].made
        /\ total[Len(b)] = n
  BY DEF Owned
<1>2. /\ Len(b) \in Nat \ {0} /\ Len(Front(b)) = Len(b) - 1 /\ Last(b) = b[Len(b)]
      /\ \A k \in 1..(Len(b) - 1) : Front(b)[k] = b[k]
      /\ Last(b).made \in Nat
  BY FrontFrames, FramesType
<1> DEFINE less == [k \in 0..(Len(b) - 1) |-> total[k]]
<1>3. less \in [0..(Len(b) - 1) -> Nat]
  BY <1>1, <1>2
<1>4. less[0] = 0
  BY <1>1, <1>2
<1>5. less[Len(b) - 1] = n - Last(b).made
  <2>1. less[Len(b) - 1] = total[Len(b) - 1] /\ total[Len(b) - 1] \in Nat
    <3>1. Len(b) - 1 \in 0..(Len(b) - 1) /\ Len(b) - 1 \in 0..Len(b)
      BY <1>2
    <3>2. QED
      BY <1>1, <3>1
  <2>2. total[Len(b)] = total[Len(b) - 1] + Last(b).made
    BY <1>1, <1>2
  <2>3. QED
    BY <1>1, <1>2, <2>1, <2>2
<1>6. ASSUME NEW k \in 1..(Len(b) - 1)
      PROVE  less[k] = less[k - 1] + Front(b)[k].made
  <2>1. less[k] = total[k] /\ less[k - 1] = total[k - 1] /\ Front(b)[k] = b[k] /\ k \in 1..Len(b)
    BY <1>2
  <2>2. QED
    BY <1>1, <2>1
<1> HIDE DEF less
<1>7. QED
  BY <1>2, <1>3, <1>4, <1>5, <1>6 DEF Owned

(***************************************************************************)
(* The innermost container with another count of its own: the call owns as *)
(* many objects more.                                                      *)
(***************************************************************************)
LEMMA OwnedReplaced ==
  ASSUME NEW b \in Seq(Frame), b # <<>>, NEW n \in Int, Owned(b, n), NEW f \in Frame
  PROVE  Owned(Append(Front(b), f), n - Last(b).made + f.made)
<1>1. Last(b).made \in Nat /\ Front(b) \in Seq(Frame)
  BY FrontFrames DEF Frame
<1>2. Owned(Front(b), n - Last(b).made) /\ n - Last(b).made \in Int
  BY <1>1, OwnedFront
<1>3. QED
  BY <1>1, <1>2, OwnedAppend

-----------------------------------------------------------------------------
(* What the call says of its errors.                                       *)

Told ==
  /\ pc \in {"enter", "convert", "build", "catch", "done"}
  /\ thrown \in Exceptions \cup {None} /\ error \in Errors \cup {None}
  /\ raised \in BOOLEAN /\ answer \in {None, "null", "object"} /\ lost \in 0..2

LEMMA TypeParts ==
  TypeOK <=> /\ entry \in Entries /\ DOMAIN values = DOMAIN params /\ Told
             /\ \A k \in DOMAIN building : building[k].made \in Nat
             /\ live \in Nat
  BY DEF TypeOK, Told

\* No outcome of None is taken for another.
LEMMA NoneIsNone ==
  /\ None \notin Exceptions /\ None \notin Errors /\ None # "null" /\ None # "object"
  /\ "cast_error" \in Exceptions /\ "error_already_set" \in Exceptions
  /\ "raised" \in Errors /\ "MemoryError" \in Errors /\ "TypeError" \in Errors /\ "module error" \in Errors
  BY NoneIsNothing DEF Exceptions, Errors

\* On the way to its answer: the call goes on, throws or returns.
LEMMA GoesOn ==
  ASSUME TypeOK, Phases, pc \in {"enter", "convert", "build"}, NEW label \in {"convert", "build"}, Goto(label),
         lost' = lost
  PROVE  Told' /\ Phases' /\ pc' = label /\ answer' = None
  BY DEF TypeOK, Told, Phases, Goto, NullIffError, PythonErrorStands

LEMMA Throws ==
  ASSUME TypeOK, Phases, pc \in {"enter", "convert", "build"}, params' = params, args' = args,
         NEW e \in Exceptions, NEW x \in {None, "raised", "MemoryError"}, NEW byCode \in BOOLEAN,
         Throw(e, x, byCode),
         e = "error_already_set" => x # None,
         e = "cast_error" /\ params = <<>> => x = None,
         byCode => (e = "error_already_set" /\ x = "raised") \/ Refusing',
         lost' \in 0..2, lost' = 2 => e = "bad_alloc"
  PROVE  Told' /\ Phases' /\ pc' = "catch" /\ answer' = None
<1>1. ~raised /\ answer = None
  BY DEF Phases
<1>2. /\ thrown' = e /\ error' = x /\ pc' = "catch" /\ answer' = None
      /\ raised' = byCode
  BY <1>1 DEF Throw
<1>3. e # None /\ x \in Errors \cup {None}
  BY NoneIsNone
<1>4. Told'
  BY <1>2, <1>3 DEF Told
<1>5. Phases'
  BY <1>2, <1>3 DEF Phases, NullIffError, PythonErrorStands
<1>6. QED
  BY <1>2, <1>4, <1>5

\* What a returning call may say where Python code has raised.
Tells(what, x) ==
  /\ what = "null"
  /\ x = "raised" \/ (x \in {"TypeError", "MemoryError"} /\ \E i \in DOMAIN params : RefusedObject(i))

LEMMA Returns ==
  ASSUME TypeOK, NEW what \in {"null", "object"}, NEW x \in Errors \cup {None}, Return(what, x),
         UNCHANGED <<callVars, values>>, lost' = lost,
         what = "null" <=> x # None,
         raised => Tells(what, x)
  PROVE  Told' /\ Phases' /\ pc' = "done" /\ answer' = what
<1>1. /\ thrown' = None /\ error' = x /\ pc' = "done" /\ answer' = what
      /\ raised' = (raised \/ x = "raised") /\ raised \in BOOLEAN
  BY DEF Return, TypeOK
<1>2. Told'
  BY <1>1 DEF Told, TypeOK
<1>3. NullIffError'
  BY <1>1 DEF NullIffError
<1>4. PythonErrorStands'
  <2>1. raised' => Tells(what, x)
    BY <1>1, NoneIsNone DEF Tells
  <2>2. (\E i \in DOMAIN params : RefusedObject(i)) => \E i \in DOMAIN params' : RefusedObject(i)'
    BY DEF RefusedObject, Obj, default_object, Narrowed, Lowest, callVars
  <2>3. QED
    BY <1>1, <2>1, <2>2 DEF PythonErrorStands, Tells
<1>5. Phases'
  BY <1>1, <1>3, <1>4 DEF Phases
<1>6. QED
  BY <1>1, <1>2, <1>5

(***************************************************************************)
(* The entry points' table of exceptions gives each an error, an error of  *)
(* Python's to itself, and MemoryError to an argument refused without      *)
(* memory for the refusal.                                                 *)
(***************************************************************************)
LEMMA CppErrorStands ==
  ASSUME TypeOK, Phases, pc = "catch"
  PROVE  /\ CppError \in Errors
         /\ raised /\ thrown # "cast_error" => Tells("null", CppError)
         /\ lost = 2 => CppError = "MemoryError"
<1>1. thrown \in Exceptions /\ error \in Errors \cup {None}
  BY DEF TypeOK, Phases
<1>2. CASE thrown = "error_already_set"
  <2>1. CppError = error /\ error \in Errors
    BY <1>1, <1>2 DEF CppError, Phases
  <2>2. QED
    BY <1>2, <2>1 DEF Phases, Tells, Refusing
<1>3. CASE thrown = "bad_alloc"
  <2>1. CppError = "MemoryError"
    BY <1>3 DEF CppError
  <2>2. QED
    BY <1>3, <2>1, NoneIsNone DEF Phases, Tells, Refusing
<1>4. CASE thrown \notin {"error_already_set", "bad_alloc"}
  <2>1. CppError = "module error"
    BY <1>4 DEF CppError
  <2>2. raised => thrown = "cast_error"
    BY <1>4 DEF Phases, Refusing
  <2>3. QED
    BY <1>4, <2>1, <2>2, NoneIsNone DEF Phases
<1>5. QED
  BY <1>2, <1>3, <1>4

(***************************************************************************)
(* The casters.  A caster that throws leaves no value, and an error only   *)
(* of Python's own; one that throws error_already_set leaves that error.   *)
(* Python code has raised only for an object, and what it raised is passed *)
(* on unless the object is refused.                                        *)
(***************************************************************************)
Refused(o) ==
  /\ o.value = None /\ o.thrown \in {"cast_error", "bad_alloc", "error_already_set"}
  /\ o.error \in {None, "raised", "MemoryError"}
  /\ o.thrown = "error_already_set" => o.error # None
  /\ o.lost \in {0, 2}
  /\ o.lost = 2 => o.thrown = "bad_alloc"

\* Whose error Python code raised.
Excused(o, p, a) ==
  \/ o.raised = FALSE
  \/ /\ o.raised = TRUE
     /\ \/ o.thrown = "error_already_set" /\ o.error = "raised"
        \/ /\ o.thrown \in {"cast_error", "bad_alloc"}
           /\ p.caster # "bool" /\ a.is = "object"

LEMMA ThrewFields ==
  ASSUME NEW e, NEW x, NEW byCode, NEW n
  PROVE  LET o == Threw(e, x, byCode, n)
         IN  o.value = None /\ o.thrown = e /\ o.error = x /\ o.raised = byCode /\ o.lost = n
  BY Zenon DEF Threw

LEMMA Refusals == \A o \in OutOfRange \cup PythonFailed : Refused(o) /\ \A p, a : Excused(o, p, a)
<1>1. ASSUME NEW o \in OutOfRange PROVE Refused(o) /\ o.raised = FALSE
  <2>1. PICK e \in {"cast_error", "bad_alloc"} : o = Threw(e, None, FALSE, 0)
    BY DEF OutOfRange
  <2>2. o.value = None /\ o.thrown = e /\ o.error = None /\ o.lost = 0
    BY <2>1, Zenon DEF Threw
  <2>3. o.raised = FALSE
    BY <2>1, Zenon DEF Threw
  <2>4. QED
    BY <2>2, <2>3 DEF Refused
<1>2. ASSUME NEW o \in PythonFailed, NEW p, NEW a
      PROVE  Refused(o) /\ Excused(o, p, a)
  <2>1. PICK x \in {"raised", "MemoryError"} : o = Threw("error_already_set", x, x = "raised", 0)
    BY DEF PythonFailed
  <2>2. o.value = None /\ o.thrown = "error_already_set" /\ o.error = x /\ o.lost = 0
    BY <2>1, ThrewFields
  <2>3. o.raised = (x = "raised")
    BY <2>1, ThrewFields
  <2>4. Refused(o)
    <3>1. x # None /\ x \in {None, "raised", "MemoryError"}
      BY NoneIsNone
    <3>2. QED
      BY <2>2, <3>1 DEF Refused
  <2>5. CASE x = "raised"
    <3>1. o.raised = TRUE
      BY <2>3, <2>5, Zenon
    <3>2. QED
      BY <2>2, <2>4, <2>5, <3>1 DEF Excused
  <2>6. CASE x # "raised"
    <3>1. o.raised = FALSE
      BY <2>3, <2>6, Zenon
    <3>2. QED
      BY <2>4, <3>1 DEF Excused
  <2>7. QED
    BY <2>5, <2>6
<1>3. QED
  BY <1>1, <1>2 DEF Excused

LEMMA WrongTypes ==
  ASSUME NEW a, NEW byCode \in BOOLEAN, NEW p, byCode => a.is = "object", p.caster # "bool"
  PROVE  \A o \in WrongType(a, byCode) : Refused(o) /\ Excused(o, p, a)
<1> SUFFICES ASSUME NEW o \in WrongType(a, byCode) PROVE Refused(o) /\ Excused(o, p, a)
  OBVIOUS
<1>1. CASE o = Threw("bad_alloc", None, byCode, 2)
  <2>1. o.value = None /\ o.thrown = "bad_alloc" /\ o.error = None /\ o.raised = byCode /\ o.lost = 2
    BY <1>1, ThrewFields
  <2>2. QED
    BY <2>1 DEF Refused, Excused
<1>2. CASE o # Threw("bad_alloc", None, byCode, 2)
  <2>1. PICK e \in {"cast_error", "bad_alloc"},
             x \in {None, "MemoryError"} \cup IF a.is = "object" THEN {"raised"} ELSE {} :
          o = Threw(e, x, byCode \/ x = "raised", 0)
    BY <1>2 DEF WrongType
  <2>2. x \in {None, "raised", "MemoryError"} /\ (x = "raised" => a.is = "object")
    BY <2>1, NoneIsNone
  <2>3. o.value = None /\ o.thrown = e /\ o.error = x /\ o.lost = 0
    BY <2>1, ThrewFields
  <2>4. o.raised = (byCode \/ x = "raised")
    BY <2>1, ThrewFields
  <2>5. Refused(o)
    BY <2>2, <2>3 DEF Refused
  <2>6. CASE byCode \/ x = "raised"
    <3>1. o.raised = TRUE
      BY <2>4, <2>6, Zenon
    <3>2. QED
      BY <2>2, <2>3, <2>5, <2>6, <3>1 DEF Excused
  <2>7. CASE ~(byCode \/ x = "raised")
    <3>1. o.raised = FALSE
      BY <2>4, <2>7, Zenon
    <3>2. QED
      BY <2>5, <3>1 DEF Excused
  <2>8. QED
    BY <2>6, <2>7
<1>3. QED
  BY <1>1, <1>2

LEMMA PassedThrowsNone ==
  \A v : Passed(v).thrown = None /\ Passed(v).value = v /\ Passed(v).lost = 0
  BY DEF Passed

LEMMA IntegerOutcome ==
  ASSUME NEW n, NEW p
  PROVE  \A o \in FromInteger(n, p) : o \in OutOfRange \/ \E v : o = Passed(v)
  BY DEF FromInteger

\* What a caster does.
Fair(o, p, a) ==
  (o.thrown = None /\ o.lost = 0) \/ (Refused(o) /\ Excused(o, p, a))

LEMMA CasterOutcome ==
  ASSUME NEW p \in Params, NEW a
  PROVE  \A o \in FromPython(p, a) : Fair(o, p, a)
<1> SUFFICES ASSUME NEW o \in FromPython(p, a) PROVE Fair(o, p, a)
  OBVIOUS
<1>1. (\E v : o = Passed(v)) => Fair(o, p, a)
  BY PassedThrowsNone DEF Fair
<1>2. o \in OutOfRange \cup PythonFailed => Fair(o, p, a)
  BY Refusals DEF Fair
<1>3. p.caster # "bool" /\ o \in WrongType(a, FALSE) => Fair(o, p, a)
  BY WrongTypes DEF Fair
<1>4. p.caster # "bool" /\ a.is = "object" /\ o \in WrongType(a, TRUE) => Fair(o, p, a)
  BY WrongTypes DEF Fair
<1>5. p.caster \in {"int", "optional", "bool", "str", "double", "handle"}
  BY DEF Params
<1>6. CASE p.caster = "bool"
  <2>1. (\E v : o = Passed(v)) \/ o \in PythonFailed
    BY <1>6 DEF FromPython, FromTruth
  <2>2. QED
    BY <1>1, <1>2, <2>1
<1>7. CASE p.caster = "str"
  <2>1. o \in FromText(a)
    BY <1>7 DEF FromPython
  <2>2. CASE o = Threw("bad_alloc", None, FALSE, 0)
    BY <2>2 DEF Threw, Fair, Refused, Excused
  <2>3. (\E v : o = Passed(v)) \/ o = Threw("bad_alloc", None, FALSE, 0) \/ o \in PythonFailed \/ o \in WrongType(a, FALSE)
    BY <2>1 DEF FromText
  <2>4. QED
    BY <1>1, <1>2, <1>3, <1>7, <2>2, <2>3
<1>8. CASE p.caster = "handle"
  <2>1. (\E v : o = Passed(v)) \/ o \in OutOfRange
    BY <1>8 DEF FromPython, FromHandle
  <2>2. QED
    BY <1>1, <1>2, <2>1
<1>9. CASE p.caster = "double"
  <2>1. o \in FromNumber(a)
    BY <1>9 DEF FromPython
  <2>2. (\E v : o = Passed(v)) \/ o \in WrongType(a, FALSE) \/ (a.is = "object" /\ o \in WrongType(a, TRUE))
    <3>1. CASE a.is = "int"
      BY <2>1, <3>1 DEF FromNumber
    <3>2. CASE a.is = "object"
      BY <2>1, <3>2 DEF FromNumber
    <3>3. CASE a.is \notin {"int", "object"}
      BY <2>1, <3>3 DEF FromNumber
    <3>4. QED
      BY <3>1, <3>2, <3>3
  <2>3. QED
    BY <1>1, <1>3, <1>4, <1>9, <2>2
<1>10. CASE p.caster = "optional" /\ a.is = "none"
  BY <1>1, <1>10 DEF FromPython
<1>11. CASE p.caster \in {"int", "optional"} /\ ~(p.caster = "optional" /\ a.is = "none")
  <2>1. FromPython(p, a) = IF a.is = "int" THEN FromInteger(a.n, p) ELSE WrongType(a, FALSE)
    BY <1>11 DEF FromPython
  <2>2. CASE a.is = "int"
    BY <1>1, <1>2, <2>1, <2>2, IntegerOutcome
  <2>3. CASE a.is # "int"
    BY <1>3, <1>11, <2>1, <2>3
  <2>4. QED
    BY <2>2, <2>3
<1>12. QED
  BY <1>5, <1>6, <1>7, <1>8, <1>9, <1>10, <1>11

-----------------------------------------------------------------------------
(* The steps.                                                              *)

LEMMA InvInit == Init => Inv
<1> SUFFICES ASSUME Init PROVE Inv
  OBVIOUS
<1>1. PICK c \in Calls : params = c.params /\ args = c.args
  BY DEF Init
<1>2. params \in Seq(Params) /\ args \in Seq(Args)
  BY <1>1, CallsAssumption
<1>3. /\ pc = "enter" /\ building = <<>> /\ live = 0 /\ lost = 0 /\ thrown = None /\ error = None
      /\ raised = FALSE /\ answer = None /\ values = [i \in DOMAIN params |-> None]
      /\ entry \in Entries /\ (entry \in Slots \cup Raw => params = <<>>)
  BY DEF Init
<1>4. TypeOK
  <2>1. \A k \in DOMAIN building : building[k].made \in Nat
    BY <1>3, NoFrames
  <2>2. DOMAIN values = DOMAIN params /\ live \in Nat /\ lost \in 0..2
    BY <1>3
  <2>3. QED
    BY <1>3, <2>1, <2>2 DEF TypeOK
<1>5. Declared
  <2>1. \A i \in DOMAIN args :
          args[i].is = "absent" /\ args[i].default.of = "int" =>
            Fits(args[i].default.n, IF args[i].default.signed THEN LongLong ELSE UnsignedLongLong)
    BY <1>1, DefaultsAssumption
  <2>2. values = [i \in DOMAIN params |-> values[i]]
    BY <1>3
  <2>3. QED
    BY <1>2, <1>3, <2>1, <2>2 DEF Declared
<1>6. Phases
  BY <1>3 DEF Phases, NullIffError, PythonErrorStands
<1>7. Built
  <2>1. building \in Seq(Frame) /\ FailureReleasesAll
    BY <1>3, NoFrames, NoneIsNone DEF FailureReleasesAll
  <2>2. live - lost = 0
    BY <1>3
  <2>3. Waiting(building)
    BY <1>3, NoFrames DEF Waiting
  <2>4. QED
    BY <1>3, <2>1, <2>2, <2>3, OwnedEmpty DEF Built
<1>8. QED
  BY <1>4, <1>5, <1>6, <1>7 DEF Inv

\* What a step leaves of the call, and of the containers, in a phase that builds nothing.
LEMMA StillDeclared ==
  ASSUME Declared, UNCHANGED <<callVars, values>>, pc' = "convert" => Len(args) = Len(params)
  PROVE  Declared'
  BY DEF Declared, callVars

LEMMA NothingBuilt ==
  ASSUME Inv, pc \in {"enter", "convert"}
  PROVE  building = <<>> /\ live = 0 /\ lost = 0
<1>1. building = <<>> /\ Owned(building, live - lost) /\ building \in Seq(Frame) /\ lost = 0 /\ live \in Nat
  BY DEF Inv, Built, Phases, TypeOK
<1>2. Len(building) <= 1
  BY <1>1, NoFrames
<1>3. live - lost = 0
  BY <1>1, <1>2, OwnedAlone
<1>4. QED
  BY <1>1, <1>3

\* Nothing is built, and what is owned is lost.
LEMMA StillNothingBuilt ==
  ASSUME Inv, pc \in {"enter", "convert"}, building' = building, NEW n \in Nat, Lose(n), pc' # "build",
         n = 2 /\ answer' = "null" => error' = "MemoryError"
  PROVE  Built'
<1>1. building' = <<>> /\ live' = n /\ lost' = n
  BY NothingBuilt DEF Lose
<1>2. Owned(building', live' - lost') /\ building' \in Seq(Frame) /\ FailureReleasesAll'
  <2>1. live' - lost' = 0
    BY <1>1
  <2>2. QED
    BY <1>1, <2>1, OwnedEmpty DEF FailureReleasesAll
<1>3. Waiting(building')
  BY <1>1, NoFrames DEF Waiting
<1>4. QED
  BY <1>1, <1>2, <1>3 DEF Built

LEMMA LosesNothing ==
  ASSUME TypeOK, live' = live, lost' = lost
  PROVE  Lose(0)
  BY DEF Lose, TypeOK

LEMMA EnterStep == ASSUME Inv, Enter PROVE Inv'
<1>1. /\ TypeOK /\ Phases /\ Declared /\ pc = "enter" /\ UNCHANGED <<callVars, values, buildVars>>
      /\ entry' = entry /\ params' = params /\ args' = args /\ ~raised
      /\ building' = building /\ live' = live /\ lost' = lost /\ lost = 0
  BY DEF Inv, Enter, callVars, buildVars, Phases
<1>2. /\ Told' /\ Phases' /\ pc' # "build"
      /\ pc' = "convert" => Len(args) = Len(params)
  <2>1. CASE Return("null", "TypeError")
    BY <1>1, <2>1, Returns, NoneIsNone
  <2>2. CASE Return("null", "MemoryError")
    BY <1>1, <2>2, Returns, NoneIsNone
  <2>3. CASE Return("object", None)
    BY <1>1, <2>3, Returns, NoneIsNone
  <2>4. ASSUME NEW e \in {"cast_error", "bad_alloc"}, Throw(e, None, FALSE)
        PROVE  Told' /\ Phases' /\ pc' = "catch"
    <3>1. e \in Exceptions /\ e # "error_already_set" /\ lost' \in 0..2 /\ lost' # 2
      BY <1>1 DEF Exceptions
    <3>2. QED
      BY <1>1, <2>4, <3>1, Throws
  <2>5. CASE Len(args) = Len(params) /\ Goto("convert")
    BY <1>1, <2>5, GoesOn
  <2>6. QED
    BY <2>1, <2>2, <2>3, <2>4, <2>5 DEF Enter
<1>3. Declared'
  BY <1>1, <1>2, StillDeclared
<1>4. Built'
  BY <1>1, <1>2, LosesNothing, StillNothingBuilt
<1>5. TypeOK'
  BY <1>1, <1>2, TypeParts DEF TypeOK, Told, callVars, buildVars
<1>6. QED
  BY <1>2, <1>3, <1>4, <1>5 DEF Inv

LEMMA ConvertStep == ASSUME Inv, Convert PROVE Inv'
<1>1. /\ TypeOK /\ Phases /\ Declared /\ pc = "convert" /\ UNCHANGED callVars /\ building' = building
      /\ entry' = entry /\ params' = params /\ args' = args /\ lost = 0 /\ live = 0
  BY NothingBuilt DEF Inv, Convert, callVars, buildVars, Phases
<1>2. PICK i \in DOMAIN params : \E outcome \in FromPython(params[i], Obj(args[i])) :
        /\ values[i] = None
        /\ values' = [values EXCEPT ![i] = outcome.value]
        /\ Lose(outcome.lost)
        /\ IF outcome.thrown = None THEN Goto("convert")
           ELSE Throw(outcome.thrown, outcome.error, outcome.raised)
  BY DEF Convert
<1>3. PICK outcome \in FromPython(params[i], Obj(args[i])) :
        /\ values' = [values EXCEPT ![i] = outcome.value]
        /\ Lose(outcome.lost)
        /\ IF outcome.thrown = None THEN Goto("convert")
           ELSE Throw(outcome.thrown, outcome.error, outcome.raised)
  BY <1>2
<1>4. params[i] \in Params /\ params # <<>> /\ DOMAIN values = DOMAIN params
  BY <1>1, <1>2 DEF Declared
<1>5. Fair(outcome, params[i], Obj(args[i]))
  BY <1>4, CasterOutcome
<1>6. /\ Told' /\ Phases' /\ pc' # "build" /\ answer' = None
      /\ outcome.lost \in Nat /\ live' = outcome.lost /\ lost' = outcome.lost
  <2>1. CASE outcome.thrown = None /\ outcome.lost = 0
    BY <1>1, <1>3, <2>1, GoesOn DEF Lose
  <2>2. CASE outcome.thrown # None /\ Refused(outcome) /\ Excused(outcome, params[i], Obj(args[i]))
    <3>1. /\ outcome.thrown \in Exceptions /\ outcome.error \in {None, "raised", "MemoryError"}
          /\ outcome.thrown = "error_already_set" => outcome.error # None
          /\ outcome.lost \in {0, 2} /\ outcome.value = None
          /\ outcome.lost = 2 => outcome.thrown = "bad_alloc"
      BY <2>2, NoneIsNone DEF Refused, Exceptions
    <3>2. Throw(outcome.thrown, outcome.error, outcome.raised)
      BY <1>3, <2>2
    <3>3. lost' = outcome.lost /\ live' = outcome.lost
      BY <1>1, <1>3, <3>1 DEF Lose
    <3>4. outcome.raised => \/ outcome.thrown = "error_already_set" /\ outcome.error = "raised"
                            \/ Refusing'
      <4>1. CASE /\ outcome.thrown \in {"cast_error", "bad_alloc"}
                 /\ params[i].caster # "bool" /\ Obj(args[i]).is = "object"
        <5>1. values'[i] = None /\ thrown' = outcome.thrown
          BY <1>3, <1>4, <3>1, <3>2 DEF Throw
        <5>2. params'[i].caster # "bool" /\ Obj(args'[i]).is = "object" /\ i \in DOMAIN params'
          BY <1>1, <4>1
        <5>3. RefusedObject(i)'
          BY <5>1, <5>2 DEF RefusedObject
        <5>4. QED
          BY <4>1, <5>1, <5>2, <5>3 DEF Refusing
      <4>2. QED
        BY <2>2, <4>1 DEF Excused
    <3>5. Told' /\ Phases' /\ pc' = "catch" /\ answer' = None
      <4>1. outcome.raised \in BOOLEAN
        BY <2>2, Zenon DEF Excused
      <4>2. lost' \in 0..2 /\ (lost' = 2 => outcome.thrown = "bad_alloc")
        BY <3>1, <3>3
      <4>3. QED
        BY <1>1, <1>4, <3>1, <3>2, <3>4, <4>1, <4>2, Throws
    <3>6. QED
      BY <3>1, <3>3, <3>5
  <2>3. QED
    BY <1>5, <2>1, <2>2, NoneIsNone DEF Fair, Refused, Exceptions
<1>7. Declared'
  <2>1. values' = [j \in DOMAIN params' |-> values'[j]]
    BY <1>1, <1>3 DEF Declared
  <2>2. QED
    BY <1>1, <2>1 DEF Declared
<1>8. Built'
  BY <1>1, <1>3, <1>6, NoneIsNone, StillNothingBuilt
<1>9. TypeOK'
  <2>1. DOMAIN values' = DOMAIN params'
    BY <1>7 DEF Declared
  <2>2. QED
    BY <1>1, <1>6, <2>1, TypeParts DEF TypeOK, Told
<1>10. QED
  BY <1>6, <1>7, <1>8, <1>9 DEF Inv

LEMMA CallStep == ASSUME Inv, Call PROVE Inv'
<1>1. /\ TypeOK /\ Phases /\ Declared /\ pc = "convert" /\ UNCHANGED <<callVars, values, live, lost>>
      /\ entry' = entry /\ params' = params /\ args' = args /\ ~raised /\ live' = live /\ lost' = lost
  BY DEF Inv, Call, callVars, Phases
<1>2. building = <<>> /\ live = 0 /\ lost = 0 /\ live' = 0 /\ lost' = 0 /\ Lose(0)
  BY <1>1, NothingBuilt, LosesNothing
<1>3. CASE /\ \/ Throw("error_already_set", "raised", TRUE)
              \/ \E e \in CppExceptions : Throw(e, None, FALSE)
           /\ UNCHANGED building
  <2>1. PICK e \in Exceptions, x \in {None, "raised", "MemoryError"}, byCode \in BOOLEAN :
          /\ Throw(e, x, byCode)
          /\ e = "error_already_set" => x # None
          /\ e = "cast_error" /\ params = <<>> => x = None
          /\ byCode => e = "error_already_set" /\ x = "raised"
    <3>1. CASE Throw("error_already_set", "raised", TRUE)
      BY <3>1, NoneIsNone
    <3>2. ASSUME NEW e \in CppExceptions, Throw(e, None, FALSE)
          PROVE  e \in Exceptions /\ e # "error_already_set"
      BY DEF CppExceptions, Exceptions
    <3>3. QED
      BY <1>3, <3>1, <3>2
  <2>2. Told' /\ Phases' /\ pc' = "catch" /\ answer' = None
    BY <1>1, <1>2, <2>1, Throws
  <2>3. Declared'
    BY <1>1, <2>2, StillDeclared
  <2>4. Built'
    BY <1>1, <1>2, <1>3, <2>2, StillNothingBuilt
  <2>5. TypeOK'
    BY <1>1, <1>3, <2>2, TypeParts DEF TypeOK, Told
  <2>6. QED
    BY <2>2, <2>3, <2>4, <2>5 DEF Inv
<1>4. CASE Return("object", None) /\ UNCHANGED building
  <2>1. Told' /\ Phases' /\ pc' = "done"
    BY <1>1, <1>4, Returns, NoneIsNone
  <2>2. Declared'
    BY <1>1, <2>1, StillDeclared
  <2>3. Built'
    BY <1>1, <1>2, <1>4, <2>1, StillNothingBuilt
  <2>4. TypeOK'
    BY <1>1, <1>4, <2>1, TypeParts DEF TypeOK, Told
  <2>5. QED
    BY <2>1, <2>2, <2>3, <2>4 DEF Inv
<1>5. ASSUME NEW r \in Results, building' = <<[left |-> <<r>>, made |-> 0]>>, Goto("build")
      PROVE  Inv'
  <2>1. Told' /\ Phases' /\ pc' = "build" /\ answer' = None
    BY <1>1, <1>5, GoesOn
  <2>2. Declared'
    BY <1>1, <2>1, StillDeclared
  <2> DEFINE f == [left |-> <<r>>, made |-> 0]
  <2>3. f \in Frame /\ Len(f.left) = 1 /\ f.made = 0
    BY DEF Frame
  <2>4. building' = Append(<<>>, f)
    BY <1>5
  <2> HIDE DEF f
  <2>5. /\ building' \in Seq(Frame) /\ building' # <<>> /\ Len(building') = 1 /\ building'[1] = f
    BY <2>3, <2>4
  <2>6. Waiting(building')
    BY <2>5 DEF Waiting
  <2>7. Owned(building', live' - lost')
    <3>1. Owned(building, 0) /\ building \in Seq(Frame) /\ 0 \in Int
      BY <1>2, OwnedEmpty, NoFrames
    <3>2. Owned(Append(building, f), 0 + f.made)
      BY <2>3, <3>1, OwnedAppend
    <3>3. 0 + f.made = live' - lost'
      BY <1>2, <2>3
    <3>4. QED
      BY <1>2, <2>4, <3>2, <3>3
  <2>8. Built'
    BY <2>1, <2>3, <2>5, <2>6, <2>7, NoneIsNone DEF Built, FailureReleasesAll
  <2>9. TypeOK'
    BY <1>1, <2>1, <2>3, <2>5, TypeParts DEF TypeOK, Told
  <2>10. QED
    BY <2>1, <2>2, <2>8, <2>9 DEF Inv
<1>6. QED
  BY <1>3, <1>4, <1>5 DEF Call

(***************************************************************************)
(* While an object is made and while one is not, the call's own frame is   *)
(* the first, and waits unless it is alone and made.                       *)
(***************************************************************************)
LEMMA Building ==
  ASSUME Inv, building # <<>>
  PROVE  /\ building \in Seq(Frame) /\ Len(building) \in Nat \ {0}
         /\ Innermost = building[Len(building)] /\ Innermost \in Frame
         /\ Innermost.left \in Seq(Results) /\ Innermost.made \in Nat
         /\ pc # "done" => Owned(building, live - lost)
         /\ Waiting(building)
         /\ \/ Len(building) = 1 /\ building[1].left = <<>> /\ pc # "catch"
            \/ Len(building[1].left) = 1 /\ building[1].made = 0
<1>1. building \in Seq(Frame)
  BY DEF Inv, Built
<1>2. /\ Len(building) \in Nat \ {0} /\ Innermost = building[Len(building)] /\ Innermost \in Frame
  BY <1>1, FrontFrames DEF Innermost
<1>3. Innermost.left \in Seq(Results) /\ Innermost.made \in Nat
  BY <1>2 DEF Frame
<1>4. QED
  BY <1>1, <1>2, <1>3 DEF Inv, Built

\* The conjuncts of the invariant that a step of the containers leaves to show.
LEMMA InvFrom ==
  ASSUME Inv, UNCHANGED <<callVars, values>>, pc' # "convert", Told', Phases', Built',
         live' \in Nat
  PROVE  Inv'
<1>1. Declared'
  BY StillDeclared DEF Inv
<1>2. building' \in Seq(Frame)
  BY DEF Built
<1>3. \A k \in DOMAIN building' : building'[k].made \in Nat
  BY <1>2, FramesType
<1>4. entry' \in Entries /\ DOMAIN values' = DOMAIN params'
  BY DEF Inv, TypeOK, callVars
<1>5. TypeOK'
  BY <1>3, <1>4 DEF TypeOK, Told
<1>6. QED
  BY <1>1, <1>5 DEF Inv

\* A frame whose next element is made.
LEMMA AdvancedType ==
  ASSUME NEW f \in Frame, f.left # <<>>, NEW n \in Nat
  PROVE  /\ Advanced(f, n) \in Frame /\ Advanced(f, n).made = f.made + n
         /\ Advanced(f, n).left = Tail(f.left)
         /\ Len(f.left) = 1 => Advanced(f, n).left = <<>>
<1>1. f.left \in Seq(Results) /\ f.made \in Nat
  BY DEF Frame
<1>2. Tail(f.left) \in Seq(Results) /\ Len(Tail(f.left)) = Len(f.left) - 1 /\ Len(f.left) \in Nat
  BY <1>1, HeadTailProperties
<1>3. Len(f.left) = 1 => Tail(f.left) = <<>>
  <2> DEFINE rest == Tail(f.left)
  <2>1. rest \in Seq(Results) /\ (Len(f.left) = 1 => Len(rest) = 0)
    BY <1>2
  <2> HIDE DEF rest
  <2>2. rest # <<>> => Len(rest) # 0
    BY <2>1, EmptySeq
  <2>3. QED
    BY <2>1, <2>2 DEF rest
<1>4. Advanced(f, n) = [left |-> Tail(f.left), made |-> f.made + n]
  BY DEF Advanced
<1>5. QED
  BY <1>1, <1>2, <1>3, <1>4 DEF Frame

\* Replacing the last frame leaves the others.
LEMMA ReplaceLast ==
  ASSUME NEW b \in Seq(Frame), b # <<>>, NEW f \in Frame
  PROVE  /\ Append(Front(b), f) \in Seq(Frame) /\ Len(Append(Front(b), f)) = Len(b)
         /\ Append(Front(b), f) # <<>>
         /\ Len(b) > 1 => Append(Front(b), f)[1] = b[1]
         /\ Len(b) = 1 => Append(Front(b), f)[1] = f
         /\ Waiting(b) => Waiting(Append(Front(b), f))
<1>1. /\ Front(b) \in Seq(Frame) /\ Len(Front(b)) = Len(b) - 1 /\ Len(b) \in Nat \ {0}
      /\ \A k \in 1..(Len(b) - 1) : Front(b)[k] = b[k]
  BY FrontFrames
<1> DEFINE g == Front(b)
<1>2. g \in Seq(Frame)
  BY <1>1
<1> HIDE DEF g
<1>3. /\ Append(g, f) \in Seq(Frame) /\ Len(Append(g, f)) = Len(g) + 1
      /\ \A k \in 1..Len(g) : Append(g, f)[k] = g[k]
      /\ Append(g, f)[Len(g) + 1] = f
  BY <1>2, AppendFrame
<1>4. Len(g) + 1 = Len(b) /\ (Len(b) > 1 => 1 \in 1..Len(g) /\ g[1] = b[1]) /\ (Len(b) = 1 => Len(g) + 1 = 1)
  BY <1>1 DEF g
<1>5. Append(g, f) # <<>>
  BY <1>1, <1>3, <1>4
<1>6. Waiting(b) => Waiting(Append(g, f))
  <2>1. \A k \in 1..(Len(b) - 1) : Append(g, f)[k] = b[k]
    BY <1>1, <1>3 DEF g
  <2>2. QED
    BY <1>3, <1>4, <2>1 DEF Waiting
<1>7. QED
  BY <1>3, <1>4, <1>5, <1>6 DEF g

LEMMA MakeStep == ASSUME Inv, Make PROVE Inv'
<1>1. /\ TypeOK /\ Phases /\ pc = "build" /\ UNCHANGED <<callVars, values>>
      /\ entry' = entry /\ params' = params /\ args' = args /\ ~raised
      /\ Innermost.left # <<>> /\ live \in Nat /\ lost = 0
  BY DEF Inv, Make, callVars, Phases, TypeOK
<1>2. building # <<>>
  BY <1>1 DEF Inv, Built
<1>3. /\ building \in Seq(Frame) /\ Len(building) \in Nat \ {0}
      /\ Innermost = building[Len(building)] /\ Innermost \in Frame
      /\ Innermost.left \in Seq(Results) /\ Innermost.made \in Nat
      /\ Owned(building, live - lost) /\ Waiting(building)
      /\ \/ Len(building) = 1 /\ building[1].left = <<>>
         \/ Len(building[1].left) = 1 /\ building[1].made = 0
  BY <1>1, <1>2, Building
<1>4. Len(building[1].left) = 1 /\ building[1].made = 0
  BY <1>1, <1>3
<1> DEFINE r == Head(Innermost.left)
<1>5. r \in Results /\ r.items \in Seq(Results)
  BY <1>1, <1>3, ResultsAssumption, HeadTailProperties
<1>6. CASE building' = Append(Front(building), Advanced(Innermost, 1)) /\ live' = live + 1 /\ lost' = lost /\ Goto("build")
  <2> DEFINE f == Advanced(Innermost, 1)
  <2>1. f \in Frame /\ f.made = Innermost.made + 1 /\ (Len(Innermost.left) = 1 => f.left = <<>>)
    BY <1>1, <1>3, AdvancedType
  <2> HIDE DEF f
  <2>2. /\ building' \in Seq(Frame) /\ Len(building') = Len(building) /\ building' # <<>>
        /\ Len(building) > 1 => building'[1] = building[1]
        /\ Len(building) = 1 => building'[1] = f
        /\ Waiting(building')
    BY <1>2, <1>3, <1>6, <2>1, ReplaceLast DEF f
  <2>3. Owned(building', live' - lost')
    <3>1. live - lost = live /\ live \in Int /\ Owned(building, live)
      BY <1>1, <1>3
    <3>2. Owned(Append(Front(building), f), live - Last(building).made + f.made)
      BY <1>2, <1>3, <2>1, <3>1, OwnedReplaced
    <3>3. live - Last(building).made + f.made = live' - lost'
      BY <1>1, <1>3, <1>6, <2>1 DEF Innermost
    <3>4. QED
      BY <1>6, <3>2, <3>3 DEF f
  <2>4. Told' /\ Phases' /\ pc' = "build" /\ answer' = None
    BY <1>1, <1>6, GoesOn
  <2>5. \/ Len(building') = 1 /\ building'[1].left = <<>>
        \/ Len(building'[1].left) = 1 /\ building'[1].made = 0
    <3>1. CASE Len(building) = 1
      BY <1>3, <1>4, <2>1, <2>2, <3>1
    <3>2. CASE Len(building) > 1
      BY <1>4, <2>2, <3>2
    <3>3. QED
      BY <1>3, <3>1, <3>2
  <2>6. Built'
    BY <2>2, <2>3, <2>4, <2>5, NoneIsNone DEF Built, FailureReleasesAll
  <2>7. QED
    BY <1>1, <1>6, <2>4, <2>6, InvFrom
<1>7. CASE building' = Append(building, [left |-> r.items, made |-> 1]) /\ live' = live + 1 /\ lost' = lost /\ Goto("build")
  <2> DEFINE f == [left |-> r.items, made |-> 1]
  <2>1. f \in Frame /\ f.made = 1
    BY <1>5 DEF Frame
  <2> HIDE DEF f
  <2>2. /\ building' \in Seq(Frame) /\ Len(building') = Len(building) + 1
        /\ \A k \in 1..Len(building) : building'[k] = building[k]
    BY <1>3, <1>7, <2>1, AppendFrame DEF f
  <2>3. building' # <<>> /\ building'[1] = building[1] /\ Waiting(building')
    BY <1>1, <1>3, <2>2 DEF Waiting
  <2>4. Owned(building', live' - lost')
    <3>1. live - lost = live /\ live \in Int /\ Owned(building, live)
      BY <1>1, <1>3
    <3>2. Owned(Append(building, f), live + f.made)
      BY <1>3, <2>1, <3>1, OwnedAppend
    <3>3. live + f.made = live' - lost'
      BY <1>1, <1>7, <2>1
    <3>4. QED
      BY <1>7, <3>2, <3>3 DEF f
  <2>5. Told' /\ Phases' /\ pc' = "build" /\ answer' = None
    BY <1>1, <1>7, GoesOn
  <2>6. Built'
    BY <1>4, <2>2, <2>3, <2>4, <2>5, NoneIsNone DEF Built, FailureReleasesAll
  <2>7. QED
    BY <1>1, <1>7, <2>5, <2>6, InvFrom
<1>8. ASSUME NEW x \in {"MemoryError", "raised"}, UNCHANGED buildVars,
             IF r.list \/ Len(building) > 1
             THEN Throw("error_already_set", x, x = "raised") ELSE Return("null", x)
      PROVE  Inv'
  <2>1. building' = building /\ live' = live /\ lost' = lost
    BY <1>8 DEF buildVars
  <2>2. CASE Throw("error_already_set", x, x = "raised")
    <3>1. Told' /\ Phases' /\ pc' = "catch" /\ answer' = None
      <4>1. x \in {None, "raised", "MemoryError"} /\ x # None /\ "error_already_set" \in Exceptions
        BY NoneIsNone
      <4>2. (x = "raised") \in BOOLEAN /\ lost' \in 0..2 /\ lost' # 2
        BY <1>1, <2>1
      <4>3. QED
        BY <1>1, <2>2, <4>1, <4>2, Throws
    <3>2. Built'
      BY <1>2, <1>3, <1>4, <2>1, <3>1, NoneIsNone DEF Built, FailureReleasesAll
    <3>3. QED
      BY <1>1, <2>1, <3>1, <3>2, InvFrom
  <2>3. CASE Return("null", x) /\ Len(building) <= 1
    <3>1. Told' /\ Phases' /\ pc' = "done"
      BY <1>1, <2>1, <2>3, NoneIsNone, Returns
    <3>2. live = 0
      <4>1. live - lost = 0
        BY <1>2, <1>3, <1>4, <2>3, OwnedAlone
      <4>2. QED
        BY <1>1, <4>1
    <3>3. Built'
      BY <1>1, <1>2, <1>3, <1>4, <2>1, <3>1, <3>2 DEF Built, FailureReleasesAll
    <3>4. QED
      BY <1>1, <2>1, <3>1, <3>3, InvFrom
  <2>4. QED
    BY <1>3, <1>8, <2>2, <2>3
<1>9. ASSUME NEW e \in CppExceptions, Throw(e, None, FALSE), NEW n \in {0, 1}, Lose(n), building' = building
      PROVE  Inv'
  <2>1. live' = live + n /\ lost' = n /\ live' \in Nat /\ live' - lost' = live - lost
    BY <1>1, <1>9 DEF Lose
  <2>2. Told' /\ Phases' /\ pc' = "catch" /\ answer' = None
    <3>1. e \in Exceptions /\ e # "error_already_set"
      BY DEF CppExceptions, Exceptions
    <3>2. lost' \in 0..2 /\ lost' # 2
      BY <2>1
    <3>3. QED
      BY <1>1, <1>9, <3>1, <3>2, Throws
  <2>3. Built'
    BY <1>2, <1>3, <1>4, <1>9, <2>1, <2>2, NoneIsNone DEF Built, FailureReleasesAll
  <2>4. QED
    BY <1>1, <2>1, <2>2, <2>3, InvFrom
<1>10. QED
  <2>1. \/ /\ building' = Append(Front(building), Advanced(Innermost, 1))
           /\ live' = live + 1 /\ lost' = lost /\ Goto("build")
        \/ /\ building' = Append(building, [left |-> r.items, made |-> 1])
           /\ live' = live + 1 /\ lost' = lost /\ Goto("build")
        \/ /\ \E x \in {"MemoryError", "raised"} :
                 IF r.list \/ Len(building) > 1
                 THEN Throw("error_already_set", x, x = "raised") ELSE Return("null", x)
           /\ UNCHANGED buildVars
        \/ /\ \E e \in CppExceptions : Throw(e, None, FALSE)
           /\ \E n \in {0, 1} : Lose(n)
           /\ building' = building
    BY DEF Make
  <2> HIDE DEF r
  <2>2. QED
    BY <1>6, <1>7, <1>8, <1>9, <2>1

LEMMA CloseStep == ASSUME Inv, Close PROVE Inv'
<1>1. /\ TypeOK /\ Phases /\ pc = "build" /\ UNCHANGED <<callVars, values, live, lost>>
      /\ params' = params /\ ~raised /\ Innermost.left = <<>> /\ live \in Nat /\ live' = live
      /\ lost = 0 /\ lost' = 0
  BY DEF Inv, Close, callVars, Phases, TypeOK
<1>2. building # <<>>
  BY <1>1 DEF Inv, Built
<1>3. /\ building \in Seq(Frame) /\ Len(building) \in Nat \ {0}
      /\ Innermost = building[Len(building)] /\ Innermost.made \in Nat
      /\ Owned(building, live) /\ Waiting(building)
      /\ \/ Len(building) = 1 /\ building[1].left = <<>>
         \/ Len(building[1].left) = 1 /\ building[1].made = 0
  <2>1. live - lost = live
    BY <1>1
  <2>2. QED
    BY <1>1, <1>2, <2>1, Building
<1>4. CASE Len(building) > 1
  <2> DEFINE around == Front(building)
  <2>1. /\ around \in Seq(Frame) /\ Len(around) = Len(building) - 1
        /\ \A k \in 1..(Len(building) - 1) : around[k] = building[k]
    BY <1>2, <1>3, FrontFrames
  <2>2. around # <<>> /\ around[1] = building[1] /\ Waiting(around)
    <3>1. Len(around) # 0 /\ 1 \in 1..(Len(building) - 1)
      BY <1>3, <1>4, <2>1
    <3>2. \A k \in 1..(Len(around) - 1) : k \in 1..(Len(building) - 1)
      BY <1>3, <2>1
    <3>3. Waiting(around)
      BY <1>3, <2>1, <3>2 DEF Waiting
    <3>4. QED
      BY <2>1, <3>1, <3>3
  <2>3. Owned(around, live - Innermost.made) /\ live - Innermost.made \in Int
    BY <1>1, <1>2, <1>3, OwnedFront DEF Innermost
  <2>4. Last(around) \in Frame /\ Last(around).made \in Nat /\ Last(around).left # <<>>
    <3>1. Last(around) = around[Len(around)] /\ Last(around) \in Frame /\ Len(around) \in Nat \ {0}
      BY <2>1, <2>2, FrontFrames
    <3>2. Last(around) = building[Len(building) - 1] /\ Len(building) - 1 \in 1..(Len(building) - 1)
      BY <1>3, <2>1, <3>1
    <3>3. QED
      BY <1>3, <3>1, <3>2 DEF Waiting, Frame
  <2> DEFINE f == Advanced(Last(around), Innermost.made)
  <2>5. /\ f \in Frame /\ f.made = Last(around).made + Innermost.made
        /\ Len(Last(around).left) = 1 => f.left = <<>>
    BY <1>3, <2>4, AdvancedType
  <2>6. building' = Append(Front(around), f) /\ Goto("build")
    BY <1>4 DEF Close
  <2> HIDE DEF around, f
  <2>7. /\ building' \in Seq(Frame) /\ Len(building') = Len(around) /\ building' # <<>>
        /\ Len(around) > 1 => building'[1] = around[1]
        /\ Len(around) = 1 => building'[1] = f
        /\ Waiting(building')
    BY <2>1, <2>2, <2>5, <2>6, ReplaceLast
  <2>8. Owned(building', live' - lost')
    <3>1. Owned(Append(Front(around), f), live - Innermost.made - Last(around).made + f.made)
      BY <2>1, <2>2, <2>3, <2>5, OwnedReplaced
    <3>2. live - Innermost.made - Last(around).made + f.made = live' - lost'
      BY <1>1, <1>3, <2>4, <2>5
    <3>3. QED
      BY <2>6, <3>1, <3>2
  <2>9. Told' /\ Phases' /\ pc' = "build" /\ answer' = None
    BY <1>1, <2>6, GoesOn
  <2>10. \/ Len(building') = 1 /\ building'[1].left = <<>>
         \/ Len(building'[1].left) = 1 /\ building'[1].made = 0
    <3>1. Len(building[1].left) = 1 /\ building[1].made = 0
      BY <1>3, <1>4
    <3>2. CASE Len(around) = 1
      <4>1. Last(around) = building[1]
        BY <2>2, <3>2 DEF Last
      <4>2. QED
        BY <2>5, <2>7, <3>1, <3>2, <4>1
    <3>3. CASE Len(around) > 1
      BY <2>2, <2>7, <3>1, <3>3
    <3>4. QED
      BY <1>3, <1>4, <2>1, <3>2, <3>3
  <2>11. Built'
    BY <2>7, <2>8, <2>9, <2>10, NoneIsNone DEF Built, FailureReleasesAll
  <2>12. QED
    BY <1>1, <2>9, <2>11, InvFrom
<1>5. CASE Len(building) <= 1
  <2>1. Return("object", None) /\ building' = building
    BY <1>3, <1>5 DEF Close
  <2>2. Told' /\ Phases' /\ pc' = "done" /\ answer' = "object"
    BY <1>1, <2>1, NoneIsNone, Returns
  <2>3. Built'
    BY <1>2, <1>3, <2>1, <2>2 DEF Built, FailureReleasesAll
  <2>4. QED
    BY <1>1, <2>2, <2>3, InvFrom
<1>6. QED
  BY <1>3, <1>4, <1>5

LEMMA UnwindStep == ASSUME Inv, Unwind PROVE Inv'
<1>1. /\ TypeOK /\ Phases /\ pc = "catch" /\ live \in Nat /\ Len(building) > 1
      /\ UNCHANGED <<callVars, values, pc, lost, thrown, error, raised, answer>>
      /\ params' = params /\ answer = None /\ lost' = lost /\ lost \in Nat
      /\ live' = live - Innermost.made /\ building' = Front(building)
  BY DEF Inv, Unwind, callVars, Phases, TypeOK
<1>2. building # <<>>
  BY <1>1, NoFrames
<1>3. /\ building \in Seq(Frame) /\ Len(building) \in Nat \ {0}
      /\ Innermost = building[Len(building)] /\ Innermost.made \in Nat
      /\ Owned(building, live - lost) /\ Waiting(building)
      /\ Len(building[1].left) = 1 /\ building[1].made = 0
  BY <1>1, <1>2, Building
<1>4. /\ building' \in Seq(Frame) /\ Len(building') = Len(building) - 1
      /\ \A k \in 1..(Len(building) - 1) : building'[k] = building[k]
  BY <1>1, <1>2, <1>3, FrontFrames
<1>5. building'[1] = building[1] /\ Waiting(building')
  BY <1>1, <1>3, <1>4 DEF Waiting
<1>6. Owned(building', live' - lost')
  <2>1. Owned(Front(building), live - lost - Last(building).made)
    BY <1>1, <1>2, <1>3, OwnedFront
  <2>2. live - lost - Last(building).made = live' - lost'
    BY <1>1, <1>3 DEF Innermost
  <2>3. QED
    BY <1>1, <2>1, <2>2
<1>7. live' \in Nat
  <2>1. live' - lost' \in Nat /\ live' \in Int
    BY <1>1, <1>3, <1>4, <1>6, OwnedIsNat
  <2>2. QED
    BY <1>1, <2>1
<1>8. Told' /\ Phases'
  <2>1. Refusing => Refusing'
    BY <1>1 DEF Refusing, RefusedObject, callVars
  <2>2. QED
    BY <1>1, <2>1 DEF TypeOK, Told, Phases, NullIffError, PythonErrorStands
<1>9. Built'
  BY <1>1, <1>3, <1>4, <1>5, <1>6, NoneIsNone DEF Built, FailureReleasesAll
<1>10. QED
  BY <1>1, <1>7, <1>8, <1>9, InvFrom

LEMMA CatchStep == ASSUME Inv, Catch PROVE Inv'
<1>1. /\ TypeOK /\ Phases /\ pc = "catch" /\ live \in Nat /\ lost \in Nat /\ Len(building) <= 1
      /\ UNCHANGED <<callVars, values, building, lost>> /\ building' = building /\ lost' = lost
      /\ entry \in Slots \cup Raw => params = <<>>
  BY DEF Inv, Catch, Phases, TypeOK, Declared
<1>2. building \in Seq(Frame) /\ Owned(building, live - lost) /\ Waiting(building)
  BY <1>1 DEF Inv, Built
<1>3. building # <<>> => Len(building[1].left) = 1 /\ building[1].made = 0
  BY <1>1, Building
<1>4. live = lost
  <2>1. live - lost = 0
    BY <1>1, <1>2, <1>3, OwnedAlone
  <2>2. QED
    BY <1>1, <2>1
<1>5. /\ thrown = "cast_error" /\ entry \in Slots \cup Raw => ~raised /\ error = None
      /\ thrown = "cast_error" => lost # 2 /\ (raised => \E i \in DOMAIN params : RefusedObject(i))
  BY <1>1 DEF Phases, Refusing, RefusedObject
<1>6. ASSUME NEW what \in {"null", "object"}, NEW x \in Errors \cup {None}, Return(what, x),
             what = "null" <=> x # None, raised => Tells(what, x),
             live' \in Nat, what = "null" => live' = live /\ (lost = 2 => x = "MemoryError")
      PROVE  Inv'
  <2>1. Told' /\ Phases' /\ pc' = "done" /\ answer' = what
    BY <1>1, <1>6, Returns
  <2>2. error' = x
    BY <1>6 DEF Return
  <2>3. FailureReleasesAll'
    BY <1>1, <1>4, <1>6, <2>1, <2>2 DEF FailureReleasesAll
  <2>4. Built'
    BY <1>1, <1>2, <1>3, <2>1, <2>3 DEF Built
  <2>5. QED
    BY <1>1, <1>6, <2>1, <2>4, InvFrom
<1>7. CASE thrown = "cast_error" /\ entry = "class_repr"
  <2>1. error = None /\ ~raised
    BY <1>5, <1>7 DEF Slots
  <2>2. CASE Return("object", error) /\ live' = live + 1
    <3>1. live' \in Nat
      BY <1>1, <2>2
    <3>2. QED
      BY <1>6, <2>1, <2>2, <3>1
  <2>3. CASE Return("null", "MemoryError") /\ UNCHANGED live
    BY <1>1, <1>6, <2>1, <2>3, NoneIsNone
  <2>4. QED
    BY <1>7, <2>2, <2>3 DEF Catch
<1>8. CASE Return("object", error) /\ UNCHANGED live /\ thrown = "cast_error" /\ entry = "class_richcompare"
  <2>1. error = None /\ ~raised
    BY <1>5, <1>8 DEF Slots
  <2>2. QED
    BY <1>1, <1>6, <1>8, <2>1
<1>9. CASE Return("null", "TypeError") /\ UNCHANGED live /\ thrown = "cast_error"
  <2>1. raised => Tells("null", "TypeError")
    BY <1>5, <1>9 DEF Tells
  <2>2. QED
    BY <1>1, <1>5, <1>6, <1>9, <2>1, NoneIsNone
<1>10. CASE /\ Return("null", CppError) /\ UNCHANGED live
            /\ thrown # "cast_error" \/ entry \in {"class_hash", "raw"}
  <2>1. /\ CppError \in Errors /\ (raised => Tells("null", CppError)) /\ CppError # None
        /\ lost = 2 => CppError = "MemoryError"
    BY <1>1, <1>5, <1>10, CppErrorStands, NoneIsNone DEF Slots, Raw
  <2>2. QED
    BY <1>1, <1>6, <1>10, <2>1
<1>11. QED
  BY <1>7, <1>8, <1>9, <1>10 DEF Catch

LEMMA InvStep == Inv /\ [Next]_vars => Inv'
<1> SUFFICES ASSUME Inv, [Next]_vars PROVE Inv'
  OBVIOUS
<1>1. CASE Next
  BY <1>1, EnterStep, ConvertStep, CallStep, MakeStep, CloseStep, UnwindStep, CatchStep DEF Next
<1>2. CASE UNCHANGED vars
  <2>1. UNCHANGED <<entry, params, args, values, pc, building, live, lost, thrown, error, raised, answer>>
    BY <1>2 DEF vars, callVars, buildVars
  <2>2. TypeOK'
    BY <2>1 DEF Inv, TypeOK
  <2>3. Declared'
    BY <2>1 DEF Inv, Declared
  <2>4. Phases'
    <3>1. Refusing' <=> Refusing
      BY <2>1 DEF Refusing, RefusedObject
    <3>2. (\E i \in DOMAIN params : RefusedObject(i)) <=> (\E i \in DOMAIN params : RefusedObject(i))'
      BY <2>1 DEF RefusedObject
    <3>3. QED
      BY <2>1, <3>1, <3>2 DEF Inv, Phases, NullIffError, PythonErrorStands
  <2>5. Built'
    BY <2>1 DEF Inv, Built, FailureReleasesAll
  <2>6. QED
    BY <2>2, <2>3, <2>4, <2>5 DEF Inv
<1>3. QED
  BY <1>1, <1>2

-----------------------------------------------------------------------------
(* The theorems.                                                           *)

(***************************************************************************)
(* In every state of a call, what its errors say, what its containers own  *)
(* and where its first frame waits agree with where the call is.           *)
(***************************************************************************)
THEOREM InvAlways == Spec => []Inv
<1>1. QED
  BY InvInit, InvStep, PTL DEF Spec

(***************************************************************************)
(* The type invariant: no count of objects goes below zero, so nothing is  *)
(* released twice, and every error is one that the bridge names.           *)
(***************************************************************************)
THEOREM TypeCorrect == Spec => []TypeOK
<1>1. Inv => TypeOK
  BY DEF Inv
<1>2. QED
  BY <1>1, InvAlways, PTL

(***************************************************************************)
(* CPython's convention (error.hpp, lines 3 to 5), at every entry point:   *)
(* null is returned exactly with a Python error set, and no C++ exception  *)
(* leaves it, whatever throws where.                                       *)
(***************************************************************************)
THEOREM ErrorsAreAnswered == Spec => []NullIffError
<1>1. Inv => NullIffError
  BY DEF Inv, Phases
<1>2. QED
  BY <1>1, InvAlways, PTL

(***************************************************************************)
(* An error that Python code raised under the call reaches its caller as   *)
(* it was raised, unless it is of an object that the caster of a parameter *)
(* other than a bool refused: no function's error, no __bool__'s, no       *)
(* text's and no result's is replaced by a catch clause.                   *)
(***************************************************************************)
THEOREM PythonErrorsStand == Spec => []PythonErrorStands
<1>1. Inv => PythonErrorStands
  BY DEF Inv, Phases
<1>2. QED
  BY <1>1, InvAlways, PTL

(***************************************************************************)
(* A call that fails owns nothing when it has returned but what            *)
(* py_type_name, without memory, or class_wrap lost: of lists in lists to  *)
(* any depth each releases what it has made, and nothing twice.            *)
(***************************************************************************)
THEOREM FailuresRelease == Spec => []FailureReleasesAll
<1>1. Inv => FailureReleasesAll
  BY DEF Inv, Built
<1>2. QED
  BY <1>1, InvAlways, PTL

-----------------------------------------------------------------------------
(* Integers.                                                               *)

\* A type of b bits is cast to without a change of what it holds.
LEMMA NarrowedIsWhole ==
  ASSUME NEW n \in Int, NEW p, p.bits \in 1..Wide, Fits(n, p)
  PROVE  Narrowed(n, p) = n
<1>1. p.bits \in Nat /\ p.bits - 1 \in Nat
  BY WideAssumption
<1>2. 2 ^ p.bits \in Int /\ 2 ^ (p.bits - 1) \in Int
  BY <1>1
<1>3. Lowest(p) \in Int
  BY <1>2 DEF Lowest
<1>4. \A l \in Int, m \in Int : n \in l..(l + m - 1) => m > 0 /\ ((n - l) % m) + l = n
  <2> SUFFICES ASSUME NEW l \in Int, NEW m \in Int, n \in l..(l + m - 1)
               PROVE  m > 0 /\ ((n - l) % m) + l = n
    OBVIOUS
  <2>1. m > 0 /\ n - l \in Nat /\ n - l < m
    OBVIOUS
  <2>2. (n - l) % m = n - l
    BY <2>1
  <2>3. QED
    BY <2>1, <2>2
<1>5. n \in Lowest(p)..(Lowest(p) + 2 ^ p.bits - 1)
  BY DEF Fits, Highest
<1>6. ((n - Lowest(p)) % (2 ^ p.bits)) + Lowest(p) = n
  BY <1>2, <1>3, <1>4, <1>5
<1>7. QED
  BY <1>6 DEF Narrowed

LEMMA WideTypes ==
  LongLong.bits \in 1..Wide /\ UnsignedLongLong.bits \in 1..Wide
  BY WideAssumption DEF LongLong, UnsignedLongLong

(***************************************************************************)
(* What CPython could not read is refused, for the error that it set; what *)
(* it read and the type holds arrives, though it be the value that CPython *)
(* returns on an error.                                                    *)
(***************************************************************************)
LEMMA IntegerArrives ==
  ASSUME NEW n \in Int, NEW p, p.bits \in 1..Wide, NEW o \in FromInteger(n, p)
  PROVE  o.value = None \/ o.value = n
<1> DEFINE through == IF ~p.signed /\ p.bits >= Wide THEN UnsignedLongLong ELSE LongLong
           failed  == IF p.signed \/ p.bits < Wide THEN -1 ELSE Highest(UnsignedLongLong)
           wide    == IF Fits(n, through) THEN n ELSE failed
           occurs  == error # None \/ ~Fits(n, through)
<1>1. o \in IF (wide = failed /\ occurs) \/ ~Fits(wide, p) THEN OutOfRange ELSE {Passed(Narrowed(wide, p))}
  BY DEF FromInteger
<1>2. ~Fits(n, through) => wide = failed /\ occurs
  OBVIOUS
<1>3. Fits(n, through) => wide = n
  OBVIOUS
<1> HIDE DEF through, failed, wide, occurs
<1>4. CASE o \in OutOfRange
  BY <1>4, Refusals DEF Refused
<1>5. CASE o \notin OutOfRange
  <2>1. o = Passed(Narrowed(wide, p)) /\ wide = n /\ Fits(n, p)
    BY <1>1, <1>2, <1>3, <1>5
  <2>2. o = Passed(n)
    BY <2>1, NarrowedIsWhole
  <2>3. QED
    BY <2>2, PassedThrowsNone
<1>6. QED
  BY <1>4, <1>5

\* The integer that is meant by an argument, the caller's or the default.
LEMMA ObjectIsMeant ==
  ASSUME Declared, NEW i \in DOMAIN args, Obj(args[i]).is = "int"
  PROVE  /\ Obj(args[i]).n \in Int
         /\ Obj(args[i]).n = IF args[i].is = "absent" THEN args[i].default.n ELSE args[i].n
<1>1. args[i] \in Args
  BY DEF Declared
<1>2. CASE args[i].is # "absent"
  <2>1. Obj(args[i]) = args[i]
    BY <1>2 DEF Obj
  <2>2. args[i].n \in Int
    BY <1>1, <2>1 DEF Args
  <2>3. QED
    BY <1>2, <2>1, <2>2
<1>3. CASE args[i].is = "absent"
  <2> DEFINE d == args[i].default
             t == IF d.signed THEN LongLong ELSE UnsignedLongLong
  <2>1. d \in Defaults /\ Obj(args[i]) = default_object(d)
    BY <1>1, <1>3 DEF Args, Obj
  <2>2. d.of = "int"
    <3>1. CASE d.of # "int"
      <4>1. Obj(args[i]) = [is |-> d.of]
        BY <2>1, <3>1 DEF default_object
      <4>2. QED
        BY <3>1, <4>1
    <3>2. QED
      BY <3>1
  <2>3. d.n \in Int
    BY <2>1, <2>2 DEF Defaults
  <2>4. Fits(d.n, t)
    BY <1>3, <2>2 DEF Declared
  <2>5. Obj(args[i]).n = Narrowed(d.n, t)
    BY <2>1, <2>2 DEF default_object
  <2>6. t.bits \in 1..Wide
    BY WideTypes
  <2> HIDE DEF d, t
  <2>7. Narrowed(d.n, t) = d.n
    BY <2>3, <2>4, <2>6, NarrowedIsWhole
  <2>8. QED
    BY <1>3, <2>3, <2>5, <2>7 DEF d
<1>4. QED
  BY <1>2, <1>3

LEMMA WholeInit == Init => IntegersArriveWhole
  BY DEF Init, IntegersArriveWhole

LEMMA WholeStep == Inv /\ IntegersArriveWhole /\ [Next]_vars => IntegersArriveWhole'
<1> SUFFICES ASSUME Inv, IntegersArriveWhole, [Next]_vars PROVE IntegersArriveWhole'
  OBVIOUS
<1>1. UNCHANGED callVars
  BY DEF Next, Enter, Convert, Call, Make, Close, Unwind, Catch, vars
<1>2. params' = params /\ args' = args
  BY <1>1 DEF callVars
<1>3. CASE UNCHANGED values
  BY <1>2, <1>3 DEF IntegersArriveWhole
<1>4. CASE Convert
  <2>1. PICK i \in DOMAIN params : \E outcome \in FromPython(params[i], Obj(args[i])) :
          values' = [values EXCEPT ![i] = outcome.value]
    BY <1>4 DEF Convert
  <2>2. PICK outcome \in FromPython(params[i], Obj(args[i])) : values' = [values EXCEPT ![i] = outcome.value]
    BY <2>1
  <2>3. /\ params \in Seq(Params) /\ args \in Seq(Args) /\ DOMAIN values = DOMAIN params
        /\ Len(args) = Len(params) /\ Declared
    BY <1>4 DEF Inv, Declared, TypeOK, Convert
  <2>4. params[i] \in Params /\ i \in DOMAIN args
    BY <2>1, <2>3
  <2>5. \A j \in DOMAIN params : values'[j] = IF j = i THEN outcome.value ELSE values[j]
    BY <2>2, <2>3 DEF Inv, Declared
  <2>6. ASSUME params[i].caster = "int"
        PROVE  \/ outcome.value = None
               \/ outcome.value = IF args[i].is = "absent" THEN args[i].default.n ELSE args[i].n
    <3>1. params[i].bits \in 1..Wide
      BY <2>4, <2>6 DEF Params
    <3>2. FromPython(params[i], Obj(args[i])) =
            IF Obj(args[i]).is = "int" THEN FromInteger(Obj(args[i]).n, params[i]) ELSE WrongType(Obj(args[i]), FALSE)
      BY <2>6 DEF FromPython
    <3>3. CASE Obj(args[i]).is = "int"
      <4>1. outcome \in FromInteger(Obj(args[i]).n, params[i])
        BY <2>2, <3>2, <3>3
      <4>2. Obj(args[i]).n \in Int
        BY <2>3, <2>4, <3>3, ObjectIsMeant
      <4>3. outcome.value = None \/ outcome.value = Obj(args[i]).n
        BY <3>1, <4>1, <4>2, IntegerArrives
      <4>4. QED
        BY <2>3, <2>4, <3>3, <4>3, ObjectIsMeant
    <3>4. CASE Obj(args[i]).is # "int"
      BY <2>2, <2>6, <3>2, <3>4, WrongTypes DEF Refused
    <3>5. QED
      BY <3>3, <3>4
  <2>7. QED
    BY <1>2, <2>5, <2>6 DEF IntegersArriveWhole
<1>5. QED
  BY <1>3, <1>4 DEF Next, Enter, Call, Make, Close, Unwind, Catch, vars

(***************************************************************************)
(* For integer types of any width up to a long long's, and any integer     *)
(* that Python passes or the module declares: the function gets that very  *)
(* integer, or is not called (convert.hpp, lines 99 to 139).               *)
(***************************************************************************)
THEOREM IntegersAreWhole == Spec => []IntegersArriveWhole
<1>1. QED
  BY WholeInit, WholeStep, InvAlways, PTL DEF Spec

=============================================================================
