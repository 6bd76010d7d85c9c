----------------------- MODULE WrappedInstanceProofs -----------------------
(***************************************************************************)
(* What the wrapped instances of class.hpp guarantee for any number of     *)
(* threads, instances and values.                                          *)
(***************************************************************************)
EXTENDS WrappedInstance, TLAPS

(***************************************************************************)
(* Typing: no step loses it.                                               *)
(***************************************************************************)
LEMMA TypedStep ==
  ASSUME TypeOK, [Next]_vars
  PROVE  TypeOK'
<1> USE NoneIsNothing DEF TypeOK, callVars, heapVars, pyVars, vars
<1>1. ASSUME NEW t \in Threads, New(t) PROVE TypeOK'
  BY <1>1 DEF New
<1>2. ASSUME NEW t \in Threads, BeginInit(t) PROVE TypeOK'
  BY <1>2 DEF BeginInit, Refuse
<1>3. ASSUME NEW t \in Threads, FailInit(t) PROVE TypeOK'
  BY <1>3 DEF FailInit, Return
<1>4. ASSUME NEW t \in Threads, Store(t) PROVE TypeOK'
  BY <1>4 DEF Store, Return, Allocate
<1>5. ASSUME NEW t \in Threads, Unwrap(t) PROVE TypeOK'
  BY <1>5 DEF Unwrap, Refuse
<1>11. ASSUME NEW t \in Threads, UnwrapArgument(t) PROVE TypeOK'
  BY <1>11 DEF UnwrapArgument, Return
<1>6. ASSUME NEW t \in Threads, Finish(t) PROVE TypeOK'
  BY <1>6 DEF Finish, Return, Allocate
<1>7. ASSUME Forget PROVE TypeOK'
  BY <1>7 DEF Forget
<1>8. ASSUME NEW o \in Objects, Dealloc(o) PROVE TypeOK'
  BY <1>8 DEF Dealloc
<1>9. CASE UNCHANGED vars
  BY <1>9
<1>10. QED
  BY <1>1, <1>2, <1>3, <1>4, <1>5, <1>6, <1>7, <1>8, <1>9, <1>11 DEF Next

(***************************************************************************)
(* THEOREM: the variables keep their types (class.hpp's held is null or a  *)
(* T, a call uses T's only).                                               *)
(***************************************************************************)
THEOREM InstanceTypes == Spec => []TypeOK
<1>1. Init => TypeOK
  BY DEF Init, Null, TypeOK
<1>2. QED
  BY <1>1, TypedStep, PTL DEF Spec

-----------------------------------------------------------------------------
(* Ownership and use.  A T is deleted with its owner, when nothing refers  *)
(* to the owner.  So that no T in use is deleted, a call that uses a T     *)
(* must refer to its owner, if it still has one: Store may take the owner  *)
(* another T, and then nobody deletes the first.                           *)

ReferencedIsAlive ==
  /\ \A o \in named : object[o] = "alive"
  /\ \A t \in Threads : \A o \in on[t] : object[o] = "alive"
  /\ \A w \in views : object[w[1]] = "alive"

UsersReferToTheOwner ==
  \A t \in Threads : \A w \in using[t] :
    w[1] \in on[t] /\ value[w[2]] = "live" /\ \A o \in Objects : held[o] = w[2] => o = w[1]

ViewsReferToTheOwner ==
  \A w \in views : value[w[2]] = "live" /\ \A o \in Objects : held[o] = w[2] => o = w[1]

\* Only a method uses T's: __init__ takes another instance's references.
OnlyMethodsUse == \A t \in Threads : pc[t] # "use" => using[t] = {}

Ownership ==
  /\ OneOwner /\ ReferencedIsAlive
  /\ UsersReferToTheOwner /\ ViewsReferToTheOwner /\ OnlyMethodsUse

\* A T that another call has just allocated is used and viewed by nobody.
LEMMA OwnershipOfNew ==
  ASSUME TypeOK, Ownership, NEW t \in Threads, NEW q \in Objects, NEW v \in Values,
         object[q] = "absent", object' = [object EXCEPT ![q] = "alive"],
         Allocate(v), held' = [held EXCEPT ![q] = v],
         named' = named \cup {q}, Return(t, "done"), UNCHANGED views
  PROVE  Ownership'
<1> USE NoneIsNothing DEF TypeOK, Ownership, Return, Allocate
<1>1. OneOwner'
  BY DEF OneOwner
<1>2. ReferencedIsAlive'
  BY DEF ReferencedIsAlive
<1>3. UsersReferToTheOwner'
  BY DEF UsersReferToTheOwner
<1>4. ViewsReferToTheOwner'
  BY DEF ViewsReferToTheOwner
<1>5. OnlyMethodsUse'
  BY DEF OnlyMethodsUse
<1>6. QED
  BY <1>1, <1>2, <1>3, <1>4, <1>5

LEMMA OwnershipOfStore ==
  ASSUME TypeOK, Ownership, NEW t \in Threads, Store(t)
  PROVE  Ownership'
<1> USE NoneIsNothing DEF TypeOK, Ownership, heapVars, pyVars
<1>1. PICK v \in Values, o \in on[t] : Allocate(v) /\ held' = [held EXCEPT ![o] = v]
  BY DEF Store
<1>2. /\ UNCHANGED <<object, pyVars, overlapped>> /\ Return(t, "done")
      /\ o \in Objects /\ value[v] = "absent" /\ value' = [value EXCEPT ![v] = "live"]
  BY <1>1 DEF Store, Allocate
<1> USE DEF Return
<1>3. \A p \in Objects : held[p] # v
  BY <1>2 DEF OneOwner
<1>4. OneOwner'
  BY <1>1, <1>2, <1>3 DEF OneOwner, ReferencedIsAlive
<1>5. ReferencedIsAlive'
  BY <1>2 DEF ReferencedIsAlive
<1>6. UsersReferToTheOwner'
  BY <1>1, <1>2 DEF UsersReferToTheOwner
<1>7. ViewsReferToTheOwner'
  BY <1>1, <1>2 DEF ViewsReferToTheOwner
<1>8. OnlyMethodsUse'
  BY <1>2 DEF OnlyMethodsUse
<1>9. QED
  BY <1>4, <1>5, <1>6, <1>7, <1>8

LEMMA OwnershipOfUnwrap ==
  ASSUME TypeOK, Ownership, NEW t \in Threads, Unwrap(t)
  PROVE  Ownership'
<1> USE NoneIsNothing DEF TypeOK, Ownership, heapVars, pyVars
<1>1. CASE Refuse(t)
  BY <1>1 DEF Unwrap, Refuse, OneOwner, ReferencedIsAlive, UsersReferToTheOwner,
              ViewsReferToTheOwner, OnlyMethodsUse
<1>2. CASE ~Refuse(t)
  <2>1. PICK o \in named, p \in named :
          /\ held[o] # None
          /\ on' = [on EXCEPT ![t] = {o, p}]
          /\ using' = [using EXCEPT ![t] = {<<o, held[o]>>}]
          /\ pc' = [pc EXCEPT ![t] = "use"]
    BY <1>2 DEF Unwrap
  <2>2. UNCHANGED <<object, held, value, named, views>> /\ o \in Objects /\ p \in Objects
    BY DEF Unwrap
  <2>3. OneOwner' /\ ViewsReferToTheOwner'
    BY <2>2 DEF OneOwner, ViewsReferToTheOwner
  <2>4. ReferencedIsAlive'
    BY <2>1, <2>2 DEF ReferencedIsAlive
  <2>5. UsersReferToTheOwner'
    <3> SUFFICES ASSUME NEW u \in Threads, NEW w \in using'[u]
                 PROVE  /\ w[1] \in on'[u] /\ value[w[2]] = "live"
                        /\ \A q \in Objects : held[q] = w[2] => q = w[1]
      BY <2>2 DEF UsersReferToTheOwner
    <3>1. CASE u = t
      BY <3>1, <2>1, <2>2 DEF OneOwner
    <3>2. CASE u # t
      BY <3>2, <2>1 DEF UsersReferToTheOwner
    <3>3. QED
      BY <3>1, <3>2
  <2>6. OnlyMethodsUse'
    BY <2>1 DEF OnlyMethodsUse
  <2>7. QED
    BY <2>3, <2>4, <2>5, <2>6
<1>3. QED
  BY <1>1, <1>2

LEMMA OwnershipOfArgument ==
  ASSUME TypeOK, Ownership, NEW t \in Threads, UnwrapArgument(t)
  PROVE  Ownership'
<1> USE NoneIsNothing DEF TypeOK, Ownership, heapVars, pyVars
<1>1. PICK p \in on[t] : \/ Return(t, "refused")
                        \/ /\ held[p] # None
                           /\ using' = [using EXCEPT ![t] = @ \cup {<<p, held[p]>>}]
                           /\ UNCHANGED <<pc, on, answer>>
  BY DEF UnwrapArgument
<1>2. UNCHANGED <<object, held, value, named, views>> /\ p \in Objects /\ pc[t] = "use"
  BY DEF UnwrapArgument
<1>3. OneOwner' /\ ViewsReferToTheOwner'
  BY <1>2 DEF OneOwner, ViewsReferToTheOwner
<1>4. CASE Return(t, "refused")
  BY <1>2, <1>3, <1>4 DEF Return, ReferencedIsAlive, UsersReferToTheOwner, OnlyMethodsUse
<1>5. CASE ~Return(t, "refused")
  <2>1. ReferencedIsAlive' /\ OnlyMethodsUse'
    BY <1>1, <1>2, <1>5 DEF ReferencedIsAlive, OnlyMethodsUse
  <2>2. UsersReferToTheOwner'
    <3> SUFFICES ASSUME NEW u \in Threads, NEW w \in using'[u]
                 PROVE  /\ w[1] \in on[u] /\ value[w[2]] = "live"
                        /\ \A q \in Objects : held[q] = w[2] => q = w[1]
      BY <1>1, <1>2, <1>5 DEF UsersReferToTheOwner
    <3>1. CASE w \in using[u]
      BY <3>1 DEF UsersReferToTheOwner
    <3>2. CASE w \notin using[u]
      <4>1. u = t /\ w = <<p, held[p]>> /\ held[p] # None
        BY <1>1, <1>5, <3>2
      <4>2. QED
        BY <1>2, <4>1 DEF OneOwner
    <3>3. QED
      BY <3>1, <3>2
  <2>3. QED
    BY <1>3, <2>1, <2>2
<1>6. QED
  BY <1>4, <1>5

LEMMA OwnershipOfFinish ==
  ASSUME TypeOK, Ownership, NEW t \in Threads, Finish(t)
  PROVE  Ownership'
<1> USE NoneIsNothing DEF TypeOK, Ownership, heapVars, pyVars
<1> DEFINE Plain == \E what \in {"done", "refused"} : Return(t, what) /\ UNCHANGED <<heapVars, pyVars>>
           View == \E w \in using[t] :
                     /\ views' = views \cup {w}
                     /\ Return(t, "done") /\ UNCHANGED <<heapVars, named>>
           Copy == \E q \in Objects, v \in Values :
                     /\ object[q] = "absent"
                     /\ object' = [object EXCEPT ![q] = "alive"]
                     /\ Allocate(v) /\ held' = [held EXCEPT ![q] = v]
                     /\ named' = named \cup {q}
                     /\ Return(t, "done") /\ UNCHANGED views
           NoMemory == \E q \in Objects :
                     /\ object[q] = "absent"
                     /\ object' = [object EXCEPT ![q] = "freed"]
                     /\ Return(t, "refused") /\ UNCHANGED <<held, value, pyVars>>
<1>1. CASE Plain
  BY <1>1 DEF Return, OneOwner, ReferencedIsAlive, UsersReferToTheOwner,
              ViewsReferToTheOwner, OnlyMethodsUse
<1>2. CASE View
  <2>1. PICK w \in using[t] : views' = views \cup {w}
    BY <1>2
  <2>2. /\ UNCHANGED <<object, held, value, named>> /\ Return(t, "done")
        /\ w \in Objects \X Values
    BY <1>2
  <2>3. w[1] \in on[t] /\ value[w[2]] = "live" /\ \A o \in Objects : held[o] = w[2] => o = w[1]
    BY DEF UsersReferToTheOwner
  <2> USE DEF Return
  <2>4. OneOwner'
    BY <2>2 DEF OneOwner
  <2>5. ReferencedIsAlive'
    BY <2>1, <2>2, <2>3 DEF ReferencedIsAlive
  <2>6. UsersReferToTheOwner'
    BY <2>2 DEF UsersReferToTheOwner
  <2>7. ViewsReferToTheOwner'
    BY <2>1, <2>2, <2>3 DEF ViewsReferToTheOwner
  <2>8. OnlyMethodsUse'
    BY <2>2 DEF OnlyMethodsUse
  <2>9. QED
    BY <2>4, <2>5, <2>6, <2>7, <2>8
<1>3. CASE Copy
  BY <1>3, OwnershipOfNew
<1>4. CASE NoMemory
  BY <1>4 DEF Return, OneOwner, ReferencedIsAlive, UsersReferToTheOwner,
              ViewsReferToTheOwner, OnlyMethodsUse
<1>5. QED
  BY <1>1, <1>2, <1>3, <1>4 DEF Finish

LEMMA OwnershipOfDealloc ==
  ASSUME TypeOK, Ownership, NEW o \in Objects, Dealloc(o)
  PROVE  Ownership'
<1> USE NoneIsNothing DEF TypeOK, Ownership, callVars, pyVars
<1>1. /\ UNCHANGED <<on, using, named, views>>
      /\ object' = [object EXCEPT ![o] = "freed"] /\ held' = [held EXCEPT ![o] = None]
      /\ value' = [v \in Values |-> IF v = held[o] THEN "deleted" ELSE value[v]]
      /\ ~Referenced(o)
  BY DEF Dealloc
<1>2. OneOwner'
  BY <1>1 DEF OneOwner
<1>3. ReferencedIsAlive'
  BY <1>1 DEF ReferencedIsAlive, Referenced
<1>4. UsersReferToTheOwner'
  BY <1>1 DEF UsersReferToTheOwner, Referenced
<1>5. ViewsReferToTheOwner'
  BY <1>1 DEF ViewsReferToTheOwner, Referenced
<1>6. OnlyMethodsUse'
  BY <1>1 DEF OnlyMethodsUse, Dealloc
<1>7. QED
  BY <1>2, <1>3, <1>4, <1>5, <1>6

LEMMA OwnershipStep ==
  ASSUME TypeOK, Ownership, [Next]_vars
  PROVE  Ownership'
<1> USE NoneIsNothing DEF TypeOK, callVars, heapVars, pyVars, vars,
        Ownership, OneOwner, ReferencedIsAlive, UsersReferToTheOwner, ViewsReferToTheOwner,
        OnlyMethodsUse
<1>1. ASSUME NEW t \in Threads, New(t) PROVE Ownership'
  BY <1>1 DEF New
<1>2. ASSUME NEW t \in Threads, BeginInit(t) PROVE Ownership'
  <2>1. CASE Refuse(t)
    BY <1>2, <2>1 DEF BeginInit, Refuse
  <2>2. CASE ~Refuse(t)
    <3>1. PICK o \in named : /\ pc' = [pc EXCEPT ![t] = "init"]
                             /\ on' = [on EXCEPT ![t] = {o}]
                             /\ UNCHANGED using
      BY <1>2, <2>2 DEF BeginInit
    <3>2. using[t] = {} /\ UNCHANGED <<object, held, value, named, views>>
      BY <1>2 DEF BeginInit
    <3>3. OneOwner' /\ ReferencedIsAlive' /\ ViewsReferToTheOwner' /\ OnlyMethodsUse'
      BY <3>1, <3>2
    <3>4. UsersReferToTheOwner'
      BY <3>1, <3>2
    <3>5. QED
      BY <3>3, <3>4
  <2>3. QED
    BY <2>1, <2>2
<1>3. ASSUME NEW t \in Threads, FailInit(t) PROVE Ownership'
  BY <1>3 DEF FailInit, Return
<1>4. ASSUME Forget PROVE Ownership'
  BY <1>4 DEF Forget
<1>5. CASE UNCHANGED vars
  BY <1>5
<1>6. QED
  BY <1>1, <1>2, <1>3, <1>4, <1>5, OwnershipOfStore, OwnershipOfUnwrap, OwnershipOfArgument,
     OwnershipOfFinish, OwnershipOfDealloc DEF Next

LEMMA InstanceInvariant == Spec => [](TypeOK /\ Ownership)
<1>1. Init => TypeOK /\ Ownership
  BY DEF Init, Null, TypeOK, Ownership, OneOwner, ReferencedIsAlive, UsersReferToTheOwner,
         ViewsReferToTheOwner, OnlyMethodsUse
<1>2. QED
  BY <1>1, TypedStep, OwnershipStep, PTL DEF Spec

(***************************************************************************)
(* THEOREM: however calls interleave, no T is deleted twice or shared by   *)
(* two instances (class_wrap copies, tp_dealloc deletes what it holds).    *)
(***************************************************************************)
THEOREM EveryValueHasOneOwner == Spec => []OneOwner
<1>1. Ownership => OneOwner
  BY DEF Ownership
<1>2. QED
  BY <1>1, InstanceInvariant, PTL

(***************************************************************************)
(* THEOREM: however calls interleave, no T is deleted under a method that  *)
(* runs on it nor under a view of it, although neither holds the T itself  *)
(* but only the instance it came from (class_unwrap, class_dealloc).       *)
(***************************************************************************)
THEOREM NothingDeletedInUse == Spec => []NothingInUseIsDeleted
<1>1. Ownership => NothingInUseIsDeleted
  BY DEF Ownership, UsersReferToTheOwner, ViewsReferToTheOwner, NothingInUseIsDeleted
<1>2. QED
  BY <1>1, InstanceInvariant, PTL

-----------------------------------------------------------------------------
(* Leaks.  Only Store can lose a T, by overwriting the pointer to it: not  *)
(* while no two __init__ were ever under way on one instance, because an   *)
(* __init__ that is alone on its instance still finds there the null that  *)
(* it checked.                                                             *)

LoneInitFindsNull ==
  overlapped = {} =>
    \A t \in Threads : pc[t] = "init" => \A o \in on[t] :
      held[o] = None /\ \A u \in Threads : pc[u] = "init" /\ o \in on[u] => u = t

LEMMA LoneInitStep ==
  ASSUME TypeOK, Ownership, LoneInitFindsNull, [Next]_vars
  PROVE  LoneInitFindsNull'
<1> USE NoneIsNothing DEF TypeOK, callVars, heapVars, pyVars, vars, LoneInitFindsNull
<1>1. ASSUME NEW t \in Threads, New(t) PROVE LoneInitFindsNull'
  BY <1>1 DEF New
<1>2. ASSUME NEW t \in Threads, BeginInit(t) PROVE LoneInitFindsNull'
  <2>1. CASE Refuse(t) /\ UNCHANGED overlapped
    BY <1>2, <2>1 DEF BeginInit, Refuse
  <2>2. CASE \E o \in named : /\ held[o] = None
                              /\ pc' = [pc EXCEPT ![t] = "init"]
                              /\ on' = [on EXCEPT ![t] = {o}]
                              /\ overlapped' = IF \E u \in Threads : pc[u] = "init" /\ o \in on[u]
                                               THEN overlapped \cup {o} ELSE overlapped
    BY <1>2, <2>2 DEF BeginInit
  <2>3. QED
    BY <1>2, <2>1, <2>2 DEF BeginInit
<1>3. ASSUME NEW t \in Threads, FailInit(t) PROVE LoneInitFindsNull'
  BY <1>3 DEF FailInit, Return
<1>4. ASSUME NEW t \in Threads, Store(t) PROVE LoneInitFindsNull'
  BY <1>4 DEF Store, Return
<1>5. ASSUME NEW t \in Threads, Unwrap(t) PROVE LoneInitFindsNull'
  BY <1>5 DEF Unwrap, Refuse
<1>11. ASSUME NEW t \in Threads, UnwrapArgument(t) PROVE LoneInitFindsNull'
  BY <1>11 DEF UnwrapArgument, Return
<1>6. ASSUME NEW t \in Threads, Finish(t) PROVE LoneInitFindsNull'
  \* A new instance is none that an __init__ refers to.
  <2>1. \A u \in Threads : \A o \in on[u] : object[o] = "alive"
    BY DEF Ownership, ReferencedIsAlive
  <2>2. QED
    BY <1>6, <2>1 DEF Finish, Return
<1>7. ASSUME Forget PROVE LoneInitFindsNull'
  BY <1>7 DEF Forget
<1>8. ASSUME NEW o \in Objects, Dealloc(o) PROVE LoneInitFindsNull'
  BY <1>8 DEF Dealloc
<1>9. CASE UNCHANGED vars
  BY <1>9
<1>10. QED
  BY <1>1, <1>2, <1>3, <1>4, <1>5, <1>6, <1>7, <1>8, <1>9, <1>11 DEF Next

LEMMA LeakStep ==
  ASSUME TypeOK, Ownership, LoneInitFindsNull, LeakNeedsAnOverlap, [Next]_vars
  PROVE  LeakNeedsAnOverlap'
<1> USE NoneIsNothing DEF TypeOK, callVars, heapVars, pyVars, vars, LeakNeedsAnOverlap
<1>1. ASSUME NEW t \in Threads, New(t) PROVE LeakNeedsAnOverlap'
  BY <1>1 DEF New
<1>2. ASSUME NEW t \in Threads, BeginInit(t) PROVE LeakNeedsAnOverlap'
  <2>1. overlapped' = {} => overlapped = {}
    BY <1>2 DEF BeginInit
  <2>2. QED
    BY <1>2, <2>1 DEF BeginInit
<1>3. ASSUME NEW t \in Threads, FailInit(t) PROVE LeakNeedsAnOverlap'
  BY <1>3 DEF FailInit
<1>4. ASSUME NEW t \in Threads, Store(t) PROVE LeakNeedsAnOverlap'
  <2> SUFFICES ASSUME overlapped = {}, NEW w \in Values, value'[w] = "live"
               PROVE  \E p \in Objects : held'[p] = w
    BY <1>4 DEF Store
  <2>1. PICK v \in Values, o \in on[t] : /\ value' = [value EXCEPT ![v] = "live"]
                                         /\ held' = [held EXCEPT ![o] = v]
    BY <1>4 DEF Store, Allocate
  <2>2. o \in Objects /\ held[o] = None
    BY <1>4, <2>1 DEF Store, LoneInitFindsNull
  <2>3. CASE w = v
    BY <2>1, <2>2, <2>3
  <2>4. CASE w # v
    BY <2>1, <2>2, <2>4
  <2>5. QED
    BY <2>3, <2>4
<1>5. ASSUME NEW t \in Threads, Unwrap(t) PROVE LeakNeedsAnOverlap'
  BY <1>5 DEF Unwrap
<1>11. ASSUME NEW t \in Threads, UnwrapArgument(t) PROVE LeakNeedsAnOverlap'
  BY <1>11 DEF UnwrapArgument
<1>6. ASSUME NEW t \in Threads, Finish(t) PROVE LeakNeedsAnOverlap'
  <2>1. CASE UNCHANGED <<held, value>>
    BY <1>6, <2>1 DEF Finish
  <2>2. CASE \E q \in Objects, v \in Values :
               object[q] = "absent" /\ Allocate(v) /\ held' = [held EXCEPT ![q] = v]
    <3>1. PICK q \in Objects, v \in Values :
            /\ object[q] = "absent" /\ value' = [value EXCEPT ![v] = "live"]
            /\ held' = [held EXCEPT ![q] = v]
      BY <2>2 DEF Allocate
    <3>2. held[q] = None /\ overlapped' = overlapped
      BY <1>6, <3>1 DEF Finish, Ownership, OneOwner
    <3>3. QED
      BY <3>1, <3>2
  <2>3. QED
    BY <1>6, <2>1, <2>2 DEF Finish
<1>7. ASSUME Forget PROVE LeakNeedsAnOverlap'
  BY <1>7 DEF Forget
<1>8. ASSUME NEW o \in Objects, Dealloc(o) PROVE LeakNeedsAnOverlap'
  BY <1>8 DEF Dealloc
<1>9. CASE UNCHANGED vars
  BY <1>9
<1>10. QED
  BY <1>1, <1>2, <1>3, <1>4, <1>5, <1>6, <1>7, <1>8, <1>9, <1>11 DEF Next

(***************************************************************************)
(* THEOREM: failures, refusals, copies without memory and deallocations    *)
(* leak no T: what leaks one is two __init__ under way on one instance     *)
(* (class_init checks held before its factory and stores after it).        *)
(***************************************************************************)
THEOREM OnlyOverlappingInitsLeak == Spec => []LeakNeedsAnOverlap
<1>1. Init => LoneInitFindsNull /\ LeakNeedsAnOverlap
  BY DEF Init, LoneInitFindsNull, LeakNeedsAnOverlap
<1>2. TypeOK /\ Ownership /\ LoneInitFindsNull /\ LeakNeedsAnOverlap /\ [Next]_vars
        => LoneInitFindsNull' /\ LeakNeedsAnOverlap'
  BY LoneInitStep, LeakStep
<1>3. QED
  BY <1>1, <1>2, InstanceInvariant, PTL DEF Spec

-----------------------------------------------------------------------------
(* Refinement.  Each step gives, ends or lends as UniqueOwner does, or     *)
(* changes nothing that it sees.  A step that leaves held and value alone  *)
(* lends what some instance holds, or lets go.                             *)

Has == {w \in Objects \X Values : held[w[1]] = w[2]}
Made == {v \in Values : value[v] # "absent"}
Ended == {v \in Values : value[v] = "deleted"}
Borrowed == {v \in Values : \/ \E t \in Threads : \E w \in using[t] : v = w[2]
                           \/ \E w \in views : v = w[2]}

Step == [Owner!Next]_(Owner!vars)

LEMMA LendingRefines ==
  ASSUME UNCHANGED <<held, value>>, Borrowed' \subseteq Borrowed \cup {w[2] : w \in Has}
  PROVE  Step
<1>1. Owner!Lend
  BY DEF Owner!Lend, Owner!Had, Has, Borrowed
<1>2. QED
  BY <1>1 DEF Step, Owner!Next

LEMMA GivingRefines ==
  ASSUME TypeOK, NEW o \in Objects, NEW v \in Values,
         Allocate(v), held' = [held EXCEPT ![o] = v], Borrowed' \subseteq Borrowed
  PROVE  Step
<1> USE DEF TypeOK, Allocate
<1>1. v \notin Made /\ Made' = Made \cup {v} /\ Ended' = Ended
  BY DEF Made, Ended
<1>2. Has' = (Has \ {w \in Has : w[1] = o}) \cup {<<o, v>>}
  BY DEF Has
<1>3. Owner!Give(o, v)
  BY <1>1, <1>2 DEF Owner!Give, Owner!Of, Has, Made, Ended, Borrowed
<1>4. QED
  BY <1>3 DEF Step, Owner!Next

LEMMA DeallocRefines ==
  ASSUME TypeOK, Ownership, Ownership', NEW o \in Objects, Dealloc(o)
  PROVE  Step
<1> USE NoneIsNothing DEF TypeOK, callVars, pyVars
<1>1. /\ UNCHANGED <<using, views>> /\ held' = [held EXCEPT ![o] = None]
      /\ value' = [v \in Values |-> IF v = held[o] THEN "deleted" ELSE value[v]]
  BY DEF Dealloc
<1>2. UNCHANGED Borrowed
  BY <1>1 DEF Borrowed
<1>3. CASE held[o] = None
  <2>1. held' = held /\ value' = value
    BY <1>1, <1>3
  <2>2. QED
    BY <1>2, <2>1, LendingRefines
<1>4. CASE held[o] # None
  <2>1. PICK v \in Values : v = held[o] /\ value[v] = "live"
    BY <1>4 DEF Ownership, OneOwner
  <2>2. <<o, v>> \in Has /\ Has' = Has \ {<<o, v>>}
    BY <1>1, <2>1 DEF Has
  <2>3. Made' = Made /\ v \notin Ended /\ Ended' = Ended \cup {v}
    BY <1>1, <2>1 DEF Made, Ended
  <2>4. v \notin Borrowed
    <3>1. value'[v] = "deleted"
      BY <1>1, <2>1
    <3>2. \A t \in Threads : \A w \in using[t] : w[2] # v
      BY <1>1, <3>1 DEF Ownership, UsersReferToTheOwner
    <3>3. \A w \in views : w[2] # v
      BY <1>1, <3>1 DEF Ownership, ViewsReferToTheOwner
    <3>4. QED
      BY <3>2, <3>3 DEF Borrowed
  <2>5. Owner!End(o, v)
    BY <1>2, <2>2, <2>3, <2>4 DEF Owner!End, Has, Made, Ended, Borrowed
  <2>6. QED
    BY <2>5 DEF Step, Owner!Next
<1>5. QED
  BY <1>3, <1>4

LEMMA UnwrapRefines ==
  ASSUME TypeOK, NEW t \in Threads, Unwrap(t)
  PROVE  Step
<1> USE NoneIsNothing DEF TypeOK, heapVars, pyVars
<1>1. UNCHANGED <<held, value, views>>
  BY DEF Unwrap
<1>2. CASE Refuse(t)
  BY <1>1, <1>2, LendingRefines DEF Refuse, Borrowed
<1>3. CASE ~Refuse(t)
  <2>1. PICK o \in named : held[o] # None /\ using' = [using EXCEPT ![t] = {<<o, held[o]>>}]
    BY <1>3 DEF Unwrap
  <2>2. <<o, held[o]>> \in Has
    BY <2>1 DEF Has
  <2>3. Borrowed' \subseteq Borrowed \cup {held[o]}
    BY <1>1, <2>1 DEF Borrowed
  <2>4. QED
    BY <1>1, <2>2, <2>3, LendingRefines
<1>4. QED
  BY <1>2, <1>3

LEMMA ArgumentRefines ==
  ASSUME TypeOK, NEW t \in Threads, UnwrapArgument(t)
  PROVE  Step
<1> USE NoneIsNothing DEF TypeOK, heapVars, pyVars
<1>1. UNCHANGED <<held, value, views>>
  BY DEF UnwrapArgument
<1>2. CASE Return(t, "refused")
  BY <1>1, <1>2, LendingRefines DEF Return, Borrowed
<1>3. CASE ~Return(t, "refused")
  <2>1. PICK p \in on[t] : held[p] # None /\ using' = [using EXCEPT ![t] = @ \cup {<<p, held[p]>>}]
    BY <1>3 DEF UnwrapArgument
  <2>2. <<p, held[p]>> \in Has
    BY <2>1 DEF Has
  <2>3. Borrowed' \subseteq Borrowed \cup {held[p]}
    BY <1>1, <2>1 DEF Borrowed
  <2>4. QED
    BY <1>1, <2>2, <2>3, LendingRefines
<1>4. QED
  BY <1>2, <1>3

LEMMA FinishRefines ==
  ASSUME TypeOK, NEW t \in Threads, Finish(t)
  PROVE  Step
<1> USE DEF TypeOK, heapVars, pyVars
<1>1. using' = [using EXCEPT ![t] = {}]
  BY DEF Finish, Return
<1>2. views' \subseteq views \cup using[t]
  BY DEF Finish
<1>3. Borrowed' \subseteq Borrowed
  BY <1>1, <1>2 DEF Borrowed
<1>4. CASE UNCHANGED <<held, value>>
  BY <1>3, <1>4, LendingRefines
<1>5. CASE \E q \in Objects, v \in Values : Allocate(v) /\ held' = [held EXCEPT ![q] = v]
  BY <1>3, <1>5, GivingRefines
<1>6. QED
  BY <1>4, <1>5 DEF Finish

LEMMA StepRefines ==
  ASSUME TypeOK, Ownership, Ownership', [Next]_vars
  PROVE  Step
<1> USE DEF TypeOK, callVars, heapVars, pyVars, vars
<1>1. ASSUME NEW t \in Threads, New(t) PROVE Step
  BY <1>1, LendingRefines DEF New, Borrowed
<1>2. ASSUME NEW t \in Threads, BeginInit(t) PROVE Step
  BY <1>2, LendingRefines DEF BeginInit, Refuse, Borrowed
<1>3. ASSUME NEW t \in Threads, FailInit(t) PROVE Step
  BY <1>3, LendingRefines DEF FailInit, Return, Borrowed
<1>4. ASSUME NEW t \in Threads, Store(t) PROVE Step
  <2>1. Borrowed' \subseteq Borrowed
    BY <1>4 DEF Store, Return, Borrowed
  <2>2. QED
    BY <1>4, <2>1, GivingRefines DEF Store
<1>5. ASSUME Forget PROVE Step
  BY <1>5, LendingRefines DEF Forget, Borrowed
<1>6. CASE UNCHANGED vars
  BY <1>6, LendingRefines DEF Borrowed
<1>7. QED
  BY <1>1, <1>2, <1>3, <1>4, <1>5, <1>6, UnwrapRefines, ArgumentRefines, FinishRefines,
     DeallocRefines DEF Next

(***************************************************************************)
(* THEOREM: the instances implement unique ownership, overlapping __init__ *)
(* included (class_init, class_wrap, class_dealloc): each T is given to    *)
(* one instance, lent only by it, and deleted once and by it alone.        *)
(***************************************************************************)
THEOREM InstancesOwnUniquely == Spec => HeldIsUnique
<1>1. Init => Owner!Init
  BY NoneIsNothing DEF Init, Null, Owner!Init
<1>2. QED
  BY <1>1, StepRefines, InstanceInvariant, PTL DEF Spec, HeldIsUnique, Owner!Spec, Step
=============================================================================
