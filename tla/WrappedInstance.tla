-------------------------- MODULE WrappedInstance --------------------------
(***************************************************************************)
(* binding/class.hpp: the instances of a wrapped C++ type.  An instance    *)
(* holds a pointer to a heap-allocated T; __init__ stores it, methods,     *)
(* properties and the slots read it, tp_dealloc deletes it.                *)
(*                                                                         *)
(* A call runs with the GIL but gives it up inside: a caster runs Python   *)
(* code (__bool__ of an argument), a factory or a method calls back, or    *)
(* gil_release (gil.hpp) drops it; and on a free-threaded CPython, where   *)
(* the module says that it needs no GIL (module.hpp), there is none.  So   *)
(* other calls may come between any two steps of one.                      *)
(***************************************************************************)
CONSTANTS
  Threads,      \* calls in progress, in threads or nested in one
  Objects,      \* the Python instances, each allocated once
  Values,       \* the heap-allocated T's, each allocated once
  None          \* a null pointer

ASSUME NoneIsNothing == None \notin Values

VARIABLES
  pc,       \* pc[t]: "init" between the check of __init__ and its store, "use" in a method
  on,       \* on[t]: the instances that t's call holds a reference to
  using,    \* using[t]: <<o, v>>: the T's that t's call has unwrapped, and of which instances
  answer,   \* answer[t]: how t's last call ended
  object,   \* object[o]: whether the instance exists
  held,     \* held[o]: wrapper<T>::held
  value,    \* value[v]: whether the T exists
  named,    \* the instances that some Python variable refers to
  views,    \* <<o, v>>: a view of v's data in place, which keeps o alive
  overlapped \* history: instances on which two __init__ were under way at once

callVars  == <<pc, on, using, answer>>
heapVars  == <<object, held, value>>
pyVars    == <<named, views>>
vars      == <<callVars, heapVars, pyVars, overlapped>>

Null == [t \in Threads |-> {}]

Init ==
  /\ pc = [t \in Threads |-> "idle"]
  /\ on = Null /\ using = Null
  /\ answer = [t \in Threads |-> "none"]
  /\ object = [o \in Objects |-> "absent"]
  /\ held = [o \in Objects |-> None]
  /\ value = [v \in Values |-> "absent"]
  /\ named = {} /\ views = {} /\ overlapped = {}

\* The call is over and lets go of its references.
Return(t, what) ==
  /\ pc' = [pc EXCEPT ![t] = "idle"]
  /\ on' = [on EXCEPT ![t] = {}]
  /\ using' = [using EXCEPT ![t] = {}]
  /\ answer' = [answer EXCEPT ![t] = what]

Refuse(t) ==
  /\ answer' = [answer EXCEPT ![t] = "refused"]
  /\ UNCHANGED <<pc, on, using>>

Allocate(v) == value[v] = "absent" /\ value' = [value EXCEPT ![v] = "live"]

\* tp_new: PyType_GenericNew, the pointer null.
New(t) ==
  /\ pc[t] = "idle"
  /\ \E o \in Objects :
       /\ object[o] = "absent"
       /\ object' = [object EXCEPT ![o] = "alive"]
       /\ named' = named \cup {o}
  /\ UNCHANGED <<callVars, held, value, views, overlapped>>

(***************************************************************************)
(* class_init up to its factory: refused on an instance that holds a T.    *)
(* Otherwise the arguments are parsed, converted and given to the factory. *)
(***************************************************************************)
InitAgain(t) ==
  /\ pc[t] = "idle"
  /\ \E o \in named :
       /\ pc' = [pc EXCEPT ![t] = "init"]
       /\ on' = [on EXCEPT ![t] = {o}]
       /\ UNCHANGED <<using, answer, overlapped>>
  /\ UNCHANGED <<heapVars, pyVars>>

BeginInit(t) ==
  /\ pc[t] = "idle"
  /\ \E o \in named :
       \/ /\ held[o] # None
          /\ Refuse(t) /\ UNCHANGED overlapped
       \/ /\ held[o] = None
          /\ pc' = [pc EXCEPT ![t] = "init"]
          /\ on' = [on EXCEPT ![t] = {o}]
          /\ overlapped' = IF \E u \in Threads : pc[u] = "init" /\ o \in on[u]
                           THEN overlapped \cup {o} ELSE overlapped
          /\ UNCHANGED <<using, answer>>
  /\ UNCHANGED <<heapVars, pyVars>>

(***************************************************************************)
(* A missing or bad argument, a default that was never allocated, a        *)
(* factory that throws, no memory for the T: the instance is as it was.    *)
(***************************************************************************)
FailInit(t) ==
  /\ pc[t] = "init"
  /\ Return(t, "refused")
  /\ UNCHANGED <<heapVars, pyVars, overlapped>>

\* held = new T(...), whatever the pointer is by now.
StoreReplacing(t) ==
  /\ pc[t] = "init"
  /\ \E v \in Values, o \in on[t] :
       /\ value[v] = "absent"
       /\ value' = [w \in Values |-> IF w = v THEN "live"
                                     ELSE IF w = held[o] THEN "deleted" ELSE value[w]]
       /\ held' = [held EXCEPT ![o] = v]
  /\ Return(t, "done")
  /\ UNCHANGED <<object, pyVars, overlapped>>

Store(t) ==
  /\ pc[t] = "init"
  /\ \E v \in Values, o \in on[t] :
       /\ Allocate(v)
       /\ held' = [held EXCEPT ![o] = v]
  /\ Return(t, "done")
  /\ UNCHANGED <<object, pyVars, overlapped>>

(***************************************************************************)
(* A method, a property, __repr__ or __hash__ unwraps its instance; == and *)
(* !=, and a method that is given another instance, unwrap that one later, *)
(* other arguments in between.  One that holds no T is refused (a          *)
(* TypeError, a placeholder, NotImplemented).                              *)
(***************************************************************************)
UnwrapUnchecked(t) ==
  /\ pc[t] = "idle"
  /\ \E o, p \in named :
       /\ pc' = [pc EXCEPT ![t] = "use"]
       /\ on' = [on EXCEPT ![t] = {o, p}]
       /\ using' = [using EXCEPT ![t] = {<<o, held[o]>>}]
  /\ UNCHANGED <<answer, heapVars, pyVars, overlapped>>

Unwrap(t) ==
  /\ pc[t] = "idle"
  /\ \E o, p \in named :
       \/ /\ held[o] = None
          /\ Refuse(t)
       \/ /\ held[o] # None
          /\ pc' = [pc EXCEPT ![t] = "use"]
          /\ on' = [on EXCEPT ![t] = {o, p}]
          /\ using' = [using EXCEPT ![t] = {<<o, held[o]>>}]
          /\ UNCHANGED answer
  /\ UNCHANGED <<heapVars, pyVars, overlapped>>

UnwrapArgument(t) ==
  /\ pc[t] = "use"
  /\ \E p \in on[t] :
       \/ /\ held[p] = None
          /\ Return(t, "refused")
       \/ /\ held[p] # None
          /\ using' = [using EXCEPT ![t] = @ \cup {<<p, held[p]>>}]
          /\ UNCHANGED <<pc, on, answer>>
  /\ UNCHANGED <<heapVars, pyVars, overlapped>>

(***************************************************************************)
(* The method returns a plain value, or throws; a view of its T, which     *)
(* keeps the instance alive; or a T that class_wrap copies into a new      *)
(* instance.  Without memory for that copy the instance goes again.        *)
(***************************************************************************)
FinishSharing(t) ==
  /\ pc[t] = "use"
  /\ \/ Return(t, "done") /\ UNCHANGED <<heapVars, pyVars>>
     \/ \E q \in Objects, w \in using[t] :
          /\ object[q] = "absent"
          /\ object' = [object EXCEPT ![q] = "alive"]
          /\ held' = [held EXCEPT ![q] = w[2]] /\ UNCHANGED value
          /\ named' = named \cup {q}
          /\ Return(t, "done") /\ UNCHANGED views
  /\ UNCHANGED overlapped

Finish(t) ==
  /\ pc[t] = "use"
  /\ \/ \E what \in {"done", "refused"} : Return(t, what) /\ UNCHANGED <<heapVars, pyVars>>
     \/ \E w \in using[t] :
          /\ views' = views \cup {w}
          /\ Return(t, "done") /\ UNCHANGED <<heapVars, named>>
     \/ \E q \in Objects, v \in Values :
          /\ object[q] = "absent"
          /\ object' = [object EXCEPT ![q] = "alive"]
          /\ Allocate(v) /\ held' = [held EXCEPT ![q] = v]
          /\ named' = named \cup {q}
          /\ Return(t, "done") /\ UNCHANGED views
     \/ \E q \in Objects :
          /\ object[q] = "absent"
          /\ object' = [object EXCEPT ![q] = "freed"]
          /\ Return(t, "refused") /\ UNCHANGED <<held, value, pyVars>>
  /\ UNCHANGED overlapped

\* A Python variable or a view lets go of an instance.
Forget ==
  /\ \/ \E o \in named : named' = named \ {o} /\ UNCHANGED views
     \/ \E w \in views : views' = views \ {w} /\ UNCHANGED named
  /\ UNCHANGED <<callVars, heapVars, overlapped>>

Referenced(o) ==
  \/ o \in named
  \/ \E t \in Threads : o \in on[t]
  \/ \E w \in views : w[1] = o

\* tp_dealloc, when the last reference is gone: delete held, free the instance.
Dealloc(o) ==
  /\ object[o] = "alive" /\ ~Referenced(o)
  /\ object' = [object EXCEPT ![o] = "freed"]
  /\ held' = [held EXCEPT ![o] = None]
  /\ value' = [v \in Values |-> IF v = held[o] THEN "deleted" ELSE value[v]]
  /\ UNCHANGED <<callVars, pyVars, overlapped>>

Next ==
  \/ \E t \in Threads : \/ New(t) \/ BeginInit(t) \/ FailInit(t) \/ Store(t)
                        \/ Unwrap(t) \/ UnwrapArgument(t) \/ Finish(t)
  \/ Forget
  \/ \E o \in Objects : Dealloc(o)

Spec == Init /\ [][Next]_vars

-----------------------------------------------------------------------------
(* Properties.                                                             *)

TypeOK ==
  /\ pc \in [Threads -> {"idle", "init", "use"}]
  /\ on \in [Threads -> SUBSET Objects]
  /\ using \in [Threads -> SUBSET (Objects \X Values)]
  /\ answer \in [Threads -> {"none", "done", "refused"}]
  /\ object \in [Objects -> {"absent", "alive", "freed"}]
  /\ held \in [Objects -> Values \cup {None}]
  /\ value \in [Values -> {"absent", "live", "deleted"}]
  /\ named \subseteq Objects
  /\ views \subseteq Objects \X Values
  /\ overlapped \subseteq Objects

(***************************************************************************)
(* No T is deleted under a method still running on it, nor under a view of *)
(* its data, although the reference to it was taken before other threads   *)
(* ran (class_unwrap at line 86, class_init's refusal at lines 277 to 280).*)
(***************************************************************************)
NothingInUseIsDeleted ==
  /\ \A t \in Threads : \A w \in using[t] : value[w[2]] = "live"
  /\ \A w \in views : value[w[2]] = "live"

(***************************************************************************)
(* Every T has one owner at most, which exists, and no owner holds a       *)
(* deleted one: tp_dealloc deletes each T once (lines 94 to 122).          *)
(***************************************************************************)
OneOwner ==
  /\ \A o, p \in Objects : held[o] = held[p] /\ held[o] # None => o = p
  /\ \A o \in Objects : held[o] # None => object[o] = "alive" /\ value[held[o]] = "live"

(***************************************************************************)
(* A T that nobody holds any more leaks only if two __init__ overlapped on *)
(* one instance: failures, refusals and deallocations leak none.           *)
(***************************************************************************)
LeakNeedsAnOverlap ==
  overlapped = {} => \A v \in Values : value[v] = "live" => \E o \in Objects : held[o] = v

(***************************************************************************)
(* Instances own their T's as unique_ptr would have it: one T is given one *)
(* instance, is lent only by the instance that has it, and ends once, when *)
(* nobody borrows it; a T that a second __init__ displaced is lent no more *)
(* and never ends (wrapper<T>, lines 39 to 44, and all that touches held). *)
(***************************************************************************)
Owner == INSTANCE UniqueOwner WITH
  Owners   <- Objects,
  Things   <- Values,
  has      <- {w \in Objects \X Values : held[w[1]] = w[2]},
  made     <- {v \in Values : value[v] # "absent"},
  ended    <- {v \in Values : value[v] = "deleted"},
  borrowed <- {v \in Values : \/ \E t \in Threads : \E w \in using[t] : v = w[2]
                              \/ \E w \in views : v = w[2]}

HeldIsUnique == Owner!Spec
=============================================================================
