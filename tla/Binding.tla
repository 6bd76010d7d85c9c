------------------------------ MODULE Binding ------------------------------
(***************************************************************************)
(* An extension module in use (binding/dispatch.hpp, class.hpp, error.hpp):*)
(* calls of the functions and constructors that imported modules hold, by  *)
(* the keyword specs and the error type that ModuleImport's PyInit writes, *)
(* while it may run again.                                                 *)
(*                                                                         *)
(* The statics are the library's, not the module object's: the same file   *)
(* imported under another name, or a sub-interpreter's import, runs PyInit *)
(* a second time.  It comes between two steps of a call when the call runs *)
(* Python code (__bool__ of an argument, a callback), gives up the GIL, or *)
(* never had one; and a call comes between two statements of a             *)
(* registration block when CPython collects garbage there.                 *)
(***************************************************************************)
EXTENDS ModuleImport

CONSTANT Callers  \* calls at a time, in threads or nested in one another

VARIABLES
  call,    \* call[c]: the call that c has under way
  outcome  \* outcome[c]: how c's last call ended

callVars    == <<call, outcome>>
bindingVars == <<vars, callVars>>

NoCall    == [of |-> 0, fn |-> None, default |-> None, claim |-> 0, step |-> "none"]
NoOutcome == [what |-> "none", of |-> 0, error |-> None]

BindingInit ==
  /\ Init
  /\ call = [c \in Callers |-> NoCall]
  /\ outcome = [c \in Callers |-> NoOutcome]

\* What Python can call of an imported module: its keyword functions, the constructors of its types.
Callable ==
  {f \in Functions : \/ \E i \in DOMAIN block : block[i].what = "keyword" /\ block[i].fn = f
                     \/ \E T \in Types : type[T] # None /\ type[T].factory = f}

Leave(c, what) ==
  /\ call' = [call EXCEPT ![c] = NoCall]
  /\ outcome' = [outcome EXCEPT ![c] = what]

Outcome(what, m, err) == [what |-> what, of |-> m, error |-> err]

(***************************************************************************)
(* The arguments are parsed by the function's spec.  The optional one is   *)
(* given, or the call borrows the spec's default: MemoryError when there   *)
(* is none.  A list of names that lacks its end is read beyond it.         *)
(***************************************************************************)
Enter(c) ==
  /\ call[c] = NoCall
  /\ \E m \in modules, f \in Callable :
       LET parsed(default) ==
             /\ call' = [call EXCEPT ![c] = [of |-> m.epoch, fn |-> f, default |-> default,
                                             claim |-> spec[f].epoch, step |-> "parsed"]]
             /\ UNCHANGED outcome
       IN  \/ ~spec[f].whole /\ Leave(c, Outcome("undefined", m.epoch, None))
           \/ spec[f].whole /\ parsed(None)
           \/ spec[f].whole /\ spec[f].default # None /\ parsed(spec[f].default)
           \/ spec[f].whole /\ spec[f].default = None /\ Leave(c, Outcome("MemoryError", m.epoch, None))
  /\ UNCHANGED vars

(***************************************************************************)
(* The borrowed default is converted, after the conversion of another      *)
(* argument perhaps: from here on the call holds C++ values.               *)
(***************************************************************************)
ConvertStealing(c) ==
  /\ call[c].step = "parsed"
  /\ call' = [call EXCEPT ![c].step = "converted", ![c].default = None]
  /\ defaults' = defaults \ {call[c].default}
  /\ UNCHANGED <<block, pc, at, epoch, error, pending, table, spec, lost, type, modules, failures, outcome>>

Convert(c) ==
  /\ call[c].step = "parsed"
  /\ call' = [call EXCEPT ![c].step = "converted", ![c].default = None]
  /\ UNCHANGED <<vars, outcome>>

(***************************************************************************)
(* The function returns, or throws what set_cpp_error gives the type that  *)
(* the getter names now.                                                   *)
(***************************************************************************)
Answer(c) ==
  /\ call[c].step = "converted"
  /\ \/ Leave(c, Outcome("returned", call[c].of, None))
     \/ Leave(c, Outcome("module error", call[c].of, error))
  /\ UNCHANGED vars

Import == Next /\ UNCHANGED callVars

BindingNext == Import \/ \E c \in Callers : Enter(c) \/ Convert(c) \/ Answer(c)

BindingSpec == BindingInit /\ [][BindingNext]_bindingVars

-----------------------------------------------------------------------------
(* Properties.                                                             *)

BindingTypeOK ==
  /\ TypeOK
  /\ \A c \in Callers :
       /\ call[c].of \in 0..epoch /\ call[c].claim \in 0..epoch
       /\ call[c].fn \in Functions \cup {None}
       /\ call[c].step \in {"none", "parsed", "converted"}
       /\ call[c].step = "none" => call[c] = NoCall
       /\ outcome[c].what \in {"none", "returned", "MemoryError", "module error", "undefined"}
       /\ outcome[c].of \in 0..epoch

Borrows(c) == call[c].step = "parsed" /\ call[c].default # None

(***************************************************************************)
(* The default that a call has borrowed goes only when a later import      *)
(* claims the function's spec while the call is under way: failed and      *)
(* refused imports, and other calls, release none (dispatch.hpp, lines 195 *)
(* to 199 against 285 to 294).                                             *)
(***************************************************************************)
DefaultOutlivesTheCall ==
  \A c \in Callers : Borrows(c) /\ call[c].default \notin defaults => spec[call[c].fn].epoch > call[c].claim

(***************************************************************************)
(* What dispatch.hpp says at lines 128 to 130: the uniform ownership of    *)
(* the defaults lets def() safely release them on a re-import.  A call     *)
(* converts no default that was released.                                  *)
(***************************************************************************)
CallsReadLiveDefaults == \A c \in Callers : Borrows(c) => call[c].default \in defaults

\* A spec has all its names unless a later import claimed it and threw; and its default, if its own import claimed it.
SpecsAreWhole ==
  \A m \in modules, f \in Callable :
    /\ spec[f].whole \/ spec[f].epoch > m.epoch
    /\ spec[f].epoch = m.epoch => spec[f].default # None

(***************************************************************************)
(* An imported module has all that its block registered: its own types     *)
(* with their methods and constructors, and specs its functions can parse  *)
(* by, whatever failed in other imports (module.hpp, lines 120 to 131;     *)
(* dispatch.hpp, lines 317 to 324; class.hpp, lines 318 to 342).           *)
(***************************************************************************)
ImportedIsWhole == OwnTypesAreWhole /\ SpecsAreWhole

(***************************************************************************)
(* A call that raises the module's error raises the type that its module's *)
(* import made or a later one, never an earlier one's; and none at all, so *)
(* that it returns null without an error, only if an import has failed     *)
(* (module.hpp, lines 94 to 114; error.hpp, lines 45 to 50).               *)
(***************************************************************************)
ErrorsAreOwnOrLater ==
  \A c \in Callers : outcome[c].what = "module error" =>
    \/ outcome[c].error # None /\ outcome[c].error \in outcome[c].of..epoch
    \/ outcome[c].error = None /\ failures > 0
=============================================================================
