---------------------------- MODULE ModuleImport ----------------------------
(***************************************************************************)
(* binding/module.hpp, dispatch.hpp, class.hpp, error.hpp: the import of   *)
(* one extension module, PyInit_<name>.  It runs the module's registration *)
(* block, whose statements write static tables: the method table, a        *)
(* keyword spec per function, a type per wrapped C++ type.  The statics    *)
(* outlive the module object: CPython runs PyInit again after an import    *)
(* that failed, and the code provides for another interpreter's import.    *)
(* Imports come one at a time, under the import lock.                      *)
(*                                                                         *)
(* A function registered with keyword arguments has one optional one.      *)
(***************************************************************************)
EXTENDS Naturals, Sequences

CONSTANTS
  Functions,   \* the C++ functions registered with keyword arguments
  Types,       \* the wrapped C++ types
  None,        \* a type not built, a default not allocated, no factory
  Blocks,      \* the registration blocks: sequences of statements
  MaxImports,  \* bound: runs of PyInit
  MaxFailures  \* bound: calls of CPython and of the block that fail

Statements ==
  [what : {"plain"}] \cup [what : {"keyword"}, fn : Functions]
    \cup [what : {"type"}, of : Types, methods : Nat, factory : Functions \cup {None}]

\* A type that is built: its methods, the factory of its constructor, the import that built it.
Built == [methods : Nat, factory : Functions \cup {None}, epoch : Nat]

ASSUME NoneIsNothing == None \notin Functions \cup Types \cup Built
ASSUME NoneIsNoDefault == None \notin Nat \cup (Nat \X Nat)
ASSUME BlocksAssumption == Blocks \subseteq Seq(Statements)
\* def_init's factory must return the wrapped type.
ASSUME FactoriesAssumption ==
  \A b \in Blocks : \A i, j \in DOMAIN b :
    b[i].what = "type" /\ b[j].what = "type" /\ b[i].factory = b[j].factory /\ b[i].factory # None
      => b[i].of = b[j].of
ASSUME ImportsAssumption == MaxImports \in Nat
ASSUME FailuresAssumption == MaxFailures \in Nat

VARIABLES
  block,    \* the module's registration block
  pc,       \* "out" of PyInit, "in" the block
  at,       \* the statement that comes next
  epoch,    \* registration_epoch()
  error,    \* sciforge_module_error_storage: the import that made the error type
  pending,  \* PyErr_Occurred()
  table,    \* sciforge_module_table: its size, its capacity, how often it moved
  spec,     \* spec[f]: the import that filled f's spec, its default, whether its names are complete
  type,     \* type[T]: class_type<T>()
  defaults, \* history: the default objects that are referenced
  lost,     \* history: those that no spec ever held, a vector having thrown
  modules,  \* history: the imports that succeeded
  failures  \* failures so far, bounded by MaxFailures

specVars == <<spec, defaults, lost>>
vars == <<block, pc, at, epoch, error, pending, table, specVars, type, modules, failures>>

Unfilled == [epoch |-> 0, default |-> None, whole |-> FALSE]

Init ==
  /\ block \in Blocks
  /\ pc = "out" /\ at = 1 /\ epoch = 0
  /\ error = None /\ pending = FALSE
  /\ table = [size |-> 0, capacity |-> 0, moves |-> 0]
  /\ spec = [f \in Functions |-> Unfilled]
  /\ type = [T \in Types |-> None]
  /\ defaults = {} /\ lost = {} /\ modules = {} /\ failures = 0

Fails == failures < MaxFailures /\ failures' = failures + 1
Works == UNCHANGED failures

\* push_back: a full vector moves to twice its capacity.
Pushed(t) ==
  IF t.size < t.capacity
  THEN [t EXCEPT !.size = @ + 1]
  ELSE [size |-> t.size + 1, capacity |-> IF t.capacity = 0 THEN 1 ELSE 2 * t.capacity, moves |-> t.moves + 1]

\* The module object is dropped and the error goes to the importer.
Refuse == pc' = "out" /\ pending' = FALSE
Proceed == at' = at + 1 /\ UNCHANGED pc

(***************************************************************************)
(* claim_kw_spec, then the specs' add_arg: a spec filled in this import is *)
(* refused, an earlier import's default is released.  default is the       *)
(* object made for the optional argument, named for its import and         *)
(* statement.                                                              *)
(***************************************************************************)
ClaimableAlways(f) == TRUE

Claimable(f) == ~(spec[f].epoch # 0 /\ spec[f].epoch = epoch)

Filled(default, whole) == [epoch |-> epoch, default |-> default, whole |-> whole]

FillLeaking(f, default) ==
  /\ spec' = [spec EXCEPT ![f] = Filled(default, TRUE)]
  /\ defaults' = defaults \cup ({default} \ {None}) /\ UNCHANGED lost

FillWith(f, default, whole) ==
  /\ spec' = [spec EXCEPT ![f] = Filled(default, whole)]
  /\ defaults' = (defaults \ {spec[f].default}) \cup ({default} \ {None}) /\ UNCHANGED lost

Fill(f, default) == FillWith(f, default, TRUE)

\* A vector throws after the claim: before or after the default is stored, or in storing it.
FillThrown(f) ==
  /\ Claimable(f)
  /\ \/ \E default \in {<<epoch, at>>, None} : FillWith(f, default, FALSE)
     \/ /\ spec' = [spec EXCEPT ![f] = Filled(None, FALSE)]
        /\ defaults' = (defaults \ {spec[f].default}) \cup {<<epoch, at>>}
        /\ lost' = lost \cup {<<epoch, at>>}

Register(f) ==
  \/ /\ ~Claimable(f)
     /\ pending' = TRUE /\ Works /\ UNCHANGED specVars
  \/ /\ Claimable(f)
     /\ \/ Fill(f, <<epoch, at>>) /\ Works /\ UNCHANGED pending
        \/ Fill(f, None) /\ Fails /\ pending' = TRUE

(***************************************************************************)
(* PyInit up to the block: the module object, the error type, the method   *)
(* table emptied (its storage kept), the next epoch.                       *)
(***************************************************************************)
BeginKeepsEpoch ==
  /\ pc = "out" /\ epoch < MaxImports
  /\ error' = epoch + 1 /\ table' = [table EXCEPT !.size = 0] /\ pc' = "in" /\ at' = 1
  /\ UNCHANGED <<block, epoch, pending, specVars, type, modules, failures>>

BeginAppending ==
  /\ pc = "out" /\ epoch < MaxImports
  /\ epoch' = epoch + 1 /\ error' = epoch + 1 /\ pc' = "in" /\ at' = 1
  /\ UNCHANGED <<block, pending, table, specVars, type, modules, failures>>

BeginKeepsError ==
  /\ pc = "out" /\ epoch < MaxImports
  /\ error' = IF error = None THEN epoch + 1 ELSE error
  /\ table' = [table EXCEPT !.size = 0] /\ epoch' = epoch + 1 /\ pc' = "in" /\ at' = 1
  /\ UNCHANGED <<block, pending, specVars, type, modules, failures>>

Begin ==
  /\ pc = "out" /\ epoch < MaxImports
  /\ \/ /\ Works /\ error' = epoch + 1
        /\ table' = [table EXCEPT !.size = 0]
        /\ epoch' = epoch + 1 /\ pc' = "in" /\ at' = 1
     \/ /\ Fails /\ error' \in {error, None}
        /\ UNCHANGED <<table, epoch, pc, at>>
  /\ UNCHANGED <<block, pending, specVars, type, modules>>

Statement(what) == pc = "in" /\ at \in DOMAIN block /\ block[at].what = what

\* m.def without keywords, m.raw; or the block throws here, and PyInit catches.
Plain ==
  /\ Statement("plain")
  /\ \/ Works /\ table' = Pushed(table) /\ Proceed /\ UNCHANGED pending
     \/ Fails /\ Refuse /\ UNCHANGED <<table, at>>
  /\ UNCHANGED <<block, epoch, error, specVars, type, modules>>

(***************************************************************************)
(* m.def with keywords: the entry is added also when the spec is refused.  *)
(* The block may throw before, or a vector after the claim.                *)
(***************************************************************************)
Keyword ==
  /\ Statement("keyword")
  /\ \/ Register(block[at].fn) /\ table' = Pushed(table) /\ Proceed
     \/ /\ Fails /\ Refuse /\ UNCHANGED <<table, at>>
        /\ UNCHANGED specVars \/ FillThrown(block[at].fn)
  /\ UNCHANGED <<block, epoch, error, type, modules>>

(***************************************************************************)
(* finish(): the type is built from what the chain has put in its tables   *)
(* so far; when the build or its addition to the module fails there is no  *)
(* type.                                                                   *)
(***************************************************************************)
Finish(T, entries, factory) ==
  type' = [type EXCEPT ![T] = [methods |-> entries, factory |-> factory, epoch |-> epoch]]

FillWhenClaimable(f) ==
  IF f # None /\ Claimable(f) THEN Fill(f, <<epoch, at>>) ELSE UNCHANGED specVars

(***************************************************************************)
(* m.type<T>(...).def(...)...def_init(...): inert when the type exists.    *)
(* Otherwise the tables start empty; whatever the chain throws half way,   *)
(* the builder's destructor finishes the type with what it has, if it can: *)
(* constructible when def_init has returned.                               *)
(***************************************************************************)
TypeAgain ==
  /\ Statement("type") /\ Works /\ Proceed
  /\ Finish(block[at].of, block[at].methods, block[at].factory)
  /\ FillWhenClaimable(block[at].factory)
  /\ UNCHANGED <<block, epoch, error, pending, table, modules>>

Type ==
  /\ Statement("type")
  /\ LET T == block[at].of
         f == block[at].factory
     IN  \/ /\ type[T] # None
            /\ (Works /\ UNCHANGED pending) \/ (Fails /\ pending' = TRUE)
            /\ Proceed /\ UNCHANGED <<specVars, type>>
         \/ /\ type[T] = None
            /\ IF f = None THEN Works /\ UNCHANGED <<specVars, pending>> ELSE Register(f)
            /\ Finish(T, block[at].methods, f) /\ Proceed
         \/ /\ type[T] = None
            /\ FillWhenClaimable(f)
            /\ Fails /\ pending' = TRUE
            /\ Proceed /\ UNCHANGED type
         \/ /\ Fails /\ Refuse /\ UNCHANGED at
            /\ \/ UNCHANGED <<specVars, type>>
               \/ /\ type[T] = None
                  /\ \E n \in 0..block[at].methods, made \in {None, f} :
                       /\ IF made # None THEN FillWhenClaimable(f)
                          ELSE UNCHANGED specVars \/ (f # None /\ FillThrown(f))
                       /\ UNCHANGED type \/ Finish(T, n, made)
  /\ UNCHANGED <<block, epoch, error, table, modules>>

(***************************************************************************)
(* PyInit after the block: a pending error refuses, else the table's       *)
(* functions are added to the module, which keeps pointers into the table. *)
(***************************************************************************)
EndUnchecked ==
  /\ pc = "in" /\ at = Len(block) + 1
  /\ Works /\ table' = Pushed(table)
  /\ modules' = modules \cup {[epoch |-> epoch]}
  /\ pc' = "out" /\ pending' = FALSE
  /\ UNCHANGED <<block, at, epoch, error, specVars, type>>

End ==
  /\ pc = "in" /\ at = Len(block) + 1
  /\ \/ pending /\ Works /\ Refuse /\ UNCHANGED <<table, modules>>
     \/ ~pending /\ Fails /\ Refuse /\ table' = Pushed(table) /\ UNCHANGED modules
     \/ /\ ~pending /\ Works
        /\ table' = Pushed(table)
        /\ modules' = modules \cup {[epoch |-> epoch]}
        /\ pc' = "out" /\ UNCHANGED pending
  /\ UNCHANGED <<block, at, epoch, error, specVars, type>>

Next == Begin \/ Plain \/ Keyword \/ Type \/ End

Spec == Init /\ [][Next]_vars

-----------------------------------------------------------------------------
(* Properties.                                                             *)

TypeOK ==
  /\ block \in Blocks
  /\ pc \in {"out", "in"} /\ at \in 1..Len(block) + 1
  /\ epoch \in 0..MaxImports
  /\ error \in 1..MaxImports \cup {None} /\ (pc = "in" => error = epoch)
  /\ pending \in BOOLEAN
  /\ table \in [size : Nat, capacity : Nat, moves : Nat] /\ table.size <= table.capacity
  /\ \A f \in Functions : spec[f].epoch \in 0..epoch
  /\ \A T \in Types : type[T] # None => type[T].epoch \in 1..epoch
  /\ failures \in 0..MaxFailures

Imported == modules # {}

(***************************************************************************)
(* What CPython keeps pointers into does not move or change under an       *)
(* imported module: a later import refills the method table in place       *)
(* (module.hpp, lines 115 to 136), and the type that live instances have   *)
(* is never rebuilt, replaced or dropped (class.hpp, lines 321 to 327 and  *)
(* 460 to 466).                                                            *)
(***************************************************************************)
LiveTablesStay ==
  [][Imported => /\ table'.moves = table.moves
                 /\ \A T \in Types : type[T] # None => type'[T] = type[T]]_vars

(***************************************************************************)
(* A default object is referenced exactly as long as a keyword spec holds  *)
(* it: refused claims, failed and repeated imports over-release none, and  *)
(* leak none but those that a spec had no memory to hold (dispatch.hpp,    *)
(* lines 125 to 156 and 187 to 201).                                       *)
(***************************************************************************)
DefaultsBelongToSpecs ==
  LET heldBySpecs == {spec[f].default : f \in Functions} \ {None}
  IN  defaults = heldBySpecs \cup lost /\ heldBySpecs \cap lost = {}

Registers(i, T) == block[i].what = "type" /\ block[i].of = T

\* A type registered twice is built by its first statement, or by an earlier import.
Builder(i) == block[i].what = "type" /\ \A j \in DOMAIN block : Registers(j, block[i].of) => i <= j

(***************************************************************************)
(* An imported module has its types, and one that the same import built is *)
(* whole: all its methods, and a constructor whose default exists where it *)
(* has a factory (module.hpp, lines 120 to 131: every failure of the block *)
(* refuses the import).                                                    *)
(***************************************************************************)
OwnTypesAreWhole ==
  \A m \in modules, i \in DOMAIN block : Builder(i) =>
    LET T == type[block[i].of]
    IN  /\ T # None
        /\ T.epoch = m.epoch =>
             /\ T.methods = block[i].methods /\ T.factory = block[i].factory
             /\ T.factory # None => spec[T.factory].default # None

(***************************************************************************)
(* No import succeeds, the first or a retried one, of a module that        *)
(* registers a module function with keywords twice.                        *)
(***************************************************************************)
DoubleDefNeverImports ==
  Imported => \A i, j \in DOMAIN block :
    block[i].what = "keyword" /\ block[j].what = "keyword" /\ block[i].fn = block[j].fn => i = j
=============================================================================
