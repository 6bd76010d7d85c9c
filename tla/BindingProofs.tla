--------------------------- MODULE BindingProofs ----------------------------
(***************************************************************************)
(* What an extension module keeps of its imports and owes its calls, for   *)
(* any registration blocks, any number of calls, imports and failures.     *)
(***************************************************************************)
EXTENDS Binding, FiniteSets, FiniteSetTheorems, TLAPS

-----------------------------------------------------------------------------
(* What the import steps do to the statics, in the terms of the proofs.    *)

Specs == [epoch : Nat, default : (Nat \X Nat) \cup {None}, whole : BOOLEAN]

\* The type invariant, and what types it needs.
Typed ==
  /\ block \in Blocks
  /\ pc \in {"out", "in"} /\ at \in 1..(Len(block) + 1)
  /\ epoch \in Nat /\ epoch <= MaxImports
  /\ error # None => error = epoch /\ epoch > 0
  /\ pc = "in" => error # None
  /\ pending \in BOOLEAN
  /\ table \in [size : Nat, capacity : Nat, moves : Nat] /\ table.size <= table.capacity
  /\ spec \in [Functions -> Specs] /\ \A f \in Functions : spec[f].epoch <= epoch
  /\ type \in [Types -> Built \cup {None}]
  /\ \A T \in Types : type[T] # None => type[T].epoch \in 1..epoch
  /\ failures \in Nat /\ failures <= MaxFailures
  /\ \A m \in modules : m.epoch \in 1..epoch

LEMMA StatementFields ==
  ASSUME NEW s \in Statements
  PROVE  /\ s.what = "keyword" => s.fn \in Functions
         /\ s.what = "type" => /\ s.of \in Types /\ s.methods \in Nat
                               /\ s.factory \in Functions \cup {None}
  BY DEF Statements

LEMMA BlockIsTyped ==
  ASSUME Typed
  PROVE  /\ block \in Seq(Statements) /\ Len(block) \in Nat /\ DOMAIN block = 1..Len(block)
         /\ \A i \in DOMAIN block : block[i] \in Statements
  BY BlocksAssumption DEF Typed

\* A spec is claimed for the default d; `orphans` is the one that it had no memory to hold.
Claims(f, d, whole, orphans) ==
  /\ Claimable(f)
  /\ spec' = [spec EXCEPT ![f] = Filled(d, whole)]
  /\ defaults' = (defaults \ {spec[f].default}) \cup ({d} \ {None}) \cup orphans
  /\ lost' = lost \cup orphans

Fresh == <<epoch, at>>

SpecStep ==
  \/ UNCHANGED specVars
  \/ /\ pc = "in"
     /\ \E f \in Functions, d \in {None, Fresh}, whole \in BOOLEAN, orphans \in {{}, {Fresh}} :
          Claims(f, d, whole, orphans) /\ (orphans = {} \/ d = None)

LEMMA FillClaims ==
  ASSUME Typed, pc = "in", NEW f \in Functions, NEW d \in {None, Fresh}, NEW whole \in BOOLEAN,
         Claimable(f), FillWith(f, d, whole)
  PROVE  SpecStep
<1>1. Claims(f, d, whole, {})
  BY DEF FillWith, Claims
<1>2. QED
  BY <1>1 DEF SpecStep

LEMMA FillThrownClaims ==
  ASSUME Typed, pc = "in", NEW f \in Functions, FillThrown(f)
  PROVE  SpecStep
<1>1. CASE \E d \in {Fresh, None} : FillWith(f, d, FALSE)
  BY <1>1, FillClaims DEF FillThrown, Fresh
<1>2. CASE /\ spec' = [spec EXCEPT ![f] = Filled(None, FALSE)]
           /\ defaults' = (defaults \ {spec[f].default}) \cup {Fresh}
           /\ lost' = lost \cup {Fresh}
  <2>1. Claims(f, None, FALSE, {Fresh})
    BY <1>2 DEF Claims, FillThrown
  <2>2. QED
    BY <2>1 DEF SpecStep
<1>3. QED
  BY <1>1, <1>2 DEF FillThrown, Fresh

LEMMA RegisterClaims ==
  ASSUME Typed, pc = "in", NEW f \in Functions, Register(f)
  PROVE  SpecStep
<1>1. CASE ~Claimable(f)
  BY <1>1 DEF Register, SpecStep
<1>2. CASE Claimable(f)
  BY <1>2, FillClaims DEF Register, Fill, Fresh
<1>3. QED
  BY <1>1, <1>2

LEMMA FillWhenClaimableClaims ==
  ASSUME Typed, pc = "in", NEW f \in Functions \cup {None}, FillWhenClaimable(f)
  PROVE  SpecStep
<1>1. CASE f # None /\ Claimable(f)
  BY <1>1, FillClaims DEF FillWhenClaimable, Fill, Fresh
<1>2. CASE ~(f # None /\ Claimable(f))
  BY <1>2 DEF FillWhenClaimable, SpecStep
<1>3. QED
  BY <1>1, <1>2

\* No type is built twice.
TypeStep ==
  \/ UNCHANGED type
  \/ \E T \in Types, b \in Built :
       type[T] = None /\ b.epoch = epoch /\ type' = [type EXCEPT ![T] = b]

\* The next statement, or a refusal before it.
Moves == (pc' = pc /\ at' = at + 1) \/ (pc' = "out" /\ at' = at)

LEMMA KeywordStep ==
  ASSUME Typed, Keyword
  PROVE  /\ pc = "in" /\ at \in DOMAIN block /\ block[at].what = "keyword"
         /\ SpecStep /\ Moves
         /\ UNCHANGED <<block, epoch, error, type, modules>>
         /\ table' = (IF pc' = "in" THEN Pushed(table) ELSE table)
         /\ pending' \in BOOLEAN
         /\ Fails \/ Works
<1>1. pc = "in" /\ at \in DOMAIN block /\ block[at].what = "keyword" /\ block[at].fn \in Functions
  BY BlockIsTyped, StatementFields DEF Keyword, Statement
<1>2. UNCHANGED <<block, epoch, error, type, modules>>
  BY DEF Keyword
<1>3. CASE Register(block[at].fn) /\ table' = Pushed(table) /\ Proceed
  BY <1>1, <1>2, <1>3, RegisterClaims DEF Proceed, Moves, Register, Typed
<1>4. CASE /\ Fails /\ Refuse /\ UNCHANGED <<table, at>>
           /\ UNCHANGED specVars \/ FillThrown(block[at].fn)
  BY <1>1, <1>2, <1>4, FillThrownClaims DEF Refuse, Moves, SpecStep
<1>5. QED
  BY <1>3, <1>4 DEF Keyword

LEMMA FinishBuilds ==
  ASSUME Typed, NEW T \in Types, NEW n \in Nat, NEW made \in Functions \cup {None},
         type[T] = None, Finish(T, n, made)
  PROVE  TypeStep
<1>1. [methods |-> n, factory |-> made, epoch |-> epoch] \in Built
  BY DEF Built, Typed
<1>2. QED
  BY <1>1 DEF Finish, TypeStep

LEMMA TypeStepOfType ==
  ASSUME Typed, Type
  PROVE  /\ pc = "in" /\ at \in DOMAIN block /\ block[at].what = "type"
         /\ SpecStep /\ TypeStep /\ Moves
         /\ UNCHANGED <<block, epoch, error, table, modules>>
         /\ pending' \in BOOLEAN
         /\ pending' = FALSE /\ pc' = "in" => pending = FALSE
         /\ Fails \/ Works
<1> DEFINE T == block[at].of
           f == block[at].factory
<1>1. /\ pc = "in" /\ at \in DOMAIN block /\ block[at].what = "type"
      /\ T \in Types /\ block[at].methods \in Nat /\ f \in Functions \cup {None}
  BY BlockIsTyped, StatementFields DEF Type, Statement
<1>2. UNCHANGED <<block, epoch, error, table, modules>>
  BY DEF Type
<1>3. pending \in BOOLEAN
  BY DEF Typed
<1>4. CASE /\ type[T] # None
           /\ (Works /\ UNCHANGED pending) \/ (Fails /\ pending' = TRUE)
           /\ Proceed /\ UNCHANGED <<specVars, type>>
  BY <1>1, <1>2, <1>3, <1>4 DEF Proceed, Moves, SpecStep, TypeStep
<1>5. CASE /\ type[T] = None
           /\ IF f = None THEN Works /\ UNCHANGED <<specVars, pending>> ELSE Register(f)
           /\ Finish(T, block[at].methods, f) /\ Proceed
  <2>1. TypeStep
    BY <1>1, <1>5, FinishBuilds
  <2>2. SpecStep
    BY <1>1, <1>5, RegisterClaims DEF SpecStep
  <2>3. (Fails \/ Works) /\ pending' \in BOOLEAN /\ (pending' = FALSE => pending = FALSE)
    BY <1>3, <1>5 DEF Register
  <2>4. QED
    BY <1>1, <1>2, <1>5, <2>1, <2>2, <2>3 DEF Proceed, Moves
<1>6. CASE /\ type[T] = None
           /\ FillWhenClaimable(f)
           /\ Fails /\ pending' = TRUE
           /\ Proceed /\ UNCHANGED type
  BY <1>1, <1>2, <1>6, FillWhenClaimableClaims DEF Proceed, Moves, TypeStep
<1>7. CASE /\ Fails /\ Refuse /\ UNCHANGED at
           /\ \/ UNCHANGED <<specVars, type>>
              \/ /\ type[T] = None
                 /\ \E n \in 0..block[at].methods, made \in {None, f} :
                      /\ IF made # None THEN FillWhenClaimable(f)
                         ELSE UNCHANGED specVars \/ (f # None /\ FillThrown(f))
                      /\ UNCHANGED type \/ Finish(T, n, made)
  <2>1. CASE UNCHANGED <<specVars, type>>
    BY <1>1, <1>2, <1>7, <2>1 DEF Refuse, Moves, SpecStep, TypeStep
  <2>2. ASSUME type[T] = None,
               NEW n \in 0..block[at].methods, NEW made \in {None, f},
               IF made # None THEN FillWhenClaimable(f)
               ELSE UNCHANGED specVars \/ (f # None /\ FillThrown(f)),
               UNCHANGED type \/ Finish(T, n, made)
        PROVE  SpecStep /\ TypeStep
    <3>1. n \in Nat
      BY <1>1
    <3>2. made \in Functions \cup {None}
      BY <1>1
    <3>3. TypeStep
      BY <1>1, <2>2, <3>1, <3>2, FinishBuilds DEF TypeStep
    <3>4. SpecStep
      BY <1>1, <2>2, FillWhenClaimableClaims, FillThrownClaims DEF SpecStep
    <3>5. QED
      BY <3>3, <3>4
  <2>3. QED
    BY <1>1, <1>2, <1>7, <2>1, <2>2 DEF Refuse, Moves
<1>8. QED
  BY <1>4, <1>5, <1>6, <1>7 DEF Type

LEMMA PushedIsTyped ==
  ASSUME NEW t \in [size : Nat, capacity : Nat, moves : Nat], t.size <= t.capacity
  PROVE  /\ Pushed(t) \in [size : Nat, capacity : Nat, moves : Nat]
         /\ Pushed(t).size <= Pushed(t).capacity
         /\ Pushed(t).size = t.size + 1
         /\ Pushed(t).capacity >= t.capacity
         /\ t.size < t.capacity => Pushed(t).moves = t.moves
  BY DEF Pushed

LEMMA FailuresStep ==
  ASSUME failures \in Nat, failures <= MaxFailures, Fails \/ Works
  PROVE  failures' \in Nat /\ failures' <= MaxFailures /\ failures' >= failures
  BY FailuresAssumption DEF Fails, Works

LEMMA SpecStaysTyped ==
  ASSUME Typed, SpecStep, UNCHANGED epoch
  PROVE  spec' \in [Functions -> Specs] /\ \A f \in Functions : spec'[f].epoch <= epoch
<1>1. epoch \in Nat /\ spec \in [Functions -> Specs] /\ (\A f \in Functions : spec[f].epoch <= epoch)
  BY DEF Typed
<1>2. CASE UNCHANGED specVars
  BY <1>1, <1>2 DEF specVars
<1>3. ASSUME pc = "in", NEW f \in Functions, NEW d \in {None, Fresh}, NEW whole \in BOOLEAN,
             NEW orphans \in {{}, {Fresh}}, Claims(f, d, whole, orphans)
      PROVE  spec' \in [Functions -> Specs] /\ \A g \in Functions : spec'[g].epoch <= epoch
  <2>1. at \in Nat
    BY BlockIsTyped DEF Typed
  <2>2. Filled(d, whole) \in Specs /\ Filled(d, whole).epoch = epoch
    BY <1>1, <2>1 DEF Filled, Specs, Fresh
  <2>3. QED
    BY <1>1, <1>3, <2>2 DEF Claims
<1>4. QED
  BY <1>2, <1>3 DEF SpecStep

LEMMA TypeStaysTyped ==
  ASSUME Typed, TypeStep, epoch > 0, UNCHANGED epoch
  PROVE  /\ type' \in [Types -> Built \cup {None}]
         /\ \A T \in Types : type'[T] # None => type'[T].epoch \in 1..epoch
  BY DEF Typed, TypeStep

\* No step loses the types.
LEMMA TypedImport ==
  ASSUME Typed, Next
  PROVE  Typed'
<1>1. CASE Begin
  <2>1. failures' \in Nat /\ failures' <= MaxFailures
    BY <1>1, FailuresStep DEF Begin, Typed
  <2>2. UNCHANGED <<block, spec, type, pending, modules>>
    BY <1>1 DEF Begin, specVars
  <2>3. CASE /\ Works /\ error' = epoch + 1
             /\ table' = [table EXCEPT !.size = 0]
             /\ epoch' = epoch + 1 /\ pc' = "in" /\ at' = 1
    <3>1. epoch' \in Nat /\ epoch' <= MaxImports /\ epoch' >= epoch /\ error' = epoch' /\ epoch' > 0
      BY <1>1, <2>3, ImportsAssumption DEF Begin, Typed
    <3>2. error' # None
      BY <3>1, NoneIsNoDefault
    <3>3. table' \in [size : Nat, capacity : Nat, moves : Nat] /\ table'.size <= table'.capacity
      BY <2>3 DEF Typed
    <3>4. at' \in 1..(Len(block') + 1)
      BY <2>2, <2>3, BlockIsTyped
    <3>5. /\ \A f \in Functions : spec'[f].epoch <= epoch'
          /\ \A T \in Types : type'[T] # None => type'[T].epoch \in 1..epoch'
          /\ \A m \in modules' : m.epoch \in 1..epoch'
      <4>1. \A f \in Functions : spec[f].epoch \in Nat
        BY DEF Typed, Specs
      <4>2. QED
        BY <2>2, <3>1, <4>1 DEF Typed
    <3>6. QED
      BY <2>1, <2>2, <2>3, <3>1, <3>2, <3>3, <3>4, <3>5 DEF Typed
  <2>4. CASE /\ Fails /\ error' \in {error, None}
             /\ UNCHANGED <<table, epoch, pc, at>>
    <3>1. pc = "out"
      BY <1>1 DEF Begin
    <3>2. QED
      BY <2>1, <2>2, <2>4, <3>1 DEF Typed
  <2>5. QED
    BY <1>1, <2>3, <2>4 DEF Begin
<1>2. ASSUME pc = "in", at \in DOMAIN block, SpecStep, TypeStep, Moves, Fails \/ Works,
             UNCHANGED <<block, epoch, error, modules>>, pending' \in BOOLEAN,
             table' \in {table, Pushed(table)}
      PROVE  Typed'
  <2>1. failures' \in Nat /\ failures' <= MaxFailures
    BY <1>2, FailuresStep DEF Typed
  <2>2. at' \in 1..(Len(block') + 1) /\ pc' \in {"out", "in"}
    BY <1>2, BlockIsTyped DEF Moves
  <2>3. table' \in [size : Nat, capacity : Nat, moves : Nat] /\ table'.size <= table'.capacity
    BY <1>2, PushedIsTyped DEF Typed
  <2>4. epoch > 0
    BY <1>2 DEF Typed
  <2>5. spec' \in [Functions -> Specs] /\ \A f \in Functions : spec'[f].epoch <= epoch'
    BY <1>2, SpecStaysTyped
  <2>6. /\ type' \in [Types -> Built \cup {None}]
        /\ \A T \in Types : type'[T] # None => type'[T].epoch \in 1..epoch'
    BY <1>2, <2>4, TypeStaysTyped
  <2>7. QED
    BY <1>2, <2>1, <2>2, <2>3, <2>5, <2>6 DEF Typed
<1>3. CASE Plain
  <2>1. /\ pc = "in" /\ at \in DOMAIN block /\ SpecStep /\ TypeStep /\ Moves /\ (Fails \/ Works)
        /\ UNCHANGED <<block, epoch, error, modules>> /\ pending' \in BOOLEAN
        /\ table' \in {table, Pushed(table)}
    BY <1>3 DEF Plain, Statement, SpecStep, TypeStep, Moves, Refuse, Proceed, Typed
  <2>2. QED
    BY <1>2, <2>1
<1>4. CASE Keyword
  <2>1. TypeStep
    BY <1>4, KeywordStep DEF TypeStep
  <2>2. QED
    BY <1>2, <1>4, <2>1, KeywordStep
<1>5. CASE Type
  BY <1>2, <1>5, TypeStepOfType
<1>6. CASE End
  <2>1. failures' \in Nat /\ failures' <= MaxFailures
    BY <1>6, FailuresStep DEF End, Typed
  <2>2. UNCHANGED <<block, at, epoch, error, spec, type>> /\ pc = "in" /\ pc' = "out" /\ pending' \in BOOLEAN
    BY <1>6 DEF End, Refuse, specVars, Typed
  <2>3. table' \in [size : Nat, capacity : Nat, moves : Nat] /\ table'.size <= table'.capacity
    BY <1>6, PushedIsTyped DEF End, Typed
  <2>4. epoch > 0 /\ epoch \in Nat
    BY <2>2 DEF Typed
  <2>5. modules' \in {modules, modules \cup {[epoch |-> epoch]}}
    BY <1>6 DEF End
  <2>6. \A m \in modules' : m.epoch \in 1..epoch
    BY <2>4, <2>5 DEF Typed
  <2>7. QED
    BY <2>1, <2>2, <2>3, <2>6 DEF Typed
<1>7. QED
  BY <1>1, <1>3, <1>4, <1>5, <1>6 DEF Next

-----------------------------------------------------------------------------
(* Calls come between the import's steps and leave the statics alone.      *)

CallRecords ==
  [of : Nat, fn : Functions \cup {None}, default : (Nat \X Nat) \cup {None}, claim : Nat,
   step : {"none", "parsed", "converted"}]
OutcomeRecords ==
  [what : {"none", "returned", "MemoryError", "module error", "undefined"}, of : Nat, error : Nat \cup {None}]

CallsTyped ==
  /\ call \in [Callers -> CallRecords] /\ outcome \in [Callers -> OutcomeRecords]
  /\ \A c \in Callers :
       /\ call[c].of <= epoch /\ call[c].claim <= epoch /\ outcome[c].of <= epoch
       /\ call[c].step = "none" => call[c] = NoCall
       /\ call[c].step # "none" => call[c].fn \in Functions /\ modules # {}

\* What a call's step does to the calls.
CallStep(c) ==
  /\ UNCHANGED vars
  /\ \/ /\ \E m \in modules, f \in Functions : \E d \in {None, spec[f].default} :
            call' = [call EXCEPT ![c] = [of |-> m.epoch, fn |-> f, default |-> d,
                                         claim |-> spec[f].epoch, step |-> "parsed"]]
       /\ UNCHANGED outcome
     \/ \E m \in modules, what \in {"undefined", "MemoryError"} : Leave(c, Outcome(what, m.epoch, None))
     \/ /\ call[c].step = "parsed"
       /\ call' = [call EXCEPT ![c].step = "converted", ![c].default = None]
       /\ UNCHANGED outcome
     \/ /\ call[c].step = "converted"
       /\ \/ Leave(c, Outcome("returned", call[c].of, None))
          \/ Leave(c, Outcome("module error", call[c].of, error))

LEMMA CallSteps ==
  ASSUME NEW c \in Callers, Enter(c) \/ Convert(c) \/ Answer(c)
  PROVE  CallStep(c)
<1>1. CASE Enter(c)
  <2>1. PICK m \in modules, f \in Callable :
          LET parsed(default) ==
                /\ call' = [call EXCEPT ![c] = [of |-> m.epoch, fn |-> f, default |-> default,
                                                claim |-> spec[f].epoch, step |-> "parsed"]]
                /\ UNCHANGED outcome
          IN  \/ ~spec[f].whole /\ Leave(c, Outcome("undefined", m.epoch, None))
              \/ spec[f].whole /\ parsed(None)
              \/ spec[f].whole /\ spec[f].default # None /\ parsed(spec[f].default)
              \/ spec[f].whole /\ spec[f].default = None /\ Leave(c, Outcome("MemoryError", m.epoch, None))
    BY <1>1 DEF Enter
  <2>2. f \in Functions
    BY DEF Callable
  <2>3. UNCHANGED vars
    BY <1>1 DEF Enter
  <2>4. CASE Leave(c, Outcome("undefined", m.epoch, None)) \/ Leave(c, Outcome("MemoryError", m.epoch, None))
    BY <2>3, <2>4 DEF CallStep
  <2>5. CASE /\ \E d \in {None, spec[f].default} :
                  call' = [call EXCEPT ![c] = [of |-> m.epoch, fn |-> f, default |-> d,
                                               claim |-> spec[f].epoch, step |-> "parsed"]]
             /\ UNCHANGED outcome
    BY <2>2, <2>3, <2>5 DEF CallStep
  <2>6. QED
    BY <2>1, <2>4, <2>5
<1>2. CASE Convert(c)
  BY <1>2 DEF Convert, CallStep
<1>3. CASE Answer(c)
  BY <1>3 DEF Answer, CallStep
<1>4. QED
  BY <1>1, <1>2, <1>3

LEMMA BindingSteps ==
  ASSUME [BindingNext]_bindingVars
  PROVE  (Next /\ UNCHANGED callVars) \/ (\E c \in Callers : CallStep(c)) \/ UNCHANGED bindingVars
  BY CallSteps DEF BindingNext, Import

\* What only grows in an import's step.
LEMMA ImportGrows ==
  ASSUME Typed, Next
  PROVE  /\ epoch' \in Nat /\ epoch' >= epoch /\ failures' >= failures /\ modules \subseteq modules'
         /\ UNCHANGED block
<1>1. failures \in Nat /\ epoch \in Nat
  BY DEF Typed
<1>2. CASE Begin
  BY <1>1, <1>2 DEF Begin, Fails, Works
<1>3. CASE Plain
  BY <1>1, <1>3 DEF Plain, Fails, Works
<1>4. CASE Keyword
  BY <1>1, <1>4, KeywordStep DEF Fails, Works
<1>5. CASE Type
  BY <1>1, <1>5, TypeStepOfType DEF Fails, Works
<1>6. CASE End
  BY <1>1, <1>6 DEF End, Fails, Works
<1>7. QED
  BY <1>2, <1>3, <1>4, <1>5, <1>6 DEF Next

LEMMA CallsStayTyped ==
  ASSUME Typed, CallsTyped, NEW c \in Callers, CallStep(c)
  PROVE  CallsTyped'
<1>1. epoch' = epoch /\ modules' = modules /\ epoch \in Nat
  BY DEF CallStep, vars, Typed
<1>2. NoCall \in CallRecords /\ NoCall.of <= epoch /\ NoCall.claim <= epoch /\ NoCall.step = "none"
  BY <1>1 DEF NoCall, CallRecords
<1>3. \A m \in modules : m.epoch \in Nat /\ m.epoch <= epoch
  BY <1>1 DEF Typed
<1>4. error \in Nat \cup {None}
  BY DEF Typed
<1>5. \A f \in Functions : /\ spec[f].epoch \in Nat /\ spec[f].epoch <= epoch
                            /\ spec[f].default \in (Nat \X Nat) \cup {None}
  BY DEF Typed, Specs
<1>6. ASSUME NEW r \in CallRecords, r.of <= epoch, r.claim <= epoch, r.step # "none", r.fn \in Functions,
             modules # {}, call' = [call EXCEPT ![c] = r], UNCHANGED outcome
      PROVE  CallsTyped'
  BY <1>1, <1>6 DEF CallsTyped
<1>7. ASSUME NEW o \in OutcomeRecords, o.of <= epoch, Leave(c, o)
      PROVE  CallsTyped'
  BY <1>1, <1>2, <1>7 DEF CallsTyped, Leave
<1>8. ASSUME NEW m \in modules, NEW f \in Functions, NEW d \in {None, spec[f].default},
             call' = [call EXCEPT ![c] = [of |-> m.epoch, fn |-> f, default |-> d,
                                          claim |-> spec[f].epoch, step |-> "parsed"]],
             UNCHANGED outcome
      PROVE  CallsTyped'
  <2>1. [of |-> m.epoch, fn |-> f, default |-> d, claim |-> spec[f].epoch, step |-> "parsed"] \in CallRecords
    BY <1>3, <1>5 DEF CallRecords
  <2>2. QED
    BY <1>3, <1>5, <1>6, <1>8, <2>1
<1>9. ASSUME NEW m \in modules, NEW what \in {"undefined", "MemoryError"}, Leave(c, Outcome(what, m.epoch, None))
      PROVE  CallsTyped'
  <2>1. Outcome(what, m.epoch, None) \in OutcomeRecords /\ Outcome(what, m.epoch, None).of <= epoch
    BY <1>3 DEF Outcome, OutcomeRecords
  <2>2. QED
    BY <1>7, <1>9, <2>1
<1>10. ASSUME call[c].step = "parsed",
              call' = [call EXCEPT ![c].step = "converted", ![c].default = None], UNCHANGED outcome
       PROVE  CallsTyped'
  <2> DEFINE r == [call[c] EXCEPT !.step = "converted", !.default = None]
  <2>1. call[c] \in CallRecords /\ call[c].of <= epoch /\ call[c].claim <= epoch
        /\ call[c].fn \in Functions /\ modules # {} /\ call \in [Callers -> CallRecords]
    BY <1>10 DEF CallsTyped
  <2>2. r \in CallRecords /\ r.of = call[c].of /\ r.claim = call[c].claim /\ r.fn = call[c].fn /\ r.step = "converted"
    BY <2>1 DEF CallRecords
  <2>3. call' = [call EXCEPT ![c] = r]
    BY <1>10, <2>1
  <2>4. QED
    BY <1>6, <1>10, <2>1, <2>2, <2>3
<1>11. ASSUME NEW what \in {"returned", "module error"}, NEW err \in {None, error},
              Leave(c, Outcome(what, call[c].of, err))
       PROVE  CallsTyped'
  <2>1. call[c].of \in Nat /\ call[c].of <= epoch
    BY DEF CallsTyped, CallRecords
  <2>2. Outcome(what, call[c].of, err) \in OutcomeRecords /\ Outcome(what, call[c].of, err).of <= epoch
    BY <1>4, <2>1 DEF Outcome, OutcomeRecords
  <2>3. QED
    BY <1>7, <1>11, <2>2
<1>12. QED
  BY <1>8, <1>9, <1>10, <1>11 DEF CallStep

AllTyped == Typed /\ CallsTyped

LEMMA InitTyped ==
  ASSUME BindingInit
  PROVE  AllTyped
<1>1. block \in Seq(Statements)
  BY BlocksAssumption DEF BindingInit, Init
<1>2. Typed
  <2>1. Unfilled \in Specs
    BY DEF Unfilled, Specs
  <2>2. Len(block) \in Nat /\ block \in Blocks /\ at = 1
    BY <1>1 DEF BindingInit, Init
  <2>3. at \in 1..(Len(block) + 1)
    BY <2>2
  <2>4. spec = [f \in Functions |-> Unfilled] /\ Unfilled.epoch = 0 /\ epoch = 0
    BY DEF BindingInit, Init, Unfilled
  <2>5. spec \in [Functions -> Specs] /\ \A f \in Functions : spec[f].epoch <= epoch
    BY <2>1, <2>4
  <2>6. table \in [size : Nat, capacity : Nat, moves : Nat] /\ table.size <= table.capacity
    BY DEF BindingInit, Init
  <2>7. type \in [Types -> Built \cup {None}] /\ \A T \in Types : type[T] = None
    BY DEF BindingInit, Init
  <2>8. pc = "out" /\ error = None /\ pending \in BOOLEAN /\ modules = {} /\ epoch = 0 /\ failures = 0
    BY DEF BindingInit, Init
  <2>9. epoch \in Nat /\ epoch <= MaxImports /\ failures \in Nat /\ failures <= MaxFailures
    BY <2>8, ImportsAssumption, FailuresAssumption
  <2>10. pc \in {"out", "in"} /\ pc # "in"
    BY <2>8
  <2>11. QED
    BY <2>2, <2>3, <2>5, <2>6, <2>7, <2>8, <2>9, <2>10 DEF Typed
<1>3. CallsTyped
  BY DEF BindingInit, Init, CallsTyped, NoCall, NoOutcome, CallRecords, OutcomeRecords
<1>4. QED
  BY <1>2, <1>3 DEF AllTyped

LEMMA TypedStep ==
  ASSUME AllTyped, [BindingNext]_bindingVars
  PROVE  AllTyped'
<1>1. CASE Next /\ UNCHANGED callVars
  <2>1. Typed'
    BY <1>1, TypedImport DEF AllTyped
  <2>2. CallsTyped'
    <3>1. \A n \in Nat : n <= epoch => n <= epoch'
      BY <1>1, ImportGrows DEF AllTyped, Typed
    <3>2. modules # {} => modules' # {}
      BY <1>1, ImportGrows DEF AllTyped
    <3>3. /\ call' = call /\ outcome' = outcome
          /\ \A c \in Callers : call[c].of \in Nat /\ call[c].claim \in Nat /\ outcome[c].of \in Nat
      BY <1>1 DEF callVars, AllTyped, CallsTyped, CallRecords, OutcomeRecords
    <3>4. QED
      BY <3>1, <3>2, <3>3 DEF AllTyped, CallsTyped
  <2>3. QED
    BY <2>1, <2>2 DEF AllTyped
<1>2. ASSUME NEW c \in Callers, CallStep(c) PROVE AllTyped'
  <2>1. Typed'
    BY <1>2 DEF CallStep, AllTyped, Typed, vars, specVars
  <2>2. QED
    BY <1>2, <2>1, CallsStayTyped DEF AllTyped
<1>3. CASE UNCHANGED bindingVars
  BY <1>3 DEF bindingVars, callVars, vars, specVars, AllTyped, Typed, CallsTyped
<1>4. QED
  BY <1>1, <1>2, <1>3, BindingSteps

LEMMA TypedIsTypeOK ==
  ASSUME AllTyped
  PROVE  BindingTypeOK
<1>1. TypeOK
  <2>1. error \in 1..MaxImports \cup {None} /\ (pc = "in" => error = epoch) /\ epoch \in 0..MaxImports
    BY ImportsAssumption DEF AllTyped, Typed
  <2>2. block \in Blocks /\ pc \in {"out", "in"} /\ at \in 1..Len(block) + 1 /\ pending \in BOOLEAN
    BY DEF AllTyped, Typed
  <2>3. table \in [size : Nat, capacity : Nat, moves : Nat] /\ table.size <= table.capacity
    BY DEF AllTyped, Typed
  <2>4. \A T \in Types : type[T] # None => type[T].epoch \in 1..epoch
    BY DEF AllTyped, Typed
  <2>5. ASSUME NEW f \in Functions PROVE spec[f].epoch \in 0..epoch
    <3>1. spec[f] \in Specs /\ spec[f].epoch <= epoch /\ epoch \in Nat
      BY DEF AllTyped, Typed
    <3>2. spec[f].epoch \in Nat
      BY <3>1 DEF Specs
    <3>3. QED
      BY <3>1, <3>2
  <2>6. failures \in 0..MaxFailures
    BY FailuresAssumption DEF AllTyped, Typed
  <2>7. QED
    BY <2>1, <2>2, <2>3, <2>4, <2>5, <2>6 DEF TypeOK
<1>2. \A c \in Callers : /\ call[c].of \in 0..epoch /\ call[c].claim \in 0..epoch /\ outcome[c].of \in 0..epoch
  <2>1. \A c \in Callers : /\ call[c].of \in Nat /\ call[c].claim \in Nat /\ outcome[c].of \in Nat
                            /\ call[c].of <= epoch /\ call[c].claim <= epoch /\ outcome[c].of <= epoch
    BY DEF AllTyped, CallsTyped, CallRecords, OutcomeRecords
  <2>2. epoch \in Nat
    BY DEF AllTyped, Typed
  <2>3. QED
    BY <2>1, <2>2
<1>3. ASSUME NEW c \in Callers
      PROVE  /\ call[c].fn \in Functions \cup {None} /\ call[c].step \in {"none", "parsed", "converted"}
             /\ outcome[c].what \in {"none", "returned", "MemoryError", "module error", "undefined"}
  <2>1. call[c] \in CallRecords /\ outcome[c] \in OutcomeRecords
    BY DEF AllTyped, CallsTyped
  <2>2. QED
    BY <2>1 DEF CallRecords, OutcomeRecords
<1>4. \A c \in Callers : call[c].step = "none" => call[c] = NoCall
  BY DEF AllTyped, CallsTyped
<1>5. QED
  BY <1>1, <1>2, <1>3, <1>4 DEF BindingTypeOK

LEMMA AllTypedAlways == BindingSpec => []AllTyped
  BY InitTyped, TypedStep, PTL DEF BindingSpec

(***************************************************************************)
(* THEOREM: the statics that PyInit writes (module.hpp, dispatch.hpp) and  *)
(* the calls that read them keep their types.                              *)
(***************************************************************************)
THEOREM ModuleInUseIsTyped == BindingSpec => []BindingTypeOK
  BY AllTypedAlways, TypedIsTypeOK, PTL

-----------------------------------------------------------------------------
(* Errors.                                                                 *)

\* The getter names no error type only before the first import and after a failure.
Named == error = None => failures > 0 \/ epoch = 0

ErrorsInv == Named /\ ErrorsAreOwnOrLater

LEMMA InitErrors ==
  ASSUME BindingInit
  PROVE  ErrorsInv
<1>1. epoch = 0 /\ \A c \in Callers : outcome[c].what # "module error"
  BY DEF BindingInit, Init, NoOutcome
<1>2. QED
  BY <1>1 DEF ErrorsInv, Named, ErrorsAreOwnOrLater

LEMMA NamedImport ==
  ASSUME AllTyped, Named, Next
  PROVE  Named'
<1>1. failures \in Nat /\ failures' >= failures /\ epoch \in Nat /\ failures' \in Nat
  BY ImportGrows, TypedImport DEF AllTyped, Typed
<1>2. CASE Begin
  <2>1. CASE Works /\ error' = epoch + 1
    BY <1>1, <2>1, NoneIsNoDefault DEF Named
  <2>2. CASE Fails
    BY <1>1, <2>2 DEF Fails, Named
  <2>3. QED
    BY <1>2, <2>1, <2>2 DEF Begin
<1>3. CASE UNCHANGED <<epoch, error>>
  BY <1>1, <1>3 DEF Named
<1>4. QED
  BY <1>2, <1>3 DEF Next, Plain, Keyword, Type, End

LEMMA ErrorsStep ==
  ASSUME AllTyped, ErrorsInv, [BindingNext]_bindingVars
  PROVE  ErrorsInv'
<1>1. /\ failures \in Nat /\ epoch \in Nat /\ error \in Nat \cup {None}
      /\ \A c \in Callers : outcome[c].of \in Nat /\ outcome[c].error \in Nat \cup {None}
  BY DEF AllTyped, Typed, CallsTyped, OutcomeRecords
<1>2. CASE Next /\ UNCHANGED callVars
  <2>1. Named'
    BY <1>2, NamedImport DEF ErrorsInv
  <2>2. epoch' \in Nat /\ epoch' >= epoch /\ failures' >= failures /\ failures' \in Nat
    BY <1>2, ImportGrows, TypedImport DEF AllTyped, Typed
  <2>3. outcome' = outcome
    BY <1>2 DEF callVars
  <2>4. ASSUME NEW c \in Callers, outcome[c].what = "module error"
        PROVE  \/ outcome[c].error # None /\ outcome[c].error \in outcome[c].of..epoch'
               \/ outcome[c].error = None /\ failures' > 0
    <3>1. CASE outcome[c].error = None
      <4>1. failures > 0
        BY <2>4, <3>1 DEF ErrorsInv, ErrorsAreOwnOrLater
      <4>2. QED
        BY <1>1, <2>2, <3>1, <4>1
    <3>2. CASE outcome[c].error # None
      <4>1. outcome[c].error \in outcome[c].of..epoch
        BY <2>4, <3>2 DEF ErrorsInv, ErrorsAreOwnOrLater
      <4>2. QED
        BY <1>1, <2>2, <3>2, <4>1
    <3>3. QED
      BY <3>1, <3>2
  <2>5. QED
    BY <2>1, <2>3, <2>4 DEF ErrorsInv, ErrorsAreOwnOrLater
<1>3. ASSUME NEW c \in Callers, CallStep(c) PROVE ErrorsInv'
  <2>1. epoch' = epoch /\ failures' = failures /\ error' = error
    BY <1>3 DEF CallStep, vars
  <2>2. CASE \E o \in OutcomeRecords : Leave(c, o) /\ o.what # "module error"
    <3>1. outcome \in [Callers -> OutcomeRecords]
      BY DEF AllTyped, CallsTyped
    <3>2. outcome'[c].what # "module error" /\ \A e \in Callers : e # c => outcome'[e] = outcome[e]
      BY <2>2, <3>1 DEF Leave
    <3>3. QED
      BY <2>1, <3>2 DEF ErrorsInv, Named, ErrorsAreOwnOrLater
  <2>3. CASE UNCHANGED outcome
    BY <2>1, <2>3 DEF ErrorsInv, Named, ErrorsAreOwnOrLater
  <2>4. CASE call[c].step = "converted" /\ Leave(c, Outcome("module error", call[c].of, error))
    <3>1. call[c].of \in Nat /\ call[c].of <= epoch /\ modules # {}
      BY <2>4 DEF AllTyped, CallsTyped, CallRecords
    <3>2. epoch > 0 /\ (error # None => error = epoch)
      BY <3>1 DEF AllTyped, Typed
    <3>3. error = None => failures > 0
      BY <3>2 DEF ErrorsInv, Named
    <3>4. outcome' = [outcome EXCEPT ![c] = [what |-> "module error", of |-> call[c].of, error |-> error]]
      BY <2>4 DEF Leave, Outcome
    <3>5. outcome \in [Callers -> OutcomeRecords]
      BY DEF AllTyped, CallsTyped
    <3>6. outcome'[c].of = call[c].of /\ outcome'[c].error = error
      BY <3>4, <3>5
    <3>7. \A e \in Callers : e # c => outcome'[e] = outcome[e]
      BY <3>4, <3>5
    <3>8. error # None => error \in call[c].of..epoch
      BY <1>1, <3>1, <3>2
    <3>9. QED
      BY <2>1, <3>3, <3>6, <3>7, <3>8 DEF ErrorsInv, Named, ErrorsAreOwnOrLater
  <2>5. ASSUME NEW what \in {"returned", "MemoryError", "undefined"}, NEW n \in Nat
        PROVE  Outcome(what, n, None) \in OutcomeRecords /\ Outcome(what, n, None).what # "module error"
    BY DEF Outcome, OutcomeRecords
  <2>6. call[c].of \in Nat /\ \A m \in modules : m.epoch \in Nat
    BY DEF AllTyped, Typed, CallsTyped, CallRecords
  <2>7. QED
    BY <1>3, <2>2, <2>3, <2>4, <2>5, <2>6 DEF CallStep
<1>4. CASE UNCHANGED bindingVars
  BY <1>4 DEF bindingVars, callVars, vars, ErrorsInv, Named, ErrorsAreOwnOrLater
<1>5. QED
  BY <1>2, <1>3, <1>4, BindingSteps

(***************************************************************************)
(* THEOREM: a call that raises the module's error raises its own import's  *)
(* type or a later one, and none only where an import has failed.          *)
(***************************************************************************)
THEOREM ErrorsNameALiveType == BindingSpec => []ErrorsAreOwnOrLater
<1>1. BindingSpec => []ErrorsInv
  BY AllTypedAlways, InitErrors, ErrorsStep, PTL DEF BindingSpec
<1>2. ErrorsInv => ErrorsAreOwnOrLater
  BY DEF ErrorsInv
<1>3. QED
  BY <1>1, <1>2, PTL

-----------------------------------------------------------------------------
(* Defaults.                                                               *)

\* d is the default of some function's spec.
HeldBySpec(d) == d # None /\ \E f \in Functions : spec[f].default = d

Ages ==
  \A d \in defaults : /\ d \in Nat \X Nat /\ d[1] <= epoch
                      /\ pc = "in" /\ d[1] = epoch => d[2] < at

Unshared ==
  \A f, g \in Functions : spec[f].default = spec[g].default /\ f # g => spec[f].default = None

DefaultsInv ==
  /\ \A d : d \in defaults <=> HeldBySpec(d) \/ d \in lost
  /\ \A d \in lost : ~HeldBySpec(d)
  /\ Unshared
  /\ \A f \in Functions : spec[f].epoch = 0 => spec[f].default = None
  /\ Ages

LEMMA DefaultsInvStates ==
  ASSUME DefaultsInv
  PROVE  DefaultsBelongToSpecs
  BY DEF DefaultsInv, DefaultsBelongToSpecs, HeldBySpec

LEMMA InitDefaults ==
  ASSUME BindingInit
  PROVE  DefaultsInv
<1>1. /\ \A f \in Functions : spec[f].default = None
      /\ defaults = {} /\ lost = {}
  BY DEF BindingInit, Init, Unfilled
<1>2. QED
  BY <1>1 DEF DefaultsInv, HeldBySpec, Unshared, Ages

LEMMA ClaimsKeepDefaults ==
  ASSUME AllTyped, DefaultsInv, pc = "in", NEW f \in Functions, NEW d \in {None, Fresh}, NEW whole \in BOOLEAN,
         NEW orphans \in {{}, {Fresh}}, Claims(f, d, whole, orphans), orphans = {} \/ d = None
  PROVE  /\ \A x : x \in defaults' <=> HeldBySpec(x)' \/ x \in lost'
         /\ \A x \in lost' : ~HeldBySpec(x)'
         /\ Unshared'
         /\ \A g \in Functions : spec'[g].epoch = 0 => spec'[g].default = None
         /\ defaults' \subseteq defaults \cup {Fresh}
<1>1. /\ at \in Nat /\ epoch \in Nat /\ epoch > 0 /\ spec \in [Functions -> Specs] /\ Fresh # None
      /\ Fresh[1] = epoch /\ Fresh[2] = at
  BY BlockIsTyped, NoneIsNoDefault DEF AllTyped, Typed, Fresh
<1>2. Fresh \notin defaults
  <2>1. ASSUME Fresh \in defaults PROVE FALSE
    <3>1. Fresh[2] < at
      BY <1>1, <2>1 DEF DefaultsInv, Ages
    <3>2. QED
      BY <1>1, <3>1
  <2>2. QED
    BY <2>1
<1>3. /\ spec'[f].default = d /\ spec'[f].epoch = epoch
      /\ \A g \in Functions : g # f => spec'[g] = spec[g]
  BY <1>1 DEF Claims, Filled
<1>4. /\ defaults' = (defaults \ {spec[f].default}) \cup ({d} \ {None}) \cup orphans
      /\ lost' = lost \cup orphans
  BY DEF Claims
<1>5. \A g \in Functions : spec[g].default # Fresh
  BY <1>1, <1>2 DEF DefaultsInv, HeldBySpec
<1>6. \A x : HeldBySpec(x)' <=> x # None /\ (x = d \/ (HeldBySpec(x) /\ x # spec[f].default))
  BY <1>3 DEF DefaultsInv, HeldBySpec, Unshared
<1>7. None \notin defaults /\ None \notin lost
  BY NoneIsNoDefault DEF DefaultsInv, Ages
<1>8. \A x : x \in lost => x # spec[f].default
  BY <1>7 DEF DefaultsInv, HeldBySpec
<1>9. \A x : x \in defaults' <=> HeldBySpec(x)' \/ x \in lost'
  BY <1>1, <1>4, <1>6, <1>7, <1>8 DEF DefaultsInv
<1>10. \A x \in lost' : ~HeldBySpec(x)'
  <2>1. Fresh \notin lost /\ ~HeldBySpec(Fresh)
    BY <1>2 DEF DefaultsInv
  <2>2. QED
    BY <1>1, <1>4, <1>6, <2>1 DEF DefaultsInv
<1>11. Unshared'
  BY <1>3, <1>5 DEF DefaultsInv, Unshared
<1>12. \A g \in Functions : spec'[g].epoch = 0 => spec'[g].default = None
  BY <1>1, <1>3 DEF DefaultsInv
<1>13. defaults' \subseteq defaults \cup {Fresh}
  BY <1>4
<1>14. QED
  BY <1>9, <1>10, <1>11, <1>12, <1>13

LEMMA DefaultsImport ==
  ASSUME AllTyped, DefaultsInv, Next
  PROVE  DefaultsInv'
<1>1. epoch \in Nat /\ at \in Nat /\ Fresh \in Nat \X Nat /\ Fresh[1] = epoch /\ Fresh[2] = at
  BY BlockIsTyped DEF AllTyped, Typed, Fresh
<1>2. \A d \in defaults : d[1] \in Nat /\ d[2] \in Nat
  BY DEF DefaultsInv, Ages
<1>3. CASE Begin
  <2>1. UNCHANGED <<spec, defaults, lost>>
    BY <1>3 DEF Begin, specVars
  <2>2. \/ epoch' = epoch + 1
        \/ epoch' = epoch /\ pc' = pc /\ at' = at
    BY <1>3 DEF Begin
  <2>3. Ages'
    BY <1>1, <1>2, <2>1, <2>2 DEF DefaultsInv, Ages
  <2>4. QED
    BY <2>1, <2>3 DEF DefaultsInv, Unshared, HeldBySpec
<1>4. ASSUME pc = "in", SpecStep, Moves, UNCHANGED epoch PROVE DefaultsInv'
  <2>1. ASSUME defaults' \subseteq defaults \cup {Fresh} PROVE Ages'
    <3>1. ASSUME NEW d \in defaults'
          PROVE  /\ d \in Nat \X Nat /\ d[1] <= epoch
                 /\ pc' = "in" /\ d[1] = epoch => d[2] < at'
      <4>1. CASE d \in defaults
        <5>1. d \in Nat \X Nat /\ d[1] <= epoch /\ (d[1] = epoch => d[2] < at)
          BY <1>4, <4>1 DEF DefaultsInv, Ages
        <5>2. QED
          BY <1>1, <1>2, <1>4, <4>1, <5>1 DEF Moves
      <4>2. CASE d = Fresh
        BY <1>1, <1>4, <4>2 DEF Moves
      <4>3. QED
        BY <2>1, <3>1, <4>1, <4>2
    <3>2. QED
      BY <1>4, <3>1 DEF Ages
  <2>2. CASE UNCHANGED specVars
    <3>1. UNCHANGED <<spec, defaults, lost>>
      BY <2>2 DEF specVars
    <3>2. Ages'
      BY <2>1, <3>1
    <3>3. QED
      BY <3>1, <3>2 DEF DefaultsInv, Unshared, HeldBySpec
  <2>3. ASSUME NEW f \in Functions, NEW d \in {None, Fresh}, NEW whole \in BOOLEAN,
               NEW orphans \in {{}, {Fresh}}, Claims(f, d, whole, orphans), orphans = {} \/ d = None
        PROVE  DefaultsInv'
    BY <1>4, <2>1, <2>3, ClaimsKeepDefaults DEF DefaultsInv
  <2>4. QED
    BY <1>4, <2>2, <2>3 DEF SpecStep
<1>5. CASE Plain
  BY <1>4, <1>5 DEF Plain, Statement, SpecStep, Moves, Refuse, Proceed
<1>6. CASE Keyword
  BY <1>4, <1>6, KeywordStep DEF AllTyped
<1>7. CASE Type
  BY <1>4, <1>7, TypeStepOfType DEF AllTyped
<1>8. CASE End
  <2>1. UNCHANGED <<spec, defaults, lost, epoch>> /\ pc' = "out"
    BY <1>8 DEF End, specVars, Refuse
  <2>2. QED
    BY <2>1 DEF DefaultsInv, Unshared, HeldBySpec, Ages
<1>9. QED
  BY <1>3, <1>5, <1>6, <1>7, <1>8 DEF Next

LEMMA DefaultsStep ==
  ASSUME AllTyped, DefaultsInv, [BindingNext]_bindingVars
  PROVE  DefaultsInv'
<1>1. CASE UNCHANGED vars
  BY <1>1 DEF vars, specVars, DefaultsInv, Unshared, HeldBySpec, Ages
<1>2. QED
  BY <1>1, BindingSteps, DefaultsImport DEF CallStep, bindingVars

(***************************************************************************)
(* THEOREM: a default object is referenced exactly as long as a keyword    *)
(* spec holds it (dispatch.hpp), through any refused claim, failed or      *)
(* repeated import, and those that no spec had the memory to hold.         *)
(***************************************************************************)
THEOREM SpecsOwnTheirDefaults == BindingSpec => []DefaultsBelongToSpecs
<1>1. BindingSpec => []DefaultsInv
  BY AllTypedAlways, InitDefaults, DefaultsStep, PTL DEF BindingSpec
<1>2. QED
  BY <1>1, DefaultsInvStates, PTL

(***************************************************************************)
(* A borrowed default is the one its spec had at the claim that the call   *)
(* parsed by; no claim but a later import's replaces it.                   *)
(***************************************************************************)
Lent(c) ==
  Borrows(c) => \/ spec[call[c].fn].epoch > call[c].claim
                \/ /\ spec[call[c].fn].default = call[c].default
                   /\ spec[call[c].fn].epoch = call[c].claim

LoansInv == DefaultsInv /\ \A c \in Callers : Lent(c)

LEMMA LoansOutlive ==
  ASSUME AllTyped, LoansInv
  PROVE  DefaultOutlivesTheCall
<1>1. ASSUME NEW c \in Callers, Borrows(c), call[c].default \notin defaults
      PROVE  spec[call[c].fn].epoch > call[c].claim
  <2>1. call[c].fn \in Functions /\ call[c].default # None
    BY <1>1 DEF AllTyped, CallsTyped, Borrows
  <2>2. ~HeldBySpec(call[c].default)
    BY <1>1 DEF LoansInv, DefaultsInv
  <2>3. QED
    BY <1>1, <2>1, <2>2 DEF LoansInv, Lent, HeldBySpec
<1>2. QED
  BY <1>1 DEF DefaultOutlivesTheCall

LEMMA ClaimsMoveOn ==
  ASSUME Typed, SpecStep, NEW f \in Functions
  PROVE  \/ spec'[f] = spec[f]
         \/ spec[f].epoch = 0
         \/ spec'[f].epoch = epoch /\ epoch > spec[f].epoch
<1>1. spec \in [Functions -> Specs] /\ spec[f].epoch \in Nat /\ spec[f].epoch <= epoch /\ epoch \in Nat
  BY DEF Typed, Specs
<1>2. CASE UNCHANGED specVars
  BY <1>2 DEF specVars
<1>3. ASSUME NEW g \in Functions, NEW d, NEW whole \in BOOLEAN, NEW orphans, Claims(g, d, whole, orphans)
      PROVE  \/ spec'[f] = spec[f]
             \/ spec[f].epoch = 0
             \/ spec'[f].epoch = epoch /\ epoch > spec[f].epoch
  BY <1>1, <1>3 DEF Claims, Claimable, Filled
<1>4. QED
  BY <1>2, <1>3 DEF SpecStep

LEMMA ImportSpecStep ==
  ASSUME Typed, Next
  PROVE  SpecStep
  BY KeywordStep, TypeStepOfType DEF Next, Begin, Plain, End, SpecStep

LEMMA LoansStep ==
  ASSUME AllTyped, LoansInv, [BindingNext]_bindingVars
  PROVE  LoansInv'
<1>1. DefaultsInv'
  BY DefaultsStep DEF LoansInv
<1>2. \A f \in Functions : spec[f].epoch \in Nat /\ spec[f].epoch <= epoch
  BY DEF AllTyped, Typed, Specs
<1>3. \A c \in Callers : /\ call[c].claim \in Nat /\ call[c].claim <= epoch
                         /\ call[c].step # "none" => call[c].fn \in Functions
  BY DEF AllTyped, CallsTyped, CallRecords
<1>4. CASE Next /\ UNCHANGED callVars
  <2>1. ASSUME NEW c \in Callers, Borrows(c)
        PROVE  \/ spec'[call[c].fn].epoch > call[c].claim
               \/ /\ spec'[call[c].fn].default = call[c].default
                  /\ spec'[call[c].fn].epoch = call[c].claim
    <3> DEFINE f == call[c].fn
    <3>1. f \in Functions /\ call[c].default # None
      BY <1>3, <2>1 DEF Borrows
    <3>2. /\ epoch \in Nat /\ spec[f].epoch \in Nat /\ call[c].claim \in Nat
      BY <1>2, <1>3, <3>1 DEF AllTyped, Typed
    <3>3. spec[f].epoch = 0 => spec[f].default = None
      BY <3>1 DEF LoansInv, DefaultsInv
    <3>4. \/ spec[f].epoch > call[c].claim
          \/ spec[f].default = call[c].default /\ spec[f].epoch = call[c].claim
      BY <2>1 DEF LoansInv, Lent
    <3>5. spec[f].epoch # 0
      BY <3>1, <3>2, <3>3, <3>4
    <3>6. spec'[f] = spec[f] \/ (spec'[f].epoch = epoch /\ epoch > spec[f].epoch)
      BY <1>4, <3>1, <3>5, ImportSpecStep, ClaimsMoveOn DEF AllTyped
    <3>7. QED
      BY <3>2, <3>4, <3>6
  <2>2. call' = call
    BY <1>4 DEF callVars
  <2>3. QED
    BY <1>1, <2>1, <2>2 DEF LoansInv, Lent, Borrows
<1>5. ASSUME NEW c \in Callers, CallStep(c) PROVE LoansInv'
  <2>1. UNCHANGED spec /\ call \in [Callers -> CallRecords]
    BY <1>5 DEF CallStep, vars, specVars, AllTyped, CallsTyped
  <2>2. ASSUME NEW m \in modules, NEW f \in Functions, NEW d \in {None, spec[f].default},
               call' = [call EXCEPT ![c] = [of |-> m.epoch, fn |-> f, default |-> d,
                                            claim |-> spec[f].epoch, step |-> "parsed"]]
        PROVE  LoansInv'
    BY <1>1, <2>1, <2>2 DEF LoansInv, Lent, Borrows
  <2>3. ASSUME \A e \in Callers : e # c => call'[e] = call[e], call'[c].step # "parsed"
        PROVE  LoansInv'
    BY <1>1, <2>1, <2>3 DEF LoansInv, Lent, Borrows
  <2>4. ASSUME NEW o, Leave(c, o) PROVE LoansInv'
    <3>1. call'[c].step # "parsed" /\ \A e \in Callers : e # c => call'[e] = call[e]
      BY <2>1, <2>4 DEF Leave, NoCall
    <3>2. QED
      BY <2>3, <3>1
  <2>5. CASE call' = [call EXCEPT ![c].step = "converted", ![c].default = None]
    <3>1. call'[c].step # "parsed" /\ \A e \in Callers : e # c => call'[e] = call[e]
      BY <2>1, <2>5 DEF CallRecords
    <3>2. QED
      BY <2>3, <3>1
  <2>6. QED
    BY <1>5, <2>2, <2>4, <2>5 DEF CallStep
<1>6. CASE UNCHANGED bindingVars
  BY <1>1, <1>6 DEF bindingVars, callVars, vars, specVars, LoansInv, Lent, Borrows
<1>7. QED
  BY <1>4, <1>5, <1>6, BindingSteps

LEMMA InitLoans ==
  ASSUME BindingInit
  PROVE  LoansInv
  BY InitDefaults DEF BindingInit, LoansInv, Lent, Borrows, NoCall

(***************************************************************************)
(* THEOREM: a default that a call borrowed is released only by a later     *)
(* import's claim of the function's spec (dispatch.hpp).                   *)
(***************************************************************************)
THEOREM OnlyLaterClaimsRelease == BindingSpec => []DefaultOutlivesTheCall
  BY AllTypedAlways, InitLoans, LoansStep, LoansOutlive, PTL DEF BindingSpec

-----------------------------------------------------------------------------
(* The method table.                                                       *)

\* The entries that the statements before n make.
Entries(n) == Cardinality({i \in 1..(n - 1) : block[i].what # "type"})

TableInv ==
  /\ pc = "in" => table.size = Entries(at)
  /\ Imported => table.capacity > Entries(Len(block) + 1)

\* Entries counts one at a time.
LEMMA EntriesCount ==
  ASSUME Typed
  PROVE  /\ Entries(1) = 0
         /\ \A n \in DOMAIN block :
              /\ Entries(n) \in Nat /\ Entries(n + 1) \in Nat
              /\ Entries(n + 1) = IF block[n].what = "type" THEN Entries(n) ELSE Entries(n) + 1
              /\ block[n].what # "type" => Entries(n) < Entries(Len(block) + 1)
         /\ Entries(Len(block) + 1) \in Nat
<1> DEFINE S(n) == {i \in 1..(n - 1) : block[i].what # "type"}
<1>1. Len(block) \in Nat /\ DOMAIN block = 1..Len(block)
  BY BlockIsTyped
<1>2. ASSUME NEW n \in Nat PROVE IsFiniteSet(S(n))
  <2>1. IsFiniteSet(1..(n - 1))
    BY FS_Interval
  <2>2. S(n) \subseteq 1..(n - 1)
    OBVIOUS
  <2>3. QED
    BY <2>1, <2>2, FS_Subset
<1>3. \A n \in Nat : Cardinality(S(n)) \in Nat
  BY <1>2, FS_CardinalityType
<1>4. S(1) = {}
  OBVIOUS
<1>5. Entries(1) = 0
  BY <1>4, FS_EmptySet DEF Entries
<1> HIDE DEF S
<1>6. ASSUME NEW n \in DOMAIN block
      PROVE  /\ Entries(n) \in Nat /\ Entries(n + 1) \in Nat
             /\ Entries(n + 1) = IF block[n].what = "type" THEN Entries(n) ELSE Entries(n) + 1
             /\ block[n].what # "type" => Entries(n) < Entries(Len(block) + 1)
  <2>1. n \in Nat /\ n + 1 \in Nat /\ n >= 1 /\ n <= Len(block)
    BY <1>1
  <2>2. n \notin S(n)
    BY <2>1 DEF S
  <2>3. S(n + 1) = IF block[n].what = "type" THEN S(n) ELSE S(n) \cup {n}
    BY <2>1 DEF S
  <2>4. Cardinality(S(n) \cup {n}) = Cardinality(S(n)) + 1
    BY <1>2, <2>1, <2>2, FS_AddElement
  <2>5. S(n + 1) \subseteq S(Len(block) + 1)
    BY <1>1, <2>1 DEF S
  <2>6. Cardinality(S(n + 1)) <= Cardinality(S(Len(block) + 1))
    BY <1>1, <1>2, <2>5, FS_Subset
  <2>7. /\ Cardinality(S(n)) \in Nat /\ Cardinality(S(n + 1)) \in Nat
        /\ Cardinality(S(Len(block) + 1)) \in Nat
    <3>1. Len(block) + 1 \in Nat
      BY <1>1
    <3>2. QED
      BY <1>3, <2>1, <3>1, Zenon
  <2>8. /\ Entries(n) = Cardinality(S(n)) /\ Entries(n + 1) = Cardinality(S(n + 1))
        /\ Entries(Len(block) + 1) = Cardinality(S(Len(block) + 1))
    BY DEF Entries, S
  <2>9. QED
    BY <2>3, <2>4, <2>6, <2>7, <2>8
<1>7. Entries(Len(block) + 1) \in Nat
  BY <1>1, <1>3 DEF Entries, S
<1>8. QED
  BY <1>5, <1>6, <1>7

LEMMA InitTable ==
  ASSUME BindingInit
  PROVE  TableInv
  BY DEF BindingInit, Init, TableInv, Imported

\* Every step of an import keeps the count, and moves no table that an imported module has.
LEMMA TableImport ==
  ASSUME Typed, TableInv, Next
  PROVE  /\ TableInv'
         /\ Imported => table'.moves = table.moves
<1>1. /\ table \in [size : Nat, capacity : Nat, moves : Nat] /\ table.size <= table.capacity
      /\ Entries(Len(block) + 1) \in Nat /\ at \in 1..(Len(block) + 1)
  BY EntriesCount DEF Typed
<1>2. block' = block
  BY ImportGrows
<1>4. CASE Begin
  <2>1. \/ pc' = "in" /\ at' = 1 /\ table' = [table EXCEPT !.size = 0]
        \/ UNCHANGED <<pc, at, table>>
    BY <1>4 DEF Begin
  <2>2. UNCHANGED modules
    BY <1>4 DEF Begin
  <2>3. Entries(1) = 0
    BY EntriesCount
  <2>4. table'.moves = table.moves /\ table'.capacity = table.capacity
    BY <1>1, <2>1
  <2>5. pc' = "in" => table'.size = Entries(at')
    BY <1>1, <2>1, <2>3 DEF TableInv
  <2>6. QED
    BY <1>2, <2>2, <2>4, <2>5 DEF TableInv, Imported, Entries
<1>5. ASSUME pc = "in", at \in DOMAIN block, block[at].what # "type", UNCHANGED modules,
             \/ pc' = "in" /\ at' = at + 1 /\ table' = Pushed(table)
             \/ pc' = "out" /\ table' = table
      PROVE  TableInv' /\ (Imported => table'.moves = table.moves)
  <2>1. /\ Entries(at + 1) = Entries(at) + 1 /\ Entries(at) \in Nat
        /\ Entries(at) < Entries(Len(block) + 1)
    BY <1>5, EntriesCount
  <2>2. table.size = Entries(at)
    BY <1>5 DEF TableInv
  <2>3. /\ Pushed(table).size = table.size + 1 /\ Pushed(table).capacity >= table.capacity
        /\ Pushed(table).capacity \in Nat
        /\ table.size < table.capacity => Pushed(table).moves = table.moves
    BY <1>1, PushedIsTyped
  <2>4. Imported => Pushed(table).moves = table.moves
    BY <1>1, <2>1, <2>2, <2>3 DEF TableInv
  <2>5. pc' = "in" => table'.size = Entries(at')
    BY <1>5, <2>1, <2>2, <2>3
  <2>6. Imported => table'.capacity > Entries(Len(block) + 1)
    BY <1>1, <1>5, <2>3 DEF TableInv
  <2>7. QED
    BY <1>2, <1>5, <2>4, <2>5, <2>6 DEF TableInv, Imported, Entries
<1>6. CASE Plain
  BY <1>5, <1>6 DEF Plain, Statement, Proceed, Refuse
<1>7. CASE Keyword
  BY <1>5, <1>7, KeywordStep DEF Moves
<1>8. CASE Type
  <2>1. /\ pc = "in" /\ at \in DOMAIN block /\ block[at].what = "type"
        /\ Moves /\ UNCHANGED <<table, modules>>
    BY <1>8, TypeStepOfType
  <2>2. Entries(at + 1) = Entries(at)
    BY <2>1, EntriesCount
  <2>3. QED
    BY <1>2, <2>1, <2>2 DEF TableInv, Imported, Entries, Moves
<1>9. CASE End
  <2>1. /\ pc = "in" /\ at = Len(block) + 1 /\ pc' = "out"
        /\ \/ UNCHANGED <<table, modules>>
           \/ table' = Pushed(table)
    BY <1>9 DEF End, Refuse
  <2>2. table.size = Entries(Len(block) + 1)
    BY <2>1 DEF TableInv
  <2>3. CASE table' = Pushed(table)
    <3>1. /\ Pushed(table).size = table.size + 1 /\ Pushed(table).size <= Pushed(table).capacity
          /\ Pushed(table).capacity \in Nat
          /\ table.size < table.capacity => Pushed(table).moves = table.moves
      BY <1>1, PushedIsTyped
    <3>2. table'.capacity > Entries(Len(block) + 1)
      BY <1>1, <2>2, <2>3, <3>1
    <3>3. Imported => table'.moves = table.moves
      BY <1>1, <2>2, <2>3, <3>1 DEF TableInv
    <3>4. QED
      BY <1>2, <2>1, <3>2, <3>3 DEF TableInv, Imported, Entries
  <2>4. CASE UNCHANGED <<table, modules>>
    BY <1>2, <2>1, <2>4 DEF TableInv, Imported, Entries
  <2>5. QED
    BY <2>1, <2>3, <2>4
<1>10. QED
  BY <1>4, <1>6, <1>7, <1>8, <1>9 DEF Next

\* One step's part of LiveTablesStay.
TablesStayInStep ==
  Imported => table'.moves = table.moves
              /\ \A T \in Types : type[T] # None => type'[T] = type[T]

LEMMA TableStep ==
  ASSUME AllTyped, TableInv, [BindingNext]_bindingVars
  PROVE  TableInv' /\ TablesStayInStep
<1>1. CASE Next
  <2>1. TypeStep
    BY <1>1, TypeStepOfType DEF Next, Begin, Plain, Keyword, End, TypeStep, AllTyped
  <2>2. \A T \in Types : type[T] # None => type'[T] = type[T]
    BY <2>1 DEF TypeStep, AllTyped, Typed
  <2>3. QED
    BY <1>1, <2>2, TableImport DEF AllTyped, TablesStayInStep
<1>2. CASE UNCHANGED vars
  BY <1>2 DEF vars, TableInv, Imported, Entries, TablesStayInStep
<1>3. QED
  BY <1>1, <1>2, BindingSteps DEF CallStep, bindingVars

(***************************************************************************)
(* THEOREM: the method table does not move and no type is replaced under   *)
(* an imported module (module.hpp, class.hpp).                             *)
(***************************************************************************)
THEOREM TablesOutliveImports == BindingSpec => LiveTablesStay
<1>1. AllTyped /\ TableInv /\ [BindingNext]_bindingVars => TableInv'
  BY TableStep
<1>2. BindingSpec => []TableInv
  BY AllTypedAlways, InitTable, <1>1, PTL DEF BindingSpec
<1>3. AllTyped /\ TableInv /\ [BindingNext]_bindingVars
        => [Imported => /\ table'.moves = table.moves
                        /\ \A T \in Types : type[T] # None => type'[T] = type[T]]_vars
  BY TableStep DEF TablesStayInStep
<1>4. BindingSpec => [][Imported => /\ table'.moves = table.moves
                                    /\ \A T \in Types : type[T] # None => type'[T] = type[T]]_vars
  BY AllTypedAlways, <1>2, <1>3, PTL DEF BindingSpec
<1>5. QED
  BY <1>4 DEF LiveTablesStay

-----------------------------------------------------------------------------
(* Double registration.                                                    *)

\* Two keyword statements before n are not of one function.
NoDoubleBefore(n) ==
  \A i, j \in DOMAIN block :
    i < n /\ j < n /\ block[i].what = "keyword" /\ block[j].what = "keyword" /\ block[i].fn = block[j].fn
      => i = j

DoubleInv ==
  /\ pc = "in" => \A i \in DOMAIN block : i < at /\ block[i].what = "keyword" => spec[block[i].fn].epoch = epoch
  /\ pc = "in" /\ ~pending => NoDoubleBefore(at)
  /\ DoubleDefNeverImports

\* A statement that PyInit leaves behind has claimed its spec, or an error is pending.
LEMMA KeywordClaims ==
  ASSUME Typed, Keyword, pc' = "in"
  PROVE  /\ spec'[block[at].fn].epoch = epoch
         /\ ~pending' => ~pending /\ spec[block[at].fn].epoch # epoch
<1> DEFINE f == block[at].fn
<1>1. pc = "in" /\ f \in Functions
  BY BlockIsTyped, StatementFields DEF Keyword, Statement
<1>2. /\ epoch \in Nat /\ epoch > 0 /\ spec \in [Functions -> Specs] /\ pending \in BOOLEAN
  BY <1>1 DEF Typed
<1>3. Register(f)
  BY DEF Keyword, Refuse
<1>4. CASE ~Claimable(f)
  <2>1. spec[f].epoch = epoch /\ UNCHANGED spec /\ pending' = TRUE
    BY <1>3, <1>4 DEF Claimable, Register, specVars
  <2>2. QED
    BY <2>1
<1>5. CASE Claimable(f)
  <2>1. spec[f].epoch # epoch
    BY <1>2, <1>5 DEF Claimable
  <2>2. \E d : spec' = [spec EXCEPT ![f] = Filled(d, TRUE)]
    BY <1>3, <1>5 DEF Register, Fill, FillWith
  <2>3. spec'[f].epoch = epoch
    BY <1>1, <1>2, <2>2 DEF Filled
  <2>4. ~pending' => ~pending
    BY <1>3, <1>5 DEF Register
  <2>5. QED
    BY <2>1, <2>3, <2>4
<1>6. QED
  BY <1>4, <1>5

\* What an import has claimed it keeps.
LEMMA ClaimsStand ==
  ASSUME Typed, SpecStep, NEW f \in Functions, spec[f].epoch = epoch, epoch > 0
  PROVE  spec'[f].epoch = epoch
  BY ClaimsMoveOn DEF Typed

LEMMA InitDouble ==
  ASSUME BindingInit
  PROVE  DoubleInv
  BY DEF BindingInit, Init, DoubleInv, DoubleDefNeverImports, Imported

LEMMA DoubleImport ==
  ASSUME Typed, DoubleInv, Next
  PROVE  DoubleInv'
<1>1. /\ block' = block /\ DOMAIN block = 1..Len(block) /\ Len(block) \in Nat
      /\ at \in 1..(Len(block) + 1) /\ epoch \in Nat
      /\ \A i \in DOMAIN block : block[i].what = "keyword" => block[i].fn \in Functions
  BY ImportGrows, BlockIsTyped, StatementFields DEF Typed
<1>2. CASE Begin
  <2>1. \/ pc' = "in" /\ at' = 1
        \/ pc' = "out"
    BY <1>2 DEF Begin
  <2>2. modules' = modules
    BY <1>2 DEF Begin
  <2>3. QED
    BY <1>1, <2>1, <2>2 DEF DoubleInv, DoubleDefNeverImports, Imported, NoDoubleBefore
<1>3. CASE pc' = "out" /\ UNCHANGED modules
  BY <1>1, <1>3 DEF DoubleInv, DoubleDefNeverImports, Imported
<1>4. ASSUME pc = "in", pc' = "in", at' = at + 1, at \in DOMAIN block, UNCHANGED <<modules, epoch>>, SpecStep,
             ~pending' => ~pending,
             block[at].what = "keyword" => /\ spec'[block[at].fn].epoch = epoch
                                           /\ ~pending' => spec[block[at].fn].epoch # epoch
      PROVE  DoubleInv'
  <2>1. epoch > 0
    BY <1>4 DEF Typed
  <2>2. ASSUME NEW i \in DOMAIN block, i < at', block[i].what = "keyword"
        PROVE  spec'[block[i].fn].epoch = epoch
    <3>1. CASE i = at
      BY <1>4, <2>2, <3>1
    <3>2. CASE i # at
      <4>1. i < at
        BY <1>1, <1>4, <2>2, <3>2
      <4>2. spec[block[i].fn].epoch = epoch
        BY <1>4, <2>2, <4>1 DEF DoubleInv
      <4>3. QED
        BY <1>1, <1>4, <2>1, <2>2, <4>2, ClaimsStand
    <3>3. QED
      BY <3>1, <3>2
  <2>3. ASSUME ~pending', NEW i \in DOMAIN block, NEW j \in DOMAIN block, i < at', j < at',
               block[i].what = "keyword", block[j].what = "keyword", block[i].fn = block[j].fn
        PROVE  i = j
    <3>1. \A k \in DOMAIN block : k < at /\ block[k].what = "keyword" => spec[block[k].fn].epoch = epoch
      BY <1>4 DEF DoubleInv
    <3>2. (i < at \/ i = at) /\ (j < at \/ j = at)
      BY <1>1, <1>4, <2>3
    <3>3. CASE i < at /\ j < at
      BY <1>4, <2>3, <3>3 DEF DoubleInv, NoDoubleBefore
    <3>4. CASE i = at \/ j = at
      BY <1>4, <2>3, <3>1, <3>2, <3>4
    <3>5. QED
      BY <3>2, <3>3, <3>4
  <2>4. DoubleDefNeverImports'
    BY <1>1, <1>4 DEF DoubleInv, DoubleDefNeverImports, Imported
  <2>5. QED
    BY <1>1, <1>4, <2>2, <2>3, <2>4 DEF DoubleInv, NoDoubleBefore
<1>5. CASE Plain
  <2>1. /\ pc = "in" /\ at \in DOMAIN block /\ block[at].what # "keyword" /\ SpecStep
        /\ UNCHANGED <<modules, epoch>>
        /\ (pc' = "in" /\ at' = at + 1 /\ pending' = pending) \/ pc' = "out"
    BY <1>5 DEF Plain, Statement, SpecStep, Refuse, Proceed
  <2>2. QED
    BY <1>3, <1>4, <2>1
<1>6. CASE Keyword
  <2>1. /\ pc = "in" /\ at \in DOMAIN block /\ SpecStep /\ UNCHANGED <<modules, epoch>>
        /\ (pc' = "in" /\ at' = at + 1) \/ pc' = "out"
    BY <1>6, KeywordStep DEF Moves
  <2>2. QED
    BY <1>3, <1>4, <1>6, <2>1, KeywordClaims
<1>7. CASE Type
  <2>1. /\ pc = "in" /\ at \in DOMAIN block /\ block[at].what = "type"
        /\ SpecStep /\ UNCHANGED <<modules, epoch>>
        /\ (pc' = "in" /\ at' = at + 1) \/ pc' = "out"
        /\ pending' \in BOOLEAN
        /\ pending' = FALSE /\ pc' = "in" => pending = FALSE
    BY <1>7, TypeStepOfType DEF Moves
  <2>2. QED
    BY <1>3, <1>4, <2>1
<1>8. CASE End
  <2>1. pc = "in" /\ pc' = "out" /\ at = Len(block) + 1
    BY <1>8 DEF End, Refuse
  <2>2. CASE ~pending
    <3>1. DoubleDefNeverImports'
      BY <1>1, <2>1, <2>2 DEF DoubleInv, NoDoubleBefore, DoubleDefNeverImports
    <3>2. QED
      BY <2>1, <3>1 DEF DoubleInv
  <2>3. CASE pending
    BY <1>3, <1>8, <2>1, <2>3 DEF End
  <2>4. QED
    BY <2>2, <2>3
<1>9. QED
  BY <1>2, <1>5, <1>6, <1>7, <1>8 DEF Next

LEMMA DoubleStep ==
  ASSUME AllTyped, DoubleInv, [BindingNext]_bindingVars
  PROVE  DoubleInv'
<1>1. CASE UNCHANGED vars
  BY <1>1 DEF vars, specVars, DoubleInv, NoDoubleBefore, DoubleDefNeverImports, Imported
<1>2. QED
  BY <1>1, BindingSteps, DoubleImport DEF CallStep, bindingVars, AllTyped

(***************************************************************************)
(* THEOREM: no import, first or retried, succeeds of a module that         *)
(* registers a function with keywords twice (dispatch.hpp, module.hpp).    *)
(***************************************************************************)
THEOREM DoubleDefsAreRefused == BindingSpec => []DoubleDefNeverImports
<1>1. BindingSpec => []DoubleInv
  BY AllTypedAlways, InitDouble, DoubleStep, PTL DEF BindingSpec
<1>2. DoubleInv => DoubleDefNeverImports
  BY DEF DoubleInv
<1>3. QED
  BY <1>1, <1>2, PTL
-----------------------------------------------------------------------------
(* An imported module is whole.  What the present import has made so far,  *)
(* what a successful one leaves, and what later ones cannot take from it.  *)

IsKeyword(i, f) == block[i].what = "keyword" /\ block[i].fn = f
Declares(i) == type[block[i].of].methods = block[i].methods /\ type[block[i].of].factory = block[i].factory

\* A type that import e built with the constructor f, whose spec is then e's own.
Constructs(T, f, e) == type[T] # None /\ type[T].epoch = e /\ type[T].factory = f

SpecsDone == \A f \in Functions : spec[f].epoch = epoch => spec[f].default # None
StatementDone(j) ==
  /\ \A f \in Functions : IsKeyword(j, f) => spec[f].epoch = epoch
  /\ block[j].what = "type" => type[block[j].of] # None
  /\ Builder(j) /\ type[block[j].of] # None /\ type[block[j].of].epoch = epoch => Declares(j)
ConstructorsDone(n) ==
  \A T \in Types, f \in Functions : Constructs(T, f, epoch) =>
    spec[f].epoch = epoch /\ \A k \in DOMAIN block : k < n => ~IsKeyword(k, f)

\* The statements left behind, while none of them set an error.
DoneSoFar ==
  pc = "in" /\ ~pending =>
    SpecsDone /\ (\A j \in DOMAIN block : j < at => StatementDone(j)) /\ ConstructorsDone(at)

\* Whatever failed: a throw ends the import, and a type is its statement's.
Begun ==
  pc = "in" =>
    /\ \A f \in Functions : spec[f].epoch = epoch => spec[f].whole
    /\ \A T \in Types : type[T] # None /\ type[T].epoch = epoch =>
         \E j \in DOMAIN block : j < at /\ Registers(j, T)
    /\ \A m \in modules : m.epoch < epoch

Delivered(m) ==
  /\ \A f \in Functions : spec[f].epoch = m.epoch => spec[f].whole /\ spec[f].default # None
  /\ \A j \in DOMAIN block, f \in Functions : IsKeyword(j, f) => spec[f].epoch >= m.epoch
  /\ \A j \in DOMAIN block :
       /\ block[j].what = "type" => type[block[j].of] # None
       /\ Builder(j) /\ type[block[j].of].epoch = m.epoch => Declares(j)
  /\ \A T \in Types, f \in Functions : Constructs(T, f, m.epoch) =>
       spec[f].epoch = m.epoch /\ \A k \in DOMAIN block : ~IsKeyword(k, f)

\* A constructor is a factory of its type's, and parses by a whole spec, or by a module function's.
Constructors ==
  \A T \in Types, f \in Functions : type[T] # None /\ type[T].factory = f =>
    /\ \E j \in DOMAIN block : Registers(j, T) /\ block[j].factory = f
    /\ spec[f].whole \/ \E k \in DOMAIN block : IsKeyword(k, f)

WholeInv == DoneSoFar /\ Begun /\ (\A m \in modules : Delivered(m)) /\ Constructors

LEMMA InitWhole ==
  ASSUME BindingInit
  PROVE  WholeInv
<1>1. pc = "out" /\ modules = {} /\ \A T \in Types : type[T] = None
  BY DEF BindingInit, Init
<1>2. DoneSoFar /\ Begun
  BY <1>1 DEF DoneSoFar, Begun
<1>3. Constructors
  BY <1>1 DEF Constructors
<1>4. QED
  BY <1>1, <1>2, <1>3 DEF WholeInv

-----------------------------------------------------------------------------
(* What a statement does to the specs and the types.                       *)

\* Only the statement at hand claims: a module function's, or one that finds its type not built.
MayClaim(f) ==
  /\ f \in Functions /\ spec[f].epoch # epoch
  /\ \/ IsKeyword(at, f)
     \/ block[at].what = "type" /\ block[at].factory = f /\ type[block[at].of] = None

ClaimStep ==
  \/ spec' = spec
  \/ \E f \in Functions, d \in {None, Fresh}, whole \in BOOLEAN :
       MayClaim(f) /\ spec' = [spec EXCEPT ![f] = Filled(d, whole)]

\* It builds its own type, with a constructor that has a whole spec.
BuildStep ==
  \/ type' = type
  \/ \E T \in Types, b \in Built :
       /\ Registers(at, T) /\ type[T] = None /\ b.epoch = epoch
       /\ b.factory \in {None, block[at].factory}
       /\ b.factory # None => spec'[b.factory].whole
       /\ type' = [type EXCEPT ![T] = b]

LEMMA ClaimableMeans ==
  ASSUME Typed, pc = "in", NEW f \in Functions
  PROVE  Claimable(f) <=> spec[f].epoch # epoch
  BY DEF Claimable, Typed, Specs

LEMMA FillWhole ==
  ASSUME Typed, pc = "in", NEW f \in Functions, NEW d, NEW whole, FillWith(f, d, whole)
  PROVE  spec' = [spec EXCEPT ![f] = Filled(d, whole)] /\ spec'[f] = Filled(d, whole)
  BY DEF FillWith, Typed

\* def and def_init register a spec: claimed with its default, or pending.
LEMMA RegisterMeans ==
  ASSUME Typed, Begun, pc = "in", NEW f \in Functions, Register(f)
  PROVE  /\ spec' = spec \/ (spec[f].epoch # epoch /\
                             \E d \in {None, Fresh} : spec' = [spec EXCEPT ![f] = Filled(d, TRUE)])
         /\ spec'[f].whole /\ spec'[f].epoch = epoch
         /\ pending' = TRUE \/ (/\ UNCHANGED pending /\ spec[f].epoch # epoch
                                /\ spec' = [spec EXCEPT ![f] = Filled(Fresh, TRUE)])
<1>1. CASE ~Claimable(f)
  BY <1>1, ClaimableMeans DEF Register, specVars, Begun
<1>2. CASE Claimable(f)
  <2>1. spec[f].epoch # epoch
    BY <1>2, ClaimableMeans
  <2>2. \/ Fill(f, Fresh) /\ UNCHANGED pending
        \/ Fill(f, None) /\ pending' = TRUE
    BY <1>2 DEF Register, Fresh
  <2>3. CASE Fill(f, Fresh) /\ UNCHANGED pending
    <3>1. spec' = [spec EXCEPT ![f] = Filled(Fresh, TRUE)] /\ spec'[f] = Filled(Fresh, TRUE)
      BY <2>3, FillWhole DEF Fill
    <3>2. QED
      BY <2>1, <2>3, <3>1 DEF Filled
  <2>4. CASE Fill(f, None) /\ pending' = TRUE
    <3>1. spec' = [spec EXCEPT ![f] = Filled(None, TRUE)] /\ spec'[f] = Filled(None, TRUE)
      BY <2>4, FillWhole DEF Fill
    <3>2. QED
      BY <2>1, <2>4, <3>1 DEF Filled
  <2>5. QED
    BY <2>2, <2>3, <2>4
<1>3. QED
  BY <1>1, <1>2

LEMMA FillWhenClaimableMeans ==
  ASSUME Typed, Begun, pc = "in", NEW f \in Functions \cup {None}, FillWhenClaimable(f)
  PROVE  /\ spec' = spec \/ (f # None /\ spec[f].epoch # epoch /\ spec' = [spec EXCEPT ![f] = Filled(Fresh, TRUE)])
         /\ f # None => spec'[f].whole
<1>1. CASE f = None
  BY <1>1 DEF FillWhenClaimable, specVars
<1>2. CASE f \in Functions /\ ~Claimable(f)
  BY <1>2, ClaimableMeans DEF FillWhenClaimable, specVars, Begun
<1>3. CASE f \in Functions /\ Claimable(f)
  <2>1. f # None
    BY <1>3, NoneIsNothing
  <2>2. FillWith(f, Fresh, TRUE)
    BY <1>3, <2>1 DEF FillWhenClaimable, Fill, Fresh
  <2>3. spec' = [spec EXCEPT ![f] = Filled(Fresh, TRUE)] /\ spec'[f] = Filled(Fresh, TRUE)
    BY <1>3, <2>2, FillWhole
  <2>4. spec[f].epoch # epoch
    BY <1>3, ClaimableMeans
  <2>5. QED
    BY <2>1, <2>3, <2>4 DEF Filled
<1>4. QED
  BY <1>1, <1>2, <1>3

LEMMA FillThrownMeans ==
  ASSUME Typed, pc = "in", NEW f \in Functions, FillThrown(f)
  PROVE  spec[f].epoch # epoch /\ \E d \in {None, Fresh} : spec' = [spec EXCEPT ![f] = Filled(d, FALSE)]
<1>1. spec[f].epoch # epoch
  BY ClaimableMeans DEF FillThrown
<1>2. \E d \in {None, Fresh} : spec' = [spec EXCEPT ![f] = Filled(d, FALSE)]
  BY DEF FillThrown, FillWith, Fresh
<1>3. QED
  BY <1>1, <1>2

LEMMA KeywordMeans ==
  ASSUME Typed, Begun, Keyword
  PROVE  /\ pc = "in" /\ at \in DOMAIN block /\ block[at].what = "keyword" /\ block[at].fn \in Functions
         /\ ClaimStep /\ BuildStep /\ Moves
         /\ UNCHANGED <<block, epoch, modules, type>>
         /\ pc' = "in" => /\ spec'[block[at].fn].whole
                          /\ \/ pending' = TRUE
                             \/ /\ UNCHANGED pending /\ spec[block[at].fn].epoch # epoch
                                /\ spec' = [spec EXCEPT ![block[at].fn] = Filled(Fresh, TRUE)]
<1> DEFINE f == block[at].fn
<1>1. /\ pc = "in" /\ at \in DOMAIN block /\ block[at].what = "keyword" /\ Moves
      /\ UNCHANGED <<block, epoch, modules, type>>
  BY KeywordStep
<1>2. f \in Functions
  BY <1>1, BlockIsTyped, StatementFields
<1>3. BuildStep
  BY <1>1 DEF BuildStep
<1>4. IsKeyword(at, f)
  BY <1>1 DEF IsKeyword
<1>5. CASE Register(f) /\ table' = Pushed(table) /\ Proceed
  <2>1. /\ spec' = spec \/ (spec[f].epoch # epoch /\
                             \E d \in {None, Fresh} : spec' = [spec EXCEPT ![f] = Filled(d, TRUE)])
        /\ spec'[f].whole
        /\ pending' = TRUE \/ (/\ UNCHANGED pending /\ spec[f].epoch # epoch
                               /\ spec' = [spec EXCEPT ![f] = Filled(Fresh, TRUE)])
    BY <1>1, <1>2, <1>5, RegisterMeans
  <2>2. ClaimStep
    BY <1>2, <1>4, <2>1 DEF ClaimStep, MayClaim
  <2>3. QED
    BY <1>1, <1>2, <1>3, <2>1, <2>2
<1>6. CASE /\ Fails /\ Refuse /\ UNCHANGED <<table, at>>
           /\ UNCHANGED specVars \/ FillThrown(f)
  <2>1. ClaimStep
    <3>1. CASE UNCHANGED specVars
      BY <3>1 DEF ClaimStep, specVars
    <3>2. CASE FillThrown(f)
      BY <1>1, <1>2, <1>4, <3>2, FillThrownMeans DEF ClaimStep, MayClaim
    <3>3. QED
      BY <1>6, <3>1, <3>2
  <2>2. pc' = "out"
    BY <1>6 DEF Refuse
  <2>3. QED
    BY <1>1, <1>2, <1>3, <2>1, <2>2
<1>7. QED
  BY <1>5, <1>6 DEF Keyword

\* m.type: what it leaves when the block goes on.
TypeGoesOn ==
  LET T == block[at].of
      f == block[at].factory
  IN  \/ pending' = TRUE
      \/ UNCHANGED <<pending, spec, type>> /\ type[T] # None
      \/ /\ UNCHANGED pending /\ type[T] = None
         /\ type' = [type EXCEPT ![T] = [methods |-> block[at].methods, factory |-> f, epoch |-> epoch]]
         /\ \/ f = None /\ UNCHANGED spec
            \/ /\ f # None /\ spec[f].epoch # epoch
               /\ spec' = [spec EXCEPT ![f] = Filled(Fresh, TRUE)]

\* No claim is thrown half way when the block goes on.
WholeStep ==
  spec' = spec \/ \E f \in Functions, d \in {None, Fresh} : spec' = [spec EXCEPT ![f] = Filled(d, TRUE)]

LEMMA FinishMeans ==
  ASSUME Typed, NEW T \in Types, NEW n \in Nat, NEW made \in {None, block[at].factory},
         block[at].factory \in Functions \cup {None},
         Registers(at, T), type[T] = None, Finish(T, n, made), made # None => spec'[made].whole
  PROVE  BuildStep
<1> DEFINE b == [methods |-> n, factory |-> made, epoch |-> epoch]
<1>1. b \in Built
  BY DEF Built, Typed
<1>2. /\ b.epoch = epoch /\ b.factory = made
      /\ type' = [type EXCEPT ![T] = b]
  BY DEF Finish
<1> HIDE DEF b
<1>3. QED
  BY <1>1, <1>2 DEF BuildStep

LEMMA TypeMeans ==
  ASSUME Typed, Begun, Type
  PROVE  /\ pc = "in" /\ at \in DOMAIN block /\ block[at].what = "type" /\ block[at].of \in Types
         /\ block[at].factory \in Functions \cup {None} /\ block[at].methods \in Nat
         /\ ClaimStep /\ BuildStep /\ Moves
         /\ UNCHANGED <<block, epoch, modules>>
         /\ pc' = "in" => TypeGoesOn /\ WholeStep
<1> DEFINE T == block[at].of
           f == block[at].factory
<1>1. /\ pc = "in" /\ at \in DOMAIN block /\ block[at].what = "type" /\ Moves
      /\ UNCHANGED <<block, epoch, modules>>
  BY TypeStepOfType
<1>2. T \in Types /\ f \in Functions \cup {None} /\ block[at].methods \in Nat
  BY <1>1, BlockIsTyped, StatementFields
<1>3. Registers(at, T)
  BY <1>1 DEF Registers
<1>4. CASE /\ type[T] # None
           /\ (Works /\ UNCHANGED pending) \/ (Fails /\ pending' = TRUE)
           /\ Proceed /\ UNCHANGED <<specVars, type>>
  <2>1. UNCHANGED <<spec, type>>
    BY <1>4 DEF specVars
  <2>2. ClaimStep /\ BuildStep /\ WholeStep
    BY <2>1 DEF ClaimStep, BuildStep, WholeStep
  <2>3. TypeGoesOn
    BY <1>4, <2>1 DEF TypeGoesOn
  <2>4. QED
    BY <1>1, <1>2, <2>2, <2>3
<1>5. CASE /\ type[T] = None
           /\ IF f = None THEN Works /\ UNCHANGED <<specVars, pending>> ELSE Register(f)
           /\ Finish(T, block[at].methods, f) /\ Proceed
  <2>1. type' = [type EXCEPT ![T] = [methods |-> block[at].methods, factory |-> f, epoch |-> epoch]]
    BY <1>5 DEF Finish
  <2>2. CASE f = None
    <3>1. UNCHANGED spec /\ UNCHANGED pending
      BY <1>5, <2>2 DEF specVars
    <3>2. ClaimStep /\ WholeStep
      BY <3>1 DEF ClaimStep, WholeStep
    <3>3. TypeGoesOn
      BY <1>5, <2>1, <2>2, <3>1 DEF TypeGoesOn
    <3>4. BuildStep
      BY <1>2, <1>3, <1>5, <2>2, FinishMeans
    <3>5. QED
      BY <1>1, <1>2, <3>2, <3>3, <3>4
  <2>3. CASE f # None
    <3>1. /\ spec' = spec \/ (spec[f].epoch # epoch /\
                               \E d \in {None, Fresh} : spec' = [spec EXCEPT ![f] = Filled(d, TRUE)])
          /\ spec'[f].whole
          /\ pending' = TRUE \/ (/\ UNCHANGED pending /\ spec[f].epoch # epoch
                                 /\ spec' = [spec EXCEPT ![f] = Filled(Fresh, TRUE)])
      BY <1>1, <1>2, <1>5, <2>3, RegisterMeans
    <3>2. ClaimStep /\ WholeStep
      BY <1>1, <1>2, <1>5, <2>3, <3>1 DEF ClaimStep, MayClaim, WholeStep
    <3>3. TypeGoesOn
      BY <1>5, <2>1, <2>3, <3>1 DEF TypeGoesOn
    <3>4. BuildStep
      BY <1>2, <1>3, <1>5, <3>1, FinishMeans
    <3>5. QED
      BY <1>1, <1>2, <3>2, <3>3, <3>4
  <2>4. QED
    BY <2>2, <2>3
<1>6. CASE /\ type[T] = None
           /\ FillWhenClaimable(f)
           /\ Fails /\ pending' = TRUE
           /\ Proceed /\ UNCHANGED type
  <2>1. spec' = spec \/ (f # None /\ spec[f].epoch # epoch /\ spec' = [spec EXCEPT ![f] = Filled(Fresh, TRUE)])
    BY <1>1, <1>2, <1>6, FillWhenClaimableMeans
  <2>2. ClaimStep /\ WholeStep
    BY <1>1, <1>2, <1>6, <2>1 DEF ClaimStep, MayClaim, WholeStep
  <2>3. TypeGoesOn /\ BuildStep
    BY <1>6 DEF TypeGoesOn, BuildStep
  <2>4. QED
    BY <1>1, <1>2, <2>2, <2>3
<1>7. CASE /\ Fails /\ Refuse /\ UNCHANGED at
           /\ \/ UNCHANGED <<specVars, type>>
              \/ /\ type[T] = None
                 /\ \E n \in 0..block[at].methods, made \in {None, f} :
                      /\ IF made # None THEN FillWhenClaimable(f)
                         ELSE UNCHANGED specVars \/ (f # None /\ FillThrown(f))
                      /\ UNCHANGED type \/ Finish(T, n, made)
  <2>1. pc' = "out"
    BY <1>7 DEF Refuse
  <2>2. CASE UNCHANGED <<specVars, type>>
    BY <1>1, <1>2, <2>1, <2>2 DEF ClaimStep, BuildStep, specVars
  <2>3. ASSUME type[T] = None,
               NEW n \in 0..block[at].methods, NEW made \in {None, f},
               IF made # None THEN FillWhenClaimable(f)
               ELSE UNCHANGED specVars \/ (f # None /\ FillThrown(f)),
               UNCHANGED type \/ Finish(T, n, made)
        PROVE  ClaimStep /\ BuildStep
    <3>1. CASE made # None
      <4>1. /\ spec' = spec \/ (f # None /\ spec[f].epoch # epoch /\ spec' = [spec EXCEPT ![f] = Filled(Fresh, TRUE)])
            /\ spec'[f].whole
        BY <1>1, <1>2, <2>3, <3>1, FillWhenClaimableMeans
      <4>2. ClaimStep
        BY <1>1, <1>2, <2>3, <4>1 DEF ClaimStep, MayClaim
      <4>3. n \in Nat
        BY <1>2
      <4>4. BuildStep
        BY <1>2, <1>3, <2>3, <3>1, <4>1, <4>3, FinishMeans DEF BuildStep
      <4>5. QED
        BY <4>2, <4>4
    <3>2. CASE made = None
      <4>1. spec' = spec \/ (f # None /\ spec[f].epoch # epoch /\
                              \E d \in {None, Fresh} : spec' = [spec EXCEPT ![f] = Filled(d, FALSE)])
        BY <1>1, <1>2, <2>3, <3>2, FillThrownMeans DEF specVars
      <4>2. ClaimStep
        BY <1>1, <1>2, <2>3, <4>1 DEF ClaimStep, MayClaim
      <4>3. n \in Nat
        BY <1>2
      <4>4. BuildStep
        BY <1>2, <1>3, <2>3, <3>2, <4>3, FinishMeans DEF BuildStep
      <4>5. QED
        BY <4>2, <4>4
    <3>3. QED
      BY <3>1, <3>2
  <2>4. QED
    BY <1>1, <1>2, <1>7, <2>1, <2>2, <2>3
<1>8. QED
  BY <1>4, <1>5, <1>6, <1>7 DEF Type

-----------------------------------------------------------------------------
(* What a module was delivered with stays.                                 *)

\* The types of the instances that exist stay as they are.
LEMMA BuiltStays ==
  ASSUME Typed, BuildStep, NEW T \in Types, type[T] # None
  PROVE  type'[T] = type[T]
  BY DEF BuildStep, Typed

\* A type that a step has built, or had before it.
LEMMA BuiltHow ==
  ASSUME Typed, BuildStep, NEW T \in Types, type'[T] # None
  PROVE  \/ type[T] # None /\ type'[T] = type[T]
         \/ /\ type[T] = None /\ Registers(at, T) /\ type'[T].epoch = epoch
            /\ type'[T].factory \in {None, block[at].factory}
            /\ type'[T].factory # None => spec'[type'[T].factory].whole
<1>1. CASE type' = type
  BY <1>1
<1>2. ASSUME NEW S \in Types, NEW b \in Built, Registers(at, S), type[S] = None, b.epoch = epoch,
             b.factory \in {None, block[at].factory}, b.factory # None => spec'[b.factory].whole,
             type' = [type EXCEPT ![S] = b]
      PROVE  \/ type[T] # None /\ type'[T] = type[T]
             \/ /\ type[T] = None /\ Registers(at, T) /\ type'[T].epoch = epoch
                /\ type'[T].factory \in {None, block[at].factory}
                /\ type'[T].factory # None => spec'[type'[T].factory].whole
  <2>1. CASE S = T
    <3>1. type'[T] = b
      BY <1>2, <2>1 DEF Typed
    <3>2. QED
      BY <1>2, <2>1, <3>1
  <2>2. CASE S # T
    BY <1>2, <2>2 DEF Typed
  <2>3. QED
    BY <2>1, <2>2
<1>3. QED
  BY <1>1, <1>2 DEF BuildStep

\* A spec that a step has claimed.
LEMMA ClaimedHow ==
  ASSUME Typed, ClaimStep, NEW f \in Functions
  PROVE  spec'[f] = spec[f] \/ (MayClaim(f) /\ spec'[f].epoch = epoch)
<1>1. CASE spec' = spec
  BY <1>1
<1>2. ASSUME NEW g \in Functions, NEW d \in {None, Fresh}, NEW whole \in BOOLEAN,
             MayClaim(g), spec' = [spec EXCEPT ![g] = Filled(d, whole)]
      PROVE  spec'[f] = spec[f] \/ (MayClaim(f) /\ spec'[f].epoch = epoch)
  BY <1>2 DEF Typed, Filled
<1>3. QED
  BY <1>1, <1>2 DEF ClaimStep

\* Who claims f's spec is a module function, or has no type yet.
LEMMA OnlyItsTypeClaims ==
  ASSUME Typed, Constructors, at \in DOMAIN block, NEW T \in Types, NEW f \in Functions,
         type[T] # None, type[T].factory = f, MayClaim(f)
  PROVE  IsKeyword(at, f)
<1>1. SUFFICES ASSUME block[at].what = "type", block[at].factory = f, type[block[at].of] = None
               PROVE  FALSE
  BY DEF MayClaim
<1>2. PICK j \in DOMAIN block : Registers(j, T) /\ block[j].factory = f
  BY DEF Constructors
<1>3. block[j].of = block[at].of
  BY <1>1, <1>2, FactoriesAssumption, NoneIsNothing DEF Registers, Typed
<1>4. QED
  BY <1>1, <1>2, <1>3 DEF Registers

LEMMA DeliveredStays ==
  ASSUME Typed, WholeInv, pc = "in", at \in DOMAIN block, ClaimStep, BuildStep,
         UNCHANGED <<block, epoch>>, NEW m \in modules
  PROVE  Delivered(m)'
<1>1. /\ m.epoch \in Nat /\ epoch \in Nat /\ m.epoch < epoch
      /\ \A f \in Functions : spec[f].epoch \in Nat
      /\ \A j \in DOMAIN block : block[j].what = "type" => block[j].of \in Types
  BY BlockIsTyped, StatementFields DEF WholeInv, Begun, Typed, Specs
<1>2. Delivered(m)
  BY DEF WholeInv
<1>3. ASSUME NEW f \in Functions, spec'[f].epoch = m.epoch
      PROVE  spec'[f].whole /\ spec'[f].default # None
  <2>1. spec'[f] = spec[f]
    BY <1>1, <1>3, ClaimedHow
  <2>2. QED
    BY <1>2, <1>3, <2>1 DEF Delivered
<1>4. ASSUME NEW j \in DOMAIN block, NEW f \in Functions, IsKeyword(j, f)
      PROVE  spec'[f].epoch >= m.epoch
  <2>1. spec[f].epoch >= m.epoch
    BY <1>2, <1>4 DEF Delivered
  <2>2. CASE spec'[f] = spec[f]
    BY <2>1, <2>2
  <2>3. CASE spec'[f].epoch = epoch
    BY <1>1, <2>3
  <2>4. QED
    BY <2>2, <2>3, ClaimedHow
<1>5. ASSUME NEW j \in DOMAIN block, block[j].what = "type"
      PROVE  type'[block[j].of] # None /\ type'[block[j].of] = type[block[j].of]
  <2>1. type[block[j].of] # None /\ block[j].of \in Types
    BY <1>1, <1>2, <1>5 DEF Delivered
  <2>2. QED
    BY <2>1, BuiltStays
<1>6. ASSUME NEW T \in Types, NEW f \in Functions, Constructs(T, f, m.epoch)'
      PROVE  spec'[f].epoch = m.epoch /\ \A k \in DOMAIN block : ~IsKeyword(k, f)
  <2>1. type'[T] # None /\ type'[T].epoch = m.epoch /\ type'[T].factory = f
    BY <1>6 DEF Constructs
  <2>2. type[T] # None /\ type'[T] = type[T]
    BY <1>1, <2>1, BuiltHow
  <2>3. spec[f].epoch = m.epoch /\ \A k \in DOMAIN block : ~IsKeyword(k, f)
    BY <1>2, <2>1, <2>2 DEF Delivered, Constructs
  <2>4. ~MayClaim(f)
    BY <2>1, <2>2, <2>3, OnlyItsTypeClaims DEF WholeInv
  <2>5. QED
    BY <2>3, <2>4, ClaimedHow
<1>7. ASSUME NEW j \in DOMAIN block, Builder(j), type'[block[j].of].epoch = m.epoch
      PROVE  Declares(j)'
  <2>1. type'[block[j].of] = type[block[j].of]
    BY <1>5, <1>7 DEF Builder
  <2>2. Declares(j)
    BY <1>2, <1>7, <2>1 DEF Delivered
  <2>3. QED
    BY <2>1, <2>2 DEF Declares
<1>8. QED
  <2>1. /\ \A j \in DOMAIN block' : Builder(j)' <=> Builder(j)
        /\ \A j \in DOMAIN block', f \in Functions : IsKeyword(j, f)' <=> IsKeyword(j, f)
    BY DEF Builder, Registers, IsKeyword
  <2>2. QED
    BY <1>3, <1>4, <1>5, <1>6, <1>7, <2>1 DEF Delivered

LEMMA ConstructorsStay ==
  ASSUME Typed, Constructors, at \in DOMAIN block, ClaimStep, BuildStep, UNCHANGED block
  PROVE  Constructors'
<1>1. ASSUME NEW T \in Types, NEW f \in Functions, type'[T] # None, type'[T].factory = f
      PROVE  /\ \E j \in DOMAIN block : Registers(j, T) /\ block[j].factory = f
             /\ spec'[f].whole \/ \E k \in DOMAIN block : IsKeyword(k, f)
  <2>1. f # None
    BY NoneIsNothing
  <2>2. CASE type[T] # None /\ type'[T] = type[T]
    <3>1. /\ \E j \in DOMAIN block : Registers(j, T) /\ block[j].factory = f
          /\ spec[f].whole \/ \E k \in DOMAIN block : IsKeyword(k, f)
      BY <1>1, <2>2 DEF Constructors
    <3>2. spec'[f] = spec[f] \/ IsKeyword(at, f)
      BY <1>1, <2>2, ClaimedHow, OnlyItsTypeClaims
    <3>3. QED
      BY <3>1, <3>2
  <2>3. CASE /\ Registers(at, T)
             /\ type'[T].factory \in {None, block[at].factory}
             /\ type'[T].factory # None => spec'[type'[T].factory].whole
    BY <1>1, <2>1, <2>3
  <2>4. QED
    BY <1>1, <2>2, <2>3, BuiltHow
<1>2. QED
  BY <1>1 DEF Constructors, Registers, IsKeyword

-----------------------------------------------------------------------------
(* What the present import has made so far.                                *)

LEMMA BegunStays ==
  ASSUME Typed, Begun, pc = "in", at \in DOMAIN block, BuildStep, Moves,
         UNCHANGED <<block, epoch, modules>>,
         pc' = "in" => \A g \in Functions : spec'[g] = spec[g] \/ spec'[g].whole
  PROVE  Begun'
<1>1. SUFFICES ASSUME pc' = "in"
               PROVE  Begun'
  BY DEF Begun
<1>2. at' = at + 1 /\ at \in Nat /\ DOMAIN block \subseteq Nat
  BY <1>1, BlockIsTyped DEF Moves
<1>3. \A f \in Functions : spec'[f].epoch = epoch => spec'[f].whole
  BY <1>1 DEF Begun
<1>4. ASSUME NEW T \in Types, type'[T] # None, type'[T].epoch = epoch
      PROVE  \E j \in DOMAIN block : j < at' /\ Registers(j, T)
  <2>1. CASE type[T] # None /\ type'[T] = type[T]
    <3>1. PICK j \in DOMAIN block : j < at /\ Registers(j, T)
      BY <1>4, <2>1 DEF Begun
    <3>2. j < at'
      BY <1>2, <3>1
    <3>3. QED
      BY <3>1, <3>2
  <2>2. CASE Registers(at, T)
    <3>1. at < at'
      BY <1>2
    <3>2. QED
      BY <2>2, <3>1
  <2>3. QED
    BY <1>4, <2>1, <2>2, BuiltHow
<1>5. \A m \in modules : m.epoch < epoch
  BY DEF Begun
<1>6. QED
  BY <1>3, <1>4, <1>5 DEF Begun, Registers

\* A step that goes on without an error: what it has to show.
LEMMA DoneStays ==
  ASSUME Typed, DoneSoFar, pc = "in", at \in DOMAIN block, Moves, UNCHANGED block,
         pc' = "in" /\ ~pending' =>
           /\ ~pending /\ SpecsDone'
           /\ \A j \in DOMAIN block : j = at \/ (j < at /\ StatementDone(j)) => StatementDone(j)'
           /\ \A n \in Nat : n = at + 1 => ConstructorsDone(n)'
  PROVE  DoneSoFar'
<1>1. SUFFICES ASSUME pc' = "in", ~pending'
               PROVE  DoneSoFar'
  BY DEF DoneSoFar
<1>2. at' = at + 1 /\ at \in Nat /\ DOMAIN block \subseteq Nat
  BY <1>1, BlockIsTyped DEF Moves
<1>3. \A j \in DOMAIN block : j < at => StatementDone(j)
  BY <1>1 DEF DoneSoFar
<1>4. \A j \in DOMAIN block : j < at + 1 => StatementDone(j)'
  BY <1>1, <1>2, <1>3
<1>5. \A n \in Nat : n = at' => ConstructorsDone(n)'
  BY <1>1, <1>2
<1>6. ConstructorsDone(at)'
  BY <1>2, <1>5 DEF ConstructorsDone
<1>7. QED
  BY <1>1, <1>2, <1>4, <1>6 DEF DoneSoFar

LEMMA StatementLasts ==
  ASSUME Typed, ClaimStep, BuildStep, UNCHANGED <<block, epoch>>, NEW j \in DOMAIN block, StatementDone(j)
  PROVE  StatementDone(j)'
<1>1. \A f \in Functions : spec[f].epoch = epoch => spec'[f].epoch = epoch
  BY ClaimedHow
<1>2. ASSUME block[j].what = "type"
      PROVE  type'[block[j].of] # None /\ type'[block[j].of] = type[block[j].of]
  <2>1. block[j].of \in Types /\ type[block[j].of] # None
    BY <1>2, BlockIsTyped, StatementFields DEF StatementDone
  <2>2. QED
    BY <2>1, BuiltStays
<1>3. ASSUME Builder(j), type'[block[j].of].epoch = epoch
      PROVE  Declares(j)'
  <2>1. type'[block[j].of] = type[block[j].of] /\ type[block[j].of] # None
    BY <1>2, <1>3 DEF Builder
  <2>2. Declares(j)
    BY <1>3, <2>1 DEF StatementDone
  <2>3. QED
    BY <2>1, <2>2 DEF Declares
<1>4. (Builder(j)' <=> Builder(j)) /\ \A f \in Functions : IsKeyword(j, f)' <=> IsKeyword(j, f)
  BY DEF Builder, Registers, IsKeyword
<1>5. QED
  BY <1>1, <1>2, <1>3, <1>4 DEF StatementDone

LEMMA PlainDone ==
  ASSUME Typed, DoneSoFar, Plain
  PROVE  DoneSoFar'
<1>1. /\ pc = "in" /\ at \in DOMAIN block /\ block[at].what = "plain" /\ Moves
      /\ UNCHANGED <<block, epoch, spec, type>> /\ (pc' = "in" => UNCHANGED pending)
  BY DEF Plain, Statement, Proceed, Refuse, Moves, specVars
<1>2. ClaimStep /\ BuildStep
  BY <1>1 DEF ClaimStep, BuildStep
<1>3. ASSUME pc' = "in", ~pending'
      PROVE  /\ ~pending /\ SpecsDone'
             /\ \A j \in DOMAIN block : j = at \/ (j < at /\ StatementDone(j)) => StatementDone(j)'
             /\ \A n \in Nat : n = at + 1 => ConstructorsDone(n)'
  <2>1. ~pending /\ SpecsDone /\ ConstructorsDone(at)
    BY <1>1, <1>3 DEF DoneSoFar
  <2>2. SpecsDone'
    BY <1>1, <2>1 DEF SpecsDone
  <2>3. ASSUME NEW j \in DOMAIN block, j = at
        PROVE  StatementDone(j)'
    BY <1>1, <2>3 DEF StatementDone, IsKeyword, Builder
  <2>4. ASSUME NEW n \in Nat, n = at + 1
        PROVE  ConstructorsDone(n)'
    <3>1. at \in Nat /\ DOMAIN block \subseteq Nat /\ \A f \in Functions : ~IsKeyword(at, f)
      BY <1>1, BlockIsTyped DEF IsKeyword
    <3>2. \A k \in DOMAIN block : k < n => k < at \/ k = at
      BY <2>4, <3>1
    <3>3. QED
      BY <1>1, <2>1, <3>1, <3>2 DEF ConstructorsDone, Constructs, IsKeyword
  <2>5. QED
    BY <1>1, <1>2, <2>1, <2>2, <2>3, <2>4, StatementLasts
<1>4. QED
  BY <1>1, <1>3, DoneStays

LEMMA KeywordDone ==
  ASSUME Typed, DoneSoFar, Begun, Keyword
  PROVE  DoneSoFar'
<1> DEFINE f == block[at].fn
<1>1. /\ pc = "in" /\ at \in DOMAIN block /\ block[at].what = "keyword" /\ f \in Functions
      /\ ClaimStep /\ BuildStep /\ Moves
      /\ UNCHANGED <<block, epoch, type>>
      /\ pc' = "in" => \/ pending' = TRUE
                       \/ /\ UNCHANGED pending /\ spec[f].epoch # epoch
                          /\ spec' = [spec EXCEPT ![f] = Filled(Fresh, TRUE)]
  BY KeywordMeans
<1>2. ASSUME pc' = "in", ~pending'
      PROVE  /\ ~pending /\ SpecsDone'
             /\ \A j \in DOMAIN block : j = at \/ (j < at /\ StatementDone(j)) => StatementDone(j)'
             /\ \A n \in Nat : n = at + 1 => ConstructorsDone(n)'
  <2>1. ~pending /\ spec[f].epoch # epoch /\ spec' = [spec EXCEPT ![f] = Filled(Fresh, TRUE)]
    <3>1. CASE pending' = TRUE
      BY <1>2, <3>1
    <3>2. CASE pending' = pending /\ spec[f].epoch # epoch /\ spec' = [spec EXCEPT ![f] = Filled(Fresh, TRUE)]
      BY <1>2, <3>2
    <3>3. QED
      BY <1>1, <1>2, <3>1, <3>2
  <2>2. SpecsDone /\ ConstructorsDone(at)
    BY <1>1, <2>1 DEF DoneSoFar
  <2>3. /\ spec'[f].epoch = epoch /\ spec'[f].default = Fresh
        /\ \A g \in Functions : g # f => spec'[g] = spec[g]
    BY <1>1, <2>1 DEF Typed, Filled
  <2>4. Fresh # None
    BY <1>1, BlockIsTyped, NoneIsNoDefault DEF Fresh, Typed
  <2>5. SpecsDone'
    BY <1>1, <2>2, <2>3, <2>4 DEF SpecsDone
  <2>6. ASSUME NEW j \in DOMAIN block, j = at
        PROVE  StatementDone(j)'
    BY <1>1, <2>3, <2>6 DEF StatementDone, IsKeyword, Builder
  <2>7. ASSUME NEW n \in Nat, n = at + 1
        PROVE  ConstructorsDone(n)'
    <3>1. at \in Nat /\ DOMAIN block \subseteq Nat
      BY <1>1, BlockIsTyped
    <3>2. ASSUME NEW T \in Types, NEW g \in Functions, Constructs(T, g, epoch)
          PROVE  spec'[g].epoch = epoch /\ \A k \in DOMAIN block : k < n => ~IsKeyword(k, g)
      <4>1. spec[g].epoch = epoch /\ \A k \in DOMAIN block : k < at => ~IsKeyword(k, g)
        BY <2>2, <3>2 DEF ConstructorsDone
      <4>2. g # f
        BY <2>1, <4>1
      <4>3. ~IsKeyword(at, g)
        BY <4>2 DEF IsKeyword
      <4>4. \A k \in DOMAIN block : k < n => k < at \/ k = at
        BY <2>7, <3>1
      <4>5. QED
        BY <2>3, <4>1, <4>2, <4>3, <4>4
    <3>3. QED
      BY <1>1, <3>2 DEF ConstructorsDone, Constructs, IsKeyword
  <2>8. QED
    BY <1>1, <2>1, <2>5, <2>6, <2>7, StatementLasts
<1>3. QED
  BY <1>1, <1>2, DoneStays

LEMMA TypeDone ==
  ASSUME Typed, DoneSoFar, Begun, Type
  PROVE  DoneSoFar'
<1> DEFINE T == block[at].of
           f == block[at].factory
<1>1. /\ pc = "in" /\ at \in DOMAIN block /\ block[at].what = "type" /\ T \in Types
      /\ f \in Functions \cup {None} /\ block[at].methods \in Nat
      /\ ClaimStep /\ BuildStep /\ Moves
      /\ UNCHANGED <<block, epoch>>
      /\ pc' = "in" => TypeGoesOn
  BY TypeMeans
<1>2. at \in Nat /\ DOMAIN block \subseteq Nat /\ epoch \in Nat
  BY <1>1, BlockIsTyped DEF Typed
<1>3. \A g \in Functions : ~IsKeyword(at, g)
  BY <1>1 DEF IsKeyword
<1>4. ASSUME pc' = "in", ~pending'
      PROVE  /\ ~pending /\ SpecsDone'
             /\ \A j \in DOMAIN block : j = at \/ (j < at /\ StatementDone(j)) => StatementDone(j)'
             /\ \A n \in Nat : n = at + 1 => ConstructorsDone(n)'
  <2>1. \A n \in Nat : n = at + 1 => \A k \in DOMAIN block : k < n => k < at \/ k = at
    BY <1>2
  <2>2. CASE UNCHANGED <<pending, spec, type>> /\ type[T] # None
    <3>1. ~pending /\ SpecsDone /\ ConstructorsDone(at)
      BY <1>1, <1>4, <2>2 DEF DoneSoFar
    <3>2. SpecsDone'
      BY <1>1, <2>2, <3>1 DEF SpecsDone
    <3>3. ~(Builder(at) /\ type[T].epoch = epoch)
      <4>1. SUFFICES ASSUME Builder(at), type[T].epoch = epoch
                     PROVE  FALSE
        OBVIOUS
      <4>2. PICK j \in DOMAIN block : j < at /\ Registers(j, T)
        BY <1>1, <2>2, <4>1 DEF Begun
      <4>3. at <= j
        BY <4>1, <4>2 DEF Builder
      <4>4. QED
        BY <1>2, <4>2, <4>3
    <3>4. ASSUME NEW j \in DOMAIN block, j = at
          PROVE  StatementDone(j)'
      <4>1. \A g \in Functions : ~IsKeyword(j, g)'
        BY <1>1, <1>3, <3>4 DEF IsKeyword
      <4>2. Builder(j)' => Builder(j)
        BY <1>1 DEF Builder, Registers
      <4>3. QED
        BY <1>1, <2>2, <3>3, <3>4, <4>1, <4>2 DEF StatementDone
    <3>5. ASSUME NEW n \in Nat, n = at + 1
          PROVE  ConstructorsDone(n)'
      BY <1>1, <1>3, <2>1, <2>2, <3>1, <3>5 DEF ConstructorsDone, Constructs, IsKeyword
    <3>6. QED
      BY <1>1, <3>1, <3>2, <3>4, <3>5, StatementLasts
  <2>3. CASE /\ UNCHANGED pending /\ type[T] = None
             /\ type' = [type EXCEPT ![T] = [methods |-> block[at].methods, factory |-> f, epoch |-> epoch]]
             /\ \/ f = None /\ UNCHANGED spec
                \/ /\ f # None /\ spec[f].epoch # epoch
                   /\ spec' = [spec EXCEPT ![f] = Filled(Fresh, TRUE)]
    <3>1. ~pending /\ SpecsDone /\ ConstructorsDone(at) /\ \A j \in DOMAIN block : j < at => StatementDone(j)
      BY <1>1, <1>4, <2>3 DEF DoneSoFar
    <3>2. /\ f # None => spec'[f].epoch = epoch /\ spec'[f].default = Fresh
          /\ \A g \in Functions : g # f => spec'[g] = spec[g]
      BY <1>1, <2>3 DEF Typed, Filled
    <3>3. Fresh # None
      BY <1>1, BlockIsTyped, NoneIsNoDefault DEF Fresh, Typed
    <3>4. SpecsDone'
      BY <1>1, <3>1, <3>2, <3>3, NoneIsNothing DEF SpecsDone
    <3>5. /\ type'[T].methods = block[at].methods /\ type'[T].factory = f /\ type'[T].epoch = epoch /\ type'[T] # None
          /\ \A S \in Types : S # T => type'[S] = type[S]
      <4>1. /\ type'[T] = [methods |-> block[at].methods, factory |-> f, epoch |-> epoch]
            /\ \A S \in Types : S # T => type'[S] = type[S]
        BY <1>1, <2>3 DEF Typed
      <4>2. type'[T] # None
        BY <1>1, <1>2, <4>1, NoneIsNothing DEF Built
      <4>3. QED
        BY <4>1, <4>2
    <3>6. ASSUME NEW j \in DOMAIN block, j = at
          PROVE  StatementDone(j)'
      <4>1. Declares(j)'
        BY <1>1, <3>5, <3>6 DEF Declares
      <4>2. \A g \in Functions : ~IsKeyword(j, g)'
        BY <1>1, <1>3, <3>6 DEF IsKeyword
      <4>3. QED
        BY <1>1, <3>5, <3>6, <4>1, <4>2 DEF StatementDone
    <3>7. ASSUME NEW n \in Nat, n = at + 1
          PROVE  ConstructorsDone(n)'
      <4>1. ASSUME NEW S \in Types, NEW g \in Functions, type'[S] # None, type'[S].epoch = epoch, type'[S].factory = g
            PROVE  spec'[g].epoch = epoch /\ \A k \in DOMAIN block : k < at => ~IsKeyword(k, g)
        <5>1. CASE S # T
          <6>1. spec[g].epoch = epoch /\ \A k \in DOMAIN block : k < at => ~IsKeyword(k, g)
            BY <3>1, <3>5, <4>1, <5>1 DEF ConstructorsDone, Constructs
          <6>2. spec'[g].epoch = epoch
            BY <1>1, <6>1, ClaimedHow
          <6>3. QED
            BY <6>1, <6>2
        <5>2. CASE S = T
          <6>1. g = f /\ f # None
            BY <3>5, <4>1, <5>2, NoneIsNothing
          <6>2. \A k \in DOMAIN block : k < at => ~IsKeyword(k, g)
            BY <2>3, <3>1, <6>1 DEF StatementDone
          <6>3. QED
            BY <3>2, <6>1, <6>2
        <5>3. QED
          BY <5>1, <5>2
      <4>2. QED
        BY <1>1, <1>3, <2>1, <3>7, <4>1 DEF ConstructorsDone, Constructs, IsKeyword
    <3>8. QED
      BY <1>1, <3>1, <3>4, <3>6, <3>7, StatementLasts
  <2>4. QED
    BY <1>1, <1>4, <2>2, <2>3 DEF TypeGoesOn
<1>5. QED
  BY <1>1, <1>4, DoneStays

-----------------------------------------------------------------------------
(* Every step keeps the invariant, and the invariant says it all.          *)

\* An import begins with nothing of its own made, and nothing claimed.
LEMMA WholeBegin ==
  ASSUME Typed, WholeInv, Begin
  PROVE  WholeInv'
<1>1. UNCHANGED <<block, spec, type, modules, pending>> /\ pc = "out"
  BY DEF Begin, specVars
<1>2. (\A m \in modules : Delivered(m))' /\ Constructors'
  BY <1>1 DEF WholeInv, Delivered, Constructors, Constructs, Declares, Builder, Registers, IsKeyword
<1>3. CASE pc' = "out"
  BY <1>2, <1>3 DEF WholeInv, DoneSoFar, Begun
<1>4. CASE epoch' = epoch + 1 /\ at' = 1
  <2>1. /\ epoch \in Nat /\ \A f \in Functions : spec[f].epoch \in Nat /\ spec[f].epoch <= epoch
        /\ \A T \in Types : type[T] # None => type[T].epoch \in 1..epoch
        /\ \A m \in modules : m.epoch \in 1..epoch
        /\ DOMAIN block \subseteq Nat \ {0}
    BY BlockIsTyped DEF Typed, Specs
  <2>2. /\ \A f \in Functions : spec'[f].epoch # epoch'
        /\ \A T \in Types : type'[T] # None => type'[T].epoch # epoch'
        /\ \A m \in modules' : m.epoch < epoch'
        /\ \A j \in DOMAIN block' : ~(j < at')
    BY <1>1, <1>4, <2>1
  <2>3. Begun'
    BY <2>2 DEF Begun
  <2>4. SpecsDone' /\ ConstructorsDone(at)'
    BY <2>2 DEF SpecsDone, ConstructorsDone, Constructs
  <2>5. DoneSoFar'
    BY <2>2, <2>4 DEF DoneSoFar
  <2>6. QED
    BY <1>2, <2>3, <2>5 DEF WholeInv
<1>5. QED
  BY <1>1, <1>3, <1>4 DEF Begin

LEMMA WholeStatement ==
  ASSUME Typed, WholeInv, pc = "in", at \in DOMAIN block, ClaimStep, BuildStep, Moves,
         UNCHANGED <<block, epoch, modules>>, DoneSoFar',
         pc' = "in" => \A g \in Functions : spec'[g] = spec[g] \/ spec'[g].whole
  PROVE  WholeInv'
<1>1. Begun'
  BY BegunStays DEF WholeInv
<1>2. Constructors'
  BY ConstructorsStay DEF WholeInv
<1>3. (\A m \in modules : Delivered(m))'
  BY DeliveredStays
<1>4. QED
  BY <1>1, <1>2, <1>3 DEF WholeInv

LEMMA WholePlain ==
  ASSUME Typed, WholeInv, Plain
  PROVE  WholeInv'
<1>1. /\ pc = "in" /\ at \in DOMAIN block /\ Moves
      /\ UNCHANGED <<block, epoch, modules, spec, type>>
  BY DEF Plain, Statement, Proceed, Refuse, Moves, specVars
<1>2. ClaimStep /\ BuildStep
  BY <1>1 DEF ClaimStep, BuildStep
<1>3. DoneSoFar'
  BY PlainDone DEF WholeInv
<1>4. QED
  BY <1>1, <1>2, <1>3, WholeStatement

LEMMA WholeKeyword ==
  ASSUME Typed, WholeInv, Keyword
  PROVE  WholeInv'
<1> DEFINE f == block[at].fn
<1>1. Begun
  BY DEF WholeInv
<1>2. /\ pc = "in" /\ at \in DOMAIN block /\ block[at].what = "keyword" /\ f \in Functions
      /\ ClaimStep /\ BuildStep /\ Moves
      /\ UNCHANGED <<block, epoch, modules>>
      /\ pc' = "in" => spec'[f].whole
  BY <1>1, KeywordMeans
<1>3. DoneSoFar'
  BY <1>1, KeywordDone DEF WholeInv
<1>4. ASSUME pc' = "in", NEW g \in Functions
      PROVE  spec'[g] = spec[g] \/ spec'[g].whole
  <2>1. spec'[g] = spec[g] \/ MayClaim(g)
    BY <1>2, ClaimedHow
  <2>2. MayClaim(g) => g = f
    BY <1>2 DEF MayClaim, IsKeyword
  <2>3. QED
    BY <1>2, <1>4, <2>1, <2>2
<1>5. QED
  BY <1>2, <1>3, <1>4, WholeStatement

LEMMA WholeType ==
  ASSUME Typed, WholeInv, Type
  PROVE  WholeInv'
<1>1. Begun
  BY DEF WholeInv
<1>2. /\ pc = "in" /\ at \in DOMAIN block
      /\ ClaimStep /\ BuildStep /\ Moves
      /\ UNCHANGED <<block, epoch, modules>>
      /\ pc' = "in" => WholeStep
  BY <1>1, TypeMeans
<1>3. DoneSoFar'
  BY <1>1, TypeDone DEF WholeInv
<1>4. ASSUME pc' = "in", NEW g \in Functions
      PROVE  spec'[g] = spec[g] \/ spec'[g].whole
  <2>1. CASE spec' = spec
    BY <2>1
  <2>2. ASSUME NEW f \in Functions, NEW d \in {None, Fresh}, spec' = [spec EXCEPT ![f] = Filled(d, TRUE)]
        PROVE  spec'[g] = spec[g] \/ spec'[g].whole
    BY <2>2 DEF Typed, Filled
  <2>3. QED
    BY <1>2, <1>4, <2>1, <2>2 DEF WholeStep
<1>5. QED
  BY <1>2, <1>3, <1>4, WholeStatement

\* A module is delivered with all that its import made, when no error is pending.
LEMMA WholeEnd ==
  ASSUME Typed, WholeInv, End
  PROVE  WholeInv'
<1>1. /\ pc = "in" /\ pc' = "out" /\ at = Len(block) + 1
      /\ UNCHANGED <<block, epoch, spec, type>>
      /\ modules' = modules \/ (~pending /\ modules' = modules \cup {[epoch |-> epoch]})
  BY DEF End, Refuse, specVars
<1>2. DoneSoFar' /\ Begun'
  BY <1>1 DEF DoneSoFar, Begun
<1>3. Constructors'
  BY <1>1 DEF WholeInv, Constructors, Registers, IsKeyword
<1>4. ASSUME NEW m \in modules
      PROVE  Delivered(m)'
  BY <1>1 DEF WholeInv, Delivered, Constructs, Declares, Builder, Registers, IsKeyword
<1>5. ASSUME ~pending, NEW m, m.epoch = epoch
      PROVE  Delivered(m)'
  <2>1. \A j \in DOMAIN block : j < at
    BY <1>1, BlockIsTyped
  <2>2. SpecsDone /\ ConstructorsDone(at) /\ \A j \in DOMAIN block : StatementDone(j)
    BY <1>1, <1>5, <2>1 DEF WholeInv, DoneSoFar
  <2>3. \A f \in Functions : spec[f].epoch = epoch => spec[f].whole /\ spec[f].default # None
    BY <1>1, <2>2 DEF SpecsDone, WholeInv, Begun
  <2>4. \A j \in DOMAIN block, f \in Functions : IsKeyword(j, f) => spec[f].epoch >= epoch
    <3>1. epoch \in Nat
      BY DEF Typed
    <3>2. \A j \in DOMAIN block, f \in Functions : IsKeyword(j, f) => spec[f].epoch = epoch
      BY <2>2 DEF StatementDone
    <3>3. QED
      BY <3>1, <3>2
  <2>5. \A j \in DOMAIN block :
          /\ block[j].what = "type" => type[block[j].of] # None
          /\ Builder(j) /\ type[block[j].of].epoch = epoch => Declares(j)
    BY <2>2 DEF StatementDone, Builder
  <2>6. \A T \in Types, f \in Functions : Constructs(T, f, epoch) =>
          spec[f].epoch = epoch /\ \A k \in DOMAIN block : ~IsKeyword(k, f)
    BY <2>1, <2>2 DEF ConstructorsDone
  <2>7. Delivered(m)
    BY <1>5, <2>3, <2>4, <2>5, <2>6 DEF Delivered
  <2>8. QED
    BY <1>1, <2>7 DEF Delivered, Constructs, Declares, Builder, Registers, IsKeyword
<1>6. (\A m \in modules : Delivered(m))'
  <2>1. \A m \in modules' : Delivered(m)'
    BY <1>1, <1>4, <1>5
  <2>2. QED
    BY <2>1
<1>7. QED
  BY <1>2, <1>3, <1>6 DEF WholeInv

LEMMA WholeStays ==
  ASSUME AllTyped, WholeInv, [BindingNext]_bindingVars
  PROVE  WholeInv'
<1>1. CASE UNCHANGED vars
  BY <1>1 DEF vars, specVars, WholeInv, DoneSoFar, SpecsDone, StatementDone, ConstructorsDone, Begun, Delivered,
              Constructors, Constructs, Declares, Builder, Registers, IsKeyword
<1>2. CASE Next
  BY <1>2, WholeBegin, WholePlain, WholeKeyword, WholeType, WholeEnd DEF Next, AllTyped
<1>3. Next \/ UNCHANGED vars
  BY BindingSteps DEF bindingVars, CallStep
<1>4. QED
  BY <1>1, <1>2, <1>3

LEMMA WholeSays ==
  ASSUME Typed, WholeInv
  PROVE  ImportedIsWhole
<1>1. ASSUME NEW m \in modules, NEW i \in DOMAIN block, Builder(i)
      PROVE  LET T == type[block[i].of]
             IN  /\ T # None
                 /\ T.epoch = m.epoch =>
                      /\ T.methods = block[i].methods /\ T.factory = block[i].factory
                      /\ T.factory # None => spec[T.factory].default # None
  <2>1. Delivered(m) /\ block[i].what = "type"
    BY <1>1 DEF WholeInv, Builder
  <2>2. block[i].of \in Types /\ block[i].factory \in Functions \cup {None} /\ type[block[i].of] # None
    BY <2>1, BlockIsTyped, StatementFields DEF Delivered
  <2>3. ASSUME type[block[i].of].epoch = m.epoch
        PROVE  /\ type[block[i].of].methods = block[i].methods /\ type[block[i].of].factory = block[i].factory
               /\ block[i].factory # None => spec[block[i].factory].default # None
    <3>1. Declares(i)
      BY <1>1, <2>1, <2>3 DEF Delivered
    <3>2. ASSUME block[i].factory # None
          PROVE  spec[block[i].factory].default # None
      <4>1. Constructs(block[i].of, block[i].factory, m.epoch)
        BY <2>2, <2>3, <3>1 DEF Constructs, Declares
      <4>2. spec[block[i].factory].epoch = m.epoch
        BY <2>1, <2>2, <3>2, <4>1 DEF Delivered
      <4>3. QED
        BY <2>1, <2>2, <3>2, <4>2 DEF Delivered
    <3>3. QED
      BY <3>1, <3>2 DEF Declares
  <2>4. QED
    BY <2>2, <2>3
<1>2. ASSUME NEW m \in modules, NEW f \in Callable
      PROVE  /\ spec[f].whole \/ spec[f].epoch > m.epoch
             /\ spec[f].epoch = m.epoch => spec[f].default # None
  <2>1. f \in Functions /\ Delivered(m) /\ m.epoch \in Nat /\ spec[f].epoch \in Nat
    BY <1>2 DEF Callable, WholeInv, Typed, Specs
  <2>2. spec[f].epoch = m.epoch => spec[f].whole /\ spec[f].default # None
    BY <2>1 DEF Delivered
  <2>3. spec[f].whole \/ \E k \in DOMAIN block : IsKeyword(k, f)
    BY <1>2, <2>1 DEF Callable, IsKeyword, WholeInv, Constructors
  <2>4. ASSUME NEW k \in DOMAIN block, IsKeyword(k, f)
        PROVE  spec[f].epoch >= m.epoch
    BY <2>1, <2>4 DEF Delivered
  <2>5. (\E k \in DOMAIN block : IsKeyword(k, f)) => spec[f].epoch = m.epoch \/ spec[f].epoch > m.epoch
    BY <2>1, <2>4
  <2>6. QED
    BY <2>2, <2>3, <2>5
<1>3. QED
  BY <1>1, <1>2 DEF ImportedIsWhole, OwnTypesAreWhole, SpecsAreWhole

(***************************************************************************)
(* THEOREM: an imported module has its types, with the methods and the     *)
(* constructor that its import declared, and specs that its functions can  *)
(* parse by, whatever failed or was refused in other imports, and whatever *)
(* order its block registers in (module.hpp, lines 120 to 131).            *)
(***************************************************************************)
THEOREM ImportsAreWhole == BindingSpec => []ImportedIsWhole
<1>1. BindingSpec => []WholeInv
  BY AllTypedAlways, InitWhole, WholeStays, PTL DEF BindingSpec
<1>2. AllTyped /\ WholeInv => ImportedIsWhole
  BY WholeSays DEF AllTyped
<1>3. QED
  BY <1>1, <1>2, AllTypedAlways, PTL
=============================================================================
