----------------------------- MODULE MCBinding ------------------------------
(***************************************************************************)
(* Instances of ModuleImport, in use as Binding has it, for the model      *)
(* checker: registration blocks as the example consumers write them.       *)
(***************************************************************************)
EXTENDS Binding

CONSTANTS make, open, Widget, c1

PlainDef == [what |-> "plain"]
KeywordDef(fn) == [what |-> "keyword", fn |-> fn]
TypeOf(factory) == [what |-> "type", of |-> Widget, methods |-> 2, factory |-> factory]

\* A constructible type and functions; a function registered twice; a factory-only type; a type registered twice.
SoundBlock == <<TypeOf(make), PlainDef, KeywordDef(open)>>
TwiceBlock == <<KeywordDef(open), PlainDef, KeywordDef(open)>>
PlainBlock == <<PlainDef, TypeOf(None), KeywordDef(make), KeywordDef(open)>>
DemoBlock  == <<PlainDef, TypeOf(make), TypeOf(None), KeywordDef(open)>>
\* The factory of a type registered as a function of the module too.
BothBlock  == <<TypeOf(make), KeywordDef(make)>>
MCBlocks   == {SoundBlock, TwiceBlock, PlainBlock, DemoBlock, BothBlock}
=============================================================================
