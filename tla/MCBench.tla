------------------------------ MODULE MCBench ------------------------------
(***************************************************************************)
(* Names that hold every character JSON cares about, and its structure's;  *)
(* domain fields that repeat a key and that take one of the schema's.      *)
(***************************************************************************)
EXTENDS Bench

MCNames ==
  {<<Quote, Backslash, Ch("n"), Ch("tab")>>, <<Ch(","), Ch("newline"), Ch("us"), Ch("}")>>}

MCDomains ==
  {<<<<Key("samples"), Int_(25)>>>>,
   <<<<Key("family"), Str(<<Ch("x")>>)>>, <<Key("family"), Str(<<Quote>>)>>>>,
   <<<<Key("unit"), Int_(7)>>, <<Key("result"), Str(<<>>)>>, <<Key("samples"), Str(<<Ch("x"), Quote>>)>>>>}

MCOutcomes == {Absent, Str(<<Backslash>>)}

MCMeasures == {25, 96, NaN, MinusInfinity}

MCSamples == {-1, 2}
=============================================================================
