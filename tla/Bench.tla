------------------------------- MODULE Bench -------------------------------
(***************************************************************************)
(* bench.hpp: a benchmark binary times operations into raw samples,        *)
(* renders one case for each and prints the run as the JSON text that the  *)
(* Python reporter loads (bench/schema.py).  The reporter's side is the    *)
(* last section: json.load as far as this text needs it, and what schema   *)
(* itself writes of a case, which the binary's text must equal.            *)
(*                                                                         *)
(* A text is a sequence of symbols: a character that JSON or its escapes   *)
(* tell apart from others, a whole numeral, a word.  Times are nanoseconds.*)
(***************************************************************************)
EXTENDS Integers, Sequences, SequencesExt, FiniteSetsExt

CONSTANTS
  Names,      \* the names a case may have: sequences of characters
  Domains,    \* its domain fields: sequences of <<key, value>>
  Outcomes,   \* its result: a value, or Absent
  Elapsed,    \* what timing one call may read
  Targets,    \* batch_target
  Inners,     \* inner, 0 for a loop that calibrate sizes
  Measures,   \* the averages a batch may give: durations, NaN, Infinity, MinusInfinity
  Samples,    \* samples
  Precision,  \* 10 to the significant digits of %.6g, a million in the code
  IntMax,     \* the largest int
  MaxCases    \* bound: cases of a run

ASSUME WidthAssumption == Precision \in Nat \ {0} /\ IntMax \in Nat \ {0} /\ MaxCases \in Nat
ASSUME TimesAssumption == Elapsed \subseteq Nat /\ Targets \subseteq Nat /\ Inners \subseteq Nat

VARIABLES
  pc,      \* "idle", "warm", "sized" (its samples are taken), "gone" (an operation threw), "printed",
           \* "loaded", or "refused" (the reporter raises)
  call,    \* the arguments of collect, and what calibrate read of one operation
  n,       \* the inner loop
  raw,     \* the samples of the case at hand
  cases,   \* the cases of the run: what they are, and their text
  text,    \* the run as printed
  loaded   \* the cases as the reporter has them

vars == <<pc, call, n, raw, cases, text, loaded>>

\* No duration is negative: these are the doubles that are no number.
NaN == -1
Infinity == -2
MinusInfinity == -3

Ch(c) == [ch |-> c]
Num(v) == [num |-> v]
Word(w) == [word |-> w]

Quote == Ch("quote")
Backslash == Ch("backslash")

Chars == [ch : STRING]

\* A control character and its two hexadecimal digits, and those with a short escape.
Code == [c \in {Ch("soh"), Ch("us")} |->
           IF c = Ch("soh") THEN <<Ch("0"), Ch("1")>> ELSE <<Ch("1"), Ch("f")>>]
Short == [c \in {Ch("newline"), Ch("tab"), Ch("return")} |->
            CASE c = Ch("newline") -> Ch("n") [] c = Ch("tab") -> Ch("t") [] OTHER -> Ch("r")]

Str(s) == [kind |-> "string", of |-> s]
Int_(v) == [kind |-> "integer", of |-> v]
Absent == [kind |-> "absent", of |-> <<>>]

\* What a bencher gives a domain field, or a result: the text of it is json_string's or json_integer's.
Values == [kind : {"string"}, of : Seq(Chars)] \cup [kind : {"integer"}, of : Int]

ASSUME NamesAssumption ==
  /\ Names \subseteq Seq(Chars)
  /\ Domains \subseteq Seq(Seq(Chars) \X Values)
  /\ Outcomes \subseteq Values \cup {Absent}
ASSUME MeasuresAssumption == Measures \subseteq Nat \cup {NaN, Infinity, MinusInfinity}

-----------------------------------------------------------------------------
(* The emitter.                                                            *)

EscapedQuoteOnly(c) ==
  CASE c = Quote -> <<Backslash, c>>
    [] c \in DOMAIN Short -> <<Backslash, Short[c]>>
    [] c \in DOMAIN Code -> <<Backslash, Ch("u"), Ch("0"), Ch("0")>> \o Code[c]
    [] OTHER -> <<c>>

Escaped(c) ==
  CASE c \in {Quote, Backslash} -> <<Backslash, c>>
    [] c \in DOMAIN Short -> <<Backslash, Short[c]>>
    [] c \in DOMAIN Code -> <<Backslash, Ch("u"), Ch("0"), Ch("0")>> \o Code[c]
    [] OTHER -> <<c>>

json_string(value) == <<Quote>> \o FlattenSeq([i \in DOMAIN value |-> Escaped(value[i])]) \o <<Quote>>

\* What a decimal of the significant digits can tell of v apart: 1 below Precision, then 10, ...
Unit(v) ==
  LET unit[w \in 0..v] == IF w < Precision THEN 1 ELSE 10 * unit[w \div 10]
  IN  unit[v]

\* The nearest of them, the even one of two.
Rounded(v) ==
  LET u == Unit(v)
      down == v \div u
      over == 2 * (v % u)
  IN  u * IF over > u \/ (over = u /\ down % 2 = 1) THEN down + 1 ELSE down

json_number_printf(value) ==
  CASE value = NaN -> <<Word("nan")>>
    [] value = Infinity -> <<Word("inf")>>
    [] value = MinusInfinity -> <<Word("-inf")>>
    [] OTHER -> <<Num(Rounded(value))>>

json_number(value) ==
  CASE value = NaN -> <<Word("NaN")>>
    [] value = Infinity -> <<Word("Infinity")>>
    [] value = MinusInfinity -> <<Word("-Infinity")>>
    [] OTHER -> <<Num(Rounded(value))>>

json_integer_as_number(value) == json_number(value)

json_integer(value) == <<Num(value)>>

json_join_trailing(items) == FlattenSeq([i \in DOMAIN items |-> items[i] \o <<Ch(",")>>])

json_join(items) ==
  FlattenSeq([i \in DOMAIN items |-> IF i = 1 THEN items[i] ELSE <<Ch(",")>> \o items[i]])

json_array(values) ==
  <<Ch("[")>> \o json_join([i \in DOMAIN values |-> json_number(values[i])]) \o <<Ch("]")>>

json_object(fields) ==
  <<Ch("{")>>
    \o json_join([i \in DOMAIN fields |-> json_string(fields[i][1]) \o <<Ch(":")>> \o fields[i][2]])
    \o <<Ch("}")>>

\* A key of the schema, as a string of one character.
Key(k) == <<Ch(k)>>

\* How a bencher renders the value of a domain field, or a result.
Render(value) == IF value.kind = "string" THEN json_string(value.of) ELSE json_integer(value.of)

Fields(c) ==
  <<<<Key("name"), json_string(c.name)>>, <<Key("unit"), json_string(Key("s"))>>,
    <<Key("samples"), json_array(c.samples)>>>>
    \o (IF c.result = Absent THEN <<>> ELSE <<<<Key("result"), Render(c.result)>>>>)

emit_case_nested(c) ==
  json_object(Fields(c) \o
    <<<<Key("domain"), json_object([i \in DOMAIN c.domain |-> <<c.domain[i][1], Render(c.domain[i][2])>>])>>>>)

\* The domain fields are siblings of the schema's.
emit_case(c) ==
  json_object(Fields(c) \o [i \in DOMAIN c.domain |-> <<c.domain[i][1], Render(c.domain[i][2])>>])

emit_run(meta_json, emitted) ==
  json_object(<<<<Key("meta"), meta_json>>,
                <<Key("cases"), <<Ch("[")>> \o json_join(emitted) \o <<Ch("]")>>>>>>)

-----------------------------------------------------------------------------
(* The reporter: json.load, which reads a text from left to right.         *)

\* What is open, and what may come next in the innermost of it.
Reading == [mode |-> "plain", buffer |-> <<>>, open |-> <<>>, want |-> "value", read |-> Absent]

Unreadable == [Reading EXCEPT !.mode = "bad"]

\* A value is read, as an item, as a key or as the value of one.
Deliver(r, v) ==
  IF r.open = <<>> THEN [r EXCEPT !.mode = "plain", !.want = "end", !.read = v]
  ELSE LET top == Last(r.open) IN
    IF r.want \in {"key", "first key"}
      THEN [r EXCEPT !.mode = "plain", !.want = "colon", !.open = Front(r.open) \o <<[top EXCEPT !.key = v.of]>>]
      ELSE [r EXCEPT !.mode = "plain", !.want = "comma",
                     !.open = Front(r.open) \o <<[top EXCEPT !.of = Append(@, IF top.kind = "array" THEN v ELSE <<top.key, v>>)]>>]

Open(r, kind, want) ==
  [r EXCEPT !.open = Append(@, [kind |-> kind, of |-> <<>>, key |-> <<>>]), !.want = want]

Close(r) ==
  Deliver([r EXCEPT !.open = Front(@), !.want = "value"], [kind |-> Last(r.open).kind, of |-> Last(r.open).of])

Within(r, kind) == r.open # <<>> /\ Last(r.open).kind = kind

ReadPlain(r, c) ==
  CASE c = Quote /\ r.want \in {"value", "first", "key", "first key"} -> [r EXCEPT !.mode = "string", !.buffer = <<>>]
    [] c = Ch("[") /\ r.want \in {"value", "first"} -> Open(r, "array", "first")
    [] c = Ch("{") /\ r.want \in {"value", "first"} -> Open(r, "object", "first key")
    [] c = Ch("]") /\ Within(r, "array") /\ r.want \in {"first", "comma"} -> Close(r)
    [] c = Ch("}") /\ Within(r, "object") /\ r.want \in {"first key", "comma"} -> Close(r)
    [] c = Ch(",") /\ r.want = "comma" -> [r EXCEPT !.want = IF Within(r, "array") THEN "value" ELSE "key"]
    [] c = Ch(":") /\ r.want = "colon" -> [r EXCEPT !.want = "value"]
    [] DOMAIN c = {"num"} /\ r.want \in {"value", "first"} -> Deliver(r, Int_(c.num))
    [] c = Word("NaN") /\ r.want \in {"value", "first"} -> Deliver(r, Int_(NaN))
    [] c = Word("Infinity") /\ r.want \in {"value", "first"} -> Deliver(r, Int_(Infinity))
    [] c = Word("-Infinity") /\ r.want \in {"value", "first"} -> Deliver(r, Int_(MinusInfinity))
    [] OTHER -> Unreadable

ReadString(r, c) ==
  CASE c = Quote -> Deliver(r, Str(r.buffer))
    [] c = Backslash -> [r EXCEPT !.mode = "escape"]
    [] c \in DOMAIN Code \cup DOMAIN Short -> Unreadable
    [] OTHER -> [r EXCEPT !.buffer = Append(@, c)]

ReadEscape(r, c) ==
  CASE c \in {Quote, Backslash} -> [r EXCEPT !.mode = "string", !.buffer = Append(@, c)]
    [] \E s \in DOMAIN Short : Short[s] = c ->
         [r EXCEPT !.mode = "string", !.buffer = Append(@, CHOOSE s \in DOMAIN Short : Short[s] = c)]
    [] c = Ch("u") -> [r EXCEPT !.mode = "u", !.read = Str(<<>>)]
    [] OTHER -> Unreadable

\* The four digits of an escape are held in `read`, which is free until the text ends.
ReadCode(r, c) ==
  LET digits == Append(r.read.of, c) IN
  IF Len(digits) < 4 THEN [r EXCEPT !.read = Str(digits)]
  ELSE IF \E s \in DOMAIN Code : digits = <<Ch("0"), Ch("0")>> \o Code[s]
    THEN [r EXCEPT !.mode = "string",
                   !.buffer = Append(@, CHOOSE s \in DOMAIN Code : digits = <<Ch("0"), Ch("0")>> \o Code[s])]
    ELSE Unreadable

Read(r, c) ==
  CASE r.mode = "plain" -> ReadPlain(r, c)
    [] r.mode = "string" -> ReadString(r, c)
    [] r.mode = "escape" -> ReadEscape(r, c)
    [] r.mode = "u" -> ReadCode(r, c)
    [] OTHER -> r

\* The reader's state when a piece of the text has been read.
ReadPiece(r, piece) ==
  LET after[i \in 0..Len(piece)] == IF i = 0 THEN r ELSE Read(after[i - 1], piece[i])
  IN  after[Len(piece)]

\* A piece of the text is read at a time: what is nested in an evaluation is a piece, not the text.
PieceLen == 12

ReadAll(t) ==
  LET Piece(k) == SubSeq(t, (k - 1) * PieceLen + 1, Min({k * PieceLen, Len(t)}))
      after[k \in 0..(Len(t) \div PieceLen + 1)] ==
        IF k = 0 THEN Reading
        ELSE LET before == after[k - 1] IN
             IF before.mode = "bad" THEN before ELSE ReadPiece(before, Piece(k))
  IN  after[Len(t) \div PieceLen + 1]

json_load(t) ==
  LET r == ReadAll(t) IN
  IF r.mode = "plain" /\ r.want = "end" THEN r.read ELSE Absent

\* A Python dict: the last of two values of a key is the one it has.
Dict(pairs) ==
  [k \in {pairs[i][1] : i \in DOMAIN pairs} |->
     pairs[Max({i \in DOMAIN pairs : pairs[i][1] = k})][2]]

\* Two dicts in one: the keys of the first keep their values.
Over(d, e) == [k \in DOMAIN d \cup DOMAIN e |-> IF k \in DOMAIN d THEN d[k] ELSE e[k]]

\* schema._case_to_json.
_case_to_json(c) ==
  Over(Dict(c.domain),
    Dict(<<<<Key("name"), Str(c.name)>>, <<Key("unit"), Str(Key("s"))>>,
           <<Key("samples"), [kind |-> "array", of |-> [i \in DOMAIN c.samples |-> Int_(c.samples[i])]]>>>>
      \o (IF c.result = Absent THEN <<>> ELSE <<<<Key("result"), c.result>>>>)))

_CASE_KEYS == {Key("name"), Key("unit"), Key("samples"), Key("result")}

\* Python's list of a value: an array's items, a string's characters; a number has none.
Listable(v) == v.kind # "integer"
AsList(v) == IF v.kind = "string" THEN [i \in DOMAIN v.of |-> Str(<<v.of[i]>>)] ELSE v.of

\* schema._case_from_json, which raises where the samples are no list.
_case_from_json(obj) ==
  [name |-> obj[Key("name")], unit |-> obj[Key("unit")], samples |-> AsList(obj[Key("samples")]),
   result |-> IF Key("result") \in DOMAIN obj THEN obj[Key("result")] ELSE Absent,
   extra |-> [k \in DOMAIN obj \ _CASE_KEYS |-> obj[k]]]

-----------------------------------------------------------------------------
(* The collector.                                                          *)

NoCall == [samples |-> 0, target |-> 0, once |-> 0]

Init ==
  /\ pc = "idle" /\ call = NoCall /\ n = 0 /\ raw = <<>> /\ cases = <<>> /\ text = <<>> /\ loaded = <<>>

\* collect, up to the loop's size where the caller gives one.
Collect ==
  /\ pc = "idle" /\ Len(cases) < MaxCases
  /\ \E samples \in Samples, target \in Targets, inner \in Inners :
       /\ call' = [samples |-> samples, target |-> target, once |-> 0]
       /\ n' = inner
       /\ pc' = IF inner > 0 THEN "sized" ELSE "warm"
  /\ raw' = <<>>
  /\ UNCHANGED <<cases, text, loaded>>

\* The quotient of two doubles, cut off: where the times divide, their doubles may miss it by a hair.
Quotient(t, o) == {t \div o} \cup IF t > 0 /\ t % o = 0 THEN {t \div o - 1} ELSE {}

\* As an int: the cast of one that is too large is undefined.
Cast(q) == IF q <= IntMax THEN {q} ELSE -IntMax - 1..IntMax

CalibrateToZero ==
  /\ pc = "warm"
  /\ \E e \in Elapsed :
       LET once == IF e = 0 THEN 1 ELSE e IN
       \E q \in UNION {Cast(x) : x \in Quotient(call.target, once)} : call' = [call EXCEPT !.once = once] /\ n' = q
  /\ pc' = "sized"
  /\ UNCHANGED <<raw, cases, text, loaded>>

\* calibrate: one call to warm up, one timed, at least a nanosecond long.
Calibrate ==
  /\ pc = "warm"
  /\ \E e \in Elapsed :
       LET once == IF e = 0 THEN 1 ELSE e IN
       \E q \in UNION {Cast(x) : x \in Quotient(call.target, once)} :
         /\ call' = [call EXCEPT !.once = once]
         /\ n' = IF q < 1 THEN 1 ELSE q
  /\ pc' = "sized"
  /\ UNCHANGED <<raw, cases, text, loaded>>

\* batch_time: the average of n calls.
Sample ==
  /\ pc = "sized" /\ Len(raw) < call.samples
  /\ \E m \in Measures : raw' = Append(raw, m)
  /\ UNCHANGED <<pc, call, n, cases, text, loaded>>

\* collect returns; the bencher renders the case.
Emit ==
  /\ pc = "sized" /\ Len(raw) >= call.samples
  /\ \E name \in Names, domain \in Domains, result \in Outcomes :
       LET c == [name |-> name, samples |-> raw, domain |-> domain, result |-> result] IN
       cases' = Append(cases, c)
  /\ pc' = "idle" /\ call' = NoCall /\ n' = 0 /\ raw' = <<>>
  /\ UNCHANGED <<text, loaded>>

\* The operation throws, in whatever call of it: nothing of the run is printed.
Throw ==
  /\ pc \in {"warm", "sized"}
  /\ pc' = "gone"
  /\ UNCHANGED <<call, n, raw, cases, text, loaded>>

Meta == json_object(<<<<Key("bench"), json_string(Key("selftest"))>>>>)

PrintRun ==
  /\ pc = "idle"
  /\ text' = emit_run(Meta, [i \in DOMAIN cases |-> emit_case(cases[i])])
  /\ pc' = "printed"
  /\ UNCHANGED <<call, n, raw, cases, loaded>>

\* The case objects of a text that can be read.
Objects(run) ==
  LET read == Dict(run.of)[Key("cases")].of IN [i \in DOMAIN read |-> Dict(read[i].of)]

\* load_run, in the reporter's process: it raises at a text, or a case, that it cannot read.
Load ==
  /\ pc = "printed"
  /\ LET run == json_load(text)
         objects == Objects(run)
     IN  IF run # Absent /\ \A i \in DOMAIN objects : Listable(objects[i][Key("samples")])
         THEN pc' = "loaded" /\ loaded' = [i \in DOMAIN objects |-> _case_from_json(objects[i])]
         ELSE pc' = "refused" /\ UNCHANGED loaded
  /\ UNCHANGED <<call, n, raw, cases, text>>

Next == Collect \/ Calibrate \/ Sample \/ Emit \/ Throw \/ PrintRun \/ Load

Spec == Init /\ [][Next]_vars

-----------------------------------------------------------------------------
(* Properties.                                                             *)

\* Every sample is loaded, at its place, as the number that was measured up to half a unit of its
\* last significant digit, or as the same not-a-number.
KeepsDigits(kept, samples) ==
  /\ Len(kept) = Len(samples)
  /\ \A j \in DOMAIN kept :
       LET was == samples[j]
           is == kept[j].of
       IN IF was < 0 THEN is = was ELSE 2 * (is - was) \in -Unit(was)..Unit(was)

\* The case that Python's own text of c loads as, and whether it loads.
Meant(c) == _case_from_json(_case_to_json(c))
MeansACase(c) == Listable(_case_to_json(c)[Key("samples")])

\* The loaded case is the one that c means, its samples unless a domain field takes their place
\* those that were measured.
ReadsBack(is, c) ==
  /\ [is EXCEPT !.samples = Meant(c).samples] = Meant(c)
  /\ IF Key("samples") \in DOMAIN Dict(c.domain)
     THEN is.samples = Meant(c).samples ELSE KeepsDigits(is.samples, c.samples)

(***************************************************************************)
(* The printed text says what the text would that Python writes of the     *)
(* run, whatever characters the names hold and whatever keys the domain    *)
(* fields take, the schema's own among them (bench.hpp, lines 144 to 285): *)
(* the reporter raises exactly if a domain field puts a number for the     *)
(* samples, which lines 5 and 6 do not say of the text that it "ingests";  *)
(* else each case is loaded, in its place, as it is meant.                 *)
(***************************************************************************)
RunReadsBack ==
  pc \in {"loaded", "refused"} =>
    /\ pc = "loaded" <=> \A i \in DOMAIN cases : MeansACase(cases[i])
    /\ pc = "loaded" => /\ Len(loaded) = Len(cases)
                        /\ \A i \in DOMAIN cases : ReadsBack(loaded[i], cases[i])

(***************************************************************************)
(* A loop that calibrate sizes runs at least once, never longer than the   *)
(* target unless it is one call, and, where its size fits an int, as long  *)
(* as the target allows, but for a call that the doubles' quotient missed. *)
(* Where it fits none the cast of line 94 is undefined, and the loop may be*)
(* one call, against line 83.                                              *)
(***************************************************************************)
LoopFitsTheTarget ==
  pc = "sized" /\ call.once > 0 =>
    /\ n >= 1
    /\ n > 1 => n * call.once <= call.target
    /\ call.target \div call.once <= IntMax => (n + 1) * call.once >= call.target

=============================================================================
