------------------------------- MODULE Corpus -------------------------------
(***************************************************************************)
(* corpus/schema.py and corpus/runner.py: the cases of a corpus are read   *)
(* and validated, each is run by the engine and by the oracle that the     *)
(* manifest names, and gets one status of the taxonomy from what the two   *)
(* gave and what the corpus expected.                                      *)
(*                                                                         *)
(* What a driver gives is a value: no match, a rejected pattern, a match   *)
(* with its span and those of its groups, or the list of an iteration; a   *)
(* driver that raised gives its exception.  The drivers and the consumer's *)
(* rows are the inputs, any value may come of any case.                    *)
(***************************************************************************)
EXTENDS Integers, Sequences

CONSTANTS
  Matches,     \* the matches a driver gives: [kind |-> "match", span, groups]
  Iterations,  \* the lists of them: [kind |-> "list", of]
  Rows,        \* the cases as they may be written: [expected, flags, requires, override]
  Manifests,   \* the manifests as they may be written: [semantics, type, oracle, api, provenance]
  MaxCases     \* bound: cases of a corpus

ASSUME BoundAssumption == MaxCases \in Nat

NoMatch == [kind |-> "none"]
Rejected == [kind |-> "error"]
Raised == [kind |-> "exception"]

\* What a driver may give through an entry point.
Given(api) == IF api = "finditer" THEN {Rejected, Raised} \cup Iterations
                                  ELSE {NoMatch, Rejected, Raised} \cup Matches

STATUSES == {"pass", "bug", "intentional_divergence", "out_of_contract", "excluded_by_design"}
SEMANTICS == {"leftmost-first", "leftmost-longest", "posix", "maximal-munch"}

ORACLE_SEMANTICS ==
  [python_re |-> "leftmost-first", std_regex |-> "leftmost-first",
   reference_tokenize |-> "maximal-munch", real_only |-> "leftmost-first"]

CASE_TYPES == {"text", "bytes"}
APIS == {"search", "match", "fullmatch", "finditer"}
EXCLUDED_CAPABILITIES == {"backreference", "recursion", "callout", "subroutine"}
FLAG_NAMES == {"ascii", "dotall", "icase", "multiline", "verbose"}

\* A row's fields that are absent: no expectation (None is also "no match"), no capability, no override.
NoCapability == ""
NoOverride == [status |-> "", reason |-> FALSE, link |-> FALSE]

VARIABLES
  pc,            \* "load", "run", "refused" by validate, "ended" by an exception, "done"
  manifest,
  cases,         \* the corpus, in order
  divergence_of, \* whether the consumer gives one: the class of is_empty_iteration_capture
  results,       \* how many cases have been run
  latest,        \* the last of them, and all that decided its status; NoResult before
  counts         \* the report's tally

vars == <<pc, manifest, cases, divergence_of, results, latest, counts>>

NoManifest == [semantics |-> "", type |-> "", oracle |-> "", api |-> "", provenance |-> FALSE]
NoResult == [status |-> ""]

-----------------------------------------------------------------------------
(* The rules of schema.py.                                                 *)

\* A stored match may leave its groups out, or write one that did not take part as <<>>.
Groups(match) == IF "groups" \in DOMAIN match THEN match.groups ELSE <<>>

\* A match meets a stored one that has its span and begins with its groups.
MeetsMatch(expected, observed) ==
  IF expected.kind = "match" /\ observed.kind = "match"
  THEN /\ expected.span = observed.span
       /\ Len(Groups(expected)) <= Len(Groups(observed))
       /\ \A i \in DOMAIN Groups(expected) : Groups(expected)[i] = Groups(observed)[i]
  ELSE expected = observed

expectation_holds(expected, observed) ==
  IF expected.kind = "list" /\ observed.kind = "list"
  THEN /\ Len(expected.of) = Len(observed.of)
       /\ \A i \in DOMAIN expected.of : MeetsMatch(expected.of[i], observed.of[i])
  ELSE MeetsMatch(expected, observed)

\* The origin's rule, and not the oracle's, is what the stored row states; and it explains what the engine gave.
OriginDiffers(real, oracle, expected, m) ==
  /\ m.semantics # ORACLE_SEMANTICS[m.oracle]
  /\ expected # NoMatch
  /\ ~expectation_holds(expected, oracle)
  /\ real = oracle \/ expectation_holds(expected, real)

Agrees(real, oracle, m) ==
  IF m.oracle = "real_only" THEN expectation_holds(oracle, real) ELSE real = oracle

classify_crash_last(real, oracle, expected, m, requires, link) ==
  IF requires # NoCapability THEN "excluded_by_design"
  ELSE IF OriginDiffers(real, oracle, expected, m) THEN "out_of_contract"
  ELSE IF Agrees(real, oracle, m) THEN "pass"
  ELSE IF link THEN "intentional_divergence"
  ELSE "bug"

classify(real, oracle, expected, m, requires, link) ==
  IF requires # NoCapability THEN "excluded_by_design"
  ELSE IF real = Raised THEN "bug"
  ELSE IF OriginDiffers(real, oracle, expected, m) THEN "out_of_contract"
  ELSE IF Agrees(real, oracle, m) THEN "pass"
  ELSE IF link THEN "intentional_divergence"
  ELSE "bug"

ZeroWidth(group) == Len(group) = 2 /\ group[1] = group[2]

\* The two matches differ, and only where the oracle's capture is empty.
OnlyEmptyCapturesAnySpan(real, oracle) ==
  /\ real.kind = "match" /\ oracle.kind = "match"
  /\ Len(Groups(real)) = Len(Groups(oracle))
  /\ Groups(real) # Groups(oracle)
  /\ \A i \in DOMAIN Groups(real) : Groups(real)[i] # Groups(oracle)[i] => ZeroWidth(Groups(oracle)[i])

OnlyEmptyCaptures(real, oracle) ==
  /\ real.kind = "match" /\ oracle.kind = "match"
  /\ real.span = oracle.span
  /\ Len(Groups(real)) = Len(Groups(oracle))
  /\ Groups(real) # Groups(oracle)
  /\ \A i \in DOMAIN Groups(real) : Groups(real)[i] # Groups(oracle)[i] => ZeroWidth(Groups(oracle)[i])

is_empty_iteration_capture(real, oracle) ==
  IF real.kind = "list" /\ oracle.kind = "list"
  THEN /\ Len(real.of) = Len(oracle.of)
       /\ real.of # oracle.of
       /\ \A i \in DOMAIN real.of : real.of[i] = oracle.of[i] \/ OnlyEmptyCaptures(real.of[i], oracle.of[i])
  ELSE OnlyEmptyCaptures(real, oracle)

(***************************************************************************)
(* The class looks into two dictionaries: an exception's has no span, a    *)
(* stored match may have no groups (KeyError), and a stored group written  *)
(* as <<>> has no ends (IndexError), unless an earlier one has decided.    *)
(***************************************************************************)
LookupRaises(real, oracle) ==
  /\ {real.kind, oracle.kind} \subseteq {"match", "exception"}
  /\ \/ Raised \in {real, oracle}
     \/ /\ real.span = oracle.span
        /\ \/ "groups" \notin DOMAIN oracle
           \/ /\ Len(real.groups) = Len(oracle.groups)
              /\ \E i \in DOMAIN real.groups :
                   /\ real.groups[i] # oracle.groups[i] /\ Len(oracle.groups[i]) < 2
                   /\ \A j \in 1..(i - 1) : real.groups[j] # oracle.groups[j] => ZeroWidth(oracle.groups[j])

ClassRaises(real, oracle) ==
  IF real.kind = "list" /\ oracle.kind = "list"
  THEN /\ Len(real.of) = Len(oracle.of)
       /\ \E i \in DOMAIN real.of :
            /\ real.of[i] # oracle.of[i] /\ LookupRaises(real.of[i], oracle.of[i])
            /\ \A j \in 1..(i - 1) : real.of[j] = oracle.of[j] \/ OnlyEmptyCaptures(real.of[j], oracle.of[j])
  ELSE LookupRaises(real, oracle)

\* Manifest.validate and Case.validate; a link is what an intentional divergence must also give.
ManifestIsValid(m) ==
  /\ m.semantics \in SEMANTICS /\ m.type \in CASE_TYPES
  /\ m.oracle \in DOMAIN ORACLE_SEMANTICS /\ m.api \in APIS
  /\ m.provenance

CaseIsValidAnyStatus(row) ==
  /\ row.flags \subseteq FLAG_NAMES
  /\ row.requires \in EXCLUDED_CAPABILITIES \cup {NoCapability}
  /\ row.override # NoOverride =>
       /\ row.override.reason
       /\ row.override.status = "intentional_divergence" => row.override.link

CaseIsValid(row) ==
  /\ row.flags \subseteq FLAG_NAMES
  /\ row.requires \in EXCLUDED_CAPABILITIES \cup {NoCapability}
  /\ row.override # NoOverride =>
       /\ row.override.status \in STATUSES
       /\ row.override.reason
       /\ row.override.status = "intentional_divergence" => row.override.link

-----------------------------------------------------------------------------
(* The runner.                                                             *)

Init ==
  /\ pc = "load" /\ manifest = NoManifest /\ cases = <<>> /\ divergence_of = FALSE
  /\ results = 0 /\ latest = NoResult /\ counts = [s \in STATUSES |-> 0]

\* load_cases_*: one invalid row refuses the whole corpus.
Load ==
  /\ pc = "load"
  /\ \E m \in Manifests, rows \in UNION {[1..k -> Rows] : k \in 0..MaxCases}, d \in BOOLEAN :
       IF ManifestIsValid(m) /\ \A i \in DOMAIN rows : CaseIsValid(rows[i])
       THEN /\ manifest' = m /\ cases' = rows /\ divergence_of' = d
            /\ pc' = "run"
       ELSE pc' = "refused" /\ UNCHANGED <<manifest, cases, divergence_of>>
  /\ UNCHANGED <<results, latest, counts>>

\* The authority's value: a run of the oracle, or what is stored.
AuthorityAsked(row, m) == Given(m.api)

Authority(row, m) == IF m.oracle = "real_only" THEN {row.expected} ELSE Given(m.api)

\* The row's own status stands; else its link, or the consumer's, may document a difference.
Decides(row) == row.override.status \notin {"", "intentional_divergence"}
Linked(row) == row.override.status = "intentional_divergence"

Asked(row) == ~Decides(row) /\ ~Linked(row) /\ divergence_of

Status(row, real, oracle) ==
  IF Decides(row) THEN row.override.status
  ELSE classify(real, oracle, row.expected, manifest, row.requires,
                Linked(row) \/ (Asked(row) /\ is_empty_iteration_capture(real, oracle)))

RunCase ==
  /\ pc = "run" /\ results < Len(cases)
  /\ LET row == cases[results + 1] IN
     \E real \in Given(manifest.api), oracle \in Authority(row, manifest) :
       IF Asked(row) /\ ClassRaises(real, oracle)
       THEN pc' = "ended" /\ UNCHANGED <<results, latest, counts>>
       ELSE /\ latest' = [status |-> Status(row, real, oracle), row |-> row, real |-> real, oracle |-> oracle]
            /\ counts' = [counts EXCEPT ![Status(row, real, oracle)] = @ + 1]
            /\ results' = results + 1
            /\ UNCHANGED pc
  /\ UNCHANGED <<manifest, cases, divergence_of>>

Report ==
  /\ pc = "run" /\ results = Len(cases)
  /\ pc' = "done"
  /\ UNCHANGED <<manifest, cases, divergence_of, results, latest, counts>>

Next == Load \/ RunCase \/ Report

Spec == Init /\ [][Next]_vars

-----------------------------------------------------------------------------
(* Properties.                                                             *)

TypeOK ==
  /\ pc \in {"load", "run", "refused", "ended", "done"}
  /\ pc \in {"run", "ended", "done"} => manifest \in Manifests /\ ManifestIsValid(manifest)
  /\ cases \in Seq(Rows) /\ \A i \in DOMAIN cases : CaseIsValid(cases[i])
  /\ divergence_of \in BOOLEAN
  /\ results \in 0..Len(cases)
  /\ latest.status \in STATUSES \cup {""} /\ (latest.status = "" <=> results = 0)
  /\ counts \in [STATUSES -> 0..results]

\* The row itself sets its case apart.
Declared(row) == row.requires # NoCapability \/ Decides(row)

(***************************************************************************)
(* "A crash on real's side is never a pass, nor set aside, even when the   *)
(* oracle raised the same way" (schema.py, lines 175 and 176): such a case *)
(* is a bug, but for a row that states another status or a capability the  *)
(* engine does not have.  docs/corpus.md has no such rule: there equal     *)
(* results are a pass (line 28), and a row of foreign semantics that the   *)
(* oracle does not meet is out of contract (lines 22 and 23).              *)
(***************************************************************************)
CrashIsABug ==
  results > 0 /\ latest.real = Raised /\ ~Declared(latest.row) => latest.status = "bug"

\* Where both found something, both found it at the same places.
SameSpans(real, oracle) ==
  \/ real.kind = "match" /\ oracle.kind = "match" /\ real.span = oracle.span
  \/ /\ real.kind = "list" /\ oracle.kind = "list" /\ Len(real.of) = Len(oracle.of)
     /\ \A i \in DOMAIN real.of : real.of[i].span = oracle.of[i].span

(***************************************************************************)
(* An answer that is neither the oracle's nor the stored row's, at other   *)
(* places than the oracle's, is reported as a bug: neither the origin's    *)
(* semantics (schema.py, lines 182 and 183) nor the class of empty captures*)
(* takes it out of the tally, only what the row itself declares.           *)
(* docs/corpus.md sets more aside, every row of foreign semantics that the *)
(* oracle does not meet, before the engine's answer is looked at (lines 22,*)
(* 23, 32 and 33).                                                         *)
(***************************************************************************)
NobodysAnswerIsABug ==
  (/\ results > 0 /\ ~Declared(latest.row) /\ ~Linked(latest.row)
   /\ latest.real # latest.oracle
   /\ ~expectation_holds(latest.row.expected, latest.real)
   /\ ~SameSpans(latest.real, latest.oracle))
    => latest.status = "bug"

(***************************************************************************)
(* A corpus of the engine's own pinned behaviour is never out of contract, *)
(* whatever semantics its manifest states: a stored row meets itself.      *)
(***************************************************************************)
OwnRowsAreInContract ==
  manifest.oracle = "real_only" /\ results > 0 /\ ~Declared(latest.row) =>
    latest.status # "out_of_contract"

(***************************************************************************)
(* "A driver that raises on a case gives {"exception": ...} for it, and    *)
(* the run goes on."                                                       *)
(***************************************************************************)
RunGoesOn == pc # "ended"
=============================================================================
