---------------------------- MODULE CorpusProofs ----------------------------
(***************************************************************************)
(* What the statuses of a corpus run (corpus/schema.py, runner.py) mean    *)
(* for any corpus, whatever the drivers give.                              *)
(***************************************************************************)
EXTENDS Corpus, SequenceTheorems, TLAPS

\* A valid row may state a status, so that every status is one of the taxonomy.
LEMMA StatusInTaxonomy ==
  ASSUME NEW row, NEW real, NEW oracle, CaseIsValid(row)
  PROVE  Status(row, real, oracle) \in STATUSES
<1>1. CASE Decides(row)
  <2>1. row.override # NoOverride
    <3>1. NoOverride.status = ""
      BY DEF NoOverride
    <3>2. QED
      BY <1>1, <3>1 DEF Decides
  <2>2. row.override.status \in STATUSES
    BY <2>1 DEF CaseIsValid
  <2>3. QED
    BY <1>1, <2>2 DEF Status
<1>2. CASE ~Decides(row)
  BY <1>2 DEF Status, classify, STATUSES
<1>3. QED
  BY <1>1, <1>2

\* No status is the empty one, which stands for no result.
LEMMA NoStatusIsEmpty == "" \notin STATUSES
  BY DEF STATUSES

LEMMA CorpusOfRows ==
  ASSUME NEW rows \in UNION {[1..k -> Rows] : k \in 0..MaxCases}
  PROVE  rows \in Seq(Rows) /\ Len(rows) \in Nat /\ DOMAIN rows = 1..Len(rows)
<1>1. PICK k \in 0..MaxCases : rows \in [1..k -> Rows]
  OBVIOUS
<1>2. k \in Nat
  BY BoundAssumption
<1>3. rows \in Seq(Rows)
  BY <1>1, <1>2, SeqDef
<1>4. QED
  BY <1>3, LenProperties

-----------------------------------------------------------------------------
(* The inductive invariant.  What decided the last status stays as it was: *)
(* neither the manifest nor the consumer's class changes once a case has   *)
(* been run, so the status is still what the rules give for it.            *)

Unreported == pc = "load" => results = 0

Decided ==
  results > 0 =>
    /\ latest.status = Status(latest.row, latest.real, latest.oracle)
    /\ latest.oracle \in Authority(latest.row, manifest)

IInv == TypeOK /\ Unreported /\ Decided

LEMMA LoadKeepsTypes ==
  ASSUME IInv, Load
  PROVE  TypeOK'
<1> USE DEF IInv, TypeOK, Unreported
<1>1. results = 0 /\ UNCHANGED <<results, latest, counts>>
  BY DEF Load
<1>2. /\ cases' \in Seq(Rows) /\ Len(cases') \in Nat
      /\ \A i \in DOMAIN cases' : CaseIsValid(cases'[i])
      /\ divergence_of' \in BOOLEAN
      /\ pc' \in {"run", "refused"}
      /\ pc' = "run" => manifest' \in Manifests /\ ManifestIsValid(manifest')
  <2>1. CASE pc' = "refused" /\ UNCHANGED <<manifest, cases, divergence_of>>
    BY <2>1, LenProperties
  <2>2. CASE pc' # "refused"
    <3>1. PICK m \in Manifests, rows \in UNION {[1..k -> Rows] : k \in 0..MaxCases}, d \in BOOLEAN :
            /\ ManifestIsValid(m) /\ \A i \in DOMAIN rows : CaseIsValid(rows[i])
            /\ manifest' = m /\ cases' = rows /\ divergence_of' = d /\ pc' = "run"
      BY <2>2 DEF Load
    <3>2. rows \in Seq(Rows) /\ Len(rows) \in Nat
      BY CorpusOfRows
    <3>3. QED
      BY <3>1, <3>2
  <2>3. QED
    BY <2>1, <2>2 DEF Load
<1>3. results' \in 0..Len(cases')
  <2>1. results' = 0 /\ Len(cases') \in Nat
    BY <1>1, <1>2
  <2> HIDE DEF IInv, TypeOK, Unreported
  <2>2. QED
    BY <2>1
<1>4. /\ latest'.status \in STATUSES \cup {""}
      /\ latest'.status = "" <=> results' = 0
      /\ counts' \in [STATUSES -> 0..results']
  BY <1>1
<1>5. \A i \in DOMAIN cases' : CaseIsValid(cases[i])'
  BY <1>2
<1>6. pc' \in {"run", "ended", "done"} => manifest' \in Manifests /\ ManifestIsValid(manifest)'
  BY <1>2
<1>7. QED
  BY <1>2, <1>3, <1>4, <1>5, <1>6

LEMMA RunCaseKeepsTypes ==
  ASSUME IInv, RunCase
  PROVE  TypeOK'
<1>1. pc = "run" /\ results < Len(cases) /\ UNCHANGED <<manifest, cases, divergence_of>>
  BY DEF RunCase
<1>2. CASE pc' = "ended" /\ UNCHANGED <<results, latest, counts>>
  BY <1>1, <1>2 DEF IInv, TypeOK
<1>3. CASE pc' = pc
  <2>1. /\ cases \in Seq(Rows) /\ \A i \in DOMAIN cases : CaseIsValid(cases[i])
        /\ results \in 0..Len(cases) /\ counts \in [STATUSES -> 0..results]
    BY DEF IInv, TypeOK
  <2>2. Len(cases) \in Nat /\ results \in Nat /\ DOMAIN cases = 1..Len(cases)
    BY <2>1, LenProperties
  <2>3. results + 1 \in DOMAIN cases /\ results + 1 \in 0..Len(cases)
    BY <1>1, <2>2
  <2>4. PICK row : CaseIsValid(row) /\ row = cases[results + 1]
    BY <2>1, <2>3
  <2>5. PICK s \in STATUSES : latest'.status = s /\ counts' = [counts EXCEPT ![s] = @ + 1] /\ results' = results + 1
    <3>1. PICK real, oracle :
            /\ latest' = [status |-> Status(row, real, oracle), row |-> row, real |-> real, oracle |-> oracle]
            /\ counts' = [counts EXCEPT ![Status(row, real, oracle)] = @ + 1]
            /\ results' = results + 1
      BY <1>1, <1>3, <2>4 DEF RunCase
    <3>2. Status(row, real, oracle) \in STATUSES
      BY <2>4, StatusInTaxonomy
    <3>3. QED
      BY <3>1, <3>2
  <2>6. latest'.status \in STATUSES /\ latest'.status # "" /\ results' # 0
    <3>1. s # ""
      BY NoStatusIsEmpty
    <3>2. results' # 0
      BY <2>2, <2>5
    <3>3. QED
      BY <2>5, <3>1, <3>2
  <2>7. counts' \in [STATUSES -> 0..results']
    BY <2>1, <2>2, <2>5
  <2>8. results' \in 0..Len(cases')
    BY <1>1, <2>3, <2>5
  <2>9. /\ pc' \in {"load", "run", "refused", "ended", "done"} /\ divergence_of' \in BOOLEAN
        /\ pc' \in {"run", "ended", "done"} => manifest' \in Manifests /\ ManifestIsValid(manifest)'
        /\ cases' \in Seq(Rows) /\ \A i \in DOMAIN cases' : CaseIsValid(cases[i])'
    BY <1>1, <1>3 DEF IInv, TypeOK
  <2>10. QED
    BY <2>6, <2>7, <2>8, <2>9 DEF TypeOK
<1>4. QED
  BY <1>2, <1>3 DEF RunCase

LEMMA RunCaseDecides ==
  ASSUME IInv, RunCase
  PROVE  Decided'
<1> USE DEF Decided
<1>1. UNCHANGED <<manifest, cases, divergence_of>>
  BY DEF RunCase
<1>2. CASE UNCHANGED <<results, latest, counts>>
  BY <1>1, <1>2 DEF IInv, Status, Asked
<1>3. CASE pc' = pc
  <2>1. PICK row : row = cases[results + 1]
    OBVIOUS
  <2>2. PICK real \in Given(manifest.api), oracle \in Authority(row, manifest) :
          latest' = [status |-> Status(row, real, oracle), row |-> row, real |-> real, oracle |-> oracle]
    BY <1>3, <2>1 DEF RunCase
  <2>3. latest'.status = Status(row, real, oracle)'
    BY <1>1, <2>2 DEF Status, Asked
  <2>4. latest'.row = row /\ latest'.real = real /\ latest'.oracle = oracle
    BY <2>2
  <2>5. QED
    BY <1>1, <2>3, <2>4 DEF Status, Asked
<1>4. QED
  BY <1>2, <1>3 DEF RunCase

LEMMA CorpusStep ==
  ASSUME IInv, [Next]_vars
  PROVE  IInv'
<1>1. CASE Load
  <2>1. Unreported' /\ Decided'
    BY <1>1 DEF Load, IInv, Unreported, Decided
  <2>2. QED
    BY <1>1, <2>1, LoadKeepsTypes DEF IInv
<1>2. CASE RunCase
  <2>1. Unreported'
    BY <1>2 DEF RunCase, IInv, Unreported
  <2>2. QED
    BY <1>2, <2>1, RunCaseKeepsTypes, RunCaseDecides DEF IInv
<1>3. CASE Report \/ UNCHANGED vars
  <2>1. pc' \in {pc, "done"} /\ (pc' # pc => pc = "run")
    BY <1>3 DEF Report, vars
  <2>2. UNCHANGED <<manifest, cases, divergence_of, results, latest, counts>>
    BY <1>3 DEF Report, vars
  <2>3. TypeOK'
    BY <2>1, <2>2 DEF IInv, TypeOK
  <2>4. Unreported' /\ Decided'
    BY <2>1, <2>2 DEF IInv, Unreported, Decided, Status, Asked
  <2>5. QED
    BY <2>3, <2>4 DEF IInv
<1>4. QED
  BY <1>1, <1>2, <1>3 DEF Next

LEMMA CorpusInvariant == Spec => []IInv
<1>1. Init => IInv
  <2> SUFFICES ASSUME Init PROVE IInv
    OBVIOUS
  <2>1. cases \in Seq(Rows) /\ DOMAIN cases = {} /\ Len(cases) = 0
    BY DEF Init
  <2>2. latest.status = ""
    BY DEF Init, NoResult
  <2>3. counts \in [STATUSES -> 0..0]
    BY DEF Init
  <2>4. TypeOK
    <3>1. pc = "load" /\ divergence_of \in BOOLEAN /\ results = 0
      BY DEF Init
    <3>2. results \in 0..Len(cases)
      BY <2>1, <3>1
    <3>3. counts \in [STATUSES -> 0..results]
      BY <2>3, <3>1
    <3>4. QED
      BY <2>1, <2>2, <3>1, <3>2, <3>3 DEF TypeOK
  <2>5. QED
    BY <2>4 DEF Init, IInv, Unreported, Decided
<1>2. QED
  BY <1>1, CorpusStep, PTL DEF Spec

(***************************************************************************)
(* THEOREM: a run keeps its types: every status it reports is one of the   *)
(* taxonomy, and the tally counts the cases that were run (schema.py's     *)
(* STATUSES, Report.counts).                                               *)
(***************************************************************************)
THEOREM RunIsTyped == Spec => []TypeOK
<1>1. IInv => TypeOK
  BY DEF IInv
<1>2. QED
  BY <1>1, CorpusInvariant, PTL

-----------------------------------------------------------------------------
(* What the rules exclude.                                                 *)

\* A stored value meets itself.
LEMMA ExpectationIsReflexive ==
  ASSUME NEW e
  PROVE  expectation_holds(e, e)
<1>1. \A m : MeetsMatch(m, m)
  BY DEF MeetsMatch
<1>2. QED
  BY <1>1 DEF expectation_holds

\* What the class of empty captures lets through found the same things.
LEMMA EmptyCapturesKeepSpans ==
  ASSUME NEW real, NEW oracle, is_empty_iteration_capture(real, oracle)
  PROVE  SameSpans(real, oracle)
<1>1. \A a, b : OnlyEmptyCaptures(a, b) => a.kind = "match" /\ b.kind = "match" /\ a.span = b.span
  BY DEF OnlyEmptyCaptures
<1>2. CASE real.kind = "list" /\ oracle.kind = "list"
  <2>1. /\ Len(real.of) = Len(oracle.of)
        /\ \A i \in DOMAIN real.of : real.of[i] = oracle.of[i] \/ OnlyEmptyCaptures(real.of[i], oracle.of[i])
    BY <1>2 DEF is_empty_iteration_capture
  <2>2. \A i \in DOMAIN real.of : real.of[i].span = oracle.of[i].span
    BY <1>1, <2>1
  <2>3. QED
    BY <1>2, <2>1, <2>2 DEF SameSpans
<1>3. CASE ~(real.kind = "list" /\ oracle.kind = "list")
  BY <1>1, <1>3 DEF is_empty_iteration_capture, SameSpans
<1>4. QED
  BY <1>2, <1>3

(***************************************************************************)
(* THEOREM: a driver's crash is a bug, whatever the oracle and the corpus  *)
(* say (classify), but for rows that set their case apart themselves.      *)
(***************************************************************************)
THEOREM CrashesAreBugs == Spec => []CrashIsABug
<1>1. IInv => CrashIsABug
  BY DEF IInv, Decided, CrashIsABug, Declared, Status, classify
<1>2. QED
  BY <1>1, CorpusInvariant, PTL

(***************************************************************************)
(* THEOREM: an engine's own pinned rows are never out of contract: what    *)
(* they expect is what the authority gives (run_corpus, classify).         *)
(***************************************************************************)
THEOREM OwnRowsStayInContract == Spec => []OwnRowsAreInContract
<1>1. IInv => OwnRowsAreInContract
  <2> SUFFICES ASSUME IInv, manifest.oracle = "real_only", results > 0, ~Declared(latest.row)
               PROVE  latest.status # "out_of_contract"
    BY DEF OwnRowsAreInContract
  <2>1. latest.oracle = latest.row.expected
    BY DEF IInv, Decided, Authority
  <2>2. \A link : classify(latest.real, latest.oracle, latest.row.expected, manifest, latest.row.requires, link)
                    # "out_of_contract"
    BY <2>1, ExpectationIsReflexive DEF classify, OriginDiffers
  <2>3. QED
    BY <2>2 DEF IInv, Decided, Declared, Status
<1>2. QED
  BY <1>1, CorpusInvariant, PTL

(***************************************************************************)
(* THEOREM: an answer that is nobody's, at other places than the oracle's, *)
(* is a bug: no rule of the taxonomy sets it aside (classify,              *)
(* is_empty_iteration_capture).                                            *)
(***************************************************************************)
THEOREM NobodysAnswersAreBugs == Spec => []NobodysAnswerIsABug
<1>1. IInv => NobodysAnswerIsABug
  <2> DEFINE row == latest.row
             real == latest.real
             oracle == latest.oracle
  <2> SUFFICES ASSUME IInv, results > 0, ~Declared(row), ~Linked(row), real # oracle,
                      ~expectation_holds(row.expected, real), ~SameSpans(real, oracle)
               PROVE  latest.status = "bug"
    BY DEF NobodysAnswerIsABug
  <2>1. ~is_empty_iteration_capture(real, oracle)
    BY EmptyCapturesKeepSpans
  <2>2. ~OriginDiffers(real, oracle, row.expected, manifest)
    BY DEF OriginDiffers
  <2>3. ~Agrees(real, oracle, manifest)
    BY DEF Agrees, IInv, Decided, Authority
  <2>4. QED
    BY <2>1, <2>2, <2>3 DEF IInv, Decided, Declared, Status, classify
<1>2. QED
  BY <1>1, CorpusInvariant, PTL
=============================================================================
