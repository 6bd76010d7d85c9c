------------------------ MODULE TestFrameworkProofs ------------------------
(***************************************************************************)
(* What the verdict and the log of a test binary (test/framework.hpp) mean *)
(* for any tests, filters, signals and handlers before report_crash, any   *)
(* number of calls of run_all and of checks.                               *)
(***************************************************************************)
EXTENDS TestFramework, FiniteSetTheorems, TLAPS

-----------------------------------------------------------------------------
(* The inductive invariant, in parts.                                      *)

\* Where the loop is, and that a test counts once: failed ones are among those run.
Placed ==
  /\ pc = "loop" => tests_run < index
  /\ pc = "body" =>
       /\ index \in DOMAIN Registered /\ current_test = Registered[index]
       /\ tests_run <= index /\ tests_failed < tests_run

\* The check that the handler would name: the last of the test that runs, if it ran one.
Here == last = IF checks = 0 THEN None ELSE <<current_test, checks>>

LastCheck == pc = "body" => Here

\* The lines that are ever printed.
Line == [what : {"FAIL", "CRASH"}, test : Tests \cup {None}, at : Checks]
          \cup [what : {"SUMMARY"}, verdict : {0, 1}]

Logged == said \in Seq(Line)

Typed == TypeOK /\ Placed /\ LastCheck /\ Logged

\* What the call has judged so far.
Chosen(k) == {i \in 1..k : i \in DOMAIN Registered /\ Registered[i] \in filter}

Judging ==
  /\ pc = "loop" =>
       /\ sins \subseteq 1..(index - 1)
       /\ tests_run = 0 <=> Chosen(index - 1) = {}
       /\ tests_failed = 0 <=> sins = {}
  /\ pc = "body" =>
       /\ sins \subseteq 1..index /\ Registered[index] \in filter
       /\ tests_run > 0
       /\ current_failed <=> index \in sins
       /\ tests_failed = 0 <=> sins \subseteq {index}
  /\ VerdictIsExact

\* Nothing but summaries waits in the buffer.
Buffered == \A i \in (kept + 1)..Len(said) : said[i].what = "SUMMARY"

\* The log: the lines of the failures, and at most one of a crash, in a process that caught one.
Crashes == {i \in 1..Len(said) : said[i].what = "CRASH"}

Caught ==
  /\ pc \in {"main", "loop", "body"} => crash = None /\ ~reported /\ Crashes = {}
  /\ pc = "caught" /\ crash.inside =>
       /\ index \in DOMAIN Registered /\ current_test = Registered[index] /\ Here
       /\ crash.test = current_test
  /\ pc = "caught" /\ ~reported =>
       /\ Crashes = {}
       /\ crash.handler = "report_crash" => installed[raised] = "report_crash"
  /\ pc = "caught" /\ reported => \E k \in 1..kept : Crashes = {k} /\ said[k] = CrashLine
  /\ CrashIsNamed

-----------------------------------------------------------------------------
(* Types.                                                                  *)

\* What the registry holds are the tests, and None is none of them.
LEMMA RegistryType ==
  /\ Len(Registered) \in Nat /\ DOMAIN Registered = 1..Len(Registered)
  /\ \A i \in 1..Len(Registered) : Registered[i] \in Tests
  /\ \A t \in Tests : \E i \in 1..Len(Registered) : t = Registered[i]
<1>1. Registered \in Seq(Tests)
  BY RegisteredAssumption
<1>2. Len(Registered) \in Nat /\ DOMAIN Registered = 1..Len(Registered)
  BY <1>1
<1>3. QED
  BY <1>2 DEF Tests

\* A printed line goes to the end of the log, which keeps the others.
LEMMA Printed ==
  ASSUME Typed, NEW line \in Line, said' = Append(said, line)
  PROVE  /\ said' \in Seq(Line) /\ Len(said) \in Nat /\ Len(said') = Len(said) + 1
         /\ \A i \in 1..Len(said) : said'[i] = said[i]
         /\ said'[Len(said) + 1] = line
  BY DEF Typed, Logged

\* report_failure prints a line of the log.
LEMMA FailureLine ==
  ASSUME Typed, NEW where \in Checks
  PROVE  [what |-> "FAIL", test |-> current_test, at |-> where] \in Line
  BY DEF Typed, TypeOK, Line

LEMMA CrashLineType ==
  ASSUME Typed
  PROVE  CrashLine \in Line
  BY DEF Typed, TypeOK, Line, CrashLine

LEMMA SummaryLine ==
  ASSUME NEW v \in {0, 1}
  PROVE  [what |-> "SUMMARY", verdict |-> v] \in Line
  BY DEF Line

\* The next check of the test that runs is one of its checks.
LEMMA NextCheckType ==
  ASSUME Typed, pc = "body", checks < MaxChecks
  PROVE  <<current_test, checks + 1>> \in Checks
<1>1. current_test \in Tests
  BY RegistryType DEF Typed, Placed
<1>2. checks + 1 \in 1..MaxChecks
  BY RunsAssumption DEF Typed, TypeOK
<1>3. QED
  BY <1>1, <1>2 DEF Checks

LEMMA TypedInit == Init => Typed
<1> SUFFICES ASSUME Init PROVE Typed
  OBVIOUS
<1>1. TypeOK
  <2>1. installed \in [Signals -> Handlers] /\ previous \in [Signals -> Handlers \cup {"SIG_ERR"}]
    BY DEF Init, Handlers, Inherited
  <2>2. index \in 1..(Len(Registered) + 1) /\ tests_failed \in 0..tests_run /\ tests_run \in 0..Len(Registered)
    BY RegistryType DEF Init
  <2>3. runs \in 0..MaxRuns /\ checks \in 0..MaxChecks /\ kept \in 0..Len(said) /\ suffered \in Nat
    BY RunsAssumption DEF Init
  <2>4. QED
    BY <2>1, <2>2, <2>3 DEF Init, TypeOK, Checks
<1>2. Placed /\ LastCheck /\ Logged
  BY DEF Init, Placed, LastCheck, Logged
<1>3. QED
  BY <1>1, <1>2 DEF Typed

\* A call of run_all begins at the head of the registry.
LEMMA TypedStart == ASSUME Typed, Start PROVE Typed'
<1>1. PICK refused \in SUBSET Refusable :
        /\ previous' = [s \in Signals |-> IF s \in refused THEN "SIG_ERR" ELSE installed[s]]
        /\ installed' = [s \in Signals |-> IF s \in refused THEN installed[s] ELSE "report_crash"]
  BY DEF Start
<1>2. installed \in [Signals -> Handlers]
  BY DEF Typed, TypeOK
<1>3. installed' \in [Signals -> Handlers] /\ previous' \in [Signals -> Handlers \cup {"SIG_ERR"}]
  BY <1>1, <1>2 DEF Handlers
<1>4. filter' \subseteq Tests
  BY FiltersAssumption DEF Start
<1>5. runs' \in 0..MaxRuns
  BY RunsAssumption DEF Start, Typed, TypeOK
<1>6. index' = 1 /\ tests_run' = 0 /\ tests_failed' = 0 /\ sins' = {} /\ pc' = "loop"
  BY DEF Start
<1>7. /\ index' \in 1..(Len(Registered) + 1) /\ tests_failed' \in 0..tests_run'
      /\ tests_run' \in 0..Len(Registered)
  BY <1>6, RegistryType
<1>8. UNCHANGED <<verdict, testVars, outVars, reported, raised, crash, suffered>>
  BY DEF Start
<1>9. TypeOK'
  BY <1>3, <1>4, <1>5, <1>6, <1>7, <1>8 DEF Typed, TypeOK, testVars, outVars
<1>10. Placed' /\ LastCheck' /\ Logged'
  BY <1>6, <1>8 DEF Typed, Placed, LastCheck, Logged, outVars
<1>11. QED
  BY <1>9, <1>10 DEF Typed

\* The loop passes over a test, or runs it.
LEMMA TypedLoop == ASSUME Typed, Skip \/ BeginTest PROVE Typed'
<1>1. pc = "loop" /\ index \in 1..Len(Registered) /\ Len(Registered) \in Nat
  BY RegistryType DEF Skip, BeginTest
<1>2. Registered[index] \in Tests
  BY <1>1, RegistryType
<1>3. tests_run < index /\ tests_run \in Nat /\ tests_failed \in 0..tests_run
  BY <1>1 DEF Typed, TypeOK, Placed
<1>4. CASE Skip
  <2>1. /\ index' = index + 1
        /\ UNCHANGED <<pc, runs, filter, tests_run, tests_failed, verdict, testVars, outVars, signalVars, truthVars>>
    BY <1>4 DEF Skip
  <2>2. index' \in 1..(Len(Registered) + 1) /\ tests_run' < index'
    BY <1>1, <1>3, <2>1
  <2>3. TypeOK'
    BY <2>1, <2>2 DEF Typed, TypeOK, testVars, outVars, signalVars, truthVars
  <2>4. Placed' /\ LastCheck' /\ Logged'
    BY <1>1, <2>1, <2>2 DEF Typed, Placed, LastCheck, Logged, outVars
  <2>5. QED
    BY <2>3, <2>4 DEF Typed
<1>5. CASE BeginTest
  <2>1. /\ tests_run' = tests_run + 1 /\ current_test' = Registered[index]
        /\ current_failed' = FALSE /\ last' = None /\ checks' = 0 /\ pc' = "body"
        /\ UNCHANGED <<runs, filter, index, tests_failed, verdict, outVars, signalVars, truthVars>>
    BY <1>5 DEF BeginTest
  <2>2. /\ tests_run' \in 0..Len(Registered) /\ tests_failed' \in 0..tests_run'
        /\ tests_run' <= index' /\ tests_failed' < tests_run'
    BY <1>1, <1>3, <2>1
  <2>3. TypeOK'
    <3>1. current_test' \in Tests \cup {None} /\ last' \in Checks /\ checks' \in 0..MaxChecks
      BY <1>2, <2>1, RunsAssumption DEF Checks
    <3>2. UNCHANGED <<runs, filter, index, verdict, said, kept>>
      BY <2>1 DEF outVars
    <3>3. UNCHANGED <<installed, previous, reported, raised, sins, suffered>>
      BY <2>1 DEF signalVars, truthVars
    <3>4. QED
      BY <2>1, <2>2, <3>1, <3>2, <3>3 DEF Typed, TypeOK
  <2>4. Placed' /\ LastCheck' /\ Logged'
    BY <1>1, <2>1, <2>2, RegistryType DEF Typed, Placed, LastCheck, Here, Logged, outVars
  <2>5. QED
    BY <2>3, <2>4 DEF Typed
<1>6. QED
  BY <1>4, <1>5

\* What report_failure writes is typed, and all of it is flushed.
LEMMA ReportTypes ==
  ASSUME Typed, NEW where \in Checks, Report(where)
  PROVE  /\ current_failed' = TRUE /\ last' = where
         /\ Logged' /\ kept' = Len(said') /\ kept' \in 0..Len(said')
<1>1. PICK line \in Line : said' = Append(said, line)
  BY FailureLine DEF Report, Say
<1>2. said' \in Seq(Line) /\ Len(said') \in Nat
  BY <1>1, Printed
<1>3. kept' = Len(said')
  BY DEF Report, Flush
<1>4. QED
  BY <1>2, <1>3 DEF Report, Logged

\* A check, passed or reported.
LEMMA TypedCheck == ASSUME Typed, Check PROVE Typed'
<1>1. /\ pc = "body" /\ pc' = "body" /\ checks < MaxChecks /\ checks' = checks + 1
      /\ UNCHANGED <<runs, filter, index, tests_run, tests_failed, verdict>>
      /\ UNCHANGED <<current_test, installed, previous, reported, raised, crash>>
  BY DEF Check, runVars, signalVars
<1>2. index \in 1..Len(Registered) /\ current_test \in Tests
  BY <1>1, RegistryType DEF Typed, Placed
<1>3. <<current_test, checks + 1>> \in Checks
  BY <1>1, NextCheckType
<1>4. /\ last' = <<current_test, checks + 1>> /\ current_failed' \in BOOLEAN
      /\ Logged' /\ kept' \in 0..Len(said')
      /\ sins' \subseteq DOMAIN Registered /\ suffered' \in Nat
  <2>1. CASE last' = <<current_test, checks + 1>> /\ UNCHANGED <<current_failed, outVars, truthVars>>
    BY <2>1 DEF Typed, TypeOK, Logged, outVars, truthVars
  <2>2. CASE /\ Report(<<current_test, checks + 1>>)
             /\ sins' = sins \cup {index} /\ suffered' = suffered + 1
    <3>1. /\ current_failed' = TRUE /\ last' = <<current_test, checks + 1>>
          /\ Logged' /\ kept' \in 0..Len(said')
      BY <1>3, <2>2, ReportTypes
    <3>2. QED
      BY <1>2, <2>2, <3>1, RegistryType DEF Typed, TypeOK
  <2>3. QED
    BY <2>1, <2>2 DEF Check
<1>5. checks' \in 0..MaxChecks /\ checks' # 0
  BY <1>1, RunsAssumption DEF Typed, TypeOK
<1>6. TypeOK'
  BY <1>1, <1>3, <1>4, <1>5 DEF Typed, TypeOK, Checks
<1>7. Placed'
  BY <1>1 DEF Typed, Placed
<1>8. LastCheck'
  BY <1>1, <1>4, <1>5 DEF LastCheck, Here
<1>9. QED
  BY <1>4, <1>6, <1>7, <1>8 DEF Typed

\* The test of the body is counted, failed or not.
LEMMA CountedTypes ==
  ASSUME Typed, pc = "body", NEW failed \in BOOLEAN, Counted(failed), UNCHANGED tests_run
  PROVE  /\ tests_failed' \in 0..tests_run' /\ index' \in 1..(Len(Registered) + 1)
         /\ pc' = "loop" /\ tests_run' < index' /\ tests_run' \in 0..Len(Registered)
<1>1. /\ index \in 1..Len(Registered) /\ tests_run <= index /\ tests_failed < tests_run
      /\ tests_failed \in Nat /\ tests_run \in 0..Len(Registered) /\ Len(Registered) \in Nat
  BY RegistryType DEF Typed, TypeOK, Placed
<1>2. tests_failed' \in {tests_failed, tests_failed + 1} /\ index' = index + 1 /\ pc' = "loop"
  BY DEF Counted
<1>3. QED
  BY <1>1, <1>2

\* A body that returns, or that an exception leaves.
LEMMA TypedLeave == ASSUME Typed, Return \/ Escape PROVE Typed'
<1>1. /\ pc = "body" /\ UNCHANGED <<runs, filter, tests_run, verdict>>
      /\ UNCHANGED <<current_test, checks, installed, previous, reported, raised, crash>>
  BY DEF Return, Escape, testVars, signalVars
<1>2. index \in 1..Len(Registered) /\ current_failed \in BOOLEAN /\ last \in Checks
  BY <1>1, RegistryType DEF Typed, TypeOK, Placed
<1>3. /\ Logged' /\ kept' \in 0..Len(said') /\ last' = last /\ current_failed' \in BOOLEAN
      /\ sins' \subseteq DOMAIN Registered /\ suffered' \in Nat
      /\ Counted(current_failed')
  <2>1. CASE Return
    <3>1. UNCHANGED <<current_failed, last, said, kept, sins, suffered>> /\ Counted(current_failed)
      BY <2>1 DEF Return, testVars, outVars, truthVars
    <3>2. QED
      BY <3>1 DEF Typed, TypeOK, Logged
  <2>2. CASE Escape
    <3>1. Report(last) /\ sins' = sins \cup {index} /\ suffered' = suffered + 1 /\ Counted(current_failed')
      BY <2>2 DEF Escape
    <3>2. current_failed' = TRUE /\ last' = last /\ Logged' /\ kept' \in 0..Len(said')
      BY <1>2, <3>1, ReportTypes
    <3>3. QED
      BY <1>2, <3>1, <3>2, RegistryType DEF Typed, TypeOK
  <2>3. QED
    BY <2>1, <2>2
<1>4. /\ tests_failed' \in 0..tests_run' /\ index' \in 1..(Len(Registered) + 1)
      /\ pc' = "loop" /\ tests_run' < index' /\ tests_run' \in 0..Len(Registered)
  BY <1>1, <1>3, CountedTypes
<1>5. TypeOK'
  BY <1>1, <1>2, <1>3, <1>4 DEF Typed, TypeOK
<1>6. Placed' /\ LastCheck'
  BY <1>4 DEF Placed, LastCheck
<1>7. QED
  BY <1>3, <1>5, <1>6 DEF Typed

\* run_all returns its verdict.
LEMMA TypedFinish == ASSUME Typed, Finish PROVE Typed'
<1>1. /\ pc' = "main" /\ UNCHANGED kept
      /\ UNCHANGED <<runs, filter, index, tests_run, tests_failed, testVars, signalVars, truthVars>>
      /\ verdict' \in {0, 1}
  BY DEF Finish
<1>2. PICK line \in Line : said' = Append(said, line)
  BY <1>1, SummaryLine DEF Finish, Say
<1>3. Logged' /\ Len(said') = Len(said) + 1 /\ Len(said) \in Nat
  BY <1>2, Printed DEF Logged
<1>4. TypeOK'
  BY <1>1, <1>3 DEF Typed, TypeOK, testVars, signalVars, truthVars
<1>5. Placed' /\ LastCheck'
  BY <1>1 DEF Placed, LastCheck
<1>6. QED
  BY <1>3, <1>4, <1>5 DEF Typed

\* A signal, and what the handlers do of it.
LEMMA TypedSignal == ASSUME Typed, (\E s \in Signals : Fault(s)) \/ Deliver PROVE Typed'
<1>1. UNCHANGED <<runVars, testVars, truthVars, previous>> /\ pc' \in {"caught", "gone"}
  BY DEF Fault, Deliver, Default, Sanitizer, ReportCrash, signalVars
<1>2. raised' \in Signals \cup {None}
  BY SignalsAssumption DEF Fault, Deliver, Default, Sanitizer, ReportCrash, signalVars, Typed, TypeOK
<1>3. installed' \in [Signals -> Handlers] /\ reported' \in BOOLEAN
  <2>1. CASE UNCHANGED <<installed, reported>>
    BY <2>1 DEF Typed, TypeOK
  <2>2. CASE ReportCrash
    <3>1. installed' = [installed EXCEPT ![raised] =
                          IF previous[raised] = "SIG_ERR" THEN "default" ELSE previous[raised]]
      BY <2>2 DEF ReportCrash
    <3>2. /\ installed \in [Signals -> Handlers]
          /\ previous \in [Signals -> Handlers \cup {"SIG_ERR"}]
      BY DEF Typed, TypeOK
    <3>3. \A s \in Signals : previous[s] # "SIG_ERR" => previous[s] \in Handlers
      BY <3>2
    <3>4. installed' \in [Signals -> Handlers]
      BY <3>1, <3>2, <3>3 DEF Handlers, Inherited
    <3>5. reported' \in BOOLEAN
      BY <2>2 DEF ReportCrash, Typed, TypeOK
    <3>6. QED
      BY <3>4, <3>5
  <2>3. QED
    BY <2>1, <2>2 DEF Fault, Deliver, Default, Sanitizer, signalVars
<1>4. Logged' /\ kept' \in 0..Len(said')
  <2>1. CASE UNCHANGED outVars
    BY <2>1 DEF Typed, TypeOK, Logged, outVars
  <2>2. CASE Say(CrashLine) /\ Flush
    BY <2>2, CrashLineType, Printed DEF Say, Flush, Logged
  <2>3. QED
    BY <2>1, <2>2 DEF Fault, Deliver, Default, Sanitizer, ReportCrash
<1>5. TypeOK'
  BY <1>1, <1>2, <1>3, <1>4 DEF Typed, TypeOK, runVars, testVars, truthVars
<1>6. Placed' /\ LastCheck'
  BY <1>1 DEF Placed, LastCheck
<1>7. QED
  BY <1>4, <1>5, <1>6 DEF Typed

\* main returns, or the process is killed.
LEMMA TypedEnd == ASSUME Typed, Exit \/ Kill PROVE Typed'
<1>1. pc' \in {"gone", "killed"} /\ UNCHANGED <<runVars, testVars, said, signalVars, truthVars>>
  BY DEF Exit, Kill, outVars
<1>2. kept' \in 0..Len(said')
  BY <1>1 DEF Exit, Kill, outVars, Typed, TypeOK, Logged
<1>3. TypeOK'
  BY <1>1, <1>2 DEF Typed, TypeOK, runVars, testVars, signalVars, truthVars
<1>4. Placed' /\ LastCheck' /\ Logged'
  BY <1>1 DEF Typed, Placed, LastCheck, Logged
<1>5. QED
  BY <1>3, <1>4 DEF Typed

LEMMA TypedStep == Typed /\ [Next]_vars => Typed'
<1> SUFFICES ASSUME Typed, [Next]_vars PROVE Typed'
  OBVIOUS
<1>1. CASE Next
  BY <1>1, TypedStart, TypedLoop, TypedCheck, TypedLeave, TypedFinish, TypedSignal, TypedEnd DEF Next, Run
<1>2. CASE UNCHANGED vars
  BY <1>2 DEF vars, runVars, testVars, outVars, signalVars, truthVars,
              Typed, TypeOK, Placed, LastCheck, Here, Logged
<1>3. QED
  BY <1>1, <1>2

(***************************************************************************)
(* Whatever is registered, asked for, checked and raised, the state of the *)
(* binary keeps its types, the loop its place and the handler's last_line  *)
(* the check that ran last in the test that runs.                          *)
(***************************************************************************)
THEOREM TypedAlways == Spec => []Typed
<1>1. QED
  BY TypedInit, TypedStep, PTL DEF Spec

(***************************************************************************)
(* The type invariant: in particular no call counts more failed tests than *)
(* it runs, nor runs more than are registered.                             *)
(***************************************************************************)
THEOREM TypeCorrect == Spec => []TypeOK
<1>1. Typed => TypeOK
  BY DEF Typed
<1>2. QED
  BY <1>1, TypedAlways, PTL

-----------------------------------------------------------------------------
(* The verdict.                                                            *)

\* The tests that the call has chosen among the first k + 1.
LEMMA NextChosen ==
  ASSUME NEW k \in Nat, k + 1 \in DOMAIN Registered
  PROVE  Chosen(k + 1) = IF Registered[k + 1] \in filter THEN Chosen(k) \cup {k + 1} ELSE Chosen(k)
<1>1. \A i : i \in 1..(k + 1) <=> i \in 1..k \/ i = k + 1
  OBVIOUS
<1>2. QED
  BY <1>1 DEF Chosen

\* Over the whole registry, nothing is chosen exactly when nothing was asked for.
LEMMA AllChosen ==
  ASSUME Typed
  PROVE  Chosen(Len(Registered)) = {} <=> filter = {}
<1>1. filter \subseteq Tests
  BY DEF Typed, TypeOK
<1>2. \A t \in filter : \E i \in 1..Len(Registered) : Registered[i] = t
  BY <1>1, RegistryType
<1>3. QED
  BY <1>2, RegistryType DEF Chosen

LEMMA JudgingInit == Init => Judging
  BY DEF Init, Judging, VerdictIsExact

LEMMA JudgingStart == ASSUME Typed, Start PROVE Judging'
<1>1. /\ pc' = "loop" /\ index' = 1 /\ tests_run' = 0 /\ tests_failed' = 0 /\ sins' = {}
  BY DEF Start
<1>2. Chosen(0)' = {}
  BY DEF Chosen
<1>3. index' - 1 = 0
  BY <1>1
<1>4. Chosen(index - 1)' = {}
  BY <1>2, <1>3 DEF Chosen
<1>5. QED
  BY <1>1, <1>4 DEF Judging, VerdictIsExact

LEMMA JudgingSkip == ASSUME Typed, Judging, Skip PROVE Judging'
<1>1. /\ pc = "loop" /\ pc' = "loop" /\ index' = index + 1 /\ Registered[index] \notin filter
      /\ UNCHANGED <<filter, tests_run, tests_failed, sins>>
  BY DEF Skip, truthVars
<1>2. index \in DOMAIN Registered /\ index \in Nat \ {0}
  BY RegistryType DEF Skip
<1>3. index - 1 \in Nat /\ (index - 1) + 1 = index /\ index' - 1 = index
  BY <1>1, <1>2
<1>4. Chosen(index) = Chosen(index - 1)
  BY <1>1, <1>2, <1>3, NextChosen
<1>5. Chosen(index - 1)' = Chosen(index)
  BY <1>1, <1>3 DEF Chosen
<1>6. sins' \subseteq 1..(index' - 1)
  BY <1>1, <1>2, <1>3 DEF Judging
<1>7. QED
  BY <1>1, <1>4, <1>5, <1>6 DEF Judging, VerdictIsExact

LEMMA JudgingBegin == ASSUME Typed, Judging, BeginTest PROVE Judging'
<1>1. /\ pc = "loop" /\ pc' = "body" /\ current_failed' = FALSE /\ tests_run' = tests_run + 1
      /\ Registered[index] \in filter
      /\ UNCHANGED <<filter, index, tests_failed, sins>>
  BY DEF BeginTest, truthVars
<1>2. tests_run \in Nat /\ index \in Nat \ {0}
  BY RegistryType DEF BeginTest, Typed, TypeOK
<1>3. sins \subseteq 1..(index - 1) /\ (tests_failed = 0 <=> sins = {})
  BY <1>1 DEF Judging
<1>4. index \notin sins /\ sins \subseteq 1..index
  BY <1>2, <1>3
<1>5. tests_run' > 0
  BY <1>1, <1>2
<1>6. sins = {} <=> sins \subseteq {index}
  BY <1>4
<1>7. QED
  BY <1>1, <1>3, <1>4, <1>5, <1>6 DEF Judging, VerdictIsExact

LEMMA JudgingCheck == ASSUME Typed, Judging, Check PROVE Judging'
<1>1. /\ pc = "body" /\ pc' = "body" /\ UNCHANGED <<filter, index, tests_run, tests_failed>>
  BY DEF Check, runVars
<1>2. index \in 1..index
  BY <1>1, RegistryType DEF Typed, Placed
<1>3. CASE UNCHANGED <<current_failed, truthVars>>
  BY <1>1, <1>3 DEF Judging, VerdictIsExact, truthVars
<1>4. CASE current_failed' = TRUE /\ sins' = sins \cup {index}
  <2>1. sins' \subseteq 1..index' /\ index' \in sins'
    BY <1>1, <1>2, <1>4 DEF Judging
  <2>2. sins' \subseteq {index} <=> sins \subseteq {index}
    BY <1>4
  <2>3. QED
    BY <1>1, <1>4, <2>1, <2>2 DEF Judging, VerdictIsExact
<1>5. QED
  BY <1>3, <1>4 DEF Check, Report

LEMMA JudgingLeave == ASSUME Typed, Judging, Return \/ Escape PROVE Judging'
<1>1. /\ pc = "body" /\ pc' = "loop" /\ index' = index + 1 /\ UNCHANGED <<filter, tests_run>>
      /\ tests_failed' = IF current_failed' THEN tests_failed + 1 ELSE tests_failed
  BY DEF Return, Escape, Counted, testVars
<1>2. index \in DOMAIN Registered /\ index \in Nat \ {0} /\ tests_failed \in Nat
  BY <1>1, RegistryType DEF Typed, TypeOK, Placed
<1>3. current_failed' <=> index \in sins'
  <2>1. CASE Return
    BY <1>1, <2>1 DEF Return, Judging, testVars, truthVars
  <2>2. CASE Escape
    BY <2>2 DEF Escape, Report
  <2>3. QED
    BY <2>1, <2>2
<1>4. sins' \subseteq 1..index /\ (tests_failed = 0 <=> sins' \subseteq {index})
  <2>1. sins \subseteq 1..index /\ (tests_failed = 0 <=> sins \subseteq {index}) /\ index \in 1..index
    BY <1>1, <1>2 DEF Judging
  <2>2. sins' = sins \/ sins' = sins \cup {index}
    BY DEF Return, Escape, truthVars
  <2>3. QED
    BY <2>1, <2>2
<1>5. tests_failed' = 0 <=> sins' = {}
  <2>1. tests_failed' = 0 <=> ~current_failed' /\ tests_failed = 0
    BY <1>1, <1>2
  <2>2. QED
    BY <1>3, <1>4, <2>1
<1>6. tests_run' > 0 /\ tests_run' # 0
  BY <1>1 DEF Judging, Typed, TypeOK
<1>7. Chosen(index - 1)' # {}
  <2>1. index' - 1 = index /\ index \in 1..index
    BY <1>1, <1>2
  <2>2. Registered[index] \in filter
    BY <1>1 DEF Judging
  <2>3. QED
    BY <1>1, <1>2, <2>1, <2>2 DEF Chosen
<1>8. sins' \subseteq 1..(index' - 1)
  <2>1. index' - 1 = index
    BY <1>1, <1>2
  <2>2. QED
    BY <1>4, <2>1
<1>9. QED
  BY <1>1, <1>5, <1>6, <1>7, <1>8 DEF Judging, VerdictIsExact

LEMMA JudgingFinish == ASSUME Typed, Judging, Finish PROVE Judging'
<1>1. /\ pc = "loop" /\ pc' = "main" /\ UNCHANGED <<filter, sins>>
      /\ verdict' = IF tests_run = 0 \/ tests_failed > 0 THEN 1 ELSE 0
  BY DEF Finish, truthVars
<1>2. index - 1 = Len(Registered) /\ tests_failed \in Nat
  BY RegistryType DEF Finish, Typed, TypeOK
<1>3. tests_run = 0 <=> filter = {}
  BY <1>1, <1>2, AllChosen DEF Judging
<1>4. tests_failed = 0 <=> sins = {}
  BY <1>1 DEF Judging
<1>5. verdict' = 0 <=> tests_run # 0 /\ tests_failed = 0
  BY <1>1, <1>2
<1>6. QED
  BY <1>1, <1>3, <1>4, <1>5 DEF Judging, VerdictIsExact

LEMMA JudgingStep == Typed /\ Judging /\ [Next]_vars => Judging'
<1> SUFFICES ASSUME Typed, Judging, [Next]_vars PROVE Judging'
  OBVIOUS
<1>1. CASE Run
  BY <1>1, JudgingStart, JudgingSkip, JudgingBegin, JudgingCheck, JudgingLeave, JudgingFinish DEF Run
<1>2. CASE (\E s \in Signals : Fault(s)) \/ Deliver \/ Exit \/ Kill
  <2>1. pc' \in {"caught", "gone", "killed"}
    BY <1>2 DEF Fault, Deliver, Default, Sanitizer, ReportCrash, Exit, Kill
  <2>2. QED
    BY <2>1 DEF Judging, VerdictIsExact
<1>3. CASE UNCHANGED vars
  BY <1>3 DEF vars, runVars, testVars, truthVars, Judging, Chosen, VerdictIsExact
<1>4. QED
  BY <1>1, <1>2, <1>3 DEF Next

(***************************************************************************)
(* "0 if every test run passed, 1 otherwise -- and 1 when none ran": what  *)
(* run_all returns is 0 exactly when the text it filters by names a test   *)
(* and no test it names failed a check or let an exception out, for any    *)
(* registry, any filter and any number of earlier calls.                   *)
(***************************************************************************)
THEOREM VerdictIsRight == Spec => []VerdictIsExact
<1>1. Judging => VerdictIsExact
  BY DEF Judging
<1>2. QED
  BY <1>1, JudgingInit, JudgingStep, TypedAlways, PTL DEF Spec

-----------------------------------------------------------------------------
(* The log.                                                                *)

\* The flushed lines of a kind are finitely many.
LEMMA LinesFinite ==
  ASSUME Typed, NEW what
  PROVE  /\ IsFiniteSet(Lines(what)) /\ Lines(what) \subseteq 1..kept
         /\ kept \in Nat /\ Len(said) \in Nat /\ kept <= Len(said)
<1>1. kept \in Nat /\ Len(said) \in Nat /\ kept <= Len(said)
  BY DEF Typed, TypeOK, Logged
<1>2. IsFiniteSet(1..kept)
  BY <1>1, FS_Interval
<1>3. Lines(what) \in SUBSET (1..kept)
  BY DEF Lines
<1>4. QED
  BY <1>1, <1>2, <1>3, FS_Subset

(***************************************************************************)
(* A line printed and flushed takes the buffer with it, which held nothing *)
(* but summaries: of any other kind, it alone is new in the flushed log.   *)
(***************************************************************************)
LEMMA FlushedLine ==
  ASSUME Typed, Buffered, NEW line \in Line, said' = Append(said, line), kept' = Len(said'),
         NEW what, what # "SUMMARY"
  PROVE  /\ Lines(what)' = IF line.what = what THEN Lines(what) \cup {Len(said) + 1} ELSE Lines(what)
         /\ Len(said) + 1 \notin Lines(what)
         /\ Buffered'
<1>1. /\ Len(said) \in Nat /\ Len(said') = Len(said) + 1 /\ said'[Len(said) + 1] = line
      /\ \A i \in 1..Len(said) : said'[i] = said[i]
  BY Printed
<1>2. kept \in Nat /\ kept <= Len(said)
  BY LinesFinite
<1>3. \A i \in (kept + 1)..Len(said) : said[i].what = "SUMMARY"
  BY DEF Buffered
<1>4. \A i : i \in 1..kept' <=> i \in 1..kept \/ i \in (kept + 1)..Len(said) \/ i = Len(said) + 1
  BY <1>1, <1>2
<1>5. \A i : i \in 1..kept \/ i \in (kept + 1)..Len(said) => said'[i] = said[i]
  BY <1>1, <1>2
<1>6. \A i : i \in Lines(what)' <=> i \in Lines(what) \/ (i = Len(said) + 1 /\ line.what = what)
  BY <1>1, <1>3, <1>4, <1>5 DEF Lines
<1>7. Len(said) + 1 \notin Lines(what)
  BY <1>1, <1>2 DEF Lines
<1>8. Buffered'
  BY <1>1 DEF Buffered
<1>9. QED
  BY <1>6, <1>7, <1>8

\* The three ways to the log: nothing or a summary, the line of a failure, the line of a crash.
Quiet ==
  \/ UNCHANGED outVars
  \/ /\ UNCHANGED kept
     /\ \E line \in Line : line.what = "SUMMARY" /\ said' = Append(said, line)
  \/ kept' = Len(said) /\ UNCHANGED said

Fails ==
  \E line \in Line : /\ line.what = "FAIL" /\ said' = Append(said, line) /\ kept' = Len(said')

Crashed == said' = Append(said, CrashLine) /\ kept' = Len(said')

\* What is flushed stays as it is when nothing, or only a summary, is printed.
LEMMA QuietLog ==
  ASSUME Typed, Buffered, Quiet, NEW what, what # "SUMMARY"
  PROVE  Lines(what)' = Lines(what) /\ Buffered'
<1>1. kept \in Nat /\ Len(said) \in Nat /\ kept <= Len(said)
  BY LinesFinite
<1>2. \A i \in (kept + 1)..Len(said) : said[i].what = "SUMMARY"
  BY DEF Buffered
<1>3. CASE UNCHANGED outVars
  BY <1>3 DEF outVars, Lines, Buffered
<1>4. ASSUME NEW line \in Line, line.what = "SUMMARY", said' = Append(said, line), UNCHANGED kept
      PROVE  Lines(what)' = Lines(what) /\ Buffered'
  <2>1. /\ Len(said') = Len(said) + 1 /\ said'[Len(said) + 1] = line
        /\ \A i \in 1..Len(said) : said'[i] = said[i]
    BY <1>4, Printed
  <2>2. \A i \in 1..kept : said'[i] = said[i]
    BY <1>1, <2>1
  <2>3. \A i \in (kept' + 1)..Len(said') : i \in (kept + 1)..Len(said) \/ i = Len(said) + 1
    BY <1>1, <1>4, <2>1
  <2>4. \A i \in (kept + 1)..Len(said) : said'[i] = said[i]
    BY <1>1, <2>1
  <2>5. Buffered'
    BY <1>2, <1>4, <2>1, <2>3, <2>4 DEF Buffered
  <2>6. Lines(what)' = Lines(what)
    BY <1>4, <2>2 DEF Lines
  <2>7. QED
    BY <2>5, <2>6
<1>5. CASE kept' = Len(said) /\ UNCHANGED said
  <2>1. \A i : i \in 1..kept' <=> i \in 1..kept \/ i \in (kept + 1)..Len(said)
    BY <1>1, <1>5
  <2>2. Lines(what)' = Lines(what)
    BY <1>2, <1>5, <2>1 DEF Lines
  <2>3. Buffered'
    BY <1>1, <1>5 DEF Buffered
  <2>4. QED
    BY <2>2, <2>3
<1>6. QED
  BY <1>3, <1>4, <1>5 DEF Quiet

LEMMA WaysToTheLog ==
  ASSUME Typed, [Next]_vars
  PROVE  \/ Quiet /\ suffered' = suffered
         \/ Fails /\ suffered' = suffered + 1 /\ (Check \/ Escape)
         \/ Crashed /\ suffered' = suffered /\ ReportCrash /\ ~reported
<1>1. ASSUME NEW where \in Checks, Report(where)
      PROVE  Fails
  BY <1>1, FailureLine DEF Report, Say, Flush, Fails
<1>2. CASE Check
  <2>1. <<current_test, checks + 1>> \in Checks
    BY <1>2, NextCheckType DEF Check
  <2>2. CASE UNCHANGED outVars /\ UNCHANGED truthVars
    BY <2>2 DEF Quiet, truthVars
  <2>3. CASE Report(<<current_test, checks + 1>>) /\ suffered' = suffered + 1
    BY <1>1, <1>2, <2>1, <2>3
  <2>4. QED
    BY <1>2, <2>2, <2>3 DEF Check
<1>3. CASE Escape
  <2>1. last \in Checks
    BY DEF Typed, TypeOK
  <2>2. QED
    BY <1>1, <1>3, <2>1 DEF Escape
<1>4. CASE Finish
  <2>1. verdict' \in {0, 1} /\ UNCHANGED kept /\ suffered' = suffered
    BY <1>4 DEF Finish, truthVars
  <2>2. said' = Append(said, [what |-> "SUMMARY", verdict |-> verdict'])
    BY <1>4 DEF Finish, Say
  <2>3. QED
    BY <2>1, <2>2, SummaryLine DEF Quiet
<1>5. CASE ReportCrash
  <2>1. suffered' = suffered
    BY <1>5 DEF ReportCrash, truthVars
  <2>2. CASE reported
    BY <1>5, <2>1, <2>2 DEF ReportCrash, Quiet
  <2>3. CASE ~reported
    BY <1>5, <2>1, <2>3 DEF ReportCrash, Say, Flush, Crashed
  <2>4. QED
    BY <2>2, <2>3
<1>6. CASE Start \/ Skip \/ BeginTest \/ Return \/ (\E s \in Signals : Fault(s)) \/ Default \/ Sanitizer \/ Kill
  BY <1>6 DEF Start, Skip, BeginTest, Return, Fault, Default, Sanitizer, Kill, truthVars, Quiet
<1>7. CASE Exit
  BY <1>7 DEF Exit, Quiet, truthVars
<1>8. CASE UNCHANGED vars
  BY <1>8 DEF vars, Quiet, truthVars
<1>9. QED
  BY <1>2, <1>3, <1>4, <1>5, <1>6, <1>7, <1>8 DEF Next, Run, Deliver

LEMMA BufferedStep ==
  ASSUME Typed, Buffered, [Next]_vars
  PROVE  Buffered'
<1>1. CASE Quiet
  <2>1. "FAIL" # "SUMMARY"
    OBVIOUS
  <2>2. QED
    BY <1>1, <2>1, QuietLog
<1>2. ASSUME NEW line \in Line, said' = Append(said, line), kept' = Len(said')
      PROVE  Buffered'
  BY <1>2, FlushedLine
<1>3. QED
  BY <1>1, <1>2, WaysToTheLog, CrashLineType DEF Fails, Crashed

LEMMA SurviveInit == Init => Buffered /\ FailuresSurvive
<1> SUFFICES ASSUME Init PROVE Buffered /\ FailuresSurvive
  OBVIOUS
<1>1. said = <<>> /\ kept = 0 /\ suffered = 0
  BY DEF Init
<1>2. Lines("FAIL") = {}
  BY <1>1 DEF Lines
<1>3. QED
  BY <1>1, <1>2, FS_EmptySet DEF Buffered, FailuresSurvive

LEMMA SurviveStep == Typed /\ Buffered /\ FailuresSurvive /\ [Next]_vars => Buffered' /\ FailuresSurvive'
<1> SUFFICES ASSUME Typed, Buffered, FailuresSurvive, [Next]_vars PROVE Buffered' /\ FailuresSurvive'
  OBVIOUS
<1>1. Buffered'
  BY BufferedStep
<1>2. IsFiniteSet(Lines("FAIL")) /\ Cardinality(Lines("FAIL")) = suffered
  BY LinesFinite DEF FailuresSurvive
<1>3. CASE Quiet /\ suffered' = suffered
  <2>1. Lines("FAIL")' = Lines("FAIL")
    BY <1>3, QuietLog
  <2>2. QED
    BY <1>1, <1>2, <1>3, <2>1 DEF FailuresSurvive
<1>4. CASE Fails /\ suffered' = suffered + 1
  <2>1. Lines("FAIL")' = Lines("FAIL") \cup {Len(said) + 1} /\ Len(said) + 1 \notin Lines("FAIL")
    BY <1>4, FlushedLine DEF Fails
  <2>2. Cardinality(Lines("FAIL") \cup {Len(said) + 1}) = suffered + 1
    BY <1>2, <2>1, FS_AddElement
  <2>3. QED
    BY <1>1, <1>4, <2>1, <2>2 DEF FailuresSurvive
<1>5. CASE Crashed /\ suffered' = suffered
  <2>1. CrashLine.what # "FAIL"
    BY DEF CrashLine
  <2>2. Lines("FAIL")' = Lines("FAIL")
    BY <1>5, <2>1, CrashLineType, FlushedLine DEF Crashed
  <2>3. QED
    BY <1>1, <1>2, <1>5, <2>2 DEF FailuresSurvive
<1>6. QED
  BY <1>3, <1>4, <1>5, WaysToTheLog

(***************************************************************************)
(* report_failure flushes what it prints: at any time, and so however the  *)
(* process ends, the log that is on the other side holds one FAIL line for *)
(* each failed check and each escaped exception.                           *)
(***************************************************************************)
THEOREM FailuresReachTheLog == Spec => []FailuresSurvive
<1>1. Spec => [](Buffered /\ FailuresSurvive)
  BY SurviveInit, SurviveStep, TypedAlways, PTL DEF Spec
<1>2. QED
  BY <1>1, PTL

-----------------------------------------------------------------------------
(* The crash.                                                              *)

\* Only report_crash adds a line of a crash to the log.
LEMMA CrashesGrow ==
  ASSUME Typed
  PROVE  /\ Quiet \/ Fails => Crashes' = Crashes
         /\ Crashed => /\ Crashes' = Crashes \cup {Len(said) + 1}
                       /\ said'[Len(said) + 1] = CrashLine /\ kept' = Len(said) + 1
<1>1. ASSUME NEW line \in Line, said' = Append(said, line)
      PROVE  /\ line.what # "CRASH" => Crashes' = Crashes
             /\ line.what = "CRASH" => Crashes' = Crashes \cup {Len(said) + 1}
             /\ said'[Len(said) + 1] = line /\ Len(said') = Len(said) + 1
  <2>1. /\ Len(said) \in Nat /\ Len(said') = Len(said) + 1 /\ said'[Len(said) + 1] = line
        /\ \A i \in 1..Len(said) : said'[i] = said[i]
    BY <1>1, Printed
  <2>2. \A i : i \in 1..Len(said') <=> i \in 1..Len(said) \/ i = Len(said) + 1
    BY <2>1
  <2>3. \A i : i \in Crashes' <=> i \in Crashes \/ (i = Len(said) + 1 /\ line.what = "CRASH")
    BY <2>1, <2>2 DEF Crashes
  <2>4. QED
    BY <2>1, <2>3
<1>2. said' = said => Crashes' = Crashes
  BY DEF Crashes
<1>3. Quiet \/ Fails => Crashes' = Crashes
  BY <1>1, <1>2 DEF Quiet, Fails, outVars
<1>4. CrashLine \in Line /\ CrashLine.what = "CRASH"
  BY CrashLineType DEF CrashLine
<1>5. QED
  BY <1>1, <1>3, <1>4 DEF Crashed

LEMMA CaughtInit == Init => Caught
  BY DEF Init, Caught, Crashes, CrashIsNamed

\* Until a signal is raised there is nothing of a crash.
LEMMA CaughtRun == ASSUME Typed, Caught, Run PROVE Caught'
<1>1. pc \in {"main", "loop", "body"} /\ pc' \in {"main", "loop", "body"}
  BY DEF Run, Start, Skip, BeginTest, Check, Return, Escape, Finish, Counted
<1>2. UNCHANGED <<reported, crash>>
  BY DEF Run, Start, Skip, BeginTest, Check, Return, Escape, Finish, signalVars
<1>3. ~ReportCrash
  BY <1>1 DEF ReportCrash
<1>4. Quiet \/ Fails
  BY <1>3, WaysToTheLog DEF Next
<1>5. Crashes' = Crashes
  BY <1>4, CrashesGrow
<1>6. crash = None /\ ~reported /\ Crashes = {}
  BY <1>1 DEF Caught
<1>7. QED
  BY <1>1, <1>2, <1>5, <1>6 DEF Caught, CrashIsNamed

\* The first signal finds the test, its last check and the handler of the signal.
LEMMA CaughtFault == ASSUME Typed, Caught, NEW s \in Signals, Fault(s) PROVE Caught'
<1>1. /\ pc \in {"body", "main"} /\ pc' = "caught" /\ raised' = s
      /\ crash' = [inside |-> pc = "body", test |-> current_test, at |-> last, handler |-> installed[s]]
      /\ UNCHANGED <<index, current_test, last, checks, said, kept, installed, reported>>
  BY DEF Fault, runVars, testVars, outVars
<1>2. ~reported' /\ Crashes' = {}
  BY <1>1 DEF Caught, Crashes
<1>3. crash'.inside => pc = "body" /\ crash'.test = current_test'
  BY <1>1
<1>4. crash'.inside => /\ index' \in DOMAIN Registered /\ current_test' = Registered[index'] /\ Here'
                       /\ crash'.test = current_test'
  BY <1>1, <1>3 DEF Typed, Placed, LastCheck, Here
<1>5. crash'.handler = "report_crash" => installed'[raised'] = "report_crash"
  BY <1>1
<1>6. QED
  BY <1>1, <1>2, <1>4, <1>5 DEF Caught, CrashIsNamed

\* A process that a handler ends has the one line, of the test that ran.
LEMMA NamedAtTheEnd ==
  ASSUME Typed, Caught, pc = "caught", installed[raised] # "report_crash",
         UNCHANGED <<index, checks, said, kept, crash>>
  PROVE  CrashIsNamed'
<1> SUFFICES ASSUME crash.inside, crash.handler = "report_crash"
             PROVE  /\ Cardinality(Lines("CRASH")) = 1
                    /\ \A i \in Lines("CRASH") :
                         /\ said[i].test = Registered[index] /\ crash.test = Registered[index]
                         /\ said[i].at \in {None} \cup ({Registered[index]} \X (1..checks))
                         /\ said[i].at = None <=> checks = 0
  BY DEF CrashIsNamed, Lines
<1>1. PICK k \in 1..kept : Crashes = {k} /\ said[k] = CrashLine
  BY DEF Caught
<1>2. index \in DOMAIN Registered /\ current_test = Registered[index] /\ Here /\ crash.test = current_test
  BY DEF Caught
<1>3. kept \in Nat /\ Len(said) \in Nat /\ kept <= Len(said)
  BY LinesFinite
<1>4. Lines("CRASH") = {k}
  BY <1>1, <1>3 DEF Lines, Crashes
<1>5. Cardinality(Lines("CRASH")) = 1
  BY <1>4, FS_Singleton
<1>6. said[k].test = current_test /\ said[k].at = last
  BY <1>1 DEF CrashLine
<1>7. checks \in 0..MaxChecks /\ current_test \in Tests /\ MaxChecks \in Nat
  BY <1>2, RegistryType, RunsAssumption DEF Typed, TypeOK
<1>8. last \in {None} \cup ({current_test} \X (1..checks)) /\ (last = None <=> checks = 0)
  <2>1. CASE checks = 0
    BY <1>2, <2>1 DEF Here
  <2>2. CASE checks # 0
    <3>1. last = <<current_test, checks>> /\ checks \in 1..checks /\ checks \in 1..MaxChecks
      BY <1>2, <1>7, <2>2 DEF Here
    <3>2. last \in Tests \X (1..MaxChecks) /\ last \in {current_test} \X (1..checks)
      BY <1>7, <3>1
    <3>3. QED
      BY <2>2, <3>2, NoneIsNothing
  <2>3. QED
    BY <2>1, <2>2
<1>9. QED
  BY <1>2, <1>4, <1>5, <1>6, <1>8

LEMMA CaughtDeliver == ASSUME Typed, Caught, Deliver PROVE Caught'
<1>1. /\ pc = "caught" /\ UNCHANGED <<index, current_test, last, checks, crash>>
  BY DEF Deliver, Default, Sanitizer, ReportCrash, runVars, testVars, signalVars
<1>2. /\ crash.inside => /\ index \in DOMAIN Registered /\ current_test = Registered[index] /\ Here
                         /\ crash.test = current_test
      /\ ~reported => /\ Crashes = {}
                      /\ crash.handler = "report_crash" => installed[raised] = "report_crash"
      /\ reported => \E k \in 1..kept : Crashes = {k} /\ said[k] = CrashLine
  BY <1>1 DEF Caught
<1>3. Here' <=> Here
  BY <1>1 DEF Here
<1>4. CASE pc' = "gone"
  <2>1. installed[raised] # "report_crash" /\ UNCHANGED <<said, kept>>
    BY <1>1, <1>4 DEF Deliver, Default, Sanitizer, ReportCrash, outVars
  <2>2. CrashIsNamed'
    BY <1>1, <2>1, NamedAtTheEnd
  <2>3. QED
    BY <1>4, <2>2 DEF Caught
<1>5. CASE pc' # "gone" /\ Sanitizer
  <2>1. pc' = "caught" /\ installed[raised] = "sanitizer" /\ UNCHANGED <<said, kept, reported>>
    BY <1>1, <1>5 DEF Sanitizer, outVars
  <2>2. Crashes' = Crashes /\ CrashLine' = CrashLine
    BY <1>1, <2>1 DEF Crashes, CrashLine
  <2>3. ~reported' => Crashes' = {} /\ crash'.handler # "report_crash"
    BY <1>1, <1>2, <2>1, <2>2
  <2>4. reported' => \E k \in 1..kept' : Crashes' = {k} /\ said'[k] = CrashLine'
    BY <1>2, <2>1, <2>2
  <2>5. QED
    BY <1>1, <1>2, <1>3, <2>1, <2>3, <2>4 DEF Caught, CrashIsNamed
<1>6. CASE ReportCrash
  <2>1. pc' = "caught" /\ reported' = TRUE /\ CrashLine' = CrashLine
    BY <1>1, <1>6 DEF ReportCrash, CrashLine
  <2>2. \E k \in 1..kept' : Crashes' = {k} /\ said'[k] = CrashLine
    <3>1. CASE reported
      <4>1. UNCHANGED <<said, kept>>
        BY <1>6, <3>1 DEF ReportCrash, outVars
      <4>2. Crashes' = Crashes
        BY <4>1 DEF Crashes
      <4>3. QED
        BY <1>2, <3>1, <4>1, <4>2
    <3>2. CASE ~reported
      <4>1. Crashed
        BY <1>6, <3>2 DEF ReportCrash, Say, Flush, Crashed
      <4>2. Crashes' = {Len(said) + 1} /\ said'[Len(said) + 1] = CrashLine /\ kept' = Len(said) + 1
        BY <1>2, <3>2, <4>1, CrashesGrow
      <4>3. Len(said) + 1 \in 1..kept'
        BY <4>2, LinesFinite
      <4>4. QED
        BY <4>2, <4>3
    <3>3. QED
      BY <3>1, <3>2
  <2>3. QED
    BY <1>1, <1>2, <1>3, <2>1, <2>2 DEF Caught, CrashIsNamed
<1>7. QED
  BY <1>4, <1>5, <1>6 DEF Deliver, Default

LEMMA CaughtStep == Typed /\ Caught /\ [Next]_vars => Caught'
<1> SUFFICES ASSUME Typed, Caught, [Next]_vars PROVE Caught'
  OBVIOUS
<1>1. CASE Run
  BY <1>1, CaughtRun
<1>2. CASE (\E s \in Signals : Fault(s)) \/ Deliver
  BY <1>2, CaughtFault, CaughtDeliver
<1>3. CASE Exit
  <2>1. pc = "main" /\ pc' = "gone" /\ crash' = crash
    BY <1>3 DEF Exit, signalVars
  <2>2. crash' = None
    BY <2>1 DEF Caught
  <2>3. QED
    BY <2>1, <2>2 DEF Caught, CrashIsNamed
<1>4. CASE Kill
  <2>1. pc' = "killed"
    BY <1>4 DEF Kill
  <2>2. QED
    BY <2>1 DEF Caught, CrashIsNamed
<1>5. CASE UNCHANGED vars
  <2>1. UNCHANGED <<pc, index, current_test, last, checks, said, kept, installed, reported, raised, crash>>
    BY <1>5 DEF vars, runVars, testVars, outVars, signalVars
  <2>2. Crashes' = Crashes /\ CrashLine' = CrashLine /\ (Here' <=> Here) /\ (CrashIsNamed' <=> CrashIsNamed)
    BY <2>1 DEF Crashes, CrashLine, Here, CrashIsNamed, Lines
  <2>3. QED
    BY <2>1, <2>2 DEF Caught
<1>6. QED
  BY <1>1, <1>2, <1>3, <1>4, <1>5 DEF Next

(***************************************************************************)
(* A process that a signal ends in a test body, whose handler was          *)
(* report_crash, leaves exactly one CRASH line, which names that test and  *)
(* the check that it ran last: for any handlers before, whether or not a   *)
(* sanitizer's aborts, and whichever handlers could be installed.          *)
(***************************************************************************)
THEOREM CrashNamesItsTest == Spec => []CrashIsNamed
<1>1. Spec => []Caught
  BY CaughtInit, CaughtStep, TypedAlways, PTL DEF Spec
<1>2. Caught => CrashIsNamed
  BY DEF Caught
<1>3. QED
  BY <1>1, <1>2, PTL

=============================================================================
