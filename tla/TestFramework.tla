--------------------------- MODULE TestFramework ---------------------------
(***************************************************************************)
(* test/framework.hpp: the process of a test binary.  Tests register       *)
(* before main; run_all runs those that its filter names, counts the ones  *)
(* that failed and returns the verdict.  A check that fails is printed and *)
(* flushed and does not stop its test; an exception that escapes one is    *)
(* printed too; a crash signal is printed by report_crash and handed to    *)
(* the handler it had before, a sanitizer's or the system's.  A SIGKILL (a *)
(* timeout of the driver) runs no handler.                                 *)
(*                                                                         *)
(* One action is what the process does up to the next place where a test   *)
(* body or the system may do something else.  A main may call run_all more *)
(* than once.                                                              *)
(***************************************************************************)
EXTENDS Naturals, Sequences, FiniteSets

CONSTANTS
  Registered,  \* the tests in the order of their registration
  Filters,     \* what run_all may be asked for: the sets of tests whose name holds the text
  Signals,     \* the crash signals; "ABRT", which abort() raises, is one
  Refusable,   \* those for which std::signal may fail
  None,        \* no test, no check, no signal
  MaxRuns,     \* bound: calls of run_all
  MaxChecks    \* bound: checks in a test body

Tests == {Registered[i] : i \in DOMAIN Registered}

ASSUME RegisteredAssumption == Registered \in Seq(Tests)
ASSUME NoneIsNothing == None \notin Tests \cup Signals \cup (Tests \X (1..MaxChecks))
ASSUME SignalsAssumption == "ABRT" \in Signals /\ Refusable \subseteq Signals
ASSUME FiltersAssumption == Filters \subseteq SUBSET Tests
ASSUME RunsAssumption == MaxRuns \in Nat /\ MaxChecks \in Nat

VARIABLES
  pc,            \* "main", "loop" (at its head), "body" of a test, "caught" a signal, "gone", "killed"
  runs,          \* calls of run_all
  filter,        \* the tests the present call was asked for
  index,         \* the loop's position in the registry
  tests_run,     \* tests the present call has run
  tests_failed,  \* tests it has counted as failed
  current_test,  \* the test that runs, or ran last
  current_failed,
  last,          \* last_file, last_line: the last check, None at the start of a test
  checks,        \* checks that the body has run, bounded by MaxChecks
  verdict,       \* what the last run_all returned, None before
  said,          \* the lines printed so far
  kept,          \* how many of them are flushed
  installed,     \* installed[s]: the handler of s
  previous,      \* previous_handlers
  reported,      \* report_crash's static
  raised,        \* the signal on its way to its handler
  sins,          \* history: positions whose test, in the present call, had a bad check or let an exception out
  suffered,      \* history: bad checks and escaped exceptions in the life of the process
  crash          \* history: the test, the last check and the handler that the first signal found

runVars    == <<runs, filter, index, tests_run, tests_failed, verdict>>
testVars   == <<current_test, current_failed, last, checks>>
outVars    == <<said, kept>>
signalVars == <<installed, previous, reported, raised, crash>>
truthVars  == <<sins, suffered>>
vars == <<pc, runVars, testVars, outVars, signalVars, truthVars>>

Inherited == {"default", "sanitizer"}
Handlers  == Inherited \cup {"report_crash"}

Init ==
  /\ pc = "main" /\ runs = 0 /\ filter = {} /\ index = 1
  /\ tests_run = 0 /\ tests_failed = 0 /\ verdict = None
  /\ current_test = None /\ current_failed = FALSE /\ last = None /\ checks = 0
  /\ said = <<>> /\ kept = 0
  /\ installed \in [Signals -> Inherited]
  /\ previous = [s \in Signals |-> "default"]
  /\ reported = FALSE /\ raised = None /\ crash = None
  /\ sins = {} /\ suffered = 0

Say(line) == said' = Append(said, line)
Flush == kept' = Len(said')

-----------------------------------------------------------------------------
(* run_all.                                                                *)

\* The counts are the process's, not the call's.
StartCounting ==
  /\ pc = "main" /\ runs < MaxRuns
  /\ runs' = runs + 1
  /\ filter' \in Filters
  /\ previous' = installed /\ installed' = [s \in Signals |-> "report_crash"]
  /\ index' = 1 /\ tests_run' = 0
  /\ sins' = {}
  /\ pc' = "loop"
  /\ UNCHANGED <<tests_failed, verdict, testVars, outVars, reported, raised, crash, suffered>>

(***************************************************************************)
(* The handlers are installed, each giving back the one before; one that   *)
(* cannot be is left as it was, and what comes back is SIG_ERR.            *)
(***************************************************************************)
Start ==
  /\ pc = "main" /\ runs < MaxRuns
  /\ runs' = runs + 1
  /\ filter' \in Filters
  /\ \E refused \in SUBSET Refusable :
       /\ previous' = [s \in Signals |-> IF s \in refused THEN "SIG_ERR" ELSE installed[s]]
       /\ installed' = [s \in Signals |-> IF s \in refused THEN installed[s] ELSE "report_crash"]
  /\ index' = 1 /\ tests_run' = 0 /\ tests_failed' = 0
  /\ sins' = {}
  /\ pc' = "loop"
  /\ UNCHANGED <<verdict, testVars, outVars, reported, raised, crash, suffered>>

Skip ==
  /\ pc = "loop" /\ index \in DOMAIN Registered
  /\ Registered[index] \notin filter
  /\ index' = index + 1
  /\ UNCHANGED <<pc, runs, filter, tests_run, tests_failed, verdict, testVars, outVars, signalVars, truthVars>>

BeginTestNamedOnly ==
  /\ pc = "loop" /\ index \in DOMAIN Registered
  /\ Registered[index] \in filter
  /\ tests_run' = tests_run + 1
  /\ current_test' = Registered[index] /\ current_failed' = FALSE
  /\ checks' = 0 /\ pc' = "body"
  /\ UNCHANGED <<runs, filter, index, tests_failed, verdict, last, outVars, signalVars, truthVars>>

BeginTestStillFailed ==
  /\ pc = "loop" /\ index \in DOMAIN Registered
  /\ Registered[index] \in filter
  /\ tests_run' = tests_run + 1
  /\ current_test' = Registered[index] /\ last' = None
  /\ checks' = 0 /\ pc' = "body"
  /\ UNCHANGED <<runs, filter, index, tests_failed, verdict, current_failed, outVars, signalVars, truthVars>>

BeginTest ==
  /\ pc = "loop" /\ index \in DOMAIN Registered
  /\ Registered[index] \in filter
  /\ tests_run' = tests_run + 1
  /\ current_test' = Registered[index] /\ current_failed' = FALSE /\ last' = None
  /\ checks' = 0 /\ pc' = "body"
  /\ UNCHANGED <<runs, filter, index, tests_failed, verdict, outVars, signalVars, truthVars>>

\* report_failure at the check `where`.
ReportUnflushed(where) ==
  /\ current_failed' = TRUE /\ last' = where
  /\ Say([what |-> "FAIL", test |-> current_test, at |-> where])
  /\ UNCHANGED kept

Report(where) ==
  /\ current_failed' = TRUE /\ last' = where
  /\ Say([what |-> "FAIL", test |-> current_test, at |-> where])
  /\ Flush

(***************************************************************************)
(* EXPECT, EXPECT_EQ, EXPECT_NEAR, EXPECT_THROWS: the check passes or is   *)
(* reported, and the body goes on.  One whose values cannot be rendered    *)
(* for want of memory (lines 194 to 199) throws, unreported and with no    *)
(* trace of its own: it is an Escape, at the check before.                 *)
(***************************************************************************)
Check ==
  /\ pc = "body" /\ checks < MaxChecks
  /\ checks' = checks + 1
  /\ \/ /\ last' = <<current_test, checks + 1>>
        /\ UNCHANGED <<current_failed, outVars, truthVars>>
     \/ /\ Report(<<current_test, checks + 1>>)
        /\ sins' = sins \cup {index} /\ suffered' = suffered + 1
  /\ UNCHANGED <<pc, runVars, current_test, signalVars>>

\* The test is counted, and the loop goes on.
Counted(failed) ==
  /\ tests_failed' = IF failed THEN tests_failed + 1 ELSE tests_failed
  /\ index' = index + 1 /\ pc' = "loop"

Return ==
  /\ pc = "body"
  /\ Counted(current_failed)
  /\ UNCHANGED <<runs, filter, tests_run, verdict, testVars, outVars, signalVars, truthVars>>

\* An exception escapes the body: reported at the last check that ran.
EscapeSwallowed ==
  /\ pc = "body"
  /\ Counted(current_failed)
  /\ sins' = sins \cup {index} /\ suffered' = suffered + 1
  /\ UNCHANGED <<runs, filter, tests_run, verdict, testVars, outVars, signalVars>>

Escape ==
  /\ pc = "body"
  /\ Report(last) /\ Counted(current_failed')
  /\ sins' = sins \cup {index} /\ suffered' = suffered + 1
  /\ UNCHANGED <<runs, filter, tests_run, verdict, current_test, checks, signalVars>>

\* The summary is printed, not flushed, and run_all returns.
FinishEmpty ==
  /\ pc = "loop" /\ index \notin DOMAIN Registered
  /\ verdict' = IF tests_failed > 0 THEN 1 ELSE 0
  /\ Say([what |-> "SUMMARY", verdict |-> verdict']) /\ UNCHANGED kept
  /\ pc' = "main"
  /\ UNCHANGED <<runs, filter, index, tests_run, tests_failed, testVars, signalVars, truthVars>>

Finish ==
  /\ pc = "loop" /\ index \notin DOMAIN Registered
  /\ verdict' = IF tests_run = 0 \/ tests_failed > 0 THEN 1 ELSE 0
  /\ Say([what |-> "SUMMARY", verdict |-> verdict']) /\ UNCHANGED kept
  /\ pc' = "main"
  /\ UNCHANGED <<runs, filter, index, tests_run, tests_failed, testVars, signalVars, truthVars>>

(***************************************************************************)
(* A crash signal: abort, a fault or a violated trap, in a test body or in *)
(* what main does before and after run_all.                                *)
(***************************************************************************)
Fault(s) ==
  /\ pc \in {"body", "main"}
  /\ pc' = "caught" /\ raised' = s
  /\ crash' = [inside |-> pc = "body", test |-> current_test, at |-> last, handler |-> installed[s]]
  /\ UNCHANGED <<runVars, testVars, outVars, installed, previous, reported, truthVars>>

\* The default action ends the process; what was not flushed is lost.
Default ==
  /\ pc = "caught" /\ installed[raised] = "default"
  /\ pc' = "gone"
  /\ UNCHANGED <<runVars, testVars, outVars, signalVars, truthVars>>

(***************************************************************************)
(* A sanitizer's handler reports and exits, or aborts: what it does of     *)
(* SIGABRT itself ends the process, what another does of it is called.     *)
(***************************************************************************)
Sanitizer ==
  /\ pc = "caught" /\ installed[raised] = "sanitizer"
  /\ \/ pc' = "gone" /\ UNCHANGED raised
     \/ raised # "ABRT" /\ raised' = "ABRT" /\ UNCHANGED pc
  /\ UNCHANGED <<runVars, testVars, outVars, installed, previous, reported, crash, truthVars>>

CrashLine == [what |-> "CRASH", test |-> current_test, at |-> last]

\* report_crash: one line per process, and the signal goes to the handler it had.
ReportCrashEachTime ==
  /\ pc = "caught" /\ installed[raised] = "report_crash"
  /\ Say(CrashLine) /\ Flush /\ reported' = TRUE
  /\ installed' = [installed EXCEPT ![raised] = IF previous[raised] = "SIG_ERR" THEN "default" ELSE previous[raised]]
  /\ UNCHANGED <<pc, runVars, testVars, previous, raised, crash, truthVars>>

ReportCrashKept ==
  /\ pc = "caught" /\ installed[raised] = "report_crash"
  /\ IF reported THEN UNCHANGED <<outVars, reported>>
     ELSE Say(CrashLine) /\ Flush /\ reported' = TRUE
  /\ UNCHANGED <<pc, runVars, testVars, installed, previous, raised, crash, truthVars>>

ReportCrash ==
  /\ pc = "caught" /\ installed[raised] = "report_crash"
  /\ IF reported THEN UNCHANGED <<outVars, reported>>
     ELSE Say(CrashLine) /\ Flush /\ reported' = TRUE
  /\ installed' = [installed EXCEPT ![raised] = IF previous[raised] = "SIG_ERR" THEN "default" ELSE previous[raised]]
  /\ UNCHANGED <<pc, runVars, testVars, previous, raised, crash, truthVars>>

Deliver == Default \/ Sanitizer \/ ReportCrash

\* main returns: the streams are flushed.
Exit ==
  /\ pc = "main" /\ pc' = "gone"
  /\ kept' = Len(said)
  /\ UNCHANGED <<runVars, testVars, said, signalVars, truthVars>>

\* SIGKILL, at any time.
Kill ==
  /\ pc \notin {"gone", "killed"} /\ pc' = "killed"
  /\ UNCHANGED <<runVars, testVars, outVars, signalVars, truthVars>>

Run == Start \/ Skip \/ BeginTest \/ Check \/ Return \/ Escape \/ Finish

Next == Run \/ (\E s \in Signals : Fault(s)) \/ Deliver \/ Exit \/ Kill

Spec == Init /\ [][Next]_vars

\* The system delivers a signal that it has raised, and a handler that was entered runs.
FairSpec == Spec /\ WF_vars(Deliver)

-----------------------------------------------------------------------------
(* Properties.                                                             *)

Lines(what) == {i \in 1..kept : said[i].what = what}

Checks == (Tests \X (1..MaxChecks)) \cup {None}

TypeOK ==
  /\ pc \in {"main", "loop", "body", "caught", "gone", "killed"}
  /\ runs \in 0..MaxRuns /\ filter \subseteq Tests
  /\ index \in 1..(Len(Registered) + 1)
  /\ tests_failed \in 0..tests_run /\ tests_run \in 0..Len(Registered)
  /\ current_test \in Tests \cup {None} /\ current_failed \in BOOLEAN
  /\ last \in Checks /\ checks \in 0..MaxChecks
  /\ verdict \in {None, 0, 1}
  /\ kept \in 0..Len(said)
  /\ installed \in [Signals -> Handlers]
  /\ previous \in [Signals -> Handlers \cup {"SIG_ERR"}]
  /\ reported \in BOOLEAN /\ raised \in Signals \cup {None}
  /\ sins \subseteq DOMAIN Registered /\ suffered \in Nat

(***************************************************************************)
(* "0 if every test run passed, 1 otherwise -- and 1 when none ran": the   *)
(* verdict of a call is 0 exactly when its filter names a test and no test *)
(* it names had a failed check or let an exception out, in this call.      *)
(***************************************************************************)
VerdictIsExact ==
  pc = "main" /\ runs > 0 =>
    (verdict = 0 <=> filter # {} /\ sins = {})

(***************************************************************************)
(* However the process ends, each failed check and each escaped exception  *)
(* has its line in the log: no crash takes it with the unflushed buffer.   *)
(***************************************************************************)
FailuresSurvive == Cardinality(Lines("FAIL")) = suffered

(***************************************************************************)
(* A process that a signal ended, in a test body whose handler was         *)
(* report_crash, leaves one CRASH line; it names the test that ran and its *)
(* last check, not one of an earlier test, though an abort follow it.      *)
(***************************************************************************)
CrashIsNamed ==
  pc = "gone" /\ crash # None /\ crash.inside /\ crash.handler = "report_crash" =>
    /\ Cardinality(Lines("CRASH")) = 1
    /\ \A i \in Lines("CRASH") :
         /\ said[i].test = Registered[index] /\ crash.test = Registered[index]
         /\ said[i].at \in {None} \cup ({Registered[index]} \X (1..checks))
         /\ said[i].at = None <=> checks = 0

(***************************************************************************)
(* report_crash "hands the signal to the handler it had before (a          *)
(* sanitizer's, or the default that ends the process with it)": the signal *)
(* ends the process, in one that called run_all once.                      *)
(***************************************************************************)
CrashOfOneRunEnds == pc = "caught" /\ runs <= 1 ~> pc \in {"gone", "killed"}
=============================================================================
