------------------------------- MODULE TestRun -------------------------------
(***************************************************************************)
(* One test class on the host: BaseTestClass.run with its setup retries,   *)
(* its test cases and generated test cases, and its retry attempts; the    *)
(* TestResult it fills; the dashboard report of WebFeature; and            *)
(* TestRunner.stop, which closes the results.  The runner is one thread.   *)
(* A class setup, a test case with its procedure function, the start of a  *)
(* trigger, the end of an attempt and a heal are the actions; what a test  *)
(* script does in each is an input, an outcome.                            *)
(*                                                                         *)
(* The record lists other than requested are read only through their       *)
(* members and lengths, so each is the number of records per test name.    *)
(***************************************************************************)
EXTENDS Integers, Sequences, FiniteSets, Functions

CONSTANTS
  Tests,            \* sequence of [generate, names]: a generate trigger with the
                    \* names of its cases, or a test function with its own
  max_retry_count,
  SetupRetries,     \* _SETUP_RETRY_NUMBER
  SetupOutcomes,    \* what _setUpClass and the restart of services may do
  Outcomes,         \* what a test case may do
  Procedures,       \* what onPass, onFail, onSkip, onSilent, onException may do
  TearDowns,        \* what tearDownClass may do
  Triggers,         \* what a generate trigger may do before its first case
  Heals             \* what Heal may return between two attempts

(* A test also passes when setUp returns False, and when tearDown swallows *)
(* the class timer's TimeoutError.                                         *)
Passing == {"pass"}
Verdicts == {"passed", "failed", "skipped", "error"}
Lists == Verdicts \cup {"executed"}
Names == UNION {Range(Tests[i].names) : i \in DOMAIN Tests}
Entries == Names \cup {"skip_class"}

ASSUME TestsAssumption == Tests \in Seq([generate : BOOLEAN, names : Seq(STRING)])
ASSUME BoundAssumption == max_retry_count \in Nat /\ SetupRetries \in Nat \ {0}
ASSUME OutcomesAssumption ==
  /\ SetupOutcomes \subseteq {"ok", "skip_all", "fail", "interrupt", "restart_fails"}
  /\ Outcomes \subseteq Passing \cup
       {"fail", "skip", "silent", "error", "heal_raises", "abort_class", "abort_all"}
  /\ Procedures \subseteq {"ok", "raise", "abort"}
  /\ TearDowns \subseteq {"ok", "abort"}
  /\ Triggers \subseteq {"ok", "raise"}
  /\ Heals \subseteq BOOLEAN

VARIABLES
  phase,               \* "setup", "tests", "heal", "stop" or "stopped"
  count,               \* the attempt of runTestsWithRetry
  tries,               \* failed calls of _setUpClass in this attempt
  func,                \* tests left: index into Tests
  pending,             \* cases of the current trigger still to run
  _is_final_run,
  _test_filter_retry,  \* names to run; Names in the first attempt
  skip_all,            \* skipAllTests was called
  requested,           \* results.requested, a sequence of names
  lists,               \* the other lists of results: records per name
  class_errors,        \* length of results.class_errors
  report,              \* report_msg.test_case: sequence of [name, result]
  class_up,            \* history: a _setUpClass without its _tearDownClass
  asked,               \* history: names that were in requested
  ran,                 \* history: executions per test
  last,                \* history: [outcome, verdict] of a test's last execution
  aborted              \* history: what asked for the end of the run

vars == <<phase, count, tries, func, pending, _is_final_run, _test_filter_retry,
          skip_all, requested, lists, class_errors, report, class_up, asked,
          ran, last, aborted>>
history == <<asked, ran, last>>
-----------------------------------------------------------------------------
Without(s, n) == SelectSeq(s, LAMBDA x : x # n)

removeRecord(ls, n) == [l \in Lists |-> [ls[l] EXCEPT ![n] = 0]]

(* addRecord without the removal of earlier records. *)
addRecordOnly(ls, n, v) ==
  [l \in Lists |-> IF l \in {v, "executed"} THEN [ls[l] EXCEPT ![n] = @ + 1] ELSE ls[l]]

addRecord(ls, n, v) ==
  LET r == removeRecord(ls, n) IN
  [l \in Lists |-> IF l \in {v, "executed"} THEN [r[l] EXCEPT ![n] = @ + 1] ELSE r[l]]

NonExecuted(req, ls) == {n \in Range(req) : ls.executed[n] = 0}

(* Nothing is reported for a test that was not executed. *)
reportNothing(req, ls) == ls

reportNonExecutedRecord(req, ls) ==
  [ls EXCEPT !.error = [n \in Entries |->
     @[n] + IF ls.executed[n] > 0 THEN 0
            ELSE Cardinality({i \in DOMAIN req : req[i] = n})]]

(* Skipped tests are retried too. *)
NonPassingOrSkipped(req, ls) ==
  NonExecuted(req, ls) \cup {n \in Names : ls.failed[n] + ls.error[n] + ls.skipped[n] > 0}

(* getNonPassingRecords(skipped=False) *)
NonPassing(req, ls) ==
  NonExecuted(req, ls) \cup {n \in Names : ls.failed[n] + ls.error[n] > 0}
-----------------------------------------------------------------------------
(* WebFeature.GenerateReportMessage: requested[len(executed):] is failed. *)
GenerateReportMessage(req, ls, rep) ==
  LET done == FoldFunction(LAMBDA x, y : x + y, 0, ls.executed)
  IN rep \o [i \in 1..(IF Len(req) > done THEN Len(req) - done ELSE 0) |->
               [name |-> req[done + i], result |-> "failed"]]

(* _tearDownClass: the report is made unless the script's tearDownClass    *)
(* raises TestAbortAll, the one exception _exec_func lets through.         *)
_tearDownClass(td, req, ls, errors, rep) ==
  /\ report' = IF td = "abort" THEN rep
               ELSE GenerateReportMessage(req, ls,
                      rep \o IF errors = 0 THEN <<>>
                             ELSE <<[name |-> "setup_class", result |-> "failed"]>>)
  /\ class_errors' = errors
  /\ class_up' = FALSE

(* runTestsWithRetry after _runTests: an exception ends the loop only in   *)
(* the final attempt.                                                      *)
LeaveAttempt(final) ==
  /\ _is_final_run' = final
  /\ phase' = IF final \/ count = max_retry_count THEN "stop" ELSE "heal"
  /\ pending' = <<>>

(* The signals, and an attempt without a test to retry, make it final. *)
IsFinal(req, ls, raised) ==
  _is_final_run \/ raised \in {"class", "all"} \/ NonPassing(req, ls) = {}

(* The except and finally clauses of _runTests when the tests of an        *)
(* attempt end, with raised what ended them.                               *)
EndTests(req, ls, raised, rep) ==
  LET final == IsFinal(req, ls, raised)
      errors == class_errors + IF raised # "nothing" /\ final THEN 1 ELSE 0
  IN /\ \E td \in TearDowns :
          /\ _tearDownClass(td, req, ls, errors, rep)
          /\ aborted' = IF raised \in {"class", "all"} THEN "test"
                        ELSE IF td = "abort" THEN "teardown" ELSE aborted
     /\ LeaveAttempt(final)
-----------------------------------------------------------------------------
FinalCount(c) == c = max_retry_count

SetUpTriesLeft == tries + 1 < SetupRetries

Init ==
  /\ phase = "setup" /\ count = 0 /\ tries = 0 /\ func = 1 /\ pending = <<>>
  /\ _is_final_run = FinalCount(0)
  /\ _test_filter_retry = Names
  /\ skip_all = FALSE
  /\ requested = [i \in 1..Len(SelectSeq(Tests, LAMBDA t : ~t.generate)) |->
                    SelectSeq(Tests, LAMBDA t : ~t.generate)[i].names[1]]
  /\ lists = [l \in Lists |-> [n \in Entries |-> 0]]
  /\ class_errors = 0 /\ report = <<>>
  /\ class_up = FALSE /\ aborted = "no"
  /\ asked = Range(requested)
  /\ ran = [n \in Names |-> 0]
  /\ last = [n \in Names |-> [outcome |-> "none", verdict |-> "none"]]

(* The setup loop of _runTests. *)
SetUpClass ==
  /\ phase = "setup"
  /\ \E o \in SetupOutcomes : o \in {"ok", "skip_all"} /\ skip_all' = (skip_all \/ o = "skip_all")
  /\ phase' = "tests" /\ func' = 1 /\ class_up' = TRUE
  /\ UNCHANGED <<count, tries, pending, _is_final_run, _test_filter_retry, requested,
                 lists, class_errors, report, history, aborted>>

(* A failed setup restarts the services and is tried again, in the same    *)
(* state of the class.                                                     *)
RetrySetUpClass ==
  /\ phase = "setup" /\ SetUpTriesLeft
  /\ "fail" \in SetupOutcomes
  /\ tries' = tries + 1
  /\ UNCHANGED <<phase, count, func, pending, _is_final_run, _test_filter_retry,
                 skip_all, requested, lists, class_errors, report, class_up, history,
                 aborted>>

(* The restart of the services raises: the exception leaves _runTests from *)
(* its finally clause, past failClass and _tearDownClass.                  *)
RestartServicesRaises ==
  /\ phase = "setup" /\ SetUpTriesLeft
  /\ "restart_fails" \in SetupOutcomes
  /\ LeaveAttempt(_is_final_run)
  /\ UNCHANGED <<count, tries, func, _test_filter_retry, skip_all, requested, lists,
                 class_errors, report, class_up, history, aborted>>

(* The last failed setup, or one that a KeyboardInterrupt ended: the       *)
(* return in the finally clause swallows the interrupt.                    *)
FailSetUpClass ==
  /\ phase = "setup"
  /\ \/ ~SetUpTriesLeft /\ "fail" \in SetupOutcomes
     \/ "interrupt" \in SetupOutcomes
  /\ \E td \in TearDowns :
       /\ _tearDownClass(td, requested, lists, class_errors + 1, report)
       /\ LeaveAttempt(td = "ok" \/ _is_final_run)
       /\ aborted' = IF td = "abort" THEN "teardown" ELSE aborted
  /\ UNCHANGED <<count, tries, func, _test_filter_retry, skip_all, requested, lists,
                 history>>
-----------------------------------------------------------------------------
(* The loop over the tests: a test function is its own only case, a        *)
(* trigger enters runGeneratedTests, which requests all its cases first.   *)
StartFunction ==
  /\ phase = "tests" /\ pending = <<>> /\ func \in DOMAIN Tests
  /\ Tests[func].generate => "ok" \in Triggers
  /\ pending' = Tests[func].names
  /\ requested' = requested \o IF Tests[func].generate THEN Tests[func].names ELSE <<>>
  /\ func' = func + 1
  /\ asked' = asked \cup Range(requested')
  /\ UNCHANGED <<phase, count, tries, _is_final_run, _test_filter_retry, skip_all,
                 lists, class_errors, report, class_up, ran, last, aborted>>

(* A trigger raises before it generates anything. *)
TriggerRaises ==
  /\ phase = "tests" /\ pending = <<>> /\ func \in DOMAIN Tests
  /\ Tests[func].generate /\ "raise" \in Triggers
  /\ EndTests(requested, lists, "exception", report)
  /\ UNCHANGED <<count, tries, func, _test_filter_retry, skip_all, requested, lists,
                 history>>

(* What the procedure function does: those of failures run only in the     *)
(* final attempt.                                                          *)
_exec_procedure_func(o, p) ==
  IF \/ o \in Passing \cup {"skip", "silent"}
     \/ o \in {"fail", "error", "heal_raises"} /\ _is_final_run
  THEN p ELSE "ok"

(* The result of the record when the test ends: "removed" for a silenced   *)
(* test, "kept" when _onFail aborts a second time in the finally clause    *)
(* and addRecord is not reached.                                           *)
VerdictOf(o, p) ==
  LET plain == IF o \in Passing THEN "passed"
               ELSE IF o = "skip" THEN "skipped"
               ELSE IF o \in {"error", "heal_raises"} THEN "error" ELSE "failed"
  IN IF o = "silent" THEN IF p = "abort" THEN "kept" ELSE "removed"
     ELSE IF p = "ok" THEN plain
     ELSE IF p = "raise" THEN "error"
     ELSE IF o \in Passing THEN "passed" ELSE IF o = "skip" THEN "error" ELSE "kept"

(* What leaves execOneTest.  abort_all stands for every signal that is     *)
(* recorded as a failure and ends the run: TestAbortAll, TimeoutError,     *)
(* KeyboardInterrupt and an AdbError that Heal does not recover.           *)
RaisedBy(o, p) ==
  IF p = "abort" \/ o = "abort_all" THEN "all"
  ELSE IF o = "abort_class" THEN "class"
  ELSE IF o = "heal_raises" THEN "exception" ELSE "nothing"

(* The dashboard's entry: made by _testEntry, its result set by the        *)
(* procedure functions, removed for a silenced test.                       *)
ReportTest(n, o, p) ==
  LET result == IF o \in Passing THEN "passed"
                ELSE IF o = "skip" /\ ~(p = "abort" /\ _is_final_run) THEN "skipped"
                ELSE IF _is_final_run /\ o \notin {"abort_class", "abort_all"}
                     THEN "failed" ELSE "unknown"
  IN IF o = "silent" THEN report ELSE Append(report, [name |-> n, result |-> result])

(* A case that the retry filter excludes returns before anything happens. *)
FilteredInRetry ==
  /\ phase = "tests" /\ pending # <<>>
  /\ Head(pending) \notin _test_filter_retry
  /\ pending' = Tail(pending)
  /\ UNCHANGED <<phase, count, tries, func, _is_final_run, _test_filter_retry, skip_all,
                 requested, lists, class_errors, report, class_up, history, aborted>>

execOneTest ==
  /\ phase = "tests" /\ pending # <<>>
  /\ Head(pending) \in _test_filter_retry
  /\ \E o \in Outcomes, p0 \in Procedures :
       LET n == Head(pending)
           p == _exec_procedure_func(o, p0)
           v == VerdictOf(o, p)
           req == IF v = "kept" THEN requested ELSE Without(requested, n)
           ls == IF v \in Verdicts THEN addRecord(lists, n, v)
                 ELSE IF v = "removed" THEN removeRecord(lists, n) ELSE lists
       IN /\ skip_all => o \in {"skip", "silent", "abort_all"}
          /\ requested' = req
          /\ lists' = ls
          /\ ran' = [ran EXCEPT ![n] = @ + 1]
          /\ last' = [last EXCEPT ![n] = [outcome |-> o, verdict |-> v]]
          /\ IF RaisedBy(o, p) = "nothing"
             THEN /\ pending' = Tail(pending)
                  /\ report' = ReportTest(n, o, p)
                  /\ UNCHANGED <<phase, _is_final_run, class_errors, class_up, aborted>>
             ELSE EndTests(req, ls, RaisedBy(o, p), ReportTest(n, o, p))
  /\ UNCHANGED <<count, tries, func, _test_filter_retry, skip_all, asked>>

(* All tests were run: skipClass when nothing was executed. *)
FinishTests ==
  /\ phase = "tests" /\ pending = <<>> /\ func \notin DOMAIN Tests
  /\ LET empty == skip_all /\ \A n \in Entries : lists.executed[n] = 0
         ls == IF empty THEN [lists EXCEPT !.executed["skip_class"] = 1,
                                           !.skipped["skip_class"] = 1]
               ELSE lists
     IN /\ lists' = ls
        /\ EndTests(requested, ls, "nothing", report)
  /\ UNCHANGED <<count, tries, func, _test_filter_retry, skip_all, requested, history>>

(* runTestsWithRetry between two attempts. *)
RetryTests ==
  /\ phase = "heal" /\ count < max_retry_count
  /\ TRUE \in Heals
  /\ count' = count + 1
  /\ _test_filter_retry' = IF NonPassing(requested, lists) = {} THEN Names
                           ELSE NonPassing(requested, lists)
  /\ _is_final_run' = FinalCount(count + 1)
  /\ phase' = "setup" /\ tries' = 0
  /\ UNCHANGED <<func, pending, skip_all, requested, lists, class_errors, report,
                 class_up, history, aborted>>

HealFails ==
  /\ phase = "heal"
  /\ FALSE \in Heals
  /\ phase' = "stop"
  /\ UNCHANGED <<count, tries, func, pending, _is_final_run, _test_filter_retry,
                 skip_all, requested, lists, class_errors, report, class_up, history,
                 aborted>>

(* TestRunner.stop adds the results up; __add__ first reports every record *)
(* of requested that was not executed as an error.                         *)
Stop ==
  /\ phase = "stop"
  /\ lists' = reportNonExecutedRecord(requested, lists)
  /\ phase' = "stopped"
  /\ UNCHANGED <<count, tries, func, pending, _is_final_run, _test_filter_retry,
                 skip_all, requested, class_errors, report, class_up, history, aborted>>

Next ==
  \/ SetUpClass \/ RetrySetUpClass \/ RestartServicesRaises \/ FailSetUpClass
  \/ StartFunction \/ TriggerRaises \/ FilteredInRetry \/ execOneTest \/ FinishTests
  \/ RetryTests \/ HealFails \/ Stop

Spec == Init /\ [][Next]_vars
-----------------------------------------------------------------------------
(* addRecord and removeRecord over any number of attempts: until the       *)
(* results are closed, a test has at most one record in executed, it is    *)
(* then in exactly one of passed, failed, skipped and error, and that is   *)
(* the list its last execution decided, however many attempts, aborts and  *)
(* failing procedure functions there were.                                 *)
OneVerdict ==
  phase # "stopped" => \A n \in Names :
    /\ lists.executed[n] <= 1
    /\ lists.passed[n] + lists.failed[n] + lists.skipped[n] + lists.error[n]
         = lists.executed[n]
    /\ \A v \in Verdicts : last[n].verdict = v => lists[v][n] = 1

(* No test that was requested is lost: when the runner stops, a test of a  *)
(* test function, and a case that a trigger requested, is in passed,       *)
(* failed, skipped or error unless it was silenced, whatever failed,       *)
(* aborted or was interrupted before.                                      *)
NoTestIsLost ==
  phase = "stopped" => \A n \in asked :
    \/ \E v \in Verdicts : lists[v][n] > 0
    \/ last[n].verdict = "removed"

(* Nothing runs that should not: a retry attempt runs only what did not    *)
(* pass, so no test that passed or was skipped is executed again, and an   *)
(* abort signal, a timeout, an interrupt or a lost device that leaves a    *)
(* test ends the run, in this attempt and for all others.                  *)
NotRunAgain ==
  [][/\ \A n \in Names : last[n].verdict \in {"passed", "skipped"} => ran'[n] = ran[n]
     /\ aborted = "test" => ran' = ran]_vars

(* Whatever ends an attempt, a class that was set up is torn down before   *)
(* the next attempt or the end of the run.                                 *)
SetUpIsTornDown == phase \in {"heal", "stop", "stopped"} => ~class_up

(* An attempt and the run end in order: what was set up is torn down, and  *)
(* no test that was requested is lost.                                     *)
EndsInOrder == NoTestIsLost /\ SetUpIsTornDown

=============================================================================
