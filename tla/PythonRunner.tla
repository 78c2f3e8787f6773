---------------------------- MODULE PythonRunner ----------------------------
(***************************************************************************)
(* How the Tradefed harness runs one Python test module: doRunTest of      *)
(* VtsMultiDeviceTest, runPythonRunner of VtsPythonRunnerHelper and the    *)
(* ProcessHelper it waits with.  Six things run at once: the invocation's  *)
(* thread (test), the Python process (python), a thread for each of its    *)
(* output streams (stream), the threads that wait for the process, one per *)
(* call of waitForProcess (exec), and Tradefed, which may interrupt the    *)
(* invocation (tradefed).  Output is counted in reads; the summary file,   *)
(* the framework and what the listener is told are in result.              *)
(***************************************************************************)
EXTENDS Integers, Sequences

CONSTANTS
  MaxPolls,        \* DESTROY_PROCESS_MAX_POLL_COUNT
  MaxOutput,       \* bound: reads of stdout and of stderr
  MaxInterrupts    \* bound: interrupts of the invocation

ASSUME OutputAssumption == MaxOutput \in [1..2 -> Nat]
ASSUME BoundsAssumption == MaxPolls \in Nat \ {0} /\ MaxInterrupts \in Nat

VARIABLES
  test,      \* [pc, wait, next, status, message, raised, polls]
  python,    \* [state, success, destroyed, stdin]
  stream,    \* 1 stdout, 2 stderr: [pipe, written, buffer, thread, closed]
  exec,      \* per wait: [pc, success, cancelled, interrupted]
  tradefed,  \* [pending, received]
  result,    \* [summary, framework, listener]
  history    \* [late: a join gave up, survived: the process outlived cleanUp]

vars == <<test, python, stream, exec, tradefed, result, history>>

Ended == test.pc \in {"returned", "thrown"}

Init ==
  /\ test = [pc |-> "begin", wait |-> 1, next |-> 1, status |-> "none", message |-> FALSE,
             raised |-> "none", polls |-> 0]
  /\ python = [state |-> "none", success |-> FALSE, destroyed |-> FALSE, stdin |-> TRUE]
  /\ stream = [s \in 1..2 |-> [pipe |-> 0, written |-> 0, buffer |-> 0, thread |-> "none",
                               closed |-> FALSE]]
  /\ exec = [w \in 1..2 |-> [pc |-> "none", success |-> FALSE,
                             cancelled |-> FALSE, interrupted |-> FALSE]]
  /\ tradefed = [pending |-> FALSE, received |-> 0]
  /\ result = [summary |-> "none", framework |-> TRUE, listener |-> <<>>]
  /\ history = [late |-> FALSE, survived |-> FALSE]

Goto(t, p) == [t EXCEPT !.pc = p]
Raise(e) == test' = [test EXCEPT !.pc = "finally", !.raised = e]
-----------------------------------------------------------------------------
(* The Python process.  It stops the framework, writes its output and, at  *)
(* the end of TestRunner.stop, its summary, which open() first empties.    *)
Running == python.state = "running"

Write(s) ==
  /\ Running /\ stream[s].written < MaxOutput[s]
  /\ stream' = [stream EXCEPT ![s].pipe = @ + 1, ![s].written = @ + 1]
  /\ UNCHANGED <<test, python, exec, tradefed, result, history>>

StopFramework ==
  /\ Running /\ result.framework
  /\ result' = [result EXCEPT !.framework = FALSE]
  /\ UNCHANGED <<test, python, stream, exec, tradefed, history>>

_writeResultsJsonString ==
  /\ Running /\ result.summary # "complete"
  /\ result' = [result EXCEPT !.summary = IF @ = "none" THEN "empty" ELSE "complete"]
  /\ UNCHANGED <<test, python, stream, exec, tradefed, history>>

Exit ==
  /\ Running
  /\ \E b \in BOOLEAN : python' = [python EXCEPT !.state = "ended", !.success = b]
  /\ UNCHANGED <<test, stream, exec, tradefed, result, history>>

(* A destroyed process ends, after as long as it takes. *)
Die ==
  /\ Running /\ python.destroyed
  /\ python' = [python EXCEPT !.state = "ended"]
  /\ UNCHANGED <<test, stream, exec, tradefed, result, history>>
-----------------------------------------------------------------------------
(* ReaderThread.run: a read blocks until there is output; it ends at the   *)
(* end of the output, and with an exception once the reader was closed.    *)
Read(s) ==
  /\ stream[s].thread = "reading" /\ ~stream[s].closed /\ stream[s].pipe > 0
  /\ stream' = [stream EXCEPT ![s].pipe = @ - 1, ![s].buffer = @ + 1]
  /\ UNCHANGED <<test, python, exec, tradefed, result, history>>

ReadEnds(s) ==
  /\ stream[s].thread = "reading"
  /\ stream[s].closed \/ (stream[s].pipe = 0 /\ ~Running)
  /\ stream' = [stream EXCEPT ![s].thread = "ended"]
  /\ UNCHANGED <<test, python, exec, tradefed, result, history>>
-----------------------------------------------------------------------------
(* VtsRunnable.run without its look at mCancelled. *)
RunRegardless(w) ==
  /\ exec[w].pc = "started"
  /\ exec' = [exec EXCEPT ![w].pc = "waiting"]
  /\ UNCHANGED <<test, python, stream, tradefed, result, history>>

(* VtsRunnable.run: in one synchronized block the thread makes itself      *)
(* known and looks whether it was cancelled.                               *)
Run(w) ==
  /\ exec[w].pc = "started"
  /\ exec' = [exec EXCEPT ![w].pc = IF exec[w].cancelled THEN "done" ELSE "waiting"]
  /\ UNCHANGED <<test, python, stream, tradefed, result, history>>

RunEnds(w) ==
  /\ exec[w].pc = "waiting"
  /\ \/ /\ ~Running
        /\ exec' = [exec EXCEPT ![w].pc = "done", ![w].success = python.success]
     \/ /\ exec[w].interrupted
        /\ exec' = [exec EXCEPT ![w].pc = "done"]
  /\ UNCHANGED <<test, python, stream, tradefed, result, history>>

(* VtsRunnable.cancel: the thread is interrupted once it has made itself   *)
(* known.                                                                  *)
cancel(x) ==
  IF x.cancelled THEN x ELSE [x EXCEPT !.cancelled = TRUE, !.interrupted = (x.pc = "waiting")]
-----------------------------------------------------------------------------
(* doRunTest up to the command: the configuration file cannot be made, or  *)
(* the device is gone when BEGIN is logged.                                *)
PrepareFails ==
  /\ test.pc = "begin"
  /\ Raise("runtime") \/ Raise("device")
  /\ UNCHANGED <<python, stream, exec, tradefed, result, history>>

(* The process starts, and with it the threads of ProcessHelper. *)
createProcessHelper ==
  /\ test.pc = "begin"
  /\ test' = Goto(test, "wait")
  /\ python' = [python EXCEPT !.state = "running"]
  /\ stream' = [s \in 1..2 |-> [stream[s] EXCEPT !.thread = "reading"]]
  /\ UNCHANGED <<exec, tradefed, result, history>>

createProcessHelperFails ==
  /\ test.pc = "begin"
  /\ test' = [test EXCEPT !.pc = "results", !.status = "EXCEPTION"]
  /\ UNCHANGED <<python, stream, exec, tradefed, result, history>>
-----------------------------------------------------------------------------
(* RunUtil.runTimed: it starts the thread, joins it until it ends or the   *)
(* time is over, which cancels it, and throws at any point when there is   *)
(* an interrupt.                                                           *)
runTimed ==
  /\ test.pc = "wait" /\ ~tradefed.pending
  /\ exec' = [exec EXCEPT ![test.wait].pc = "started"]
  /\ test' = Goto(test, "timed")
  /\ UNCHANGED <<python, stream, tradefed, result, history>>

runTimedOut ==
  /\ test.pc = "timed" /\ exec[test.wait].pc # "done"
  /\ exec' = [exec EXCEPT ![test.wait] = cancel(@)]
  /\ test' = Goto(test, "timed_out")
  /\ UNCHANGED <<python, stream, tradefed, result, history>>

(* waitForProcess returns: runPythonRunner keeps the first status. *)
Waited(s) ==
  [test EXCEPT !.pc = IF test.wait = 1 THEN "running" ELSE "destroy",
               !.status = IF test.wait = 1 THEN s ELSE @]

(* The output of a process that ended is not waited for. *)
ReturnAtOnce(s) == Waited(s)

(* A process that ended: its output is joined first, stdout then stderr. *)
ReturnAfterJoin(s) ==
  [test EXCEPT !.pc = "join", !.next = 1, !.status = IF test.wait = 1 THEN s ELSE @]

runTimedReturns ==
  /\ ~tradefed.pending
  /\ \/ /\ test.pc = "timed" /\ exec[test.wait].pc = "done"
        /\ test' = ReturnAfterJoin(IF exec[test.wait].success THEN "SUCCESS" ELSE "FAILED")
     \/ /\ test.pc = "timed_out"
        /\ test' = Waited("TIMED_OUT")
  /\ UNCHANGED <<python, stream, exec, tradefed, result, history>>

(* RunInterruptedException in waitForProcess: the thread's own flag, which *)
(* RunUtil set, is cleared; then cancel, then join.                        *)
Interrupted ==
  /\ test.pc \in {"wait", "timed", "timed_out"} /\ tradefed.pending
  /\ tradefed' = [tradefed EXCEPT !.pending = FALSE, !.received = @ + 1]
  /\ exec' = [exec EXCEPT ![test.wait] = cancel(@)]
  /\ test' = Goto(test, "join_exec")
  /\ UNCHANGED <<python, stream, result, history>>

(* A second interrupt leaves runPythonRunner past cleanUp. *)
InterruptedAgainUnclean ==
  [test EXCEPT !.pc = "finally", !.raised = "interrupt"]

(* runPythonRunner: the first interrupt becomes its message, the second is *)
(* thrown, through the finally clause that cleans up.                      *)
InterruptedAgain ==
  [test EXCEPT !.pc = "destroy", !.raised = "interrupt"]

(* joinThread gives up after a second, so it may return at any time. *)
joinExecThread ==
  /\ test.pc = "join_exec"
  /\ test' = IF test.wait = 1 THEN [Waited("TIMED_OUT") EXCEPT !.message = TRUE]
             ELSE InterruptedAgain
  /\ UNCHANGED <<python, stream, exec, tradefed, result, history>>

(* The joins of the output's threads, in waitForProcess and in cleanUp. *)
joinThread ==
  /\ test.pc \in {"join", "rejoin"}
  /\ history' = [history EXCEPT !.late = @ \/ stream[test.next].thread # "ended"]
  /\ test' = IF test.next = 1 THEN [test EXCEPT !.next = 2]
             ELSE IF test.pc = "join" THEN Waited(test.status)
             ELSE Goto(test, IF test.raised = "none" THEN "results" ELSE "finally")
  /\ UNCHANGED <<python, stream, exec, tradefed, result>>
-----------------------------------------------------------------------------
(* runPythonRunner after the first wait: a process that still runs is      *)
(* asked to stop by the end of its stdin, and waited for again.            *)
closeStdin ==
  /\ test.pc = "running"
  /\ \/ ~Running /\ test' = Goto(test, "destroy") /\ UNCHANGED python
     \/ /\ Running
        /\ python' = [python EXCEPT !.stdin = FALSE]
        /\ \/ test' = [test EXCEPT !.pc = "wait", !.wait = 2]
           \/ test' = Goto(test, "destroy")  \* IOException
  /\ UNCHANGED <<stream, exec, tradefed, result, history>>

(* A process that runs is only polled. *)
destroyNot(p) == p

destroy(p) == [p EXCEPT !.destroyed = TRUE]

(* cleanUp: a process that runs is destroyed, then polled a few times. *)
cleanUp ==
  /\ test.pc = "destroy"
  /\ \/ /\ Running /\ test.polls < MaxPolls
        /\ python' = IF test.polls = 0 THEN destroy(python) ELSE python
        /\ test' = [test EXCEPT !.polls = @ + 1]
        /\ UNCHANGED history
     \/ /\ Running => test.polls = MaxPolls
        /\ python' = [python EXCEPT !.stdin = FALSE]
        /\ test' = [test EXCEPT !.pc = "close", !.next = 1, !.polls = 0]
        /\ history' = [history EXCEPT !.survived = Running]
  /\ UNCHANGED <<stream, exec, tradefed, result>>

(* Closing a reader waits for a read that is blocked. *)
closeReader ==
  /\ test.pc = "close"
  /\ LET s == stream[test.next] IN s.thread = "reading" => s.pipe > 0 \/ ~Running
  /\ stream' = [stream EXCEPT ![test.next].closed = TRUE]
  /\ test' = IF test.next = 1 THEN [test EXCEPT !.next = 2]
             ELSE [test EXCEPT !.pc = "rejoin", !.next = 1]
  /\ UNCHANGED <<python, exec, tradefed, result, history>>
-----------------------------------------------------------------------------
(* processJsonFile *)
Results == <<"started", "ended">>

(* The messages of doRunTest: the command failed, or left no summary. *)
Errors == test.status \notin {"SUCCESS", "TIMED_OUT"} \/ result.summary = "none"

(* A summary that cannot be parsed: the message is added to the errors,    *)
(* and then the test module's name is read from an object that is null.    *)
SummaryIsBad ==
  /\ test.pc = "results" /\ result.summary = "empty"
  /\ Raise("null")
  /\ UNCHANGED <<python, stream, exec, tradefed, result, history>>

(* The summary goes to the listener, and the errors after it; then END is  *)
(* logged on the device, and an interrupt becomes an exception.            *)
ReportResults ==
  /\ test.pc = "results" /\ result.summary # "empty"
  /\ result' = [result EXCEPT !.listener =
        (IF result.summary = "complete" THEN Results ELSE <<>>)
        \o (IF Errors THEN <<"failed", "ended">> ELSE <<>>)]
  /\ Raise("device") \/ Raise(IF test.message THEN "runtime" ELSE "none")
  /\ UNCHANGED <<python, stream, exec, tradefed, history>>

(* The finally clause and the wait for the device: the logs are zipped and *)
(* the report is uploaded, for which VtsDashboardUtil has no transport     *)
(* when the vendor configuration names no host; then start.                *)
Finally ==
  /\ test.pc = "finally"
  /\ \/ /\ test' = Goto(test, IF test.raised = "none" THEN "returned" ELSE "thrown")
        /\ result' = [result EXCEPT !.framework = TRUE]
     \/ /\ \E e \in {"upload", "start"} : test' = [test EXCEPT !.pc = "thrown", !.raised = e]
        /\ UNCHANGED result
  /\ UNCHANGED <<python, stream, exec, tradefed, history>>

(* Tradefed interrupts the invocation, which only runTimed notices. *)
Interrupt ==
  /\ test.pc \in {"begin", "wait", "timed", "timed_out", "join", "join_exec", "running"}
  /\ ~tradefed.pending /\ tradefed.received < MaxInterrupts
  /\ tradefed' = [tradefed EXCEPT !.pending = TRUE]
  /\ UNCHANGED <<test, python, stream, exec, result, history>>
-----------------------------------------------------------------------------
TestStep ==
  \/ PrepareFails \/ createProcessHelper \/ createProcessHelperFails \/ runTimed
  \/ runTimedOut \/ runTimedReturns \/ Interrupted \/ joinExecThread \/ joinThread
  \/ closeStdin \/ cleanUp \/ closeReader \/ SummaryIsBad \/ ReportResults \/ Finally

ThreadStep == \E i \in 1..2 : Read(i) \/ ReadEnds(i) \/ Run(i) \/ RunEnds(i)

PythonStep == \/ \E s \in 1..2 : Write(s)
              \/ StopFramework \/ _writeResultsJsonString \/ Exit

Next == TestStep \/ ThreadStep \/ PythonStep \/ Die \/ Interrupt

Spec == Init /\ [][Next]_vars
FairSpec ==
  /\ Spec /\ WF_vars(TestStep) /\ WF_vars(Die)
  /\ \A i \in 1..2 : WF_vars(Read(i) \/ ReadEnds(i)) /\ WF_vars(Run(i) \/ RunEnds(i))
-----------------------------------------------------------------------------
(* runPythonRunner leaves no process behind: when it is over, by a return  *)
(* or by the exception of a second interrupt, the process has ended or     *)
(* cleanUp has destroyed it.                                               *)
NoProcessIsLeft ==
  test.pc \in {"results", "finally", "returned", "thrown"} /\ Running =>
    python.destroyed

(* getStdout and getStderr after waitForProcess saw the process end give   *)
(* all it wrote: the readers are closed only after they were joined, so    *)
(* output is lost only when a join gave up.                                *)
OutputIsWhole ==
  /\ test.pc \in {"results", "returned"}
  /\ test.status \in {"SUCCESS", "FAILED"} /\ ~history.late
  => \A s \in 1..2 : stream[s].buffer = stream[s].written

(* A module whose results are missing is never taken for one that ran:     *)
(* when doRunTest returns, the listener has the results of a summary or    *)
(* was told that the run failed.                                           *)
NoSilentRun ==
  test.pc = "returned" =>
    /\ result.listener # <<>>
    /\ test.status \notin {"SUCCESS", "TIMED_OUT"} => \E i \in DOMAIN result.listener :
                                                       result.listener[i] = "failed"

(* An interrupt that waitForProcess received is not lost in the second     *)
(* wait, in the clean up or with the results: doRunTest throws.            *)
InterruptIsThrown == test.pc = "returned" => tradefed.received = 0

(* What doRunTest reports is what happened: the whole output of a process  *)
(* that ended, a failure for missing results, and the interrupts.          *)
ReportIsTrue == OutputIsWhole /\ NoSilentRun /\ InterruptIsThrown

(* As the comment at `start' has it: "make sure we re-enable it no matter  *)
(* what".                                                                  *)
FrameworkRestartedNoMatterWhat ==
  Ended /\ test.raised # "start" /\ ~history.survived => result.framework

(* cancel makes run stop waiting, however the two interleave: a thread     *)
(* that is cancelled before it made itself known, while it waits or after  *)
(* it ended never waits for the process without an interrupt to wake it.   *)
CancelledThreadsWake ==
  \A w \in 1..2 : exec[w].cancelled /\ exec[w].pc = "waiting" => exec[w].interrupted

(* doRunTest ends, also when the process does not stop by itself, as long  *)
(* as it can be destroyed.                                                 *)
RunIsOver == <>Ended
=============================================================================
