------------------------- MODULE PythonRunnerProofs -------------------------
(***************************************************************************)
(* Proofs about the host: whatever Tradefed, the Python process and the    *)
(* threads do, and for any amount of output and any number of interrupts   *)
(* and polls, runPythonRunner leaves no process behind that was not        *)
(* destroyed, and what doRunTest reports is what happened (PythonRunner).  *)
(* Then about what the tests on the host do to processes and to the        *)
(* device: HostCommands, RebootTests, Framework and TargetFiles, which     *)
(* share nothing with PythonRunner or with one another.                    *)
(***************************************************************************)
EXTENDS PythonRunner, HostCommands, RebootTests, Framework, TargetFiles, TLAPS

TestStates == {"begin", "wait", "timed", "timed_out", "join", "join_exec", "running", "destroy",
               "close", "rejoin", "results", "finally", "returned", "thrown"}
Tests == [pc : TestStates, wait : 1..2, next : 1..2,
          status : {"none", "SUCCESS", "FAILED", "TIMED_OUT", "EXCEPTION"}, message : BOOLEAN,
          raised : {"none", "runtime", "device", "interrupt", "null", "upload", "start"}, polls : Nat]
Pythons == [state : {"none", "running", "ended"}, success : BOOLEAN, destroyed : BOOLEAN, stdin : BOOLEAN]
Streams == [pipe : Nat, written : Nat, buffer : Nat, thread : {"none", "reading", "ended"}, closed : BOOLEAN]
Execs == [pc : {"none", "started", "waiting", "done"}, success : BOOLEAN,
          cancelled : BOOLEAN, interrupted : BOOLEAN]

TypeOK ==
  /\ test \in Tests /\ python \in Pythons
  /\ stream \in [1..2 -> Streams] /\ exec \in [1..2 -> Execs]
  /\ tradefed \in [pending : BOOLEAN, received : Nat]
  /\ result.summary \in {"none", "empty", "complete"}
  /\ result = [summary |-> result.summary, framework |-> result.framework, listener |-> result.listener]
  /\ history \in [late : BOOLEAN, survived : BOOLEAN]

(* Before the process is started. *)
BeginInv ==
  test.pc = "begin" =>
    /\ python.state = "none" /\ test.wait = 1 /\ test.status = "none" /\ test.raised = "none"
    /\ \A w \in 1..2 : exec[w].pc = "none" /\ ~exec[w].cancelled

(* cleanUp destroys a process before it polls it, and gives up only after  *)
(* the last poll.                                                          *)
CleanUpInv ==
  /\ test.polls > 0 => python.destroyed
  /\ test.pc \in {"close", "rejoin", "results", "finally", "returned", "thrown"} /\ Running =>
       python.destroyed

(* A thread that was not cancelled ends only after the process.            *)
ExecInv ==
  /\ \A w \in 1..2 : exec[w].interrupted => exec[w].cancelled
  /\ \A w \in 1..2 : exec[w].pc = "done" /\ ~exec[w].cancelled => ~Running
  /\ test.pc \in {"wait", "timed"} => ~exec[test.wait].cancelled
  /\ test.wait = 1 => ~exec[2].cancelled
  /\ test.pc = "running" => test.wait = 1
  /\ CancelledThreadsWake

(* A process that was seen to end: what it wrote is in the pipe or in the  *)
(* buffer, and after a join that did not give up it is in the buffer.      *)
SeenToEnd == test.status \in {"SUCCESS", "FAILED"}
DrainInv ==
  /\ \A s \in 1..2 : stream[s].written = stream[s].pipe + stream[s].buffer
  /\ \A s \in 1..2 : stream[s].thread = "ended" /\ ~stream[s].closed => stream[s].pipe = 0 /\ ~Running
  /\ test.pc \notin {"close", "rejoin", "results", "finally", "returned", "thrown"} =>
       \A s \in 1..2 : ~stream[s].closed
  /\ SeenToEnd => /\ ~Running /\ test.wait = 1
                  /\ test.pc \notin {"wait", "timed", "timed_out", "join_exec"}
  /\ SeenToEnd /\ ~history.late =>
       /\ test.pc # "join" \/ test.next = 2 => stream[1].pipe = 0
       /\ test.pc # "join" => stream[2].pipe = 0

(* The run failed, or the listener has the results of the summary.         *)
Told ==
  /\ result.listener # <<>>
  /\ test.status \notin {"SUCCESS", "TIMED_OUT"} =>
       \E i \in DOMAIN result.listener : result.listener[i] = "failed"

(* An interrupt is kept as a message or as the exception to throw.         *)
ThrowInv ==
  /\ tradefed.received > 0 => test.message \/ test.raised # "none" \/ test.pc = "join_exec"
  /\ test.pc \in {"results", "returned"} => test.raised = "none"
  /\ test.pc \in {"finally", "returned"} /\ test.raised = "none" => ~test.message /\ Told

IInv == TypeOK /\ BeginInv /\ CleanUpInv /\ ExecInv /\ DrainInv /\ ThrowInv
-----------------------------------------------------------------------------
LEMMA Numerals == 0 \in Nat /\ 1 \in 1..2 /\ 2 \in 1..2 /\ \A n \in Nat : n + 1 \in Nat
  OBVIOUS

(* What cancel does to a thread. *)
LEMMA CancelKeeps ==
  ASSUME NEW x \in Execs
  PROVE  /\ cancel(x) \in Execs /\ cancel(x).cancelled /\ cancel(x).pc = x.pc
         /\ x.cancelled => cancel(x) = x
         /\ ~x.cancelled => (cancel(x).interrupted <=> x.pc = "waiting")
  <1>1. cancel(x) \in Execs
    BY Zenon DEF Execs, cancel
  <1>2. cancel(x).cancelled /\ cancel(x).pc = x.pc /\ (x.cancelled => cancel(x) = x)
    BY Zenon DEF Execs, cancel
  <1>3. ~x.cancelled => (cancel(x).interrupted <=> x.pc = "waiting")
    BY Zenon DEF Execs, cancel
  <1> QED BY <1>1, <1>2, <1>3, Zenon

LEMMA CancelOne ==
  ASSUME NEW f \in [1..2 -> Execs], NEW w \in 1..2
  PROVE  [f EXCEPT ![w] = cancel(f[w])] \in [1..2 -> Execs]
  BY CancelKeeps, Zenon

LEMMA StreamsUpdated ==
  ASSUME NEW f \in [1..2 -> Streams], NEW s \in 1..2, NEW p \in Nat, NEW n \in Nat
  PROVE  /\ [f EXCEPT ![s].pipe = p, ![s].written = n] \in [1..2 -> Streams]
         /\ [f EXCEPT ![s].pipe = p, ![s].buffer = n] \in [1..2 -> Streams]
         /\ [f EXCEPT ![s].closed = TRUE] \in [1..2 -> Streams]
  <1>1. [f EXCEPT ![s].pipe = p, ![s].written = n] \in [1..2 -> Streams]
    BY Zenon DEF Streams
  <1>2. [f EXCEPT ![s].pipe = p, ![s].buffer = n] \in [1..2 -> Streams]
    BY Zenon DEF Streams
  <1>3. [f EXCEPT ![s].closed = TRUE] \in [1..2 -> Streams]
    BY Zenon DEF Streams
  <1> QED BY <1>1, <1>2, <1>3, Zenon

LEMMA ExecsUpdated ==
  ASSUME NEW f \in [1..2 -> Execs], NEW w \in 1..2,
         NEW p \in {"none", "started", "waiting", "done"}, NEW b \in BOOLEAN
  PROVE  /\ [f EXCEPT ![w].pc = p, ![w].success = b] \in [1..2 -> Execs]
         /\ [f EXCEPT ![w].pc = p] \in [1..2 -> Execs]
  <1>1. [f EXCEPT ![w].pc = p, ![w].success = b] \in [1..2 -> Execs]
    BY SMTT(20) DEF Execs
  <1>2. [f EXCEPT ![w].pc = p] \in [1..2 -> Execs]
    BY Zenon DEF Execs
  <1> QED BY <1>1, <1>2, Zenon

(* Steps that raise an exception, or "none", and go to the finally clause. *)
LEMMA RaiseStep ==
  ASSUME IInv, NEW e \in {"none", "runtime", "device", "null"}, Raise(e),
         test.pc \in {"begin", "results"}, UNCHANGED <<python, stream, exec, tradefed, history>>,
         result'.summary \in {"none", "empty", "complete"},
         result' = [summary |-> result'.summary, framework |-> result'.framework, listener |-> result'.listener],
         e = "none" => test.pc = "results" /\ ~test.message /\ Told'
  PROVE  IInv'
  <1>1. TypeOK'
    <2>1. test' \in Tests
      BY Zenon DEF IInv, TypeOK, Tests, TestStates, Raise
    <2> QED BY <2>1, Zenon DEF IInv, TypeOK
  <1>0. test'.pc = "finally" /\ test'.raised = e /\ UNCHANGED <<test.wait, test.next, test.status, test.message, test.polls>>
    BY Zenon DEF IInv, TypeOK, Tests, Raise
  <1>2. BeginInv'
    BY <1>0, Zenon DEF BeginInv
  <1>3. CleanUpInv'
    BY <1>0, SMTT(20) DEF IInv, CleanUpInv, BeginInv, Running
  <1>4. ExecInv'
    BY <1>0, SMTT(20) DEF IInv, ExecInv, CancelledThreadsWake, Running
  <1>5. DrainInv'
    BY <1>0, SMTT(20) DEF IInv, DrainInv, BeginInv, SeenToEnd, Running
  <1>6. ThrowInv'
    BY <1>0, SMTT(20) DEF IInv, ThrowInv, BeginInv
  <1> QED BY <1>1, <1>2, <1>3, <1>4, <1>5, <1>6, Zenon DEF IInv

LEMMA PrepareFailsStep == ASSUME IInv, PrepareFails PROVE IInv'
  <1>1. PICK e \in {"runtime", "device"} : Raise(e)
    BY Zenon DEF PrepareFails
  <1> QED BY <1>1, RaiseStep, Zenon DEF PrepareFails, IInv, TypeOK

LEMMA SummaryIsBadStep == ASSUME IInv, SummaryIsBad PROVE IInv'
  BY RaiseStep, Zenon DEF SummaryIsBad, IInv, TypeOK

(* doRunTest tells the listener the results, or that the run failed.       *)
LEMMA ReportResultsStep == ASSUME IInv, ReportResults PROVE IInv'
  <1>1. PICK e \in {"none", "runtime", "device"} :
          Raise(e) /\ (e = "none" => ~test.message)
    BY Zenon DEF ReportResults
  <1>2. /\ test.pc = "results" /\ UNCHANGED <<python, stream, exec, tradefed, history>>
        /\ result.summary \in {"none", "complete"}
    BY Zenon DEF ReportResults, IInv, TypeOK
  <1>3. test'.status = test.status
    BY <1>1, Zenon DEF Raise, IInv, TypeOK, Tests
  <1>4. /\ result' = [summary |-> result'.summary, framework |-> result'.framework, listener |-> result'.listener]
        /\ result'.summary = result.summary
        /\ result'.listener = (IF result.summary = "complete" THEN Results ELSE <<>>)
                              \o (IF Errors THEN <<"failed", "ended">> ELSE <<>>)
    BY Zenon DEF ReportResults, IInv, TypeOK
  <1>5. Told'
    <2>1. CASE result.summary = "complete" /\ Errors
      <3>1. result'.listener = <<"started", "ended">> \o <<"failed", "ended">>
        BY <1>4, <2>1, Zenon DEF Results
      <3>2. result'.listener # <<>> /\ 3 \in DOMAIN result'.listener /\ result'.listener[3] = "failed"
        BY <3>1
      <3> QED BY <3>2, Zenon DEF Told
    <2>2. CASE result.summary = "none"
      <3>1. Errors
        BY <2>2, Zenon DEF Errors
      <3>2. result'.listener = <<"failed", "ended">>
        BY <1>4, <2>2, <3>1
      <3>3. result'.listener # <<>> /\ 1 \in DOMAIN result'.listener /\ result'.listener[1] = "failed"
        BY <3>2
      <3> QED BY <3>3, Zenon DEF Told
    <2>3. CASE result.summary = "complete" /\ ~Errors
      <3>1. result'.listener # <<>>
        BY <1>4, <2>3 DEF Results
      <3> QED BY <1>3, <2>3, <3>1, Zenon DEF Told, Errors
    <2> QED BY <1>2, <2>1, <2>2, <2>3, Zenon
  <1>6. result'.summary \in {"none", "empty", "complete"}
    BY <1>2, <1>4, Zenon
  <1> QED BY <1>1, <1>2, <1>4, <1>5, <1>6, RaiseStep, Zenon

LEMMA createProcessHelperStep ==
  ASSUME IInv, createProcessHelper
  PROVE  IInv'
  <1>1. TypeOK'
    <2>1. test' \in Tests
      BY Numerals, Zenon DEF IInv, TypeOK, Tests, TestStates, createProcessHelper, Goto
    <2>2. python' \in Pythons
      BY Numerals, Zenon DEF IInv, TypeOK, Pythons, createProcessHelper, Goto
    <2>3. stream' \in [1..2 -> Streams]
      BY Numerals, Zenon DEF IInv, TypeOK, Streams, createProcessHelper, Goto
    <2> QED BY <2>1, <2>2, <2>3, Zenon DEF IInv, TypeOK, createProcessHelper
  <1>2. BeginInv'
    BY SMTT(20) DEF IInv, TypeOK, Tests, Pythons, Streams, BeginInv, createProcessHelper, Goto
  <1>3. CleanUpInv'
    BY SMTT(20) DEF IInv, TypeOK, Tests, Pythons, Streams, Running, CleanUpInv, createProcessHelper, Goto
  <1>4. ExecInv'
    BY SMTT(20) DEF IInv, TypeOK, Tests, Pythons, Streams, Running, ExecInv, CancelledThreadsWake, BeginInv, createProcessHelper, Goto
  <1>5. DrainInv'
    BY SMTT(20) DEF IInv, TypeOK, Tests, Pythons, Streams, Running, DrainInv, SeenToEnd, BeginInv, ExecInv, CancelledThreadsWake, createProcessHelper, Goto
  <1>6. ThrowInv'
    BY SMTT(20) DEF IInv, TypeOK, Tests, Pythons, Streams, ThrowInv, Told, createProcessHelper, Goto
  <1> QED BY <1>1, <1>2, <1>3, <1>4, <1>5, <1>6, Zenon DEF IInv

LEMMA createProcessHelperFailsStep ==
  ASSUME IInv, createProcessHelperFails
  PROVE  IInv'
  <1>1. TypeOK'
    <2>1. test' \in Tests
      BY Numerals, Zenon DEF IInv, TypeOK, Tests, TestStates, createProcessHelperFails
    <2> QED BY <2>1, Zenon DEF IInv, TypeOK, createProcessHelperFails
  <1>2. BeginInv'
    BY SMTT(20) DEF IInv, TypeOK, Tests, BeginInv, createProcessHelperFails
  <1>3. CleanUpInv'
    BY SMTT(20) DEF IInv, TypeOK, Tests, Running, CleanUpInv, BeginInv, createProcessHelperFails
  <1>4. ExecInv'
    BY SMTT(20) DEF IInv, TypeOK, Tests, Running, ExecInv, CancelledThreadsWake, createProcessHelperFails
  <1>5. DrainInv'
    BY SMTT(20) DEF IInv, TypeOK, Tests, Running, DrainInv, SeenToEnd, createProcessHelperFails
  <1>6. ThrowInv'
    BY SMTT(20) DEF IInv, TypeOK, Tests, ThrowInv, Told, BeginInv, createProcessHelperFails
  <1> QED BY <1>1, <1>2, <1>3, <1>4, <1>5, <1>6, Zenon DEF IInv

LEMMA runTimedStep ==
  ASSUME IInv, runTimed
  PROVE  IInv'
  <1>1. TypeOK'
    <2>1. test' \in Tests
      BY Numerals, Zenon DEF IInv, TypeOK, Tests, TestStates, runTimed, Goto
    <2>2. exec' \in [1..2 -> Execs]
      BY ExecsUpdated, Zenon DEF IInv, TypeOK, Tests, runTimed
    <2> QED BY <2>1, <2>2, Zenon DEF IInv, TypeOK, runTimed
  <1>2. BeginInv'
    BY SMTT(20) DEF IInv, TypeOK, Tests, Execs, BeginInv, runTimed, Goto
  <1>3. CleanUpInv'
    BY SMTT(20) DEF IInv, TypeOK, Tests, Execs, Running, CleanUpInv, runTimed, Goto
  <1>4. ExecInv'
    BY SMTT(20) DEF IInv, TypeOK, Tests, Execs, Running, ExecInv, CancelledThreadsWake, runTimed, Goto
  <1>5. DrainInv'
    BY SMTT(20) DEF IInv, TypeOK, Tests, Execs, Running, DrainInv, SeenToEnd, runTimed, Goto
  <1>6. ThrowInv'
    BY SMTT(20) DEF IInv, TypeOK, Tests, Execs, ThrowInv, Told, runTimed, Goto
  <1> QED BY <1>1, <1>2, <1>3, <1>4, <1>5, <1>6, Zenon DEF IInv

LEMMA runTimedOutStep ==
  ASSUME IInv, runTimedOut
  PROVE  IInv'
  <1>1. TypeOK'
    <2>1. test' \in Tests
      BY Numerals, Zenon DEF IInv, TypeOK, Tests, TestStates, runTimedOut, Goto, cancel
    <2>2. exec' \in [1..2 -> Execs]
      BY CancelOne, Zenon DEF IInv, TypeOK, Tests, runTimedOut
    <2> QED BY <2>1, <2>2, Zenon DEF IInv, TypeOK, runTimedOut
  <1>2. BeginInv'
    BY SMTT(20) DEF IInv, TypeOK, Tests, Execs, BeginInv, runTimedOut, Goto, cancel
  <1>3. CleanUpInv'
    BY SMTT(20) DEF IInv, TypeOK, Tests, Execs, Running, CleanUpInv, runTimedOut, Goto, cancel
  <1>4. ExecInv'
    <2>1. test.wait \in 1..2 /\ exec \in [1..2 -> Execs] /\ UNCHANGED python
      BY Zenon DEF IInv, TypeOK, Tests, runTimedOut
    <2>2. \A w \in 1..2 : exec'[w] = IF w = test.wait THEN cancel(exec[w]) ELSE exec[w]
      BY <2>1, Zenon DEF runTimedOut
    <2>3. test'.pc = "timed_out" /\ test'.wait = test.wait
      BY Zenon DEF IInv, TypeOK, Tests, runTimedOut, Goto
    <2> QED BY <2>1, <2>2, <2>3, CancelKeeps, Numerals, SMTT(20) DEF IInv, ExecInv, CancelledThreadsWake, Running
  <1>5. DrainInv'
    BY SMTT(20) DEF IInv, TypeOK, Tests, Execs, Running, DrainInv, SeenToEnd, runTimedOut, Goto, cancel
  <1>6. ThrowInv'
    BY SMTT(20) DEF IInv, TypeOK, Tests, Execs, ThrowInv, Told, runTimedOut, Goto, cancel
  <1> QED BY <1>1, <1>2, <1>3, <1>4, <1>5, <1>6, Zenon DEF IInv

LEMMA InterruptedStep ==
  ASSUME IInv, Interrupted
  PROVE  IInv'
  <1>1. TypeOK'
    <2>1. test' \in Tests
      BY Numerals, Zenon DEF IInv, TypeOK, Tests, TestStates, Interrupted, Goto, cancel
    <2>2. exec' \in [1..2 -> Execs]
      BY CancelOne, Zenon DEF IInv, TypeOK, Tests, Interrupted
    <2>3. tradefed' \in [pending : BOOLEAN, received : Nat]
      BY Numerals, Zenon DEF IInv, TypeOK, Interrupted, Goto, cancel
    <2> QED BY <2>1, <2>2, <2>3, Zenon DEF IInv, TypeOK, Interrupted
  <1>2. BeginInv'
    BY SMTT(20) DEF IInv, TypeOK, Tests, Execs, BeginInv, Interrupted, Goto, cancel
  <1>3. CleanUpInv'
    BY SMTT(20) DEF IInv, TypeOK, Tests, Execs, Running, CleanUpInv, Interrupted, Goto, cancel
  <1>4. ExecInv'
    BY SMTT(20) DEF IInv, TypeOK, Tests, Execs, Running, ExecInv, CancelledThreadsWake, Interrupted, Goto, cancel
  <1>5. DrainInv'
    BY SMTT(20) DEF IInv, TypeOK, Tests, Execs, Running, DrainInv, SeenToEnd, Interrupted, Goto, cancel
  <1>6. ThrowInv'
    BY SMTT(20) DEF IInv, TypeOK, Tests, Execs, ThrowInv, Told, Interrupted, Goto, cancel
  <1> QED BY <1>1, <1>2, <1>3, <1>4, <1>5, <1>6, Zenon DEF IInv

LEMMA joinExecThreadStep ==
  ASSUME IInv, joinExecThread
  PROVE  IInv'
  <1>1. TypeOK'
    <2>1. test' \in Tests
      BY Numerals, Zenon DEF IInv, TypeOK, Tests, TestStates, joinExecThread, Waited, InterruptedAgain
    <2> QED BY <2>1, Zenon DEF IInv, TypeOK, joinExecThread
  <1>2. BeginInv'
    BY SMTT(20) DEF IInv, TypeOK, Tests, BeginInv, joinExecThread, Waited, InterruptedAgain
  <1>3. CleanUpInv'
    BY SMTT(20) DEF IInv, TypeOK, Tests, Running, CleanUpInv, joinExecThread, Waited, InterruptedAgain
  <1>4. ExecInv'
    BY SMTT(20) DEF IInv, TypeOK, Tests, Running, ExecInv, CancelledThreadsWake, joinExecThread, Waited, InterruptedAgain
  <1>5. DrainInv'
    BY SMTT(20) DEF IInv, TypeOK, Tests, Running, DrainInv, SeenToEnd, joinExecThread, Waited, InterruptedAgain
  <1>6. ThrowInv'
    BY SMTT(20) DEF IInv, TypeOK, Tests, ThrowInv, Told, joinExecThread, Waited, InterruptedAgain
  <1> QED BY <1>1, <1>2, <1>3, <1>4, <1>5, <1>6, Zenon DEF IInv

LEMMA joinThreadStep ==
  ASSUME IInv, joinThread
  PROVE  IInv'
  <1>1. TypeOK'
    <2>1. test' \in Tests
      BY Numerals, Zenon DEF IInv, TypeOK, Tests, TestStates, joinThread, Waited, Goto
    <2>2. history' \in [late : BOOLEAN, survived : BOOLEAN]
      BY Numerals, Zenon DEF IInv, TypeOK, joinThread, Waited, Goto
    <2> QED BY <2>1, <2>2, Zenon DEF IInv, TypeOK, joinThread
  <1>2. BeginInv'
    BY SMTT(20) DEF IInv, TypeOK, Tests, BeginInv, joinThread, Waited, Goto
  <1>3. CleanUpInv'
    BY SMTT(20) DEF IInv, TypeOK, Tests, Running, CleanUpInv, joinThread, Waited, Goto
  <1>4. ExecInv'
    BY SMTT(20) DEF IInv, TypeOK, Tests, Running, ExecInv, CancelledThreadsWake, joinThread, Waited, Goto
  <1>5. DrainInv'
    <2>1. /\ UNCHANGED <<python, stream>> /\ test'.wait = test.wait /\ test'.status = test.status
          /\ test.pc \in {"join", "rejoin"}
      BY SMTT(20) DEF IInv, TypeOK, Tests, joinThread, Waited, Goto
    <2>2. ~history'.late => ~history.late /\ stream[test.next].thread = "ended"
      BY Zenon DEF IInv, TypeOK, joinThread
    <2>3. \/ test.next = 1 /\ test'.pc = test.pc /\ test'.next = 2
          \/ test.next = 2 /\ test.pc = "join" /\ test'.pc \in {"running", "destroy"}
          \/ test.next = 2 /\ test.pc = "rejoin" /\ test'.pc \in {"results", "finally"}
      <3>1. test.next = 1 \/ test.next = 2
        BY DEF IInv, TypeOK, Tests
      <3>2. CASE test.next = 1
        BY <3>2, Zenon DEF IInv, TypeOK, Tests, joinThread
      <3>3. CASE test.next = 2
        <4>1. 2 # 1
          OBVIOUS
        <4> QED BY <2>1, <3>3, <4>1, Zenon DEF IInv, TypeOK, Tests, joinThread, Waited, Goto
      <3> QED BY <3>1, <3>2, <3>3, Zenon
    <2>4. ASSUME test.pc = "join", ~history'.late PROVE stream[test.next].pipe = 0
      <3>1. test.next \in 1..2
        BY Zenon DEF IInv, TypeOK, Tests
      <3> QED BY <2>2, <2>4, <3>1, Zenon DEF IInv, DrainInv
    <2>5. CASE test.next = 1 /\ test'.pc = test.pc /\ test'.next = 2
      BY <2>1, <2>2, <2>4, <2>5, SMTT(20) DEF IInv, DrainInv, SeenToEnd, Running
    <2>6. CASE test.next = 2 /\ test.pc = "join" /\ test'.pc \in {"running", "destroy"}
      BY <2>1, <2>2, <2>4, <2>6, SMTT(20) DEF IInv, DrainInv, SeenToEnd, Running
    <2>7. CASE test.next = 2 /\ test.pc = "rejoin" /\ test'.pc \in {"results", "finally"}
      BY <2>1, <2>2, <2>7, SMTT(20) DEF IInv, DrainInv, SeenToEnd, Running
    <2> QED BY <2>3, <2>5, <2>6, <2>7, Zenon
  <1>6. ThrowInv'
    BY SMTT(20) DEF IInv, TypeOK, Tests, ThrowInv, Told, joinThread, Waited, Goto
  <1> QED BY <1>1, <1>2, <1>3, <1>4, <1>5, <1>6, Zenon DEF IInv

LEMMA closeReaderStep ==
  ASSUME IInv, closeReader
  PROVE  IInv'
  <1>1. TypeOK'
    <2>1. test' \in Tests
      BY Numerals, Zenon DEF IInv, TypeOK, Tests, TestStates, closeReader
    <2>2. stream' \in [1..2 -> Streams]
      <3>1. stream \in [1..2 -> Streams] /\ test.next \in 1..2 /\ 0 \in Nat
        BY Numerals, Zenon DEF IInv, TypeOK, Tests
      <3> QED BY <3>1, StreamsUpdated, Zenon DEF closeReader
    <2> QED BY <2>1, <2>2, Zenon DEF IInv, TypeOK, closeReader
  <1>2. BeginInv'
    BY SMTT(20) DEF IInv, TypeOK, Tests, Streams, BeginInv, closeReader
  <1>3. CleanUpInv'
    BY SMTT(20) DEF IInv, TypeOK, Tests, Streams, Running, CleanUpInv, closeReader
  <1>4. ExecInv'
    BY SMTT(20) DEF IInv, TypeOK, Tests, Streams, Running, ExecInv, CancelledThreadsWake, closeReader
  <1>5. DrainInv'
    BY SMTT(20) DEF IInv, TypeOK, Tests, Streams, Running, DrainInv, SeenToEnd, closeReader
  <1>6. ThrowInv'
    BY SMTT(20) DEF IInv, TypeOK, Tests, Streams, ThrowInv, Told, closeReader
  <1> QED BY <1>1, <1>2, <1>3, <1>4, <1>5, <1>6, Zenon DEF IInv

LEMMA StopFrameworkStep ==
  ASSUME IInv, StopFramework
  PROVE  IInv'
  <1>1. TypeOK'
    <2>1. /\ result'.summary \in {"none", "empty", "complete"}
          /\ result' = [summary |-> result'.summary, framework |-> result'.framework, listener |-> result'.listener]
      BY Numerals, Zenon DEF IInv, TypeOK, StopFramework
    <2> QED BY <2>1, Zenon DEF IInv, TypeOK, StopFramework
  <1>2. BeginInv'
    BY SMTT(20) DEF IInv, TypeOK, BeginInv, StopFramework
  <1>3. CleanUpInv'
    BY SMTT(20) DEF IInv, TypeOK, Running, CleanUpInv, StopFramework
  <1>4. ExecInv'
    BY SMTT(20) DEF IInv, TypeOK, Running, ExecInv, CancelledThreadsWake, StopFramework
  <1>5. DrainInv'
    BY SMTT(20) DEF IInv, TypeOK, Running, DrainInv, SeenToEnd, StopFramework
  <1>6. ThrowInv'
    BY SMTT(20) DEF IInv, TypeOK, ThrowInv, Told, StopFramework
  <1> QED BY <1>1, <1>2, <1>3, <1>4, <1>5, <1>6, Zenon DEF IInv

LEMMA writeResultsJsonStringStep ==
  ASSUME IInv, _writeResultsJsonString
  PROVE  IInv'
  <1>1. TypeOK'
    <2>1. /\ result'.summary \in {"none", "empty", "complete"}
          /\ result' = [summary |-> result'.summary, framework |-> result'.framework, listener |-> result'.listener]
      BY Numerals, Zenon DEF IInv, TypeOK, _writeResultsJsonString
    <2> QED BY <2>1, Zenon DEF IInv, TypeOK, _writeResultsJsonString
  <1>2. BeginInv'
    BY SMTT(20) DEF IInv, TypeOK, BeginInv, _writeResultsJsonString
  <1>3. CleanUpInv'
    BY SMTT(20) DEF IInv, TypeOK, Running, CleanUpInv, _writeResultsJsonString
  <1>4. ExecInv'
    BY SMTT(20) DEF IInv, TypeOK, Running, ExecInv, CancelledThreadsWake, _writeResultsJsonString
  <1>5. DrainInv'
    BY SMTT(20) DEF IInv, TypeOK, Running, DrainInv, SeenToEnd, _writeResultsJsonString
  <1>6. ThrowInv'
    BY SMTT(20) DEF IInv, TypeOK, ThrowInv, Told, _writeResultsJsonString
  <1> QED BY <1>1, <1>2, <1>3, <1>4, <1>5, <1>6, Zenon DEF IInv

LEMMA WriteStep ==
  ASSUME IInv, NEW i \in 1..2, Write(i)
  PROVE  IInv'
  <1>1. TypeOK'
    <2>1. stream' \in [1..2 -> Streams]
      <3>1. stream[i].pipe + 1 \in Nat /\ stream[i].written + 1 \in Nat
        BY Numerals, Zenon DEF IInv, TypeOK, Streams
      <3> QED BY <3>1, StreamsUpdated, Zenon DEF IInv, TypeOK, Write
    <2> QED BY <2>1, Zenon DEF IInv, TypeOK, Write
  <1>2. BeginInv'
    BY SMTT(20) DEF IInv, TypeOK, Streams, BeginInv, Write
  <1>3. CleanUpInv'
    BY SMTT(20) DEF IInv, TypeOK, Streams, Running, CleanUpInv, Write
  <1>4. ExecInv'
    BY SMTT(20) DEF IInv, TypeOK, Streams, Running, ExecInv, CancelledThreadsWake, Write
  <1>5. DrainInv'
    BY SMTT(20) DEF IInv, TypeOK, Streams, Running, DrainInv, SeenToEnd, Write
  <1>6. ThrowInv'
    BY SMTT(20) DEF IInv, TypeOK, Streams, ThrowInv, Told, Write
  <1> QED BY <1>1, <1>2, <1>3, <1>4, <1>5, <1>6, Zenon DEF IInv

LEMMA ExitStep ==
  ASSUME IInv, Exit
  PROVE  IInv'
  <1>1. TypeOK'
    <2>1. python' \in Pythons
      BY Numerals, Zenon DEF IInv, TypeOK, Pythons, Exit
    <2> QED BY <2>1, Zenon DEF IInv, TypeOK, Exit
  <1>2. BeginInv'
    BY SMTT(20) DEF IInv, TypeOK, Pythons, Running, BeginInv, Exit
  <1>3. CleanUpInv'
    BY SMTT(20) DEF IInv, TypeOK, Pythons, Running, CleanUpInv, Exit
  <1>4. ExecInv'
    BY SMTT(20) DEF IInv, TypeOK, Pythons, Running, ExecInv, CancelledThreadsWake, Exit
  <1>5. DrainInv'
    BY SMTT(20) DEF IInv, TypeOK, Pythons, Running, DrainInv, SeenToEnd, Exit
  <1>6. ThrowInv'
    BY SMTT(20) DEF IInv, TypeOK, Pythons, Running, ThrowInv, Told, Exit
  <1> QED BY <1>1, <1>2, <1>3, <1>4, <1>5, <1>6, Zenon DEF IInv

LEMMA DieStep ==
  ASSUME IInv, Die
  PROVE  IInv'
  <1>1. TypeOK'
    <2>1. python' \in Pythons
      BY Numerals, Zenon DEF IInv, TypeOK, Pythons, Die
    <2> QED BY <2>1, Zenon DEF IInv, TypeOK, Die
  <1>2. BeginInv'
    BY SMTT(20) DEF IInv, TypeOK, Pythons, Running, BeginInv, Die
  <1>3. CleanUpInv'
    BY SMTT(20) DEF IInv, TypeOK, Pythons, Running, CleanUpInv, Die
  <1>4. ExecInv'
    BY SMTT(20) DEF IInv, TypeOK, Pythons, Running, ExecInv, CancelledThreadsWake, Die
  <1>5. DrainInv'
    BY SMTT(20) DEF IInv, TypeOK, Pythons, Running, DrainInv, SeenToEnd, Die
  <1>6. ThrowInv'
    BY SMTT(20) DEF IInv, TypeOK, Pythons, Running, ThrowInv, Told, Die
  <1> QED BY <1>1, <1>2, <1>3, <1>4, <1>5, <1>6, Zenon DEF IInv

LEMMA ReadStep ==
  ASSUME IInv, NEW i \in 1..2, Read(i)
  PROVE  IInv'
  <1>1. TypeOK'
    <2>1. stream' \in [1..2 -> Streams]
      <3>1. stream[i].pipe \in Nat /\ stream[i].pipe > 0 /\ stream[i].buffer \in Nat
        BY Zenon DEF IInv, TypeOK, Streams, Read
      <3>2. stream[i].pipe - 1 \in Nat /\ stream[i].buffer + 1 \in Nat
        BY <3>1
      <3> QED BY <3>2, StreamsUpdated, Zenon DEF IInv, TypeOK, Read
    <2> QED BY <2>1, Zenon DEF IInv, TypeOK, Read
  <1>2. BeginInv'
    BY SMTT(20) DEF IInv, TypeOK, Streams, BeginInv, Read
  <1>3. CleanUpInv'
    BY SMTT(20) DEF IInv, TypeOK, Streams, Running, CleanUpInv, Read
  <1>4. ExecInv'
    BY SMTT(20) DEF IInv, TypeOK, Streams, Running, ExecInv, CancelledThreadsWake, Read
  <1>5. DrainInv'
    BY SMTT(20) DEF IInv, TypeOK, Streams, Running, DrainInv, SeenToEnd, Read
  <1>6. ThrowInv'
    BY SMTT(20) DEF IInv, TypeOK, Streams, ThrowInv, Told, Read
  <1> QED BY <1>1, <1>2, <1>3, <1>4, <1>5, <1>6, Zenon DEF IInv

LEMMA ReadEndsStep ==
  ASSUME IInv, NEW i \in 1..2, ReadEnds(i)
  PROVE  IInv'
  <1>1. TypeOK'
    <2>1. stream' \in [1..2 -> Streams]
      BY Numerals, ZenonT(40) DEF IInv, TypeOK, Streams, ReadEnds
    <2> QED BY <2>1, Zenon DEF IInv, TypeOK, ReadEnds
  <1>2. BeginInv'
    BY SMTT(20) DEF IInv, TypeOK, Streams, BeginInv, ReadEnds
  <1>3. CleanUpInv'
    BY SMTT(20) DEF IInv, TypeOK, Streams, Running, CleanUpInv, ReadEnds
  <1>4. ExecInv'
    BY SMTT(20) DEF IInv, TypeOK, Streams, Running, ExecInv, CancelledThreadsWake, ReadEnds
  <1>5. DrainInv'
    BY SMTT(20) DEF IInv, TypeOK, Streams, Running, DrainInv, SeenToEnd, ReadEnds
  <1>6. ThrowInv'
    BY SMTT(20) DEF IInv, TypeOK, Streams, ThrowInv, Told, ReadEnds
  <1> QED BY <1>1, <1>2, <1>3, <1>4, <1>5, <1>6, Zenon DEF IInv

LEMMA RunStep ==
  ASSUME IInv, NEW i \in 1..2, Run(i)
  PROVE  IInv'
  <1>1. TypeOK'
    <2>1. exec' \in [1..2 -> Execs]
      <3>1. (IF exec[i].cancelled THEN "done" ELSE "waiting") \in {"none", "started", "waiting", "done"}
        BY Zenon
      <3> QED BY <3>1, ExecsUpdated, Zenon DEF IInv, TypeOK, Run
    <2> QED BY <2>1, Zenon DEF IInv, TypeOK, Run
  <1>2. BeginInv'
    BY SMTT(20) DEF IInv, TypeOK, Execs, BeginInv, Run
  <1>3. CleanUpInv'
    BY SMTT(20) DEF IInv, TypeOK, Execs, Running, CleanUpInv, Run
  <1>4. ExecInv'
    BY SMTT(20) DEF IInv, TypeOK, Execs, Running, ExecInv, CancelledThreadsWake, Run
  <1>5. DrainInv'
    BY SMTT(20) DEF IInv, TypeOK, Execs, Running, DrainInv, SeenToEnd, Run
  <1>6. ThrowInv'
    BY SMTT(20) DEF IInv, TypeOK, Execs, ThrowInv, Told, Run
  <1> QED BY <1>1, <1>2, <1>3, <1>4, <1>5, <1>6, Zenon DEF IInv

LEMMA RunEndsStep ==
  ASSUME IInv, NEW i \in 1..2, RunEnds(i)
  PROVE  IInv'
  <1>1. TypeOK'
    <2>1. exec' \in [1..2 -> Execs]
      <3>1. python.success \in BOOLEAN /\ "done" \in {"none", "started", "waiting", "done"}
        BY Zenon DEF IInv, TypeOK, Pythons
      <3>2. exec \in [1..2 -> Execs]
        BY Zenon DEF IInv, TypeOK
      <3>3. \/ exec' = [exec EXCEPT ![i].pc = "done", ![i].success = python.success]
            \/ exec' = [exec EXCEPT ![i].pc = "done"]
        BY Zenon DEF RunEnds
      <3>4. CASE exec' = [exec EXCEPT ![i].pc = "done", ![i].success = python.success]
        BY <3>1, <3>2, <3>4, ExecsUpdated, Zenon
      <3>5. CASE exec' = [exec EXCEPT ![i].pc = "done"]
        BY <3>1, <3>2, <3>5, ExecsUpdated, Zenon
      <3> QED BY <3>3, <3>4, <3>5, Zenon
    <2> QED BY <2>1, Zenon DEF IInv, TypeOK, RunEnds
  <1>2. BeginInv'
    BY SMTT(20) DEF IInv, TypeOK, Execs, BeginInv, RunEnds
  <1>3. CleanUpInv'
    BY SMTT(20) DEF IInv, TypeOK, Execs, Running, CleanUpInv, RunEnds
  <1>4. ExecInv'
    BY SMTT(20) DEF IInv, TypeOK, Tests, TestStates, Pythons, Streams, Execs, Running, ExecInv, CancelledThreadsWake, BeginInv, RunEnds
  <1>5. DrainInv'
    BY SMTT(20) DEF IInv, TypeOK, Execs, Running, DrainInv, SeenToEnd, RunEnds
  <1>6. ThrowInv'
    BY SMTT(20) DEF IInv, TypeOK, Execs, ThrowInv, Told, RunEnds
  <1> QED BY <1>1, <1>2, <1>3, <1>4, <1>5, <1>6, Zenon DEF IInv

LEMMA InterruptStep ==
  ASSUME IInv, Interrupt
  PROVE  IInv'
  <1>1. TypeOK'
    <2>1. tradefed' \in [pending : BOOLEAN, received : Nat]
      BY Numerals, Zenon DEF IInv, TypeOK, Interrupt
    <2> QED BY <2>1, Zenon DEF IInv, TypeOK, Interrupt
  <1>2. BeginInv'
    BY SMTT(20) DEF IInv, TypeOK, BeginInv, Interrupt
  <1>3. CleanUpInv'
    BY SMTT(20) DEF IInv, TypeOK, Running, CleanUpInv, Interrupt
  <1>4. ExecInv'
    BY SMTT(20) DEF IInv, TypeOK, Running, ExecInv, CancelledThreadsWake, Interrupt
  <1>5. DrainInv'
    BY SMTT(20) DEF IInv, TypeOK, Running, DrainInv, SeenToEnd, Interrupt
  <1>6. ThrowInv'
    BY SMTT(20) DEF IInv, TypeOK, ThrowInv, Told, Interrupt
  <1> QED BY <1>1, <1>2, <1>3, <1>4, <1>5, <1>6, Zenon DEF IInv

LEMMA runTimedReturnsStep == ASSUME IInv, runTimedReturns PROVE IInv'
  <1>1. UNCHANGED <<python, stream, exec, tradefed, result, history>>
    BY Zenon DEF runTimedReturns
  <1>2. PICK b \in {"SUCCESS", "FAILED"} :
          \/ test.pc = "timed" /\ exec[test.wait].pc = "done" /\ test' = ReturnAfterJoin(b)
          \/ test.pc = "timed_out" /\ test' = Waited("TIMED_OUT")
    BY Zenon DEF runTimedReturns
  <1>3. test \in Tests /\ test.wait \in 1..2
    BY Zenon DEF IInv, TypeOK, Tests
  <1>4. CASE test.pc = "timed" /\ exec[test.wait].pc = "done" /\ test' = ReturnAfterJoin(b)
    <2>1. test' \in Tests
      BY <1>3, <1>4, Numerals, Zenon DEF Tests, TestStates, ReturnAfterJoin
    <2>2. /\ test'.pc = "join" /\ test'.next = 1 /\ UNCHANGED <<test.wait, test.message, test.raised, test.polls>>
          /\ test'.status = IF test.wait = 1 THEN b ELSE test.status
      BY <1>3, <1>4, Zenon DEF Tests, ReturnAfterJoin
    <2>3. ~Running /\ test.status \notin {"SUCCESS", "FAILED"}
      BY <1>3, <1>4, Zenon DEF IInv, ExecInv, DrainInv, SeenToEnd
    <2>4. TypeOK' /\ BeginInv' /\ ThrowInv'
      BY <1>1, <1>4, <2>1, <2>2, Zenon DEF IInv, TypeOK, BeginInv, ThrowInv
    <2>5. CleanUpInv' /\ ExecInv'
      BY <1>1, <2>2, SMTT(20) DEF IInv, CleanUpInv, ExecInv, CancelledThreadsWake, Running
    <2>6. DrainInv'
      BY <1>1, <1>4, <2>2, <2>3, SMTT(20) DEF IInv, DrainInv, SeenToEnd, Running
    <2> QED BY <2>4, <2>5, <2>6, Zenon DEF IInv
  <1>5. CASE test.pc = "timed_out" /\ test' = Waited("TIMED_OUT")
    <2>1. test' \in Tests
      BY <1>3, <1>5, Zenon DEF Tests, TestStates, Waited
    <2>2. /\ test'.pc \in {"running", "destroy"} /\ (test'.pc = "running" => test.wait = 1)
          /\ UNCHANGED <<test.wait, test.message, test.raised, test.polls>>
          /\ test'.status = IF test.wait = 1 THEN "TIMED_OUT" ELSE test.status
      BY <1>3, <1>5, Zenon DEF Tests, Waited
    <2>3. test.status \notin {"SUCCESS", "FAILED"}
      BY <1>5, Zenon DEF IInv, DrainInv, SeenToEnd
    <2>4. TypeOK' /\ BeginInv' /\ ThrowInv'
      BY <1>1, <1>5, <2>1, <2>2, Zenon DEF IInv, TypeOK, BeginInv, ThrowInv
    <2>5. CleanUpInv' /\ ExecInv'
      BY <1>1, <2>2, SMTT(20) DEF IInv, CleanUpInv, ExecInv, CancelledThreadsWake, Running
    <2>6. DrainInv'
      BY <1>1, <1>5, <2>2, <2>3, SMTT(20) DEF IInv, DrainInv, SeenToEnd, Running
    <2> QED BY <2>4, <2>5, <2>6, Zenon DEF IInv
  <1> QED BY <1>2, <1>4, <1>5, Zenon

LEMMA closeStdinStep == ASSUME IInv, closeStdin PROVE IInv'
  <1>1. UNCHANGED <<stream, exec, tradefed, result, history>> /\ test.pc = "running"
    BY Zenon DEF closeStdin
  <1>2. python' \in Pythons /\ UNCHANGED <<python.state, python.destroyed>>
    BY Zenon DEF closeStdin, IInv, TypeOK, Pythons
  <1>3. test \in Tests
    BY Zenon DEF IInv, TypeOK
  <1>4. test' \in Tests
    BY <1>3, Numerals, Zenon DEF closeStdin, Goto, Tests, TestStates
  <1>5. /\ UNCHANGED <<test.next, test.status, test.message, test.raised, test.polls>>
        /\ \/ test'.pc = "destroy" /\ test'.wait = test.wait
           \/ test'.pc = "wait" /\ test'.wait = 2 /\ Running
    BY <1>3, Zenon DEF closeStdin, Goto, Tests
  <1>6. SeenToEnd => ~Running
    BY Zenon DEF IInv, DrainInv
  <1>7. ~exec[2].cancelled /\ test.wait = 1
    BY <1>1, Zenon DEF IInv, ExecInv
  <1>8. TypeOK' /\ BeginInv' /\ ThrowInv'
    BY <1>1, <1>2, <1>4, <1>5, SMTT(20) DEF IInv, TypeOK, BeginInv, ThrowInv, Told
  <1>9. CleanUpInv'
    BY <1>2, <1>5, SMTT(20) DEF IInv, CleanUpInv, Running
  <1>10. ExecInv'
    BY <1>1, <1>2, <1>5, <1>7, SMTT(20) DEF IInv, ExecInv, CancelledThreadsWake, Running
  <1>11. DrainInv'
    BY <1>1, <1>2, <1>5, <1>6, SMTT(20) DEF IInv, DrainInv, SeenToEnd, Running
  <1> QED BY <1>8, <1>9, <1>10, <1>11, Zenon DEF IInv

LEMMA cleanUpStep == ASSUME IInv, cleanUp PROVE IInv'
  <1>1. UNCHANGED <<stream, exec, tradefed, result>> /\ test.pc = "destroy"
    BY Zenon DEF cleanUp
  <1>2. test \in Tests /\ python \in Pythons /\ history \in [late : BOOLEAN, survived : BOOLEAN]
    BY Zenon DEF IInv, TypeOK
  <1>3. CASE /\ Running /\ test.polls < MaxPolls
             /\ python' = IF test.polls = 0 THEN destroy(python) ELSE python
             /\ test' = [test EXCEPT !.polls = @ + 1] /\ UNCHANGED history
    <2>1. test' \in Tests /\ python' \in Pythons
      BY <1>2, <1>3, Numerals, Zenon DEF Tests, Pythons, destroy
    <2>2. /\ UNCHANGED <<test.pc, test.wait, test.next, test.status, test.message, test.raised>>
          /\ python'.state = python.state
      BY <1>2, <1>3, Zenon DEF Tests, Pythons, destroy
    <2>3. python'.destroyed
      <3>1. test.polls = 0 \/ test.polls > 0
        BY <1>2 DEF Tests
      <3> QED BY <1>2, <1>3, <3>1, Zenon DEF IInv, CleanUpInv, Pythons, destroy
    <2>4. TypeOK' /\ BeginInv' /\ CleanUpInv'
      BY <1>1, <1>3, <2>1, <2>2, <2>3, Zenon DEF IInv, TypeOK, BeginInv, CleanUpInv
    <2>5. ExecInv' /\ DrainInv' /\ ThrowInv'
      BY <1>1, <1>3, <2>2, SMTT(20) DEF IInv, ExecInv, CancelledThreadsWake, DrainInv, SeenToEnd, ThrowInv, Told, Running
    <2> QED BY <2>4, <2>5, Zenon DEF IInv
  <1>4. CASE /\ Running => test.polls = MaxPolls
             /\ python' = [python EXCEPT !.stdin = FALSE]
             /\ test' = [test EXCEPT !.pc = "close", !.next = 1, !.polls = 0]
             /\ history' = [history EXCEPT !.survived = Running]
    <2>1. /\ test' \in Tests /\ python' \in Pythons /\ history' \in [late : BOOLEAN, survived : BOOLEAN]
      BY <1>2, <1>4, Numerals, Zenon DEF Tests, TestStates, Pythons, Running
    <2>2. /\ test'.pc = "close" /\ test'.polls = 0
          /\ UNCHANGED <<test.wait, test.status, test.message, test.raised, python.state, python.destroyed, history.late>>
      BY <1>2, <1>4, Zenon DEF Tests, Pythons
    <2>3. Running => python.destroyed
      <3>1. Running => test.polls > 0
        BY <1>2, <1>4, BoundsAssumption DEF Tests
      <3> QED BY <3>1, Zenon DEF IInv, CleanUpInv
    <2>4. TypeOK' /\ BeginInv'
      BY <1>1, <2>1, <2>2, Zenon DEF IInv, TypeOK, BeginInv
    <2>5. CleanUpInv'
      BY <2>2, <2>3, SMTT(40) DEF CleanUpInv, Running
    <2>6. ExecInv' /\ DrainInv' /\ ThrowInv'
      BY <1>1, <2>2, SMTT(20) DEF IInv, ExecInv, CancelledThreadsWake, DrainInv, SeenToEnd, ThrowInv, Told, Running
    <2> QED BY <2>4, <2>5, <2>6, Zenon DEF IInv
  <1> QED BY <1>3, <1>4, Zenon DEF cleanUp

LEMMA FinallyStep == ASSUME IInv, Finally PROVE IInv'
  <1>1. UNCHANGED <<python, stream, exec, tradefed, history>> /\ test.pc = "finally"
    BY Zenon DEF Finally
  <1>2. test \in Tests /\ result = [summary |-> result.summary, framework |-> result.framework, listener |-> result.listener]
    BY Zenon DEF IInv, TypeOK
  <1>3. PICK p \in {"returned", "thrown"}, e \in {test.raised, "upload", "start"} :
          /\ test' = [test EXCEPT !.pc = p, !.raised = e]
          /\ p = "returned" => e = "none" /\ test.raised = "none"
    <2>1. \A p : Goto(test, p) = [test EXCEPT !.pc = p, !.raised = test.raised]
      BY <1>2 DEF Goto, Tests
    <2> QED BY <2>1, Zenon DEF Finally
  <1>4. /\ result' = [summary |-> result'.summary, framework |-> result'.framework, listener |-> result'.listener]
        /\ UNCHANGED <<result.summary, result.listener>>
    BY <1>2, Zenon DEF Finally
  <1>5. test' \in Tests
    BY <1>2, <1>3, Zenon DEF Tests, TestStates
  <1>6. /\ test'.pc = p /\ test'.raised = e
        /\ UNCHANGED <<test.wait, test.next, test.status, test.message, test.polls>>
    BY <1>2, <1>3, Zenon DEF Tests
  <1>7. TypeOK' /\ BeginInv'
    BY <1>1, <1>3, <1>4, <1>5, <1>6, Zenon DEF IInv, TypeOK, BeginInv
  <1>8. CleanUpInv' /\ ExecInv'
    BY <1>1, <1>3, <1>6, SMTT(20) DEF IInv, CleanUpInv, ExecInv, CancelledThreadsWake, Running
  <1>9. DrainInv'
    BY <1>1, <1>3, <1>6, SMTT(20) DEF IInv, DrainInv, SeenToEnd, Running
  <1>10. ThrowInv'
    BY <1>1, <1>3, <1>4, <1>6, SMTT(20) DEF IInv, ThrowInv, Told
  <1> QED BY <1>7, <1>8, <1>9, <1>10, Zenon DEF IInv

-----------------------------------------------------------------------------
LEMMA InitIInv == Init => IInv
  <1> SUFFICES ASSUME Init PROVE IInv
    BY Zenon
  <1>1. test \in Tests /\ python \in Pythons /\ stream \in [1..2 -> Streams] /\ exec \in [1..2 -> Execs]
    BY SMTT(20) DEF Init, Tests, TestStates, Pythons, Streams, Execs
  <1>2. TypeOK
    BY <1>1, SMTT(20) DEF Init, TypeOK
  <1>3. BeginInv /\ CleanUpInv /\ ExecInv
    BY SMTT(20) DEF Init, BeginInv, CleanUpInv, ExecInv, CancelledThreadsWake, Running
  <1>4. DrainInv /\ ThrowInv
    BY SMTT(20) DEF Init, DrainInv, SeenToEnd, ThrowInv, Running
  <1> QED BY <1>2, <1>3, <1>4, Zenon DEF IInv

LEMMA StutterStep == ASSUME IInv, UNCHANGED vars PROVE IInv'
  <1>1. UNCHANGED <<test, python, stream, exec, tradefed, result, history>>
    BY Zenon DEF vars
  <1>2. TypeOK'
    BY <1>1, Zenon DEF IInv, TypeOK
  <1>3. BeginInv' /\ CleanUpInv'
    BY <1>1, Zenon DEF IInv, BeginInv, CleanUpInv, Running
  <1>4. ExecInv' /\ DrainInv'
    BY <1>1, Zenon DEF IInv, ExecInv, CancelledThreadsWake, DrainInv, SeenToEnd, Running
  <1>5. ThrowInv'
    BY <1>1, Zenon DEF IInv, ThrowInv, Told
  <1> QED BY <1>2, <1>3, <1>4, <1>5, Zenon DEF IInv

LEMMA NextIInv == IInv /\ [Next]_vars => IInv'
  <1> SUFFICES ASSUME IInv, [Next]_vars PROVE IInv'
    BY Zenon
  <1>1. CASE PrepareFails \/ createProcessHelper \/ createProcessHelperFails
    BY <1>1, PrepareFailsStep, createProcessHelperStep, createProcessHelperFailsStep, Zenon
  <1>2. CASE runTimed \/ runTimedOut \/ runTimedReturns \/ Interrupted
    BY <1>2, runTimedStep, runTimedOutStep, runTimedReturnsStep, InterruptedStep, Zenon
  <1>3. CASE joinExecThread \/ joinThread \/ closeStdin \/ cleanUp \/ closeReader
    BY <1>3, joinExecThreadStep, joinThreadStep, closeStdinStep, cleanUpStep, closeReaderStep, Zenon
  <1>4. CASE SummaryIsBad \/ ReportResults \/ Finally
    BY <1>4, SummaryIsBadStep, ReportResultsStep, FinallyStep, Zenon
  <1>5. ASSUME NEW i \in 1..2, Read(i) \/ ReadEnds(i) \/ Run(i) \/ RunEnds(i) PROVE IInv'
    BY <1>5, ReadStep, ReadEndsStep, RunStep, RunEndsStep, Zenon
  <1>6. ASSUME NEW i \in 1..2, Write(i) PROVE IInv'
    BY <1>6, WriteStep, Zenon
  <1>7. CASE StopFramework \/ _writeResultsJsonString \/ Exit \/ Die \/ Interrupt
    BY <1>7, StopFrameworkStep, writeResultsJsonStringStep, ExitStep, DieStep, InterruptStep, Zenon
  <1>8. CASE UNCHANGED vars
    BY <1>8, StutterStep, Zenon
  <1> QED BY <1>1, <1>2, <1>3, <1>4, <1>5, <1>6, <1>7, <1>8, Zenon DEF Next, TestStep, ThreadStep, PythonStep

LEMMA SpecIInv == Spec => []IInv
  BY InitIInv, NextIInv, PTL DEF Spec

(* When runPythonRunner is over, by a return or by the exception of a      *)
(* second interrupt, its process has ended or cleanUp has destroyed it,    *)
(* for every number of polls and interrupts.                               *)
THEOREM ProcessesAreCleanedUp == Spec => []NoProcessIsLeft
  <1>1. IInv => NoProcessIsLeft
    BY Zenon DEF IInv, CleanUpInv, NoProcessIsLeft
  <1> QED BY <1>1, SpecIInv, PTL

(* What doRunTest reports is what happened: all that a process wrote that  *)
(* waitForProcess saw end (unless a join gave up), the results of a        *)
(* summary or a failure, and every interrupt as an exception.              *)
THEOREM ReportsAreTrue == Spec => []ReportIsTrue
  <1>1. ASSUME IInv PROVE ReportIsTrue
    <2>1. OutputIsWhole
      <3> SUFFICES ASSUME test.pc \in {"results", "returned"}, SeenToEnd, ~history.late, NEW s \in 1..2
                   PROVE  stream[s].buffer = stream[s].written
        BY Zenon DEF OutputIsWhole, SeenToEnd
      <3>1. stream[1].pipe = 0 /\ stream[2].pipe = 0
        BY <1>1, Zenon DEF IInv, DrainInv
      <3>2. stream[s].buffer \in Nat /\ stream[s].written = stream[s].pipe + stream[s].buffer
        BY <1>1, Zenon DEF IInv, TypeOK, Streams, DrainInv
      <3> QED BY <3>1, <3>2
    <2>2. NoSilentRun
      BY <1>1, Zenon DEF IInv, ThrowInv, Told, NoSilentRun
    <2>3. InterruptIsThrown
      <3>1. test.pc = "returned" => ~(tradefed.received > 0)
        BY <1>1, Zenon DEF IInv, ThrowInv
      <3>2. tradefed.received \in Nat
        BY <1>1, Zenon DEF IInv, TypeOK
      <3> QED BY <3>1, <3>2 DEF InterruptIsThrown
    <2> QED BY <2>1, <2>2, <2>3, Zenon DEF ReportIsTrue
  <1>2. IInv => ReportIsTrue
    BY <1>1, Zenon
  <1> QED BY <1>2, SpecIInv, PTL

(* VtsRunnable.cancel and run, in any order: a thread that is cancelled    *)
(* never waits for the process without an interrupt to wake it.            *)
THEOREM CancelledThreadsAreWoken == Spec => []CancelledThreadsWake
  <1>1. IInv => CancelledThreadsWake
    BY Zenon DEF IInv, ExecInv
  <1> QED BY <1>1, SpecIInv, PTL
-----------------------------------------------------------------------------
(***************************************************************************)
(* HostCommands: cmd_utils.py and utils.py. Each command has an invariant  *)
(* of its own, and the caller one that ties it to the command it is in the *)
(* call of.                                                                *)
(***************************************************************************)
(* What a command ended with: by itself (zero, error) or by SIGTERM.       *)
AllCodes == {"none", "zero", "error", "term"}
Places == {"idle", "loop", "over", "join", "plain", "poll", "kill", "callback", "join2", "killed"}
ProcRecords == [leader : BOOLEAN, child : BOOLEAN, obeys : BOOLEAN, childObeys : BOOLEAN, code : AllCodes]
PopenRecords ==
  [kind : {"none", "timed", "plain", "standing"}, returncode : AllCodes,
   waiter : {"none", "communicate", "wait", "waited", "done"}, result : AllCodes, raced : BOOLEAN]
MainRecords == [at : Places, cmd : Nat, late : BOOLEAN, raising : BOOLEAN]
AnswerValues == AllCodes \cup {"raised", "stopped"}

(* The processes, the Popen objects, the caller and its answers.           *)
CommandTypes ==
  /\ proc \in [Commands -> ProcRecords] /\ popen \in [Commands -> PopenRecords]
  /\ main \in MainRecords /\ answer \in [Commands -> AnswerValues]

(* What still runs ignores SIGTERM, or its shell ended by itself. *)
Stopped(p) == (p.leader => ~p.obeys) /\ (p.child => ~p.childObeys \/ p.code \in Codes)

(* A command's processes p, its Popen object q and the caller's answer a. *)
CommandInv(p, q, a) ==
  /\ q.kind = "none" => q = NoPopen /\ a = "none"
  /\ p.leader => p.code = "none"
  /\ q.kind # "none" /\ ~p.leader => p.code # "none"
  /\ q.returncode # "none" => ~p.leader /\ (q.raced \/ q.returncode = p.code)
  /\ q.waiter \in {"wait", "waited", "done"} => ~p.leader /\ ~p.child /\ q.kind # "none"
  /\ q.waiter = "waited" => q.returncode # "none"
  /\ q.waiter = "done" => q.raced \/ q.result = p.code
  /\ q.kind = "timed" /\ a \notin {"none", "raised"} => q.waiter = "done" /\ a = q.result
  /\ q.kind = "standing" /\ a = "none" => p.code # "term"
  /\ q.kind # "plain" /\ a \in {"raised", "stopped"} => Stopped(p)

(* Where the caller is in the call of a command with processes p and kind  *)
(* k: until it kills, SIGTERM has ended no shell, and after that what runs *)
(* ignores it.                                                             *)
CallerInv(at, p, k) ==
  /\ at \in {"join", "poll", "kill"} => k = "timed" /\ p.code # "term"
  /\ at = "callback" => k = "timed" /\ Stopped(p)
  /\ at = "join2" => k = "timed"
  /\ at = "plain" => k = "plain"

CommandsInv == \A c \in Commands : CommandInv(proc[c], popen[c], answer[c])
InCall == {"join", "poll", "kill", "callback", "join2", "plain"}
(* The caller is in the call of a command there is.                        *)
MainInv ==
  /\ main.at \in InCall => main.cmd \in Commands
  /\ \A c \in Commands : main.cmd = c => CallerInv(main.at, proc[c], popen[c].kind)

(* The inductive invariant behind CommandsEndWithTheirCalls.               *)
CommandsIInv == CommandTypes /\ CommandsInv /\ MainInv
-----------------------------------------------------------------------------
LEMMA NotInCall ==
  ASSUME NEW at, at \notin InCall, NEW p, NEW k
  PROVE  CallerInv(at, p, k)
BY DEF InCall, CallerInv

(* A step that changes one command leaves the invariant to that command.   *)
LEMMA OneCommand ==
  ASSUME CommandsIInv, NEW c \in Commands, NEW p \in ProcRecords, NEW q \in PopenRecords, NEW a \in AnswerValues,
         NEW m \in MainRecords,
         proc' = [proc EXCEPT ![c] = p], popen' = [popen EXCEPT ![c] = q], answer' = [answer EXCEPT ![c] = a], main' = m,
         CommandInv(p, q, a),
         m.cmd = c => CallerInv(m.at, p, q.kind),
         m.cmd # c => m.at \notin InCall \/ (m.at = main.at /\ m.cmd = main.cmd)
  PROVE  CommandsIInv'
<1>1. CommandTypes'
  BY DEF CommandsIInv, CommandTypes
<1>2. /\ proc'[c] = p /\ popen'[c] = q /\ answer'[c] = a
      /\ \A d \in Commands : d # c => proc'[d] = proc[d] /\ popen'[d] = popen[d] /\ answer'[d] = answer[d]
  BY Zenon DEF CommandsIInv, CommandTypes
<1>3. CommandsInv'
  <2> SUFFICES ASSUME NEW d \in Commands PROVE CommandInv(proc'[d], popen'[d], answer'[d])
    BY Zenon DEF CommandsInv
  <2>1. CASE d = c
    BY <1>2, <2>1, Zenon
  <2>2. CASE d # c
    BY <1>2, <2>2, Zenon DEF CommandsIInv, CommandsInv
  <2> QED
    BY <2>1, <2>2
<1>4. MainInv'
  <2>1. m.at \in InCall => m.cmd \in Commands
    BY Zenon DEF CommandsIInv, MainInv
  <2>2. ASSUME NEW d \in Commands, m.cmd = d
        PROVE  CallerInv(m.at, proc'[d], popen'[d].kind)
    <3>1. CASE d = c
      BY <1>2, <2>2, <3>1, Zenon
    <3>2. CASE d # c
      <4>1. proc'[d] = proc[d] /\ popen'[d] = popen[d]
        BY <1>2, <3>2, Zenon
      <4>2. CASE m.at \notin InCall
        BY <4>2, NotInCall, Zenon
      <4>3. CASE m.at = main.at /\ m.cmd = main.cmd
        BY <2>2, <4>1, <4>3, Zenon DEF CommandsIInv, MainInv
      <4> QED
        BY <2>2, <3>2, <4>2, <4>3, Zenon
    <3> QED
      BY <3>1, <3>2
  <2> QED
    BY <2>1, <2>2, Zenon DEF MainInv
<1> QED
  BY <1>1, <1>3, <1>4, Zenon DEF CommandsIInv

(* A command, its Popen object and its answer satisfy their invariant.     *)
LEMMA CommandFacts ==
  ASSUME CommandsIInv, NEW c \in Commands
  PROVE  /\ proc[c] \in ProcRecords /\ popen[c] \in PopenRecords /\ answer[c] \in AnswerValues
         /\ main \in MainRecords /\ CommandInv(proc[c], popen[c], answer[c])
         /\ main.cmd = c => CallerInv(main.at, proc[c], popen[c].kind)
         /\ proc = [proc EXCEPT ![c] = proc[c]] /\ popen = [popen EXCEPT ![c] = popen[c]]
         /\ answer = [answer EXCEPT ![c] = answer[c]]
BY DEF CommandsIInv, CommandTypes, CommandsInv, MainInv

(* The shell of a command ends by itself.                                  *)
LEMMA LeaderExitsStep ==
  ASSUME CommandsIInv, NEW c \in Commands, LeaderExits(c)
  PROVE  CommandsIInv'
<1> PICK p, q, a, m : p = proc[c] /\ q = popen[c] /\ a = answer[c] /\ m = main
  OBVIOUS
<1>1. PICK k \in Codes : proc' = [proc EXCEPT ![c].leader = FALSE, ![c].code = k]
  BY Zenon DEF LeaderExits
<1> PICK r : r = [p EXCEPT !.leader = FALSE, !.code = k]
  OBVIOUS
<1>2. p \in ProcRecords /\ p.leader /\ k \in AllCodes /\ k # "term" /\ k # "none"
  BY <1>1, CommandFacts DEF LeaderExits, Codes, AllCodes
<1>3. r \in ProcRecords /\ ~r.leader /\ r.code = k /\ r.child = p.child /\ r.obeys = p.obeys /\ r.childObeys = p.childObeys
  BY <1>2 DEF ProcRecords
<1>4. proc' = [proc EXCEPT ![c] = r]
  BY <1>1
<1>5. CommandInv(r, q, a)
  BY <1>1, <1>2, <1>3, CommandFacts DEF CommandInv, Stopped
<1>6. m.cmd = c => CallerInv(m.at, r, q.kind)
  BY <1>1, <1>2, <1>3, CommandFacts DEF CallerInv, Stopped
<1>7. /\ popen' = [popen EXCEPT ![c] = q] /\ answer' = [answer EXCEPT ![c] = a] /\ main' = m
  BY CommandFacts, Zenon DEF LeaderExits
<1> QED
  BY <1>3, <1>4, <1>5, <1>6, <1>7, CommandFacts, OneCommand, ZenonT(40)

(* What the shell started ends by itself.                                  *)
LEMMA ChildExitsStep ==
  ASSUME CommandsIInv, NEW c \in Commands, ChildExits(c)
  PROVE  CommandsIInv'
<1> PICK p, q, a, m : p = proc[c] /\ q = popen[c] /\ a = answer[c] /\ m = main
  OBVIOUS
<1>0. /\ p \in ProcRecords /\ q \in PopenRecords /\ a \in AnswerValues /\ m \in MainRecords
      /\ CommandInv(p, q, a) /\ (m.cmd = c => CallerInv(m.at, p, q.kind))
  BY CommandFacts, Zenon
<1> PICK r : r = [p EXCEPT !.child = FALSE]
  OBVIOUS
<1>1. proc' = [proc EXCEPT ![c].child = FALSE] /\ p.child
  BY Zenon DEF ChildExits
<1>2. r \in ProcRecords /\ ~r.child /\ r.code = p.code /\ r.leader = p.leader /\ r.obeys = p.obeys
  BY <1>0 DEF ProcRecords
<1>3. proc' = [proc EXCEPT ![c] = r]
  BY <1>1
<1>4. CommandInv(r, q, a)
  BY <1>0, <1>1, <1>2 DEF CommandInv, Stopped
<1>5. m.cmd = c => CallerInv(m.at, r, q.kind)
  BY <1>0, <1>2 DEF CallerInv, Stopped
<1>6. /\ popen' = [popen EXCEPT ![c] = q] /\ answer' = [answer EXCEPT ![c] = a] /\ main' = m
  BY CommandFacts, Zenon DEF ChildExits
<1> QED
  BY <1>0, <1>2, <1>3, <1>4, <1>5, <1>6, OneCommand, Zenon

(* communicate returns in the thread that waits.                           *)
LEMMA CommunicatesStep ==
  ASSUME CommandsIInv, NEW c \in Commands, Communicates(c)
  PROVE  CommandsIInv'
<1> PICK p, q, a, m : p = proc[c] /\ q = popen[c] /\ a = answer[c] /\ m = main
  OBVIOUS
<1>0. /\ p \in ProcRecords /\ q \in PopenRecords /\ a \in AnswerValues /\ m \in MainRecords
      /\ CommandInv(p, q, a) /\ (m.cmd = c => CallerInv(m.at, p, q.kind))
  BY CommandFacts, Zenon
<1> PICK r : r = [q EXCEPT !.waiter = IF q.returncode = "none" THEN "wait" ELSE "waited"]
  OBVIOUS
<1>1. q.waiter = "communicate" /\ ~p.leader /\ ~p.child
  BY Zenon DEF Communicates
<1>2. popen' = [popen EXCEPT ![c] = r]
  BY <1>0, CommandFacts DEF Communicates
<1>3. /\ r \in PopenRecords /\ r.kind = q.kind
      /\ r.waiter = (IF q.returncode = "none" THEN "wait" ELSE "waited") /\ r.returncode = q.returncode /\ r.result = q.result /\ r.raced = q.raced
  BY <1>0 DEF PopenRecords, ProcRecords, AllCodes
<1>4. CommandInv(p, r, a)
  BY <1>0, <1>1, <1>3 DEF CommandInv, NoPopen
<1>5. m.cmd = c => CallerInv(m.at, p, r.kind)
  BY <1>0, <1>3, Zenon
<1>6. /\ proc' = [proc EXCEPT ![c] = p] /\ answer' = [answer EXCEPT ![c] = a] /\ main' = m
  BY CommandFacts, Zenon DEF Communicates
<1> QED
  BY <1>0, <1>2, <1>3, <1>4, <1>5, <1>6, OneCommand, Zenon

(* WaitForProcess notes the result.                                        *)
LEMMA AppendsStep ==
  ASSUME CommandsIInv, NEW c \in Commands, Appends(c)
  PROVE  CommandsIInv'
<1> PICK p, q, a, m : p = proc[c] /\ q = popen[c] /\ a = answer[c] /\ m = main
  OBVIOUS
<1>0. /\ p \in ProcRecords /\ q \in PopenRecords /\ a \in AnswerValues /\ m \in MainRecords
      /\ CommandInv(p, q, a) /\ (m.cmd = c => CallerInv(m.at, p, q.kind))
  BY CommandFacts, Zenon
<1> PICK r : r = [q EXCEPT !.waiter = "done", !.result = q.returncode]
  OBVIOUS
<1>1. q.waiter = "waited"
  BY Zenon DEF Appends
<1>2. popen' = [popen EXCEPT ![c] = r]
  BY <1>0, CommandFacts DEF Appends
<1>3. /\ r \in PopenRecords /\ r.kind = q.kind
      /\ r.waiter = "done" /\ r.returncode = q.returncode /\ r.result = q.returncode /\ r.raced = q.raced
  BY <1>0, ZenonT(40) DEF PopenRecords, ProcRecords, AllCodes
<1>4. CommandInv(p, r, a)
  BY <1>0, <1>1, <1>3 DEF CommandInv, NoPopen
<1>5. m.cmd = c => CallerInv(m.at, p, r.kind)
  BY <1>0, <1>3, Zenon
<1>6. /\ proc' = [proc EXCEPT ![c] = p] /\ answer' = [answer EXCEPT ![c] = a] /\ main' = m
  BY CommandFacts, Zenon DEF Appends
<1> QED
  BY <1>0, <1>2, <1>3, <1>4, <1>5, <1>6, OneCommand, Zenon

(* wait returns; it may race with poll for the status.                     *)
LEMMA WaitsStep ==
  ASSUME CommandsIInv, NEW c \in Commands, Waits(c)
  PROVE  CommandsIInv'
<1> PICK p, q, a, m : p = proc[c] /\ q = popen[c] /\ a = answer[c] /\ m = main
  OBVIOUS
<1>0. /\ p \in ProcRecords /\ q \in PopenRecords /\ a \in AnswerValues /\ m \in MainRecords
      /\ CommandInv(p, q, a) /\ (m.cmd = c => CallerInv(m.at, p, q.kind))
  BY CommandFacts, Zenon
<1> PICK b : b = (q.raced \/ q.returncode # "none")
  OBVIOUS
<1> PICK rc : rc = IF q.returncode = "none" THEN p.code ELSE "zero"
  OBVIOUS
<1>a. b \in BOOLEAN /\ (~b => ~q.raced /\ q.returncode = "none")
  BY Zenon
<1>b. rc \in AllCodes /\ (q.returncode = "none" => rc = p.code) /\ (q.returncode # "none" => rc = "zero")
  BY <1>0 DEF ProcRecords, AllCodes
<1> PICK r : r = [q EXCEPT !.waiter = "waited", !.raced = b, !.returncode = rc]
  OBVIOUS
<1>1. q.waiter = "wait"
  BY Zenon DEF Waits
<1>2. popen' = [popen EXCEPT ![c] = r]
  <2>1. popen' = [popen EXCEPT ![c].waiter = "waited", ![c].raced = @ \/ q.returncode # "none",
                               ![c].returncode = IF @ = "none" THEN p.code ELSE "zero"]
    BY Zenon DEF Waits
  <2> PICK f : f = [popen EXCEPT ![c].waiter = "waited"]
    OBVIOUS
  <2>2. f[c].raced = q.raced /\ f[c].returncode = q.returncode
    BY <1>0 DEF CommandsIInv, CommandTypes, PopenRecords
  <2>3. popen' = [f EXCEPT ![c].raced = b, ![c].returncode = rc]
    <3> PICK g : g = [f EXCEPT ![c].raced = f[c].raced \/ q.returncode # "none"]
      OBVIOUS
    <3>1. g = [f EXCEPT ![c].raced = b]
      BY <2>2, Zenon
    <3>2. g[c].returncode = q.returncode
      BY <2>2, <3>1 DEF CommandsIInv, CommandTypes, PopenRecords
    <3>3. popen' = [g EXCEPT ![c].returncode = IF g[c].returncode = "none" THEN p.code ELSE "zero"]
      BY <2>1, Zenon
    <3> QED
      BY <3>1, <3>2, <3>3, Zenon
  <2> QED
    BY <2>3 DEF CommandsIInv, CommandTypes, PopenRecords
<1>3. /\ r \in PopenRecords /\ r.kind = q.kind
      /\ r.waiter = "waited" /\ r.returncode = rc /\ r.result = q.result /\ r.raced = b
  BY <1>0, <1>a, <1>b DEF PopenRecords
<1>4. CommandInv(p, r, a)
  BY <1>0, <1>1, <1>3, <1>a, <1>b DEF CommandInv, NoPopen
<1>5. m.cmd = c => CallerInv(m.at, p, r.kind)
  BY <1>0, <1>3, Zenon
<1>6. /\ proc' = [proc EXCEPT ![c] = p] /\ answer' = [answer EXCEPT ![c] = a] /\ main' = m
  BY CommandFacts, Zenon DEF Waits
<1> QED
  BY <1>0, <1>2, <1>3, <1>4, <1>5, <1>6, OneCommand, Zenon

LEMMA NatCommands == \A c \in Commands : c \in Nat
BY DEF Commands

(* A command with a timeout is started.                                    *)
LEMMA TimedStep ==
  ASSUME CommandsIInv, NEW c \in Commands, _ExecuteOneShellCommandWithTimeout(c)
  PROVE  CommandsIInv'
<1> PICK p, q, a, m : p = proc[c] /\ q = popen[c] /\ a = answer[c] /\ m = main
  OBVIOUS
<1>0. /\ p \in ProcRecords /\ q \in PopenRecords /\ a \in AnswerValues /\ m \in MainRecords
      /\ CommandInv(p, q, a) /\ (m.cmd = c => CallerInv(m.at, p, q.kind))
  BY CommandFacts, Zenon
<1>1. Started(c, "timed")
  BY Zenon DEF _ExecuteOneShellCommandWithTimeout
<1>2. PICK o, co, ch \in BOOLEAN :
        proc' = [proc EXCEPT ![c] = [leader |-> TRUE, child |-> ch, obeys |-> o, childObeys |-> co, code |-> "none"]]
  BY <1>1, Zenon DEF Started
<1> PICK p2 : p2 = [leader |-> TRUE, child |-> ch, obeys |-> o, childObeys |-> co, code |-> "none"]
  OBVIOUS
<1> PICK r : r = [q EXCEPT !.kind = "timed", !.waiter = "communicate"]
  OBVIOUS
<1> PICK n : n = [Where("join") EXCEPT !.cmd = c]
  OBVIOUS
<1>3. /\ proc' = [proc EXCEPT ![c] = p2] /\ popen' = [popen EXCEPT ![c] = r] /\ answer' = [answer EXCEPT ![c] = a]
      /\ main' = n /\ q.kind = "none"
  <2>1. proc' = [proc EXCEPT ![c] = p2] /\ q.kind = "none" /\ main' = n
    BY <1>1, <1>2, Zenon DEF Started, _ExecuteOneShellCommandWithTimeout
  <2>2. popen' = [popen EXCEPT ![c].kind = "timed", ![c].waiter = "communicate"]
    BY <1>1 DEF Started
  <2>3. popen' = [popen EXCEPT ![c] = r]
    BY <2>2 DEF CommandsIInv, CommandTypes
  <2>4. answer' = [answer EXCEPT ![c] = a]
    BY <1>1, CommandFacts, Zenon DEF Started
  <2> QED
    BY <2>1, <2>3, <2>4, Zenon
<1>4. p2 \in ProcRecords /\ p2.leader /\ p2.code = "none"
  BY DEF ProcRecords, AllCodes
<1>5. n \in MainRecords /\ n.at = "join" /\ n.cmd = c
  BY NatCommands DEF MainRecords, Where, Places
<1>6. /\ r \in PopenRecords /\ r.kind = "timed" /\ r.waiter = "communicate"
      /\ r.returncode = "none" /\ a = "none"
  <2>1. q = NoPopen /\ a = "none"
    BY <1>0, <1>3 DEF CommandInv
  <2>2. q.returncode = "none"
    BY <2>1 DEF NoPopen
  <2> QED
    BY <1>0, <2>1, <2>2 DEF PopenRecords
<1>7. CommandInv(p2, r, a)
  BY <1>4, <1>6 DEF CommandInv
<1>8. CallerInv(n.at, p2, r.kind)
  BY <1>4, <1>5, <1>6 DEF CallerInv
<1>9. n.cmd # c => n.at \notin InCall
  BY <1>5 DEF InCall
<1> QED
  BY <1>0, <1>3, <1>4, <1>5, <1>6, <1>7, <1>8, <1>9, OneCommand, Zenon

(* A command without one is started.                                       *)
LEMMA PlainStep ==
  ASSUME CommandsIInv, NEW c \in Commands, ExecuteOneShellCommand(c)
  PROVE  CommandsIInv'
<1> PICK p, q, a, m : p = proc[c] /\ q = popen[c] /\ a = answer[c] /\ m = main
  OBVIOUS
<1>0. /\ p \in ProcRecords /\ q \in PopenRecords /\ a \in AnswerValues /\ m \in MainRecords
      /\ CommandInv(p, q, a) /\ (m.cmd = c => CallerInv(m.at, p, q.kind))
  BY CommandFacts, Zenon
<1>1. Started(c, "plain")
  BY Zenon DEF ExecuteOneShellCommand
<1>2. PICK o, co, ch \in BOOLEAN :
        proc' = [proc EXCEPT ![c] = [leader |-> TRUE, child |-> ch, obeys |-> o, childObeys |-> co, code |-> "none"]]
  BY <1>1, Zenon DEF Started
<1> PICK p2 : p2 = [leader |-> TRUE, child |-> ch, obeys |-> o, childObeys |-> co, code |-> "none"]
  OBVIOUS
<1> PICK r : r = [q EXCEPT !.kind = "plain", !.waiter = "communicate"]
  OBVIOUS
<1> PICK n : n = [Where("plain") EXCEPT !.cmd = c]
  OBVIOUS
<1>3. /\ proc' = [proc EXCEPT ![c] = p2] /\ popen' = [popen EXCEPT ![c] = r] /\ answer' = [answer EXCEPT ![c] = a]
      /\ main' = n /\ q.kind = "none"
  <2>1. proc' = [proc EXCEPT ![c] = p2] /\ q.kind = "none" /\ main' = n
    BY <1>1, <1>2, Zenon DEF Started, ExecuteOneShellCommand
  <2>2. popen' = [popen EXCEPT ![c].kind = "plain", ![c].waiter = "communicate"]
    BY <1>1 DEF Started
  <2>3. popen' = [popen EXCEPT ![c] = r]
    BY <2>2 DEF CommandsIInv, CommandTypes
  <2>4. answer' = [answer EXCEPT ![c] = a]
    BY <1>1, CommandFacts, Zenon DEF Started
  <2> QED
    BY <2>1, <2>3, <2>4, Zenon
<1>4. p2 \in ProcRecords /\ p2.leader /\ p2.code = "none"
  BY DEF ProcRecords, AllCodes
<1>5. n \in MainRecords /\ n.at = "plain" /\ n.cmd = c
  BY NatCommands DEF MainRecords, Where, Places
<1>6. /\ r \in PopenRecords /\ r.kind = "plain" /\ r.waiter = "communicate"
      /\ r.returncode = "none" /\ a = "none"
  <2>1. q = NoPopen /\ a = "none"
    BY <1>0, <1>3 DEF CommandInv
  <2>2. q.returncode = "none"
    BY <2>1 DEF NoPopen
  <2> QED
    BY <1>0, <2>1, <2>2 DEF PopenRecords
<1>7. CommandInv(p2, r, a)
  BY <1>4, <1>6 DEF CommandInv
<1>8. CallerInv(n.at, p2, r.kind)
  BY <1>4, <1>5, <1>6 DEF CallerInv
<1>9. n.cmd # c => n.at \notin InCall
  BY <1>5 DEF InCall
<1> QED
  BY <1>0, <1>3, <1>4, <1>5, <1>6, <1>7, <1>8, <1>9, OneCommand, Zenon

(* start_standing_subprocess.                                              *)
LEMMA StandingStep ==
  ASSUME CommandsIInv, NEW c \in Commands, start_standing_subprocess(c)
  PROVE  CommandsIInv'
<1> PICK p, q, a, m : p = proc[c] /\ q = popen[c] /\ a = answer[c] /\ m = main
  OBVIOUS
<1>0. /\ p \in ProcRecords /\ q \in PopenRecords /\ a \in AnswerValues /\ m \in MainRecords
      /\ CommandInv(p, q, a) /\ (m.cmd = c => CallerInv(m.at, p, q.kind))
  BY CommandFacts, Zenon
<1>1. Started(c, "standing")
  BY Zenon DEF start_standing_subprocess
<1>2. PICK o, co, ch \in BOOLEAN :
        proc' = [proc EXCEPT ![c] = [leader |-> TRUE, child |-> ch, obeys |-> o, childObeys |-> co, code |-> "none"]]
  BY <1>1, Zenon DEF Started
<1> PICK p2 : p2 = [leader |-> TRUE, child |-> ch, obeys |-> o, childObeys |-> co, code |-> "none"]
  OBVIOUS
<1> PICK r : r = [q EXCEPT !.kind = "standing", !.waiter = "none"]
  OBVIOUS
<1> PICK n : n = m
  OBVIOUS
<1>3. /\ proc' = [proc EXCEPT ![c] = p2] /\ popen' = [popen EXCEPT ![c] = r] /\ answer' = [answer EXCEPT ![c] = a]
      /\ main' = n /\ q.kind = "none"
  <2>1. proc' = [proc EXCEPT ![c] = p2] /\ q.kind = "none" /\ main' = n
    BY <1>1, <1>2, Zenon DEF Started, start_standing_subprocess
  <2>2. popen' = [popen EXCEPT ![c].kind = "standing", ![c].waiter = "none"]
    BY <1>1 DEF Started
  <2>3. popen' = [popen EXCEPT ![c] = r]
    BY <2>2 DEF CommandsIInv, CommandTypes
  <2>4. answer' = [answer EXCEPT ![c] = a]
    BY <1>1, CommandFacts, Zenon DEF Started
  <2> QED
    BY <2>1, <2>3, <2>4, Zenon
<1>4. p2 \in ProcRecords /\ p2.leader /\ p2.code = "none"
  BY DEF ProcRecords, AllCodes
<1>5. n \in MainRecords /\ n.at = "loop"
  BY <1>0 DEF start_standing_subprocess, Started
<1>6. /\ r \in PopenRecords /\ r.kind = "standing" /\ r.waiter = "none"
      /\ r.returncode = "none" /\ a = "none"
  <2>1. q = NoPopen /\ a = "none"
    BY <1>0, <1>3 DEF CommandInv
  <2>2. q.returncode = "none"
    BY <2>1 DEF NoPopen
  <2> QED
    BY <1>0, <2>1, <2>2 DEF PopenRecords
<1>7. CommandInv(p2, r, a)
  BY <1>4, <1>6 DEF CommandInv
<1>8. CallerInv(n.at, p2, r.kind)
  BY <1>4, <1>5, <1>6 DEF CallerInv
<1>9. n.cmd # c => n.at \notin InCall
  BY <1>5 DEF InCall
<1> QED
  BY <1>0, <1>3, <1>4, <1>5, <1>6, <1>7, <1>8, <1>9, OneCommand, Zenon

(* What kill_process_group leaves ignores SIGTERM.                         *)
LEMMA KillFacts ==
  ASSUME NEW p \in ProcRecords, NEW k, k = kill_process_group(p)
  PROVE  /\ k \in ProcRecords /\ Stopped(k)
         /\ (k.leader => p.leader) /\ (~p.leader => k.code = p.code) /\ (k.leader => k.code = p.code)
         /\ (k.child => p.child) /\ (p.leader /\ ~k.leader => k.code = "term")
<1> PICK l, d : l = (p.leader /\ ~p.obeys) /\ d = (p.child /\ ~p.childObeys)
  OBVIOUS
<1> PICK x : x = IF p.leader /\ p.obeys THEN "term" ELSE p.code
  OBVIOUS
<1>1. l \in BOOLEAN /\ d \in BOOLEAN
  BY Zenon
<1>2. /\ x \in AllCodes /\ (l => p.leader /\ ~p.obeys) /\ (d => p.child /\ ~p.childObeys)
      /\ (~p.leader => x = p.code) /\ (l => x = p.code) /\ (p.leader /\ ~l => x = "term")
  <2>1. p.code \in AllCodes /\ "term" \in AllCodes
    BY DEF ProcRecords, AllCodes
  <2> QED
    BY <2>1, Zenon
<1>3. k = [p EXCEPT !.leader = l, !.code = x, !.child = d]
  <2> PICK f : f = [p EXCEPT !.leader = p.leader /\ ~p.obeys]
    OBVIOUS
  <2>1. f = [p EXCEPT !.leader = l]
    BY Zenon
  <2>2. f.code = p.code /\ f.child = p.child
    BY <2>1 DEF ProcRecords
  <2> PICK g : g = [f EXCEPT !.code = IF p.leader /\ p.obeys THEN "term" ELSE f.code]
    OBVIOUS
  <2>3. g = [f EXCEPT !.code = x]
    BY <2>2, Zenon
  <2>4. g.child = p.child
    BY <2>1, <2>2, <2>3 DEF ProcRecords
  <2>5. k = [g EXCEPT !.child = g.child /\ ~p.childObeys]
    BY Zenon DEF kill_process_group
  <2>6. k = [g EXCEPT !.child = d]
    BY <2>4, <2>5, Zenon
  <2> QED
    BY <2>1, <2>3, <2>6, Zenon
<1>4. /\ k \in ProcRecords /\ k.leader = l /\ k.code = x /\ k.child = d
      /\ k.obeys = p.obeys /\ k.childObeys = p.childObeys
  BY <1>1, <1>2, <1>3 DEF ProcRecords
<1> QED
  BY <1>2, <1>4, Zenon DEF Stopped

(* poll sets the returncode of a shell that ended.                         *)
LEMMA PollFacts ==
  ASSUME CommandsIInv, NEW c \in Commands, popen[c].kind # "none", NEW r, r = poll(c)[c]
  PROVE  /\ poll(c) = [popen EXCEPT ![c] = r] /\ r \in PopenRecords /\ Polled(c) = r.returncode
         /\ r.kind = popen[c].kind /\ CommandInv(proc[c], r, answer[c])
         /\ r.returncode # "none" => ~proc[c].leader /\ proc[c].code # "none"
         /\ r.returncode = "none" => proc[c].leader
<1> PICK p, q, a : p = proc[c] /\ q = popen[c] /\ a = answer[c]
  OBVIOUS
<1>0. /\ p \in ProcRecords /\ q \in PopenRecords /\ a \in AnswerValues /\ CommandInv(p, q, a) /\ q.kind # "none"
      /\ popen = [popen EXCEPT ![c] = q]
  BY CommandFacts, Zenon
<1>1. Polled(c) = r.returncode
  BY Zenon DEF Polled
<1>2. CASE q.returncode = "none" /\ ~p.leader
  <2>1. poll(c) = [popen EXCEPT ![c].returncode = p.code]
    BY <1>2, Zenon DEF poll
  <2>2. poll(c) = [popen EXCEPT ![c] = r] /\ r = [q EXCEPT !.returncode = p.code]
    BY <2>1 DEF CommandsIInv, CommandTypes
  <2>3. /\ r \in PopenRecords /\ r.kind = q.kind /\ r.returncode = p.code /\ r.waiter = q.waiter
        /\ r.result = q.result /\ r.raced = q.raced
    BY <1>0, <2>2, SMTT(40) DEF PopenRecords, ProcRecords
  <2>4. CommandInv(p, r, a) /\ r.returncode # "none" /\ p.code # "none"
    BY <1>0, <1>2, <2>3 DEF CommandInv
  <2> QED
    BY <1>1, <1>2, <2>2, <2>3, <2>4, Zenon
<1>3. CASE ~(q.returncode = "none" /\ ~p.leader)
  <2>1. poll(c) = popen
    BY <1>3, Zenon DEF poll
  <2>2. r = q
    BY <2>1, Zenon
  <2>3. r.returncode # "none" => ~p.leader /\ p.code # "none"
    BY <1>0, <2>2 DEF CommandInv
  <2> QED
    BY <1>0, <1>1, <1>3, <2>1, <2>2, <2>3, Zenon
<1> QED
  BY <1>2, <1>3

(* The join with a timeout returns, in time or late.                       *)
LEMMA JoinsStep ==
  ASSUME CommandsIInv, NEW c \in Commands, Joins(c)
  PROVE  CommandsIInv'
<1> PICK p, q, a, m : p = proc[c] /\ q = popen[c] /\ a = answer[c] /\ m = main
  OBVIOUS
<1>0. /\ p \in ProcRecords /\ q \in PopenRecords /\ a \in AnswerValues /\ m \in MainRecords
      /\ CommandInv(p, q, a) /\ (m.cmd = c => CallerInv(m.at, p, q.kind))
  BY CommandFacts, Zenon
<1>1. PICK late \in BOOLEAN : main' = [main EXCEPT !.at = "poll", !.late = late]
  BY Zenon DEF Joins
<1> PICK n : n = [m EXCEPT !.at = "poll", !.late = late]
  OBVIOUS
<1>2. main' = n /\ m.at = "join" /\ m.cmd = c
  BY <1>1, Zenon DEF Joins
<1>3. n \in MainRecords /\ n.at = "poll" /\ n.cmd = c
  BY <1>0, <1>2 DEF MainRecords, Places
<1>4. CallerInv(n.at, p, q.kind)
  BY <1>0, <1>2, <1>3 DEF CallerInv
<1>5. /\ proc' = [proc EXCEPT ![c] = p] /\ popen' = [popen EXCEPT ![c] = q] /\ answer' = [answer EXCEPT ![c] = a]
  BY CommandFacts, Zenon DEF Joins
<1> QED
  BY <1>0, <1>2, <1>3, <1>4, <1>5, OneCommand, ZenonT(40)

(* The late caller polls.                                                  *)
LEMMA PollsStep ==
  ASSUME CommandsIInv, NEW c \in Commands, Polls(c)
  PROVE  CommandsIInv'
<1> PICK p, q, a, m : p = proc[c] /\ q = popen[c] /\ a = answer[c] /\ m = main
  OBVIOUS
<1>0. /\ p \in ProcRecords /\ q \in PopenRecords /\ a \in AnswerValues /\ m \in MainRecords
      /\ CommandInv(p, q, a) /\ (m.cmd = c => CallerInv(m.at, p, q.kind))
  BY CommandFacts, Zenon
<1> PICK r : r = poll(c)[c]
  OBVIOUS
<1> PICK x : x = IF Polled(c) = "none" THEN "kill" ELSE "callback"
  OBVIOUS
<1> PICK n : n = [m EXCEPT !.at = x]
  OBVIOUS
<1>1. main' = n /\ m.at = "poll" /\ m.cmd = c /\ popen' = poll(c)
  BY Zenon DEF Polls
<1>2. q.kind = "timed" /\ p.code # "term"
  BY <1>0, <1>1 DEF CallerInv
<1>3. /\ popen' = [popen EXCEPT ![c] = r] /\ r \in PopenRecords /\ Polled(c) = r.returncode
      /\ r.kind = q.kind /\ CommandInv(p, r, a)
      /\ r.returncode # "none" => ~p.leader /\ p.code # "none"
  <2>1. popen[c].kind # "none"
    BY <1>2
  <2> QED
    BY <1>1, <2>1, PollFacts, ZenonT(40)
<1>4. n \in MainRecords /\ n.at = x /\ n.cmd = c /\ x \in {"kill", "callback"}
      /\ (x = "callback" => r.returncode # "none")
  BY <1>0, <1>1, <1>3 DEF MainRecords, Places
<1>5. CallerInv(n.at, p, r.kind)
  BY <1>0, <1>2, <1>3, <1>4 DEF CallerInv, Stopped, ProcRecords, AllCodes, Codes
<1>6. /\ proc' = [proc EXCEPT ![c] = p] /\ answer' = [answer EXCEPT ![c] = a]
  BY CommandFacts, Zenon DEF Polls
<1> QED
  BY <1>0, <1>1, <1>3, <1>4, <1>5, <1>6, OneCommand, ZenonT(40)

(* The caller signals the process group.                                   *)
LEMMA KillsStep ==
  ASSUME CommandsIInv, NEW c \in Commands, Kills(c)
  PROVE  CommandsIInv'
<1> PICK p, q, a, m : p = proc[c] /\ q = popen[c] /\ a = answer[c] /\ m = main
  OBVIOUS
<1>0. /\ p \in ProcRecords /\ q \in PopenRecords /\ a \in AnswerValues /\ m \in MainRecords
      /\ CommandInv(p, q, a) /\ (m.cmd = c => CallerInv(m.at, p, q.kind))
  BY CommandFacts, Zenon
<1> PICK k : k = kill_process_group(p)
  OBVIOUS
<1> PICK n : n = [m EXCEPT !.at = "callback"]
  OBVIOUS
<1>1. main' = n /\ m.at = "kill" /\ m.cmd = c /\ proc' = [proc EXCEPT ![c] = k]
  BY Zenon DEF Kills
<1>2. q.kind = "timed"
  BY <1>0, <1>1 DEF CallerInv
<1>3. /\ k \in ProcRecords /\ Stopped(k)
      /\ (k.leader => p.leader) /\ (~p.leader => k.code = p.code) /\ (k.leader => k.code = p.code)
      /\ (k.child => p.child) /\ (p.leader /\ ~k.leader => k.code = "term")
  BY <1>0, KillFacts, Zenon
<1>4. n \in MainRecords /\ n.at = "callback" /\ n.cmd = c
  BY <1>0, <1>1 DEF MainRecords, Places
<1>5. CommandInv(k, q, a)
  BY <1>0, <1>2, <1>3 DEF CommandInv
<1>6. CallerInv(n.at, k, q.kind)
  BY <1>2, <1>3, <1>4 DEF CallerInv
<1>7. /\ popen' = [popen EXCEPT ![c] = q] /\ answer' = [answer EXCEPT ![c] = a]
  BY CommandFacts, Zenon DEF Kills
<1> QED
  BY <1>0, <1>1, <1>3, <1>4, <1>5, <1>6, <1>7, OneCommand, Zenon

LEMMA PlaceFacts ==
  ASSUME NEW at \in Places
  PROVE  Where(at) \in MainRecords /\ Where(at).at = at
BY DEF Where, MainRecords, Places

(* The callback of the timeout, and the end of a call that raises.         *)
LEMMA CallsBackStep ==
  ASSUME CommandsIInv, NEW c \in Commands, CallsBack(c)
  PROVE  CommandsIInv'
<1> PICK p, q, a, m : p = proc[c] /\ q = popen[c] /\ a = answer[c] /\ m = main
  OBVIOUS
<1>0. /\ p \in ProcRecords /\ q \in PopenRecords /\ a \in AnswerValues /\ m \in MainRecords
      /\ CommandInv(p, q, a) /\ (m.cmd = c => CallerInv(m.at, p, q.kind))
  BY CommandFacts, Zenon
<1>1. m.at = "callback" /\ m.cmd = c
  BY Zenon DEF CallsBack
<1>2. q.kind = "timed" /\ Stopped(p)
  BY <1>0, <1>1 DEF CallerInv
<1>3. /\ proc' = [proc EXCEPT ![c] = p] /\ popen' = [popen EXCEPT ![c] = q]
  BY CommandFacts, Zenon DEF CallsBack
<1>4. CASE m.raising
  <2> PICK n, b : n = Where("loop") /\ b = "raised"
    OBVIOUS
  <2>1. main' = n /\ answer' = [answer EXCEPT ![c] = b]
    BY <1>4, Zenon DEF CallsBack
  <2>2. n \in MainRecords /\ n.at \notin InCall /\ b \in AnswerValues
    BY PlaceFacts, SMTT(40) DEF Places, InCall, AnswerValues
  <2>3. CommandInv(p, q, b)
    BY <1>0, <1>2 DEF CommandInv
  <2>4. CallerInv(n.at, p, q.kind)
    BY <2>2, NotInCall, Zenon
  <2>5. p \in ProcRecords /\ q \in PopenRecords
    BY <1>0, Zenon
  <2> QED
    BY <1>3, <2>1, <2>2, <2>3, <2>4, <2>5, OneCommand, Zenon
<1>5. CASE ~m.raising
  <2> PICK n : n = [m EXCEPT !.at = "join2"]
    OBVIOUS
  <2>1. main' = n /\ answer' = [answer EXCEPT ![c] = a]
    BY <1>5, CommandFacts, Zenon DEF CallsBack
  <2>2. n \in MainRecords /\ n.at = "join2" /\ n.cmd = c
    BY <1>0, <1>1 DEF MainRecords, Places
  <2>3. CallerInv(n.at, p, q.kind)
    BY <1>2, <2>2 DEF CallerInv
  <2>4. p \in ProcRecords /\ q \in PopenRecords /\ a \in AnswerValues /\ CommandInv(p, q, a)
    BY <1>0, Zenon
  <2>5. n.cmd # c => n.at \notin InCall \/ (n.at = main.at /\ n.cmd = main.cmd)
    BY <2>2, Zenon
  <2>6. n \in MainRecords /\ (n.cmd = c => CallerInv(n.at, p, q.kind))
    BY <2>2, <2>3, Zenon
  <2> QED
    BY <1>3, <2>1, <2>4, <2>5, <2>6, OneCommand, ZenonT(40)
<1> QED
  BY <1>4, <1>5

(* The call returns the result.                                            *)
LEMMA ReturnsStep ==
  ASSUME CommandsIInv, NEW c \in Commands, Returns(c)
  PROVE  CommandsIInv'
<1> PICK p, q, a, m : p = proc[c] /\ q = popen[c] /\ a = answer[c] /\ m = main
  OBVIOUS
<1>0. /\ p \in ProcRecords /\ q \in PopenRecords /\ a \in AnswerValues /\ m \in MainRecords
      /\ CommandInv(p, q, a) /\ (m.cmd = c => CallerInv(m.at, p, q.kind))
  BY CommandFacts, Zenon
<1> PICK n, b : n = Where("loop") /\ b = q.result
  OBVIOUS
<1>1. /\ m.at \in {"join2", "plain"} /\ m.cmd = c /\ q.waiter = "done" /\ main' = n
      /\ answer' = [answer EXCEPT ![c] = b]
  BY Zenon DEF Returns
<1>2. q.kind \in {"timed", "plain"}
  BY <1>0, <1>1 DEF CallerInv
<1>3. n \in MainRecords /\ n.at \notin InCall
  BY PlaceFacts DEF Places, InCall
<1>4. b \in AllCodes /\ b \in AnswerValues
  BY <1>0, SMTT(40) DEF PopenRecords, AnswerValues
<1>5. CommandInv(p, q, b)
  BY <1>0, <1>1, <1>2, <1>4 DEF CommandInv, AllCodes
<1>6. /\ proc' = [proc EXCEPT ![c] = p] /\ popen' = [popen EXCEPT ![c] = q]
  BY CommandFacts, Zenon DEF Returns
<1>7. CallerInv(n.at, p, q.kind)
  BY <1>3, NotInCall, Zenon
<1> QED
  BY <1>0, <1>1, <1>3, <1>4, <1>5, <1>6, <1>7, OneCommand, Zenon

(* stop_standing_subprocess.                                               *)
LEMMA StopStep ==
  ASSUME CommandsIInv, NEW c \in Commands, stop_standing_subprocess(c)
  PROVE  CommandsIInv'
<1> PICK p, q, a, m : p = proc[c] /\ q = popen[c] /\ a = answer[c] /\ m = main
  OBVIOUS
<1>0. /\ p \in ProcRecords /\ q \in PopenRecords /\ a \in AnswerValues /\ m \in MainRecords
      /\ CommandInv(p, q, a) /\ (m.cmd = c => CallerInv(m.at, p, q.kind))
  BY CommandFacts, Zenon
<1> PICK r : r = poll(c)[c]
  OBVIOUS
<1>1. q.kind = "standing" /\ a = "none" /\ m.at = "loop" /\ main' = m /\ popen' = poll(c)
  BY Zenon DEF stop_standing_subprocess
<1>2. p.code # "term"
  BY <1>0, <1>1 DEF CommandInv
<1>3. /\ popen' = [popen EXCEPT ![c] = r] /\ r \in PopenRecords /\ Polled(c) = r.returncode
      /\ r.kind = q.kind /\ CommandInv(p, r, a)
      /\ r.returncode # "none" => ~p.leader /\ p.code # "none"
      /\ r.returncode = "none" => p.leader
  <2>1. popen[c].kind # "none"
    BY <1>1
  <2> QED
    BY <1>1, <2>1, PollFacts, Zenon
<1>4. CallerInv(m.at, p, r.kind) /\ m.at \notin InCall
  BY <1>1 DEF CallerInv, InCall
<1>5. "raised" \in AnswerValues /\ "stopped" \in AnswerValues
  BY DEF AnswerValues
<1>6. CASE r.returncode # "none"
  <2>1. answer' = [answer EXCEPT ![c] = "raised"] /\ proc' = [proc EXCEPT ![c] = p]
    BY <1>3, <1>6, CommandFacts, Zenon DEF stop_standing_subprocess
  <2>2. Stopped(p)
    BY <1>0, <1>2, <1>3, <1>6, SMTT(40) DEF Stopped, ProcRecords, AllCodes, Codes
  <2>3. CommandInv(p, r, "raised")
    BY <1>1, <1>3, <2>2 DEF CommandInv
  <2> QED
    BY <1>0, <1>1, <1>3, <1>4, <1>5, <2>1, <2>3, OneCommand, Zenon
<1>7. CASE r.returncode = "none"
  <2> PICK k : k = kill_process_group(p)
    OBVIOUS
  <2>1. answer' = [answer EXCEPT ![c] = "stopped"] /\ proc' = [proc EXCEPT ![c] = k]
    BY <1>3, <1>7, Zenon DEF stop_standing_subprocess
  <2>2. /\ k \in ProcRecords /\ Stopped(k)
        /\ (k.leader => p.leader) /\ (~p.leader => k.code = p.code) /\ (k.leader => k.code = p.code)
        /\ (k.child => p.child) /\ (p.leader /\ ~k.leader => k.code = "term")
    BY <1>0, KillFacts, ZenonT(40)
  <2>3. CommandInv(k, r, "stopped")
    BY <1>1, <1>3, <1>7, <2>2 DEF CommandInv
  <2>4. CallerInv(m.at, k, r.kind)
    BY <1>4, NotInCall, Zenon
  <2> QED
    BY <1>0, <1>1, <1>3, <1>4, <1>5, <2>1, <2>2, <2>3, <2>4, OneCommand, Zenon
<1> QED
  BY <1>6, <1>7

(* The caller leaves the call, or was in none: nothing else changes. *)
LEMMA CallerOutside ==
  ASSUME CommandsIInv, NEW at \in Places, at \notin InCall, main' = Where(at), UNCHANGED <<proc, popen, answer>>
  PROVE  CommandsIInv'
<1> PICK n : n = Where(at)
  OBVIOUS
<1>1. n \in MainRecords /\ n.at \notin InCall /\ main' = n
  BY PlaceFacts, Zenon
<1>2. CommandTypes' /\ CommandsInv'
  BY <1>1 DEF CommandsIInv, CommandTypes, CommandsInv
<1>3. MainInv'
  BY <1>1, NotInCall, Zenon DEF MainInv
<1> QED
  BY <1>2, <1>3, Zenon DEF CommandsIInv

(* The exception of a signal handler in the caller.                        *)
LEMMA RaisedStep ==
  ASSUME CommandsIInv, RaisedInCaller, UNCHANGED <<proc, popen>>
  PROVE  CommandsIInv'
<1> PICK m : m = main
  OBVIOUS
<1>1. CASE m.at = "join"
  <2>0. m.cmd \in Commands
    BY <1>1, Zenon DEF CommandsIInv, MainInv, InCall
  <2> PICK c \in Commands : c = m.cmd
    BY <2>0
  <2> PICK p, q, a : p = proc[c] /\ q = popen[c] /\ a = answer[c]
    OBVIOUS
  <2> PICK n : n = [m EXCEPT !.at = "poll", !.raising = TRUE]
    OBVIOUS
  <2>1. /\ p \in ProcRecords /\ q \in PopenRecords /\ a \in AnswerValues /\ m \in MainRecords
        /\ CommandInv(p, q, a) /\ CallerInv(m.at, p, q.kind)
    BY CommandFacts, Zenon
  <2>2. main' = n /\ UNCHANGED answer
    BY <1>1, Zenon DEF RaisedInCaller
  <2>3. n \in MainRecords /\ n.at = "poll" /\ n.cmd = c
    BY <2>1 DEF MainRecords, Places
  <2>4. CallerInv(n.at, p, q.kind)
    BY <1>1, <2>1, <2>3 DEF CallerInv
  <2>5. proc' = [proc EXCEPT ![c] = p] /\ popen' = [popen EXCEPT ![c] = q] /\ answer' = [answer EXCEPT ![c] = a]
    BY <2>2, CommandFacts, Zenon
  <2> QED
    BY <2>1, <2>2, <2>3, <2>4, <2>5, OneCommand, Zenon
<1>2. CASE m.at = "plain"
  <2>0. m.cmd \in Commands
    BY <1>2, Zenon DEF CommandsIInv, MainInv, InCall
  <2> PICK c \in Commands : c = m.cmd
    BY <2>0
  <2> PICK p, q, a : p = proc[c] /\ q = popen[c] /\ a = answer[c]
    OBVIOUS
  <2> PICK n : n = Where("loop")
    OBVIOUS
  <2>1. /\ p \in ProcRecords /\ q \in PopenRecords /\ a \in AnswerValues /\ m \in MainRecords
        /\ CommandInv(p, q, a) /\ CallerInv(m.at, p, q.kind)
    BY CommandFacts, Zenon
  <2>a. m.at # "join"
    BY <1>2
  <2>2. main' = n /\ answer' = [answer EXCEPT ![c] = "raised"]
    BY <1>2, <2>a, Zenon DEF RaisedInCaller
  <2>3. n \in MainRecords /\ n.at \notin InCall /\ "raised" \in AnswerValues
    BY PlaceFacts, SMTT(40) DEF Places, InCall, AnswerValues
  <2>4. q.kind = "plain"
    BY <1>2, <2>1, SMTT(40) DEF CallerInv
  <2>5. CommandInv(p, q, "raised")
    BY <2>1, <2>4 DEF CommandInv
  <2>6. proc' = [proc EXCEPT ![c] = p] /\ popen' = [popen EXCEPT ![c] = q]
    BY CommandFacts, Zenon
  <2>7. CallerInv(n.at, p, q.kind)
    BY <2>3, NotInCall, Zenon
  <2> QED
    BY <2>1, <2>2, <2>3, <2>5, <2>6, <2>7, OneCommand, Zenon
<1>3. CASE m.at = "loop"
  <2>1. m.at # "join" /\ m.at # "plain"
    BY <1>3
  <2>2. main' = Where("over") /\ UNCHANGED answer
    BY <1>3, <2>1, Zenon DEF RaisedInCaller
  <2>3. "over" \in Places /\ "over" \notin InCall
    BY DEF Places, InCall
  <2> QED
    BY <2>2, <2>3, CallerOutside, Zenon
<1>4. m.at = "join" \/ m.at = "plain" \/ m.at = "loop"
  BY Zenon DEF RaisedInCaller
<1> QED
  BY <1>1, <1>2, <1>3, <1>4

(* Every step keeps the invariant.                                         *)
LEMMA CommandsStep ==
  ASSUME CommandsIInv, [CommandsNext]_commandVars
  PROVE  CommandsIInv'
<1>0. \A x \in {"loop", "over", "killed"} : x \in Places /\ x \notin InCall
  BY DEF Places, InCall
<1>1. CASE UNCHANGED commandVars
  BY <1>1, Zenon DEF commandVars, CommandsIInv, CommandTypes, CommandsInv, MainInv
<1>2. CASE unregisterControllers \/ Unregistered \/ Terminates
  <2>1. UNCHANGED <<proc, popen, answer>>
    BY <1>2, Zenon DEF unregisterControllers, Unregistered, Terminates
  <2>2. \E x \in {"loop", "over", "killed"} : main' = Where(x)
    BY <1>2, Zenon DEF unregisterControllers, Unregistered, Terminates
  <2> QED
    BY <1>0, <2>1, <2>2, CallerOutside, Zenon
<1>3. CASE _handler_timeout \/ Interrupts
  BY <1>3, RaisedStep, Zenon DEF _handler_timeout, Interrupts
<1>4. ASSUME NEW c \in Commands,
             \/ LeaderExits(c) \/ ChildExits(c) \/ Communicates(c) \/ Waits(c) \/ Appends(c)
             \/ _ExecuteOneShellCommandWithTimeout(c) \/ ExecuteOneShellCommand(c)
             \/ start_standing_subprocess(c) \/ Joins(c) \/ Polls(c) \/ Kills(c) \/ CallsBack(c)
             \/ Returns(c) \/ stop_standing_subprocess(c)
      PROVE  CommandsIInv'
  BY <1>4, LeaderExitsStep, ChildExitsStep, CommunicatesStep, WaitsStep, AppendsStep, TimedStep, PlainStep,
     StandingStep, JoinsStep, PollsStep, KillsStep, CallsBackStep, ReturnsStep, StopStep, Zenon
<1> QED
  BY <1>1, <1>2, <1>3, <1>4, Zenon DEF CommandsNext

LEMMA CommandsBegin ==
  ASSUME CommandsInit
  PROVE  CommandsIInv
<1>1. NoProcess \in ProcRecords /\ NoPopen \in PopenRecords /\ "none" \in AnswerValues
  BY DEF NoProcess, NoPopen, ProcRecords, PopenRecords, AnswerValues, AllCodes
<1>2. Where("idle") \in MainRecords /\ Where("idle").at \notin InCall
  BY PlaceFacts DEF Places, InCall
<1>3. CommandTypes
  BY <1>1, <1>2, SMTT(40) DEF CommandsInit, CommandTypes
<1>4. CommandInv(NoProcess, NoPopen, "none")
  BY DEF CommandInv, NoProcess, NoPopen
<1>5. CommandsInv
  BY <1>4 DEF CommandsInit, CommandsInv
<1>6. MainInv
  BY <1>2, NotInCall, Zenon DEF CommandsInit, MainInv
<1> QED
  BY <1>3, <1>5, <1>6, Zenon DEF CommandsIInv

(* For any number of commands, and however their processes, the threads    *)
(* that wait for them, the alarm and the interrupts interleave: when       *)
(* _ExecuteOneShellCommandWithTimeout has returned all processes of its    *)
(* command have ended and the exit code is the shell's own (unless poll    *)
(* and wait raced for it), and when it raised, or stop_standing_subprocess *)
(* was called, what still runs ignores SIGTERM or outlived its shell.      *)
THEOREM CommandsAlwaysEnd == CommandsSpec => []CommandsEndWithTheirCalls
<1>1. CommandsInit => CommandsIInv
  BY CommandsBegin
<1>2. CommandsIInv /\ [CommandsNext]_commandVars => CommandsIInv'
  BY CommandsStep, SMTT(40)
<1>3. CommandsIInv => CommandsEndWithTheirCalls
  <2> SUFFICES ASSUME CommandsIInv, NEW c \in Commands
      PROVE  LET p == proc[c] IN
             /\ popen[c].kind = "timed" /\ answer[c] \notin {"none", "raised"} =>
                  ~p.leader /\ ~p.child /\ (popen[c].raced \/ answer[c] = p.code)
             /\ popen[c].kind # "plain" /\ answer[c] \in {"raised", "stopped"} =>
                  /\ p.leader => ~p.obeys
                  /\ p.child => ~p.childObeys \/ p.code \in Codes
    BY Zenon DEF CommandsEndWithTheirCalls
  <2> PICK p, q, a : p = proc[c] /\ q = popen[c] /\ a = answer[c]
    OBVIOUS
  <2>1. CommandInv(p, q, a)
    BY CommandFacts, Zenon
  <2> QED
    BY <2>1 DEF CommandInv, Stopped
<1> QED
  BY <1>1, <1>2, <1>3, PTL DEF CommandsSpec
-----------------------------------------------------------------------------
(***************************************************************************)
(* RebootTests: VtsFastbootVerification, RebootRootRemountTest and         *)
(* RebootTest.                                                             *)
(***************************************************************************)
(* The device, the state of verity and what the tests remember of it.      *)
RebootTypes ==
  /\ place \in {"android", "fastbootd", "bootloader", "rebooting"}
  /\ target \in {"android", "fastbootd", "bootloader"}
  /\ verity \in [set : BOOLEAN, active : BOOLEAN] /\ original \in BOOLEAN /\ wasOn \in BOOLEAN

(* RebootRootRemountTest: wasOn is what it read, verity is left as it was  *)
(* unless it read that it was on, and from EnableVerity to its verdict it  *)
(* is set again.                                                           *)
RemountInv ==
  /\ step = "setUpClass" => verity.active = original /\ ~wasOn
  /\ wasOn => original
  /\ ~wasOn => verity.set = original
  /\ wasOn /\ (step \in {"again", "againRoot", "againWait", "compare"} \/ reported \in {"pass", "fail"})
       => verity.set

(* VtsFastbootVerification: in a test, and in the tearDownClass after      *)
(* tests that passed, the device is in fastboot or on its way to Android.  *)
ReturnInv ==
  /\ step = "tests" \/ (step = "tearDownClass" /\ reported = "pass") =>
       place \in {"fastbootd", "bootloader"} \/ target = "android"
  /\ step \in {"backWait", "over"} /\ reported = "pass" => target = "android"

(* The inductive invariant behind BroughtBack.                             *)
RebootsInv ==
  /\ RebootTypes
  /\ place = "android" => target = "android"
  /\ step \notin {"tearDownClass", "backWait", "over"} => reported = "none"
  /\ testClass = "remount" => RemountInv
  /\ testClass = "fastboot" => ReturnInv
-----------------------------------------------------------------------------

LEMMA RebootsBegin ==
  ASSUME RebootsInit
  PROVE  RebootsInv
<1>1. PICK v \in BOOLEAN : verity = [set |-> v, active |-> v]
  BY Zenon DEF RebootsInit
<1> QED
  BY <1>1 DEF RebootsInit, RebootsInv, RebootTypes, RemountInv, ReturnInv

(* The device arrives, completes its boot or disappears by itself.         *)
LEMMA DeviceMoves ==
  ASSUME RebootsInv, Arrives \/ Completes \/ Disappears
  PROVE  RebootsInv'
<1> PICK v : v = verity
  OBVIOUS
<1>1. v \in [set : BOOLEAN, active : BOOLEAN]
  BY DEF RebootsInv, RebootTypes
<1>2. CASE Arrives
  <2> PICK b : b = IF target = "android" THEN v.set ELSE v.active
    OBVIOUS
  <2>0. b \in BOOLEAN /\ (v.active = original /\ v.set = original => b = original)
    BY <1>1
  <2> PICK w : w = [v EXCEPT !.active = b]
    OBVIOUS
  <2>1. verity' = w
    BY <1>2, Zenon DEF Arrives
  <2>2. w \in [set : BOOLEAN, active : BOOLEAN] /\ w.set = v.set /\ w.active = b
    BY <1>1, <2>0
  <2> QED
    BY <1>2, <2>0, <2>1, <2>2 DEF Arrives, hostVars, RebootsInv, RebootTypes, RemountInv, ReturnInv
<1>3. CASE Completes
  BY <1>3 DEF Completes, hostVars, RebootsInv, RebootTypes, RemountInv, ReturnInv
<1>4. CASE Disappears
  BY <1>4 DEF Disappears, hostVars, RebootsInv, RebootTypes, RemountInv, ReturnInv
<1> QED
  BY <1>2, <1>3, <1>4

(* The steps of VtsFastbootVerification and of RebootTest.                 *)
LEMMA FastbootSteps ==
  ASSUME RebootsInv,
         FastbootSetUp \/ FastbootTests \/ RebootTestEnds \/ FastbootTearDown \/ waitForBoot("fastboot", "backWait", "over")
  PROVE  RebootsInv'
<1> USE DEF RebootsInv, RebootTypes, ReturnInv, Is, DeviceStays, Continue, Ends, Goes, isBootloaderMode, adbAnswers
<1>1. CASE FastbootSetUp
  BY <1>1, SMTT(40) DEF FastbootSetUp
<1>2. CASE FastbootTests
  BY <1>2, SMTT(40) DEF FastbootTests
<1>3. CASE RebootTestEnds
  BY <1>3, SMTT(40) DEF RebootTestEnds
<1>4. CASE FastbootTearDown
  BY <1>4 DEF FastbootTearDown
<1>5. CASE waitForBoot("fastboot", "backWait", "over")
  BY <1>5, SMTT(40) DEF waitForBoot
<1> QED
  BY <1>1, <1>2, <1>3, <1>4, <1>5, ZenonT(40)

(* adb disable-verity and enable-verity.                                   *)
LEMMA SetVerityStep ==
  ASSUME RebootsInv, NEW at, NEW value \in BOOLEAN, NEW next, SetVerity(at, value, next),
         at \notin {"tearDownClass", "backWait", "over"},
         next \notin {"setUpClass", "tearDownClass"},
         next \in {"again", "againRoot", "againWait", "compare"} /\ wasOn => value
  PROVE  RebootsInv'
<1> USE DEF RebootsInv, RebootTypes, RemountInv, Is, Continue, Ends, adbAnswers
<1> PICK v, w : v = verity /\ w = [verity EXCEPT !.set = value]
  OBVIOUS
<1>1. v \in [set : BOOLEAN, active : BOOLEAN]
  OBVIOUS
<1>2. w \in [set : BOOLEAN, active : BOOLEAN] /\ w.set = value /\ w.active = v.active
  BY <1>1
<1>3. testClass = "remount" /\ step = at /\ reported = "none" /\ UNCHANGED <<place, target, testClass, wasOn, original>>
  BY DEF SetVerity
<1>4. CASE verity' = v /\ step' = next /\ reported' = reported /\ ~wasOn
  BY <1>1, <1>3, <1>4
<1>5. CASE verity' = v /\ step' = "tearDownClass" /\ reported' = "error"
  BY <1>1, <1>3, <1>5
<1>6. CASE verity' = w /\ step' = next /\ reported' = reported /\ wasOn
  BY <1>1, <1>2, <1>3, <1>6
<1> QED
  BY <1>4, <1>5, <1>6 DEF SetVerity

Edges == {"setUpClass", "tearDownClass", "backWait", "over"}
LateSteps == {"again", "againRoot", "againWait", "compare"}

(* A step of the remount test that leaves verity and what was read alone.  *)
LEMMA OtherSteps ==
  ASSUME RebootsInv, testClass # "fastboot", UNCHANGED <<testClass, wasOn, original, verity>>,
         target' \in {"android", "fastbootd", "bootloader"}, place' = "rebooting" \/ (place' = place /\ target' = target),
         step' # "setUpClass" \/ step = "setUpClass", step' # "backWait",
         step' \in LateSteps => step \in LateSteps,
         \/ reported' = reported /\ (step' \notin {"tearDownClass", "over"} => reported = "none")
         \/ step' = "tearDownClass" /\ (reported' = "error" \/ testClass # "remount" \/ step = "compare")
  PROVE  RebootsInv'
BY DEF RebootsInv, RebootTypes, RemountInv, LateSteps

(* The steps that wait for the device or become root.                      *)
LEMMA WaitingSteps ==
  ASSUME RebootsInv, NEW at, at \notin Edges, step = at, testClass # "fastboot",
         NEW next, next \notin Edges, next \in LateSteps => at \in LateSteps,
         DeviceStays \/ Goes("android"), Continue(next) \/ Ends("error")
  PROVE  RebootsInv'
<1>1. reported = "none"
  BY DEF RebootsInv, Edges
<1>2. /\ target' \in {"android", "fastbootd", "bootloader"} 
      /\ place' = "rebooting" \/ (place' = place /\ target' = target)
      /\ UNCHANGED verity
  BY DEF DeviceStays, Goes, RebootsInv, RebootTypes
<1>3. CASE Continue(next)
  <2>1. step' = next /\ reported' = reported /\ UNCHANGED <<testClass, wasOn, original>>
    BY <1>3 DEF Continue
  <2>2. step' # "setUpClass" /\ step' # "backWait" /\ (step' \in LateSteps => step \in LateSteps)
    BY <2>1 DEF Edges
  <2> QED
    BY <1>1, <1>2, <2>1, <2>2, OtherSteps, Zenon
<1>4. CASE Ends("error")
  <2>1. step' = "tearDownClass" /\ reported' = "error" /\ UNCHANGED <<testClass, wasOn, original>>
    BY <1>4 DEF Ends
  <2>2. step' # "setUpClass" /\ step' # "backWait" /\ step' \notin LateSteps
    BY <2>1 DEF LateSteps
  <2> QED
    BY <1>2, <2>1, <2>2, OtherSteps, Zenon
<1> QED
  BY <1>3, <1>4, Zenon

(* Its reboots.                                                            *)
LEMMA BootSteps ==
  ASSUME RebootsInv, NEW class, class # "fastboot", NEW at, at \notin Edges,
         NEW rooting, rooting \notin Edges, rooting \in LateSteps => at \in LateSteps,
         NEW next, next \notin Edges, next \in LateSteps => at \in LateSteps,
         rebootDevice(class, at, rooting, next) \/ rootAdb(class, at, next) \/ waitForBoot(class, at, next)
  PROVE  RebootsInv'
<1>1. step = at /\ testClass # "fastboot"
  BY DEF rebootDevice, rootAdb, waitForBoot, Is
<1>2. DeviceStays \/ Goes("android")
  BY Zenon DEF rebootDevice, rootAdb, waitForBoot
<1>3. Continue(next) \/ Continue(rooting) \/ Ends("error")
  BY Zenon DEF rebootDevice, rootAdb, waitForBoot
<1> QED
  BY <1>1, <1>2, <1>3, WaitingSteps, Zenon

(* The steps of the remount test.                                          *)
LEMMA RemountSteps ==
  ASSUME RebootsInv,
         \/ RemountSetUp \/ SetVerity("disable", FALSE, "first") \/ Remount \/ EnableVerity \/ Compare
         \/ RebootSetUp \/ RebootTestPasses \/ NothingToTearDown
  PROVE  RebootsInv'
<1> USE DEF Is, DeviceStays, Continue, Ends
<1>1. CASE RemountSetUp
  <2>1. wasOn' \in BOOLEAN /\ (wasOn' => verity.active)
    BY <1>1, Zenon DEF RemountSetUp, verityEnabled
  <2> QED
    BY <1>1, <2>1 DEF RemountSetUp, RebootsInv, RebootTypes, RemountInv
<1>2. CASE SetVerity("disable", FALSE, "first")
  BY <1>2, SetVerityStep
<1>3. CASE Remount
  BY <1>3, OtherSteps DEF Remount, RebootsInv, RebootTypes, LateSteps
<1>4. CASE EnableVerity
  BY <1>4, SetVerityStep DEF EnableVerity
<1>5. CASE Compare
  BY <1>5, OtherSteps DEF Compare, RebootsInv, RebootTypes, LateSteps
<1>6. CASE RebootSetUp \/ RebootTestPasses
  BY <1>6, OtherSteps DEF RebootSetUp, RebootTestPasses, RebootsInv, RebootTypes, LateSteps
<1>7. CASE NothingToTearDown
  BY <1>7, OtherSteps DEF NothingToTearDown, RebootsInv, RebootTypes, LateSteps
<1> QED
  BY <1>1, <1>2, <1>3, <1>4, <1>5, <1>6, <1>7, Zenon

(* Every step keeps the invariant.                                         *)
LEMMA RebootsStep ==
  ASSUME RebootsInv, [RebootsNext]_rebootVars
  PROVE  RebootsInv'
<1>0. /\ \A x \in {"first", "firstRoot", "firstWait", "remount", "test", "testRoot", "wait", "passed"} :
           x \notin Edges /\ x \notin LateSteps
      /\ \A x \in LateSteps : x \notin Edges
      /\ "again" \in LateSteps /\ "againRoot" \in LateSteps /\ "againWait" \in LateSteps /\ "compare" \in LateSteps
      /\ "remount" # "fastboot" /\ "reboot" # "fastboot"
  BY DEF Edges, LateSteps
<1>1. CASE UNCHANGED rebootVars
  BY <1>1, ZenonT(40) DEF rebootVars, RebootsInv, RebootTypes, RemountInv, ReturnInv
<1>2. CASE \/ rebootDevice("remount", "first", "firstRoot", "firstWait") \/ rootAdb("remount", "firstRoot", "firstWait")
           \/ waitForBoot("remount", "firstWait", "remount")
  BY <1>0, <1>2, BootSteps, Zenon
<1>3. CASE \/ rebootDevice("remount", "again", "againRoot", "againWait") \/ rootAdb("remount", "againRoot", "againWait")
           \/ waitForBoot("remount", "againWait", "compare")
  BY <1>0, <1>3, BootSteps, Zenon
<1>4. CASE \/ rebootDevice("reboot", "test", "testRoot", "wait") \/ rootAdb("reboot", "testRoot", "wait")
           \/ waitForBoot("reboot", "wait", "passed")
  BY <1>0, <1>4, BootSteps, Zenon
<1> QED
  BY <1>1, <1>2, <1>3, <1>4, DeviceMoves, FastbootSteps, RemountSteps, Zenon DEF RebootsNext

(* However long the device takes, whatever it answers and wherever a step  *)
(* fails: a remount test that comes to a verdict has set verity back to    *)
(* what it was, and after a fastboot class whose tests passed the device   *)
(* is in Android or on its way to it.                                      *)
THEOREM DeviceIsAlwaysBroughtBack == RebootsSpec => []BroughtBack
<1>1. RebootsInit => RebootsInv
  BY RebootsBegin
<1>2. RebootsInv /\ [RebootsNext]_rebootVars => RebootsInv'
  BY RebootsStep
<1>3. RebootsInv => BroughtBack
  BY DEF RebootsInv, RebootTypes, RemountInv, ReturnInv, BroughtBack
<1> QED
  BY <1>1, <1>2, <1>3, PTL DEF RebootsSpec
-----------------------------------------------------------------------------
(***************************************************************************)
(* Framework: the preconditions and the setup of the framework in          *)
(* base_test.                                                              *)
(***************************************************************************)
ConfRecords == [level : {0, 28}, feature : BOOLEAN, disable : BOOLEAN, stopNative : BOOLEAN, names : BOOLEAN]
ServerStates == {"down", "booting", "up"}
(* The framework, its properties, the configuration and how the setup      *)
(* went.                                                                   *)
FrameworkTypes ==
  /\ server \in ServerStates /\ boot_completed \in {0, 1} /\ nativeRunning \in BOOLEAN /\ nativeStop \in BOOLEAN
  /\ conf \in ConfRecords /\ skipped \in BOOLEAN /\ timedOut \in BOOLEAN /\ crashed \in BOOLEAN

(* boot_completed is 1 while system_server is not up only between stop and *)
(* the reset, or after a crash.                                            *)
BootInv ==
  /\ server = "down" => boot_completed = 0 \/ setupStep = "reset"
  /\ server = "booting" /\ boot_completed = 1 => crashed
(* Which option of the configuration led to which step of the setup.       *)
ReturnsInv ==
  /\ setupStep \in {"start", "boot", "server"} =>
       (returnTo = "pm" /\ conf.feature) \/ (returnTo = "wait" /\ ~conf.disable)
  /\ setupStep \in {"feature", "pm"} => conf.feature
  /\ setupStep \in {"stop", "reset"} => conf.disable
(* What the steps of the setup have reached: system_server down or up, and *)
(* the native servers stopped, as conf asks.                               *)
StateInv ==
  /\ setupStep \in {"reset", "wait", "tests"} /\ conf.disable => server = "down"
  /\ ~timedOut /\ ~crashed /\ (setupStep \in {"pm", "server"} \/ (setupStep \in {"wait", "tests"} /\ ~conf.disable))
       => server = "up"
  /\ setupStep \in {"wait", "tests"} /\ conf.disable /\ conf.stopNative => nativeStop
  /\ setupStep = "tests" /\ conf.disable /\ conf.stopNative /\ conf.names /\ ~timedOut => ~nativeRunning
  /\ skipped /\ ~timedOut /\ ~crashed =>
       ~MeetFirstApiLevelPrecondition(conf.level) \/ (conf.feature /\ ~HasFeature)
(* The inductive invariant behind SetUpAsConfigured.                       *)
FrameworkInv == FrameworkTypes /\ BootInv /\ ReturnsInv /\ StateInv
-----------------------------------------------------------------------------

LEMMA FrameworkBegin ==
  ASSUME FrameworkInit
  PROVE  FrameworkInv
BY ZenonT(40) DEF FrameworkInit, FrameworkInv, FrameworkTypes, BootInv, ReturnsInv, StateInv, NoConf, ConfRecords, ServerStates

(* Every step keeps the invariant.                                         *)
LEMMA FrameworkStep ==
  ASSUME FrameworkInv, [FrameworkNext]_frameworkVars
  PROVE  FrameworkInv'
<1> USE DEF FrameworkInv, FrameworkTypes, BootInv, ReturnsInv, StateInv, ServerStates,
            isBootCompleted, isFrameworkRunning, Go, Stays, hostState, deviceState
<1>1. CASE BootCompletes
  BY <1>1 DEF BootCompletes
<1>2. CASE ServerCrashes
  BY <1>2, SMTT(40) DEF ServerCrashes
<1>3. CASE NativeFollows
  BY <1>3, SMTT(40) DEF NativeFollows
<1>4. CASE _setUpClass
  <2>1. /\ crashed' \in BOOLEAN /\ (server = "booting" /\ boot_completed = 1 => crashed')
        /\ skipped' \in BOOLEAN /\ (skipped' => ~MeetFirstApiLevelPrecondition(conf'.level))
    BY <1>4, Zenon DEF _setUpClass, MeetFirstApiLevelPrecondition
  <2>2. conf' \in ConfRecords /\ timedOut' = FALSE /\ setupStep = "idle"
        /\ UNCHANGED <<server, boot_completed, nativeRunning, nativeStop>>
    BY <1>4, Zenon DEF _setUpClass, ConfRecords
  <2>3. setupStep' = IF conf'.feature THEN "feature" ELSE "framework"
    BY <1>4, Zenon DEF _setUpClass
  <2> QED
    BY <2>1, <2>2, <2>3
<1>5. CASE CheckFeaturePrecondition
  BY <1>5 DEF CheckFeaturePrecondition
<1>6. CASE ListFeatures
  BY <1>6, SMTT(40) DEF ListFeatures
<1>7. CASE EnableOrDisable
  BY <1>7, SMTT(40) DEF EnableOrDisable
<1>8. CASE start
  <2>1. /\ setupStep = "start" /\ setupStep' = "boot" /\ nativeStop' = FALSE
        /\ server' = (IF server = "down" THEN "booting" ELSE server)
        /\ UNCHANGED <<boot_completed, nativeRunning, skipped, timedOut, conf, returnTo, crashed>>
    BY <1>8, Zenon DEF start
  <2>2. CASE server = "down"
    <3>1. boot_completed = 0 /\ server' = "booting"
      BY <2>1, <2>2, SMTT(40)
    <3>2. BootInv'
      BY <2>1, <3>1
    <3>a. FrameworkTypes'
      <4>1. server' \in ServerStates /\ boot_completed' \in {0, 1} /\ conf' \in ConfRecords
        BY <2>1, <3>1, SMTT(40)
      <4>2. nativeStop' \in BOOLEAN
        BY <2>1, ZenonT(40)
      <4>3. nativeRunning' \in BOOLEAN /\ skipped' \in BOOLEAN /\ timedOut' \in BOOLEAN /\ crashed' \in BOOLEAN
        BY <2>1
      <4> QED
        BY <4>1, <4>2, <4>3, Zenon
    <3>3. ReturnsInv'
      BY <2>1
    <3>4. StateInv'
      BY <2>1
    <3> QED
      BY <3>2, <3>3, <3>4, <3>a, Zenon
  <2>3. CASE server # "down"
    BY <2>1, <2>3
  <2> QED
    BY <2>2, <2>3
<1>9. CASE waitForBootCompletion
  BY <1>9 DEF waitForBootCompletion
<1>10. CASE waitForFrameworkStartComplete
  BY <1>10 DEF waitForFrameworkStartComplete
<1>11. CASE StartTimesOut
  BY <1>11 DEF StartTimesOut
<1>12. CASE StopCommand
  BY <1>12 DEF StopCommand
<1>13. CASE stopFramework
  BY <1>13 DEF stopFramework
<1>14. CASE waitForProcessStop
  BY <1>14, ZenonT(40) DEF waitForProcessStop
<1>15. CASE ClassEnds
  BY <1>15 DEF ClassEnds
<1>16. CASE UNCHANGED frameworkVars
  BY <1>16, SMTT(40) DEF frameworkVars
<1> HIDE DEF FrameworkInv
<1> QED
  BY <1>1, <1>2, <1>3, <1>4, <1>5, <1>6, <1>7, <1>8, <1>9, <1>10, <1>11, <1>12, <1>13, <1>14, <1>15, <1>16, Zenon DEF FrameworkNext

(* For every API level and configuration, the tests of a class find the    *)
(* framework booted or stopped and the native servers gone as configured,  *)
(* and a class is skipped only for a precondition that is not met, unless  *)
(* a wait timed out or system_server crashed.                              *)
THEOREM DeviceIsSetUpAsConfigured == FrameworkSpec => []SetUpAsConfigured
<1>1. FrameworkInit => FrameworkInv
  BY FrameworkBegin
<1>2. FrameworkInv /\ [FrameworkNext]_frameworkVars => FrameworkInv'
  BY FrameworkStep
<1>3. FrameworkInv => SetUpAsConfigured
  BY SMTT(40) DEF FrameworkInv, FrameworkTypes, StateInv, SetUpAsConfigured
<1> QED
  BY <1>1, <1>2, <1>3, PTL DEF FrameworkSpec
-----------------------------------------------------------------------------
(***************************************************************************)
(* TargetFiles: target_file_utils.py. What is proved of the digits of a    *)
(* mode is for each of its 4096 values at once.                            *)
(***************************************************************************)
(* The inductive invariant: the file has a mode, and the last answer is    *)
(* true of it.                                                             *)
FilesInv ==
  /\ file \in [exists : BOOLEAN, mode : AllModes]
  /\ shell \in [enabled : BOOLEAN, large : BOOLEAN, pulls : BOOLEAN]
  /\ FilesAreAsAnswered

LEMMA OctalDigits ==
  ASSUME NEW n \in AllModes
  PROVE  /\ Len(Octal[n]) = 3 <=> n \in 64..511
         /\ n \in 64..511 => /\ Octal[n][1] = n \div 64
                             /\ Octal[n][2] = (n \div 8) % 8 /\ Octal[n][3] = n % 8
<1> DEFINE f(m) == IF m < 8 THEN <<m>> ELSE IF m < 64 THEN <<m \div 8, m % 8>>
                   ELSE IF m < 512 THEN <<m \div 64, (m \div 8) % 8, m % 8>>
                   ELSE <<m \div 512, (m \div 64) % 8, (m \div 8) % 8, m % 8>>
<1>1. Octal = [m \in AllModes |-> f(m)]
  BY DEF Octal
<1>2. Octal[n] = f(n)
  <2> HIDE DEF f
  <2> QED
    BY <1>1, ZenonT(40)
<1>3. n \in Nat
  BY SMTT(40) DEF AllModes
<1> DEFINE Digits == /\ Len(Octal[n]) = 3 <=> n \in 64..511
                     /\ n \in 64..511 => /\ Octal[n][1] = n \div 64
                                         /\ Octal[n][2] = (n \div 8) % 8 /\ Octal[n][3] = n % 8
           Below8 == n < 8
           Below64 == n < 64
           Below512 == n < 512
<1>4. ASSUME Below8 PROVE Digits
  BY <1>2, <1>3, <1>4, SMTT(40)
<1>5. ASSUME ~Below8, Below64 PROVE Digits
  BY <1>2, <1>3, <1>5, SMTT(40)
<1>6. ASSUME ~Below64, Below512 PROVE Digits
  BY <1>2, <1>3, <1>6, SMTT(40)
<1>7. ASSUME ~Below512 PROVE Digits
  BY <1>2, <1>3, <1>7, SMTT(40)
<1>8. Digits
  <2> HIDE DEF Digits, Below8, Below64, Below512, f
  <2> QED
    BY <1>4, <1>5, <1>6, <1>7, ZenonT(40)
<1> QED
  BY <1>8

(* The bits of a digit are those of the mode.                              *)
LEMMA DigitBits ==
  ASSUME NEW n \in 64..511, NEW p \in {1, 2, 4}
  PROVE  /\ ((n \div 64) \div p) % 2 = (n \div (p * 64)) % 2
         /\ (((n \div 8) % 8) \div p) % 2 = (n \div (p * 8)) % 2
         /\ ((n % 8) \div p) % 2 = (n \div (p * 1)) % 2
<1>1. PICK a, b, c, d, e, f, g, h, i :
        /\ a = (n \div 256) % 2 /\ b = (n \div 128) % 2 /\ c = (n \div 64) % 2
        /\ d = (n \div 32) % 2 /\ e = (n \div 16) % 2 /\ f = (n \div 8) % 2
        /\ g = (n \div 4) % 2 /\ h = (n \div 2) % 2 /\ i = n % 2
  OBVIOUS
<1>2. /\ a \in {0, 1} /\ b \in {0, 1} /\ c \in {0, 1} /\ d \in {0, 1} /\ e \in {0, 1}
      /\ f \in {0, 1} /\ g \in {0, 1} /\ h \in {0, 1} /\ i \in {0, 1}
  BY <1>1, SMTT(40)
<1>3. n = 256 * a + 128 * b + 64 * c + 32 * d + 16 * e + 8 * f + 4 * g + 2 * h + i
  BY <1>1, SMTT(40)
<1>4. n \div 64 = 4 * a + 2 * b + c /\ (n \div 8) % 8 = 4 * d + 2 * e + f /\ n % 8 = 4 * g + 2 * h + i
  BY <1>2, <1>3, SMTT(40)
<1>5. /\ n \div 256 = a /\ n \div 128 = 2 * a + b
      /\ n \div 32 = 8 * a + 4 * b + 2 * c + d /\ n \div 16 = 16 * a + 8 * b + 4 * c + 2 * d + e
  BY <1>2, <1>3, SMTT(40)
<1>6. /\ n \div 8 = 32 * a + 16 * b + 8 * c + 4 * d + 2 * e + f
      /\ n \div 4 = 64 * a + 32 * b + 16 * c + 8 * d + 4 * e + 2 * f + g
  BY <1>2, <1>3, SMTT(40)
<1>7. n \div 2 = 128 * a + 64 * b + 32 * c + 16 * d + 8 * e + 4 * f + 2 * g + h
  BY <1>2, <1>3, SMTT(40)
<1>8. CASE p = 1
  BY <1>8, SMTT(40)
<1>9. CASE p = 2
  BY <1>2, <1>4, <1>5, <1>6, <1>7, <1>9, SMTT(40)
<1>10. CASE p = 4
  BY <1>2, <1>4, <1>5, <1>6, <1>7, <1>10, SMTT(40)
<1> QED
  BY <1>8, <1>9, <1>10

LEMMA GroupsAreGranted ==
  ASSUME FilesInv, file.mode \in 64..511, NEW p \in {1, 2, 4}
  PROVE  AnyGroup(GetPermission, p) <=> Grants(p)
<1> PICK n, bits : n = file.mode /\ bits = GetPermission
  BY Zenon
<1>1. bits[1] = n \div 64 /\ bits[2] = (n \div 8) % 8 /\ bits[3] = n % 8
  <2>1. n \in AllModes
    BY DEF FilesInv
  <2>2. n \in 64..511 /\ bits = Octal[n]
    BY DEF GetPermission
  <2> QED
    BY <2>1, <2>2, OctalDigits
<1>2. AnyGroup(bits, p) <=> Granted(bits[1], p) \/ Granted(bits[2], p) \/ Granted(bits[3], p)
  <2>1. ASSUME NEW i \in {0, 1, 2}
        PROVE  _HasPermission(bits, i, p) <=> Granted(bits[i + 1], p)
    <3>1. ~(i < 0)
      OBVIOUS
    <3> QED
      BY <3>1, Zenon DEF _HasPermission
  <2>2. 0..(3 - 1) = {0, 1, 2} /\ 0 + 1 = 1 /\ 1 + 1 = 2 /\ 2 + 1 = 3
    OBVIOUS
  <2>3. AnyGroup(bits, p) <=> \E i \in {0, 1, 2} : _HasPermission(bits, i, p)
    BY <2>2, Zenon DEF AnyGroup, _PERMISSION_GROUPS
  <2>4. /\ _HasPermission(bits, 0, p) <=> Granted(bits[1], p)
        /\ _HasPermission(bits, 1, p) <=> Granted(bits[2], p)
        /\ _HasPermission(bits, 2, p) <=> Granted(bits[3], p)
    BY <2>1, <2>2, Zenon
  <2> QED
    BY <2>3, <2>4, Zenon
<1>3. Grants(p) <=> (n \div (p * 1)) % 2 = 1 \/ (n \div (p * 8)) % 2 = 1 \/ (n \div (p * 64)) % 2 = 1
  BY Zenon DEF Grants
<1>4. /\ Granted(bits[1], p) <=> (n \div (p * 64)) % 2 = 1
      /\ Granted(bits[2], p) <=> (n \div (p * 8)) % 2 = 1
      /\ Granted(bits[3], p) <=> (n \div (p * 1)) % 2 = 1
  <2>1. n \in 64..511
    BY Zenon
  <2>2. /\ ((n \div 64) \div p) % 2 = (n \div (p * 64)) % 2
        /\ (((n \div 8) % 8) \div p) % 2 = (n \div (p * 8)) % 2
        /\ ((n % 8) \div p) % 2 = (n \div (p * 1)) % 2
    BY <2>1, DigitBits
  <2> QED
    BY <1>1, <2>2, ZenonT(40) DEF Granted
<1> QED
  BY <1>2, <1>3, <1>4, Zenon

LEMMA AnswersMatch ==
  ASSUME FilesInv, NEW q \in Questions, Ask(q)
  PROVE  FilesAreAsAnswered'
<1>0. file' = file /\ shell' = shell /\ question' = q /\ nohup' = Raises
  BY Zenon DEF Ask
<1>1. /\ file.mode \in AllModes /\ shell.enabled \in BOOLEAN /\ file.exists \in BOOLEAN
      /\ shell.large \in BOOLEAN /\ shell.pulls \in BOOLEAN
  BY DEF FilesInv
<1> PICK h, on, ex : h = Holds(q) /\ on = shell.enabled /\ ex = file.exists
  BY Zenon
<1>6. Holds(question)' = h
  BY <1>0, Zenon DEF Holds, Grants
<1>7. FilesAreAsAnswered' <=>
        /\ said' \in {"true", "content"} => on /\ ex /\ h
        /\ ex /\ h /\ on /\ ~nohup' =>
             \/ said' \in {"true", "content"}
             \/ q \notin {"Exists", "ReadFileContent"} /\ file.mode \notin 64..511
  <2>1. q # "none"
    BY DEF Questions
  <2> QED
    BY <1>0, <1>6, <2>1, ZenonT(40) DEF FilesAreAsAnswered
<1>2. CASE Raises
  <2>1. said' = "raised" /\ nohup'
    BY <1>0, <1>2, Zenon DEF Ask
  <2> QED
    BY <1>7, <2>1
<1>3. CASE ~Raises /\ q = "Exists"
  <2>1. said' = IF Exists THEN "true" ELSE "false"
    BY <1>3, Zenon DEF Ask
  <2>2. Exists <=> shell.enabled /\ file.exists
    BY DEF Exists, _Test, ExecuteOnDevice
  <2>3. Holds(q)
    BY <1>3 DEF Holds
  <2> QED
    BY <1>1, <1>3, <1>7, <2>1, <2>2, <2>3
<1>4. CASE ~Raises /\ q = "ReadFileContent"
  <2>0. q # "Exists"
    BY <1>4
  <2>1. said' = ReadFileContent
    BY <1>4, <2>0, Zenon DEF Ask
  <2>2. said' = IF shell.enabled /\ file.exists THEN "content" ELSE "IOError"
    BY <2>1 DEF ReadFileContent, ExecuteOnDevice
  <2>3. Holds(q)
    BY <1>4, SMTT(40) DEF Holds
  <2> QED
    BY <1>1, <1>4, <1>7, <2>2, <2>3
<1>5. CASE ~Raises /\ q \notin {"Exists", "ReadFileContent"}
  <2>1. said' = assertPermissionsAndExistence(q)
    BY <1>5, Zenon DEF Ask
  <2>2. Exists <=> shell.enabled /\ file.exists
    BY DEF Exists, _Test, ExecuteOnDevice
  <2>3. Len(GetPermission) = 3 <=> file.mode \in 64..511
    BY <1>1, OctalDigits DEF GetPermission
  <2>4. q \in {"IsReadOnly", "IsWriteOnly", "IsReadWrite", "IsExecutable"}
    BY <1>1, <1>5 DEF Questions
  <2>5. ASSUME file.mode \in 64..511
        PROVE  check_permission(q, GetPermission) <=> Holds(q)
    <3>1. /\ IsReadable(GetPermission) <=> Grants(4)
          /\ IsWritable(GetPermission) <=> Grants(2)
          /\ IsExecutable(GetPermission) <=> Grants(1)
      <4>1. 1 \in {1, 2, 4} /\ 2 \in {1, 2, 4} /\ 4 \in {1, 2, 4}
        OBVIOUS
      <4> QED
        BY <2>5, <4>1, GroupsAreGranted, Zenon
           DEF IsReadable, IsWritable, IsExecutable, _READ_PERMISSION, _WRITE_PERMISSION, _EXECUTE_PERMISSION
    <3>2. CASE q = "IsReadOnly"
      BY <3>1, <3>2, Zenon DEF check_permission, Holds, IsReadOnly
    <3>3. CASE q = "IsWriteOnly"
      <4>1. q # "IsReadOnly"
        BY <3>3
      <4> QED
        BY <3>1, <3>3, <4>1, Zenon DEF check_permission, Holds, IsWriteOnly
    <3>4. CASE q = "IsReadWrite"
      <4>1. q # "IsReadOnly" /\ q # "IsWriteOnly"
        BY <3>4
      <4> QED
        BY <3>1, <3>4, <4>1, Zenon DEF check_permission, Holds, IsReadWrite
    <3>5. CASE q = "IsExecutable"
      <4>1. q # "IsReadOnly" /\ q # "IsWriteOnly" /\ q # "IsReadWrite"
        BY <3>5
      <4> QED
        BY <3>1, <3>5, <4>1, Zenon DEF check_permission, Holds
    <3> QED
      BY <2>4, <3>2, <3>3, <3>4, <3>5, Zenon
  <2>6. said' = IF shell.enabled /\ file.exists /\ file.mode \in 64..511 /\ Holds(q) THEN "true" ELSE "failed"
    BY <2>1, <2>2, <2>3, <2>5, Zenon DEF assertPermissionsAndExistence, _PERMISSION_GROUPS
  <2> QED
    BY <1>1, <1>5, <1>7, <2>6
<1> QED
  BY <1>2, <1>3, <1>4, <1>5, Zenon

(* For all modes of files, target_file_utils answers what is so: "true",   *)
(* or a content, only for a file that exists and whose mode, read from the *)
(* digits that stat prints, grants what was asked, and through a shell     *)
(* that works for every such file with a mode of three digits.             *)
THEOREM FilesAreAlwaysAsAnswered == FilesSpec => []FilesAreAsAnswered
<1>1. FilesInit => FilesInv
  BY FileModes DEF FilesInit, FilesInv, FilesAreAsAnswered
<1>2. FilesInv /\ [FilesNext]_fileVars => FilesInv'
  <2> SUFFICES ASSUME FilesInv, [FilesNext]_fileVars
               PROVE  FilesInv'
    OBVIOUS
  <2>1. CASE UNCHANGED fileVars
    <3>1. file' = file /\ shell' = shell /\ question' = question /\ nohup' = nohup /\ said' = said
      BY <2>1, Zenon DEF fileVars
    <3>2. Holds(question)' = Holds(question)
      BY <3>1, Zenon DEF Holds, Grants
    <3>3. FilesAreAsAnswered' <=> FilesAreAsAnswered
      BY <3>1, <3>2, ZenonT(40) DEF FilesAreAsAnswered
    <3> QED
      BY <3>1, <3>3, Zenon DEF FilesInv
  <2>2. ASSUME NEW q \in Questions, Ask(q)
        PROVE  FilesInv'
    BY <2>2, AnswersMatch, Zenon DEF Ask, FilesInv
  <2> QED
    BY <2>1, <2>2, Zenon DEF FilesNext
<1>3. FilesInv => FilesAreAsAnswered
  BY Zenon DEF FilesInv
<1> QED
  BY <1>1, <1>2, <1>3, PTL DEF FilesSpec
=============================================================================
