---------------------------- MODULE TestRunProofs ----------------------------
(***************************************************************************)
(* Proofs about TestRun: for any test class and any number of attempts,    *)
(* the records of a test agree with its last execution, a class that was   *)
(* set up is torn down, and, when the tests have different names, no test  *)
(* that passed or was skipped runs again.                                  *)
(* Then about Mirrors, through which the tests reach the device: the       *)
(* registries of the trackers and the connections agree.                   *)
(***************************************************************************)
EXTENDS TestRun, Mirrors, FiniteSetTheorems, TLAPS

Phases == {"setup", "tests", "heal", "stop", "stopped"}
Signals == {"no", "test", "teardown"}
LastRecords == [outcome : Outcomes \cup {"none"},
                verdict : Verdicts \cup {"none", "kept", "removed"}]

TypeOK ==
  /\ phase \in Phases /\ func \in Nat
  /\ pending \in Seq(Names)
  /\ phase # "stopped" => lists \in [Lists -> [Entries -> Nat]]
  /\ ran \in [Names -> Nat]
  /\ last \in [Names -> LastRecords]
  /\ class_up \in BOOLEAN /\ aborted \in Signals

(* The cases of a trigger are pending only while the tests run, and a      *)
(* class is up only then.                                                  *)
PhaseInv ==
  /\ phase \in {"setup", "heal"} => pending = <<>>
  /\ phase # "tests" => ~class_up
  /\ aborted = "test" => phase \in {"stop", "stopped"}

(* The test functions and generated cases of the class have different      *)
(* names.                                                                  *)
DistinctNames ==
  \A i, j \in DOMAIN Tests :
    \A a \in DOMAIN Tests[i].names, b \in DOMAIN Tests[j].names :
      Tests[i].names[a] = Tests[j].names[b] => i = j /\ a = b

(* A name that is pending is pending once, and no later test has it. *)
PendingInv ==
  phase = "tests" =>
    /\ \A a, b \in DOMAIN pending : pending[a] = pending[b] => a = b
    /\ \A a \in DOMAIN pending, i \in DOMAIN Tests :
         i >= func => \A b \in DOMAIN Tests[i].names : Tests[i].names[b] # pending[a]

Settled(n) == last[n].verdict \in {"passed", "skipped"}

(* A name that the retry filter lets run has not passed or been skipped    *)
(* when it is still to come.                                               *)
RetryInv ==
  /\ phase \in {"setup", "heal"} =>
       NonPassing(requested, lists) # {} \/ \A n \in Names : ~Settled(n)
  /\ phase = "setup" => \A n \in Names : n \in _test_filter_retry => ~Settled(n)
  /\ phase = "tests" => \A n \in Names : n \in _test_filter_retry /\ Settled(n) =>
       /\ \A a \in DOMAIN pending : pending[a] # n
       /\ \A i \in DOMAIN Tests :
            i >= func => \A b \in DOMAIN Tests[i].names : Tests[i].names[b] # n

RecordsInv == TypeOK /\ PhaseInv /\ OneVerdict
RunsInv == RecordsInv /\ PendingInv /\ RetryInv
-----------------------------------------------------------------------------
(* What OneVerdict says of one test. *)
TestOk(ls, la, n) ==
  /\ ls.executed[n] <= 1
  /\ ls.passed[n] + ls.failed[n] + ls.skipped[n] + ls.error[n] = ls.executed[n]
  /\ \A v \in Verdicts : la[n].verdict = v => ls[v][n] = 1

AllOk(ls, la) == \A n \in Names : TestOk(ls, la, n)

LEMMA OneVerdictIs == OneVerdict <=> (phase # "stopped" => AllOk(lists, last))
BY Zenon DEF OneVerdict, AllOk, TestOk

LEMMA ListNames ==
  /\ "executed" \in Lists /\ "passed" \in Lists /\ "failed" \in Lists
  /\ "skipped" \in Lists /\ "error" \in Lists
  /\ \A v \in Verdicts : v \in Lists /\ v # "executed"
BY DEF Lists, Verdicts

LEMMA NamesAreEntries == \A n \in Names : n \in Entries
BY Zenon DEF Entries

RecordLists == [Lists -> [Entries -> Nat]]

(* Only the records of n differ. *)
OthersStay(ls, ls2, n) ==
  \A l \in Lists, m \in Entries : m # n => ls2[l][m] = ls[l][m]

Removed(ls, ls2, n) ==
  ls2 \in RecordLists /\ OthersStay(ls, ls2, n) /\ \A l \in Lists : ls2[l][n] = 0

Added(ls, ls2, n, v) ==
  /\ ls2 \in RecordLists /\ OthersStay(ls, ls2, n)
  /\ \A l \in Lists : (l = v \/ l = "executed") => ls2[l][n] = 1
  /\ \A l \in Lists : l # v /\ l # "executed" => ls2[l][n] = 0

LEMMA RemoveRecordIs ==
  ASSUME NEW ls \in RecordLists, NEW n \in Entries
  PROVE  Removed(ls, removeRecord(ls, n), n)
<1> DEFINE f(l) == [ls[l] EXCEPT ![n] = 0]
<1>1. ASSUME NEW l \in Lists
      PROVE  /\ f(l) \in [Entries -> Nat] /\ f(l)[n] = 0
             /\ \A m \in Entries : m # n => f(l)[m] = ls[l][m]
  <2>1. ls[l] \in [Entries -> Nat]
    BY Zenon DEF RecordLists
  <2> QED BY <2>1
<1>2. removeRecord(ls, n) = [l \in Lists |-> f(l)]
  BY Zenon DEF removeRecord
<1> HIDE DEF f
<1> QED BY <1>1, <1>2, Zenon DEF Removed, OthersStay, RecordLists

(* addRecord leaves one record of n in executed and one in the list of the *)
(* verdict.                                                                *)
LEMMA AddRecordIs ==
  ASSUME NEW ls \in RecordLists, NEW n \in Entries, NEW v
  PROVE  Added(ls, addRecord(ls, n, v), n, v)
<1>1. PICK r : r = removeRecord(ls, n)
  BY Zenon
<1>2. Removed(ls, r, n)
  BY <1>1, RemoveRecordIs, Zenon
<1> DEFINE f(l) == IF l \in {v, "executed"} THEN [r[l] EXCEPT ![n] = @ + 1] ELSE r[l]
<1>3. ASSUME NEW l \in Lists
      PROVE  /\ f(l) \in [Entries -> Nat]
             /\ (l = v \/ l = "executed") => f(l)[n] = 1
             /\ l # v /\ l # "executed" => f(l)[n] = 0
             /\ \A m \in Entries : m # n => f(l)[m] = r[l][m]
  <2>1. r[l] \in [Entries -> Nat] /\ r[l][n] = 0
    BY <1>2, Zenon DEF Removed, RecordLists
  <2> QED BY <2>1
<1>4. PICK ls2 : ls2 = addRecord(ls, n, v)
  BY Zenon
<1>5. ls2 = [l \in Lists |-> f(l)]
  BY <1>1, <1>4, Zenon DEF addRecord
<1> HIDE DEF f
<1>6. ls2 \in RecordLists
  BY <1>3, <1>5, Zenon DEF RecordLists
<1>7. OthersStay(ls, ls2, n)
  BY <1>2, <1>3, <1>5, Zenon DEF OthersStay, Removed
<1>8. Added(ls, ls2, n, v)
  BY <1>3, <1>5, <1>6, <1>7, Zenon DEF Added
<1> QED BY <1>4, <1>8, Zenon

(* A test whose records and last execution stay is right as before. *)
LEMMA TestStaysOk ==
  ASSUME NEW ls, NEW la, NEW ls2, NEW la2, NEW n, TestOk(ls, la, n),
         \A l \in Lists : ls2[l][n] = ls[l][n], la2[n].verdict = la[n].verdict
  PROVE  TestOk(ls2, la2, n)
<1>1. /\ ls2.executed[n] = ls.executed[n] /\ ls2.passed[n] = ls.passed[n]
      /\ ls2.failed[n] = ls.failed[n] /\ ls2.skipped[n] = ls.skipped[n]
      /\ ls2.error[n] = ls.error[n]
  BY ListNames, Zenon
<1> QED BY <1>1, ListNames, Zenon DEF TestOk

(* What an execution with verdict v does to the records. *)
Recorded(ls, n, v) ==
  IF v \in Verdicts THEN addRecord(ls, n, v)
  ELSE IF v = "removed" THEN removeRecord(ls, n) ELSE ls

Ends == Verdicts \cup {"kept", "removed"}

LEMMA RecordedIsOk ==
  ASSUME NEW ls \in RecordLists, NEW la, NEW n \in Names, NEW v \in Ends, NEW o,
         la \in [Names -> LastRecords], AllOk(ls, la)
  PROVE  /\ Recorded(ls, n, v) \in RecordLists
         /\ AllOk(Recorded(ls, n, v), [la EXCEPT ![n] = [outcome |-> o, verdict |-> v]])
<1>1. PICK ls2 : ls2 = Recorded(ls, n, v)
  BY Zenon
<1>2. PICK la2 : la2 = [la EXCEPT ![n] = [outcome |-> o, verdict |-> v]]
  BY Zenon
<1>3. la2[n].verdict = v /\ \A m \in Names : m # n => la2[m] = la[m]
  BY <1>2, Zenon
<1>4. n \in Entries
  BY NamesAreEntries, Zenon
<1>5. ls2 \in RecordLists /\ OthersStay(ls, ls2, n)
  <2>1. CASE v \in Verdicts
    <3>1. ls2 = addRecord(ls, n, v)
      BY <1>1, <2>1, Zenon DEF Recorded
    <3>2. Added(ls, ls2, n, v)
      BY <1>4, <3>1, AddRecordIs, Zenon
    <3> QED BY <3>2, Zenon DEF Added
  <2>2. CASE v \notin Verdicts /\ v = "removed"
    <3>1. ls2 = removeRecord(ls, n)
      BY <1>1, <2>2, Zenon DEF Recorded
    <3>2. Removed(ls, ls2, n)
      BY <1>4, <3>1, RemoveRecordIs, Zenon
    <3> QED BY <3>2, Zenon DEF Removed
  <2>3. CASE v \notin Verdicts /\ v # "removed"
    BY <1>1, <2>3, Zenon DEF Recorded, OthersStay
  <2> QED BY <2>1, <2>2, <2>3, Zenon
<1>6. ASSUME NEW m \in Names, m # n PROVE TestOk(ls2, la2, m)
  <2>1. \A l \in Lists : ls2[l][m] = ls[l][m]
    BY <1>5, <1>6, NamesAreEntries, Zenon DEF OthersStay
  <2>2. la2[m].verdict = la[m].verdict
    BY <1>3, <1>6, Zenon
  <2> QED BY <2>1, <2>2, TestStaysOk, Zenon DEF AllOk
<1>7. TestOk(ls2, la2, n)
  <2>1. CASE v \in Verdicts
    <3>1. Added(ls, ls2, n, v)
      <4>1. ls2 = addRecord(ls, n, v)
        BY <1>1, <2>1, Zenon DEF Recorded
      <4> QED BY <1>4, <4>1, AddRecordIs, Zenon
    <3>2. /\ ls2.executed[n] = 1
          /\ ls2.passed[n] = IF v = "passed" THEN 1 ELSE 0
          /\ ls2.failed[n] = IF v = "failed" THEN 1 ELSE 0
          /\ ls2.skipped[n] = IF v = "skipped" THEN 1 ELSE 0
          /\ ls2.error[n] = IF v = "error" THEN 1 ELSE 0
      <4>1. \A l \in Lists : l # "executed" => ls2[l][n] = IF v = l THEN 1 ELSE 0
        BY <3>1, Zenon DEF Added
      <4>2. ls2.executed[n] = 1
        BY <3>1, ListNames, Zenon DEF Added
      <4>3. /\ "passed" # "executed" /\ "failed" # "executed"
            /\ "skipped" # "executed" /\ "error" # "executed"
        OBVIOUS
      <4> QED BY <4>1, <4>2, <4>3, ListNames, Zenon
    <3>3. ls2[v][n] = 1
      BY <2>1, <3>1, ListNames, Zenon DEF Added
    <3>4. ls2.passed[n] + ls2.failed[n] + ls2.skipped[n] + ls2.error[n] = ls2.executed[n]
      BY <2>1, <3>2 DEF Verdicts
    <3>5. ls2.executed[n] <= 1
      BY <3>2
    <3> QED BY <1>3, <3>3, <3>4, <3>5, Zenon DEF TestOk
  <2>2. CASE v = "removed"
    <3>1. v \notin Verdicts
      BY <2>2 DEF Verdicts
    <3>2. \A l \in Lists : ls2[l][n] = 0
      <4>1. ls2 = removeRecord(ls, n)
        BY <1>1, <2>2, <3>1, Zenon DEF Recorded
      <4> QED BY <1>4, <4>1, RemoveRecordIs, Zenon DEF Removed
    <3>3. /\ ls2.executed[n] = 0 /\ ls2.passed[n] = 0 /\ ls2.failed[n] = 0
          /\ ls2.skipped[n] = 0 /\ ls2.error[n] = 0
      BY <3>2, ListNames, Zenon
    <3>4. /\ ls2.executed[n] <= 1
          /\ ls2.passed[n] + ls2.failed[n] + ls2.skipped[n] + ls2.error[n] = ls2.executed[n]
      BY <3>3
    <3> QED BY <1>3, <3>1, <3>4, Zenon DEF TestOk
  <2>3. CASE v = "kept"
    <3>1. v \notin Verdicts /\ v # "removed"
      BY <2>3 DEF Verdicts
    <3>2. ls2 = ls
      BY <1>1, <3>1, Zenon DEF Recorded
    <3> QED BY <1>3, <3>1, <3>2, Zenon DEF AllOk, TestOk
  <2> QED BY <2>1, <2>2, <2>3, Zenon DEF Ends
<1> QED BY <1>1, <1>2, <1>5, <1>6, <1>7, Zenon DEF AllOk
-----------------------------------------------------------------------------
(* A test that passed or was skipped is not among the non-passing tests.   *)
LEMMA SettledIsPassing ==
  ASSUME NEW req, NEW ls \in RecordLists, NEW la, NEW n \in Names, TestOk(ls, la, n),
         la[n].verdict \in {"passed", "skipped"}
  PROVE  n \notin NonPassing(req, ls)
<1>1. /\ ls.executed[n] \in Nat /\ ls.passed[n] \in Nat /\ ls.failed[n] \in Nat
      /\ ls.skipped[n] \in Nat /\ ls.error[n] \in Nat
  BY ListNames, NamesAreEntries, Zenon DEF RecordLists
<1>2. ls.passed[n] = 1 \/ ls.skipped[n] = 1
  <2>1. "passed" \in Verdicts /\ "skipped" \in Verdicts
    BY Zenon DEF Verdicts
  <2> QED BY <2>1, Zenon DEF TestOk
<1>3. /\ ls.executed[n] <= 1
      /\ ls.passed[n] + ls.failed[n] + ls.skipped[n] + ls.error[n] = ls.executed[n]
  BY Zenon DEF TestOk
<1>4. ls.executed[n] # 0 /\ ~ (ls.failed[n] + ls.error[n] > 0)
  BY <1>1, <1>2, <1>3
<1> QED BY <1>4, Zenon DEF NonPassing, NonExecuted

(* How an attempt ends. *)
Left(req, ls, raised) ==
  /\ phase' \in {"stop", "heal"} /\ pending' = <<>> /\ class_up' = FALSE
  /\ phase' = "heal" => NonPassing(req, ls) # {} /\ raised \notin {"class", "all"}
  /\ aborted' \in {aborted, "teardown"} \/ (aborted' = "test" /\ raised \in {"class", "all"})

LEMMA EndTestsLeaves ==
  ASSUME NEW req, NEW ls, NEW raised, NEW rep, EndTests(req, ls, raised, rep)
  PROVE  Left(req, ls, raised)
<1>1. PICK final : final = IsFinal(req, ls, raised)
  BY Zenon
<1>2. LeaveAttempt(final)
  BY <1>1, Zenon DEF EndTests
<1>3. class_up' = FALSE
  BY Zenon DEF EndTests, _tearDownClass
<1>4. aborted' \in {aborted, "teardown"} \/ (aborted' = "test" /\ raised \in {"class", "all"})
  BY Zenon DEF EndTests
<1>5. phase' \in {"stop", "heal"} /\ pending' = <<>> /\ (phase' = "heal" => ~ final)
  <2>1. "stop" # "heal"
    OBVIOUS
  <2> QED BY <1>2, <2>1, Zenon DEF LeaveAttempt
<1>6. ~ final => NonPassing(req, ls) # {} /\ raised \notin {"class", "all"}
  BY <1>1, Zenon DEF IsFinal
<1> QED BY <1>3, <1>4, <1>5, <1>6, Zenon DEF Left

(* After the attempt the phase's invariants hold again. *)
LEMMA LeftIsSafe ==
  ASSUME PhaseInv, phase = "tests", aborted \in Signals, NEW req, NEW ls, NEW raised,
         Left(req, ls, raised), req = requested', ls = lists'
  PROVE  /\ phase' \in Phases /\ pending' \in Seq(Names) /\ class_up' \in BOOLEAN
         /\ aborted' \in Signals /\ PhaseInv' /\ PendingInv' /\ RetryInv'
<1>1. /\ "tests" # "stop" /\ "tests" # "heal" /\ "setup" # "stop" /\ "setup" # "heal"
      /\ "tests" # "stopped" /\ "test" # "teardown" /\ "setup" # "tests"
  OBVIOUS
<1>2. phase' \in {"stop", "heal"} /\ pending' = <<>> /\ class_up' = FALSE
  BY Zenon DEF Left
<1>3. phase' \in Phases /\ class_up' \in BOOLEAN
  BY <1>2, Zenon DEF Phases
<1>4. aborted' \in Signals
  BY Zenon DEF Left, Signals
<1>5. aborted # "test"
  BY <1>1, Zenon DEF PhaseInv
<1>6. aborted' = "test" => phase' = "stop"
  BY <1>1, <1>5, Zenon DEF Left
<1>7. PhaseInv'
  BY <1>1, <1>2, <1>6, Zenon DEF PhaseInv
<1>8. PendingInv'
  BY <1>1, <1>2, Zenon DEF PendingInv
<1>9. RetryInv'
  <2>1. phase' = "heal" => NonPassing(requested', lists') # {}
    BY Zenon DEF Left
  <2>2. phase' # "setup" /\ phase' # "tests"
    BY <1>1, <1>2, Zenon
  <2>3. NonPassing(requested, lists)' = NonPassing(requested', lists')
    BY Zenon DEF NonPassing, NonExecuted
  <2> QED BY <2>1, <2>2, <2>3, Zenon DEF RetryInv
<1>10. pending' \in Seq(Names)
  BY <1>2
<1> QED BY <1>3, <1>4, <1>7, <1>8, <1>9, <1>10, Zenon
-----------------------------------------------------------------------------
LEMMA InitHolds == Init => RunsInv
<1> SUFFICES ASSUME Init PROVE RunsInv
  OBVIOUS
<1>1. /\ phase = "setup" /\ func = 1 /\ pending = <<>> /\ _test_filter_retry = Names
      /\ lists = [l \in Lists |-> [n \in Entries |-> 0]] /\ class_up = FALSE
      /\ aborted = "no" /\ ran = [n \in Names |-> 0]
      /\ last = [n \in Names |-> [outcome |-> "none", verdict |-> "none"]]
  BY Zenon DEF Init
<1>2. [outcome |-> "none", verdict |-> "none"] \in LastRecords
  BY Zenon DEF LastRecords
<1>3. lists \in RecordLists
  <2>1. 0 \in Nat
    OBVIOUS
  <2> QED BY <1>1, <2>1, Zenon DEF RecordLists
<1>4. TypeOK
  <2>1. 1 \in Nat /\ 0 \in Nat /\ <<>> \in Seq(Names)
    OBVIOUS
  <2>2. ran \in [Names -> Nat] /\ last \in [Names -> LastRecords]
    BY <1>1, <1>2, <2>1, Zenon
  <2>3. phase \in Phases /\ class_up \in BOOLEAN /\ aborted \in Signals
    BY <1>1, Zenon DEF Phases, Signals
  <2>4. func \in Nat /\ pending \in Seq(Names)
    BY <1>1, <2>1, Zenon
  <2> QED BY <1>3, <2>2, <2>3, <2>4, Zenon DEF TypeOK, RecordLists
<1>5. \A n \in Names : last[n].verdict = "none"
  BY <1>1
<1>6. \A n \in Names : ~ Settled(n)
  BY <1>5 DEF Settled
<1>7. PhaseInv
  <2>1. "no" # "test"
    OBVIOUS
  <2> QED BY <1>1, <2>1, Zenon DEF PhaseInv
<1>8. PendingInv /\ RetryInv
  <2>1. "setup" # "tests"
    OBVIOUS
  <2> QED BY <1>1, <1>6, <2>1, Zenon DEF PendingInv, RetryInv
<1>9. OneVerdict
  <2>1. ASSUME NEW n \in Names PROVE TestOk(lists, last, n)
    <3>1. \A l \in Lists : lists[l][n] = 0
      BY <1>1, NamesAreEntries, Zenon
    <3>2. /\ lists.executed[n] = 0 /\ lists.passed[n] = 0 /\ lists.failed[n] = 0
          /\ lists.skipped[n] = 0 /\ lists.error[n] = 0
      BY <3>1, ListNames, Zenon
    <3>3. /\ lists.executed[n] <= 1
          /\ lists.passed[n] + lists.failed[n] + lists.skipped[n] + lists.error[n]
               = lists.executed[n]
      BY <3>2
    <3>4. last[n].verdict \notin Verdicts
      BY <1>5 DEF Verdicts
    <3> QED BY <3>3, <3>4, Zenon DEF TestOk
  <2> QED BY <2>1, OneVerdictIs, Zenon DEF AllOk
<1> QED BY <1>4, <1>7, <1>8, <1>9, Zenon DEF RunsInv, RecordsInv
-----------------------------------------------------------------------------
(* What a step has to show: the records need nothing of the names, the     *)
(* order of the runs needs that they differ.                               *)
StepIsSafe ==
  RecordsInv' /\ (DistinctNames /\ PendingInv /\ RetryInv => PendingInv' /\ RetryInv')

(* Steps that leave the records and the histories alone. *)
LEMMA RecordsStay ==
  ASSUME RecordsInv, phase # "stopped", phase' \in Phases, func' \in Nat,
         pending' \in Seq(Names), class_up' \in BOOLEAN, aborted' \in Signals, PhaseInv',
         UNCHANGED <<lists, ran, last>>
  PROVE  RecordsInv'
<1>1. TypeOK'
  BY Zenon DEF RecordsInv, TypeOK
<1>2. AllOk(lists, last)
  BY OneVerdictIs, Zenon DEF RecordsInv
<1>3. AllOk(lists', last')
  BY <1>2, Zenon
<1>4. OneVerdict'
  BY <1>3, Zenon DEF OneVerdict, AllOk, TestOk
<1> QED BY <1>1, <1>4, Zenon DEF RecordsInv

LEMMA PhaseNames ==
  /\ "setup" # "tests" /\ "setup" # "heal" /\ "setup" # "stop" /\ "setup" # "stopped"
  /\ "tests" # "heal" /\ "tests" # "stop" /\ "tests" # "stopped" /\ "heal" # "stop"
  /\ "heal" # "stopped" /\ "stop" # "stopped" /\ "test" # "teardown" /\ 1 \in Nat
OBVIOUS

LEMMA NonPassingIs == NonPassing(requested, lists)' = NonPassing(requested', lists')
BY Zenon DEF NonPassing, NonExecuted

LEMMA SetUpClassStep ==
  ASSUME RecordsInv, SetUpClass
  PROVE  StepIsSafe
<1>1. /\ phase = "setup" /\ phase' = "tests" /\ func' = 1 /\ class_up' = TRUE
      /\ pending' = pending /\ _test_filter_retry' = _test_filter_retry
      /\ UNCHANGED <<lists, ran, last>> /\ aborted' = aborted
  BY Zenon DEF SetUpClass, history
<1>2. pending = <<>> /\ aborted # "test"
  BY <1>1, PhaseNames, Zenon DEF RecordsInv, PhaseInv
<1>3. PhaseInv'
  BY <1>1, <1>2, PhaseNames, Zenon DEF PhaseInv
<1>4. RecordsInv'
  <2>1. phase' \in Phases /\ class_up' \in BOOLEAN
    BY <1>1, Zenon DEF Phases
  <2> QED BY <1>1, <1>3, <2>1, PhaseNames, RecordsStay, Zenon DEF RecordsInv, TypeOK
<1>5. DOMAIN pending = {}
  BY <1>2
<1>6. PendingInv'
  BY <1>1, <1>5, Zenon DEF PendingInv
<1>7. ASSUME RetryInv PROVE RetryInv'
  <2>1. \A n \in Names : n \in _test_filter_retry => ~ Settled(n)
    BY <1>1, <1>7, Zenon DEF RetryInv
  <2>2. \A n \in Names : n \in _test_filter_retry' => ~ Settled(n)'
    BY <1>1, <2>1, Zenon DEF Settled
  <2> QED BY <1>1, <2>2, PhaseNames, Zenon DEF RetryInv
<1> QED BY <1>4, <1>6, <1>7, Zenon DEF StepIsSafe

LEMMA RetrySetUpClassStep ==
  ASSUME RecordsInv, RetrySetUpClass
  PROVE  StepIsSafe
<1>1. UNCHANGED <<phase, func, pending, _test_filter_retry, requested, lists, class_up, ran,
                  last, aborted>>
  BY Zenon DEF RetrySetUpClass, history
<1>2. RecordsInv'
  BY <1>1, Zenon DEF RecordsInv, TypeOK, PhaseInv, OneVerdict
<1>3. PendingInv => PendingInv'
  BY <1>1, Zenon DEF PendingInv
<1>4. RetryInv => RetryInv'
  BY <1>1, NonPassingIs, Zenon DEF RetryInv, Settled
<1> QED BY <1>2, <1>3, <1>4, Zenon DEF StepIsSafe

(* A setup that ends the attempt. *)
LEMMA LeaveSetUpStep ==
  ASSUME RecordsInv, phase = "setup", NEW final, LeaveAttempt(final), class_up' = FALSE,
         aborted' \in {aborted, "teardown"},
         UNCHANGED <<func, _test_filter_retry, requested, lists, ran, last>>
  PROVE  StepIsSafe
<1>1. phase' \in {"stop", "heal"} /\ pending' = <<>>
  BY Zenon DEF LeaveAttempt
<1>2. aborted # "test"
  BY PhaseNames, Zenon DEF RecordsInv, PhaseInv
<1>3. PhaseInv'
  BY <1>1, <1>2, PhaseNames, Zenon DEF PhaseInv
<1>4. RecordsInv'
  <2>1. phase' \in Phases /\ class_up' \in BOOLEAN /\ aborted' \in Signals
    BY <1>1, Zenon DEF Phases, Signals, RecordsInv, TypeOK
  <2>2. pending' \in Seq(Names)
    BY <1>1
  <2> QED BY <1>3, <2>1, <2>2, PhaseNames, RecordsStay, Zenon DEF RecordsInv, TypeOK
<1>5. PendingInv'
  BY <1>1, PhaseNames, Zenon DEF PendingInv
<1>6. ASSUME RetryInv PROVE RetryInv'
  <2>1. NonPassing(requested, lists) # {} \/ \A n \in Names : ~ Settled(n)
    BY <1>6, Zenon DEF RetryInv
  <2>2. NonPassing(requested', lists') # {} \/ \A n \in Names : ~ Settled(n)'
    BY <2>1, Zenon DEF Settled
  <2>3. phase' # "setup" /\ phase' # "tests"
    BY <1>1, PhaseNames, Zenon
  <2> QED BY <2>2, <2>3, NonPassingIs, Zenon DEF RetryInv
<1> QED BY <1>4, <1>5, <1>6, Zenon DEF StepIsSafe

LEMMA RestartServicesRaisesStep ==
  ASSUME RecordsInv, RestartServicesRaises
  PROVE  StepIsSafe
<1>1. /\ phase = "setup" /\ LeaveAttempt(_is_final_run) /\ class_up' = class_up
      /\ aborted' = aborted
      /\ UNCHANGED <<func, _test_filter_retry, requested, lists, ran, last>>
  BY Zenon DEF RestartServicesRaises, history
<1>2. class_up = FALSE
  BY <1>1, PhaseNames, Zenon DEF RecordsInv, PhaseInv, TypeOK
<1>3. PICK final : final = _is_final_run
  BY Zenon
<1> QED BY <1>1, <1>2, <1>3, LeaveSetUpStep, Zenon

LEMMA FailSetUpClassStep ==
  ASSUME RecordsInv, FailSetUpClass
  PROVE  StepIsSafe
<1>1. PICK td \in TearDowns :
        /\ _tearDownClass(td, requested, lists, class_errors + 1, report)
        /\ LeaveAttempt(td = "ok" \/ _is_final_run)
        /\ aborted' = IF td = "abort" THEN "teardown" ELSE aborted
  BY Zenon DEF FailSetUpClass
<1>2. phase = "setup" /\ UNCHANGED <<func, _test_filter_retry, requested, lists, ran, last>>
  BY Zenon DEF FailSetUpClass, history
<1>3. class_up' = FALSE
  BY <1>1, Zenon DEF _tearDownClass
<1>4. PICK final : final = (td = "ok" \/ _is_final_run)
  BY Zenon
<1>5. LeaveAttempt(final)
  BY <1>1, <1>4, Zenon
<1>6. aborted' \in {aborted, "teardown"}
  BY <1>1, Zenon
<1> QED BY <1>2, <1>3, <1>5, <1>6, LeaveSetUpStep, Zenon
-----------------------------------------------------------------------------
LEMMA SeqElement ==
  ASSUME NEW S, NEW s \in Seq(S), NEW i \in DOMAIN s
  PROVE  i \in Nat /\ s[i] \in S
OBVIOUS

LEMMA TestNames ==
  ASSUME NEW i \in DOMAIN Tests
  PROVE  /\ i \in Nat /\ Tests[i].names \in Seq(Names)
<1>1. Tests[i] \in [generate : BOOLEAN, names : Seq(STRING)] /\ i \in Nat
  BY TestsAssumption, SeqElement, Zenon
<1>2. PICK s : s = Tests[i].names
  BY Zenon
<1>3. s \in Seq(STRING)
  BY <1>1, <1>2, Zenon
<1>4. \A a \in DOMAIN s : s[a] \in Names
  <2>1. \A a \in DOMAIN s : s[a] \in Range(s)
    BY Zenon DEF Range
  <2>2. Range(s) \in {Range(Tests[j].names) : j \in DOMAIN Tests}
    BY <1>2, Zenon
  <2> QED BY <2>1, <2>2, Zenon DEF Names
<1>5. s \in Seq(Names)
  BY <1>3, <1>4
<1> QED BY <1>1, <1>2, <1>5, Zenon

LEMMA StartFunctionStep ==
  ASSUME RecordsInv, StartFunction
  PROVE  StepIsSafe
<1>1. PICK f : f = func
  BY Zenon
<1>2. /\ phase = "tests" /\ phase' = "tests" /\ f \in DOMAIN Tests
      /\ pending' = Tests[f].names /\ func' = f + 1
      /\ _test_filter_retry' = _test_filter_retry /\ class_up' = class_up
      /\ aborted' = aborted /\ UNCHANGED <<lists, ran, last>>
  BY <1>1, Zenon DEF StartFunction
<1>3. f \in Nat /\ Tests[f].names \in Seq(Names)
  BY <1>2, TestNames, Zenon
<1>4. f + 1 \in Nat /\ \A i \in Nat : i >= f + 1 => i >= f /\ i # f
  BY <1>3
<1>5. PhaseInv'
  BY <1>2, PhaseNames, Zenon DEF RecordsInv, PhaseInv
<1>6. RecordsInv'
  BY <1>2, <1>3, <1>4, <1>5, PhaseNames, RecordsStay, Zenon DEF RecordsInv, TypeOK
<1>7. ASSUME DistinctNames PROVE PendingInv'
  <2>1. \A a, b \in DOMAIN Tests[f].names :
          Tests[f].names[a] = Tests[f].names[b] => a = b
    BY <1>2, <1>7, Zenon DEF DistinctNames
  <2>2. \A a \in DOMAIN Tests[f].names, i \in DOMAIN Tests : i >= f + 1 =>
          \A b \in DOMAIN Tests[i].names : Tests[i].names[b] # Tests[f].names[a]
    BY <1>2, <1>4, <1>7, TestNames, Zenon DEF DistinctNames
  <2> QED BY <1>2, <2>1, <2>2, Zenon DEF PendingInv
<1>8. ASSUME RetryInv PROVE RetryInv'
  <2>1. \A n \in Names : n \in _test_filter_retry /\ Settled(n) =>
          \A i \in DOMAIN Tests :
            i >= f => \A b \in DOMAIN Tests[i].names : Tests[i].names[b] # n
    BY <1>1, <1>2, <1>8, Zenon DEF RetryInv
  <2>2. f >= f
    BY <1>3
  <2>3. \A n \in Names : n \in _test_filter_retry' /\ Settled(n)' =>
          /\ \A a \in DOMAIN pending' : pending'[a] # n
          /\ \A i \in DOMAIN Tests :
               i >= func' => \A b \in DOMAIN Tests[i].names : Tests[i].names[b] # n
    <3> SUFFICES ASSUME NEW n \in Names, n \in _test_filter_retry, Settled(n)
                 PROVE  /\ \A a \in DOMAIN pending' : pending'[a] # n
                        /\ \A i \in DOMAIN Tests : i >= func' =>
                             \A b \in DOMAIN Tests[i].names : Tests[i].names[b] # n
      BY <1>2, Zenon DEF Settled
    <3>1. \A i \in DOMAIN Tests :
            i >= f => \A b \in DOMAIN Tests[i].names : Tests[i].names[b] # n
      BY <2>1, Zenon
    <3>2. \A a \in DOMAIN pending' : pending'[a] # n
      BY <1>2, <2>2, <3>1, Zenon
    <3>3. \A i \in DOMAIN Tests : i >= func' => i >= f
      BY <1>2, <1>4, TestNames, Zenon
    <3> QED BY <3>1, <3>2, <3>3, Zenon
  <2> QED BY <1>2, <2>3, PhaseNames, Zenon DEF RetryInv
<1> QED BY <1>6, <1>7, <1>8, Zenon DEF StepIsSafe

(* The cases that are pending after the first: they were pending before,   *)
(* and differ from it.                                                     *)
LEMMA TailOfPending ==
  ASSUME NEW s \in Seq(Names), s # <<>>
  PROVE  /\ 1 \in DOMAIN s /\ Head(s) = s[1] /\ Head(s) \in Names /\ Tail(s) \in Seq(Names)
         /\ \A a \in DOMAIN Tail(s) :
              a + 1 \in DOMAIN s /\ Tail(s)[a] = s[a + 1] /\ a + 1 # 1
         /\ \A a, b \in DOMAIN Tail(s) : a + 1 = b + 1 => a = b
OBVIOUS

(* When the first pending case is done, whatever it was recorded as, the   *)
(* order of what is still to come stays safe.                              *)
LEMMA PopIsSafe ==
  ASSUME TypeOK, phase = "tests", phase' = "tests", pending # <<>>, pending' = Tail(pending),
         UNCHANGED <<func, _test_filter_retry>>, PendingInv, RetryInv,
         \A n \in Names : n # Head(pending) => (Settled(n)' => Settled(n))
  PROVE  PendingInv' /\ RetryInv'
<1>1. PICK s \in Seq(Names) : s = pending
  BY Zenon DEF TypeOK
<1>2. /\ 1 \in DOMAIN s /\ Head(s) = s[1] /\ Head(s) \in Names
      /\ \A a \in DOMAIN Tail(s) :
           a + 1 \in DOMAIN s /\ Tail(s)[a] = s[a + 1] /\ a + 1 # 1
      /\ \A a, b \in DOMAIN Tail(s) : a + 1 = b + 1 => a = b
  BY <1>1, TailOfPending, Zenon
<1>3. /\ \A a, b \in DOMAIN s : s[a] = s[b] => a = b
      /\ \A a \in DOMAIN s, i \in DOMAIN Tests :
           i >= func => \A b \in DOMAIN Tests[i].names : Tests[i].names[b] # s[a]
  BY <1>1, Zenon DEF PendingInv
<1>4. \A a, b \in DOMAIN Tail(s) : Tail(s)[a] = Tail(s)[b] => a = b
  <2> SUFFICES ASSUME NEW a \in DOMAIN Tail(s), NEW b \in DOMAIN Tail(s),
                      Tail(s)[a] = Tail(s)[b]
               PROVE  a = b
    BY Zenon
  <2>1. a + 1 \in DOMAIN s /\ b + 1 \in DOMAIN s /\ s[a + 1] = s[b + 1]
    BY <1>2, Zenon
  <2>2. a + 1 = b + 1
    BY <1>3, <2>1, Zenon
  <2> QED BY <1>2, <2>2, Zenon
<1>5. \A a \in DOMAIN Tail(s), i \in DOMAIN Tests :
        i >= func => \A b \in DOMAIN Tests[i].names : Tests[i].names[b] # Tail(s)[a]
  <2> SUFFICES ASSUME NEW a \in DOMAIN Tail(s), NEW i \in DOMAIN Tests, i >= func,
                      NEW b \in DOMAIN Tests[i].names
               PROVE  Tests[i].names[b] # Tail(s)[a]
    BY Zenon
  <2>1. a + 1 \in DOMAIN s /\ Tail(s)[a] = s[a + 1]
    BY <1>2, Zenon
  <2> QED BY <1>3, <2>1, Zenon
<1>6. PendingInv'
  <2>1. pending' = Tail(s) /\ func' = func
    BY <1>1, Zenon
  <2> QED BY <1>4, <1>5, <2>1, Zenon DEF PendingInv
<1>7. ASSUME NEW n \in Names, n \in _test_filter_retry, Settled(n)'
      PROVE  /\ \A a \in DOMAIN Tail(s) : Tail(s)[a] # n
             /\ \A i \in DOMAIN Tests :
                  i >= func => \A b \in DOMAIN Tests[i].names : Tests[i].names[b] # n
  <2>2. CASE n = s[1]
    BY <1>2, <1>3, <2>2, Zenon
  <2>3. CASE n # s[1]
    <3>1. Settled(n)
      BY <1>1, <1>2, <1>7, <2>3, Zenon
    <3>2. /\ \A a \in DOMAIN s : s[a] # n
          /\ \A i \in DOMAIN Tests :
               i >= func => \A b \in DOMAIN Tests[i].names : Tests[i].names[b] # n
      BY <1>1, <1>7, <3>1, Zenon DEF RetryInv
    <3> QED BY <1>2, <3>2, Zenon
  <2> QED BY <2>2, <2>3, Zenon
<1>8. RetryInv'
  BY <1>1, <1>7, PhaseNames, Zenon DEF RetryInv
<1> QED BY <1>6, <1>8, Zenon

LEMMA FilteredInRetryStep ==
  ASSUME RecordsInv, FilteredInRetry
  PROVE  StepIsSafe
<1>1. /\ phase = "tests" /\ phase' = "tests" /\ pending # <<>> /\ pending' = Tail(pending)
      /\ func' = func /\ _test_filter_retry' = _test_filter_retry
      /\ class_up' = class_up /\ aborted' = aborted /\ UNCHANGED <<lists, ran, last>>
  BY Zenon DEF FilteredInRetry, history
<1>2. pending' \in Seq(Names)
  BY <1>1, TailOfPending, Zenon DEF RecordsInv, TypeOK
<1>3. PhaseInv'
  BY <1>1, PhaseNames, Zenon DEF RecordsInv, PhaseInv
<1>4. RecordsInv'
  BY <1>1, <1>2, <1>3, PhaseNames, RecordsStay, Zenon DEF RecordsInv, TypeOK
<1>5. \A n \in Names : Settled(n)' => Settled(n)
  BY <1>1, Zenon DEF Settled
<1>6. PendingInv /\ RetryInv => PendingInv' /\ RetryInv'
  BY <1>1, <1>5, PopIsSafe, Zenon DEF RecordsInv
<1> QED BY <1>4, <1>6, Zenon DEF StepIsSafe
-----------------------------------------------------------------------------
(* The end of the tests of an attempt. *)
LEMMA EndStep ==
  ASSUME RecordsInv, phase = "tests", NEW req, NEW ls, NEW raised, Left(req, ls, raised),
         req = requested', ls = lists', ls \in RecordLists, AllOk(lists', last'),
         ran' \in [Names -> Nat], last' \in [Names -> LastRecords],
         UNCHANGED <<func, _test_filter_retry>>
  PROVE  StepIsSafe
<1>1. /\ phase' \in Phases /\ pending' \in Seq(Names) /\ class_up' \in BOOLEAN
      /\ aborted' \in Signals /\ PhaseInv' /\ PendingInv' /\ RetryInv'
  BY LeftIsSafe, Zenon DEF RecordsInv, TypeOK
<1>2. TypeOK'
  BY <1>1, Zenon DEF RecordsInv, TypeOK, RecordLists
<1>3. OneVerdict'
  BY Zenon DEF OneVerdict, AllOk, TestOk
<1> QED BY <1>1, <1>2, <1>3, Zenon DEF RecordsInv, StepIsSafe

LEMMA TriggerRaisesStep ==
  ASSUME RecordsInv, TriggerRaises
  PROVE  StepIsSafe
<1>1. /\ phase = "tests" /\ EndTests(requested, lists, "exception", report)
      /\ UNCHANGED <<func, _test_filter_retry, requested, lists, ran, last>>
  BY Zenon DEF TriggerRaises, history
<1>2. PICK req, ls, rep : req = requested /\ ls = lists /\ rep = report
  BY Zenon
<1>3. Left(req, ls, "exception")
  BY <1>1, <1>2, EndTestsLeaves, Zenon
<1>4. AllOk(lists, last) /\ ls \in RecordLists
  BY <1>1, <1>2, PhaseNames, OneVerdictIs, Zenon DEF RecordsInv, TypeOK, RecordLists
<1>5. AllOk(lists', last')
  BY <1>1, <1>4, Zenon
<1> QED BY <1>1, <1>2, <1>3, <1>4, <1>5, EndStep, Zenon DEF RecordsInv, TypeOK

Updated(f, g, A, B, a, b) ==
  g \in [A -> B] /\ g[a] = b /\ \A c \in A : c # a => g[c] = f[c]

LEMMA FunUpdate ==
  ASSUME NEW A, NEW B, NEW f \in [A -> B], NEW a \in A, NEW b \in B
  PROVE  Updated(f, [f EXCEPT ![a] = b], A, B, a, b)
BY Zenon DEF Updated

LEMMA ZeroSum ==
  ASSUME NEW a \in Nat, NEW b \in Nat, NEW c \in Nat, NEW d \in Nat, a + b + c + d = 0
  PROVE  a = 0 /\ b = 0 /\ c = 0 /\ d = 0
OBVIOUS

(* The record of a class whose tests were all skipped. *)
SkipRecorded(ls, ls2) ==
  /\ \A n \in Entries : ls.executed[n] = 0
  /\ ls2 = [ls EXCEPT !.executed["skip_class"] = 1, !.skipped["skip_class"] = 1]

LEMMA SkipClassIsOk ==
  ASSUME NEW ls \in RecordLists, NEW la, AllOk(ls, la), NEW ls2, SkipRecorded(ls, ls2)
  PROVE  ls2 \in RecordLists /\ AllOk(ls2, la)
<1> DEFINE e == "skip_class"
<1>1. PICK x, k : x = [ls.executed EXCEPT ![e] = 1] /\ k = [ls.skipped EXCEPT ![e] = 1]
  BY Zenon
<1>2. e \in Entries
  BY Zenon DEF Entries
<1>3. ls.executed \in [Entries -> Nat] /\ ls.skipped \in [Entries -> Nat] /\ 1 \in Nat
  BY ListNames, PhaseNames, Zenon DEF RecordLists
<1>4. /\ x \in [Entries -> Nat] /\ x[e] = 1 /\ \A n \in Entries : n # e => x[n] = ls.executed[n]
      /\ k \in [Entries -> Nat] /\ k[e] = 1 /\ \A n \in Entries : n # e => k[n] = ls.skipped[n]
  BY <1>1, <1>2, <1>3, Zenon
<1>5. /\ ls2 \in [Lists -> [Entries -> Nat]] /\ ls2["executed"] = x /\ ls2["skipped"] = k
      /\ \A l \in Lists : l # "executed" /\ l # "skipped" => ls2[l] = ls[l]
  <2>1. "executed" # "skipped"
    OBVIOUS
  <2>2. ls2 = [ls EXCEPT !["executed"] = x, !["skipped"] = k]
    BY <1>1, <2>1 DEF RecordLists, SkipRecorded
  <2>3. PICK m : m = [ls EXCEPT !["executed"] = x]
    BY Zenon
  <2>4. /\ m \in [Lists -> [Entries -> Nat]] /\ m["executed"] = x
        /\ \A l \in Lists : l # "executed" => m[l] = ls[l]
    <3>1. Updated(ls, m, Lists, [Entries -> Nat], "executed", x)
      <4>1. ls \in [Lists -> [Entries -> Nat]] /\ "executed" \in Lists
        BY ListNames, Zenon DEF RecordLists
      <4> QED BY <1>4, <2>3, <4>1, FunUpdate, Zenon
    <3> QED BY <3>1, Zenon DEF Updated
  <2>5. ls2 = [m EXCEPT !["skipped"] = k]
    BY <2>2, <2>3, Zenon
  <2>6. /\ ls2 \in [Lists -> [Entries -> Nat]] /\ ls2["skipped"] = k
        /\ \A l \in Lists : l # "skipped" => ls2[l] = m[l]
    <3>1. Updated(m, ls2, Lists, [Entries -> Nat], "skipped", k)
      BY <1>4, <2>4, <2>5, ListNames, FunUpdate, Zenon
    <3> QED BY <3>1, Zenon DEF Updated
  <2> QED BY <2>1, <2>4, <2>6, ListNames, Zenon
<1>6. ASSUME NEW n \in Names, n # e PROVE TestOk(ls2, la, n)
  <2>1. \A l \in Lists : ls2[l][n] = ls[l][n]
    <3>1. n \in Entries
      BY NamesAreEntries, Zenon
    <3>2. x[n] = ls["executed"][n] /\ k[n] = ls["skipped"][n]
      BY <1>4, <1>6, <3>1, Zenon
    <3>3. ASSUME NEW l \in Lists PROVE ls2[l][n] = ls[l][n]
      <4>1. CASE l = "executed" \/ l = "skipped"
        BY <1>5, <3>2, <4>1, Zenon
      <4>2. CASE l # "executed" /\ l # "skipped"
        BY <1>5, <4>2, Zenon
      <4> QED BY <4>1, <4>2, Zenon
    <3> QED BY <3>3, Zenon
  <2>2. TestOk(ls, la, n)
    BY Zenon DEF AllOk
  <2>3. PICK la2 : la2 = la /\ la2[n].verdict = la[n].verdict
    BY Zenon
  <2>4. TestOk(ls2, la2, n)
    BY <2>1, <2>2, <2>3, TestStaysOk, Zenon
  <2> QED BY <2>3, <2>4, Zenon
<1>7. ASSUME e \in Names PROVE TestOk(ls2, la, e)
  <2>1. /\ ls.passed[e] \in Nat /\ ls.failed[e] \in Nat
        /\ ls.skipped[e] \in Nat /\ ls.error[e] \in Nat
    BY <1>2, ListNames, Zenon DEF RecordLists
  <2>2. /\ ls.passed[e] + ls.failed[e] + ls.skipped[e] + ls.error[e] = 0
        /\ \A v \in Verdicts : la[e].verdict = v => ls[v][e] = 1
    BY <1>2, <1>7, Zenon DEF AllOk, TestOk, SkipRecorded
  <2>3. ls.passed[e] = 0 /\ ls.failed[e] = 0 /\ ls.skipped[e] = 0 /\ ls.error[e] = 0
    <3>1. PICK a \in Nat, b \in Nat, c \in Nat, d \in Nat :
            a = ls.passed[e] /\ b = ls.failed[e] /\ c = ls.skipped[e] /\ d = ls.error[e]
      BY <2>1, Zenon
    <3>2. a + b + c + d = 0
      BY <2>2, <3>1, Zenon
    <3>3. a = 0 /\ b = 0 /\ c = 0 /\ d = 0
      BY <3>2, ZeroSum, Zenon
    <3> QED BY <3>1, <3>3, Zenon
  <2>4. \A v \in Verdicts : la[e].verdict # v
    <3>1. \A v \in Verdicts : ls[v][e] = 0
      BY <2>3, Zenon DEF Verdicts
    <3>2. 0 # 1
      OBVIOUS
    <3> QED BY <2>2, <3>1, <3>2, Zenon
  <2>5. /\ ls2.executed[e] = 1 /\ ls2.skipped[e] = 1 /\ ls2.passed[e] = 0
        /\ ls2.failed[e] = 0 /\ ls2.error[e] = 0
    <3>1. /\ "passed" # "executed" /\ "failed" # "executed" /\ "error" # "executed"
          /\ "passed" # "skipped" /\ "failed" # "skipped" /\ "error" # "skipped"
      OBVIOUS
    <3> QED BY <1>4, <1>5, <2>3, <3>1, ListNames, Zenon
  <2>6. /\ ls2.executed[e] <= 1
        /\ ls2.passed[e] + ls2.failed[e] + ls2.skipped[e] + ls2.error[e] = ls2.executed[e]
    BY <2>5
  <2> QED BY <2>4, <2>6, Zenon DEF TestOk
<1> QED BY <1>5, <1>6, <1>7, Zenon DEF AllOk, RecordLists

LEMMA FinishTestsStep ==
  ASSUME RecordsInv, FinishTests
  PROVE  StepIsSafe
<1>1. /\ phase = "tests"
      /\ UNCHANGED <<func, _test_filter_retry, requested, ran, last>>
  BY Zenon DEF FinishTests, history
<1>2. PICK req, rep, la : req = requested /\ rep = report /\ la = last
  BY Zenon
<1>3. lists' = lists \/ SkipRecorded(lists, lists')
  BY Zenon DEF FinishTests, SkipRecorded
<1>4. PICK ls : ls = lists' /\ EndTests(req, ls, "nothing", rep)
  BY <1>2, Zenon DEF FinishTests
<1>5. AllOk(lists, last) /\ lists \in RecordLists
  BY <1>1, PhaseNames, OneVerdictIs, Zenon DEF RecordsInv, TypeOK, RecordLists
<1>6. ls \in RecordLists /\ AllOk(ls, la)
  <2>1. PICK l0 : l0 = lists
    BY Zenon
  <2> QED BY <1>2, <1>3, <1>4, <1>5, <2>1, SkipClassIsOk, Zenon
<1>7. Left(req, ls, "nothing")
  BY <1>4, EndTestsLeaves, Zenon
<1>8. AllOk(lists', last')
  BY <1>1, <1>2, <1>4, <1>6, Zenon
<1> QED BY <1>1, <1>2, <1>4, <1>6, <1>7, <1>8, EndStep, Zenon DEF RecordsInv, TypeOK
-----------------------------------------------------------------------------
LEMMA VerdictsAreEnds == \A o, p : VerdictOf(o, p) \in Ends
BY DEF VerdictOf, Ends, Verdicts

(* What execOneTest does, with o what the test did and v its verdict. *)
Executes(n, o, v, raised, req, ls) ==
  /\ lists' = ls /\ ls = Recorded(lists, n, v) /\ requested' = req
  /\ ran' = [ran EXCEPT ![n] = @ + 1]
  /\ last' = [last EXCEPT ![n] = [outcome |-> o, verdict |-> v]]
  /\ \/ pending' = Tail(pending) /\ UNCHANGED <<phase, class_up, aborted>>
     \/ Left(req, ls, raised)

LEMMA ExecutesOne ==
  ASSUME execOneTest, NEW n, n = Head(pending)
  PROVE  \E o \in Outcomes, v \in Ends : \E raised, req, ls : Executes(n, o, v, raised, req, ls)
<1>1. PICK o \in Outcomes, p0 \in Procedures :
        LET m == Head(pending)
            p == _exec_procedure_func(o, p0)
            v == VerdictOf(o, p)
            req == IF v = "kept" THEN requested ELSE Without(requested, m)
            ls == IF v \in Verdicts THEN addRecord(lists, m, v)
                  ELSE IF v = "removed" THEN removeRecord(lists, m) ELSE lists
        IN /\ requested' = req
           /\ lists' = ls
           /\ ran' = [ran EXCEPT ![m] = @ + 1]
           /\ last' = [last EXCEPT ![m] = [outcome |-> o, verdict |-> v]]
           /\ IF RaisedBy(o, p) = "nothing"
              THEN /\ pending' = Tail(pending)
                   /\ report' = ReportTest(m, o, p)
                   /\ UNCHANGED <<phase, _is_final_run, class_errors, class_up, aborted>>
              ELSE EndTests(req, ls, RaisedBy(o, p), ReportTest(m, o, p))
  BY Zenon DEF execOneTest
<1>2. PICK p : p = _exec_procedure_func(o, p0)
  BY Zenon
<1>3. PICK v : v = VerdictOf(o, p)
  BY Zenon
<1>4. PICK raised : raised = RaisedBy(o, p)
  BY Zenon
<1>5. PICK rep : rep = ReportTest(n, o, p)
  BY Zenon
<1>6. PICK req : req = IF v = "kept" THEN requested ELSE Without(requested, n)
  BY Zenon
<1>7. PICK ls : ls = Recorded(lists, n, v)
  BY Zenon
<1>8. ls = IF v \in Verdicts THEN addRecord(lists, n, v)
           ELSE IF v = "removed" THEN removeRecord(lists, n) ELSE lists
  BY <1>7, Zenon DEF Recorded
<1>9. requested' = req /\ lists' = ls
  BY <1>1, <1>2, <1>3, <1>6, <1>8, Zenon
<1>10. /\ ran' = [ran EXCEPT ![n] = @ + 1]
       /\ last' = [last EXCEPT ![n] = [outcome |-> o, verdict |-> v]]
  BY <1>1, <1>2, <1>3, Zenon
<1>11. \/ pending' = Tail(pending) /\ UNCHANGED <<phase, class_up, aborted>>
       \/ EndTests(req, ls, raised, rep)
  BY <1>1, <1>2, <1>3, <1>4, <1>5, <1>6, <1>8, Zenon
<1>12. \/ pending' = Tail(pending) /\ UNCHANGED <<phase, class_up, aborted>>
       \/ Left(req, ls, raised)
  BY <1>11, EndTestsLeaves, Zenon
<1>13. Executes(n, o, v, raised, req, ls)
  BY <1>7, <1>9, <1>10, <1>12, Zenon DEF Executes
<1>14. v \in Ends
  BY <1>3, VerdictsAreEnds, Zenon
<1> QED BY <1>13, <1>14, Zenon

LEMMA LastTyped ==
  ASSUME NEW o \in Outcomes, NEW v \in Ends
  PROVE  [outcome |-> o, verdict |-> v] \in LastRecords
<1>1. o \in Outcomes \cup {"none"} /\ v \in Verdicts \cup {"none", "kept", "removed"}
  BY Zenon DEF Ends
<1> QED BY <1>1, Zenon DEF LastRecords

LEMMA ExecOneTestStep ==
  ASSUME RecordsInv, execOneTest
  PROVE  StepIsSafe
<1>1. /\ phase = "tests" /\ pending # <<>> /\ pending \in Seq(Names)
      /\ UNCHANGED <<func, _test_filter_retry>>
  BY Zenon DEF execOneTest, RecordsInv, TypeOK
<1>2. PICK n \in Names : n = Head(pending)
  BY <1>1, TailOfPending, Zenon
<1>3. PICK o \in Outcomes, v \in Ends :
        \E raised, req, ls : Executes(n, o, v, raised, req, ls)
  BY <1>2, ExecutesOne, Zenon
<1>4. PICK raised, req, ls : Executes(n, o, v, raised, req, ls)
  BY <1>3, Zenon
<1>5. PICK la \in [Names -> LastRecords] : la = last
  BY Zenon DEF RecordsInv, TypeOK
<1>6. AllOk(lists, last) /\ lists \in RecordLists
  BY <1>1, PhaseNames, OneVerdictIs, Zenon DEF RecordsInv, TypeOK, RecordLists
<1>7. PICK la2 : la2 = [la EXCEPT ![n] = [outcome |-> o, verdict |-> v]] /\ last' = la2
  BY <1>4, <1>5, Zenon DEF Executes
<1>8. ls \in RecordLists /\ AllOk(ls, la2)
  <2>1. PICK l0 \in RecordLists : l0 = lists
    BY <1>6, Zenon
  <2>2. ls = Recorded(l0, n, v) /\ AllOk(l0, la)
    BY <1>4, <1>5, <1>6, <2>1, Zenon DEF Executes
  <2> QED BY <1>7, <2>2, RecordedIsOk, Zenon
<1>9. AllOk(lists', last') /\ lists' = ls
  BY <1>4, <1>7, <1>8, Zenon DEF Executes
<1>10. last' \in [Names -> LastRecords]
  BY <1>7, LastTyped, Zenon
<1>11. ran' \in [Names -> Nat]
  <2>1. PICK r \in [Names -> Nat] : r = ran
    BY Zenon DEF RecordsInv, TypeOK
  <2>2. r[n] + 1 \in Nat
    OBVIOUS
  <2>3. ran' = [r EXCEPT ![n] = r[n] + 1]
    BY <1>4, <2>1, Zenon DEF Executes
  <2> QED BY <2>2, <2>3, Zenon
<1>12. CASE pending' = Tail(pending) /\ UNCHANGED <<phase, class_up, aborted>>
  <2>1. pending' \in Seq(Names)
    BY <1>1, <1>12, TailOfPending, Zenon
  <2>2. TypeOK'
    BY <1>1, <1>8, <1>9, <1>10, <1>11, <1>12, <2>1, Zenon DEF RecordsInv, TypeOK, RecordLists
  <2>3. PhaseInv'
    BY <1>1, <1>12, PhaseNames, Zenon DEF RecordsInv, PhaseInv
  <2>4. OneVerdict'
    BY <1>9, Zenon DEF OneVerdict, AllOk, TestOk
  <2>5. \A m \in Names : m # Head(pending) => (Settled(m)' => Settled(m))
    <3>1. \A m \in Names : m # n => last'[m] = last[m]
      BY <1>5, <1>7, Zenon
    <3> QED BY <1>2, <3>1, Zenon DEF Settled
  <2>6. PendingInv /\ RetryInv => PendingInv' /\ RetryInv'
    BY <1>1, <1>12, <2>5, PopIsSafe, Zenon DEF RecordsInv
  <2> QED BY <2>2, <2>3, <2>4, <2>6, Zenon DEF StepIsSafe, RecordsInv
<1>13. CASE Left(req, ls, raised)
  <2>1. req = requested'
    BY <1>4, Zenon DEF Executes
  <2> QED BY <1>1, <1>8, <1>9, <1>10, <1>11, <1>13, <2>1, EndStep, Zenon
<1> QED BY <1>4, <1>12, <1>13, Zenon DEF Executes
-----------------------------------------------------------------------------
(* The next attempt runs what did not pass.  When nothing is left to run   *)
(* the filter is dropped, but then no attempt is made unless no test has   *)
(* passed or been skipped.                                                 *)
LEMMA RetryTestsStep ==
  ASSUME RecordsInv, RetryTests
  PROVE  StepIsSafe
<1>1. /\ phase = "heal" /\ phase' = "setup" /\ aborted' = aborted
      /\ _test_filter_retry' = IF NonPassing(requested, lists) = {} THEN Names
                               ELSE NonPassing(requested, lists)
      /\ UNCHANGED <<func, pending, requested, lists, class_up, ran, last>>
  BY Zenon DEF RetryTests, history
<1>2. pending = <<>> /\ ~ class_up /\ aborted # "test"
  BY <1>1, PhaseNames, Zenon DEF RecordsInv, PhaseInv
<1>3. PhaseInv'
  BY <1>1, <1>2, Zenon DEF PhaseInv
<1>4. AllOk(lists, last) /\ lists \in RecordLists
  BY <1>1, PhaseNames, OneVerdictIs, Zenon DEF RecordsInv, TypeOK, RecordLists
<1>5. RecordsInv'
  <2>1. phase' \in Phases
    BY <1>1, Zenon DEF Phases
  <2> QED BY <1>1, <1>3, <2>1, PhaseNames, RecordsStay, Zenon DEF RecordsInv, TypeOK
<1>6. PendingInv'
  BY <1>1, PhaseNames, Zenon DEF PendingInv
<1>7. ASSUME RetryInv PROVE RetryInv'
  <2>1. \A n \in Names : n \in _test_filter_retry' => ~ Settled(n)
    <3>1. CASE NonPassing(requested, lists) = {}
      BY <1>1, <1>7, <3>1, Zenon DEF RetryInv
    <3>2. CASE NonPassing(requested, lists) # {}
      <4>1. _test_filter_retry' = NonPassing(requested, lists)
        BY <1>1, <3>2, Zenon
      <4>2. PICK req, ls, la : req = requested /\ ls = lists /\ la = last
        BY Zenon
      <4>3. \A n \in Names : la[n].verdict \in {"passed", "skipped"} =>
              n \notin NonPassing(req, ls)
        BY <1>4, <4>2, SettledIsPassing, Zenon DEF AllOk
      <4> QED BY <4>1, <4>2, <4>3, Zenon DEF Settled
    <3> QED BY <3>1, <3>2, Zenon
  <2>2. NonPassing(requested, lists) # {} \/ \A n \in Names : ~ Settled(n)
    BY <1>1, <1>7, Zenon DEF RetryInv
  <2>3. /\ \A n \in Names : n \in _test_filter_retry' => ~ Settled(n)'
        /\ NonPassing(requested', lists') # {} \/ \A n \in Names : ~ Settled(n)'
    BY <1>1, <2>1, <2>2, Zenon DEF Settled
  <2> QED BY <1>1, <2>3, NonPassingIs, PhaseNames, Zenon DEF RetryInv
<1> QED BY <1>5, <1>6, <1>7, Zenon DEF StepIsSafe
LEMMA HealFailsStep ==
  ASSUME RecordsInv, HealFails
  PROVE  StepIsSafe
<1>1. /\ phase = "heal" /\ phase' = "stop"
      /\ UNCHANGED <<func, pending, lists, class_up, ran, last, aborted>>
  BY Zenon DEF HealFails, history
<1>2. PhaseInv'
  BY <1>1, PhaseNames, Zenon DEF RecordsInv, PhaseInv
<1>3. RecordsInv'
  <2>1. phase' \in Phases
    BY <1>1, Zenon DEF Phases
  <2> QED BY <1>1, <1>2, <2>1, PhaseNames, RecordsStay, Zenon DEF RecordsInv, TypeOK
<1>4. PendingInv' /\ RetryInv'
  BY <1>1, PhaseNames, Zenon DEF PendingInv, RetryInv
<1> QED BY <1>3, <1>4, Zenon DEF StepIsSafe

LEMMA StopStep ==
  ASSUME RecordsInv, Stop
  PROVE  StepIsSafe
<1>1. /\ phase = "stop" /\ phase' = "stopped"
      /\ UNCHANGED <<func, pending, class_up, ran, last, aborted>>
  BY Zenon DEF Stop, history
<1>2. PhaseInv'
  BY <1>1, PhaseNames, Zenon DEF RecordsInv, PhaseInv
<1>3. TypeOK'
  <2>1. phase' \in Phases
    BY <1>1, Zenon DEF Phases
  <2> QED BY <1>1, <2>1, Zenon DEF RecordsInv, TypeOK
<1>4. OneVerdict' /\ PendingInv' /\ RetryInv'
  BY <1>1, PhaseNames, Zenon DEF OneVerdict, PendingInv, RetryInv
<1> QED BY <1>2, <1>3, <1>4, Zenon DEF StepIsSafe, RecordsInv

LEMMA NextIsSafe ==
  ASSUME RecordsInv, [Next]_vars
  PROVE  StepIsSafe
<1>1. CASE Next
  BY <1>1, SetUpClassStep, RetrySetUpClassStep, RestartServicesRaisesStep, FailSetUpClassStep,
     StartFunctionStep, TriggerRaisesStep, FilteredInRetryStep, ExecOneTestStep,
     FinishTestsStep, RetryTestsStep, HealFailsStep, StopStep, Zenon DEF Next
<1>2. CASE UNCHANGED vars
  <2>1. UNCHANGED <<phase, func, pending, _test_filter_retry, requested, lists, class_up, ran,
                    last, aborted>>
    BY <1>2, Zenon DEF vars
  <2>2. RecordsInv'
    BY <2>1, Zenon DEF RecordsInv, TypeOK, PhaseInv, OneVerdict
  <2>3. PendingInv => PendingInv'
    BY <2>1, Zenon DEF PendingInv
  <2>4. RetryInv => RetryInv'
    BY <2>1, NonPassingIs, Zenon DEF RetryInv, Settled
  <2> QED BY <2>2, <2>3, <2>4, Zenon DEF StepIsSafe
<1> QED BY <1>1, <1>2, Zenon

LEMMA RecordsHold == Spec => []RecordsInv
<1>1. Init => RecordsInv
  BY InitHolds, Zenon DEF RunsInv
<1>2. RecordsInv /\ [Next]_vars => RecordsInv'
  BY NextIsSafe, Zenon DEF StepIsSafe
<1> QED BY <1>1, <1>2, PTL DEF Spec

(* However many attempts there are, however a test ends and whatever its   *)
(* procedure function raises, addRecord and removeRecord leave a test at   *)
(* most one record, in the list that its last execution decided.           *)
THEOREM VerdictsAreUnique == Spec => []OneVerdict
<1>1. RecordsInv => OneVerdict
  BY Zenon DEF RecordsInv
<1> QED BY <1>1, RecordsHold, PTL

(* Every way out of _runTests, the exceptions of its finally clause        *)
(* included, tears down a class that was set up before the next attempt or *)
(* the end of the run.                                                     *)
THEOREM ClassesAreTornDown == Spec => []SetUpIsTornDown
<1>1. RecordsInv => SetUpIsTornDown
  BY PhaseNames, Zenon DEF RecordsInv, PhaseInv, SetUpIsTornDown
<1> QED BY <1>1, RecordsHold, PTL
-----------------------------------------------------------------------------
(* What NotRunAgain says of one step. *)
RunsOnlyUnsettled ==
  /\ \A n \in Names : last[n].verdict \in {"passed", "skipped"} => ran'[n] = ran[n]
  /\ aborted = "test" => ran' = ran

LEMMA StepRunsOnlyUnsettled ==
  ASSUME RunsInv, [Next]_vars
  PROVE  RunsOnlyUnsettled
<1>1. CASE execOneTest
  <2>1. /\ phase = "tests" /\ pending # <<>> /\ pending \in Seq(Names)
        /\ Head(pending) \in _test_filter_retry
    BY <1>1, Zenon DEF execOneTest, RunsInv, RecordsInv, TypeOK
  <2>2. PICK n \in Names : n = Head(pending) /\ 1 \in DOMAIN pending /\ pending[1] = n
    BY <2>1, TailOfPending, Zenon
  <2>3. ~ Settled(n)
    BY <2>1, <2>2, Zenon DEF RunsInv, RetryInv
  <2>4. PICK o \in Outcomes, v \in Ends :
          \E raised, req, ls : Executes(n, o, v, raised, req, ls)
    BY <1>1, <2>2, ExecutesOne, Zenon
  <2>5. ran' = [ran EXCEPT ![n] = @ + 1]
    BY <2>4, Zenon DEF Executes
  <2>6. \A m \in Names : m # n => ran'[m] = ran[m]
    BY <2>5, Zenon DEF RunsInv, RecordsInv, TypeOK
  <2>7. aborted # "test"
    BY <2>1, PhaseNames, Zenon DEF RunsInv, RecordsInv, PhaseInv
  <2> QED BY <2>3, <2>6, <2>7, Zenon DEF RunsOnlyUnsettled, Settled
<1>2. CASE ran' = ran
  BY <1>2, Zenon DEF RunsOnlyUnsettled
<1>3. execOneTest \/ ran' = ran
  BY Zenon DEF Next, vars, history, SetUpClass, RetrySetUpClass, RestartServicesRaises,
     FailSetUpClass, StartFunction, TriggerRaises, FilteredInRetry, FinishTests, RetryTests,
     HealFails, Stop
<1> QED BY <1>1, <1>2, <1>3, Zenon

(* In a class whose tests and generated cases have different names, no     *)
(* attempt executes a test that passed or was skipped in this attempt or   *)
(* an earlier one, and nothing is executed after a signal that aborts.     *)
THEOREM SettledTestsRest ==
  ASSUME DistinctNames
  PROVE  Spec => NotRunAgain
<1>1. RunsInv /\ [Next]_vars => RunsInv'
  BY NextIsSafe, Zenon DEF StepIsSafe, RunsInv
<1>2. RunsInv /\ [Next]_vars => RunsOnlyUnsettled
  BY StepRunsOnlyUnsettled, Zenon
<1>3. RunsInv /\ [Next]_vars =>
        [/\ \A n \in Names : last[n].verdict \in {"passed", "skipped"} => ran'[n] = ran[n]
         /\ aborted = "test" => ran' = ran]_vars
  BY <1>2, Zenon DEF RunsOnlyUnsettled
<1> QED BY <1>1, <1>3, InitHolds, PTL DEF Spec, NotRunAgain
-----------------------------------------------------------------------------
(***************************************************************************)
(* Mirrors: mirror_tracker.py and the mirrors. The invariant adds to what  *)
(* is asked that clients are numbered as they are made and that the number *)
(* of a queue is within its session.                                       *)
(***************************************************************************)
Sessions == [open : BOOLEAN, alive : BOOLEAN, error : BOOLEAN, queues : Seq(Nat \X Nat)]

(* Clients are numbered as they are made. *)
SessionsOk(conns) ==
  /\ IsFiniteSet(DOMAIN conns) /\ DOMAIN conns = 1..Cardinality(DOMAIN conns)
  /\ conns = [c \in DOMAIN conns |-> conns[c]]
  /\ \A c \in DOMAIN conns : conns[c] \in Sessions

MirrorRecords ==
  [kind : {"hal", "lib", "shell", "queue", "memory", "handle"}, client : Nat, id : Nat, ring : Nat \X Nat, enabled : BOOLEAN]

(* A queue's mirror has the number of its own ring in its session.         *)
QueueOk(m, conns) ==
  m.kind = "queue" =>
    m.id \in Nat /\ m.id < Len(conns[m.client].queues) /\ conns[m.client].queues[m.id + 1] = m.ring
(* A registered mirror has a session, which is open unless a mirror that   *)
(* shares it was cleaned up.                                               *)
MirrorOk(m, conns, closed) ==
  /\ m \in MirrorRecords /\ m.client \in DOMAIN conns
  /\ conns[m.client].open \/ m.client \in closed
  /\ QueueOk(m, conns)

MirrorsOk(regs, conns, closed) ==
  \A t \in Trackers : \A n \in DOMAIN regs[t] : MirrorOk(regs[t][n], conns, closed)
(* An open connection belongs to a mirror that is listed or was kept.      *)
OpenIsHeld(regs, conns, kept) ==
  \A c \in DOMAIN conns : conns[c].open => c \in Listed(regs) \/ c \in kept
RegistryOk(regs) == regs = [t \in Trackers |-> regs[t]]
(* The inductive invariant behind MirrorsReachTheirSessions.               *)
MirrorsIInv ==
  /\ RegistryOk(registered_mirrors) /\ SessionsOk(connections)
  /\ MirrorsOk(registered_mirrors, connections, closed_by_other)
  /\ OpenIsHeld(registered_mirrors, connections, kept_clients)

(* The queues of a session keep their places. *)
Keeps(q, r) == Len(q) \in Nat /\ Len(r) \in Nat /\ Len(q) <= Len(r) /\ \A i \in 1..Len(q) : r[i] = q[i]
(* What a step has made of the connections when it registers a mirror of client c. *)
Ready(conns, c) ==
  /\ SessionsOk(conns) /\ c \in DOMAIN conns /\ conns[c].open
  /\ \A d \in DOMAIN conns : d # c => d \in DOMAIN connections
  /\ \A d \in DOMAIN connections :
       d \in DOMAIN conns /\ conns[d].open = connections[d].open /\ Keeps(connections[d].queues, conns[d].queues)

(* What an assignment to a dictionary makes of it.                         *)
IsPut(g, f, n, v) ==
  /\ DOMAIN g = DOMAIN f \cup {n} /\ g[n] = v
  /\ \A x \in DOMAIN f : x # n => g[x] = f[x]
  /\ g = [x \in DOMAIN g |-> g[x]]
(* What Disconnect of the clients cs makes of the sessions.                *)
IsDisconnect(d, conns, cs) ==
  /\ SessionsOk(d) /\ DOMAIN d = DOMAIN conns
  /\ \A c \in DOMAIN conns : /\ c \in cs => ~d[c].open
                             /\ c \notin cs => d[c] = conns[c]
                             /\ d[c].queues = conns[c].queues
(* What a new client makes of the sessions.                                *)
IsConnected(d, s) ==
  /\ NewClient \notin DOMAIN connections /\ SessionsOk(d)
  /\ DOMAIN d = DOMAIN connections \cup {NewClient} /\ d[NewClient] = s
  /\ \A c \in DOMAIN connections : d[c] = connections[c]
(* One session becomes s.                                                  *)
IsChanged(d, conns, c, s) ==
  /\ SessionsOk(d) /\ DOMAIN d = DOMAIN conns /\ d[c] = s
  /\ \A e \in DOMAIN conns : e # c => d[e] = conns[e]
(* What Append makes of a sequence.                                        *)
IsAppended(q2, q, e, S) ==
  /\ q2 \in Seq(S) /\ Len(q2) = Len(q) + 1 /\ Len(q) \in Nat
  /\ q2[Len(q) + 1] = e /\ \A i \in 1..Len(q) : q2[i] = q[i]
(* The session of c has got a queue with number id.                        *)
IsQueued(d, c, id, ring) ==
  Ready(d, c) /\ id \in Nat /\ Len(d[c].queues) = id + 1 /\ d[c].queues[id + 1] = ring
(* Registries from which only mirrors of the clients cs went.              *)
IsDropped(regs, regs0, cs) ==
  /\ RegistryOk(regs)
  /\ \A u \in Trackers : \A x \in DOMAIN regs[u] : x \in DOMAIN regs0[u] /\ regs[u][x] = regs0[u][x]
  /\ \A u \in Trackers : \A x \in DOMAIN regs0[u] : x \notin DOMAIN regs[u] => regs0[u][x].client \in cs
(* A registered mirror has client c.                                       *)
IsListed(regs, c) == \E t \in Trackers : \E n \in DOMAIN regs[t] : c = regs[t][n].client
-----------------------------------------------------------------------------
(* The clients of the registered mirrors.                                  *)
LEMMA ListedIs ==
  ASSUME NEW regs, NEW t \in Trackers, NEW n \in DOMAIN regs[t]
  PROVE  regs[t][n].client \in Listed(regs)
<1> PICK S : S = {regs[t][x].client : x \in DOMAIN regs[t]}
  OBVIOUS
<1>1. regs[t][n].client \in S
  BY Zenon
<1>2. S \in {{regs[u][x].client : x \in DOMAIN regs[u]} : u \in Trackers}
  BY Zenon
<1> QED
  BY <1>1, <1>2, Zenon DEF Listed, NamesIn

LEMMA ListedOnly ==
  ASSUME NEW regs, NEW c \in Listed(regs)
  PROVE  IsListed(regs, c)
<1>1. PICK S \in {{regs[u][x].client : x \in DOMAIN regs[u]} : u \in Trackers} : c \in S
  BY Zenon DEF Listed, NamesIn
<1>2. PICK t \in Trackers : S = {regs[t][x].client : x \in DOMAIN regs[t]}
  BY <1>1, Zenon
<1> QED
  BY <1>1, <1>2, Zenon DEF IsListed

(* A session keeps its own queues.                                         *)
LEMMA KeepsItself ==
  ASSUME NEW s \in Sessions
  PROVE  Keeps(s.queues, s.queues)
<1>1. Len(s.queues) \in Nat
  BY DEF Sessions
<1> QED
  BY <1>1 DEF Keeps

LEMMA KeepsAll ==
  ASSUME NEW q, NEW r, NEW s, Keeps(q, r), Keeps(r, s)
  PROVE  Keeps(q, s)
<1> PICK a, b, c : a = Len(q) /\ b = Len(r) /\ c = Len(s)
  OBVIOUS
<1>1. a \in Nat /\ b \in Nat /\ c \in Nat /\ a <= b /\ b <= c
  BY Zenon DEF Keeps
<1>2. a <= c /\ \A i \in 1..a : i \in 1..b
  BY ONLY <1>1
<1> QED
  BY <1>1, <1>2, Zenon DEF Keeps

(* A mirror stays good when its session keeps its queues and does not      *)
(* close.                                                                  *)
LEMMA Carries ==
  ASSUME NEW m, NEW conns, NEW conns2, NEW closed, NEW closed2, MirrorOk(m, conns, closed),
         m.client \in DOMAIN conns2, Keeps(conns[m.client].queues, conns2[m.client].queues),
         conns[m.client].open \/ m.client \in closed => conns2[m.client].open \/ m.client \in closed2
  PROVE  MirrorOk(m, conns2, closed2)
<1> PICK q, r : q = conns[m.client].queues /\ r = conns2[m.client].queues
  OBVIOUS
<1>1. QueueOk(m, conns2)
  <2> SUFFICES ASSUME m.kind = "queue"
               PROVE  m.id \in Nat /\ m.id < Len(r) /\ r[m.id + 1] = m.ring
    BY Zenon DEF QueueOk
  <2>1. m.id \in Nat /\ m.id < Len(q) /\ q[m.id + 1] = m.ring
    BY Zenon DEF MirrorOk, QueueOk
  <2>2. Len(q) \in Nat /\ Len(r) \in Nat /\ Len(q) <= Len(r) /\ \A i \in 1..Len(q) : r[i] = q[i]
    BY Zenon DEF Keeps
  <2> PICK i, a, b : i = m.id /\ a = Len(q) /\ b = Len(r)
    OBVIOUS
  <2>3. i \in Nat /\ i < a /\ a \in Nat /\ b \in Nat /\ a <= b
    BY <2>1, <2>2, Zenon
  <2>4. i + 1 \in 1..a /\ i < b
    BY ONLY <2>3
  <2> QED
    BY <2>1, <2>2, <2>3, <2>4, Zenon
<1> QED
  BY <1>1, Zenon DEF MirrorOk

LEMMA DisconnectFacts ==
  ASSUME NEW conns, SessionsOk(conns), NEW cs, NEW d, d = Disconnect(conns, cs)
  PROVE  IsDisconnect(d, conns, cs)
<1>1. DOMAIN d = DOMAIN conns
  BY Zenon DEF Disconnect
<1>2. ASSUME NEW c \in DOMAIN conns
      PROVE  /\ d[c] \in Sessions /\ (c \in cs => ~d[c].open)
             /\ (c \notin cs => d[c] = conns[c]) /\ d[c].queues = conns[c].queues
  <2> PICK s : s = conns[c]
    OBVIOUS
  <2>1. s \in Sessions
    BY Zenon DEF SessionsOk
  <2>2. CASE c \in cs
    <3>1. d[c] = [s EXCEPT !.open = FALSE]
      BY <2>2, Zenon DEF Disconnect
    <3> QED
      BY <2>1, <2>2, <3>1 DEF Sessions
  <2>3. CASE c \notin cs
    <3>1. d[c] = s
      BY <2>3, Zenon DEF Disconnect
    <3> QED
      BY <2>1, <2>3, <3>1, Zenon
  <2> QED
    BY <2>2, <2>3
<1>3. d = [c \in DOMAIN d |-> d[c]]
  BY <1>1 DEF Disconnect
<1>4. SessionsOk(d)
  BY <1>1, <1>2, <1>3, Zenon DEF SessionsOk
<1> QED
  BY <1>1, <1>2, <1>4, Zenon DEF IsDisconnect

LEMMA PutFacts ==
  ASSUME NEW f, NEW n, NEW v, NEW g, g = Put(f, n, v)
  PROVE  IsPut(g, f, n, v)
BY DEF Put, IsPut

LEMMA NextNumber ==
  ASSUME NEW k \in Nat
  PROVE  k + 1 \notin 1..k /\ (1..k) \cup {k + 1} = 1..(k + 1)
OBVIOUS

LEMMA ConnectFacts ==
  ASSUME SessionsOk(connections), NEW s \in Sessions, NEW d, d = Put(connections, NewClient, s)
  PROVE  IsConnected(d, s)
<1> PICK D, k, nc : D = DOMAIN connections /\ k = Cardinality(D) /\ nc = NewClient
  OBVIOUS
<1>1. k \in Nat /\ D = 1..k /\ nc = k + 1 /\ IsFiniteSet(D)
  BY FS_CardinalityType, Zenon DEF SessionsOk, NewClient
<1>2. nc \notin D
  BY <1>1, NextNumber, Zenon
<1>3. /\ DOMAIN d = D \cup {nc} /\ d[nc] = s
      /\ \A c \in D : c # nc => d[c] = connections[c]
      /\ d = [c \in DOMAIN d |-> d[c]]
  <2>1. IsPut(d, connections, nc, s)
    BY PutFacts, Zenon
  <2> QED
    BY <2>1, Zenon DEF IsPut
<1>4. DOMAIN d = 1..(k + 1)
  BY <1>1, <1>3, NextNumber, Zenon
<1>5. IsFiniteSet(DOMAIN d) /\ Cardinality(DOMAIN d) = k + 1
  <2>1. IsFiniteSet(D \cup {nc}) /\ (Cardinality(D \cup {nc}) = Cardinality(D) + 1)
    BY <1>1, <1>2, FS_AddElement, Zenon
  <2> QED
    BY <1>3, <2>1, Zenon
<1>6. \A c \in DOMAIN d : d[c] \in Sessions
  BY <1>2, <1>3, Zenon DEF SessionsOk
<1> QED
  BY <1>2, <1>3, <1>4, <1>5, <1>6, Zenon DEF SessionsOk, IsConnected

(* A mirror is registered; one under the same name is replaced, and its    *)
(* client stays open with the test that kept it.                           *)
LEMMA RegisterStep ==
  ASSUME MirrorsIInv, NEW t \in Trackers, NEW n, NEW m \in MirrorRecords, NEW conns, Ready(conns, m.client), QueueOk(m, conns),
         Register(t, n, m, conns)
  PROVE  MirrorsIInv'
<1> PICK regs0, old, regs :
      /\ regs0 = registered_mirrors
      /\ old = IF n \in NamesIn(regs0, t) THEN {regs0[t][n].client} ELSE {}
      /\ regs = [regs0 EXCEPT ![t] = Put(regs0[t], n, m)]
  OBVIOUS
<1> PICK lone : lone = old \ (Listed(regs) \cup kept_clients)
  OBVIOUS
<1>0. /\ RegistryOk(regs0) /\ MirrorsOk(regs0, connections, closed_by_other)
      /\ OpenIsHeld(regs0, connections, kept_clients)
  BY Zenon DEF MirrorsIInv
<1>1. PICK keep \in SUBSET lone :
        /\ registered_mirrors' = regs /\ kept_clients' = kept_clients \cup keep
        /\ connections' = Disconnect(conns, lone \ keep) /\ closed_by_other' = closed_by_other
  BY Zenon DEF Register
<1> PICK gone : gone = lone \ keep
  OBVIOUS
<1>2. regs0 = [u \in Trackers |-> regs0[u]]
  BY <1>0, Zenon DEF RegistryOk
<1>3. /\ RegistryOk(regs)
      /\ regs[t] = Put(regs0[t], n, m) /\ \A u \in Trackers : u # t => regs[u] = regs0[u]
  BY <1>2 DEF RegistryOk
<1>4. /\ n \in DOMAIN regs[t] /\ regs[t][n] = m
      /\ \A u \in Trackers : \A x \in DOMAIN regs0[u] :
           u # t \/ x # n => x \in DOMAIN regs[u] /\ regs[u][x] = regs0[u][x]
      /\ \A u \in Trackers : \A x \in DOMAIN regs[u] : u # t \/ x # n => x \in DOMAIN regs0[u]
  <2>1. /\ DOMAIN regs[t] = DOMAIN regs0[t] \cup {n} /\ regs[t][n] = m
        /\ \A x \in DOMAIN regs0[t] : x # n => regs[t][x] = regs0[t][x]
    <3>1. IsPut(regs[t], regs0[t], n, m)
      BY <1>3, PutFacts, Zenon
    <3> QED
      BY <3>1, Zenon DEF IsPut
  <2> QED
    BY <1>3, <2>1, Zenon
<1>5. /\ SessionsOk(connections') /\ DOMAIN connections' = DOMAIN conns
      /\ \A c \in DOMAIN conns : /\ c \in gone => ~connections'[c].open
                                 /\ c \notin gone => connections'[c] = conns[c]
  <2>1. connections' = Disconnect(conns, gone) /\ SessionsOk(conns)
    BY <1>1, Zenon DEF Ready
  <2>2. IsDisconnect(connections', conns, gone)
    BY <2>1, DisconnectFacts, Zenon
  <2> QED
    BY <2>2, Zenon DEF IsDisconnect
<1>6. \A u \in Trackers : \A x \in DOMAIN regs[u] : regs[u][x].client \notin gone
  <2> SUFFICES ASSUME NEW u \in Trackers, NEW x \in DOMAIN regs[u]
               PROVE  regs[u][x].client \notin gone
    BY Zenon
  <2>1. regs[u][x].client \in Listed(regs)
    BY ListedIs, Zenon
  <2>2. \A c \in gone : c \notin Listed(regs)
    OBVIOUS
  <2> QED
    BY <2>1, <2>2, Zenon
<1>7. MirrorsOk(regs, connections', closed_by_other)
  <2> SUFFICES ASSUME NEW u \in Trackers, NEW x \in DOMAIN regs[u]
               PROVE  MirrorOk(regs[u][x], connections', closed_by_other)
    BY Zenon DEF MirrorsOk
  <2> PICK o : o = regs[u][x]
    OBVIOUS
  <2>1. o.client \notin gone
    BY <1>6, Zenon
  <2>2. CASE u = t /\ x = n
    <3>1. o = m
      BY <1>4, <2>2, Zenon
    <3>2. m.client \in DOMAIN conns /\ conns[m.client].open
      BY Zenon DEF Ready
    <3>3. m.client \in DOMAIN connections' /\ connections'[m.client] = conns[m.client]
      BY <1>5, <2>1, <3>1, <3>2, Zenon
    <3> QED
      BY <3>1, <3>2, <3>3, Zenon DEF MirrorOk, QueueOk
  <2>3. CASE u # t \/ x # n
    <3>1. x \in DOMAIN regs0[u] /\ o = regs0[u][x]
      BY <1>4, <2>3, Zenon
    <3>2. MirrorOk(o, connections, closed_by_other)
      <4>1. MirrorOk(regs0[u][x], connections, closed_by_other)
        BY <1>0, <3>1, Zenon DEF MirrorsOk
      <4> QED
        BY <3>1, <4>1, Zenon
    <3>3. o.client \in DOMAIN connections
      BY <3>2, Zenon DEF MirrorOk
    <3>4. /\ o.client \in DOMAIN conns /\ conns[o.client].open = connections[o.client].open
          /\ Keeps(connections[o.client].queues, conns[o.client].queues)
      BY <3>3, Zenon DEF Ready
    <3>5. o.client \in DOMAIN connections' /\ connections'[o.client] = conns[o.client]
      BY <1>5, <2>1, <3>4, Zenon
    <3> QED
      BY <3>2, <3>4, <3>5, Carries, Zenon
  <2> QED
    BY <2>2, <2>3, Zenon
<1>8. OpenIsHeld(regs, connections', kept_clients')
  <2> SUFFICES ASSUME NEW c \in DOMAIN connections', connections'[c].open
               PROVE  c \in Listed(regs) \/ c \in kept_clients \/ c \in keep
    BY <1>1, Zenon DEF OpenIsHeld
  <2>1. c \in DOMAIN conns /\ c \notin gone /\ conns[c].open
    BY <1>5, Zenon
  <2>2. CASE c = m.client
    <3>1. regs[t][n].client \in Listed(regs)
      BY <1>4, ListedIs, Zenon
    <3> QED
      BY <1>4, <2>2, <3>1, Zenon
  <2>3. CASE c # m.client
    <3>1. c \in DOMAIN connections /\ connections[c].open
      BY <2>1, <2>3, Zenon DEF Ready
    <3>2. c \in Listed(regs0) \/ c \in kept_clients
      BY <1>0, <3>1, Zenon DEF OpenIsHeld
    <3>3. ASSUME c \in Listed(regs0)
          PROVE  c \in Listed(regs) \/ c \in kept_clients \/ c \in keep
      <4>1. PICK u \in Trackers : \E x \in DOMAIN regs0[u] : c = regs0[u][x].client
        <5>1. IsListed(regs0, c)
          BY <3>3, ListedOnly, Zenon
        <5> QED
          BY <5>1, Zenon DEF IsListed
      <4>2. PICK x \in DOMAIN regs0[u] : c = regs0[u][x].client
        BY <4>1
      <4>3. CASE u = t /\ x = n
        <5>1. old = {c}
          BY <4>2, <4>3, Zenon DEF NamesIn
        <5> QED
          BY <2>1, <5>1, Zenon
      <4>4. CASE u # t \/ x # n
        <5>1. x \in DOMAIN regs[u] /\ regs[u][x] = regs0[u][x]
          BY <1>4, <4>2, <4>4, SMTT(40)
        <5>2. regs[u][x].client \in Listed(regs)
          BY <5>1, ListedIs, Zenon
        <5> QED
          BY <4>2, <5>1, <5>2, Zenon
      <4> QED
        BY <4>3, <4>4, Zenon
    <3> QED
      BY <3>2, <3>3, Zenon
  <2> QED
    BY <2>2, <2>3
<1> QED
  BY <1>1, <1>3, <1>5, <1>7, <1>8, Zenon DEF MirrorsIInv

LEMMA FreshIsOk ==
  /\ Fresh \in Sessions /\ Fresh.open = TRUE /\ Fresh.alive = TRUE /\ Fresh.queues = << >>
  /\ [Fresh EXCEPT !.open = FALSE] \in Sessions /\ [Fresh EXCEPT !.open = FALSE].open = FALSE
<1> PICK e, f : e = << >> /\ f = Fresh
  OBVIOUS
<1>1. e \in Seq(Nat \X Nat)
  OBVIOUS
<1>2. f = [open |-> TRUE, alive |-> TRUE, error |-> FALSE, queues |-> e]
  BY DEF Fresh
<1>3. f \in Sessions /\ f.open = TRUE /\ f.alive = TRUE /\ f.queues = e
  BY <1>1, <1>2 DEF Sessions
<1>4. [f EXCEPT !.open = FALSE] \in Sessions /\ [f EXCEPT !.open = FALSE].open = FALSE
  BY <1>3 DEF Sessions
<1> QED
  BY <1>3, <1>4, Zenon

(* A call that failed leaves a connection that is not open.                *)
LEMMA AbandonStep ==
  ASSUME MirrorsIInv, Abandon(NewClient)
  PROVE  MirrorsIInv'
<1> PICK s : s = [Fresh EXCEPT !.open = FALSE]
  OBVIOUS
<1> PICK regs : regs = registered_mirrors
  OBVIOUS
<1>1. s \in Sessions /\ s.open = FALSE
  BY FreshIsOk, Zenon
<1>2. /\ connections' = Put(connections, NewClient, s) /\ registered_mirrors' = regs
      /\ kept_clients' = kept_clients /\ closed_by_other' = closed_by_other
  BY Zenon DEF Abandon
<1>3. IsConnected(connections', s)
  BY <1>1, <1>2, ConnectFacts, Zenon DEF MirrorsIInv
<1>4. MirrorsOk(regs, connections', closed_by_other)
  <2> SUFFICES ASSUME NEW u \in Trackers, NEW x \in DOMAIN regs[u]
               PROVE  MirrorOk(regs[u][x], connections', closed_by_other)
    BY Zenon DEF MirrorsOk
  <2> PICK o : o = regs[u][x]
    OBVIOUS
  <2>1. MirrorOk(o, connections, closed_by_other)
    BY Zenon DEF MirrorsIInv, MirrorsOk
  <2>2. o.client \in DOMAIN connections' /\ connections'[o.client] = connections[o.client]
    BY <1>3, <2>1, Zenon DEF MirrorOk, IsConnected
  <2> QED
    BY <2>1, <2>2, Zenon DEF MirrorOk, QueueOk
<1>5. OpenIsHeld(regs, connections', kept_clients)
  <2> SUFFICES ASSUME NEW c \in DOMAIN connections', connections'[c].open
               PROVE  c \in Listed(regs) \/ c \in kept_clients
    BY Zenon DEF OpenIsHeld
  <2>1. c # NewClient
    BY <1>1, <1>3, Zenon DEF IsConnected
  <2>2. c \in DOMAIN connections /\ connections[c].open
    BY <1>3, <2>1, Zenon DEF IsConnected
  <2> QED
    BY <2>2, Zenon DEF MirrorsIInv, OpenIsHeld
<1> QED
  BY <1>2, <1>3, <1>4, <1>5, Zenon DEF MirrorsIInv, IsConnected

(* RemoveMirror and CleanUp: the clients of the mirrors that go are disconnected. *)
LEMMA DropStep ==
  ASSUME MirrorsIInv, NEW regs, NEW cs, RegistryOk(regs),
         \A u \in Trackers : \A x \in DOMAIN regs[u] :
           x \in DOMAIN registered_mirrors[u] /\ regs[u][x] = registered_mirrors[u][x],
         \A u \in Trackers : \A x \in DOMAIN registered_mirrors[u] :
           x \notin DOMAIN regs[u] => registered_mirrors[u][x].client \in cs,
         registered_mirrors' = regs, connections' = Disconnect(connections, cs),
         closed_by_other' = closed_by_other \cup (cs \cap Listed(regs)), UNCHANGED kept_clients
  PROVE  MirrorsIInv'
<1> PICK regs0, cl : regs0 = registered_mirrors /\ cl = closed_by_other'
  OBVIOUS
<1>0. /\ MirrorsOk(regs0, connections, closed_by_other) /\ OpenIsHeld(regs0, connections, kept_clients)
      /\ SessionsOk(connections)
  BY Zenon DEF MirrorsIInv
<1>1. IsDisconnect(connections', connections, cs)
  BY <1>0, DisconnectFacts, Zenon
<1>2. \A c : (c \in closed_by_other => c \in cl) /\ (c \in cs /\ c \in Listed(regs) => c \in cl)
  OBVIOUS
<1>3. MirrorsOk(regs, connections', cl)
  <2> SUFFICES ASSUME NEW u \in Trackers, NEW x \in DOMAIN regs[u]
               PROVE  MirrorOk(regs[u][x], connections', cl)
    BY Zenon DEF MirrorsOk
  <2> PICK o, c : o = regs[u][x] /\ c = o.client
    OBVIOUS
  <2>1. MirrorOk(o, connections, closed_by_other)
    <3>1. x \in DOMAIN regs0[u] /\ o = regs0[u][x]
      BY Zenon
    <3>2. MirrorOk(regs0[u][x], connections, closed_by_other)
      BY <1>0, <3>1, Zenon DEF MirrorsOk
    <3> QED
      BY <3>1, <3>2, Zenon
  <2>2. c \in Listed(regs)
    BY ListedIs, Zenon
  <2>3. c \in DOMAIN connections /\ (connections[c].open \/ c \in closed_by_other)
    BY <2>1, Zenon DEF MirrorOk
  <2>4. /\ c \in DOMAIN connections' /\ connections'[c].queues = connections[c].queues
        /\ c \notin cs => connections'[c] = connections[c]
    BY <1>1, <2>3, Zenon DEF IsDisconnect
  <2>5. connections'[c].open \/ c \in cl
    BY <1>2, <2>2, <2>3, <2>4, Zenon
  <2>6. Keeps(connections[c].queues, connections'[c].queues)
    <3>1. connections[c] \in Sessions
      BY <1>0, <2>3, Zenon DEF SessionsOk
    <3> QED
      BY <2>4, <3>1, KeepsItself, Zenon
  <2> QED
    BY <2>1, <2>4, <2>5, <2>6, Carries, Zenon
<1>4. OpenIsHeld(regs, connections', kept_clients)
  <2> SUFFICES ASSUME NEW c \in DOMAIN connections', connections'[c].open
               PROVE  c \in Listed(regs) \/ c \in kept_clients
    BY Zenon DEF OpenIsHeld
  <2>1. c \in DOMAIN connections /\ c \notin cs /\ connections[c].open
    BY <1>1, Zenon DEF IsDisconnect
  <2>2. c \in Listed(regs0) \/ c \in kept_clients
    BY <1>0, <2>1, Zenon DEF OpenIsHeld
  <2>3. ASSUME c \in Listed(regs0)
        PROVE  c \in Listed(regs)
    <3>1. IsListed(regs0, c)
      BY <2>3, ListedOnly, Zenon
    <3>2. PICK u \in Trackers : \E x \in DOMAIN regs0[u] : c = regs0[u][x].client
      BY <3>1, Zenon DEF IsListed
    <3>3. PICK x \in DOMAIN regs0[u] : c = regs0[u][x].client
      BY <3>2
    <3>4. x \in DOMAIN regs[u]
      BY <2>1, <3>3, Zenon
    <3>5. regs[u][x] = regs0[u][x]
      BY <3>4, Zenon
    <3>6. regs[u][x].client \in Listed(regs)
      BY <3>4, ListedIs, Zenon
    <3> QED
      BY <3>3, <3>5, <3>6, Zenon
  <2> QED
    BY <2>2, <2>3, Zenon
<1>5. SessionsOk(connections')
  BY <1>1, Zenon DEF IsDisconnect
<1> QED
  BY <1>3, <1>4, <1>5, Zenon DEF MirrorsIInv

LEMMA ReadyNew ==
  ASSUME MirrorsIInv, NEW conns, conns = Connect(NewClient)
  PROVE  Ready(conns, NewClient) /\ conns[NewClient].queues = << >>
<1>1. IsConnected(conns, Fresh)
  BY FreshIsOk, ConnectFacts, Zenon DEF MirrorsIInv, Connect
<1>2. \A d \in DOMAIN connections : Keeps(connections[d].queues, connections[d].queues)
  BY KeepsItself, Zenon DEF MirrorsIInv, SessionsOk
<1>3. NewClient \in DOMAIN conns /\ conns[NewClient].open
  BY <1>1, FreshIsOk, Zenon DEF IsConnected
<1>4. \A d \in DOMAIN conns : d # NewClient => d \in DOMAIN connections
  BY <1>1, Zenon DEF IsConnected
<1>5. \A d \in DOMAIN connections : d \in DOMAIN conns /\ conns[d] = connections[d]
  BY <1>1, Zenon DEF IsConnected
<1> QED
  BY <1>1, <1>2, <1>3, <1>4, <1>5, FreshIsOk, Zenon DEF Ready, IsConnected

LEMMA ReadyOld ==
  ASSUME MirrorsIInv, NEW c \in DOMAIN connections, connections[c].open
  PROVE  Ready(connections, c)
<1>1. \A d \in DOMAIN connections : Keeps(connections[d].queues, connections[d].queues)
  BY KeepsItself, Zenon DEF MirrorsIInv, SessionsOk
<1> QED
  BY <1>1, Zenon DEF Ready, MirrorsIInv

(* One session changes, but neither closes nor loses a queue. *)
LEMMA SessionChanged ==
  ASSUME NEW conns, SessionsOk(conns), NEW c \in DOMAIN conns, NEW s \in Sessions, NEW d, d = [conns EXCEPT ![c] = s]
  PROVE  IsChanged(d, conns, c, s)
<1>1. /\ DOMAIN d = DOMAIN conns /\ d[c] = s /\ \A e \in DOMAIN conns : e # c => d[e] = conns[e]
  BY Zenon
<1>2. d = [e \in DOMAIN d |-> d[e]]
  BY <1>1
<1>3. \A e \in DOMAIN d : d[e] \in Sessions
  BY <1>1, Zenon DEF SessionsOk
<1> QED
  BY <1>1, <1>2, <1>3, Zenon DEF SessionsOk, IsChanged

LEMMA AppendFacts ==
  ASSUME NEW S, NEW q \in Seq(S), NEW e \in S
  PROVE  IsAppended(Append(q, e), q, e, S)
BY DEF IsAppended

LEMMA ReadyQueued ==
  ASSUME NEW conns, NEW c, Ready(conns, c), NEW ring \in Nat \X Nat,
         NEW d, d = [conns EXCEPT ![c].queues = Append(@, ring)]
  PROVE  IsQueued(d, c, Len(conns[c].queues), ring)
<1> PICK q, q2 : q = conns[c].queues /\ q2 = Append(q, ring)
  OBVIOUS
<1> PICK s : s = [conns[c] EXCEPT !.queues = q2]
  OBVIOUS
<1>1. SessionsOk(conns) /\ c \in DOMAIN conns /\ conns[c] \in Sessions /\ conns[c].open
  BY Zenon DEF Ready, SessionsOk
<1>2. q \in Seq(Nat \X Nat)
  BY <1>1 DEF Sessions
<1>3. /\ q2 \in Seq(Nat \X Nat) /\ Len(q2) = Len(q) + 1 /\ Len(q) \in Nat
      /\ q2[Len(q) + 1] = ring /\ \A i \in 1..Len(q) : q2[i] = q[i]
  <2>1. IsAppended(q2, q, ring, Nat \X Nat)
    BY <1>2, AppendFacts, Zenon
  <2> QED
    BY <2>1, Zenon DEF IsAppended
<1>4. s \in Sessions /\ s.queues = q2 /\ s.open = conns[c].open
  BY <1>1, <1>3 DEF Sessions
<1>5. d = [conns EXCEPT ![c] = s]
  BY Zenon
<1>6. /\ SessionsOk(d) /\ DOMAIN d = DOMAIN conns /\ d[c] = s
      /\ \A e \in DOMAIN conns : e # c => d[e] = conns[e]
  <2>1. IsChanged(d, conns, c, s)
    BY <1>1, <1>4, <1>5, SessionChanged, Zenon
  <2> QED
    BY <2>1, Zenon DEF IsChanged
<1>7. Keeps(q, q2)
  <2>1. Len(q) <= Len(q2) /\ Len(q2) \in Nat
    BY <1>3
  <2> QED
    BY <1>3, <2>1, Zenon DEF Keeps
<1>8. ASSUME NEW e \in DOMAIN connections
      PROVE  e \in DOMAIN d /\ d[e].open = connections[e].open /\ Keeps(connections[e].queues, d[e].queues)
  <2>1. e \in DOMAIN conns /\ conns[e].open = connections[e].open /\ Keeps(connections[e].queues, conns[e].queues)
    BY Zenon DEF Ready
  <2>2. CASE e = c
    <3>1. Keeps(connections[e].queues, q2)
      BY <1>7, <2>1, <2>2, KeepsAll, Zenon
    <3> QED
      BY <1>4, <1>6, <2>1, <2>2, <3>1, Zenon
  <2>3. CASE e # c
    BY <1>6, <2>1, <2>3, Zenon
  <2> QED
    BY <2>2, <2>3
<1>9. Ready(d, c)
  BY <1>1, <1>4, <1>6, <1>8, Zenon DEF Ready
<1>10. /\ Ready(d, c) /\ Len(conns[c].queues) \in Nat /\ Len(d[c].queues) = Len(conns[c].queues) + 1
           /\ d[c].queues[Len(conns[c].queues) + 1] = ring
  BY <1>3, <1>4, <1>6, <1>9, Zenon
<1> QED
  BY <1>10, Zenon DEF IsQueued

(* A call over a session changes neither its queues nor whether it is      *)
(* open.                                                                   *)
LEMMA SessionStep ==
  ASSUME MirrorsIInv, NEW c \in DOMAIN connections, NEW s \in Sessions,
         s.open = connections[c].open, s.queues = connections[c].queues,
         connections' = [connections EXCEPT ![c] = s], UNCHANGED <<registered_mirrors, kept_clients, closed_by_other>>
  PROVE  MirrorsIInv'
<1> PICK regs : regs = registered_mirrors
  OBVIOUS
<1>0. /\ MirrorsOk(regs, connections, closed_by_other) /\ OpenIsHeld(regs, connections, kept_clients)
      /\ SessionsOk(connections) /\ RegistryOk(regs)
  BY Zenon DEF MirrorsIInv
<1>1. /\ SessionsOk(connections') /\ DOMAIN connections' = DOMAIN connections /\ connections'[c] = s
      /\ \A e \in DOMAIN connections : e # c => connections'[e] = connections[e]
  <2>1. IsChanged(connections', connections, c, s)
    BY <1>0, SessionChanged, Zenon
  <2> QED
    BY <2>1, Zenon DEF IsChanged
<1>2. \A e \in DOMAIN connections : connections'[e].open = connections[e].open /\ connections'[e].queues = connections[e].queues
  BY <1>1, Zenon
<1>3. MirrorsOk(regs, connections', closed_by_other)
  <2> SUFFICES ASSUME NEW u \in Trackers, NEW x \in DOMAIN regs[u]
               PROVE  MirrorOk(regs[u][x], connections', closed_by_other)
    BY Zenon DEF MirrorsOk
  <2>1. MirrorOk(regs[u][x], connections, closed_by_other)
    BY <1>0, Zenon DEF MirrorsOk
  <2> PICK o, e : o = regs[u][x] /\ e = o.client
    OBVIOUS
  <2>2. e \in DOMAIN connections
    BY <2>1, Zenon DEF MirrorOk
  <2>3. Keeps(connections[e].queues, connections'[e].queues)
    BY <1>0, <1>2, <2>2, KeepsItself, Zenon DEF SessionsOk
  <2> QED
    BY <1>1, <1>2, <2>1, <2>2, <2>3, Carries, Zenon
<1>4. OpenIsHeld(regs, connections', kept_clients)
  BY <1>0, <1>1, <1>2, Zenon DEF OpenIsHeld
<1> QED
  BY <1>0, <1>1, <1>3, <1>4, Zenon DEF MirrorsIInv

LEMMA MirrorFacts ==
  ASSUME NEW kind \in {"hal", "lib", "shell", "queue", "memory", "handle"}, NEW c \in Nat, NEW id \in Nat,
         NEW ring \in Nat \X Nat, NEW m, m = Mirror(kind, c, id, ring)
  PROVE  m \in MirrorRecords /\ m.kind = kind /\ m.client = c /\ m.id = id /\ m.ring = ring
BY DEF Mirror, MirrorRecords

LEMMA ClientsAreNumbers ==
  ASSUME NEW conns, SessionsOk(conns), NEW c \in DOMAIN conns
  PROVE  c \in Nat
<1>1. Cardinality(DOMAIN conns) \in Nat /\ c \in 1..Cardinality(DOMAIN conns)
  BY FS_CardinalityType, Zenon DEF SessionsOk
<1> QED
  BY <1>1

LEMMA PlainMirror ==
  ASSUME MirrorsIInv, NEW t \in Trackers, NEW n, NEW kind \in {"hal", "lib", "shell", "memory", "handle"}, NEW c, NEW conns,
         Ready(conns, c), Register(t, n, Mirror(kind, c, 0, NoRing), conns)
  PROVE  MirrorsIInv'
<1> PICK m : m = Mirror(kind, c, 0, NoRing)
  OBVIOUS
<1>1. c \in Nat
  BY ClientsAreNumbers, Zenon DEF Ready
<1>2. m \in MirrorRecords /\ m.kind # "queue" /\ m.client = c
  BY <1>1 DEF Mirror, MirrorRecords, NoRing
<1> QED
  BY <1>2, RegisterStep, Zenon DEF QueueOk

(* InitHidlHal, InitSharedLib and InvokeTerminal.                          *)
LEMMA LaunchStep ==
  ASSUME MirrorsIInv, NEW t \in {"hal", "lib", "shell"}, NEW n, LaunchDriverService(t, n)
  PROVE  MirrorsIInv'
<1>1. t \in Trackers /\ t \in {"hal", "lib", "shell", "memory", "handle"}
  BY DEF Trackers
<1>2. Ready(Connect(NewClient), NewClient)
  BY ReadyNew, Zenon
<1>3. \/ Register(t, n, Mirror(t, NewClient, 0, NoRing), Connect(NewClient))
      \/ Abandon(NewClient)
  BY Zenon DEF LaunchDriverService
<1> QED
  BY <1>1, <1>2, <1>3, PlainMirror, AbandonStep, Zenon

LEMMA ClientsFacts ==
  ASSUME MirrorsIInv, NEW c \in Clients
  PROVE  c = NewClient \/ c \in DOMAIN connections
<1>1. CASE c = NewClient
  BY <1>1
<1>2. ASSUME NEW t \in {"hal", "resource"}, NEW n, c = ClientOf(t, n)
      PROVE  c = NewClient \/ c \in DOMAIN connections
  <2>1. t \in Trackers
    BY DEF Trackers
  <2>2. CASE n \in DOMAIN registered_mirrors[t]
    <3>1. MirrorOk(registered_mirrors[t][n], connections, closed_by_other)
      BY <2>1, <2>2, Zenon DEF MirrorsIInv, MirrorsOk
    <3>2. c = registered_mirrors[t][n].client
      BY <1>2, <2>2, Zenon DEF ClientOf, NamesIn
    <3> QED
      BY <3>1, <3>2, Zenon DEF MirrorOk
  <2>3. CASE n \notin DOMAIN registered_mirrors[t]
    BY <1>2, <2>3, Zenon DEF ClientOf, NamesIn
  <2> QED
    BY <2>2, <2>3
<1>3. CASE c # NewClient
  <2>1. PICK S \in {{ClientOf(t, n) : n \in HalTypes \cup QueueNames \cup AutoNames} : t \in {"hal", "resource"}} : c \in S
    BY <1>3, Zenon DEF Clients
  <2>2. PICK t \in {"hal", "resource"} : S = {ClientOf(t, n) : n \in HalTypes \cup QueueNames \cup AutoNames}
    BY <2>1, Zenon
  <2>3. PICK n : c = ClientOf(t, n)
    BY <2>1, <2>2, Zenon
  <2> QED
    BY <1>2, <2>3, Zenon
<1> QED
  BY <1>1, <1>3

(* The connections as a call finds them: a new client's session among them. *)
LEMMA ConnsReady ==
  ASSUME MirrorsIInv, NEW c \in Clients, NEW conns, conns = IF c = NewClient THEN Connect(c) ELSE connections,
         conns[c].open
  PROVE  Ready(conns, c)
<1>1. CASE c = NewClient
  BY <1>1, ReadyNew, Zenon
<1>2. CASE c # NewClient
  <2>1. c \in DOMAIN connections /\ conns = connections
    BY <1>2, ClientsFacts, Zenon
  <2> QED
    BY <2>1, ReadyOld, Zenon
<1> QED
  BY <1>1, <1>2

(* InitHidlMemory and InitHidlHandleForSingleFile.                         *)
LEMMA ResourceStep ==
  ASSUME MirrorsIInv, NEW c \in Clients, InitHidlMemory(c) \/ InitHidlHandleForSingleFile(c)
  PROVE  MirrorsIInv'
<1> PICK conns : conns = IF c = NewClient THEN Connect(c) ELSE connections
  OBVIOUS
<1>0. PICK kind \in {"memory", "handle"} : \E key : NewResource(kind, key, c)
  BY Zenon DEF InitHidlMemory, InitHidlHandleForSingleFile
<1>1. PICK key : NewResource(kind, key, c)
  BY <1>0, Zenon
<1>2. \/ conns[c].open /\ Register("resource", key, Mirror(kind, c, 0, NoRing), conns)
      \/ Abandon(NewClient)
  BY <1>1, Zenon DEF NewResource
<1>3. "resource" \in Trackers /\ kind \in {"hal", "lib", "shell", "memory", "handle"}
  BY DEF Trackers
<1> QED
  BY <1>2, <1>3, ConnsReady, PlainMirror, AbandonStep, Zenon

(* RemoveMirror and CleanUp, in the form of what goes from the registries. *)
LEMMA DroppedStep ==
  ASSUME MirrorsIInv, NEW regs, NEW cs, IsDropped(regs, registered_mirrors, cs),
         registered_mirrors' = regs, connections' = Disconnect(connections, cs),
         closed_by_other' = closed_by_other \cup (cs \cap Listed(regs)), UNCHANGED kept_clients
  PROVE  MirrorsIInv'
<1>1. /\ RegistryOk(regs)
      /\ \A u \in Trackers : \A x \in DOMAIN regs[u] :
            x \in DOMAIN registered_mirrors[u] /\ regs[u][x] = registered_mirrors[u][x]
      /\ \A u \in Trackers : \A x \in DOMAIN registered_mirrors[u] :
            x \notin DOMAIN regs[u] => registered_mirrors[u][x].client \in cs
  BY Zenon DEF IsDropped
<1> QED
  BY <1>1, DropStep

LEMMA QueueMirror ==
  ASSUME MirrorsIInv, NEW c, NEW conns, Ready(conns, c), NEW ring \in Nat \X Nat, NEW key, NEW id, id = Len(conns[c].queues),
         Register("resource", key, Mirror("queue", c, id, ring), [conns EXCEPT ![c].queues = Append(@, ring)])
  PROVE  MirrorsIInv'
<1> PICK m, d : m = Mirror("queue", c, id, ring) /\ d = [conns EXCEPT ![c].queues = Append(@, ring)]
  BY Zenon
<1>1. c \in Nat
  BY ClientsAreNumbers, Zenon DEF Ready
<1>2. Ready(d, c) /\ id \in Nat /\ Len(d[c].queues) = id + 1 /\ d[c].queues[id + 1] = ring
  <2>1. IsQueued(d, c, Len(conns[c].queues), ring)
    BY ReadyQueued, Zenon
  <2>2. IsQueued(d, c, id, ring)
    BY <2>1, Zenon
  <2> QED
    BY <2>2, Zenon DEF IsQueued
<1>3. m \in MirrorRecords /\ m.client = c /\ m.id = id /\ m.ring = ring
  BY <1>1, <1>2 DEF Mirror, MirrorRecords
<1>4. id < Len(d[c].queues)
  BY <1>2
<1>5. QueueOk(m, d)
  BY <1>2, <1>3, <1>4, Zenon DEF QueueOk
<1>6. "resource" \in Trackers
  BY DEF Trackers
<1> QED
  BY <1>2, <1>3, <1>5, <1>6, RegisterStep, Zenon

(* InitFmq, with a queue of its own or one based on a registered mirror.   *)
LEMMA FmqStep ==
  ASSUME ~AnySession, MirrorsIInv, NEW c \in Clients, NEW name,
         NEW existing \in NamesIn(registered_mirrors, "resource") \cup {NoName}, InitFmq(existing, name, c)
  PROVE  MirrorsIInv'
<1> PICK conns : conns = IF c = NewClient THEN Connect(c) ELSE connections
  OBVIOUS
<1> PICK base, id : base = registered_mirrors["resource"][existing] /\ id = Len(conns[c].queues)
  OBVIOUS
<1> PICK key : key = IF name # NoName THEN name ELSE IF id = 0 THEN "queue_id_0" ELSE "queue_id_1"
  OBVIOUS
<1>1. \/ /\ conns[c].open
         /\ Register("resource", key, Mirror("queue", c, id, NewRing(c, conns)),
                     [conns EXCEPT ![c].queues = Append(@, NewRing(c, conns))])
      \/ /\ existing # NoName /\ c = base.client /\ base.kind = "queue" /\ conns[c].open
         /\ Register("resource", key, Mirror("queue", c, id, base.ring),
                     [conns EXCEPT ![c].queues = Append(@, conns[c].queues[base.id + 1])])
      \/ Abandon(NewClient)
  BY Zenon DEF InitFmq
<1>2. CASE /\ conns[c].open
           /\ Register("resource", key, Mirror("queue", c, id, NewRing(c, conns)),
                       [conns EXCEPT ![c].queues = Append(@, NewRing(c, conns))])
  <2>1. Ready(conns, c)
    BY <1>2, ConnsReady, Zenon
  <2>2. c \in Nat
    BY <2>1, ClientsAreNumbers, Zenon DEF Ready
  <2>3. conns[c] \in Sessions
    BY <2>1, Zenon DEF Ready, SessionsOk
  <2>4. NewRing(c, conns) \in Nat \X Nat
    BY <2>2, <2>3 DEF NewRing, Sessions
  <2> QED
    BY <1>2, <2>1, <2>4, QueueMirror, Zenon
<1>3. CASE /\ existing # NoName /\ c = base.client /\ base.kind = "queue" /\ conns[c].open
           /\ Register("resource", key, Mirror("queue", c, id, base.ring),
                       [conns EXCEPT ![c].queues = Append(@, conns[c].queues[base.id + 1])])
  <2>1. existing \in DOMAIN registered_mirrors["resource"] /\ "resource" \in Trackers
    BY <1>3 DEF NamesIn, Trackers
  <2>2. MirrorOk(base, connections, closed_by_other)
    BY <2>1, Zenon DEF MirrorsIInv, MirrorsOk
  <2>3. c \in DOMAIN connections
    BY <1>3, <2>2, Zenon DEF MirrorOk
  <2>4. IsConnected(Connect(NewClient), Fresh)
    BY FreshIsOk, ConnectFacts, Zenon DEF MirrorsIInv, Connect
  <2>5. conns = connections
    BY <2>3, <2>4, Zenon DEF IsConnected
  <2>6. conns[c].queues[base.id + 1] = base.ring
    BY <1>3, <2>2, <2>5, Zenon DEF MirrorOk, QueueOk
  <2>7. base.ring \in Nat \X Nat
    BY <2>2 DEF MirrorOk, MirrorRecords
  <2>8. Ready(conns, c)
    BY <1>3, ConnsReady, Zenon
  <2> PICK ring : ring = base.ring
    OBVIOUS
  <2>9. Register("resource", key, Mirror("queue", c, id, ring), [conns EXCEPT ![c].queues = Append(@, ring)])
    BY <1>3, <2>6, Zenon
  <2> QED
    BY <2>7, <2>8, <2>9, QueueMirror, ZenonT(40)
<1> QED
  BY <1>1, <1>2, <1>3, AbandonStep, Zenon

(* ExecuteViaVtsDriver.                                                    *)
LEMMA ShellSteps ==
  ASSUME MirrorsIInv, ExecuteViaVtsDriver
  PROVE  MirrorsIInv'
<1> PICK m, c, s0 : m = registered_mirrors["shell"][DefaultShell] /\ c = m.client /\ s0 = connections[c]
  OBVIOUS
<1>1. DefaultShell \in DOMAIN registered_mirrors["shell"] /\ "shell" \in Trackers
  BY DEF ExecuteViaVtsDriver, NamesIn, Trackers
<1>2. MirrorOk(m, connections, closed_by_other)
  BY <1>1, Zenon DEF MirrorsIInv, MirrorsOk
<1>3. c \in DOMAIN connections
  BY <1>2, Zenon DEF MirrorOk
<1>4. s0 \in Sessions
  BY <1>3, Zenon DEF MirrorsIInv, SessionsOk
<1>5. PICK failed \in BOOLEAN : connections' = [connections EXCEPT ![c].error = failed]
  BY Zenon DEF ExecuteViaVtsDriver, ExecuteShellCommand
<1> PICK s : s = [s0 EXCEPT !.error = failed]
  OBVIOUS
<1>6. s \in Sessions /\ s.open = s0.open /\ s.queues = s0.queues
  BY <1>4 DEF Sessions
<1>7. connections' = [connections EXCEPT ![c] = s]
  BY <1>5, Zenon
<1>8. UNCHANGED <<registered_mirrors, kept_clients, closed_by_other>>
  BY Zenon DEF ExecuteViaVtsDriver
<1> QED
  BY <1>3, <1>6, <1>7, <1>8, SessionStep, Zenon

(* SessionDies.                                                            *)
LEMMA DiesStep ==
  ASSUME MirrorsIInv, NEW c \in DOMAIN connections, SessionDies(c)
  PROVE  MirrorsIInv'
<1> PICK s0, s : s0 = connections[c] /\ s = [s0 EXCEPT !.alive = FALSE]
  OBVIOUS
<1>1. s0 \in Sessions
  BY Zenon DEF MirrorsIInv, SessionsOk
<1>2. s \in Sessions /\ s.open = s0.open /\ s.queues = s0.queues
  BY <1>1 DEF Sessions
<1>3. connections' = [connections EXCEPT ![c] = s] /\ UNCHANGED <<registered_mirrors, kept_clients, closed_by_other>>
  BY Zenon DEF SessionDies
<1> QED
  BY <1>2, <1>3, SessionStep, Zenon

(* DisableShell.                                                           *)
LEMMA DisableStep ==
  ASSUME MirrorsIInv, DisableShell
  PROVE  MirrorsIInv'
<1> PICK regs0, f, g, regs :
      /\ regs0 = registered_mirrors /\ f = regs0["shell"]
      /\ g = [n \in DOMAIN f |-> [f[n] EXCEPT !.enabled = FALSE]]
      /\ regs = [regs0 EXCEPT !["shell"] = g]
  OBVIOUS
<1>0. /\ RegistryOk(regs0) /\ MirrorsOk(regs0, connections, closed_by_other)
      /\ OpenIsHeld(regs0, connections, kept_clients) /\ SessionsOk(connections)
  BY Zenon DEF MirrorsIInv
<1>1. registered_mirrors' = regs /\ UNCHANGED <<connections, kept_clients, closed_by_other>>
  BY Zenon DEF DisableShell
<1>2. "shell" \in Trackers
  BY DEF Trackers
<1>3. RegistryOk(regs) /\ regs["shell"] = g /\ \A u \in Trackers : u # "shell" => regs[u] = regs0[u]
  BY <1>0, <1>2 DEF RegistryOk
<1>4. ASSUME NEW u \in Trackers
      PROVE  /\ DOMAIN regs[u] = DOMAIN regs0[u]
             /\ \A x \in DOMAIN regs0[u] : /\ regs[u][x].client = regs0[u][x].client
                                           /\ MirrorOk(regs[u][x], connections, closed_by_other)
  <2>1. CASE u # "shell"
    BY <1>0, <1>3, <2>1, Zenon DEF MirrorsOk
  <2>2. CASE u = "shell"
    <3>1. DOMAIN regs[u] = DOMAIN regs0[u]
      BY <1>3, <2>2, Zenon
    <3>2. ASSUME NEW x \in DOMAIN regs0[u]
          PROVE  regs[u][x].client = regs0[u][x].client /\ MirrorOk(regs[u][x], connections, closed_by_other)
      <4> PICK m, o : m = regs0[u][x] /\ o = [m EXCEPT !.enabled = FALSE]
        OBVIOUS
      <4>1. regs[u][x] = o
        <5>1. x \in DOMAIN f /\ m = f[x]
          BY <2>2, Zenon
        <5>2. g[x] = [f[x] EXCEPT !.enabled = FALSE]
          BY <5>1, Zenon
        <5> QED
          BY <1>3, <2>2, <5>1, <5>2, Zenon
      <4>2. MirrorOk(m, connections, closed_by_other)
        BY <1>0, Zenon DEF MirrorsOk
      <4>3. m \in MirrorRecords
        BY <4>2, Zenon DEF MirrorOk
      <4>4. o \in MirrorRecords /\ o.client = m.client /\ o.kind = m.kind /\ o.id = m.id /\ o.ring = m.ring
        BY <4>3 DEF MirrorRecords
      <4>5. MirrorOk(o, connections, closed_by_other)
        BY <4>2, <4>4, Zenon DEF MirrorOk, QueueOk
      <4> QED
        BY <4>1, <4>4, <4>5, Zenon
    <3> QED
      BY <3>1, <3>2, Zenon
  <2> QED
    BY <2>1, <2>2
<1>5. MirrorsOk(regs, connections, closed_by_other)
  BY <1>4, Zenon DEF MirrorsOk
<1>6. OpenIsHeld(regs, connections, kept_clients)
  <2> SUFFICES ASSUME NEW c \in DOMAIN connections, connections[c].open
               PROVE  c \in Listed(regs) \/ c \in kept_clients
    BY Zenon DEF OpenIsHeld
  <2>1. c \in Listed(regs0) \/ c \in kept_clients
    BY <1>0, Zenon DEF OpenIsHeld
  <2>2. ASSUME c \in Listed(regs0)
        PROVE  c \in Listed(regs)
    <3>1. IsListed(regs0, c)
      BY <2>2, ListedOnly, Zenon
    <3>2. PICK u \in Trackers : \E x \in DOMAIN regs0[u] : c = regs0[u][x].client
      BY <3>1, Zenon DEF IsListed
    <3>3. PICK x \in DOMAIN regs0[u] : c = regs0[u][x].client
      BY <3>2
    <3>4. x \in DOMAIN regs[u] /\ regs[u][x].client = c
      BY <1>4, <3>3, ZenonT(40)
    <3> QED
      BY <3>4, ListedIs, Zenon
  <2> QED
    BY <2>1, <2>2, Zenon
<1> QED
  BY <1>0, <1>1, <1>3, <1>5, <1>6, Zenon DEF MirrorsIInv

(* RemoveMirror.                                                           *)
LEMMA RemoveStep ==
  ASSUME MirrorsIInv, NEW t \in Trackers, NEW n \in NamesIn(registered_mirrors, t), RemoveMirror(t, n)
  PROVE  MirrorsIInv'
<1> PICK regs0, f, c, regs :
      /\ regs0 = registered_mirrors /\ f = [x \in DOMAIN regs0[t] \ {n} |-> regs0[t][x]]
      /\ c = regs0[t][n].client /\ regs = [regs0 EXCEPT ![t] = f]
  OBVIOUS
<1>0. RegistryOk(regs0)
  BY Zenon DEF MirrorsIInv
<1>1. /\ registered_mirrors' = regs /\ connections' = Disconnect(connections, {c})
      /\ closed_by_other' = closed_by_other \cup ({c} \cap Listed(regs)) /\ UNCHANGED kept_clients
  BY Zenon DEF RemoveMirror
<1>2. RegistryOk(regs) /\ regs[t] = f /\ \A u \in Trackers : u # t => regs[u] = regs0[u]
  BY <1>0 DEF RegistryOk
<1>3. DOMAIN f = DOMAIN regs0[t] \ {n} /\ \A x \in DOMAIN f : f[x] = regs0[t][x]
  BY Zenon
<1>4. \A u \in Trackers : \A x \in DOMAIN regs[u] : x \in DOMAIN regs0[u] /\ regs[u][x] = regs0[u][x]
  <2> SUFFICES ASSUME NEW u \in Trackers, NEW x \in DOMAIN regs[u]
               PROVE  x \in DOMAIN regs0[u] /\ regs[u][x] = regs0[u][x]
    OBVIOUS
  <2>1. CASE u # t
    BY <1>2, <2>1, Zenon
  <2>2. CASE u = t
    <3>1. x \in DOMAIN f
      BY <1>2, <2>2, Zenon
    <3>2. x \in DOMAIN regs0[t] /\ f[x] = regs0[t][x]
      BY <1>3, <3>1, Zenon
    <3> QED
      BY <1>2, <2>2, <3>2, Zenon
  <2> QED
    BY <2>1, <2>2
<1>5. \A u \in Trackers : \A x \in DOMAIN regs0[u] : x \notin DOMAIN regs[u] => regs0[u][x].client \in {c}
  BY <1>2, <1>3, Zenon
<1>6. IsDropped(regs, regs0, {c})
  BY <1>2, <1>4, <1>5, Zenon DEF IsDropped
<1> QED
  BY <1>1, <1>6, DroppedStep, Zenon

(* CleanUp of a tracker.                                                   *)
LEMMA CleanUpStep ==
  ASSUME MirrorsIInv, NEW t \in Trackers, CleanUp(t)
  PROVE  MirrorsIInv'
<1> PICK regs0, e, regs : regs0 = registered_mirrors /\ e = << >> /\ regs = [regs0 EXCEPT ![t] = e]
  OBVIOUS
<1> PICK cs : cs = {regs0[t][n].client : n \in NamesIn(regs0, t)}
  OBVIOUS
<1>0. RegistryOk(regs0)
  BY Zenon DEF MirrorsIInv
<1>1. /\ registered_mirrors' = regs /\ connections' = Disconnect(connections, cs)
      /\ closed_by_other' = closed_by_other \cup (cs \cap Listed(regs)) /\ UNCHANGED kept_clients
  BY Zenon DEF CleanUp
<1>2. RegistryOk(regs) /\ regs[t] = e /\ \A u \in Trackers : u # t => regs[u] = regs0[u]
  BY <1>0 DEF RegistryOk
<1>3. DOMAIN e = {}
  OBVIOUS
<1>4. \A u \in Trackers : \A x \in DOMAIN regs[u] : x \in DOMAIN regs0[u] /\ regs[u][x] = regs0[u][x]
  BY <1>2, <1>3, Zenon
<1>5. \A x \in DOMAIN regs0[t] : regs0[t][x].client \in cs
  BY Zenon DEF NamesIn
<1>6. \A u \in Trackers : \A x \in DOMAIN regs0[u] : x \notin DOMAIN regs[u] => regs0[u][x].client \in cs
  BY <1>2, <1>5, Zenon
<1>7. IsDropped(regs, regs0, cs)
  BY <1>2, <1>4, <1>6, Zenon DEF IsDropped
<1> QED
  BY <1>1, <1>7, DroppedStep, Zenon

(* Every step keeps the invariant.                                         *)
LEMMA MirrorsStep ==
  ASSUME ~AnySession, MirrorsIInv, [MirrorsNext]_mirrorVars
  PROVE  MirrorsIInv'
<1>1. CASE UNCHANGED mirrorVars
  BY <1>1, Zenon DEF mirrorVars, MirrorsIInv
<1>2. CASE \/ \E target_type \in HalTypes : InitHidlHal(target_type)
           \/ \E handler_name \in Handlers : InitSharedLib(handler_name)
           \/ InvokeTerminal(DefaultShell)
  <2>1. "hal" \in {"hal", "lib", "shell"} /\ "lib" \in {"hal", "lib", "shell"} /\ "shell" \in {"hal", "lib", "shell"}
    OBVIOUS
  <2> QED
    BY <1>2, <2>1, LaunchStep, Zenon
       DEF InitHidlHal, InitHalDriver, InitSharedLib, InitLibDriver, LaunchMirrorDriver, InvokeTerminal
<1>3. CASE \E c \in Clients, name \in QueueNames \cup {NoName},
              existing \in NamesIn(registered_mirrors, "resource") \cup {NoName} : InitFmq(existing, name, c)
  BY <1>3, FmqStep, Zenon
<1>4. CASE \E c \in Clients : InitHidlMemory(c) \/ InitHidlHandleForSingleFile(c)
  BY <1>4, ResourceStep, Zenon
<1>5. CASE ExecuteViaVtsDriver \/ DisableShell
  BY <1>5, ShellSteps, DisableStep, Zenon
<1>6. CASE \E t \in Trackers : \E n \in NamesIn(registered_mirrors, t) : RemoveMirror(t, n)
  BY <1>6, RemoveStep, Zenon
<1>7. CASE \/ \E t \in Trackers : CleanUp(t)
           \/ \E c \in DOMAIN connections : SessionDies(c)
  BY <1>7, CleanUpStep, DiesStep, Zenon
<1> QED
  BY <1>1, <1>2, <1>3, <1>4, <1>5, <1>6, <1>7, ZenonT(40) DEF MirrorsNext

LEMMA MirrorsBegin ==
  ASSUME MirrorsInit
  PROVE  MirrorsIInv
<1> PICK e, regs : e = << >> /\ regs = [t \in Trackers |-> e]
  OBVIOUS
<1>1. connections = e /\ registered_mirrors = regs
  BY Zenon DEF MirrorsInit
<1>2. DOMAIN e = {} /\ e = [x \in DOMAIN e |-> e[x]]
  OBVIOUS
<1>3. IsFiniteSet(DOMAIN e) /\ Cardinality(DOMAIN e) = 0
  BY <1>2, FS_EmptySet, Zenon
<1>4. 1..0 = {}
  OBVIOUS
<1>5. SessionsOk(e)
  BY <1>2, <1>3, <1>4, Zenon DEF SessionsOk
<1>6. RegistryOk(regs) /\ \A t \in Trackers : DOMAIN regs[t] = {}
  BY <1>2 DEF RegistryOk
<1> QED
  BY <1>1, <1>2, <1>5, <1>6, Zenon DEF MirrorsIInv, MirrorsOk, OpenIsHeld

(* For any HALs, names and number of clients and queues, when a test names *)
(* a queue only in calls of the session that has it (~AnySession): a       *)
(* mirror that a tracker lists has an open connection, unless its client   *)
(* was closed through another mirror that shares it, a queue's mirror      *)
(* reaches its own ring, and no open connection is left without a mirror.  *)
THEOREM MirrorsAlwaysReachTheirSessions == ~AnySession /\ MirrorsSpec => []MirrorsReachTheirSessions
<1> SUFFICES ASSUME ~AnySession
             PROVE  MirrorsSpec => []MirrorsReachTheirSessions
  OBVIOUS
<1>1. MirrorsInit => MirrorsIInv
  BY MirrorsBegin
<1>2. MirrorsIInv /\ [MirrorsNext]_mirrorVars => MirrorsIInv'
  BY MirrorsStep
<1>3. MirrorsIInv => MirrorsReachTheirSessions
  BY Zenon DEF MirrorsIInv, MirrorsOk, MirrorOk, QueueOk, OpenIsHeld, MirrorsReachTheirSessions, NamesIn
<1> QED
  BY <1>1, <1>2, <1>3, PTL DEF MirrorsSpec
=============================================================================
