----------------------------- MODULE BinaryTests -----------------------------
(***************************************************************************)
(* The templates of tests that run binaries on the device: testcases/      *)
(* template/binary_test, gtest_binary_test and the preconditions of        *)
(* hal_hidl_gtest.  A class pushes its binaries and runs them; of a gtest  *)
(* binary it asks the tests, runs them one by one and reads the XML report *)
(* that the binary leaves on the device.  tearDownClass removes what was   *)
(* pushed.                                                                 *)
(*                                                                         *)
(* A path is [dir, base], dir a sequence of names.  An option of the       *)
(* configuration is a list of tokens [tag, val], tag "" for a token        *)
(* without "tag::".  A test source is [tag, src, exists, native, arrow,    *)
(* to]: the host file ("" for none, the binary is on the device then),     *)
(* whether it exists, the root its path selects, and what follows it:      *)
(* "no" arrow, an arrow with an "empty" destination, or an arrow "to" a    *)
(* path.  sysprop is precondition_sysprop split at "=", and prop what      *)
(* getprop prints: <<>> when it fails, <<"">> for an undefined property.   *)
(***************************************************************************)
EXTENDS Integers, Sequences, SequencesExt, FiniteSets

CONSTANTS
  BinaryConfigs,  \* [kind : {"binary", "gtest", "hal"}, bitness, batch, coverage, sources, wd, env,
                  \*  args, ld, prof, present, sysprop, prop, prefix, service, lshal]
  GtestsOf,       \* the tests of a binary, by the name of its file: a sequence
  OutputName,     \* a test case's name with every \W+ made "_", which is not one to one
  Outcomes,       \* what a test does: "pass", "fail", "disabled", "crash"
  MaxSetUps,      \* bound: failures of setUpClass in an attempt
  MaxAttempts     \* max_retry_count + 1

VARIABLES
  bcfg, bphase, battempt, setups,
  onDevice,       \* files of the device
  made,           \* directories that were made for the pushed files
  gtestReport,    \* XML reports on the device: path -> [test, outcome]
  bcases, nextCase,
  skipAll,        \* isSkipAllTests, which nothing sets back
  verdict,        \* recorded verdicts, by test: "none", "pass", "fail", "skip"
  shown,          \* history: what the commands of a test did, as far as they were answered
  lost            \* history: report files whose command was not answered

binaryVars == <<bcfg, bphase, battempt, setups, onDevice, made, gtestReport, bcases, nextCase, skipAll, verdict,
                shown, lost>>

DEFAULT_TAG_32 == "_32bit"
DEFAULT_TAG_64 == "_64bit"
COVERAGE_TEST_ENV == "GCOV_PREFIX"
-----------------------------------------------------------------------------
(* The options, by tag. *)
OfTag(tokens, tag) == LET mine == SelectSeq(tokens, LAMBDA t : t.tag = tag) IN [i \in DOMAIN mine |-> mine[i].val]
LastOr(vals, default) == IF vals = <<>> THEN default ELSE vals[Len(vals)]

working_directory(c, tag) == LastOr(OfTag(c.wd, tag), <<>>)

(* The values of a tag are put together.  With global coverage the default *)
(* tags get the variables of the coverage runtime; one that has an         *)
(* environment already gets '%s %s' instead, which format leaves alone.    *)
envpOfUser(c, tag) == OfTag(c.env, tag)
envp(c, tag) ==
  IF ~c.coverage \/ tag \notin {DEFAULT_TAG_32, DEFAULT_TAG_64} THEN envpOfUser(c, tag)
  ELSE IF envpOfUser(c, tag) = <<>> THEN <<COVERAGE_TEST_ENV>> ELSE <<"%s %s">>
argsOf(c, tag) == OfTag(c.args, tag)

profiling_library_path(c, tag) ==
  LastOr(OfTag(c.prof, tag), CASE tag = DEFAULT_TAG_32 -> "/data/local/tmp/32/"
                               [] tag = DEFAULT_TAG_64 -> "/data/local/tmp/64/" [] OTHER -> "")

(* A library path of the user comes before the ones already there. *)
ld_library_path(c, tag) ==
  Reverse(OfTag(c.ld, tag))
    \o (CASE tag = DEFAULT_TAG_32 -> <<"/data/local/tmp/32/">>
          [] tag = DEFAULT_TAG_64 -> <<"/data/local/tmp/64/">>
          [] OTHER -> <<>>)
-----------------------------------------------------------------------------
_GetDefaultBinaryPushDstPath(native, tag) ==
  <<native, "vts_binary_test">> \o (IF tag = "" THEN <<>> ELSE <<tag>>)

(* ParseTestSource: <<>> for a host file that does not exist; the tag is   *)
(* <<>> for a file that is pushed only.                                    *)
ParseTestSource(c, s) ==
  LET parent == IF OfTag(c.wd, s.tag) # <<>> THEN working_directory(c, s.tag)
                ELSE _GetDefaultBinaryPushDstPath(s.native, s.tag)
  IN  IF s.src # "" /\ ~s.exists THEN <<>>
      ELSE <<[src |-> s.src,
              dst |-> IF s.arrow = "to" THEN s.to ELSE [dir |-> parent, base |-> s.src],
              tag |-> IF s.arrow = "empty" THEN <<>> ELSE <<s.tag>>]>>

Parsed(c) == FlattenSeq([i \in DOMAIN c.sources |-> ParseTestSource(c, c.sources[i])])

(* A source whose tag ends in the other bitness is left out. *)
isValidSource(c, p) ==
  p.tag # <<>> => <<p.tag[1], c.bitness>> \notin {<<DEFAULT_TAG_32, 64>>, <<DEFAULT_TAG_64, 32>>}
ValidSources(c) == SelectSeq(Parsed(c), LAMBDA p : isValidSource(c, p))

(* BinaryTestCase with the options of its tag, which PutTag appends to the *)
(* name that is displayed.                                                 *)
PutTag(name, tag) == <<name, tag>>
BinaryTestCase(c, full_name, path, tag) ==
  [full |-> full_name, name |-> PutTag(full_name, tag), path |-> path, wd |-> working_directory(c, tag),
   env |-> envp(c, tag), args |-> argsOf(c, tag), ld |-> ld_library_path(c, tag),
   prof |-> profiling_library_path(c, tag)]

(* CreateTestCase: the binary itself, or for a gtest binary each test that *)
(* it lists.                                                               *)
CreateBinaryCase(c, p) == <<BinaryTestCase(c, p.dst.base, p.dst, p.tag[1])>>
CreateGtestCases(c, p) ==
  LET tests == GtestsOf[p.dst.base]
  IN  [i \in DOMAIN tests |-> BinaryTestCase(c, tests[i], p.dst, p.tag[1])]

(* CreateTestCases, after the pushes. *)
CreateTestCases(c) ==
  LET tests == SelectSeq(ValidSources(c), LAMBDA p : p.tag # <<>>)
  IN  FlattenSeq([i \in DOMAIN tests |-> IF c.kind = "binary" THEN CreateBinaryCase(c, tests[i])
                                         ELSE CreateGtestCases(c, tests[i])])

(* The files of the first n sources are on the device. *)
Pushed(c, n) == {ValidSources(c)[i].dst : i \in {j \in 1..n : ValidSources(c)[j].src # ""}}
Push(n) ==
  LET files == Pushed(bcfg, n)
  IN  /\ onDevice' = onDevice \cup files
      /\ made' = made \cup UNION {{SubSeq(f.dir, 1, k) : k \in 2..Len(f.dir)} : f \in files}

(* The preconditions of a class.  CheckSysPropPrecondition takes a value   *)
(* that is malformed, unreadable or undefined for satisfied.               *)
CheckSysPropPrecondition(c) ==
  Len(c.sysprop) = 2 /\ c.prop \notin {<<>>, <<"">>} => c.prop[1] = c.sysprop[2]

(* The paths that a bitness requires: an untagged one is for both.         *)
file_path_prefix(c, tag) == {c.prefix[i].val : i \in {j \in DOMAIN c.prefix : c.prefix[j].tag \in {"", tag}}}

(* CanRunHidlHalTest, with the files that are on the device after the      *)
(* push: the service in ps (a name that is not android.hardware's is only  *)
(* logged), the files, and what the testability checker says of the HAL.   *)
CanRunHidlHalTest(c, files, running) ==
  /\ c.service = "valid" => running
  /\ file_path_prefix(c, IF c.bitness = 32 THEN DEFAULT_TAG_32 ELSE DEFAULT_TAG_64) \subseteq files
  /\ c.lshal # "untestable"

(* The report is next to the binary and named after the test. *)
output_file_path(t) == [dir |-> t.path.dir, base |-> OutputName[t.name]]
-----------------------------------------------------------------------------
(* tearDownClass deletes the destinations of all sources that exist on the *)
(* host, those of the other bitness too.                                   *)
DeletedPaths(c) == {Parsed(c)[i].dst : i \in {j \in DOMAIN Parsed(c) : Parsed(c)[j].src # ""}}

(* It then removes their directories, and the default one, the longest     *)
(* path first, those that are empty.                                       *)
DeletedDirs(c) ==
  {p.dir : p \in DeletedPaths(c)} \cup {IF OfTag(c.wd, "") # <<>> THEN working_directory(c, "")
                                       ELSE _GetDefaultBinaryPushDstPath("tmp", "")}
tearDownBinaries ==
  LET left == (onDevice \ DeletedPaths(bcfg)) \cup DOMAIN gtestReport
      within(d) == {f \in left : IsPrefix(d, f.dir)} \cup {e \in made \ DeletedDirs(bcfg) : IsPrefix(d, e)}
  IN  /\ onDevice' = onDevice \ DeletedPaths(bcfg)
      /\ made' = made \ {d \in DeletedDirs(bcfg) : within(d) = {}}

(* The class is over, or tried again when a test did not pass. *)
EndOfRun ==
  /\ tearDownBinaries
  /\ IF battempt < MaxAttempts /\ \E t \in DOMAIN verdict : verdict[t] = "fail"
     THEN bphase' = "setup" /\ battempt' = battempt + 1
     ELSE bphase' = "over" /\ UNCHANGED battempt
  /\ setups' = 0 /\ bcases' = <<>> /\ nextCase' = 1
  /\ UNCHANGED <<bcfg, gtestReport, skipAll, verdict, shown, lost>>

BinaryInit ==
  /\ bcfg \in BinaryConfigs /\ bphase = "setup" /\ battempt = 1 /\ setups = 0
  /\ onDevice = bcfg.present /\ made = {} /\ gtestReport = [f \in {} |-> <<>>] /\ bcases = <<>> /\ nextCase = 1 /\ skipAll = FALSE
  /\ LET all == CreateTestCases(bcfg) IN
       /\ verdict = [n \in {all[i].name : i \in DOMAIN all} |-> "none"]
       /\ shown = [n \in DOMAIN verdict |-> {}]
  /\ lost = {}

(* setUpClass.  A precondition skips the tests but the files are pushed    *)
(* and listed all the same, before the one of a HAL test is looked at.     *)
setUpBinaries(running) ==
  /\ bphase = "setup" /\ bphase' = "run"
  /\ Push(Len(ValidSources(bcfg)))
  /\ bcases' = CreateTestCases(bcfg)
  /\ skipAll' = (\/ skipAll \/ ~CheckSysPropPrecondition(bcfg)
                 \/ bcfg.kind = "hal" /\ ~CanRunHidlHalTest(bcfg, onDevice', running))
  /\ UNCHANGED <<bcfg, battempt, setups, gtestReport, nextCase, verdict, shown, lost>>

(* A push fails, or a binary does not list its tests, and setUpClass is    *)
(* tried again; at last the class fails.                                   *)
setUpBinariesFails(n) ==
  /\ bphase = "setup" /\ Push(n)
  /\ IF setups < MaxSetUps THEN setups' = setups + 1 /\ UNCHANGED bphase
     ELSE bphase' = "failed" /\ UNCHANGED setups
  /\ skipAll' = (skipAll \/ ~CheckSysPropPrecondition(bcfg))
  /\ UNCHANGED <<bcfg, battempt, gtestReport, bcases, nextCase, verdict, shown, lost>>

tearDownAfterFailure ==
  /\ bphase = "failed" /\ tearDownBinaries /\ bphase' = "over"
  /\ UNCHANGED <<bcfg, battempt, setups, gtestReport, bcases, nextCase, skipAll, verdict, shown, lost>>
-----------------------------------------------------------------------------
(* BinaryTestCase.GetRunCommand: "cd wd && env envp LD_LIBRARY_PATH=ld     *)
(* path args", each part when there is something to put there.             *)
RawCommand(t) ==
  [cd |-> t.wd, env |-> t.env, ld |-> IF t.ld = <<>> THEN <<>> ELSE <<"LD_LIBRARY_PATH">> \o t.ld,
   cmd |-> t.path, args |-> t.args]

(* VerifyTestResult of a binary: its exit code. *)
VerifyTestResult(outcome) == IF outcome = "pass" THEN "pass" ELSE "fail"

(* The two commands of a gtest: the binary, which writes its report unless *)
(* it crashes, and cat && rm.  r is the report as cat shows it, <<>> when  *)
(* there is none.                                                          *)
RunCommandKeeps(t, outcome) ==
  LET f == output_file_path(t)
      r == IF outcome # "crash" THEN <<[test |-> t.full, tag |-> t.name[2], outcome |-> outcome]>>
           ELSE IF f \in DOMAIN gtestReport THEN <<gtestReport[f]>> ELSE <<>>
  IN  [r |-> r, gtestReport |-> IF r = <<>> THEN gtestReport ELSE [g \in DOMAIN gtestReport \cup {f} |-> IF g = f THEN r[1] ELSE gtestReport[g]]]
GetRunCommand(t, outcome) ==
  LET f == output_file_path(t)
      r == IF outcome # "crash" THEN <<[test |-> t.full, tag |-> t.name[2], outcome |-> outcome]>>
           ELSE IF f \in DOMAIN gtestReport THEN <<gtestReport[f]>> ELSE <<>>
  IN  [r |-> r, gtestReport |-> [g \in DOMAIN gtestReport \ {f} |-> gtestReport[g]]]

(* VerifyTestResult, one test at a time: _ParseResultXmlString fails the   *)
(* test when there is no report.                                           *)
VerifyGtestResult(r) ==
  IF r = <<>> THEN "fail"
  ELSE CASE r[1].outcome = "fail" -> "fail" [] r[1].outcome = "disabled" -> "skip" [] OTHER -> "pass"

(* _ParseBatchResults and _VerifyBatchResult: a test case of the report    *)
(* fails when it holds anything but properties.                            *)
_VerifyBatchResult(r) == IF r[1].outcome = "fail" THEN "fail" ELSE "pass"

(* A later attempt is filtered by the names of the failed tests. *)
Retried(name) == battempt = 1 \/ verdict[name] = "fail"

(* RunTestCase, the command answered or not. *)
Executed(t, outcome) ==
  /\ shown' = [shown EXCEPT ![t.name] = @ \cup {[outcome |-> outcome, cmd |-> RawCommand(t), prof |-> t.prof]}]
  /\ UNCHANGED lost
Unanswered(t, outcome) ==
  LET f == output_file_path(t) IN
  /\ outcome # "crash"
  /\ gtestReport' = [g \in DOMAIN gtestReport \cup {f} |->
                  IF g = f THEN [test |-> t.full, tag |-> t.name[2], outcome |-> outcome] ELSE gtestReport[g]]
  /\ lost' = lost \cup {f}
  /\ UNCHANGED shown

Case1 == bcases[nextCase]
More == bphase = "run" /\ nextCase \in DOMAIN bcases
Batched == bcfg.batch /\ ~skipAll

SkipOrPassOver ==
  /\ More /\ (skipAll \/ (~bcfg.batch /\ ~Retried(Case1.name)))
  /\ verdict' = IF Retried(Case1.name) THEN [verdict EXCEPT ![Case1.name] = "skip"] ELSE verdict
  /\ nextCase' = nextCase + 1
  /\ UNCHANGED <<bcfg, bphase, battempt, setups, onDevice, made, gtestReport, bcases, skipAll, shown, lost>>

RunBinaryCase(outcome) ==
  /\ More /\ bcfg.kind = "binary" /\ ~skipAll /\ Retried(Case1.name) /\ outcome # "disabled"
  /\ \/ Executed(Case1, outcome) /\ verdict' = [verdict EXCEPT ![Case1.name] = VerifyTestResult(outcome)]
     \/ verdict' = [verdict EXCEPT ![Case1.name] = "fail"] /\ UNCHANGED <<shown, lost>>
  /\ nextCase' = nextCase + 1
  /\ UNCHANGED <<bcfg, bphase, battempt, setups, onDevice, made, gtestReport, bcases, skipAll>>

RunGtestCase(outcome) ==
  /\ More /\ bcfg.kind # "binary" /\ ~skipAll /\ ~bcfg.batch /\ Retried(Case1.name)
  /\ \/ /\ Executed(Case1, outcome) /\ gtestReport' = GetRunCommand(Case1, outcome).gtestReport
        /\ verdict' = [verdict EXCEPT ![Case1.name] = VerifyGtestResult(GetRunCommand(Case1, outcome).r)]
     \/ Unanswered(Case1, outcome) /\ verdict' = [verdict EXCEPT ![Case1.name] = "fail"]
  /\ nextCase' = nextCase + 1
  /\ UNCHANGED <<bcfg, bphase, battempt, setups, onDevice, made, bcases, skipAll>>

(* In batch mode the command runs outside of any test: without a report    *)
(* the exception ends the class.  The records are those of the tests that  *)
(* the report names.                                                       *)
RunBatch(outcome) ==
  LET r == GetRunCommand(Case1, outcome).r
      name == PutTag(r[1].test, r[1].tag)
  IN  /\ More /\ Batched
      /\ \/ /\ Executed(Case1, outcome) /\ gtestReport' = GetRunCommand(Case1, outcome).gtestReport /\ r # <<>>
            /\ verdict' = IF Retried(name) THEN [verdict EXCEPT ![name] = _VerifyBatchResult(r)] ELSE verdict
            /\ nextCase' = nextCase + 1
         \/ /\ Executed(Case1, outcome) /\ r = <<>> /\ UNCHANGED <<verdict, gtestReport>>
            /\ nextCase' = Len(bcases) + 1
         \/ Unanswered(Case1, outcome) /\ UNCHANGED verdict /\ nextCase' = Len(bcases) + 1
      /\ UNCHANGED <<bcfg, bphase, battempt, setups, onDevice, made, bcases, skipAll>>

generateAllTests == bphase = "run" /\ nextCase > Len(bcases) /\ EndOfRun

BinaryNext ==
  \/ \E running \in BOOLEAN : setUpBinaries(running)
  \/ tearDownAfterFailure \/ SkipOrPassOver \/ generateAllTests
  \/ \E n \in 0..Len(ValidSources(bcfg)) : setUpBinariesFails(n)
  \/ \E outcome \in Outcomes : RunBinaryCase(outcome) \/ RunGtestCase(outcome) \/ RunBatch(outcome)
BinarySpec == BinaryInit /\ [][BinaryNext]_binaryVars
-----------------------------------------------------------------------------
(* A command was given the options of the test's tag: all its variables    *)
(* and arguments, the user's library paths before the default one, the     *)
(* last working directory.  Coverage loses the environment of a default    *)
(* tag that has one.                                                       *)
Given(run, name) ==
  LET of(tokens) == {tokens[i].val : i \in {j \in DOMAIN tokens : tokens[j].tag = name[2]}}
      default == {DEFAULT_TAG_32, DEFAULT_TAG_64}
      cov == IF bcfg.coverage /\ name[2] \in default THEN {COVERAGE_TEST_ENV} ELSE {}
      cmd == run.cmd
  IN  /\ ToSet(cmd.env) = of(bcfg.env) \cup cov \/ (cov # {} /\ of(bcfg.env) # {})
      /\ ToSet(cmd.args) = of(bcfg.args)
      /\ of(bcfg.ld) \subseteq ToSet(cmd.ld)
      /\ name[2] \in default => Last(cmd.ld) \in {"/data/local/tmp/32/", "/data/local/tmp/64/"} \ of(bcfg.ld)
      /\ cmd.cd = <<>> \/ cmd.cd \in of(bcfg.wd)
      /\ of(bcfg.prof) # {} => run.prof \in of(bcfg.prof)

(* What RunTestCase, VerifyTestResult and the retries record: a test that  *)
(* passed did pass, in a command with the options of its tag, also when    *)
(* another test has the same report file or an earlier attempt left one;   *)
(* only a report whose command was not answered can be taken for another   *)
(* one.  A test is skipped only for a precondition or because its report   *)
(* says that it is disabled.  One by one, every test of the binaries gets  *)
(* a verdict.                                                              *)
VerdictsAreEarned ==
  /\ \A n \in DOMAIN verdict :
       verdict[n] = "pass" =>
         \/ \E r \in shown[n] : Given(r, n) /\ r.outcome \in (IF bcfg.batch THEN {"pass", "disabled"} ELSE {"pass"})
         \/ \E f \in lost : f.base = OutputName[n]
  /\ \A n \in DOMAIN verdict :
       verdict[n] = "skip" /\ ~skipAll =>
         (\E r \in shown[n] : r.outcome = "disabled") \/ \E f \in lost : f.base = OutputName[n]
  /\ bphase = "over" /\ ~bcfg.batch /\ setups = 0 => \A n \in DOMAIN verdict : verdict[n] # "none"

(* tearDownClass, after any number of failed set-ups and attempts: the     *)
(* device has the files it had, but for those that lay at a destination,   *)
(* no report is left but those of commands that were not answered, and     *)
(* without a working directory for untagged sources no directory of the    *)
(* class is left in /data/local/tmp.                                       *)
PushedIsRemoved ==
  bphase = "over" =>
    /\ onDevice = bcfg.present \ DeletedPaths(bcfg) /\ DOMAIN gtestReport \subseteq lost
    /\ OfTag(bcfg.wd, "") = <<>> => \A d \in made : IsPrefix(<<"tmp", "vts_binary_test">>, d) =>
         \E f \in onDevice \cup lost : IsPrefix(d, f.dir)

(* Binaries are pushed, run for every test and removed. *)
BinariesAreTested == VerdictsAreEarned /\ PushedIsRemoved
=============================================================================
