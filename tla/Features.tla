------------------------------ MODULE Features ------------------------------
(***************************************************************************)
(* The features that a HIDL gtest class switches on around its test cases  *)
(* (testcases/template/hal_hidl_gtest and binary_test, run by base_test):  *)
(* CPU frequency scaling (utils/python/cpu), systrace (utils/python/       *)
(* systrace), profiling (utils/python/profiling), the web report           *)
(* (utils/python/web) and the upload of logs (utils/python/reporting).     *)
(*                                                                         *)
(* A frequency is the string of its digits, as the shell returns it.  A    *)
(* HAL call is known by the test case that makes it and its API; a trace   *)
(* file is the sequence of the calls in it, and latencies are left out.    *)
(***************************************************************************)
EXTENDS Integers, Sequences, SequencesExt, FiniteSets

CONSTANTS
  Cpus,       \* 0..n
  LogFiles,   \* files in the log directory, [dir, name]
  CalledApis, \* APIs that the tests call
  OwnApis,    \* those that the interface defines and does not inherit
  MaxCases,   \* bound: test cases of the class
  MaxFailed   \* bound: commands that fail

VARIABLES
  clsphase,   \* "new", "ready", "entered", "setup", "ran", "torn", "down", "reported" or "uploaded"
  params,     \* user parameters: disable_cpu_frequency_scaling, skip_if_thermal_throttling, table
  gov,        \* [Cpus -> governor] on the device
  cpufreq,    \* CpuFrequencyScalingController: _perf_override and _saved_governors
  skip_all,   \* isSkipAllTests
  testcase,   \* number of the test case
  device_trace,    \* calls in the device's *.vts.trace
  instrumented,    \* hal.instrumentation.enable
  profiling_data,  \* _profiling_data: sequence of parsed trace files
  api_coverage_data,  \* [seen, covered]: of the interface, covered_apis once it was seen
  latencies,  \* calls whose latencies were uploaded
  profiled,   \* history: calls of the test cases that passed and whose trace was parsed
  systrace,   \* [process, output]: test case traced by the process and by the output file, or 0
  report,     \* [current, systrace, logs]: the report message
  saved,      \* systrace files and logs that were saved
  date,       \* the day
  failed      \* number of commands that failed

featureVars == <<clsphase, params, gov, cpufreq, skip_all, testcase, device_trace, instrumented,
                 profiling_data, api_coverage_data, latencies, profiled, systrace, report, saved, date, failed>>
cpuVars == <<params, gov, cpufreq, skip_all>>
profilingVars == <<device_trace, instrumented, profiling_data, api_coverage_data, latencies, profiled>>
linkVars == <<systrace, report, saved, date>>

(* A command that may fail, within the bound. *)
MayFail(n) == failed + n <= MaxFailed /\ failed' = failed + n
-----------------------------------------------------------------------------
(* ChangeCpuGovernor: reads all governors, then writes them one by one;    *)
(* bad is the set of CPUs whose file cannot be written.                    *)
Written(modes, bad) == [c \in Cpus |-> IF c \in bad THEN gov[c] ELSE modes[c]]

(* DisableCpuScaling remembers the governors only if all were changed.     *)
DisableCpuScaling(readable, bad) ==
  IF cpufreq.perf_override \/ ~readable THEN UNCHANGED <<gov, cpufreq>>
  ELSE /\ gov' = Written([c \in Cpus |-> "performance"], bad)
       /\ cpufreq' = IF bad = {} THEN [perf_override |-> TRUE, saved_governors |-> gov] ELSE cpufreq

(* EnableCpuScaling forgets them, whether or not they could be written.    *)
EnableCpuScaling(bad) ==
  IF ~cpufreq.perf_override THEN UNCHANGED <<gov, cpufreq>>
  ELSE /\ gov' = Written(cpufreq.saved_governors, bad)
       /\ cpufreq' = [cpufreq EXCEPT !.perf_override = FALSE]

(* IsUnderThermalThrottling compares the first two as strings, the others  *)
(* as numbers; the table of frequencies need not exist.                    *)
Greater(s, t) == \E i \in DOMAIN s : /\ SubSeq(s, 1, i - 1) = SubSeq(t, 1, i - 1)
                                     /\ i > Len(t) \/ s[i] > t[i]
Number(s) == IF Len(s) = 1 THEN s[1] ELSE 10 * s[1] + s[2]
Frequencies == {<<9>>, <<1, 0>>}
TheoreticalMax == <<1, 0>>
IsUnderThermalThrottling(max, cur) ==
  Greater(max, cur) \/ (params.table /\ Number(TheoreticalMax) > Number(cur))
-----------------------------------------------------------------------------
FeaturesInit ==
  /\ clsphase = "new" /\ params = [disable |-> TRUE, skip |-> FALSE, table |-> TRUE]
  /\ gov = [c \in Cpus |-> IF c = 0 THEN "schedutil" ELSE "interactive"]
  /\ cpufreq = [perf_override |-> FALSE, saved_governors |-> <<>>] /\ skip_all = FALSE /\ testcase = 0
  /\ device_trace = <<[case |-> 99, api |-> "old"]>> /\ api_coverage_data = [seen |-> FALSE, covered |-> {}] /\ instrumented = FALSE /\ profiling_data = <<>>
  /\ latencies = <<>> /\ profiled = <<>> /\ systrace = [process |-> 0, output |-> 0]
  /\ report = [current |-> 0, systrace |-> {}, logs |-> {}] /\ saved = {} /\ date = 0 /\ failed = 0

(* setUpClass: scaling is disabled first, then the precondition is checked,*)
(* which may skip all test cases.                                          *)
SetUpClass ==
  /\ clsphase = "new" /\ clsphase' = "ready"
  /\ \E disable, skip, table, readable, runnable \in BOOLEAN, bad \in SUBSET Cpus :
       /\ (bad # {} => readable) /\ MayFail(Cardinality(bad) + IF readable THEN 0 ELSE 1)
       /\ params' = [disable |-> disable, skip |-> skip, table |-> table]
       /\ IF disable THEN DisableCpuScaling(readable, bad) ELSE UNCHANGED <<gov, cpufreq>>
       /\ skip_all' = ~runnable
  /\ UNCHANGED <<profilingVars, linkVars, testcase>>

AddTestReport(test) == report' = [report EXCEPT !.current = test]

(* _testEntry, and the start of _setUp: systrace's process is started for  *)
(* the test case, or it fails to start (SystraceController.Start).         *)
StartSystrace ==
  /\ clsphase \in {"ready", "torn"} /\ ~skip_all /\ testcase < MaxCases
  /\ testcase' = testcase + 1 /\ clsphase' = "entered"
  /\ AddTestReport(testcase + 1)
  /\ \/ MayFail(0) /\ systrace' = [process |-> testcase + 1, output |-> 0]
     \/ MayFail(1) /\ systrace' = [process |-> 0, output |-> 0]
  /\ UNCHANGED <<cpuVars, profilingVars, saved, date>>

(* setUp: SkipIfThermalThrottling, which is repeated once after a while.   *)
SkipIfThermalThrottling ==
  /\ clsphase = "entered"
  /\ \E max1, cur1, max2, cur2 \in Frequencies :
       /\ Number(cur1) <= Number(max1) /\ Number(cur2) <= Number(max2)
       /\ LET throttling == params.skip /\ IsUnderThermalThrottling(max1, cur1)
                                        /\ IsUnderThermalThrottling(max2, cur2)
          IN clsphase' = IF throttling THEN "ran" ELSE "setup"
  /\ UNCHANGED <<cpuVars, profilingVars, linkVars, testcase, failed>>

(* EnableVTSProfiling without the removal of the trace files. *)
EnablesOnTop(calls) == device_trace \o calls
(* EnableVTSProfiling removes the trace files; then the test binary runs.  *)
EnableVTSProfiling(calls) == calls

(* _ParseTraceData: nothing is known of a trace that cannot be parsed.  An *)
(* API that is not the interface's own is left out only in the first call  *)
(* of the interface.                                                       *)
_ParseTraceData(trace, parsed) == IF parsed THEN trace ELSE <<>>
CoverApis(trace) ==
  FoldLeft(LAMBDA cov, call : [seen |-> TRUE, covered |-> IF cov.seen THEN cov.covered \cup {call.api}
                                                          ELSE {call.api} \cap OwnApis],
           api_coverage_data, trace)

(* ProcessTraceDataForTestCase: the trace is pulled and parsed. *)
ProcessTraceDataForTestCase(trace, parsed) ==
  LET data == _ParseTraceData(trace, parsed)
  IN profiling_data' = Append(profiling_data, data) /\ api_coverage_data' = CoverApis(data)

(* DisableVTSProfiling. *)
DisableVTSProfiling == instrumented' = FALSE

(* RunTestCase: the test case passes, its trace is processed and profiling *)
(* is disabled; or it fails and raises before that.                        *)
RunTestCase ==
  /\ clsphase = "setup" /\ clsphase' = "ran"
  /\ \E n \in 0..2, parsed \in BOOLEAN : \E apis \in [1..n -> CalledApis] :
       LET calls == [i \in 1..n |-> [case |-> testcase, api |-> apis[i]]]
           trace == EnableVTSProfiling(calls)
       IN /\ device_trace' = trace
          /\ \/ /\ DisableVTSProfiling /\ MayFail(IF parsed THEN 0 ELSE 1)
                /\ ProcessTraceDataForTestCase(trace, parsed)
                /\ profiled' = IF parsed THEN profiled \o calls ELSE profiled
             \/ instrumented' = TRUE /\ MayFail(0) /\ UNCHANGED <<profiling_data, api_coverage_data, profiled>>
  /\ UNCHANGED <<cpuVars, linkVars, latencies, testcase>>

(* SystraceController.Stop: the process writes its output and ends.        *)
Stop(wrote) == [process |-> 0, output |-> IF wrote THEN systrace.process ELSE 0]

has_output(output) == output # 0

(* SaveLastOutput copies the output, unless there is none; AddSystraceUrl  *)
(* adds the URL to the current test's report.                              *)
SaveLastOutput(url, copied) == saved' = IF copied THEN saved \cup url ELSE saved
AddSystraceUrl(url) == [report EXCEPT !.systrace = @ \cup url]
(* SetTestResult: a silent result removes the current test's report.       *)
SetTestResult(rep, silent) ==
  IF silent THEN [rep EXCEPT !.current = 0, !.systrace = {u \in @ : u.test # rep.current}] ELSE rep

(* _tearDown: ProcessAndUploadSystrace stops the process, saves its output *)
(* and adds the URL, also when the output could not be saved.              *)
TearDown ==
  /\ clsphase = "ran" /\ clsphase' = "torn"
  /\ \E wrote, copied, silent \in BOOLEAN :
       LET output == Stop(wrote).output
           url == IF has_output(output) THEN {[test |-> report.current, traced |-> output]} ELSE {}
       IN /\ MayFail((IF wrote THEN 0 ELSE 1) + (IF copied THEN 0 ELSE 1))
          /\ systrace' = [Stop(wrote) EXCEPT !.output = 0]
          /\ SaveLastOutput(url, copied)
          /\ report' = SetTestResult(AddSystraceUrl(url), silent)
  /\ UNCHANGED <<cpuVars, profilingVars, date, testcase>>

(* ProcessAndUploadTraceData merges what the test cases left; the points   *)
(* have different names, so that AddProfilingDataVector takes all.         *)
AddProfilingDataVector(calls) == latencies' = calls
ProcessAndUploadTraceData == AddProfilingDataVector(FlattenSeq(profiling_data))

(* tearDownClass: scaling is enabled again unless all tests are skipped.   *)
TearDownClass ==
  /\ clsphase \in {"ready", "torn"} /\ clsphase' = "down"
  /\ \E bad \in SUBSET Cpus :
       /\ MayFail(Cardinality(bad))
       /\ IF ~skip_all /\ params.disable THEN EnableCpuScaling(bad) ELSE UNCHANGED <<gov, cpufreq>>
  /\ DisableVTSProfiling
  /\ IF skip_all THEN UNCHANGED latencies ELSE ProcessAndUploadTraceData
  /\ UNCHANGED <<params, skip_all, device_trace, profiling_data, api_coverage_data, profiled, linkVars, testcase>>

(* skipAllTests may be called while the test cases run. *)
SkipAllTests ==
  /\ clsphase \in {"ready", "torn"} /\ ~skip_all /\ skip_all' = TRUE
  /\ UNCHANGED <<params, gov, cpufreq, profilingVars, linkVars, clsphase, testcase, failed>>

(* _ConvertReportPath: the source's directories are flattened, and the     *)
(* day's directory is used.                                                *)
_ConvertReportPath(file) == [day |-> date, name |-> file.name]
(* SaveReportsFromDirectory: the URLs of all files, and the files that are *)
(* pushed.                                                                 *)
SaveReportsFromDirectory(files) == {_ConvertReportPath(file) : file \in files}
AddLogUrls(urls) == report' = [report EXCEPT !.logs = @ \cup urls]
(* UploadLogs(dryrun=True): the URLs go into the report, which is sent.    *)
UploadLogsDryRun ==
  /\ clsphase = "down" /\ clsphase' = "reported"
  /\ AddLogUrls(SaveReportsFromDirectory(LogFiles))
  /\ UNCHANGED <<cpuVars, profilingVars, systrace, saved, date, testcase, failed>>

(* UploadLogs(): the files are pushed now; a file that cannot be pushed is *)
(* passed over (GCS) or ends the upload (an IOError otherwise).            *)
UploadLogs ==
  /\ clsphase = "reported" /\ clsphase' = "uploaded"
  /\ \E pushed \in SUBSET LogFiles :
       /\ MayFail(IF pushed = LogFiles THEN 0 ELSE 1)
       /\ saved' = saved \cup SaveReportsFromDirectory(pushed)
  /\ UNCHANGED <<cpuVars, profilingVars, systrace, report, date, testcase>>

Midnight ==
  /\ clsphase = "reported" /\ date = 0 /\ date' = 1
  /\ UNCHANGED <<cpuVars, profilingVars, systrace, report, saved, clsphase, testcase, failed>>

FeaturesNext ==
  \/ SetUpClass \/ StartSystrace \/ SkipIfThermalThrottling \/ RunTestCase \/ TearDown \/ SkipAllTests \/ TearDownClass
  \/ UploadLogsDryRun \/ UploadLogs \/ Midnight

FeaturesSpec == FeaturesInit /\ [][FeaturesNext]_featureVars
-----------------------------------------------------------------------------
Torn == clsphase \in {"down", "reported", "uploaded"}

(* After tearDownClass every CPU has the governor it had before the class, *)
(* and the HALs are not instrumented (EnableCpuScaling and                 *)
(* DisableVTSProfiling undo the setup), if no command failed.  A class     *)
(* that skips all its tests leaves the governors changed: see the README.  *)
SettingsRestored ==
  Torn => /\ failed = 0 /\ ~skip_all => \A c \in Cpus : gov[c] = IF c = 0 THEN "schedutil" ELSE "interactive"
          /\ ~instrumented

(* The latencies that are uploaded are those of the calls of the test      *)
(* cases that passed, each once: not of earlier runs and not of test cases *)
(* that failed (ProcessAndUploadTraceData); and of the interface's own     *)
(* APIs exactly those that they call are reported as covered.              *)
CallsProfiledOnce ==
  Torn /\ ~skip_all =>
    /\ latencies = profiled
    /\ api_coverage_data.covered \cap OwnApis = {profiled[i].api : i \in DOMAIN profiled} \cap OwnApis

(* A link in the report leads to what it names: a systrace link to the     *)
(* trace of its own test case, a log link to the log, if no command failed *)
(* and the day did not change in between.                                  *)
LinksLead ==
  /\ \A url \in report.systrace : url.traced = url.test /\ (failed = 0 => url \in saved)
  /\ clsphase = "uploaded" /\ failed = 0 /\ date = 0 => report.logs \subseteq saved
  /\ clsphase \in {"torn", "down", "reported", "uploaded"} => systrace.process = 0

(* What a class's features change is put back, and what they report is     *)
(* what was measured.                                                      *)
FeaturesAreKept == SettingsRestored /\ CallsProfiledOnce /\ LinksLead
=============================================================================
