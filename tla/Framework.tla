------------------------------ MODULE Framework ------------------------------
(***************************************************************************)
(* The Android framework and the native servers of a device while test     *)
(* classes are set up, one after the other: preconditions (utils/python/   *)
(* precondition/precondition_utils.py) and AndroidDevice.start, stop and   *)
(* the functions that wait for them (utils/python/controllers/             *)
(* android_device.py).  The device boots and dies at its own pace between  *)
(* the host's polls.                                                       *)
(***************************************************************************)
EXTENDS Integers

CONSTANTS
  FirstApiLevel,  \* ro.product.first_api_level; -1 if it is no number
  SdkVersion,     \* ro.build.version.sdk, the same
  HasFeature,     \* whether the device has the feature that a class asks for
  MaxClasses,     \* bound: test classes
  MaxCrashes      \* bound: crashes of system_server

VARIABLES
  server,         \* system_server: "down", "booting" or "up"
  boot_completed, \* sys.boot_completed
  nativeRunning, nativeStop,  \* native servers; vts.native_server.on = "1"
  setupStep,      \* where _setUpClass is
  conf,           \* the class: [level, feature, disable, stopNative, names]
  returnTo,       \* where start() returns to
  skipped,        \* isSkipAllTests
  timedOut, crashed,  \* history: a wait of this class timed out; the server crashed and boots
  classesDone, serverCrashes

frameworkVars == <<server, boot_completed, nativeRunning, nativeStop, setupStep, conf, returnTo, skipped,
                   timedOut, crashed, classesDone, serverCrashes>>
deviceState == <<server, boot_completed, nativeRunning, nativeStop>>
hostState == <<setupStep, conf, returnTo, skipped, timedOut, crashed, classesDone, serverCrashes>>

NoConf == [level |-> 0, feature |-> FALSE, disable |-> FALSE, stopNative |-> FALSE, names |-> FALSE]
FrameworkInit ==
  /\ server = "up" /\ boot_completed = 1 /\ nativeRunning = TRUE /\ nativeStop = FALSE
  /\ setupStep = "idle" /\ conf = NoConf /\ returnTo = "idle" /\ skipped = FALSE
  /\ timedOut = FALSE /\ crashed = FALSE /\ classesDone = 0 /\ serverCrashes = 0
-----------------------------------------------------------------------------
(* The device: zygote starts system_server again after a crash, and        *)
(* boot_completed keeps its value; init follows the property of the native *)
(* servers.                                                                *)
BootCompletes ==
  /\ server = "booting" /\ server' = "up" /\ boot_completed' = 1
  /\ UNCHANGED <<nativeRunning, nativeStop>> /\ UNCHANGED hostState
ServerCrashes ==
  /\ server = "up" /\ serverCrashes < MaxCrashes
  /\ server' = "booting" /\ serverCrashes' = serverCrashes + 1 /\ crashed' = TRUE
  /\ UNCHANGED <<boot_completed, nativeRunning, nativeStop, setupStep, conf, returnTo, skipped, timedOut, classesDone>>
NativeFollows ==
  /\ nativeRunning = nativeStop /\ nativeRunning' = ~nativeStop
  /\ UNCHANGED <<server, boot_completed, nativeStop>> /\ UNCHANGED hostState
-----------------------------------------------------------------------------
(* getLaunchApiLevel(strict=False): 0 if it cannot be read.                *)
LaunchApiLevel ==
  IF FirstApiLevel = -1 THEN 0 ELSE IF FirstApiLevel # 0 THEN FirstApiLevel
  ELSE IF SdkVersion = -1 THEN 0 ELSE SdkVersion
(* MeetFirstApiLevelPrecondition: what cannot be read is met.              *)
MeetFirstApiLevelPrecondition(level) == LaunchApiLevel = 0 \/ LaunchApiLevel >= level

isBootCompleted == boot_completed = 1
(* "system_server" in the output of ps. *)
isFrameworkRunning(check_boot_completion) == (check_boot_completion => isBootCompleted) /\ server # "down"

Go(step) == setupStep' = step
Stays == UNCHANGED <<conf, returnTo, classesDone, serverCrashes, crashed>>

_setUpClass ==
  /\ setupStep = "idle" /\ classesDone < MaxClasses
  /\ conf' \in [level : {0, 28}, feature : BOOLEAN, disable : BOOLEAN, stopNative : BOOLEAN, names : BOOLEAN]
  /\ skipped' = ~MeetFirstApiLevelPrecondition(conf'.level)
  /\ timedOut' = FALSE /\ crashed' = (server = "booting" /\ isBootCompleted) /\ Go(IF conf'.feature THEN "feature" ELSE "framework")
  /\ UNCHANGED <<returnTo, classesDone, serverCrashes>> /\ UNCHANGED deviceState

(* CheckFeaturePrecondition: the framework is started if it does not run.  *)
CheckFeaturePrecondition ==
  /\ setupStep = "feature"
  /\ IF isFrameworkRunning(TRUE) THEN Go("pm") /\ UNCHANGED returnTo ELSE Go("start") /\ returnTo' = "pm"
  /\ UNCHANGED <<conf, skipped, timedOut, crashed, classesDone, serverCrashes>> /\ UNCHANGED deviceState
ListFeatures ==
  /\ setupStep = "pm" /\ Go("framework")
  /\ skipped' = (skipped \/ server # "up" \/ ~HasFeature)
  /\ UNCHANGED timedOut /\ Stays /\ UNCHANGED deviceState

(* device.start() or device.stop(stop_native_server).                      *)
EnableOrDisable ==
  /\ setupStep = "framework"
  /\ IF conf.disable THEN Go("stop") /\ UNCHANGED returnTo ELSE Go("start") /\ returnTo' = "wait"
  /\ UNCHANGED <<conf, skipped, timedOut, crashed, classesDone, serverCrashes>> /\ UNCHANGED deviceState

(* start: startNativeServer, then startFramework; "start" does nothing to  *)
(* a framework that runs.                                                  *)
start ==
  /\ setupStep = "start" /\ Go("boot") /\ nativeStop' = FALSE
  /\ server' = IF server = "down" THEN "booting" ELSE server
  /\ UNCHANGED <<boot_completed, nativeRunning, skipped, timedOut>> /\ Stays
(* waitForFrameworkStartComplete: boot completion, then system_server;     *)
(* only the feature check looks at the result.                             *)
waitForBootCompletion ==
  /\ setupStep = "boot" /\ isBootCompleted /\ Go("server")
  /\ UNCHANGED <<skipped, timedOut>> /\ Stays /\ UNCHANGED deviceState
waitForFrameworkStartComplete ==
  /\ setupStep = "server" /\ isFrameworkRunning(FALSE) /\ Go(returnTo)
  /\ UNCHANGED <<skipped, timedOut>> /\ Stays /\ UNCHANGED deviceState
StartTimesOut ==
  /\ setupStep \in {"boot", "server"} /\ timedOut' = TRUE
  /\ IF returnTo = "pm" THEN skipped' = TRUE /\ Go("framework") ELSE UNCHANGED skipped /\ Go(returnTo)
  /\ Stays /\ UNCHANGED deviceState

(* The property keeps its value. *)
StopsOnly ==
  /\ setupStep = "reset" /\ Go("wait")
  /\ nativeStop' = (nativeStop \/ conf.stopNative)
  /\ UNCHANGED <<server, boot_completed, nativeRunning, skipped, timedOut>> /\ Stays
(* stop: stopFramework stops it and sets boot_completed to 0, which the    *)
(* device does not do; then stopNativeServer.                              *)
StopCommand ==
  /\ setupStep = "stop" /\ Go("reset") /\ server' = "down"
  /\ UNCHANGED <<boot_completed, nativeRunning, nativeStop, skipped, timedOut>> /\ Stays
stopFramework ==
  /\ setupStep = "reset" /\ Go("wait") /\ boot_completed' = 0
  /\ nativeStop' = (nativeStop \/ conf.stopNative)
  /\ UNCHANGED <<server, nativeRunning, skipped, timedOut>> /\ Stays

(* waitForProcessStop of the native servers that the class names; the      *)
(* result is not looked at.                                                *)
waitForProcessStop ==
  /\ setupStep = "wait" /\ Go("tests")
  /\ \/ (conf.names => ~nativeRunning) /\ UNCHANGED timedOut
     \/ conf.names /\ timedOut' = TRUE
  /\ UNCHANGED skipped /\ Stays /\ UNCHANGED deviceState

ClassEnds ==
  /\ setupStep = "tests" /\ Go("idle") /\ classesDone' = classesDone + 1
  /\ UNCHANGED <<conf, returnTo, skipped, timedOut, crashed, serverCrashes>> /\ UNCHANGED deviceState

FrameworkNext ==
  \/ BootCompletes \/ ServerCrashes \/ NativeFollows
  \/ _setUpClass \/ CheckFeaturePrecondition \/ ListFeatures \/ EnableOrDisable \/ start
  \/ waitForBootCompletion \/ waitForFrameworkStartComplete \/ StartTimesOut
  \/ StopCommand \/ stopFramework \/ waitForProcessStop \/ ClassEnds

FrameworkSpec == FrameworkInit /\ [][FrameworkNext]_frameworkVars
-----------------------------------------------------------------------------
(* Unless a wait timed out or system_server crashed, the tests of a class  *)
(* find the device as it was configured: the framework booted, or stopped, *)
(* native servers that were to stop and were waited for gone, and the      *)
(* class is skipped only if a precondition is not met.  (After a crash     *)
(* boot_completed is still 1 and start() returns while it boots.)          *)
SetUpAsConfigured ==
  setupStep = "tests" /\ ~timedOut /\ ~crashed =>
    /\ server = IF conf.disable THEN "down" ELSE "up"
    /\ conf.disable /\ conf.stopNative /\ conf.names => ~nativeRunning
    /\ skipped => ~MeetFirstApiLevelPrecondition(conf.level) \/ (conf.feature /\ ~HasFeature)
=============================================================================
