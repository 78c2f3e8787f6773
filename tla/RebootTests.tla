----------------------------- MODULE RebootTests -----------------------------
(***************************************************************************)
(* Test classes that take the device out of Android and have to bring it   *)
(* back: VtsFastbootVerification, RebootRootRemountTest and RebootTest     *)
(* (testcases/host/fastboot, testcases/host/reboot).  The device boots,    *)
(* hangs and disappears at its own pace between the host's commands.       *)
(***************************************************************************)
EXTENDS Naturals

CONSTANT MaxLosses   \* bound: how often the device disappears by itself

VARIABLES
  place,     \* where the device is: "android", "fastbootd", "bootloader", "rebooting"
  target,    \* where a reboot leads to
  completed, \* sys.boot_completed and dev.bootcomplete
  verity,    \* [set, active]: the setting, and what the running system was booted with
  testClass, \* the class that runs
  wasOn,     \* RebootRootRemountTest.verity: what setUpClass has read
  original,  \* history: the setting before the class
  step,      \* the class's next step
  reported,  \* verdict of the test
  answered,  \* history: a shell command was answered since the last reboot
  losses

rebootVars == <<place, target, completed, verity, testClass, wasOn, original, step, reported,
                answered, losses>>
hostVars == <<testClass, wasOn, original, step, reported>>

RebootsInit ==
  /\ testClass \in {"fastboot", "remount", "reboot"} /\ step = "setUpClass"
  /\ place \in {"android", "bootloader"} /\ target = "android" /\ completed = TRUE
  /\ verity \in {[set |-> v, active |-> v] : v \in BOOLEAN} /\ original = verity.set
  /\ wasOn = FALSE /\ reported = "none" /\ answered = FALSE /\ losses = 0
-----------------------------------------------------------------------------
(* The device arrives where it was sent, or never; Android completes its boot. *)
Arrives ==
  /\ place = "rebooting" /\ place' = target
  /\ verity' = [verity EXCEPT !.active = IF target = "android" THEN verity.set ELSE @]
  /\ UNCHANGED <<target, completed, answered, losses>> /\ UNCHANGED hostVars
Completes ==
  /\ place = "android" /\ ~completed /\ completed' = TRUE
  /\ UNCHANGED <<place, target, verity, answered, losses>> /\ UNCHANGED hostVars
Disappears ==
  /\ place # "rebooting" /\ losses < MaxLosses /\ losses' = losses + 1
  /\ place' = "rebooting" /\ target' = "android" /\ completed' = FALSE
  /\ answered' = FALSE /\ UNCHANGED verity /\ UNCHANGED hostVars

Goes(where) ==
  /\ place' = "rebooting" /\ target' = where /\ completed' = FALSE
  /\ answered' = FALSE /\ UNCHANGED <<verity, losses>>
DeviceStays == UNCHANGED <<place, target, completed, verity, losses>>
Answers == answered' = (answered \/ place = "android")

isBootloaderMode == place \in {"fastbootd", "bootloader"}
adbAnswers == place = "android"
(* verityEnabled: no answer counts as no property. *)
verityEnabled == adbAnswers /\ verity.active

Continue(next) == step' = next /\ UNCHANGED <<testClass, wasOn, original, reported>>
Ends(verdict) == step' = "tearDownClass" /\ reported' = verdict /\ UNCHANGED <<testClass, wasOn, original>>
Is(class, at) == testClass = class /\ step = at
-----------------------------------------------------------------------------
(* AndroidDevice.reboot: in the bootloader fastboot reboots and nothing is *)
(* waited for.  Otherwise adb reboots, the boot is waited for, whether it  *)
(* completes or not, and adb is made root: a device that does not answer   *)
(* then raises AdbError.                                                   *)
rebootDevice(class, at, rooting, next) ==
  /\ Is(class, at)
  /\ \/ isBootloaderMode /\ Goes("android") /\ Continue(next)
     \/ adbAnswers /\ Goes("android") /\ Continue(rooting)
     \/ ~isBootloaderMode /\ ~adbAnswers /\ DeviceStays /\ UNCHANGED answered /\ Ends("error")
rootAdb(class, at, next) ==
  /\ Is(class, at) /\ DeviceStays /\ Answers
  /\ IF adbAnswers THEN Continue(next) ELSE Ends("error")
(* waitForBootCompletion: ends when the boot is complete, or at a timeout  *)
(* whenever that is; nobody looks at what it returns.                      *)
waitForBoot(class, at, next) ==
  /\ Is(class, at) /\ DeviceStays /\ Answers /\ Continue(next)
-----------------------------------------------------------------------------
(* VtsFastbootVerification: setUpClass waits until fastboot answers.  A    *)
(* device launched before fastbootd is left alone and its tests skipped.   *)
FastbootSetUp ==
  \/ Is("fastboot", "setUpClass") /\ adbAnswers /\ DeviceStays /\ UNCHANGED answered /\ Ends("skip")
  \/ /\ Is("fastboot", "setUpClass")
     /\ IF adbAnswers THEN Goes("fastbootd") /\ Continue("getvar")
        ELSE DeviceStays /\ UNCHANGED answered /\ Ends("error")
  \/ Is("fastboot", "getvar") /\ isBootloaderMode /\ DeviceStays /\ UNCHANGED answered /\ Continue("tests")
(* The tests that only ask; the one that reboots to the bootloader and to  *)
(* fastbootd; each ends with any verdict, the last one wherever the device *)
(* then is.                                                                *)
FastbootTests ==
  /\ Is("fastboot", "tests")
  /\ \/ DeviceStays /\ UNCHANGED answered /\ \E verdict \in {"pass", "fail"} : Ends(verdict)
     \/ /\ isBootloaderMode /\ \E where \in {"bootloader", "fastbootd"} : Goes(where)
        /\ Continue("rebootTest")
RebootTestEnds ==
  /\ Is("fastboot", "rebootTest") /\ DeviceStays /\ UNCHANGED answered
  /\ IF isBootloaderMode THEN Continue("tests") ELSE Ends("fail")

(* The class ends and the device stays where it is. *)
LeavesFastboot ==
  Is("fastboot", "tearDownClass") /\ DeviceStays /\ UNCHANGED answered /\ Continue("over")
(* tearDownClass: only a device that fastboot lists is rebooted. *)
FastbootTearDown ==
  /\ Is("fastboot", "tearDownClass")
  /\ IF isBootloaderMode THEN Goes("android") ELSE DeviceStays /\ UNCHANGED answered
  /\ Continue(IF isBootloaderMode THEN "backWait" ELSE "over")
-----------------------------------------------------------------------------
(* RebootRootRemountTest *)
RemountSetUp ==
  /\ Is("remount", "setUpClass") /\ DeviceStays /\ UNCHANGED answered
  /\ wasOn' = verityEnabled /\ step' = "disable" /\ UNCHANGED <<testClass, original, reported>>
SetVerity(at, value, next) ==
  /\ Is("remount", at) /\ UNCHANGED <<place, target, completed, answered, losses>>
  /\ IF ~wasOn THEN UNCHANGED verity /\ Continue(next)
     ELSE IF ~adbAnswers THEN UNCHANGED verity /\ Ends("error")
     ELSE verity' = [verity EXCEPT !.set = value] /\ Continue(next)
(* adb root and remount.  Their failure is an AdbError, which the clause   *)
(* "except adb.AdbError()" - an instance - does not catch.                 *)
Remount ==
  /\ Is("remount", "remount") /\ Answers /\ DeviceStays
  /\ IF adbAnswers /\ ~verity.active THEN Continue("enable") ELSE Ends("error")
(* Without verity there is nothing to restore and no reboot. *)
EnableVerity ==
  \/ wasOn /\ SetVerity("enable", TRUE, "again")
  \/ ~wasOn /\ SetVerity("enable", FALSE, "compare")
Compare ==
  /\ Is("remount", "compare") /\ DeviceStays /\ Answers
  /\ Ends(IF wasOn = verityEnabled THEN "pass" ELSE "fail")
-----------------------------------------------------------------------------
RebootSetUp == Is("reboot", "setUpClass") /\ DeviceStays /\ UNCHANGED answered /\ Continue("test")
RebootTestPasses == Is("reboot", "passed") /\ DeviceStays /\ UNCHANGED answered /\ Ends("pass")
NothingToTearDown ==
  /\ testClass # "fastboot" /\ step = "tearDownClass" /\ DeviceStays /\ UNCHANGED answered /\ Continue("over")

RebootsNext ==
  \/ Arrives \/ Completes \/ Disappears
  \/ FastbootSetUp \/ FastbootTests \/ RebootTestEnds \/ FastbootTearDown
  \/ waitForBoot("fastboot", "backWait", "over")
  \/ RemountSetUp \/ SetVerity("disable", FALSE, "first")
  \/ rebootDevice("remount", "first", "firstRoot", "firstWait") \/ rootAdb("remount", "firstRoot", "firstWait")
  \/ waitForBoot("remount", "firstWait", "remount") \/ Remount \/ EnableVerity
  \/ rebootDevice("remount", "again", "againRoot", "againWait") \/ rootAdb("remount", "againRoot", "againWait")
  \/ waitForBoot("remount", "againWait", "compare") \/ Compare
  \/ RebootSetUp \/ rebootDevice("reboot", "test", "testRoot", "wait") \/ rootAdb("reboot", "testRoot", "wait")
  \/ waitForBoot("reboot", "wait", "passed") \/ RebootTestPasses \/ NothingToTearDown

RebootsSpec == RebootsInit /\ [][RebootsNext]_rebootVars
-----------------------------------------------------------------------------
(* A remount test that comes to its verdict has set verity back to what it *)
(* was, even if another reading said otherwise on the way; and after a     *)
(* fastboot class whose tests passed the device is in Android or on its    *)
(* way to it (RebootRootRemountTest.testRebootRootRemount, tearDownClass   *)
(* of VtsFastbootVerification.py).                                         *)
BroughtBack ==
  /\ testClass = "remount" /\ reported \in {"pass", "fail"} => verity.set = original
  /\ testClass = "fastboot" /\ step = "over" /\ reported = "pass" => target = "android"

(* "If waitForBootCompletion() returns, the device must have responded to  *)
(* an adb shell command" (RebootTest.py, testReboot): a test that passes   *)
(* has had an answer since the reboot.  The code ignores that the wait can *)
(* return False.                                                           *)
RebootWasAnswered == testClass = "reboot" /\ step = "tearDownClass" /\ reported = "pass" => answered
=============================================================================
