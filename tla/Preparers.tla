------------------------------ MODULE Preparers ------------------------------
(***************************************************************************)
(* The target preparers of the Tradefed harness on one device: Tradefed    *)
(* calls setUp of each preparer of a plan in turn, runs the test and calls *)
(* tearDown in the reverse order, also after a setUp that failed.  One     *)
(* action is one private method of VtsDevicePreparer or one stretch of     *)
(* another preparer between two commands that change the device.  A        *)
(* command that needs root is refused, silently, when adbd has none; the   *)
(* device may be lost before any command and may be back for the next.     *)
(***************************************************************************)
EXTENDS Naturals, Sequences

CONSTANTS
  Plan,       \* the preparers in the order of their setUp
  Options,    \* the values of VtsDevicePreparer's and the plan's options
  Devices,    \* the devices before the first setUp
  MaxPhones,  \* what `telecom get-max-phones' answers
  MaxMoves    \* bound: what the test does to the device

ASSUME PlanAssumption ==
  /\ Plan \in Seq({"device", "coverage", "trace", "adapter", "sim"})
  /\ Len(Plan) > 0 /\ Plan[1] = "device"
  /\ \A i, j \in 1..Len(Plan) : Plan[i] = Plan[j] => i = j
ASSUME BoundsAssumption == MaxPhones \in 1..3 /\ MaxMoves \in Nat
ASSUME OptionsAssumption ==
  Options \subseteq [root : {"none", "enable", "disable"}, framework : {"none", "start", "stop"},
                     radio : BOOLEAN, restore : SUBSET {"root", "framework", "radio"},
                     bootRoot : BOOLEAN, local : BOOLEAN]
ASSUME DevicesAssumption ==
  Devices \subseteq [root : BOOLEAN, framework : BOOLEAN, radio : [{"new", "old"} -> {"null", "0", "1"}],
                     selinux : {"Enforcing", "Permissive", "Disabled"}, files : {{}},
                     adapted : {FALSE}, sims : Nat \ {0}]

VARIABLES
  options,  \* [root, framework, radio, restore, bootRoot, local]
  device,   \* [root, framework, radio, selinux, files, adapted, sims]
  host,     \* directories of coverage resources: subset of {"temp", "local"}
  saved,    \* the preparers' fields
  at,       \* where Tradefed is: [phase, pos, step, e, moves]
  history   \* history variable: [initial, lost, refused, rebooted, unrestored, unread]

vars == <<options, device, host, saved, at, history>>

Init ==
  /\ options \in Options
  /\ device \in Devices
  /\ host = IF options.local THEN {"local"} ELSE {}
  /\ saved = [framework |-> TRUE, root |-> FALSE, radioLog |-> "UNKNOWN", property |-> "new",
              rebootSetup |-> FALSE, rebootTearDown |-> FALSE, coverage |-> "null",
              infoPath |-> "null", trace |-> "null", commands |-> FALSE, sims |-> 0]
  /\ at = [phase |-> "setUp", pos |-> 1, step |-> 1, e |-> "none", moves |-> 0]
  /\ history = [initial |-> device, lost |-> FALSE, refused |-> FALSE, rebooted |-> FALSE,
                unrestored |-> FALSE, unread |-> FALSE]
-----------------------------------------------------------------------------
(* Tradefed's loop over the preparers. *)
At(phase, p, step) ==
  at.phase = phase /\ Plan[at.pos] = p /\ at.step = step

NextStep == [at EXCEPT !.step = @ + 1]

(* The current preparer's method returned, or raised in a tearDown. *)
Return ==
  CASE at.phase = "setUp" /\ at.pos < Len(Plan) -> [at EXCEPT !.pos = @ + 1, !.step = 1]
    [] at.phase = "setUp" /\ at.pos = Len(Plan) -> [at EXCEPT !.phase = "test", !.step = 1]
    [] at.phase = "tearDown" /\ at.pos > 1      -> [at EXCEPT !.pos = @ - 1, !.step = 1]
    [] OTHER                                    -> [at EXCEPT !.phase = "done", !.step = 1]

(* After a failed setUp the preparers are torn down from the failing one,  *)
(* or from the last one: the code is written for either.                   *)
Abort(e) ==
  at' \in {[at EXCEPT !.phase = "tearDown", !.pos = p, !.step = 1, !.e = e] :
             p \in {at.pos, Len(Plan)}}

(* DeviceNotAvailableException out of whatever runs next. *)
DeviceLost ==
  /\ at.phase # "done"
  /\ IF at.phase = "setUp" THEN Abort("device")
     ELSE IF at.phase = "test"
     THEN at' = [at EXCEPT !.phase = "tearDown", !.moves = 0, !.e = "device"]
     ELSE at' = Return
  /\ history' = [history EXCEPT !.lost = TRUE]
  /\ UNCHANGED <<options, device, host, saved>>

(* The device: commands for root, and a boot, which leaves what persists.  *)
AsRoot(d) == IF device.root THEN d ELSE device
Refused(b) == [history EXCEPT !.refused = @ \/ (b /\ ~device.root)]

Booted(d) ==
  [d EXCEPT !.root = options.bootRoot, !.framework = TRUE, !.adapted = FALSE,
            !.selinux = IF @ = "Disabled" THEN @ ELSE "Enforcing"]

(* The test may start and stop the framework, change adb's root and the    *)
(* radio log as root, and reboot.                                          *)
TestMoves ==
  /\ at.phase = "test" /\ at.moves < MaxMoves
  /\ \/ /\ device' = [device EXCEPT !.root = ~@]
        /\ UNCHANGED history
     \/ /\ device.root /\ device' = [device EXCEPT !.framework = ~@]
        /\ UNCHANGED history
     \/ /\ device.root /\ device.radio["new"] # "null"
        /\ \E v \in {"0", "1"} : device' = [device EXCEPT !.radio["new"] = v]
        /\ UNCHANGED history
     \/ /\ device' = Booted(device)
        /\ history' = [history EXCEPT !.rebooted = TRUE]
  /\ at' = [at EXCEPT !.moves = @ + 1]
  /\ UNCHANGED <<options, host, saved>>

TestEnds ==
  /\ at.phase = "test"
  /\ at' = [at EXCEPT !.phase = "tearDown", !.moves = 0]
  /\ UNCHANGED <<options, device, host, saved, history>>
-----------------------------------------------------------------------------
(* VtsDevicePreparer.setUp *)
Restores(feature) == feature \in options.restore

adbRootPreRebootSetUp ==
  /\ At("setUp", "device", 1)
  /\ saved' = IF Restores("root") THEN [saved EXCEPT !.root = device.root] ELSE saved
  /\ device' = [device EXCEPT !.root = CASE options.root = "enable"  -> TRUE
                                         [] options.root = "disable" -> FALSE
                                         [] OTHER                    -> @]
  /\ at' = NextStep
  /\ UNCHANGED <<options, host, history>>

(* The property read, which falls back to the old name for good. *)
radioProperty ==
  IF device.radio[saved.property] = "null" THEN "old" ELSE saved.property

radioLogGetState ==
  CASE device.radio[radioProperty] = "1" -> "ENABLED"
    [] device.radio[radioProperty] = "0" -> "DISABLED"
    [] OTHER                             -> "NOT_AVAILABLE"

setRadioLog(v) == AsRoot([device EXCEPT !.radio["new"] = v])

radioLogPreRebootSetup ==
  /\ At("setUp", "device", 2)
  /\ LET looks  == options.radio \/ Restores("radio")
         state  == IF looks THEN radioLogGetState ELSE saved.radioLog
         enable == options.radio /\ state = "DISABLED"
     IN  /\ saved' = [saved EXCEPT !.radioLog = state,
                                   !.property = IF looks THEN radioProperty ELSE @,
                                   !.rebootSetup = @ \/ enable]
         /\ device' = IF enable THEN setRadioLog("1") ELSE device
         /\ history' = Refused(enable)
  /\ at' = NextStep
  /\ UNCHANGED <<options, host>>

(* The state of the framework saved after the reboot, not before. *)
frameworkSavedLate ==
  /\ At("setUp", "device", 3)
  /\ saved' = IF Restores("framework")
              THEN [saved EXCEPT !.framework = saved.rebootSetup \/ device.framework]
              ELSE saved
  /\ at' = NextStep
  /\ UNCHANGED <<options, device, host, history>>

frameworkPreRebootSetUp ==
  /\ At("setUp", "device", 3)
  /\ saved' = IF Restores("framework")
              THEN [saved EXCEPT !.framework = device.framework] ELSE saved
  /\ at' = NextStep
  /\ UNCHANGED <<options, device, host, history>>

Reboot(wanted) ==
  /\ device' = IF wanted THEN Booted(device) ELSE device
  /\ history' = [history EXCEPT !.rebooted = @ \/ wanted]
  /\ at' = NextStep
  /\ UNCHANGED <<options, host, saved>>

rebootSetup == At("setUp", "device", 4) /\ Reboot(saved.rebootSetup)

(* startFramework waits for the framework: one that does not start is a    *)
(* DeviceNotAvailableException.                                            *)
SetFramework(on) ==
  LET d == AsRoot([device EXCEPT !.framework = on])
      raises == on /\ ~d.framework
  IN  /\ device' = d
      /\ history' = [Refused(TRUE) EXCEPT !.lost = @ \/ raises]
      /\ IF raises /\ at.phase = "setUp" THEN Abort("device") ELSE at' = Return

frameworkPostRebootSetUp ==
  /\ At("setUp", "device", 5)
  /\ IF options.framework = "none"
     THEN at' = Return /\ UNCHANGED <<device, history>>
     ELSE SetFramework(options.framework = "start")
  /\ UNCHANGED <<options, host, saved>>
-----------------------------------------------------------------------------
(* VtsDevicePreparer.tearDown, which does nothing after the device was     *)
(* lost.                                                                   *)
skipTearDown ==
  /\ At("tearDown", "device", 1) /\ at.e = "device"
  /\ at' = Return
  /\ UNCHANGED <<options, device, host, saved, history>>

radioLogPreTearDown ==
  /\ At("tearDown", "device", 1) /\ at.e # "device"
  /\ LET looks   == Restores("radio") /\ saved.radioLog # "NOT_AVAILABLE"
         current == radioLogGetState
         off     == looks /\ saved.radioLog = "DISABLED" /\ current = "ENABLED"
         on      == looks /\ saved.radioLog = "ENABLED" /\ current = "DISABLED"
     IN  /\ device' = IF off THEN setRadioLog("0") ELSE IF on THEN setRadioLog("1") ELSE device
         /\ saved' = [saved EXCEPT !.property = IF looks THEN radioProperty ELSE @,
                                   !.rebootTearDown = @ \/ off \/ on]
         /\ history' = Refused(off \/ on)
  /\ at' = NextStep
  /\ UNCHANGED <<options, host>>

rebootTearDown == At("tearDown", "device", 2) /\ Reboot(saved.rebootTearDown)

adbRootPostTearDown ==
  /\ At("tearDown", "device", 3)
  /\ device' = IF Restores("root") THEN [device EXCEPT !.root = saved.root] ELSE device
  /\ at' = NextStep
  /\ UNCHANGED <<options, host, saved, history>>

frameworkPostTearDown ==
  /\ At("tearDown", "device", 4)
  /\ IF Restores("framework") /\ device.framework # saved.framework
     THEN SetFramework(saved.framework)
     ELSE at' = Return /\ UNCHANGED <<device, history>>
  /\ UNCHANGED <<options, host, saved>>
-----------------------------------------------------------------------------
(* SELinux, as the coverage and the trace preparer handle it. *)
setPermissive(d) ==
  IF device.selinux = "Enforcing" THEN AsRoot([d EXCEPT !.selinux = "Permissive"]) ELSE d

(* Restored only when it was enforcing, and so not after a reboot. *)
setenforceLazily(mode) ==
  IF mode = "Enforcing" THEN AsRoot([device EXCEPT !.selinux = mode]) ELSE device

setenforce(mode) ==
  IF mode \in {"Enforcing", "Permissive"}
  THEN AsRoot([device EXCEPT !.selinux = mode]) ELSE device

setsMode(mode) == mode \in {"Enforcing", "Permissive"} /\ mode # device.selinux

(* VtsCoveragePreparer: coverage is off, the artifacts cannot be had, or   *)
(* the resources are in a temporary or the local directory.                *)
coverageOff ==
  /\ At("setUp", "coverage", 1)
  /\ at' = Return
  /\ UNCHANGED <<options, device, host, saved, history>>

cleanupCoverageData(d, path) ==
  /\ device' = [d EXCEPT !.files = @ \ {"vts_coverage_configure"}]
  /\ host' = host \ {path}

(* A failure before there is a directory, or while it is filled. *)
coverageFails ==
  /\ At("setUp", "coverage", 1)
  /\ \/ ~options.local /\ UNCHANGED <<device, host, saved>>
     \/ LET path == IF options.local THEN "local" ELSE "temp"
        IN  /\ saved' = [saved EXCEPT !.infoPath = path]
            /\ cleanupCoverageData(device, path)
  /\ Abort("setup")
  /\ UNCHANGED <<options, history>>

coverageFetches ==
  /\ At("setUp", "coverage", 1)
  /\ IF options.local
     THEN saved' = [saved EXCEPT !.infoPath = "local"] /\ UNCHANGED host
     ELSE saved' = [saved EXCEPT !.infoPath = "temp"] /\ host' = host \cup {"temp"}
  /\ at' = NextStep
  /\ UNCHANGED <<options, device, history>>

coveragePushes ==
  /\ At("setUp", "coverage", 2)
  /\ device' = [device EXCEPT !.files = @ \cup {"vts_coverage_configure"}]
  /\ at' = NextStep
  /\ UNCHANGED <<options, host, saved, history>>

(* No configure tool to push, or no result directory. *)
coveragePushFails ==
  /\ At("setUp", "coverage", 2) \/ At("setUp", "coverage", 3)
  /\ cleanupCoverageData(device, saved.infoPath)
  /\ Abort("setup")
  /\ UNCHANGED <<options, saved, history>>

coverageSetsPermissive ==
  /\ At("setUp", "coverage", 3)
  /\ saved' = [saved EXCEPT !.coverage = device.selinux]
  /\ device' = setPermissive(device)
  /\ history' = Refused(device.selinux = "Enforcing")
  /\ at' = Return
  /\ UNCHANGED <<options, host>>

coverageTearDown ==
  /\ At("tearDown", "coverage", 1)
  /\ cleanupCoverageData(setenforce(saved.coverage), saved.infoPath)
  /\ history' = Refused(setsMode(saved.coverage))
  /\ at' = Return
  /\ UNCHANGED <<options, saved>>
-----------------------------------------------------------------------------
(* VtsTraceCollectPreparer *)
TraceFiles == {"profiler", "libvts_", "vts_profiling_configure"}
(* The libraries' directories belong to root, who made them. *)
removeProfilerLib(d) == IF d.root THEN [d EXCEPT !.files = @ \ TraceFiles] ELSE d

tracePushes ==
  /\ At("setUp", "trace", 1)
  /\ \E pushed \in {{}, {"profiler", "libvts_"}} :
       device' = [device EXCEPT !.root = TRUE,
                                !.files = @ \cup pushed \cup {"vts_profiling_configure"}]
  /\ at' = NextStep
  /\ UNCHANGED <<options, host, saved, history>>

(* The tests directory is missing, or the result directory is. *)
tracePushFails ==
  /\ At("setUp", "trace", 1) \/ At("setUp", "trace", 2)
  /\ device' = removeProfilerLib([device EXCEPT !.root = TRUE])
  /\ Abort("setup")
  /\ UNCHANGED <<options, host, saved, history>>

traceSetsPermissive ==
  /\ At("setUp", "trace", 2)
  /\ saved' = [saved EXCEPT !.trace = device.selinux]
  /\ device' = setPermissive(device)
  /\ history' = Refused(device.selinux = "Enforcing")
  /\ at' = Return
  /\ UNCHANGED <<options, host>>

traceTearDown ==
  /\ At("tearDown", "trace", 1)
  /\ device' = removeProfilerLib(setenforce(saved.trace))
  /\ history' = Refused(setsMode(saved.trace) \/ device.files \cap TraceFiles # {})
  /\ at' = Return
  /\ UNCHANGED <<options, host, saved>>
-----------------------------------------------------------------------------
(* VtsHalAdapterPreparer.  CmdUtil.retry and waitCmdResultWithDelay are    *)
(* their two outcomes, the last attempt's look at the device included.     *)
adapterPushes ==
  /\ At("setUp", "adapter", 1)
  /\ device' = [device EXCEPT !.root = TRUE]
  /\ \/ at' = NextStep
     \/ Abort("setup")
  /\ UNCHANGED <<options, host, saved, history>>

(* The commands are remembered before the first adapter is started; a      *)
(* malformed line of lshal comes after none or some of them.               *)
adapterLists ==
  /\ At("setUp", "adapter", 2)
  /\ \/ at' = Return /\ UNCHANGED saved
     \/ saved' = [saved EXCEPT !.commands = TRUE] /\ at' = NextStep
     \/ \E b \in BOOLEAN : saved' = [saved EXCEPT !.commands = b] /\ Abort("setup")
  /\ UNCHANGED <<options, device, host, history>>

(* All instances are behind adapters, or at most some when retry gives up. *)
adapterStarts ==
  /\ At("setUp", "adapter", 3)
  /\ \/ device' = [device EXCEPT !.adapted = TRUE] /\ at' = NextStep
     \/ (\E b \in BOOLEAN : device' = [device EXCEPT !.adapted = b]) /\ Abort("setup")
  /\ UNCHANGED <<options, host, saved, history>>

restartFramework == device' = AsRoot([device EXCEPT !.framework = TRUE])

adapterRestarts ==
  /\ At("setUp", "adapter", 4)
  /\ restartFramework
  /\ \/ at' = Return
     \/ Abort("setup")
  /\ history' = Refused(TRUE)
  /\ UNCHANGED <<options, host, saved>>

adapterStops ==
  /\ At("tearDown", "adapter", 1)
  /\ IF ~saved.commands
     THEN at' = Return /\ UNCHANGED <<device, history>>
     ELSE /\ at' = NextStep
          /\ \/ device' = AsRoot([device EXCEPT !.adapted = FALSE]) /\ history' = Refused(TRUE)
             \/ device' = device /\ history' = [Refused(TRUE) EXCEPT !.unrestored = TRUE]
  /\ UNCHANGED <<options, host, saved>>

adapterRestores ==
  /\ At("tearDown", "adapter", 2)
  /\ restartFramework
  /\ history' = Refused(TRUE)
  /\ at' = Return
  /\ UNCHANGED <<options, host, saved>>
-----------------------------------------------------------------------------
(* VtsMultiSimPreparer.  telecom talks to the framework; without it every  *)
(* count is read as 1 and set-sim-count changes nothing.                   *)
getNumSims == IF device.framework THEN device.sims ELSE 1
getMaxPhones == IF device.framework THEN MaxPhones ELSE 1

setSimCount(wanted, sims) ==
  /\ device' = IF wanted /\ device.framework THEN Booted([device EXCEPT !.sims = sims])
               ELSE device
  /\ history' = [history EXCEPT !.rebooted = @ \/ (wanted /\ device.framework),
                                !.unread = @ \/ ~device.framework]

simSetUp ==
  /\ At("setUp", "sim", 1)
  /\ saved' = [saved EXCEPT !.sims = getNumSims]
  /\ setSimCount(getNumSims # getMaxPhones, getMaxPhones)
  /\ at' = Return
  /\ UNCHANGED <<options, host>>

(* Without a setUp mDevice is null, and the tearDown raises at once. *)
simTearDown ==
  /\ At("tearDown", "sim", 1)
  /\ setSimCount(saved.sims # 0 /\ saved.sims # getNumSims, saved.sims)
  /\ at' = Return
  /\ UNCHANGED <<options, host, saved>>
-----------------------------------------------------------------------------
DeviceStep ==
  \/ adbRootPreRebootSetUp \/ radioLogPreRebootSetup \/ frameworkPreRebootSetUp
  \/ rebootSetup \/ frameworkPostRebootSetUp
  \/ skipTearDown \/ radioLogPreTearDown \/ rebootTearDown
  \/ adbRootPostTearDown \/ frameworkPostTearDown
CoverageStep ==
  \/ coverageOff \/ coverageFails \/ coverageFetches \/ coveragePushes
  \/ coveragePushFails \/ coverageSetsPermissive \/ coverageTearDown
TraceStep == tracePushes \/ tracePushFails \/ traceSetsPermissive \/ traceTearDown
AdapterStep ==
  \/ adapterPushes \/ adapterLists \/ adapterStarts \/ adapterRestarts
  \/ adapterStops \/ adapterRestores
SimStep == simSetUp \/ simTearDown

Next ==
  \/ DeviceStep \/ CoverageStep \/ TraceStep \/ AdapterStep \/ SimStep
  \/ DeviceLost \/ TestMoves \/ TestEnds
  \/ (at.phase = "done" /\ UNCHANGED vars)

Spec == Init /\ [][Next]_vars
-----------------------------------------------------------------------------
Done == at.phase = "done"

(* Every command reached the device and had the rights it needed. *)
Undisturbed == ~history.lost /\ ~history.refused

(* VtsDevicePreparer's restore options and VtsMultiSimPreparer's tearDown  *)
(* hold across the reboots, the test and the other preparers: when the run *)
(* is over, adb's root, the framework, the radio log and the number of     *)
(* SIMs, where the framework was there to be asked for it, are as they     *)
(* were before the first setUp.                                            *)
(* The radio log only for a device that has the new property: setProperty  *)
(* is always called with that name, whichever one was read.                *)
FeaturesRestored ==
  Done /\ Undisturbed =>
    /\ Restores("root") => device.root = history.initial.root
    /\ Restores("framework") => device.framework = history.initial.framework
    /\ Restores("radio") /\ history.initial.radio["new"] # "null" =>
         device.radio = history.initial.radio
    /\ ~history.unread => device.sims = history.initial.sims

(* The modes that the coverage and the trace preparer save are nested, and *)
(* what the outer one puts back is the mode before both, whatever the test *)
(* or the SIM preparer rebooted in between and whichever setUp failed, in  *)
(* a plan that sets the SIM preparer up after them.                        *)
(* Only VtsDevicePreparer's own reboots come outside of them.              *)
ModeRestored ==
  Done /\ Undisturbed /\ ~saved.rebootSetup /\ ~saved.rebootTearDown =>
    \/ device.selinux = history.initial.selinux
    \/ history.rebooted /\ saved.coverage = "null" /\ saved.trace = "null"

(* What the coverage and the trace preparer push, and the directory of     *)
(* fetched artifacts, are gone at the end, also when a later step of the   *)
(* same setUp, or another preparer's setUp, failed.                        *)
NothingLeftBehind ==
  Done /\ Undisturbed => device.files = {} /\ "temp" \notin host

(* A HAL that was put behind an adapter is itself again at the end, also   *)
(* when the adapters were only partly started or the framework did not     *)
(* come back after them, unless the tearDown says "HAL restore failed."    *)
HalRestored ==
  Done /\ Undisturbed /\ ~history.unrestored => ~device.adapted

(* What the coverage, trace and adapter preparers changed is undone. *)
PlanIsUndone == ModeRestored /\ NothingLeftBehind /\ HalRestored
=============================================================================
