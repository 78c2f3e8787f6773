------------------------------ MODULE MCTests -------------------------------
(* What runs against a device and should leave it as it was: the preparers *)
(* of a plan, and the test classes and the commands that they run.  A      *)
(* behaviour is one of a single part, which the first state chooses, so    *)
(* that the states of the parts add up instead of multiplying.             *)
EXTENDS Preparers, MCBinaryTests, HostCommands, RebootTests, FirmwareTests, TargetFiles

(* All five preparers in the order in which the plans nest them. *)
MCPlan == <<"device", "coverage", "trace", "adapter", "sim">>

(* restore-all with what the preparer may turn off, and the options of the *)
(* base plan, with and without a root after boot and local artifacts.      *)
MCOptions ==
  [root : {"none", "disable"}, framework : {"none", "stop"}, radio : BOOLEAN,
   restore : {{"root", "framework", "radio"}}, bootRoot : {TRUE}, local : {FALSE}]
  \cup
  [root : {"enable"}, framework : {"start"}, radio : {FALSE},
   restore : {{"framework"}}, bootRoot : BOOLEAN, local : BOOLEAN]

Radio(n, o) == [new |-> n, old |-> o]

(* A device as a plan finds it, and ones that differ from it. *)
Usual ==
  [root |-> TRUE, framework |-> TRUE, radio |-> Radio("0", "null"), selinux |-> "Enforcing",
   files |-> {}, adapted |-> FALSE, sims |-> 1]

MCDevices ==
  {Usual, [Usual EXCEPT !.root = FALSE], [Usual EXCEPT !.selinux = "Permissive"],
   [Usual EXCEPT !.framework = FALSE], [Usual EXCEPT !.selinux = "Disabled", !.sims = 2],
   [Usual EXCEPT !.radio = Radio("1", "null"), !.sims = 3],
   [Usual EXCEPT !.radio = Radio("null", "0")], [Usual EXCEPT !.radio = Radio("null", "null")]}

(* Images of which each part can be wrong. *)
DtEntry(format, tree) == [format |-> format, tree |-> tree]
ConstEntries ==
  {<<DtEntry(0, TRUE), DtEntry(1, TRUE)>>, <<DtEntry(2, TRUE), DtEntry(3, TRUE)>>, <<DtEntry(1, TRUE), DtEntry(1, FALSE), DtEntry(2, TRUE)>>}
DtboDevices ==
  {[class |-> "dtbo", x86 |-> x86, slot |-> slot, parts |-> parts, valid |-> valid, version |-> version,
    entries |-> entries, cmdline |-> cmdline, applied |-> applied] :
     x86 \in BOOLEAN, slot \in {"", "_a"}, parts \in {{<<"dtbo", "">>}, {<<"dtbo", "_a">>, <<"dtbo", "_b">>}},
     valid \in BOOLEAN, version \in {0, 1}, entries \in ConstEntries,
     cmdline \in {<<>>, <<1>>, <<2, 1>>, <<3>>}, applied \in BOOLEAN}
Image(kernel, page, version, start, cpio, recovery_dtbo, dtb, size) ==
  [kernel |-> kernel, ramdisk |-> 1, page |-> page, version |-> version, ramdiskAt |-> start, cpio |-> cpio,
   recovery_dtbo |-> recovery_dtbo, dtb |-> dtb, header_size |-> size]
BootImages ==
  {Image(kernel, 4, version, start, TRUE, 1, dtb, size) :
     kernel \in {0, 1, 4, 5}, version \in 0..2, start \in {4, 8, 12}, dtb \in {0, 1}, size \in {1632, 1648, 1660}}
RecoveryImages ==
  {Image(4, 4, version, 8, cpio, recovery_dtbo, 1, 1648) :
     version \in {1, 2}, cpio \in BOOLEAN, recovery_dtbo \in {0, 1}}
BootDevices ==
  {[class |-> "boot", x86 |-> FALSE, cmdline |-> <<>>, slot |-> "", launchesQ |-> q, boot |-> image,
    parts |-> {<<"boot", "">>, <<"recovery", "">>}, recovery |-> Image(4, 4, 2, 8, TRUE, 1, 1, 1660)] :
     q \in BOOLEAN, image \in BootImages}
  \cup
  {[class |-> "boot", x86 |-> x86, cmdline |-> cmdline, slot |-> slot, launchesQ |-> FALSE,
    boot |-> Image(5, 4, 1, 12, FALSE, 0, 0, 1648), parts |-> {<<"boot", "">>, <<"recovery", "">>}, recovery |-> image] :
     x86 \in BOOLEAN, cmdline \in {<<>>, <<1>>}, slot \in {"", "_a"}, image \in RecoveryImages}
AcpioDevices ==
  {[class |-> "acpio", x86 |-> x86, slot |-> slot, parts |-> {<<"acpio", "">>}, valid |-> valid,
    cmdline |-> cmdline, dump |-> <<"h1", "h2">>, tables |-> tables] :
     x86 \in BOOLEAN, slot \in {"", "_a"}, valid \in BOOLEAN, cmdline \in {<<>>, <<1>>, <<1, 2>>, <<3>>},
     tables \in {{}, {"h2"}, {"h0"}}}
ConstFirmwares == DtboDevices \cup BootDevices \cup AcpioDevices
OneFirmware == CHOOSE f \in AcpioDevices : f.tables = {}

VARIABLE part

Parts == {"preparers", "binaries", "commands", "reboots", "firmware", "files"}
OnlyIn(p) ==
  /\ part = p /\ UNCHANGED part
  /\ p # "preparers" => UNCHANGED vars
  /\ p # "binaries" => UNCHANGED binaryVars
  /\ p # "commands" => UNCHANGED commandVars
  /\ p # "reboots" => UNCHANGED rebootVars
  /\ p # "firmware" => UNCHANGED firmwareVars
  /\ p # "files" => UNCHANGED fileVars

TestsInit ==
  /\ part \in Parts /\ CommandsInit
  /\ Init /\ (part # "preparers" => device = Usual /\ options = CHOOSE o \in Options : TRUE)
  /\ BinaryInit /\ (part # "binaries" => bcfg = OneBinaryConfig)
  /\ FirmwareInit /\ (part # "firmware" => fw = OneFirmware)
  /\ RebootsInit /\ (part # "reboots" => testClass = "reboot" /\ place = "android" /\ verity.set)
  /\ FilesInit /\ (part # "files" => file = [exists |-> FALSE, mode |-> 0]
                                    /\ shell = [enabled |-> TRUE, large |-> FALSE, pulls |-> TRUE])

TestsNext ==
  \/ OnlyIn("preparers") /\ Next
  \/ OnlyIn("binaries") /\ BinaryNext
  \/ OnlyIn("commands") /\ CommandsNext
  \/ OnlyIn("reboots") /\ RebootsNext
  \/ OnlyIn("firmware") /\ FirmwareNext
  \/ OnlyIn("files") /\ FilesNext

TestsSpec == TestsInit /\ [][TestsNext]_<<part, vars, binaryVars, commandVars, rebootVars,
                                         firmwareVars, fileVars>>
=============================================================================
