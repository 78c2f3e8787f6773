---------------------------- MODULE FirmwareTests ----------------------------
(***************************************************************************)
(* The classes that verify the firmware images of a device:                *)
(* VtsFirmwareDtboVerification, VtsFirmwareBootHeaderVerification and      *)
(* VtsFirmwareAcpioVerification (in testcases/host), run by                *)
(* BaseTestClass with its retries: a retry sets the class up again and     *)
(* runs the tests that have not passed.                                    *)
(***************************************************************************)
EXTENDS Integers, Sequences, FiniteSets

CONSTANTS
  Firmwares,    \* the devices: records, of the fields that their class reads
  MaxFlakes,    \* bound: commands that fail by themselves
  MaxRetries    \* max_retry_count

VARIABLES
  fw,           \* the device
  fphase,       \* "setUpClass", "run", "tearDownClass", "over"
  todo,         \* tests of this attempt that have not run
  fverdict,     \* test -> verdict
  tempDirs,     \* temporary directories of the host that exist
  dumped,       \* files of the unpacked image in the host's directory
  devicePath,   \* files in the device's directory; {} when it does not exist
  flakes, retries

firmwareVars == <<fw, fphase, todo, fverdict, tempDirs, dumped, devicePath, flakes, retries>>

TestsOf(class) ==
  CASE class = "dtbo" -> <<"testCheckDTBOPartition", "testVerifyOverlay">>
    [] class = "boot" -> <<"testBootImageHeader", "testRecoveryImageHeader">>
    [] class = "acpio" -> <<"testAcpioPartition">>
NamesOf(class) == {TestsOf(class)[i] : i \in DOMAIN TestsOf(class)}

(* The binary that verifies overlays was pushed before the class. *)
FirmwareInit ==
  /\ fw \in Firmwares /\ fphase = "setUpClass" /\ todo = <<>>
  /\ fverdict = [t \in NamesOf(fw.class) |-> "none"]
  /\ tempDirs = 0 /\ dumped = <<>> /\ devicePath = {"ufdt_verify_overlay"}
  /\ flakes = 0 /\ retries = 0
-----------------------------------------------------------------------------
(* FindFiles: the links of the block devices with the partition's name. *)
FindFiles(name) == fw.parts \cap {name}

(* DecompressDTEntries: each entry by its flags, up to the first one of an *)
(* unknown format or whose content is no device tree.  Version 0 has no    *)
(* flags, and an entry that is not compressed is taken as it is.           *)
Packed(e) == e.format \in {1, 2}
Accepted(e) == e.format = 0 \/ (Packed(e) /\ e.tree)
DecompressDTEntries(entries, version) ==
  LET bad == {i \in DOMAIN entries : version > 0 /\ ~Accepted(entries[i])}
      done(i) == version > 0 /\ \A j \in bad : i < j
  IN [ok |-> bad = {},
      files |-> [i \in DOMAIN entries |->
                   IF Packed(entries[i]) /\ ~done(i) THEN "packed" ELSE IF entries[i].tree THEN "tree" ELSE "junk"]]

Unchanged(verdict) == [verdict |-> verdict, dumped |-> dumped, device |-> devicePath]
testCheckDTBOPartition ==
  LET all == DecompressDTEntries(fw.entries, fw.version)
  IN IF FindFiles(<<"dtbo", fw.slot>>) = {} \/ ~fw.valid THEN Unchanged("fail")
     ELSE [verdict |-> IF all.ok THEN "pass" ELSE "fail", dumped |-> all.files, device |-> devicePath]

(* testVerifyOverlay: pushes the entries that the kernel's command line    *)
(* names, as the other test has left them, and verifies on the device that *)
(* the final tree is the base with these applied (ufdt_verify_overlay).    *)
Overlays == [i \in DOMAIN fw.cmdline |-> dumped[fw.cmdline[i]]]
testVerifyOverlay ==
  IF fw.cmdline = <<>> THEN Unchanged("fail")
  ELSE IF \E i \in DOMAIN fw.cmdline : fw.cmdline[i] \notin DOMAIN dumped THEN Unchanged("error")
  ELSE [verdict |-> IF "ufdt_verify_overlay" \in devicePath /\ fw.applied
                       /\ \A i \in DOMAIN Overlays : Overlays[i] = "tree" THEN "pass" ELSE "fail",
        dumped |-> dumped, device |-> devicePath \cup {"final_dt", "overlays"}]
-----------------------------------------------------------------------------
(* Counts whole pages only. *)
RoundsDown(image_size, page_size) == image_size \div page_size
get_number_of_pages(image_size, page_size) == (image_size + page_size - 1) \div page_size

checkValidRamdisk(image, offset) == image.ramdiskAt = offset /\ image.cpio

BOOT_HEADER_DTBO_SIZE_OFFSET == 1632
CheckImageHeader(image, is_recovery) ==
  LET ramdisk_offset == image.page * (1 + get_number_of_pages(image.kernel, image.page))
      expected_header_size == BOOT_HEADER_DTBO_SIZE_OFFSET + 4 + 8 + 4
                              + (IF image.version > 1 THEN 4 + 8 ELSE 0)
  IN /\ image.kernel # 0
     /\ IF fw.launchesQ
        THEN image.version >= 2 /\ image.ramdisk # 0 /\ checkValidRamdisk(image, ramdisk_offset)
        ELSE image.version >= 1
     /\ is_recovery => image.recovery_dtbo # 0
     /\ image.version > 1 => image.dtb # 0
     /\ image.header_size = expected_header_size

Checked(name, image, is_recovery) ==
  Unchanged(IF FindFiles(name) # {} /\ CheckImageHeader(image, is_recovery) THEN "pass" ELSE "fail")
testBootImageHeader == Checked(<<"boot", fw.slot>>, fw.boot, FALSE)
testRecoveryImageHeader ==
  IF fw.slot # "" THEN Unchanged("skip") ELSE Checked(<<"recovery", "">>, fw.recovery, TRUE)

(* testAcpioPartition: one of the entries that the command line names is   *)
(* among the tables that the kernel has loaded.                            *)
testAcpioPartition ==
  LET hashes == {fw.dump[fw.cmdline[i]] : i \in DOMAIN fw.cmdline}
  IN Unchanged(IF FindFiles(<<"acpio", fw.slot>>) = {} \/ ~fw.valid THEN "fail"
               ELSE IF \E i \in DOMAIN fw.cmdline : fw.cmdline[i] \notin DOMAIN fw.dump THEN "error"
               ELSE IF hashes \cap fw.tables # {} THEN "pass" ELSE "fail")

(* setUp: the ABI that a class is for.  Without overlays in the command    *)
(* line the ACPIO test fails, and the boot header's is skipped.            *)
setUp ==
  CASE fw.class = "dtbo" -> IF fw.x86 THEN "skip" ELSE "run"
    [] fw.class = "boot" -> IF fw.x86 /\ fw.cmdline = <<>> THEN "skip" ELSE "run"
    [] fw.class = "acpio" -> IF ~fw.x86 THEN "skip" ELSE IF fw.cmdline = <<>> THEN "fail" ELSE "run"

Outcome(test) ==
  CASE test = "testCheckDTBOPartition" -> testCheckDTBOPartition
    [] test = "testVerifyOverlay" -> testVerifyOverlay
    [] test = "testBootImageHeader" -> testBootImageHeader
    [] test = "testRecoveryImageHeader" -> testRecoveryImageHeader
    [] test = "testAcpioPartition" -> testAcpioPartition
-----------------------------------------------------------------------------
(* setUpClass: a new directory on the host, and the one on the device.  A  *)
(* retry has only the tests that have not passed.                          *)
FirmwareSetUp ==
  /\ fphase = "setUpClass" /\ fphase' = "run" /\ tempDirs' = tempDirs + 1 /\ dumped' = <<>>
  /\ todo' = SelectSeq(TestsOf(fw.class), LAMBDA t : fverdict[t] \in {"none", "fail", "error"})
  /\ UNCHANGED <<fw, fverdict, devicePath, flakes, retries>>

(* setUp and the test.  A command or a connection can fail by itself.      *)
FirmwareTest ==
  LET t == Head(todo)
      o == IF setUp = "run" THEN Outcome(t) ELSE Unchanged(setUp)
  IN /\ fphase = "run" /\ todo # <<>> /\ todo' = Tail(todo)
     /\ \/ fverdict' = [fverdict EXCEPT ![t] = o.verdict] /\ dumped' = o.dumped /\ devicePath' = o.device
           /\ UNCHANGED flakes
        \/ flakes < MaxFlakes /\ flakes' = flakes + 1 /\ setUp = "run"
           /\ fverdict' = [fverdict EXCEPT ![t] = "error"] /\ UNCHANGED <<dumped, devicePath>>
     /\ UNCHANGED <<fw, fphase, tempDirs, retries>>

(* tearDownClass: the directories go, with what was pushed into the        *)
(* device's before the class; the ACPIO class has no tearDownClass.        *)
FirmwareCleans ==
  /\ tempDirs' = IF fw.class = "acpio" THEN tempDirs ELSE tempDirs - 1
  /\ devicePath' = IF fw.class = "dtbo" THEN {} ELSE devicePath
FirmwareTearDown ==
  /\ fphase = "run" /\ todo = <<>> /\ FirmwareCleans /\ dumped' = <<>>
  /\ LET again == retries < MaxRetries /\ \E t \in DOMAIN fverdict : fverdict[t] \in {"fail", "error"}
     IN fphase' = (IF again THEN "setUpClass" ELSE "over") /\ retries' = (IF again THEN retries + 1 ELSE retries)
  /\ UNCHANGED <<fw, todo, fverdict, flakes>>

FirmwareNext == FirmwareSetUp \/ FirmwareTest \/ FirmwareTearDown
FirmwareSpec == FirmwareInit /\ [][FirmwareNext]_firmwareVars
-----------------------------------------------------------------------------
(* What the images have to be.  A ramdisk begins on the first page after   *)
(* the header's page and the kernel.                                       *)
PageBoundary(image, at) ==
  /\ at % image.page = 0 /\ at >= image.page + image.kernel /\ at - image.page < image.page + image.kernel
GoodImage(image, is_recovery) ==
  /\ image.kernel > 0 /\ image.version >= (IF fw.launchesQ THEN 2 ELSE 1)
  /\ fw.launchesQ => image.ramdisk > 0 /\ image.cpio /\ PageBoundary(image, image.ramdiskAt)
  /\ image.header_size = (IF image.version = 1 THEN 1648 ELSE 1660)
  /\ (is_recovery => image.recovery_dtbo > 0) /\ (image.version >= 2 => image.dtb > 0)
GoodEntry(e) == fw.version = 0 \/ e.format = 0 \/ (e.format \in {1, 2} /\ e.tree)
Good(test) ==
  CASE test = "testCheckDTBOPartition" ->
         <<"dtbo", fw.slot>> \in fw.parts /\ fw.valid /\ \A i \in DOMAIN fw.entries : GoodEntry(fw.entries[i])
    [] test = "testVerifyOverlay" ->
         /\ fw.applied /\ fw.cmdline # <<>>
         /\ \A i \in DOMAIN fw.cmdline : /\ fw.cmdline[i] \in DOMAIN fw.entries
                                         /\ fw.entries[fw.cmdline[i]].tree
                                         /\ fw.version = 0 => fw.entries[fw.cmdline[i]].format = 0
    [] test = "testBootImageHeader" -> <<"boot", fw.slot>> \in fw.parts /\ GoodImage(fw.boot, FALSE)
    [] test = "testRecoveryImageHeader" -> <<"recovery", "">> \in fw.parts /\ GoodImage(fw.recovery, TRUE)
    [] test = "testAcpioPartition" ->
         /\ <<"acpio", fw.slot>> \in fw.parts /\ fw.valid
         /\ \E i \in DOMAIN fw.cmdline : fw.cmdline[i] \in DOMAIN fw.dump /\ fw.dump[fw.cmdline[i]] \in fw.tables

(* A test passes only on a good image, whatever failed and was retried     *)
(* before; and on a good image of the ABI of its class it passes in the    *)
(* first attempt if nothing fails by itself.  The first DTBO test makes    *)
(* the files of the second.  No directory of a finished class is left on   *)
(* the host, but those of the ACPIO class (tests, CheckImageHeader,        *)
(* DecompressDTEntries and tearDownClass of the three classes).            *)
VerdictsMatchImages ==
  /\ \A t \in DOMAIN fverdict : fverdict[t] = "pass" => Good(t)
  /\ flakes = 0 /\ retries = 0 =>
       \A t \in DOMAIN fverdict :
         /\ Good(t) /\ setUp = "run" /\ (t = "testVerifyOverlay" => Good("testCheckDTBOPartition"))
         => fverdict[t] \in {"none", "pass", "skip"}
  /\ fphase = "over" /\ fw.class # "acpio" => tempDirs = 0
=============================================================================
