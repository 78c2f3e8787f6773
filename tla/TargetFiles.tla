----------------------------- MODULE TargetFiles -----------------------------
(***************************************************************************)
(* Questions about files of the device, asked through its shell            *)
(* (utils/python/file/target_file_utils.py, utils/python/mirror/           *)
(* shell_mirror.py).  A file's mode is what the kernel holds, nine bits    *)
(* and the special ones; stat -c %a prints it in octal, without leading    *)
(* zeros.  A large output does not come with the result but in a file of   *)
(* the device, which is pulled and removed.                                *)
(***************************************************************************)
EXTENDS Integers, Sequences

CONSTANT Modes     \* modes of files

AllModes == 0..4095

ASSUME FileModes == Modes \subseteq AllModes

VARIABLES
  file,      \* [exists, mode, content]
  shell,     \* [enabled, large, pulls]: the mirror is enabled; outputs go to files; which can be pulled
  nohup,     \* a temporary output file is left on the device
  question,  \* what was asked
  said       \* the answer

fileVars == <<file, shell, nohup, question, said>>

Questions == {"Exists", "ReadFileContent", "IsReadOnly", "IsWriteOnly", "IsReadWrite", "IsExecutable"}
FilesInit ==
  /\ file \in {[exists |-> e, mode |-> m] : e \in BOOLEAN, m \in Modes}
  /\ shell \in [enabled : BOOLEAN, large : BOOLEAN, pulls : BOOLEAN]
  /\ nohup = FALSE /\ question = "none" /\ said = "none"
-----------------------------------------------------------------------------
(* The octal digits that stat prints. *)
Octal == [n \in AllModes |->
            IF n < 8 THEN <<n>> ELSE IF n < 64 THEN <<n \div 8, n % 8>>
            ELSE IF n < 512 THEN <<n \div 64, (n \div 8) % 8, n % 8>>
            ELSE <<n \div 512, (n \div 64) % 8, (n \div 8) % 8, n % 8>>]

(* ShellMirror.Execute: a disabled mirror answers -2.  An output file is   *)
(* pulled and removed; when the pull fails it stays and the call raises.   *)
Raises == shell.enabled /\ shell.large /\ ~shell.pulls
ExecuteOnDevice(ok) == IF ~shell.enabled THEN -2 ELSE IF ok THEN 0 ELSE 1
_Test(ok) == ExecuteOnDevice(ok) = 0
Exists == _Test(file.exists)

_PERMISSION_GROUPS == 3
_READ_PERMISSION == 4
_WRITE_PERMISSION == 2
_EXECUTE_PERMISSION == 1
(* GetPermission: three digits, or an error. *)
GetPermission == Octal[file.mode]
Granted(digit, permission) == (digit \div permission) % 2 = 1

(* Whether one group, or with index -1 every group, has the permission. *)
_HasPermission(bits, groupIndex, permission) ==
  \A i \in (IF groupIndex < 0 THEN 0..(_PERMISSION_GROUPS - 1) ELSE {groupIndex}) :
    Granted(bits[i + 1], permission)
(* Every group has it. *)
EveryGroup(bits, permission) == _HasPermission(bits, -1, permission)
AnyGroup(bits, permission) == \E i \in 0..(_PERMISSION_GROUPS - 1) : _HasPermission(bits, i, permission)
IsReadable(bits) == AnyGroup(bits, _READ_PERMISSION)
IsWritable(bits) == AnyGroup(bits, _WRITE_PERMISSION)
IsExecutable(bits) == AnyGroup(bits, _EXECUTE_PERMISSION)
IsReadOnly(bits) == IsReadable(bits) /\ ~IsWritable(bits)
IsWriteOnly(bits) == IsWritable(bits) /\ ~IsReadable(bits)
IsReadWrite(bits) == IsReadable(bits) /\ IsWritable(bits)
check_permission(q, bits) ==
  CASE q = "IsReadOnly" -> IsReadOnly(bits) [] q = "IsWriteOnly" -> IsWriteOnly(bits)
    [] q = "IsReadWrite" -> IsReadWrite(bits) [] q = "IsExecutable" -> IsExecutable(bits)

(* assertPermissionsAndExistence: what is not there, and bits that are not *)
(* three digits, fail the assertion.                                       *)
assertPermissionsAndExistence(q) ==
  IF ~Exists \/ Len(GetPermission) # _PERMISSION_GROUPS THEN "failed"
  ELSE IF check_permission(q, GetPermission) THEN "true" ELSE "failed"

ReadFileContent == IF ExecuteOnDevice(file.exists) # 0 THEN "IOError" ELSE "content"

Ask(q) ==
  /\ question = "none" /\ question' = q /\ nohup' = Raises
  /\ said' = IF Raises THEN "raised"
             ELSE CASE q = "Exists" -> (IF Exists THEN "true" ELSE "false")
                    [] q = "ReadFileContent" -> ReadFileContent
                    [] OTHER -> assertPermissionsAndExistence(q)
  /\ UNCHANGED <<file, shell>>

FilesNext == \E q \in Questions : Ask(q)
FilesSpec == FilesInit /\ [][FilesNext]_fileVars
-----------------------------------------------------------------------------
(* What the kernel grants: a bit of the mode of some group. *)
Grants(bit) == \E shift \in {1, 8, 64} : (file.mode \div (bit * shift)) % 2 = 1
Holds(q) ==
  CASE q = "IsReadOnly" -> Grants(4) /\ ~Grants(2) [] q = "IsWriteOnly" -> Grants(2) /\ ~Grants(4)
    [] q = "IsReadWrite" -> Grants(4) /\ Grants(2) [] q = "IsExecutable" -> Grants(1)
    [] q \in {"Exists", "ReadFileContent"} -> TRUE

(* An answer of "true", or a content, is given only for a file that exists *)
(* and whose mode grants what was asked; and, through a shell that works,  *)
(* for every such file whose owner has a permission and that has no        *)
(* special bits: stat prints other modes with fewer or more digits than    *)
(* three, which counts as an error (target_file_utils.py, GetPermission,   *)
(* _HasPermission and the functions on permission bits).                   *)
FilesAreAsAnswered ==
  question # "none" =>
    /\ said \in {"true", "content"} => shell.enabled /\ file.exists /\ Holds(question)
    /\ file.exists /\ Holds(question) /\ shell.enabled /\ ~nohup =>
         \/ said \in {"true", "content"}
         \/ question \notin {"Exists", "ReadFileContent"} /\ file.mode \notin 64..511
=============================================================================
