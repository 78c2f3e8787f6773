---------------------------- MODULE MCBinaryTests ----------------------------
EXTENDS BinaryTests

ConstGtestsOf == [b \in {"b32", "b64", "lib", "data"} |->
                    CASE b = "b32" -> <<"A.B_C", "A_B.C">> [] b = "b64" -> <<"S.t">> [] OTHER -> <<"D.u">>]
ConstOutputName ==
  [n \in {"A.B_C", "A_B.C", "S.t", "D.u"} \X {"", "_32bit", "_64bit"} |->
     IF n[1] \in {"S.t", "D.u"} THEN n[1] ELSE CASE n[2] = "" -> "A_B_C" [] n[2] = "_32bit" -> "A_B_C_32bit" [] OTHER -> "A_B_C_64bit"]
Nowhere == [dir |-> <<>>, base |-> ""]
Source(tag, src, native, arrow, to) ==
  [tag |-> tag, src |-> src, exists |-> TRUE, native |-> native, arrow |-> arrow, to |-> to]
Token(tag, val) == [tag |-> tag, val |-> val]
OnDevice(dir, base) == [dir |-> dir, base |-> base]

(* Both bitnesses with a library that is pushed only, for a run of either; *)
(* a binary of the device and one with an explicit destination; a source   *)
(* that does not exist; one that replaces a file of the device.            *)
SourceLists ==
  {<<Source("_32bit", "b32", "tmp", "no", Nowhere), Source("_64bit", "b64", "tmp", "no", Nowhere),
     Source("_32bit", "lib", "tmp", "empty", Nowhere)>>,
   <<Source("", "b32", "tmp", "to", OnDevice(<<"tmp", "x">>, "b32")), Source("", "", "tmp", "to", OnDevice(<<"system">>, "b64"))>>,
   <<[Source("", "b64", "tmp", "no", Nowhere) EXCEPT !.exists = FALSE], Source("", "data", "nativetest", "no", Nowhere)>>}
BinaryOptions ==
  {[env |-> <<>>, args |-> <<>>, ld |-> <<>>, wd |-> <<>>, prof |-> <<>>],
   [env |-> <<Token("_32bit", "E1=1"), Token("", "E2=2"), Token("_32bit", "E3=3")>>,
    args |-> <<Token("_32bit", "-a"), Token("", "-b"), Token("_32bit", "-c")>>,
    ld |-> <<Token("_32bit", "/l1"), Token("_32bit", "/l2")>>,
    prof |-> <<Token("_32bit", "/p1"), Token("_32bit", "/p2")>>,
    wd |-> <<Token("_32bit", <<"tmp", "wd">>), Token("", <<"tmp", "work">>)>>]}
Untested == [sysprop |-> <<>>, prop |-> <<"">>, prefix |-> <<>>, service |-> "", lshal |-> ""]
Pushed32 == OnDevice(<<"tmp", "vts_binary_test", "_32bit">>, "b32")
(* No precondition, one that is not met; malformed, unreadable or          *)
(* undefined properties; and what a HAL test asks for.                     *)
NotMet == [Untested EXCEPT !.sysprop = <<"key", "1">>, !.prop = <<"2">>]
Lenient == {[Untested EXCEPT !.sysprop = <<"key">>], [Untested EXCEPT !.sysprop = <<"key", "1">>, !.prop = <<>>]}
HalChecks ==
  {[Untested EXCEPT !.service = "valid", !.lshal = "testable",
                    !.prefix = <<Token("_32bit", Pushed32), Token("", OnDevice(<<"system">>, "b64"))>>],
   [Untested EXCEPT !.service = "invalid", !.prefix = <<Token("_64bit", OnDevice(<<"system">>, "none"))>>],
   [Untested EXCEPT !.lshal = "untestable"]}
Config(kind, b, batch, cov, s, o, p) ==
  [kind |-> kind, bitness |-> b, batch |-> batch, coverage |-> cov, sources |-> s,
   wd |-> o.wd, env |-> o.env, args |-> o.args, ld |-> o.ld, prof |-> o.prof,
   sysprop |-> p.sysprop, prop |-> p.prop, prefix |-> p.prefix, service |-> p.service, lshal |-> p.lshal,
   present |-> {OnDevice(<<"tmp", "x">>, "other"), OnDevice(<<"system">>, "b64"),
                OnDevice(<<"tmp", "vts_binary_test", "_64bit">>, "b64")}]
Gtests ==
  {Config("gtest", b, batch, FALSE, s, o, p) :
     b \in {32, 64}, batch \in BOOLEAN, s \in SourceLists, o \in BinaryOptions, p \in {Untested, NotMet}}
Covered == {Config("gtest", 32, FALSE, TRUE, s, o, Untested) : s \in SourceLists, o \in BinaryOptions}
Binaries == {Config("binary", 32, FALSE, FALSE, s, o, p) : s \in SourceLists, o \in BinaryOptions, p \in {NotMet} \cup Lenient}
Hals == {Config("hal", b, FALSE, FALSE, s, CHOOSE o \in BinaryOptions : o.wd = <<>>, p) :
           b \in {32, 64}, s \in SourceLists, p \in HalChecks}
ConstBinaryConfigs == Gtests \cup Covered \cup Binaries \cup Hals
OneBinaryConfig == CHOOSE c \in Gtests : c.prop = <<"2">>
=============================================================================
