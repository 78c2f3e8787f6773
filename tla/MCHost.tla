------------------------------- MODULE MCHost -------------------------------
(* The parts of the host that share no state, side by side: a behaviour is *)
(* one of a single part, which the first state chooses, so that the states *)
(* of the parts add up instead of multiplying.                             *)
EXTENDS AndroidDevice, Mirrors, MCConversion, Framework, Features, Gcov, Sancov, Corpus, HalTests

(* Control-flow graphs with every choice of the spanning tree whose arcs   *)
(* gcc leaves uninstrumented (the arc from exit to entry is always on it). *)
Branch == [n |-> 5, arcs |-> <<<<0, 1>>, <<1, 2>>, <<1, 3>>, <<2, 4>>, <<3, 4>>>>, fake |-> {},
           paths |-> {{1, 2, 4}, {1, 3, 5}}]
Loop   == [n |-> 5, arcs |-> <<<<0, 1>>, <<1, 2>>, <<1, 4>>, <<2, 3>>, <<3, 1>>>>, fake |-> {},
           paths |-> {{1, 3}}]
Abort  == [n |-> 4, arcs |-> <<<<0, 1>>, <<1, 3>>, <<1, 2>>, <<2, 3>>>>, fake |-> {2},
           paths |-> {{1, 3, 4}}]

Joined(n, E, S) == S \cup {b \in 0..(n - 1) : \E a \in S : <<a, b>> \in E \/ <<b, a>> \in E}
Spans(n, E) == Joined(n, E, Joined(n, E, Joined(n, E, Joined(n, E, {0})))) = 0..(n - 1)
Trees(G) ==
  {T \in SUBSET (DOMAIN G.arcs \ G.fake) :
     Cardinality(T) = G.n - 2 /\ Spans(G.n, {G.arcs[i] : i \in T} \cup {<<G.n - 1, 0>>})}

Flags(G, T, i) == (IF i \in T THEN {"on_tree"} ELSE {}) \cup (IF i \in G.fake THEN {"fake"} ELSE {})
ArcsFrom(G, T, b) ==
  LET ids == SelectSeq([i \in DOMAIN G.arcs |-> i], LAMBDA i : G.arcs[i][1] = b)
  IN [k \in DOMAIN ids |-> [dst |-> G.arcs[ids[k]][2], flags |-> Flags(G, T, ids[k])]]
Records(ident, src, G, T) ==
  <<[tag |-> "function", ident |-> ident, src |-> src], [tag |-> "blocks", n |-> G.n]>>
  \o [b \in 1..(G.n - 1) |-> [tag |-> "arcs", src |-> b - 1, arcs |-> ArcsFrom(G, T, b - 1)]]
  \o [b \in 1..(G.n - 2) |-> [tag |-> "lines", block |-> b, lines |-> <<0, b, 3>>]]

File(checksum, path, records, whole) ==
  [checksum |-> checksum, path |-> path, records |-> records, whole |-> whole]
OneFile == UNION {{<<File(1, "a", Records(1, "a", G, T), TRUE)>> : T \in Trees(G)} : G \in {Branch, Loop, Abort}}
TwoFiles ==
  {<<File(1, "a", Records(1, "a", Branch, {1, 2, 3}) \o Records(2, "x", Loop, {1, 2, 4}), whole),
     File(c, "b", Records(2, "b", Loop, {2, 3, 4}) \o Records(3, "a", Branch, {1, 2, 5}), TRUE)>> :
     c \in {1, 2}, whole \in BOOLEAN}

ConstBuilds == OneFile \cup TwoFiles
ConstPaths(func) ==
  LET G == CHOOSE H \in {Branch, Loop, Abort} :
             H.n = func.blocks /\ H.arcs = [i \in DOMAIN func.arcs |-> <<func.arcs[i].src, func.arcs[i].dst>>]
  IN G.paths
ConstLoaded(p) == IF p = 0 THEN {2} ELSE {1}

ConstLogFiles ==
  {[dir |-> "a", name |-> "host.log"], [dir |-> "a", name |-> "test.log"], [dir |-> "b", name |-> "host.log"]}

(* Two HALs, one of them a library with symbols of both widths.            *)
ConstHalOrder == <<"light", "nfc">>
ConstHalBinaries ==
  [light |-> [binary |-> "light-service", bitness |-> 64, offsets |-> {1, 2, 3}],
   nfc |-> [binary |-> "nfc-impl.so", bitness |-> 32, offsets |-> {1, 2}]]
ConstSymbols ==
  <<[binary |-> "light-service", bitness |-> 0, lines |-> {<<"l.cpp", 1>>, <<"l.cpp", 3>>, <<"log.h", 1>>},
     addr |-> (1 :> <<"l.cpp", 1>> @@ 2 :> <<"l.cpp", 1>> @@ 3 :> <<"l.cpp", 2>>)],
    [binary |-> "nfc-impl.so", bitness |-> 64, lines |-> {<<"n.cpp", 1>>}, addr |-> (1 :> <<"n.cpp", 1>>)],
    [binary |-> "nfc-impl.so", bitness |-> 32, lines |-> {<<"n.cpp", 2>>},
     addr |-> (1 :> <<"n.cpp", 4>> @@ 2 :> <<"libc.c", 1>>)]>>

(* A 32-bit and a 64-bit binary of a HAL with two services.                *)
Name(mod, base, app, bit) == [mod |-> mod, base |-> base, app |-> app, bit |-> bit]
Item(neg, form, name) == [neg |-> neg, form |-> form, name |-> name]
ConstItems ==
  {Item(FALSE, "plain", Name("", "t", <<>>, 0)), Item(TRUE, "plain", Name("", "t", <<>>, 32)),
   Item(FALSE, "plain", Name("M", "u", <<>>, 0)), Item(TRUE, "regex", Name("", "u", <<>>, 0)),
   Item(FALSE, "escaped", Name("", "t", <<>>, 0)), Item(FALSE, "broken", Name("", "u", <<>>, 0)),
   Item(FALSE, "plain", Name("", "t", <<"y", "x">>, 64))}
Binary(bit, mode) ==
  [bit |-> bit, tests |-> {"t", "u"}, services |-> <<"s1", "s2">>, comb_mode |-> mode,
   instances |-> [s1 |-> {"x", "y"}, s2 |-> {"y", "z"}]]
Without(b, s) == [b EXCEPT !.instances[s] = {}]
ConstBinaryLists ==
  {<<Binary(32, FULL_PERMUTATION), Binary(64, FULL_PERMUTATION)>>,
   <<Binary(32, NAME_MATCH), Binary(64, NAME_MATCH)>>,
   <<[Binary(32, FULL_PERMUTATION) EXCEPT !.services = <<>>], Binary(64, NO_COMBINATION)>>,
   <<Without(Binary(32, FULL_PERMUTATION), "s1"), Binary(64, FULL_PERMUTATION)>>}
(* Three services without a common name. *)
ConstThreeServices ==
  {<<[Binary(64, NAME_MATCH) EXCEPT !.services = <<"s1", "s2", "s3">>,
        !.instances = [s1 |-> {"x"}, s2 |-> {"y"}, s3 |-> {"z"}]]>>}

VARIABLE part

Parts == {"device", "mirrors", "conversion", "framework", "features", "gcov", "sancov", "corpus",
          "haltests"}
OnlyIn(p) ==
  /\ part = p /\ UNCHANGED part
  /\ p # "device" => UNCHANGED deviceVars
  /\ p # "mirrors" => UNCHANGED mirrorVars
  /\ p # "conversion" => UNCHANGED convVars
  /\ p # "framework" => UNCHANGED frameworkVars
  /\ p # "features" => UNCHANGED featureVars
  /\ p # "gcov" => UNCHANGED gcovVars
  /\ p # "sancov" => UNCHANGED sancovVars
  /\ p # "corpus" => UNCHANGED corpusVars
  /\ p # "haltests" => UNCHANGED halTestVars

HostInit ==
  /\ part \in Parts
  /\ DeviceInit /\ (part # "device" => \A d \in Devices : dev[d].mode = "adb")
  /\ MirrorsInit /\ ConversionInit /\ FrameworkInit /\ FeaturesInit /\ GcovInit
  /\ SancovInit /\ CorpusInit /\ HalTestsInit

HostNext ==
  \/ OnlyIn("device") /\ DeviceNext
  \/ OnlyIn("mirrors") /\ MirrorsNext
  \/ OnlyIn("conversion") /\ ConversionNext
  \/ OnlyIn("framework") /\ FrameworkNext
  \/ OnlyIn("features") /\ FeaturesNext
  \/ OnlyIn("gcov") /\ GcovNext
  \/ OnlyIn("sancov") /\ SancovNext
  \/ OnlyIn("corpus") /\ CorpusNext
  \/ OnlyIn("haltests") /\ HalTestsNext

HostSpec == HostInit /\ [][HostNext]_<<part, deviceVars, mirrorVars, convVars, frameworkVars,
                                       featureVars, gcovVars, sancovVars, corpusVars, halTestVars>>
=============================================================================
