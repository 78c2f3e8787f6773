------------------------------ MODULE HalTests ------------------------------
(***************************************************************************)
(* Which test cases a HIDL HAL gtest runs: the test filter (utils/python/  *)
(* common/filter_utils.py), the test cases that testcases/template/        *)
(* hal_hidl_gtest/hal_hidl_gtest.py makes of each binary, one for every    *)
(* combination of service instances (utils/python/hal/                     *)
(* hal_service_name_utils.py), and the filter's items, which are expanded  *)
(* with the same combinations.                                             *)
(*                                                                         *)
(* A test name is [mod, base, app, bit]: module prefix ("" for none),      *)
(* suite and test, service names in parentheses (<<>> for none) and        *)
(* bitness suffix (0 for none).  An item of a filter is [neg, form, name]: *)
(* the sign "-", and "plain", "regex" for r(...), "escaped" for \r(...) or *)
(* "broken" for r(...) with an invalid regular expression.  A regular      *)
(* expression stands for "name, then anything".                            *)
(***************************************************************************)
EXTENDS Integers, Sequences, SequencesExt, FiniteSets

CONSTANTS
  Items,        \* items a user may put into the filters
  MaxItems,     \* bound: items in one filter
  BinaryLists   \* lists of test binaries: [bit, tests, services, instances, comb_mode]

VARIABLES
  asked,        \* the filters the user gave: [inc, exc, over]
  filter,       \* the Filter: lists, and what refresh_filter derives from them
  binaries, nextBinary, testcases, skipAll

halTestVars == <<asked, filter, binaries, nextBinary, testcases, skipAll>>
SomeItems == {S \in SUBSET Items : Cardinality(S) <= MaxItems}
-----------------------------------------------------------------------------
(* SplitNegativePattern, with both lists. *)
Positive(list) == {i \in list : ~i.neg}
Negative(list) == {[i EXCEPT !.neg = FALSE] : i \in {j \in list : j.neg}}

(* SplitFilterList: exact names and regular expressions; r( ... ) that is  *)
(* not valid is dropped, the escape is taken off.  After a "-" everything  *)
(* is a name.                                                              *)
ExactOf(list) ==
  {i \in list : i.neg \/ i.form = "plain"}
    \cup {[i EXCEPT !.form = "regex"] : i \in {j \in list : ~j.neg /\ j.form = "escaped"}}
RegexOf(list) == {i.name : i \in {j \in list : ~j.neg /\ j.form = "regex"}}

(* ExpandBitness. *)
ExpandBitness(list) ==
  list \cup {[i EXCEPT !.name.bit = b] : i \in {j \in list : j.name.bit = 0}, b \in {32, 64}}

(* Negative items stay in the include filter only. *)
RefreshesPositive(inc, exc, over) ==
  [inc |-> inc, exc |-> exc, over |-> over,
   incExact |-> ExpandBitness(ExactOf(Positive(inc))), incRegex |-> RegexOf(Positive(inc)),
   excExact |-> ExpandBitness(ExactOf(exc)), excRegex |-> RegexOf(exc)]
(* refresh_filter, with regular expressions, negative items and bitness    *)
(* enabled, as BaseTestClass.updateTestFilter does.                        *)
refresh_filter(inc, exc, over) ==
  [inc |-> inc, exc |-> exc, over |-> over,
   incExact |-> ExpandBitness(ExactOf(Positive(inc))), incRegex |-> RegexOf(Positive(inc)),
   excExact |-> ExpandBitness(ExactOf(exc \cup Negative(inc))),
   excRegex |-> RegexOf(exc \cup Negative(inc))]

(* ExpandAppendix: regular expressions, and whatever has parentheses, are  *)
(* left as they are.                                                       *)
ExpandAppendix(list, appendix_list) ==
  LET Whole(i) == i.form # "plain" \/ i.name.app # <<>>
  IN {i \in list : Whole(i)}
       \cup {[i EXCEPT !.name.app = a] : i \in {j \in list : ~Whole(j)}, a \in appendix_list}

(* InRegexList, _IsInIncludeFilter, _IsInExcludeFilter and                 *)
(* _ModuleNamePrefixMatchingCheck.                                         *)
InRegexList(n, regexes) ==
  \E r \in regexes : /\ r.mod = n.mod /\ r.base = n.base
                     /\ r.app \in {<<>>, n.app} /\ (r.bit # 0 => r.app = n.app /\ r.bit = n.bit)
Check(n, exact, regexes) ==
  [neg |-> FALSE, form |-> "plain", name |-> n] \in exact \/ InRegexList(n, regexes)
WithPrefix(n, exact, regexes) ==
  Check(n, exact, regexes) \/ Check([n EXCEPT !.mod = "M"], exact, regexes)
IsInIncludeFilter(f, n) == WithPrefix(n, f.incExact, f.incRegex)
IsInExcludeFilter(f, n) == WithPrefix(n, f.excExact, f.excRegex)

(* Filter.Filter. *)
Filter(f, n) ==
  LET empty == f.incExact = {} /\ f.incRegex = {}
  IN IF f.over THEN ~IsInExcludeFilter(f, n) /\ (~empty => IsInIncludeFilter(f, n))
     ELSE IF ~empty THEN IsInIncludeFilter(f, n) ELSE ~IsInExcludeFilter(f, n)
-----------------------------------------------------------------------------
FULL_PERMUTATION == 0
NAME_MATCH == 1
NO_COMBINATION == 2

(* GetServiceInstancesFullCombinations: the last service comes first; an   *)
(* instance is <<service, name>>.                                          *)
FullCombinations(services, instances) ==
  FoldLeft(LAMBDA pre, s :
             IF instances[s] = {} THEN pre
             ELSE IF pre = {} THEN {<<<<s, n>>>> : n \in instances[s]}
             ELSE {<<<<s, n>>>> \o c : n \in instances[s], c \in pre},
           {}, services)

(* GetServiceInstancesNameMatchCombinations: a set of common names that is *)
(* empty is filled from the next service.                                  *)
NameMatchCombinations(services, instances) ==
  LET names == FoldLeft(LAMBDA common, s : IF common = {} THEN instances[s] ELSE common \cap instances[s],
                        {}, services)
  IN IF \E s \in ToSet(services) : instances[s] = {} THEN {}
     ELSE {[i \in DOMAIN services |-> <<services[i], n>>] : n \in names}

(* GetServiceInstancesCombinations: an unknown mode is the full one.       *)
Combinations(b) ==
  IF b.comb_mode = NAME_MATCH THEN NameMatchCombinations(b.services, b.instances)
  ELSE FullCombinations(b.services, b.instances)

Names(combination) == [i \in DOMAIN combination |-> combination[i][2]]
Case(b, test, combination) ==
  [name |-> [mod |-> "", base |-> test, app |-> Names(combination), bit |-> b.bit], args |-> combination,
   binary |-> nextBinary]

HalTestsInit ==
  /\ asked = [inc |-> {}, exc |-> {}, over |-> FALSE]
  /\ filter = refresh_filter({}, {}, FALSE) /\ binaries = <<>> /\ nextBinary = 0 /\ testcases = {} /\ skipAll = FALSE

(* BaseTestClass.updateTestFilter and Filter.__init__.                     *)
updateTestFilter ==
  /\ nextBinary = 0 /\ nextBinary' = 1 /\ binaries' \in BinaryLists
  /\ \E inc, exc \in SomeItems, over \in BOOLEAN :
       /\ asked' = [inc |-> inc, exc |-> exc, over |-> over]
       /\ filter' = refresh_filter(inc, exc, over)
  /\ UNCHANGED <<testcases, skipAll>>

(* add_to_exclude_filter, by a test class before its test cases are made.  *)
add_to_exclude_filter(i) ==
  /\ nextBinary = 1 /\ i \notin filter.exc /\ Cardinality(filter.exc) < MaxItems
  /\ asked' = [asked EXCEPT !.exc = @ \cup {i}]
  /\ filter' = refresh_filter(filter.inc, filter.exc \cup {i}, filter.over)
  /\ UNCHANGED <<binaries, nextBinary, testcases, skipAll>>

(* HidlHalGTest.CreateTestCase of one binary: no test of a HAL that is not *)
(* testable or has no instance; the plain test cases without services or   *)
(* in NO_COMBINATION mode; else one test case for each combination.        *)
CreateTestCase ==
  LET b == binaries[nextBinary]
      plain == {Case(b, t, <<>>) : t \in b.tests}
      combinations == Combinations(b)
  IN /\ nextBinary \in DOMAIN binaries /\ nextBinary' = nextBinary + 1
     /\ IF b.tests = {} \/ b.services = <<>>
        THEN testcases' = testcases \cup plain /\ UNCHANGED <<filter, skipAll>>
        ELSE IF \E s \in ToSet(b.services) : b.instances[s] = {}
        THEN testcases' = testcases \cup plain /\ skipAll' = TRUE /\ UNCHANGED filter
        ELSE IF b.comb_mode = NO_COMBINATION
        THEN testcases' = testcases \cup plain /\ UNCHANGED <<filter, skipAll>>
        ELSE /\ testcases' = testcases \cup {Case(b, t, c) : t \in b.tests, c \in combinations}
             /\ LET a == {Names(c) : c \in combinations}
                IN filter' = refresh_filter(ExpandAppendix(filter.inc, a), ExpandAppendix(filter.exc, a), filter.over)
             /\ UNCHANGED skipAll
     /\ UNCHANGED <<asked, binaries>>

HalTestsNext == updateTestFilter \/ CreateTestCase \/ \E i \in Items : add_to_exclude_filter(i)
HalTestsSpec == HalTestsInit /\ [][HalTestsNext]_halTestVars
-----------------------------------------------------------------------------
(* An item says which tests are meant, on whatever service: the user of a  *)
(* HAL test does not know the names of the instances.                      *)
Means(i, n) ==
  /\ i.name.mod \in {"", "M"} /\ i.name.base = n.base /\ i.form \in {"plain", "regex"}
  /\ i.name.app \in {<<>>, n.app} /\ i.name.bit \in {0, n.bit}
Wanted(n) ==
  LET inc == \E i \in asked.inc : ~i.neg /\ Means(i, n)
      exc == (\E i \in asked.exc : ~i.neg /\ Means(i, n)) \/ (\E i \in asked.inc : i.neg /\ Means(i, n))
      any == \E i \in asked.inc : ~i.neg /\ i.form # "broken"
  IN IF asked.over THEN ~exc /\ (any => inc) ELSE IF any THEN inc ELSE ~exc

(* The tests that run are the ones the user asked for, on every service    *)
(* instance and in both bitnesses.  (The filter is expanded with the       *)
(* services of the first binary only, so this is claimed when all binaries *)
(* have the same combinations, see the README.)                            *)
Apps(k) == {c.name.app : c \in {d \in testcases : d.binary = k}}
RunsWhatWasAsked ==
  nextBinary = Len(binaries) + 1 /\ (\A k \in DOMAIN binaries : Apps(k) = Apps(1) /\ Apps(k) # {}) =>
    \A c \in testcases : Filter(filter, c.name) = Wanted(c.name)

(* Every combination of instances is tested: one instance for each         *)
(* service of the binary, in NAME_MATCH mode all of the same name.         *)
Chosen(b) ==
  LET S == ToSet(b.services)
      f == [S -> UNION {b.instances[s] : s \in S}]
  IN {g \in f : /\ \A s \in S : g[s] \in b.instances[s]
                /\ b.comb_mode = NAME_MATCH => \A s, t \in S : g[s] = g[t]}
EveryCombinationTested ==
  \A k \in 1..(nextBinary - 1) :
    LET b == binaries[k]
        tested(t) == {ToSet(c.args) : c \in {d \in testcases : d.binary = k /\ d.name.base = t}}
    IN b.services # <<>> /\ b.comb_mode # NO_COMBINATION /\ (\A s \in ToSet(b.services) : b.instances[s] # {}) =>
         \A t \in b.tests : tested(t) = {{<<s, g[s]>> : s \in DOMAIN g} : g \in Chosen(b)}

(* The tests that run are the combinations that exist, as asked for. *)
TestsAreThoseAsked == RunsWhatWasAsked /\ EveryCombinationTested
=============================================================================
