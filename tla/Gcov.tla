-------------------------------- MODULE Gcov --------------------------------
(***************************************************************************)
(* The gcov coverage of a test (utils/python/coverage): CoverageFeature    *)
(* clears the device's traces, collects the .gcda files that the processes *)
(* dump, matches them by checksum and path with the .gcno files of the     *)
(* build, solves the counts of the arcs that are not instrumented, and     *)
(* reports a vector of line counts for every source file.                  *)
(*                                                                         *)
(* A .gcno file is the sequence of its records; a .gcda file holds, for    *)
(* every function, the counts of its instrumented arcs in file order.      *)
(***************************************************************************)
EXTENDS Integers, Sequences, SequencesExt, FiniteSets, FiniteSetsExt, Functions, TLC

CONSTANTS
  Builds,     \* possible builds: sequences of .gcno files, [checksum, path, records, whole]
  Paths(_),   \* the executions of a function: sets of the arcs taken
  Pids,       \* processes that serve the HAL, one after the other: 1..n; 0 is the test's own
  Loaded(_),  \* the .gcno files whose code a process has
  Excluded,   \* source files under the excluded paths
  InProject,  \* source files under a git project of the build's BUILD_INFO
  MaxExecutions     \* bound: executions of functions

VARIABLES
  build,      \* the .gcno files in gcov.zip
  gcno,       \* their summaries, as GCNOParser.Parse returns them
  hal_names,  \* BOOLEAN: SetHalNames was called
  hal,        \* pid of the HAL's process
  mem,        \* [Pids -> counts in the memory of the process, per gcno and arc]
  trace,      \* .gcda files on the device: function from pids to such counts
  ran,        \* history: [Pids -> counts since the measurement began]
  coverage_dict,  \* result of SetCoverageData: vectors of line counts
  merged,     \* history: the .gcno files that it merged with their counts
  measured,   \* history: what the processes it collected had run
  mixed,      \* history: it merged a .gcda file with another's or a used .gcno file
  covphase,   \* "new", "idle", "measuring" or "reported"
  runs        \* number of executions

gcovVars == <<build, gcno, hal_names, hal, mem, trace, ran, coverage_dict, merged, measured,
              mixed, covphase, runs>>
-----------------------------------------------------------------------------
(* The .gcno file: functions with their blocks, arcs and lines.            *)
NoFunction == [ident |-> 0, src |-> "", blocks |-> 0, arcs |-> <<>>, lines |-> <<>>]

(* GCNOParser.Parse keeps a function when the next one begins. *)
Kept(p) == IF p.func.ident = 0 THEN p.functions ELSE (p.func.ident :> p.func) @@ p.functions

ReadFunction(p, r) ==
  [functions |-> Kept(p), func |-> [NoFunction EXCEPT !.ident = r.ident, !.src = r.src]]
ReadBlocks(p, r) ==
  [p EXCEPT !.func.blocks = @ + r.n, !.func.lines = [b \in 0..(r.n - 1) |-> <<>>]]
NewArc(src, dst, flags) ==
  [src |-> src, dst |-> dst, flags |-> flags, resolved |-> FALSE, count |-> 0, exits |-> TRUE]
ReadArcs(p, r) ==
  [p EXCEPT !.func.arcs = @ \o [i \in 1..Len(r.arcs) |-> NewArc(r.src, r.arcs[i].dst, r.arcs[i].flags)]]
ReadLines(p, r) == [p EXCEPT !.func.lines[r.block] = SelectSeq(r.lines, LAMBDA l : l # 0)]

ReadRecord(p, r) ==
  CASE r.tag = "function" -> ReadFunction(p, r)
    [] r.tag = "blocks"   -> ReadBlocks(p, r)
    [] r.tag = "arcs"     -> ReadArcs(p, r)
    [] r.tag = "lines"    -> ReadLines(p, r)

(* Parse: a file without a function, or one that ends within a record, is  *)
(* refused; a file that ends between two records is not.                   *)
ParseGcno(g) ==
  LET p == FoldLeft(ReadRecord, [functions |-> <<>>, func |-> NoFunction], g.records)
  IN [ok |-> g.whole /\ p.func.ident # 0, functions |-> Kept(p)]
-----------------------------------------------------------------------------
(* Counts.  Arcs of a function are named by their position.                *)
ArcIds(func) == DOMAIN func.arcs
Entry(func, b) == {i \in ArcIds(func) : func.arcs[i].dst = b}
Exit(func, b) == {i \in ArcIds(func) : func.arcs[i].src = b /\ func.arcs[i].exits}
Flow(func, S) == MapThenSumSet(LAMBDA i : func.arcs[i].count, S)
Known(func, S) == \A i \in S : func.arcs[i].resolved
Counted(arc) == arc.flags \cap {"fake", "on_tree"} = {}

Solved(func, i, count) == [func EXCEPT !.arcs[i].count = count, !.arcs[i].resolved = TRUE]

(* ArcSummary.Resolve: the set of results, empty if it returns False.      *)
ResolveArc(func, i) ==
  LET arc == func.arcs[i]
      into == Entry(func, arc.src)
      beside == Exit(func, arc.src) \ {i}
      out == Exit(func, arc.dst)
      along == Entry(func, arc.dst) \ {i}
  IN IF "fake" \in arc.flags /\ "fallthrough" \notin arc.flags
     THEN {[func EXCEPT !.arcs[i].exits = FALSE]}
     ELSE IF into # {} /\ Known(func, into \cup beside)
     THEN {Solved(func, i, Flow(func, into) - Flow(func, beside))}
     ELSE IF out # {} /\ Known(func, out \cup along)
     THEN {Solved(func, i, Flow(func, out) - Flow(func, along))}
     ELSE {}

(* FunctionSummary.Resolve, its first loop: index and prev are as there.   *)
RECURSIVE ResolveArcs(_, _, _, _)
ResolveArcs(func, unresolved, index, prev) ==
  IF unresolved = <<>> THEN {func}
  ELSE LET n == Len(unresolved)
           at == index % n
           res == ResolveArc(func, unresolved[at + 1])
       IN IF at = 0 /\ n = prev THEN {}
          ELSE IF res = {} THEN ResolveArcs(func, unresolved, at + 1, n)
          ELSE ResolveArcs(CHOOSE r \in res : TRUE, RemoveAt(unresolved, at + 1), at, n)

ResolveFunction(func) ==
  LET open == SelectSeq([i \in ArcIds(func) |-> i],
                        LAMBDA i : func.arcs[i].exits /\ ~func.arcs[i].resolved)
  IN ResolveArcs(func, open, 0, Len(open) + 1)

BlockCount(func, b) ==
  Flow(func, IF Entry(func, b) # {} THEN Entry(func, b) ELSE Exit(func, b))

(* GCDAParser.ReadCounts: the counts go to the instrumented arcs in order. *)
ReadCounts(func, counts) ==
  LET at(i) == Cardinality({j \in 1..i : Counted(func.arcs[j]) /\ func.arcs[j].exits})
  IN [func EXCEPT !.arcs = [i \in ArcIds(func) |->
        IF Counted(@[i]) /\ @[i].exits /\ at(i) <= Len(counts)
        THEN [@[i] EXCEPT !.count = counts[at(i)], !.resolved = TRUE] ELSE @[i]]]

(* GCDAParser.Parse into a summary, function by function.  A function that *)
(* the summary lacks is a KeyError, one whose counts do not resolve a      *)
(* FileFormatError; what was read before stays in the summary.             *)
ReadGcdaFunction(s, c) ==
  IF s.error # "" THEN s
  ELSE IF c.ident \notin DOMAIN s.functions THEN [s EXCEPT !.error = "key"]
  ELSE LET func == ReadCounts(s.functions[c.ident], c.counts)
           res == ResolveFunction(func)
       IN IF res = {} THEN [functions |-> [s.functions EXCEPT ![c.ident] = func], error |-> "format"]
          ELSE [s EXCEPT !.functions[c.ident] = CHOOSE r \in res : TRUE]
ParseGcda(functions, gcda) ==
  FoldLeft(ReadGcdaFunction, [functions |-> functions, error |-> ""], gcda.counts)
-----------------------------------------------------------------------------
(* GenerateLineCoverageVector: a line has the sum of the counts of its     *)
(* blocks, or -1 if it has none.                                           *)
AddLine(vec, line, count) ==
  LET longer == vec \o [i \in 1..(IF line > Len(vec) THEN line - Len(vec) ELSE 0) |-> -1]
  IN [longer EXCEPT ![line] = (IF @ < 0 THEN 0 ELSE @) + count]

AddFunction(vec, func) ==
  LET AddBlock(v, b) == FoldLeft(LAMBDA w, l : AddLine(w, l, BlockCount(func, b)), v, func.lines[b])
  IN FoldLeft(AddBlock, vec, [b \in 1..func.blocks |-> b - 1])

GenerateLineCoverageVector(functions, dict) ==
  LET Add(d, ident) ==
        LET f == functions[ident]
            old == IF f.src \in DOMAIN d THEN d[f.src] ELSE <<>>
        IN IF f.src \in Excluded THEN d ELSE (f.src :> AddFunction(old, f)) @@ d
  IN FoldLeft(Add, dict, SetToSeq(DOMAIN functions))

(* GetCoverageStats: lines instrumented and lines covered. *)
GetCoverageStats(vec) ==
  <<Cardinality({i \in DOMAIN vec : vec[i] >= 0}), Cardinality({i \in DOMAIN vec : vec[i] > 0})>>
-----------------------------------------------------------------------------
(* _GetChecksumGcnoDict: the files with a checksum, in archive order.      *)
GcnosOf(checksum) == SelectSeq([g \in DOMAIN build |-> g], LAMBDA g : build[g].checksum = checksum)

(* _FindGcnoSummary: the first whose source matches the path, else the     *)
(* last one parsed; a file that cannot be parsed ends the search.          *)
_FindGcnoSummary(gcda) ==
  LET gs == GcnosOf(gcda.checksum)
      bad == {k \in DOMAIN gs : ~gcno[gs[k]].ok}
      tried == {k \in DOMAIN gs : \A b \in bad : k < b}
      functions(k) == gcno[gs[k]].functions
      match == {k \in tried : \E i \in DOMAIN functions(k) : functions(k)[i].src = gcda.path}
  IN IF match # {} THEN {gs[Min(match)]} ELSE IF tried # {} THEN {gs[Max(tried)]} ELSE {}

(* The file that a flush writes for a .gcno file. *)
FunctionsIn(g) == gcno[g].functions
GcdaFile(g, counts) ==
  LET idents == SetToSeq(DOMAIN FunctionsIn(g))
      arcs(k) == SelectSeq([i \in DOMAIN counts[g][idents[k]] |-> i],
                           LAMBDA i : Counted(FunctionsIn(g)[idents[k]].arcs[i]))
  IN [checksum |-> build[g].checksum, path |-> build[g].path, of |-> g,
      counts |-> [k \in DOMAIN idents |->
        [ident |-> idents[k], counts |-> [i \in DOMAIN arcs(k) |-> counts[g][idents[k]][arcs(k)[i]]]]]]

(* _AutoProcess: the .gcda files one after the other.  A parsed .gcno file *)
(* keeps its summary, with the counts in it, for the next .gcda file.      *)
_AutoProcess(gcdas) ==
  LET Step(s, gcda) ==
        LET g == _FindGcnoSummary(gcda)
            n == CHOOSE x \in g : TRUE
            res == ParseGcda(IF n \in DOMAIN s.summary THEN s.summary[n] ELSE FunctionsIn(n), gcda)
        IN IF s.raised \/ g = {} THEN s
           ELSE [summary |-> (n :> res.functions) @@ s.summary,
                 mixed |-> s.mixed \/ n \in DOMAIN s.summary \/ n # gcda.of,
                 raised |-> res.error = "key",
                 merged |-> IF res.error = "" THEN s.merged \cup {n} ELSE s.merged,
                 dict |-> IF res.error = "" THEN GenerateLineCoverageVector(res.functions, s.dict)
                          ELSE s.dict]
  IN FoldLeft(Step, [summary |-> <<>>, dict |-> <<>>, merged |-> {}, mixed |-> FALSE, raised |-> FALSE],
              gcdas)
-----------------------------------------------------------------------------
(* AddCoverageReport: the vector of a source file with its two counts; files without *)
(* git information are left out.                                                     *)
AddCoverageReport(vec) ==
  [vector |-> vec, total |-> GetCoverageStats(vec)[1], covered |-> GetCoverageStats(vec)[2]]
Reported(dict) == [src \in DOMAIN dict \cap InProject |-> AddCoverageReport(dict[src])]

Zero == [g \in DOMAIN build |-> [k \in DOMAIN FunctionsIn(g) |-> [i \in ArcIds(FunctionsIn(g)[k]) |-> 0]]]
Plus(c, d) ==
  [g \in DOMAIN c |-> [k \in DOMAIN c[g] |-> [i \in DOMAIN c[g][k] |-> c[g][k][i] + d[g][k][i]]]]
Clean == [p \in {0} \cup Pids |-> Zero]

GcovInit ==
  /\ build = <<>> /\ gcno = <<>> /\ hal_names = FALSE /\ hal = 1 /\ mem = Clean /\ trace = <<>>
  /\ ran = Clean /\ coverage_dict = <<>> /\ merged = {} /\ measured = Zero /\ mixed = FALSE
  /\ covphase = "new" /\ runs = 0

(* A module with coverage enabled: the feature is made for the build under test, and *)
(* a HAL test tells it the names of its HALs (SetHalNames).                          *)
EnableCoverage ==
  /\ covphase = "new" /\ covphase' = "idle"
  /\ build' \in Builds /\ gcno' = [g \in DOMAIN build' |-> ParseGcno(build'[g])]
  /\ hal_names' \in BOOLEAN
  /\ mem' = Clean' /\ ran' = Clean' /\ measured' = Zero'
  /\ UNCHANGED <<hal, trace, coverage_dict, merged, mixed, runs>>

(* The processes run instrumented code, also before the measurement.       *)
Execute(p) ==
  /\ covphase \in {"idle", "measuring"} /\ runs < MaxExecutions /\ runs' = runs + 1 /\ p \in {0, hal}
  /\ \E g \in Loaded(p) \cap DOMAIN build : \E k \in DOMAIN FunctionsIn(g) :
       \E path \in Paths(FunctionsIn(g)[k]) :
         LET Run(c) == [c EXCEPT ![p][g][k] = [i \in DOMAIN @ |-> IF i \in path THEN @[i] + 1 ELSE @[i]]]
         IN mem' = Run(mem) /\ ran' = Run(ran)
  /\ UNCHANGED <<build, gcno, hal_names, hal, trace, coverage_dict, merged, measured, mixed, covphase>>

(* The HAL's process is killed, and init starts it again. *)
HalRestarts ==
  /\ covphase = "measuring" /\ hal + 1 \in Pids /\ hal' = hal + 1
  /\ mem' = [mem EXCEPT ![hal] = Zero] /\ ran' = [ran EXCEPT ![hal] = Zero]
  /\ UNCHANGED <<build, gcno, hal_names, trace, coverage_dict, merged, measured, mixed, covphase, runs>>

(* A flush adds the counts in memory to the files of the process. *)
Flushed ==
  LET at(p) == IF p \in DOMAIN trace THEN Plus(trace[p], mem[p]) ELSE mem[p]
  IN (0 :> at(0)) @@ (hal :> at(hal)) @@ trace
FlushedMem == [mem EXCEPT ![0] = Zero, ![hal] = Zero]

(* _GetHalPids: the present process of the HAL. *)
_GetHalPids == IF hal_names THEN {hal} ELSE {}
(* A process that is killed: init starts the HAL again.  *)
Killed(pids) == IF hal \in pids THEN hal' = hal + 1 ELSE UNCHANGED hal
(* _ClearTargetGcov: all .gcda files are removed. *)
_ClearTargetGcov == trace' = <<>>

(* The files are removed, and then the processes flush into new ones. *)
ClearsFirst ==
  /\ covphase = "idle" /\ covphase' = "measuring"
  /\ trace' = (0 :> mem[0]) @@ (hal :> mem[hal])
  /\ Killed(_GetHalPids)
  /\ mem' = FlushedMem /\ ran' = Clean
  /\ UNCHANGED <<build, gcno, hal_names, coverage_dict, merged, measured, mixed, runs>>

(* InitializeDeviceCoverage: flush, remove the files, and kill the HAL so  *)
(* that its initialization is measured too.                                *)
InitializeDeviceCoverage ==
  /\ covphase = "idle" /\ covphase' = "measuring"
  /\ _ClearTargetGcov /\ mem' = FlushedMem /\ ran' = Clean
  /\ Killed(_GetHalPids)
  /\ UNCHANGED <<build, gcno, hal_names, coverage_dict, merged, measured, mixed, runs>>

(* _GetGcdaDict: the files after a flush; with HAL names, only those of    *)
(* the HAL's present process and of the test.                              *)
Collected == IF hal_names THEN {0} \cup _GetHalPids ELSE DOMAIN Flushed
_GetGcdaDict ==
  {GcdaFile(g, Flushed[p]) : <<g, p>> \in {x \in (DOMAIN build) \X Collected : x[1] \in Loaded(x[2])}}

(* SetCoverageData: the files are pulled, removed from the device, and     *)
(* processed in any order.                                                 *)
SetCoverageData ==
  /\ covphase = "measuring" /\ covphase' = "reported"
  /\ \E order \in SetToSeqs(_GetGcdaDict) :
       LET s == _AutoProcess(order)
       IN /\ coverage_dict' = IF s.raised THEN <<>> ELSE Reported(s.dict)
          /\ merged' = s.merged /\ mixed' = s.mixed
  /\ measured' = FoldSet(LAMBDA p, c : Plus(c, ran[p]), Zero, Collected)
  /\ _ClearTargetGcov /\ mem' = FlushedMem
  /\ UNCHANGED <<build, gcno, hal_names, hal, ran, runs>>

GcovNext ==
  \/ \E p \in {0} \cup Pids : Execute(p)
  \/ EnableCoverage \/ HalRestarts \/ InitializeDeviceCoverage \/ SetCoverageData

GcovSpec == GcovInit /\ [][GcovNext]_gcovVars
-----------------------------------------------------------------------------
(* How often a block ran, and how often the lines of a source file did:    *)
(* the blocks of a line, each as often as the line is named in it.         *)
BlockRuns(g, k, b) ==
  LET f == FunctionsIn(g)[k]
      arcs == IF Entry(f, b) # {} THEN Entry(f, b) ELSE Exit(f, b)
  IN MapThenSumSet(LAMBDA i : measured[g][k][i], arcs)
BlocksOf(src) ==
  {x \in UNION {{<<g, k, b>> : b \in 0..FunctionsIn(g)[k].blocks - 1} :
                  <<g, k>> \in UNION {{g} \X (DOMAIN FunctionsIn(g)) : g \in merged}} :
     FunctionsIn(x[1])[x[2]].src = src}
Mentions(x, line) == {n \in DOMAIN FunctionsIn(x[1])[x[2]].lines[x[3]] :
                        FunctionsIn(x[1])[x[2]].lines[x[3]][n] = line}
LineRuns(src, line) ==
  LET blocks == {x \in BlocksOf(src) : Mentions(x, line) # {}}
  IN IF blocks = {} THEN -1
     ELSE MapThenSumSet(LAMBDA x : Cardinality(Mentions(x, line)) * BlockRuns(x[1], x[2], x[3]), blocks)

(* A reported vector has, for every line, the number of times that it ran  *)
(* in the collected processes since InitializeDeviceCoverage: no count of  *)
(* an arc is invented, lost or left over from before, whichever arcs were  *)
(* instrumented; and the number of covered lines beside it is the number   *)
(* of lines that ran.  (When two .gcda files are merged with one .gcno     *)
(* file the counts are wrong: see the README.)                             *)
LinesCountExecutions ==
  ~mixed => \A src \in DOMAIN coverage_dict :
    LET r == coverage_dict[src]
    IN /\ \A line \in DOMAIN r.vector : r.vector[line] = LineRuns(src, line)
       /\ r.covered = Cardinality({line \in DOMAIN r.vector : LineRuns(src, line) > 0})

(* "True if the counts could be resolved and False otherwise": a function  *)
(* whose arcs off the spanning tree are counted always could be resolved   *)
(* (FunctionSummary.Resolve), so no .gcda file is refused.                 *)
ResolvableIsResolved ==
  covphase = "reported" /\ ~mixed /\ (\A g \in DOMAIN build : build[g].whole)
    => \A g \in DOMAIN build : g \in merged
=============================================================================
