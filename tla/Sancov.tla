------------------------------- MODULE Sancov -------------------------------
(***************************************************************************)
(* Sanitizer coverage of HAL processes (utils/python/coverage/             *)
(* sancov_utils.py and sancov_parser.py).  The processes of the HALs under *)
(* test are restarted with coverage on; in the end they are flushed, their *)
(* .sancov files are pulled and removed, and the covered addresses are     *)
(* counted on the source lines that the unstripped binaries name.          *)
(*                                                                         *)
(* A .sancov file is [hal, binary, pid, bitness, offsets]; an entry        *)
(* of symbols.zip is [binary, bitness, lines, addr]: the executable lines  *)
(* <<file, line>> in its debug information and the line of every offset    *)
(* that can be symbolized.  A bitness of 0 stands for a search path of     *)
(* programs, which takes either.  In a vector, -1 stands for -1 and -2: no *)
(* executable line.                                                        *)
(***************************************************************************)
EXTENDS Integers, Sequences, SequencesExt, FiniteSets, FiniteSetsExt, Functions, TLC

CONSTANTS
  Symbols,      \* symbols.zip: sequence of entries, in the order of the search paths
  HalBinaries,  \* [HALs -> [binary, bitness, offsets that its code has]]
  HalOrder,     \* the HALs under test, in order
  ExcludedFiles,\* source files under the excluded paths
  MaxRestarts   \* bound: crashes of HAL processes

VARIABLES
  sanphase,     \* "start", "measure", "flushed" or "processed"
  alive,        \* [HALs -> pid, or 0 if lshal shows no process]
  covering,     \* HALs whose process runs with coverage
  covered,      \* [HALs -> offsets covered by the present process]
  sancov,       \* .sancov files on the device
  file_vectors, \* function from files to functions from lines to counts
  used,         \* history: entries of Symbols that were counted, with their offsets
  restarts

sancovVars == <<sanphase, alive, covering, covered, sancov, file_vectors, used, restarts>>
SanHals == Range(HalOrder)

SancovInit ==
  /\ sanphase = "start" /\ alive = [h \in SanHals |-> 1] /\ covering = {}
  /\ covered = [h \in SanHals |-> {}] /\ sancov = {} /\ file_vectors = <<>> /\ used = {} /\ restarts = 0

FileOf(h) ==
  [hal |-> h, binary |-> HalBinaries[h].binary, pid |-> alive[h], bitness |-> HalBinaries[h].bitness,
   offsets |-> covered[h]]

(* InitializeDeviceCoverage: the first HAL without a process ends it; a    *)
(* command that fails (bad) leaves its HAL as it was.                      *)
InitializeSancov ==
  LET reached == {i \in DOMAIN HalOrder : \A j \in 1..i : alive[HalOrder[j]] # 0}
  IN /\ sanphase = "start" /\ sanphase' = "measure"
     /\ \E bad \in SUBSET {HalOrder[i] : i \in reached} :
          LET on == {HalOrder[i] : i \in reached} \ bad
          IN /\ covering' = on
             /\ alive' = [h \in SanHals |-> IF h \in on THEN alive[h] + 1 ELSE alive[h]]
             /\ covered' = [h \in SanHals |-> IF h \in on THEN {} ELSE covered[h]]
     /\ UNCHANGED <<sancov, file_vectors, used, restarts>>

(* The HAL runs code; it crashes and is started again, or stays away.  A   *)
(* crash dumps nothing.                                                    *)
CoverCode(h) ==
  /\ sanphase \in {"start", "measure"} /\ alive[h] # 0
  /\ \E o \in HalBinaries[h].offsets \ covered[h] : covered' = [covered EXCEPT ![h] = @ \cup {o}]
  /\ UNCHANGED <<sanphase, alive, covering, sancov, file_vectors, used, restarts>>
HalExits(h) ==
  /\ sanphase \in {"start", "measure"} /\ alive[h] # 0 /\ restarts < MaxRestarts /\ restarts' = restarts + 1
  /\ \E pid \in {0, alive[h] + 1}, dumps \in BOOLEAN :
       /\ alive' = [alive EXCEPT ![h] = pid]
       /\ sancov' = IF dumps /\ h \in covering THEN sancov \cup {FileOf(h)} ELSE sancov
  /\ covered' = [covered EXCEPT ![h] = {}]
  /\ UNCHANGED <<sanphase, covering, file_vectors, used>>

(* FlushDeviceCoverage. *)
FlushDeviceCoverage ==
  /\ sanphase = "measure" /\ sanphase' = "flushed"
  /\ sancov' = sancov \cup {FileOf(h) : h \in {g \in covering : alive[g] # 0}}
  /\ UNCHANGED <<alive, covering, covered, file_vectors, used, restarts>>
-----------------------------------------------------------------------------
(* _InitializeFileVectors: the executable lines of the binary are set to   *)
(* 0, whatever they were.                                                  *)
_InitializeFileVectors(vectors, entry) ==
  LET files == {l[1] : l \in entry.lines} \ ExcludedFiles
      lines(f) == {l[2] : l \in {m \in entry.lines : m[1] = f}}
      old(f) == IF f \in DOMAIN vectors THEN vectors[f] ELSE <<>>
  IN [f \in files |-> [n \in 1..Max(lines(f) \cup DOMAIN old(f)) |->
        IF n \in lines(f) THEN 0 ELSE IF n \in DOMAIN old(f) THEN old(f)[n] ELSE -1]] @@ vectors

(* A negative entry is not set to 0 before it is counted up. *)
CountsFromNegative(vector, line) ==
  LET long == [n \in 1..Max({line, Len(vector)}) |-> IF n \in DOMAIN vector THEN vector[n] ELSE -1]
  IN [long EXCEPT ![line] = @ + 1]

(* One symbolized line is counted. *)
CountLine(vector, line) ==
  LET long == [n \in 1..Max({line, Len(vector)}) |-> IF n \in DOMAIN vector THEN vector[n] ELSE -1]
  IN [long EXCEPT ![line] = (IF @ < 0 THEN 0 ELSE @) + 1]

(* _UpdateLineCounts: lines of files that were not initialized are passed  *)
(* over.                                                                   *)
_UpdateLineCounts(vectors, entry, offsets) ==
  FoldSet(LAMBDA o, v : LET at == entry.addr[o]
                        IN IF at[1] \in DOMAIN v THEN [v EXCEPT ![at[1]] = CountLine(@, at[2])] ELSE v,
          vectors, offsets \cap DOMAIN entry.addr)

(* ProcessDeviceCoverage: of the files of one binary the last one counts;  *)
(* the first symbols that fit are used, and the files are removed.         *)
ProcessDeviceCoverage ==
  /\ sanphase = "flushed" /\ sanphase' = "processed" /\ sancov' = {}
  /\ \E last \in {F \in SUBSET sancov : \A b \in {f.binary : f \in sancov} :
                                          Cardinality({f \in F : f.binary = b}) = 1} :
       LET fits(e, f) == e.binary = f.binary /\ e.bitness \in {0, f.bitness}
           Step(s, e) ==
             LET F == {f \in s.left : fits(e, f)}
                 f == CHOOSE g \in F : TRUE
             IN IF F = {} THEN s
                ELSE [left |-> s.left \ F, used |-> s.used \cup {[entry |-> e, offsets |-> f.offsets]},
                      vectors |-> _UpdateLineCounts(_InitializeFileVectors(s.vectors, e), e, f.offsets)]
           res == FoldLeft(Step, [left |-> last, used |-> {}, vectors |-> file_vectors], Symbols)
       IN file_vectors' = res.vectors /\ used' = res.used
  /\ UNCHANGED <<alive, covering, covered, restarts>>

SancovNext ==
  \/ InitializeSancov \/ FlushDeviceCoverage \/ ProcessDeviceCoverage
  \/ \E h \in SanHals : CoverCode(h) \/ HalExits(h)

SancovSpec == SancovInit /\ [][SancovNext]_sancovVars
-----------------------------------------------------------------------------
(* The used symbols with lines of a file, and their covered addresses on   *)
(* one of its lines.                                                       *)
Sharing(f) == {u \in used : \E l \in u.entry.lines \cup Range(u.entry.addr) : l[1] = f}
On(u, f, n) == {o \in u.offsets \cap DOMAIN u.entry.addr : u.entry.addr[o] = <<f, n>>}

(* A line of the report has as many counts as the pulled files cover       *)
(* addresses on it, and is executable if a count or the debug information  *)
(* says so.  (A file that two binaries share loses the counts of the       *)
(* first: _InitializeFileVectors resets them, see the README.)             *)
LinesCountAddresses ==
  sanphase = "processed" =>
    \A f \in DOMAIN file_vectors : Cardinality(Sharing(f)) = 1 =>
      \A n \in DOMAIN file_vectors[f] : \A u \in Sharing(f) :
        file_vectors[f][n] = IF On(u, f, n) # {} THEN Cardinality(On(u, f, n))
                             ELSE IF <<f, n>> \in u.entry.lines THEN 0 ELSE -1
=============================================================================
