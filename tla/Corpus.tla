------------------------------- MODULE Corpus -------------------------------
(***************************************************************************)
(* The fuzzing corpus that hosts share in a cloud storage bucket           *)
(* (utils/python/fuzzer/corpus_manager.py, utils/python/gcs/               *)
(* gcs_api_utils.py), for one fuzz test of one build and device model.     *)
(*                                                                         *)
(* A blob is <<kind, number, name>>: kind and number stand for its prefix  *)
(* (corpus_seed_01 is <<"corpus_seed", 1>>, the temporary directory of run *)
(* r is <<"incoming", r>>) and the name of a corpus string is the hash of  *)
(* its content.  Every request to the bucket is a step of its own, and a   *)
(* rename is two: the blob is copied, then the old one is deleted.         *)
(***************************************************************************)
EXTENDS Integers, Sequences, FiniteSets

CONSTANTS
  Hosts,        \* machines that fuzz the same test
  Strings,      \* names of corpus strings
  RepeatTimes,  \* REPEAT_TIMES
  MaxTries,     \* tries to move a seed, 10 in _FetchCorpusSeedFromPriority
  MaxRuns,      \* bound: fuzzer runs of all hosts, one fewer without generations of seeds
  MaxDeaths     \* bound: hosts that die in a run

ASSUME CorpusBounds == RepeatTimes \in Nat /\ MaxTries \in Nat /\ MaxRuns \in Nat /\ MaxDeaths \in Nat

VARIABLES
  algorithm,    \* SCHEDULING_ALGORITHM; 0 before the module is loaded
  bucket,       \* set of blobs
  host,         \* [Hosts -> record]: pc, run, seed, level, tries, stages, left, crash
  move,         \* [Hosts -> [src, dst, copied]]; src = dst when no blob is moved
  fuzzruns, deaths,
  uploaded,     \* history: corpus strings that were uploaded
  returned,     \* history: seeds that InuseToDest gave back to corpus_seed
  overlapped    \* history: two hosts were between add_lock and remove_lock

corpusVars == <<algorithm, bucket, host, move, fuzzruns, deaths, uploaded, returned, overlapped>>

Seed == <<"corpus_seed", 0>>
Lock == <<"corpus_lock", 0>>
CORPUS_STATES ==
  {"corpus_seed_high", "corpus_seed", "corpus_seed_low", "corpus_inuse", "corpus_complete",
   "corpus_crash", "corpus_error", "corpus_trigger"} \X {0}
NoBlob == <<"none", 0, "none">>
NoMove == [src |-> NoBlob, dst |-> NoBlob, copied |-> FALSE]
IdleHost == [pc |-> "idle", run |-> 0, seed |-> "none", level |-> 1, tries |-> 0, stages |-> <<>>,
             left |-> {}, crash |-> FALSE]

CorpusInit ==
  /\ algorithm = 0 /\ bucket = {} /\ host = [h \in Hosts |-> IdleHost]
  /\ move = [h \in Hosts |-> NoMove] /\ fuzzruns = 0 /\ deaths = 0 /\ uploaded = {} /\ returned = {} /\ overlapped = FALSE

(* _GetDirPaths and _GetFilePaths: the path of a name under a prefix.      *)
Dir(b) == <<b[1], b[2]>>
Path(dir, n) == <<dir[1], dir[2], n>>
(* ListFilesWithPrefix: without strict, the prefix corpus_seed is also one *)
(* of corpus_seed_01, corpus_seed_high and corpus_seed_low.                *)
ListFilesWithPrefix(dir, strict) ==
  {b \in bucket : Dir(b) = dir
     \/ (~strict /\ b[1] \in {"corpus_seed", "corpus_seed_high", "corpus_seed_low"})}
PrefixExists(dir) == ListFilesWithPrefix(dir, TRUE) # {}

Set(h, r) == host' = [host EXCEPT ![h] = r]
MoveFile(h, src, dst) == move' = [move EXCEPT ![h] = [src |-> src, dst |-> dst, copied |-> FALSE]]

Deploy ==
  /\ algorithm = 0 /\ algorithm' \in 1..3
  /\ UNCHANGED <<bucket, host, move, fuzzruns, deaths, uploaded, returned, overlapped>>
-----------------------------------------------------------------------------
(* The directories that FetchCorpusSeed looks into, in order.              *)
CORPUS_PRIORITIES ==
  IF algorithm = 1 THEN <<Seed>>
  ELSE <<<<"corpus_seed_high", 0>>, Seed, <<"corpus_seed_low", 0>>>>

(* FetchCorpusSeed of a new run: with a lock there is no run.              *)
FetchCorpusSeed(h) ==
  /\ algorithm # 0 /\ host[h].pc = "idle" /\ fuzzruns < (IF algorithm = 3 THEN MaxRuns ELSE MaxRuns - 1) /\ fuzzruns' = fuzzruns + 1
  /\ algorithm = 3 => ~PrefixExists(Lock)
  /\ Set(h, [IdleHost EXCEPT !.run = fuzzruns + 1, !.pc = IF algorithm = 3 THEN "lock" ELSE "list"])
  /\ UNCHANGED <<algorithm, bucket, move, deaths, uploaded, returned, overlapped>>

(* add_lock and _FetchCorpusSeedDirectory, which leaves the seeds there.   *)
InSession == {"locked", "upload", "classify", "stage", "unlock"}
add_lock(h) ==
  /\ host[h].pc = "lock" /\ Set(h, [host[h] EXCEPT !.pc = "locked"])
  /\ bucket' = bucket \cup {Path(Lock, h)}
  /\ overlapped' = (overlapped \/ \E g \in Hosts \ {h} : host[g].pc \in InSession)
  /\ UNCHANGED <<algorithm, move, fuzzruns, deaths, uploaded, returned>>

(* _FetchCorpusSeedFromPriority: any seed of the directory is moved to     *)
(* corpus_inuse; an empty directory, or too many tries, and the next       *)
(* priority is looked at, or the test starts without a seed.               *)
ListSeeds(h) ==
  LET p == host[h]
      seeds == ListFilesWithPrefix(CORPUS_PRIORITIES[p.level], TRUE)
  IN /\ p.pc = "list"
     /\ IF seeds = {} \/ p.tries = MaxTries
        THEN /\ Set(h, IF p.level < Len(CORPUS_PRIORITIES)
                       THEN [p EXCEPT !.level = @ + 1, !.tries = 0] ELSE [p EXCEPT !.pc = "locked"])
             /\ UNCHANGED move
        ELSE \E s \in seeds : MoveFile(h, s, Path(<<"corpus_inuse", 0>>, s[3])) /\ Set(h, [p EXCEPT !.pc = "moveseed"])
     /\ UNCHANGED <<algorithm, bucket, fuzzruns, deaths, uploaded, returned, overlapped>>

(* The seed that was moved is downloaded; when this fails another one is   *)
(* tried and the first stays in use.                                       *)
DownloadFile(h) ==
  /\ host[h].pc = "download"
  /\ \/ Set(h, [host[h] EXCEPT !.pc = "locked"])
     \/ Set(h, [host[h] EXCEPT !.pc = "list", !.seed = "none"])
  /\ UNCHANGED <<algorithm, bucket, move, fuzzruns, deaths, uploaded, returned, overlapped>>

(* What follows a move: a seed that is in use now, or one more try; in     *)
(* _ClassifyPriority the result is not looked at.                          *)
Moved(h, done) ==
  LET p == host[h]
  IN Set(h, IF p.pc # "moveseed" THEN p
            ELSE IF done THEN [p EXCEPT !.pc = "download", !.seed = move[h].dst[3]]
            ELSE [p EXCEPT !.pc = "list", !.tries = @ + 1])

(* The old blob is deleted before it is copied. *)
DeletesFirst(h) ==
  /\ move[h] # NoMove
  /\ IF move[h].src \in bucket
     THEN IF move[h].copied
          THEN bucket' = bucket \cup {move[h].dst} /\ Moved(h, TRUE) /\ move' = [move EXCEPT ![h] = NoMove]
          ELSE bucket' = bucket \ {move[h].src} /\ move' = [move EXCEPT ![h].copied = TRUE] /\ UNCHANGED host
     ELSE Moved(h, FALSE) /\ move' = [move EXCEPT ![h] = NoMove] /\ UNCHANGED bucket
  /\ UNCHANGED <<algorithm, fuzzruns, deaths, uploaded, returned, overlapped>>

(* bucket.rename_blob in MoveFile: copies, then deletes; either fails when *)
(* the blob is no longer there.                                            *)
rename_blob(h) ==
  /\ move[h] # NoMove
  /\ IF move[h].src \in bucket
     THEN IF move[h].copied
          THEN bucket' = bucket \ {move[h].src} /\ Moved(h, TRUE) /\ move' = [move EXCEPT ![h] = NoMove]
          ELSE bucket' = bucket \cup {move[h].dst} /\ move' = [move EXCEPT ![h].copied = TRUE] /\ UNCHANGED host
     ELSE Moved(h, FALSE) /\ move' = [move EXCEPT ![h] = NoMove] /\ UNCHANGED bucket
  /\ UNCHANGED <<algorithm, fuzzruns, deaths, uploaded, returned, overlapped>>
-----------------------------------------------------------------------------
(* The fuzzer ran.  InuseToDest moves its seed on, if there was one.       *)
RunFuzzer(h) ==
  /\ host[h].pc = "locked"
  /\ \E crash \in BOOLEAN : Set(h, [host[h] EXCEPT !.pc = "upload", !.crash = crash])
  /\ LET s == <<"corpus_inuse", 0, host[h].seed>>
     IN IF s \notin bucket THEN UNCHANGED <<move, returned>>
        ELSE \E d \in {"corpus_seed", "corpus_complete", "corpus_crash", "corpus_error"} :
               /\ MoveFile(h, s, <<d, 0, s[3]>>)
               /\ returned' = IF d = "corpus_seed" THEN returned \cup {s[3]} ELSE returned
  /\ UNCHANGED <<algorithm, bucket, fuzzruns, deaths, uploaded, overlapped>>

(* The branch of _ClassifyPriority3: the first generation that has no blob, *)
(* the last one if all have.                                               *)
Generation ==
  LET free == {i \in 1..(RepeatTimes - 1) : ~PrefixExists(<<"corpus_seed", i>>)}
  IN IF free = {} THEN RepeatTimes - 1 ELSE CHOOSE i \in free : \A j \in free : i <= j

(* The directories that _ClassifyPriority moves, one after the other; only *)
(* stages 1 and 2 look for duplicates.                                     *)
Stage(from, to, strict) == [from |-> from, to |-> to, strict |-> strict]
_ClassifyPriority(p) ==
  LET incoming == <<"incoming", p.run>>
      complete == <<"corpus_complete", 0>>
  IN CASE algorithm = 1 -> <<Stage(incoming, Seed, TRUE)>>
       [] algorithm = 2 -> <<Stage(incoming, IF p.crash THEN <<"corpus_seed_high", 0>> ELSE Seed, TRUE)>>
       [] algorithm = 3 /\ Generation < RepeatTimes - 1 ->
            <<Stage(Seed, <<"corpus_seed", Generation>>, TRUE), Stage(incoming, Seed, TRUE)>>
       [] OTHER -> <<Stage(Seed, complete, FALSE), Stage(incoming, complete, TRUE)>>

(* UploadCorpusOutDir: without an output directory nothing is done, and a  *)
(* lock stays.                                                             *)
UploadCorpusOutDir(h) ==
  LET p == host[h]
  IN /\ p.pc = "upload" /\ move[h] = NoMove
     /\ \/ /\ Set(h, IdleHost) /\ UNCHANGED <<bucket, uploaded>>
        \/ \E out \in SUBSET Strings :
             /\ bucket' = bucket \cup {Path(<<"incoming", p.run>>, n) : n \in out}
             /\ uploaded' = uploaded \cup out
             /\ Set(h, [p EXCEPT !.pc = "classify"])
     /\ UNCHANGED <<algorithm, move, fuzzruns, deaths, returned, overlapped>>

(* The generation is looked up, and each directory is listed before its    *)
(* blobs are moved.                                                        *)
ListStage(h) ==
  LET p == host[h]
      stages == IF p.pc = "classify" THEN _ClassifyPriority(p) ELSE Tail(p.stages)
  IN /\ p.pc = "classify" \/ (p.pc = "stage" /\ p.left = {} /\ move[h] = NoMove)
     /\ Set(h, IF stages = <<>> THEN [p EXCEPT !.pc = "unlock"]
               ELSE [p EXCEPT !.pc = "stage", !.stages = stages,
                              !.left = ListFilesWithPrefix(Head(stages).from, Head(stages).strict)])
     /\ UNCHANGED <<algorithm, bucket, move, fuzzruns, deaths, uploaded, returned, overlapped>>

(* _CorpusIsDuplicate. *)
_CorpusIsDuplicate(b) == \E d \in CORPUS_STATES : Path(d, b[3]) \in bucket

(* One blob of the list: a duplicate is deleted, any other is moved.       *)
ClassifyBlob(h) ==
  LET p == host[h]
  IN /\ p.pc = "stage" /\ move[h] = NoMove
     /\ \E b \in p.left :
          /\ Set(h, [p EXCEPT !.left = @ \ {b}])
          /\ IF algorithm # 3 /\ _CorpusIsDuplicate(b)
             THEN bucket' = bucket \ {b} /\ UNCHANGED move
             ELSE MoveFile(h, b, Path(Head(p.stages).to, b[3])) /\ UNCHANGED bucket
     /\ UNCHANGED <<algorithm, fuzzruns, deaths, uploaded, returned, overlapped>>

(* _UploadTriggeredCorpus, remove_lock and _UploadCorpusMeasure.           *)
remove_lock(h) ==
  /\ host[h].pc = "unlock" /\ Set(h, IdleHost)
  /\ bucket' = (bucket \ (IF algorithm = 3 THEN {Path(Lock, h)} ELSE {}))
                 \cup (IF algorithm # 1 /\ host[h].crash THEN {<<"corpus_trigger", 0, "crash_report">>} ELSE {})
  /\ UNCHANGED <<algorithm, move, fuzzruns, deaths, uploaded, returned, overlapped>>

(* The host is switched off in a run; it starts again with nothing.        *)
HostDies(h) ==
  /\ host[h].pc # "idle" /\ deaths < MaxDeaths /\ deaths' = deaths + 1
  /\ Set(h, IdleHost) /\ move' = [move EXCEPT ![h] = NoMove]
  /\ UNCHANGED <<algorithm, bucket, fuzzruns, uploaded, returned, overlapped>>

CorpusNext ==
  \/ Deploy
  \/ \E h \in Hosts :
       \/ FetchCorpusSeed(h) \/ add_lock(h) \/ ListSeeds(h) \/ DownloadFile(h) \/ rename_blob(h)
       \/ RunFuzzer(h) \/ UploadCorpusOutDir(h) \/ ListStage(h) \/ ClassifyBlob(h) \/ remove_lock(h)
       \/ HostDies(h)

CorpusSpec == CorpusInit /\ [][CorpusNext]_corpusVars
-----------------------------------------------------------------------------
(* No corpus string that reached the bucket is lost: whatever the hosts do *)
(* at the same time and wherever one of them dies, it has a path.  (A seed *)
(* that is given back to corpus_seed can be lost: the move to corpus_seed  *)
(* and the next host's move to corpus_inuse each delete the other's copy,  *)
(* see the README.)                                                        *)
CorpusIsKept == \A n \in uploaded \ returned : \E b \in bucket : b[3] = n

(* A fuzzing session of the third algorithm is in order as long as no two  *)
(* hosts got past the lock together: between two runs the generations are  *)
(* numbered without a gap, so that the next run finds the right one, and   *)
(* an empty seed directory is followed by a new session.                   *)
SessionsInOrder ==
  algorithm = 3 /\ ~overlapped /\ deaths = 0 /\ (\A h \in Hosts : host[h].pc = "idle") =>
    \A i \in 2..RepeatTimes : PrefixExists(<<"corpus_seed", i>>) =>
      i < RepeatTimes - 1 /\ PrefixExists(<<"corpus_seed", i - 1>>)

(* The bucket keeps the strings, and the sessions their order. *)
CorpusIsInOrder == CorpusIsKept /\ SessionsInOrder
=============================================================================
