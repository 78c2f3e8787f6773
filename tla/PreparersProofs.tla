--------------------------- MODULE PreparersProofs ---------------------------
(***************************************************************************)
(* Proofs about Preparers: for any plan of preparers that begins with      *)
(* VtsDevicePreparer, any options and any device, an undisturbed run       *)
(* leaves the device as it found it. The invariant follows each thing that *)
(* a preparer changes through the plan: as it was before the setUp of its  *)
(* preparer, saved during it, put back after its tearDown; every step of   *)
(* another preparer leaves it alone because it does not pass that          *)
(* preparer.                                                               *)
(***************************************************************************)
EXTENDS Preparers, TLAPS

SelinuxModes == {"Enforcing", "Permissive", "Disabled"}
PushedFiles == {"vts_coverage_configure"} \cup TraceFiles
DeviceRecords ==
  [root : BOOLEAN, framework : BOOLEAN, radio : [{"new", "old"} -> {"null", "0", "1"}],
   selinux : SelinuxModes, files : SUBSET PushedFiles, adapted : BOOLEAN, sims : Nat \ {0}]
OptionRecords ==
  [root : {"none", "enable", "disable"}, framework : {"none", "start", "stop"}, radio : BOOLEAN,
   restore : SUBSET {"root", "framework", "radio"}, bootRoot : BOOLEAN, local : BOOLEAN]
SavedRecords ==
  [framework : BOOLEAN, root : BOOLEAN, radioLog : {"UNKNOWN", "ENABLED", "DISABLED", "NOT_AVAILABLE"},
   property : {"new", "old"}, rebootSetup : BOOLEAN, rebootTearDown : BOOLEAN,
   coverage : SelinuxModes \cup {"null"}, infoPath : {"null", "temp", "local"},
   trace : SelinuxModes \cup {"null"}, commands : BOOLEAN, sims : Nat]
PhasesOfPlan == {"setUp", "test", "tearDown", "done"}
Positions == 1..Len(Plan)
Failures == {"none", "device", "setup"}
AtRecords == [phase : PhasesOfPlan, pos : Positions, step : Nat \ {0}, e : Failures, moves : Nat]
HistoryRecords ==
  [initial : DeviceRecords, lost : BOOLEAN, refused : BOOLEAN, rebooted : BOOLEAN,
   unrestored : BOOLEAN, unread : BOOLEAN]

AtOk(a) == a \in AtRecords /\ (a.phase = "test" => a.pos = Len(Plan) /\ a.step = 1)
(* The device, the files on the host, what the preparers have saved and    *)
(* where the plan is.                                                      *)
PreparerTypes ==
  /\ options \in OptionRecords /\ device \in DeviceRecords /\ host \in SUBSET {"temp", "local"}
  /\ saved \in SavedRecords /\ AtOk(at) /\ history \in HistoryRecords

(* VtsDevicePreparer, the first of the plan, is at most at step k of its   *)
(* setUp.                                                                  *)
Early(a, k) == a.phase = "setUp" /\ a.pos = 1 /\ a.step <= k
(* VtsDevicePreparer is at least at step k of its tearDown.                *)
Late(a, k) == a.phase = "done" \/ (a.phase = "tearDown" /\ a.pos = 1 /\ a.step >= k)
(* Preparer p has not returned from its setUp.                             *)
Ahead(a, p) == \A i \in 1..Len(Plan) : Plan[i] = p => a.phase = "setUp" /\ a.pos <= i
(* Preparer p has not begun its setUp.                                     *)
Before(a, p) == \A i \in 1..Len(Plan) : Plan[i] = p => a.phase = "setUp" /\ a.pos < i
(* Preparer p has ended its tearDown.                                      *)
Past(a, p) == \A i \in 1..Len(Plan) :
                Plan[i] = p => a.phase = "done" \/ (a.phase = "tearDown" /\ a.pos < i)

(* Root: as it was, then saved, then put back.                             *)
RootOk(o, d, s, a, h) ==
  /\ Early(a, 1) => d.root = h.initial.root
  /\ ~Early(a, 1) /\ "root" \in o.restore => s.root = h.initial.root
  /\ Late(a, 4) /\ "root" \in o.restore => d.root = s.root
(* The framework, in the same way, at later steps.                         *)
FrameworkOk(o, d, s, a, h) ==
  /\ Early(a, 3) => d.framework = h.initial.framework
  /\ ~Early(a, 3) /\ "framework" \in o.restore => s.framework = h.initial.framework
  /\ Late(a, 5) /\ "framework" \in o.restore => d.framework = s.framework
LogState(v) == IF v = "1" THEN "ENABLED" ELSE "DISABLED"
(* The radio log, on a device with the new property.                       *)
RadioOk(o, d, s, a, h) ==
  h.initial.radio["new"] # "null" =>
    /\ s.property = "new" /\ d.radio["new"] # "null" /\ d.radio["old"] = h.initial.radio["old"]
    /\ Early(a, 2) => d.radio["new"] = h.initial.radio["new"]
    /\ ~Early(a, 2) /\ "radio" \in o.restore => s.radioLog = LogState(h.initial.radio["new"])
    /\ Late(a, 2) /\ "radio" \in o.restore => d.radio["new"] = h.initial.radio["new"]

(* VtsMultiSimPreparer has saved the number of SIMs when it may have       *)
(* changed it.                                                             *)
SimOk(d, s, a, h) ==
  /\ Ahead(a, "sim") => s.sims = 0
  /\ s.sims = 0 => d.sims = h.initial.sims
  /\ ~h.unread /\ s.sims # 0 => s.sims = h.initial.sims
  /\ ~h.unread /\ s.sims # 0 /\ Past(a, "sim") => d.sims = s.sims

(* The files of the coverage and trace preparers are there only between    *)
(* their setUp and tearDown, and the temporary directory only when it is   *)
(* remembered.                                                             *)
PushedOk(o, d, dirs, s, a) ==
  /\ "temp" \in dirs => s.infoPath = "temp" /\ ~o.local
  /\ Before(a, "coverage") \/ Past(a, "coverage") => "vts_coverage_configure" \notin d.files /\ "temp" \notin dirs
  /\ Before(a, "trace") \/ Past(a, "trace") => d.files \cap TraceFiles = {}

AdapterStep3(a) == a.phase = "setUp" /\ Plan[a.pos] = "adapter" /\ a.step <= 3
AdapterStarted(a) == a.phase = "setUp" /\ Plan[a.pos] = "adapter" /\ a.step >= 3
AdapterStopped(a) == a.phase = "tearDown" /\ Plan[a.pos] = "adapter" /\ a.step >= 2
(* VtsHalAdapterPreparer: an adapter that runs has the command that stops  *)
(* it.                                                                     *)
HalOk(d, s, a, h) ==
  /\ d.adapted => s.commands
  /\ Before(a, "adapter") \/ AdapterStep3(a) => ~d.adapted
  /\ AdapterStarted(a) => s.commands
  /\ ~h.unrestored /\ (Past(a, "adapter") \/ AdapterStopped(a)) => ~d.adapted

(* VtsMultiSimPreparer, which may reboot the device, is set up after the   *)
(* preparers that make SELinux permissive.                                 *)
SimInside ==
  \A i, j \in 1..Len(Plan) : Plan[i] \in {"coverage", "trace"} /\ Plan[j] = "sim" => i < j
(* Preparer p comes before o in the plan.                                  *)
Outside(p, o) == \E i, j \in 1..Len(Plan) : i < j /\ Plan[i] = p /\ Plan[j] = o
Other(p) == IF p = "coverage" THEN "trace" ELSE "coverage"
Keepers == {"coverage", "trace"}
(* Preparer p has saved a mode, and the other saved none or saved its own  *)
(* later.                                                                  *)
Outermost(s, p) == s[p] # "null" /\ (s[Other(p)] = "null" \/ Outside(p, Other(p)))
(* Whether SELinux is disabled is the same on the device and in what was   *)
(* saved.                                                                  *)
DisabledOk(d, s, a, h) ==
  /\ h.initial.selinux = "Disabled" <=> d.selinux = "Disabled"
  /\ \A p \in Keepers : Ahead(a, p) => s[p] = "null"
  /\ \A p \in Keepers : s[p] # "null" => (s[p] = "Disabled" <=> d.selinux = "Disabled")
(* The outermost saved mode is that before the plan, and it is put back;   *)
(* with nothing saved, only a boot changes the mode.                       *)
ModesOk(d, s, a, h) ==
  SimInside /\ ~s.rebootSetup /\ ~s.rebootTearDown =>
    /\ a.phase = "setUp" /\ Ahead(a, "sim") => ~h.rebooted
    /\ s.coverage = "null" /\ s.trace = "null" => d.selinux = h.initial.selinux \/ h.rebooted
    /\ \A p \in Keepers : Outermost(s, p) =>
         /\ s[p] = h.initial.selinux
         /\ Past(a, p) => d.selinux = h.initial.selinux

(* What the preparers keep while nothing disturbs them.                    *)
AsItShouldBe ==
  /\ at.e # "device"
  /\ RootOk(options, device, saved, at, history) /\ FrameworkOk(options, device, saved, at, history)
  /\ RadioOk(options, device, saved, at, history)
  /\ SimOk(device, saved, at, history) /\ PushedOk(options, device, host, saved, at)
  /\ HalOk(device, saved, at, history)
  /\ DisabledOk(device, saved, at, history) /\ ModesOk(device, saved, at, history)
(* The inductive invariant behind FeaturesRestored and PlanIsUndone.       *)
PreparersInv == PreparerTypes /\ (Undisturbed => AsItShouldBe)
-----------------------------------------------------------------------------
(* The next step of the same preparer.                                     *)
Stays(a, b) == b.phase = a.phase /\ b.pos = a.pos /\ b.step = a.step + 1 /\ b.e = a.e
(* A setUp or tearDown returns: the plan goes on.                          *)
Returned(a, b) ==
  /\ b.e = a.e
  /\ \/ a.phase = "setUp" /\ a.pos < Len(Plan) /\ b.phase = "setUp" /\ b.pos = a.pos + 1 /\ b.step = 1
     \/ a.phase = "setUp" /\ a.pos = Len(Plan) /\ b.phase = "test" /\ b.pos = a.pos /\ b.step = 1
     \/ a.phase = "tearDown" /\ a.pos > 1 /\ b.phase = "tearDown" /\ b.pos = a.pos - 1 /\ b.step = 1
     \/ a.phase = "tearDown" /\ a.pos = 1 /\ b.phase = "done" /\ b.pos = a.pos /\ b.step = 1
(* A setUp throws: the plan is torn down.                                  *)
Aborted(a, b) ==
  a.phase = "setUp" /\ b.phase = "tearDown" /\ b.pos \in {a.pos, Len(Plan)} /\ b.step = 1
(* The test goes on, or the plan is torn down.                             *)
Tested(a, b) ==
  /\ a.phase = "test" /\ a.pos = Len(Plan) /\ b.pos = a.pos /\ b.e = a.e
  /\ b.phase \in {"test", "tearDown"} /\ b.step = 1

(* The move of the plan from a to b does not pass preparer p.              *)
Apart(a, b, p) ==
  /\ Ahead(b, p) => Ahead(a, p)
  /\ Before(b, p) => Before(a, p)
  /\ Past(b, p) => Past(a, p) \/ Before(a, p)
ApartAll(a, b) == \A p : Apart(a, b, p)
(* The move is none within VtsDevicePreparer's steps that save or restore. *)
FarFromDevice(a, b) == ~Early(a, 3) /\ ~Early(b, 3) /\ ~Late(b, 2)
(* The move is none within VtsHalAdapterPreparer.                          *)
HalApart(a, b) ==
  /\ Apart(a, b, "adapter")
  /\ b.phase = "setUp" /\ Plan[b.pos] = "adapter" => Before(a, "adapter") /\ b.step = 1
  /\ b.phase = "tearDown" /\ Plan[b.pos] = "adapter" => b.step = 1
(* The plan is at the first step of a preparer.                            *)
IsAt(b, ph, p, e) == b \in AtRecords /\ b.phase = ph /\ b.pos = p /\ b.step = 1 /\ b.e = e
StillSetUp(a, b) == b.phase = "setUp" => a.phase = "setUp"

LEMMA PlanFacts ==
  /\ Len(Plan) \in Nat /\ 1 <= Len(Plan) /\ Plan[1] = "device"
  /\ \A i, j \in 1..Len(Plan) : Plan[i] = Plan[j] => i = j
BY PlanAssumption

LEMMA BeforeIsAhead ==
  ASSUME NEW a, AtOk(a), NEW p, Before(a, p)
  PROVE  Ahead(a, p)
<1>1. a.pos \in Nat
  BY DEF AtOk, AtRecords, Positions
<1> SUFFICES ASSUME NEW i \in 1..Len(Plan), Plan[i] = p
             PROVE  a.phase = "setUp" /\ a.pos <= i
  BY Zenon DEF Ahead
<1>2. a.phase = "setUp" /\ a.pos < i
  BY Zenon DEF Before
<1> QED
  BY <1>1, <1>2

LEMMA NextStepIs ==
  ASSUME AtOk(at), at.phase \in {"setUp", "tearDown"}
  PROVE  AtOk(NextStep) /\ Stays(at, NextStep)
<1>1. at \in AtRecords
  BY Zenon DEF AtOk
<1>2. NextStep \in AtRecords
  BY <1>1 DEF NextStep, AtRecords
<1>3. Stays(at, NextStep)
  BY <1>1 DEF NextStep, AtRecords, Stays
<1>4. "setUp" # "test" /\ "tearDown" # "test"
  OBVIOUS
<1> QED
  BY <1>2, <1>3, <1>4, Zenon DEF AtOk, Stays

LEMMA AtUpdate ==
  ASSUME NEW a \in AtRecords, NEW ph \in PhasesOfPlan, NEW p \in Positions, NEW e \in Failures, NEW m \in Nat,
         NEW b, b = [a EXCEPT !.phase = ph, !.pos = p, !.step = 1, !.e = e, !.moves = m]
  PROVE  IsAt(b, ph, p, e)
<1>1. 1 \in Nat \ {0}
  OBVIOUS
<1> PICK steps, one : steps = Nat \ {0} /\ one = 1
  OBVIOUS
<1>2. b = [a EXCEPT !.phase = ph, !.pos = p, !.step = one, !.e = e, !.moves = m] /\ one \in steps
  BY <1>1, Zenon
<1>3. AtRecords = [phase : PhasesOfPlan, pos : Positions, step : steps, e : Failures, moves : Nat]
  BY Zenon DEF AtRecords
<1>4. b \in AtRecords /\ b.phase = ph /\ b.pos = p /\ b.step = 1 /\ b.e = e
  BY <1>2, <1>3
<1> QED
  BY <1>4, Zenon DEF IsAt

(* What Return makes of the place in the plan.                             *)
LEMMA ReturnIs ==
  ASSUME AtOk(at), at.phase \in {"setUp", "tearDown"}
  PROVE  AtOk(Return) /\ Returned(at, Return)
<1>1. at \in AtRecords /\ Len(Plan) \in Nat
  BY PlanFacts, Zenon DEF AtOk
<1>2. /\ at.pos \in Positions /\ at.step \in Nat \ {0} /\ at.e \in Failures /\ at.moves \in Nat /\ at.phase \in PhasesOfPlan
  BY <1>1 DEF AtRecords
<1>p. at.pos \in 1..Len(Plan)
  BY <1>2 DEF Positions
<1>a. "setUp" \in PhasesOfPlan /\ "test" \in PhasesOfPlan /\ "tearDown" \in PhasesOfPlan /\ "done" \in PhasesOfPlan
  BY DEF PhasesOfPlan
<1> PICK r : r = Return
  BY Zenon
<1> SUFFICES AtOk(r) /\ Returned(at, r)
  BY Zenon
<1>3. CASE at.phase = "setUp" /\ at.pos < Len(Plan)
  <2> PICK p : p = at.pos + 1
    OBVIOUS
  <2>0. p \in Positions /\ at.pos # Len(Plan) /\ at.phase # "tearDown"
    BY <1>1, <1>p, <1>3 DEF Positions
  <2>1. r = [at EXCEPT !.pos = at.pos + 1, !.step = 1]
    BY <1>3, <2>0, Zenon DEF Return
  <2>2. r = [at EXCEPT !.phase = at.phase, !.pos = p, !.step = 1, !.e = at.e, !.moves = at.moves]
    BY <1>1, <2>1 DEF AtRecords
  <2>3. IsAt(r, "setUp", p, at.e)
    BY <1>1, <1>2, <1>3, <2>0, <2>2, AtUpdate, ZenonT(40)
  <2> QED
    BY <1>3, <2>3 DEF AtOk, Returned, IsAt
<1>4. CASE at.phase = "setUp" /\ at.pos = Len(Plan)
  <2>0. ~(at.pos < Len(Plan))
    BY <1>1, <1>4
  <2>1. r = [at EXCEPT !.phase = "test", !.step = 1]
    BY <1>4, <2>0, Zenon DEF Return
  <2>2. r = [at EXCEPT !.phase = "test", !.pos = at.pos, !.step = 1, !.e = at.e, !.moves = at.moves]
    BY <1>1, <2>1 DEF AtRecords
  <2>3. IsAt(r, "test", at.pos, at.e)
    BY <1>1, <1>2, <1>a, <2>2, AtUpdate, Zenon
  <2> QED
    BY <1>4, <2>3 DEF AtOk, Returned, IsAt
<1>5. CASE at.phase = "tearDown" /\ at.pos > 1
  <2> PICK p : p = at.pos - 1
    OBVIOUS
  <2>0. p \in Positions /\ at.phase # "setUp"
    BY <1>1, <1>p, <1>5 DEF Positions
  <2>1. r = [at EXCEPT !.pos = at.pos - 1, !.step = 1]
    BY <1>5, <2>0, Zenon DEF Return
  <2>2. r = [at EXCEPT !.phase = at.phase, !.pos = p, !.step = 1, !.e = at.e, !.moves = at.moves]
    BY <1>1, <2>1 DEF AtRecords
  <2>3. IsAt(r, "tearDown", p, at.e)
    BY <1>1, <1>2, <1>5, <2>0, <2>2, AtUpdate, ZenonT(40)
  <2> QED
    BY <1>5, <2>3 DEF AtOk, Returned, IsAt
<1>6. CASE at.phase = "tearDown" /\ at.pos = 1
  <2>0. at.phase # "setUp" /\ ~(at.pos > 1)
    BY <1>6
  <2>1. r = [at EXCEPT !.phase = "done", !.step = 1]
    BY <1>6, <2>0, Zenon DEF Return
  <2>2. r = [at EXCEPT !.phase = "done", !.pos = at.pos, !.step = 1, !.e = at.e, !.moves = at.moves]
    BY <1>1, <2>1 DEF AtRecords
  <2>3. IsAt(r, "done", at.pos, at.e)
    BY <1>1, <1>2, <1>a, <2>2, AtUpdate, Zenon
  <2> QED
    BY <1>6, <2>3 DEF AtOk, Returned, IsAt
<1>7. \/ at.phase = "setUp" /\ at.pos < Len(Plan)
      \/ at.phase = "setUp" /\ at.pos = Len(Plan)
      \/ at.phase = "tearDown" /\ at.pos > 1
      \/ at.phase = "tearDown" /\ at.pos = 1
  BY <1>1, <1>p
<1> QED
  BY <1>3, <1>4, <1>5, <1>6, <1>7, Zenon

(* What an exception in a setUp makes of it.                               *)
LEMMA AbortIs ==
  ASSUME AtOk(at), at.phase = "setUp", NEW e \in {"device", "setup"}, Abort(e)
  PROVE  AtOk(at') /\ Aborted(at, at') /\ at'.e = e
<1>1. at \in AtRecords /\ Len(Plan) \in Positions /\ e \in Failures /\ "tearDown" \in PhasesOfPlan
  BY PlanFacts DEF AtOk, Positions, Failures, PhasesOfPlan
<1>2. PICK p \in {at.pos, Len(Plan)} : at' = [at EXCEPT !.phase = "tearDown", !.pos = p, !.step = 1, !.e = e]
  BY Zenon DEF Abort
<1>3. p \in Positions /\ at.moves \in Nat
  BY <1>1 DEF AtRecords
<1>4. at' = [at EXCEPT !.phase = "tearDown", !.pos = p, !.step = 1, !.e = e, !.moves = at.moves]
  BY <1>1, <1>2 DEF AtRecords
<1>5. IsAt(at', "tearDown", p, e)
  BY <1>1, <1>3, <1>4, AtUpdate, Zenon
<1> QED
  BY <1>5 DEF AtOk, Aborted, IsAt

LEMMA StaysApart ==
  ASSUME NEW a, NEW b, Stays(a, b)
  PROVE  ApartAll(a, b) /\ StillSetUp(a, b)
BY Zenon DEF Stays, ApartAll, Apart, Ahead, Before, Past, StillSetUp

LEMMA ReturnedApart ==
  ASSUME NEW a, AtOk(a), NEW b, AtOk(b), Returned(a, b), NEW p, p # Plan[a.pos] \/ a.phase = "setUp"
  PROVE  Apart(a, b, p) /\ StillSetUp(a, b)
<1>1. a.pos \in 1..Len(Plan) /\ Len(Plan) \in Nat
  BY PlanFacts DEF AtOk, AtRecords, Positions
<1>2. CASE a.phase = "setUp" /\ b.phase = "setUp" /\ b.pos = a.pos + 1
  BY <1>1, <1>2 DEF Apart, Ahead, Before, Past, StillSetUp
<1>3. CASE a.phase = "setUp" /\ b.phase = "test"
  BY <1>3, SMT DEF Apart, Ahead, Before, Past, StillSetUp
<1>4. CASE a.phase = "tearDown" /\ b.phase = "tearDown" /\ b.pos = a.pos - 1
  <2>1. Past(b, p) => Past(a, p)
    <3> SUFFICES ASSUME Past(b, p), NEW i \in 1..Len(Plan), Plan[i] = p
                 PROVE  a.pos < i
      BY <1>4 DEF Past
    <3>1. b.pos < i
      BY <1>4 DEF Past
    <3>2. i # a.pos
      BY <1>4
    <3> QED
      BY <1>1, <1>4, <3>1, <3>2
  <2> QED
    BY <1>4, <2>1 DEF Apart, Ahead, Before, StillSetUp
<1>5. CASE a.phase = "tearDown" /\ a.pos = 1 /\ b.phase = "done"
  <2>1. Past(b, p) => Past(a, p)
    <3> SUFFICES ASSUME Past(b, p), NEW i \in 1..Len(Plan), Plan[i] = p
                 PROVE  a.pos < i
      BY <1>5 DEF Past
    <3>2. i # a.pos
      BY <1>5
    <3> QED
      BY <1>1, <1>5, <3>2
  <2> QED
    BY <1>5, <2>1 DEF Apart, Ahead, Before, StillSetUp
<1> QED
  BY <1>2, <1>3, <1>4, <1>5, Zenon DEF Returned

LEMMA AbortedApart ==
  ASSUME NEW a, AtOk(a), NEW b, Aborted(a, b)
  PROVE  ApartAll(a, b) /\ StillSetUp(a, b)
<1>1. a.pos \in 1..Len(Plan) /\ Len(Plan) \in Nat
  BY PlanFacts DEF AtOk, AtRecords, Positions
<1>2. /\ a.phase = "setUp" /\ b.phase = "tearDown" /\ b.phase # "setUp" /\ b.phase # "done"
      /\ b.pos \in Nat /\ a.pos <= b.pos
  BY <1>1 DEF Aborted
<1> SUFFICES ASSUME NEW p
             PROVE  Apart(a, b, p)
  BY <1>2, Zenon DEF ApartAll, StillSetUp
<1>3. Past(b, p) => Before(a, p)
  <2> SUFFICES ASSUME Past(b, p), NEW i \in 1..Len(Plan), Plan[i] = p
               PROVE  a.pos < i
    BY <1>2, Zenon DEF Before
  <2>1. b.pos < i
    BY <1>2, Zenon DEF Past
  <2> QED
    BY <1>1, <1>2, <2>1
<1> QED
  BY <1>2, <1>3, Zenon DEF Apart, Ahead, Before

LEMMA TestedApart ==
  ASSUME NEW a, NEW b, Tested(a, b)
  PROVE  ApartAll(a, b) /\ StillSetUp(a, b)
<1>1. /\ b.phase # "setUp" /\ b.phase # "done" /\ a.pos = Len(Plan) /\ b.pos = a.pos
  BY DEF Tested
<1> SUFFICES ASSUME NEW p
             PROVE  Apart(a, b, p)
  BY <1>1, Zenon DEF ApartAll, StillSetUp
<1>2. Past(b, p) => Past(a, p)
  <2> SUFFICES ASSUME Past(b, p), NEW i \in 1..Len(Plan), Plan[i] = p
               PROVE  FALSE
    BY Zenon DEF Past
  <2>1. b.pos < i
    BY <1>1, Zenon DEF Past
  <2> QED
    BY <1>1, <2>1, PlanFacts
<1> QED
  BY <1>1, <1>2, Zenon DEF Apart, Ahead, Before
-----------------------------------------------------------------------------
Others(a, b, q) ==
  StillSetUp(a, b) /\ (\A p : p # q => Apart(a, b, p)) /\ (q # "adapter" => HalApart(a, b))

(* A step of preparer q passes no other preparer.                          *)
LEMMA MovesApart ==
  ASSUME NEW a, AtOk(a), NEW b, AtOk(b), a.phase \in {"setUp", "tearDown"},
         Stays(a, b) \/ Returned(a, b) \/ Aborted(a, b)
  PROVE  Others(a, b, Plan[a.pos]) /\ (a.phase = "setUp" \/ Stays(a, b) => ApartAll(a, b))
<1> PICK q : q = Plan[a.pos]
  OBVIOUS
<1>1. StillSetUp(a, b) /\ \A p : p # q => Apart(a, b, p)
  BY StaysApart, ReturnedApart, AbortedApart, Zenon DEF ApartAll
<1>2. a.phase = "setUp" \/ Stays(a, b) => ApartAll(a, b)
  BY StaysApart, ReturnedApart, AbortedApart, Zenon DEF ApartAll
<1>3. a.pos \in 1..Len(Plan) /\ Len(Plan) \in Nat
  BY PlanFacts DEF AtOk, AtRecords, Positions
<1>4. ASSUME q # "adapter"
      PROVE  HalApart(a, b)
  <2>1. Apart(a, b, "adapter")
    BY <1>1, <1>4, Zenon
  <2>2. CASE Stays(a, b)
    BY <1>4, <2>1, <2>2, Zenon DEF HalApart, Stays
  <2>3. CASE Aborted(a, b)
    <3>1. b.phase = "tearDown" /\ b.phase # "setUp" /\ b.step = 1
      BY <2>3 DEF Aborted
    <3> QED
      BY <2>1, <3>1, Zenon DEF HalApart
  <2>4. CASE Returned(a, b)
    <3>1. b.step = 1
      BY <2>4, Zenon DEF Returned
    <3>2. ASSUME b.phase = "setUp", Plan[b.pos] = "adapter"
          PROVE  Before(a, "adapter")
      <4>1. a.phase = "setUp" /\ b.pos = a.pos + 1 /\ a.pos < Len(Plan)
        BY <2>4, <3>2 DEF Returned
      <4> SUFFICES ASSUME NEW i \in 1..Len(Plan), Plan[i] = "adapter"
                   PROVE  a.pos < i
        BY <4>1, Zenon DEF Before
      <4>2. b.pos \in 1..Len(Plan)
        BY <1>3, <4>1
      <4>3. i = b.pos
        BY <3>2, <4>2, PlanFacts, Zenon
      <4> QED
        BY <1>3, <4>1, <4>3
    <3> QED
      BY <2>1, <3>1, <3>2, Zenon DEF HalApart
  <2> QED
    BY <2>2, <2>3, <2>4
<1> QED
  BY <1>1, <1>2, <1>4, Zenon DEF Others

LEMMA FarMoves ==
  ASSUME NEW a, AtOk(a), NEW b, AtOk(b), a.phase \in {"setUp", "tearDown"}, Plan[a.pos] # "device",
         Stays(a, b) \/ Returned(a, b) \/ Aborted(a, b)
  PROVE  FarFromDevice(a, b)
<1>1. a.pos \in 1..Len(Plan) /\ Len(Plan) \in Nat /\ a.pos # 1
  BY PlanFacts DEF AtOk, AtRecords, Positions
<1>2. ~Early(a, 3)
  BY <1>1, Zenon DEF Early
<1>3. CASE Stays(a, b)
  <2>1. b.pos # 1 /\ b.phase # "done"
    BY <1>1, <1>3 DEF Stays
  <2> QED
    BY <1>2, <2>1, Zenon DEF FarFromDevice, Early, Late
<1>4. CASE Returned(a, b)
  <2>1. b.phase # "done" /\ b.step = 1 /\ ~(b.step >= 2) /\ (b.phase = "setUp" => b.pos # 1)
    BY <1>1, <1>4 DEF Returned
  <2> QED
    BY <1>2, <2>1, Zenon DEF FarFromDevice, Early, Late
<1>5. CASE Aborted(a, b)
  <2>1. b.phase # "done" /\ b.phase # "setUp" /\ ~(b.step >= 2)
    BY <1>5 DEF Aborted
  <2> QED
    BY <1>2, <2>1, Zenon DEF FarFromDevice, Early, Late
<1> QED
  BY <1>3, <1>4, <1>5

LEMMA TestedFar ==
  ASSUME NEW a, NEW b, Tested(a, b)
  PROVE  FarFromDevice(a, b) /\ Others(a, b, "test")
<1>1. a.phase # "setUp" /\ b.phase # "setUp" /\ b.phase # "done" /\ b.step = 1 /\ ~(b.step >= 2)
  BY DEF Tested
<1>2. ApartAll(a, b) /\ StillSetUp(a, b)
  BY TestedApart, Zenon
<1> QED
  BY <1>1, <1>2, Zenon DEF FarFromDevice, Early, Late, Others, HalApart, ApartAll

(* The pushed files are left alone by a step that does not pass their      *)
(* preparers.                                                              *)
LEMMA PushedSame ==
  ASSUME NEW o, NEW d, NEW s, NEW dirs, NEW a, PushedOk(o, d, dirs, s, a), NEW d2, NEW s2, NEW b,
         d2.files = d.files, s2.infoPath = s.infoPath, Apart(a, b, "coverage"), Apart(a, b, "trace")
  PROVE  PushedOk(o, d2, dirs, s2, b)
BY Zenon DEF PushedOk, Apart

(* So are the adapters.                                                    *)
LEMMA HalSame ==
  ASSUME NEW d, NEW s, NEW a, NEW h, HalOk(d, s, a, h), NEW d2, NEW s2, NEW b, NEW h2,
         d2.adapted => d.adapted, s2.commands = s.commands, h.unrestored => h2.unrestored, HalApart(a, b)
  PROVE  HalOk(d2, s2, b, h2)
<1>1. ~(1 >= 2) /\ ~(1 >= 3)
  OBVIOUS
<1>2. ~AdapterStarted(b) /\ ~AdapterStopped(b)
  BY <1>1, Zenon DEF HalApart, AdapterStarted, AdapterStopped
<1>3. Before(b, "adapter") \/ AdapterStep3(b) => Before(a, "adapter")
  BY Zenon DEF HalApart, Apart, AdapterStep3
<1>4. Past(b, "adapter") => Past(a, "adapter") \/ Before(a, "adapter")
  BY Zenon DEF HalApart, Apart
<1>5. Before(a, "adapter") => ~d.adapted
  BY Zenon DEF HalOk
<1>6. ~h.unrestored /\ Past(a, "adapter") => ~d.adapted
  BY Zenon DEF HalOk
<1>7. d.adapted => s.commands
  BY Zenon DEF HalOk
<1> QED
  BY <1>2, <1>3, <1>4, <1>5, <1>6, <1>7, Zenon DEF HalOk

KeepersApart(a, b) == \A p \in Keepers : Apart(a, b, p)
SameKeepers(s, s2) == s2.coverage = s.coverage /\ s2.trace = s.trace

LEMMA KeeperIs ==
  /\ Keepers = {"coverage", "trace"} /\ Other("coverage") = "trace" /\ Other("trace") = "coverage"
  /\ \A p \in Keepers : Other(p) \in Keepers /\ Other(p) # p
BY DEF Keepers, Other

LEMMA KeepersSame ==
  ASSUME NEW s, NEW s2, SameKeepers(s, s2)
  PROVE  (\A p \in Keepers : s2[p] = s[p]) /\ (\A p \in Keepers : Outermost(s2, p) <=> Outermost(s, p))
<1>1. \A p \in Keepers : s2[p] = s[p]
  BY Zenon DEF Keepers, SameKeepers
<1> QED
  BY <1>1, KeeperIs, Zenon DEF Outermost

(* So is whether SELinux is enabled.                                       *)
LEMMA DisabledSame ==
  ASSUME NEW d, NEW s, NEW a, NEW h, DisabledOk(d, s, a, h), NEW d2, NEW s2, NEW b, NEW h2,
         d2.selinux = "Disabled" <=> d.selinux = "Disabled", SameKeepers(s, s2), h2.initial = h.initial,
         KeepersApart(a, b)
  PROVE  DisabledOk(d2, s2, b, h2)
<1>1. \A p \in Keepers : s2[p] = s[p]
  BY KeepersSame, Zenon
<1>2. \A p \in Keepers : Ahead(b, p) => Ahead(a, p)
  BY Zenon DEF KeepersApart, Apart
<1>3. \A p \in Keepers : s2[p] # "null" => (s2[p] = "Disabled" <=> d2.selinux = "Disabled")
  BY <1>1 DEF DisabledOk
<1>4. \A p \in Keepers : Ahead(b, p) => s2[p] = "null"
  BY <1>1, <1>2, Zenon DEF DisabledOk
<1>5. h2.initial.selinux = "Disabled" <=> d2.selinux = "Disabled"
  BY DEF DisabledOk
<1> QED
  BY <1>3, <1>4, <1>5, Zenon DEF DisabledOk

(* So are the saved modes.                                                 *)
LEMMA ModesSame ==
  ASSUME NEW d, NEW s, NEW a, AtOk(a), NEW h, DisabledOk(d, s, a, h), ModesOk(d, s, a, h),
         NEW d2, NEW s2, NEW b, NEW h2,
         d2.selinux = d.selinux, SameKeepers(s, s2), h2.initial = h.initial, h2.rebooted = h.rebooted,
         s.rebootSetup => s2.rebootSetup, s.rebootTearDown => s2.rebootTearDown,
         KeepersApart(a, b), b.phase = "setUp" => Apart(a, b, "sim"), StillSetUp(a, b)
  PROVE  ModesOk(d2, s2, b, h2)
<1>1. s2.coverage = s.coverage /\ s2.trace = s.trace /\ \A p \in Keepers : s2[p] = s[p] /\ (Outermost(s2, p) <=> Outermost(s, p))
  BY KeepersSame, Zenon DEF SameKeepers
<1>2. \A p \in Keepers : Outermost(s, p) => ~Before(a, p)
  BY BeforeIsAhead, Zenon DEF DisabledOk, Outermost
<1>3. \A p \in Keepers : Past(b, p) => Past(a, p) \/ Before(a, p)
  BY Zenon DEF KeepersApart, Apart
<1>4. b.phase = "setUp" /\ Ahead(b, "sim") => a.phase = "setUp" /\ Ahead(a, "sim")
  BY Zenon DEF StillSetUp, Apart
<1> QED
  BY <1>1, <1>2, <1>3, <1>4, Zenon DEF ModesOk

(* The step leaves root, framework and radio log to VtsDevicePreparer.     *)
SameFeatures(d, s, d2, s2) ==
  /\ d.radio["new"] # "null" => d2.radio["new"] # "null"
  /\ d2.radio["old"] = d.radio["old"] /\ s2.root = s.root /\ s2.framework = s.framework
  /\ s2.radioLog = s.radioLog /\ s2.property = s.property

LEMMA FarIs ==
  ASSUME NEW a, AtOk(a), NEW b, AtOk(b), FarFromDevice(a, b)
  PROVE  /\ ~Early(a, 1) /\ ~Early(a, 2) /\ ~Early(a, 3) /\ ~Early(b, 1) /\ ~Early(b, 2) /\ ~Early(b, 3)
         /\ ~Late(b, 2) /\ ~Late(b, 4) /\ ~Late(b, 5)
<1>1. a.step \in Nat /\ b.step \in Nat
  BY DEF AtOk, AtRecords
<1> QED
  BY <1>1 DEF FarFromDevice, Early, Late

(* Steps away from VtsDevicePreparer leave its features.                   *)
LEMMA FeaturesFar ==
  ASSUME NEW o, NEW d, NEW s, NEW a, AtOk(a), NEW h, NEW d2, NEW s2, NEW b, AtOk(b), NEW h2, FarFromDevice(a, b),
         RootOk(o, d, s, a, h), FrameworkOk(o, d, s, a, h), RadioOk(o, d, s, a, h),
         SameFeatures(d, s, d2, s2), h2.initial = h.initial
  PROVE  RootOk(o, d2, s2, b, h2) /\ FrameworkOk(o, d2, s2, b, h2) /\ RadioOk(o, d2, s2, b, h2)
<1>1. /\ ~Early(a, 1) /\ ~Early(a, 2) /\ ~Early(a, 3) /\ ~Early(b, 1) /\ ~Early(b, 2) /\ ~Early(b, 3)
      /\ ~Late(b, 2) /\ ~Late(b, 4) /\ ~Late(b, 5)
  BY FarIs, Zenon
<1>2. RootOk(o, d2, s2, b, h2)
  BY <1>1, Zenon DEF RootOk, SameFeatures
<1>3. FrameworkOk(o, d2, s2, b, h2)
  BY <1>1, Zenon DEF FrameworkOk, SameFeatures
<1>4. RadioOk(o, d2, s2, b, h2)
  BY <1>1, Zenon DEF RadioOk, SameFeatures
<1> QED
  BY <1>2, <1>3, <1>4
-----------------------------------------------------------------------------
(* A step forgets nothing of what went wrong.                              *)
IsHistory(h, h2) ==
  /\ h2 \in HistoryRecords /\ h2.initial = h.initial
  /\ h.lost => h2.lost
  /\ h.refused => h2.refused
  /\ h.unread => h2.unread
  /\ h.unrestored => h2.unrestored
  /\ h.rebooted => h2.rebooted
SameReboots(h, h2) == h2.rebooted = h.rebooted
NotRefused(h2, b) == h2.refused \/ (b => device.root)

LEMMA RefusedIs ==
  ASSUME history \in HistoryRecords, NEW b
  PROVE  IsHistory(history, Refused(b)) /\ SameReboots(history, Refused(b)) /\ NotRefused(Refused(b), b)
<1>1. PICK r \in BOOLEAN : r <=> (history.refused \/ (b /\ ~device.root))
  BY Zenon
<1> PICK h2 : h2 = Refused(b)
  BY Zenon
<1>2. (history.refused \/ (b /\ ~device.root)) \in BOOLEAN
  BY Zenon
<1>3. h2 = [history EXCEPT !.refused = r]
  <2>1. r = (history.refused \/ (b /\ ~device.root))
    BY <1>1, <1>2, Zenon
  <2>2. h2 = [history EXCEPT !.refused = history.refused \/ (b /\ ~device.root)]
    BY Zenon DEF Refused
  <2> QED
    BY <2>1, <2>2, Zenon
<1>4. /\ h2 \in HistoryRecords /\ h2.initial = history.initial /\ h2.lost = history.lost /\ h2.refused = r
      /\ h2.unread = history.unread /\ h2.unrestored = history.unrestored /\ h2.rebooted = history.rebooted
  BY <1>3 DEF HistoryRecords
<1>5. IsHistory(history, h2) /\ SameReboots(history, h2) /\ NotRefused(h2, b)
  BY <1>1, <1>4, Zenon DEF IsHistory, SameReboots, NotRefused
<1> QED
  BY <1>5, Zenon

LEMMA SameHistory ==
  ASSUME history \in HistoryRecords
  PROVE  IsHistory(history, history) /\ SameReboots(history, history)
BY Zenon DEF IsHistory, SameReboots

LEMMA Undisturbed2 ==
  ASSUME IsHistory(history, history'), Undisturbed'
  PROVE  Undisturbed
BY Zenon DEF IsHistory, Undisturbed

(* What every step of a preparer q has to show, and gets. *)
Step(q) ==
  /\ PreparersInv /\ Undisturbed /\ AsItShouldBe /\ options' = options
  /\ AtOk(at) /\ AtOk(at') /\ Others(at, at', q) /\ IsHistory(history, history')

(* SIMs, by a step of another preparer.                                    *)
LEMMA StepSims ==
  ASSUME NEW q, Step(q), q # "sim", device'.sims = device.sims, saved'.sims = saved.sims
  PROVE  SimOk(device', saved', at', history')
<1>1. SimOk(device, saved, at, history) /\ AtOk(at)
  BY Zenon DEF Step, AsItShouldBe
<1>2. history'.initial = history.initial
  BY Zenon DEF Step, IsHistory
<1>3. history.unread => history'.unread
  BY Zenon DEF Step, IsHistory
<1>4. Apart(at, at', "sim")
  BY Zenon DEF Step, Others
<1>5. Before(at, "sim") => Ahead(at, "sim")
  BY <1>1, BeforeIsAhead, Zenon
<1> QED
  BY <1>1, <1>2, <1>3, <1>4, <1>5, Zenon DEF SimOk, Apart

(* Pushed files, by a step of another preparer.                            *)
LEMMA StepPushed ==
  ASSUME NEW q, Step(q), q \notin Keepers \/ ApartAll(at, at'), device'.files = device.files, host' = host,
         saved'.infoPath = saved.infoPath
  PROVE  PushedOk(options', device', host', saved', at')
<1>1. PushedOk(options, device, host, saved, at)
  BY Zenon DEF Step, AsItShouldBe
<1>2. Apart(at, at', "coverage") /\ Apart(at, at', "trace")
  BY KeeperIs, Zenon DEF Step, Others, ApartAll
<1>3. PushedOk(options, device', host, saved', at')
  BY <1>1, <1>2, PushedSame, Zenon
<1> QED
  BY <1>3, Zenon DEF Step

(* Adapters, by a step of another preparer.                                *)
LEMMA StepHal ==
  ASSUME NEW q, Step(q), q # "adapter", device'.adapted => device.adapted, saved'.commands = saved.commands
  PROVE  HalOk(device', saved', at', history')
<1>1. HalOk(device, saved, at, history)
  BY Zenon DEF Step, AsItShouldBe
<1>2. history.unrestored => history'.unrestored
  BY Zenon DEF Step, IsHistory
<1>3. HalApart(at, at')
  BY Zenon DEF Step, Others
<1> QED
  BY <1>1, <1>2, <1>3, HalSame, Zenon

(* Saved modes, by a step of another preparer.                             *)
LEMMA StepModes ==
  ASSUME NEW q, Step(q), q \notin Keepers \/ ApartAll(at, at'), q # "sim" \/ ApartAll(at, at') \/ at'.phase # "setUp",
         device'.selinux = device.selinux, SameKeepers(saved, saved'), SameReboots(history, history'),
         saved.rebootSetup => saved'.rebootSetup, saved.rebootTearDown => saved'.rebootTearDown
  PROVE  DisabledOk(device', saved', at', history') /\ ModesOk(device', saved', at', history')
<1>1. DisabledOk(device, saved, at, history) /\ ModesOk(device, saved, at, history) /\ AtOk(at)
  BY Zenon DEF Step, AsItShouldBe
<1>2. history'.initial = history.initial /\ history'.rebooted = history.rebooted
  BY Zenon DEF Step, IsHistory, SameReboots
<1>3. KeepersApart(at, at') /\ (at'.phase = "setUp" => Apart(at, at', "sim")) /\ StillSetUp(at, at')
  BY Zenon DEF Step, Others, ApartAll, KeepersApart
<1>4. DisabledOk(device', saved', at', history')
  <2>1. device'.selinux = "Disabled" <=> device.selinux = "Disabled"
    BY Zenon
  <2> QED
    BY <1>1, <1>2, <1>3, <2>1, DisabledSame, Zenon
<1>5. ModesOk(device', saved', at', history')
  BY <1>1, <1>2, <1>3, ModesSame, Zenon
<1> QED
  BY <1>4, <1>5

(* Features, by a step of another preparer.                                *)
LEMMA StepFar ==
  ASSUME NEW q, Step(q), FarFromDevice(at, at'), SameFeatures(device, saved, device', saved')
  PROVE  /\ RootOk(options', device', saved', at', history') /\ FrameworkOk(options', device', saved', at', history')
         /\ RadioOk(options', device', saved', at', history')
<1>1. /\ RootOk(options, device, saved, at, history) /\ FrameworkOk(options, device, saved, at, history)
      /\ RadioOk(options, device, saved, at, history) /\ AtOk(at) /\ AtOk(at') /\ options' = options
  BY Zenon DEF Step, AsItShouldBe
<1>2. history'.initial = history.initial
  BY Zenon DEF Step, IsHistory
<1>3. /\ RootOk(options, device', saved', at', history') /\ FrameworkOk(options, device', saved', at', history')
      /\ RadioOk(options, device', saved', at', history')
  BY <1>1, <1>2, FeaturesFar, Zenon
<1> QED
  BY <1>1, <1>3, Zenon

(* A step that may reboot the device.                                      *)
LEMMA StepRebooted ==
  ASSUME NEW q, Step(q), SameKeepers(saved, saved'), history'.rebooted,
         saved.rebootSetup => saved'.rebootSetup, saved.rebootTearDown => saved'.rebootTearDown,
         device'.selinux = "Disabled" <=> device.selinux = "Disabled",
         \A p \in Keepers : Ahead(at', p) => Ahead(at, p),
         ~(at'.phase = "setUp" /\ Ahead(at', "sim")),
         SimInside => \A p \in Keepers : Past(at', p) => Ahead(at, p)
  PROVE  DisabledOk(device', saved', at', history') /\ ModesOk(device', saved', at', history')
<1>1. DisabledOk(device, saved, at, history) /\ ModesOk(device, saved, at, history) /\ AtOk(at)
  BY Zenon DEF Step, AsItShouldBe
<1>2. history'.initial = history.initial
  BY Zenon DEF Step, IsHistory
<1>3. \A p \in Keepers : saved'[p] = saved[p] /\ (Outermost(saved', p) <=> Outermost(saved, p))
  BY KeepersSame, Zenon
<1>4. DisabledOk(device', saved', at', history')
  <2>1. \A p \in Keepers : saved'[p] # "null" => (saved'[p] = "Disabled" <=> device'.selinux = "Disabled")
    BY <1>1, <1>3 DEF DisabledOk
  <2>2. \A p \in Keepers : Ahead(at', p) => saved'[p] = "null"
    BY <1>1, <1>3, Zenon DEF DisabledOk
  <2>3. history'.initial.selinux = "Disabled" <=> device'.selinux = "Disabled"
    BY <1>1, <1>2 DEF DisabledOk
  <2> QED
    BY <2>1, <2>2, <2>3, Zenon DEF DisabledOk
<1>5. ModesOk(device', saved', at', history')
  <2>1. \A p \in Keepers : Outermost(saved, p) => ~Ahead(at, p)
    BY <1>1, Zenon DEF DisabledOk, Outermost
  <2>2. \A p \in Keepers : SimInside /\ Outermost(saved, p) => ~Past(at', p)
    BY <2>1, Zenon
  <2> QED
    BY <1>1, <1>2, <1>3, <2>2, Zenon DEF ModesOk
<1> QED
  BY <1>4, <1>5

(* The conjuncts together.                                                 *)
LEMMA Assemble ==
  ASSUME PreparersInv, PreparerTypes', IsHistory(history, history'),
         Undisturbed /\ AsItShouldBe /\ Undisturbed' => AsItShouldBe'
  PROVE  PreparersInv'
<1>1. Undisturbed' => Undisturbed
  BY Undisturbed2, Zenon
<1> QED
  BY <1>1, Zenon DEF PreparersInv
-----------------------------------------------------------------------------
MovesOn ==
  /\ AtOk(at') /\ at'.e \in {at.e, "setup"}
  /\ Stays(at, at') \/ Returned(at, at') \/ Aborted(at, at')

LEMMA MovesOnIs ==
  ASSUME AtOk(at), at.phase \in {"setUp", "tearDown"},
         at' = NextStep \/ at' = Return \/ (at.phase = "setUp" /\ Abort("setup"))
  PROVE  MovesOn
<1>1. CASE at' = NextStep
  BY <1>1, NextStepIs, Zenon DEF MovesOn, Stays
<1>2. CASE at' = Return
  BY <1>2, ReturnIs, Zenon DEF MovesOn, Returned
<1>3. CASE at.phase = "setUp" /\ Abort("setup")
  <2>1. "setup" \in {"device", "setup"}
    OBVIOUS
  <2> QED
    BY <1>3, <2>1, AbortIs, Zenon DEF MovesOn
<1> QED
  BY <1>1, <1>2, <1>3

LEMMA StepIs ==
  ASSUME PreparersInv, NEW q, Plan[at.pos] = q, at.phase \in {"setUp", "tearDown"}, MovesOn,
         IsHistory(history, history'), options' = options, Undisturbed'
  PROVE  /\ Step(q) /\ at'.e # "device" /\ (q # "device" => FarFromDevice(at, at'))
         /\ at.phase = "setUp" \/ Stays(at, at') => ApartAll(at, at')
<1>1. Undisturbed
  BY Undisturbed2, Zenon
<1>2. AsItShouldBe /\ AtOk(at) /\ AtOk(at')
  BY <1>1, Zenon DEF PreparersInv, PreparerTypes, MovesOn
<1>3. Others(at, at', q) /\ (at.phase = "setUp" \/ Stays(at, at') => ApartAll(at, at'))
  BY <1>2, MovesApart, Zenon DEF MovesOn
<1>4. q # "device" => FarFromDevice(at, at')
  BY <1>2, FarMoves, Zenon DEF MovesOn
<1>5. at'.e # "device"
  BY <1>2 DEF MovesOn, AsItShouldBe
<1> QED
  BY <1>1, <1>2, <1>3, <1>4, <1>5, Zenon DEF Step

LEMMA Typed ==
  ASSUME PreparersInv
  PROVE  /\ options \in OptionRecords /\ device \in DeviceRecords /\ host \in SUBSET {"temp", "local"}
         /\ saved \in SavedRecords /\ AtOk(at) /\ history \in HistoryRecords
         /\ device.root \in BOOLEAN /\ device.files \in SUBSET PushedFiles /\ device.selinux \in SelinuxModes
         /\ options.local \in BOOLEAN
<1>1. /\ options \in OptionRecords /\ device \in DeviceRecords /\ host \in SUBSET {"temp", "local"}
      /\ saved \in SavedRecords /\ AtOk(at) /\ history \in HistoryRecords
  BY Zenon DEF PreparersInv, PreparerTypes
<1>2. device.root \in BOOLEAN /\ device.files \in SUBSET PushedFiles /\ device.selinux \in SelinuxModes
  BY <1>1 DEF DeviceRecords
<1>3. options.local \in BOOLEAN
  BY <1>1 DEF OptionRecords
<1> QED
  BY <1>1, <1>2, <1>3

(* The fields that a step leaves alone. *)
SameSaved(s, s2) ==
  /\ s2.root = s.root /\ s2.framework = s.framework /\ s2.radioLog = s.radioLog /\ s2.property = s.property
  /\ s2.rebootSetup = s.rebootSetup /\ s2.rebootTearDown = s.rebootTearDown
  /\ s2.coverage = s.coverage /\ s2.trace = s.trace /\ s2.sims = s.sims /\ s2.commands = s.commands

(* What a change of one field leaves. *)
FilesBecome(d, f, d2) ==
  /\ d2 \in DeviceRecords /\ d2.files = f /\ d2.radio = d.radio /\ d2.selinux = d.selinux /\ d2.root = d.root
  /\ d2.framework = d.framework /\ d2.adapted = d.adapted /\ d2.sims = d.sims
ModeBecomes(d, m, d2) ==
  /\ d2 \in DeviceRecords /\ d2.selinux = m /\ d2.radio = d.radio /\ d2.files = d.files /\ d2.root = d.root
  /\ d2.framework = d.framework /\ d2.adapted = d.adapted /\ d2.sims = d.sims
PathBecomes(s, p, s2) == s2 \in SavedRecords /\ s2.infoPath = p /\ SameSaved(s, s2)
KeeperBecomes(s, q, m, s2) ==
  /\ s2 \in SavedRecords /\ s2[q] = m /\ s2[Other(q)] = s[Other(q)]
  /\ s2.root = s.root /\ s2.framework = s.framework /\ s2.radioLog = s.radioLog /\ s2.property = s.property
  /\ s2.rebootSetup = s.rebootSetup /\ s2.rebootTearDown = s.rebootTearDown
  /\ s2.sims = s.sims /\ s2.commands = s.commands /\ s2.infoPath = s.infoPath

LEMMA FilesUpdate ==
  ASSUME NEW d \in DeviceRecords, NEW f \in SUBSET PushedFiles
  PROVE  FilesBecome(d, f, [d EXCEPT !.files = f])
BY DEF DeviceRecords, FilesBecome

LEMMA ModeUpdate ==
  ASSUME NEW d \in DeviceRecords, NEW m \in SelinuxModes
  PROVE  ModeBecomes(d, m, [d EXCEPT !.selinux = m])
BY DEF DeviceRecords, ModeBecomes

LEMMA PathUpdate ==
  ASSUME NEW s \in SavedRecords, NEW p \in {"null", "temp", "local"}
  PROVE  PathBecomes(s, p, [s EXCEPT !.infoPath = p])
BY DEF SavedRecords, SameSaved, PathBecomes

LEMMA KeeperUpdate ==
  ASSUME NEW s \in SavedRecords, NEW m \in SelinuxModes
  PROVE  /\ KeeperBecomes(s, "coverage", m, [s EXCEPT !.coverage = m])
         /\ KeeperBecomes(s, "trace", m, [s EXCEPT !.trace = m])
BY SMTT(40) DEF SavedRecords, KeeperBecomes, Other
-----------------------------------------------------------------------------
LEMMA Finish ==
  ASSUME NEW q, Step(q), at'.e # "device", FarFromDevice(at, at'), SameFeatures(device, saved, device', saved'),
         SimOk(device', saved', at', history'), PushedOk(options', device', host', saved', at'),
         HalOk(device', saved', at', history'),
         DisabledOk(device', saved', at', history'), ModesOk(device', saved', at', history')
  PROVE  AsItShouldBe'
<1>1. /\ RootOk(options', device', saved', at', history') /\ FrameworkOk(options', device', saved', at', history')
      /\ RadioOk(options', device', saved', at', history')
  BY StepFar, Zenon
<1> QED
  BY <1>1, Zenon DEF AsItShouldBe

LEMMA InPlace ==
  ASSUME AtOk(at), at.phase \in {"setUp", "tearDown"}, NEW q, Plan[at.pos] = q
  PROVE  ~Before(at, q) /\ ~Past(at, q) /\ (at.phase = "tearDown" => ~Ahead(at, q))
<1>1. at.pos \in 1..Len(Plan) /\ ~(at.pos < at.pos)
  BY PlanFacts DEF AtOk, AtRecords, Positions
<1>2. at.phase # "done" /\ (at.phase = "tearDown" => at.phase # "setUp")
  OBVIOUS
<1> QED
  BY <1>1, <1>2, Zenon DEF Before, Past, Ahead

(* A step of the coverage preparer's setUp that leaves SELinux alone. *)
CoverageMove ==
  /\ device' \in DeviceRecords /\ device'.files \cap TraceFiles = device.files \cap TraceFiles
  /\ device'.radio = device.radio /\ device'.selinux = device.selinux
  /\ device'.adapted = device.adapted /\ device'.sims = device.sims
  /\ saved' \in SavedRecords /\ SameSaved(saved, saved')
  /\ host' \in SUBSET {"temp", "local"}
  /\ ("temp" \in host => saved.infoPath = "temp" /\ ~options.local) =>
       ("temp" \in host' => saved'.infoPath = "temp" /\ ~options.local)

(* VtsCoveragePreparer's steps that leave SELinux alone.                   *)
LEMMA CoverageMoves ==
  ASSUME PreparersInv, at.phase = "setUp", Plan[at.pos] = "coverage", MovesOn, CoverageMove,
         options' = options, history' = history
  PROVE  PreparersInv'
<1>1. options \in OptionRecords /\ AtOk(at) /\ AtOk(at') /\ history \in HistoryRecords
  BY Typed, Zenon DEF MovesOn
<1>2. PreparerTypes'
  BY <1>1, Zenon DEF PreparerTypes, CoverageMove
<1>3. IsHistory(history, history') /\ SameReboots(history, history')
  BY <1>1, SameHistory, Zenon
<1>4. ASSUME Undisturbed'
      PROVE  AsItShouldBe'
  <2>1. "coverage" # "device" /\ "coverage" # "sim" /\ "coverage" # "adapter"
    OBVIOUS
  <2>2. /\ Step("coverage") /\ at'.e # "device" /\ FarFromDevice(at, at') /\ ApartAll(at, at')
    BY <1>3, <1>4, <2>1, StepIs, Zenon
  <2>3. ~Before(at, "coverage") /\ ~Past(at, "coverage")
    BY <1>1, InPlace, Zenon
  <2>4. PushedOk(options, device, host, saved, at)
    BY <2>2, Zenon DEF Step, AsItShouldBe
  <2>5. Apart(at, at', "coverage") /\ Apart(at, at', "trace")
    BY <2>2, Zenon DEF ApartAll
  <2>6. PushedOk(options', device', host', saved', at')
    BY <2>3, <2>4, <2>5, Zenon DEF PushedOk, Apart, CoverageMove
  <2>7. SimOk(device', saved', at', history')
    BY <2>1, <2>2, StepSims, Zenon DEF CoverageMove, SameSaved
  <2>8. HalOk(device', saved', at', history')
    BY <2>1, <2>2, StepHal, Zenon DEF CoverageMove, SameSaved
  <2>9. DisabledOk(device', saved', at', history') /\ ModesOk(device', saved', at', history')
    <3>1. SameKeepers(saved, saved') /\ device'.selinux = device.selinux
      BY Zenon DEF CoverageMove, SameSaved, SameKeepers
    <3>2. saved'.rebootSetup = saved.rebootSetup /\ saved'.rebootTearDown = saved.rebootTearDown
      BY Zenon DEF CoverageMove, SameSaved
    <3> QED
      BY <1>3, <2>1, <2>2, <3>1, <3>2, StepModes, Zenon
  <2>10. SameFeatures(device, saved, device', saved')
    BY Zenon DEF CoverageMove, SameSaved, SameFeatures
  <2> QED
    BY <2>2, <2>6, <2>7, <2>8, <2>9, <2>10, Finish, Zenon
<1> QED
  BY <1>2, <1>3, <1>4, Assemble, Zenon

(* VtsCoveragePreparer pushes its file and makes its directory.            *)
LEMMA CoverageFilesSteps ==
  ASSUME PreparersInv, coverageOff \/ coverageFails \/ coverageFetches \/ coveragePushes \/ coveragePushFails
  PROVE  PreparersInv'
<1>1. /\ options \in OptionRecords /\ device \in DeviceRecords /\ host \in SUBSET {"temp", "local"}
      /\ saved \in SavedRecords /\ AtOk(at) /\ device.files \in SUBSET PushedFiles /\ options.local \in BOOLEAN
  BY Typed, Zenon
<1>2. at.phase = "setUp" /\ Plan[at.pos] = "coverage" /\ options' = options /\ history' = history
  BY Zenon DEF coverageOff, coverageFails, coverageFetches, coveragePushes, coveragePushFails, At
<1>3. MovesOn
  BY <1>1, <1>2, MovesOnIs, Zenon DEF coverageOff, coverageFails, coverageFetches, coveragePushes, coveragePushFails
<1>4. saved.infoPath \in {"null", "temp", "local"} /\ SameSaved(saved, saved)
  BY <1>1 DEF SavedRecords, SameSaved
<1>5. /\ device.files \ {"vts_coverage_configure"} \in SUBSET PushedFiles
      /\ device.files \cup {"vts_coverage_configure"} \in SUBSET PushedFiles
      /\ (device.files \ {"vts_coverage_configure"}) \cap TraceFiles = device.files \cap TraceFiles
      /\ (device.files \cup {"vts_coverage_configure"}) \cap TraceFiles = device.files \cap TraceFiles
  BY <1>1 DEF PushedFiles, TraceFiles
<1> DEFINE gone == device.files \ {"vts_coverage_configure"}
           pushed == device.files \cup {"vts_coverage_configure"}
           temp(h, s) == "temp" \in h => s.infoPath = "temp" /\ ~options.local
<1>6. ASSUME UNCHANGED <<device, host, saved>>
      PROVE  CoverageMove
  BY <1>1, <1>4, <1>6, Zenon DEF CoverageMove
<1>7. ASSUME NEW p \in {"null", "temp", "local"}, cleanupCoverageData(device, p),
             temp(host, saved) => temp(host \ {p}, saved'), saved' \in SavedRecords, SameSaved(saved, saved')
      PROVE  CoverageMove
  <2>1. device' = [device EXCEPT !.files = gone] /\ host' = host \ {p}
    BY <1>7, Zenon DEF cleanupCoverageData
  <2>2. /\ device' \in DeviceRecords /\ device'.files = gone /\ device'.radio = device.radio
        /\ device'.selinux = device.selinux /\ device'.adapted = device.adapted /\ device'.sims = device.sims
    BY <1>1, <1>5, <2>1, FilesUpdate, Zenon DEF FilesBecome
  <2>3. host' \in SUBSET {"temp", "local"}
    BY <1>1, <2>1, Zenon
  <2> QED
    BY <1>5, <1>7, <2>1, <2>2, <2>3, Zenon DEF CoverageMove
<1>8. CASE coverageFails
  <2> SUFFICES ASSUME ~UNCHANGED <<device, host, saved>>
               PROVE  CoverageMove
    BY <1>2, <1>3, <1>6, CoverageMoves, Zenon
  <2>1. PICK p : p = IF options.local THEN "local" ELSE "temp"
    BY Zenon
  <2>2. saved' = [saved EXCEPT !.infoPath = p] /\ cleanupCoverageData(device, p)
    BY <1>8, <2>1, Zenon DEF coverageFails
  <2>3. p \in {"null", "temp", "local"}
    BY <2>1
  <2>4. saved' \in SavedRecords /\ saved'.infoPath = p /\ SameSaved(saved, saved')
    BY <1>1, <2>2, <2>3, PathUpdate, Zenon DEF PathBecomes
  <2>5. temp(host, saved) => temp(host \ {p}, saved')
    BY <2>1
  <2> QED
    BY <1>7, <2>2, <2>3, <2>4, <2>5, Zenon
<1>9. CASE coveragePushFails
  <2>1. cleanupCoverageData(device, saved.infoPath) /\ saved' = saved
    BY <1>9, Zenon DEF coveragePushFails
  <2>2. temp(host, saved) => temp(host \ {saved.infoPath}, saved')
    BY <2>1, Zenon
  <2>3. CoverageMove
    BY <1>1, <1>4, <1>7, <2>1, <2>2, Zenon
  <2> QED
    BY <1>2, <1>3, <2>3, CoverageMoves, Zenon
<1>10. CASE coverageFetches
  <2>0. PICK p : p = IF options.local THEN "local" ELSE "temp"
    BY Zenon
  <2>1. /\ saved' = [saved EXCEPT !.infoPath = p]
        /\ \/ options.local /\ p = "local" /\ host' = host
           \/ ~options.local /\ p = "temp" /\ host' = host \cup {"temp"}
    <3>1. CASE options.local
      <4>1. p = "local" /\ saved' = [saved EXCEPT !.infoPath = "local"] /\ host' = host
        BY <1>10, <2>0, <3>1, Zenon DEF coverageFetches
      <4> QED
        BY <3>1, <4>1
    <3>2. CASE ~options.local
      <4>1. p = "temp" /\ saved' = [saved EXCEPT !.infoPath = "temp"] /\ host' = host \cup {"temp"}
        BY <1>10, <2>0, <3>2, Zenon DEF coverageFetches
      <4> QED
        BY <3>2, <4>1, Zenon
    <3> QED
      BY <3>1, <3>2
  <2>p. p \in {"null", "temp", "local"}
    BY <2>0
  <2>2. saved' \in SavedRecords /\ saved'.infoPath = p /\ SameSaved(saved, saved')
    BY <1>1, <2>1, <2>p, PathUpdate, Zenon DEF PathBecomes
  <2>3. temp(host, saved) => temp(host', saved')
    BY <2>1, <2>2
  <2>4. host' \in SUBSET {"temp", "local"}
    BY <1>1, <2>1, SMTT(40)
  <2>5. device' = device
    BY <1>10, Zenon DEF coverageFetches
  <2>6. CoverageMove
    BY <1>1, <2>2, <2>3, <2>4, <2>5, Zenon DEF CoverageMove
  <2> QED
    BY <1>2, <1>3, <2>6, CoverageMoves, Zenon
<1>11. CASE coveragePushes
  <2>1. device' = [device EXCEPT !.files = pushed] /\ host' = host /\ saved' = saved
    BY <1>11, Zenon DEF coveragePushes
  <2>2. /\ device' \in DeviceRecords /\ device'.files = pushed /\ device'.radio = device.radio
        /\ device'.selinux = device.selinux /\ device'.adapted = device.adapted /\ device'.sims = device.sims
    BY <1>1, <1>5, <2>1, FilesUpdate, Zenon DEF FilesBecome
  <2>3. CoverageMove
    BY <1>1, <1>4, <1>5, <2>1, <2>2, Zenon DEF CoverageMove
  <2> QED
    BY <1>2, <1>3, <2>3, CoverageMoves, Zenon
<1>12. CASE coverageOff
  BY <1>2, <1>3, <1>6, <1>12, CoverageMoves, Zenon DEF coverageOff
<1> QED
  BY <1>8, <1>9, <1>10, <1>11, <1>12
-----------------------------------------------------------------------------
LEMMA InSetUp ==
  ASSUME AtOk(at), at.phase = "setUp", NEW q, Plan[at.pos] = q
  PROVE  /\ ~Before(at, q) /\ ~Past(at, q) /\ Ahead(at, q)
         /\ \A o : Outside(q, o) => Ahead(at, o)
         /\ SimInside /\ q \in Keepers => Ahead(at, "sim")
<1>1. at.pos \in 1..Len(Plan) /\ Len(Plan) \in Nat
  BY PlanFacts DEF AtOk, AtRecords, Positions
<1>2. ~Before(at, q) /\ ~Past(at, q)
  BY InPlace, Zenon
<1>3. Ahead(at, q)
  <2> SUFFICES ASSUME NEW i \in 1..Len(Plan), Plan[i] = q
               PROVE  at.pos <= i
    BY Zenon DEF Ahead
  <2>1. i = at.pos
    BY <1>1, PlanFacts, Zenon
  <2> QED
    BY <1>1, <2>1
<1>4. ASSUME NEW o, Outside(q, o)
      PROVE  Ahead(at, o)
  <2>1. PICK i, j \in 1..Len(Plan) : i < j /\ Plan[i] = q /\ Plan[j] = o
    BY <1>4, Zenon DEF Outside
  <2> SUFFICES ASSUME NEW k \in 1..Len(Plan), Plan[k] = o
               PROVE  at.pos <= k
    BY Zenon DEF Ahead
  <2>2. i = at.pos /\ k = j
    BY <1>1, <2>1, PlanFacts, Zenon
  <2> QED
    BY <1>1, <2>1, <2>2
<1>5. ASSUME SimInside, q \in Keepers
      PROVE  Ahead(at, "sim")
  <2> SUFFICES ASSUME NEW k \in 1..Len(Plan), Plan[k] = "sim"
               PROVE  at.pos <= k
    BY Zenon DEF Ahead
  <2>1. at.pos < k
    BY <1>1, <1>5, KeeperIs, Zenon DEF SimInside
  <2> QED
    BY <1>1, <2>1
<1> QED
  BY <1>2, <1>3, <1>4, <1>5

LEMMA ReturnedIsNotAhead ==
  ASSUME AtOk(at), Returned(at, at'), NEW q, Plan[at.pos] = q, at.phase \in {"setUp", "tearDown"}
  PROVE  ~Ahead(at', q)
<1>1. at.pos \in 1..Len(Plan) /\ Len(Plan) \in Nat
  BY PlanFacts DEF AtOk, AtRecords, Positions
<1> SUFFICES ASSUME Ahead(at', q)
             PROVE  FALSE
  OBVIOUS
<1>2. at'.phase = "setUp" /\ at'.pos <= at.pos
  BY <1>1, Zenon DEF Ahead
<1> QED
  BY <1>1, <1>2 DEF Returned

(* The coverage or the trace preparer saves SELinux's mode and makes it permissive. *)
LEMMA KeeperSaves ==
  ASSUME PreparersInv, NEW q \in Keepers, at.phase = "setUp", Plan[at.pos] = q, at' = Return,
         KeeperBecomes(saved, q, device.selinux, saved'), device' = setPermissive(device),
         history' = Refused(device.selinux = "Enforcing"), options' = options, host' = host
  PROVE  PreparersInv'
<1>1. /\ options \in OptionRecords /\ device \in DeviceRecords /\ host \in SUBSET {"temp", "local"}
      /\ AtOk(at) /\ history \in HistoryRecords /\ device.selinux \in SelinuxModes
  BY Typed, Zenon
<1>2. MovesOn /\ AtOk(at') /\ Returned(at, at')
  BY <1>1, MovesOnIs, ReturnIs, Zenon DEF MovesOn
<1>3. IsHistory(history, history') /\ SameReboots(history, history')
  BY <1>1, RefusedIs, Zenon
<1>4. PICK m \in SelinuxModes : /\ ModeBecomes(device, m, device')
                                /\ m = device.selinux \/ (device.selinux = "Enforcing" /\ m = "Permissive")
  <2>1. "Permissive" \in SelinuxModes
    BY DEF SelinuxModes
  <2>2. CASE device' = device
    <3>1. ModeBecomes(device, device.selinux, device')
      BY <1>1, <2>2, Zenon DEF ModeBecomes
    <3> QED
      BY <1>1, <3>1, Zenon
  <2>3. CASE device.selinux = "Enforcing" /\ device' = [device EXCEPT !.selinux = "Permissive"]
    BY <1>1, <2>1, <2>3, ModeUpdate, Zenon
  <2> QED
    BY <2>2, <2>3, Zenon DEF setPermissive, AsRoot
<1>5. PreparerTypes'
  BY <1>1, <1>2, <1>3, <1>4, Zenon DEF PreparerTypes, KeeperBecomes, ModeBecomes, IsHistory
<1>6. ASSUME Undisturbed'
      PROVE  AsItShouldBe'
  <2>1. q # "device" /\ q # "sim" /\ q # "adapter"
    BY DEF Keepers
  <2>2. Step(q) /\ at'.e # "device" /\ FarFromDevice(at, at') /\ ApartAll(at, at')
    BY <1>2, <1>3, <1>6, <2>1, StepIs, Zenon
  <2>3. SimOk(device', saved', at', history')
    BY <1>4, <2>1, <2>2, StepSims, Zenon DEF ModeBecomes, KeeperBecomes
  <2>4. HalOk(device', saved', at', history')
    BY <1>4, <2>1, <2>2, StepHal, Zenon DEF ModeBecomes, KeeperBecomes
  <2>5. PushedOk(options', device', host', saved', at')
    BY <1>4, <2>1, <2>2, StepPushed, Zenon DEF ModeBecomes, KeeperBecomes
  <2>6. SameFeatures(device, saved, device', saved')
    BY <1>4, Zenon DEF ModeBecomes, KeeperBecomes, SameFeatures
  <2>7. /\ DisabledOk(device, saved, at, history) /\ ModesOk(device, saved, at, history)
        /\ history'.initial = history.initial /\ history'.rebooted = history.rebooted
    BY <1>3, <2>2, Zenon DEF Step, AsItShouldBe, IsHistory, SameReboots
  <2> PICK o : o = Other(q)
    BY Zenon
  <2>8. o \in Keepers /\ o # q /\ Other(o) = q /\ \A p \in Keepers : p = q \/ p = o
    BY KeeperIs DEF Other
  <2>9. /\ saved'[q] = device.selinux /\ saved'[o] = saved[o] /\ device'.selinux = m
        /\ saved'.rebootSetup = saved.rebootSetup /\ saved'.rebootTearDown = saved.rebootTearDown
    BY <1>4, Zenon DEF ModeBecomes, KeeperBecomes
  <2>10. /\ ~Before(at, q) /\ ~Past(at, q) /\ Ahead(at, q) /\ (Outside(q, o) => Ahead(at, o))
         /\ SimInside => Ahead(at, "sim")
    BY <1>1, InSetUp, Zenon
  <2>11. ~Ahead(at', q) /\ ~Past(at', q) /\ (Ahead(at', o) => Ahead(at, o))
    BY <1>1, <1>2, <2>2, <2>10, ReturnedIsNotAhead, Zenon DEF ApartAll, Apart
  <2>12. m = "Disabled" <=> device.selinux = "Disabled"
    BY <1>4, SMTT(40)
  <2>13. saved[q] = "null" /\ (Ahead(at, o) => saved[o] = "null")
    BY <2>7, <2>8, <2>10, Zenon DEF DisabledOk
  <2>14. DisabledOk(device', saved', at', history')
    <3>1. history'.initial.selinux = "Disabled" <=> device'.selinux = "Disabled"
      BY <2>7, <2>9, <2>12 DEF DisabledOk
    <3>2. \A p \in Keepers : Ahead(at', p) => saved'[p] = "null"
      BY <2>8, <2>9, <2>11, <2>13, Zenon
    <3>3. saved[o] # "null" => (saved[o] = "Disabled" <=> device.selinux = "Disabled")
      BY <2>7, <2>8, Zenon DEF DisabledOk
    <3>4. \A p \in Keepers : saved'[p] # "null" => (saved'[p] = "Disabled" <=> device'.selinux = "Disabled")
      BY <2>8, <2>9, <2>12, <3>3
    <3> QED
      BY <3>1, <3>2, <3>4, Zenon DEF DisabledOk
  <2>15. ModesOk(device', saved', at', history')
    <3> SUFFICES ASSUME SimInside, ~saved'.rebootSetup, ~saved'.rebootTearDown
                 PROVE  /\ at'.phase = "setUp" /\ Ahead(at', "sim") => ~history'.rebooted
                        /\ ~(saved'.coverage = "null" /\ saved'.trace = "null")
                        /\ \A p \in Keepers : Outermost(saved', p) =>
                             /\ saved'[p] = history'.initial.selinux
                             /\ Past(at', p) => device'.selinux = history'.initial.selinux
      BY Zenon DEF ModesOk
    <3>1. ~saved.rebootSetup /\ ~saved.rebootTearDown /\ ~history.rebooted
      BY <2>7, <2>9, <2>10, Zenon DEF ModesOk
    <3>2. ~history'.rebooted
      BY <2>7, <3>1, Zenon
    <3>3. device.selinux # "null"
      BY <1>1 DEF SelinuxModes
    <3>4. ~(saved'.coverage = "null" /\ saved'.trace = "null")
      BY <2>9, <3>3 DEF Keepers
    <3>5. ASSUME Outermost(saved', q)
          PROVE  saved'[q] = history'.initial.selinux
      <4>1. saved[o] = "null"
        BY <2>9, <2>10, <2>13, <3>5, Zenon DEF Outermost
      <4>2. saved.coverage = "null" /\ saved.trace = "null"
        BY <2>8, <2>13, <4>1 DEF Keepers
      <4>3. device.selinux = history.initial.selinux
        BY <2>7, <3>1, <4>2, Zenon DEF ModesOk
      <4> QED
        BY <2>7, <2>9, <4>3, Zenon
    <3>6. ASSUME Outermost(saved', o)
          PROVE  saved'[o] = history'.initial.selinux /\ ~Past(at', o)
      <4>1. saved'[o] # "null" /\ Outside(o, q)
        BY <2>8, <2>9, <3>3, <3>6, Zenon DEF Outermost
      <4>2. Outermost(saved, o)
        BY <2>8, <2>9, <2>13, <4>1, Zenon DEF Outermost
      <4>3. saved[o] = history.initial.selinux
        BY <2>7, <2>8, <3>1, <4>2, Zenon DEF ModesOk
      <4>4. ~Ahead(at, o)
        BY <2>9, <2>13, <4>1, Zenon
      <4>5. ~Before(at, o)
        BY <1>1, <4>4, BeforeIsAhead, Zenon
      <4>6. ~Past(at, o)
        <5>1. at.phase # "done" /\ at.phase # "tearDown"
          OBVIOUS
        <5> QED
          BY <4>1, <5>1, Zenon DEF Past, Outside
      <4> QED
        BY <2>2, <2>7, <2>9, <4>3, <4>5, <4>6, Zenon DEF ApartAll, Apart
    <3> QED
      BY <2>8, <2>11, <3>2, <3>4, <3>5, <3>6, Zenon
  <2> QED
    BY <2>2, <2>3, <2>4, <2>5, <2>6, <2>14, <2>15, Finish, Zenon
<1> QED
  BY <1>3, <1>5, <1>6, Assemble, Zenon

LEMMA PermissiveSteps ==
  ASSUME PreparersInv, coverageSetsPermissive \/ traceSetsPermissive
  PROVE  PreparersInv'
<1>1. saved \in SavedRecords /\ device.selinux \in SelinuxModes
  BY Typed, Zenon
<1>2. "coverage" \in Keepers /\ "trace" \in Keepers
  BY DEF Keepers
<1>3. CASE coverageSetsPermissive
  <2>1. KeeperBecomes(saved, "coverage", device.selinux, saved')
    BY <1>1, <1>3, KeeperUpdate, Zenon DEF coverageSetsPermissive
  <2>2. at.phase = "setUp" /\ Plan[at.pos] = "coverage"
    BY <1>3, Zenon DEF coverageSetsPermissive, At
  <2> QED
    BY <1>2, <1>3, <2>1, <2>2, KeeperSaves, Zenon DEF coverageSetsPermissive
<1>4. CASE traceSetsPermissive
  <2>1. KeeperBecomes(saved, "trace", device.selinux, saved')
    BY <1>1, <1>4, KeeperUpdate, Zenon DEF traceSetsPermissive
  <2>2. at.phase = "setUp" /\ Plan[at.pos] = "trace"
    BY <1>4, Zenon DEF traceSetsPermissive, At
  <2> QED
    BY <1>2, <1>4, <2>1, <2>2, KeeperSaves, Zenon DEF traceSetsPermissive
<1> QED
  BY <1>3, <1>4

LEMMA PastOutside ==
  ASSUME AtOk(at), NEW q, NEW o, Plan[at.pos] = q, at.phase = "tearDown", Outside(o, q), Past(at, o)
  PROVE  FALSE
<1>1. at.pos \in 1..Len(Plan) /\ Len(Plan) \in Nat /\ at.phase # "done"
  BY PlanFacts DEF AtOk, AtRecords, Positions
<1>2. PICK i, j \in 1..Len(Plan) : i < j /\ Plan[i] = o /\ Plan[j] = q
  BY Zenon DEF Outside
<1>3. at.pos < i /\ j = at.pos
  BY <1>1, <1>2, PlanFacts, Zenon DEF Past
<1> QED
  BY <1>1, <1>2, <1>3

(* The tearDown of the coverage or the trace preparer puts back the mode it saved. *)
KeeperRestores(q) ==
  /\ device' \in DeviceRecords /\ host' \in SUBSET {"temp", "local"}
  /\ device'.radio = device.radio /\ device'.adapted = device.adapted /\ device'.sims = device.sims
  /\ IsHistory(history, history') /\ SameReboots(history, history')
  /\ Undisturbed' /\ Undisturbed /\ AsItShouldBe =>
       /\ device'.selinux = IF saved[q] = "null" THEN device.selinux ELSE saved[q]
       /\ Step(q) => PushedOk(options', device', host', saved', at')

LEMMA KeeperTearDown ==
  ASSUME PreparersInv, NEW q \in Keepers, at.phase = "tearDown", Plan[at.pos] = q, at' = Return,
         KeeperRestores(q), options' = options, saved' = saved
  PROVE  PreparersInv'
<1>1. options \in OptionRecords /\ AtOk(at) /\ saved \in SavedRecords
  BY Typed, Zenon
<1>2. MovesOn /\ AtOk(at') /\ Returned(at, at')
  BY <1>1, MovesOnIs, ReturnIs, Zenon DEF MovesOn
<1>3. IsHistory(history, history') /\ SameReboots(history, history')
  BY Zenon DEF KeeperRestores
<1>4. PreparerTypes'
  BY <1>1, <1>2, <1>3, Zenon DEF PreparerTypes, KeeperRestores, IsHistory
<1>5. ASSUME Undisturbed'
      PROVE  AsItShouldBe'
  <2>1. q # "device" /\ q # "sim" /\ q # "adapter"
    BY DEF Keepers
  <2>2. Step(q) /\ at'.e # "device" /\ FarFromDevice(at, at')
    BY <1>2, <1>3, <1>5, <2>1, StepIs, Zenon
  <2>3. /\ device'.selinux = IF saved[q] = "null" THEN device.selinux ELSE saved[q]
        /\ PushedOk(options', device', host', saved', at')
    BY <1>5, <2>2, Zenon DEF KeeperRestores, Step
  <2>4. SimOk(device', saved', at', history')
    BY <2>1, <2>2, StepSims, Zenon DEF KeeperRestores
  <2>5. HalOk(device', saved', at', history')
    BY <2>1, <2>2, StepHal, Zenon DEF KeeperRestores
  <2>6. SameFeatures(device, saved, device', saved')
    BY Zenon DEF KeeperRestores, SameFeatures
  <2>7. /\ DisabledOk(device, saved, at, history) /\ ModesOk(device, saved, at, history)
        /\ history'.initial = history.initial /\ history'.rebooted = history.rebooted
    BY <1>3, <2>2, Zenon DEF Step, AsItShouldBe, IsHistory, SameReboots
  <2> PICK o : o = Other(q)
    BY Zenon
  <2>8. o \in Keepers /\ o # q /\ Other(o) = q /\ \A p \in Keepers : p = q \/ p = o
    BY KeeperIs DEF Other
  <2>9. Apart(at, at', o) /\ ~Ahead(at', q)
    BY <1>1, <1>2, <2>2, <2>8, ReturnedIsNotAhead, Zenon DEF Step, Others
  <2>10. saved[q] # "null" => (saved[q] = "Disabled" <=> device.selinux = "Disabled")
    BY <2>7, Zenon DEF DisabledOk
  <2>11. device'.selinux = "Disabled" <=> device.selinux = "Disabled"
    BY <2>3, <2>10
  <2>12. DisabledOk(device', saved', at', history')
    <3>1. history'.initial.selinux = "Disabled" <=> device'.selinux = "Disabled"
      BY <2>7, <2>11 DEF DisabledOk
    <3>2. \A p \in Keepers : Ahead(at', p) => saved'[p] = "null"
      BY <2>7, <2>8, <2>9, Zenon DEF DisabledOk, Apart
    <3>3. saved[o] # "null" => (saved[o] = "Disabled" <=> device.selinux = "Disabled")
      BY <2>7, <2>8, Zenon DEF DisabledOk
    <3>4. \A p \in Keepers : saved'[p] # "null" => (saved'[p] = "Disabled" <=> device'.selinux = "Disabled")
      BY <2>8, <2>10, <2>11, <3>3
    <3> QED
      BY <3>1, <3>2, <3>4, Zenon DEF DisabledOk
  <2>13. ModesOk(device', saved', at', history')
    <3> SUFFICES ASSUME SimInside, ~saved.rebootSetup, ~saved.rebootTearDown
                 PROVE  /\ at'.phase # "setUp"
                        /\ saved.coverage = "null" /\ saved.trace = "null" =>
                             device'.selinux = history'.initial.selinux \/ history'.rebooted
                        /\ \A p \in Keepers : Outermost(saved, p) =>
                             /\ saved[p] = history'.initial.selinux
                             /\ Past(at', p) => device'.selinux = history'.initial.selinux
      BY Zenon DEF ModesOk
    <3>1. at'.phase # "setUp"
      BY <1>2 DEF Returned
    <3>2. ASSUME saved.coverage = "null", saved.trace = "null"
          PROVE  device'.selinux = history'.initial.selinux \/ history'.rebooted
      <4>1. saved[q] = "null"
        BY <3>2 DEF Keepers
      <4> QED
        BY <2>3, <2>7, <3>2, <4>1, Zenon DEF ModesOk
    <3>3. \A p \in Keepers : Outermost(saved, p) => saved[p] = history'.initial.selinux
      BY <2>7, Zenon DEF ModesOk
    <3>4. Outermost(saved, q) => device'.selinux = history'.initial.selinux
      BY <2>3, <3>3, Zenon DEF Outermost
    <3>5. ASSUME Outermost(saved, o), Past(at', o)
          PROVE  device'.selinux = history'.initial.selinux
      <4>1. ~Before(at, o)
        BY <1>1, <2>7, <2>8, <3>5, BeforeIsAhead, Zenon DEF Outermost, DisabledOk
      <4>2. Past(at, o)
        BY <2>9, <3>5, <4>1, Zenon DEF Apart
      <4>3. ~Outside(o, q)
        BY <1>1, <4>2, PastOutside, Zenon
      <4>4. saved[q] = "null"
        BY <2>8, <3>5, <4>3, Zenon DEF Outermost
      <4> QED
        BY <2>3, <2>7, <2>8, <3>5, <4>2, <4>4, Zenon DEF ModesOk
    <3> QED
      BY <2>8, <3>1, <3>2, <3>3, <3>4, <3>5, Zenon
  <2> QED
    BY <2>2, <2>3, <2>4, <2>5, <2>6, <2>12, <2>13, Finish, Zenon
<1> QED
  BY <1>3, <1>4, <1>5, Assemble, Zenon

LEMMA setenforceIs ==
  ASSUME PreparersInv, NEW q \in Keepers
  PROVE  \E m \in SelinuxModes :
           /\ ModeBecomes(device, m, setenforce(saved[q]))
           /\ AsItShouldBe /\ (setsMode(saved[q]) => device.root) =>
                m = IF saved[q] = "null" THEN device.selinux ELSE saved[q]
<1>1. device \in DeviceRecords /\ device.selinux \in SelinuxModes /\ saved \in SavedRecords
  BY Typed, Zenon
<1>2. ModeBecomes(device, device.selinux, device)
  BY <1>1, Zenon DEF ModeBecomes
<1>3. saved[q] \in SelinuxModes \cup {"null"}
  BY <1>1 DEF SavedRecords, Keepers
<1>4. CASE saved[q] \in {"Enforcing", "Permissive"} /\ device.root
  <2>1. saved[q] \in SelinuxModes /\ saved[q] # "null"
    BY <1>4 DEF SelinuxModes
  <2>2. setenforce(saved[q]) = [device EXCEPT !.selinux = saved[q]]
    BY <1>4, Zenon DEF setenforce, AsRoot
  <2>3. ModeBecomes(device, saved[q], setenforce(saved[q]))
    BY <1>1, <2>1, <2>2, ModeUpdate, Zenon
  <2> QED
    BY <2>1, <2>3, Zenon
<1>5. CASE saved[q] \in {"Enforcing", "Permissive"} /\ ~device.root
  <2>1. saved[q] # "null"
    BY <1>5
  <2>2. setenforce(saved[q]) = device
    BY <1>5, Zenon DEF setenforce, AsRoot
  <2>3. (setsMode(saved[q]) => device.root) => device.selinux = saved[q]
    BY <1>5, Zenon DEF setsMode
  <2> QED
    BY <1>1, <1>2, <2>1, <2>2, <2>3, Zenon
<1>6. CASE saved[q] \notin {"Enforcing", "Permissive"}
  <2>1. setenforce(saved[q]) = device
    BY <1>6, Zenon DEF setenforce
  <2>2. ASSUME AsItShouldBe, saved[q] # "null"
        PROVE  saved[q] = device.selinux
    <3>1. saved[q] = "Disabled"
      BY <1>3, <1>6, <2>2 DEF SelinuxModes
    <3>2. saved[q] = "Disabled" <=> device.selinux = "Disabled"
      BY <2>2, Zenon DEF AsItShouldBe, DisabledOk
    <3> QED
      BY <3>1, <3>2
  <2> QED
    BY <1>1, <1>2, <2>1, <2>2, Zenon
<1> QED
  BY <1>4, <1>5, <1>6

(* VtsCoveragePreparer.tearDown.                                           *)
LEMMA CoverageTearsDown ==
  ASSUME PreparersInv, coverageTearDown
  PROVE  PreparersInv'
<1>1. /\ options \in OptionRecords /\ device \in DeviceRecords /\ host \in SUBSET {"temp", "local"}
      /\ saved \in SavedRecords /\ AtOk(at) /\ device.files \in SUBSET PushedFiles /\ history \in HistoryRecords
  BY Typed, Zenon
<1>2. /\ at.phase = "tearDown" /\ Plan[at.pos] = "coverage" /\ at' = Return /\ options' = options /\ saved' = saved
      /\ cleanupCoverageData(setenforce(saved.coverage), saved.infoPath)
      /\ history' = Refused(setsMode(saved.coverage))
  BY Zenon DEF coverageTearDown, At
<1>3. "coverage" \in Keepers /\ saved["coverage"] = saved.coverage
  BY DEF Keepers
<1>4. IsHistory(history, history') /\ SameReboots(history, history') /\ NotRefused(history', setsMode(saved.coverage))
  BY <1>1, <1>2, RefusedIs, Zenon
<1> PICK d : d = setenforce(saved.coverage)
  BY Zenon
<1>5. PICK m \in SelinuxModes :
        /\ ModeBecomes(device, m, d)
        /\ AsItShouldBe /\ (setsMode(saved.coverage) => device.root) =>
             m = IF saved.coverage = "null" THEN device.selinux ELSE saved.coverage
  BY <1>3, setenforceIs, Zenon
<1> DEFINE gone == device.files \ {"vts_coverage_configure"}
<1>6. gone \in SUBSET PushedFiles /\ gone \cap TraceFiles = device.files \cap TraceFiles
  BY <1>1 DEF PushedFiles, TraceFiles
<1>7. device' = [d EXCEPT !.files = gone] /\ host' = host \ {saved.infoPath}
  BY <1>2, <1>5, Zenon DEF cleanupCoverageData, ModeBecomes
<1>8. FilesBecome(d, gone, device') /\ d \in DeviceRecords
  BY <1>5, <1>6, <1>7, FilesUpdate, Zenon DEF ModeBecomes
<1>9. /\ device' \in DeviceRecords /\ device'.radio = device.radio /\ device'.adapted = device.adapted
      /\ device'.sims = device.sims /\ device'.selinux = m /\ device'.files = gone
  BY <1>5, <1>8, Zenon DEF ModeBecomes, FilesBecome
<1>10. host' \in SUBSET {"temp", "local"}
  BY <1>1, <1>7, Zenon
<1>11. ASSUME Undisturbed', AsItShouldBe
       PROVE  device'.selinux = IF saved["coverage"] = "null" THEN device.selinux ELSE saved["coverage"]
  <2>1. setsMode(saved.coverage) => device.root
    BY <1>4, <1>11, Zenon DEF Undisturbed, NotRefused
  <2> QED
    BY <1>3, <1>5, <1>9, <1>11, <2>1, Zenon
<1>12. ASSUME AsItShouldBe, Step("coverage")
       PROVE  PushedOk(options', device', host', saved', at')
  <2>1. "trace" # "coverage"
    OBVIOUS
  <2>2. PushedOk(options, device, host, saved, at) /\ Apart(at, at', "trace")
    BY <1>12, <2>1, Zenon DEF AsItShouldBe, Step, Others
  <2>3. "temp" \notin host' /\ "vts_coverage_configure" \notin device'.files
    BY <1>7, <1>9, <2>2, Zenon DEF PushedOk
  <2>4. Before(at', "trace") \/ Past(at', "trace") => Before(at, "trace") \/ Past(at, "trace")
    BY <2>2, Zenon DEF Apart
  <2>5. Before(at, "trace") \/ Past(at, "trace") => device'.files \cap TraceFiles = {}
    BY <1>6, <1>9, <2>2, Zenon DEF PushedOk
  <2> QED
    BY <2>3, <2>4, <2>5, Zenon DEF PushedOk
<1>13. KeeperRestores("coverage")
  BY <1>4, <1>9, <1>10, <1>11, <1>12, Zenon DEF KeeperRestores
<1> QED
  BY <1>2, <1>3, <1>13, KeeperTearDown, Zenon

(* A step of the trace preparer's setUp before it looks at SELinux. *)
TraceMove ==
  /\ device' \in DeviceRecords
  /\ "vts_coverage_configure" \in device'.files <=> "vts_coverage_configure" \in device.files
  /\ device'.radio = device.radio /\ device'.selinux = device.selinux
  /\ device'.adapted = device.adapted /\ device'.sims = device.sims

LEMMA TraceMoves ==
  ASSUME PreparersInv, at.phase = "setUp", Plan[at.pos] = "trace", MovesOn, TraceMove,
         options' = options, history' = history, host' = host, saved' = saved
  PROVE  PreparersInv'
<1>1. /\ options \in OptionRecords /\ AtOk(at) /\ AtOk(at') /\ history \in HistoryRecords
      /\ host \in SUBSET {"temp", "local"} /\ saved \in SavedRecords
  BY Typed, Zenon DEF MovesOn
<1>2. PreparerTypes'
  BY <1>1, Zenon DEF PreparerTypes, TraceMove
<1>3. IsHistory(history, history') /\ SameReboots(history, history')
  BY <1>1, SameHistory, Zenon
<1>4. ASSUME Undisturbed'
      PROVE  AsItShouldBe'
  <2>1. "trace" # "device" /\ "trace" # "sim" /\ "trace" # "adapter"
    OBVIOUS
  <2>2. Step("trace") /\ at'.e # "device" /\ FarFromDevice(at, at') /\ ApartAll(at, at')
    BY <1>3, <1>4, <2>1, StepIs, Zenon
  <2>3. ~Before(at, "trace") /\ ~Past(at, "trace")
    BY <1>1, InPlace, Zenon
  <2>4. PushedOk(options, device, host, saved, at)
    BY <2>2, Zenon DEF Step, AsItShouldBe
  <2>5. Apart(at, at', "coverage") /\ Apart(at, at', "trace")
    BY <2>2, Zenon DEF ApartAll
  <2>6. PushedOk(options', device', host', saved', at')
    BY <2>3, <2>4, <2>5, Zenon DEF PushedOk, Apart, TraceMove
  <2>7. SimOk(device', saved', at', history')
    BY <2>1, <2>2, StepSims, Zenon DEF TraceMove
  <2>8. HalOk(device', saved', at', history')
    BY <2>1, <2>2, StepHal, Zenon DEF TraceMove
  <2>9. DisabledOk(device', saved', at', history') /\ ModesOk(device', saved', at', history')
    <3>1. SameKeepers(saved, saved') /\ device'.selinux = device.selinux
      BY Zenon DEF TraceMove, SameKeepers
    <3> QED
      BY <1>3, <2>1, <2>2, <3>1, StepModes, Zenon
  <2>10. SameFeatures(device, saved, device', saved')
    BY Zenon DEF TraceMove, SameFeatures
  <2> QED
    BY <2>2, <2>6, <2>7, <2>8, <2>9, <2>10, Finish, Zenon
<1> QED
  BY <1>2, <1>3, <1>4, Assemble, Zenon

LEMMA TraceFilesUpdate ==
  ASSUME NEW d \in DeviceRecords, NEW f \in SUBSET PushedFiles
  PROVE  FilesBecome([d EXCEPT !.root = TRUE], f, [d EXCEPT !.root = TRUE, !.files = f])
BY DEF DeviceRecords, FilesBecome

(* VtsTraceCollectPreparer pushes its files.                               *)
LEMMA TracePushSteps ==
  ASSUME PreparersInv, tracePushes \/ tracePushFails
  PROVE  PreparersInv'
<1>1. device \in DeviceRecords /\ AtOk(at) /\ device.files \in SUBSET PushedFiles
  BY Typed, Zenon
<1>2. /\ at.phase = "setUp" /\ Plan[at.pos] = "trace" /\ options' = options /\ history' = history
      /\ host' = host /\ saved' = saved
  BY Zenon DEF tracePushes, tracePushFails, At
<1>3. MovesOn
  BY <1>1, <1>2, MovesOnIs, Zenon DEF tracePushes, tracePushFails
<1> PICK d : d = [device EXCEPT !.root = TRUE]
  BY Zenon
<1>4. /\ d \in DeviceRecords /\ d.root /\ d.radio = device.radio /\ d.selinux = device.selinux
      /\ d.files = device.files /\ d.adapted = device.adapted /\ d.sims = device.sims
  BY <1>1 DEF DeviceRecords
<1>5. PICK f \in SUBSET PushedFiles :
        /\ "vts_coverage_configure" \in f <=> "vts_coverage_configure" \in device.files
        /\ FilesBecome(d, f, device')
  <2>1. CASE tracePushes
    <3>1. PICK pushed \in {{}, {"profiler", "libvts_"}} :
            device' = [device EXCEPT !.root = TRUE, !.files = @ \cup pushed \cup {"vts_profiling_configure"}]
      BY <2>1, Zenon DEF tracePushes
    <3>2. PICK f : f = device.files \cup pushed \cup {"vts_profiling_configure"}
      BY Zenon
    <3>3. f \in SUBSET PushedFiles /\ ("vts_coverage_configure" \in f <=> "vts_coverage_configure" \in device.files)
      BY <1>1, <3>1, <3>2 DEF PushedFiles, TraceFiles
    <3>4. device' = [device EXCEPT !.root = TRUE, !.files = f]
      BY <3>1, <3>2, Zenon
    <3>5. FilesBecome(d, f, device')
      BY <1>1, <3>3, <3>4, TraceFilesUpdate, Zenon
    <3> QED
      BY <3>3, <3>5, Zenon
  <2>2. CASE tracePushFails
    <3>2. PICK f : f = device.files \ TraceFiles
      BY Zenon
    <3>3. f \in SUBSET PushedFiles /\ ("vts_coverage_configure" \in f <=> "vts_coverage_configure" \in device.files)
      BY <1>1, <3>2 DEF PushedFiles, TraceFiles
    <3>4. device' = [d EXCEPT !.files = f]
      BY <1>4, <2>2, <3>2, Zenon DEF tracePushFails, removeProfilerLib
    <3>5. FilesBecome(d, f, device')
      BY <1>4, <3>3, <3>4, FilesUpdate, Zenon
    <3> QED
      BY <3>3, <3>5, Zenon
  <2> QED
    BY <2>1, <2>2
<1>6. TraceMove
  BY <1>4, <1>5, Zenon DEF TraceMove, FilesBecome
<1> QED
  BY <1>2, <1>3, <1>6, TraceMoves, Zenon

(* VtsTraceCollectPreparer.tearDown.                                       *)
LEMMA TraceTearsDown ==
  ASSUME PreparersInv, traceTearDown
  PROVE  PreparersInv'
<1>1. /\ options \in OptionRecords /\ device \in DeviceRecords /\ host \in SUBSET {"temp", "local"}
      /\ saved \in SavedRecords /\ AtOk(at) /\ device.files \in SUBSET PushedFiles /\ history \in HistoryRecords
  BY Typed, Zenon
<1> DEFINE needed == setsMode(saved.trace) \/ device.files \cap TraceFiles # {}
<1>2. /\ at.phase = "tearDown" /\ Plan[at.pos] = "trace" /\ at' = Return /\ options' = options /\ saved' = saved
      /\ host' = host /\ device' = removeProfilerLib(setenforce(saved.trace))
      /\ history' = Refused(needed)
  BY Zenon DEF traceTearDown, At
<1>3. "trace" \in Keepers /\ saved["trace"] = saved.trace
  BY DEF Keepers
<1>4. IsHistory(history, history') /\ SameReboots(history, history') /\ NotRefused(history', needed)
  BY <1>1, <1>2, RefusedIs, Zenon
<1> PICK d : d = setenforce(saved.trace)
  BY Zenon
<1>5. PICK m \in SelinuxModes :
        /\ ModeBecomes(device, m, d)
        /\ AsItShouldBe /\ (setsMode(saved.trace) => device.root) =>
             m = IF saved.trace = "null" THEN device.selinux ELSE saved.trace
  BY <1>3, setenforceIs, Zenon
<1> DEFINE gone == device.files \ TraceFiles
<1>6. /\ gone \in SUBSET PushedFiles /\ gone \cap TraceFiles = {}
      /\ "vts_coverage_configure" \in gone <=> "vts_coverage_configure" \in device.files
  BY <1>1 DEF PushedFiles, TraceFiles
<1>7. d \in DeviceRecords /\ d.root = device.root /\ d.files = device.files
  BY <1>5, Zenon DEF ModeBecomes
<1>8. PICK f : /\ FilesBecome(d, f, device') /\ (device.root => f = gone)
               /\ f = gone \/ f = device.files
  <2>1. CASE device.root
    <3>1. device' = [d EXCEPT !.files = gone]
      BY <1>2, <1>7, <2>1, Zenon DEF removeProfilerLib
    <3>2. FilesBecome(d, gone, device')
      BY <1>6, <1>7, <3>1, FilesUpdate, Zenon
    <3> QED
      BY <3>2, Zenon
  <2>2. CASE ~device.root
    <3>1. device' = d
      BY <1>2, <1>7, <2>2, Zenon DEF removeProfilerLib
    <3>2. FilesBecome(d, device.files, device')
      BY <1>7, <3>1, Zenon DEF FilesBecome
    <3> QED
      BY <2>2, <3>2, Zenon
  <2> QED
    BY <2>1, <2>2
<1>9. /\ device' \in DeviceRecords /\ device'.radio = device.radio /\ device'.adapted = device.adapted
      /\ device'.sims = device.sims /\ device'.selinux = m /\ device'.files = f
  BY <1>5, <1>8, Zenon DEF ModeBecomes, FilesBecome
<1>11. ASSUME Undisturbed'
       PROVE  needed => device.root
  BY <1>4, <1>11, Zenon DEF Undisturbed, NotRefused
<1>12. ASSUME Undisturbed', AsItShouldBe
       PROVE  device'.selinux = IF saved["trace"] = "null" THEN device.selinux ELSE saved["trace"]
  <2>1. setsMode(saved.trace) => device.root
    BY <1>11, <1>12, Zenon
  <2> QED
    BY <1>3, <1>5, <1>9, <1>12, <2>1, Zenon
<1>13. ASSUME Undisturbed', AsItShouldBe, Step("trace")
       PROVE  PushedOk(options', device', host', saved', at')
  <2>1. "trace" # "coverage"
    OBVIOUS
  <2>2. PushedOk(options, device, host, saved, at) /\ Apart(at, at', "coverage")
    BY <1>13, <2>1, Zenon DEF AsItShouldBe, Step, Others
  <2>3. device'.files \cap TraceFiles = {}
    BY <1>6, <1>8, <1>9, <1>11, <1>13, Zenon
  <2>4. Before(at', "coverage") \/ Past(at', "coverage") => Before(at, "coverage") \/ Past(at, "coverage")
    BY <2>2, Zenon DEF Apart
  <2>5. "vts_coverage_configure" \in device'.files <=> "vts_coverage_configure" \in device.files
    BY <1>6, <1>8, <1>9, Zenon
  <2> QED
    BY <1>2, <2>2, <2>3, <2>4, <2>5, Zenon DEF PushedOk
<1>14. KeeperRestores("trace")
  BY <1>1, <1>2, <1>4, <1>9, <1>12, <1>13, Zenon DEF KeeperRestores
<1> QED
  BY <1>2, <1>3, <1>14, KeeperTearDown, Zenon
-----------------------------------------------------------------------------
(* A step of the adapters' preparer. *)
AdapterDevice(d, d2) ==
  /\ d2 \in DeviceRecords /\ d2.radio = d.radio /\ d2.selinux = d.selinux /\ d2.files = d.files /\ d2.sims = d.sims
CommandsBecome(s, c, s2) ==
  /\ s2 \in SavedRecords /\ s2.commands = c /\ s2.infoPath = s.infoPath /\ s2.sims = s.sims
  /\ s2.root = s.root /\ s2.framework = s.framework /\ s2.radioLog = s.radioLog /\ s2.property = s.property
  /\ s2.rebootSetup = s.rebootSetup /\ s2.rebootTearDown = s.rebootTearDown
  /\ s2.coverage = s.coverage /\ s2.trace = s.trace
AdapterMove ==
  /\ AdapterDevice(device, device')
  /\ IsHistory(history, history') /\ SameReboots(history, history')
  /\ CommandsBecome(saved, saved'.commands, saved')
  /\ Undisturbed' /\ AsItShouldBe => HalOk(device', saved', at', history')

RunsBecome(d, b, d2) == AdapterDevice(d, d2) /\ d2.adapted = b

LEMMA AdapterUpdate ==
  ASSUME NEW d \in DeviceRecords
  PROVE  /\ RunsBecome(d, d.adapted, d)
         /\ RunsBecome(d, d.adapted, [d EXCEPT !.root = TRUE])
         /\ RunsBecome(d, d.adapted, [d EXCEPT !.framework = TRUE])
<1>1. RunsBecome(d, d.adapted, d)
  BY Zenon DEF RunsBecome, AdapterDevice
<1>2. RunsBecome(d, d.adapted, [d EXCEPT !.root = TRUE])
  BY DEF DeviceRecords, RunsBecome, AdapterDevice
<1>3. RunsBecome(d, d.adapted, [d EXCEPT !.framework = TRUE])
  BY DEF DeviceRecords, RunsBecome, AdapterDevice
<1> QED
  BY <1>1, <1>2, <1>3

LEMMA AdaptedUpdate ==
  ASSUME NEW d \in DeviceRecords, NEW b \in BOOLEAN
  PROVE  RunsBecome(d, b, [d EXCEPT !.adapted = b])
<1>1. AdapterDevice(d, [d EXCEPT !.adapted = b])
  BY DEF DeviceRecords, AdapterDevice
<1>2. [d EXCEPT !.adapted = b].adapted = b
  BY SMTT(40) DEF DeviceRecords
<1> QED
  BY <1>1, <1>2, Zenon DEF RunsBecome

LEMMA CommandsUpdate ==
  ASSUME NEW s \in SavedRecords, NEW c \in BOOLEAN
  PROVE  CommandsBecome(s, c, [s EXCEPT !.commands = c])
BY SMTT(40) DEF SavedRecords, CommandsBecome

LEMMA AdapterMoves ==
  ASSUME PreparersInv, at.phase \in {"setUp", "tearDown"}, Plan[at.pos] = "adapter", MovesOn, AdapterMove,
         options' = options, host' = host
  PROVE  PreparersInv'
<1>1. /\ options \in OptionRecords /\ AtOk(at) /\ AtOk(at') /\ history \in HistoryRecords
      /\ host \in SUBSET {"temp", "local"} /\ saved \in SavedRecords
  BY Typed, Zenon DEF MovesOn
<1>2. IsHistory(history, history') /\ SameReboots(history, history')
  BY Zenon DEF AdapterMove
<1>3. PreparerTypes'
  BY <1>1, <1>2, Zenon DEF PreparerTypes, AdapterMove, AdapterDevice, CommandsBecome, IsHistory
<1>4. ASSUME Undisturbed'
      PROVE  AsItShouldBe'
  <2>1. "adapter" # "device" /\ "adapter" # "sim" /\ "adapter" \notin Keepers
    BY DEF Keepers
  <2>2. Step("adapter") /\ at'.e # "device" /\ FarFromDevice(at, at')
    BY <1>2, <1>4, <2>1, StepIs, Zenon
  <2>3. HalOk(device', saved', at', history')
    BY <1>4, <2>2, Zenon DEF AdapterMove, Step
  <2>4. SimOk(device', saved', at', history')
    BY <2>1, <2>2, StepSims, Zenon DEF AdapterMove, AdapterDevice, CommandsBecome
  <2>5. PushedOk(options', device', host', saved', at')
    BY <2>1, <2>2, StepPushed, Zenon DEF AdapterMove, AdapterDevice, CommandsBecome
  <2>6. SameFeatures(device, saved, device', saved')
    BY Zenon DEF AdapterMove, AdapterDevice, CommandsBecome, SameFeatures
  <2>7. DisabledOk(device', saved', at', history') /\ ModesOk(device', saved', at', history')
    <3>1. /\ SameKeepers(saved, saved') /\ device'.selinux = device.selinux
          /\ saved'.rebootSetup = saved.rebootSetup /\ saved'.rebootTearDown = saved.rebootTearDown
      BY Zenon DEF AdapterMove, AdapterDevice, CommandsBecome, SameKeepers
    <3> QED
      BY <1>2, <2>1, <2>2, <3>1, StepModes, Zenon
  <2> QED
    BY <2>2, <2>3, <2>4, <2>5, <2>6, <2>7, Finish, Zenon
<1> QED
  BY <1>2, <1>3, <1>4, Assemble, Zenon

(* Where only "an adapter that runs has its command remembered" is asked. *)
AdapterIdle(a) ==
  /\ ~Before(a, "adapter") /\ ~Past(a, "adapter")
  /\ ~AdapterStep3(a) /\ ~AdapterStarted(a) /\ ~AdapterStopped(a)

LEMMA AdapterLeaves ==
  ASSUME AtOk(at), AtOk(at'), at.phase = "setUp", Plan[at.pos] = "adapter", Returned(at, at') \/ Aborted(at, at')
  PROVE  AdapterIdle(at')
<1>1. at.pos \in 1..Len(Plan) /\ Len(Plan) \in Nat /\ at'.pos \in 1..Len(Plan)
  BY PlanFacts DEF AtOk, AtRecords, Positions
<1>2. ApartAll(at, at') /\ ~Before(at, "adapter") /\ ~Past(at, "adapter")
  BY MovesApart, InPlace, Zenon
<1>3. ~Before(at', "adapter") /\ ~Past(at', "adapter")
  BY <1>2, Zenon DEF ApartAll, Apart
<1>4. at'.step = 1 /\ ~(at'.step >= 3) /\ ~(at'.step >= 2)
  BY DEF Returned, Aborted
<1>5. at'.phase = "setUp" => at'.pos # at.pos
  BY <1>1 DEF Returned, Aborted
<1>6. ~AdapterStep3(at')
  BY <1>1, <1>5, PlanFacts, Zenon DEF AdapterStep3
<1> QED
  BY <1>3, <1>4, <1>6, Zenon DEF AdapterIdle, AdapterStarted, AdapterStopped

LEMMA HalIdle ==
  ASSUME AdapterIdle(at'), device'.adapted => saved'.commands
  PROVE  HalOk(device', saved', at', history')
BY Zenon DEF HalOk, AdapterIdle

LEMMA AdapterStays ==
  ASSUME AtOk(at), AtOk(at'), at.phase = "setUp", Plan[at.pos] = "adapter", Stays(at, at')
  PROVE  /\ ~Before(at', "adapter") /\ ~Past(at', "adapter") /\ ~AdapterStopped(at')
         /\ at.step = 1 => ~AdapterStarted(at')
         /\ at.step = 3 => ~AdapterStep3(at')
<1>1. ApartAll(at, at') /\ ~Before(at, "adapter") /\ ~Past(at, "adapter")
  BY MovesApart, InPlace, Zenon
<1>2. ~Before(at', "adapter") /\ ~Past(at', "adapter")
  BY <1>1, Zenon DEF ApartAll, Apart
<1>3. ~AdapterStopped(at')
  BY DEF Stays, AdapterStopped
<1>4. at.step = 1 => ~AdapterStarted(at')
  BY DEF Stays, AdapterStarted
<1>5. at.step = 3 => ~AdapterStep3(at')
  BY DEF Stays, AdapterStep3
<1> QED
  BY <1>2, <1>3, <1>4, <1>5

LEMMA AdapterEarly ==
  ASSUME AsItShouldBe, at.phase = "setUp", Plan[at.pos] = "adapter"
  PROVE  /\ at.step \in {1, 2, 3} => ~device.adapted
         /\ at.step = 3 => saved.commands
         /\ device.adapted => saved.commands
<1>1. at.step \in {1, 2, 3} => at.step <= 3
  OBVIOUS
<1>2. at.step = 3 => at.step >= 3
  OBVIOUS
<1> QED
  BY <1>1, <1>2, Zenon DEF AsItShouldBe, HalOk, AdapterStep3, AdapterStarted

(* VtsHalAdapterPreparer.setUp.                                            *)
LEMMA AdapterSetUpSteps ==
  ASSUME PreparersInv, adapterPushes \/ adapterLists \/ adapterStarts \/ adapterRestarts
  PROVE  PreparersInv'
<1>1. device \in DeviceRecords /\ AtOk(at) /\ saved \in SavedRecords /\ history \in HistoryRecords
  BY Typed, Zenon
<1>2. at.phase = "setUp" /\ Plan[at.pos] = "adapter" /\ options' = options /\ host' = host
  BY Zenon DEF adapterPushes, adapterLists, adapterStarts, adapterRestarts, At
<1>3. /\ MovesOn /\ AtOk(at')
      /\ \/ at' = NextStep /\ Stays(at, at')
         \/ Returned(at, at') \/ Aborted(at, at')
  <2>1. at' = NextStep \/ at' = Return \/ Abort("setup")
    BY Zenon DEF adapterPushes, adapterLists, adapterStarts, adapterRestarts
  <2>2. MovesOn
    BY <1>1, <1>2, <2>1, MovesOnIs, Zenon
  <2>3. "setup" \in {"device", "setup"}
    OBVIOUS
  <2> QED
    BY <1>1, <1>2, <2>1, <2>2, <2>3, NextStepIs, ReturnIs, AbortIs, Zenon DEF MovesOn
<1>4. IsHistory(history, history) /\ SameReboots(history, history)
  BY <1>1, SameHistory, Zenon
<1>5. AdapterDevice(device, device) /\ CommandsBecome(saved, saved.commands, saved)
  BY <1>1, Zenon DEF AdapterDevice, CommandsBecome
<1>6. ASSUME Returned(at, at') \/ Aborted(at, at'), AsItShouldBe => (device'.adapted => saved'.commands)
      PROVE  AsItShouldBe => HalOk(device', saved', at', history')
  BY <1>1, <1>2, <1>3, <1>6, AdapterLeaves, HalIdle, Zenon
<1>7. CASE adapterPushes
  <2>1. /\ device' = [device EXCEPT !.root = TRUE] /\ saved' = saved /\ history' = history /\ at.step = 1
        /\ at' = NextStep \/ Abort("setup")
    BY <1>7, Zenon DEF adapterPushes, At
  <2>2. AdapterDevice(device, device') /\ device'.adapted = device.adapted
    BY <1>1, <2>1, AdapterUpdate, Zenon DEF RunsBecome
  <2>3. AsItShouldBe => ~device'.adapted
    BY <1>2, <2>1, <2>2, AdapterEarly
  <2>4. Stays(at, at') /\ AsItShouldBe => HalOk(device', saved', at', history')
    BY <1>1, <1>2, <1>3, <2>1, <2>3, AdapterStays, Zenon DEF HalOk
  <2>5. AdapterMove
    BY <1>3, <1>4, <1>5, <1>6, <2>1, <2>2, <2>3, <2>4, Zenon DEF AdapterMove
  <2> QED
    BY <1>2, <1>3, <2>5, AdapterMoves, Zenon
<1>8. CASE adapterLists
  <2>1. /\ device' = device /\ history' = history /\ at.step = 2
        /\ \/ at' = Return /\ saved' = saved
           \/ saved' = [saved EXCEPT !.commands = TRUE] /\ at' = NextStep
           \/ \E b \in BOOLEAN : saved' = [saved EXCEPT !.commands = b] /\ Abort("setup")
    BY <1>8, Zenon DEF adapterLists, At
  <2>2. CommandsBecome(saved, saved'.commands, saved')
    <3>1. CASE saved' = saved
      BY <1>5, <3>1, Zenon
    <3>2. ASSUME NEW c \in BOOLEAN, saved' = [saved EXCEPT !.commands = c]
          PROVE  CommandsBecome(saved, saved'.commands, saved')
      <4>1. CommandsBecome(saved, c, saved')
        BY <1>1, <3>2, CommandsUpdate, Zenon
      <4> QED
        BY <4>1, Zenon DEF CommandsBecome
    <3> QED
      BY <2>1, <3>1, <3>2, Zenon
  <2>3. AsItShouldBe => ~device'.adapted
    BY <1>2, <2>1, AdapterEarly
  <2>4. ASSUME Stays(at, at')
        PROVE  saved'.commands
    <3>1. at' # Return
      <4>1. at' = Return => Returned(at, at')
        BY <1>1, <1>2, ReturnIs, Zenon
      <4>2. at.step \in Nat /\ at'.step = 3
        BY <1>1, <2>1, <2>4 DEF AtOk, AtRecords, Stays
      <4>3. ~Returned(at, at')
        BY <4>2 DEF Returned
      <4> QED
        BY <4>1, <4>3, Zenon
    <3>2. ~Abort("setup")
      <4>1. Abort("setup") => Aborted(at, at')
        <5>1. "setup" \in {"device", "setup"}
          OBVIOUS
        <5> QED
          BY <1>1, <1>2, <5>1, AbortIs, Zenon
      <4>2. ~Aborted(at, at')
        BY <2>4, <1>2 DEF Aborted, Stays
      <4> QED
        BY <4>1, <4>2, Zenon
    <3>3. saved' = [saved EXCEPT !.commands = TRUE]
      BY <2>1, <3>1, <3>2, Zenon
    <3>4. CommandsBecome(saved, TRUE, saved')
      BY <1>1, <3>3, CommandsUpdate, Zenon
    <3> QED
      BY <3>4, Zenon DEF CommandsBecome
  <2>5. Stays(at, at') /\ AsItShouldBe => HalOk(device', saved', at', history')
    BY <1>1, <1>2, <1>3, <2>3, <2>4, AdapterStays, Zenon DEF HalOk
  <2>6. AdapterMove
    BY <1>3, <1>4, <1>5, <1>6, <2>1, <2>2, <2>3, <2>5, Zenon DEF AdapterMove
  <2> QED
    BY <1>2, <1>3, <2>6, AdapterMoves, Zenon
<1>9. CASE adapterStarts
  <2>1. /\ saved' = saved /\ history' = history /\ at.step = 3
        /\ \E b \in BOOLEAN : device' = [device EXCEPT !.adapted = b]
    BY <1>9, Zenon DEF adapterStarts, At
  <2>2. AdapterDevice(device, device')
    BY <1>1, <2>1, AdaptedUpdate, Zenon DEF RunsBecome
  <2>3. AsItShouldBe => saved'.commands
    BY <1>2, <2>1, AdapterEarly, Zenon
  <2>4. Stays(at, at') /\ AsItShouldBe => HalOk(device', saved', at', history')
    BY <1>1, <1>2, <1>3, <2>1, <2>3, AdapterStays, Zenon DEF HalOk
  <2>5. AdapterMove
    BY <1>3, <1>4, <1>5, <1>6, <2>1, <2>2, <2>3, <2>4, Zenon DEF AdapterMove
  <2> QED
    BY <1>2, <1>3, <2>5, AdapterMoves, Zenon
<1>10. CASE adapterRestarts
  <2>1. /\ saved' = saved /\ history' = Refused(TRUE)
        /\ device' = device \/ device' = [device EXCEPT !.framework = TRUE]
        /\ at' = Return \/ Abort("setup")
    BY <1>10, Zenon DEF adapterRestarts, restartFramework, AsRoot
  <2>2. AdapterDevice(device, device') /\ device'.adapted = device.adapted
    BY <1>1, <2>1, AdapterUpdate, Zenon DEF RunsBecome
  <2>3. AsItShouldBe => (device'.adapted => saved'.commands)
    BY <1>2, <2>1, <2>2, AdapterEarly, Zenon
  <2>4. Returned(at, at') \/ Aborted(at, at')
    <3>1. "setup" \in {"device", "setup"}
      OBVIOUS
    <3> QED
      BY <1>1, <1>2, <2>1, <3>1, ReturnIs, AbortIs, Zenon
  <2>5. IsHistory(history, history') /\ SameReboots(history, history')
    BY <1>1, <2>1, RefusedIs, Zenon
  <2>6. AdapterMove
    BY <1>5, <1>6, <2>1, <2>2, <2>3, <2>4, <2>5, Zenon DEF AdapterMove
  <2> QED
    BY <1>2, <1>3, <2>6, AdapterMoves, Zenon
<1> QED
  BY <1>7, <1>8, <1>9, <1>10

LEMMA UnrestoredIs ==
  ASSUME NEW h \in HistoryRecords, NEW h2 \in HistoryRecords, IsHistory(h, h2), SameReboots(h, h2)
  PROVE  /\ IsHistory(h, [h2 EXCEPT !.unrestored = TRUE]) /\ SameReboots(h, [h2 EXCEPT !.unrestored = TRUE])
         /\ [h2 EXCEPT !.unrestored = TRUE].unrestored /\ [h2 EXCEPT !.unrestored = TRUE].refused = h2.refused
<1> PICK h3 : h3 = [h2 EXCEPT !.unrestored = TRUE]
  OBVIOUS
<1>1. h3 \in HistoryRecords /\ h3.initial = h2.initial
  BY DEF HistoryRecords
<1>2. h3.lost = h2.lost /\ h3.refused = h2.refused /\ h3.unread = h2.unread
  BY DEF HistoryRecords
<1>3. h3.rebooted = h2.rebooted /\ h3.unrestored
  BY DEF HistoryRecords
<1>4. IsHistory(h, h3) /\ SameReboots(h, h3)
  BY <1>1, <1>2, <1>3, Zenon DEF IsHistory, SameReboots
<1> QED
  BY <1>2, <1>3, <1>4, Zenon

(* VtsHalAdapterPreparer.tearDown.                                         *)
LEMMA AdapterTearDownSteps ==
  ASSUME PreparersInv, adapterStops \/ adapterRestores
  PROVE  PreparersInv'
<1>1. device \in DeviceRecords /\ AtOk(at) /\ saved \in SavedRecords /\ history \in HistoryRecords
  BY Typed, Zenon
<1>2. at.phase = "tearDown" /\ Plan[at.pos] = "adapter" /\ options' = options /\ host' = host /\ saved' = saved
  BY Zenon DEF adapterStops, adapterRestores, At
<1>3. /\ MovesOn /\ AtOk(at') /\ (at' = Return => Returned(at, at'))
      /\ Stays(at, at') \/ Returned(at, at')
  <2>1. at' = NextStep \/ at' = Return
    BY Zenon DEF adapterStops, adapterRestores
  <2>2. MovesOn
    BY <1>1, <1>2, <2>1, MovesOnIs, Zenon
  <2> QED
    BY <1>1, <1>2, <2>1, <2>2, NextStepIs, ReturnIs, Zenon DEF MovesOn
<1>4. /\ IsHistory(history, history) /\ SameReboots(history, history)
      /\ IsHistory(history, Refused(TRUE)) /\ SameReboots(history, Refused(TRUE)) /\ NotRefused(Refused(TRUE), TRUE)
      /\ Refused(TRUE) \in HistoryRecords
  BY <1>1, SameHistory, RefusedIs, Zenon DEF IsHistory
<1>5. AdapterDevice(device, device) /\ CommandsBecome(saved, saved.commands, saved)
  BY <1>1, Zenon DEF AdapterDevice, CommandsBecome
<1>6. ~AdapterStarted(at') /\ ~AdapterStep3(at')
  <2>1. at'.phase # "setUp"
    BY <1>2, <1>3 DEF Stays, Returned
  <2> QED
    BY <2>1, Zenon DEF AdapterStarted, AdapterStep3
<1>7. ~Before(at', "adapter")
  <2>1. CASE Stays(at, at')
    BY <1>1, <1>2, <2>1, InPlace, Zenon DEF Stays, Before
  <2>2. CASE Returned(at, at')
    BY <1>1, <1>2, <1>3, <2>2, ReturnedIsNotAhead, BeforeIsAhead, Zenon
  <2> QED
    BY <1>3, <2>1, <2>2
<1>8. ASSUME AsItShouldBe, device'.adapted => device.adapted, history'.unrestored \/ ~device'.adapted
      PROVE  HalOk(device', saved', at', history')
  BY <1>2, <1>6, <1>7, <1>8, Zenon DEF HalOk, AsItShouldBe
<1>9. CASE adapterStops
  <2>1. CASE ~saved.commands
    <3>1. device' = device /\ history' = history
      BY <1>9, <2>1, Zenon DEF adapterStops
    <3>2. AsItShouldBe => ~device.adapted
      BY <2>1, Zenon DEF AsItShouldBe, HalOk
    <3>3. AdapterMove
      BY <1>2, <1>4, <1>5, <1>8, <3>1, <3>2, Zenon DEF AdapterMove
    <3> QED
      BY <1>2, <1>3, <3>3, AdapterMoves, Zenon
  <2>2. CASE saved.commands /\ device' = AsRoot([device EXCEPT !.adapted = FALSE]) /\ history' = Refused(TRUE)
    <3>1. PICK d : d = [device EXCEPT !.adapted = FALSE]
      BY Zenon
    <3>2. FALSE \in BOOLEAN
      OBVIOUS
    <3>3. AdapterDevice(device, d) /\ ~d.adapted
      BY <1>1, <3>1, <3>2, AdaptedUpdate, Zenon DEF RunsBecome
    <3>4. device' = d \/ (device' = device /\ ~device.root)
      BY <2>2, <3>1, Zenon DEF AsRoot
    <3>5. Undisturbed' => device.root
      BY <1>4, <2>2, Zenon DEF Undisturbed, NotRefused
    <3>6. AdapterDevice(device, device') /\ (Undisturbed' => ~device'.adapted)
      BY <1>5, <3>3, <3>4, <3>5, Zenon
    <3>7. AdapterMove
      BY <1>2, <1>4, <1>5, <1>8, <2>2, <3>6, Zenon DEF AdapterMove
    <3> QED
      BY <1>2, <1>3, <3>7, AdapterMoves, Zenon
  <2>3. CASE saved.commands /\ device' = device /\ history' = [Refused(TRUE) EXCEPT !.unrestored = TRUE]
    <3>1. IsHistory(history, history') /\ SameReboots(history, history') /\ history'.unrestored
      BY <1>1, <1>4, <2>3, UnrestoredIs, Zenon
    <3>2. AdapterMove
      BY <1>2, <1>5, <1>8, <2>3, <3>1, Zenon DEF AdapterMove
    <3> QED
      BY <1>2, <1>3, <3>2, AdapterMoves, Zenon
  <2> QED
    BY <1>9, <2>1, <2>2, <2>3, Zenon DEF adapterStops
<1>10. CASE adapterRestores
  <2>1. /\ history' = Refused(TRUE) /\ at.step = 2
        /\ device' = device \/ device' = [device EXCEPT !.framework = TRUE]
    BY <1>10, Zenon DEF adapterRestores, restartFramework, AsRoot, At
  <2>2. AdapterDevice(device, device') /\ device'.adapted = device.adapted
    BY <1>1, <2>1, AdapterUpdate, Zenon DEF RunsBecome
  <2>3. IsHistory(history, history') /\ SameReboots(history, history')
    BY <1>4, <2>1, Zenon
  <2>4. AsItShouldBe => history.unrestored \/ ~device.adapted
    <3>1. at.step >= 2
      BY <2>1
    <3> QED
      BY <1>2, <3>1, Zenon DEF AsItShouldBe, HalOk, AdapterStopped
  <2>5. history.unrestored => history'.unrestored
    BY <2>3, Zenon DEF IsHistory
  <2>6. AdapterMove
    BY <1>2, <1>5, <1>8, <2>2, <2>3, <2>4, <2>5, Zenon DEF AdapterMove
  <2> QED
    BY <1>2, <1>3, <2>6, AdapterMoves, Zenon
<1> QED
  BY <1>9, <1>10
-----------------------------------------------------------------------------
Boots(d, d2) ==
  /\ d2 \in DeviceRecords /\ d2.radio = d.radio /\ d2.files = d.files /\ d2.sims = d.sims /\ ~d2.adapted
  /\ d2.selinux = "Disabled" <=> d.selinux = "Disabled"

(* What a reboot makes of the device.                                      *)
LEMMA BootedIs ==
  ASSUME options \in OptionRecords, NEW d \in DeviceRecords
  PROVE  Boots(d, Booted(d)) /\ Booted(d).framework = TRUE
<1>1. options.bootRoot \in BOOLEAN
  BY DEF OptionRecords
<1>2. d.selinux \in SelinuxModes
  BY DEF DeviceRecords
<1>3. PICK m \in SelinuxModes : m = (IF d.selinux = "Disabled" THEN d.selinux ELSE "Enforcing")
  BY <1>2 DEF SelinuxModes
<1>4. m = "Disabled" <=> d.selinux = "Disabled"
  BY <1>3
<1> PICK r \in BOOLEAN : r = options.bootRoot
  BY <1>1, Zenon
<1>5. Booted(d) = [d EXCEPT !.root = r, !.framework = TRUE, !.adapted = FALSE, !.selinux = m]
  BY <1>3, Zenon DEF Booted
<1> PICK d2 : d2 = [d EXCEPT !.root = r, !.framework = TRUE, !.adapted = FALSE, !.selinux = m]
  OBVIOUS
<1> PICK radios, sets, counts, bits :
      /\ radios = [{"new", "old"} -> {"null", "0", "1"}] /\ sets = SUBSET PushedFiles /\ counts = Nat \ {0}
      /\ bits = BOOLEAN
  OBVIOUS
<1>r. DeviceRecords = [root : bits, framework : bits, radio : radios, selinux : SelinuxModes, files : sets,
                       adapted : bits, sims : counts]
  BY Zenon DEF DeviceRecords
<1>b. PICK yes, no \in bits : yes = TRUE /\ no = FALSE
  BY Zenon
<1>6. d2 \in DeviceRecords
  <2>1. d2 = [d EXCEPT !.root = r, !.framework = yes, !.adapted = no, !.selinux = m]
    BY <1>b, Zenon
  <2>2. r \in bits
    BY Zenon
  <2> QED
    BY <1>r, <2>1, <2>2
<1>7. d2.radio = d.radio /\ d2.files = d.files /\ d2.sims = d.sims /\ d2.selinux = m
  BY SMTT(40) DEF DeviceRecords
<1>8. d2.adapted = FALSE /\ d2.framework = TRUE
  BY SMTT(40) DEF DeviceRecords
<1>9. Boots(d, d2)
  BY <1>4, <1>6, <1>7, <1>8, Zenon DEF Boots
<1> QED
  BY <1>5, <1>8, <1>9, Zenon

LEMMA UndonePlan ==
  ASSUME PreparersInv, UNCHANGED vars
  PROVE  PreparersInv'
BY Zenon DEF vars, PreparersInv, PreparerTypes, AsItShouldBe, Undisturbed

(* DeviceLost: the run counts as disturbed from here on.                   *)
LEMMA LostStep ==
  ASSUME PreparersInv, DeviceLost
  PROVE  PreparersInv'
<1>1. /\ options \in OptionRecords /\ device \in DeviceRecords /\ host \in SUBSET {"temp", "local"}
      /\ saved \in SavedRecords /\ AtOk(at) /\ history \in HistoryRecords
  BY Typed, Zenon
<1>2. history' \in HistoryRecords /\ history'.lost
  BY <1>1 DEF DeviceLost, HistoryRecords
<1>3. at \in AtRecords /\ at.phase \in PhasesOfPlan /\ at.pos \in Positions /\ at.moves \in Nat /\ at.e \in Failures
  BY <1>1 DEF AtOk, AtRecords
<1>4. AtOk(at')
  <2>1. CASE at.phase = "setUp"
    <3>1. "device" \in {"device", "setup"} /\ Abort("device")
      BY <2>1, Zenon DEF DeviceLost
    <3> QED
      BY <1>1, <2>1, <3>1, AbortIs, Zenon
  <2>2. CASE at.phase = "test"
    <3>1. at' = [at EXCEPT !.phase = "tearDown", !.moves = 0, !.e = "device"]
      BY <2>2 DEF DeviceLost
    <3>2. at.step = 1
      BY <1>1, <2>2, Zenon DEF AtOk
    <3>3. at' = [at EXCEPT !.phase = "tearDown", !.pos = at.pos, !.step = 1, !.e = "device", !.moves = 0]
      BY <1>3, <3>1, <3>2 DEF AtRecords
    <3>4. "tearDown" \in PhasesOfPlan /\ "device" \in Failures /\ 0 \in Nat /\ "tearDown" # "test"
      BY DEF PhasesOfPlan, Failures
    <3>5. IsAt(at', "tearDown", at.pos, "device")
      BY <1>3, <3>3, <3>4, AtUpdate, Zenon
    <3> QED
      BY <3>4, <3>5, Zenon DEF IsAt, AtOk
  <2>3. CASE at.phase = "tearDown"
    <3>1. at' = Return
      BY <2>3 DEF DeviceLost
    <3> QED
      BY <1>1, <2>3, <3>1, ReturnIs, Zenon
  <2> QED
    BY <1>3, <2>1, <2>2, <2>3 DEF PhasesOfPlan, DeviceLost
<1>5. PreparerTypes'
  BY <1>1, <1>2, <1>4, Zenon DEF PreparerTypes, DeviceLost
<1> QED
  BY <1>2, <1>5, Zenon DEF PreparersInv, Undisturbed

LEMMA TestIs ==
  ASSUME AtOk(at), at.phase = "test", NEW ph \in {"test", "tearDown"}, NEW m \in Nat,
         at' = [at EXCEPT !.phase = ph, !.moves = m]
  PROVE  AtOk(at') /\ Tested(at, at')
<1>1. at \in AtRecords /\ at.pos \in Positions /\ at.e \in Failures
  BY DEF AtOk, AtRecords
<1>2. at.step = 1 /\ at.pos = Len(Plan)
  BY Zenon DEF AtOk
<1>3. at' = [at EXCEPT !.phase = ph, !.pos = at.pos, !.step = 1, !.e = at.e, !.moves = m]
  BY <1>1, <1>2 DEF AtRecords
<1>4. ph \in PhasesOfPlan
  BY DEF PhasesOfPlan
<1>5. IsAt(at', ph, at.pos, at.e)
  BY <1>1, <1>3, <1>4, AtUpdate, Zenon
<1> QED
  BY <1>2, <1>5, Zenon DEF IsAt, AtOk, Tested

LEMMA TestStepIs ==
  ASSUME PreparersInv, AtOk(at'), Tested(at, at'), IsHistory(history, history'), options' = options, Undisturbed'
  PROVE  Step("test") /\ at'.e # "device" /\ FarFromDevice(at, at') /\ at'.phase # "setUp"
<1>1. Undisturbed
  BY Undisturbed2, Zenon
<1>2. AsItShouldBe /\ AtOk(at)
  BY <1>1, Zenon DEF PreparersInv, PreparerTypes
<1>3. Others(at, at', "test") /\ FarFromDevice(at, at')
  BY TestedFar, Zenon
<1>4. at'.e # "device"
  BY <1>2, Zenon DEF Tested, AsItShouldBe
<1>5. at'.phase # "setUp"
  BY DEF Tested
<1> QED
  BY <1>1, <1>2, <1>3, <1>4, <1>5, Zenon DEF Step

(* What the test does to the device, but for a reboot. *)
TestDevice(d, d2) ==
  /\ d2 \in DeviceRecords /\ d2.selinux = d.selinux /\ d2.files = d.files /\ d2.sims = d.sims
  /\ d2.adapted = d.adapted
  /\ d.radio["new"] # "null" => d2.radio["new"] # "null"
  /\ d2.radio["old"] = d.radio["old"]

(* The test, which may reboot the device and change its features.          *)
LEMMA TestSteps ==
  ASSUME PreparersInv, TestMoves \/ TestEnds
  PROVE  PreparersInv'
<1>1. /\ options \in OptionRecords /\ device \in DeviceRecords /\ host \in SUBSET {"temp", "local"}
      /\ saved \in SavedRecords /\ AtOk(at) /\ history \in HistoryRecords
  BY Typed, Zenon
<1>2. options' = options /\ host' = host /\ saved' = saved /\ at.phase = "test"
  BY Zenon DEF TestMoves, TestEnds
<1>3. AtOk(at') /\ Tested(at, at')
  <2>1. CASE TestEnds
    <3>1. at' = [at EXCEPT !.phase = "tearDown", !.moves = 0]
      BY <2>1, Zenon DEF TestEnds
    <3>2. "tearDown" \in {"test", "tearDown"} /\ 0 \in Nat
      OBVIOUS
    <3> QED
      BY <1>1, <1>2, <3>1, <3>2, TestIs, Zenon
  <2>2. CASE TestMoves
    <3>1. at' = [at EXCEPT !.moves = at.moves + 1]
      BY <2>2, Zenon DEF TestMoves
    <3>2. at.moves + 1 \in Nat
      BY <1>1 DEF AtOk, AtRecords
    <3>3. at' = [at EXCEPT !.phase = "test", !.moves = at.moves + 1]
      BY <1>1, <1>2, <3>1 DEF AtOk, AtRecords
    <3>4. "test" \in {"test", "tearDown"}
      OBVIOUS
    <3> QED
      BY <1>1, <1>2, <3>2, <3>3, <3>4, TestIs, Zenon
  <2> QED
    BY <2>1, <2>2
<1>4. SameKeepers(saved, saved')
  BY <1>2, Zenon DEF SameKeepers
<1>5. "test" # "sim" /\ "test" # "adapter" /\ "test" \notin Keepers
  BY DEF Keepers
<1>6. ASSUME history' = history, TestDevice(device, device')
      PROVE  PreparersInv'
  <2>1. IsHistory(history, history') /\ SameReboots(history, history')
    BY <1>1, <1>6, SameHistory, Zenon
  <2>2. PreparerTypes'
    BY <1>1, <1>2, <1>3, <1>6, Zenon DEF PreparerTypes, TestDevice
  <2>3. ASSUME Undisturbed'
        PROVE  AsItShouldBe'
    <3>1. Step("test") /\ at'.e # "device" /\ FarFromDevice(at, at') /\ at'.phase # "setUp"
      BY <1>2, <1>3, <2>1, <2>3, TestStepIs, Zenon
    <3>2. SimOk(device', saved', at', history')
      BY <1>2, <1>5, <1>6, <3>1, StepSims, Zenon DEF TestDevice
    <3>3. HalOk(device', saved', at', history')
      BY <1>2, <1>5, <1>6, <3>1, StepHal, Zenon DEF TestDevice
    <3>4. PushedOk(options', device', host', saved', at')
      BY <1>2, <1>5, <1>6, <3>1, StepPushed, Zenon DEF TestDevice
    <3>5. SameFeatures(device, saved, device', saved')
      BY <1>2, <1>6, Zenon DEF TestDevice, SameFeatures
    <3>6. DisabledOk(device', saved', at', history') /\ ModesOk(device', saved', at', history')
      BY <1>2, <1>4, <1>5, <1>6, <2>1, <3>1, StepModes, Zenon DEF TestDevice
    <3> QED
      BY <3>1, <3>2, <3>3, <3>4, <3>5, <3>6, Finish, Zenon
  <2> QED
    BY <2>1, <2>2, <2>3, Assemble, Zenon
<1>7. ASSUME history' = [history EXCEPT !.rebooted = TRUE], device' = Booted(device)
      PROVE  PreparersInv'
  <2>1. Boots(device, device')
    BY <1>1, <1>7, BootedIs, Zenon
  <2>2. history' \in HistoryRecords /\ history'.initial = history.initial /\ history'.rebooted
    BY <1>1, <1>7 DEF HistoryRecords
  <2>3. history'.lost = history.lost /\ history'.refused = history.refused
    BY <1>1, <1>7 DEF HistoryRecords
  <2>4. history'.unread = history.unread /\ history'.unrestored = history.unrestored
    BY <1>1, <1>7 DEF HistoryRecords
  <2>5. IsHistory(history, history')
    BY <2>2, <2>3, <2>4, Zenon DEF IsHistory
  <2>6. PreparerTypes'
    BY <1>1, <1>2, <1>3, <2>1, <2>2, Zenon DEF PreparerTypes, Boots
  <2>7. ASSUME Undisturbed'
        PROVE  AsItShouldBe'
    <3>1. Step("test") /\ at'.e # "device" /\ FarFromDevice(at, at') /\ at'.phase # "setUp"
      BY <1>2, <1>3, <2>5, <2>7, TestStepIs, Zenon
    <3>2. SimOk(device', saved', at', history')
      BY <1>2, <1>5, <2>1, <3>1, StepSims, Zenon DEF Boots
    <3>3. HalOk(device', saved', at', history')
      BY <1>2, <1>5, <2>1, <3>1, StepHal, Zenon DEF Boots
    <3>4. PushedOk(options', device', host', saved', at')
      BY <1>2, <1>5, <2>1, <3>1, StepPushed, Zenon DEF Boots
    <3>5. SameFeatures(device, saved, device', saved')
      BY <1>2, <2>1, Zenon DEF Boots, SameFeatures
    <3>6. \A p \in Keepers : Ahead(at', p) => Ahead(at, p)
      BY <1>5, <3>1, Zenon DEF Step, Others, Apart
    <3>7. \A p \in Keepers : Past(at', p) => Ahead(at, p)
      <4>1. at'.phase # "done" /\ at'.pos = Len(Plan) /\ \A i \in 1..Len(Plan) : ~(at'.pos < i)
        BY <1>3, PlanFacts DEF Tested
      <4> QED
        BY <4>1, Zenon DEF Past, Ahead
    <3>8. device'.selinux = "Disabled" <=> device.selinux = "Disabled"
      BY <2>1, Zenon DEF Boots
    <3>9. DisabledOk(device', saved', at', history') /\ ModesOk(device', saved', at', history')
      BY <1>2, <1>4, <2>2, <3>1, <3>6, <3>7, <3>8, StepRebooted, Zenon
    <3> QED
      BY <3>1, <3>2, <3>3, <3>4, <3>5, <3>9, Finish, Zenon
  <2> QED
    BY <2>5, <2>6, <2>7, Assemble, Zenon
<1>8. CASE TestEnds
  <2>1. history' = history /\ device' = device
    BY <1>8, Zenon DEF TestEnds
  <2>2. TestDevice(device, device')
    BY <1>1, <2>1, Zenon DEF TestDevice
  <2> QED
    BY <1>6, <2>1, <2>2
<1>9. CASE TestMoves
  <2>1. device.root \in BOOLEAN /\ device.framework \in BOOLEAN
    BY <1>1 DEF DeviceRecords
  <2>2. ASSUME NEW b \in BOOLEAN, device' = [device EXCEPT !.root = b]
        PROVE  TestDevice(device, device')
    BY <1>1, <2>2, SMTT(40) DEF DeviceRecords, TestDevice
  <2>3. ASSUME NEW b \in BOOLEAN, device' = [device EXCEPT !.framework = b]
        PROVE  TestDevice(device, device')
    BY <1>1, <2>3, SMTT(40) DEF DeviceRecords, TestDevice
  <2>4. ASSUME NEW v \in {"0", "1"}, device' = [device EXCEPT !.radio["new"] = v]
        PROVE  TestDevice(device, device')
    BY <1>1, <2>4, SMTT(40) DEF DeviceRecords, TestDevice
  <2>5. CASE device' = [device EXCEPT !.root = ~@] /\ history' = history
    <3>1. PICK b \in BOOLEAN : b = ~device.root
      BY <2>1, Zenon
    <3>2. TestDevice(device, device')
      BY <2>2, <2>5, <3>1, Zenon
    <3> QED
      BY <1>6, <2>5, <3>2
  <2>6. CASE device' = [device EXCEPT !.framework = ~@] /\ history' = history
    <3>1. PICK b \in BOOLEAN : b = ~device.framework
      BY <2>1, Zenon
    <3>2. TestDevice(device, device')
      BY <2>3, <2>6, <3>1, Zenon
    <3> QED
      BY <1>6, <2>6, <3>2
  <2>7. CASE (\E v \in {"0", "1"} : device' = [device EXCEPT !.radio["new"] = v]) /\ history' = history
    BY <1>6, <2>4, <2>7, Zenon
  <2>8. CASE device' = Booted(device) /\ history' = [history EXCEPT !.rebooted = TRUE]
    BY <1>7, <2>8, Zenon
  <2> QED
    BY <1>9, <2>5, <2>6, <2>7, <2>8, Zenon DEF TestMoves
<1> QED
  BY <1>8, <1>9
-----------------------------------------------------------------------------
LEMMA SimPast ==
  ASSUME AtOk(at), AtOk(at'), at.phase \in {"setUp", "tearDown"}, Plan[at.pos] = "sim", Returned(at, at'), SimInside,
         NEW p \in Keepers, Past(at', p)
  PROVE  Ahead(at, p)
<1>1. at.pos \in 1..Len(Plan) /\ Len(Plan) \in Nat /\ at.pos \in Nat
  BY PlanFacts DEF AtOk, AtRecords, Positions
<1> SUFFICES ASSUME NEW i \in 1..Len(Plan), Plan[i] = p
             PROVE  FALSE
  BY Zenon DEF Ahead
<1>2. i < at.pos
  BY <1>1, KeeperIs, Zenon DEF SimInside
<1>3. at'.phase = "done" \/ (at'.phase = "tearDown" /\ at'.pos < i)
  BY Zenon DEF Past
<1> QED
  BY <1>1, <1>2, <1>3 DEF Returned

(* The device and the history after set-sim-count. *)
SimsBecome(wanted, sims, d2, h2) ==
  /\ IsHistory(history, h2)
  /\ h2.unread <=> history.unread \/ ~device.framework
  /\ \/ wanted /\ device.framework /\ h2.rebooted /\ d2.sims = sims /\ d2 \in DeviceRecords
        /\ d2.radio = device.radio /\ d2.files = device.files /\ ~d2.adapted
        /\ (d2.selinux = "Disabled" <=> device.selinux = "Disabled")
     \/ ~(wanted /\ device.framework) /\ SameReboots(history, h2) /\ d2 = device

(* What set-sim-count makes of the device.                                 *)
LEMMA setSimCountIs ==
  ASSUME options \in OptionRecords, device \in DeviceRecords, history \in HistoryRecords,
         NEW wanted \in BOOLEAN, NEW sims, wanted => sims \in Nat \ {0}, setSimCount(wanted, sims)
  PROVE  SimsBecome(wanted, sims, device', history')
<1>1. device.framework \in BOOLEAN /\ history.rebooted \in BOOLEAN /\ history.unread \in BOOLEAN
  BY DEF DeviceRecords, HistoryRecords
<1>2. PICK r \in BOOLEAN, u \in BOOLEAN : /\ r = (history.rebooted \/ (wanted /\ device.framework))
                                          /\ u = (history.unread \/ ~device.framework)
  BY Zenon
<1>3. history' = [history EXCEPT !.rebooted = r, !.unread = u]
  BY <1>2, Zenon DEF setSimCount
<1>4. history' \in HistoryRecords /\ history'.initial = history.initial
  BY <1>3 DEF HistoryRecords
<1>5. history'.lost = history.lost /\ history'.refused = history.refused /\ history'.unrestored = history.unrestored
  BY <1>3 DEF HistoryRecords
<1>6. history'.rebooted = r /\ history'.unread = u
  BY <1>3 DEF HistoryRecords
<1>7. IsHistory(history, history')
  BY <1>2, <1>4, <1>5, <1>6, Zenon DEF IsHistory
<1>8. history'.unread <=> history.unread \/ ~device.framework
  BY <1>2, <1>6, Zenon
<1>9. CASE wanted /\ device.framework
  <2>1. PICK d : d = [device EXCEPT !.sims = sims]
    BY Zenon
  <2>2. d \in DeviceRecords /\ d.sims = sims /\ d.radio = device.radio /\ d.files = device.files /\ d.selinux = device.selinux
    BY <1>9, <2>1 DEF DeviceRecords
  <2>3. device' = Booted(d)
    BY <1>9, <2>1, Zenon DEF setSimCount
  <2>4. Boots(d, device')
    BY <2>2, <2>3, BootedIs, Zenon
  <2>5. device'.sims = sims /\ device' \in DeviceRecords /\ device'.radio = device.radio /\ device'.files = device.files
    BY <2>2, <2>4, Zenon DEF Boots
  <2>6. ~device'.adapted /\ (device'.selinux = "Disabled" <=> device.selinux = "Disabled")
    BY <2>2, <2>4, Zenon DEF Boots
  <2>7. history'.rebooted
    BY <1>2, <1>6, <1>9, Zenon
  <2> QED
    BY <1>7, <1>8, <1>9, <2>5, <2>6, <2>7, Zenon DEF SimsBecome
<1>10. CASE ~(wanted /\ device.framework)
  <2>1. device' = device
    BY <1>10, Zenon DEF setSimCount
  <2>2. r = history.rebooted
    BY <1>1, <1>2, <1>10, Zenon
  <2> QED
    BY <1>6, <1>7, <1>8, <1>10, <2>1, <2>2, Zenon DEF SimsBecome, SameReboots
<1> QED
  BY <1>9, <1>10

(* What both steps of the SIM preparer have in common. *)
LEMMA SimMoves ==
  ASSUME PreparersInv, at.phase \in {"setUp", "tearDown"}, Plan[at.pos] = "sim", at' = Return, options' = options, host' = host,
         NEW wanted, NEW sims, SimsBecome(wanted, sims, device', history'),
         saved' \in SavedRecords, SameKeepers(saved, saved'), saved'.infoPath = saved.infoPath,
         saved'.commands = saved.commands, saved'.root = saved.root, saved'.framework = saved.framework,
         saved'.radioLog = saved.radioLog, saved'.property = saved.property,
         saved'.rebootSetup = saved.rebootSetup, saved'.rebootTearDown = saved.rebootTearDown,
         Step("sim") => SimOk(device', saved', at', history')
  PROVE  PreparersInv'
<1>1. /\ options \in OptionRecords /\ device \in DeviceRecords /\ host \in SUBSET {"temp", "local"}
      /\ saved \in SavedRecords /\ AtOk(at) /\ history \in HistoryRecords
  BY Typed, Zenon
<1>2. MovesOn /\ AtOk(at') /\ Returned(at, at')
  BY <1>1, MovesOnIs, ReturnIs, Zenon DEF MovesOn
<1>3. IsHistory(history, history')
  BY Zenon DEF SimsBecome
<1>4. /\ device' \in DeviceRecords /\ device'.radio = device.radio /\ device'.files = device.files
      /\ device'.adapted => device.adapted
      /\ device'.selinux = "Disabled" <=> device.selinux = "Disabled"
  BY <1>1, Zenon DEF SimsBecome
<1>5. PreparerTypes'
  BY <1>1, <1>2, <1>3, <1>4, Zenon DEF PreparerTypes, IsHistory
<1>6. ASSUME Undisturbed'
      PROVE  AsItShouldBe'
  <2>1. "sim" # "device" /\ "sim" # "adapter" /\ "sim" \notin Keepers
    BY DEF Keepers
  <2>2. /\ Step("sim") /\ at'.e # "device" /\ FarFromDevice(at, at')
        /\ at.phase = "setUp" => ApartAll(at, at')
    BY <1>2, <1>3, <1>6, <2>1, StepIs, Zenon
  <2>3. SimOk(device', saved', at', history')
    BY <2>2, Zenon
  <2>4. HalOk(device', saved', at', history')
    BY <1>4, <2>1, <2>2, StepHal, Zenon
  <2>5. PushedOk(options', device', host', saved', at')
    BY <1>4, <2>1, <2>2, StepPushed, Zenon
  <2>6. SameFeatures(device, saved, device', saved')
    BY <1>4, Zenon DEF SameFeatures
  <2>7. ~Ahead(at', "sim")
    BY <1>1, <1>2, ReturnedIsNotAhead, Zenon
  <2>8. DisabledOk(device', saved', at', history') /\ ModesOk(device', saved', at', history')
    <3>1. CASE history'.rebooted
      <4>1. \A p \in Keepers : Ahead(at', p) => Ahead(at, p)
        BY <2>1, <2>2, Zenon DEF Step, Others, Apart
      <4>2. SimInside => \A p \in Keepers : Past(at', p) => Ahead(at, p)
        BY <1>1, <1>2, SimPast, Zenon
      <4> QED
        BY <1>4, <2>2, <2>7, <3>1, <4>1, <4>2, StepRebooted, Zenon
    <3>2. CASE ~history'.rebooted
      <4>1. SameReboots(history, history') /\ device' = device
        BY <3>2, Zenon DEF SimsBecome
      <4>2. at.phase = "tearDown" => at'.phase # "setUp"
        BY <1>2 DEF Returned
      <4> QED
        BY <2>1, <2>2, <4>1, <4>2, StepModes, Zenon
    <3> QED
      BY <3>1, <3>2
  <2> QED
    BY <2>2, <2>3, <2>4, <2>5, <2>6, <2>8, Finish, Zenon
<1> QED
  BY <1>3, <1>5, <1>6, Assemble, Zenon

(* VtsMultiSimPreparer.setUp.                                              *)
LEMMA SimSetsUp ==
  ASSUME PreparersInv, simSetUp
  PROVE  PreparersInv'
<1>1. /\ options \in OptionRecords /\ device \in DeviceRecords /\ saved \in SavedRecords /\ AtOk(at)
      /\ history \in HistoryRecords
  BY Typed, Zenon
<1>2. /\ at.phase = "setUp" /\ Plan[at.pos] = "sim" /\ at' = Return /\ options' = options /\ host' = host
      /\ saved' = [saved EXCEPT !.sims = getNumSims] /\ setSimCount(getNumSims # getMaxPhones, getMaxPhones)
  BY Zenon DEF simSetUp, At
<1>3. getNumSims \in Nat \ {0} /\ getMaxPhones \in Nat \ {0} /\ (device.framework => getNumSims = device.sims)
  BY <1>1, BoundsAssumption DEF getNumSims, getMaxPhones, DeviceRecords
<1> PICK n, k : n = getNumSims /\ k = getMaxPhones
  BY Zenon
<1>4. /\ saved' \in SavedRecords /\ saved'.sims = n /\ SameKeepers(saved, saved') /\ saved'.infoPath = saved.infoPath
      /\ saved'.commands = saved.commands /\ saved'.root = saved.root /\ saved'.framework = saved.framework
      /\ saved'.radioLog = saved.radioLog /\ saved'.property = saved.property
      /\ saved'.rebootSetup = saved.rebootSetup /\ saved'.rebootTearDown = saved.rebootTearDown
  <2>1. n \in Nat /\ saved' = [saved EXCEPT !.sims = n]
    BY <1>2, <1>3, Zenon
  <2> QED
    BY <1>1, <2>1, SMTT(40) DEF SavedRecords, SameKeepers
<1>5. PICK wanted \in BOOLEAN : wanted = (n # k)
  BY Zenon
<1>6. SimsBecome(wanted, k, device', history')
  <2>1. setSimCount(wanted, k)
    BY <1>2, <1>5, Zenon
  <2> QED
    BY <1>1, <1>3, <2>1, setSimCountIs, Zenon
<1>7. ASSUME Step("sim")
      PROVE  SimOk(device', saved', at', history')
  <2>1. SimOk(device, saved, at, history) /\ history'.initial = history.initial
    BY <1>7, Zenon DEF Step, AsItShouldBe, IsHistory
  <2>2. Ahead(at, "sim") /\ ~Past(at, "sim") /\ ~Before(at, "sim")
    BY <1>1, <1>2, InSetUp, Zenon
  <2>3. Returned(at, at') /\ AtOk(at')
    BY <1>1, <1>2, ReturnIs, Zenon
  <2>4. ~Ahead(at', "sim")
    BY <1>1, <1>2, <2>3, ReturnedIsNotAhead, Zenon
  <2>5. ~Past(at', "sim")
    BY <1>1, <1>2, <2>2, <2>3, MovesApart, Zenon DEF ApartAll, Apart
  <2>6. device.sims = history.initial.sims
    BY <2>1, <2>2, Zenon DEF SimOk
  <2>7. saved'.sims # 0
    BY <1>3, <1>4
  <2>8. ~history'.unread => device.framework
    BY <1>6, Zenon DEF SimsBecome
  <2>9. ~history'.unread => saved'.sims = history'.initial.sims
    BY <1>3, <1>4, <2>1, <2>6, <2>8, Zenon
  <2> QED
    BY <2>4, <2>5, <2>7, <2>9, Zenon DEF SimOk
<1> QED
  BY <1>2, <1>4, <1>6, <1>7, SimMoves, Zenon

(* VtsMultiSimPreparer.tearDown.                                           *)
LEMMA SimTearsDown ==
  ASSUME PreparersInv, simTearDown
  PROVE  PreparersInv'
<1>1. /\ options \in OptionRecords /\ device \in DeviceRecords /\ saved \in SavedRecords /\ AtOk(at)
      /\ history \in HistoryRecords
  BY Typed, Zenon
<1>2. /\ at.phase = "tearDown" /\ Plan[at.pos] = "sim" /\ at' = Return /\ options' = options /\ host' = host
      /\ saved' = saved /\ setSimCount(saved.sims # 0 /\ saved.sims # getNumSims, saved.sims)
  BY Zenon DEF simTearDown, At
<1>3. saved.sims \in Nat /\ SameKeepers(saved, saved)
  BY <1>1 DEF SavedRecords, SameKeepers
<1>4. PICK wanted \in BOOLEAN : wanted = (saved.sims # 0 /\ saved.sims # getNumSims)
  BY Zenon
<1>5. SimsBecome(wanted, saved.sims, device', history')
  <2>1. setSimCount(wanted, saved.sims)
    BY <1>2, <1>4, Zenon
  <2>2. wanted => saved.sims \in Nat \ {0}
    BY <1>3, <1>4, Zenon
  <2> QED
    BY <1>1, <2>1, <2>2, setSimCountIs, Zenon
<1>6. ASSUME Step("sim")
      PROVE  SimOk(device', saved', at', history')
  <2>1. SimOk(device, saved, at, history) /\ history'.initial = history.initial
    BY <1>6, Zenon DEF Step, AsItShouldBe, IsHistory
  <2>2. ~Ahead(at', "sim")
    BY <1>1, <1>2, ReturnIs, ReturnedIsNotAhead, Zenon
  <2>3. saved.sims = 0 => device' = device
    BY <1>4, <1>5, Zenon DEF SimsBecome
  <2>4. ~history'.unread => ~history.unread /\ device.framework
    BY <1>5, Zenon DEF SimsBecome
  <2>5. device.framework => getNumSims = device.sims
    BY Zenon DEF getNumSims
  <2>6. ~history'.unread /\ saved.sims # 0 => device'.sims = saved.sims
    BY <1>4, <1>5, <2>4, <2>5, ZenonT(40) DEF SimsBecome
  <2> QED
    BY <1>2, <2>1, <2>2, <2>3, <2>4, <2>6, Zenon DEF SimOk
<1> QED
  BY <1>1, <1>2, <1>3, <1>5, <1>6, SimMoves, Zenon
-----------------------------------------------------------------------------
(* VtsDevicePreparer, the first of the plan. *)
FromSetUp(a, b, n) ==
  /\ Early(a, 1) <=> n <= 1
  /\ Early(a, 2) <=> n <= 2
  /\ Early(a, 3) <=> n <= 3
  /\ ~Early(b, 1)
  /\ Early(b, 2) <=> n <= 1
  /\ Early(b, 3) <=> n <= 2
  /\ ~Late(b, 2) /\ ~Late(b, 4) /\ ~Late(b, 5)
FromTearDown(a, b, n) ==
  /\ ~Early(a, 1) /\ ~Early(a, 2) /\ ~Early(a, 3) /\ ~Early(b, 1) /\ ~Early(b, 2) /\ ~Early(b, 3)
  /\ Late(a, 2) <=> n >= 2
  /\ Late(a, 4) <=> n >= 4
  /\ Late(a, 5) <=> n >= 5

LEMMA DevicePlace ==
  ASSUME AtOk(at), AtOk(at'), Plan[at.pos] = "device", at.phase \in {"setUp", "tearDown"},
         Stays(at, at') \/ (Returned(at, at') /\ at.step >= 3)
  PROVE  /\ at.phase = "setUp" => FromSetUp(at, at', at.step)
         /\ at.phase = "tearDown" => FromTearDown(at, at', at.step)
         /\ at.phase = "tearDown" /\ Stays(at, at') =>
              /\ Late(at', 2) <=> at.step >= 1
              /\ Late(at', 4) <=> at.step >= 3
              /\ Late(at', 5) <=> at.step >= 4
<1>1. at.pos \in 1..Len(Plan) /\ Len(Plan) \in Nat /\ at.step \in Nat \ {0}
  BY PlanFacts DEF AtOk, AtRecords, Positions
<1>2. at.pos = 1
  <2>1. 1 \in 1..Len(Plan)
    BY PlanFacts
  <2> QED
    BY <1>1, <2>1, PlanFacts, Zenon
<1>3. CASE at.phase = "setUp" /\ Stays(at, at')
  BY <1>1, <1>2, <1>3, SMTT(40) DEF Stays, FromSetUp, Early, Late
<1>4. CASE at.phase = "setUp" /\ Returned(at, at') /\ at.step >= 3
  BY <1>1, <1>2, <1>4 DEF Returned, FromSetUp, Early, Late
<1>5. CASE at.phase = "tearDown" /\ Stays(at, at')
  BY <1>1, <1>2, <1>5 DEF Stays, FromTearDown, Early, Late
<1>6. CASE at.phase = "tearDown" /\ Returned(at, at')
  <2>1. ~Stays(at, at') /\ at'.phase # "setUp"
    BY <1>1, <1>6 DEF Stays, Returned
  <2> QED
    BY <1>1, <1>2, <1>6, <2>1, SMTT(40) DEF FromTearDown, Early, Late
<1> QED
  BY <1>3, <1>4, <1>5, <1>6

Features(o, d, s, a, h) == RootOk(o, d, s, a, h) /\ FrameworkOk(o, d, s, a, h) /\ RadioOk(o, d, s, a, h)
DeviceMove ==
  /\ device' \in DeviceRecords /\ device'.files = device.files /\ device'.sims = device.sims
  /\ device'.adapted => device.adapted
  /\ saved' \in SavedRecords /\ SameKeepers(saved, saved') /\ saved'.sims = saved.sims
  /\ saved'.infoPath = saved.infoPath /\ saved'.commands = saved.commands
  /\ saved.rebootSetup => saved'.rebootSetup
  /\ saved.rebootTearDown => saved'.rebootTearDown
  /\ IsHistory(history, history')
  /\ \/ SameReboots(history, history') /\ device'.selinux = device.selinux
     \/ saved'.rebootSetup \/ saved'.rebootTearDown
  /\ device'.selinux = "Disabled" <=> device.selinux = "Disabled"
  /\ Undisturbed' /\ AsItShouldBe => Features(options, device', saved', at', history')

(* A step of VtsDevicePreparer leaves the other preparers alone.           *)
LEMMA DeviceStepMoves ==
  ASSUME PreparersInv, at.phase \in {"setUp", "tearDown"}, Plan[at.pos] = "device", MovesOn, DeviceMove,
         options' = options, host' = host
  PROVE  PreparersInv'
<1>1. /\ options \in OptionRecords /\ AtOk(at) /\ AtOk(at') /\ history \in HistoryRecords
      /\ host \in SUBSET {"temp", "local"} /\ saved \in SavedRecords
  BY Typed, Zenon DEF MovesOn
<1>2. IsHistory(history, history')
  BY Zenon DEF DeviceMove
<1>3. PreparerTypes'
  BY <1>1, <1>2, Zenon DEF PreparerTypes, DeviceMove, IsHistory
<1>4. ASSUME Undisturbed'
      PROVE  AsItShouldBe'
  <2>1. "device" # "sim" /\ "device" # "adapter" /\ "device" \notin Keepers
    BY DEF Keepers
  <2>2. Step("device") /\ at'.e # "device"
    BY <1>2, <1>4, StepIs, Zenon
  <2>3. Features(options', device', saved', at', history')
    BY <1>4, <2>2, Zenon DEF DeviceMove, Step
  <2>4. SimOk(device', saved', at', history')
    BY <2>1, <2>2, StepSims, Zenon DEF DeviceMove
  <2>5. HalOk(device', saved', at', history')
    BY <2>1, <2>2, StepHal, Zenon DEF DeviceMove
  <2>6. PushedOk(options', device', host', saved', at')
    BY <2>1, <2>2, StepPushed, Zenon DEF DeviceMove
  <2>7. /\ SameKeepers(saved, saved') /\ (saved.rebootSetup => saved'.rebootSetup)
        /\ saved.rebootTearDown => saved'.rebootTearDown
        /\ device'.selinux = "Disabled" <=> device.selinux = "Disabled"
    BY Zenon DEF DeviceMove
  <2>8. DisabledOk(device', saved', at', history') /\ ModesOk(device', saved', at', history')
    <3>1. CASE SameReboots(history, history') /\ device'.selinux = device.selinux
      BY <2>1, <2>2, <2>7, <3>1, StepModes, Zenon
    <3>2. CASE saved'.rebootSetup \/ saved'.rebootTearDown
      <4>1. KeepersApart(at, at')
        BY <2>1, <2>2, Zenon DEF Step, Others, KeepersApart
      <4>2. DisabledOk(device, saved, at, history) /\ history'.initial = history.initial
        BY <2>2, Zenon DEF Step, AsItShouldBe, IsHistory
      <4>3. DisabledOk(device', saved', at', history')
        BY <2>7, <4>1, <4>2, DisabledSame, Zenon
      <4> QED
        BY <3>2, <4>3, Zenon DEF ModesOk
    <3> QED
      BY <3>1, <3>2, Zenon DEF DeviceMove
  <2> QED
    BY <2>2, <2>3, <2>4, <2>5, <2>6, <2>8, Zenon DEF AsItShouldBe, Features
<1> QED
  BY <1>2, <1>3, <1>4, Assemble, Zenon

SameRest(s, s2) ==
  /\ SameKeepers(s, s2) /\ s2.sims = s.sims /\ s2.infoPath = s.infoPath /\ s2.commands = s.commands
SameBody(d, d2) ==
  /\ d2 \in DeviceRecords /\ d2.files = d.files /\ d2.sims = d.sims /\ d2.adapted = d.adapted /\ d2.selinux = d.selinux
SameReboot(s, s2) ==
  /\ s.rebootSetup => s2.rebootSetup
  /\ s.rebootTearDown => s2.rebootTearDown

LEMMA DeviceMoveIs ==
  ASSUME SameBody(device, device'), saved' \in SavedRecords, SameRest(saved, saved'), SameReboot(saved, saved'),
         IsHistory(history, history'), SameReboots(history, history'),
         Undisturbed' /\ AsItShouldBe => Features(options, device', saved', at', history')
  PROVE  DeviceMove
<1>1. device'.selinux = "Disabled" <=> device.selinux = "Disabled"
  BY Zenon DEF SameBody
<1> QED
  BY <1>1, Zenon DEF DeviceMove, SameBody, SameRest, SameReboot

RootBecomes(d, b, d2) == SameBody(d, d2) /\ d2.radio = d.radio /\ d2.framework = d.framework /\ d2.root = b
FrameworkBecomes(d, b, d2) == SameBody(d, d2) /\ d2.radio = d.radio /\ d2.root = d.root /\ d2.framework = b

LEMMA BodyUpdate ==
  ASSUME NEW d \in DeviceRecords, NEW b \in BOOLEAN
  PROVE  RootBecomes(d, b, [d EXCEPT !.root = b]) /\ FrameworkBecomes(d, b, [d EXCEPT !.framework = b])
<1>2. SameBody(d, [d EXCEPT !.root = b]) /\ [d EXCEPT !.root = b].radio = d.radio
  BY SMTT(40) DEF DeviceRecords, SameBody
<1>3. [d EXCEPT !.root = b].framework = d.framework /\ [d EXCEPT !.root = b].root = b
  BY SMTT(40) DEF DeviceRecords
<1>4. SameBody(d, [d EXCEPT !.framework = b]) /\ [d EXCEPT !.framework = b].radio = d.radio
  BY SMTT(40) DEF DeviceRecords, SameBody
<1>5. [d EXCEPT !.framework = b].root = d.root /\ [d EXCEPT !.framework = b].framework = b
  BY SMTT(40) DEF DeviceRecords
<1> QED
  BY <1>2, <1>3, <1>4, <1>5, Zenon DEF RootBecomes, FrameworkBecomes

LEMMA LogUpdate ==
  ASSUME NEW s \in SavedRecords, NEW l \in {"UNKNOWN", "ENABLED", "DISABLED", "NOT_AVAILABLE"}
  PROVE  [s EXCEPT !.radioLog = l] \in SavedRecords
BY SMTT(40) DEF SavedRecords

LEMMA PropertyUpdate ==
  ASSUME NEW s \in SavedRecords, NEW p \in {"new", "old"}
  PROVE  [s EXCEPT !.property = p] \in SavedRecords
BY SMTT(40) DEF SavedRecords

LEMMA RebootUpdate ==
  ASSUME NEW s \in SavedRecords, NEW x \in BOOLEAN
  PROVE  [s EXCEPT !.rebootSetup = x] \in SavedRecords /\ [s EXCEPT !.rebootTearDown = x] \in SavedRecords
<1>1. [s EXCEPT !.rebootSetup = x] \in SavedRecords
  BY SMTT(40) DEF SavedRecords
<1>2. [s EXCEPT !.rebootTearDown = x] \in SavedRecords
  BY SMTT(40) DEF SavedRecords
<1> QED
  BY <1>1, <1>2

LEMMA SavedUpdate ==
  ASSUME NEW s \in SavedRecords, NEW l \in {"UNKNOWN", "ENABLED", "DISABLED", "NOT_AVAILABLE"},
         NEW p \in {"new", "old"}, NEW x \in BOOLEAN
  PROVE  /\ [s EXCEPT !.radioLog = l, !.property = p, !.rebootSetup = x] \in SavedRecords
         /\ [s EXCEPT !.property = p, !.rebootTearDown = x] \in SavedRecords
<1>1. [s EXCEPT !.radioLog = l] \in SavedRecords
  BY LogUpdate, Zenon
<1>2. [[s EXCEPT !.radioLog = l] EXCEPT !.property = p] \in SavedRecords
  BY <1>1, PropertyUpdate, Zenon
<1>3. [s EXCEPT !.property = p] \in SavedRecords
  BY PropertyUpdate, Zenon
<1>4. [[[s EXCEPT !.radioLog = l] EXCEPT !.property = p] EXCEPT !.rebootSetup = x] \in SavedRecords
  BY <1>2, RebootUpdate, Zenon
<1>5. [[s EXCEPT !.property = p] EXCEPT !.rebootTearDown = x] \in SavedRecords
  BY <1>3, RebootUpdate, Zenon
<1>6. [s EXCEPT !.radioLog = l, !.property = p, !.rebootSetup = x]
        = [[[s EXCEPT !.radioLog = l] EXCEPT !.property = p] EXCEPT !.rebootSetup = x]
  BY SMTT(40)
<1>7. [s EXCEPT !.property = p, !.rebootTearDown = x] = [[s EXCEPT !.property = p] EXCEPT !.rebootTearDown = x]
  BY SMTT(40)
<1> QED
  BY <1>4, <1>5, <1>6, <1>7, Zenon

LEMMA RadioUpdate ==
  ASSUME NEW d \in DeviceRecords, NEW v \in {"0", "1"}
  PROVE  /\ SameBody(d, [d EXCEPT !.radio["new"] = v]) /\ [d EXCEPT !.radio["new"] = v].root = d.root
         /\ [d EXCEPT !.radio["new"] = v].framework = d.framework
         /\ [d EXCEPT !.radio["new"] = v].radio["new"] = v
         /\ [d EXCEPT !.radio["new"] = v].radio["old"] = d.radio["old"]
<1>1. SameBody(d, [d EXCEPT !.radio["new"] = v])
  BY SMTT(40) DEF DeviceRecords, SameBody
<1>2. [d EXCEPT !.radio["new"] = v].root = d.root /\ [d EXCEPT !.radio["new"] = v].framework = d.framework
  BY SMTT(40) DEF DeviceRecords
<1>3. [d EXCEPT !.radio["new"] = v].radio["new"] = v /\ [d EXCEPT !.radio["new"] = v].radio["old"] = d.radio["old"]
  BY SMTT(40) DEF DeviceRecords
<1> QED
  BY <1>1, <1>2, <1>3

LEMMA NextPlace ==
  ASSUME AtOk(at), Plan[at.pos] = "device", at.phase \in {"setUp", "tearDown"}, at' = NextStep
  PROVE  /\ MovesOn /\ AtOk(at') /\ at'.e = at.e
         /\ at.phase = "setUp" => FromSetUp(at, at', at.step)
         /\ at.phase = "tearDown" => FromTearDown(at, at', at.step)
         /\ at.phase = "tearDown" =>
              /\ Late(at', 2) <=> at.step >= 1
              /\ Late(at', 4) <=> at.step >= 3
              /\ Late(at', 5) <=> at.step >= 4
<1>1. MovesOn /\ AtOk(at') /\ Stays(at, at')
  BY MovesOnIs, NextStepIs, Zenon DEF MovesOn
<1> QED
  BY <1>1, DevicePlace, Zenon DEF Stays

(* setUp saves whether adb is root.                                        *)
LEMMA RootSetUpStep ==
  ASSUME PreparersInv, adbRootPreRebootSetUp
  PROVE  PreparersInv'
<1>1. /\ options \in OptionRecords /\ device \in DeviceRecords /\ saved \in SavedRecords /\ AtOk(at)
      /\ history \in HistoryRecords /\ device.root \in BOOLEAN
  BY Typed, Zenon
<1>2. /\ at.phase = "setUp" /\ Plan[at.pos] = "device" /\ at.step = 1 /\ at' = NextStep /\ options' = options
      /\ host' = host /\ history' = history
  BY Zenon DEF adbRootPreRebootSetUp, At
<1>3. MovesOn /\ AtOk(at') /\ FromSetUp(at, at', 1)
  BY <1>1, <1>2, NextPlace, Zenon
<1>4. PICK b \in BOOLEAN : device' = [device EXCEPT !.root = b]
  <2>1. CASE options.root = "enable"
    BY <2>1 DEF adbRootPreRebootSetUp
  <2>2. CASE options.root = "disable"
    BY <2>2 DEF adbRootPreRebootSetUp
  <2>3. CASE options.root # "enable" /\ options.root # "disable"
    BY <1>1, <2>3 DEF adbRootPreRebootSetUp
  <2> QED
    BY <2>1, <2>2, <2>3
<1>5. SameBody(device, device') /\ device'.radio = device.radio /\ device'.framework = device.framework
  BY <1>1, <1>4, BodyUpdate, Zenon DEF RootBecomes
<1>6. /\ saved' \in SavedRecords /\ SameRest(saved, saved') /\ SameReboot(saved, saved')
      /\ saved'.framework = saved.framework /\ saved'.radioLog = saved.radioLog /\ saved'.property = saved.property
      /\ "root" \in options.restore => saved'.root = device.root
  <2>1. CASE "root" \in options.restore
    <3>1. saved' = [saved EXCEPT !.root = device.root]
      BY <2>1, Zenon DEF adbRootPreRebootSetUp, Restores
    <3> QED
      BY <1>1, <3>1, SMTT(40) DEF SavedRecords, SameRest, SameReboot, SameKeepers
  <2>2. CASE "root" \notin options.restore
    <3>1. saved' = saved
      BY <2>2, Zenon DEF adbRootPreRebootSetUp, Restores
    <3> QED
      BY <1>1, <2>2, <3>1, Zenon DEF SameRest, SameReboot, SameKeepers
  <2> QED
    BY <2>1, <2>2
<1>7. /\ Early(at, 1) /\ Early(at, 2) /\ Early(at, 3) /\ ~Early(at', 1)
      /\ ~Late(at', 2) /\ ~Late(at', 4) /\ ~Late(at', 5)
  BY <1>3 DEF FromSetUp
<1>8. ASSUME AsItShouldBe
      PROVE  Features(options, device', saved', at', history')
  <2>1. RootOk(options, device', saved', at', history')
    BY <1>2, <1>6, <1>7, <1>8, Zenon DEF RootOk, AsItShouldBe
  <2>2. FrameworkOk(options, device', saved', at', history')
    <3>1. Early(at', 3)
      BY <1>3 DEF FromSetUp
    <3> QED
      BY <1>2, <1>5, <1>6, <1>7, <1>8, <3>1, Zenon DEF FrameworkOk, AsItShouldBe
  <2>3. RadioOk(options, device', saved', at', history')
    <3>1. Early(at', 2)
      BY <1>3 DEF FromSetUp
    <3> QED
      BY <1>2, <1>5, <1>6, <1>7, <1>8, <3>1, Zenon DEF RadioOk, AsItShouldBe
  <2> QED
    BY <2>1, <2>2, <2>3, Zenon DEF Features
<1>9. DeviceMove
  BY <1>1, <1>2, <1>5, <1>6, <1>8, SameHistory, DeviceMoveIs, Zenon
<1> QED
  BY <1>2, <1>3, <1>9, DeviceStepMoves, Zenon

(* The radio log as the code reads it, on a device with the new property. *)
LEMMA RadioReads ==
  ASSUME device \in DeviceRecords, saved \in SavedRecords
  PROVE  /\ radioProperty \in {"new", "old"}
         /\ radioLogGetState \in {"ENABLED", "DISABLED", "NOT_AVAILABLE"}
         /\ saved.property = "new" /\ device.radio["new"] # "null" =>
              radioProperty = "new" /\ radioLogGetState = LogState(device.radio["new"])
<1>1. saved.property \in {"new", "old"} /\ device.radio["new"] \in {"null", "0", "1"}
  BY DEF DeviceRecords, SavedRecords
<1>2. radioProperty \in {"new", "old"}
  BY <1>1 DEF radioProperty
<1>3. radioLogGetState \in {"ENABLED", "DISABLED", "NOT_AVAILABLE"}
  BY DEF radioLogGetState
<1>4. ASSUME saved.property = "new", device.radio["new"] # "null"
      PROVE  radioProperty = "new" /\ radioLogGetState = LogState(device.radio["new"])
  <2>1. radioProperty = "new"
    BY <1>4 DEF radioProperty
  <2>2. CASE device.radio["new"] = "1"
    BY <2>1, <2>2 DEF radioLogGetState, LogState
  <2>3. CASE device.radio["new"] = "0"
    BY <2>1, <2>3 DEF radioLogGetState, LogState
  <2> QED
    BY <1>1, <1>4, <2>1, <2>2, <2>3
<1> QED
  BY <1>2, <1>3, <1>4

(* setUp saves the radio log and turns it on.                              *)
LEMMA RadioSetUpStep ==
  ASSUME PreparersInv, radioLogPreRebootSetup
  PROVE  PreparersInv'
<1>1. /\ options \in OptionRecords /\ device \in DeviceRecords /\ saved \in SavedRecords /\ AtOk(at)
      /\ history \in HistoryRecords
  BY Typed, Zenon
<1>2. /\ at.phase = "setUp" /\ Plan[at.pos] = "device" /\ at.step = 2 /\ at' = NextStep /\ options' = options
      /\ host' = host
  BY Zenon DEF radioLogPreRebootSetup, At
<1>3. MovesOn /\ AtOk(at') /\ FromSetUp(at, at', 2)
  BY <1>1, <1>2, NextPlace, Zenon
<1>4. /\ radioProperty \in {"new", "old"} /\ radioLogGetState \in {"ENABLED", "DISABLED", "NOT_AVAILABLE"}
      /\ saved.property = "new" /\ device.radio["new"] # "null" =>
           radioProperty = "new" /\ radioLogGetState = LogState(device.radio["new"])
  BY <1>1, RadioReads, Zenon
<1>5. /\ saved.radioLog \in {"UNKNOWN", "ENABLED", "DISABLED", "NOT_AVAILABLE"} /\ saved.property \in {"new", "old"}
      /\ saved.rebootSetup \in BOOLEAN /\ options.radio \in BOOLEAN
  BY <1>1 DEF SavedRecords, OptionRecords
<1>6. PICK looks \in BOOLEAN : looks = (options.radio \/ Restores("radio"))
  BY Zenon
<1>7. PICK state \in {"UNKNOWN", "ENABLED", "DISABLED", "NOT_AVAILABLE"} :
        state = IF looks THEN radioLogGetState ELSE saved.radioLog
  BY <1>4, <1>5
<1>8. PICK prop \in {"new", "old"} : prop = IF looks THEN radioProperty ELSE saved.property
  BY <1>4, <1>5
<1>9. PICK enable \in BOOLEAN : enable = (options.radio /\ state = "DISABLED")
  BY Zenon
<1>10. PICK reboot \in BOOLEAN : reboot = (saved.rebootSetup \/ enable)
  BY Zenon
<1>11. /\ saved' = [saved EXCEPT !.radioLog = state, !.property = prop, !.rebootSetup = reboot]
       /\ device' = IF enable THEN setRadioLog("1") ELSE device
       /\ history' = Refused(enable)
  BY <1>6, <1>7, <1>8, <1>9, <1>10, Zenon DEF radioLogPreRebootSetup
<1>s. saved' \in SavedRecords
  BY <1>1, <1>11, SavedUpdate, Zenon
<1>12. saved' \in SavedRecords /\ saved'.radioLog = state /\ saved'.property = prop
  <2>1. saved'.radioLog = state /\ saved'.property = prop
    BY <1>1, <1>11, SMTT(40) DEF SavedRecords
  <2> QED
    BY <1>s, <2>1
<1>13. saved'.rebootSetup = reboot /\ saved'.rebootTearDown = saved.rebootTearDown /\ saved'.framework = saved.framework
  BY <1>1, <1>11, SMTT(40) DEF SavedRecords
<1>14. SameRest(saved, saved') /\ saved'.root = saved.root
  BY <1>1, <1>11, SMTT(40) DEF SavedRecords, SameRest, SameKeepers
<1>15. SameReboot(saved, saved')
  BY <1>10, <1>13, Zenon DEF SameReboot
<1>16. IsHistory(history, history') /\ SameReboots(history, history') /\ history'.initial = history.initial
  BY <1>1, <1>11, RefusedIs, Zenon DEF IsHistory
<1>17. /\ SameBody(device, device') /\ device'.framework = device.framework
       /\ device'.radio["old"] = device.radio["old"]
       /\ device'.radio["new"] # "null" \/ device' = device
  <2>1. "1" \in {"0", "1"} /\ "1" # "null"
    OBVIOUS
  <2>2. CASE device' = device
    BY <1>1, <2>2, Zenon DEF SameBody
  <2>3. CASE device' = [device EXCEPT !.radio["new"] = "1"]
    BY <1>1, <2>1, <2>3, RadioUpdate, Zenon
  <2> QED
    BY <1>11, <2>2, <2>3, Zenon DEF setRadioLog, AsRoot
<1>18. /\ ~Early(at, 1) /\ Early(at, 2) /\ Early(at, 3) /\ ~Early(at', 1) /\ ~Early(at', 2) /\ Early(at', 3)
       /\ ~Late(at', 2) /\ ~Late(at', 4) /\ ~Late(at', 5)
  BY <1>3 DEF FromSetUp
<1>19. ASSUME AsItShouldBe
       PROVE  Features(options, device', saved', at', history')
  <2>1. RootOk(options, device', saved', at', history')
    BY <1>14, <1>16, <1>18, <1>19, Zenon DEF RootOk, AsItShouldBe
  <2>2. FrameworkOk(options, device', saved', at', history')
    BY <1>16, <1>17, <1>18, <1>19, Zenon DEF FrameworkOk, AsItShouldBe
  <2>3. ASSUME history.initial.radio["new"] # "null"
        PROVE  /\ saved'.property = "new" /\ device'.radio["new"] # "null"
               /\ device'.radio["old"] = history.initial.radio["old"]
               /\ "radio" \in options.restore => saved'.radioLog = LogState(history.initial.radio["new"])
    <3>1. /\ saved.property = "new" /\ device.radio["new"] # "null"
          /\ device.radio["old"] = history.initial.radio["old"]
          /\ device.radio["new"] = history.initial.radio["new"]
      BY <1>18, <1>19, <2>3, Zenon DEF RadioOk, AsItShouldBe
    <3>2. saved'.property = "new"
      BY <1>4, <1>8, <1>12, <3>1, Zenon
    <3>3. "radio" \in options.restore => saved'.radioLog = LogState(history.initial.radio["new"])
      BY <1>4, <1>6, <1>7, <1>12, <3>1, Zenon DEF Restores
    <3> QED
      BY <1>17, <3>1, <3>2, <3>3, Zenon
  <2>4. RadioOk(options, device', saved', at', history')
    BY <1>16, <1>18, <2>3, Zenon DEF RadioOk
  <2> QED
    BY <2>1, <2>2, <2>4, Zenon DEF Features
<1>20. DeviceMove
  BY <1>12, <1>14, <1>15, <1>16, <1>17, <1>19, DeviceMoveIs, ZenonT(40)
<1> QED
  BY <1>2, <1>3, <1>20, DeviceStepMoves, Zenon

(* setUp saves whether the framework runs.                                 *)
LEMMA FrameworkSetUpStep ==
  ASSUME PreparersInv, frameworkPreRebootSetUp
  PROVE  PreparersInv'
<1>1. /\ options \in OptionRecords /\ device \in DeviceRecords /\ saved \in SavedRecords /\ AtOk(at)
      /\ history \in HistoryRecords
  BY Typed, Zenon
<1>2. /\ at.phase = "setUp" /\ Plan[at.pos] = "device" /\ at.step = 3 /\ at' = NextStep /\ options' = options
      /\ host' = host /\ history' = history /\ device' = device
  BY Zenon DEF frameworkPreRebootSetUp, At
<1>3. MovesOn /\ AtOk(at') /\ FromSetUp(at, at', 3)
  BY <1>1, <1>2, NextPlace, Zenon
<1>4. device.framework \in BOOLEAN /\ SameBody(device, device')
  BY <1>1, <1>2, SMTT(40) DEF DeviceRecords, SameBody
<1>5. /\ saved' \in SavedRecords /\ SameRest(saved, saved') /\ SameReboot(saved, saved')
      /\ saved'.root = saved.root /\ saved'.radioLog = saved.radioLog /\ saved'.property = saved.property
      /\ "framework" \in options.restore => saved'.framework = device.framework
  <2>1. CASE "framework" \in options.restore
    <3>1. saved' = [saved EXCEPT !.framework = device.framework]
      BY <2>1, Zenon DEF frameworkPreRebootSetUp, Restores
    <3> QED
      BY <1>1, <1>4, <3>1, SMTT(40) DEF SavedRecords, SameRest, SameReboot, SameKeepers
  <2>2. CASE "framework" \notin options.restore
    <3>1. saved' = saved
      BY <2>2, Zenon DEF frameworkPreRebootSetUp, Restores
    <3> QED
      BY <1>1, <2>2, <3>1, Zenon DEF SameRest, SameReboot, SameKeepers
  <2> QED
    BY <2>1, <2>2
<1>6. /\ ~Early(at, 1) /\ ~Early(at, 2) /\ Early(at, 3) /\ ~Early(at', 1) /\ ~Early(at', 2) /\ ~Early(at', 3)
      /\ ~Late(at', 2) /\ ~Late(at', 4) /\ ~Late(at', 5)
  BY <1>3 DEF FromSetUp
<1>7. ASSUME AsItShouldBe
      PROVE  Features(options, device', saved', at', history')
  <2>1. RootOk(options, device', saved', at', history')
    BY <1>2, <1>5, <1>6, <1>7, Zenon DEF RootOk, AsItShouldBe
  <2>2. FrameworkOk(options, device', saved', at', history')
    BY <1>2, <1>5, <1>6, <1>7, Zenon DEF FrameworkOk, AsItShouldBe
  <2>3. RadioOk(options, device', saved', at', history')
    BY <1>2, <1>5, <1>6, <1>7, Zenon DEF RadioOk, AsItShouldBe
  <2> QED
    BY <2>1, <2>2, <2>3, Zenon DEF Features
<1>8. DeviceMove
  BY <1>1, <1>2, <1>4, <1>5, <1>7, SameHistory, DeviceMoveIs, ZenonT(40)
<1> QED
  BY <1>2, <1>3, <1>8, DeviceStepMoves, Zenon

(* Nothing of the features changes but the device's root and framework. *)
LEMMA FeaturesStay ==
  ASSUME AsItShouldBe, device'.radio = device.radio, saved' = saved, history'.initial = history.initial,
         ~Early(at, 1), ~Early(at, 2), ~Early(at, 3), ~Early(at', 1), ~Early(at', 2), ~Early(at', 3),
         Late(at', 2) => Late(at, 2),
         Late(at', 4) /\ "root" \in options.restore => device'.root = saved.root,
         Late(at', 5) /\ "framework" \in options.restore => device'.framework = saved.framework
  PROVE  Features(options, device', saved', at', history')
<1>1. RootOk(options, device', saved', at', history')
  BY Zenon DEF RootOk, AsItShouldBe
<1>2. FrameworkOk(options, device', saved', at', history')
  BY Zenon DEF FrameworkOk, AsItShouldBe
<1>3. RadioOk(options, device', saved', at', history')
  BY Zenon DEF RadioOk, AsItShouldBe
<1> QED
  BY <1>1, <1>2, <1>3, Zenon DEF Features

(* The reboots of VtsDevicePreparer, before and after the test.            *)
LEMMA RebootSteps ==
  ASSUME PreparersInv, rebootSetup \/ rebootTearDown
  PROVE  PreparersInv'
<1>1. /\ options \in OptionRecords /\ device \in DeviceRecords /\ saved \in SavedRecords /\ AtOk(at)
      /\ history \in HistoryRecords
  BY Typed, Zenon
<1>2. /\ at.phase \in {"setUp", "tearDown"} /\ Plan[at.pos] = "device" /\ at' = NextStep /\ options' = options
      /\ host' = host /\ saved' = saved
      /\ \/ at.phase = "setUp" /\ at.step = 4
         \/ at.phase = "tearDown" /\ at.step = 2
  BY Zenon DEF rebootSetup, rebootTearDown, Reboot, At
<1>3. /\ MovesOn /\ AtOk(at') /\ (at.phase = "setUp" => FromSetUp(at, at', at.step))
      /\ at.phase = "tearDown" => FromTearDown(at, at', at.step)
      /\ at.phase = "tearDown" =>
              /\ Late(at', 2) <=> at.step >= 1
              /\ Late(at', 4) <=> at.step >= 3
              /\ Late(at', 5) <=> at.step >= 4
  BY <1>1, <1>2, NextPlace, Zenon
<1>4. /\ ~Early(at, 1) /\ ~Early(at, 2) /\ ~Early(at, 3) /\ ~Early(at', 1) /\ ~Early(at', 2) /\ ~Early(at', 3)
      /\ ~Late(at', 4) /\ ~Late(at', 5) /\ (Late(at', 2) => Late(at, 2))
  <2>1. CASE at.phase = "setUp" /\ at.step = 4
    BY <1>3, <2>1, SMTT(40) DEF FromSetUp
  <2>2. CASE at.phase = "tearDown" /\ at.step = 2
    BY <1>3, <2>2 DEF FromTearDown
  <2> QED
    BY <1>2, <2>1, <2>2, SMTT(40)
<1>5. PICK wanted \in BOOLEAN : /\ wanted => saved.rebootSetup \/ saved.rebootTearDown
                                /\ Reboot(wanted)
  <2>1. saved.rebootSetup \in BOOLEAN /\ saved.rebootTearDown \in BOOLEAN
    BY <1>1 DEF SavedRecords
  <2> QED
    BY <2>1, Zenon DEF rebootSetup, rebootTearDown
<1>6. PICK r \in BOOLEAN : r = (history.rebooted \/ wanted)
  BY Zenon
<1>7. history' = [history EXCEPT !.rebooted = r]
  BY <1>5, <1>6, Zenon DEF Reboot
<1>8. history' \in HistoryRecords /\ history'.initial = history.initial /\ history'.rebooted = r
  BY <1>1, <1>7 DEF HistoryRecords
<1>9. history'.lost = history.lost /\ history'.refused = history.refused
  BY <1>1, <1>7 DEF HistoryRecords
<1>10. history'.unread = history.unread /\ history'.unrestored = history.unrestored
  BY <1>1, <1>7 DEF HistoryRecords
<1>11. IsHistory(history, history')
  BY <1>6, <1>8, <1>9, <1>10, Zenon DEF IsHistory
<1>12. SameKeepers(saved, saved')
  BY <1>2, Zenon DEF SameKeepers
<1>13. CASE wanted
  <2>1. Boots(device, device')
    BY <1>1, <1>5, <1>13, BootedIs, Zenon DEF Reboot
  <2>2. AsItShouldBe => Features(options, device', saved', at', history')
    BY <1>2, <1>4, <1>8, <2>1, FeaturesStay, Zenon DEF Boots
  <2>3. saved'.rebootSetup \/ saved'.rebootTearDown
    BY <1>2, <1>5, <1>13, Zenon
  <2>4. DeviceMove
    BY <1>1, <1>2, <1>11, <1>12, <2>1, <2>2, <2>3, ZenonT(40) DEF DeviceMove, Boots
  <2> QED
    BY <1>2, <1>3, <2>4, DeviceStepMoves, Zenon
<1>14. CASE ~wanted
  <2>1. device' = device
    BY <1>5, <1>14, Zenon DEF Reboot
  <2>2. history.rebooted \in BOOLEAN
    BY <1>1 DEF HistoryRecords
  <2>3. SameReboots(history, history')
    BY <1>6, <1>8, <1>14, <2>2, Zenon DEF SameReboots
  <2>4. AsItShouldBe => Features(options, device', saved', at', history')
    BY <1>2, <1>4, <1>8, <2>1, FeaturesStay, Zenon
  <2>5. DeviceMove
    BY <1>1, <1>2, <1>11, <1>12, <2>1, <2>3, <2>4, Zenon DEF DeviceMove
  <2> QED
    BY <1>2, <1>3, <2>5, DeviceStepMoves, Zenon
<1> QED
  BY <1>13, <1>14

(* startFramework or stopFramework by VtsDevicePreparer. *)
FrameworkIs(on) ==
  /\ IsHistory(history, history') /\ SameReboots(history, history')
  /\ SameBody(device, device') /\ device'.radio = device.radio /\ device'.root = device.root
  /\ Undisturbed' => device'.framework = on /\ at' = Return

LEMMA SetFrameworkIs ==
  ASSUME PreparersInv, NEW on \in BOOLEAN, SetFramework(on), at.phase \in {"setUp", "tearDown"}
  PROVE  FrameworkIs(on) /\ AtOk(at')
<1>1. device \in DeviceRecords /\ AtOk(at) /\ history \in HistoryRecords /\ device.root \in BOOLEAN
  BY Typed, Zenon
<1> PICK d : d = AsRoot([device EXCEPT !.framework = on])
  BY Zenon
<1>2. PICK raises \in BOOLEAN : raises = (on /\ ~d.framework)
  BY Zenon
<1>3. PICK h : h = Refused(TRUE)
  BY Zenon
<1>4. /\ device' = d /\ history' = [h EXCEPT !.lost = h.lost \/ raises]
      /\ IF raises /\ at.phase = "setUp" THEN Abort("device") ELSE at' = Return
  BY <1>2, <1>3, Zenon DEF SetFramework
<1>5. IsHistory(history, h) /\ SameReboots(history, h) /\ NotRefused(h, TRUE) /\ h \in HistoryRecords
  BY <1>1, <1>3, RefusedIs, Zenon DEF IsHistory
<1>6. PICK l \in BOOLEAN : l = (h.lost \/ raises)
  BY Zenon
<1>7. history' = [h EXCEPT !.lost = l]
  BY <1>4, <1>6, Zenon
<1>8. history' \in HistoryRecords /\ history'.initial = h.initial /\ history'.rebooted = h.rebooted
  BY <1>5, <1>7 DEF HistoryRecords
<1>9. history'.lost = l /\ history'.refused = h.refused
  BY <1>5, <1>7 DEF HistoryRecords
<1>10. history'.unread = h.unread /\ history'.unrestored = h.unrestored
  BY <1>5, <1>7 DEF HistoryRecords
<1>11. IsHistory(history, history') /\ SameReboots(history, history')
  BY <1>5, <1>6, <1>8, <1>9, <1>10, Zenon DEF IsHistory, SameReboots
<1>12. AtOk(at')
  <2>1. "device" \in {"device", "setup"}
    OBVIOUS
  <2> QED
    BY <1>1, <1>4, <2>1, AbortIs, ReturnIs, Zenon
<1>13. PICK d2 : d2 = [device EXCEPT !.framework = on]
  BY Zenon
<1>14. FrameworkBecomes(device, on, d2)
  BY <1>1, <1>13, BodyUpdate, Zenon
<1>15. d = (IF device.root THEN d2 ELSE device)
  BY <1>13, Zenon DEF AsRoot
<1>16. SameBody(device, device') /\ device'.radio = device.radio /\ device'.root = device.root
  <2>1. SameBody(device, device)
    BY <1>1, Zenon DEF SameBody
  <2> QED
    BY <1>4, <1>14, <1>15, <2>1, Zenon DEF FrameworkBecomes
<1>17. ASSUME Undisturbed'
       PROVE  device'.framework = on /\ at' = Return
  <2>1. ~history'.lost /\ ~history'.refused
    BY <1>17, Zenon DEF Undisturbed
  <2>2. device.root
    BY <1>5, <1>9, <2>1, Zenon DEF NotRefused
  <2>3. ~raises
    BY <1>6, <1>9, <2>1, Zenon
  <2> QED
    BY <1>4, <1>14, <1>15, <2>2, <2>3, Zenon DEF FrameworkBecomes
<1> QED
  BY <1>11, <1>12, <1>16, <1>17, Zenon DEF FrameworkIs

LEMMA LostTypes ==
  ASSUME PreparersInv, SameBody(device, device'), saved' = saved, host' = host, options' = options, AtOk(at'),
         IsHistory(history, history'), ~Undisturbed'
  PROVE  PreparersInv'
<1>1. /\ options \in OptionRecords /\ device \in DeviceRecords /\ host \in SUBSET {"temp", "local"}
      /\ saved \in SavedRecords
  BY Typed, Zenon
<1> QED
  BY <1>1, Zenon DEF PreparersInv, PreparerTypes, SameBody, IsHistory

(* VtsDevicePreparer starts or stops the framework.                        *)
LEMMA FrameworkSteps ==
  ASSUME PreparersInv, frameworkPostRebootSetUp \/ frameworkPostTearDown
  PROVE  PreparersInv'
<1>1. /\ options \in OptionRecords /\ device \in DeviceRecords /\ saved \in SavedRecords /\ AtOk(at)
      /\ history \in HistoryRecords
  BY Typed, Zenon
<1>2. /\ at.phase \in {"setUp", "tearDown"} /\ Plan[at.pos] = "device" /\ options' = options
      /\ host' = host /\ saved' = saved
      /\ \/ at.phase = "setUp" /\ at.step = 5
         \/ at.phase = "tearDown" /\ at.step = 4
  BY Zenon DEF frameworkPostRebootSetUp, frameworkPostTearDown, At
<1>3. SameRest(saved, saved') /\ SameReboot(saved, saved') /\ SameBody(device, device)
  BY <1>1, <1>2, Zenon DEF SameRest, SameReboot, SameKeepers, SameBody
<1>4. ASSUME at' = Return
      PROVE  /\ MovesOn
             /\ ~Early(at, 1) /\ ~Early(at, 2) /\ ~Early(at, 3) /\ ~Early(at', 1) /\ ~Early(at', 2) /\ ~Early(at', 3)
             /\ at.phase = "setUp" => ~Late(at', 2) /\ ~Late(at', 4) /\ ~Late(at', 5)
             /\ at.phase = "tearDown" => Late(at, 2) /\ Late(at, 4)
  <2>1. MovesOn /\ AtOk(at') /\ Returned(at, at')
    BY <1>1, <1>2, <1>4, MovesOnIs, ReturnIs, Zenon DEF MovesOn
  <2>2. at.step >= 3 /\ (at.phase = "setUp" => at.step = 5) /\ (at.phase = "tearDown" => at.step = 4)
    BY <1>2
  <2>3. /\ at.phase = "setUp" => FromSetUp(at, at', at.step)
        /\ at.phase = "tearDown" => FromTearDown(at, at', at.step)
    BY <1>1, <1>2, <2>1, <2>2, DevicePlace, Zenon
  <2>4. CASE at.phase = "setUp"
    <3>1. at.phase # "tearDown"
      BY <2>4
    <3> QED
      BY <2>1, <2>2, <2>3, <2>4, <3>1 DEF FromSetUp
  <2>5. CASE at.phase = "tearDown"
    <3>1. at.phase # "setUp"
      BY <2>5
    <3> QED
      BY <2>1, <2>2, <2>3, <2>5, <3>1 DEF FromTearDown
  <2> QED
    BY <1>2, <2>4, <2>5
<1>5. ASSUME at' = Return, SameBody(device, device'), device'.radio = device.radio, device'.root = device.root,
             IsHistory(history, history'), SameReboots(history, history'),
             AsItShouldBe /\ at.phase = "tearDown" /\ "framework" \in options.restore => device'.framework = saved.framework
      PROVE  PreparersInv'
  <2>1. history'.initial = history.initial
    BY <1>5, Zenon DEF IsHistory
  <2>2. AsItShouldBe /\ at.phase = "tearDown" /\ "root" \in options.restore => device'.root = saved.root
    BY <1>4, <1>5, Zenon DEF AsItShouldBe, RootOk
  <2>3. AsItShouldBe => Features(options, device', saved', at', history')
    BY <1>2, <1>4, <1>5, <2>1, <2>2, FeaturesStay, Zenon
  <2>4. DeviceMove
    BY <1>1, <1>2, <1>3, <1>5, <2>3, DeviceMoveIs, Zenon
  <2> QED
    BY <1>2, <1>4, <1>5, <2>4, DeviceStepMoves, Zenon
<1>6. ASSUME NEW on \in BOOLEAN, SetFramework(on), at.phase = "tearDown" => on = saved.framework
      PROVE  PreparersInv'
  <2>1. FrameworkIs(on) /\ AtOk(at')
    BY <1>2, <1>6, SetFrameworkIs, Zenon
  <2>2. CASE Undisturbed'
    BY <1>5, <1>6, <2>1, <2>2, Zenon DEF FrameworkIs
  <2>3. CASE ~Undisturbed'
    BY <1>2, <2>1, <2>3, LostTypes, Zenon DEF FrameworkIs
  <2> QED
    BY <2>2, <2>3
<1>7. ASSUME at' = Return, device' = device, history' = history,
             at.phase = "tearDown" /\ "framework" \in options.restore => device.framework = saved.framework
      PROVE  PreparersInv'
  BY <1>1, <1>3, <1>5, <1>7, SameHistory, Zenon
<1>8. CASE frameworkPostRebootSetUp
  <2>1. at.phase = "setUp" /\ at.phase # "tearDown"
    BY <1>8 DEF frameworkPostRebootSetUp, At
  <2>2. (options.framework = "start") \in BOOLEAN
    BY Zenon
  <2> QED
    BY <1>6, <1>7, <1>8, <2>1, <2>2, ZenonT(40) DEF frameworkPostRebootSetUp
<1>9. CASE frameworkPostTearDown
  <2>1. saved.framework \in BOOLEAN
    BY <1>1 DEF SavedRecords
  <2> QED
    BY <1>6, <1>7, <1>9, <2>1, Zenon DEF frameworkPostTearDown, Restores
<1> QED
  BY <1>8, <1>9

(* A step whose option is not set.                                         *)
LEMMA SkipStep ==
  ASSUME PreparersInv, skipTearDown
  PROVE  PreparersInv'
<1>1. device \in DeviceRecords /\ AtOk(at) /\ history \in HistoryRecords
  BY Typed, Zenon
<1>2. /\ at.phase = "tearDown" /\ at.e = "device" /\ at' = Return /\ options' = options /\ device' = device
      /\ host' = host /\ saved' = saved /\ history' = history
  BY Zenon DEF skipTearDown, At
<1>3. AtOk(at') /\ IsHistory(history, history') /\ SameBody(device, device')
  BY <1>1, <1>2, ReturnIs, SameHistory, Zenon DEF SameBody
<1>4. ~Undisturbed'
  BY <1>2, Zenon DEF PreparersInv, AsItShouldBe, Undisturbed
<1> QED
  BY <1>2, <1>3, <1>4, LostTypes, Zenon

(* tearDown puts root back.                                                *)
LEMMA RootTearDownStep ==
  ASSUME PreparersInv, adbRootPostTearDown
  PROVE  PreparersInv'
<1>1. device \in DeviceRecords /\ saved \in SavedRecords /\ AtOk(at) /\ history \in HistoryRecords
  BY Typed, Zenon
<1>2. /\ at.phase = "tearDown" /\ Plan[at.pos] = "device" /\ at.step = 3 /\ at' = NextStep /\ options' = options
      /\ host' = host /\ saved' = saved /\ history' = history
  BY Zenon DEF adbRootPostTearDown, At
<1>3. /\ MovesOn /\ AtOk(at') /\ FromTearDown(at, at', 3)
      /\ Late(at', 5) <=> 3 >= 4
  BY <1>1, <1>2, NextPlace, Zenon
<1>4. /\ ~Early(at, 1) /\ ~Early(at, 2) /\ ~Early(at, 3) /\ ~Early(at', 1) /\ ~Early(at', 2) /\ ~Early(at', 3)
      /\ ~Late(at', 5) /\ Late(at, 2)
  BY <1>3 DEF FromTearDown
<1>5. saved.root \in BOOLEAN
  BY <1>1 DEF SavedRecords
<1>6. /\ SameBody(device, device') /\ device'.radio = device.radio
      /\ "root" \in options.restore => device'.root = saved.root
  <2>1. CASE "root" \in options.restore
    <3>1. device' = [device EXCEPT !.root = saved.root]
      BY <2>1, Zenon DEF adbRootPostTearDown, Restores
    <3> QED
      BY <1>1, <1>5, <3>1, BodyUpdate, Zenon DEF RootBecomes
  <2>2. CASE "root" \notin options.restore
    <3>1. device' = device
      BY <2>2, Zenon DEF adbRootPostTearDown, Restores
    <3> QED
      BY <1>1, <2>2, <3>1, Zenon DEF SameBody
  <2> QED
    BY <2>1, <2>2
<1>7. AsItShouldBe => Features(options, device', saved', at', history')
  BY <1>2, <1>4, <1>6, FeaturesStay, Zenon
<1>8. SameRest(saved, saved') /\ SameReboot(saved, saved')
  BY <1>2, Zenon DEF SameRest, SameReboot, SameKeepers
<1>9. DeviceMove
  BY <1>1, <1>2, <1>6, <1>7, <1>8, SameHistory, DeviceMoveIs, Zenon
<1> QED
  BY <1>2, <1>3, <1>9, DeviceStepMoves, Zenon

(* tearDown puts the radio log back.                                       *)
LEMMA RadioTearDownStep ==
  ASSUME PreparersInv, radioLogPreTearDown
  PROVE  PreparersInv'
<1>1. /\ options \in OptionRecords /\ device \in DeviceRecords /\ saved \in SavedRecords /\ AtOk(at)
      /\ history \in HistoryRecords
  BY Typed, Zenon
<1>2. /\ at.phase = "tearDown" /\ Plan[at.pos] = "device" /\ at.step = 1 /\ at' = NextStep /\ options' = options
      /\ host' = host
  BY Zenon DEF radioLogPreTearDown, At
<1>3. /\ MovesOn /\ AtOk(at') /\ FromTearDown(at, at', 1)
      /\ Late(at', 4) <=> 1 >= 3
      /\ Late(at', 5) <=> 1 >= 4
  BY <1>1, <1>2, NextPlace, ZenonT(40)
<1>4. /\ ~Early(at, 1) /\ ~Early(at, 2) /\ ~Early(at, 3) /\ ~Early(at', 1) /\ ~Early(at', 2) /\ ~Early(at', 3)
      /\ ~Late(at', 4) /\ ~Late(at', 5)
  BY <1>3, SMTT(40) DEF FromTearDown
<1>5. /\ radioProperty \in {"new", "old"} /\ radioLogGetState \in {"ENABLED", "DISABLED", "NOT_AVAILABLE"}
      /\ saved.property = "new" /\ device.radio["new"] # "null" =>
           radioProperty = "new" /\ radioLogGetState = LogState(device.radio["new"])
  BY <1>1, RadioReads, Zenon
<1>6. saved.property \in {"new", "old"}
  BY <1>1 DEF SavedRecords
<1> PICK current : current = radioLogGetState
  BY Zenon
<1>7. PICK looks \in BOOLEAN : looks = (Restores("radio") /\ saved.radioLog # "NOT_AVAILABLE")
  BY Zenon
<1>8. PICK off \in BOOLEAN : off = (looks /\ saved.radioLog = "DISABLED" /\ current = "ENABLED")
  BY Zenon
<1>9. PICK on \in BOOLEAN : on = (looks /\ saved.radioLog = "ENABLED" /\ current = "DISABLED")
  BY Zenon
<1>10. PICK prop \in {"new", "old"} : prop = IF looks THEN radioProperty ELSE saved.property
  BY <1>5, <1>6
<1>11. PICK reboot \in BOOLEAN : reboot = (saved.rebootTearDown \/ off \/ on)
  BY Zenon
<1>12. /\ saved' = [saved EXCEPT !.property = prop, !.rebootTearDown = reboot]
       /\ device' = IF off THEN setRadioLog("0") ELSE IF on THEN setRadioLog("1") ELSE device
       /\ history' = Refused(off \/ on)
  BY <1>7, <1>8, <1>9, <1>10, <1>11, ZenonT(40) DEF radioLogPreTearDown
<1>13. saved' \in SavedRecords
  <2>1. "UNKNOWN" \in {"UNKNOWN", "ENABLED", "DISABLED", "NOT_AVAILABLE"}
    OBVIOUS
  <2> QED
    BY <1>1, <1>12, <2>1, SavedUpdate, ZenonT(40)
<1>14. saved'.property = prop /\ saved'.rebootTearDown = reboot /\ saved'.rebootSetup = saved.rebootSetup
  BY <1>1, <1>12, SMTT(40) DEF SavedRecords
<1>15. saved'.radioLog = saved.radioLog /\ saved'.root = saved.root /\ saved'.framework = saved.framework
  BY <1>1, <1>12, SMTT(40) DEF SavedRecords
<1>16. SameRest(saved, saved')
  BY <1>1, <1>12, SMTT(40) DEF SavedRecords, SameRest, SameKeepers
<1>17. SameReboot(saved, saved')
  BY <1>11, <1>14, Zenon DEF SameReboot
<1>18. /\ IsHistory(history, history') /\ SameReboots(history, history') /\ history'.initial = history.initial
       /\ NotRefused(history', off \/ on)
  BY <1>1, <1>12, RefusedIs, Zenon DEF IsHistory
<1> PICK zero, one : /\ zero = [device EXCEPT !.radio["new"] = "0"] /\ one = [device EXCEPT !.radio["new"] = "1"]
  BY Zenon
<1>19. /\ SameBody(device, zero) /\ zero.radio["new"] = "0" /\ zero.radio["old"] = device.radio["old"]
       /\ SameBody(device, one) /\ one.radio["new"] = "1" /\ one.radio["old"] = device.radio["old"]
  <2>1. "0" \in {"0", "1"} /\ "1" \in {"0", "1"}
    OBVIOUS
  <2> QED
    BY <1>1, <2>1, RadioUpdate, Zenon
<1>20. device' \in {device, zero, one}
  BY <1>12, Zenon DEF setRadioLog, AsRoot
<1>21. SameBody(device, device') /\ device'.radio["old"] = device.radio["old"]
  <2>1. SameBody(device, device)
    BY <1>1, Zenon DEF SameBody
  <2> QED
    BY <1>19, <1>20, <2>1, Zenon
<1>22. ASSUME Undisturbed', AsItShouldBe
       PROVE  Features(options, device', saved', at', history')
  <2>1. RootOk(options, device', saved', at', history')
    BY <1>4, <1>15, <1>18, <1>22, Zenon DEF RootOk, AsItShouldBe
  <2>2. FrameworkOk(options, device', saved', at', history')
    BY <1>4, <1>15, <1>18, <1>22, Zenon DEF FrameworkOk, AsItShouldBe
  <2>3. ASSUME history.initial.radio["new"] # "null"
        PROVE  /\ saved'.property = "new" /\ device'.radio["new"] # "null"
               /\ device'.radio["old"] = history.initial.radio["old"]
               /\ "radio" \in options.restore => saved'.radioLog = LogState(history.initial.radio["new"])
               /\ "radio" \in options.restore => device'.radio["new"] = history.initial.radio["new"]
    <3>1. /\ saved.property = "new" /\ device.radio["new"] # "null"
          /\ device.radio["old"] = history.initial.radio["old"]
          /\ "radio" \in options.restore => saved.radioLog = LogState(history.initial.radio["new"])
      BY <1>4, <1>22, <2>3, Zenon DEF RadioOk, AsItShouldBe
    <3>2. saved'.property = "new" /\ current = LogState(device.radio["new"])
      BY <1>5, <1>10, <1>14, <3>1, Zenon
    <3>3. "0" # "null" /\ "1" # "null"
      OBVIOUS
    <3>4. device'.radio["new"] # "null"
      BY <1>19, <1>20, <3>1, <3>3, Zenon
    <3>5. off \/ on => device.root
      BY <1>18, <1>22, Zenon DEF NotRefused, Undisturbed
    <3>6. (off => device' = zero) /\ (~off /\ on => device' = one) /\ (~off /\ ~on => device' = device)
      BY <1>12, <3>5, Zenon DEF setRadioLog, AsRoot
    <3>7. device.radio["new"] \in {"0", "1"} /\ history.initial.radio["new"] \in {"0", "1"}
      BY <1>1, <2>3, <3>1, SMTT(40) DEF DeviceRecords, HistoryRecords
    <3>8. ASSUME "radio" \in options.restore
          PROVE  device'.radio["new"] = history.initial.radio["new"]
      <4>1. looks
        BY <1>7, <3>1, <3>8 DEF Restores, LogState
      <4>2. CASE history.initial.radio["new"] = "1"
        <5>1. saved.radioLog = "ENABLED" /\ ~off
          BY <1>8, <3>1, <3>8, <4>2 DEF LogState
        <5>2. CASE device.radio["new"] = "1"
          <6>1. ~on
            BY <1>9, <3>2, <5>2 DEF LogState
          <6> QED
            BY <3>6, <4>2, <5>1, <5>2, <6>1, Zenon
        <5>3. CASE device.radio["new"] = "0"
          <6>1. on
            BY <1>9, <3>2, <4>1, <5>1, <5>3 DEF LogState
          <6> QED
            BY <1>19, <3>6, <4>2, <5>1, <6>1, Zenon
        <5> QED
          BY <3>7, <5>2, <5>3
      <4>3. CASE history.initial.radio["new"] = "0"
        <5>1. saved.radioLog = "DISABLED" /\ ~on
          BY <1>9, <3>1, <3>8, <4>3 DEF LogState
        <5>2. CASE device.radio["new"] = "0"
          <6>1. ~off
            BY <1>8, <3>2, <5>2 DEF LogState
          <6> QED
            BY <3>6, <4>3, <5>1, <5>2, <6>1, Zenon
        <5>3. CASE device.radio["new"] = "1"
          <6>1. off
            BY <1>8, <3>2, <4>1, <5>1, <5>3, ZenonT(40) DEF LogState
          <6> QED
            BY <1>19, <3>6, <4>3, <6>1, Zenon
        <5> QED
          BY <3>7, <5>2, <5>3
      <4> QED
        BY <3>7, <4>2, <4>3, SMTT(40)
    <3> QED
      BY <1>15, <1>21, <3>1, <3>2, <3>4, <3>8, Zenon
  <2>4. RadioOk(options, device', saved', at', history')
    BY <1>4, <1>18, <2>3, Zenon DEF RadioOk
  <2> QED
    BY <2>1, <2>2, <2>4, Zenon DEF Features
<1>23. DeviceMove
  BY <1>13, <1>16, <1>17, <1>18, <1>21, <1>22, DeviceMoveIs, Zenon
<1> QED
  BY <1>2, <1>3, <1>23, DeviceStepMoves, ZenonT(40)
-----------------------------------------------------------------------------
(* Every step keeps the invariant.                                         *)
LEMMA PreparersStep ==
  ASSUME PreparersInv, [Next]_vars
  PROVE  PreparersInv'
<1>1. CASE DeviceStep
  BY <1>1, RootSetUpStep, RadioSetUpStep, FrameworkSetUpStep, RebootSteps, FrameworkSteps, SkipStep,
     RadioTearDownStep, RootTearDownStep, ZenonT(40) DEF DeviceStep
<1>2. CASE CoverageStep
  BY <1>2, CoverageFilesSteps, PermissiveSteps, CoverageTearsDown, Zenon DEF CoverageStep
<1>3. CASE TraceStep
  BY <1>3, TracePushSteps, PermissiveSteps, TraceTearsDown, Zenon DEF TraceStep
<1>4. CASE AdapterStep
  BY <1>4, AdapterSetUpSteps, AdapterTearDownSteps, Zenon DEF AdapterStep
<1>5. CASE SimStep
  BY <1>5, SimSetsUp, SimTearsDown, Zenon DEF SimStep
<1> QED
  BY <1>1, <1>2, <1>3, <1>4, <1>5, LostStep, TestSteps, UndonePlan, Zenon DEF Next

LEMMA PreparersBegin ==
  ASSUME Init
  PROVE  PreparersInv
<1>1. options \in OptionRecords
  BY OptionsAssumption, Zenon DEF Init, OptionRecords
<1>2. PICK d : d = device /\ d \in Devices
  BY Zenon DEF Init
<1>3. d \in [root : BOOLEAN, framework : BOOLEAN, radio : [{"new", "old"} -> {"null", "0", "1"}],
             selinux : SelinuxModes, files : {{}}, adapted : {FALSE}, sims : Nat \ {0}]
  BY <1>2, DevicesAssumption, Zenon DEF SelinuxModes
<1>4. device \in DeviceRecords /\ device.files = {} /\ ~device.adapted
  BY <1>2, <1>3, ZenonT(40) DEF DeviceRecords
<1>5. host \in SUBSET {"temp", "local"} /\ "temp" \notin host
  BY DEF Init
<1>6. /\ saved \in SavedRecords /\ saved.sims = 0 /\ saved.coverage = "null" /\ saved.trace = "null"
      /\ saved.property = "new"
  BY DEF Init, SavedRecords
<1>7. AtOk(at) /\ at.phase = "setUp" /\ at.pos = 1 /\ at.step = 1 /\ at.e = "none"
  BY PlanFacts DEF Init, AtOk, AtRecords, PhasesOfPlan, Positions, Failures
<1>8. /\ history \in HistoryRecords /\ history.initial = device /\ ~history.rebooted
  BY <1>4 DEF Init, HistoryRecords
<1>9. PreparerTypes
  BY <1>1, <1>4, <1>5, <1>6, <1>7, <1>8, ZenonT(40) DEF PreparerTypes
<1>10. at.e # "device" /\ at.phase # "tearDown" /\ at.phase # "done"
  BY <1>7, SMTT(40)
<1>11. Early(at, 1) /\ Early(at, 2) /\ Early(at, 3) /\ ~Late(at, 2) /\ ~Late(at, 4) /\ ~Late(at, 5)
  BY <1>7 DEF Early, Late
<1>12. RootOk(options, device, saved, at, history) /\ FrameworkOk(options, device, saved, at, history)
  BY <1>8, <1>11, Zenon DEF RootOk, FrameworkOk
<1>13. RadioOk(options, device, saved, at, history)
  BY <1>6, <1>8, <1>11, Zenon DEF RadioOk
<1>14. SimOk(device, saved, at, history)
  BY <1>6, <1>8, Zenon DEF SimOk
<1>15. PushedOk(options, device, host, saved, at)
  BY <1>4, <1>5, Zenon DEF PushedOk
<1>16. HalOk(device, saved, at, history)
  <2>1. ~AdapterStarted(at)
    BY <1>7 DEF AdapterStarted
  <2> QED
    BY <1>4, <2>1, Zenon DEF HalOk
<1>17. \A p \in Keepers : saved[p] = "null"
  BY <1>6 DEF Keepers
<1>18. DisabledOk(device, saved, at, history)
  BY <1>8, <1>17, Zenon DEF DisabledOk
<1>19. ModesOk(device, saved, at, history)
  BY <1>8, <1>17, Zenon DEF ModesOk, Outermost
<1> QED
  BY <1>9, <1>10, <1>12, <1>13, <1>14, <1>15, <1>16, <1>18, <1>19, ZenonT(40) DEF PreparersInv, AsItShouldBe

LEMMA RadioIsBack ==
  ASSUME device \in DeviceRecords, NEW r \in [{"new", "old"} -> {"null", "0", "1"}],
         device.radio["new"] = r["new"], device.radio["old"] = r["old"]
  PROVE  device.radio = r
<1>1. device.radio \in [{"new", "old"} -> {"null", "0", "1"}]
  BY DEF DeviceRecords
<1> QED
  BY <1>1

LEMMA AtTheEnd ==
  ASSUME PreparersInv, Done, Undisturbed
  PROVE  /\ AsItShouldBe /\ \A p : Past(at, p)
         /\ Late(at, 2) /\ Late(at, 4) /\ Late(at, 5) /\ ~Early(at, 1) /\ ~Early(at, 2) /\ ~Early(at, 3)
<1>1. at.phase = "done" /\ at.phase # "setUp"
  BY DEF Done
<1> QED
  BY <1>1, Zenon DEF PreparersInv, Past, Late, Early

(* The invariant says at the end what the features are.                    *)
LEMMA FeaturesAreRestored ==
  ASSUME PreparersInv
  PROVE  FeaturesRestored
<1> SUFFICES ASSUME Done, Undisturbed
             PROVE  /\ Restores("root") => device.root = history.initial.root
                    /\ Restores("framework") => device.framework = history.initial.framework
                    /\ Restores("radio") /\ history.initial.radio["new"] # "null" =>
                         device.radio = history.initial.radio
                    /\ ~history.unread => device.sims = history.initial.sims
  BY Zenon DEF FeaturesRestored
<1>1. /\ AsItShouldBe /\ Past(at, "sim")
      /\ Late(at, 2) /\ Late(at, 4) /\ Late(at, 5) /\ ~Early(at, 1) /\ ~Early(at, 2) /\ ~Early(at, 3)
  BY AtTheEnd, Zenon
<1>2. Restores("root") => device.root = history.initial.root
  BY <1>1, Zenon DEF Restores, AsItShouldBe, RootOk
<1>3. Restores("framework") => device.framework = history.initial.framework
  BY <1>1, Zenon DEF Restores, AsItShouldBe, FrameworkOk
<1>4. ASSUME Restores("radio"), history.initial.radio["new"] # "null"
      PROVE  device.radio = history.initial.radio
  <2>1. device.radio["new"] = history.initial.radio["new"] /\ device.radio["old"] = history.initial.radio["old"]
    BY <1>1, <1>4, Zenon DEF Restores, AsItShouldBe, RadioOk
  <2>2. device \in DeviceRecords /\ history \in HistoryRecords
    BY Typed, Zenon
  <2>3. history.initial.radio \in [{"new", "old"} -> {"null", "0", "1"}]
    BY <2>2 DEF HistoryRecords, DeviceRecords
  <2> QED
    BY <2>1, <2>2, <2>3, RadioIsBack, Zenon
<1>5. ~history.unread => device.sims = history.initial.sims
  BY <1>1, Zenon DEF AsItShouldBe, SimOk
<1> QED
  BY <1>2, <1>3, <1>4, <1>5, SMTT(40)

(* The invariant says at the end that the plan has been undone.            *)
LEMMA PlanComesUndone ==
  ASSUME PreparersInv
  PROVE  NothingLeftBehind /\ HalRestored /\ (SimInside => ModeRestored)
<1>1. NothingLeftBehind
  <2> SUFFICES ASSUME Done, Undisturbed
               PROVE  device.files = {} /\ "temp" \notin host
    BY Zenon DEF NothingLeftBehind
  <2>1. AsItShouldBe /\ Past(at, "coverage") /\ Past(at, "trace")
    BY AtTheEnd, Zenon
  <2>2. "vts_coverage_configure" \notin device.files /\ "temp" \notin host /\ device.files \cap TraceFiles = {}
    BY <2>1, Zenon DEF AsItShouldBe, PushedOk
  <2>3. device.files \in SUBSET PushedFiles
    BY Typed, Zenon
  <2> QED
    BY <2>2, <2>3 DEF PushedFiles
<1>2. HalRestored
  BY AtTheEnd, Zenon DEF HalRestored, AsItShouldBe, HalOk
<1>3. ASSUME SimInside
      PROVE  ModeRestored
  <2> SUFFICES ASSUME Done, Undisturbed, ~saved.rebootSetup, ~saved.rebootTearDown
               PROVE  \/ device.selinux = history.initial.selinux
                      \/ history.rebooted /\ saved.coverage = "null" /\ saved.trace = "null"
    BY Zenon DEF ModeRestored
  <2>1. AsItShouldBe /\ Past(at, "coverage") /\ Past(at, "trace") /\ ModesOk(device, saved, at, history)
    BY AtTheEnd, Zenon DEF AsItShouldBe
  <2>2. "coverage" \in Keepers /\ "trace" \in Keepers
    BY DEF Keepers
  <2>3. /\ saved.coverage = "null" /\ saved.trace = "null" => device.selinux = history.initial.selinux \/ history.rebooted
        /\ Outermost(saved, "coverage") \/ Outermost(saved, "trace") => device.selinux = history.initial.selinux
    BY <1>3, <2>1, <2>2, Zenon DEF ModesOk
  <2>4. saved.coverage # "null" \/ saved.trace # "null" => Outermost(saved, "coverage") \/ Outermost(saved, "trace")
    <3>1. DisabledOk(device, saved, at, history) /\ ModesOk(device, saved, at, history)
      BY <2>1, Zenon DEF AsItShouldBe
    <3>2. CASE saved.coverage # "null" /\ saved.trace # "null"
      <4>1. ~Ahead(at, "coverage") /\ ~Ahead(at, "trace")
        BY <2>2, <3>1, <3>2, Zenon DEF DisabledOk
      <4>2. PICK i \in 1..Len(Plan) : Plan[i] = "coverage"
        BY <4>1, Zenon DEF Ahead
      <4>3. PICK j \in 1..Len(Plan) : Plan[j] = "trace"
        BY <4>1, Zenon DEF Ahead
      <4>4. i < j \/ j < i
        <5>1. i # j
          BY <4>2, <4>3
        <5> QED
          BY <5>1, PlanFacts
      <4> QED
        BY <3>2, <4>2, <4>3, <4>4, KeeperIs, ZenonT(40) DEF Outermost, Outside
    <3> QED
      BY <3>2, KeeperIs, Zenon DEF Outermost
  <2> QED
    BY <2>3, <2>4, Zenon
<1> QED
  BY <1>1, <1>2, <1>3, SMTT(40)

(* The inductive invariant, for any plan that begins with                  *)
(* VtsDevicePreparer, and any options, devices and number of things the    *)
(* test does.                                                              *)
THEOREM PreparersAreKept == Spec => []PreparersInv
BY PreparersBegin, PreparersStep, PTL DEF Spec

(* For every such plan, option and device, across the reboots, the test,   *)
(* the other preparers and setUps that fail: at the end of an undisturbed  *)
(* run adb's root, the framework and the radio log that VtsDevicePreparer  *)
(* was to restore, and the number of SIMs that VtsMultiSimPreparer could   *)
(* read, are as they were before the first setUp.                          *)
THEOREM FeaturesAreAlwaysRestored == Spec => []FeaturesRestored
<1>1. PreparersInv => FeaturesRestored
  BY FeaturesAreRestored, Zenon
<1> QED
  BY <1>1, PreparersAreKept, PTL

(* In the same generality, what the coverage and trace preparers push and  *)
(* the directory of fetched artifacts are gone, and no HAL is left behind  *)
(* an adapter unless the tearDown says so.                                 *)
THEOREM NothingIsLeftBehind == Spec => [](NothingLeftBehind /\ HalRestored)
<1>1. PreparersInv => NothingLeftBehind /\ HalRestored
  BY PlanComesUndone, Zenon
<1> QED
  BY <1>1, PreparersAreKept, PTL

(* When VtsMultiSimPreparer comes after the coverage and trace preparers,  *)
(* SELinux is in its old mode as well: what the coverage, trace and        *)
(* adapter preparers changed is undone. (In the other order a reboot for   *)
(* the SIMs comes between the saving of a mode and its return.)            *)
THEOREM PlanIsAlwaysUndone == SimInside /\ Spec => []PlanIsUndone
<1>1. SimInside /\ PreparersInv => PlanIsUndone
  BY PlanComesUndone, Zenon DEF PlanIsUndone
<1> SUFFICES ASSUME SimInside
             PROVE  Spec => []PlanIsUndone
  OBVIOUS
<1>2. PreparersInv => PlanIsUndone
  BY <1>1
<1> QED
  BY <1>2, PreparersAreKept, PTL
=============================================================================
