-------------------------- MODULE DriverLaunchProofs --------------------------
(***************************************************************************)
(* Proofs about DriverLaunch, for any sessions, services and tries, and    *)
(* about Corpus, the bucket that fuzzing hosts share: in both, actors that *)
(* do not know of one another work on the same files.                      *)
(***************************************************************************)
EXTENDS DriverLaunch, Corpus, WellFoundedInduction, TLAPS

TypeOK ==
  /\ launch \in [Sessions -> {"idle", "poll", "found", "used_up", "success", "lost", "fail"}]
  /\ polls \in [Sessions -> Nat]
  /\ starter \in [Drivers -> {"none", "running", "done"}]
  /\ driver \in [Drivers -> {"none", "started", "exited", "unlinked", "bound", "listening"}]
  /\ file \in [Services -> Drivers \cup {NoDriver}]
  /\ client \in [Sessions -> Drivers \cup {NoDriver}]

(* A process runs the driver's binary once, when it is done with starting, *)
(* and only for a session that launched.                                   *)
StartedOnce ==
  \A s \in Sessions :
    /\ launch[s] = "idle" => starter[<<s, "launcher">>] = "none"
    /\ starter[<<s, "launcher">>] # "done" => starter[<<s, "callback">>] = "none"
    /\ \A x \in Starters : starter[<<s, x>>] # "done" => driver[<<s, x>>] = "none"

(* A socket file is bound by a driver of its service that did not exit. *)
FilesAreBound ==
  \A v \in Services : file[v] # NoDriver =>
    PathOf(file[v]) = v /\ driver[file[v]] \in {"bound", "listening"}

(* Only the launch itself uses the service of the session. *)
Alone(s) ==
  /\ \A t \in Sessions \ {s} : Service[t] = Service[s] => launch[t] = "idle"
  /\ driver[<<s, "callback">>] = "none"

(* What a launch found stays there while nobody else uses its service. *)
FoundStays ==
  \A s \in Sessions : launch[s] = "found" /\ Alone(s) => CanConnect(Service[s])

IInv == TypeOK /\ StartedOnce /\ FilesAreBound /\ FoundStays /\ SuccessIsConnected /\ FoundIsNotLost
-----------------------------------------------------------------------------
LEMMA DriverFacts ==
  /\ NoDriver \notin Drivers
  /\ \A s \in Sessions, x \in Starters : <<s, x>> \in Drivers
  /\ \A s, t \in Sessions, x, y \in Starters : <<s, x>> = <<t, y>> <=> s = t /\ x = y
  /\ \A d \in Drivers : /\ d[1] \in Sessions /\ d[2] \in Starters /\ d = <<d[1], d[2]>>
                        /\ PathOf(d) = Service[d[1]] /\ PathOf(d) \in Services
  /\ "launcher" \in Starters /\ "callback" \in Starters /\ "launcher" # "callback"
  /\ \A x \in Starters : x = "launcher" \/ x = "callback"
  /\ \A s \in Sessions : Service[s] \in Services
BY ConstantsAssumption DEF Drivers, NoDriver, Starters, Services, PathOf

(* StartedOnce, process by process. *)
LEMMA StartedAt ==
  /\ IInv => \A s \in Sessions :
       /\ launch[s] = "idle" => starter[<<s, "launcher">>] = "none"
       /\ starter[<<s, "launcher">>] # "done" => starter[<<s, "callback">>] = "none"
       /\ starter[<<s, "launcher">>] # "done" => driver[<<s, "launcher">>] = "none"
       /\ starter[<<s, "callback">>] # "done" => driver[<<s, "callback">>] = "none"
  /\ (\A s \in Sessions :
       /\ launch'[s] = "idle" => starter'[<<s, "launcher">>] = "none"
       /\ starter'[<<s, "launcher">>] # "done" => starter'[<<s, "callback">>] = "none"
       /\ starter'[<<s, "launcher">>] # "done" => driver'[<<s, "launcher">>] = "none"
       /\ starter'[<<s, "callback">>] # "done" => driver'[<<s, "callback">>] = "none")
     => StartedOnce'
<1>1. ASSUME NEW x \in Starters PROVE x = "launcher" \/ x = "callback"
  BY DEF Starters
<1>2. "launcher" \in Starters /\ "callback" \in Starters
  BY DEF Starters
<1> QED
  BY <1>1, <1>2, Zenon DEF IInv, StartedOnce

(* A process that ran the driver's binary belongs to a launched session.   *)
LEMMA RunsWereLaunched ==
  ASSUME IInv, NEW d \in Drivers, driver[d] # "none"
  PROVE  launch[d[1]] # "idle"
<1>1. /\ d[1] \in Sessions /\ d[2] \in Starters /\ d = <<d[1], d[2]>>
      /\ d[2] = "launcher" \/ d[2] = "callback"
  BY DriverFacts, Zenon
<1>2. starter[d] = "done"
  BY <1>1, Zenon DEF IInv, StartedOnce
<1>3. starter[<<d[1], "launcher">>] # "none"
  BY <1>1, <1>2 DEF IInv, StartedOnce
<1> QED
  BY <1>1, <1>3, Zenon DEF IInv, StartedOnce

(* What a launch that is alone found is its own driver. *)
LEMMA FoundIsOwn ==
  ASSUME IInv, NEW s \in Sessions, launch[s] = "found", Alone(s)
  PROVE  file[Service[s]] = <<s, "launcher">> /\ driver[<<s, "launcher">>] = "listening"
<1> DEFINE d == file[Service[s]]
<1>1. Service[s] \in Services /\ d # NoDriver /\ driver[d] = "listening"
  BY DriverFacts, Zenon DEF IInv, FoundStays, CanConnect
<1>2. d \in Drivers /\ PathOf(d) = Service[s]
  BY <1>1, Zenon DEF IInv, TypeOK, FilesAreBound
<1>3. launch[d[1]] # "idle"
  BY <1>1, <1>2, RunsWereLaunched
<1>4. d[1] = s
  BY <1>2, <1>3, DriverFacts DEF Alone
<1>5. d[2] = "launcher"
  BY <1>1, <1>2, <1>4, DriverFacts DEF Alone
<1> QED
  <2>1. d = <<s, "launcher">>
    BY <1>2, <1>4, <1>5, DriverFacts
  <2> QED
    BY <1>1, <2>1, Zenon

(* A step keeps what a launch found and what it answered when no session   *)
(* is forgotten, no driver that runs is forgotten or stops to listen, and  *)
(* the file that a launch found changes only when the launch is not alone. *)
LEMMA AnswersKept ==
  ASSUME IInv, client' = client,
         \A t \in Sessions : /\ launch[t] # "idle" => launch'[t] # "idle"
                             /\ launch'[t] = "success" => launch[t] = "success"
                             /\ launch'[t] = "lost" => launch[t] = "lost"
                             /\ launch'[t] = "found" => launch[t] = "found",
         \A d \in Drivers : /\ driver[d] # "none" => driver'[d] # "none"
                            /\ driver[d] = "listening" => driver'[d] = "listening",
         \A t \in Sessions : launch[t] = "found" /\ Alone(t) /\ Alone(t)' =>
                               file'[Service[t]] = file[Service[t]]
  PROVE  SuccessIsConnected' /\ FoundIsNotLost' /\ FoundStays'
<1>1. SuccessIsConnected'
  <2> SUFFICES ASSUME NEW t \in Sessions, launch'[t] = "success"
               PROVE  /\ client'[t] # NoDriver
                      /\ driver'[client'[t]] = "listening" /\ PathOf(client'[t]) = Service[t]
    BY Zenon DEF SuccessIsConnected, PathOf
  <2>1. client[t] # NoDriver /\ driver[client[t]] = "listening" /\ PathOf(client[t]) = Service[t]
    BY Zenon DEF IInv, SuccessIsConnected
  <2>2. client[t] \in Drivers
    BY <2>1, Zenon DEF IInv, TypeOK
  <2> QED
    BY <2>1, <2>2, Zenon
<1>2. FoundIsNotLost'
  BY DriverFacts DEF IInv, FoundIsNotLost
<1>3. FoundStays'
  <2> SUFFICES ASSUME NEW t \in Sessions, launch'[t] = "found", Alone(t)'
               PROVE  CanConnect(Service[t])'
    BY Zenon DEF FoundStays
  <2>1. Alone(t)
    BY DriverFacts DEF Alone
  <2>2. launch[t] = "found"
    BY Zenon
  <2>3. file'[Service[t]] = <<t, "launcher">> /\ driver'[<<t, "launcher">>] = "listening"
    BY <2>1, <2>2, FoundIsOwn, DriverFacts, Zenon
  <2>4. <<t, "launcher">> # NoDriver
    BY DriverFacts
  <2> QED
    BY <2>3, <2>4, Zenon DEF CanConnect
<1> QED
  BY <1>1, <1>2, <1>3, Zenon

LEMMA LaunchStep ==
  ASSUME IInv, NEW s \in Sessions, LaunchDriverService(s)
  PROVE  IInv'
<1>1. /\ s \in Sessions /\ Service[s] \in Services /\ <<s, "launcher">> \in Drivers
      /\ launch[s] = "idle"
  BY DriverFacts, Zenon DEF LaunchDriverService
<1>2. TypeOK'
  BY <1>1 DEF IInv, TypeOK, LaunchDriverService
<1>3. StartedOnce'
  <2>4. /\ \A d \in Drivers : d # <<s, "launcher">> => starter'[d] = starter[d]
        /\ starter'[<<s, "launcher">>] = "running"
    BY <1>1 DEF IInv, TypeOK, LaunchDriverService
  <2>1. \A t \in Sessions, x \in Starters :
          ~(t = s /\ x = "launcher") => starter'[<<t, x>>] = starter[<<t, x>>]
    BY <2>4, DriverFacts
  <2>2. driver' = driver /\ launch'[s] # "idle" /\ starter[<<s, "launcher">>] = "none"
    BY <1>1 DEF IInv, TypeOK, StartedOnce, LaunchDriverService
  <2>3. \A t \in Sessions : launch'[t] = "idle" => launch[t] = "idle" /\ t # s
    BY <1>1 DEF IInv, TypeOK, LaunchDriverService
  <2> QED
    BY <2>1, <2>2, <2>3, <2>4, DriverFacts, StartedAt
<1>4. FilesAreBound'
  BY <1>1 DEF IInv, TypeOK, FilesAreBound, LaunchDriverService, PathOf
<1>5. SuccessIsConnected' /\ FoundIsNotLost' /\ FoundStays'
  <2>1. /\ client' = client /\ driver' = driver
        /\ \A t \in Sessions : /\ launch[t] # "idle" => launch'[t] # "idle"
                               /\ launch'[t] = "success" => launch[t] = "success"
                               /\ launch'[t] = "lost" => launch[t] = "lost"
                               /\ launch'[t] = "found" => launch[t] = "found"
    BY <1>1 DEF IInv, TypeOK, LaunchDriverService
  <2>2. \A t \in Sessions : launch[t] = "found" /\ Alone(t)' => Service[t] # Service[s]
    BY <1>1 DEF IInv, TypeOK, LaunchDriverService, Alone
  <2>3. \A t \in Sessions : launch[t] = "found" /\ Alone(t)' =>
                               file'[Service[t]] = file[Service[t]]
    BY <1>1, <2>2, DriverFacts DEF IInv, TypeOK, LaunchDriverService
  <2> QED
    BY <2>1, <2>3, AnswersKept, Zenon
<1> QED
  BY <1>2, <1>3, <1>4, <1>5, Zenon DEF IInv

(* The driver of a process that is not done with starting did not run.     *)
LEMMA RunLauncherStep ==
  ASSUME IInv, NEW s \in Sessions, RunLauncher(s)
  PROVE  IInv'
<1>1. /\ <<s, "launcher">> \in Drivers /\ <<s, "callback">> \in Drivers
      /\ <<s, "launcher">> # <<s, "callback">>
      /\ starter[<<s, "launcher">>] = "running" /\ driver[<<s, "launcher">>] = "none"
  BY DriverFacts DEF IInv, StartedOnce, RunLauncher
<1>2. PICK o \in {"started", "exited"} : driver' = [driver EXCEPT ![<<s, "launcher">>] = o]
  BY Zenon DEF RunLauncher
<1>3. TypeOK'
  BY <1>1, <1>2 DEF IInv, TypeOK, RunLauncher
<1>4. StartedOnce'
  <2>3. /\ \A d \in Drivers : d # <<s, "launcher">> => driver'[d] = driver[d]
        /\ \A d \in Drivers : d # <<s, "launcher">> /\ d # <<s, "callback">> => starter'[d] = starter[d]
        /\ starter'[<<s, "launcher">>] = "done"
    BY <1>1, <1>2 DEF IInv, TypeOK, RunLauncher
  <2>1. /\ \A t \in Sessions, x \in Starters : t # s =>
             starter'[<<t, x>>] = starter[<<t, x>>] /\ driver'[<<t, x>>] = driver[<<t, x>>]
        /\ starter'[<<s, "launcher">>] = "done"
        /\ driver'[<<s, "callback">>] = driver[<<s, "callback">>]
    BY <1>1, <2>3, DriverFacts
  <2>2. launch' = launch /\ launch[s] # "idle" /\ driver[<<s, "callback">>] = "none"
    BY <1>1, DriverFacts DEF IInv, StartedOnce, RunLauncher
  <2> QED
    BY <2>1, <2>2, DriverFacts, StartedAt
<1>5. FilesAreBound'
  BY <1>1, <1>2 DEF IInv, TypeOK, FilesAreBound, RunLauncher, PathOf
<1>6. SuccessIsConnected' /\ FoundIsNotLost' /\ FoundStays'
  <2>1. client' = client /\ launch' = launch /\ file' = file
    BY Zenon DEF RunLauncher
  <2>2. \A d \in Drivers : /\ driver[d] # "none" => driver'[d] # "none"
                           /\ driver[d] = "listening" => driver'[d] = "listening"
    BY <1>1, <1>2 DEF IInv, TypeOK
  <2> QED
    BY <2>1, <2>2, AnswersKept, Zenon
<1> QED
  BY <1>3, <1>4, <1>5, <1>6, Zenon DEF IInv

LEMMA CallbackStep ==
  ASSUME IInv, NEW s \in Sessions, StartSocketServerForDriver(s)
  PROVE  IInv'
<1>1. /\ <<s, "callback">> \in Drivers
      /\ starter[<<s, "callback">>] = "running" /\ driver[<<s, "callback">>] = "none"
  BY DriverFacts DEF IInv, StartedOnce, StartSocketServerForDriver
<1>2. driver' = driver \/ driver' = [driver EXCEPT ![<<s, "callback">>] = "started"]
  BY Zenon DEF StartSocketServerForDriver
<1>3. TypeOK'
  BY <1>1, <1>2 DEF IInv, TypeOK, StartSocketServerForDriver
<1>4. StartedOnce'
  <2>1. \A t \in Sessions, x \in Starters : ~(t = s /\ x = "callback") =>
          starter'[<<t, x>>] = starter[<<t, x>>] /\ driver'[<<t, x>>] = driver[<<t, x>>]
    BY <1>1, <1>2, DriverFacts DEF IInv, TypeOK, StartSocketServerForDriver
  <2>2. launch' = launch /\ starter'[<<s, "callback">>] = "done" /\ starter[<<s, "launcher">>] = "done"
    BY <1>1 DEF IInv, TypeOK, StartedOnce, StartSocketServerForDriver
  <2> QED
    BY <2>1, <2>2, DriverFacts, StartedAt
<1>5. FilesAreBound'
  BY <1>1, <1>2 DEF IInv, TypeOK, FilesAreBound, StartSocketServerForDriver, PathOf
<1>6. SuccessIsConnected' /\ FoundIsNotLost' /\ FoundStays'
  <2>1. client' = client /\ launch' = launch /\ file' = file
    BY Zenon DEF StartSocketServerForDriver
  <2>2. \A d \in Drivers : /\ driver[d] # "none" => driver'[d] # "none"
                           /\ driver[d] = "listening" => driver'[d] = "listening"
    BY <1>1, <1>2 DEF IInv, TypeOK
  <2> QED
    BY <2>1, <2>2, AnswersKept, Zenon
<1> QED
  BY <1>3, <1>4, <1>5, <1>6, Zenon DEF IInv

LEMMA UnlinkStep ==
  ASSUME IInv, NEW d \in Drivers, Unlink(d)
  PROVE  IInv'
<1>1. /\ d[1] \in Sessions /\ d[2] \in Starters /\ d = <<d[1], d[2]>>
      /\ PathOf(d) = Service[d[1]] /\ PathOf(d) \in Services
      /\ driver[d] = "started"
  BY DriverFacts, Zenon DEF Unlink
<1>2. TypeOK'
  BY <1>1 DEF IInv, TypeOK, Unlink
<1>3. StartedOnce'
  <2>1. /\ launch' = launch /\ starter' = starter
        /\ \A e \in Drivers : e # d => driver'[e] = driver[e]
    BY <1>1 DEF IInv, TypeOK, Unlink
  <2>2. starter[d] = "done"
    BY <1>1 DEF IInv, StartedOnce
  <2>3. \A t \in Sessions, x \in Starters :
          starter[<<t, x>>] # "done" => driver'[<<t, x>>] = driver[<<t, x>>]
    BY <2>1, <2>2, DriverFacts, Zenon
  <2> QED
    BY <2>1, <2>3, DriverFacts, StartedAt
<1>4. FilesAreBound'
  BY <1>1 DEF IInv, TypeOK, FilesAreBound, Unlink, PathOf
<1>5. SuccessIsConnected' /\ FoundIsNotLost' /\ FoundStays'
  <2>1. client' = client /\ launch' = launch
    BY Zenon DEF Unlink
  <2>2. \A e \in Drivers : /\ driver[e] # "none" => driver'[e] # "none"
                           /\ driver[e] = "listening" => driver'[e] = "listening"
    BY <1>1 DEF IInv, TypeOK, Unlink
  <2>3. ASSUME NEW t \in Sessions, launch[t] = "found", Alone(t)
        PROVE  Service[t] # PathOf(d)
    <3>1. SUFFICES ASSUME Service[t] = PathOf(d)
                   PROVE  FALSE
      OBVIOUS
    <3>2. launch[d[1]] # "idle"
      BY <1>1, RunsWereLaunched
    <3>3. d[1] = t
      BY <1>1, <2>3, <3>1, <3>2 DEF Alone
    <3>4. d[2] = "launcher"
      BY <1>1, <2>3, <3>3, DriverFacts DEF Alone
    <3> QED
      BY <1>1, <2>3, <3>3, <3>4, FoundIsOwn
  <2>4. \A t \in Sessions : launch[t] = "found" /\ Alone(t) => file'[Service[t]] = file[Service[t]]
    BY <1>1, <2>3, DriverFacts DEF IInv, TypeOK, Unlink
  <2> QED
    BY <2>1, <2>2, <2>4, AnswersKept, Zenon
<1> QED
  BY <1>2, <1>3, <1>4, <1>5, Zenon DEF IInv

LEMMA BindStep ==
  ASSUME IInv, NEW d \in Drivers, Bind(d)
  PROVE  IInv'
<1>1. /\ d[1] \in Sessions /\ d[2] \in Starters /\ d = <<d[1], d[2]>>
      /\ PathOf(d) = Service[d[1]] /\ PathOf(d) \in Services
      /\ driver[d] = "unlinked"
  BY DriverFacts, Zenon DEF Bind
<1>2. TypeOK'
  BY <1>1 DEF IInv, TypeOK, Bind
<1>3. StartedOnce'
  <2>1. /\ launch' = launch /\ starter' = starter
        /\ \A e \in Drivers : e # d => driver'[e] = driver[e]
    BY <1>1 DEF IInv, TypeOK, Bind
  <2>2. starter[d] = "done"
    BY <1>1 DEF IInv, StartedOnce
  <2>3. \A t \in Sessions, x \in Starters :
          starter[<<t, x>>] # "done" => driver'[<<t, x>>] = driver[<<t, x>>]
    BY <2>1, <2>2, DriverFacts, Zenon
  <2> QED
    BY <2>1, <2>3, DriverFacts, StartedAt
<1>4. FilesAreBound'
  <2>1. \A v \in Services : file'[v] # file[v] => v = PathOf(d) /\ file'[v] = d /\ driver'[d] = "bound"
    BY <1>1 DEF IInv, TypeOK, Bind
  <2>2. \A e \in Drivers : driver[e] \in {"bound", "listening"} => driver'[e] = driver[e]
    BY <1>1 DEF IInv, TypeOK, Bind
  <2>3. \A v \in Services : file[v] # NoDriver => file[v] \in Drivers
    BY Zenon DEF IInv, TypeOK
  <2> QED
    BY <1>1, <2>1, <2>2, <2>3 DEF IInv, FilesAreBound, PathOf
<1>5. SuccessIsConnected' /\ FoundIsNotLost' /\ FoundStays'
  <2>1. client' = client /\ launch' = launch
    BY Zenon DEF Bind
  <2>2. \A e \in Drivers : /\ driver[e] # "none" => driver'[e] # "none"
                           /\ driver[e] = "listening" => driver'[e] = "listening"
    BY <1>1 DEF IInv, TypeOK, Bind
  <2>3. \A v \in Services : file[v] # NoDriver => file'[v] = file[v]
    BY <1>1 DEF IInv, TypeOK, Bind
  <2>4. \A t \in Sessions : launch[t] = "found" /\ Alone(t) => file'[Service[t]] = file[Service[t]]
    BY <2>3, DriverFacts, Zenon DEF IInv, FoundStays, CanConnect
  <2> QED
    BY <2>1, <2>2, <2>4, AnswersKept, Zenon
<1> QED
  BY <1>2, <1>3, <1>4, <1>5, Zenon DEF IInv

LEMMA ListenStep ==
  ASSUME IInv, NEW d \in Drivers, Listen(d)
  PROVE  IInv'
<1>1. d[1] \in Sessions /\ d[2] \in Starters /\ d = <<d[1], d[2]>> /\ driver[d] = "bound"
  BY DriverFacts, Zenon DEF Listen
<1>2. TypeOK'
  BY <1>1 DEF IInv, TypeOK, Listen
<1>3. StartedOnce'
  <2>1. /\ launch' = launch /\ starter' = starter
        /\ \A e \in Drivers : e # d => driver'[e] = driver[e]
    BY <1>1 DEF IInv, TypeOK, Listen
  <2>2. starter[d] = "done"
    BY <1>1 DEF IInv, StartedOnce
  <2>3. \A t \in Sessions, x \in Starters :
          starter[<<t, x>>] # "done" => driver'[<<t, x>>] = driver[<<t, x>>]
    BY <2>1, <2>2, DriverFacts, Zenon
  <2> QED
    BY <2>1, <2>3, DriverFacts, StartedAt
<1>4. FilesAreBound'
  BY <1>1 DEF IInv, TypeOK, FilesAreBound, Listen, PathOf
<1>5. SuccessIsConnected' /\ FoundIsNotLost' /\ FoundStays'
  <2>1. client' = client /\ launch' = launch /\ file' = file
    BY Zenon DEF Listen
  <2>2. \A e \in Drivers : /\ driver[e] # "none" => driver'[e] # "none"
                           /\ driver[e] = "listening" => driver'[e] = "listening"
    BY <1>1 DEF IInv, TypeOK, Listen
  <2> QED
    BY <2>1, <2>2, AnswersKept, Zenon
<1> QED
  BY <1>2, <1>3, <1>4, <1>5, Zenon DEF IInv

LEMMA PollStep ==
  ASSUME IInv, NEW s \in Sessions, IsDriverRunning(s)
  PROVE  IInv'
<1>1. /\ launch[s] = "poll" /\ polls[s] \in Nat
      /\ UNCHANGED <<starter, driver, file, callback, client>>
  BY Zenon DEF IInv, TypeOK, IsDriverRunning
<1>2. /\ launch' \in [Sessions -> {"idle", "poll", "found", "used_up", "success", "lost", "fail"}]
      /\ \A t \in Sessions \ {s} : launch'[t] = launch[t]
      /\ launch'[s] \in {"poll", "found", "used_up"}
      /\ launch'[s] = "found" => CanConnect(Service[s])
  BY <1>1 DEF IInv, TypeOK, IsDriverRunning
<1>3. polls' \in [Sessions -> Nat]
  BY <1>1 DEF IInv, TypeOK, IsDriverRunning
<1>4. TypeOK'
  BY <1>1, <1>2, <1>3, Zenon DEF IInv, TypeOK
<1>5. StartedOnce' /\ FilesAreBound'
  BY <1>1, <1>2 DEF IInv, StartedOnce, FilesAreBound, PathOf
<1>6. SuccessIsConnected' /\ FoundIsNotLost'
  BY <1>1, <1>2 DEF IInv, SuccessIsConnected, FoundIsNotLost, PathOf
<1>7. FoundStays'
  <2> SUFFICES ASSUME NEW t \in Sessions, launch'[t] = "found", Alone(t)'
               PROVE  CanConnect(Service[t])
    BY <1>1, Zenon DEF FoundStays, CanConnect
  <2>1. CASE t = s
    BY <1>2, <2>1, Zenon
  <2>2. CASE t # s
    <3>1. Alone(t)
      BY <1>1, <1>2 DEF Alone
    <3> QED
      BY <1>2, <2>2, <3>1 DEF IInv, FoundStays
  <2> QED
    BY <2>1, <2>2, Zenon
<1> QED
  BY <1>4, <1>5, <1>6, <1>7, Zenon DEF IInv

LEMMA ConnectStep ==
  ASSUME IInv, NEW s \in Sessions, Connect(s)
  PROVE  IInv'
<1>1. /\ launch[s] \in {"found", "used_up"} /\ Service[s] \in Services
      /\ UNCHANGED <<polls, starter, driver, file, callback>>
  BY DriverFacts, Zenon DEF Connect
<1>2. /\ launch' \in [Sessions -> {"idle", "poll", "found", "used_up", "success", "lost", "fail"}]
      /\ \A t \in Sessions \ {s} : launch'[t] = launch[t] /\ client'[t] = client[t]
      /\ client' \in [Sessions -> Drivers \cup {NoDriver}]
  BY <1>1 DEF IInv, TypeOK, Connect
<1>3. /\ launch'[s] \in {"success", "lost", "fail"}
      /\ launch'[s] = "success" => client'[s] = file[Service[s]] /\ CanConnect(Service[s])
      /\ launch'[s] = "lost" => launch[s] = "found" /\ ~CanConnect(Service[s])
  BY <1>1 DEF IInv, TypeOK, Connect
<1>4. TypeOK'
  BY <1>1, <1>2, Zenon DEF IInv, TypeOK
<1>5. StartedOnce' /\ FilesAreBound'
  BY <1>1, <1>2, <1>3 DEF IInv, StartedOnce, FilesAreBound, PathOf
<1>6. SuccessIsConnected'
  <2>1. ASSUME CanConnect(Service[s])
        PROVE  /\ file[Service[s]] # NoDriver /\ driver[file[Service[s]]] = "listening"
               /\ PathOf(file[Service[s]]) = Service[s]
    BY <1>1, <2>1, Zenon DEF IInv, FilesAreBound, CanConnect
  <2> QED
    BY <1>1, <1>2, <1>3, <2>1 DEF IInv, SuccessIsConnected, PathOf
<1>7. FoundIsNotLost'
  <2>1. ASSUME launch'[s] = "lost"
        PROVE  \/ \E t \in Sessions \ {s} : Service[t] = Service[s] /\ launch[t] # "idle"
               \/ driver[<<s, "callback">>] # "none"
    BY <1>3, <2>1, Zenon DEF IInv, FoundStays, Alone
  <2> QED
    BY <1>1, <1>2, <1>3, <2>1 DEF IInv, FoundIsNotLost
<1>8. FoundStays'
  <2> SUFFICES ASSUME NEW t \in Sessions, launch'[t] = "found", Alone(t)'
               PROVE  CanConnect(Service[t])
    BY <1>1, Zenon DEF FoundStays, CanConnect
  <2>1. t # s /\ launch[t] = "found"
    BY <1>2, <1>3
  <2>2. Alone(t)
    BY <1>1, <1>2, <1>3 DEF Alone
  <2> QED
    BY <2>1, <2>2, Zenon DEF IInv, FoundStays
<1> QED
  BY <1>4, <1>5, <1>6, <1>7, <1>8, Zenon DEF IInv
-----------------------------------------------------------------------------
LEMMA InitIInv == Init => IInv
<1> SUFFICES ASSUME Init PROVE IInv
  OBVIOUS
<1>1. TypeOK
  BY DEF Init, TypeOK
<1>2. StartedOnce
  BY DriverFacts DEF Init, StartedOnce
<1>3. FilesAreBound
  BY DEF Init, FilesAreBound
<1>4. FoundStays /\ SuccessIsConnected /\ FoundIsNotLost
  BY DEF Init, FoundStays, SuccessIsConnected, FoundIsNotLost
<1> QED
  BY <1>1, <1>2, <1>3, <1>4, Zenon DEF IInv

LEMMA NextIInv == IInv /\ [Next]_vars => IInv'
<1> SUFFICES ASSUME IInv, [Next]_vars PROVE IInv'
  OBVIOUS
<1>1. ASSUME NEW s \in Sessions, LaunchDriverService(s) \/ Progress(s) PROVE IInv'
  <2>1. CASE \E x \in Starters : Unlink(<<s, x>>) \/ Bind(<<s, x>>) \/ Listen(<<s, x>>)
    <3>1. PICK x \in Starters : Unlink(<<s, x>>) \/ Bind(<<s, x>>) \/ Listen(<<s, x>>)
      BY <2>1, Zenon
    <3>2. <<s, x>> \in Drivers
      BY DriverFacts, Zenon
    <3> QED
      BY <3>1, <3>2, UnlinkStep, BindStep, ListenStep, Zenon
  <2> QED
    BY <1>1, <2>1, LaunchStep, RunLauncherStep, CallbackStep, PollStep, ConnectStep, Zenon
       DEF Progress
<1>2. CASE UNCHANGED vars
  BY <1>2 DEF vars, IInv, TypeOK, StartedOnce, FilesAreBound, FoundStays, Alone, CanConnect,
     SuccessIsConnected, FoundIsNotLost, PathOf
<1> QED
  BY <1>1, <1>2, Zenon DEF Next

THEOREM LaunchInvariant == Spec => []IInv
BY InitIInv, NextIInv, PTL DEF Spec

(* However many sessions launch drivers for however many services, and     *)
(* however their launchers, drivers and polls interleave, a launch answers *)
(* success only when it is connected to a listening driver of its service, *)
(* a driver that was found is lost only to another user of the service,    *)
(* and the callback server of HAL drivers is never replaced.               *)
THEOREM LaunchesAreAlwaysSafe == Spec => LaunchesAreSafe
<1>1. [Next]_vars => (callback # {} => callback' = callback)
  BY DEF Next, vars, Progress, LaunchDriverService, RunLauncher, StartSocketServerForDriver,
         IsDriverRunning, Connect, Unlink, Bind, Listen
<1>2. IInv' => SuccessIsConnected' /\ FoundIsNotLost'
  BY Zenon DEF IInv
<1>3. IInv /\ IInv' /\ [Next]_vars
        => [SuccessIsConnected' /\ FoundIsNotLost' /\ (callback # {} => callback' = callback)]_vars
  BY <1>1, <1>2, Zenon
<1> QED
  BY <1>3, LaunchInvariant, PTL DEF Spec, LaunchesAreSafe
-----------------------------------------------------------------------------
(***************************************************************************)
(* Corpus: corpus_manager.py. No string is lost because every rename takes *)
(* its string further on, from incoming to an end: whoever deletes a name  *)
(* of it finds, or has made, one further on. The order of the sessions is  *)
(* kept stage by stage.                                                    *)
(***************************************************************************)
(* The directories of the bucket, without the number of a run or of a      *)
(* generation.                                                             *)
Kinds ==
  {"corpus_lock", "incoming", "corpus_seed_high", "corpus_seed", "corpus_seed_low", "corpus_inuse",
   "corpus_complete", "corpus_crash", "corpus_error", "corpus_trigger", "none"}
Names == Strings \cup Hosts \cup {"crash_report", "none"}
Blobs == Kinds \X Nat \X Names
Stages == [from : Kinds \X Nat, to : Kinds \X Nat, strict : BOOLEAN]
HostPcs == {"idle", "lock", "list", "moveseed", "download"} \cup InSession
HostRecords ==
  [pc : HostPcs, run : Nat, seed : Names, level : Nat, tries : Nat, stages : Seq(Stages),
   left : SUBSET Blobs, crash : BOOLEAN]

(* A rename of a blob: a copy under the new name, then the deletion of the *)
(* old one.                                                                *)
Moves == [src : Blobs, dst : Blobs, copied : BOOLEAN]
CorpusTypes ==
  /\ algorithm \in 0..3
  /\ bucket \in SUBSET Blobs
  /\ host \in [Hosts -> HostRecords]
  /\ move \in [Hosts -> Moves]
  /\ fuzzruns \in Nat /\ deaths \in Nat
  /\ uploaded \in SUBSET Strings

(* How far a blob has come: a lock, an incoming string, a seed, a seed of  *)
(* a generation, a seed in use, an end.                                    *)
Rank(b) ==
  CASE b[1] = "corpus_lock" -> 0
    [] b[1] = "incoming" -> 1
    [] b[1] \in {"corpus_seed_high", "corpus_seed_low"} -> 2
    [] b[1] = "corpus_seed" -> IF b[2] = 0 THEN 2 ELSE 3
    [] b[1] = "corpus_inuse" -> 4
    [] OTHER -> 5

(* The string n is in the bucket, further on than r.                       *)
KeptAbove(n, r) == \E b \in bucket : b[3] = n /\ Rank(b) > r

KeptInv == \A n \in uploaded \ returned : KeptAbove(n, 0)

(* A rename keeps the string and takes it further on, but for a seed that  *)
(* InuseToDest gives back. Once it has copied, a copy is there further on  *)
(* than the blob it deletes: hosts that rename the same string cannot      *)
(* delete all of its names.                                                *)
MoveIsUp(m) ==
  /\ m.dst[3] = m.src[3]
  /\ \/ m.src[3] \in returned
     \/ Rank(m.dst) > Rank(m.src) /\ (m.copied => KeptAbove(m.src[3], Rank(m.src)))
MovesInv == \A h \in Hosts : move[h] # NoMove => MoveIsUp(move[h])

(* Every blob that a stage of _ClassifyPriority lists is taken further on  *)
(* by it, and only algorithm 3 lists other than incoming ones.             *)
StageIsUp(s) ==
  \A b \in Blobs : Dir(b) = s.from \/ (~s.strict /\ b[1] \in {"corpus_seed", "corpus_seed_high", "corpus_seed_low"})
    => Rank(b) < Rank(s.to) /\ (algorithm # 3 => Rank(b) = 1)
(* The priority that a host looks at exists.                               *)
LevelOk(p) == p.level \in 1..(IF algorithm = 1 THEN 1 ELSE 3)
(* What is left of a stage is taken further on, and so is what the stages  *)
(* after it list.                                                          *)
StagesAreUp(p) ==
  p.pc = "stage" =>
    /\ p.stages # <<>>
    /\ \A i \in 1..Len(p.stages) : StageIsUp(p.stages[i])
    /\ \A b \in p.left : Rank(b) < Rank(p.stages[1].to) /\ (algorithm # 3 => Rank(b) = 1)
HostInv(p) == LevelOk(p) /\ StagesAreUp(p)
StagesInv == \A h \in Hosts : HostInv(host[h])

(* Before a module is loaded the hosts are idle and the bucket is empty.   *)
UndeployedInv ==
  algorithm = 0 => bucket = {} /\ \A h \in Hosts : host[h] = IdleHost /\ move[h] = NoMove

(* The inductive invariant behind CorpusIsKept.                            *)
CorpusKeptInv == CorpusTypes /\ KeptInv /\ MovesInv /\ StagesInv /\ UndeployedInv

(* The bucket has a seed of generation i.                                  *)
HasGeneration(i) == \E b \in bucket : b[1] = "corpus_seed" /\ b[2] = i
(* The generations have no gap and end before the last.                    *)
Gapless ==
  \A i \in Nat \ {0} : HasGeneration(i) => i < RepeatTimes - 1 /\ \A j \in 1..i : HasGeneration(j)

Complete == <<"corpus_complete", 0>>
(* The first stage of a run takes the plain seeds to generation g: those   *)
(* before it are there, none after it is.                                  *)
NewGeneration(p, m) ==
  \E g \in 1..(RepeatTimes - 2) :
    /\ Len(p.stages) = 2 /\ p.stages[1].to = <<"corpus_seed", g>>
    /\ p.stages[2] = Stage(<<"incoming", p.run>>, Seed, TRUE)
    /\ \A i \in 1..(g - 1) : HasGeneration(i)
    /\ \A i \in Nat : i > g => ~HasGeneration(i)
    /\ \A b \in p.left : Dir(b) = Seed
    /\ m # NoMove => Dir(m.src) = Seed /\ Dir(m.dst) = <<"corpus_seed", g>>
(* Its second stage makes the incoming strings the plain seeds.            *)
NewSeeds(p, m) ==
  /\ Len(p.stages) = 1 /\ p.stages[1].to = Seed /\ Gapless
  /\ \A b \in p.left : b[1] = "incoming"
  /\ m # NoMove => m.src[1] = "incoming" /\ Dir(m.dst) = Seed
(* When all generations are there, all seeds are completed: what is still  *)
(* a seed is listed, or on its way.                                        *)
EndOfSession(p, m) ==
  /\ Len(p.stages) = 2 /\ p.stages[1].to = Complete
  /\ p.stages[2] = Stage(<<"incoming", p.run>>, Complete, TRUE)
  /\ \A b \in bucket : b[1] = "corpus_seed" => b \in p.left \/ b = m.src
  /\ m # NoMove => Dir(m.dst) = Complete
(* Then the incoming strings are completed; no seed is left.               *)
AfterSession(p, m) ==
  /\ Len(p.stages) = 1 /\ p.stages[1].to = Complete
  /\ \A b \in bucket : b[1] # "corpus_seed"
  /\ \A b \in p.left : b[1] = "incoming"
  /\ m # NoMove => m.src[1] = "incoming" /\ Dir(m.dst) = Complete
(* A stage of algorithm 3 is one of these four.                            *)
StageOk(p, m) == NewGeneration(p, m) \/ NewSeeds(p, m) \/ EndOfSession(p, m) \/ AfterSession(p, m)

OrderPcs == {"idle", "lock"} \cup InSession
(* While hosts of algorithm 3 neither overlap nor die, at most one of them *)
(* is past the lock, only it renames, and between its stages the           *)
(* generations have no gap.                                                *)
InOrder ==
  /\ \A h \in Hosts : host[h].pc \in OrderPcs /\ host[h].seed = "none"
  /\ \A g, h \in Hosts : host[g].pc \in InSession /\ host[h].pc \in InSession => g = h
  /\ \A h \in Hosts : move[h] # NoMove => host[h].pc = "stage"
  /\ \A b \in bucket : b[1] # "corpus_inuse"
  /\ (\A h \in Hosts : host[h].pc # "stage") => Gapless
  /\ \A h \in Hosts : host[h].pc = "stage" => StageOk(host[h], move[h])
Orderly == algorithm = 3 /\ ~overlapped /\ deaths = 0
(* The strengthening of SessionsInOrder.                                   *)
SessionsInv == Orderly => InOrder
-----------------------------------------------------------------------------
(* No string that was not given back falls back.                           *)
KeepsAll == \A n : n \notin returned => \A r \in Nat : KeptAbove(n, r) => KeptAbove(n, r)'

(* Ranks are numbers up to five.                                           *)
LEMMA RankFacts ==
  /\ \A b : Rank(b) \in Nat
  /\ \A d, n : Rank(Path(d, n)) = Rank(d)
  /\ \A b, d : Dir(b) = d => Rank(b) = Rank(d)
  /\ \A d \in CORPUS_STATES : Rank(d) > 1
BY DEF Rank, Path, Dir, CORPUS_STATES

LEMMA PathFacts ==
  /\ \A d, n : Path(d, n)[3] = n /\ Path(d, n)[1] = d[1] /\ Path(d, n)[2] = d[2]
  /\ \A d \in Kinds \X Nat, n \in Names : Path(d, n) \in Blobs
  /\ \A b \in Blobs : b[1] \in Kinds /\ b[2] \in Nat /\ b[3] \in Names /\ b = <<b[1], b[2], b[3]>>
  /\ NoBlob \in Blobs /\ NoMove \in Moves
BY DEF Path, Blobs, Kinds, Names, NoBlob, NoMove, Moves

(* A blob that stays keeps its string where it was.                        *)
LEMMA KeptWhenStillThere ==
  ASSUME \A b \in bucket : b \in bucket' \/ Rank(b) = 0
  PROVE  KeepsAll
BY RankFacts DEF KeepsAll, KeptAbove

(* The end of a rename: the copy that is further on keeps the string.      *)
LEMMA KeptWhenCopied ==
  ASSUME NEW b, bucket' = bucket \ {b}, b[3] \in returned \/ KeptAbove(b[3], Rank(b))
  PROVE  KeepsAll
<1> SUFFICES ASSUME NEW n, n \notin returned, NEW r \in Nat, KeptAbove(n, r)
             PROVE  KeptAbove(n, r)'
  BY Zenon DEF KeepsAll
<1>1. PICK c \in bucket : c[3] = n /\ Rank(c) > r
  BY Zenon DEF KeptAbove
<1>2. CASE c # b
  BY <1>1, <1>2 DEF KeptAbove
<1>3. CASE c = b
  <2>1. PICK d \in bucket : d[3] = n /\ Rank(d) > Rank(b)
    BY <1>1, <1>3 DEF KeptAbove
  <2>2. d # b /\ Rank(d) > r
    BY <2>1, <1>1, <1>3, RankFacts
  <2> QED
    BY <2>1, <2>2 DEF KeptAbove
<1> QED
  BY <1>2, <1>3

(* The strings, for a step that deletes only what is kept further on.      *)
LEMMA KeptStep ==
  ASSUME CorpusKeptInv, NEW h \in Hosts, NEW r \in HostRecords, NEW m \in Moves,
         host' = [host EXCEPT ![h] = r], move' = [move EXCEPT ![h] = m],
         HostInv(r), m = NoMove \/ MoveIsUp(m)',
         KeepsAll, bucket' \in SUBSET Blobs, returned \subseteq returned',
         algorithm' = algorithm, algorithm # 0, fuzzruns' \in Nat, deaths' \in Nat,
         uploaded' \in SUBSET Strings, \A n \in uploaded' \ uploaded : KeptAbove(n, 0)'
  PROVE  CorpusKeptInv'
<1>1. CorpusTypes'
  BY DEF CorpusKeptInv, CorpusTypes
<1>2. KeptInv'
  BY DEF CorpusKeptInv, KeptInv, KeepsAll
<1>3. /\ \A g \in Hosts : g # h => host'[g] = host[g] /\ move'[g] = move[g]
      /\ host'[h] = r /\ move'[h] = m
  BY Zenon DEF CorpusKeptInv, CorpusTypes
<1>4. MovesInv'
  <2> SUFFICES ASSUME NEW g \in Hosts, g # h, NEW n \in Moves, n = move[g], n # NoMove
               PROVE  MoveIsUp(n)'
    BY <1>3, Zenon DEF MovesInv, CorpusKeptInv, CorpusTypes
  <2>1. MoveIsUp(n)
    BY Zenon DEF CorpusKeptInv, MovesInv
  <2>2. n.src[3] \notin returned => (KeptAbove(n.src[3], Rank(n.src)) => KeptAbove(n.src[3], Rank(n.src))')
    BY RankFacts, Zenon DEF KeepsAll
  <2> QED
    BY <2>1, <2>2, Zenon DEF MoveIsUp
<1>5. StagesInv'
  <2> SUFFICES ASSUME NEW g \in Hosts, NEW p, p = host'[g], HostInv(p)
               PROVE  HostInv(p)'
    BY <1>3, Zenon DEF StagesInv, CorpusKeptInv
  <2> QED
    BY Zenon DEF HostInv, LevelOk, StagesAreUp, StageIsUp
<1>6. UndeployedInv'
  BY Zenon DEF UndeployedInv
<1> QED
  BY <1>1, <1>2, <1>4, <1>5, <1>6, Zenon DEF CorpusKeptInv

LEMMA HostFacts ==
  /\ IdleHost \in HostRecords /\ HostInv(IdleHost)
  /\ \A p \in HostRecords : p.pc # "stage" /\ LevelOk(p) => HostInv(p)
  /\ \A p \in HostRecords : HostInv(p) => LevelOk(p)
BY DEF IdleHost, HostRecords, HostPcs, Names, HostInv, LevelOk, StagesAreUp

(* A host's record after it went on with its run, other than in a stage.   *)
WithPc(p, c) == [p EXCEPT !.pc = c]
WithSeed(p, c, s) == [p EXCEPT !.pc = c, !.seed = s]
WithTries(p, c, t) == [p EXCEPT !.pc = c, !.tries = t]
WithRun(p, c, u) == [p EXCEPT !.run = u, !.pc = c]
WithCrash(p, c, k) == [p EXCEPT !.pc = c, !.crash = k]

LEMMA WithPcIsOk ==
  ASSUME NEW p \in HostRecords, HostInv(p), NEW c \in HostPcs, c # "stage"
  PROVE  WithPc(p, c) \in HostRecords /\ HostInv(WithPc(p, c))
<1> DEFINE r == WithPc(p, c)
<1>1. r \in HostRecords /\ r.pc = c /\ r.level = p.level
  BY DEF HostRecords, WithPc
<1> QED
  BY <1>1, HostFacts, Zenon DEF LevelOk

LEMMA WithSeedIsOk ==
  ASSUME NEW p \in HostRecords, HostInv(p), NEW c \in HostPcs, c # "stage", NEW s \in Names
  PROVE  WithSeed(p, c, s) \in HostRecords /\ HostInv(WithSeed(p, c, s))
<1> DEFINE r == WithSeed(p, c, s)
<1>1. r \in HostRecords /\ r.pc = c /\ r.level = p.level
  BY DEF HostRecords, WithSeed
<1> QED
  BY <1>1, HostFacts, Zenon DEF LevelOk

LEMMA WithTriesIsOk ==
  ASSUME NEW p \in HostRecords, HostInv(p), NEW c \in HostPcs, c # "stage", NEW t \in Nat
  PROVE  WithTries(p, c, t) \in HostRecords /\ HostInv(WithTries(p, c, t))
<1> DEFINE r == WithTries(p, c, t)
<1>1. r \in HostRecords /\ r.pc = c /\ r.level = p.level
  BY DEF HostRecords, WithTries
<1> QED
  BY <1>1, HostFacts, Zenon DEF LevelOk

LEMMA WithRunIsOk ==
  ASSUME NEW p \in HostRecords, HostInv(p), NEW c \in HostPcs, c # "stage", NEW u \in Nat
  PROVE  WithRun(p, c, u) \in HostRecords /\ HostInv(WithRun(p, c, u))
<1> DEFINE r == WithRun(p, c, u)
<1>1. r \in HostRecords /\ r.pc = c /\ r.level = p.level
  BY DEF HostRecords, WithRun
<1> QED
  BY <1>1, HostFacts, Zenon DEF LevelOk

LEMMA WithCrashIsOk ==
  ASSUME NEW p \in HostRecords, HostInv(p), NEW c \in HostPcs, c # "stage", NEW k \in BOOLEAN
  PROVE  WithCrash(p, c, k) \in HostRecords /\ HostInv(WithCrash(p, c, k))
<1> DEFINE r == WithCrash(p, c, k)
<1>1. r \in HostRecords /\ r.pc = c /\ r.level = p.level
  BY DEF HostRecords, WithCrash
<1> QED
  BY <1>1, HostFacts, Zenon DEF LevelOk

LEMMA SetLevel ==
  ASSUME NEW p \in HostRecords, HostInv(p), p.pc # "stage", NEW l \in Nat, NEW t \in Nat,
         l <= (IF algorithm = 1 THEN 1 ELSE 3), l > 0,
         NEW r, r = [p EXCEPT !.level = l, !.tries = t]
  PROVE  r \in HostRecords /\ HostInv(r)
<1>1. r \in HostRecords /\ r.pc = p.pc /\ r.level = l
  BY DEF HostRecords
<1>2. LevelOk(r)
  BY <1>1 DEF LevelOk
<1> QED
  BY <1>1, <1>2, HostFacts, Zenon

(* A step that leaves the bucket's strings alone leaves the renames as     *)
(* good as they were.                                                      *)
LEMMA MoveUnchanged ==
  ASSUME CorpusKeptInv, NEW h \in Hosts, move' = move, KeepsAll, returned \subseteq returned'
  PROVE  \E m \in Moves : move' = [move EXCEPT ![h] = m] /\ (m = NoMove \/ MoveIsUp(m)')
<1> PICK m \in Moves : m = move[h]
  BY DEF CorpusKeptInv, CorpusTypes
<1>1. move' = [move EXCEPT ![h] = m]
  BY DEF CorpusKeptInv, CorpusTypes
<1>2. ASSUME m # NoMove PROVE MoveIsUp(m)'
  <2>1. MoveIsUp(m)
    BY <1>2, Zenon DEF CorpusKeptInv, MovesInv
  <2>2. m.src[3] \notin returned => (KeptAbove(m.src[3], Rank(m.src)) => KeptAbove(m.src[3], Rank(m.src))')
    BY RankFacts, Zenon DEF KeepsAll
  <2> QED
    BY <2>1, <2>2, Zenon DEF MoveIsUp
<1> QED
  BY <1>1, <1>2, Zenon

LEMMA DeployedFacts ==
  ASSUME CorpusKeptInv, NEW h \in Hosts, host[h].pc # "idle" \/ move[h] # NoMove
  PROVE  algorithm # 0
BY DEF CorpusKeptInv, UndeployedInv, IdleHost

(* FetchCorpusSeed.                                                        *)
LEMMA FetchKept ==
  ASSUME CorpusKeptInv, NEW h \in Hosts, FetchCorpusSeed(h)
  PROVE  CorpusKeptInv'
<1> PICK c, u : c = (IF algorithm = 3 THEN "lock" ELSE "list") /\ u = fuzzruns + 1
  OBVIOUS
<1> PICK r : r = [IdleHost EXCEPT !.run = u, !.pc = c]
  OBVIOUS
<1>0. c \in {"lock", "list"} /\ u \in Nat /\ fuzzruns' \in Nat
  BY DEF CorpusKeptInv, CorpusTypes, FetchCorpusSeed
<1>1. r \in HostRecords /\ HostInv(r)
  <2>1. c \in HostPcs /\ c # "stage"
    BY <1>0 DEF HostPcs
  <2> QED
    BY <1>0, <2>1, HostFacts, WithRunIsOk, Zenon DEF WithRun
<1>2. host' = [host EXCEPT ![h] = r]
  BY Zenon DEF FetchCorpusSeed, Set
<1>3. KeepsAll
  BY KeptWhenStillThere, Zenon DEF FetchCorpusSeed
<1>4. PICK m \in Moves : move' = [move EXCEPT ![h] = m] /\ (m = NoMove \/ MoveIsUp(m)')
  BY MoveUnchanged, <1>3, Zenon DEF FetchCorpusSeed
<1>5. /\ bucket' \in SUBSET Blobs /\ returned \subseteq returned'
      /\ algorithm' = algorithm /\ algorithm # 0 /\ deaths' \in Nat
      /\ uploaded' \in SUBSET Strings /\ \A n \in uploaded' \ uploaded : KeptAbove(n, 0)'
  BY DEF FetchCorpusSeed, CorpusKeptInv, CorpusTypes
<1> QED
  BY <1>0, <1>1, <1>2, <1>3, <1>4, <1>5, KeptStep, HostFacts, Zenon

(* add_lock.                                                               *)
LEMMA AddLockKept ==
  ASSUME CorpusKeptInv, NEW h \in Hosts, add_lock(h)
  PROVE  CorpusKeptInv'
<1> PICK r : r = [host[h] EXCEPT !.pc = "locked"]
  OBVIOUS
<1>0. host[h] \in HostRecords /\ HostInv(host[h]) /\ host[h].pc = "lock" /\ "locked" \in HostPcs /\ "locked" # "stage"
  BY DEF CorpusKeptInv, CorpusTypes, StagesInv, add_lock, HostPcs, InSession
<1>1. r \in HostRecords /\ HostInv(r)
  BY <1>0, WithPcIsOk, Zenon DEF WithPc
<1>2. host' = [host EXCEPT ![h] = r]
  BY Zenon DEF add_lock, Set
<1>3. KeepsAll
  BY KeptWhenStillThere DEF add_lock
<1>4. PICK m \in Moves : move' = [move EXCEPT ![h] = m] /\ (m = NoMove \/ MoveIsUp(m)')
  BY MoveUnchanged, <1>3, Zenon DEF add_lock
<1>5. Path(Lock, h) \in Blobs
  BY PathFacts DEF Lock, Kinds, Names
<1>6. /\ bucket' \in SUBSET Blobs /\ returned \subseteq returned'
      /\ algorithm' = algorithm /\ deaths' \in Nat /\ fuzzruns' \in Nat
      /\ uploaded' \in SUBSET Strings /\ \A n \in uploaded' \ uploaded : KeptAbove(n, 0)'
  BY <1>5 DEF add_lock, CorpusKeptInv, CorpusTypes
<1>7. algorithm # 0
  BY <1>0, DeployedFacts
<1> QED
  BY <1>1, <1>2, <1>3, <1>4, <1>6, <1>7, KeptStep, HostFacts, Zenon

(* _FetchCorpusSeedFromPriority lists a directory.                         *)
LEMMA ListSeedsKept ==
  ASSUME CorpusKeptInv, NEW h \in Hosts, ListSeeds(h)
  PROVE  CorpusKeptInv'
<1> DEFINE p == host[h]
<1>1. p \in HostRecords /\ HostInv(p) /\ p.pc = "list" /\ algorithm # 0
  BY DeployedFacts DEF CorpusKeptInv, CorpusTypes, StagesInv, ListSeeds
<1>6. "locked" \in HostPcs /\ "moveseed" \in HostPcs /\ "locked" # "stage" /\ "moveseed" # "stage" /\ p.level \in Nat
  BY <1>1 DEF HostPcs, InSession, HostRecords
<1>2. KeepsAll
  BY KeptWhenStillThere DEF ListSeeds
<1>3. /\ bucket' \in SUBSET Blobs /\ returned \subseteq returned'
      /\ algorithm' = algorithm /\ deaths' \in Nat /\ fuzzruns' \in Nat
      /\ uploaded' \in SUBSET Strings /\ \A n \in uploaded' \ uploaded : KeptAbove(n, 0)'
  BY DEF ListSeeds, CorpusKeptInv, CorpusTypes
<1>4. CASE move' = move
  <2>1. PICK r : /\ \/ p.level < Len(CORPUS_PRIORITIES) /\ r = [p EXCEPT !.level = p.level + 1, !.tries = 0]
                    \/ r = [p EXCEPT !.pc = "locked"] \/ r = [p EXCEPT !.pc = "moveseed"]
                 /\ host' = [host EXCEPT ![h] = r]
    BY Zenon DEF ListSeeds, Set
  <2>2. r \in HostRecords /\ HostInv(r)
    <3>1. CASE p.level < Len(CORPUS_PRIORITIES) /\ r = [p EXCEPT !.level = p.level + 1, !.tries = 0]
      <4>1. p.level + 1 \in Nat /\ 0 \in Nat /\ p.level + 1 > 0
        BY <1>6
      <4>2. p.level + 1 <= (IF algorithm = 1 THEN 1 ELSE 3)
        BY <3>1, <1>6 DEF CORPUS_PRIORITIES
      <4>3. p.pc # "stage"
        BY <1>1
      <4> QED
        BY <1>1, <3>1, <4>1, <4>2, <4>3, SetLevel, Zenon
    <3>2. CASE r = [p EXCEPT !.pc = "locked"] \/ r = [p EXCEPT !.pc = "moveseed"]
      BY <1>6, <1>1, <3>2, WithPcIsOk, Zenon DEF WithPc
    <3> QED
      BY <2>1, <3>1, <3>2, Zenon
  <2>3. PICK m \in Moves : move' = [move EXCEPT ![h] = m] /\ (m = NoMove \/ MoveIsUp(m)')
    BY MoveUnchanged, <1>2, <1>3, <1>4, Zenon
  <2> QED
    BY <1>1, <1>2, <1>3, <2>1, <2>2, <2>3, KeptStep, HostFacts, Zenon
<1>5. CASE move' # move
  <2>1. PICK s \in ListFilesWithPrefix(CORPUS_PRIORITIES[p.level], TRUE) :
          /\ MoveFile(h, s, Path(<<"corpus_inuse", 0>>, s[3]))
          /\ Set(h, [p EXCEPT !.pc = "moveseed"])
    BY <1>5, Zenon DEF ListSeeds
  <2> PICK r : r = [p EXCEPT !.pc = "moveseed"]
    OBVIOUS
  <2> PICK m : m = [src |-> s, dst |-> Path(<<"corpus_inuse", 0>>, s[3]), copied |-> FALSE]
    OBVIOUS
  <2>2. host' = [host EXCEPT ![h] = r] /\ move' = [move EXCEPT ![h] = m]
    BY <2>1, Zenon DEF Set, MoveFile
  <2>3. r \in HostRecords /\ HostInv(r)
    BY <1>1, <1>6, WithPcIsOk, Zenon DEF WithPc
  <2>4. s \in Blobs
    BY <2>1 DEF ListFilesWithPrefix, CorpusKeptInv, CorpusTypes
  <2>5. m \in Moves
    BY <2>4, PathFacts DEF Moves, Kinds
  <2>6. /\ p.level \in 1..3
        /\ algorithm = 1 => p.level = 1
    BY <1>1, HostFacts DEF LevelOk
  <2>7. MoveIsUp(m)'
    <3>1. Dir(s) = Seed \/ Dir(s) = <<"corpus_seed_high", 0>> \/ Dir(s) = <<"corpus_seed_low", 0>>
      BY <2>1, <2>6 DEF ListFilesWithPrefix, CORPUS_PRIORITIES
    <3>2. Rank(s) = 2 /\ Rank(<<"corpus_inuse", 0>>) = 4
      BY <3>1 DEF Dir, Rank, Seed
    <3>3. Rank(m.dst) > Rank(m.src) /\ m.dst[3] = m.src[3] /\ ~m.copied
      BY <3>2, RankFacts, PathFacts
    <3> QED
      BY <3>3, Zenon DEF MoveIsUp
  <2> QED
    BY <1>1, <1>2, <1>3, <2>2, <2>3, <2>5, <2>7, KeptStep, HostFacts, Zenon
<1> QED
  BY <1>4, <1>5

(* DownloadFile.                                                           *)
LEMMA DownloadKept ==
  ASSUME CorpusKeptInv, NEW h \in Hosts, DownloadFile(h)
  PROVE  CorpusKeptInv'
<1>1. host[h] \in HostRecords /\ HostInv(host[h]) /\ host[h].pc = "download" /\ algorithm # 0
  BY DeployedFacts DEF CorpusKeptInv, CorpusTypes, StagesInv, DownloadFile
<1>2. KeepsAll
  BY KeptWhenStillThere DEF DownloadFile
<1>3. PICK r : /\ r = [host[h] EXCEPT !.pc = "locked"] \/ r = [host[h] EXCEPT !.pc = "list", !.seed = "none"]
               /\ host' = [host EXCEPT ![h] = r]
  BY Zenon DEF DownloadFile, Set
<1>4. r \in HostRecords /\ HostInv(r)
  <2>1. "locked" \in HostPcs /\ "list" \in HostPcs /\ "none" \in Names
    BY DEF HostPcs, InSession, Names
  <2> QED
    <3>1. CASE r = [host[h] EXCEPT !.pc = "locked"]
      BY <1>1, <2>1, <3>1, WithPcIsOk, Zenon DEF WithPc
    <3>2. CASE r = [host[h] EXCEPT !.pc = "list", !.seed = "none"]
      BY <1>1, <2>1, <3>2, WithSeedIsOk, Zenon DEF WithSeed
    <3> QED
      BY <1>3, <3>1, <3>2, Zenon
<1>5. PICK m \in Moves : move' = [move EXCEPT ![h] = m] /\ (m = NoMove \/ MoveIsUp(m)')
  BY MoveUnchanged, <1>2, Zenon DEF DownloadFile
<1>6. /\ bucket' \in SUBSET Blobs /\ returned \subseteq returned'
      /\ algorithm' = algorithm /\ deaths' \in Nat /\ fuzzruns' \in Nat
      /\ uploaded' \in SUBSET Strings /\ \A n \in uploaded' \ uploaded : KeptAbove(n, 0)'
  BY DEF DownloadFile, CorpusKeptInv, CorpusTypes
<1> QED
  BY <1>1, <1>2, <1>3, <1>4, <1>5, <1>6, KeptStep, HostFacts, Zenon

(* Both halves of rename_blob, by any host: here MoveIsUp is used.         *)
LEMMA RenameKept ==
  ASSUME CorpusKeptInv, NEW h \in Hosts, rename_blob(h)
  PROVE  CorpusKeptInv'
<1> DEFINE p == host[h]
<1> PICK o : o = move[h]
  OBVIOUS
<1>1. /\ p \in HostRecords /\ o \in Moves /\ o # NoMove /\ algorithm # 0 /\ MoveIsUp(o)
      /\ HostInv(p)
  BY DeployedFacts DEF CorpusKeptInv, CorpusTypes, rename_blob, MovesInv, StagesInv
<1>2. /\ returned' = returned
      /\ algorithm' = algorithm /\ deaths' \in Nat /\ fuzzruns' \in Nat
      /\ uploaded' \in SUBSET Strings /\ \A n \in uploaded' \ uploaded : KeptAbove(n, 0)'
  BY DEF rename_blob, CorpusKeptInv, CorpusTypes
<1>3. /\ bucket \subseteq Blobs /\ o.src \in Blobs /\ o.dst \in Blobs /\ o.dst[3] \in Names
  BY <1>1, PathFacts DEF CorpusKeptInv, CorpusTypes, Moves
<1>4. ASSUME NEW d, Moved(h, d)
      PROVE  \E r \in HostRecords : host' = [host EXCEPT ![h] = r] /\ HostInv(r)
  <2>1. PICK r : /\ host' = [host EXCEPT ![h] = r]
                 /\ \/ r = p
                    \/ p.pc = "moveseed" /\ r = [p EXCEPT !.pc = "download", !.seed = o.dst[3]]
                    \/ p.pc = "moveseed" /\ r = [p EXCEPT !.pc = "list", !.tries = p.tries + 1]
    BY <1>4, Zenon DEF Moved, Set
  <2>2. "download" \in HostPcs /\ "list" \in HostPcs /\ p.tries + 1 \in Nat
    BY <1>1 DEF HostPcs, HostRecords
  <2>3. r \in HostRecords /\ HostInv(r)
    <3>1. CASE r = [p EXCEPT !.pc = "download", !.seed = o.dst[3]]
      BY <1>1, <1>3, <2>2, <3>1, WithSeedIsOk, Zenon DEF WithSeed
    <3>2. CASE r = [p EXCEPT !.pc = "list", !.tries = p.tries + 1]
      BY <1>1, <2>2, <3>2, WithTriesIsOk, Zenon DEF WithTries
    <3> QED
      BY <1>1, <2>1, <3>1, <3>2, Zenon
  <2> QED
    BY <2>1, <2>3, Zenon
<1>5. CASE o.src \in bucket /\ o.copied
  <2>1. bucket' = bucket \ {o.src} /\ Moved(h, TRUE) /\ move' = [move EXCEPT ![h] = NoMove]
    BY <1>5, Zenon DEF rename_blob
  <2>2. KeepsAll
    BY <2>1, <1>1, <1>5, KeptWhenCopied, Zenon DEF MoveIsUp
  <2>3. bucket' \in SUBSET Blobs
    BY <2>1, <1>3
  <2> QED
    BY <1>1, <1>2, <1>4, <2>1, <2>2, <2>3, PathFacts, KeptStep, Zenon
<1>6. CASE o.src \in bucket /\ ~o.copied
  <2>1. bucket' = bucket \cup {o.dst} /\ move' = [move EXCEPT ![h].copied = TRUE] /\ host' = host
    BY <1>6, Zenon DEF rename_blob
  <2> PICK m : m = [o EXCEPT !.copied = TRUE]
    OBVIOUS
  <2>2. KeepsAll
    BY <2>1, KeptWhenStillThere
  <2>3. bucket' \in SUBSET Blobs
    BY <2>1, <1>3
  <2>4. move' = [move EXCEPT ![h] = m] /\ m \in Moves /\ m.src = o.src /\ m.dst = o.dst
    BY <2>1, <1>1 DEF Moves, CorpusKeptInv, CorpusTypes
  <2>5. MoveIsUp(m)'
    <3>1. o.dst \in bucket'
      BY <2>1
    <3>2. Rank(o.dst) > Rank(o.src) /\ o.dst[3] = o.src[3] => KeptAbove(o.src[3], Rank(o.src))'
      BY <3>1, Zenon DEF KeptAbove
    <3> QED
      <4>1. m.dst[3] = m.src[3] /\ (m.src[3] \in returned \/ Rank(m.dst) > Rank(m.src))
        BY <2>4, <1>1, Zenon DEF MoveIsUp
      <4>2. m.src[3] \in returned' \/ (Rank(m.dst) > Rank(m.src) /\ KeptAbove(m.src[3], Rank(m.src))')
        BY <4>1, <2>4, <3>2, <1>2, Zenon
      <4> QED
        BY <4>1, <4>2, Zenon DEF MoveIsUp
  <2>6. PICK r : r = p
    OBVIOUS
  <2>7. host' = [host EXCEPT ![h] = r]
    BY <2>1, <2>6 DEF CorpusKeptInv, CorpusTypes
  <2> QED
    BY <1>1, <1>2, <2>2, <2>3, <2>4, <2>5, <2>6, <2>7, KeptStep, Zenon
<1>7. CASE o.src \notin bucket
  <2>1. bucket' = bucket /\ Moved(h, FALSE) /\ move' = [move EXCEPT ![h] = NoMove]
    BY <1>7, Zenon DEF rename_blob
  <2>2. KeepsAll
    BY <2>1, KeptWhenStillThere
  <2>3. bucket' \in SUBSET Blobs
    BY <2>1, <1>3
  <2> QED
    BY <1>1, <1>2, <1>4, <2>1, <2>2, <2>3, PathFacts, KeptStep, Zenon
<1> QED
  BY <1>1, <1>5, <1>6, <1>7 DEF Moves

(* The fuzzer ran; InuseToDest begins its rename.                          *)
LEMMA RunFuzzerKept ==
  ASSUME CorpusKeptInv, NEW h \in Hosts, RunFuzzer(h)
  PROVE  CorpusKeptInv'
<1> DEFINE p == host[h]
<1>1. p \in HostRecords /\ HostInv(p) /\ p.pc = "locked" /\ algorithm # 0
  BY DeployedFacts DEF CorpusKeptInv, CorpusTypes, StagesInv, RunFuzzer
<1>2. KeepsAll
  BY KeptWhenStillThere DEF RunFuzzer
<1>3. /\ bucket' \in SUBSET Blobs /\ returned \subseteq returned'
      /\ algorithm' = algorithm /\ deaths' \in Nat /\ fuzzruns' \in Nat
      /\ uploaded' \in SUBSET Strings /\ \A n \in uploaded' \ uploaded : KeptAbove(n, 0)'
  BY DEF RunFuzzer, CorpusKeptInv, CorpusTypes
<1>4. PICK k \in BOOLEAN : Set(h, [p EXCEPT !.pc = "upload", !.crash = k])
  BY Zenon DEF RunFuzzer
<1> PICK r : r = [p EXCEPT !.pc = "upload", !.crash = k]
  OBVIOUS
<1>5. host' = [host EXCEPT ![h] = r]
  BY <1>4, Zenon DEF Set
<1>6. r \in HostRecords /\ HostInv(r)
  <2>1. "upload" \in HostPcs /\ "upload" # "stage"
    BY DEF HostPcs, InSession
  <2> QED
    BY <1>1, <2>1, WithCrashIsOk, Zenon DEF WithCrash
<1>7. \E m \in Moves : move' = [move EXCEPT ![h] = m] /\ (m = NoMove \/ MoveIsUp(m)')
  <2> PICK s : s = <<"corpus_inuse", 0, p.seed>>
    OBVIOUS
  <2>1. CASE s \notin bucket
    <3>1. move' = move
      BY <2>1, Zenon DEF RunFuzzer
    <3> QED
      BY <3>1, <1>2, <1>3, MoveUnchanged, Zenon
  <2>2. CASE s \in bucket
    <3>1. PICK d \in {"corpus_seed", "corpus_complete", "corpus_crash", "corpus_error"} :
            /\ MoveFile(h, s, <<d, 0, s[3]>>)
            /\ returned' = IF d = "corpus_seed" THEN returned \cup {s[3]} ELSE returned
      BY <2>2, Zenon DEF RunFuzzer
    <3> PICK m : m = [src |-> s, dst |-> <<d, 0, s[3]>>, copied |-> FALSE]
      OBVIOUS
    <3>2. move' = [move EXCEPT ![h] = m]
      BY <3>1, Zenon DEF MoveFile
    <3>3. s[3] = p.seed /\ p.seed \in Names /\ d \in Kinds
      BY <1>1, <3>1 DEF HostRecords, Kinds
    <3>4. s \in Blobs /\ <<d, 0, s[3]>> \in Blobs
      BY <3>3 DEF Blobs, Kinds
    <3>5. m \in Moves
      BY <3>4 DEF Moves
    <3>6. m.dst[3] = m.src[3] /\ ~m.copied /\ m.src[3] = s[3]
      BY <3>3
    <3>7. d = "corpus_seed" => m.src[3] \in returned'
      BY <3>1, <3>6
    <3>8. d # "corpus_seed" => Rank(m.dst) > Rank(m.src)
      BY <3>1 DEF Rank
    <3>9. MoveIsUp(m)'
      BY <3>6, <3>7, <3>8, Zenon DEF MoveIsUp
    <3> QED
      BY <3>2, <3>5, <3>9, Zenon
  <2> QED
    BY <2>1, <2>2
<1> QED
  BY <1>1, <1>2, <1>3, <1>5, <1>6, <1>7, KeptStep, Zenon

(* UploadCorpusOutDir.                                                     *)
LEMMA UploadKept ==
  ASSUME CorpusKeptInv, NEW h \in Hosts, UploadCorpusOutDir(h)
  PROVE  CorpusKeptInv'
<1> DEFINE p == host[h]
<1>1. p \in HostRecords /\ HostInv(p) /\ p.pc = "upload" /\ algorithm # 0 /\ p.run \in Nat
  BY DeployedFacts DEF CorpusKeptInv, CorpusTypes, StagesInv, UploadCorpusOutDir, HostRecords
<1>2. returned' = returned /\ algorithm' = algorithm /\ deaths' \in Nat /\ fuzzruns' \in Nat /\ move' = move
  BY DEF UploadCorpusOutDir, CorpusKeptInv, CorpusTypes
<1> DEFINE Goal == /\ bucket' \in SUBSET Blobs /\ bucket \subseteq bucket' /\ uploaded' \in SUBSET Strings
                   /\ \A n \in uploaded' \ uploaded : KeptAbove(n, 0)'
                   /\ \E r \in HostRecords : HostInv(r) /\ host' = [host EXCEPT ![h] = r]
<1>3. Goal
  <2>1. CASE Set(h, IdleHost) /\ UNCHANGED <<bucket, uploaded>>
    BY <2>1, HostFacts DEF CorpusKeptInv, CorpusTypes, Set
  <2>2. ASSUME NEW out \in SUBSET Strings,
               bucket' = bucket \cup {Path(<<"incoming", p.run>>, n) : n \in out},
               uploaded' = uploaded \cup out,
               Set(h, [p EXCEPT !.pc = "classify"])
        PROVE  Goal
    <3>1. \A n \in out : Path(<<"incoming", p.run>>, n) \in Blobs
      BY <1>1, PathFacts DEF Kinds, Names
    <3>2. \A n : Rank(Path(<<"incoming", p.run>>, n)) > 0 /\ Path(<<"incoming", p.run>>, n)[3] = n
      BY RankFacts, PathFacts DEF Rank
    <3>3. \A n \in out : KeptAbove(n, 0)'
      BY <2>2, <3>2 DEF KeptAbove
    <3>4. "classify" \in HostPcs /\ "classify" # "stage"
      BY DEF HostPcs, InSession
    <3>5. \E r \in HostRecords : HostInv(r) /\ host' = [host EXCEPT ![h] = r]
      BY <2>2, <1>1, <3>4, WithPcIsOk, Zenon DEF WithPc, Set
    <3> QED
      BY <2>2, <3>1, <3>3, <3>5 DEF CorpusKeptInv, CorpusTypes
  <2> QED
    BY <2>1, <2>2, Zenon DEF UploadCorpusOutDir
<1>4. KeepsAll
  BY <1>3, KeptWhenStillThere
<1>5. PICK m \in Moves : move' = [move EXCEPT ![h] = m] /\ (m = NoMove \/ MoveIsUp(m)')
  BY <1>2, <1>4, MoveUnchanged
<1>6. returned \subseteq returned'
  BY <1>2
<1> QED
  BY <1>1, <1>2, <1>3, <1>4, <1>5, <1>6, KeptStep, Zenon

(* remove_lock.                                                            *)
LEMMA RemoveLockKept ==
  ASSUME CorpusKeptInv, NEW h \in Hosts, remove_lock(h)
  PROVE  CorpusKeptInv'
<1>1. host[h].pc = "unlock" /\ algorithm # 0
  BY DeployedFacts DEF remove_lock
<1>2. /\ returned' = returned /\ algorithm' = algorithm /\ deaths' \in Nat /\ fuzzruns' \in Nat
      /\ move' = move /\ uploaded' = uploaded /\ host' = [host EXCEPT ![h] = IdleHost]
      /\ uploaded' \in SUBSET Strings
  BY DEF remove_lock, CorpusKeptInv, CorpusTypes, Set
<1>3. /\ \A b \in bucket : b \in bucket' \/ b = Path(Lock, h)
      /\ bucket' \subseteq bucket \cup {<<"corpus_trigger", 0, "crash_report">>}
  BY DEF remove_lock
<1>4. KeepsAll
  <2>1. Rank(Path(Lock, h)) = 0
    BY RankFacts DEF Lock, Rank
  <2> QED
    BY <1>3, <2>1, KeptWhenStillThere
<1>5. PICK m \in Moves : move' = [move EXCEPT ![h] = m] /\ (m = NoMove \/ MoveIsUp(m)')
  BY <1>2, <1>4, MoveUnchanged
<1>6. <<"corpus_trigger", 0, "crash_report">> \in Blobs
  BY DEF Blobs, Kinds, Names
<1>7. bucket' \in SUBSET Blobs /\ returned \subseteq returned'
  BY <1>2, <1>3, <1>6 DEF CorpusKeptInv, CorpusTypes
<1> QED
  BY <1>1, <1>2, <1>4, <1>5, <1>7, KeptStep, HostFacts, Zenon

(* A host that dies leaves its rename half done.                           *)
LEMMA HostDiesKept ==
  ASSUME CorpusKeptInv, NEW h \in Hosts, HostDies(h)
  PROVE  CorpusKeptInv'
<1>1. algorithm # 0
  BY DeployedFacts DEF HostDies
<1>2. /\ returned' = returned /\ algorithm' = algorithm /\ deaths' \in Nat /\ fuzzruns' \in Nat
      /\ move' = [move EXCEPT ![h] = NoMove] /\ host' = [host EXCEPT ![h] = IdleHost]
      /\ uploaded' = uploaded /\ uploaded' \in SUBSET Strings /\ bucket' = bucket /\ bucket' \in SUBSET Blobs
  BY DEF HostDies, CorpusKeptInv, CorpusTypes, Set
<1>4. KeepsAll /\ returned \subseteq returned'
  BY <1>2, KeptWhenStillThere
<1> QED
  BY <1>1, <1>2, <1>4, PathFacts, KeptStep, HostFacts, Zenon

(* The module is loaded.                                                   *)
LEMMA DeployKept ==
  ASSUME CorpusKeptInv, Deploy
  PROVE  CorpusKeptInv'
<1>1. /\ bucket = {} /\ \A h \in Hosts : host[h] = IdleHost /\ move[h] = NoMove
      /\ bucket' = bucket /\ host' = host /\ move' = move /\ uploaded' = uploaded /\ returned' = returned
      /\ algorithm' # 0
  BY DEF CorpusKeptInv, UndeployedInv, Deploy
<1>2. CorpusTypes'
  BY DEF CorpusKeptInv, CorpusTypes, Deploy
<1>3. KeptInv'
  BY <1>1 DEF CorpusKeptInv, KeptInv, KeptAbove
<1>4. HostInv(IdleHost)'
  BY DEF HostInv, LevelOk, StagesAreUp, IdleHost
<1>5. StagesInv'
  BY <1>1, <1>4 DEF StagesInv
<1>6. MovesInv' /\ UndeployedInv'
  BY <1>1, Zenon DEF MovesInv, UndeployedInv
<1> QED
  BY <1>2, <1>3, <1>5, <1>6, Zenon DEF CorpusKeptInv

(* The generation that _ClassifyPriority3 looks up, when there is one to   *)
(* fill.                                                                   *)
LEMMA GenerationFacts ==
  ASSUME Generation < RepeatTimes - 1
  PROVE  /\ Generation \in 1..(RepeatTimes - 2) /\ ~PrefixExists(<<"corpus_seed", Generation>>)
         /\ \A j \in 1..(Generation - 1) : PrefixExists(<<"corpus_seed", j>>)
<1> DEFINE free == {i \in 1..(RepeatTimes - 1) : ~PrefixExists(<<"corpus_seed", i>>)}
<1>1. RepeatTimes \in Nat
  BY CorpusBounds
<1>2. free # {} /\ Generation = CHOOSE i \in free : \A j \in free : i <= j
  <2>1. Generation = IF free = {} THEN RepeatTimes - 1 ELSE CHOOSE i \in free : \A j \in free : i <= j
    BY Zenon DEF Generation
  <2>2. free # {}
    <3>1. free = {} => Generation = RepeatTimes - 1
      BY <2>1, Zenon
    <3> HIDE DEF free
    <3> QED
      BY <1>1, <3>1
  <2> QED
    BY <2>1, <2>2, Zenon
<1>3. free \subseteq Nat
  BY <1>1
<1>4. PICK m \in free : \A j \in free : ~ (<<j, m>> \in OpToRel(<, Nat))
  <2> HIDE DEF free
  <2> QED BY <1>2, <1>3, NatLessThanWellFounded, WFMin, Zenon
<1>5. \A j \in free : m <= j
  <2> SUFFICES ASSUME NEW j \in free PROVE m <= j
    OBVIOUS
  <2>1. ~(j < m) /\ j \in Nat /\ m \in Nat
    BY <1>3, <1>4 DEF OpToRel
  <2> QED
    BY <2>1
<1>6. Generation \in free /\ \A j \in free : Generation <= j
  <2> HIDE DEF free
  <2> QED BY <1>2, <1>4, <1>5, Zenon
<1> QED
  BY <1>1, <1>6

(* What a stage lists. *)
LEMMA ListedAreUp ==
  ASSUME CorpusTypes, NEW s \in Stages, StageIsUp(s), NEW b \in ListFilesWithPrefix(s.from, s.strict)
  PROVE  b \in Blobs /\ Rank(b) < Rank(s.to) /\ (algorithm # 3 => Rank(b) = 1)
BY DEF CorpusTypes, ListFilesWithPrefix, StageIsUp

LEMMA StageFacts ==
  ASSUME NEW u \in Nat
  PROVE  /\ \A t \in {Seed, <<"corpus_seed_high", 0>>, Complete} :
              /\ Stage(<<"incoming", u>>, t, TRUE) \in Stages /\ StageIsUp(Stage(<<"incoming", u>>, t, TRUE))
         /\ algorithm = 3 =>
              /\ Stage(Seed, Complete, FALSE) \in Stages /\ StageIsUp(Stage(Seed, Complete, FALSE))
              /\ \A g \in Nat \ {0} : /\ Stage(Seed, <<"corpus_seed", g>>, TRUE) \in Stages
                                     /\ StageIsUp(Stage(Seed, <<"corpus_seed", g>>, TRUE))
<1>1. ASSUME NEW t \in {Seed, <<"corpus_seed_high", 0>>, Complete}
      PROVE  /\ Stage(<<"incoming", u>>, t, TRUE) \in Stages /\ StageIsUp(Stage(<<"incoming", u>>, t, TRUE))
  <2>1. Rank(t) > 1 /\ t \in Kinds \X Nat
    BY DEF Rank, Seed, Complete, Kinds
  <2>2. Stage(<<"incoming", u>>, t, TRUE) \in Stages
    BY <2>1 DEF Stage, Stages, Kinds
  <2>3. \A b : Dir(b) = <<"incoming", u>> => Rank(b) = 1
    BY DEF Dir, Rank
  <2> QED
    BY <2>1, <2>2, <2>3 DEF Stage, StageIsUp
<1>2. ASSUME algorithm = 3
      PROVE  Stage(Seed, Complete, FALSE) \in Stages /\ StageIsUp(Stage(Seed, Complete, FALSE))
  <2>1. Rank(Complete) = 5
    BY DEF Complete, Rank
  <2>2. \A b : Dir(b) = Seed \/ b[1] \in {"corpus_seed", "corpus_seed_high", "corpus_seed_low"} => Rank(b) < 5
    BY DEF Dir, Rank, Seed
  <2>3. Stage(Seed, Complete, FALSE) \in Stages
    BY DEF Stage, Stages, Seed, Complete, Kinds
  <2> QED
    BY <1>2, <2>1, <2>2, <2>3 DEF Stage, StageIsUp
<1>3. ASSUME algorithm = 3, NEW g \in Nat \ {0}
      PROVE  /\ Stage(Seed, <<"corpus_seed", g>>, TRUE) \in Stages
             /\ StageIsUp(Stage(Seed, <<"corpus_seed", g>>, TRUE))
  <2>1. Rank(<<"corpus_seed", g>>) = 3
    BY DEF Rank
  <2>2. \A b : Dir(b) = Seed => Rank(b) = 2
    BY DEF Dir, Rank, Seed
  <2>3. Stage(Seed, <<"corpus_seed", g>>, TRUE) \in Stages
    BY DEF Stage, Stages, Seed, Kinds
  <2> QED
    BY <1>3, <2>1, <2>2, <2>3 DEF Stage, StageIsUp
<1> QED
  BY <1>1, <1>2, <1>3, Zenon

(* The plan of a run. *)
LEMMA PlanCases ==
  ASSUME algorithm \in 1..3, NEW p
  PROVE  \/ \E t \in {Seed, <<"corpus_seed_high", 0>>} :
               algorithm # 3 /\ _ClassifyPriority(p) = <<Stage(<<"incoming", p.run>>, t, TRUE)>>
         \/ /\ algorithm = 3 /\ Generation < RepeatTimes - 1
            /\ _ClassifyPriority(p) = <<Stage(Seed, <<"corpus_seed", Generation>>, TRUE), Stage(<<"incoming", p.run>>, Seed, TRUE)>>
         \/ /\ algorithm = 3
            /\ _ClassifyPriority(p) = <<Stage(Seed, Complete, FALSE), Stage(<<"incoming", p.run>>, Complete, TRUE)>>
<1> DEFINE incoming == <<"incoming", p.run>>
<1>1. CASE algorithm = 1
  <2>1. algorithm # 2 /\ algorithm # 3
    BY <1>1
  <2>2. _ClassifyPriority(p) = <<Stage(incoming, Seed, TRUE)>>
    BY <1>1, <2>1, Zenon DEF _ClassifyPriority
  <2> QED
    BY <2>1, <2>2, Zenon
<1>2. CASE algorithm = 2
  <2>1. algorithm # 1 /\ algorithm # 3
    BY <1>2
  <2>2. _ClassifyPriority(p) = <<Stage(incoming, IF p.crash THEN <<"corpus_seed_high", 0>> ELSE Seed, TRUE)>>
    BY <1>2, <2>1, Zenon DEF _ClassifyPriority
  <2>3. (IF p.crash THEN <<"corpus_seed_high", 0>> ELSE Seed) \in {Seed, <<"corpus_seed_high", 0>>}
    BY Zenon
  <2> QED
    BY <2>1, <2>2, <2>3, Zenon
<1>3. CASE algorithm = 3 /\ Generation < RepeatTimes - 1
  <2>1. algorithm # 1 /\ algorithm # 2
    BY <1>3
  <2>2. _ClassifyPriority(p) = <<Stage(Seed, <<"corpus_seed", Generation>>, TRUE), Stage(incoming, Seed, TRUE)>>
    BY <1>3, <2>1, Zenon DEF _ClassifyPriority
  <2> QED
    BY <1>3, <2>2, Zenon
<1>4. CASE algorithm = 3 /\ ~(Generation < RepeatTimes - 1)
  <2>1. algorithm # 1 /\ algorithm # 2
    BY <1>4
  <2>2. _ClassifyPriority(p) = <<Stage(Seed, Complete, FALSE), Stage(incoming, Complete, TRUE)>>
    BY <1>4, <2>1, Zenon DEF _ClassifyPriority, Complete
  <2> QED
    BY <1>4, <2>2, Zenon
<1> QED
  <2>1. algorithm = 1 \/ algorithm = 2 \/ algorithm = 3
    OBVIOUS
  <2> QED
    BY <2>1, <1>1, <1>2, <1>3, <1>4, Zenon

(* The stages of _ClassifyPriority take strings further on, for every      *)
(* algorithm.                                                              *)
LEMMA PlanIsUp ==
  ASSUME algorithm \in 1..3, NEW p \in HostRecords, NEW q, q = _ClassifyPriority(p)
  PROVE  q \in Seq(Stages) /\ q # <<>> /\ \A i \in 1..Len(q) : StageIsUp(q[i])
<1>1. p.run \in Nat
  BY DEF HostRecords
<1>2. ASSUME NEW s \in Stages, StageIsUp(s), q = <<s>>
      PROVE  q \in Seq(Stages) /\ q # <<>> /\ \A i \in 1..Len(q) : StageIsUp(q[i])
  BY <1>2
<1>3. ASSUME NEW s \in Stages, StageIsUp(s), NEW t \in Stages, StageIsUp(t), q = <<s, t>>
      PROVE  q \in Seq(Stages) /\ q # <<>> /\ \A i \in 1..Len(q) : StageIsUp(q[i])
  BY <1>3
<1>4. Generation < RepeatTimes - 1 => Generation \in Nat \ {0}
  BY GenerationFacts, CorpusBounds
<1>5. Seed \in {Seed, <<"corpus_seed_high", 0>>, Complete} /\ Complete \in {Seed, <<"corpus_seed_high", 0>>, Complete}
  OBVIOUS
<1>6. \A t \in {Seed, <<"corpus_seed_high", 0>>} : t \in {Seed, <<"corpus_seed_high", 0>>, Complete}
  OBVIOUS
<1> QED
  BY <1>1, <1>2, <1>3, <1>4, <1>5, <1>6, PlanCases, StageFacts, Zenon

WithStages(p, q, l) == [p EXCEPT !.pc = "stage", !.stages = q, !.left = l]
WithLeft(p, l) == [p EXCEPT !.left = l]

LEMMA WithStagesIsOk ==
  ASSUME NEW p \in HostRecords, NEW q \in Seq(Stages), NEW l \in SUBSET Blobs
  PROVE  /\ WithStages(p, q, l) \in HostRecords /\ WithStages(p, q, l).pc = "stage"
         /\ WithStages(p, q, l).stages = q /\ WithStages(p, q, l).left = l
         /\ WithStages(p, q, l).level = p.level /\ WithStages(p, q, l).seed = p.seed
         /\ WithStages(p, q, l).run = p.run
BY DEF HostRecords, WithStages, HostPcs, InSession

LEMMA WithLeftIsOk ==
  ASSUME NEW p \in HostRecords, NEW l \in SUBSET Blobs
  PROVE  /\ WithLeft(p, l) \in HostRecords /\ WithLeft(p, l).pc = p.pc
         /\ WithLeft(p, l).stages = p.stages /\ WithLeft(p, l).left = l
         /\ WithLeft(p, l).level = p.level /\ WithLeft(p, l).seed = p.seed /\ WithLeft(p, l).run = p.run
BY DEF HostRecords, WithLeft

LEMMA SeqFacts ==
  ASSUME NEW S, NEW t \in Seq(S), t # <<>>
  PROVE  /\ Head(t) = t[1] /\ t[1] \in S /\ Len(t) \in Nat \ {0}
         /\ Tail(t) \in Seq(S) /\ Len(Tail(t)) = Len(t) - 1
         /\ \A i \in 1..Len(Tail(t)) : i + 1 \in 1..Len(t) /\ Tail(t)[i] = t[i + 1]
BY SMTT(40)

(* The stages that are left when one is done.                              *)
LEMMA TailFacts ==
  ASSUME NEW S, NEW t \in Seq(S), t # <<>>
  PROVE  /\ Len(t) = 1 => Tail(t) = <<>>
         /\ Len(t) = 2 => Tail(t) # <<>> /\ Len(Tail(t)) = 1 /\ Tail(t)[1] = t[2]
<1> PICK q : q = Tail(t)
  OBVIOUS
<1>1. q \in Seq(S) /\ Len(q) = Len(t) - 1 /\ \A i \in 1..Len(q) : q[i] = t[i + 1]
  BY SeqFacts
<1>2. Len(q) = 0 => q = <<>>
  BY <1>1
<1>3. Len(q) = 1 => q # <<>>
  <2>1. Len(<<>>) # 1
    OBVIOUS
  <2> QED
    BY <2>1, Zenon
<1>4. Len(t) = 2 => Len(q) = 1 /\ q[1] = t[2]
  <2>1. Len(t) = 2 => Len(q) = 1
    BY <1>1
  <2>2. Len(q) = 1 => 1 \in 1..Len(q)
    BY <1>1
  <2>3. 1 + 1 = 2
    OBVIOUS
  <2> QED
    BY <1>1, <2>1, <2>2, <2>3, Zenon
<1>5. Len(t) = 1 => Len(q) = 0
  BY <1>1
<1> QED
  BY <1>2, <1>3, <1>4, <1>5, Zenon

LEMMA ListStageCases ==
  ASSUME CorpusKeptInv, NEW h \in Hosts, ListStage(h)
  PROVE  \E q \in Seq(Stages) :
           /\ \/ host[h].pc = "classify" /\ q = _ClassifyPriority(host[h])
              \/ host[h].pc = "stage" /\ host[h].left = {} /\ move[h] = NoMove /\ q = Tail(host[h].stages)
           /\ \A i \in 1..Len(q) : StageIsUp(q[i])
           /\ \/ q = <<>> /\ host' = [host EXCEPT ![h] = [host[h] EXCEPT !.pc = "unlock"]]
              \/ /\ q # <<>>
                 /\ host' = [host EXCEPT ![h] = WithStages(host[h], q, ListFilesWithPrefix(q[1].from, q[1].strict))]
<1> DEFINE p == host[h]
<1> PICK q : q = IF p.pc = "classify" THEN _ClassifyPriority(p) ELSE Tail(p.stages)
  OBVIOUS
<1>1. p \in HostRecords /\ HostInv(p) /\ (p.pc = "classify" \/ p.pc = "stage") /\ algorithm \in 1..3
  <2>1. p.pc = "classify" \/ p.pc = "stage"
    BY Zenon DEF ListStage
  <2>2. algorithm # 0
    BY <2>1, DeployedFacts
  <2> QED
    BY <2>1, <2>2 DEF CorpusKeptInv, CorpusTypes, StagesInv
<1>2. \/ p.pc = "classify" /\ q = _ClassifyPriority(p)
      \/ p.pc = "stage" /\ p.left = {} /\ move[h] = NoMove /\ q = Tail(p.stages)
  BY <1>1 DEF ListStage
<1>3. q \in Seq(Stages) /\ \A i \in 1..Len(q) : StageIsUp(q[i])
  <2>1. CASE p.pc = "classify" /\ q = _ClassifyPriority(p)
    BY <1>1, <2>1, PlanIsUp, Zenon
  <2>2. CASE p.pc = "stage" /\ q = Tail(p.stages)
    <3> PICK t : t = p.stages
      OBVIOUS
    <3>1. t \in Seq(Stages)
      BY <1>1 DEF HostRecords
    <3>2. t # <<>> /\ \A i \in 1..Len(t) : StageIsUp(t[i])
      BY <1>1, <2>2, Zenon DEF HostInv, StagesAreUp
    <3>3. q = Tail(t)
      BY <2>2
    <3>5. Tail(t) \in Seq(Stages) /\ \A i \in 1..Len(Tail(t)) : i + 1 \in 1..Len(t) /\ Tail(t)[i] = t[i + 1]
      BY <3>1, <3>2, SeqFacts
    <3>4. q \in Seq(Stages) /\ \A i \in 1..Len(q) : i + 1 \in 1..Len(t) /\ q[i] = t[i + 1]
      BY <3>3, <3>5, Zenon
    <3> QED
      BY <3>2, <3>4, Zenon
  <2> QED
    BY <1>2, <2>1, <2>2, Zenon
<1>4. Set(h, IF q = <<>> THEN [p EXCEPT !.pc = "unlock"]
             ELSE [p EXCEPT !.pc = "stage", !.stages = q,
                            !.left = ListFilesWithPrefix(Head(q).from, Head(q).strict)])
  BY Zenon DEF ListStage
<1>5. q # <<>> => Head(q) = q[1]
  BY <1>3, SeqFacts, Zenon
<1>6. \/ q = <<>> /\ host' = [host EXCEPT ![h] = [p EXCEPT !.pc = "unlock"]]
      \/ /\ q # <<>>
         /\ host' = [host EXCEPT ![h] = WithStages(p, q, ListFilesWithPrefix(q[1].from, q[1].strict))]
  BY <1>4, <1>5, Zenon DEF Set, WithStages
<1> QED
  BY <1>2, <1>3, <1>6, Zenon

(* The generation is looked up, or the next directory is listed.           *)
LEMMA ListStageKept ==
  ASSUME CorpusKeptInv, NEW h \in Hosts, ListStage(h)
  PROVE  CorpusKeptInv'
<1> DEFINE p == host[h]
<1>1. p \in HostRecords /\ HostInv(p) /\ (p.pc = "classify" \/ p.pc = "stage") /\ algorithm # 0
  <2>1. p.pc = "classify" \/ p.pc = "stage"
    BY Zenon DEF ListStage
  <2>2. algorithm # 0
    BY <2>1, DeployedFacts
  <2> QED
    BY <2>1, <2>2 DEF CorpusKeptInv, CorpusTypes, StagesInv
<1>2. /\ bucket' = bucket /\ returned' = returned /\ algorithm' = algorithm /\ uploaded' = uploaded
      /\ bucket' \in SUBSET Blobs /\ deaths' \in Nat /\ fuzzruns' \in Nat /\ move' = move /\ uploaded' \in SUBSET Strings
  BY DEF ListStage, CorpusKeptInv, CorpusTypes
<1>3. KeepsAll /\ returned \subseteq returned'
  BY <1>2, KeptWhenStillThere
<1>4. PICK m \in Moves : move' = [move EXCEPT ![h] = m] /\ (m = NoMove \/ MoveIsUp(m)')
  BY <1>2, <1>3, MoveUnchanged
<1>5. \E r \in HostRecords : HostInv(r) /\ host' = [host EXCEPT ![h] = r]
  <2>1. PICK q \in Seq(Stages) :
          /\ \A i \in 1..Len(q) : StageIsUp(q[i])
          /\ \/ host' = [host EXCEPT ![h] = [p EXCEPT !.pc = "unlock"]]
             \/ /\ q # <<>>
                /\ host' = [host EXCEPT ![h] = WithStages(p, q, ListFilesWithPrefix(q[1].from, q[1].strict))]
    BY ListStageCases, Zenon
  <2>2. CASE host' = [host EXCEPT ![h] = [p EXCEPT !.pc = "unlock"]]
    <3>1. "unlock" \in HostPcs /\ "unlock" # "stage"
      BY DEF HostPcs, InSession
    <3> QED
      BY <1>1, <2>2, <3>1, WithPcIsOk, Zenon DEF WithPc
  <2>3. CASE /\ q # <<>>
             /\ host' = [host EXCEPT ![h] = WithStages(p, q, ListFilesWithPrefix(q[1].from, q[1].strict))]
    <3> PICK l : l = ListFilesWithPrefix(q[1].from, q[1].strict)
      OBVIOUS
    <3> PICK r : r = WithStages(p, q, l)
      OBVIOUS
    <3>1. q[1] \in Stages /\ StageIsUp(q[1])
      BY <2>1, <2>3
    <3>2. l \in SUBSET Blobs /\ \A b \in l : Rank(b) < Rank(q[1].to) /\ (algorithm # 3 => Rank(b) = 1)
      BY <3>1, ListedAreUp DEF CorpusKeptInv
    <3>3. r \in HostRecords /\ r.pc = "stage" /\ r.stages = q /\ r.left = l /\ r.level = p.level
      BY <1>1, <3>2, WithStagesIsOk, ZenonT(40)
    <3>4. HostInv(r)
      <4>1. LevelOk(r)
        BY <1>1, <3>3, HostFacts, Zenon DEF LevelOk
      <4>2. StagesAreUp(r)
        BY <2>1, <2>3, <3>2, <3>3, Zenon DEF StagesAreUp
      <4> QED
        BY <4>1, <4>2, Zenon DEF HostInv
    <3> QED
      BY <2>3, <3>3, <3>4, Zenon
  <2> QED
    BY <2>1, <2>2, <2>3, Zenon
<1>6. \A n \in uploaded' \ uploaded : KeptAbove(n, 0)'
  BY <1>2
<1> QED
  BY <1>1, <1>2, <1>3, <1>4, <1>5, <1>6, KeptStep, Zenon

(* One blob of the list: a duplicate that is deleted has another name      *)
(* further on.                                                             *)
LEMMA ClassifyKept ==
  ASSUME CorpusKeptInv, NEW h \in Hosts, ClassifyBlob(h)
  PROVE  CorpusKeptInv'
<1> DEFINE p == host[h]
<1>1. p \in HostRecords /\ HostInv(p) /\ p.pc = "stage" /\ move[h] = NoMove /\ algorithm # 0
  BY DeployedFacts DEF CorpusKeptInv, CorpusTypes, StagesInv, ClassifyBlob
<1>2. /\ returned' = returned /\ algorithm' = algorithm /\ uploaded' = uploaded /\ returned \subseteq returned'
      /\ deaths' \in Nat /\ fuzzruns' \in Nat /\ uploaded' \in SUBSET Strings
      /\ \A n \in uploaded' \ uploaded : KeptAbove(n, 0)'
  BY DEF ClassifyBlob, CorpusKeptInv, CorpusTypes
<1>3. PICK b \in p.left :
          /\ Set(h, [p EXCEPT !.left = p.left \ {b}])
          /\ IF algorithm # 3 /\ _CorpusIsDuplicate(b)
             THEN bucket' = bucket \ {b} /\ move' = move
             ELSE MoveFile(h, b, Path(Head(p.stages).to, b[3])) /\ bucket' = bucket
  BY Zenon DEF ClassifyBlob
<1> PICK r : r = WithLeft(p, p.left \ {b})
  OBVIOUS
<1>4. p.left \in SUBSET Blobs /\ p.left \ {b} \in SUBSET Blobs /\ p.stages \in Seq(Stages) /\ b \in Blobs
  BY <1>1 DEF HostRecords
<1>5. host' = [host EXCEPT ![h] = r] /\ r \in HostRecords
  BY <1>1, <1>3, <1>4, WithLeftIsOk, Zenon DEF WithLeft, Set
<1>6. /\ p.stages # <<>> /\ \A i \in 1..Len(p.stages) : StageIsUp(p.stages[i])
      /\ \A c \in p.left : Rank(c) < Rank(p.stages[1].to) /\ (algorithm # 3 => Rank(c) = 1)
  BY <1>1, Zenon DEF HostInv, StagesAreUp
<1>7. HostInv(r)
  <2>1. r.stages = p.stages /\ r.left = p.left \ {b} /\ r.level = p.level
    BY <1>1, <1>4, WithLeftIsOk, Zenon
  <2>2. \A c \in r.left : c \in p.left
    BY <2>1
  <2> QED
    BY <1>1, <1>6, <2>1, <2>2, HostFacts, Zenon DEF HostInv, StagesAreUp, LevelOk
<1>8. CASE algorithm # 3 /\ _CorpusIsDuplicate(b)
  <2>1. bucket' = bucket \ {b} /\ move' = move
    BY <1>3, <1>8, Zenon
  <2>2. KeptAbove(b[3], Rank(b))
    <3>1. Rank(b) = 1
      BY <1>6, <1>8
    <3>2. PICK d \in CORPUS_STATES : Path(d, b[3]) \in bucket
      BY <1>8, Zenon DEF _CorpusIsDuplicate
    <3>3. Path(d, b[3])[3] = b[3] /\ Rank(Path(d, b[3])) > 1
      BY PathFacts, RankFacts
    <3> QED
      BY <3>1, <3>2, <3>3, Zenon DEF KeptAbove
  <2>3. KeepsAll
    BY <2>1, <2>2, KeptWhenCopied, SMTT(40)
  <2>4. bucket' \in SUBSET Blobs
    BY <2>1 DEF CorpusKeptInv, CorpusTypes
  <2>5. PICK m \in Moves : move' = [move EXCEPT ![h] = m] /\ (m = NoMove \/ MoveIsUp(m)')
    BY <1>2, <2>1, <2>3, MoveUnchanged
  <2> QED
    BY <1>1, <1>2, <1>5, <1>7, <2>3, <2>4, <2>5, KeptStep, Zenon
<1>9. CASE ~(algorithm # 3 /\ _CorpusIsDuplicate(b))
  <2> PICK t : t = p.stages[1].to
    OBVIOUS
  <2>1. p.stages[1] \in Stages /\ Head(p.stages) = p.stages[1]
    BY <1>4, <1>6
  <2>2. t \in Kinds \X Nat
    BY <2>1, SMTT(40) DEF Stages
  <2> PICK m : m = [src |-> b, dst |-> Path(t, b[3]), copied |-> FALSE]
    OBVIOUS
  <2>3. bucket' = bucket /\ move' = [move EXCEPT ![h] = m]
    BY <1>3, <1>9, <2>1, Zenon DEF MoveFile
  <2>4. m \in Moves
    BY <1>4, <2>2, PathFacts, SMTT(40) DEF Moves
  <2>5. MoveIsUp(m)'
    <3>1. Rank(b) < Rank(t)
      BY <1>6, SMTT(40)
    <3>2. m.dst[3] = m.src[3] /\ ~m.copied /\ Rank(m.dst) > Rank(m.src)
      BY <3>1, PathFacts, RankFacts, SMTT(40)
    <3> QED
      BY <3>2, Zenon DEF MoveIsUp
  <2>6. KeepsAll /\ bucket' \in SUBSET Blobs
    BY <2>3, KeptWhenStillThere DEF CorpusKeptInv, CorpusTypes
  <2> QED
    BY <1>1, <1>2, <1>5, <1>7, <2>3, <2>4, <2>5, <2>6, KeptStep, Zenon
<1> QED
  BY <1>8, <1>9

LEMMA KeptInit ==
  CorpusInit => CorpusKeptInv
<1> SUFFICES ASSUME CorpusInit PROVE CorpusKeptInv
  OBVIOUS
<1>1. /\ bucket = {} /\ uploaded = {} /\ algorithm = 0 /\ \A h \in Hosts : host[h] = IdleHost /\ move[h] = NoMove
  BY DEF CorpusInit
<1>2. CorpusTypes
  BY PathFacts, HostFacts DEF CorpusInit, CorpusTypes
<1> QED
  BY <1>1, <1>2, HostFacts DEF CorpusKeptInv, KeptInv, MovesInv, StagesInv, UndeployedInv

(* Every step keeps the invariant.                                         *)
LEMMA KeptNext ==
  CorpusKeptInv /\ [CorpusNext]_corpusVars => CorpusKeptInv'
<1> SUFFICES ASSUME CorpusKeptInv, [CorpusNext]_corpusVars PROVE CorpusKeptInv'
  OBVIOUS
<1>1. CASE UNCHANGED corpusVars
  BY <1>1, ZenonT(40) DEF corpusVars, CorpusKeptInv, CorpusTypes, KeptInv, KeptAbove, MovesInv, MoveIsUp, StagesInv, HostInv,
     LevelOk, StagesAreUp, StageIsUp, UndeployedInv
<1> QED
  BY <1>1, DeployKept, FetchKept, AddLockKept, ListSeedsKept, DownloadKept, RenameKept, RunFuzzerKept, UploadKept,
     ListStageKept, ClassifyKept, RemoveLockKept, HostDiesKept, Zenon DEF CorpusNext

(* For any hosts, strings and bounds, and however the hosts' listings and  *)
(* half-done renames interleave with one another and with their deaths, no *)
(* string that UploadCorpusOutDir put into the bucket is lost, unless      *)
(* InuseToDest gave it back to corpus_seed.                                *)
THEOREM CorpusIsAlwaysKept == CorpusSpec => []CorpusIsKept
<1>1. CorpusKeptInv => CorpusIsKept
  BY Zenon DEF CorpusKeptInv, KeptInv, KeptAbove, CorpusIsKept
<1> QED
  BY <1>1, KeptInit, KeptNext, PTL DEF CorpusSpec
-----------------------------------------------------------------------------
(* A generation has a seed in the bucket.                                  *)
LEMMA GenerationIsThere ==
  \A i : PrefixExists(<<"corpus_seed", i>>) <=> HasGeneration(i)
BY DEF PrefixExists, ListFilesWithPrefix, HasGeneration, Dir

(* The step leaves the generations as they are.                            *)
SameGenerations == \A i \in Nat \ {0} : HasGeneration(i)' <=> HasGeneration(i)

LEMMA GaplessKept ==
  ASSUME SameGenerations, Gapless
  PROVE  Gapless'
<1> SUFFICES ASSUME NEW i \in Nat \ {0}, HasGeneration(i)'
             PROVE  i < RepeatTimes - 1 /\ \A j \in 1..i : HasGeneration(j)'
  BY Zenon DEF Gapless
<1>1. i < RepeatTimes - 1 /\ \A j \in 1..i : HasGeneration(j)
  BY Zenon DEF SameGenerations, Gapless
<1>2. \A j \in 1..i : j \in Nat \ {0}
  OBVIOUS
<1> QED
  BY <1>1, <1>2, Zenon DEF SameGenerations

LEMMA SameSeedsSameGenerations ==
  ASSUME \A b : b[1] = "corpus_seed" /\ b[2] # 0 => (b \in bucket' <=> b \in bucket)
  PROVE  SameGenerations
<1> SUFFICES ASSUME NEW i \in Nat \ {0}
             PROVE  HasGeneration(i)' <=> HasGeneration(i)
  BY Zenon DEF SameGenerations
<1>1. i # 0
  OBVIOUS
<1> QED
  BY <1>1, Zenon DEF HasGeneration

(* A stage stays one of the four when the step leaves the generations      *)
(* alone.                                                                  *)
LEMMA StageOkKept ==
  ASSUME bucket' = bucket, NEW p, NEW m, StageOk(p, m)
  PROVE  StageOk(p, m)'
<1>1. \A i : HasGeneration(i)' <=> HasGeneration(i)
  BY Zenon DEF HasGeneration
<1>2. Gapless' <=> Gapless
  BY <1>1, Zenon DEF Gapless
<1>3. NewGeneration(p, m) => NewGeneration(p, m)'
  BY <1>1, Zenon DEF NewGeneration
<1>4. NewSeeds(p, m) => NewSeeds(p, m)'
  BY <1>2, Zenon DEF NewSeeds
<1>5. (EndOfSession(p, m) => EndOfSession(p, m)') /\ (AfterSession(p, m) => AfterSession(p, m)')
  BY Zenon DEF EndOfSession, AfterSession
<1> QED
  BY <1>3, <1>4, <1>5, Zenon DEF StageOk

(* A step of a host that is alone in a session. *)
LEMMA AloneStep ==
  ASSUME CorpusTypes, InOrder, NEW h \in Hosts, NEW r, NEW m,
         host' = [host EXCEPT ![h] = r], move' = [move EXCEPT ![h] = m],
         \A g \in Hosts : g # h => host[g].pc \notin InSession,
         r.pc \in OrderPcs, r.seed = "none", m # NoMove => r.pc = "stage",
         \A b \in bucket' : b[1] # "corpus_inuse",
         r.pc = "stage" => StageOk(r, m)', r.pc # "stage" => Gapless'
  PROVE  InOrder'
<1>1. /\ \A g \in Hosts : g # h => host'[g] = host[g] /\ move'[g] = move[g]
      /\ host'[h] = r /\ move'[h] = m
  BY Zenon DEF CorpusTypes
<1>2. "stage" \in InSession
  BY DEF InSession
<1>3. \A g \in Hosts : host'[g].pc \in OrderPcs /\ host'[g].seed = "none"
  BY <1>1, ZenonT(40) DEF InOrder
<1>4. \A g, k \in Hosts : host'[g].pc \in InSession /\ host'[k].pc \in InSession => g = k
  BY <1>1, ZenonT(40)
<1>5. \A g \in Hosts : move'[g] # NoMove => host'[g].pc = "stage"
  <2>1. \A g \in Hosts : move[g] # NoMove => host[g].pc = "stage"
    BY Zenon DEF InOrder
  <2> QED
    BY <1>1, <2>1
<1>6. (\A g \in Hosts : host'[g].pc # "stage") => Gapless'
  BY <1>1, Zenon
<1>7. ASSUME NEW g \in Hosts, host'[g].pc = "stage"
      PROVE  StageOk(host[g], move[g])'
  <2>1. g = h
    BY <1>1, <1>2, <1>7, Zenon
  <2>2. host'[g] = r /\ move'[g] = m /\ StageOk(r, m)'
    BY <1>1, <1>7, <2>1, Zenon
  <2> QED
    BY <2>2, Zenon DEF StageOk, NewGeneration, NewSeeds, EndOfSession, AfterSession
<1> QED
  BY <1>3, <1>4, <1>5, <1>6, <1>7, Zenon DEF InOrder

LEMMA FetchInOrder ==
  ASSUME CorpusKeptInv, InOrder, algorithm = 3, NEW h \in Hosts, FetchCorpusSeed(h)
  PROVE  InOrder'
<1> PICK r : r = [IdleHost EXCEPT !.run = fuzzruns + 1, !.pc = IF algorithm = 3 THEN "lock" ELSE "list"]
  OBVIOUS
<1>1. r.pc = "lock" /\ r.seed = "none"
  BY DEF IdleHost
<1>2. /\ \A g \in Hosts : g # h => host'[g] = host[g]
      /\ host'[h] = r /\ host[h].pc = "idle" /\ bucket' = bucket /\ move' = move
  BY Zenon DEF FetchCorpusSeed, Set, CorpusKeptInv, CorpusTypes
<1>3. "lock" \in OrderPcs /\ "lock" \notin InSession /\ "lock" # "stage" /\ "idle" # "stage"
  BY DEF OrderPcs, InSession
<1>0. /\ \A g \in Hosts : host[g].pc \in OrderPcs /\ host[g].seed = "none"
      /\ \A g, k \in Hosts : host[g].pc \in InSession /\ host[k].pc \in InSession => g = k
  BY Zenon DEF InOrder
<1>4. \A g \in Hosts : host'[g].pc \in OrderPcs /\ host'[g].seed = "none"
  <2> SUFFICES ASSUME NEW g \in Hosts PROVE host'[g].pc \in OrderPcs /\ host'[g].seed = "none"
    BY Zenon
  <2>1. CASE g = h
    BY <1>1, <1>2, <1>3, <2>1
  <2>2. CASE g # h
    BY <1>0, <1>2, <2>2
  <2> QED
    BY <2>1, <2>2
<1>5. \A g, k \in Hosts : host'[g].pc \in InSession /\ host'[k].pc \in InSession => g = k
  <2>1. \A g \in Hosts : host'[g].pc \in InSession => host[g].pc \in InSession
    <3> SUFFICES ASSUME NEW g \in Hosts, host'[g].pc \in InSession PROVE host[g].pc \in InSession
      BY Zenon
    <3>1. g # h
      BY <1>1, <1>2, <1>3, Zenon
    <3> QED
      BY <1>2, <3>1, Zenon
  <2> QED
    BY <1>0, <2>1, Zenon
<1>6. \A g \in Hosts : move'[g] # NoMove => host'[g].pc = "stage"
  BY <1>1, <1>2, <1>3, Zenon DEF InOrder
<1>7. \A g \in Hosts : host'[g].pc = "stage" => g # h /\ host[g].pc = "stage" /\ host'[g] = host[g]
  BY <1>1, <1>2, <1>3, Zenon
<1>8. (\A g \in Hosts : host'[g].pc # "stage") => Gapless'
  <2>1. Gapless => Gapless'
    BY <1>2, Zenon DEF Gapless, HasGeneration
  <2> QED
    BY <1>2, <1>3, <2>1, Zenon DEF InOrder
<1>9. ASSUME NEW g \in Hosts, host'[g].pc = "stage"
      PROVE  StageOk(host[g], move[g])'
  <2>1. StageOk(host[g], move[g]) /\ host'[g] = host[g] /\ move'[g] = move[g]
    BY <1>2, <1>7, <1>9, Zenon DEF InOrder
  <2> QED
    BY <1>2, <2>1, StageOkKept, Zenon
<1> QED
  BY <1>2, <1>4, <1>5, <1>6, <1>8, <1>9, Zenon DEF InOrder

(* A host that is in its session is alone there. *)
LEMMA AloneInSession ==
  ASSUME InOrder, NEW h \in Hosts, host[h].pc \in InSession
  PROVE  /\ \A g \in Hosts : g # h => host[g].pc \notin InSession
         /\ host[h].pc # "stage" => Gapless /\ move[h] = NoMove
<1>1. "stage" \in InSession
  BY DEF InSession
<1> QED
  BY <1>1, Zenon DEF InOrder

LEMMA AddLockInOrder ==
  ASSUME CorpusKeptInv, InOrder, NEW h \in Hosts, add_lock(h), ~overlapped'
  PROVE  InOrder'
<1> PICK r : r = [host[h] EXCEPT !.pc = "locked"]
  OBVIOUS
<1> PICK m : m = move[h]
  OBVIOUS
<1>1. /\ host' = [host EXCEPT ![h] = r] /\ host[h] \in HostRecords /\ host[h].pc = "lock"
      /\ move' = [move EXCEPT ![h] = m] /\ bucket' = bucket \cup {Path(Lock, h)}
  BY DEF add_lock, Set, CorpusKeptInv, CorpusTypes
<1>2. r.pc = "locked" /\ r.seed = host[h].seed /\ r.seed = "none" /\ m = NoMove
  BY <1>1 DEF HostRecords, InOrder
<1>3. \A g \in Hosts : g # h => host[g].pc \notin InSession
  BY DEF add_lock
<1>4. "locked" \in OrderPcs /\ "stage" \in InSession /\ "lock" # "stage" /\ "locked" # "stage"
  BY DEF OrderPcs, InSession
<1>5. Gapless
  BY <1>1, <1>3, <1>4, Zenon DEF InOrder
<1>6. Path(Lock, h)[1] = "corpus_lock"
  BY DEF Path, Lock
<1>7. Gapless'
  BY <1>1, <1>5, <1>6, GaplessKept, SameSeedsSameGenerations, SMTT(40)
<1>8. \A b \in bucket' : b[1] # "corpus_inuse"
  BY <1>1, <1>6 DEF InOrder
<1> QED
  BY <1>1, <1>2, <1>3, <1>4, <1>7, <1>8, AloneStep, Zenon DEF CorpusKeptInv

LEMMA RunFuzzerInOrder ==
  ASSUME CorpusKeptInv, InOrder, NEW h \in Hosts, RunFuzzer(h)
  PROVE  InOrder'
<1>1. PICK k \in BOOLEAN : Set(h, [host[h] EXCEPT !.pc = "upload", !.crash = k])
  BY Zenon DEF RunFuzzer
<1> PICK r : r = [host[h] EXCEPT !.pc = "upload", !.crash = k]
  OBVIOUS
<1> PICK m : m = move[h]
  OBVIOUS
<1>2. host' = [host EXCEPT ![h] = r] /\ host[h] \in HostRecords /\ host[h].pc = "locked" /\ bucket' = bucket
  BY <1>1 DEF RunFuzzer, Set, CorpusKeptInv, CorpusTypes
<1>3. r.pc = "upload" /\ r.seed = host[h].seed /\ r.seed = "none"
  BY <1>2 DEF HostRecords, InOrder
<1>4. move' = [move EXCEPT ![h] = m]
  <2>1. <<"corpus_inuse", 0, host[h].seed>> \notin bucket
    BY DEF InOrder
  <2>2. move' = move
    BY <2>1, Zenon DEF RunFuzzer
  <2> QED
    BY <2>2 DEF CorpusKeptInv, CorpusTypes
<1>5. /\ "locked" \in InSession /\ "upload" \in OrderPcs /\ "locked" # "stage" /\ "upload" # "stage"
  BY DEF OrderPcs, InSession
<1>6. Gapless /\ m = NoMove /\ \A g \in Hosts : g # h => host[g].pc \notin InSession
  BY <1>2, <1>5, AloneInSession, Zenon
<1>7. Gapless'
  BY <1>2, <1>6, Zenon DEF Gapless, HasGeneration
<1>8. \A b \in bucket' : b[1] # "corpus_inuse"
  BY <1>2, Zenon DEF InOrder
<1> QED
  BY <1>2, <1>3, <1>4, <1>5, <1>6, <1>7, <1>8, AloneStep, Zenon DEF CorpusKeptInv

LEMMA UploadInOrder ==
  ASSUME CorpusKeptInv, InOrder, NEW h \in Hosts, UploadCorpusOutDir(h)
  PROVE  InOrder'
<1> PICK m : m = move[h]
  OBVIOUS
<1>1. host[h] \in HostRecords /\ host[h].pc = "upload" /\ move' = [move EXCEPT ![h] = m]
  BY DEF UploadCorpusOutDir, CorpusKeptInv, CorpusTypes
<1>2. "upload" \in InSession /\ "upload" # "stage"
  BY DEF InSession
<1>3. Gapless /\ m = NoMove /\ \A g \in Hosts : g # h => host[g].pc \notin InSession
  BY <1>1, <1>2, AloneInSession, Zenon
<1>4. \A b \in bucket' : b \in bucket \/ b[1] = "incoming"
  BY DEF UploadCorpusOutDir, Path
<1>5. bucket \subseteq bucket'
  BY DEF UploadCorpusOutDir
<1>6. Gapless'
  BY <1>3, <1>4, <1>5, GaplessKept, SameSeedsSameGenerations, SMTT(40)
<1>7. \A b \in bucket' : b[1] # "corpus_inuse"
  BY <1>4 DEF InOrder
<1>8. PICK r : host' = [host EXCEPT ![h] = r] /\ (r = IdleHost \/ r = [host[h] EXCEPT !.pc = "classify"])
  BY Zenon DEF UploadCorpusOutDir, Set
<1>9. r.pc \in {"idle", "classify"} /\ r.seed = "none"
  BY <1>1, <1>8 DEF InOrder, IdleHost, HostRecords
<1>10. r.pc \in OrderPcs /\ r.pc # "stage"
  BY <1>9 DEF OrderPcs, InSession
<1> QED
  BY <1>1, <1>3, <1>6, <1>7, <1>8, <1>9, <1>10, AloneStep, Zenon DEF CorpusKeptInv

LEMMA RemoveLockInOrder ==
  ASSUME CorpusKeptInv, InOrder, NEW h \in Hosts, remove_lock(h)
  PROVE  InOrder'
<1> PICK m : m = move[h]
  OBVIOUS
<1>1. /\ host[h].pc = "unlock" /\ move' = [move EXCEPT ![h] = m] /\ host' = [host EXCEPT ![h] = IdleHost]
  BY DEF remove_lock, Set, CorpusKeptInv, CorpusTypes
<1>2. "unlock" \in InSession /\ "unlock" # "stage"
  BY DEF InSession
<1>3. Gapless /\ m = NoMove /\ \A g \in Hosts : g # h => host[g].pc \notin InSession
  BY <1>1, <1>2, AloneInSession, ZenonT(40)
<1>4. \A b \in bucket' : b \in bucket \/ b[1] = "corpus_trigger"
  BY DEF remove_lock
<1>5. \A b \in bucket : b \in bucket' \/ b[1] = "corpus_lock"
  BY DEF remove_lock, Path, Lock
<1>6. Gapless'
  BY <1>3, <1>4, <1>5, GaplessKept, SameSeedsSameGenerations, SMTT(40)
<1>7. \A b \in bucket' : b[1] # "corpus_inuse"
  BY <1>4 DEF InOrder
<1>8. IdleHost.pc \in OrderPcs /\ IdleHost.pc # "stage" /\ IdleHost.seed = "none"
  BY DEF OrderPcs, IdleHost
<1> QED
  BY <1>1, <1>3, <1>6, <1>7, <1>8, AloneStep, Zenon DEF CorpusKeptInv

(* A rename of the session's host: in each of the four stages the          *)
(* generations fill up or empty in order.                                  *)
LEMMA RenameInOrder ==
  ASSUME CorpusKeptInv, InOrder, NEW h \in Hosts, rename_blob(h)
  PROVE  InOrder'
<1> PICK p, o : p = host[h] /\ o = move[h]
  OBVIOUS
<1>1. p \in HostRecords /\ o \in Moves /\ o # NoMove /\ p.pc = "stage" /\ p.seed = "none" /\ StageOk(p, o)
  <2>1. p \in HostRecords /\ o \in Moves /\ o # NoMove
    BY DEF CorpusKeptInv, CorpusTypes, rename_blob
  <2> QED
    BY <2>1, Zenon DEF InOrder
<1>2. /\ "stage" \in InSession /\ "stage" \in OrderPcs /\ "stage" # "moveseed"
  BY DEF InSession, OrderPcs
<1>3. \A g \in Hosts : g # h => host[g].pc \notin InSession
  BY <1>1, <1>2, AloneInSession, Zenon
<1>4. host' = [host EXCEPT ![h] = p]
  BY <1>1, <1>2 DEF rename_blob, Moved, Set, CorpusKeptInv, CorpusTypes
<1> DEFINE Copies(m) == bucket' = bucket \cup {o.dst} /\ m # NoMove /\ m.src = o.src /\ m.dst = o.dst
           Ends(m) == /\ m = NoMove
                      /\ bucket' \subseteq bucket /\ o.src \notin bucket'
                      /\ \A b \in bucket : b \in bucket' \/ b = o.src
<1>5. PICK m : move' = [move EXCEPT ![h] = m] /\ (Copies(m) \/ Ends(m))
  <2>1. CASE o.src \in bucket /\ ~o.copied
    <3> PICK m : m = [o EXCEPT !.copied = TRUE]
      OBVIOUS
    <3>1. bucket' = bucket \cup {o.dst} /\ move' = [move EXCEPT ![h].copied = TRUE]
      BY <2>1, Zenon DEF rename_blob
    <3>2. m.src = o.src /\ m.dst = o.dst /\ m.copied /\ move' = [move EXCEPT ![h] = m]
      BY <1>1, <3>1 DEF Moves, CorpusKeptInv, CorpusTypes
    <3>3. m # NoMove
      BY <3>2 DEF NoMove
    <3> QED
      BY <3>1, <3>2, <3>3, Zenon
  <2>2. CASE ~(o.src \in bucket /\ ~o.copied)
    BY <2>2 DEF rename_blob
  <2> QED
    BY <2>1, <2>2, Zenon
<1>6. Copies(m) => Dir(o.dst)[1] # "corpus_inuse"
  <2>1. Dir(o.dst) \in {Seed, Complete} \/ \E g : Dir(o.dst) = <<"corpus_seed", g>>
    BY <1>1, Zenon DEF StageOk, NewGeneration, NewSeeds, EndOfSession, AfterSession
  <2> QED
    BY <2>1 DEF Seed, Complete
<1>7. \A b \in bucket' : b[1] # "corpus_inuse"
  <2>1. \A b \in bucket : b[1] # "corpus_inuse"
    BY Zenon DEF InOrder
  <2> QED
    BY <1>5, <1>6, <2>1 DEF Dir
<1>8. StageOk(p, m)'
  <2>1. CASE NewGeneration(p, o)
    <3>1. PICK g \in 1..(RepeatTimes - 2) :
            /\ Len(p.stages) = 2 /\ p.stages[1].to = <<"corpus_seed", g>>
            /\ p.stages[2] = Stage(<<"incoming", p.run>>, Seed, TRUE)
            /\ \A i \in 1..(g - 1) : HasGeneration(i)
            /\ \A i \in Nat : i > g => ~HasGeneration(i)
            /\ \A b \in p.left : Dir(b) = Seed
            /\ Dir(o.src) = Seed /\ Dir(o.dst) = <<"corpus_seed", g>>
      BY <1>1, <2>1, Zenon DEF NewGeneration
    <3>2. g \in Nat \ {0} /\ o.dst[2] = g /\ o.src[2] = 0
      BY <3>1, CorpusBounds, SMTT(40) DEF Dir, Seed
    <3>3. \A i \in Nat \ {0} : HasGeneration(i) => HasGeneration(i)'
      BY <1>5, <3>2, SMTT(40) DEF HasGeneration
    <3>4. \A i \in Nat \ {0} : HasGeneration(i)' /\ i # g => HasGeneration(i)
      BY <1>5, <3>2 DEF HasGeneration
    <3>5. (\A i \in 1..(g - 1) : HasGeneration(i)') /\ (\A i \in Nat : i > g => ~HasGeneration(i)')
      <4>1. \A i \in 1..(g - 1) : i \in Nat \ {0}
        BY <3>2
      <4>2. \A i \in Nat : i > g => i \in Nat \ {0} /\ i # g
        BY <3>2
      <4> QED
        BY <3>1, <3>3, <3>4, <4>1, <4>2, Zenon
    <3>6. m # NoMove => Dir(m.src) = Seed /\ Dir(m.dst) = <<"corpus_seed", g>>
      BY <1>5, <3>1, Zenon
    <3>7. NewGeneration(p, m)'
      BY <3>1, <3>5, <3>6, Zenon DEF NewGeneration
    <3> QED
      BY <3>7, Zenon DEF StageOk
  <2>2. CASE NewSeeds(p, o)
    <3>1. o.src[1] = "incoming" /\ Dir(o.dst) = Seed
      BY <1>1, <2>2, Zenon DEF NewSeeds
    <3>2. o.dst[2] = 0
      BY <3>1, SMTT(40) DEF Dir, Seed
    <3>3. \A b : b[1] = "corpus_seed" /\ b[2] # 0 => (b \in bucket' <=> b \in bucket)
      BY <1>5, <3>1, <3>2
    <3>4. Gapless'
      BY <2>2, <3>3, GaplessKept, SameSeedsSameGenerations, Zenon DEF NewSeeds
    <3>5. NewSeeds(p, m)'
      BY <1>5, <2>2, <3>1, <3>4, Zenon DEF NewSeeds
    <3> QED
      BY <3>5, Zenon DEF StageOk
  <2>3. CASE EndOfSession(p, o)
    <3>1. Dir(o.dst) = Complete /\ \A b \in bucket : b[1] = "corpus_seed" => b \in p.left \/ b = o.src
      BY <1>1, <2>3, Zenon DEF EndOfSession
    <3>2. o.dst[1] = "corpus_complete"
      BY <3>1 DEF Dir, Complete
    <3>3. \A b \in bucket' : b[1] = "corpus_seed" => b \in p.left \/ b = m.src
      BY <1>5, <3>1, <3>2
    <3>4. EndOfSession(p, m)'
      BY <1>5, <2>3, <3>1, <3>3, Zenon DEF EndOfSession
    <3> QED
      BY <3>4, Zenon DEF StageOk
  <2>4. CASE AfterSession(p, o)
    <3>1. Dir(o.dst) = Complete /\ o.src[1] = "incoming" /\ \A b \in bucket : b[1] # "corpus_seed"
      BY <1>1, <2>4, Zenon DEF AfterSession
    <3>2. o.dst[1] = "corpus_complete"
      BY <3>1, SMTT(40) DEF Dir, Complete
    <3>3. \A b \in bucket' : b[1] # "corpus_seed"
      BY <1>5, <3>1, <3>2
    <3>4. AfterSession(p, m)'
      BY <1>5, <2>4, <3>1, <3>3, Zenon DEF AfterSession
    <3> QED
      BY <3>4, Zenon DEF StageOk
  <2> QED
    BY <1>1, <2>1, <2>2, <2>3, <2>4, Zenon DEF StageOk
<1> QED
  BY <1>1, <1>2, <1>3, <1>4, <1>5, <1>7, <1>8, AloneStep, Zenon DEF CorpusKeptInv

(* The host of the session takes one blob of its list.                     *)
LEMMA ClassifyInOrder ==
  ASSUME CorpusKeptInv, InOrder, algorithm = 3, NEW h \in Hosts, ClassifyBlob(h)
  PROVE  InOrder'
<1> PICK p : p = host[h]
  OBVIOUS
<1>1. /\ p \in HostRecords /\ p.pc = "stage" /\ p.seed = "none" /\ move[h] = NoMove /\ StageOk(p, NoMove) /\ HostInv(p)
  <2>1. p \in HostRecords /\ p.pc = "stage" /\ move[h] = NoMove /\ HostInv(p)
    BY DEF CorpusKeptInv, CorpusTypes, StagesInv, ClassifyBlob
  <2> QED
    BY <2>1, Zenon DEF InOrder
<1>2. /\ "stage" \in InSession /\ "stage" \in OrderPcs
  BY DEF InSession, OrderPcs
<1>3. \A g \in Hosts : g # h => host[g].pc \notin InSession
  BY <1>1, <1>2, AloneInSession, Zenon
<1>4. PICK b \in p.left :
          /\ Set(h, [p EXCEPT !.left = p.left \ {b}])
          /\ MoveFile(h, b, Path(Head(p.stages).to, b[3])) /\ bucket' = bucket
  BY Zenon DEF ClassifyBlob
<1>5. /\ p.left \in SUBSET Blobs /\ p.left \ {b} \in SUBSET Blobs /\ p.stages \in Seq(Stages) /\ p.stages # <<>>
  BY <1>1 DEF HostRecords, HostInv, StagesAreUp
<1> PICK t : t = p.stages[1].to
  OBVIOUS
<1>6. Head(p.stages).to = t /\ t \in Kinds \X Nat
  <2>1. Head(p.stages) = p.stages[1] /\ p.stages[1] \in Stages
    BY <1>5, SeqFacts, Zenon
  <2> QED
    BY <2>1 DEF Stages
<1> PICK r, m : r = WithLeft(p, p.left \ {b}) /\ m = [src |-> b, dst |-> Path(t, b[3]), copied |-> FALSE]
  OBVIOUS
<1>7. host' = [host EXCEPT ![h] = r] /\ move' = [move EXCEPT ![h] = m]
  BY <1>4, <1>6, Zenon DEF Set, MoveFile, WithLeft
<1>8. r.pc = "stage" /\ r.seed = "none" /\ r.stages = p.stages /\ r.left = p.left \ {b} /\ r.run = p.run
  BY <1>1, <1>5, WithLeftIsOk, Zenon
<1>9. m.src = b /\ Dir(m.dst) = t /\ \A c \in r.left : c \in p.left
  <2>1. \A x : Dir(Path(t, x)) = t
    BY <1>6 DEF Dir, Path
  <2>2. m.src = b /\ m.dst = Path(t, b[3])
    BY Zenon
  <2>3. \A c \in r.left : c \in p.left
    BY <1>8, Zenon
  <2> QED
    BY <2>1, <2>2, <2>3, Zenon
<1>10. StageOk(r, m)
  <2>1. CASE NewGeneration(p, NoMove)
    <3>1. NewGeneration(r, m)
      BY <1>4, <1>8, <1>9, <2>1, Zenon DEF NewGeneration
    <3> QED
      BY <3>1, Zenon DEF StageOk
  <2>2. CASE NewSeeds(p, NoMove)
    <3>1. NewSeeds(r, m)
      BY <1>4, <1>8, <1>9, <2>2, Zenon DEF NewSeeds
    <3> QED
      BY <3>1, Zenon DEF StageOk
  <2>3. CASE EndOfSession(p, NoMove)
    <3>1. \A c \in bucket : c[1] = "corpus_seed" => c # NoMove.src
      BY SMTT(40) DEF NoMove, NoBlob
    <3>2. \A c \in bucket : c[1] = "corpus_seed" => c \in r.left \/ c = m.src
      BY <1>8, <1>9, <2>3, <3>1 DEF EndOfSession
    <3>3. EndOfSession(r, m)
      BY <1>8, <1>9, <2>3, <3>2, Zenon DEF EndOfSession
    <3> QED
      BY <3>3, Zenon DEF StageOk
  <2>4. CASE AfterSession(p, NoMove)
    <3>1. AfterSession(r, m)
      BY <1>4, <1>8, <1>9, <2>4, Zenon DEF AfterSession
    <3> QED
      BY <3>1, Zenon DEF StageOk
  <2> QED
    BY <1>1, <2>1, <2>2, <2>3, <2>4, Zenon DEF StageOk
<1>11. StageOk(r, m)'
  BY <1>4, <1>10, StageOkKept
<1>12. \A c \in bucket' : c[1] # "corpus_inuse"
  BY <1>4, Zenon DEF InOrder
<1> QED
  BY <1>2, <1>3, <1>7, <1>8, <1>11, <1>12, AloneStep, Zenon DEF CorpusKeptInv

(* It lists a stage: the end of one is the begin of the next.              *)
LEMMA ListStageInOrder ==
  ASSUME CorpusKeptInv, InOrder, algorithm = 3, NEW h \in Hosts, ListStage(h)
  PROVE  InOrder'
<1> PICK p : p = host[h]
  OBVIOUS
<1>1. p \in HostRecords /\ (p.pc = "classify" \/ p.pc = "stage") /\ p.seed = "none" /\ move[h] = NoMove /\ HostInv(p)
  <2>1. p \in HostRecords /\ (p.pc = "classify" \/ (p.pc = "stage" /\ move[h] = NoMove)) /\ HostInv(p)
    BY DEF CorpusKeptInv, CorpusTypes, StagesInv, ListStage
  <2>2. "classify" # "stage"
    OBVIOUS
  <2> QED
    BY <2>1, <2>2, Zenon DEF InOrder
<1>2. /\ "stage" \in InSession /\ "stage" \in OrderPcs /\ "classify" \in InSession /\ "unlock" \in OrderPcs
      /\ "classify" # "stage" /\ "unlock" # "stage"
  BY DEF InSession, OrderPcs
<1>3. /\ \A g \in Hosts : g # h => host[g].pc \notin InSession
      /\ p.pc = "classify" => Gapless
  BY <1>1, <1>2, AloneInSession, Zenon
<1>4. /\ bucket' = bucket /\ move' = [move EXCEPT ![h] = NoMove]
      /\ \A c \in bucket' : c[1] # "corpus_inuse"
  BY <1>1 DEF ListStage, CorpusKeptInv, CorpusTypes, InOrder
<1>5. PICK q \in Seq(Stages) :
        /\ \/ p.pc = "classify" /\ q = _ClassifyPriority(p)
           \/ p.pc = "stage" /\ p.left = {} /\ q = Tail(p.stages)
        /\ \/ q = <<>> /\ host' = [host EXCEPT ![h] = [p EXCEPT !.pc = "unlock"]]
           \/ /\ q # <<>>
              /\ host' = [host EXCEPT ![h] = WithStages(p, q, ListFilesWithPrefix(q[1].from, q[1].strict))]
  BY ListStageCases, Zenon
<1> PICK l : l = ListFilesWithPrefix(q[1].from, q[1].strict)
  OBVIOUS
<1>6. l \in SUBSET Blobs /\ l \subseteq bucket
  BY DEF ListFilesWithPrefix, CorpusKeptInv, CorpusTypes
<1> PICK r : r = IF q = <<>> THEN [p EXCEPT !.pc = "unlock"] ELSE WithStages(p, q, l)
  OBVIOUS
<1>7. host' = [host EXCEPT ![h] = r]
  BY <1>5, Zenon
<1>8. /\ q = <<>> => r.pc = "unlock" /\ r.seed = "none"
      /\ q # <<>> => r.pc = "stage" /\ r.seed = "none" /\ r.stages = q /\ r.left = l /\ r.run = p.run
  <2>1. CASE q = <<>>
    BY <1>1, <2>1 DEF HostRecords
  <2>2. CASE q # <<>>
    <3>1. r = WithStages(p, q, l)
      BY <2>2, Zenon
    <3> QED
      BY <1>1, <1>6, <2>2, <3>1, WithStagesIsOk
  <2> QED
    BY <2>1, <2>2, Zenon
<1>9. (q = <<>> => Gapless) /\ (q # <<>> => StageOk(r, NoMove))
  <2>1. CASE p.pc = "classify" /\ q = _ClassifyPriority(p)
    <3>1. CASE /\ Generation < RepeatTimes - 1
               /\ q = <<Stage(Seed, <<"corpus_seed", Generation>>, TRUE), Stage(<<"incoming", p.run>>, Seed, TRUE)>>
      <4> PICK g : g = Generation
        OBVIOUS
      <4>1. g \in 1..(RepeatTimes - 2) /\ ~HasGeneration(g) /\ \A j \in 1..(g - 1) : HasGeneration(j)
        BY <3>1, GenerationFacts, GenerationIsThere, Zenon
      <4>2. \A i \in Nat : i > g => ~HasGeneration(i)
        <5> SUFFICES ASSUME NEW i \in Nat, i > g, HasGeneration(i) PROVE FALSE
          BY Zenon
        <5>1. i \in Nat \ {0} /\ g \in 1..i
          BY <4>1, CorpusBounds
        <5> QED
          BY <1>3, <2>1, <4>1, <5>1, Zenon DEF Gapless
      <4>3. /\ q # <<>> /\ Len(q) = 2 /\ q[1].to = <<"corpus_seed", g>> /\ q[1].from = Seed /\ q[1].strict = TRUE
            /\ q[2] = Stage(<<"incoming", p.run>>, Seed, TRUE)
        BY <3>1 DEF Stage
      <4>4. \A b \in l : Dir(b) = Seed
        BY <4>3 DEF ListFilesWithPrefix
      <4>5. NewGeneration(r, NoMove)
        <5>1. /\ Len(r.stages) = 2 /\ r.stages[1].to = <<"corpus_seed", g>>
              /\ r.stages[2] = Stage(<<"incoming", r.run>>, Seed, TRUE) /\ \A b \in r.left : Dir(b) = Seed
          BY <1>8, <4>3, <4>4
        <5> QED
          BY <4>1, <4>2, <5>1, Zenon DEF NewGeneration
      <4> QED
        BY <4>3, <4>5, Zenon DEF StageOk
    <3>2. CASE q = <<Stage(Seed, Complete, FALSE), Stage(<<"incoming", p.run>>, Complete, TRUE)>>
      <4>1. /\ q # <<>> /\ Len(q) = 2 /\ q[1].to = Complete /\ q[1].from = Seed /\ q[1].strict = FALSE
            /\ q[2] = Stage(<<"incoming", p.run>>, Complete, TRUE)
        BY <3>2 DEF Stage
      <4>2. \A b \in bucket : b[1] = "corpus_seed" => b \in l
        BY <4>1 DEF ListFilesWithPrefix
      <4>3. EndOfSession(r, NoMove)
        BY <1>8, <4>1, <4>2, Zenon DEF EndOfSession
      <4> QED
        BY <4>1, <4>3, Zenon DEF StageOk
    <3>3. algorithm \in 1..3
      OBVIOUS
    <3> QED
      BY <2>1, <3>1, <3>2, <3>3, PlanCases, Zenon
  <2>2. CASE p.pc = "stage" /\ p.left = {} /\ q = Tail(p.stages)
    <3> PICK t : t = p.stages
      OBVIOUS
    <3>1. t \in Seq(Stages) /\ t # <<>> /\ StageOk(p, NoMove) /\ q = Tail(t)
      <4>1. t \in Seq(Stages) /\ t # <<>>
        BY <1>1, <2>2 DEF HostRecords, HostInv, StagesAreUp
      <4> QED
        BY <1>1, <2>2, <4>1, Zenon DEF InOrder
    <3>2. /\ Len(t) = 1 => q = <<>>
          /\ Len(t) = 2 => q # <<>> /\ Len(q) = 1 /\ q[1] = t[2]
      BY <3>1, TailFacts, Zenon
    <3>3. NoMove.src[1] = "none"
      BY DEF NoMove, NoBlob
    <3>4. ASSUME NEW to, Len(t) = 2, t[2] = Stage(<<"incoming", p.run>>, to, TRUE)
          PROVE  /\ q # <<>> /\ Len(q) = 1 /\ q[1].to = to
                 /\ \A b \in l : b[1] = "incoming"
      <4>1. q # <<>> /\ Len(q) = 1 /\ q[1].to = to /\ q[1].from = <<"incoming", p.run>> /\ q[1].strict = TRUE
        BY <3>2, <3>4 DEF Stage
      <4> QED
        BY <4>1 DEF ListFilesWithPrefix, Dir
    <3>5. CASE NewGeneration(p, NoMove)
      <4>1. PICK g \in 1..(RepeatTimes - 2) :
              /\ Len(t) = 2 /\ t[2] = Stage(<<"incoming", p.run>>, Seed, TRUE)
              /\ \A i \in 1..(g - 1) : HasGeneration(i)
              /\ \A i \in Nat : i > g => ~HasGeneration(i)
        BY <3>5, Zenon DEF NewGeneration
      <4>2. Gapless
        <5> SUFFICES ASSUME NEW i \in Nat \ {0}, HasGeneration(i)
                     PROVE  i < RepeatTimes - 1 /\ \A j \in 1..i : HasGeneration(j)
          BY Zenon DEF Gapless
        <5>1. i <= g /\ g \in Nat /\ g < RepeatTimes - 1 /\ i < RepeatTimes - 1
          BY <4>1, CorpusBounds
        <5>2. \A j \in 1..i : j = i \/ j \in 1..(g - 1)
          BY <5>1
        <5> QED
          BY <4>1, <5>1, <5>2, Zenon
      <4>3. NewSeeds(r, NoMove)
        BY <1>8, <3>4, <4>1, <4>2, Zenon DEF NewSeeds
      <4> QED
        BY <3>4, <4>1, <4>3, Zenon DEF StageOk
    <3>6. CASE NewSeeds(p, NoMove)
      BY <3>2, <3>6, Zenon DEF NewSeeds
    <3>7. CASE EndOfSession(p, NoMove)
      <4>1. Len(t) = 2 /\ t[2] = Stage(<<"incoming", p.run>>, Complete, TRUE)
        BY <3>7, Zenon DEF EndOfSession
      <4>2. \A b \in bucket : b[1] # "corpus_seed"
        BY <2>2, <3>3, <3>7 DEF EndOfSession
      <4>3. AfterSession(r, NoMove)
        BY <1>8, <3>4, <4>1, <4>2, Zenon DEF AfterSession
      <4> QED
        BY <3>4, <4>1, <4>3, Zenon DEF StageOk
    <3>8. CASE AfterSession(p, NoMove)
      <4>1. Gapless
        BY <3>8, Zenon DEF AfterSession, Gapless, HasGeneration
      <4> QED
        BY <3>2, <3>8, <4>1, Zenon DEF AfterSession
    <3> QED
      BY <3>1, <3>5, <3>6, <3>7, <3>8, Zenon DEF StageOk
  <2> QED
    BY <1>5, <2>1, <2>2, Zenon
<1>10. (r.pc = "stage" => StageOk(r, NoMove)') /\ (r.pc # "stage" => Gapless')
  <2>1. Gapless => Gapless'
    BY <1>4, Zenon DEF Gapless, HasGeneration
  <2>2. StageOk(r, NoMove) => StageOk(r, NoMove)'
    BY <1>4, StageOkKept
  <2> QED
    BY <1>2, <1>8, <1>9, <2>1, <2>2, Zenon
<1>11. r.pc \in OrderPcs /\ r.seed = "none"
  BY <1>2, <1>8, Zenon
<1> QED
  BY <1>3, <1>4, <1>7, <1>10, <1>11, AloneStep, Zenon DEF CorpusKeptInv

LEMMA SessionsInit ==
  CorpusInit => SessionsInv
BY DEF CorpusInit, SessionsInv, Orderly

(* Before the module is loaded there is nothing to be put in order. *)
LEMMA DeployInOrder ==
  ASSUME CorpusKeptInv, Deploy
  PROVE  InOrder'
<1>1. /\ bucket' = {} /\ \A h \in Hosts : host'[h] = IdleHost /\ move'[h] = NoMove
  BY DEF CorpusKeptInv, UndeployedInv, Deploy
<1>2. IdleHost.pc \in OrderPcs /\ IdleHost.seed = "none" /\ IdleHost.pc # "stage" /\ IdleHost.pc \notin InSession
  BY DEF IdleHost, OrderPcs, InSession
<1>3. Gapless'
  BY <1>1, Zenon DEF Gapless, HasGeneration
<1> QED
  BY <1>1, <1>2, <1>3 DEF InOrder

(* Every step keeps the order of the sessions.                             *)
LEMMA SessionsNext ==
  CorpusKeptInv /\ SessionsInv /\ [CorpusNext]_corpusVars => SessionsInv'
<1> SUFFICES ASSUME CorpusKeptInv, SessionsInv, [CorpusNext]_corpusVars, Orderly' PROVE InOrder'
  BY Zenon DEF SessionsInv
<1>1. CASE UNCHANGED corpusVars
  <2>1. InOrder
    BY <1>1, Zenon DEF SessionsInv, Orderly, corpusVars
  <2> QED
    <3>1. bucket' = bucket /\ host' = host /\ move' = move
      BY <1>1, Zenon DEF corpusVars
    <3>2. Gapless => Gapless'
      BY <3>1, Zenon DEF Gapless, HasGeneration
    <3>3. ASSUME NEW g \in Hosts, host'[g].pc = "stage"
          PROVE  StageOk(host[g], move[g])'
      <4>1. StageOk(host[g], move[g]) /\ host'[g] = host[g] /\ move'[g] = move[g]
        BY <2>1, <3>1, <3>3, Zenon DEF InOrder
      <4> QED
        BY <3>1, <4>1, StageOkKept, Zenon
    <3> QED
      BY <2>1, <3>1, <3>2, <3>3, Zenon DEF InOrder
<1>2. CASE Deploy
  BY <1>2, DeployInOrder, SMTT(40)
<1>3. ASSUME NEW h \in Hosts, ListSeeds(h) \/ DownloadFile(h), InOrder
      PROVE  FALSE
  <2>1. host[h].pc \in {"list", "download"}
    BY <1>3 DEF ListSeeds, DownloadFile
  <2> QED
    BY <1>3, <2>1 DEF InOrder, OrderPcs, InSession
<1>4. ASSUME NEW h \in Hosts, HostDies(h)
      PROVE  FALSE
  BY <1>4 DEF HostDies, Orderly, CorpusKeptInv, CorpusTypes
<1>5. ASSUME NEW h \in Hosts,
             \/ FetchCorpusSeed(h) \/ add_lock(h) \/ ListSeeds(h) \/ DownloadFile(h) \/ rename_blob(h)
             \/ RunFuzzer(h) \/ UploadCorpusOutDir(h) \/ ListStage(h) \/ ClassifyBlob(h) \/ remove_lock(h)
      PROVE  InOrder'
  <2>1. algorithm' = algorithm /\ deaths' = deaths
    BY <1>5, Zenon DEF FetchCorpusSeed, add_lock, ListSeeds, DownloadFile, rename_blob, RunFuzzer, UploadCorpusOutDir,
       ListStage, ClassifyBlob, remove_lock
  <2>2. overlapped => overlapped'
    BY <1>5, Zenon DEF FetchCorpusSeed, add_lock, ListSeeds, DownloadFile, rename_blob, RunFuzzer, UploadCorpusOutDir,
       ListStage, ClassifyBlob, remove_lock
  <2>3. InOrder /\ algorithm = 3 /\ ~overlapped'
    BY <2>1, <2>2, Zenon DEF SessionsInv, Orderly
  <2> QED
    BY <1>3, <1>5, <2>3, FetchInOrder, AddLockInOrder, RenameInOrder, RunFuzzerInOrder, UploadInOrder,
       ListStageInOrder, ClassifyInOrder, RemoveLockInOrder, Zenon
<1> QED
  BY <1>1, <1>2, <1>4, <1>5, Zenon DEF CorpusNext

(* The invariant implies SessionsInOrder.                                  *)
LEMMA OrderOfSessions ==
  ASSUME SessionsInv
  PROVE  SessionsInOrder
<1> SUFFICES ASSUME Orderly, \A h \in Hosts : host[h].pc = "idle",
                    NEW i \in 2..RepeatTimes, PrefixExists(<<"corpus_seed", i>>)
             PROVE  i < RepeatTimes - 1 /\ PrefixExists(<<"corpus_seed", i - 1>>)
  BY Zenon DEF SessionsInOrder, Orderly
<1>1. "idle" # "stage"
  OBVIOUS
<1>2. Gapless
  BY <1>1, Zenon DEF SessionsInv, InOrder
<1>3. i \in Nat \ {0} /\ i - 1 \in 1..i
  BY CorpusBounds
<1> QED
  BY <1>2, <1>3, GenerationIsThere, Zenon DEF Gapless

(* For any hosts, strings and REPEAT_TIMES, the corpus is kept, and the    *)
(* sessions of _ClassifyPriority3 are in order as long as no two hosts got *)
(* past the lock together and none died: between two runs the generations  *)
(* of the seeds are numbered without a gap.                                *)
THEOREM CorpusIsAlwaysInOrder == CorpusSpec => []CorpusIsInOrder
<1>1. CorpusKeptInv /\ SessionsInv => CorpusIsInOrder
  BY OrderOfSessions, Zenon DEF CorpusKeptInv, KeptInv, KeptAbove, CorpusIsKept, CorpusIsInOrder
<1> QED
  BY <1>1, KeptInit, KeptNext, SessionsInit, SessionsNext, PTL DEF CorpusSpec
=============================================================================
