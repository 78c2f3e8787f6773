----------------------------- MODULE DriverLaunch -----------------------------
(***************************************************************************)
(* How sessions of the agent start drivers on the device, in processes and *)
(* socket files: AgentRequestHandler::LaunchDriverService forks a launcher *)
(* process, which for a HAL driver first has StartSocketServerForDriver    *)
(* fork the callback server and then runs the driver's binary; meanwhile   *)
(* the session's process polls the socket file of the service until a      *)
(* driver answers and connects to it.                                      *)
(*                                                                         *)
(* The counter in the name of the callback socket is incremented in the    *)
(* launcher, a process of its own, so that every launch has the same name. *)
(***************************************************************************)
EXTENDS Integers, FiniteSets

CONSTANTS
  Sessions,   \* sessions that launch a driver, each once
  Hal,        \* the sessions that launch a HAL driver, the others a shell driver
  Service,    \* [Sessions -> service names]
  MaxPolls    \* bound: IsDriverRunning tries of a launch (10 times 10)

ASSUME ConstantsAssumption ==
  /\ Hal \subseteq Sessions
  /\ Service \in [Sessions -> STRING]
  /\ MaxPolls \in Nat

(* The two processes that can run the driver's binary for a launch: the    *)
(* launcher and the one it forks for the callback server.                  *)
Starters == {"launcher", "callback"}
Drivers == Sessions \X Starters
NoDriver == <<>>
Services == {Service[s] : s \in Sessions}

VARIABLES
  launch,     \* [Sessions -> progress of LaunchDriverService]
  polls,      \* [Sessions -> tries of IsDriverRunning so far]
  starter,    \* [Drivers -> progress of the process before the driver runs]
  driver,     \* [Drivers -> progress of the driver's StartSocketServer]
  file,       \* [Services -> the driver bound to the service's socket file]
  callback,   \* the session whose callback server is bound, or {}
  client      \* [Sessions -> the driver that driver_client_ is connected to]

vars == <<launch, polls, starter, driver, file, callback, client>>
-----------------------------------------------------------------------------
Init ==
  /\ launch = [s \in Sessions |-> "idle"] /\ polls = [s \in Sessions |-> 0]
  /\ starter = [d \in Drivers |-> "none"] /\ driver = [d \in Drivers |-> "none"]
  /\ file = [v \in Services |-> NoDriver]
  /\ callback = {}
  /\ client = [s \in Sessions |-> NoDriver]

(* The file of the service is removed and the launcher forked. *)
LaunchDriverService(s) ==
  /\ launch[s] = "idle"
  /\ file' = [file EXCEPT ![Service[s]] = NoDriver]
  /\ launch' = [launch EXCEPT ![s] = "poll"]
  /\ starter' = [starter EXCEPT ![<<s, "launcher">>] = "running"]
  /\ UNCHANGED <<polls, driver, callback, client>>

(* The launcher of a HAL driver forks the callback server; then it runs    *)
(* the driver, if its binary can be run.                                   *)
RunLauncher(s) ==
  /\ starter[<<s, "launcher">>] = "running"
  /\ starter' = [starter EXCEPT ![<<s, "launcher">>] = "done",
                                ![<<s, "callback">>] = IF s \in Hal THEN "running" ELSE @]
  /\ \E o \in {"started", "exited"} : driver' = [driver EXCEPT ![<<s, "launcher">>] = o]
  /\ UNCHANGED <<launch, polls, file, callback, client>>

(* The callback server binds its socket and serves for ever.  When the     *)
(* socket exists, the function returns -1 in this process too, which goes  *)
(* on in LaunchDriverService and runs the driver.                          *)
StartSocketServerForDriver(s) ==
  /\ starter[<<s, "callback">>] = "running"
  /\ starter' = [starter EXCEPT ![<<s, "callback">>] = "done"]
  /\ IF callback = {}
     THEN callback' = {s} /\ UNCHANGED driver
     ELSE driver' = [driver EXCEPT ![<<s, "callback">>] = "started"] /\ UNCHANGED callback
  /\ UNCHANGED <<launch, polls, file, client>>
-----------------------------------------------------------------------------
PathOf(d) == Service[d[1]]

(* The driver's StartSocketServer: unlink, bind, listen. *)
Unlink(d) ==
  /\ driver[d] = "started"
  /\ driver' = [driver EXCEPT ![d] = "unlinked"]
  /\ file' = [file EXCEPT ![PathOf(d)] = NoDriver]
  /\ UNCHANGED <<launch, polls, starter, callback, client>>

(* bind fails when the file exists again, and the driver exits. *)
Bind(d) ==
  /\ driver[d] = "unlinked"
  /\ driver' = [driver EXCEPT ![d] = IF file[PathOf(d)] = NoDriver THEN "bound" ELSE "exited"]
  /\ file' = [file EXCEPT ![PathOf(d)] = IF @ = NoDriver THEN d ELSE @]
  /\ UNCHANGED <<launch, polls, starter, callback, client>>

Listen(d) ==
  /\ driver[d] = "bound"
  /\ driver' = [driver EXCEPT ![d] = "listening"]
  /\ UNCHANGED <<launch, polls, starter, file, callback, client>>
-----------------------------------------------------------------------------
(* VtsDriverCommUtil::Connect to the socket file of a service. *)
CanConnect(v) == file[v] # NoDriver /\ driver[file[v]] = "listening"

(* One try of IsDriverRunning.  The launch goes on to the connection when  *)
(* a driver answered and also when the tries are used up.                  *)
IsDriverRunning(s) ==
  /\ launch[s] = "poll" /\ polls[s] < MaxPolls
  /\ polls' = [polls EXCEPT ![s] = @ + 1]
  /\ launch' = [launch EXCEPT ![s] = IF CanConnect(Service[s]) THEN "found"
                                     ELSE IF polls[s] + 1 = MaxPolls THEN "used_up" ELSE @]
  /\ UNCHANGED <<starter, driver, file, callback, client>>

(* The session keeps whatever the file named when it was polled. *)
ConnectUnchecked(s) ==
  /\ launch[s] \in {"found", "used_up"}
  /\ client' = [client EXCEPT ![s] = file[Service[s]]]
  /\ launch' = [launch EXCEPT ![s] = IF file[Service[s]] # NoDriver THEN "success"
                                     ELSE IF @ = "found" THEN "lost" ELSE "fail"]
  /\ UNCHANGED <<polls, starter, driver, file, callback>>

(* GetDriverSocketClient and the response: "lost" is a failure after a     *)
(* driver answered.                                                        *)
Connect(s) ==
  /\ launch[s] \in {"found", "used_up"}
  /\ IF CanConnect(Service[s])
     THEN /\ client' = [client EXCEPT ![s] = file[Service[s]]]
          /\ launch' = [launch EXCEPT ![s] = "success"]
     ELSE /\ launch' = [launch EXCEPT ![s] = IF @ = "found" THEN "lost" ELSE "fail"]
          /\ UNCHANGED client
  /\ UNCHANGED <<polls, starter, driver, file, callback>>

Progress(s) ==
  \/ RunLauncher(s) \/ StartSocketServerForDriver(s) \/ IsDriverRunning(s) \/ Connect(s)
  \/ \E x \in Starters : Unlink(<<s, x>>) \/ Bind(<<s, x>>) \/ Listen(<<s, x>>)

Next == \E s \in Sessions : LaunchDriverService(s) \/ Progress(s)

Spec == Init /\ [][Next]_vars
-----------------------------------------------------------------------------
(* LaunchDriverService answers success only when the session is connected  *)
(* to a driver that serves, and to one that was started for its service,   *)
(* whatever other launches removed or bound in between.                    *)
SuccessIsConnected ==
  \A s \in Sessions : launch[s] = "success" =>
    /\ client[s] # NoDriver
    /\ driver[client[s]] = "listening" /\ PathOf(client[s]) = Service[s]

(* A launch whose driver answered IsDriverRunning fails only when another  *)
(* launch of the same service removed the socket file, or when the process *)
(* forked for the callback server ran a second driver on it.               *)
FoundIsNotLost ==
  \A s \in Sessions : launch[s] = "lost" =>
    \/ \E t \in Sessions \ {s} : Service[t] = Service[s] /\ launch[t] # "idle"
    \/ driver[<<s, "callback">>] # "none"

(* Launches that race for a socket file and for the callback server answer *)
(* truthfully, and the callback server that all HAL drivers share is never *)
(* replaced: the callbacks of a later driver reach the host through it.    *)
LaunchesAreSafe ==
  [][SuccessIsConnected' /\ FoundIsNotLost' /\ (callback # {} => callback' = callback)]_vars
=============================================================================
