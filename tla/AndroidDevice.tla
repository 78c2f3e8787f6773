---------------------------- MODULE AndroidDevice ----------------------------
(***************************************************************************)
(* The devices of a test run (utils/python/controllers/android_device.py): *)
(* their objects are created, their services (logcat, the agent, the port  *)
(* forwarded to it, the callback server) are started together, the test    *)
(* reboots and heals them, and destroy takes everything down.  Commands go *)
(* through adb.py and fastboot.py, processes through runners/host/utils.py.*)
(*                                                                         *)
(* A method is an operator from worlds to worlds, where a world is the     *)
(* state and whether an exception is on its way.  The set f of a method    *)
(* names the commands of it that fail; on a device that is not connected   *)
(* all of them do.                                                         *)
(***************************************************************************)
EXTENDS Integers, FiniteSets, Functions, FiniteSetsExt, TLC

CONSTANTS
  Devices,     \* serials, as numbers in the order of the configuration
  HostPorts,   \* ports that random.randint can choose
  AgentPorts,  \* ports that the device's system gives to an agent
  MaxEvents    \* bound: reboots, healings and losses of devices

ASSUME ConstantsAssumption ==
  Devices \subseteq Nat /\ HostPorts \subseteq Nat \ {0} /\ 0 \notin AgentPorts /\ MaxEvents \in Nat

VARIABLES
  ad,       \* [Devices -> the AndroidDevice object]
  dev,      \* [Devices -> the device]
  forward,  \* adb's forwards: function from host ports to [serial, port]
  phase,    \* "create", "start", "test", "raised" or "destroyed"
  healed,   \* history: devices that Heal has just found in order, not in the bootloader
  early,    \* history: a device was lost while others were being started
  events    \* number of events so far

deviceVars == <<ad, dev, forward, phase, healed, early, events>>

(* What can go wrong in a method: its commands, the start of the agent's   *)
(* binaries, a slow agent, and a port that the system has not released.    *)
StartFaults == {"logcat", "stop_llkd", "cleanup", "uname", "agent", "slow", "port", "forward", "bind"}
CleanFaults == {"cleanup", "start_llkd", "remove"}

NoObject ==
  [made |-> FALSE, logcat |-> FALSE, agent |-> FALSE, command_port |-> 0, callback_port |-> 0,
   server |-> FALSE, fatal_error |-> FALSE, current |-> FALSE, missed |-> FALSE]

DeviceInit ==
  /\ ad = [d \in Devices |-> NoObject]
  /\ dev \in [Devices -> {[mode |-> m, llkd |-> TRUE, agent |-> 0, port_file |-> 0, reverse |-> 0] :
                            m \in {"adb", "bootloader"}}]
  /\ forward = <<>> /\ phase = "create" /\ healed = {} /\ early = FALSE /\ events = 0
-----------------------------------------------------------------------------
World == [ad |-> ad, dev |-> dev, forward |-> forward, ok |-> TRUE]
Raise(w) == [w EXCEPT !.ok = FALSE]
RaiseIf(w, c) == IF c THEN Raise(w) ELSE w
Become(w) == ad' = w.ad /\ dev' = w.dev /\ forward' = w.forward

(* _exec_cmd: the command fails, or the device does not answer. *)
Fails(w, d, f, cmd) == cmd \in f \/ w.dev[d].mode # "adb"

(* Ports that a program listens on: adb for a forward, a callback server. *)
list_occupied_adb_ports(w) == DOMAIN w.forward
Listening(w) == {w.ad[d].callback_port : d \in {e \in Devices : w.ad[e].server}}
(* Any free port; of those that nothing refers to, the least stands for all. *)
Referred(w) == DOMAIN w.forward \cup
  UNION {{w.ad[d].command_port, w.ad[d].callback_port, w.dev[d].reverse} : d \in Devices}
get_available_host_port(w) ==
  LET free == HostPorts \ (list_occupied_adb_ports(w) \cup Listening(w))
  IN {p \in free : p \in Referred(w) \/ \A q \in free \ Referred(w) : p <= q}

startAdbLogcat(w, d, f) ==
  IF w.ad[d].logcat \/ Fails(w, d, f, "logcat") THEN Raise(w)
  ELSE [w EXCEPT !.ad[d].logcat = TRUE]

stopAdbLogcat(w, d) == [w EXCEPT !.ad[d].logcat = FALSE]

(* The adb process of the agent is killed; the agent itself may outlive it *)
(* until the clean-up of the next start.                                   *)
stopVtsAgent(w, d, f) ==
  IF ~w.ad[d].agent THEN w
  ELSE [w EXCEPT !.ad[d].agent = FALSE, !.ad[d].current = FALSE,
                 !.dev[d].agent = IF "cleanup" \in f THEN @ ELSE 0]

_StopLLKD(w, d, f) ==
  IF w.ad[d].fatal_error \/ Fails(w, d, f, "stop_llkd") THEN w
  ELSE [w EXCEPT !.dev[d].llkd = FALSE]

_StartLLKD(w, d, f) ==
  IF w.ad[d].fatal_error \/ Fails(w, d, f, "start_llkd") THEN [w EXCEPT !.ad[d].missed = TRUE]
  ELSE [w EXCEPT !.dev[d].llkd = TRUE]

(* startVtsAgent: stops llkd, kills what is left of an earlier agent, and  *)
(* starts the 64-bit agent or else the 32-bit one, each checked to run     *)
(* after a second.  The agent listens on port p; a slow one has not        *)
(* written the port to its file by then.                                   *)
startVtsAgent(w, d, f, p) ==
  LET quiet == _StopLLKD(w, d, f)
      clean == IF Fails(quiet, d, f, "cleanup") THEN quiet ELSE [quiet EXCEPT !.dev[d].agent = 0]
  IN CASE w.ad[d].agent -> Raise(w)
       [] ~w.ad[d].agent /\ (Fails(clean, d, f, "uname") \/ "agent" \in f) -> Raise(clean)
       [] OTHER -> [clean EXCEPT !.ad[d].agent = TRUE, !.dev[d].agent = p,
                                 !.dev[d].port_file = IF "slow" \in f THEN @ ELSE p]

(* startServices: the port that the agent has written is read and          *)
(* forwarded from the object's own host port, chosen the first time.       *)
ForwardPort(w, d, f, hp) ==
  LET port == w.dev[d].port_file
      host == IF w.ad[d].command_port = 0 THEN hp ELSE w.ad[d].command_port
      chosen == [w EXCEPT !.ad[d].command_port = host]
  IN IF Fails(w, d, f, "port") \/ port = 0 THEN Raise(w)
     ELSE IF Fails(w, d, f, "forward") \/ host \in Listening(w) THEN Raise(chosen)
     ELSE [chosen EXCEPT !.forward = (host :> [serial |-> d, port |-> port]) @@ @]

(* MirrorTracker(...): the one for HALs starts the callback server. *)
_StartCallbackServer(w, d, f) ==
  LET port == w.ad[d].callback_port
  IN IF "bind" \in f \/ port \in DOMAIN w.forward \cup Listening(w) THEN Raise(w)
     ELSE [w EXCEPT !.ad[d].server = TRUE, !.ad[d].current = "slow" \notin f]

startServices(w, d, f, p, hp) ==
  LET logging == startAdbLogcat(w, d, f)
      agent   == IF logging.ok THEN startVtsAgent(logging, d, f, p) ELSE logging
      port    == IF agent.ok THEN ForwardPort(agent, d, f, hp) ELSE agent
  IN IF port.ok THEN _StartCallbackServer(port, d, f) ELSE port

(* hal.CleanUp: the callback server stops; the tracker object stays. *)
stopServices(w, d, f) ==
  [stopVtsAgent(stopAdbLogcat(w, d), d, f) EXCEPT !.ad[d].server = FALSE]

(* cleanUp; a forward that cannot be removed raises, destroy goes on.      *)
cleanUp(w, d, f) ==
  LET s == _StartLLKD(stopServices(w, d, f), d, f)
      host == s.ad[d].command_port
  IN IF host = 0 THEN s
     ELSE IF Fails(s, d, f, "remove") \/ host \notin DOMAIN s.forward THEN s
     ELSE [s EXCEPT !.ad[d].command_port = 0, !.forward = Restrict(@, DOMAIN @ \ {host})]

destroy(w, ds, f) == FoldSet(LAMBDA d, u : cleanUp(u, d, f), w, ds)
-----------------------------------------------------------------------------
(* AndroidDevice(serial): adb becomes root, a port for callbacks is chosen *)
(* (nothing listens on it yet) and the device's port is reversed to it.    *)
MakeDevice(d, f, port) ==
  LET w == World
      root == RaiseIf(w, w.dev[d].mode = "adb" /\ "id" \in f)
      rev  == RaiseIf(root, root.ok /\ Fails(w, d, f, "reverse"))
  IN IF ~rev.ok THEN rev
     ELSE [rev EXCEPT !.ad[d].made = TRUE, !.ad[d].callback_port = port, !.dev[d].reverse = port]

(* create: the objects in order, then the check that all are connected. *)
get_instances(d) ==
  /\ phase = "create" /\ ~ad[d].made /\ \A e \in Devices : e < d => ad[e].made
  /\ \E f \in {{}, {"id"}, {"reverse"}}, port \in get_available_host_port(World) :
       LET w == MakeDevice(d, f, port)
       IN /\ Become(w)
          /\ phase' = CASE ~w.ok -> "raised"
                       [] w.ok /\ \E e \in Devices : ~w.ad[e].made -> "create"
                       [] OTHER -> IF \A e \in Devices : dev[e].mode = "adb" THEN "start" ELSE "raised"
  /\ UNCHANGED <<healed, early, events>>

(* Only the devices before the one that failed are cleaned up. *)
DestroysStartedOnly(w, d, f) == destroy(w, {e \in Devices : e < d}, f)

(* A failure cleans up the devices that were being started. *)
DestroysRunning(w, d, f) == destroy(w, {e \in Devices : e <= d}, f)

(* _startServicesOnAds: one device after the other. *)
_startServicesOnAds(d) ==
  /\ phase = "start" /\ ~ad[d].server /\ \A e \in Devices : e < d => ad[e].server
  /\ \E f \in SUBSET StartFaults : Cardinality(f) <= 1 /\
     \E p \in AgentPorts \ {dev[d].port_file}, hp \in get_available_host_port(World) :
     \E g \in SUBSET CleanFaults : Cardinality(g) <= 1 /\
       LET w == startServices(World, d, f, p, hp)
       IN /\ Become(IF w.ok THEN w ELSE DestroysRunning(w, d, g))
          /\ phase' = IF ~w.ok THEN "raised"
                      ELSE IF \A e \in Devices : w.ad[e].server THEN "test" ELSE "start"
  /\ UNCHANGED <<healed, early, events>>

(* The device is in the bootloader, unplugged, rebooting: what ran over    *)
(* adb is gone, and with the connection adb's forwards of both directions.     *)
Drop(w, d, mode) ==
  [w EXCEPT !.dev[d].mode = mode, !.dev[d].agent = 0, !.dev[d].reverse = 0, !.ad[d].current = FALSE,
            !.forward = Restrict(@, {h \in DOMAIN @ : @[h].serial # d})]
Booted(w, d) == [w EXCEPT !.dev[d].mode = "adb", !.dev[d].llkd = TRUE]
(* It is back, having been rebooted or only unplugged. *)
Returned(w, d) == {Booted(w, d)} \cup
  IF w.dev[d].mode = "gone" THEN {[w EXCEPT !.dev[d].mode = "adb"]} ELSE {}

Event == events < MaxEvents /\ events' = events + 1
Lost(d) ==
  /\ phase \in {"start", "test"} /\ dev[d].mode = "adb" /\ Event
  /\ \E mode \in {"gone", "bootloader"} : Become(Drop(World, d, mode))
  /\ early' = (early \/ phase = "start") /\ healed' = healed \ {d} /\ UNCHANGED phase
Back(d) ==
  /\ dev[d].mode # "adb" /\ phase \in {"start", "test"} /\ \E w \in Returned(World, d) : Become(w)
  /\ UNCHANGED <<phase, healed, early, events>>

(* hasVbmetaSlot asks the bootloader, and leaves the device in it. *)
hasVbmetaSlot(d) ==
  /\ phase = "test" /\ Event /\ Become(Drop(World, d, "bootloader"))
  /\ dev[d].mode = "adb" /\ healed' = healed \ {d} /\ UNCHANGED <<phase, early>>

(* reboot: in the bootloader fastboot does it and nothing else happens.    *)
(* Otherwise the services that run are stopped, and started again when the *)
(* device answers: only the logcat and the agent are services here.        *)
reboot(d, f, p, back) ==
  LET w == World
      off == stopVtsAgent(stopAdbLogcat(w, d), d, f)
      on  == Booted(Drop(off, d, "gone"), d)
      log == IF w.ad[d].logcat THEN startAdbLogcat(on, d, f) ELSE on
  IN CASE w.dev[d].mode = "bootloader" -> Booted(w, d)
       [] w.dev[d].mode = "gone" -> Raise(off)
       [] OTHER -> IF ~back THEN Raise(Drop(off, d, "gone"))
                   ELSE IF log.ok /\ w.ad[d].agent THEN startVtsAgent(log, d, f, p) ELSE log

Reboot(d) ==
  /\ phase = "test" /\ Event
  /\ \E f \in {{}, {"logcat"}, {"uname"}, {"cleanup"}, {"stop_llkd"}, {"slow"}},
        p \in AgentPorts \ {dev[d].port_file}, back \in BOOLEAN : Become(reboot(d, f, p, back))
  /\ healed' = healed \ {d} /\ UNCHANGED <<phase, early>>

(* AndroidDevice.Heal: does the device answer?  In the bootloader it need  *)
(* not.  Its mode at that time can be another than before.                 *)
HealDevice(w, d, mode) ==
  LET now == IF mode = "adb" THEN w ELSE Drop(w, d, mode)
  IN IF mode = "bootloader" THEN now
     ELSE [RaiseIf(now, mode = "gone") EXCEPT !.ad[d].fatal_error = mode = "gone"]

(* BaseTestClass.Heal: a device that was away is waited for and all its    *)
(* services are started again.  An exception ends the attempts to heal.    *)
Heal(d) ==
  /\ phase = "test" /\ Event
  /\ \E f \in SUBSET StartFaults, p \in AgentPorts \ {dev[d].port_file},
        hp \in get_available_host_port(World), mode \in {"adb", "gone", "bootloader"},
        back \in Returned(World, d) :
       /\ Cardinality(f) <= 1
       /\ LET w == IF dev[d].mode = "adb" THEN World
                   ELSE startServices(stopServices(back, d, f), d, f, p, hp)
              res == IF w.ok THEN HealDevice(w, d, mode) ELSE w
          IN Become(res) /\ healed' = IF res.ok /\ mode = "adb" THEN healed \cup {d} ELSE healed \ {d}
  /\ UNCHANGED <<phase, early>>

(* The wait for the device fails. *)
HealInVain(d) ==
  /\ phase = "test" /\ dev[d].mode # "adb" /\ Event
  /\ healed' = healed \ {d} /\ UNCHANGED <<ad, dev, forward, phase, early>>

Destroy ==
  /\ phase = "test"
  /\ \E g \in SUBSET CleanFaults : Cardinality(g) <= 1 /\ Become(destroy(World, Devices, g))
  /\ phase' = "destroyed" /\ UNCHANGED <<healed, early, events>>

DeviceNext ==
  \/ \E d \in Devices :
       \/ get_instances(d) \/ _startServicesOnAds(d) \/ hasVbmetaSlot(d) \/ Reboot(d) \/ Heal(d)
       \/ HealInVain(d) \/ Lost(d) \/ Back(d)
  \/ Destroy

DeviceSpec == DeviceInit /\ [][DeviceNext]_deviceVars
-----------------------------------------------------------------------------
(* When create has raised or destroy has run, no process, server or        *)
(* forward of the run is left, also of the device whose start failed.      *)
(* Only a forward that adb would not remove can stay.                      *)
Over == phase \in {"raised", "destroyed"}
NothingLeftRunning ==
  Over => \A d \in Devices : ~ad[d].logcat /\ ~ad[d].agent /\ ~ad[d].server
                           /\ (ad[d].command_port = 0 => \A h \in DOMAIN forward : forward[h].serial # d)

(* llkd, which startVtsAgent stops, runs again in the end on every device  *)
(* that was reachable then and not in a fatal error.                       *)
LlkdRestored == Over => \A d \in Devices : dev[d].llkd \/ ad[d].missed

(* While the agent of the last startServices runs, the object's host port  *)
(* leads to it: to this device and to the port it listens on.              *)
ForwardReachesAgent ==
  \A d \in Devices : ad[d].current /\ ad[d].server /\ ~early =>
    /\ ad[d].command_port \in DOMAIN forward
    /\ forward[ad[d].command_port] = [serial |-> d, port |-> dev[d].agent]

(* A device's services are there while they should be, and not after.      *)
ServicesAreKept == NothingLeftRunning /\ LlkdRestored /\ ForwardReachesAgent

(* "True if everything is ok" (base_test.py): a device that Heal found in  *)
(* order can be reached, and can reach the host's callback server.         *)
HealedIsReachable ==
  \A d \in healed :
    /\ ad[d].command_port \in DOMAIN forward
    /\ forward[ad[d].command_port] = [serial |-> d, port |-> dev[d].agent]
    /\ dev[d].reverse = ad[d].callback_port
=============================================================================
