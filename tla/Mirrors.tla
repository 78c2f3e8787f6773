------------------------------- MODULE Mirrors -------------------------------
(***************************************************************************)
(* The host's mirrors of device objects: the MirrorTrackers of a device    *)
(* ("hal", "lib", "resource" and "shell"), the VtsTcpClients of their      *)
(* mirrors, and the connections those clients hold.  A resource mirror may *)
(* be created in the session of another mirror (GetTcpClient), of another  *)
(* tracker too, so several mirrors can hold one client.                    *)
(*                                                                         *)
(* A client is a number.  A client that no mirror refers to any more is    *)
(* collected, which closes its socket; a test may keep a reference to a    *)
(* mirror that the tracker has replaced.                                   *)
(***************************************************************************)
EXTENDS Integers, FiniteSets, Sequences

CONSTANTS
  HalTypes,     \* target_type of the HALs the tests open
  Handlers,     \* handler_name the tests pass for libraries
  QueueNames,   \* new_queue_name the tests pass
  AnySession,   \* whether a test may name a queue of one session in a call that uses another
  MaxClients,   \* bound: clients created
  MaxQueues     \* bound: queues a session creates

ASSUME MirrorBounds == AnySession \in BOOLEAN /\ MaxClients \in Nat /\ MaxQueues \in Nat

NoName == "None"
DefaultShell == "_default"
Trackers == {"hal", "lib", "resource", "shell"}

VARIABLES
  connections,         \* client -> [open, alive, error, queues]: connection is not None,
                       \* the session's process lives, self.error, the rings of its queues
  registered_mirrors,  \* tracker -> name -> [kind, client, id, ring, enabled]; ring:
                       \* history, the message queue the mirror was asked for
  kept_clients,        \* clients of replaced mirrors that the test still refers to
  closed_by_other      \* history: clients closed through one of several mirrors

mirrorVars == <<connections, registered_mirrors, kept_clients, closed_by_other>>

NewClient == Cardinality(DOMAIN connections) + 1
Fresh == [open |-> TRUE, alive |-> TRUE, error |-> FALSE, queues |-> << >>]
NamesIn(regs, t) == DOMAIN regs[t]
AutoNames == {"queue_id_0", "queue_id_1", "mem_id_0", "handle_id_0"}

(* The clients that the mirrors of the trackers refer to. *)
Listed(regs) == UNION {{regs[t][n].client : n \in NamesIn(regs, t)} : t \in Trackers}

(* Disconnect(), or the collection of a client nobody refers to. *)
Disconnect(conns, cs) ==
  [c \in DOMAIN conns |-> IF c \in cs THEN [conns[c] EXCEPT !.open = FALSE] ELSE conns[c]]

Put(f, n, m) == [x \in DOMAIN f \cup {n} |-> IF x = n THEN m ELSE f[x]]

(* self._registered_mirrors[name] = mirror: the mirror that was there loses the      *)
(* tracker's reference.  A client passed to a failed call is not registered at all.  *)
Register(t, n, mirror, conns) ==
  LET old  == IF n \in NamesIn(registered_mirrors, t)
                THEN {registered_mirrors[t][n].client} ELSE {}
      regs == [registered_mirrors EXCEPT ![t] = Put(@, n, mirror)]
      lone == old \ (Listed(regs) \cup kept_clients)
  IN  \E keep \in SUBSET lone :
        /\ registered_mirrors' = regs
        /\ kept_clients' = kept_clients \cup keep
        /\ connections' = Disconnect(conns, lone \ keep)
        /\ UNCHANGED closed_by_other

(* The client of a call that raised or returned None before registering a mirror. *)
Abandon(c) ==
  /\ connections' = Put(connections, c, [Fresh EXCEPT !.open = FALSE])
  /\ UNCHANGED <<registered_mirrors, kept_clients, closed_by_other>>

Mirror(kind, c, id, ring) ==
  [kind |-> kind, client |-> c, id |-> id, ring |-> ring, enabled |-> TRUE]

(* A new ring of session c, named after the session that made it. *)
NewRing(c, conns) == <<c, Len(conns[c].queues)>>
NoRing == <<0, 0>>

MirrorsInit ==
  /\ connections = << >>
  /\ registered_mirrors = [t \in Trackers |-> << >>]
  /\ kept_clients = {}
  /\ closed_by_other = {}
-----------------------------------------------------------------------------
(* Connect: a new client and its session, or an exception.                           *)
Connect(c) == Put(connections, c, Fresh)

(* LaunchDriverService in a new session, and what follows it up to the registration  *)
(* of the mirror: one of these steps may fail, and the client is given up.           *)
LaunchDriverService(t, n) ==
  /\ NewClient <= MaxClients
  /\ \/ Register(t, n, Mirror(t, NewClient, 0, NoRing), Connect(NewClient))
     \/ Abandon(NewClient)
LaunchMirrorDriver(t, n) == LaunchDriverService(t, n)

(* InitHidlHal: the mirror is registered under target_type whatever handler_name is, *)
(* in place of an earlier one.                                                       *)
InitHalDriver(target_type) == LaunchMirrorDriver("hal", target_type)
InitHidlHal(target_type) == InitHalDriver(target_type)

(* InitSharedLib: the same, under handler_name. *)
InitLibDriver(handler_name) == LaunchMirrorDriver("lib", handler_name)
InitSharedLib(handler_name) == InitLibDriver(handler_name)

(* GetTcpClient(name), or None. *)
ClientOf(t, n) ==
  IF n \in NamesIn(registered_mirrors, t) THEN registered_mirrors[t][n].client ELSE NewClient

(* InitFmq(existing_queue, new_queue_name, client): a given name must be new; the    *)
(* id of an existing queue is looked up by name and sent to the client's session,    *)
(* which takes it for an id of its own (queues of the session are numbered from 0).  *)
InitFmq(existing, name, c) ==
  LET conns == IF c = NewClient THEN Connect(c) ELSE connections
      base  == registered_mirrors["resource"][existing]
      id    == Len(conns[c].queues)
      key   == IF name # NoName THEN name ELSE IF id = 0 THEN "queue_id_0" ELSE "queue_id_1"
      made(ring, asked) ==
        /\ conns[c].open /\ conns[c].alive /\ id < MaxQueues
        /\ Register("resource", key, Mirror("queue", c, id, asked),
                    [conns EXCEPT ![c].queues = Append(@, ring)])
  IN  /\ c <= MaxClients
      /\ name \notin NamesIn(registered_mirrors, "resource")
      /\ \/ existing = NoName /\ made(NewRing(c, conns), NewRing(c, conns))
         \/ /\ existing # NoName
            /\ AnySession \/ c = base.client
            /\ base.kind = "queue" /\ base.id < id
            /\ made(conns[c].queues[base.id + 1], base.ring)
         \/ c = NewClient /\ Abandon(c)

(* InitHidlMemory and InitHidlHandleForSingleFile: without a name the mirror is      *)
(* called after its id, the first of its kind in the session.                        *)
NewResource(kind, key, c) ==
  LET conns == IF c = NewClient THEN Connect(c) ELSE connections
  IN  /\ c <= MaxClients
      /\ \/ /\ conns[c].open /\ conns[c].alive
            /\ Register("resource", key, Mirror(kind, c, 0, NoRing), conns)
         \/ c = NewClient /\ Abandon(c)
InitHidlMemory(c) == NewResource("memory", "mem_id_0", c)
InitHidlHandleForSingleFile(c) == NewResource("handle", "handle_id_0", c)
-----------------------------------------------------------------------------
(* InvokeTerminal: a shell that is registered is not launched again, whatever became *)
(* of its session.                                                                   *)
InvokeTerminal(n) ==
  /\ n \notin NamesIn(registered_mirrors, "shell")
  /\ LaunchDriverService("shell", n)

(* ExecuteShellCommand of a client: self.error says whether the agent answered.      *)
ExecuteShellCommand(c) ==
  \E failed \in BOOLEAN :
    /\ ~(connections[c].open /\ connections[c].alive) => failed
    /\ connections' = [connections EXCEPT ![c].error = failed]

(* Execute: through the registered default shell, which is enabled (a disabled one   *)
(* answers itself, and without one adb is used).                                     *)
ExecuteViaVtsDriver ==
  /\ DefaultShell \in NamesIn(registered_mirrors, "shell")
  /\ LET m == registered_mirrors["shell"][DefaultShell]
     IN m.enabled /\ ExecuteShellCommand(m.client)
  /\ UNCHANGED <<registered_mirrors, kept_clients, closed_by_other>>

(* DisableShell *)
DisableShell ==
  /\ registered_mirrors' = [registered_mirrors EXCEPT !["shell"] =
                              [n \in DOMAIN @ |-> [@[n] EXCEPT !.enabled = FALSE]]]
  /\ UNCHANGED <<connections, kept_clients, closed_by_other>>

-----------------------------------------------------------------------------
(* RemoveMirror that forgets the mirror without disconnecting it. *)
PopsOnly(t, n) ==
  /\ registered_mirrors' = [registered_mirrors EXCEPT ![t] = [x \in DOMAIN @ \ {n} |-> @[x]]]
  /\ UNCHANGED <<connections, kept_clients, closed_by_other>>

(* RemoveMirror(name): the mirror's CleanUp disconnects its client, which other      *)
(* mirrors may share, and the name is free again.                                    *)
RemoveMirror(t, n) ==
  LET c    == registered_mirrors[t][n].client
      regs == [registered_mirrors EXCEPT ![t] = [x \in DOMAIN @ \ {n} |-> @[x]]]
  IN  /\ registered_mirrors' = regs
      /\ connections' = Disconnect(connections, {c})
      /\ closed_by_other' = closed_by_other \cup ({c} \cap Listed(regs))
      /\ UNCHANGED kept_clients

(* CleanUp of a tracker: every mirror's CleanUp, then an empty registry. *)
CleanUp(t) ==
  LET cs   == {registered_mirrors[t][n].client : n \in NamesIn(registered_mirrors, t)}
      regs == [registered_mirrors EXCEPT ![t] = << >>]
  IN  /\ cs # {}
      /\ registered_mirrors' = regs
      /\ connections' = Disconnect(connections, cs)
      /\ closed_by_other' = closed_by_other \cup (cs \cap Listed(regs))
      /\ UNCHANGED kept_clients

(* The process that serves a session on the device ends. *)
SessionDies(c) ==
  /\ connections[c].alive /\ connections[c].open
  /\ connections' = [connections EXCEPT ![c].alive = FALSE]
  /\ UNCHANGED <<registered_mirrors, kept_clients, closed_by_other>>

Clients == {NewClient} \cup UNION {{ClientOf(t, n) : n \in HalTypes \cup QueueNames \cup AutoNames} :
                                    t \in {"hal", "resource"}}

MirrorsNext ==
  \/ \E target_type \in HalTypes : InitHidlHal(target_type)
  \/ \E handler_name \in Handlers : InitSharedLib(handler_name)
  \/ \E c \in Clients, name \in QueueNames \cup {NoName},
        existing \in NamesIn(registered_mirrors, "resource") \cup {NoName} :
       InitFmq(existing, name, c)
  \/ \E c \in Clients : InitHidlMemory(c) \/ InitHidlHandleForSingleFile(c)
  \/ InvokeTerminal(DefaultShell)
  \/ ExecuteViaVtsDriver
  \/ DisableShell
  \/ \E t \in Trackers : \E n \in NamesIn(registered_mirrors, t) : RemoveMirror(t, n)
  \/ \E t \in Trackers : CleanUp(t)
  \/ \E c \in DOMAIN connections : SessionDies(c)

MirrorsSpec == MirrorsInit /\ [][MirrorsNext]_mirrorVars
-----------------------------------------------------------------------------
(* The registries and the connections agree.  A mirror that a tracker lists has an   *)
(* open connection, unless its client was closed through another mirror that shares  *)
(* it, and a queue mirror reaches the message queue it was created for or based on.  *)
(* A connection that is open belongs to a mirror some tracker lists, or to one that  *)
(* was replaced under its name while the test kept it.  This is about what           *)
(* RemoveMirror, CleanUp and the replacement in Init* leave behind.                  *)
MirrorsReachTheirSessions ==
  /\ \A t \in Trackers : \A n \in NamesIn(registered_mirrors, t) :
       LET m == registered_mirrors[t][n] IN
         /\ connections[m.client].open \/ m.client \in closed_by_other
         /\ m.kind = "queue" => connections[m.client].queues[m.id + 1] = m.ring
  /\ \A c \in DOMAIN connections :
       connections[c].open => c \in Listed(registered_mirrors) \cup kept_clients
=============================================================================
