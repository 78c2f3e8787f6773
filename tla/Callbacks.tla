------------------------------ MODULE Callbacks ------------------------------
(***************************************************************************)
(* Callbacks from a HAL to functions of a test: the host's registry of     *)
(* functions (callback_server.py, shared by all servers of the process),   *)
(* the ids that the HAL mirror puts into a callback interface, the         *)
(* driver's map from function names to ids (DriverCallbackBase), the       *)
(* agent's process for each callback (SocketServerForDriver) and the       *)
(* host's TCP server, which handles one connection after the other.        *)
(*                                                                         *)
(* A callback object is one callback interface that a test passes to the   *)
(* HAL; its functions are called by the HAL at any time afterwards, from   *)
(* threads of their own.                                                   *)
(***************************************************************************)
EXTENDS Integers, Sequences, FiniteSets, Functions, SequencesExt

CONSTANTS
  Objects,      \* callback objects
  Function,     \* [Objects -> sequence of [name, func]]: a test's functions
  Unregisters,  \* functions that the test may unregister
  Stops,        \* whether the server may be stopped
  MaxCalls      \* bound: callbacks of the HAL

ASSUME ConstantsAssumption == MaxCalls \in Nat /\ Stops \in BOOLEAN

Names == UNION {{Function[o][i].name : i \in DOMAIN Function[o]} : o \in Objects}
NoId == -1                  \* the empty id
Idle == [call |-> 0, id |-> NoId]

VARIABLES
  _functions,  \* function from registered ids to functions
  interface,   \* [Objects -> sequence of [name, id]]: the message for the driver
  set,         \* [Objects -> number of functions Register has put into the map]
  id_map_,     \* [Names -> id]: the driver's map
  calls,       \* history: [1..number of callbacks -> the function called for]
  agents,      \* set of [call, id]: the agent's processes for callbacks
  accepted,    \* connections to the host's server, in the order of arrival
  handling,    \* the callback whose function runs, or Idle
  up,          \* the server is running
  handled,     \* history: sequence of [call, func]
  gone         \* history: functions that were unregistered

vars == <<_functions, interface, set, id_map_, calls, agents, accepted, handling, up, handled, gone>>
driver == <<set, id_map_, calls>>
server == <<agents, accepted, handling, up, handled>>
-----------------------------------------------------------------------------
Init ==
  /\ _functions = <<>> /\ interface = [o \in Objects |-> <<>>]
  /\ set = [o \in Objects |-> 0] /\ id_map_ = [n \in Names |-> NoId] /\ calls = <<>>
  /\ agents = {} /\ accepted = <<>> /\ handling = Idle /\ up = TRUE /\ handled = <<>> /\ gone = {}

(* int(max(_functions, key=int)) + 1 *)
NextId(fs) == IF DOMAIN fs = {} THEN 0 ELSE Max(DOMAIN fs) + 1

(* GetCallbackFunctionID: the id of the function, which is registered if   *)
(* it is not yet.                                                          *)
IsRegistered(fs, f) == f \in Range(fs)
RegisterCallback(fs, f) ==
  IF IsRegistered(fs, f) THEN fs ELSE [i \in DOMAIN fs \cup {NextId(fs)} |->
                                         IF i = NextId(fs) THEN f ELSE fs[i]]
GetCallbackId(fs, f) == CHOOSE i \in DOMAIN fs : fs[i] = f

(* GetHidlCallbackInterface: the functions of the object are registered in *)
(* turn, and the id of each is put into the message.                       *)
AddFunction(r, a) ==
  LET fs == RegisterCallback(r.fs, a.func)
  IN  [fs |-> fs, msg |-> Append(r.msg, [name |-> a.name, id |-> GetCallbackId(fs, a.func)])]
GetHidlCallbackInterface(o) ==
  /\ interface[o] = <<>>
  /\ LET r == FoldLeft(AddFunction, [fs |-> _functions, msg |-> <<>>], Function[o])
     IN  _functions' = r.fs /\ interface' = [interface EXCEPT ![o] = r.msg]
  /\ UNCHANGED <<driver, server, gone>>

(* UnregisterCallback *)
UnregisterCallback(f) ==
  /\ f \in Unregisters /\ IsRegistered(_functions, f)
  /\ _functions' = Restrict(_functions, DOMAIN _functions \ {GetCallbackId(_functions, f)})
  /\ gone' = gone \cup {f}
  /\ UNCHANGED <<interface, driver, server>>
-----------------------------------------------------------------------------
(* One round of the loop of DriverCallbackBase::Register, while callbacks  *)
(* of other objects may read the map.                                      *)
Register(o) ==
  /\ set[o] < Len(interface[o])
  /\ LET e == interface[o][set[o] + 1]
     IN  id_map_' = [id_map_ EXCEPT ![e.name] = e.id]
  /\ set' = [set EXCEPT ![o] = @ + 1]
  /\ UNCHANGED <<_functions, interface, calls, server, gone>>

(* The object is the HAL's once Register is done. *)
Passed(o) == interface[o] # <<>> /\ set[o] = Len(interface[o])

(* The HAL calls a function of the object: GetCallbackID and               *)
(* RpcCallToAgent, which gives up when there is no id.                     *)
Call(o, i) ==
  /\ Passed(o) /\ i \in DOMAIN Function[o] /\ Len(calls) < MaxCalls
  /\ calls' = Append(calls, Function[o][i].func)
  /\ agents' = IF id_map_[Function[o][i].name] = NoId THEN agents
               ELSE agents \cup {[call |-> Len(calls'), id |-> id_map_[Function[o][i].name]]}
  /\ UNCHANGED <<_functions, interface, set, id_map_, accepted, handling, up, handled, gone>>

(* A message that arrives again when the first handler takes long. *)
RpcCallToRunnerAgain(m) ==
  /\ m \in agents
  /\ agents' = IF handling # Idle THEN agents ELSE agents \ {m}
  /\ accepted' = IF up THEN Append(accepted, m) ELSE accepted
  /\ Len(accepted) < MaxCalls
  /\ UNCHANGED <<_functions, interface, driver, handling, up, handled, gone>>

(* SocketServerForDriver::RpcCallToRunner: the process exits when it       *)
(* cannot connect.                                                         *)
RpcCallToRunner(m) ==
  /\ m \in agents
  /\ agents' = agents \ {m}
  /\ accepted' = IF up THEN Append(accepted, m) ELSE accepted
  /\ UNCHANGED <<_functions, interface, driver, handling, up, handled, gone>>
-----------------------------------------------------------------------------
(* A request is dropped while the function of another one runs. *)
HandleBusy ==
  /\ up /\ accepted # <<>>
  /\ accepted' = Tail(accepted)
  /\ LET m == Head(accepted)
     IN  IF m.id \in DOMAIN _functions /\ handling = Idle
         THEN /\ handling' = m
              /\ handled' = Append(handled, [call |-> m.call, func |-> _functions[m.id]])
         ELSE UNCHANGED <<handling, handled>>
  /\ UNCHANGED <<_functions, interface, driver, agents, up, gone>>

(* CallbackRequestHandler.handle: the function of the id is called ...     *)
Handle ==
  /\ up /\ handling = Idle /\ accepted # <<>>
  /\ accepted' = Tail(accepted)
  /\ LET m == Head(accepted)
     IN  IF m.id \in DOMAIN _functions
         THEN /\ handling' = m
              /\ handled' = Append(handled, [call |-> m.call, func |-> _functions[m.id]])
         ELSE UNCHANGED <<handling, handled>>
  /\ UNCHANGED <<_functions, interface, driver, agents, up, gone>>

(* ... and returns, or raises, which ends the request too. *)
Return ==
  /\ handling # Idle
  /\ handling' = Idle
  /\ UNCHANGED <<_functions, interface, driver, agents, accepted, up, handled, gone>>

(* Stop waits for the request that is handled, then drops the others. *)
Stop ==
  /\ Stops /\ up /\ handling = Idle
  /\ up' = FALSE /\ accepted' = <<>>
  /\ UNCHANGED <<_functions, interface, driver, agents, handling, handled, gone>>

Next ==
  \/ \E o \in Objects : GetHidlCallbackInterface(o) \/ Register(o)
  \/ \E o \in Objects, i \in 1..2 : Call(o, i)
  \/ \E f \in Unregisters : UnregisterCallback(f)
  \/ \E m \in agents : RpcCallToRunner(m)
  \/ Handle \/ Return \/ Stop

Spec == Init /\ [][Next]_vars

(* The agent's processes and the server's thread go on, and the functions  *)
(* of the test return: one that waited for another callback would not.     *)
FairSpec ==
  /\ Spec
  /\ \A m \in [call : 1..MaxCalls, id : 0..(2 * Cardinality(Objects))] :
       WF_vars(RpcCallToRunner(m))
  /\ WF_vars(Handle)
  /\ WF_vars(Return)
-----------------------------------------------------------------------------
(* A callback is handled by the function that the test gave for it: the    *)
(* appropriate callback function on the host side is called, unless that   *)
(* function was unregistered, whose id may be in use again.                *)
AppropriateFunction ==
  \A i \in DOMAIN handled :
    LET f == calls[handled[i].call] IN f \notin gone => handled[i].func = f

(* No callback is handled twice, though each travels in a process of its   *)
(* own (SocketServerForDriver) and the server may be stopped meanwhile.    *)
HandledOnce ==
  \A i, j \in DOMAIN handled : handled[i].call = handled[j].call => i = j

(* A callback reaches its own function, and that once. *)
HandledOnceAsGiven == AppropriateFunction /\ HandledOnce

(* Every callback of the HAL is handled in the end, unless the server is   *)
(* stopped or the function was unregistered.                               *)
CallIsHandled ==
  \A c \in 1..MaxCalls :
    Len(calls) >= c ~> \/ ~up \/ (c \in DOMAIN calls /\ calls[c] \in gone)
                       \/ \E i \in DOMAIN handled : handled[i].call = c
=============================================================================
