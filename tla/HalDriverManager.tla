-------------------------- MODULE HalDriverManager --------------------------
(***************************************************************************)
(* The drivers of one driver process (VtsHalDriverManager) and the host's  *)
(* mirrors of them (HalMirror): a HAL is loaded, functions are called, the *)
(* interfaces that functions return are registered as drivers of their own *)
(* and handed to the test as mirrors that carry the driver's id.           *)
(*                                                                         *)
(* An interface that a function returns is an object of the driver         *)
(* process, kept alive by counted references.  A reference is named here   *)
(* by its owner, and refs[a] is the set of references to the object at     *)
(* address a: the count is its cardinality, and the address may be used    *)
(* again once the set is empty.                                            *)
(***************************************************************************)
EXTENDS Integers, Sequences, FiniteSets

CONSTANTS
  Interfaces,     \* HIDL interfaces
  Loaded,         \* the interface that the host loads first
  Addrs,          \* addresses of interface objects, none of them 0
  Uids,           \* the callers' uids other than root's
  Args,           \* arguments of special types: [type, id]
  MaxResults,     \* bound: results of a call
  MaxReturned,    \* bound: results of all calls
  MaxObjects      \* bound: objects over time

kInvalidDriverId == -1
NoInterface == "no interface"   \* a specification without a package name
Nullptr == 0
Root == "0"
NoUid == "None"
Service == 0                    \* what a loaded driver talks to
NoObject == -1                  \* what a null interface stands for
ResourceTypes == {"fmq", "memory", "handle"}
NoValue == -2                   \* an FMQ argument without fmq_value

ASSUME ConstantsAssumption ==
  /\ Loaded \in Interfaces /\ NoInterface \notin Interfaces
  /\ Addrs \cap {Nullptr} = {} /\ Root \notin Uids /\ NoUid \notin Uids
  /\ MaxResults \in Nat /\ MaxReturned \in Nat /\ MaxObjects \in Nat
  /\ Args \subseteq [type : ResourceTypes \cup {"interface"}, id : Int]

VARIABLES
  specs,            \* interfaces with a .vts file on the device
  libs,             \* interfaces whose driver library can be loaded
  replaying,        \* the process is the replayer: no host and no mirrors
  phase,            \* "start", "serving" or "ended"
  hal_driver_map_,  \* sequence of [iface, pt, driver]; the driver's id is its index - 1
  refs,             \* [Addrs -> set of references]
  object,           \* history: [Addrs -> the object that was made there last]
  born,             \* number of objects made
  returned,         \* number of results
  resources,        \* [ResourceTypes -> number of registered resources]
  call,             \* the call in progress
  mirrors,          \* the host's mirrors: sequence of [driver_id, iface, uid, obj]
  uid,              \* the effective user of the process
  asked             \* history: uids other than root's that calls were made for

fixed == <<specs, libs, replaying>>
heap == <<refs, object, born>>
host == <<mirrors, uid, asked>>
vars == <<fixed, phase, hal_driver_map_, heap, returned, resources, call, host>>

Idle == [pc |-> "idle", driver_id |-> kInvalidDriverId, uid |-> Root, pending |-> <<>>, set |-> <<>>]
Calling(id, u) == [pc |-> "find", driver_id |-> id, uid |-> u, pending |-> <<>>, set |-> <<>>]
-----------------------------------------------------------------------------
Ref(by, n) == [by |-> by, n |-> n]
Alive(a) == refs[a] # {}

(* The first registered driver for the interface with one of the pointers: *)
(* any pointer, or the given one if with_interface_pointer.  The class or  *)
(* the package missing, nothing is found.                                  *)
AnyPointer == Addrs \cup {Nullptr}
Matches(iface, pts) ==
  {d \in 1..Len(hal_driver_map_) : hal_driver_map_[d].iface = iface /\ hal_driver_map_[d].pt \in pts}
FindDriverIdInternal(class, iface, pts) ==
  LET found == Matches(iface, pts)
  IN  IF class # "hidl" \/ iface = NoInterface \/ found = {} THEN kInvalidDriverId
      ELSE (CHOOSE d \in found : \A e \in found : d =< e) - 1

(* RegisterDriver: the driver's id, and the drivers afterwards.            *)
RegisteredId(iface, pt) ==
  LET id == FindDriverIdInternal("hidl", iface, {pt})
  IN  IF id = kInvalidDriverId THEN Len(hal_driver_map_) ELSE id
IsNew(iface, pt) == FindDriverIdInternal("hidl", iface, {pt}) = kInvalidDriverId
RegisterDriver(iface, pt, driver) ==
  IF IsNew(iface, pt) THEN Append(hal_driver_map_, [iface |-> iface, pt |-> pt, driver |-> driver])
  ELSE hal_driver_map_

(* GetDriverById, after GetDriverWithCallMsg: a call message has no        *)
(* package, so without an id no driver is found.                           *)
GetDriverWithCallMsg(id) ==
  LET driver_id == IF id # kInvalidDriverId THEN id
                   ELSE FindDriverIdInternal("hidl", NoInterface, AnyPointer)
  IN  IF driver_id \in 0..(Len(hal_driver_map_) - 1) THEN hal_driver_map_[driver_id + 1].driver
      ELSE "null"

Init ==
  /\ specs \in SUBSET Interfaces /\ libs \in SUBSET Interfaces /\ replaying \in BOOLEAN
  /\ phase = "start" /\ hal_driver_map_ = <<>>
  /\ refs = [a \in Addrs |-> {}] /\ object = [a \in Addrs |-> NoObject] /\ born = 0
  /\ returned = 0 /\ resources = [t \in ResourceTypes |-> 0]
  /\ call = Idle /\ mirrors = <<>> /\ uid = Root /\ asked = {}

(* LoadTargetComponent: fails without the specification, the library or    *)
(* the service (which is not part of the state: it may be up or not).      *)
CanLoad(iface) == iface \in specs /\ iface \in libs

(* LOAD_HAL, the host's first command; without a driver the host's         *)
(* LaunchMirrorDriver raises.                                              *)
LoadHal ==
  /\ phase = "start" /\ ~replaying
  /\ \/ /\ CanLoad(Loaded)
        /\ phase' = "serving"
        /\ hal_driver_map_' = RegisterDriver(Loaded, Nullptr, "service")
        /\ mirrors' = <<[driver_id |-> RegisteredId(Loaded, Nullptr), iface |-> Loaded,
                         uid |-> NoUid, obj |-> Service]>>
     \/ phase' = "ended" /\ UNCHANGED <<hal_driver_map_, mirrors>>
  /\ UNCHANGED <<fixed, heap, returned, resources, call, uid, asked>>

(* ReplayTrace: a function of the trace is called with the first driver    *)
(* for its interface, which is loaded if there is none; the replay ends    *)
(* without one.                                                            *)
Replay(iface) ==
  LET found == FindDriverIdInternal("hidl", iface, AnyPointer)
      id == IF found # kInvalidDriverId THEN found ELSE RegisteredId(iface, Nullptr)
  IN  /\ phase # "ended" /\ replaying /\ call.pc = "idle"
      /\ \/ /\ found # kInvalidDriverId
            /\ phase' = "serving"
            /\ call' = Calling(id, Root)
            /\ UNCHANGED hal_driver_map_
         \/ /\ found = kInvalidDriverId /\ CanLoad(iface)
            /\ phase' = "serving"
            /\ call' = Calling(id, Root)
            /\ hal_driver_map_' = RegisterDriver(iface, Nullptr, "service")
         \/ /\ found = kInvalidDriverId
            /\ phase' = "ended"
            /\ UNCHANGED <<call, hal_driver_map_>>
      /\ UNCHANGED <<fixed, heap, returned, resources, host>>

(* SetCallerUid *)
SetCallerUid(m, u) ==
  /\ phase = "serving" /\ call.pc = "idle"
  /\ mirrors' = [mirrors EXCEPT ![m].uid = u]
  /\ UNCHANGED <<fixed, phase, hal_driver_map_, heap, returned, resources, call, uid, asked>>

(* The agent puts a uid into every call, empty when the host gave none,    *)
(* which atoi reads as root's.  setuid of a process that is not root's any *)
(* more fails, which nothing notices.                                      *)
CallerUid(m) == IF mirrors[m].uid = NoUid THEN Root ELSE mirrors[m].uid
KeepUid(u) == uid
SetUid(u) == IF uid = Root THEN u ELSE uid

(* RemoteCall up to the driver's process: CALL_FUNCTION.                   *)
RemoteCall(m) ==
  /\ phase = "serving" /\ call.pc = "idle"
  /\ uid' = SetUid(CallerUid(m))
  /\ asked' = asked \cup ({CallerUid(m)} \ {Root})
  /\ call' = Calling(mirrors[m].driver_id, CallerUid(m))
  /\ UNCHANGED <<fixed, phase, hal_driver_map_, heap, returned, resources, mirrors>>

(* kErrorString: the host's CallApi raises, the replay ends.               *)
Error ==
  /\ call' = Idle
  /\ phase' = IF replaying THEN "ended" ELSE phase

(* PreprocessHidlHalFunctionCallArgs: a resource must be registered.  The  *)
(* specification made for an interface has no class: no driver is found    *)
(* for it and the argument stays as it is.                                 *)
PreprocessHidlHalFunctionCallArgs(arg) ==
  \/ arg.type = "interface"
  \/ arg.type \in ResourceTypes /\ arg.id = -1
  \/ arg.type \in ResourceTypes /\ arg.id \in 0..(resources[arg.type] - 1)

(* CallFunction up to the HAL's function, with at most one argument of a   *)
(* special type.                                                           *)
CallFunction ==
  /\ call.pc = "find"
  /\ \/ /\ GetDriverWithCallMsg(call.driver_id) = "null"
        /\ Error
     \/ /\ GetDriverWithCallMsg(call.driver_id) # "null"
        /\ \E arg \in Args : ~PreprocessHidlHalFunctionCallArgs(arg)
        /\ Error
     \/ /\ GetDriverWithCallMsg(call.driver_id) # "null"
        /\ call' = [call EXCEPT !.pc = "hal"]
        /\ UNCHANGED phase
  /\ UNCHANGED <<fixed, hal_driver_map_, heap, returned, resources, host>>

(* The driver does not know the function.                                  *)
CallFails ==
  /\ call.pc = "hal" /\ call.pending = <<>>
  /\ Error
  /\ UNCHANGED <<fixed, hal_driver_map_, heap, returned, resources, host>>

Result(type, iface, pt, obj) ==
  [type |-> type, iface |-> iface, pt |-> pt, obj |-> obj, n |-> returned, id |-> kInvalidDriverId]
AddResult(r) ==
  /\ call.pc = "hal" /\ Len(call.pending) < MaxResults /\ returned < MaxReturned
  /\ call' = [call EXCEPT !.pending = Append(@, r)]
  /\ returned' = returned + 1
  /\ UNCHANGED <<fixed, phase, hal_driver_map_, resources, host>>

(* The reference that the driver's code takes on a result: incStrong.      *)
IncStrong(rs) == rs \cup {Ref("result", returned)}

(* The function returns an object that it makes, at an address that is     *)
(* free, and may keep a reference of its own, as a passthrough HAL does;   *)
(* an object that exists; nullptr; or a resource.                          *)
ReturnNewObject(iface, a) ==
  /\ ~Alive(a) /\ born < MaxObjects
  /\ born' = born + 1 /\ object' = [object EXCEPT ![a] = born + 1]
  /\ \E keeps \in {{}, {Ref("hal", 0)}} : refs' = [refs EXCEPT ![a] = IncStrong(keeps)]
  /\ AddResult(Result("interface", iface, a, born + 1))
ReturnObject(iface, a) ==
  /\ Alive(a)
  /\ refs' = [refs EXCEPT ![a] = IncStrong(@)]
  /\ AddResult(Result("interface", iface, a, object[a]))
  /\ UNCHANGED <<object, born>>
ReturnNullptr(iface) ==
  /\ AddResult(Result("interface", iface, Nullptr, NoObject))
  /\ UNCHANGED heap
ReturnResource(type) ==
  /\ AddResult(Result(type, NoInterface, Nullptr, NoObject))
  /\ UNCHANGED heap

FunctionReturns ==
  /\ call.pc = "hal"
  /\ call' = [call EXCEPT !.pc = "set"]
  /\ UNCHANGED <<fixed, phase, hal_driver_map_, heap, returned, resources, host>>

(* The generated ...with_arg: the driver takes a reference of its own and  *)
(* gives the result's back (decStrong).  A driver that RegisterDriver did  *)
(* not take is deleted, and its reference with it.                         *)
DriverReference(r) == IF IsNew(r.iface, r.pt) THEN {Ref("driver", Len(hal_driver_map_))} ELSE {}
CreateDriverOnly(rs, r) ==
  IF r.iface \in libs THEN rs \ {Ref("result", r.n)} ELSE rs
CreateDriverKeepingBoth(rs, r) ==
  IF r.iface \in libs THEN rs \cup DriverReference(r) ELSE rs
CreateDriver(rs, r) ==
  IF r.iface \in libs THEN (rs \ {Ref("result", r.n)}) \cup DriverReference(r) ELSE rs

(* SetHidlHalFunctionCallResults for the next result.  A driver is         *)
(* registered even if none could be made; without a specification the call *)
(* fails, and the drivers of the results before stay registered.  (The     *)
(* host's mirrors of resources are in ResourceManager: here a resource is  *)
(* only counted.)                                                          *)
NextResult == Head(call.pending)
ResultIsSet(id) ==
  call' = [call EXCEPT !.pending = Tail(@), !.set = Append(@, [NextResult EXCEPT !.id = id])]
SetInterface ==
  /\ NextResult.type = "interface" /\ NextResult.pt # Nullptr /\ NextResult.iface \in specs
  /\ refs' = [refs EXCEPT ![NextResult.pt] = CreateDriver(@, NextResult)]
  /\ hal_driver_map_' = RegisterDriver(NextResult.iface, NextResult.pt,
                                       IF NextResult.iface \in libs THEN "proxy" ELSE "null")
  /\ ResultIsSet(RegisteredId(NextResult.iface, NextResult.pt))
  /\ UNCHANGED <<phase, resources>>
SetInterfaceFails ==
  /\ NextResult.type = "interface" /\ NextResult.pt # Nullptr /\ NextResult.iface \notin specs
  /\ Error
  /\ UNCHANGED <<hal_driver_map_, refs, resources>>
SetNullptr ==
  /\ NextResult.type = "interface" /\ NextResult.pt = Nullptr
  /\ ResultIsSet(kInvalidDriverId)
  /\ UNCHANGED <<phase, hal_driver_map_, refs, resources>>
SetResource ==
  /\ NextResult.type \in ResourceTypes
  /\ call' = [call EXCEPT !.pending = Tail(@)]
  /\ resources' = [resources EXCEPT ![NextResult.type] = @ + 1]
  /\ UNCHANGED <<phase, hal_driver_map_, refs>>
SetHidlHalFunctionCallResults ==
  /\ call.pc = "set" /\ call.pending # <<>>
  /\ SetInterface \/ SetInterfaceFails \/ SetNullptr \/ SetResource
  /\ UNCHANGED <<fixed, object, born, returned, host>>

(* GetHalMirrorForInterface: `if not driver_id', which 0 is, too, takes    *)
(* the id of the mirror that made the call.                                *)
MirrorDriverIdOfCaller(id) == IF id =< 0 THEN call.driver_id ELSE id
MirrorDriverId(id) == IF id = 0 THEN call.driver_id ELSE id

(* The results are sent; RemoteCall makes a mirror of every interface,     *)
(* with no uid.  A null interface is made None and then a mirror, too.     *)
HalMirror(r) == [driver_id |-> MirrorDriverId(r.id), iface |-> r.iface, uid |-> NoUid, obj |-> r.obj]
NewMirrors == [k \in 1..Len(call.set) |-> HalMirror(call.set[k])]
CallReturns ==
  /\ call.pc = "set" /\ call.pending = <<>>
  /\ call' = Idle
  /\ mirrors' = IF replaying THEN mirrors ELSE mirrors \o NewMirrors
  /\ UNCHANGED <<fixed, phase, hal_driver_map_, heap, returned, resources, uid, asked>>

(* External: a HAL in the driver's process drops its reference at any time. *)
HalReleases(a) ==
  /\ Ref("hal", 0) \in refs[a]
  /\ refs' = [refs EXCEPT ![a] = @ \ {Ref("hal", 0)}]
  /\ UNCHANGED <<fixed, phase, hal_driver_map_, object, born, returned, resources, call, host>>

Next ==
  \/ LoadHal
  \/ \E i \in Interfaces : Replay(i)
  \/ \E m \in DOMAIN mirrors : RemoteCall(m) \/ \E u \in Uids : SetCallerUid(m, u)
  \/ CallFunction \/ CallFails \/ FunctionReturns
  \/ \E i \in Interfaces, a \in Addrs : ReturnNewObject(i, a) \/ ReturnObject(i, a)
  \/ \E i \in Interfaces : ReturnNullptr(i)
  \/ \E t \in ResourceTypes : ReturnResource(t)
  \/ SetHidlHalFunctionCallResults \/ CallReturns
  \/ \E a \in Addrs : HalReleases(a)

Spec == Init /\ [][Next]_vars
-----------------------------------------------------------------------------
Drivers == [iface : Interfaces, pt : Addrs \cup {Nullptr}, driver : {"service", "proxy", "null"}]
References == [by : {"hal", "result", "driver"}, n : Nat]
Results == [type : ResourceTypes \cup {"interface"}, iface : Interfaces \cup {NoInterface},
            pt : Addrs \cup {Nullptr}, obj : Int, n : Nat, id : Int]
KnownIds == -1..(Len(hal_driver_map_) - 1)
Calls == [pc : {"idle", "find", "hal", "set"}, driver_id : KnownIds, uid : Uids \cup {Root},
          pending : Seq(Results), set : Seq(Results)]
Mirrors == [driver_id : KnownIds, iface : Interfaces, uid : Uids \cup {NoUid}, obj : Int]

(* The types of the manager's and the mirrors' state; every id that a      *)
(* mirror or a call carries is kInvalidDriverId or a registered driver's.  *)
TypeOK ==
  /\ specs \subseteq Interfaces /\ libs \subseteq Interfaces /\ replaying \in BOOLEAN
  /\ phase \in {"start", "serving", "ended"}
  /\ hal_driver_map_ \in Seq(Drivers)
  /\ refs \in [Addrs -> SUBSET References] /\ object \in [Addrs -> Int] /\ born \in Nat
  /\ returned \in Nat /\ resources \in [ResourceTypes -> Nat]
  /\ call \in Calls /\ mirrors \in Seq(Mirrors)
  /\ uid \in Uids \cup {Root} /\ asked \subseteq Uids

Ids == 0..(Len(hal_driver_map_) - 1)
Entry(id) == hal_driver_map_[id + 1]
Reaches(id, obj) ==
  /\ Entry(id).driver = "service" => obj = Service
  /\ Entry(id).driver = "proxy" => Alive(Entry(id).pt) /\ object[Entry(id).pt] = obj

(* A call through a mirror reaches the object that the mirror was made     *)
(* for, or no driver at all: the id names a driver for the mirror's        *)
(* interface whose object is still alive and has not been replaced by      *)
(* another one at the same address (FindDriverIdInternal tells drivers     *)
(* apart by the address, and no driver is ever removed), and a mirror of a *)
(* null interface names no driver, in spite of the id 0 that               *)
(* GetHalMirrorForInterface replaces.                                      *)
MirrorReachesItsObject ==
  \A m \in DOMAIN mirrors :
    LET id == mirrors[m].driver_id
    IN  id \in Ids => Entry(id).iface = mirrors[m].iface /\ Reaches(id, mirrors[m].obj)

(* The same for the interfaces of a call whose results are being set, of   *)
(* the host and of the replayer: between the HAL's return and the answer   *)
(* the HAL may drop its references.                                        *)
ResultReachesItsObject ==
  /\ \A k \in DOMAIN call.pending : call.pending[k].pt # Nullptr =>
       Alive(call.pending[k].pt) /\ object[call.pending[k].pt] = call.pending[k].obj
  /\ \A k \in DOMAIN call.set : call.set[k].id \in Ids =>
       Entry(call.set[k].id).iface = call.set[k].iface /\ Reaches(call.set[k].id, call.set[k].obj)

(* The drivers, and the results still to be set, that hold the address.    *)
Owners(a) ==
  {Ref("driver", id) : id \in {d \in Ids : Entry(d).pt = a}}
    \cup {Ref("result", call.pending[k].n) : k \in {j \in DOMAIN call.pending : call.pending[j].pt = a}}

(* As long as every interface has a specification and a library, the       *)
(* references to an object are those of its drivers, of results that are   *)
(* still to be set and of the HAL: incStrong in the result is matched by   *)
(* decStrong or by the driver's deletion, also when the object is          *)
(* returned twice.                                                         *)
ReferencesAreOwned ==
  specs = Interfaces /\ libs = Interfaces =>
    \A a \in Addrs : refs[a] \ {Ref("hal", 0)} = Owners(a)

(* As long as calls were made for one uid besides root's, a call with that *)
(* uid runs as that user, whatever calls came between (ProcessOneCommand   *)
(* sets the uid before each call, and never back).                         *)
CallRunsAsCaller == call.pc # "idle" /\ asked \subseteq {call.uid} => uid = call.uid
=============================================================================
