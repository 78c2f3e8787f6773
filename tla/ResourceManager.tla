--------------------------- MODULE ResourceManager ---------------------------
(***************************************************************************)
(* The resources of one driver session: VtsResourceManager with its FMQ,   *)
(* hidl_memory and hidl_handle drivers, and the mirrors the host keeps of  *)
(* them.  A session is one forked process that serves one request at a     *)
(* time, so each request, from the mirror's method to the response the     *)
(* mirror reads, is one action.                                            *)
(*                                                                         *)
(* An object (a message queue's ring, a mapped region, an open file) is a  *)
(* number; a mirror remembers, as history, the object it was created for.  *)
(***************************************************************************)
EXTENDS Integers, FiniteSets

CONSTANTS
  ScalarTypes,  \* scalar data types with an entry in func_map_
  StructTypes,  \* user-defined data types with an entry in func_map_
  OtherTypes,   \* data types without one
  Uses,         \* what the tests do besides the common calls, see UseNames
  MaxObjects,   \* bound: objects created in the session
  MaxMirrors    \* bound: mirrors the host creates

UseNames == {"struct_result", "other_type", "exclusive_mode", "failing_read",
             "wrong_argument"}

ASSUME UsesAssumption == Uses \subseteq UseNames
ASSUME BoundAssumption == MaxObjects \in Nat /\ MaxMirrors \in Nat

NoQueue == [type |-> "none", sync |-> FALSE, obj |-> 0]
Released == [fd |-> -1, obj |-> 0]     \* what release() leaves in the handle map
NoScalar == "no scalar type"           \* scalar_type() of a queue of structs

VARIABLES
  fmq_map_,          \* id -> [type, sync, obj]
  fmq_mutex_held,    \* map_mutex_ of the FMQ driver is locked and nobody will unlock it
  hidl_memory_map_,  \* id -> obj
  hidl_handle_map_,  \* id -> [fd, obj]
  open_fds,          \* file descriptors of handles that are open in the process
  objects,           \* objects created so far
  session,           \* "ready", "stuck" in map_mutex_.lock(), or "crashed"
  mirrors,           \* host: [kind, id, type, sync, obj, cleaned]
  used               \* history: the Uses that were made

managerVars == <<fmq_map_, fmq_mutex_held, hidl_memory_map_, hidl_handle_map_, open_fds,
          objects, session, mirrors, used>>
queues == <<fmq_map_, fmq_mutex_held>>
memories == <<hidl_memory_map_>>
handles == <<hidl_handle_map_, open_fds>>

Types == ScalarTypes \cup StructTypes \cup OtherTypes
Supported == ScalarTypes \cup StructTypes
-----------------------------------------------------------------------------
(* new_id = map.size() *)
NewId(map) == Cardinality(DOMAIN map)

(* map.emplace(id, x) keeps an entry that is already there. *)
Emplace(map, x) ==
  [i \in DOMAIN map \cup {NewId(map)} |-> IF i \in DOMAIN map THEN map[i] ELSE x]

FindQueue(type, sync, id) ==
  IF id \in DOMAIN fmq_map_ /\ fmq_map_[id].type = type /\ fmq_map_[id].sync = sync
  THEN fmq_map_[id] ELSE NoQueue

(* FindQueue and InsertQueue lock map_mutex_.  A request that finds it     *)
(* locked never returns; one whose FindQueue fails leaves it locked.       *)
LockAndFind(type, sync, id) ==
  /\ session' = IF fmq_mutex_held THEN "stuck" ELSE session
  /\ fmq_mutex_held' = (fmq_mutex_held \/ FindQueue(type, sync, id) = NoQueue)

Mirror(kind, id, type, sync, obj) ==
  [kind |-> kind, id |-> id, type |-> type, sync |-> sync, obj |-> obj, cleaned |-> FALSE]

(* A mirror is made unless the id the host reads is -1.  A response whose  *)
(* id field was never set reads as 0.                                      *)
AddMirror(kind, id, type, sync, obj) ==
  mirrors' = mirrors \cup {Mirror(kind, id, type, sync, obj)}

(* The test makes one of the Uses. *)
Use(u) == u \in Uses /\ used' = used \cup {u}
UseIf(cond, u) == IF cond THEN Use(u) ELSE UNCHANGED used

Room == objects < MaxObjects /\ Cardinality(mirrors) < MaxMirrors
Of(kind) == {r \in mirrors : r.kind = kind /\ ~r.cleaned}

(* The lowest descriptor that is not open, as open(2) returns it. *)
FreeFd == CHOOSE fd \in 0..Cardinality(open_fds) :
            fd \notin open_fds /\ \A g \in 0..(fd - 1) : g \in open_fds
-----------------------------------------------------------------------------
ManagerInit ==
  /\ fmq_map_ = [i \in {} |-> NoQueue]
  /\ fmq_mutex_held = FALSE
  /\ hidl_memory_map_ = [i \in {} |-> 0]
  /\ hidl_handle_map_ = [i \in {} |-> Released]
  /\ open_fds = {}
  /\ objects = 0
  /\ session = "ready"
  /\ mirrors = {}
  /\ used = {}

(* A queue object of this type is put into the map for the given ring.     *)
InsertQueue(type, sync, obj) ==
  /\ session' = IF fmq_mutex_held THEN "stuck" ELSE session
  /\ fmq_map_' = IF fmq_mutex_held THEN fmq_map_
                 ELSE Emplace(fmq_map_, [type |-> type, sync |-> sync, obj |-> obj])
  /\ mirrors' = IF fmq_mutex_held THEN mirrors
                ELSE mirrors \cup {Mirror("fmq", NewId(fmq_map_), type, sync, obj)}
  /\ UNCHANGED fmq_mutex_held

(* InitFmq without an existing queue: FMQ_CREATE makes a new ring.  A type *)
(* that func_map_ lacks is answered with success = false and no queue_id.  *)
InitFmq(type, sync) ==
  /\ session = "ready" /\ Room
  /\ UseIf(type \in OtherTypes, "other_type")
  /\ \/ /\ type \in Supported
        /\ InsertQueue(type, sync, objects + 1)
        /\ objects' = objects + 1
     \/ /\ type \in OtherTypes
        /\ AddMirror("fmq", 0, type, sync, 0)
        /\ UNCHANGED <<queues, objects, session>>
  /\ UNCHANGED <<memories, handles>>

(* InitFmq with an existing queue: the new object shares its ring.  The    *)
(* result of FindQueue is used without a test for nullptr.                 *)
InitFmqFromExisting(r) ==
  LET found == FindQueue(r.type, r.sync, r.id)
  IN  /\ session = "ready" /\ Room
      /\ r.type \in Supported
      /\ \/ /\ ~fmq_mutex_held /\ found # NoQueue
            /\ InsertQueue(r.type, r.sync, found.obj)
         \/ /\ fmq_mutex_held \/ found = NoQueue
            /\ session' = IF fmq_mutex_held THEN "stuck" ELSE "crashed"
            /\ UNCHANGED <<queues, mirrors>>
      /\ UNCHANGED <<objects, memories, handles, used>>

(* A HAL call returns a queue: RegisterFmq looks its scalar_type() up,     *)
(* which is empty for a queue of structs, while the host's mirror takes    *)
(* the predefined type.                                                    *)
RegisterFmq(type, sync) ==
  LET data_type == IF type \in StructTypes THEN NoScalar ELSE type
  IN  /\ session = "ready" /\ Room
      /\ UseIf(type \in StructTypes, "struct_result")
      /\ type \in Supported
      /\ \/ /\ data_type \in Supported
            /\ InsertQueue(type, sync, objects + 1)
         \/ /\ data_type \notin Supported
            /\ AddMirror("fmq", 0, type, sync, objects + 1)
            /\ UNCHANGED <<queues, session>>
      /\ objects' = objects + 1
      /\ UNCHANGED <<memories, handles>>

(* A read, write or query through a mirror.  Blocking calls on an          *)
(* unsynchronized queue are refused before the queue is looked up.         *)
FmqOp(r) ==
  /\ session = "ready"
  /\ r.type \in Supported
  /\ LockAndFind(r.type, r.sync, r.id)
  /\ UNCHANGED <<fmq_map_, objects, mirrors, memories, handles, used>>

(* A queue is passed to a HAL call: GetQueueDescAddress looks it up by the *)
(* type and flavor the test put into the argument.                         *)
GetQueueDescAddress(r, type, sync) ==
  /\ session = "ready"
  /\ UseIf(<<type, sync>> # <<r.type, r.sync>>, "wrong_argument")
  /\ type \in ScalarTypes
  /\ LockAndFind(type, sync, r.id)
  /\ UNCHANGED <<fmq_map_, objects, mirrors, memories, handles>>
-----------------------------------------------------------------------------
(* Allocate, or RegisterHidlMemory for a region a HAL call returned.  When *)
(* the allocation or the mapping fails the id is -1 and no mirror is made. *)
NewHidlMemory ==
  /\ session = "ready" /\ Room
  /\ hidl_memory_map_' = Emplace(hidl_memory_map_, objects + 1)
  /\ AddMirror("memory", NewId(hidl_memory_map_), "none", FALSE, objects + 1)
  /\ objects' = objects + 1
  /\ UNCHANGED <<queues, handles, session, used>>

(* CreateFileHandle once the mode was accepted, with nothing in int_val;   *)
(* open(2) may fail, which is answered with -1.                            *)
CreateFileHandle ==
  /\ open_fds' = open_fds \cup {FreeFd}
  /\ hidl_handle_map_' = Emplace(hidl_handle_map_, [fd |-> FreeFd, obj |-> objects + 1])
  /\ AddMirror("handle", NewId(hidl_handle_map_), "none", FALSE, objects + 1)
  /\ objects' = objects + 1
  /\ UNCHANGED session

(* HANDLE_PROTO_CREATE_FILE.  Mode x on a file that exists leaves the      *)
(* switch before new_handle_id is set.                                     *)
InitHidlHandleForSingleFile(exclusive) ==
  /\ session = "ready" /\ Room
  /\ UseIf(exclusive, "exclusive_mode")
  /\ \/ /\ ~exclusive
        /\ CreateFileHandle
     \/ /\ exclusive
        /\ AddMirror("handle", 0, "none", FALSE, 0)
        /\ UNCHANGED <<handles, objects, session>>
  /\ UNCHANGED <<queues, memories>>

(* RegisterHidlHandle: the driver takes over a handle, and its descriptor, *)
(* that a HAL call returned.                                               *)
RegisterHidlHandle ==
  /\ session = "ready" /\ Room
  /\ CreateFileHandle
  /\ UNCHANGED <<queues, memories, used>>

(* Reading through a handle that is gone, or a read(2) that fails, makes a *)
(* string of length -1, which ends the process.                            *)
ReadFile(r) ==
  /\ session = "ready"
  /\ Use("failing_read")
  /\ session' = "crashed"
  /\ UNCHANGED <<queues, memories, handles, objects, mirrors>>

(* The map entry is erased together with the object. *)
UnregisterHidlHandleErases(r) ==
  LET h == IF r.id \in DOMAIN hidl_handle_map_ THEN hidl_handle_map_[r.id] ELSE Released
  IN  /\ session = "ready"
      /\ mirrors' = (mirrors \ {r}) \cup {[r EXCEPT !.cleaned = TRUE]}
      /\ open_fds' = open_fds \ {h.fd}
      /\ hidl_handle_map_' = [i \in DOMAIN hidl_handle_map_ \ {r.id} |-> hidl_handle_map_[i]]
      /\ UNCHANGED <<queues, memories, objects, session, used>>

(* CleanUp of a handle mirror: HANDLE_PROTO_DELETE releases the pointer    *)
(* and closes the descriptor; the empty entry keeps its id in use.         *)
UnregisterHidlHandle(r) ==
  /\ session = "ready"
  /\ mirrors' = (mirrors \ {r}) \cup {[r EXCEPT !.cleaned = TRUE]}
  /\ IF r.id \in DOMAIN hidl_handle_map_
     THEN /\ open_fds' = open_fds \ {hidl_handle_map_[r.id].fd}
          /\ hidl_handle_map_' = [hidl_handle_map_ EXCEPT ![r.id] = Released]
     ELSE UNCHANGED handles
  /\ UNCHANGED <<queues, memories, objects, session, used>>
-----------------------------------------------------------------------------
ManagerNext ==
  \/ \E type \in Types, sync \in BOOLEAN : InitFmq(type, sync)
  \/ \E type \in Types, sync \in BOOLEAN : RegisterFmq(type, sync)
  \/ \E r \in Of("fmq") : InitFmqFromExisting(r)
  \/ \E r \in Of("fmq") : FmqOp(r)
  \/ \E r \in Of("fmq"), type \in Types, sync \in BOOLEAN : GetQueueDescAddress(r, type, sync)
  \/ NewHidlMemory
  \/ \E exclusive \in BOOLEAN : InitHidlHandleForSingleFile(exclusive)
  \/ RegisterHidlHandle
  \/ \E r \in {x \in mirrors : x.kind = "handle"} : ReadFile(r)
  \/ \E r \in {x \in mirrors : x.kind = "handle"} : UnregisterHidlHandle(r)

ManagerSpec == ManagerInit /\ [][ManagerNext]_managerVars
-----------------------------------------------------------------------------

(* Every id the host holds names the object it was handed out for: queue   *)
(* with its type, flavor and ring, memory region, open file, or the empty  *)
(* entry of a handle that was cleaned up (ids are map sizes and unordered  *)
(* emplace, so an id handed out twice would go unnoticed).                 *)
NamesItsObject(r) ==
  \/ /\ r.kind = "fmq" /\ r.id \in DOMAIN fmq_map_
     /\ fmq_map_[r.id] = [type |-> r.type, sync |-> r.sync, obj |-> r.obj]
  \/ /\ r.kind = "memory" /\ r.id \in DOMAIN hidl_memory_map_
     /\ hidl_memory_map_[r.id] = r.obj
  \/ /\ r.kind = "handle" /\ r.id \in DOMAIN hidl_handle_map_
     /\ hidl_handle_map_[r.id].obj = (IF r.cleaned THEN 0 ELSE r.obj)

(* The mirrors InitFmq, InitHidlMemory, InitHidlHandleForSingleFile and    *)
(* RemoteCall hand out refer to their own object for as long as they live, *)
(* as long as no request was answered with an id that the driver left      *)
(* unset.                                                                  *)
MirrorsNameTheirObject ==
  used \cap {"struct_result", "other_type", "exclusive_mode"} = {} =>
    \A r \in mirrors : NamesItsObject(r)

(* UnregisterHidlHandle closes what CreateFileHandle opened and nothing    *)
(* else: the open descriptors are those of the live handles, one each.     *)
DescriptorsOwnedOnce ==
  LET live == {i \in DOMAIN hidl_handle_map_ : hidl_handle_map_[i] # Released}
  IN  /\ open_fds = {hidl_handle_map_[i].fd : i \in live}
      /\ \A i, j \in live : hidl_handle_map_[i].fd = hidl_handle_map_[j].fd => i = j

(* A session whose tests keep to the common calls never has map_mutex_ of  *)
(* the FMQ driver locked for good, and still answers: FindQueue has not    *)
(* failed while it held the lock.                                          *)
SessionServes == used = {} => session = "ready" /\ ~fmq_mutex_held

(* The session serves, its ids name their objects and its descriptors have *)
(* one owner, each as far as stated above.                                 *)
ResourcesAreKept == SessionServes /\ MirrorsNameTheirObject /\ DescriptorsOwnedOnce

(* FindQueue returns nullptr for a queue that is not there or has another  *)
(* type, and the request is answered; no later request waits for ever.     *)
EveryRequestReturns == session # "stuck"
=============================================================================
