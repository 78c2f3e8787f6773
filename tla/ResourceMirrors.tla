--------------------------- MODULE ResourceMirrors ---------------------------
(***************************************************************************)
(* The methods of the host's resource mirrors (utils/python/mirror/        *)
(* resource_mirror.py) and what they do to the data of the session: the    *)
(* rings of the fast message queues, the shared memory regions and the     *)
(* files behind the handles.  ResourceManager models the ids and the locks *)
(* of the same driver; here the ids are those of live objects.             *)
(*                                                                         *)
(* A method takes the state d of the session and the mirror m, and returns *)
(* [d, r]: the state it leaves and its result, <<>> for None and <<v>> for *)
(* the value v.  The session serves one request at a time.                 *)
(***************************************************************************)
EXTENDS Integers, Sequences

(* alive is FALSE once the driver's process is gone.  ring: [cap, buf, wr, *)
(* rd], fmq: [ring, rd, event], region: bytes, mem: region, file: name ->  *)
(* bytes, handle: [file, mode, pos, open].                                 *)
NoSession == [alive |-> TRUE, ring |-> <<>>, fmq |-> <<>>, region |-> <<>>, mem |-> <<>>,
              file |-> [f \in {} |-> <<>>], handle |-> <<>>]
SUPPORTED_SCALAR_TYPES == {"uint16_t", "uint32_t", "double_t"}

Ret(d, r) == [d |-> d, r |-> r]
-----------------------------------------------------------------------------
(* The message queue library (external).  A synchronized queue keeps both  *)
(* pointers in shared memory; each object of an unsynchronized one has a   *)
(* read pointer of its own.                                                *)
NewRing(size) == [cap |-> size, buf |-> [i \in 0..(size - 1) |-> 0], wr |-> 0, rd |-> 0]
ReadPtr(d, m) == IF m.sync THEN d.ring[d.fmq[m.id + 1].ring].rd ELSE d.fmq[m.id + 1].rd
RingOf(d, m) == d.ring[d.fmq[m.id + 1].ring]
Unread(d, m) == RingOf(d, m).wr - ReadPtr(d, m)

(* The room of a write, one slot too many. *)
RoomAndOneMore(d, m) == IF m.sync THEN RingOf(d, m).cap + 1 - Unread(d, m) ELSE RingOf(d, m).cap

(* A synchronized queue takes what fits besides the unread items.  An      *)
(* unsynchronized one overwrites what was not read, but takes nothing      *)
(* larger than itself.                                                     *)
RoomToWrite(d, m) == IF m.sync THEN RingOf(d, m).cap - Unread(d, m) ELSE RingOf(d, m).cap

RingWrite(d, m, data) ==
  LET r == RingOf(d, m)
      k == d.fmq[m.id + 1].ring
      hit(i) == {j \in 1..Len(data) : (r.wr + j - 1) % r.cap = i}
  IN  IF Len(data) > RoomToWrite(d, m) THEN Ret(d, <<FALSE>>)
      ELSE Ret([d EXCEPT !.ring[k].buf = [i \in 0..(r.cap - 1) |->
                            IF hit(i) = {} THEN r.buf[i] ELSE data[CHOOSE j \in hit(i) : TRUE]],
                         !.ring[k].wr = @ + Len(data)], <<TRUE>>)

(* A read needs n items.  A reader that the writer has overtaken starts    *)
(* over at the write pointer and fails once.                               *)
RingRead(d, m, n) ==
  LET r == RingOf(d, m)
      p == ReadPtr(d, m)
      moved(q) == IF m.sync THEN [d EXCEPT !.ring[d.fmq[m.id + 1].ring].rd = q]
                  ELSE [d EXCEPT !.fmq[m.id + 1].rd = q]
      overflow == ~m.sync /\ (r.wr - p > r.cap \/ r.wr < p)
  IN  IF overflow THEN [d |-> moved(r.wr), r |-> <<FALSE>>, data |-> <<>>]
      ELSE IF Unread(d, m) < n THEN [d |-> d, r |-> <<FALSE>>, data |-> <<>>]
      ELSE [d |-> moved(p + n), r |-> <<TRUE>>,
            data |-> [j \in 1..n |-> r.buf[(p + j - 1) % r.cap]]]

(* Another object on the ring of descriptor k, its pointers reset or not.  *)
Attach(d, k, event, reset) ==
  [d EXCEPT !.fmq = Append(@, [ring |-> k, rd |-> 0, event |-> event]),
            !.ring[k].wr = IF reset THEN 0 ELSE @, !.ring[k].rd = IF reset THEN 0 ELSE @]
-----------------------------------------------------------------------------
FmqMirror(type, sync, id) == [kind |-> "fmq", type |-> type, sync |-> sync, id |-> id]

(* _create: a new queue, or another object of the queue queue_id. *)
_create(d, queue_id, queue_size, blocking, reset_pointers) ==
  LET k == IF queue_id = -1 THEN Len(d.ring) + 1 ELSE d.fmq[queue_id + 1].ring
      event == IF queue_id = -1 THEN blocking ELSE d.fmq[queue_id + 1].event
      with == IF queue_id = -1 THEN [d EXCEPT !.ring = Append(@, NewRing(queue_size))] ELSE d
  IN  IF ~d.alive THEN Ret(d, <<-1>>)
      ELSE Ret(Attach(with, k, event, queue_id # -1 /\ reset_pointers), <<Len(d.fmq)>>)

(* Values are put into messages for a scalar type the host knows; for any  *)
(* other type the caller has to hand in messages.                          *)
_prepareWriteData(m, data, messages) == data = <<>> \/ messages \/ m.type \in SUPPORTED_SCALAR_TYPES
FirstOf(data, data_size) == SubSeq(data, 1, IF data_size < Len(data) THEN data_size ELSE Len(data))

write(d, m, data, data_size, messages) ==
  IF ~_prepareWriteData(m, FirstOf(data, data_size), messages) \/ ~d.alive THEN Ret(d, <<FALSE>>)
  ELSE RingWrite(d, m, FirstOf(data, data_size))

(* Blocking calls are refused on an unsynchronized queue and fail without  *)
(* an event flag.  When nobody else moves the pointers they time out.      *)
MayBlock(d, m) == m.sync /\ d.fmq[m.id + 1].event
writeBlocking(d, m, data, data_size) ==
  IF MayBlock(d, m) THEN write(d, m, data, data_size, FALSE) ELSE Ret(d, <<FALSE>>)

(* read fills the caller's list, which it keeps from the last read. *)
readAppends(d, m, n, list) ==
  LET a == RingRead(d, m, n)
  IN  IF ~d.alive THEN [d |-> d, r |-> <<FALSE>>, data |-> list]
      ELSE [a EXCEPT !.data = list \o a.data]

(* read empties the caller's list, and _extractReadData fills it when the  *)
(* response says success.                                                  *)
read(d, m, n, list) ==
  IF ~d.alive THEN [d |-> d, r |-> <<FALSE>>, data |-> <<>>] ELSE RingRead(d, m, n)
readBlocking(d, m, n, list) ==
  IF d.alive /\ MayBlock(d, m) THEN RingRead(d, m, n) ELSE [d |-> d, r |-> <<FALSE>>, data |-> <<>>]

(* _processUtilMethod: the number in the response, None without success.   *)
_processUtilMethod(d, n) == Ret(d, IF d.alive THEN <<n>> ELSE <<>>)
availableToWrite(d, m) == _processUtilMethod(d, RingOf(d, m).cap - Unread(d, m))
availableToRead(d, m) == _processUtilMethod(d, Unread(d, m))
getQuantumSize(d, m) == _processUtilMethod(d, CASE m.type = "uint16_t" -> 2 [] m.type = "uint32_t" -> 4 [] OTHER -> 8)
getQuantumCount(d, m) == _processUtilMethod(d, RingOf(d, m).cap)
isValid(d, m) == Ret(d, <<d.alive>>)
-----------------------------------------------------------------------------
MemoryMirror(id) == [kind |-> "memory", type |-> "none", sync |-> FALSE, id |-> id]

_allocate(d, mem_size) ==
  IF ~d.alive THEN Ret(d, <<-1>>)
  ELSE Ret([d EXCEPT !.region = Append(@, [i \in 1..mem_size |-> 0]),
                     !.mem = Append(@, Len(d.region) + 1)], <<Len(d.mem)>>)

(* read, readRange, update, updateRange and commit tell the memory service *)
(* what is about to happen; shared memory needs nothing of it.             *)
Notify(d, m) == Ret(d, <<d.alive>>)
readMemory(d, m) == Notify(d, m)
readRange(d, m) == Notify(d, m)
update(d, m) == Notify(d, m)
updateRange(d, m) == Notify(d, m)
commit(d, m) == Notify(d, m)

readBytes(d, m, length, start) ==
  Ret(d, IF d.alive THEN <<SubSeq(d.region[d.mem[m.id + 1]], start + 1, start + length)>> ELSE <<>>)

(* The bytes go to the beginning of the region whatever the offset. *)
updateBytesAtZero(d, m, data, length, start) ==
  IF ~d.alive THEN Ret(d, <<FALSE>>)
  ELSE Ret([d EXCEPT !.region[d.mem[m.id + 1]] =
              [i \in DOMAIN @ |-> IF i \in 1..length THEN data[i] ELSE @[i]]], <<TRUE>>)

updateBytes(d, m, data, length, start) ==
  IF ~d.alive THEN Ret(d, <<FALSE>>)
  ELSE Ret([d EXCEPT !.region[d.mem[m.id + 1]] =
              [i \in DOMAIN @ |-> IF i - start \in 1..length THEN data[i - start] ELSE @[i]]], <<TRUE>>)

getSize(d, m) == Ret(d, IF d.alive THEN <<Len(d.region[d.mem[m.id + 1]])>> ELSE <<-1>>)
-----------------------------------------------------------------------------
HandleMirror(id) == [kind |-> "handle", type |-> "none", sync |-> FALSE, id |-> id]
Readable == {"r", "r+", "w+", "a+", "x+"}
Writable == {"w", "a", "r+", "w+", "a+", "x", "x+"}

(* The session ends: a driver that asks for a string of length -1 dies.    *)
Dead(d) == [d EXCEPT !.alive = FALSE]

(* _createHandleForSingleFile.  Mode x is for a file that does not exist;  *)
(* on one that does the driver leaves the id unset, which reads as 0.      *)
_createHandleForSingleFile(d, filepath, mode) ==
  LET there == filepath \in DOMAIN d.file
      text == IF there /\ mode \notin {"w", "w+"} THEN d.file[filepath] ELSE <<>>
  IN  IF ~d.alive \/ (~there /\ mode \in {"r", "r+"}) THEN Ret(d, <<-1>>)
      ELSE IF there /\ mode \in {"x", "x+"} THEN Ret(d, <<0>>)
      ELSE Ret([d EXCEPT !.file = [f \in DOMAIN d.file \cup {filepath} |->
                                     IF f = filepath THEN text ELSE d.file[f]],
                         !.handle = Append(@, [file |-> filepath, mode |-> mode, pos |-> 0, open |-> TRUE])],
               <<Len(d.handle)>>)

(* read(2) at the handle's offset.  A read that fails ends the process.    *)
readFile(d, m, read_data_size) ==
  LET h == d.handle[m.id + 1]
      bytes == SubSeq(d.file[h.file], h.pos + 1,
                      IF h.pos + read_data_size < Len(d.file[h.file]) THEN h.pos + read_data_size
                      ELSE Len(d.file[h.file]))
  IN  IF ~d.alive THEN Ret(d, <<>>)
      ELSE IF ~h.open \/ h.mode \notin Readable THEN Ret(Dead(d), <<>>)
      ELSE Ret([d EXCEPT !.handle[m.id + 1].pos = @ + Len(bytes)], <<bytes>>)

(* write(2) at the offset, or at the end of the file in mode a; a hole     *)
(* before the offset reads as zeros.                                       *)
writeFile(d, m, write_data) ==
  LET h == d.handle[m.id + 1]
      old == d.file[h.file]
      at == IF h.mode \in {"a", "a+"} THEN Len(old) ELSE h.pos
      end == at + Len(write_data)
  IN  IF ~d.alive \/ ~h.open \/ h.mode \notin Writable THEN Ret(d, <<>>)
      ELSE Ret([d EXCEPT !.file[h.file] =
                  [i \in 1..(IF end > Len(old) THEN end ELSE Len(old)) |->
                     IF i - at \in 1..Len(write_data) THEN write_data[i - at]
                     ELSE IF i <= Len(old) THEN old[i] ELSE 0],
                         !.handle[m.id + 1].pos = end], <<Len(write_data)>>)

(* CleanUp of the tracker's handle mirrors deletes the handles and closes  *)
(* their files.                                                            *)
CleanUpHandles(d) ==
  IF d.alive THEN [d EXCEPT !.handle = [i \in DOMAIN @ |-> [@[i] EXCEPT !.open = FALSE]]] ELSE d
=============================================================================
