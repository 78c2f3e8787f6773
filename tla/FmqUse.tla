-------------------------------- MODULE FmqUse -------------------------------
(***************************************************************************)
(* Tests use queue mirrors of one session in any order: they create        *)
(* queues, attach further mirrors to them, write and read batches.  The    *)
(* items are the numbers 1, 2, ... in the order of the writes of a queue.  *)
(***************************************************************************)
EXTENDS ResourceMirrors

CONSTANTS
  Sizes,        \* bound: sizes of the queues
  MaxItems,     \* bound: items written to a queue
  MaxRings,     \* bound: queues that do not share a ring
  MaxMirrored   \* bound: mirrors

ASSUME FmqSizes == Sizes \subseteq Nat \ {0}

VARIABLES
  fmqs,         \* the session
  mir,          \* the mirrors, in the order of their creation
  list,         \* the list the test passes to read
  sent,         \* history: number of items written, per ring
  got,          \* history: items read, per queue object
  delivered     \* history: items read from a synchronized ring, in the order of the reads

fmqVars == <<fmqs, mir, list, sent, got, delivered>>

FmqInit == fmqs = NoSession /\ mir = <<>> /\ list = <<>> /\ sent = <<>> /\ got = <<>> /\ delivered = <<>>

RingIdx(i) == fmqs.fmq[i].ring

(* InitFmq without and with an existing queue. *)
NewQueue(sync, size) ==
  LET a == _create(fmqs, -1, size, FALSE, TRUE)
  IN  /\ Len(mir) < MaxMirrored /\ Len(fmqs.ring) < MaxRings /\ fmqs.alive
      /\ fmqs' = a.d /\ mir' = Append(mir, FmqMirror("uint16_t", sync, a.r[1]))
      /\ sent' = Append(sent, 0) /\ got' = Append(got, <<>>) /\ delivered' = Append(delivered, <<>>)
      /\ UNCHANGED list

AttachQueue(i, reset_pointers) ==
  LET a == _create(fmqs, mir[i].id, 0, FALSE, reset_pointers)
  IN  /\ Len(mir) < MaxMirrored /\ fmqs.alive
      /\ fmqs' = a.d /\ mir' = Append(mir, FmqMirror(mir[i].type, mir[i].sync, a.r[1]))
      /\ got' = Append(got, <<>>)
      /\ UNCHANGED <<sent, list, delivered>>

WriteItems(i, n) ==
  LET k == RingIdx(i)
      a == write(fmqs, mir[i], [j \in 1..n |-> sent[k] + j], n, FALSE)
  IN  /\ sent[k] + n <= MaxItems
      /\ fmqs' = a.d
      /\ sent' = IF a.r = <<TRUE>> THEN [sent EXCEPT ![k] = @ + n] ELSE sent
      /\ UNCHANGED <<mir, list, got, delivered>>

ReadItems(i, n) ==
  LET a == read(fmqs, mir[i], n, list)
  IN  /\ fmqs' = a.d /\ list' = a.data
      /\ got' = IF a.r = <<TRUE>> THEN [got EXCEPT ![i] = @ \o a.data] ELSE got
      /\ delivered' = IF a.r = <<TRUE>> /\ mir[i].sync THEN [delivered EXCEPT ![RingIdx(i)] = @ \o a.data]
                       ELSE delivered
      /\ UNCHANGED <<mir, sent>>

(* The driver's process ends. *)
SessionEnds == fmqs.alive /\ fmqs' = Dead(fmqs) /\ UNCHANGED <<mir, list, sent, got, delivered>>

FmqNext ==
  \/ \E sync \in BOOLEAN, size \in Sizes : NewQueue(sync, size)
  \/ \E i \in DOMAIN mir, reset \in BOOLEAN : AttachQueue(i, reset)
  \/ \E i \in DOMAIN mir, n \in 1..2 : WriteItems(i, n)
  \/ \E i \in DOMAIN mir, n \in 1..2 : ReadItems(i, n)
  \/ SessionEnds

FmqSpec == FmqInit /\ [][FmqNext]_fmqVars
-----------------------------------------------------------------------------
Increasing(s) == \A i, j \in DOMAIN s : i < j => s[i] < s[j]

(* What read delivered: a mirror never reads an item twice or out of       *)
(* order, also when the writer of an unsynchronized queue overtook it and  *)
(* when another mirror reset the pointers; two mirrors of a synchronized   *)
(* queue never read the same item; and the caller's list holds only the    *)
(* items of the last read.                                                 *)
ReadsAreInOrder ==
  /\ \A i \in DOMAIN got : Increasing(got[i])
  /\ \A i, j \in DOMAIN got :
       i # j /\ RingIdx(i) = RingIdx(j) /\ mir[i].sync =>
         {got[i][x] : x \in DOMAIN got[i]} \cap {got[j][x] : x \in DOMAIN got[j]} = {}
  /\ Len(list) <= 2 /\ \A x, y \in DOMAIN list : x < y => list[y] = list[x] + 1

SyncRing(k) == \E i \in DOMAIN mir : RingIdx(i) = k /\ mir[i].sync
Waiting(r) == [n \in 1..(r.wr - r.rd) |-> r.buf[(r.rd + n - 1) % r.cap]]

(* A synchronized ring as the queue it implements; an unsynchronized one   *)
(* promises nothing of the kind and stays empty.                           *)
AsFifo(k) == [size |-> fmqs.ring[k].cap,
              items |-> IF SyncRing(k) THEN Waiting(fmqs.ring[k]) ELSE <<>>,
              out |-> IF SyncRing(k) THEN delivered[k] ELSE <<>>]

Fifo == INSTANCE MessageFifo WITH q <- [k \in DOMAIN fmqs.ring |-> AsFifo(k)]

(* The mirrors' write and read on a synchronized queue, ring arithmetic,   *)
(* wrap-around and reset pointers included, implement a bounded first-in,  *)
(* first-out queue.                                                        *)
QueuesAreFifos == Fifo!Spec
=============================================================================
