----------------------------- MODULE FmqProofs ------------------------------
(***************************************************************************)
(* Proofs about FmqUse: for queues of any size and any number of mirrors   *)
(* and items, what the mirrors of a queue read is in order, and a          *)
(* synchronized queue is a bounded first-in, first-out queue.  FmqInv      *)
(* relates the pointers of a ring to the count of all the items written:   *)
(* the last items written are where the pointer arithmetic looks for them, *)
(* and what a mirror has read lies behind its read pointer.                *)
(***************************************************************************)
EXTENDS FmqUse, TLAPS

(* The l numbers after a. *)
Line(a, l) == [n \in 1..l |-> a + n]

Bufs == UNION {[0..(c - 1) -> Nat] : c \in Sizes}
RingRecord(cap, buf, wr, rd) == [cap |-> cap, buf |-> buf, wr |-> wr, rd |-> rd]
RingRecords == [cap : Sizes, buf : Bufs, wr : Nat, rd : Nat]
ObjectRecord(ring, rd, event) == [ring |-> ring, rd |-> rd, event |-> event]
ObjectRecords == [ring : Nat, rd : Nat, event : BOOLEAN]
MirrorsOfQueues == [kind : {"fmq"}, type : {"uint16_t"}, sync : BOOLEAN, id : Nat]

(* A session with queues only. *)
Sessions ==
  [alive : BOOLEAN, ring : Seq(RingRecords), fmq : Seq(ObjectRecords), region : {<<>>}, mem : {<<>>},
   file : {NoSession.file}, handle : {<<>>}]

Rings == fmqs.ring
Objects == fmqs.fmq

FmqTypes ==
  /\ fmqs \in Sessions
  /\ mir \in Seq(MirrorsOfQueues)
  /\ sent \in Seq(Nat) /\ got \in Seq(Seq(Nat)) /\ delivered \in Seq(Seq(Nat)) /\ list \in Seq(Nat)
  /\ Len(mir) = Len(Objects) /\ Len(got) = Len(Objects)
  /\ Len(sent) = Len(Rings) /\ Len(delivered) = Len(Rings)

(* The mirrors and the queue objects correspond, and the objects of a ring *)
(* agree on its flavor.                                                    *)
MirrorsOk ==
  /\ \A i \in 1..Len(Objects) : mir[i].id = i - 1 /\ Objects[i].ring \in 1..Len(Rings)
  /\ \A i, j \in 1..Len(Objects) : Objects[i].ring = Objects[j].ring => mir[i].sync = mir[j].sync

(* The last cap of the s items written to ring r are where the pointer     *)
(* arithmetic looks for them.                                              *)
RingHolds(r, s) ==
  /\ r.buf \in [0..(r.cap - 1) -> Nat]
  /\ r.wr <= s
  /\ \A x \in Nat : x < r.wr /\ r.wr <= x + r.cap => r.buf[x % r.cap] = (s - r.wr) + x + 1

RingsHold == \A k \in 1..Len(Rings) : RingHolds(Rings[k], sent[k])

(* A synchronized ring never holds more than it has room for.              *)
Fits(r) == r.rd <= r.wr /\ r.wr <= r.rd + r.cap
SyncFits == \A i \in 1..Len(Objects) : mir[i].sync => Fits(Rings[Objects[i].ring])

(* What a mirror read is behind its read pointer, in the count of all the  *)
(* items written.                                                          *)
Pointer(i) == IF mir[i].sync THEN Rings[Objects[i].ring].rd ELSE Objects[i].rd
Ahead(i) == (sent[Objects[i].ring] - Rings[Objects[i].ring].wr) + Pointer(i)
GotBehind ==
  \A i \in 1..Len(Objects) : \A x \in 1..Len(got[i]) :
    got[i][x] <= sent[Objects[i].ring] /\ got[i][x] <= Ahead(i)

(* ReadsAreInOrder, in the terms of the above.                             *)
GotInOrder == \A i \in 1..Len(Objects) : Increasing(got[i])
GotOnce ==
  \A i, j \in 1..Len(Objects) :
    i # j /\ Objects[i].ring = Objects[j].ring /\ mir[i].sync =>
      \A x \in 1..Len(got[i]), y \in 1..Len(got[j]) : got[i][x] # got[j][y]
ListInOrder == Len(list) <= 2 /\ \A x, y \in 1..Len(list) : x < y => list[y] = list[x] + 1

FmqInv ==
  /\ FmqTypes /\ MirrorsOk /\ RingsHold /\ SyncFits
  /\ GotBehind /\ GotInOrder /\ GotOnce /\ ListInOrder
-----------------------------------------------------------------------------
(* Division and remainder, as the provers can use them.                    *)
LEMMA DivMod ==
  ASSUME NEW c \in Nat \ {0}, NEW a \in Nat
  PROVE  a = c * (a \div c) + (a % c) /\ a % c \in 0..(c - 1) /\ a \div c \in Int
  OBVIOUS

LEMMA Multiples ==
  ASSUME NEW c \in Nat \ {0}, NEW d \in Int
  PROVE  (d >= 1 => c * d >= c) /\ (d <= 0 => c * d <= 0)
  OBVIOUS

(* Two of c consecutive positions never share a slot of the ring.          *)
LEMMA SlotsDiffer ==
  ASSUME NEW c \in Nat \ {0}, NEW a \in Nat, NEW b \in Nat, a % c = b % c, a < b, b < a + c
  PROVE  FALSE
<1>1. PICK q \in Int : a = c * q + (a % c)
  BY DivMod
<1>2. PICK s \in Int : b = c * s + (a % c)
  BY DivMod
<1>3. a % c \in Nat
  BY DivMod
<1>4. b - a = c * s - c * q
  BY <1>1, <1>2, <1>3
<1>5. c * (s - q) = c * s - c * q
  OBVIOUS
<1> QED
  BY <1>4, <1>5, Multiples

LEMMA BufsHold ==
  ASSUME NEW c \in Sizes
  PROVE  [0..(c - 1) -> Nat] \subseteq Bufs
  BY Zenon DEF Bufs

LEMMA SizesArePositive ==
  ASSUME NEW c \in Sizes
  PROVE  c \in Nat \ {0}
  BY FmqSizes

(* A field of the session.                                                 *)
LEMMA RecordFields ==
  ASSUME NEW d \in Sessions
  PROVE  d.alive \in BOOLEAN /\ d.ring \in Seq(RingRecords) /\ d.fmq \in Seq(ObjectRecords)
  BY DEF Sessions

(* The session with another list of rings, of queue objects.               *)
LEMMA SetRings ==
  ASSUME NEW d \in Sessions, NEW ring \in Seq(RingRecords)
  PROVE  LET e == [d EXCEPT !.ring = ring]
         IN  e \in Sessions /\ e.ring = ring /\ e.fmq = d.fmq /\ e.alive = d.alive
  BY DEF Sessions

LEMMA SetObjects ==
  ASSUME NEW d \in Sessions, NEW fmq \in Seq(ObjectRecords)
  PROVE  LET e == [d EXCEPT !.fmq = fmq]
         IN  e \in Sessions /\ e.fmq = fmq /\ e.ring = d.ring /\ e.alive = d.alive
  BY DEF Sessions

(* The fields of the records.                                              *)
LEMMA RingFields ==
  ASSUME NEW r \in RingRecords
  PROVE  /\ r.cap \in Sizes /\ r.buf \in Bufs /\ r.wr \in Nat /\ r.rd \in Nat
         /\ \A w : [r EXCEPT !.wr = w] = RingRecord(r.cap, r.buf, w, r.rd)
         /\ \A p : [r EXCEPT !.rd = p] = RingRecord(r.cap, r.buf, r.wr, p)
         /\ \A b : [r EXCEPT !.buf = b] = RingRecord(r.cap, b, r.wr, r.rd)
         /\ r = RingRecord(r.cap, r.buf, r.wr, r.rd)
  BY DEF RingRecords, RingRecord

LEMMA RingRecordIs ==
  ASSUME NEW c \in Sizes, NEW b \in Bufs, NEW w \in Nat, NEW p \in Nat
  PROVE  /\ RingRecord(c, b, w, p) \in RingRecords
         /\ RingRecord(c, b, w, p).cap = c /\ RingRecord(c, b, w, p).buf = b
         /\ RingRecord(c, b, w, p).wr = w /\ RingRecord(c, b, w, p).rd = p
  BY DEF RingRecords, RingRecord

LEMMA ObjectFields ==
  ASSUME NEW o \in ObjectRecords
  PROVE  /\ o.ring \in Nat /\ o.rd \in Nat /\ o.event \in BOOLEAN
         /\ \A p : [o EXCEPT !.rd = p] = ObjectRecord(o.ring, p, o.event)
  BY DEF ObjectRecords, ObjectRecord

LEMMA ObjectRecordIs ==
  ASSUME NEW k \in Nat, NEW p \in Nat, NEW e \in BOOLEAN
  PROVE  /\ ObjectRecord(k, p, e) \in ObjectRecords
         /\ ObjectRecord(k, p, e).ring = k /\ ObjectRecord(k, p, e).rd = p
         /\ ObjectRecord(k, p, e).event = e
  BY DEF ObjectRecords, ObjectRecord

(* Replacing one ring or one queue object of the session.                  *)
LEMMA PutRing ==
  ASSUME NEW ring \in Seq(RingRecords), NEW k \in 1..Len(ring), NEW r \in RingRecords
  PROVE  /\ ring[k] \in RingRecords
         /\ [ring EXCEPT ![k] = r] \in Seq(RingRecords) /\ [ring EXCEPT ![k] = r][k] = r
         /\ Len([ring EXCEPT ![k] = r]) = Len(ring)
         /\ \A i \in 1..Len(ring) : i # k => [ring EXCEPT ![k] = r][i] = ring[i]
  OBVIOUS

LEMMA PutTwice ==
  ASSUME NEW ring \in Seq(RingRecords), NEW k \in 1..Len(ring), NEW r, NEW s
  PROVE  [[ring EXCEPT ![k] = r] EXCEPT ![k] = s] = [ring EXCEPT ![k] = s]
  OBVIOUS

LEMMA PutObject ==
  ASSUME NEW fmq \in Seq(ObjectRecords), NEW i \in 1..Len(fmq), NEW o \in ObjectRecords
  PROVE  /\ fmq[i] \in ObjectRecords
         /\ [fmq EXCEPT ![i] = o] \in Seq(ObjectRecords) /\ [fmq EXCEPT ![i] = o][i] = o
         /\ Len([fmq EXCEPT ![i] = o]) = Len(fmq)
  OBVIOUS

LEMMA ElementOfRing ==
  ASSUME NEW ring \in Seq(RingRecords), NEW k \in 1..Len(ring)
  PROVE  ring[k] \in RingRecords
  OBVIOUS

LEMMA ElementOfObjects ==
  ASSUME NEW fmq \in Seq(ObjectRecords), NEW i \in 1..Len(fmq)
  PROVE  fmq[i] \in ObjectRecords
  OBVIOUS

(* What a request answers.                                                 *)
LEMMA Answer ==
  ASSUME NEW a, NEW e, NEW x, NEW y, a = [d |-> e, r |-> x, data |-> y]
  PROVE  a.d = e /\ a.r = x /\ a.data = y
  BY Zenon

LEMMA Sum ==
  ASSUME NEW a \in Nat, NEW b \in Nat
  PROVE  a + b \in Nat
  OBVIOUS

(* Another object on ring k.                                               *)
LEMMA AttachIs ==
  ASSUME NEW d \in Sessions, NEW k \in 1..Len(d.ring), NEW event \in BOOLEAN, NEW reset \in BOOLEAN
  PROVE  LET a == Attach(d, k, event, reset)
             r == d.ring[k]
         IN  /\ a \in Sessions /\ a.alive = d.alive
             /\ a.fmq = Append(d.fmq, ObjectRecord(k, 0, event))
             /\ a.ring = [d.ring EXCEPT ![k] = IF reset THEN RingRecord(r.cap, r.buf, 0, 0) ELSE r]
<1> DEFINE r == d.ring[k]
           w == IF reset THEN 0 ELSE r.wr
           p == IF reset THEN 0 ELSE r.rd
           d1 == [d EXCEPT !.fmq = Append(d.fmq, ObjectRecord(k, 0, event))]
           g1 == [d.ring EXCEPT ![k] = RingRecord(r.cap, r.buf, w, r.rd)]
           d2 == [d1 EXCEPT !.ring = g1]
           g2 == [d.ring EXCEPT ![k] = RingRecord(r.cap, r.buf, w, p)]
           d3 == [d2 EXCEPT !.ring = g2]
<1>1. d.ring \in Seq(RingRecords) /\ d.fmq \in Seq(ObjectRecords)
  BY RecordFields, Zenon
<1>2. r \in RingRecords
  BY <1>1
<1>3. r.cap \in Sizes /\ r.buf \in Bufs /\ w \in Nat /\ p \in Nat /\ r.rd \in Nat
  BY <1>2, RingFields
<1>4. RingRecord(r.cap, r.buf, w, r.rd) \in RingRecords /\ RingRecord(r.cap, r.buf, w, p) \in RingRecords
  BY <1>3, RingRecordIs, Zenon
<1>5. g1 \in Seq(RingRecords) /\ g2 \in Seq(RingRecords)
  BY <1>1, <1>4
<1>6. Append(d.fmq, ObjectRecord(k, 0, event)) \in Seq(ObjectRecords)
  BY <1>1, ObjectRecordIs
<1>7. d1 \in Sessions /\ d1.alive = d.alive /\ d1.ring = d.ring
      /\ d1.fmq = Append(d.fmq, ObjectRecord(k, 0, event))
  <2> DEFINE f == Append(d.fmq, ObjectRecord(k, 0, event))
  <2>1. f \in Seq(ObjectRecords)
    BY <1>6
  <2> HIDE DEF f
  <2>2. [d EXCEPT !.fmq = f] \in Sessions /\ [d EXCEPT !.fmq = f].alive = d.alive
        /\ [d EXCEPT !.fmq = f].ring = d.ring /\ [d EXCEPT !.fmq = f].fmq = f
    BY <2>1, SetObjects, Zenon
  <2> QED  BY <2>2, Zenon DEF f
<1>8. d2 \in Sessions /\ d2.alive = d.alive /\ d2.ring = g1
      /\ d2.fmq = Append(d.fmq, ObjectRecord(k, 0, event))
  <2> HIDE DEF d1, g1
  <2> QED  BY <1>5, <1>7, SetRings, Zenon
<1>9. d3 \in Sessions /\ d3.alive = d.alive /\ d3.ring = g2
      /\ d3.fmq = Append(d.fmq, ObjectRecord(k, 0, event))
  <2> HIDE DEF d2, g2
  <2> QED  BY <1>5, <1>8, SetRings, Zenon
<1>10. [d1.ring EXCEPT ![k].wr = w] = g1
  <2>1. [r EXCEPT !.wr = w] = RingRecord(r.cap, r.buf, w, r.rd)
    BY <1>2, RingFields, Zenon
  <2>2. [d1.ring EXCEPT ![k].wr = w] = [d.ring EXCEPT ![k] = [r EXCEPT !.wr = w]]
    BY <1>7, Zenon
  <2> QED  BY <2>1, <2>2, Zenon
<1>11. [d2.ring EXCEPT ![k].rd = p] = g2
  <2>1. g1[k] = RingRecord(r.cap, r.buf, w, r.rd)
    BY <1>1
  <2>2. [g1[k] EXCEPT !.rd = p] = RingRecord(r.cap, r.buf, w, p)
    BY <2>1, SMTT(40) DEF RingRecord
  <2>3. [g1 EXCEPT ![k] = [g1[k] EXCEPT !.rd = p]] = g2
    BY <2>2, <1>1
  <2> QED  BY <1>8, <2>3, Zenon
<1>12. Attach(d, k, event, reset) = d3
  <2>1. d1 = [d EXCEPT !.fmq = Append(@, [ring |-> k, rd |-> 0, event |-> event])]
    BY Zenon DEF ObjectRecord
  <2>2. d2 = [d1 EXCEPT !.ring[k].wr = w]
    BY <1>10, Zenon
  <2>3. d3 = [d2 EXCEPT !.ring[k].rd = p]
    BY <1>11, Zenon
  <2> QED  BY <2>1, <2>2, <2>3, <1>7, <1>8, <1>1 DEF Attach
<1>13. g2 = [d.ring EXCEPT ![k] = IF reset THEN RingRecord(r.cap, r.buf, 0, 0) ELSE r]
  BY <1>2, RingFields
<1> QED
  BY <1>9, <1>12, <1>13, Zenon

(* The steps, as far as the queues are concerned.                          *)
LEMMA NewQueueIs ==
  ASSUME FmqTypes, NEW sync \in BOOLEAN, NEW size \in Sizes, NewQueue(sync, size)
  PROVE  /\ fmqs' \in Sessions
         /\ Rings' = Append(Rings, NewRing(size)) /\ NewRing(size) \in RingRecords
         /\ Objects' = Append(Objects, ObjectRecord(Len(Rings) + 1, 0, FALSE))
         /\ mir' = Append(mir, FmqMirror("uint16_t", sync, Len(Objects)))
         /\ sent' = Append(sent, 0) /\ got' = Append(got, <<>>)
         /\ delivered' = Append(delivered, <<>>) /\ list' = list
<1> DEFINE g == Append(Rings, NewRing(size))
           k == Len(Rings) + 1
           d == [fmqs EXCEPT !.ring = g]
<1>1. NewRing(size) \in RingRecords
  <2>1. [i \in 0..(size - 1) |-> 0] \in Bufs
    BY BufsHold
  <2>2. NewRing(size) = RingRecord(size, [i \in 0..(size - 1) |-> 0], 0, 0)
    BY Zenon DEF NewRing, RingRecord
  <2>3. 0 \in Nat
    OBVIOUS
  <2> QED
    BY <2>1, <2>2, <2>3, RingRecordIs
<1>2. fmqs \in Sessions /\ Rings \in Seq(RingRecords)
  BY RecordFields, Zenon DEF FmqTypes, Rings
<1>3. g \in Seq(RingRecords) /\ k \in 1..Len(g) /\ [g EXCEPT ![k] = g[k]] = g
  <2> DEFINE r == NewRing(size)
  <2>1. r \in RingRecords
    BY <1>1
  <2> HIDE DEF r
  <2>2. Append(Rings, r) \in Seq(RingRecords) /\ k \in 1..Len(Append(Rings, r))
    BY <1>2, <2>1
  <2>3. \A h \in Seq(RingRecords) : [h EXCEPT ![k] = h[k]] = h
    OBVIOUS
  <2> QED  BY <2>2, <2>3, Zenon DEF r
<1>4. d \in Sessions /\ d.ring = g /\ d.fmq = Objects /\ d.alive = fmqs.alive
  <2> HIDE DEF g
  <2> QED  BY <1>2, <1>3, SetRings, Zenon DEF Objects
<1>5. _create(fmqs, -1, size, FALSE, TRUE) = Ret(Attach(d, k, FALSE, FALSE), <<Len(Objects)>>)
  BY DEF _create, NewQueue, Rings, Objects
<1> DEFINE a == Attach(d, k, FALSE, FALSE)
<1>6. a \in Sessions /\ a.ring = g /\ a.fmq = Append(Objects, ObjectRecord(k, 0, FALSE))
  <2> HIDE DEF d, g, k
  <2>1. k \in 1..Len(d.ring)
    BY <1>3, <1>4
  <2> QED  BY <1>3, <1>4, <2>1, AttachIs
<1>7. fmqs' = a /\ mir' = Append(mir, FmqMirror("uint16_t", sync, Len(Objects)))
  <2>1. Ret(a, <<Len(Objects)>>).d = a /\ Ret(a, <<Len(Objects)>>).r[1] = Len(Objects)
    BY DEF Ret
  <2> QED  BY <2>1, <1>5, Zenon DEF NewQueue
<1> HIDE DEF a
<1>8. Rings' = a.ring /\ Objects' = a.fmq
  BY <1>7 DEF Rings, Objects
<1> QED
  BY <1>1, <1>6, <1>7, <1>8, Zenon DEF NewQueue

(* What attaching a mirror to a queue leaves behind: the pointers are zero *)
(* when the caller reset them.                                             *)
LEMMA AttachQueueIs ==
  ASSUME FmqTypes, MirrorsOk, NEW i \in DOMAIN mir, NEW reset \in BOOLEAN, AttachQueue(i, reset)
  PROVE  LET k == Objects[i].ring
             r == Rings[k]
         IN  /\ fmqs' \in Sessions /\ i \in 1..Len(Objects)
             /\ Rings' = [Rings EXCEPT ![k] = IF reset THEN RingRecord(r.cap, r.buf, 0, 0) ELSE r]
             /\ Objects' = Append(Objects, ObjectRecord(k, 0, Objects[i].event))
             /\ mir' = Append(mir, FmqMirror("uint16_t", mir[i].sync, Len(Objects)))
             /\ got' = Append(got, <<>>)
             /\ sent' = sent /\ delivered' = delivered /\ list' = list
<1> DEFINE k == Objects[i].ring
           a == Attach(fmqs, k, Objects[i].event, reset)
<1>1. i \in 1..Len(Objects) /\ mir[i] \in MirrorsOfQueues /\ mir[i].type = "uint16_t"
  <2>1. mir \in Seq(MirrorsOfQueues) /\ Len(mir) = Len(Objects)
    BY DEF FmqTypes
  <2>2. i \in 1..Len(Objects) /\ mir[i] \in MirrorsOfQueues
    BY <2>1
  <2> QED  BY <2>2 DEF MirrorsOfQueues
<1>2. mir[i].id = i - 1 /\ mir[i].id + 1 = i /\ mir[i].id # -1
  BY <1>1 DEF MirrorsOk
<1>3. fmqs \in Sessions /\ Objects \in Seq(ObjectRecords)
  BY RecordFields, Zenon DEF FmqTypes, Objects
<1>4. k \in 1..Len(fmqs.ring)
  BY <1>1 DEF MirrorsOk, Rings
<1>5. Objects[i].event \in BOOLEAN
  BY <1>1, <1>3, ObjectFields, SMTT(40)
<1>6. _create(fmqs, mir[i].id, 0, FALSE, reset) = Ret(a, <<Len(Objects)>>)
  BY <1>2 DEF _create, AttachQueue, Objects
<1>7. a \in Sessions /\ a.fmq = Append(Objects, ObjectRecord(k, 0, Objects[i].event))
      /\ a.ring = [Rings EXCEPT ![k] = IF reset THEN RingRecord(Rings[k].cap, Rings[k].buf, 0, 0) ELSE Rings[k]]
  <2> HIDE DEF k
  <2> QED  BY <1>3, <1>4, <1>5, AttachIs DEF Rings, Objects
<1>8. fmqs' = a /\ mir' = Append(mir, FmqMirror("uint16_t", mir[i].sync, Len(Objects)))
  <2>1. Ret(a, <<Len(Objects)>>).d = a /\ Ret(a, <<Len(Objects)>>).r[1] = Len(Objects)
    BY DEF Ret
  <2> QED  BY <2>1, <1>1, <1>6, Zenon DEF AttachQueue
<1> HIDE DEF a
<1>9. Rings' = a.ring /\ Objects' = a.fmq
  BY <1>8 DEF Rings, Objects
<1> QED
  BY <1>1, <1>7, <1>8, <1>9, Zenon DEF AttachQueue

(* The buffer that RingWrite leaves.                                       *)
OneOf(S) == CHOOSE j \in S : TRUE
Hit(r, n, i) == {j \in 1..n : (r.wr + j - 1) % r.cap = i}
WriteBuf(r, data) ==
  [i \in 0..(r.cap - 1) |-> IF Hit(r, Len(data), i) = {} THEN r.buf[i]
                            ELSE data[OneOf(Hit(r, Len(data), i))]]

Written(d, k, r, data) ==
  [d EXCEPT !.ring[k].buf = WriteBuf(r, data), !.ring[k].wr = @ + Len(data)]

LEMMA LenNat ==
  ASSUME NEW data \in Seq(Nat)
  PROVE  Len(data) \in Nat
  OBVIOUS

(* The buffer after a write.                                               *)
LEMMA WriteBufType ==
  ASSUME NEW r \in RingRecords, r.buf \in [0..(r.cap - 1) -> Nat], NEW data \in Seq(Nat)
  PROVE  WriteBuf(r, data) \in [0..(r.cap - 1) -> Nat]
<1>1. ASSUME NEW i \in 0..(r.cap - 1)
      PROVE  (IF Hit(r, Len(data), i) = {} THEN r.buf[i]
              ELSE data[OneOf(Hit(r, Len(data), i))]) \in Nat
  <2>1. CASE Hit(r, Len(data), i) = {}
    BY <2>1
  <2>2. CASE Hit(r, Len(data), i) # {}
    <3>1. OneOf(Hit(r, Len(data), i)) \in Hit(r, Len(data), i)
      BY <2>2, Zenon DEF OneOf
    <3>2. OneOf(Hit(r, Len(data), i)) \in 1..Len(data)
      BY <3>1, Zenon DEF Hit
    <3>3. \A x \in 1..Len(data) : data[x] \in Nat
      OBVIOUS
    <3>4. data[OneOf(Hit(r, Len(data), i))] \in Nat
      BY <3>2, <3>3, Zenon
    <3> QED  BY <3>4, <2>2, Zenon
  <2> QED  BY <2>1, <2>2, Zenon
<1> QED
  BY <1>1, Zenon DEF WriteBuf

(* Mirror m is the one of object i, on ring k; data fits into that ring.   *)
OnRing(d, m, i, k) == m.id + 1 = i /\ m.sync \in BOOLEAN /\ d.fmq[i].ring = k
FitsIn(d, m, data) == ~(Len(data) > RoomToWrite(d, m))

(* What they leave and answer.                                             *)
WroteRing(d, a, k, data) ==
  LET r == d.ring[k]
  IN  /\ a.r = <<TRUE>> /\ a.d \in Sessions /\ a.d.fmq = d.fmq /\ a.d.alive = d.alive
      /\ a.d.ring = [d.ring EXCEPT ![k] = RingRecord(r.cap, WriteBuf(r, data), r.wr + Len(data), r.rd)]

ReadRing(d, a, m, i, k, n) ==
  LET r == d.ring[k]
      p == IF m.sync THEN r.rd ELSE d.fmq[i].rd
  IN  \/ /\ a.r = <<FALSE>> /\ a.data = <<>>
         /\ \/ a.d = d
            \/ /\ ~m.sync /\ (r.wr - p > r.cap \/ r.wr < p)
               /\ a.d \in Sessions /\ a.d.alive = d.alive /\ a.d.ring = d.ring
               /\ a.d.fmq = [d.fmq EXCEPT ![i] = ObjectRecord(k, r.wr, d.fmq[i].event)]
      \/ /\ a.r = <<TRUE>> /\ a.data = [j \in 1..n |-> r.buf[(p + j - 1) % r.cap]]
         /\ ~m.sync => ~(r.wr - p > r.cap) /\ ~(r.wr < p)
         /\ ~(r.wr - p < n)
         /\ a.d \in Sessions /\ a.d.alive = d.alive
         /\ a.d.ring = (IF m.sync THEN [d.ring EXCEPT ![k] = RingRecord(r.cap, r.buf, r.wr, p + n)]
                        ELSE d.ring)
         /\ a.d.fmq = (IF m.sync THEN d.fmq
                       ELSE [d.fmq EXCEPT ![i] = ObjectRecord(k, p + n, d.fmq[i].event)])

(* What write and read of the driver do to the session of a queue.         *)
LEMMA RingWriteIs ==
  ASSUME NEW d \in Sessions, NEW m, NEW i, NEW k \in 1..Len(d.ring), OnRing(d, m, i, k),
         NEW data \in Seq(Nat), d.ring[k].buf \in [0..(d.ring[k].cap - 1) -> Nat],
         FitsIn(d, m, data)
  PROVE  WroteRing(d, RingWrite(d, m, data), k, data)
<1> DEFINE r == d.ring[k]
           b == WriteBuf(r, data)
           g1 == [d.ring EXCEPT ![k] = RingRecord(r.cap, b, r.wr, r.rd)]
           g2 == [d.ring EXCEPT ![k] = RingRecord(r.cap, b, r.wr + Len(data), r.rd)]
           d1 == [d EXCEPT !.ring = g1]
           d2 == [d1 EXCEPT !.ring = g2]
<1>1. d.ring \in Seq(RingRecords) /\ r \in RingRecords
  BY RecordFields, ElementOfRing, Zenon
<1>2. r.cap \in Sizes /\ r.buf \in Bufs /\ r.wr \in Nat /\ r.rd \in Nat /\ r.wr + Len(data) \in Nat
  <2>1. Len(data) \in Nat
    BY Zenon, LenNat
  <2> QED  BY <1>1, <2>1, RingFields, Sum, Zenon
<1>3. b \in Bufs
  BY <1>1, <1>2, WriteBufType, BufsHold, Zenon
<1> HIDE DEF r, b
<1>4. RingRecord(r.cap, b, r.wr, r.rd) \in RingRecords
      /\ RingRecord(r.cap, b, r.wr + Len(data), r.rd) \in RingRecords
  BY <1>2, <1>3, RingRecordIs, Zenon
<1>5. g1 \in Seq(RingRecords) /\ g2 \in Seq(RingRecords)
  BY <1>1, <1>4, PutRing, Zenon
<1>6. d1 \in Sessions /\ d1.ring = g1 /\ d1.fmq = d.fmq /\ d1.alive = d.alive
  <2> HIDE DEF g1
  <2> QED  BY <1>5, SetRings, Zenon
<1>7. d2 \in Sessions /\ d2.ring = g2 /\ d2.fmq = d.fmq /\ d2.alive = d.alive
  <2> HIDE DEF g2, d1
  <2> QED  BY <1>5, <1>6, SetRings, Zenon
<1>8. [d.ring EXCEPT ![k].buf = b] = g1
  <2>1. [r EXCEPT !.buf = b] = RingRecord(r.cap, b, r.wr, r.rd)
    BY <1>1, RingFields, Zenon
  <2> QED  BY <2>1, Zenon DEF r
<1>9. [d1.ring EXCEPT ![k].wr = r.wr + Len(data)] = g2
  <2>1. g1[k] = RingRecord(r.cap, b, r.wr, r.rd)
    BY <1>1
  <2>2. [g1[k] EXCEPT !.wr = r.wr + Len(data)] = RingRecord(r.cap, b, r.wr + Len(data), r.rd)
    BY <2>1 DEF RingRecord
  <2>3. [g1 EXCEPT ![k] = [g1[k] EXCEPT !.wr = r.wr + Len(data)]] = g2
    BY <2>2, <1>1, PutTwice, Zenon
  <2> QED  BY <1>6, <2>3, Zenon
<1>10. g1[k].wr = r.wr
  <2>1. g1[k] = RingRecord(r.cap, b, r.wr, r.rd)
    BY <1>1, PutRing
  <2>2. RingRecord(r.cap, b, r.wr, r.rd).wr = r.wr
    BY DEF RingRecord
  <2> QED  BY <2>1, <2>2, Zenon
<1>11. RingWrite(d, m, data) = Ret(d2, <<TRUE>>)
  <2>1. d1 = [d EXCEPT !.ring[k].buf = b]
    BY <1>8, Zenon
  <2>2. d2 = [d1 EXCEPT !.ring[k].wr = @ + Len(data)]
    BY <1>6, <1>9, <1>10, Zenon
  <2>3. RingWrite(d, m, data) =
          IF Len(data) > RoomToWrite(d, m) THEN Ret(d, <<FALSE>>)
          ELSE Ret(Written(d, d.fmq[m.id + 1].ring, RingOf(d, m), data), <<TRUE>>)
    BY Zenon DEF RingWrite, Written, WriteBuf, Hit, OneOf
  <2>4. RingOf(d, m) = r /\ d.fmq[m.id + 1].ring = k
    BY Zenon DEF RingOf, r, OnRing
  <2>5. RingWrite(d, m, data) = Ret(Written(d, k, r, data), <<TRUE>>)
    BY <2>3, <2>4, Zenon DEF FitsIn
  <2>6. Written(d, k, r, data) = [[d EXCEPT !.ring[k].buf = b] EXCEPT !.ring[k].wr = @ + Len(data)]
    BY Zenon DEF Written, b
  <2> HIDE DEF d1, d2
  <2> QED  BY <2>1, <2>2, <2>5, <2>6, Zenon
<1>12. Ret(d2, <<TRUE>>).d = d2 /\ Ret(d2, <<TRUE>>).r = <<TRUE>>
  BY DEF Ret
<1> HIDE DEF d2
<1>13. RingWrite(d, m, data).d = d2 /\ RingWrite(d, m, data).r = <<TRUE>>
  BY <1>11, <1>12, Zenon
<1> QED
  BY <1>7, <1>13, Zenon DEF r, b, WroteRing

LEMMA RingReadIs ==
  ASSUME NEW d \in Sessions, NEW m, NEW i \in 1..Len(d.fmq), NEW k \in 1..Len(d.ring), OnRing(d, m, i, k), NEW n \in Nat
  PROVE  ReadRing(d, RingRead(d, m, n), m, i, k, n)
<1> DEFINE r == d.ring[k]
           o == d.fmq[i]
           p == IF m.sync THEN r.rd ELSE o.rd
<1>1. d.ring \in Seq(RingRecords) /\ r \in RingRecords /\ d.fmq \in Seq(ObjectRecords) /\ o \in ObjectRecords
  BY RecordFields, ElementOfRing, ElementOfObjects, Zenon
<1>2. r.cap \in Sizes /\ r.buf \in Bufs /\ r.wr \in Nat /\ r.rd \in Nat
      /\ o.rd \in Nat /\ o.ring \in Nat /\ o.event \in BOOLEAN /\ p \in Nat
  BY <1>1, RingFields, ObjectFields, Zenon
<1> DEFINE SyncMoved(q) == [d EXCEPT !.ring[k].rd = q]
           OwnMoved(q) == [d EXCEPT !.fmq[i].rd = q]
<1>3. ASSUME NEW q \in Nat
      PROVE  /\ SyncMoved(q) \in Sessions /\ SyncMoved(q).alive = d.alive /\ SyncMoved(q).fmq = d.fmq
             /\ SyncMoved(q).ring = [d.ring EXCEPT ![k] = RingRecord(r.cap, r.buf, r.wr, q)]
  <2> DEFINE g == [d.ring EXCEPT ![k] = RingRecord(r.cap, r.buf, r.wr, q)]
  <2>1. [r EXCEPT !.rd = q] = RingRecord(r.cap, r.buf, r.wr, q)
    BY <1>1, RingFields, Zenon
  <2>2. RingRecord(r.cap, r.buf, r.wr, q) \in RingRecords
    BY <1>2, RingRecordIs, Zenon
  <2>3. g \in Seq(RingRecords)
    <3> HIDE DEF r
    <3> QED  BY <1>1, <2>2, PutRing, Zenon
  <2>4. SyncMoved(q) = [d EXCEPT !.ring = g]
    BY <2>1, Zenon
  <2> HIDE DEF g, SyncMoved
  <2>5. [d EXCEPT !.ring = g] \in Sessions /\ [d EXCEPT !.ring = g].ring = g
        /\ [d EXCEPT !.ring = g].fmq = d.fmq /\ [d EXCEPT !.ring = g].alive = d.alive
    BY <2>3, SetRings, Zenon
  <2> QED  BY <2>4, <2>5, Zenon DEF g
<1>4. ASSUME NEW q \in Nat
      PROVE  /\ OwnMoved(q) \in Sessions /\ OwnMoved(q).alive = d.alive /\ OwnMoved(q).ring = d.ring
             /\ OwnMoved(q).fmq = [d.fmq EXCEPT ![i] = ObjectRecord(k, q, o.event)]
  <2> DEFINE g == [d.fmq EXCEPT ![i] = ObjectRecord(k, q, o.event)]
  <2>1. [o EXCEPT !.rd = q] = ObjectRecord(k, q, o.event)
    BY <1>1, ObjectFields, Zenon DEF OnRing
  <2>2. ObjectRecord(k, q, o.event) \in ObjectRecords
    BY <1>2, ObjectRecordIs, Zenon DEF OnRing
  <2>3. g \in Seq(ObjectRecords)
    <3> HIDE DEF o
    <3> QED  BY <1>1, <2>2, PutObject, Zenon
  <2>4. OwnMoved(q) = [d EXCEPT !.fmq = g]
    BY <2>1, Zenon
  <2> HIDE DEF g, OwnMoved
  <2>5. [d EXCEPT !.fmq = g] \in Sessions /\ [d EXCEPT !.fmq = g].fmq = g
        /\ [d EXCEPT !.fmq = g].ring = d.ring /\ [d EXCEPT !.fmq = g].alive = d.alive
    BY <2>3, SetObjects, Zenon
  <2> QED  BY <2>4, <2>5, Zenon DEF g
<1> DEFINE Moved(q) == IF m.sync THEN SyncMoved(q) ELSE OwnMoved(q)
           data == [j \in 1..n |-> r.buf[(p + j - 1) % r.cap]]
           overflow == ~m.sync /\ (r.wr - p > r.cap \/ r.wr < p)
<1>5. RingRead(d, m, n) =
        IF overflow THEN [d |-> Moved(r.wr), r |-> <<FALSE>>, data |-> <<>>]
        ELSE IF r.wr - p < n THEN [d |-> d, r |-> <<FALSE>>, data |-> <<>>]
        ELSE [d |-> Moved(p + n), r |-> <<TRUE>>, data |-> data]
  <2>1. d.fmq[m.id + 1].ring = k /\ d.fmq[m.id + 1] = o /\ m.id + 1 = i
    BY Zenon DEF OnRing
  <2>2. RingOf(d, m) = r /\ ReadPtr(d, m) = p /\ Unread(d, m) = r.wr - p
    BY <2>1, Zenon DEF RingOf, ReadPtr, Unread
  <2> HIDE DEF r, p
  <2> QED  BY <2>1, <2>2, Zenon DEF RingRead
<1>6. p + n \in Nat
  BY <1>2, Sum, Zenon
<1> HIDE DEF SyncMoved, OwnMoved, data, r, p
<1>7. CASE overflow
  <2>1. RingRead(d, m, n) = [d |-> Moved(r.wr), r |-> <<FALSE>>, data |-> <<>>]
    BY <1>5, <1>7, Zenon
  <2>2. RingRead(d, m, n).d = OwnMoved(r.wr) /\ RingRead(d, m, n).r = <<FALSE>> /\ RingRead(d, m, n).data = <<>>
    BY <2>1, <1>7, Answer, Zenon
  <2> QED  BY <2>2, <1>2, <1>4, <1>7, ZenonT(60) DEF r, p, ReadRing
<1>8. CASE ~overflow /\ r.wr - p < n
  <2>1. RingRead(d, m, n) = [d |-> d, r |-> <<FALSE>>, data |-> <<>>]
    BY <1>5, <1>8, Zenon
  <2>2. RingRead(d, m, n).d = d /\ RingRead(d, m, n).r = <<FALSE>> /\ RingRead(d, m, n).data = <<>>
    BY <2>1, Answer, Zenon
  <2> QED  BY <2>2, Zenon DEF ReadRing
<1>9. CASE ~overflow /\ ~(r.wr - p < n)
  <2>1. RingRead(d, m, n) = [d |-> Moved(p + n), r |-> <<TRUE>>, data |-> data]
    BY <1>5, <1>9, Zenon
  <2>2. RingRead(d, m, n).d = Moved(p + n) /\ RingRead(d, m, n).r = <<TRUE>> /\ RingRead(d, m, n).data = data
    <3> HIDE DEF Moved
    <3> QED  BY <2>1, Answer, Zenon
  <2>3. CASE m.sync
    BY <2>2, <2>3, <1>6, <1>3, <1>9, ZenonT(40) DEF r, p, data, ReadRing
  <2>4. CASE ~m.sync
    <3>1. RingRead(d, m, n).d = OwnMoved(p + n)
      BY <2>2, <2>4, Zenon
    <3>2. ~(r.wr - p > r.cap) /\ ~(r.wr < p)
      BY <1>9, <2>4, Zenon
    <3>3. /\ RingRead(d, m, n).d \in Sessions /\ RingRead(d, m, n).d.alive = d.alive
          /\ RingRead(d, m, n).d.ring = d.ring
          /\ RingRead(d, m, n).d.fmq = [d.fmq EXCEPT ![i] = ObjectRecord(k, p + n, d.fmq[i].event)]
      BY <3>1, <1>6, <1>4, Zenon
    <3>4. RingRead(d, m, n).r = <<TRUE>> /\ RingRead(d, m, n).data = data /\ ~(r.wr - p < n)
      BY <2>2, <1>9, Zenon
    <3> QED  BY <2>4, <3>2, <3>3, <3>4, Zenon DEF r, p, data, ReadRing
  <2> QED  BY <2>3, <2>4, Zenon
<1> QED
  BY <1>7, <1>8, <1>9, Zenon

LEMMA LineIs ==
  ASSUME NEW a \in Nat, NEW n \in Nat
  PROVE  Line(a, n) \in Seq(Nat) /\ Len(Line(a, n)) = n
  BY DEF Line

LEMMA FirstOfAll ==
  ASSUME NEW a \in Nat, NEW n \in Nat
  PROVE  FirstOf(Line(a, n), n) = Line(a, n)
<1>1. SubSeq(Line(a, n), 1, n) = Line(a, n)
  BY DEF Line
<1> QED
  BY <1>1, LineIs DEF FirstOf

LEMMA MirrorIs ==
  ASSUME FmqTypes, MirrorsOk, NEW i \in DOMAIN mir
  PROVE  /\ i \in 1..Len(Objects) /\ Objects[i].ring \in 1..Len(Rings)
         /\ mir[i].type = "uint16_t" /\ OnRing(fmqs, mir[i], i, Objects[i].ring) /\ mir[i].sync \in BOOLEAN
         /\ fmqs \in Sessions /\ Rings \in Seq(RingRecords) /\ Objects \in Seq(ObjectRecords)
         /\ sent[Objects[i].ring] \in Nat
<1>1. mir \in Seq(MirrorsOfQueues) /\ Len(mir) = Len(Objects)
  BY DEF FmqTypes
<1>2. i \in 1..Len(Objects) /\ mir[i] \in MirrorsOfQueues
  BY <1>1
<1>3. mir[i].type = "uint16_t" /\ mir[i].sync \in BOOLEAN
  BY <1>2 DEF MirrorsOfQueues
<1>4. mir[i].id = i - 1 /\ Objects[i].ring \in 1..Len(Rings)
  BY <1>2 DEF MirrorsOk
<1>5. mir[i].id + 1 = i
  BY <1>2, <1>4
<1>6. fmqs \in Sessions /\ Rings \in Seq(RingRecords) /\ Objects \in Seq(ObjectRecords)
  BY RecordFields, Zenon DEF FmqTypes, Objects, Rings
<1>7. sent \in Seq(Nat) /\ Len(sent) = Len(Rings)
  BY DEF FmqTypes
<1>8. sent[Objects[i].ring] \in Nat
  BY <1>4, <1>7
<1> QED
  BY <1>2, <1>3, <1>4, <1>5, <1>6, <1>8, Zenon DEF OnRing, Objects

(* The arguments that RoomToWrite leaves for a write.                      *)
Room1(i) == LET r == Rings[Objects[i].ring]
            IN  IF mir[i].sync THEN r.cap - (r.wr - r.rd) ELSE r.cap

(* A write either fails and changes nothing, or there was room and the     *)
(* pointer moves.                                                          *)
LEMMA WriteItemsIs ==
  ASSUME FmqTypes, MirrorsOk, RingsHold, NEW i \in DOMAIN mir, NEW n \in Nat, WriteItems(i, n)
  PROVE  LET k == Objects[i].ring
             r == Rings[k]
         IN  /\ mir' = mir /\ list' = list /\ got' = got /\ delivered' = delivered
             /\ \/ fmqs' = fmqs /\ sent' = sent
                \/ /\ fmqs' \in Sessions /\ Objects' = Objects /\ sent' = [sent EXCEPT ![k] = sent[k] + n]
                   /\ ~(n > Room1(i))
                   /\ Rings' = [Rings EXCEPT ![k] = RingRecord(r.cap, WriteBuf(r, Line(sent[k], n)), r.wr + n, r.rd)]
<1> DEFINE k == Objects[i].ring
           data == Line(sent[k], n)
           a == write(fmqs, mir[i], data, n, FALSE)
           b == RingWrite(fmqs, mir[i], data)
<1>1. /\ i \in 1..Len(Objects) /\ k \in 1..Len(Rings)
      /\ mir[i].type = "uint16_t" /\ OnRing(fmqs, mir[i], i, k) /\ mir[i].sync \in BOOLEAN
      /\ fmqs \in Sessions /\ Rings \in Seq(RingRecords) /\ Objects \in Seq(ObjectRecords)
      /\ sent[k] \in Nat
  BY MirrorIs, Zenon
<1>2. data \in Seq(Nat) /\ Len(data) = n /\ FirstOf(data, n) = data
  BY <1>1, LineIs, FirstOfAll, Zenon
<1>3. /\ fmqs' = a.d /\ sent' = IF a.r = <<TRUE>> THEN [sent EXCEPT ![k] = sent[k] + n] ELSE sent
      /\ mir' = mir /\ list' = list /\ got' = got /\ delivered' = delivered
  <2>1. data = [j \in 1..n |-> sent[RingIdx(i)] + j] /\ k = RingIdx(i)
    BY Zenon DEF Line, RingIdx, Objects
  <2> HIDE DEF data, k
  <2> QED  BY <2>1, Zenon DEF WriteItems
<1> HIDE DEF data, k
<1>4. _prepareWriteData(mir[i], data, FALSE)
  BY <1>1, Zenon DEF _prepareWriteData, SUPPORTED_SCALAR_TYPES
<1>5. a = IF ~fmqs.alive THEN Ret(fmqs, <<FALSE>>) ELSE b
  BY <1>2, <1>4, Zenon DEF write
<1>6. Ret(fmqs, <<FALSE>>).d = fmqs /\ Ret(fmqs, <<FALSE>>).r = <<FALSE>> /\ <<FALSE>> # <<TRUE>>
  BY DEF Ret
<1>7. CASE ~fmqs.alive
  <2> HIDE DEF a, b
  <2>1. a = Ret(fmqs, <<FALSE>>)
    BY <1>7, <1>5, Zenon
  <2>2. fmqs' = fmqs /\ a.r # <<TRUE>>
    BY <2>1, <1>3, <1>6, Zenon
  <2> QED  BY <2>2, <1>3, Zenon
<1>8. CASE fmqs.alive /\ ~FitsIn(fmqs, mir[i], data)
  <2>1. a = Ret(fmqs, <<FALSE>>)
    <3>1. b = Ret(fmqs, <<FALSE>>)
      BY <1>8, Zenon DEF FitsIn, RingWrite
    <3> QED  BY <3>1, <1>8, <1>5, Zenon
  <2> HIDE DEF a, b
  <2>2. fmqs' = fmqs /\ a.r # <<TRUE>>
    BY <2>1, <1>3, <1>6, Zenon
  <2> QED  BY <2>2, <1>3, Zenon
<1>9. CASE fmqs.alive /\ FitsIn(fmqs, mir[i], data)
  <2>1. a = b
    BY <1>5, <1>9, Zenon
  <2>2. Rings[k].buf \in [0..(Rings[k].cap - 1) -> Nat]
    BY <1>1, Zenon DEF RingsHold, RingHolds
  <2> DEFINE g == [Rings EXCEPT ![k] = RingRecord(Rings[k].cap, WriteBuf(Rings[k], data), Rings[k].wr + n, Rings[k].rd)]
  <2>3. b.r = <<TRUE>> /\ b.d \in Sessions /\ b.d.fmq = Objects /\ b.d.ring = g
    <3>1. k \in 1..Len(fmqs.ring) /\ fmqs.ring[k].buf \in [0..(fmqs.ring[k].cap - 1) -> Nat]
      BY <1>1, <2>2, Zenon DEF Rings
    <3>2. /\ b.r = <<TRUE>> /\ b.d \in Sessions /\ b.d.fmq = fmqs.fmq
          /\ b.d.ring = [fmqs.ring EXCEPT ![k] =
                  RingRecord(fmqs.ring[k].cap, WriteBuf(fmqs.ring[k], data), fmqs.ring[k].wr + Len(data), fmqs.ring[k].rd)]
      <4>1. WroteRing(fmqs, b, k, data)
        BY <1>1, <1>2, <1>9, <3>1, RingWriteIs, Zenon
      <4> QED  BY <4>1, Zenon DEF WroteRing
    <3> QED  BY <3>2, <1>2, Zenon DEF Rings, Objects
  <2>4. ~(n > Room1(i))
    <3>1. RingOf(fmqs, mir[i]) = Rings[k] /\ Unread(fmqs, mir[i]) = Rings[k].wr - ReadPtr(fmqs, mir[i])
          /\ (mir[i].sync => ReadPtr(fmqs, mir[i]) = Rings[k].rd)
      BY <1>1, Zenon DEF RingOf, OnRing, Rings, Unread, ReadPtr
    <3>2. RoomToWrite(fmqs, mir[i]) = Room1(i)
      BY <3>1, Zenon DEF RoomToWrite, Room1, k
    <3> QED  BY <3>2, <1>2, <1>9, Zenon DEF FitsIn
  <2> HIDE DEF a, b, g
  <2>5. Rings' = g /\ Objects' = Objects /\ fmqs' \in Sessions /\ sent' = [sent EXCEPT ![k] = sent[k] + n]
    <3>1. fmqs' = b.d /\ sent' = [sent EXCEPT ![k] = sent[k] + n]
      BY <1>3, <2>1, <2>3, Zenon
    <3> QED  BY <3>1, <2>3, Zenon DEF Rings, Objects
  <2> QED  BY <2>4, <2>5, <1>3, Zenon DEF g, data, k
<1> QED
  BY <1>7, <1>8, <1>9, Zenon

(* The four outcomes of a read: refused, overtaken by the writer, or items *)
(* from the unsynchronized or the synchronized ring.                       *)
LEMMA ReadItemsIs ==
  ASSUME FmqTypes, MirrorsOk, NEW i \in DOMAIN mir, NEW n \in Nat, ReadItems(i, n)
  PROVE  LET k == Objects[i].ring
             r == Rings[k]
             p == Pointer(i)
             data == [j \in 1..n |-> r.buf[(p + j - 1) % r.cap]]
         IN  /\ mir' = mir /\ sent' = sent
             /\ \/ /\ fmqs' = fmqs /\ list' = <<>> /\ got' = got /\ delivered' = delivered
                \/ /\ ~mir[i].sync /\ fmqs' \in Sessions /\ Rings' = Rings
                   /\ (r.wr - p > r.cap \/ r.wr < p)
                   /\ Objects' = [Objects EXCEPT ![i] = ObjectRecord(k, r.wr, Objects[i].event)]
                   /\ list' = <<>> /\ got' = got /\ delivered' = delivered
                \/ /\ ~mir[i].sync /\ fmqs' \in Sessions /\ Rings' = Rings
                   /\ ~(r.wr - p > r.cap) /\ ~(r.wr < p) /\ ~(r.wr - p < n)
                   /\ Objects' = [Objects EXCEPT ![i] = ObjectRecord(k, p + n, Objects[i].event)]
                   /\ list' = data /\ got' = [got EXCEPT ![i] = got[i] \o data] /\ delivered' = delivered
                \/ /\ mir[i].sync /\ fmqs' \in Sessions /\ Objects' = Objects
                   /\ ~(r.wr - p < n)
                   /\ Rings' = [Rings EXCEPT ![k] = RingRecord(r.cap, r.buf, r.wr, p + n)]
                   /\ list' = data /\ got' = [got EXCEPT ![i] = got[i] \o data]
                   /\ delivered' = [delivered EXCEPT ![k] = delivered[k] \o data]
<1> DEFINE k == Objects[i].ring
           r == Rings[k]
           p == Pointer(i)
           data == [j \in 1..n |-> r.buf[(p + j - 1) % r.cap]]
           a == read(fmqs, mir[i], n, list)
           b == RingRead(fmqs, mir[i], n)
<1>1. /\ i \in 1..Len(Objects) /\ k \in 1..Len(Rings)
      /\ mir[i].type = "uint16_t" /\ OnRing(fmqs, mir[i], i, k) /\ mir[i].sync \in BOOLEAN
      /\ fmqs \in Sessions /\ Rings \in Seq(RingRecords) /\ Objects \in Seq(ObjectRecords)
  BY MirrorIs, Zenon
<1>2. /\ fmqs' = a.d /\ list' = a.data /\ mir' = mir /\ sent' = sent
      /\ got' = IF a.r = <<TRUE>> THEN [got EXCEPT ![i] = got[i] \o a.data] ELSE got
      /\ delivered' = IF a.r = <<TRUE>> /\ mir[i].sync THEN [delivered EXCEPT ![k] = delivered[k] \o a.data]
                      ELSE delivered
  <2>1. RingIdx(i) = k
    BY Zenon DEF RingIdx, Objects
  <2> HIDE DEF k
  <2> QED  BY <2>1, Zenon DEF ReadItems
<1>3. <<FALSE>> # <<TRUE>>
  OBVIOUS
<1>4. CASE ~fmqs.alive
  <2>1. a = [d |-> fmqs, r |-> <<FALSE>>, data |-> <<>>]
    BY <1>4, Zenon DEF read
  <2> HIDE DEF a
  <2>2. a.d = fmqs /\ a.r = <<FALSE>> /\ a.data = <<>>
    BY <2>1, Answer, Zenon
  <2>3. fmqs' = fmqs /\ list' = <<>> /\ got' = got /\ delivered' = delivered
    BY <1>2, <1>3, <2>2, Zenon
  <2> QED  BY <1>2, <2>3, Zenon
<1>5. CASE fmqs.alive
  <2>1. a = b
    BY <1>5, Zenon DEF read
  <2>2. \/ /\ b.r = <<FALSE>> /\ b.data = <<>>
           /\ \/ b.d = fmqs
              \/ /\ ~mir[i].sync /\ (r.wr - p > r.cap \/ r.wr < p)
                 /\ b.d \in Sessions /\ b.d.ring = Rings
                 /\ b.d.fmq = [Objects EXCEPT ![i] = ObjectRecord(k, r.wr, Objects[i].event)]
        \/ /\ b.r = <<TRUE>> /\ b.data = data
           /\ ~mir[i].sync => ~(r.wr - p > r.cap) /\ ~(r.wr < p)
           /\ ~(r.wr - p < n)
           /\ b.d \in Sessions
           /\ b.d.ring = (IF mir[i].sync THEN [Rings EXCEPT ![k] = RingRecord(r.cap, r.buf, r.wr, p + n)] ELSE Rings)
           /\ b.d.fmq = (IF mir[i].sync THEN Objects
                         ELSE [Objects EXCEPT ![i] = ObjectRecord(k, p + n, Objects[i].event)])
    <3>1. k \in 1..Len(fmqs.ring) /\ i \in 1..Len(fmqs.fmq)
      BY <1>1, Zenon DEF Rings, Objects
    <3> HIDE DEF k
    <3>2. p = IF mir[i].sync THEN fmqs.ring[k].rd ELSE fmqs.fmq[i].rd
      BY Zenon DEF Pointer, k, Rings, Objects
    <3>3. ReadRing(fmqs, b, mir[i], i, k, n)
      BY <1>1, <3>1, RingReadIs, Zenon
    <3> HIDE DEF p, b
    <3> QED  BY <3>2, <3>3, Zenon DEF Rings, Objects, ReadRing
  <2> HIDE DEF a, b, data, p, r, k
  <2>3. fmqs' = b.d /\ list' = b.data
      /\ got' = (IF b.r = <<TRUE>> THEN [got EXCEPT ![i] = got[i] \o b.data] ELSE got)
      /\ delivered' = (IF b.r = <<TRUE>> /\ mir[i].sync THEN [delivered EXCEPT ![k] = delivered[k] \o b.data]
                       ELSE delivered)
    BY <2>1, <1>2, Zenon
  <2>4. Rings' = b.d.ring /\ Objects' = b.d.fmq
    BY <2>3, Zenon DEF Rings, Objects
  <2>5. CASE b.r = <<FALSE>> /\ b.data = <<>> /\ b.d = fmqs
    <3>1. fmqs' = fmqs /\ list' = <<>> /\ got' = got /\ delivered' = delivered
      BY <2>5, <2>3, <1>3, Zenon
    <3> QED  BY <1>2, <3>1, Zenon
  <2>6. CASE b.r = <<FALSE>> /\ b.data = <<>> /\ b.d # fmqs
    <3>1. list' = <<>> /\ got' = got /\ delivered' = delivered
      BY <2>6, <2>3, <1>3, Zenon
    <3>2. /\ ~mir[i].sync /\ (r.wr - p > r.cap \/ r.wr < p)
          /\ b.d \in Sessions /\ b.d.ring = Rings
          /\ b.d.fmq = [Objects EXCEPT ![i] = ObjectRecord(k, r.wr, Objects[i].event)]
      BY <2>2, <2>6, <1>3, Zenon
    <3> QED  BY <1>2, <2>3, <2>4, <3>1, <3>2, Zenon DEF r, p, k
  <2>7. CASE b.r = <<TRUE>> /\ ~mir[i].sync
    <3>1. list' = data /\ got' = [got EXCEPT ![i] = got[i] \o data] /\ delivered' = delivered
      BY <2>7, <2>2, <2>3, <1>3, Zenon
    <3>2. /\ ~(r.wr - p > r.cap) /\ ~(r.wr < p) /\ ~(r.wr - p < n)
          /\ b.d \in Sessions /\ b.d.ring = Rings
          /\ b.d.fmq = [Objects EXCEPT ![i] = ObjectRecord(k, p + n, Objects[i].event)]
      BY <2>2, <2>7, <1>3, Zenon
    <3> QED  BY <1>2, <2>3, <2>4, <2>7, <3>1, <3>2, Zenon DEF r, p, k, data
  <2>8. CASE b.r = <<TRUE>> /\ mir[i].sync
    <3>1. list' = data /\ got' = [got EXCEPT ![i] = got[i] \o data]
          /\ delivered' = [delivered EXCEPT ![k] = delivered[k] \o data]
      BY <2>8, <2>2, <2>3, <1>3, Zenon
    <3>2. /\ ~(r.wr - p < n) /\ b.d \in Sessions /\ b.d.fmq = Objects
          /\ b.d.ring = [Rings EXCEPT ![k] = RingRecord(r.cap, r.buf, r.wr, p + n)]
      BY <2>2, <2>8, <1>3, Zenon
    <3> QED  BY <1>2, <2>3, <2>4, <2>8, <3>1, <3>2, Zenon DEF r, p, k, data
  <2> QED  BY <1>1, <2>2, <2>5, <2>6, <2>7, <2>8, Zenon
<1>6. fmqs.alive \in BOOLEAN
  BY <1>1, RecordFields, Zenon
<1> QED
  BY <1>4, <1>5, <1>6, Zenon

-----------------------------------------------------------------------------
(* The write leaves the items where a reader looks for them: none of the   *)
(* last cap items is overwritten by another.                               *)
LEMMA WriteHolds ==
  ASSUME NEW r \in RingRecords, NEW s \in Nat, RingHolds(r, s), NEW n \in Nat, n <= r.cap
  PROVE  RingHolds(RingRecord(r.cap, WriteBuf(r, Line(s, n)), r.wr + n, r.rd), s + n)
<1> DEFINE c == r.cap
           w == r.wr
           b == WriteBuf(r, Line(s, n))
           q == RingRecord(r.cap, b, r.wr + n, r.rd)
<1>1. c \in Sizes /\ c \in Nat \ {0} /\ w \in Nat /\ r.rd \in Nat
  BY RingFields, SizesArePositive, Zenon
<1>2. Line(s, n) \in Seq(Nat) /\ Len(Line(s, n)) = n
  BY LineIs, Zenon
<1>3. r.buf \in [0..(c - 1) -> Nat] /\ w <= s
      /\ \A x \in Nat : x < w /\ w <= x + c => r.buf[x % c] = (s - w) + x + 1
  BY Zenon DEF RingHolds
<1>4. b \in [0..(c - 1) -> Nat]
  BY <1>2, <1>3, WriteBufType, Zenon
<1>5. q.cap = c /\ q.buf = b /\ q.wr = w + n
  <2> HIDE DEF b
  <2> QED  BY DEF RingRecord
<1>6. \A i \in 0..(c - 1) : b[i] = IF Hit(r, n, i) = {} THEN r.buf[i]
                                   ELSE Line(s, n)[OneOf(Hit(r, n, i))]
  BY <1>2, Zenon DEF WriteBuf
<1>7. \A i, j : j \in Hit(r, n, i) <=> j \in 1..n /\ (w + j - 1) % c = i
  BY Zenon DEF Hit
<1> HIDE DEF b, c, w, q
<1>8. w + n <= s + n
  BY <1>1, <1>3
<1>9. ASSUME NEW x \in Nat, x < w + n, w + n <= x + c
      PROVE  b[x % c] = ((s + n) - (w + n)) + x + 1
  <2>1. x % c \in 0..(c - 1)
    BY <1>1, DivMod
  <2>2. n <= c
    BY DEF c
  <2>3. CASE x < w
    <3>1. ASSUME NEW j \in Hit(r, n, x % c) PROVE FALSE
      <4>1. j \in 1..n /\ (w + j - 1) % c = x % c
        BY <3>1, <1>7, Zenon
      <4>2. w + j - 1 \in Nat /\ x < w + j - 1 /\ w + j - 1 < x + c
        BY <4>1, <1>1, <2>3, <1>9
      <4> HIDE DEF Hit
      <4>3. \A y \in Nat : y % c = x % c /\ x < y /\ y < x + c => FALSE
        BY <1>1, SlotsDiffer
      <4> QED  BY <4>1, <4>2, <4>3
    <3>2. Hit(r, n, x % c) = {}
      BY <3>1, Zenon
    <3>3. b[x % c] = r.buf[x % c]
      BY <1>6, <2>1, <3>2, Zenon
    <3>4. w <= x + c
      BY <1>1, <1>9
    <3>5. r.buf[x % c] = (s - w) + x + 1
      BY <1>3, <2>3, <3>4, Zenon
    <3> QED  BY <3>3, <3>5, <1>1
  <2>4. CASE w <= x
    <3> DEFINE h == x - w + 1
               j == OneOf(Hit(r, n, x % c))
    <3>1. h \in 1..n /\ w + h - 1 = x
      BY <1>1, <1>9, <2>4
    <3>2. h \in Hit(r, n, x % c)
      BY <1>7, <3>1
    <3>3. j \in Hit(r, n, x % c)
      BY <3>2, Zenon DEF OneOf
    <3>4. j \in 1..n /\ (w + j - 1) % c = x % c
      BY <3>3, <1>7, Zenon
    <3>5. b[x % c] = Line(s, n)[j]
      BY <1>6, <2>1, <3>2, Zenon
    <3> HIDE DEF j
    <3>6. j = h
      <4>1. \A y, z \in Nat : y % c = z % c /\ y < z /\ z < y + c => FALSE
        BY <1>1, SlotsDiffer
      <4>2. w + j - 1 \in Nat /\ w + j - 1 < x + c /\ x < (w + j - 1) + c
        BY <3>4, <1>1, <1>9, <2>2, <2>4
      <4>3. ~(w + j - 1 < x) /\ ~(x < w + j - 1)
        BY <4>1, <4>2, <3>4, Zenon
      <4> QED  BY <4>2, <4>3, <3>4, <1>1
    <3>7. Line(s, n)[h] = s + h
      BY <3>1, Zenon DEF Line
    <3> QED  BY <3>5, <3>6, <3>7, <1>1
  <2> QED  BY <1>1, <2>3, <2>4
<1>10. RingHolds(q, s + n)
  BY <1>4, <1>5, <1>8, <1>9 DEF RingHolds
<1> QED
  BY <1>10, Zenon DEF q, b

ReadData(r, p, n) == [j \in 1..n |-> r.buf[(p + j - 1) % r.cap]]

(* A read of items that are there returns them in the order of the writes. *)
LEMMA ReadHolds ==
  ASSUME NEW r \in RingRecords, NEW s \in Nat, RingHolds(r, s), NEW n \in Nat, NEW p \in Nat,
         p + n <= r.wr, r.wr <= p + r.cap
  PROVE  /\ (s - r.wr) + p \in Nat
         /\ ReadData(r, p, n) = Line((s - r.wr) + p, n)
<1>1. r.cap \in Nat \ {0} /\ r.wr \in Nat
  BY RingFields, SizesArePositive, Zenon
<1>2. r.wr <= s /\ \A x \in Nat : x < r.wr /\ r.wr <= x + r.cap => r.buf[x % r.cap] = (s - r.wr) + x + 1
  BY Zenon DEF RingHolds
<1>3. ASSUME NEW j \in 1..n
      PROVE  r.buf[(p + j - 1) % r.cap] = ((s - r.wr) + p) + j
  <2>1. p + j - 1 \in Nat /\ p + j - 1 < r.wr /\ r.wr <= (p + j - 1) + r.cap
    BY <1>1
  <2>2. r.buf[(p + j - 1) % r.cap] = (s - r.wr) + (p + j - 1) + 1
    BY <2>1, <1>2, Zenon
  <2> QED  BY <2>2, <1>1
<1>4. (s - r.wr) + p \in Nat
  BY <1>1, <1>2
<1> QED
  BY <1>3, <1>4, Zenon DEF Line, ReadData

LEMMA AppendedList ==
  ASSUME NEW t \in Seq(Seq(Nat))
  PROVE  /\ Append(t, <<>>) \in Seq(Seq(Nat)) /\ Len(Append(t, <<>>)) = Len(t) + 1
         /\ Append(t, <<>>)[Len(t) + 1] = <<>>
         /\ \A i \in 1..Len(t) : Append(t, <<>>)[i] = t[i]
  OBVIOUS

LEMMA TypesOfQueues ==
  ASSUME FmqTypes
  PROVE  /\ Rings \in Seq(RingRecords) /\ Objects \in Seq(ObjectRecords) /\ mir \in Seq(MirrorsOfQueues)
         /\ sent \in Seq(Nat) /\ got \in Seq(Seq(Nat)) /\ delivered \in Seq(Seq(Nat)) /\ list \in Seq(Nat)
         /\ Len(mir) = Len(Objects) /\ Len(got) = Len(Objects)
         /\ Len(sent) = Len(Rings) /\ Len(delivered) = Len(Rings)
  BY RecordFields, Zenon DEF FmqTypes, Rings, Objects

LEMMA FmqMirrorIs ==
  ASSUME NEW sync \in BOOLEAN, NEW id \in Nat
  PROVE  LET m == FmqMirror("uint16_t", sync, id)
         IN  m \in MirrorsOfQueues /\ m.id = id /\ m.sync = sync
  BY DEF FmqMirror, MirrorsOfQueues

LEMMA NewRingIs ==
  ASSUME NEW size \in Sizes
  PROVE  RingHolds(NewRing(size), 0) /\ Fits(NewRing(size)) /\ NewRing(size).wr = 0 /\ NewRing(size).rd = 0
         /\ NewRing(size).cap = size
<1>1. size \in Nat \ {0}
  BY SizesArePositive
<1> DEFINE b == [i \in 0..(size - 1) |-> 0]
<1>2. b \in [0..(size - 1) -> Nat]
  OBVIOUS
<1> HIDE DEF b
<1>3. NewRing(size) = [cap |-> size, buf |-> b, wr |-> 0, rd |-> 0]
  BY Zenon DEF NewRing, b
<1>4. NewRing(size).cap = size /\ NewRing(size).buf = b /\ NewRing(size).wr = 0 /\ NewRing(size).rd = 0
  BY <1>3
<1> QED
  BY <1>1, <1>2, <1>4 DEF RingHolds, Fits

(* Every action keeps the invariant.                                       *)
LEMMA NewQueueKeeps ==
  ASSUME FmqInv, NEW sync \in BOOLEAN, NEW size \in Sizes, NewQueue(sync, size)
  PROVE  FmqInv'
<1> DEFINE n == Len(Objects)
           k == Len(Rings)
           r == NewRing(size)
           o == ObjectRecord(k + 1, 0, FALSE)
           m == FmqMirror("uint16_t", sync, n)
<1>1. FmqTypes /\ MirrorsOk /\ RingsHold /\ SyncFits /\ GotBehind /\ GotInOrder /\ GotOnce /\ ListInOrder
  BY Zenon DEF FmqInv
<1>2. /\ Rings \in Seq(RingRecords) /\ Objects \in Seq(ObjectRecords) /\ mir \in Seq(MirrorsOfQueues)
      /\ sent \in Seq(Nat) /\ got \in Seq(Seq(Nat)) /\ delivered \in Seq(Seq(Nat)) /\ list \in Seq(Nat)
      /\ Len(mir) = n /\ Len(got) = n /\ Len(sent) = k /\ Len(delivered) = k
  BY <1>1, TypesOfQueues, Zenon
<1>3. /\ fmqs' \in Sessions /\ Rings' = Append(Rings, r) /\ r \in RingRecords
      /\ Objects' = Append(Objects, o) /\ mir' = Append(mir, m)
      /\ sent' = Append(sent, 0) /\ got' = Append(got, <<>>)
      /\ delivered' = Append(delivered, <<>>) /\ list' = list
  BY <1>1, NewQueueIs, Zenon
<1>4. RingHolds(r, 0) /\ Fits(r) /\ r.wr = 0 /\ r.rd = 0
  BY NewRingIs, Zenon
<1> HIDE DEF n, k, r
<1>5. n \in Nat /\ k \in Nat /\ k + 1 \in Nat
  BY <1>2
<1>6. o \in ObjectRecords /\ o.ring = k + 1 /\ m \in MirrorsOfQueues /\ m.id = n /\ m.sync = sync
  <2>1. 0 \in Nat /\ FALSE \in BOOLEAN
    OBVIOUS
  <2>2. o \in ObjectRecords /\ o.ring = k + 1
    BY <1>5, <2>1, ObjectRecordIs, Zenon
  <2>3. m \in MirrorsOfQueues /\ m.id = n /\ m.sync = sync
    BY <1>5, FmqMirrorIs, Zenon
  <2> QED  BY <2>2, <2>3, Zenon
<1> HIDE DEF o, m
<1>7. /\ Objects' \in Seq(ObjectRecords) /\ Len(Objects') = n + 1 /\ Objects'[n + 1] = o
      /\ \A i \in 1..n : Objects'[i] = Objects[i]
  BY <1>2, <1>3, <1>6 DEF n
<1>8. /\ Rings' \in Seq(RingRecords) /\ Len(Rings') = k + 1 /\ Rings'[k + 1] = r
      /\ \A i \in 1..k : Rings'[i] = Rings[i]
  BY <1>2, <1>3, <1>6 DEF k
<1>9. /\ mir' \in Seq(MirrorsOfQueues) /\ Len(mir') = n + 1 /\ mir'[n + 1] = m
      /\ \A i \in 1..n : mir'[i] = mir[i]
  BY <1>2, <1>3, <1>6, SMTT(40)
<1>10. /\ got' \in Seq(Seq(Nat)) /\ Len(got') = n + 1 /\ got'[n + 1] = <<>>
       /\ \A i \in 1..n : got'[i] = got[i]
  BY <1>2, <1>3, AppendedList, Zenon
<1>11. /\ sent' \in Seq(Nat) /\ Len(sent') = k + 1 /\ sent'[k + 1] = 0
       /\ \A i \in 1..k : sent'[i] = sent[i]
  BY <1>2, <1>3, SMTT(40)
<1>12. /\ delivered' \in Seq(Seq(Nat)) /\ Len(delivered') = k + 1 /\ delivered'[k + 1] = <<>>
       /\ \A i \in 1..k : delivered'[i] = delivered[i]
  BY <1>2, <1>3, AppendedList, Zenon
<1>13. /\ \A i \in 1..(n + 1) : i \in 1..n \/ i = n + 1
       /\ \A i \in 1..(k + 1) : i \in 1..k \/ i = k + 1
       /\ \A i \in 1..k : i # k + 1 /\ i \in 1..(k + 1)
       /\ k + 1 \in 1..(k + 1) /\ (n + 1) - 1 = n
  BY <1>5
<1>14. /\ \A i \in 1..n : mir[i].id = i - 1 /\ Objects[i].ring \in 1..k
       /\ \A i, j \in 1..n : Objects[i].ring = Objects[j].ring => mir[i].sync = mir[j].sync
  BY <1>1, Zenon DEF MirrorsOk, n, k
<1> DEFINE Old(i) == /\ i \in 1..n /\ Objects'[i] = Objects[i] /\ mir'[i] = mir[i] /\ got'[i] = got[i]
                     /\ Objects'[i].ring \in 1..k /\ Objects'[i].ring # k + 1
                     /\ Objects'[i].ring \in 1..(k + 1)
                     /\ sent'[Objects[i].ring] = sent[Objects[i].ring]
                     /\ Rings'[Objects[i].ring] = Rings[Objects[i].ring]
           New(i) == /\ i = n + 1 /\ Objects'[i].ring = k + 1 /\ mir'[i].sync = sync /\ mir'[i].id = n
                     /\ got'[i] = <<>> /\ Rings'[Objects'[i].ring] = r
<1>15. FmqTypes'
  BY <1>2, <1>3, <1>7, <1>8, <1>9, <1>10, <1>11, <1>12, Zenon DEF FmqTypes
<1>23. ASSUME NEW i \in 1..(n + 1) PROVE Old(i) \/ New(i)
  <2>1. CASE i \in 1..n
    <3>1. Objects'[i] = Objects[i] /\ mir'[i] = mir[i] /\ got'[i] = got[i] /\ Objects[i].ring \in 1..k
      BY <2>1, <1>7, <1>9, <1>10, <1>14, Zenon
    <3> QED  BY <2>1, <3>1, <1>8, <1>11, <1>13, Zenon
  <2>2. CASE i = n + 1
    BY <2>2, <1>6, <1>7, <1>8, <1>9, <1>10, Zenon
  <2> QED  BY <2>1, <2>2, <1>13, Zenon
<1>16. MirrorsOk'
  <2>1. ASSUME NEW i \in 1..(n + 1) PROVE mir'[i].id = i - 1 /\ Objects'[i].ring \in 1..(k + 1)
    <3>1. CASE Old(i)
      BY <3>1, <1>14, Zenon
    <3>2. CASE New(i)
      BY <3>2, <1>13, Zenon
    <3> QED  BY <1>23, <3>1, <3>2, Zenon
  <2>2. ASSUME NEW i \in 1..(n + 1), NEW j \in 1..(n + 1), Objects'[i].ring = Objects'[j].ring
        PROVE  mir'[i].sync = mir'[j].sync
    <3>1. CASE Old(i) /\ Old(j)
      BY <3>1, <2>2, <1>14, Zenon
    <3>2. CASE New(i) /\ New(j)
      BY <3>2, Zenon
    <3>3. ~(Old(i) /\ New(j)) /\ ~(New(i) /\ Old(j))
      BY <2>2, Zenon
    <3> QED  BY <1>23, <3>1, <3>2, <3>3, Zenon
  <2> QED  BY <2>1, <2>2, <1>7, <1>8, Zenon DEF MirrorsOk
<1>17. RingsHold'
  <2>1. ASSUME NEW i \in 1..(k + 1) PROVE RingHolds(Rings'[i], sent'[i])
    BY <1>1, <1>4, <1>8, <1>11, <1>13, Zenon DEF RingsHold, k
  <2> QED  BY <2>1, <1>8, Zenon DEF RingsHold
<1>18. SyncFits'
  <2>1. ASSUME NEW i \in 1..(n + 1), mir'[i].sync PROVE Fits(Rings'[Objects'[i].ring])
    <3>1. CASE Old(i)
      BY <3>1, <2>1, <1>1, Zenon DEF SyncFits, n
    <3>2. CASE New(i)
      BY <3>2, <1>4, Zenon
    <3> QED  BY <1>23, <3>1, <3>2, Zenon
  <2> QED  BY <2>1, <1>7, Zenon DEF SyncFits
<1>19. GotBehind'
  <2>1. ASSUME NEW i \in 1..(n + 1), NEW x \in 1..Len(got'[i])
        PROVE  got'[i][x] <= sent'[Objects'[i].ring] /\ got'[i][x] <= Ahead(i)'
    <3>1. CASE Old(i)
      <4>1. Ahead(i)' = Ahead(i)
        BY <3>1, Zenon DEF Ahead, Pointer
      <4> QED  BY <3>1, <4>1, <2>1, <1>1, Zenon DEF GotBehind, n
    <3>2. CASE New(i)
      <4>1. got'[i] = <<>>
        BY <3>2, Zenon
      <4>2. 1..Len(<<>>) = {}
        OBVIOUS
      <4> QED  BY <4>1, <4>2, <2>1, Zenon
    <3> QED  BY <1>23, <3>1, <3>2, Zenon
  <2> QED  BY <2>1, <1>7, Zenon DEF GotBehind
<1>20. GotInOrder'
  <2>1. Increasing(<<>>)
    BY DEF Increasing
  <2>2. ASSUME NEW i \in 1..(n + 1) PROVE Increasing(got'[i])
    BY <2>1, <1>1, <1>10, <1>13, Zenon DEF GotInOrder, n
  <2> QED  BY <2>2, <1>7, Zenon DEF GotInOrder
<1>21. GotOnce'
  <2>1. ASSUME NEW i \in 1..(n + 1), NEW j \in 1..(n + 1), i # j, Objects'[i].ring = Objects'[j].ring, mir'[i].sync,
               NEW x \in 1..Len(got'[i]), NEW y \in 1..Len(got'[j])
        PROVE  got'[i][x] # got'[j][y]
    <3>1. CASE Old(i) /\ Old(j)
      <4>1. /\ i \in 1..n /\ j \in 1..n /\ Objects[i].ring = Objects[j].ring /\ mir[i].sync
            /\ x \in 1..Len(got[i]) /\ y \in 1..Len(got[j])
        BY <3>1, <2>1, Zenon
      <4>2. got[i][x] # got[j][y]
        BY <4>1, <2>1, <1>1, Zenon DEF GotOnce, n
      <4> QED  BY <4>2, <3>1, Zenon
    <3>2. ~(New(i) /\ New(j)) /\ ~(Old(i) /\ New(j)) /\ ~(New(i) /\ Old(j))
      BY <2>1, Zenon
    <3> QED  BY <1>23, <3>1, <3>2, Zenon
  <2> QED  BY <2>1, <1>7, Zenon DEF GotOnce
<1>22. ListInOrder'
  BY <1>1, <1>3, Zenon DEF ListInOrder
<1> QED
  BY <1>15, <1>16, <1>17, <1>18, <1>19, <1>20, <1>21, <1>22, Zenon DEF FmqInv

LEMMA AttachQueueKeeps ==
  ASSUME FmqInv, NEW h \in DOMAIN mir, NEW reset \in BOOLEAN, AttachQueue(h, reset)
  PROVE  FmqInv'
<1> DEFINE n == Len(Objects)
           c == Len(Rings)
           k == Objects[h].ring
           r == Rings[k]
           q == IF reset THEN RingRecord(r.cap, r.buf, 0, 0) ELSE r
           o == ObjectRecord(k, 0, Objects[h].event)
           m == FmqMirror("uint16_t", mir[h].sync, n)
<1>1. FmqTypes /\ MirrorsOk /\ RingsHold /\ SyncFits /\ GotBehind /\ GotInOrder /\ GotOnce /\ ListInOrder
  BY Zenon DEF FmqInv
<1>2. /\ Rings \in Seq(RingRecords) /\ Objects \in Seq(ObjectRecords) /\ mir \in Seq(MirrorsOfQueues)
      /\ sent \in Seq(Nat) /\ got \in Seq(Seq(Nat)) /\ delivered \in Seq(Seq(Nat)) /\ list \in Seq(Nat)
      /\ Len(mir) = n /\ Len(got) = n /\ Len(sent) = c /\ Len(delivered) = c
  BY <1>1, TypesOfQueues, Zenon
<1>3. /\ fmqs' \in Sessions /\ Rings' = [Rings EXCEPT ![k] = q]
      /\ Objects' = Append(Objects, o) /\ mir' = Append(mir, m) /\ got' = Append(got, <<>>)
      /\ sent' = sent /\ delivered' = delivered /\ list' = list
  BY <1>1, AttachQueueIs, Zenon
<1>4. h \in 1..n /\ k \in 1..c /\ mir[h].sync \in BOOLEAN /\ sent[k] \in Nat
  BY <1>1, MirrorIs, Zenon
<1>5. r \in RingRecords /\ r.cap \in Sizes /\ r.buf \in Bufs /\ r.cap \in Nat \ {0} /\ Objects[h].event \in BOOLEAN
  BY <1>2, <1>4, ElementOfRing, RingFields, SizesArePositive, ElementOfObjects, ObjectFields, Zenon
<1>6. RingHolds(r, sent[k])
  BY <1>1, <1>4, Zenon DEF RingsHold
<1> HIDE DEF n, c, r
<1>7. 0 \in Nat /\ n \in Nat /\ k \in Nat
  BY <1>2, <1>4, SMTT(40) DEF n
<1>8. q \in RingRecords /\ (reset => q.wr = 0 /\ q.rd = 0 /\ q.cap = r.cap /\ q.buf = r.buf)
  <2>1. /\ RingRecord(r.cap, r.buf, 0, 0) \in RingRecords
        /\ RingRecord(r.cap, r.buf, 0, 0).wr = 0 /\ RingRecord(r.cap, r.buf, 0, 0).rd = 0
        /\ RingRecord(r.cap, r.buf, 0, 0).cap = r.cap /\ RingRecord(r.cap, r.buf, 0, 0).buf = r.buf
    BY <1>5, <1>7, RingRecordIs
  <2> QED  BY <2>1, <1>5, Zenon
<1>9. RingHolds(q, sent[k]) /\ (Fits(r) => Fits(q))
  <2>1. CASE reset
    <3> HIDE DEF q
    <3>1. r.buf \in [0..(r.cap - 1) -> Nat]
      BY <1>6, Zenon DEF RingHolds
    <3> QED  BY <2>1, <3>1, <1>4, <1>5, <1>8 DEF RingHolds, Fits
  <2>2. CASE ~reset
    BY <2>2, <1>6, Zenon
  <2> QED  BY <2>1, <2>2, Zenon
<1>10. o \in ObjectRecords /\ o.ring = k /\ m \in MirrorsOfQueues /\ m.id = n /\ m.sync = mir[h].sync
  <2> HIDE DEF k
  <2>2. o \in ObjectRecords /\ o.ring = k
    BY <1>5, <1>7, ObjectRecordIs
  <2>3. m \in MirrorsOfQueues /\ m.id = n /\ m.sync = mir[h].sync
    BY <1>4, <1>7, FmqMirrorIs, Zenon
  <2> QED  BY <2>2, <2>3, Zenon
<1> HIDE DEF o, m, q, k
<1>11. /\ Objects' \in Seq(ObjectRecords) /\ Len(Objects') = n + 1 /\ Objects'[n + 1] = o
       /\ \A i \in 1..n : Objects'[i] = Objects[i]
  BY <1>2, <1>3, <1>10, SMTT(40) DEF n
<1>12. /\ Rings' \in Seq(RingRecords) /\ Len(Rings') = c /\ Rings'[k] = q
       /\ \A i \in 1..c : i # k => Rings'[i] = Rings[i]
  BY <1>2, <1>3, <1>4, <1>8, PutRing, SMTT(40) DEF c
<1>13. /\ mir' \in Seq(MirrorsOfQueues) /\ Len(mir') = n + 1 /\ mir'[n + 1] = m
       /\ \A i \in 1..n : mir'[i] = mir[i]
  BY <1>2, <1>3, <1>10, SMTT(40)
<1>14. /\ got' \in Seq(Seq(Nat)) /\ Len(got') = n + 1 /\ got'[n + 1] = <<>>
       /\ \A i \in 1..n : got'[i] = got[i]
  BY <1>2, <1>3, AppendedList, Zenon
<1>15. /\ \A i \in 1..(n + 1) : i \in 1..n \/ i = n + 1
       /\ (n + 1) - 1 = n
  BY <1>7
<1>16. /\ \A i \in 1..n : mir[i].id = i - 1 /\ Objects[i].ring \in 1..c
       /\ \A i, j \in 1..n : Objects[i].ring = Objects[j].ring => mir[i].sync = mir[j].sync
  BY <1>1, Zenon DEF MirrorsOk, n, c
<1> DEFINE Old(i) == /\ i \in 1..n /\ Objects'[i] = Objects[i] /\ mir'[i] = mir[i] /\ got'[i] = got[i]
                     /\ Objects[i].ring \in 1..c
           New(i) == /\ i = n + 1 /\ Objects'[i].ring = k /\ mir'[i].sync = mir[h].sync /\ mir'[i].id = n
                     /\ got'[i] = <<>>
<1>17. ASSUME NEW i \in 1..(n + 1) PROVE Old(i) \/ New(i)
  BY <1>10, <1>11, <1>13, <1>14, <1>15, <1>16, Zenon
<1>18. FmqTypes'
  BY <1>2, <1>3, <1>11, <1>12, <1>13, <1>14, Zenon DEF FmqTypes
<1>19. MirrorsOk'
  <2>1. ASSUME NEW i \in 1..(n + 1) PROVE mir'[i].id = i - 1 /\ Objects'[i].ring \in 1..c
    <3>1. CASE Old(i)
      BY <3>1, <1>16, Zenon
    <3>2. CASE New(i)
      BY <3>2, <1>4, <1>15, Zenon
    <3> QED  BY <1>17, <3>1, <3>2, Zenon
  <2>2. ASSUME NEW i \in 1..(n + 1) PROVE Objects'[i].ring = k => mir'[i].sync = mir[h].sync
    <3>1. CASE Old(i)
      BY <3>1, <1>4, <1>16, Zenon DEF k
    <3>2. CASE New(i)
      BY <3>2, Zenon
    <3> QED  BY <1>17, <3>1, <3>2, Zenon
  <2>3. ASSUME NEW i \in 1..(n + 1), NEW j \in 1..(n + 1), Objects'[i].ring = Objects'[j].ring
        PROVE  mir'[i].sync = mir'[j].sync
    <3>1. CASE Old(i) /\ Old(j)
      BY <3>1, <2>3, <1>16, Zenon
    <3>2. CASE New(i) \/ New(j)
      <4>1. Objects'[i].ring = k /\ Objects'[j].ring = k
        BY <3>2, <2>3, Zenon
      <4> QED  BY <4>1, <2>2, Zenon
    <3> QED  BY <1>17, <3>1, <3>2, Zenon
  <2> QED  BY <2>1, <2>3, <1>11, <1>12, Zenon DEF MirrorsOk
<1>20. RingsHold'
  <2>1. ASSUME NEW i \in 1..c PROVE RingHolds(Rings'[i], sent'[i])
    BY <1>1, <1>3, <1>9, <1>12, Zenon DEF RingsHold, c
  <2> QED  BY <2>1, <1>12, Zenon DEF RingsHold
<1>21. SyncFits'
  <2>1. ASSUME NEW i \in 1..n, mir[i].sync PROVE Fits(Rings'[Objects[i].ring])
    <3>1. CASE Objects[i].ring = k
      <4>1. Fits(r)
        BY <2>1, <3>1, <1>1, Zenon DEF SyncFits, n, r
      <4> QED  BY <4>1, <3>1, <1>9, <1>12, Zenon
    <3>2. CASE Objects[i].ring # k
      BY <2>1, <3>2, <1>1, <1>12, <1>16, Zenon DEF SyncFits, n
    <3> QED  BY <3>1, <3>2, Zenon
  <2>2. ASSUME NEW i \in 1..(n + 1), mir'[i].sync PROVE Fits(Rings'[Objects'[i].ring])
    <3>1. CASE Old(i)
      BY <3>1, <2>1, <2>2, Zenon
    <3>2. CASE New(i)
      <4>1. Objects'[i].ring = Objects[h].ring /\ mir[h].sync
        BY <3>2, <2>2, Zenon DEF k
      <4> QED  BY <4>1, <2>1, <1>4, Zenon
    <3> QED  BY <1>17, <3>1, <3>2, Zenon
  <2> QED  BY <2>2, <1>11, Zenon DEF SyncFits
<1>22. GotBehind'
  <2>1. ASSUME NEW i \in 1..(n + 1), NEW x \in 1..Len(got'[i])
        PROVE  got'[i][x] <= sent'[Objects'[i].ring] /\ got'[i][x] <= Ahead(i)'
    <3>1. CASE Old(i)
      <4>1. got'[i][x] = got[i][x] /\ got[i][x] <= sent[Objects[i].ring] /\ got[i][x] <= Ahead(i)
        BY <3>1, <2>1, <1>1, Zenon DEF GotBehind, n
      <4>2. CASE ~(reset /\ Objects[i].ring = k)
        <5>1. Rings'[Objects[i].ring] = Rings[Objects[i].ring]
          BY <4>2, <3>1, <1>12, Zenon DEF q, r
        <5>2. Ahead(i)' = Ahead(i)
          <6>1. Rings'[Objects'[i].ring] = Rings[Objects[i].ring] /\ sent'[Objects'[i].ring] = sent[Objects[i].ring]
            BY <5>1, <3>1, <1>3, Zenon
          <6>2. Pointer(i)' = Pointer(i)
            BY <6>1, <3>1, Zenon DEF Pointer
          <6> QED  BY <6>1, <6>2, Zenon DEF Ahead
        <5> QED  BY <4>1, <5>2, <3>1, <1>3, Zenon
      <4>3. CASE reset /\ Objects[i].ring = k
        <5>1. Rings'[Objects'[i].ring].wr = 0 /\ Rings'[Objects'[i].ring].rd = 0 /\ sent'[Objects'[i].ring] = sent[k]
          BY <4>3, <3>1, <1>3, <1>8, <1>12, Zenon
        <5>2. Objects'[i].rd \in Nat
          BY <3>1, <1>2, ElementOfObjects, ObjectFields, Zenon DEF n
        <5>3. Pointer(i)' \in Nat
          BY <5>1, <5>2, <1>7, Zenon DEF Pointer
        <5>4. Ahead(i)' = (sent[k] - 0) + Pointer(i)'
          BY <5>1, Zenon DEF Ahead
        <5>5. sent[k] <= Ahead(i)' /\ Ahead(i)' \in Nat
          BY <5>3, <5>4, <1>4
        <5>6. got[i][x] \in Nat
          <6>1. got[i] \in Seq(Nat)
            BY <3>1, <1>2
          <6>2. x \in 1..Len(got[i])
            BY <3>1, <2>1, Zenon
          <6> QED  BY <6>1, <6>2
        <5>7. got[i][x] <= sent[k]
          BY <4>1, <4>3, Zenon
        <5>8. got[i][x] <= Ahead(i)'
          BY <5>5, <5>6, <5>7, <1>4
        <5> QED  BY <5>7, <5>8, <4>1, <5>1, Zenon
      <4> QED  BY <4>2, <4>3, Zenon
    <3>2. CASE New(i)
      <4>1. got'[i] = <<>>
        BY <3>2, Zenon
      <4>2. 1..Len(<<>>) = {}
        OBVIOUS
      <4> QED  BY <4>1, <4>2, <2>1, Zenon
    <3> QED  BY <1>17, <3>1, <3>2, Zenon
  <2> QED  BY <2>1, <1>11, Zenon DEF GotBehind
<1>23. GotInOrder'
  <2>1. Increasing(<<>>)
    BY DEF Increasing
  <2>2. ASSUME NEW i \in 1..(n + 1) PROVE Increasing(got'[i])
    BY <2>1, <1>1, <1>14, <1>15, Zenon DEF GotInOrder, n
  <2> QED  BY <2>2, <1>11, Zenon DEF GotInOrder
<1>24. GotOnce'
  <2>0. 1..Len(<<>>) = {}
    OBVIOUS
  <2>1. ASSUME NEW i \in 1..(n + 1), NEW j \in 1..(n + 1), i # j, Objects'[i].ring = Objects'[j].ring, mir'[i].sync,
               NEW x \in 1..Len(got'[i]), NEW y \in 1..Len(got'[j])
        PROVE  got'[i][x] # got'[j][y]
    <3>1. CASE Old(i) /\ Old(j)
      <4>1. /\ i \in 1..n /\ j \in 1..n /\ Objects[i].ring = Objects[j].ring /\ mir[i].sync
            /\ x \in 1..Len(got[i]) /\ y \in 1..Len(got[j])
        BY <3>1, <2>1, Zenon
      <4>2. got[i][x] # got[j][y]
        BY <4>1, <2>1, <1>1, Zenon DEF GotOnce, n
      <4> QED  BY <4>2, <3>1, Zenon
    <3>2. ~New(i) /\ ~New(j)
      BY <2>0, <2>1, Zenon
    <3> QED  BY <1>17, <3>1, <3>2, Zenon
  <2> QED  BY <2>1, <1>11, Zenon DEF GotOnce
<1>25. ListInOrder'
  BY <1>1, <1>3, Zenon DEF ListInOrder
<1> QED
  BY <1>18, <1>19, <1>20, <1>21, <1>22, <1>23, <1>24, <1>25, Zenon DEF FmqInv

LEMMA PutCount ==
  ASSUME NEW t \in Seq(Nat), NEW k \in 1..Len(t), NEW e \in Nat
  PROVE  /\ [t EXCEPT ![k] = e] \in Seq(Nat) /\ Len([t EXCEPT ![k] = e]) = Len(t)
         /\ [t EXCEPT ![k] = e][k] = e
         /\ \A i \in 1..Len(t) : i # k => [t EXCEPT ![k] = e][i] = t[i]
  OBVIOUS

LEMMA GotTypes ==
  ASSUME FmqTypes, NEW i \in 1..Len(Objects)
  PROVE  got[i] \in Seq(Nat) /\ Len(got[i]) \in Nat /\ \A x \in 1..Len(got[i]) : got[i][x] \in Nat
<1>1. got \in Seq(Seq(Nat)) /\ Len(got) = Len(Objects)
  BY DEF FmqTypes
<1>2. got[i] \in Seq(Nat)
  BY <1>1
<1> QED
  BY <1>2, SMTT(40)

LEMMA FmqUnchanged ==
  ASSUME FmqInv, UNCHANGED fmqVars
  PROVE  FmqInv'
<1>1. FmqTypes /\ MirrorsOk /\ RingsHold /\ SyncFits /\ GotBehind /\ GotInOrder /\ GotOnce /\ ListInOrder
  BY Zenon DEF FmqInv
<1>2. fmqs' = fmqs /\ mir' = mir /\ sent' = sent /\ got' = got /\ list' = list /\ delivered' = delivered
  BY DEF fmqVars
<1>3. Rings' = Rings /\ Objects' = Objects
  BY <1>2, Zenon DEF Rings, Objects
<1>4. FmqTypes'
  BY <1>1, <1>2, <1>3, Zenon DEF FmqTypes
<1>5. MirrorsOk'
  BY <1>1, <1>2, <1>3 DEF MirrorsOk
<1>6. RingsHold'
  BY <1>1, <1>2, <1>3, Zenon DEF RingsHold
<1>7. SyncFits'
  BY <1>1, <1>2, <1>3, Zenon DEF SyncFits
<1>8. GotInOrder'
  BY <1>1, <1>2, <1>3, Zenon DEF GotInOrder
<1>9. GotOnce'
  BY <1>1, <1>2, <1>3, SMTT(40) DEF GotOnce
<1>10. ListInOrder'
  BY <1>1, <1>2, Zenon DEF ListInOrder
<1>11. GotBehind'
  <2>1. \A i : Ahead(i)' = Ahead(i)
    BY <1>2, <1>3, Zenon DEF Ahead, Pointer
  <2> QED  BY <2>1, <1>1, <1>2, <1>3, SMTT(40) DEF GotBehind
<1> QED
  BY <1>4, <1>5, <1>6, <1>7, <1>8, <1>9, <1>10, <1>11, Zenon DEF FmqInv

LEMMA WriteItemsKeeps ==
  ASSUME FmqInv, NEW h \in DOMAIN mir, NEW l \in Nat, WriteItems(h, l)
  PROVE  FmqInv'
<1> DEFINE n == Len(Objects)
           c == Len(Rings)
           k == Objects[h].ring
           r == Rings[k]
           b == WriteBuf(r, Line(sent[k], l))
           q == RingRecord(r.cap, b, r.wr + l, r.rd)
<1>1. FmqTypes /\ MirrorsOk /\ RingsHold /\ SyncFits /\ GotBehind /\ GotInOrder /\ GotOnce /\ ListInOrder
  BY Zenon DEF FmqInv
<1>2. /\ Rings \in Seq(RingRecords) /\ Objects \in Seq(ObjectRecords)
      /\ sent \in Seq(Nat) /\ Len(sent) = c
  BY <1>1, TypesOfQueues, Zenon
<1>3. /\ mir' = mir /\ list' = list /\ got' = got /\ delivered' = delivered
      /\ \/ fmqs' = fmqs /\ sent' = sent
         \/ /\ fmqs' \in Sessions /\ Objects' = Objects /\ sent' = [sent EXCEPT ![k] = sent[k] + l]
            /\ ~(l > Room1(h))
            /\ Rings' = [Rings EXCEPT ![k] = q]
  BY <1>1, WriteItemsIs, Zenon
<1>4. h \in 1..n /\ k \in 1..c /\ mir[h].sync \in BOOLEAN /\ sent[k] \in Nat
  BY <1>1, MirrorIs, ZenonT(40)
<1>5. CASE fmqs' = fmqs /\ sent' = sent
  <2>1. UNCHANGED fmqVars
    BY <1>3, <1>5, Zenon DEF fmqVars
  <2> QED  BY <2>1, FmqUnchanged, Zenon
<1>6. CASE /\ fmqs' \in Sessions /\ Objects' = Objects /\ sent' = [sent EXCEPT ![k] = sent[k] + l]
           /\ ~(l > Room1(h)) /\ Rings' = [Rings EXCEPT ![k] = q]
  <2>1. /\ r \in RingRecords /\ r.cap \in Sizes /\ r.cap \in Nat \ {0} /\ r.buf \in Bufs
        /\ r.wr \in Nat /\ r.rd \in Nat /\ r.wr + l \in Nat /\ sent[k] + l \in Nat
    BY <1>2, <1>4, ElementOfRing, RingFields, SizesArePositive, Sum, Zenon
  <2>2. RingHolds(r, sent[k]) /\ (mir[h].sync => Fits(r))
    BY <1>1, <1>4, Zenon DEF RingsHold, SyncFits
  <2>3. Room1(h) = IF mir[h].sync THEN r.cap - (r.wr - r.rd) ELSE r.cap
    BY Zenon DEF Room1
  <2> HIDE DEF r
  <2>4. l <= r.cap /\ (mir[h].sync => r.wr + l <= r.rd + r.cap)
    <3>1. CASE mir[h].sync
      <4>1. Room1(h) = r.cap - (r.wr - r.rd)
        BY <3>1, <2>3, Zenon
      <4>2. r.rd <= r.wr
        BY <3>1, <2>2, Zenon DEF Fits
      <4>3. ~(l > Room1(h))
        BY <1>6, Zenon
      <4> QED  BY <4>1, <4>2, <4>3, <2>1
    <3>2. CASE ~mir[h].sync
      <4>1. Room1(h) = r.cap
        BY <3>2, <2>3, Zenon
      <4>3. ~(l > Room1(h))
        BY <1>6, Zenon
      <4> QED  BY <4>1, <4>3, <3>2, <2>1
    <3> QED  BY <3>1, <3>2, Zenon
  <2>5. RingHolds(q, sent[k] + l)
    BY <2>1, <2>2, <2>4, <1>4, WriteHolds, Zenon
  <2>6. b \in Bufs
    <3>1. Line(sent[k], l) \in Seq(Nat) /\ r.buf \in [0..(r.cap - 1) -> Nat]
      BY <1>4, <2>2, LineIs, Zenon DEF RingHolds
    <3> QED  BY <3>1, <2>1, WriteBufType, BufsHold, Zenon
  <2> HIDE DEF b, k, n, c
  <2>7. q \in RingRecords /\ q.cap = r.cap /\ q.wr = r.wr + l /\ q.rd = r.rd
    BY <2>1, <2>6, RingRecordIs, SMTT(40)
  <2> HIDE DEF q
  <2>8. mir[h].sync => Fits(q)
    <3>1. ASSUME mir[h].sync PROVE Fits(q)
      <4>1. r.rd <= r.wr /\ r.wr + l <= r.rd + r.cap
        BY <3>1, <2>2, <2>4, Zenon DEF Fits
      <4> QED  BY <4>1, <2>1, <2>7 DEF Fits
    <3> QED  BY <3>1, Zenon
  <2>9. /\ Rings' \in Seq(RingRecords) /\ Len(Rings') = c /\ Rings'[k] = q
        /\ \A i \in 1..c : i # k => Rings'[i] = Rings[i]
    BY <1>2, <1>4, <1>6, <2>7, PutRing, SMTT(40) DEF c
  <2>10. /\ sent' \in Seq(Nat) /\ Len(sent') = c /\ sent'[k] = sent[k] + l
         /\ \A i \in 1..c : i # k => sent'[i] = sent[i]
    BY <1>2, <1>4, <1>6, <2>1, PutCount, SMTT(40)
  <2>11. /\ \A i \in 1..n : mir[i].id = i - 1 /\ Objects[i].ring \in 1..c
         /\ \A i, j \in 1..n : Objects[i].ring = Objects[j].ring => mir[i].sync = mir[j].sync
    BY <1>1, Zenon DEF MirrorsOk, n, c
  <2>12. FmqTypes'
    BY <1>1, <1>3, <1>6, <2>9, <2>10, Zenon DEF FmqTypes, c
  <2>13. MirrorsOk'
    BY <1>1, <1>3, <1>6, <2>9, Zenon DEF MirrorsOk, c
  <2>14. RingsHold'
    <3>1. ASSUME NEW i \in 1..c PROVE RingHolds(Rings'[i], sent'[i])
      <4>1. CASE i = k
        BY <4>1, <2>5, <2>9, <2>10, Zenon
      <4>2. CASE i # k
        BY <4>2, <1>1, <2>9, <2>10, Zenon DEF RingsHold, c
      <4> QED  BY <4>1, <4>2, Zenon
    <3> QED  BY <3>1, <2>9, Zenon DEF RingsHold
  <2>15. SyncFits'
    <3>1. ASSUME NEW i \in 1..n, mir[i].sync PROVE Fits(Rings'[Objects[i].ring])
      <4>1. CASE Objects[i].ring = k
        <5>1. mir[h].sync
          BY <4>1, <3>1, <1>4, <2>11, Zenon DEF k
        <5> QED  BY <5>1, <4>1, <2>8, <2>9, Zenon
      <4>2. CASE Objects[i].ring # k
        BY <4>2, <3>1, <1>1, <2>9, <2>11, Zenon DEF SyncFits, n
      <4> QED  BY <4>1, <4>2, Zenon
    <3> QED  BY <3>1, <1>3, <1>6, Zenon DEF SyncFits, n
  <2>16. GotBehind'
    <3>1. ASSUME NEW i \in 1..n, NEW x \in 1..Len(got[i])
          PROVE  got[i][x] <= sent'[Objects[i].ring] /\ got[i][x] <= Ahead(i)'
      <4>1. got[i][x] <= sent[Objects[i].ring] /\ got[i][x] <= Ahead(i)
        BY <3>1, <1>1, Zenon DEF GotBehind, n
      <4>2. got[i][x] \in Nat
        BY <3>1, <1>1, GotTypes, Zenon DEF n
      <4>3. CASE Objects[i].ring = k
        <5>1. Rings'[Objects'[i].ring] = q /\ sent'[Objects'[i].ring] = sent[k] + l /\ Objects'[i].rd = Objects[i].rd
              /\ mir'[i].sync = mir[i].sync
          BY <4>3, <1>3, <1>6, <2>9, <2>10, Zenon
        <5>2. Pointer(i)' = Pointer(i)
          <6>1. Rings[Objects[i].ring].rd = r.rd
            BY <4>3, Zenon DEF r
          <6> QED  BY <5>1, <6>1, <2>7, Zenon DEF Pointer
        <5>3. Ahead(i)' = ((sent[k] + l) - (r.wr + l)) + Pointer(i)
          BY <5>1, <5>2, <2>7, Zenon DEF Ahead
        <5>4. Ahead(i) = (sent[k] - r.wr) + Pointer(i)
          BY <4>3, Zenon DEF Ahead, r
        <5>5. (sent[k] + l) - (r.wr + l) = sent[k] - r.wr
          <6>1. \A x1, y1, z1 \in Nat : (x1 + z1) - (y1 + z1) = x1 - y1
            OBVIOUS
          <6> QED  BY <6>1, <1>4, <2>1, ZenonT(40)
        <5>6. Ahead(i)' = Ahead(i)
          BY <5>3, <5>4, <5>5, Zenon
        <5>7. got[i][x] <= sent[k] + l
          BY <4>1, <4>2, <4>3, <1>4
        <5> QED  BY <4>1, <4>3, <5>6, <5>7, <2>10, Zenon
      <4>4. CASE Objects[i].ring # k
        <5>1. Rings'[Objects[i].ring] = Rings[Objects[i].ring] /\ sent'[Objects[i].ring] = sent[Objects[i].ring]
          BY <4>4, <3>1, <2>9, <2>10, <2>11, Zenon
        <5>2. Pointer(i)' = Pointer(i)
          <6>1. Objects'[i] = Objects[i] /\ mir'[i] = mir[i]
            BY <1>3, <1>6, Zenon
          <6> QED  BY <5>1, <6>1, Zenon DEF Pointer
        <5>3. Ahead(i)' = Ahead(i)
          BY <5>1, <5>2, <1>6, Zenon DEF Ahead
        <5> QED  BY <5>1, <5>3, <4>1, Zenon
      <4> QED  BY <4>3, <4>4, Zenon
    <3> QED  BY <3>1, <1>3, <1>6, Zenon DEF GotBehind, n
  <2>17. GotInOrder' /\ GotOnce' /\ ListInOrder'
    <3>1. got' = got /\ Objects' = Objects /\ mir' = mir /\ list' = list
      BY <1>3, <1>6, Zenon
    <3>2. GotInOrder'
      BY <1>1, <3>1, Zenon DEF GotInOrder
    <3>3. GotOnce'
      BY <1>1, <3>1, SMTT(40) DEF GotOnce
    <3>4. ListInOrder'
      BY <1>1, <3>1, Zenon DEF ListInOrder
    <3> QED  BY <3>2, <3>3, <3>4, Zenon
  <2> QED
    BY <2>12, <2>13, <2>14, <2>15, <2>16, <2>17, Zenon DEF FmqInv
<1> QED
  BY <1>3, <1>5, <1>6, Zenon

(* A sequence followed by the numbers after A.                             *)
LEMMA Continued ==
  ASSUME NEW t \in Seq(Nat), NEW A \in Nat, NEW l \in Nat
  PROVE  /\ t \o Line(A, l) \in Seq(Nat)
         /\ \A x \in 1..Len(t \o Line(A, l)) :
              \/ x \in 1..Len(t) /\ (t \o Line(A, l))[x] = t[x]
              \/ x \notin 1..Len(t) /\ (t \o Line(A, l))[x] = A + (x - Len(t))
                 /\ x - Len(t) \in 1..l
<1>1. Line(A, l) \in Seq(Nat) /\ Len(Line(A, l)) = l
  BY LineIs, Zenon
<1>2. \A j \in 1..l : Line(A, l)[j] = A + j
  BY Zenon DEF Line
<1> DEFINE u == Line(A, l)
<1>5. u \in Seq(Nat) /\ Len(u) = l
  BY <1>1
<1> HIDE DEF u
<1>3. t \o u \in Seq(Nat) /\ Len(t \o u) = Len(t) + l
  BY <1>5, SMTT(40)
<1>4. ASSUME NEW x \in 1..Len(t \o u)
      PROVE  \/ x \in 1..Len(t) /\ (t \o u)[x] = t[x]
             \/ x \notin 1..Len(t) /\ (t \o u)[x] = A + (x - Len(t)) /\ x - Len(t) \in 1..l
  <2>1. CASE x \in 1..Len(t)
    BY <2>1, <1>5
  <2>2. CASE x \notin 1..Len(t)
    <3>1. x - Len(t) \in 1..l
      BY <2>2, <1>3
    <3>2. (t \o u)[x] = u[x - Len(t)]
      BY <2>2, <3>1, <1>5, <1>3
    <3> QED  BY <2>2, <3>1, <3>2, <1>2, Zenon DEF u
  <2> QED  BY <2>1, <2>2
<1> QED
  BY <1>3, <1>4, Zenon DEF u

(* Items that follow the ones already read keep the list increasing.       *)
LEMMA ContinuedIncreases ==
  ASSUME NEW t \in Seq(Nat), NEW A \in Nat, NEW l \in Nat, Increasing(t),
         \A x \in 1..Len(t) : t[x] <= A
  PROVE  Increasing(t \o Line(A, l))
<1> DEFINE u == t \o Line(A, l)
<1>1. u \in Seq(Nat) /\ Len(t) \in Nat
  BY Continued
<1>2. \A x \in 1..Len(u) :
        \/ x \in 1..Len(t) /\ u[x] = t[x]
        \/ x \notin 1..Len(t) /\ u[x] = A + (x - Len(t)) /\ x - Len(t) \in 1..l
  BY Continued, Zenon
<1>3. \A i, j \in 1..Len(t) : i < j => t[i] < t[j]
  BY DEF Increasing
<1>4. \A x \in 1..Len(t) : t[x] \in Nat
  OBVIOUS
<1> HIDE DEF u
<1>5. ASSUME NEW i \in 1..Len(u), NEW j \in 1..Len(u), i < j
      PROVE  u[i] < u[j]
  <2>1. CASE i \in 1..Len(t) /\ j \in 1..Len(t)
    BY <2>1, <1>2, <1>3, <1>5
  <2>2. CASE i \in 1..Len(t) /\ j \notin 1..Len(t)
    <3>1. u[i] = t[i] /\ t[i] <= A /\ t[i] \in Nat
      BY <2>2, <1>2, <1>4, Zenon
    <3>2. u[j] = A + (j - Len(t)) /\ j - Len(t) \in 1..l
      BY <2>2, <1>2, Zenon
    <3> DEFINE d == j - Len(t)
    <3>3. u[j] = A + d /\ d \in 1..l
      BY <3>2
    <3> HIDE DEF d
    <3> QED  BY <3>1, <3>3
  <2>3. CASE i \notin 1..Len(t)
    <3>1. j \notin 1..Len(t)
      BY <2>3, <1>1, <1>5
    <3>2. u[i] = A + (i - Len(t)) /\ u[j] = A + (j - Len(t))
      BY <2>3, <3>1, <1>2, Zenon
    <3>3. A + (i - Len(t)) < A + (j - Len(t))
      BY <1>1, <1>5
    <3> QED  BY <3>2, <3>3, Zenon
  <2> QED  BY <2>1, <2>2, <2>3
<1>6. DOMAIN u = 1..Len(u)
  BY <1>1
<1> QED
  BY <1>5, <1>6 DEF Increasing, u

LEMMA LineInOrder ==
  ASSUME NEW A \in Nat, NEW l \in 1..2
  PROVE  /\ Len(Line(A, l)) <= 2
         /\ \A x, y \in 1..Len(Line(A, l)) : x < y => Line(A, l)[y] = Line(A, l)[x] + 1
<1>1. Len(Line(A, l)) = l
  BY LineIs
<1>2. \A j \in 1..l : Line(A, l)[j] = A + j
  BY Zenon DEF Line
<1> QED
  BY <1>1, <1>2

Put(t, k, e) == [t EXCEPT ![k] = e]

LEMMA PutGot ==
  ASSUME NEW t \in Seq(Seq(Nat)), NEW k \in 1..Len(t), NEW e \in Seq(Nat)
  PROVE  /\ Put(t, k, e) \in Seq(Seq(Nat)) /\ Len(Put(t, k, e)) = Len(t) /\ Put(t, k, e)[k] = e
         /\ \A i \in 1..Len(t) : i # k => Put(t, k, e)[i] = t[i]
<1> DEFINE S == Seq(Nat)
<1>1. t \in Seq(S) /\ e \in S
  OBVIOUS
<1> HIDE DEF S
<1>2. /\ Put(t, k, e) \in Seq(S) /\ Len(Put(t, k, e)) = Len(t) /\ Put(t, k, e)[k] = e
      /\ \A i \in 1..Len(t) : i # k => Put(t, k, e)[i] = t[i]
  BY <1>1, SMTT(40) DEF Put
<1> QED
  BY <1>2, Zenon DEF S

(* The rest of the invariant follows from what a read changes: the items   *)
(* after the read pointer A of its ring, and the pointer itself.           *)
LEMMA ReadItemsKeeps ==
  ASSUME FmqInv, NEW h \in DOMAIN mir, NEW l \in 1..2, ReadItems(h, l)
  PROVE  FmqInv'
<1> DEFINE n == Len(Objects)
           c == Len(Rings)
           k == Objects[h].ring
           r == Rings[k]
           p == Pointer(h)
           A == Ahead(h)
           data == [j \in 1..l |-> r.buf[(p + j - 1) % r.cap]]
<1>1. FmqTypes /\ MirrorsOk /\ RingsHold /\ SyncFits /\ GotBehind /\ GotInOrder /\ GotOnce /\ ListInOrder
  BY Zenon DEF FmqInv
<1>2. /\ Rings \in Seq(RingRecords) /\ Objects \in Seq(ObjectRecords) /\ got \in Seq(Seq(Nat))
      /\ delivered \in Seq(Seq(Nat)) /\ Len(got) = n /\ Len(delivered) = c
      /\ sent \in Seq(Nat) /\ Len(sent) = c
  BY <1>1, TypesOfQueues, Zenon
<1>3. l \in Nat
  OBVIOUS
<1>4. /\ mir' = mir /\ sent' = sent
      /\ \/ /\ fmqs' = fmqs /\ list' = <<>> /\ got' = got /\ delivered' = delivered
         \/ /\ ~mir[h].sync /\ fmqs' \in Sessions /\ Rings' = Rings
            /\ (r.wr - p > r.cap \/ r.wr < p)
            /\ Objects' = [Objects EXCEPT ![h] = ObjectRecord(k, r.wr, Objects[h].event)]
            /\ list' = <<>> /\ got' = got /\ delivered' = delivered
         \/ /\ ~mir[h].sync /\ fmqs' \in Sessions /\ Rings' = Rings
            /\ ~(r.wr - p > r.cap) /\ ~(r.wr < p) /\ ~(r.wr - p < l)
            /\ Objects' = [Objects EXCEPT ![h] = ObjectRecord(k, p + l, Objects[h].event)]
            /\ list' = data /\ got' = [got EXCEPT ![h] = got[h] \o data] /\ delivered' = delivered
         \/ /\ mir[h].sync /\ fmqs' \in Sessions /\ Objects' = Objects
            /\ ~(r.wr - p < l)
            /\ Rings' = [Rings EXCEPT ![k] = RingRecord(r.cap, r.buf, r.wr, p + l)]
            /\ list' = data /\ got' = [got EXCEPT ![h] = got[h] \o data]
            /\ delivered' = [delivered EXCEPT ![k] = delivered[k] \o data]
  BY <1>1, <1>3, ReadItemsIs, Zenon
<1>5. h \in 1..n /\ k \in 1..c /\ mir[h].sync \in BOOLEAN /\ sent[k] \in Nat
  BY <1>1, MirrorIs, Zenon
<1>6. /\ r \in RingRecords /\ r.cap \in Sizes /\ r.cap \in Nat \ {0} /\ r.buf \in Bufs /\ r.wr \in Nat /\ r.rd \in Nat
      /\ Objects[h].event \in BOOLEAN /\ Objects[h].rd \in Nat
  BY <1>2, <1>5, ElementOfRing, ElementOfObjects, RingFields, ObjectFields, SizesArePositive, Zenon
<1>7. p \in Nat /\ p = (IF mir[h].sync THEN r.rd ELSE Objects[h].rd) /\ A = (sent[k] - r.wr) + p
  BY <1>6, Zenon DEF Pointer, Ahead
<1>8. RingHolds(r, sent[k]) /\ (mir[h].sync => Fits(r)) /\ r.wr <= sent[k]
  BY <1>1, <1>5, Zenon DEF RingsHold, SyncFits, RingHolds
<1>9. /\ \A i \in 1..n : mir[i].id = i - 1 /\ Objects[i].ring \in 1..c
      /\ \A i, j \in 1..n : Objects[i].ring = Objects[j].ring => mir[i].sync = mir[j].sync
  BY <1>1, Zenon DEF MirrorsOk
<1>10. \A i \in 1..n : got[i] \in Seq(Nat) /\ Len(got[i]) \in Nat /\ \A x \in 1..Len(got[i]) : got[i][x] \in Nat
  BY <1>1, GotTypes, Zenon
<1>11. \A i \in 1..n : \A x \in 1..Len(got[i]) : got[i][x] <= sent[Objects[i].ring] /\ got[i][x] <= Ahead(i)
  BY <1>1, Zenon DEF GotBehind
<1> HIDE DEF p, A, data, r, k, n, c
<1>12. list' = <<>> => ListInOrder' /\ list' \in Seq(Nat)
  BY DEF ListInOrder
<1>20. A = (sent[k] - r.wr) + p /\ p \in Nat
  BY <1>7, Zenon
<1>13. A \in Nat /\ sent[k] - r.wr \in Nat
  BY <1>5, <1>6, <1>7, <1>8
<1>14. CASE fmqs' = fmqs /\ list' = <<>> /\ got' = got /\ delivered' = delivered
  <2>1. FmqTypes'
    BY <1>1, <1>4, <1>12, <1>14, Zenon DEF FmqTypes, Rings, Objects
  <2>2. MirrorsOk' /\ RingsHold' /\ SyncFits' /\ GotInOrder' /\ GotOnce'
    <3>1. Rings' = Rings /\ Objects' = Objects /\ mir' = mir /\ sent' = sent /\ got' = got
      BY <1>4, <1>14, Zenon DEF Rings, Objects
    <3>2. MirrorsOk'
      BY <1>1, <3>1, SMTT(40) DEF MirrorsOk
    <3>3. RingsHold'
      BY <1>1, <3>1, Zenon DEF RingsHold
    <3>4. SyncFits'
      BY <1>1, <3>1, Zenon DEF SyncFits
    <3>5. GotInOrder'
      BY <1>1, <3>1, Zenon DEF GotInOrder
    <3>6. GotOnce'
      BY <1>1, <3>1, SMTT(40) DEF GotOnce
    <3> QED  BY <3>2, <3>3, <3>4, <3>5, <3>6, Zenon
  <2>3. GotBehind'
    BY <1>1, <1>4, <1>14, SMTT(40) DEF GotBehind, Ahead, Pointer, Rings, Objects
  <2> QED  BY <2>1, <2>2, <2>3, <1>12, <1>14, Zenon DEF FmqInv
<1>15. ASSUME NEW w \in Nat, ~mir[h].sync, fmqs' \in Sessions, Rings' = Rings,
              Objects' = [Objects EXCEPT ![h] = ObjectRecord(k, w, Objects[h].event)]
       PROVE  /\ Objects' \in Seq(ObjectRecords) /\ Len(Objects') = n
              /\ \A i \in 1..n : Objects'[i].ring = Objects[i].ring
              /\ \A i \in 1..n : i # h => Ahead(i)' = Ahead(i)
              /\ Ahead(h)' = (sent[k] - r.wr) + w
              /\ MirrorsOk' /\ RingsHold' /\ SyncFits'
  <2>1. /\ ObjectRecord(k, w, Objects[h].event) \in ObjectRecords
        /\ ObjectRecord(k, w, Objects[h].event).ring = k /\ ObjectRecord(k, w, Objects[h].event).rd = w
    <3>1. k \in Nat
      BY <1>5
    <3> QED  BY <3>1, <1>6, ObjectRecordIs, SMTT(40)
  <2> DEFINE o == ObjectRecord(k, w, Objects[h].event)
  <2> HIDE DEF o
  <2>2. /\ Objects' \in Seq(ObjectRecords) /\ Len(Objects') = n /\ Objects'[h] = o
        /\ \A i \in 1..n : i # h => Objects'[i] = Objects[i]
    <3>1. o \in ObjectRecords /\ Objects' = [Objects EXCEPT ![h] = o]
      BY <2>1, <1>15, Zenon DEF o
    <3> QED  BY <3>1, <1>2, <1>5, SMTT(40) DEF n
  <2>3. o.ring = k /\ o.rd = w /\ k = Objects[h].ring
    BY <2>1, Zenon DEF o, k
  <2>4. \A i \in 1..n : Objects'[i].ring = Objects[i].ring
    BY <2>2, <2>3, Zenon
  <2>5. ASSUME NEW i \in 1..n, i # h PROVE Ahead(i)' = Ahead(i)
    <3>1. Objects'[i] = Objects[i] /\ mir'[i] = mir[i]
      BY <2>2, <2>5, <1>4, Zenon
    <3>2. Pointer(i)' = Pointer(i)
      <4>1. Rings'[Objects'[i].ring] = Rings[Objects[i].ring]
        BY <3>1, <1>15, Zenon
      <4> QED  BY <3>1, <4>1, Zenon DEF Pointer
    <3> QED  BY <3>1, <3>2, <1>4, <1>15, Zenon DEF Ahead
  <2>6. Ahead(h)' = (sent[k] - r.wr) + w
    <3>1. Pointer(h)' = w
      BY <2>2, <2>3, <1>4, <1>15, Zenon DEF Pointer
    <3>2. sent'[Objects'[h].ring] = sent[k] /\ Rings'[Objects'[h].ring].wr = r.wr
      BY <2>2, <2>3, <1>4, <1>15, Zenon DEF r
    <3> QED  BY <3>1, <3>2, Zenon DEF Ahead
  <2>7. MirrorsOk'
    <3>1. ASSUME NEW i \in 1..n PROVE mir'[i].id = i - 1 /\ Objects'[i].ring \in 1..c
      BY <1>4, <1>9, <2>4, Zenon
    <3>2. ASSUME NEW i \in 1..n, NEW j \in 1..n, Objects'[i].ring = Objects'[j].ring
          PROVE  mir'[i].sync = mir'[j].sync
      BY <3>2, <1>4, <1>9, <2>4, ZenonT(40)
    <3> QED  BY <3>1, <3>2, <2>2, <1>15, Zenon DEF MirrorsOk, c
  <2>8. RingsHold'
    BY <1>1, <1>4, <1>15, Zenon DEF RingsHold
  <2>9. SyncFits'
    <3>1. ASSUME NEW i \in 1..n, mir'[i].sync PROVE Fits(Rings'[Objects'[i].ring])
      BY <3>1, <1>1, <1>4, <1>15, <2>4, Zenon DEF SyncFits, n
    <3> QED  BY <3>1, <2>2, Zenon DEF SyncFits
  <2> QED  BY <2>2, <2>4, <2>5, <2>6, <2>7, <2>8, <2>9, Zenon
<1>16. CASE /\ ~mir[h].sync /\ fmqs' \in Sessions /\ Rings' = Rings
            /\ Objects' = [Objects EXCEPT ![h] = ObjectRecord(k, r.wr, Objects[h].event)]
            /\ list' = <<>> /\ got' = got /\ delivered' = delivered
  <2>1. /\ Objects' \in Seq(ObjectRecords) /\ Len(Objects') = n
        /\ \A i \in 1..n : Objects'[i].ring = Objects[i].ring
        /\ \A i \in 1..n : i # h => Ahead(i)' = Ahead(i)
        /\ Ahead(h)' = (sent[k] - r.wr) + r.wr
        /\ MirrorsOk' /\ RingsHold' /\ SyncFits'
    BY <1>6, <1>15, <1>16, Zenon
  <2>2. FmqTypes'
    BY <1>1, <1>4, <1>12, <1>16, <2>1, Zenon DEF FmqTypes, n
  <2>3. Ahead(h)' = sent[k]
    BY <2>1, <1>5, <1>6
  <2>4. GotBehind'
    <3>1. ASSUME NEW i \in 1..n, NEW x \in 1..Len(got[i])
          PROVE  got'[i][x] <= sent'[Objects'[i].ring] /\ got'[i][x] <= Ahead(i)'
      BY <1>4, <1>11, <1>16, <2>1, <2>3, Zenon DEF k
    <3> QED  BY <3>1, <1>16, <2>1, Zenon DEF GotBehind
  <2>5. GotInOrder'
    BY <1>1, <1>16, <2>1, Zenon DEF GotInOrder, n
  <2>6. GotOnce'
    <3>1. ASSUME NEW i \in 1..n, NEW j \in 1..n, i # j, Objects'[i].ring = Objects'[j].ring, mir'[i].sync,
                 NEW x \in 1..Len(got'[i]), NEW y \in 1..Len(got'[j])
          PROVE  got'[i][x] # got'[j][y]
      <4>1. Objects[i].ring = Objects[j].ring /\ mir[i].sync
        BY <3>1, <2>1, <1>4, Zenon
      <4>2. got' = got /\ x \in 1..Len(got[i]) /\ y \in 1..Len(got[j])
        BY <3>1, <1>16, Zenon
      <4>3. got[i][x] # got[j][y]
        BY <3>1, <4>1, <4>2, <1>1, Zenon DEF GotOnce, n
      <4> QED  BY <4>2, <4>3, Zenon
    <3> QED  BY <3>1, <2>1, Zenon DEF GotOnce
  <2> QED  BY <2>1, <2>2, <2>4, <2>5, <2>6, <1>12, <1>16, Zenon DEF FmqInv
<1> DEFINE There == p + l <= r.wr /\ r.wr <= p + r.cap
           Taken == list' = data /\ got' = [got EXCEPT ![h] = got[h] \o data]
<1> HIDE DEF There, Taken
<1>17. ASSUME There, Taken
       PROVE  /\ data = Line(A, l) /\ A + l <= sent[k]
              /\ list' \in Seq(Nat) /\ ListInOrder'
              /\ got' \in Seq(Seq(Nat)) /\ Len(got') = n
              /\ \A i \in 1..n : i # h => got'[i] = got[i]
              /\ \A i \in 1..n : Increasing(got'[i])
              /\ \A x \in 1..Len(got'[h]) : \/ x \in 1..Len(got[h]) /\ got'[h][x] = got[h][x]
                                            \/ got'[h][x] \in (A + 1)..(A + l)
  <2>1. data = Line(A, l)
    <3>1. ReadData(r, p, l) = Line((sent[k] - r.wr) + p, l)
      <4>1. r \in RingRecords /\ sent[k] \in Nat /\ RingHolds(r, sent[k]) /\ l \in Nat /\ p \in Nat
            /\ p + l <= r.wr /\ r.wr <= p + r.cap
        BY <1>3, <1>5, <1>6, <1>20, <1>8, <1>17, Zenon DEF There
      <4> QED  BY <4>1, ReadHolds, Zenon
    <3>2. data = ReadData(r, p, l)
      BY Zenon DEF data, ReadData
    <3> QED  BY <3>1, <3>2, <1>20, Zenon
  <2>2. A + l <= sent[k]
    <3>1. p + l <= r.wr
      BY <1>17, Zenon DEF There
    <3> QED  BY <3>1, <1>3, <1>5, <1>6, <1>20
  <2>3. list' \in Seq(Nat)
    BY <2>1, <1>3, <1>13, <1>17, LineIs, Zenon DEF Taken
  <2>4. ListInOrder'
    BY <2>1, <1>13, <1>17, LineInOrder, Zenon DEF ListInOrder, Taken
  <2> DEFINE g == got[h] \o Line(A, l)
  <2>5. g \in Seq(Nat)
    BY <1>3, <1>5, <1>10, <1>13, Continued, Zenon
  <2>6. \A x \in 1..Len(g) :
          \/ x \in 1..Len(got[h]) /\ g[x] = got[h][x]
          \/ x \notin 1..Len(got[h]) /\ g[x] = A + (x - Len(got[h])) /\ x - Len(got[h]) \in 1..l
    BY <1>3, <1>5, <1>10, <1>13, Continued, Zenon
  <2>7. Increasing(g)
    <3>1. Increasing(got[h]) /\ \A x \in 1..Len(got[h]) : got[h][x] <= A
      BY <1>1, <1>5, <1>11, Zenon DEF GotInOrder, n, A
    <3> QED  BY <3>1, <1>3, <1>5, <1>10, <1>13, ContinuedIncreases, Zenon
  <2>8. \A y \in 1..l : A + y \in (A + 1)..(A + l)
    BY <1>3, <1>13
  <2> HIDE DEF g
  <2>9. /\ got' \in Seq(Seq(Nat)) /\ Len(got') = n /\ got'[h] = g
        /\ \A i \in 1..n : i # h => got'[i] = got[i]
    <3>1. got' = Put(got, h, g)
      BY <2>1, <1>17, Zenon DEF g, Taken, Put
    <3>2. got \in Seq(Seq(Nat)) /\ h \in 1..Len(got) /\ Len(got) = n
      BY <1>2, <1>5, Zenon
    <3>3. /\ got' \in Seq(Seq(Nat)) /\ Len(got') = Len(got) /\ got'[h] = g
          /\ \A i \in 1..Len(got) : i # h => got'[i] = got[i]
      BY <3>1, <3>2, <2>5, PutGot, ZenonT(40)
    <3> QED  BY <3>2, <3>3, Zenon
  <2>10. \A i \in 1..n : Increasing(got'[i])
    BY <2>7, <2>9, <1>1, Zenon DEF GotInOrder, n
  <2>11. ASSUME NEW x \in 1..Len(g)
         PROVE  \/ x \in 1..Len(got[h]) /\ g[x] = got[h][x]
                \/ g[x] \in (A + 1)..(A + l)
    BY <2>6, <2>8, Zenon
  <2> QED
    BY <2>1, <2>2, <2>3, <2>4, <2>9, <2>10, <2>11, Zenon
<1>18. CASE /\ ~mir[h].sync /\ fmqs' \in Sessions /\ Rings' = Rings
            /\ ~(r.wr - p > r.cap) /\ ~(r.wr < p) /\ ~(r.wr - p < l)
            /\ Objects' = [Objects EXCEPT ![h] = ObjectRecord(k, p + l, Objects[h].event)]
            /\ list' = data /\ got' = [got EXCEPT ![h] = got[h] \o data] /\ delivered' = delivered
  <2>0. p + l <= r.wr /\ r.wr <= p + r.cap /\ p + l \in Nat
    <3>1. ~(r.wr - p > r.cap) /\ ~(r.wr - p < l)
      BY <1>18, Zenon
    <3> QED  BY <3>1, <1>3, <1>6, <1>7
  <2>1. /\ Objects' \in Seq(ObjectRecords) /\ Len(Objects') = n
        /\ \A i \in 1..n : Objects'[i].ring = Objects[i].ring
        /\ \A i \in 1..n : i # h => Ahead(i)' = Ahead(i)
        /\ Ahead(h)' = (sent[k] - r.wr) + (p + l)
        /\ MirrorsOk' /\ RingsHold' /\ SyncFits'
    BY <2>0, <1>15, <1>18, Zenon
  <2>2. /\ A + l <= sent[k] /\ list' \in Seq(Nat) /\ ListInOrder'
        /\ got' \in Seq(Seq(Nat)) /\ Len(got') = n
        /\ \A i \in 1..n : i # h => got'[i] = got[i]
        /\ \A i \in 1..n : Increasing(got'[i])
        /\ \A x \in 1..Len(got'[h]) : \/ x \in 1..Len(got[h]) /\ got'[h][x] = got[h][x]
                                      \/ got'[h][x] \in (A + 1)..(A + l)
    BY <2>0, <1>17, <1>18, Zenon DEF There, Taken
  <2>3. FmqTypes'
    BY <1>1, <1>4, <1>18, <2>1, <2>2, Zenon DEF FmqTypes, n
  <2>4. Ahead(h)' = A + l
    <3>1. (sent[k] - r.wr) + (p + l) = A + l
      BY <1>3, <1>5, <1>6, <1>20, SMTT(40)
    <3> QED  BY <3>1, <2>1, Zenon
  <2>5. GotBehind'
    <3>1. ASSUME NEW i \in 1..n, NEW x \in 1..Len(got'[i])
          PROVE  got'[i][x] <= sent'[Objects'[i].ring] /\ got'[i][x] <= Ahead(i)'
      <4>1. CASE i # h
        BY <3>1, <4>1, <1>4, <1>11, <2>1, <2>2, Zenon
      <4>2. CASE i = h
        <5>1. got'[h][x] \in Nat /\ got'[h][x] <= A + l
          <6>1. CASE x \in 1..Len(got[h]) /\ got'[h][x] = got[h][x]
            <7>1. got[h][x] \in Nat /\ got[h][x] <= A
              BY <6>1, <1>5, <1>10, <1>11, Zenon DEF A
            <7> QED  BY <6>1, <7>1, <1>3, <1>13
          <6>2. CASE got'[h][x] \in (A + 1)..(A + l)
            BY <6>2, <1>3, <1>13, SMTT(40)
          <6> QED  BY <3>1, <4>2, <2>2, <6>1, <6>2, Zenon
        <5>2. got'[h][x] <= sent[k]
          <6>1. A + l <= sent[k]
            BY <2>2, Zenon
          <6> QED  BY <5>1, <6>1, <1>3, <1>5, <1>13, SMTT(40)
        <5> QED  BY <4>2, <5>1, <5>2, <2>1, <2>4, <1>4, <1>5, Zenon DEF k
      <4> QED  BY <4>1, <4>2, Zenon
    <3> QED  BY <3>1, <2>1, Zenon DEF GotBehind
  <2>6. GotInOrder'
    BY <2>1, <2>2, Zenon DEF GotInOrder
  <2>7. GotOnce'
    <3>1. ASSUME NEW i \in 1..n, NEW j \in 1..n, i # j, Objects'[i].ring = Objects'[j].ring, mir'[i].sync,
                 NEW x \in 1..Len(got'[i]), NEW y \in 1..Len(got'[j])
          PROVE  got'[i][x] # got'[j][y]
      <4>1. Objects[i].ring = Objects[j].ring /\ mir[i].sync
        BY <3>1, <2>1, <1>4, Zenon
      <4>2. mir[j].sync
        BY <4>1, <1>9, Zenon
      <4>3. i # h /\ j # h
        BY <4>1, <4>2, <1>18, Zenon
      <4>4. got'[i] = got[i] /\ got'[j] = got[j]
        BY <4>3, <2>2, Zenon
      <4>5. x \in 1..Len(got[i]) /\ y \in 1..Len(got[j])
        BY <4>4, <3>1, Zenon
      <4>6. got[i][x] # got[j][y]
        BY <3>1, <4>1, <4>5, <1>1, Zenon DEF GotOnce, n
      <4> QED  BY <4>4, <4>6, Zenon
    <3> QED  BY <3>1, <2>1, Zenon DEF GotOnce
  <2> QED  BY <2>1, <2>2, <2>3, <2>5, <2>6, <2>7, Zenon DEF FmqInv
<1>19. CASE /\ mir[h].sync /\ fmqs' \in Sessions /\ Objects' = Objects
            /\ ~(r.wr - p < l)
            /\ Rings' = [Rings EXCEPT ![k] = RingRecord(r.cap, r.buf, r.wr, p + l)]
            /\ list' = data /\ got' = [got EXCEPT ![h] = got[h] \o data]
            /\ delivered' = [delivered EXCEPT ![k] = delivered[k] \o data]
  <2> DEFINE q == RingRecord(r.cap, r.buf, r.wr, p + l)
  <2>0. p + l <= r.wr /\ r.wr <= p + r.cap /\ p + l \in Nat /\ p = r.rd
    <3>1. ~(r.wr - p < l) /\ Fits(r) /\ p = r.rd
      BY <1>19, <1>7, <1>8, Zenon
    <3> QED  BY <3>1, <1>3, <1>6, <1>7 DEF Fits
  <2>1. q \in RingRecords /\ q.cap = r.cap /\ q.buf = r.buf /\ q.wr = r.wr /\ q.rd = p + l
    BY <2>0, <1>6, RingRecordIs, SMTT(40)
  <2>2. /\ data = Line(A, l) /\ A + l <= sent[k] /\ list' \in Seq(Nat) /\ ListInOrder'
        /\ got' \in Seq(Seq(Nat)) /\ Len(got') = n
        /\ \A i \in 1..n : i # h => got'[i] = got[i]
        /\ \A i \in 1..n : Increasing(got'[i])
        /\ \A x \in 1..Len(got'[h]) : \/ x \in 1..Len(got[h]) /\ got'[h][x] = got[h][x]
                                      \/ got'[h][x] \in (A + 1)..(A + l)
    BY <2>0, <1>17, <1>19, Zenon DEF There, Taken
  <2> HIDE DEF q
  <2>3. Rings' = [Rings EXCEPT ![k] = q]
    BY <1>19, Zenon DEF q
  <2>4. /\ Rings' \in Seq(RingRecords) /\ Len(Rings') = c /\ Rings'[k] = q
        /\ \A i \in 1..c : i # k => Rings'[i] = Rings[i]
    BY <1>2, <1>5, <2>1, <2>3, PutRing, SMTT(40) DEF c
  <2>5. delivered' \in Seq(Seq(Nat)) /\ Len(delivered') = c
    <3>1. delivered[k] \in Seq(Nat)
      BY <1>2, <1>5
    <3>2. delivered[k] \o Line(A, l) \in Seq(Nat)
      BY <3>1, <1>3, <1>13, Continued, Zenon
    <3> DEFINE e == delivered[k] \o Line(A, l)
    <3> HIDE DEF e
    <3>3. e \in Seq(Nat) /\ delivered' = Put(delivered, k, e)
      BY <3>2, <2>2, <1>19, Zenon DEF e, Put
    <3>4. delivered \in Seq(Seq(Nat)) /\ k \in 1..Len(delivered) /\ Len(delivered) = c
      BY <1>2, <1>5, Zenon
    <3>5. delivered' \in Seq(Seq(Nat)) /\ Len(delivered') = Len(delivered)
      BY <3>3, <3>4, PutGot, Zenon
    <3> QED  BY <3>4, <3>5, Zenon
  <2>6. FmqTypes'
    BY <1>1, <1>4, <1>19, <2>2, <2>4, <2>5, Zenon DEF FmqTypes, n, c
  <2>7. MirrorsOk'
    BY <1>1, <1>4, <1>19, <2>4, Zenon DEF MirrorsOk, c
  <2>8. RingsHold'
    <3>1. RingHolds(q, sent[k])
      BY <2>1, <1>8, Zenon DEF RingHolds
    <3>2. ASSUME NEW i \in 1..c PROVE RingHolds(Rings'[i], sent'[i])
      <4>1. CASE i = k
        BY <4>1, <3>1, <2>4, <1>4, Zenon
      <4>2. CASE i # k
        BY <4>2, <1>1, <1>4, <2>4, Zenon DEF RingsHold, c
      <4> QED  BY <4>1, <4>2, Zenon
    <3> QED  BY <3>2, <2>4, Zenon DEF RingsHold
  <2>9. SyncFits'
    <3>1. Fits(q)
      BY <2>0, <2>1, <1>3, <1>6 DEF Fits
    <3>2. ASSUME NEW i \in 1..n, mir[i].sync PROVE Fits(Rings'[Objects[i].ring])
      <4>1. CASE Objects[i].ring = k
        BY <4>1, <3>1, <2>4, Zenon
      <4>2. CASE Objects[i].ring # k
        BY <4>2, <3>2, <1>1, <1>9, <2>4, Zenon DEF SyncFits, n
      <4> QED  BY <4>1, <4>2, Zenon
    <3> QED  BY <3>2, <1>4, <1>19, Zenon DEF SyncFits, n
  <2>10. ASSUME NEW i \in 1..n, Objects[i].ring = k PROVE Ahead(i) = A /\ Ahead(i)' = A + l
    <3>1. mir[i].sync
      BY <2>10, <1>5, <1>9, <1>19, Zenon DEF k
    <3>2. Pointer(i) = p
      BY <3>1, <2>0, <2>10, Zenon DEF Pointer, r
    <3>3. Ahead(i) = A
      BY <3>2, <1>7, <2>10, Zenon DEF Ahead, r
    <3>4. Rings'[Objects'[i].ring] = q /\ sent'[Objects'[i].ring] = sent[k] /\ mir'[i].sync
      BY <3>1, <2>4, <2>10, <1>4, <1>19, Zenon
    <3>5. Pointer(i)' = p + l
      BY <3>4, <2>1, Zenon DEF Pointer
    <3>6. Ahead(i)' = (sent[k] - r.wr) + (p + l)
      BY <3>4, <3>5, <2>1, Zenon DEF Ahead
    <3>7. (sent[k] - r.wr) + (p + l) = A + l
      BY <1>3, <1>5, <1>6, <1>7
    <3> QED  BY <3>3, <3>6, <3>7, Zenon
  <2>11. ASSUME NEW i \in 1..n, Objects[i].ring # k PROVE Ahead(i)' = Ahead(i)
    <3>1. Rings'[Objects[i].ring] = Rings[Objects[i].ring]
      BY <2>4, <2>11, <1>9, Zenon
    <3>2. Objects'[i] = Objects[i] /\ mir'[i] = mir[i]
      BY <1>4, <1>19, Zenon
    <3>3. Pointer(i)' = Pointer(i)
      BY <3>1, <3>2, Zenon DEF Pointer
    <3> QED  BY <3>1, <3>2, <3>3, <1>4, Zenon DEF Ahead
  <2>12. ASSUME NEW i \in 1..n, Objects[i].ring = k, NEW x \in 1..Len(got[i])
         PROVE  got[i][x] \in Nat /\ got[i][x] <= A /\ got[i][x] <= sent[k]
    BY <2>10, <2>12, <1>10, <1>11, Zenon
  <2>13. GotBehind'
    <3>1. ASSUME NEW i \in 1..n, NEW x \in 1..Len(got'[i])
          PROVE  got'[i][x] <= sent[Objects[i].ring] /\ got'[i][x] <= Ahead(i)'
      <4>1. CASE Objects[i].ring # k
        <5>1. i # h
          BY <4>1, Zenon DEF k
        <5>2. got'[i] = got[i]
          BY <5>1, <2>2, Zenon
        <5> QED  BY <3>1, <4>1, <5>2, <1>11, <2>11, Zenon
      <4>2. CASE Objects[i].ring = k /\ x \in 1..Len(got[i]) /\ got'[i][x] = got[i][x]
        <5>1. got[i][x] \in Nat /\ got[i][x] <= A /\ got[i][x] <= sent[k]
          BY <4>2, <2>12, Zenon
        <5>2. got[i][x] <= A + l
          BY <5>1, <1>3, <1>13
        <5> QED  BY <4>2, <5>1, <5>2, <2>10, Zenon
      <4>3. CASE Objects[i].ring = k /\ got'[i][x] \in (A + 1)..(A + l)
        <5>1. got'[i][x] <= A + l /\ got'[i][x] <= sent[k]
          <6>1. A + l <= sent[k]
            BY <2>2, Zenon
          <6> QED  BY <4>3, <6>1, <1>3, <1>5, <1>13, SMTT(40)
        <5> QED  BY <4>3, <5>1, <2>10, Zenon
      <4>4. CASE i # h
        <5>1. got'[i] = got[i]
          BY <4>4, <2>2, Zenon
        <5> QED  BY <5>1, <3>1, <4>1, <4>2, Zenon
      <4>5. CASE i = h
        BY <4>5, <3>1, <2>2, <4>1, <4>2, <4>3, Zenon
      <4> QED  BY <4>4, <4>5, Zenon
    <3> QED  BY <3>1, <1>4, <1>19, Zenon DEF GotBehind, n
  <2>14. GotInOrder'
    BY <2>2, <1>19, Zenon DEF GotInOrder, n
  <2>15. ASSUME NEW j \in 1..n, j # h, Objects[j].ring = k,
                NEW x \in 1..Len(got'[h]), NEW y \in 1..Len(got'[j])
         PROVE  got'[h][x] # got'[j][y]
    <3>1. got'[j] = got[j] /\ y \in 1..Len(got[j])
      BY <2>2, <2>15, Zenon
    <3>2. got[j][y] \in Nat /\ got[j][y] <= A
      BY <2>12, <2>15, <3>1, Zenon
    <3>3. CASE got'[h][x] \in (A + 1)..(A + l)
      <4>1. got'[h][x] # got[j][y]
        BY <3>2, <3>3, <1>3, <1>13
      <4> QED  BY <3>1, <4>1, Zenon
    <3>4. CASE x \in 1..Len(got[h]) /\ got'[h][x] = got[h][x]
      <4>1. Objects[h].ring = Objects[j].ring /\ h # j
        BY <2>15, Zenon DEF k
      <4>2. got[h][x] # got[j][y]
        BY <4>1, <3>1, <3>4, <1>1, <1>5, <1>19, Zenon DEF GotOnce, n
      <4> QED  BY <3>1, <3>4, <4>2, Zenon
    <3> QED  BY <2>2, <2>15, <3>3, <3>4, Zenon
  <2>16. GotOnce'
    <3>0. mir' = mir /\ Objects' = Objects /\ Len(Objects') = n
      BY <1>4, <1>19, Zenon DEF n
    <3>1. ASSUME NEW i \in 1..n, NEW j \in 1..n, i # j, Objects'[i].ring = Objects'[j].ring, mir'[i].sync,
                 NEW x \in 1..Len(got'[i]), NEW y \in 1..Len(got'[j])
          PROVE  got'[i][x] # got'[j][y]
      <4>0. Objects[i].ring = Objects[j].ring /\ mir[i].sync
        BY <3>0, <3>1, Zenon
      <4>1. CASE i = h
        BY <4>0, <4>1, <3>1, <2>15, Zenon DEF k
      <4>2. CASE j = h
        BY <4>0, <4>2, <3>1, <2>15, Zenon DEF k
      <4>3. CASE i # h /\ j # h
        <5>1. got'[i] = got[i] /\ got'[j] = got[j]
          BY <4>3, <2>2, ZenonT(40)
        <5>2. x \in 1..Len(got[i]) /\ y \in 1..Len(got[j])
          BY <5>1, <3>1, Zenon
        <5>3. got[i][x] # got[j][y]
          BY <3>1, <4>0, <5>2, <1>1, Zenon DEF GotOnce, n
        <5> QED  BY <5>1, <5>3, Zenon
      <4> QED  BY <4>1, <4>2, <4>3, Zenon
    <3>2. Len(Objects') = n
      BY <3>0, Zenon
    <3> QED  BY <3>1, <3>2, Zenon DEF GotOnce
  <2> QED
    BY <2>2, <2>6, <2>7, <2>8, <2>9, <2>13, <2>14, <2>16, Zenon DEF FmqInv
<1> QED
  BY <1>4, <1>14, <1>16, <1>18, <1>19, Zenon

LEMMA SessionEndsKeeps ==
  ASSUME FmqInv, SessionEnds
  PROVE  FmqInv' /\ Rings' = Rings /\ Objects' = Objects
<1>1. FmqTypes /\ MirrorsOk /\ RingsHold /\ SyncFits /\ GotBehind /\ GotInOrder /\ GotOnce /\ ListInOrder
  BY Zenon DEF FmqInv
<1>2. fmqs' \in Sessions /\ fmqs'.ring = fmqs.ring /\ fmqs'.fmq = fmqs.fmq
  BY <1>1 DEF FmqTypes, SessionEnds, Dead, Sessions
<1>3. Rings' = Rings /\ Objects' = Objects /\ mir' = mir /\ sent' = sent /\ got' = got /\ list' = list
      /\ delivered' = delivered
  BY <1>2, Zenon DEF Rings, Objects, SessionEnds
<1>4. FmqTypes'
  BY <1>1, <1>2, <1>3, Zenon DEF FmqTypes
<1>5. MirrorsOk'
  BY <1>1, <1>3 DEF MirrorsOk
<1>6. RingsHold'
  BY <1>1, <1>3, Zenon DEF RingsHold
<1>7. SyncFits'
  BY <1>1, <1>3, Zenon DEF SyncFits
<1>8. GotInOrder'
  BY <1>1, <1>3, Zenon DEF GotInOrder
<1>9. GotOnce'
  BY <1>1, <1>3, SMTT(40) DEF GotOnce
<1>10. ListInOrder'
  BY <1>1, <1>3, Zenon DEF ListInOrder
<1>11. GotBehind'
  <2>1. \A i : Ahead(i)' = Ahead(i)
    BY <1>3, Zenon DEF Ahead, Pointer
  <2> QED  BY <2>1, <1>1, <1>3, SMTT(40) DEF GotBehind
<1> QED
  BY <1>3, <1>4, <1>5, <1>6, <1>7, <1>8, <1>9, <1>10, <1>11, Zenon DEF FmqInv

LEMMA FmqInitHolds ==
  ASSUME FmqInit
  PROVE  FmqInv
<1>1. fmqs = NoSession /\ mir = <<>> /\ list = <<>> /\ sent = <<>> /\ got = <<>> /\ delivered = <<>>
  BY DEF FmqInit
<1>2. Rings = <<>> /\ Objects = <<>> /\ fmqs \in Sessions
  <2>1. NoSession.ring = <<>> /\ NoSession.fmq = <<>> /\ NoSession.alive = TRUE /\ NoSession.region = <<>>
        /\ NoSession.mem = <<>> /\ NoSession.handle = <<>>
    BY DEF NoSession
  <2> DEFINE f == NoSession.file
  <2>2. NoSession = [alive |-> TRUE, ring |-> <<>>, fmq |-> <<>>, region |-> <<>>, mem |-> <<>>,
                     file |-> f, handle |-> <<>>]
    BY DEF NoSession
  <2> HIDE DEF f
  <2>3. fmqs \in [alive : BOOLEAN, ring : Seq(RingRecords), fmq : Seq(ObjectRecords), region : {<<>>}, mem : {<<>>},
                  file : {f}, handle : {<<>>}]
    BY <2>2, <1>1
  <2> QED  BY <2>1, <2>3, <1>1, Zenon DEF Sessions, Rings, Objects, f
<1>3. FmqTypes
  BY <1>1, <1>2 DEF FmqTypes
<1>4. 1..Len(<<>>) = {}
  OBVIOUS
<1>5. MirrorsOk /\ RingsHold /\ SyncFits /\ GotBehind /\ GotInOrder /\ GotOnce
  BY <1>2, <1>4, Zenon DEF MirrorsOk, RingsHold, SyncFits, GotBehind, GotInOrder, GotOnce
<1>6. ListInOrder
  BY <1>1 DEF ListInOrder
<1> QED
  BY <1>3, <1>5, <1>6, Zenon DEF FmqInv

LEMMA FmqStep ==
  ASSUME FmqInv, [FmqNext]_fmqVars
  PROVE  FmqInv'
<1>1. ASSUME NEW sync \in BOOLEAN, NEW size \in Sizes, NewQueue(sync, size) PROVE FmqInv'
  BY <1>1, NewQueueKeeps, Zenon
<1>2. ASSUME NEW i \in DOMAIN mir, NEW reset \in BOOLEAN, AttachQueue(i, reset) PROVE FmqInv'
  BY <1>2, AttachQueueKeeps, Zenon
<1>3. ASSUME NEW i \in DOMAIN mir, NEW n \in 1..2, WriteItems(i, n) PROVE FmqInv'
  <2>1. n \in Nat
    OBVIOUS
  <2> QED  BY <2>1, <1>3, WriteItemsKeeps, Zenon
<1>4. ASSUME NEW i \in DOMAIN mir, NEW n \in 1..2, ReadItems(i, n) PROVE FmqInv'
  BY <1>4, ReadItemsKeeps, Zenon
<1>5. ASSUME SessionEnds PROVE FmqInv'
  BY <1>5, SessionEndsKeeps, Zenon
<1>6. ASSUME UNCHANGED fmqVars PROVE FmqInv'
  BY <1>6, FmqUnchanged, Zenon
<1> QED
  BY <1>1, <1>2, <1>3, <1>4, <1>5, <1>6, Zenon DEF FmqNext

(* The invariant says what the tests observe.                              *)
LEMMA FmqInvOrders ==
  ASSUME FmqInv
  PROVE  ReadsAreInOrder
<1>1. FmqTypes /\ GotInOrder /\ GotOnce /\ ListInOrder
  BY Zenon DEF FmqInv
<1>2. got \in Seq(Seq(Nat)) /\ Len(got) = Len(Objects) /\ list \in Seq(Nat)
  BY <1>1, TypesOfQueues, Zenon
<1>3. DOMAIN got = 1..Len(Objects) /\ DOMAIN list = 1..Len(list)
  BY <1>2
<1>4. \A i \in DOMAIN got : Increasing(got[i])
  BY <1>1, <1>3, Zenon DEF GotInOrder
<1>5. \A i \in 1..Len(Objects) : DOMAIN got[i] = 1..Len(got[i])
  <2>1. ASSUME NEW i \in 1..Len(Objects) PROVE DOMAIN got[i] = 1..Len(got[i])
    <3>1. got[i] \in Seq(Nat)
      BY <1>1, GotTypes, Zenon
    <3> QED  BY <3>1
  <2> QED  BY <2>1, Zenon
<1>6. ASSUME NEW i \in DOMAIN got, NEW j \in DOMAIN got, i # j, RingIdx(i) = RingIdx(j), mir[i].sync
      PROVE  {got[i][x] : x \in DOMAIN got[i]} \cap {got[j][x] : x \in DOMAIN got[j]} = {}
  <2>1. \A x \in DOMAIN got[i], y \in DOMAIN got[j] : got[i][x] # got[j][y]
    <3>1. Objects[i].ring = Objects[j].ring
      BY <1>6, Zenon DEF RingIdx, Objects
    <3> QED  BY <3>1, <1>1, <1>3, <1>5, <1>6, Zenon DEF GotOnce
  <2> QED  BY <2>1, Zenon
<1>7. Len(list) <= 2 /\ \A x, y \in DOMAIN list : x < y => list[y] = list[x] + 1
  BY <1>1, <1>3, Zenon DEF ListInOrder
<1> QED
  BY <1>4, <1>6, <1>7, Zenon DEF ReadsAreInOrder

(* read of a queue mirror delivers items once each and in order, for any   *)
(* number of queues, mirrors and items and any sizes.                      *)
THEOREM ReadsAreAlwaysInOrder == FmqSpec => []ReadsAreInOrder
<1>1. FmqInit => FmqInv
  BY FmqInitHolds
<1>2. FmqInv /\ [FmqNext]_fmqVars => FmqInv'
  BY FmqStep
<1>3. FmqInv => ReadsAreInOrder
  BY FmqInvOrders
<1> QED
  BY <1>1, <1>2, <1>3, PTL DEF FmqSpec

-----------------------------------------------------------------------------
(* The refinement: the rings as queues.                                    *)
FifoOf(size, items, out) == [size |-> size, items |-> items, out |-> out]
Queues == [k \in DOMAIN fmqs.ring |-> AsFifo(k)]

(* What a step of MessageFifo does to the queues q.                        *)
Creates(q, r) ==
  Len(r) = Len(q) + 1 /\ r = Append(q, [size |-> r[Len(r)].size, items |-> <<>>, out |-> <<>>])
Writes(q, r, i) ==
  /\ Len(r[i].items) <= q[i].size /\ Len(r[i].items) >= Len(q[i].items)
  /\ SubSeq(r[i].items, 1, Len(q[i].items)) = q[i].items
  /\ r = [q EXCEPT ![i].items = r[i].items]
Reads(q, r, i, n) ==
  r = [q EXCEPT ![i].items = SubSeq(@, n + 1, Len(@)), ![i].out = @ \o SubSeq(q[i].items, 1, n)]
Resets(q, r, i) == r = [q EXCEPT ![i].items = <<>>]

(* A function on the rings.                                                *)
IsList(q, c) == q = [k \in 1..c |-> q[k]]

(* A list with one more, empty queue.                                      *)
LEMMA CreatesIf ==
  ASSUME NEW c \in Nat, NEW q, NEW r, IsList(q, c), IsList(r, c + 1), \A k \in 1..c : r[k] = q[k],
         NEW size, r[c + 1] = FifoOf(size, <<>>, <<>>)
  PROVE  Creates(q, r)
<1> DEFINE S == {q[k] : k \in 1..c} \cup {r[c + 1]}
<1>1. \A k \in 1..c : q[k] \in S
  OBVIOUS
<1>2. r[c + 1] \in S
  OBVIOUS
<1>3. DOMAIN q = 1..c /\ DOMAIN r = 1..(c + 1)
  BY Zenon DEF IsList
<1> HIDE DEF S
<1>4. q \in [1..c -> S]
  BY <1>1, Zenon DEF IsList
<1>5. q \in Seq(S) /\ Len(q) = c
  BY <1>4
<1>6. \A k \in 1..(c + 1) : k \in 1..c \/ k = c + 1
  OBVIOUS
<1>7. r \in [1..(c + 1) -> S]
  <2>1. \A k \in 1..(c + 1) : r[k] \in S
    BY <1>1, <1>2, <1>6, Zenon
  <2> QED  BY <2>1, Zenon DEF IsList
<1>8. r \in Seq(S) /\ Len(r) = c + 1
  BY <1>7
<1>9. r = Append(q, r[c + 1])
  BY <1>2, <1>5, <1>8
<1>10. r[c + 1].size = size
  BY DEF FifoOf
<1> QED
  BY <1>5, <1>8, <1>9, <1>10, Zenon DEF Creates, FifoOf

(* Lists that differ in one queue.                                         *)
LEMMA ItemsPut ==
  ASSUME NEW c, NEW q, NEW r, IsList(q, c), IsList(r, c), NEW k \in 1..c,
         \A j \in 1..c : j # k => r[j] = q[j],
         NEW s, NEW i, NEW o, NEW x, q[k] = FifoOf(s, i, o), r[k] = FifoOf(s, x, o)
  PROVE  r = [q EXCEPT ![k].items = x]
<1>1. DOMAIN q = 1..c /\ DOMAIN r = 1..c
  BY Zenon DEF IsList
<1>2. [q[k] EXCEPT !.items = x] = FifoOf(s, x, o)
  BY DEF FifoOf
<1>3. [q EXCEPT ![k].items = x] = [j \in 1..c |-> IF j = k THEN [q[k] EXCEPT !.items = x] ELSE q[j]]
  BY <1>1, Zenon
<1>4. r = [j \in 1..c |-> IF j = k THEN FifoOf(s, x, o) ELSE q[j]]
  BY <1>1, Zenon DEF IsList
<1> QED
  BY <1>2, <1>3, <1>4, Zenon

PutBoth(q, k, x, y) == [q EXCEPT ![k].items = x, ![k].out = y]

LEMMA ItemsAndOutPut ==
  ASSUME NEW c, NEW q, NEW r, IsList(q, c), IsList(r, c), NEW k \in 1..c,
         \A j \in 1..c : j # k => r[j] = q[j],
         NEW s, NEW i, NEW o, NEW x, NEW y, q[k] = FifoOf(s, i, o), r[k] = FifoOf(s, x, y)
  PROVE  r = PutBoth(q, k, x, y)
<1> DEFINE m == [q EXCEPT ![k].items = x]
<1>1. DOMAIN q = 1..c /\ DOMAIN r = 1..c /\ DOMAIN m = 1..c
  BY Zenon DEF IsList
<1>2. m[k] = FifoOf(s, x, o)
  <2>1. [q[k] EXCEPT !.items = x] = FifoOf(s, x, o)
    BY DEF FifoOf
  <2> QED  BY <2>1, <1>1, Zenon
<1>3. \A j \in 1..c : j # k => m[j] = q[j]
  BY <1>1, Zenon
<1>4. [q EXCEPT ![k].items = x, ![k].out = y] = [m EXCEPT ![k].out = y]
  BY Zenon
<1> HIDE DEF m
<1>5. [m[k] EXCEPT !.out = y] = FifoOf(s, x, y)
  BY <1>2 DEF FifoOf
<1>6. [m EXCEPT ![k].out = y] = [j \in 1..c |-> IF j = k THEN [m[k] EXCEPT !.out = y] ELSE m[j]]
  BY <1>1, Zenon
<1>7. r = [j \in 1..c |-> IF j = k THEN FifoOf(s, x, y) ELSE m[j]]
  BY <1>1, <1>3, Zenon DEF IsList
<1>8. r = [q EXCEPT ![k].items = x, ![k].out = y]
  BY <1>4, <1>5, <1>6, <1>7, Zenon
<1> QED
  BY <1>8, Zenon DEF PutBoth

(* Parts of a line.                                                        *)
LEMMA LineBegins ==
  ASSUME NEW a \in Nat, NEW l \in Nat, NEW n \in 0..l
  PROVE  SubSeq(Line(a, l), 1, n) = Line(a, n)
  BY DEF Line

LEMMA LineEnds ==
  ASSUME NEW a \in Nat, NEW l \in Nat, NEW n \in 0..l
  PROVE  SubSeq(Line(a, l), n + 1, l) = Line(a + n, l - n)
  BY DEF Line

(* The items that wait in a ring are the last ones written, in order.      *)
LEMMA WaitingIs ==
  ASSUME NEW r \in RingRecords, NEW s \in Nat, RingHolds(r, s), Fits(r)
  PROVE  /\ Waiting(r) = Line((s - r.wr) + r.rd, r.wr - r.rd)
         /\ (s - r.wr) + r.rd \in Nat /\ r.wr - r.rd \in Nat
<1>1. r.cap \in Nat \ {0} /\ r.wr \in Nat /\ r.rd \in Nat
  BY RingFields, SizesArePositive, Zenon
<1>2. r.wr - r.rd \in Nat /\ r.rd + (r.wr - r.rd) <= r.wr /\ r.wr <= r.rd + r.cap
  BY <1>1 DEF Fits
<1> DEFINE n == r.wr - r.rd
           p == r.rd
<1>3. ReadData(r, p, n) = Line((s - r.wr) + p, n) /\ (s - r.wr) + p \in Nat
  <2>1. n \in Nat /\ p \in Nat /\ p + n <= r.wr /\ r.wr <= p + r.cap
    BY <1>1, <1>2, Zenon
  <2> HIDE DEF n, p
  <2> QED  BY <2>1, ReadHolds
<1>4. Waiting(r) = ReadData(r, r.rd, r.wr - r.rd)
  BY Zenon DEF Waiting, ReadData
<1> QED
  BY <1>2, <1>3, <1>4, Zenon

(* A queue with an object of the synchronized flavor.                      *)
SyncBy(k, objs, ms, n) == \E i \in 1..n : objs[i].ring = k /\ ms[i].sync

LEMMA SyncAppend ==
  ASSUME NEW n \in Nat, NEW objs, NEW ms, NEW objs2, NEW ms2, NEW k,
         \A i \in 1..n : objs2[i] = objs[i], \A i \in 1..n : ms2[i] = ms[i],
         objs2[n + 1].ring = k /\ ms2[n + 1].sync => SyncBy(k, objs, ms, n)
  PROVE  SyncBy(k, objs2, ms2, n + 1) <=> SyncBy(k, objs, ms, n)
<1>1. \A i \in 1..(n + 1) : i \in 1..n \/ i = n + 1
  OBVIOUS
<1>2. \A i \in 1..n : i \in 1..(n + 1)
  OBVIOUS
<1> QED
  BY <1>1, <1>2, Zenon DEF SyncBy

(* The flavor of a ring is that of any of its mirrors.                     *)
LEMMA SyncRingIs ==
  ASSUME FmqTypes, NEW k
  PROVE  SyncRing(k) <=> SyncBy(k, Objects, mir, Len(Objects))
<1>1. DOMAIN mir = 1..Len(Objects)
  BY TypesOfQueues
<1> QED
  BY <1>1, Zenon DEF SyncRing, SyncBy, RingIdx, Objects

LEMMA SyncRingIsNext ==
  ASSUME FmqTypes', NEW k
  PROVE  SyncRing(k)' <=> SyncBy(k, Objects', mir', Len(Objects'))
<1>1. mir' \in Seq(MirrorsOfQueues) /\ Len(mir') = Len(Objects')
  BY Zenon DEF FmqTypes
<1>2. DOMAIN mir' = 1..Len(Objects')
  BY <1>1
<1> QED
  BY <1>2, Zenon DEF SyncRing, SyncBy, RingIdx, Objects

LEMMA SyncOfMirror ==
  ASSUME FmqTypes, MirrorsOk, NEW h \in 1..Len(Objects)
  PROVE  SyncRing(Objects[h].ring) <=> mir[h].sync
<1>1. SyncRing(Objects[h].ring) <=> SyncBy(Objects[h].ring, Objects, mir, Len(Objects))
  BY SyncRingIs, Zenon
<1>2. \A i \in 1..Len(Objects) : Objects[i].ring = Objects[h].ring => mir[i].sync = mir[h].sync
  BY Zenon DEF MirrorsOk
<1>3. SyncBy(Objects[h].ring, Objects, mir, Len(Objects)) <=> mir[h].sync
  BY <1>2, Zenon DEF SyncBy
<1> QED
  BY <1>1, <1>3, Zenon

(* The queues, before and after a step.                                    *)
LEMMA QueuesAre ==
  ASSUME FmqTypes
  PROVE  /\ IsList(Queues, Len(Rings))
         /\ \A k \in 1..Len(Rings) :
              /\ SyncRing(k) => Queues[k] = FifoOf(Rings[k].cap, Waiting(Rings[k]), delivered[k])
              /\ ~SyncRing(k) => Queues[k] = FifoOf(Rings[k].cap, <<>>, <<>>)
<1>1. Rings \in Seq(RingRecords)
  BY TypesOfQueues, Zenon
<1>2. DOMAIN Rings = 1..Len(Rings)
  BY <1>1
<1>3. Queues = [k \in 1..Len(Rings) |-> AsFifo(k)]
  BY <1>2, Zenon DEF Queues, Rings
<1>4. \A k \in 1..Len(Rings) : Queues[k] = AsFifo(k)
  BY <1>3, Zenon
<1>5. ASSUME NEW k \in 1..Len(Rings)
      PROVE  /\ SyncRing(k) => AsFifo(k) = FifoOf(Rings[k].cap, Waiting(Rings[k]), delivered[k])
             /\ ~SyncRing(k) => AsFifo(k) = FifoOf(Rings[k].cap, <<>>, <<>>)
  BY Zenon DEF AsFifo, FifoOf, Rings
<1>6. IsList(Queues, Len(Rings))
  BY <1>3, <1>4, Zenon DEF IsList
<1> QED
  BY <1>4, <1>5, <1>6, Zenon

LEMMA QueuesAreNext ==
  ASSUME FmqTypes'
  PROVE  /\ IsList(Queues', Len(Rings'))
         /\ \A k \in 1..Len(Rings') :
              /\ SyncRing(k)' => Queues'[k] = FifoOf(Rings'[k].cap, Waiting(Rings'[k]), delivered'[k])
              /\ ~SyncRing(k)' => Queues'[k] = FifoOf(Rings'[k].cap, <<>>, <<>>)
<1>1. Rings' \in Seq(RingRecords)
  <2>1. fmqs' \in Sessions
    BY Zenon DEF FmqTypes
  <2> QED  BY <2>1, RecordFields, Zenon DEF Rings
<1>2. DOMAIN Rings' = 1..Len(Rings')
  BY <1>1
<1>3. Queues' = [k \in 1..Len(Rings') |-> AsFifo(k)']
  BY <1>2, Zenon DEF Queues, Rings
<1>4. \A k \in 1..Len(Rings') : Queues'[k] = AsFifo(k)'
  BY <1>3, Zenon
<1>5. ASSUME NEW k \in 1..Len(Rings')
      PROVE  /\ SyncRing(k)' => AsFifo(k)' = FifoOf(Rings'[k].cap, Waiting(Rings'[k]), delivered'[k])
             /\ ~SyncRing(k)' => AsFifo(k)' = FifoOf(Rings'[k].cap, <<>>, <<>>)
  BY Zenon DEF AsFifo, FifoOf, Rings, Waiting
<1>6. IsList(Queues', Len(Rings'))
  BY <1>3, <1>4, Zenon DEF IsList
<1> QED
  BY <1>4, <1>5, <1>6, Zenon

(* A step on a queue, or none.                                             *)
FifoStep(q, r) ==
  \/ Creates(q, r)
  \/ \E i \in DOMAIN q :
       Writes(q, r, i) \/ Resets(q, r, i) \/ \E n \in 0..Len(q[i].items) : Reads(q, r, i, n)
  \/ r = q

LEMMA SameLists ==
  ASSUME NEW q, NEW r, NEW c, IsList(q, c), IsList(r, c), \A k \in 1..c : r[k] = q[k]
  PROVE  FifoStep(q, r)
<1>1. r = q
  BY Zenon DEF IsList
<1> QED
  BY <1>1, Zenon DEF FifoStep

(* Every action is a step of MessageFifo or leaves its queues alone.       *)
LEMMA NewQueueIsStep ==
  ASSUME FmqInv, FmqInv', NEW sync \in BOOLEAN, NEW size \in Sizes, NewQueue(sync, size)
  PROVE  FifoStep(Queues, Queues')
<1> DEFINE n == Len(Objects)
           c == Len(Rings)
           r == NewRing(size)
           o == ObjectRecord(c + 1, 0, FALSE)
<1>1. FmqTypes /\ MirrorsOk /\ FmqTypes'
  BY Zenon DEF FmqInv
<1>2. /\ Rings \in Seq(RingRecords) /\ Objects \in Seq(ObjectRecords) /\ mir \in Seq(MirrorsOfQueues)
      /\ delivered \in Seq(Seq(Nat)) /\ Len(mir) = n /\ Len(delivered) = c
  BY <1>1, TypesOfQueues, Zenon
<1>3. /\ Rings' = Append(Rings, r) /\ r \in RingRecords
      /\ Objects' = Append(Objects, o)
      /\ mir' = Append(mir, FmqMirror("uint16_t", sync, n))
      /\ delivered' = Append(delivered, <<>>)
  BY <1>1, NewQueueIs, Zenon
<1>4. r.wr = 0 /\ r.rd = 0 /\ r.cap = size
  BY NewRingIs, Zenon
<1> HIDE DEF n, c, r
<1>5. n \in Nat /\ c \in Nat /\ c + 1 \in Nat
  BY <1>2 DEF n, c
<1>6. o \in ObjectRecords /\ o.ring = c + 1
  <2>1. 0 \in Nat /\ FALSE \in BOOLEAN
    OBVIOUS
  <2> QED  BY <1>5, <2>1, ObjectRecordIs, Zenon
<1> HIDE DEF o
<1>7. Len(Objects') = n + 1 /\ Objects'[n + 1] = o /\ \A i \in 1..n : Objects'[i] = Objects[i]
  BY <1>2, <1>3, <1>6 DEF n
<1>8. Len(Rings') = c + 1 /\ Rings'[c + 1] = r /\ \A i \in 1..c : Rings'[i] = Rings[i]
  BY <1>2, <1>3 DEF c
<1>9. \A i \in 1..n : mir'[i] = mir[i]
  BY <1>2, <1>3
<1>10. delivered'[c + 1] = <<>> /\ \A i \in 1..c : delivered'[i] = delivered[i]
  BY <1>2, <1>3
<1>11. ASSUME NEW k \in 1..c
       PROVE  SyncRing(k)' <=> SyncRing(k)
  <2>1. k # c + 1
    BY <1>5
  <2>2. SyncBy(k, Objects', mir', n + 1) <=> SyncBy(k, Objects, mir, n)
    BY <2>1, <1>5, <1>6, <1>7, <1>9, SyncAppend, SMTT(40)
  <2> QED  BY <2>2, <1>1, <1>7, SyncRingIs, SyncRingIsNext, Zenon DEF n
<1>12. Waiting(r) = <<>>
  BY <1>4 DEF Waiting
<1>13. c + 1 \in 1..(c + 1) /\ \A k \in 1..c : k \in 1..(c + 1)
  BY <1>5
<1>14. /\ IsList(Queues, c)
       /\ \A k \in 1..c :
            /\ SyncRing(k) => Queues[k] = FifoOf(Rings[k].cap, Waiting(Rings[k]), delivered[k])
            /\ ~SyncRing(k) => Queues[k] = FifoOf(Rings[k].cap, <<>>, <<>>)
  BY <1>1, QueuesAre, Zenon DEF c
<1>15. /\ IsList(Queues', c + 1)
       /\ \A k \in 1..(c + 1) :
            /\ SyncRing(k)' => Queues'[k] = FifoOf(Rings'[k].cap, Waiting(Rings'[k]), delivered'[k])
            /\ ~SyncRing(k)' => Queues'[k] = FifoOf(Rings'[k].cap, <<>>, <<>>)
  <2>1. /\ IsList(Queues', Len(Rings'))
       /\ \A k \in 1..Len(Rings') :
            /\ SyncRing(k)' => Queues'[k] = FifoOf(Rings'[k].cap, Waiting(Rings'[k]), delivered'[k])
            /\ ~SyncRing(k)' => Queues'[k] = FifoOf(Rings'[k].cap, <<>>, <<>>)
    BY <1>1, QueuesAreNext, Zenon
  <2> QED  BY <2>1, <1>8, Zenon
<1>16. \A k \in 1..c : Queues'[k] = Queues[k]
  BY <1>8, <1>10, <1>11, <1>13, <1>14, <1>15, ZenonT(40)
<1>17. Queues'[c + 1] = FifoOf(size, <<>>, <<>>)
  BY <1>4, <1>8, <1>10, <1>12, <1>13, <1>15, Zenon
<1>18. Creates(Queues, Queues')
  BY <1>5, <1>14, <1>15, <1>16, <1>17, CreatesIf
<1> QED
  BY <1>18, Zenon DEF FifoStep

(* What the steps on one ring have in common.                              *)
OnlyRing(k) ==
  /\ k \in 1..Len(Rings) /\ Len(Rings') = Len(Rings) /\ Rings'[k].cap = Rings[k].cap
  /\ \A j \in 1..Len(Rings) : j # k => Rings'[j] = Rings[j] /\ delivered'[j] = delivered[j]
  /\ \A j : SyncRing(j)' <=> SyncRing(j)

LEMMA OnlyRingIs ==
  ASSUME FmqTypes, FmqTypes', NEW k, OnlyRing(k)
  PROVE  /\ k \in 1..Len(Rings)
         /\ IsList(Queues, Len(Rings)) /\ IsList(Queues', Len(Rings))
         /\ \A j \in 1..Len(Rings) : j # k => Queues'[j] = Queues[j]
         /\ SyncRing(k) => /\ Queues[k] = FifoOf(Rings[k].cap, Waiting(Rings[k]), delivered[k])
                           /\ Queues'[k] = FifoOf(Rings[k].cap, Waiting(Rings'[k]), delivered'[k])
         /\ ~SyncRing(k) => Queues'[k] = Queues[k]
<1> DEFINE c == Len(Rings)
<1>1. /\ IsList(Queues, c)
      /\ \A j \in 1..c :
           /\ SyncRing(j) => Queues[j] = FifoOf(Rings[j].cap, Waiting(Rings[j]), delivered[j])
           /\ ~SyncRing(j) => Queues[j] = FifoOf(Rings[j].cap, <<>>, <<>>)
  BY QueuesAre, Zenon
<1>2. /\ IsList(Queues', Len(Rings'))
      /\ \A j \in 1..Len(Rings') :
           /\ SyncRing(j)' => Queues'[j] = FifoOf(Rings'[j].cap, Waiting(Rings'[j]), delivered'[j])
           /\ ~SyncRing(j)' => Queues'[j] = FifoOf(Rings'[j].cap, <<>>, <<>>)
  BY QueuesAreNext, Zenon
<1>3. /\ k \in 1..c /\ Len(Rings') = c /\ Rings'[k].cap = Rings[k].cap
      /\ \A j \in 1..c : j # k => Rings'[j] = Rings[j] /\ delivered'[j] = delivered[j]
      /\ \A j : SyncRing(j)' <=> SyncRing(j)
  BY Zenon DEF OnlyRing
<1> HIDE DEF c
<1>4. /\ IsList(Queues', c)
      /\ \A j \in 1..c :
           /\ SyncRing(j) => Queues'[j] = FifoOf(Rings'[j].cap, Waiting(Rings'[j]), delivered'[j])
           /\ ~SyncRing(j) => Queues'[j] = FifoOf(Rings'[j].cap, <<>>, <<>>)
  BY <1>2, <1>3, Zenon
<1>5. ASSUME NEW j \in 1..c, j # k
      PROVE  Queues'[j] = Queues[j]
  <2>1. Rings'[j] = Rings[j] /\ delivered'[j] = delivered[j]
    BY <1>3, <1>5, Zenon
  <2>2. CASE SyncRing(j)
    <3>1. Queues[j] = FifoOf(Rings[j].cap, Waiting(Rings[j]), delivered[j])
      BY <1>1, <2>2, Zenon
    <3>2. Queues'[j] = FifoOf(Rings'[j].cap, Waiting(Rings'[j]), delivered'[j])
      BY <1>4, <2>2, Zenon
    <3> QED  BY <3>1, <3>2, <2>1, Zenon
  <2>3. CASE ~SyncRing(j)
    <3>1. Queues[j] = FifoOf(Rings[j].cap, <<>>, <<>>)
      BY <1>1, <2>3, Zenon
    <3>2. Queues'[j] = FifoOf(Rings'[j].cap, <<>>, <<>>)
      BY <1>4, <2>3, Zenon
    <3> QED  BY <3>1, <3>2, <2>1, Zenon
  <2> QED  BY <2>2, <2>3, Zenon
<1>6. SyncRing(k) => /\ Queues[k] = FifoOf(Rings[k].cap, Waiting(Rings[k]), delivered[k])
                     /\ Queues'[k] = FifoOf(Rings[k].cap, Waiting(Rings'[k]), delivered'[k])
  BY <1>1, <1>3, <1>4, Zenon
<1>7. ~SyncRing(k) => Queues'[k] = Queues[k]
  BY <1>1, <1>3, <1>4, ZenonT(40)
<1> QED
  BY <1>1, <1>3, <1>4, <1>5, <1>6, <1>7, Zenon DEF c

(* A step on an unsynchronized ring, and one that leaves the ring alone,   *)
(* is a stutter.                                                           *)
LEMMA UnsyncedStep ==
  ASSUME FmqTypes, FmqTypes', NEW k, OnlyRing(k), ~SyncRing(k)
  PROVE  FifoStep(Queues, Queues')
<1>1. /\ IsList(Queues, Len(Rings)) /\ IsList(Queues', Len(Rings))
      /\ \A j \in 1..Len(Rings) : Queues'[j] = Queues[j]
  BY OnlyRingIs, Zenon
<1> QED
  BY <1>1, SameLists, Zenon

LEMMA SameRingStep ==
  ASSUME FmqTypes, FmqTypes', NEW k, OnlyRing(k), Rings'[k] = Rings[k], delivered' = delivered
  PROVE  FifoStep(Queues, Queues')
<1>1. /\ k \in 1..Len(Rings)
      /\ IsList(Queues, Len(Rings)) /\ IsList(Queues', Len(Rings))
      /\ \A j \in 1..Len(Rings) : j # k => Queues'[j] = Queues[j]
      /\ Queues'[k] = Queues[k]
  BY OnlyRingIs, Zenon
<1>2. \A j \in 1..Len(Rings) : Queues'[j] = Queues[j]
  BY <1>1, Zenon
<1> QED
  BY <1>1, <1>2, SameLists, Zenon

(* A step on a synchronized ring is the step of the queue that the change  *)
(* of its items says.                                                      *)
LEMMA ResetStep ==
  ASSUME FmqTypes, FmqTypes', NEW k, OnlyRing(k), SyncRing(k),
         Waiting(Rings'[k]) = <<>>, delivered'[k] = delivered[k]
  PROVE  FifoStep(Queues, Queues')
<1>1. /\ k \in 1..Len(Rings)
      /\ IsList(Queues, Len(Rings)) /\ IsList(Queues', Len(Rings))
      /\ \A j \in 1..Len(Rings) : j # k => Queues'[j] = Queues[j]
      /\ Queues[k] = FifoOf(Rings[k].cap, Waiting(Rings[k]), delivered[k])
      /\ Queues'[k] = FifoOf(Rings[k].cap, <<>>, delivered[k])
  BY OnlyRingIs, Zenon
<1>2. Queues' = [Queues EXCEPT ![k].items = <<>>]
  BY <1>1, ItemsPut
<1>3. k \in DOMAIN Queues
  BY <1>1, Zenon DEF IsList
<1> QED
  BY <1>2, <1>3, Zenon DEF FifoStep, Resets

LEMMA WriteStep ==
  ASSUME FmqTypes, FmqTypes', NEW k, OnlyRing(k), SyncRing(k), NEW a \in Nat, NEW l \in Nat, NEW n \in Nat,
         Waiting(Rings[k]) = Line(a, l), Waiting(Rings'[k]) = Line(a, l + n),
         l + n <= Rings[k].cap, delivered'[k] = delivered[k]
  PROVE  FifoStep(Queues, Queues')
<1> DEFINE cap == Rings[k].cap
           d == delivered[k]
<1>1. /\ k \in 1..Len(Rings)
      /\ IsList(Queues, Len(Rings)) /\ IsList(Queues', Len(Rings))
      /\ \A j \in 1..Len(Rings) : j # k => Queues'[j] = Queues[j]
      /\ Queues[k] = FifoOf(cap, Line(a, l), d)
      /\ Queues'[k] = FifoOf(cap, Line(a, l + n), d)
  BY OnlyRingIs, Zenon
<1>2. l + n <= cap
  OBVIOUS
<1> HIDE DEF cap, d
<1>3. Queues' = [Queues EXCEPT ![k].items = Line(a, l + n)]
  BY <1>1, ItemsPut
<1>4. k \in DOMAIN Queues
  BY <1>1, Zenon DEF IsList
<1>5. Queues[k].size = cap /\ Queues[k].items = Line(a, l) /\ Queues'[k].items = Line(a, l + n)
  <2>1. /\ FifoOf(cap, Line(a, l), d).size = cap /\ FifoOf(cap, Line(a, l), d).items = Line(a, l)
        /\ FifoOf(cap, Line(a, l + n), d).items = Line(a, l + n)
    BY DEF FifoOf
  <2> QED  BY <1>1, <2>1, Zenon
<1>6. Len(Line(a, l)) = l /\ Len(Line(a, l + n)) = l + n /\ l + n >= l /\ l \in 0..(l + n) /\ l + n \in Nat
  BY DEF Line
<1>7. SubSeq(Line(a, l + n), 1, l) = Line(a, l)
  BY <1>6, LineBegins, Zenon
<1>8. Writes(Queues, Queues', k)
  BY <1>2, <1>3, <1>5, <1>6, <1>7, Zenon DEF Writes
<1> QED
  BY <1>4, <1>8, Zenon DEF FifoStep

Took(i, o, n, x, y) == x = SubSeq(i, n + 1, Len(i)) /\ y = o \o SubSeq(i, 1, n)

LEMMA ReadsIf ==
  ASSUME NEW c, NEW q, NEW r, IsList(q, c), IsList(r, c), NEW k \in 1..c,
         \A j \in 1..c : j # k => r[j] = q[j],
         NEW s, NEW i, NEW o, NEW n, NEW x, NEW y, q[k] = FifoOf(s, i, o), r[k] = FifoOf(s, x, y),
         Took(i, o, n, x, y)
  PROVE  Reads(q, r, k, n)
<1>1. r = PutBoth(q, k, x, y)
  BY ItemsAndOutPut
<1>2. q[k].items = i
  BY DEF FifoOf
<1> DEFINE m == [q EXCEPT ![k].items = SubSeq(@, n + 1, Len(@))]
<1>4. m = [q EXCEPT ![k].items = x]
  BY <1>2, Zenon DEF Took
<1>5. q[k].out = o
  BY DEF FifoOf
<1>6. r = [m EXCEPT ![k].out = y]
  BY <1>1, <1>4, Zenon DEF PutBoth
<1>7. r = [m EXCEPT ![k].out = q[k].out \o SubSeq(q[k].items, 1, n)]
  <2> HIDE DEF m
  <2> QED  BY <1>2, <1>5, <1>6, Zenon DEF Took
<1> QED
  BY <1>7, Zenon DEF Reads

LEMMA ReadStep ==
  ASSUME FmqTypes, FmqTypes', NEW k, OnlyRing(k), SyncRing(k), NEW a \in Nat, NEW l \in Nat, NEW n \in 0..l,
         Waiting(Rings[k]) = Line(a, l), Waiting(Rings'[k]) = Line(a + n, l - n),
         delivered'[k] = delivered[k] \o Line(a, n)
  PROVE  FifoStep(Queues, Queues')
<1> DEFINE cap == Rings[k].cap
           d == delivered[k]
<1>1. /\ k \in 1..Len(Rings)
      /\ IsList(Queues, Len(Rings)) /\ IsList(Queues', Len(Rings))
      /\ \A j \in 1..Len(Rings) : j # k => Queues'[j] = Queues[j]
      /\ Queues[k] = FifoOf(cap, Line(a, l), d)
      /\ Queues'[k] = FifoOf(cap, Line(a + n, l - n), d \o Line(a, n))
  BY OnlyRingIs, Zenon
<1> HIDE DEF cap, d
<1>2. k \in DOMAIN Queues
  BY <1>1, Zenon DEF IsList
<1>3. Len(Line(a, l)) = l
  BY DEF Line
<1>4. SubSeq(Line(a, l), 1, n) = Line(a, n) /\ SubSeq(Line(a, l), n + 1, l) = Line(a + n, l - n)
  BY LineBegins, LineEnds
<1>5. Queues[k].items = Line(a, l)
  <2>1. FifoOf(cap, Line(a, l), d).items = Line(a, l)
    BY DEF FifoOf
  <2> QED  BY <1>1, <2>1, Zenon
<1>6. Reads(Queues, Queues', k, n)
  <2> DEFINE i == Line(a, l)
             x == Line(a + n, l - n)
             y == d \o Line(a, n)
  <2>1. Queues[k] = FifoOf(cap, i, d) /\ Queues'[k] = FifoOf(cap, x, y)
    BY <1>1, Zenon
  <2>2. Took(i, d, n, x, y)
    BY <1>3, <1>4, Zenon DEF Took
  <2> HIDE DEF i, x, y
  <2> QED  BY <1>1, <2>1, <2>2, ReadsIf, SMTT(40)
<1>7. n \in 0..Len(Queues[k].items)
  BY <1>3, <1>5, Zenon
<1> QED
  BY <1>2, <1>6, <1>7, Zenon DEF FifoStep

LEMMA AttachQueueIsStep ==
  ASSUME FmqInv, FmqInv', NEW h \in DOMAIN mir, NEW reset \in BOOLEAN, AttachQueue(h, reset)
  PROVE  FifoStep(Queues, Queues')
<1> DEFINE n == Len(Objects)
           c == Len(Rings)
           k == Objects[h].ring
           r == Rings[k]
           z == RingRecord(r.cap, r.buf, 0, 0)
           o == ObjectRecord(k, 0, Objects[h].event)
           m == FmqMirror("uint16_t", mir[h].sync, n)
<1>1. FmqTypes /\ MirrorsOk /\ FmqTypes'
  BY Zenon DEF FmqInv
<1>2. /\ Rings \in Seq(RingRecords) /\ Objects \in Seq(ObjectRecords) /\ mir \in Seq(MirrorsOfQueues)
      /\ Len(mir) = n
  BY <1>1, TypesOfQueues, Zenon
<1>3. /\ h \in 1..n
      /\ Rings' = [Rings EXCEPT ![k] = IF reset THEN z ELSE r]
      /\ Objects' = Append(Objects, o)
      /\ mir' = Append(mir, m)
      /\ delivered' = delivered
  BY <1>1, AttachQueueIs, Zenon
<1>4. k \in 1..c /\ n \in Nat
  <2>1. k \in 1..c
    BY <1>1, <1>3, Zenon DEF MirrorsOk
  <2>2. n \in Nat
    BY <1>2
  <2> QED  BY <2>1, <2>2, Zenon
<1>5. mir[h].sync \in BOOLEAN /\ Objects[h].event \in BOOLEAN /\ k \in Nat
  <2>1. mir[h] \in MirrorsOfQueues /\ Objects[h] \in ObjectRecords
    BY <1>2, <1>3
  <2> QED  BY <2>1 DEF MirrorsOfQueues, ObjectRecords
<1>6. o.ring = k /\ m.sync = mir[h].sync /\ m \in MirrorsOfQueues
  <2>1. o.ring = k
    BY DEF ObjectRecord
  <2>2. m.sync = mir[h].sync /\ m \in MirrorsOfQueues
    BY <1>4, <1>5, FmqMirrorIs, Zenon
  <2> QED  BY <2>1, <2>2, Zenon
<1>7. z.cap = r.cap /\ z.wr = 0 /\ z.rd = 0
  BY DEF RingRecord
<1>8. DOMAIN Rings = 1..c
  BY <1>2, SMTT(40)
<1>9. Len(Rings') = c
  BY <1>2, <1>3, <1>8
<1> HIDE DEF n, c, r, z, o, m
<1>10. Rings'[k] = (IF reset THEN z ELSE r) /\ \A j \in 1..c : j # k => Rings'[j] = Rings[j]
  BY <1>3, <1>4, <1>8, Zenon
<1>11. Len(Objects') = n + 1 /\ Objects'[n + 1] = o /\ \A i \in 1..n : Objects'[i] = Objects[i]
  BY <1>2, <1>3, SMTT(40) DEF n
<1>12. mir'[n + 1] = m /\ \A i \in 1..n : mir'[i] = mir[i]
  BY <1>2, <1>3, <1>6, SMTT(40)
<1>13. ASSUME NEW j
       PROVE  SyncRing(j)' <=> SyncRing(j)
  <2>1. o.ring = j /\ m.sync => SyncBy(j, Objects, mir, n)
    BY <1>3, <1>6, Zenon DEF SyncBy
  <2>2. SyncBy(j, Objects', mir', n + 1) <=> SyncBy(j, Objects, mir, n)
    <3>1. Objects'[n + 1].ring = j /\ mir'[n + 1].sync => SyncBy(j, Objects, mir, n)
      BY <2>1, <1>11, <1>12, Zenon
    <3>2. \A i \in 1..n : Objects'[i] = Objects[i]
      BY <1>11, Zenon
    <3>3. \A i \in 1..n : mir'[i] = mir[i]
      BY <1>12, Zenon
    <3> QED  BY <3>1, <3>2, <3>3, <1>4, SyncAppend, Zenon
  <2> QED  BY <2>2, <1>1, <1>11, SyncRingIs, SyncRingIsNext, Zenon DEF n
<1>14. OnlyRing(k)
  <2>1. Rings'[k].cap = Rings[k].cap
    BY <1>7, <1>10, Zenon DEF r
  <2> QED  BY <2>1, <1>3, <1>4, <1>9, <1>10, <1>13, Zenon DEF OnlyRing, c
<1>15. CASE reset /\ SyncRing(k)
  <2>1. Waiting(z) = <<>>
    BY <1>7 DEF Waiting
  <2>2. Waiting(Rings'[k]) = <<>> /\ delivered'[k] = delivered[k]
    BY <2>1, <1>3, <1>10, <1>15, Zenon
  <2> QED  BY <2>2, <1>1, <1>14, <1>15, ResetStep, Zenon
<1>16. CASE ~SyncRing(k)
  BY <1>1, <1>14, <1>16, UnsyncedStep, Zenon
<1>17. CASE ~reset
  <2>1. Rings'[k] = Rings[k] /\ delivered' = delivered
    BY <1>3, <1>10, <1>17, Zenon DEF r
  <2> QED  BY <2>1, <1>1, <1>14, SameRingStep, Zenon
<1> QED
  BY <1>15, <1>16, <1>17, Zenon

LEMMA SyncStays ==
  ASSUME FmqTypes, FmqTypes', Objects' = Objects, mir' = mir
  PROVE  \A j : SyncRing(j)' <=> SyncRing(j)
  BY SyncRingIs, SyncRingIsNext, Zenon

LEMMA WriteItemsIsStep ==
  ASSUME FmqInv, FmqInv', NEW h \in DOMAIN mir, NEW l \in Nat, WriteItems(h, l)
  PROVE  FifoStep(Queues, Queues')
<1> DEFINE c == Len(Rings)
           k == Objects[h].ring
           r == Rings[k]
           s == sent[k]
           w == RingRecord(r.cap, WriteBuf(r, Line(s, l)), r.wr + l, r.rd)
<1>1. FmqTypes /\ MirrorsOk /\ RingsHold /\ SyncFits /\ FmqTypes' /\ RingsHold' /\ SyncFits'
  BY Zenon DEF FmqInv
<1>2. /\ Rings \in Seq(RingRecords) /\ Objects \in Seq(ObjectRecords) /\ mir \in Seq(MirrorsOfQueues)
      /\ sent \in Seq(Nat) /\ Len(mir) = Len(Objects) /\ Len(sent) = c
  BY <1>1, TypesOfQueues, Zenon
<1>3. h \in 1..Len(Objects)
  BY <1>2
<1>4. k \in 1..c
  BY <1>1, <1>3, Zenon DEF MirrorsOk
<1>5. r \in RingRecords /\ s \in Nat /\ DOMAIN Rings = 1..c /\ DOMAIN sent = 1..c
  BY <1>2, <1>4, SMTT(40)
<1>6. /\ mir' = mir /\ delivered' = delivered
      /\ \/ fmqs' = fmqs
         \/ /\ fmqs' \in Sessions /\ Objects' = Objects /\ sent' = [sent EXCEPT ![k] = s + l]
            /\ Rings' = [Rings EXCEPT ![k] = w]
  BY <1>1, WriteItemsIs, Zenon
<1>7. CASE fmqs' = fmqs
  <2>1. Queues' = Queues
    BY <1>6, <1>7, Zenon DEF Queues, AsFifo, SyncRing, RingIdx
  <2> QED  BY <2>1, Zenon DEF FifoStep
<1>8. ASSUME fmqs' \in Sessions /\ Objects' = Objects /\ sent' = [sent EXCEPT ![k] = s + l],
             Rings' = [Rings EXCEPT ![k] = w]
      PROVE  FifoStep(Queues, Queues')
  <2>1. Len(Rings') = c
    BY <1>2, <1>5, <1>8, SMTT(40)
  <2>2. w.cap = r.cap /\ w.wr = r.wr + l /\ w.rd = r.rd
    BY DEF RingRecord
  <2>3. r.cap \in Nat \ {0} /\ r.wr \in Nat /\ r.rd \in Nat
    BY <1>5, RingFields, SizesArePositive, Zenon
  <2>4. Objects'[h] = Objects[h] /\ mir'[h] = mir[h] /\ Len(Objects') = Len(Objects)
    BY <1>6, <1>8, Zenon
  <2> HIDE DEF c, r, s, w
  <2>5. Rings'[k] = w /\ sent'[k] = s + l /\ \A j \in 1..c : j # k => Rings'[j] = Rings[j]
    BY <1>4, <1>5, <1>8, Zenon
  <2>6. \A j : SyncRing(j)' <=> SyncRing(j)
    BY <1>1, <1>6, <1>8, SyncStays, Zenon
  <2>7. OnlyRing(k)
    BY <1>4, <1>6, <2>1, <2>2, <2>5, <2>6, Zenon DEF OnlyRing, c, r
  <2>8. CASE ~SyncRing(k)
    BY <1>1, <2>7, <2>8, UnsyncedStep, Zenon
  <2>9. CASE SyncRing(k)
    <3>1. mir[h].sync
      BY <1>1, <1>3, <2>9, SyncOfMirror, Zenon
    <3>2. RingHolds(r, s) /\ Fits(r)
      BY <1>1, <1>3, <1>4, <3>1, Zenon DEF RingsHold, SyncFits, c, r, s
    <3>3. RingHolds(w, s + l) /\ Fits(w)
      <4>1. k \in 1..Len(Rings')
        BY <1>4, <2>1, Zenon
      <4>2. RingHolds(Rings'[k], sent'[k])
        BY <1>1, <4>1, Zenon DEF RingsHold
      <4>3. Fits(Rings'[Objects'[h].ring])
        BY <1>1, <1>3, <2>4, <3>1, Zenon DEF SyncFits
      <4> QED  BY <4>2, <4>3, <2>4, <2>5, Zenon
    <3>4. w \in RingRecords /\ s + l \in Nat
      <4>1. Rings' \in Seq(RingRecords)
        BY <1>8, RecordFields, Zenon DEF Rings
      <4>2. Rings'[k] \in RingRecords
        BY <4>1, <1>4, <2>1
      <4>3. s + l \in Nat
        BY <1>5
      <4> QED  BY <4>2, <4>3, <2>5, Zenon
    <3>5. /\ Waiting(r) = Line((s - r.wr) + r.rd, r.wr - r.rd)
          /\ (s - r.wr) + r.rd \in Nat /\ r.wr - r.rd \in Nat
      BY <1>5, <3>2, WaitingIs, Zenon
    <3>6. Waiting(w) = Line(((s + l) - w.wr) + w.rd, w.wr - w.rd)
      BY <3>3, <3>4, WaitingIs, Zenon
    <3>7. ((s + l) - w.wr) + w.rd = (s - r.wr) + r.rd /\ w.wr - w.rd = (r.wr - r.rd) + l
      BY <1>5, <2>2, <2>3
    <3>8. Waiting(w) = Line((s - r.wr) + r.rd, (r.wr - r.rd) + l)
      BY <3>6, <3>7, Zenon
    <3>9. (r.wr - r.rd) + l <= r.cap
      BY <2>2, <2>3, <3>3 DEF Fits
    <3>10. Waiting(Rings'[k]) = Line((s - r.wr) + r.rd, (r.wr - r.rd) + l) /\ delivered'[k] = delivered[k]
      BY <1>6, <2>5, <3>8, Zenon
    <3> QED  BY <1>1, <2>7, <2>9, <3>5, <3>9, <3>10, WriteStep, Zenon DEF r
  <2> QED  BY <2>8, <2>9, ZenonT(40)
<1> QED
  BY <1>6, <1>7, <1>8, Zenon

LEMMA ReadItemsIsStep ==
  ASSUME FmqInv, FmqInv', NEW h \in DOMAIN mir, NEW l \in Nat, ReadItems(h, l)
  PROVE  FifoStep(Queues, Queues')
<1> DEFINE c == Len(Rings)
           k == Objects[h].ring
           r == Rings[k]
           s == sent[k]
           p == Pointer(h)
           data == ReadData(r, p, l)
           w == RingRecord(r.cap, r.buf, r.wr, p + l)
<1>1. FmqTypes /\ MirrorsOk /\ RingsHold /\ SyncFits /\ FmqTypes' /\ RingsHold' /\ SyncFits'
  BY Zenon DEF FmqInv
<1>2. /\ Rings \in Seq(RingRecords) /\ Objects \in Seq(ObjectRecords) /\ mir \in Seq(MirrorsOfQueues)
      /\ sent \in Seq(Nat) /\ delivered \in Seq(Seq(Nat)) /\ Len(mir) = Len(Objects) /\ Len(sent) = c
      /\ Len(delivered) = c
  BY <1>1, TypesOfQueues, Zenon
<1>3. h \in 1..Len(Objects)
  BY <1>2
<1>4. k \in 1..c
  BY <1>1, <1>3, Zenon DEF MirrorsOk
<1>5. /\ r \in RingRecords /\ s \in Nat
      /\ DOMAIN Rings = 1..c /\ DOMAIN delivered = 1..c /\ DOMAIN Objects = 1..Len(Objects)
  <2>1. r \in RingRecords /\ s \in Nat
    BY <1>2, <1>4, SMTT(40)
  <2>2. DOMAIN Rings = 1..c
    BY <1>2
  <2>3. DOMAIN delivered = 1..c
    BY <1>2
  <2>4. DOMAIN Objects = 1..Len(Objects)
    BY <1>2
  <2> QED  BY <2>1, <2>2, <2>3, <2>4, Zenon
<1>6. /\ mir' = mir /\ sent' = sent
      /\ \/ fmqs' = fmqs /\ delivered' = delivered
         \/ /\ ~mir[h].sync /\ Rings' = Rings /\ delivered' = delivered
            /\ Objects' = [Objects EXCEPT ![h] = ObjectRecord(k, r.wr, Objects[h].event)]
         \/ /\ ~mir[h].sync /\ Rings' = Rings /\ delivered' = delivered
            /\ Objects' = [Objects EXCEPT ![h] = ObjectRecord(k, p + l, Objects[h].event)]
         \/ /\ mir[h].sync /\ fmqs' \in Sessions /\ Objects' = Objects /\ ~(r.wr - p < l)
            /\ Rings' = [Rings EXCEPT ![k] = w]
            /\ delivered' = [delivered EXCEPT ![k] = delivered[k] \o data]
  BY <1>1, ReadItemsIs, Zenon DEF ReadData
<1>7. CASE fmqs' = fmqs /\ delivered' = delivered
  <2>1. Queues' = Queues
    BY <1>6, <1>7, Zenon DEF Queues, AsFifo, SyncRing, RingIdx
  <2> QED  BY <2>1, Zenon DEF FifoStep
<1>8. ASSUME NEW x, Rings' = Rings, delivered' = delivered,
             Objects' = [Objects EXCEPT ![h] = ObjectRecord(k, x, Objects[h].event)]
      PROVE  FifoStep(Queues, Queues')
  <2>1. Len(Objects') = Len(Objects)
    BY <1>2, <1>5, <1>8, SMTT(40)
  <2>2. ObjectRecord(k, x, Objects[h].event).ring = k
    BY DEF ObjectRecord
  <2>3. \A i \in 1..Len(Objects) : Objects'[i].ring = Objects[i].ring
    BY <1>3, <1>5, <1>8, <2>2, Zenon
  <2>4. \A j : SyncBy(j, Objects', mir', Len(Objects)) <=> SyncBy(j, Objects, mir, Len(Objects))
    BY <1>6, <2>3, Zenon DEF SyncBy
  <2>5. \A j : SyncRing(j)' <=> SyncRing(j)
    BY <1>1, <2>1, <2>4, SyncRingIs, SyncRingIsNext, Zenon
  <2>6. OnlyRing(k)
    BY <1>4, <1>8, <2>5, Zenon DEF OnlyRing
  <2>7. Rings'[k] = Rings[k] /\ delivered' = delivered
    BY <1>8, Zenon
  <2> QED  BY <1>1, <2>6, <2>7, SameRingStep, Zenon
<1>9. ASSUME mir[h].sync, fmqs' \in Sessions, Objects' = Objects, ~(r.wr - p < l),
             Rings' = [Rings EXCEPT ![k] = w],
             delivered' = [delivered EXCEPT ![k] = delivered[k] \o data]
      PROVE  FifoStep(Queues, Queues')
  <2>1. Len(Rings') = c
    BY <1>2, <1>5, <1>9, SMTT(40)
  <2>2. w.cap = r.cap /\ w.wr = r.wr /\ w.rd = p + l
    BY DEF RingRecord
  <2>3. r.cap \in Nat \ {0} /\ r.wr \in Nat /\ r.rd \in Nat
    BY <1>5, RingFields, SizesArePositive, Zenon
  <2>4. Objects'[h] = Objects[h] /\ mir'[h] = mir[h] /\ Len(Objects') = Len(Objects)
    BY <1>6, <1>9, Zenon
  <2>5. p = r.rd
    BY <1>9, Zenon DEF Pointer
  <2>6. ~(r.wr - p < l)
    BY <1>9, Zenon
  <2> HIDE DEF c, r, s, w, p, data
  <2>7. /\ Rings'[k] = w /\ delivered'[k] = delivered[k] \o data
        /\ \A j \in 1..c : j # k => Rings'[j] = Rings[j]
        /\ \A j \in 1..c : j # k => delivered'[j] = delivered[j]
    BY <1>4, <1>5, <1>9, Zenon
  <2>8. \A j : SyncRing(j)' <=> SyncRing(j)
    BY <1>1, <1>6, <1>9, SyncStays, Zenon
  <2>9. OnlyRing(k)
    BY <1>4, <2>1, <2>2, <2>7, <2>8, Zenon DEF OnlyRing, c, r
  <2>10. SyncRing(k)
    BY <1>1, <1>3, <1>9, SyncOfMirror, Zenon
  <2>11. RingHolds(r, s) /\ Fits(r)
    BY <1>1, <1>3, <1>4, <1>9, Zenon DEF RingsHold, SyncFits, c, r, s
  <2>12. RingHolds(w, s) /\ Fits(w) /\ w \in RingRecords
    <3>1. k \in 1..Len(Rings')
      BY <1>4, <2>1, Zenon
    <3>2. RingHolds(Rings'[k], sent'[k])
      BY <1>1, <3>1, Zenon DEF RingsHold
    <3>3. sent'[k] = s
      BY <1>6, Zenon DEF s
    <3>4. Fits(Rings'[Objects'[h].ring])
      BY <1>1, <1>3, <1>9, <2>4, Zenon DEF SyncFits
    <3>5. Rings' \in Seq(RingRecords)
      BY <1>9, RecordFields, Zenon DEF Rings
    <3>6. Rings'[k] \in RingRecords
      BY <3>1, <3>5
    <3> QED  BY <3>2, <3>3, <3>4, <3>6, <2>4, <2>7, ZenonT(40)
  <2> DEFINE a == (s - r.wr) + r.rd
             b == r.wr - r.rd
  <2>13. Waiting(r) = Line(a, b) /\ a \in Nat /\ b \in Nat
    BY <1>5, <2>11, WaitingIs, Zenon
  <2>14. Waiting(w) = Line((s - w.wr) + w.rd, w.wr - w.rd)
    BY <1>5, <2>12, WaitingIs, Zenon
  <2>15. (s - w.wr) + w.rd = a + l /\ w.wr - w.rd = b - l /\ l \in 0..b
    BY <1>5, <2>2, <2>3, <2>5, <2>6, SMTT(40)
  <2>16. p + l <= r.wr /\ r.wr <= p + r.cap /\ p \in Nat
    BY <2>3, <2>5, <2>6, <2>11, SMTT(40) DEF Fits
  <2>17. data = Line((s - r.wr) + p, l)
    BY <1>5, <2>11, <2>16, ReadHolds DEF data
  <2>18. data = Line(a, l)
    BY <2>5, <2>17, Zenon
  <2> HIDE DEF a, b
  <2>19. Waiting(Rings'[k]) = Line(a + l, b - l)
    BY <2>7, <2>14, <2>15, Zenon
  <2>20. delivered'[k] = delivered[k] \o Line(a, l) /\ Waiting(Rings[k]) = Line(a, b)
    BY <2>7, <2>13, <2>18, Zenon DEF r
  <2> QED  BY <1>1, <2>9, <2>10, <2>13, <2>15, <2>19, <2>20, ReadStep, ZenonT(40)
<1> QED
  BY <1>6, <1>7, <1>8, <1>9, Zenon

LEMMA SameQueues ==
  ASSUME Rings' = Rings, Objects' = Objects, mir' = mir, delivered' = delivered
  PROVE  FifoStep(Queues, Queues')
<1>1. Queues' = Queues
  BY Zenon DEF Queues, AsFifo, SyncRing, RingIdx, Rings, Objects
<1> QED
  BY <1>1, Zenon DEF FifoStep

LEMMA FmqNextIsStep ==
  ASSUME FmqInv, FmqInv', [FmqNext]_fmqVars
  PROVE  FifoStep(Queues, Queues')
<1>1. ASSUME NEW sync \in BOOLEAN, NEW size \in Sizes, NewQueue(sync, size)
      PROVE  FifoStep(Queues, Queues')
  BY <1>1, NewQueueIsStep, Zenon
<1>2. ASSUME NEW i \in DOMAIN mir, NEW reset \in BOOLEAN, AttachQueue(i, reset)
      PROVE  FifoStep(Queues, Queues')
  BY <1>2, AttachQueueIsStep, Zenon
<1>3. ASSUME NEW i \in DOMAIN mir, NEW n \in 1..2, WriteItems(i, n)
      PROVE  FifoStep(Queues, Queues')
  <2>1. n \in Nat
    OBVIOUS
  <2> QED  BY <1>3, <2>1, WriteItemsIsStep, Zenon
<1>4. ASSUME NEW i \in DOMAIN mir, NEW n \in 1..2, ReadItems(i, n)
      PROVE  FifoStep(Queues, Queues')
  <2>1. n \in Nat
    OBVIOUS
  <2> QED  BY <1>4, <2>1, ReadItemsIsStep, Zenon
<1>5. CASE SessionEnds
  <2>1. Rings' = Rings /\ Objects' = Objects
    BY <1>5, SessionEndsKeeps, Zenon
  <2>2. mir' = mir /\ delivered' = delivered
    BY <1>5, Zenon DEF SessionEnds
  <2> QED  BY <2>1, <2>2, SameQueues, Zenon
<1>6. CASE UNCHANGED fmqVars
  <2>1. Rings' = Rings /\ Objects' = Objects /\ mir' = mir /\ delivered' = delivered
    BY <1>6, Zenon DEF fmqVars, Rings, Objects
  <2> QED  BY <2>1, SameQueues, Zenon
<1> QED
  BY <1>1, <1>2, <1>3, <1>4, <1>5, <1>6, Zenon DEF FmqNext

(* The steps above are those of MessageFifo.                               *)
LEMMA StepIsFifoStep ==
  ASSUME FifoStep(Queues, Queues')
  PROVE  [Fifo!Next]_Queues
<1>1. Creates(Queues, Queues') => Fifo!Create
  BY Zenon DEF Creates, Fifo!Create, Queues
<1>2. \A i : Writes(Queues, Queues', i) => Fifo!Write(i)
  BY Zenon DEF Writes, Fifo!Write, Queues
<1>3. \A i : Resets(Queues, Queues', i) => Fifo!Reset(i)
  BY Zenon DEF Resets, Fifo!Reset, Queues
<1>4. \A i : (\E n \in 0..Len(Queues[i].items) : Reads(Queues, Queues', i, n)) => Fifo!Read(i)
  BY Zenon DEF Reads, Fifo!Read, Queues
<1>5. (\E i \in DOMAIN Queues : Fifo!Write(i) \/ Fifo!Read(i) \/ Fifo!Reset(i)) => Fifo!Next
  BY Zenon DEF Fifo!Next, Queues
<1>6. Fifo!Create => Fifo!Next
  BY Zenon DEF Fifo!Next
<1> QED
  BY <1>1, <1>2, <1>3, <1>4, <1>5, <1>6, Zenon DEF FifoStep

(* For queues of any sizes and any number of mirrors, items and calls, the *)
(* rings of the synchronized queues, with their pointer arithmetic, their  *)
(* wrap-around and the reset of the pointers by a further mirror,          *)
(* implement MessageFifo: write appends its items together or not at all,  *)
(* never beyond the size, and read takes the first ones.                   *)
THEOREM QueuesImplementFifos == FmqSpec => QueuesAreFifos
<1>1. FmqInit => Fifo!Init
  <2>1. NoSession.ring = <<>>
    BY DEF NoSession
  <2>2. DOMAIN <<>> = {}
    OBVIOUS
  <2>3. FmqInit => Queues = [k \in {} |-> AsFifo(k)]
    BY <2>1, <2>2, Zenon DEF FmqInit, Queues
  <2>4. [k \in {} |-> AsFifo(k)] = <<>>
    OBVIOUS
  <2> QED  BY <2>3, <2>4, Zenon DEF Fifo!Init, Queues
<1>2. FmqInv /\ FmqInv' /\ [FmqNext]_fmqVars => [Fifo!Next]_Queues
  BY FmqNextIsStep, StepIsFifoStep, Zenon
<1>3. FmqInit => FmqInv
  BY FmqInitHolds, Zenon
<1>4. FmqInv /\ [FmqNext]_fmqVars => FmqInv'
  BY FmqStep, Zenon
<1> QED
  BY <1>1, <1>2, <1>3, <1>4, PTL DEF FmqSpec, QueuesAreFifos, Fifo!Spec, Queues
=============================================================================
