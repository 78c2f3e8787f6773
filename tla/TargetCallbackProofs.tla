------------------------ MODULE TargetCallbackProofs ------------------------
(* Proofs about TargetCallback, for any threads, names, lists and bounds.  *)
EXTENDS TargetCallback, SequenceTheorems, WellFoundedInduction, TLAPS

(* Moving the head of a queue to the end of what was delivered keeps the   *)
(* concatenation of the two.                                               *)
LEMMA MoveHead ==
  ASSUME NEW S, NEW s \in Seq(S), NEW q \in Seq(S), q # <<>>
  PROVE  Append(s, Head(q)) \o Tail(q) = s \o q
<1>1. Head(q) \in S /\ Tail(q) \in Seq(S) /\ Head(q) = q[1]
  BY HeadTailProperties
<1>2. Len(q) \in Nat \ {0}
  BY EmptySeq, Zenon
<1>3. q = <<q[1]>> \o SubSeq(q, 2, Len(q))
  <2>1. 1 \in 1..Len(q) /\ Len(q) \in 1..Len(q) /\ 1 + 1 = 2
    BY <1>2
  <2> QED
    BY <2>1, SubSeqRecursiveFirst, SubSeqFull
<1>4. q = <<Head(q)>> \o Tail(q)
  BY <1>1, <1>3, TailIsSubSeq, Zenon
<1>5. Append(s, Head(q)) = s \o <<Head(q)>>
  BY <1>1, AppendIsConcat, Zenon
<1>6. <<Head(q)>> \in Seq(S)
  BY <1>1
<1> QED
  BY <1>1, <1>4, <1>5, <1>6, ConcatAssociative

LEMMA AppendToConcat ==
  \A s, q \in Seq(Data) : \A d \in Data : Append(s \o q, d) = s \o Append(q, d)
<1> SUFFICES ASSUME NEW s \in Seq(Data), NEW q \in Seq(Data), NEW d \in Data
             PROVE  Append(s \o q, d) = s \o Append(q, d)
  BY Zenon
<1>1. s \o q \in Seq(Data) /\ <<d>> \in Seq(Data)
  BY ConcatProperties
<1>2. Append(s \o q, d) = (s \o q) \o <<d>> /\ Append(q, d) = q \o <<d>>
  BY <1>1, AppendIsConcat, Zenon
<1> QED
  BY <1>1, <1>2, ConcatAssociative

(* What taking a notification and adding one do to a CallbackLock.         *)
LEMMA PoppedLock ==
  ASSUME NEW lock \in Lock, lock.wait_count > 0
  PROVE  /\ Popped(lock) \in Lock
         /\ Popped(lock).wait_count = lock.wait_count - 1
         /\ lock.arg_data = <<>> => Popped(lock).arg_data = <<>>
         /\ lock.arg_data # <<>> => /\ Popped(lock).arg_data = Tail(lock.arg_data)
                                    /\ Len(Popped(lock).arg_data) = Len(lock.arg_data) - 1
<1>1. lock.arg_data \in Seq(Data) /\ lock.wait_count \in Nat
  BY Zenon DEF Lock
<1>2. lock.arg_data # <<>> => /\ Tail(lock.arg_data) \in Seq(Data)
                              /\ Len(Tail(lock.arg_data)) = Len(lock.arg_data) - 1
  BY <1>1, HeadTailProperties, Zenon
<1> DEFINE q == IF lock.arg_data = <<>> THEN <<>> ELSE Tail(lock.arg_data)
<1>3. q \in Seq(Data)
  BY <1>2, EmptySeq, Zenon
<1>4. Popped(lock) = [wait_count |-> lock.wait_count - 1, arg_data |-> q, timeout |-> lock.timeout]
  BY Zenon DEF Popped
<1>5. /\ lock.arg_data = <<>> => q = <<>>
      /\ lock.arg_data # <<>> => q = Tail(lock.arg_data) /\ Len(q) = Len(lock.arg_data) - 1
  BY <1>2, Zenon
<1> HIDE DEF q
<1> QED
  BY <1>1, <1>3, <1>4, <1>5 DEF Lock

LEMMA PushedLock ==
  ASSUME NEW lock \in Lock, NEW d \in Data \cup {NoData}
  PROVE  /\ Pushed(lock, d) \in Lock
         /\ Pushed(lock, d).wait_count = lock.wait_count + 1
         /\ d = NoData => Pushed(lock, d).arg_data = lock.arg_data
         /\ d # NoData => /\ Pushed(lock, d).arg_data = Append(lock.arg_data, d)
                          /\ Len(Pushed(lock, d).arg_data) = Len(lock.arg_data) + 1
<1>1. lock.arg_data \in Seq(Data) /\ lock.wait_count \in Nat
  BY Zenon DEF Lock
<1>2. d # NoData => /\ Append(lock.arg_data, d) \in Seq(Data)
                    /\ Len(Append(lock.arg_data, d)) = Len(lock.arg_data) + 1
  BY <1>1, AppendProperties
<1> DEFINE q == IF d = NoData THEN lock.arg_data ELSE Append(lock.arg_data, d)
<1>3. q \in Seq(Data)
  BY <1>1, <1>2, Zenon
<1>4. Pushed(lock, d) = [wait_count |-> lock.wait_count + 1, arg_data |-> q, timeout |-> lock.timeout]
  BY Zenon DEF Pushed
<1>5. /\ d = NoData => q = lock.arg_data
      /\ d # NoData => q = Append(lock.arg_data, d) /\ Len(q) = Len(lock.arg_data) + 1
  BY <1>2, Zenon
<1> HIDE DEF q
<1> QED
  BY <1>1, <1>3, <1>4, <1>5 DEF Lock

LEMMA NewLockType == NewLock \in Lock
BY EmptySeq, Zenon DEF NewLock, Lock, Unset

MapOK(map) == DOMAIN map \subseteq Names /\ map \in [DOMAIN map -> Lock]

(* GetCallbackLock keeps the locks that exist and adds fresh ones.         *)
LEMMA GetLocks ==
  ASSUME MapOK(cb_lock_map_), NEW S \in SUBSET Names
  PROVE  /\ MapOK(GetCallbackLock(S))
         /\ DOMAIN GetCallbackLock(S) = DOMAIN cb_lock_map_ \cup S
         /\ \A n \in DOMAIN cb_lock_map_ : GetCallbackLock(S)[n] = cb_lock_map_[n]
         /\ \A n \in S \ DOMAIN cb_lock_map_ : GetCallbackLock(S)[n] = NewLock
BY NewLockType, Zenon DEF GetCallbackLock, MapOK

LEMMA ListNames ==
  ASSUME NEW list \in Seq(Names)
  PROVE  ToSet(list) \in SUBSET Names /\ \A i \in DOMAIN list : list[i] \in ToSet(list)
BY LenProperties DEF ToSet

LEMMA IdleType == Idle \in WaitState
BY EmptySeq DEF Idle, WaitState, Unset

(* Taking a notification from a map that extends cb_lock_map_ keeps TypeOK. *)
LEMMA ConsumeType ==
  ASSUME TypeOK, NEW t \in Threads, NEW map, MapOK(map),
         DOMAIN cb_lock_map_ \subseteq DOMAIN map,
         NEW n \in DOMAIN map, map[n].wait_count > 0,
         Consume(t, map, n), UNCHANGED <<now, cb_default_wait_timeout_>>
  PROVE  TypeOK'
<1>1. map[n] \in Lock /\ n \in Names
  BY Zenon DEF MapOK
<1>2. Popped(map[n]) \in Lock
  BY <1>1, PoppedLock, Zenon
<1>3. DOMAIN cb_lock_map_' = DOMAIN map /\ cb_lock_map_' \in [DOMAIN map -> Lock]
  BY <1>2, Zenon DEF Consume, MapOK
<1>4. got' \in [Names -> Seq(Data)]
  <2>1. map[n].arg_data \in Seq(Data)
    BY <1>1, Zenon DEF Lock
  <2>2. got[n] \in Seq(Data)
    BY <1>1, Zenon DEF TypeOK
  <2>3. map[n].arg_data # <<>> => Append(got[n], Head(map[n].arg_data)) \in Seq(Data)
    BY <2>1, <2>2, HeadTailProperties, AppendProperties, Zenon
  <2> QED
    BY <1>1, <2>3, Zenon DEF Consume, TypeOK
<1>5. wait' \in [Threads -> WaitState]
  BY IdleType, Zenon DEF Consume, TypeOK
<1>6. WaitsOnLocks'
  BY <1>3, Zenon DEF WaitsOnLocks, TypeOK, Consume, Idle
<1> QED
  BY <1>3, <1>4, <1>5, <1>6, Zenon DEF TypeOK, Consume, MapOK

LEMMA TimedOutType ==
  ASSUME TypeOK, NEW t \in Threads, ReturnTimedOut(t),
         UNCHANGED <<now, cb_default_wait_timeout_>>
  PROVE  TypeOK'
<1>1. wait' \in [Threads -> WaitState]
  BY IdleType, Zenon DEF ReturnTimedOut, TypeOK
<1>2. WaitsOnLocks'
  BY Zenon DEF WaitsOnLocks, TypeOK, ReturnTimedOut, Idle
<1> QED
  BY <1>1, <1>2, Zenon DEF TypeOK, ReturnTimedOut, history

LEMMA TimeoutType ==
  ASSUME TypeOK, NEW lock \in Lock
  PROVE  GetWaitTimeout(lock) \in Int
BY TimeoutsAssumption DEF GetWaitTimeout, TypeOK, Lock, Unset

LEMMA AddTimeType ==
  ASSUME NEW a \in Int, NEW b \in Int
  PROVE  AddTime(a, b) \in Int
BY ClockAssumption DEF AddTime

(* A set of naturals that is not empty has its minimum.                    *)
LEMMA MinOfNaturals ==
  ASSUME NEW S \in SUBSET Nat, S # {}
  PROVE  Min(S) \in S
<1>1. PICK x \in S : \A y \in S : ~(<<y, x>> \in OpToRel(<, Nat))
  BY NatLessThanWellFounded, WFMin, Zenon
<1>2. ASSUME NEW y \in S PROVE x <= y
  <2>1. <<y, x>> \in Nat \X Nat /\ <<y, x>>[1] = y /\ <<y, x>>[2] = x
    BY Zenon
  <2>2. ~(y < x)
    BY <1>1, <2>1, Zenon DEF OpToRel
  <2> QED
    BY <2>2
<1> QED
  BY <1>2, Zenon DEF Min

LEMMA AnyTimeoutType ==
  ASSUME TypeOK, NEW map, MapOK(map), NEW list \in Seq(Names), ToSet(list) \subseteq DOMAIN map,
         NEW start \in Nat, NEW timeout \in Timeouts \cup {Unset}
  PROVE  GetWaitAnyTimeout(map, list, start, timeout) \in Int
<1> DEFINE limits == {GetWaitTimeout(map[n]) : n \in Monitored(map, list)} \cup {DurMax}
<1>1. \A n \in DOMAIN map : GetWaitTimeout(map[n]) \in Nat
  BY TimeoutsAssumption DEF GetWaitTimeout, TypeOK, MapOK, Lock, Unset
<1>2. limits \in SUBSET Nat /\ limits # {}
  BY <1>1, ClockAssumption, Zenon DEF Monitored
<1>3. Min(limits) \in Int
  <2> HIDE DEF limits
  <2>1. Min(limits) \in limits
    BY <1>2, MinOfNaturals, Zenon
  <2>2. Min(limits) \in Nat
    BY <1>2, <2>1, Zenon
  <2> QED
    BY <2>2
<1>4. start \in Int /\ timeout \in Int
  BY TimeoutsAssumption DEF Unset
<1> HIDE DEF limits
<1>5. GetWaitAnyTimeout(map, list, start, timeout) =
        IF timeout >= 0 THEN AddTime(start, timeout) ELSE AddTime(start, Min(limits))
  BY Zenon DEF GetWaitAnyTimeout, limits
<1> QED
  BY <1>3, <1>4, <1>5, AddTimeType, Zenon

LEMMA PeekableType ==
  ASSUME NEW map, MapOK(map), NEW list \in Seq(Names), ToSet(list) \subseteq DOMAIN map
  PROVE  \A n \in Peekable(map, list) : n \in DOMAIN map /\ map[n].wait_count > 0
BY ListNames, Zenon DEF Peekable

(* A round of WaitForCallbackAny keeps TypeOK.                             *)
LEMMA PeekOrSleepType ==
  ASSUME TypeOK, NEW t \in Threads, NEW list \in AnyLists[t], NEW start \in Nat,
         NEW timeout \in Timeouts \cup {Unset},
         PeekOrSleep(t, list, start, timeout),
         UNCHANGED <<now, cb_default_wait_timeout_>>
  PROVE  TypeOK'
<1> DEFINE map == GetCallbackLock(ToSet(list))
<1>1. list \in Seq(Names) /\ ToSet(list) \in SUBSET Names
  BY AnyListsAssumption, ListNames, Zenon
<1>2. /\ MapOK(map)
      /\ DOMAIN map = DOMAIN cb_lock_map_ \cup ToSet(list)
  BY <1>1, GetLocks, Zenon DEF TypeOK, MapOK
<1>3. CASE \E n \in Peekable(map, list) : Consume(t, map, n)
  <2> HIDE DEF map
  <2>1. PICK n \in Peekable(map, list) : Consume(t, map, n)
    BY <1>3, Zenon
  <2>2. n \in DOMAIN map /\ map[n].wait_count > 0
    BY <1>1, <1>2, PeekableType, Zenon
  <2>3. DOMAIN cb_lock_map_ \subseteq DOMAIN map
    BY <1>2, Zenon
  <2> QED
    BY <1>2, <2>1, <2>2, <2>3, ConsumeType, Zenon
<1>4. CASE ~\E n \in Peekable(map, list) : Consume(t, map, n)
  <2> DEFINE exp == GetWaitAnyTimeout(map, list, start, timeout)
             w == [pc |-> "anyAsleep", name |-> NoData, list |-> list, start |-> start,
                   timeout |-> timeout, expire |-> exp]
  <2>1. cb_lock_map_' = map /\ wait' = [wait EXCEPT ![t] = w] /\ UNCHANGED history
    BY <1>4, Zenon DEF PeekOrSleep
  <2> HIDE DEF map
  <2>2. exp \in Int
    BY <1>1, <1>2, AnyTimeoutType, Zenon
  <2> HIDE DEF exp
  <2>3. w \in WaitState
    BY <1>1, <2>2, Zenon DEF WaitState
  <2>4. wait' \in [Threads -> WaitState]
    BY <2>1, <2>3, Zenon DEF TypeOK
  <2>5. WaitsOnLocks'
    BY <1>2, <2>1, Zenon DEF WaitsOnLocks, TypeOK
  <2> QED
    BY <1>2, <2>1, <2>4, <2>5, Zenon DEF TypeOK, MapOK, history
<1> QED
  BY <1>3, <1>4, Zenon

(* The effect of NotifyFromCallback's two notify_one calls on the threads: *)
(* only pc changes, from asleep to signalled.                              *)
LEMMA SignalEffect ==
  ASSUME TypeOK, NEW n \in Names,
         NEW one \in Signalled(WaitersOf(n), "signalled"),
         NEW any \in Signalled(AnyWaiters, "anySignalled"),
         wait' = [t \in Threads |-> IF wait[t].pc = "asleep" THEN one[t] ELSE any[t]]
  PROVE  /\ wait' \in [Threads -> WaitState]
         /\ \A t \in Threads :
              /\ wait'[t].name = wait[t].name
              /\ wait'[t].list = wait[t].list
              /\ \/ wait'[t].pc = wait[t].pc
                 \/ wait[t].pc = "asleep" /\ wait'[t].pc = "signalled"
                 \/ wait[t].pc = "anyAsleep" /\ wait'[t].pc = "anySignalled"
<1>1. ASSUME NEW t \in Threads
      PROVE  /\ wait'[t] \in WaitState
             /\ wait'[t].name = wait[t].name
             /\ wait'[t].list = wait[t].list
             /\ \/ wait'[t].pc = wait[t].pc
                \/ wait[t].pc = "asleep" /\ wait'[t].pc = "signalled"
                \/ wait[t].pc = "anyAsleep" /\ wait'[t].pc = "anySignalled"
  <2>1. wait[t] \in WaitState
    BY Zenon DEF TypeOK
  <2>2. \/ one[t] = wait[t]
        \/ wait[t].pc = "asleep" /\ one[t] = [wait[t] EXCEPT !.pc = "signalled"]
    BY Zenon DEF Signalled, WaitersOf, TypeOK
  <2>3. \/ any[t] = wait[t]
        \/ wait[t].pc = "anyAsleep" /\ any[t] = [wait[t] EXCEPT !.pc = "anySignalled"]
    BY ZenonT(40) DEF Signalled, AnyWaiters, TypeOK
  <2>4. wait'[t] = IF wait[t].pc = "asleep" THEN one[t] ELSE any[t]
    BY Zenon
  <2>5. CASE wait'[t] = wait[t]
    BY <2>1, <2>5, Zenon
  <2>6. CASE wait[t].pc = "asleep" /\ wait'[t] = [wait[t] EXCEPT !.pc = "signalled"]
    BY <2>1, <2>6, Zenon DEF WaitState
  <2>7. CASE wait[t].pc = "anyAsleep" /\ wait'[t] = [wait[t] EXCEPT !.pc = "anySignalled"]
    BY <2>1, <2>7, Zenon DEF WaitState
  <2> QED
    BY <2>2, <2>3, <2>4, <2>5, <2>6, <2>7, Zenon
<1> QED
  BY <1>1, Zenon

LEMMA InitType == Init => TypeOK
<1> SUFFICES ASSUME Init PROVE TypeOK
  BY Zenon
<1>1. cb_lock_map_ \in [{} -> Lock] /\ DOMAIN cb_lock_map_ = {}
  BY Zenon DEF Init
<1>2. wait \in [Threads -> WaitState]
  BY IdleType, Zenon DEF Init
<1>3. WaitsOnLocks
  BY Zenon DEF Init, WaitsOnLocks, Idle
<1> QED
  BY <1>1, <1>2, <1>3, EmptySeq, Zenon DEF Init, TypeOK

(* Every step of the helper keeps TypeOK.                                  *)
LEMMA NextType == TypeOK /\ [Next]_vars => TypeOK'
<1> SUFFICES ASSUME TypeOK, [Next]_vars PROVE TypeOK'
  BY Zenon
<1>m. MapOK(cb_lock_map_)
  BY Zenon DEF TypeOK, MapOK
<1>1. ASSUME NEW t \in Threads, NEW n \in WaitNames[t], NEW to \in Timeouts \cup {Unset},
             WaitForCallback(t, n, to)
      PROVE  TypeOK'
  <2> DEFINE map == GetCallbackLock({n})
  <2>1. n \in Names
    BY WaitNamesAssumption, Zenon
  <2>2. MapOK(map) /\ DOMAIN map = DOMAIN cb_lock_map_ \cup {n}
    BY <1>m, <2>1, GetLocks, Zenon
  <2>3. CASE map[n].wait_count > 0
    <3>1. Consume(t, map, n) /\ UNCHANGED <<now, cb_default_wait_timeout_>>
      BY <1>1, <2>3 DEF WaitForCallback
    <3> QED
      BY <2>2, <2>3, <3>1, ConsumeType, Zenon
  <2>4. CASE ~(map[n].wait_count > 0)
    <3> DEFINE limit == IF to < 0 THEN GetWaitTimeout(map[n]) ELSE to
               e == AddTime(now, limit)
               w == [Idle EXCEPT !.pc = "asleep", !.name = n, !.expire = e]
    <3>1. /\ cb_lock_map_' = map /\ wait' = [wait EXCEPT ![t] = w]
          /\ UNCHANGED <<history, now, cb_default_wait_timeout_>>
      BY <1>1, <2>4, Zenon DEF WaitForCallback
    <3>2. limit \in Int
      BY <2>2, TimeoutType, TimeoutsAssumption DEF MapOK, Unset
    <3>3. e \in Int
      BY <3>2, AddTimeType DEF TypeOK
    <3> HIDE DEF map, e
    <3>4. w \in WaitState
      BY <2>1, <3>3, IdleType, Zenon DEF WaitState
    <3>5. wait' \in [Threads -> WaitState]
      BY <3>1, <3>4, Zenon DEF TypeOK
    <3>6. WaitsOnLocks'
      BY <2>2, <3>1, Zenon DEF WaitsOnLocks, TypeOK, Idle
    <3> QED
      BY <2>2, <3>1, <3>5, <3>6, Zenon DEF TypeOK, MapOK, history
  <2> QED
    BY <2>3, <2>4, Zenon
<1>2. ASSUME NEW t \in Threads, NEW l \in AnyLists[t], NEW to \in Timeouts \cup {Unset},
             WaitForCallbackAny(t, l, to)
      PROVE  TypeOK'
  BY <1>2, PeekOrSleepType, Zenon DEF WaitForCallbackAny, TypeOK
<1>3. ASSUME NEW t \in Threads, ResumeWait(t) PROVE TypeOK'
  <2>1. wait[t].name \in DOMAIN cb_lock_map_
    BY <1>3, Zenon DEF ResumeWait, TypeOK, WaitsOnLocks
  <2>5. /\ now \in Int /\ wait[t].expire \in Int
        /\ cb_lock_map_[wait[t].name].wait_count \in Nat
    BY <2>1 DEF TypeOK, WaitState, Lock
  <2>2. CASE now >= wait[t].expire
    <3>1. ReturnTimedOut(t) /\ UNCHANGED <<now, cb_default_wait_timeout_>>
      BY <1>3, <2>2, <2>5 DEF ResumeWait
    <3> QED
      BY <3>1, TimedOutType, Zenon
  <2>3. CASE now < wait[t].expire /\ cb_lock_map_[wait[t].name].wait_count > 0
    <3>1. Consume(t, cb_lock_map_, wait[t].name) /\ UNCHANGED <<now, cb_default_wait_timeout_>>
      BY <1>3, <2>3, <2>5 DEF ResumeWait
    <3> QED
      BY <1>m, <2>1, <2>3, <3>1, ConsumeType, Zenon
  <2>4. CASE now < wait[t].expire /\ ~(cb_lock_map_[wait[t].name].wait_count > 0)
    <3>1. /\ wait' = [wait EXCEPT ![t].pc = "asleep"]
          /\ UNCHANGED <<cb_lock_map_, history, now, cb_default_wait_timeout_>>
      BY <1>3, <2>4, <2>5 DEF ResumeWait
    <3>2. wait' \in [Threads -> WaitState]
      BY <3>1, ZenonT(40) DEF TypeOK, WaitState
    <3>3. WaitsOnLocks'
      BY <1>3, <3>1 DEF WaitsOnLocks, TypeOK, ResumeWait
    <3> QED
      BY <3>1, <3>2, <3>3, Zenon DEF TypeOK, history
  <2> QED
    BY <2>2, <2>3, <2>4, <2>5
<1>4. ASSUME NEW t \in Threads, ResumeWaitAny(t) PROVE TypeOK'
  <2>1. wait[t].list \in AnyLists[t] /\ wait[t].start \in Nat
        /\ wait[t].timeout \in Timeouts \cup {Unset}
    BY <1>4, Zenon DEF ResumeWaitAny, TypeOK, WaitsOnLocks, WaitState
  <2>2. CASE ReturnTimedOut(t)
    BY <1>4, <2>2, TimedOutType, Zenon DEF ResumeWaitAny
  <2>3. CASE PeekOrSleep(t, wait[t].list, wait[t].start, wait[t].timeout)
    <3>1. UNCHANGED <<now, cb_default_wait_timeout_>>
      BY <1>4, Zenon DEF ResumeWaitAny
    <3> QED
      BY <2>1, <2>3, <3>1, PeekOrSleepType, Zenon
  <2> QED
    BY <1>4, <2>2, <2>3, Zenon DEF ResumeWaitAny
<1>5. ASSUME NEW n \in Names, NEW d \in Data \cup {NoData}, NotifyFromCallback(n, d)
      PROVE  TypeOK'
  <2> DEFINE map == GetCallbackLock({n})
  <2>1. MapOK(map) /\ DOMAIN map = DOMAIN cb_lock_map_ \cup {n}
    BY <1>m, GetLocks, Zenon
  <2>2. Pushed(map[n], d) \in Lock
    BY <2>1, PushedLock, Zenon DEF MapOK
  <2>3. cb_lock_map_' = [map EXCEPT ![n] = Pushed(map[n], d)]
    BY <1>5, Zenon DEF NotifyFromCallback
  <2>4. DOMAIN cb_lock_map_' = DOMAIN map /\ cb_lock_map_' \in [DOMAIN map -> Lock]
    <3> HIDE DEF map
    <3> QED BY <2>1, <2>2, <2>3, Zenon DEF MapOK
  <2>5. /\ wait' \in [Threads -> WaitState]
        /\ \A t \in Threads :
              /\ wait'[t].name = wait[t].name
              /\ wait'[t].list = wait[t].list
              /\ \/ wait'[t].pc = wait[t].pc
                 \/ wait[t].pc = "asleep" /\ wait'[t].pc = "signalled"
                 \/ wait[t].pc = "anyAsleep" /\ wait'[t].pc = "anySignalled"
    BY <1>5, SignalEffect, Zenon DEF NotifyFromCallback
  <2>6. WaitsOnLocks'
    <3> HIDE DEF map
    <3> QED BY <2>1, <2>4, <2>5, Zenon DEF WaitsOnLocks, TypeOK
  <2>7. sent' \in [Names -> Seq(Data)]
    <3>1. d # NoData => Append(sent[n], d) \in Seq(Data)
      BY AppendProperties, Zenon DEF TypeOK
    <3> QED
      BY <1>5, <3>1, Zenon DEF NotifyFromCallback, TypeOK
  <2>8. plain' \in [Names -> Nat]
    BY <1>5 DEF NotifyFromCallback, TypeOK
  <2> HIDE DEF map
  <2> QED
    BY <1>5, <2>1, <2>4, <2>5, <2>6, <2>7, <2>8 DEF TypeOK, MapOK, NotifyFromCallback
<1>6. ASSUME NEW n \in ClearNames, n \in Names, ClearForCallback(n) PROVE TypeOK'
  <2> DEFINE map == GetCallbackLock({n})
  <2>1. MapOK(map) /\ DOMAIN map = DOMAIN cb_lock_map_ \cup {n}
    BY <1>m, <1>6, GetLocks, Zenon
  <2>2. cb_lock_map_' = [map EXCEPT ![n] = NewLock]
    BY <1>6, Zenon DEF ClearForCallback
  <2>3. DOMAIN cb_lock_map_' = DOMAIN map /\ cb_lock_map_' \in [DOMAIN map -> Lock]
    <3> HIDE DEF map
    <3> QED BY <2>1, <2>2, NewLockType, Zenon DEF MapOK
  <2> HIDE DEF map
  <2>4. WaitsOnLocks'
    BY <1>6, <2>1, <2>3, Zenon DEF WaitsOnLocks, TypeOK, ClearForCallback
  <2> QED
    BY <1>6, <2>1, <2>3, <2>4, EmptySeq, Zenon DEF TypeOK, MapOK, ClearForCallback
<1>7. ASSUME NEW n \in Names, NEW to \in Timeouts, SetWaitTimeout(n, to) PROVE TypeOK'
  <2> DEFINE map == GetCallbackLock({n})
  <2>1. MapOK(map) /\ DOMAIN map = DOMAIN cb_lock_map_ \cup {n}
    BY <1>m, GetLocks, Zenon
  <2>2. cb_lock_map_' = [map EXCEPT ![n].timeout = to]
    BY <1>7, Zenon DEF SetWaitTimeout
  <2>3. DOMAIN cb_lock_map_' = DOMAIN map /\ cb_lock_map_' \in [DOMAIN map -> Lock]
    <3> HIDE DEF map
    <3> QED BY <2>1, <2>2, Zenon DEF MapOK, Lock
  <2> HIDE DEF map
  <2>4. WaitsOnLocks'
    BY <1>7, <2>1, <2>3, Zenon DEF WaitsOnLocks, TypeOK, SetWaitTimeout
  <2> QED
    BY <1>7, <2>1, <2>3, <2>4, Zenon DEF TypeOK, MapOK, SetWaitTimeout, history
<1>8. ASSUME NEW to \in Timeouts, SetWaitTimeoutDefault(to) PROVE TypeOK'
  BY <1>8, Zenon DEF TypeOK, SetWaitTimeoutDefault, history, WaitsOnLocks
<1>9. CASE Tick
  BY <1>9 DEF TypeOK, Tick, history, WaitsOnLocks
<1>10. CASE UNCHANGED vars
  BY <1>10, Zenon DEF TypeOK, vars, WaitsOnLocks
<1> QED
  BY <1>1, <1>2, <1>3, <1>4, <1>5, <1>6, <1>7, <1>8, <1>9, <1>10, ClearNamesAssumption, SMTT(20) DEF Next

(* TypeOK holds in every reachable state of VtsHalHidlTargetCallbackBase,  *)
(* for any number of threads, names and notifications.                     *)
THEOREM TypeCorrect == Spec => []TypeOK
BY InitType, NextType, PTL DEF Spec
-----------------------------------------------------------------------------
(* The contents of a name's lock; a lock that does not exist yet is empty. *)
Count(n) == IF n \in DOMAIN cb_lock_map_ THEN cb_lock_map_[n].wait_count ELSE 0
Args(n) == IF n \in DOMAIN cb_lock_map_ THEN cb_lock_map_[n].arg_data ELSE <<>>

(* The four things a step can do to the lock and the history of a name.    *)
Untouched(n) ==
  /\ Count(n)' = Count(n) /\ Args(n)' = Args(n)
  /\ sent'[n] = sent[n] /\ got'[n] = got[n] /\ plain'[n] = plain[n]

Taken(n) ==
  /\ Count(n) > 0 /\ Count(n)' = Count(n) - 1
  /\ Args(n) = <<>> => Args(n)' = <<>> /\ got'[n] = got[n]
  /\ Args(n) # <<>> => /\ Args(n)' = Tail(Args(n))
                       /\ got'[n] = Append(got[n], Head(Args(n)))
  /\ sent'[n] = sent[n] /\ plain'[n] = plain[n]

Added(n) ==
  /\ Count(n)' = Count(n) + 1 /\ got'[n] = got[n]
  /\ \/ Args(n)' = Args(n) /\ sent'[n] = sent[n] /\ plain'[n] = plain[n] + 1
     \/ \E d \in Data : /\ Args(n)' = Append(Args(n), d)
                        /\ sent'[n] = Append(sent[n], d) /\ plain'[n] = plain[n]

Emptied(n) ==
  /\ Count(n)' = 0 /\ Args(n)' = <<>>
  /\ sent'[n] = <<>> /\ got'[n] = <<>> /\ plain'[n] = 0

Effect(n) == Untouched(n) \/ Taken(n) \/ Added(n) \/ Emptied(n)

LEMMA ContentsType ==
  ASSUME TypeOK, NEW n \in Names
  PROVE  /\ Count(n) \in Nat /\ Args(n) \in Seq(Data)
         /\ sent[n] \in Seq(Data) /\ got[n] \in Seq(Data) /\ plain[n] \in Nat
BY EmptySeq, Zenon DEF TypeOK, Count, Args, Lock

(* GetCallbackLock does not change the contents of any lock.               *)
LEMMA GetLocksContents ==
  ASSUME TypeOK, NEW S \in SUBSET Names, NEW n \in Names, n \in DOMAIN GetCallbackLock(S)
  PROVE  /\ GetCallbackLock(S)[n] \in Lock
         /\ GetCallbackLock(S)[n].wait_count = Count(n)
         /\ GetCallbackLock(S)[n].arg_data = Args(n)
<1>1. MapOK(cb_lock_map_)
  BY Zenon DEF TypeOK, MapOK
<1>2. GetCallbackLock(S)[n] \in Lock
  BY <1>1, GetLocks, Zenon DEF MapOK
<1>3. CASE n \in DOMAIN cb_lock_map_
  BY <1>1, <1>2, <1>3, GetLocks, Zenon DEF Count, Args
<1>4. CASE n \notin DOMAIN cb_lock_map_
  <2>1. GetCallbackLock(S)[n] = NewLock
    BY <1>1, <1>4, GetLocks, Zenon
  <2> QED
    BY <1>2, <1>4, <2>1, SMTT(20) DEF Count, Args, NewLock
<1> QED
  BY <1>3, <1>4, Zenon

(* A step that only calls GetCallbackLock leaves every name untouched.     *)
LEMMA GetLocksEffect ==
  ASSUME TypeOK, NEW S \in SUBSET Names, cb_lock_map_' = GetCallbackLock(S), UNCHANGED history,
         NEW n \in Names
  PROVE  Untouched(n)
<1>1. DOMAIN cb_lock_map_' = DOMAIN cb_lock_map_ \cup S
  BY GetLocks, Zenon DEF TypeOK, MapOK
<1>2. CASE n \in DOMAIN cb_lock_map_'
  BY <1>2, GetLocksContents, Zenon DEF Untouched, Count, Args, history
<1>3. CASE n \notin DOMAIN cb_lock_map_'
  BY <1>1, <1>3, Zenon DEF Untouched, Count, Args, history
<1> QED
  BY <1>2, <1>3, Zenon

LEMMA ConsumeEffect ==
  ASSUME TypeOK, NEW t \in Threads, NEW S \in SUBSET Names, NEW k \in DOMAIN GetCallbackLock(S),
         GetCallbackLock(S)[k].wait_count > 0,
         Consume(t, GetCallbackLock(S), k), NEW n \in Names
  PROVE  IF n = k THEN Taken(n) ELSE Untouched(n)
<1> DEFINE map == GetCallbackLock(S)
<1>1. MapOK(map) /\ DOMAIN map = DOMAIN cb_lock_map_ \cup S /\ k \in Names
  BY GetLocks, Zenon DEF TypeOK, MapOK
<1>2. map[k] \in Lock /\ map[k].wait_count = Count(k) /\ map[k].arg_data = Args(k)
  BY <1>1, GetLocksContents, Zenon
<1>3. /\ cb_lock_map_' = [map EXCEPT ![k] = Popped(map[k])]
      /\ got' = IF map[k].arg_data = <<>> THEN got
                ELSE [got EXCEPT ![k] = Append(got[k], Head(map[k].arg_data))]
      /\ UNCHANGED <<sent, plain>>
  BY Zenon DEF Consume
<1>4. CASE n = k
  <2>1. Popped(map[k]) \in Lock /\ Popped(map[k]).wait_count = Count(k) - 1
        /\ (Args(k) = <<>> => Popped(map[k]).arg_data = <<>>)
        /\ (Args(k) # <<>> => Popped(map[k]).arg_data = Tail(Args(k)))
    BY <1>2, PoppedLock, Zenon
  <2> HIDE DEF map
  <2>2. k \in DOMAIN cb_lock_map_' /\ cb_lock_map_'[k] = Popped(map[k])
    BY <1>1, <1>3, Zenon DEF map
  <2>3. Count(k)' = Count(k) - 1 /\ Args(k)' = Popped(map[k]).arg_data
    BY <2>1, <2>2, Zenon DEF Count, Args
  <2>4. /\ Args(k) = <<>> => got'[k] = got[k]
        /\ Args(k) # <<>> => got'[k] = Append(got[k], Head(Args(k)))
    BY <1>1, <1>2, <1>3, Zenon DEF TypeOK
  <2> QED
    BY <1>2, <1>3, <1>4, <2>1, <2>3, <2>4, Zenon DEF Taken, map
<1>5. CASE n # k
  <2>1. n \in DOMAIN map => map[n].wait_count = Count(n) /\ map[n].arg_data = Args(n)
    BY GetLocksContents, Zenon
  <2> HIDE DEF map
  <2>2. DOMAIN cb_lock_map_' = DOMAIN map /\ (n \in DOMAIN map => cb_lock_map_'[n] = map[n])
    BY <1>3, <1>5, Zenon
  <2>3. Count(n)' = Count(n) /\ Args(n)' = Args(n)
    BY <1>1, <2>1, <2>2, Zenon DEF Count, Args
  <2>4. got'[n] = got[n]
    BY <1>3, <1>5, Zenon DEF TypeOK
  <2> QED
    BY <1>3, <1>5, <2>3, <2>4, Zenon DEF Untouched
<1> QED
  BY <1>4, <1>5, Zenon
-----------------------------------------------------------------------------
(* A thread that sleeps after a step either found its count at zero in that *)
(* step, or slept before it and saw no notification it had to be told of.   *)
Sleeps(t) ==
  wait[t].pc' = "asleep" =>
    \/ Count(wait[t].name)' = 0
    \/ /\ wait[t].pc = "asleep" /\ wait[t].name' = wait[t].name
       /\ SoleWaiter(t, wait[t].name) => Count(wait[t].name)' <= Count(wait[t].name)

Watches(t, n) == wait[t].list = <<>> \/ n \in ToSet(wait[t].list)

SleepsAny(t) ==
  wait[t].pc' = "anyAsleep" =>
    \/ \A n \in Names : Watches(t, n)' => Count(n)' = 0
    \/ /\ wait[t].pc = "anyAsleep" /\ wait[t].list' = wait[t].list
       /\ SoleAnyWaiter(t) => \A n \in Names : Count(n)' <= Count(n)

StepOK ==
  /\ \A n \in Names : Effect(n)
  /\ \A t \in Threads : Sleeps(t) /\ SleepsAny(t)

LEMMA NoIncrease ==
  ASSUME TypeOK, NEW n \in Names, Untouched(n) \/ Taken(n) \/ Emptied(n)
  PROVE  Count(n)' <= Count(n)
BY ContentsType DEF Untouched, Taken, Emptied

(* A step that adds no notification and sends no thread to sleep.          *)
LEMMA QuietStep ==
  ASSUME TypeOK,
         \A n \in Names : Untouched(n) \/ Taken(n) \/ Emptied(n),
         \A t \in Threads : wait[t]' = wait[t] \/ wait[t].pc' = "idle"
  PROVE  StepOK
<1>1. \A n \in Names : Count(n)' <= Count(n)
  BY NoIncrease, Zenon
<1>2. ASSUME NEW t \in Threads PROVE Sleeps(t) /\ SleepsAny(t)
  <2>1. CASE wait[t].pc' = "idle"
    BY <2>1, Zenon DEF Sleeps, SleepsAny
  <2>2. CASE wait[t]' = wait[t] /\ wait[t].pc = "asleep"
    <3>1. wait[t].name \in Names
      BY <2>2, WaitNamesAssumption, Zenon DEF TypeOK, WaitsOnLocks
    <3> QED
      BY <1>1, <2>2, <3>1, Zenon DEF Sleeps, SleepsAny
  <2>3. CASE wait[t]' = wait[t] /\ wait[t].pc # "asleep"
    BY <1>1, <2>3, Zenon DEF Sleeps, SleepsAny
  <2> QED
    BY <2>1, <2>2, <2>3, Zenon
<1> QED
  BY <1>2, Zenon DEF StepOK, Effect

LEMMA ConsumeStep ==
  ASSUME TypeOK, NEW t \in Threads, NEW S \in SUBSET Names, NEW k \in DOMAIN GetCallbackLock(S),
         GetCallbackLock(S)[k].wait_count > 0, Consume(t, GetCallbackLock(S), k)
  PROVE  StepOK
<1>1. \A n \in Names : Untouched(n) \/ Taken(n)
  BY ConsumeEffect, Zenon
<1>2. \A u \in Threads : wait[u]' = wait[u] \/ wait[u].pc' = "idle"
  BY Zenon DEF Consume, Idle, TypeOK
<1> QED
  BY <1>1, <1>2, QuietStep, Zenon

LEMMA FrameEffect ==
  ASSUME UNCHANGED <<cb_lock_map_, history>>, NEW n \in Names
  PROVE  Untouched(n)
BY Zenon DEF Untouched, Count, Args, history

LEMMA TimedOutStep ==
  ASSUME TypeOK, NEW t \in Threads, ReturnTimedOut(t)
  PROVE  StepOK
<1>1. \A n \in Names : Untouched(n)
  BY FrameEffect, Zenon DEF ReturnTimedOut
<1>2. \A u \in Threads : wait[u]' = wait[u] \/ wait[u].pc' = "idle"
  BY Zenon DEF ReturnTimedOut, Idle, TypeOK
<1> QED
  BY <1>1, <1>2, QuietStep, Zenon

(* A step in which thread t, and no other, goes to sleep and nothing is added. *)
LEMMA SleepStep ==
  ASSUME TypeOK, NEW t \in Threads, Sleeps(t), SleepsAny(t),
         \A n \in Names : Untouched(n),
         \A u \in Threads \ {t} : wait[u]' = wait[u]
  PROVE  StepOK
<1>1. \A n \in Names : Count(n)' <= Count(n)
  BY NoIncrease, Zenon
<1>2. ASSUME NEW u \in Threads PROVE Sleeps(u) /\ SleepsAny(u)
  <2>1. CASE u = t
    BY <2>1, Zenon
  <2>2. CASE u # t /\ wait[u].pc = "asleep"
    <3>1. wait[u].name \in Names /\ wait[u]' = wait[u]
      BY <2>2, WaitNamesAssumption, Zenon DEF TypeOK, WaitsOnLocks
    <3> QED
      BY <1>1, <2>2, <3>1, Zenon DEF Sleeps, SleepsAny
  <2>3. CASE u # t /\ wait[u].pc # "asleep"
    <3>1. wait[u]' = wait[u]
      BY <2>3, Zenon
    <3> QED
      BY <1>1, <2>3, <3>1, SMTT(40) DEF Sleeps, SleepsAny
  <2> QED
    BY <2>1, <2>2, <2>3, Zenon
<1> QED
  BY <1>2, Zenon DEF StepOK, Effect

(* A list without a pending callback has every monitored count at zero.    *)
LEMMA NothingPeekable ==
  ASSUME NEW map, MapOK(map), NEW list \in Seq(Names), ToSet(list) \subseteq DOMAIN map,
         Peekable(map, list) = {}, NEW n \in DOMAIN map, list = <<>> \/ n \in ToSet(list)
  PROVE  map[n].wait_count = 0
<1>0. \A m \in DOMAIN map : map[m].wait_count \in Nat
  BY Zenon DEF MapOK, Lock
<1>1. CASE list = <<>>
  BY <1>0, <1>1 DEF Peekable
<1>2. CASE list # <<>>
  <2> DEFINE W == {j \in DOMAIN list : map[list[j]].wait_count > 0}
  <2>1. DOMAIN list = 1..Len(list) /\ Len(list) \in Nat
    BY LenProperties, Zenon
  <2>2. \A j \in DOMAIN list : map[list[j]].wait_count \in Nat
    BY <1>0, ListNames, Zenon
  <2>3. ASSUME W # {} PROVE FALSE
    <3>1. W \in SUBSET Nat
      BY <2>1
    <3>2. PICK j \in W : \A k \in W : ~(<<k, j>> \in OpToRel(<, Nat))
      <4> HIDE DEF W
      <4> QED BY <2>3, <3>1, NatLessThanWellFounded, WFMin, Zenon
    <3>3. ASSUME NEW k \in W, k < j PROVE FALSE
      <4>1. k \in Nat /\ j \in Nat
        BY <3>1, Zenon
      <4>2. <<k, j>> \in Nat \X Nat /\ <<k, j>>[1] = k /\ <<k, j>>[2] = j
        BY <4>1, Zenon
      <4> QED
        BY <3>2, <3>3, <4>2, Zenon DEF OpToRel
    <3>4. ASSUME NEW k \in 1..(j - 1) PROVE map[list[k]].wait_count = 0
      <4>1. k \in DOMAIN list /\ k < j
        BY <2>1
      <4> QED
        BY <2>2, <3>3, <4>1
    <3>5. list[j] \in Peekable(map, list)
      BY <1>2, <3>4, Zenon DEF Peekable
    <3> QED
      BY <3>5, Zenon
  <2>4. PICK j \in DOMAIN list : list[j] = n
    BY <1>2, <2>1, Zenon DEF ToSet
  <2> QED
    BY <2>2, <2>3, <2>4
<1> QED
  BY <1>1, <1>2, Zenon
LEMMA PeekOrSleepStep ==
  ASSUME TypeOK, NEW t \in Threads, NEW list \in AnyLists[t], NEW start, NEW timeout,
         PeekOrSleep(t, list, start, timeout)
  PROVE  StepOK
<1> DEFINE map == GetCallbackLock(ToSet(list))
<1>1. list \in Seq(Names) /\ ToSet(list) \in SUBSET Names
  BY AnyListsAssumption, ListNames, Zenon
<1>2. MapOK(map) /\ DOMAIN map = DOMAIN cb_lock_map_ \cup ToSet(list)
  BY <1>1, GetLocks, Zenon DEF TypeOK, MapOK
<1>3. CASE \E k \in Peekable(map, list) : Consume(t, map, k)
  <2>1. PICK k \in Peekable(map, list) : Consume(t, map, k)
    BY <1>3, Zenon
  <2>2. k \in DOMAIN map /\ map[k].wait_count > 0
    <3> HIDE DEF map
    <3> QED BY <1>1, <1>2, PeekableType, Zenon
  <2> QED
    BY <1>1, <2>1, <2>2, ConsumeStep, Zenon
<1>4. CASE ~\E k \in Peekable(map, list) : Consume(t, map, k)
  <2> DEFINE w == [pc |-> "anyAsleep", name |-> NoData, list |-> list, start |-> start,
                   timeout |-> timeout,
                   expire |-> GetWaitAnyTimeout(map, list, start, timeout)]
  <2>1. /\ Peekable(map, list) = {} /\ cb_lock_map_' = map
        /\ wait' = [wait EXCEPT ![t] = w] /\ UNCHANGED history
    BY <1>4, Zenon DEF PeekOrSleep
  <2>2. \A n \in Names : Untouched(n)
    BY <1>1, <2>1, GetLocksEffect, Zenon
  <2> HIDE DEF map
  <2>3. w.pc = "anyAsleep" /\ w.list = list
    BY Zenon
  <2> HIDE DEF w
  <2>4. wait[t]' = w /\ \A u \in Threads \ {t} : wait[u]' = wait[u]
    BY <2>1, Zenon DEF TypeOK
  <2>5. ASSUME NEW n \in Names, Watches(t, n)' PROVE Count(n)' = 0
    <3>1. list = <<>> \/ n \in ToSet(list)
      BY <2>3, <2>4, <2>5, Zenon DEF Watches
    <3>2. CASE n \in DOMAIN map
      BY <1>1, <1>2, <2>1, <3>1, <3>2, NothingPeekable, SMTT(20) DEF Count
    <3>3. CASE n \notin DOMAIN map
      BY <2>1, <3>3, Zenon DEF Count
    <3> QED
      BY <3>2, <3>3, Zenon
  <2>6. Sleeps(t) /\ SleepsAny(t)
    BY <2>3, <2>4, <2>5, Zenon DEF Sleeps, SleepsAny
  <2> QED
    BY <2>2, <2>4, <2>6, SleepStep, Zenon
<1> QED
  BY <1>3, <1>4, Zenon

(* NotifyFromCallback adds one notification to its name ...                *)
LEMMA NotifyEffect ==
  ASSUME TypeOK, NEW k \in Names, NEW d \in Data \cup {NoData}, NotifyFromCallback(k, d),
         NEW n \in Names
  PROVE  IF n = k THEN Added(n) ELSE Untouched(n)
<1> DEFINE map == GetCallbackLock({k})
<1>1. MapOK(map) /\ DOMAIN map = DOMAIN cb_lock_map_ \cup {k}
  BY GetLocks, Zenon DEF TypeOK, MapOK
<1>2. map[k] \in Lock /\ map[k].wait_count = Count(k) /\ map[k].arg_data = Args(k)
  BY <1>1, GetLocksContents, Zenon
<1>3. /\ cb_lock_map_' = [map EXCEPT ![k] = Pushed(map[k], d)]
      /\ sent' = IF d = NoData THEN sent ELSE [sent EXCEPT ![k] = Append(sent[k], d)]
      /\ plain' = IF d = NoData THEN [plain EXCEPT ![k] = plain[k] + 1] ELSE plain
      /\ got' = got
  BY Zenon DEF NotifyFromCallback
<1>4. CASE n = k
  <2>1. Pushed(map[k], d).wait_count = Count(k) + 1
        /\ (d = NoData => Pushed(map[k], d).arg_data = Args(k))
        /\ (d # NoData => Pushed(map[k], d).arg_data = Append(Args(k), d))
    BY <1>2, PushedLock, Zenon
  <2> HIDE DEF map
  <2>2. k \in DOMAIN cb_lock_map_' /\ cb_lock_map_'[k] = Pushed(map[k], d)
    BY <1>1, <1>3, Zenon
  <2>3. Count(k)' = Count(k) + 1 /\ Args(k)' = Pushed(map[k], d).arg_data
    BY <2>1, <2>2, Zenon DEF Count, Args
  <2>4. CASE d = NoData
    <3>1. sent'[k] = sent[k] /\ plain'[k] = plain[k] + 1 /\ got'[k] = got[k]
      BY <1>3, <2>4, Zenon DEF TypeOK
    <3> QED
      BY <1>4, <2>1, <2>3, <2>4, <3>1, SMTT(20) DEF Added
  <2>5. CASE d # NoData
    <3>1. sent'[k] = Append(sent[k], d) /\ plain'[k] = plain[k] /\ got'[k] = got[k] /\ d \in Data
      BY <1>3, <2>5, Zenon DEF TypeOK
    <3> QED
      BY <1>4, <2>1, <2>3, <2>5, <3>1, SMTT(20) DEF Added
  <2> QED
    BY <2>4, <2>5, Zenon
<1>5. CASE n # k
  <2>1. n \in DOMAIN map => map[n].wait_count = Count(n) /\ map[n].arg_data = Args(n)
    BY GetLocksContents, Zenon
  <2> HIDE DEF map
  <2>2. DOMAIN cb_lock_map_' = DOMAIN map /\ (n \in DOMAIN map => cb_lock_map_'[n] = map[n])
    BY <1>3, <1>5, Zenon
  <2>3. Count(n)' = Count(n) /\ Args(n)' = Args(n)
    BY <1>1, <2>1, <2>2, Zenon DEF Count, Args
  <2>4. sent'[n] = sent[n] /\ plain'[n] = plain[n] /\ got'[n] = got[n]
    BY <1>3, <1>5, Zenon DEF TypeOK
  <2> QED
    BY <1>5, <2>3, <2>4, Zenon DEF Untouched
<1> QED
  BY <1>4, <1>5, Zenon
(* ... and its notify_one reaches the thread that is alone in waiting.     *)
LEMMA NotifyStep ==
  ASSUME TypeOK, NEW k \in Names, NEW d \in Data \cup {NoData}, NotifyFromCallback(k, d)
  PROVE  StepOK
<1>1. \A n \in Names : IF n = k THEN Added(n) ELSE Untouched(n)
  BY NotifyEffect, Zenon
<1>2. PICK one \in Signalled(WaitersOf(k), "signalled"),
           any \in Signalled(AnyWaiters, "anySignalled") :
        wait' = [t \in Threads |-> IF wait[t].pc = "asleep" THEN one[t] ELSE any[t]]
  BY Zenon DEF NotifyFromCallback
<1>3. \A t \in Threads :
        /\ wait'[t].name = wait[t].name
        /\ wait'[t].list = wait[t].list
        /\ \/ wait'[t].pc = wait[t].pc
           \/ wait[t].pc = "asleep" /\ wait'[t].pc = "signalled"
           \/ wait[t].pc = "anyAsleep" /\ wait'[t].pc = "anySignalled"
  BY <1>2, SignalEffect, Zenon
<1>4. ASSUME NEW t \in Threads PROVE Sleeps(t)
  <2> SUFFICES ASSUME wait'[t].pc = "asleep", SoleWaiter(t, wait[t].name)
               PROVE  Count(wait[t].name)' <= Count(wait[t].name)
    BY <1>3, Zenon DEF Sleeps
  <2>1. wait[t].pc = "asleep" /\ wait[t].name' = wait[t].name
    BY <1>3, Zenon
  <2>2. wait[t].name \in Names
    BY <2>1, WaitNamesAssumption, Zenon DEF TypeOK, WaitsOnLocks
  <2>3. CASE wait[t].name = k
    <3>1. \A u \in WaitersOf(k) : u = t
      BY <2>3, Zenon DEF WaitersOf, SoleWaiter, TypeOK, WaitsOnLocks
    <3>2. t \in WaitersOf(k)
      BY <2>1, <2>3, Zenon DEF WaitersOf
    <3>3. one = [wait EXCEPT ![t].pc = "signalled"]
      BY <1>2, <3>1, <3>2, Zenon DEF Signalled
    <3>4. one[t].pc = "signalled"
      BY <3>3, Zenon DEF TypeOK, WaitState
    <3>5. wait'[t] = one[t]
      BY <1>2, <2>1, Zenon
    <3> QED
      BY <3>4, <3>5, Zenon
  <2>4. CASE wait[t].name # k
    <3>1. Untouched(wait[t].name)
      BY <1>1, <2>2, <2>4, Zenon
    <3>2. \A n \in Names : Untouched(n) => Count(n)' <= Count(n)
      BY NoIncrease, Zenon
    <3> DEFINE m == wait[t].name
    <3>3. m' = m
      BY <2>1, Zenon
    <3> HIDE DEF m
    <3>4. Count(m)' <= Count(m)
      BY <2>2, <3>1, <3>2, <3>3, Zenon DEF Untouched, Count, Args, m
    <3> QED
      BY <3>4, Zenon DEF m
  <2> QED
    BY <2>3, <2>4, Zenon
<1>5. ASSUME NEW t \in Threads PROVE SleepsAny(t)
  <2> SUFFICES ASSUME wait'[t].pc = "anyAsleep", SoleAnyWaiter(t) PROVE FALSE
    BY <1>3, Zenon DEF SleepsAny
  <2>1. wait[t].pc = "anyAsleep"
    BY <1>3, Zenon
  <2>2. \A u \in AnyWaiters : u = t
    BY Zenon DEF AnyWaiters, SoleAnyWaiter, TypeOK, WaitsOnLocks
  <2>3. t \in AnyWaiters
    BY <2>1, Zenon DEF AnyWaiters
  <2>4. any = [wait EXCEPT ![t].pc = "anySignalled"]
    BY <1>2, <2>2, <2>3, Zenon DEF Signalled
  <2>5. any[t].pc = "anySignalled"
    BY <2>4, Zenon DEF TypeOK, WaitState
  <2>6. wait'[t] = any[t]
    BY <1>2, <2>1, Zenon
  <2> QED
    BY <2>5, <2>6, Zenon
<1> QED
  BY <1>1, <1>4, <1>5, Zenon DEF StepOK, Effect

LEMMA ResumeStep ==
  ASSUME TypeOK, NEW t \in Threads, ResumeWait(t)
  PROVE  StepOK
<1>1. wait[t].name \in DOMAIN cb_lock_map_ /\ wait[t].name \in Names
  BY Zenon DEF ResumeWait, TypeOK, WaitsOnLocks
<1>2. CASE ReturnTimedOut(t)
  BY <1>2, TimedOutStep, Zenon
<1>3. CASE /\ cb_lock_map_[wait[t].name].wait_count > 0
           /\ Consume(t, cb_lock_map_, wait[t].name)
  <2>1. GetCallbackLock({}) = cb_lock_map_
    BY Zenon DEF GetCallbackLock, TypeOK
  <2> QED
    BY <1>1, <1>3, <2>1, ConsumeStep, Zenon
<1>4. CASE /\ cb_lock_map_[wait[t].name].wait_count = 0
           /\ wait' = [wait EXCEPT ![t].pc = "asleep"]
           /\ UNCHANGED <<cb_lock_map_, history>>
  <2>1. \A n \in Names : Untouched(n)
    BY <1>4, FrameEffect, Zenon
  <2>2. /\ wait[t].pc' = "asleep" /\ wait[t].name' = wait[t].name
        /\ \A u \in Threads \ {t} : wait[u]' = wait[u]
    BY <1>4, Zenon DEF TypeOK, WaitState
  <2>3. Count(wait[t].name)' = 0
    BY <1>1, <1>4, <2>2, Zenon DEF Count
  <2>4. Sleeps(t) /\ SleepsAny(t)
    BY <2>2, <2>3, Zenon DEF Sleeps, SleepsAny
  <2> QED
    BY <2>1, <2>2, <2>4, SleepStep, Zenon
<1> QED
  BY <1>2, <1>3, <1>4, Zenon DEF ResumeWait

LEMMA WaitStep ==
  ASSUME TypeOK, NEW t \in Threads, NEW k \in WaitNames[t], NEW to, WaitForCallback(t, k, to)
  PROVE  StepOK
<1> DEFINE map == GetCallbackLock({k})
<1>1. k \in Names /\ {k} \in SUBSET Names /\ k \in DOMAIN map
  BY WaitNamesAssumption, Zenon DEF GetCallbackLock
<1>2. CASE map[k].wait_count > 0 /\ Consume(t, map, k)
  BY <1>1, <1>2, ConsumeStep, Zenon
<1>3. CASE ~(map[k].wait_count > 0 /\ Consume(t, map, k))
  <2> DEFINE limit == IF to < 0 THEN GetWaitTimeout(map[k]) ELSE to
             w == [Idle EXCEPT !.pc = "asleep", !.name = k, !.expire = AddTime(now, limit)]
  <2>1. /\ map[k].wait_count = 0 /\ cb_lock_map_' = map
        /\ wait' = [wait EXCEPT ![t] = w] /\ UNCHANGED history
    BY <1>3, Zenon DEF WaitForCallback
  <2>2. \A n \in Names : Untouched(n)
    BY <1>1, <2>1, GetLocksEffect, Zenon
  <2>3. w.pc = "asleep" /\ w.name = k
    BY Zenon DEF Idle
  <2> HIDE DEF map, w
  <2>4. wait[t]' = w /\ \A u \in Threads \ {t} : wait[u]' = wait[u]
    BY <2>1, Zenon DEF TypeOK
  <2>5. Count(wait[t].name)' = 0
    BY <1>1, <2>1, <2>3, <2>4, Zenon DEF Count
  <2>6. Sleeps(t) /\ SleepsAny(t)
    BY <2>3, <2>4, <2>5, Zenon DEF Sleeps, SleepsAny
  <2> QED
    BY <2>2, <2>4, <2>6, SleepStep, Zenon
<1> QED
  BY <1>2, <1>3, Zenon
(* A step on the lock of one name that keeps or empties its contents.      *)
LEMMA OneLockStep ==
  ASSUME TypeOK, NEW k \in Names, NEW lock \in Lock,
         cb_lock_map_' = [GetCallbackLock({k}) EXCEPT ![k] = lock], NEW n \in Names
  PROVE  /\ n = k => Count(n)' = lock.wait_count /\ Args(n)' = lock.arg_data
         /\ n # k => Count(n)' = Count(n) /\ Args(n)' = Args(n)
<1> DEFINE map == GetCallbackLock({k})
<1>1. MapOK(map) /\ DOMAIN map = DOMAIN cb_lock_map_ \cup {k}
  BY GetLocks, Zenon DEF TypeOK, MapOK
<1>2. n \in DOMAIN map => map[n].wait_count = Count(n) /\ map[n].arg_data = Args(n)
  BY GetLocksContents, Zenon
<1>3. cb_lock_map_' = [map EXCEPT ![k] = lock]
  BY Zenon
<1> HIDE DEF map
<1> QED
  BY <1>1, <1>2, <1>3, Zenon DEF Count, Args

LEMMA ClearStep ==
  ASSUME TypeOK, NEW k \in Names, ClearForCallback(k)
  PROVE  StepOK
<1>1. ASSUME NEW n \in Names PROVE Untouched(n) \/ Emptied(n)
  <2>1. CASE n = k
    BY <2>1, OneLockStep, NewLockType, Zenon DEF ClearForCallback, Emptied, NewLock, TypeOK
  <2>2. CASE n # k
    BY <2>2, OneLockStep, NewLockType, Zenon DEF ClearForCallback, Untouched, TypeOK
  <2> QED
    BY <2>1, <2>2, Zenon
<1> QED
  BY <1>1, QuietStep, Zenon DEF ClearForCallback

LEMMA SetTimeoutStep ==
  ASSUME TypeOK, NEW k \in Names, NEW to \in Timeouts, SetWaitTimeout(k, to)
  PROVE  StepOK
<1> DEFINE old == GetCallbackLock({k})[k]
           lock == [old EXCEPT !.timeout = to]
<1>1. k \in DOMAIN GetCallbackLock({k})
  BY Zenon DEF GetCallbackLock
<1>2. old \in Lock /\ old.wait_count = Count(k) /\ old.arg_data = Args(k)
  BY <1>1, GetLocksContents, Zenon
<1>3. cb_lock_map_' = [GetCallbackLock({k}) EXCEPT ![k] = lock] /\ UNCHANGED <<wait, history>>
  BY Zenon DEF SetWaitTimeout
<1> HIDE DEF old
<1>4. lock \in Lock /\ lock.wait_count = Count(k) /\ lock.arg_data = Args(k)
  BY <1>2, Zenon DEF Lock
<1> HIDE DEF lock
<1>5. \A n \in Names : Untouched(n)
  BY <1>3, <1>4, OneLockStep, Zenon DEF Untouched, history
<1> QED
  BY <1>3, <1>5, QuietStep, Zenon

(* What every step does to the counts, the arguments and the sleepers.     *)
LEMMA EveryStep ==
  ASSUME TypeOK, [Next]_vars
  PROVE  StepOK
<1>1. ASSUME NEW t \in Threads, NEW l \in AnyLists[t], NEW to \in Timeouts \cup {Unset},
             WaitForCallbackAny(t, l, to)
      PROVE  StepOK
  BY <1>1, PeekOrSleepStep, Zenon DEF WaitForCallbackAny
<1>2. ASSUME NEW t \in Threads, ResumeWaitAny(t) PROVE StepOK
  <2>1. wait[t].list \in AnyLists[t]
    BY <1>2, Zenon DEF ResumeWaitAny, TypeOK, WaitsOnLocks
  <2> QED
    BY <1>2, <2>1, TimedOutStep, PeekOrSleepStep, Zenon DEF ResumeWaitAny
<1>3. ASSUME NEW to \in Timeouts, SetWaitTimeoutDefault(to) PROVE StepOK
  BY <1>3, FrameEffect, QuietStep, Zenon DEF SetWaitTimeoutDefault
<1>4. CASE Tick
  BY <1>4, FrameEffect, QuietStep, Zenon DEF Tick
<1>5. CASE UNCHANGED vars
  BY <1>5, FrameEffect, QuietStep, Zenon DEF vars, history
<1>6. ASSUME NEW n \in ClearNames, ClearForCallback(n) PROVE StepOK
  BY <1>6, ClearStep, ClearNamesAssumption, Zenon
<1> QED
  BY <1>1, <1>2, <1>3, <1>4, <1>5, <1>6, WaitStep, ResumeStep, NotifyStep, SetTimeoutStep, SMTT(20) DEF Next
-----------------------------------------------------------------------------
(* Callback arguments are delivered exactly once and in the order of the   *)
(* notifications, whichever waits take them: CallbackLock keeps arg_data_  *)
(* as a queue under wait_mtx_.                                             *)
THEOREM ArgumentsInOrder == Spec => []ArgsDeliveredInOrder
<1>1. Init => ArgsDeliveredInOrder
  BY EmptySeq DEF Init, ArgsDeliveredInOrder
<1>2. TypeOK /\ ArgsDeliveredInOrder /\ [Next]_vars => ArgsDeliveredInOrder'
  <2> SUFFICES ASSUME TypeOK, ArgsDeliveredInOrder, [Next]_vars, NEW n \in Names
               PROVE  sent'[n] = got'[n] \o Args(n)'
    BY Zenon DEF ArgsDeliveredInOrder, Args
  <2>1. sent[n] = got[n] \o Args(n)
    BY Zenon DEF ArgsDeliveredInOrder, Args
  <2>2. Args(n) \in Seq(Data) /\ sent[n] \in Seq(Data) /\ got[n] \in Seq(Data)
    BY ContentsType, Zenon
  <2>3. Effect(n)
    BY EveryStep, Zenon DEF StepOK
  <2>4. CASE Untouched(n)
    BY <2>1, <2>4, Zenon DEF Untouched
  <2>5. CASE Taken(n)
    BY <2>1, <2>2, <2>5, MoveHead, Zenon DEF Taken
  <2>6. CASE Added(n)
    <3> DEFINE g == got[n]
               a == Args(n)
    <3>0. g \in Seq(Data) /\ a \in Seq(Data)
      BY <2>2, Zenon
    <3> HIDE DEF g, a
    <3>1. ASSUME NEW d \in Data PROVE Append(g \o a, d) = g \o Append(a, d)
      BY <3>0, AppendToConcat, Zenon
    <3> USE DEF g, a
    <3> QED
      BY <2>1, <2>6, <3>1, Zenon DEF Added
  <2>7. CASE Emptied(n)
    BY <2>7, ConcatEmptySeq, EmptySeq, Zenon DEF Emptied
  <2> QED
    BY <2>3, <2>4, <2>5, <2>6, <2>7, Zenon DEF Effect
<1> QED
  BY <1>1, <1>2, TypeCorrect, PTL DEF Spec

(* wait_count_ and arg_data_ stay in step up to the callbacks without data. *)
THEOREM CountAndArguments == Spec => []ArgsTrackCount
<1> DEFINE Inv == \A n \in Names : Len(Args(n)) <= Count(n) /\ Count(n) <= Len(Args(n)) + plain[n]
<1>1. Init => Inv
  BY EmptySeq DEF Init, Args, Count
<1>2. TypeOK /\ Inv /\ [Next]_vars => Inv'
  <2> SUFFICES ASSUME TypeOK, Inv, [Next]_vars, NEW n \in Names
               PROVE  (Len(Args(n)) <= Count(n) /\ Count(n) <= Len(Args(n)) + plain[n])'
    BY Zenon
  <2>1. Len(Args(n)) <= Count(n) /\ Count(n) <= Len(Args(n)) + plain[n]
    BY Zenon
  <2> HIDE DEF Inv
  <2>2. Args(n) \in Seq(Data) /\ Count(n) \in Nat /\ plain[n] \in Nat /\ Len(Args(n)) \in Nat
    BY ContentsType, LenProperties, Zenon
  <2>3. Effect(n)
    BY EveryStep, Zenon DEF StepOK
  <2>4. CASE Untouched(n)
    BY <2>1, <2>4, Zenon DEF Untouched
  <2>5. CASE Taken(n)
    <3>1. Args(n) # <<>> => Len(Tail(Args(n))) = Len(Args(n)) - 1
      BY <2>2, HeadTailProperties, Zenon
    <3>2. Args(n) = <<>> => Len(Args(n)) = 0
      BY EmptySeq, Zenon
    <3> QED
      BY <2>1, <2>2, <2>5, <3>1, <3>2, SMTT(20) DEF Taken
  <2>6. CASE Added(n)
    <3>1. \A d \in Data : Len(Append(Args(n), d)) = Len(Args(n)) + 1
      BY <2>2, AppendProperties, Zenon
    <3> QED
      BY <2>1, <2>2, <2>6, <3>1, SMTT(20) DEF Added
  <2>7. CASE Emptied(n)
    BY <2>7, EmptySeq DEF Emptied
  <2> QED
    BY <2>3, <2>4, <2>5, <2>6, <2>7, Zenon DEF Effect
<1>3. TypeOK /\ Inv => ArgsTrackCount
  BY Zenon DEF TypeOK, ArgsTrackCount, Args, Count
<1> QED
  BY <1>1, <1>2, <1>3, TypeCorrect, PTL DEF Spec

(* What a wait hands out is what NotifyFromCallback was given, in order and *)
(* with its count.                                                         *)
THEOREM ArgumentsAsDelivered == Spec => []ArgsAsDelivered
BY ArgumentsInOrder, CountAndArguments, PTL DEF ArgsAsDelivered

(* Neither wait loses a wake-up of the thread that is alone in waiting:    *)
(* every notify is followed by a notify_one on the right condition         *)
(* variable, and a waiter tests the count before it sleeps.                *)
THEOREM NoWakeupIsLost == Spec => []NoLostWakeup
<1> DEFINE One(t) == wait[t].pc = "asleep" /\ SoleWaiter(t, wait[t].name) =>
                       Count(wait[t].name) = 0
           Each(t) == wait[t].pc = "anyAsleep" /\ SoleAnyWaiter(t) =>
                       \A n \in Names : Watches(t, n) => Count(n) = 0
           Inv == \A t \in Threads : One(t) /\ Each(t)
<1>1. Init => Inv
  BY DEF Init, Idle
<1>2. TypeOK /\ TypeOK' /\ Inv /\ [Next]_vars => Inv'
  <2> SUFFICES ASSUME TypeOK, TypeOK', Inv, [Next]_vars, NEW t \in Threads
               PROVE  One(t)' /\ Each(t)'
    BY Zenon
  <2>1. One(t) /\ Each(t)
    BY Zenon
  <2>2. Sleeps(t) /\ SleepsAny(t)
    BY EveryStep, Zenon DEF StepOK
  <2>3. \A n \in Names : Count(n) \in Nat /\ Count(n)' \in Nat
    <3>1. \A n \in Names : Count(n) \in Nat
      BY ContentsType, Zenon
    <3>2. \A n \in Names : Count(n)' \in Nat
      BY Zenon DEF TypeOK, Count, Lock
    <3> QED
      BY <3>1, <3>2, Zenon
  <2>4. One(t)'
    <3> SUFFICES ASSUME wait[t].pc' = "asleep", SoleWaiter(t, wait[t].name)',
                        wait[t].pc = "asleep", wait[t].name' = wait[t].name,
                        Count(wait[t].name)' <= Count(wait[t].name)
                 PROVE  Count(wait[t].name)' = 0
      BY <2>2, Zenon DEF Sleeps, SoleWaiter
    <3>1. SoleWaiter(t, wait[t].name) /\ wait[t].name \in Names
      BY WaitNamesAssumption, Zenon DEF SoleWaiter, TypeOK, WaitsOnLocks
    <3>2. Count(wait[t].name) = 0
      BY <2>1, <3>1, Zenon
    <3>3. Count(wait[t].name)' \in Nat
      BY WaitNamesAssumption, Zenon DEF TypeOK, WaitsOnLocks, Count, Lock
    <3> QED
      BY <3>2, <3>3
  <2>5. Each(t)'
    <3> SUFFICES ASSUME wait[t].pc' = "anyAsleep", SoleAnyWaiter(t),
                        wait[t].pc = "anyAsleep", wait[t].list' = wait[t].list,
                        \A n \in Names : Count(n)' <= Count(n),
                        NEW n \in Names, Watches(t, n)'
                 PROVE  Count(n)' = 0
      BY <2>2, Zenon DEF SleepsAny, SoleAnyWaiter
    <3>1. Watches(t, n)
      BY Zenon DEF Watches
    <3>2. Count(n) = 0
      BY <2>1, <3>1, Zenon
    <3> QED
      BY <2>3, <3>2
  <2> QED
    BY <2>4, <2>5, Zenon
<1>3. TypeOK /\ Inv => NoLostNameWakeup
  BY Zenon DEF TypeOK, WaitsOnLocks, NoLostNameWakeup, Count
<1>4. TypeOK /\ Inv => NoLostAnyWakeup
  <2> SUFFICES ASSUME TypeOK, Inv, NEW t \in Threads, wait[t].pc = "anyAsleep", SoleAnyWaiter(t),
                      NEW n \in Monitored(cb_lock_map_, wait[t].list)
               PROVE  cb_lock_map_[n].wait_count = 0
    BY Zenon DEF NoLostAnyWakeup
  <2>1. n \in DOMAIN cb_lock_map_ /\ n \in Names /\ Watches(t, n)
    BY Zenon DEF Monitored, TypeOK, WaitsOnLocks, Watches
  <2>2. Each(t)
    BY Zenon
  <2> QED
    BY <2>1, <2>2, Zenon DEF Count
<1>5. Init => TypeOK
  BY InitType, Zenon
<1>6. TypeOK /\ [Next]_vars => TypeOK'
  BY NextType, Zenon
<1> HIDE DEF Inv
<1> QED
  BY <1>1, <1>2, <1>3, <1>4, <1>5, <1>6, PTL DEF Spec, NoLostWakeup
=============================================================================
