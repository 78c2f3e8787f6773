--------------------------- MODULE TargetCallback ---------------------------
(***************************************************************************)
(* VtsHalHidlTargetCallbackBase: the wait/notify helper a target-side HIDL *)
(* test uses to wait for callbacks that HAL threads deliver.               *)
(*                                                                         *)
(* A callback name owns a CallbackLock (wait_count_, arg_data_, timeout_)  *)
(* that is created on first use.  A test thread waits for one name on that *)
(* lock's condition variable, or for any of a list of names on the shared  *)
(* cb_wait_any_cv_.  HAL threads notify a name.  Each critical section of  *)
(* the code is one action; a thread that sleeps inside wait_until is       *)
(* between actions.                                                        *)
(***************************************************************************)
EXTENDS Integers, Sequences, SequencesExt, FiniteSetsExt

CONSTANTS
  Threads,     \* test threads that wait
  Names,       \* callback function names
  Data,        \* argument payloads a callback may carry
  NoData,      \* the null shared_ptr: a callback without arguments
  WaitNames,   \* [Threads -> SUBSET Names]: names a thread passes to WaitForCallback
  AnyLists,    \* [Threads -> SUBSET Seq(Names)]: lists it passes to WaitForCallbackAny
  Timeouts,    \* timeouts in use (positive)
  ClearNames,  \* names the tests clear
  DurMax,      \* largest representable duration and time point
  MaxNow,      \* bound: the clock stops here
  MaxNotify    \* bound: notifications a lock holds or has delivered

ASSUME NoDataAssumption == NoData \notin Data
ASSUME WaitNamesAssumption == WaitNames \in [Threads -> SUBSET Names]
ASSUME AnyListsAssumption == AnyLists \in [Threads -> SUBSET Seq(Names)]
ASSUME TimeoutsAssumption == Timeouts \subseteq Nat \ {0}
ASSUME ClearNamesAssumption == ClearNames \subseteq Names
ASSUME ClockAssumption == DurMax \in Nat /\ MaxNow \in Nat
ASSUME NotifyAssumption == MaxNotify \in Nat

Unset == -1    \* "negative timeout": use the lock's or the default timeout

VARIABLES
  now,                      \* system_clock, which is past its epoch
  cb_lock_map_,             \* partial map Names -> CallbackLock
  cb_default_wait_timeout_,
  wait,                     \* per thread: the call it is in
  sent, got, plain          \* per name, since its lock was created: payloads
                            \* notified, payloads delivered, and the number of
                            \* notifications that carried none (history)

vars == <<now, cb_lock_map_, cb_default_wait_timeout_, wait, sent, got, plain>>
history == <<sent, got, plain>>

Idle == [pc |-> "idle", name |-> NoData, list |-> <<>>, start |-> 0,
         expire |-> 0, timeout |-> Unset]

NewLock == [wait_count |-> 0, arg_data |-> <<>>, timeout |-> Unset]

(* The map after GetCallbackLock was called for every name of S.           *)
GetCallbackLock(S) ==
  [n \in DOMAIN cb_lock_map_ \cup S |->
     IF n \in DOMAIN cb_lock_map_ THEN cb_lock_map_[n] ELSE NewLock]

(* Time points and durations are signed integers of one width; the sum of  *)
(* two of them wraps.                                                      *)
AddTime(t, d) == IF t + d > DurMax THEN t + d - 2 * (DurMax + 1) ELSE t + d

GetWaitTimeout(lock) ==
  IF lock.timeout < 0 THEN cb_default_wait_timeout_ ELSE lock.timeout

(* The names whose locks GetWaitAnyCallbackLocks returns.                  *)
Monitored(map, list) == IF list = <<>> THEN DOMAIN map ELSE ToSet(list)

GetWaitAnyTimeout(map, list, start, timeout) ==
  LET limits == {GetWaitTimeout(map[n]) : n \in Monitored(map, list)} \cup {DurMax}
  IN  IF timeout >= 0
      THEN AddTime(start, timeout)
      ELSE AddTime(start, Min(limits))

(* PeekCallbackLocks takes the first lock of the list that has a count; an *)
(* empty list is every lock, in the unspecified order of unordered_map.    *)
Peekable(map, list) ==
  IF list = <<>>
  THEN {n \in DOMAIN map : map[n].wait_count > 0}
  ELSE {list[i] : i \in {j \in DOMAIN list :
          /\ map[list[j]].wait_count > 0
          /\ \A k \in 1..(j - 1) : map[list[k]].wait_count = 0}}

(* CallbackLock::Wait once the count is known to be positive: one count    *)
(* and, if there is one, the oldest argument are taken.                    *)
Popped(lock) ==
  [wait_count |-> lock.wait_count - 1,
   arg_data   |-> IF lock.arg_data = <<>> THEN <<>> ELSE Tail(lock.arg_data),
   timeout    |-> lock.timeout]

(* The argument is returned and stays in the queue. *)
ConsumeKeepsArgument(t, map, n) ==
  /\ cb_lock_map_' = [map EXCEPT ![n].wait_count = @ - 1]
  /\ got' = IF map[n].arg_data = <<>> THEN got
            ELSE [got EXCEPT ![n] = Append(@, Head(map[n].arg_data))]
  /\ wait' = [wait EXCEPT ![t] = Idle]
  /\ UNCHANGED <<sent, plain>>

Consume(t, map, n) ==
  /\ cb_lock_map_' = [map EXCEPT ![n] = Popped(map[n])]
  /\ got' = IF map[n].arg_data = <<>> THEN got
            ELSE [got EXCEPT ![n] = Append(@, Head(map[n].arg_data))]
  /\ wait' = [wait EXCEPT ![t] = Idle]
  /\ UNCHANGED <<sent, plain>>

(* The wait_until of either wait returned cv_status::timeout.              *)
ReturnTimedOut(t) ==
  /\ wait' = [wait EXCEPT ![t] = Idle]
  /\ UNCHANGED <<cb_lock_map_, history>>
-----------------------------------------------------------------------------
Init ==
  /\ now = 1
  /\ cb_lock_map_ = [n \in {} |-> NewLock]
  /\ cb_default_wait_timeout_ \in Timeouts
  /\ wait = [t \in Threads |-> Idle]
  /\ sent = [n \in Names |-> <<>>]
  /\ got = [n \in Names |-> <<>>]
  /\ plain = [n \in Names |-> 0]

(* Bound: a wait starts only while the clock can still reach its end.      *)
TimeLeft == \A d \in Timeouts : now + d <= MaxNow

(* WaitForCallback(n, timeout): take the count, or go to sleep.            *)
WaitForCallback(t, n, timeout) ==
  LET map == GetCallbackLock({n})
  IN  /\ wait[t].pc = "idle"
      /\ TimeLeft
      /\ \/ /\ map[n].wait_count > 0
            /\ Consume(t, map, n)
         \/ /\ map[n].wait_count = 0
            /\ cb_lock_map_' = map
            /\ LET limit == IF timeout < 0 THEN GetWaitTimeout(map[n]) ELSE timeout
               IN  wait' = [wait EXCEPT ![t] = [Idle EXCEPT !.pc = "asleep", !.name = n,
                                                   !.expire = AddTime(now, limit)]]
            /\ UNCHANGED history
      /\ UNCHANGED <<now, cb_default_wait_timeout_>>

(* The waiter of one name holds wait_mtx_ again: its wait_until returned   *)
(* because it was signalled, because time is up, or spuriously.            *)
ResumeWait(t) ==
  LET n == wait[t].name
  IN  /\ wait[t].pc \in {"asleep", "signalled"}
      /\ \/ /\ now >= wait[t].expire
            /\ ReturnTimedOut(t)
         \/ /\ now < wait[t].expire
            /\ cb_lock_map_[n].wait_count > 0
            /\ Consume(t, cb_lock_map_, n)
         \/ /\ now < wait[t].expire
            /\ cb_lock_map_[n].wait_count = 0
            /\ wait' = [wait EXCEPT ![t].pc = "asleep"]
            /\ UNCHANGED <<cb_lock_map_, history>>
      /\ UNCHANGED <<now, cb_default_wait_timeout_>>

(* One round of the loop of WaitForCallbackAny, under cb_wait_any_mtx_.    *)
PeekOrSleep(t, list, start, timeout) ==
  LET map == GetCallbackLock(ToSet(list))
  IN  \/ \E n \in Peekable(map, list) : Consume(t, map, n)
      \/ /\ Peekable(map, list) = {}
         /\ cb_lock_map_' = map
         /\ wait' = [wait EXCEPT ![t] =
              [pc |-> "anyAsleep", name |-> NoData, list |-> list, start |-> start,
               timeout |-> timeout,
               expire |-> GetWaitAnyTimeout(map, list, start, timeout)]]
         /\ UNCHANGED history

WaitForCallbackAny(t, list, timeout) ==
  /\ wait[t].pc = "idle"
  /\ TimeLeft
  /\ PeekOrSleep(t, list, now, timeout)
  /\ UNCHANGED <<now, cb_default_wait_timeout_>>

(* The loop goes on after cv_status::timeout. *)
ResumeWaitAnyNoBreak(t) ==
  /\ wait[t].pc \in {"anyAsleep", "anySignalled"}
  /\ PeekOrSleep(t, wait[t].list, wait[t].start, wait[t].timeout)
  /\ UNCHANGED <<now, cb_default_wait_timeout_>>

ResumeWaitAny(t) ==
  /\ wait[t].pc \in {"anyAsleep", "anySignalled"}
  /\ \/ now >= wait[t].expire /\ ReturnTimedOut(t)
     \/ now < wait[t].expire
        /\ PeekOrSleep(t, wait[t].list, wait[t].start, wait[t].timeout)
  /\ UNCHANGED <<now, cb_default_wait_timeout_>>

(* The notify_one of one of the two condition variables is forgotten. *)
SignalledAnyOnly(S, pc) ==
  IF S = {} \/ pc = "signalled" THEN {wait} ELSE {[wait EXCEPT ![t].pc = pc] : t \in S}

(* notify_one: some sleeping thread of S, if there is one, is signalled.   *)
Signalled(S, pc) ==
  IF S = {} THEN {wait} ELSE {[wait EXCEPT ![t].pc = pc] : t \in S}

WaitersOf(n) == {t \in Threads : wait[t].pc = "asleep" /\ wait[t].name = n}
AnyWaiters == {t \in Threads : wait[t].pc = "anyAsleep"}

(* CallbackLock::NotifyFromCallback, with and without data.                *)
Pushed(lock, d) ==
  [wait_count |-> lock.wait_count + 1,
   arg_data   |-> IF d = NoData THEN lock.arg_data ELSE Append(lock.arg_data, d),
   timeout    |-> lock.timeout]

(* NotifyFromCallback(n) or NotifyFromCallback(n, d), on a HAL thread.     *)
NotifyFromCallback(n, d) ==
  LET map == GetCallbackLock({n})
  IN  /\ Len(sent[n]) + plain[n] < MaxNotify
      /\ cb_lock_map_' = [map EXCEPT ![n] = Pushed(map[n], d)]
      /\ sent' = IF d = NoData THEN sent ELSE [sent EXCEPT ![n] = Append(@, d)]
      /\ plain' = IF d = NoData THEN [plain EXCEPT ![n] = @ + 1] ELSE plain
      /\ \E one \in Signalled(WaitersOf(n), "signalled"),
            any \in Signalled(AnyWaiters, "anySignalled") :
           wait' = [t \in Threads |-> IF wait[t].pc = "asleep" THEN one[t] ELSE any[t]]
      /\ UNCHANGED <<now, cb_default_wait_timeout_, got>>

(* A thread is inside a call that uses n's CallbackLock.                   *)
Uses(t, n) ==
  \/ wait[t].pc \in {"asleep", "signalled"} /\ wait[t].name = n
  \/ /\ wait[t].pc \in {"anyAsleep", "anySignalled"}
     /\ n \in Monitored(cb_lock_map_, wait[t].list)

(* ClearForCallback deletes the lock.  Its callers are the tests, which    *)
(* clear a name only while none of their threads waits on it.              *)
ClearForCallback(n) ==
  /\ \A t \in Threads : ~Uses(t, n)
  /\ cb_lock_map_' = [GetCallbackLock({n}) EXCEPT ![n] = NewLock]
  /\ sent' = [sent EXCEPT ![n] = <<>>]
  /\ got' = [got EXCEPT ![n] = <<>>]
  /\ plain' = [plain EXCEPT ![n] = 0]
  /\ UNCHANGED <<now, cb_default_wait_timeout_, wait>>

SetWaitTimeout(n, timeout) ==
  /\ cb_lock_map_' = [GetCallbackLock({n}) EXCEPT ![n].timeout = timeout]
  /\ UNCHANGED <<now, cb_default_wait_timeout_, wait, history>>

SetWaitTimeoutDefault(timeout) ==
  /\ cb_default_wait_timeout_' = timeout
  /\ UNCHANGED <<now, cb_lock_map_, wait, history>>

Tick ==
  /\ now < MaxNow
  /\ now' = now + 1
  /\ UNCHANGED <<cb_lock_map_, cb_default_wait_timeout_, wait, history>>

Next ==
  \/ \E t \in Threads : \E n \in WaitNames[t], to \in Timeouts \cup {Unset} :
       WaitForCallback(t, n, to)
  \/ \E t \in Threads : \E l \in AnyLists[t], to \in Timeouts \cup {Unset} :
       WaitForCallbackAny(t, l, to)
  \/ \E t \in Threads : ResumeWait(t) \/ ResumeWaitAny(t)
  \/ \E n \in Names, d \in Data \cup {NoData} : NotifyFromCallback(n, d)
  \/ \E n \in ClearNames : ClearForCallback(n)
  \/ \E n \in Names, to \in Timeouts : SetWaitTimeout(n, to)
  \/ \E to \in Timeouts : SetWaitTimeoutDefault(to)
  \/ Tick

Spec == Init /\ [][Next]_vars

(* The wait_until of thread t has a reason to return.  Spurious wake-ups   *)
(* are possible and are not relied on.                                     *)
Due(t) == wait[t].pc \in {"signalled", "anySignalled"} \/ now >= wait[t].expire

(* The clock advances, and a thread whose wait_until must return runs.     *)
Fairness ==
  /\ WF_vars(Tick)
  /\ \A t \in Threads : WF_vars(Due(t) /\ (ResumeWait(t) \/ ResumeWaitAny(t)))

FairSpec == Spec /\ Fairness
-----------------------------------------------------------------------------
Lock == [wait_count : Nat, arg_data : Seq(Data), timeout : Timeouts \cup {Unset}]

WaitState == [pc : {"idle", "asleep", "signalled", "anyAsleep", "anySignalled"},
              name : Names \cup {NoData}, list : Seq(Names), start : Nat,
              expire : Int, timeout : Timeouts \cup {Unset}]

(* A thread inside a wait uses a name or a list of its own, and the locks   *)
(* of these exist.                                                          *)
WaitsOnLocks ==
  \A t \in Threads :
    /\ wait[t].pc \in {"asleep", "signalled"} =>
         wait[t].name \in WaitNames[t] /\ wait[t].name \in DOMAIN cb_lock_map_
    /\ wait[t].pc \in {"anyAsleep", "anySignalled"} =>
         wait[t].list \in AnyLists[t] /\ ToSet(wait[t].list) \subseteq DOMAIN cb_lock_map_

(* Type invariant: every variable has the C++ type of the member it models, *)
(* and no wait is on a CallbackLock that does not exist.                    *)
TypeOK ==
  /\ now \in Nat
  /\ DOMAIN cb_lock_map_ \subseteq Names
  /\ cb_lock_map_ \in [DOMAIN cb_lock_map_ -> Lock]
  /\ cb_default_wait_timeout_ \in Timeouts
  /\ wait \in [Threads -> WaitState]
  /\ sent \in [Names -> Seq(Data)]
  /\ got \in [Names -> Seq(Data)]
  /\ plain \in [Names -> Nat]
  /\ WaitsOnLocks

(* Callback arguments reach the waiting tests exactly once and in the order *)
(* the HAL delivered them: what was notified is what was handed out         *)
(* followed by what still sits in arg_data_, whichever mix of               *)
(* WaitForCallback and WaitForCallbackAny took it.                          *)
ArgsDeliveredInOrder ==
  \A n \in Names :
    sent[n] = got[n] \o (IF n \in DOMAIN cb_lock_map_ THEN cb_lock_map_[n].arg_data ELSE <<>>)

(* wait_count_ and arg_data_ never drift apart by more than the callbacks   *)
(* that carried no data: a wait that returns cannot pick up arguments left  *)
(* over from a callback that was already waited for, and when every         *)
(* callback carries data every successful wait returns some.                *)
ArgsTrackCount ==
  \A n \in DOMAIN cb_lock_map_ :
    /\ Len(cb_lock_map_[n].arg_data) <= cb_lock_map_[n].wait_count
    /\ cb_lock_map_[n].wait_count <= Len(cb_lock_map_[n].arg_data) + plain[n]

(* What a wait hands out is what NotifyFromCallback was given: once, in    *)
(* order, and with the count that it belongs to.                           *)
ArgsAsDelivered == ArgsDeliveredInOrder /\ ArgsTrackCount

SoleWaiter(t, n) == \A u \in Threads : n \in WaitNames[u] => u = t
SoleAnyWaiter(t) == \A u \in Threads : AnyLists[u] # {} => u = t

(* The only thread that waits for a name is never asleep in wait_until      *)
(* while a notification of it is pending.                                   *)
NoLostNameWakeup ==
  \A t \in Threads :
    wait[t].pc = "asleep" /\ SoleWaiter(t, wait[t].name) =>
      cb_lock_map_[wait[t].name].wait_count = 0

(* When one thread uses WaitForCallbackAny, it is never asleep while one of *)
(* the callbacks it monitors is pending, also those whose lock was created  *)
(* after it went to sleep.                                                  *)
NoLostAnyWakeup ==
  \A t \in Threads :
    wait[t].pc = "anyAsleep" /\ SoleAnyWaiter(t) =>
      \A n \in Monitored(cb_lock_map_, wait[t].list) : cb_lock_map_[n].wait_count = 0

(* NotifyFromCallback loses no wake-up of WaitForCallback nor, for one      *)
(* thread, of WaitForCallbackAny, whatever timeouts and clears come between.*)
NoLostWakeup == NoLostNameWakeup /\ NoLostAnyWakeup

(* Every wait ends: by a notification or, at the latest, by its timeout.    *)
EveryWaitEnds == \A t \in Threads : wait[t].pc # "idle" ~> wait[t].pc = "idle"
=============================================================================
