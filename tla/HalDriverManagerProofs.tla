----------------------- MODULE HalDriverManagerProofs -----------------------
(***************************************************************************)
(* Proofs about HalDriverManager: for every number of interfaces,          *)
(* addresses, calls and results, a mirror's driver id names a registered   *)
(* driver, and a call through the mirror reaches the object that it was    *)
(* made for.  The argument is about references: a registered driver holds  *)
(* one on its object from its registration on, and a result holds one      *)
(* until its driver has been registered, so an address that the manager    *)
(* compares is never one that was used again.                              *)
(***************************************************************************)
EXTENDS HalDriverManager, WellFoundedInduction, TLAPS

Serving == phase = "serving"

(* A driver with a pointer holds a reference; the loaded HAL comes first.  *)
DriversInv ==
  /\ \A d \in 1..Len(hal_driver_map_) :
       /\ hal_driver_map_[d].driver = "service" <=> hal_driver_map_[d].pt = Nullptr
       /\ hal_driver_map_[d].driver = "proxy" => Ref("driver", d - 1) \in refs[hal_driver_map_[d].pt]
  /\ phase = "start" => hal_driver_map_ = <<>>
  /\ Serving /\ ~replaying => Len(hal_driver_map_) > 0 /\ hal_driver_map_[1].pt = Nullptr

(* A result that is still to be set holds a reference of its own.          *)
PendingInv ==
  \A k \in 1..Len(call.pending) :
    /\ call.pending[k].pt # Nullptr =>
         /\ Ref("result", call.pending[k].n) \in refs[call.pending[k].pt]
         /\ object[call.pending[k].pt] = call.pending[k].obj
    /\ call.pending[k].type = "interface" => call.pending[k].iface \in Interfaces
    /\ call.pending[k].n < returned
    /\ \A l \in 1..Len(call.pending) : call.pending[k].n = call.pending[l].n => k = l

(* A result that is set has the id of the driver of its object, which is   *)
(* never the first one in a session of the host.                           *)
SetInv ==
  \A k \in 1..Len(call.set) :
    /\ call.set[k].iface \in Interfaces
    /\ call.set[k].id \in -1..(Len(hal_driver_map_) - 1)
    /\ ~replaying => call.set[k].id # 0
    /\ call.set[k].id \in Ids =>
         Entry(call.set[k].id).iface = call.set[k].iface /\ Reaches(call.set[k].id, call.set[k].obj)

PhaseInv ==
  /\ call.pc # "idle" => Serving
  /\ call.pc # "set" => call.set = <<>>
  /\ call.pc \in {"idle", "find"} => call.pending = <<>>

IInv == TypeOK /\ DriversInv /\ PendingInv /\ SetInv /\ PhaseInv /\ MirrorReachesItsObject
-----------------------------------------------------------------------------
(* A set of natural numbers that is not empty has a least element.         *)
LEMMA LeastElement ==
  ASSUME NEW S \in SUBSET Nat, S # {}
  PROVE  \E d \in S : \A e \in S : d =< e
  <1> DEFINE Less == {ss \in Nat \X Nat : ss[1] < ss[2]}
  <1>1. IsWellFoundedOn(Less, Nat)
    BY NatLessThanWellFounded, Zenon DEF OpToRel
  <1> HIDE DEF Less
  <1>2. \E d \in S : \A e \in S : ~(<<e, d>> \in Less)
    BY <1>1, WFMin, Zenon
  <1>3. ASSUME NEW d \in S, NEW e \in S, ~(<<e, d>> \in Less) PROVE d =< e
    BY <1>3 DEF Less
  <1> QED BY <1>2, <1>3, Zenon

(* FindDriverIdInternal finds a driver that matches, or returns -1 and     *)
(* there is none.                                                          *)
LEMMA FindFinds ==
  ASSUME TypeOK, NEW iface \in Interfaces, NEW pts
  PROVE  LET id == FindDriverIdInternal("hidl", iface, pts)
         IN  \/ id = -1 /\ Matches(iface, pts) = {}
             \/ id \in Ids /\ Entry(id).iface = iface /\ Entry(id).pt \in pts
  <1> DEFINE found == Matches(iface, pts)
             id == FindDriverIdInternal("hidl", iface, pts)
  <1>1. CASE found = {}
    BY <1>1, Zenon DEF FindDriverIdInternal, kInvalidDriverId
  <1>2. CASE found # {}
    <2>1. found \subseteq 1..Len(hal_driver_map_) /\ Len(hal_driver_map_) \in Nat
      BY DEF Matches, TypeOK
    <2>2. \E d \in found : \A e \in found : d =< e
      BY <1>2, <2>1, LeastElement, SMTT(40)
    <2>3. PICK d \in found : d = CHOOSE c \in found : \A e \in found : c =< e
      BY <2>2, Zenon
    <2>4. id = d - 1
      BY <1>2, <2>3, ConstantsAssumption, Zenon DEF FindDriverIdInternal
    <2>5. d \in 1..Len(hal_driver_map_) /\ hal_driver_map_[d].iface = iface /\ hal_driver_map_[d].pt \in pts
      BY <2>3, Zenon DEF Matches
    <2>6. id + 1 = d /\ id \in Ids
      BY <2>1, <2>4, <2>5 DEF Ids
    <2>7. Entry(id) = hal_driver_map_[d]
      BY <2>6, Zenon DEF Entry
    <2> QED BY <2>5, <2>6, <2>7, Zenon
  <1> QED BY <1>1, <1>2, Zenon

(* A driver that RegisterDriver adds comes last and the others stay.       *)
LEMMA RegisterKeeps ==
  ASSUME TypeOK, NEW iface \in Interfaces, NEW pt \in Addrs \cup {Nullptr},
         NEW driver \in {"service", "proxy", "null"},
         NEW m, m = RegisterDriver(iface, pt, driver),
         NEW id, id = RegisteredId(iface, pt)
  PROVE  /\ m \in Seq(Drivers)
         /\ Len(m) >= Len(hal_driver_map_) /\ Len(m) > 0
         /\ \A d \in 1..Len(hal_driver_map_) : m[d] = hal_driver_map_[d]
         /\ id \in 0..(Len(m) - 1) /\ m[id + 1].iface = iface /\ m[id + 1].pt = pt
         /\ \/ m = hal_driver_map_ /\ id \in Ids /\ ~IsNew(iface, pt)
            \/ /\ Len(m) = Len(hal_driver_map_) + 1 /\ id = Len(hal_driver_map_)
               /\ m[id + 1].driver = driver /\ IsNew(iface, pt)
  <1> DEFINE f == FindDriverIdInternal("hidl", iface, {pt})
  <1>0. Len(hal_driver_map_) \in Nat
    BY DEF TypeOK
  <1>1. CASE f = -1
    <2>1. IsNew(iface, pt) /\ id = Len(hal_driver_map_)
      BY <1>1, Zenon DEF IsNew, RegisteredId, kInvalidDriverId
    <2>2. m = Append(hal_driver_map_, [iface |-> iface, pt |-> pt, driver |-> driver])
      BY <2>1, Zenon DEF RegisterDriver
    <2>a. [iface |-> iface, pt |-> pt, driver |-> driver] \in Drivers
      BY Zenon DEF Drivers
    <2>3. /\ Len(m) = Len(hal_driver_map_) + 1 /\ id + 1 = Len(m)
          /\ m[Len(m)] = [iface |-> iface, pt |-> pt, driver |-> driver]
          /\ \A d \in 1..Len(hal_driver_map_) : m[d] = hal_driver_map_[d]
          /\ m \in Seq(Drivers)
      BY <1>0, <2>1, <2>2, <2>a DEF TypeOK
    <2> QED BY <1>0, <2>1, <2>3
  <1>2. CASE f # -1
    <2>1. f \in Ids /\ Entry(f).iface = iface /\ Entry(f).pt = pt
      BY <1>2, FindFinds
    <2>2. ~IsNew(iface, pt) /\ id = f /\ m = hal_driver_map_
      BY <1>2, Zenon DEF IsNew, RegisteredId, RegisterDriver, kInvalidDriverId
    <2>3. id \in 0..(Len(m) - 1) /\ m[id + 1].iface = iface /\ m[id + 1].pt = pt /\ id \in Ids
      BY <2>1, <2>2, Zenon DEF Ids, Entry
    <2>4. Len(m) > 0
      BY <1>0, <2>2, <2>3
    <2> QED BY <1>0, <2>2, <2>3, <2>4 DEF TypeOK
  <1> QED BY <1>1, <1>2, Zenon

(* A driver's pointer is an address unless the driver was loaded.          *)
LEMMA DriverFields ==
  ASSUME TypeOK, NEW d \in 1..Len(hal_driver_map_)
  PROVE  /\ hal_driver_map_[d].pt \in Addrs \cup {Nullptr}
         /\ hal_driver_map_[d].iface \in Interfaces
         /\ hal_driver_map_[d].driver \in {"service", "proxy", "null"}
  <1>1. hal_driver_map_[d] \in Drivers
    BY DEF TypeOK
  <1> QED BY <1>1, Zenon DEF Drivers

(* What a driver reaches stays the same as long as drivers keep their      *)
(* references and objects are only made where none is.                     *)
LEMMA ReachesStays ==
  ASSUME TypeOK, TypeOK', DriversInv, DriversInv',
         Len(hal_driver_map_') >= Len(hal_driver_map_),
         \A d \in 1..Len(hal_driver_map_) : hal_driver_map_'[d] = hal_driver_map_[d],
         \A a \in Addrs : Alive(a) => object'[a] = object[a],
         NEW id \in Ids, NEW obj, Reaches(id, obj)
  PROVE  /\ id \in Ids' /\ Reaches(id, obj)'
         /\ Entry(id)' = Entry(id)
  <1>1. id + 1 \in 1..Len(hal_driver_map_) /\ id \in Ids' /\ id + 1 \in 1..Len(hal_driver_map_')
    BY DEF Ids, TypeOK
  <1>2. Entry(id)' = Entry(id)
    BY <1>1, Zenon DEF Entry
  <1>3. ASSUME Entry(id).driver = "proxy" PROVE Alive(Entry(id).pt)' /\ object'[Entry(id).pt] = obj
    <2>1. Entry(id).pt \in Addrs
      <3>1. Entry(id).pt \in Addrs \cup {Nullptr}
        <4>1. Entry(id) \in Drivers
          BY <1>1 DEF TypeOK, Entry
        <4> QED BY <4>1, Zenon DEF Drivers
      <3>2. Entry(id).driver = "service" <=> Entry(id).pt = Nullptr
        BY <1>1, Zenon DEF DriversInv, Entry
      <3> QED BY <1>3, <3>1, <3>2, Zenon
    <2>2. Alive(Entry(id).pt)'
      BY <1>1, <1>2, <1>3, Zenon DEF DriversInv, Entry, Alive
    <2>3. Alive(Entry(id).pt) /\ object[Entry(id).pt] = obj
      BY <1>3, Zenon DEF Reaches
    <2> QED BY <2>1, <2>2, <2>3, Zenon
  <1>4. Reaches(id, obj)'
    BY <1>2, <1>3, Zenon DEF Reaches
  <1> QED BY <1>1, <1>2, <1>4, Zenon
-----------------------------------------------------------------------------
LEMMA SeqGrows ==
  ASSUME NEW S, NEW T, S \subseteq T, NEW s \in Seq(S)
  PROVE  s \in Seq(T)
  OBVIOUS

LEMMA AppendType ==
  ASSUME NEW S, NEW s \in Seq(S), NEW x \in S
  PROVE  Append(s, x) \in Seq(S)
  OBVIOUS

(* What a step keeps: drivers stay where they are, and objects live on.    *)
Keeps ==
  /\ Len(hal_driver_map_') >= Len(hal_driver_map_)
  /\ \A d \in 1..Len(hal_driver_map_) : hal_driver_map_'[d] = hal_driver_map_[d]
  /\ \A a \in Addrs : Alive(a) => object'[a] = object[a]
  /\ replaying' = replaying

LEMMA IdsGrow ==
  ASSUME TypeOK, hal_driver_map_' \in Seq(Drivers), Keeps
  PROVE  KnownIds \subseteq KnownIds' /\ Mirrors \subseteq Mirrors' /\ Calls \subseteq Calls'
  <1>1. Len(hal_driver_map_) \in Nat /\ Len(hal_driver_map_') \in Nat
    BY DEF TypeOK
  <1>2. KnownIds \subseteq KnownIds'
    BY <1>1 DEF KnownIds, Keeps
  <1>3. Mirrors \subseteq Mirrors'
    BY <1>2, Zenon DEF Mirrors
  <1>4. Calls \subseteq Calls'
    BY <1>2, Zenon DEF Calls, Results
  <1> QED BY <1>2, <1>3, <1>4, Zenon

(* Mirrors that a step leaves alone keep reaching their objects.           *)
LEMMA MirrorsStay ==
  ASSUME IInv, TypeOK', DriversInv', Keeps, Len(mirrors') = Len(mirrors),
         \A m \in 1..Len(mirrors) : /\ mirrors'[m].driver_id = mirrors[m].driver_id
                                    /\ mirrors'[m].iface = mirrors[m].iface
                                    /\ mirrors'[m].obj = mirrors[m].obj
  PROVE  MirrorReachesItsObject'
  <1> SUFFICES ASSUME NEW m \in DOMAIN mirrors', (mirrors[m].driver_id \in Ids)'
               PROVE  /\ (Entry(mirrors[m].driver_id).iface = mirrors[m].iface)'
                      /\ Reaches(mirrors[m].driver_id, mirrors[m].obj)'
    BY Zenon DEF MirrorReachesItsObject
  <1>1. m \in 1..Len(mirrors) /\ m \in DOMAIN mirrors
    BY DEF IInv, TypeOK
  <1>2. PICK id : id = mirrors[m].driver_id
    BY Zenon
  <1>3. PICK obj : obj = mirrors[m].obj
    BY Zenon
  <1>4. id \in KnownIds
    <2>1. mirrors[m] \in Mirrors
      BY <1>1 DEF IInv, TypeOK
    <2> QED BY <1>2, <2>1, Zenon DEF Mirrors
  <1>5. id = mirrors'[m].driver_id /\ obj = mirrors'[m].obj /\ id \in Ids
    BY <1>1, <1>2, <1>3, <1>4 DEF KnownIds, Ids, IInv, TypeOK
  <1>6. Entry(id).iface = mirrors[m].iface /\ Reaches(id, obj)
    BY <1>1, <1>2, <1>3, <1>5, Zenon DEF IInv, MirrorReachesItsObject
  <1>7. Entry(id)' = Entry(id) /\ Reaches(id, obj)'
    BY <1>5, <1>6, ReachesStays, Zenon DEF IInv, Keeps
  <1>8. (Entry(mirrors[m].driver_id).iface = mirrors[m].iface)'
    BY <1>1, <1>5, <1>6, <1>7, Zenon DEF Entry
  <1>9. Reaches(mirrors[m].driver_id, mirrors[m].obj)'
    BY <1>5, <1>7, Zenon DEF Reaches, Entry
  <1> QED BY <1>8, <1>9, Zenon

(* Results that are set and that a step leaves alone, too.                 *)
SetOk(r) ==
  /\ r.iface \in Interfaces
  /\ r.id \in -1..(Len(hal_driver_map_) - 1)
  /\ ~replaying => r.id # 0
  /\ r.id \in Ids => Entry(r.id).iface = r.iface /\ Reaches(r.id, r.obj)

LEMMA ResultStays ==
  ASSUME IInv, TypeOK', DriversInv', Keeps, NEW r, SetOk(r)
  PROVE  SetOk(r)'
  <1>1. Len(hal_driver_map_) \in Nat /\ Len(hal_driver_map_') \in Nat
    BY DEF IInv, TypeOK
  <1>2. r.iface \in Interfaces /\ r.id \in -1..(Len(hal_driver_map_') - 1) /\ (~replaying' => r.id # 0)
    BY <1>1 DEF SetOk, Keeps
  <1>3. ASSUME r.id \in Ids' PROVE Entry(r.id)'.iface = r.iface /\ Reaches(r.id, r.obj)'
    <2>1. r.id \in Ids
      BY <1>1, <1>3 DEF SetOk, Ids
    <2>2. Entry(r.id).iface = r.iface /\ Reaches(r.id, r.obj)
      BY <2>1, Zenon DEF SetOk
    <2> QED BY <2>1, <2>2, ReachesStays, Zenon DEF IInv, Keeps
  <1> QED BY <1>2, <1>3, Zenon DEF SetOk

LEMMA SetStays ==
  ASSUME IInv, TypeOK', DriversInv', Keeps, call'.set = call.set
  PROVE  SetInv'
  <1> SUFFICES ASSUME NEW k \in 1..Len(call'.set) PROVE SetOk(call.set[k])'
    BY Zenon DEF SetInv, SetOk
  <1>1. PICK r : r = call.set[k]
    BY Zenon
  <1>2. SetOk(r)
    BY <1>1, Zenon DEF IInv, SetInv, SetOk
  <1>3. SetOk(r)'
    BY <1>2, ResultStays, Zenon
  <1>4. call'.set[k] = r
    BY <1>1, Zenon
  <1> QED BY <1>3, <1>4, Zenon DEF SetOk, Reaches, Entry
-----------------------------------------------------------------------------
LEMMA InitIInv == Init => IInv
  <1> SUFFICES ASSUME Init PROVE IInv
    BY Zenon
  <1>1. TypeOK
    BY DEF Init, TypeOK, Idle, Calls, KnownIds, kInvalidDriverId, Root, Drivers, Mirrors, Results, NoObject
  <1>2. DriversInv /\ PendingInv /\ SetInv /\ PhaseInv
    BY DEF Init, DriversInv, PendingInv, SetInv, PhaseInv, Idle, Serving
  <1>3. MirrorReachesItsObject
    BY DEF Init, MirrorReachesItsObject
  <1> QED BY <1>1, <1>2, <1>3, Zenon DEF IInv

(* Steps that change neither drivers nor objects nor mirrors' ids.         *)
LEMMA CallStep ==
  ASSUME IInv, TypeOK', UNCHANGED <<hal_driver_map_, refs, object, replaying, returned>>,
         phase' = phase \/ phase' = "ended",
         Len(mirrors') = Len(mirrors),
         \A m \in 1..Len(mirrors) : /\ mirrors'[m].driver_id = mirrors[m].driver_id
                                    /\ mirrors'[m].iface = mirrors[m].iface
                                    /\ mirrors'[m].obj = mirrors[m].obj,
         call'.set = call.set \/ call'.set = <<>>,
         call'.pending = call.pending \/ call'.pending = <<>>,
         PhaseInv'
  PROVE  IInv'
  <1>1. Keeps
    BY DEF Keeps, IInv, TypeOK
  <1>2. DriversInv'
    BY Zenon DEF IInv, DriversInv, Serving
  <1>3. PendingInv'
    BY DEF IInv, PendingInv
  <1>4. SetInv'
    <2>1. CASE call'.set = call.set
      BY <1>1, <1>2, <2>1, SetStays, Zenon
    <2>2. CASE call'.set = <<>>
      BY <2>2 DEF SetInv
    <2> QED BY <2>1, <2>2, Zenon
  <1>5. MirrorReachesItsObject'
    BY <1>1, <1>2, MirrorsStay, Zenon
  <1> QED BY <1>2, <1>3, <1>4, <1>5, Zenon DEF IInv

(* The fields of the call and of the mirrors.                              *)
LEMMA CallFields ==
  ASSUME TypeOK
  PROVE  /\ call = [pc |-> call.pc, driver_id |-> call.driver_id, uid |-> call.uid,
                    pending |-> call.pending, set |-> call.set]
         /\ call.pc \in {"idle", "find", "hal", "set"} /\ call.driver_id \in KnownIds
         /\ call.uid \in Uids \cup {Root}
         /\ call.pending \in Seq(Results) /\ call.set \in Seq(Results)
  BY Zenon DEF TypeOK, Calls

LEMMA IdleCall == ASSUME TypeOK PROVE Idle \in Calls /\ Idle.set = <<>> /\ Idle.pending = <<>> /\ Idle.pc = "idle"
  BY DEF TypeOK, Idle, Calls, KnownIds, kInvalidDriverId

LEMMA MirrorFields ==
  ASSUME TypeOK, NEW m \in DOMAIN mirrors
  PROVE  /\ m \in 1..Len(mirrors) /\ mirrors[m] \in Mirrors
         /\ mirrors[m].driver_id \in KnownIds /\ mirrors[m].uid \in Uids \cup {NoUid}
         /\ CallerUid(m) \in Uids \cup {Root}
  <1>1. m \in 1..Len(mirrors) /\ mirrors[m] \in Mirrors
    BY DEF TypeOK
  <1>2. mirrors[m].driver_id \in KnownIds /\ mirrors[m].uid \in Uids \cup {NoUid}
    BY <1>1, Zenon DEF Mirrors
  <1> QED BY <1>1, <1>2, Zenon DEF CallerUid

LEMMA FoundCall ==
  ASSUME TypeOK, NEW id \in KnownIds, NEW u \in Uids \cup {Root}
  PROVE  /\ Calling(id, u) \in Calls /\ Calling(id, u).pc = "find"
         /\ Calling(id, u).set = <<>> /\ Calling(id, u).pending = <<>>
  BY DEF Calling, Calls

LEMMA SetCallerUidStep ==
  ASSUME IInv, NEW m \in DOMAIN mirrors, NEW u \in Uids, SetCallerUid(m, u)
  PROVE  IInv'
  <1>1. mirrors[m] \in Mirrors /\ m \in 1..Len(mirrors) /\ mirrors \in Seq(Mirrors)
    BY MirrorFields, Zenon DEF IInv, TypeOK
  <1>2. mirrors' = [mirrors EXCEPT ![m] = [mirrors[m] EXCEPT !.uid = u]]
    BY Zenon DEF SetCallerUid
  <1>3. [mirrors[m] EXCEPT !.uid = u] \in Mirrors
    BY <1>1, SMTT(40) DEF Mirrors
  <1>4. mirrors' \in Seq(Mirrors) /\ Len(mirrors') = Len(mirrors)
    BY <1>1, <1>2, <1>3
  <1>5. \A k \in 1..Len(mirrors) : /\ mirrors'[k].driver_id = mirrors[k].driver_id
                                  /\ mirrors'[k].iface = mirrors[k].iface
                                  /\ mirrors'[k].obj = mirrors[k].obj
    BY <1>1, <1>2 DEF Mirrors
  <1>6. TypeOK'
    BY <1>4, Zenon DEF IInv, TypeOK, SetCallerUid, Calls, Mirrors, KnownIds, fixed, heap
  <1>7. PhaseInv'
    BY Zenon DEF IInv, PhaseInv, SetCallerUid, Serving, fixed
  <1> QED BY <1>4, <1>5, <1>6, <1>7, CallStep, Zenon DEF SetCallerUid, fixed, heap

LEMMA RemoteCallStep ==
  ASSUME IInv, NEW m \in DOMAIN mirrors, RemoteCall(m)
  PROVE  IInv'
  <1>1. mirrors[m].driver_id \in KnownIds /\ CallerUid(m) \in Uids \cup {Root}
    BY MirrorFields, Zenon DEF IInv
  <1>2. call' \in Calls /\ call'.set = <<>> /\ call'.pending = <<>> /\ call'.pc = "find"
    BY <1>1, FoundCall, Zenon DEF RemoteCall, IInv
  <1>3. uid' \in Uids \cup {Root} /\ asked' \subseteq Uids
    BY <1>1, Zenon DEF RemoteCall, SetUid, IInv, TypeOK
  <1>4. TypeOK'
    BY <1>2, <1>3, Zenon DEF IInv, TypeOK, RemoteCall, Calls, Mirrors, KnownIds, fixed, heap
  <1>5. PhaseInv'
    BY <1>2, Zenon DEF PhaseInv, RemoteCall, Serving
  <1> QED BY <1>2, <1>4, <1>5, CallStep, Zenon DEF RemoteCall, fixed, heap

LEMMA ErrorStep ==
  ASSUME IInv, Error, UNCHANGED <<fixed, hal_driver_map_, heap, returned, resources, host>>
  PROVE  IInv'
  <1>1. call' \in Calls /\ call'.set = <<>> /\ call'.pending = <<>> /\ call'.pc = "idle"
    BY IdleCall, Zenon DEF Error, IInv
  <1>2. phase' = phase \/ phase' = "ended"
    BY Zenon DEF Error
  <1>3. TypeOK'
    BY <1>1, <1>2, Zenon DEF IInv, TypeOK, Calls, Mirrors, KnownIds, fixed, heap, host
  <1>4. PhaseInv'
    BY <1>1, Zenon DEF PhaseInv
  <1> QED BY <1>1, <1>2, <1>3, <1>4, CallStep, Zenon DEF fixed, heap, host

LEMMA CallFunctionStep ==
  ASSUME IInv, CallFunction \/ CallFails \/ FunctionReturns
  PROVE  IInv'
  <1> DEFINE Same == UNCHANGED <<fixed, hal_driver_map_, heap, returned, resources, host>>
  <1>1. Same
    BY Zenon DEF CallFunction, CallFails, FunctionReturns
  <1>2. \/ Error
        \/ /\ phase' = phase /\ call.pc \in {"find", "hal"}
           /\ \E pc \in {"hal", "set"} : call' = [call EXCEPT !.pc = pc]
    BY Zenon DEF CallFunction, CallFails, FunctionReturns
  <1>3. ASSUME phase' = phase, call.pc \in {"find", "hal"}, NEW pc \in {"hal", "set"},
               call' = [call EXCEPT !.pc = pc]
        PROVE  IInv'
    <2>1. /\ call'.set = call.set /\ call'.pending = call.pending /\ call'.pc = pc
          /\ call' \in Calls
      BY <1>3, Zenon DEF IInv, TypeOK, Calls
    <2>2. TypeOK'
      BY <1>1, <1>3, <2>1, SMTT(40) DEF IInv, TypeOK, Calls, Mirrors, KnownIds, fixed, heap, host
    <2>3. PhaseInv'
      BY <1>1, <1>3, <2>1, Zenon DEF IInv, PhaseInv, Serving, fixed
    <2> QED BY <1>1, <1>3, <2>1, <2>2, <2>3, CallStep, Zenon DEF fixed, heap, host
  <1> QED BY <1>1, <1>2, <1>3, ErrorStep, Zenon

(* A loaded HAL is a driver without a pointer.                             *)
LEMMA LoadKeeps ==
  ASSUME IInv, NEW iface \in Interfaces, phase # "ended", phase' = "serving",
         hal_driver_map_' = RegisterDriver(iface, Nullptr, "service"),
         UNCHANGED <<specs, libs, replaying, refs, object>>
  PROVE  /\ Keeps /\ DriversInv' /\ hal_driver_map_' \in Seq(Drivers)
         /\ RegisteredId(iface, Nullptr) \in 0..(Len(hal_driver_map_') - 1)
         /\ hal_driver_map_'[RegisteredId(iface, Nullptr) + 1].iface = iface
         /\ hal_driver_map_'[RegisteredId(iface, Nullptr) + 1].driver = "service"
  <1> DEFINE id == RegisteredId(iface, Nullptr)
  <1>0. Len(hal_driver_map_) \in Nat /\ Len(hal_driver_map_') \in Nat
    BY RegisterKeeps DEF IInv, TypeOK
  <1>1. /\ hal_driver_map_' \in Seq(Drivers) /\ Len(hal_driver_map_') > 0
        /\ Len(hal_driver_map_') >= Len(hal_driver_map_)
        /\ \A d \in 1..Len(hal_driver_map_) : hal_driver_map_'[d] = hal_driver_map_[d]
        /\ id \in 0..(Len(hal_driver_map_') - 1)
        /\ hal_driver_map_'[id + 1].iface = iface /\ hal_driver_map_'[id + 1].pt = Nullptr
        /\ \/ hal_driver_map_' = hal_driver_map_ /\ id \in Ids
           \/ /\ Len(hal_driver_map_') = Len(hal_driver_map_) + 1 /\ id = Len(hal_driver_map_)
              /\ hal_driver_map_'[id + 1].driver = "service"
    BY RegisterKeeps DEF IInv
  <1>2. Keeps
    BY <1>1, Zenon DEF Keeps
  <1>3. ASSUME NEW d \in 1..Len(hal_driver_map_')
        PROVE  /\ hal_driver_map_'[d].driver = "service" <=> hal_driver_map_'[d].pt = Nullptr
               /\ hal_driver_map_'[d].driver = "proxy" => Ref("driver", d - 1) \in refs[hal_driver_map_'[d].pt]
    <2>1. CASE d \in 1..Len(hal_driver_map_)
      BY <1>1, <2>1, Zenon DEF IInv, DriversInv
    <2>2. CASE d \notin 1..Len(hal_driver_map_)
      <3>1. d = id + 1 /\ hal_driver_map_'[d].driver = "service" /\ hal_driver_map_'[d].pt = Nullptr
        BY <1>0, <1>1, <2>2
      <3> QED BY <3>1, Zenon
    <2> QED BY <2>1, <2>2, Zenon
  <1>4. hal_driver_map_'[1].pt = Nullptr \/ replaying
    <2>1. CASE phase = "start"
      BY <1>0, <1>1, <2>1 DEF IInv, DriversInv
    <2>2. CASE phase = "serving"
      BY <1>0, <1>1, <2>2 DEF IInv, DriversInv, Serving
    <2> QED BY <2>1, <2>2, Zenon DEF IInv, TypeOK
  <1>5. DriversInv'
    BY <1>1, <1>3, <1>4, Zenon DEF DriversInv, Serving
  <1>6. id + 1 \in 1..Len(hal_driver_map_') /\ hal_driver_map_'[id + 1].driver = "service"
    BY <1>0, <1>1, <1>3
  <1> QED BY <1>1, <1>2, <1>5, <1>6, Zenon

LEMMA LoadHalStep ==
  ASSUME IInv, LoadHal
  PROVE  IInv'
  <1> DEFINE id == RegisteredId(Loaded, Nullptr)
             mirror == [driver_id |-> id, iface |-> Loaded, uid |-> NoUid, obj |-> Service]
  <1>1. CASE phase' = "ended" /\ UNCHANGED <<hal_driver_map_, mirrors>>
    <2>1. TypeOK'
      BY <1>1, Zenon DEF IInv, TypeOK, LoadHal, Calls, Mirrors, KnownIds, fixed, heap
    <2>2. call.pc = "idle"
      BY Zenon DEF IInv, PhaseInv, LoadHal, Serving
    <2>3. PhaseInv'
      BY <2>2, Zenon DEF IInv, PhaseInv, LoadHal
    <2> QED BY <1>1, <2>1, <2>3, CallStep, Zenon DEF LoadHal, fixed, heap
  <1>2. CASE /\ phase' = "serving" /\ hal_driver_map_' = RegisterDriver(Loaded, Nullptr, "service")
             /\ mirrors' = <<mirror>>
    <2>1. /\ Keeps /\ DriversInv' /\ hal_driver_map_' \in Seq(Drivers)
          /\ id \in 0..(Len(hal_driver_map_') - 1)
          /\ hal_driver_map_'[id + 1].iface = Loaded /\ hal_driver_map_'[id + 1].driver = "service"
      BY <1>2, LoadKeeps, ConstantsAssumption, Zenon DEF LoadHal, fixed, heap
    <2>2. mirror \in Mirrors'
      BY <2>1, ConstantsAssumption, SMTT(40) DEF Mirrors, KnownIds, Service, IInv, TypeOK
    <2>3. call' \in Calls'
      BY <2>1, IdsGrow, Zenon DEF LoadHal, IInv, TypeOK
    <2>4. TypeOK'
      BY <1>2, <2>1, <2>2, <2>3, SMTT(40) DEF IInv, TypeOK, LoadHal, fixed, heap
    <2>5. PendingInv' /\ PhaseInv'
      BY <1>2, Zenon DEF IInv, PendingInv, PhaseInv, LoadHal, Serving, fixed, heap
    <2>6. SetInv'
      BY <2>1, <2>4, SetStays, Zenon DEF LoadHal
    <2>7. MirrorReachesItsObject'
      <3>1. \A m \in DOMAIN mirrors' : mirrors'[m] = mirror
        BY <1>2
      <3>2. PICK i : i = id
        BY Zenon
      <3>3. Entry(i)'.iface = Loaded /\ Reaches(i, Service)'
        BY <2>1, <3>2, Zenon DEF Entry, Reaches
      <3>4. \A m \in DOMAIN mirrors' : /\ mirrors'[m].driver_id = i /\ mirrors'[m].iface = Loaded
                                       /\ mirrors'[m].obj = Service
        BY <3>1, <3>2
      <3> QED BY <3>3, <3>4, Zenon DEF MirrorReachesItsObject, Entry, Reaches
    <2> QED BY <2>1, <2>4, <2>5, <2>6, <2>7, Zenon DEF IInv
  <1> QED BY <1>1, <1>2, Zenon DEF LoadHal

LEMMA ReplayStep ==
  ASSUME IInv, NEW iface \in Interfaces, Replay(iface)
  PROVE  IInv'
  <1> DEFINE found == FindDriverIdInternal("hidl", iface, AnyPointer)
             new == RegisteredId(iface, Nullptr)
  <1>1. CASE found # kInvalidDriverId /\ phase' = "serving" /\ call' = Calling(found, Root) /\ UNCHANGED hal_driver_map_
    <2>1. found \in KnownIds
      BY <1>1, FindFinds DEF IInv, KnownIds, Ids, kInvalidDriverId
    <2>2. call' \in Calls /\ call'.set = <<>> /\ call'.pending = <<>> /\ call'.pc = "find"
      BY <1>1, <2>1, FoundCall, Zenon DEF IInv
    <2>3. TypeOK'
      BY <1>1, <2>2, Zenon DEF IInv, TypeOK, Replay, Calls, Mirrors, KnownIds, fixed, heap, host
    <2>4. PhaseInv'
      BY <1>1, <2>2, Zenon DEF PhaseInv, Serving
    <2>5. phase = "serving"
      <3>1. found \in Ids
        BY <1>1, FindFinds, Zenon DEF IInv, kInvalidDriverId
      <3>2. hal_driver_map_ # <<>>
        BY <3>1 DEF Ids
      <3> QED BY <3>2, Zenon DEF IInv, DriversInv, TypeOK, Replay
    <2> QED BY <1>1, <2>2, <2>3, <2>4, <2>5, CallStep, Zenon DEF Replay, fixed, heap, host
  <1>2. CASE phase' = "ended" /\ UNCHANGED <<call, hal_driver_map_>>
    <2>1. TypeOK'
      BY <1>2, ZenonT(40) DEF IInv, TypeOK, Replay, Calls, Mirrors, KnownIds, fixed, heap, host
    <2>2. PhaseInv'
      BY <1>2, Zenon DEF IInv, PhaseInv, Replay
    <2> QED BY <1>2, <2>1, <2>2, CallStep, ZenonT(40) DEF Replay, fixed, heap, host
  <1>3. CASE /\ phase' = "serving" /\ call' = Calling(new, Root)
             /\ hal_driver_map_' = RegisterDriver(iface, Nullptr, "service")
    <2>1. /\ Keeps /\ DriversInv' /\ hal_driver_map_' \in Seq(Drivers)
          /\ new \in 0..(Len(hal_driver_map_') - 1)
      BY <1>3, LoadKeeps, Zenon DEF Replay, fixed, heap
    <2>2. new \in KnownIds'
      BY <2>1 DEF KnownIds, IInv, TypeOK
    <2>3. call' \in Calls' /\ call'.set = <<>> /\ call'.pending = <<>> /\ call'.pc = "find"
      BY <1>3, <2>2 DEF Calling, Calls
    <2>4. mirrors' \in Seq(Mirrors')
      BY <2>1, IdsGrow, SeqGrows, Zenon DEF IInv, TypeOK, Replay, host
    <2>5. TypeOK'
      BY <1>3, <2>1, <2>3, <2>4, Zenon DEF IInv, TypeOK, Replay, fixed, heap, host
    <2>6. PhaseInv'
      BY <1>3, <2>3, Zenon DEF PhaseInv, Serving
    <2>7. PendingInv'
      BY <2>3, SMTT(40) DEF PendingInv
    <2>8. SetInv'
      BY <2>3 DEF SetInv
    <2>9. MirrorReachesItsObject'
      BY <2>1, <2>5, MirrorsStay, Zenon DEF Replay, host
    <2> QED BY <2>1, <2>5, <2>6, <2>7, <2>8, <2>9, Zenon DEF IInv
  <1> QED BY <1>1, <1>2, <1>3, Zenon DEF Replay
-----------------------------------------------------------------------------
(* A step of the HAL's function: a result is added, references are added   *)
(* to objects that exist or an object is made where none is.               *)
LEMMA AddResultStep ==
  ASSUME IInv, NEW r \in Results, AddResult(r), r.n = returned,
         r.type = "interface" => r.iface \in Interfaces,
         refs' \in [Addrs -> SUBSET References], object' \in [Addrs -> Int], born' \in Nat,
         \A a \in Addrs : refs[a] \subseteq refs'[a],
         \A a \in Addrs : Alive(a) => object'[a] = object[a],
         r.pt # Nullptr => Ref("result", returned) \in refs'[r.pt] /\ object'[r.pt] = r.obj
  PROVE  IInv'
  <1>0. /\ call.pending \in Seq(Results) /\ call.pc = "hal" /\ call.set = <<>>
        /\ Len(call.pending) \in Nat /\ returned \in Nat
    BY CallFields DEF IInv, TypeOK, AddResult, PhaseInv
  <1>1. call'.pending = Append(call.pending, r) /\ call'.pc = call.pc /\ call'.set = call.set /\ call' \in Calls
    <2>1. PICK q \in Seq(Results) : q = Append(call.pending, r)
      <3>1. Append(call.pending, r) \in Seq(Results)
        BY <1>0, AppendType, Zenon
      <3> QED BY <3>1, Zenon
    <2>2. call' = [call EXCEPT !.pending = q] /\ call \in Calls
      BY <2>1, Zenon DEF AddResult, IInv, TypeOK
    <2> QED BY <2>1, <2>2, Zenon DEF Calls
  <1>a. returned' = returned + 1 /\ returned' \in Nat
    BY <1>0 DEF AddResult
  <1>2. TypeOK'
    BY <1>0, <1>1, <1>a, Zenon DEF IInv, TypeOK, AddResult, Calls, Mirrors, KnownIds, fixed, host
  <1>3. Keeps
    BY DEF Keeps, AddResult, fixed, IInv, TypeOK
  <1>4. DriversInv'
    <2>1. ASSUME NEW d \in 1..Len(hal_driver_map_), hal_driver_map_[d].driver = "proxy"
          PROVE  Ref("driver", d - 1) \in refs'[hal_driver_map_[d].pt]
      <3>1. hal_driver_map_[d].pt # Nullptr
        BY <2>1, Zenon DEF IInv, DriversInv
      <3>2. hal_driver_map_[d].pt \in Addrs
        BY <3>1, DriverFields, Zenon DEF IInv
      <3> QED BY <2>1, <3>2, Zenon DEF IInv, DriversInv
    <2> QED BY <2>1, Zenon DEF IInv, DriversInv, AddResult, Serving, fixed
  <1>5. PendingInv'
    <2>1. Len(call'.pending) = Len(call.pending) + 1 /\ call'.pending[Len(call.pending) + 1] = r
      BY <1>0, <1>1, SMTT(40)
    <2>2. \A k \in 1..Len(call.pending) : call'.pending[k] = call.pending[k] /\ call.pending[k] \in Results
      BY <1>0, <1>1
    <2>3. returned' = returned + 1
      BY Zenon DEF AddResult
    <2>4. ASSUME NEW k \in 1..Len(call.pending)
          PROVE  /\ call.pending[k].n < returned /\ call.pending[k].n \in Nat
                 /\ call.pending[k].type = "interface" => call.pending[k].iface \in Interfaces
                 /\ call.pending[k].pt # Nullptr =>
                      /\ Ref("result", call.pending[k].n) \in refs'[call.pending[k].pt]
                      /\ object'[call.pending[k].pt] = call.pending[k].obj
                 /\ \A l \in 1..Len(call.pending) : call.pending[k].n = call.pending[l].n => k = l
      <3>1. call.pending[k].n \in Nat /\ call.pending[k].pt \in Addrs \cup {Nullptr}
        BY <2>2, Zenon DEF Results
      <3>2. call.pending[k].pt # Nullptr =>
              /\ Ref("result", call.pending[k].n) \in refs[call.pending[k].pt]
              /\ object[call.pending[k].pt] = call.pending[k].obj
        BY Zenon DEF IInv, PendingInv
      <3>3. /\ call.pending[k].n < returned
            /\ call.pending[k].type = "interface" => call.pending[k].iface \in Interfaces
            /\ \A l \in 1..Len(call.pending) : call.pending[k].n = call.pending[l].n => k = l
        BY Zenon DEF IInv, PendingInv
      <3> QED BY <3>1, <3>2, <3>3, Zenon DEF Alive
    <2> SUFFICES ASSUME NEW k \in 1..Len(call'.pending)
                 PROVE  /\ call'.pending[k].pt # Nullptr =>
                            /\ Ref("result", call'.pending[k].n) \in refs'[call'.pending[k].pt]
                            /\ object'[call'.pending[k].pt] = call'.pending[k].obj
                        /\ call'.pending[k].type = "interface" => call'.pending[k].iface \in Interfaces
                        /\ call'.pending[k].n < returned'
                        /\ \A l \in 1..Len(call'.pending) : call'.pending[k].n = call'.pending[l].n => k = l
      BY Zenon DEF PendingInv, Ref
    <2>a. \A l \in 1..Len(call'.pending) : \/ l \in 1..Len(call.pending)
                                          \/ l = Len(call.pending) + 1
      BY <1>0, <2>1
    <2>5. CASE k \in 1..Len(call.pending)
      <3>1. PICK p : p = call.pending[k]
        BY Zenon
      <3>2. call'.pending[k] = p
        BY <2>2, <2>5, <3>1, Zenon
      <3>3. /\ p.n < returned /\ p.n \in Nat /\ (p.type = "interface" => p.iface \in Interfaces)
            /\ p.pt # Nullptr => Ref("result", p.n) \in refs'[p.pt] /\ object'[p.pt] = p.obj
            /\ \A l \in 1..Len(call.pending) : p.n = call.pending[l].n => k = l
        BY <2>4, <2>5, <3>1, Zenon
      <3>4. ASSUME NEW l \in 1..Len(call'.pending), p.n = call'.pending[l].n PROVE k = l
        <4>1. CASE l \in 1..Len(call.pending)
          BY <2>2, <3>3, <3>4, <4>1, SMTT(40)
        <4>2. CASE l = Len(call.pending) + 1
          BY <1>0, <2>1, <3>3, <3>4, <4>2
        <4> QED BY <2>a, <4>1, <4>2, Zenon
      <3>5. p.n < returned'
        BY <1>0, <2>3, <3>3, SMTT(40)
      <3> QED BY <3>2, <3>3, <3>4, <3>5, Zenon
    <2>6. CASE k = Len(call.pending) + 1
      <3>1. call'.pending[k] = r
        BY <2>1, <2>6, Zenon
      <3>2. ASSUME NEW l \in 1..Len(call'.pending), r.n = call'.pending[l].n PROVE k = l
        <4>1. CASE l \in 1..Len(call.pending)
          BY <1>0, <2>2, <2>4, <3>2, <4>1, SMTT(40)
        <4> QED BY <2>6, <2>a, <4>1, Zenon
      <3>3. r.n < returned'
        BY <1>0, <2>3
      <3> QED BY <3>1, <3>2, <3>3, Zenon
    <2> QED BY <2>a, <2>5, <2>6, Zenon
  <1>6. SetInv'
    BY <1>1, <1>2, <1>3, <1>4, SetStays, Zenon
  <1>7. PhaseInv'
    BY <1>0, <1>1, Zenon DEF IInv, PhaseInv, Serving, AddResult, fixed
  <1>8. MirrorReachesItsObject'
    BY <1>2, <1>3, <1>4, MirrorsStay, Zenon DEF AddResult, host
  <1> QED BY <1>2, <1>4, <1>5, <1>6, <1>7, <1>8, Zenon DEF IInv

LEMMA ReturnStep ==
  ASSUME IInv, NEW i \in Interfaces, NEW a \in Addrs, ReturnNewObject(i, a) \/ ReturnObject(i, a)
  PROVE  IInv'
  <1>0. /\ returned \in Nat /\ born \in Nat /\ refs \in [Addrs -> SUBSET References] /\ object \in [Addrs -> Int]
        /\ Ref("result", returned) \in References /\ Ref("hal", 0) \in References
    BY Zenon DEF IInv, TypeOK, Ref, References
  <1>1. CASE ReturnNewObject(i, a)
    <2> DEFINE r == Result("interface", i, a, born + 1)
    <2>1. r \in Results /\ r.n = returned /\ r.type = "interface" /\ r.iface = i /\ r.pt = a /\ r.obj = born + 1
      BY <1>0 DEF Result, Results, kInvalidDriverId
    <2>2. PICK keeps \in {{}, {Ref("hal", 0)}} : refs' = [refs EXCEPT ![a] = IncStrong(keeps)]
      BY <1>1, ZenonT(40) DEF ReturnNewObject
    <2>3. IncStrong(keeps) \subseteq References /\ Ref("result", returned) \in IncStrong(keeps)
      BY <1>0, <2>2, Zenon DEF IncStrong
    <2>4. refs[a] = {} /\ object' = [object EXCEPT ![a] = born + 1] /\ born' = born + 1 /\ AddResult(r)
      BY <1>1, Zenon DEF ReturnNewObject, Alive
    <2>5. refs' \in [Addrs -> SUBSET References] /\ \A b \in Addrs : refs[b] \subseteq refs'[b]
      BY <1>0, <2>2, <2>3, <2>4, Zenon
    <2>6. object' \in [Addrs -> Int] /\ \A b \in Addrs : Alive(b) => object'[b] = object[b]
      BY <1>0, <2>4 DEF Alive
    <2>7. Ref("result", returned) \in refs'[a] /\ object'[a] = born + 1
      BY <1>0, <2>2, <2>3, <2>4, Zenon
    <2> HIDE DEF r
    <2> QED BY <1>0, <2>1, <2>4, <2>5, <2>6, <2>7, AddResultStep
  <1>2. CASE ReturnObject(i, a)
    <2> DEFINE r == Result("interface", i, a, object[a])
    <2>1. r \in Results /\ r.n = returned /\ r.type = "interface" /\ r.iface = i /\ r.pt = a /\ r.obj = object[a]
      BY <1>0 DEF Result, Results, kInvalidDriverId
    <2>2. refs' = [refs EXCEPT ![a] = refs[a] \cup {Ref("result", returned)}] /\ AddResult(r)
      BY <1>2, Zenon DEF ReturnObject, IncStrong
    <2>3. object' = object /\ born' = born
      BY <1>2, Zenon DEF ReturnObject
    <2>4. refs' \in [Addrs -> SUBSET References] /\ \A b \in Addrs : refs[b] \subseteq refs'[b]
      BY <1>0, <2>2, Zenon
    <2>5. Ref("result", returned) \in refs'[a]
      BY <1>0, <2>2, Zenon
    <2> HIDE DEF r
    <2> QED BY <1>0, <2>1, <2>2, <2>3, <2>4, <2>5, AddResultStep, Zenon
  <1> QED BY <1>1, <1>2, Zenon

LEMMA ReturnOtherStep ==
  ASSUME IInv, NEW i \in Interfaces, NEW t \in ResourceTypes, ReturnNullptr(i) \/ ReturnResource(t)
  PROVE  IInv'
  <1>0. returned \in Nat /\ born \in Nat /\ refs \in [Addrs -> SUBSET References] /\ object \in [Addrs -> Int]
    BY Zenon DEF IInv, TypeOK
  <1>1. CASE ReturnNullptr(i)
    <2> DEFINE r == Result("interface", i, Nullptr, NoObject)
    <2>1. r \in Results /\ r.n = returned /\ r.iface = i /\ r.pt = Nullptr
      BY <1>0 DEF Result, Results, kInvalidDriverId, NoObject
    <2>2. AddResult(r) /\ UNCHANGED heap
      BY <1>1, Zenon DEF ReturnNullptr
    <2> HIDE DEF r
    <2> QED BY <1>0, <2>1, <2>2, AddResultStep, Zenon DEF heap
  <1>2. CASE ReturnResource(t)
    <2> DEFINE r == Result(t, NoInterface, Nullptr, NoObject)
    <2>1. r \in Results /\ r.n = returned /\ r.type # "interface" /\ r.pt = Nullptr
      BY <1>0 DEF Result, Results, kInvalidDriverId, NoObject, ResourceTypes
    <2>2. AddResult(r) /\ UNCHANGED heap
      BY <1>2, Zenon DEF ReturnResource
    <2> HIDE DEF r
    <2> QED BY <1>0, <2>1, <2>2, AddResultStep, Zenon DEF heap
  <1> QED BY <1>1, <1>2, Zenon
-----------------------------------------------------------------------------
LEMMA TailType ==
  ASSUME NEW S, NEW s \in Seq(S), s # <<>>
  PROVE  /\ Tail(s) \in Seq(S) /\ Head(s) = s[1] /\ s[1] \in S /\ Len(s) \in Nat /\ Len(s) > 0
         /\ Len(Tail(s)) = Len(s) - 1
         /\ \A k \in 1..Len(Tail(s)) : Tail(s)[k] = s[k + 1] /\ k + 1 \in 1..Len(s)
  OBVIOUS

(* The result that is set next.                                            *)
LEMMA NextResultFields ==
  ASSUME IInv, call.pending # <<>>
  PROVE  /\ NextResult = call.pending[1] /\ NextResult \in Results /\ 1 \in 1..Len(call.pending)
         /\ NextResult.n \in Nat /\ NextResult.pt \in Addrs \cup {Nullptr} /\ NextResult.obj \in Int
         /\ NextResult.type = "interface" => NextResult.iface \in Interfaces
         /\ NextResult.pt # Nullptr =>
              /\ Ref("result", NextResult.n) \in refs[NextResult.pt]
              /\ object[NextResult.pt] = NextResult.obj
  <1>1. call.pending \in Seq(Results)
    BY CallFields, Zenon DEF IInv
  <1>2. NextResult = call.pending[1] /\ NextResult \in Results /\ 1 \in 1..Len(call.pending)
    BY <1>1, TailType DEF NextResult
  <1>3. NextResult.n \in Nat /\ NextResult.pt \in Addrs \cup {Nullptr} /\ NextResult.obj \in Int
    BY <1>2, Zenon DEF Results
  <1> QED BY <1>2, <1>3, Zenon DEF IInv, PendingInv

(* The results after it, when at most its reference is given back.         *)
LEMMA PendingShrinks ==
  ASSUME IInv, call.pending # <<>>, call'.pending = Tail(call.pending),
         object' = object, returned' = returned,
         \A a \in Addrs, x \in References : x \in refs[a] /\ x # Ref("result", NextResult.n) => x \in refs'[a]
  PROVE  PendingInv'
  <1>1. call.pending \in Seq(Results)
    BY CallFields, Zenon DEF IInv
  <1>2. /\ Len(call.pending) \in Nat /\ Len(call'.pending) = Len(call.pending) - 1
        /\ \A k \in 1..Len(call'.pending) : call'.pending[k] = call.pending[k + 1] /\ k + 1 \in 1..Len(call.pending)
    BY <1>1, TailType
  <1> SUFFICES ASSUME NEW k \in 1..Len(call'.pending)
               PROVE  /\ call'.pending[k].pt # Nullptr =>
                          /\ Ref("result", call'.pending[k].n) \in refs'[call'.pending[k].pt]
                          /\ object'[call'.pending[k].pt] = call'.pending[k].obj
                      /\ call'.pending[k].type = "interface" => call'.pending[k].iface \in Interfaces
                      /\ call'.pending[k].n < returned'
                      /\ \A l \in 1..Len(call'.pending) : call'.pending[k].n = call'.pending[l].n => k = l
    BY Zenon DEF PendingInv, Ref
  <1>3. PICK p : p = call.pending[k + 1]
    BY Zenon
  <1>4. p \in Results /\ call'.pending[k] = p /\ k + 1 \in 1..Len(call.pending)
    BY <1>1, <1>2, <1>3
  <1>5. p.n \in Nat /\ p.pt \in Addrs \cup {Nullptr}
    BY <1>4, Zenon DEF Results
  <1>6. /\ p.n < returned /\ (p.type = "interface" => p.iface \in Interfaces)
        /\ p.pt # Nullptr => Ref("result", p.n) \in refs[p.pt] /\ object[p.pt] = p.obj
        /\ \A l \in 1..Len(call.pending) : p.n = call.pending[l].n => k + 1 = l
    BY <1>3, <1>4, Zenon DEF IInv, PendingInv
  <1>7. p.n # NextResult.n
    BY <1>2, <1>6, NextResultFields
  <1>8. p.pt # Nullptr => Ref("result", p.n) \in refs'[p.pt]
    <2>1. Ref("result", p.n) \in References /\ Ref("result", p.n) # Ref("result", NextResult.n)
      BY <1>5, <1>7, Zenon DEF Ref, References
    <2> QED BY <1>5, <1>6, <2>1, Zenon
  <1>9. ASSUME NEW l \in 1..Len(call'.pending), p.n = call'.pending[l].n PROVE k = l
    <2>1. k + 1 = l + 1
      BY <1>2, <1>6, <1>9, Zenon
    <2> QED BY <1>2, <2>1
  <1> QED BY <1>4, <1>6, <1>8, <1>9, Zenon

LEMMA SetGrows ==
  ASSUME IInv, TypeOK', DriversInv', Keeps, NEW r \in Results, SetOk(r)', call'.set = Append(call.set, r)
  PROVE  SetInv'
  <1> SUFFICES ASSUME NEW k \in 1..Len(call'.set) PROVE SetOk(call.set[k])'
    BY Zenon DEF SetInv, SetOk
  <1>1. call.set \in Seq(Results) /\ Len(call.set) \in Nat
    BY CallFields DEF IInv
  <1>2. CASE k \in 1..Len(call.set)
    <2>1. PICK q : q = call.set[k]
      BY Zenon
    <2>2. SetOk(q)
      BY <1>2, <2>1, Zenon DEF IInv, SetInv, SetOk
    <2>3. SetOk(q)' /\ call'.set[k] = q
      BY <1>1, <1>2, <2>1, <2>2, ResultStays
    <2> QED BY <2>3, Zenon DEF SetOk, Reaches, Entry
  <1>3. CASE k = Len(call.set) + 1
    <2>1. call'.set[k] = r
      BY <1>1, <1>3
    <2> QED BY <2>1, Zenon DEF SetOk, Reaches, Entry
  <1> QED BY <1>1, <1>2, <1>3

LEMMA ResultIsSetFields ==
  ASSUME IInv, call.pending # <<>>, NEW id \in Int, ResultIsSet(id)
  PROVE  LET r == [NextResult EXCEPT !.id = id]
         IN  /\ r \in Results /\ r.id = id /\ r.iface = NextResult.iface /\ r.obj = NextResult.obj
             /\ call'.pending = Tail(call.pending) /\ call'.set = Append(call.set, r)
             /\ call'.pc = call.pc /\ call' \in Calls
  <1>1. PICK r : r = [NextResult EXCEPT !.id = id]
    BY Zenon
  <1>2. r \in Results /\ r.id = id /\ r.iface = NextResult.iface /\ r.obj = NextResult.obj
    BY <1>1, NextResultFields, Zenon DEF Results
  <1>3. call \in Calls /\ Tail(call.pending) \in Seq(Results) /\ Append(call.set, r) \in Seq(Results)
    BY <1>2, CallFields, TailType, AppendType, Zenon DEF IInv, TypeOK
  <1>4. PICK p \in Seq(Results), q \in Seq(Results) : p = Tail(call.pending) /\ q = Append(call.set, r)
    BY <1>3, Zenon
  <1>5. call' = [call EXCEPT !.pending = p, !.set = q]
    BY <1>1, <1>4, Zenon DEF ResultIsSet
  <1>6. call'.pending = p /\ call'.set = q /\ call'.pc = call.pc /\ call' \in Calls
    BY <1>3, <1>4, <1>5, Zenon DEF Calls
  <1> QED BY <1>1, <1>2, <1>4, <1>6, Zenon

(* A driver for an interface: it takes over the result's reference.        *)
LEMMA CreateDriverRefs ==
  ASSUME IInv, NEW r \in Results, r.pt \in Addrs,
         refs' = [refs EXCEPT ![r.pt] = CreateDriver(@, r)]
  PROVE  /\ refs' \in [Addrs -> SUBSET References]
         /\ \A a \in Addrs, x \in References : x \in refs[a] /\ x # Ref("result", r.n) => x \in refs'[a]
         /\ r.iface \in libs /\ IsNew(r.iface, r.pt) => Ref("driver", Len(hal_driver_map_)) \in refs'[r.pt]
  <1>1. /\ refs \in [Addrs -> SUBSET References] /\ Len(hal_driver_map_) \in Nat
        /\ Ref("driver", Len(hal_driver_map_)) \in References
    BY DEF IInv, TypeOK, Ref, References
  <1>2. PICK c : c = CreateDriver(refs[r.pt], r)
    BY Zenon
  <1>3. /\ c \subseteq References /\ \A x \in refs[r.pt] : x # Ref("result", r.n) => x \in c
        /\ r.iface \in libs /\ IsNew(r.iface, r.pt) => Ref("driver", Len(hal_driver_map_)) \in c
    BY <1>1, <1>2, Zenon DEF CreateDriver, DriverReference
  <1>4. refs' = [refs EXCEPT ![r.pt] = c]
    BY <1>2, Zenon
  <1> QED BY <1>1, <1>3, <1>4, Zenon

LEMMA SetInterfaceStep ==
  ASSUME IInv, call.pc = "set", call.pending # <<>>, SetInterface,
         UNCHANGED <<fixed, object, born, returned, host>>
  PROVE  IInv'
  <1>1. PICK r : r = NextResult
    BY Zenon
  <1>2. /\ r \in Results /\ r.iface \in Interfaces /\ r.pt \in Addrs /\ r.pt # Nullptr /\ r.n \in Nat
        /\ object[r.pt] = r.obj
    BY <1>1, NextResultFields, Zenon DEF SetInterface
  <1>3. PICK driver \in {"proxy", "null"} :
          /\ hal_driver_map_' = RegisterDriver(r.iface, r.pt, driver)
          /\ driver = "proxy" => r.iface \in libs
    BY <1>1, ZenonT(40) DEF SetInterface
  <1>4. PICK id : id = RegisteredId(r.iface, r.pt)
    BY Zenon
  <1>5. /\ hal_driver_map_' \in Seq(Drivers)
        /\ Len(hal_driver_map_') >= Len(hal_driver_map_)
        /\ \A d \in 1..Len(hal_driver_map_) : hal_driver_map_'[d] = hal_driver_map_[d]
        /\ id \in 0..(Len(hal_driver_map_') - 1)
        /\ hal_driver_map_'[id + 1].iface = r.iface /\ hal_driver_map_'[id + 1].pt = r.pt
        /\ \/ hal_driver_map_' = hal_driver_map_
           \/ /\ Len(hal_driver_map_') = Len(hal_driver_map_) + 1 /\ id = Len(hal_driver_map_)
              /\ hal_driver_map_'[id + 1].driver = driver /\ IsNew(r.iface, r.pt)
    BY <1>2, <1>3, <1>4, RegisterKeeps, SMTT(40) DEF IInv
  <1>6. Len(hal_driver_map_) \in Nat /\ Len(hal_driver_map_') \in Nat
    BY <1>5, SMTT(40) DEF IInv, TypeOK
  <1>7. /\ refs' \in [Addrs -> SUBSET References]
        /\ \A a \in Addrs, x \in References : x \in refs[a] /\ x # Ref("result", r.n) => x \in refs'[a]
        /\ r.iface \in libs /\ IsNew(r.iface, r.pt) => Ref("driver", Len(hal_driver_map_)) \in refs'[r.pt]
    BY <1>1, <1>2, CreateDriverRefs, ZenonT(40) DEF SetInterface
  <1>8. Keeps
    BY <1>5, Zenon DEF Keeps, fixed
  <1>9. PICK s : s = [r EXCEPT !.id = id]
    BY ZenonT(40)
  <1>10. /\ s \in Results /\ s.id = id /\ s.iface = r.iface /\ s.obj = r.obj
         /\ call'.pending = Tail(call.pending) /\ call'.set = Append(call.set, s)
         /\ call'.pc = call.pc /\ call' \in Calls
    <2>1. ResultIsSet(id) /\ id \in Int
      BY <1>1, <1>4, <1>5, SMTT(40) DEF SetInterface
    <2> QED BY <1>1, <1>9, <2>1, ResultIsSetFields, Zenon
  <1>11. TypeOK'
    <2>1. call' \in Calls' /\ mirrors' \in Seq(Mirrors')
      BY <1>5, <1>8, <1>10, IdsGrow, SeqGrows, Zenon DEF IInv, TypeOK, host
    <2> QED BY <1>5, <1>7, <2>1, Zenon DEF IInv, TypeOK, SetInterface, fixed, host
  <1>12. DriversInv'
    <2>1. ASSUME NEW d \in 1..Len(hal_driver_map_')
          PROVE  /\ hal_driver_map_'[d].driver = "service" <=> hal_driver_map_'[d].pt = Nullptr
                 /\ hal_driver_map_'[d].driver = "proxy" => Ref("driver", d - 1) \in refs'[hal_driver_map_'[d].pt]
      <3>1. CASE d \in 1..Len(hal_driver_map_)
        <4>1. Ref("driver", d - 1) \in References /\ Ref("driver", d - 1) # Ref("result", r.n)
          BY <1>6, <3>1 DEF Ref, References
        <4>2. /\ hal_driver_map_[d].driver = "service" <=> hal_driver_map_[d].pt = Nullptr
              /\ hal_driver_map_[d].driver = "proxy" => Ref("driver", d - 1) \in refs[hal_driver_map_[d].pt]
              /\ hal_driver_map_[d].pt \in Addrs \cup {Nullptr}
          BY <3>1, DriverFields, Zenon DEF IInv, DriversInv
        <4> QED BY <1>5, <1>7, <3>1, <4>1, <4>2, Zenon
      <3>2. CASE d \notin 1..Len(hal_driver_map_)
        <4>1. /\ d = id + 1 /\ d - 1 = Len(hal_driver_map_) /\ hal_driver_map_'[d].driver = driver
              /\ hal_driver_map_'[d].pt = r.pt /\ IsNew(r.iface, r.pt)
          BY <1>5, <1>6, <3>2, SMTT(40)
        <4> QED BY <1>2, <1>3, <1>7, <4>1, Zenon
      <3> QED BY <3>1, <3>2, Zenon
    <2>2. phase' = "serving" /\ replaying' = replaying /\ phase = "serving"
      BY Zenon DEF IInv, PhaseInv, Serving, SetInterface, fixed
    <2>3. ~replaying => Len(hal_driver_map_') > 0 /\ hal_driver_map_'[1].pt = Nullptr
      BY <1>5, <1>6, <2>2 DEF IInv, DriversInv, Serving
    <2> QED BY <2>1, <2>2, <2>3, Zenon DEF DriversInv, Serving
  <1>13. PendingInv'
    BY <1>1, <1>7, <1>10, PendingShrinks, Zenon
  <1>14. SetOk(s)'
    <2>1. ~replaying => id # 0
      BY <1>2, <1>5, <1>6, SMTT(40) DEF IInv, DriversInv, PhaseInv, Serving
    <2>2. Entry(id)'.iface = r.iface /\ Entry(id)'.pt = r.pt /\ id + 1 \in 1..Len(hal_driver_map_')
      BY <1>5, <1>6 DEF Entry
    <2>3. Reaches(id, r.obj)'
      <3>1. /\ Entry(id)'.driver = "service" <=> r.pt = Nullptr
            /\ Entry(id)'.driver = "proxy" => Ref("driver", (id + 1) - 1) \in refs'[r.pt]
        BY <1>12, <2>2, Zenon DEF DriversInv, Entry, Ref
      <3>2. Entry(id)'.driver = "proxy" => Alive(r.pt)'
        BY <3>1, Zenon DEF Alive
      <3> QED BY <1>2, <2>2, <3>1, <3>2, Zenon DEF Reaches
    <2> QED BY <1>2, <1>5, <1>6, <1>10, <2>1, <2>2, <2>3, SMTT(40) DEF SetOk, fixed
  <1>15. SetInv'
    BY <1>8, <1>10, <1>11, <1>12, <1>14, SetGrows, Zenon
  <1>16. PhaseInv'
    BY <1>10, Zenon DEF IInv, PhaseInv, Serving, SetInterface, fixed
  <1>17. MirrorReachesItsObject'
    BY <1>8, <1>11, <1>12, MirrorsStay, Zenon DEF host
  <1> QED BY <1>11, <1>12, <1>13, <1>15, <1>16, <1>17, Zenon DEF IInv
(* The other results: drivers and references stay as they are.             *)
LEMMA SetOtherStep ==
  ASSUME IInv, call.pc = "set", call.pending # <<>>, SetNullptr \/ SetResource,
         UNCHANGED <<fixed, object, born, returned, host>>
  PROVE  IInv'
  <1>1. UNCHANGED <<phase, hal_driver_map_, refs>>
    BY Zenon DEF SetNullptr, SetResource
  <1>2. Keeps
    BY <1>1 DEF Keeps, IInv, TypeOK, fixed
  <1>3. resources' \in [ResourceTypes -> Nat]
    BY SMTT(40) DEF SetNullptr, SetResource, IInv, TypeOK
  <1>4. DriversInv'
    BY <1>1, Zenon DEF IInv, DriversInv, Serving, fixed
  <1>5. /\ call' \in Calls /\ call'.pc = call.pc /\ call'.pending = Tail(call.pending)
        /\ \/ call'.set = call.set
           \/ \E r \in Results : r.id = -1 /\ r.iface \in Interfaces /\ call'.set = Append(call.set, r)
    <2>1. CASE SetNullptr
      <3>1. ResultIsSet(-1) /\ NextResult.iface \in Interfaces
        BY <2>1, NextResultFields, Zenon DEF SetNullptr, kInvalidDriverId
      <3>2. PICK r : r = [NextResult EXCEPT !.id = -1]
        BY Zenon
      <3>3. /\ r \in Results /\ r.id = -1 /\ r.iface = NextResult.iface /\ call'.set = Append(call.set, r)
            /\ call' \in Calls /\ call'.pc = call.pc /\ call'.pending = Tail(call.pending)
        BY <3>1, <3>2, ResultIsSetFields
      <3> QED BY <3>1, <3>3, Zenon
    <2>2. CASE SetResource
      <3>1. PICK p \in Seq(Results) : p = Tail(call.pending)
        BY CallFields, TailType, Zenon DEF IInv
      <3>2. call' = [call EXCEPT !.pending = p] /\ call \in Calls
        BY <2>2, <3>1, Zenon DEF SetResource, IInv, TypeOK
      <3> QED BY <3>1, <3>2, Zenon DEF Calls
    <2> QED BY <2>1, <2>2, Zenon
  <1>6. TypeOK'
    BY <1>1, <1>3, <1>5, Zenon DEF IInv, TypeOK, Calls, Mirrors, KnownIds, fixed, host
  <1>7. PendingInv'
    BY <1>1, <1>5, PendingShrinks, Zenon
  <1>8. SetInv'
    <2>1. CASE call'.set = call.set
      BY <1>2, <1>4, <1>6, <2>1, SetStays, Zenon
    <2>2. CASE call'.set # call.set
      <3>1. PICK r \in Results : r.id = -1 /\ r.iface \in Interfaces /\ call'.set = Append(call.set, r)
        BY <1>5, <2>2, Zenon
      <3>2. Len(hal_driver_map_') \in Nat
        BY <1>6 DEF TypeOK
      <3>3. SetOk(r)'
        BY <3>1, <3>2 DEF SetOk, Ids
      <3> QED BY <1>2, <1>4, <1>6, <3>1, <3>3, SetGrows, Zenon
    <2> QED BY <2>1, <2>2, Zenon
  <1>9. PhaseInv'
    BY <1>1, <1>5, Zenon DEF IInv, PhaseInv, Serving
  <1>10. MirrorReachesItsObject'
    BY <1>2, <1>4, <1>6, MirrorsStay, Zenon DEF host
  <1> QED BY <1>4, <1>6, <1>7, <1>8, <1>9, <1>10, Zenon DEF IInv

LEMMA SetResultsStep ==
  ASSUME IInv, SetHidlHalFunctionCallResults
  PROVE  IInv'
  <1>1. /\ call.pc = "set" /\ call.pending # <<>>
        /\ UNCHANGED <<fixed, object, born, returned, host>>
    BY Zenon DEF SetHidlHalFunctionCallResults
  <1>2. CASE SetInterface
    BY <1>1, <1>2, SetInterfaceStep, Zenon
  <1>3. CASE SetInterfaceFails
    BY <1>1, <1>3, ErrorStep, Zenon DEF SetInterfaceFails, heap
  <1>4. CASE SetNullptr \/ SetResource
    BY <1>1, <1>4, SetOtherStep, Zenon
  <1> QED BY <1>2, <1>3, <1>4, Zenon DEF SetHidlHalFunctionCallResults

(* In a session of the host no result has the id 0, which                  *)
(* GetHalMirrorForInterface would replace.                                 *)
LEMMA NewMirrorFields ==
  ASSUME IInv, ~replaying, NEW k \in 1..Len(call.set)
  PROVE  /\ HalMirror(call.set[k]) \in Mirrors
         /\ HalMirror(call.set[k]).driver_id = call.set[k].id
         /\ HalMirror(call.set[k]).iface = call.set[k].iface
         /\ HalMirror(call.set[k]).obj = call.set[k].obj
  <1>1. call.set \in Seq(Results)
    BY CallFields, Zenon DEF IInv
  <1>2. call.set[k] \in Results
    BY <1>1
  <1>3. call.set[k].id \in KnownIds /\ call.set[k].id # 0 /\ call.set[k].iface \in Interfaces
    BY Zenon DEF IInv, SetInv, KnownIds
  <1>4. call.set[k].obj \in Int
    BY <1>2, Zenon DEF Results
  <1>5. MirrorDriverId(call.set[k].id) = call.set[k].id
    BY <1>3, Zenon DEF MirrorDriverId
  <1> QED BY <1>3, <1>4, <1>5, Zenon DEF HalMirror, Mirrors

LEMMA ConcatType ==
  ASSUME NEW S, NEW s \in Seq(S), NEW t \in Seq(S), NEW u, u = s \o t
  PROVE  /\ u \in Seq(S) /\ Len(u) = Len(s) + Len(t) /\ Len(s) \in Nat /\ Len(t) \in Nat
         /\ \A m \in 1..Len(s) : u[m] = s[m]
         /\ \A m \in 1..Len(u) : m \notin 1..Len(s) => \E k \in 1..Len(t) : u[m] = t[k]
  <1>1. /\ u \in Seq(S) /\ Len(u) = Len(s) + Len(t) /\ Len(s) \in Nat /\ Len(t) \in Nat
        /\ \A m \in 1..Len(s) : u[m] = s[m]
    OBVIOUS
  <1>2. ASSUME NEW m \in 1..Len(u), m \notin 1..Len(s) PROVE \E k \in 1..Len(t) : u[m] = t[k]
    <2>1. m - Len(s) \in 1..Len(t)
      BY <1>1, <1>2
    <2>2. u[m] = t[m - Len(s)]
      BY <1>1, <1>2
    <2> QED BY <2>1, <2>2, Zenon
  <1> QED BY <1>1, <1>2, Zenon

LEMMA CallReturnsStep ==
  ASSUME IInv, CallReturns
  PROVE  IInv'
  <1>1. call' \in Calls /\ call'.set = <<>> /\ call'.pending = <<>> /\ call'.pc = "idle"
    BY IdleCall, Zenon DEF CallReturns, IInv
  <1>2. PhaseInv'
    BY <1>1, Zenon DEF PhaseInv
  <1>3. UNCHANGED <<specs, libs, replaying, phase, hal_driver_map_, refs, object, born, returned, resources, uid, asked>>
    BY Zenon DEF CallReturns, fixed, heap
  <1>4. CASE replaying
    <2>1. mirrors' = mirrors
      BY <1>4, Zenon DEF CallReturns
    <2>2. TypeOK'
      BY <1>1, <1>3, <2>1, Zenon DEF IInv, TypeOK, Calls, Mirrors, KnownIds
    <2> QED BY <1>1, <1>2, <1>3, <2>1, <2>2, CallStep, Zenon
  <1>5. CASE ~replaying
    <2>1. Len(call.set) \in Nat
      BY CallFields DEF IInv
    <2>2. PICK new : new = NewMirrors
      BY Zenon
    <2>3. /\ new \in Seq(Mirrors) /\ Len(new) = Len(call.set)
          /\ \A k \in 1..Len(new) : new[k] = HalMirror(call.set[k])
      <3>1. new \in [1..Len(call.set) -> Mirrors] /\ \A k \in 1..Len(call.set) : new[k] = HalMirror(call.set[k])
        BY <1>5, <2>2, NewMirrorFields, Zenon DEF NewMirrors
      <3> QED BY <2>1, <3>1
    <2>4. mirrors' = mirrors \o new /\ mirrors \in Seq(Mirrors)
      BY <1>5, <2>2, Zenon DEF CallReturns, IInv, TypeOK
    <2>5. /\ mirrors' \in Seq(Mirrors) /\ Len(mirrors') = Len(mirrors) + Len(new) /\ Len(mirrors) \in Nat
          /\ \A m \in 1..Len(mirrors) : mirrors'[m] = mirrors[m]
          /\ \A m \in 1..Len(mirrors') : m \notin 1..Len(mirrors) =>
               \E k \in 1..Len(new) : mirrors'[m] = new[k]
      <3>1. PICK M, old, all : M = Mirrors /\ old = mirrors /\ all = mirrors'
        BY Zenon
      <3>2. new \in Seq(M) /\ old \in Seq(M) /\ all = old \o new
        BY <2>3, <2>4, <3>1, Zenon
      <3>3. /\ all \in Seq(M) /\ Len(all) = Len(old) + Len(new) /\ Len(old) \in Nat
            /\ \A m \in 1..Len(old) : all[m] = old[m]
            /\ \A m \in 1..Len(all) : m \notin 1..Len(old) => \E k \in 1..Len(new) : all[m] = new[k]
        BY <3>2, ConcatType
      <3> QED BY <3>1, <3>3, Zenon
    <2>6. TypeOK'
      BY <1>1, <1>3, <2>5, Zenon DEF IInv, TypeOK, Calls, Mirrors, KnownIds
    <2>7. DriversInv' /\ PendingInv' /\ SetInv'
      <3>1. DriversInv'
        BY <1>3, Zenon DEF IInv, DriversInv, Serving
      <3>2. PendingInv'
        BY <1>1, SMTT(40) DEF PendingInv
      <3>3. SetInv'
        BY <1>1 DEF SetInv
      <3> QED BY <3>1, <3>2, <3>3, Zenon
    <2>8. ASSUME NEW m \in 1..Len(mirrors'), mirrors'[m].driver_id \in Ids
          PROVE  /\ Entry(mirrors'[m].driver_id).iface = mirrors'[m].iface
                 /\ Reaches(mirrors'[m].driver_id, mirrors'[m].obj)
      <3>1. CASE m \in 1..Len(mirrors)
        <4>1. mirrors'[m] = mirrors[m] /\ m \in DOMAIN mirrors
          BY <2>4, <2>5, <3>1
        <4> QED BY <2>8, <4>1, Zenon DEF IInv, MirrorReachesItsObject
      <3>2. CASE m \notin 1..Len(mirrors)
        <4>1. PICK k \in 1..Len(call.set) : mirrors'[m] = HalMirror(call.set[k])
          BY <2>3, <2>5, <3>2, Zenon
        <4>2. /\ mirrors'[m].driver_id = call.set[k].id /\ mirrors'[m].iface = call.set[k].iface
              /\ mirrors'[m].obj = call.set[k].obj
          BY <1>5, <4>1, NewMirrorFields, Zenon
        <4> QED BY <2>8, <4>2, Zenon DEF IInv, SetInv
      <3> QED BY <3>1, <3>2, Zenon
    <2>9. MirrorReachesItsObject'
      <3>1. DOMAIN mirrors' = 1..Len(mirrors')
        BY <2>5, SMTT(40)
      <3> QED BY <1>3, <2>8, <3>1, Zenon DEF MirrorReachesItsObject, Entry, Reaches, Alive, Ids
    <2> QED BY <1>2, <2>6, <2>7, <2>9, Zenon DEF IInv
  <1> QED BY <1>4, <1>5, Zenon

LEMMA HalReleasesStep ==
  ASSUME IInv, NEW a \in Addrs, HalReleases(a)
  PROVE  IInv'
  <1>1. UNCHANGED <<specs, libs, replaying, phase, hal_driver_map_, object, born, returned, resources, call, mirrors, uid, asked>>
    BY Zenon DEF HalReleases, fixed, host
  <1>2. /\ refs' \in [Addrs -> SUBSET References]
        /\ \A b \in Addrs : \A x \in refs[b] : x # Ref("hal", 0) => x \in refs'[b]
    BY Zenon DEF HalReleases, IInv, TypeOK
  <1>3. TypeOK'
    BY <1>1, <1>2, ZenonT(40) DEF IInv, TypeOK, Calls, Mirrors, KnownIds
  <1>4. DriversInv'
    <2>1. ASSUME NEW d \in 1..Len(hal_driver_map_), hal_driver_map_[d].driver = "proxy"
          PROVE  Ref("driver", d - 1) \in refs'[hal_driver_map_[d].pt]
      <3>1. hal_driver_map_[d].pt \in Addrs /\ Ref("driver", d - 1) \in refs[hal_driver_map_[d].pt]
        BY <2>1, DriverFields, Zenon DEF IInv, DriversInv
      <3> QED BY <1>2, <3>1, Zenon DEF Ref
    <2> QED BY <1>1, <2>1, Zenon DEF IInv, DriversInv, Serving
  <1>5. PendingInv'
    <2>1. ASSUME NEW k \in 1..Len(call.pending), call.pending[k].pt # Nullptr
          PROVE  Ref("result", call.pending[k].n) \in refs'[call.pending[k].pt]
      <3>1. call.pending[k] \in Results
        BY CallFields DEF IInv
      <3>2. call.pending[k].pt \in Addrs /\ Ref("result", call.pending[k].n) \in refs[call.pending[k].pt]
        BY <2>1, <3>1, Zenon DEF IInv, PendingInv, Results
      <3> QED BY <1>2, <3>2, Zenon DEF Ref
    <2> QED BY <1>1, <2>1, Zenon DEF IInv, PendingInv
  <1>6. Keeps
    BY <1>1 DEF Keeps, IInv, TypeOK
  <1>7. SetInv'
    BY <1>1, <1>3, <1>4, <1>6, SetStays, Zenon
  <1>8. PhaseInv'
    BY <1>1, Zenon DEF IInv, PhaseInv, Serving
  <1>9. MirrorReachesItsObject'
    BY <1>1, <1>3, <1>4, <1>6, MirrorsStay, Zenon
  <1> QED BY <1>3, <1>4, <1>5, <1>7, <1>8, <1>9, Zenon DEF IInv
-----------------------------------------------------------------------------
LEMMA StutterStep == ASSUME IInv, UNCHANGED vars PROVE IInv'
  <1>1. UNCHANGED <<specs, libs, replaying, phase, hal_driver_map_, refs, object, born, returned, resources,
                    call, mirrors, uid, asked>>
    BY Zenon DEF vars, fixed, heap, host
  <1>2. TypeOK'
    BY <1>1, Zenon DEF IInv, TypeOK, Calls, Mirrors, KnownIds
  <1>3. PhaseInv'
    BY <1>1, Zenon DEF IInv, PhaseInv, Serving
  <1> QED BY <1>1, <1>2, <1>3, CallStep, Zenon

(* Every step keeps the inductive invariant.                               *)
LEMMA NextIInv == IInv /\ [Next]_vars => IInv'
  <1> SUFFICES ASSUME IInv, [Next]_vars PROVE IInv'
    BY Zenon
  <1>1. CASE LoadHal
    BY <1>1, LoadHalStep, Zenon
  <1>2. ASSUME NEW i \in Interfaces, Replay(i) PROVE IInv'
    BY <1>2, ReplayStep, Zenon
  <1>3. ASSUME NEW m \in DOMAIN mirrors, RemoteCall(m) PROVE IInv'
    BY <1>3, RemoteCallStep, Zenon
  <1>4. ASSUME NEW m \in DOMAIN mirrors, NEW u \in Uids, SetCallerUid(m, u) PROVE IInv'
    BY <1>4, SetCallerUidStep, Zenon
  <1>5. CASE CallFunction \/ CallFails \/ FunctionReturns
    BY <1>5, CallFunctionStep, Zenon
  <1>6. ASSUME NEW i \in Interfaces, NEW a \in Addrs, ReturnNewObject(i, a) \/ ReturnObject(i, a) PROVE IInv'
    BY <1>6, ReturnStep, Zenon
  <1>7. ASSUME NEW i \in Interfaces, ReturnNullptr(i) PROVE IInv'
    BY <1>7, ReturnOtherStep, Zenon DEF ResourceTypes
  <1>8. ASSUME NEW t \in ResourceTypes, ReturnResource(t) PROVE IInv'
    BY <1>8, ReturnOtherStep, ConstantsAssumption
  <1>9. CASE SetHidlHalFunctionCallResults
    BY <1>9, SetResultsStep, Zenon
  <1>10. CASE CallReturns
    BY <1>10, CallReturnsStep, Zenon
  <1>11. ASSUME NEW a \in Addrs, HalReleases(a) PROVE IInv'
    BY <1>11, HalReleasesStep, Zenon
  <1>12. CASE UNCHANGED vars
    BY <1>12, StutterStep, Zenon
  <1> QED BY <1>1, <1>2, <1>3, <1>4, <1>5, <1>6, <1>7, <1>8, <1>9, <1>10, <1>11, <1>12, Zenon DEF Next

LEMMA SpecIInv == Spec => []IInv
  BY InitIInv, NextIInv, PTL DEF Spec

(* Every id that a mirror, a call or a result carries is -1 or that of a   *)
(* registered driver (RegisterDriver, GetHalMirrorForInterface), whatever  *)
(* calls are made and whatever the HAL returns.                            *)
THEOREM TypeCorrect == Spec => []TypeOK
  <1>1. IInv => TypeOK
    BY Zenon DEF IInv
  <1> QED BY <1>1, SpecIInv, PTL

(* A mirror's id names a driver for the mirror's interface that talks to   *)
(* the object the mirror was made for, or no driver: the address that      *)
(* FindDriverIdInternal compares is never one that was freed and used      *)
(* again, and a null interface never reaches the caller's driver.          *)
THEOREM MirrorsReachTheirObjects == Spec => []MirrorReachesItsObject
  <1>1. IInv => MirrorReachesItsObject
    BY Zenon DEF IInv
  <1> QED BY <1>1, SpecIInv, PTL

(* From the HAL's return until the answer is sent, the interfaces of the   *)
(* call stay alive although the HAL may drop its references, and the ids   *)
(* that SetHidlHalFunctionCallResults puts into the answer are theirs.     *)
THEOREM ResultsReachTheirObjects == Spec => []ResultReachesItsObject
  <1>1. IInv => ResultReachesItsObject
    <2> SUFFICES ASSUME IInv PROVE ResultReachesItsObject
      BY Zenon
    <2>1. DOMAIN call.pending = 1..Len(call.pending) /\ DOMAIN call.set = 1..Len(call.set)
      BY CallFields DEF IInv
    <2>2. \A k \in DOMAIN call.pending : call.pending[k].pt # Nullptr =>
            Alive(call.pending[k].pt) /\ object[call.pending[k].pt] = call.pending[k].obj
      BY <2>1, SMTT(40) DEF IInv, PendingInv, Alive
    <2> QED BY <2>1, <2>2, Zenon DEF IInv, SetInv, ResultReachesItsObject
  <1> QED BY <1>1, SpecIInv, PTL

(* A uid that the process has is one that a call was made for.             *)
UidInv == (uid # Root => uid \in asked) /\ CallRunsAsCaller

LEMMA InitUidInv == Init => UidInv
  BY SMTT(40) DEF Init, UidInv, CallRunsAsCaller, Idle

LEMMA NextUidInv == IInv /\ UidInv /\ [Next]_vars => UidInv'
  <1> SUFFICES ASSUME IInv, UidInv, [Next]_vars PROVE UidInv'
    BY Zenon
  <1>0. asked \subseteq Uids /\ Root \notin Uids
    BY ConstantsAssumption, Zenon DEF IInv, TypeOK
  <1>1. ASSUME UNCHANGED <<uid, asked>>, call'.pc = "idle" \/ (call'.uid = call.uid /\ call.pc # "idle") PROVE UidInv'
    BY <1>1, Zenon DEF UidInv, CallRunsAsCaller
  <1>2. ASSUME NEW m \in DOMAIN mirrors, RemoteCall(m) PROVE UidInv'
    <2>1. PICK u : u = CallerUid(m)
      BY Zenon
    <2>2. /\ uid' = (IF uid = Root THEN u ELSE uid) /\ asked' = asked \cup ({u} \ {Root})
          /\ call'.uid = u
      BY <1>2, <2>1, Zenon DEF RemoteCall, SetUid, Calling
    <2> QED BY <2>2, Zenon DEF UidInv, CallRunsAsCaller
  <1>3. ASSUME NEW i \in Interfaces, Replay(i) PROVE UidInv'
    <2>1. UNCHANGED <<uid, asked>>
      BY <1>3, Zenon DEF Replay, host
    <2>2. call' = call \/ call'.uid = Root
      BY <1>3, SMTT(40) DEF Replay, Calling
    <2> QED BY <1>0, <2>1, <2>2, Zenon DEF UidInv, CallRunsAsCaller
  <1>4. CASE LoadHal
    BY <1>4, Zenon DEF LoadHal, UidInv, CallRunsAsCaller
  <1>5. ASSUME NEW m \in DOMAIN mirrors, NEW u \in Uids, SetCallerUid(m, u) PROVE UidInv'
    BY <1>5, Zenon DEF SetCallerUid, UidInv, CallRunsAsCaller
  <1>6. CASE CallFunction \/ CallFails \/ FunctionReturns
    BY <1>1, <1>6, IdleCall, CallFields DEF CallFunction, CallFails, FunctionReturns, Error, host, IInv
  <1>7. ASSUME NEW i \in Interfaces, NEW a \in Addrs, ReturnNewObject(i, a) \/ ReturnObject(i, a) PROVE UidInv'
    BY <1>1, <1>7, CallFields, Zenon DEF ReturnNewObject, ReturnObject, AddResult, host, IInv
  <1>8. ASSUME NEW i \in Interfaces, ReturnNullptr(i) PROVE UidInv'
    BY <1>1, <1>8, CallFields, Zenon DEF ReturnNullptr, AddResult, host, IInv
  <1>9. ASSUME NEW t \in ResourceTypes, ReturnResource(t) PROVE UidInv'
    BY <1>1, <1>9, CallFields, Zenon DEF ReturnResource, AddResult, host, IInv
  <1>10. CASE SetHidlHalFunctionCallResults
    <2>1. call'.pc = "idle" \/ (call'.uid = call.uid /\ call.pc # "idle")
      <3>1. CASE SetInterfaceFails
        BY <3>1, IdleCall, Zenon DEF SetInterfaceFails, Error, IInv
      <3>2. CASE ~SetInterfaceFails
        <4>1. call'.uid = call.uid
          BY <1>10, <3>2, CallFields, Zenon DEF SetHidlHalFunctionCallResults, SetInterface, SetNullptr, SetResource,
                                         ResultIsSet, IInv
        <4> QED BY <1>10, <4>1, Zenon DEF SetHidlHalFunctionCallResults
      <3> QED BY <3>1, <3>2, Zenon
    <2> QED BY <1>1, <1>10, <2>1, Zenon DEF SetHidlHalFunctionCallResults, host
  <1>11. CASE CallReturns
    BY <1>1, <1>11, IdleCall, Zenon DEF CallReturns, IInv
  <1>12. ASSUME NEW a \in Addrs, HalReleases(a) PROVE UidInv'
    BY <1>12, Zenon DEF HalReleases, host, UidInv, CallRunsAsCaller
  <1>13. CASE UNCHANGED vars
    BY <1>13, Zenon DEF vars, host, UidInv, CallRunsAsCaller
  <1> QED BY <1>2, <1>3, <1>4, <1>5, <1>6, <1>7, <1>8, <1>9, <1>10, <1>11, <1>12, <1>13, Zenon DEF Next

(* ProcessOneCommand's setuid, which works only while the process is       *)
(* root's: as long as no call was made for a second uid, every call runs   *)
(* as the user it was made for.                                            *)
THEOREM CallsRunAsCaller == Spec => []CallRunsAsCaller
  <1>1. UidInv => CallRunsAsCaller
    BY Zenon DEF UidInv
  <1> QED BY <1>1, SpecIInv, InitUidInv, NextUidInv, PTL DEF Spec
-----------------------------------------------------------------------------
(* The references that the drivers and results hold: as long as every      *)
(* interface has a specification and a library, no reference to an         *)
(* interface object is without an owner, for any number of objects, calls  *)
(* and results.                                                            *)
Complete == specs = Interfaces /\ libs = Interfaces

(* Every driver was made.  (The others are registered as null pointers.)   *)
AllMade == \A d \in 1..Len(hal_driver_map_) : hal_driver_map_[d].driver # "null"

(* A resource has no pointer. *)
PointersAreInterfaces ==
  \A k \in 1..Len(call.pending) : call.pending[k].type # "interface" => call.pending[k].pt = Nullptr

(* Nothing but the HAL, a driver or a result to be set holds a reference.  *)
NoneLeaks == \A a \in Addrs : \A x \in refs[a] : x = Ref("hal", 0) \/ x \in Owners(a)

OwnedInv == PointersAreInterfaces /\ (Complete => AllMade /\ NoneLeaks)
-----------------------------------------------------------------------------
(* Who owns a reference. *)
LEMMA ResultOwns ==
  ASSUME NEW a, NEW k \in DOMAIN call'.pending, call'.pending[k].pt = a
  PROVE  Ref("result", call'.pending[k].n) \in Owners(a)'
  BY Zenon DEF Owners, Ref

LEMMA DriverOwns ==
  ASSUME NEW a, NEW d \in Ids', Entry(d)'.pt = a
  PROVE  Ref("driver", d) \in Owners(a)'
  BY Zenon DEF Owners, Ref

(* Drivers keep what they own, and results that stay to be set, too.       *)
LEMMA OwnersStay ==
  ASSUME IInv, IInv', Len(hal_driver_map_') >= Len(hal_driver_map_),
         \A d \in 1..Len(hal_driver_map_) : hal_driver_map_'[d] = hal_driver_map_[d],
         NEW a \in Addrs, NEW x \in Owners(a),
         \A k \in 1..Len(call.pending) :
           call.pending[k].pt = a /\ x = Ref("result", call.pending[k].n) =>
             \E j \in 1..Len(call'.pending) :
               call'.pending[j].pt = call.pending[k].pt /\ call'.pending[j].n = call.pending[k].n
  PROVE  x \in Owners(a)'
  <1>1. Len(hal_driver_map_) \in Nat /\ Len(hal_driver_map_') \in Nat
    BY DEF IInv, TypeOK
  <1>2. DOMAIN call.pending = 1..Len(call.pending) /\ DOMAIN call'.pending = 1..Len(call'.pending)
    <2>1. call.pending \in Seq(Results)
      BY CallFields, Zenon DEF IInv
    <2>2. call'.pending \in Seq(Results)
      BY Zenon DEF IInv, TypeOK, Calls
    <2> QED BY <2>1, <2>2
  <1>3. ASSUME NEW d \in Ids, Entry(d).pt = a, x = Ref("driver", d) PROVE x \in Owners(a)'
    <2>1. d \in Ids' /\ d + 1 \in 1..Len(hal_driver_map_)
      BY <1>1 DEF Ids
    <2>2. Entry(d)'.pt = a
      BY <1>3, <2>1, Zenon DEF Entry
    <2> QED BY <1>3, <2>1, <2>2, DriverOwns, Zenon
  <1>4. ASSUME NEW k \in DOMAIN call.pending, call.pending[k].pt = a, x = Ref("result", call.pending[k].n)
        PROVE  x \in Owners(a)'
    <2>1. PICK j \in DOMAIN call'.pending : call'.pending[j].pt = a /\ call'.pending[j].n = call.pending[k].n
      BY <1>2, <1>4, Zenon
    <2>2. x = Ref("result", call'.pending[j].n)
      BY <1>4, <2>1, Zenon
    <2> QED BY <2>1, <2>2, ResultOwns, Zenon
  <1>5. \/ \E d \in Ids : Entry(d).pt = a /\ x = Ref("driver", d)
        \/ \E k \in DOMAIN call.pending : call.pending[k].pt = a /\ x = Ref("result", call.pending[k].n)
    BY Zenon DEF Owners
  <1> QED BY <1>3, <1>4, <1>5, Zenon

(* Steps that add no reference and no result and make no driver in vain.   *)
LEMMA QuietStep ==
  ASSUME IInv, IInv', OwnedInv, UNCHANGED <<specs, libs>>,
         Len(hal_driver_map_') >= Len(hal_driver_map_),
         \A d \in 1..Len(hal_driver_map_) : hal_driver_map_'[d] = hal_driver_map_[d],
         \A d \in 1..Len(hal_driver_map_') : d \in 1..Len(hal_driver_map_) \/ hal_driver_map_'[d].driver = "service",
         \A a \in Addrs : refs'[a] \subseteq refs[a],
         call'.pending = call.pending \/ (call.pending = <<>> /\ call'.pending = <<>>)
  PROVE  OwnedInv'
  <1>1. call'.pending = call.pending
    BY Zenon
  <1>2. PointersAreInterfaces'
    BY <1>1, Zenon DEF OwnedInv, PointersAreInterfaces
  <1>3. ASSUME Complete' PROVE AllMade' /\ NoneLeaks'
    <2>1. Complete /\ AllMade /\ NoneLeaks
      BY <1>3, Zenon DEF OwnedInv, Complete
    <2>2. AllMade'
      BY <2>1 DEF AllMade
    <2>3. NoneLeaks'
      BY <1>1, <2>1, OwnersStay, Zenon DEF NoneLeaks, Ref
    <2> QED BY <2>2, <2>3, Zenon
  <1> QED BY <1>2, <1>3, Zenon DEF OwnedInv

(* A result is added with the reference that it owns. *)
LEMMA ResultStep ==
  ASSUME IInv, IInv', OwnedInv, NEW r \in Results, AddResult(r), r.n = returned,
         r.type # "interface" => r.pt = Nullptr,
         \A a \in Addrs : \A x \in refs'[a] :
           x \in refs[a] \/ x = Ref("hal", 0) \/ (x = Ref("result", returned) /\ r.pt = a)
  PROVE  OwnedInv'
  <1>1. call.pending \in Seq(Results) /\ Len(call.pending) \in Nat
    BY CallFields DEF IInv
  <1>2. call'.pending = Append(call.pending, r)
    BY CallFields, Zenon DEF AddResult, IInv
  <1>3. /\ Len(call'.pending) = Len(call.pending) + 1 /\ call'.pending[Len(call.pending) + 1] = r
        /\ \A k \in 1..Len(call.pending) : call'.pending[k] = call.pending[k] /\ k \in 1..Len(call'.pending)
        /\ Len(call.pending) + 1 \in 1..Len(call'.pending) /\ DOMAIN call'.pending = 1..Len(call'.pending)
        /\ \A k \in 1..Len(call'.pending) : k \in 1..Len(call.pending) \/ k = Len(call.pending) + 1
    BY <1>1, <1>2
  <1>4. PointersAreInterfaces'
    BY <1>3, Zenon DEF OwnedInv, PointersAreInterfaces
  <1>5. UNCHANGED <<specs, libs, hal_driver_map_>>
    BY Zenon DEF AddResult, fixed
  <1>6. ASSUME Complete' PROVE AllMade' /\ NoneLeaks'
    <2>1. Complete /\ AllMade /\ NoneLeaks
      BY <1>5, <1>6, Zenon DEF OwnedInv, Complete
    <2>2. AllMade'
      BY <1>5, <2>1, Zenon DEF AllMade
    <2>3. ASSUME NEW a \in Addrs, NEW x \in refs'[a] PROVE x = Ref("hal", 0) \/ x \in Owners(a)'
      <3>1. CASE x \in refs[a] /\ x # Ref("hal", 0)
        <4>1. x \in Owners(a)
          BY <2>1, <3>1, Zenon DEF NoneLeaks
        <4>2. Len(hal_driver_map_') >= Len(hal_driver_map_)
          BY <1>5 DEF IInv, TypeOK
        <4> QED BY <1>3, <1>5, <4>1, <4>2, OwnersStay, Zenon
      <3>2. CASE x = Ref("result", returned) /\ r.pt = a
        <4>1. PICK j \in DOMAIN call'.pending : call'.pending[j] = r
          BY <1>3, Zenon
        <4>2. x = Ref("result", call'.pending[j].n) /\ call'.pending[j].pt = a
          BY <3>2, <4>1, Zenon
        <4> QED BY <4>1, <4>2, ResultOwns, Zenon
      <3> QED BY <2>3, <3>1, <3>2, Zenon
    <2> QED BY <2>2, <2>3, Zenon DEF NoneLeaks, Ref
  <1> QED BY <1>4, <1>6, Zenon DEF OwnedInv

(* RegisterDriver appends the driver or leaves the map as it is.           *)
Appends(m, iface, pt, driver) ==
  /\ Len(m) >= Len(hal_driver_map_)
  /\ \A d \in 1..Len(hal_driver_map_) : m[d] = hal_driver_map_[d]
  /\ \/ m = hal_driver_map_ /\ ~IsNew(iface, pt)
     \/ /\ Len(m) = Len(hal_driver_map_) + 1 /\ IsNew(iface, pt)
        /\ m[Len(hal_driver_map_) + 1].pt = pt /\ m[Len(hal_driver_map_) + 1].driver = driver

LEMMA RegisterAppends ==
  ASSUME TypeOK, NEW iface, NEW pt, NEW driver
  PROVE  Appends(RegisterDriver(iface, pt, driver), iface, pt, driver)
  <1> DEFINE m == RegisterDriver(iface, pt, driver)
  <1>1. hal_driver_map_ \in Seq(Drivers)
    BY Zenon DEF TypeOK
  <1>2. PICK e : e = [iface |-> iface, pt |-> pt, driver |-> driver]
    BY Zenon
  <1>3. m = IF IsNew(iface, pt) THEN Append(hal_driver_map_, e) ELSE hal_driver_map_
    BY <1>2, Zenon DEF RegisterDriver
  <1>4. e.pt = pt /\ e.driver = driver
    BY <1>2
  <1> HIDE DEF m
  <1>5. Appends(m, iface, pt, driver)
    BY <1>1, <1>3, <1>4 DEF Appends
  <1> QED BY <1>5, Zenon DEF m

(* A result is set: what it owned goes to its driver, or was nothing.      *)
LEMMA ResultSetStep ==
  ASSUME IInv, IInv', OwnedInv, UNCHANGED <<specs, libs>>, call.pending # <<>>,
         call'.pending = Tail(call.pending),
         Len(hal_driver_map_') >= Len(hal_driver_map_),
         \A d \in 1..Len(hal_driver_map_) : hal_driver_map_'[d] = hal_driver_map_[d],
         Complete => AllMade',
         Complete => \A a \in Addrs : \A x \in refs'[a] :
           \/ x \in refs[a] /\ ~(NextResult.pt = a /\ x = Ref("result", NextResult.n))
           \/ x \in Owners(a)'
  PROVE  OwnedInv'
  <1>1. call.pending \in Seq(Results)
    BY CallFields, Zenon DEF IInv
  <1>2. /\ NextResult = call.pending[1] /\ Len(call.pending) \in Nat
        /\ Len(call'.pending) = Len(call.pending) - 1
        /\ \A k \in 1..Len(call'.pending) : call'.pending[k] = call.pending[k + 1] /\ k + 1 \in 1..Len(call.pending)
    BY <1>1, TailType, SMTT(30) DEF NextResult
  <1>3. PointersAreInterfaces'
    BY <1>2, Zenon DEF OwnedInv, PointersAreInterfaces
  <1>4. \A k \in 1..Len(call.pending) : k = 1 \/ \E j \in 1..Len(call'.pending) : call'.pending[j] = call.pending[k]
    <2> SUFFICES ASSUME NEW k \in 1..Len(call.pending), k # 1
                 PROVE  \E j \in 1..Len(call'.pending) : call'.pending[j] = call.pending[k]
      BY Zenon
    <2>1. k - 1 \in 1..Len(call'.pending) /\ (k - 1) + 1 = k
      BY <1>2
    <2> QED BY <1>2, <2>1, Zenon
  <1>5. ASSUME Complete' PROVE NoneLeaks'
    <2>1. Complete /\ NoneLeaks
      BY <1>5, Zenon DEF OwnedInv, Complete
    <2> SUFFICES ASSUME NEW a \in Addrs, NEW x \in refs'[a], x # Ref("hal", 0),
                        x \in refs[a], ~(NextResult.pt = a /\ x = Ref("result", NextResult.n))
                 PROVE  x \in Owners(a)'
      BY <2>1, Zenon DEF NoneLeaks, Ref
    <2>2. x \in Owners(a)
      BY <2>1, Zenon DEF NoneLeaks
    <2>3. ASSUME NEW k \in 1..Len(call.pending), call.pending[k].pt = a, x = Ref("result", call.pending[k].n)
          PROVE  \E j \in 1..Len(call'.pending) :
                   call'.pending[j].pt = call.pending[k].pt /\ call'.pending[j].n = call.pending[k].n
      <3>1. k # 1
        BY <1>2, <2>3, Zenon
      <3> QED BY <1>4, <3>1, Zenon
    <2> QED BY <2>2, <2>3, OwnersStay, Zenon
  <1>6. Complete' => AllMade'
    BY Zenon DEF Complete
  <1> QED BY <1>3, <1>5, <1>6, Zenon DEF OwnedInv

LEMMA InterfaceSetStep ==
  ASSUME IInv, IInv', OwnedInv, call.pending # <<>>, SetInterface, UNCHANGED <<specs, libs>>
  PROVE  OwnedInv'
  <1>1. PICK r : r = NextResult
    BY Zenon
  <1>2. r \in Results /\ r.iface \in Interfaces /\ r.pt \in Addrs /\ r.n \in Nat
    BY <1>1, NextResultFields, Zenon DEF SetInterface
  <1>3. PICK driver \in {"proxy", "null"} :
          /\ hal_driver_map_' = RegisterDriver(r.iface, r.pt, driver)
          /\ r.iface \in libs => driver = "proxy"
    BY <1>1, ZenonT(40) DEF SetInterface
  <1>4. Len(hal_driver_map_) \in Nat /\ Len(hal_driver_map_') \in Nat
    BY DEF IInv, TypeOK
  <1>5. /\ Len(hal_driver_map_') >= Len(hal_driver_map_)
        /\ \A d \in 1..Len(hal_driver_map_) : hal_driver_map_'[d] = hal_driver_map_[d]
        /\ \/ hal_driver_map_' = hal_driver_map_ /\ ~IsNew(r.iface, r.pt)
           \/ /\ Len(hal_driver_map_') = Len(hal_driver_map_) + 1 /\ IsNew(r.iface, r.pt)
              /\ hal_driver_map_'[Len(hal_driver_map_) + 1].pt = r.pt
              /\ hal_driver_map_'[Len(hal_driver_map_) + 1].driver = driver
    <2>1. TypeOK
      BY Zenon DEF IInv
    <2>2. Appends(hal_driver_map_', r.iface, r.pt, driver)
      BY <1>3, <2>1, RegisterAppends, Zenon
    <2> QED BY <2>2, Zenon DEF Appends
  <1>7. call'.pending = Tail(call.pending)
    BY <1>1, CallFields, Zenon DEF SetInterface, ResultIsSet, IInv
  <1>8. ASSUME Complete PROVE AllMade'
    <2>1. AllMade /\ driver # "null"
      BY <1>2, <1>3, <1>8 DEF OwnedInv, Complete
    <2> QED BY <1>4, <1>5, <2>1 DEF AllMade
  <1>9. ASSUME Complete, NEW a \in Addrs, NEW x \in refs'[a]
        PROVE  \/ x \in refs[a] /\ ~(r.pt = a /\ x = Ref("result", r.n))
               \/ x \in Owners(a)'
    <2>1. refs' = [refs EXCEPT ![r.pt] = (refs[r.pt] \ {Ref("result", r.n)}) \cup DriverReference(r)]
      BY <1>1, <1>2, <1>9, Zenon DEF SetInterface, CreateDriver, Complete
    <2>2. CASE a # r.pt
      BY <1>9, <2>1, <2>2, Zenon DEF IInv, TypeOK
    <2>3. CASE a = r.pt
      <3>1. x \in (refs[r.pt] \ {Ref("result", r.n)}) \cup DriverReference(r)
        BY <1>2, <1>9, <2>1, <2>3, Zenon DEF IInv, TypeOK
      <3>2. CASE x \in DriverReference(r)
        <4>1. IsNew(r.iface, r.pt) /\ x = Ref("driver", Len(hal_driver_map_))
          BY <3>2, Zenon DEF DriverReference
        <4>2. PICK d \in Nat : d = Len(hal_driver_map_)
          BY <1>4, Zenon
        <4>3. d \in Ids' /\ Entry(d)'.pt = a
          BY <1>4, <1>5, <2>3, <4>1, <4>2 DEF Ids, Entry
        <4> QED BY <4>1, <4>2, <4>3, DriverOwns, Zenon
      <3> QED BY <2>3, <3>1, <3>2, Zenon
    <2> QED BY <2>2, <2>3, Zenon
  <1> QED BY <1>1, <1>5, <1>7, <1>8, <1>9, ResultSetStep, Zenon

LEMMA SetStep ==
  ASSUME IInv, IInv', OwnedInv, SetHidlHalFunctionCallResults
  PROVE  OwnedInv'
  <1>1. call.pending # <<>> /\ UNCHANGED <<specs, libs>>
    BY Zenon DEF SetHidlHalFunctionCallResults, fixed
  <1>2. NextResult = call.pending[1] /\ 1 \in 1..Len(call.pending)
    BY <1>1, NextResultFields, Zenon
  <1>3. CASE SetInterface
    BY <1>1, <1>3, InterfaceSetStep, Zenon
  <1>4. CASE SetInterfaceFails
    <2>1. NextResult.iface \in Interfaces /\ NextResult.iface \notin specs /\ UNCHANGED <<hal_driver_map_, refs>>
      BY <1>1, <1>4, NextResultFields, Zenon DEF SetInterfaceFails
    <2>2. ~Complete'
      BY <1>1, <2>1, Zenon DEF Complete
    <2>3. call'.pending = <<>>
      BY <1>4, IdleCall, Zenon DEF SetInterfaceFails, Error, IInv
    <2>4. PointersAreInterfaces'
      BY <2>3 DEF PointersAreInterfaces
    <2> QED BY <2>2, <2>4, Zenon DEF OwnedInv
  <1>5. CASE SetNullptr \/ SetResource
    <2>1. UNCHANGED <<hal_driver_map_, refs>>
      BY <1>5, Zenon DEF SetNullptr, SetResource
    <2>2. call'.pending = Tail(call.pending)
      BY <1>5, CallFields, Zenon DEF SetNullptr, SetResource, ResultIsSet, IInv
    <2>3. NextResult.pt = Nullptr
      <3>1. NextResult.type # "interface" => NextResult.pt = Nullptr
        BY <1>2, Zenon DEF OwnedInv, PointersAreInterfaces
      <3>2. "interface" \notin ResourceTypes
        BY DEF ResourceTypes
      <3> QED BY <1>5, <3>1, <3>2, Zenon DEF SetNullptr, SetResource
    <2>4. Nullptr \notin Addrs /\ Len(hal_driver_map_') >= Len(hal_driver_map_)
      BY <2>1, ConstantsAssumption DEF IInv, TypeOK
    <2>5. Complete => AllMade'
      BY <2>1, Zenon DEF OwnedInv, AllMade
    <2> QED BY <1>1, <2>1, <2>2, <2>3, <2>4, <2>5, ResultSetStep, Zenon
  <1> QED BY <1>3, <1>4, <1>5, Zenon DEF SetHidlHalFunctionCallResults

LEMMA ReturnOwned ==
  ASSUME IInv, IInv', OwnedInv, NEW i \in Interfaces, NEW a \in Addrs, ReturnNewObject(i, a) \/ ReturnObject(i, a)
  PROVE  OwnedInv'
  <1>0. returned \in Nat /\ born \in Nat /\ object \in [Addrs -> Int] /\ refs \in [Addrs -> SUBSET References]
    BY Zenon DEF IInv, TypeOK
  <1>1. PICK obj \in Int : AddResult(Result("interface", i, a, obj))
    <2>1. CASE ReturnNewObject(i, a)
      BY <1>0, <2>1, born + 1 \in Int DEF ReturnNewObject
    <2>2. CASE ReturnObject(i, a)
      BY <1>0, <2>2, Zenon DEF ReturnObject
    <2> QED BY <2>1, <2>2, Zenon
  <1> DEFINE r == Result("interface", i, a, obj)
  <1>2. r \in Results /\ r.n = returned /\ r.type = "interface" /\ r.pt = a
    BY <1>0 DEF Result, Results, kInvalidDriverId
  <1>3. ASSUME NEW b \in Addrs, NEW x \in refs'[b]
        PROVE  x \in refs[b] \/ x = Ref("hal", 0) \/ (x = Ref("result", returned) /\ a = b)
    <2>1. CASE ReturnNewObject(i, a)
      <3>1. PICK keeps \in {{}, {Ref("hal", 0)}} : refs' = [refs EXCEPT ![a] = IncStrong(keeps)]
        BY <2>1, ZenonT(40) DEF ReturnNewObject
      <3> QED BY <1>0, <1>3, <3>1, Zenon DEF IncStrong, Ref
    <2>2. CASE ReturnObject(i, a)
      <3>1. refs' = [refs EXCEPT ![a] = refs[a] \cup {Ref("result", returned)}]
        BY <2>2, Zenon DEF ReturnObject, IncStrong
      <3> QED BY <1>0, <1>3, <3>1, Zenon DEF Ref
    <2> QED BY <2>1, <2>2, Zenon
  <1> HIDE DEF r
  <1> QED BY <1>1, <1>2, <1>3, ResultStep, Zenon DEF r

LEMMA ReturnOtherOwned ==
  ASSUME IInv, IInv', OwnedInv,
         \/ \E i \in Interfaces : ReturnNullptr(i)
         \/ \E t \in ResourceTypes : ReturnResource(t)
  PROVE  OwnedInv'
  <1>0. returned \in Nat
    BY Zenon DEF IInv, TypeOK
  <1>1. UNCHANGED refs
    BY Zenon DEF ReturnNullptr, ReturnResource, heap
  <1>2. ASSUME NEW i \in Interfaces, ReturnNullptr(i) PROVE OwnedInv'
    <2> DEFINE r == Result("interface", i, Nullptr, NoObject)
    <2>1. r \in Results /\ r.n = returned /\ r.pt = Nullptr
      BY <1>0 DEF Result, Results, kInvalidDriverId, NoObject
    <2>2. AddResult(r)
      BY <1>2, Zenon DEF ReturnNullptr
    <2> HIDE DEF r
    <2> QED BY <1>1, <2>1, <2>2, ResultStep, Zenon
  <1>3. ASSUME NEW t \in ResourceTypes, ReturnResource(t) PROVE OwnedInv'
    <2> DEFINE r == Result(t, NoInterface, Nullptr, NoObject)
    <2>1. r \in Results /\ r.n = returned /\ r.pt = Nullptr
      BY <1>0 DEF Result, Results, kInvalidDriverId, NoObject
    <2>2. AddResult(r)
      BY <1>3, Zenon DEF ReturnResource
    <2> HIDE DEF r
    <2> QED BY <1>1, <2>1, <2>2, ResultStep, Zenon
  <1> QED BY <1>2, <1>3, Zenon

LEMMA CallingCall == \A id, u : Calling(id, u).pending = <<>>
  BY DEF Calling

(* LoadTargetComponent registers the driver of a service, which has no     *)
(* pointer.                                                                *)
LEMMA LoadOwned ==
  ASSUME IInv, IInv', OwnedInv, LoadHal \/ \E i \in Interfaces : Replay(i)
  PROVE  OwnedInv'
  <1>1. UNCHANGED <<specs, libs, refs>>
    BY Zenon DEF LoadHal, Replay, fixed, heap
  <1>2. call'.pending = call.pending \/ (call.pending = <<>> /\ call'.pending = <<>>)
    BY CallingCall, Zenon DEF LoadHal, Replay, IInv, PhaseInv
  <1>3. \/ UNCHANGED hal_driver_map_
        \/ \E i \in Interfaces : hal_driver_map_' = RegisterDriver(i, Nullptr, "service")
    BY ConstantsAssumption, Zenon DEF LoadHal, Replay
  <1>4. Len(hal_driver_map_) \in Nat /\ Len(hal_driver_map_') \in Nat
    BY DEF IInv, TypeOK
  <1>5. ASSUME NEW i \in Interfaces, hal_driver_map_' = RegisterDriver(i, Nullptr, "service")
        PROVE  /\ Len(hal_driver_map_') >= Len(hal_driver_map_)
               /\ \A d \in 1..Len(hal_driver_map_) : hal_driver_map_'[d] = hal_driver_map_[d]
               /\ \A d \in 1..Len(hal_driver_map_') :
                    d \in 1..Len(hal_driver_map_) \/ hal_driver_map_'[d].driver = "service"
    <2>1. /\ Len(hal_driver_map_') >= Len(hal_driver_map_)
          /\ \A d \in 1..Len(hal_driver_map_) : hal_driver_map_'[d] = hal_driver_map_[d]
          /\ \/ hal_driver_map_' = hal_driver_map_
             \/ /\ Len(hal_driver_map_') = Len(hal_driver_map_) + 1
                /\ hal_driver_map_'[Len(hal_driver_map_) + 1].driver = "service"
      <3>1. TypeOK
        BY Zenon DEF IInv
      <3>2. Appends(hal_driver_map_', i, Nullptr, "service")
        BY <1>5, <3>1, RegisterAppends, Zenon
      <3> QED BY <3>2, Zenon DEF Appends
    <2> QED BY <1>4, <2>1
  <1>6. CASE UNCHANGED hal_driver_map_
    <2>1. Len(hal_driver_map_') >= Len(hal_driver_map_)
      BY <1>4, <1>6
    <2> QED BY <1>1, <1>2, <1>6, <2>1, QuietStep, Zenon
  <1> QED BY <1>1, <1>2, <1>3, <1>5, <1>6, QuietStep, Zenon

(* The other steps register no driver.                                     *)
LEMMA OtherOwned ==
  ASSUME IInv, IInv', OwnedInv,
         \/ \E m \in DOMAIN mirrors : RemoteCall(m) \/ \E u \in Uids : SetCallerUid(m, u)
         \/ CallFunction \/ CallFails \/ FunctionReturns \/ CallReturns
         \/ \E a \in Addrs : HalReleases(a)
         \/ UNCHANGED vars
  PROVE  OwnedInv'
  <1>1. UNCHANGED <<specs, libs, hal_driver_map_>>
    BY SMTT(30) DEF RemoteCall, SetCallerUid, CallFunction, CallFails, FunctionReturns, CallReturns, HalReleases, vars, fixed
  <1>2. \A a \in Addrs : refs'[a] \subseteq refs[a]
    <2>1. CASE \E a \in Addrs : HalReleases(a)
      BY <2>1 DEF HalReleases, IInv, TypeOK
    <2>2. CASE UNCHANGED refs
      BY <2>2, Zenon
    <2> QED BY <2>1, <2>2, SMTT(30) DEF RemoteCall, SetCallerUid, CallFunction, CallFails, FunctionReturns, CallReturns, vars, heap
  <1>3. call'.pending = call.pending \/ (call.pending = <<>> /\ call'.pending = <<>>)
    <2>1. CASE \E m \in DOMAIN mirrors : RemoteCall(m) \/ \E u \in Uids : SetCallerUid(m, u)
      BY <2>1, CallingCall, Zenon DEF RemoteCall, SetCallerUid, IInv, PhaseInv
    <2>2. CASE CallFunction \/ CallFails \/ FunctionReturns \/ CallReturns
      BY <2>2, CallFields, IdleCall, SMTT(30) DEF CallFunction, CallFails, FunctionReturns, CallReturns, Error, IInv, PhaseInv
    <2>3. CASE UNCHANGED call
      BY <2>3, Zenon
    <2> QED BY <2>1, <2>2, <2>3, SMTT(30) DEF HalReleases, vars
  <1>4. Len(hal_driver_map_') >= Len(hal_driver_map_)
    BY <1>1 DEF IInv, TypeOK
  <1> QED BY <1>1, <1>2, <1>3, <1>4, QuietStep, Zenon

LEMMA InitOwned == Init => OwnedInv
  BY SMTT(30) DEF Init, OwnedInv, PointersAreInterfaces, AllMade, NoneLeaks, Idle

LEMMA NextOwned == IInv /\ OwnedInv /\ [Next]_vars => OwnedInv'
  <1> SUFFICES ASSUME IInv, OwnedInv, [Next]_vars PROVE OwnedInv'
    BY Zenon
  <1>0. IInv'
    BY NextIInv, Zenon
  <1>1. CASE LoadHal \/ \E i \in Interfaces : Replay(i)
    BY <1>0, <1>1, LoadOwned, Zenon
  <1>2. ASSUME NEW i \in Interfaces, NEW a \in Addrs, ReturnNewObject(i, a) \/ ReturnObject(i, a)
        PROVE  OwnedInv'
    BY <1>0, <1>2, ReturnOwned, Zenon
  <1>3. CASE (\E i \in Interfaces : ReturnNullptr(i)) \/ (\E t \in ResourceTypes : ReturnResource(t))
    BY <1>0, <1>3, ReturnOtherOwned, Zenon
  <1>4. CASE SetHidlHalFunctionCallResults
    BY <1>0, <1>4, SetStep, Zenon
  <1>5. CASE \/ \E m \in DOMAIN mirrors : RemoteCall(m) \/ \E u \in Uids : SetCallerUid(m, u)
             \/ CallFunction \/ CallFails \/ FunctionReturns \/ CallReturns
             \/ \E a \in Addrs : HalReleases(a)
             \/ UNCHANGED vars
    BY <1>0, <1>5, OtherOwned, Zenon
  <1> QED BY <1>1, <1>2, <1>3, <1>4, <1>5, Zenon DEF Next

(* Drivers and results hold the references that they own.                  *)
LEMMA OwnersHold ==
  ASSUME IInv, AllMade, NEW a \in Addrs, NEW x \in Owners(a)
  PROVE  x \in refs[a] /\ x # Ref("hal", 0)
  <1>0. Nullptr \notin Addrs /\ Len(hal_driver_map_) \in Nat /\ DOMAIN call.pending = 1..Len(call.pending)
    BY ConstantsAssumption, CallFields DEF IInv, TypeOK
  <1>1. ASSUME NEW d \in Ids, Entry(d).pt = a PROVE Ref("driver", d) \in refs[a]
    <2>1. d + 1 \in 1..Len(hal_driver_map_) /\ (d + 1) - 1 = d
      BY <1>0 DEF Ids
    <2>2. hal_driver_map_[d + 1] \in Drivers /\ hal_driver_map_[d + 1].pt = a
      BY <1>1, <2>1 DEF IInv, TypeOK, Entry
    <2>3. hal_driver_map_[d + 1].driver = "proxy"
      BY <1>0, <2>1, <2>2, Zenon DEF Drivers, IInv, DriversInv, AllMade
    <2> QED BY <2>1, <2>2, <2>3, Zenon DEF IInv, DriversInv
  <1>2. ASSUME NEW k \in DOMAIN call.pending, call.pending[k].pt = a
        PROVE  Ref("result", call.pending[k].n) \in refs[a]
    BY <1>0, <1>2, Zenon DEF IInv, PendingInv
  <1>3. \A n : Ref("driver", n) # Ref("hal", 0) /\ Ref("result", n) # Ref("hal", 0)
    BY DEF Ref
  <1>4. \/ \E d \in Ids : Entry(d).pt = a /\ x = Ref("driver", d)
        \/ \E k \in DOMAIN call.pending : call.pending[k].pt = a /\ x = Ref("result", call.pending[k].n)
    BY Zenon DEF Owners
  <1> QED BY <1>1, <1>2, <1>3, <1>4, Zenon

(* As long as every interface has a specification and a library, the       *)
(* references to an object are those of the drivers registered for it      *)
(* (RegisterDriver), of the results that SetHidlHalFunctionCallResults has *)
(* still to set, and of the HAL: the incStrong of every result is matched, *)
(* whether its driver was new or one was registered before.                *)
THEOREM ReferencesHaveOwners == Spec => []ReferencesAreOwned
  <1>1. ASSUME IInv, OwnedInv PROVE ReferencesAreOwned
    <2> SUFFICES ASSUME Complete, NEW a \in Addrs PROVE refs[a] \ {Ref("hal", 0)} = Owners(a)
      BY Zenon DEF ReferencesAreOwned, Complete
    <2>1. AllMade /\ NoneLeaks
      BY <1>1, Zenon DEF OwnedInv
    <2>2. Owners(a) \subseteq refs[a] \ {Ref("hal", 0)}
      BY <1>1, <2>1, OwnersHold, Zenon
    <2>3. refs[a] \ {Ref("hal", 0)} \subseteq Owners(a)
      BY <2>1, Zenon DEF NoneLeaks
    <2> QED BY <2>2, <2>3, Zenon
  <1>2. IInv /\ OwnedInv => ReferencesAreOwned
    BY <1>1, Zenon
  <1> QED BY <1>2, SpecIInv, InitOwned, NextOwned, PTL DEF Spec
=============================================================================
