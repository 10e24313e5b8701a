-------------------------- MODULE VirtioBlkProofs ---------------------------
(***************************************************************************)
(* The virtio block device and its driver: what holds however many         *)
(* requests are in flight, and that one at a time is served as BlockStore  *)
(* says, for rings and index spans of any size and any delay.              *)
(***************************************************************************)
EXTENDS VirtioBlk, FiniteSetTheorems, TLAPS

LEMMA Remainder ==
  ASSUME NEW x \in Int, NEW n \in Nat \ {0} PROVE x % n \in 0 .. (n - 1)
OBVIOUS

LEMMA NoDistance == ASSUME NEW n \in Nat \ {0} PROVE 0 % n = 0
OBVIOUS

LEMMA SomeDistance ==
  ASSUME NEW n \in Nat \ {0}, NEW x \in 0 .. (n - 1), NEW y \in 0 .. (n - 1), (x - y) % n = 0
  PROVE  x = y
OBVIOUS

LEMMA NextDistance ==
  ASSUME NEW n \in Nat \ {0}, n > 1, NEW x \in 0 .. (n - 1)
  PROVE  (((x + 1) % n) - x) % n = 1
<1>1. CASE x = n - 1
  <2>1. (x + 1) % n = 0
    BY <1>1
  <2> QED  BY <1>1, <2>1
<1>2. CASE x < n - 1
  <2>1. (x + 1) % n = x + 1
    BY <1>2
  <2> QED  BY <2>1
<1> QED  BY <1>1, <1>2

LEMMA BumpIsIndex == ASSUME NEW i \in Indices PROVE Bump(i) \in Indices /\ (i + 1) % IdSpan \in Indices
<1>1. i + 1 \in Int /\ IdSpan \in Nat \ {0}
  BY VirtioAssumption DEF VirtioAssumption, Indices
<1> QED  BY <1>1, Remainder DEF Bump, Indices

LEMMA SlotIsInRing == ASSUME NEW i \in Int PROVE i % QueueNum \in RingSlots
BY VirtioAssumption, Remainder DEF VirtioAssumption, RingSlots

-----------------------------------------------------------------------------
LEMMA HeadZero == 0 \in Heads /\ 0 \in Indices /\ 0 \in RingSlots
BY VirtioAssumption DEF VirtioAssumption, Heads, Indices, RingSlots

LEMMA TypeInit == Init => TypeOK
<1>1. 0 \in Sectors /\ 0 \in Data /\ Idle \in Idle .. Delay
  BY VirtioAssumption DEF VirtioAssumption, Idle
<1> QED  BY <1>1, HeadZero DEF Init, TypeOK

(* What the device does at the end of its delay keeps the types. *)
LEMMA AccessDiskType ==
  ASSUME TypeOK, AccessDisk
  PROVE  /\ disk' \in [Sectors -> Data] /\ buf' \in [Heads -> Data]
         /\ usedRing' \in [RingSlots -> Heads]
         /\ id' \in Indices /\ usedIdx' \in Indices /\ isr' \subseteq IsrBits /\ "used" \in isr'
<1> DEFINE h == ring[availIdx % QueueNum]
           r == desc[h]
<1>1. /\ availIdx \in Int /\ id \in Int /\ id \in Indices
      /\ ring \in [RingSlots -> Heads] /\ usedRing \in [RingSlots -> Heads]
      /\ desc \in [Heads -> Reqs \cup {NoReq}] /\ disk \in [Sectors -> Data]
      /\ buf \in [Heads -> Data] /\ isr \subseteq IsrBits
  BY VirtioAssumption DEF TypeOK, Indices, VirtioAssumption
<1>2. h \in Heads /\ r \in Reqs \cup {NoReq} /\ id % QueueNum \in RingSlots
  BY <1>1, SlotIsInRing
<1>3. /\ disk' = IF r.kind = "out" THEN [disk EXCEPT ![r.sector] = r.data] ELSE disk
      /\ buf' = IF r.kind = "in" THEN [buf EXCEPT ![h] = disk[r.sector]] ELSE buf
      /\ usedRing' = [usedRing EXCEPT ![id % QueueNum] = h]
      /\ id' = Bump(id) /\ usedIdx' = Bump(id) /\ isr' = isr \cup {"used"}
  BY DEF AccessDisk
<1>4. r.kind # "none" => r.sector \in Sectors /\ r.data \in Data
  BY <1>2 DEF Reqs, NoReq
<1> HIDE DEF h, r
<1>5. disk' \in [Sectors -> Data] /\ buf' \in [Heads -> Data]
  BY <1>1, <1>2, <1>3, <1>4
<1>6. usedRing' \in [RingSlots -> Heads]
  BY <1>1, <1>2, <1>3
<1>7. isr' \subseteq IsrBits /\ "used" \in isr'
  BY <1>1, <1>3 DEF IsrBits
<1> QED  BY <1>1, <1>3, <1>5, <1>6, <1>7, BumpIsIndex

LEMMA TypeTick == ASSUME TypeOK, Tick PROVE TypeOK'
<1>1. UNCHANGED <<num, pfn, toDevice, driver>>
  BY DEF Tick
<1>2. CASE wait = 0
  <2>1. AccessDisk /\ wait' = Idle
    BY <1>2 DEF Tick
  <2>2. Idle \in Idle .. Delay
    BY VirtioAssumption DEF VirtioAssumption, Idle
  <2> QED  BY <1>1, <2>1, <2>2, AccessDiskType DEF TypeOK, toDevice, driver
<1>3. CASE wait # 0
  <2>1. (wait' = IF wait = Idle THEN Idle ELSE wait - 1) /\ UNCHANGED <<isr, id, disk, toDriver>>
    BY <1>3 DEF Tick
  <2>2. wait' \in Idle .. Delay
    BY <1>3, <2>1, VirtioAssumption DEF TypeOK, Idle, VirtioAssumption
  <2> QED  BY <1>1, <2>1, <2>2 DEF TypeOK, toDevice, toDriver, driver
<1> QED  BY <1>2, <1>3

LEMMA TypeFill == ASSUME TypeOK, NEW h \in Heads, NEW r \in Reqs, Fill(h, r) PROVE TypeOK'
<1>1. availIdx % QueueNum \in RingSlots
  <2>1. availIdx \in Int
    BY VirtioAssumption DEF VirtioAssumption, TypeOK, Indices
  <2> QED  BY <2>1, SlotIsInRing
<1> QED  BY <1>1 DEF Fill, TypeOK, device, toDriver

LEMMA TypePublish == ASSUME TypeOK, Publish PROVE TypeOK'
<1>1. availIdx % QueueNum \in RingSlots
  <2>1. availIdx \in Int
    BY VirtioAssumption DEF VirtioAssumption, TypeOK, Indices
  <2> QED  BY <2>1, SlotIsInRing
<1> DEFINE h == ring[availIdx % QueueNum]
<1>2. h \in Heads /\ desc[h] \in Reqs \cup {NoReq}
  BY <1>1 DEF TypeOK
<1>3. availIdx' \in Indices
  BY BumpIsIndex DEF TypeOK, Publish
<1>4. req' = [req EXCEPT ![h] = desc[h]] /\ pc' = "idle" /\ UNCHANGED <<device, ring, desc, toDriver, lastUsed>>
  BY DEF Publish
<1> HIDE DEF h
<1> QED  BY <1>2, <1>3, <1>4 DEF TypeOK, device, toDriver

LEMMA TypeSetUp == ASSUME TypeOK, SetUp PROVE TypeOK'
BY DEF SetUp, StoreQueueNum, StoreQueuePfn, StoreDriverOk, Update, TypeOK, toDevice, toDriver

LEMMA TypeReset == ASSUME TypeOK, ResetDevice PROVE TypeOK'
BY HeadZero DEF ResetDevice, StoreReset, ZeroedRings, TypeOK

LEMMA TypeHandle == ASSUME TypeOK, Handle PROVE TypeOK'
<1>1. CASE Reap
  <2>1. lastUsed' \in Indices
    BY <1>1, BumpIsIndex DEF Reap, TypeOK
  <2>2. req' \in [Heads -> Reqs \cup {NoReq}]
    BY <1>1 DEF Reap, TypeOK
  <2> QED  BY <1>1, <2>1, <2>2 DEF Reap, TypeOK, device, toDevice, toDriver
<1>2. CASE Ack
  BY <1>2 DEF Ack, StoreAck, TypeOK, toDevice, toDriver
<1>3. CASE ReadIsr
  BY <1>3 DEF ReadIsr, TypeOK, device, toDevice, toDriver
<1>4. CASE Reaped
  BY <1>4 DEF Reaped, TypeOK, device, toDevice, toDriver
<1> QED  BY <1>1, <1>2, <1>3, <1>4 DEF Handle

LEMMA TypeNext == TypeOK /\ [Next]_vars => TypeOK'
<1> SUFFICES ASSUME TypeOK, [Next]_vars PROVE TypeOK'
  OBVIOUS
<1>1. CASE Notify
  <2>1. Delay \in Idle .. Delay
    BY VirtioAssumption DEF VirtioAssumption, Idle
  <2> QED  BY <1>1, <2>1 DEF Notify, StoreNotify, TypeOK, toDevice, toDriver
<1>2. CASE UNCHANGED vars
  BY <1>2 DEF vars, device, toDevice, toDriver, driver, TypeOK
<1> QED  BY <1>1, <1>2, TypeTick, TypeFill, TypePublish, TypeSetUp, TypeReset, TypeHandle DEF Next

(* Rings, indices and registers keep their types, whatever the order of the
   driver's stores and the device's ticks. *)
THEOREM TypesHold == Spec => []TypeOK
BY TypeInit, TypeNext, PTL DEF Spec

-----------------------------------------------------------------------------
(* The registers behind the layout *)
RegistersStored ==
  /\ "num" \in up => num = QueueNum
  /\ "pfn" \in up => "num" \in up /\ pfn = RingPfn /\ layout = RingLayout

(* VirtioBlkDevice::update: once the driver has stored queue_num, queue_pfn
   and DRIVER_OK, the last of the three in either order, vq is where the
   registers say. *)
THEOREM LayoutIsCurrent == Spec => []LayoutCurrent
<1>1. Init => RegistersStored
  BY DEF Init, RegistersStored
<1>2. RegistersStored /\ [Next]_vars => RegistersStored'
  <2> SUFFICES ASSUME RegistersStored, [Next]_vars PROVE RegistersStored'
    OBVIOUS
  <2>1. CASE SetUp
    BY <2>1 DEF SetUp, StoreQueueNum, StoreQueuePfn, StoreDriverOk, Update, RegistersStored, RingLayout
  <2>2. CASE ResetDevice
    BY <2>2 DEF ResetDevice, RegistersStored
  <2>3. Tick => UNCHANGED <<num, pfn, layout, up>>
    BY DEF Tick, driver
  <2>4. Publish \/ Notify \/ Handle \/ (\E h \in Heads, r \in Reqs : Fill(h, r)) \/ UNCHANGED vars
        => UNCHANGED <<num, pfn, layout, up>>
    BY DEF Publish, Notify, StoreNotify, Handle, ReadIsr, Ack, StoreAck, Reap, Reaped, Fill,
           vars, device, driver
  <2>5. UNCHANGED <<num, pfn, layout, up>> => RegistersStored'
    BY DEF RegistersStored
  <2> QED  BY <2>1, <2>2, <2>3, <2>4, <2>5 DEF Next
<1>3. RegistersStored => LayoutCurrent
  BY DEF RegistersStored, LayoutCurrent, Ready
<1> QED  BY <1>1, <1>2, <1>3, PTL DEF Spec

-----------------------------------------------------------------------------
LEMMA UnseenIsDistance == ASSUME TypeOK PROVE Unseen = {} <=> usedIdx = lastUsed
<1> DEFINE d == (usedIdx - lastUsed) % IdSpan
<1>1. IdSpan \in Nat \ {0} /\ usedIdx \in 0 .. (IdSpan - 1) /\ lastUsed \in 0 .. (IdSpan - 1)
  BY VirtioAssumption DEF VirtioAssumption, TypeOK, Indices
<1>2. d \in 0 .. (IdSpan - 1)
  <2>1. usedIdx - lastUsed \in Int
    BY <1>1
  <2> QED  BY <1>1, <2>1, Remainder
<1>3. d = 0 <=> usedIdx = lastUsed
  <2>1. usedIdx = lastUsed => usedIdx - lastUsed = 0
    BY <1>1
  <2> QED  BY <1>1, <2>1, NoDistance, SomeDistance
<1>4. Unseen = {k \in 0 .. (IdSpan - 1) : k < d}
  BY DEF Unseen
<1> HIDE DEF d
<1>5. Unseen = {} <=> d = 0
  <2>1. d # 0 => 0 \in Unseen
    BY <1>1, <1>2, <1>4
  <2>2. d = 0 => Unseen = {}
    BY <1>1, <1>4
  <2> QED  BY <2>1, <2>2
<1> QED  BY <1>3, <1>5

Announced == usedIdx # lastUsed => "used" \in isr \/ pc \in {"ack", "reap"}

(* The interrupt of a used entry stays up until the driver is at work on the
   used ring: neither a write to interrupt_ack nor a status write of 0 loses
   one (VirtioBlkDevice::access_disk, store). *)
THEOREM UnseenAreAnnounced == Spec => []UnseenIsAnnounced
<1>1. Init => Announced
  BY DEF Init, Announced
<1>2. TypeOK /\ Announced /\ [Next]_vars => Announced'
  <2> SUFFICES ASSUME TypeOK, Announced, [Next]_vars PROVE Announced'
    OBVIOUS
  <2>1. CASE Tick
    <3>1. CASE wait = 0
      <4>1. AccessDisk
        BY <2>1, <3>1 DEF Tick
      <4> QED  BY <4>1, AccessDiskType DEF Announced
    <3>2. CASE wait # 0
      BY <2>1, <3>2 DEF Tick, toDriver, driver, Announced
    <3> QED  BY <3>1, <3>2
  <2>2. CASE SetUp
    BY <2>2 DEF SetUp, StoreQueueNum, StoreQueuePfn, StoreDriverOk, toDriver, Announced
  <2>3. CASE ResetDevice
    BY <2>3 DEF ResetDevice, ZeroedRings, Announced
  <2>4. CASE Publish
    BY <2>4 DEF Publish, device, toDriver, Announced
  <2>5. CASE Notify
    BY <2>5 DEF Notify, StoreNotify, toDriver, Announced
  <2>6. CASE Handle
    BY <2>6 DEF Handle, ReadIsr, Ack, StoreAck, Reap, Reaped, device, toDriver, Announced
  <2>7. ASSUME NEW h \in Heads, NEW r \in Reqs, Fill(h, r) PROVE Announced'
    BY <2>7 DEF Fill, device, toDriver, Announced
  <2>8. CASE UNCHANGED vars
    BY <2>8 DEF vars, device, toDriver, driver, Announced
  <2> QED  BY <2>1, <2>2, <2>3, <2>4, <2>5, <2>6, <2>7, <2>8 DEF Next
<1>3. TypeOK /\ Announced => UnseenIsAnnounced
  BY UnseenIsDistance DEF Announced, UnseenIsAnnounced
<1> QED  BY <1>1, <1>2, <1>3, TypesHold, PTL DEF Spec

-----------------------------------------------------------------------------
(* One request in flight: there is none, it waits for its notification or
   for the end of the delay, or it has been served and not reaped.  With
   more, access_disk reads the ring one slot past the one published. *)

OneRequest == Depth = 1

Resting == req[0] = NoReq /\ wait = Idle /\ ~ kick /\ usedIdx = lastUsed

Waiting ==
  /\ req[0] # NoReq /\ desc[0] = req[0] /\ pc # "publish" /\ usedIdx = lastUsed
  /\ kick <=> wait = Idle

Served ==
  /\ req[0] # NoReq /\ pc # "publish" /\ wait = Idle /\ ~ kick
  /\ usedIdx = Bump(lastUsed)

OneInv ==
  /\ TypeOK /\ id = usedIdx
  /\ kick \in BOOLEAN
  /\ pc = "publish" => desc[0] \in Reqs
  /\ Resting \/ Waiting \/ Served

(* How often each request has been served, as ServesRequests counts: used
   entries from l to u of the ring *)
Count(u, l, entries) ==
  [h \in Heads |->
     Cardinality({k \in {k \in 0 .. (IdSpan - 1) : k < (u - l) % IdSpan} :
                    entries[(l + k) % QueueNum] = h})]
Done == Count(usedIdx, lastUsed, usedRing)

LEMMA OneHead == ASSUME OneRequest PROVE Heads = {0} /\ IdSpan \in Nat \ {0} /\ IdSpan > 1
BY VirtioAssumption DEF VirtioAssumption, OneRequest, Heads

LEMMA OneCount ==
  ASSUME OneRequest, NEW u \in Indices, NEW l \in Indices, NEW entries \in [RingSlots -> Heads]
  PROVE  /\ u = l => Count(u, l, entries) = [h \in {0} |-> 0]
         /\ u = Bump(l) => Count(u, l, entries) = [h \in {0} |-> 1]
<1> DEFINE new == {k \in 0 .. (IdSpan - 1) : k < (u - l) % IdSpan}
<1>1. /\ Heads = {0} /\ IdSpan \in Nat \ {0} /\ IdSpan > 1
      /\ u \in 0 .. (IdSpan - 1) /\ l \in 0 .. (IdSpan - 1)
  BY OneHead DEF Indices
<1>2. u = l => new = {}
  <2>1. u = l => (u - l) % IdSpan = 0
    <3>1. u = l => u - l = 0
      BY <1>1
    <3> QED  BY <1>1, <3>1, NoDistance
  <2> QED  BY <1>1, <2>1
<1>3. u = Bump(l) => new = {0}
  <2>1. u = Bump(l) => (u - l) % IdSpan = 1
    BY <1>1, NextDistance DEF Bump
  <2> QED  BY <1>1, <2>1
<1>4. \A k \in new : entries[(l + k) % QueueNum] = 0
  <2> SUFFICES ASSUME NEW k \in new PROVE entries[(l + k) % QueueNum] = 0
    OBVIOUS
  <2>1. l + k \in Int
    BY <1>1
  <2>2. (l + k) % QueueNum \in RingSlots
    BY <2>1, SlotIsInRing
  <2> QED  BY <1>1, <2>2
<1>5. Count(u, l, entries) = [h \in Heads |-> Cardinality({k \in new : entries[(l + k) % QueueNum] = h})]
  BY DEF Count
<1> HIDE DEF new
<1>6. {k \in new : entries[(l + k) % QueueNum] = 0} = new
  BY <1>4
<1>7. Count(u, l, entries) = [h \in {0} |-> Cardinality(new)]
  BY <1>1, <1>5, <1>6
<1>8. Cardinality({}) = 0 /\ Cardinality({0}) = 1
  BY FS_EmptySet, FS_Singleton
<1> QED  BY <1>2, <1>3, <1>7, <1>8

LEMMA OneInit == ASSUME OneRequest, Init PROVE OneInv
<1>1. req[0] = NoReq
  BY HeadZero DEF Init
<1> QED  BY <1>1, TypeInit DEF Init, OneInv, Resting

(* The tick that ends the delay serves the request that waits. *)
LEMMA OneServed ==
  ASSUME OneRequest, OneInv, Tick, wait = 0
  PROVE  Waiting /\ Store!ServeReq(0) /\ Served'
<1>1. TypeOK /\ Heads = {0} /\ 0 \in Heads
  BY OneHead DEF OneInv
<1>2. Waiting /\ ~ kick
  BY DEF OneInv, Resting, Served, Waiting, Idle
<1>3. AccessDisk /\ wait' = Idle /\ UNCHANGED <<req, desc, lastUsed, kick, pc, availIdx, ring>>
  BY DEF Tick, toDevice, driver
<1>4. ring[availIdx % QueueNum] = 0
  <2>1. availIdx % QueueNum \in RingSlots
    BY SlotIsInRing, VirtioAssumption DEF VirtioAssumption, OneInv, TypeOK, Indices
  <2> QED  BY <1>1, <2>1 DEF TypeOK
<1>5. usedIdx' = Bump(lastUsed')
  BY <1>2, <1>3 DEF AccessDisk, OneInv, Waiting
<1>6. Served'
  BY <1>2, <1>3, <1>5 DEF Served, Waiting
<1>7. Done = [h \in {0} |-> 0]
  BY <1>1, <1>2, OneCount DEF Waiting, Done, TypeOK
<1>8. Done' = [h \in {0} |-> 1]
  <2>1. TypeOK'
    BY <1>1, TypeTick
  <2>2. usedIdx' \in Indices /\ lastUsed' \in Indices /\ usedRing' \in [RingSlots -> Heads]
    BY <2>1 DEF TypeOK
  <2>3. Count(usedIdx', lastUsed', usedRing') = [h \in {0} |-> 1]
    BY <1>5, <2>2, OneCount DEF Bump
  <2> QED  BY <2>3 DEF Done
<1>9. req[0] \in Reqs /\ desc[0] = req[0] /\ req[0] # Store!NoReq
  BY <1>1, <1>2 DEF TypeOK, Waiting, NoReq, Store!NoReq
<1>10. /\ disk' = IF req[0].kind = "out" THEN [disk EXCEPT ![req[0].sector] = req[0].data] ELSE disk
       /\ buf' = IF req[0].kind = "in" THEN [buf EXCEPT ![0] = disk[req[0].sector]] ELSE buf
  BY <1>3, <1>4, <1>9 DEF AccessDisk
<1>11. req[0].kind = "in" <=> req[0].kind # "out"
  BY <1>9 DEF Reqs
<1>12. Done' = [Done EXCEPT ![0] = 1] /\ Done[0] = 0
  BY <1>7, <1>8
<1> QED  BY <1>2, <1>3, <1>6, <1>9, <1>10, <1>11, <1>12 DEF Store!ServeReq, Done, Count, Unseen

(* What the driver and the device do besides changes nothing of a request. *)
LEMMA OneUnserved ==
  ASSUME OneInv,
         \/ Tick /\ wait # 0
         \/ SetUp \/ Notify \/ ReadIsr \/ Ack \/ Reaped
         \/ \E h \in Heads, r \in Reqs : Fill(h, r)
         \/ UNCHANGED vars
  PROVE  UNCHANGED <<req, Done, disk, buf>>
<1>1. CASE Tick /\ wait # 0
  BY <1>1 DEF Tick, toDriver, driver, Done
<1>2. CASE SetUp
  BY <1>2 DEF SetUp, StoreQueueNum, StoreQueuePfn, StoreDriverOk, toDriver, Done
<1>3. CASE Notify
  BY <1>3 DEF Notify, StoreNotify, toDriver, Done
<1>4. CASE ReadIsr \/ Ack \/ Reaped
  BY <1>4 DEF ReadIsr, Ack, StoreAck, Reaped, device, toDriver, Done
<1>5. CASE \E h \in Heads, r \in Reqs : Fill(h, r)
  BY <1>5 DEF Fill, device, toDriver, Done
<1>6. CASE UNCHANGED vars
  BY <1>6 DEF vars, device, toDriver, driver, Done
<1> QED  BY <1>1, <1>2, <1>3, <1>4, <1>5, <1>6

LEMMA OnePublished ==
  ASSUME OneRequest, OneInv, Publish PROVE OneInv' /\ Store!Submit(0, desc[0]) /\ desc[0] \in Reqs
<1>1. TypeOK /\ Heads = {0} /\ 0 \in Heads
  BY OneHead DEF OneInv
<1>2. Resting /\ desc[0] \in Reqs
  BY DEF Publish, OneInv, Waiting, Served
<1>3. ring[availIdx % QueueNum] = 0
  <2>1. availIdx % QueueNum \in RingSlots
    BY SlotIsInRing, VirtioAssumption DEF VirtioAssumption, OneInv, TypeOK, Indices
  <2> QED  BY <1>1, <2>1 DEF TypeOK
<1>4. /\ req' = [req EXCEPT ![0] = desc[0]] /\ pc' = "idle" /\ kick' = TRUE
      /\ UNCHANGED <<wait, id, disk, buf, usedIdx, usedRing, lastUsed, desc>>
  BY <1>3 DEF Publish, device, toDriver
<1>5. TypeOK'
  BY <1>1, TypePublish
<1>6. req'[0] = desc[0] /\ desc[0] # NoReq
  BY <1>1, <1>2, <1>4 DEF TypeOK, Reqs, NoReq
<1>7. Waiting'
  BY <1>2, <1>4, <1>6 DEF Resting, Waiting
<1>8. OneInv'
  BY <1>4, <1>5, <1>7 DEF OneInv
<1>9. Done = [h \in {0} |-> 0] /\ Done' = Done
  BY <1>1, <1>2, <1>4, OneCount DEF Resting, Done, TypeOK
<1>10. Done[0] = 0
  BY <1>9
<1> QED  BY <1>2, <1>4, <1>8, <1>9, <1>10 DEF Store!Submit, Store!NoReq, NoReq, Resting, Done, Count, Unseen

LEMMA OneReaped == ASSUME OneRequest, OneInv, Reap PROVE OneInv' /\ Store!ReapReq(0)
<1>1. TypeOK /\ Heads = {0} /\ 0 \in Heads
  BY OneHead DEF OneInv
<1>2. Served
  BY DEF Reap, OneInv, Resting, Waiting
<1>3. usedRing[lastUsed % QueueNum] = 0
  <2>1. lastUsed % QueueNum \in RingSlots
    BY SlotIsInRing, VirtioAssumption DEF VirtioAssumption, OneInv, TypeOK, Indices
  <2> QED  BY <1>1, <2>1 DEF TypeOK
<1>4. /\ req' = [req EXCEPT ![0] = NoReq] /\ lastUsed' = usedIdx' /\ pc' = "reap"
      /\ UNCHANGED <<wait, id, disk, buf, usedIdx, usedRing, desc, kick>>
  BY <1>2, <1>3 DEF Reap, Served, Bump, device, toDevice, toDriver
<1>5. TypeOK'
  BY <1>1, TypeHandle DEF Handle
<1>6. Resting'
  BY <1>1, <1>2, <1>4 DEF TypeOK, Resting, Served
<1>7. OneInv'
  BY <1>4, <1>5, <1>6 DEF OneInv
<1>8. Done = [h \in {0} |-> 1]
  BY <1>1, <1>2, OneCount DEF Served, Done, TypeOK
<1>9. Done' = [h \in {0} |-> 0]
  <2>1. usedIdx' \in Indices /\ lastUsed' \in Indices /\ usedRing' \in [RingSlots -> Heads]
    BY <1>5 DEF TypeOK
  <2>2. Count(usedIdx', lastUsed', usedRing') = [h \in {0} |-> 0]
    BY <1>4, <2>1, OneCount
  <2> QED  BY <2>2 DEF Done
<1>10. Done[0] = 1 /\ Done' = [Done EXCEPT ![0] = 0]
  BY <1>8, <1>9
<1> QED  BY <1>4, <1>7, <1>10 DEF Store!ReapReq, Store!NoReq, NoReq, Done, Count, Unseen

LEMMA OneAbandoned == ASSUME OneRequest, OneInv, ResetDevice PROVE OneInv' /\ Store!Abandon
<1>1. TypeOK /\ Heads = {0} /\ 0 \in Heads
  BY OneHead DEF OneInv
<1>2. Resting
  BY <1>1 DEF ResetDevice, OneInv, Waiting, Served
<1>3. /\ req' = [h \in Heads |-> NoReq] /\ lastUsed' = 0 /\ usedIdx' = 0 /\ id' = 0 /\ kick' = FALSE
      /\ pc' = "idle" /\ UNCHANGED <<wait, disk, buf>>
  BY DEF ResetDevice, StoreReset, ZeroedRings
<1>4. TypeOK'
  BY <1>1, TypeReset
<1>5. OneInv'
  BY <1>1, <1>2, <1>3, <1>4 DEF OneInv, Resting
<1>6. Done' = [h \in Heads |-> 0]
  <2>1. usedIdx' \in Indices /\ lastUsed' \in Indices /\ usedRing' \in [RingSlots -> Heads]
    BY <1>4 DEF TypeOK
  <2>2. Count(usedIdx', lastUsed', usedRing') = [h \in {0} |-> 0]
    BY <1>3, <2>1, OneCount
  <2> QED  BY <1>1, <2>2 DEF Done
<1> QED  BY <1>3, <1>5, <1>6 DEF Store!Abandon, Store!NoReq, NoReq, Done, Count, Unseen

LEMMA OneStep ==
  ASSUME OneRequest, OneInv, [Next]_vars
  PROVE  OneInv' /\ [Store!BlockNext]_<<req, Done, disk, buf>>
<1>1. TypeOK' /\ Heads = {0} /\ 0 \in Heads
  BY TypeNext, OneHead DEF OneInv
<1>2. CASE Tick /\ wait = 0
  <2>1. Store!ServeReq(0) /\ Served'
    BY <1>2, OneServed
  <2>2. OneInv'
    BY <1>1, <1>2, <2>1 DEF OneInv, Tick, AccessDisk, driver, toDevice
  <2> QED  BY <1>1, <2>1, <2>2 DEF Store!BlockNext
<1>3. CASE Publish
  <2>1. OneInv' /\ Store!Submit(0, desc[0]) /\ desc[0] \in Store!Reqs
    BY <1>3, OnePublished DEF Reqs, Store!Reqs
  <2> QED  BY <1>1, <2>1 DEF Store!BlockNext
<1>4. CASE Reap
  BY <1>1, <1>4, OneReaped DEF Store!BlockNext
<1>5. CASE ResetDevice
  BY <1>5, OneAbandoned DEF Store!BlockNext
<1>6. CASE Tick /\ wait # 0
  <2>1. /\ wait' = IF wait = Idle THEN Idle ELSE wait - 1
        /\ UNCHANGED <<id, usedIdx, lastUsed, req, desc, pc, kick>>
    BY <1>6 DEF Tick, toDriver, toDevice, driver
  <2>2. wait' = Idle <=> wait = Idle
    BY <1>6, <2>1, VirtioAssumption DEF OneInv, TypeOK, Idle, VirtioAssumption
  <2>3. OneInv'
    BY <1>1, <2>1, <2>2 DEF OneInv, Resting, Waiting, Served
  <2> QED  BY <1>6, <2>3, OneUnserved
<1>7. CASE Notify
  <2>1. Waiting
    BY <1>7 DEF Notify, OneInv, Resting, Served
  <2>2. wait' = Delay /\ kick' = FALSE /\ UNCHANGED <<id, usedIdx, lastUsed, req, desc, pc>>
    BY <1>7 DEF Notify, StoreNotify, toDriver, toDevice
  <2>3. wait' # Idle /\ ~ kick' /\ kick' \in BOOLEAN
    <3>1. wait' # Idle
      BY <2>2, VirtioAssumption DEF Idle, VirtioAssumption
    <3>2. ~ kick' /\ kick' \in BOOLEAN
      BY <2>2, Zenon
    <3> QED  BY <3>1, <3>2
  <2>4. Waiting'
    BY <2>1, <2>2, <2>3 DEF Waiting
  <2>5. OneInv'
    BY <1>1, <2>1, <2>2, <2>3, <2>4 DEF OneInv, Waiting
  <2> QED  BY <1>7, <2>5, OneUnserved
<1>8. CASE SetUp \/ ReadIsr \/ Ack \/ Reaped \/ UNCHANGED vars
  <2>1. UNCHANGED <<wait, id, usedIdx, lastUsed, req, desc, kick>> /\ (pc' = pc \/ pc' # "publish")
    BY <1>8 DEF SetUp, StoreQueueNum, StoreQueuePfn, StoreDriverOk, ReadIsr, Ack, StoreAck, Reaped,
                vars, device, toDevice, toDriver, driver
  <2>2. OneInv'
    BY <1>1, <2>1 DEF OneInv, Resting, Waiting, Served
  <2> QED  BY <1>8, <2>2, OneUnserved
<1>9. ASSUME NEW h \in Heads, NEW r \in Reqs, Fill(h, r)
      PROVE  OneInv' /\ [Store!BlockNext]_<<req, Done, disk, buf>>
  <2>1. h = 0 /\ req[0] = NoReq /\ desc' = [desc EXCEPT ![h] = r]
        /\ UNCHANGED <<wait, id, usedIdx, lastUsed, req, kick>>
    BY <1>1, <1>9 DEF Fill, FreeHead, device, toDriver
  <2>2. desc'[0] = r
    BY <1>1, <2>1 DEF OneInv, TypeOK
  <2>3. OneInv'
    BY <1>1, <2>1, <2>2 DEF OneInv, Resting, Waiting, Served
  <2> QED  BY <1>9, <2>3, OneUnserved
<1> QED  BY <1>2, <1>3, <1>4, <1>5, <1>6, <1>7, <1>8, <1>9 DEF Next, Handle

(* README.md:31, "VIRTIO MMIO": with one request in flight, the ring, its
   wrapping indices, the delay and the interrupt together make a block store:
   each request that was published is served once, with the sector and data
   it was published with, and no other is. *)
THEOREM RequestsAreServed == OneRequest => (Spec => ServesRequests)
<1> SUFFICES ASSUME OneRequest PROVE Spec => ServesRequests
  OBVIOUS
<1>1. Init => OneInv
  BY OneInit
<1>2. OneInv /\ [Next]_vars => OneInv' /\ [Store!BlockNext]_<<req, Done, disk, buf>>
  BY OneStep
<1>3. Init => Store!BlockInit
  <2> SUFFICES ASSUME Init PROVE Store!BlockInit
    OBVIOUS
  <2>1. OneInv /\ usedIdx = lastUsed
    BY OneInit DEF Init
  <2>2. Done = [h \in Heads |-> 0]
    BY <2>1, OneHead, OneCount DEF OneInv, TypeOK, Done
  <2> QED  BY <2>1, <2>2 DEF Init, OneInv, TypeOK, Store!BlockInit, Store!NoReq, NoReq, Done, Count, Unseen
<1>4. [Store!BlockNext]_<<req, Done, disk, buf>> =>
        [Store!BlockNext]_<<req, [h \in Heads |->
                             Cardinality({k \in Unseen : usedRing[(lastUsed + k) % QueueNum] = h})], disk, buf>>
  BY DEF Done, Count, Unseen
<1> QED  BY <1>1, <1>2, <1>3, <1>4, PTL DEF Spec, ServesRequests, Store!BlockSpec
=============================================================================
