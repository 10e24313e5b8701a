----------------------------- MODULE VirtioBlk ------------------------------
(***************************************************************************)
(* The legacy virtio block device: its queue in guest memory, the delay    *)
(* between a notification and its service, its interrupt, and the driver.  *)
(*                                                                         *)
(* The driver is the guest's: it is modelled from the registers and rings  *)
(* the device uses.  It takes the lowest free descriptor, fills its ring   *)
(* slot, publishes the index, notifies, and on an interrupt reads the      *)
(* status, acknowledges what it read and reaps the used ring.              *)
(* A chain of three descriptors is one record, its buffer one value.       *)
(***************************************************************************)
EXTENDS Integers, FiniteSets

CONSTANTS
  Depth,          \* requests the driver keeps in flight
  QueueNum,       \* entries of the rings
  IdSpan,         \* ring indices count modulo this, 2^16 in the code
  Delay,          \* disk_delay, 500 in the code
  Sectors, Data

ASSUME VirtioAssumption ==
  /\ Depth \in Nat \ {0} /\ QueueNum \in Nat \ {0}
  /\ IdSpan \in Nat \ {0} /\ IdSpan % QueueNum = 0 /\ Depth < IdSpan
  /\ Delay \in Nat
  /\ Sectors \subseteq Nat /\ 0 \in Sectors /\ Data \subseteq Nat /\ 0 \in Data

VARIABLES
  num, pfn,                     \* queue registers
  layout,                       \* the registers vq was last computed from
  wait,                         \* ticks until the notified queue is served
  isr, id, disk,                \* interrupt status, used index, the image
  availIdx, ring, desc,         \* memory the driver writes
  usedIdx, usedRing, buf,       \* memory the device writes
  up, req, lastUsed, pc, seen, kick   \* the driver

device == <<num, pfn, layout, wait, isr, id, disk>>
toDevice == <<availIdx, ring, desc>>
toDriver == <<usedIdx, usedRing, buf>>
driver == <<up, req, lastUsed, pc, seen, kick>>
vars == <<device, toDevice, toDriver, driver>>

Idle == -1
Heads == 0 .. (Depth - 1)
RingSlots == 0 .. (QueueNum - 1)
Indices == 0 .. (IdSpan - 1)
RingPfn == 1
RingLayout == [num |-> QueueNum, pfn |-> RingPfn]

(* Bit 0 of the interrupt status, and its seven other bits *)
IsrBits == {"used", "config"}

NoReq == [kind |-> "none", sector |-> 0, data |-> 0]
Reqs == [kind : {"in", "out"}, sector : Sectors, data : Data]

ZeroedRings ==
  /\ availIdx' = 0 /\ ring' = [s \in RingSlots |-> 0] /\ desc' = [h \in Heads |-> NoReq]
  /\ usedIdx' = 0 /\ usedRing' = [s \in RingSlots |-> 0]

Init ==
  /\ num = 0 /\ pfn = 0 /\ layout = [num |-> 0, pfn |-> 0]
  /\ wait = Idle /\ isr = {} /\ id = 0
  /\ disk = [s \in Sectors |-> 0]
  /\ availIdx = 0 /\ ring = [s \in RingSlots |-> 0] /\ desc = [h \in Heads |-> NoReq]
  /\ usedIdx = 0 /\ usedRing = [s \in RingSlots |-> 0] /\ buf = [h \in Heads |-> 0]
  /\ up = {} /\ req = [h \in Heads |-> NoReq] /\ lastUsed = 0
  /\ pc = "idle" /\ seen = {} /\ kick = FALSE

-----------------------------------------------------------------------------
(* The device *)

(* mutant: the 16-bit counter does not wrap *)
BumpWide(i) == i + 1

Bump(i) == (i + 1) % IdSpan

(* mutant: no interrupt *)
AccessDiskQuiet ==
  LET h == ring[availIdx % QueueNum]
      r == desc[h]
  IN /\ disk' = IF r.kind = "out" THEN [disk EXCEPT ![r.sector] = r.data] ELSE disk
     /\ buf' = IF r.kind = "in" THEN [buf EXCEPT ![h] = disk[r.sector]] ELSE buf
     /\ usedRing' = [usedRing EXCEPT ![id % QueueNum] = h]
     /\ id' = Bump(id)
     /\ usedIdx' = Bump(id)
     /\ UNCHANGED isr

(* One request is served: the one whose ring slot the published index
   points at.  Descriptors that were never filled are all zero. *)
AccessDisk ==
  LET h == ring[availIdx % QueueNum]
      r == desc[h]
  IN /\ disk' = IF r.kind = "out" THEN [disk EXCEPT ![r.sector] = r.data] ELSE disk
     /\ buf' = IF r.kind = "in" THEN [buf EXCEPT ![h] = disk[r.sector]] ELSE buf
     /\ usedRing' = [usedRing EXCEPT ![id % QueueNum] = h]
     /\ id' = Bump(id)
     /\ usedIdx' = Bump(id)
     /\ isr' = isr \cup {"used"}

Tick ==
  /\ IF wait = 0
     THEN AccessDisk /\ wait' = Idle
     ELSE /\ wait' = IF wait = Idle THEN Idle ELSE wait - 1
          /\ UNCHANGED <<isr, id, disk, toDriver>>
  /\ UNCHANGED <<num, pfn, layout, toDevice, driver>>

(* Register stores.  update() takes the layout from the registers. *)
Update(n, p) == layout' = [num |-> n, pfn |-> p]

StoreQueueNum(n) == num' = n /\ UNCHANGED <<pfn, layout, wait, isr, id, disk>>

(* mutant: the layout is left to the status write *)
StoreQueuePfnOnly(p) == pfn' = p /\ UNCHANGED <<num, layout, wait, isr, id, disk>>

StoreQueuePfn(p) == pfn' = p /\ Update(num, p) /\ UNCHANGED <<num, wait, isr, id, disk>>

StoreDriverOk == Update(num, pfn) /\ UNCHANGED <<num, pfn, wait, isr, id, disk>>

(* mutant: the used index survives *)
StoreResetKeepsId == isr' = {} /\ UNCHANGED <<num, pfn, layout, wait, id, disk>>

(* Status 0: a notification still waiting is not called off *)
StoreReset == id' = 0 /\ isr' = {} /\ UNCHANGED <<num, pfn, layout, wait, disk>>

(* A second notification before the first is served starts the delay anew *)
StoreNotify == wait' = Delay /\ UNCHANGED <<num, pfn, layout, isr, id, disk>>

(* isr becomes the complement of what is written *)
StoreAck(v) == isr' = IsrBits \ v /\ UNCHANGED <<num, pfn, layout, wait, id, disk>>

-----------------------------------------------------------------------------
(* The driver *)

Ready == up = {"num", "pfn", "ok"}

SetUp ==
  /\ pc = "idle"
  /\ \/ "num" \notin up /\ StoreQueueNum(QueueNum) /\ up' = up \cup {"num"}
     \/ "num" \in up /\ "pfn" \notin up /\ StoreQueuePfn(RingPfn) /\ up' = up \cup {"pfn"}
     \/ "ok" \notin up /\ StoreDriverOk /\ up' = up \cup {"ok"}
  /\ UNCHANGED <<toDevice, toDriver, req, lastUsed, pc, seen, kick>>

(* The driver resets the device when it has no request in flight. *)
ResetDevice ==
  /\ pc = "idle" /\ Ready
  /\ \A h \in Heads : req[h] = NoReq
  /\ StoreReset
  /\ ZeroedRings /\ UNCHANGED buf
  /\ up' = {} /\ req' = [h \in Heads |-> NoReq] /\ lastUsed' = 0 /\ kick' = FALSE
  /\ UNCHANGED <<pc, seen>>

FreeHead(h) == req[h] = NoReq /\ \A g \in Heads : req[g] = NoReq => h <= g

(* Descriptors and ring slot first, the index when they are in memory *)
Fill(h, r) ==
  /\ pc = "idle" /\ Ready
  /\ FreeHead(h)
  /\ desc' = [desc EXCEPT ![h] = r]
  /\ ring' = [ring EXCEPT ![availIdx % QueueNum] = h]
  /\ pc' = "publish"
  /\ UNCHANGED <<device, availIdx, toDriver, up, req, lastUsed, seen, kick>>

Publish ==
  LET h == ring[availIdx % QueueNum]
  IN /\ pc = "publish"
     /\ availIdx' = (availIdx + 1) % IdSpan
     /\ req' = [req EXCEPT ![h] = desc[h]]
     /\ pc' = "idle" /\ kick' = TRUE
     /\ UNCHANGED <<device, ring, desc, toDriver, up, lastUsed, seen>>

(* Requests published together may share a notification *)
Notify ==
  /\ pc = "idle" /\ kick
  /\ StoreNotify
  /\ kick' = FALSE
  /\ UNCHANGED <<toDevice, toDriver, up, req, lastUsed, pc, seen>>

ReadIsr ==
  /\ pc = "idle" /\ "used" \in isr
  /\ seen' = isr
  /\ pc' = "ack"
  /\ UNCHANGED <<device, toDevice, toDriver, up, req, lastUsed, kick>>

Ack ==
  /\ pc = "ack"
  /\ StoreAck(seen)
  /\ pc' = "reap" /\ seen' = {}
  /\ UNCHANGED <<toDevice, toDriver, up, req, lastUsed, kick>>

Reap ==
  /\ pc = "reap" /\ lastUsed # usedIdx
  /\ req' = [req EXCEPT ![usedRing[lastUsed % QueueNum]] = NoReq]
  /\ lastUsed' = (lastUsed + 1) % IdSpan
  /\ UNCHANGED <<device, toDevice, toDriver, up, pc, seen, kick>>

Reaped ==
  /\ pc = "reap" /\ lastUsed = usedIdx
  /\ pc' = "idle"
  /\ UNCHANGED <<device, toDevice, toDriver, up, req, lastUsed, seen, kick>>

Handle == ReadIsr \/ Ack \/ Reap \/ Reaped

Next ==
  \/ Tick \/ SetUp \/ ResetDevice \/ Publish \/ Notify \/ Handle
  \/ \E h \in Heads, r \in Reqs : Fill(h, r)

(* The loop ticks the device at every instruction; the driver finishes what
   it has begun and answers interrupts. *)
Spec == Init /\ [][Next]_vars
FairSpec == Spec /\ WF_vars(Tick) /\ WF_vars(Publish \/ Notify) /\ WF_vars(Handle)

-----------------------------------------------------------------------------
TypeOK ==
  /\ num \in {0, QueueNum} /\ pfn \in {0, RingPfn} /\ wait \in Idle .. Delay
  /\ isr \subseteq IsrBits /\ id \in Indices /\ disk \in [Sectors -> Data]
  /\ availIdx \in Indices /\ ring \in [RingSlots -> Heads]
  /\ desc \in [Heads -> Reqs \cup {NoReq}] /\ req \in [Heads -> Reqs \cup {NoReq}]
  /\ usedIdx \in Indices /\ usedRing \in [RingSlots -> Heads] /\ buf \in [Heads -> Data]
  /\ lastUsed \in Indices /\ pc \in {"idle", "publish", "ack", "reap"}

(* Entries of the used ring the driver has not seen *)
Unseen == {k \in 0 .. (IdSpan - 1) : k < (usedIdx - lastUsed) % IdSpan}

Store == INSTANCE BlockStore WITH
  done <- [h \in Heads |->
             Cardinality({k \in Unseen : usedRing[(lastUsed + k) % QueueNum] = h})]

(* README.md:31, "VIRTIO MMIO": the queue, its indices and its delay together
   serve every request that was published once, and no other
   (VirtioBlkDevice::access_disk, tick, store). *)
ServesRequests == Store!BlockSpec

(* A used entry the driver has not seen keeps the interrupt up, whatever the
   driver acknowledged before. *)
UnseenIsAnnounced == Unseen # {} => "used" \in isr \/ pc \in {"ack", "reap"}

(* update(): once the driver has set the queue up, the device looks for it
   where the registers say, in either order of queue_pfn and DRIVER_OK. *)
LayoutCurrent == Ready => layout = RingLayout

(* README.md:31: every request is answered. *)
EveryRequestAnswered == \A h \in Heads : (req[h] # NoReq) ~> (req[h] = NoReq)
=============================================================================
