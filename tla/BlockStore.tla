---------------------------- MODULE BlockStore -----------------------------
(***************************************************************************)
(* What a block device promises its driver: every request that has been    *)
(* made is served once, in whatever order, and nothing else is.            *)
(***************************************************************************)
EXTENDS Integers

CONSTANTS Heads, Sectors, Data

NoReq == [kind |-> "none", sector |-> 0, data |-> 0]
Reqs == [kind : {"in", "out"}, sector : Sectors, data : Data]

VARIABLES
  req,    \* the request made through each head
  done,   \* how often it has been served since
  disk,
  buf     \* what the last read through each head returned

BlockInit ==
  /\ req = [h \in Heads |-> NoReq]
  /\ done = [h \in Heads |-> 0]
  /\ disk \in [Sectors -> Data]
  /\ buf \in [Heads -> Data]

Submit(h, r) ==
  /\ req[h] = NoReq /\ done[h] = 0
  /\ req' = [req EXCEPT ![h] = r]
  /\ UNCHANGED <<done, disk, buf>>

ServeReq(h) ==
  /\ req[h] # NoReq /\ done[h] = 0
  /\ done' = [done EXCEPT ![h] = 1]
  /\ IF req[h].kind = "out"
     THEN disk' = [disk EXCEPT ![req[h].sector] = req[h].data] /\ UNCHANGED buf
     ELSE buf' = [buf EXCEPT ![h] = disk[req[h].sector]] /\ UNCHANGED disk
  /\ UNCHANGED req

ReapReq(h) ==
  /\ done[h] = 1
  /\ req' = [req EXCEPT ![h] = NoReq]
  /\ done' = [done EXCEPT ![h] = 0]
  /\ UNCHANGED <<disk, buf>>

(* The driver gives the device up, and its requests with it *)
Abandon ==
  /\ req' = [h \in Heads |-> NoReq]
  /\ done' = [h \in Heads |-> 0]
  /\ UNCHANGED <<disk, buf>>

BlockNext ==
  \/ \E h \in Heads : (\E r \in Reqs : Submit(h, r)) \/ ServeReq(h) \/ ReapReq(h)
  \/ Abandon

BlockSpec == BlockInit /\ [][BlockNext]_<<req, done, disk, buf>>
=============================================================================
