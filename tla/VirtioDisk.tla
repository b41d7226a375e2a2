----------------------------- MODULE VirtioDisk -----------------------------
(***************************************************************************)
(* The disk driver of kernel/virtio_disk.c and the device it drives through *)
(* a ring of descriptors.                                                   *)
(*                                                                         *)
(* disk.vdisk_lock is held from the allocation of the descriptors to the    *)
(* sleep, and through virtio_disk_intr; the device does not know it, so the *)
(* publication of a request is a separate action, and so is each turn of    *)
(* the interrupt handler's loop.  What is dead is shown as empty: a ring    *)
(* entry that was consumed, and what describes a request that returned.     *)
(***************************************************************************)
EXTENDS Naturals, FiniteSets

CONSTANTS
  Proc,       \* each calls virtio_disk_rw with a buffer of its own
  Block, Val, NoProc,
  NUM,        \* descriptors
  IDX         \* the ring indices count modulo IDX (2^16 in the code)

VirtioAssumption ==
  /\ NUM \in Nat /\ NUM >= 3 /\ IDX \in Nat /\ IDX > NUM /\ IDX % NUM = 0
  /\ NoProc \notin Proc

D == 0..NUM-1

VARIABLES
  free,                \* disk.free
  desc,                \* disk.desc: the buffer, and the next in the chain
  ops, info, status,   \* disk.ops, disk.info[].b and disk.info[].status
  avail, availidx,     \* the ring of requests
  used, usedidx,       \* the ring of completions
  used_idx,            \* what the driver has looked at of it
  taken, inflight,     \* the device: what it has looked at, and works on
  irq,                 \* its interrupt is asserted
  intr,                \* virtio_disk_intr is running and has the lock
  disk,                \* the blocks
  pc, req, head,       \* a process in virtio_disk_rw, its request and idx[0]
  busy, data,          \* b->disk and b->data of its buffer
  panicked

ring == <<avail, availidx>>
done == <<used, usedidx>>
device == <<taken, inflight>>
chain == <<free, desc, ops, info>>
vars == <<chain, status, ring, done, used_idx, device, irq, intr, disk, pc,
          req, head, busy, data, panicked>>

Request == [block : Block, write : BOOLEAN]
NoReq == [block |-> NoProc, write |-> FALSE]
NoDesc == [buf |-> NoProc, next |-> 0, more |-> FALSE]

\* After virtio_disk_init: the rings are zeroed and every descriptor is free.
Init ==
  /\ free = D /\ desc = [i \in D |-> NoDesc]
  /\ ops = [i \in D |-> NoReq] /\ req = [p \in Proc |-> NoReq]
  /\ \E v \in Val :
       /\ disk = [b \in Block |-> v] /\ data = [p \in Proc |-> v]
  /\ info = [i \in D |-> NoProc] /\ status = [i \in D |-> "ok"]
  /\ avail = [i \in D |-> 0] /\ used = [i \in D |-> 0]
  /\ availidx = 0 /\ usedidx = 0 /\ used_idx = 0
  /\ taken = 0 /\ inflight = {} /\ irq = FALSE /\ intr = FALSE
  /\ pc = [p \in Proc |-> "out"] /\ head = [p \in Proc |-> 0]
  /\ busy = [p \in Proc |-> FALSE]
  /\ panicked = FALSE

Locked == intr \/ \E p \in Proc : pc[p] = "filled"

Inc(i) == (i + 1) % IDX

Lowest(S) == CHOOSE i \in S : \A j \in S : i <= j

\* Mutant: free_desc() does not call wakeup().
Woken_None == pc

\* wakeup(&disk.free[0])
Woken == [p \in Proc |-> IF pc[p] = "nodesc" THEN "alloc" ELSE pc[p]]

----------------------------------------------------------------------------
(* virtio_disk_rw *)

Call(p, r, v) ==
  /\ pc[p] = "out"
  /\ pc' = [pc EXCEPT ![p] = "alloc"]
  /\ req' = [req EXCEPT ![p] = r]
  /\ data' = [data EXCEPT ![p] = IF r.write THEN v ELSE @]
  /\ UNCHANGED <<chain, status, ring, done, used_idx, device, irq, intr, disk,
                 head, busy, panicked>>

\* Mutant: info[].status is left as the last request on it left it.
NewStatus_Kept(i) == status
NewStatus(i) == [status EXCEPT ![i] = "pending"]

Allocated(i, j, k) == {i, j, k}

\* alloc3_desc() succeeds; the chain is formatted and put into the ring.
virtio_disk_start(p) ==
  LET i == Lowest(free)
      j == Lowest(free \ {i})
      k == Lowest(free \ {i, j})
  IN  /\ pc[p] = "alloc" /\ ~Locked /\ Cardinality(free) >= 3
      /\ free' = free \ Allocated(i, j, k)
      /\ desc' = [desc EXCEPT
           ![i] = [buf |-> NoProc, next |-> j, more |-> TRUE],
           ![j] = [buf |-> p, next |-> k, more |-> TRUE],
           ![k] = [buf |-> NoProc, next |-> 0, more |-> FALSE]]
      /\ ops' = [ops EXCEPT ![i] = req[p]]
      /\ info' = [info EXCEPT ![i] = p]
      /\ status' = NewStatus(i)
      /\ avail' = [avail EXCEPT ![availidx % NUM] = i]
      /\ busy' = [busy EXCEPT ![p] = TRUE]
      /\ head' = [head EXCEPT ![p] = i]
      /\ pc' = [pc EXCEPT ![p] = "filled"]
      /\ UNCHANGED <<availidx, done, used_idx, device, irq, intr, disk, req,
                     data, panicked>>

\* alloc3_desc() fails.  What it had allocated goes back through free_desc(),
\* which wakes the other waiters; then sleep(&disk.free[0]).
virtio_disk_nodesc(p) ==
  /\ pc[p] = "alloc" /\ ~Locked /\ Cardinality(free) < 3
  /\ desc' = [i \in D |-> IF i \in free THEN NoDesc ELSE desc[i]]
  /\ pc' = [(IF free = {} THEN pc ELSE Woken) EXCEPT ![p] = "nodesc"]
  /\ UNCHANGED <<free, ops, info, status, ring, done, used_idx, device, irq,
                 intr, disk, req, head, busy, data, panicked>>

\* avail->idx += 1, the notification, and sleep(b): the lock is still held,
\* so b->disk is 1.
virtio_disk_publish(p) ==
  /\ pc[p] = "filled"
  /\ availidx' = Inc(availidx)
  /\ pc' = [pc EXCEPT ![p] = "wait"]
  /\ UNCHANGED <<chain, status, avail, done, used_idx, device, irq, intr, disk,
                 req, head, busy, data, panicked>>

\* The descriptors free_chain(i) visits.
Chain(i) ==
  LET j == desc[i].next  k == desc[j].next
  IN  IF ~desc[i].more THEN {i} ELSE IF ~desc[j].more THEN {i, j}
      ELSE {i, j, k}

\* The process runs again.
virtio_disk_end(p) ==
  /\ pc[p] = "back" /\ ~Locked
  /\ IF busy[p]
     THEN /\ pc' = [pc EXCEPT ![p] = "wait"]
          /\ UNCHANGED <<chain, req, head, panicked>>
     ELSE /\ info' = [info EXCEPT ![head[p]] = NoProc]
          /\ panicked' = (panicked \/ Chain(head[p]) \cap free # {})
          /\ free' = free \cup Chain(head[p])
          /\ desc' = [i \in D |->
                        IF i \in Chain(head[p]) THEN NoDesc ELSE desc[i]]
          /\ pc' = [Woken EXCEPT ![p] = "out"]
          /\ ops' = [ops EXCEPT ![head[p]] = NoReq]
          /\ req' = [req EXCEPT ![p] = NoReq]
          /\ head' = [head EXCEPT ![p] = 0]
  /\ UNCHANGED <<status, ring, done, used_idx, device, irq, intr, disk, busy,
                 data>>

----------------------------------------------------------------------------
(* The device: takes requests from the ring, performs them in any order.    *)

device_take ==
  /\ taken # availidx
  /\ inflight' = inflight \cup {avail[taken % NUM]}
  /\ avail' = [avail EXCEPT ![taken % NUM] = 0]
  /\ taken' = Inc(taken)
  /\ UNCHANGED <<chain, status, availidx, done, used_idx, irq, intr, disk, pc,
                 req, head, busy, data, panicked>>

device_complete(h) ==
  LET b == desc[desc[h].next].buf IN
  /\ h \in inflight
  /\ inflight' = inflight \ {h}
  /\ IF b = NoProc THEN UNCHANGED <<disk, data>>
     ELSE IF ops[h].write
     THEN disk' = [disk EXCEPT ![ops[h].block] = data[b]] /\ UNCHANGED data
     ELSE data' = [data EXCEPT ![b] = disk[ops[h].block]] /\ UNCHANGED disk
  /\ status' = [status EXCEPT ![h] = "ok"]
  /\ used' = [used EXCEPT ![usedidx % NUM] = h]
  /\ usedidx' = Inc(usedidx)
  /\ irq' = TRUE
  /\ UNCHANGED <<chain, ring, used_idx, taken, intr, pc, req, head, busy,
                 panicked>>

----------------------------------------------------------------------------
(* virtio_disk_intr *)

\* acquire, and the acknowledgement.
virtio_disk_intr ==
  /\ irq /\ ~Locked
  /\ irq' = FALSE
  /\ intr' = TRUE
  /\ UNCHANGED <<chain, status, ring, done, used_idx, device, disk, pc, req,
                 head, busy, data, panicked>>

Id == used[used_idx % NUM]

intr_entry ==
  /\ intr /\ used_idx # usedidx
  /\ IF status[Id] # "ok" \/ info[Id] = NoProc
     THEN panicked' = TRUE /\ UNCHANGED <<busy, pc>>
     ELSE /\ busy' = [busy EXCEPT ![info[Id]] = FALSE]
          /\ pc' = [pc EXCEPT ![info[Id]] = IF @ = "wait" THEN "back" ELSE @]
          /\ UNCHANGED panicked
  /\ used' = [used EXCEPT ![used_idx % NUM] = 0]
  /\ used_idx' = Inc(used_idx)
  /\ UNCHANGED <<chain, status, ring, usedidx, device, irq, intr, disk, req, head,
                 data>>

Looked == used_idx = usedidx

intr_end ==
  /\ intr /\ Looked
  /\ intr' = FALSE
  /\ UNCHANGED <<chain, status, ring, done, used_idx, device, irq, disk, pc,
                 req, head, busy, data, panicked>>

Step(p) == virtio_disk_start(p) \/ virtio_disk_nodesc(p)
             \/ virtio_disk_publish(p) \/ virtio_disk_end(p)
DeviceStep == device_take \/ \E h \in D : device_complete(h)
IntrStep == virtio_disk_intr \/ intr_entry \/ intr_end

Next ==
  \/ \E p \in Proc : Step(p) \/ \E r \in Request, v \in Val : Call(p, r, v)
  \/ DeviceStep \/ IntrStep

Spec == Init /\ [][Next]_vars

\* The device and the interrupt handler keep going, and a process that finds
\* the lock or the descriptors free again and again gets them.
Fairness ==
  /\ WF_vars(DeviceStep) /\ \A h \in D : WF_vars(device_complete(h))
  /\ SF_vars(virtio_disk_intr) /\ WF_vars(intr_entry) /\ WF_vars(intr_end)
  /\ \A p \in Proc :
       /\ SF_vars(virtio_disk_start(p)) /\ WF_vars(virtio_disk_publish(p))
       /\ SF_vars(virtio_disk_end(p))

----------------------------------------------------------------------------
(* What the driver guarantees. *)

Active == {p \in Proc : pc[p] \in {"filled", "wait", "back"}}

Abstract == INSTANCE AtomicDisk WITH
  st <- [p \in Proc |-> IF pc[p] = "out" THEN "out"
                        ELSE IF p \in Active /\ status[head[p]] = "ok"
                        THEN "done" ELSE "called"]

\* Whatever the order in which the device completes requests, and however its
\* interrupts coalesce, virtio_disk_rw returns after its own request has been
\* performed, once, with the caller's buffer and block.
Atomic == Abstract!Spec

\* Neither free_desc's check for a double free nor virtio_disk_intr's check
\* of the status fails, and info[].b is a buffer whenever it is followed.
NoPanic == ~panicked

\* Every virtio_disk_rw returns: no completion is lost between the used ring,
\* the acknowledgement of the interrupt and the sleeping process.
RequestReturns(p) == pc[p] = "alloc" ~> pc[p] = "out"
=============================================================================
