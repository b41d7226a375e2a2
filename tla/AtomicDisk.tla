----------------------------- MODULE AtomicDisk -----------------------------
(***************************************************************************)
(* What the disk driver promises: a read or a write of a block takes effect *)
(* once, at some moment between the call and the return.                    *)
(***************************************************************************)
CONSTANTS Proc, Block, Val, NoReq

VARIABLES
  disk,   \* the contents of the blocks
  data,   \* the contents of a process's buffer
  req,    \* its request
  st      \* "out", "called" or "done"

vars == <<disk, data, req, st>>

Request == [block : Block, write : BOOLEAN]

Init ==
  /\ disk \in [Block -> Val] /\ data \in [Proc -> Val]
  /\ req = [p \in Proc |-> NoReq]
  /\ st = [p \in Proc |-> "out"]

Call(p) ==
  /\ st[p] = "out"
  /\ st' = [st EXCEPT ![p] = "called"]
  /\ \E r \in Request : req' = [req EXCEPT ![p] = r]
  /\ \E v \in Val : data' = [data EXCEPT ![p] = v]
  /\ UNCHANGED disk

Do(p) ==
  /\ st[p] = "called"
  /\ st' = [st EXCEPT ![p] = "done"]
  /\ IF req[p].write
     THEN disk' = [disk EXCEPT ![req[p].block] = data[p]] /\ UNCHANGED data
     ELSE data' = [data EXCEPT ![p] = disk[req[p].block]] /\ UNCHANGED disk
  /\ UNCHANGED req

Return(p) ==
  /\ st[p] = "done"
  /\ st' = [st EXCEPT ![p] = "out"]
  /\ req' = [req EXCEPT ![p] = NoReq]
  /\ UNCHANGED <<disk, data>>

Next == \E p \in Proc : Call(p) \/ Do(p) \/ Return(p)
Spec == Init /\ [][Next]_vars
=============================================================================
