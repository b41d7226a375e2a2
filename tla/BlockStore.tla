----------------------------- MODULE BlockStore -----------------------------
(***************************************************************************)
(* What the buffer cache promises: one current value for each disk block,   *)
(* which only the process that has the block locked can change.             *)
(***************************************************************************)
CONSTANTS Proc, Block, Val, NoOne

VARIABLES
  val,     \* the current contents of a block
  holder   \* the process that has it, from bread to brelse

vars == <<val, holder>>

Init == val \in [Block -> Val] /\ holder = [b \in Block |-> NoOne]

Lock(p, b) ==
  /\ holder[b] = NoOne
  /\ holder' = [holder EXCEPT ![b] = p]
  /\ UNCHANGED val

Write(p, b, v) ==
  /\ holder[b] = p
  /\ val' = [val EXCEPT ![b] = v]
  /\ UNCHANGED holder

Unlock(p, b) ==
  /\ holder[b] = p
  /\ holder' = [holder EXCEPT ![b] = NoOne]
  /\ UNCHANGED val

Next == \E p \in Proc, b \in Block :
          Lock(p, b) \/ Unlock(p, b) \/ \E v \in Val : Write(p, b, v)

Spec == Init /\ [][Next]_vars
=============================================================================
