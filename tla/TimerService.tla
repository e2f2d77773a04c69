---------------------------- MODULE TimerService ----------------------------
(***************************************************************************)
(* What the JobTimer promises to the code that reserves jobs: a job is     *)
(* pushed to its owner once, not before its time and not after the owner   *)
(* is gone; and it is given up only once it has been pushed, or is due and *)
(* has no owner any more.  Nothing is said of the order of due jobs.       *)
(***************************************************************************)
EXTENDS Naturals

CONSTANTS Items, Delays

VARIABLES
  tick64,       \* the time
  executeTick,  \* per item: when it is due
  jobData,      \* per item: "none", "live" from Reserve on, "deleted" at last
  expired,      \* the items whose owner is gone
  fired         \* the items whose job has been pushed

vars == <<tick64, executeTick, jobData, expired, fired>>

Init ==
  /\ tick64 = 0
  /\ executeTick = [i \in Items |-> 0]
  /\ jobData = [i \in Items |-> "none"]
  /\ expired = {} /\ fired = {}

Reserve(i, tickAfter) ==
  /\ jobData[i] = "none"
  /\ executeTick' = [executeTick EXCEPT ![i] = tick64 + tickAfter]
  /\ jobData' = [jobData EXCEPT ![i] = "live"]
  /\ UNCHANGED <<tick64, expired, fired>>

Due(i) == jobData[i] = "live" /\ executeTick[i] <= tick64

Fire(i) ==
  /\ Due(i) /\ i \notin expired \cup fired
  /\ fired' = fired \cup {i}
  /\ UNCHANGED <<tick64, executeTick, jobData, expired>>

GiveUp(i) ==
  /\ Due(i) /\ i \in expired \cup fired
  /\ jobData' = [jobData EXCEPT ![i] = "deleted"]
  /\ UNCHANGED <<tick64, executeTick, expired, fired>>

Tick == tick64' = tick64 + 1 /\ UNCHANGED <<executeTick, jobData, expired, fired>>

OwnerExpires(i) ==
  /\ jobData[i] = "live"
  /\ expired' = expired \cup {i}
  /\ UNCHANGED <<tick64, executeTick, jobData, fired>>

Next ==
  \/ \E i \in Items : Fire(i) \/ GiveUp(i) \/ OwnerExpires(i)
  \/ \E i \in Items, d \in Delays : Reserve(i, d)
  \/ Tick

Spec == Init /\ [][Next]_vars

-----------------------------------------------------------------------------
\* The same promise, said of states: a job that was pushed was reserved, and its time
\* had come; a timer that is gone has pushed its job or lost its owner.
Promise ==
  \A i \in Items :
    /\ i \in fired => jobData[i] # "none" /\ executeTick[i] <= tick64
    /\ jobData[i] = "deleted" => i \in fired \cup expired
=============================================================================
