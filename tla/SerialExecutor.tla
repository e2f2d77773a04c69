--------------------------- MODULE SerialExecutor ---------------------------
(***************************************************************************)
(* What a JobQueue promises to the code that posts jobs to it: a job is    *)
(* run once, never together with another job of the same queue, and after  *)
(* every job the same thread posted to that queue before it.  Nothing is   *)
(* said of which thread runs a job, of jobs that different threads post,   *)
(* or of jobs of different queues.                                         *)
(***************************************************************************)
CONSTANTS Threads,  \* the threads that post jobs
          Queues,   \* the JobQueue objects
          Jobs,     \* the jobs that may be posted, each at most once
          None      \* no queue, no thread

VARIABLES home,     \* home[j]: the queue j was posted to
          by,       \* by[j]: the thread that posted it
          prior,    \* prior[j]: what that thread had posted there before
          running,  \* the jobs whose callback is on some stack
          finished  \* the jobs whose callback has returned

vars == <<home, by, prior, running, finished>>

Init ==
  /\ home = [j \in Jobs |-> None]
  /\ by = [j \in Jobs |-> None]
  /\ prior = [j \in Jobs |-> {}]
  /\ running = {}
  /\ finished = {}

Post(t, q, j) ==
  /\ home[j] = None
  /\ home' = [home EXCEPT ![j] = q]
  /\ by' = [by EXCEPT ![j] = t]
  /\ prior' = [prior EXCEPT ![j] = {k \in Jobs : home[k] = q /\ by[k] = t}]
  /\ UNCHANGED <<running, finished>>

MayStart(j) ==
  /\ home[j] \in Queues
  /\ j \notin running \cup finished
  /\ \A k \in running : home[k] # home[j]
  /\ prior[j] \subseteq finished

Start(j) ==
  /\ MayStart(j)
  /\ running' = running \cup {j}
  /\ UNCHANGED <<home, by, prior, finished>>

Finish(j) ==
  /\ j \in running
  /\ running' = running \ {j}
  /\ finished' = finished \cup {j}
  /\ UNCHANGED <<home, by, prior>>

Next ==
  \/ \E t \in Threads, q \in Queues, j \in Jobs : Post(t, q, j)
  \/ \E j \in Jobs : Start(j) \/ Finish(j)

Spec == Init /\ [][Next]_vars

-----------------------------------------------------------------------------
\* The same promise, said of states: no two jobs of a queue run together; a job
\* has not returned when it runs; of two jobs that a thread posted to one queue
\* one is prior to the other, and a job runs when those prior to it have returned.
Promise ==
  /\ \A j, k \in running : home[j] = home[k] => j = k
  /\ running \cap finished = {}
  /\ \A j, k \in Jobs :
       home[j] # None /\ home[j] = home[k] /\ by[j] = by[k] /\ j # k
         => (j \in prior[k] \/ k \in prior[j]) /\ ~ (j \in prior[k] /\ k \in prior[j])
  /\ \A j \in running \cup finished : prior[j] \subseteq finished
=============================================================================
