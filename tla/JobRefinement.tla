---------------------------- MODULE JobRefinement ----------------------------
(***************************************************************************)
(* How a state of JobWorker is one of the abstract JobExecutor: the input  *)
(* queue without the null pointer that ends the thread, the job in the     *)
(* hand of the worker, and the jobs of the messages.                       *)
(***************************************************************************)
EXTENDS JobWorker

Ended(q)  == q # <<>> /\ q[Len(q)] = NoJob
JobsOf(q) == IF Ended(q) THEN SubSeq(q, 1, Len(q) - 1) ELSE q

SentinelQueued == Ended(inq)

QueueOfJobs == JobsOf(inq)
JobInHand   == IF wpc \in InHand THEN wjob ELSE NoJob
Messages    == [i \in DOMAIN outq |-> outq[i].job]

E == INSTANCE JobExecutor
       WITH queued <- QueueOfJobs, current <- JobInHand, sent <- Messages

(* Jobs run in the order they were queued, one at a time; each that began  *)
(* is finalized once, in order and after its own messages; cancel_all()    *)
(* deletes only those that did not begin.                                  *)
ImplementsExecutor == E!Executor

-----------------------------------------------------------------------------
(* A job is in one place at a time, and only while it is accepted.         *)
Appears(j) == \/ \E i \in DOMAIN inq : inq[i] = j
              \/ wpc \in InHand /\ wjob = j
              \/ \E i \in DOMAIN outq : outq[i].job = j

OnePlace ==
    /\ \A j \in Jobs : Appears(j) => j \in accepted
    /\ \A i, k \in DOMAIN inq : inq[i] = inq[k] => i = k
    /\ \A i, k \in DOMAIN outq : outq[i].job = outq[k].job => i = k \/ outq[i].job = NoJob
    /\ \A i \in DOMAIN inq, k \in DOMAIN outq : inq[i] = outq[k].job => inq[i] = NoJob
    /\ wpc \in InHand =>
         /\ wjob # NoJob
         /\ \A i \in DOMAIN inq : inq[i] # wjob
         /\ \A k \in DOMAIN outq : outq[k].job # wjob

(* The null pointer is the last entry ever, and replace_job() still has    *)
(* the job it is to queue.                                                 *)
LastEntry ==
    /\ \A i \in DOMAIN inq : inq[i] = NoJob => i = Len(inq)
    /\ SentinelQueued => upc = "closed" \/ todo = <<"join">>
    /\ \A i \in DOMAIN todo :
         /\ todo[i] = "sentinel" => i = Len(todo) - 1 /\ todo[Len(todo)] = "join"
         /\ todo[i] = "push" => next \notin accepted
    /\ upc \in {"idle_run", "idle_out", "wait"} => Head(todo) \in IdleOps

PlaceInv == OnePlace /\ LastEntry

=============================================================================
