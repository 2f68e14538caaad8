----------------------------- MODULE JobExecutor -----------------------------
(***************************************************************************)
(* What the interface Worker promises (Worker.hpp): jobs run in the order  *)
(* they were queued, one at a time; only jobs that did not begin can be    *)
(* deleted; every job that began is finalized once, in that order, after   *)
(* the status updates and calls it made.                                   *)
(***************************************************************************)
EXTENDS Sequences

CONSTANTS Jobs, NoJob

VARIABLES
    queued,    \* jobs waiting to run
    current,   \* the job that runs, or NoJob
    sent       \* what the UI thread has still to take: a job that ran and is
               \* to be finalized, or NoJob for a status update or a call

state == <<queued, current, sent>>

Start == queued = <<>> /\ current = NoJob /\ sent = <<>>

(* push() of a job that is not in the worker already. *)
Queue(j) ==
    /\ j # current
    /\ \A i \in DOMAIN queued : queued[i] # j
    /\ \A i \in DOMAIN sent : sent[i] # j
    /\ queued' = Append(queued, j)
    /\ UNCHANGED <<current, sent>>

(* cancel_all(). *)
Discard == queued' = <<>> /\ UNCHANGED <<current, sent>>

Begin ==
    /\ current = NoJob /\ queued # <<>>
    /\ current' = Head(queued) /\ queued' = Tail(queued)
    /\ UNCHANGED sent

(* update_status() and call_on_main_thread() of the job that runs. *)
Tell ==
    /\ current # NoJob
    /\ sent' = Append(sent, NoJob)
    /\ UNCHANGED <<queued, current>>

End ==
    /\ current # NoJob
    /\ sent' = Append(sent, current) /\ current' = NoJob
    /\ UNCHANGED queued

(* The UI thread calls what it was asked to call, or finalize() of the job.*)
Take ==
    /\ sent # <<>>
    /\ sent' = Tail(sent)
    /\ UNCHANGED <<queued, current>>

Step == (\E j \in Jobs : Queue(j)) \/ Discard \/ Begin \/ Tell \/ End \/ Take

Executor == Start /\ [][Step]_state

=============================================================================
