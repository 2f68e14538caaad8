------------------------ MODULE PrintHostQueue_proofs ------------------------
(***************************************************************************)
(* The invariant IInv of PrintHostQueue is inductive, for any number of    *)
(* rows, cancellations and events: the count of the thread, the places in  *)
(* the channel and the rows of the dialog agree.  The temporary files      *)
(* follow, and two facts about what the user is told: a job shown as       *)
(* cancelled was not uploaded, and a row shown as failed or cancelled      *)
(* stays so.  A cancelled row is excepted from both if upload() went on to *)
(* a second address for it (OctoPrint.cpp:335).                            *)
(***************************************************************************)
EXTENDS PrintHostQueue, TLAPS

LEMMA EmptySeq == \A S : <<>> \in Seq(S)
  OBVIOUS

LEMMA InitIInv == Init => IInv /\ FilesOwned
<1> SUFFICES ASSUME Init PROVE IInv /\ FilesOwned
  OBVIOUS
<1> USE DEF Init, EmptyJob, NoRow
<1>1. TypeOK
  <2>1. <<>> \in Seq(Job) /\ <<>> \in Seq(Row) /\ <<>> \in Seq(Event)
        /\ <<>> \in Seq({"new", "progress", "error", "cancelled", "completed"})
    BY EmptySeq
  <2>2. cur \in Job
    BY DEF Job
  <2>3. Len(rows) <= MaxRows
    BY BoundsAssumption
  <2> QED
    BY <2>1, <2>2, <2>3 DEF TypeOK
<1>2. RowsAgree
  BY DEF RowsAgree
<1>3. CountsAgree
  BY DEF CountsAgree, AtJob, Locked, Taken, Waiting, Unpushed
<1>4. FilesOwned
  BY DEF FilesOwned, JobRows
<1> QED
  BY <1>1, <1>2, <1>3, <1>4 DEF IInv

-----------------------------------------------------------------------------
(* Sequences: what Append, Tail and an update leave. *)
LEMMA AppendFacts ==
  ASSUME NEW S, NEW s \in Seq(S), NEW e \in S
  PROVE  /\ Append(s, e) \in Seq(S) /\ Append(s, e) # <<>>
         /\ Len(Append(s, e)) = Len(s) + 1 /\ Len(s) \in Nat
         /\ DOMAIN Append(s, e) = 1 .. Len(s) + 1 /\ DOMAIN s = 1 .. Len(s)
         /\ Append(s, e)[Len(s) + 1] = e
         /\ \A i \in 1 .. Len(s) : Append(s, e)[i] = s[i]
  OBVIOUS

LEMMA TailFacts ==
  ASSUME NEW S, NEW s \in Seq(S), s # <<>>
  PROVE  /\ Tail(s) \in Seq(S) /\ Head(s) \in S /\ Head(s) = s[1]
         /\ Len(s) \in Nat \ {0} /\ Len(Tail(s)) = Len(s) - 1
         /\ DOMAIN s = 1 .. Len(s) /\ DOMAIN Tail(s) = 1 .. Len(s) - 1
         /\ \A k \in 1 .. Len(s) - 1 : Tail(s)[k] = s[k + 1]
  OBVIOUS

LEMMA UpdateFacts ==
  ASSUME NEW S, NEW s \in Seq(S), NEW n \in DOMAIN s, NEW e \in S
  PROVE  /\ [s EXCEPT ![n] = e] \in Seq(S)
         /\ Len([s EXCEPT ![n] = e]) = Len(s)
         /\ DOMAIN [s EXCEPT ![n] = e] = DOMAIN s
         /\ [s EXCEPT ![n] = e][n] = e
         /\ \A i \in DOMAIN s \ {n} : [s EXCEPT ![n] = e][i] = s[i]
  OBVIOUS

-----------------------------------------------------------------------------
(* A job in hand, or a row not pushed yet, has its row in the dialog.      *)
LEMMA RowInRange ==
  ASSUME IInv
  PROVE  /\ Len(jobs) \in Nat /\ Waiting \in Nat /\ Waiting <= Len(jobs) /\ Len(rows) \in Nat
         /\ cur.row # NoRow => jobId \in Row /\ jobId < Len(rows)
         /\ pushing => Len(rows) - 1 \in Row /\ Len(rows) > jobId
         /\ Waiting < Len(jobs) =>
              jobs # <<>> /\ jobs[Len(jobs)].row = NoRow /\ Waiting = Len(jobs) - 1
         /\ open => Waiting = Len(jobs)
<1>1. /\ jobs \in Seq(Job) /\ rows \in Seq({"new", "progress", "error", "cancelled", "completed"})
      /\ jobId \in Nat /\ Len(rows) <= MaxRows /\ MaxRows \in Nat
  BY BoundsAssumption DEF IInv, TypeOK
<1>2. /\ Len(jobs) \in Nat /\ Len(rows) \in Nat /\ DOMAIN jobs = 1 .. Len(jobs)
      /\ jobs # <<>> => Len(jobs) > 0
  BY <1>1
<1>20. Len(jobs) \in Nat /\ Len(rows) \in Nat
  BY <1>2
<1>3. /\ Waiting \in Nat /\ Waiting <= Len(jobs)
      /\ Waiting < Len(jobs) =>
           jobs # <<>> /\ jobs[Len(jobs)].row = NoRow /\ Waiting = Len(jobs) - 1
  <2>1. CASE jobs # <<>> /\ jobs[Len(jobs)].row = NoRow
    <3>1. Waiting = Len(jobs) - 1
      BY <2>1 DEF Waiting
    <3> QED
      BY <1>2, <2>1, <3>1
  <2>2. CASE ~(jobs # <<>> /\ jobs[Len(jobs)].row = NoRow)
    <3>1. Waiting = Len(jobs)
      BY <2>2 DEF Waiting
    <3>2. Waiting \in Nat /\ Waiting <= Len(jobs) /\ ~(Waiting < Len(jobs))
      BY <1>20, <3>1
    <3> QED
      BY <3>2
  <2> QED
    BY <2>1, <2>2
<1>4. open => Waiting = Len(jobs)
  <2> SUFFICES ASSUME open PROVE Waiting = Len(jobs)
    OBVIOUS
  <2>1. \A i \in DOMAIN jobs : jobs[i].row # NoRow
    BY DEF IInv, CountsAgree
  <2>2. jobs # <<>> => Len(jobs) \in DOMAIN jobs
    BY <1>2
  <2>3. ~(jobs # <<>> /\ jobs[Len(jobs)].row = NoRow)
    BY <2>1, <2>2
  <2> QED
    BY <2>3 DEF Waiting
<1>5. Len(rows) = jobId + Taken + Waiting + Unpushed
  BY DEF IInv, CountsAgree
<1>50. /\ Taken \in {0, 1} /\ (cur.row # NoRow => Taken = 1)
       /\ Unpushed \in {0, 1} /\ (pushing => Unpushed = 1)
  BY DEF Taken, Unpushed
<1>51. /\ Waiting \in Nat /\ jobId \in Nat /\ MaxRows \in Nat /\ Len(rows) <= MaxRows
  BY <1>1, <1>3
<1>6. cur.row # NoRow => jobId \in Row /\ jobId < Len(rows)
  BY <1>20, <1>5, <1>50, <1>51 DEF Row
<1>7. pushing => Len(rows) - 1 \in Row /\ Len(rows) > jobId
  BY <1>20, <1>5, <1>50, <1>51 DEF Row
<1> QED
  BY <1>2, <1>3, <1>4, <1>6, <1>7

LEMMA JobRowInRange ==
  ASSUME IInv, NEW i \in DOMAIN jobs, jobs[i].row # NoRow
  PROVE  jobs[i].row \in Row /\ jobs[i].row < Len(rows)
<1>1. /\ jobs \in Seq(Job) /\ jobId \in Nat /\ Len(rows) <= MaxRows /\ MaxRows \in Nat
      /\ jobs[i].row = jobId + Taken + i - 1
      /\ jobs[i].row = NoRow => i = Len(jobs)
      /\ Len(rows) = jobId + Taken + Waiting + Unpushed
  BY BoundsAssumption DEF IInv, TypeOK, RowsAgree, CountsAgree
<1>2. i \in 1 .. Len(jobs) /\ Len(jobs) \in Nat /\ Len(rows) \in Nat /\ Waiting \in Nat
  BY <1>1, RowInRange
<1>3. i <= Waiting
  <2>1. CASE Waiting < Len(jobs)
    <3>1. jobs[Len(jobs)].row = NoRow /\ Waiting = Len(jobs) - 1
      BY <2>1, RowInRange
    <3> QED
      BY <1>2, <3>1
  <2> QED
    BY <1>2, <2>1
<1>4. Taken \in {0, 1} /\ Unpushed \in {0, 1}
  BY DEF Taken, Unpushed
<1> QED
  BY <1>1, <1>2, <1>3, <1>4 DEF Row

(* Event the thread emits about the job in hand.                           *)
LEMMA EmitFacts ==
  ASSUME IInv, NEW id \in Row, id < Len(rows),
         NEW shows \in {"progress", "error", "cancelled", "completed"},
         Emit(id, shows)
  PROVE  events' \in Seq(Event) /\ \A k \in DOMAIN events' : events'[k].id < Len(rows)
<1>1. events \in Seq(Event) /\ \A k \in DOMAIN events : events[k].id < Len(rows)
  BY DEF IInv, TypeOK, RowsAgree
<1>2. [shows |-> shows, id |-> id] \in Event
  BY DEF Event
<1>3. events' = Append(events, [shows |-> shows, id |-> id])
  BY DEF Emit
<1> QED
  BY <1>1, <1>2, <1>3, AppendFacts

-----------------------------------------------------------------------------
(* The actions that only move the thread, send an event or take a          *)
(* cancellation out of the channel.                                        *)
Quiet == /\ UNCHANGED <<jobs, jobId, cur, pushing, open, rows>>
         /\ events' \in Seq(Event) /\ \A k \in DOMAIN events' : events'[k].id < Len(rows)
         /\ cancels' = cancels \/ (cancels # <<>> /\ cancels' = Tail(cancels))
         /\ prev' \in BOOLEAN /\ exit' \in BOOLEAN /\ asked' \in BOOLEAN
         /\ attempt' \in {"only", "first", "second"}
         /\ uploaded' \subseteq Row /\ retried' \subseteq Row /\ dismissed' \subseteq Row
         /\ sources' \subseteq Row
         /\ \/ pc \in AtJob /\ pc' \in AtJob \cup {"cleanup"}
            \/ pc = "loop" /\ pc' \in {"pop", "cleanup"}
            \/ pc = "cleanup" /\ pc' = "ended"
            \/ pc' = pc

LEMMA QuietStep == ASSUME IInv, Quiet PROVE IInv'
<1> USE DEF IInv, Quiet
<1>1. /\ cancels' \in Seq(Row) /\ \A k \in DOMAIN cancels' : cancels'[k] < Len(rows)
  <2>1. cancels \in Seq(Row) /\ \A k \in DOMAIN cancels : cancels[k] < Len(rows)
    BY DEF TypeOK, RowsAgree
  <2>2. CASE cancels # <<>> /\ cancels' = Tail(cancels)
    BY <2>1, <2>2, TailFacts
  <2> QED
    BY <2>1, <2>2
<1>2. TypeOK'
  BY <1>1 DEF TypeOK, AtJob, Locked
<1>3. RowsAgree'
  BY <1>1 DEF RowsAgree, Taken
<1>4. CountsAgree'
  BY DEF CountsAgree, AtJob, Locked, Taken, Waiting, Unpushed
<1> QED
  BY <1>2, <1>3, <1>4

QuietAction ==
    \/ WLoop \/ WTake \/ WResolve \/ WDismiss \/ WProgress \/ WFail \/ WFirstFails
    \/ WCancelOwn \/ WCancelIgnored \/ WUnlock
    \/ WReport \/ WAbort \/ WSucceed \/ WFailed \/ WThrow \/ WCleanup

LEMMA QuietActions ==
  ASSUME IInv, QuietAction \/ Closed \/ UNCHANGED vars
  PROVE  Quiet
<1>0. /\ events \in Seq(Event) /\ \A k \in DOMAIN events : events[k].id < Len(rows)
      /\ prev \in BOOLEAN /\ exit \in BOOLEAN /\ asked \in BOOLEAN
      /\ attempt \in {"only", "first", "second"}
      /\ uploaded \subseteq Row /\ retried \subseteq Row /\ dismissed \subseteq Row
      /\ sources \subseteq Row
      /\ pc \in AtJob => cur.row = jobId /\ jobId \in Row /\ jobId < Len(rows)
  BY RowInRange DEF IInv, TypeOK, RowsAgree, CountsAgree
<1>1. ASSUME pc \in AtJob,
             NEW shows \in {"progress", "error", "cancelled", "completed"},
             Emit(jobId, shows)
      PROVE  events' \in Seq(Event) /\ \A k \in DOMAIN events' : events'[k].id < Len(rows)
  BY <1>0, <1>1, EmitFacts
<1> USE DEF Quiet, AtJob, Locked, channels, history
<1>2. CASE WLoop \/ WCleanup
  BY <1>2, <1>0 DEF WLoop, WCleanup
<1>3. CASE WProgress \/ WFail \/ WCancelIgnored \/ WUnlock
  BY <1>3, <1>0 DEF WProgress, WFail, ErrorFn, WCancelIgnored, WUnlock, thread
<1>10. CASE WResolve \/ WDismiss \/ WFirstFails
  BY <1>10, <1>0 DEF WResolve, WDismiss, WFirstFails, SecondAddress
<1>4. CASE WTake
  BY <1>4, <1>0, <1>1 DEF WTake
<1>5. CASE WCancelOwn
  BY <1>5, <1>0, <1>1 DEF WCancelOwn
<1>6. CASE WReport
  BY <1>6, <1>0, <1>1 DEF WReport
<1>7. CASE WFailed \/ WThrow
  BY <1>7, <1>0, <1>1 DEF WFailed, WThrow
<1>11. CASE WAbort
  <2>1. /\ pc = "abort" /\ events' \in Seq(Event)
        /\ \A k \in DOMAIN events' : events'[k].id < Len(rows)
    BY <1>11, <1>1 DEF WAbort
  <2>2. /\ pc' \in AtJob /\ asked' \in BOOLEAN /\ attempt' \in {"only", "first", "second"}
        /\ retried' \subseteq Row
    BY <1>11, <1>0, <2>1 DEF WAbort, SecondAddress, ErrorFn
  <2> QED
    BY <1>11, <1>0, <2>1, <2>2 DEF WAbort
<1>8. CASE WSucceed
  BY <1>8, <1>0, <1>1 DEF WSucceed
<1>9. CASE Closed \/ UNCHANGED vars
  BY <1>9, <1>0 DEF Closed, vars, thread
<1> QED
  BY <1>2, <1>3, <1>4, <1>5, <1>6, <1>7, <1>8, <1>9, <1>10, <1>11 DEF QuietAction

-----------------------------------------------------------------------------
(* The other actions, one lemma each. *)
LEMMA EnqueueStep == ASSUME IInv, Enqueue PROVE IInv'
<1> DEFINE States == {"new", "progress", "error", "cancelled", "completed"}
<1>0. /\ TypeOK /\ RowsAgree /\ CountsAgree
  BY DEF IInv
<1>1. /\ rows' \in Seq(States) /\ Len(rows') = Len(rows) + 1 /\ Len(rows) \in Nat
      /\ Len(rows') <= MaxRows
  BY <1>0, AppendFacts, BoundsAssumption DEF Enqueue, TypeOK
<1>2. TypeOK'
  <2>0. Len(rows) \in Row
    BY <1>1, BoundsAssumption DEF Enqueue, Row
  <2>1. sources' \subseteq Row
    BY <1>0, <2>0 DEF Enqueue, TypeOK
  <2>2. /\ UNCHANGED <<jobs, cancels, jobId, prev, cur, asked, attempt, exit, open, events,
                       uploaded, retried, dismissed>>
        /\ pushing' = TRUE /\ pc' \in {pc, "loop"}
    BY DEF Enqueue, channels, history
  <2> QED
    BY <1>0, <1>1, <2>1, <2>2 DEF TypeOK
<1>3. RowsAgree'
  <2>1. /\ \A k \in DOMAIN events : events[k].id \in Int
        /\ \A k \in DOMAIN cancels : cancels[k] \in Int
    <3>1. events \in Seq(Event) /\ cancels \in Seq(Row)
      BY <1>0 DEF TypeOK
    <3>2. Row \subseteq Int /\ \A e \in Event : e.id \in Row
      BY BoundsAssumption DEF Event, Row
    <3>3. /\ \A k \in DOMAIN events : events[k] \in Event
          /\ \A k \in DOMAIN cancels : cancels[k] \in Row
      BY <3>1
    <3> QED
      BY <3>2, <3>3
  <2> QED
    BY <1>0, <1>1, <2>1 DEF Enqueue, RowsAgree, channels, Taken
<1>4. CountsAgree'
  <2>1. jobId + Taken + Waiting + 1 = Len(rows')
    BY <1>0, <1>1, RowInRange DEF Enqueue, CountsAgree, Unpushed, TypeOK, Taken
  <2> QED
    BY <1>0, <2>1 DEF Enqueue, CountsAgree, channels, Taken, Waiting, Unpushed, AtJob, Locked
<1> QED
  BY <1>2, <1>3, <1>4 DEF IInv

LEMMA AppendJob ==
  ASSUME IInv, open, NEW job \in Job, jobs' = Append(jobs, job),
         UNCHANGED <<cancels, jobId, prev, pc, cur, asked, attempt, rows, events, sources, history>>,
         pc # "none", exit' \in BOOLEAN, pushing' = FALSE, open' \in BOOLEAN,
         job.row = NoRow => ~open' /\ ~pushing,
         job.row # NoRow => pushing /\ job.row = Len(rows) - 1
  PROVE  IInv'
<1>0. /\ TypeOK /\ RowsAgree /\ CountsAgree
  BY DEF IInv
<1>1. /\ jobs' \in Seq(Job) /\ jobs' # <<>> /\ Len(jobs') = Len(jobs) + 1
      /\ Len(jobs) \in Nat /\ DOMAIN jobs = 1 .. Len(jobs)
      /\ DOMAIN jobs' = 1 .. Len(jobs) + 1 /\ jobs'[Len(jobs) + 1] = job
      /\ \A i \in 1 .. Len(jobs) : jobs'[i] = jobs[i]
  BY <1>0, AppendFacts DEF TypeOK
<1>2. /\ Waiting = Len(jobs) /\ \A i \in DOMAIN jobs : jobs[i].row # NoRow
      /\ jobId \in Nat /\ Taken \in {0, 1}
      /\ Len(rows) = jobId + Taken + Len(jobs) + Unpushed
  BY <1>0, RowInRange DEF CountsAgree, TypeOK, Taken
<1>3. TypeOK'
  BY <1>0, <1>1 DEF TypeOK, history
<1>4. Taken' = Taken /\ Unpushed' = 0
  BY DEF Taken, Unpushed
<1>5. RowsAgree'
  <2>1. job.row # NoRow => job.row = jobId + Taken + Len(jobs)
    BY <1>1, <1>2 DEF Unpushed
  <2>2. ASSUME NEW i \in DOMAIN jobs', jobs'[i].row # NoRow
        PROVE  jobs'[i].row = jobId + Taken + i - 1
    <3>1. CASE i \in 1 .. Len(jobs)
      BY <1>0, <1>1, <2>2, <3>1 DEF RowsAgree
    <3>2. CASE i = Len(jobs) + 1
      BY <1>1, <1>2, <2>1, <2>2, <3>2
    <3> QED
      BY <1>1, <3>1, <3>2
  <2> QED
    BY <1>0, <1>4, <2>2 DEF RowsAgree
<1>6. CountsAgree'
  <2>1. Waiting' = IF job.row = NoRow THEN Len(jobs) ELSE Len(jobs) + 1
    BY <1>1 DEF Waiting
  <2>2. Len(rows) = jobId + Taken + Waiting' + 0
    <3>1. CASE job.row = NoRow
      BY <1>2, <2>1, <3>1 DEF Unpushed
    <3>2. CASE job.row # NoRow
      BY <1>1, <1>2, <2>1, <3>2 DEF Unpushed
    <3> QED
      BY <3>1, <3>2
  <2>3. \A i \in DOMAIN jobs' : jobs'[i].row = NoRow => i = Len(jobs') /\ ~open'
    BY <1>1, <1>2
  <2> QED
    BY <1>0, <1>4, <2>2, <2>3 DEF CountsAgree
<1> QED
  BY <1>3, <1>5, <1>6 DEF IInv

LEMMA PushJobStep == ASSUME IInv, PushJob PROVE IInv'
<1>1. /\ open /\ pc # "none" /\ open \in BOOLEAN /\ exit \in BOOLEAN
  <2>1. open /\ open \in BOOLEAN /\ exit \in BOOLEAN
    BY DEF PushJob, IInv, CountsAgree, TypeOK
  <2>2. ASSUME pc = "none" PROVE FALSE
    <3>1. rows = <<>> /\ jobId = 0 /\ pushing /\ Len(rows) > jobId
      BY <2>2, RowInRange DEF PushJob, IInv, CountsAgree
    <3> QED
      BY <3>1
  <2> QED
    BY <2>1, <2>2
<1>2. NewJob \in Job /\ NewJob.row = Len(rows) - 1 /\ NewJob.row # NoRow
  BY RowInRange DEF PushJob, NewJob, Job, Row, NoRow
<1> QED
  BY <1>1, <1>2, AppendJob DEF PushJob, thread

LEMMA StopStep == ASSUME IInv, Stop PROVE IInv'
<1>1. CASE pc = "none"
  <2>1. /\ UNCHANGED <<jobs, cancels, jobId, prev, pc, cur, asked, attempt, rows, events, sources,
                       uploaded, retried, dismissed, exit, pushing>> /\ open' = FALSE /\ ~pushing
    BY <1>1 DEF Stop, thread, history
  <2>2. TypeOK' /\ RowsAgree'
    BY <2>1 DEF IInv, TypeOK, RowsAgree, Taken
  <2>3. CountsAgree'
    BY <2>1 DEF IInv, CountsAgree, Taken, Waiting, Unpushed
  <2> QED
    BY <2>2, <2>3 DEF IInv
<1>2. CASE pc # "none"
  <2>1. EmptyJob \in Job /\ EmptyJob.row = NoRow
    BY DEF EmptyJob, Job
  <2>2. /\ open /\ ~pushing /\ pushing \in BOOLEAN /\ open' = FALSE /\ exit' = TRUE
        /\ jobs' = Append(jobs, EmptyJob)
        /\ UNCHANGED <<cancels, jobId, prev, pc, cur, asked, attempt, rows, events, sources, history>>
        /\ pushing' = pushing
    BY <1>2 DEF Stop, thread, IInv, TypeOK
  <2>3. pushing' = FALSE /\ exit' \in BOOLEAN /\ open' \in BOOLEAN
    BY <2>2
  <2> QED
    BY <1>2, <2>1, <2>2, <2>3, AppendJob
<1> QED
  BY <1>1, <1>2

LEMMA CancelStep == ASSUME IInv, NEW r \in Row, CancelRow(r) PROVE IInv'
<1>0. /\ TypeOK /\ RowsAgree /\ CountsAgree
  BY DEF IInv
<1>1. /\ cancels' \in Seq(Row) /\ \A k \in DOMAIN cancels' : cancels'[k] < Len(rows)
  BY <1>0, AppendFacts DEF CancelRow, TypeOK, RowsAgree
<1>2. TypeOK'
  BY <1>0, <1>1 DEF CancelRow, TypeOK, thread, history
<1>3. RowsAgree'
  BY <1>0, <1>1 DEF CancelRow, RowsAgree, thread, Taken
<1>4. CountsAgree'
  BY <1>0 DEF CancelRow, CountsAgree, thread, Taken, Waiting, Unpushed
<1> QED
  BY <1>2, <1>3, <1>4 DEF IInv

LEMMA DispatchStep == ASSUME IInv, Dispatch PROVE IInv'
<1> DEFINE States == {"new", "progress", "error", "cancelled", "completed"}
<1>0. /\ TypeOK /\ RowsAgree /\ CountsAgree
  BY DEF IInv
<1>1. /\ events' \in Seq(Event) /\ Head(events) \in Event
      /\ Head(events).id < Len(rows)
      /\ \A k \in DOMAIN events' : events'[k].id < Len(rows)
  BY <1>0, TailFacts DEF Dispatch, TypeOK, RowsAgree
<1>2. /\ Head(events).id + 1 \in DOMAIN rows /\ Head(events).shows \in States
      /\ rows \in Seq(States)
  BY <1>0, <1>1 DEF TypeOK, Event, Row
<1>3. /\ rows' \in Seq(States) /\ Len(rows') = Len(rows)
      /\ rows = <<>> => rows' = <<>>
  BY <1>2, UpdateFacts DEF Dispatch
<1>4. TypeOK'
  BY <1>0, <1>1, <1>3 DEF Dispatch, TypeOK, channels, thread, history
<1>5. RowsAgree'
  BY <1>0, <1>1, <1>3 DEF Dispatch, RowsAgree, channels, thread, Taken
<1>6. CountsAgree'
  BY <1>0, <1>3 DEF Dispatch, CountsAgree, channels, thread, Taken, Waiting, Unpushed
<1> QED
  BY <1>4, <1>5, <1>6 DEF IInv

LEMMA PopStep == ASSUME IInv, WPop PROVE IInv'
<1>0. /\ TypeOK /\ RowsAgree /\ CountsAgree
  BY DEF IInv
<1>1. /\ jobs' \in Seq(Job) /\ cur' \in Job /\ cur' = jobs[1]
      /\ Len(jobs) \in Nat \ {0} /\ Len(jobs') = Len(jobs) - 1
      /\ DOMAIN jobs = 1 .. Len(jobs) /\ DOMAIN jobs' = 1 .. Len(jobs) - 1
      /\ \A k \in 1 .. Len(jobs) - 1 : jobs'[k] = jobs[k + 1]
      /\ jobs' # <<>> <=> Len(jobs) > 1
  <2>1. jobs \in Seq(Job) /\ jobs # <<>> /\ jobs' = Tail(jobs) /\ cur' = Head(jobs)
    BY <1>0 DEF WPop, TypeOK
  <2>2. /\ jobs' \in Seq(Job) /\ cur' \in Job /\ cur' = jobs[1]
        /\ Len(jobs) \in Nat \ {0} /\ Len(jobs') = Len(jobs) - 1
        /\ DOMAIN jobs = 1 .. Len(jobs) /\ DOMAIN jobs' = 1 .. Len(jobs) - 1
        /\ \A k \in 1 .. Len(jobs) - 1 : jobs'[k] = jobs[k + 1]
    BY <2>1, TailFacts
  <2>3. jobs' # <<>> <=> Len(jobs') # 0
    BY <2>2
  <2> QED
    BY <2>2, <2>3
<1>2. /\ pc' = IF cur'.row = NoRow THEN "cleanup" ELSE "taken"
      /\ cur.row = NoRow /\ Taken = 0 /\ jobId \in Nat
      /\ UNCHANGED <<jobId, pushing, open, rows, events, cancels>>
  BY <1>0 DEF WPop, CountsAgree, Taken, TypeOK
<1>3. TypeOK'
  BY <1>0, <1>1, <1>2 DEF WPop, TypeOK, AtJob, history
<1>4. /\ cur'.row = NoRow => Len(jobs) = 1
      /\ cur'.row # NoRow => cur'.row = jobId
  BY <1>0, <1>1, <1>2 DEF CountsAgree, RowsAgree
<1>5. RowsAgree'
  <2>1. ASSUME NEW k \in DOMAIN jobs', jobs'[k].row # NoRow
        PROVE  jobs'[k].row = jobId + Taken' + k - 1
    <3>1. /\ k + 1 \in DOMAIN jobs /\ jobs'[k] = jobs[k + 1] /\ k \in Nat
          /\ cur'.row # NoRow
      BY <1>1, <1>4
    <3>2. jobs[k + 1].row = jobId + 0 + (k + 1) - 1
      BY <1>0, <1>2, <2>1, <3>1 DEF RowsAgree
    <3>3. Taken' = 1
      BY <3>1 DEF Taken
    <3> QED
      BY <1>2, <3>1, <3>2, <3>3
  <2> QED
    BY <1>0, <1>2, <1>4, <2>1 DEF RowsAgree
<1>6. CountsAgree'
  <2>1. Taken' + Waiting' = Waiting
    <3>1. CASE cur'.row = NoRow
      <4>1. Len(jobs) = 1 /\ jobs' = <<>> /\ jobs # <<>> /\ jobs[Len(jobs)].row = NoRow
        <5>1. Len(jobs) = 1
          BY <1>4, <3>1
        <5>2. ~(jobs' # <<>>) /\ jobs # <<>> /\ jobs[1].row = NoRow
          BY <1>1, <3>1, <5>1 DEF WPop
        <5> QED
          BY <5>1, <5>2
      <4>2. Taken' = 0 /\ Waiting = 0 /\ Waiting' = 0
        BY <3>1, <4>1 DEF Taken, Waiting
      <4> QED
        BY <4>2
    <3>2. CASE cur'.row # NoRow /\ Len(jobs) = 1
      BY <1>1, <3>2 DEF Taken, Waiting
    <3>3. CASE cur'.row # NoRow /\ Len(jobs) > 1
      <4>1. jobs'[Len(jobs')] = jobs[Len(jobs)] /\ jobs # <<>> /\ jobs' # <<>>
        BY <1>1, <3>3
      <4> QED
        BY <1>1, <3>3, <4>1 DEF Taken, Waiting
    <3> QED
      BY <1>1, <3>1, <3>2, <3>3
  <2>2. Taken' \in {0, 1} /\ Waiting' \in Nat /\ Unpushed' = Unpushed /\ Unpushed \in {0, 1}
    BY <1>1, <1>2 DEF Taken, Waiting, Unpushed
  <2>3. Len(rows') = jobId' + Taken' + Waiting' + Unpushed'
    <3>1. Len(rows) = jobId + Waiting + Unpushed
      <4>1. Len(rows) = jobId + Taken + Waiting + Unpushed /\ Taken = 0
        BY <1>0, <1>2 DEF CountsAgree
      <4> HIDE DEF Waiting, Unpushed
      <4> QED
        BY <1>2, <4>1
    <3>2. Len(rows') = Len(rows) /\ jobId' = jobId
      BY <1>2
    <3>3. Len(rows') = jobId' + (Taken' + Waiting') + Unpushed'
      BY <2>1, <2>2, <3>1, <3>2
    <3> QED
      BY <1>2, <2>2, <3>2, <3>3
  <2>4. \A k \in DOMAIN jobs' : /\ jobs'[k].row = NoRow => k = Len(jobs')
                                /\ open' => jobs'[k].row # NoRow
    <3>1. \A i \in DOMAIN jobs : /\ jobs[i].row = NoRow => i = Len(jobs)
                                 /\ open => jobs[i].row # NoRow
      BY <1>0 DEF CountsAgree
    <3>2. \A k \in DOMAIN jobs' : k + 1 \in DOMAIN jobs /\ jobs'[k] = jobs[k + 1]
      BY <1>1
    <3>3. open' = open /\ \A k \in DOMAIN jobs' : k \in Nat
      BY <1>1, <1>2
    <3> QED
      BY <1>1, <3>1, <3>2, <3>3
  <2> QED
    BY <1>0, <1>2, <2>3, <2>4 DEF CountsAgree, AtJob, Locked
<1> QED
  BY <1>3, <1>5, <1>6 DEF IInv

LEMMA RemoveStep == ASSUME IInv, WRemove PROVE IInv'
<1>0. /\ TypeOK /\ RowsAgree /\ CountsAgree
  BY DEF IInv
<1>1. /\ jobId \in Nat /\ jobId' = jobId + 1 /\ cur' \in Job /\ cur'.row = NoRow
      /\ pc' = "loop" /\ sources' \subseteq sources
      /\ attempt' = "only"
      /\ UNCHANGED <<jobs, cancels, prev, asked, exit, pushing, open, rows, events, uploaded,
                     retried, dismissed>>
  BY <1>0 DEF WRemove, TypeOK, EmptyJob, Job, channels, history
<1>2. Taken = 1 /\ Taken' = 0
  BY <1>0, <1>1 DEF WRemove, CountsAgree, AtJob, Taken
<1>3. TypeOK'
  BY <1>0, <1>1 DEF TypeOK
<1>4. RowsAgree'
  <2>1. \A i \in DOMAIN jobs : i \in Nat
    BY <1>0 DEF TypeOK
  <2> QED
    BY <1>0, <1>1, <1>2, <2>1 DEF RowsAgree
<1>5. CountsAgree'
  <2>1. jobId' + Taken' = jobId + Taken /\ Waiting' = Waiting /\ Unpushed' = Unpushed
    BY <1>1, <1>2 DEF Waiting, Unpushed
  <2> QED
    BY <1>0, <1>1, <2>1 DEF CountsAgree, AtJob, Locked
<1> QED
  BY <1>3, <1>4, <1>5 DEF IInv

(* The job that is marked is the one the cancellation is about.            *)
LEMMA CancelWaitingFacts ==
  ASSUME IInv, WCancelWaiting
  PROVE  /\ jobs' \in Seq(Job) /\ Len(jobs') = Len(jobs) /\ DOMAIN jobs' = DOMAIN jobs
         /\ \A i \in DOMAIN jobs : jobs'[i].row = jobs[i].row
         /\ Head(cancels) \in Row /\ Head(cancels) < Len(rows)
         /\ jobs[Place(Head(cancels))].row = Head(cancels)
<1>0. /\ TypeOK /\ RowsAgree /\ CountsAgree
  BY DEF IInv
<1> DEFINE id == Head(cancels)
           n  == Place(id)
           e  == [jobs[n] EXCEPT !.cancelled = TRUE]
<1>1. /\ id \in Row /\ id < Len(rows) /\ n \in DOMAIN jobs /\ id > jobId /\ pc \in AtJob
      /\ jobs' = [jobs EXCEPT ![n].cancelled = TRUE] /\ jobs \in Seq(Job) /\ jobId \in Nat
  BY <1>0, TailFacts DEF WCancelWaiting, TypeOK, RowsAgree, AtJob
<1>2. jobs[n] \in Job /\ e \in Job /\ e.row = jobs[n].row /\ jobs' = [jobs EXCEPT ![n] = e]
  <2>1. jobs[n] \in Job
    BY <1>1
  <2>2. e \in Job /\ e.row = jobs[n].row
    BY <2>1 DEF Job
  <2> QED
    BY <1>1, <2>1, <2>2
<1>3. /\ jobs' \in Seq(Job) /\ Len(jobs') = Len(jobs) /\ DOMAIN jobs' = DOMAIN jobs
      /\ jobs'[n] = e /\ \A i \in DOMAIN jobs \ {n} : jobs'[i] = jobs[i]
  BY <1>1, <1>2, UpdateFacts
<1>4. jobs[n].row = id
  <2>1. n = id - jobId /\ n \in 1 .. Len(jobs) /\ Len(jobs) \in Nat /\ Taken = 1
    BY <1>0, <1>1 DEF Place, CountsAgree, Taken
  <2>2. jobs[n].row # NoRow
    <3> SUFFICES ASSUME jobs[n].row = NoRow PROVE FALSE
      OBVIOUS
    <3>1. n = Len(jobs) /\ Waiting = Len(jobs) - 1 /\ ~pushing
      BY <1>0, <1>1, <2>1 DEF CountsAgree, Waiting
    <3>2. Len(rows) = jobId + 1 + (Len(jobs) - 1) + 0
      BY <1>0, <2>1, <3>1 DEF CountsAgree, Unpushed
    <3> QED
      BY <1>1, <2>1, <3>1, <3>2 DEF Row
  <2> QED
    BY <1>0, <1>1, <2>1, <2>2 DEF RowsAgree, Row
<1> QED
  BY <1>1, <1>2, <1>3, <1>4

LEMMA CancelWaitingStep == ASSUME IInv, WCancelWaiting PROVE IInv'
<1>0. /\ TypeOK /\ RowsAgree /\ CountsAgree
  BY DEF IInv
<1>1. /\ cancels' \in Seq(Row) /\ \A k \in DOMAIN cancels' : cancels'[k] < Len(rows)
  BY <1>0, TailFacts DEF WCancelWaiting, TypeOK, RowsAgree
<1>2. events' \in Seq(Event) /\ \A k \in DOMAIN events' : events'[k].id < Len(rows)
  <2>1. Emit(Head(cancels), "cancelled")
    BY DEF WCancelWaiting
  <2> QED
    BY <2>1, CancelWaitingFacts, EmitFacts
<1>3. TypeOK'
  BY <1>0, <1>1, <1>2, CancelWaitingFacts DEF WCancelWaiting, TypeOK, thread, history
<1>4. RowsAgree'
  BY <1>0, <1>1, <1>2, CancelWaitingFacts DEF WCancelWaiting, RowsAgree, thread, Taken
<1>5. CountsAgree'
  <2>1. Waiting' = Waiting /\ pc # "none"
    <3>1. jobs \in Seq(Job) /\ jobs' \in Seq(Job)
      BY <1>0, CancelWaitingFacts DEF TypeOK
    <3>2. (jobs # <<>> <=> jobs' # <<>>) /\ (jobs # <<>> => Len(jobs) \in DOMAIN jobs)
      BY <3>1, CancelWaitingFacts
    <3> QED
      BY <3>2, CancelWaitingFacts DEF Waiting, WCancelWaiting, Locked
  <2> QED
    BY <1>0, <2>1, CancelWaitingFacts DEF WCancelWaiting, CountsAgree, thread, Taken, Unpushed
<1> QED
  BY <1>3, <1>4, <1>5 DEF IInv

-----------------------------------------------------------------------------
LEMMA NextIInv == IInv /\ [Next]_vars => IInv'
<1> SUFFICES ASSUME IInv, [Next]_vars PROVE IInv'
  OBVIOUS
<1>1. CASE QuietAction \/ Closed \/ UNCHANGED vars
  BY <1>1, QuietActions, QuietStep
<1>2. CASE Enqueue \/ PushJob \/ Dispatch \/ Stop
  BY <1>2, EnqueueStep, PushJobStep, DispatchStep, StopStep
<1>3. ASSUME NEW r \in Row, CancelRow(r) PROVE IInv'
  BY <1>3, CancelStep
<1>4. CASE WPop \/ WRemove \/ WCancelWaiting
  BY <1>4, PopStep, RemoveStep, CancelWaitingStep
<1> QED
  BY <1>1, <1>2, <1>3, <1>4 DEF Next, Thread, QuietAction

(* The invariant holds in every reachable state. *)
THEOREM Invariance == Spec => []IInv
  BY InitIInv, NextIInv, PTL DEF Spec

(* Every variable keeps its type, for any number of rows.                  *)
THEOREM TypeCorrect == Spec => []TypeOK
<1>1. IInv => TypeOK
  BY DEF IInv
<1> QED
  BY Invariance, <1>1, PTL

(* job_id, the places in the channel and the rows of the dialog agree, and *)
(* no event or cancellation is about a row that is not there.              *)
THEOREM CountIsRow == Spec => []RowsAgree
<1>1. IInv => RowsAgree
  BY DEF IInv
<1> QED
  BY Invariance, <1>1, PTL

-----------------------------------------------------------------------------
(* The temporary files: each action adds and removes what it adds to and   *)
(* removes from the jobs.                                                  *)
LEMMA AppendRows ==
  ASSUME IInv, NEW job \in Job, jobs' = Append(jobs, job)
  PROVE  JobRows' = JobRows \cup ({job.row} \ {NoRow})
<1>1. jobs \in Seq(Job)
  BY DEF IInv, TypeOK
<1>2. /\ Len(jobs) \in Nat /\ DOMAIN jobs = 1 .. Len(jobs)
      /\ DOMAIN jobs' = (1 .. Len(jobs)) \cup {Len(jobs) + 1}
      /\ jobs'[Len(jobs) + 1] = job
      /\ \A i \in 1 .. Len(jobs) : jobs'[i] = jobs[i]
  <2>1. /\ Len(jobs) \in Nat /\ DOMAIN jobs = 1 .. Len(jobs)
        /\ DOMAIN jobs' = 1 .. Len(jobs) + 1
        /\ jobs'[Len(jobs) + 1] = job
        /\ \A i \in 1 .. Len(jobs) : jobs'[i] = jobs[i]
    BY <1>1, AppendFacts
  <2>2. 1 .. Len(jobs) + 1 = (1 .. Len(jobs)) \cup {Len(jobs) + 1}
    BY <2>1
  <2> QED
    BY <2>1, <2>2
<1> QED
  BY <1>2 DEF JobRows

LEMMA TailRows ==
  ASSUME IInv, jobs # <<>>, jobs' = Tail(jobs)
  PROVE  JobRows = JobRows' \cup ({Head(jobs).row} \ {NoRow})
<1>1. jobs \in Seq(Job)
  BY DEF IInv, TypeOK
<1>2. /\ Head(jobs) = jobs[1] /\ 1 \in DOMAIN jobs
      /\ \A k \in DOMAIN jobs' : k + 1 \in DOMAIN jobs /\ jobs'[k] = jobs[k + 1]
      /\ \A i \in DOMAIN jobs : i = 1 \/ (i - 1 \in DOMAIN jobs' /\ jobs'[i - 1] = jobs[i])
  BY <1>1, TailFacts
<1>3. JobRows' \subseteq JobRows /\ {Head(jobs).row} \ {NoRow} \subseteq JobRows
  BY <1>2 DEF JobRows
<1>4. ASSUME NEW r \in JobRows, r # Head(jobs).row PROVE r \in JobRows'
  <2>1. PICK i \in DOMAIN jobs : jobs[i].row = r
    BY DEF JobRows
  <2>2. i - 1 \in DOMAIN jobs' /\ jobs'[i - 1].row = r
    BY <1>2, <1>4, <2>1
  <2> QED
    BY <1>4, <2>2 DEF JobRows
<1>5. \A r \in JobRows : r # NoRow
  BY DEF JobRows
<1> QED
  BY <1>3, <1>4, <1>5

LEMMA FilesStep == IInv /\ FilesOwned /\ [Next]_vars => FilesOwned'
<1> SUFFICES ASSUME IInv, FilesOwned, [Next]_vars PROVE FilesOwned'
  OBVIOUS
<1> DEFINE Last == IF pushing THEN {Len(rows) - 1} ELSE {}
<1>0. pc # "ended" => sources = JobRows \cup ({cur.row} \ {NoRow}) \cup Last
  BY DEF FilesOwned
<1>1. ASSUME UNCHANGED <<jobs, cur, pushing, sources>>, Len(rows') = Len(rows),
             pc' # "ended" => pc # "ended"
      PROVE  FilesOwned'
  BY <1>0, <1>1 DEF FilesOwned, JobRows
<1>2. CASE \/ WLoop \/ WTake \/ WProgress \/ WFail \/ WCancelOwn \/ WCancelIgnored
           \/ WUnlock \/ WReport \/ WSucceed \/ WFailed \/ WThrow
           \/ Closed \/ UNCHANGED vars
  BY <1>1, <1>2 DEF WLoop, WTake, WProgress, WFail, WCancelOwn, WCancelIgnored,
                    WUnlock, WReport, WSucceed, WFailed, WThrow,
                    Closed, vars, thread, channels, Locked
<1>12. CASE WResolve \/ WDismiss \/ WFirstFails \/ WAbort
  BY <1>1, <1>12 DEF WResolve, WDismiss, WFirstFails, WAbort, channels
<1>3. CASE WCleanup
  BY <1>3 DEF WCleanup, FilesOwned
<1>4. ASSUME NEW r \in Row, CancelRow(r) PROVE FilesOwned'
  BY <1>1, <1>4 DEF CancelRow, thread
<1>5. CASE WCancelWaiting
  <2>1. JobRows' = JobRows
    BY <1>5, CancelWaitingFacts DEF JobRows
  <2> QED
    BY <1>0, <1>5, <2>1 DEF WCancelWaiting, FilesOwned, thread, Locked
<1>6. CASE Dispatch
  <2>1. /\ rows \in Seq({"new", "progress", "error", "cancelled", "completed"})
        /\ events \in Seq(Event) /\ events # <<>>
        /\ \A k \in DOMAIN events : events[k].id < Len(rows)
    BY <1>6 DEF Dispatch, IInv, TypeOK, RowsAgree
  <2>2. Head(events) \in Event /\ Head(events).id < Len(rows)
    BY <2>1, TailFacts
  <2>3. /\ Head(events).id + 1 \in DOMAIN rows
        /\ Head(events).shows \in {"new", "progress", "error", "cancelled", "completed"}
    BY <2>1, <2>2 DEF Event, Row
  <2>4. Len(rows') = Len(rows)
    BY <1>6, <2>1, <2>3, UpdateFacts DEF Dispatch
  <2> QED
    BY <1>1, <1>6, <2>4 DEF Dispatch, channels, thread
<1>7. CASE Enqueue
  <2>1. /\ ~pushing /\ pushing' = TRUE /\ Len(rows') - 1 = Len(rows)
        /\ sources' = sources \cup {Len(rows)}
        /\ pc' # "ended" => pc # "ended"
    BY <1>7, AppendFacts DEF Enqueue, IInv, TypeOK
  <2>2. UNCHANGED <<jobs, cur>>
    BY <1>7 DEF Enqueue, channels
  <2> QED
    BY <1>0, <2>1, <2>2 DEF FilesOwned, JobRows
<1>8. CASE PushJob
  <2>1. NewJob \in Job /\ NewJob.row = Len(rows) - 1 /\ NewJob.row # NoRow
    BY <1>8, RowInRange DEF PushJob, NewJob, Job, Row, NoRow
  <2>2. JobRows' = JobRows \cup {Len(rows) - 1}
    BY <1>8, <2>1, AppendRows DEF PushJob
  <2> QED
    BY <1>0, <1>8, <2>2 DEF PushJob, FilesOwned, thread
<1>9. CASE Stop
  <2>1. JobRows' = JobRows
    <3>1. EmptyJob \in Job /\ EmptyJob.row = NoRow
      BY DEF EmptyJob, Job
    <3>2. CASE jobs' = Append(jobs, EmptyJob)
      BY <3>1, <3>2, AppendRows
    <3>3. CASE jobs' = jobs
      BY <3>3 DEF JobRows
    <3> QED
      BY <1>9, <3>2, <3>3 DEF Stop
  <2> QED
    BY <1>0, <1>9, <2>1 DEF Stop, FilesOwned, thread
<1>10. CASE WPop
  <2>1. /\ JobRows = JobRows' \cup ({cur'.row} \ {NoRow})
        /\ cur.row = NoRow /\ pc # "ended"
        /\ UNCHANGED <<pushing, rows, sources>>
    BY <1>10, TailRows DEF WPop, IInv, CountsAgree
  <2> QED
    BY <1>0, <2>1 DEF FilesOwned
<1>11. CASE WRemove
  <2>1. /\ cur.row = jobId /\ jobId \in Nat /\ cur.row # NoRow /\ Taken = 1
        /\ RowsAgree /\ CountsAgree /\ jobs \in Seq(Job)
    BY <1>11 DEF WRemove, IInv, TypeOK, RowsAgree, CountsAgree, AtJob, Taken
  <2>2. cur.row \notin JobRows
    <3>1. \A i \in DOMAIN jobs : jobs[i].row # NoRow => jobs[i].row > jobId
      <4>1. \A i \in DOMAIN jobs : i \in Nat \ {0}
        BY <2>1
      <4>2. \A i \in DOMAIN jobs : jobs[i].row # NoRow => jobs[i].row = jobId + 1 + i - 1
        BY <2>1 DEF RowsAgree
      <4> QED
        BY <2>1, <4>1, <4>2
    <3> QED
      BY <2>1, <3>1 DEF JobRows
  <2>3. cur.row \notin Last
    <3>1. pushing => Len(rows) = jobId + 1 + Waiting + 1 /\ Waiting \in Nat
      BY <2>1, RowInRange DEF CountsAgree, Unpushed
    <3> QED
      BY <2>1, <3>1
  <2>4. /\ sources' = sources \ {cur.row} /\ cur'.row = NoRow /\ pc # "ended"
        /\ UNCHANGED <<jobs, pushing, rows>>
    BY <1>11 DEF WRemove, EmptyJob, channels
  <2> QED
    BY <1>0, <2>2, <2>3, <2>4 DEF FilesOwned, JobRows
<1> QED
  BY <1>2, <1>3, <1>4, <1>5, <1>6, <1>7, <1>8, <1>9, <1>10, <1>11, <1>12
     DEF Next, Thread

(* A temporary file exists exactly as long as its job, until the thread    *)
(* ends.                                                                   *)
THEOREM FilesFollowJobs == Spec => []FilesOwned
<1>1. Init => FilesOwned
  BY InitIInv
<1> QED
  BY Invariance, FilesStep, <1>1, PTL DEF Spec

-----------------------------------------------------------------------------
(* What a row shows, or is going to show once its events are through.      *)
Said(r) == {rows[r + 1]} \cup
           {events[k].shows : k \in {l \in DOMAIN events : events[l].id = r}}

Final == {"cancelled", "error"}

(* What may have been said about a job in hand that is not decided: that   *)
(* it is cancelled, before the second address was tried.                   *)
Excused(r) == IF r \in retried THEN {"cancelled"} ELSE {}

(* Nothing has been decided yet about the job in hand.                     *)
Undecided ==
    \/ pc \in {"resolve", "upload", "progress", "report", "abort", "failed"}
    \/ pc = "taken" /\ ~cur.cancelled
    \/ pc = "failing" /\ ~asked

(* The mark of a job in the channel, and the place of the thread, say what *)
(* has been said about the rows; what is uploaded at the first attempt was *)
(* never cancelled.                                                        *)
Told ==
    /\ Undecided => Said(jobId) \cap Final \subseteq Excused(jobId)
    /\ attempt = "second" => cur.row \in retried
    /\ pc = "failing" => "error" \notin Said(jobId)
    /\ \A i \in DOMAIN jobs : jobs[i].row # NoRow =>
         Said(jobs[i].row) \cap Final \subseteq IF jobs[i].cancelled THEN {"cancelled"} ELSE {}
    /\ pushing => Said(Len(rows) - 1) \cap Final = {}
    /\ \A r \in uploaded : /\ "cancelled" \in Said(r) => r \in retried
                           /\ r < jobId \/ (r = jobId /\ pc = "remove")

LEMMA InitTold == Init => Told
  BY DEF Init, Told, Undecided

LEMMA SaidOfInts ==
  ASSUME IInv
  PROVE  /\ jobId \in Int /\ uploaded \subseteq Int /\ Len(rows) - 1 \in Int
         /\ \A i \in DOMAIN jobs : jobs[i].row # NoRow => jobs[i].row \in Int
<1>1. Row \subseteq Int /\ jobId \in Nat /\ uploaded \subseteq Row /\ Len(rows) \in Nat
  BY BoundsAssumption, RowInRange DEF Row, IInv, TypeOK
<1>2. \A i \in DOMAIN jobs : jobs[i].row # NoRow => jobs[i].row \in Int
  BY <1>1, JobRowInRange
<1>3. jobId \in Int /\ uploaded \subseteq Int /\ Len(rows) - 1 \in Int
  BY <1>1
<1> QED
  BY <1>2, <1>3

LEMMA UploadedInRange ==
  ASSUME IInv, Told, NEW r \in uploaded
  PROVE  r \in Row /\ r < Len(rows)
<1>1. jobId <= Len(rows) /\ (pc = "remove" => jobId < Len(rows)) /\ Len(rows) \in Nat
  BY RowInRange DEF IInv, CountsAgree, TypeOK, Taken, Unpushed, AtJob
<1>2. uploaded \subseteq Row /\ jobId \in Nat /\ \A n \in Row : n \in Int
  BY BoundsAssumption DEF IInv, TypeOK, Row
<1> QED
  BY <1>1, <1>2 DEF Told

LEMMA DispatchRows == ASSUME IInv, Dispatch PROVE Len(rows') = Len(rows)
<1>1. /\ rows \in Seq({"new", "progress", "error", "cancelled", "completed"})
      /\ rows' = [rows EXCEPT ![Head(events).id + 1] = Head(events).shows]
  BY DEF IInv, TypeOK, Dispatch
<1> QED
  BY <1>1

LEMMA SaidSame == UNCHANGED <<rows, events>> => \A r \in Int : Said(r)' = Said(r)
  BY DEF Said

LEMMA SaidEmit ==
  ASSUME IInv, NEW id, NEW shows, Emit(id, shows), UNCHANGED rows
  PROVE  \A r \in Int : Said(r)' = IF r = id THEN Said(r) \cup {shows} ELSE Said(r)
<1> DEFINE e == [shows |-> shows, id |-> id]
<1>1. /\ events \in Seq(Event) /\ events' = Append(events, e)
  BY DEF IInv, TypeOK, Emit
<1>2. /\ Len(events) \in Nat /\ DOMAIN events = 1 .. Len(events)
      /\ DOMAIN events' = (1 .. Len(events)) \cup {Len(events) + 1}
      /\ events'[Len(events) + 1] = e
      /\ \A k \in 1 .. Len(events) : events'[k] = events[k]
  BY <1>1
<1>3. e.id = id /\ e.shows = shows
  OBVIOUS
<1>4. ASSUME NEW r \in Int
      PROVE  Said(r)' = IF r = id THEN Said(r) \cup {shows} ELSE Said(r)
  <2> DEFINE Old == {l \in DOMAIN events : events[l].id = r}
             New == {l \in DOMAIN events' : events'[l].id = r}
  <2>1. New = IF r = id THEN Old \cup {Len(events) + 1} ELSE Old
    BY <1>2, <1>3
  <2>2. \A k \in Old : events'[k].shows = events[k].shows
    BY <1>2
  <2>3. {events'[k].shows : k \in New} =
          {events[k].shows : k \in Old} \cup IF r = id THEN {shows} ELSE {}
    BY <1>2, <1>3, <2>1, <2>2
  <2> QED
    BY <2>3 DEF Said
<1> QED
  BY <1>4

LEMMA SaidDispatch ==
  ASSUME IInv, Dispatch, NEW r \in Row, r < Len(rows)
  PROVE  Said(r)' \subseteq Said(r)
<1> DEFINE States == {"new", "progress", "error", "cancelled", "completed"}
<1>1. /\ rows \in Seq(States) /\ events \in Seq(Event) /\ events # <<>>
      /\ events' = Tail(events)
      /\ rows' = [rows EXCEPT ![Head(events).id + 1] = Head(events).shows]
  BY DEF IInv, TypeOK, Dispatch
<1>2. /\ 1 \in DOMAIN events /\ Head(events) = events[1]
      /\ \A k \in DOMAIN events' : k + 1 \in DOMAIN events /\ events'[k] = events[k + 1]
  BY <1>1, TailFacts
<1>3. {events'[k].shows : k \in {l \in DOMAIN events' : events'[l].id = r}} \subseteq Said(r)
  BY <1>2 DEF Said
<1>4. rows'[r + 1] \in Said(r)
  <2>1. events[1].id \in Row /\ r \in Int /\ events[1].id \in Int
    <3>1. events[1] \in Event
      BY <1>1, <1>2
    <3>2. Row \subseteq Int /\ \A e \in Event : e.id \in Row
      BY BoundsAssumption DEF Event, Row
    <3> QED
      BY <3>1, <3>2
  <2>2. r + 1 \in DOMAIN rows
    BY <1>1, BoundsAssumption DEF Row
  <2>3. CASE events[1].id = r
    <3>1. rows'[r + 1] = events[1].shows
      BY <1>1, <1>2, <2>2, <2>3
    <3> QED
      BY <1>2, <2>3, <3>1 DEF Said
  <2>4. CASE events[1].id # r
    <3>1. rows'[r + 1] = rows[r + 1]
      BY <1>1, <1>2, <2>1, <2>2, <2>4
    <3> QED
      BY <3>1 DEF Said
  <2> QED
    BY <2>3, <2>4
<1> QED
  BY <1>3, <1>4 DEF Said

LEMMA SaidEnqueue ==
  ASSUME IInv, Enqueue
  PROVE  /\ \A r \in Row : r < Len(rows) => Said(r)' = Said(r)
         /\ Len(rows') = Len(rows) + 1
         /\ \A r \in Int : r = Len(rows) => Said(r)' = {"new"}
<1> DEFINE States == {"new", "progress", "error", "cancelled", "completed"}
<1>1. /\ rows \in Seq(States) /\ rows' = Append(rows, "new") /\ UNCHANGED events
      /\ events \in Seq(Event)
      /\ \A k \in DOMAIN events : events[k].id < Len(rows) /\ events[k].id \in Int
  <2>1. /\ rows \in Seq(States) /\ rows' = Append(rows, "new") /\ UNCHANGED events
        /\ events \in Seq(Event) /\ \A k \in DOMAIN events : events[k].id < Len(rows)
    BY DEF IInv, TypeOK, RowsAgree, Enqueue
  <2>2. \A e \in Event : e.id \in Int
    BY BoundsAssumption DEF Event, Row
  <2> QED
    BY <2>1, <2>2
<1>2. /\ Len(rows') = Len(rows) + 1 /\ Len(rows) \in Nat /\ rows'[Len(rows) + 1] = "new"
      /\ \A r \in Row : r < Len(rows) => rows'[r + 1] = rows[r + 1]
  BY <1>1 DEF Row
<1>3. {l \in DOMAIN events : events[l].id = Len(rows)} = {}
  BY <1>1, <1>2
<1>4. ASSUME NEW r \in Int, r = Len(rows) PROVE Said(r)' = {"new"}
  <2>1. Said(r)' = {rows'[r + 1]} \cup {events'[k].shows : k \in {}}
    BY <1>1, <1>3, <1>4 DEF Said
  <2>2. {events'[k].shows : k \in {}} = {}
    OBVIOUS
  <2> QED
    BY <1>2, <1>4, <2>1, <2>2
<1>6. \A r \in Row : r < Len(rows) => Said(r)' = Said(r)
  BY <1>1, <1>2 DEF Said
<1> QED
  BY <1>2, <1>4, <1>6

-----------------------------------------------------------------------------
(* Steps of the thread at the job in hand that say S about it.             *)
LEMMA HandTold ==
  ASSUME IInv, Told, UNCHANGED <<jobs, jobId, cur, pushing>>, Len(rows') = Len(rows),
         NEW S,
         \A r \in Int : Said(r)' = IF r = jobId THEN Said(r) \cup S ELSE Said(r),
         S # {} => pc \in AtJob,
         retried \subseteq retried',
         attempt' = "second" => attempt = "second" \/ cur.row \in retried',
         Undecided' => Undecided /\ S \cap Final \subseteq Excused(jobId)',
         pc' = "failing" => (Undecided \/ pc = "failing") /\ "error" \notin S,
         \/ uploaded' = uploaded
         \/ uploaded' = uploaded \cup {jobId} /\ Undecided /\ pc' = "remove",
         "cancelled" \in S => jobId \notin uploaded',
         pc = "remove" => pc' = "remove"
  PROVE  Told'
<1>0. /\ jobId \in Int /\ uploaded \subseteq Int /\ Len(rows) \in Int
      /\ \A i \in DOMAIN jobs : jobs[i].row \in Int
  <2>1. jobs \in Seq(Job) /\ uploaded \subseteq Row /\ jobId \in Nat /\ Len(rows) \in Nat
    BY RowInRange DEF IInv, TypeOK
  <2>2. Row \subseteq Int /\ \A j \in Job : j.row \in Int
    BY BoundsAssumption DEF Job, Row, NoRow
  <2>3. \A i \in DOMAIN jobs : jobs[i] \in Job
    BY <2>1
  <2>4. \A i \in DOMAIN jobs : jobs[i].row \in Int
    BY <2>2, <2>3
  <2>5. uploaded \subseteq Int /\ jobId \in Int /\ Len(rows) \in Int
    BY <2>1, <2>2
  <2> QED
    BY <2>4, <2>5
<1>1. ASSUME pc \in AtJob, NEW i \in DOMAIN jobs, jobs[i].row # NoRow
      PROVE  jobs[i].row # jobId
  <2>1. Taken = 1 /\ jobs \in Seq(Job) /\ jobId \in Nat
    BY <1>1 DEF IInv, CountsAgree, TypeOK, Taken
  <2>2. i \in Nat \ {0} /\ jobs[i].row = jobId + 1 + i - 1
    BY <1>1, <2>1 DEF IInv, RowsAgree
  <2> QED
    BY <2>1, <2>2
<1>2. pc \in AtJob /\ pushing => Len(rows) - 1 # jobId
  <2> SUFFICES ASSUME pc \in AtJob, pushing PROVE Len(rows) - 1 # jobId
    OBVIOUS
  <2>1. Len(rows) = jobId + 1 + Waiting + 1 /\ Waiting \in Nat /\ jobId \in Nat
    BY RowInRange DEF IInv, CountsAgree, TypeOK, Taken, Unpushed
  <2> QED
    BY <2>1
<1>20. ASSUME NEW r \in Int, pc \in AtJob => r # jobId PROVE Said(r)' = Said(r)
  BY <1>20
<1>3. \A i \in DOMAIN jobs : jobs[i].row # NoRow => Said(jobs[i].row)' = Said(jobs[i].row)
  BY <1>0, <1>1, <1>20
<1>4. pushing => Said(Len(rows) - 1)' = Said(Len(rows) - 1)
  <2>1. Len(rows) - 1 \in Int /\ Len(rows') - 1 = Len(rows) - 1
    BY <1>0
  <2> QED
    BY <1>2, <1>20, <2>1
<1>5. /\ Said(jobId)' = Said(jobId) \cup S
      /\ Undecided => Said(jobId) \cap Final \subseteq Excused(jobId)
      /\ pc = "failing" => "error" \notin Said(jobId)
  BY <1>0 DEF Told
<1>50. Excused(jobId) \subseteq Excused(jobId)' /\ (attempt' = "second" => cur.row \in retried')
  BY DEF Excused, Told
<1>6. /\ Undecided' => Said(jobId)' \cap Final \subseteq Excused(jobId)'
      /\ pc' = "failing" => "error" \notin Said(jobId)'
  <2>1. Undecided' => Said(jobId)' \cap Final \subseteq Excused(jobId)'
    BY <1>5, <1>50
  <2>2. pc' = "failing" => "error" \notin Said(jobId)'
    BY <1>5 DEF Final, Excused
  <2> QED
    BY <2>1, <2>2
<1>7. ASSUME NEW r \in uploaded'
      PROVE  /\ "cancelled" \in Said(r)' => r \in retried'
             /\ r < jobId \/ (r = jobId /\ pc' = "remove")
  <2>1. CASE r \in uploaded
    <3>1. ("cancelled" \in Said(r) => r \in retried) /\ (r < jobId \/ (r = jobId /\ pc' = "remove"))
      BY <2>1 DEF Told
    <3> QED
      BY <1>0, <1>7, <2>1, <3>1
  <2>2. CASE r = jobId /\ Undecided /\ pc' = "remove"
    BY <1>5, <1>7, <2>2 DEF Final, Excused
  <2> QED
    BY <1>7, <2>1, <2>2
<1>8. Said(jobId)' = Said(jobId)' /\ jobId' = jobId
  OBVIOUS
<1> QED
  BY <1>3, <1>4, <1>50, <1>6, <1>7 DEF Told

(* The actions of the thread, and of the UI thread, that leave the jobs.   *)
LEMMA QuietTold == ASSUME IInv, Told, QuietAction \/ Closed \/ UNCHANGED vars PROVE Told'
<1>0. /\ UNCHANGED <<jobs, jobId, cur, pushing, rows>> /\ Len(rows') = Len(rows)
  BY QuietActions DEF Quiet
<1>1. pc \in AtJob => cur.row = jobId /\ jobId \in Int
  BY DEF IInv, TypeOK, RowsAgree, CountsAgree
<1>2. \A r \in uploaded : r < jobId \/ (r = jobId /\ pc = "remove")
  BY DEF Told
<1>3. pc # "remove" => jobId \notin uploaded
  <2>1. ~(jobId < jobId)
    BY DEF IInv, TypeOK
  <2> QED
    BY <1>2, <2>1
<1>4. ASSUME UNCHANGED <<rows, events, uploaded>>, Undecided' => Undecided,
             pc' = "failing" => Undecided \/ pc = "failing",
             pc = "remove" => pc' = "remove", retried \subseteq retried',
             attempt' = "second" => attempt = "second" \/ cur.row \in retried'
      PROVE  Told'
  <2>1. \A r \in Int : Said(r)' = IF r = jobId THEN Said(r) \cup {} ELSE Said(r)
    BY <1>4, SaidSame
  <2> QED
    BY <1>0, <1>4, <2>1, HandTold
<1>5. ASSUME NEW shows, Emit(jobId, shows), pc \in AtJob \ {"remove"},
             Undecided' => Undecided /\ {shows} \cap Final \subseteq Excused(jobId)',
             retried \subseteq retried',
             attempt' = "second" => attempt = "second" \/ cur.row \in retried',
             pc' = "failing" => (Undecided \/ pc = "failing") /\ shows # "error",
             \/ uploaded' = uploaded
             \/ /\ uploaded' = uploaded \cup {jobId} /\ Undecided
                /\ pc' = "remove" /\ shows # "cancelled"
      PROVE  Told'
  <2>1. \A r \in Int : Said(r)' = IF r = jobId THEN Said(r) \cup {shows} ELSE Said(r)
    BY <1>0, <1>5, SaidEmit
  <2>2. "cancelled" \in {shows} => jobId \notin uploaded'
    BY <1>3, <1>5
  <2>3. /\ {shows} # {} => pc \in AtJob
        /\ Undecided' => Undecided /\ {shows} \cap Final \subseteq Excused(jobId)'
        /\ pc' = "failing" => (Undecided \/ pc = "failing") /\ "error" \notin {shows}
        /\ pc = "remove" => pc' = "remove"
        /\ \/ uploaded' = uploaded
           \/ uploaded' = uploaded \cup {jobId} /\ Undecided /\ pc' = "remove"
    BY <1>5
  <2>4. retried \subseteq retried' /\ (attempt' = "second" => attempt = "second" \/ cur.row \in retried')
    BY <1>5
  <2> QED
    BY <1>0, <2>1, <2>2, <2>3, <2>4, HandTold
<1> USE DEF Undecided, AtJob, Locked, Final, history
<1>6. CASE WLoop \/ WCleanup \/ WProgress \/ WFail \/ WCancelIgnored \/ WUnlock
  BY <1>4, <1>6 DEF WLoop, WCleanup, WProgress, WFail, ErrorFn, WCancelIgnored, WUnlock, thread
<1>15. CASE WResolve \/ WDismiss \/ WFirstFails
  BY <1>4, <1>15 DEF WResolve, WDismiss, WFirstFails, SecondAddress
<1>7. CASE WTake
  <2>1. CASE cur.cancelled
    BY <1>4, <1>7, <2>1 DEF WTake
  <2>2. CASE ~cur.cancelled
    BY <1>5, <1>7, <2>2 DEF WTake
  <2> QED
    BY <2>1, <2>2
<1>8. CASE WCancelOwn
  <2>1. CASE pc = "failing"
    <3>1. /\ Emit(jobId, "cancelled") /\ pc' = pc /\ asked' = TRUE /\ cur' = cur
          /\ UNCHANGED <<uploaded, retried, attempt>>
      BY <1>8, <2>1 DEF WCancelOwn
    <3> QED
      BY <1>5, <2>1, <3>1
  <2>2. CASE pc # "failing"
    <3>1. UNCHANGED <<events, pc, cur, rows, uploaded, retried, attempt>>
      BY <1>8, <2>2 DEF WCancelOwn
    <3> QED
      BY <1>4, <1>8, <2>2, <3>1 DEF WCancelOwn
  <2> QED
    BY <2>1, <2>2
<1>9. CASE WReport
  <2>1. /\ pc = "report" /\ pc' = "upload" /\ UNCHANGED <<rows, uploaded, retried, attempt>>
        /\ \/ UNCHANGED events
           \/ \E x \in {"completed", "progress"} : Emit(jobId, x)
    BY <1>9 DEF WReport
  <2>2. CASE UNCHANGED events
    BY <1>4, <2>1, <2>2
  <2>3. ASSUME NEW x \in {"completed", "progress"}, Emit(jobId, x) PROVE Told'
    BY <1>5, <2>1, <2>3
  <2> QED
    BY <2>1, <2>2, <2>3
<1>10. CASE WAbort
  <2>1. /\ pc = "abort" /\ Emit(jobId, "cancelled") /\ UNCHANGED uploaded
        /\ cur.row = jobId /\ retried \subseteq retried'
    BY <1>1, <1>10 DEF WAbort, SecondAddress
  <2>2. attempt = "second" => jobId \in retried
    BY <2>1 DEF Told
  <2>3. /\ pc' # "remove" => jobId \in retried'
        /\ attempt' = "second" => attempt = "second" \/ cur.row \in retried'
    BY <1>10, <2>1, <2>2 DEF WAbort, SecondAddress
  <2> QED
    BY <1>5, <2>1, <2>3 DEF Excused
<1>11. CASE WFailed
  BY <1>5, <1>11 DEF WFailed
<1>12. CASE WThrow
  BY <1>5, <1>12 DEF WThrow
<1>13. CASE WSucceed
  <2>1. /\ pc = "upload" /\ pc' = "remove" /\ Emit(jobId, "completed")
        /\ uploaded' = uploaded \cup {jobId} /\ UNCHANGED <<retried, attempt>>
    BY <1>1, <1>13 DEF WSucceed
  <2> QED
    BY <1>5, <2>1
<1>14. CASE Closed \/ UNCHANGED vars
  BY <1>4, <1>14 DEF Closed, vars, thread
<1> QED
  BY <1>6, <1>7, <1>8, <1>9, <1>10, <1>11, <1>12, <1>13, <1>14, <1>15 DEF QuietAction

(* The other actions. *)
LEMMA ToldEnqueue == ASSUME IInv, Told, Enqueue PROVE Told'
<1>0. /\ TypeOK /\ RowsAgree /\ CountsAgree
  BY DEF IInv
<1>1. /\ UNCHANGED <<jobs, jobId, cur, asked, attempt, uploaded, retried, events>>
      /\ ~pushing /\ pushing' = TRUE
      /\ pc' = IF pc = "none" THEN "loop" ELSE pc
  BY DEF Enqueue, channels, history
<1>2. /\ Len(rows') = Len(rows) + 1 /\ Len(rows) \in Nat
      /\ \A r \in Row : r < Len(rows) => Said(r)' = Said(r)
      /\ \A r \in Int : r = Len(rows) => Said(r)' = {"new"}
  BY SaidEnqueue, RowInRange
<1>3. Undecided \/ pc = "failing" => jobId \in Row /\ jobId < Len(rows)
  BY <1>0, RowInRange DEF CountsAgree, Undecided, AtJob, Locked
<1>4. /\ Undecided' => Said(jobId)' \cap Final \subseteq Excused(jobId)
      /\ pc' = "failing" => "error" \notin Said(jobId)'
  BY <1>1, <1>2, <1>3 DEF Told, Undecided
<1>5. \A i \in DOMAIN jobs : jobs[i].row # NoRow => jobs[i].row \in Row /\ jobs[i].row < Len(rows)
  BY <1>0, JobRowInRange
<1>6. pushing' => Said(Len(rows) - 1)' \cap Final = {}
  <2>1. Len(rows') - 1 = Len(rows) /\ Len(rows) \in Int
    BY <1>2
  <2>2. Said(Len(rows) - 1)' = {"new"}
    BY <1>2, <2>1
  <2> QED
    BY <2>2 DEF Final
<1>7. \A r \in uploaded : r \in Row /\ r < Len(rows)
  BY UploadedInRange
<1>8. \A i \in DOMAIN jobs : jobs[i].row # NoRow => Said(jobs[i].row)' = Said(jobs[i].row)
  BY <1>1, <1>2, <1>5
<1>9. \A r \in uploaded : /\ "cancelled" \in Said(r)' => r \in retried
                          /\ r < jobId \/ (r = jobId /\ pc' = "remove")
  BY <1>1, <1>2, <1>7 DEF Told
<1> QED
  BY <1>1, <1>4, <1>6, <1>8, <1>9 DEF Told, Excused

LEMMA ToldPush == ASSUME IInv, Told, PushJob PROVE Told'
<1>0. /\ UNCHANGED <<jobId, cur, pc, asked, attempt, uploaded, retried, events, rows>>
      /\ pushing /\ ~pushing'
      /\ jobs' = Append(jobs, NewJob) /\ jobs \in Seq(Job)
  BY DEF PushJob, thread, history, IInv, TypeOK
<1>1. /\ Len(jobs) \in Nat /\ DOMAIN jobs = 1 .. Len(jobs)
      /\ DOMAIN jobs' = (1 .. Len(jobs)) \cup {Len(jobs) + 1}
      /\ jobs'[Len(jobs) + 1] = NewJob
      /\ \A i \in 1 .. Len(jobs) : jobs'[i] = jobs[i]
  BY <1>0
<1>2. NewJob.row = Len(rows) - 1 /\ NewJob.row # NoRow
  BY RowInRange, <1>0 DEF NewJob, Row, NoRow
<1>3. /\ \A r \in Int : Said(r)' = Said(r) /\ Undecided' = Undecided
      /\ jobId \in Int /\ uploaded \subseteq Int
      /\ \A i \in DOMAIN jobs : jobs[i].row # NoRow => jobs[i].row \in Int
  <2>1. \A i \in DOMAIN jobs : jobs[i].row # NoRow => jobs[i].row \in Row
    BY JobRowInRange
  <2>2. Row \subseteq Int /\ jobId \in Int /\ uploaded \subseteq Row
    BY BoundsAssumption DEF Row, IInv, TypeOK
  <2> QED
    BY <1>0, <2>1, <2>2, SaidSame DEF Undecided
<1>4. ASSUME NEW i \in DOMAIN jobs', NEW r \in Int, r = jobs'[i].row, r # NoRow
      PROVE  Said(r)' \cap Final \subseteq IF jobs'[i].cancelled THEN {"cancelled"} ELSE {}
  <2>1. CASE i \in DOMAIN jobs
    <3>1. jobs'[i] = jobs[i]
      BY <1>1, <2>1
    <3>2. Said(r) \cap Final \subseteq IF jobs[i].cancelled THEN {"cancelled"} ELSE {}
      BY <1>4, <2>1, <3>1 DEF Told
    <3> QED
      BY <1>3, <3>1, <3>2
  <2>2. CASE i = Len(jobs) + 1
    <3>1. Said(r) \cap Final = {}
      BY <1>0, <1>1, <1>2, <1>4, <2>2 DEF Told
    <3> QED
      BY <1>3, <3>1
  <2> QED
    BY <1>1, <2>1, <2>2
<1>5. ASSUME NEW i \in DOMAIN jobs', jobs'[i].row # NoRow PROVE jobs'[i].row \in Int
  <2>1. Len(rows) - 1 \in Int
    BY RowInRange
  <2> QED
    BY <1>1, <1>2, <1>3, <1>5, <2>1
<1> QED
  BY <1>0, <1>3, <1>4, <1>5 DEF Told, Excused

LEMMA ToldDispatch == ASSUME IInv, Told, Dispatch PROVE Told'
<1>0. /\ UNCHANGED <<jobs, jobId, cur, pc, asked, attempt, pushing, uploaded, retried>>
      /\ TypeOK /\ RowsAgree /\ CountsAgree
  BY DEF Dispatch, channels, thread, history, IInv
<1>1. \A r \in Row : r < Len(rows) => Said(r)' \subseteq Said(r)
  BY SaidDispatch
<1>2. Len(rows') = Len(rows)
  BY DispatchRows
<1>3. Undecided \/ pc = "failing" => jobId \in Row /\ jobId < Len(rows)
  BY <1>0, RowInRange DEF CountsAgree, Undecided, AtJob, Locked
<1>4. pushing => Len(rows) - 1 \in Row /\ Len(rows) - 1 < Len(rows)
  BY RowInRange
<1>5. \A r \in uploaded : r \in Row /\ r < Len(rows)
  BY <1>0, UploadedInRange
<1>6. ASSUME pushing PROVE Said(Len(rows) - 1)' \cap Final = {}
  <2>1. Said(Len(rows) - 1)' \subseteq Said(Len(rows) - 1)
    BY <1>1, <1>2, <1>4, <1>6
  <2> QED
    BY <1>6, <2>1 DEF Told
<1>7. ASSUME NEW i \in DOMAIN jobs, jobs[i].row # NoRow
      PROVE  Said(jobs[i].row)' \cap Final
               \subseteq IF jobs[i].cancelled THEN {"cancelled"} ELSE {}
  <2>1. Said(jobs[i].row)' \subseteq Said(jobs[i].row)
    BY <1>0, <1>1, <1>7, JobRowInRange
  <2>2. Said(jobs[i].row) \cap Final \subseteq IF jobs[i].cancelled THEN {"cancelled"} ELSE {}
    BY <1>7 DEF Told
  <2> QED
    BY <2>1, <2>2
<1>8. /\ Undecided => Said(jobId)' \cap Final \subseteq Excused(jobId)
      /\ pc = "failing" => "error" \notin Said(jobId)'
  <2>1. Undecided \/ pc = "failing" => Said(jobId)' \subseteq Said(jobId)
    BY <1>0, <1>1, <1>3
  <2> QED
    BY <2>1 DEF Told
<1>9. \A r \in uploaded : /\ "cancelled" \in Said(r)' => r \in retried
                          /\ r < jobId \/ (r = jobId /\ pc = "remove")
  BY <1>1, <1>5 DEF Told
<1> QED
  BY <1>0, <1>2, <1>6, <1>7, <1>8, <1>9 DEF Told, Undecided, Excused

LEMMA ToldStop == ASSUME IInv, Told, Stop PROVE Told'
<1>0. /\ UNCHANGED <<jobId, cur, pc, asked, attempt, pushing, uploaded, retried, rows, events>>
      /\ jobs \in Seq(Job) /\ (jobs' = jobs \/ jobs' = Append(jobs, EmptyJob))
  BY DEF Stop, thread, history, IInv, TypeOK
<1>1. /\ Len(jobs) \in Nat /\ DOMAIN jobs = 1 .. Len(jobs)
      /\ \A i \in DOMAIN jobs' : jobs'[i].row # NoRow => i \in DOMAIN jobs /\ jobs'[i] = jobs[i]
  <2>1. EmptyJob.row = NoRow
    BY DEF EmptyJob
  <2>2. /\ Len(jobs) \in Nat /\ DOMAIN jobs = 1 .. Len(jobs)
        /\ \A i \in DOMAIN jobs' : \/ i \in DOMAIN jobs /\ jobs'[i] = jobs[i]
                                   \/ jobs'[i] = EmptyJob
    BY <1>0
  <2> QED
    BY <2>1, <2>2
<1>2. /\ \A r \in Int : Said(r)' = Said(r) /\ Undecided' = Undecided
      /\ jobId \in Int /\ uploaded \subseteq Int /\ Len(rows) - 1 \in Int
      /\ \A i \in DOMAIN jobs : jobs[i].row # NoRow => jobs[i].row \in Int
  BY <1>0, SaidSame, SaidOfInts DEF Undecided
<1>3. ASSUME NEW i \in DOMAIN jobs', NEW r \in Int, r = jobs'[i].row, r # NoRow
      PROVE  Said(r)' \cap Final \subseteq IF jobs'[i].cancelled THEN {"cancelled"} ELSE {}
  BY <1>1, <1>2, <1>3 DEF Told
<1>4. \A i \in DOMAIN jobs' : jobs'[i].row # NoRow => jobs'[i].row \in Int
  BY <1>1, <1>2
<1> QED
  BY <1>0, <1>2, <1>3, <1>4 DEF Told, Excused

LEMMA ToldCancel == ASSUME IInv, Told, NEW n \in Row, CancelRow(n) PROVE Told'
<1>0. UNCHANGED <<jobs, jobId, cur, pc, asked, attempt, pushing, uploaded, retried, rows, events>>
  BY DEF CancelRow, thread, history
<1> QED
  BY <1>0 DEF Told, Said, Undecided, Excused

LEMMA ToldPop == ASSUME IInv, Told, WPop PROVE Told'
<1>0. /\ UNCHANGED <<jobId, asked, attempt, pushing, uploaded, retried, rows, events>>
      /\ jobs \in Seq(Job) /\ pc = "pop" /\ jobs # <<>> /\ jobs' = Tail(jobs) /\ cur' = Head(jobs)
      /\ pc' = IF cur'.row = NoRow THEN "cleanup" ELSE "taken"
  BY DEF WPop, history, IInv, TypeOK
<1>1. /\ 1 \in DOMAIN jobs /\ cur' = jobs[1]
      /\ \A k \in DOMAIN jobs' : k + 1 \in DOMAIN jobs /\ jobs'[k] = jobs[k + 1]
  BY <1>0, TailFacts
<1>2. /\ \A r \in Int : Said(r)' = Said(r)
      /\ jobId \in Int /\ uploaded \subseteq Int /\ Len(rows) - 1 \in Int
      /\ \A i \in DOMAIN jobs : jobs[i].row # NoRow => jobs[i].row \in Int
  BY <1>0, SaidSame, SaidOfInts
<1>3. cur'.row # NoRow => cur'.row = jobId
  <2>1. Taken = 0 /\ jobId \in Nat
    BY <1>0 DEF IInv, CountsAgree, TypeOK, Taken
  <2>2. jobs[1].row # NoRow => jobs[1].row = jobId + 0 + 1 - 1
    BY <1>1, <2>1 DEF IInv, RowsAgree
  <2> QED
    BY <1>1, <2>1, <2>2
<1>4. Undecided' => Said(jobId)' \cap Final = {}
  <2> SUFFICES ASSUME Undecided' PROVE Said(jobId)' \cap Final = {}
    OBVIOUS
  <2>1. jobs[1].row = jobId /\ jobs[1].row # NoRow /\ ~jobs[1].cancelled
    BY <1>0, <1>1, <1>3 DEF Undecided
  <2>2. Said(jobId) \cap Final = {}
    BY <1>1, <2>1 DEF Told
  <2> QED
    BY <1>0, <1>2, <2>2
<1>5. ASSUME NEW i \in DOMAIN jobs', NEW r \in Int, r = jobs'[i].row, r # NoRow
      PROVE  Said(r)' \cap Final \subseteq IF jobs'[i].cancelled THEN {"cancelled"} ELSE {}
  BY <1>1, <1>2, <1>5 DEF Told
<1>6. \A i \in DOMAIN jobs' : jobs'[i].row # NoRow => jobs'[i].row \in Int
  BY <1>1, <1>2
<1>7. attempt # "second"
  <2>1. cur.row = NoRow /\ retried \subseteq Row
    BY <1>0 DEF IInv, CountsAgree, TypeOK
  <2>2. NoRow \notin Row
    BY BoundsAssumption DEF Row, NoRow
  <2> QED
    BY <2>1, <2>2 DEF Told
<1> QED
  BY <1>0, <1>2, <1>4, <1>5, <1>6, <1>7 DEF Told

LEMMA ToldRemove == ASSUME IInv, Told, WRemove PROVE Told'
<1>0. /\ UNCHANGED <<jobs, asked, pushing, uploaded, retried, rows, events>>
      /\ pc' = "loop" /\ jobId' = jobId + 1 /\ jobId \in Int /\ attempt' = "only"
  BY DEF WRemove, channels, history, IInv, TypeOK
<1>1. /\ \A r \in Int : Said(r)' = Said(r)
      /\ uploaded \subseteq Int /\ Len(rows) - 1 \in Int
      /\ \A i \in DOMAIN jobs : jobs[i].row # NoRow => jobs[i].row \in Int
  BY <1>0, SaidSame, SaidOfInts
<1>2. \A r \in uploaded : r < jobId + 1
  BY <1>0, <1>1 DEF Told
<1>3. ~Undecided' /\ pc' # "failing"
  BY <1>0 DEF Undecided
<1> QED
  BY <1>0, <1>1, <1>2, <1>3 DEF Told

LEMMA ToldCancelWaiting == ASSUME IInv, Told, WCancelWaiting PROVE Told'
<1> DEFINE id == Head(cancels)
           n  == Place(id)
<1>0. /\ UNCHANGED <<jobId, cur, pc, asked, attempt, pushing, uploaded, retried, rows>>
      /\ pc \in AtJob /\ id > jobId /\ n \in DOMAIN jobs /\ Emit(id, "cancelled")
      /\ jobs' = [jobs EXCEPT ![n].cancelled = TRUE] /\ jobs \in Seq(Job)
  BY DEF WCancelWaiting, thread, history, IInv, TypeOK, AtJob
<1>1. /\ DOMAIN jobs' = DOMAIN jobs /\ \A i \in DOMAIN jobs : jobs'[i].row = jobs[i].row
      /\ jobs[n].row = id /\ id \in Int /\ id # NoRow
  BY CancelWaitingFacts, BoundsAssumption DEF Row, NoRow
<1>2. \A r \in Int : Said(r)' = IF r = id THEN Said(r) \cup {"cancelled"} ELSE Said(r)
  BY <1>0, SaidEmit
<1>3. /\ jobs'[n].cancelled = TRUE /\ \A i \in DOMAIN jobs \ {n} : jobs'[i] = jobs[i]
  <2>1. jobs[n] \in Job
    BY <1>0
  <2> QED
    BY <1>0, <2>1 DEF Job
<1>4. /\ jobId \in Int /\ uploaded \subseteq Int /\ Len(rows) - 1 \in Int
      /\ \A i \in DOMAIN jobs : jobs[i].row # NoRow => jobs[i].row \in Int
  BY SaidOfInts
<1>5. \A i \in DOMAIN jobs \ {n} : jobs[i].row # NoRow => jobs[i].row # id
  <2>1. Taken = 1 /\ DOMAIN jobs \subseteq Int
    BY <1>0 DEF IInv, CountsAgree, Taken
  <2>2. \A i \in DOMAIN jobs : jobs[i].row # NoRow => jobs[i].row = jobId + 1 + i - 1
    BY <2>1 DEF IInv, RowsAgree
  <2> QED
    BY <1>0, <1>1, <1>4, <2>1, <2>2 DEF Place
<1>6. pushing => Len(rows) - 1 # id
  <2> SUFFICES ASSUME pushing PROVE Len(rows) - 1 # id
    OBVIOUS
  <2>1. Waiting = Len(jobs) /\ Len(rows) = jobId + 1 + Waiting + 1
    BY <1>0, RowInRange DEF IInv, CountsAgree, Taken, Unpushed
  <2>2. n \in 1 .. Len(jobs) /\ Len(jobs) \in Nat /\ n = id - jobId
    BY <1>0 DEF Place
  <2> QED
    BY <1>1, <1>4, <2>1, <2>2
<1>7. ASSUME NEW i \in DOMAIN jobs, NEW r \in Int, r = jobs[i].row, r # NoRow
      PROVE  Said(r)' \cap Final \subseteq IF jobs'[i].cancelled THEN {"cancelled"} ELSE {}
  <2>1. Said(r) \cap Final \subseteq IF jobs[i].cancelled THEN {"cancelled"} ELSE {}
    BY <1>7 DEF Told
  <2>2. CASE i = n
    <3>1. Said(r)' = Said(r) \cup {"cancelled"}
      BY <1>1, <1>2, <1>7, <2>2
    <3>2. Said(r) \cap Final \subseteq {"cancelled"}
      BY <2>1
    <3> QED
      BY <1>3, <2>2, <3>1, <3>2
  <2>3. CASE i # n
    BY <1>2, <1>3, <1>5, <1>7, <2>1, <2>3
  <2> QED
    BY <2>2, <2>3
<1>8. \A i \in DOMAIN jobs' : jobs'[i].row # NoRow => jobs'[i].row \in Int
  BY <1>1, <1>4
<1>9. /\ Undecided' = Undecided /\ Said(jobId)' = Said(jobId)
      /\ pushing => Said(Len(rows) - 1)' = Said(Len(rows) - 1)
  BY <1>0, <1>1, <1>2, <1>4, <1>6 DEF Undecided
<1>10. \A r \in uploaded : Said(r)' = Said(r)
  BY <1>0, <1>1, <1>2, <1>4 DEF Told
<1> QED
  BY <1>0, <1>1, <1>7, <1>8, <1>9, <1>10 DEF Told, Excused

LEMMA ToldStep == IInv /\ Told /\ [Next]_vars => Told'
<1> SUFFICES ASSUME IInv, Told, [Next]_vars PROVE Told'
  OBVIOUS
<1>1. ASSUME NEW r \in Row, CancelRow(r) PROVE Told'
  BY <1>1, ToldCancel
<1> QED
  BY <1>1, QuietTold, ToldEnqueue, ToldPush, ToldDispatch, ToldStop, ToldPop, ToldRemove,
     ToldCancelWaiting DEF Next, Thread, QuietAction

(* A job that is shown, or is about to be shown, as cancelled was not      *)
(* uploaded, whichever job the thread was at when it read the request,     *)
(* unless a second address was tried for it.                               *)
THEOREM CancelledJobsNotUploaded == Spec => []CancelledNotUploaded
<1>1. Told => CancelledNotUploaded
  BY DEF Told, CancelledNotUploaded, ShownCancelled, Said
<1> QED
  BY Invariance, InitTold, ToldStep, <1>1, PTL DEF Spec

-----------------------------------------------------------------------------
(* Once a row is said to have failed, or to be cancelled where no second   *)
(* address was tried, nothing else is said about it any more.              *)
FinalLast ==
    /\ \A k \in DOMAIN events : Settled(rows[events[k].id + 1], events[k].id) =>
         events[k].shows = rows[events[k].id + 1]
    /\ \A k, l \in DOMAIN events :
         k < l /\ events[k].id = events[l].id /\ Settled(events[k].shows, events[k].id) =>
           events[l].shows = events[k].shows

(* Nothing is settled about a job that is not decided.                     *)
LEMMA UndecidedUnsettled ==
  ASSUME Told, Undecided, NEW x \in Said(jobId)
  PROVE  ~Settled(x, jobId)
  BY DEF Told, Excused, Settled, Final

LEMMA EmitFinal ==
  ASSUME IInv, FinalLast, NEW id \in Row, NEW shows, Emit(id, shows), UNCHANGED rows,
         retried \subseteq retried', \A x \in Said(id) : Settled(x, id) => x = shows
  PROVE  FinalLast'
<1> DEFINE e == [shows |-> shows, id |-> id]
<1>1. events \in Seq(Event) /\ events' = Append(events, e)
  BY DEF IInv, TypeOK, Emit
<1>2. /\ Len(events) \in Nat /\ DOMAIN events = 1 .. Len(events)
      /\ DOMAIN events' = 1 .. Len(events) + 1
      /\ events'[Len(events) + 1] = e
      /\ \A k \in 1 .. Len(events) : events'[k] = events[k]
  BY <1>1
<1>3. e.id = id /\ e.shows = shows
  OBVIOUS
<1>4. \A k \in DOMAIN events : events[k].id = id => events[k].shows \in Said(id)
  BY DEF Said
<1>5. ASSUME NEW k \in DOMAIN events', Settled(rows[events[k].id + 1], events[k].id)'
      PROVE  events'[k].shows = rows'[events'[k].id + 1]
  <2>0. Settled(rows[events'[k].id + 1], events'[k].id)
    BY <1>5 DEF Settled
  <2>1. CASE k \in 1 .. Len(events)
    BY <1>2, <2>0, <2>1 DEF FinalLast
  <2>2. CASE k = Len(events) + 1
    <3>1. rows[id + 1] \in Said(id) /\ Settled(rows[id + 1], id)
      BY <1>2, <1>3, <2>0, <2>2 DEF Said
    <3> QED
      BY <1>2, <1>3, <2>2, <3>1
  <2> QED
    BY <1>2, <2>1, <2>2
<1>6. ASSUME NEW k \in DOMAIN events', NEW l \in DOMAIN events', k < l,
             events'[k].id = events'[l].id, Settled(events[k].shows, events[k].id)'
      PROVE  events'[l].shows = events'[k].shows
  <2>1. k \in 1 .. Len(events) /\ events'[k] = events[k]
    BY <1>2, <1>6
  <2>0. Settled(events[k].shows, events[k].id)
    BY <1>6, <2>1 DEF Settled
  <2>2. CASE l \in 1 .. Len(events)
    BY <1>2, <1>6, <2>0, <2>1, <2>2 DEF FinalLast
  <2>3. CASE l = Len(events) + 1
    <3>1. events[k].id = id
      BY <1>2, <1>3, <1>6, <2>1, <2>3
    <3>2. events[k].shows \in Said(id) /\ Settled(events[k].shows, id)
      BY <1>2, <1>4, <2>0, <2>1, <3>1
    <3> QED
      BY <1>2, <1>3, <2>1, <2>3, <3>2
  <2> QED
    BY <1>2, <2>2, <2>3
<1> QED
  BY <1>5, <1>6 DEF FinalLast

LEMMA DispatchFinal ==
  ASSUME IInv, FinalLast, Dispatch
  PROVE  /\ FinalLast'
         /\ \A i \in DOMAIN rows : Settled(rows[i], i - 1) => rows'[i] = rows[i]
<1> DEFINE States == {"new", "progress", "error", "cancelled", "completed"}
           n == events[1].id + 1
<1>1. /\ rows \in Seq(States) /\ events \in Seq(Event) /\ events # <<>>
      /\ events' = Tail(events)
      /\ rows' = [rows EXCEPT ![Head(events).id + 1] = Head(events).shows]
      /\ \A k \in DOMAIN events : events[k].id < Len(rows)
  BY DEF IInv, TypeOK, RowsAgree, Dispatch
<1>2. /\ 1 \in DOMAIN events /\ Head(events) = events[1] /\ DOMAIN events \subseteq Nat \ {0}
      /\ \A k \in DOMAIN events' : k + 1 \in DOMAIN events /\ events'[k] = events[k + 1]
      /\ DOMAIN events' \subseteq Nat \ {0}
  BY <1>1, TailFacts
<1>3. \A k \in DOMAIN events : events[k].id \in Row /\ events[k].id + 1 \in DOMAIN rows
  <2>1. \A k \in DOMAIN events : events[k].id \in Row
    <3>1. \A e \in Event : e.id \in Row
      BY DEF Event
    <3> QED
      BY <1>1, <3>1
  <2>2. Row \subseteq Nat /\ DOMAIN rows = 1 .. Len(rows) /\ Len(rows) \in Nat
    BY <1>1, BoundsAssumption DEF Row
  <2>3. ASSUME NEW r \in Row, r < Len(rows) PROVE r + 1 \in DOMAIN rows
    BY <2>2, <2>3
  <2> QED
    BY <1>1, <2>1, <2>3
<1>4. /\ rows'[n] = events[1].shows /\ n \in DOMAIN rows
      /\ \A i \in DOMAIN rows \ {n} : rows'[i] = rows[i]
  BY <1>1, <1>2, <1>3
<1>6. Row \subseteq Int
  BY BoundsAssumption DEF Row
<1>5. ASSUME NEW i \in DOMAIN rows, Settled(rows[i], i - 1) PROVE rows'[i] = rows[i]
  <2>1. CASE i = n
    <3>1. i - 1 = events[1].id
      <4>1. events[1].id \in Int /\ i = events[1].id + 1
        BY <1>2, <1>3, <1>6, <2>1
      <4> QED
        BY <4>1
    <3> QED
      BY <1>2, <1>4, <1>5, <2>1, <3>1 DEF FinalLast
  <2> QED
    BY <1>4, <2>1
<1>60. UNCHANGED retried
  BY DEF Dispatch, history
<1>7. ASSUME NEW k \in DOMAIN events', Settled(rows[events[k].id + 1], events[k].id)'
      PROVE  events'[k].shows = rows'[events'[k].id + 1]
  <2>1. k + 1 \in DOMAIN events /\ events'[k] = events[k + 1] /\ 1 < k + 1
    BY <1>2, <1>7
  <2>0. Settled(rows'[events[k + 1].id + 1], events[k + 1].id)
    BY <1>7, <1>60, <2>1 DEF Settled
  <2>2. CASE events[k + 1].id = events[1].id
    <3>1. Settled(events[1].shows, events[1].id)
      BY <1>4, <2>0, <2>2
    <3>2. events[k + 1].shows = events[1].shows
      BY <1>2, <2>1, <2>2, <3>1 DEF FinalLast
    <3> QED
      BY <1>4, <2>1, <2>2, <3>2
  <2>3. CASE events[k + 1].id # events[1].id
    <3>1. events[k + 1].id + 1 # n
      <4>1. events[k + 1].id \in Int /\ events[1].id \in Int
        BY <1>2, <1>3, <1>6, <2>1
      <4> QED
        BY <2>3, <4>1
    <3>2. rows'[events[k + 1].id + 1] = rows[events[k + 1].id + 1]
      BY <1>3, <1>4, <2>1, <3>1
    <3> QED
      BY <2>0, <2>1, <3>2 DEF FinalLast
  <2> QED
    BY <2>2, <2>3
<1>8. ASSUME NEW k \in DOMAIN events', NEW l \in DOMAIN events', k < l,
             events'[k].id = events'[l].id, Settled(events[k].shows, events[k].id)'
      PROVE  events'[l].shows = events'[k].shows
  <2>1. /\ k + 1 < l + 1 /\ events'[k] = events[k + 1]
        /\ Settled(events[k + 1].shows, events[k + 1].id)
    BY <1>2, <1>8, <1>60 DEF Settled
  <2> QED
    BY <1>2, <1>8, <2>1 DEF FinalLast
<1> QED
  BY <1>5, <1>7, <1>8 DEF FinalLast

LEMMA EnqueueFinal ==
  ASSUME IInv, FinalLast, Enqueue
  PROVE  FinalLast' /\ \A i \in DOMAIN rows : rows'[i] = rows[i]
<1>1. /\ rows \in Seq({"new", "progress", "error", "cancelled", "completed"})
      /\ rows' = Append(rows, "new") /\ UNCHANGED events /\ events \in Seq(Event)
      /\ \A k \in DOMAIN events : events[k].id < Len(rows)
  BY DEF IInv, TypeOK, RowsAgree, Enqueue
<1>2. \A k \in DOMAIN events : events[k].id \in Nat
  <2>1. \A e \in Event : e.id \in Nat
    BY BoundsAssumption DEF Event, Row
  <2> QED
    BY <1>1, <2>1
<1>3. \A k \in DOMAIN events : events[k].id + 1 \in DOMAIN rows
  BY <1>1, <1>2
<1>4. \A i \in DOMAIN rows : rows'[i] = rows[i]
  BY <1>1
<1>5. UNCHANGED retried
  BY DEF Enqueue, history
<1> QED
  BY <1>1, <1>3, <1>4, <1>5 DEF FinalLast, Settled

(* No step changes a row that is settled, and none says more about it.     *)
LEMMA FinalStep ==
  ASSUME IInv, Told, FinalLast, [Next]_vars
  PROVE  /\ FinalLast'
         /\ \A i \in DOMAIN rows : Settled(rows[i], i - 1) => rows'[i] = rows[i]
<1> DEFINE Stays == \A i \in DOMAIN rows : Settled(rows[i], i - 1) => rows'[i] = rows[i]
<1>0. pc \in AtJob => jobId \in Row
  BY RowInRange DEF IInv, CountsAgree
<1>1. ASSUME UNCHANGED <<rows, events>>, retried \subseteq retried'
      PROVE  FinalLast' /\ Stays
  BY <1>1 DEF FinalLast, Settled
<1>2. ASSUME UNCHANGED rows, pc \in AtJob, NEW shows, Emit(jobId, shows),
             retried \subseteq retried',
             Undecided \/ (pc = "failing" /\ shows = "cancelled")
      PROVE  FinalLast' /\ Stays
  <2>1. ASSUME NEW x \in Said(jobId), Settled(x, jobId) PROVE x = shows
    <3>1. CASE Undecided
      BY <2>1, <3>1, UndecidedUnsettled
    <3>2. CASE pc = "failing" /\ shows = "cancelled"
      BY <2>1, <3>2 DEF Told, Settled
    <3> QED
      BY <1>2, <3>1, <3>2
  <2> QED
    BY <1>0, <1>2, <2>1, EmitFinal
<1> USE DEF Undecided, AtJob, Locked, history
<1>3. CASE WLoop \/ WPop \/ WProgress \/ WFail \/ WCancelIgnored \/ WUnlock \/ WRemove \/ WCleanup
  BY <1>1, <1>3 DEF WLoop, WPop, WProgress, WFail, WCancelIgnored, WUnlock, WRemove,
                    WCleanup, thread
<1>15. CASE WResolve \/ WDismiss \/ WFirstFails
  BY <1>1, <1>15 DEF WResolve, WDismiss, WFirstFails, SecondAddress
<1>4. CASE PushJob \/ Stop \/ Closed \/ UNCHANGED vars \/ \E r \in Row : CancelRow(r)
  BY <1>1, <1>4 DEF PushJob, Stop, Closed, vars, CancelRow
<1>5. CASE WTake
  <2>1. CASE cur.cancelled
    BY <1>1, <1>5, <2>1 DEF WTake
  <2>2. CASE ~cur.cancelled
    <3>1. Emit(jobId, "progress") /\ pc = "taken" /\ UNCHANGED <<rows, retried>>
      BY <1>5, <2>2 DEF WTake
    <3> QED
      BY <1>2, <2>2, <3>1
  <2> QED
    BY <2>1, <2>2
<1>6. CASE WCancelOwn
  <2>1. /\ UNCHANGED <<rows, retried>>
        /\ UNCHANGED events \/ (pc = "failing" /\ Emit(jobId, "cancelled"))
    BY <1>6 DEF WCancelOwn
  <2>2. CASE pc = "failing" /\ Emit(jobId, "cancelled")
    BY <1>2, <2>1, <2>2
  <2> QED
    BY <1>1, <2>1, <2>2
<1>7. CASE WReport
  <2>1. /\ UNCHANGED <<rows, retried>> /\ pc = "report"
        /\ \/ UNCHANGED events
           \/ \E x \in {"completed", "progress"} : Emit(jobId, x)
    BY <1>7 DEF WReport
  <2>2. ASSUME NEW x \in {"completed", "progress"}, Emit(jobId, x) PROVE FinalLast' /\ Stays
    BY <1>2, <2>1, <2>2
  <2> QED
    BY <1>1, <2>1, <2>2
<1>8. CASE WAbort
  BY <1>2, <1>8 DEF WAbort, SecondAddress
<1>9. CASE WSucceed
  BY <1>2, <1>9 DEF WSucceed
<1>10. CASE WFailed
  BY <1>2, <1>10 DEF WFailed
<1>11. CASE WThrow
  BY <1>2, <1>11 DEF WThrow
<1>12. CASE WCancelWaiting
  <2> DEFINE id == Head(cancels)
  <2>1. /\ id \in Row /\ Place(id) \in DOMAIN jobs /\ jobs[Place(id)].row = id
        /\ id # NoRow /\ Emit(id, "cancelled") /\ UNCHANGED <<rows, retried>>
    BY <1>12, CancelWaitingFacts, BoundsAssumption DEF WCancelWaiting, Row, NoRow
  <2>2. \A x \in Said(id) : Settled(x, id) => x = "cancelled"
    BY <2>1 DEF Told, Final, Settled
  <2>3. FinalLast'
    BY <2>1, <2>2, EmitFinal
  <2> QED
    BY <2>1, <2>3
<1>13. CASE Enqueue
  BY <1>13, EnqueueFinal
<1>14. CASE Dispatch
  BY <1>14, DispatchFinal
<1> QED
  BY <1>3, <1>4, <1>5, <1>6, <1>7, <1>8, <1>9, <1>10, <1>11, <1>12, <1>13, <1>14, <1>15
     DEF Next, Thread

(* A row that is shown as failed stays so, whatever events are queued for  *)
(* it, and one that is shown as cancelled too, unless a second address was *)
(* tried for it.                                                           *)
THEOREM FinalRowsStay == Spec => FinalStateStays
<1>1. Init => FinalLast
  BY DEF Init, FinalLast
<1>2. IInv /\ Told /\ FinalLast /\ [Next]_vars => FinalLast'
  BY FinalStep
<1>3. IInv /\ Told /\ FinalLast /\ [Next]_vars =>
        [\A i \in DOMAIN rows : Settled(rows[i], i - 1) => rows'[i] = rows[i]]_vars
  BY FinalStep
<1> QED
  BY Invariance, InitTold, ToldStep, <1>1, <1>2, <1>3, PTL DEF Spec, FinalStateStays

=============================================================================
