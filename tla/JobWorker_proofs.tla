--------------------------- MODULE JobWorker_proofs ---------------------------
(***************************************************************************)
(* The invariant IInv of JobWorker is inductive, for any set of jobs and   *)
(* any length of the queues; is_idle() and the verdict of a job follow.    *)
(* PlaceInv of JobRefinement is, on top of it: every job is in one place,  *)
(* so the worker implements the abstract executor.                         *)
(***************************************************************************)
EXTENDS JobRefinement, SequenceTheorems, TLAPS

LEMMA EmptyQueue == \A S : <<>> \in Seq(S)
  OBVIOUS

LEMMA InitIInv == Init => IInv
<1> SUFFICES ASSUME Init PROVE IInv
  OBVIOUS
<1> USE DEF Init, InHand, InJob
<1>1. TypeOK
  <2>1. /\ inq \in Seq(Jobs \cup {NoJob}) /\ outq \in Seq(Message)
        /\ todo \in Seq(Ops)
    BY EmptyQueue
  <2> QED
    BY <2>1 DEF TypeOK
<1>2. NoJobLost
  BY DEF NoJobLost
<1>3. FlagsTellPlace /\ RequestIsRecent /\ CanceledWasAsked
  BY DEF FlagsTellPlace, RequestIsRecent, CanceledWasAsked
<1> QED
  BY <1>1, <1>2, <1>3 DEF IInv

-----------------------------------------------------------------------------
(* Queues: what Append and Tail leave in a sequence. *)
LEMMA AppendTypes ==
  ASSUME NEW S, NEW s \in Seq(S), NEW e \in S
  PROVE  /\ Append(s, e) \in Seq(S)
         /\ \A i \in DOMAIN s : i \in DOMAIN Append(s, e) /\ Append(s, e)[i] = s[i]
         /\ \E i \in DOMAIN Append(s, e) : Append(s, e)[i] = e
<1>1. /\ Append(s, e) \in Seq(S)
      /\ Len(Append(s, e)) = Len(s) + 1 /\ Append(s, e)[Len(s) + 1] = e
      /\ \A i \in 1 .. Len(s) : Append(s, e)[i] = s[i]
  OBVIOUS
<1> QED
  BY <1>1

LEMMA TailTypes ==
  ASSUME NEW S, NEW s \in Seq(S), s # <<>>
  PROVE  /\ Tail(s) \in Seq(S) /\ Head(s) \in S
         /\ Head(s) = s[1] /\ Len(Tail(s)) = Len(s) - 1
         /\ \A k \in DOMAIN Tail(s) : k + 1 \in DOMAIN s /\ Tail(s)[k] = s[k + 1]
         /\ \A i \in DOMAIN s : s[i] = Head(s) \/ \E k \in DOMAIN Tail(s) : Tail(s)[k] = s[i]
<1>1. /\ Tail(s) \in Seq(S) /\ Head(s) \in S /\ Head(s) = s[1]
      /\ Len(Tail(s)) = Len(s) - 1
      /\ \A k \in 1 .. Len(s) - 1 : Tail(s)[k] = s[k + 1]
  OBVIOUS
<1>2. ASSUME NEW i \in DOMAIN s, s[i] # Head(s)
      PROVE  \E k \in DOMAIN Tail(s) : Tail(s)[k] = s[i]
  <2>1. i - 1 \in 1 .. Len(s) - 1 /\ Tail(s)[i - 1] = s[i]
    BY <1>1, <1>2
  <2> QED
    BY <1>1, <2>1
<1> QED
  BY <1>1, <1>2

-----------------------------------------------------------------------------
(* Type correctness, with the rest of the invariant as context. *)
LEMMA MessageTypes ==
  /\ Status \in Message /\ Call \in Message
  /\ \A j \in Jobs \cup {NoJob}, c \in BOOLEAN : Finalize(j, c) \in Message
BY DEF Status, Call, Finalize, Message

LEMMA HandlerTypes ==
  \A calls \in Handlers : /\ calls \in Seq(Ops)
                          /\ \A i \in DOMAIN calls : calls[i] = "push"
                                => /\ i = Len(calls)
                                   /\ calls = <<"clear", "cancel", "push">>
<1> DEFINE P(c) == /\ c \in Seq(Ops)
                   /\ \A i \in DOMAIN c : c[i] = "push"
                        => i = Len(c) /\ c = <<"clear", "cancel", "push">>
<1>1. P(<<"cancel">>) /\ P(<<"is_idle">>)
  BY DEF Ops
<1>2. P(<<"clear", "cancel">>) /\ P(<<"cancel", "wait_current">>)
  BY DEF Ops
<1>3. P(<<"clear", "cancel", "push">>)
  BY DEF Ops
<1>4. P(<<"clear", "cancel", "wait">>)
  BY DEF Ops
<1>5. P(<<"clear", "cancel", "wait", "sentinel", "join">>)
  BY DEF Ops
<1> QED
  BY <1>1, <1>2, <1>3, <1>4, <1>5 DEF Handlers

LEMMA StepType == IInv /\ [Next]_vars => TypeOK'
<1> SUFFICES ASSUME IInv, [Next]_vars PROVE TypeOK'
  OBVIOUS
<1> USE DEF IInv, TypeOK
<1>0. /\ inq # <<>> => /\ Tail(inq) \in Seq(Jobs \cup {NoJob})
                      /\ Head(inq) \in Jobs \cup {NoJob}
      /\ outq # <<>> => Tail(outq) \in Seq(Message)
      /\ todo # <<>> => Tail(todo) \in Seq(Ops)
  BY TailTypes
<1>01. /\ \A j \in Jobs \cup {NoJob} : Append(inq, j) \in Seq(Jobs \cup {NoJob})
       /\ \A m \in Message : Append(outq, m) \in Seq(Message)
  BY AppendTypes
<1>02. <<>> \in Seq(Jobs \cup {NoJob}) /\ <<"process_events">> \in Seq(Ops)
  BY DEF Ops
<1>1. ASSUME NEW j \in Jobs, Push(j) PROVE TypeOK'
  BY <1>1, <1>01 DEF Push, flags, worker
<1>2. ASSUME NEW calls \in Handlers, UserAction(calls) PROVE TypeOK'
  BY <1>2, HandlerTypes DEF UserAction, queues, flags, worker, history
<1>3. CASE OtherEvent \/ Idle
  BY <1>3, <1>02 DEF OtherEvent, Idle, queues, flags, worker, ui, history
<1>4. CASE UICall
  <2> USE DEF Calls, Return
  <2>1. CASE Clear \/ Cancel
    BY <2>1, <1>0, <1>02 DEF Clear, Cancel, flags, worker, queues
  <2>2. CASE PushNext
    <3>1. next \in Jobs
      BY <2>2 DEF PushNext, FlagsTellPlace
    <3> QED
      BY <2>2, <3>1, <1>0, <1>01 DEF PushNext, flags, worker
  <2>3. CASE IdleInput \/ IdleRunning \/ IdleOutput
    BY <2>3, <1>0 DEF IdleInput, IdleRunning, IdleOutput, Busy, Stay, FlagsTellPlace,
                      queues, flags, worker, history
  <2>4. CASE ProcessOne \/ ProcessedAll
    BY <2>4, <1>0 DEF ProcessOne, ProcessedAll, Deliver, queues, flags, worker, ui, history
  <2>5. CASE WaitOne \/ WaitTimeout
    BY <2>5, <1>0 DEF WaitOne, WaitTimeout, Deliver, Stay, FlagsTellPlace,
                      queues, flags, worker, ui, history
  <2>6. CASE Sentinel \/ Join
    BY <2>6, <1>0, <1>01 DEF Sentinel, Join, queues, flags, worker, history
  <2> QED
    BY <1>4, <2>1, <2>2, <2>3, <2>4, <2>5, <2>6 DEF UICall
<1>5. CASE Worker
  <2> USE DEF InHand, flags, worker, ui, queues, history
  <2>1. CASE WPop
    BY <2>1, <1>0 DEF WPop, Pop
  <2>2. CASE WStart \/ WFuture \/ WJudge \/ WLeave
    BY <2>2 DEF WStart, WFuture, WJudge, WLeave
  <2>3. CASE WBegin \/ WPost \/ WEnd
    BY <2>3, <1>01, MessageTypes DEF WBegin, WPost, WEnd, Post
  <2>4. CASE WFinalize
    BY <2>4, <1>01, MessageTypes DEF WFinalize
  <2> QED
    BY <1>5, <2>1, <2>2, <2>3, <2>4 DEF Worker
<1>6. CASE UNCHANGED vars \/ Closed
  BY <1>6 DEF vars, Closed, queues, flags, worker, ui, history
<1> QED
  BY <1>1, <1>2, <1>3, <1>4, <1>5, <1>6 DEF Next

-----------------------------------------------------------------------------
(* A job leaves the set of accepted jobs only when it is finalized or      *)
(* deleted, and moves from one place to the next otherwise.                *)
LEMMA StepLost == IInv /\ [Next]_vars => NoJobLost'
<1> SUFFICES ASSUME IInv, [Next]_vars PROVE NoJobLost'
  OBVIOUS
<1> USE DEF IInv, TypeOK, NoJobLost, QueuedJobs, CurrentJobs, FinalizingJobs
<1>0. /\ \A j \in Jobs \cup {NoJob} :
           /\ \A i \in DOMAIN inq : i \in DOMAIN Append(inq, j) /\ Append(inq, j)[i] = inq[i]
           /\ \E i \in DOMAIN Append(inq, j) : Append(inq, j)[i] = j
      /\ \A m \in Message :
           /\ \A i \in DOMAIN outq : /\ i \in DOMAIN Append(outq, m)
                                    /\ Append(outq, m)[i] = outq[i]
           /\ \E i \in DOMAIN Append(outq, m) : Append(outq, m)[i] = m
  <2>1. inq \in Seq(Jobs \cup {NoJob}) /\ outq \in Seq(Message)
    OBVIOUS
  <2> HIDE DEF IInv, TypeOK, NoJobLost, QueuedJobs, CurrentJobs, FinalizingJobs
  <2>2. ASSUME NEW j \in Jobs \cup {NoJob}
        PROVE  /\ \A i \in DOMAIN inq : i \in DOMAIN Append(inq, j) /\ Append(inq, j)[i] = inq[i]
               /\ \E i \in DOMAIN Append(inq, j) : Append(inq, j)[i] = j
    BY <2>1, AppendTypes
  <2>3. ASSUME NEW m \in Message
        PROVE  /\ \A i \in DOMAIN outq : /\ i \in DOMAIN Append(outq, m)
                                        /\ Append(outq, m)[i] = outq[i]
               /\ \E i \in DOMAIN Append(outq, m) : Append(outq, m)[i] = m
    BY <2>1, AppendTypes
  <2> QED
    BY <2>2, <2>3
<1>01. /\ inq # <<>> => \A i \in DOMAIN inq :
            inq[i] = Head(inq) \/ \E k \in DOMAIN Tail(inq) : Tail(inq)[k] = inq[i]
       /\ outq # <<>> => \A i \in DOMAIN outq :
            outq[i] = Head(outq) \/ \E k \in DOMAIN Tail(outq) : Tail(outq)[k] = outq[i]
  <2> HIDE DEF NoJobLost, QueuedJobs, CurrentJobs, FinalizingJobs
  <2>1. CASE inq # <<>>
    BY <2>1, TailTypes
  <2>2. CASE outq # <<>>
    BY <2>2, TailTypes
  <2> QED
    BY <2>1, <2>2
<1>1. ASSUME NEW j \in Jobs \cup {NoJob}, inq' = Append(inq, j),
             accepted' \subseteq accepted \cup {j}, UNCHANGED <<outq, wpc, wjob>>
      PROVE  NoJobLost'
  <2>a. /\ \A i \in DOMAIN inq : i \in DOMAIN inq' /\ inq'[i] = inq[i]
        /\ \E i \in DOMAIN inq' : inq'[i] = j
    <3> HIDE DEF IInv, TypeOK, NoJobLost, QueuedJobs, CurrentJobs, FinalizingJobs
    <3> QED
      BY <1>0, <1>1
  <2>1. QueuedJobs \subseteq QueuedJobs' /\ j \in QueuedJobs'
    <3> HIDE DEF IInv, TypeOK, NoJobLost, CurrentJobs, FinalizingJobs
    <3> QED
      BY <2>a
  <2>2. CurrentJobs' = CurrentJobs /\ FinalizingJobs' = FinalizingJobs
    <3> HIDE DEF IInv, TypeOK, NoJobLost, QueuedJobs
    <3> QED
      BY <1>1
  <2> HIDE DEF QueuedJobs, CurrentJobs, FinalizingJobs
  <2> QED
    BY <1>1, <2>1, <2>2
<1>2. ASSUME Deliver, UNCHANGED <<inq, wpc, wjob>> PROVE NoJobLost'
  <2>1. /\ accepted' = accepted \ {Head(outq).job}
        /\ FinalizingJobs \subseteq FinalizingJobs' \cup {Head(outq).job}
    BY <1>01, <1>2 DEF Deliver
  <2>2. QueuedJobs' = QueuedJobs /\ CurrentJobs' = CurrentJobs
    BY <1>2
  <2> HIDE DEF QueuedJobs, CurrentJobs, FinalizingJobs
  <2> QED
    BY <2>1, <2>2
<1>3. ASSUME NEW m \in Message, outq' = Append(outq, m),
             UNCHANGED <<inq, accepted, wjob>>,
             \/ wpc \in InHand /\ wpc' \in InHand
             \/ wpc = "push" /\ m.job = wjob
      PROVE  NoJobLost'
  <2>a. /\ \A i \in DOMAIN outq : i \in DOMAIN outq' /\ outq'[i] = outq[i]
        /\ \E i \in DOMAIN outq' : outq'[i] = m
    <3> HIDE DEF IInv, TypeOK, NoJobLost, QueuedJobs, CurrentJobs, FinalizingJobs
    <3> QED
      BY <1>0, <1>3
  <2>1. FinalizingJobs \subseteq FinalizingJobs' /\ m.job \in FinalizingJobs'
    <3> HIDE DEF IInv, TypeOK, NoJobLost, QueuedJobs, CurrentJobs
    <3> QED
      BY <2>a
  <2>2. QueuedJobs' = QueuedJobs
    BY <1>3
  <2>3. CurrentJobs' = CurrentJobs \/ CurrentJobs \subseteq {m.job}
    BY <1>3 DEF InHand
  <2> HIDE DEF QueuedJobs, CurrentJobs, FinalizingJobs
  <2> QED
    BY <1>3, <2>1, <2>2, <2>3
<1>4. ASSUME UNCHANGED <<inq, outq, wpc, wjob, accepted>> PROVE NoJobLost'
  BY <1>4
<1>5. ASSUME NEW j \in Jobs, Push(j) PROVE NoJobLost'
  BY <1>1, <1>5 DEF Push, worker
<1>6. ASSUME NEW calls \in Handlers, UserAction(calls) PROVE NoJobLost'
  BY <1>4, <1>6 DEF UserAction, queues, worker, history
<1>7. CASE OtherEvent \/ Idle
  BY <1>4, <1>7 DEF OtherEvent, Idle, queues, worker, history
<1>8. CASE UICall
  <2>1. CASE Clear
    BY <2>1 DEF Clear, worker
  <2>2. CASE PushNext
    BY <1>1, <2>2 DEF PushNext, worker
  <2>3. CASE Sentinel
    BY <1>1, <2>3 DEF Sentinel, worker, history
  <2>4. CASE ProcessOne \/ WaitOne
    BY <1>2, <2>4 DEF ProcessOne, WaitOne, worker
  <2>5. CASE Cancel \/ IdleInput \/ IdleRunning \/ IdleOutput
    BY <1>4, <2>5 DEF Cancel, IdleInput, IdleRunning, IdleOutput, queues, worker, history
  <2>6. CASE ProcessedAll \/ WaitTimeout \/ Join
    BY <1>4, <2>6 DEF ProcessedAll, WaitTimeout, Join, queues, worker, history
  <2> QED
    BY <1>8, <2>1, <2>2, <2>3, <2>4, <2>5, <2>6 DEF UICall
<1>9. CASE Worker
  <2>1. CASE WPop
    <3>1. /\ inq # <<>> /\ wpc = "pop" /\ wjob' = Head(inq) /\ inq' = Tail(inq)
          /\ UNCHANGED <<outq, accepted>>
          /\ Head(inq) # NoJob => wpc' = "start"
      BY <2>1 DEF WPop, Pop
    <3>2. accepted \subseteq Jobs /\ CurrentJobs = {}
      BY <3>1 DEF InHand
    <3>3. ASSUME NEW j \in accepted, j \in QueuedJobs
          PROVE  j \in QueuedJobs' \cup CurrentJobs'
      BY <3>1, <3>2, <3>3, <1>01, JobsAssumption DEF InHand
    <3> QED
      BY <3>1, <3>2, <3>3
  <2>2. CASE WStart \/ WFuture \/ WJudge
    BY <2>2 DEF WStart, WFuture, WJudge, InHand, queues, history
  <2>3. CASE WBegin \/ WPost \/ WEnd
    BY <2>3, <1>3, MessageTypes DEF WBegin, WPost, WEnd, Post, InHand, history
  <2>4. CASE WFinalize
    <3>1. Finalize(wjob, verdict) \in Message /\ Finalize(wjob, verdict).job = wjob
      BY MessageTypes DEF Finalize
    <3> QED
      BY <2>4, <3>1, <1>3 DEF WFinalize, history
  <2>5. CASE WLeave
    BY <2>5 DEF WLeave, InHand, queues, history
  <2> QED
    BY <1>9, <2>1, <2>2, <2>3, <2>4, <2>5 DEF Worker
<1>10. CASE UNCHANGED vars \/ Closed
  BY <1>4, <1>10 DEF vars, Closed, queues, worker, history
<1> QED
  BY <1>5, <1>6, <1>7, <1>8, <1>9, <1>10 DEF Next

-----------------------------------------------------------------------------
(* Where the threads are. *)
LEMMA StepPlace == IInv /\ [Next]_vars => FlagsTellPlace'
<1> SUFFICES ASSUME IInv, [Next]_vars PROVE FlagsTellPlace'
  OBVIOUS
<1> USE DEF IInv, TypeOK, FlagsTellPlace
<1>0. todo # <<>> =>
        /\ Head(todo) = todo[1] /\ Len(Tail(todo)) = Len(todo) - 1
        /\ \A k \in DOMAIN Tail(todo) : k + 1 \in DOMAIN todo /\ Tail(todo)[k] = todo[k + 1]
  BY TailTypes
<1>1. ASSUME todo # <<>>, todo' = Tail(todo), next' = next
      PROVE  \A i \in DOMAIN todo' : todo'[i] = "push" => i = Len(todo') /\ next' \in Jobs
  <2>1. ASSUME NEW i \in DOMAIN Tail(todo), Tail(todo)[i] = "push"
        PROVE  i = Len(Tail(todo)) /\ next \in Jobs
    BY <1>0, <1>1, <2>1
  <2> QED
    BY <1>1, <2>1
<1>2. ASSUME NEW j \in Jobs, Push(j) PROVE FlagsTellPlace'
  BY <1>2 DEF Push, Ready, flags, worker
<1>3. ASSUME NEW calls \in Handlers, UserAction(calls) PROVE FlagsTellPlace'
  <2>1. \A i \in DOMAIN todo' : todo'[i] = "push" => i = Len(todo') /\ next' \in Jobs
    BY <1>3, HandlerTypes DEF UserAction
  <2> QED
    BY <1>3, <2>1 DEF UserAction, Ready, queues, flags, worker
<1>4. CASE OtherEvent
  BY <1>4 DEF OtherEvent, queues, flags, worker, ui
<1>5. CASE Idle
  <2>1. todo' = <<"process_events">>
    BY <1>5 DEF Idle
  <2> QED
    BY <1>5, <2>1 DEF Idle, Ready, queues, flags, worker
<1>6. CASE UICall
  <2> USE DEF Calls, Return
  <2>1. CASE Clear \/ Cancel \/ Sentinel \/ ProcessedAll
    BY <2>1, <1>1 DEF Clear, Cancel, Sentinel, ProcessedAll, flags, worker, queues
  <2>2. CASE PushNext
    <3>1. /\ todo # <<>> /\ todo' = Tail(todo) /\ todo[1] = "push"
      BY <2>2, <1>0 DEF PushNext
    <3>2. Len(todo) = 1 /\ DOMAIN Tail(todo) = {}
      BY <3>1, <1>0
    <3> QED
      BY <2>2, <3>1, <3>2 DEF PushNext, flags, worker
  <2>3. CASE IdleInput
    BY <2>3, <1>1 DEF IdleInput, Busy, Stay, queues, flags, worker
  <2>4. CASE IdleRunning
    BY <2>4, <1>1 DEF IdleRunning, Busy, Stay, queues, flags, worker
  <2>5. CASE IdleOutput
    BY <2>5, <1>1 DEF IdleOutput, Busy, Stay, queues, flags, worker
  <2>6. CASE ProcessOne \/ WaitOne
    BY <2>6, <1>1 DEF ProcessOne, WaitOne, Deliver, Stay, flags, worker, ui
  <2>7. CASE WaitTimeout
    BY <2>7, <1>1 DEF WaitTimeout, queues, flags, worker
  <2>8. CASE Join
    BY <2>8 DEF Join, queues, flags, worker
  <2> QED
    BY <1>6, <2>1, <2>2, <2>3, <2>4, <2>5, <2>6, <2>7, <2>8 DEF UICall
<1>7. CASE Worker
  <2> USE DEF InHand, flags, ui, queues
  <2>1. CASE WPop
    BY <2>1 DEF WPop, Pop
  <2>2. CASE WStart \/ WFuture \/ WJudge \/ WFinalize
    BY <2>2 DEF WStart, WFuture, WJudge, WFinalize
  <2>3. CASE WBegin \/ WPost \/ WEnd
    BY <2>3 DEF WBegin, WPost, WEnd, Post
  <2>4. CASE WLeave
    BY <2>4 DEF WLeave
  <2> QED
    BY <1>7, <2>1, <2>2, <2>3, <2>4 DEF Worker
<1>8. CASE UNCHANGED vars \/ Closed
  BY <1>8 DEF vars, Closed, queues, flags, worker, ui
<1> QED
  BY <1>2, <1>3, <1>4, <1>5, <1>6, <1>7, <1>8 DEF Next

-----------------------------------------------------------------------------
(* A job sees only requests made while the worker had it in hand.          *)
LEMMA StepAsked == IInv /\ [Next]_vars => RequestIsRecent' /\ CanceledWasAsked'
<1> SUFFICES ASSUME IInv, [Next]_vars PROVE RequestIsRecent' /\ CanceledWasAsked'
  OBVIOUS
<1> USE DEF IInv, TypeOK, RequestIsRecent, CanceledWasAsked, InHand, InJob
<1>1. ASSUME UNCHANGED <<canceled, wpc, verdict, asked>>
      PROVE  RequestIsRecent' /\ CanceledWasAsked'
  BY <1>1
<1>2. ASSUME NEW j \in Jobs, Push(j) PROVE UNCHANGED <<canceled, wpc, verdict, asked>>
  BY <1>2 DEF Push, flags, worker
<1>3. ASSUME NEW calls \in Handlers, UserAction(calls)
      PROVE  UNCHANGED <<canceled, wpc, verdict, asked>>
  BY <1>3 DEF UserAction, flags, worker, history
<1>4. CASE OtherEvent \/ Idle
  BY <1>1, <1>4 DEF OtherEvent, Idle, flags, worker, history
<1>5. CASE UICall
  <2>1. CASE Cancel
    BY <2>1 DEF Cancel, worker
  <2>2. CASE Clear \/ PushNext \/ IdleInput \/ IdleRunning \/ IdleOutput
    BY <2>2, <1>1 DEF Clear, PushNext, IdleInput, IdleRunning, IdleOutput,
                      flags, worker, history
  <2>3. CASE ProcessOne \/ ProcessedAll \/ WaitOne \/ WaitTimeout \/ Sentinel \/ Join
    BY <2>3, <1>1 DEF ProcessOne, ProcessedAll, WaitOne, WaitTimeout, Sentinel, Join,
                      flags, worker, history
  <2> QED
    BY <1>5, <2>1, <2>2, <2>3 DEF UICall
<1>6. CASE Worker
  BY <1>6 DEF Worker, WPop, Pop, WStart, WBegin, WPost, Post, WFuture, WEnd, WJudge,
              WFinalize, WLeave, flags, history
<1>7. CASE UNCHANGED vars \/ Closed
  BY <1>1, <1>7 DEF vars, Closed, flags, worker, history
<1> QED
  BY <1>1, <1>2, <1>3, <1>4, <1>5, <1>6, <1>7 DEF Next

-----------------------------------------------------------------------------
(* The invariant holds in every reachable state. *)
THEOREM Invariance == Spec => []IInv
<1>1. IInv /\ [Next]_vars => IInv'
  BY StepType, StepLost, StepPlace, StepAsked DEF IInv
<1> QED
  BY InitIInv, <1>1, PTL DEF Spec

(* Every variable keeps its type, for any set of jobs. *)
THEOREM TypeCorrect == Spec => []TypeOK
<1>1. IInv => TypeOK
  BY DEF IInv
<1> QED
  BY Invariance, <1>1, PTL

(* No job is lost between the two queues and the worker. *)
THEOREM JobsKept == Spec => []NoJobLost
<1>1. IInv => NoJobLost
  BY DEF IInv
<1> QED
  BY Invariance, <1>1, PTL

(* The three reads of is_idle() return true only when the worker is        *)
(* dormant and no job is left.                                             *)
THEOREM IdleReadsSuffice == Spec => []IdleIsDormant
<1>1. IInv => IdleIsDormant
  <2> SUFFICES ASSUME IInv, upc = "idle_out", outq = <<>>
               PROVE  wpc \in {"pop", "exited"} /\ accepted = {}
    BY DEF IdleIsDormant
  <2>1. inq = <<>> /\ wpc \in {"pop", "exited"}
    BY DEF IInv, FlagsTellPlace, TypeOK
  <2>2. QueuedJobs = {} /\ CurrentJobs = {} /\ FinalizingJobs = {}
    BY <2>1 DEF QueuedJobs, CurrentJobs, FinalizingJobs, InHand
  <2> QED
    BY <2>1, <2>2 DEF IInv, NoJobLost
<1> QED
  BY Invariance, <1>1, PTL

(* No request left from an earlier job cancels a job. *)
THEOREM NoStrayCancel == Spec => []CanceledWasAsked
<1>1. IInv => CanceledWasAsked
  BY DEF IInv
<1> QED
  BY Invariance, <1>1, PTL

-----------------------------------------------------------------------------
(* A job is in one place at a time. *)

(* What the two queues hold after a push or a pop, by index.               *)
LEMMA QueueSteps ==
  ASSUME TypeOK
  PROVE  /\ Len(inq) \in Nat /\ DOMAIN inq = 1 .. Len(inq)
         /\ Len(outq) \in Nat /\ DOMAIN outq = 1 .. Len(outq)
         /\ \A i \in DOMAIN inq : inq[i] \in Jobs \cup {NoJob}
         /\ \A i \in DOMAIN outq : outq[i] \in Message
         /\ \A j \in Jobs \cup {NoJob} : inq' = Append(inq, j) =>
              /\ DOMAIN inq' = 1 .. Len(inq) + 1 /\ Len(inq') = Len(inq) + 1
              /\ inq'[Len(inq) + 1] = j /\ \A i \in DOMAIN inq : inq'[i] = inq[i]
         /\ \A m \in Message : outq' = Append(outq, m) =>
              /\ DOMAIN outq' = 1 .. Len(outq) + 1 /\ Len(outq') = Len(outq) + 1
              /\ outq'[Len(outq) + 1] = m /\ \A i \in DOMAIN outq : outq'[i] = outq[i]
         /\ inq # <<>> /\ inq' = Tail(inq) =>
              /\ DOMAIN inq' = 1 .. Len(inq) - 1 /\ Len(inq') = Len(inq) - 1
              /\ Len(inq) > 0 /\ Head(inq) = inq[1]
              /\ \A i \in DOMAIN inq' : i + 1 \in DOMAIN inq /\ inq'[i] = inq[i + 1]
         /\ outq # <<>> /\ outq' = Tail(outq) =>
              /\ DOMAIN outq' = 1 .. Len(outq) - 1 /\ Len(outq') = Len(outq) - 1
              /\ Len(outq) > 0 /\ Head(outq) = outq[1]
              /\ \A i \in DOMAIN outq' : i + 1 \in DOMAIN outq /\ outq'[i] = outq[i + 1]
<1>1. inq \in Seq(Jobs \cup {NoJob}) /\ outq \in Seq(Message)
  BY DEF TypeOK
<1> HIDE DEF TypeOK
<1>2. /\ Len(inq) \in Nat /\ DOMAIN inq = 1 .. Len(inq)
      /\ Len(outq) \in Nat /\ DOMAIN outq = 1 .. Len(outq)
      /\ \A i \in DOMAIN inq : inq[i] \in Jobs \cup {NoJob}
      /\ \A i \in DOMAIN outq : outq[i] \in Message
  BY <1>1
<1>3. ASSUME NEW j \in Jobs \cup {NoJob}, inq' = Append(inq, j)
      PROVE  /\ DOMAIN inq' = 1 .. Len(inq) + 1 /\ Len(inq') = Len(inq) + 1
             /\ inq'[Len(inq) + 1] = j /\ \A i \in DOMAIN inq : inq'[i] = inq[i]
  BY <1>1, <1>3
<1>4. ASSUME NEW m \in Message, outq' = Append(outq, m)
      PROVE  /\ DOMAIN outq' = 1 .. Len(outq) + 1 /\ Len(outq') = Len(outq) + 1
             /\ outq'[Len(outq) + 1] = m /\ \A i \in DOMAIN outq : outq'[i] = outq[i]
  BY <1>1, <1>4
<1>5. ASSUME inq # <<>>, inq' = Tail(inq)
      PROVE  /\ DOMAIN inq' = 1 .. Len(inq) - 1 /\ Len(inq') = Len(inq) - 1
             /\ Len(inq) > 0 /\ Head(inq) = inq[1]
             /\ \A i \in DOMAIN inq' : i + 1 \in DOMAIN inq /\ inq'[i] = inq[i + 1]
  BY <1>1, <1>5
<1>6. ASSUME outq # <<>>, outq' = Tail(outq)
      PROVE  /\ DOMAIN outq' = 1 .. Len(outq) - 1 /\ Len(outq') = Len(outq) - 1
             /\ Len(outq) > 0 /\ Head(outq) = outq[1]
             /\ \A i \in DOMAIN outq' : i + 1 \in DOMAIN outq /\ outq'[i] = outq[i + 1]
  BY <1>1, <1>6
<1> QED
  BY <1>2, <1>3, <1>4, <1>5, <1>6

LEMMA PlaceKept ==
  ASSUME OnePlace, UNCHANGED <<inq, outq, wjob, accepted>>,
         wpc' \in InHand => wpc \in InHand
  PROVE  OnePlace'
BY DEF OnePlace, Appears

LEMMA PlacePushed ==
  ASSUME TypeOK, OnePlace, NEW j \in Jobs \cup {NoJob}, inq' = Append(inq, j),
         accepted \subseteq accepted', j \in Jobs => j \in accepted' /\ j \notin accepted,
         j = NoJob => \A i \in DOMAIN inq : inq[i] # NoJob,
         UNCHANGED <<outq, wpc, wjob>>
  PROVE  OnePlace'
<1>1. /\ DOMAIN inq = 1 .. Len(inq) /\ Len(inq) \in Nat
      /\ DOMAIN inq' = 1 .. Len(inq) + 1
      /\ inq'[Len(inq) + 1] = j /\ \A i \in DOMAIN inq : inq'[i] = inq[i]
  BY QueueSteps
<1>2. j \in Jobs => ~Appears(j)
  BY DEF OnePlace
<1>3. \A i \in DOMAIN inq' : i \in DOMAIN inq \/ i = Len(inq) + 1
  BY <1>1
<1>4. \A i \in DOMAIN inq : inq[i] # j
  BY <1>2 DEF Appears
<1>5. wpc \in InHand => wjob # j
  BY <1>2 DEF Appears, OnePlace
<1>6. \A k \in DOMAIN outq : j = outq[k].job => j = NoJob
  BY <1>2 DEF Appears
<1>7. \A a \in Jobs : Appears(a)' => a \in accepted'
  BY <1>1, <1>3 DEF OnePlace, Appears
<1>8. \A i, k \in DOMAIN inq' : inq'[i] = inq'[k] => i = k
  BY <1>1, <1>3, <1>4 DEF OnePlace
<1>9. /\ \A i \in DOMAIN inq', k \in DOMAIN outq : inq'[i] = outq[k].job => inq'[i] = NoJob
      /\ wpc \in InHand => \A i \in DOMAIN inq' : inq'[i] # wjob
  BY <1>1, <1>3, <1>5, <1>6 DEF OnePlace
<1> QED
  BY <1>7, <1>8, <1>9 DEF OnePlace

LEMMA PlacePosted ==
  ASSUME TypeOK, OnePlace, NEW m \in Message, outq' = Append(outq, m),
         UNCHANGED <<inq, wjob, accepted>>, wpc \in InHand,
         \/ m.job = NoJob
         \/ m.job = wjob /\ wpc' \notin InHand
  PROVE  OnePlace'
<1>1. /\ DOMAIN outq = 1 .. Len(outq) /\ Len(outq) \in Nat
      /\ DOMAIN outq' = 1 .. Len(outq) + 1
      /\ outq'[Len(outq) + 1] = m /\ \A i \in DOMAIN outq : outq'[i] = outq[i]
  BY QueueSteps
<1>2. \A i \in DOMAIN outq' : i \in DOMAIN outq \/ i = Len(outq) + 1
  BY <1>1
<1>3. wjob # NoJob /\ \A k \in DOMAIN outq : outq[k].job # wjob
  BY DEF OnePlace
<1>4. \A a \in Jobs : Appears(a)' => Appears(a)
  BY <1>1, <1>2, JobsAssumption DEF Appears
<1>5. \A i, k \in DOMAIN outq' : outq'[i].job = outq'[k].job => i = k \/ outq'[i].job = NoJob
  BY <1>1, <1>2, <1>3 DEF OnePlace
<1>6. \A i \in DOMAIN inq, k \in DOMAIN outq' : inq[i] = outq'[k].job => inq[i] = NoJob
  BY <1>1, <1>2 DEF OnePlace
<1>7. wpc' \in InHand => \A k \in DOMAIN outq' : outq'[k].job # wjob
  BY <1>1, <1>2, <1>3
<1> QED
  BY <1>4, <1>5, <1>6, <1>7 DEF OnePlace

LEMMA PlaceDelivered ==
  ASSUME TypeOK, OnePlace, Deliver, UNCHANGED <<inq, wpc, wjob>>
  PROVE  OnePlace'
<1>1. /\ DOMAIN outq = 1 .. Len(outq) /\ Len(outq) \in Nat /\ Len(outq) > 0
      /\ DOMAIN outq' = 1 .. Len(outq) - 1 /\ Head(outq) = outq[1]
      /\ \A i \in DOMAIN outq' : i + 1 \in DOMAIN outq /\ outq'[i] = outq[i + 1]
      /\ accepted' = accepted \ {outq[1].job}
  BY QueueSteps DEF Deliver
<1>2. 1 \in DOMAIN outq /\ \A i \in DOMAIN outq' : i + 1 # 1
  BY <1>1
<1>3. \A a \in Jobs : Appears(a)' => Appears(a)
  BY <1>1 DEF Appears
<1>4. ASSUME NEW a \in Jobs, Appears(a)' PROVE a # outq[1].job
  <2>1. a # NoJob
    BY JobsAssumption
  <2>2. ASSUME NEW i \in DOMAIN outq', outq'[i].job = a PROVE a # outq[1].job
    BY <1>1, <1>2, <2>1, <2>2 DEF OnePlace
  <2>3. ASSUME NEW i \in DOMAIN inq, inq[i] = a PROVE a # outq[1].job
    BY <1>2, <2>1, <2>3 DEF OnePlace
  <2>4. wpc \in InHand /\ wjob = a => a # outq[1].job
    BY <1>2 DEF OnePlace
  <2> QED
    BY <1>4, <2>2, <2>3, <2>4 DEF Appears
<1>5. \A a \in Jobs : Appears(a)' => a \in accepted'
  BY <1>1, <1>3, <1>4 DEF OnePlace
<1>6. \A i, k \in DOMAIN outq' : outq'[i].job = outq'[k].job => i = k \/ outq'[i].job = NoJob
  <2>1. ASSUME NEW i \in DOMAIN outq', NEW k \in DOMAIN outq', outq'[i].job = outq'[k].job
        PROVE  i = k \/ outq'[i].job = NoJob
    <3>1. i + 1 = k + 1 \/ outq[i + 1].job = NoJob
      BY <1>1, <2>1 DEF OnePlace
    <3> QED
      BY <1>1, <3>1
  <2> QED
    BY <2>1
<1>7. /\ \A i \in DOMAIN inq, k \in DOMAIN outq' : inq[i] = outq'[k].job => inq[i] = NoJob
      /\ wpc \in InHand => \A k \in DOMAIN outq' : outq'[k].job # wjob
  BY <1>1 DEF OnePlace
<1> QED
  BY <1>5, <1>6, <1>7 DEF OnePlace

LEMMA PlacePopped ==
  ASSUME TypeOK, OnePlace, WPop
  PROVE  OnePlace'
<1>1. /\ wpc = "pop" /\ wjob' = Head(inq) /\ inq' = Tail(inq) /\ inq # <<>>
      /\ Head(inq) = NoJob => wpc' = "leave"
      /\ UNCHANGED <<outq, accepted>>
  BY DEF WPop, Pop, history
<1>2. /\ DOMAIN inq = 1 .. Len(inq) /\ Len(inq) \in Nat /\ Len(inq) > 0
      /\ DOMAIN inq' = 1 .. Len(inq) - 1 /\ Head(inq) = inq[1]
      /\ \A i \in DOMAIN inq' : i + 1 \in DOMAIN inq /\ inq'[i] = inq[i + 1]
  BY <1>1, QueueSteps
<1>3. 1 \in DOMAIN inq /\ \A i \in DOMAIN inq' : i + 1 # 1
  BY <1>2
<1>4. \A a \in Jobs : Appears(a)' => Appears(a)
  BY <1>1, <1>2, <1>3 DEF Appears
<1>5. \A i, k \in DOMAIN inq' : inq'[i] = inq'[k] => i = k
  <2>1. ASSUME NEW i \in DOMAIN inq', NEW k \in DOMAIN inq', inq'[i] = inq'[k] PROVE i = k
    <3>1. i + 1 = k + 1
      BY <1>2, <2>1 DEF OnePlace
    <3> QED
      BY <1>2, <3>1
  <2> QED
    BY <2>1
<1>6. \A i \in DOMAIN inq', k \in DOMAIN outq : inq'[i] = outq[k].job => inq'[i] = NoJob
  BY <1>2 DEF OnePlace
<1>7. wpc' \in InHand =>
         /\ wjob' # NoJob
         /\ \A i \in DOMAIN inq' : inq'[i] # wjob'
         /\ \A k \in DOMAIN outq : outq[k].job # wjob'
  <2>1. \A i \in DOMAIN inq' : inq'[i] # inq[1]
    BY <1>2, <1>3 DEF OnePlace
  <2>2. inq[1] # NoJob => \A k \in DOMAIN outq : outq[k].job # inq[1]
    BY <1>3 DEF OnePlace
  <2>3. wpc' \in InHand => inq[1] # NoJob
    BY <1>1, <1>2 DEF InHand
  <2> QED
    BY <1>1, <1>2, <2>1, <2>2, <2>3
<1> QED
  BY <1>1, <1>4, <1>5, <1>6, <1>7 DEF OnePlace

LEMMA OnePlaceStep ==
  ASSUME IInv, PlaceInv, [Next]_vars
  PROVE  OnePlace'
<1>1. TypeOK /\ FlagsTellPlace /\ OnePlace /\ LastEntry
  BY DEF IInv, PlaceInv
<1>2. ASSUME NEW j \in Jobs, Push(j) PROVE OnePlace'
  BY <1>1, <1>2, PlacePushed, JobsAssumption DEF Push, worker
<1>3. CASE (\E calls \in Handlers : UserAction(calls)) \/ OtherEvent \/ Idle
  BY <1>1, <1>3, PlaceKept DEF UserAction, OtherEvent, Idle, queues, worker, history
<1>4. CASE UICall
  <2>1. CASE Clear
    <3>1. /\ inq' = <<>> /\ accepted' = accepted \ {inq[i] : i \in DOMAIN inq}
          /\ UNCHANGED <<outq, wpc, wjob>>
      BY <2>1 DEF Clear, worker
    <3>2. DOMAIN inq' = {}
      BY <3>1
    <3>3. \A a \in Jobs : Appears(a)' => Appears(a) /\ \A i \in DOMAIN inq : inq[i] # a
      BY <1>1, <3>1, <3>2, JobsAssumption DEF Appears, OnePlace
    <3> QED
      BY <1>1, <3>1, <3>2, <3>3 DEF OnePlace
  <2>2. CASE PushNext
    <3>1. /\ inq' = Append(inq, next) /\ accepted' = accepted \cup {next}
          /\ UNCHANGED <<outq, wpc, wjob>> /\ todo # <<>> /\ Head(todo) = "push"
      BY <2>2 DEF PushNext, Calls, worker
    <3>2. todo[1] = "push" /\ 1 \in DOMAIN todo
      BY <1>1, <3>1 DEF TypeOK
    <3>3. next \in Jobs /\ next \notin accepted
      BY <1>1, <3>2 DEF FlagsTellPlace, LastEntry
    <3> QED
      BY <1>1, <3>1, <3>3, PlacePushed, JobsAssumption
  <2>3. CASE Sentinel
    <3>1. /\ inq' = Append(inq, NoJob) /\ UNCHANGED <<outq, wpc, wjob, accepted>>
          /\ upc = "ready" /\ Head(todo) = "sentinel"
      BY <2>3 DEF Sentinel, Calls, worker, history
    <3>2. ~SentinelQueued
      BY <1>1, <3>1 DEF LastEntry
    <3>3. \A i \in DOMAIN inq : inq[i] # NoJob
      <4>1. \A i \in DOMAIN inq : inq # <<>>
        OBVIOUS
      <4> QED
        BY <1>1, <3>2, <4>1 DEF LastEntry, SentinelQueued, Ended
    <3> QED
      BY <1>1, <3>1, <3>3, PlacePushed, JobsAssumption
  <2>4. CASE ProcessOne \/ WaitOne
    BY <1>1, <2>4, PlaceDelivered DEF ProcessOne, WaitOne, worker
  <2>5. CASE Cancel \/ IdleInput \/ IdleRunning \/ IdleOutput
    BY <1>1, <2>5, PlaceKept
       DEF Cancel, IdleInput, IdleRunning, IdleOutput, queues, worker, history
  <2>6. CASE ProcessedAll \/ WaitTimeout \/ Join
    BY <1>1, <2>6, PlaceKept DEF ProcessedAll, WaitTimeout, Join, queues, worker, history
  <2> QED
    BY <1>4, <2>1, <2>2, <2>3, <2>4, <2>5, <2>6 DEF UICall
<1>5. CASE Worker
  <2>1. CASE WPop
    BY <1>1, <2>1, PlacePopped
  <2>2. CASE WStart \/ WFuture \/ WJudge \/ WLeave
    BY <1>1, <2>2, PlaceKept DEF WStart, WFuture, WJudge, WLeave, InHand, queues, history
  <2>3. CASE WBegin \/ WPost \/ WEnd
    <3>1. PICK m \in {Status, Call} : outq' = Append(outq, m)
      BY <2>3 DEF WBegin, WPost, WEnd, Post
    <3>2. m \in Message /\ m.job = NoJob
      <4>1. m = Status \/ m = Call
        BY <3>1
      <4>2. Status.job = NoJob /\ Call.job = NoJob
        BY DEF Status, Call
      <4> QED
        BY <4>1, <4>2, MessageTypes
    <3>3. wpc \in InHand /\ UNCHANGED <<inq, wjob, accepted>>
      BY <2>3 DEF WBegin, WPost, WEnd, Post, InHand, history
    <3> QED
      BY <1>1, <3>1, <3>2, <3>3, PlacePosted
  <2>4. CASE WFinalize
    <3>1. Finalize(wjob, verdict) \in Message /\ Finalize(wjob, verdict).job = wjob
      BY <1>1, MessageTypes DEF Finalize, TypeOK
    <3> QED
      BY <1>1, <2>4, <3>1, PlacePosted DEF WFinalize, InHand, history
  <2> QED
    BY <1>5, <2>1, <2>2, <2>3, <2>4 DEF Worker
<1>6. CASE UNCHANGED vars \/ Closed
  BY <1>1, <1>6, PlaceKept DEF vars, Closed, queues, worker, history
<1> QED
  BY <1>2, <1>3, <1>4, <1>5, <1>6 DEF Next

-----------------------------------------------------------------------------
(* The calls still to make: what is left of them is what it was. *)
LEMMA EntryKept ==
  ASSUME LastEntry, UNCHANGED <<inq, todo, next>>, accepted' \subseteq accepted,
         upc = "closed" => upc' = "closed",
         upc' \in {"idle_run", "idle_out", "wait"} => Head(todo) \in IdleOps
  PROVE  LastEntry'
BY DEF LastEntry, SentinelQueued, Ended

LEMMA EntryReturned ==
  ASSUME TypeOK, LastEntry, todo # <<>>, todo' = Tail(todo), upc' = "ready",
         UNCHANGED next, accepted' \subseteq accepted,
         inq' = inq \/ inq' = <<>>, Head(todo) # "join", upc # "closed"
  PROVE  LastEntry'
<1>1. /\ DOMAIN todo = 1 .. Len(todo) /\ Len(todo) \in Nat /\ Len(todo) > 0
      /\ DOMAIN todo' = 1 .. Len(todo) - 1 /\ Len(todo') = Len(todo) - 1
      /\ \A i \in DOMAIN todo' : i + 1 \in DOMAIN todo /\ todo'[i] = todo[i + 1]
  BY DEF TypeOK
<1>2. todo # <<"join">>
  OBVIOUS
<1>3. ~SentinelQueued
  BY <1>2 DEF LastEntry
<1>4. inq' # <<>> => inq' = inq
  OBVIOUS
<1>5. ~SentinelQueued'
  BY <1>3, <1>4 DEF SentinelQueued, Ended
<1>6. \A i \in DOMAIN inq' : inq'[i] = NoJob => i = Len(inq')
  <2>1. CASE inq' = inq
    BY <2>1 DEF LastEntry
  <2>2. CASE inq' = <<>>
    BY <2>2
  <2> QED
    BY <2>1, <2>2
<1>7. ASSUME NEW i \in DOMAIN todo', todo'[i] = "sentinel"
      PROVE  i = Len(todo') - 1 /\ todo'[Len(todo')] = "join"
  <2>1. i + 1 = Len(todo) - 1 /\ todo[Len(todo)] = "join"
    BY <1>1, <1>7 DEF LastEntry
  <2>2. Len(todo') \in DOMAIN todo' /\ Len(todo') + 1 = Len(todo) /\ i = Len(todo') - 1
    BY <1>1, <2>1
  <2> QED
    BY <1>1, <2>1, <2>2
<1>8. ASSUME NEW i \in DOMAIN todo', todo'[i] = "push" PROVE next' \notin accepted'
  BY <1>1, <1>8 DEF LastEntry
<1> QED
  BY <1>5, <1>6, <1>7, <1>8 DEF LastEntry

(* No UI call is possible any more once the null pointer is queued. *)
LEMMA NotEnded ==
  ASSUME TypeOK, LastEntry, upc # "closed", todo # <<"join">>
  PROVE  /\ ~Ended(inq) /\ QueueOfJobs = inq
         /\ \A i \in DOMAIN inq : inq[i] # NoJob
<1>1. ~Ended(inq)
  BY DEF LastEntry, SentinelQueued
<1>2. \A i \in DOMAIN inq : inq # <<>>
  OBVIOUS
<1> QED
  BY <1>1, <1>2 DEF LastEntry, Ended, QueueOfJobs, JobsOf

LEMMA HandlerEntries ==
  \A calls \in Handlers :
     \A i \in DOMAIN calls :
        calls[i] = "sentinel" => i = Len(calls) - 1 /\ calls[Len(calls)] = "join"
<1> DEFINE P(c) == \A i \in DOMAIN c :
                      c[i] = "sentinel" => i = Len(c) - 1 /\ c[Len(c)] = "join"
<1>1. P(<<"cancel">>) /\ P(<<"clear", "cancel">>) /\ P(<<"clear", "cancel", "push">>)
  OBVIOUS
<1>2. P(<<"clear", "cancel", "wait">>) /\ P(<<"cancel", "wait_current">>) /\ P(<<"is_idle">>)
  OBVIOUS
<1>3. P(<<"clear", "cancel", "wait", "sentinel", "join">>)
  OBVIOUS
<1> QED
  BY <1>1, <1>2, <1>3 DEF Handlers

LEMMA LastEntryStep ==
  ASSUME IInv, PlaceInv, [Next]_vars
  PROVE  LastEntry'
<1>1. TypeOK /\ FlagsTellPlace /\ OnePlace /\ LastEntry
  BY DEF IInv, PlaceInv
<1>2. ASSUME Ready PROVE /\ todo = <<>> /\ DOMAIN todo = {} /\ upc = "ready"
                         /\ ~SentinelQueued /\ \A i \in DOMAIN inq : inq[i] # NoJob
  BY <1>1, <1>2, NotEnded DEF Ready, SentinelQueued
<1>3. ASSUME NEW j \in Jobs, Push(j) PROVE LastEntry'
  <2>1. /\ Ready /\ inq' = Append(inq, j) /\ UNCHANGED <<todo, upc>>
    BY <1>3 DEF Push
  <2>2. /\ DOMAIN inq = 1 .. Len(inq) /\ Len(inq) \in Nat /\ Len(inq') = Len(inq) + 1
        /\ DOMAIN inq' = 1 .. Len(inq) + 1
        /\ inq'[Len(inq) + 1] = j /\ \A i \in DOMAIN inq : inq'[i] = inq[i]
    BY <1>1, <2>1, QueueSteps
  <2>3. \A i \in DOMAIN inq' : i \in DOMAIN inq \/ i = Len(inq) + 1
    BY <2>2
  <2>4. \A i \in DOMAIN inq' : inq'[i] # NoJob
    BY <1>2, <2>1, <2>2, <2>3, JobsAssumption
  <2>5. Len(inq') \in DOMAIN inq'
    BY <2>2
  <2>6. DOMAIN todo' = {} /\ upc' = "ready"
    BY <1>2, <2>1
  <2> QED
    BY <2>4, <2>5, <2>6 DEF LastEntry, SentinelQueued, Ended
<1>4. ASSUME NEW calls \in Handlers, UserAction(calls) PROVE LastEntry'
  <2>1. /\ Ready /\ todo' = calls /\ UNCHANGED <<inq, upc, accepted>>
        /\ calls = <<"clear", "cancel", "push">> => next' \in Jobs \ accepted
    BY <1>4 DEF UserAction, queues, history
  <2>2. ~SentinelQueued' /\ \A i \in DOMAIN inq' : inq'[i] # NoJob
    BY <1>2, <2>1 DEF SentinelQueued, Ended
  <2>3. \A i \in DOMAIN todo' : todo'[i] = "push" => next' \notin accepted'
    BY <2>1, HandlerTypes
  <2>4. \A i \in DOMAIN todo' :
           todo'[i] = "sentinel" => i = Len(todo') - 1 /\ todo'[Len(todo')] = "join"
    BY <2>1, HandlerEntries
  <2> QED
    BY <1>2, <2>1, <2>2, <2>3, <2>4 DEF LastEntry
<1>5. CASE OtherEvent
  BY <1>1, <1>2, <1>5, EntryKept DEF OtherEvent, queues, ui, history
<1>6. CASE Idle
  <2>1. Ready /\ todo' = <<"process_events">> /\ UNCHANGED <<inq, upc, next, accepted>>
    BY <1>6 DEF Idle, queues, history
  <2>2. \A i \in DOMAIN todo' : todo'[i] = "process_events"
    BY <2>1
  <2>3. upc' = "ready" /\ ~SentinelQueued' /\ \A i \in DOMAIN inq' : inq'[i] # NoJob
    BY <1>2, <2>1 DEF SentinelQueued, Ended
  <2> QED
    BY <2>2, <2>3 DEF LastEntry
<1>7. CASE UICall
  <2>1. CASE Clear \/ Cancel \/ ProcessedAll
    BY <1>1, <2>1, EntryReturned
       DEF Clear, Cancel, ProcessedAll, Calls, Return, queues, history
  <2>2. CASE PushNext
    <3>1. /\ todo # <<>> /\ Head(todo) = "push" /\ upc = "ready" /\ upc' = "ready"
          /\ inq' = Append(inq, next) /\ todo' = Tail(todo)
      BY <2>2 DEF PushNext, Calls
    <3>2. todo[1] = "push" /\ 1 \in DOMAIN todo
      BY <1>1, <3>1 DEF TypeOK
    <3>3. Len(todo) = 1 /\ next \in Jobs
      BY <1>1, <3>2 DEF FlagsTellPlace
    <3>4. DOMAIN todo' = {} /\ todo # <<"join">>
      BY <1>1, <3>1, <3>3 DEF TypeOK
    <3>5. \A i \in DOMAIN inq : inq[i] # NoJob
      BY <1>1, <3>1, <3>4, NotEnded
    <3>6. /\ DOMAIN inq = 1 .. Len(inq) /\ Len(inq) \in Nat /\ Len(inq') = Len(inq) + 1
          /\ DOMAIN inq' = 1 .. Len(inq) + 1
          /\ inq'[Len(inq) + 1] = next /\ \A i \in DOMAIN inq : inq'[i] = inq[i]
      BY <1>1, <3>1, <3>3, QueueSteps
    <3>7. \A i \in DOMAIN inq' : i \in DOMAIN inq \/ i = Len(inq) + 1
      BY <3>6
    <3>8. \A i \in DOMAIN inq' : inq'[i] # NoJob
      BY <3>3, <3>5, <3>6, <3>7, JobsAssumption
    <3>9. Len(inq') \in DOMAIN inq'
      BY <3>6
    <3> QED
      BY <3>1, <3>4, <3>8, <3>9 DEF LastEntry, SentinelQueued, Ended
  <2>3. CASE Sentinel
    <3>1. /\ todo # <<>> /\ Head(todo) = "sentinel" /\ upc = "ready" /\ upc' = "ready"
          /\ inq' = Append(inq, NoJob) /\ todo' = Tail(todo)
      BY <2>3 DEF Sentinel, Calls, Return
    <3>2. todo[1] = "sentinel" /\ 1 \in DOMAIN todo
      BY <1>1, <3>1 DEF TypeOK
    <3>3. Len(todo) = 2 /\ todo[2] = "join"
      <4>1. Len(todo) \in Nat
        BY <1>1 DEF TypeOK
      <4>2. 1 = Len(todo) - 1 /\ todo[Len(todo)] = "join"
        BY <1>1, <3>2 DEF LastEntry
      <4>3. Len(todo) = 2
        BY <4>1, <4>2
      <4> QED
        BY <4>2, <4>3
    <3>4. todo' = <<"join">> /\ todo # <<"join">>
      <4>0. todo \in Seq(Ops)
        BY <1>1 DEF TypeOK
      <4>1. todo' \in Seq(Ops) /\ Len(todo') = 1 /\ todo'[1] = todo[2]
        BY <3>1, <3>3, <4>0, TailTypes
      <4>2. <<"join">> \in Seq(Ops) /\ Len(<<"join">>) = 1 /\ <<"join">>[1] = "join"
        BY DEF Ops
      <4>3. todo' = <<"join">>
        BY <3>3, <4>1, <4>2, SeqEqual
      <4> QED
        BY <3>3, <4>2, <4>3
    <3>5. \A i \in DOMAIN inq : inq[i] # NoJob
      BY <1>1, <3>1, <3>4, NotEnded
    <3>6. /\ DOMAIN inq = 1 .. Len(inq) /\ Len(inq) \in Nat /\ Len(inq') = Len(inq) + 1
          /\ DOMAIN inq' = 1 .. Len(inq) + 1
          /\ inq'[Len(inq) + 1] = NoJob /\ \A i \in DOMAIN inq : inq'[i] = inq[i]
      BY <1>1, <3>1, QueueSteps
    <3>7. \A i \in DOMAIN inq' : inq'[i] = NoJob => i = Len(inq')
      BY <3>5, <3>6
    <3>8. \A i \in DOMAIN todo' : todo'[i] = "join"
      BY <3>4
    <3> QED
      BY <3>1, <3>4, <3>7, <3>8 DEF LastEntry
  <2>4. CASE IdleInput \/ IdleRunning \/ IdleOutput
    <3>1. todo # <<>> /\ Head(todo) \in IdleOps /\ upc # "closed"
      BY <1>1, <2>4 DEF IdleInput, IdleRunning, IdleOutput, Calls, LastEntry, FlagsTellPlace
    <3>2. /\ UNCHANGED <<inq, next, accepted>>
          /\ \/ todo' = Tail(todo) /\ upc' = "ready"
             \/ todo' = todo
      BY <2>4 DEF IdleInput, IdleRunning, IdleOutput, Busy, Return, Stay, queues, history
    <3> QED
      BY <1>1, <3>1, <3>2, EntryReturned, EntryKept DEF IdleOps
  <2>5. CASE ProcessOne
    BY <1>1, <2>5, EntryKept DEF ProcessOne, Deliver, Calls, ui
  <2>6. CASE WaitOne \/ WaitTimeout
    <3>1. todo # <<>> /\ Head(todo) \in IdleOps /\ upc = "wait"
      BY <1>1, <2>6 DEF WaitOne, WaitTimeout, LastEntry, FlagsTellPlace
    <3>2. /\ UNCHANGED <<inq, next>> /\ accepted' \subseteq accepted
          /\ \/ todo' = Tail(todo) /\ upc' = "ready"
             \/ todo' = todo
      BY <2>6 DEF WaitOne, WaitTimeout, Deliver, Return, Stay, ui, queues, history
    <3> QED
      BY <1>1, <3>1, <3>2, EntryReturned, EntryKept DEF IdleOps
  <2>7. CASE Join
    BY <1>1, <2>7, EntryKept DEF Join, queues, history
  <2> QED
    BY <1>7, <2>1, <2>2, <2>3, <2>4, <2>5, <2>6, <2>7 DEF UICall
<1>8. CASE Worker
  <2>1. CASE WPop
    <3>1. inq # <<>> /\ inq' = Tail(inq) /\ UNCHANGED <<upc, todo, next, accepted>>
      BY <2>1 DEF WPop, Pop, ui
    <3>2. /\ DOMAIN inq = 1 .. Len(inq) /\ Len(inq) \in Nat /\ Len(inq') = Len(inq) - 1
          /\ DOMAIN inq' = 1 .. Len(inq) - 1
          /\ \A i \in DOMAIN inq' : i + 1 \in DOMAIN inq /\ inq'[i] = inq[i + 1]
      BY <1>1, <3>1, QueueSteps
    <3>3. \A i \in DOMAIN inq' : inq'[i] = NoJob => i = Len(inq')
      BY <1>1, <3>2 DEF LastEntry
    <3>4. ASSUME SentinelQueued' PROVE SentinelQueued
      <4>1. inq' # <<>> /\ inq'[Len(inq')] = NoJob
        BY <3>4 DEF SentinelQueued, Ended
      <4>2. Len(inq') \in DOMAIN inq'
        BY <1>1, <3>1, <3>2, <4>1 DEF TypeOK
      <4>3. inq[Len(inq)] = NoJob
        BY <3>2, <4>1, <4>2
      <4> QED
        BY <3>1, <4>3 DEF SentinelQueued, Ended
    <3> QED
      BY <1>1, <3>1, <3>3, <3>4 DEF LastEntry
  <2>2. CASE ~WPop
    BY <1>1, <1>8, <2>2, EntryKept
       DEF Worker, WStart, WBegin, WPost, WFuture, WEnd, WJudge, WFinalize, WLeave,
           Post, queues, ui, history, LastEntry
  <2> QED
    BY <2>1, <2>2
<1>9. CASE UNCHANGED vars \/ Closed
  BY <1>1, <1>9, EntryKept DEF vars, Closed, queues, ui, history, LastEntry
<1> QED
  BY <1>3, <1>4, <1>5, <1>6, <1>7, <1>8, <1>9 DEF Next

LEMMA InitPlace == Init => PlaceInv
BY DEF Init, PlaceInv, OnePlace, LastEntry, Appears, SentinelQueued, Ended, InHand

(* A job is in one place, and only while it is accepted; the null pointer  *)
(* that ends the thread is the last entry of the input queue.              *)
THEOREM PlaceInvariance == Spec => []PlaceInv
<1>1. IInv /\ PlaceInv /\ [Next]_vars => PlaceInv'
  BY OnePlaceStep, LastEntryStep DEF PlaceInv
<1> QED
  BY InitPlace, <1>1, Invariance, PTL DEF Spec

-----------------------------------------------------------------------------
(* The worker implements the abstract executor. *)
LEMMA MessagesOf ==
  ASSUME NEW q \in Seq(Message)
  PROVE  LET J(s) == [i \in DOMAIN s |-> s[i].job]
         IN  /\ \A m \in Message : J(Append(q, m)) = Append(J(q), m.job)
             /\ q # <<>> => J(q) # <<>> /\ J(Tail(q)) = Tail(J(q))
<1> DEFINE J(s) == [i \in DOMAIN s |-> s[i].job]
<1>1. ASSUME NEW s \in Seq(Message)
      PROVE  J(s) \in Seq(Jobs \cup {NoJob}) /\ Len(J(s)) = Len(s)
             /\ \A i \in 1 .. Len(s) : J(s)[i] = s[i].job
  <2>1. DOMAIN s = 1 .. Len(s) /\ Len(s) \in Nat /\ \A i \in 1 .. Len(s) : s[i] \in Message
    OBVIOUS
  <2>2. \A i \in 1 .. Len(s) : s[i].job \in Jobs \cup {NoJob}
    BY <2>1 DEF Message
  <2>3. J(s) = [i \in 1 .. Len(s) |-> s[i].job]
    BY <2>1
  <2> QED
    BY <2>1, <2>2, <2>3
<1>2. ASSUME NEW m \in Message PROVE J(Append(q, m)) = Append(J(q), m.job)
  <2>1. m.job \in Jobs \cup {NoJob}
    BY DEF Message
  <2>2. /\ Append(q, m) \in Seq(Message) /\ Len(Append(q, m)) = Len(q) + 1
        /\ Append(q, m)[Len(q) + 1] = m /\ \A i \in 1 .. Len(q) : Append(q, m)[i] = q[i]
    OBVIOUS
  <2>3. /\ Append(J(q), m.job) \in Seq(Jobs \cup {NoJob})
        /\ Len(Append(J(q), m.job)) = Len(q) + 1
        /\ Append(J(q), m.job)[Len(q) + 1] = m.job
        /\ \A i \in 1 .. Len(q) : Append(J(q), m.job)[i] = q[i].job
    <3> HIDE DEF J
    <3> QED
      BY <1>1, <2>1
  <2>4. /\ J(Append(q, m)) \in Seq(Jobs \cup {NoJob})
        /\ Len(J(Append(q, m))) = Len(q) + 1
        /\ J(Append(q, m))[Len(q) + 1] = m.job
        /\ \A i \in 1 .. Len(q) : J(Append(q, m))[i] = q[i].job
    <3> DEFINE a == Append(q, m)
    <3>1. /\ J(a) \in Seq(Jobs \cup {NoJob}) /\ Len(J(a)) = Len(a)
          /\ \A i \in 1 .. Len(a) : J(a)[i] = a[i].job
      <4> HIDE DEF J, a
      <4>1. a \in Seq(Message)
        BY <2>2 DEF a
      <4> QED
        BY <1>1, <4>1
    <3>2. /\ Len(a) = Len(q) + 1 /\ a[Len(q) + 1] = m /\ Len(q) \in Nat
          /\ \A i \in 1 .. Len(q) : a[i] = q[i]
      BY <2>2
    <3> HIDE DEF J, a
    <3>3. /\ J(a) \in Seq(Jobs \cup {NoJob}) /\ Len(J(a)) = Len(q) + 1
          /\ J(a)[Len(q) + 1] = m.job /\ \A i \in 1 .. Len(q) : J(a)[i] = q[i].job
      BY <3>1, <3>2
    <3> QED
      BY <3>3 DEF a
  <2>5. Len(q) \in Nat
    OBVIOUS
  <2> HIDE DEF J
  <2>6. \A i \in 1 .. Len(q) + 1 : J(Append(q, m))[i] = Append(J(q), m.job)[i]
    BY <2>3, <2>4, <2>5
  <2> QED
    BY <2>3, <2>4, <2>6, SeqEqual
<1>3. ASSUME q # <<>> PROVE J(q) # <<>> /\ J(Tail(q)) = Tail(J(q))
  <2>1. /\ Tail(q) \in Seq(Message) /\ Len(q) \in Nat /\ Len(q) > 0
        /\ Len(Tail(q)) = Len(q) - 1
        /\ \A i \in 1 .. Len(q) - 1 : Tail(q)[i] = q[i + 1]
    BY <1>3
  <2> HIDE DEF J
  <2>2. J(q) # <<>>
    BY <1>1, <2>1
  <2>3. /\ Tail(J(q)) \in Seq(Jobs \cup {NoJob}) /\ Len(Tail(J(q))) = Len(q) - 1
        /\ \A i \in 1 .. Len(q) - 1 : Tail(J(q))[i] = q[i + 1].job
    BY <1>1, <2>1, <2>2
  <2>4. /\ J(Tail(q)) \in Seq(Jobs \cup {NoJob}) /\ Len(J(Tail(q))) = Len(q) - 1
        /\ \A i \in 1 .. Len(q) - 1 : J(Tail(q))[i] = q[i + 1].job
    BY <1>1, <2>1
  <2> QED
    BY <2>2, <2>3, <2>4, SeqEqual
<1> QED
  BY <1>2, <1>3

LEMMA JobsOfQueue ==
  ASSUME NEW q \in Seq(Jobs \cup {NoJob}), \A i \in DOMAIN q : q[i] = NoJob => i = Len(q)
  PROVE  /\ ~Ended(q) => /\ JobsOf(q) = q
                         /\ \A j \in Jobs : JobsOf(Append(q, j)) = Append(q, j)
                         /\ JobsOf(Append(q, NoJob)) = q
         /\ q # <<>> /\ Head(q) # NoJob =>
              /\ JobsOf(q) # <<>> /\ Head(JobsOf(q)) = Head(q)
              /\ JobsOf(Tail(q)) = Tail(JobsOf(q))
         /\ q # <<>> /\ Head(q) = NoJob => JobsOf(q) = <<>> /\ JobsOf(Tail(q)) = <<>>
<1> DEFINE S == Jobs \cup {NoJob}
<1>1. ASSUME ~Ended(q)
      PROVE  /\ JobsOf(q) = q
             /\ \A j \in Jobs : JobsOf(Append(q, j)) = Append(q, j)
             /\ JobsOf(Append(q, NoJob)) = q
  <2>1. JobsOf(q) = q
    BY <1>1 DEF JobsOf
  <2>2. ASSUME NEW j \in Jobs PROVE JobsOf(Append(q, j)) = Append(q, j)
    <3>1. Append(q, j)[Len(Append(q, j))] = j
      OBVIOUS
    <3> QED
      BY <3>1, JobsAssumption DEF JobsOf, Ended
  <2>3. JobsOf(Append(q, NoJob)) = q
    <3>1. /\ Append(q, NoJob) \in Seq(S) /\ Append(q, NoJob) # <<>>
          /\ Len(Append(q, NoJob)) = Len(q) + 1 /\ Len(q) \in Nat
          /\ Append(q, NoJob)[Len(q) + 1] = NoJob
          /\ \A i \in 1 .. Len(q) : Append(q, NoJob)[i] = q[i]
      OBVIOUS
    <3>2. JobsOf(Append(q, NoJob)) = SubSeq(Append(q, NoJob), 1, Len(q))
      BY <3>1 DEF JobsOf, Ended
    <3>3. /\ SubSeq(Append(q, NoJob), 1, Len(q)) \in Seq(S)
          /\ Len(SubSeq(Append(q, NoJob), 1, Len(q))) = Len(q)
          /\ \A i \in 1 .. Len(q) : SubSeq(Append(q, NoJob), 1, Len(q))[i] = q[i]
      BY <3>1
    <3> QED
      BY <3>2, <3>3, SeqEqual
  <2> QED
    BY <2>1, <2>2, <2>3
<1>2. ASSUME q # <<>>
      PROVE  /\ Tail(q) \in Seq(S) /\ Len(q) \in Nat /\ Len(q) > 0
             /\ Len(Tail(q)) = Len(q) - 1 /\ Head(q) = q[1] /\ DOMAIN q = 1 .. Len(q)
             /\ \A i \in 1 .. Len(q) - 1 : Tail(q)[i] = q[i + 1]
  BY <1>2
<1>3. ASSUME q # <<>>, Head(q) # NoJob
      PROVE  /\ JobsOf(q) # <<>> /\ Head(JobsOf(q)) = Head(q)
             /\ JobsOf(Tail(q)) = Tail(JobsOf(q))
  <2>1. CASE Ended(q)
    <3>1. q[Len(q)] = NoJob
      BY <2>1 DEF Ended
    <3>2. Len(q) > 1
      BY <1>2, <1>3, <3>1
    <3>3. /\ JobsOf(q) \in Seq(S) /\ Len(JobsOf(q)) = Len(q) - 1
          /\ \A i \in 1 .. Len(q) - 1 : JobsOf(q)[i] = q[i]
      BY <1>2, <1>3, <2>1 DEF JobsOf
    <3>4. Tail(q) # <<>> /\ Tail(q)[Len(Tail(q))] = NoJob
      BY <1>2, <1>3, <3>1, <3>2
    <3>5. JobsOf(Tail(q)) = SubSeq(Tail(q), 1, Len(q) - 2)
      BY <1>2, <1>3, <3>4 DEF JobsOf, Ended
    <3>6. /\ JobsOf(Tail(q)) \in Seq(S) /\ Len(JobsOf(Tail(q))) = Len(q) - 2
          /\ \A i \in 1 .. Len(q) - 2 : JobsOf(Tail(q))[i] = q[i + 1]
      <4> DEFINE t == Tail(q)
                 n == Len(q) - 2
      <4>1. t \in Seq(S) /\ n \in Nat /\ Len(t) = n + 1
            /\ \A i \in 1 .. n : t[i] = q[i + 1]
        BY <1>2, <1>3, <3>2
      <4>2. JobsOf(t) = SubSeq(t, 1, n)
        BY <3>5
      <4> HIDE DEF t, n
      <4>3. /\ SubSeq(t, 1, n) \in Seq(S) /\ Len(SubSeq(t, 1, n)) = n
            /\ \A i \in 1 .. n : SubSeq(t, 1, n)[i] = t[i]
        BY <4>1
      <4>4. /\ JobsOf(t) \in Seq(S) /\ Len(JobsOf(t)) = n
            /\ \A i \in 1 .. n : JobsOf(t)[i] = q[i + 1]
        BY <4>1, <4>2, <4>3
      <4> QED
        BY <4>4 DEF t, n
    <3>7. JobsOf(q) # <<>> /\ Head(JobsOf(q)) = Head(q)
      BY <1>2, <1>3, <3>2, <3>3
    <3>8. /\ Tail(JobsOf(q)) \in Seq(S) /\ Len(Tail(JobsOf(q))) = Len(q) - 2
          /\ \A i \in 1 .. Len(q) - 2 : Tail(JobsOf(q))[i] = q[i + 1]
      <4> DEFINE t == JobsOf(q)
      <4>1. t \in Seq(S) /\ t # <<>>
        BY <3>3, <3>7
      <4> HIDE DEF t
      <4>2. /\ Tail(t) \in Seq(S) /\ Len(Tail(t)) = Len(t) - 1
            /\ \A i \in 1 .. Len(t) - 1 : Tail(t)[i] = t[i + 1]
        BY <4>1
      <4>3. Len(t) = Len(q) - 1 /\ \A i \in 1 .. Len(q) - 1 : t[i] = q[i]
        BY <3>3 DEF t
      <4>4. ASSUME NEW i \in 1 .. Len(q) - 2 PROVE Tail(t)[i] = q[i + 1]
        <5>1. i \in 1 .. Len(t) - 1 /\ i + 1 \in 1 .. Len(q) - 1
          BY <1>2, <1>3, <4>3
        <5> QED
          BY <4>2, <4>3, <5>1
      <4>5. Len(Tail(t)) = Len(q) - 2
        <5>1. Len(q) \in Nat
          BY <1>2, <1>3
        <5>2. Len(Tail(t)) = (Len(q) - 1) - 1
          BY <4>2, <4>3
        <5> QED
          BY <5>1, <5>2
      <4> QED
        BY <4>2, <4>4, <4>5 DEF t
    <3> QED
      BY <3>6, <3>7, <3>8, SeqEqual
  <2>2. CASE ~Ended(q)
    <3>1. q[Len(q)] # NoJob
      BY <1>3, <2>2 DEF Ended
    <3>2. ASSUME Tail(q) # <<>> PROVE Tail(q)[Len(Tail(q))] # NoJob
      BY <1>2, <1>3, <3>1, <3>2
    <3>3. ~Ended(Tail(q))
      BY <3>2 DEF Ended
    <3> QED
      BY <1>3, <2>2, <3>3 DEF JobsOf
  <2> QED
    BY <2>1, <2>2
<1>4. ASSUME q # <<>>, Head(q) = NoJob PROVE JobsOf(q) = <<>> /\ JobsOf(Tail(q)) = <<>>
  <2>1. Len(q) = 1 /\ q[Len(q)] = NoJob
    BY <1>2, <1>4
  <2>2. Tail(q) = <<>>
    <3>1. Tail(q) \in Seq(S) /\ Len(Tail(q)) = 0
      BY <1>2, <1>4, <2>1
    <3>2. Len(Tail(q)) \notin Nat \ {0}
      BY <3>1
    <3> QED
      BY <3>1, <3>2, EmptySeq, Zenon
  <2>3. SubSeq(q, 1, Len(q) - 1) = <<>>
    <3>1. 1 \in Int /\ 0 \in Int /\ 0 < 1 /\ Len(q) - 1 = 0
      BY <2>1
    <3>2. SubSeq(q, 1, 0) = <<>>
      BY <3>1, SubSeqEmpty, Zenon
    <3> QED
      BY <3>1, <3>2
  <2> QED
    BY <1>4, <2>1, <2>2, <2>3 DEF JobsOf, Ended
<1> QED
  BY <1>1, <1>3, <1>4

(* push() of a job that is accepted nowhere. *)
LEMMA MapsQueue ==
  ASSUME TypeOK, PlaceInv, NEW j \in Jobs, j \notin accepted, inq' = Append(inq, j),
         upc # "closed", todo # <<"join">>, UNCHANGED <<outq, wpc, wjob>>
  PROVE  E!Queue(j)
<1>1. ~Appears(j)
  BY DEF PlaceInv, OnePlace
<1>2. ~Ended(inq) /\ QueueOfJobs = inq /\ inq \in Seq(Jobs \cup {NoJob})
      /\ \A i \in DOMAIN inq : inq[i] # NoJob
  BY NotEnded DEF PlaceInv, TypeOK
<1>3. QueueOfJobs' = Append(QueueOfJobs, j)
  BY <1>2, JobsOfQueue DEF QueueOfJobs
<1>4. j # JobInHand
  BY <1>1, JobsAssumption DEF JobInHand, Appears
<1>5. \A i \in DOMAIN QueueOfJobs : QueueOfJobs[i] # j
  BY <1>1, <1>2 DEF Appears
<1>6. \A i \in DOMAIN Messages : Messages[i] # j
  BY <1>1 DEF Messages, Appears
<1>7. UNCHANGED <<JobInHand, Messages>>
  BY DEF JobInHand, Messages
<1> QED
  BY <1>3, <1>4, <1>5, <1>6, <1>7 DEF E!Queue

(* A message is posted by the job in hand, a message is consumed. *)
LEMMA MapsPost ==
  ASSUME TypeOK, NEW m \in Message, outq' = Append(outq, m), UNCHANGED inq
  PROVE  Messages' = Append(Messages, m.job) /\ UNCHANGED QueueOfJobs
BY MessagesOf DEF Messages, QueueOfJobs, TypeOK

LEMMA MapsTake ==
  ASSUME TypeOK, Deliver, UNCHANGED <<inq, wpc, wjob>>
  PROVE  E!Take
<1>1. Messages # <<>> /\ Messages' = Tail(Messages)
  BY MessagesOf DEF Deliver, Messages, TypeOK
<1> QED
  BY <1>1 DEF E!Take, QueueOfJobs, JobInHand

LEMMA InitExecutor == Init => E!Start
<1> SUFFICES ASSUME Init PROVE E!Start
  OBVIOUS
<1>1. QueueOfJobs = <<>> /\ JobInHand = NoJob
  BY DEF Init, QueueOfJobs, JobsOf, Ended, JobInHand, InHand
<1>2. Messages = <<>>
  BY DEF Init, Messages
<1> QED
  BY <1>1, <1>2 DEF E!Start

LEMMA ExecutorStep ==
  ASSUME IInv, PlaceInv, [Next]_vars
  PROVE  [E!Step]_E!state
<1>1. TypeOK /\ FlagsTellPlace /\ OnePlace /\ LastEntry
  BY DEF IInv, PlaceInv
<1>2. ASSUME UNCHANGED <<inq, outq, wjob>>, (wpc \in InHand) <=> (wpc' \in InHand)
      PROVE  UNCHANGED E!state
  BY <1>2 DEF E!state, QueueOfJobs, JobInHand, Messages
<1>3. ASSUME NEW j \in Jobs, Push(j) PROVE E!Step
  <2>1. todo # <<"join">> /\ upc # "closed" /\ j \notin accepted
    BY <1>3 DEF Push, Ready
  <2>2. E!Queue(j)
    BY <1>1, <1>3, <2>1, MapsQueue DEF Push, worker, PlaceInv
  <2> QED
    BY <2>2 DEF E!Step
<1>4. CASE (\E calls \in Handlers : UserAction(calls)) \/ OtherEvent \/ Idle
  BY <1>2, <1>4 DEF UserAction, OtherEvent, Idle, queues, worker
<1>5. CASE UICall
  <2>1. CASE Clear
    <3>1. inq' = <<>> /\ UNCHANGED <<outq, wpc, wjob>>
      BY <2>1 DEF Clear, worker
    <3>2. E!Discard
      BY <3>1 DEF E!Discard, QueueOfJobs, JobsOf, Ended, JobInHand, Messages
    <3> QED
      BY <3>2 DEF E!Step
  <2>2. CASE PushNext
    <3>1. /\ todo # <<>> /\ Head(todo) = "push" /\ upc = "ready"
          /\ inq' = Append(inq, next) /\ UNCHANGED <<outq, wpc, wjob>>
      BY <2>2 DEF PushNext, Calls, worker
    <3>2. todo[1] = "push" /\ 1 \in DOMAIN todo
      BY <1>1, <3>1 DEF TypeOK
    <3>3. next \in Jobs /\ next \notin accepted
      BY <1>1, <3>2 DEF FlagsTellPlace, LastEntry
    <3>4. todo # <<"join">>
      BY <3>2
    <3>5. E!Queue(next)
      BY <1>1, <3>1, <3>3, <3>4, MapsQueue DEF PlaceInv
    <3> QED
      BY <3>3, <3>5 DEF E!Step
  <2>3. CASE Sentinel
    <3>1. /\ Head(todo) = "sentinel" /\ upc = "ready"
          /\ inq' = Append(inq, NoJob) /\ UNCHANGED <<outq, wpc, wjob>>
      BY <2>3 DEF Sentinel, Calls, worker
    <3>2. todo # <<"join">>
      BY <3>1
    <3>3. ~Ended(inq) /\ QueueOfJobs = inq /\ inq \in Seq(Jobs \cup {NoJob})
          /\ \A i \in DOMAIN inq : inq[i] # NoJob
      BY <1>1, <3>1, <3>2, NotEnded DEF TypeOK
    <3>4. QueueOfJobs' = QueueOfJobs
      BY <3>1, <3>3, JobsOfQueue DEF QueueOfJobs
    <3> QED
      BY <3>1, <3>4 DEF E!state, JobInHand, Messages
  <2>4. CASE ProcessOne \/ WaitOne
    <3>1. E!Take
      BY <1>1, <2>4, MapsTake DEF ProcessOne, WaitOne, worker
    <3> QED
      BY <3>1 DEF E!Step
  <2>5. CASE Cancel \/ IdleInput \/ IdleRunning \/ IdleOutput
    BY <1>2, <2>5 DEF Cancel, IdleInput, IdleRunning, IdleOutput, queues, worker
  <2>6. CASE ProcessedAll \/ WaitTimeout \/ Join
    BY <1>2, <2>6 DEF ProcessedAll, WaitTimeout, Join, queues, worker
  <2> QED
    BY <1>5, <2>1, <2>2, <2>3, <2>4, <2>5, <2>6 DEF UICall
<1>6. CASE Worker
  <2>1. CASE WPop
    <3>1. /\ wpc = "pop" /\ wjob' = Head(inq) /\ inq' = Tail(inq) /\ inq # <<>>
          /\ Head(inq) = NoJob => wpc' = "leave"
          /\ Head(inq) # NoJob => wpc' = "start"
          /\ UNCHANGED outq
      BY <2>1 DEF WPop, Pop
    <3>2. inq \in Seq(Jobs \cup {NoJob}) /\ \A i \in DOMAIN inq : inq[i] = NoJob => i = Len(inq)
      BY <1>1 DEF TypeOK, LastEntry
    <3>3. JobInHand = NoJob /\ UNCHANGED Messages
      BY <3>1 DEF JobInHand, InHand, Messages
    <3>4. CASE Head(inq) = NoJob
      <4>1. JobInHand' = NoJob
        BY <3>1, <3>4 DEF JobInHand, InHand
      <4>2. QueueOfJobs = <<>> /\ QueueOfJobs' = <<>>
        BY <3>1, <3>2, <3>4, JobsOfQueue DEF QueueOfJobs
      <4> QED
        BY <3>3, <4>1, <4>2 DEF E!state
    <3>5. CASE Head(inq) # NoJob
      <4>1. JobInHand' = Head(inq)
        BY <3>1, <3>5 DEF JobInHand, InHand
      <4>2. /\ QueueOfJobs # <<>> /\ Head(QueueOfJobs) = Head(inq)
            /\ QueueOfJobs' = Tail(QueueOfJobs)
        BY <3>1, <3>2, <3>5, JobsOfQueue DEF QueueOfJobs
      <4>3. E!Begin
        BY <3>3, <4>1, <4>2 DEF E!Begin
      <4> QED
        BY <4>3 DEF E!Step
    <3> QED
      BY <3>4, <3>5
  <2>2. CASE WStart \/ WFuture \/ WJudge \/ WLeave
    BY <1>2, <2>2 DEF WStart, WFuture, WJudge, WLeave, InHand, queues
  <2>3. CASE WBegin \/ WPost \/ WEnd
    <3>1. PICK m \in {Status, Call} : outq' = Append(outq, m)
      BY <2>3 DEF WBegin, WPost, WEnd, Post
    <3>2. m \in Message /\ m.job = NoJob
      <4>1. m = Status \/ m = Call
        BY <3>1
      <4>2. Status.job = NoJob /\ Call.job = NoJob
        BY DEF Status, Call
      <4> QED
        BY <4>1, <4>2, MessageTypes
    <3>3. wpc \in InHand /\ wpc' \in InHand /\ UNCHANGED <<inq, wjob>>
      BY <2>3 DEF WBegin, WPost, WEnd, Post, InHand
    <3>4. Messages' = Append(Messages, NoJob) /\ UNCHANGED QueueOfJobs
      BY <1>1, <3>1, <3>2, <3>3, MapsPost
    <3>5. JobInHand = wjob /\ wjob # NoJob /\ UNCHANGED JobInHand
      BY <1>1, <3>3 DEF JobInHand, OnePlace
    <3>6. E!Tell
      BY <3>4, <3>5 DEF E!Tell
    <3> QED
      BY <3>6 DEF E!Step
  <2>4. CASE WFinalize
    <3>1. Finalize(wjob, verdict) \in Message /\ Finalize(wjob, verdict).job = wjob
      BY <1>1, MessageTypes DEF Finalize, TypeOK
    <3>2. /\ wpc \in InHand /\ wpc' \notin InHand /\ UNCHANGED <<inq, wjob>>
          /\ outq' = Append(outq, Finalize(wjob, verdict))
      BY <2>4 DEF WFinalize, InHand
    <3>3. Messages' = Append(Messages, wjob) /\ UNCHANGED QueueOfJobs
      BY <1>1, <3>1, <3>2, MapsPost
    <3>4. JobInHand = wjob /\ wjob # NoJob /\ JobInHand' = NoJob
      BY <1>1, <3>2 DEF JobInHand, OnePlace
    <3>5. E!End
      BY <3>3, <3>4 DEF E!End
    <3> QED
      BY <3>5 DEF E!Step
  <2> QED
    BY <1>6, <2>1, <2>2, <2>3, <2>4 DEF Worker
<1>7. CASE UNCHANGED vars \/ Closed
  BY <1>2, <1>7 DEF vars, Closed, queues, worker
<1> QED
  BY <1>3, <1>4, <1>5, <1>6, <1>7 DEF Next

(* Jobs run in the order they were queued, one at a time; each that began  *)
(* is finalized once, in order and after its own messages; cancel_all()    *)
(* deletes only those that did not begin.                                  *)
THEOREM WorkerImplementsExecutor == Spec => ImplementsExecutor
BY InitExecutor, ExecutorStep, Invariance, PlaceInvariance, PTL
   DEF Spec, ImplementsExecutor, E!Executor

=============================================================================
