-------------------------------- MODULE Worker --------------------------------
(***************************************************************************)
(* internal/worker: the Manager's queue and pool, with the goroutines that *)
(* enqueue, cancel and run jobs and the one that shuts the pool down. The  *)
(* mutexes, the channel and the sync.Maps are variables; a step of a       *)
(* goroutine ends where another can see what it did.                       *)
(*                                                                         *)
(* Publishing events blocks nobody and is left to the event stream. Every  *)
(* job type main.go accepts has a handler, so run's branch for one without *)
(* is left out; so is Progress.Set, which rewrites a running row as        *)
(* running.                                                                *)
(***************************************************************************)
EXTENDS Integers, Sequences, FiniteSets

CONSTANTS Jobs,       \* the jobs somebody may ask for
          Workers,    \* the pool's goroutines
          Cancelers,  \* requests to cancel, each with one job at a time
          QueueCap,   \* capacity of the queue channel
          Stubborn,   \* jobs whose handler may ignore its context and never return
          None,
          MaxFaults   \* bound: writes to the jobs table that fail

ASSUME WorkerAssumption ==
  /\ QueueCap \in Nat \ {0} /\ MaxFaults \in Nat
  /\ Stubborn \subseteq Jobs /\ None \notin Jobs \cup Cancelers

VARIABLES
  row,              \* jobs.status
  queue,            \* the buffered channel
  stopMu, transMu,  \* who holds each mutex between its steps
  stopped,          \* Shutdown has begun: the flag, and the closed quit channel
  cancels,          \* jobs with a cancel func stored
  skip,             \* jobs canceled while queued
  canceled,         \* jobs whose context is done
  enq,              \* how far each job's EnqueuePayload is
  cpc, cjob,        \* each canceler: where it is, and its job
  wpc, wjob, wout,  \* each worker: where it is, its job and that job's outcome
  shut, sjob,       \* Shutdown: where it is, and the job it is draining
  faults,
  ran, marked       \* history: jobs whose handler ran, jobs Cancel marked

locks == <<stopMu, transMu>>
maps == <<cancels, skip, canceled>>
canceling == <<cpc, cjob>>
working == <<wpc, wjob, wout>>
stopping == <<stopped, shut, sjob>>
history == <<ran, marked>>
vars == <<row, queue, locks, maps, enq, canceling, working, stopping, faults, history>>

Init ==
  /\ row = [j \in Jobs |-> "absent"]
  /\ queue = <<>> /\ stopMu = None /\ transMu = None
  /\ cancels = {} /\ skip = {} /\ canceled = {}
  /\ enq = [j \in Jobs |-> "idle"]
  /\ cpc = [c \in Cancelers |-> "idle"] /\ cjob = [c \in Cancelers |-> None]
  /\ wpc = [w \in Workers |-> "select"] /\ wjob = [w \in Workers |-> None]
  /\ wout = [w \in Workers |-> None]
  /\ stopped = FALSE /\ shut = "idle" /\ sjob = None
  /\ faults = 0 /\ ran = {} /\ marked = {}

\* A write of job j's status; it may fail and leave the row as it was.
Persist(j, status) ==
  \/ row' = [row EXCEPT ![j] = status] /\ UNCHANGED faults
  \/ faults < MaxFaults /\ faults' = faults + 1 /\ UNCHANGED row

-----------------------------------------------------------------------------
(* EnqueuePayload, which holds stopMu to its end. *)

Enqueue(j) ==
  /\ enq[j] = "idle" /\ stopMu = None
  /\ \/ /\ ~stopped /\ Persist(j, "queued")
        /\ IF row'[j] = "queued"
           THEN enq' = [enq EXCEPT ![j] = "sending"] /\ stopMu' = j
           ELSE enq' = [enq EXCEPT ![j] = "refused"] /\ UNCHANGED stopMu
     \/ /\ stopped /\ enq' = [enq EXCEPT ![j] = "refused"]
        /\ UNCHANGED <<row, faults, stopMu>>
  /\ UNCHANGED <<queue, transMu, maps, canceling, working, stopping, history>>

\* Bug: the channel takes one job more than it has room for.
SendOver(j) ==
  /\ enq[j] = "sending" /\ Len(queue) <= QueueCap
  /\ queue' = Append(queue, j) /\ stopMu' = None
  /\ enq' = [enq EXCEPT ![j] = "sent"]
  /\ UNCHANGED <<row, transMu, maps, canceling, working, stopping, faults, history>>

\* The send blocks while the channel is full.
Send(j) ==
  /\ enq[j] = "sending" /\ Len(queue) < QueueCap
  /\ queue' = Append(queue, j) /\ stopMu' = None
  /\ enq' = [enq EXCEPT ![j] = "sent"]
  /\ UNCHANGED <<row, transMu, maps, canceling, working, stopping, faults, history>>

-----------------------------------------------------------------------------
(* Cancel *)

CancelAt(c, at) == cpc' = [cpc EXCEPT ![c] = at]
CancelReturns(c) == CancelAt(c, "idle") /\ cjob' = [cjob EXCEPT ![c] = None]

\* Under transMu: a job with a cancel func has its context canceled.
CancelLook(c, j) ==
  /\ cpc[c] = "idle" /\ transMu = None /\ row[j] # "absent"
  /\ IF j \in cancels
     THEN canceled' = canceled \cup {j} /\ UNCHANGED <<transMu, canceling>>
     ELSE /\ transMu' = c /\ CancelAt(c, "marking") /\ cjob' = [cjob EXCEPT ![c] = j]
          /\ UNCHANGED canceled
  /\ UNCHANGED <<row, queue, stopMu, cancels, skip, enq, working, stopping, faults, history>>

\* Bug: the job's status is not looked at.
CancelMarkAny(c) ==
  /\ cpc[c] = "marking" /\ transMu' = None
  /\ skip' = skip \cup {cjob[c]} /\ marked' = marked \cup {cjob[c]}
  /\ CancelAt(c, "finishing")
  /\ UNCHANGED <<row, queue, stopMu, cancels, canceled, enq, cjob, working, stopping, faults, ran>>

\* Otherwise a job still queued is marked for run to skip; others are left alone.
CancelMark(c) ==
  /\ cpc[c] = "marking" /\ transMu' = None
  /\ \/ /\ row[cjob[c]] = "queued"
        /\ skip' = skip \cup {cjob[c]} /\ marked' = marked \cup {cjob[c]}
        /\ CancelAt(c, "finishing") /\ UNCHANGED cjob
     \/ /\ row[cjob[c]] # "queued" /\ CancelReturns(c) /\ UNCHANGED <<skip, marked>>
  /\ UNCHANGED <<row, queue, stopMu, cancels, canceled, enq, working, stopping, faults, ran>>

\* finish, after transMu was released.
CancelFinish(c) ==
  /\ cpc[c] = "finishing" /\ CancelReturns(c)
  /\ Persist(cjob[c], "canceled")
  /\ UNCHANGED <<queue, locks, maps, enq, working, stopping, history>>

-----------------------------------------------------------------------------
(* loop and run *)

WorkerAt(w, at) == wpc' = [wpc EXCEPT ![w] = at]
LetGo(w) == wjob' = [wjob EXCEPT ![w] = None]
Outcome(w, out) == wout' = [wout EXCEPT ![w] = out]

Receive(w) ==
  /\ wpc[w] = "select" /\ queue # <<>>
  /\ queue' = Tail(queue) /\ wjob' = [wjob EXCEPT ![w] = Head(queue)]
  /\ WorkerAt(w, "received")
  /\ UNCHANGED <<row, locks, maps, enq, canceling, wout, stopping, faults, history>>

Quit(w) ==
  /\ wpc[w] = "select" /\ stopped /\ WorkerAt(w, "exited")
  /\ UNCHANGED <<row, queue, locks, maps, enq, canceling, wjob, wout, stopping, faults, history>>

\* The second look at quit, after a receive that may have beaten it.
Recheck(w) ==
  /\ wpc[w] = "received"
  /\ WorkerAt(w, IF stopped THEN "dropping" ELSE "starting")
  /\ UNCHANGED <<row, queue, locks, maps, enq, canceling, wjob, wout, stopping, faults, history>>

DropJob(w) ==
  /\ wpc[w] = "dropping" /\ WorkerAt(w, "exited")
  /\ Persist(wjob[w], "canceled") /\ LetGo(w)
  /\ UNCHANGED <<queue, locks, maps, enq, canceling, wout, stopping, history>>

\* Bug: run looks at skip and stores its cancel func without taking transMu.
StartUnlocked(w) ==
  /\ wpc[w] = "starting"
  /\ IF wjob[w] \in skip
     THEN skip' = skip \ {wjob[w]} /\ WorkerAt(w, "select") /\ LetGo(w) /\ UNCHANGED cancels
     ELSE /\ cancels' = cancels \cup {wjob[w]} /\ WorkerAt(w, "persisting")
          /\ UNCHANGED <<skip, wjob>>
  /\ UNCHANGED <<row, queue, locks, canceled, enq, canceling, wout, stopping, faults, history>>

\* Bug: the early return for a skipped job leaves transMu locked.
StartLeavingLock(w) ==
  /\ wpc[w] = "starting" /\ transMu = None
  /\ IF wjob[w] \in skip
     THEN /\ skip' = skip \ {wjob[w]} /\ WorkerAt(w, "select") /\ transMu' = w
          /\ LetGo(w) /\ UNCHANGED cancels
     ELSE /\ cancels' = cancels \cup {wjob[w]} /\ WorkerAt(w, "persisting")
          /\ UNCHANGED <<skip, wjob, transMu>>
  /\ UNCHANGED <<row, queue, stopMu, canceled, enq, canceling, wout, stopping, faults, history>>

\* run's critical section: a skipped job ends here, another gets a cancel func.
Start(w) ==
  /\ wpc[w] = "starting" /\ transMu = None
  /\ IF wjob[w] \in skip
     THEN skip' = skip \ {wjob[w]} /\ WorkerAt(w, "select") /\ LetGo(w) /\ UNCHANGED cancels
     ELSE /\ cancels' = cancels \cup {wjob[w]} /\ WorkerAt(w, "persisting")
          /\ UNCHANGED <<skip, wjob>>
  /\ UNCHANGED <<row, queue, locks, canceled, enq, canceling, wout, stopping, faults, history>>

\* No handler is called on a row that still says queued.
PersistStart(w) ==
  /\ wpc[w] = "persisting" /\ Persist(wjob[w], "running")
  /\ IF row'[wjob[w]] = "running"
     THEN ran' = ran \cup {wjob[w]} /\ WorkerAt(w, "handling") /\ UNCHANGED wout
     ELSE Outcome(w, "failed") /\ WorkerAt(w, "finishing") /\ UNCHANGED ran
  /\ UNCHANGED <<queue, locks, maps, enq, canceling, wjob, stopping, marked>>

\* A handler returns nil, or an error that a done context makes a cancellation.
HandlerReturns(w) ==
  /\ wpc[w] = "handling" /\ WorkerAt(w, "finishing")
  /\ \/ Outcome(w, "done")
     \/ Outcome(w, IF wjob[w] \in canceled THEN "canceled" ELSE "failed")
  /\ UNCHANGED <<row, queue, locks, maps, enq, canceling, wjob, stopping, faults, history>>

Finish(w) ==
  /\ wpc[w] = "finishing" /\ WorkerAt(w, "forgetting")
  /\ Persist(wjob[w], wout[w])
  /\ UNCHANGED <<queue, locks, maps, enq, canceling, wjob, wout, stopping, history>>

\* run's deferred function; the context is out of everyone's reach.
Forget(w) ==
  /\ wpc[w] = "forgetting" /\ WorkerAt(w, "select")
  /\ cancels' = cancels \ {wjob[w]} /\ canceled' = canceled \ {wjob[w]}
  /\ LetGo(w) /\ Outcome(w, None)
  /\ UNCHANGED <<row, queue, locks, skip, enq, canceling, stopping, faults, history>>

-----------------------------------------------------------------------------
(* Shutdown, called once, by main. *)

ShutdownAt(at) == shut' = at

CallShutdown ==
  /\ shut = "idle" /\ ShutdownAt("called")
  /\ UNCHANGED <<row, queue, locks, maps, enq, canceling, working, stopped, sjob, faults, history>>

\* Bug: Shutdown does not wait for an EnqueuePayload in progress.
StopUnlocked ==
  /\ shut = "called" /\ stopped' = TRUE /\ ShutdownAt("ranging")
  /\ UNCHANGED <<row, queue, locks, maps, enq, canceling, working, sjob, faults, history>>

\* Under stopMu.
Stop ==
  /\ shut = "called" /\ stopMu = None /\ stopped' = TRUE /\ ShutdownAt("ranging")
  /\ UNCHANGED <<row, queue, locks, maps, enq, canceling, working, sjob, faults, history>>

CancelRunning ==
  /\ shut = "ranging" /\ ShutdownAt("waiting")
  /\ canceled' = canceled \cup cancels
  /\ UNCHANGED <<row, queue, locks, cancels, skip, enq, canceling, working, stopped, sjob, faults, history>>

\* Bug: the wait for the workers has no time limit.
JoinWorkers ==
  /\ shut = "waiting" /\ \A w \in Workers : wpc[w] = "exited"
  /\ ShutdownAt("draining")
  /\ UNCHANGED <<row, queue, locks, maps, enq, canceling, working, stopped, sjob, faults, history>>

\* waitWorkers ends when every worker has exited or the grace has elapsed, and
\* the grace may elapse at any time.
WaitWorkers ==
  /\ shut = "waiting" /\ ShutdownAt("draining")
  /\ UNCHANGED <<row, queue, locks, maps, enq, canceling, working, stopped, sjob, faults, history>>

\* drainQueue takes what is left, one job at a time.
DrainReceive ==
  /\ shut = "draining" /\ sjob = None
  /\ IF queue = <<>> THEN ShutdownAt("returned") /\ UNCHANGED <<queue, sjob>>
     ELSE sjob' = Head(queue) /\ queue' = Tail(queue) /\ UNCHANGED shut
  /\ UNCHANGED <<row, locks, maps, enq, canceling, working, stopped, faults, history>>

DrainFinish ==
  /\ shut = "draining" /\ sjob # None /\ sjob' = None
  /\ Persist(sjob, "canceled")
  /\ UNCHANGED <<queue, locks, maps, enq, canceling, working, stopped, shut, history>>

-----------------------------------------------------------------------------

CancelStep(c) == CancelMark(c) \/ CancelFinish(c)
Bookkeeping(w) == \/ Receive(w) \/ Quit(w) \/ Recheck(w) \/ DropJob(w)
                  \/ PersistStart(w) \/ Finish(w) \/ Forget(w)
Shutdown == Stop \/ CancelRunning \/ WaitWorkers \/ DrainReceive \/ DrainFinish

Next == \/ \E j \in Jobs : Enqueue(j) \/ Send(j)
        \/ \E c \in Cancelers : CancelStep(c) \/ \E j \in Jobs : CancelLook(c, j)
        \/ \E w \in Workers : Bookkeeping(w) \/ Start(w) \/ HandlerReturns(w)
        \/ CallShutdown \/ Shutdown

Spec == Init /\ [][Next]_vars

\* Goroutines run; a blocked Lock is granted in turn (Go's mutexes do not
\* starve); the grace timer fires; a handler returns unless it is stubborn.
\* Nobody has to ask for a job, a cancellation or a shutdown.
FairSpec ==
  /\ Spec
  /\ \A j \in Jobs : WF_vars(Send(j))
  /\ \A c \in Cancelers : WF_vars(CancelStep(c))
  /\ \A w \in Workers : /\ WF_vars(Bookkeeping(w)) /\ SF_vars(Start(w))
                        /\ WF_vars(HandlerReturns(w) /\ wjob[w] \notin Stubborn)
  /\ WF_vars(Shutdown)

-----------------------------------------------------------------------------
(* Properties *)

\* The variables hold values of the kinds the code gives them; the channel holds
\* no more than its capacity.
TypeOK ==
  /\ row \in [Jobs -> {"absent", "queued", "running", "done", "failed", "canceled"}]
  /\ queue \in Seq(Jobs) /\ Len(queue) <= QueueCap
  /\ stopMu \in Jobs \cup {None} /\ transMu \in Cancelers \cup {None}
  /\ cancels \subseteq Jobs /\ skip \subseteq Jobs /\ canceled \subseteq Jobs
  /\ enq \in [Jobs -> {"idle", "sending", "sent", "refused"}]
  /\ cpc \in [Cancelers -> {"idle", "marking", "finishing"}]
  /\ cjob \in [Cancelers -> Jobs \cup {None}]
  /\ wpc \in [Workers -> {"select", "received", "dropping", "starting", "persisting",
                          "handling", "finishing", "forgetting", "exited"}]
  /\ wjob \in [Workers -> Jobs \cup {None}]
  /\ wout \in [Workers -> {"done", "failed", "canceled", None}]
  /\ stopped \in BOOLEAN /\ sjob \in Jobs \cup {None}
  /\ shut \in {"idle", "called", "ranging", "waiting", "draining", "returned"}
  /\ faults \in 0 .. MaxFaults /\ ran \subseteq Jobs /\ marked \subseteq Jobs

\* "The job can't both be marked canceled and run to completion"
\* (worker.go:231-234): not even run at all.
NeverBoth == ran \cap marked = {}

\* Somebody is about to write the outcome of job j.
Attended(j) ==
  \/ j = sjob
  \/ \E c \in Cancelers : cpc[c] = "finishing" /\ cjob[c] = j
  \/ \E w \in Workers : wjob[w] = j /\ wpc[w] \notin {"select", "forgetting", "exited"}

\* When Shutdown has returned no job is "stranded as queued forever"
\* (worker.go:200), as long as the writes to the table worked.
NoneStranded ==
  shut = "returned" /\ faults = 0 =>
    \A j \in Jobs : row[j] = "queued" => Attended(j)

\* Whoever cancels, runs, drops or drains a job, its row goes through the
\* states of the lifecycle and an outcome once recorded stands.
Life == INSTANCE JobLifecycle WITH status <- row
FollowsLifecycle == Life!Spec

StuckWorker(w) == wpc[w] = "handling" /\ wjob[w] \in Stubborn

\* A job asked for ends, unless a write failed or stubborn handlers have taken
\* the whole pool.
EveryJobEnds ==
  \A j \in Jobs \ Stubborn :
    enq[j] = "sending" ~> \/ row[j] \in Life!Ended \/ faults > 0
                          \/ \A w \in Workers : StuckWorker(w)

\* Shutdown returns, unless it finds EnqueuePayload waiting, with stopMu, for room
\* in the queue of a pool whose handlers do not return. Then it waits for the lock
\* before its grace begins, although "a handler that ignores cancellation must not
\* be able to block process exit forever" (worker.go:26-29).
ShutdownReturnsOrWedged ==
  shut = "called" ~> \/ shut = "returned"
                     \/ /\ stopMu # None /\ Len(queue) = QueueCap
                        /\ \A w \in Workers : StuckWorker(w)
=============================================================================
