------------------------------ MODULE WorkerProofs ------------------------------
(***************************************************************************)
(* For any jobs, workers, cancelers, queue capacity and number of failing  *)
(* writes: a job that was marked as canceled never runs, rows follow the   *)
(* lifecycle, and a shutdown strands no job.                               *)
(*                                                                         *)
(* All three rest on where a job is. It is in the hands of one goroutine   *)
(* at most - its enqueuer, the queue, a worker or Shutdown - and until it  *)
(* starts, Cancel's mark travels with it in skip; from the moment it       *)
(* starts, its cancel func is stored, so that no mark is set any more.     *)
(***************************************************************************)
EXTENDS Worker, TLAPS

Queued == {queue[k] : k \in 1 .. Len(queue)}
Distinct == \A k, l \in 1 .. Len(queue) : queue[k] = queue[l] => k = l

AtHand == {"received", "dropping", "starting"}
Started == {"persisting", "handling", "finishing", "forgetting"}

\* A worker between two jobs holds none.
Hands == \A w \in Workers :
  IF wpc[w] \in AtHand \cup Started THEN wjob[w] \in Jobs ELSE wjob[w] = None

\* A job is in one pair of hands, and none before it was sent.
OnePlace ==
  /\ Distinct
  /\ sjob \notin Queued
  /\ \A w \in Workers :
       /\ wjob[w] \notin Queued
       /\ wjob[w] = sjob => sjob = None
       /\ \A v \in Workers : wjob[v] = wjob[w] => v = w \/ wjob[w] = None
  /\ \A j \in Jobs :
       j \in Queued \/ j = sjob \/ j \in ran \/ (\E w \in Workers : wjob[w] = j)
         => enq[j] = "sent"

\* Cancel decides under transMu on a job without a cancel func; a started job
\* has one.
Deciding ==
  /\ \A c \in Cancelers :
       /\ cpc[c] = "marking" => transMu = c /\ cjob[c] \in Jobs /\ cjob[c] \notin cancels
       /\ cpc[c] = "finishing" => cjob[c] \in marked
  /\ \A w \in Workers : wpc[w] \in Started => wjob[w] \in cancels /\ wjob[w] \notin marked

\* A mark waits in skip for whoever is to start the job.
Skips ==
  /\ skip \subseteq marked
  /\ \A j \in marked :
       \/ j \in skip
       \/ /\ enq[j] # "sending" /\ j \notin Queued
          /\ \A w \in Workers : wjob[w] = j => wpc[w] \notin {"received", "starting"}

Unstarted(j) ==
  \/ enq[j] = "sending" \/ j \in Queued \/ j = sjob
  \/ \E w \in Workers : wjob[w] = j /\ wpc[w] \in AtHand

\* What a job's row says, by how far the job is.
Rows ==
  /\ \A j \in Jobs :
       /\ enq[j] = "idle" => row[j] = "absent"
       /\ j \in ran => row[j] \notin {"absent", "queued"} /\ j \notin marked
       /\ j \in marked => row[j] \in {"queued", "canceled"}
       /\ Unstarted(j) =>
            j \notin ran /\ (row[j] = "queued" \/ (row[j] = "canceled" /\ j \in marked))
  /\ \A w \in Workers :
       /\ wpc[w] = "persisting" => row[wjob[w]] = "queued"
       /\ wpc[w] = "handling" => row[wjob[w]] = "running"
       /\ wpc[w] = "finishing" =>
            /\ wout[w] \in {"done", "failed", "canceled"}
            /\ row[wjob[w]] = "running" \/ (row[wjob[w]] = "queued" /\ wout[w] = "failed")

\* A shutdown begins between two enqueues, and drains the queue to its end.
Stops ==
  /\ \A j \in Jobs : enq[j] = "sending" <=> stopMu = j
  /\ stopped <=> shut \notin {"idle", "called"}
  /\ stopped => stopMu = None
  /\ sjob # None => shut = "draining"
  /\ shut = "returned" => queue = <<>>

\* As long as no write failed, a queued row is somebody's concern.
Covered == faults = 0 => \A j \in Jobs : row[j] = "queued" =>
  /\ enq[j] = "sending" \/ j \in Queued \/ Attended(j)
  /\ j \in marked => \E c \in Cancelers : cpc[c] = "finishing" /\ cjob[c] = j

IInv == TypeOK /\ Hands /\ OnePlace /\ Deciding /\ Skips /\ Rows /\ Stops /\ Covered

-----------------------------------------------------------------------------
(* The queue, and the types of what a step writes. *)

Statuses == {"absent", "queued", "running", "done", "failed", "canceled"}
Stages == {"select", "received", "dropping", "starting", "persisting", "handling",
           "finishing", "forgetting", "exited"}

\* A job that was not in the queue joins it at the end.
LEMMA AppendQueued ==
  ASSUME queue \in Seq(Jobs), NEW j \in Jobs, queue' = Append(queue, j)
  PROVE  /\ Queued' = Queued \cup {j}
         /\ Distinct /\ j \notin Queued => Distinct'
BY DEF Queued, Distinct

\* The first job leaves it.
LEMMA TailQueued ==
  ASSUME queue \in Seq(Jobs), queue # <<>>, queue' = Tail(queue)
  PROVE  /\ Head(queue) \in Queued /\ Head(queue) \in Jobs
         /\ Distinct => Distinct' /\ Queued' = Queued \ {Head(queue)}
BY DEF Queued, Distinct

\* What is queued are jobs; an empty queue holds none.
LEMMA QueuedJobs ==
  ASSUME queue \in Seq(Jobs)
  PROVE  Queued \subseteq Jobs /\ (queue = <<>> <=> Queued = {})
<1>1. \A k \in 1 .. Len(queue) : queue[k] \in Jobs
  OBVIOUS
<1>2. queue # <<>> => 1 \in 1 .. Len(queue)
  OBVIOUS
<1> QED
  BY <1>1, <1>2 DEF Queued

\* A write of a status leaves the table and the count of failures well typed.
LEMMA PersistTypes ==
  ASSUME TypeOK, NEW j \in Jobs,
         NEW s \in {"queued", "running", "done", "failed", "canceled"}, Persist(j, s)
  PROVE  /\ row' \in [Jobs -> Statuses]
         /\ faults' \in 0 .. MaxFaults
BY WorkerAssumption DEF Persist, TypeOK, Statuses

\* A worker that lets go of its job leaves every other where it is.
LEMMA LetGoPlace ==
  ASSUME IInv, Queued' = Queued, (Distinct <=> Distinct'),
         sjob' = sjob, ran' = ran, enq' = enq,
         \A v \in Workers : wjob'[v] = wjob[v] \/ wjob'[v] = None
  PROVE  OnePlace'
<1>1. \A v \in Workers : /\ wjob[v] \notin Queued
                         /\ wjob[v] = sjob => sjob = None
  BY DEF IInv, OnePlace
<1>2. None \notin Queued
  BY WorkerAssumption, QueuedJobs DEF IInv, TypeOK
<1>3. \A v \in Workers : /\ wjob'[v] \notin Queued'
                         /\ wjob'[v] = sjob' => sjob' = None
  BY <1>1, <1>2
<1>4. \A u \in Workers : \A v \in Workers :
        wjob'[v] = wjob'[u] => v = u \/ wjob'[u] = None
  BY DEF IInv, OnePlace
<1>5. \A j \in Jobs :
        j \in Queued' \/ j = sjob' \/ j \in ran' \/ (\E v \in Workers : wjob'[v] = j)
          => enq'[j] = "sent"
  BY WorkerAssumption DEF IInv, OnePlace
<1>6. Distinct' /\ sjob' \notin Queued'
  BY DEF IInv, OnePlace
<1> QED
  BY <1>3, <1>4, <1>5, <1>6 DEF OnePlace

\* An enqueue creates a row and takes stopMu, or is refused.
LEMMA EnqueueKeeps ==
  ASSUME IInv, NEW j \in Jobs, Enqueue(j)
  PROVE  IInv'
<1>q. Queued' = Queued /\ (Distinct <=> Distinct')
  BY DEF Enqueue, Queued, Distinct
<1>1. TypeOK'
  BY WorkerAssumption DEF IInv, Enqueue, Persist, TypeOK, maps, canceling,
     working, stopping, history
<1>2. Hands'
  BY DEF IInv, Enqueue, Hands, working
<1>3. OnePlace'
  BY <1>q DEF IInv, Enqueue, TypeOK, OnePlace, canceling, working, stopping, history
<1>4. Deciding'
  BY DEF IInv, Enqueue, Deciding, maps, canceling, working, history
<1>5. Skips'
  BY <1>q DEF IInv, Enqueue, TypeOK, Skips, Rows, maps, working, history
<1>6. Rows'
  BY <1>q DEF IInv, Enqueue, Persist, TypeOK, Hands, Rows, Started, Unstarted,
     working, stopping, history
<1>7. Stops'
  BY WorkerAssumption DEF IInv, Enqueue, TypeOK, Stops, stopping
<1>8. Covered'
  BY <1>q DEF IInv, Enqueue, Persist, TypeOK, Rows, Covered, Attended, canceling,
     working, stopping, history
<1> QED
  BY <1>1, <1>2, <1>3, <1>4, <1>5, <1>6, <1>7, <1>8 DEF IInv

\* A send hands its job to the queue.
LEMMA SendKeeps ==
  ASSUME IInv, NEW j \in Jobs, Send(j)
  PROVE  IInv'
<1>q. Queued' = Queued \cup {j} /\ Distinct'
  BY AppendQueued DEF Send, IInv, TypeOK, OnePlace, Stops, Rows
<1>1. TypeOK'
  BY WorkerAssumption DEF IInv, Send, TypeOK, maps, canceling, working, stopping,
     history
<1>2. Hands'
  BY DEF IInv, Send, Hands, working
<1>3. OnePlace'
  BY <1>q DEF IInv, Send, TypeOK, OnePlace, Rows, Stops, working, stopping, history
<1>4. Deciding'
  BY DEF IInv, Send, Deciding, maps, canceling, working, history
<1>5. Skips'
  BY <1>q DEF IInv, Send, Skips, maps, working, history
<1>6. Rows'
  BY <1>q DEF IInv, Send, Rows, Unstarted, working, stopping, history
<1>7. Stops'
  BY WorkerAssumption DEF IInv, Send, TypeOK, Stops, stopping
<1>8. Covered'
  BY <1>q, WorkerAssumption DEF IInv, Send, Stops, Covered, Attended, canceling,
     working, history
<1> QED
  BY <1>1, <1>2, <1>3, <1>4, <1>5, <1>6, <1>7, <1>8 DEF IInv

\* Cancel takes transMu for a job without a cancel func.
LEMMA CancelLookKeeps ==
  ASSUME IInv, NEW c \in Cancelers, NEW j \in Jobs, CancelLook(c, j)
  PROVE  IInv'
<1>q. Queued' = Queued /\ (Distinct <=> Distinct')
  BY DEF CancelLook, Queued, Distinct
<1>1. TypeOK'
  BY DEF IInv, CancelLook, CancelAt, TypeOK, canceling, working, stopping, history
<1>2. Hands'
  BY DEF IInv, CancelLook, Hands, working
<1>3. OnePlace'
  BY <1>q DEF IInv, CancelLook, OnePlace, working, stopping, history
<1>4. Deciding'
  BY WorkerAssumption DEF IInv, CancelLook, CancelAt, TypeOK, Deciding, canceling,
     working, history
<1>5. Skips'
  BY <1>q DEF IInv, CancelLook, Skips, working, history
<1>6. Rows'
  BY <1>q DEF IInv, CancelLook, Rows, Unstarted, working, stopping, history
<1>7. Stops'
  BY DEF IInv, CancelLook, Stops, stopping
<1>8. Covered'
  BY <1>q, WorkerAssumption DEF IInv, CancelLook, CancelAt, TypeOK, Covered,
     Attended, canceling, working, stopping, history
<1> QED
  BY <1>1, <1>2, <1>3, <1>4, <1>5, <1>6, <1>7, <1>8 DEF IInv

\* Cancel marks a job that is still queued: it has not started, for want of a
\* cancel func.
LEMMA CancelMarkKeeps ==
  ASSUME IInv, NEW c \in Cancelers, CancelMark(c)
  PROVE  IInv'
<1>q. Queued' = Queued /\ (Distinct <=> Distinct')
  BY DEF CancelMark, Queued, Distinct
<1>1. TypeOK'
  <2>1. cjob[c] \in Jobs
    BY DEF IInv, CancelMark, Deciding
  <2>2. /\ skip' \subseteq Jobs /\ marked' \subseteq Jobs /\ transMu' = None
        /\ cpc' \in [Cancelers -> {"idle", "marking", "finishing"}]
        /\ cjob' \in [Cancelers -> Jobs \cup {None}]
    BY <2>1 DEF IInv, TypeOK, CancelMark, CancelAt, CancelReturns
  <2> QED
    BY <2>2 DEF IInv, TypeOK, CancelMark, working, stopping
<1>2. Hands'
  BY DEF IInv, CancelMark, Hands, working
<1>3. OnePlace'
  BY <1>q DEF IInv, CancelMark, OnePlace, working, stopping
<1>4. Deciding'
  BY DEF IInv, CancelMark, CancelAt, CancelReturns, TypeOK, Deciding, working
<1>5. Skips'
  BY <1>q DEF IInv, CancelMark, Skips, working
<1>6. Rows'
  BY <1>q DEF IInv, CancelMark, Rows, Unstarted, working, stopping
<1>7. Stops'
  BY DEF IInv, CancelMark, Stops, stopping
<1>8. Covered'
  BY <1>q DEF IInv, CancelMark, CancelAt, CancelReturns, TypeOK, Deciding,
     Covered, Attended, working, stopping
<1> QED
  BY <1>1, <1>2, <1>3, <1>4, <1>5, <1>6, <1>7, <1>8 DEF IInv

\* Cancel records the outcome of a job it marked.
LEMMA CancelFinishKeeps ==
  ASSUME IInv, NEW c \in Cancelers, CancelFinish(c)
  PROVE  IInv'
<1>q. Queued' = Queued /\ (Distinct <=> Distinct')
  BY DEF CancelFinish, Queued, Distinct
<1>1. TypeOK'
  BY WorkerAssumption DEF IInv, CancelFinish, CancelAt, CancelReturns, Persist,
     TypeOK, locks, maps, working, stopping, history
<1>2. Hands'
  BY DEF IInv, CancelFinish, Hands, working
<1>3. OnePlace'
  BY <1>q DEF IInv, CancelFinish, OnePlace, working, stopping, history
<1>4. Deciding'
  BY DEF IInv, CancelFinish, CancelAt, CancelReturns, TypeOK, Deciding, locks,
     maps, working, history
<1>5. Skips'
  BY <1>q DEF IInv, CancelFinish, Skips, maps, working, history
<1>6. Rows'
  BY <1>q DEF IInv, CancelFinish, Persist, TypeOK, Deciding, Rows, Started,
     Unstarted, working, stopping, history
<1>7. Stops'
  BY DEF IInv, CancelFinish, Stops, locks, stopping
<1>8. Covered'
  BY <1>q DEF IInv, CancelFinish, CancelAt, CancelReturns, Persist, TypeOK,
     Covered, Attended, working, stopping, history
<1> QED
  BY <1>1, <1>2, <1>3, <1>4, <1>5, <1>6, <1>7, <1>8 DEF IInv

\* A worker takes a job over from the queue.
LEMMA ReceiveKeeps ==
  ASSUME IInv, NEW w \in Workers, Receive(w)
  PROVE  IInv'
<1>q. /\ Head(queue) \in Queued /\ Head(queue) \in Jobs
      /\ Queued' = Queued \ {Head(queue)} /\ Distinct'
  BY TailQueued DEF Receive, IInv, TypeOK, OnePlace
<1>1. TypeOK'
  BY WorkerAssumption DEF IInv, Receive, WorkerAt, TypeOK, locks, maps, canceling,
     stopping, history
<1>2. Hands'
  BY DEF IInv, Receive, WorkerAt, TypeOK, Hands, AtHand
<1>3. OnePlace'
  BY <1>q DEF IInv, Receive, OnePlace, stopping, history
<1>4. Deciding'
  BY DEF IInv, Receive, WorkerAt, Deciding, Started, locks, maps, canceling, history
<1>5. Skips'
  BY <1>q DEF IInv, Receive, WorkerAt, TypeOK, Skips, maps, history
<1>6. Rows'
  BY <1>q DEF IInv, Receive, WorkerAt, TypeOK, Rows, Unstarted, stopping, history
<1>7. Stops'
  BY DEF IInv, Receive, Stops, locks, stopping
<1>8. Covered'
  BY <1>q DEF IInv, Receive, WorkerAt, TypeOK, Covered, Attended, canceling,
     stopping, history
<1> QED
  BY <1>1, <1>2, <1>3, <1>4, <1>5, <1>6, <1>7, <1>8 DEF IInv

\* A worker without a job leaves.
LEMMA QuitKeeps ==
  ASSUME IInv, NEW w \in Workers, Quit(w)
  PROVE  IInv'
<1>q. Queued' = Queued /\ (Distinct <=> Distinct')
  BY DEF Quit, Queued, Distinct
<1>1. TypeOK'
  BY DEF IInv, Quit, WorkerAt, TypeOK, locks, maps, canceling, stopping, history
<1>2. Hands'
  BY DEF IInv, Quit, WorkerAt, Hands, AtHand, Started
<1>3. OnePlace'
  BY <1>q DEF IInv, Quit, OnePlace, stopping, history
<1>4. Deciding'
  BY DEF IInv, Quit, WorkerAt, Deciding, Started, locks, maps, canceling, history
<1>5. Skips'
  BY <1>q DEF IInv, Quit, WorkerAt, Skips, maps, history
<1>6. Rows'
  BY <1>q DEF IInv, Quit, WorkerAt, Rows, AtHand, Unstarted, stopping, history
<1>7. Stops'
  BY DEF IInv, Quit, Stops, locks, stopping
<1>8. Covered'
  BY <1>q DEF IInv, Quit, WorkerAt, Covered, Attended, canceling, stopping, history
<1> QED
  BY <1>1, <1>2, <1>3, <1>4, <1>5, <1>6, <1>7, <1>8 DEF IInv

\* A worker decides what to do with the job it received.
LEMMA RecheckKeeps ==
  ASSUME IInv, NEW w \in Workers, Recheck(w)
  PROVE  IInv'
<1>q. Queued' = Queued /\ (Distinct <=> Distinct')
  BY DEF Recheck, Queued, Distinct
<1>1. TypeOK'
  BY DEF IInv, Recheck, WorkerAt, TypeOK, locks, maps, canceling, stopping, history
<1>2. Hands'
  BY DEF IInv, Recheck, WorkerAt, Hands, AtHand
<1>3. OnePlace'
  BY <1>q DEF IInv, Recheck, OnePlace, stopping, history
<1>4. Deciding'
  BY DEF IInv, Recheck, WorkerAt, Deciding, Started, locks, maps, canceling, history
<1>5. Skips'
  BY <1>q DEF IInv, Recheck, WorkerAt, Skips, maps, history
<1>6. Rows'
  BY <1>q DEF IInv, Recheck, WorkerAt, Rows, AtHand, Unstarted, stopping, history
<1>7. Stops'
  BY DEF IInv, Recheck, Stops, locks, stopping
<1>8. Covered'
  BY <1>q DEF IInv, Recheck, WorkerAt, Covered, Attended, canceling, stopping,
     history
<1> QED
  BY <1>1, <1>2, <1>3, <1>4, <1>5, <1>6, <1>7, <1>8 DEF IInv

\* A worker that is told to quit records its job as canceled.
LEMMA DropJobKeeps ==
  ASSUME IInv, NEW w \in Workers, DropJob(w)
  PROVE  IInv'
<1>q. Queued' = Queued /\ (Distinct <=> Distinct')
  BY DEF DropJob, Queued, Distinct
<1>1. TypeOK'
  BY WorkerAssumption DEF IInv, DropJob, WorkerAt, LetGo, Persist, TypeOK, locks,
     maps, canceling, stopping, history
<1>2. Hands'
  BY DEF IInv, DropJob, WorkerAt, LetGo, TypeOK, Hands, AtHand, Started
<1>3. OnePlace'
  <2>1. \A v \in Workers : wjob'[v] = wjob[v] \/ wjob'[v] = None
    BY DEF IInv, TypeOK, DropJob, LetGo
  <2>2. sjob' = sjob /\ ran' = ran /\ enq' = enq
    BY DEF DropJob, stopping, history
  <2> QED
    BY <1>q, <2>1, <2>2, LetGoPlace
<1>4. Deciding'
  BY DEF IInv, DropJob, WorkerAt, LetGo, Deciding, Started, locks, maps,
     canceling, history
<1>5. Skips'
  BY <1>q DEF IInv, DropJob, WorkerAt, LetGo, Skips, maps, history
<1>6. Rows'
  BY <1>q, WorkerAssumption DEF IInv, DropJob, WorkerAt, LetGo, Persist, TypeOK,
     Hands, OnePlace, Rows, Started, Unstarted, stopping, history
<1>7. Stops'
  BY DEF IInv, DropJob, Stops, locks, stopping
<1>8. Covered'
  BY <1>q DEF IInv, DropJob, WorkerAt, LetGo, Persist, TypeOK, Covered, Attended,
     canceling, stopping, history
<1> QED
  BY <1>1, <1>2, <1>3, <1>4, <1>5, <1>6, <1>7, <1>8 DEF IInv

\* A job is skipped if it was marked, and cannot be marked later if it was not.
LEMMA StartKeeps ==
  ASSUME IInv, NEW w \in Workers, Start(w)
  PROVE  IInv'
<1>q. Queued' = Queued /\ (Distinct <=> Distinct')
  BY DEF Start, Queued, Distinct
<1>1. TypeOK'
  <2>1. wjob[w] \in Jobs
    BY DEF IInv, Start, Hands, AtHand, Started
  <2>2. /\ skip' \subseteq Jobs /\ cancels' \subseteq Jobs
        /\ wpc' \in [Workers -> Stages]
        /\ wjob' \in [Workers -> Jobs \cup {None}]
    BY <2>1 DEF IInv, TypeOK, Start, WorkerAt, LetGo, Stages
  <2> QED
    BY <2>2 DEF IInv, TypeOK, Start, locks, canceling, stopping, history, Stages
<1>2. Hands'
  BY DEF IInv, Start, WorkerAt, LetGo, TypeOK, Hands, AtHand, Started
<1>3. OnePlace'
  <2>1. \A v \in Workers : wjob'[v] = wjob[v] \/ wjob'[v] = None
    BY DEF IInv, TypeOK, Start, LetGo
  <2>2. sjob' = sjob /\ ran' = ran /\ enq' = enq
    BY DEF Start, stopping, history
  <2> QED
    BY <1>q, <2>1, <2>2, LetGoPlace
<1>4. Deciding'
  BY WorkerAssumption DEF IInv, Start, WorkerAt, LetGo, TypeOK, Deciding, Skips,
     Started, canceling, history
<1>5. Skips'
  BY <1>q, WorkerAssumption DEF IInv, Start, WorkerAt, LetGo, TypeOK, OnePlace,
     Skips, stopping, history
<1>6. Rows'
  BY <1>q DEF IInv, Start, WorkerAt, LetGo, TypeOK, Hands, Skips, Rows, AtHand,
     Unstarted, canceling, stopping, history
<1>7. Stops'
  BY DEF IInv, Start, Stops, locks, stopping
<1>8. Covered'
  BY <1>q DEF IInv, Start, WorkerAt, LetGo, TypeOK, Skips, Covered, Attended,
     canceling, stopping, history
<1> QED
  BY <1>1, <1>2, <1>3, <1>4, <1>5, <1>6, <1>7, <1>8 DEF IInv

\* The handler of a job is called once its row says running.
LEMMA PersistStartKeeps ==
  ASSUME IInv, NEW w \in Workers, PersistStart(w)
  PROVE  IInv'
<1>q. Queued' = Queued /\ (Distinct <=> Distinct')
  BY DEF PersistStart, Queued, Distinct
<1>1. TypeOK'
  <2>1. wjob[w] \in Jobs
    BY DEF IInv, TypeOK, Rows, PersistStart, Hands, AtHand, Started
  <2>2. /\ row' \in [Jobs -> Statuses]
        /\ faults' \in 0 .. MaxFaults
    BY <2>1, PersistTypes DEF IInv, PersistStart
  <2>3. /\ wpc' \in [Workers -> Stages]
        /\ wout' \in [Workers -> {"done", "failed", "canceled", None}] /\ ran' \subseteq Jobs
    BY <2>1 DEF IInv, TypeOK, PersistStart, WorkerAt, Outcome, Stages
  <2> QED
    BY <2>1, <2>2, <2>3 DEF IInv, TypeOK, PersistStart, locks, maps, Stages, Statuses, canceling,
       stopping
<1>2. Hands'
  BY DEF IInv, PersistStart, WorkerAt, TypeOK, Hands, Started
<1>3. OnePlace'
  BY <1>q DEF IInv, PersistStart, OnePlace, stopping
<1>4. Deciding'
  BY DEF IInv, PersistStart, WorkerAt, TypeOK, Deciding, Started, locks, maps,
     canceling
<1>5. Skips'
  BY <1>q DEF IInv, PersistStart, WorkerAt, TypeOK, Skips, maps
<1>6. Rows'
  <2>1. wjob[w] \in Jobs /\ row[wjob[w]] = "queued" /\ wjob[w] \notin marked
    BY DEF IInv, Hands, Rows, Deciding, PersistStart, Started, AtHand
  <2>2. \A v \in Workers \ {w} : wpc'[v] = wpc[v] /\ wout'[v] = wout[v]
                               /\ (wjob[v] # wjob[w] \/ wjob[v] = None)
    BY DEF IInv, TypeOK, OnePlace, PersistStart, WorkerAt, Outcome
  <2>3. ~ Unstarted(wjob[w])
    BY <2>1, WorkerAssumption DEF IInv, OnePlace, PersistStart, Unstarted, AtHand
  <2>4. marked' = marked /\ enq' = enq /\ sjob' = sjob /\ wjob' = wjob
    BY DEF PersistStart, stopping
  <2>5. \A j \in Jobs : Unstarted(j)' => Unstarted(j) /\ j # wjob[w]
    BY <1>q, <2>2, <2>3, <2>4 DEF PersistStart, WorkerAt, IInv, TypeOK,
       Unstarted, AtHand
  <2>6. CASE row'[wjob[w]] = "running"
    <3>1. /\ row' = [row EXCEPT ![wjob[w]] = "running"] /\ ran' = ran \cup {wjob[w]}
          /\ wpc'[w] = "handling"
      BY <2>1, <2>6 DEF PersistStart, Persist, WorkerAt, IInv, TypeOK
    <3>2. \A j \in Jobs \ {wjob[w]} : row'[j] = row[j] /\ (j \in ran' <=> j \in ran)
      BY <2>1, <3>1 DEF IInv, TypeOK
    <3>3. row'[wjob[w]] = "running" /\ enq[wjob[w]] # "idle"
      BY <2>1, <2>6 DEF IInv, Rows
    <3>4. \A j \in Jobs :
            /\ enq'[j] = "idle" => row'[j] = "absent"
            /\ j \in ran' => row'[j] \notin {"absent", "queued"} /\ j \notin marked'
            /\ j \in marked' => row'[j] \in {"queued", "canceled"}
            /\ Unstarted(j)' =>
                 /\ j \notin ran'
                 /\ row'[j] = "queued" \/ (row'[j] = "canceled" /\ j \in marked')
      BY <2>1, <2>4, <2>5, <3>2, <3>3 DEF IInv, Rows
    <3>5. \A v \in Workers :
            /\ wpc'[v] = "persisting" => row'[wjob'[v]] = "queued"
            /\ wpc'[v] = "handling" => row'[wjob'[v]] = "running"
            /\ wpc'[v] = "finishing" =>
                 /\ wout'[v] \in {"done", "failed", "canceled"}
                 /\ \/ row'[wjob'[v]] = "running"
                    \/ row'[wjob'[v]] = "queued" /\ wout'[v] = "failed"
      BY <2>1, <2>2, <2>4, <3>1, <3>2, <3>3, WorkerAssumption DEF IInv, Rows,
         Hands, AtHand, Started
    <3> QED
      BY <3>4, <3>5 DEF Rows
  <2>7. CASE row'[wjob[w]] # "running"
    <3>1. row' = row /\ ran' = ran /\ wpc'[w] = "finishing" /\ wout'[w] = "failed"
      BY <2>1, <2>7 DEF PersistStart, Persist, WorkerAt, Outcome, IInv, TypeOK
    <3> QED
      BY <2>1, <2>2, <2>4, <2>5, <3>1, WorkerAssumption DEF IInv, Rows, TypeOK
  <2> QED
    BY <2>6, <2>7
<1>7. Stops'
  BY DEF IInv, PersistStart, Stops, locks, stopping
<1>8. Covered'
  BY <1>q, WorkerAssumption DEF IInv, PersistStart, WorkerAt, Persist, TypeOK,
     Skips, Covered, Attended, Unstarted, canceling, stopping
<1> QED
  BY <1>1, <1>2, <1>3, <1>4, <1>5, <1>6, <1>7, <1>8 DEF IInv

\* A handler returns.
LEMMA HandlerReturnsKeeps ==
  ASSUME IInv, NEW w \in Workers, HandlerReturns(w)
  PROVE  IInv'
<1>q. Queued' = Queued /\ (Distinct <=> Distinct')
  BY DEF HandlerReturns, Queued, Distinct
<1>1. TypeOK'
  BY <1>q, WorkerAssumption DEF IInv, HandlerReturns, WorkerAt, Outcome, TypeOK,
     locks, maps, canceling, working, stopping, history
<1>2. Hands'
  BY DEF IInv, HandlerReturns, WorkerAt, Hands, Started
<1>3. OnePlace'
  BY <1>q DEF IInv, HandlerReturns, OnePlace, stopping, history
<1>4. Deciding'
  BY DEF IInv, HandlerReturns, WorkerAt, Deciding, Started, locks, maps,
     canceling, history
<1>5. Skips'
  BY <1>q DEF IInv, HandlerReturns, WorkerAt, Skips, maps, history
<1>6. Rows'
  <2>1. /\ wout'[w] \in {"done", "failed", "canceled"}
        /\ \A v \in Workers \ {w} : wout'[v] = wout[v]
    BY WorkerAssumption DEF IInv, TypeOK, HandlerReturns, Outcome
  <2>2. wpc'[w] = "finishing" /\ \A v \in Workers \ {w} : wpc'[v] = wpc[v]
    BY DEF IInv, TypeOK, HandlerReturns, WorkerAt
  <2>3. /\ row' = row /\ ran' = ran /\ marked' = marked /\ enq' = enq
        /\ sjob' = sjob /\ wjob' = wjob
    BY DEF HandlerReturns, history, stopping
  <2>4. \A j \in Jobs : Unstarted(j)' => Unstarted(j)
    BY <1>q, <2>2, <2>3 DEF Unstarted, AtHand
  <2>5. row[wjob[w]] = "running"
    BY DEF IInv, Rows, HandlerReturns
  <2> QED
    BY <2>1, <2>2, <2>3, <2>4, <2>5 DEF IInv, Rows
<1>7. Stops'
  BY DEF IInv, HandlerReturns, Stops, locks, stopping
<1>8. Covered'
  BY <1>q DEF IInv, HandlerReturns, WorkerAt, Covered, Attended, canceling,
     stopping, history
<1> QED
  BY <1>1, <1>2, <1>3, <1>4, <1>5, <1>6, <1>7, <1>8 DEF IInv

\* The outcome of a job is recorded on a row that has none.
LEMMA FinishKeeps ==
  ASSUME IInv, NEW w \in Workers, Finish(w)
  PROVE  IInv'
<1>q. Queued' = Queued /\ (Distinct <=> Distinct')
  BY DEF Finish, Queued, Distinct
<1>1. TypeOK'
  <2>1. wjob[w] \in Jobs /\ wout[w] \in {"done", "failed", "canceled"}
    BY DEF IInv, TypeOK, Rows, Finish, Hands, AtHand, Started
  <2>2. /\ row' \in [Jobs -> Statuses]
        /\ faults' \in 0 .. MaxFaults
    BY <2>1, PersistTypes DEF IInv, Finish
  <2> QED
    BY <2>1, <2>2 DEF IInv, TypeOK, Finish, WorkerAt, locks, maps, canceling, Statuses,
       stopping, history
<1>2. Hands'
  BY DEF IInv, Finish, WorkerAt, Hands, Started
<1>3. OnePlace'
  BY <1>q DEF IInv, Finish, OnePlace, stopping, history
<1>4. Deciding'
  BY DEF IInv, Finish, WorkerAt, Deciding, Started, locks, maps, canceling, history
<1>5. Skips'
  BY <1>q DEF IInv, Finish, WorkerAt, Skips, maps, history
<1>6. Rows'
  BY <1>q, WorkerAssumption DEF IInv, Finish, WorkerAt, Persist, TypeOK, Hands,
     OnePlace, Deciding, Skips, Rows, AtHand, Started, Unstarted, locks, maps,
     canceling, working, stopping, history
<1>7. Stops'
  BY DEF IInv, Finish, Stops, locks, stopping
<1>8. Covered'
  BY <1>q DEF IInv, Finish, WorkerAt, Persist, TypeOK, Hands, Rows, Covered,
     Attended, canceling, stopping, history
<1> QED
  BY <1>1, <1>2, <1>3, <1>4, <1>5, <1>6, <1>7, <1>8 DEF IInv

\* A worker lets go of a job whose outcome was recorded.
LEMMA ForgetKeeps ==
  ASSUME IInv, NEW w \in Workers, Forget(w)
  PROVE  IInv'
<1>q. Queued' = Queued /\ (Distinct <=> Distinct')
  BY DEF Forget, Queued, Distinct
<1>1. TypeOK'
  BY DEF IInv, Forget, WorkerAt, LetGo, Outcome, TypeOK, locks, canceling,
     stopping, history
<1>2. Hands'
  BY DEF IInv, Forget, WorkerAt, LetGo, TypeOK, Hands, AtHand, Started
<1>3. OnePlace'
  <2>1. \A v \in Workers : wjob'[v] = wjob[v] \/ wjob'[v] = None
    BY DEF IInv, TypeOK, Forget, LetGo
  <2>2. sjob' = sjob /\ ran' = ran /\ enq' = enq
    BY DEF Forget, stopping, history
  <2> QED
    BY <1>q, <2>1, <2>2, LetGoPlace
<1>4. Deciding'
  BY WorkerAssumption DEF IInv, Forget, WorkerAt, LetGo, TypeOK, Deciding,
     OnePlace, Started, locks, canceling, history
<1>5. Skips'
  BY <1>q DEF IInv, Forget, WorkerAt, LetGo, Skips, history
<1>6. Rows'
  BY <1>q, WorkerAssumption DEF IInv, Forget, WorkerAt, LetGo, Outcome, TypeOK,
     Rows, Unstarted, stopping, history
<1>7. Stops'
  BY DEF IInv, Forget, Stops, locks, stopping
<1>8. Covered'
  BY <1>q DEF IInv, Forget, WorkerAt, LetGo, Covered, Attended, canceling,
     stopping, history
<1> QED
  BY <1>1, <1>2, <1>3, <1>4, <1>5, <1>6, <1>7, <1>8 DEF IInv

\* Shutdown is called.
LEMMA CallShutdownKeeps ==
  ASSUME IInv, CallShutdown
  PROVE  IInv'
<1>q. Queued' = Queued /\ (Distinct <=> Distinct')
  BY DEF CallShutdown, Queued, Distinct
<1>1. TypeOK'
  BY DEF IInv, CallShutdown, ShutdownAt, TypeOK, locks, maps, canceling, working,
     history
<1>2. Hands'
  BY DEF IInv, CallShutdown, Hands, working
<1>3. OnePlace'
  BY <1>q DEF IInv, CallShutdown, OnePlace, working, history
<1>4. Deciding'
  BY DEF IInv, CallShutdown, Deciding, locks, maps, canceling, working, history
<1>5. Skips'
  BY <1>q DEF IInv, CallShutdown, Skips, maps, working, history
<1>6. Rows'
  BY <1>q DEF IInv, CallShutdown, Rows, Unstarted, working, history
<1>7. Stops'
  BY DEF IInv, CallShutdown, ShutdownAt, Stops, locks
<1>8. Covered'
  BY <1>q DEF IInv, CallShutdown, Covered, Attended, canceling, working, history
<1> QED
  BY <1>1, <1>2, <1>3, <1>4, <1>5, <1>6, <1>7, <1>8 DEF IInv

\* The pool stops between two enqueues.
LEMMA StopKeeps ==
  ASSUME IInv, Stop
  PROVE  IInv'
<1>q. Queued' = Queued /\ (Distinct <=> Distinct')
  BY DEF Stop, Queued, Distinct
<1>1. TypeOK'
  BY DEF IInv, Stop, ShutdownAt, TypeOK, locks, maps, canceling, working, history
<1>2. Hands'
  BY DEF IInv, Stop, Hands, working
<1>3. OnePlace'
  BY <1>q DEF IInv, Stop, OnePlace, working, history
<1>4. Deciding'
  BY DEF IInv, Stop, Deciding, locks, maps, canceling, working, history
<1>5. Skips'
  BY <1>q DEF IInv, Stop, Skips, maps, working, history
<1>6. Rows'
  BY <1>q DEF IInv, Stop, Rows, Unstarted, working, history
<1>7. Stops'
  BY DEF IInv, Stop, ShutdownAt, Stops, locks
<1>8. Covered'
  BY <1>q DEF IInv, Stop, Covered, Attended, canceling, working, history
<1> QED
  BY <1>1, <1>2, <1>3, <1>4, <1>5, <1>6, <1>7, <1>8 DEF IInv

\* Shutdown cancels the contexts of the running jobs.
LEMMA CancelRunningKeeps ==
  ASSUME IInv, CancelRunning
  PROVE  IInv'
<1>q. Queued' = Queued /\ (Distinct <=> Distinct')
  BY DEF CancelRunning, Queued, Distinct
<1>1. TypeOK'
  BY DEF IInv, CancelRunning, ShutdownAt, TypeOK, locks, canceling, working, history
<1>2. Hands'
  BY DEF IInv, CancelRunning, Hands, working
<1>3. OnePlace'
  BY <1>q DEF IInv, CancelRunning, OnePlace, working, history
<1>4. Deciding'
  BY DEF IInv, CancelRunning, Deciding, locks, canceling, working, history
<1>5. Skips'
  BY <1>q DEF IInv, CancelRunning, Skips, working, history
<1>6. Rows'
  BY <1>q DEF IInv, CancelRunning, Rows, Unstarted, working, history
<1>7. Stops'
  BY DEF IInv, CancelRunning, ShutdownAt, Stops, locks
<1>8. Covered'
  BY <1>q DEF IInv, CancelRunning, Covered, Attended, canceling, working, history
<1> QED
  BY <1>1, <1>2, <1>3, <1>4, <1>5, <1>6, <1>7, <1>8 DEF IInv

\* Shutdown stops waiting for the workers.
LEMMA WaitWorkersKeeps ==
  ASSUME IInv, WaitWorkers
  PROVE  IInv'
<1>q. Queued' = Queued /\ (Distinct <=> Distinct')
  BY DEF WaitWorkers, Queued, Distinct
<1>1. TypeOK'
  BY DEF IInv, WaitWorkers, ShutdownAt, TypeOK, locks, maps, canceling, working,
     history
<1>2. Hands'
  BY DEF IInv, WaitWorkers, Hands, working
<1>3. OnePlace'
  BY <1>q DEF IInv, WaitWorkers, OnePlace, working, history
<1>4. Deciding'
  BY DEF IInv, WaitWorkers, Deciding, locks, maps, canceling, working, history
<1>5. Skips'
  BY <1>q DEF IInv, WaitWorkers, Skips, maps, working, history
<1>6. Rows'
  BY <1>q DEF IInv, WaitWorkers, Rows, Unstarted, working, history
<1>7. Stops'
  BY DEF IInv, WaitWorkers, ShutdownAt, Stops, locks
<1>8. Covered'
  BY <1>q DEF IInv, WaitWorkers, Covered, Attended, canceling, working, history
<1> QED
  BY <1>1, <1>2, <1>3, <1>4, <1>5, <1>6, <1>7, <1>8 DEF IInv

\* Shutdown takes a job over from the queue, or finds it empty.
LEMMA DrainReceiveKeeps ==
  ASSUME IInv, DrainReceive
  PROVE  IInv'
<1>q. \/ /\ queue # <<>> /\ Head(queue) \in Queued /\ Head(queue) \in Jobs
         /\ Queued' = Queued \ {Head(queue)} /\ Distinct'
      \/ queue = <<>> /\ Queued' = Queued /\ Queued = {} /\ Distinct'
  <2>1. CASE queue # <<>>
    BY <2>1, TailQueued DEF DrainReceive, IInv, TypeOK, OnePlace
  <2>2. CASE queue = <<>>
    BY <2>2, QueuedJobs DEF DrainReceive, IInv, OnePlace, TypeOK, Queued, Distinct
  <2> QED
    BY <2>1, <2>2
<1>1. TypeOK'
  <2>1. CASE queue # <<>>
    <3>1. queue' \in Seq(Jobs) /\ Len(queue') <= QueueCap
      <4>1. queue' = Tail(queue) /\ queue \in Seq(Jobs) /\ Len(queue) <= QueueCap
        BY <2>1 DEF IInv, TypeOK, DrainReceive
      <4> QED
        BY <2>1, <4>1, WorkerAssumption
    <3>2. sjob' \in Jobs /\ shut' = shut
      BY <1>q, <2>1 DEF DrainReceive
    <3> QED
      BY <3>1, <3>2 DEF IInv, TypeOK, DrainReceive, locks, maps, canceling,
         working, history
  <2>2. CASE queue = <<>>
    BY <2>2 DEF IInv, TypeOK, DrainReceive, ShutdownAt, locks, maps, canceling,
       working, history
  <2> QED
    BY <2>1, <2>2
<1>2. Hands'
  BY DEF IInv, DrainReceive, Hands, working
<1>3. OnePlace'
  BY <1>q DEF IInv, DrainReceive, OnePlace, working, history
<1>4. Deciding'
  BY DEF IInv, DrainReceive, Deciding, locks, maps, canceling, working, history
<1>5. Skips'
  BY <1>q DEF IInv, DrainReceive, Skips, maps, working, history
<1>6. Rows'
  BY <1>q DEF IInv, DrainReceive, Rows, Unstarted, working, history
<1>7. Stops'
  BY DEF IInv, DrainReceive, ShutdownAt, Stops, locks
<1>8. Covered'
  BY <1>q, WorkerAssumption DEF IInv, DrainReceive, Covered, Attended, canceling,
     working, history
<1> QED
  BY <1>1, <1>2, <1>3, <1>4, <1>5, <1>6, <1>7, <1>8 DEF IInv

\* Shutdown records a job it drained as canceled.
LEMMA DrainFinishKeeps ==
  ASSUME IInv, DrainFinish
  PROVE  IInv'
<1>q. Queued' = Queued /\ (Distinct <=> Distinct')
  BY DEF DrainFinish, Queued, Distinct
<1>1. TypeOK'
  BY WorkerAssumption DEF IInv, DrainFinish, Persist, TypeOK, locks, maps,
     canceling, working, history
<1>2. Hands'
  BY DEF IInv, DrainFinish, Hands, working
<1>3. OnePlace'
  <2>1. sjob' = None /\ None \notin Queued
    BY QueuedJobs, WorkerAssumption DEF IInv, TypeOK, DrainFinish
  <2>2. wjob' = wjob /\ ran' = ran /\ enq' = enq
    BY DEF DrainFinish, working, history
  <2> QED
    BY <1>q, <2>1, <2>2, WorkerAssumption DEF IInv, OnePlace
<1>4. Deciding'
  BY DEF IInv, DrainFinish, Deciding, locks, maps, canceling, working, history
<1>5. Skips'
  BY <1>q DEF IInv, DrainFinish, Skips, maps, working, history
<1>6. Rows'
  BY <1>q, WorkerAssumption DEF IInv, DrainFinish, Persist, TypeOK, Hands,
     OnePlace, Rows, Started, Unstarted, working, history
<1>7. Stops'
  BY DEF IInv, DrainFinish, Stops, locks
<1>8. Covered'
  BY <1>q DEF IInv, DrainFinish, Persist, TypeOK, Covered, Attended, canceling,
     working, history
<1> QED
  BY <1>1, <1>2, <1>3, <1>4, <1>5, <1>6, <1>7, <1>8 DEF IInv

-----------------------------------------------------------------------------
(* The invariant. *)

\* It holds initially: no job was asked for yet.
LEMMA InitIInv == Init => IInv
<1> SUFFICES ASSUME Init PROVE IInv
  OBVIOUS
<1>1. Queued = {} /\ Distinct
  BY DEF Init, Queued, Distinct
<1>2. TypeOK
  <2>1. queue \in Seq(Jobs) /\ Len(queue) <= QueueCap
    BY WorkerAssumption DEF Init
  <2>2. faults \in 0 .. MaxFaults
    BY WorkerAssumption DEF Init
  <2> QED
    BY <2>1, <2>2 DEF Init, TypeOK
<1>3. Hands /\ OnePlace /\ Deciding /\ Skips
  BY <1>1, WorkerAssumption DEF Init, Hands, OnePlace, Deciding, Skips, AtHand,
     Started
<1>4. Rows
  BY <1>1, WorkerAssumption DEF Init, Rows, Unstarted, AtHand
<1>5. Stops
  BY WorkerAssumption DEF Init, Stops
<1>6. Covered
  BY DEF Init, Covered
<1> QED
  BY <1>2, <1>3, <1>4, <1>5, <1>6 DEF IInv

\* A step that changes nothing keeps it.
LEMMA StutterKeeps ==
  ASSUME IInv, UNCHANGED vars
  PROVE  IInv'
<1>1. Queued' = Queued /\ (Distinct <=> Distinct')
  BY DEF vars, Queued, Distinct
<1>2. TypeOK' /\ Hands'
  BY DEF IInv, TypeOK, Hands, vars, locks, maps, canceling, working, stopping,
     history
<1>3. OnePlace'
  BY <1>1 DEF IInv, OnePlace, vars, working, stopping, history
<1>4. Deciding' /\ Skips'
  BY <1>1 DEF IInv, Deciding, Skips, vars, locks, maps, canceling, working, history
<1>5. Rows'
  BY <1>1 DEF IInv, Rows, Unstarted, vars, working, stopping, history
<1>6. Stops' /\ Covered'
  BY <1>1 DEF IInv, Stops, Covered, Attended, vars, locks, canceling, working,
     stopping, history
<1> QED
  BY <1>2, <1>3, <1>4, <1>5, <1>6 DEF IInv

\* So does every step of the enqueuers, the cancelers, the workers and Shutdown.
LEMMA NextIInv == IInv /\ [Next]_vars => IInv'
<1> SUFFICES ASSUME IInv, [Next]_vars PROVE IInv'
  OBVIOUS
<1>1. ASSUME NEW j \in Jobs, Enqueue(j) \/ Send(j) PROVE IInv'
  BY <1>1, EnqueueKeeps, SendKeeps
<1>2. ASSUME NEW c \in Cancelers, CancelStep(c) PROVE IInv'
  BY <1>2, CancelMarkKeeps, CancelFinishKeeps DEF CancelStep
<1>3. ASSUME NEW c \in Cancelers, NEW j \in Jobs, CancelLook(c, j) PROVE IInv'
  BY <1>3, CancelLookKeeps
<1>4. ASSUME NEW w \in Workers, Bookkeeping(w) PROVE IInv'
  BY <1>4, ReceiveKeeps, QuitKeeps, RecheckKeeps, DropJobKeeps, PersistStartKeeps,
     FinishKeeps, ForgetKeeps DEF Bookkeeping
<1>5. ASSUME NEW w \in Workers, Start(w) \/ HandlerReturns(w) PROVE IInv'
  BY <1>5, StartKeeps, HandlerReturnsKeeps
<1>6. CASE CallShutdown \/ Shutdown
  BY <1>6, CallShutdownKeeps, StopKeeps, CancelRunningKeeps, WaitWorkersKeeps,
     DrainReceiveKeeps, DrainFinishKeeps DEF Shutdown
<1>7. CASE UNCHANGED vars
  BY <1>7, StutterKeeps
<1> QED
  BY <1>1, <1>2, <1>3, <1>4, <1>5, <1>6, <1>7 DEF Next

\* The inductive invariant holds in every reachable state.
THEOREM Invariance == Spec => []IInv
<1> QED
  BY InitIInv, NextIInv, PTL DEF Spec

-----------------------------------------------------------------------------
(* What follows. *)

\* The variables keep their types, and the channel its capacity.
THEOREM TypeCorrect == Spec => []TypeOK
<1>1. IInv => TypeOK
  BY DEF IInv
<1> QED
  BY <1>1, Invariance, PTL

\* A job that Cancel marked as canceled while it was queued never runs, however
\* Cancel, run and Shutdown interleave.
THEOREM CanceledOrRun == Spec => []NeverBoth
<1>1. IInv => NeverBoth
  BY DEF IInv, TypeOK, Rows, NeverBoth
<1> QED
  BY <1>1, Invariance, PTL

\* When Shutdown has returned, and no write failed, whatever still says queued
\* is about to be given its outcome.
THEOREM NobodyStranded == Spec => []NoneStranded
<1>1. IInv => NoneStranded
  <2> SUFFICES ASSUME IInv, shut = "returned", faults = 0,
                      NEW j \in Jobs, row[j] = "queued"
               PROVE  Attended(j)
    BY DEF NoneStranded
  <2>1. j \notin Queued
    BY QueuedJobs DEF IInv, TypeOK, Stops
  <2>2. enq[j] # "sending"
    BY WorkerAssumption DEF IInv, Stops
  <2> QED
    BY <2>1, <2>2 DEF IInv, Covered
<1> QED
  BY <1>1, Invariance, PTL

\* A write of a status that the lifecycle allows, or that is there already, is a
\* step of the lifecycle.
LEMMA RowStep ==
  ASSUME TypeOK, NEW j \in Jobs, NEW s, Persist(j, s),
         \/ row[j] = "absent" /\ s = "queued"
         \/ row[j] = "queued" /\ s \in {"running", "failed", "canceled"}
         \/ row[j] = "running" /\ s \in {"done", "failed", "canceled"}
         \/ row[j] = s
  PROVE  [Life!Next]_row
<1>1. CASE row' = row
  BY <1>1
<1>2. CASE row' = [row EXCEPT ![j] = s] /\ row[j] = s
  BY <1>2 DEF TypeOK
<1>3. CASE row' = [row EXCEPT ![j] = s] /\ row[j] # s
  <2>1. Life!Create(j) \/ Life!Start(j) \/ Life!Drop(j) \/ Life!End(j)
    BY <1>3 DEF Life!Create, Life!Start, Life!Drop, Life!End, Life!Becomes,
       Life!Ended
  <2> QED
    BY <2>1 DEF Life!Next
<1> QED
  BY <1>1, <1>2, <1>3 DEF Persist

\* Every step of the pool is a step of the lifecycle, or leaves the rows alone.
LEMMA NextLifecycle == IInv /\ [Next]_vars => [Life!Next]_row
<1> SUFFICES ASSUME IInv, [Next]_vars PROVE [Life!Next]_row
  OBVIOUS
<1>t. TypeOK
  BY DEF IInv
<1>1. ASSUME NEW j \in Jobs, Enqueue(j) PROVE [Life!Next]_row
  <2>1. CASE Persist(j, "queued")
    BY <1>t, <1>1, <2>1, RowStep DEF Enqueue, IInv, Rows
  <2>2. CASE UNCHANGED row
    BY <2>2
  <2> QED
    BY <1>1, <2>1, <2>2 DEF Enqueue
<1>2. ASSUME NEW c \in Cancelers, CancelFinish(c) PROVE [Life!Next]_row
  <2>1. cjob[c] \in Jobs /\ row[cjob[c]] \in {"queued", "canceled"}
    BY <1>2 DEF CancelFinish, IInv, TypeOK, Deciding, Rows
  <2> QED
    BY <1>t, <1>2, <2>1, RowStep DEF CancelFinish
<1>3. ASSUME NEW w \in Workers, DropJob(w) PROVE [Life!Next]_row
  <2>1. wjob[w] \in Jobs /\ row[wjob[w]] \in {"queued", "canceled"}
    BY <1>3 DEF DropJob, IInv, Hands, Rows, Unstarted, AtHand
  <2> QED
    BY <1>t, <1>3, <2>1, RowStep DEF DropJob
<1>4. ASSUME NEW w \in Workers, PersistStart(w) PROVE [Life!Next]_row
  <2>1. wjob[w] \in Jobs /\ row[wjob[w]] = "queued"
    BY <1>4 DEF PersistStart, IInv, Hands, Rows, AtHand, Started
  <2> QED
    BY <1>t, <1>4, <2>1, RowStep DEF PersistStart
<1>5. ASSUME NEW w \in Workers, Finish(w) PROVE [Life!Next]_row
  <2>1. /\ wjob[w] \in Jobs /\ wout[w] \in {"done", "failed", "canceled"}
        /\ row[wjob[w]] = "running" \/ (row[wjob[w]] = "queued" /\ wout[w] = "failed")
    BY <1>5 DEF Finish, IInv, Hands, Rows, AtHand, Started
  <2> QED
    BY <1>t, <1>5, <2>1, RowStep DEF Finish
<1>6. CASE DrainFinish
  <2>1. sjob \in Jobs /\ row[sjob] \in {"queued", "canceled"}
    BY <1>6 DEF DrainFinish, IInv, TypeOK, Rows, Unstarted
  <2> QED
    BY <1>t, <1>6, <2>1, RowStep DEF DrainFinish
<1>7. CASE \/ \E j \in Jobs : Send(j)
           \/ \E c \in Cancelers : CancelMark(c) \/ \E j \in Jobs : CancelLook(c, j)
           \/ \E w \in Workers : Receive(w) \/ Quit(w) \/ Recheck(w) \/ Start(w)
                                 \/ HandlerReturns(w) \/ Forget(w)
           \/ CallShutdown \/ Stop \/ CancelRunning \/ WaitWorkers \/ DrainReceive
           \/ UNCHANGED vars
  BY <1>7 DEF Send, CancelMark, CancelLook, Receive, Quit, Recheck, Start,
     HandlerReturns, Forget, CallShutdown, Stop, CancelRunning, WaitWorkers,
     DrainReceive, vars
<1> QED
  BY <1>1, <1>2, <1>3, <1>4, <1>5, <1>6, <1>7
     DEF Next, CancelStep, Bookkeeping, Shutdown

\* The rows of the jobs table go through the states of the lifecycle: the pool
\* implements JobLifecycle, so no recorded outcome is ever replaced.
THEOREM Lifecycle == Spec => FollowsLifecycle
<1>1. Init => Life!Init
  BY DEF Init, Life!Init
<1> QED
  BY <1>1, Invariance, NextLifecycle, PTL DEF Spec, FollowsLifecycle, Life!Spec
================================================================================
