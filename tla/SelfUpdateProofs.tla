---------------------------- MODULE SelfUpdateProofs ----------------------------
(***************************************************************************)
(* For every number of versions, requests, workers, jobs, kills and        *)
(* failing renames: what lies at the executable's path is a whole release  *)
(* or nothing, no process that comes up is older than the one before, and  *)
(* a request is refused only for a job that exists or was left behind.     *)
(*                                                                         *)
(* The first rests on the flag that keeps all workers but one out of       *)
(* Apply: between the truncation of the .new file and its rename nobody    *)
(* else writes to it. The second rests on a release being compared with    *)
(* the running version when its job is enqueued, and on jobs not outliving *)
(* the process that enqueued them: the invariant follows the comparison    *)
(* from the row to the queue, the worker, the executable and its old copy. *)
(***************************************************************************)
EXTENDS SelfUpdate, SequenceTheorems, TLAPS

\* Whoever works has a job, and whoever decides has an answer.
Holding ==
  /\ \A w \in Workers : wpc[w] # "idle" => wjob[w] # None
  /\ \A h \in Handlers : request[h] = "decide" => answer[h] # None

\* The .new file holds what the worker in Apply wrote and nothing else.
StagedAlone == \A w \in Workers :
  /\ wpc[w] = "write" => staged = {}
  /\ wpc[w] \in {"aside", "in"} => staged = {w}

\* Of the executable and the copy moved aside there is at most one, and it is whole.
OneExecutable ==
  /\ binary # Broken /\ old # Broken
  /\ old # None => binary = None
  /\ \A w \in Workers : wpc[w] = "in" => old # None

\* What a process that is ending has already let go of.
Quiet ==
  /\ main \in {"stopping", "over", "dead"} => \A h \in Handlers : request[h] = "idle"
  /\ main \in {"over", "dead"} => queue = <<>>
  /\ main = "over" => Busy \subseteq orphans
  /\ main = "dead" => \A w \in Workers : wpc[w] = "idle"

\* Nothing on disk is older than the running version, and every job in hand is newer.
Forward ==
  /\ binary \in Versions => binary >= running
  /\ old \in Versions => old >= running
  /\ \A j \in Queued \cup Busy : jobs[j].release > running

IInv == /\ TypeOK /\ Holding /\ StagedAlone /\ OneExecutable
        /\ Quiet /\ Forward /\ RefusalsAreHonest

-----------------------------------------------------------------------------
(* What the helpers do. *)

Rows == [status : Active \cup {"done", "failed", "canceled"}, release : Versions]
InApply == {"download", "open", "write", "aside", "in"}
Places == {"idle", "begin", "installed", "done", "failed"} \cup InApply

\* A version is a number, and neither of the two marks.
LEMMA VersionTypes ==
  /\ None \notin Versions /\ Broken \notin Versions /\ None # Broken
  /\ Versions \subseteq Int /\ 0 \in Versions
BY UpdateAssumption DEF Versions

\* The members of a sequence, as Queued collects them.
Members(s) == {s[i] : i \in DOMAIN s}

\* A job id put into the channel is the only one that joins it.
LEMMA MembersOfAppend ==
  ASSUME NEW S, NEW s \in Seq(S), NEW x
  PROVE  Members(Append(s, x)) = Members(s) \cup {x}
<1>1. DOMAIN s = 1 .. Len(s) /\ Len(s) \in Nat
  OBVIOUS
<1>2. DOMAIN Append(s, x) = 1 .. Len(s) + 1
  OBVIOUS
<1>3. \A i \in 1 .. Len(s) : Append(s, x)[i] = s[i]
  OBVIOUS
<1>4. Append(s, x)[Len(s) + 1] = x
  OBVIOUS
<1>5. 1 .. Len(s) + 1 = (1 .. Len(s)) \cup {Len(s) + 1}
  BY <1>1
<1> QED
  BY <1>1, <1>2, <1>3, <1>4, <1>5 DEF Members

\* Taking the head leaves every other member in the channel.
LEMMA MembersOfTail ==
  ASSUME NEW S, NEW s \in Seq(S), s # <<>>
  PROVE  /\ Tail(s) \in Seq(S) /\ Head(s) \in S /\ Head(s) \in Members(s)
         /\ Members(s) = Members(Tail(s)) \cup {Head(s)}
<1>1. Len(s) \in Nat \ {0} /\ DOMAIN s = 1 .. Len(s)
  OBVIOUS
<1>2. Tail(s) \in Seq(S) /\ Head(s) = s[1] /\ Head(s) \in S
  OBVIOUS
<1>3. DOMAIN Tail(s) = 1 .. Len(s) - 1
  BY <1>1
<1>4. \A i \in 1 .. Len(s) - 1 : Tail(s)[i] = s[i + 1]
  OBVIOUS
<1>5. Members(s) \subseteq Members(Tail(s)) \cup {Head(s)}
  <2> SUFFICES ASSUME NEW i \in 1 .. Len(s), i # 1 PROVE s[i] \in Members(Tail(s))
    BY <1>1, <1>2 DEF Members
  <2>1. i - 1 \in 1 .. Len(s) - 1 /\ i = (i - 1) + 1
    BY <1>1
  <2> QED
    BY <2>1, <1>3, <1>4 DEF Members
<1>6. Members(Tail(s)) \subseteq Members(s)
  <2> SUFFICES ASSUME NEW i \in 1 .. Len(s) - 1 PROVE Tail(s)[i] \in Members(s)
    BY <1>3 DEF Members
  <2>1. i + 1 \in 1 .. Len(s)
    BY <1>1
  <2> QED
    BY <2>1, <1>1, <1>4 DEF Members
<1>7. Head(s) \in Members(s)
  BY <1>1, <1>2 DEF Members
<1> QED
  BY <1>2, <1>5, <1>6, <1>7

\* Recording a job's status touches that row's status only.
LEMMA Recorded ==
  ASSUME jobs \in Seq(Rows), NEW j \in DOMAIN jobs,
         NEW s \in Active \cup {"done", "failed", "canceled"}, Record(j, s)
  PROVE  /\ jobs' \in Seq(Rows) /\ DOMAIN jobs' = DOMAIN jobs /\ Len(jobs') = Len(jobs)
         /\ \A k \in DOMAIN jobs : jobs'[k].release = jobs[k].release
         /\ \A k \in DOMAIN jobs : k # j => jobs'[k] = jobs[k]
         /\ jobs'[j].status = s
<1>1. jobs[j] \in Rows /\ DOMAIN jobs = 1 .. Len(jobs) /\ Len(jobs) \in Nat
  OBVIOUS
<1>2. [jobs[j] EXCEPT !.status = s] \in Rows
  BY <1>1 DEF Rows
<1>3. jobs' = [jobs EXCEPT ![j] = [jobs[j] EXCEPT !.status = s]]
  BY DEF Record
<1>4. jobs' \in Seq(Rows) /\ Len(jobs') = Len(jobs) /\ DOMAIN jobs' = DOMAIN jobs
  BY <1>1, <1>2, <1>3
<1>5. jobs'[j] = [jobs[j] EXCEPT !.status = s] /\ \A k \in DOMAIN jobs : k # j => jobs'[k] = jobs[k]
  BY <1>1, <1>3
<1>6. jobs'[j].release = jobs[j].release /\ jobs'[j].status = s
  BY <1>1, <1>5 DEF Rows
<1> QED
  BY <1>4, <1>5, <1>6

\* The initial state satisfies the invariant.
THEOREM InitIInv == Init => IInv
<1> SUFFICES ASSUME Init PROVE IInv
  OBVIOUS
<1> USE DEF Init
<1>1. Queued = {} /\ Busy = {}
  BY DEF Queued, Busy
<1>2. TypeOK
  <2>1. /\ published \in Versions /\ running \in Versions
        /\ binary \in Versions /\ jobs = <<>> /\ queue = <<>>
    OBVIOUS
  <2>2. cache \in [release : Versions \cup {None}, failed : BOOLEAN]
    BY DEF NoCache
  <2>3. faults \in 0 .. MaxFaults /\ Len(jobs) <= MaxJobs
    BY UpdateAssumption
  <2>4. \A w \in Workers : applying # w
    BY UpdateAssumption
  <2>5. queue \in Seq(DOMAIN jobs) /\ jobs \in Seq(Rows)
    OBVIOUS
  <2> QED
    BY <2>1, <2>2, <2>3, <2>4, <2>5 DEF TypeOK, Rows
<1>3. Holding /\ StagedAlone /\ Quiet
  BY DEF Holding, StagedAlone, Quiet
<1>4. OneExecutable
  BY VersionTypes DEF OneExecutable
<1>5. Forward /\ RefusalsAreHonest
  BY <1>1, VersionTypes DEF Forward, RefusalsAreHonest
<1> QED
  BY <1>2, <1>3, <1>4, <1>5 DEF IInv

-----------------------------------------------------------------------------
(* GitHub, the handlers and the select keep the invariant: what they touch is *)
(* their own.                                                                 *)

\* What follows when executable, rows, channel and workers stay as they are.
LEMMA RestKept ==
  ASSUME IInv, UNCHANGED <<disk, jobs, running, queue, applies, orphans>>
  PROVE  StagedAlone' /\ OneExecutable' /\ Forward' /\ RefusalsAreHonest'
         /\ Queued' = Queued /\ Busy' = Busy
<1> USE DEF IInv, disk, applies
<1>1. Queued' = Queued /\ Busy' = Busy
  BY DEF Queued, Busy
<1>2. StagedAlone' /\ OneExecutable'
  BY DEF StagedAlone, OneExecutable
<1>3. Forward' /\ RefusalsAreHonest'
  BY <1>1 DEF Forward, RefusalsAreHonest
<1> QED
  BY <1>1, <1>2, <1>3

\* Publish and Expire keep the invariant.
LEMMA WorldKeeps == IInv /\ (Publish \/ Expire) => IInv'
<1> SUFFICES ASSUME IInv, Publish \/ Expire PROVE IInv'
  OBVIOUS
<1> USE DEF IInv, Publish, Expire, disk, program, applies, checking, github
<1>1. published' \in Versions
  BY DEF TypeOK
<1>2. cache' \in [release : Versions \cup {None}, failed : BOOLEAN]
  <2>1. cache \in [release : Versions \cup {None}, failed : BOOLEAN]
    BY DEF TypeOK
  <2>2. NoCache \in [release : Versions \cup {None}, failed : BOOLEAN]
    BY DEF NoCache
  <2>3. /\ [cache EXCEPT !.release = None] \in [release : Versions \cup {None}, failed : BOOLEAN]
        /\ [cache EXCEPT !.failed = FALSE] \in [release : Versions \cup {None}, failed : BOOLEAN]
    BY <2>1
  <2> QED
    BY <2>1, <2>2, <2>3
<1>3. TypeOK'
  BY ZenonT(30), <1>1, <1>2 DEF TypeOK
<1>4. Holding' /\ Quiet'
  BY DEF Holding, Quiet, Busy
<1> QED
  BY <1>3, <1>4, RestKept

\* What a step of a handler that leaves the jobs alone has in common.
LEMMA HandlerKeeps ==
  ASSUME IInv, NEW h \in Handlers, request[h] # "idle" \/ main = "serving",
         NEW at \in {"idle", "get fetch", "post", "post fetch", "decide"}, HandlerAt(h, at),
         NEW a \in Versions \cup {None}, answer' = [answer EXCEPT ![h] = a],
         at = "decide" => a # None,
         cache' \in [release : Versions \cup {None}, failed : BOOLEAN],
         UNCHANGED <<github, disk, jobs, program, queue, applies, restart, faults, orphans>>
  PROVE  IInv'
<1> USE DEF IInv, HandlerAt, disk, program, applies, github
<1>1. TypeOK'
  BY DEF TypeOK
<1>2. Holding' /\ Quiet'
  BY DEF Holding, Quiet, Busy, TypeOK
<1> QED
  BY <1>1, <1>2, RestKept

\* An answer that is left alone is what it was.
LEMMA AnswerKept ==
  ASSUME TypeOK, NEW h \in Handlers, UNCHANGED answer
  PROVE  answer[h] \in Versions \cup {None} /\ answer' = [answer EXCEPT ![h] = answer[h]]
BY DEF TypeOK

\* Get and Post keep the invariant.
LEMMA ArriveKeeps ==
  ASSUME IInv, NEW h \in Handlers, Get(h) \/ Post(h)
  PROVE  IInv'
<1>1. UNCHANGED answer /\ main = "serving"
  BY DEF Get, Post
<1>2. /\ answer[h] \in Versions \cup {None} /\ answer' = [answer EXCEPT ![h] = answer[h]]
      /\ cache' \in [release : Versions \cup {None}, failed : BOOLEAN]
  BY <1>1, AnswerKept DEF IInv, TypeOK, Get, Post
<1>3. HandlerAt(h, "get fetch") \/ HandlerAt(h, "post")
  BY DEF Get, Post
<1> QED
  BY <1>1, <1>2, <1>3, HandlerKeeps DEF Get, Post

\* Learning a release keeps the invariant.
LEMMA LearnKeeps ==
  ASSUME IInv, NEW h \in Handlers, NEW release \in Versions, Learn(h, release),
         request[h] # "idle",
         cache' \in [release : Versions \cup {None}, failed : BOOLEAN],
         UNCHANGED <<github, disk, jobs, program, queue, applies, restart, faults, orphans>>
  PROVE  IInv'
<1>1. CASE HandlerAt(h, "idle") /\ answer' = [answer EXCEPT ![h] = None]
  BY <1>1, HandlerKeeps
<1>2. CASE HandlerAt(h, "decide") /\ answer' = [answer EXCEPT ![h] = release]
  BY <1>2, VersionTypes, HandlerKeeps
<1> QED
  BY <1>1, <1>2 DEF Learn

\* LookInCache keeps the invariant.
LEMMA LookInCacheKeeps ==
  ASSUME IInv, NEW h \in Handlers, LookInCache(h)
  PROVE  IInv'
<1>1. /\ request[h] = "post" /\ cache' = cache
      /\ cache \in [release : Versions \cup {None}, failed : BOOLEAN]
      /\ UNCHANGED <<github, disk, jobs, program, queue, applies, restart, faults, orphans>>
  BY DEF LookInCache, IInv, TypeOK
<1>2. CASE cache.release # None /\ Learn(h, cache.release)
  BY <1>1, <1>2, LearnKeeps
<1>3. CASE UNCHANGED answer /\ (HandlerAt(h, "idle") \/ HandlerAt(h, "post fetch"))
  BY <1>1, <1>3, AnswerKept, HandlerKeeps DEF IInv
<1> QED
  BY <1>2, <1>3 DEF LookInCache

\* Fetch keeps the invariant.
LEMMA FetchKeeps ==
  ASSUME IInv, NEW h \in Handlers, Fetch(h)
  PROVE  IInv'
<1>1. /\ request[h] \in {"get fetch", "post fetch"} /\ UNCHANGED <<request, cache>>
      /\ published \in Versions /\ answer' = [answer EXCEPT ![h] = published]
      /\ cache \in [release : Versions \cup {None}, failed : BOOLEAN]
      /\ request \in [Handlers -> {"idle", "get fetch", "post", "post fetch", "decide"}]
      /\ UNCHANGED <<github, disk, jobs, program, queue, applies, restart, faults, orphans>>
  BY DEF Fetch, IInv, TypeOK
<1>2. HandlerAt(h, request[h])
  BY <1>1 DEF HandlerAt
<1> QED
  BY <1>1, <1>2, HandlerKeeps

\* StoreRelease and StoreFailure keep the invariant.
LEMMA StoreKeeps ==
  ASSUME IInv, NEW h \in Handlers, StoreRelease(h) \/ StoreFailure(h)
  PROVE  IInv'
<1>1. CASE StoreRelease(h)
  <2>1. answer[h] \in Versions
    BY <1>1 DEF StoreRelease, IInv, TypeOK
  <2>2. cache' \in [release : Versions \cup {None}, failed : BOOLEAN]
    BY <1>1, <2>1 DEF StoreRelease
  <2> QED
    BY <1>1, <2>1, <2>2, LearnKeeps DEF StoreRelease
<1>2. CASE StoreFailure(h)
  <2>1. cache' \in [release : Versions \cup {None}, failed : BOOLEAN]
    BY <1>2 DEF StoreFailure, IInv, TypeOK
  <2> QED
    BY <1>2, <2>1, HandlerKeeps DEF StoreFailure
<1> QED
  BY <1>1, <1>2

\* The jobs in the channel and with the workers have rows.
LEMMA InHand ==
  ASSUME TypeOK, Holding
  PROVE  /\ Queued \subseteq DOMAIN jobs /\ Busy \subseteq DOMAIN jobs
         /\ \A w \in Workers : wpc[w] # "idle" => wjob[w] \in DOMAIN jobs
<1>1. queue \in Seq(DOMAIN jobs)
  BY DEF TypeOK
<1>2. Queued \subseteq DOMAIN jobs
  BY <1>1 DEF Queued
<1>3. \A w \in Workers : wpc[w] # "idle" => wjob[w] \in DOMAIN jobs
  <2>1. wjob \in [Workers -> DOMAIN jobs \cup {None}]
    BY DEF TypeOK
  <2> QED
    BY <2>1 DEF Holding
<1> QED
  BY <1>2, <1>3 DEF Busy

\* A job is enqueued only for a release newer than the running version.
LEMMA DecideKeeps ==
  ASSUME IInv, NEW h \in Handlers, Decide(h)
  PROVE  IInv'
<1>1. /\ request[h] = "decide" /\ HandlerAt(h, "idle") /\ answer' = [answer EXCEPT ![h] = None]
      /\ UNCHANGED <<github, disk, program, cache, applies, restart, faults, orphans>>
      /\ cache' \in [release : Versions \cup {None}, failed : BOOLEAN]
  BY DEF Decide, IInv, TypeOK
<1>2. CASE UNCHANGED <<jobs, queue>>
  BY <1>1, <1>2, HandlerKeeps
<1>3. CASE /\ HasUpdate(answer[h]) /\ Len(jobs) < MaxJobs
           /\ jobs' = Append(jobs, [status |-> "queued", release |-> answer[h]])
           /\ queue' = Append(queue, Len(jobs) + 1)
  <2> DEFINE r == [status |-> "queued", release |-> answer[h]]
             n == Len(jobs) + 1
  <2>1. /\ answer[h] \in Versions /\ answer[h] > running
        /\ main \notin {"stopping", "over", "dead"}
    BY <1>1, <1>3 DEF IInv, Holding, TypeOK, HasUpdate, Quiet
  <2>2. /\ r \in Rows /\ jobs \in Seq(Rows) /\ queue \in Seq(DOMAIN jobs)
        /\ Len(jobs) \in Nat /\ DOMAIN jobs = 1 .. Len(jobs)
    <3>1. r \in Rows
      BY <2>1 DEF Rows, Active
    <3>2. jobs \in Seq(Rows) /\ queue \in Seq(DOMAIN jobs)
      BY DEF IInv, TypeOK, Rows
    <3> QED
      BY <3>1, <3>2
  <2>3. /\ jobs' \in Seq(Rows) /\ Len(jobs') = n /\ DOMAIN jobs' = 1 .. n
        /\ \A j \in DOMAIN jobs : jobs'[j] = jobs[j]
        /\ jobs'[n] = r
    BY <1>3, <2>2
  <2>4. DOMAIN jobs \subseteq DOMAIN jobs' /\ n \in DOMAIN jobs' /\ DOMAIN jobs' = DOMAIN jobs \cup {n}
    BY <2>2, <2>3
  <2>5. queue' \in Seq(DOMAIN jobs') /\ Queued' = Queued \cup {n}
    <3>1. queue \in Seq(DOMAIN jobs')
      BY <2>2, <2>4
    <3>2. Members(queue') = Members(queue) \cup {n}
      BY <1>3, <3>1, MembersOfAppend
    <3>3. queue' \in Seq(DOMAIN jobs')
      BY <1>3, <3>1, <2>4
    <3>4. Queued' = Members(queue') /\ Queued = Members(queue)
      BY DEF Queued, Members
    <3> QED
      BY <3>2, <3>3, <3>4
  <2>6. Busy' = Busy /\ Busy \subseteq DOMAIN jobs /\ Queued \subseteq DOMAIN jobs
    BY <1>1, InHand DEF IInv, Busy, applies
  <2>7. Len(jobs') <= MaxJobs
    BY <1>3, <2>2, <2>3, UpdateAssumption
  <2>8. TypeOK'
    BY <1>1, <2>3, <2>4, <2>5, <2>7 DEF IInv, TypeOK, Rows, HandlerAt, github, disk, program, applies
  <2>9. Holding' /\ Quiet' /\ StagedAlone' /\ OneExecutable'
    BY <1>1, <2>1, <2>6 DEF IInv, TypeOK, Holding, Quiet, StagedAlone, OneExecutable, HandlerAt,
                            disk, program, applies
  <2>10. Forward'
    BY <1>1, <2>1, <2>3, <2>5, <2>6 DEF IInv, Forward, disk, program
  <2>11. RefusalsAreHonest'
    BY <1>1, <2>3, <2>4, <2>5, <2>6 DEF IInv, RefusalsAreHonest
  <2> QED
    BY <2>8, <2>9, <2>10, <2>11 DEF IInv
<1> QED
  BY <1>1, <1>2, <1>3 DEF Decide

-----------------------------------------------------------------------------
(* The workers keep the invariant. *)

\* What lies at the executable's path and beside it, as every step of Apply leaves it.
DiskTyped == /\ staged \subseteq Workers
             /\ binary \in Versions \cup {None, Broken} /\ old \in Versions \cup {None, Broken}
             /\ binary \in Versions => binary >= running
             /\ old \in Versions => old >= running

\* The state of the disk in any state of the invariant.
LEMMA DiskFacts == IInv => DiskTyped /\ running \in Versions
BY DEF IInv, TypeOK, Forward, DiskTyped

\* What every step of a worker at its job has in common.
LEMMA StepKeeps ==
  ASSUME IInv, NEW w \in Workers, wpc[w] # "idle", main # "dead",
         NEW at \in Places \ {"idle"}, WorkerAt(w, at),
         \/ applying = None /\ applying' = w /\ at \in InApply
         \/ applying = w /\ applying' = None /\ at \notin InApply
         \/ UNCHANGED applying /\ (at \in InApply <=> wpc[w] \in InApply),
         UNCHANGED <<github, jobs, program, checking, queue, wjob, orphans>>,
         restart' \in BOOLEAN, faults' \in 0 .. MaxFaults,
         DiskTyped', StagedAlone', OneExecutable'
  PROVE  IInv'
<1> USE DEF IInv, github, program, checking
<1>1. /\ wpc \in [Workers -> Places] /\ applying \in Workers \cup {None}
      /\ \A v \in Workers : applying = v <=> wpc[v] \in InApply
      /\ wpc' = [wpc EXCEPT ![w] = at]
  BY DEF TypeOK, Places, InApply, WorkerAt
<1>2. \A v \in Workers : applying' = v <=> wpc'[v] \in InApply
  BY <1>1, UpdateAssumption
<1>3. wpc' \in [Workers -> Places]
  BY <1>1 DEF Places
<1>4. \A v \in Workers : wpc'[v] # "idle" <=> wpc[v] # "idle"
  BY <1>1 DEF Places, InApply
<1>5. Queued' = Queued /\ Busy' = Busy
  BY <1>4 DEF Queued, Busy
<1>6. TypeOK'
  <2>1. wpc' \in [Workers -> {"idle", "begin", "download", "open", "write", "aside", "in",
                              "installed", "done", "failed"}]
    BY <1>3 DEF Places, InApply
  <2>2. applying' \in Workers \cup {None}
    BY <1>1
  <2>3. \A v \in Workers :
          applying' = v <=> wpc'[v] \in {"download", "open", "write", "aside", "in"}
    BY <1>2 DEF InApply
  <2> QED
    BY <2>1, <2>2, <2>3 DEF TypeOK, DiskTyped
<1>7. Holding' /\ Quiet'
  BY <1>4, <1>5 DEF Holding, Quiet
<1>8. Forward' /\ RefusalsAreHonest'
  BY <1>5 DEF Forward, DiskTyped, RefusalsAreHonest
<1> QED
  BY <1>6, <1>7, <1>8

\* A worker in Apply is the only one there.
LEMMA AloneInApply ==
  ASSUME TypeOK, NEW w \in Workers, wpc[w] \in InApply
  PROVE  applying = w /\ \A v \in Workers \ {w} : wpc[v] \notin InApply
BY DEF TypeOK, InApply

\* A step that leaves the disk alone and goes nowhere near it.
LEMMA DiskUntouched ==
  ASSUME IInv, NEW w \in Workers, NEW at, WorkerAt(w, at),
         at \notin {"write", "aside", "in"}, UNCHANGED <<disk, running>>
  PROVE  DiskTyped' /\ StagedAlone' /\ OneExecutable'
<1>1. DiskTyped'
  BY DiskFacts DEF DiskTyped, disk
<1>2. \A v \in Workers : wpc'[v] = wpc[v] \/ wpc'[v] \notin {"write", "aside", "in"}
  BY DEF IInv, TypeOK, WorkerAt
<1>3. StagedAlone' /\ OneExecutable'
  BY <1>2 DEF IInv, StagedAlone, OneExecutable, disk
<1> QED
  BY <1>1, <1>3

\* Begin keeps the invariant.
LEMMA BeginKeeps ==
  ASSUME IInv, NEW w \in Workers, Begin(w)
  PROVE  IInv'
<1>1. /\ main # "dead" /\ wpc[w] = "begin"
      /\ UNCHANGED <<github, disk, jobs, program, checking, queue, wjob, restart, faults, orphans>>
      /\ restart' \in BOOLEAN /\ faults' \in 0 .. MaxFaults /\ UNCHANGED running
  BY DEF Begin, Alive, IInv, TypeOK, program
<1>2. CASE applying = None /\ applying' = w /\ WorkerAt(w, "download")
  BY <1>1, <1>2, DiskUntouched, StepKeeps DEF Places, InApply
<1>3. CASE applying # None /\ WorkerAt(w, "failed") /\ UNCHANGED applying
  BY <1>1, <1>3, DiskUntouched, StepKeeps DEF Places, InApply
<1> QED
  BY <1>2, <1>3 DEF Begin

\* Giving up inside Apply keeps the invariant.
LEMMA GiveUpKeeps ==
  ASSUME IInv, NEW w \in Workers, main # "dead", wpc[w] \in InApply, GiveUp(w),
         UNCHANGED <<github, disk, jobs, program, checking, queue, wjob, restart, orphans>>,
         faults' \in 0 .. MaxFaults
  PROVE  IInv'
<1>1. applying = w
  BY AloneInApply DEF IInv
<1>2. WorkerAt(w, "failed") /\ applying' = None
  BY DEF GiveUp
<1>3. restart' \in BOOLEAN /\ UNCHANGED running /\ wpc[w] # "idle"
  BY DEF IInv, TypeOK, program, InApply
<1>4. "failed" \in Places \ {"idle"} /\ "failed" \notin InApply
  BY DEF Places, InApply
<1> QED
  BY <1>1, <1>2, <1>3, <1>4, DiskUntouched, StepKeeps

\* Download keeps the invariant.
LEMMA DownloadKeeps ==
  ASSUME IInv, NEW w \in Workers, Download(w)
  PROVE  IInv'
<1>1. /\ main # "dead" /\ wpc[w] = "download"
      /\ UNCHANGED <<github, disk, jobs, program, checking, queue, wjob, restart, faults, orphans>>
      /\ restart' \in BOOLEAN /\ faults' \in 0 .. MaxFaults /\ UNCHANGED running
  BY DEF Download, Alive, IInv, TypeOK, program
<1>2. CASE WorkerAt(w, "open") /\ UNCHANGED applying
  BY <1>1, <1>2, DiskUntouched, StepKeeps DEF Places, InApply
<1>3. CASE GiveUp(w)
  BY <1>1, <1>3, GiveUpKeeps DEF InApply
<1> QED
  BY <1>2, <1>3 DEF Download

\* Opening the .new file empties it; nobody else is writing to it.
LEMMA OpenStagedKeeps ==
  ASSUME IInv, NEW w \in Workers, OpenStaged(w)
  PROVE  IInv'
<1>1. /\ main # "dead" /\ wpc[w] = "open" /\ staged' = {} /\ WorkerAt(w, "write")
      /\ UNCHANGED <<github, binary, old, jobs, program, checking, queue, wjob, applying,
                     restart, faults, orphans>>
      /\ restart' \in BOOLEAN /\ faults' \in 0 .. MaxFaults /\ UNCHANGED running
  BY DEF OpenStaged, Alive, IInv, TypeOK, program
<1>2. DiskTyped'
  BY <1>1, DiskFacts DEF DiskTyped
<1>3. \A v \in Workers \ {w} : wpc[v] \notin InApply
  BY <1>1, AloneInApply DEF IInv, InApply
<1>4. StagedAlone' /\ OneExecutable'
  BY <1>1, <1>3 DEF IInv, TypeOK, StagedAlone, OneExecutable, WorkerAt, InApply
<1> QED
  BY <1>1, <1>2, <1>4, StepKeeps DEF Places, InApply

\* WriteStaged keeps the invariant.
LEMMA WriteStagedKeeps ==
  ASSUME IInv, NEW w \in Workers, WriteStaged(w)
  PROVE  IInv'
<1>1. /\ main # "dead" /\ wpc[w] = "write" /\ staged' = staged \cup {w} /\ WorkerAt(w, "aside")
      /\ UNCHANGED <<github, binary, old, jobs, program, checking, queue, wjob, applying,
                     restart, faults, orphans>>
      /\ restart' \in BOOLEAN /\ faults' \in 0 .. MaxFaults /\ UNCHANGED running
  BY DEF WriteStaged, Alive, IInv, TypeOK, program
<1>2. DiskTyped'
  BY <1>1, DiskFacts DEF DiskTyped
<1>3. \A v \in Workers \ {w} : wpc[v] \notin InApply
  BY <1>1, AloneInApply DEF IInv, InApply
<1>4. StagedAlone' /\ OneExecutable'
  BY <1>1, <1>3 DEF IInv, TypeOK, StagedAlone, OneExecutable, WorkerAt, InApply
<1> QED
  BY <1>1, <1>2, <1>4, StepKeeps DEF Places, InApply

\* What a fault or none leaves of the bound.
LEMMA FaultTypes ==
  ASSUME IInv, Fault \/ NoFault
  PROVE  faults' \in 0 .. MaxFaults
<1>1. faults \in 0 .. MaxFaults /\ MaxFaults \in Nat
  BY UpdateAssumption DEF IInv, TypeOK
<1> QED
  BY <1>1 DEF Fault, NoFault

\* Moving the executable aside leaves the one copy there is beside its place.
LEMMA MoveAsideKeeps ==
  ASSUME IInv, NEW w \in Workers, MoveAside(w)
  PROVE  IInv'
<1>1. /\ main # "dead" /\ wpc[w] = "aside"
      /\ UNCHANGED <<github, staged, jobs, program, checking, queue, wjob, restart, orphans>>
      /\ restart' \in BOOLEAN /\ UNCHANGED running
  BY DEF MoveAside, Alive, IInv, TypeOK, program
<1>2. faults' \in 0 .. MaxFaults
  BY FaultTypes DEF MoveAside
<1>3. CASE /\ binary # None /\ old' = binary /\ binary' = None
           /\ WorkerAt(w, "in") /\ UNCHANGED applying
  <2>1. DiskTyped'
    BY <1>1, <1>3, DiskFacts, VersionTypes DEF DiskTyped
  <2>2. \A v \in Workers \ {w} : wpc[v] \notin InApply
    BY <1>1, AloneInApply DEF IInv, InApply
  <2>3. StagedAlone' /\ OneExecutable'
    BY <1>1, <1>3, <2>2, VersionTypes DEF IInv, TypeOK, StagedAlone, OneExecutable, WorkerAt, InApply
  <2> QED
    BY <1>1, <1>2, <1>3, <2>1, <2>3, StepKeeps DEF Places, InApply
<1>4. CASE GiveUp(w) /\ UNCHANGED <<binary, old>>
  BY <1>1, <1>2, <1>4, GiveUpKeeps DEF InApply, disk
<1> QED
  BY <1>3, <1>4 DEF MoveAside

\* The rename into place, or back, or neither, leaves a whole release or nothing there.
LEMMA MoveInKeeps ==
  ASSUME IInv, NEW w \in Workers, MoveIn(w)
  PROVE  IInv'
<1>1. /\ main # "dead" /\ wpc[w] = "in" /\ applying' = None
      /\ UNCHANGED <<github, jobs, program, checking, queue, wjob, restart, orphans>>
      /\ restart' \in BOOLEAN /\ UNCHANGED running
  BY DEF MoveIn, Alive, IInv, TypeOK, program
<1>2. faults' \in 0 .. MaxFaults
  BY FaultTypes DEF MoveIn
<1>3. applying = w /\ (\A v \in Workers \ {w} : wpc[v] \notin InApply)
      /\ staged = {w} /\ binary = None /\ old # None
  BY <1>1, AloneInApply DEF IInv, InApply, StagedAlone, OneExecutable
<1>4. CASE /\ WorkerAt(w, "installed") /\ staged' = {} /\ old' = None
           /\ binary' = IF staged = {w} THEN Release(w) ELSE Broken
  <2>1. Release(w) \in Versions /\ Release(w) > running
    <3>1. wjob[w] \in DOMAIN jobs /\ wjob[w] \in Busy
      BY <1>1, InHand DEF IInv, Busy
    <3>2. jobs \in Seq(Rows)
      BY DEF IInv, TypeOK, Rows
    <3>3. jobs[wjob[w]] \in Rows
      BY <3>1, <3>2
    <3> QED
      BY <3>1, <3>3 DEF IInv, Forward, Release, Rows
  <2>2. DiskTyped'
    <3>1. binary' = Release(w) /\ old' = None /\ staged' = {} /\ running' = running
      BY <1>1, <1>3, <1>4
    <3>2. Release(w) \in Int /\ running \in Int
      BY <2>1, DiskFacts, VersionTypes
    <3> QED
      BY <2>1, <3>1, <3>2, VersionTypes DEF DiskTyped
  <2>3. StagedAlone' /\ OneExecutable'
    BY <1>1, <1>3, <1>4, <2>1, VersionTypes
       DEF IInv, TypeOK, StagedAlone, OneExecutable, WorkerAt, InApply
  <2> QED
    BY <1>1, <1>2, <1>3, <1>4, <2>2, <2>3, StepKeeps DEF Places, InApply
<1>5. CASE /\ WorkerAt(w, "failed") /\ UNCHANGED staged
           /\ \/ binary' = old /\ old' = None
              \/ UNCHANGED <<binary, old>>
  <2>1. DiskTyped'
    BY <1>1, <1>3, <1>5, DiskFacts, VersionTypes DEF DiskTyped
  <2>2. StagedAlone' /\ OneExecutable'
    BY ZenonT(30), <1>1, <1>3, <1>5, VersionTypes
       DEF IInv, TypeOK, StagedAlone, OneExecutable, WorkerAt, InApply
  <2> QED
    BY <1>1, <1>2, <1>3, <1>5, <2>1, <2>2, StepKeeps DEF Places, InApply
<1> QED
  BY <1>4, <1>5 DEF MoveIn

\* RequestRestart keeps the invariant.
LEMMA RequestRestartKeeps ==
  ASSUME IInv, NEW w \in Workers, RequestRestart(w)
  PROVE  IInv'
<1>1. /\ main # "dead" /\ wpc[w] = "installed" /\ WorkerAt(w, "done")
      /\ UNCHANGED <<github, disk, jobs, program, checking, queue, wjob, applying, faults, orphans>>
      /\ restart' \in BOOLEAN /\ faults' \in 0 .. MaxFaults /\ UNCHANGED running
  BY DEF RequestRestart, Alive, IInv, TypeOK, program
<1> QED
  BY <1>1, DiskUntouched, StepKeeps DEF Places, InApply

\* Receiving a job moves it from the channel to a worker.
LEMMA ReceiveKeeps ==
  ASSUME IInv, NEW w \in Workers, Receive(w)
  PROVE  IInv'
<1> DEFINE j == Head(queue)
<1>1. /\ main \notin {"dead", "stopping"} /\ wpc[w] = "idle" /\ queue # <<>>
      /\ wjob' = [wjob EXCEPT ![w] = j] /\ queue' = Tail(queue)
      /\ Record(j, "running") /\ wpc' = [wpc EXCEPT ![w] = "begin"]
      /\ UNCHANGED <<github, disk, program, checking, applying, restart, faults, orphans>>
  BY DEF Receive, Alive, WorkerAt
<1>2. /\ queue \in Seq(DOMAIN jobs) /\ jobs \in Seq(Rows)
      /\ main # "over"
  BY <1>1 DEF IInv, TypeOK, Rows, Quiet
<1>3. /\ queue' \in Seq(DOMAIN jobs) /\ j \in DOMAIN jobs /\ j \in Queued
      /\ Queued = Queued' \cup {j}
  <2>1. Queued = Members(queue) /\ Queued' = Members(queue')
    BY DEF Queued, Members
  <2> QED
    BY <1>1, <1>2, <2>1, MembersOfTail
<1>4. /\ jobs' \in Seq(Rows) /\ DOMAIN jobs' = DOMAIN jobs /\ Len(jobs') = Len(jobs)
      /\ \A k \in DOMAIN jobs : jobs'[k].release = jobs[k].release
      /\ \A k \in DOMAIN jobs : k # j => jobs'[k] = jobs[k]
  BY <1>1, <1>2, <1>3, Recorded DEF Active
<1>5. /\ wpc \in [Workers -> Places] /\ wjob \in [Workers -> DOMAIN jobs \cup {None}]
      /\ Queued \subseteq DOMAIN jobs /\ Busy \subseteq DOMAIN jobs
  BY InHand DEF IInv, TypeOK, Places, InApply
<1>6. Busy' = Busy \cup {j}
  BY <1>1, <1>5 DEF Busy
<1>7. TypeOK'
  <2>1. wpc' \in [Workers -> {"idle", "begin", "download", "open", "write", "aside", "in",
                              "installed", "done", "failed"}]
    BY <1>1 DEF IInv, TypeOK
  <2>2. wjob' \in [Workers -> DOMAIN jobs' \cup {None}]
    BY <1>1, <1>3, <1>4, <1>5
  <2>3. \A v \in Workers :
          applying' = v <=> wpc'[v] \in {"download", "open", "write", "aside", "in"}
    BY <1>1 DEF IInv, TypeOK
  <2> QED
    BY ZenonT(30), <1>1, <1>3, <1>4, <2>1, <2>2, <2>3
       DEF IInv, TypeOK, Rows, github, disk, program, checking
<1>8. Holding'
  <2>1. j # None
    <3>1. DOMAIN jobs \subseteq Nat
      BY <1>2
    <3> QED
      BY <1>3, <3>1, UpdateAssumption
  <2> QED
    BY <1>1, <1>5, <2>1 DEF IInv, Holding, checking
<1>9. StagedAlone' /\ OneExecutable' /\ Quiet'
  BY <1>1, <1>2, <1>5 DEF IInv, StagedAlone, OneExecutable, Quiet, disk, program, checking
<1>10. Forward' /\ RefusalsAreHonest'
  BY <1>1, <1>3, <1>4, <1>5, <1>6 DEF IInv, Forward, RefusalsAreHonest, disk, program
<1> QED
  BY <1>7, <1>8, <1>9, <1>10 DEF IInv

\* Finish keeps the invariant: the row it leaves behind is no longer active, or the
\* database is closed and the row is among the orphans.
LEMMA FinishKeeps ==
  ASSUME IInv, NEW w \in Workers, Finish(w)
  PROVE  IInv'
<1> DEFINE j == wjob[w]
<1>1. /\ main # "dead" /\ wpc[w] \in {"done", "failed"} /\ wpc' = [wpc EXCEPT ![w] = "idle"]
      /\ IF main = "over" THEN UNCHANGED jobs ELSE Record(j, wpc[w])
      /\ wjob' = [wjob EXCEPT ![w] = None]
      /\ UNCHANGED <<github, disk, program, checking, queue, applying, restart, faults, orphans>>
  BY DEF Finish, Alive, WorkerAt
<1>2. /\ j \in DOMAIN jobs /\ jobs \in Seq(Rows) /\ j \in Busy
      /\ Queued \subseteq DOMAIN jobs /\ Busy \subseteq DOMAIN jobs
  BY <1>1, InHand DEF IInv, TypeOK, Rows, Busy
<1>3. /\ jobs' \in Seq(Rows) /\ DOMAIN jobs' = DOMAIN jobs /\ Len(jobs') = Len(jobs)
      /\ \A k \in DOMAIN jobs : jobs'[k].release = jobs[k].release
      /\ \A k \in DOMAIN jobs : k # j => jobs'[k] = jobs[k]
      /\ main # "over" => jobs'[j].status = wpc[w]
  <2>1. CASE main = "over"
    BY <1>1, <1>2, <2>1
  <2>2. CASE main # "over"
    BY <1>1, <1>2, <2>2, Recorded
  <2> QED
    BY <2>1, <2>2
<1>4. /\ wpc \in [Workers -> Places] /\ wjob \in [Workers -> DOMAIN jobs \cup {None}]
  BY DEF IInv, TypeOK, Places, InApply
<1>5. Queued' = Queued /\ Busy' \subseteq Busy /\ Busy \subseteq Busy' \cup {j}
  BY <1>1, <1>4 DEF Busy, Queued
<1>6. TypeOK'
  <2>1. wpc' \in [Workers -> {"idle", "begin", "download", "open", "write", "aside", "in",
                              "installed", "done", "failed"}]
    BY <1>1 DEF IInv, TypeOK
  <2>2. wjob' \in [Workers -> DOMAIN jobs' \cup {None}]
    BY <1>1, <1>3, <1>4
  <2>3. \A v \in Workers :
          applying' = v <=> wpc'[v] \in {"download", "open", "write", "aside", "in"}
    BY <1>1 DEF IInv, TypeOK
  <2>4. queue' \in Seq(DOMAIN jobs') /\ orphans' \subseteq DOMAIN jobs' /\ Len(jobs') <= MaxJobs
    BY <1>1, <1>3 DEF IInv, TypeOK
  <2>5. UNCHANGED <<github, disk, program, checking, queue, applying, restart, faults, orphans>>
    BY <1>1
  <2>6. jobs' \in Seq([status : Active \cup {"done", "failed", "canceled"}, release : Versions])
    BY <1>3 DEF Rows
  <2> HIDE DEF j
  <2>7. published' \in Versions /\ running' \in Versions
      /\ binary' \in Versions \cup {None, Broken} /\ old' \in Versions \cup {None, Broken}
      /\ staged' \subseteq Workers
    BY <2>5 DEF IInv, TypeOK, github, disk, program
  <2>8. /\ main' \in {"serving", "closing", "stopping", "over", "dead"}
        /\ handoff' \in BOOLEAN /\ canApply' \in BOOLEAN /\ restart' \in BOOLEAN
        /\ cache' \in [release : Versions \cup {None}, failed : BOOLEAN]
    BY <2>5 DEF IInv, TypeOK, program, checking
  <2>9. /\ request' \in [Handlers -> {"idle", "get fetch", "post", "post fetch", "decide"}]
        /\ answer' \in [Handlers -> Versions \cup {None}]
        /\ applying' \in Workers \cup {None}
        /\ faults' \in 0 .. MaxFaults
    BY <2>5 DEF IInv, TypeOK, checking
  <2> QED
    BY <2>1, <2>2, <2>3, <2>4, <2>6, <2>7, <2>8, <2>9
       DEF TypeOK
<1>7. Holding' /\ StagedAlone' /\ OneExecutable' /\ Quiet'
  BY <1>1, <1>4, <1>5
     DEF IInv, Holding, StagedAlone, OneExecutable, Quiet, disk, program, checking
<1>8. Forward'
  BY <1>1, <1>2, <1>3, <1>5 DEF IInv, Forward, disk, program
<1>9. RefusalsAreHonest'
  <2>1. CASE main = "over"
    BY <1>1, <1>5, <2>1 DEF IInv, RefusalsAreHonest, Quiet
  <2>2. CASE main # "over"
    <3>1. jobs'[j].status \notin Active
      BY <1>1, <1>3, <2>2 DEF Active
    <3> QED
      BY <1>1, <1>3, <1>5, <3>1 DEF IInv, RefusalsAreHonest
  <2> QED
    BY <2>1, <2>2
<1> QED
  BY <1>6, <1>7, <1>8, <1>9 DEF IInv

-----------------------------------------------------------------------------
(* The process keeps the invariant, while it runs and when it ends. *)

\* Signal and TakeRestart keep the invariant.
LEMMA SelectKeeps == IInv /\ (Signal \/ TakeRestart) => IInv'
<1> SUFFICES ASSUME IInv, Signal \/ TakeRestart PROVE IInv'
  OBVIOUS
<1>1. /\ main' = "closing" /\ handoff' \in BOOLEAN /\ restart' \in BOOLEAN
      /\ UNCHANGED <<github, disk, jobs, running, canApply, checking, queue, applies, faults, orphans>>
  BY DEF Signal, TakeRestart, IInv, TypeOK
<1>2. TypeOK'
  BY <1>1 DEF IInv, TypeOK, github, disk, checking, applies
<1>3. Holding' /\ Quiet'
  BY <1>1 DEF IInv, Holding, Quiet, checking, applies
<1> QED
  BY <1>1, <1>2, <1>3, RestKept DEF IInv

\* StopPool keeps the invariant: the requests are over.
LEMMA StopPoolKeeps == IInv /\ StopPool => IInv'
<1> SUFFICES ASSUME IInv, StopPool PROVE IInv'
  OBVIOUS
<1>1. /\ main' = "stopping" /\ NoRequests
      /\ UNCHANGED <<github, disk, jobs, handoff, running, canApply, queue, applies, restart,
                     faults, orphans>>
  BY DEF StopPool
<1>2. TypeOK'
  BY <1>1 DEF IInv, TypeOK, github, disk, applies, NoRequests, NoCache
<1>3. Holding' /\ Quiet'
  BY <1>1 DEF IInv, Holding, Quiet, NoRequests, applies
<1> QED
  BY <1>1, <1>2, <1>3, RestKept DEF IInv

\* PoolStopped keeps the invariant: what was queued is canceled, what is still in
\* hand is remembered.
LEMMA PoolStoppedKeeps == IInv /\ PoolStopped => IInv'
<1> SUFFICES ASSUME IInv, PoolStopped PROVE IInv'
  OBVIOUS
<1>1. /\ main = "stopping" /\ main' = "over"
      /\ jobs' = [k \in DOMAIN jobs |-> IF k \in Queued THEN [jobs[k] EXCEPT !.status = "canceled"]
                                        ELSE jobs[k]]
      /\ queue' = <<>> /\ orphans' = orphans \cup Busy
      /\ UNCHANGED <<github, disk, handoff, running, canApply, checking, applies, restart, faults>>
  BY DEF PoolStopped
<1>2. jobs \in Seq(Rows) /\ Queued \subseteq DOMAIN jobs /\ Busy \subseteq DOMAIN jobs
  BY InHand DEF IInv, TypeOK, Rows
<1>3. \A k \in DOMAIN jobs : /\ jobs'[k] \in Rows /\ jobs'[k].release = jobs[k].release
                             /\ k \in Queued => jobs'[k].status = "canceled"
                             /\ k \notin Queued => jobs'[k] = jobs[k]
  <2> SUFFICES ASSUME NEW k \in DOMAIN jobs
               PROVE  /\ jobs'[k] \in Rows /\ jobs'[k].release = jobs[k].release
                      /\ k \in Queued => jobs'[k].status = "canceled"
                      /\ k \notin Queued => jobs'[k] = jobs[k]
    OBVIOUS
  <2>1. jobs[k] \in Rows
    BY <1>2
  <2>2. jobs'[k] = IF k \in Queued THEN [jobs[k] EXCEPT !.status = "canceled"] ELSE jobs[k]
    BY <1>1
  <2> QED
    BY <2>1, <2>2 DEF Rows
<1>4. DOMAIN jobs' = DOMAIN jobs /\ Len(jobs') = Len(jobs) /\ jobs' \in Seq(Rows)
  <2>1. DOMAIN jobs = 1 .. Len(jobs) /\ Len(jobs) \in Nat
    BY <1>2
  <2>2. jobs' = [k \in 1 .. Len(jobs) |-> jobs'[k]]
    BY <1>1, <2>1
  <2> QED
    BY <1>3, <2>1, <2>2
<1>5. Queued' = {} /\ Busy' = Busy
  BY <1>1 DEF Queued, Busy, applies
<1>6. TypeOK'
  <2>1. queue' = <<>> /\ queue' \in Seq(DOMAIN jobs')
    BY <1>1
  <2>2. orphans' \subseteq DOMAIN jobs' /\ Len(jobs') <= MaxJobs
    BY <1>1, <1>2, <1>4 DEF IInv, TypeOK
  <2>3. wjob' \in [Workers -> DOMAIN jobs' \cup {None}]
    BY <1>1, <1>4 DEF IInv, TypeOK, applies
  <2> QED
    BY <1>1, <1>4, <2>1, <2>2, <2>3 DEF IInv, TypeOK, Rows, github, disk, checking, applies
<1>7. Holding' /\ StagedAlone' /\ OneExecutable' /\ Quiet'
  BY <1>1, <1>5 DEF IInv, Holding, StagedAlone, OneExecutable, Quiet, disk, checking, applies
<1>8. Forward'
  BY <1>1, <1>2, <1>3, <1>5 DEF IInv, Forward, disk
<1>9. RefusalsAreHonest'
  BY <1>1, <1>3, <1>4, <1>5 DEF IInv, RefusalsAreHonest, Active
<1> QED
  BY <1>6, <1>7, <1>8, <1>9 DEF IInv

\* With the channel empty and nobody at work, no job is in hand.
LEMMA NothingInHand ==
  ASSUME queue = <<>>, \A w \in Workers : wpc[w] = "idle"
  PROVE  Queued = {} /\ Busy = {}
BY DEF Queued, Busy

\* What the end of a process and the start of the next have in common.
LEMMA ForgottenKeeps ==
  ASSUME IInv, Forgotten, main' \in {"serving", "dead"},
         running' \in Versions, UNCHANGED <<github, disk, jobs, canApply>>,
         faults' \in 0 .. MaxFaults, orphans' \subseteq DOMAIN jobs,
         binary \in Versions => binary >= running', old \in Versions => old >= running',
         \A j \in DOMAIN jobs : jobs[j].status \in Active => j \in orphans'
  PROVE  IInv'
<1>1. /\ cache' = NoCache /\ handoff' = FALSE /\ restart' = FALSE /\ applying' = None
      /\ request' = [h \in Handlers |-> "idle"] /\ answer' = [h \in Handlers |-> None]
      /\ queue' = <<>> /\ wpc' = [w \in Workers |-> "idle"] /\ wjob' = [w \in Workers |-> None]
  BY DEF Forgotten, NoRequests
<1>2. Queued' = {} /\ Busy' = {}
  BY <1>1 DEF Queued, Busy
<1>3. /\ queue' \in Seq(DOMAIN jobs')
      /\ cache' \in [release : Versions \cup {None}, failed : BOOLEAN]
      /\ \A w \in Workers : applying' # w
  BY <1>1, UpdateAssumption DEF NoCache
<1>4. TypeOK'
  BY <1>1, <1>3 DEF IInv, TypeOK, github, disk
<1>5. Holding' /\ StagedAlone' /\ OneExecutable' /\ Quiet'
  BY <1>1 DEF IInv, Holding, StagedAlone, OneExecutable, Quiet, disk
<1>6. Forward' /\ RefusalsAreHonest'
  BY <1>2 DEF Forward, RefusalsAreHonest, disk
<1> QED
  BY <1>4, <1>5, <1>6 DEF IInv

\* Once the pool has stopped, every row still active is an orphan's.
LEMMA LeftBehind ==
  ASSUME IInv, main = "over"
  PROVE  \A j \in DOMAIN jobs : jobs[j].status \in Active => j \in orphans
<1>1. Queued = {}
  BY DEF IInv, Quiet, Queued
<1> QED
  BY <1>1 DEF IInv, Quiet, RefusalsAreHonest

\* An executable that can be started has no old copy beside it.
LEMMA NoOldCopy ==
  ASSUME IInv, binary \in Versions
  PROVE  old \notin Versions /\ binary >= running /\ binary \in Int /\ running \in Int
BY VersionTypes DEF IInv, TypeOK, OneExecutable, Forward

\* Exec and Exit keep the invariant.
LEMMA EndKeeps == IInv /\ (Exec \/ Exit) => IInv'
<1> SUFFICES ASSUME IInv, Exec \/ Exit PROVE IInv'
  OBVIOUS
<1>1. /\ main = "over" /\ Forgotten /\ UNCHANGED <<github, disk, jobs, faults, orphans>>
      /\ faults' \in 0 .. MaxFaults /\ orphans' \subseteq DOMAIN jobs
  BY DEF Exec, Exit, IInv, TypeOK
<1>2. \A j \in DOMAIN jobs : jobs[j].status \in Active => j \in orphans'
  BY <1>1, LeftBehind
<1>3. CASE binary \in Versions /\ Starts
  <2>1. /\ old \notin Versions /\ binary >= running'
        /\ running' \in Versions /\ main' = "serving" /\ UNCHANGED canApply
    BY <1>3, NoOldCopy DEF Starts
  <2> QED
    BY <1>1, <1>2, <2>1, ForgottenKeeps
<1>4. CASE main' = "dead" /\ UNCHANGED <<running, canApply>>
  BY <1>1, <1>2, <1>4, ForgottenKeeps DEF IInv, TypeOK, Forward
<1> QED
  BY <1>3, <1>4 DEF Exec, Exit

\* Crash keeps the invariant: the rows a killed process leaves are its orphans.
LEMMA CrashKeeps == IInv /\ Crash => IInv'
<1> SUFFICES ASSUME IInv, Crash PROVE IInv'
  OBVIOUS
<1>1. /\ Forgotten /\ main' = "dead" /\ UNCHANGED <<github, disk, jobs, running, canApply>>
      /\ orphans' = {j \in DOMAIN jobs : jobs[j].status \in Active}
  BY DEF Crash
<1>2. faults' \in 0 .. MaxFaults
  BY FaultTypes DEF Crash
<1> QED
  BY <1>1, <1>2, ForgottenKeeps DEF IInv, TypeOK, Forward

\* Boot keeps the invariant.
LEMMA BootKeeps == IInv /\ Boot => IInv'
<1> SUFFICES ASSUME IInv, Boot PROVE IInv'
  OBVIOUS
<1>1. /\ main = "dead" /\ main' = "serving" /\ binary \in Versions
      /\ running' = binary /\ UNCHANGED canApply
      /\ UNCHANGED <<github, disk, jobs, handoff, checking, queue, applies, restart, faults, orphans>>
  BY DEF Boot, Starts
<1>2. old \notin Versions /\ binary \in Int
  BY <1>1, NoOldCopy
<1>3. TypeOK'
  BY <1>1 DEF IInv, TypeOK, github, disk, checking, applies
<1>4. Holding' /\ StagedAlone' /\ OneExecutable' /\ Quiet'
  BY <1>1 DEF IInv, Holding, StagedAlone, OneExecutable, Quiet, disk, checking, applies
<1>5. queue' = <<>> /\ \A w \in Workers : wpc'[w] = "idle"
  BY <1>1 DEF IInv, Quiet, applies
<1>6. Queued' = Queued /\ Busy' = Busy /\ Queued' = {} /\ Busy' = {}
  BY <1>1, <1>5 DEF Queued, Busy, applies
<1>7. Forward' /\ RefusalsAreHonest'
  BY <1>1, <1>2, <1>6 DEF IInv, Forward, RefusalsAreHonest, disk
<1> QED
  BY <1>3, <1>4, <1>7 DEF IInv

-----------------------------------------------------------------------------

\* Every step of the specification keeps the invariant.
THEOREM NextIInv == IInv /\ [Next]_vars => IInv'
<1> SUFFICES ASSUME IInv, [Next]_vars PROVE IInv'
  OBVIOUS
<1>1. CASE Publish \/ Expire
  BY <1>1, WorldKeeps
<1>2. CASE \E h \in Handlers : Get(h) \/ Post(h) \/ Handle(h)
  <2> PICK h \in Handlers : Get(h) \/ Post(h) \/ Handle(h)
    BY <1>2
  <2> QED
    BY ArriveKeeps, LookInCacheKeeps, FetchKeeps, StoreKeeps, DecideKeeps DEF Handle
<1>3. CASE \E w \in Workers : Work(w)
  <2> PICK w \in Workers : Work(w)
    BY <1>3
  <2>1. CASE Apply(w)
    BY <2>1, BeginKeeps, DownloadKeeps, OpenStagedKeeps, WriteStagedKeeps, MoveAsideKeeps,
       MoveInKeeps DEF Apply
  <2> QED
    BY <2>1, ReceiveKeeps, RequestRestartKeeps, FinishKeeps DEF Work
<1>4. CASE Signal \/ Run
  BY <1>4, SelectKeeps, StopPoolKeeps, PoolStoppedKeeps, EndKeeps DEF Run
<1>5. CASE Crash \/ Boot
  BY <1>5, CrashKeeps, BootKeeps
<1>6. CASE UNCHANGED vars
  <2>1. UNCHANGED <<github, disk, jobs, program, checking, queue, applies, restart, faults, orphans>>
    BY <1>6 DEF vars
  <2>2. TypeOK'
    BY ZenonT(30), <2>1 DEF IInv, TypeOK, github, disk, program, checking, applies
  <2>3. UNCHANGED running
    BY <2>1 DEF program
  <2>4. Holding' /\ Quiet'
    BY <2>1 DEF IInv, Holding, Quiet, Busy, program, checking, applies
  <2> QED
    BY <2>1, <2>2, <2>3, <2>4, RestKept DEF IInv
<1> QED
  BY <1>1, <1>2, <1>3, <1>4, <1>5, <1>6 DEF Next

\* The invariant holds of every reachable state.
THEOREM Invariance == Spec => []IInv
BY InitIInv, NextIInv, PTL DEF Spec

\* Whatever the constants, the variables keep their types, and at most one worker
\* is in selfupdate.Apply: exactly the one the flag names.
THEOREM TypeCorrect == Spec => []TypeOK
<1>1. IInv => TypeOK
  BY DEF IInv
<1> QED
  BY <1>1, Invariance, PTL

\* Nothing but a whole release is ever found at the executable's path: two updates
\* do not splice their downloads in the one .new file (selfupdate.go:79-82).
THEOREM Whole == Spec => []InstalledIsWhole
<1>1. IInv => InstalledIsWhole
  BY DEF IInv, OneExecutable, InstalledIsWhole
<1> QED
  BY <1>1, Invariance, PTL

\* A request is told that an update is in progress only while one is, or after a
\* process left its row behind (update.go's active-job check).
THEOREM Honesty == Spec => []RefusalsAreHonest
<1>1. IInv => RefusalsAreHonest
  BY DEF IInv
<1> QED
  BY <1>1, Invariance, PTL

\* The version that runs changes only where a process starts.
LEMMA RunningKept ==
  ASSUME IInv, Next, ~Exec, ~Boot
  PROVE  UNCHANGED running
<1>1. CASE Publish \/ Expire
  BY <1>1 DEF Publish, Expire, program
<1>2. CASE \E h \in Handlers : Get(h) \/ Post(h) \/ Handle(h)
  BY <1>2 DEF Get, Post, Handle, LookInCache, Fetch, StoreRelease, StoreFailure, Decide, program
<1>3. CASE \E w \in Workers : Work(w)
  BY <1>3 DEF Work, Apply, Receive, Begin, Download, OpenStaged, WriteStaged, MoveAside, MoveIn,
              RequestRestart, Finish, program
<1>4. CASE Signal \/ TakeRestart \/ StopPool \/ PoolStopped \/ Exit \/ Crash
  BY <1>4 DEF Signal, TakeRestart, StopPool, PoolStopped, Exit, Crash
<1> QED
  BY <1>1, <1>2, <1>3, <1>4 DEF Next, Run

\* Whatever releases are published, however requests, stale answers, jobs, kills and
\* restarts fall together, no process that comes up is older than the one before
\* ("no downgrades", check.go:124).
THEOREM NeverBack == Spec => NoDowngrade
<1>1. ASSUME IInv, [Next]_vars PROVE [running' >= running]_vars
  <2>1. running \in Int
    BY <1>1, DiskFacts, VersionTypes
  <2>2. CASE UNCHANGED vars
    BY <2>2
  <2>3. CASE Exec \/ Boot
    <3>1. running' = running \/ (binary \in Versions /\ running' = binary)
      BY <2>3 DEF Exec, Boot, Starts
    <3> QED
      BY <1>1, <2>1, <3>1, NoOldCopy
  <2>4. CASE Next /\ ~Exec /\ ~Boot
    BY <1>1, <2>1, <2>4, RunningKept
  <2> QED
    BY <1>1, <2>2, <2>3, <2>4
<1> QED
  BY <1>1, Invariance, PTL DEF Spec, NoDowngrade
=============================================================================
