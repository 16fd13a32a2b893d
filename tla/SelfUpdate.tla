------------------------------ MODULE SelfUpdate ------------------------------
(***************************************************************************)
(* In-place updates, from the request to the process that runs the new     *)
(* binary: api/update.go's handlers with the cache of release checks,      *)
(* selfupdate.Apply in the worker's goroutines, the library that replaces  *)
(* the executable, and main.run, which stops for a signal or to hand over. *)
(*                                                                         *)
(* Versions are ranks in the semver order, and 0 is any version or release *)
(* tag that is not semver. What the worker pool does with a job is in      *)
(* Worker; here a job is received, handled and recorded in one step each.  *)
(***************************************************************************)
EXTENDS Integers, Sequences, FiniteSets

CONSTANTS MaxVersion,  \* bound: the newest release there will be
          Handlers,    \* HTTP requests under way
          Workers,     \* the pool's goroutines
          MaxJobs,     \* bound: update jobs ever enqueued
          MaxFaults,   \* bound: kills of the process and failing renames, together
          None, Broken

ASSUME UpdateAssumption ==
  /\ MaxVersion \in Nat /\ MaxJobs \in Nat /\ MaxFaults \in Nat
  /\ IsFiniteSet(Workers) /\ None \notin Workers
  /\ {None, Broken} \cap Nat = {} /\ None # Broken

Versions == 0 .. MaxVersion
JobIds == 1 .. MaxJobs

VARIABLES
  published,        \* GitHub: the tag of the latest release
  binary, old,      \* the executable on disk, and the copy moved out of its way
  staged,           \* the .new file: who has written into it
  jobs,             \* the self-update rows of the jobs table
  main, handoff,    \* main.run: how far it is, and whether it returns the updater
  running,          \* currentVersion of the process
  canApply,         \* CanApply's memoized answer
  cache,            \* latestCache: the release and whether a failure is remembered
  request, answer,  \* each handler: where it is, and the release it goes by
  queue,            \* the worker's channel: job ids
  wpc, wjob,        \* each worker: where it is, and its job
  applying,         \* who is in Apply
  restart,          \* restartCh holds a request
  faults,
  orphans           \* history: rows a process left unrecorded when it ended

github == published
disk == <<binary, old, staged>>
program == <<main, handoff, running, canApply>>
checking == <<cache, request, answer>>
applies == <<wpc, wjob, applying>>
vars == <<github, disk, jobs, program, checking, queue, applies, restart, faults, orphans>>

NoCache == [release |-> None, failed |-> FALSE]

Init ==
  /\ published \in Versions /\ running \in Versions /\ binary = running /\ old = None
  /\ staged = {} /\ jobs = <<>> /\ main = "serving" /\ handoff = FALSE
  /\ canApply \in BOOLEAN /\ cache = NoCache
  /\ request = [h \in Handlers |-> "idle"] /\ answer = [h \in Handlers |-> None]
  /\ queue = <<>> /\ wpc = [w \in Workers |-> "idle"] /\ wjob = [w \in Workers |-> None]
  /\ applying = None /\ restart = FALSE /\ faults = 0 /\ orphans = {}

Active == {"queued", "running"}
ActiveJobExists == \E j \in DOMAIN jobs : jobs[j].status \in Active
Record(j, status) == jobs' = [jobs EXCEPT ![j].status = status]
Alive == main # "dead"

\* A newer release comes out, while there is somebody to ask for it.
Publish ==
  /\ main = "serving" /\ \E v \in Versions : v > published /\ published' = v
  /\ UNCHANGED <<disk, jobs, program, checking, queue, applies, restart, faults, orphans>>

-----------------------------------------------------------------------------
(* The handlers: GET /api/update and POST /api/update/apply. *)

HandlerAt(h, at) == request' = [request EXCEPT ![h] = at]

\* getUpdate: what the cache remembers, a release or a failure, is the reply;
\* otherwise GitHub is asked.
Get(h) ==
  /\ main = "serving" /\ request[h] = "idle" /\ cache = NoCache /\ HandlerAt(h, "get fetch")
  /\ UNCHANGED <<github, disk, jobs, program, cache, answer, queue, applies, restart, faults, orphans>>

\* A matter of how the program was installed, the same in every process: no dev build,
\* no container, no package manager's file, a folder that can be written.
CanApply == canApply

\* applyUpdate: refused when the install cannot update or a job is active.
Post(h) ==
  /\ main = "serving" /\ request[h] = "idle"
  /\ CanApply /\ ~ActiveJobExists /\ HandlerAt(h, "post")
  /\ UNCHANGED <<github, disk, jobs, program, cache, answer, queue, applies, restart, faults, orphans>>

\* getUpdate replies with what it learnt; applyUpdate goes on with it.
Learn(h, release) ==
  IF request[h] = "get fetch"
  THEN HandlerAt(h, "idle") /\ answer' = [answer EXCEPT ![h] = None]
  ELSE HandlerAt(h, "decide") /\ answer' = [answer EXCEPT ![h] = release]

\* LatestCached's look at the cache, under its lock.
LookInCache(h) ==
  /\ request[h] = "post"
  /\ \/ cache.release # None /\ Learn(h, cache.release)
     \/ cache.release = None /\ cache.failed /\ HandlerAt(h, "idle") /\ UNCHANGED answer
     \/ cache = NoCache /\ HandlerAt(h, "post fetch") /\ UNCHANGED answer
  /\ UNCHANGED <<github, disk, jobs, program, cache, queue, applies, restart, faults, orphans>>

\* GitHub's answer leaves GitHub; the lock is not held while it is under way.
Fetch(h) ==
  /\ request[h] \in {"get fetch", "post fetch"} /\ answer[h] = None
  /\ answer' = [answer EXCEPT ![h] = published]
  /\ UNCHANGED <<github, disk, jobs, program, cache, request, queue, applies, restart, faults, orphans>>

\* Under the lock again: the outcome replaces what other fetches stored.
StoreRelease(h) ==
  /\ request[h] \in {"get fetch", "post fetch"} /\ answer[h] # None
  /\ cache' = [release |-> answer[h], failed |-> FALSE]
  /\ Learn(h, answer[h])
  /\ UNCHANGED <<github, disk, jobs, program, queue, applies, restart, faults, orphans>>

StoreFailure(h) ==
  /\ request[h] \in {"get fetch", "post fetch"}
  /\ cache' = [cache EXCEPT !.failed = TRUE]
  /\ HandlerAt(h, "idle") /\ answer' = [answer EXCEPT ![h] = None]
  /\ UNCHANGED <<github, disk, jobs, program, queue, applies, restart, faults, orphans>>

\* latestCacheTTL and latestNegTTL pass. An expired entry is not read again.
Expire ==
  /\ cache' \in {NoCache, [cache EXCEPT !.release = None], [cache EXCEPT !.failed = FALSE]}
  /\ UNCHANGED <<github, disk, jobs, program, request, answer, queue, applies, restart, faults, orphans>>

\* Bug: a release is an update as soon as it is another version.
HasUpdateOther(release) == release > 0 /\ release # running

\* A semver release newer than the running build; a build without a semver version
\* is older than any.
HasUpdate(release) == release > running

\* applyUpdate's end: refused when the request names another version, when the
\* release is no update, when the row cannot be written or the pool has stopped.
Decide(h) ==
  /\ request[h] = "decide"
  /\ HandlerAt(h, "idle") /\ answer' = [answer EXCEPT ![h] = None]
  /\ \/ UNCHANGED <<jobs, queue>>
     \/ /\ HasUpdate(answer[h]) /\ Len(jobs) < MaxJobs
        /\ jobs' = Append(jobs, [status |-> "queued", release |-> answer[h]])
        /\ queue' = Append(queue, Len(jobs) + 1)
  /\ UNCHANGED <<github, disk, program, cache, applies, restart, faults, orphans>>

-----------------------------------------------------------------------------
(* The job's handler: Apply, then requestRestart. *)

WorkerAt(w, at) == wpc' = [wpc EXCEPT ![w] = at]
Release(w) == jobs[wjob[w]].release

Receive(w) ==
  /\ Alive /\ main # "stopping" /\ wpc[w] = "idle" /\ queue # <<>>
  /\ wjob' = [wjob EXCEPT ![w] = Head(queue)] /\ queue' = Tail(queue)
  /\ Record(Head(queue), "running") /\ WorkerAt(w, "begin")
  /\ UNCHANGED <<github, disk, program, checking, applying, restart, faults, orphans>>

\* Bug: nothing keeps a second worker out of Apply.
BeginTogether(w) ==
  /\ Alive /\ wpc[w] = "begin" /\ applying' = w /\ WorkerAt(w, "download")
  /\ UNCHANGED <<github, disk, jobs, program, checking, queue, wjob, restart, faults, orphans>>

\* The CompareAndSwap: ErrUpdateInProgress for the second.
Begin(w) ==
  /\ Alive /\ wpc[w] = "begin"
  /\ \/ applying = None /\ applying' = w /\ WorkerAt(w, "download")
     \/ applying # None /\ WorkerAt(w, "failed") /\ UNCHANGED applying
  /\ UNCHANGED <<github, disk, jobs, program, checking, queue, wjob, restart, faults, orphans>>

\* Bug: Apply returns an error and the flag stays set.
GiveUpHolding(w) == UNCHANGED applying /\ WorkerAt(w, "failed")

\* Apply returns an error and lets the next one in.
GiveUp(w) == applying' = None /\ WorkerAt(w, "failed")

\* The archives a release page may serve: the one its signed checksums list, another
\* one put in its place later, listed ones with another build or no binary inside,
\* a cut one, and one whose list does not carry the release key's signature.
Archives == {"listed", "replaced", "misbuilt", "empty", "cut", "unsigned"}
SignatureVerifies(archive) == archive # "unsigned"
ChecksumMatches(archive) == archive \notin {"replaced", "cut"}
Extracts(archive) == archive # "empty"
PrintsVersion(archive) == archive \notin {"misbuilt", "cut"}
Sound(archive) == /\ SignatureVerifies(archive) /\ ChecksumMatches(archive)
                  /\ Extracts(archive) /\ PrintsVersion(archive)

\* The downloads and checks; temporary files of the call's own. An error, a canceled
\* context and a failed check end it alike.
Download(w) ==
  /\ Alive /\ wpc[w] = "download"
  /\ \E archive \in Archives :
       IF Sound(archive)
       THEN WorkerAt(w, "open") /\ UNCHANGED applying
       ELSE GiveUp(w)
  /\ UNCHANGED <<github, disk, jobs, program, checking, queue, wjob, restart, faults, orphans>>

\* The library opens the .new file, truncating it, and writes it.
OpenStaged(w) ==
  /\ Alive /\ wpc[w] = "open" /\ staged' = {} /\ WorkerAt(w, "write")
  /\ UNCHANGED <<github, binary, old, jobs, program, checking, queue, wjob, applying, restart, faults, orphans>>

WriteStaged(w) ==
  /\ Alive /\ wpc[w] = "write" /\ staged' = staged \cup {w} /\ WorkerAt(w, "aside")
  /\ UNCHANGED <<github, binary, old, jobs, program, checking, queue, wjob, applying, restart, faults, orphans>>

Fault == faults < MaxFaults /\ faults' = faults + 1
NoFault == UNCHANGED faults

\* It renames the executable out of the way, which fails when there is none;
MoveAside(w) ==
  /\ Alive /\ wpc[w] = "aside"
  /\ \/ /\ binary # None /\ NoFault /\ old' = binary /\ binary' = None
        /\ WorkerAt(w, "in") /\ UNCHANGED applying
     \/ /\ (IF binary = None THEN NoFault ELSE Fault)
        /\ GiveUp(w) /\ UNCHANGED <<binary, old>>
  /\ UNCHANGED <<github, staged, jobs, program, checking, queue, wjob, restart, orphans>>

\* renames the new one into its place, after which Apply returns; or renames the
\* old one back, which may fail too ("binary may be broken", apply.go:124).
MoveIn(w) ==
  /\ Alive /\ wpc[w] = "in" /\ applying' = None
  /\ \/ /\ NoFault /\ WorkerAt(w, "installed") /\ staged' = {} /\ old' = None
        /\ binary' = IF staged = {w} THEN Release(w) ELSE Broken
     \/ /\ Fault /\ WorkerAt(w, "failed") /\ UNCHANGED staged
        /\ \/ binary' = old /\ old' = None
           \/ UNCHANGED <<binary, old>>
  /\ UNCHANGED <<github, jobs, program, checking, queue, wjob, restart, orphans>>

\* Bug: the job ends with the new binary in place and nobody told.
NoRequestRestart(w) ==
  /\ Alive /\ wpc[w] = "installed" /\ WorkerAt(w, "done")
  /\ UNCHANGED <<github, disk, jobs, program, checking, queue, wjob, applying, restart, faults, orphans>>

\* requestRestart: a second request before main has taken the first is no-op.
RequestRestart(w) ==
  /\ Alive /\ wpc[w] = "installed" /\ restart' = TRUE /\ WorkerAt(w, "done")
  /\ UNCHANGED <<github, disk, jobs, program, checking, queue, wjob, applying, faults, orphans>>

\* The pool records how the job ended, unless the database is closed.
Finish(w) ==
  /\ Alive /\ wpc[w] \in {"done", "failed"} /\ WorkerAt(w, "idle")
  /\ IF main = "over" THEN UNCHANGED jobs ELSE Record(wjob[w], wpc[w])
  /\ wjob' = [wjob EXCEPT ![w] = None]
  /\ UNCHANGED <<github, disk, program, checking, queue, applying, restart, faults, orphans>>

-----------------------------------------------------------------------------
(* main.run and main *)

\* The select: a signal or a listener's error ends it, whatever else is ready,
Signal ==
  /\ main = "serving" /\ main' = "closing" /\ handoff' = FALSE
  /\ UNCHANGED <<github, disk, jobs, running, canApply, checking, queue, applies, restart, faults, orphans>>

\* and so does a request to restart.
TakeRestart ==
  /\ main = "serving" /\ restart
  /\ main' = "closing" /\ handoff' = TRUE /\ restart' = FALSE
  /\ UNCHANGED <<github, disk, jobs, running, canApply, checking, queue, applies, faults, orphans>>

\* What the handlers know is gone with them.
NoRequests ==
  /\ cache' = NoCache
  /\ request' = [h \in Handlers |-> "idle"] /\ answer' = [h \in Handlers |-> None]

\* drainAndShutdown returns and wm.Shutdown begins. Of requests that are still under
\* way nothing can come: the pool takes no job, and the cache ends with the process.
StopPool ==
  /\ main = "closing" /\ main' = "stopping" /\ NoRequests
  /\ UNCHANGED <<github, disk, jobs, handoff, running, canApply, queue, applies, restart, faults, orphans>>

Queued == {queue[i] : i \in DOMAIN queue}
Busy == {wjob[w] : w \in {v \in Workers : wpc[v] # "idle"}}

\* Bug: Shutdown leaves what is queued as it is.
PoolStoppedUndrained ==
  /\ main = "stopping" /\ main' = "over"
  /\ queue' = <<>> /\ orphans' = orphans \cup Busy
  /\ UNCHANGED <<github, disk, jobs, handoff, running, canApply, checking, applies, restart, faults>>

\* It returns once the workers are idle or its grace has elapsed, with the queue
\* drained; then the database closes, and rows of jobs still in hand stay as they are.
PoolStopped ==
  /\ main = "stopping" /\ main' = "over"
  /\ jobs' = [j \in DOMAIN jobs |-> IF j \in Queued THEN [jobs[j] EXCEPT !.status = "canceled"]
                                    ELSE jobs[j]]
  /\ queue' = <<>> /\ orphans' = orphans \cup Busy
  /\ UNCHANGED <<github, disk, handoff, running, canApply, checking, applies, restart, faults>>

\* What a process keeps in memory ends with it.
Forgotten ==
  /\ NoRequests /\ handoff' = FALSE /\ restart' = FALSE
  /\ queue' = <<>> /\ wpc' = [w \in Workers |-> "idle"] /\ wjob' = [w \in Workers |-> None]
  /\ applying' = None

Starts == main' = "serving" /\ running' = binary /\ UNCHANGED canApply

\* Exec hands over to the executable; when it cannot, the process exits.
Exec ==
  /\ main = "over" /\ handoff /\ Forgotten
  /\ \/ binary \in Versions /\ Starts
     \/ binary \notin Versions /\ main' = "dead" /\ UNCHANGED <<running, canApply>>
  /\ UNCHANGED <<github, disk, jobs, faults, orphans>>

Exit ==
  /\ main = "over" /\ ~handoff /\ Forgotten /\ main' = "dead"
  /\ UNCHANGED <<github, disk, jobs, running, canApply, faults, orphans>>

\* The process is killed, or the machine stops.
Crash ==
  /\ Alive /\ Fault
  /\ Forgotten /\ main' = "dead"
  /\ orphans' = {j \in DOMAIN jobs : jobs[j].status \in Active}
  /\ UNCHANGED <<github, disk, jobs, running, canApply>>

\* Somebody starts the program again. Nothing looks at the rows left over.
Boot ==
  /\ main = "dead" /\ binary \in Versions /\ Starts
  /\ UNCHANGED <<github, disk, jobs, handoff, checking, queue, applies, restart, faults, orphans>>

-----------------------------------------------------------------------------

Handle(h) == LookInCache(h) \/ Fetch(h) \/ StoreRelease(h) \/ StoreFailure(h) \/ Decide(h)
Apply(w) == Begin(w) \/ Download(w) \/ OpenStaged(w) \/ WriteStaged(w) \/ MoveAside(w) \/ MoveIn(w)
Work(w) == Receive(w) \/ Apply(w) \/ RequestRestart(w) \/ Finish(w)
Run == TakeRestart \/ StopPool \/ PoolStopped \/ Exec \/ Exit

Next == \/ Publish \/ Expire
        \/ \E h \in Handlers : Get(h) \/ Post(h) \/ Handle(h)
        \/ \E w \in Workers : Work(w)
        \/ Signal \/ Run \/ Crash \/ Boot

Spec == Init /\ [][Next]_vars

\* Goroutines run, and main's waits end: the drain and the join have time limits.
\* Nobody has to ask, publish, signal, or start the program again.
FairSpec == Spec /\ WF_vars(Run) /\ \A w \in Workers : WF_vars(Work(w))

-----------------------------------------------------------------------------
(* Properties *)

\* The variables hold values of the kinds the code gives them, and the flag is set
\* exactly while a worker is in Apply.
TypeOK ==
  /\ published \in Versions /\ running \in Versions
  /\ binary \in Versions \cup {None, Broken} /\ old \in Versions \cup {None, Broken}
  /\ staged \subseteq Workers
  /\ jobs \in Seq([status : Active \cup {"done", "failed", "canceled"}, release : Versions])
  /\ Len(jobs) <= MaxJobs
  /\ main \in {"serving", "closing", "stopping", "over", "dead"}
  /\ handoff \in BOOLEAN /\ canApply \in BOOLEAN /\ restart \in BOOLEAN
  /\ cache \in [release : Versions \cup {None}, failed : BOOLEAN]
  /\ request \in [Handlers -> {"idle", "get fetch", "post", "post fetch", "decide"}]
  /\ answer \in [Handlers -> Versions \cup {None}]
  /\ queue \in Seq(DOMAIN jobs)
  /\ wpc \in [Workers -> {"idle", "begin", "download", "open", "write", "aside", "in",
                          "installed", "done", "failed"}]
  /\ wjob \in [Workers -> DOMAIN jobs \cup {None}]
  /\ applying \in Workers \cup {None}
  /\ \A w \in Workers :
       applying = w <=> wpc[w] \in {"download", "open", "write", "aside", "in"}
  /\ faults \in 0 .. MaxFaults /\ orphans \subseteq DOMAIN jobs

\* However requests, stale answers, jobs, restarts and crashes fall together, the
\* process that comes up is never older than the one before ("no downgrades",
\* check.go:124), though the executable on disk may go back and forth in between.
NoDowngrade == [][running' >= running]_vars

\* What lies at the executable's path is one whole release or nothing: two
\* jobs never splice their downloads in the one .new file (selfupdate.go:79-82).
InstalledIsWhole == binary # Broken

\* "An update is already in progress" is said only when one is waiting or being worked
\* at, or when a process that was killed or ran out of time left its row behind.
RefusalsAreHonest ==
  \A j \in DOMAIN jobs : jobs[j].status \in Active => j \in Queued \cup Busy \cup orphans

\* A new executable is followed by a process that runs it, unless the process is
\* killed or told to stop, or a failed swap left no executable.
RunsWhatItInstalled ==
  Alive /\ binary \in Versions /\ binary # running
    ~> \/ binary = running \/ binary = None
       \/ main = "dead" \/ (main # "serving" /\ ~handoff)
=============================================================================
