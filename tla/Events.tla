-------------------------------- MODULE Events --------------------------------
(***************************************************************************)
(* The worker's event stream: publish, Subscribe and the pump of each      *)
(* subscriber in internal/worker, and the handler of api/sse.go that       *)
(* writes a subscriber's events to its client.                             *)
(*                                                                         *)
(* An event is known by the epoch and the number it was given. A client    *)
(* that is told to, or has no Last-Event-ID to send, fetches the job rows, *)
(* which are written before their event is published. Subscribers that     *)
(* unsubscribed still get the events of a publish in progress; nobody      *)
(* reads them, and they are left out.                                      *)
(***************************************************************************)
EXTENDS Integers, SequencesExt

CONSTANTS Publishers, \* goroutines that publish: workers, Cancel, Shutdown, requests
          Clients,    \* browsers with an EventSource
          eventRing,  \* capacity of the replay buffer
          subInbox,   \* capacity of a subscriber's inbox
          outCap,     \* events the pump can be ahead of the handler
          None,
          MaxSeq,     \* bound: events of one epoch
          MaxEpoch    \* bound: restarts of the server

ASSUME EventsAssumption ==
  /\ eventRing \in Nat \ {0} /\ subInbox \in Nat /\ eventRing <= subInbox
  /\ outCap \in Nat \ {0} /\ MaxSeq \in Nat /\ MaxEpoch \in Nat
  /\ None \notin (0 .. MaxEpoch) \X (1 .. MaxSeq)

VARIABLES
  epoch, eventSeq, \* identity of this process's numbering, and its last number
  ring,            \* numbers in the replay buffer, oldest first
  at, num, todo,   \* each publish: how far it is, its number, whom it still has to serve
  subs,            \* clients that are subscribed
  inbox, out,      \* numbers on their way to each client
  lastId,          \* the Last-Event-ID each client would send
  log,             \* history: every event recorded in a ring so far
  known,           \* history: events each client was sent or that its fetch covered
  since,           \* history: the log when each client subscribed last
  dropped,         \* history: events a full inbox kept from each client
  astray, jumbled  \* history: clients that were sent events out of order; epochs
                   \* whose events were recorded out of order

publishing == <<at, num, todo>>
seen == <<lastId, known>>
stream == <<subs, inbox, out>>
recovery == <<since, dropped, astray>>
vars == <<epoch, eventSeq, ring, publishing, stream, seen, log, recovery, jumbled>>

Init ==
  /\ epoch = 0 /\ eventSeq = 0 /\ ring = <<>>
  /\ at = [p \in Publishers |-> "idle"] /\ num = [p \in Publishers |-> 0]
  /\ todo = [p \in Publishers |-> {}]
  /\ subs = {}
  /\ inbox = [c \in Clients |-> <<>>] /\ out = [c \in Clients |-> <<>>]
  /\ lastId = [c \in Clients |-> None]
  /\ log = {} /\ astray = {} /\ jumbled = {}
  /\ known = [c \in Clients |-> {}] /\ since = [c \in Clients |-> {}]
  /\ dropped = [c \in Clients |-> {}]

Current(n) == <<epoch, n>>

-----------------------------------------------------------------------------
(* publish *)

TakeNumber(p) ==
  /\ at[p] = "idle" /\ eventSeq < MaxSeq
  /\ eventSeq' = eventSeq + 1
  /\ num' = [num EXCEPT ![p] = eventSeq + 1] /\ at' = [at EXCEPT ![p] = "numbered"]
  /\ UNCHANGED <<epoch, ring, todo, stream, seen, log, recovery, jumbled>>

\* Bug: the ring is trimmed one event late.
RecordedOver(n) ==
  Append(IF Len(ring) > eventRing THEN SubSeq(ring, Len(ring) - eventRing + 2, Len(ring))
                                  ELSE ring, n)

\* The oldest number leaves a full ring.
Recorded(n) ==
  Append(IF Len(ring) >= eventRing THEN SubSeq(ring, Len(ring) - eventRing + 2, Len(ring))
                                   ELSE ring, n)

\* Bug: the event enters the ring before mu is taken to copy the subscribers.
RecordUnlocked(p) ==
  /\ at[p] = "numbered"
  /\ IF num[p] \notin ToSet(ring)
     THEN /\ ring' = Recorded(num[p]) /\ log' = log \cup {Current(num[p])}
          /\ UNCHANGED <<at, todo>>
     ELSE /\ at' = [at EXCEPT ![p] = IF subs = {} THEN "idle" ELSE "sending"]
          /\ todo' = [todo EXCEPT ![p] = subs] /\ UNCHANGED <<ring, log>>
  /\ UNCHANGED <<epoch, eventSeq, num, stream, seen, recovery, jumbled>>

\* Under mu and ringMu: the subscribers of the moment, and the ring.
Record(p) ==
  /\ at[p] = "numbered" /\ at' = [at EXCEPT ![p] = IF subs = {} THEN "idle" ELSE "sending"]
  /\ todo' = [todo EXCEPT ![p] = subs]
  /\ ring' = Recorded(num[p]) /\ log' = log \cup {Current(num[p])}
  /\ jumbled' = IF \E n \in num[p] .. MaxSeq : Current(n) \in log
                THEN jumbled \cup {epoch} ELSE jumbled
  /\ UNCHANGED <<epoch, eventSeq, num, stream, seen, recovery>>

\* Bug: the send waits for room in the inbox.
SendBlocking(p, c) ==
  /\ at[p] = "sending" /\ c \in todo[p] /\ Len(inbox[c]) < subInbox
  /\ todo' = [todo EXCEPT ![p] = @ \ {c}]
  /\ at' = [at EXCEPT ![p] = IF todo[p] = {c} THEN "idle" ELSE "sending"]
  /\ inbox' = [inbox EXCEPT ![c] = Append(@, num[p])]
  /\ UNCHANGED <<epoch, eventSeq, ring, num, subs, out, seen, log, recovery, jumbled>>

\* The next subscriber, without a lock and without blocking.
Send(p, c) ==
  /\ at[p] = "sending" /\ c \in todo[p]
  /\ todo' = [todo EXCEPT ![p] = @ \ {c}]
  /\ at' = [at EXCEPT ![p] = IF todo[p] = {c} THEN "idle" ELSE "sending"]
  /\ IF Len(inbox[c]) < subInbox
     THEN inbox' = [inbox EXCEPT ![c] = Append(@, num[p])] /\ UNCHANGED dropped
     ELSE dropped' = [dropped EXCEPT ![c] = @ \cup {Current(num[p])}] /\ UNCHANGED inbox
  /\ astray' = IF \E q \in Publishers : c \in todo[q] /\ num[q] < num[p]
               THEN astray \cup {c} ELSE astray
  /\ UNCHANGED <<epoch, eventSeq, ring, num, subs, out, seen, log, since, jumbled>>

-----------------------------------------------------------------------------
(* Subscribe, the pump, and streamJobs *)

\* What the ring holds of the numbers past n, in the ring's order: one sequence.
Replays(n) ==
  LET past == {k \in DOMAIN ring : ring[k] > n}
  IN {[i \in DOMAIN f |-> ring[f[i]]] :
        f \in {g \in [1 .. Cardinality(past) -> past] : \A i, j \in DOMAIN g : i < j => g[i] < g[j]}}

\* Bug: the epoch of the Last-Event-ID is not compared.
SubscribeAnyEpoch(c) ==
  LET sinceSeq == IF lastId[c] = None THEN 0 ELSE lastId[c][2]
      gap == sinceSeq > 0 /\ ring # <<>> /\ ring[1] > sinceSeq + 1
      fetches == gap \/ lastId[c] = None
  IN /\ c \notin subs /\ subs' = subs \cup {c}
     /\ \E replay \in (IF sinceSeq > 0 THEN Replays(sinceSeq) ELSE {<<>>}) :
          inbox' = [inbox EXCEPT ![c] = replay]
     /\ known' = [known EXCEPT ![c] = IF fetches THEN log ELSE @]
     /\ since' = [since EXCEPT ![c] = log]
     /\ dropped' = [dropped EXCEPT ![c] = IF fetches THEN {} ELSE @]
     /\ astray' = IF fetches THEN astray \ {c} ELSE astray
     /\ UNCHANGED <<epoch, eventSeq, ring, publishing, out, lastId, log, jumbled>>

\* A client connects, with the Last-Event-ID it has. What it missed is replayed,
\* or it is told to fetch the rows.
Subscribe(c) ==
  LET foreign == lastId[c] # None /\ lastId[c][1] # epoch
      sinceSeq == IF lastId[c] = None \/ foreign THEN 0 ELSE lastId[c][2]
      gap == foreign \/ (sinceSeq > 0 /\ ring # <<>> /\ ring[1] > sinceSeq + 1)
      fetches == gap \/ lastId[c] = None
  IN /\ c \notin subs /\ subs' = subs \cup {c}
     /\ \E replay \in (IF sinceSeq > 0 THEN Replays(sinceSeq) ELSE {<<>>}) :
          inbox' = [inbox EXCEPT ![c] = replay]
     /\ known' = [known EXCEPT ![c] = IF fetches THEN log ELSE @]
     /\ since' = [since EXCEPT ![c] = log]
     /\ dropped' = [dropped EXCEPT ![c] = IF fetches THEN {} ELSE @]
     /\ astray' = IF fetches THEN astray \ {c} ELSE astray
     /\ UNCHANGED <<epoch, eventSeq, ring, publishing, out, lastId, log, jumbled>>

\* Bug: the pump does not wait for room, it drops.
PumpDropping(c) ==
  /\ c \in subs /\ inbox[c] # <<>>
  /\ inbox' = [inbox EXCEPT ![c] = Tail(@)]
  /\ out' = IF Len(out[c]) < outCap THEN [out EXCEPT ![c] = Append(@, Head(inbox[c]))] ELSE out
  /\ UNCHANGED <<epoch, eventSeq, ring, publishing, subs, seen, log, recovery, jumbled>>

\* From the inbox to the channel the handler reads; the pump waits for room.
Pump(c) ==
  /\ c \in subs /\ inbox[c] # <<>> /\ Len(out[c]) < outCap
  /\ inbox' = [inbox EXCEPT ![c] = Tail(@)]
  /\ out' = [out EXCEPT ![c] = Append(@, Head(inbox[c]))]
  /\ UNCHANGED <<epoch, eventSeq, ring, publishing, subs, seen, log, recovery, jumbled>>

\* A frame with the event and its id reaches the client.
Write(c) ==
  /\ c \in subs /\ out[c] # <<>>
  /\ out' = [out EXCEPT ![c] = Tail(@)]
  /\ lastId' = [lastId EXCEPT ![c] = Current(Head(out[c]))]
  /\ known' = [known EXCEPT ![c] = @ \cup {Current(Head(out[c]))}]
  /\ UNCHANGED <<epoch, eventSeq, ring, publishing, subs, inbox, log, recovery, jumbled>>

\* The connection breaks, with everything that was under way.
Unsubscribe(c) ==
  /\ c \in subs /\ subs' = subs \ {c}
  /\ inbox' = [inbox EXCEPT ![c] = <<>>] /\ out' = [out EXCEPT ![c] = <<>>]
  /\ todo' = [p \in Publishers |-> todo[p] \ {c}]
  /\ at' = [p \in Publishers |-> IF todo[p] = {c} THEN "idle" ELSE at[p]]
  /\ UNCHANGED <<epoch, eventSeq, ring, num, seen, log, recovery, jumbled>>

\* The process ends, after a Shutdown or without, and a new Manager starts.
Restart ==
  /\ epoch < MaxEpoch /\ epoch' = epoch + 1
  /\ eventSeq' = 0 /\ ring' = <<>>
  /\ at' = [p \in Publishers |-> "idle"] /\ num' = [p \in Publishers |-> 0]
  /\ todo' = [p \in Publishers |-> {}]
  /\ subs' = {}
  /\ inbox' = [c \in Clients |-> <<>>] /\ out' = [c \in Clients |-> <<>>]
  /\ UNCHANGED <<seen, log, recovery, jumbled>>

-----------------------------------------------------------------------------

Publish(p) == Record(p) \/ \E c \in Clients : Send(p, c)

Next == \/ \E p \in Publishers : TakeNumber(p) \/ Publish(p)
        \/ \E c \in Clients : Subscribe(c) \/ Pump(c) \/ Write(c) \/ Unsubscribe(c)
        \/ Restart

Spec == Init /\ [][Next]_vars

\* A goroutine that publishes runs on; a client may stop reading for good.
FairSpec == Spec /\ \A p \in Publishers : WF_vars(Publish(p))

-----------------------------------------------------------------------------
(* Properties *)

Numbers == 1 .. MaxSeq
Ids == (0 .. MaxEpoch) \X Numbers

\* The variables hold values of the kinds the code gives them; ring and channels
\* keep their capacity.
TypeOK ==
  /\ epoch \in 0 .. MaxEpoch /\ eventSeq \in 0 .. MaxSeq
  /\ ring \in Seq(Numbers) /\ Len(ring) <= eventRing
  /\ at \in [Publishers -> {"idle", "numbered", "sending"}]
  /\ num \in [Publishers -> 0 .. MaxSeq]
  /\ todo \in [Publishers -> SUBSET subs] /\ subs \subseteq Clients
  /\ \A c \in Clients : /\ inbox[c] \in Seq(Numbers) /\ Len(inbox[c]) <= subInbox
                        /\ out[c] \in Seq(Numbers) /\ Len(out[c]) <= outCap
  /\ lastId \in [Clients -> Ids \cup {None}]
  /\ log \subseteq Ids /\ astray \subseteq Clients /\ jumbled \subseteq 0 .. MaxEpoch
  /\ known \in [Clients -> SUBSET Ids] /\ since \in [Clients -> SUBSET Ids]
  /\ dropped \in [Clients -> SUBSET Ids]

\* Ids of the numbers in transit to client c, from the next to the newest.
Transit(c) == out[c] \o inbox[c]
Owed(c) == {Current(num[p]) : p \in {q \in Publishers : c \in todo[q]}}
Underway(c) == {Current(n) : n \in ToSet(Transit(c))} \cup Owed(c)

\* A client that stays connected gets every event recorded since it subscribed,
\* in whatever order, but for those its own full inbox kept from it: "a slow SSE
\* reader can only ever cause its own inbox to fill" (worker.go:416-417).
StaysInformed ==
  \A c \in subs : log \ since[c] \subseteq known[c] \cup Underway(c) \cup dropped[c]

\* As long as publishes did not overtake each other and nothing was dropped (an id
\* beyond a dropped event skips it, although "a client that reconnects recovers"
\* it, worker.go:34-36), a client has been sent, or is about to be sent, or was told to fetch, every
\* event there ever was, over any number of reconnects and restarts.
ResumesInformed ==
  \A c \in subs : dropped[c] = {} /\ c \notin astray /\ epoch \notin jumbled
                  => log \subseteq known[c] \cup Underway(c)

\* Nothing live "jumps ahead of the replayed events" (worker.go:270-271), and no
\* event comes twice over one connection.
ReplayThenLive ==
  \A c \in subs :
    LET queue == Transit(c)
        Replayed(n) == Current(n) \in since[c]
    IN /\ IsInjective(queue)
       /\ \A k, l \in DOMAIN queue : k < l /\ Replayed(queue[l]) => Replayed(queue[k])
       /\ Owed(c) \cap ({Current(n) : n \in ToSet(queue)} \cup since[c]) = {}
       /\ Underway(c) \cap (known[c] \ since[c]) = {}

\* Whatever the readers do, publish returns: it "can never block the calling
\* worker goroutine, Cancel, or Shutdown" (worker.go:418).
PublishReturns ==
  \A p \in Publishers : at[p] = "numbered" ~> at[p] = "idle"
=============================================================================
