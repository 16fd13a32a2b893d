----------------------------- MODULE EventsProofs -----------------------------
(***************************************************************************)
(* For any number of publishing goroutines, clients, restarts and events:  *)
(* a connected client misses only what its own full inbox kept from it,    *)
(* gets what it missed before what is new and nothing twice, and, as long  *)
(* as publishes do not overtake one another, resumes after any number of   *)
(* reconnects without a hole.                                              *)
(*                                                                         *)
(* What is under way to a client is one sequence (the handler's channel,   *)
(* then the inbox), followed by what publishes in progress owe it. All of  *)
(* it has been recorded, and recorded numbers are never given again.       *)
(***************************************************************************)
EXTENDS Events, FiniteSetTheorems, SequenceTheorems, TLAPS

-----------------------------------------------------------------------------
(* Sequences. *)

\* Moving the head of one sequence to the end of another leaves their
\* concatenation alone.
LEMMA Handed ==
  ASSUME NEW S, NEW s \in Seq(S), NEW t \in Seq(S), t # <<>>
  PROVE  Append(s, Head(t)) \o Tail(t) = s \o t
BY SMTT(30)

\* Taking the head of the first takes the head of both.
LEMMA TailOfBoth ==
  ASSUME NEW S, NEW s \in Seq(S), NEW t \in Seq(S), s # <<>>
  PROVE  /\ Tail(s) \o t = Tail(s \o t) /\ s \o t # <<>>
         /\ Head(s \o t) = Head(s) /\ s \o t \in Seq(S)
BY SMTT(30)

\* Appending to the second appends to both.
LEMMA AppendToBoth ==
  ASSUME NEW S, NEW s \in Seq(S), NEW t \in Seq(S), NEW n \in S
  PROVE  s \o Append(t, n) = Append(s \o t, n) /\ s \o t \in Seq(S)
BY SMTT(30)

-----------------------------------------------------------------------------
(* Types. *)

\* Also, the two channels are channels of every client.
Channels == /\ inbox \in [Clients -> Seq(Numbers)] /\ out \in [Clients -> Seq(Numbers)]
Typed == TypeOK /\ Channels

\* What the ring becomes when an event is recorded: the oldest number leaves a full one.
LEMMA RecordedRing ==
  ASSUME ring \in Seq(Numbers), Len(ring) <= eventRing, NEW n \in Numbers
  PROVE  /\ Recorded(n) \in Seq(Numbers) /\ Len(Recorded(n)) <= eventRing
         /\ Recorded(n) # <<>> /\ Recorded(n)[Len(Recorded(n))] = n
         /\ \E d \in {0, 1} :
              /\ Len(Recorded(n)) = Len(ring) + 1 - d
              /\ \A i \in 1 .. Len(Recorded(n)) - 1 : Recorded(n)[i] = ring[i + d]
              /\ d = 1 => ring # <<>>
<1>1. eventRing \in Nat \ {0} /\ Len(ring) \in Nat
  BY EventsAssumption
<1>2. CASE Len(ring) < eventRing
  <2>1. Recorded(n) = Append(ring, n)
    BY <1>1, <1>2 DEF Recorded
  <2> QED
    BY <1>1, <1>2, <2>1
<1>3. CASE Len(ring) = eventRing
  <2> DEFINE kept == SubSeq(ring, 2, Len(ring))
  <2>1. Recorded(n) = Append(kept, n)
    BY <1>1, <1>3 DEF Recorded
  <2>2. /\ kept \in Seq(Numbers) /\ Len(kept) = Len(ring) - 1
        /\ \A i \in 1 .. Len(kept) : kept[i] = ring[i + 1]
    BY <1>1, <1>3
  <2> HIDE DEF kept
  <2> QED
    BY <1>1, <1>3, <2>1, <2>2
<1> QED
  BY <1>1, <1>2, <1>3

\* What a subscriber is sent again is a part of the ring, in order: every number past n,
\* once.
LEMMA Replayed ==
  ASSUME ring \in Seq(Numbers), Len(ring) <= eventRing, NEW n \in Nat, NEW s \in Replays(n)
  PROVE  /\ s \in Seq(Numbers) /\ Len(s) <= eventRing
         /\ \E f \in [1 .. Len(s) -> DOMAIN ring] :
              /\ \A i, j \in 1 .. Len(s) : i < j => f[i] < f[j]
              /\ \A i \in 1 .. Len(s) : s[i] = ring[f[i]] /\ s[i] > n
              /\ \A k \in DOMAIN ring : ring[k] > n => \E i \in 1 .. Len(s) : f[i] = k
<1> DEFINE past == {k \in DOMAIN ring : ring[k] > n}
           m == Cardinality(past)
<1>1. DOMAIN ring = 1 .. Len(ring) /\ Len(ring) \in Nat
  OBVIOUS
<1>2. IsFiniteSet(1 .. Len(ring)) /\ Cardinality(1 .. Len(ring)) = Len(ring)
  <2>1. 1 \in Int /\ Len(ring) \in Int /\ Len(ring) - 1 + 1 = Len(ring)
    BY <1>1
  <2>2. IsFiniteSet(1 .. Len(ring))
    BY <2>1, FS_Interval
  <2>3. Cardinality(1 .. Len(ring)) = IF 1 > Len(ring) THEN 0 ELSE Len(ring) - 1 + 1
    BY <2>1, FS_Interval
  <2> QED
    BY <1>1, <2>2, <2>3
<1>3. IsFiniteSet(past) /\ m \in Nat /\ m <= Len(ring)
  BY <1>1, <1>2, FS_Subset, FS_CardinalityType
<1>4. PICK f \in [1 .. m -> past] :
        /\ \A i, j \in DOMAIN f : i < j => f[i] < f[j]
        /\ s = [i \in DOMAIN f |-> ring[f[i]]]
  BY DEF Replays
<1>5. past \subseteq DOMAIN ring /\ \A k \in past : ring[k] \in Numbers /\ ring[k] > n /\ k \in Nat
  BY <1>1
<1>6. s \in Seq(Numbers) /\ Len(s) = m
  <2>1. s \in [1 .. m -> Numbers]
    BY <1>4, <1>5
  <2> HIDE DEF m
  <2> QED
    BY <1>3, <2>1
<1>7. f \in Injection(1 .. m, past)
  <2> SUFFICES ASSUME NEW i \in 1 .. m, NEW j \in 1 .. m, f[i] = f[j] PROVE i = j
    BY DEF Injection, IsInjective
  <2>1. i \in Nat /\ j \in Nat /\ f[i] \in Nat /\ f[j] \in Nat
    BY <1>3, <1>4, <1>5
  <2>2. ~(i < j) /\ ~(j < i)
    BY <1>4, <2>1
  <2> QED
    BY <2>1, <2>2
<1>8. IsFiniteSet(1 .. m) /\ Cardinality(1 .. m) = m
  BY <1>3, FS_Interval
<1>9. f \in Surjection(1 .. m, past)
  BY <1>3, <1>7, <1>8, FS_Injection
<1>10. \A k \in past : \E i \in 1 .. m : f[i] = k
  BY <1>9 DEF Surjection
<1> HIDE DEF past, m
<1>11. f \in [1 .. Len(s) -> DOMAIN ring]
  BY <1>4, <1>5, <1>6
<1>12. \A i \in 1 .. Len(s) : s[i] = ring[f[i]] /\ s[i] > n
  BY <1>4, <1>5, <1>6
<1>13. \A k \in DOMAIN ring : ring[k] > n => \E i \in 1 .. Len(s) : f[i] = k
  BY <1>6, <1>10 DEF past
<1>14. Len(s) <= eventRing
  BY <1>1, <1>3, <1>6, EventsAssumption
<1>15. \A i, j \in 1 .. Len(s) : i < j => f[i] < f[j]
  BY <1>4, <1>6
<1> QED
  BY <1>6, <1>11, <1>12, <1>13, <1>14, <1>15

-----------------------------------------------------------------------------
(* Every step keeps the types. *)

\* At first nothing has been published.
LEMMA InitTyped == Init => Typed
<1> SUFFICES ASSUME Init PROVE Typed
  OBVIOUS
<1>1. /\ <<>> \in Seq(Numbers) /\ Len(<<>>) = 0
      /\ eventRing \in Nat /\ subInbox \in Nat /\ outCap \in Nat /\ MaxSeq \in Nat /\ MaxEpoch \in Nat
  BY EventsAssumption
<1>2. /\ epoch \in 0 .. MaxEpoch /\ eventSeq \in 0 .. MaxSeq
      /\ ring \in Seq(Numbers) /\ Len(ring) <= eventRing
      /\ at \in [Publishers -> {"idle", "numbered", "sending"}]
      /\ num \in [Publishers -> 0 .. MaxSeq]
      /\ todo \in [Publishers -> SUBSET subs] /\ subs \subseteq Clients
  BY <1>1 DEF Init
<1>3. inbox \in [Clients -> Seq(Numbers)] /\ out \in [Clients -> Seq(Numbers)]
  BY <1>1 DEF Init
<1>4. \A c \in Clients : Len(inbox[c]) <= subInbox /\ Len(out[c]) <= outCap
  BY <1>1 DEF Init
<1>5. /\ lastId \in [Clients -> Ids \cup {None}]
      /\ log \subseteq Ids /\ astray \subseteq Clients /\ jumbled \subseteq 0 .. MaxEpoch
      /\ known \in [Clients -> SUBSET Ids] /\ since \in [Clients -> SUBSET Ids]
      /\ dropped \in [Clients -> SUBSET Ids]
  BY DEF Init
<1> QED
  BY <1>2, <1>3, <1>4, <1>5 DEF Typed, TypeOK, Channels

\* Whatever epoch and numbers there are, an identity is made of them.
LEMMA CurrentIds == ASSUME Typed, NEW n \in Numbers PROVE Current(n) \in Ids
BY DEF Typed, TypeOK, Current, Ids

\* A publish that is past taking its number has one.
Numbered == \A p \in Publishers : at[p] # "idle" => num[p] \in 1 .. eventSeq

\* A publish takes its number.
LEMMA TakeNumberTyped ==
  ASSUME Typed, NEW p \in Publishers, TakeNumber(p)
  PROVE  Typed'
<1>1. /\ eventSeq + 1 \in 0 .. MaxSeq /\ eventSeq' = eventSeq + 1
  BY EventsAssumption DEF TakeNumber, Typed, TypeOK
<1>2. /\ at' \in [Publishers -> {"idle", "numbered", "sending"}]
      /\ num' \in [Publishers -> 0 .. MaxSeq]
  BY <1>1 DEF TakeNumber, Typed, TypeOK
<1>3. UNCHANGED <<epoch, ring, todo, stream, seen, log, recovery, jumbled>>
  BY DEF TakeNumber
<1> QED
  BY <1>1, <1>2, <1>3 DEF Typed, TypeOK, Channels, stream, seen, recovery

\* An event is recorded.
LEMMA RecordTyped ==
  ASSUME Typed, Numbered, NEW p \in Publishers, Record(p)
  PROVE  Typed'
<1>1. num[p] \in Numbers /\ ring \in Seq(Numbers) /\ Len(ring) <= eventRing
  BY EventsAssumption DEF Record, Typed, TypeOK, Numbered, Numbers
<1>2. ring' \in Seq(Numbers) /\ Len(ring') <= eventRing
  BY <1>1, RecordedRing DEF Record
<1>3. log' \subseteq Ids
  BY <1>1, CurrentIds DEF Record, Typed, TypeOK
<1>4. /\ at' \in [Publishers -> {"idle", "numbered", "sending"}]
      /\ todo' \in [Publishers -> SUBSET subs']
  BY DEF Record, Typed, TypeOK, stream
<1>5. jumbled' \subseteq 0 .. MaxEpoch
  BY DEF Record, Typed, TypeOK
<1>6. UNCHANGED <<epoch, eventSeq, num, stream, seen, recovery>>
  BY DEF Record
<1> QED
  BY <1>2, <1>3, <1>4, <1>5, <1>6 DEF Typed, TypeOK, Channels, stream, seen, recovery

\* An event is put into an inbox, or dropped.
LEMMA SendTyped ==
  ASSUME Typed, Numbered, NEW p \in Publishers, NEW c \in Clients, Send(p, c)
  PROVE  Typed'
<1>1. num[p] \in Numbers /\ Current(num[p]) \in Ids
  <2>1. num[p] \in Numbers
    BY EventsAssumption DEF Send, Typed, TypeOK, Numbered, Numbers
  <2> QED
    BY <2>1, CurrentIds
<1>2. /\ at' \in [Publishers -> {"idle", "numbered", "sending"}]
      /\ todo' \in [Publishers -> SUBSET subs]
  BY DEF Send, Typed, TypeOK
<1>3. UNCHANGED <<epoch, eventSeq, ring, num, subs, out, seen, log, since, jumbled>>
  BY DEF Send
<1>4. astray' \subseteq Clients
  BY DEF Send, Typed, TypeOK
<1>5. /\ inbox' \in [Clients -> Seq(Numbers)] /\ dropped' \in [Clients -> SUBSET Ids]
      /\ \A d \in Clients : Len(inbox'[d]) <= subInbox
  <2>1. inbox[c] \in Seq(Numbers) /\ subInbox \in Nat
    BY EventsAssumption DEF Typed, Channels
  <2>2. CASE Len(inbox[c]) < subInbox /\ inbox' = [inbox EXCEPT ![c] = Append(@, num[p])] /\ UNCHANGED dropped
    <3>1. Append(inbox[c], num[p]) \in Seq(Numbers) /\ Len(Append(inbox[c], num[p])) <= subInbox
      BY <1>1, <2>1, <2>2
    <3> QED
      BY <2>2, <3>1 DEF Typed, TypeOK, Channels
  <2>3. CASE UNCHANGED inbox /\ dropped' = [dropped EXCEPT ![c] = @ \cup {Current(num[p])}]
    BY <1>1, <2>3 DEF Typed, TypeOK, Channels
  <2> QED
    BY <2>2, <2>3 DEF Send
<1> QED
  BY <1>2, <1>3, <1>4, <1>5 DEF Typed, TypeOK, Channels, seen

\* A client connects.
LEMMA SubscribeTyped ==
  ASSUME Typed, NEW c \in Clients, Subscribe(c)
  PROVE  Typed'
<1>1. UNCHANGED <<epoch, eventSeq, ring, publishing, out, lastId, log, jumbled>> /\ subs' = subs \cup {c}
  BY DEF Subscribe
<1>2. known' \in [Clients -> SUBSET Ids] /\ known' \in {known, [known EXCEPT ![c] = log]}
  BY DEF Subscribe, Typed, TypeOK
<1>3. since' \in [Clients -> SUBSET Ids]
  BY DEF Subscribe, Typed, TypeOK
<1>4. dropped' \in [Clients -> SUBSET Ids] /\ astray' \subseteq Clients
  BY DEF Subscribe, Typed, TypeOK
<1>5. PICK replay :
        /\ inbox' = [inbox EXCEPT ![c] = replay]
        /\ replay = <<>> \/ \E n \in Nat : replay \in Replays(n)
  <2>1. lastId[c] # None => lastId[c][2] \in Nat
    BY DEF Typed, TypeOK, Ids, Numbers
  <2> QED
    BY <2>1 DEF Subscribe
<1>6. replay \in Seq(Numbers) /\ Len(replay) <= subInbox
  <2>1. ring \in Seq(Numbers) /\ Len(ring) <= eventRing /\ eventRing <= subInbox
        /\ eventRing \in Nat /\ subInbox \in Nat
    BY EventsAssumption DEF Typed, TypeOK
  <2>2. ASSUME NEW n \in Nat, replay \in Replays(n)
        PROVE  replay \in Seq(Numbers) /\ Len(replay) <= subInbox
    <3>1. replay \in Seq(Numbers) /\ Len(replay) <= eventRing
      BY <2>1, <2>2, Replayed
    <3> QED
      BY <2>1, <3>1
  <2>3. <<>> \in Seq(Numbers) /\ Len(<<>>) <= subInbox
    BY <2>1
  <2>4. CASE replay = <<>>
    BY <2>3, <2>4
  <2> QED
    BY <1>5, <2>2, <2>4
<1>7. inbox' \in [Clients -> Seq(Numbers)] /\ \A d \in Clients : Len(inbox'[d]) <= subInbox
  BY <1>5, <1>6 DEF Typed, TypeOK, Channels
<1>8. todo' \in [Publishers -> SUBSET subs'] /\ subs' \subseteq Clients
  BY <1>1 DEF Typed, TypeOK, publishing
<1> QED
  BY <1>1, <1>2, <1>3, <1>4, <1>7, <1>8 DEF Typed, TypeOK, Channels, publishing

\* The pump hands an event on.
LEMMA PumpTyped ==
  ASSUME Typed, NEW c \in Clients, Pump(c)
  PROVE  Typed'
<1>1. /\ inbox[c] \in Seq(Numbers) /\ out[c] \in Seq(Numbers) /\ inbox[c] # <<>>
      /\ Len(inbox[c]) <= subInbox /\ Len(out[c]) < outCap
      /\ subInbox \in Nat /\ outCap \in Nat
  BY EventsAssumption DEF Pump, Typed, TypeOK, Channels
<1>2. /\ Tail(inbox[c]) \in Seq(Numbers) /\ Len(Tail(inbox[c])) <= subInbox
      /\ Head(inbox[c]) \in Numbers
  BY <1>1
<1>3. /\ Append(out[c], Head(inbox[c])) \in Seq(Numbers)
      /\ Len(Append(out[c], Head(inbox[c]))) <= outCap
  BY <1>1, <1>2
<1>4. inbox' \in [Clients -> Seq(Numbers)] /\ \A d \in Clients : Len(inbox'[d]) <= subInbox
  BY <1>2 DEF Pump, Typed, TypeOK, Channels
<1>5. out' \in [Clients -> Seq(Numbers)] /\ \A d \in Clients : Len(out'[d]) <= outCap
  BY <1>3 DEF Pump, Typed, TypeOK, Channels
<1>6. UNCHANGED <<epoch, eventSeq, ring, publishing, subs, seen, log, recovery, jumbled>>
  BY DEF Pump
<1> QED
  BY <1>4, <1>5, <1>6 DEF Typed, TypeOK, Channels, publishing, seen, recovery

\* The handler writes an event.
LEMMA WriteTyped ==
  ASSUME Typed, NEW c \in Clients, Write(c)
  PROVE  Typed'
<1>1. /\ out[c] \in Seq(Numbers) /\ out[c] # <<>> /\ Len(out[c]) <= outCap /\ outCap \in Nat
  BY EventsAssumption DEF Write, Typed, TypeOK, Channels
<1>2. Tail(out[c]) \in Seq(Numbers) /\ Len(Tail(out[c])) <= outCap /\ Head(out[c]) \in Numbers
  BY <1>1
<1>3. Current(Head(out[c])) \in Ids
  BY <1>2, CurrentIds
<1>4. out' \in [Clients -> Seq(Numbers)] /\ \A d \in Clients : Len(out'[d]) <= outCap
  BY <1>2 DEF Write, Typed, TypeOK, Channels
<1>5. lastId' \in [Clients -> Ids \cup {None}] /\ known' \in [Clients -> SUBSET Ids]
  BY <1>3 DEF Write, Typed, TypeOK
<1>6. UNCHANGED <<epoch, eventSeq, ring, publishing, subs, inbox, log, recovery, jumbled>>
  BY DEF Write
<1> QED
  BY <1>4, <1>5, <1>6 DEF Typed, TypeOK, Channels, publishing, recovery

\* The connection breaks.
LEMMA UnsubscribeTyped ==
  ASSUME Typed, NEW c \in Clients, Unsubscribe(c)
  PROVE  Typed'
<1>1. <<>> \in Seq(Numbers) /\ Len(<<>>) = 0 /\ subInbox \in Nat /\ outCap \in Nat
  BY EventsAssumption
<1>2. inbox' \in [Clients -> Seq(Numbers)] /\ \A d \in Clients : Len(inbox'[d]) <= subInbox
  BY <1>1 DEF Unsubscribe, Typed, TypeOK, Channels
<1>3. out' \in [Clients -> Seq(Numbers)] /\ \A d \in Clients : Len(out'[d]) <= outCap
  BY <1>1 DEF Unsubscribe, Typed, TypeOK, Channels
<1>4. todo' \in [Publishers -> SUBSET subs'] /\ subs' \subseteq Clients
  BY DEF Unsubscribe, Typed, TypeOK
<1>5. at' \in [Publishers -> {"idle", "numbered", "sending"}]
  BY DEF Unsubscribe, Typed, TypeOK
<1>6. UNCHANGED <<epoch, eventSeq, ring, num, seen, log, recovery, jumbled>>
  BY DEF Unsubscribe
<1> QED
  BY <1>2, <1>3, <1>4, <1>5, <1>6 DEF Typed, TypeOK, Channels, seen, recovery

\* A new process starts.
LEMMA RestartTyped == ASSUME Typed, Restart PROVE Typed'
<1>1. /\ <<>> \in Seq(Numbers) /\ Len(<<>>) = 0 /\ subInbox \in Nat /\ outCap \in Nat
      /\ eventRing \in Nat /\ MaxSeq \in Nat /\ MaxEpoch \in Nat
  BY EventsAssumption
<1>2. epoch' \in 0 .. MaxEpoch /\ eventSeq' \in 0 .. MaxSeq
  BY <1>1 DEF Restart, Typed, TypeOK
<1>3. /\ inbox' \in [Clients -> Seq(Numbers)] /\ out' \in [Clients -> Seq(Numbers)]
      /\ ring' \in Seq(Numbers) /\ Len(ring') <= eventRing
      /\ \A d \in Clients : Len(inbox'[d]) <= subInbox /\ Len(out'[d]) <= outCap
  BY <1>1 DEF Restart
<1>4. /\ at' \in [Publishers -> {"idle", "numbered", "sending"}]
      /\ num' \in [Publishers -> 0 .. MaxSeq]
      /\ todo' \in [Publishers -> SUBSET subs'] /\ subs' \subseteq Clients
  BY <1>1 DEF Restart
<1>5. UNCHANGED <<seen, log, recovery, jumbled>>
  BY DEF Restart
<1> QED
  BY <1>2, <1>3, <1>4, <1>5 DEF Typed, TypeOK, Channels, seen, recovery

-----------------------------------------------------------------------------
(* Numbers. *)

\* A number is given once, recorded once, and sent only when it has been recorded.
Once ==
  /\ Numbered
  /\ \A p \in Publishers : at[p] # "sending" => todo[p] = {}
  /\ \A p, q \in Publishers : at[p] # "idle" /\ at[q] # "idle" /\ num[p] = num[q] => p = q
  /\ \A p \in Publishers : at[p] = "numbered" => Current(num[p]) \notin log
  /\ \A p \in Publishers : at[p] = "sending" => Current(num[p]) \in log
  /\ \A id \in log : id[1] < epoch \/ (id[1] = epoch /\ id[2] <= eventSeq)

\* The ring holds recorded events, each once.
Ring == /\ \A k \in DOMAIN ring : Current(ring[k]) \in log
        /\ IsInjective(ring)

\* Nothing is under way to a client that is not connected.
Quiet == \A c \in Clients \ subs : inbox[c] = <<>> /\ out[c] = <<>>

\* What clients know, and what is under way to them, has been recorded.
Recalled ==
  \A c \in Clients : /\ known[c] \subseteq log /\ since[c] \subseteq log
                     /\ lastId[c] \in known[c] \cup {None}
                     /\ \A k \in DOMAIN Transit(c) : Current(Transit(c)[k]) \in log

Numbering == Once /\ Ring /\ Quiet /\ Recalled

-----------------------------------------------------------------------------
(* What is in transit. *)

\* It is a sequence of numbers.
LEMMA TransitType ==
  ASSUME Typed, NEW c \in Clients
  PROVE  /\ Transit(c) \in Seq(Numbers) /\ DOMAIN Transit(c) = 1 .. Len(Transit(c))
         /\ Len(Transit(c)) \in Nat
BY DEF Typed, Channels, Transit

\* As long as the channels are left alone, it stays.
LEMMA TransitStays ==
  ASSUME NEW c \in Clients, inbox'[c] = inbox[c], out'[c] = out[c]
  PROVE  Transit(c)' = Transit(c)
BY DEF Transit

\* The pump does not change it.
LEMMA PumpTransit ==
  ASSUME Typed, NEW c \in Clients, Pump(c), NEW d \in Clients
  PROVE  Transit(d)' = Transit(d)
<1>1. CASE d = c
  <2>1. /\ inbox[c] \in Seq(Numbers) /\ out[c] \in Seq(Numbers) /\ inbox[c] # <<>>
        /\ inbox'[c] = Tail(inbox[c]) /\ out'[c] = Append(out[c], Head(inbox[c]))
    BY DEF Pump, Typed, Channels
  <2> QED
    BY <1>1, <2>1, Handed DEF Transit
<1>2. CASE d # c
  BY <1>2, TransitStays DEF Pump, Typed, Channels
<1> QED
  BY <1>1, <1>2

\* The handler writes its head.
LEMMA WriteTransit ==
  ASSUME Typed, NEW c \in Clients, Write(c)
  PROVE  /\ Transit(c) # <<>> /\ Transit(c)' = Tail(Transit(c)) /\ Head(Transit(c)) = Head(out[c])
         /\ \A d \in Clients : d # c => Transit(d)' = Transit(d)
<1>1. /\ inbox[c] \in Seq(Numbers) /\ out[c] \in Seq(Numbers) /\ out[c] # <<>>
      /\ inbox' = inbox /\ out'[c] = Tail(out[c])
      /\ \A d \in Clients : d # c => out'[d] = out[d]
  BY DEF Write, Typed, Channels
<1>2. \A d \in Clients : d # c => Transit(d)' = Transit(d)
  BY <1>1, TransitStays
<1>3. /\ Tail(out[c]) \o inbox[c] = Tail(out[c] \o inbox[c]) /\ out[c] \o inbox[c] # <<>>
      /\ Head(out[c] \o inbox[c]) = Head(out[c])
  BY <1>1, TailOfBoth
<1> QED
  BY <1>1, <1>2, <1>3 DEF Transit

\* A publish adds to its end, unless the inbox is full.
LEMMA SendTransit ==
  ASSUME Typed, Numbered, NEW p \in Publishers, NEW c \in Clients, Send(p, c)
  PROVE  /\ \/ Transit(c)' = Append(Transit(c), num[p]) /\ UNCHANGED dropped
            \/ Transit(c)' = Transit(c) /\ dropped' = [dropped EXCEPT ![c] = @ \cup {Current(num[p])}]
         /\ \A d \in Clients : d # c => Transit(d)' = Transit(d)
         /\ num[p] \in Numbers
<1>1. inbox[c] \in Seq(Numbers) /\ out[c] \in Seq(Numbers) /\ out' = out
  BY DEF Send, Typed, Channels
<1>2. num[p] \in Numbers
  BY EventsAssumption DEF Send, Typed, TypeOK, Numbered, Numbers
<1>3. CASE inbox' = [inbox EXCEPT ![c] = Append(@, num[p])] /\ UNCHANGED dropped
  <2>1. inbox'[c] = Append(inbox[c], num[p]) /\ \A d \in Clients : d # c => inbox'[d] = inbox[d]
    BY <1>3 DEF Typed, Channels
  <2>2. /\ out[c] \o Append(inbox[c], num[p]) = Append(out[c] \o inbox[c], num[p])
        /\ out[c] \o inbox[c] \in Seq(Numbers)
    BY <1>1, <1>2, AppendToBoth
  <2>3. Transit(c)' = Append(Transit(c), num[p])
    BY <1>1, <2>1, <2>2 DEF Transit
  <2>4. \A d \in Clients : d # c => Transit(d)' = Transit(d)
    BY <1>1, <2>1, TransitStays
  <2> QED
    BY <1>2, <1>3, <2>3, <2>4
<1>4. CASE UNCHANGED inbox /\ dropped' = [dropped EXCEPT ![c] = @ \cup {Current(num[p])}]
  BY <1>1, <1>2, <1>4, TransitStays
<1> QED
  BY <1>3, <1>4 DEF Send

\* A client's Last-Event-ID is of this process.
Here(c) == lastId[c] # None /\ lastId[c][1] = epoch

\* What a client is sent when it connects: nothing, or what the ring holds past the number
\* of the last event that it was sent by this process.
LEMMA SubscribeTransit ==
  ASSUME Typed, Quiet, NEW c \in Clients, Subscribe(c)
  PROVE  /\ \A d \in Clients : d # c => Transit(d)' = Transit(d)
         /\ Transit(c)' \in Seq(Numbers)
         /\ \/ ~Here(c) /\ Transit(c)' = <<>>
            \/ Here(c) /\ lastId[c][2] \in Numbers /\ Transit(c)' \in Replays(lastId[c][2])
<1>1. PICK replay :
        /\ inbox' = [inbox EXCEPT ![c] = replay]
        /\ \/ ~Here(c) /\ replay = <<>>
           \/ Here(c) /\ lastId[c][2] \in Numbers /\ replay \in Replays(lastId[c][2])
  <2>1. lastId[c] # None => lastId[c][2] \in Numbers /\ lastId[c][2] > 0
    BY EventsAssumption DEF Typed, TypeOK, Ids, Numbers
  <2>2. CASE Here(c)
    BY <2>1, <2>2 DEF Subscribe, Here
  <2>3. ASSUME ~Here(c) PROVE inbox' = [inbox EXCEPT ![c] = <<>>]
    <3>1. lastId[c] = None \/ (lastId[c] # None /\ lastId[c][1] # epoch)
      BY <2>3 DEF Here
    <3> DEFINE n == IF lastId[c] = None \/ (lastId[c] # None /\ lastId[c][1] # epoch)
                    THEN 0 ELSE lastId[c][2]
    <3>2. PICK replay \in (IF n > 0 THEN Replays(n) ELSE {<<>>}) : inbox' = [inbox EXCEPT ![c] = replay]
      BY Zenon DEF Subscribe
    <3>3. n = 0 /\ ~(n > 0)
      BY <3>1
    <3> HIDE DEF n
    <3> QED
      BY <3>2, <3>3
  <2> QED
    BY <2>2, <2>3
<1>2. out[c] = <<>> /\ out' = out /\ inbox'[c] = replay
      /\ \A d \in Clients : d # c => inbox'[d] = inbox[d]
  BY <1>1 DEF Subscribe, Quiet, Typed, Channels
<1>3. replay \in Seq(Numbers)
  <2>1. <<>> \in Seq(Numbers) /\ Numbers \subseteq Nat /\ ring \in Seq(Numbers) /\ Len(ring) <= eventRing
    BY EventsAssumption DEF Numbers, Typed, TypeOK
  <2> QED
    BY <1>1, <2>1, Replayed
<1>4. Transit(c)' = replay
  <2>1. <<>> \o replay = replay
    BY <1>3
  <2> QED
    BY <1>2, <2>1 DEF Transit
<1> QED
  BY <1>1, <1>2, <1>3, <1>4, TransitStays

\* A connection that breaks takes it along.
LEMMA UnsubscribeTransit ==
  ASSUME Typed, NEW c \in Clients, Unsubscribe(c)
  PROVE  Transit(c)' = <<>> /\ \A d \in Clients : d # c => Transit(d)' = Transit(d)
<1>1. inbox'[c] = <<>> /\ out'[c] = <<>>
      /\ \A d \in Clients : d # c => inbox'[d] = inbox[d] /\ out'[d] = out[d]
  BY DEF Unsubscribe, Typed, Channels
<1>2. <<>> \o <<>> = <<>>
  OBVIOUS
<1>3. Transit(c)' = <<>>
  BY <1>1, <1>2 DEF Transit
<1> QED
  BY <1>1, <1>3, TransitStays


-----------------------------------------------------------------------------
(* Every step keeps the numbering. *)

\* An identity is its epoch and its number.
LEMMA CurrentIs ==
  ASSUME NEW n
  PROVE  /\ Current(n)[1] = epoch /\ Current(n)[2] = n
         /\ \A k : Current(k) = Current(n) => k = n
BY DEF Current

\* Identities of one process are the same later in it.
LEMMA CurrentStays == ASSUME epoch' = epoch, NEW n PROVE Current(n)' = Current(n)
BY DEF Current

\* At first there is nothing.
LEMMA InitNumbering == Init => Numbering
<1> SUFFICES ASSUME Init PROVE Numbering
  OBVIOUS
<1>1. Once /\ Ring /\ Quiet
  BY DEF Init, Once, Numbered, Ring, Quiet, IsInjective
<1>2. Recalled
  <2>1. \A c \in Clients : Transit(c) = <<>>
    <3>1. <<>> \o <<>> = <<>>
      OBVIOUS
    <3> QED
      BY <3>1 DEF Init, Transit
  <2> QED
    BY <2>1 DEF Init, Recalled
<1> QED
  BY <1>1, <1>2 DEF Numbering

\* As long as the log only grows and the channels stay, what was recorded is.
LEMMA RecalledStays ==
  ASSUME Recalled, log \subseteq log', UNCHANGED <<epoch, inbox, out, lastId, known, since>>
  PROVE  Recalled'
<1>1. \A c \in Clients : Transit(c)' = Transit(c)
  BY TransitStays
<1> QED
  BY <1>1, CurrentStays DEF Recalled

\* A publish takes a number that nothing has.
LEMMA TakeNumberNumbering ==
  ASSUME Typed, Numbering, NEW p \in Publishers, TakeNumber(p)
  PROVE  Numbering'
<1>1. /\ eventSeq' = eventSeq + 1 /\ eventSeq \in Nat /\ at[p] = "idle"
      /\ num' = [num EXCEPT ![p] = eventSeq + 1] /\ at' = [at EXCEPT ![p] = "numbered"]
      /\ UNCHANGED <<epoch, ring, todo, subs, inbox, out, lastId, known, log, since>>
  BY EventsAssumption DEF TakeNumber, Typed, TypeOK, stream, seen, recovery
<1>2. /\ \A q \in Publishers : q # p => num'[q] = num[q] /\ at'[q] = at[q]
      /\ num'[p] = eventSeq + 1 /\ at'[p] = "numbered"
  BY <1>1 DEF Typed, TypeOK
<1>3. Numbered'
  BY <1>1, <1>2 DEF Numbering, Once, Numbered
<1>4. \A q \in Publishers : at'[q] # "sending" => todo'[q] = {}
  BY <1>1, <1>2 DEF Numbering, Once
<1>5. \A q, r \in Publishers : at'[q] # "idle" /\ at'[r] # "idle" /\ num'[q] = num'[r] => q = r
  <2>1. \A q \in Publishers : q # p /\ at[q] # "idle" => num[q] # eventSeq + 1
    BY <1>1 DEF Numbering, Once, Numbered
  <2> QED
    BY <1>1, <1>2, <2>1 DEF Numbering, Once
<1>6. Current(eventSeq + 1) \notin log
  BY <1>1, CurrentIs DEF Numbering, Once, Typed, TypeOK
<1>7. /\ (\A q \in Publishers : at[q] = "numbered" => Current(num[q]) \notin log)'
      /\ (\A q \in Publishers : at[q] = "sending" => Current(num[q]) \in log)'
  BY <1>1, <1>2, <1>6 DEF Numbering, Once, Current
<1>8. \A id \in log' : id[1] < epoch' \/ (id[1] = epoch' /\ id[2] <= eventSeq')
  <2>1. \A id \in log : id[2] \in Nat
    BY EventsAssumption DEF Typed, TypeOK, Ids, Numbers
  <2> QED
    BY <1>1, <2>1 DEF Numbering, Once
<1>9. Ring' /\ Quiet'
  BY <1>1, CurrentStays DEF Numbering, Ring, Quiet
<1>10. Recalled'
  BY <1>1, RecalledStays DEF Numbering
<1> QED
  BY <1>3, <1>4, <1>5, <1>7, <1>8, <1>9, <1>10 DEF Numbering, Once

\* A publish records its event and copies the subscribers.
LEMMA RecordNumbering ==
  ASSUME Typed, Numbering, NEW p \in Publishers, Record(p)
  PROVE  Numbering'
<1>1. /\ at[p] = "numbered" /\ num[p] \in Numbers /\ num[p] \in 1 .. eventSeq /\ eventSeq \in Nat
      /\ log' = log \cup {Current(num[p])}
      /\ at' = [at EXCEPT ![p] = IF subs = {} THEN "idle" ELSE "sending"]
      /\ todo' = [todo EXCEPT ![p] = subs] /\ ring' = Recorded(num[p])
      /\ UNCHANGED <<epoch, eventSeq, num, subs, inbox, out, lastId, known, since>>
  BY EventsAssumption DEF Record, Typed, TypeOK, Numbering, Once, Numbered, Numbers, stream, seen, recovery
<1>2. /\ \A q \in Publishers : q # p => todo'[q] = todo[q] /\ at'[q] = at[q]
      /\ at'[p] = (IF subs = {} THEN "idle" ELSE "sending") /\ todo'[p] = subs
  BY <1>1 DEF Typed, TypeOK
<1>3. Numbered'
  BY <1>1, <1>2 DEF Numbering, Once, Numbered
<1>4. \A q \in Publishers : at'[q] # "sending" => todo'[q] = {}
  BY <1>1, <1>2 DEF Numbering, Once
<1>5. \A q, r \in Publishers : at'[q] # "idle" /\ at'[r] # "idle" /\ num'[q] = num'[r] => q = r
  BY <1>1, <1>2 DEF Numbering, Once
<1>6. (\A q \in Publishers : at[q] = "numbered" => Current(num[q]) \notin log)'
  <2> SUFFICES ASSUME NEW q \in Publishers, at'[q] = "numbered" PROVE Current(num[q]) \notin log'
    BY <1>1 DEF Current
  <2>1. q # p /\ at[q] = "numbered" /\ num[q] # num[p]
    BY <1>1, <1>2 DEF Numbering, Once
  <2> QED
    BY <1>1, <2>1, CurrentIs DEF Numbering, Once
<1>7. (\A q \in Publishers : at[q] = "sending" => Current(num[q]) \in log)'
  BY <1>1, <1>2 DEF Numbering, Once, Current
<1>8. \A id \in log' : id[1] < epoch' \/ (id[1] = epoch' /\ id[2] <= eventSeq')
  BY <1>1, CurrentIs DEF Numbering, Once
<1>9. Ring'
  <2>1. /\ ring \in Seq(Numbers) /\ Len(ring) <= eventRing
        /\ DOMAIN ring = 1 .. Len(ring) /\ Len(ring) \in Nat
    BY DEF Typed, TypeOK
  <2>2. PICK d \in {0, 1} :
          /\ Len(ring') = Len(ring) + 1 - d
          /\ \A i \in 1 .. Len(ring') - 1 : ring'[i] = ring[i + d]
    BY <1>1, <2>1, RecordedRing
  <2>3. /\ ring' \in Seq(Numbers) /\ DOMAIN ring' = 1 .. Len(ring') /\ Len(ring') \in Nat
        /\ ring'[Len(ring')] = num[p]
    BY <1>1, <2>1, RecordedRing
  <2>4. \A i \in 1 .. Len(ring') - 1 : i + d \in DOMAIN ring /\ ring'[i] = ring[i + d]
    <3> DEFINE m == Len(ring') q == Len(ring)
    <3>1. d \in {0, 1} /\ m \in Nat /\ q \in Nat /\ m = q + 1 - d /\ DOMAIN ring = 1 .. q
          /\ \A i \in 1 .. m - 1 : ring'[i] = ring[i + d]
      BY <2>1, <2>2, <2>3
    <3> HIDE DEF m, q
    <3>2. \A i \in 1 .. m - 1 : i + d \in 1 .. q /\ ring'[i] = ring[i + d]
      BY <3>1
    <3> QED
      BY <3>1, <3>2 DEF m
  <2>5. \A k \in DOMAIN ring : ring[k] # num[p]
    <3> SUFFICES ASSUME NEW k \in DOMAIN ring, ring[k] = num[p] PROVE FALSE
      OBVIOUS
    <3> QED
      BY <1>1 DEF Numbering, Once, Ring
  <2>6. (\A k \in DOMAIN ring : Current(ring[k]) \in log)'
    <3> SUFFICES ASSUME NEW k \in DOMAIN ring' PROVE Current(ring'[k]) \in log'
      BY <1>1 DEF Current
    <3>1. CASE k = Len(ring')
      BY <1>1, <2>3, <3>1
    <3>2. CASE k \in 1 .. Len(ring') - 1
      BY <1>1, <2>4, <3>2 DEF Numbering, Ring
    <3> QED
      BY <2>3, <3>1, <3>2
  <2>7. IsInjective(ring)'
    <3> SUFFICES ASSUME NEW i \in DOMAIN ring', NEW j \in DOMAIN ring', ring'[i] = ring'[j], i < j
                 PROVE  FALSE
      BY <2>3 DEF IsInjective
    <3>1. i \in 1 .. Len(ring') - 1 /\ ring'[i] = ring[i + d] /\ i + d \in DOMAIN ring
      BY <2>3, <2>4
    <3>2. CASE j = Len(ring')
      BY <2>3, <2>5, <3>1, <3>2
    <3>3. CASE j \in 1 .. Len(ring') - 1
      <4>1. ring[i + d] = ring[j + d] /\ j + d \in DOMAIN ring
        BY <2>4, <3>1, <3>3
      <4>2. i + d = j + d
        BY <3>1, <4>1 DEF Numbering, Ring, IsInjective
      <4> QED
        BY <2>2, <2>3, <4>2
    <3> QED
      BY <2>3, <3>2, <3>3
  <2> QED
    BY <2>6, <2>7 DEF Ring
<1>10. Quiet'
  BY <1>1 DEF Numbering, Quiet
<1>11. Recalled'
  BY <1>1, RecalledStays DEF Numbering
<1> QED
  BY <1>3, <1>4, <1>5, <1>6, <1>7, <1>8, <1>9, <1>10, <1>11 DEF Numbering, Once


\* Nothing is given a number or recorded by serving subscribers, or losing some.
LEMMA OnceServing ==
  ASSUME Once, UNCHANGED <<epoch, eventSeq, num, log>>,
         \A q \in Publishers : /\ todo'[q] \subseteq todo[q]
                               /\ at'[q] = at[q] \/ (at[q] = "sending" /\ at'[q] = "idle" /\ todo'[q] = {})
  PROVE  Once'
<1>1. Numbered'
  BY DEF Once, Numbered
<1>2. \A q \in Publishers : at'[q] # "sending" => todo'[q] = {}
  BY DEF Once
<1>3. \A q, r \in Publishers : at'[q] # "idle" /\ at'[r] # "idle" /\ num'[q] = num'[r] => q = r
  BY DEF Once
<1>4. /\ (\A q \in Publishers : at[q] = "numbered" => Current(num[q]) \notin log)'
      /\ (\A q \in Publishers : at[q] = "sending" => Current(num[q]) \in log)'
  BY DEF Once, Current
<1>5. (\A id \in log : id[1] < epoch \/ (id[1] = epoch /\ id[2] <= eventSeq))'
  BY DEF Once
<1> QED
  BY <1>1, <1>2, <1>3, <1>4, <1>5 DEF Once

\* The ring stays what it is.
LEMMA RingStays ==
  ASSUME Ring, UNCHANGED <<epoch, ring, log>>
  PROVE  Ring'
BY DEF Ring, Current, IsInjective

\* A publish serves a subscriber.
LEMMA SendNumbering ==
  ASSUME Typed, Numbering, NEW p \in Publishers, NEW c \in Clients, Send(p, c)
  PROVE  Numbering'
<1>1. /\ at[p] = "sending" /\ c \in todo[p]
      /\ todo' = [todo EXCEPT ![p] = @ \ {c}]
      /\ at' = [at EXCEPT ![p] = IF todo[p] = {c} THEN "idle" ELSE "sending"]
      /\ UNCHANGED <<epoch, eventSeq, ring, num, subs, out, lastId, known, log, since>>
  BY DEF Send, seen
<1>2. Once'
  <2>1. \A q \in Publishers :
          /\ todo'[q] \subseteq todo[q]
          /\ at'[q] = at[q] \/ (at[q] = "sending" /\ at'[q] = "idle" /\ todo'[q] = {})
    BY <1>1 DEF Typed, TypeOK
  <2> QED
    BY <1>1, <2>1, OnceServing DEF Numbering
<1>3. Ring'
  BY <1>1, RingStays DEF Numbering
<1>4. Quiet'
  <2>1. c \in subs /\ \A d \in Clients : d # c => inbox'[d] = inbox[d]
    BY <1>1 DEF Typed, TypeOK, Channels, Send
  <2> QED
    BY <1>1, <2>1 DEF Numbering, Quiet
<1>5. Recalled'
  <2>1. \A d \in Clients : d # c => Transit(d)' = Transit(d)
    BY SendTransit DEF Numbering, Once
  <2>2. \A k \in DOMAIN Transit(c)' : <<epoch, Transit(c)'[k]>> \in log
    <3>1. /\ Transit(c) \in Seq(Numbers) /\ num[p] \in Numbers
          /\ \A k \in DOMAIN Transit(c) : <<epoch, Transit(c)[k]>> \in log
          /\ <<epoch, num[p]>> \in log
      BY <1>1, TransitType, SendTransit DEF Numbering, Recalled, Once, Current
    <3>2. Transit(c)' = Transit(c) \/ Transit(c)' = Append(Transit(c), num[p])
      BY SendTransit DEF Numbering, Once
    <3> DEFINE a == Transit(c) b == Transit(c)'
    <3> HIDE DEF a, b
    <3>3. \A k \in DOMAIN b : <<epoch, b[k]>> \in log
      <4>1. a \in Seq(Numbers) /\ (\A k \in DOMAIN a : <<epoch, a[k]>> \in log)
            /\ (b = a \/ b = Append(a, num[p]))
        BY <3>1, <3>2 DEF a, b
      <4>2. CASE b = a
        BY <4>1, <4>2
      <4>3. CASE b = Append(a, num[p])
        <5>1. /\ Len(a) \in Nat /\ DOMAIN a = 1 .. Len(a) /\ DOMAIN b = 1 .. (Len(a) + 1)
              /\ b[Len(a) + 1] = num[p] /\ \A k \in 1 .. Len(a) : b[k] = a[k]
          BY <3>1, <4>1, <4>3
        <5> QED
          BY <3>1, <4>1, <5>1
      <4> QED
        BY <4>1, <4>2, <4>3
    <3> QED
      BY <3>3 DEF b
  <2> QED
    BY <1>1, <2>1, <2>2 DEF Numbering, Recalled, Current
<1> QED
  BY <1>2, <1>3, <1>4, <1>5 DEF Numbering

\* A client connects.
LEMMA SubscribeNumbering ==
  ASSUME Typed, Numbering, NEW c \in Clients, Subscribe(c)
  PROVE  Numbering'
<1>1. /\ UNCHANGED <<epoch, eventSeq, ring, at, num, todo, out, lastId, log>>
      /\ subs' = subs \cup {c} /\ since' = [since EXCEPT ![c] = log]
      /\ known' \in {known, [known EXCEPT ![c] = log]}
  BY DEF Subscribe, publishing, Typed, TypeOK
<1>2. Once'
  BY <1>1, OnceServing DEF Numbering
<1>3. Ring'
  BY <1>1, RingStays DEF Numbering
<1>4. Quiet'
  <2>1. \A d \in Clients : d # c => inbox'[d] = inbox[d]
    BY DEF Typed, Channels, Subscribe
  <2> QED
    BY <1>1, <2>1 DEF Numbering, Quiet
<1>5. Recalled'
  <2>1. \A d \in Clients : d # c => Transit(d)' = Transit(d)
    BY SubscribeTransit DEF Numbering
  <2>2. \A k \in DOMAIN Transit(c)' : <<epoch, Transit(c)'[k]>> \in log
    <3>1. CASE Transit(c)' = <<>>
      BY <3>1
    <3>2. ASSUME NEW n \in Nat, Transit(c)' \in Replays(n)
          PROVE  \A k \in DOMAIN Transit(c)' : <<epoch, Transit(c)'[k]>> \in log
      <4>1. ring \in Seq(Numbers) /\ Len(ring) <= eventRing
        BY DEF Typed, TypeOK
      <4>2. /\ Transit(c)' \in Seq(Numbers)
            /\ \A i \in 1 .. Len(Transit(c)') : \E k \in DOMAIN ring : Transit(c)'[i] = ring[k]
        BY <3>2, <4>1, Replayed
      <4>3. DOMAIN Transit(c)' = 1 .. Len(Transit(c)')
        BY <4>2
      <4> QED
        BY <4>2, <4>3 DEF Numbering, Ring, Current
    <3>3. Numbers \subseteq Nat
      BY EventsAssumption DEF Numbers
    <3> QED
      BY <3>1, <3>2, <3>3, SubscribeTransit DEF Numbering
  <2>3. \A d \in Clients : known'[d] \subseteq log /\ since'[d] \subseteq log /\ lastId[d] \in known'[d] \cup {None}
    <3>1. \A d \in Clients : known[d] \subseteq known'[d] /\ (known'[d] = known[d] \/ known'[d] = log)
      BY <1>1 DEF Typed, TypeOK, Numbering, Recalled
    <3>2. \A d \in Clients : since'[d] = since[d] \/ since'[d] = log
      BY <1>1 DEF Typed, TypeOK
    <3> QED
      BY <3>1, <3>2 DEF Numbering, Recalled
  <2> QED
    BY <1>1, <2>1, <2>2, <2>3 DEF Numbering, Recalled, Current
<1> QED
  BY <1>2, <1>3, <1>4, <1>5 DEF Numbering

\* The pump hands an event on.
LEMMA PumpNumbering ==
  ASSUME Typed, Numbering, NEW c \in Clients, Pump(c)
  PROVE  Numbering'
<1>1. UNCHANGED <<epoch, eventSeq, ring, at, num, todo, subs, lastId, known, log, since>>
  BY DEF Pump, publishing, seen, recovery
<1>2. Once' /\ Ring'
  BY <1>1, OnceServing, RingStays DEF Numbering
<1>3. Quiet'
  <2>1. c \in subs /\ \A d \in Clients : d # c => inbox'[d] = inbox[d] /\ out'[d] = out[d]
    BY DEF Typed, Channels, Pump
  <2> QED
    BY <1>1, <2>1 DEF Numbering, Quiet
<1>4. Recalled'
  BY <1>1, PumpTransit DEF Numbering, Recalled, Current
<1> QED
  BY <1>2, <1>3, <1>4 DEF Numbering

\* The handler writes an event.
LEMMA WriteNumbering ==
  ASSUME Typed, Numbering, NEW c \in Clients, Write(c)
  PROVE  Numbering'
<1>1. /\ UNCHANGED <<epoch, eventSeq, ring, at, num, todo, subs, inbox, log, since>>
      /\ lastId' = [lastId EXCEPT ![c] = Current(Head(out[c]))]
      /\ known' = [known EXCEPT ![c] = @ \cup {Current(Head(out[c]))}]
  BY DEF Write, publishing, recovery
<1>2. Once' /\ Ring'
  BY <1>1, OnceServing, RingStays DEF Numbering
<1>3. Quiet'
  <2>1. c \in subs /\ \A d \in Clients : d # c => out'[d] = out[d]
    BY DEF Typed, Channels, Write
  <2> QED
    BY <1>1, <2>1 DEF Numbering, Quiet
<1>4. Current(Head(out[c])) \in log /\ \A k \in DOMAIN Transit(c)' : <<epoch, Transit(c)'[k]>> \in log
  <2>1. /\ Transit(c) # <<>> /\ Transit(c)' = Tail(Transit(c)) /\ Head(Transit(c)) = Head(out[c])
        /\ Transit(c) \in Seq(Numbers)
        /\ \A k \in DOMAIN Transit(c) : <<epoch, Transit(c)[k]>> \in log
    BY WriteTransit, TransitType DEF Numbering, Recalled, Current
  <2> DEFINE a == Transit(c)
  <2>2. a \in Seq(Numbers) /\ a # <<>> /\ \A k \in DOMAIN a : <<epoch, a[k]>> \in log
    BY <2>1
  <2> HIDE DEF a
  <2>3. <<epoch, Head(a)>> \in log /\ \A k \in DOMAIN Tail(a) : <<epoch, Tail(a)[k]>> \in log
    BY <2>2
  <2> QED
    BY <2>1, <2>3 DEF a, Current
<1>5. Recalled'
  <2>1. \A d \in Clients : d # c => Transit(d)' = Transit(d) /\ lastId'[d] = lastId[d] /\ known'[d] = known[d]
    BY <1>1, WriteTransit DEF Typed, TypeOK
  <2>2. lastId'[c] = Current(Head(out[c])) /\ known'[c] = known[c] \cup {Current(Head(out[c]))}
    BY <1>1 DEF Typed, TypeOK
  <2> QED
    BY <1>1, <1>4, <2>1, <2>2 DEF Numbering, Recalled, Current
<1> QED
  BY <1>2, <1>3, <1>5 DEF Numbering

\* A connection breaks.
LEMMA UnsubscribeNumbering ==
  ASSUME Typed, Numbering, NEW c \in Clients, Unsubscribe(c)
  PROVE  Numbering'
<1>1. /\ UNCHANGED <<epoch, eventSeq, ring, num, lastId, known, log, since>>
      /\ subs' = subs \ {c} /\ todo' = [p \in Publishers |-> todo[p] \ {c}]
      /\ at' = [p \in Publishers |-> IF todo[p] = {c} THEN "idle" ELSE at[p]]
  BY DEF Unsubscribe, seen, recovery
<1>2. Once'
  <2>1. \A q \in Publishers :
          /\ todo'[q] \subseteq todo[q]
          /\ at'[q] = at[q] \/ (at[q] = "sending" /\ at'[q] = "idle" /\ todo'[q] = {})
    BY <1>1 DEF Typed, TypeOK, Numbering, Once
  <2> QED
    BY <1>1, <2>1, OnceServing DEF Numbering
<1>3. Ring'
  BY <1>1, RingStays DEF Numbering
<1>4. Quiet'
  <2>1. /\ \A d \in Clients : d # c => inbox'[d] = inbox[d] /\ out'[d] = out[d]
        /\ inbox'[c] = <<>> /\ out'[c] = <<>>
    BY DEF Typed, Channels, Unsubscribe
  <2> QED
    BY <1>1, <2>1 DEF Numbering, Quiet
<1>5. Recalled'
  BY <1>1, UnsubscribeTransit DEF Numbering, Recalled, Current
<1> QED
  BY <1>2, <1>3, <1>4, <1>5 DEF Numbering

\* A new process numbers from the start, in an epoch of its own.
LEMMA RestartNumbering == ASSUME Typed, Numbering, Restart PROVE Numbering'
<1>1. /\ epoch' = epoch + 1 /\ eventSeq' = 0 /\ ring' = <<>> /\ epoch \in Nat
      /\ at' = [p \in Publishers |-> "idle"] /\ todo' = [p \in Publishers |-> {}]
      /\ inbox' = [c \in Clients |-> <<>>] /\ out' = [c \in Clients |-> <<>>]
      /\ UNCHANGED <<lastId, known, log, since>>
  BY EventsAssumption DEF Restart, seen, recovery, Typed, TypeOK
<1>2. Once'
  <2>1. (\A id \in log : id[1] < epoch \/ (id[1] = epoch /\ id[2] <= eventSeq))'
    BY <1>1 DEF Numbering, Once, Typed, TypeOK, Ids
  <2> QED
    BY <1>1, <2>1 DEF Once, Numbered
<1>3. Ring' /\ Quiet'
  BY <1>1 DEF Ring, IsInjective, Quiet
<1>4. \A c \in Clients : Transit(c)' = <<>>
  <2>1. <<>> \o <<>> = <<>>
    OBVIOUS
  <2> QED
    BY <1>1, <2>1 DEF Transit
<1>5. Recalled'
  BY <1>1, <1>4 DEF Numbering, Recalled
<1> QED
  BY <1>2, <1>3, <1>5 DEF Numbering


-----------------------------------------------------------------------------
(* What a connected client gets. *)

\* An event that is under way to a client, in a channel or owed by a publish.
Sent(c, id) == \E k \in DOMAIN Transit(c) : id = Current(Transit(c)[k])
Due(c, id) == \E q \in Publishers : c \in todo[q] /\ id = Current(num[q])

\* One client's part of StaysInformed and of ReplayThenLive, event by event.
Informed(c) ==
  \A id \in log : id \in since[c] \/ id \in known[c] \/ Sent(c, id) \/ Due(c, id) \/ id \in dropped[c]
Orderly(c) ==
  /\ \A k, l \in DOMAIN Transit(c) : Transit(c)[k] = Transit(c)[l] => k = l
  /\ \A k, l \in DOMAIN Transit(c) :
       k < l /\ Current(Transit(c)[l]) \in since[c] => Current(Transit(c)[k]) \in since[c]
  /\ \A q \in Publishers : c \in todo[q] =>
       /\ Current(num[q]) \notin since[c] /\ Current(num[q]) \notin known[c]
       /\ \A k \in DOMAIN Transit(c) : Transit(c)[k] # num[q]
  /\ \A k \in DOMAIN Transit(c) :
       Current(Transit(c)[k]) \in known[c] => Current(Transit(c)[k]) \in since[c]
Served == \A c \in subs : Informed(c) /\ Orderly(c)

\* What is under way to a client is what is in its channels and what it is owed.
LEMMA UnderwayIs ==
  ASSUME NEW c \in Clients, NEW id
  PROVE  id \in Underway(c) <=> Sent(c, id) \/ Due(c, id)
BY DEF Underway, Owed, ToSet, Sent, Due

\* Together they are the two properties.
LEMMA ServedIs ==
  ASSUME Typed, Served
  PROVE  StaysInformed /\ ReplayThenLive
<1>1. subs \subseteq Clients
  BY DEF Typed, TypeOK
<1>2. StaysInformed
  BY <1>1, UnderwayIs DEF StaysInformed, Served, Informed
<1>3. ASSUME NEW c \in subs
      PROVE  /\ IsInjective(Transit(c))
             /\ \A k, l \in DOMAIN Transit(c) :
                  k < l /\ Current(Transit(c)[l]) \in since[c] => Current(Transit(c)[k]) \in since[c]
             /\ Owed(c) \cap ({Current(n) : n \in ToSet(Transit(c))} \cup since[c]) = {}
             /\ Underway(c) \cap (known[c] \ since[c]) = {}
  <2>1. IsInjective(Transit(c))
    BY DEF Served, Orderly, IsInjective
  <2>2. Owed(c) \cap ({Current(n) : n \in ToSet(Transit(c))} \cup since[c]) = {}
    BY DEF Served, Orderly, Owed, ToSet, Current
  <2>3. Underway(c) \cap (known[c] \ since[c]) = {}
    BY <1>1, UnderwayIs DEF Served, Orderly, Sent, Due
  <2> QED
    BY <2>1, <2>2, <2>3 DEF Served, Orderly
<1> QED
  BY <1>2, <1>3 DEF ReplayThenLive

\* A step of this process that leaves alone what a client knows and what is under way to it.
Untouched(c) ==
  /\ epoch' = epoch /\ Transit(c)' = Transit(c)
  /\ \A q \in Publishers : /\ c \in todo'[q] <=> c \in todo[q]
                           /\ c \in todo[q] => num'[q] = num[q]
  /\ known'[c] = known[c] /\ since'[c] = since[c] /\ dropped'[c] = dropped[c]
  /\ lastId'[c] = lastId[c] /\ (c \in subs' <=> c \in subs) /\ (c \in astray' <=> c \in astray)

\* Then nothing changes for it.
LEMMA UntouchedServed ==
  ASSUME NEW c \in Clients, Untouched(c), log' = log, Informed(c) /\ Orderly(c)
  PROVE  Informed(c)' /\ Orderly(c)'
<1>1. Informed(c)'
  BY DEF Untouched, Informed, Sent, Due, Current
<1>2. Orderly(c)'
  BY DEF Untouched, Orderly, Current
<1> QED
  BY <1>1, <1>2


\* Taking a number touches nobody: the publish owed nobody anything.
LEMMA TakeNumberTouches ==
  ASSUME Typed, Once, NEW p \in Publishers, TakeNumber(p), NEW d \in Clients
  PROVE  Untouched(d) /\ UNCHANGED <<log, ring, subs, jumbled>>
<1>1. UNCHANGED <<epoch, ring, todo, subs, inbox, out, lastId, known, log, since, dropped, astray, jumbled>>
  BY DEF TakeNumber, stream, seen, recovery
<1>2. \A q \in Publishers : d \in todo[q] => num'[q] = num[q]
  BY DEF TakeNumber, Once, Typed, TypeOK
<1> QED
  BY <1>1, <1>2, TransitStays DEF Untouched

\* A publish that serves a client touches no other.
LEMMA SendTouches ==
  ASSUME Typed, Once, NEW p \in Publishers, NEW c \in Clients, Send(p, c), NEW d \in Clients, d # c
  PROVE  Untouched(d) /\ UNCHANGED <<log, ring, subs, jumbled>>
<1>1. UNCHANGED <<epoch, ring, num, subs, lastId, known, log, since, jumbled>>
  BY DEF Send, seen
<1>2. Transit(d)' = Transit(d)
  BY SendTransit DEF Once
<1>3. dropped'[d] = dropped[d]
  BY DEF Send, Typed, TypeOK
<1>4. \A q \in Publishers : d \in todo'[q] <=> d \in todo[q]
  BY DEF Send, Typed, TypeOK
<1>5. d \in astray' <=> d \in astray
  BY DEF Send
<1> QED
  BY <1>1, <1>2, <1>3, <1>4, <1>5 DEF Untouched

\* A client that connects touches no other.
LEMMA SubscribeTouches ==
  ASSUME Typed, Quiet, NEW c \in Clients, Subscribe(c), NEW d \in Clients, d # c
  PROVE  Untouched(d) /\ UNCHANGED <<log, ring, jumbled>>
<1>1. UNCHANGED <<epoch, ring, todo, num, lastId, log, jumbled>> /\ subs' = subs \cup {c}
  BY DEF Subscribe, publishing
<1>2. Transit(d)' = Transit(d)
  BY SubscribeTransit
<1>3. dropped'[d] = dropped[d] /\ known'[d] = known[d] /\ since'[d] = since[d]
  BY DEF Subscribe, Typed, TypeOK
<1>4. d \in astray' <=> d \in astray
  BY DEF Subscribe
<1> QED
  BY <1>1, <1>2, <1>3, <1>4 DEF Untouched

\* The pump touches nobody.
LEMMA PumpTouches ==
  ASSUME Typed, NEW c \in Clients, Pump(c), NEW d \in Clients
  PROVE  Untouched(d) /\ UNCHANGED <<log, ring, subs, jumbled>>
BY PumpTransit DEF Pump, publishing, seen, recovery, Untouched

\* The handler touches its own client.
LEMMA WriteTouches ==
  ASSUME Typed, NEW c \in Clients, Write(c), NEW d \in Clients, d # c
  PROVE  Untouched(d) /\ UNCHANGED <<log, ring, subs, jumbled>>
<1>1. UNCHANGED <<epoch, ring, todo, num, subs, log, since, dropped, astray, jumbled>>
  BY DEF Write, publishing, recovery
<1>2. Transit(d)' = Transit(d)
  BY WriteTransit
<1>3. known'[d] = known[d] /\ lastId'[d] = lastId[d]
  BY DEF Write, Typed, TypeOK
<1> QED
  BY <1>1, <1>2, <1>3 DEF Untouched

\* So does a connection that breaks.
LEMMA UnsubscribeTouches ==
  ASSUME Typed, NEW c \in Clients, Unsubscribe(c), NEW d \in Clients, d # c
  PROVE  Untouched(d) /\ UNCHANGED <<log, ring, jumbled>>
<1>1. /\ UNCHANGED <<epoch, ring, num, lastId, known, log, since, dropped, astray, jumbled>>
      /\ subs' = subs \ {c}
  BY DEF Unsubscribe, seen, recovery
<1>2. Transit(d)' = Transit(d)
  BY UnsubscribeTransit
<1>3. \A q \in Publishers : d \in todo'[q] <=> d \in todo[q]
  BY DEF Unsubscribe
<1> QED
  BY <1>1, <1>2, <1>3 DEF Untouched

\* Recording an event makes the subscribers of the moment owed it, and nobody else anything.
LEMMA RecordTouches ==
  ASSUME Typed, Once, NEW p \in Publishers, Record(p), NEW d \in Clients
  PROVE  /\ Transit(d)' = Transit(d) /\ log' = log \cup {Current(num[p])}
         /\ d \in subs => d \in todo'[p]
         /\ \A q \in Publishers : q # p => todo'[q] = todo[q]
         /\ todo[p] = {} /\ todo'[p] = subs
         /\ UNCHANGED <<epoch, num, subs, lastId, known, since, dropped, astray>>
<1>1. UNCHANGED <<epoch, num, subs, inbox, out, lastId, known, since, dropped, astray>>
  BY DEF Record, stream, seen, recovery
<1>2. /\ \A q \in Publishers : q # p => todo'[q] = todo[q]
      /\ todo[p] = {} /\ todo'[p] = subs /\ log' = log \cup {Current(num[p])}
  BY DEF Record, Once, Typed, TypeOK
<1> QED
  BY <1>1, <1>2, TransitStays

-----------------------------------------------------------------------------
(* Every step keeps clients served. *)

\* An event that is recorded is new, and is owed to every subscriber.
LEMMA RecordServed ==
  ASSUME Typed, Numbering, Served, NEW p \in Publishers, Record(p)
  PROVE  Served'
<1>0. UNCHANGED subs /\ subs \subseteq Clients
  BY DEF Record, stream, Typed, TypeOK
<1> SUFFICES ASSUME NEW c \in Clients, c \in subs PROVE Informed(c)' /\ Orderly(c)'
  BY <1>0 DEF Served
<1>. Informed(c) /\ Orderly(c)
  BY DEF Served
<1>1. /\ Transit(c)' = Transit(c) /\ log' = log \cup {Current(num[p])}
      /\ c \in todo'[p]
      /\ \A q \in Publishers : q # p => todo'[q] = todo[q]
      /\ todo[p] = {} /\ todo'[p] = subs
      /\ UNCHANGED <<epoch, num, subs, lastId, known, since, dropped, astray>>
  BY RecordTouches DEF Numbering
<1>2. Informed(c)'
  BY <1>1 DEF Informed, Sent, Due, Current
<1>3. /\ Current(num[p]) \notin since[c] /\ Current(num[p]) \notin known[c]
      /\ \A k \in DOMAIN Transit(c) : Transit(c)[k] # num[p]
  <2>1. Current(num[p]) \notin log
    BY DEF Record, Numbering, Once
  <2> QED
    BY <2>1 DEF Numbering, Recalled
<1>4. Orderly(c)'
  BY <1>1, <1>3 DEF Orderly, Current
<1> QED
  BY <1>2, <1>4

\* The event a client is owed follows what is in its channels, unless its inbox is full.
LEMMA SendServed ==
  ASSUME Typed, Numbering, Served, NEW p \in Publishers, NEW c \in Clients, Send(p, c)
  PROVE  Served'
<1>1. c \in todo[p] /\ c \in subs /\ UNCHANGED <<epoch, num, subs, log, known, since>>
  BY DEF Send, seen, Typed, TypeOK
<1>2. /\ \A q \in Publishers : q # p => todo'[q] = todo[q]
      /\ c \notin todo'[p]
  BY DEF Send, Typed, TypeOK
<1>3. ASSUME NEW d \in subs, d # c PROVE Informed(d)' /\ Orderly(d)'
  BY <1>3, SendTouches, UntouchedServed DEF Served, Typed, TypeOK, Numbering
<1>4. Informed(c) /\ Orderly(c)
  BY <1>1 DEF Served
<1>5. \A q \in Publishers : c \in todo'[q] => num[q] # num[p] /\ c \in todo[q]
  BY <1>1, <1>2 DEF Numbering, Once
<1>6. CASE Transit(c)' = Append(Transit(c), num[p]) /\ UNCHANGED dropped
  <2> DEFINE a == Transit(c) b == Transit(c)'
  <2>1. /\ DOMAIN a = 1 .. Len(a) /\ Len(a) \in Nat /\ DOMAIN b = 1 .. (Len(a) + 1)
        /\ b[Len(a) + 1] = num[p] /\ \A k \in 1 .. Len(a) : b[k] = a[k]
    <3>1. Transit(c) \in Seq(Numbers) /\ num[p] \in Numbers
      BY TransitType, SendTransit DEF Numbering, Once
    <3> QED
      BY <1>6, <3>1
  <2>2. Informed(c)'
    <3> SUFFICES ASSUME NEW id \in log
                 PROVE  id \in since[c] \/ id \in known[c] \/ Sent(c, id)' \/ Due(c, id)' \/ id \in dropped[c]
      BY <1>1, <1>6 DEF Informed, Sent, Due, Current
    <3>1. CASE Sent(c, id)
      BY <1>1, <2>1, <3>1 DEF Sent, Current
    <3>2. CASE Due(c, id)
      <4>1. CASE id = Current(num[p])
        BY <1>1, <2>1, <4>1 DEF Sent, Current
      <4>2. CASE id # Current(num[p])
        BY <1>1, <1>2, <3>2, <4>2 DEF Due, Current
      <4> QED
        BY <4>1, <4>2
    <3> QED
      BY <1>4, <3>1, <3>2 DEF Informed
  <2>3. /\ \A k \in DOMAIN a : a[k] # num[p]
        /\ Current(num[p]) \notin since[c] /\ Current(num[p]) \notin known[c]
    BY <1>1, <1>4 DEF Orderly
  <2>4. \A k, l \in DOMAIN b : b[k] = b[l] => k = l
    <3>1. \A k, l \in 1 .. Len(a) : a[k] = a[l] => k = l
      BY <1>4, <2>1 DEF Orderly
    <3>2. \A k \in 1 .. Len(a) : a[k] # num[p]
      BY <2>1, <2>3
    <3> HIDE DEF a, b
    <3> QED
      BY <2>1, <3>1, <3>2
  <2>5. \A k, l \in DOMAIN b : k < l /\ Current(b[l]) \in since[c] => Current(b[k]) \in since[c]
    <3>1. \A k, l \in 1 .. Len(a) : k < l /\ Current(a[l]) \in since[c] => Current(a[k]) \in since[c]
      BY <1>4, <2>1 DEF Orderly
    <3> HIDE DEF a, b
    <3> QED
      BY <2>1, <2>3, <3>1
  <2>6. \A q \in Publishers : c \in todo'[q] =>
          /\ Current(num[q]) \notin since[c] /\ Current(num[q]) \notin known[c]
          /\ \A k \in DOMAIN b : b[k] # num[q]
    <3>1. \A q \in Publishers : c \in todo'[q] =>
            /\ Current(num[q]) \notin since[c] /\ Current(num[q]) \notin known[c]
            /\ num[q] # num[p] /\ \A k \in 1 .. Len(a) : a[k] # num[q]
      BY <1>4, <1>5, <2>1 DEF Orderly
    <3> HIDE DEF a, b
    <3> QED
      BY <2>1, <3>1
  <2>7. \A k \in DOMAIN b : Current(b[k]) \in known[c] => Current(b[k]) \in since[c]
    <3>1. \A k \in 1 .. Len(a) : Current(a[k]) \in known[c] => Current(a[k]) \in since[c]
      BY <1>4, <2>1 DEF Orderly
    <3> HIDE DEF a, b
    <3> QED
      BY <2>1, <2>3, <3>1
  <2>8. Orderly(c)'
    BY <1>1, <2>4, <2>5, <2>6, <2>7 DEF Orderly, Current
  <2> QED
    BY <1>1, <1>3, <2>2, <2>8 DEF Served
<1>7. CASE Transit(c)' = Transit(c) /\ dropped' = [dropped EXCEPT ![c] = @ \cup {Current(num[p])}]
  <2>1. dropped'[c] = dropped[c] \cup {Current(num[p])}
    BY <1>7 DEF Typed, TypeOK
  <2>2. Informed(c)'
    <3> SUFFICES ASSUME NEW id \in log
                 PROVE  id \in since[c] \/ id \in known[c] \/ Sent(c, id)' \/ Due(c, id)' \/ id \in dropped'[c]
      BY <1>1 DEF Informed, Sent, Due, Current
    <3>1. CASE Due(c, id)
      BY <1>1, <1>2, <2>1, <3>1 DEF Due, Current
    <3>2. CASE Sent(c, id)
      BY <1>1, <1>7, <3>2 DEF Sent, Current
    <3> QED
      BY <1>4, <2>1, <3>1, <3>2 DEF Informed
  <2>3. Orderly(c)'
    BY <1>1, <1>4, <1>5, <1>7 DEF Orderly, Current
  <2> QED
    BY <1>1, <1>3, <2>2, <2>3 DEF Served
<1> QED
  BY <1>6, <1>7, SendTransit DEF Numbering, Once


\* What a client is replayed was recorded before it connected, and it is owed nothing yet.
LEMMA SubscribeServed ==
  ASSUME Typed, Numbering, Served, NEW c \in Clients, Subscribe(c)
  PROVE  Served'
<1>1. /\ subs' = subs \cup {c} /\ subs \subseteq Clients /\ c \notin subs
      /\ UNCHANGED <<epoch, ring, num, todo, log>> /\ since'[c] = log
  BY DEF Subscribe, publishing, Typed, TypeOK
<1>2. ASSUME NEW d \in subs PROVE Informed(d)' /\ Orderly(d)'
  BY <1>1, SubscribeTouches, UntouchedServed DEF Served, Numbering
<1>3. Informed(c)'
  BY <1>1 DEF Informed
<1>4. \A q \in Publishers : c \notin todo[q]
  BY <1>1 DEF Typed, TypeOK
<1>5. Recalled'
  BY SubscribeNumbering DEF Numbering
<1>6. \A k \in DOMAIN Transit(c)' : <<epoch, Transit(c)'[k]>> \in log
  BY <1>1, <1>5 DEF Recalled, Current
<1>7. \A k, l \in DOMAIN Transit(c)' : Transit(c)'[k] = Transit(c)'[l] => k = l
  <2>1. CASE Transit(c)' = <<>>
    BY <2>1
  <2>2. ASSUME NEW n \in Nat, Transit(c)' \in Replays(n)
        PROVE  \A k, l \in DOMAIN Transit(c)' : Transit(c)'[k] = Transit(c)'[l] => k = l
    <3> DEFINE b == Transit(c)'
    <3>1. ring \in Seq(Numbers) /\ Len(ring) <= eventRing
      BY DEF Typed, TypeOK
    <3>2. PICK f \in [1 .. Len(b) -> DOMAIN ring] :
            /\ \A i, j \in 1 .. Len(b) : i < j => f[i] < f[j]
            /\ \A i \in 1 .. Len(b) : b[i] = ring[f[i]]
      BY <2>2, <3>1, Replayed
    <3>3. b \in Seq(Numbers) /\ DOMAIN b = 1 .. Len(b) /\ Len(b) \in Nat
      BY <2>2, <3>1, Replayed
    <3>4. \A i, j \in DOMAIN ring : ring[i] = ring[j] => i = j
      BY DEF Numbering, Ring, IsInjective
    <3>5. DOMAIN ring \subseteq Nat
      BY <3>1
    <3> HIDE DEF b
    <3>6. ASSUME NEW k \in 1 .. Len(b), NEW l \in 1 .. Len(b), b[k] = b[l] PROVE k = l
      <4>1. f[k] = f[l] /\ f[k] \in Nat
        BY <3>2, <3>4, <3>5, <3>6
      <4>2. ~(k < l) /\ ~(l < k)
        BY <3>2, <4>1
      <4> QED
        BY <3>3, <4>2
    <3> QED
      BY <3>3, <3>6 DEF b
  <2>3. Numbers \subseteq Nat
    BY EventsAssumption DEF Numbers
  <2> QED
    BY <2>1, <2>2, <2>3, SubscribeTransit DEF Numbering
<1>8. Orderly(c)'
  BY <1>1, <1>4, <1>6, <1>7 DEF Orderly, Current
<1> QED
  BY <1>1, <1>2, <1>3, <1>8 DEF Served

\* The pump changes nothing.
LEMMA PumpServed ==
  ASSUME Typed, Served, NEW c \in Clients, Pump(c)
  PROVE  Served'
BY PumpTouches, UntouchedServed DEF Served, Typed, TypeOK

\* The client is sent the next event, once.
LEMMA WriteServed ==
  ASSUME Typed, Numbering, Served, NEW c \in Clients, Write(c)
  PROVE  Served'
<1>1. /\ c \in subs /\ subs \subseteq Clients
      /\ UNCHANGED <<epoch, num, todo, subs, log, since, dropped>>
  BY DEF Write, publishing, recovery, Typed, TypeOK
<1>2. ASSUME NEW d \in subs, d # c PROVE Informed(d)' /\ Orderly(d)'
  BY <1>1, <1>2, WriteTouches, UntouchedServed DEF Served
<1>3. Informed(c) /\ Orderly(c)
  BY <1>1 DEF Served
<1> DEFINE a == Transit(c) b == Transit(c)'
<1>4. /\ DOMAIN a = 1 .. Len(a) /\ Len(a) \in Nat \ {0}
      /\ DOMAIN b = 1 .. (Len(a) - 1) /\ \A k \in 1 .. (Len(a) - 1) : b[k] = a[k + 1]
      /\ Head(out[c]) = a[1]
  <2>1. /\ Transit(c) # <<>> /\ Transit(c)' = Tail(Transit(c)) /\ Head(Transit(c)) = Head(out[c])
        /\ Transit(c) \in Seq(Numbers)
    BY WriteTransit, TransitType
  <2> DEFINE t == Transit(c)
  <2>2. t \in Seq(Numbers) /\ t # <<>>
    BY <2>1
  <2> HIDE DEF t
  <2>3. /\ DOMAIN t = 1 .. Len(t) /\ Len(t) \in Nat \ {0}
        /\ DOMAIN Tail(t) = 1 .. (Len(t) - 1) /\ \A k \in 1 .. (Len(t) - 1) : Tail(t)[k] = t[k + 1]
        /\ Head(t) = t[1]
    BY <2>2
  <2> QED
    BY <2>1, <2>3 DEF t
<1>5. known'[c] = known[c] \cup {Current(a[1])}
  BY <1>4 DEF Write, Typed, TypeOK
<1>6. Informed(c)'
  <2> SUFFICES ASSUME NEW id \in log
               PROVE  id \in since[c] \/ id \in known'[c] \/ Sent(c, id)' \/ Due(c, id)' \/ id \in dropped[c]
    BY <1>1 DEF Informed, Sent, Due, Current
  <2>1. CASE Due(c, id)
    BY <1>1, <2>1 DEF Due, Current
  <2>2. CASE Sent(c, id)
    <3>1. PICK k \in DOMAIN a : id = Current(a[k])
      BY <2>2 DEF Sent
    <3>2. CASE k = 1
      BY <1>5, <3>1, <3>2
    <3>3. CASE k # 1
      <4>1. k - 1 \in DOMAIN b /\ b[k - 1] = a[k]
        <5> HIDE DEF a, b
        <5> QED
          BY <1>4, <3>1, <3>3
      <4> QED
        BY <1>1, <3>1, <4>1 DEF Sent, Current
    <3> QED
      BY <3>2, <3>3
  <2> QED
    BY <1>3, <1>5, <2>1, <2>2 DEF Informed
<1>7. \A k, l \in DOMAIN a : a[k] = a[l] => k = l
  BY <1>3 DEF Orderly
<1>8. \A k \in DOMAIN b : b[k] # a[1] /\ k + 1 \in DOMAIN a /\ b[k] = a[k + 1]
  <2> HIDE DEF a, b
  <2> QED
    BY <1>4, <1>7
<1>9. \A k, l \in DOMAIN b : b[k] = b[l] => k = l
  <2> SUFFICES ASSUME NEW k \in DOMAIN b, NEW l \in DOMAIN b, b[k] = b[l] PROVE k = l
    OBVIOUS
  <2>1. k + 1 = l + 1
    BY <1>7, <1>8
  <2>2. k \in Nat /\ l \in Nat
    BY <1>4
  <2> QED
    BY <2>1, <2>2
<1>10. \A k, l \in DOMAIN b : k < l /\ Current(b[l]) \in since[c] => Current(b[k]) \in since[c]
  <2>1. \A k, l \in DOMAIN a : k < l /\ Current(a[l]) \in since[c] => Current(a[k]) \in since[c]
    BY <1>3 DEF Orderly
  <2>2. \A k, l \in DOMAIN b : k < l => k + 1 < l + 1
    BY <1>4
  <2> QED
    BY <1>8, <2>1, <2>2
<1>11. \A q \in Publishers : c \in todo[q] =>
         /\ Current(num[q]) \notin since[c] /\ Current(num[q]) \notin known'[c]
         /\ \A k \in DOMAIN b : b[k] # num[q]
  <2> SUFFICES ASSUME NEW q \in Publishers, c \in todo[q]
               PROVE  /\ Current(num[q]) \notin since[c] /\ Current(num[q]) \notin known'[c]
                      /\ \A k \in DOMAIN b : b[k] # num[q]
    OBVIOUS
  <2>1. /\ Current(num[q]) \notin since[c] /\ Current(num[q]) \notin known[c]
        /\ \A k \in DOMAIN a : a[k] # num[q]
    BY <1>3 DEF Orderly
  <2>2. 1 \in DOMAIN a
    BY <1>4
  <2>3. Current(num[q]) # Current(a[1])
    BY <2>1, <2>2, CurrentIs
  <2> QED
    BY <1>5, <1>8, <2>1, <2>3
<1>12. \A k \in DOMAIN b : Current(b[k]) \in known'[c] => Current(b[k]) \in since[c]
  <2>1. \A k \in DOMAIN a : Current(a[k]) \in known[c] => Current(a[k]) \in since[c]
    BY <1>3 DEF Orderly
  <2>2. \A k \in DOMAIN b : Current(b[k]) # Current(a[1])
    BY <1>8, CurrentIs
  <2> QED
    BY <1>5, <1>8, <2>1, <2>2
<1>13. Orderly(c)'
  BY <1>1, <1>9, <1>10, <1>11, <1>12 DEF Orderly, Current
<1> QED
  BY <1>1, <1>2, <1>6, <1>13 DEF Served

\* The other connections go on.
LEMMA UnsubscribeServed ==
  ASSUME Typed, Served, NEW c \in Clients, Unsubscribe(c)
  PROVE  Served'
<1>1. subs' = subs \ {c} /\ subs \subseteq Clients
  BY DEF Unsubscribe, Typed, TypeOK
<1> QED
  BY <1>1, UnsubscribeTouches, UntouchedServed DEF Served


-----------------------------------------------------------------------------
(* Resuming. *)

\* As long as publishes of this process were recorded in the order of their numbers ...
InStep == epoch \notin jumbled

\* ... the ring is in that order, and holds all there is from its oldest number on.
RingInOrder == InStep =>
  /\ \A i, j \in DOMAIN ring : i < j => ring[i] < ring[j]
  /\ \A n \in Numbers : Current(n) \in log => n \in ToSet(ring) \/ (ring # <<>> /\ n < ring[1])

\* A client that is connected, or was sent an event by this process, knows everything
\* from before this process: told so by its foreign or absent Last-Event-ID, it fetched.
Earlier ==
  \A c \in Clients : c \in subs \/ Here(c) => \A id \in log : id[1] # epoch => id \in known[c]

\* A client whose events came in order and were not dropped ...
Whole(c) == dropped[c] = {} /\ c \notin astray /\ InStep

\* ... has only newer events under way than it was sent, in the order of their numbers ...
Past(c, n) == Here(c) => lastId[c][2] < n
Rising(c) ==
  /\ \A k, l \in DOMAIN Transit(c) : k < l => Transit(c)[k] < Transit(c)[l]
  /\ \A k \in DOMAIN Transit(c) : Past(c, Transit(c)[k])
  /\ \A q \in Publishers : c \in todo[q] =>
       Past(c, num[q]) /\ \A k \in DOMAIN Transit(c) : Transit(c)[k] < num[q]
InOrder == \A c \in subs : Whole(c) => Rising(c)

\* ... and, connected or not, knows all there is up to its Last-Event-ID.
UpToDate(c) ==
  Here(c) => \A n \in Numbers : Current(n) \in log /\ n <= lastId[c][2] => Current(n) \in known[c]
Caught == \A c \in Clients : Whole(c) => UpToDate(c)

\* What it misses is what the ring holds past its Last-Event-ID, or under way.
Complete(c) == \A id \in log : id \in known[c] \/ Sent(c, id) \/ Due(c, id)
Resuming == RingInOrder /\ Earlier /\ InOrder /\ Caught /\ \A c \in subs : Whole(c) => Complete(c)

\* It implies the property.
LEMMA ResumingIs ==
  ASSUME Typed, Resuming
  PROVE  ResumesInformed
<1>1. subs \subseteq Clients
  BY DEF Typed, TypeOK
<1> QED
  BY <1>1, UnderwayIs DEF Resuming, Complete, ResumesInformed, Whole, InStep

\* At first there is nothing.
LEMMA InitResuming == Init => Resuming
BY DEF Init, Resuming, RingInOrder, Earlier, InOrder, Caught, UpToDate, Here, Whole, ToSet

\* A step that touches a client in no way leaves its part alone.
LEMMA UntouchedResuming ==
  ASSUME NEW c \in Clients, Untouched(c), log' = log, jumbled' = jumbled
  PROVE  /\ Here(c)' <=> Here(c)
         /\ Whole(c)' <=> Whole(c)
         /\ Rising(c) => Rising(c)'
         /\ UpToDate(c) => UpToDate(c)'
         /\ Complete(c) => Complete(c)'
<1>1. Here(c)' <=> Here(c)
  BY DEF Untouched, Here
<1>2. Whole(c)' <=> Whole(c)
  BY DEF Untouched, Whole, InStep
<1>3. Rising(c) => Rising(c)'
  BY DEF Untouched, Rising, Past, Here
<1>4. UpToDate(c) => UpToDate(c)'
  BY DEF Untouched, UpToDate, Here, Current
<1>5. Complete(c) => Complete(c)'
  BY DEF Untouched, Complete, Sent, Due, Current
<1> QED
  BY <1>1, <1>2, <1>3, <1>4, <1>5

\* The ring is as it was.
LEMMA RingStaysInOrder ==
  ASSUME RingInOrder, UNCHANGED <<epoch, ring, log, jumbled>>
  PROVE  RingInOrder'
BY DEF RingInOrder, InStep, Current

\* Steps that leave all clients but one alone, and the ring, leave the rest of it alone.
LEMMA OthersResume ==
  ASSUME Typed, Resuming, NEW c \in Clients, UNCHANGED <<epoch, ring, log, jumbled>>,
         \A d \in Clients : d # c => Untouched(d),
         subs' \subseteq Clients,
         c \in subs' \/ Here(c)' => \A id \in log : id[1] # epoch => id \in known'[c],
         Whole(c)' => /\ UpToDate(c)'
                      /\ c \in subs' => Rising(c)' /\ Complete(c)'
  PROVE  Resuming'
<1>1. RingInOrder'
  BY RingStaysInOrder DEF Resuming
<1>2. ASSUME NEW d \in Clients, d # c
      PROVE  /\ d \in subs' <=> d \in subs
             /\ Here(d)' <=> Here(d)
             /\ known'[d] = known[d]
             /\ Whole(d)' => UpToDate(d)'
             /\ d \in subs' /\ Whole(d)' => Rising(d)' /\ Complete(d)'
  <2>1. Untouched(d)
    BY <1>2
  <2>2. d \in subs' <=> d \in subs
    BY <2>1 DEF Untouched
  <2>3. known'[d] = known[d]
    BY <2>1 DEF Untouched
  <2> QED
    BY <2>1, <2>2, <2>3, UntouchedResuming DEF Resuming, InOrder, Caught
<1>3. Earlier'
  BY <1>2 DEF Resuming, Earlier
<1>4. InOrder'
  BY <1>2 DEF InOrder
<1>5. Caught'
  BY <1>2 DEF Caught
<1>6. (\A d \in subs : Whole(d) => Complete(d))'
  BY <1>2
<1> QED
  BY <1>1, <1>3, <1>4, <1>5, <1>6 DEF Resuming


\* Steps that leave all clients and the ring alone leave all of it alone.
LEMMA NobodyResumes ==
  ASSUME Typed, Resuming, UNCHANGED <<epoch, ring, log, jumbled, subs>>, \A d \in Clients : Untouched(d)
  PROVE  Resuming'
<1>1. RingInOrder'
  BY RingStaysInOrder DEF Resuming
<1>2. ASSUME NEW d \in Clients
      PROVE  /\ Here(d)' <=> Here(d)
             /\ known'[d] = known[d]
             /\ Whole(d)' => UpToDate(d)'
             /\ d \in subs' /\ Whole(d)' => Rising(d)' /\ Complete(d)'
  <2>1. Untouched(d)
    OBVIOUS
  <2>2. d \in subs' <=> d \in subs
    OBVIOUS
  <2>3. known'[d] = known[d]
    BY <2>1 DEF Untouched
  <2> QED
    BY <2>1, <2>2, <2>3, UntouchedResuming DEF Resuming, InOrder, Caught
<1>3. Earlier'
  BY <1>2 DEF Resuming, Earlier
<1>4. subs' \subseteq Clients
  BY DEF Typed, TypeOK
<1>5. InOrder' /\ Caught'
  BY <1>2, <1>4 DEF InOrder, Caught
<1>6. (\A d \in subs : Whole(d) => Complete(d))'
  BY <1>2, <1>4
<1> QED
  BY <1>1, <1>3, <1>5, <1>6 DEF Resuming

\* Taking a number changes nothing.
LEMMA TakeNumberResuming ==
  ASSUME Typed, Once, Resuming, NEW p \in Publishers, TakeNumber(p)
  PROVE  Resuming'
<1>1. UNCHANGED <<epoch, ring, log, jumbled, subs>>
  BY DEF TakeNumber, stream
<1> QED
  BY <1>1, NobodyResumes, TakeNumberTouches

\* Nor does the pump.
LEMMA PumpResuming ==
  ASSUME Typed, Resuming, NEW c \in Clients, Pump(c)
  PROVE  Resuming'
<1>1. UNCHANGED <<epoch, ring, log, jumbled, subs>>
  BY DEF Pump
<1> QED
  BY <1>1, NobodyResumes, PumpTouches

\* A Last-Event-ID of this process is a recorded number of it.
LEMMA HereIs ==
  ASSUME Typed, Numbering, NEW c \in Clients, Here(c)
  PROVE  lastId[c][2] \in Numbers /\ lastId[c] = Current(lastId[c][2]) /\ lastId[c] \in known[c] /\ lastId[c] \in log
<1>1. lastId[c] \in Ids /\ lastId[c] \in known[c] /\ lastId[c] \in log
  BY DEF Typed, TypeOK, Numbering, Recalled, Here
<1> QED
  BY <1>1 DEF Here, Ids, Current

\* An event that is recorded in step is newer than all there are.
LEMMA RecordedInStep ==
  ASSUME Typed, Numbering, NEW p \in Publishers, Record(p), InStep'
  PROVE  InStep /\ \A n \in Numbers : Current(n) \in log => n < num[p]
<1>1. InStep /\ ~ \E n \in num[p] .. MaxSeq : Current(n) \in log
  BY DEF Record, InStep
<1>2. num[p] \in Int /\ MaxSeq \in Nat
  BY EventsAssumption DEF Typed, TypeOK
<1> QED
  BY <1>1, <1>2 DEF Numbers

\* Then the ring stays in order, and only its oldest number is gone.
LEMMA RecordRing ==
  ASSUME Typed, Numbering, RingInOrder, NEW p \in Publishers, Record(p)
  PROVE  RingInOrder'
<1> SUFFICES ASSUME InStep'
             PROVE  /\ \A i, j \in DOMAIN ring' : i < j => ring'[i] < ring'[j]
                    /\ \A n \in Numbers : <<epoch, n>> \in log' =>
                         n \in ToSet(ring') \/ (ring' # <<>> /\ n < ring'[1])
  BY DEF RingInOrder, Current, Record, Numbers
<1>1. /\ ring \in Seq(Numbers) /\ Len(ring) <= eventRing /\ ring' = Recorded(num[p])
      /\ num[p] \in Numbers /\ log' = log \cup {<<epoch, num[p]>>}
  BY EventsAssumption DEF Record, Typed, TypeOK, Numbering, Once, Numbered, Numbers, Current
<1>2. InStep /\ \A n \in Numbers : <<epoch, n>> \in log => n < num[p]
  BY RecordedInStep DEF Current
<1> DEFINE m == Len(ring') q == Len(ring)
<1>3. PICK d \in {0, 1} :
        /\ m = q + 1 - d
        /\ \A i \in 1 .. m - 1 : ring'[i] = ring[i + d]
        /\ d = 1 => ring # <<>>
  BY <1>1, RecordedRing
<1>4. /\ ring' \in Seq(Numbers) /\ ring' # <<>> /\ DOMAIN ring' = 1 .. m /\ m \in Nat \ {0}
      /\ ring'[m] = num[p] /\ DOMAIN ring = 1 .. q /\ q \in Nat
  <2>1. ring' \in Seq(Numbers) /\ ring' # <<>> /\ ring'[Len(ring')] = num[p]
    BY <1>1, RecordedRing
  <2> QED
    BY <1>1, <2>1
<1>5. /\ \A k \in 1 .. q : ring[k] \in Numbers /\ ring[k] < num[p]
      /\ \A i, j \in 1 .. q : i < j => ring[i] < ring[j]
      /\ \A n \in Numbers : <<epoch, n>> \in log => (\E k \in 1 .. q : n = ring[k]) \/ (q > 0 /\ n < ring[1])
      /\ d = 1 => q > 0
      /\ Numbers \subseteq Nat
  <2>1. \A k \in 1 .. q : ring[k] \in Numbers /\ ring[k] < num[p]
    <3> SUFFICES ASSUME NEW k \in DOMAIN ring PROVE ring[k] \in Numbers /\ ring[k] < num[p]
      BY <1>4
    <3>1. ring[k] \in Numbers
      BY <1>1
    <3>2. <<epoch, ring[k]>> \in log
      BY DEF Numbering, Ring, Current
    <3> QED
      BY <1>2, <3>1, <3>2
  <2>2. \A i, j \in 1 .. q : i < j => ring[i] < ring[j]
    BY <1>2, <1>4 DEF RingInOrder
  <2>3. ring # <<>> => q > 0
    BY <1>1
  <2>4. \A n \in Numbers : <<epoch, n>> \in log => (\E k \in 1 .. q : n = ring[k]) \/ (q > 0 /\ n < ring[1])
    BY <1>2, <1>4, <2>3 DEF RingInOrder, ToSet, Current
  <2>5. Numbers \subseteq Nat
    BY EventsAssumption DEF Numbers
  <2> QED
    BY <1>3, <2>1, <2>2, <2>3, <2>4, <2>5
<1> HIDE DEF m, q
<1>6. \A i \in 1 .. m - 1 : i + d \in 1 .. q /\ ring'[i] = ring[i + d]
  BY <1>3, <1>4
<1>7. \A i, j \in DOMAIN ring' : i < j => ring'[i] < ring'[j]
  <2> SUFFICES ASSUME NEW i \in 1 .. m, NEW j \in 1 .. m, i < j PROVE ring'[i] < ring'[j]
    BY <1>4
  <2>1. i \in 1 .. m - 1 /\ ring'[i] = ring[i + d] /\ i + d \in 1 .. q
    BY <1>4, <1>6
  <2>2. CASE j = m
    BY <1>4, <1>5, <2>1, <2>2
  <2>3. CASE j # m
    <3>1. j \in 1 .. m - 1 /\ ring'[j] = ring[j + d] /\ j + d \in 1 .. q /\ i + d < j + d
      BY <1>3, <1>4, <1>6, <2>3
    <3> QED
      BY <1>5, <2>1, <3>1
  <2> QED
    BY <2>2, <2>3
<1>8. \A n \in Numbers : <<epoch, n>> \in log' => n \in ToSet(ring') \/ n < ring'[1]
  <2> SUFFICES ASSUME NEW n \in Numbers, <<epoch, n>> \in log'
               PROVE  (\E k \in 1 .. m : ring'[k] = n) \/ n < ring'[1]
    BY <1>4 DEF ToSet
  <2>1. CASE n = num[p]
    BY <1>4, <2>1
  <2>2. CASE n # num[p]
    <3>1. <<epoch, n>> \in log /\ n < num[p] /\ n \in Nat
      BY <1>1, <1>2, <1>5, <2>2
    <3>2. ring'[1] = num[p] \/ (1 + d \in 1 .. q /\ ring'[1] = ring[1 + d])
      BY <1>4, <1>6
    <3>3. CASE \E k \in 1 .. q : n = ring[k]
      <4>1. PICK k \in 1 .. q : n = ring[k]
        BY <3>3
      <4>2. CASE k > d
        <5>1. k - d \in 1 .. m - 1
          BY <1>3, <1>4, <4>2
        <5>2. ring'[k - d] = ring[(k - d) + d] /\ (k - d) + d = k
          BY <1>3, <1>4, <1>6, <5>1
        <5>3. k - d \in 1 .. m
          BY <1>4, <5>1
        <5> QED
          BY <4>1, <5>2, <5>3
      <4>3. CASE ~(k > d)
        <5>1. k = 1 /\ d = 1
          BY <1>3, <1>4, <4>3
        <5>2. 1 + d \in 1 .. q => ring[1] < ring[1 + d]
          BY <1>4, <1>5, <5>1
        <5> QED
          BY <3>1, <3>2, <4>1, <5>1, <5>2
      <4> QED
        BY <4>2, <4>3
    <3>4. CASE q > 0 /\ n < ring[1]
      <4>1. 1 + d \in 1 .. q => ring[1] <= ring[1 + d] /\ ring[1] \in Nat /\ ring[1 + d] \in Nat
        <5>1. \A k \in 1 .. q : ring[k] \in Nat
          BY <1>5
        <5>2. 1 \in 1 .. q
          BY <1>4, <3>4
        <5>3. ring[1] \in Nat
          BY <5>1, <5>2
        <5>4. CASE d = 0
          BY <5>4, <5>3
        <5>5. CASE d = 1
          <6>1. ASSUME 2 \in 1 .. q PROVE ring[1] < ring[2] /\ ring[2] \in Nat
            <7>1. \A i, j \in 1 .. q : i < j => ring[i] < ring[j]
              BY <1>5
            <7>2. 1 < 2
              OBVIOUS
            <7> QED
              BY <5>1, <5>2, <6>1, <7>1, <7>2
          <6> QED
            BY <5>5, <5>3, <6>1
        <5> QED
          BY <1>3, <5>4, <5>5
      <4> QED
        BY <3>1, <3>2, <3>4, <4>1
    <3> QED
      BY <1>5, <3>1, <3>3, <3>4
  <2> QED
    BY <2>1, <2>2
<1> QED
  BY <1>4, <1>7, <1>8


\* A recorded event leaves clients in order and up to date.
LEMMA RecordResuming ==
  ASSUME Typed, Numbering, Resuming, NEW p \in Publishers, Record(p)
  PROVE  Resuming'
<1>1. /\ UNCHANGED <<epoch, num, subs, lastId, known, since, dropped, astray>>
      /\ log' = log \cup {Current(num[p])}
      /\ \A q \in Publishers : q # p => todo'[q] = todo[q]
      /\ todo'[p] = subs /\ todo[p] = {}
      /\ num[p] \in Numbers /\ subs \subseteq Clients
  BY EventsAssumption DEF Record, stream, seen, recovery, Typed, TypeOK, Numbering, Once, Numbered, Numbers
<1>2. \A d \in Clients : Transit(d)' = Transit(d)
  BY RecordTouches DEF Numbering
<1>3. RingInOrder'
  BY RecordRing DEF Resuming
<1>4. Earlier'
  <2>1. Current(num[p])[1] = epoch
    BY CurrentIs
  <2> QED
    BY <1>1, <2>1 DEF Resuming, Earlier, Here
<1>5. ASSUME InStep', NEW c \in Clients, Whole(c)'
      PROVE  /\ Whole(c)
             /\ Past(c, num[p])
             /\ \A k \in DOMAIN Transit(c) : Transit(c)[k] < num[p]
  <2>1. InStep /\ \A n \in Numbers : Current(n) \in log => n < num[p]
    BY <1>5, RecordedInStep
  <2>2. Whole(c)
    BY <1>1, <1>5, <2>1 DEF Whole
  <2>3. Past(c, num[p])
    BY <2>1, HereIs DEF Past
  <2>4. \A k \in DOMAIN Transit(c) : Transit(c)[k] \in Numbers /\ Current(Transit(c)[k]) \in log
    BY TransitType DEF Numbering, Recalled
  <2> QED
    BY <2>1, <2>2, <2>3, <2>4
<1>6. InOrder'
  <2> SUFFICES ASSUME NEW c \in Clients, c \in subs, Whole(c)' PROVE Rising(c)'
    BY <1>1 DEF InOrder
  <2>1. /\ Past(c, num[p]) /\ \A k \in DOMAIN Transit(c) : Transit(c)[k] < num[p]
        /\ Rising(c)
    BY <1>5 DEF Resuming, InOrder, Whole
  <2> QED
    BY <1>1, <1>2, <2>1 DEF Rising, Past, Here
<1>7. Caught'
  <2> SUFFICES ASSUME NEW c \in Clients, Whole(c)', Here(c)', NEW n \in Numbers,
                      <<epoch, n>> \in log', n <= lastId[c][2]
               PROVE  <<epoch, n>> \in known[c]
    BY <1>1 DEF Caught, UpToDate, Here, Current, Numbers
  <2>1. Here(c) /\ Whole(c) /\ Past(c, num[p])
    BY <1>1, <1>5 DEF Here, Whole
  <2>2. lastId[c][2] \in Numbers /\ lastId[c][2] < num[p] /\ Numbers \subseteq Nat
    BY <2>1, HereIs, EventsAssumption DEF Past, Numbers
  <2>3. n # num[p]
    BY <1>1, <2>2
  <2>4. <<epoch, n>> \in log
    BY <1>1, <2>3 DEF Current
  <2> QED
    BY <2>1, <2>4 DEF Resuming, Caught, UpToDate, Current
<1>8. (\A c \in subs : Whole(c) => Complete(c))'
  <2> SUFFICES ASSUME NEW c \in Clients, c \in subs, Whole(c)' PROVE Complete(c)'
    BY <1>1
  <2>1. Complete(c)
    BY <1>5 DEF Resuming, Whole
  <2>2. c \in todo'[p]
    BY <1>1
  <2> QED
    BY <1>1, <1>2, <2>1, <2>2 DEF Complete, Sent, Due, Current
<1> QED
  BY <1>3, <1>4, <1>6, <1>7, <1>8 DEF Resuming

\* A client is sent the oldest event it is owed next, or it is not whole any more.
LEMMA SendResuming ==
  ASSUME Typed, Numbering, Served, Resuming, NEW p \in Publishers, NEW c \in Clients, Send(p, c)
  PROVE  Resuming'
<1>1. c \in todo[p] /\ c \in subs /\ UNCHANGED <<epoch, ring, num, subs, lastId, known, log, since, jumbled>>
  BY DEF Send, seen, Typed, TypeOK
<1>2. \A q \in Publishers : q # p => todo'[q] = todo[q]
  BY DEF Send, Typed, TypeOK
<1>3. \A d \in Clients : d # c => Untouched(d)
  BY SendTouches DEF Numbering
<1>4. ASSUME Whole(c)' PROVE UpToDate(c)' /\ Rising(c)' /\ Complete(c)'
  <2>1. /\ dropped'[c] = {} /\ c \notin astray /\ InStep
        /\ ~ \E q \in Publishers : c \in todo[q] /\ num[q] < num[p]
    BY <1>1, <1>4 DEF Send, Whole, InStep
  <2>2. Transit(c)' = Append(Transit(c), num[p]) /\ UNCHANGED dropped
    <3>1. ~(dropped' = [dropped EXCEPT ![c] = @ \cup {Current(num[p])}])
      BY <2>1 DEF Typed, TypeOK
    <3> QED
      BY <3>1, SendTransit DEF Numbering, Once
  <2>3. Whole(c)
    BY <2>1, <2>2 DEF Whole
  <2>4. Rising(c) /\ UpToDate(c) /\ Complete(c)
    BY <1>1, <2>3 DEF Resuming, InOrder, Caught
  <2>5. UpToDate(c)'
    BY <1>1, <2>4 DEF UpToDate, Here, Current
  <2>6. \A q \in Publishers : c \in todo'[q] => c \in todo[q] /\ num[p] < num[q]
    <3> SUFFICES ASSUME NEW q \in Publishers, c \in todo'[q] PROVE c \in todo[q] /\ num[p] < num[q]
      OBVIOUS
    <3>1. q # p /\ c \in todo[q]
      BY <1>2 DEF Send, Typed, TypeOK
    <3>2. num[q] # num[p] /\ ~(num[q] < num[p])
      BY <1>1, <2>1, <3>1 DEF Numbering, Once
    <3>3. num[q] \in Int /\ num[p] \in Int
      BY EventsAssumption DEF Typed, TypeOK
    <3> QED
      BY <3>1, <3>2, <3>3
  <2> DEFINE a == Transit(c) b == Transit(c)'
  <2>7. /\ DOMAIN a = 1 .. Len(a) /\ Len(a) \in Nat /\ DOMAIN b = 1 .. (Len(a) + 1)
        /\ b[Len(a) + 1] = num[p] /\ \A k \in 1 .. Len(a) : b[k] = a[k] /\ b[k] < num[p]
    <3>1. Transit(c) \in Seq(Numbers) /\ num[p] \in Numbers
      BY TransitType, SendTransit DEF Numbering, Once
    <3>2. \A k \in DOMAIN Transit(c) : Transit(c)[k] < num[p]
      BY <1>1, <2>4 DEF Rising
    <3> QED
      BY <2>2, <3>1, <3>2
  <2>8. Complete(c)'
    <3> SUFFICES ASSUME NEW id \in log PROVE id \in known[c] \/ Sent(c, id)' \/ Due(c, id)'
      BY <1>1 DEF Complete, Sent, Due, Current
    <3>1. CASE Sent(c, id)
      BY <1>1, <2>7, <3>1 DEF Sent, Current
    <3>2. CASE Due(c, id)
      <4>1. CASE id = Current(num[p])
        BY <1>1, <2>7, <4>1 DEF Sent, Current
      <4>2. CASE id # Current(num[p])
        BY <1>1, <1>2, <3>2, <4>2 DEF Due, Current
      <4> QED
        BY <4>1, <4>2
    <3> QED
      BY <2>4, <3>1, <3>2 DEF Complete
  <2>9. Rising(c)'
    <3>1. \A k, l \in 1 .. Len(a) : k < l => a[k] < a[l]
      BY <2>4, <2>7 DEF Rising
    <3>2. /\ Past(c, num[p]) /\ \A k \in 1 .. Len(a) : Past(c, a[k])
          /\ \A q \in Publishers : c \in todo'[q] => Past(c, num[q]) /\ \A k \in 1 .. Len(a) : a[k] < num[q]
      BY <1>1, <2>4, <2>6, <2>7 DEF Rising
    <3>3. /\ \A k, l \in DOMAIN b : k < l => b[k] < b[l]
          /\ \A k \in DOMAIN b : Past(c, b[k])
          /\ \A q \in Publishers : c \in todo'[q] => Past(c, num[q]) /\ \A k \in DOMAIN b : b[k] < num[q]
      <4> HIDE DEF a, b
      <4>1. \A k, l \in DOMAIN b : k < l => b[k] < b[l]
        BY <2>7, <3>1
      <4>2. \A k \in DOMAIN b : Past(c, b[k])
        BY <2>7, <3>2
      <4>3. \A q \in Publishers : c \in todo'[q] => Past(c, num[q]) /\ \A k \in DOMAIN b : b[k] < num[q]
        BY <2>6, <2>7, <3>2
      <4> QED
        BY <4>1, <4>2, <4>3
    <3> QED
      BY <1>1, <3>3 DEF Rising, Past, Here
  <2> QED
    BY <2>5, <2>8, <2>9
<1>5. \A id \in log : id[1] # epoch => id \in known'[c]
  BY <1>1 DEF Resuming, Earlier
<1>6. subs' \subseteq Clients
  BY <1>1 DEF Typed, TypeOK
<1> QED
  BY <1>1, <1>3, <1>4, <1>5, <1>6, OthersResume


\* A client that connects either fetches everything, or is replayed what it misses.
LEMMA SubscribeResuming ==
  ASSUME Typed, Numbering, Resuming, NEW c \in Clients, Subscribe(c)
  PROVE  Resuming'
<1> DEFINE b == Transit(c)'
           last == lastId[c][2]
<1>1. /\ UNCHANGED <<epoch, ring, num, todo, lastId, log, jumbled>> /\ subs' = subs \cup {c} /\ c \notin subs
      /\ subs \subseteq Clients
  BY DEF Subscribe, publishing, Typed, TypeOK
<1>2. \A d \in Clients : d # c => Untouched(d)
  BY SubscribeTouches DEF Numbering
<1>3. \A q \in Publishers : c \notin todo[q]
  BY <1>1 DEF Typed, TypeOK
<1>4. ring \in Seq(Numbers) /\ Len(ring) <= eventRing /\ Numbers \subseteq Nat
  BY EventsAssumption DEF Typed, TypeOK, Numbers
<1>5. \/ known'[c] = log
      \/ /\ Here(c) /\ known'[c] = known[c] /\ dropped'[c] = dropped[c] /\ astray' = astray
         /\ ring = <<>> \/ ~(ring[1] > last + 1)
  <2>1. CASE Here(c)
    <3>1. last > 0
      BY <2>1, <1>4, HereIs DEF Numbers
    <3> QED
      BY <2>1, <3>1 DEF Subscribe, Here, Typed, TypeOK
  <2>2. CASE ~Here(c)
    BY <2>2 DEF Subscribe, Here, Typed, TypeOK
  <2> QED
    BY <2>1, <2>2
<1>6. \/ ~Here(c) /\ b = <<>>
      \/ /\ Here(c) /\ last \in Numbers
         /\ \E f \in [1 .. Len(b) -> DOMAIN ring] :
              /\ \A i, j \in 1 .. Len(b) : i < j => f[i] < f[j]
              /\ \A i \in 1 .. Len(b) : b[i] = ring[f[i]] /\ b[i] > last
              /\ \A k \in DOMAIN ring : ring[k] > last => \E i \in 1 .. Len(b) : f[i] = k
  <2>1. \/ ~Here(c) /\ b = <<>>
        \/ Here(c) /\ last \in Numbers /\ b \in Replays(last)
    BY SubscribeTransit DEF Numbering
  <2>2. ASSUME last \in Numbers, b \in Replays(last)
        PROVE  \E f \in [1 .. Len(b) -> DOMAIN ring] :
                 /\ \A i, j \in 1 .. Len(b) : i < j => f[i] < f[j]
                 /\ \A i \in 1 .. Len(b) : b[i] = ring[f[i]] /\ b[i] > last
                 /\ \A k \in DOMAIN ring : ring[k] > last => \E i \in 1 .. Len(b) : f[i] = k
    <3>1. last \in Nat
      BY <1>4, <2>2
    <3> HIDE DEF b, last
    <3> QED
      BY <1>4, <2>2, <3>1, Replayed
  <2> QED
    BY <2>1, <2>2
<1>7. b \in Seq(Numbers) /\ DOMAIN b = 1 .. Len(b) /\ Len(b) \in Nat
  <2>1. b \in Seq(Numbers)
    BY SubscribeTransit DEF Numbering
  <2> HIDE DEF b
  <2> QED
    BY <2>1
<1>8. ASSUME Whole(c)' PROVE UpToDate(c)' /\ Rising(c)' /\ Complete(c)'
  <2>1. InStep
    BY <1>1, <1>8 DEF Whole, InStep
  <2>2. /\ \A i, j \in DOMAIN ring : i < j => ring[i] < ring[j]
        /\ \A n \in Numbers : Current(n) \in log => n \in ToSet(ring) \/ (ring # <<>> /\ n < ring[1])
    BY <2>1 DEF Resuming, RingInOrder
  <2>3. (\A k, l \in DOMAIN b : k < l => b[k] < b[l]) /\ \A k \in DOMAIN b : Past(c, b[k])
    <3>1. CASE b = <<>>
      BY <3>1
    <3>2. CASE Here(c) /\ \E f \in [1 .. Len(b) -> DOMAIN ring] :
                            /\ \A i, j \in 1 .. Len(b) : i < j => f[i] < f[j]
                            /\ \A i \in 1 .. Len(b) : b[i] = ring[f[i]] /\ b[i] > last
      <4> HIDE DEF b
      <4>1. \A k, l \in DOMAIN b : k < l => b[k] < b[l]
        BY <1>7, <2>2, <3>2
      <4>2. \A k \in DOMAIN b : b[k] > last /\ b[k] \in Numbers
        BY <1>7, <3>2
      <4>3. last \in Numbers
        BY <1>6, <3>2
      <4>4. \A k \in DOMAIN b : last < b[k]
        <5> HIDE DEF last
        <5> QED
          BY <1>4, <4>2, <4>3
      <4> QED
        BY <4>1, <4>4 DEF Past
    <3> QED
      BY <1>6, <3>1, <3>2
  <2>4. Rising(c)'
    BY <1>1, <1>3, <2>3 DEF Rising, Past, Here
  <2>5. CASE known'[c] = log
    BY <1>1, <2>4, <2>5 DEF UpToDate, Complete
  <2>6. CASE /\ Here(c) /\ known'[c] = known[c] /\ dropped'[c] = dropped[c] /\ astray' = astray
             /\ ring = <<>> \/ ~(ring[1] > last + 1)
    <3>1. Whole(c)
      BY <1>1, <1>8, <2>6 DEF Whole, InStep
    <3>2. UpToDate(c)
      BY <3>1 DEF Resuming, Caught
    <3>3. UpToDate(c)'
      BY <1>1, <2>6, <3>2 DEF UpToDate, Here, Current
    <3>4. Complete(c)'
      <4> SUFFICES ASSUME NEW id \in log, id \notin known[c] PROVE \E k \in DOMAIN b : id = <<epoch, b[k]>>
        BY <1>1, <2>6 DEF Complete, Sent, Current
      <4>1. id[1] = epoch
        BY <2>6 DEF Resuming, Earlier
      <4>2. PICK n \in Numbers : id = Current(n)
        BY <4>1 DEF Typed, TypeOK, Ids, Current
      <4>3. last \in Nat /\ n \in Nat /\ ~(n <= last)
        BY <1>4, <1>6, <2>6, <3>2, <4>2 DEF UpToDate
      <4>4. n \in ToSet(ring)
        <5> SUFFICES ASSUME ring # <<>>, n < ring[1] PROVE FALSE
          BY <2>2, <4>2
        <5>1. ring[1] \in Numbers
          BY <1>4
        <5>2. ring[1] \in Nat /\ ~(ring[1] > last + 1)
          BY <1>4, <2>6, <5>1
        <5> HIDE DEF last
        <5> QED
          BY <4>3, <5>2
      <4>5. PICK k \in DOMAIN ring : ring[k] = n
        BY <4>4 DEF ToSet
      <4>6. \E i \in 1 .. Len(b) : b[i] = ring[k]
        <5>1. ring[k] > last
          BY <4>3, <4>5
        <5> HIDE DEF b, last
        <5> QED
          BY <1>6, <2>6, <5>1
      <4> QED
        BY <1>7, <4>2, <4>5, <4>6 DEF Current
    <3> QED
      BY <2>4, <3>3, <3>4
  <2> QED
    BY <1>5, <2>5, <2>6
<1>9. \A id \in log : id[1] # epoch => id \in known'[c]
  BY <1>5 DEF Resuming, Earlier
<1>10. subs' \subseteq Clients
  BY <1>1
<1> QED
  BY <1>1, <1>2, <1>8, <1>9, <1>10, OthersResume

\* A client is sent the oldest event it has not seen.
LEMMA WriteResuming ==
  ASSUME Typed, Numbering, Resuming, NEW c \in Clients, Write(c)
  PROVE  Resuming'
<1>1. /\ c \in subs /\ subs \subseteq Clients
      /\ UNCHANGED <<epoch, ring, num, todo, subs, log, jumbled, dropped, astray>>
  BY DEF Write, publishing, recovery, Typed, TypeOK
<1>2. \A d \in Clients : d # c => Untouched(d)
  BY WriteTouches
<1> DEFINE a == Transit(c) b == Transit(c)'
<1>3. /\ DOMAIN a = 1 .. Len(a) /\ Len(a) \in Nat \ {0} /\ \A k \in DOMAIN a : a[k] \in Nat
      /\ DOMAIN b = 1 .. (Len(a) - 1) /\ \A k \in 1 .. (Len(a) - 1) : b[k] = a[k + 1]
      /\ Head(out[c]) = a[1]
  <2>1. /\ Transit(c) # <<>> /\ Transit(c)' = Tail(Transit(c)) /\ Head(Transit(c)) = Head(out[c])
        /\ Transit(c) \in Seq(Numbers) /\ Numbers \subseteq Nat
    BY WriteTransit, TransitType, EventsAssumption DEF Numbers
  <2> DEFINE t == Transit(c)
  <2>2. t \in Seq(Numbers) /\ t # <<>> /\ Numbers \subseteq Nat
    BY <2>1
  <2> HIDE DEF t
  <2>3. /\ DOMAIN t = 1 .. Len(t) /\ Len(t) \in Nat \ {0}
        /\ DOMAIN Tail(t) = 1 .. (Len(t) - 1) /\ \A k \in 1 .. (Len(t) - 1) : Tail(t)[k] = t[k + 1]
        /\ Head(t) = t[1]
    BY <2>2
  <2>4. \A k \in DOMAIN t : t[k] \in Nat
    <3>1. \A k \in DOMAIN t : t[k] \in Numbers
      BY <2>2
    <3> QED
      BY <2>2, <3>1
  <2> QED
    BY <2>1, <2>3, <2>4 DEF t
<1>4. known'[c] = known[c] \cup {<<epoch, a[1]>>} /\ lastId'[c] = <<epoch, a[1]>>
  BY <1>3 DEF Write, Typed, TypeOK, Current
<1>5. ASSUME Whole(c)' PROVE UpToDate(c)' /\ Rising(c)' /\ Complete(c)'
  <2>1. Whole(c)
    BY <1>1, <1>5 DEF Whole, InStep
  <2>2. Rising(c) /\ UpToDate(c) /\ Complete(c)
    BY <1>1, <2>1 DEF Resuming, InOrder, Caught
  <2>3. /\ \A k, l \in DOMAIN a : k < l => a[k] < a[l]
        /\ \A q \in Publishers : c \in todo[q] => \A k \in DOMAIN a : a[k] < num[q]
    BY <2>2 DEF Rising
  <2>4. 1 \in DOMAIN a /\ \A k \in DOMAIN a : k = 1 \/ (a[1] < a[k] /\ k - 1 \in DOMAIN b /\ b[k - 1] = a[k])
    <3> HIDE DEF a, b
    <3> QED
      BY <1>3, <2>3
  <2>5. \A id \in log : id \in known'[c] \/ Sent(c, id)' \/ Due(c, id)
    <3> SUFFICES ASSUME NEW id \in log, Sent(c, id) PROVE id \in known'[c] \/ Sent(c, id)'
      BY <1>4, <2>2 DEF Complete
    <3>1. PICK k \in DOMAIN a : id = <<epoch, a[k]>>
      BY DEF Sent, Current
    <3> QED
      BY <1>1, <1>4, <2>4, <3>1 DEF Sent, Current
  <2>6. Complete(c)'
    BY <1>1, <2>5 DEF Complete, Due, Current
  <2>7. UpToDate(c)'
    <3> SUFFICES ASSUME NEW n \in Numbers, <<epoch, n>> \in log, n <= a[1] PROVE <<epoch, n>> \in known'[c]
      BY <1>1, <1>4 DEF UpToDate, Current, Numbers
    <3>1. n \in Nat /\ a[1] \in Nat
      BY <1>3, <2>4, EventsAssumption DEF Numbers
    <3>2. CASE <<epoch, n>> \in known[c]
      BY <1>4, <3>2
    <3>3. CASE Sent(c, <<epoch, n>>)
      <4>1. PICK k \in DOMAIN a : n = a[k]
        BY <3>3 DEF Sent, Current
      <4>2. k = 1
        <5> HIDE DEF a, b
        <5> QED
          BY <1>3, <2>4, <3>1, <4>1
      <4> QED
        BY <1>4, <4>1, <4>2
    <3>4. CASE Due(c, <<epoch, n>>)
      <4>1. PICK q \in Publishers : c \in todo[q] /\ n = num[q]
        BY <3>4 DEF Due, Current
      <4>2. a[1] < n
        BY <2>3, <2>4, <4>1
      <4> HIDE DEF a
      <4> QED
        BY <3>1, <4>2
    <3> QED
      BY <2>2, <3>2, <3>3, <3>4 DEF Complete
  <2>8. Rising(c)'
    <3>1. \A k \in DOMAIN b : k + 1 \in DOMAIN a /\ b[k] = a[k + 1] /\ a[1] < b[k]
      <4> HIDE DEF a, b
      <4> QED
        BY <1>3, <2>3
    <3>2. \A k, l \in DOMAIN b : k < l => b[k] < b[l]
      <4>1. \A k, l \in DOMAIN b : k < l => k + 1 < l + 1
        BY <1>3
      <4> QED
        BY <2>3, <3>1, <4>1
    <3>3. \A q \in Publishers : c \in todo[q] => a[1] < num[q] /\ \A k \in DOMAIN b : b[k] < num[q]
      BY <2>3, <2>4, <3>1
    <3> QED
      BY <1>1, <1>4, <3>1, <3>2, <3>3 DEF Rising, Past
  <2> QED
    BY <2>6, <2>7, <2>8
<1>6. \A id \in log : id[1] # epoch => id \in known'[c]
  BY <1>1, <1>4 DEF Resuming, Earlier
<1> QED
  BY <1>1, <1>2, <1>5, <1>6, OthersResume

\* A connection that breaks takes nothing from what its client knows.
LEMMA UnsubscribeResuming ==
  ASSUME Typed, Numbering, Resuming, NEW c \in Clients, Unsubscribe(c)
  PROVE  Resuming'
<1>1. /\ UNCHANGED <<epoch, ring, lastId, known, log, jumbled, dropped, astray>>
      /\ subs' = subs \ {c} /\ subs \subseteq Clients
  BY DEF Unsubscribe, seen, recovery, Typed, TypeOK
<1>2. \A d \in Clients : d # c => Untouched(d)
  BY UnsubscribeTouches
<1>3. Whole(c)' => UpToDate(c)'
  <2>1. Whole(c)' => Whole(c)
    BY <1>1 DEF Whole, InStep
  <2> QED
    BY <1>1, <2>1 DEF Resuming, Caught, UpToDate, Here, Current
<1>4. Here(c)' => \A id \in log : id[1] # epoch => id \in known'[c]
  BY <1>1 DEF Resuming, Earlier, Here
<1> QED
  BY <1>1, <1>2, <1>3, <1>4, OthersResume

\* To a new process every Last-Event-ID is foreign.
LEMMA RestartResuming == ASSUME Typed, Numbering, Resuming, Restart PROVE Resuming'
<1>1. /\ epoch' = epoch + 1 /\ epoch \in Nat /\ ring' = <<>> /\ subs' = {} /\ UNCHANGED <<lastId, log>>
  BY EventsAssumption DEF Restart, seen, Typed, TypeOK
<1>2. \A id \in log : id[1] # epoch'
  BY <1>1 DEF Numbering, Once, Typed, TypeOK, Ids
<1>3. \A c \in Clients : ~Here(c)'
  BY <1>1, <1>2 DEF Numbering, Recalled, Here
<1>4. RingInOrder'
  <2>1. \A n : Current(n)' \notin log
    BY <1>2 DEF Current
  <2> QED
    BY <1>1, <2>1 DEF RingInOrder
<1>5. Earlier' /\ InOrder' /\ Caught'
  BY <1>1, <1>3 DEF Earlier, InOrder, Caught, UpToDate
<1> QED
  BY <1>1, <1>4, <1>5 DEF Resuming


-----------------------------------------------------------------------------
(* The specification. *)

EInv == Typed /\ Numbering /\ Served /\ Resuming

\* It holds at first.
LEMMA InitEInv == Init => EInv
<1> SUFFICES ASSUME Init PROVE EInv
  OBVIOUS
<1>1. Served
  BY DEF Init, Served
<1> QED
  BY <1>1, InitTyped, InitNumbering, InitResuming DEF EInv

\* Every step keeps it.
LEMMA NextEInv == EInv /\ [Next]_vars => EInv'
<1> SUFFICES ASSUME EInv, [Next]_vars PROVE EInv'
  OBVIOUS
<1>. Typed /\ Numbering /\ Once /\ Numbered /\ Quiet /\ Served /\ Resuming
  BY DEF EInv, Numbering, Once
<1>1. ASSUME NEW p \in Publishers, TakeNumber(p) PROVE EInv'
  <2>1. Served'
    <3>1. UNCHANGED <<subs, log>> /\ subs \subseteq Clients
      BY <1>1 DEF TakeNumber, stream, Typed, TypeOK
    <3> QED
      BY <1>1, <3>1, TakeNumberTouches, UntouchedServed DEF Served
  <2> QED
    BY <1>1, <2>1, TakeNumberTyped, TakeNumberNumbering, TakeNumberResuming DEF EInv
<1>2. ASSUME NEW p \in Publishers, Record(p) PROVE EInv'
  BY <1>2, RecordTyped, RecordNumbering, RecordServed, RecordResuming DEF EInv
<1>3. ASSUME NEW p \in Publishers, NEW c \in Clients, Send(p, c) PROVE EInv'
  BY <1>3, SendTyped, SendNumbering, SendServed, SendResuming DEF EInv
<1>4. ASSUME NEW c \in Clients, Subscribe(c) PROVE EInv'
  BY <1>4, SubscribeTyped, SubscribeNumbering, SubscribeServed, SubscribeResuming DEF EInv
<1>5. ASSUME NEW c \in Clients, Pump(c) PROVE EInv'
  BY <1>5, PumpTyped, PumpNumbering, PumpServed, PumpResuming DEF EInv
<1>6. ASSUME NEW c \in Clients, Write(c) PROVE EInv'
  BY <1>6, WriteTyped, WriteNumbering, WriteServed, WriteResuming DEF EInv
<1>7. ASSUME NEW c \in Clients, Unsubscribe(c) PROVE EInv'
  BY <1>7, UnsubscribeTyped, UnsubscribeNumbering, UnsubscribeServed, UnsubscribeResuming DEF EInv
<1>8. CASE Restart
  <2>1. Served'
    BY <1>8 DEF Restart, Served
  <2> QED
    BY <1>8, <2>1, RestartTyped, RestartNumbering, RestartResuming DEF EInv
<1>9. CASE UNCHANGED vars
  <2>1. UNCHANGED <<epoch, eventSeq, ring, at, num, todo, subs, inbox, out, lastId, known, log, since,
                    dropped, astray, jumbled>>
    BY <1>9 DEF vars, publishing, seen, stream, recovery
  <2>2. Typed'
    BY <2>1 DEF Typed, TypeOK, Channels
  <2>3. Numbering'
    <3>1. Recalled'
      BY <2>1, RecalledStays DEF Numbering
    <3> QED
      BY <2>1, <3>1, OnceServing, RingStays DEF Numbering, Quiet
  <2>4. \A d \in Clients : Untouched(d)
    BY <2>1, TransitStays DEF Untouched
  <2>5. Served'
    BY <2>1, <2>4, UntouchedServed DEF Served, Typed, TypeOK
  <2>6. Resuming'
    BY <2>1, <2>4, NobodyResumes
  <2> QED
    BY <2>2, <2>3, <2>5, <2>6 DEF EInv
<1> QED
  BY <1>1, <1>2, <1>3, <1>4, <1>5, <1>6, <1>7, <1>8, <1>9 DEF Next, Publish

\* So it always holds.
THEOREM EventsInvariance == Spec => []EInv
<1> QED
  BY InitEInv, NextEInv, PTL DEF Spec

\* The event stream of worker.go and sse.go keeps the types of its variables, and its
\* ring and channels their capacities.
THEOREM TypeCorrect == Spec => []TypeOK
<1>1. EInv => TypeOK
  BY DEF EInv, Typed
<1> QED
  BY <1>1, EventsInvariance, PTL

\* A connected client misses only what its own full inbox kept from it.
THEOREM KeepsInformed == Spec => []StaysInformed
<1>1. EInv => StaysInformed
  BY ServedIs DEF EInv
<1> QED
  BY <1>1, EventsInvariance, PTL

\* What a client is replayed comes before what is new, and nothing comes twice.
THEOREM ReplaysFirst == Spec => []ReplayThenLive
<1>1. EInv => ReplayThenLive
  BY ServedIs DEF EInv
<1> QED
  BY <1>1, EventsInvariance, PTL

\* A client that resumes by its Last-Event-ID ends up with every event there ever was.
THEOREM ResumesWhole == Spec => []ResumesInformed
<1>1. EInv => ResumesInformed
  BY ResumingIs DEF EInv
<1> QED
  BY <1>1, EventsInvariance, PTL
===============================================================================
