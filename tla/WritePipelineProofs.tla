----------------------------- MODULE WritePipelineProofs -----------------------------
(***************************************************************************)
(* Proofs about WritePipeline, for any accounts, batches, capacity of the   *)
(* pipeline and number of faults: its types, that no assertion fails, that *)
(* each stream carries its account's batches in order, and that it          *)
(* implements WriteQueue.  What WriteQueueProofs proves of WriteQueue then   *)
(* holds of the pipeline.                                                  *)
(***************************************************************************)
EXTENDS WritePipeline, TLAPS

WQ == INSTANCE WriteQueueProofs WITH
    queue <- client.queue, unheard <- [u \in Users |-> Answers(client, u)]

-----------------------------------------------------------------------------
(* The inductive invariant, a conjunction of predicates on the client: the      *)
(* operators of WritePipeline compute one client from another, and each is      *)
(* shown to lead from sound clients to sound ones.                             *)

Sorted(q) == \A i, j \in DOMAIN q : i < j => q[i] < q[j]
IsPrefixOf(s, t) == Len(s) <= Len(t) /\ \A i \in 1..Len(s) : s[i] = t[i]

(* The stream has a call while it is open, and it is not started for nothing.   *)
StreamSound(c) ==
    /\ c.asserted
    /\ c.call # None <=> IsOpen(c)
    /\ IsStarted(c) => c.network /\ (c.pipeline = <<>> => IsOpen(c) /\ c.handshake)
    /\ c.idle => IsOpen(c) /\ c.handshake /\ c.pipeline = <<>>
    /\ ~c.network => c.pipeline = <<>>

(* Tokens that the stream still waits for: at most one, while it is starting.   *)
Awaited(task) ==
    \/ task.kind = "token" /\ task.current
    \/ task.kind = "answer" /\ task.request.current
NoneAwaited(c) ==
    /\ \A r \in c.asking : ~r.current
    /\ \A i \in DOMAIN c.main : ~Awaited(c.main[i])
    /\ \A i \in DOMAIN c.worker : ~Awaited(c.worker[i])
TokensSound(c) ==
    /\ c.state # "Starting" => NoneAwaited(c)
    /\ \A r \in c.asking : r.current =>
          /\ \A s \in c.asking : s.current => r = s
          /\ \A i \in DOMAIN c.main : ~Awaited(c.main[i])
          /\ \A i \in DOMAIN c.worker : ~Awaited(c.worker[i])
    /\ \A i \in DOMAIN c.main : Awaited(c.main[i]) =>
          /\ \A j \in DOMAIN c.main : Awaited(c.main[j]) => i = j
          /\ \A j \in DOMAIN c.worker : ~Awaited(c.worker[j])
    /\ \A i, j \in DOMAIN c.worker : Awaited(c.worker[i]) /\ Awaited(c.worker[j]) => i = j

(* What the call has on the worker queue.                                      *)
WorkerSound(c) ==
    /\ \A i \in DOMAIN c.worker : IsOfCall(c.worker[i]) => c.call # None
    /\ \A kinds \in {{"read", "readFailed"}, {"written", "writeFailed"}, {"finished"}} :
          \A i, j \in DOMAIN c.worker :
              c.worker[i].kind \in kinds /\ c.worker[j].kind \in kinds => i = j
    /\ \A i \in DOMAIN c.worker :
          IsOfCall(c.worker[i]) => (c.worker[i].kind = "finished" <=> c.call.finishing)
    /\ \A i \in DOMAIN c.worker :
          c.worker[i].kind \in {"readFailed", "writeFailed"} => c.call.ended # "no"
    /\ \A i \in DOMAIN c.worker :
          c.worker[i].kind \in {"written", "writeFailed"} => c.call.out # <<>>

PipelineSound(c) ==
    Len(c.pipeline) <= kMaxPendingWrites /\ IsPrefixOf(c.pipeline, c.queue[c.user])

(* What a call has been given to send, and what it still carries: answers on    *)
(* the way come from its head.                                                 *)
Sent(c) == IF c.handshake THEN c.pipeline ELSE <<Handshake>>
InFlight(c) == (Coming(c) \o c.call.toServer) \o Unwritten(c)
CallSound(c) ==
    c.call # None =>
        /\ c.call.user = c.user
        /\ c.call.finishing => c.call.ended # "no"
        /\ \A messages \in {c.call.out, c.call.toServer} : \A i \in DOMAIN messages :
              messages[i] # Handshake => Author[messages[i]] = c.user
        /\ Live(c) => IsPrefixOf(Coming(c), Sent(c))
        /\ Live(c) /\ c.call.ended = "no" => InFlight(c) = Sent(c)

(* What waits in the queue of an account is the account's, in order.            *)
QueuesSound(c) ==
    \A u \in Users :
        /\ Sorted(c.queue[u])
        /\ \A i \in DOMAIN c.queue[u] : Author[c.queue[u][i]] = u

Sound(c) ==
    /\ c \in Clients
    /\ QueuesSound(c) /\ StreamSound(c) /\ TokensSound(c) /\ WorkerSound(c)
    /\ PipelineSound(c) /\ CallSound(c)

(* The account as it will be when the first n tasks of the worker are done.     *)
Heads(c, n, u) ==
    \/ /\ c.user = u
       /\ \A k \in 1..n : c.worker[k].kind # "account"
    \/ \E j \in 1..n :
          /\ c.worker[j].kind = "account" /\ c.worker[j].user = u
          /\ \A k \in (j + 1)..n : c.worker[k].kind # "account"

Notifies(c, n) == \E j \in 1..n : c.main[j].kind = "notify"

(* The account signed in is the one that the client will have, or it is the last *)
(* one to be notified of; and so is the account of a fresh token.              *)
TokensAreOfUser(c, signedIn) ==
    /\ Notifies(c, Len(c.main)) \/ Heads(c, Len(c.worker), signedIn)
    /\ \A i \in DOMAIN c.main : c.main[i].kind = "notify" =>
          c.main[i].user = signedIn \/ \E j \in (i + 1)..Len(c.main) : c.main[j].kind = "notify"
    /\ \A r \in c.asking : r.fresh /\ r.user # None =>
          Notifies(c, Len(c.main)) \/ Heads(c, Len(c.worker), r.user)
    /\ \A i \in DOMAIN c.main :
          c.main[i].kind = "answer" /\ c.main[i].request.fresh /\ c.main[i].request.user # None =>
              Notifies(c, i - 1) \/ Heads(c, Len(c.worker), c.main[i].request.user)
    /\ \A i \in DOMAIN c.worker :
          c.worker[i].kind = "token" /\ c.worker[i].user # None => Heads(c, i - 1, c.worker[i].user)

(* What is true between two tasks, but not always within one.                  *)
Settled(c) ==
    /\ c.handshake => IsOpen(c)
    /\ c.idle => c.queue[c.user] = <<>>

IInv ==
    /\ TypeOK
    /\ Sound(client) /\ Settled(client) /\ TokensAreOfUser(client, auth)
    /\ WQ!IInv

-----------------------------------------------------------------------------
(* Sequences.                                                                 *)

(* What is left of a sequence without its head.                                *)
LEMMA TailFacts ==
    ASSUME NEW S, NEW s \in Seq(S), s # <<>>
    PROVE  /\ Tail(s) \in Seq(S) /\ Len(Tail(s)) = Len(s) - 1 /\ Len(s) \in Nat \ {0}
           /\ DOMAIN s = 1..Len(s) /\ DOMAIN Tail(s) = 1..(Len(s) - 1)
           /\ \A i \in 1..(Len(s) - 1) : Tail(s)[i] = s[i + 1]
           /\ Head(s) = s[1] /\ Head(s) \in S
           /\ s = <<Head(s)>> \o Tail(s)
<1>1. s = <<Head(s)>> \o Tail(s)
  OBVIOUS
<1> QED
  BY <1>1

(* A sequence with one element more.                                           *)
LEMMA AppendFacts ==
    ASSUME NEW S, NEW s \in Seq(S), NEW e \in S
    PROVE  /\ Append(s, e) \in Seq(S) /\ Len(Append(s, e)) = Len(s) + 1 /\ Len(s) \in Nat
           /\ DOMAIN s = 1..Len(s) /\ DOMAIN Append(s, e) = 1..(Len(s) + 1)
           /\ \A i \in 1..Len(s) : Append(s, e)[i] = s[i]
           /\ Append(s, e)[Len(s) + 1] = e
           /\ Append(s, e) = s \o <<e>>
           /\ Append(s, e) # <<>>
<1>1. Append(s, e) = s \o <<e>>
  OBVIOUS
<1>2. Append(s, e) \in Seq(S) /\ Len(Append(s, e)) = Len(s) + 1 /\ Len(s) \in Nat
  OBVIOUS
<1>4. Append(s, e) # <<>>
  <2> SUFFICES ASSUME Append(s, e) = <<>> PROVE FALSE
    OBVIOUS
  <2>1. Len(Append(s, e)) = 0
    OBVIOUS
  <2> QED
    BY <2>1, <1>2
<1>3. /\ \A i \in 1..Len(s) : Append(s, e)[i] = s[i]
      /\ Append(s, e)[Len(s) + 1] = e
      /\ DOMAIN s = 1..Len(s) /\ DOMAIN Append(s, e) = 1..(Len(s) + 1)
  OBVIOUS
<1> QED
  BY <1>1, <1>2, <1>3, <1>4

(* Two sequences in a row.                                                     *)
LEMMA ConcatFacts ==
    ASSUME NEW S, NEW s \in Seq(S), NEW t \in Seq(S)
    PROVE  /\ s \o t \in Seq(S) /\ Len(s \o t) = Len(s) + Len(t)
           /\ Len(s) \in Nat /\ Len(t) \in Nat
           /\ DOMAIN (s \o t) = 1..(Len(s) + Len(t))
           /\ \A i \in 1..Len(s) : (s \o t)[i] = s[i]
           /\ \A i \in 1..Len(t) : (s \o t)[Len(s) + i] = t[i]
           /\ s \o <<>> = s /\ <<>> \o s = s
  OBVIOUS

(* Concatenation is associative.                                               *)
LEMMA ConcatAssoc ==
    ASSUME NEW S, NEW s \in Seq(S), NEW t \in Seq(S), NEW u \in Seq(S)
    PROVE  (s \o t) \o u = s \o (t \o u)
  OBVIOUS

(* A piece of a sequence.                                                      *)
LEMMA SubSeqFacts ==
    ASSUME NEW S, NEW s \in Seq(S), NEW n \in 0..Len(s)
    PROVE  /\ SubSeq(s, 1, n) \in Seq(S) /\ Len(SubSeq(s, 1, n)) = n
           /\ \A i \in 1..n : SubSeq(s, 1, n)[i] = s[i]
  OBVIOUS

(* Two sequences of the same length and elements are the same.                 *)
LEMMA SameSeq ==
    ASSUME NEW S, NEW s \in Seq(S), NEW t \in Seq(S), Len(s) = Len(t),
           \A i \in 1..Len(s) : s[i] = t[i]
    PROVE  s = t
  OBVIOUS

(* A sequence is a prefix of whatever it is continued to.                      *)
LEMMA PrefixOfConcat ==
    ASSUME NEW S, NEW s \in Seq(S), NEW t \in Seq(S)
    PROVE  IsPrefixOf(s, s \o t)
  BY ConcatFacts DEF IsPrefixOf

(* A prefix of a prefix is a prefix.                                           *)
LEMMA PrefixTrans ==
    ASSUME NEW S, NEW s \in Seq(S), NEW t \in Seq(S), NEW u \in Seq(S),
           IsPrefixOf(s, t), IsPrefixOf(t, u)
    PROVE  IsPrefixOf(s, u)
  BY DEF IsPrefixOf

(* What moves along a call: from the server's answers to the answer that has     *)
(* been read, from the requests to the answers, from the unwritten messages to   *)
(* the requests; and what is taken at one end and added at the other.           *)
LEMMA FlightRead ==
    ASSUME NEW S, NEW a \in Seq(S), a # <<>>
    PROVE  <<Head(a)>> \o Tail(a) = <<>> \o a
  OBVIOUS

(* A message goes out: what is in flight stays the same.                       *)
LEMMA FlightMoves ==
    ASSUME NEW S, NEW r \in Seq(S), NEW a \in Seq(S), NEW q \in Seq(S), q # <<>>
    PROVE  (r \o Append(a, Head(q))) \o Tail(q) = (r \o a) \o q
<1>1. q = <<Head(q)>> \o Tail(q) /\ Head(q) \in S /\ Tail(q) \in Seq(S)
  BY TailFacts
<1>2. Append(a, Head(q)) = a \o <<Head(q)>> /\ <<Head(q)>> \in Seq(S)
  BY <1>1
<1>3. r \o (a \o <<Head(q)>>) = (r \o a) \o <<Head(q)>> /\ r \o a \in Seq(S)
  BY <1>2, ConcatAssoc, ConcatFacts
<1>4. ((r \o a) \o <<Head(q)>>) \o Tail(q) = (r \o a) \o (<<Head(q)>> \o Tail(q))
  BY <1>1, <1>2, <1>3, ConcatAssoc, SMTT(30)
<1> QED
  BY <1>1, <1>2, <1>3, <1>4

(* A message is answered: so does what is in flight.                           *)
LEMMA FlightTake ==
    ASSUME NEW S, NEW m \in S, NEW a \in Seq(S), NEW q \in Seq(S), NEW o \in Seq(S)
    PROVE  /\ ((<<m>> \o a) \o q) \o o = <<m>> \o ((a \o q) \o o)
           /\ (a \o q) \o o \in Seq(S)
<1>1. <<m>> \in Seq(S) /\ a \o q \in Seq(S) /\ (a \o q) \o o \in Seq(S)
  BY ConcatFacts
<1> QED
  BY <1>1, ConcatAssoc

-----------------------------------------------------------------------------
(* Types.                                                                     *)

States == {"Initial", "Starting", "Backoff", "Open", "Error"}

(* What a client is made of.                                                   *)
LEMMA ClientFields ==
    ASSUME NEW c \in Clients
    PROVE  /\ c.queue \in [Users -> Seq(BatchIds)] /\ c.user \in Users /\ c.network \in BOOLEAN
           /\ c.pipeline \in Seq(BatchIds) /\ c.state \in States
           /\ c.handshake \in BOOLEAN /\ c.idle \in BOOLEAN /\ c.call \in Calls \cup {None}
           /\ c.asking \in SUBSET Requests /\ c.main \in Seq(MainTasks)
           /\ c.worker \in Seq(Tasks) /\ c.asserted \in BOOLEAN
           /\ c.queue[c.user] \in Seq(BatchIds)
  BY DEF Clients, States

(* What a call is made of.                                                     *)
LEMMA CallFields ==
    ASSUME NEW k \in Calls
    PROVE  /\ k.user \in Users /\ k.out \in Seq(Messages) /\ k.toServer \in Seq(Messages)
           /\ k.toClient \in Seq(Messages) /\ k.ended \in {"no", "transient", "permanent"}
           /\ k.finishing \in BOOLEAN /\ k # None
  BY NoneAssumption DEF Calls

(* What a request is made of.                                                  *)
LEMMA RequestFields ==
    ASSUME NEW r \in Requests
    PROVE  r.current \in BOOLEAN /\ r.fresh \in BOOLEAN /\ r.user \in Users \cup {None}
  BY DEF Requests

(* What a task of the worker queue is made of.                                 *)
LEMMA TaskFields ==
    ASSUME NEW t \in Tasks
    PROVE  /\ t.kind \in {"read", "written", "readFailed", "writeFailed", "finished", "token",
                          "account", "cancelled"}
           /\ t.kind = "read" => t.message \in Messages
           /\ t.kind = "token" => t.user \in Users \cup {None} /\ t.current \in BOOLEAN
           /\ t.kind = "account" => t.user \in Users
  BY DEF Tasks, CallTasks

(* What a task of the main queue is made of.                                   *)
LEMMA MainTaskFields ==
    ASSUME NEW t \in MainTasks
    PROVE  /\ t.kind \in {"notify", "answer"}
           /\ t.kind = "notify" => t.user \in Users
           /\ t.kind = "answer" => t.request \in Requests
  BY DEF MainTasks

(* Tasks that are changed where they wait.                                     *)
LEMMA OutdatedFacts ==
    /\ \A t \in Tasks :
          /\ Outdated(t) \in Tasks /\ Outdated(t).kind = t.kind /\ ~Awaited(Outdated(t))
          /\ t.kind \in {"token", "account"} => Outdated(t).user = t.user
          /\ Cancelled(t) \in Tasks
          /\ IF IsOfCall(t) THEN Cancelled(t).kind = "cancelled" ELSE Cancelled(t) = t
    /\ \A t \in MainTasks :
          /\ Outdated(t) \in MainTasks /\ Outdated(t).kind = t.kind /\ ~Awaited(Outdated(t))
          /\ t.kind = "notify" => Outdated(t) = t
          /\ t.kind = "answer" => /\ Outdated(t).request.fresh = t.request.fresh
                                  /\ Outdated(t).request.user = t.request.user
<1>1. ASSUME NEW t \in Tasks
      PROVE  /\ Outdated(t) \in Tasks /\ Outdated(t).kind = t.kind /\ ~Awaited(Outdated(t))
             /\ t.kind \in {"token", "account"} => Outdated(t).user = t.user
  <2>1. CASE t.kind = "token"
    <3>1. t \in [kind : {"token"}, user : Users \cup {None}, current : BOOLEAN]
      BY <2>1 DEF Tasks, CallTasks
    <3>2. Outdated(t) = [t EXCEPT !.current = FALSE]
      BY <2>1 DEF Outdated
    <3>3. /\ Outdated(t) \in [kind : {"token"}, user : Users \cup {None}, current : BOOLEAN]
          /\ Outdated(t).current = FALSE /\ Outdated(t).user = t.user
      BY <3>1, <3>2
    <3> QED
      BY <2>1, <3>3 DEF Tasks, Awaited
  <2>2. CASE t.kind # "token"
    <3>1. Outdated(t) = t
      BY <2>2, TaskFields DEF Outdated
    <3> QED
      BY <2>2, <3>1, TaskFields DEF Awaited
  <2> QED
    BY <2>1, <2>2
<1>2. ASSUME NEW t \in Tasks
      PROVE  /\ Cancelled(t) \in Tasks
             /\ IF IsOfCall(t) THEN Cancelled(t).kind = "cancelled" ELSE Cancelled(t) = t
  BY DEF Cancelled, Tasks
<1>3. ASSUME NEW t \in MainTasks
      PROVE  /\ Outdated(t) \in MainTasks /\ Outdated(t).kind = t.kind /\ ~Awaited(Outdated(t))
             /\ t.kind = "notify" => Outdated(t) = t
             /\ t.kind = "answer" => /\ Outdated(t).request.fresh = t.request.fresh
                                     /\ Outdated(t).request.user = t.request.user
  <2>1. CASE t.kind = "answer"
    <3>1. t \in [kind : {"answer"}, request : Requests]
      BY <2>1 DEF MainTasks
    <3>2. Outdated(t) = [t EXCEPT !.request.current = FALSE]
      BY <2>1 DEF Outdated
    <3>3. /\ [t.request EXCEPT !.current = FALSE] \in Requests
          /\ [t.request EXCEPT !.current = FALSE].current = FALSE
          /\ [t.request EXCEPT !.current = FALSE].fresh = t.request.fresh
          /\ [t.request EXCEPT !.current = FALSE].user = t.request.user
      BY <3>1 DEF Requests
    <3>4. /\ Outdated(t) \in [kind : {"answer"}, request : Requests]
          /\ Outdated(t).request = [t.request EXCEPT !.current = FALSE]
      BY <3>1, <3>2, <3>3
    <3> QED
      BY <2>1, <3>3, <3>4 DEF MainTasks, Awaited
  <2>2. CASE t.kind # "answer"
    BY <2>2, MainTaskFields DEF Outdated, Awaited
  <2> QED
    BY <2>1, <2>2
<1> QED
  BY <1>1, <1>2, <1>3

-----------------------------------------------------------------------------
(* Filling the pipeline.                                                      *)

(* An assertion that holds changes nothing.                                    *)
LEMMA Asserting ==
    ASSUME NEW c \in Clients, c.asserted, NEW holds, holds = TRUE
    PROVE  HardAssert(c, holds) = c
<1>1. c.asserted = TRUE
  BY ClientFields
<1>2. HardAssert(c, holds) = [c EXCEPT !.asserted = TRUE]
  BY <1>1 DEF HardAssert
<1> QED
  BY <1>1, <1>2 DEF Clients

(* The pipeline is a prefix of the queue, and what is taken next follows it.     *)
LEMMA NextIndexFacts ==
    ASSUME NEW q \in Seq(BatchIds), NEW p \in Seq(BatchIds), Sorted(q), IsPrefixOf(p, q)
    PROVE  NextIndex(q, IF p = <<>> THEN 0 ELSE p[Len(p)]) = Len(p) + 1
<1> DEFINE last == IF p = <<>> THEN 0 ELSE p[Len(p)]
           After(k) == /\ \A i \in 1..(k - 1) : q[i] <= last
                       /\ k <= Len(q) => last < q[k]
<1>1. /\ Len(p) \in Nat /\ Len(q) \in Nat /\ Len(p) <= Len(q)
      /\ DOMAIN q = 1..Len(q) /\ \A i \in 1..Len(q) : q[i] \in BatchIds
      /\ \A i \in 1..Len(p) : p[i] = q[i]
      /\ p = <<>> <=> Len(p) = 0
  BY DEF IsPrefixOf
<1>2. \A i \in 1..Len(q) : q[i] \in Nat /\ q[i] > 0
  BY <1>1 DEF BatchIds
<1>3. \A i, j \in 1..Len(q) : i < j => q[i] < q[j]
  BY <1>1 DEF Sorted
<1>4. last \in Nat /\ (Len(p) > 0 => last = q[Len(p)]) /\ (Len(p) = 0 => last = 0)
  BY <1>1, <1>2
<1> HIDE DEF last
<1>5. Len(p) + 1 \in 1..(Len(q) + 1) /\ After(Len(p) + 1)
  <2>1. ASSUME NEW i \in 1..Len(p) PROVE q[i] <= last
    BY <1>1, <1>2, <1>3, <1>4
  <2>2. ASSUME Len(p) + 1 <= Len(q) PROVE last < q[Len(p) + 1]
    BY <1>1, <1>2, <1>3, <1>4, <2>2
  <2> QED
    BY <1>1, <2>1, <2>2
<1>6. ASSUME NEW k \in 1..(Len(q) + 1), After(k) PROVE k = Len(p) + 1
  <2>1. ~(k < Len(p) + 1)
    <3> SUFFICES ASSUME k < Len(p) + 1 PROVE FALSE
      OBVIOUS
    <3>1. k \in 1..Len(p) /\ k <= Len(q)
      BY <1>1
    <3> QED
      BY <3>1, <1>1, <1>2, <1>3, <1>4, <1>6
  <2>2. ~(Len(p) + 1 < k)
    <3> SUFFICES ASSUME Len(p) + 1 < k PROVE FALSE
      OBVIOUS
    <3>1. Len(p) + 1 \in 1..(k - 1) /\ Len(p) + 1 \in 1..Len(q)
      BY <1>1
    <3> QED
      BY <3>1, <1>1, <1>2, <1>4, <1>5, <1>6
  <2> QED
    BY <1>1, <2>1, <2>2
<1>7. NextIndex(q, last) = CHOOSE k \in 1..(Len(q) + 1) : After(k)
  BY DEF NextIndex
<1>8. NextIndex(q, last) = Len(p) + 1
  <2> HIDE DEF After
  <2> QED
    BY <1>5, <1>6, <1>7
<1> QED
  BY <1>8 DEF last

(* What a refill takes.                                                        *)
Following(c) ==
    SubSeq(Upcoming(c), 1, IF Room(c) < Len(Upcoming(c)) THEN Room(c) ELSE Len(Upcoming(c)))

(* The batches of Upcoming are those of the queue that continue the pipeline.  *)
LEMMA FollowingFacts ==
    ASSUME NEW c \in Clients, QueuesSound(c), PipelineSound(c)
    PROVE  /\ Following(c) \in Seq(BatchIds)
           /\ c.pipeline \o Following(c) \in Seq(BatchIds)
           /\ Len(c.pipeline \o Following(c)) <= kMaxPendingWrites
           /\ IsPrefixOf(c.pipeline \o Following(c), c.queue[c.user])
           /\ \A i \in DOMAIN Following(c) : Author[Following(c)[i]] = c.user
           /\ c.pipeline \o Following(c) = <<>> => c.queue[c.user] = <<>>
<1> DEFINE q == c.queue[c.user]
           p == c.pipeline
           n == Following(c)
           room == IF Room(c) < Len(Upcoming(c)) THEN Room(c) ELSE Len(Upcoming(c))
<1>1. /\ q \in Seq(BatchIds) /\ p \in Seq(BatchIds) /\ c.user \in Users
      /\ Sorted(q) /\ IsPrefixOf(p, q)
      /\ \A i \in DOMAIN q : Author[q[i]] = c.user
      /\ Len(p) <= kMaxPendingWrites /\ kMaxPendingWrites \in Nat \ {0}
  BY ClientFields, CapacityAssumption DEF QueuesSound, PipelineSound
<1>2. Upcoming(c) = SubSeq(q, Len(p) + 1, Len(q))
  BY <1>1, NextIndexFacts DEF Upcoming
<1>3. /\ Len(p) \in Nat /\ Len(q) \in Nat /\ Len(p) <= Len(q) /\ DOMAIN q = 1..Len(q)
      /\ \A i \in 1..Len(p) : p[i] = q[i]
  BY <1>1 DEF IsPrefixOf
<1>4. /\ Upcoming(c) \in Seq(BatchIds) /\ Len(Upcoming(c)) = Len(q) - Len(p)
      /\ \A i \in 1..(Len(q) - Len(p)) : Upcoming(c)[i] = q[Len(p) + i]
  <2> HIDE DEF q, p
  <2> QED
    BY <1>1, <1>2, <1>3
<1>5. /\ room \in 0..Len(Upcoming(c)) /\ Len(p) + room <= kMaxPendingWrites
      /\ room = 0 => Len(p) = Len(q) \/ Len(p) = kMaxPendingWrites
  <2> DEFINE a == Room(c)
             b == Len(Upcoming(c))
  <2>1. a = kMaxPendingWrites - Len(p) /\ a \in Nat
    BY <1>1, <1>3 DEF Room
  <2>2. b = Len(q) - Len(p) /\ b \in Nat
    BY <1>3, <1>4
  <2>3. room = IF a < b THEN a ELSE b
    OBVIOUS
  <2> HIDE DEF room, a, b, p, q
  <2>4. room \in 0..b /\ Len(p) + room <= kMaxPendingWrites
    BY <2>1, <2>2, <2>3, <1>1, <1>3
  <2>5. room = 0 => Len(p) = Len(q) \/ Len(p) = kMaxPendingWrites
    BY <2>1, <2>2, <2>3, <1>1, <1>3
  <2> QED
    BY <2>4, <2>5 DEF b
<1>6. n = SubSeq(Upcoming(c), 1, room)
  BY DEF Following
<1> HIDE DEF room, n, q, p
<1>7. /\ n \in Seq(BatchIds) /\ Len(n) = room
      /\ \A i \in 1..room : n[i] = q[Len(p) + i]
  <2>1. n \in Seq(BatchIds) /\ Len(n) = room /\ \A i \in 1..room : n[i] = Upcoming(c)[i]
    BY <1>4, <1>5, <1>6, SubSeqFacts
  <2>2. \A i \in 1..room : i \in 1..(Len(q) - Len(p))
    BY <1>3, <1>4, <1>5
  <2> QED
    BY <2>1, <2>2, <1>4
<1>8. /\ p \o n \in Seq(BatchIds) /\ Len(p \o n) = Len(p) + room
      /\ \A i \in 1..Len(p) : (p \o n)[i] = p[i]
      /\ \A i \in 1..room : (p \o n)[Len(p) + i] = n[i]
  <2>1. p \in Seq(BatchIds) /\ n \in Seq(BatchIds) /\ Len(n) = room
    BY <1>1, <1>7 DEF p
  <2>2. /\ p \o n \in Seq(BatchIds) /\ Len(p \o n) = Len(p) + Len(n)
        /\ \A i \in 1..Len(p) : (p \o n)[i] = p[i]
        /\ \A i \in 1..Len(n) : (p \o n)[Len(p) + i] = n[i]
    BY <2>1
  <2> QED
    BY <2>1, <2>2
<1>9. IsPrefixOf(p \o n, q)
  <2>1. Len(p \o n) <= Len(q)
    BY <1>3, <1>4, <1>5, <1>8
  <2>2. ASSUME NEW i \in 1..Len(p \o n) PROVE (p \o n)[i] = q[i]
    <3>1. CASE i <= Len(p)
      BY <3>1, <1>3, <1>8
    <3>2. CASE i > Len(p)
      <4>1. i - Len(p) \in 1..room /\ Len(p) + (i - Len(p)) = i
        BY <3>2, <1>3, <1>5, <1>8
      <4> QED
        BY <4>1, <1>7, <1>8
    <3> QED
      BY <3>1, <3>2, <1>3
  <2> QED
    BY <2>1, <2>2 DEF IsPrefixOf
<1>10. \A i \in DOMAIN n : Author[n[i]] = c.user
  <2> SUFFICES ASSUME NEW i \in DOMAIN n PROVE Author[n[i]] = c.user
    OBVIOUS
  <2>1. i \in 1..room
    BY <1>7
  <2>2. Len(p) + i \in 1..Len(q) /\ n[i] = q[Len(p) + i]
    BY <2>1, <1>3, <1>4, <1>5, <1>7
  <2> QED
    BY <2>2, <1>1, <1>3
<1>11. ASSUME p \o n = <<>> PROVE q = <<>>
  <2>1. Len(p \o n) = 0
    BY <1>11
  <2>2. Len(q) = 0
    BY <2>1, <1>1, <1>3, <1>5, <1>8
  <2> QED
    BY <2>2, <1>1
<1> QED
  BY <1>1, <1>5, <1>7, <1>8, <1>9, <1>10, <1>11 DEF n, q, p

(* Two clients that agree on whose tokens they wait for, and on the changes of   *)
(* account they have yet to hear of.                                           *)
SameTokens(c, d) ==
    /\ d.user = c.user
    /\ Len(d.worker) = Len(c.worker) /\ Len(d.main) = Len(c.main)
    /\ \A i \in 1..Len(c.worker) :
          /\ d.worker[i].kind = "account" <=> c.worker[i].kind = "account"
          /\ d.worker[i].kind = "token" => c.worker[i].kind = "token"
          /\ d.worker[i].kind \in {"account", "token"} => d.worker[i].user = c.worker[i].user
    /\ \A i \in 1..Len(c.main) :
          /\ d.main[i].kind = "notify" <=> c.main[i].kind = "notify"
          /\ d.main[i].kind = "notify" => d.main[i].user = c.main[i].user
          /\ d.main[i].kind = "answer" =>
                /\ c.main[i].kind = "answer"
                /\ d.main[i].request.fresh = c.main[i].request.fresh
                /\ d.main[i].request.user = c.main[i].request.user
    /\ \A r \in d.asking : r.user # None =>
          \E s \in c.asking : s.fresh = r.fresh /\ s.user = r.user

(* Tokens stay sound when nothing is awaited that was not awaited before.      *)
LEMMA SameTokensKeep ==
    ASSUME NEW c \in Clients, NEW d \in Clients, SameTokens(c, d),
           NEW u, TokensAreOfUser(c, u)
    PROVE  TokensAreOfUser(d, u)
<1> DEFINE w == Len(c.worker)
           m == Len(c.main)
<1>1. /\ w \in Nat /\ m \in Nat /\ Len(d.worker) = w /\ Len(d.main) = m /\ d.user = c.user
      /\ DOMAIN c.worker = 1..w /\ DOMAIN d.worker = 1..w
      /\ DOMAIN c.main = 1..m /\ DOMAIN d.main = 1..m
  BY ClientFields DEF SameTokens
<1>2. /\ \A i \in 1..w :
          /\ d.worker[i].kind = "account" <=> c.worker[i].kind = "account"
          /\ d.worker[i].kind = "token" => c.worker[i].kind = "token"
          /\ d.worker[i].kind \in {"account", "token"} => d.worker[i].user = c.worker[i].user
      /\ \A i \in 1..m :
          /\ d.main[i].kind = "notify" <=> c.main[i].kind = "notify"
          /\ d.main[i].kind = "notify" => d.main[i].user = c.main[i].user
          /\ d.main[i].kind = "answer" =>
                /\ c.main[i].kind = "answer"
                /\ d.main[i].request.fresh = c.main[i].request.fresh
                /\ d.main[i].request.user = c.main[i].request.user
      /\ \A r \in d.asking : r.user # None =>
          \E s \in c.asking : s.fresh = r.fresh /\ s.user = r.user
  BY DEF SameTokens
<1> HIDE DEF w, m
<1>3. ASSUME NEW n \in 0..w, NEW v, Heads(c, n, v) PROVE Heads(d, n, v)
  <2>1. CASE c.user = v /\ \A k \in 1..n : c.worker[k].kind # "account"
    <3>1. \A k \in 1..n : d.worker[k].kind # "account"
      BY <2>1, <1>1, <1>2
    <3> QED
      BY <2>1, <3>1, <1>1 DEF Heads
  <2>2. CASE \E j \in 1..n : /\ c.worker[j].kind = "account" /\ c.worker[j].user = v
                            /\ \A k \in (j + 1)..n : c.worker[k].kind # "account"
    <3>1. PICK j \in 1..n : /\ c.worker[j].kind = "account" /\ c.worker[j].user = v
                            /\ \A k \in (j + 1)..n : c.worker[k].kind # "account"
      BY <2>2
    <3>2. d.worker[j].kind = "account" /\ d.worker[j].user = v
      BY <3>1, <1>1, <1>2
    <3>3. \A k \in (j + 1)..n : d.worker[k].kind # "account"
      BY <3>1, <1>1, <1>2
    <3> QED
      BY <3>2, <3>3 DEF Heads
  <2> QED
    BY <2>1, <2>2, <1>3 DEF Heads
<1>4. ASSUME NEW n \in 0..m, Notifies(c, n) PROVE Notifies(d, n)
  BY <1>1, <1>2, <1>4 DEF Notifies
<1>5. /\ Notifies(c, m) \/ Heads(c, w, u)
      /\ \A i \in 1..m : c.main[i].kind = "notify" =>
            c.main[i].user = u \/ \E j \in (i + 1)..m : c.main[j].kind = "notify"
      /\ \A r \in c.asking : r.fresh /\ r.user # None => Notifies(c, m) \/ Heads(c, w, r.user)
      /\ \A i \in 1..m :
          c.main[i].kind = "answer" /\ c.main[i].request.fresh /\ c.main[i].request.user # None =>
              Notifies(c, i - 1) \/ Heads(c, w, c.main[i].request.user)
      /\ \A i \in 1..w :
          c.worker[i].kind = "token" /\ c.worker[i].user # None => Heads(c, i - 1, c.worker[i].user)
  BY <1>1 DEF TokensAreOfUser, w, m
<1>6. Notifies(d, m) \/ Heads(d, w, u)
  BY <1>1, <1>3, <1>4, <1>5
<1>7. ASSUME NEW r \in d.asking, r.fresh, r.user # None
      PROVE  Notifies(d, m) \/ Heads(d, w, r.user)
  <2>1. PICK s \in c.asking : s.fresh /\ s.user = r.user
    BY <1>2, <1>7
  <2> QED
    BY <2>1, <1>1, <1>3, <1>4, <1>5, <1>7
<1>8. ASSUME NEW i \in 1..m, d.main[i].kind = "answer", d.main[i].request.fresh,
             d.main[i].request.user # None
      PROVE  Notifies(d, i - 1) \/ Heads(d, w, d.main[i].request.user)
  BY <1>1, <1>2, <1>3, <1>4, <1>5, <1>8
<1>9. ASSUME NEW i \in 1..w, d.worker[i].kind = "token", d.worker[i].user # None
      PROVE  Heads(d, i - 1, d.worker[i].user)
  BY <1>1, <1>2, <1>3, <1>5, <1>9
<1>10. ASSUME NEW i \in 1..m, d.main[i].kind = "notify"
       PROVE  d.main[i].user = u \/ \E j \in (i + 1)..m : d.main[j].kind = "notify"
  BY <1>1, <1>2, <1>5, <1>10
<1> QED
  BY <1>1, <1>6, <1>7, <1>8, <1>9, <1>10 DEF TokensAreOfUser

(* What filling and starting leave alone.                                      *)
Leaves(c, d) ==
    /\ d \in Clients
    /\ d.queue = c.queue /\ d.user = c.user /\ d.network = c.network
    /\ d.handshake = c.handshake /\ d.main = c.main /\ d.worker = c.worker
    /\ d.asking \in {c.asking, c.asking \cup {NewRequest}}
    /\ IsOpen(d) <=> IsOpen(c)

(* A step that leaves state, requests and both queues alone.                   *)
LEMMA LeavesTokens ==
    ASSUME NEW c \in Clients, NEW d, Leaves(c, d), NEW u, TokensAreOfUser(c, u)
    PROVE  TokensAreOfUser(d, u)
<1>1. SameTokens(c, d)
  BY DEF Leaves, SameTokens, NewRequest
<1> QED
  BY <1>1, SameTokensKeep DEF Leaves

(* A new request is current and nobody's.                                      *)
LEMMA RequestTypes == NewRequest \in Requests /\ NewRequest.current /\ NewRequest.user = None
  BY DEF NewRequest, Requests

(* A stream that is not started starts for the batches of the pipeline, or      *)
(* waits first.                                                                *)
LEMMA StartFacts ==
    ASSUME NEW c, Sound(c), c.network, ~IsStarted(c), c.pipeline # <<>>
    PROVE  /\ Sound(Start(c)) /\ Leaves(c, Start(c)) /\ IsStarted(Start(c)) /\ ~IsOpen(Start(c))
           /\ Start(c).pipeline = c.pipeline /\ Start(c).call = c.call /\ Start(c).idle = c.idle
<1>1. /\ c \in Clients /\ c.asserted /\ c.call = None /\ ~c.idle /\ NoneAwaited(c)
      /\ c.state \in {"Initial", "Error"}
  BY ClientFields DEF Sound, StreamSound, TokensSound, IsStarted, IsOpen, States
<1>2. CASE c.state = "Error"
  <2> DEFINE d == [c EXCEPT !.state = "Backoff"]
  <2>1. Start(c) = d
    BY <1>2 DEF Start
  <2>2. /\ d \in Clients /\ d.state = "Backoff" /\ d.queue = c.queue /\ d.user = c.user
        /\ d.network = c.network /\ d.pipeline = c.pipeline /\ d.handshake = c.handshake
        /\ d.idle = c.idle /\ d.call = c.call /\ d.asking = c.asking /\ d.main = c.main
        /\ d.worker = c.worker /\ d.asserted = c.asserted
    BY <1>1 DEF Clients
  <2> HIDE DEF d
  <2>3. NoneAwaited(d)
    BY <1>1, <2>2 DEF NoneAwaited
  <2>4. TokensSound(d)
    BY <2>2, <2>3 DEF TokensSound, NoneAwaited
  <2>5. QueuesSound(d) /\ StreamSound(d) /\ WorkerSound(d) /\ PipelineSound(d) /\ CallSound(d)
    BY <1>1, <2>2 DEF Sound, QueuesSound, StreamSound, WorkerSound, PipelineSound, CallSound,
       IsStarted, IsOpen
  <2> QED
    BY <1>1, <2>1, <2>2, <2>4, <2>5 DEF Sound, Leaves, IsStarted, IsOpen
<1>3. CASE c.state = "Initial"
  <2> DEFINE d == [c EXCEPT !.state = "Starting", !.asking = @ \cup {NewRequest}]
  <2>1. Start(c) = d
    BY <1>1, <1>3, Asserting DEF Start
  <2>2. /\ d \in Clients /\ d.state = "Starting" /\ d.queue = c.queue /\ d.user = c.user
        /\ d.network = c.network /\ d.pipeline = c.pipeline /\ d.handshake = c.handshake
        /\ d.idle = c.idle /\ d.call = c.call /\ d.asking = c.asking \cup {NewRequest}
        /\ d.main = c.main /\ d.worker = c.worker /\ d.asserted = c.asserted
    BY <1>1, RequestTypes DEF Clients
  <2> HIDE DEF d
  <2>3. TokensSound(d)
    BY <1>1, <2>2, RequestTypes DEF TokensSound, NoneAwaited
  <2>4. QueuesSound(d) /\ StreamSound(d) /\ WorkerSound(d) /\ PipelineSound(d) /\ CallSound(d)
    BY <1>1, <2>2 DEF Sound, QueuesSound, StreamSound, WorkerSound, PipelineSound, CallSound,
       IsStarted, IsOpen
  <2> QED
    BY <1>1, <2>1, <2>2, <2>3, <2>4 DEF Sound, Leaves, IsStarted, IsOpen
<1> QED
  BY <1>1, <1>2, <1>3

(* Starting when there is a need keeps the client sound.                       *)
LEMMA StartIfNeededFacts ==
    ASSUME NEW c, Sound(c), NEW d, d = StartIfNeeded(c)
    PROVE  /\ Sound(d) /\ Leaves(c, d)
           /\ d.pipeline = c.pipeline /\ d.call = c.call /\ d.idle = c.idle
           /\ IsStarted(c) => d = c
           /\ c.network /\ c.pipeline # <<>> => IsStarted(d)
<1>1. CASE ShouldStart(c)
  BY <1>1, StartFacts DEF ShouldStart, StartIfNeeded, Sound
<1>2. CASE ~ShouldStart(c)
  BY <1>2 DEF ShouldStart, StartIfNeeded, Sound, Leaves
<1> QED
  BY <1>1, <1>2

(* What a refill makes of the client, before it starts the stream.             *)
Filled(c) ==
    [c EXCEPT !.pipeline = @ \o Following(c),
              !.idle = IF SendsAtOnce(c) /\ Following(c) # <<>> THEN FALSE
                       ELSE @ \/ (IsOpen(c) /\ c.pipeline \o Following(c) = <<>>),
              !.call = IF SendsAtOnce(c) /\ Following(c) # <<>>
                       THEN [c.call EXCEPT !.out = @ \o Following(c)] ELSE @]

(* What Fill makes of a client before it may start the stream.                 *)
LEMMA FilledFields ==
    ASSUME NEW c, Sound(c), NEW d, d = Filled(c)
    PROVE  /\ d \in Clients /\ d.queue = c.queue /\ d.user = c.user /\ d.network = c.network
           /\ d.pipeline = c.pipeline \o Following(c) /\ d.state = c.state
           /\ d.handshake = c.handshake /\ d.asking = c.asking /\ d.main = c.main
           /\ d.worker = c.worker /\ d.asserted = c.asserted
           /\ d.idle = IF SendsAtOnce(c) /\ Following(c) # <<>> THEN FALSE
                       ELSE c.idle \/ (IsOpen(c) /\ d.pipeline = <<>>)
           /\ IF SendsAtOnce(c) /\ Following(c) # <<>>
              THEN /\ c.call \in Calls /\ d.call \in Calls
                   /\ d.call = [c.call EXCEPT !.out = c.call.out \o Following(c)]
              ELSE d.call = c.call
<1> DEFINE n == Following(c)
           sends == SendsAtOnce(c) /\ n # <<>>
           p == c.pipeline \o n
           i == IF sends THEN FALSE ELSE c.idle \/ (IsOpen(c) /\ p = <<>>)
           k == IF sends THEN [c.call EXCEPT !.out = c.call.out \o n] ELSE c.call
<1>1. c \in Clients /\ n \in Seq(BatchIds) /\ p \in Seq(BatchIds) /\ n \in Seq(Messages)
  <2>1. n \in Seq(BatchIds) /\ p \in Seq(BatchIds)
    BY FollowingFacts DEF Sound
  <2>2. BatchIds \subseteq Messages
    BY DEF Messages
  <2> QED
    BY <2>1, <2>2 DEF Sound
<1>2. d = [c EXCEPT !.pipeline = p, !.idle = i, !.call = k]
  BY DEF Filled
<1>3. sends => c.call \in Calls
  BY ClientFields DEF SendsAtOnce, Sound, StreamSound
<1>4. sends => k \in Calls
  <2> HIDE DEF n
  <2> SUFFICES ASSUME sends PROVE [c.call EXCEPT !.out = c.call.out \o n] \in Calls
    OBVIOUS
  <2>1. c.call \in Calls /\ c.call.out \o n \in Seq(Messages)
    BY <1>1, <1>3, CallFields
  <2> QED
    BY <2>1 DEF Calls
<1>5. k \in Calls \cup {None} /\ i \in BOOLEAN
  BY <1>1, <1>4, ClientFields DEF IsOpen
<1>6. /\ sends <=> SendsAtOnce(c) /\ Following(c) # <<>>
      /\ p = c.pipeline \o Following(c)
      /\ i = IF sends THEN FALSE ELSE c.idle \/ (IsOpen(c) /\ p = <<>>)
      /\ k = IF sends THEN [c.call EXCEPT !.out = c.call.out \o Following(c)] ELSE c.call
  OBVIOUS
<1> HIDE DEF n, sends, p, i, k
<1>7. /\ d \in Clients /\ d.queue = c.queue /\ d.user = c.user /\ d.network = c.network
      /\ d.pipeline = p /\ d.state = c.state
      /\ d.handshake = c.handshake /\ d.asking = c.asking /\ d.main = c.main
      /\ d.worker = c.worker /\ d.asserted = c.asserted /\ d.idle = i /\ d.call = k
  BY <1>1, <1>2, <1>5 DEF Clients
<1> QED
  BY <1>3, <1>4, <1>6, <1>7

(* Fill puts into the pipeline what there is room for, and sends it.           *)
LEMMA FillUnfolds ==
    ASSUME NEW c, Sound(c)
    PROVE  Fill(c) = IF c.network THEN StartIfNeeded(Filled(c)) ELSE c
<1> DEFINE n == Following(c)
           f == [c EXCEPT !.pipeline = @ \o n, !.idle = @ \/ (IsOpen(c) /\ c.pipeline \o n = <<>>)]
<1>1. CASE ~c.network
  BY <1>1 DEF Fill, StartIfNeeded, ShouldStart
<1>2. CASE c.network
  <2>1. Fill(c) = StartIfNeeded(IF SendsAtOnce(c) THEN SendBatches(f, n) ELSE f)
    BY <1>2 DEF Fill, Following
  <2>2. CASE ~SendsAtOnce(c) \/ n = <<>>
    <3>1. f = Filled(c)
      BY <2>2, ClientFields DEF Filled, Sound, Clients
    <3>2. n = <<>> /\ f \in Clients => SendBatches(f, n) = f
      <4>1. f.asserted = c.asserted
        BY DEF Sound, Clients
      <4> QED
        BY <4>1, Asserting DEF SendBatches, Send, Sound, StreamSound
    <3>3. f \in Clients
      BY <3>1, FilledFields
    <3>4. (IF SendsAtOnce(c) THEN SendBatches(f, n) ELSE f) = f
      BY <2>2, <3>2, <3>3
    <3> QED
      BY <1>2, <2>1, <3>1, <3>4
  <2>3. CASE SendsAtOnce(c) /\ n # <<>>
    <3> DEFINE g == [f EXCEPT !.call.out = @ \o n, !.idle = FALSE]
    <3>1. /\ f \in Clients /\ f.asserted /\ f.state = c.state /\ f.handshake = c.handshake
          /\ f.call = c.call
      <4>1. c.pipeline \o n \in Seq(BatchIds)
        BY FollowingFacts DEF Sound
      <4> QED
        BY <4>1 DEF Sound, StreamSound, Clients, IsOpen
    <3>2. SendBatches(f, n) = g
      <4>1. (n = <<>> \/ f.handshake) = TRUE /\ IsOpen(f) = TRUE
        BY <2>3, <3>1, ClientFields DEF SendsAtOnce, IsOpen
      <4>2. HardAssert(f, n = <<>> \/ f.handshake) = f /\ HardAssert(f, IsOpen(f)) = f
        BY <3>1, <4>1, Asserting
      <4> HIDE DEF f, n
      <4>3. SendBatches(f, n) = Send(f, n)
        BY <4>2 DEF SendBatches
      <4> QED
        BY <2>3, <4>2, <4>3 DEF Send, n
    <3>3. g = Filled(c)
      <4>1. Filled(c) = [c EXCEPT !.pipeline = @ \o n, !.idle = FALSE,
                                  !.call = [c.call EXCEPT !.out = @ \o n]]
        BY <2>3 DEF Filled
      <4>2. g = [f EXCEPT !.call = [c.call EXCEPT !.out = @ \o n], !.idle = FALSE]
        BY <3>1
      <4> QED
        BY <4>1, <4>2 DEF Sound, Clients
    <3> QED
      BY <1>2, <2>1, <2>3, <3>2, <3>3
  <2> QED
    BY <2>2, <2>3
<1> QED
  BY <1>1, <1>2

(* What the call carries.                                                      *)
LEMMA FlightTypes ==
    ASSUME NEW c \in Clients, WorkerSound(c), c.call # None
    PROVE  /\ c.call \in Calls /\ Read(c) \in Seq(Messages) /\ Coming(c) \in Seq(Messages)
           /\ Unwritten(c) \in Seq(Messages)
<1>1. c.call \in Calls /\ c.call.out \in Seq(Messages) /\ c.call.toClient \in Seq(Messages)
  BY ClientFields, CallFields
<1>2. Read(c) \in Seq(Messages)
  <2>1. CASE Posted(c, {"read"})
    <3> DEFINE i == CHOOSE i \in DOMAIN c.worker : c.worker[i].kind = "read"
    <3>1. i \in DOMAIN c.worker /\ c.worker[i].kind = "read"
      BY <2>1 DEF Posted
    <3> HIDE DEF i
    <3>2. c.worker[i] \in Tasks
      <4>1. c.worker \in Seq(Tasks)
        BY ClientFields
      <4> QED
        BY <3>1, <4>1
    <3>3. c.worker[i].message \in Messages
      BY <3>1, <3>2, TaskFields
    <3>4. Read(c) = <<c.worker[i].message>>
      BY <2>1 DEF Read, i
    <3> QED
      BY <3>3, <3>4
  <2>2. CASE ~Posted(c, {"read"})
    BY <2>2 DEF Read
  <2> QED
    BY <2>1, <2>2
<1>3. Unwritten(c) \in Seq(Messages)
  <2>1. CASE Posted(c, {"written", "writeFailed"})
    <3>1. c.call.out # <<>>
      BY <2>1 DEF Posted, WorkerSound
    <3> QED
      BY <2>1, <3>1, <1>1, TailFacts DEF Unwritten
  <2>2. CASE ~Posted(c, {"written", "writeFailed"})
    BY <2>2, <1>1 DEF Unwritten
  <2> QED
    BY <2>1, <2>2
<1> QED
  BY <1>1, <1>2, <1>3, ConcatFacts DEF Coming

(* The tail of two sequences in a row.                                         *)
LEMMA TailConcat ==
    ASSUME NEW S, NEW s \in Seq(S), NEW t \in Seq(S), s # <<>>
    PROVE  Tail(s \o t) = Tail(s) \o t /\ s \o t # <<>>
<1>1. s = <<Head(s)>> \o Tail(s) /\ Head(s) \in S /\ Tail(s) \in Seq(S)
  BY TailFacts
<1>2. s \o t = <<Head(s)>> \o (Tail(s) \o t)
  BY <1>1, ConcatAssoc
<1>3. Tail(s) \o t \in Seq(S)
  BY <1>1
<1> QED
  BY <1>1, <1>2, <1>3

(* Messages that are written behind those already there.                       *)
LEMMA FlightGrows ==
    ASSUME NEW S, NEW a \in Seq(S), NEW b \in Seq(S), NEW o \in Seq(S), NEW n \in Seq(S)
    PROVE  (a \o b) \o (o \o n) = ((a \o b) \o o) \o n
<1>1. a \o b \in Seq(S)
  OBVIOUS
<1> QED
  BY <1>1, ConcatAssoc, SMTT(30)

(* The elements of two sequences in a row are theirs.                          *)
LEMMA ConcatElements ==
    ASSUME NEW S, NEW s \in Seq(S), NEW t \in Seq(S), NEW i \in DOMAIN (s \o t)
    PROVE  \/ i \in DOMAIN s /\ (s \o t)[i] = s[i]
           \/ \E j \in DOMAIN t : (s \o t)[i] = t[j]
<1>1. /\ Len(s) \in Nat /\ Len(t) \in Nat /\ i \in 1..(Len(s) + Len(t))
      /\ DOMAIN s = 1..Len(s) /\ DOMAIN t = 1..Len(t)
  OBVIOUS
<1>2. CASE i <= Len(s)
  BY <1>1, <1>2
<1>3. CASE i > Len(s)
  <2>1. i - Len(s) \in DOMAIN t /\ (s \o t)[i] = t[i - Len(s)]
    BY <1>1, <1>3
  <2> QED
    BY <2>1
<1> QED
  BY <1>1, <1>2, <1>3

(* Filling keeps the client sound: what is sent joins the end of the pipeline. *)
LEMMA FilledSound ==
    ASSUME NEW c, Sound(c), c.network, NEW d, d = Filled(c)
    PROVE  /\ Sound(d) /\ Leaves(c, d)
           /\ \A u : Answers(d, u) = Answers(c, u)
<1> DEFINE n == Following(c)
<1>1. /\ d \in Clients /\ d.queue = c.queue /\ d.user = c.user /\ d.network = c.network
      /\ d.pipeline = c.pipeline \o n /\ d.state = c.state
      /\ d.handshake = c.handshake /\ d.asking = c.asking /\ d.main = c.main
      /\ d.worker = c.worker /\ d.asserted = c.asserted
      /\ d.idle = IF SendsAtOnce(c) /\ n # <<>> THEN FALSE ELSE c.idle \/ (IsOpen(c) /\ d.pipeline = <<>>)
      /\ IF SendsAtOnce(c) /\ n # <<>>
         THEN /\ c.call \in Calls /\ d.call \in Calls
              /\ d.call = [c.call EXCEPT !.out = c.call.out \o n]
         ELSE d.call = c.call
  BY FilledFields, ZenonT(40)
<1>2. /\ n \in Seq(BatchIds) /\ c.pipeline \in Seq(BatchIds) /\ c.pipeline \o n \in Seq(BatchIds)
      /\ PipelineSound(d)
      /\ \A i \in DOMAIN n : Author[n[i]] = c.user
      /\ d.pipeline = <<>> <=> c.pipeline = <<>> /\ n = <<>>
  <2>1. /\ n \in Seq(BatchIds) /\ c.pipeline \in Seq(BatchIds) /\ c.pipeline \o n \in Seq(BatchIds)
        /\ \A i \in DOMAIN n : Author[n[i]] = c.user
    BY FollowingFacts, ClientFields DEF Sound
  <2>2. PipelineSound(d)
    BY <1>1, FollowingFacts DEF Sound, PipelineSound
  <2>3. d.pipeline = <<>> <=> c.pipeline = <<>> /\ n = <<>>
    <3> HIDE DEF n
    <3> SUFFICES ASSUME c.pipeline \o n = <<>> PROVE c.pipeline = <<>> /\ n = <<>>
      BY <1>1
    <3>1. Len(c.pipeline) + Len(n) = 0 /\ Len(c.pipeline) \in Nat /\ Len(n) \in Nat
      BY <2>1
    <3>2. Len(c.pipeline) = 0 /\ Len(n) = 0
      BY <3>1
    <3> QED
      BY <2>1, <3>2
  <2> QED
    BY <2>1, <2>2, <2>3
<1>3. n \in Seq(Messages) /\ c.pipeline \in Seq(Messages) /\ c.pipeline \o n \in Seq(Messages)
  BY <1>2 DEF Messages
<1> HIDE DEF n
<1>4. /\ d.call # None <=> c.call # None
      /\ c.call # None =>
            /\ c.call \in Calls /\ d.call \in Calls
            /\ d.call.user = c.call.user /\ d.call.toServer = c.call.toServer
            /\ d.call.toClient = c.call.toClient /\ d.call.ended = c.call.ended
            /\ d.call.finishing = c.call.finishing
            /\ d.call.out = IF SendsAtOnce(c) THEN c.call.out \o n ELSE c.call.out
            /\ c.call.out \in Seq(Messages)
  <2>1. CASE SendsAtOnce(c) /\ n # <<>>
    <3>1. c.call \in Calls /\ d.call \in Calls /\ d.call = [c.call EXCEPT !.out = c.call.out \o n]
      BY <1>1, <2>1
    <3> QED
      BY <2>1, <3>1, CallFields DEF Calls
  <2>2. CASE ~(SendsAtOnce(c) /\ n # <<>>)
    <3>1. d.call = c.call
      BY <1>1, <2>2
    <3>2. c.call # None => c.call \in Calls /\ c.call.out \in Seq(Messages)
      BY ClientFields, CallFields DEF Sound
    <3>3. c.call # None => c.call.out \o <<>> = c.call.out
      BY <3>2
    <3> QED
      BY <2>2, <3>1, <3>2, <3>3
  <2> QED
    BY <2>1, <2>2
<1>5. /\ Read(d) = Read(c)
      /\ Live(d) <=> Live(c)
      /\ Posted(d, {"written", "writeFailed"}) <=> Posted(c, {"written", "writeFailed"})
      /\ Live(c) => Coming(d) = Coming(c)
  <2>1. Read(d) = Read(c)
    BY <1>1 DEF Read, Posted
  <2>2. Live(d) <=> Live(c)
    BY <1>4 DEF Live
  <2>3. Posted(d, {"written", "writeFailed"}) <=> Posted(c, {"written", "writeFailed"})
    BY <1>1 DEF Posted
  <2>4. Live(c) => Coming(d) = Coming(c)
    BY <2>1, <1>4 DEF Live, Coming
  <2> QED
    BY <2>1, <2>2, <2>3, <2>4
<1>6. StreamSound(d)
  <2>1. StreamSound(c)
    BY DEF Sound
  <2> QED
    <3>1. d.asserted /\ (d.call # None <=> IsOpen(d))
      BY <1>1, <1>4, <2>1 DEF StreamSound, IsOpen
    <3>2. IsStarted(d) => d.network /\ (d.pipeline = <<>> => IsOpen(d) /\ d.handshake)
      BY <1>1, <1>2, <2>1 DEF StreamSound, IsOpen, IsStarted
    <3>3. d.idle => IsOpen(d) /\ d.handshake /\ d.pipeline = <<>>
      <4>1. CASE c.idle
        <5>1. IsOpen(c) /\ c.handshake /\ c.pipeline = <<>>
          BY <4>1, <2>1 DEF StreamSound
        <5>2. d.idle => n = <<>>
          BY <1>1, <5>1 DEF SendsAtOnce
        <5> QED
          BY <1>1, <1>2, <5>1, <5>2 DEF IsOpen
      <4>2. CASE ~c.idle
        <5>1. d.idle => IsOpen(c) /\ d.pipeline = <<>>
          BY <1>1, <4>2
        <5> QED
          BY <1>1, <3>2, <5>1 DEF IsOpen, IsStarted
      <4> QED
        BY <4>1, <4>2
    <3>4. ~d.network => d.pipeline = <<>>
      BY <1>1
    <3> QED
      BY <3>1, <3>2, <3>3, <3>4 DEF StreamSound
<1>7. TokensSound(d) /\ QueuesSound(d)
  BY <1>1 DEF Sound, TokensSound, NoneAwaited, QueuesSound
<1>8. WorkerSound(d)
  <2>1. WorkerSound(c)
    BY DEF Sound
  <2>2. c.call # None /\ c.call.out # <<>> => d.call.out # <<>>
    BY <1>3, <1>4, TailConcat
  <2>3. \A i \in DOMAIN c.worker : IsOfCall(c.worker[i]) => c.call # None
    BY <2>1 DEF WorkerSound
  <2>4. \A i \in DOMAIN d.worker : d.worker[i].kind \in {"readFailed", "writeFailed"} => d.call.ended # "no"
    BY <1>1, <1>4, <2>1 DEF WorkerSound, IsOfCall
  <2>5. \A i \in DOMAIN d.worker : d.worker[i].kind \in {"written", "writeFailed"} => d.call.out # <<>>
    BY <1>1, <2>1, <2>2 DEF WorkerSound, IsOfCall
  <2>6. \A i \in DOMAIN d.worker :
          IsOfCall(d.worker[i]) => (d.worker[i].kind = "finished" <=> d.call.finishing)
    BY <1>1, <1>4, <2>1 DEF WorkerSound
  <2> QED
    BY <1>1, <1>4, <2>1, <2>4, <2>5, <2>6 DEF WorkerSound
<1>9. CallSound(d)
  <2> SUFFICES ASSUME c.call # None PROVE CallSound(d)
    BY <1>4 DEF CallSound
  <2>1. /\ c.call.user = c.user
        /\ c.call.finishing => c.call.ended # "no"
        /\ \A messages \in {c.call.out, c.call.toServer} : \A i \in DOMAIN messages :
              messages[i] # Handshake => Author[messages[i]] = c.user
        /\ Live(c) => IsPrefixOf(Coming(c), Sent(c))
        /\ Live(c) /\ c.call.ended = "no" => InFlight(c) = Sent(c)
    BY DEF Sound, CallSound
  <2>2. /\ c.call \in Calls /\ Coming(c) \in Seq(Messages) /\ Unwritten(c) \in Seq(Messages)
        /\ c.call.toServer \in Seq(Messages) /\ c.call.out \in Seq(Messages)
    BY FlightTypes, CallFields DEF Sound
  <2>3. IsOpen(c)
    BY DEF Sound, StreamSound
  <2>4. \A i \in DOMAIN d.call.out : d.call.out[i] # Handshake => Author[d.call.out[i]] = c.user
    <3>1. \A i \in DOMAIN c.call.out : c.call.out[i] # Handshake => Author[c.call.out[i]] = c.user
      BY <2>1
    <3>2. CASE SendsAtOnce(c)
      <4>1. d.call.out = c.call.out \o n
        BY <1>4, <3>2
      <4>2. ASSUME NEW i \in DOMAIN d.call.out, d.call.out[i] # Handshake
            PROVE  Author[d.call.out[i]] = c.user
        <5>1. i \in DOMAIN (c.call.out \o n)
          BY <4>1, <4>2
        <5>2. \/ i \in DOMAIN c.call.out /\ (c.call.out \o n)[i] = c.call.out[i]
              \/ \E j \in DOMAIN n : (c.call.out \o n)[i] = n[j]
          BY <5>1, <1>3, <2>2, ConcatElements
        <5> QED
          BY <5>2, <4>1, <4>2, <3>1, <1>2
      <4> QED
        BY <4>2
    <3>3. CASE ~SendsAtOnce(c)
      BY <1>4, <3>1, <3>3
    <3> QED
      BY <3>2, <3>3
  <2>5. CASE c.handshake
    <3>1. SendsAtOnce(c) /\ Sent(c) = c.pipeline /\ Sent(d) = c.pipeline \o n
      BY <1>1, <2>3, <2>5 DEF SendsAtOnce, Sent
    <3>2. Unwritten(d) = Unwritten(c) \o n
      <4>1. d.call.out = c.call.out \o n
        BY <1>4, <3>1
      <4>2. CASE Posted(c, {"written", "writeFailed"})
        <5>1. c.call.out # <<>>
          BY <4>2 DEF Posted, Sound, WorkerSound
        <5> QED
          BY <4>1, <4>2, <5>1, <1>3, <1>5, <2>2, TailConcat DEF Unwritten
      <4>3. CASE ~Posted(c, {"written", "writeFailed"})
        BY <4>1, <4>3, <1>5 DEF Unwritten
      <4> QED
        BY <4>2, <4>3
    <3>3. Live(c) => IsPrefixOf(Coming(d), Sent(d))
      <4>1. IsPrefixOf(c.pipeline, c.pipeline \o n)
        BY <1>3, PrefixOfConcat
      <4> QED
        <5> SUFFICES ASSUME Live(c) PROVE IsPrefixOf(Coming(d), Sent(d))
          OBVIOUS
        <5>1. /\ Coming(c) \in Seq(Messages) /\ c.pipeline \in Seq(Messages)
              /\ c.pipeline \o n \in Seq(Messages) /\ IsPrefixOf(Coming(c), c.pipeline)
          BY <1>3, <2>1, <2>2, <3>1
        <5>2. IsPrefixOf(Coming(c), c.pipeline \o n)
          BY <4>1, <5>1, PrefixTrans, Zenon
        <5> QED
          BY <5>2, <1>5, <3>1
    <3>4. Live(c) /\ c.call.ended = "no" => InFlight(d) = Sent(d)
      <4> DEFINE x == Coming(c)
                 y == c.call.toServer
                 z == Unwritten(c)
      <4>1. (x \o y) \o (z \o n) = ((x \o y) \o z) \o n
        <5>1. x \in Seq(Messages) /\ y \in Seq(Messages) /\ z \in Seq(Messages) /\ n \in Seq(Messages)
          BY <1>3, <2>2
        <5> HIDE DEF x, y, z
        <5> QED
          BY <5>1, FlightGrows, SMTT(30)
      <4>2. InFlight(c) = (x \o y) \o z
        BY DEF InFlight
      <4> SUFFICES ASSUME Live(c), c.call.ended = "no" PROVE InFlight(d) = Sent(d)
        OBVIOUS
      <4>3. InFlight(d) = (x \o y) \o (z \o n)
        BY <1>4, <1>5, <3>2 DEF InFlight
      <4>4. (x \o y) \o z = c.pipeline
        BY <2>1, <3>1, <4>2
      <4> HIDE DEF x, y, z
      <4> QED
        BY <3>1, <4>1, <4>3, <4>4
    <3>5. /\ d.call.user = d.user
          /\ d.call.finishing => d.call.ended # "no"
          /\ \A i \in DOMAIN d.call.toServer :
                d.call.toServer[i] # Handshake => Author[d.call.toServer[i]] = d.user
          /\ \A i \in DOMAIN d.call.out :
                d.call.out[i] # Handshake => Author[d.call.out[i]] = d.user
      BY <1>1, <1>4, <2>1, <2>4
    <3>6. Live(d) => IsPrefixOf(Coming(d), Sent(d))
      BY <1>5, <3>3
    <3>7. Live(d) /\ d.call.ended = "no" => InFlight(d) = Sent(d)
      BY <1>4, <1>5, <3>4
    <3> QED
      BY <3>5, <3>6, <3>7 DEF CallSound
  <2>6. CASE ~c.handshake
    <3>1. ~SendsAtOnce(c) /\ Sent(c) = Sent(d) /\ d.call = c.call
      BY <1>1, <2>6 DEF SendsAtOnce, Sent
    <3>2. Unwritten(d) = Unwritten(c)
      BY <3>1, <1>5 DEF Unwritten
    <3>3. Live(c) => InFlight(d) = InFlight(c)
      BY <3>1, <3>2, <1>5 DEF InFlight
    <3> QED
      BY <1>1, <1>5, <2>1, <3>1, <3>3 DEF CallSound
  <2> QED
    BY <2>5, <2>6
<1>10. Leaves(c, d)
  BY <1>1 DEF Leaves, IsOpen
<1>11. \A u : Answers(d, u) = Answers(c, u)
  BY <1>1, <1>5 DEF Answers
<1> QED
  BY <1>1, <1>2, <1>6, <1>7, <1>8, <1>9, <1>10, <1>11 DEF Sound

(* A refill keeps the client sound, and what the app sees of it.                *)
LEMMA FillFacts ==
    ASSUME NEW c, Sound(c), NEW d, d = Fill(c)
    PROVE  /\ Sound(d) /\ Leaves(c, d)
           /\ \A u : Answers(d, u) = Answers(c, u)
           /\ d.idle => d.queue[d.user] = <<>>
<1>1. CASE ~c.network
  <2>1. d = c
    BY <1>1, FillUnfolds
  <2>2. ~d.idle
    BY <1>1, <2>1 DEF Sound, StreamSound, IsOpen, IsStarted
  <2> QED
    BY <2>1, <2>2 DEF Leaves, Sound
<1>2. CASE c.network
  <2> DEFINE f == Filled(c)
  <2>1. d = StartIfNeeded(f)
    BY <1>2, FillUnfolds
  <2>2. /\ Sound(f) /\ Leaves(c, f) /\ \A u : Answers(f, u) = Answers(c, u)
    BY <1>2, FilledSound
  <2>3. /\ f.queue = c.queue /\ f.user = c.user /\ f.pipeline = c.pipeline \o Following(c)
        /\ f.asking = c.asking
    BY FilledFields
  <2> HIDE DEF f
  <2>4. /\ Sound(d) /\ Leaves(f, d) /\ d.call = f.call /\ d.idle = f.idle
    BY <2>1, <2>2, StartIfNeededFacts
  <2>5. \A u : Answers(d, u) = Answers(f, u)
    BY <2>4 DEF Leaves, Answers, Live, Coming, Read, Posted
  <2>6. f.pipeline = <<>> => c.queue[c.user] = <<>>
    BY <2>3, FollowingFacts DEF Sound
  <2>7. f.idle => f.pipeline = <<>>
    BY <2>2 DEF Sound, StreamSound
  <2> QED
    BY <2>2, <2>3, <2>4, <2>5, <2>6, <2>7 DEF Leaves
<1> QED
  BY <1>1, <1>2, ClientFields DEF Sound

-----------------------------------------------------------------------------
(* Closing and restarting.                                                    *)

(* The tasks of a queue after a close await no token, and of the call do nothing. *)
LEMMA OutdatedAllFacts ==
    /\ \A w \in Seq(Tasks) :
          /\ OutdatedAll(CancelledAll(w)) \in Seq(Tasks)
          /\ Len(OutdatedAll(CancelledAll(w))) = Len(w)
          /\ \A i \in 1..Len(w) : OutdatedAll(CancelledAll(w))[i] = Outdated(Cancelled(w[i]))
    /\ \A m \in Seq(MainTasks) :
          /\ OutdatedAll(m) \in Seq(MainTasks) /\ Len(OutdatedAll(m)) = Len(m)
          /\ \A i \in 1..Len(m) : OutdatedAll(m)[i] = Outdated(m[i])
<1>1. ASSUME NEW w \in Seq(Tasks)
      PROVE  /\ OutdatedAll(CancelledAll(w)) \in Seq(Tasks)
             /\ Len(OutdatedAll(CancelledAll(w))) = Len(w)
             /\ \A i \in 1..Len(w) : OutdatedAll(CancelledAll(w))[i] = Outdated(Cancelled(w[i]))
  <2>1. DOMAIN w = 1..Len(w) /\ Len(w) \in Nat /\ \A i \in 1..Len(w) : w[i] \in Tasks
    OBVIOUS
  <2>2. \A i \in 1..Len(w) : Outdated(Cancelled(w[i])) \in Tasks
    BY <2>1, OutdatedFacts
  <2>3. OutdatedAll(CancelledAll(w)) = [i \in 1..Len(w) |-> Outdated(Cancelled(w[i]))]
    BY <2>1 DEF OutdatedAll, CancelledAll
  <2> QED
    BY <2>1, <2>2, <2>3
<1>2. ASSUME NEW m \in Seq(MainTasks)
      PROVE  /\ OutdatedAll(m) \in Seq(MainTasks) /\ Len(OutdatedAll(m)) = Len(m)
             /\ \A i \in 1..Len(m) : OutdatedAll(m)[i] = Outdated(m[i])
  <2>1. DOMAIN m = 1..Len(m) /\ Len(m) \in Nat /\ \A i \in 1..Len(m) : m[i] \in MainTasks
    OBVIOUS
  <2>2. \A i \in 1..Len(m) : Outdated(m[i]) \in MainTasks
    BY <2>1, OutdatedFacts
  <2>3. OutdatedAll(m) = [i \in 1..Len(m) |-> Outdated(m[i])]
    BY <2>1 DEF OutdatedAll
  <2> QED
    BY <2>1, <2>2, <2>3
<1> QED
  BY <1>1, <1>2

(* A stream that has been closed has left nothing on the queues that it would   *)
(* still listen to.                                                            *)
LEMMA ClosedFacts ==
    ASSUME NEW c \in Clients, c.asserted, IsStarted(c), NEW status, NEW d, d = Closed(c, status)
    PROVE  /\ d \in Clients /\ d.queue = c.queue /\ d.user = c.user /\ d.network = c.network
           /\ d.pipeline = c.pipeline /\ d.handshake = c.handshake /\ d.asserted
           /\ d.state = (IF status = "ok" THEN "Initial" ELSE "Error")
           /\ d.call = None /\ ~d.idle
           /\ NoneAwaited(d) /\ SameTokens(c, d)
           /\ \A i \in DOMAIN d.worker : ~IsOfCall(d.worker[i])
<1> DEFINE a == {[r EXCEPT !.current = FALSE] : r \in c.asking}
           m == OutdatedAll(c.main)
           w == OutdatedAll(CancelledAll(c.worker))
           s == IF status = "ok" THEN "Initial" ELSE "Error"
<1>1. d = [c EXCEPT !.idle = FALSE, !.call = None, !.asking = a, !.main = m, !.worker = w, !.state = s]
  <2>1. HardAssert(c, IsStarted(c)) = c
    BY Asserting
  <2> QED
    BY <2>1 DEF Closed
<1>2. /\ \A r \in a : r \in Requests /\ ~r.current
      /\ \A r \in a : \E q \in c.asking : q.fresh = r.fresh /\ q.user = r.user
  <2> SUFFICES ASSUME NEW q \in c.asking
               PROVE  /\ [q EXCEPT !.current = FALSE] \in Requests
                      /\ ~[q EXCEPT !.current = FALSE].current
                      /\ [q EXCEPT !.current = FALSE].fresh = q.fresh
                      /\ [q EXCEPT !.current = FALSE].user = q.user
    OBVIOUS
  <2>1. q \in Requests
    BY ClientFields
  <2> QED
    BY <2>1 DEF Requests
<1>3. /\ c.worker \in Seq(Tasks) /\ Len(c.worker) \in Nat /\ DOMAIN c.worker = 1..Len(c.worker)
      /\ \A i \in 1..Len(c.worker) : c.worker[i] \in Tasks
      /\ c.main \in Seq(MainTasks) /\ Len(c.main) \in Nat /\ DOMAIN c.main = 1..Len(c.main)
      /\ \A i \in 1..Len(c.main) : c.main[i] \in MainTasks
  <2>1. c.worker \in Seq(Tasks) /\ c.main \in Seq(MainTasks)
    BY ClientFields
  <2> QED
    BY <2>1
<1>4. /\ w \in Seq(Tasks) /\ Len(w) = Len(c.worker) /\ DOMAIN w = 1..Len(c.worker)
      /\ \A i \in 1..Len(c.worker) : w[i] = Outdated(Cancelled(c.worker[i]))
      /\ m \in Seq(MainTasks) /\ Len(m) = Len(c.main) /\ DOMAIN m = 1..Len(c.main)
      /\ \A i \in 1..Len(c.main) : m[i] = Outdated(c.main[i])
  <2>1. /\ w \in Seq(Tasks) /\ Len(w) = Len(c.worker)
        /\ \A i \in 1..Len(c.worker) : w[i] = Outdated(Cancelled(c.worker[i]))
    BY <1>3, OutdatedAllFacts
  <2>2. /\ m \in Seq(MainTasks) /\ Len(m) = Len(c.main)
        /\ \A i \in 1..Len(c.main) : m[i] = Outdated(c.main[i])
    BY <1>3, OutdatedAllFacts
  <2>3. DOMAIN w = 1..Len(w) /\ DOMAIN m = 1..Len(m)
    BY <2>1, <2>2
  <2> QED
    BY <2>1, <2>2, <2>3
<1> HIDE DEF a, m, w, s
<1>5. /\ d \in Clients /\ d.queue = c.queue /\ d.user = c.user /\ d.network = c.network
      /\ d.pipeline = c.pipeline /\ d.handshake = c.handshake /\ d.asserted = c.asserted
      /\ d.state = s /\ d.call = None /\ d.idle = FALSE
      /\ d.asking = a /\ d.main = m /\ d.worker = w
  <2>1. s \in {"Initial", "Error"}
    BY DEF s
  <2>2. a \in SUBSET Requests
    BY <1>2
  <2> QED
    BY <1>1, <1>4, <2>1, <2>2, ZenonT(40) DEF Clients
<1>6. NoneAwaited(d)
  <2>1. \A i \in DOMAIN m : ~Awaited(m[i])
    BY <1>3, <1>4, OutdatedFacts
  <2>2. \A i \in DOMAIN w : ~Awaited(w[i])
    BY <1>3, <1>4, OutdatedFacts
  <2> QED
    BY <1>2, <1>5, <2>1, <2>2 DEF NoneAwaited
<1>7. \A i \in DOMAIN d.worker : ~IsOfCall(d.worker[i])
  <2> SUFFICES ASSUME NEW i \in 1..Len(c.worker) PROVE ~IsOfCall(w[i])
    BY <1>4, <1>5
  <2> DEFINE t == c.worker[i]
  <2>1. t \in Tasks /\ Cancelled(t) \in Tasks /\ w[i] = Outdated(Cancelled(t))
    BY <1>3, <1>4, OutdatedFacts
  <2>2. w[i].kind = Cancelled(t).kind
    BY <2>1, OutdatedFacts
  <2>3. ~IsOfCall(Cancelled(t))
    BY <2>1, OutdatedFacts DEF IsOfCall
  <2> QED
    BY <2>2, <2>3 DEF IsOfCall
<1>8. SameTokens(c, d)
  <2>1. ASSUME NEW i \in 1..Len(c.worker)
        PROVE  /\ w[i].kind = "account" <=> c.worker[i].kind = "account"
               /\ w[i].kind = "token" => c.worker[i].kind = "token"
               /\ w[i].kind \in {"account", "token"} => w[i].user = c.worker[i].user
    <3> DEFINE t == c.worker[i]
    <3>1. t \in Tasks /\ w[i] = Outdated(Cancelled(t))
      BY <1>3, <1>4
    <3>2. CASE IsOfCall(t)
      <4>1. w[i].kind = "cancelled"
        BY <3>1, <3>2, OutdatedFacts
      <4> QED
        BY <3>2, <4>1 DEF IsOfCall
    <3>3. CASE ~IsOfCall(t)
      <4>1. w[i] = Outdated(t)
        BY <3>1, <3>3, OutdatedFacts
      <4> QED
        BY <3>1, <4>1, OutdatedFacts
    <3> QED
      BY <3>2, <3>3
  <2>2. ASSUME NEW i \in 1..Len(c.main)
        PROVE  /\ m[i].kind = "notify" <=> c.main[i].kind = "notify"
               /\ m[i].kind = "notify" => m[i].user = c.main[i].user
               /\ m[i].kind = "answer" =>
                     /\ c.main[i].kind = "answer"
                     /\ m[i].request.fresh = c.main[i].request.fresh
                     /\ m[i].request.user = c.main[i].request.user
    BY <1>3, <1>4, OutdatedFacts
  <2> QED
    BY <1>2, <1>4, <1>5, <2>1, <2>2 DEF SameTokens
<1> QED
  BY <1>5, <1>6, <1>7, <1>8 DEF s

(* A client without a stream, and without tasks of one, is sound.               *)
LEMMA QuietSound ==
    ASSUME NEW c \in Clients, QueuesSound(c), PipelineSound(c), c.asserted, ~IsStarted(c),
           c.call = None, ~c.idle, NoneAwaited(c), ~c.network => c.pipeline = <<>>,
           \A i \in DOMAIN c.worker : ~IsOfCall(c.worker[i])
    PROVE  Sound(c)
<1>1. StreamSound(c)
  BY DEF StreamSound, IsStarted, IsOpen
<1>2. TokensSound(c)
  BY DEF TokensSound, NoneAwaited
<1>3. WorkerSound(c)
  <2>1. \A i \in DOMAIN c.worker :
           c.worker[i].kind \notin {"read", "readFailed", "written", "writeFailed", "finished"}
    BY DEF IsOfCall
  <2> QED
    BY <2>1 DEF WorkerSound
<1>4. CallSound(c)
  BY DEF CallSound
<1> QED
  BY <1>1, <1>2, <1>3, <1>4 DEF Sound

(* A stream that is not open has nothing on the worker queue.                   *)
LEMMA NotOpenFacts ==
    ASSUME NEW c \in Clients, StreamSound(c), WorkerSound(c), ~IsOpen(c)
    PROVE  /\ c.call = None /\ ~c.idle
           /\ \A i \in DOMAIN c.worker : ~IsOfCall(c.worker[i])
  BY DEF StreamSound, WorkerSound

(* An orderly stop does not start the stream again.                            *)
LEMMA StopUnfolds ==
    ASSUME NEW c \in Clients, c.asserted, ~c.network \/ c.pipeline = <<>>
    PROVE  Stop(c) = IF IsStarted(c) THEN [Closed(c, "ok") EXCEPT !.handshake = FALSE] ELSE c
<1> SUFFICES ASSUME IsStarted(c)
             PROVE  Close(c, "ok") = [Closed(c, "ok") EXCEPT !.handshake = FALSE]
  BY DEF Stop
<1> DEFINE d == Closed(c, "ok")
<1>1. d \in Clients /\ d.asserted /\ d.network = c.network /\ d.pipeline = c.pipeline
  BY ClosedFacts
<1> HIDE DEF d
<1>2. ~ShouldStart(d)
  BY <1>1 DEF ShouldStart
<1>3. HardAssert(d, "ok" = "ok" => ~ShouldStart(d)) = d
  BY <1>1, <1>2, Asserting
<1>4. ~GivesUp(d, "ok")
  BY DEF GivesUp
<1>5. OnWriteStreamClose(d, "ok") = d
  BY <1>2, <1>3, <1>4 DEF OnWriteStreamClose, StartIfNeeded
<1> QED
  BY <1>5 DEF Close, d

(* Without the network there is no stream, and the pipeline is empty.  The      *)
(* client may be in the middle of a change of account: its pipeline and call    *)
(* need not be those of the account.                                           *)
LEMMA DisableFacts ==
    ASSUME NEW c \in Clients, QueuesSound(c), StreamSound(c), TokensSound(c), WorkerSound(c),
           NEW d, d = DisableNetwork(c)
    PROVE  /\ Sound(d) /\ d.queue = c.queue /\ d.user = c.user /\ ~d.network
           /\ d.pipeline = <<>> /\ d.call = None /\ ~IsStarted(d) /\ SameTokens(c, d)
           /\ (c.handshake => IsOpen(c)) => ~d.handshake
<1> DEFINE e == [c EXCEPT !.network = FALSE]
           s == Stop(e)
<1>1. /\ e \in Clients /\ e.queue = c.queue /\ e.user = c.user /\ ~e.network
      /\ e.asserted /\ e.state = c.state /\ e.handshake = c.handshake /\ e.call = c.call
      /\ e.idle = c.idle /\ e.main = c.main /\ e.worker = c.worker /\ e.asking = c.asking
  BY DEF Clients, StreamSound
<1> HIDE DEF e
<1>2. /\ s \in Clients /\ s.queue = c.queue /\ s.user = c.user /\ ~s.network /\ s.asserted
      /\ s.state \in {"Initial", "Error"} /\ s.call = None /\ ~s.idle
      /\ NoneAwaited(s) /\ SameTokens(c, s) /\ \A i \in DOMAIN s.worker : ~IsOfCall(s.worker[i])
      /\ (c.handshake => IsOpen(c)) => ~s.handshake
  <2>1. CASE IsStarted(e)
    <3> DEFINE f == Closed(e, "ok")
    <3>1. s = [f EXCEPT !.handshake = FALSE]
      BY <1>1, <2>1, StopUnfolds
    <3>2. /\ f \in Clients /\ f.queue = e.queue /\ f.user = e.user /\ f.network = e.network
          /\ f.asserted /\ f.state = "Initial" /\ f.call = None /\ ~f.idle
          /\ NoneAwaited(f) /\ SameTokens(e, f)
          /\ \A i \in DOMAIN f.worker : ~IsOfCall(f.worker[i])
      BY <1>1, <2>1, ClosedFacts
    <3> HIDE DEF f, s
    <3>3. /\ s \in Clients /\ s.queue = f.queue /\ s.user = f.user /\ s.network = f.network
          /\ s.asserted = f.asserted /\ s.state = f.state /\ s.call = f.call /\ s.idle = f.idle
          /\ s.worker = f.worker /\ s.main = f.main /\ s.asking = f.asking /\ ~s.handshake
      BY <3>1, <3>2 DEF Clients
    <3>4. NoneAwaited(s) /\ SameTokens(c, s)
      BY <1>1, <3>2, <3>3 DEF NoneAwaited, SameTokens
    <3> QED
      BY <1>1, <3>2, <3>3, <3>4
  <2>2. CASE ~IsStarted(e)
    <3>1. s = e
      BY <1>1, <2>2, StopUnfolds
    <3>2. ~IsOpen(c) /\ c.state \in {"Initial", "Error"}
      BY <1>1, <2>2, ClientFields DEF IsStarted, IsOpen, States
    <3>3. NoneAwaited(c)
      BY <3>2 DEF TokensSound
    <3>4. /\ c.call = None /\ ~c.idle /\ \A i \in DOMAIN c.worker : ~IsOfCall(c.worker[i])
      BY <3>2, NotOpenFacts
    <3>5. NoneAwaited(e) /\ SameTokens(c, e)
      BY <1>1, <3>3 DEF NoneAwaited, SameTokens
    <3> QED
      BY <1>1, <3>1, <3>2, <3>4, <3>5
  <2> QED
    BY <2>1, <2>2
<1>3. d = [s EXCEPT !.pipeline = <<>>]
  BY DEF DisableNetwork, e
<1> HIDE DEF s
<1>4. /\ d \in Clients /\ d.queue = c.queue /\ d.user = c.user /\ ~d.network /\ d.asserted
      /\ d.pipeline = <<>>
      /\ d.state = s.state /\ d.call = None /\ d.idle = s.idle /\ d.handshake = s.handshake
      /\ d.main = s.main /\ d.worker = s.worker /\ d.asking = s.asking
  <2>1. <<>> \in Seq(BatchIds)
    OBVIOUS
  <2>2. /\ d \in Clients /\ d.queue = s.queue /\ d.user = s.user /\ d.network = s.network
        /\ d.asserted = s.asserted /\ d.pipeline = <<>>
        /\ d.state = s.state /\ d.call = s.call /\ d.idle = s.idle /\ d.handshake = s.handshake
        /\ d.main = s.main /\ d.worker = s.worker /\ d.asking = s.asking
    BY <1>2, <1>3, <2>1 DEF Clients
  <2> QED
    BY <1>2, <2>2
<1>5. NoneAwaited(d) /\ SameTokens(c, d) /\ ~IsStarted(d)
  BY <1>2, <1>4 DEF NoneAwaited, SameTokens, IsStarted
<1>6. QueuesSound(d) /\ PipelineSound(d)
  <2>1. Len(d.pipeline) = 0 /\ Len(d.queue[d.user]) \in Nat
    BY <1>4, ClientFields
  <2> QED
    BY <1>4, <2>1, CapacityAssumption DEF QueuesSound, PipelineSound, IsPrefixOf
<1>7. Sound(d)
  BY <1>2, <1>4, <1>5, <1>6, QuietSound
<1> QED
  BY <1>2, <1>4, <1>5, <1>7

(* The network comes up, for a client that has nothing under way.               *)
LEMMA EnableFacts ==
    ASSUME NEW c, Sound(c), ~IsStarted(c), NEW d, d = EnableNetwork(c)
    PROVE  /\ Sound(d) /\ d.queue = c.queue /\ d.user = c.user /\ d.call = None
           /\ d.handshake = c.handshake /\ ~d.idle /\ ~IsOpen(d)
           /\ \A u : TokensAreOfUser(c, u) => TokensAreOfUser(d, u)
<1> DEFINE e == [c EXCEPT !.network = TRUE]
<1>0. ~IsOpen(c)
  BY DEF IsOpen, IsStarted
<1>1. /\ e \in Clients /\ e.queue = c.queue /\ e.user = c.user /\ e.network
      /\ e.pipeline = c.pipeline
      /\ e.asserted = c.asserted /\ e.state = c.state /\ e.handshake = c.handshake
      /\ e.call = c.call /\ e.idle = c.idle /\ e.main = c.main /\ e.worker = c.worker
      /\ e.asking = c.asking
  BY DEF Clients, Sound
<1>2. d = Fill(e)
  BY DEF EnableNetwork
<1> HIDE DEF e
<1>3. Sound(e)
  <2>1. c.call = None /\ ~c.idle /\ \A i \in DOMAIN c.worker : ~IsOfCall(c.worker[i])
    BY <1>0, NotOpenFacts DEF Sound
  <2>2. NoneAwaited(c)
    BY DEF Sound, TokensSound, IsStarted
  <2>3. NoneAwaited(e) /\ QueuesSound(e) /\ PipelineSound(e) /\ e.asserted /\ ~IsStarted(e)
    BY <1>1, <2>2 DEF NoneAwaited, QueuesSound, PipelineSound, Sound, StreamSound, IsStarted
  <2> QED
    BY <1>1, <2>1, <2>3, QuietSound
<1>4. SameTokens(c, e)
  BY <1>1 DEF SameTokens
<1>5. Sound(d) /\ Leaves(e, d)
  BY <1>2, <1>3, FillFacts
<1>6. /\ d.queue = c.queue /\ d.user = c.user /\ d.handshake = c.handshake /\ ~IsOpen(d)
  BY <1>0, <1>1, <1>5 DEF Leaves, IsOpen
<1>7. ASSUME NEW u, TokensAreOfUser(c, u) PROVE TokensAreOfUser(d, u)
  <2>1. TokensAreOfUser(e, u)
    BY <1>1, <1>4, <1>7, SameTokensKeep DEF Sound
  <2> QED
    BY <1>1, <1>5, <2>1, LeavesTokens
<1>8. d.call = None /\ ~d.idle
  BY <1>5, <1>6, NotOpenFacts DEF Sound
<1> QED
  BY <1>5, <1>6, <1>7, <1>8

(* Restarting the network leaves a sound client without a call.                *)
LEMMA RestartFacts ==
    ASSUME NEW c \in Clients, QueuesSound(c), StreamSound(c), TokensSound(c), WorkerSound(c),
           NEW d, d = RestartNetwork(c)
    PROVE  /\ Sound(d) /\ d.queue = c.queue /\ d.user = c.user /\ d.call = None /\ ~d.idle
           /\ (c.handshake => IsOpen(c)) => ~d.handshake
           /\ \A u : TokensAreOfUser(c, u) => TokensAreOfUser(d, u)
<1> DEFINE e == DisableNetwork(c)
           f == [e EXCEPT !.state = "Initial"]
<1>1. /\ Sound(e) /\ e.queue = c.queue /\ e.user = c.user /\ ~e.network /\ e.pipeline = <<>>
      /\ e.call = None /\ ~IsStarted(e) /\ SameTokens(c, e)
      /\ (c.handshake => IsOpen(c)) => ~e.handshake
  BY DisableFacts
<1>2. d = EnableNetwork(f)
  <2>1. HardAssert(e, ~IsStarted(e)) = e
    <3> HIDE DEF e
    <3> QED
      BY <1>1, Asserting DEF Sound, StreamSound
  <2> QED
    BY <2>1 DEF RestartNetwork
<1> HIDE DEF e
<1>3. /\ f \in Clients /\ f.queue = e.queue /\ f.user = e.user /\ ~f.network
      /\ f.pipeline = e.pipeline
      /\ f.asserted = e.asserted /\ f.state = "Initial" /\ f.handshake = e.handshake
      /\ f.call = e.call /\ f.idle = e.idle /\ f.main = e.main /\ f.worker = e.worker
      /\ f.asking = e.asking
  BY <1>1 DEF Clients, Sound
<1> HIDE DEF f
<1>4. Sound(f) /\ ~IsStarted(f)
  <2>1. ~IsOpen(e) /\ e.asserted /\ QueuesSound(e) /\ PipelineSound(e)
    BY <1>1 DEF IsOpen, IsStarted, Sound, StreamSound
  <2>2. ~e.idle /\ \A i \in DOMAIN e.worker : ~IsOfCall(e.worker[i])
    BY <1>1, <2>1, NotOpenFacts DEF Sound
  <2>3. NoneAwaited(e)
    BY <1>1 DEF Sound, TokensSound, IsStarted
  <2>4. NoneAwaited(f) /\ QueuesSound(f) /\ PipelineSound(f) /\ ~IsStarted(f)
    BY <1>3, <2>1, <2>3 DEF NoneAwaited, QueuesSound, PipelineSound, IsStarted
  <2> QED
    BY <1>1, <1>3, <2>1, <2>2, <2>4, QuietSound
<1>5. SameTokens(c, f)
  BY <1>1, <1>3 DEF SameTokens
<1>6. /\ Sound(d) /\ d.queue = f.queue /\ d.user = f.user /\ d.call = None
      /\ d.handshake = f.handshake /\ ~d.idle
      /\ \A u : TokensAreOfUser(f, u) => TokensAreOfUser(d, u)
  BY <1>2, <1>4, EnableFacts
<1>7. ASSUME NEW u, TokensAreOfUser(c, u) PROVE TokensAreOfUser(d, u)
  BY <1>3, <1>5, <1>6, <1>7, SameTokensKeep
<1> QED
  BY <1>1, <1>3, <1>6, <1>7

(* The same, when the network may be disabled.                                 *)
LEMMA RestartIfEnabledFacts ==
    ASSUME NEW c \in Clients, QueuesSound(c), StreamSound(c), TokensSound(c), WorkerSound(c),
           NEW d, d = RestartIfEnabled(c)
    PROVE  /\ Sound(d) /\ d.queue = c.queue /\ d.user = c.user /\ d.call = None /\ ~d.idle
           /\ (c.handshake => IsOpen(c)) => ~d.handshake
           /\ \A u : TokensAreOfUser(c, u) => TokensAreOfUser(d, u)
<1>1. CASE c.network
  BY <1>1, RestartFacts DEF RestartIfEnabled
<1>2. CASE ~c.network
  <2>1. d = c
    BY <1>2 DEF RestartIfEnabled
  <2>2. c.pipeline = <<>> /\ ~IsStarted(c) /\ ~IsOpen(c) /\ c.asserted
    BY <1>2 DEF StreamSound, IsStarted, IsOpen
  <2>3. c.call = None /\ ~c.idle /\ \A i \in DOMAIN c.worker : ~IsOfCall(c.worker[i])
    BY <2>2, NotOpenFacts
  <2>4. NoneAwaited(c)
    BY <2>2 DEF TokensSound, IsStarted
  <2>5. PipelineSound(c)
    <3>1. Len(c.pipeline) = 0 /\ Len(c.queue[c.user]) \in Nat
      BY <2>2, ClientFields
    <3> QED
      BY <3>1, <2>2, CapacityAssumption DEF PipelineSound, IsPrefixOf
  <2> QED
    BY <2>1, <2>2, <2>3, <2>4, <2>5, QuietSound
<1> QED
  BY <1>1, <1>2

(* The tail of a prefix.                                                       *)
LEMMA PrefixTail ==
    ASSUME NEW S, NEW s \in Seq(S), NEW t \in Seq(S), s # <<>>, IsPrefixOf(s, t)
    PROVE  t # <<>> /\ Head(t) = Head(s) /\ IsPrefixOf(Tail(s), Tail(t))
<1>1. Len(s) \in Nat \ {0} /\ Len(t) \in Nat /\ Len(s) <= Len(t) /\ \A i \in 1..Len(s) : s[i] = t[i]
  BY TailFacts DEF IsPrefixOf
<1>2. t # <<>>
  BY <1>1
<1>3. /\ Len(Tail(s)) = Len(s) - 1 /\ \A i \in 1..(Len(s) - 1) : Tail(s)[i] = s[i + 1]
      /\ Len(Tail(t)) = Len(t) - 1 /\ \A i \in 1..(Len(t) - 1) : Tail(t)[i] = t[i + 1]
      /\ Head(s) = s[1] /\ Head(t) = t[1]
  <2>1. /\ Len(Tail(s)) = Len(s) - 1 /\ \A i \in 1..(Len(s) - 1) : Tail(s)[i] = s[i + 1]
        /\ Head(s) = s[1]
    BY TailFacts
  <2>2. /\ Len(Tail(t)) = Len(t) - 1 /\ \A i \in 1..(Len(t) - 1) : Tail(t)[i] = t[i + 1]
        /\ Head(t) = t[1]
    BY <1>2, TailFacts
  <2> QED
    BY <2>1, <2>2
<1>4. Head(t) = Head(s)
  BY <1>1, <1>3
<1>5. \A i \in 1..Len(Tail(s)) : Tail(s)[i] = Tail(t)[i]
  BY <1>1, <1>3
<1> QED
  BY <1>1, <1>2, <1>3, <1>4, <1>5 DEF IsPrefixOf

(* An answered batch leaves the head of the queue and of the pipeline.         *)
LEMMA AnsweredFacts ==
    ASSUME NEW c \in Clients, c.asserted, QueuesSound(c), PipelineSound(c), c.pipeline # <<>>,
           NEW d, d = Answered(c)
    PROVE  /\ d \in Clients /\ d.user = c.user /\ d.network = c.network /\ d.state = c.state
           /\ d.handshake = c.handshake /\ d.idle = c.idle /\ d.call = c.call
           /\ d.asking = c.asking /\ d.main = c.main /\ d.worker = c.worker
           /\ d.asserted = c.asserted
           /\ d.pipeline = Tail(c.pipeline)
           /\ d.queue = [c.queue EXCEPT ![c.user] = Tail(c.queue[c.user])]
           /\ c.queue[c.user] # <<>> /\ Head(c.queue[c.user]) = Head(c.pipeline)
           /\ QueuesSound(d) /\ PipelineSound(d)
<1> DEFINE q == c.queue[c.user]
           p == c.pipeline
<1>1. /\ q \in Seq(BatchIds) /\ p \in Seq(BatchIds) /\ c.user \in Users
      /\ c.queue \in [Users -> Seq(BatchIds)]
  BY ClientFields
<1>2. q # <<>> /\ Head(q) = Head(p) /\ IsPrefixOf(Tail(p), Tail(q))
  BY <1>1, PrefixTail DEF PipelineSound
<1>3. /\ Tail(q) \in Seq(BatchIds) /\ Len(Tail(q)) = Len(q) - 1 /\ Len(q) \in Nat \ {0}
      /\ DOMAIN q = 1..Len(q) /\ DOMAIN Tail(q) = 1..(Len(q) - 1)
      /\ \A i \in 1..(Len(q) - 1) : Tail(q)[i] = q[i + 1]
      /\ Tail(p) \in Seq(BatchIds) /\ Len(Tail(p)) = Len(p) - 1 /\ Len(p) \in Nat \ {0}
  BY <1>1, <1>2, TailFacts
<1> HIDE DEF q, p
<1>4. d = [c EXCEPT !.pipeline = Tail(p), !.queue = [c.queue EXCEPT ![c.user] = Tail(q)]]
  <2>1. (p # <<>> /\ q # <<>> /\ Head(q) = Head(p)) = TRUE
    BY <1>2 DEF p
  <2>2. HardAssert(c, p # <<>> /\ q # <<>> /\ Head(q) = Head(p)) = c
    BY <2>1, Asserting
  <2> QED
    BY <2>2 DEF Answered, p, q
<1>5. /\ d \in Clients /\ d.user = c.user /\ d.network = c.network /\ d.state = c.state
      /\ d.handshake = c.handshake /\ d.idle = c.idle /\ d.call = c.call
      /\ d.asking = c.asking /\ d.main = c.main /\ d.worker = c.worker
      /\ d.asserted = c.asserted
      /\ d.pipeline = Tail(p)
      /\ d.queue = [c.queue EXCEPT ![c.user] = Tail(q)]
  <2>1. [c.queue EXCEPT ![c.user] = Tail(q)] \in [Users -> Seq(BatchIds)]
    BY <1>1, <1>3
  <2> QED
    BY <1>3, <1>4, <2>1 DEF Clients
<1>6. d.queue[d.user] = Tail(q) /\ \A u \in Users \ {c.user} : d.queue[u] = c.queue[u]
  BY <1>1, <1>5
<1>7. PipelineSound(d)
  <2>1. Len(Tail(p)) <= kMaxPendingWrites
    BY <1>3, CapacityAssumption DEF PipelineSound, p
  <2> QED
    BY <1>2, <1>5, <1>6, <2>1 DEF PipelineSound
<1>8. QueuesSound(d)
  <2> SUFFICES ASSUME NEW u \in Users
               PROVE  /\ Sorted(d.queue[u])
                      /\ \A i \in DOMAIN d.queue[u] : Author[d.queue[u][i]] = u
    BY DEF QueuesSound
  <2>1. CASE u = c.user
    <3>1. Sorted(q) /\ \A i \in DOMAIN q : Author[q[i]] = c.user
      BY <1>1 DEF QueuesSound, q
    <3>2. Sorted(Tail(q))
      <4> SUFFICES ASSUME NEW i \in 1..(Len(q) - 1), NEW j \in 1..(Len(q) - 1), i < j
                   PROVE  Tail(q)[i] < Tail(q)[j]
        BY <1>3 DEF Sorted
      <4>1. i + 1 \in DOMAIN q /\ j + 1 \in DOMAIN q /\ i + 1 < j + 1
        BY <1>3
      <4>2. q[i + 1] < q[j + 1]
        BY <3>1, <4>1 DEF Sorted
      <4> QED
        BY <1>3, <4>2
    <3>3. \A i \in 1..(Len(q) - 1) : Author[Tail(q)[i]] = c.user
      BY <1>3, <3>1
    <3>4. d.queue[u] = Tail(q)
      BY <1>5, <1>6, <2>1
    <3> QED
      BY <1>3, <2>1, <3>2, <3>3, <3>4
  <2>2. CASE u # c.user
    BY <1>6, <2>2 DEF QueuesSound
  <2> QED
    BY <2>1, <2>2
<1> QED
  BY <1>2, <1>5, <1>7, <1>8 DEF p, q

(* Forgetting the handshake of a stream that is closed changes nothing else.    *)
LEMMA HandshakeForgotten ==
    ASSUME NEW c, Sound(c), ~IsOpen(c), NEW d, d = [c EXCEPT !.handshake = FALSE]
    PROVE  /\ Sound(d) /\ d.queue = c.queue /\ d.user = c.user /\ d.call = None
           /\ ~d.idle /\ ~d.handshake /\ ~IsOpen(d)
           /\ \A u : TokensAreOfUser(c, u) => TokensAreOfUser(d, u)
<1>1. /\ d \in Clients /\ d.queue = c.queue /\ d.user = c.user /\ d.network = c.network
      /\ d.pipeline = c.pipeline /\ d.state = c.state /\ ~d.handshake /\ d.idle = c.idle
      /\ d.call = c.call /\ d.asking = c.asking /\ d.main = c.main /\ d.worker = c.worker
      /\ d.asserted = c.asserted
  BY DEF Sound, Clients
<1>2. c.call = None /\ ~c.idle
  BY NotOpenFacts DEF Sound
<1>3. StreamSound(d)
  <2>1. StreamSound(c)
    BY DEF Sound
  <2> QED
    BY <1>1, <1>2, <2>1 DEF StreamSound, IsStarted, IsOpen
<1>4. TokensSound(d) /\ WorkerSound(d) /\ QueuesSound(d) /\ PipelineSound(d) /\ CallSound(d)
  BY <1>1, <1>2 DEF Sound, TokensSound, NoneAwaited, WorkerSound, QueuesSound, PipelineSound,
     CallSound
<1>5. SameTokens(c, d)
  BY <1>1 DEF SameTokens
<1> QED
  BY <1>1, <1>2, <1>3, <1>4, <1>5, SameTokensKeep DEF Sound, IsOpen

(* A stream that is closed with an error starts again, or waits for its backoff; *)
(* if the error is the first batch's, the batch is given up.                    *)
LEMMA CloseFacts ==
    ASSUME NEW c, Sound(c), IsStarted(c), NEW status \in {"transient", "permanent"},
           NEW d, d = Close(c, status)
    PROVE  /\ Sound(d) /\ d.user = c.user /\ d.call = None /\ ~d.idle /\ ~d.handshake
           /\ d.queue = IF GivesUp(c, status)
                        THEN [c.queue EXCEPT ![c.user] = Tail(@)] ELSE c.queue
           /\ \A u : TokensAreOfUser(c, u) => TokensAreOfUser(d, u)
<1> DEFINE e == Closed(c, status)
           g == IF GivesUp(c, status) THEN HandleWriteError(e) ELSE e
           s == StartIfNeeded(g)
<1>1. /\ e \in Clients /\ e.queue = c.queue /\ e.user = c.user /\ e.network = c.network
      /\ e.pipeline = c.pipeline /\ e.handshake = c.handshake /\ e.asserted
      /\ e.state = "Error" /\ e.call = None /\ ~e.idle /\ NoneAwaited(e) /\ SameTokens(c, e)
      /\ \A i \in DOMAIN e.worker : ~IsOfCall(e.worker[i])
  BY ClosedFacts DEF Sound, StreamSound
<1>2. GivesUp(e, status) <=> GivesUp(c, status)
  BY <1>1 DEF GivesUp
<1>3. HardAssert(e, status = "ok" => ~ShouldStart(e)) = e /\ HardAssert(e, ~IsStarted(e)) = e
  <2>1. (status = "ok" => ~ShouldStart(e)) = TRUE /\ (~IsStarted(e)) = TRUE
    BY <1>1 DEF IsStarted
  <2> HIDE DEF e
  <2> QED
    BY <1>1, <2>1, Asserting
<1>4. d = [s EXCEPT !.handshake = FALSE]
  BY <1>2, <1>3 DEF Close, OnWriteStreamClose
<1> HIDE DEF e
<1>5. ~IsStarted(e) /\ QueuesSound(e) /\ PipelineSound(e) /\ (~e.network => e.pipeline = <<>>)
  BY <1>1 DEF IsStarted, Sound, StreamSound, QueuesSound, PipelineSound
<1>6. /\ Sound(g) /\ g.user = c.user /\ ~IsOpen(g)
      /\ g.queue = IF GivesUp(c, status) THEN [c.queue EXCEPT ![c.user] = Tail(@)] ELSE c.queue
      /\ \A u : TokensAreOfUser(c, u) => TokensAreOfUser(g, u)
  <2>1. CASE GivesUp(c, status)
    <3> DEFINE a == Answered(e)
               b == [a EXCEPT !.state = "Initial"]
    <3>1. g = Fill(b)
      BY <1>3, <2>1 DEF HandleWriteError
    <3>2. e.pipeline # <<>>
      BY <1>1, <2>1 DEF GivesUp
    <3>3. /\ a \in Clients /\ a.user = e.user /\ a.network = e.network /\ a.state = e.state
          /\ a.handshake = e.handshake /\ a.idle = e.idle /\ a.call = e.call
          /\ a.asking = e.asking /\ a.main = e.main /\ a.worker = e.worker
          /\ a.asserted = e.asserted
          /\ a.queue = [e.queue EXCEPT ![e.user] = Tail(e.queue[e.user])]
          /\ QueuesSound(a) /\ PipelineSound(a)
      BY <1>1, <1>5, <3>2, AnsweredFacts, ZenonT(40)
    <3>4. e.network
      BY <1>5, <3>2
    <3> HIDE DEF a
    <3>5. /\ b \in Clients /\ b.user = a.user /\ b.network = a.network /\ b.state = "Initial"
          /\ b.handshake = a.handshake /\ b.idle = a.idle /\ b.call = a.call
          /\ b.asking = a.asking /\ b.main = a.main /\ b.worker = a.worker
          /\ b.asserted = a.asserted /\ b.queue = a.queue /\ b.pipeline = a.pipeline
      BY <3>3 DEF Clients
    <3> HIDE DEF b
    <3>6. QueuesSound(b) /\ PipelineSound(b) /\ NoneAwaited(b) /\ ~IsStarted(b) /\ ~IsOpen(b)
      BY <1>1, <3>3, <3>5 DEF QueuesSound, PipelineSound, NoneAwaited, IsStarted, IsOpen
    <3>7. Sound(b)
      BY <1>1, <3>3, <3>4, <3>5, <3>6, QuietSound
    <3>8. SameTokens(c, b)
      BY <1>1, <3>3, <3>5 DEF SameTokens
    <3>9. Sound(g) /\ Leaves(b, g)
      BY <3>1, <3>7, FillFacts
    <3>10. ASSUME NEW u, TokensAreOfUser(c, u) PROVE TokensAreOfUser(g, u)
      <4>1. TokensAreOfUser(b, u)
        BY <3>5, <3>8, <3>10, SameTokensKeep DEF Sound
      <4> QED
        BY <3>5, <3>9, <4>1, LeavesTokens
    <3>11. g.user = c.user /\ g.queue = a.queue /\ ~IsOpen(g)
      BY <1>1, <3>3, <3>5, <3>6, <3>9 DEF Leaves
    <3> QED
      BY <1>1, <2>1, <3>3, <3>9, <3>10, <3>11
  <2>2. CASE ~GivesUp(c, status)
    <3>1. g = e
      BY <2>2
    <3>2. Sound(e)
      BY <1>1, <1>5, QuietSound
    <3>3. \A u : TokensAreOfUser(c, u) => TokensAreOfUser(e, u)
      BY <1>1, SameTokensKeep DEF Sound
    <3> QED
      BY <1>1, <1>5, <2>2, <3>1, <3>2, <3>3 DEF IsOpen, IsStarted
  <2> QED
    BY <2>1, <2>2
<1> HIDE DEF g
<1>7. Sound(s) /\ Leaves(g, s)
  BY <1>6, StartIfNeededFacts
<1> HIDE DEF s
<1>8. \A u : TokensAreOfUser(g, u) => TokensAreOfUser(s, u)
  BY <1>6, <1>7, LeavesTokens DEF Sound
<1>9. ~IsOpen(s) /\ s.queue = g.queue /\ s.user = g.user
  BY <1>6, <1>7 DEF Leaves
<1> QED
  BY <1>4, <1>6, <1>7, <1>8, <1>9, HandshakeForgotten

-----------------------------------------------------------------------------
(* The worker queue, as tasks are taken from its head and added at its end.      *)

CompletionKinds == {{"read", "readFailed"}, {"written", "writeFailed"}, {"finished"}}

(* The message that was read, as a task of the worker queue.                   *)
LEMMA ReadFacts ==
    ASSUME NEW c \in Clients, WorkerSound(c)
    PROVE  /\ \A i \in DOMAIN c.worker : c.worker[i].kind = "read" =>
                 Posted(c, {"read"}) /\ Read(c) = <<c.worker[i].message>>
           /\ ~Posted(c, {"read"}) => Read(c) = <<>>
<1>1. ASSUME NEW i \in DOMAIN c.worker, c.worker[i].kind = "read"
      PROVE  Posted(c, {"read"}) /\ Read(c) = <<c.worker[i].message>>
  <2> DEFINE j == CHOOSE j \in DOMAIN c.worker : c.worker[j].kind = "read"
  <2>1. Posted(c, {"read"})
    BY <1>1 DEF Posted
  <2>2. j \in DOMAIN c.worker /\ c.worker[j].kind = "read"
    BY <1>1
  <2>3. Read(c) = <<c.worker[j].message>>
    BY <2>1 DEF Read
  <2> HIDE DEF j
  <2>4. \A k, l \in DOMAIN c.worker :
           c.worker[k].kind \in {"read", "readFailed"} /\ c.worker[l].kind \in {"read", "readFailed"}
              => k = l
    BY DEF WorkerSound
  <2>5. j = i
    BY <1>1, <2>2, <2>4
  <2> QED
    BY <2>1, <2>3, <2>5
<1>2. ~Posted(c, {"read"}) => Read(c) = <<>>
  BY DEF Read
<1> QED
  BY <1>1, <1>2

(* Which completions wait when the head of the worker queue is taken.          *)
LEMMA PostedTail ==
    ASSUME NEW c \in Clients, NEW d \in Clients, WorkerSound(c), c.worker # <<>>,
           d.worker = Tail(c.worker)
    PROVE  /\ \A K : Posted(c, K) <=> Head(c.worker).kind \in K \/ Posted(d, K)
           /\ \A K \in CompletionKinds : Head(c.worker).kind \in K => ~Posted(d, K)
<1> DEFINE n == Len(c.worker)
           t == Head(c.worker)
<1>1. /\ DOMAIN c.worker = 1..n /\ DOMAIN d.worker = 1..(n - 1) /\ n \in Nat \ {0}
      /\ \A i \in 1..(n - 1) : d.worker[i] = c.worker[i + 1]
      /\ t = c.worker[1]
  BY ClientFields, TailFacts
<1> HIDE DEF n, t
<1>2. ASSUME NEW K PROVE Posted(c, K) <=> t.kind \in K \/ Posted(d, K)
  <2>1. ASSUME NEW i \in 1..n, c.worker[i].kind \in K PROVE t.kind \in K \/ Posted(d, K)
    <3>1. CASE i = 1
      BY <1>1, <2>1, <3>1
    <3>2. CASE i # 1
      <4>1. i - 1 \in 1..(n - 1) /\ d.worker[i - 1] = c.worker[i]
        BY <1>1, <3>2
      <4> QED
        BY <1>1, <2>1, <4>1 DEF Posted
    <3> QED
      BY <3>1, <3>2
  <2>2. ASSUME NEW i \in 1..(n - 1), d.worker[i].kind \in K PROVE Posted(c, K)
    <3>1. i + 1 \in 1..n /\ c.worker[i + 1].kind \in K
      BY <1>1, <2>2
    <3> QED
      BY <1>1, <3>1 DEF Posted
  <2>3. t.kind \in K => Posted(c, K)
    BY <1>1 DEF Posted
  <2> QED
    BY <1>1, <2>1, <2>2, <2>3 DEF Posted
<1>3. ASSUME NEW K \in CompletionKinds, t.kind \in K, Posted(d, K) PROVE FALSE
  <2>1. PICK i \in 1..(n - 1) : d.worker[i].kind \in K
    BY <1>1, <1>3 DEF Posted
  <2>2. c.worker[1].kind \in K /\ c.worker[i + 1].kind \in K /\ i + 1 \in 1..n /\ 1 \in 1..n
    BY <1>1, <1>3, <2>1
  <2>3. 1 = i + 1
    BY <1>1, <2>2 DEF WorkerSound, CompletionKinds
  <2> QED
    BY <1>1, <2>3
<1> QED
  BY <1>2, <1>3 DEF t

(* Which completions wait when a task is appended.                             *)
LEMMA PostedAppend ==
    ASSUME NEW c \in Clients, NEW d \in Clients, NEW t \in Tasks, d.worker = Append(c.worker, t)
    PROVE  \A K : Posted(d, K) <=> Posted(c, K) \/ t.kind \in K
<1> DEFINE n == Len(c.worker)
<1>1. /\ DOMAIN c.worker = 1..n /\ DOMAIN d.worker = 1..(n + 1) /\ n \in Nat
      /\ \A i \in 1..n : d.worker[i] = c.worker[i]
      /\ d.worker[n + 1] = t
  BY ClientFields, AppendFacts
<1> HIDE DEF n
<1>2. ASSUME NEW K, NEW i \in 1..(n + 1), d.worker[i].kind \in K
      PROVE  Posted(c, K) \/ t.kind \in K
  <2>1. CASE i = n + 1
    BY <1>1, <1>2, <2>1
  <2>2. CASE i \in 1..n
    BY <1>1, <1>2, <2>2 DEF Posted
  <2> QED
    BY <1>1, <2>1, <2>2
<1>3. ASSUME NEW K, NEW i \in 1..n, c.worker[i].kind \in K PROVE Posted(d, K)
  <2>1. i \in 1..(n + 1) /\ d.worker[i].kind \in K
    BY <1>1, <1>3
  <2> QED
    BY <1>1, <2>1 DEF Posted
<1>4. \A K : t.kind \in K => Posted(d, K)
  <2>1. n + 1 \in 1..(n + 1)
    BY <1>1
  <2> QED
    BY <1>1, <2>1 DEF Posted
<1> QED
  BY <1>1, <1>2, <1>3, <1>4 DEF Posted

(* What remains of the worker queue is sound, if the call is as it was or better. *)
LEMMA WorkerTail ==
    ASSUME NEW c \in Clients, NEW d \in Clients, WorkerSound(c), c.worker # <<>>,
           d.worker = Tail(c.worker), d.call # None <=> c.call # None,
           c.call # None =>
               /\ d.call.finishing = c.call.finishing /\ d.call.ended = c.call.ended
               /\ d.call.out = c.call.out \/ Head(c.worker).kind = "written"
    PROVE  WorkerSound(d)
<1> DEFINE n == Len(c.worker)
<1>1. /\ DOMAIN c.worker = 1..n /\ DOMAIN d.worker = 1..(n - 1) /\ n \in Nat \ {0}
      /\ \A i \in 1..(n - 1) : d.worker[i] = c.worker[i + 1] /\ i + 1 \in 1..n
  BY ClientFields, TailFacts
<1> HIDE DEF n
<1>2. /\ \A i \in 1..n : IsOfCall(c.worker[i]) => c.call # None
      /\ \A K \in CompletionKinds : \A i, j \in 1..n :
              c.worker[i].kind \in K /\ c.worker[j].kind \in K => i = j
      /\ \A i \in 1..n :
          IsOfCall(c.worker[i]) => (c.worker[i].kind = "finished" <=> c.call.finishing)
      /\ \A i \in 1..n :
          c.worker[i].kind \in {"readFailed", "writeFailed"} => c.call.ended # "no"
      /\ \A i \in 1..n :
          c.worker[i].kind \in {"written", "writeFailed"} => c.call.out # <<>>
  BY <1>1 DEF WorkerSound, CompletionKinds
<1>3. \A i \in 1..(n - 1) : IsOfCall(d.worker[i]) =>
          d.call # None /\ (d.worker[i].kind = "finished" <=> d.call.finishing)
  BY <1>1, <1>2
<1>4. \A K \in CompletionKinds : \A i, j \in 1..(n - 1) :
              d.worker[i].kind \in K /\ d.worker[j].kind \in K => i = j
  <2> SUFFICES ASSUME NEW K \in CompletionKinds, NEW i \in 1..(n - 1), NEW j \in 1..(n - 1),
                      d.worker[i].kind \in K, d.worker[j].kind \in K
               PROVE  i = j
    OBVIOUS
  <2>1. i + 1 = j + 1
    BY <1>1, <1>2
  <2> QED
    BY <2>1
<1>5. \A i \in 1..(n - 1) : d.worker[i].kind \in {"readFailed", "writeFailed"} => d.call.ended # "no"
  BY <1>1, <1>2 DEF IsOfCall
<1>6. \A i \in 1..(n - 1) : d.worker[i].kind \in {"written", "writeFailed"} => d.call.out # <<>>
  <2> SUFFICES ASSUME NEW i \in 1..(n - 1), d.worker[i].kind \in {"written", "writeFailed"}
               PROVE  d.call.out # <<>>
    OBVIOUS
  <2>1. Posted(d, {"written", "writeFailed"})
    BY <1>1 DEF Posted
  <2>2. Head(c.worker).kind # "written"
    BY <2>1, PostedTail DEF CompletionKinds
  <2> QED
    BY <1>1, <1>2, <2>2 DEF IsOfCall
<1> QED
  BY <1>1, <1>3, <1>4, <1>5, <1>6 DEF WorkerSound, CompletionKinds

(* The worker queue with one more task.                                        *)
LEMMA WorkerAppend ==
    ASSUME NEW c \in Clients, NEW d \in Clients, WorkerSound(c), NEW t \in Tasks,
           d.worker = Append(c.worker, t), d.call # None <=> c.call # None,
           c.call # None =>
               /\ d.call.finishing = c.call.finishing /\ d.call.ended = c.call.ended
               /\ d.call.out = c.call.out,
           IsOfCall(t) =>
               /\ d.call # None /\ (t.kind = "finished" <=> d.call.finishing)
               /\ \A K \in CompletionKinds : t.kind \in K => ~Posted(c, K),
           t.kind \in {"readFailed", "writeFailed"} => d.call.ended # "no",
           t.kind \in {"written", "writeFailed"} => d.call.out # <<>>
    PROVE  WorkerSound(d)
<1> DEFINE n == Len(c.worker)
<1>1. /\ DOMAIN c.worker = 1..n /\ DOMAIN d.worker = 1..(n + 1) /\ n \in Nat
      /\ \A i \in 1..n : d.worker[i] = c.worker[i]
      /\ d.worker[n + 1] = t
      /\ \A i \in 1..(n + 1) : i \in 1..n \/ i = n + 1
  BY ClientFields, AppendFacts
<1> HIDE DEF n
<1>2. /\ \A i \in 1..n : IsOfCall(c.worker[i]) => c.call # None
      /\ \A K \in CompletionKinds : \A i, j \in 1..n :
              c.worker[i].kind \in K /\ c.worker[j].kind \in K => i = j
      /\ \A i \in 1..n :
          IsOfCall(c.worker[i]) => (c.worker[i].kind = "finished" <=> c.call.finishing)
      /\ \A i \in 1..n :
          c.worker[i].kind \in {"readFailed", "writeFailed"} => c.call.ended # "no"
      /\ \A i \in 1..n :
          c.worker[i].kind \in {"written", "writeFailed"} => c.call.out # <<>>
  BY <1>1 DEF WorkerSound, CompletionKinds
<1>3. \A i \in 1..(n + 1) : IsOfCall(d.worker[i]) =>
          d.call # None /\ (d.worker[i].kind = "finished" <=> d.call.finishing)
  BY <1>1, <1>2
<1>4. \A K \in CompletionKinds : \A i, j \in 1..(n + 1) :
              d.worker[i].kind \in K /\ d.worker[j].kind \in K => i = j
  <2>1. ASSUME NEW K \in CompletionKinds, t.kind \in K, NEW i \in 1..n, c.worker[i].kind \in K
        PROVE  FALSE
    <3>1. IsOfCall(t)
      BY <2>1 DEF CompletionKinds, IsOfCall
    <3> QED
      BY <1>1, <2>1, <3>1 DEF Posted
  <2> QED
    BY <1>1, <1>2, <2>1
<1>5. \A i \in 1..(n + 1) : d.worker[i].kind \in {"readFailed", "writeFailed"} => d.call.ended # "no"
  BY <1>1, <1>2 DEF IsOfCall
<1>6. \A i \in 1..(n + 1) : d.worker[i].kind \in {"written", "writeFailed"} => d.call.out # <<>>
  BY <1>1, <1>2 DEF IsOfCall
<1> QED
  BY <1>1, <1>3, <1>4, <1>5, <1>6 DEF WorkerSound, CompletionKinds

(* The message that was read is still there when another task is taken.        *)
LEMMA ReadTail ==
    ASSUME NEW c \in Clients, NEW d \in Clients, WorkerSound(c), WorkerSound(d),
           c.worker # <<>>, d.worker = Tail(c.worker)
    PROVE  IF Head(c.worker).kind = "read"
           THEN Read(c) = <<Head(c.worker).message>> /\ Read(d) = <<>>
           ELSE Read(d) = Read(c)
<1>1. /\ DOMAIN c.worker = 1..Len(c.worker) /\ DOMAIN d.worker = 1..(Len(c.worker) - 1)
      /\ Len(c.worker) \in Nat \ {0}
      /\ \A i \in 1..(Len(c.worker) - 1) : d.worker[i] = c.worker[i + 1]
      /\ Head(c.worker) = c.worker[1]
  BY ClientFields, TailFacts
<1>2. CASE Head(c.worker).kind = "read"
  <2>1. ~Posted(d, {"read", "readFailed"})
    BY <1>2, PostedTail DEF CompletionKinds
  <2>2. ~Posted(d, {"read"})
    BY <2>1 DEF Posted
  <2>3. 1 \in DOMAIN c.worker /\ c.worker[1].kind = "read"
    BY <1>1, <1>2
  <2> QED
    BY <1>1, <1>2, <2>2, <2>3, ReadFacts
<1>3. CASE Head(c.worker).kind # "read"
  <2>1. Posted(c, {"read"}) <=> Posted(d, {"read"})
    BY <1>3, PostedTail
  <2>2. CASE Posted(d, {"read"})
    <3>1. PICK i \in DOMAIN d.worker : d.worker[i].kind = "read"
      BY <2>2 DEF Posted
    <3>2. i + 1 \in DOMAIN c.worker /\ c.worker[i + 1] = d.worker[i]
      BY <1>1, <3>1
    <3> QED
      BY <1>3, <3>1, <3>2, ReadFacts
  <2>3. CASE ~Posted(d, {"read"})
    BY <1>3, <2>1, <2>3, ReadFacts
  <2> QED
    BY <2>2, <2>3
<1> QED
  BY <1>2, <1>3

(* The message that was read when a task is appended.                          *)
LEMMA ReadAppend ==
    ASSUME NEW c \in Clients, NEW d \in Clients, WorkerSound(c), WorkerSound(d),
           NEW t \in Tasks, d.worker = Append(c.worker, t)
    PROVE  Read(d) = IF t.kind = "read" THEN <<t.message>> ELSE Read(c)
<1>1. /\ DOMAIN c.worker = 1..Len(c.worker) /\ DOMAIN d.worker = 1..(Len(c.worker) + 1)
      /\ Len(c.worker) \in Nat
      /\ \A i \in 1..Len(c.worker) : d.worker[i] = c.worker[i]
      /\ d.worker[Len(c.worker) + 1] = t
  BY ClientFields, AppendFacts
<1>2. CASE t.kind = "read"
  <2>1. Len(c.worker) + 1 \in DOMAIN d.worker
    BY <1>1
  <2> QED
    BY <1>1, <1>2, <2>1, ReadFacts
<1>3. CASE t.kind # "read"
  <2>1. Posted(c, {"read"}) <=> Posted(d, {"read"})
    BY <1>3, PostedAppend
  <2>2. CASE Posted(c, {"read"})
    <3>1. PICK i \in DOMAIN c.worker : c.worker[i].kind = "read"
      BY <2>2 DEF Posted
    <3>2. i \in DOMAIN d.worker /\ c.worker[i] = d.worker[i]
      BY <1>1, <3>1
    <3> QED
      BY <1>3, <3>1, <3>2, ReadFacts
  <2>3. CASE ~Posted(c, {"read"})
    BY <1>3, <2>1, <2>3, ReadFacts
  <2> QED
    BY <2>2, <2>3
<1> QED
  BY <1>2, <1>3

(* Tokens that are awaited, when a task is taken or added.                     *)
LEMMA TokensTail ==
    ASSUME NEW c \in Clients, NEW d \in Clients, TokensSound(c), c.worker # <<>>,
           d.worker = Tail(c.worker), d.main = c.main, d.asking = c.asking
    PROVE  /\ d.state = c.state => TokensSound(d)
           /\ Awaited(Head(c.worker)) => NoneAwaited(d) /\ c.state = "Starting"
<1> DEFINE n == Len(c.worker)
<1>1. /\ DOMAIN c.worker = 1..n /\ DOMAIN d.worker = 1..(n - 1) /\ n \in Nat \ {0}
      /\ \A i \in 1..(n - 1) : d.worker[i] = c.worker[i + 1] /\ i + 1 \in 1..n
      /\ Head(c.worker) = c.worker[1] /\ 1 \in 1..n
  <2>1. /\ DOMAIN c.worker = 1..n /\ DOMAIN d.worker = 1..(n - 1) /\ n \in Nat \ {0}
        /\ \A i \in 1..(n - 1) : d.worker[i] = c.worker[i + 1]
        /\ Head(c.worker) = c.worker[1]
    BY ClientFields, TailFacts
  <2> QED
    BY <2>1
<1> HIDE DEF n
<1>2. ASSUME NEW i \in 1..(n - 1), NEW j \in 1..(n - 1), Awaited(d.worker[i]), Awaited(d.worker[j])
      PROVE  i = j
  <2>1. i + 1 = j + 1
    BY <1>1, <1>2 DEF TokensSound
  <2> QED
    BY <2>1
<1>3. (\A i \in 1..n : ~Awaited(c.worker[i])) => (\A i \in 1..(n - 1) : ~Awaited(d.worker[i]))
  BY <1>1
<1>4. d.state = c.state => TokensSound(d)
  BY <1>1, <1>2, <1>3 DEF TokensSound, NoneAwaited
<1>5. ASSUME Awaited(c.worker[1]) PROVE NoneAwaited(d) /\ c.state = "Starting"
  <2>1. ASSUME NEW i \in 1..(n - 1) PROVE ~Awaited(d.worker[i])
    <3>1. i + 1 # 1
      OBVIOUS
    <3> QED
      BY <1>1, <1>5, <3>1 DEF TokensSound
  <2> QED
    BY <1>1, <1>5, <2>1 DEF TokensSound, NoneAwaited
<1> QED
  BY <1>1, <1>4, <1>5

(* One more task on the worker queue that awaits no token.                     *)
LEMMA TokensAppend ==
    ASSUME NEW c \in Clients, NEW d \in Clients, TokensSound(c), NEW t \in Tasks, ~Awaited(t),
           d.worker = Append(c.worker, t), d.main = c.main, d.asking = c.asking, d.state = c.state
    PROVE  TokensSound(d)
<1> DEFINE n == Len(c.worker)
<1>1. /\ DOMAIN c.worker = 1..n /\ DOMAIN d.worker = 1..(n + 1) /\ n \in Nat
      /\ \A i \in 1..n : d.worker[i] = c.worker[i]
      /\ d.worker[n + 1] = t
      /\ \A i \in 1..(n + 1) : i \in 1..n \/ i = n + 1
  BY ClientFields, AppendFacts
<1> HIDE DEF n
<1> QED
  BY <1>1 DEF TokensSound, NoneAwaited

(* The account after the tasks that wait, when a task is taken or added.        *)
LEMMA HeadsTail ==
    ASSUME NEW c \in Clients, NEW d \in Clients, c.worker # <<>>, d.worker = Tail(c.worker),
           IF Head(c.worker).kind = "account" THEN d.user = Head(c.worker).user
                                              ELSE d.user = c.user,
           NEW n \in 1..Len(c.worker), NEW u, Heads(c, n, u)
    PROVE  Heads(d, n - 1, u)
<1> DEFINE m == Len(c.worker)
<1>1. /\ m \in Nat \ {0} /\ \A i \in 1..(m - 1) : d.worker[i] = c.worker[i + 1]
      /\ Head(c.worker) = c.worker[1] /\ n \in 1..m
  BY ClientFields, TailFacts
<1> HIDE DEF m
<1>2. CASE c.user = u /\ \A k \in 1..n : c.worker[k].kind # "account"
  <2>1. \A k \in 1..(n - 1) : d.worker[k].kind # "account"
    <3> SUFFICES ASSUME NEW k \in 1..(n - 1) PROVE d.worker[k].kind # "account"
      OBVIOUS
    <3>1. k + 1 \in 1..n /\ d.worker[k] = c.worker[k + 1]
      BY <1>1
    <3> QED
      BY <1>2, <3>1
  <2>2. d.user = u
    <3>1. 1 \in 1..n
      BY <1>1
    <3> QED
      BY <1>1, <1>2, <3>1
  <2> QED
    BY <2>1, <2>2 DEF Heads
<1>3. ASSUME NEW j \in 1..n, c.worker[j].kind = "account", c.worker[j].user = u,
             \A k \in (j + 1)..n : c.worker[k].kind # "account"
      PROVE  Heads(d, n - 1, u)
  <2>1. \A k \in j..(n - 1) : d.worker[k].kind # "account"
    <3> SUFFICES ASSUME NEW k \in j..(n - 1) PROVE d.worker[k].kind # "account"
      OBVIOUS
    <3>1. k + 1 \in (j + 1)..n /\ d.worker[k] = c.worker[k + 1]
      BY <1>1
    <3> QED
      BY <1>3, <3>1
  <2>2. CASE j = 1
    BY <1>1, <1>3, <2>1, <2>2 DEF Heads
  <2>3. CASE j # 1
    <3>1. j - 1 \in 1..(n - 1) /\ d.worker[j - 1] = c.worker[j] /\ (j - 1) + 1 = j
      BY <1>1, <2>3
    <3>2. d.worker[j - 1].kind = "account" /\ d.worker[j - 1].user = u
      BY <1>3, <3>1
    <3>3. \A k \in ((j - 1) + 1)..(n - 1) : d.worker[k].kind # "account"
      BY <2>1, <3>1
    <3> QED
      BY <3>1, <3>2, <3>3 DEF Heads
  <2> QED
    BY <2>2, <2>3
<1> QED
  BY <1>2, <1>3 DEF Heads

(* The account to come, when a task is appended.                               *)
LEMMA HeadsAppend ==
    ASSUME NEW c \in Clients, NEW d \in Clients, NEW t \in Tasks,
           d.worker = Append(c.worker, t), d.user = c.user
    PROVE  /\ \A n \in 0..Len(c.worker) : \A u : Heads(c, n, u) => Heads(d, n, u)
           /\ \A u : IF t.kind = "account" THEN Heads(d, Len(d.worker), t.user)
                     ELSE Heads(c, Len(c.worker), u) => Heads(d, Len(d.worker), u)
<1> DEFINE m == Len(c.worker)
<1>1. /\ m \in Nat /\ \A i \in 1..m : d.worker[i] = c.worker[i]
      /\ d.worker[m + 1] = t /\ Len(d.worker) = m + 1
  BY ClientFields, AppendFacts
<1> HIDE DEF m
<1>2. ASSUME NEW n \in 0..m, NEW u, Heads(c, n, u) PROVE Heads(d, n, u)
  <2>1. \A i \in 1..n : d.worker[i] = c.worker[i]
    BY <1>1
  <2>2. CASE c.user = u /\ \A k \in 1..n : c.worker[k].kind # "account"
    BY <2>1, <2>2 DEF Heads
  <2>3. ASSUME NEW j \in 1..n, c.worker[j].kind = "account", c.worker[j].user = u,
               \A k \in (j + 1)..n : c.worker[k].kind # "account"
        PROVE  Heads(d, n, u)
    <3>1. \A k \in (j + 1)..n : k \in 1..n
      OBVIOUS
    <3> QED
      BY <2>1, <2>3, <3>1 DEF Heads
  <2> QED
    BY <1>2, <2>2, <2>3 DEF Heads
<1>3. ASSUME t.kind = "account" PROVE Heads(d, m + 1, t.user)
  <2>1. m + 1 \in 1..(m + 1) /\ \A k \in ((m + 1) + 1)..(m + 1) : FALSE
    BY <1>1
  <2> QED
    BY <1>1, <1>3, <2>1 DEF Heads
<1>4. ASSUME t.kind # "account", NEW u, Heads(c, m, u) PROVE Heads(d, m + 1, u)
  <2>1. /\ \A k \in 1..(m + 1) : k \in 1..m \/ k = m + 1
        /\ \A j \in 1..m : j \in 1..(m + 1)
    BY <1>1
  <2>2. CASE c.user = u /\ \A k \in 1..m : c.worker[k].kind # "account"
    BY <1>1, <1>4, <2>1, <2>2 DEF Heads
  <2>3. ASSUME NEW j \in 1..m, c.worker[j].kind = "account", c.worker[j].user = u,
               \A k \in (j + 1)..m : c.worker[k].kind # "account"
        PROVE  Heads(d, m + 1, u)
    <3>1. \A k \in (j + 1)..(m + 1) : (k \in (j + 1)..m /\ k \in 1..m) \/ k = m + 1
      BY <1>1
    <3>2. \A k \in (j + 1)..(m + 1) : d.worker[k].kind # "account"
      BY <1>1, <1>4, <2>3, <3>1
    <3>3. j \in 1..(m + 1) /\ d.worker[j] = c.worker[j]
      BY <1>1
    <3> QED
      BY <2>3, <3>2, <3>3 DEF Heads
  <2> QED
    BY <1>4, <2>2, <2>3 DEF Heads
<1> QED
  BY <1>1, <1>2, <1>3, <1>4 DEF m

(* A task is taken; if it changes the account, it has done so.                  *)
LEMMA TokensTaken ==
    ASSUME NEW c \in Clients, NEW d \in Clients, c.worker # <<>>, d.worker = Tail(c.worker),
           d.main = c.main, d.asking = c.asking,
           IF Head(c.worker).kind = "account" THEN d.user = Head(c.worker).user
                                              ELSE d.user = c.user,
           NEW u, TokensAreOfUser(c, u)
    PROVE  TokensAreOfUser(d, u)
<1> DEFINE n == Len(c.worker)
<1>1. /\ DOMAIN c.worker = 1..n /\ DOMAIN d.worker = 1..(n - 1) /\ n \in Nat \ {0}
      /\ \A i \in 1..(n - 1) : d.worker[i] = c.worker[i + 1] /\ i + 1 \in 1..n
      /\ Len(d.worker) = n - 1 /\ n \in 1..n
  <2>1. /\ DOMAIN c.worker = 1..n /\ DOMAIN d.worker = 1..(n - 1) /\ n \in Nat \ {0}
        /\ \A i \in 1..(n - 1) : d.worker[i] = c.worker[i + 1]
        /\ Len(d.worker) = n - 1
    BY ClientFields, TailFacts
  <2> QED
    BY <2>1
<1>2. \A k \in 1..n : \A v : Heads(c, k, v) => Heads(d, k - 1, v)
  BY HeadsTail
<1> HIDE DEF n
<1>3. \A v : Heads(c, n, v) => Heads(d, Len(d.worker), v)
  BY <1>1, <1>2
<1>4. \A k : Notifies(c, k) <=> Notifies(d, k)
  BY DEF Notifies
<1>5. Notifies(d, Len(d.main)) \/ Heads(d, Len(d.worker), u)
  BY <1>3, <1>4 DEF TokensAreOfUser, n
<1>6. \A r \in d.asking : r.fresh /\ r.user # None =>
          Notifies(d, Len(d.main)) \/ Heads(d, Len(d.worker), r.user)
  BY <1>3, <1>4 DEF TokensAreOfUser, n
<1>7. \A i \in DOMAIN d.main :
          d.main[i].kind = "answer" /\ d.main[i].request.fresh /\ d.main[i].request.user # None =>
              Notifies(d, i - 1) \/ Heads(d, Len(d.worker), d.main[i].request.user)
  BY <1>3, <1>4 DEF TokensAreOfUser, n
<1>8. ASSUME NEW i \in 1..(n - 1), d.worker[i].kind = "token", d.worker[i].user # None
      PROVE  Heads(d, i - 1, d.worker[i].user)
  <2>1. Heads(c, (i + 1) - 1, d.worker[i].user)
    BY <1>1, <1>8 DEF TokensAreOfUser
  <2>2. (i + 1) - 1 = i /\ i \in 1..n
    BY <1>1
  <2> QED
    BY <1>2, <2>1, <2>2
<1>9. \A i \in DOMAIN d.main : d.main[i].kind = "notify" =>
          d.main[i].user = u \/ \E j \in (i + 1)..Len(d.main) : d.main[j].kind = "notify"
  BY DEF TokensAreOfUser
<1> QED
  BY <1>1, <1>5, <1>6, <1>7, <1>8, <1>9 DEF TokensAreOfUser

(* A task of the call is added.                                                *)
LEMMA TokensAdded ==
    ASSUME NEW c \in Clients, NEW d \in Clients, NEW t \in Tasks,
           t.kind \notin {"account", "token"},
           d.worker = Append(c.worker, t), d.main = c.main, d.asking = c.asking, d.user = c.user,
           NEW u, TokensAreOfUser(c, u)
    PROVE  TokensAreOfUser(d, u)
<1> DEFINE n == Len(c.worker)
<1>1. /\ DOMAIN c.worker = 1..n /\ DOMAIN d.worker = 1..(n + 1) /\ n \in Nat
      /\ \A i \in 1..n : d.worker[i] = c.worker[i] /\ i - 1 \in 0..n
      /\ d.worker[n + 1] = t /\ Len(d.worker) = n + 1
      /\ \A i \in 1..(n + 1) : i \in 1..n \/ i = n + 1
  BY ClientFields, AppendFacts
<1>2. \A k \in 0..n : \A v : Heads(c, k, v) => Heads(d, k, v)
  BY HeadsAppend
<1>3. \A v : Heads(c, n, v) => Heads(d, Len(d.worker), v)
  BY HeadsAppend
<1> HIDE DEF n
<1>4. \A k : Notifies(c, k) <=> Notifies(d, k)
  BY DEF Notifies
<1>5. Notifies(d, Len(d.main)) \/ Heads(d, Len(d.worker), u)
  BY <1>3, <1>4 DEF TokensAreOfUser, n
<1>6. \A r \in d.asking : r.fresh /\ r.user # None =>
          Notifies(d, Len(d.main)) \/ Heads(d, Len(d.worker), r.user)
  BY <1>3, <1>4 DEF TokensAreOfUser, n
<1>7. \A i \in DOMAIN d.main :
          d.main[i].kind = "answer" /\ d.main[i].request.fresh /\ d.main[i].request.user # None =>
              Notifies(d, i - 1) \/ Heads(d, Len(d.worker), d.main[i].request.user)
  BY <1>3, <1>4 DEF TokensAreOfUser, n
<1>8. ASSUME NEW i \in 1..(n + 1), d.worker[i].kind = "token", d.worker[i].user # None
      PROVE  Heads(d, i - 1, d.worker[i].user)
  <2>1. i \in 1..n
    BY <1>1, <1>8
  <2>2. Heads(c, i - 1, d.worker[i].user)
    BY <1>1, <1>8, <2>1 DEF TokensAreOfUser
  <2> QED
    BY <1>1, <1>2, <2>1, <2>2
<1>9. \A i \in DOMAIN d.main : d.main[i].kind = "notify" =>
          d.main[i].user = u \/ \E j \in (i + 1)..Len(d.main) : d.main[j].kind = "notify"
  BY DEF TokensAreOfUser
<1> QED
  BY <1>1, <1>5, <1>6, <1>7, <1>8, <1>9 DEF TokensAreOfUser

(* A client whose next task has been taken.                                    *)
LEMMA TakenFacts ==
    ASSUME NEW c, Sound(c), c.worker # <<>>, NEW d, d = [c EXCEPT !.worker = Tail(@)]
    PROVE  /\ d \in Clients /\ d.queue = c.queue /\ d.user = c.user /\ d.network = c.network
           /\ d.pipeline = c.pipeline /\ d.state = c.state /\ d.handshake = c.handshake
           /\ d.idle = c.idle /\ d.call = c.call /\ d.asking = c.asking /\ d.main = c.main
           /\ d.asserted = c.asserted /\ d.worker = Tail(c.worker)
           /\ Head(c.worker) \in Tasks /\ 1 \in DOMAIN c.worker /\ Head(c.worker) = c.worker[1]
           /\ QueuesSound(d) /\ StreamSound(d) /\ TokensSound(d) /\ WorkerSound(d)
           /\ PipelineSound(d)
           /\ Head(c.worker).kind \notin {"read", "written"} =>
                 Sound(d) /\ \A u : Answers(d, u) = Answers(c, u)
           /\ Head(c.worker).kind # "account" =>
                 \A u : TokensAreOfUser(c, u) => TokensAreOfUser(d, u)
<1>1. /\ c \in Clients /\ Tail(c.worker) \in Seq(Tasks) /\ Head(c.worker) \in Tasks
      /\ 1 \in DOMAIN c.worker /\ Head(c.worker) = c.worker[1]
  <2>1. c \in Clients /\ c.worker \in Seq(Tasks)
    BY ClientFields DEF Sound
  <2>2. /\ Tail(c.worker) \in Seq(Tasks) /\ Head(c.worker) \in Tasks
        /\ DOMAIN c.worker = 1..Len(c.worker) /\ Len(c.worker) \in Nat \ {0}
        /\ Head(c.worker) = c.worker[1]
    BY <2>1, TailFacts
  <2> QED
    BY <2>1, <2>2
<1>2. /\ d \in Clients /\ d.queue = c.queue /\ d.user = c.user /\ d.network = c.network
      /\ d.pipeline = c.pipeline /\ d.state = c.state /\ d.handshake = c.handshake
      /\ d.idle = c.idle /\ d.call = c.call /\ d.asking = c.asking /\ d.main = c.main
      /\ d.asserted = c.asserted /\ d.worker = Tail(c.worker)
  BY <1>1 DEF Clients
<1>3. QueuesSound(d) /\ PipelineSound(d)
  BY <1>2 DEF Sound, QueuesSound, PipelineSound
<1>4. StreamSound(d)
  BY <1>2 DEF Sound, StreamSound, IsStarted, IsOpen
<1>5. TokensSound(d)
  BY <1>1, <1>2, TokensTail DEF Sound
<1>6. WorkerSound(d)
  BY <1>1, <1>2, WorkerTail, ZenonT(40) DEF Sound
<1>7. ASSUME Head(c.worker).kind \notin {"read", "written"}
      PROVE  Sound(d) /\ \A u : Answers(d, u) = Answers(c, u)
  <2>1. Read(d) = Read(c)
    BY <1>1, <1>2, <1>6, <1>7, ReadTail DEF Sound
  <2>2. /\ Live(d) <=> Live(c)
        /\ Live(c) => Coming(d) = Coming(c)
        /\ Sent(d) = Sent(c)
    BY <1>2, <2>1 DEF Live, Coming, Sent
  <2>3. Live(c) /\ c.call.ended = "no" => InFlight(d) = InFlight(c)
    <3> SUFFICES ASSUME Live(c), c.call.ended = "no" PROVE InFlight(d) = InFlight(c)
      OBVIOUS
    <3>1. Head(c.worker).kind # "writeFailed"
      BY <1>1 DEF Sound, WorkerSound
    <3>2. Posted(c, {"written", "writeFailed"}) <=> Posted(d, {"written", "writeFailed"})
      <4>1. \A K : Posted(c, K) <=> Head(c.worker).kind \in K \/ Posted(d, K)
        BY <1>1, <1>2, PostedTail, ZenonT(40) DEF Sound
      <4> QED
        BY <1>7, <3>1, <4>1
    <3>3. Unwritten(d) = Unwritten(c)
      BY <1>2, <3>2 DEF Unwritten
    <3> QED
      BY <1>2, <2>2, <3>3 DEF InFlight
  <2>4. CallSound(d)
    <3>1. CallSound(c)
      BY DEF Sound
    <3> QED
      BY <1>2, <2>2, <2>3, <3>1 DEF CallSound
  <2>5. \A u : Answers(d, u) = Answers(c, u)
    BY <1>2, <2>2 DEF Answers
  <2> QED
    BY <1>2, <1>3, <1>4, <1>5, <1>6, <2>4, <2>5 DEF Sound
<1>8. ASSUME Head(c.worker).kind # "account", NEW u, TokensAreOfUser(c, u)
      PROVE  TokensAreOfUser(d, u)
  BY <1>1, <1>2, <1>8, TokensTaken
<1> QED
  BY <1>1, <1>2, <1>3, <1>4, <1>5, <1>6, <1>7, <1>8

-----------------------------------------------------------------------------
(* What a step is to the promise.                                              *)

(* Only the account of the client has answers on their way.                    *)
LEMMA AnswersFacts ==
    ASSUME NEW c, Sound(c), NEW u
    PROVE  /\ Answers(c, u) \in Nat
           /\ u # c.user => Answers(c, u) = 0
           /\ c.call = None => Answers(c, u) = 0
           /\ ~c.handshake => Answers(c, u) = 0
           /\ u = c.user /\ c.handshake /\ Live(c) => Answers(c, u) = Len(Coming(c))
<1>1. Live(c) => Coming(c) \in Seq(Messages)
  BY FlightTypes DEF Sound, Live
<1> QED
  BY <1>1 DEF Answers, Live

(* Nothing that the promise sees, or answers that are lost.                     *)
LEMMA SeesNothing ==
    ASSUME client'.queue = client.queue, \A u \in Users : Answers(client', u) = Answers(client, u),
           server' = server, outcome' = outcome
    PROVE  [WQ!Next]_(WQ!vars)
  BY DEF WQ!vars

(* Answers get lost.                                                           *)
LEMMA SeesLoss ==
    ASSUME Sound(client), client'.queue = client.queue, server' = server, outcome' = outcome,
           NEW n \in 0..Answers(client, client.user),
           \A u \in Users : Answers(client', u) = IF u = client.user THEN n ELSE 0
    PROVE  [WQ!Next]_(WQ!vars)
<1> DEFINE v == client.user
           f == [u \in Users |-> Answers(client, u)]
<1>1. /\ v \in Users /\ Answers(client, v) \in Nat
      /\ \A u \in Users : u # v => Answers(client, u) = 0
  BY ClientFields, AnswersFacts DEF Sound
<1>2. [u \in Users |-> Answers(client, u)]' = [f EXCEPT ![v] = n]
  BY <1>1
<1>3. CASE n = Answers(client, v)
  <2>1. \A u \in Users : Answers(client', u) = Answers(client, u)
    BY <1>1, <1>3
  <2> QED
    BY <2>1, SeesNothing
<1>4. CASE n # Answers(client, v)
  <2>1. n < f[v] /\ n \in 0..f[v]
    BY <1>1, <1>4
  <2>2. WQ!Lose(v, n)
    BY <1>2, <2>1 DEF WQ!Lose
  <2> QED
    BY <1>1, <2>1, <2>2 DEF WQ!Next
<1> QED
  BY <1>3, <1>4

-----------------------------------------------------------------------------
(* The steps of the call.                                                      *)

(* A step keeps its promise and the invariant's parts that concern the client.   *)
StepKeeps ==
    /\ Sound(client') /\ Settled(client') /\ TokensAreOfUser(client', auth')
    /\ [WQ!Next]_(WQ!vars)

(* A read and its failure, a write and its failure, and the status.            *)
LEMMA KindFacts ==
    \A K \in CompletionKinds :
        /\ "read" \in K \/ "readFailed" \in K => K = {"read", "readFailed"}
        /\ "written" \in K \/ "writeFailed" \in K => K = {"written", "writeFailed"}
        /\ "finished" \in K => K = {"finished"}
  BY DEF CompletionKinds

(* A completion of the call is posted; the call moves on.                       *)
Completed(c, k, t) == [c EXCEPT !.call = k, !.worker = Append(@, t)]
Completes(c, k, t) ==
    /\ Live(c) /\ k \in Calls /\ t \in Tasks
    /\ t.kind \in {"read", "written", "readFailed", "writeFailed"}
    /\ k.user = c.call.user /\ k.finishing = c.call.finishing /\ k.ended = c.call.ended
    /\ k.out = c.call.out
    /\ \A K \in CompletionKinds : t.kind \in K => ~Posted(c, K)
    /\ t.kind \in {"readFailed", "writeFailed"} => k.ended # "no"
    /\ t.kind \in {"written", "writeFailed"} => k.out # <<>>

(* A completion is posted: the client stays sound.                             *)
LEMMA CompleteFacts ==
    ASSUME NEW c, Sound(c), NEW k, NEW t, Completes(c, k, t), NEW d, d = Completed(c, k, t)
    PROVE  /\ d \in Clients /\ d.queue = c.queue /\ d.user = c.user /\ d.handshake = c.handshake
           /\ d.idle = c.idle /\ d.pipeline = c.pipeline /\ d.state = c.state
           /\ d.call = k /\ d.call # None /\ Live(d)
           /\ c.call \in Calls
           /\ QueuesSound(d) /\ StreamSound(d) /\ TokensSound(d) /\ WorkerSound(d)
           /\ PipelineSound(d) /\ Sent(d) = Sent(c)
           /\ Read(d) = IF t.kind = "read" THEN <<t.message>> ELSE Read(c)
           /\ \A K : Posted(d, K) <=> Posted(c, K) \/ t.kind \in K
           /\ \A u : TokensAreOfUser(c, u) => TokensAreOfUser(d, u)
<1>0. /\ Live(c) /\ k \in Calls /\ t \in Tasks
      /\ t.kind \in {"read", "written", "readFailed", "writeFailed"}
      /\ k.user = c.call.user /\ k.finishing = c.call.finishing /\ k.ended = c.call.ended
      /\ k.out = c.call.out
      /\ \A K \in CompletionKinds : t.kind \in K => ~Posted(c, K)
      /\ t.kind \in {"readFailed", "writeFailed"} => k.ended # "no"
      /\ t.kind \in {"written", "writeFailed"} => k.out # <<>>
      /\ d = [c EXCEPT !.call = k, !.worker = Append(@, t)]
  BY DEF Completes, Completed
<1>1. c \in Clients /\ k # None /\ c.call # None /\ c.call \in Calls
  BY <1>0, ClientFields, CallFields DEF Sound, Live
<1>2. /\ d \in Clients /\ d.queue = c.queue /\ d.user = c.user /\ d.network = c.network
      /\ d.pipeline = c.pipeline /\ d.state = c.state /\ d.handshake = c.handshake
      /\ d.idle = c.idle /\ d.call = k /\ d.asking = c.asking /\ d.main = c.main
      /\ d.asserted = c.asserted /\ d.worker = Append(c.worker, t)
  <2>1. Append(c.worker, t) \in Seq(Tasks)
    BY <1>0, <1>1, ClientFields, AppendFacts
  <2> QED
    BY <1>0, <1>1, <2>1 DEF Clients
<1>3. QueuesSound(d) /\ PipelineSound(d) /\ Sent(d) = Sent(c)
  BY <1>0, <1>2 DEF Sound, QueuesSound, PipelineSound, Sent
<1>4. StreamSound(d)
  BY <1>0, <1>1, <1>2 DEF Sound, StreamSound, IsStarted, IsOpen
<1>5. TokensSound(d)
  BY <1>0, <1>1, <1>2, TokensAppend DEF Sound, Awaited
<1>6. WorkerSound(d)
  <2>1. t.kind # "finished" /\ ~d.call.finishing
    BY <1>0, <1>2 DEF Live
  <2> QED
    BY <1>0, <1>1, <1>2, <2>1, WorkerAppend DEF Sound
<1>7. Read(d) = IF t.kind = "read" THEN <<t.message>> ELSE Read(c)
  BY <1>0, <1>1, <1>2, <1>6, ReadAppend DEF Sound
<1>8. \A K : Posted(d, K) <=> Posted(c, K) \/ t.kind \in K
  <2>1. c \in Clients /\ d \in Clients /\ d.worker = Append(c.worker, t)
    BY <1>0, <1>1, <1>2
  <2> QED
    BY <1>0, <2>1, PostedAppend
<1>9. ASSUME NEW u, TokensAreOfUser(c, u) PROVE TokensAreOfUser(d, u)
  BY <1>0, <1>1, <1>2, <1>9, TokensAdded
<1>10. Live(d)
  BY <1>0, <1>1, <1>2 DEF Live
<1> QED
  BY <1>0, <1>1, <1>2, <1>3, <1>4, <1>5, <1>6, <1>7, <1>8, <1>9, <1>10

(* Steps that leave the account, its queue and its answers.                     *)
LEMMA QuietStep ==
    ASSUME Sound(client'), Settled(client), TokensAreOfUser(client', auth'),
           client'.queue = client.queue, client'.user = client.user,
           client'.handshake = client.handshake, client'.state = client.state,
           client'.idle => client.idle,
           \A u : Answers(client', u) = Answers(client, u),
           server' = server, outcome' = outcome
    PROVE  StepKeeps
<1>1. Settled(client')
  BY DEF Settled, IsOpen
<1>2. [WQ!Next]_(WQ!vars)
  BY SeesNothing
<1> QED
  BY <1>1, <1>2 DEF StepKeeps

(* A message is read: it stays among those that come.                          *)
LEMMA ReadCompletesKeeps ==
    ASSUME IInv, ReadCompletes
    PROVE  StepKeeps
<1> DEFINE k == [client.call EXCEPT !.toClient = Tail(@)]
           a == client.call.toClient
           t == [kind |-> "read", message |-> Head(a)]
<1>1. /\ Sound(client) /\ Settled(client) /\ TokensAreOfUser(client, auth)
      /\ Live(client) /\ ~Posted(client, {"read", "readFailed"}) /\ a # <<>>
      /\ client' = [client EXCEPT !.call = k, !.worker = Append(@, t)]
      /\ auth' = auth /\ server' = server /\ outcome' = outcome
  BY DEF IInv, ReadCompletes, Reading, Complete
<1>2. client.call \in Calls /\ a \in Seq(Messages)
  BY <1>1, ClientFields, CallFields DEF Sound, Live
<1>3. Head(a) \in Messages /\ Tail(a) \in Seq(Messages)
  BY <1>1, <1>2, TailFacts
<1>4. /\ k \in Calls /\ k.user = client.call.user /\ k.finishing = client.call.finishing
      /\ k.ended = client.call.ended /\ k.out = client.call.out
      /\ k.toServer = client.call.toServer /\ k.toClient = Tail(a)
  BY <1>2, <1>3 DEF Calls
<1>5. t \in Tasks /\ t.kind = "read" /\ t.message = Head(a)
  BY <1>3 DEF Tasks, CallTasks
<1> HIDE DEF k, t
<1>6. \A K \in CompletionKinds : t.kind \in K => ~Posted(client, K)
  BY <1>1, <1>5, KindFacts
<1> DEFINE d == client'
<1>7. /\ d \in Clients /\ d.queue = client.queue /\ d.user = client.user
      /\ d.handshake = client.handshake
      /\ d.idle = client.idle /\ d.pipeline = client.pipeline /\ d.state = client.state
      /\ d.call = k /\ d.call # None /\ Live(d)
      /\ QueuesSound(d) /\ StreamSound(d) /\ TokensSound(d) /\ WorkerSound(d)
      /\ PipelineSound(d) /\ Sent(d) = Sent(client)
      /\ Read(d) = <<Head(a)>>
      /\ \A K : Posted(d, K) <=> Posted(client, K) \/ t.kind \in K
      /\ TokensAreOfUser(d, auth)
  <2>1. /\ t.kind \in {"read", "written", "readFailed", "writeFailed"}
        /\ t.kind \in {"readFailed", "writeFailed"} => k.ended # "no"
        /\ t.kind \in {"written", "writeFailed"} => k.out # <<>>
    BY <1>1, <1>4, <1>5
  <2>2. Completes(client, k, t) /\ client' = Completed(client, k, t)
    BY <1>1, <1>4, <1>5, <1>6, <2>1 DEF Completes, Completed
  <2> QED
    BY <1>1, <1>4, <1>5, <2>2, CompleteFacts
<1>8. Coming(d) = Coming(client)
  <2>1. Read(client) = <<>>
    <3>1. ~Posted(client, {"read"})
      BY <1>1 DEF Posted
    <3> QED
      BY <1>1, <3>1, ReadFacts DEF Sound
  <2>2. <<Head(a)>> \o Tail(a) = <<>> \o a
    BY <1>1, <1>2, FlightRead
  <2> QED
    BY <1>4, <1>7, <2>1, <2>2 DEF Coming
<1>9. Unwritten(d) = Unwritten(client)
  BY <1>4, <1>5, <1>7 DEF Unwritten
<1>10. CallSound(d)
  <2>1. CallSound(client) /\ client.call # None
    BY <1>1 DEF Sound, Live
  <2>2. InFlight(d) = InFlight(client)
    BY <1>4, <1>7, <1>8, <1>9 DEF InFlight
  <2> QED
    BY <1>1, <1>4, <1>7, <1>8, <2>1, <2>2 DEF CallSound
<1>11. \A u : Answers(d, u) = Answers(client, u)
  BY <1>1, <1>7, <1>8 DEF Answers
<1> QED
  BY <1>1, <1>7, <1>10, <1>11, QuietStep DEF Sound

(* A read fails once the call has ended.                                       *)
LEMMA ReadFailsKeeps ==
    ASSUME IInv, ReadFails
    PROVE  StepKeeps
<1> DEFINE t == [kind |-> "readFailed"]
           k == client.call
<1>1. /\ Sound(client) /\ Settled(client) /\ TokensAreOfUser(client, auth)
      /\ Live(client) /\ ~Posted(client, {"read", "readFailed"}) /\ k.ended # "no"
      /\ client' = [client EXCEPT !.call = k, !.worker = Append(@, t)]
      /\ auth' = auth /\ server' = server /\ outcome' = outcome
  BY DEF IInv, ReadFails, Reading, Complete
<1>2. k \in Calls /\ k # None
  BY <1>1, ClientFields, CallFields DEF Sound, Live
<1>5. t \in Tasks /\ t.kind = "readFailed"
  BY DEF Tasks, CallTasks
<1> HIDE DEF t
<1>6. \A K \in CompletionKinds : t.kind \in K => ~Posted(client, K)
  BY <1>1, <1>5, KindFacts
<1> DEFINE d == client'
<1>7. /\ d \in Clients /\ d.queue = client.queue /\ d.user = client.user
      /\ d.handshake = client.handshake
      /\ d.idle = client.idle /\ d.pipeline = client.pipeline /\ d.state = client.state
      /\ d.call = k /\ Live(d)
      /\ QueuesSound(d) /\ StreamSound(d) /\ TokensSound(d) /\ WorkerSound(d)
      /\ PipelineSound(d) /\ Sent(d) = Sent(client)
      /\ Read(d) = Read(client)
      /\ TokensAreOfUser(d, auth)
  <2>1. /\ t.kind \in {"read", "written", "readFailed", "writeFailed"}
        /\ t.kind \in {"readFailed", "writeFailed"} => k.ended # "no"
        /\ t.kind \in {"written", "writeFailed"} => k.out # <<>>
    BY <1>1, <1>5
  <2>2. /\ k.user = client.call.user /\ k.finishing = client.call.finishing
        /\ k.ended = client.call.ended /\ k.out = client.call.out
    OBVIOUS
  <2> HIDE DEF k
  <2> QED
    <3>1. Completes(client, k, t) /\ client' = Completed(client, k, t)
      BY <1>1, <1>2, <1>5, <1>6, <2>1, <2>2 DEF Completes, Completed
    <3> QED
      BY <1>1, <1>2, <1>5, <3>1, CompleteFacts
<1>8. Coming(d) = Coming(client)
  BY <1>7 DEF Coming
<1>10. CallSound(d)
  <2>1. CallSound(client)
    BY <1>1 DEF Sound
  <2> QED
    BY <1>1, <1>2, <1>7, <1>8, <2>1 DEF CallSound
<1>11. \A u : Answers(d, u) = Answers(client, u)
  BY <1>1, <1>7, <1>8 DEF Answers
<1> QED
  BY <1>1, <1>7, <1>10, <1>11, QuietStep DEF Sound

(* A message goes out: it is on the wire, no longer among the unwritten.       *)
LEMMA WriteGoesOutKeeps ==
    ASSUME IInv, WriteGoesOut
    PROVE  StepKeeps
<1> DEFINE t == [kind |-> "written"]
           q == client.call.out
           k == IF client.call.ended = "no"
                THEN [client.call EXCEPT !.toServer = Append(@, Head(q))] ELSE client.call
<1>1. /\ Sound(client) /\ Settled(client) /\ TokensAreOfUser(client, auth)
      /\ Live(client) /\ ~Posted(client, {"written", "writeFailed"}) /\ q # <<>>
      /\ client' = [client EXCEPT !.call = k, !.worker = Append(@, t)]
      /\ auth' = auth /\ server' = server /\ outcome' = outcome
  BY DEF IInv, WriteGoesOut, Writing, Complete
<1>2. /\ client.call \in Calls /\ client.call # None /\ q \in Seq(Messages)
      /\ client.call.toServer \in Seq(Messages)
  BY <1>1, ClientFields, CallFields DEF Sound, Live
<1>3. Head(q) \in Messages /\ Head(q) = q[1] /\ 1 \in DOMAIN q
  <2>1. Head(q) \in Messages /\ Head(q) = q[1] /\ DOMAIN q = 1..Len(q) /\ Len(q) \in Nat \ {0}
    BY <1>1, <1>2, TailFacts
  <2> QED
    BY <2>1
<1>4. /\ k \in Calls /\ k.user = client.call.user /\ k.finishing = client.call.finishing
      /\ k.ended = client.call.ended /\ k.out = q /\ k.toClient = client.call.toClient
      /\ k.toServer = IF client.call.ended = "no" THEN Append(client.call.toServer, Head(q))
                      ELSE client.call.toServer
  <2>1. Append(client.call.toServer, Head(q)) \in Seq(Messages)
    BY <1>2, <1>3, AppendFacts
  <2> QED
    BY <1>2, <2>1 DEF Calls
<1>5. t \in Tasks /\ t.kind = "written"
  BY DEF Tasks, CallTasks
<1> HIDE DEF t, k
<1>6. \A K \in CompletionKinds : t.kind \in K => ~Posted(client, K)
  BY <1>1, <1>5, KindFacts
<1> DEFINE d == client'
<1>7. /\ d \in Clients /\ d.queue = client.queue /\ d.user = client.user
      /\ d.handshake = client.handshake
      /\ d.idle = client.idle /\ d.pipeline = client.pipeline /\ d.state = client.state
      /\ d.call = k /\ Live(d)
      /\ QueuesSound(d) /\ StreamSound(d) /\ TokensSound(d) /\ WorkerSound(d)
      /\ PipelineSound(d) /\ Sent(d) = Sent(client)
      /\ Read(d) = Read(client)
      /\ \A K : Posted(d, K) <=> Posted(client, K) \/ t.kind \in K
      /\ TokensAreOfUser(d, auth)
  <2>1. /\ t.kind \in {"read", "written", "readFailed", "writeFailed"}
        /\ t.kind \in {"readFailed", "writeFailed"} => k.ended # "no"
        /\ t.kind \in {"written", "writeFailed"} => k.out # <<>>
    BY <1>1, <1>4, <1>5
  <2>2. Completes(client, k, t) /\ client' = Completed(client, k, t)
    BY <1>1, <1>4, <1>5, <1>6, <2>1 DEF Completes, Completed
  <2> QED
    BY <1>1, <1>4, <1>5, <2>2, CompleteFacts
<1>8. Coming(d) = Coming(client)
  BY <1>4, <1>7 DEF Coming
<1>9. Unwritten(d) = Tail(q) /\ Unwritten(client) = q
  BY <1>1, <1>4, <1>5, <1>7 DEF Unwritten
<1>10. client.call.ended = "no" => InFlight(d) = InFlight(client)
  <2> SUFFICES ASSUME client.call.ended = "no" PROVE InFlight(d) = InFlight(client)
    OBVIOUS
  <2> DEFINE r == Coming(client)
             s == client.call.toServer
  <2>1. r \in Seq(Messages)
    BY <1>1, <1>2, FlightTypes DEF Sound
  <2>2. InFlight(d) = (r \o Append(s, Head(q))) \o Tail(q) /\ InFlight(client) = (r \o s) \o q
    BY <1>4, <1>7, <1>8, <1>9 DEF InFlight
  <2>3. s \in Seq(Messages)
    BY <1>2
  <2> HIDE DEF r, s, q
  <2>4. (r \o Append(s, Head(q))) \o Tail(q) = (r \o s) \o q
    BY <1>1, <1>2, <2>1, <2>3, FlightMoves
  <2> QED
    BY <2>2, <2>4
<1>11. \A i \in DOMAIN k.toServer :
          k.toServer[i] # Handshake => Author[k.toServer[i]] = client.user
  <2> DEFINE s == client.call.toServer
  <2>1. /\ \A i \in DOMAIN s : s[i] # Handshake => Author[s[i]] = client.user
        /\ q[1] # Handshake => Author[q[1]] = client.user
    BY <1>1, <1>2, <1>3 DEF Sound, CallSound
  <2>2. /\ DOMAIN s = 1..Len(s) /\ DOMAIN Append(s, Head(q)) = 1..(Len(s) + 1) /\ Len(s) \in Nat
        /\ \A i \in 1..Len(s) : Append(s, Head(q))[i] = s[i]
        /\ Append(s, Head(q))[Len(s) + 1] = Head(q)
    BY <1>2, <1>3, AppendFacts
  <2>3. \A i \in 1..(Len(s) + 1) : i \in 1..Len(s) \/ i = Len(s) + 1
    BY <2>2
  <2>4. CASE client.call.ended = "no"
    <3>1. k.toServer = Append(s, Head(q))
      BY <1>4, <2>4
    <3> HIDE DEF s, q
    <3> QED
      BY <1>3, <2>1, <2>2, <2>3, <3>1
  <2>5. CASE client.call.ended # "no"
    BY <1>4, <2>1, <2>5
  <2> QED
    BY <2>4, <2>5
<1>12. CallSound(d)
  <2>1. CallSound(client)
    BY <1>1 DEF Sound
  <2>2. /\ d.call.user = d.user
        /\ d.call.finishing => d.call.ended # "no"
        /\ \A i \in DOMAIN d.call.out :
              d.call.out[i] # Handshake => Author[d.call.out[i]] = d.user
        /\ \A i \in DOMAIN d.call.toServer :
              d.call.toServer[i] # Handshake => Author[d.call.toServer[i]] = d.user
    <3>1. /\ client.call.user = client.user
          /\ client.call.finishing => client.call.ended # "no"
          /\ \A i \in DOMAIN q : q[i] # Handshake => Author[q[i]] = client.user
      BY <1>2, <2>1 DEF CallSound
    <3>2. /\ d.call.user = client.call.user /\ d.call.finishing = client.call.finishing
          /\ d.call.ended = client.call.ended /\ d.call.out = q
          /\ d.call.toServer = k.toServer /\ d.user = client.user
      BY <1>4, <1>7
    <3> HIDE DEF q
    <3> QED
      BY <1>11, <3>1, <3>2
  <2>3. Live(d) => IsPrefixOf(Coming(d), Sent(d))
    BY <1>1, <1>2, <1>7, <1>8, <2>1 DEF CallSound
  <2>4. Live(d) /\ d.call.ended = "no" => InFlight(d) = Sent(d)
    BY <1>1, <1>2, <1>4, <1>7, <1>10, <2>1 DEF CallSound
  <2> QED
    BY <2>2, <2>3, <2>4 DEF CallSound
<1>13. \A u : Answers(d, u) = Answers(client, u)
  BY <1>1, <1>7, <1>8 DEF Answers
<1> QED
  BY <1>1, <1>7, <1>12, <1>13, QuietStep DEF Sound

(* A write fails once the call has ended.                                      *)
LEMMA WriteFailsKeeps ==
    ASSUME IInv, WriteFails
    PROVE  StepKeeps
<1> DEFINE t == [kind |-> "writeFailed"]
           k == client.call
<1>1. /\ Sound(client) /\ Settled(client) /\ TokensAreOfUser(client, auth)
      /\ Live(client) /\ ~Posted(client, {"written", "writeFailed"}) /\ k.ended # "no"
      /\ k.out # <<>>
      /\ client' = [client EXCEPT !.call = k, !.worker = Append(@, t)]
      /\ auth' = auth /\ server' = server /\ outcome' = outcome
  BY DEF IInv, WriteFails, Writing, Complete
<1>2. k \in Calls /\ k # None
  BY <1>1, ClientFields, CallFields DEF Sound, Live
<1>5. t \in Tasks /\ t.kind = "writeFailed"
  BY DEF Tasks, CallTasks
<1> HIDE DEF t
<1>6. \A K \in CompletionKinds : t.kind \in K => ~Posted(client, K)
  BY <1>1, <1>5, KindFacts
<1> DEFINE d == client'
<1>7. /\ d \in Clients /\ d.queue = client.queue /\ d.user = client.user
      /\ d.handshake = client.handshake
      /\ d.idle = client.idle /\ d.pipeline = client.pipeline /\ d.state = client.state
      /\ d.call = k /\ Live(d)
      /\ QueuesSound(d) /\ StreamSound(d) /\ TokensSound(d) /\ WorkerSound(d)
      /\ PipelineSound(d) /\ Sent(d) = Sent(client)
      /\ Read(d) = Read(client)
      /\ TokensAreOfUser(d, auth)
  <2>1. /\ t.kind \in {"read", "written", "readFailed", "writeFailed"}
        /\ t.kind \in {"readFailed", "writeFailed"} => k.ended # "no"
        /\ t.kind \in {"written", "writeFailed"} => k.out # <<>>
    BY <1>1, <1>5
  <2>2. /\ k.user = client.call.user /\ k.finishing = client.call.finishing
        /\ k.ended = client.call.ended /\ k.out = client.call.out
    OBVIOUS
  <2> HIDE DEF k
  <2> QED
    <3>1. Completes(client, k, t) /\ client' = Completed(client, k, t)
      BY <1>1, <1>2, <1>5, <1>6, <2>1, <2>2 DEF Completes, Completed
    <3> QED
      BY <1>1, <1>2, <1>5, <3>1, CompleteFacts
<1>8. Coming(d) = Coming(client)
  BY <1>7 DEF Coming
<1>10. CallSound(d)
  <2>1. CallSound(client)
    BY <1>1 DEF Sound
  <2> QED
    BY <1>1, <1>2, <1>7, <1>8, <2>1 DEF CallSound
<1>11. \A u : Answers(d, u) = Answers(client, u)
  BY <1>1, <1>7, <1>8 DEF Answers
<1> QED
  BY <1>1, <1>7, <1>10, <1>11, QuietStep DEF Sound

-----------------------------------------------------------------------------
(* The steps of the server, and of the network.                                 *)

(* The call changes on the side of the server; what the client holds does not.   *)
LEMMA CallFacts ==
    ASSUME NEW c, Sound(c), c.call # None, NEW k \in Calls,
           k.user = c.call.user, k.finishing = c.call.finishing, k.out = c.call.out,
           c.call.ended # "no" => k.ended # "no",
           NEW d, d = [c EXCEPT !.call = k]
    PROVE  /\ d \in Clients /\ d.queue = c.queue /\ d.user = c.user /\ d.handshake = c.handshake
           /\ d.idle = c.idle /\ d.pipeline = c.pipeline /\ d.state = c.state
           /\ d.call = k /\ d.worker = c.worker /\ k # None
           /\ QueuesSound(d) /\ StreamSound(d) /\ TokensSound(d) /\ WorkerSound(d)
           /\ PipelineSound(d) /\ Sent(d) = Sent(c) /\ (Live(d) <=> Live(c))
           /\ Read(d) = Read(c) /\ Unwritten(d) = Unwritten(c)
           /\ \A u : TokensAreOfUser(c, u) => TokensAreOfUser(d, u)
<1>1. c \in Clients /\ k # None /\ c.call \in Calls
  BY ClientFields, CallFields DEF Sound
<1>2. /\ d \in Clients /\ d.queue = c.queue /\ d.user = c.user /\ d.network = c.network
      /\ d.pipeline = c.pipeline /\ d.state = c.state /\ d.handshake = c.handshake
      /\ d.idle = c.idle /\ d.call = k /\ d.asking = c.asking /\ d.main = c.main
      /\ d.asserted = c.asserted /\ d.worker = c.worker
  BY <1>1 DEF Clients
<1>3. QueuesSound(d) /\ PipelineSound(d) /\ Sent(d) = Sent(c)
  BY <1>2 DEF Sound, QueuesSound, PipelineSound, Sent
<1>4. StreamSound(d)
  BY <1>1, <1>2 DEF Sound, StreamSound, IsStarted, IsOpen
<1>5. TokensSound(d)
  BY <1>2 DEF Sound, TokensSound, NoneAwaited
<1>6. WorkerSound(d)
  BY <1>1, <1>2 DEF Sound, WorkerSound, IsOfCall
<1>7. Read(d) = Read(c) /\ Unwritten(d) = Unwritten(c)
  BY <1>2 DEF Read, Unwritten, Posted
<1>8. Live(d) <=> Live(c)
  BY <1>1, <1>2 DEF Live
<1>9. SameTokens(c, d)
  BY <1>2 DEF SameTokens
<1> QED
  BY <1>1, <1>2, <1>3, <1>4, <1>5, <1>6, <1>7, <1>8, <1>9, SameTokensKeep

(* The server takes a request and answers it: the answer comes after all others, *)
(* and before whatever else is in flight.                                      *)
LEMMA AnswerFacts ==
    ASSUME Sound(client), Settled(client), TokensAreOfUser(client, auth), auth' = auth,
           NEW m \in Messages, Arrived(m), Answer(m)
    PROVE  /\ Sound(client') /\ Settled(client') /\ TokensAreOfUser(client', auth')
           /\ client'.queue = client.queue /\ client'.user = client.user
           /\ client'.handshake = client.handshake
           /\ Live(client) /\ Live(client')
           /\ Coming(client') = Append(Coming(client), m)
           /\ IsPrefixOf(Append(Coming(client), m), Sent(client))
<1> DEFINE s == client.call.toServer
           a == client.call.toClient
           r == Read(client)
           o == Unwritten(client)
           k == [client.call EXCEPT !.toServer = Tail(s), !.toClient = Append(a, m)]
           d == client'
<1>1. client.call # None /\ client.call.ended = "no" /\ s # <<>> /\ Head(s) = m
  BY DEF Arrived
<1>2. /\ client.call \in Calls /\ s \in Seq(Messages) /\ a \in Seq(Messages)
      /\ r \in Seq(Messages) /\ o \in Seq(Messages)
  <2>1. client.call \in Calls /\ r \in Seq(Messages) /\ o \in Seq(Messages)
    BY <1>1, FlightTypes DEF Sound
  <2> QED
    BY <2>1, CallFields
<1>3. /\ Tail(s) \in Seq(Messages) /\ Append(a, m) \in Seq(Messages)
      /\ DOMAIN s = 1..Len(s) /\ Len(s) \in Nat \ {0} /\ DOMAIN Tail(s) = 1..(Len(s) - 1)
      /\ \A i \in 1..(Len(s) - 1) : Tail(s)[i] = s[i + 1]
  BY <1>1, <1>2, TailFacts, AppendFacts
<1>4. d = [client EXCEPT !.call = k]
  BY <1>1 DEF Answer, Sound, Clients
<1>5. /\ k \in Calls /\ k.user = client.call.user /\ k.finishing = client.call.finishing
      /\ k.ended = client.call.ended /\ k.out = client.call.out
      /\ k.toServer = Tail(s) /\ k.toClient = Append(a, m)
  BY <1>2, <1>3 DEF Calls
<1> HIDE DEF k
<1>6. CallSound(client)
  BY DEF Sound
<1>7. /\ d \in Clients /\ d.queue = client.queue /\ d.user = client.user
      /\ d.handshake = client.handshake
      /\ d.idle = client.idle /\ d.pipeline = client.pipeline /\ d.state = client.state
      /\ d.call = k /\ d.worker = client.worker /\ k # None
      /\ QueuesSound(d) /\ StreamSound(d) /\ TokensSound(d) /\ WorkerSound(d)
      /\ PipelineSound(d) /\ Sent(d) = Sent(client) /\ (Live(d) <=> Live(client))
      /\ Read(d) = r /\ Unwritten(d) = o
      /\ TokensAreOfUser(d, auth)
  BY <1>1, <1>4, <1>5, CallFacts
<1>8. Live(client)
  <2>1. client.call.finishing \in BOOLEAN
    BY <1>2, CallFields
  <2> QED
    BY <1>1, <1>6, <2>1 DEF CallSound, Live
<1>9. /\ Coming(client) = r \o a /\ Coming(d) = r \o Append(a, m)
      /\ InFlight(client) = ((r \o a) \o s) \o o
      /\ InFlight(d) = ((r \o Append(a, m)) \o Tail(s)) \o o
      /\ InFlight(client) = Sent(client)
  BY <1>1, <1>5, <1>6, <1>7, <1>8 DEF Coming, InFlight, CallSound
<1>10. (r \o Append(a, m)) \o Tail(s) = (r \o a) \o s
  <2> HIDE DEF r, a, s
  <2>1. (r \o Append(a, Head(s))) \o Tail(s) = (r \o a) \o s
    <3>1. /\ r \in Seq(Messages) /\ a \in Seq(Messages) /\ s \in Seq(Messages) /\ s # <<>>
      BY <1>1, <1>2
    <3> QED
      BY ONLY <3>1, FlightMoves
  <2> QED
    BY <1>1, <2>1
<1>11. InFlight(d) = Sent(client)
  BY <1>9, <1>10
<1>12. IsPrefixOf(r \o Append(a, m), Sent(client))
  <2> DEFINE x == r \o Append(a, m)
             y == Tail(s) \o o
  <2>1. x \in Seq(Messages) /\ y \in Seq(Messages)
    BY <1>2, <1>3
  <2>2. (x \o Tail(s)) \o o = x \o y
    <3> HIDE DEF x, s, o
    <3> QED
      BY <1>2, <1>3, <2>1, ConcatAssoc, SMTT(30)
  <2>3. IsPrefixOf(x, x \o y)
    <3> HIDE DEF x, y
    <3> QED
      BY <2>1, PrefixOfConcat
  <2> QED
    BY <1>9, <1>11, <2>2, <2>3
<1>13. r \o Append(a, m) = Append(r \o a, m)
  <2> HIDE DEF r, a
  <2> QED
    BY <1>2
<1>14. CallSound(d)
  <2>1. /\ d.call.user = d.user
        /\ d.call.finishing => d.call.ended # "no"
        /\ \A i \in DOMAIN d.call.out :
              d.call.out[i] # Handshake => Author[d.call.out[i]] = d.user
    BY <1>1, <1>5, <1>6, <1>7 DEF CallSound
  <2>2. \A i \in DOMAIN s : s[i] # Handshake => Author[s[i]] = client.user
    BY <1>1, <1>6 DEF CallSound
  <2>3. \A i \in DOMAIN d.call.toServer :
              d.call.toServer[i] # Handshake => Author[d.call.toServer[i]] = d.user
    <3>1. \A i \in 1..(Len(s) - 1) : i + 1 \in DOMAIN s
      BY <1>3
    <3>2. \A i \in 1..(Len(s) - 1) : Tail(s)[i] # Handshake => Author[Tail(s)[i]] = client.user
      BY <1>3, <2>2, <3>1
    <3>3. d.call.toServer = Tail(s) /\ d.user = client.user
      BY <1>5, <1>7
    <3> HIDE DEF s
    <3> QED
      BY <1>3, <3>2, <3>3
  <2> QED
    BY <1>7, <1>9, <1>11, <1>12, <2>1, <2>3 DEF CallSound
<1>15. Settled(d)
  BY <1>7 DEF Settled, IsOpen
<1> QED
  BY <1>7, <1>8, <1>9, <1>12, <1>13, <1>14, <1>15 DEF Sound

(* The server answers the handshake.                                           *)
LEMMA ServerGreetsKeeps ==
    ASSUME IInv, ServerGreets
    PROVE  StepKeeps
<1>1. /\ Sound(client) /\ Settled(client) /\ TokensAreOfUser(client, auth)
      /\ Arrived(Handshake) /\ Answer(Handshake) /\ Handshake \in Messages
      /\ auth' = auth /\ server' = server /\ outcome' = outcome
  BY DEF IInv, ServerGreets, Messages
<1>2. /\ Sound(client') /\ Settled(client') /\ TokensAreOfUser(client', auth')
      /\ client'.queue = client.queue /\ client'.user = client.user
      /\ client'.handshake = client.handshake
      /\ IsPrefixOf(Append(Coming(client), Handshake), Sent(client))
      /\ client.call # None
  BY <1>1, AnswerFacts DEF Live
<1>3. ~client.handshake
  <2> SUFFICES ASSUME client.handshake PROVE FALSE
    BY ClientFields, <1>1 DEF Sound
  <2> DEFINE x == Append(Coming(client), Handshake)
             i == Len(Coming(client)) + 1
  <2>1. Coming(client) \in Seq(Messages)
    BY <1>1, <1>2, FlightTypes DEF Sound
  <2>2. Len(x) = i /\ i \in Nat \ {0} /\ x[i] = Handshake
    BY <1>1, <2>1, AppendFacts
  <2>3. client.pipeline \in Seq(BatchIds)
    BY <1>1, ClientFields DEF Sound
  <2>4. IsPrefixOf(x, client.pipeline)
    BY <1>2 DEF Sent
  <2> HIDE DEF x, i
  <2>5. i \in 1..Len(client.pipeline) /\ client.pipeline[i] = Handshake
    BY <2>2, <2>3, <2>4 DEF IsPrefixOf
  <2>6. client.pipeline[i] \in BatchIds
    BY <2>3, <2>5
  <2> QED
    BY <2>5, <2>6 DEF BatchIds, Handshake
<1>4. \A u : Answers(client', u) = Answers(client, u)
  BY <1>1, <1>2, <1>3 DEF Answers
<1>5. [WQ!Next]_(WQ!vars)
  BY <1>1, <1>2, <1>4, SeesNothing
<1> QED
  BY <1>2, <1>5 DEF StepKeeps

(* The server applies a batch: the next one of the account's queue.            *)
LEMMA ServerAppliesKeeps ==
    ASSUME IInv, NEW b \in BatchIds, ServerApplies(b)
    PROVE  StepKeeps
<1> DEFINE v == client.user
           x == Append(Coming(client), b)
           n == Len(Coming(client))
           f == [u \in Users |-> Answers(client, u)]
<1>1. /\ Sound(client) /\ Settled(client) /\ TokensAreOfUser(client, auth)
      /\ Arrived(b) /\ Answer(b) /\ b \in Messages
      /\ auth' = auth /\ server' = WithApplied(server, b) /\ outcome' = outcome
  BY DEF IInv, ServerApplies, Messages
<1>2. /\ Sound(client') /\ Settled(client') /\ TokensAreOfUser(client', auth')
      /\ client'.queue = client.queue /\ client'.user = v
      /\ client'.handshake = client.handshake
      /\ Live(client) /\ Live(client')
      /\ Coming(client') = x /\ IsPrefixOf(x, Sent(client))
  BY <1>1, AnswerFacts
<1>3. Coming(client) \in Seq(Messages)
  BY <1>1, <1>2, FlightTypes DEF Sound, Live
<1>4. Len(x) = n + 1 /\ n \in Nat /\ x[n + 1] = b
  BY <1>1, <1>3, AppendFacts
<1> HIDE DEF x, n
<1>5. client.handshake
  <2> SUFFICES ASSUME ~client.handshake PROVE FALSE
    OBVIOUS
  <2>1. IsPrefixOf(x, <<Handshake>>)
    BY <1>2 DEF Sent
  <2>2. n = 0 /\ x[1] = Handshake
    <3>1. Len(<<Handshake>>) = 1 /\ <<Handshake>>[1] = Handshake
      OBVIOUS
    <3> QED
      BY <1>4, <2>1, <3>1 DEF IsPrefixOf
  <2> QED
    BY <1>4, <2>2 DEF BatchIds, Handshake
<1>6. n + 1 <= Len(client.queue[v]) /\ client.queue[v][n + 1] = b
  <2>1. IsPrefixOf(x, client.pipeline)
    BY <1>2, <1>5 DEF Sent
  <2>2. IsPrefixOf(client.pipeline, client.queue[v])
    BY <1>1 DEF Sound, PipelineSound
  <2>3. Len(client.pipeline) \in Nat /\ Len(client.queue[v]) \in Nat
    BY <1>1, ClientFields DEF Sound
  <2>4. n + 1 \in 1..Len(x) /\ n + 1 \in 1..Len(client.pipeline)
    BY <1>4, <2>1, <2>3 DEF IsPrefixOf
  <2> QED
    BY <1>4, <2>1, <2>2, <2>3, <2>4 DEF IsPrefixOf
<1>7. v \in Users
  BY <1>1, ClientFields DEF Sound
<1>8. /\ Answers(client, v) = n /\ Answers(client', v) = n + 1
      /\ \A u \in Users : u # v => Answers(client, u) = 0 /\ Answers(client', u) = 0
  BY <1>2, <1>4, <1>5 DEF Answers, n
<1>9. [u \in Users |-> Answers(client, u)]' = [f EXCEPT ![v] = f[v] + 1] /\ f[v] = n
  BY <1>7, <1>8
<1>10. WQ!Apply(v)
  <2>1. server' = WithApplied(server, client.queue[v][f[v] + 1]) /\ f[v] < Len(client.queue[v])
    <3>1. Len(client.queue[v]) \in Nat
      BY <1>1, ClientFields DEF Sound
    <3> QED
      BY <1>1, <1>4, <1>6, <1>9, <3>1
  <2> QED
    BY <1>1, <1>2, <1>9, <2>1 DEF WQ!Apply, WQ!WithApplied, WithApplied
<1>11. [WQ!Next]_(WQ!vars)
  BY <1>7, <1>10 DEF WQ!Next
<1> QED
  BY <1>2, <1>11 DEF StepKeeps

(* The call ends, at the server or on the way; answers may be lost with it.      *)
LEMMA EndKeeps ==
    ASSUME Sound(client), Settled(client), TokensAreOfUser(client, auth), auth' = auth,
           client.call # None, client.call.ended = "no",
           NEW status \in {"transient", "permanent"}, NEW heard \in 0..Len(client.call.toClient),
           End(status, heard), server' = server, outcome' = outcome
    PROVE  StepKeeps
<1> DEFINE a == client.call.toClient
           r == Read(client)
           k == [client.call EXCEPT !.toServer = <<>>, !.ended = status,
                                    !.toClient = SubSeq(a, 1, heard)]
           d == client'
<1>1. client.call \in Calls /\ a \in Seq(Messages) /\ r \in Seq(Messages)
  <2>1. client.call \in Calls /\ r \in Seq(Messages)
    BY FlightTypes DEF Sound
  <2> QED
    BY <2>1, CallFields
<1>2. /\ SubSeq(a, 1, heard) \in Seq(Messages) /\ Len(SubSeq(a, 1, heard)) = heard
      /\ \A i \in 1..heard : SubSeq(a, 1, heard)[i] = a[i]
      /\ <<>> \in Seq(Messages) /\ Len(a) \in Nat /\ heard <= Len(a) /\ heard \in Nat
  BY <1>1, SubSeqFacts
<1>3. d = [client EXCEPT !.call = k]
  BY DEF End, Sound, Clients
<1>4. /\ k \in Calls /\ k.user = client.call.user /\ k.finishing = client.call.finishing
      /\ k.ended = status /\ k.ended # "no" /\ k.out = client.call.out
      /\ k.toServer = <<>> /\ k.toClient = SubSeq(a, 1, heard)
  BY <1>1, <1>2 DEF Calls
<1> HIDE DEF k
<1>5. /\ d \in Clients /\ d.queue = client.queue /\ d.user = client.user
      /\ d.handshake = client.handshake
      /\ d.idle = client.idle /\ d.pipeline = client.pipeline /\ d.state = client.state
      /\ d.call = k /\ d.worker = client.worker /\ k # None
      /\ QueuesSound(d) /\ StreamSound(d) /\ TokensSound(d) /\ WorkerSound(d)
      /\ PipelineSound(d) /\ Sent(d) = Sent(client) /\ (Live(d) <=> Live(client))
      /\ Read(d) = r
      /\ TokensAreOfUser(d, auth)
  BY <1>3, <1>4, CallFacts
<1>6. /\ Coming(client) = r \o a /\ Coming(d) = r \o SubSeq(a, 1, heard)
      /\ Coming(client) \in Seq(Messages) /\ Coming(d) \in Seq(Messages)
      /\ Len(Coming(d)) <= Len(Coming(client)) /\ Len(Coming(d)) \in Nat
      /\ IsPrefixOf(Coming(d), Coming(client))
  <2>1. Coming(client) = r \o a /\ Coming(d) = r \o SubSeq(a, 1, heard)
    BY <1>4, <1>5 DEF Coming
  <2> DEFINE h == SubSeq(a, 1, heard)
  <2> HIDE DEF h, a, r
  <2>2. /\ r \o a \in Seq(Messages) /\ Len(r \o a) = Len(r) + Len(a) /\ Len(r) \in Nat
        /\ \A i \in 1..Len(r) : (r \o a)[i] = r[i]
        /\ \A i \in 1..Len(a) : (r \o a)[Len(r) + i] = a[i]
    BY <1>1, ConcatFacts
  <2>3. /\ h \in Seq(Messages) /\ Len(h) = heard /\ \A i \in 1..heard : h[i] = a[i]
    BY <1>2 DEF h
  <2>4. /\ r \o h \in Seq(Messages) /\ Len(r \o h) = Len(r) + heard
        /\ \A i \in 1..Len(r) : (r \o h)[i] = r[i]
        /\ \A i \in 1..heard : (r \o h)[Len(r) + i] = h[i]
    <3>1. /\ r \o h \in Seq(Messages) /\ Len(r \o h) = Len(r) + Len(h)
          /\ \A i \in 1..Len(r) : (r \o h)[i] = r[i]
          /\ \A i \in 1..Len(h) : (r \o h)[Len(r) + i] = h[i]
      BY <1>1, <2>3, SMTT(30)
    <3> QED
      BY <2>3, <3>1
  <2>5. \A i \in 1..(Len(r) + heard) : (r \o h)[i] = (r \o a)[i]
    <3> SUFFICES ASSUME NEW i \in 1..(Len(r) + heard) PROVE (r \o h)[i] = (r \o a)[i]
      OBVIOUS
    <3>1. CASE i \in 1..Len(r)
      BY <2>2, <2>4, <3>1
    <3>2. CASE i > Len(r)
      <4>1. i - Len(r) \in 1..heard /\ i - Len(r) \in 1..Len(a) /\ Len(r) + (i - Len(r)) = i
        BY <1>2, <2>2, <3>2
      <4> QED
        BY <2>2, <2>3, <2>4, <4>1
    <3>3. i \in 1..Len(r) \/ i > Len(r)
      <4>1. Len(r) \in Nat /\ heard \in Nat
        BY <1>2, <2>2
      <4> QED
        BY <4>1
    <3> QED
      BY <3>1, <3>2, <3>3
  <2>6. IsPrefixOf(r \o h, r \o a)
    BY <1>2, <2>2, <2>4, <2>5 DEF IsPrefixOf
  <2> QED
    BY <1>2, <2>1, <2>2, <2>4, <2>6 DEF h
<1>7. CallSound(client)
  BY DEF Sound
<1>8. Sent(client) \in Seq(Messages)
  <2>1. client.pipeline \in Seq(BatchIds)
    BY ClientFields DEF Sound
  <2>2. client.pipeline \in Seq(Messages) /\ <<Handshake>> \in Seq(Messages)
    BY <2>1 DEF Messages
  <2> QED
    BY <2>2 DEF Sent
<1>9. Live(d) => IsPrefixOf(Coming(d), Sent(d))
  <2> SUFFICES ASSUME Live(d) PROVE IsPrefixOf(Coming(d), Sent(d))
    OBVIOUS
  <2>1. IsPrefixOf(Coming(client), Sent(client))
    BY <1>5, <1>7 DEF CallSound
  <2> QED
    BY <1>5, <1>6, <1>8, <2>1, PrefixTrans
<1>10. CallSound(d)
  <2>1. /\ client.call.user = client.user
        /\ \A i \in DOMAIN client.call.out :
              client.call.out[i] # Handshake => Author[client.call.out[i]] = client.user
    BY <1>7 DEF CallSound
  <2>2. DOMAIN d.call.toServer = {}
    BY <1>4, <1>5
  <2> QED
    BY <1>4, <1>5, <1>9, <2>1, <2>2 DEF CallSound
<1>11. Sound(d) /\ Settled(d)
  BY <1>5, <1>10 DEF Sound, Settled, IsOpen
<1>12. [WQ!Next]_(WQ!vars)
  <2>1. CASE client.handshake /\ Live(client)
    <3> DEFINE n == Len(Coming(d))
    <3>1. Answers(client, client.user) = Len(Coming(client))
      BY <2>1 DEF Answers
    <3>2. n \in 0..Answers(client, client.user)
      BY <1>1, <1>6, <3>1
    <3>3. \A u \in Users : Answers(client', u) = IF u = client.user THEN n ELSE 0
      BY <1>5, <2>1 DEF Answers
    <3> HIDE DEF n
    <3> QED
      BY <1>5, <3>2, <3>3, SeesLoss
  <2>2. CASE ~(client.handshake /\ Live(client))
    <3>1. \A u : Answers(client', u) = Answers(client, u)
      BY <1>5, <2>2 DEF Answers
    <3> QED
      BY <1>5, <3>1, SeesNothing
  <2> QED
    BY <2>1, <2>2
<1> QED
  BY <1>5, <1>11, <1>12 DEF StepKeeps

(* The server refuses a batch.                                                 *)
LEMMA ServerRefusesKeeps ==
    ASSUME IInv, NEW b \in BatchIds, ServerRefuses(b)
    PROVE  StepKeeps
<1>1. Len(client.call.toClient) \in 0..Len(client.call.toClient)
  <2>1. client.call \in Calls
    BY ClientFields DEF IInv, Sound, ServerRefuses, Arrived
  <2>2. client.call.toClient \in Seq(Messages)
    BY <2>1, CallFields
  <2> QED
    BY <2>2
<1> QED
  BY <1>1, EndKeeps DEF IInv, ServerRefuses, Arrived

(* The connection breaks.                                                      *)
LEMMA CallBreaksKeeps ==
    ASSUME IInv, CallBreaks
    PROVE  StepKeeps
<1>1. PICK heard \in 0..Len(client.call.toClient) : End("transient", heard)
  BY DEF CallBreaks
<1> QED
  BY <1>1, EndKeeps DEF IInv, CallBreaks

(* The server refuses the handshake.                                           *)
LEMMA HandshakeRefusedKeeps ==
    ASSUME IInv, HandshakeRefused
    PROVE  StepKeeps
<1>1. 0 \in 0..Len(client.call.toClient)
  <2>1. client.call \in Calls
    BY ClientFields DEF IInv, Sound, HandshakeRefused, Arrived
  <2>2. client.call.toClient \in Seq(Messages)
    BY <2>1, CallFields
  <2> QED
    BY <2>2
<1> QED
  BY <1>1, EndKeeps DEF IInv, HandshakeRefused, Arrived

-----------------------------------------------------------------------------
(* The tasks of the worker queue.                                              *)

(* The task that is due.                                                       *)
LEMMA DueFacts ==
    ASSUME IInv, NEW kind, Due(kind)
    PROVE  /\ Sound(client) /\ Settled(client) /\ TokensAreOfUser(client, auth)
           /\ client.worker # <<>> /\ NextTask \in Tasks /\ NextTask.kind = kind
           /\ NextTask = Head(client.worker) /\ NextTask = client.worker[1]
           /\ 1 \in DOMAIN client.worker
           /\ Taken = [client EXCEPT !.worker = Tail(client.worker)]
           /\ kind \in {"read", "written", "readFailed", "writeFailed", "finished"} =>
                 /\ client.call # None /\ client.call \in Calls /\ IsOpen(client)
                 /\ kind = "finished" <=> client.call.finishing
           /\ kind \in {"readFailed", "writeFailed"} => client.call.ended # "no"
<1>1. /\ Sound(client) /\ Settled(client) /\ TokensAreOfUser(client, auth)
      /\ client.worker # <<>> /\ NextTask.kind = kind /\ NextTask = Head(client.worker)
  BY DEF IInv, Due, NextTask
<1>2. /\ Head(client.worker) \in Tasks /\ 1 \in DOMAIN client.worker
      /\ Head(client.worker) = client.worker[1]
  BY <1>1, TakenFacts
<1>3. Taken = [client EXCEPT !.worker = Tail(client.worker)]
  BY DEF Taken
<1>4. WorkerSound(client) /\ StreamSound(client)
  BY <1>1 DEF Sound
<1>5. ASSUME kind \in {"read", "written", "readFailed", "writeFailed", "finished"}
      PROVE  /\ client.call # None /\ client.call \in Calls /\ IsOpen(client)
             /\ kind = "finished" <=> client.call.finishing
  <2>1. IsOfCall(client.worker[1]) /\ client.worker[1].kind = kind
    BY <1>1, <1>2, <1>5 DEF IsOfCall
  <2>2. client.call # None /\ (client.worker[1].kind = "finished" <=> client.call.finishing)
    BY <1>2, <1>4, <2>1 DEF WorkerSound
  <2> QED
    BY <1>1, <1>4, <2>1, <2>2, ClientFields DEF StreamSound, Sound
<1>6. kind \in {"readFailed", "writeFailed"} => client.call.ended # "no"
  BY <1>1, <1>2, <1>4 DEF WorkerSound
<1> QED
  BY <1>1, <1>2, <1>3, <1>5, <1>6

(* A cancelled task does nothing.                                              *)
LEMMA NothingToDoKeeps ==
    ASSUME IInv, NothingToDo
    PROVE  StepKeeps
<1>1. /\ Sound(client) /\ Settled(client) /\ TokensAreOfUser(client, auth)
      /\ client.worker # <<>> /\ Head(client.worker).kind = "cancelled"
      /\ client' = [client EXCEPT !.worker = Tail(client.worker)]
      /\ auth' = auth /\ server' = server /\ outcome' = outcome
  BY DueFacts DEF NothingToDo
<1>2. /\ Sound(client') /\ client'.queue = client.queue /\ client'.user = client.user
      /\ client'.handshake = client.handshake /\ client'.state = client.state
      /\ client'.idle = client.idle
      /\ \A u : Answers(client', u) = Answers(client, u)
      /\ TokensAreOfUser(client', auth)
  BY <1>1, TakenFacts
<1> QED
  BY <1>1, <1>2, QuietStep

(* The completion of a write: the message leaves the buffer.                   *)
LEMMA WriteDoneKeeps ==
    ASSUME IInv, WriteDone
    PROVE  StepKeeps
<1> DEFINE q == client.call.out
           k == [client.call EXCEPT !.out = Tail(q)]
           e == Taken
           d == client'
<1>1. /\ Sound(client) /\ Settled(client) /\ TokensAreOfUser(client, auth)
      /\ client.worker # <<>> /\ Head(client.worker).kind = "written"
      /\ Head(client.worker) = client.worker[1] /\ 1 \in DOMAIN client.worker
      /\ e = [client EXCEPT !.worker = Tail(client.worker)]
      /\ client.call # None /\ client.call \in Calls /\ ~client.call.finishing
      /\ d = [e EXCEPT !.call.out = Tail(@)]
      /\ auth' = auth /\ server' = server /\ outcome' = outcome
  <2>1. WriteDone /\ Due("written")
    BY DEF WriteDone
  <2>2. /\ Sound(client) /\ Settled(client) /\ TokensAreOfUser(client, auth)
        /\ client.worker # <<>> /\ Head(client.worker).kind = "written"
        /\ Head(client.worker) = client.worker[1] /\ 1 \in DOMAIN client.worker
        /\ e = [client EXCEPT !.worker = Tail(client.worker)]
        /\ client.call # None /\ client.call \in Calls /\ ~client.call.finishing
    BY <2>1, DueFacts
  <2> QED
    BY <2>1, <2>2 DEF WriteDone
<1> HIDE DEF e
<1>2. /\ e \in Clients /\ e.queue = client.queue /\ e.user = client.user
      /\ e.network = client.network
      /\ e.pipeline = client.pipeline /\ e.state = client.state /\ e.handshake = client.handshake
      /\ e.idle = client.idle /\ e.call = client.call /\ e.asking = client.asking
      /\ e.main = client.main
      /\ e.asserted = client.asserted /\ e.worker = Tail(client.worker)
      /\ QueuesSound(e) /\ StreamSound(e) /\ TokensSound(e) /\ PipelineSound(e)
      /\ TokensAreOfUser(e, auth)
  BY <1>1, TakenFacts
<1>3. q \in Seq(Messages) /\ q # <<>> /\ Posted(client, {"written", "writeFailed"})
  <2>1. q # <<>> /\ Posted(client, {"written", "writeFailed"})
    BY <1>1 DEF Sound, WorkerSound, Posted
  <2> QED
    BY <1>1, <2>1, CallFields
<1>4. /\ Tail(q) \in Seq(Messages)
      /\ \A i \in DOMAIN Tail(q) : Tail(q)[i] = q[i + 1] /\ i + 1 \in DOMAIN q
  <2>1. /\ Tail(q) \in Seq(Messages) /\ DOMAIN q = 1..Len(q) /\ Len(q) \in Nat \ {0}
        /\ DOMAIN Tail(q) = 1..(Len(q) - 1)
        /\ \A i \in 1..(Len(q) - 1) : Tail(q)[i] = q[i + 1]
    BY <1>3, TailFacts
  <2> QED
    BY <2>1
<1>5. /\ k \in Calls /\ k # None
      /\ k.user = client.call.user /\ k.finishing = client.call.finishing
      /\ k.ended = client.call.ended /\ k.out = Tail(q)
      /\ k.toServer = client.call.toServer /\ k.toClient = client.call.toClient
  BY <1>1, <1>4, NoneAssumption DEF Calls
<1>6. d = [e EXCEPT !.call = k]
  BY <1>1, <1>2
<1> HIDE DEF k
<1>7. /\ d \in Clients /\ d.queue = e.queue /\ d.user = e.user /\ d.network = e.network
      /\ d.pipeline = e.pipeline /\ d.state = e.state /\ d.handshake = e.handshake
      /\ d.idle = e.idle /\ d.call = k /\ d.asking = e.asking /\ d.main = e.main
      /\ d.asserted = e.asserted /\ d.worker = e.worker
  BY <1>2, <1>5, <1>6 DEF Clients
<1>8. QueuesSound(d) /\ PipelineSound(d) /\ StreamSound(d) /\ TokensSound(d)
  <2>1. QueuesSound(d) /\ PipelineSound(d)
    BY <1>2, <1>7 DEF QueuesSound, PipelineSound
  <2>2. StreamSound(d)
    BY <1>1, <1>2, <1>5, <1>7 DEF StreamSound, IsStarted, IsOpen
  <2>3. TokensSound(d)
    BY <1>2, <1>7 DEF TokensSound, NoneAwaited
  <2> QED
    BY <2>1, <2>2, <2>3
<1>9. WorkerSound(d)
  <2>1. d.worker = Tail(client.worker) /\ (d.call # None <=> client.call # None)
    BY <1>1, <1>2, <1>5, <1>7
  <2>2. d.call.finishing = client.call.finishing /\ d.call.ended = client.call.ended
    BY <1>5, <1>7
  <2> QED
    BY <1>1, <1>7, <2>1, <2>2, WorkerTail DEF Sound
<1>10. Read(d) = Read(client)
  BY <1>1, <1>2, <1>7, <1>9, ReadTail, ZenonT(40) DEF Sound
<1>11. Unwritten(d) = Unwritten(client)
  <2>1. ~Posted(d, {"written", "writeFailed"})
    <3>1. d.worker = Tail(client.worker)
      BY <1>2, <1>7
    <3>2. /\ client \in Clients /\ WorkerSound(client) /\ client.worker # <<>>
          /\ Head(client.worker).kind = "written"
      BY <1>1 DEF Sound
    <3>3. \A K \in CompletionKinds : Head(client.worker).kind \in K => ~Posted(d, K)
      BY <1>7, <3>1, <3>2, PostedTail
    <3> QED
      BY <3>2, <3>3 DEF CompletionKinds
  <2> QED
    BY <1>3, <1>5, <1>7, <2>1 DEF Unwritten
<1>12. /\ Live(d) /\ Live(client) /\ Sent(d) = Sent(client) /\ Coming(d) = Coming(client)
       /\ InFlight(d) = InFlight(client)
  <2>1. Live(d) /\ Live(client)
    BY <1>1, <1>5, <1>7 DEF Live
  <2>2. Sent(d) = Sent(client) /\ Coming(d) = Coming(client)
    BY <1>2, <1>5, <1>7, <1>10 DEF Sent, Coming
  <2> QED
    BY <1>5, <1>7, <1>11, <2>1, <2>2 DEF InFlight
<1>13. CallSound(d)
  <2>1. CallSound(client)
    BY <1>1 DEF Sound
  <2>2. \A i \in DOMAIN q : q[i] # Handshake => Author[q[i]] = client.user
    BY <1>1, <2>1 DEF CallSound
  <2>3. \A i \in DOMAIN Tail(q) : Tail(q)[i] # Handshake => Author[Tail(q)[i]] = client.user
    <3> HIDE DEF q
    <3> SUFFICES ASSUME NEW i \in DOMAIN Tail(q), Tail(q)[i] # Handshake
                 PROVE  Author[Tail(q)[i]] = client.user
      OBVIOUS
    <3>1. Tail(q)[i] = q[i + 1] /\ i + 1 \in DOMAIN q
      BY <1>4
    <3>2. q[i + 1] # Handshake
      BY <3>1
    <3>3. Author[q[i + 1]] = client.user
      BY <2>2, <3>1, <3>2
    <3> QED
      BY <3>1, <3>3
  <2>4. /\ client.call.user = client.user
        /\ \A i \in DOMAIN client.call.toServer :
              client.call.toServer[i] # Handshake => Author[client.call.toServer[i]] = client.user
        /\ IsPrefixOf(Coming(client), Sent(client))
        /\ client.call.ended = "no" => InFlight(client) = Sent(client)
    BY <1>1, <1>12, <2>1 DEF CallSound
  <2>5. /\ d.call.user = d.user /\ ~d.call.finishing /\ d.call.ended = client.call.ended
        /\ d.call.toServer = client.call.toServer /\ d.call.out = Tail(q) /\ d.user = client.user
    BY <1>1, <1>2, <1>5, <1>7, <2>4
  <2> HIDE DEF q
  <2> QED
    BY <1>12, <2>3, <2>4, <2>5 DEF CallSound
<1>14. TokensAreOfUser(d, auth)
  <2>1. SameTokens(e, d)
    BY <1>7 DEF SameTokens
  <2> QED
    BY <1>2, <1>7, <2>1, SameTokensKeep
<1>15. \A u : Answers(d, u) = Answers(client, u)
  BY <1>2, <1>7, <1>12 DEF Answers
<1> QED
  BY <1>1, <1>2, <1>7, <1>8, <1>9, <1>13, <1>14, <1>15, QuietStep DEF Sound

-----------------------------------------------------------------------------
(* The messages of the stream.                                                 *)

(* Nothing in flight means nothing in any of its three parts.                  *)
LEMMA EmptyConcat ==
    ASSUME NEW S, NEW s \in Seq(S), NEW t \in Seq(S), s \o t = <<>>
    PROVE  s = <<>> /\ t = <<>>
<1>1. Len(s) + Len(t) = 0 /\ Len(s) \in Nat /\ Len(t) \in Nat
  BY ConcatFacts
<1>2. Len(s) = 0 /\ Len(t) = 0
  BY <1>1
<1> QED
  BY <1>2

(* A prefix of one element.                                                    *)
LEMMA SingletonPrefix ==
    ASSUME NEW S, NEW a \in Seq(S), NEW m \in S, NEW h, IsPrefixOf(<<m>> \o a, <<h>>)
    PROVE  m = h /\ a = <<>>
<1>1. /\ <<m>> \in Seq(S) /\ Len(<<m>> \o a) = 1 + Len(a) /\ Len(a) \in Nat
      /\ (<<m>> \o a)[1] = m
  OBVIOUS
<1>2. Len(<<m>> \o a) <= 1 /\ \A i \in 1..Len(<<m>> \o a) : (<<m>> \o a)[i] = <<h>>[i]
  BY DEF IsPrefixOf
<1>3. Len(a) = 0
  BY <1>1, <1>2
<1> QED
  BY <1>1, <1>2, <1>3

(* A message has been read: it is the first of what was on its way.             *)
LEMMA ReadTaken ==
    ASSUME IInv, Due("read")
    PROVE  /\ Live(client) /\ IsOpen(client) /\ client.call \in Calls
           /\ client.call.toClient \in Seq(Messages) /\ client.call.toServer \in Seq(Messages)
           /\ client.call.out \in Seq(Messages) /\ Unwritten(client) \in Seq(Messages)
           /\ NextTask.message \in Messages
           /\ Coming(client) = <<NextTask.message>> \o client.call.toClient
           /\ Read(Taken) = <<>> /\ Unwritten(Taken) = Unwritten(client)
           /\ Posted(Taken, {"written", "writeFailed"})
                 <=> Posted(client, {"written", "writeFailed"})
<1>1. /\ Sound(client) /\ client.worker # <<>> /\ NextTask \in Tasks /\ NextTask.kind = "read"
      /\ NextTask = Head(client.worker)
      /\ Taken = [client EXCEPT !.worker = Tail(client.worker)]
      /\ client.call # None /\ client.call \in Calls /\ IsOpen(client) /\ ~client.call.finishing
  BY DueFacts
<1>2. /\ client \in Clients /\ WorkerSound(client) /\ Taken \in Clients /\ WorkerSound(Taken)
      /\ Taken.worker = Tail(client.worker) /\ Taken.call = client.call
  BY <1>1, TakenFacts DEF Sound
<1>3. /\ NextTask.message \in Messages
      /\ client.call.toClient \in Seq(Messages) /\ client.call.toServer \in Seq(Messages)
      /\ client.call.out \in Seq(Messages) /\ Unwritten(client) \in Seq(Messages)
  BY <1>1, <1>2, TaskFields, CallFields, FlightTypes
<1>4. Read(client) = <<NextTask.message>> /\ Read(Taken) = <<>>
  BY <1>1, <1>2, ReadTail
<1>5. Posted(Taken, {"written", "writeFailed"}) <=> Posted(client, {"written", "writeFailed"})
  <2>1. \A K : Posted(client, K) <=> Head(client.worker).kind \in K \/ Posted(Taken, K)
    BY <1>1, <1>2, PostedTail
  <2> QED
    BY <1>1, <2>1
<1>6. Unwritten(Taken) = Unwritten(client)
  BY <1>2, <1>5 DEF Unwritten
<1>7. Coming(client) = <<NextTask.message>> \o client.call.toClient
  BY <1>4 DEF Coming
<1> QED
  BY <1>1, <1>3, <1>4, <1>5, <1>6, <1>7 DEF Live

(* The answer to the handshake is all that the call has carried.                *)
LEMMA HandshakeTaken ==
    ASSUME IInv, Due("read"), ~client.handshake
    PROVE  /\ client.call.toClient = <<>>
           /\ client.call.ended = "no" => client.call.toServer = <<>> /\ Unwritten(client) = <<>>
<1> DEFINE m == NextTask.message
           a == client.call.toClient
           q == client.call.toServer
           o == Unwritten(client)
<1>1. /\ m \in Messages /\ a \in Seq(Messages) /\ q \in Seq(Messages) /\ o \in Seq(Messages)
      /\ Coming(client) = <<m>> \o a /\ Live(client)
  BY ReadTaken
<1>2. /\ Sent(client) = <<Handshake>>
      /\ IsPrefixOf(Coming(client), Sent(client))
      /\ client.call.ended = "no" => InFlight(client) = Sent(client)
  BY <1>1 DEF IInv, Sound, CallSound, Sent, Live
<1>3. InFlight(client) = ((<<m>> \o a) \o q) \o o
  BY <1>1 DEF InFlight
<1>4. IsPrefixOf(<<m>> \o a, <<Handshake>>)
  BY <1>1, <1>2
<1> HIDE DEF m, a, q, o
<1>5. a = <<>>
  BY <1>1, <1>4, SingletonPrefix
<1>6. ASSUME NEW p, p = <<Handshake>>, ((<<m>> \o a) \o q) \o o = p
      PROVE  q = <<>> /\ o = <<>>
  <2>1. /\ a \o q \in Seq(Messages) /\ o \in Seq(Messages)
        /\ <<m>> \in Seq(Messages) /\ <<m>> \o a \in Seq(Messages)
        /\ (<<m>> \o a) \o q \in Seq(Messages)
    BY <1>1
  <2>2. Len(p) = ((1 + Len(a)) + Len(q)) + Len(o) /\ Len(p) = 1
    BY <1>1, <1>6, <2>1, SMTT(30)
  <2>3. Len(q) = 0 /\ Len(o) = 0
    BY <1>1, <2>2
  <2> QED
    BY <1>1, <2>3
<1> QED
  BY <1>2, <1>3, <1>5, <1>6 DEF a, q, o

(* The batches of the pipeline are the account's.                              *)
LEMMA PipelineAuthors ==
    ASSUME NEW c, Sound(c)
    PROVE  /\ c.pipeline \in Seq(BatchIds) /\ c.pipeline \in Seq(Messages)
           /\ \A i \in DOMAIN c.pipeline : Author[c.pipeline[i]] = c.user
<1>1. c.pipeline \in Seq(BatchIds) /\ c.user \in Users /\ c.queue[c.user] \in Seq(BatchIds)
  BY ClientFields DEF Sound
<1>2. /\ Len(c.pipeline) <= Len(c.queue[c.user])
      /\ \A i \in 1..Len(c.pipeline) : c.pipeline[i] = c.queue[c.user][i]
      /\ \A i \in DOMAIN c.queue[c.user] : Author[c.queue[c.user][i]] = c.user
  BY <1>1 DEF Sound, PipelineSound, IsPrefixOf, QueuesSound
<1>3. \A i \in DOMAIN c.pipeline : i \in 1..Len(c.pipeline) /\ i \in DOMAIN c.queue[c.user]
  BY <1>1, <1>2
<1> QED
  BY <1>1, <1>2, <1>3 DEF Messages

(* With the handshake done, the whole pipeline is written.                      *)
LEMMA HandshakeCompleteKeeps ==
    ASSUME IInv, HandshakeComplete
    PROVE  StepKeeps
<1> DEFINE p == client.pipeline
           o == client.call.out
           k == [client.call EXCEPT !.out = o \o p]
           e == Taken
           d == client'
<1>1. /\ Sound(client) /\ Settled(client) /\ TokensAreOfUser(client, auth)
      /\ client.worker # <<>> /\ Head(client.worker).kind = "read"
      /\ e = [client EXCEPT !.worker = Tail(client.worker)]
      /\ client.call # None /\ client.call \in Calls /\ ~client.call.finishing /\ IsOpen(client)
      /\ Due("read") /\ ~client.handshake
      /\ d = SendBatches([e EXCEPT !.handshake = TRUE], p)
      /\ auth' = auth /\ server' = server /\ outcome' = outcome
  <2>1. Due("read") /\ HandshakeComplete
    BY DEF HandshakeComplete
  <2>2. /\ Sound(client) /\ Settled(client) /\ TokensAreOfUser(client, auth)
        /\ client.worker # <<>> /\ Head(client.worker).kind = "read"
        /\ e = [client EXCEPT !.worker = Tail(client.worker)]
        /\ client.call # None /\ client.call \in Calls /\ ~client.call.finishing /\ IsOpen(client)
    BY <2>1, DueFacts
  <2> QED
    BY <2>1, <2>2 DEF HandshakeComplete
<1> HIDE DEF e
<1>2. /\ e \in Clients /\ e.queue = client.queue /\ e.user = client.user
      /\ e.network = client.network
      /\ e.pipeline = client.pipeline /\ e.state = client.state
      /\ e.idle = client.idle /\ e.call = client.call /\ e.asking = client.asking
      /\ e.main = client.main
      /\ e.asserted = client.asserted /\ e.worker = Tail(client.worker)
      /\ QueuesSound(e) /\ StreamSound(e) /\ TokensSound(e) /\ WorkerSound(e) /\ PipelineSound(e)
      /\ TokensAreOfUser(e, auth)
  BY <1>1, TakenFacts
<1>3. /\ Live(client) /\ o \in Seq(Messages) /\ Unwritten(client) \in Seq(Messages)
      /\ Read(e) = <<>> /\ Unwritten(e) = Unwritten(client)
      /\ Posted(e, {"written", "writeFailed"}) <=> Posted(client, {"written", "writeFailed"})
  BY <1>1, ReadTaken DEF e
<1>4. /\ client.call.toClient = <<>>
      /\ client.call.ended = "no" => client.call.toServer = <<>> /\ Unwritten(client) = <<>>
  BY <1>1, HandshakeTaken
<1>5. p \in Seq(Messages) /\ \A i \in DOMAIN p : Author[p[i]] = client.user
  BY <1>1, PipelineAuthors
<1>6. ~client.idle /\ client.asserted /\ client.network
  BY <1>1 DEF Sound, StreamSound, IsStarted, IsOpen
<1>7. /\ k \in Calls /\ k # None
      /\ k.user = client.call.user /\ k.finishing = client.call.finishing
      /\ k.ended = client.call.ended /\ k.out = o \o p
      /\ k.toServer = client.call.toServer /\ k.toClient = client.call.toClient
  <2>1. o \o p \in Seq(Messages)
    BY <1>3, <1>5
  <2> QED
    BY <1>1, <2>1, NoneAssumption DEF Calls
<1>8. d = [e EXCEPT !.handshake = TRUE, !.call = k]
  <2> DEFINE f == [e EXCEPT !.handshake = TRUE]
  <2>1. f \in Clients /\ f.asserted /\ f.handshake /\ f.call = client.call /\ ~f.idle /\ IsOpen(f)
    BY <1>1, <1>2, <1>6 DEF Clients, IsOpen
  <2>2. HardAssert(f, p = <<>> \/ f.handshake) = f /\ HardAssert(f, IsOpen(f)) = f
    BY <2>1, Asserting
  <2>3. d = Send(f, p)
    BY <1>1, <2>2 DEF SendBatches
  <2>4. CASE p = <<>>
    <3>1. d = f
      BY <2>3, <2>4 DEF Send
    <3>2. k = client.call
      <4>1. o \o p = o
        BY <1>3, <2>4
      <4> QED
        BY <1>1, <4>1 DEF Calls
    <3>3. f = [e EXCEPT !.handshake = TRUE, !.call = client.call]
      BY <1>2 DEF Clients
    <3> QED
      BY <3>1, <3>2, <3>3
  <2>5. CASE p # <<>>
    <3>1. d = [f EXCEPT !.call.out = @ \o p, !.idle = FALSE]
      BY <2>2, <2>3, <2>5 DEF Send
    <3>2. [f EXCEPT !.call.out = @ \o p, !.idle = FALSE] = [f EXCEPT !.call = k, !.idle = FALSE]
      BY <2>1
    <3>3. [f EXCEPT !.call = k, !.idle = FALSE] = [e EXCEPT !.handshake = TRUE, !.call = k]
      BY <1>2, <2>1 DEF Clients
    <3> QED
      BY <3>1, <3>2, <3>3
  <2> QED
    BY <2>4, <2>5
<1> HIDE DEF k
<1>9. /\ d \in Clients /\ d.queue = client.queue /\ d.user = client.user
      /\ d.network = client.network /\ d.handshake
      /\ d.pipeline = p /\ d.state = client.state /\ ~d.idle
      /\ d.call = k /\ d.asking = e.asking /\ d.main = e.main
      /\ d.asserted /\ d.worker = e.worker /\ IsOpen(d)
  BY <1>1, <1>2, <1>6, <1>7, <1>8 DEF Clients, IsOpen
<1>10. QueuesSound(d) /\ PipelineSound(d) /\ StreamSound(d) /\ TokensSound(d)
  <2>1. QueuesSound(d) /\ PipelineSound(d)
    BY <1>2, <1>9 DEF QueuesSound, PipelineSound
  <2>2. StreamSound(d)
    BY <1>6, <1>7, <1>9 DEF StreamSound
  <2>3. TokensSound(d)
    BY <1>2, <1>9 DEF TokensSound, NoneAwaited
  <2> QED
    BY <2>1, <2>2, <2>3
<1>11. WorkerSound(d)
  <2>1. o # <<>> => k.out # <<>>
    BY <1>3, <1>5, <1>7, TailConcat
  <2>2. d.call # None /\ d.call.finishing = e.call.finishing /\ d.call.ended = e.call.ended
    BY <1>2, <1>7, <1>9
  <2>3. \A i \in DOMAIN d.worker : d.worker[i].kind \in {"written", "writeFailed"} => d.call.out # <<>>
    BY <1>2, <1>9, <2>1 DEF WorkerSound
  <2> QED
    BY <1>2, <1>9, <2>2, <2>3 DEF WorkerSound
<1>12. Live(d) /\ Coming(d) = <<>>
  <2>1. Read(d) = <<>>
    BY <1>3, <1>9 DEF Read, Posted
  <2> QED
    BY <1>1, <1>4, <1>7, <1>9, <2>1 DEF Live, Coming
<1>13. client.call.ended = "no" => InFlight(d) = p
  <2> SUFFICES ASSUME client.call.ended = "no" PROVE InFlight(d) = p
    OBVIOUS
  <2>1. client.call.toServer = <<>> /\ Unwritten(client) = <<>>
    BY <1>4
  <2>2. Unwritten(d) = p
    <3>1. Posted(d, {"written", "writeFailed"}) <=> Posted(client, {"written", "writeFailed"})
      BY <1>3, <1>9 DEF Posted
    <3>2. CASE Posted(client, {"written", "writeFailed"})
      <4>1. o # <<>> /\ Tail(o) = <<>>
        BY <1>1, <2>1, <3>2 DEF Posted, Sound, WorkerSound, Unwritten
      <4>2. Tail(o \o p) = Tail(o) \o p
        BY <1>3, <1>5, <4>1, TailConcat
      <4>3. Unwritten(d) = Tail(o \o p)
        BY <1>7, <1>9, <3>1, <3>2 DEF Unwritten
      <4>4. <<>> \o p = p
        BY <1>5, ConcatFacts
      <4> QED
        BY <4>1, <4>2, <4>3, <4>4
    <3>3. CASE ~Posted(client, {"written", "writeFailed"})
      <4>1. o = <<>>
        BY <2>1, <3>3 DEF Unwritten
      <4> QED
        BY <1>5, <1>7, <1>9, <3>1, <3>3, <4>1 DEF Unwritten
    <3> QED
      BY <3>2, <3>3
  <2>3. d.call.toServer = <<>>
    BY <1>7, <1>9, <2>1
  <2> QED
    BY <1>5, <1>12, <2>2, <2>3 DEF InFlight
<1>14. CallSound(d)
  <2>1. /\ client.call.user = client.user
        /\ \A i \in DOMAIN client.call.toServer :
              client.call.toServer[i] # Handshake => Author[client.call.toServer[i]] = client.user
        /\ \A i \in DOMAIN o : o[i] # Handshake => Author[o[i]] = client.user
    BY <1>1 DEF Sound, CallSound
  <2>2. ASSUME NEW i \in DOMAIN (o \o p), (o \o p)[i] # Handshake
        PROVE  Author[(o \o p)[i]] = client.user
    <3> HIDE DEF o, p
    <3>1. \/ i \in DOMAIN o /\ (o \o p)[i] = o[i]
          \/ \E j \in DOMAIN p : (o \o p)[i] = p[j]
      BY <1>3, <1>5, ConcatElements
    <3> QED
      BY <1>5, <2>1, <2>2, <3>1
  <2>3. IsPrefixOf(Coming(d), Sent(d)) /\ Sent(d) = p
    BY <1>5, <1>9, <1>12 DEF IsPrefixOf, Sent
  <2>4. /\ d.call.user = d.user /\ ~d.call.finishing
        /\ \A i \in DOMAIN d.call.toServer :
              d.call.toServer[i] # Handshake => Author[d.call.toServer[i]] = d.user
    BY <1>1, <1>7, <1>9, <2>1
  <2>6. \A i \in DOMAIN d.call.out : d.call.out[i] # Handshake => Author[d.call.out[i]] = d.user
    <3> HIDE DEF o, p
    <3>1. d.call.out = o \o p /\ d.user = client.user
      BY <1>7, <1>9
    <3> QED
      BY <2>2, <3>1
  <2>5. Live(d) /\ d.call.ended = "no" => InFlight(d) = Sent(d)
    BY <1>7, <1>9, <1>13, <2>3
  <2> QED
    BY <2>3, <2>4, <2>5, <2>6 DEF CallSound
<1>15. TokensAreOfUser(d, auth)
  <2>1. SameTokens(e, d)
    BY <1>2, <1>9 DEF SameTokens
  <2> QED
    BY <1>2, <1>9, <2>1, SameTokensKeep
<1>16. \A u : Answers(d, u) = Answers(client, u)
  <2>1. \A u : Answers(client, u) = 0
    BY <1>1 DEF Answers
  <2>2. \A u : Answers(d, u) = 0
    BY <1>12 DEF Answers
  <2> QED
    BY <2>1, <2>2
<1>17. [WQ!Next]_(WQ!vars)
  BY <1>1, <1>9, <1>16, SeesNothing
<1>18. Settled(d) /\ Sound(d)
  BY <1>9, <1>10, <1>11, <1>14 DEF Settled, Sound
<1> QED
  BY <1>1, <1>15, <1>17, <1>18 DEF StepKeeps

(* The result of the first batch has been read, and the batch is done with.      *)
LEMMA ResultTaken ==
    ASSUME IInv, Due("read"), client.handshake
    PROVE  /\ client.pipeline # <<>> /\ client.pipeline \in Seq(Messages) /\ ~client.idle
           /\ IsPrefixOf(client.call.toClient, Tail(client.pipeline))
           /\ client.call.ended = "no" =>
                 (client.call.toClient \o client.call.toServer) \o Unwritten(client)
                     = Tail(client.pipeline)
           /\ Len(Coming(client)) = 1 + Len(client.call.toClient)
<1> DEFINE m == NextTask.message
           a == client.call.toClient
           q == client.call.toServer
           o == Unwritten(client)
           p == client.pipeline
<1>1. /\ m \in Messages /\ a \in Seq(Messages) /\ q \in Seq(Messages) /\ o \in Seq(Messages)
      /\ Coming(client) = <<m>> \o a /\ Live(client)
  BY ReadTaken
<1>2. /\ Sent(client) = p
      /\ IsPrefixOf(Coming(client), Sent(client))
      /\ client.call.ended = "no" => InFlight(client) = Sent(client)
      /\ client.idle => p = <<>>
  BY <1>1 DEF IInv, Sound, CallSound, StreamSound, Sent, Live
<1>3. client.call.ended = "no" => ((<<m>> \o a) \o q) \o o = p
  BY <1>1, <1>2 DEF InFlight
<1>4. IsPrefixOf(<<m>> \o a, p) /\ p \in Seq(Messages)
  BY <1>1, <1>2, PipelineAuthors DEF IInv
<1>5. Len(Coming(client)) = 1 + Len(a)
  BY <1>1
<1> HIDE DEF m, a, q, o, p
<1>6. /\ <<m>> \o a \in Seq(Messages) /\ <<m>> \o a # <<>> /\ Tail(<<m>> \o a) = a
  BY <1>1
<1>7. p # <<>> /\ IsPrefixOf(a, Tail(p))
  <2> DEFINE s == <<m>> \o a
  <2>1. s \in Seq(Messages) /\ s # <<>> /\ Tail(s) = a /\ IsPrefixOf(s, p)
    BY <1>4, <1>6
  <2> HIDE DEF s
  <2>2. p # <<>> /\ IsPrefixOf(Tail(s), Tail(p))
    BY <1>4, <2>1, PrefixTail
  <2> QED
    BY <2>1, <2>2
<1>8. ASSUME ((<<m>> \o a) \o q) \o o = p PROVE (a \o q) \o o = Tail(p)
  <2> DEFINE t == (a \o q) \o o
  <2>1. m \in Messages /\ a \in Seq(Messages) /\ q \in Seq(Messages) /\ o \in Seq(Messages)
    BY <1>1
  <2>3. ((<<m>> \o a) \o q) \o o = <<m>> \o t /\ t \in Seq(Messages)
    BY <2>1, FlightTake
  <2>4. p = <<m>> \o t /\ t \in Seq(Messages)
    BY <1>8, <2>3
  <2> HIDE DEF t
  <2>2. Tail(p) = t
    BY <2>1, <2>4
  <2> QED
    BY <2>2 DEF t
<1> QED
  BY <1>2, <1>3, <1>4, <1>5, <1>7, <1>8 DEF a, q, o, p

(* The first batch is answered: the call still carries the rest of the pipeline. *)
LEMMA AnsweredSound ==
    ASSUME IInv, Due("read"), client.handshake, NEW g, g = Answered(Taken)
    PROVE  /\ Sound(g) /\ g.user = client.user /\ g.handshake /\ ~g.idle /\ IsOpen(g)
           /\ g.queue = [client.queue EXCEPT ![client.user] = Tail(client.queue[client.user])]
           /\ client.queue[client.user] # <<>>
           /\ Head(client.queue[client.user]) = Head(client.pipeline)
           /\ Live(client) /\ Live(g)
           /\ Len(Coming(client)) = 1 + Len(Coming(g))
           /\ TokensAreOfUser(g, auth)
<1> DEFINE e == Taken
<1>1. /\ Sound(client) /\ TokensAreOfUser(client, auth)
      /\ client.worker # <<>> /\ Head(client.worker).kind = "read"
      /\ e = [client EXCEPT !.worker = Tail(client.worker)]
      /\ client.call # None /\ client.call \in Calls /\ ~client.call.finishing /\ IsOpen(client)
  BY DueFacts
<1> HIDE DEF e
<1>2. /\ e \in Clients /\ e.queue = client.queue /\ e.user = client.user
      /\ e.network = client.network /\ e.handshake = client.handshake
      /\ e.pipeline = client.pipeline /\ e.state = client.state
      /\ e.idle = client.idle /\ e.call = client.call /\ e.asking = client.asking
      /\ e.main = client.main
      /\ e.asserted = client.asserted /\ e.worker = Tail(client.worker)
      /\ QueuesSound(e) /\ StreamSound(e) /\ TokensSound(e) /\ WorkerSound(e) /\ PipelineSound(e)
      /\ TokensAreOfUser(e, auth)
  <2>1. /\ Sound(client) /\ client.worker # <<>> /\ Head(client.worker).kind # "account"
        /\ e = [client EXCEPT !.worker = Tail(client.worker)]
    BY <1>1
  <2> QED
    BY <1>1, <2>1, TakenFacts, ZenonT(40)
<1>3. /\ Live(client) /\ Read(e) = <<>> /\ Unwritten(e) = Unwritten(client)
      /\ client.call.toClient \in Seq(Messages)
  BY ReadTaken DEF e
<1>4. /\ client.pipeline # <<>> /\ client.pipeline \in Seq(Messages) /\ ~client.idle
      /\ IsPrefixOf(client.call.toClient, Tail(client.pipeline))
      /\ client.call.ended = "no" =>
            (client.call.toClient \o client.call.toServer) \o Unwritten(client)
                = Tail(client.pipeline)
      /\ Len(Coming(client)) = 1 + Len(client.call.toClient)
  BY ResultTaken
<1>5. /\ g \in Clients /\ g.user = e.user /\ g.network = e.network /\ g.state = e.state
      /\ g.handshake = e.handshake /\ g.idle = e.idle /\ g.call = e.call
      /\ g.asking = e.asking /\ g.main = e.main /\ g.worker = e.worker
      /\ g.asserted = e.asserted
      /\ g.pipeline = Tail(e.pipeline)
      /\ g.queue = [e.queue EXCEPT ![e.user] = Tail(e.queue[e.user])]
      /\ e.queue[e.user] # <<>> /\ Head(e.queue[e.user]) = Head(e.pipeline)
      /\ QueuesSound(g) /\ PipelineSound(g)
  <2>1. g = Answered(e) /\ e.asserted /\ e.pipeline # <<>>
    BY <1>1, <1>2, <1>4 DEF e, Sound, StreamSound
  <2> QED
    BY <1>2, <2>1, AnsweredFacts
<1>6. IsOpen(g) /\ ~g.idle /\ g.handshake
  BY <1>1, <1>2, <1>4, <1>5 DEF IsOpen
<1>7. StreamSound(g)
  <2>1. StreamSound(e)
    BY <1>2
  <2>2. g.network
    BY <1>1, <1>2, <1>5, <2>1 DEF StreamSound, IsOpen, IsStarted
  <2>3. g.asserted /\ g.call # None
    BY <1>1, <1>2, <1>5, <2>1 DEF StreamSound
  <2> QED
    BY <1>6, <2>2, <2>3 DEF StreamSound
<1>8. TokensSound(g)
  BY <1>2, <1>5 DEF TokensSound, NoneAwaited
<1>9. WorkerSound(g)
  BY <1>2, <1>5 DEF WorkerSound
<1>10. Live(g) /\ Coming(g) = client.call.toClient /\ Unwritten(g) = Unwritten(client)
  <2>1. Read(g) = <<>> /\ Unwritten(g) = Unwritten(client)
    BY <1>3, <1>5 DEF Read, Unwritten, Posted
  <2> QED
    BY <1>2, <1>3, <1>5, <2>1 DEF Live, Coming
<1>11. CallSound(g)
  <2>1. /\ client.call.user = client.user
        /\ \A messages \in {client.call.out, client.call.toServer} : \A i \in DOMAIN messages :
              messages[i] # Handshake => Author[messages[i]] = client.user
    BY <1>1 DEF Sound, CallSound
  <2>2. Sent(g) = Tail(client.pipeline)
    BY <1>2, <1>5, <1>6 DEF Sent
  <2>3. InFlight(g) = (client.call.toClient \o client.call.toServer) \o Unwritten(client)
    BY <1>2, <1>5, <1>10 DEF InFlight
  <2>4. g.call = client.call /\ g.user = client.user /\ ~client.call.finishing
    BY <1>1, <1>2, <1>5
  <2>5. /\ IsPrefixOf(Coming(g), Sent(g))
        /\ client.call.ended = "no" => InFlight(g) = Sent(g)
    BY <1>4, <1>10, <2>2, <2>3
  <2> QED
    BY <2>1, <2>4, <2>5 DEF CallSound
<1>12. TokensAreOfUser(g, auth)
  <2>1. SameTokens(e, g)
    BY <1>5 DEF SameTokens
  <2> QED
    BY <1>2, <1>5, <2>1, SameTokensKeep
<1>13. Len(Coming(client)) = 1 + Len(Coming(g))
  BY <1>4, <1>10
<1> QED
  BY <1>2, <1>3, <1>5, <1>6, <1>7, <1>8, <1>9, <1>10, <1>11, <1>12, <1>13 DEF Sound

(* The result of the first batch is heard of.                                  *)
LEMMA MutationResultKeeps ==
    ASSUME IInv, MutationResult
    PROVE  StepKeeps
<1> DEFINE v == client.user
           g == Answered(Taken)
           d == client'
<1>1. /\ Sound(client) /\ Due("read") /\ client.handshake
      /\ d = Fill(g)
      /\ outcome' = [outcome EXCEPT ![Head(client.pipeline)] = "ok"]
      /\ auth' = auth /\ server' = server
  BY DEF MutationResult, IInv
<1>2. /\ Sound(g) /\ g.user = v /\ g.handshake /\ ~g.idle /\ IsOpen(g)
      /\ g.queue = [client.queue EXCEPT ![v] = Tail(client.queue[v])]
      /\ client.queue[v] # <<>> /\ Head(client.queue[v]) = Head(client.pipeline)
      /\ Live(client) /\ Live(g)
      /\ Len(Coming(client)) = 1 + Len(Coming(g))
      /\ TokensAreOfUser(g, auth)
  BY <1>1, AnsweredSound
<1> HIDE DEF g
<1>3. /\ Sound(d) /\ Leaves(g, d)
      /\ \A u : Answers(d, u) = Answers(g, u)
      /\ d.idle => d.queue[d.user] = <<>>
  BY <1>1, <1>2, FillFacts
<1>4. TokensAreOfUser(d, auth)
  BY <1>2, <1>3, LeavesTokens DEF Sound
<1>5. Settled(d)
  BY <1>2, <1>3 DEF Settled, Leaves
<1>6. /\ \A u : Answers(client, u) \in Nat
      /\ \A u : u # v => Answers(client, u) = 0 /\ Answers(g, u) = 0
      /\ Answers(client, v) = 1 + Answers(g, v) /\ Answers(g, v) \in Nat
  <2>1. /\ \A u : Answers(client, u) \in Nat /\ Answers(g, u) \in Nat
        /\ \A u : u # v => Answers(client, u) = 0 /\ Answers(g, u) = 0
        /\ Answers(client, v) = Len(Coming(client)) /\ Answers(g, v) = Len(Coming(g))
    BY <1>1, <1>2, AnswersFacts
  <2> QED
    BY <1>2, <2>1
<1>7. WQ!Acknowledge(v)
  <2>1. client'.queue = [client.queue EXCEPT ![v] = Tail(@)]
    BY <1>2, <1>3 DEF Leaves
  <2>2. v \in Users
    BY <1>1, ClientFields DEF Sound
  <2>3. [u \in Users |-> Answers(client, u)]' = [[u \in Users |-> Answers(client, u)] EXCEPT ![v] = @ - 1]
    BY <1>3, <1>6, <2>2
  <2>4. [u \in Users |-> Answers(client, u)][v] > 0
    BY <1>6, <2>2
  <2> QED
    BY <1>1, <1>2, <2>1, <2>3, <2>4 DEF WQ!Acknowledge
<1>8. [WQ!Next]_(WQ!vars)
  <2>1. v \in Users
    BY <1>1, ClientFields DEF Sound
  <2> QED
    BY <1>7, <2>1 DEF WQ!Next
<1> QED
  BY <1>1, <1>3, <1>4, <1>5, <1>8 DEF StepKeeps

-----------------------------------------------------------------------------
(* The end of a call.                                                          *)

(* A worker queue whose completions have been cancelled.                       *)
LEMMA CancelledFacts ==
    ASSUME NEW c \in Clients, TokensSound(c), NEW d, d = [c EXCEPT !.worker = CancelledAll(@)]
    PROVE  /\ d \in Clients /\ d.queue = c.queue /\ d.user = c.user /\ d.network = c.network
           /\ d.pipeline = c.pipeline /\ d.state = c.state /\ d.handshake = c.handshake
           /\ d.idle = c.idle /\ d.call = c.call /\ d.asking = c.asking /\ d.main = c.main
           /\ d.asserted = c.asserted
           /\ TokensSound(d) /\ SameTokens(c, d)
           /\ \A i \in DOMAIN d.worker : ~IsOfCall(d.worker[i])
<1> DEFINE w == c.worker
           x == CancelledAll(w)
<1>1. w \in Seq(Tasks) /\ DOMAIN w = 1..Len(w) /\ Len(w) \in Nat
  BY ClientFields
<1>2. \A i \in 1..Len(w) : w[i] \in Tasks
  BY <1>1
<1>3. x = [i \in 1..Len(w) |-> Cancelled(w[i])]
  BY <1>1 DEF CancelledAll
<1>4. \A i \in 1..Len(w) :
          /\ Cancelled(w[i]) \in Tasks
          /\ IF IsOfCall(w[i]) THEN Cancelled(w[i]).kind = "cancelled" ELSE Cancelled(w[i]) = w[i]
  BY <1>2, OutdatedFacts
<1> HIDE DEF w
<1>5. /\ x \in Seq(Tasks) /\ Len(x) = Len(w) /\ DOMAIN x = 1..Len(w)
      /\ \A i \in 1..Len(w) : x[i] = Cancelled(w[i])
  BY <1>1, <1>3, <1>4
<1> HIDE DEF x
<1>6. /\ d \in Clients /\ d.queue = c.queue /\ d.user = c.user /\ d.network = c.network
      /\ d.pipeline = c.pipeline /\ d.state = c.state /\ d.handshake = c.handshake
      /\ d.idle = c.idle /\ d.call = c.call /\ d.asking = c.asking /\ d.main = c.main
      /\ d.asserted = c.asserted /\ d.worker = x
  <2>1. d = [c EXCEPT !.worker = x]
    BY DEF x, w
  <2> QED
    BY <1>5, <2>1 DEF Clients
<1>7. \A i \in 1..Len(w) :
          /\ ~IsOfCall(x[i])
          /\ Awaited(x[i]) <=> Awaited(w[i])
          /\ x[i].kind = "account" <=> w[i].kind = "account"
          /\ x[i].kind = "token" <=> w[i].kind = "token"
          /\ x[i].kind \in {"account", "token"} => x[i].user = w[i].user
  <2> SUFFICES ASSUME NEW i \in 1..Len(w)
               PROVE  /\ ~IsOfCall(x[i])
                      /\ Awaited(x[i]) <=> Awaited(w[i])
                      /\ x[i].kind = "account" <=> w[i].kind = "account"
                      /\ x[i].kind = "token" <=> w[i].kind = "token"
                      /\ x[i].kind \in {"account", "token"} => x[i].user = w[i].user
    OBVIOUS
  <2>1. CASE IsOfCall(w[i])
    <3>1. x[i].kind = "cancelled" /\ w[i].kind \notin {"token", "account", "answer"}
      BY <1>4, <1>5, <2>1 DEF IsOfCall
    <3> QED
      BY <3>1 DEF IsOfCall, Awaited
  <2>2. CASE ~IsOfCall(w[i])
    BY <1>4, <1>5, <2>2
  <2> QED
    BY <2>1, <2>2
<1>8. TokensSound(d)
  BY <1>1, <1>5, <1>6, <1>7 DEF TokensSound, NoneAwaited, w
<1>9. SameTokens(c, d)
  BY <1>5, <1>6, <1>7 DEF SameTokens, w
<1>10. \A i \in DOMAIN d.worker : ~IsOfCall(d.worker[i])
  BY <1>5, <1>6, <1>7
<1> QED
  BY <1>6, <1>8, <1>9, <1>10

(* The client gives the call up, and waits for its status.                       *)
LEMMA OperationFailedKeeps ==
    ASSUME IInv, OperationFailed
    PROVE  StepKeeps
<1> DEFINE k == [client.call EXCEPT !.finishing = TRUE]
           t == [kind |-> "finished"]
           e == Taken
           x == [e EXCEPT !.worker = CancelledAll(@)]
           d == client'
<1>1. /\ Sound(client) /\ Settled(client) /\ TokensAreOfUser(client, auth)
      /\ client.worker # <<>> /\ Head(client.worker).kind \in {"readFailed", "writeFailed"}
      /\ e = [client EXCEPT !.worker = Tail(client.worker)]
      /\ client.call # None /\ client.call \in Calls /\ client.call.ended # "no"
      /\ d = [e EXCEPT !.call.finishing = TRUE, !.worker = Append(CancelledAll(@), t)]
      /\ auth' = auth /\ server' = server /\ outcome' = outcome
  <2>1. OperationFailed /\ (Due("readFailed") \/ Due("writeFailed"))
    BY DEF OperationFailed
  <2>2. /\ Sound(client) /\ Settled(client) /\ TokensAreOfUser(client, auth)
        /\ client.worker # <<>> /\ Head(client.worker).kind \in {"readFailed", "writeFailed"}
        /\ e = [client EXCEPT !.worker = Tail(client.worker)]
        /\ client.call # None /\ client.call \in Calls /\ client.call.ended # "no"
    <3>1. CASE Due("readFailed")
      BY <3>1, DueFacts
    <3>2. CASE Due("writeFailed")
      BY <3>2, DueFacts
    <3> QED
      BY <2>1, <3>1, <3>2
  <2> QED
    BY <2>1, <2>2 DEF OperationFailed
<1> HIDE DEF e
<1>2. /\ e \in Clients /\ e.queue = client.queue /\ e.user = client.user
      /\ e.network = client.network /\ e.handshake = client.handshake
      /\ e.pipeline = client.pipeline /\ e.state = client.state
      /\ e.idle = client.idle /\ e.call = client.call /\ e.asking = client.asking
      /\ e.main = client.main
      /\ e.asserted = client.asserted
      /\ QueuesSound(e) /\ StreamSound(e) /\ TokensSound(e) /\ WorkerSound(e) /\ PipelineSound(e)
      /\ TokensAreOfUser(e, auth)
  <2>1. /\ Sound(client) /\ client.worker # <<>> /\ Head(client.worker).kind # "account"
        /\ e = [client EXCEPT !.worker = Tail(client.worker)]
    BY <1>1
  <2> QED
    BY <1>1, <2>1, TakenFacts
<1>3. /\ x \in Clients /\ x.queue = e.queue /\ x.user = e.user /\ x.network = e.network
      /\ x.pipeline = e.pipeline /\ x.state = e.state /\ x.handshake = e.handshake
      /\ x.idle = e.idle /\ x.call = e.call /\ x.asking = e.asking /\ x.main = e.main
      /\ x.asserted = e.asserted
      /\ TokensSound(x) /\ SameTokens(e, x)
      /\ \A i \in DOMAIN x.worker : ~IsOfCall(x.worker[i])
  BY <1>2, CancelledFacts
<1>4. /\ k \in Calls /\ k # None
      /\ k.user = client.call.user /\ k.finishing
      /\ k.ended = client.call.ended /\ k.out = client.call.out
      /\ k.toServer = client.call.toServer /\ k.toClient = client.call.toClient
  BY <1>1, NoneAssumption DEF Calls
<1>5. d = [x EXCEPT !.call = k, !.worker = Append(x.worker, t)]
  <2>1. x.worker = CancelledAll(e.worker)
    BY <1>2 DEF Clients
  <2>2. d = [e EXCEPT !.call = k, !.worker = Append(CancelledAll(@), t)]
    BY <1>1, <1>2
  <2> QED
    BY <1>2, <2>1, <2>2 DEF Clients
<1> HIDE DEF k, x
<1>6. t \in Tasks /\ t.kind = "finished" /\ ~Awaited(t)
  BY DEF Tasks, CallTasks, Awaited
<1> HIDE DEF t
<1>7. /\ d \in Clients /\ d.queue = client.queue /\ d.user = client.user
      /\ d.network = client.network /\ d.handshake = client.handshake
      /\ d.pipeline = client.pipeline /\ d.state = client.state
      /\ d.idle = client.idle /\ d.call = k /\ d.asking = x.asking /\ d.main = x.main
      /\ d.asserted = client.asserted /\ d.worker = Append(x.worker, t)
  <2>1. Append(x.worker, t) \in Seq(Tasks)
    BY <1>3, <1>6, ClientFields, AppendFacts
  <2> QED
    BY <1>2, <1>3, <1>4, <1>5, <2>1 DEF Clients
<1>8. QueuesSound(d) /\ PipelineSound(d) /\ StreamSound(d)
  <2>1. QueuesSound(d) /\ PipelineSound(d)
    BY <1>2, <1>7 DEF QueuesSound, PipelineSound
  <2>2. StreamSound(d)
    BY <1>1, <1>4, <1>7 DEF Sound, StreamSound, IsStarted, IsOpen
  <2> QED
    BY <2>1, <2>2
<1>9. TokensSound(d)
  BY <1>2, <1>3, <1>6, <1>7, TokensAppend
<1>10. WorkerSound(d)
  <2> DEFINE n == Len(x.worker)
  <2>1. /\ DOMAIN d.worker = 1..(n + 1) /\ n \in Nat /\ DOMAIN x.worker = 1..n
        /\ \A i \in 1..n : d.worker[i] = x.worker[i]
        /\ d.worker[n + 1] = t
    BY <1>3, <1>6, <1>7, ClientFields, AppendFacts
  <2> HIDE DEF n
  <2>2. \A i \in DOMAIN d.worker :
            d.worker[i].kind \in {"read", "readFailed", "written", "writeFailed", "finished"} =>
                i = n + 1 /\ d.worker[i].kind = "finished"
    <3> SUFFICES ASSUME NEW i \in 1..(n + 1), i # n + 1
                 PROVE  ~IsOfCall(d.worker[i])
      BY <1>6, <2>1 DEF IsOfCall
    <3>1. i \in 1..n
      BY <2>1
    <3> QED
      BY <1>3, <2>1, <3>1
  <2> QED
    BY <1>4, <1>7, <2>2 DEF WorkerSound, IsOfCall
<1>11. CallSound(d)
  <2>1. /\ client.call.user = client.user
        /\ \A messages \in {client.call.out, client.call.toServer} : \A i \in DOMAIN messages :
              messages[i] # Handshake => Author[messages[i]] = client.user
    BY <1>1 DEF Sound, CallSound
  <2>2. ~Live(d)
    BY <1>4, <1>7 DEF Live
  <2>3. /\ d.call.user = d.user /\ d.user = client.user /\ d.call.ended # "no"
        /\ d.call.out = client.call.out /\ d.call.toServer = client.call.toServer
    BY <1>1, <1>4, <1>7, <2>1
  <2> QED
    BY <2>1, <2>2, <2>3 DEF CallSound
<1>12. TokensAreOfUser(d, auth)
  <2>1. TokensAreOfUser(x, auth)
    BY <1>2, <1>3, SameTokensKeep
  <2>2. /\ x \in Clients /\ d \in Clients /\ t \in Tasks /\ t.kind \notin {"account", "token"}
        /\ d.worker = Append(x.worker, t) /\ d.main = x.main /\ d.asking = x.asking
        /\ d.user = x.user
    BY <1>2, <1>3, <1>6, <1>7
  <2> QED
    BY <2>1, <2>2, TokensAdded
<1>13. [WQ!Next]_(WQ!vars)
  <2>1. \A u : Answers(d, u) = 0
    BY <1>4, <1>7 DEF Answers, Live
  <2>2. 0 \in 0..Answers(client, client.user)
    BY <1>1, AnswersFacts
  <2> QED
    BY <1>1, <1>7, <2>1, <2>2, SeesLoss
<1>14. Settled(d) /\ Sound(d)
  <2>1. Settled(d)
    BY <1>1, <1>7 DEF Settled, IsOpen
  <2> QED
    BY <1>7, <1>8, <1>9, <1>10, <1>11, <2>1 DEF Sound
<1> QED
  BY <1>1, <1>12, <1>13, <1>14 DEF StepKeeps

(* The client learns with which status the call has ended.                      *)
LEMMA FinishedKeeps ==
    ASSUME IInv, Finished
    PROVE  StepKeeps
<1> DEFINE v == client.user
           s == client.call.ended
           e == Taken
           d == client'
<1>1. /\ Sound(client) /\ TokensAreOfUser(client, auth)
      /\ client.worker # <<>> /\ Head(client.worker).kind = "finished"
      /\ e = [client EXCEPT !.worker = Tail(client.worker)]
      /\ client.call # None /\ client.call \in Calls /\ client.call.finishing
      /\ IsOpen(client)
      /\ d = Close(e, s)
      /\ outcome' = IF GivesUp(client, s)
                    THEN [outcome EXCEPT ![Head(client.pipeline)] = "error"] ELSE outcome
      /\ auth' = auth /\ server' = server
  <2>1. Finished /\ Due("finished")
    BY DEF Finished
  <2>2. /\ Sound(client) /\ TokensAreOfUser(client, auth)
        /\ client.worker # <<>> /\ Head(client.worker).kind = "finished"
        /\ e = [client EXCEPT !.worker = Tail(client.worker)]
        /\ client.call # None /\ client.call \in Calls /\ client.call.finishing
        /\ IsOpen(client)
    BY <2>1, DueFacts
  <2> QED
    BY <2>1, <2>2 DEF Finished
<1> HIDE DEF e
<1>2. /\ Sound(e) /\ e.queue = client.queue /\ e.user = v /\ e.handshake = client.handshake
      /\ e.pipeline = client.pipeline /\ e.state = client.state
      /\ TokensAreOfUser(e, auth)
  <2>1. /\ Sound(client) /\ client.worker # <<>> /\ Head(client.worker).kind # "account"
        /\ Head(client.worker).kind \notin {"read", "written"}
        /\ e = [client EXCEPT !.worker = Tail(client.worker)]
        /\ TokensAreOfUser(client, auth)
    BY <1>1
  <2> QED
    BY <2>1, TakenFacts
<1>3. s \in {"transient", "permanent"}
  BY <1>1, CallFields DEF Sound, CallSound
<1>4. GivesUp(e, s) <=> GivesUp(client, s)
  BY <1>2 DEF GivesUp
<1>5. /\ Sound(d) /\ d.user = e.user /\ d.call = None /\ ~d.idle /\ ~d.handshake
      /\ d.queue = IF GivesUp(e, s)
                   THEN [e.queue EXCEPT ![e.user] = Tail(@)] ELSE e.queue
      /\ TokensAreOfUser(d, auth)
  <2>1. IsStarted(e)
    BY <1>1, <1>2 DEF IsStarted, IsOpen
  <2>2. d = Close(e, s) /\ Sound(e) /\ TokensAreOfUser(e, auth)
    BY <1>1, <1>2
  <2> HIDE DEF d, s
  <2> QED
    BY <1>3, <2>1, <2>2, CloseFacts
<1>6. \A u : Answers(d, u) = 0 /\ Answers(client, u) = 0
  BY <1>1, <1>5 DEF Answers, Live
<1>7. [WQ!Next]_(WQ!vars)
  <2>1. CASE GivesUp(client, s)
    <3>1. client.pipeline # <<>>
      BY <2>1 DEF GivesUp
    <3>2. /\ v \in Users /\ client.queue[v] # <<>>
          /\ Head(client.queue[v]) = Head(client.pipeline)
      <4>1. /\ client.queue[v] \in Seq(BatchIds) /\ client.pipeline \in Seq(BatchIds)
            /\ v \in Users /\ IsPrefixOf(client.pipeline, client.queue[v])
        BY <1>1, ClientFields DEF Sound, PipelineSound
      <4> QED
        BY <3>1, <4>1, PrefixTail
    <3>3. client'.queue = [client.queue EXCEPT ![v] = Tail(@)]
      BY <1>2, <1>4, <1>5, <2>1
    <3>4. outcome' = [outcome EXCEPT ![Head(client.queue[v])] = "error"]
      BY <1>1, <2>1, <3>2
    <3>5. [u \in Users |-> Answers(client, u)]' = [[u \in Users |-> Answers(client, u)] EXCEPT ![v] = 0]
      BY <1>6
    <3>6. WQ!Reject(v)
      BY <1>1, <3>2, <3>3, <3>4, <3>5 DEF WQ!Reject
    <3> QED
      BY <3>2, <3>6 DEF WQ!Next
  <2>2. CASE ~GivesUp(client, s)
    <3>1. client'.queue = client.queue /\ outcome' = outcome
      BY <1>1, <1>2, <1>4, <1>5, <2>2
    <3> QED
      BY <1>1, <1>6, <3>1, SeesNothing
  <2> QED
    BY <2>1, <2>2
<1> QED
  BY <1>1, <1>5, <1>7 DEF StepKeeps, Settled


-----------------------------------------------------------------------------
(* Tokens and changes of account.                                              *)

(* A token that is still awaited opens the stream, which is the account's.       *)
LEMMA ResumeFacts ==
    ASSUME NEW e, Sound(e), e.state = "Starting", ~e.handshake, NoneAwaited(e),
           NEW d, d = Resume(e, e.user)
    PROVE  /\ Sound(d) /\ d.queue = e.queue /\ d.user = e.user /\ ~d.handshake /\ ~d.idle
           /\ \A u : TokensAreOfUser(e, u) => TokensAreOfUser(d, u)
<1> DEFINE n == NewCall(e.user)
           k == [n EXCEPT !.out = <<Handshake>>]
<1>1. /\ e \in Clients /\ e.asserted /\ ~IsOpen(e) /\ IsStarted(e)
      /\ QueuesSound(e) /\ StreamSound(e) /\ WorkerSound(e) /\ PipelineSound(e)
  BY DEF Sound, StreamSound, IsOpen, IsStarted
<1>2. e.call = None /\ ~e.idle /\ \A i \in DOMAIN e.worker : ~IsOfCall(e.worker[i])
  BY <1>1, NotOpenFacts
<1>3. e.user \in Users /\ <<Handshake>> \in Seq(Messages)
  BY <1>1, ClientFields DEF Messages
<1>4. /\ n \in Calls /\ n.out = <<>>
      /\ k \in Calls /\ k # None /\ k.user = e.user /\ k.out = <<Handshake>>
      /\ k.toServer = <<>> /\ k.toClient = <<>> /\ k.ended = "no" /\ ~k.finishing
  <2>1. /\ n \in Calls /\ n.out = <<>> /\ n.toServer = <<>> /\ n.toClient = <<>>
        /\ n.ended = "no" /\ n.finishing = FALSE /\ n.user = e.user
    <3>1. <<>> \in Seq(Messages)
      OBVIOUS
    <3> QED
      BY <1>3, <3>1 DEF NewCall, Calls
  <2> HIDE DEF n
  <2>2. /\ k \in Calls /\ k.user = n.user /\ k.out = <<Handshake>>
        /\ k.toServer = n.toServer /\ k.toClient = n.toClient /\ k.ended = n.ended
        /\ k.finishing = n.finishing
    BY <1>3, <2>1 DEF Calls
  <2> QED
    BY <2>1, <2>2, NoneAssumption
<1>5. d = [e EXCEPT !.state = "Open", !.call = k, !.idle = FALSE]
  <2> DEFINE o == [e EXCEPT !.state = "Open", !.call = n]
  <2>1. HardAssert(e, e.state = "Starting" /\ ~e.handshake) = e
    BY <1>1, Asserting
  <2>2. o \in Clients /\ o.asserted /\ IsOpen(o) /\ o.call = n
    BY <1>1, <1>4 DEF Clients, IsOpen
  <2>3. HardAssert(o, IsOpen(o)) = o
    BY <2>2, Asserting
  <2>4. d = Send(o, <<Handshake>>)
    BY <2>1 DEF Resume
  <2>5. <<>> \o <<Handshake>> = <<Handshake>> /\ <<Handshake>> # <<>>
    BY <1>3
  <2>6. d = [o EXCEPT !.call.out = <<>> \o <<Handshake>>, !.idle = FALSE]
    BY <1>4, <2>2, <2>3, <2>4, <2>5 DEF Send
  <2> QED
    BY <1>1, <2>2, <2>5, <2>6 DEF Clients
<1> HIDE DEF n, k
<1>6. /\ d \in Clients /\ d.queue = e.queue /\ d.user = e.user
      /\ d.network = e.network /\ d.handshake = e.handshake
      /\ d.pipeline = e.pipeline /\ d.state = "Open" /\ ~d.idle
      /\ d.call = k /\ d.asking = e.asking /\ d.main = e.main
      /\ d.asserted /\ d.worker = e.worker
  BY <1>1, <1>4, <1>5 DEF Clients
<1>7. QueuesSound(d) /\ PipelineSound(d)
  BY <1>1, <1>6 DEF QueuesSound, PipelineSound
<1>8. StreamSound(d)
  <2>1. d.network /\ d.pipeline # <<>>
    BY <1>1, <1>6 DEF StreamSound
  <2> QED
    BY <1>4, <1>6, <2>1 DEF StreamSound, IsOpen, IsStarted
<1>9. TokensSound(d)
  BY <1>6 DEF TokensSound, NoneAwaited
<1>10. WorkerSound(d)
  BY <1>2, <1>6 DEF WorkerSound, IsOfCall
<1>11. CallSound(d)
  <2>1. Read(d) = <<>> /\ Unwritten(d) = <<Handshake>>
    BY <1>2, <1>4, <1>6 DEF Read, Unwritten, Posted, IsOfCall
  <2>2. Coming(d) = <<>>
    BY <1>4, <1>6, <2>1 DEF Coming
  <2>3. Sent(d) = <<Handshake>>
    BY <1>6 DEF Sent
  <2>4. InFlight(d) = Sent(d)
    <3>1. InFlight(d) = (<<>> \o <<>>) \o <<Handshake>>
      BY <1>4, <1>6, <2>1, <2>2 DEF InFlight
    <3>2. (<<>> \o <<>>) \o <<Handshake>> = <<Handshake>>
      BY <1>3
    <3> QED
      BY <2>3, <3>1, <3>2
  <2>5. IsPrefixOf(Coming(d), Sent(d))
    BY <2>2, <2>3 DEF IsPrefixOf
  <2>6. \A i \in DOMAIN <<Handshake>> : <<Handshake>>[i] = Handshake
    OBVIOUS
  <2> QED
    BY <1>4, <1>6, <2>4, <2>5, <2>6 DEF CallSound
<1>12. \A u : TokensAreOfUser(e, u) => TokensAreOfUser(d, u)
  <2>1. SameTokens(e, d)
    BY <1>6 DEF SameTokens
  <2> QED
    BY <1>1, <1>6, <2>1, SameTokensKeep
<1> QED
  BY <1>6, <1>7, <1>8, <1>9, <1>10, <1>11, <1>12 DEF Sound

(* A token arrives: the stream opens, or closes, or the token is outdated.     *)
LEMMA TokenArrivesKeeps ==
    ASSUME IInv, TokenArrives
    PROVE  StepKeeps
<1> DEFINE t == Head(client.worker)
           e == Taken
           d == client'
<1>1. /\ Sound(client) /\ Settled(client) /\ TokensAreOfUser(client, auth)
      /\ client.worker # <<>> /\ t.kind = "token" /\ t \in Tasks
      /\ t = client.worker[1] /\ 1 \in DOMAIN client.worker
      /\ e = [client EXCEPT !.worker = Tail(client.worker)]
      /\ d = CASE ~t.current -> e
               [] t.current /\ t.user = None -> Close(e, "transient")
               [] OTHER -> Resume(e, t.user)
      /\ auth' = auth /\ server' = server /\ outcome' = outcome
  <2>1. TokenArrives /\ Due("token")
    BY DEF TokenArrives
  <2>2. /\ Sound(client) /\ Settled(client) /\ TokensAreOfUser(client, auth)
        /\ client.worker # <<>> /\ t.kind = "token" /\ t \in Tasks /\ NextTask = t
        /\ t = client.worker[1] /\ 1 \in DOMAIN client.worker
        /\ e = [client EXCEPT !.worker = Tail(client.worker)]
    BY <2>1, DueFacts
  <2> QED
    BY <2>1, <2>2 DEF TokenArrives
<1> HIDE DEF e
<1>2. /\ Sound(e) /\ e.queue = client.queue /\ e.user = client.user
      /\ e.handshake = client.handshake /\ e.idle = client.idle
      /\ e.pipeline = client.pipeline /\ e.state = client.state
      /\ e.worker = Tail(client.worker) /\ e.main = client.main /\ e.asking = client.asking
      /\ \A u : Answers(e, u) = Answers(client, u)
      /\ TokensAreOfUser(e, auth)
  <2>1. /\ Sound(client) /\ client.worker # <<>> /\ Head(client.worker).kind # "account"
        /\ Head(client.worker).kind \notin {"read", "written"}
        /\ e = [client EXCEPT !.worker = Tail(client.worker)]
        /\ TokensAreOfUser(client, auth)
    BY <1>1
  <2> QED
    BY <2>1, TakenFacts
<1>3. CASE ~t.current
  <2>1. d = e
    BY <1>1, <1>3
  <2> QED
    BY <1>1, <1>2, <2>1, QuietStep
<1>4. ASSUME t.current
      PROVE  /\ NoneAwaited(e) /\ client.state = "Starting" /\ ~client.handshake
             /\ client.call = None /\ IsStarted(e)
             /\ \A u : Answers(client, u) = 0
  <2>1. Awaited(t)
    BY <1>1, <1>4 DEF Awaited
  <2>2. NoneAwaited(e) /\ client.state = "Starting"
    BY <1>1, <1>2, <2>1, TokensTail DEF Sound
  <2>3. ~client.handshake /\ IsStarted(e) /\ ~IsOpen(client)
    BY <1>1, <1>2, <2>2 DEF Settled, IsOpen, IsStarted
  <2>4. client.call = None
    BY <1>1, <2>3, NotOpenFacts DEF Sound
  <2>5. \A u : Answers(client, u) = 0
    BY <2>3 DEF Answers
  <2> QED
    BY <2>2, <2>3, <2>4, <2>5
<1>5. CASE t.current /\ t.user = None
  <2>1. d = Close(e, "transient") /\ Sound(e) /\ IsStarted(e) /\ TokensAreOfUser(e, auth)
    BY <1>1, <1>2, <1>4, <1>5
  <2>2. ~GivesUp(e, "transient") /\ "transient" \in {"transient", "permanent"}
    BY DEF GivesUp
  <2>3. /\ Sound(d) /\ d.user = e.user /\ d.call = None /\ ~d.idle /\ ~d.handshake
        /\ d.queue = e.queue /\ TokensAreOfUser(d, auth)
    <3> HIDE DEF d
    <3> QED
      BY <2>1, <2>2, CloseFacts
  <2>4. \A u : Answers(d, u) = Answers(client, u)
    BY <1>4, <1>5, <2>3 DEF Answers
  <2>5. [WQ!Next]_(WQ!vars)
    BY <1>1, <1>2, <2>3, <2>4, SeesNothing
  <2> QED
    BY <1>1, <2>3, <2>5 DEF StepKeeps, Settled
<1>6. CASE t.current /\ t.user # None
  <2>1. t.user = client.user
    <3>1. Heads(client, 1 - 1, t.user)
      BY <1>1, <1>6 DEF TokensAreOfUser
    <3> QED
      BY <3>1 DEF Heads
  <2>2. d = Resume(e, e.user)
    BY <1>1, <1>2, <1>6, <2>1
  <2>3. /\ Sound(d) /\ d.queue = e.queue /\ d.user = e.user /\ ~d.handshake /\ ~d.idle
        /\ TokensAreOfUser(d, auth)
    BY <1>2, <1>4, <1>6, <2>2, ResumeFacts
  <2>4. \A u : Answers(d, u) = Answers(client, u)
    BY <1>4, <1>6, <2>3 DEF Answers
  <2>5. [WQ!Next]_(WQ!vars)
    BY <1>1, <1>2, <2>3, <2>4, SeesNothing
  <2> QED
    BY <1>1, <2>3, <2>5 DEF StepKeeps, Settled
<1>7. t.current \in BOOLEAN
  BY <1>1, TaskFields
<1> QED
  BY <1>3, <1>5, <1>6, <1>7

(* The account changes: the streams restart.                                   *)
LEMMA AccountChangesKeeps ==
    ASSUME IInv, AccountChanges
    PROVE  StepKeeps
<1> DEFINE t == Head(client.worker)
           e == Taken
           f == [e EXCEPT !.user = t.user]
           d == client'
<1>1. /\ Sound(client) /\ Settled(client) /\ TokensAreOfUser(client, auth)
      /\ client.worker # <<>> /\ t.kind = "account" /\ t \in Tasks
      /\ e = [client EXCEPT !.worker = Tail(client.worker)]
      /\ d = RestartIfEnabled(f)
      /\ auth' = auth /\ server' = server /\ outcome' = outcome
  <2>1. AccountChanges /\ Due("account")
    BY DEF AccountChanges
  <2>2. /\ Sound(client) /\ Settled(client) /\ TokensAreOfUser(client, auth)
        /\ client.worker # <<>> /\ t.kind = "account" /\ t \in Tasks /\ NextTask = t
        /\ e = [client EXCEPT !.worker = Tail(client.worker)]
    BY <2>1, DueFacts
  <2> QED
    BY <2>1, <2>2 DEF AccountChanges
<1> HIDE DEF e
<1>2. /\ e \in Clients /\ e.queue = client.queue
      /\ e.network = client.network /\ e.handshake = client.handshake
      /\ e.pipeline = client.pipeline /\ e.state = client.state
      /\ e.idle = client.idle /\ e.call = client.call /\ e.asking = client.asking
      /\ e.main = client.main /\ e.worker = Tail(client.worker)
      /\ e.asserted = client.asserted
      /\ QueuesSound(e) /\ StreamSound(e) /\ TokensSound(e) /\ WorkerSound(e)
  <2>1. /\ Sound(client) /\ client.worker # <<>>
        /\ e = [client EXCEPT !.worker = Tail(client.worker)]
    BY <1>1
  <2> QED
    BY <2>1, TakenFacts
<1>3. t.user \in Users
  BY <1>1, TaskFields
<1> HIDE DEF t
<1>4. /\ f \in Clients /\ f.queue = e.queue /\ f.user = t.user
      /\ f.network = e.network /\ f.handshake = e.handshake
      /\ f.pipeline = e.pipeline /\ f.state = e.state
      /\ f.idle = e.idle /\ f.call = e.call /\ f.asking = e.asking
      /\ f.main = e.main /\ f.worker = e.worker /\ f.asserted = e.asserted
  BY <1>2, <1>3 DEF Clients
<1> HIDE DEF f
<1>5. QueuesSound(f) /\ StreamSound(f) /\ TokensSound(f) /\ WorkerSound(f)
  <2>1. QueuesSound(f)
    <3>1. f.queue = e.queue /\ QueuesSound(e)
      BY <1>2, <1>4
    <3> QED
      BY <3>1 DEF QueuesSound
  <2>2. StreamSound(f)
    BY <1>2, <1>4 DEF StreamSound, IsStarted, IsOpen
  <2>3. TokensSound(f)
    BY <1>2, <1>4 DEF TokensSound, NoneAwaited
  <2>4. WorkerSound(f)
    BY <1>2, <1>4 DEF WorkerSound
  <2> QED
    BY <2>1, <2>2, <2>3, <2>4
<1>6. TokensAreOfUser(f, auth)
  <2>1. /\ client \in Clients /\ client.worker # <<>> /\ f.worker = Tail(client.worker)
        /\ f.main = client.main /\ f.asking = client.asking
        /\ Head(client.worker).kind = "account" /\ f.user = Head(client.worker).user
        /\ TokensAreOfUser(client, auth)
    BY <1>1, <1>2, <1>4 DEF Sound, t
  <2> QED
    BY <1>4, <2>1, TokensTaken
<1>7. f.handshake => IsOpen(f)
  BY <1>1, <1>2, <1>4 DEF Settled, IsOpen
<1>8. /\ Sound(d) /\ d.queue = f.queue /\ d.user = f.user /\ d.call = None /\ ~d.idle
      /\ ~d.handshake /\ TokensAreOfUser(d, auth)
  <2>1. d = RestartIfEnabled(f)
    BY <1>1
  <2> HIDE DEF d
  <2> QED
    BY <1>4, <1>5, <1>6, <1>7, <2>1, RestartIfEnabledFacts
<1>9. [WQ!Next]_(WQ!vars)
  <2>1. \A u : Answers(d, u) = 0
    BY <1>8 DEF Answers
  <2>2. 0 \in 0..Answers(client, client.user) /\ client'.queue = client.queue
    BY <1>1, <1>2, <1>4, <1>8, AnswersFacts
  <2> QED
    BY <1>1, <2>1, <2>2, SeesLoss
<1> QED
  BY <1>1, <1>8, <1>9 DEF StepKeeps, Settled

-----------------------------------------------------------------------------
(* Timers, the network and the process.                                         *)

(* A step that leaves no stream, and the queues as they are: what was to be heard *)
(* of is lost.                                                                 *)
LEMMA StreamlessStep ==
    ASSUME Sound(client), Sound(client'), TokensAreOfUser(client', auth'),
           client'.queue = client.queue, client'.call = None, ~client'.idle, ~client'.handshake,
           server' = server, outcome' = outcome
    PROVE  StepKeeps
<1>1. \A u : Answers(client', u) = 0
  BY DEF Answers
<1>2. 0 \in 0..Answers(client, client.user)
  BY AnswersFacts
<1>3. [WQ!Next]_(WQ!vars)
  BY <1>1, <1>2, SeesLoss
<1> QED
  BY <1>3 DEF StepKeeps, Settled

(* The backoff is over: the stream starts again.                               *)
LEMMA BackoffElapsesKeeps ==
    ASSUME IInv, BackoffElapses
    PROVE  StepKeeps
<1> DEFINE c == client
           e == [c EXCEPT !.state = "Initial"]
           d == client'
<1>1. /\ Sound(c) /\ Settled(c) /\ TokensAreOfUser(c, auth) /\ c.state = "Backoff"
      /\ d = Start(e)
      /\ auth' = auth /\ server' = server /\ outcome' = outcome
  BY DEF IInv, BackoffElapses
<1> HIDE DEF c
<1>2. /\ c \in Clients /\ QueuesSound(c) /\ StreamSound(c) /\ TokensSound(c) /\ WorkerSound(c)
      /\ PipelineSound(c)
      /\ ~IsOpen(c) /\ IsStarted(c) /\ c.asserted
  BY <1>1 DEF Sound, StreamSound, IsOpen, IsStarted
<1>3. /\ c.call = None /\ ~c.idle /\ \A i \in DOMAIN c.worker : ~IsOfCall(c.worker[i])
      /\ ~c.handshake /\ c.network /\ c.pipeline # <<>>
  BY <1>1, <1>2, NotOpenFacts DEF Settled, StreamSound
<1>4. /\ e \in Clients /\ e.queue = c.queue /\ e.user = c.user
      /\ e.network = c.network /\ e.handshake = c.handshake
      /\ e.pipeline = c.pipeline /\ e.state = "Initial"
      /\ e.idle = c.idle /\ e.call = c.call /\ e.asking = c.asking
      /\ e.main = c.main /\ e.worker = c.worker /\ e.asserted = c.asserted
  BY <1>2 DEF Clients
<1> HIDE DEF e
<1>5. ~IsStarted(e) /\ ~IsOpen(e)
  BY <1>4 DEF IsStarted, IsOpen
<1>6. NoneAwaited(e)
  BY <1>1, <1>2, <1>4 DEF TokensSound, NoneAwaited
<1>7. Sound(e)
  <2>1. QueuesSound(e) /\ PipelineSound(e)
    BY <1>2, <1>4 DEF QueuesSound, PipelineSound
  <2>2. /\ e.asserted /\ e.call = None /\ ~e.idle /\ (~e.network => e.pipeline = <<>>)
        /\ \A i \in DOMAIN e.worker : ~IsOfCall(e.worker[i])
    BY <1>2, <1>3, <1>4
  <2> QED
    BY <1>4, <1>5, <1>6, <2>1, <2>2, QuietSound
<1>8. TokensAreOfUser(e, auth)
  <2>1. SameTokens(c, e)
    BY <1>4 DEF SameTokens
  <2> QED
    BY <1>1, <1>2, <1>4, <2>1, SameTokensKeep
<1>9. /\ Sound(d) /\ Leaves(e, d) /\ d.call = e.call /\ d.idle = e.idle
  <2>1. e.network /\ e.pipeline # <<>>
    BY <1>3, <1>4
  <2> QED
    BY <1>1, <1>5, <1>7, <2>1, StartFacts
<1>10. TokensAreOfUser(d, auth)
  BY <1>4, <1>8, <1>9, LeavesTokens
<1>11. d.queue = c.queue /\ d.call = None /\ ~d.idle /\ ~d.handshake
  BY <1>3, <1>4, <1>9 DEF Leaves
<1> QED
  BY <1>1, <1>9, <1>10, <1>11, StreamlessStep DEF c

(* The idle timer closes the stream.                                           *)
LEMMA IdleElapsesKeeps ==
    ASSUME IInv, IdleElapses
    PROVE  StepKeeps
<1> DEFINE c == client
           e == Closed(c, "ok")
           d == client'
<1>1. /\ Sound(c) /\ TokensAreOfUser(c, auth) /\ c.idle
      /\ d = Stop(c)
      /\ auth' = auth /\ server' = server /\ outcome' = outcome
  BY DEF IInv, IdleElapses
<1> HIDE DEF c
<1>2. /\ c \in Clients /\ QueuesSound(c) /\ PipelineSound(c) /\ c.asserted
      /\ c.pipeline = <<>> /\ IsStarted(c) /\ c.network
  BY <1>1 DEF Sound, StreamSound, IsOpen, IsStarted
<1>3. d = [e EXCEPT !.handshake = FALSE]
  BY <1>1, <1>2, StopUnfolds
<1>4. /\ e \in Clients /\ e.queue = c.queue /\ e.user = c.user /\ e.network = c.network
      /\ e.pipeline = c.pipeline /\ e.asserted
      /\ e.state = "Initial"
      /\ e.call = None /\ ~e.idle
      /\ NoneAwaited(e) /\ SameTokens(c, e)
      /\ \A i \in DOMAIN e.worker : ~IsOfCall(e.worker[i])
  BY <1>2, ClosedFacts
<1> HIDE DEF e
<1>5. Sound(e) /\ ~IsOpen(e)
  <2>1. QueuesSound(e) /\ PipelineSound(e)
    BY <1>2, <1>4 DEF QueuesSound, PipelineSound
  <2>2. ~IsStarted(e) /\ ~IsOpen(e) /\ (~e.network => e.pipeline = <<>>)
    BY <1>2, <1>4 DEF IsStarted, IsOpen
  <2> QED
    BY <1>4, <2>1, <2>2, QuietSound
<1>6. TokensAreOfUser(e, auth)
  BY <1>1, <1>2, <1>4, SameTokensKeep
<1>7. /\ Sound(d) /\ d.queue = e.queue /\ d.call = None
      /\ ~d.idle /\ ~d.handshake /\ TokensAreOfUser(d, auth)
  BY <1>3, <1>5, <1>6, HandshakeForgotten
<1> QED
  BY <1>1, <1>4, <1>7, StreamlessStep DEF c

(* The app enables the network.                                                *)
LEMMA NetworkEnabledKeeps ==
    ASSUME IInv, NetworkEnabled
    PROVE  StepKeeps
<1> DEFINE c == client
           d == client'
<1>1. /\ Sound(c) /\ Settled(c) /\ TokensAreOfUser(c, auth) /\ ~c.network
      /\ d = EnableNetwork(c)
      /\ auth' = auth /\ server' = server /\ outcome' = outcome
  BY DEF IInv, NetworkEnabled
<1> HIDE DEF c
<1>2. ~IsStarted(c) /\ ~c.handshake
  BY <1>1 DEF Sound, StreamSound, Settled, IsOpen, IsStarted
<1>3. /\ Sound(d) /\ d.queue = c.queue /\ d.call = None
      /\ d.handshake = c.handshake /\ ~d.idle /\ TokensAreOfUser(d, auth)
  <2> HIDE DEF d
  <2> QED
    BY <1>1, <1>2, EnableFacts
<1> QED
  BY <1>1, <1>2, <1>3, StreamlessStep DEF c

(* The network comes back under another address.                               *)
LEMMA ConnectivityChangesKeeps ==
    ASSUME IInv, ConnectivityChanges
    PROVE  StepKeeps
<1> DEFINE c == client
           d == client'
<1>1. /\ Sound(c) /\ Settled(c) /\ TokensAreOfUser(c, auth)
      /\ d = RestartIfEnabled(c)
      /\ auth' = auth /\ server' = server /\ outcome' = outcome
  BY DEF IInv, ConnectivityChanges
<1> HIDE DEF c
<1>2. /\ c \in Clients /\ QueuesSound(c) /\ StreamSound(c) /\ TokensSound(c) /\ WorkerSound(c)
      /\ c.handshake => IsOpen(c)
  BY <1>1 DEF Sound, Settled
<1>3. /\ Sound(d) /\ d.queue = c.queue /\ d.call = None /\ ~d.idle /\ ~d.handshake
      /\ TokensAreOfUser(d, auth)
  <2> HIDE DEF d
  <2> QED
    BY <1>1, <1>2, RestartIfEnabledFacts
<1> QED
  BY <1>1, <1>3, StreamlessStep DEF c

(* The app disables the network.                                               *)
LEMMA NetworkDisabledKeeps ==
    ASSUME IInv, NetworkDisabled
    PROVE  StepKeeps
<1> DEFINE c == client
           d == client'
<1>1. /\ Sound(c) /\ Settled(c) /\ TokensAreOfUser(c, auth)
      /\ d = DisableNetwork(c)
      /\ auth' = auth /\ server' = server /\ outcome' = outcome
  BY DEF IInv, NetworkDisabled
<1> HIDE DEF c
<1>2. /\ c \in Clients /\ QueuesSound(c) /\ StreamSound(c) /\ TokensSound(c) /\ WorkerSound(c)
      /\ c.handshake => IsOpen(c)
  BY <1>1 DEF Sound, Settled
<1>3. /\ Sound(d) /\ d.queue = c.queue /\ d.pipeline = <<>> /\ d.call = None /\ ~IsStarted(d)
      /\ SameTokens(c, d) /\ ~d.handshake
  <2> HIDE DEF d
  <2> QED
    BY <1>1, <1>2, DisableFacts
<1>4. TokensAreOfUser(d, auth) /\ ~d.idle
  <2>1. TokensAreOfUser(d, auth)
    BY <1>1, <1>2, <1>3, SameTokensKeep DEF Sound
  <2>2. ~d.idle
    BY <1>3 DEF Sound, StreamSound, IsOpen, IsStarted
  <2> QED
    BY <2>1, <2>2
<1> QED
  BY <1>1, <1>3, <1>4, StreamlessStep DEF c

(* A process that starts has only the queues.                                   *)
LEMMA LaunchedFacts ==
    ASSUME NEW q \in [Users -> Seq(BatchIds)], auth \in Users,
           \A u \in Users : /\ Sorted(q[u])
                            /\ \A i \in DOMAIN q[u] : Author[q[u][i]] = u,
           NEW d, d = Launched(q)
    PROVE  /\ Sound(d) /\ d.queue = q /\ d.call = None /\ ~d.idle /\ ~d.handshake
           /\ TokensAreOfUser(d, auth)
<1> DEFINE e == NewClient(q, auth)
<1>1. /\ e \in Clients /\ e.queue = q /\ e.user = auth /\ e.network = FALSE
      /\ e.pipeline = <<>> /\ e.state = "Initial" /\ e.handshake = FALSE /\ e.idle = FALSE
      /\ e.call = None /\ e.asking = {} /\ e.main = <<>> /\ e.worker = <<>> /\ e.asserted = TRUE
  <2>1. <<>> \in Seq(BatchIds) /\ <<>> \in Seq(MainTasks) /\ <<>> \in Seq(Tasks)
    OBVIOUS
  <2> QED
    BY <2>1 DEF NewClient, Clients
<1>2. d = EnableNetwork(e)
  BY DEF Launched
<1> HIDE DEF e
<1>3. DOMAIN e.worker = {} /\ DOMAIN e.main = {} /\ Len(e.worker) = 0 /\ Len(e.main) = 0
  BY <1>1
<1>4. ~IsStarted(e) /\ NoneAwaited(e)
  BY <1>1, <1>3 DEF IsStarted, NoneAwaited
<1>5. QueuesSound(e) /\ PipelineSound(e)
  <2>1. QueuesSound(e)
    BY <1>1 DEF QueuesSound
  <2>2. e.queue[e.user] \in Seq(BatchIds) /\ Len(e.queue[e.user]) \in Nat
    BY <1>1, ClientFields
  <2>3. PipelineSound(e)
    BY <1>1, <2>2, CapacityAssumption DEF PipelineSound, IsPrefixOf
  <2> QED
    BY <2>1, <2>3
<1>6. Sound(e)
  BY <1>1, <1>3, <1>4, <1>5, QuietSound
<1>7. TokensAreOfUser(e, auth)
  <2>1. Heads(e, Len(e.worker), auth)
    BY <1>1, <1>3 DEF Heads
  <2> QED
    BY <1>1, <1>3, <2>1 DEF TokensAreOfUser
<1>8. /\ Sound(d) /\ d.queue = e.queue /\ d.call = None
      /\ d.handshake = e.handshake /\ ~d.idle /\ TokensAreOfUser(d, auth)
  BY <1>2, <1>4, <1>6, <1>7, EnableFacts
<1> QED
  BY <1>1, <1>8

(* The process dies and is launched again.                                     *)
LEMMA ProcessDiesKeeps ==
    ASSUME IInv, ProcessDies
    PROVE  StepKeeps
<1> DEFINE d == client'
<1>1. /\ Sound(client) /\ auth \in Users
      /\ d = Launched(client.queue)
      /\ auth' = auth /\ server' = server /\ outcome' = outcome
  BY DEF IInv, TypeOK, ProcessDies
<1>2. /\ client.queue \in [Users -> Seq(BatchIds)]
      /\ \A u \in Users : /\ Sorted(client.queue[u])
                          /\ \A i \in DOMAIN client.queue[u] : Author[client.queue[u][i]] = u
  BY <1>1, ClientFields DEF Sound, QueuesSound
<1>3. /\ Sound(d) /\ d.queue = client.queue /\ d.call = None /\ ~d.idle /\ ~d.handshake
      /\ TokensAreOfUser(d, auth)
  <2> HIDE DEF d
  <2> QED
    BY <1>1, <1>2, LaunchedFacts
<1> QED
  BY <1>1, <1>3, StreamlessStep

-----------------------------------------------------------------------------
(* The app writes.                                                             *)

(* A batch that follows all others keeps a queue sorted.                       *)
LEMMA AppendSorted ==
    ASSUME NEW q \in Seq(BatchIds), NEW b \in BatchIds, Sorted(q), \A i \in DOMAIN q : q[i] < b
    PROVE  Sorted(Append(q, b))
<1> DEFINE n == Len(q)
           r == Append(q, b)
<1>1. /\ n \in Nat /\ DOMAIN q = 1..n /\ DOMAIN r = 1..(n + 1)
      /\ \A i \in 1..n : r[i] = q[i]
      /\ r[n + 1] = b
  BY AppendFacts
<1> HIDE DEF n, r
<1>2. ASSUME NEW i \in 1..(n + 1), NEW j \in 1..(n + 1), i < j PROVE r[i] < r[j]
  <2>1. i \in 1..n /\ (j \in 1..n \/ j = n + 1)
    BY <1>1, <1>2
  <2> QED
    BY <1>1, <1>2, <2>1 DEF Sorted
<1>3. Sorted(r)
  BY <1>1, <1>2 DEF Sorted
<1> QED
  BY <1>3 DEF r

(* The app writes: the newest batch is the last of its queue.                  *)
LEMMA WriteKeeps ==
    ASSUME IInv, NEW b \in BatchIds, Write(b)
    PROVE  StepKeeps
<1> DEFINE c == client
           q == c.queue[c.user]
           r == Append(q, b)
           e == [c EXCEPT !.queue[c.user] = r]
           d == client'
<1>1. /\ Sound(c) /\ Settled(c) /\ TokensAreOfUser(c, auth)
      /\ Author[b] = c.user /\ ~Written(b) /\ \A a \in 1..(b - 1) : Written(a)
      /\ d = Fill(e)
      /\ auth' = auth /\ server' = server /\ outcome' = outcome
  BY DEF IInv, Write
<1>2. \A i \in DOMAIN q : q[i] < b
  <2>1. WQ!IInv /\ ~WQ!Written(b)
    BY <1>1 DEF IInv, Written, WQ!Written
  <2>2. \A i \in DOMAIN c.queue[Author[b]] : c.queue[Author[b]][i] < b
    BY <2>1, WQ!NewestFollowsAll, BatchesAssumption, AuthorAssumption DEF BatchIds, WQ!BatchIds
  <2> QED
    BY <1>1, <2>2
<1>3. ASSUME d.queue = e.queue, \A u \in Users : Answers(d, u) = Answers(c, u)
      PROVE  WQ!Write(b)
  <2>1. ~WQ!Written(b) /\ \A a \in 1..(b - 1) : WQ!Written(a)
    BY <1>1 DEF Written, WQ!Written
  <2>2. e.queue = [c.queue EXCEPT ![Author[b]] = Append(@, b)]
    <3>1. c \in Clients
      BY <1>1 DEF Sound
    <3>2. e.queue = [c.queue EXCEPT ![c.user] = r]
      BY <3>1 DEF Clients
    <3> QED
      BY <1>1, <3>2
  <2> QED
    BY <1>1, <1>3, <2>1, <2>2 DEF WQ!Write
<1> HIDE DEF c
<1>4. /\ c \in Clients /\ c.user \in Users /\ q \in Seq(BatchIds)
      /\ c.queue \in [Users -> Seq(BatchIds)] /\ c.pipeline \in Seq(BatchIds)
      /\ QueuesSound(c) /\ StreamSound(c) /\ TokensSound(c) /\ WorkerSound(c)
      /\ PipelineSound(c) /\ CallSound(c)
  BY <1>1, ClientFields DEF Sound
<1>5. /\ r \in Seq(BatchIds) /\ Len(q) \in Nat /\ Len(r) = Len(q) + 1
      /\ DOMAIN q = 1..Len(q) /\ DOMAIN r = 1..(Len(q) + 1)
      /\ \A i \in 1..Len(q) : r[i] = q[i]
      /\ r[Len(q) + 1] = b
  BY <1>4, AppendFacts
<1>6. Sorted(r)
  <2>1. Sorted(q)
    BY <1>4 DEF QueuesSound
  <2> HIDE DEF q
  <2> QED
    BY <1>2, <1>4, <2>1, AppendSorted
<1>7. \A i \in DOMAIN r : Author[r[i]] = c.user
  <2>1. \A i \in DOMAIN q : Author[q[i]] = c.user
    BY <1>4 DEF QueuesSound
  <2> HIDE DEF q, r
  <2> SUFFICES ASSUME NEW i \in 1..(Len(q) + 1) PROVE Author[r[i]] = c.user
    BY <1>5
  <2>2. CASE i = Len(q) + 1
    BY <1>1, <1>5, <2>2
  <2>3. CASE i # Len(q) + 1
    <3>1. i \in 1..Len(q)
      BY <1>5, <2>3
    <3> QED
      BY <1>5, <2>1, <3>1
  <2> QED
    BY <2>2, <2>3
<1> HIDE DEF r
<1>8. /\ e \in Clients /\ e.queue = [c.queue EXCEPT ![c.user] = r] /\ e.user = c.user
      /\ e.network = c.network /\ e.handshake = c.handshake
      /\ e.pipeline = c.pipeline /\ e.state = c.state
      /\ e.idle = c.idle /\ e.call = c.call /\ e.asking = c.asking
      /\ e.main = c.main /\ e.worker = c.worker /\ e.asserted = c.asserted
  BY <1>4, <1>5 DEF Clients
<1> HIDE DEF e
<1>9. QueuesSound(e)
  <2>1. \A u \in Users : e.queue[u] = IF u = c.user THEN r ELSE c.queue[u]
    BY <1>4, <1>8
  <2> QED
    BY <1>4, <1>6, <1>7, <2>1 DEF QueuesSound
<1>10. PipelineSound(e)
  <2>1. Len(c.pipeline) <= kMaxPendingWrites /\ IsPrefixOf(c.pipeline, q)
    BY <1>4 DEF PipelineSound
  <2>2. e.queue[e.user] = r
    BY <1>4, <1>8
  <2>3. IsPrefixOf(c.pipeline, r)
    <3>1. Len(c.pipeline) \in Nat
      BY <1>4
    <3> HIDE DEF q
    <3> QED
      BY <1>5, <2>1, <3>1 DEF IsPrefixOf
  <2> QED
    BY <1>8, <2>1, <2>2, <2>3 DEF PipelineSound
<1>11. StreamSound(e) /\ TokensSound(e) /\ WorkerSound(e)
  <2>1. StreamSound(e)
    BY <1>4, <1>8 DEF StreamSound, IsStarted, IsOpen
  <2>2. TokensSound(e)
    BY <1>4, <1>8 DEF TokensSound, NoneAwaited
  <2>3. WorkerSound(e)
    BY <1>4, <1>8 DEF WorkerSound
  <2> QED
    BY <2>1, <2>2, <2>3
<1>12. /\ Live(e) <=> Live(c)
       /\ Coming(e) = Coming(c) /\ InFlight(e) = InFlight(c) /\ Sent(e) = Sent(c)
  BY <1>8 DEF Live, Coming, InFlight, Sent, Read, Unwritten, Posted
<1>13. CallSound(e)
  BY <1>4, <1>8, <1>12 DEF CallSound
<1>14. Sound(e)
  BY <1>8, <1>9, <1>10, <1>11, <1>13 DEF Sound
<1>15. TokensAreOfUser(e, auth)
  <2>1. SameTokens(c, e)
    BY <1>8 DEF SameTokens
  <2> QED
    BY <1>1, <1>4, <1>8, <2>1, SameTokensKeep
<1>16. /\ Sound(d) /\ Leaves(e, d)
       /\ \A u : Answers(d, u) = Answers(e, u)
       /\ d.idle => d.queue[d.user] = <<>>
  BY <1>1, <1>14, FillFacts
<1>17. TokensAreOfUser(d, auth)
  BY <1>8, <1>15, <1>16, LeavesTokens
<1>18. Settled(d)
  BY <1>1, <1>8, <1>16 DEF Settled, Leaves, IsOpen
<1>19. [WQ!Next]_(WQ!vars)
  <2>1. \A u : Answers(e, u) = Answers(c, u)
    BY <1>8, <1>12 DEF Answers
  <2>2. WQ!Write(b)
    BY <1>3, <1>16, <2>1 DEF Leaves
  <2> QED
    BY <2>2 DEF WQ!Next, BatchIds, WQ!BatchIds
<1> QED
  BY <1>1, <1>16, <1>17, <1>18, <1>19 DEF StepKeeps

-----------------------------------------------------------------------------
(* FirebaseAuth and the main queue.                                            *)

(* What they do reaches the client only as a task on its worker queue.          *)
SameClient(c, d) ==
    /\ d \in Clients /\ d.queue = c.queue /\ d.user = c.user /\ d.network = c.network
    /\ d.pipeline = c.pipeline /\ d.state = c.state /\ d.handshake = c.handshake
    /\ d.idle = c.idle /\ d.call = c.call /\ d.asserted = c.asserted

(* A step of the main queue or of FirebaseAuth leaves stream and call alone.   *)
LEMMA OutsideStep ==
    ASSUME Sound(client), Settled(client), SameClient(client, client'), TokensSound(client'),
           \/ client'.worker = client.worker
           \/ \E t \in Tasks : t.kind \in {"token", "account"}
                               /\ client'.worker = Append(client.worker, t),
           TokensAreOfUser(client', auth'), server' = server, outcome' = outcome
    PROVE  StepKeeps
<1> DEFINE c == client
           d == client'
<1>1. /\ d \in Clients /\ d.queue = c.queue /\ d.user = c.user /\ d.network = c.network
      /\ d.pipeline = c.pipeline /\ d.state = c.state /\ d.handshake = c.handshake
      /\ d.idle = c.idle /\ d.call = c.call /\ d.asserted = c.asserted
      /\ c \in Clients /\ QueuesSound(c) /\ PipelineSound(c) /\ StreamSound(c) /\ WorkerSound(c)
      /\ CallSound(c)
  BY DEF SameClient, Sound
<1>2. /\ WorkerSound(d) /\ Read(d) = Read(c)
      /\ Posted(d, {"written", "writeFailed"}) <=> Posted(c, {"written", "writeFailed"})
  <2>1. CASE d.worker = c.worker
    BY <1>1, <2>1 DEF WorkerSound, Read, Posted
  <2>2. ASSUME NEW t \in Tasks, t.kind \in {"token", "account"}, d.worker = Append(c.worker, t)
        PROVE  /\ WorkerSound(d) /\ Read(d) = Read(c)
               /\ Posted(d, {"written", "writeFailed"}) <=> Posted(c, {"written", "writeFailed"})
    <3>1. /\ ~IsOfCall(t) /\ t.kind # "read"
          /\ t.kind \notin {"readFailed", "writeFailed", "written"}
      BY <2>2 DEF IsOfCall
    <3>2. WorkerSound(d)
      BY <1>1, <2>2, <3>1, WorkerAppend
    <3>3. Read(d) = Read(c)
      BY <1>1, <2>2, <3>1, <3>2, ReadAppend
    <3>4. \A K : Posted(d, K) <=> Posted(c, K) \/ t.kind \in K
      BY <1>1, <2>2, PostedAppend
    <3> QED
      BY <3>1, <3>2, <3>3, <3>4
  <2> QED
    BY <2>1, <2>2
<1> HIDE DEF c, d
<1>3. /\ Live(d) <=> Live(c)
      /\ Coming(d) = Coming(c) /\ Sent(d) = Sent(c) /\ InFlight(d) = InFlight(c)
  BY <1>1, <1>2 DEF Live, Coming, Sent, InFlight, Unwritten
<1>4. CallSound(d)
  BY <1>1, <1>3 DEF CallSound
<1>5. QueuesSound(d) /\ PipelineSound(d)
  BY <1>1 DEF QueuesSound, PipelineSound
<1>6. StreamSound(d)
  BY <1>1 DEF StreamSound, IsStarted, IsOpen
<1>7. Sound(d)
  BY <1>1, <1>2, <1>4, <1>5, <1>6 DEF Sound, d
<1>8. \A u : Answers(d, u) = Answers(c, u)
  BY <1>1, <1>3 DEF Answers
<1> QED
  BY <1>1, <1>7, <1>8, QuietStep DEF c, d

(* FirebaseAuth looks at the account that it has.                               *)
LEMMA LookUpKeeps ==
    ASSUME IInv, NEW r, LookUp(r)
    PROVE  StepKeeps
<1> DEFINE c == client
           s == [r EXCEPT !.user = auth]
           d == client'
<1>1. /\ Sound(c) /\ Settled(c) /\ TokensAreOfUser(c, auth) /\ auth \in Users
      /\ r \in c.asking
      /\ d = [c EXCEPT !.asking = (@ \ {r}) \cup {s}]
      /\ auth' = auth /\ server' = server /\ outcome' = outcome
  BY DEF IInv, TypeOK, LookUp
<1> HIDE DEF c
<1>2. c \in Clients /\ c.asking \in SUBSET Requests /\ r \in Requests /\ TokensSound(c)
  BY <1>1, ClientFields DEF Sound
<1>3. s \in Requests /\ s.current = r.current /\ s.user = auth
  BY <1>1, <1>2 DEF Requests
<1> HIDE DEF s
<1>4. /\ SameClient(c, d) /\ d.main = c.main /\ d.worker = c.worker /\ d.user = c.user
      /\ d.asking = (c.asking \ {r}) \cup {s} /\ d.state = c.state
  BY <1>1, <1>2, <1>3 DEF SameClient, Clients
<1> HIDE DEF d
<1>5. TokensSound(d)
  <2>1. d.state # "Starting" => NoneAwaited(d)
    BY <1>1, <1>2, <1>3, <1>4 DEF TokensSound, NoneAwaited
  <2>2. ASSUME NEW q \in d.asking, q.current
        PROVE  /\ \A p \in d.asking : p.current => q = p
               /\ \A i \in DOMAIN d.main : ~Awaited(d.main[i])
               /\ \A i \in DOMAIN d.worker : ~Awaited(d.worker[i])
    BY <1>1, <1>2, <1>3, <1>4, <2>2 DEF TokensSound
  <2> QED
    BY <1>2, <1>4, <2>1, <2>2 DEF TokensSound
<1>6. TokensAreOfUser(d, auth)
  BY <1>1, <1>3, <1>4 DEF TokensAreOfUser, Notifies, Heads
<1> QED
  BY <1>1, <1>4, <1>5, <1>6, OutsideStep DEF c, d

(* The answer to a request joins the main queue.                                *)
LEMMA AnswerJoins ==
    ASSUME IInv, NEW r \in client.asking, NEW s \in Requests,
           s.current = r.current, s.fresh = r.fresh, s.user \in {r.user, None},
           client' = [client EXCEPT !.asking = @ \ {r},
                                    !.main = Append(@, [kind |-> "answer", request |-> s])],
           auth' = auth, server' = server, outcome' = outcome
    PROVE  StepKeeps
<1> DEFINE c == client
           t == [kind |-> "answer", request |-> s]
           m == Len(c.main)
           d == client'
<1>1. /\ Sound(c) /\ Settled(c) /\ TokensAreOfUser(c, auth)
      /\ d = [c EXCEPT !.asking = @ \ {r}, !.main = Append(@, t)]
  BY DEF IInv
<1>2. t \in MainTasks /\ t.kind = "answer" /\ t.request = s
  BY DEF MainTasks
<1>0. r \in c.asking
  OBVIOUS
<1> HIDE DEF c, t
<1>3. c \in Clients /\ c.main \in Seq(MainTasks) /\ TokensSound(c)
  BY <1>1, ClientFields DEF Sound
<1>4. /\ Append(c.main, t) \in Seq(MainTasks) /\ m \in Nat /\ DOMAIN c.main = 1..m
      /\ Len(Append(c.main, t)) = m + 1 /\ DOMAIN Append(c.main, t) = 1..(m + 1)
      /\ \A i \in 1..m : Append(c.main, t)[i] = c.main[i]
      /\ Append(c.main, t)[m + 1] = t
  BY <1>2, <1>3, AppendFacts
<1>5. /\ SameClient(c, d) /\ d.worker = c.worker /\ d.user = c.user /\ d.state = c.state
      /\ d.main = Append(c.main, t) /\ d.asking = c.asking \ {r}
  BY <1>1, <1>3, <1>4 DEF SameClient, Clients
<1>6. /\ \A i \in DOMAIN d.main : i \in 1..m \/ i = m + 1
      /\ \A i \in 1..m : d.main[i] = c.main[i]
      /\ d.main[m + 1] = t /\ DOMAIN d.main = 1..(m + 1) /\ Len(d.main) = m + 1
      /\ Awaited(t) <=> r.current
  BY <1>2, <1>4, <1>5 DEF Awaited
<1> HIDE DEF d, m
<1>7. TokensSound(d)
  <2>1. d.state # "Starting" => NoneAwaited(d)
    BY <1>0, <1>3, <1>4, <1>5, <1>6 DEF TokensSound, NoneAwaited
  <2>2. ASSUME NEW q \in d.asking, q.current
        PROVE  /\ \A p \in d.asking : p.current => q = p
               /\ \A i \in DOMAIN d.main : ~Awaited(d.main[i])
               /\ \A i \in DOMAIN d.worker : ~Awaited(d.worker[i])
    <3>1. ~r.current
      BY <1>0, <1>3, <1>5, <2>2 DEF TokensSound
    <3> QED
      BY <1>3, <1>4, <1>5, <1>6, <2>2, <3>1 DEF TokensSound
  <2>3. ASSUME NEW i \in DOMAIN d.main, Awaited(d.main[i])
        PROVE  /\ \A j \in DOMAIN d.main : Awaited(d.main[j]) => i = j
               /\ \A j \in DOMAIN d.worker : ~Awaited(d.worker[j])
    <3>1. CASE r.current
      <4>1. /\ \A j \in 1..m : ~Awaited(c.main[j])
            /\ \A j \in DOMAIN c.worker : ~Awaited(c.worker[j])
        BY <1>0, <1>3, <1>4, <3>1 DEF TokensSound
      <4> QED
        BY <1>5, <1>6, <2>3, <4>1
    <3>2. CASE ~r.current
      <4>1. \A j \in DOMAIN d.main : Awaited(d.main[j]) => j \in 1..m /\ Awaited(c.main[j])
        BY <1>6, <3>2
      <4> QED
        BY <1>3, <1>4, <1>5, <2>3, <4>1 DEF TokensSound
    <3> QED
      BY <3>1, <3>2
  <2> QED
    BY <1>3, <1>5, <2>1, <2>2, <2>3 DEF TokensSound
<1>8. TokensAreOfUser(d, auth)
  <2>1. /\ Len(d.worker) = Len(c.worker)
        /\ \A n : \A v : Heads(d, n, v) <=> Heads(c, n, v)
    BY <1>5 DEF Heads
  <2>2. Notifies(c, m) => Notifies(d, m + 1) /\ Notifies(d, m)
    BY <1>4, <1>6 DEF Notifies
  <2>3. ASSUME NEW i \in 1..m, Notifies(c, i - 1) PROVE Notifies(d, i - 1)
    BY <1>4, <1>6, <2>3, SMTT(30) DEF Notifies
  <2>4. ASSUME NEW i \in 1..(m + 1), d.main[i].kind = "answer", d.main[i].request.fresh,
               d.main[i].request.user # None
        PROVE  Notifies(d, i - 1) \/ Heads(d, Len(d.worker), d.main[i].request.user)
    <3>1. CASE i \in 1..m
      BY <1>1, <1>4, <1>6, <2>1, <2>3, <2>4, <3>1 DEF TokensAreOfUser
    <3>2. CASE i = m + 1
      <4>1. s.fresh /\ s.user # None /\ d.main[i].request = s
        BY <1>2, <1>6, <2>4, <3>2
      <4>2. Notifies(c, m) \/ Heads(c, Len(c.worker), s.user)
        BY <1>0, <1>1, <4>1 DEF TokensAreOfUser, m
      <4> QED
        BY <1>4, <2>1, <2>2, <3>2, <4>1, <4>2
    <3> QED
      BY <1>6, <3>1, <3>2
  <2>5. ASSUME NEW i \in 1..(m + 1), d.main[i].kind = "notify"
        PROVE  d.main[i].user = auth \/ \E j \in (i + 1)..(m + 1) : d.main[j].kind = "notify"
    <3>1. i \in 1..m /\ c.main[i].kind = "notify"
      BY <1>2, <1>6, <2>5
    <3>2. c.main[i].user = auth \/ \E j \in (i + 1)..m : c.main[j].kind = "notify"
      BY <1>1, <1>4, <3>1 DEF TokensAreOfUser, m
    <3>3. \A j \in (i + 1)..m : j \in 1..m /\ j \in (i + 1)..(m + 1) /\ d.main[j] = c.main[j]
      BY <1>4, <1>6, <3>1
    <3>4. d.main[i] = c.main[i]
      BY <1>6, <3>1
    <3> QED
      BY <3>2, <3>3, <3>4
  <2>6. Notifies(d, m + 1) \/ Heads(d, Len(d.worker), auth)
    BY <1>1, <2>1, <2>2 DEF TokensAreOfUser, m
  <2>7. \A q \in d.asking : q.fresh /\ q.user # None =>
            Notifies(d, m + 1) \/ Heads(d, Len(d.worker), q.user)
    BY <1>1, <1>5, <2>1, <2>2 DEF TokensAreOfUser, m
  <2>8. \A i \in DOMAIN d.worker : d.worker[i].kind = "token" /\ d.worker[i].user # None =>
            Heads(d, i - 1, d.worker[i].user)
    BY <1>1, <1>5, <2>1 DEF TokensAreOfUser
  <2> QED
    BY <1>6, <2>4, <2>5, <2>6, <2>7, <2>8 DEF TokensAreOfUser
<1> QED
  BY <1>1, <1>5, <1>7, <1>8, OutsideStep DEF c, d

(* FirebaseAuth answers with a token.                                          *)
LEMMA TokenFetchedKeeps ==
    ASSUME IInv, NEW r, TokenFetched(r)
    PROVE  StepKeeps
<1>1. r \in client.asking /\ r \in Requests
  BY ClientFields DEF IInv, Sound, TokenFetched
<1> QED
  BY <1>1, AnswerJoins DEF TokenFetched

(* FirebaseAuth answers with an error.                                         *)
LEMMA TokenFailsKeeps ==
    ASSUME IInv, NEW r, TokenFails(r)
    PROVE  StepKeeps
<1> DEFINE s == [r EXCEPT !.user = None]
<1>1. r \in client.asking /\ r \in Requests
  BY ClientFields DEF IInv, Sound, TokenFails
<1>2. s \in Requests /\ s.current = r.current /\ s.fresh = r.fresh /\ s.user = None
  BY <1>1 DEF Requests
<1> QED
  BY <1>1, <1>2, AnswerJoins DEF TokenFails

(* Another account, or the same again: the notification waits its turn.         *)
LEMMA SignInKeeps ==
    ASSUME IInv, NEW u \in Users, SignIn(u)
    PROVE  StepKeeps
<1> DEFINE c == client
           t == [kind |-> "notify", user |-> u]
           m == Len(c.main)
           d == client'
<1>1. /\ Sound(c) /\ Settled(c) /\ TokensAreOfUser(c, auth)
      /\ d = [c EXCEPT !.main = Append(@, t)]
      /\ auth' = u /\ server' = server /\ outcome' = outcome
  BY DEF IInv, SignIn
<1>2. t \in MainTasks /\ t.kind = "notify" /\ t.user = u
  BY DEF MainTasks
<1> HIDE DEF c, t
<1>3. c \in Clients /\ c.main \in Seq(MainTasks) /\ TokensSound(c)
  BY <1>1, ClientFields DEF Sound
<1>4. /\ Append(c.main, t) \in Seq(MainTasks) /\ m \in Nat /\ DOMAIN c.main = 1..m
      /\ Len(Append(c.main, t)) = m + 1 /\ DOMAIN Append(c.main, t) = 1..(m + 1)
      /\ \A i \in 1..m : Append(c.main, t)[i] = c.main[i]
      /\ Append(c.main, t)[m + 1] = t
  BY <1>2, <1>3, AppendFacts
<1>5. /\ SameClient(c, d) /\ d.worker = c.worker /\ d.user = c.user /\ d.state = c.state
      /\ d.main = Append(c.main, t) /\ d.asking = c.asking
  BY <1>1, <1>3, <1>4 DEF SameClient, Clients
<1>6. /\ \A i \in DOMAIN d.main : i \in 1..m \/ i = m + 1
      /\ \A i \in 1..m : d.main[i] = c.main[i]
      /\ d.main[m + 1] = t /\ DOMAIN d.main = 1..(m + 1) /\ Len(d.main) = m + 1
      /\ ~Awaited(t)
  BY <1>2, <1>4, <1>5 DEF Awaited
<1> HIDE DEF d, m
<1>7. TokensSound(d)
  <2>1. \A i \in DOMAIN d.main : Awaited(d.main[i]) => i \in DOMAIN c.main /\ Awaited(c.main[i])
    BY <1>4, <1>6
  <2> QED
    BY <1>3, <1>5, <2>1 DEF TokensSound, NoneAwaited
<1>8. TokensAreOfUser(d, u)
  <2>1. /\ Len(d.worker) = Len(c.worker)
        /\ \A n : \A v : Heads(d, n, v) <=> Heads(c, n, v)
    BY <1>5 DEF Heads
  <2>2. Notifies(d, m + 1)
    BY <1>2, <1>4, <1>6 DEF Notifies
  <2>3. ASSUME NEW i \in 1..m, Notifies(c, i - 1) PROVE Notifies(d, i - 1)
    BY <1>4, <1>6, <2>3 DEF Notifies
  <2>4. ASSUME NEW i \in 1..(m + 1), d.main[i].kind = "answer", d.main[i].request.fresh,
               d.main[i].request.user # None
        PROVE  Notifies(d, i - 1) \/ Heads(d, Len(d.worker), d.main[i].request.user)
    <3>1. i \in 1..m
      BY <1>2, <1>6, <2>4
    <3> QED
      BY <1>1, <1>4, <1>6, <2>1, <2>3, <2>4, <3>1 DEF TokensAreOfUser
  <2>5. ASSUME NEW i \in 1..(m + 1), d.main[i].kind = "notify"
        PROVE  d.main[i].user = u \/ \E j \in (i + 1)..(m + 1) : d.main[j].kind = "notify"
    <3>1. CASE i \in 1..m
      <4>1. m + 1 \in (i + 1)..(m + 1)
        BY <1>4, <3>1
      <4> QED
        BY <1>2, <1>6, <4>1
    <3>2. CASE i = m + 1
      BY <1>2, <1>6, <3>2
    <3> QED
      BY <1>6, <3>1, <3>2
  <2>6. \A i \in DOMAIN d.worker : d.worker[i].kind = "token" /\ d.worker[i].user # None =>
            Heads(d, i - 1, d.worker[i].user)
    BY <1>1, <1>5, <2>1 DEF TokensAreOfUser
  <2> QED
    BY <1>6, <2>2, <2>4, <2>5, <2>6 DEF TokensAreOfUser
<1> QED
  BY <1>1, <1>5, <1>7, <1>8, OutsideStep DEF c, d

(* The main queue without its head, an answer.                                  *)
LEMMA AnswerTaken ==
    ASSUME NEW c \in Clients, NEW d \in Clients, c.main # <<>>, Head(c.main).kind = "answer",
           d.main = Tail(c.main), NEW m, m = Len(c.main)
    PROVE  /\ m \in Nat \ {0} /\ DOMAIN c.main = 1..m /\ DOMAIN d.main = 1..(m - 1)
           /\ Len(d.main) = m - 1 /\ Head(c.main) = c.main[1] /\ 1 \in 1..m
           /\ c.main[1].request \in Requests
           /\ Awaited(c.main[1]) <=> c.main[1].request.current
           /\ \A i \in 1..(m - 1) : d.main[i] = c.main[i + 1] /\ i + 1 \in 1..m /\ i + 1 # 1
           /\ \A k \in 0..(m - 1) : Notifies(c, k + 1) => Notifies(d, k)
           /\ ~Notifies(c, 0)
           /\ \A i \in 1..(m - 1) : d.main[i].kind = "notify" =>
                 \A u : c.main[i + 1].user = u
                        \/ (\E j \in ((i + 1) + 1)..m : c.main[j].kind = "notify")
                     => d.main[i].user = u \/ \E j \in (i + 1)..(m - 1) : d.main[j].kind = "notify"
<1>1. c.main \in Seq(MainTasks)
  BY ClientFields
<1>2. /\ m \in Nat \ {0} /\ DOMAIN c.main = 1..m /\ DOMAIN d.main = 1..(m - 1)
      /\ Len(d.main) = m - 1 /\ Head(c.main) = c.main[1] /\ Head(c.main) \in MainTasks
      /\ \A i \in 1..(m - 1) : d.main[i] = c.main[i + 1]
  BY <1>1, TailFacts
<1>3. 1 \in 1..m /\ \A i \in 1..(m - 1) : i + 1 \in 1..m /\ i + 1 # 1
  BY <1>2
<1>4. c.main[1].request \in Requests /\ c.main[1].kind = "answer"
  BY <1>2, MainTaskFields
<1>5. Awaited(c.main[1]) <=> c.main[1].request.current
  BY <1>4 DEF Awaited
<1>6. ASSUME NEW k \in 0..(m - 1), Notifies(c, k + 1) PROVE Notifies(d, k)
  <2>1. PICK j \in 1..(k + 1) : c.main[j].kind = "notify"
    BY <1>6 DEF Notifies
  <2>2. j # 1
    BY <1>4, <2>1
  <2>3. j - 1 \in 1..k /\ j - 1 \in 1..(m - 1) /\ (j - 1) + 1 = j
    BY <1>2, <2>1, <2>2
  <2>4. d.main[j - 1] = c.main[j]
    BY <1>2, <2>3
  <2> QED
    BY <2>1, <2>3, <2>4 DEF Notifies
<1>7. ~Notifies(c, 0)
  BY DEF Notifies
<1>8. ASSUME NEW i \in 1..(m - 1), NEW j \in ((i + 1) + 1)..m, c.main[j].kind = "notify"
      PROVE  \E k \in (i + 1)..(m - 1) : d.main[k].kind = "notify"
  <2>1. j - 1 \in (i + 1)..(m - 1) /\ j - 1 \in 1..(m - 1) /\ (j - 1) + 1 = j
    BY <1>2, <1>8
  <2>2. d.main[j - 1] = c.main[j]
    BY <1>2, <2>1
  <2> QED
    BY <1>8, <2>1, <2>2
<1>9. \A i \in 1..(m - 1) : d.main[i].kind = "notify" =>
          \A u : c.main[i + 1].user = u
                 \/ (\E j \in ((i + 1) + 1)..m : c.main[j].kind = "notify")
              => d.main[i].user = u \/ \E j \in (i + 1)..(m - 1) : d.main[j].kind = "notify"
  BY <1>2, <1>8
<1> QED
  BY <1>2, <1>3, <1>4, <1>5, <1>6, <1>7, <1>9

(* A token that is still the account's goes to the worker queue.                *)
LEMMA FreshAnswerKeeps ==
    ASSUME IInv, AnswerToken, Head(client.main).request.fresh
    PROVE  StepKeeps
<1> DEFINE c == client
           r == c.main[1].request
           t == [kind |-> "token", user |-> r.user, current |-> r.current]
           m == Len(c.main)
           n == Len(c.worker)
           d == client'
<1>1. /\ Sound(c) /\ Settled(c) /\ TokensAreOfUser(c, auth)
      /\ c.main # <<>> /\ Head(c.main).kind = "answer"
      /\ auth' = auth /\ server' = server /\ outcome' = outcome
  BY DEF IInv, AnswerToken
<1>2. c \in Clients /\ c.main \in Seq(MainTasks) /\ c.worker \in Seq(Tasks) /\ TokensSound(c)
  BY <1>1, ClientFields DEF Sound
<1>3. Tail(c.main) \in Seq(MainTasks) /\ Head(c.main) = c.main[1] /\ Head(c.main) \in MainTasks
  BY <1>1, <1>2, TailFacts
<1>4. d = [c EXCEPT !.main = Tail(@), !.worker = Append(@, t)] /\ r.fresh
  BY <1>2, <1>3 DEF AnswerToken, Clients
<1>5. r \in Requests
  BY <1>1, <1>3, MainTaskFields
<1>6. t \in Tasks /\ t.kind = "token" /\ t.user = r.user /\ t.current = r.current
  BY <1>5 DEF Tasks, Requests
<1> HIDE DEF c, t, r
<1>7. Append(c.worker, t) \in Seq(Tasks)
  BY <1>2, <1>6, AppendFacts
<1>8. /\ SameClient(c, d) /\ d.user = c.user /\ d.state = c.state /\ d.asking = c.asking
      /\ d.main = Tail(c.main) /\ d.worker = Append(c.worker, t) /\ d \in Clients
  BY <1>2, <1>3, <1>4, <1>7 DEF SameClient, Clients
<1>9. /\ n \in Nat /\ DOMAIN c.worker = 1..n /\ DOMAIN d.worker = 1..(n + 1)
      /\ Len(d.worker) = n + 1
      /\ \A i \in 1..n : d.worker[i] = c.worker[i]
      /\ d.worker[n + 1] = t
      /\ \A i \in 1..(n + 1) : i \in 1..n \/ i = n + 1
  BY <1>2, <1>6, <1>8, AppendFacts
<1>10. /\ \A k \in 0..n : \A u : Heads(c, k, u) => Heads(d, k, u)
       /\ \A u : Heads(c, n, u) => Heads(d, n + 1, u)
  <2>1. t.kind # "account"
    BY <1>6
  <2> QED
    BY <1>2, <1>6, <1>8, <1>9, <2>1, HeadsAppend, SMTT(30)
<1>11. Awaited(t) <=> r.current
  BY <1>6 DEF Awaited
<1> HIDE DEF d, m, n
<1>12. /\ m \in Nat \ {0} /\ DOMAIN c.main = 1..m /\ DOMAIN d.main = 1..(m - 1)
       /\ Len(d.main) = m - 1 /\ 1 \in 1..m
       /\ Awaited(c.main[1]) <=> r.current
       /\ \A i \in 1..(m - 1) : d.main[i] = c.main[i + 1] /\ i + 1 \in 1..m /\ i + 1 # 1
       /\ \A k \in 0..(m - 1) : Notifies(c, k + 1) => Notifies(d, k)
       /\ ~Notifies(c, 0)
       /\ \A i \in 1..(m - 1) : d.main[i].kind = "notify" =>
             \A u : c.main[i + 1].user = u
                    \/ (\E j \in ((i + 1) + 1)..m : c.main[j].kind = "notify")
                 => d.main[i].user = u \/ \E j \in (i + 1)..(m - 1) : d.main[j].kind = "notify"
  BY <1>1, <1>2, <1>8, AnswerTaken DEF m, r
<1>13. TokensSound(d)
  <2>1. d.state # "Starting" => NoneAwaited(d)
    BY <1>2, <1>8, <1>9, <1>11, <1>12 DEF TokensSound, NoneAwaited
  <2>2. ASSUME NEW q \in d.asking, q.current
        PROVE  /\ \A p \in d.asking : p.current => q = p
               /\ \A i \in DOMAIN d.main : ~Awaited(d.main[i])
               /\ \A i \in DOMAIN d.worker : ~Awaited(d.worker[i])
    <3>1. /\ \A p \in c.asking : p.current => q = p
          /\ \A i \in 1..m : ~Awaited(c.main[i])
          /\ \A i \in 1..n : ~Awaited(c.worker[i])
      BY <1>2, <1>8, <1>9, <1>12, <2>2 DEF TokensSound
    <3> QED
      BY <1>8, <1>9, <1>11, <1>12, <3>1
  <2>3. ASSUME NEW i \in 1..(m - 1), Awaited(d.main[i])
        PROVE  /\ \A j \in 1..(m - 1) : Awaited(d.main[j]) => i = j
               /\ \A j \in DOMAIN d.worker : ~Awaited(d.worker[j])
    <3>1. /\ \A j \in 1..m : Awaited(c.main[j]) => i + 1 = j
          /\ \A j \in 1..n : ~Awaited(c.worker[j])
      BY <1>2, <1>9, <1>12, <2>3 DEF TokensSound
    <3>2. ~Awaited(t)
      BY <1>11, <1>12, <3>1
    <3>3. ASSUME NEW j \in 1..(m - 1), Awaited(d.main[j]) PROVE i = j
      <4>1. i + 1 = j + 1
        BY <1>12, <3>1, <3>3
      <4> QED
        BY <4>1
    <3> QED
      BY <1>9, <3>1, <3>2, <3>3
  <2>4. ASSUME NEW i \in 1..(n + 1), NEW j \in 1..(n + 1),
               Awaited(d.worker[i]), Awaited(d.worker[j])
        PROVE  i = j
    <3>1. Awaited(t) => \A k \in 1..n : ~Awaited(c.worker[k])
      BY <1>2, <1>9, <1>11, <1>12 DEF TokensSound
    <3>2. CASE i \in 1..n /\ j \in 1..n
      BY <1>2, <1>9, <2>4, <3>2 DEF TokensSound
    <3>3. CASE i = n + 1 \/ j = n + 1
      BY <1>9, <2>4, <3>1, <3>3
    <3> QED
      BY <1>9, <3>2, <3>3
  <2> QED
    BY <1>9, <1>12, <2>1, <2>2, <2>3, <2>4 DEF TokensSound
<1>14. TokensAreOfUser(d, auth)
  <2>1. Notifies(c, m) => Notifies(d, m - 1)
    BY <1>12
  <2>2. Notifies(d, m - 1) \/ Heads(d, n + 1, auth)
    BY <1>1, <1>10, <2>1 DEF TokensAreOfUser, m, n
  <2>3. \A q \in d.asking : q.fresh /\ q.user # None =>
            Notifies(d, m - 1) \/ Heads(d, n + 1, q.user)
    BY <1>1, <1>8, <1>10, <2>1 DEF TokensAreOfUser, m, n
  <2>4. ASSUME NEW i \in 1..(m - 1), d.main[i].kind = "notify"
        PROVE  d.main[i].user = auth \/ \E j \in (i + 1)..(m - 1) : d.main[j].kind = "notify"
    <3>1. c.main[i + 1].user = auth
              \/ \E j \in ((i + 1) + 1)..m : c.main[j].kind = "notify"
      BY <1>1, <1>12, <2>4 DEF TokensAreOfUser, m
    <3> QED
      BY <1>12, <2>4, <3>1
  <2>5. ASSUME NEW i \in 1..(m - 1), d.main[i].kind = "answer", d.main[i].request.fresh,
               d.main[i].request.user # None
        PROVE  Notifies(d, i - 1) \/ Heads(d, n + 1, d.main[i].request.user)
    <3>1. Notifies(c, (i + 1) - 1) \/ Heads(c, n, d.main[i].request.user)
      BY <1>1, <1>12, <2>5 DEF TokensAreOfUser, n
    <3>2. (i + 1) - 1 = (i - 1) + 1 /\ i - 1 \in 0..(m - 1)
      BY <1>12
    <3> QED
      BY <1>10, <1>12, <3>1, <3>2
  <2>6. ASSUME NEW i \in 1..(n + 1), d.worker[i].kind = "token", d.worker[i].user # None
        PROVE  Heads(d, i - 1, d.worker[i].user)
    <3>1. CASE i \in 1..n
      <4>1. d.worker[i] = c.worker[i] /\ i \in DOMAIN c.worker /\ i - 1 \in 0..n
        BY <1>9, <3>1
      <4>2. Heads(c, i - 1, c.worker[i].user)
        BY <1>1, <2>6, <4>1 DEF TokensAreOfUser
      <4> QED
        BY <1>10, <4>1, <4>2
    <3>2. CASE i = n + 1
      <4>1. d.worker[i].user = r.user /\ r.user # None /\ i - 1 = n /\ n \in 0..n
        BY <1>6, <1>9, <2>6, <3>2
      <4>2. Notifies(c, 1 - 1) \/ Heads(c, n, r.user)
        BY <1>1, <1>3, <1>4, <1>12, <4>1 DEF TokensAreOfUser, n, r
      <4> QED
        BY <1>10, <1>12, <4>1, <4>2
    <3> QED
      BY <1>9, <3>1, <3>2
  <2> QED
    BY <1>9, <1>12, <2>2, <2>3, <2>4, <2>5, <2>6 DEF TokensAreOfUser
<1> QED
  <2>1. t.kind \in {"token", "account"}
    BY <1>6
  <2>2. \E x \in Tasks : x.kind \in {"token", "account"} /\ d.worker = Append(c.worker, x)
    BY <1>6, <1>8, <2>1
  <2> QED
    BY <1>1, <1>8, <1>13, <1>14, <2>2, OutsideStep DEF c, d

(* One that is not is asked for again.                                          *)
LEMMA StaleAnswerKeeps ==
    ASSUME IInv, AnswerToken, ~Head(client.main).request.fresh
    PROVE  StepKeeps
<1> DEFINE c == client
           r == c.main[1].request
           s == [NewRequest EXCEPT !.current = r.current]
           m == Len(c.main)
           n == Len(c.worker)
           d == client'
<1>1. /\ Sound(c) /\ Settled(c) /\ TokensAreOfUser(c, auth)
      /\ c.main # <<>> /\ Head(c.main).kind = "answer"
      /\ auth' = auth /\ server' = server /\ outcome' = outcome
  BY DEF IInv, AnswerToken
<1>2. c \in Clients /\ c.main \in Seq(MainTasks) /\ c.asking \in SUBSET Requests /\ TokensSound(c)
  BY <1>1, ClientFields DEF Sound
<1>3. Tail(c.main) \in Seq(MainTasks) /\ Head(c.main) = c.main[1] /\ Head(c.main) \in MainTasks
  BY <1>1, <1>2, TailFacts
<1>4. d = [c EXCEPT !.main = Tail(@), !.asking = @ \cup {s}]
  BY <1>2, <1>3 DEF AnswerToken, Clients
<1>5. r \in Requests
  BY <1>1, <1>3, MainTaskFields
<1>6. s \in Requests /\ s.user = None /\ s.current = r.current
  BY <1>5 DEF NewRequest, Requests
<1> HIDE DEF c, s, r
<1>8. /\ SameClient(c, d) /\ d.user = c.user /\ d.state = c.state /\ d.asking = c.asking \cup {s}
      /\ d.main = Tail(c.main) /\ d.worker = c.worker /\ d \in Clients
  BY <1>2, <1>3, <1>4, <1>6 DEF SameClient, Clients
<1> HIDE DEF d, m, n
<1>10. \A k : \A u : Heads(c, k, u) => Heads(d, k, u)
  BY <1>8 DEF Heads
<1>12. /\ m \in Nat \ {0} /\ DOMAIN c.main = 1..m /\ DOMAIN d.main = 1..(m - 1)
       /\ Len(d.main) = m - 1 /\ 1 \in 1..m
       /\ Awaited(c.main[1]) <=> r.current
       /\ \A i \in 1..(m - 1) : d.main[i] = c.main[i + 1] /\ i + 1 \in 1..m /\ i + 1 # 1
       /\ \A k \in 0..(m - 1) : Notifies(c, k + 1) => Notifies(d, k)
       /\ \A i \in 1..(m - 1) : d.main[i].kind = "notify" =>
             \A u : c.main[i + 1].user = u
                    \/ (\E j \in ((i + 1) + 1)..m : c.main[j].kind = "notify")
                 => d.main[i].user = u \/ \E j \in (i + 1)..(m - 1) : d.main[j].kind = "notify"
  BY <1>1, <1>2, <1>8, AnswerTaken, ZenonT(40) DEF m, r
<1>13. TokensSound(d)
  <2>1. d.state # "Starting" => NoneAwaited(d)
    BY <1>2, <1>6, <1>8, <1>12 DEF TokensSound, NoneAwaited
  <2>2. ASSUME NEW q \in d.asking, q.current
        PROVE  /\ \A p \in d.asking : p.current => q = p
               /\ \A i \in 1..(m - 1) : ~Awaited(d.main[i])
               /\ \A i \in DOMAIN d.worker : ~Awaited(d.worker[i])
    <3>1. CASE r.current
      <4>1. /\ \A p \in c.asking : ~p.current
            /\ \A i \in 1..m : Awaited(c.main[i]) => 1 = i
            /\ \A i \in DOMAIN c.worker : ~Awaited(c.worker[i])
        BY <1>2, <1>12, <3>1 DEF TokensSound
      <4> QED
        BY <1>6, <1>8, <1>12, <2>2, <4>1
    <3>2. CASE ~r.current
      <4>1. q \in c.asking
        BY <1>6, <1>8, <2>2, <3>2
      <4>2. /\ \A p \in c.asking : p.current => q = p
            /\ \A i \in 1..m : ~Awaited(c.main[i])
            /\ \A i \in DOMAIN c.worker : ~Awaited(c.worker[i])
        BY <1>2, <1>12, <2>2, <4>1 DEF TokensSound
      <4> QED
        BY <1>6, <1>8, <1>12, <3>2, <4>2
    <3> QED
      BY <3>1, <3>2
  <2>3. ASSUME NEW i \in 1..(m - 1), Awaited(d.main[i])
        PROVE  /\ \A j \in 1..(m - 1) : Awaited(d.main[j]) => i = j
               /\ \A j \in DOMAIN d.worker : ~Awaited(d.worker[j])
    <3>1. /\ \A j \in 1..m : Awaited(c.main[j]) => i + 1 = j
          /\ \A j \in DOMAIN c.worker : ~Awaited(c.worker[j])
      BY <1>2, <1>12, <2>3 DEF TokensSound
    <3>3. ASSUME NEW j \in 1..(m - 1), Awaited(d.main[j]) PROVE i = j
      <4>1. i + 1 = j + 1
        BY <1>12, <3>1, <3>3
      <4> QED
        BY <4>1
    <3> QED
      BY <1>8, <3>1, <3>3
  <2> QED
    BY <1>2, <1>8, <1>12, <2>1, <2>2, <2>3 DEF TokensSound
<1>14. TokensAreOfUser(d, auth)
  <2>1. Notifies(c, m) => Notifies(d, m - 1)
    BY <1>12
  <2>2. Notifies(d, m - 1) \/ Heads(d, Len(d.worker), auth)
    BY <1>1, <1>8, <1>10, <2>1 DEF TokensAreOfUser, m
  <2>3. \A q \in d.asking : q.fresh /\ q.user # None =>
            Notifies(d, m - 1) \/ Heads(d, Len(d.worker), q.user)
    BY <1>1, <1>6, <1>8, <1>10, <2>1 DEF TokensAreOfUser, m
  <2>4. ASSUME NEW i \in 1..(m - 1), d.main[i].kind = "notify"
        PROVE  d.main[i].user = auth \/ \E j \in (i + 1)..(m - 1) : d.main[j].kind = "notify"
    <3>1. c.main[i + 1].user = auth
              \/ \E j \in ((i + 1) + 1)..m : c.main[j].kind = "notify"
      BY <1>1, <1>12, <2>4 DEF TokensAreOfUser, m
    <3> QED
      BY <1>12, <2>4, <3>1
  <2>5. ASSUME NEW i \in 1..(m - 1), d.main[i].kind = "answer", d.main[i].request.fresh,
               d.main[i].request.user # None
        PROVE  Notifies(d, i - 1) \/ Heads(d, Len(d.worker), d.main[i].request.user)
    <3>1. Notifies(c, (i + 1) - 1) \/ Heads(c, Len(c.worker), d.main[i].request.user)
      BY <1>1, <1>12, <2>5 DEF TokensAreOfUser
    <3>2. (i + 1) - 1 = (i - 1) + 1 /\ i - 1 \in 0..(m - 1)
      BY <1>12
    <3> QED
      BY <1>8, <1>10, <1>12, <3>1, <3>2
  <2>6. \A i \in DOMAIN d.worker : d.worker[i].kind = "token" /\ d.worker[i].user # None =>
            Heads(d, i - 1, d.worker[i].user)
    BY <1>1, <1>8, <1>10 DEF TokensAreOfUser
  <2> QED
    BY <1>12, <2>2, <2>3, <2>4, <2>5, <2>6 DEF TokensAreOfUser
<1> QED
  BY <1>1, <1>8, <1>13, <1>14, OutsideStep DEF c, d

(* A token is heard of.                                                        *)
LEMMA AnswerTokenKeeps ==
    ASSUME IInv, AnswerToken
    PROVE  StepKeeps
  BY FreshAnswerKeeps, StaleAnswerKeeps

(* A task of the main queue whose token is no longer fresh.                     *)
LEMMA StaleFacts ==
    ASSUME NEW t \in MainTasks
    PROVE  /\ Stale(t) \in MainTasks /\ Stale(t).kind = t.kind
           /\ Awaited(Stale(t)) <=> Awaited(t)
           /\ t.kind = "notify" => Stale(t) = t
           /\ t.kind = "answer" => ~Stale(t).request.fresh
<1>1. CASE t.kind = "notify"
  BY <1>1 DEF Stale
<1>2. CASE t.kind = "answer"
  <2>1. t.request \in Requests /\ t \in [kind : {"answer"}, request : Requests]
    BY <1>2 DEF MainTasks
  <2>2. Stale(t) = [kind |-> "answer", request |-> [t.request EXCEPT !.fresh = FALSE]]
    BY <1>2, <2>1 DEF Stale
  <2>3. [t.request EXCEPT !.fresh = FALSE] \in Requests
    BY <2>1 DEF Requests
  <2>4. /\ [t.request EXCEPT !.fresh = FALSE].current = t.request.current
        /\ ~[t.request EXCEPT !.fresh = FALSE].fresh
    BY <2>1 DEF Requests
  <2>5. Stale(t) \in MainTasks /\ Stale(t).kind = "answer"
        /\ Stale(t).request = [t.request EXCEPT !.fresh = FALSE]
    BY <2>2, <2>3 DEF MainTasks
  <2> QED
    BY <1>2, <2>4, <2>5 DEF Awaited
<1> QED
  BY <1>1, <1>2, MainTaskFields

(* The client hears of the account; tokens asked for before count no more.      *)
LEMMA NotifiedKeeps ==
    ASSUME IInv, Notified
    PROVE  StepKeeps
<1> DEFINE c == client
           u == Head(c.main).user
           t == [kind |-> "account", user |-> u]
           m == Len(c.main)
           n == Len(c.worker)
           stale == [i \in 1..(m - 1) |-> Stale(c.main[i + 1])]
           asked == {[r EXCEPT !.fresh = FALSE] : r \in c.asking}
           d == client'
<1>1. /\ Sound(c) /\ Settled(c) /\ TokensAreOfUser(c, auth)
      /\ c.main # <<>> /\ Head(c.main).kind = "notify"
      /\ auth' = auth /\ server' = server /\ outcome' = outcome
  BY DEF IInv, Notified
<1>2. d = [c EXCEPT !.main = stale, !.asking = asked, !.worker = Append(@, t)]
  <2>1. client \in Clients
    BY <1>1 DEF Sound
  <2> QED
    BY <2>1 DEF Notified, Clients
<1>3. /\ c \in Clients /\ c.main \in Seq(MainTasks) /\ c.worker \in Seq(Tasks)
      /\ c.asking \in SUBSET Requests /\ TokensSound(c)
  BY <1>1, ClientFields DEF Sound
<1>4. /\ m \in Nat \ {0} /\ DOMAIN c.main = 1..m /\ Head(c.main) = c.main[1]
      /\ Head(c.main) \in MainTasks
  BY <1>1, <1>3, TailFacts
<1>5. u \in Users
  BY <1>1, <1>4 DEF MainTasks
<1>6. t \in Tasks /\ t.kind = "account" /\ t.user = u /\ ~Awaited(t)
  BY <1>5 DEF Tasks, Awaited
<1>7. /\ \A i \in 1..(m - 1) : i + 1 \in 1..m /\ i + 1 # 1 /\ c.main[i + 1] \in MainTasks
      /\ 1 \in 1..m
  <2>1. \A i \in 1..(m - 1) : i + 1 \in 1..m /\ i + 1 # 1
    BY <1>4
  <2>2. \A i \in 1..m : c.main[i] \in MainTasks
    BY <1>3, <1>4
  <2> QED
    BY <1>4, <2>1, <2>2
<1>8. /\ stale \in Seq(MainTasks) /\ Len(stale) = m - 1 /\ DOMAIN stale = 1..(m - 1)
      /\ \A i \in 1..(m - 1) : stale[i] = Stale(c.main[i + 1])
  <2>1. \A i \in 1..(m - 1) : Stale(c.main[i + 1]) \in MainTasks
    BY <1>7, StaleFacts
  <2>2. /\ m - 1 \in Nat /\ stale \in [1..(m - 1) -> MainTasks]
        /\ \A i \in 1..(m - 1) : stale[i] = Stale(c.main[i + 1])
    BY <1>4, <2>1
  <2> HIDE DEF stale, m
  <2>3. stale \in Seq(MainTasks) /\ Len(stale) = m - 1 /\ DOMAIN stale = 1..(m - 1)
    BY <2>2
  <2> QED
    BY <2>2, <2>3
<1>9. asked \in SUBSET Requests
  <2>1. \A r \in c.asking : [r EXCEPT !.fresh = FALSE] \in Requests
    BY <1>3 DEF Requests
  <2> QED
    BY <2>1
<1>10. /\ \A q \in asked : ~q.fresh
      /\ \A q \in asked : q.current => \E r \in c.asking : r.current /\ q = [r EXCEPT !.fresh = FALSE]
  <2>1. \A r \in Requests : /\ ~[r EXCEPT !.fresh = FALSE].fresh
                            /\ [r EXCEPT !.fresh = FALSE].current = r.current
    BY DEF Requests
  <2> QED
    BY <1>3, <2>1
<1> HIDE DEF c, t, stale, asked
<1>11. Append(c.worker, t) \in Seq(Tasks)
  BY <1>3, <1>6, AppendFacts
<1>12. /\ SameClient(c, d) /\ d.user = c.user /\ d.state = c.state /\ d.asking = asked
       /\ d.main = stale /\ d.worker = Append(c.worker, t) /\ d \in Clients
  BY <1>2, <1>3, <1>8, <1>9, <1>11 DEF SameClient, Clients
<1>13. /\ n \in Nat /\ DOMAIN c.worker = 1..n /\ DOMAIN d.worker = 1..(n + 1)
       /\ Len(d.worker) = n + 1
       /\ \A i \in 1..n : d.worker[i] = c.worker[i]
       /\ d.worker[n + 1] = t
       /\ \A i \in 1..(n + 1) : i \in 1..n \/ i = n + 1
  BY <1>3, <1>6, <1>12, AppendFacts
<1>14. /\ \A k \in 0..n : \A v : Heads(c, k, v) => Heads(d, k, v)
       /\ Heads(d, n + 1, u)
  <2> HIDE DEF d, n, u
  <2>1. c \in Clients /\ d \in Clients /\ t \in Tasks
        /\ d.worker = Append(c.worker, t) /\ d.user = c.user
    BY <1>3, <1>6, <1>12
  <2>2. /\ \A k \in 0..Len(c.worker) : \A v : Heads(c, k, v) => Heads(d, k, v)
        /\ \A v : IF t.kind = "account" THEN Heads(d, Len(d.worker), t.user)
                  ELSE Heads(c, Len(c.worker), v) => Heads(d, Len(d.worker), v)
    BY <2>1, HeadsAppend
  <2>3. Heads(d, Len(d.worker), t.user)
    BY <1>6, <2>2
  <2>4. t.user = u /\ Len(d.worker) = n + 1
    BY <1>6, <1>13
  <2> QED
    BY <2>2, <2>3, <2>4 DEF n
<1>15. /\ \A i \in 1..(m - 1) : Awaited(d.main[i]) <=> Awaited(c.main[i + 1])
       /\ \A i \in 1..(m - 1) : d.main[i].kind = c.main[i + 1].kind
       /\ \A i \in 1..(m - 1) : d.main[i].kind = "notify" => d.main[i] = c.main[i + 1]
       /\ \A i \in 1..(m - 1) : d.main[i].kind = "answer" => ~d.main[i].request.fresh
       /\ DOMAIN d.main = 1..(m - 1) /\ Len(d.main) = m - 1
  <2>1. ASSUME NEW i \in 1..(m - 1)
        PROVE  /\ Awaited(d.main[i]) <=> Awaited(c.main[i + 1])
               /\ d.main[i].kind = c.main[i + 1].kind
               /\ d.main[i].kind = "notify" => d.main[i] = c.main[i + 1]
               /\ d.main[i].kind = "answer" => ~d.main[i].request.fresh
    <3>1. c.main[i + 1] \in MainTasks /\ d.main[i] = Stale(c.main[i + 1])
      BY <1>7, <1>8, <1>12
    <3> HIDE DEF d
    <3> QED
      BY <3>1, StaleFacts
  <2>2. DOMAIN d.main = 1..(m - 1) /\ Len(d.main) = m - 1
    BY <1>8, <1>12
  <2> QED
    BY <2>1, <2>2
<1> HIDE DEF d, m, n, u
<1>16. TokensSound(d)
  <2>1. d.state # "Starting" => NoneAwaited(d)
    <3>1. ASSUME NoneAwaited(c) PROVE NoneAwaited(d)
      BY <1>4, <1>6, <1>7, <1>10, <1>12, <1>13, <1>15, <3>1 DEF NoneAwaited
    <3> QED
      BY <1>3, <1>12, <3>1 DEF TokensSound
  <2>2. ASSUME NEW q \in d.asking, q.current
        PROVE  /\ \A p \in d.asking : p.current => q = p
               /\ \A i \in 1..(m - 1) : ~Awaited(d.main[i])
               /\ \A i \in 1..(n + 1) : ~Awaited(d.worker[i])
    <3>1. PICK r \in c.asking : r.current /\ q = [r EXCEPT !.fresh = FALSE]
      BY <1>10, <1>12, <2>2
    <3>2. /\ \A s \in c.asking : s.current => r = s
          /\ \A i \in 1..m : ~Awaited(c.main[i])
          /\ \A i \in 1..n : ~Awaited(c.worker[i])
      BY <1>3, <1>4, <1>13, <3>1 DEF TokensSound
    <3>3. \A p \in d.asking : p.current => q = p
      BY <1>10, <1>12, <3>1, <3>2
    <3> QED
      BY <1>6, <1>7, <1>13, <1>15, <3>2, <3>3
  <2>3. ASSUME NEW i \in 1..(m - 1), Awaited(d.main[i])
        PROVE  /\ \A j \in 1..(m - 1) : Awaited(d.main[j]) => i = j
               /\ \A j \in 1..(n + 1) : ~Awaited(d.worker[j])
    <3>1. /\ \A j \in 1..m : Awaited(c.main[j]) => i + 1 = j
          /\ \A j \in 1..n : ~Awaited(c.worker[j])
      BY <1>3, <1>4, <1>7, <1>13, <1>15, <2>3 DEF TokensSound
    <3>2. ASSUME NEW j \in 1..(m - 1), Awaited(d.main[j]) PROVE i = j
      <4>1. i + 1 = j + 1
        BY <1>7, <1>15, <3>1, <3>2
      <4> QED
        BY <4>1
    <3> QED
      BY <1>6, <1>13, <3>1, <3>2
  <2>4. ASSUME NEW i \in 1..(n + 1), NEW j \in 1..(n + 1),
               Awaited(d.worker[i]), Awaited(d.worker[j])
        PROVE  i = j
    <3>1. i \in 1..n /\ j \in 1..n
      BY <1>6, <1>13, <2>4
    <3> QED
      BY <1>3, <1>13, <2>4, <3>1 DEF TokensSound
  <2> QED
    BY <1>13, <1>15, <2>1, <2>2, <2>3, <2>4 DEF TokensSound
<1>17. TokensAreOfUser(d, auth)
  <2>1. Notifies(d, m - 1) \/ Heads(d, n + 1, auth)
    <3>1. CASE u = auth
      BY <1>14, <3>1
    <3>2. CASE u # auth
      <4>1. c.main[1].kind = "notify" /\ c.main[1].user # auth
        BY <1>1, <1>4, <3>2 DEF u
      <4>2. PICK j \in (1 + 1)..m : c.main[j].kind = "notify"
        BY <1>1, <1>4, <1>7, <4>1 DEF TokensAreOfUser, m
      <4>3. j - 1 \in 1..(m - 1) /\ (j - 1) + 1 = j
        BY <1>4, <4>2
      <4>4. d.main[j - 1].kind = "notify"
        BY <1>15, <4>2, <4>3
      <4> QED
        BY <4>3, <4>4 DEF Notifies
    <3> QED
      BY <3>1, <3>2
  <2>2. ASSUME NEW i \in 1..(m - 1), d.main[i].kind = "notify"
        PROVE  d.main[i].user = auth \/ \E j \in (i + 1)..(m - 1) : d.main[j].kind = "notify"
    <3>1. d.main[i] = c.main[i + 1] /\ c.main[i + 1].kind = "notify" /\ i + 1 \in DOMAIN c.main
      BY <1>4, <1>7, <1>15, <2>2
    <3>2. c.main[i + 1].user = auth
              \/ \E j \in ((i + 1) + 1)..m : c.main[j].kind = "notify"
      BY <1>1, <3>1 DEF TokensAreOfUser, m
    <3>3. ASSUME NEW j \in ((i + 1) + 1)..m, c.main[j].kind = "notify"
          PROVE  \E k \in (i + 1)..(m - 1) : d.main[k].kind = "notify"
      <4>1. j - 1 \in (i + 1)..(m - 1) /\ j - 1 \in 1..(m - 1) /\ (j - 1) + 1 = j
        BY <1>4, <3>3
      <4>2. d.main[j - 1].kind = "notify"
        BY <1>15, <3>3, <4>1
      <4> QED
        BY <4>1, <4>2
    <3> QED
      BY <3>1, <3>2, <3>3
  <2>3. ASSUME NEW i \in 1..(n + 1), d.worker[i].kind = "token", d.worker[i].user # None
        PROVE  Heads(d, i - 1, d.worker[i].user)
    <3>1. i \in 1..n
      BY <1>6, <1>13, <2>3
    <3>2. d.worker[i] = c.worker[i] /\ i \in DOMAIN c.worker /\ i - 1 \in 0..n
      BY <1>13, <3>1
    <3>3. Heads(c, i - 1, c.worker[i].user)
      BY <1>1, <2>3, <3>2 DEF TokensAreOfUser
    <3> QED
      BY <1>14, <3>2, <3>3
  <2>4. \A q \in d.asking : ~q.fresh
    BY <1>10, <1>12
  <2> QED
    BY <1>13, <1>15, <2>1, <2>2, <2>3, <2>4 DEF TokensAreOfUser
<1> QED
  <2>1. \E x \in Tasks : x.kind \in {"token", "account"} /\ d.worker = Append(c.worker, x)
    BY <1>6, <1>12
  <2> QED
    BY <1>1, <1>12, <1>16, <1>17, <2>1, OutsideStep DEF c, d

-----------------------------------------------------------------------------
(* The invariant is inductive.                                                 *)

(* A client that has just been launched.                                       *)
LEMMA InitIInv == Init => IInv /\ WQ!Init
<1> SUFFICES ASSUME Init PROVE IInv /\ WQ!Init
  OBVIOUS
<1> DEFINE q == [u \in Users |-> <<>>]
<1>1. /\ q \in [Users -> Seq(BatchIds)]
      /\ \A u \in Users : q[u] = <<>>
  OBVIOUS
<1>2. /\ auth \in Users /\ client = Launched(q) /\ server = NothingApplied
      /\ refused = {} /\ outcome = [b \in BatchIds |-> "none"] /\ faults = 0
  BY DEF Init
<1> HIDE DEF q
<1>3. \A u \in Users : /\ Sorted(q[u])
                       /\ \A i \in DOMAIN q[u] : Author[q[u][i]] = u
  <2>1. ASSUME NEW u \in Users PROVE q[u] = <<>> /\ DOMAIN q[u] = {}
    BY <1>1
  <2> QED
    BY <2>1 DEF Sorted
<1>4. /\ Sound(client) /\ client.queue = q /\ client.call = None /\ ~client.idle
      /\ ~client.handshake /\ TokensAreOfUser(client, auth)
  BY <1>1, <1>2, <1>3, LaunchedFacts
<1>5. Settled(client)
  BY <1>4 DEF Settled
<1>6. TypeOK
  <2>1. server \in Servers
    <3>1. server \in [{} -> SUBSET BatchIds] /\ {} \in SUBSET BatchIds
      BY <1>2 DEF NothingApplied
    <3> QED
      BY <3>1 DEF Servers
  <2>2. client \in Clients /\ Len(client.pipeline) <= kMaxPendingWrites
    BY <1>4 DEF Sound, PipelineSound
  <2> QED
    BY <1>2, <2>1, <2>2, FaultsAssumption DEF TypeOK, Outcomes
<1>7. WQ!Init
  <2>1. \A u \in Users : Answers(client, u) = 0
    BY <1>4 DEF Answers, Live
  <2>2. [u \in Users |-> Answers(client, u)] = [u \in Users |-> 0]
    BY <2>1
  <2>3. client.queue = [u \in Users |-> <<>>]
    BY <1>4 DEF q
  <2> QED
    BY <1>2, <2>2, <2>3 DEF WQ!Init, WQ!BatchIds, WQ!NothingApplied, BatchIds, NothingApplied
<1>8. WQ!IInv
  BY <1>7, WQ!InitIInv, BatchesAssumption, AuthorAssumption DEF BatchIds, WQ!BatchIds
<1> QED
  BY <1>4, <1>5, <1>6, <1>7, <1>8 DEF IInv

(* A batch that is applied.                                                   *)
LEMMA WithAppliedTypes ==
    ASSUME NEW s \in Servers, NEW b \in BatchIds
    PROVE  WithApplied(s, b) \in Servers
<1> DEFINE D == DOMAIN s \cup {b}
<1>1. PICK S \in SUBSET BatchIds : s \in [S -> SUBSET BatchIds]
  BY DEF Servers
<1>2. D \in SUBSET BatchIds
  BY <1>1
<1>3. WithApplied(s, b) \in [D -> SUBSET BatchIds]
  BY <1>1, <1>2 DEF WithApplied
<1> QED
  BY <1>2, <1>3 DEF Servers

(* What the server holds, what is counted and what the app was told keep their   *)
(* types; the client does, for it stays sound.                                 *)
LEMMA OtherTypes ==
    ASSUME IInv, Next
    PROVE  /\ auth' \in Users /\ server' \in Servers /\ refused' \in SUBSET BatchIds
           /\ outcome' \in [BatchIds -> Outcomes] /\ faults' \in 0..MaxFaults
<1> DEFINE Others == /\ auth' \in Users /\ server' \in Servers /\ refused' \in SUBSET BatchIds
                     /\ outcome' \in [BatchIds -> Outcomes] /\ faults' \in 0..MaxFaults
<1>1. TypeOK
  BY DEF IInv
<1>2. ASSUME UNCHANGED <<auth, server, refused, outcome, faults>> PROVE Others
  BY <1>1, <1>2 DEF TypeOK
<1>3. ASSUME Disturb, UNCHANGED <<server, refused, outcome>>, auth' \in Users PROVE Others
  BY <1>1, <1>3, FaultsAssumption DEF TypeOK, Disturb
<1>4. ASSUME NEW e \in Outcomes, NEW b,
             outcome' = [outcome EXCEPT ![b] = e], UNCHANGED <<auth, server, refused, faults>>
      PROVE  Others
  BY <1>1, <1>4 DEF TypeOK
<1>5. ASSUME NEW b \in BatchIds, Write(b) PROVE Others
  BY <1>2, <1>5 DEF Write
<1>6. ASSUME MutationResult PROVE Others
  BY <1>4, <1>6 DEF MutationResult, Outcomes
<1>7. ASSUME Finished PROVE Others
  <2>1. CASE GivesUp(client, client.call.ended)
    BY <1>4, <1>7, <2>1 DEF Finished, Outcomes
  <2>2. CASE ~GivesUp(client, client.call.ended)
    BY <1>2, <1>7, <2>2 DEF Finished
  <2> QED
    BY <2>1, <2>2
<1>8. ASSUME WorkerStep PROVE Others
  BY <1>2, <1>6, <1>7, <1>8
     DEF WorkerStep, HandshakeComplete, WriteDone, OperationFailed, NothingToDo, TokenArrives,
         AccountChanges
<1>9. ASSUME BackoffElapses \/ IdleElapses \/ NetworkEnabled \/ MainStep PROVE Others
  BY <1>2, <1>9 DEF BackoffElapses, IdleElapses, NetworkEnabled, MainStep, AnswerToken, Notified
<1>10. ASSUME AuthStep PROVE Others
  BY <1>2, <1>10 DEF AuthStep, LookUp, TokenFetched
<1>11. ASSUME ReadCompletes \/ ReadFails \/ WriteGoesOut \/ WriteFails PROVE Others
  BY <1>2, <1>11 DEF ReadCompletes, ReadFails, WriteGoesOut, WriteFails, Complete
<1>12. ASSUME ServerGreets PROVE Others
  BY <1>2, <1>12 DEF ServerGreets
<1>13. ASSUME NEW b \in BatchIds, ServerApplies(b) PROVE Others
  <2>1. WithApplied(server, b) \in Servers
    BY <1>1, WithAppliedTypes DEF TypeOK
  <2> QED
    BY <1>1, <1>13, <2>1 DEF TypeOK, ServerApplies
<1>14. ASSUME NEW b \in BatchIds, ServerRefuses(b) PROVE Others
  BY <1>1, <1>14 DEF TypeOK, ServerRefuses
<1>15. ASSUME CallBreaks \/ HandshakeRefused \/ ConnectivityChanges \/ NetworkDisabled \/ ProcessDies
       PROVE  Others
  BY <1>1, <1>3, <1>15
     DEF TypeOK, CallBreaks, HandshakeRefused, ConnectivityChanges, NetworkDisabled, ProcessDies
<1>16. ASSUME NEW r \in client.asking, TokenFails(r) PROVE Others
  BY <1>1, <1>3, <1>16 DEF TypeOK, TokenFails
<1>17. ASSUME NEW u \in Users, SignIn(u) PROVE Others
  BY <1>3, <1>17 DEF SignIn
<1> HIDE DEF Others
<1>18. Others
  BY <1>5, <1>8, <1>9, <1>10, <1>11, <1>12, <1>13, <1>14, <1>15, <1>16, <1>17
     DEF Next, ServerStep
<1> QED
  BY <1>18 DEF Others

(* One lemma per step.                                                        *)
LEMMA NextKeeps ==
    ASSUME IInv, Next
    PROVE  StepKeeps
<1>1. ASSUME NEW b \in BatchIds, Write(b) PROVE StepKeeps
  BY <1>1, WriteKeeps
<1>2. ASSUME WorkerStep PROVE StepKeeps
  BY <1>2, HandshakeCompleteKeeps, MutationResultKeeps, WriteDoneKeeps, OperationFailedKeeps,
     FinishedKeeps, NothingToDoKeeps, TokenArrivesKeeps, AccountChangesKeeps DEF WorkerStep
<1>3. ASSUME BackoffElapses \/ IdleElapses \/ NetworkEnabled PROVE StepKeeps
  BY <1>3, BackoffElapsesKeeps, IdleElapsesKeeps, NetworkEnabledKeeps
<1>4. ASSUME MainStep PROVE StepKeeps
  BY <1>4, AnswerTokenKeeps, NotifiedKeeps DEF MainStep
<1>5. ASSUME NEW r \in client.asking, LookUp(r) PROVE StepKeeps
  BY <1>5, LookUpKeeps
<1>6. ASSUME NEW r \in client.asking, TokenFetched(r) PROVE StepKeeps
  BY <1>6, TokenFetchedKeeps
<1>7. ASSUME ReadCompletes \/ ReadFails \/ WriteGoesOut \/ WriteFails PROVE StepKeeps
  BY <1>7, ReadCompletesKeeps, ReadFailsKeeps, WriteGoesOutKeeps, WriteFailsKeeps
<1>8. ASSUME NEW b \in BatchIds, ServerApplies(b) PROVE StepKeeps
  BY <1>8, ServerAppliesKeeps
<1>9. ASSUME NEW b \in BatchIds, ServerRefuses(b) PROVE StepKeeps
  BY <1>9, ServerRefusesKeeps
<1>10. ASSUME ServerStep PROVE StepKeeps
  BY <1>8, <1>9, <1>10, ServerGreetsKeeps DEF ServerStep
<1>11. ASSUME CallBreaks \/ HandshakeRefused \/ ConnectivityChanges PROVE StepKeeps
  BY <1>11, CallBreaksKeeps, HandshakeRefusedKeeps, ConnectivityChangesKeeps
<1>12. ASSUME NetworkDisabled \/ ProcessDies PROVE StepKeeps
  BY <1>12, NetworkDisabledKeeps, ProcessDiesKeeps
<1>13. ASSUME NEW r \in client.asking, TokenFails(r) PROVE StepKeeps
  BY <1>13, TokenFailsKeeps
<1>14. ASSUME NEW u \in Users, SignIn(u) PROVE StepKeeps
  BY <1>14, SignInKeeps
<1> QED
  BY <1>1, <1>2, <1>3, <1>4, <1>5, <1>6, <1>7, <1>10, <1>11, <1>12, <1>13, <1>14
     DEF Next, AuthStep

(* Every step keeps the invariant, and is one of the promise or hidden from it. *)
LEMMA NextIInv == IInv /\ [Next]_vars => IInv' /\ [WQ!Next]_(WQ!vars)
<1> SUFFICES ASSUME IInv, [Next]_vars PROVE IInv' /\ [WQ!Next]_(WQ!vars)
  OBVIOUS
<1>1. CASE Next
  <2>1. StepKeeps
    BY <1>1, NextKeeps
  <2>2. /\ Sound(client') /\ Settled(client') /\ TokensAreOfUser(client', auth')
        /\ [WQ!Next]_(WQ!vars)
    BY <2>1 DEF StepKeeps
  <2>3. WQ!IInv
    BY DEF IInv
  <2>4. WQ!IInv'
    BY <2>2, <2>3, WQ!NextIInv, BatchesAssumption, AuthorAssumption DEF BatchIds, WQ!BatchIds
  <2>5. client' \in Clients /\ Len(client'.pipeline) <= kMaxPendingWrites
    BY <2>2 DEF Sound, PipelineSound
  <2>6. TypeOK'
    BY <1>1, <2>5, OtherTypes DEF TypeOK
  <2> QED
    BY <2>2, <2>4, <2>6 DEF IInv
<1>2. CASE UNCHANGED vars
  <2>1. [u \in Users |-> Answers(client, u)]' = [u \in Users |-> Answers(client, u)]
    BY <1>2 DEF vars
  <2>2. UNCHANGED WQ!vars
    BY <1>2, <2>1 DEF vars, WQ!vars
  <2>3. WQ!IInv
    BY DEF IInv
  <2>4. WQ!IInv'
    BY <2>2, <2>3, WQ!NextIInv, BatchesAssumption, AuthorAssumption DEF BatchIds, WQ!BatchIds
  <2>5. client' = client /\ auth' = auth
    BY <1>2 DEF vars
  <2>6. Sound(client') /\ Settled(client') /\ TokensAreOfUser(client', auth')
    BY <2>5 DEF IInv
  <2>7. TypeOK'
    BY <1>2 DEF IInv, TypeOK, vars
  <2> QED
    BY <2>2, <2>4, <2>6, <2>7 DEF IInv
<1> QED
  BY <1>1, <1>2

(* The invariant holds in every behaviour.                                     *)
LEMMA AlwaysIInv == Spec => []IInv
<1>1. Init => IInv
  BY InitIInv
<1>2. IInv /\ [Next]_vars => IInv'
  BY NextIInv
<1> QED
  BY <1>1, <1>2, PTL DEF Spec

-----------------------------------------------------------------------------
(* The client, the accounts, what the server holds and what the app was told    *)
(* keep their types, and the pipeline its capacity.                            *)
THEOREM PipelineTypes == Spec => []TypeOK
<1>1. IInv => TypeOK
  BY DEF IInv
<1> QED
  BY <1>1, AlwaysIInv, PTL

(* No HARD_ASSERT on the way of a write fails.                                 *)
THEOREM NoAssertionFails == Spec => []AssertionsHold
<1>1. IInv => AssertionsHold
  BY DEF IInv, Sound, StreamSound, AssertionsHold
<1> QED
  BY <1>1, AlwaysIInv, PTL

(* A call brings to the server only batches of the account whose token it bears. *)
THEOREM BatchesBearTheirToken == Spec => []OwnCredentials
<1>1. IInv => OwnCredentials
  BY DEF IInv, Sound, CallSound, OwnCredentials
<1> QED
  BY <1>1, AlwaysIInv, PTL

(* While a call is sound, what it carries is the pipeline, in order: a result    *)
(* belongs to the first batch.                                                 *)
THEOREM ResultsMatchThePipeline == Spec => []InFlightIsPipeline
<1>1. IInv => InFlightIsPipeline
  BY DEF IInv, Sound, CallSound, Live, Sent, InFlight, InFlightIsPipeline
<1> QED
  BY <1>1, AlwaysIInv, PTL

(* The idle timer never closes the stream on a write that waits.                *)
THEOREM IdleStreamsHaveNothingToSend == Spec => []IdleOnlyWhenDrained
<1>1. IInv => IdleOnlyWhenDrained
  BY DEF IInv, Settled, IdleOnlyWhenDrained
<1> QED
  BY <1>1, AlwaysIInv, PTL

(* The steps of the promise, as this module and as WritePipeline instantiate it. *)
LEMMA SamePromise ==
    /\ WQ!Init => Promise!Init
    /\ [WQ!Next]_(WQ!vars) => [Promise!Next]_(Promise!vars)
<1>1. WQ!Init => Promise!Init
  BY DEF WQ!Init, Promise!Init, WQ!BatchIds, Promise!BatchIds, WQ!NothingApplied,
         Promise!NothingApplied
<1>2. WQ!vars = Promise!vars /\ (UNCHANGED WQ!vars => UNCHANGED Promise!vars)
  BY DEF WQ!vars, Promise!vars
<1>3. WQ!Next => Promise!Next
  BY DEF WQ!Next, WQ!Write, WQ!Apply, WQ!Acknowledge, WQ!Reject, WQ!Lose, WQ!Written,
         WQ!WithApplied, WQ!BatchIds,
         Promise!Next, Promise!Write, Promise!Apply, Promise!Acknowledge, Promise!Reject,
         Promise!Lose, Promise!Written, Promise!WithApplied, Promise!BatchIds
<1> QED
  BY <1>2, <1>3, <1>1

(* Refinement: whatever streams, calls, tokens and accounts do, the app sees     *)
(* queues that are answered at the head and applied in order, at least once.   *)
THEOREM ImplementsPromise == Spec => KeepsPromise
<1>1. Init => Promise!Init
  <2>1. Init => WQ!Init
    BY InitIInv
  <2> QED
    BY <2>1, SamePromise
<1>2. IInv /\ [Next]_vars => [Promise!Next]_(Promise!vars)
  BY NextIInv, SamePromise
<1> QED
  BY <1>1, <1>2, AlwaysIInv, PTL DEF Spec, Promise!Spec, KeepsPromise

(* What the app is told of its writes is true, and in order: it holds of the     *)
(* promise, so it holds of the pipeline.                                       *)
THEOREM AcknowledgementsAreTrue == Spec => []AcknowledgedInOrder
<1>1. IInv => AcknowledgedInOrder
  BY DEF IInv, WQ!IInv, WQ!SettledInOrder, WQ!Settled, WQ!BatchIds,
         AcknowledgedInOrder, Promise!AcknowledgedInOrder, Promise!BatchIds
<1> QED
  BY <1>1, AlwaysIInv, PTL
==============================================================================
