---------------------------- MODULE WriteQueueProofs ----------------------------
(***************************************************************************)
(* Proofs about WriteQueue, for any accounts and any number of batches:     *)
(* its types, and that what the app is told is true and in order.          *)
(***************************************************************************)
EXTENDS WriteQueue, TLAPS

USE BatchesAssumption, AuthorAssumption

-----------------------------------------------------------------------------
(* The inductive invariant.                                                   *)

(* What waits in a queue is its account's, unanswered, and in order.           *)
QueuesHoldUnanswered ==
    \A u \in Users : \A i \in DOMAIN queue[u] :
        Author[queue[u][i]] = u /\ outcome[queue[u][i]] = "none"

QueuesAreSorted ==
    \A u \in Users : \A i, j \in DOMAIN queue[u] : i < j => queue[u][i] < queue[u][j]

(* Only the head is ever answered.                                            *)
AnsweredAreOlder ==
    \A b \in BatchIds : outcome[b] # "none" =>
        \A i \in DOMAIN queue[Author[b]] : b < queue[Author[b]][i]

WrittenInOrder ==
    \A b \in BatchIds : Written(b) => \A c \in 1..(b - 1) : Written(c)

UnheardAreQueued == \A u \in Users : unheard[u] <= Len(queue[u])

(* Batches that will not be sent again unless their answer is lost.            *)
Settled(b) ==
    outcome[b] = "ok" \/ \E i \in 1..unheard[Author[b]] : queue[Author[b]][i] = b

(* The strengthening of AcknowledgedInOrder: it must hold of the applied        *)
(* batches before the client has heard of them.                                *)
SettledInOrder ==
    \A c \in BatchIds : Settled(c) =>
        /\ c \in DOMAIN server
        /\ \A b \in 1..(c - 1) : Author[b] = Author[c] /\ Settled(b) => b \in server[c]

IInv ==
    /\ TypeOK
    /\ QueuesHoldUnanswered /\ QueuesAreSorted /\ AnsweredAreOlder /\ WrittenInOrder
    /\ UnheardAreQueued /\ SettledInOrder

-----------------------------------------------------------------------------
(* The tail of a queue is the queue without its head.                          *)
LEMMA TailFacts ==
    ASSUME NEW s \in Seq(BatchIds), s # <<>>
    PROVE  /\ Tail(s) \in Seq(BatchIds)
           /\ Len(Tail(s)) = Len(s) - 1
           /\ Len(s) \in Nat /\ Len(s) > 0
           /\ \A i \in 1..(Len(s) - 1) : Tail(s)[i] = s[i + 1]
           /\ Head(s) = s[1] /\ Head(s) \in BatchIds
           /\ DOMAIN s = 1..Len(s) /\ DOMAIN Tail(s) = 1..(Len(s) - 1)
    OBVIOUS

(* A queue with a batch at its end.                                           *)
LEMMA AppendFacts ==
    ASSUME NEW s \in Seq(BatchIds), NEW b \in BatchIds
    PROVE  /\ Append(s, b) \in Seq(BatchIds)
           /\ Len(Append(s, b)) = Len(s) + 1
           /\ Len(s) \in Nat
           /\ \A i \in 1..Len(s) : Append(s, b)[i] = s[i]
           /\ Append(s, b)[Len(s) + 1] = b
           /\ DOMAIN s = 1..Len(s) /\ DOMAIN Append(s, b) = 1..(Len(s) + 1)
    OBVIOUS

(* What the server holds after it has applied a batch.                         *)
LEMMA WithAppliedFacts ==
    ASSUME NEW s \in Servers, NEW b \in BatchIds
    PROVE  /\ WithApplied(s, b) \in Servers
           /\ DOMAIN WithApplied(s, b) = DOMAIN s \cup {b}
           /\ WithApplied(s, b)[b] = DOMAIN s \ {b}
           /\ \A c \in DOMAIN s \ {b} : WithApplied(s, b)[c] = s[c] \ {b}
<1> DEFINE D == DOMAIN s \cup {b}
<1>1. PICK S \in SUBSET BatchIds : s \in [S -> SUBSET BatchIds]
  BY DEF Servers
<1>2. D \in SUBSET BatchIds /\ DOMAIN s = S
  BY <1>1
<1>3. WithApplied(s, b) \in [D -> SUBSET BatchIds]
  BY <1>1, <1>2 DEF WithApplied
<1>4. WithApplied(s, b) \in Servers
  BY <1>2, <1>3 DEF Servers
<1> QED
  BY <1>1, <1>2, <1>4 DEF WithApplied

-----------------------------------------------------------------------------
LEMMA InitIInv == Init => IInv
<1> SUFFICES ASSUME Init PROVE IInv
  OBVIOUS
<1>1. TypeOK
  <2>1. server \in Servers
    <3>1. server \in [{} -> SUBSET BatchIds] /\ {} \in SUBSET BatchIds
      BY DEF Init, NothingApplied
    <3> QED
      BY <3>1 DEF Servers
  <2> QED
    BY <2>1 DEF Init, TypeOK, Outcomes, BatchIds
<1>2. \A b \in BatchIds : ~Written(b) /\ ~Settled(b)
  BY DEF Init, Written, Settled
<1> QED
  BY <1>1, <1>2 DEF IInv, Init, QueuesHoldUnanswered, QueuesAreSorted, AnsweredAreOlder,
     WrittenInOrder, UnheardAreQueued, SettledInOrder

(* A batch that is new follows all others of its account's queue.               *)
LEMMA NewestFollowsAll ==
    ASSUME IInv, NEW b \in BatchIds, ~Written(b), NEW i \in DOMAIN queue[Author[b]]
    PROVE  queue[Author[b]][i] \in BatchIds /\ queue[Author[b]][i] < b
<1> DEFINE a == queue[Author[b]][i]
<1>1. a \in BatchIds /\ Written(a) /\ a # b
  BY DEF IInv, TypeOK, QueuesHoldUnanswered, Written
<1>2. ~(b \in 1..(a - 1))
  BY <1>1 DEF IInv, WrittenInOrder
<1> QED
  BY <1>1, <1>2 DEF BatchIds

(* The app writes: the new batch follows all others of its queue, for the      *)
(* numbers below it have all been given.                                       *)
LEMMA WriteIInv ==
    ASSUME IInv, NEW b \in BatchIds, Write(b)
    PROVE  IInv'
<1> DEFINE u0 == Author[b]
           q == queue[u0]
<1>0. /\ TypeOK /\ u0 \in Users /\ q \in Seq(BatchIds)
      /\ ~Written(b) /\ outcome[b] = "none"
      /\ queue' = [queue EXCEPT ![u0] = Append(q, b)]
      /\ unheard' = unheard /\ server' = server /\ outcome' = outcome
  BY DEF IInv, TypeOK, Write, Written
<1>1. /\ Append(q, b) \in Seq(BatchIds) /\ Len(Append(q, b)) = Len(q) + 1 /\ Len(q) \in Nat
      /\ \A i \in 1..Len(q) : Append(q, b)[i] = q[i]
      /\ Append(q, b)[Len(q) + 1] = b
      /\ DOMAIN q = 1..Len(q) /\ DOMAIN Append(q, b) = 1..(Len(q) + 1)
  BY <1>0, AppendFacts
<1>2. /\ queue'[u0] = Append(q, b)
      /\ \A u \in Users \ {u0} : queue'[u] = queue[u]
  BY <1>0 DEF TypeOK
<1>3. \A i \in 1..Len(q) : q[i] \in BatchIds /\ q[i] < b
  BY <1>0, <1>1, NewestFollowsAll
<1>4. \A c \in BatchIds : Written(c)' <=> Written(c) \/ c = b
  <2> SUFFICES ASSUME NEW c \in BatchIds PROVE Written(c)' <=> Written(c) \/ c = b
    OBVIOUS
  <2>1. CASE Author[c] = u0
    <3>1. (\E i \in DOMAIN queue'[u0] : queue'[u0][i] = c)
             <=> (\E i \in DOMAIN q : q[i] = c) \/ c = b
      BY <1>1, <1>2
    <3> QED
      BY <2>1, <3>1, <1>0 DEF Written
  <2>2. CASE Author[c] # u0
    <3>1. queue'[Author[c]] = queue[Author[c]] /\ c # b
      BY <2>2, <1>2
    <3> QED
      BY <3>1, <1>0 DEF Written
  <2> QED
    BY <2>1, <2>2
<1>5. \A c \in BatchIds : Settled(c)' <=> Settled(c)
  <2> SUFFICES ASSUME NEW c \in BatchIds PROVE Settled(c)' <=> Settled(c)
    OBVIOUS
  <2>1. CASE Author[c] = u0
    <3>1. unheard[u0] \in Nat /\ unheard[u0] <= Len(q)
      BY <1>0 DEF IInv, TypeOK, UnheardAreQueued
    <3>2. \A i \in 1..unheard[u0] : queue'[u0][i] = q[i]
      BY <3>1, <1>1, <1>2
    <3> QED
      BY <2>1, <3>2, <1>0 DEF Settled
  <2>2. CASE Author[c] # u0
    <3>1. queue'[Author[c]] = queue[Author[c]]
      BY <2>2, <1>2
    <3> QED
      BY <3>1, <1>0 DEF Settled
  <2> QED
    BY <2>1, <2>2
<1>6. TypeOK'
  BY <1>0, <1>1 DEF TypeOK
<1>7. QueuesHoldUnanswered'
  <2> SUFFICES ASSUME NEW u \in Users, NEW i \in DOMAIN queue'[u]
               PROVE  Author[queue'[u][i]] = u /\ outcome[queue'[u][i]] = "none"
    BY <1>0 DEF QueuesHoldUnanswered
  <2>1. CASE u = u0
    BY <2>1, <1>0, <1>1, <1>2 DEF IInv, QueuesHoldUnanswered
  <2>2. CASE u # u0
    BY <2>2, <1>2 DEF IInv, QueuesHoldUnanswered
  <2> QED
    BY <2>1, <2>2
<1>8. QueuesAreSorted'
  <2> SUFFICES ASSUME NEW u \in Users, NEW i \in DOMAIN queue'[u], NEW j \in DOMAIN queue'[u], i < j
               PROVE  queue'[u][i] < queue'[u][j]
    BY DEF QueuesAreSorted
  <2>1. CASE u = u0
    BY <2>1, <1>1, <1>2, <1>3 DEF IInv, QueuesAreSorted
  <2>2. CASE u # u0
    BY <2>2, <1>2 DEF IInv, QueuesAreSorted
  <2> QED
    BY <2>1, <2>2
<1>9. AnsweredAreOlder'
  <2> SUFFICES ASSUME NEW c \in BatchIds, outcome[c] # "none", NEW i \in DOMAIN queue'[Author[c]]
               PROVE  c < queue'[Author[c]][i]
    BY <1>0 DEF AnsweredAreOlder
  <2>1. c < b
    <3>1. Written(c) /\ c # b
      BY <1>0 DEF Written
    <3>2. ~(b \in 1..(c - 1))
      BY <3>1, <1>0 DEF IInv, WrittenInOrder
    <3> QED
      BY <3>1, <3>2 DEF BatchIds
  <2>2. CASE Author[c] = u0
    BY <2>1, <2>2, <1>1, <1>2 DEF IInv, AnsweredAreOlder
  <2>3. CASE Author[c] # u0
    BY <2>3, <1>2 DEF IInv, AnsweredAreOlder
  <2> QED
    BY <2>2, <2>3
<1>10. WrittenInOrder'
  <2> SUFFICES ASSUME NEW c \in BatchIds, Written(c)', NEW d \in 1..(c - 1)
               PROVE  Written(d)'
    BY DEF WrittenInOrder
  <2>1. d \in BatchIds
    BY DEF BatchIds
  <2>2. Written(d)
    BY <1>4 DEF Write, IInv, WrittenInOrder
  <2> QED
    BY <2>1, <2>2, <1>4
<1>11. UnheardAreQueued'
  <2> SUFFICES ASSUME NEW u \in Users PROVE unheard[u] <= Len(queue'[u])
    BY <1>0 DEF UnheardAreQueued
  <2>1. unheard[u] \in Nat /\ unheard[u] <= Len(queue[u])
    BY <1>0 DEF IInv, TypeOK, UnheardAreQueued
  <2> QED
    BY <2>1, <1>1, <1>2
<1>12. SettledInOrder'
  <2> SUFFICES ASSUME NEW c \in BatchIds, Settled(c)'
               PROVE  /\ c \in DOMAIN server
                      /\ \A d \in 1..(c - 1) :
                            Author[d] = Author[c] /\ Settled(d)' => d \in server[c]
    BY <1>0 DEF SettledInOrder
  <2>1. 1..(c - 1) \subseteq BatchIds
    BY DEF BatchIds
  <2> QED
    BY <2>1, <1>5 DEF IInv, SettledInOrder
<1> QED
  BY <1>6, <1>7, <1>8, <1>9, <1>10, <1>11, <1>12 DEF IInv

(* The server applies the batch behind those that the client has yet to hear of: *)
(* it is the largest settled one of its account, and it comes to lie on top.    *)
LEMMA ApplyIInv ==
    ASSUME IInv, NEW u0 \in Users, Apply(u0)
    PROVE  IInv'
<1> DEFINE q == queue[u0]
           n == unheard[u0]
           b == q[n + 1]
<1>0. /\ TypeOK /\ q \in Seq(BatchIds) /\ n \in Nat /\ n < Len(q) /\ Len(q) \in Nat
      /\ DOMAIN q = 1..Len(q)
      /\ b \in BatchIds /\ Author[b] = u0
      /\ server \in Servers /\ server' = WithApplied(server, b)
      /\ unheard' = [unheard EXCEPT ![u0] = n + 1]
      /\ queue' = queue /\ outcome' = outcome
  BY DEF IInv, TypeOK, Apply, QueuesHoldUnanswered
<1> HIDE DEF q, n, b
<1>1. /\ server' \in Servers
      /\ DOMAIN server' = DOMAIN server \cup {b}
      /\ server'[b] = DOMAIN server \ {b}
      /\ \A c \in DOMAIN server \ {b} : server'[c] = server[c] \ {b}
  BY <1>0, WithAppliedFacts
<1> USE DEF q, n, b
<1>2. unheard'[u0] = n + 1 /\ \A u \in Users \ {u0} : unheard'[u] = unheard[u]
  BY <1>0 DEF TypeOK
<1>3. \A c \in BatchIds : Written(c)' <=> Written(c)
  BY <1>0 DEF Written
<1>4. \A c \in BatchIds : Settled(c)' <=> Settled(c) \/ c = b
  <2> SUFFICES ASSUME NEW c \in BatchIds PROVE Settled(c)' <=> Settled(c) \/ c = b
    OBVIOUS
  <2>1. CASE Author[c] = u0
    <3>1. (\E i \in 1..(n + 1) : q[i] = c) <=> (\E i \in 1..n : q[i] = c) \/ c = b
      BY <1>0
    <3> QED
      BY <2>1, <3>1, <1>0, <1>2 DEF Settled
  <2>2. CASE Author[c] # u0
    <3>1. Author[c] \in Users \ {u0} /\ c # b
      BY <2>2, <1>0
    <3> QED
      BY <3>1, <1>0, <1>2 DEF Settled
  <2> QED
    BY <2>1, <2>2
<1>5. \A c \in BatchIds : Settled(c) /\ Author[c] = u0 => c < b
  <2> SUFFICES ASSUME NEW c \in BatchIds, Settled(c), Author[c] = u0 PROVE c < b
    OBVIOUS
  <2>1. CASE outcome[c] = "ok"
    BY <2>1, <1>0 DEF IInv, AnsweredAreOlder
  <2>2. CASE \E i \in 1..n : q[i] = c
    BY <2>2, <1>0 DEF IInv, QueuesAreSorted
  <2> QED
    BY <2>1, <2>2 DEF Settled
<1>6. TypeOK'
  BY <1>0, <1>1 DEF TypeOK
<1>7. UnheardAreQueued'
  BY <1>0, <1>2 DEF IInv, UnheardAreQueued
<1>8. SettledInOrder'
  <2> SUFFICES ASSUME NEW c \in BatchIds, Settled(c)'
               PROVE  /\ c \in DOMAIN server'
                      /\ \A d \in 1..(c - 1) :
                            Author[d] = Author[c] /\ Settled(d)' => d \in server'[c]
    BY DEF SettledInOrder
  <2>1. c \in DOMAIN server'
    BY <1>1, <1>4 DEF IInv, SettledInOrder
  <2>2. ASSUME NEW d \in 1..(c - 1), Author[d] = Author[c], Settled(d)'
        PROVE  d \in server'[c]
    <3>1. d \in BatchIds /\ d < c
      BY DEF BatchIds
    <3>2. CASE c = b
      <4>1. d # b /\ Settled(d)
        BY <3>1, <3>2, <2>2, <1>4
      <4> QED
        BY <4>1, <3>1, <3>2, <1>1 DEF IInv, SettledInOrder
    <3>3. CASE c # b
      <4>1. Settled(c)
        BY <3>3, <1>4
      <4>2. d # b
        <5>1. Author[c] = u0 => c < b
          BY <4>1, <1>5
        <5> QED
          BY <5>1, <3>1, <2>2, <1>0 DEF BatchIds
      <4>3. c \in DOMAIN server /\ d \in server[c]
        BY <4>1, <4>2, <2>2, <1>4, <3>1 DEF IInv, SettledInOrder
      <4> QED
        BY <4>2, <4>3, <3>3, <1>1
    <3> QED
      BY <3>2, <3>3
  <2> QED
    BY <2>1, <2>2
<1>9. QueuesHoldUnanswered' /\ QueuesAreSorted' /\ AnsweredAreOlder'
  BY <1>0 DEF IInv, QueuesHoldUnanswered, QueuesAreSorted, AnsweredAreOlder
<1>10. WrittenInOrder'
  <2> SUFFICES ASSUME NEW c \in BatchIds, Written(c)', NEW d \in 1..(c - 1)
               PROVE  Written(d)'
    BY DEF WrittenInOrder
  <2>1. d \in BatchIds
    BY DEF BatchIds
  <2> QED
    BY <2>1, <1>3 DEF IInv, WrittenInOrder
<1> QED
  BY <1>6, <1>7, <1>8, <1>9, <1>10 DEF IInv

(* A queue loses its head to an answer, whatever becomes of the batches that    *)
(* the client has not heard of: only who is settled matters then.              *)
LEMMA PopIInv ==
    ASSUME IInv, NEW u0 \in Users, NEW answer \in {"ok", "error"},
           queue[u0] # <<>>, TypeOK',
           queue' = [queue EXCEPT ![u0] = Tail(@)],
           outcome' = [outcome EXCEPT ![Head(queue[u0])] = answer],
           server' = server,
           \A u \in Users : unheard'[u] <= Len(queue'[u]),
           \A c \in BatchIds : Settled(c)' => Settled(c)
    PROVE  IInv'
<1> DEFINE q == queue[u0]
           h == Head(q)
<1>0. /\ q \in Seq(BatchIds) /\ TypeOK
      /\ Tail(q) \in Seq(BatchIds) /\ Len(Tail(q)) = Len(q) - 1
      /\ Len(q) \in Nat /\ Len(q) > 0
      /\ \A i \in 1..(Len(q) - 1) : Tail(q)[i] = q[i + 1]
      /\ h = q[1] /\ h \in BatchIds
      /\ DOMAIN q = 1..Len(q) /\ DOMAIN Tail(q) = 1..(Len(q) - 1)
  <2>1. q \in Seq(BatchIds) /\ TypeOK
    BY DEF IInv, TypeOK
  <2> QED
    BY <2>1, TailFacts
<1>1. /\ queue'[u0] = Tail(q) /\ DOMAIN queue'[u0] = 1..(Len(q) - 1)
      /\ \A i \in 1..(Len(q) - 1) : queue'[u0][i] = q[i + 1] /\ i + 1 \in DOMAIN q
      /\ \A u \in Users \ {u0} : queue'[u] = queue[u]
  <2>1. queue'[u0] = Tail(q) /\ \A u \in Users \ {u0} : queue'[u] = queue[u]
    BY <1>0 DEF TypeOK
  <2>2. \A i \in 1..(Len(q) - 1) : i + 1 \in 1..Len(q)
    BY <1>0
  <2> HIDE DEF q
  <2> QED
    BY <1>0, <2>1, <2>2, Zenon
<1>2. outcome'[h] = answer /\ \A c \in BatchIds \ {h} : outcome'[c] = outcome[c]
  BY <1>0 DEF TypeOK
<1>3. Author[h] = u0 /\ \A i \in 1..(Len(q) - 1) : h < q[i + 1] /\ q[i + 1] \in BatchIds
  BY <1>0 DEF IInv, QueuesHoldUnanswered, QueuesAreSorted
<1>4. \A c \in BatchIds : Written(c) => Written(c)'
  <2> SUFFICES ASSUME NEW c \in BatchIds, Written(c), c # h PROVE Written(c)'
    BY <1>0, <1>2 DEF Written
  <2>1. CASE outcome[c] # "none"
    BY <2>1, <1>2 DEF Written
  <2>2. CASE \E i \in DOMAIN queue[Author[c]] : queue[Author[c]][i] = c
    <3>1. CASE Author[c] = u0
      <4>1. PICK i \in 1..Len(q) : q[i] = c
        BY <2>2, <3>1, <1>0
      <4>2. i - 1 \in 1..(Len(q) - 1) /\ Tail(q)[i - 1] = c
        BY <4>1, <1>0
      <4> QED
        BY <4>2, <3>1, <1>0, <1>1 DEF Written
    <3>2. CASE Author[c] # u0
      BY <3>2, <2>2, <1>1 DEF Written
    <3> QED
      BY <3>1, <3>2
  <2> QED
    BY <2>1, <2>2 DEF Written
<1>5. \A c \in BatchIds : Written(c)' => Written(c)
  <2> SUFFICES ASSUME NEW c \in BatchIds, Written(c)', c # h PROVE Written(c)
    BY <1>0, <1>3 DEF Written
  <2>1. CASE outcome'[c] # "none"
    BY <2>1, <1>2 DEF Written
  <2>2. CASE \E i \in DOMAIN queue'[Author[c]] : queue'[Author[c]][i] = c
    <3>1. CASE Author[c] = u0
      <4>1. PICK i \in 1..(Len(q) - 1) : Tail(q)[i] = c
        BY <2>2, <3>1, <1>0, <1>1
      <4>2. i + 1 \in DOMAIN q /\ q[i + 1] = c
        BY <4>1, <1>0
      <4> QED
        BY <4>2, <3>1 DEF Written
    <3>2. CASE Author[c] # u0
      BY <3>2, <2>2, <1>1 DEF Written
    <3> QED
      BY <3>1, <3>2
  <2> QED
    BY <2>1, <2>2 DEF Written
<1>6. QueuesHoldUnanswered'
  <2> SUFFICES ASSUME NEW u \in Users, NEW i \in DOMAIN queue'[u]
               PROVE  Author[queue'[u][i]] = u /\ outcome'[queue'[u][i]] = "none"
    BY DEF QueuesHoldUnanswered
  <2>1. CASE u = u0
    <3>1. i \in 1..(Len(q) - 1) /\ queue'[u][i] = q[i + 1] /\ i + 1 \in DOMAIN q
      BY <2>1, <1>0, <1>1
    <3>2. q[i + 1] \in BatchIds \ {h}
      BY <3>1, <1>3, <1>0 DEF BatchIds
    <3> QED
      BY <2>1, <3>1, <3>2, <1>2 DEF IInv, QueuesHoldUnanswered
  <2>2. CASE u # u0
    <3>1. queue'[u] = queue[u] /\ queue[u] \in Seq(BatchIds)
      BY <2>2, <1>1, <1>0 DEF TypeOK
    <3>2. queue[u][i] \in BatchIds /\ Author[queue[u][i]] = u
      BY <3>1 DEF IInv, QueuesHoldUnanswered
    <3> QED
      BY <2>2, <3>1, <3>2, <1>2, <1>3 DEF IInv, QueuesHoldUnanswered
  <2> QED
    BY <2>1, <2>2
<1>7. QueuesAreSorted'
  <2> SUFFICES ASSUME NEW u \in Users, NEW i \in DOMAIN queue'[u], NEW j \in DOMAIN queue'[u], i < j
               PROVE  queue'[u][i] < queue'[u][j]
    BY DEF QueuesAreSorted
  <2>1. CASE u = u0
    <3>1. /\ queue'[u][i] = q[i + 1] /\ queue'[u][j] = q[j + 1]
          /\ i + 1 \in DOMAIN q /\ j + 1 \in DOMAIN q /\ i + 1 < j + 1
      BY <2>1, <1>0, <1>1
    <3> QED
      BY <3>1 DEF IInv, QueuesAreSorted
  <2>2. CASE u # u0
    BY <2>2, <1>1 DEF IInv, QueuesAreSorted
  <2> QED
    BY <2>1, <2>2
<1>8. AnsweredAreOlder'
  <2> SUFFICES ASSUME NEW c \in BatchIds, outcome'[c] # "none", NEW i \in DOMAIN queue'[Author[c]]
               PROVE  c < queue'[Author[c]][i]
    BY DEF AnsweredAreOlder
  <2>1. CASE Author[c] = u0
    <3>1. i \in 1..(Len(q) - 1) /\ queue'[u0][i] = q[i + 1] /\ i + 1 \in DOMAIN q
      BY <2>1, <1>0, <1>1
    <3>2. CASE c = h
      BY <3>1, <3>2, <2>1, <1>3
    <3>3. CASE c # h
      BY <3>1, <3>3, <2>1, <1>2 DEF IInv, AnsweredAreOlder
    <3> QED
      BY <3>2, <3>3
  <2>2. CASE Author[c] # u0
    BY <2>2, <1>1, <1>2, <1>3 DEF IInv, AnsweredAreOlder
  <2> QED
    BY <2>1, <2>2
<1>9. WrittenInOrder'
  <2> SUFFICES ASSUME NEW c \in BatchIds, Written(c)', NEW d \in 1..(c - 1)
               PROVE  Written(d)'
    BY DEF WrittenInOrder
  <2>1. d \in BatchIds
    BY DEF BatchIds
  <2> QED
    BY <2>1, <1>4, <1>5 DEF IInv, WrittenInOrder
<1>10. SettledInOrder'
  <2> SUFFICES ASSUME NEW c \in BatchIds, Settled(c)'
               PROVE  /\ c \in DOMAIN server
                      /\ \A d \in 1..(c - 1) :
                            Author[d] = Author[c] /\ Settled(d)' => d \in server[c]
    BY DEF SettledInOrder
  <2>1. 1..(c - 1) \subseteq BatchIds
    BY DEF BatchIds
  <2> QED
    BY <2>1 DEF IInv, SettledInOrder
<1>11. UnheardAreQueued'
  BY DEF UnheardAreQueued
<1> QED
  BY <1>6, <1>7, <1>8, <1>9, <1>10, <1>11 DEF IInv

(* The head's answer reaches the client: the head was settled before.          *)
LEMMA AcknowledgeIInv ==
    ASSUME IInv, NEW u0 \in Users, Acknowledge(u0)
    PROVE  IInv'
<1> DEFINE q == queue[u0]
           h == Head(q)
           n == unheard[u0]
<1>0. /\ TypeOK /\ q \in Seq(BatchIds) /\ n \in Nat /\ n > 0 /\ n <= Len(q) /\ Len(q) \in Nat
      /\ queue' = [queue EXCEPT ![u0] = Tail(@)]
      /\ unheard' = [unheard EXCEPT ![u0] = n - 1]
      /\ outcome' = [outcome EXCEPT ![h] = "ok"]
      /\ server' = server
  BY DEF IInv, TypeOK, Acknowledge, UnheardAreQueued
<1>1. q # <<>>
  BY <1>0
<1>2. /\ Tail(q) \in Seq(BatchIds) /\ Len(Tail(q)) = Len(q) - 1
      /\ \A i \in 1..(Len(q) - 1) : Tail(q)[i] = q[i + 1]
      /\ h = q[1] /\ h \in BatchIds /\ DOMAIN q = 1..Len(q)
  BY <1>0, <1>1, TailFacts
<1>3. TypeOK'
  BY <1>0, <1>2 DEF TypeOK, Outcomes
<1>4. \A u \in Users : unheard'[u] <= Len(queue'[u])
  BY <1>0, <1>2 DEF IInv, TypeOK, UnheardAreQueued
<1>5. ASSUME NEW c \in BatchIds, Settled(c)' PROVE Settled(c)
  <2>1. CASE outcome'[c] = "ok"
    <3>1. Author[h] = u0
      BY <1>0, <1>2 DEF IInv, QueuesHoldUnanswered
    <3>2. CASE c = h
      BY <3>1, <3>2, <1>0, <1>2 DEF Settled
    <3>3. CASE c # h
      BY <3>3, <2>1, <1>0 DEF Settled, TypeOK
    <3> QED
      BY <3>2, <3>3
  <2>2. CASE \E i \in 1..unheard'[Author[c]] : queue'[Author[c]][i] = c
    <3>1. CASE Author[c] = u0
      <4>1. PICK i \in 1..(n - 1) : Tail(q)[i] = c
        BY <2>2, <3>1, <1>0 DEF TypeOK
      <4>2. i + 1 \in 1..n /\ q[i + 1] = c
        BY <4>1, <1>0, <1>2
      <4> QED
        BY <4>2, <3>1 DEF Settled
    <3>2. CASE Author[c] # u0
      BY <3>2, <2>2, <1>0 DEF Settled, TypeOK
    <3> QED
      BY <3>1, <3>2
  <2> QED
    BY <2>1, <2>2, <1>5 DEF Settled
<1> QED
  BY <1>0, <1>1, <1>3, <1>4, <1>5, PopIInv

(* The head is given up: whatever the server has applied is unsettled again.   *)
LEMMA RejectIInv ==
    ASSUME IInv, NEW u0 \in Users, Reject(u0)
    PROVE  IInv'
<1> DEFINE q == queue[u0]
           h == Head(q)
<1>0. /\ TypeOK /\ q \in Seq(BatchIds) /\ q # <<>>
      /\ queue' = [queue EXCEPT ![u0] = Tail(@)]
      /\ unheard' = [unheard EXCEPT ![u0] = 0]
      /\ outcome' = [outcome EXCEPT ![h] = "error"]
      /\ server' = server
  BY DEF IInv, TypeOK, Reject
<1>2. /\ Tail(q) \in Seq(BatchIds) /\ Len(Tail(q)) = Len(q) - 1
      /\ Len(q) \in Nat /\ Len(q) > 0 /\ h \in BatchIds
  BY <1>0, TailFacts
<1>3. TypeOK'
  BY <1>0, <1>2 DEF TypeOK, Outcomes
<1>4. \A u \in Users : unheard'[u] <= Len(queue'[u])
  BY <1>0, <1>2 DEF IInv, TypeOK, UnheardAreQueued
<1>5. ASSUME NEW c \in BatchIds, Settled(c)' PROVE Settled(c)
  <2>1. CASE outcome'[c] = "ok"
    BY <2>1, <1>0, <1>2 DEF Settled, TypeOK
  <2>2. CASE \E i \in 1..unheard'[Author[c]] : queue'[Author[c]][i] = c
    <3>1. Author[c] # u0
      BY <2>2, <1>0 DEF TypeOK
    <3> QED
      BY <3>1, <2>2, <1>0 DEF Settled, TypeOK
  <2> QED
    BY <2>1, <2>2, <1>5 DEF Settled
<1> QED
  BY <1>0, <1>3, <1>4, <1>5, PopIInv

(* Answers are lost: fewer batches are settled, and nothing else changes.      *)
LEMMA LoseIInv ==
    ASSUME IInv, NEW u0 \in Users, NEW n \in 0..unheard[u0], Lose(u0, n)
    PROVE  IInv'
<1>0. /\ TypeOK /\ n \in Nat /\ n < unheard[u0] /\ unheard[u0] \in Nat
      /\ unheard' = [unheard EXCEPT ![u0] = n]
      /\ queue' = queue /\ server' = server /\ outcome' = outcome
  BY DEF IInv, TypeOK, Lose
<1>1. TypeOK'
  BY <1>0 DEF TypeOK
<1>2. UnheardAreQueued'
  <2> SUFFICES ASSUME NEW u \in Users PROVE unheard'[u] <= Len(queue[u])
    BY <1>0 DEF UnheardAreQueued
  <2>1. unheard[u] \in Nat /\ Len(queue[u]) \in Nat /\ unheard[u] <= Len(queue[u])
    BY <1>0 DEF IInv, TypeOK, UnheardAreQueued
  <2> QED
    BY <2>1, <1>0 DEF TypeOK
<1>3. ASSUME NEW c \in BatchIds, Settled(c)' PROVE Settled(c)
  <2>1. CASE Author[c] = u0
    BY <2>1, <1>0, <1>3 DEF Settled, TypeOK
  <2>2. CASE Author[c] # u0
    BY <2>2, <1>0, <1>3 DEF Settled, TypeOK
  <2> QED
    BY <2>1, <2>2
<1>4. QueuesHoldUnanswered' /\ QueuesAreSorted' /\ AnsweredAreOlder'
  BY <1>0 DEF IInv, QueuesHoldUnanswered, QueuesAreSorted, AnsweredAreOlder
<1>5. WrittenInOrder'
  BY <1>0 DEF IInv, WrittenInOrder, Written
<1>6. SettledInOrder'
  <2> SUFFICES ASSUME NEW c \in BatchIds, Settled(c)'
               PROVE  /\ c \in DOMAIN server
                      /\ \A d \in 1..(c - 1) :
                            Author[d] = Author[c] /\ Settled(d)' => d \in server[c]
    BY <1>0 DEF SettledInOrder
  <2>1. 1..(c - 1) \subseteq BatchIds
    BY DEF BatchIds
  <2> QED
    BY <2>1, <1>3 DEF IInv, SettledInOrder
<1> QED
  BY <1>1, <1>2, <1>4, <1>5, <1>6 DEF IInv

LEMMA NextIInv == IInv /\ [Next]_vars => IInv'
<1> SUFFICES ASSUME IInv, [Next]_vars PROVE IInv'
  OBVIOUS
<1>1. ASSUME NEW b \in BatchIds, Write(b) PROVE IInv'
  BY <1>1, WriteIInv
<1>2. ASSUME NEW u \in Users, Apply(u) PROVE IInv'
  BY <1>2, ApplyIInv
<1>3. ASSUME NEW u \in Users, Acknowledge(u) PROVE IInv'
  BY <1>3, AcknowledgeIInv
<1>4. ASSUME NEW u \in Users, Reject(u) PROVE IInv'
  BY <1>4, RejectIInv
<1>5. ASSUME NEW u \in Users, NEW n \in 0..unheard[u], Lose(u, n) PROVE IInv'
  BY <1>5, LoseIInv
<1>6. CASE UNCHANGED vars
  BY <1>6 DEF vars, IInv, TypeOK, QueuesHoldUnanswered, QueuesAreSorted, AnsweredAreOlder,
     WrittenInOrder, Written, UnheardAreQueued, SettledInOrder, Settled
<1> QED
  BY <1>1, <1>2, <1>3, <1>4, <1>5, <1>6 DEF Next

LEMMA AlwaysIInv == Spec => []IInv
  BY InitIInv, NextIInv, PTL DEF Spec

-----------------------------------------------------------------------------
(* The promise keeps its types.                                               *)
THEOREM TypeCorrect == Spec => []TypeOK
<1>1. IInv => TypeOK
  BY DEF IInv
<1> QED
  BY <1>1, AlwaysIInv, PTL

(* A batch reported as successful is on the server, and however often what      *)
(* came before it was sent again, the account's writes lie there in the order  *)
(* in which the app made them.                                                *)
THEOREM WritesTakeEffectInOrder == Spec => []AcknowledgedInOrder
<1>1. IInv => AcknowledgedInOrder
  <2> SUFFICES ASSUME IInv, NEW c \in BatchIds, outcome[c] = "ok"
               PROVE  /\ c \in DOMAIN server
                      /\ \A b \in 1..(c - 1) :
                            Author[b] = Author[c] /\ outcome[b] = "ok" => b \in server[c]
    BY DEF AcknowledgedInOrder
  <2> QED
    BY DEF IInv, SettledInOrder, Settled
<1> QED
  BY <1>1, AlwaysIInv, PTL
=============================================================================
