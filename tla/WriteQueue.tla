------------------------------ MODULE WriteQueue ------------------------------
(***************************************************************************)
(* What Firestore promises about the writes of an app: each account has a  *)
(* queue of batches that survives restarts; the server gets them in order  *)
(* and at least once, for whenever a connection is lost the client starts  *)
(* over from the head; and only the head is ever answered.  WritePipeline  *)
(* implements this specification.                                          *)
(***************************************************************************)
EXTENDS Batches

VARIABLES
    queue,    \* per account: the batches not yet answered, oldest first
    unheard,  \* per account: how many of them the server has applied on this connection
    server,   \* what the server holds, see Servers
    outcome   \* per batch: what the app has been told

vars == <<queue, unheard, server, outcome>>

TypeOK ==
    /\ queue \in [Users -> Seq(BatchIds)]
    /\ unheard \in [Users -> Nat]
    /\ server \in Servers
    /\ outcome \in [BatchIds -> Outcomes]

Init ==
    /\ queue = [u \in Users |-> <<>>]
    /\ unheard = [u \in Users |-> 0]
    /\ server = NothingApplied
    /\ outcome = [b \in BatchIds |-> "none"]

(* Batches are numbered in the order in which they are written.                *)
Written(b) == outcome[b] # "none" \/ \E i \in DOMAIN queue[Author[b]] : queue[Author[b]][i] = b

Write(b) ==
    /\ ~Written(b) /\ \A c \in 1..(b - 1) : Written(c)
    /\ queue' = [queue EXCEPT ![Author[b]] = Append(@, b)]
    /\ UNCHANGED <<unheard, server, outcome>>

(* The server applies the next batch that this connection has brought.         *)
Apply(u) ==
    /\ unheard[u] < Len(queue[u])
    /\ server' = WithApplied(server, queue[u][unheard[u] + 1])
    /\ unheard' = [unheard EXCEPT ![u] = @ + 1]
    /\ UNCHANGED <<queue, outcome>>

(* The client hears that its first batch has been applied.                     *)
Acknowledge(u) ==
    /\ unheard[u] > 0
    /\ queue' = [queue EXCEPT ![u] = Tail(@)]
    /\ unheard' = [unheard EXCEPT ![u] = @ - 1]
    /\ outcome' = [outcome EXCEPT ![Head(queue[u])] = "ok"]
    /\ UNCHANGED server

(* The connection ends with an error for which the first batch is given up; it  *)
(* may have been applied all the same.                                         *)
Reject(u) ==
    /\ queue[u] # <<>>
    /\ queue' = [queue EXCEPT ![u] = Tail(@)]
    /\ unheard' = [unheard EXCEPT ![u] = 0]
    /\ outcome' = [outcome EXCEPT ![Head(queue[u])] = "error"]
    /\ UNCHANGED server

(* Answers are lost; what they were about will be sent and applied again.      *)
Lose(u, n) ==
    /\ n < unheard[u]
    /\ unheard' = [unheard EXCEPT ![u] = n]
    /\ UNCHANGED <<queue, server, outcome>>

Next ==
    \/ \E b \in BatchIds : Write(b)
    \/ \E u \in Users : Apply(u) \/ Acknowledge(u) \/ Reject(u)
    \/ \E u \in Users : \E n \in 0..unheard[u] : Lose(u, n)

Spec == Init /\ [][Next]_vars

-----------------------------------------------------------------------------
(* What the app is told is true, and the effect is that of the writes in the    *)
(* order in which they were made: a batch reported as successful is on the     *)
(* server, and no repeated send has put an earlier successful batch of the      *)
(* account on top of it.                                                       *)
AcknowledgedInOrder ==
    \A c \in BatchIds : outcome[c] = "ok" =>
        /\ c \in DOMAIN server
        /\ \A b \in 1..(c - 1) :
              Author[b] = Author[c] /\ outcome[b] = "ok" => b \in server[c]
=============================================================================
