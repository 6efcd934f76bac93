----------------------------- MODULE WritePipeline -----------------------------
(***************************************************************************)
(* The way of a write through Firestore: the mutation queue of its account, *)
(* the write pipeline of RemoteStore, the write stream with its handshake, *)
(* backoff and idle timer, the one-at-a-time writes and reads of the gRPC  *)
(* call, and the server.  Around it the change of account: FirebaseAuth,   *)
(* the token that a stream asks for, and the restart of the streams.       *)
(*                                                                         *)
(* Everything the client does runs on its worker queue; each task is one   *)
(* action.  Tasks whose order matters (completions of the call, tokens,    *)
(* changes of account) wait in worker; writes of the app, timers and       *)
(* connectivity may come at any time and are run as they come.             *)
(*                                                                         *)
(* Sources: Firestore/core/src/remote (remote_store.cc, stream.cc,         *)
(* write_stream.cc, grpc_stream.cc), core/sync_engine.cc,                  *)
(* auth/firebase_credentials_provider_apple.mm, FirebaseAuth/FIRAuth.m.    *)
(* Stream tokens, versions and the length of the backoff are left out.     *)
(***************************************************************************)
EXTENDS Batches

CONSTANTS
    kMaxPendingWrites,  \* capacity of the write pipeline
    MaxFaults,          \* bound on what disturbs the client: see Disturb
    None                \* nil

(* What goes over the wire, in both directions: the handshake, and batches and  *)
(* their results.  A result does not say which batch it is about; the number    *)
(* is kept to state that the client guesses right.                             *)
Handshake == 0
Messages == {Handshake} \cup BatchIds

ASSUME CapacityAssumption == kMaxPendingWrites \in Nat \ {0}
ASSUME FaultsAssumption == MaxFaults \in Nat

VARIABLES
    client,   \* the app's process and its Firestore client, see Clients
    auth,     \* FirebaseAuth: the account signed in
    server,   \* what the server holds, see Servers
    refused,  \* the batches the server has refused
    outcome,  \* per batch: what the app has been told
    faults    \* how often the client has been disturbed

vars == <<client, auth, server, refused, outcome, faults>>

-----------------------------------------------------------------------------
(* State of the client.                                                       *)

(* The gRPC call of the stream.  out: what is still to be written, the head of  *)
(* it being under way; toServer and toClient: what is on the wire; ended: the   *)
(* status with which the server or the network has ended the call; finishing:   *)
(* the client has given the call up and asks for its status.                   *)
Calls == [user : Users, out : Seq(Messages), toServer : Seq(Messages),
          toClient : Seq(Messages), ended : {"no", "transient", "permanent"},
          finishing : BOOLEAN]
NewCall(u) == [user |-> u, out |-> <<>>, toServer |-> <<>>, toClient |-> <<>>,
               ended |-> "no", finishing |-> FALSE]

ASSUME NoneAssumption == None \notin Users /\ None \notin Calls

(* Requests for a token.  current: the stream has not been closed since; fresh: *)
(* no change of the account has been heard of since; user: whose token it is,   *)
(* once FirebaseAuth has looked; a token that is None is an error.             *)
Requests == [current : BOOLEAN, fresh : BOOLEAN, user : Users \cup {None}]
NewRequest == [current |-> TRUE, fresh |-> TRUE, user |-> None]

(* Tasks of the worker queue.  Of the call: a message that was read, a write    *)
(* that went out, either of them failing, and its final status.  A task that has *)
(* been cancelled does nothing.                                                *)
CallTasks == [kind : {"read"}, message : Messages]
             \cup [kind : {"written", "readFailed", "writeFailed", "finished"}]
Tasks == CallTasks
         \cup [kind : {"token"}, user : Users \cup {None}, current : BOOLEAN]
         \cup [kind : {"account"}, user : Users] \cup [kind : {"cancelled"}]

(* Tasks of the main queue: a notification of FirebaseAuth, and a token.       *)
MainTasks == [kind : {"notify"}, user : Users]
             \cup [kind : {"answer"}, request : Requests]

(* state: the stream's; idle: its idle timer runs; asserted: every HARD_ASSERT  *)
(* on the way held.  The queues survive the process.                           *)
Clients ==
    [queue : [Users -> Seq(BatchIds)], user : Users, network : BOOLEAN,
     pipeline : Seq(BatchIds), state : {"Initial", "Starting", "Backoff", "Open", "Error"},
     handshake : BOOLEAN, idle : BOOLEAN, call : Calls \cup {None},
     asking : SUBSET Requests, main : Seq(MainTasks), worker : Seq(Tasks),
     asserted : BOOLEAN]

(* A client that has just been created, before it enables the network.         *)
NewClient(queue, u) ==
    [queue |-> queue, user |-> u, network |-> FALSE, pipeline |-> <<>>,
     state |-> "Initial", handshake |-> FALSE, idle |-> FALSE, call |-> None,
     asking |-> {}, main |-> <<>>, worker |-> <<>>, asserted |-> TRUE]

TypeOK ==
    /\ client \in Clients /\ Len(client.pipeline) <= kMaxPendingWrites
    /\ auth \in Users
    /\ server \in Servers
    /\ refused \subseteq BatchIds
    /\ outcome \in [BatchIds -> Outcomes]
    /\ faults \in 0..MaxFaults

HardAssert(c, holds) == [c EXCEPT !.asserted = @ /\ holds]

IsOpen(c) == c.state = "Open"
IsStarted(c) == c.state \in {"Starting", "Backoff", "Open"}
IsOfCall(task) == task.kind \in {"read", "written", "readFailed", "writeFailed", "finished"}

-----------------------------------------------------------------------------
(* Starting and filling.                                                      *)

(* Stream::Start                                                              *)
Start(c) ==
    IF c.state = "Error" THEN [c EXCEPT !.state = "Backoff"]
    ELSE [HardAssert(c, c.state = "Initial") EXCEPT
             !.state = "Starting", !.asking = @ \cup {NewRequest}]

ShouldStart(c) == c.network /\ ~IsStarted(c) /\ c.pipeline # <<>>
StartIfNeeded(c) == IF ShouldStart(c) THEN Start(c) ELSE c

(* Variants named ...Variant, here and below, are not part of the              *)
(* specification: each is its neighbour with one mistake in it, and shows that *)
(* some property would notice.  This one leaves the idle timer running.        *)
SendVariant(c, messages) ==
    IF messages = <<>> THEN c
    ELSE [HardAssert(c, IsOpen(c)) EXCEPT !.call.out = @ \o messages]

(* Writing cancels the idle timer.                                            *)
Send(c, messages) ==
    IF messages = <<>> THEN c
    ELSE [HardAssert(c, IsOpen(c)) EXCEPT !.call.out = @ \o messages, !.idle = FALSE]
(* WriteMutations, once per batch                                             *)
SendBatches(c, batches) == Send(HardAssert(c, batches = <<>> \/ c.handshake), batches)

(* Starts at the head of the queue whatever the pipeline holds.                *)
UpcomingVariant(c) == c.queue[c.user]

(* The batches of the account that follow the last one of the pipeline.        *)
NextIndex(q, last) ==
    CHOOSE k \in 1..(Len(q) + 1) :
        /\ \A i \in 1..(k - 1) : q[i] <= last
        /\ k <= Len(q) => last < q[k]
Upcoming(c) ==
    LET q == c.queue[c.user]
        last == IF c.pipeline = <<>> THEN 0 ELSE c.pipeline[Len(c.pipeline)]
    IN  SubSeq(q, NextIndex(q, last), Len(q))

(* Takes one batch more than there is room for.                                *)
RoomVariant(c) == kMaxPendingWrites + 1 - Len(c.pipeline)
Room(c) == kMaxPendingWrites - Len(c.pipeline)

(* Writes to a stream that has not completed its handshake.                    *)
SendsAtOnceVariant(c) == IsOpen(c)
SendsAtOnce(c) == IsOpen(c) /\ c.handshake

(* FillWritePipeline: when it runs out of batches with nothing in the pipeline, *)
(* the open stream is idle.                                                    *)
Fill(c) ==
    LET next == SubSeq(Upcoming(c), 1,
                       IF Room(c) < Len(Upcoming(c)) THEN Room(c) ELSE Len(Upcoming(c)))
        filled == [c EXCEPT !.pipeline = @ \o next,
                            !.idle = @ \/ (IsOpen(c) /\ c.pipeline \o next = <<>>)]
    IN IF ~c.network THEN StartIfNeeded(c)
       ELSE StartIfNeeded(IF SendsAtOnce(c) THEN SendBatches(filled, next) ELSE filled)

(* The first batch of the pipeline has been answered.                          *)
Answered(c) ==
    [HardAssert(c, c.pipeline # <<>> /\ c.queue[c.user] # <<>>
                     /\ Head(c.queue[c.user]) = Head(c.pipeline)) EXCEPT
        !.pipeline = Tail(@), !.queue[c.user] = Tail(@)]

-----------------------------------------------------------------------------
(* Closing.                                                                   *)

(* HandleWriteError for a permanent error: the batch is given up, and there is  *)
(* no backoff.  Other errors leave everything to the restart of the stream; an *)
(* error of the handshake resets the stream token only.                        *)
GivesUp(c, status) == status = "permanent" /\ c.pipeline # <<>> /\ c.handshake
HandleWriteError(c) ==
    Fill([Answered(HardAssert(c, ~IsStarted(c))) EXCEPT !.state = "Initial"])

(* Waits for the next write before it connects again.                          *)
OnWriteStreamCloseVariant(c, status) ==
    LET checked == HardAssert(c, status = "ok" => ~ShouldStart(c)) IN
    IF GivesUp(c, status) THEN HandleWriteError(checked) ELSE checked

OnWriteStreamClose(c, status) ==
    LET checked == HardAssert(c, status = "ok" => ~ShouldStart(c)) IN
    StartIfNeeded(IF GivesUp(c, status) THEN HandleWriteError(checked) ELSE checked)

Outdated(task) ==
    CASE task.kind = "token" -> [task EXCEPT !.current = FALSE]
      [] task.kind = "answer" -> [task EXCEPT !.request.current = FALSE]
      [] OTHER -> task
OutdatedAll(tasks) == [i \in DOMAIN tasks |-> Outdated(tasks[i])]

(* What a call has on the worker queue cannot be removed, it is turned into a   *)
(* task that does nothing.                                                     *)
Cancelled(task) == IF IsOfCall(task) THEN [kind |-> "cancelled"] ELSE task
CancelledAll(tasks) == [i \in DOMAIN tasks |-> Cancelled(tasks[i])]

(* The close count, which a token must match, is incremented, and the call is   *)
(* destroyed.                                                                  *)
Closed(c, status) ==
    [HardAssert(c, IsStarted(c)) EXCEPT
        !.idle = FALSE, !.call = None,
        !.asking = {[r EXCEPT !.current = FALSE] : r \in @},
        !.main = OutdatedAll(@),
        !.worker = OutdatedAll(CancelledAll(@)),
        !.state = IF status = "ok" THEN "Initial" ELSE "Error"]

(* Takes the next stream's handshake for done.                                 *)
CloseVariant(c, status) == OnWriteStreamClose(Closed(c, status), status)

(* The handshake is forgotten only after the listener has been told.           *)
Close(c, status) ==
    [OnWriteStreamClose(Closed(c, status), status) EXCEPT !.handshake = FALSE]

Stop(c) == IF IsStarted(c) THEN Close(c, "ok") ELSE c

-----------------------------------------------------------------------------
(* The network.                                                               *)

DisableNetwork(c) == [Stop([c EXCEPT !.network = FALSE]) EXCEPT !.pipeline = <<>>]
EnableNetwork(c) == Fill([c EXCEPT !.network = TRUE])
RestartNetwork(c) ==
    LET disabled == DisableNetwork(c) IN
    EnableNetwork([HardAssert(disabled, ~IsStarted(disabled)) EXCEPT !.state = "Initial"])
RestartIfEnabled(c) == IF c.network THEN RestartNetwork(c) ELSE c

(* A process starts with the account that was signed in last.                  *)
Launched(queue) == EnableNetwork(NewClient(queue, auth))

Init ==
    /\ auth \in Users
    /\ client = Launched([u \in Users |-> <<>>])
    /\ server = NothingApplied
    /\ refused = {}
    /\ outcome = [b \in BatchIds |-> "none"]
    /\ faults = 0

-----------------------------------------------------------------------------
(* Tasks of the worker queue.                                                 *)

NextTask == Head(client.worker)
Taken == [client EXCEPT !.worker = Tail(@)]
Due(kind) == client.worker # <<>> /\ NextTask.kind = kind

Written(b) ==
    \/ outcome[b] # "none"
    \/ \E i \in DOMAIN client.queue[Author[b]] : client.queue[Author[b]][i] = b

(* SyncEngine::WriteMutations puts the batch into the queue of its account.    *)
Write(b) ==
    /\ Author[b] = client.user
    /\ ~Written(b) /\ \A c \in 1..(b - 1) : Written(c)
    /\ client' = Fill([client EXCEPT !.queue[client.user] = Append(@, b)])
    /\ UNCHANGED <<auth, server, refused, outcome, faults>>

(* The first message read is the answer to the handshake: now the pipeline is   *)
(* sent.                                                                      *)
HandshakeComplete ==
    /\ Due("read") /\ ~client.handshake
    /\ client' = SendBatches([Taken EXCEPT !.handshake = TRUE], client.pipeline)
    /\ UNCHANGED <<auth, server, refused, outcome, faults>>

(* Takes the answer to the handshake for a result.                             *)
MutationResultVariant ==
    /\ Due("read")
    /\ client' = Fill(Answered(Taken))
    /\ outcome' = [outcome EXCEPT ![Head(client.pipeline)] = "ok"]
    /\ UNCHANGED <<auth, server, refused, faults>>

(* Every other one is taken for the result of the first batch in the pipeline.  *)
MutationResult ==
    /\ Due("read") /\ client.handshake
    /\ client' = Fill(Answered(Taken))
    /\ outcome' = [outcome EXCEPT ![Head(client.pipeline)] = "ok"]
    /\ UNCHANGED <<auth, server, refused, faults>>

(* GrpcStream::OnWrite                                                        *)
WriteDone ==
    /\ Due("written")
    /\ client' = [Taken EXCEPT !.call.out = Tail(@)]
    /\ UNCHANGED <<auth, server, refused, outcome, faults>>

(* GrpcStream::OnOperationFailed: the completions that wait on the worker queue *)
(* are cancelled, a message that has been read with them, and gRPC is asked     *)
(* for the status, which it has.                                              *)
OperationFailed ==
    /\ Due("readFailed") \/ Due("writeFailed")
    /\ client' = [Taken EXCEPT
         !.call.finishing = TRUE,
         !.worker = Append(CancelledAll(@), [kind |-> "finished"])]
    /\ UNCHANGED <<auth, server, refused, outcome, faults>>

Finished ==
    /\ Due("finished")
    /\ client' = Close(Taken, client.call.ended)
    /\ outcome' = IF GivesUp(client, client.call.ended)
                  THEN [outcome EXCEPT ![Head(client.pipeline)] = "error"] ELSE outcome
    /\ UNCHANGED <<auth, server, refused, faults>>

(* A task that was cancelled while it waited.                                   *)
NothingToDo ==
    /\ Due("cancelled")
    /\ client' = Taken
    /\ UNCHANGED <<auth, server, refused, outcome, faults>>

(* Stream::ResumeStartWithCredentials; the call starts reading, is open at once *)
(* and greets the server.                                                     *)
Resume(c, u) ==
    LET opened == [HardAssert(c, c.state = "Starting" /\ ~c.handshake) EXCEPT
                      !.state = "Open", !.call = NewCall(u)]
    IN Send(opened, <<Handshake>>)

(* Does not compare the close count.                                          *)
TokenArrivesVariant ==
    /\ Due("token")
    /\ client' = IF NextTask.user = None THEN Close(Taken, "transient")
                 ELSE Resume(Taken, NextTask.user)
    /\ UNCHANGED <<auth, server, refused, outcome, faults>>

TokenArrives ==
    /\ Due("token")
    /\ client' = CASE ~NextTask.current -> Taken
                   [] NextTask.current /\ NextTask.user = None -> Close(Taken, "transient")
                   [] OTHER -> Resume(Taken, NextTask.user)
    /\ UNCHANGED <<auth, server, refused, outcome, faults>>

(* SyncEngine::HandleCredentialChange: swaps the queue, restarts the streams.  *)
AccountChanges ==
    /\ Due("account")
    /\ client' = RestartIfEnabled([Taken EXCEPT !.user = NextTask.user])
    /\ UNCHANGED <<auth, server, refused, outcome, faults>>

(* The timers of the stream.                                                  *)
BackoffElapses ==
    /\ client.state = "Backoff"
    /\ client' = Start([client EXCEPT !.state = "Initial"])
    /\ UNCHANGED <<auth, server, refused, outcome, faults>>

IdleElapses ==
    /\ client.idle
    /\ client' = Stop(client)
    /\ UNCHANGED <<auth, server, refused, outcome, faults>>

(* FirestoreClient::EnableNetwork                                             *)
NetworkEnabled ==
    /\ ~client.network
    /\ client' = EnableNetwork(client)
    /\ UNCHANGED <<auth, server, refused, outcome, faults>>

-----------------------------------------------------------------------------
(* FirebaseAuth and the main queue.                                           *)

(* FirebaseAuth looks up its account for a request.                            *)
LookUp(r) ==
    /\ r \in client.asking /\ r.user = None
    /\ client' = [client EXCEPT !.asking = (@ \ {r}) \cup {[r EXCEPT !.user = auth]}]
    /\ UNCHANGED <<auth, server, refused, outcome, faults>>

(* The token is there, perhaps after a call to the server.                     *)
TokenFetched(r) ==
    /\ r \in client.asking /\ r.user # None
    /\ client' = [client EXCEPT !.asking = @ \ {r},
                                !.main = Append(@, [kind |-> "answer", request |-> r])]
    /\ UNCHANGED <<auth, server, refused, outcome, faults>>

(* A token that is older than the last notification is asked for again.        *)
AnswerToken ==
    LET r == Head(client.main).request
        taken == [client EXCEPT !.main = Tail(@)]
    IN
    /\ client.main # <<>> /\ Head(client.main).kind = "answer"
    /\ client' = IF r.fresh
                 THEN [taken EXCEPT !.worker =
                         Append(@, [kind |-> "token", user |-> r.user, current |-> r.current])]
                 ELSE [taken EXCEPT !.asking = @ \cup {[NewRequest EXCEPT !.current = r.current]}]
    /\ UNCHANGED <<auth, server, refused, outcome, faults>>

Stale(task) ==
    IF task.kind = "answer" THEN [task EXCEPT !.request.fresh = FALSE] ELSE task

(* The credentials provider counts the change and tells the client.            *)
Notified ==
    /\ client.main # <<>> /\ Head(client.main).kind = "notify"
    /\ client' = [client EXCEPT
         !.main = [i \in 1..(Len(@) - 1) |-> Stale(@[i + 1])],
         !.asking = {[r EXCEPT !.fresh = FALSE] : r \in @},
         !.worker = Append(@, [kind |-> "account", user |-> Head(client.main).user])]
    /\ UNCHANGED <<auth, server, refused, outcome, faults>>

-----------------------------------------------------------------------------
(* The gRPC call and the server.                                              *)

(* The call has one read and at most one write under way; a completion that is  *)
(* on the worker queue is no longer under way.                                *)
Posted(c, kinds) == \E i \in DOMAIN c.worker : c.worker[i].kind \in kinds
Live(c) == c.call # None /\ ~c.call.finishing
Reading == Live(client) /\ ~Posted(client, {"read", "readFailed"})
Writing ==
    Live(client) /\ client.call.out # <<>> /\ ~Posted(client, {"written", "writeFailed"})
Complete(call, task) ==
    /\ client' = [client EXCEPT !.call = call, !.worker = Append(@, task)]
    /\ UNCHANGED <<auth, server, refused, outcome, faults>>

ReadCompletes ==
    /\ Reading /\ client.call.toClient # <<>>
    /\ Complete([client.call EXCEPT !.toClient = Tail(@)],
                [kind |-> "read", message |-> Head(client.call.toClient)])

(* A read fails when the call has ended and everything before has been read.   *)
ReadFails ==
    /\ Reading /\ client.call.toClient = <<>> /\ client.call.ended # "no"
    /\ Complete(client.call, [kind |-> "readFailed"])

(* If the call has ended, without the client knowing, the message is lost.     *)
WriteGoesOut ==
    /\ Writing
    /\ Complete(IF client.call.ended = "no"
                THEN [client.call EXCEPT !.toServer = Append(@, Head(client.call.out))]
                ELSE client.call,
                [kind |-> "written"])

(* A write fails as soon as the end of the call is known, while messages that   *)
(* came before the end may still wait to be read, one at a time.               *)
WriteFails ==
    /\ Writing /\ client.call.ended # "no"
    /\ ~(Reading /\ client.call.toClient # <<>>)
    /\ Complete(client.call, [kind |-> "writeFailed"])

(* The server takes the messages of a call in order.                           *)
Arrived(m) ==
    /\ client.call # None /\ client.call.ended = "no"
    /\ client.call.toServer # <<>> /\ Head(client.call.toServer) = m
Answer(m) ==
    client' = [client EXCEPT !.call.toServer = Tail(@), !.call.toClient = Append(@, m)]
End(status, heard) ==
    client' = [client EXCEPT !.call.toServer = <<>>, !.call.ended = status,
                             !.call.toClient = SubSeq(@, 1, heard)]

ServerGreets ==
    /\ Arrived(Handshake)
    /\ Answer(Handshake)
    /\ UNCHANGED <<auth, server, refused, outcome, faults>>

ServerApplies(b) ==
    /\ Arrived(b)
    /\ Answer(b)
    /\ server' = WithApplied(server, b)
    /\ UNCHANGED <<auth, refused, outcome, faults>>

(* A batch that the server refuses ends the call.                              *)
ServerRefuses(b) ==
    /\ Arrived(b)
    /\ End("permanent", Len(client.call.toClient))
    /\ refused' = refused \cup {b}
    /\ UNCHANGED <<auth, server, outcome, faults>>

-----------------------------------------------------------------------------
(* What disturbs the client.                                                  *)

Disturb ==
    /\ faults < MaxFaults
    /\ faults' = faults + 1

(* The connection breaks, or the server gives up with an error that is not      *)
(* permanent; answers on the way may be lost.                                  *)
CallBreaks ==
    /\ Disturb
    /\ client.call # None /\ client.call.ended = "no"
    /\ \E heard \in 0..Len(client.call.toClient) : End("transient", heard)
    /\ UNCHANGED <<auth, server, refused, outcome>>

HandshakeRefused ==
    /\ Disturb
    /\ Arrived(Handshake)
    /\ End("permanent", 0)
    /\ UNCHANGED <<auth, server, refused, outcome>>

TokenFails(r) ==
    /\ Disturb
    /\ r \in client.asking /\ r.user # None
    /\ client' = [client EXCEPT
         !.asking = @ \ {r},
         !.main = Append(@, [kind |-> "answer", request |-> [r EXCEPT !.user = None]])]
    /\ UNCHANGED <<auth, server, refused, outcome>>

(* The network comes back under another address, or the app asks for it.       *)
ConnectivityChanges ==
    /\ Disturb
    /\ client' = RestartIfEnabled(client)
    /\ UNCHANGED <<auth, server, refused, outcome>>

NetworkDisabled ==
    /\ Disturb
    /\ client.network
    /\ client' = DisableNetwork(client)
    /\ UNCHANGED <<auth, server, refused, outcome>>

(* Another account signs in, or the token of this one is refreshed.            *)
SignIn(u) ==
    /\ Disturb
    /\ auth' = u
    /\ client' = [client EXCEPT !.main = Append(@, [kind |-> "notify", user |-> u])]
    /\ UNCHANGED <<server, refused, outcome>>

ProcessDies ==
    /\ Disturb
    /\ client' = Launched(client.queue)
    /\ UNCHANGED <<auth, server, refused, outcome>>

-----------------------------------------------------------------------------
WorkerStep ==
    \/ HandshakeComplete \/ MutationResult \/ WriteDone \/ OperationFailed \/ Finished
    \/ NothingToDo \/ TokenArrives \/ AccountChanges
MainStep == AnswerToken \/ Notified
AuthStep == \E r \in client.asking : LookUp(r) \/ TokenFetched(r)
ServerStep == ServerGreets \/ \E b \in BatchIds : ServerApplies(b) \/ ServerRefuses(b)

Next ==
    \/ \E b \in BatchIds : Write(b)
    \/ WorkerStep \/ BackoffElapses \/ IdleElapses \/ NetworkEnabled
    \/ MainStep \/ AuthStep
    \/ ReadCompletes \/ ReadFails \/ WriteGoesOut \/ WriteFails
    \/ ServerStep
    \/ CallBreaks \/ HandshakeRefused \/ ConnectivityChanges \/ NetworkDisabled \/ ProcessDies
    \/ \E r \in client.asking : TokenFails(r)
    \/ \E u \in Users : SignIn(u)

Spec == Init /\ [][Next]_vars

(* Both queues are worked off, timers elapse, gRPC completes what is under way,  *)
(* FirebaseAuth and the server answer.                                         *)
Fairness ==
    /\ WF_vars(WorkerStep) /\ WF_vars(MainStep) /\ WF_vars(AuthStep)
    /\ WF_vars(ReadCompletes \/ ReadFails) /\ WF_vars(WriteGoesOut \/ WriteFails)
    /\ WF_vars(ServerStep) /\ WF_vars(BackoffElapses)

FairSpec == Spec /\ Fairness

-----------------------------------------------------------------------------
(* Properties.                                                                *)

(* No HARD_ASSERT on the way of a write fails, each of which would end the app. *)
AssertionsHold == client.asserted

(* A call brings to the server only batches of the account whose token it bears, *)
(* although the account, the queue and the token change in three places.       *)
OwnCredentials ==
    client.call # None =>
        \A messages \in {client.call.out, client.call.toServer} :
            \A i \in DOMAIN messages :
                messages[i] # Handshake => Author[messages[i]] = client.call.user

(* The message that has been read and waits on the worker queue.               *)
Read(c) ==
    IF Posted(c, {"read"})
    THEN <<c.worker[CHOOSE i \in DOMAIN c.worker : c.worker[i].kind = "read"].message>>
    ELSE <<>>

(* The answers that will still reach the client.                               *)
Coming(c) == Read(c) \o c.call.toClient

(* The head of out is still there while its completion waits.                  *)
Unwritten(c) ==
    IF Posted(c, {"written", "writeFailed"}) THEN Tail(c.call.out) ELSE c.call.out

(* While a call is sound, its answers, requests and unwritten messages are       *)
(* together the pipeline, in order: this is why the result of a batch, which    *)
(* does not name it, may be taken for that of the first one.                   *)
InFlightIsPipeline ==
    Live(client) /\ client.handshake /\ client.call.ended = "no" =>
        Coming(client) \o client.call.toServer \o Unwritten(client) = client.pipeline

(* The idle timer never runs while a write of the account waits.               *)
IdleOnlyWhenDrained == client.idle => client.queue[client.user] = <<>>

Answers(c, u) ==
    IF c.user = u /\ c.handshake /\ Live(c) THEN Len(Coming(c)) ELSE 0

Promise == INSTANCE WriteQueue WITH
    queue <- client.queue, unheard <- [u \in Users |-> Answers(client, u)]

(* Refinement: whatever streams, calls and accounts do, the app sees queues      *)
(* that are answered at the head and applied in order, at least once.          *)
KeepsPromise == Promise!Spec

(* What the app is told is true, and in order (see WriteQueue).                 *)
AcknowledgedInOrder == Promise!AcknowledgedInOrder

(* A write that is reported as failed is one that the server has refused.       *)
RejectedWereRefused == \A b \in BatchIds : outcome[b] = "error" => b \in refused

(* All writes of the account that stays signed in are answered, if the network  *)
(* stays enabled.                                                              *)
WritesAreAnswered ==
    \A u \in Users :
        <>[](client.user = u /\ client.network) => <>[](client.queue[u] = <<>>)
=============================================================================
