------------------------ MODULE FavoritesSerialProofs ------------------------
(***************************************************************************)
(* Where tap windows do not overlap, the favourite buttons of an account   *)
(* implement FavoriteSet, and the cache of a single device can be trusted, *)
(* for every number of devices, screens, cells, spots and taps.            *)
(***************************************************************************)
EXTENDS FavoritesSerial, FavoritesProofs

-----------------------------------------------------------------------------
(* The overlay of a queue over a document.                                    *)

HasArray(q) == \E i \in DOMAIN q : q[i].data.state = "array"

LEMMA OverlayPlain ==
    ASSUME NEW doc, NEW q, ~HasArray(q) \/ doc.state = "missing"
    PROVE  Overlay(doc, q) = doc
BY DEF Overlay, HasArray, IsLastAssignment

(* The last array decides, and there is only one last.                        *)
LEMMA OverlayLast ==
    ASSUME NEW doc, NEW q \in Seq(Writes), NEW i \in DOMAIN q, IsLastAssignment(q, i),
           doc.state # "missing"
    PROVE  Overlay(doc, q) = q[i].data
<1> DEFINE j == CHOOSE k \in DOMAIN q : IsLastAssignment(q, k)
<1>1. j \in DOMAIN q /\ IsLastAssignment(q, j)
  OBVIOUS
<1>2. Overlay(doc, q) = q[j].data
  BY DEF Overlay
<1> HIDE DEF j
<1>3. DOMAIN q = 1..Len(q) /\ Len(q) \in Nat
  OBVIOUS
<1>4. ~(j > i) /\ ~(i > j)
  BY <1>1 DEF IsLastAssignment
<1>5. i = j
  BY <1>1, <1>3, <1>4
<1> QED
  BY <1>2, <1>5

LEMMA OverlayArray ==
    ASSUME NEW q \in Seq(Writes), HasArray(q)
    PROVE  \E data \in Documents :
              data.state = "array" /\ \A doc : doc.state # "missing" => Overlay(doc, q) = data
<1>1. PICK i \in DOMAIN q : IsLastAssignment(q, i)
  BY LastAssignmentExists DEF HasArray
<1>2. q[i] \in Writes
  BY <1>1
<1>3. q[i].data \in Documents /\ q[i].data.state = "array"
  BY <1>1, <1>2 DEF Writes, IsLastAssignment
<1>4. \A doc : doc.state # "missing" => Overlay(doc, q) = q[i].data
  BY <1>1, OverlayLast
<1> QED
  BY <1>3, <1>4

(* A write at the end of the queue decides, or is not noticed.                *)
LEMMA OverlayAppend ==
    ASSUME NEW doc, NEW q \in Seq(Writes), NEW w \in Writes, doc.state # "missing"
    PROVE  Overlay(doc, Append(q, w)) =
              IF w.data.state = "array" THEN w.data ELSE Overlay(doc, q)
<1> DEFINE r == Append(q, w)
           n == Len(q)
<1>1. /\ r \in Seq(Writes) /\ n \in Nat /\ DOMAIN r = 1..(n + 1) /\ DOMAIN q = 1..n
      /\ r[n + 1] = w /\ \A i \in 1..n : r[i] = q[i]
  OBVIOUS
<1> HIDE DEF r, n
<1>2. CASE w.data.state = "array"
  <2>1. n + 1 \in DOMAIN r /\ IsLastAssignment(r, n + 1)
    BY <1>1, <1>2 DEF IsLastAssignment
  <2>2. Overlay(doc, r) = r[n + 1].data
    BY <1>1, <2>1, OverlayLast
  <2> QED
    BY <1>1, <1>2, <2>2 DEF r
<1>3. CASE w.data.state # "array" /\ HasArray(q)
  <2>1. PICK i \in DOMAIN q : IsLastAssignment(q, i)
    BY <1>3, LastAssignmentExists DEF HasArray
  <2>2. i \in DOMAIN r /\ r[i] = q[i]
    BY <1>1, <2>1
  <2>3. IsLastAssignment(r, i)
    <3> SUFFICES ASSUME NEW j \in DOMAIN r, j > i
                 PROVE  r[j].data.state # "array"
      BY <2>1, <2>2 DEF IsLastAssignment
    <3>1. CASE j \in DOMAIN q
      BY <1>1, <2>1, <3>1 DEF IsLastAssignment
    <3>2. CASE j \notin DOMAIN q
      BY <1>1, <1>3, <3>2
    <3> QED
      BY <3>1, <3>2
  <2>4. Overlay(doc, q) = q[i].data /\ Overlay(doc, r) = r[i].data
    BY <1>1, <2>1, <2>2, <2>3, OverlayLast
  <2> QED
    BY <1>3, <2>2, <2>4 DEF r
<1>4. CASE w.data.state # "array" /\ ~HasArray(q)
  <2>1. ~HasArray(r)
    BY <1>1, <1>4 DEF HasArray
  <2> QED
    BY <1>4, <2>1, OverlayPlain DEF r
<1> QED
  BY <1>2, <1>3, <1>4

(* The first write goes: it matters only when it is the last array.           *)
LEMMA OverlayTail ==
    ASSUME NEW doc, NEW q \in Seq(Writes), q # <<>>,
           Head(q).data.state = "array" => doc = Head(q).data
    PROVE  Overlay(doc, Tail(q)) = Overlay(doc, q)
<1> DEFINE r == Tail(q)
           n == Len(q)
<1>1. /\ r \in Seq(Writes) /\ n \in Nat \ {0} /\ DOMAIN q = 1..n /\ DOMAIN r = 1..(n - 1)
      /\ Head(q) = q[1] /\ \A i \in 1..(n - 1) : r[i] = q[i + 1]
  OBVIOUS
<1> HIDE DEF r, n
<1>2. CASE doc.state = "missing"
  BY <1>2, OverlayPlain DEF r
<1>3. CASE doc.state # "missing" /\ HasArray(r)
  <2>1. PICK i \in DOMAIN r : IsLastAssignment(r, i)
    BY <1>1, <1>3, LastAssignmentExists DEF HasArray
  <2>2. i + 1 \in DOMAIN q /\ r[i] = q[i + 1]
    BY <1>1, <2>1
  <2>3. IsLastAssignment(q, i + 1)
    <3> SUFFICES ASSUME NEW j \in DOMAIN q, j > i + 1
                 PROVE  q[j].data.state # "array"
      BY <2>1, <2>2 DEF IsLastAssignment
    <3>1. j - 1 \in DOMAIN r /\ j - 1 > i /\ r[j - 1] = q[j]
      BY <1>1, <2>1
    <3> QED
      BY <2>1, <3>1 DEF IsLastAssignment
  <2>4. Overlay(doc, q) = q[i + 1].data /\ Overlay(doc, r) = r[i].data
    BY <1>1, <1>3, <2>1, <2>2, <2>3, OverlayLast
  <2> QED
    BY <2>2, <2>4 DEF r
<1>4. CASE doc.state # "missing" /\ ~HasArray(r) /\ Head(q).data.state = "array"
  <2>1. 1 \in DOMAIN q /\ IsLastAssignment(q, 1)
    <3> SUFFICES ASSUME NEW j \in DOMAIN q, j > 1
                 PROVE  q[j].data.state # "array"
      BY <1>1, <1>4 DEF IsLastAssignment
    <3>1. j - 1 \in DOMAIN r /\ r[j - 1] = q[j]
      BY <1>1
    <3> QED
      BY <1>4, <3>1 DEF HasArray
  <2>2. Overlay(doc, q) = doc
    BY <1>1, <1>4, <2>1, OverlayLast
  <2> QED
    BY <1>4, <2>2, OverlayPlain DEF r
<1>5. CASE ~HasArray(r) /\ Head(q).data.state # "array"
  <2>1. ~HasArray(q)
    <3> SUFFICES ASSUME NEW j \in DOMAIN q
                 PROVE  q[j].data.state # "array"
      BY DEF HasArray
    <3>1. CASE j = 1
      BY <1>1, <1>5, <3>1
    <3>2. CASE j # 1
      <4>1. j - 1 \in DOMAIN r /\ r[j - 1] = q[j]
        BY <1>1, <3>2
      <4> QED
        BY <1>5, <4>1 DEF HasArray
    <3> QED
      BY <3>1, <3>2
  <2> QED
    BY <1>5, <2>1, OverlayPlain DEF r
<1> QED
  BY <1>2, <1>3, <1>4, <1>5

(* Nor is it noticed when the server applies it.                              *)
LEMMA OverlayPatch ==
    ASSUME NEW doc \in Documents, NEW q \in Seq(Writes), q # <<>>, doc.state # "missing"
    PROVE  Overlay(Patch(doc, Head(q).data), q) = Overlay(doc, q)
<1>1. 1 \in DOMAIN q /\ Head(q) = q[1]
  OBVIOUS
<1>2. CASE Head(q).data.state = "array"
  <2>1. HasArray(q)
    BY <1>1, <1>2 DEF HasArray
  <2>2. Patch(doc, Head(q).data).state # "missing"
    BY <1>2 DEF Patch
  <2> QED
    BY <2>1, <2>2, OverlayArray
<1>3. CASE Head(q).data.state # "array"
  BY <1>3 DEF Patch
<1> QED
  BY <1>2, <1>3

LEMMA OverlayCallbacks ==
    ASSUME NEW doc, NEW q \in Seq(Writes)
    PROVE  /\ Overlay(doc, WithoutCallbacks(q)) = Overlay(doc, q)
           /\ HasArray(WithoutCallbacks(q)) <=> HasArray(q)
<1> DEFINE r == WithoutCallbacks(q)
<1>1. /\ r \in Seq(Writes) /\ DOMAIN r = DOMAIN q
      /\ \A i \in DOMAIN q : r[i].data = q[i].data
  BY WithoutCallbacksType
<1> HIDE DEF r
<1>2. HasArray(r) <=> HasArray(q)
  BY <1>1 DEF HasArray
<1>3. CASE ~HasArray(q) \/ doc.state = "missing"
  BY <1>2, <1>3, OverlayPlain DEF r
<1>4. CASE HasArray(q) /\ doc.state # "missing"
  <2>1. PICK i \in DOMAIN q : IsLastAssignment(q, i)
    BY <1>4, LastAssignmentExists DEF HasArray
  <2>2. IsLastAssignment(r, i)
    BY <1>1, <2>1 DEF IsLastAssignment
  <2> QED
    BY <1>1, <1>2, <1>4, <2>1, <2>2, OverlayLast DEF r
<1> QED
  BY <1>2, <1>3, <1>4 DEF r

-----------------------------------------------------------------------------
(* What a step does to the documents and the queues.                          *)

Idle == UNCHANGED <<document, cache, pending, stage>>

(* A read was answered by the server.                                         *)
Fetched(d) ==
    /\ cache' = [cache EXCEPT ![d] = document]
    /\ stage' = [stage EXCEPT ![d] = IF @ = "applied" THEN "seen" ELSE @]
    /\ UNCHANGED <<document, pending>>

(* The tap of t wrote.                                                        *)
Queued(t) ==
    /\ closure[t].phase = "answered" /\ closure[t].kind # "load"
    /\ \E data \in Documents : UpdateData(t, data)
    /\ UNCHANGED <<document, cache, stage>>

LEMMA DataSteps ==
    ASSUME TypeInv, Next, ~\E d \in Devices : Reject(d)
    PROVE  \/ Idle
           \/ \E d \in Devices : Fetched(d)
           \/ \E t \in Closures : Queued(t)
           \/ \E d \in Devices : Commit(d) \/ LoseAck(d) \/ Acknowledge(d) \/ Restart(d)
<1>1. ASSUME NEW t \in Closures, Answer(t)
      PROVE  Idle \/ \E d \in Devices : Fetched(d)
  <2>1. CASE AnswerFromServer(t)
    <3>1. closure[t].screen # None
      BY <2>1 DEF AnswerFromServer, TypeInv, ClosuresBound
    <3>2. DeviceFor(t) \in Devices
      BY <3>1, DeviceForType DEF TypeInv
    <3> QED
      BY <2>1, <3>2 DEF AnswerFromServer, Fetched
  <2>2. CASE AnswerFromCache(t) \/ AnswerWithError(t)
    BY <2>2 DEF AnswerFromCache, AnswerWithError, Idle
  <2> QED
    BY <1>1, <2>1, <2>2 DEF Answer
<1>2. ASSUME NEW t \in Closures, AddCallback(t) \/ RemoveCallback(t)
      PROVE  Idle \/ Queued(t)
  <2> DEFINE answer == closure[t].answer
  <2>1. /\ closure[t] \in ClosureRecords /\ answer \in Answers
        /\ closure[t].phase = "answered" /\ closure[t].kind # "load"
        /\ document' = document /\ cache' = cache /\ stage' = stage
    BY <1>2 DEF AddCallback, RemoveCallback, Callback, TypeInv, TypeOK, ClosureRecords
  <2>2. Shown(t) \in Spots
    BY <2>1, ShownType DEF TypeInv, InFlight, Terminal
  <2>3. CASE pending' = pending
    BY <2>1, <2>3 DEF Idle
  <2>4. CASE AddCallback(t) /\ UpdateData(t, AddData(answer, Shown(t)))
    <3>1. AddData(answer, Shown(t)) \in Documents
      BY <2>1, <2>2, AddDataType
    <3> QED
      BY <2>1, <2>4, <3>1 DEF Queued
  <2>5. CASE /\ RemoveCallback(t) /\ Contains(answer.ids, Shown(t))
             /\ UpdateData(t, RemoveData(answer, Shown(t)))
    <3>1. RemoveData(answer, Shown(t)) \in Documents
      BY <2>1, <2>2, <2>5, RemoveDataType
    <3> QED
      BY <2>1, <2>5, <3>1 DEF Queued
  <2> QED
    BY <1>2, <2>3, <2>4, <2>5 DEF AddCallback, RemoveCallback
<1>3. UserStep => Idle
  BY DEF UserStep, Open, TapAdd, TapRemove, ScrollOff, Idle
<1>4. ScreenStep => Idle
  BY DEF ScreenStep, SpotArrives, SpotAbsent, FavoriteSpotNotified, CityNotified, Configure, Idle
<1>5. ASSUME NEW t \in Closures, MainQueueStep(t), ~AddCallback(t), ~RemoveCallback(t)
      PROVE  Idle
  BY <1>5 DEF MainQueueStep, LoadCallback, AddCompletion, CityRemoveCompletion,
     FavoritesRemoveCompletion, ReloadBlock, Idle
<1> QED
  BY <1>1, <1>2, <1>3, <1>4, <1>5 DEF Next, FirestoreStep

-----------------------------------------------------------------------------
(* What holds where tap windows do not overlap.                               *)

OneWriter ==
    \A d, e \in Devices : pending[d] # <<>> /\ pending[e] # <<>> => d = e

(* The server has the write that it has applied and not yet acknowledged.      *)
Applied ==
    \A d \in Devices :
        stage[d] # "waiting" /\ Head(pending[d]).data.state = "array"
            => document = Head(pending[d]).data

(* A device that is alone: its cache lags behind the server by pending writes.  *)
CacheSound ==
    \A d \in Devices :
        /\ cache[d] # Missing => cache[d].state # "missing" /\ document.state # "missing"
        /\ stage[d] = "seen" => cache[d] = document
        /\ cache[d] # Missing /\ ~HasArray(pending[d]) => cache[d] = document

SerialInv ==
    /\ TypeInv /\ CopiesWellFormed
    /\ WindowsApart /\ CellsKept
    /\ OneWriter /\ Applied
    /\ OneDevice => CacheSound

(* The queues after a step.                                                   *)
LEMMA QueuedFacts ==
    ASSUME SerialInv, NEW t \in Closures, Queued(t)
    PROVE  /\ DeviceFor(t) \in Devices
           /\ InWindow(t)
           /\ \A e \in Devices : e # DeviceFor(t) => pending[e] = <<>> /\ pending'[e] = <<>>
           /\ \E w \in Writes : pending'[DeviceFor(t)] = Append(pending[DeviceFor(t)], w)
<1> DEFINE d == DeviceFor(t)
<1>1. d \in Devices
  BY DeviceForType DEF SerialInv, TypeInv, ClosuresBound, Queued
<1>2. InWindow(t)
  BY DEF Queued, InWindow
<1>3. PICK data \in Documents : UpdateData(t, data)
  BY DEF Queued
<1> DEFINE w == [data |-> data, callback |-> t]
<1>4. w \in Writes
  BY DEF Writes
<1>5. pending' = [pending EXCEPT ![d] = Append(pending[d], w)]
  BY <1>3 DEF UpdateData
<1>6. \A e \in Devices : e # d => pending[e] = <<>>
  BY <1>2 DEF SerialInv, WindowsApart
<1>7. pending \in [Devices -> Seq(Writes)]
  BY DEF SerialInv, TypeInv, TypeOK
<1> HIDE DEF d, w
<1>8. pending'[d] = Append(pending[d], w) /\ \A e \in Devices : e # d => pending'[e] = pending[e]
  BY <1>1, <1>5, <1>7
<1> QED
  BY <1>1, <1>2, <1>4, <1>6, <1>8 DEF d

LEMMA QueueFacts ==
    ASSUME TypeInv, NEW d \in Devices
    PROVE  /\ pending \in [Devices -> Seq(Writes)] /\ pending[d] \in Seq(Writes)
           /\ document \in Documents /\ cache[d] \in Documents
           /\ cache \in [Devices -> Documents]
           /\ stage \in [Devices -> {"waiting", "applied", "seen"}]
           /\ stage[d] # "waiting" => pending[d] # <<>>
           /\ pending[d] # <<>> => Head(pending[d]) \in Writes /\ Head(pending[d]).data \in Documents
<1>1. /\ pending \in [Devices -> Seq(Writes)] /\ document \in Documents
      /\ cache \in [Devices -> Documents] /\ stage \in [Devices -> {"waiting", "applied", "seen"}]
      /\ stage[d] # "waiting" => pending[d] # <<>>
  BY DEF TypeInv, TypeOK, StageFollowsQueue
<1>2. pending[d] # <<>> => Head(pending[d]) \in Writes
  BY <1>1
<1> QED
  BY <1>1, <1>2 DEF Writes

LEMMA RestartFacts ==
    ASSUME TypeInv, NEW d \in Devices, Restart(d)
    PROVE  \A e \in Devices :
              /\ pending[e] = <<>> => pending'[e] = <<>>
              /\ \A doc : Overlay(doc, pending'[e]) = Overlay(doc, pending[e])
<1> SUFFICES ASSUME NEW e \in Devices
             PROVE  /\ pending[e] = <<>> => pending'[e] = <<>>
                    /\ \A doc : Overlay(doc, pending'[e]) = Overlay(doc, pending[e])
  OBVIOUS
<1>1. pending' = [pending EXCEPT ![d] = WithoutCallbacks(pending[d])]
  BY DEF Restart
<1>2. pending \in [Devices -> Seq(Writes)] /\ pending[d] \in Seq(Writes)
  BY QueueFacts
<1>3. CASE e = d
  <2> DEFINE r == WithoutCallbacks(pending[d])
  <2>1. r \in Seq(Writes) /\ DOMAIN r = DOMAIN pending[d]
    BY <1>2, WithoutCallbacksType
  <2>2. pending'[e] = r
    BY <1>1, <1>2, <1>3
  <2>3. pending[d] = <<>> => DOMAIN pending[d] = {}
    OBVIOUS
  <2>4. \A doc : Overlay(doc, r) = Overlay(doc, pending[d])
    BY <1>2, OverlayCallbacks
  <2> HIDE DEF r
  <2>5. pending[d] = <<>> => r = <<>>
    BY <2>1, <2>3
  <2> QED
    BY <1>3, <2>2, <2>4, <2>5
<1>4. CASE e # d
  BY <1>1, <1>2, <1>4
<1> QED
  BY <1>3, <1>4

LEMMA OneWriterStep ==
    ASSUME SerialInv, Next, ~\E d \in Devices : Reject(d)
    PROVE  OneWriter'
<1>1. CASE \A e \in Devices : pending[e] = <<>> => pending'[e] = <<>>
  BY <1>1 DEF SerialInv, OneWriter
<1>2. ASSUME NEW t \in Closures, Queued(t)
      PROVE  OneWriter'
  BY <1>2, QueuedFacts DEF OneWriter
<1>3. ASSUME NEW d \in Devices, Acknowledge(d)
      PROVE  \A e \in Devices : pending[e] = <<>> => pending'[e] = <<>>
  <2>1. pending[d] # <<>> /\ pending' = [pending EXCEPT ![d] = Tail(pending[d])]
    BY <1>3, QueueFacts DEF Acknowledge, SerialInv
  <2>2. pending \in [Devices -> Seq(Writes)]
    BY QueueFacts DEF SerialInv
  <2> QED
    BY <2>1, <2>2
<1>4. ASSUME NEW d \in Devices, Restart(d)
      PROVE  \A e \in Devices : pending[e] = <<>> => pending'[e] = <<>>
  BY <1>4, RestartFacts DEF SerialInv
<1>5. Idle \/ (\E d \in Devices : Fetched(d) \/ Commit(d) \/ LoseAck(d)) => pending' = pending
  BY DEF Idle, Fetched, Commit, LoseAck
<1> QED
  BY <1>1, <1>2, <1>3, <1>4, <1>5, DataSteps DEF SerialInv

LEMMA AppliedStep ==
    ASSUME SerialInv, Next, ~\E d \in Devices : Reject(d)
    PROVE  Applied'
<1>1. CASE Idle
  BY <1>1 DEF Idle, SerialInv, Applied
<1>2. ASSUME NEW d \in Devices, Fetched(d)
      PROVE  Applied'
  <2>1. \A e \in Devices : stage'[e] # "waiting" => stage[e] # "waiting"
    BY <1>2, QueueFacts DEF Fetched, SerialInv
  <2> QED
    BY <1>2, <2>1 DEF Fetched, SerialInv, Applied
<1>3. ASSUME NEW t \in Closures, Queued(t)
      PROVE  Applied'
  <2> SUFFICES ASSUME NEW e \in Devices, stage[e] # "waiting"
               PROVE  Head(pending'[e]) = Head(pending[e])
    BY <1>3 DEF Queued, SerialInv, Applied
  <2>1. pending[e] # <<>> /\ pending[e] \in Seq(Writes)
    BY QueueFacts DEF SerialInv
  <2>2. e = DeviceFor(t)
    BY <1>3, <2>1, QueuedFacts
  <2>3. PICK w \in Writes : pending'[e] = Append(pending[e], w)
    BY <1>3, <2>2, QueuedFacts
  <2> QED
    BY <2>1, <2>3
<1>4. ASSUME NEW d \in Devices, Commit(d)
      PROVE  Applied'
  <2> SUFFICES ASSUME NEW e \in Devices, stage'[e] # "waiting",
                      Head(pending[e]).data.state = "array"
               PROVE  document' = Head(pending[e]).data
    BY <1>4 DEF Commit, Applied
  <2>1. /\ document' = Patch(document, Head(pending[d]).data) /\ document.state # "missing"
        /\ pending[d] # <<>> /\ stage' = [stage EXCEPT ![d] = "applied"]
    BY <1>4 DEF Commit
  <2>2. e # d => stage[e] # "waiting"
    BY <2>1, QueueFacts DEF SerialInv
  <2>3. e # d => pending[e] # <<>>
    BY <2>2, QueueFacts DEF SerialInv
  <2>4. e = d
    BY <2>1, <2>3 DEF SerialInv, OneWriter
  <2> QED
    BY <2>1, <2>4 DEF Patch
<1>5. ASSUME NEW d \in Devices, LoseAck(d)
      PROVE  Applied'
  <2>1. \A e \in Devices : stage'[e] # "waiting" => stage[e] # "waiting"
    BY <1>5, QueueFacts DEF LoseAck, SerialInv
  <2> QED
    BY <1>5, <2>1 DEF LoseAck, SerialInv, Applied
<1>6. ASSUME NEW d \in Devices, Acknowledge(d) \/ Restart(d)
      PROVE  Applied'
  <2>1. /\ document' = document /\ stage' = [stage EXCEPT ![d] = "waiting"]
        /\ \A e \in Devices : e # d => pending'[e] = pending[e]
    BY <1>6, QueueFacts DEF Acknowledge, Restart, SerialInv
  <2>2. \A e \in Devices : stage'[e] # "waiting" => e # d /\ stage[e] # "waiting"
    BY <2>1, QueueFacts DEF SerialInv
  <2> QED
    BY <2>1, <2>2 DEF SerialInv, Applied
<1> QED
  BY <1>1, <1>2, <1>3, <1>4, <1>5, <1>6, DataSteps DEF SerialInv

(* The cache of a device that is alone lags behind the server by the writes    *)
(* that it has itself under way.                                              *)
LEMMA CacheSoundStep ==
    ASSUME SerialInv, Next, ~\E d \in Devices : Reject(d), OneDevice
    PROVE  CacheSound'
<1> SUFFICES ASSUME NEW d \in Devices
             PROVE  CacheSound!(d)'
  BY DEF CacheSound
<1>1. \A e \in Devices : e = d
  BY DEF OneDevice
<1>2. /\ pending \in [Devices -> Seq(Writes)] /\ pending[d] \in Seq(Writes)
      /\ document \in Documents /\ cache[d] \in Documents
      /\ cache \in [Devices -> Documents]
      /\ stage \in [Devices -> {"waiting", "applied", "seen"}]
      /\ stage[d] # "waiting" => pending[d] # <<>>
      /\ pending[d] # <<>> => Head(pending[d]) \in Writes /\ Head(pending[d]).data \in Documents
  BY QueueFacts DEF SerialInv
<1>3. /\ cache[d] # Missing => cache[d].state # "missing" /\ document.state # "missing"
      /\ stage[d] = "seen" => cache[d] = document
      /\ cache[d] # Missing /\ ~HasArray(pending[d]) => cache[d] = document
      /\ stage[d] # "waiting" /\ Head(pending[d]).data.state = "array"
            => document = Head(pending[d]).data
  BY DEF SerialInv, CacheSound, Applied
<1>4. document # Missing => document.state # "missing"
  <2>1. WellFormed(document)
    BY DEF SerialInv, CopiesWellFormed
  <2> QED
    BY <1>2, <2>1 DEF WellFormed, Documents, Missing
<1>5. CASE Idle
  BY <1>3, <1>5 DEF Idle
<1>6. CASE Fetched(d)
  <2>1. cache'[d] = document /\ document' = document
    BY <1>2, <1>6 DEF Fetched
  <2> QED
    BY <1>4, <2>1
<1>7. ASSUME NEW t \in Closures, Queued(t)
      PROVE  CacheSound!(d)'
  <2>1. /\ document' = document /\ cache' = cache /\ stage' = stage
        /\ d = DeviceFor(t)
    BY <1>1, <1>7, QueuedFacts DEF Queued
  <2>2. PICK w \in Writes : pending'[d] = Append(pending[d], w)
    BY <1>7, <2>1, QueuedFacts
  <2>3. HasArray(pending[d]) => HasArray(pending'[d])
    <3> DEFINE q == pending[d]
               r == pending'[d]
    <3>1. \A i \in DOMAIN q : i \in DOMAIN r /\ r[i] = q[i]
      BY <1>2, <2>2
    <3> HIDE DEF q, r
    <3>2. HasArray(q) => HasArray(r)
      BY <3>1 DEF HasArray
    <3> QED
      BY <3>2 DEF q, r
  <2> QED
    BY <1>3, <2>1, <2>3
<1>8. CASE Commit(d)
  <2>1. /\ document' = Patch(document, Head(pending[d]).data) /\ document.state # "missing"
        /\ pending[d] # <<>> /\ stage'[d] = "applied" /\ cache' = cache /\ pending' = pending
    BY <1>2, <1>8 DEF Commit
  <2>2. document'.state # "missing"
    BY <2>1 DEF Patch
  <2>3. ~HasArray(pending[d]) => document' = document
    <3>1. 1 \in DOMAIN pending[d] /\ Head(pending[d]) = pending[d][1]
      BY <1>2, <2>1
    <3> QED
      BY <2>1, <3>1 DEF HasArray, Patch
  <2> QED
    BY <1>3, <2>1, <2>2, <2>3
<1>9. CASE LoseAck(d)
  <2>1. stage'[d] = "waiting"
    BY <1>2, <1>9 DEF LoseAck
  <2> QED
    BY <1>3, <1>9, <2>1 DEF LoseAck
<1>10. CASE Acknowledge(d)
  <2> DEFINE q == pending[d]
             data == Head(q).data
  <2>1. /\ document' = document /\ stage[d] # "waiting" /\ stage'[d] = "waiting"
        /\ q # <<>> /\ pending'[d] = Tail(q)
        /\ cache'[d] = IF stage[d] = "seen" THEN cache[d] ELSE Patch(cache[d], data)
    BY <1>2, <1>10 DEF Acknowledge
  <2>2. Patch(Missing, data) = Missing
    BY DEF Patch, Missing
  <2>3. cache'[d] # Missing => cache[d] # Missing
    BY <2>1, <2>2
  <2>4. cache[d] # Missing => cache'[d].state # "missing" /\ document.state # "missing"
    BY <1>3, <2>1 DEF Patch
  <2>5. ~HasArray(Tail(q)) /\ data.state # "array" => ~HasArray(q)
    <3>1. q \in Seq(Writes) /\ q # <<>>
      BY <1>2, <2>1
    <3>2. \A i \in DOMAIN q : i = 1 \/ (i - 1 \in DOMAIN Tail(q) /\ Tail(q)[i - 1] = q[i])
      <4> HIDE DEF q
      <4> QED
        BY <3>1
    <3>3. Head(q) = q[1]
      BY <3>1
    <3> HIDE DEF q
    <3> QED
      BY <3>2, <3>3 DEF HasArray
  <2>6. cache[d] # Missing /\ ~HasArray(Tail(q)) => cache'[d] = document
    <3> SUFFICES ASSUME cache[d] # Missing, ~HasArray(Tail(q))
                 PROVE  cache'[d] = document
      OBVIOUS
    <3>1. CASE stage[d] = "seen"
      BY <1>3, <2>1, <3>1
    <3>2. CASE stage[d] # "seen" /\ data.state = "array"
      <4>1. document = data /\ cache[d].state # "missing"
        BY <1>3, <2>1, <3>2
      <4> QED
        BY <2>1, <3>2, <4>1 DEF Patch
    <3>3. CASE stage[d] # "seen" /\ data.state # "array"
      <4>1. cache[d] = document
        BY <1>3, <2>5, <3>3
      <4> QED
        BY <2>1, <3>3, <4>1 DEF Patch
    <3> QED
      BY <3>1, <3>2, <3>3
  <2> QED
    BY <2>1, <2>3, <2>4, <2>6
<1>11. CASE Restart(d)
  <2>1. /\ document' = document /\ cache' = cache /\ stage'[d] = "waiting"
        /\ pending'[d] = WithoutCallbacks(pending[d])
    BY <1>2, <1>11 DEF Restart
  <2>2. pending[d] \in Seq(Writes)
    BY <1>2
  <2>3. HasArray(pending'[d]) <=> HasArray(pending[d])
    <3> HIDE DEF HasArray
    <3> QED
      BY <2>1, <2>2, OverlayCallbacks, SMTT(30)
  <2> QED
    BY <1>3, <2>1, <2>3
<1> QED
  BY <1>1, <1>5, <1>6, <1>7, <1>8, <1>9, <1>10, <1>11, DataSteps DEF SerialInv

LEMMA SerialInit == Init => SerialInv
<1> SUFFICES ASSUME Init PROVE SerialInv
  OBVIOUS
<1>1. TypeInv /\ CopiesWellFormed
  BY InitType, InitWellFormed
<1>2. \A t \in Closures : ~InWindow(t)
  BY DEF Init, InWindow, Unused
<1>3. WindowsApart /\ CellsKept
  BY <1>2 DEF WindowsApart, CellsKept
<1>4. OneWriter /\ Applied
  BY DEF Init, OneWriter, Applied
<1>5. CacheSound
  BY DEF Init, CacheSound
<1> QED
  BY <1>1, <1>3, <1>4, <1>5 DEF SerialInv

LEMMA SerialNext == SerialInv /\ [Next /\ Serial]_vars => SerialInv'
<1> SUFFICES ASSUME SerialInv, [Next /\ Serial]_vars
             PROVE  SerialInv'
  OBVIOUS
<1>1. (TypeInv /\ CopiesWellFormed)'
  BY NextWellFormed DEF SerialInv
<1>2. CASE Next /\ Serial
  <2>1. ~\E d \in Devices : Reject(d)
    BY <1>2 DEF Serial
  <2>2. (WindowsApart /\ CellsKept)'
    BY <1>2 DEF Serial
  <2>3. OneDevice' <=> OneDevice
    BY DEF OneDevice
  <2> QED
    BY <1>1, <1>2, <2>1, <2>2, <2>3, OneWriterStep, AppliedStep, CacheSoundStep DEF SerialInv
<1>3. CASE UNCHANGED vars
  <2>1. (WindowsApart /\ CellsKept)'
    BY <1>3 DEF vars, SerialInv, WindowsApart, CellsKept, InWindow, DeviceFor, Shown
  <2>2. (OneWriter /\ Applied)'
    BY <1>3 DEF vars, SerialInv, OneWriter, Applied
  <2>3. OneDevice' => CacheSound'
    BY <1>3 DEF vars, SerialInv, OneDevice, CacheSound
  <2> QED
    BY <1>1, <2>1, <2>2, <2>3 DEF SerialInv
<1> QED
  BY <1>2, <1>3

(* A device that has the account to itself can trust its cache: what lies       *)
(* between the cached document and the server's is among its pending writes,    *)
(* and the last of these decides for both.  It must be known which write the    *)
(* server has applied already, for the acknowledgement patches the cache unless *)
(* a read has brought the newer version; and a refused write would leave the    *)
(* two apart for good, which is why none is refused here.                      *)
THEOREM CachesCanBeTrusted == SerialSpec => []CacheAgrees
<1>1. SerialInv => CacheAgrees
  <2> SUFFICES ASSUME SerialInv, OneDevice, NEW d \in Devices, cache[d] # Missing
               PROVE  Overlay(cache[d], pending[d]) = Overlay(document, pending[d])
    BY DEF CacheAgrees
  <2>1. /\ cache[d].state # "missing" /\ document.state # "missing"
        /\ ~HasArray(pending[d]) => cache[d] = document
    BY DEF SerialInv, CacheSound
  <2>2. HasArray(pending[d]) => Overlay(cache[d], pending[d]) = Overlay(document, pending[d])
    <3>1. pending[d] \in Seq(Writes)
      BY QueueFacts DEF SerialInv
    <3> QED
      BY <2>1, <3>1, OverlayArray
  <2> QED
    BY <2>1, <2>2
<1> QED
  BY <1>1, SerialInit, SerialNext, PTL DEF SerialSpec

-----------------------------------------------------------------------------
(* The mapping: View and Request, as operators of the variables they read.     *)

ViewOf(doc, queues) ==
    IF \E d \in Devices : queues[d] # <<>>
    THEN Overlay(doc, queues[CHOOSE d \in Devices : queues[d] # <<>>])
    ELSE doc

Asks(r) == r.kind # "load" /\ r.phase \in {"reading", "answered"}

RequestOf(c) ==
    IF \E t \in Closures : Asks(c[t])
    THEN LET t == CHOOSE t \in Closures : Asks(c[t])
         IN [kind |-> c[t].kind, spot |-> c[t].tapped]
    ELSE None

LEMMA Mapping ==
    /\ View = ViewOf(document, pending) /\ View' = ViewOf(document', pending')
    /\ Request = RequestOf(closure) /\ Request' = RequestOf(closure')
    /\ \A t : InWindow(t) <=> Asks(closure[t])
    /\ \A t : InWindow(t)' <=> Asks(closure'[t])
BY DEF View, ViewOf, Request, RequestOf, InWindow, Asks

LEMMA ViewOfWriter ==
    ASSUME NEW doc, NEW queues, NEW d \in Devices,
           \A e \in Devices : e # d => queues[e] = <<>>
    PROVE  ViewOf(doc, queues) = Overlay(doc, queues[d])
<1>1. CASE queues[d] = <<>>
  <2>1. ~HasArray(<<>>)
    BY DEF HasArray
  <2>2. Overlay(doc, queues[d]) = doc
    BY <1>1, <2>1, OverlayPlain
  <2> QED
    BY <1>1, <2>2 DEF ViewOf
<1>2. CASE queues[d] # <<>>
  <2>1. d = CHOOSE e \in Devices : queues[e] # <<>>
    BY <1>2
  <2> QED
    BY <1>2, <2>1 DEF ViewOf
<1> QED
  BY <1>1, <1>2

LEMMA RequestOfAsker ==
    ASSUME NEW c, NEW t \in Closures, Asks(c[t]), \A u \in Closures : Asks(c[u]) => u = t
    PROVE  RequestOf(c) = [kind |-> c[t].kind, spot |-> c[t].tapped]
<1>1. t = CHOOSE u \in Closures : Asks(c[u])
  OBVIOUS
<1> QED
  BY <1>1 DEF RequestOf

LEMMA NoRequest ==
    ASSUME NEW c, \A u \in Closures : ~Asks(c[u])
    PROVE  RequestOf(c) = None
BY DEF RequestOf

(* Every step but that of a closure that writes leaves the favourites alone.   *)
LEMMA ViewStep ==
    ASSUME SerialInv, Next, ~(\E d \in Devices : Reject(d)), ~\E t \in Closures : Queued(t)
    PROVE  View' = View
<1>1. CASE document' = document /\ pending' = pending
  BY <1>1 DEF View
<1>2. ASSUME NEW d \in Devices, Commit(d) \/ Acknowledge(d) \/ Restart(d)
      PROVE  View' = View
  <2>1. PICK e \in Devices :
          /\ \A f \in Devices : f # e => pending[f] = <<>>
          /\ pending[d] # <<>> => e = d
    BY DEF SerialInv, OneWriter
  <2>2. /\ pending \in [Devices -> Seq(Writes)] /\ pending[d] \in Seq(Writes)
        /\ document \in Documents
        /\ stage[d] # "waiting" => pending[d] # <<>>
    BY QueueFacts DEF SerialInv
  <2>3. /\ \A f \in Devices : f # e => pending'[f] = <<>>
        /\ Overlay(document', pending'[e]) = Overlay(document, pending[e])
    <3>1. CASE Commit(d)
      <4>1. /\ pending' = pending /\ pending[d] # <<>> /\ document.state # "missing"
            /\ document' = Patch(document, Head(pending[d]).data)
        BY <3>1 DEF Commit
      <4>2. Overlay(document', pending[d]) = Overlay(document, pending[d])
        BY <2>2, <4>1, OverlayPatch
      <4> QED
        BY <2>1, <4>1, <4>2
    <3>2. CASE Acknowledge(d)
      <4>1. /\ stage[d] # "waiting" /\ pending[d] # <<>> /\ document' = document
            /\ pending' = [pending EXCEPT ![d] = Tail(pending[d])]
        BY <2>2, <3>2 DEF Acknowledge
      <4>2. Head(pending[d]).data.state = "array" => document = Head(pending[d]).data
        BY <4>1 DEF SerialInv, Applied
      <4>3. Overlay(document, Tail(pending[d])) = Overlay(document, pending[d])
        BY <2>2, <4>1, <4>2, OverlayTail
      <4> QED
        BY <2>1, <2>2, <4>1, <4>3
    <3>3. CASE Restart(d)
      BY <2>1, <3>3, RestartFacts DEF SerialInv, Restart
    <3> QED
      BY <1>2, <3>1, <3>2, <3>3
  <2>4. /\ ViewOf(document, pending) = Overlay(document, pending[e])
        /\ ViewOf(document', pending') = Overlay(document', pending'[e])
    BY <2>1, <2>3, ViewOfWriter
  <2> QED
    BY <2>3, <2>4, Mapping
<1>3. Idle \/ (\E d \in Devices : Fetched(d) \/ LoseAck(d))
        => document' = document /\ pending' = pending
  BY DEF Idle, Fetched, LoseAck
<1> QED
  BY <1>1, <1>2, <1>3, DataSteps DEF SerialInv

-----------------------------------------------------------------------------
(* What a step does to the tap windows.                                       *)

(* No window opens or closes, and an answer that arrives is the present view.  *)
SameWindows ==
    \A u \in Closures :
        /\ Asks(closure'[u]) <=> Asks(closure[u])
        /\ Asks(closure[u]) =>
             /\ closure'[u].kind = closure[u].kind /\ closure'[u].tapped = closure[u].tapped
             /\ \/ closure'[u] = closure[u]
                \/ closure'[u].answer.state = "error"
                \/ closure'[u].answer = View

LEMMA SameClosuresSameWindows ==
    ASSUME closure' = closure
    PROVE  SameWindows
BY DEF SameWindows

LEMMA OutsideWindows ==
    ASSUME TypeOK, NEW t \in Closures, NEW r, closure' = [closure EXCEPT ![t] = r],
           ~Asks(closure[t]), ~Asks(r)
    PROVE  SameWindows
<1>1. closure'[t] = r /\ \A u \in Closures : u # t => closure'[u] = closure[u]
  BY DEF TypeOK
<1> QED
  BY <1>1 DEF SameWindows

LEMMA FinishOutside ==
    ASSUME TypeOK, NEW t \in Closures, NEW phase \in Terminal, Finish(t, phase),
           ~Asks(closure[t])
    PROVE  SameWindows
<1>1. closure' = [closure EXCEPT ![t] = Released(closure[t], phase)]
  BY DEF Finish
<1>2. ~Asks(Released(closure[t], phase))
  BY DEF Released, Asks, Terminal
<1> QED
  BY <1>1, <1>2, OutsideWindows

(* The device of a tap under way is the only one that may have writes pending, *)
(* so what it reads, online or offline, is the account's favourites.          *)
LEMMA AnswerSameWindows ==
    ASSUME SerialInv, Serial, NEW t \in Closures, Answer(t)
    PROVE  SameWindows
<1> DEFINE d == DeviceFor(t)
<1>1. closure[t].phase = "reading" /\ closure[t] \in ClosureRecords
  BY DEF Answer, AnswerFromServer, AnswerFromCache, AnswerWithError, SerialInv, TypeInv, TypeOK
<1>2. d \in Devices
  BY <1>1, DeviceForType DEF SerialInv, TypeInv, ClosuresBound
<1>3. PICK answer :
        /\ Answered(t, answer)
        /\ \/ answer = Overlay(document, pending[d])
           \/ OneDevice /\ cache[d] # Missing /\ answer = Overlay(cache[d], pending[d])
           \/ answer = Error
  BY DEF Answer, AnswerFromServer, AnswerFromCache, AnswerWithError, Serial
<1> HIDE DEF d
<1>4. OneDevice /\ cache[d] # Missing
        => Overlay(cache[d], pending[d]) = Overlay(document, pending[d])
  <2> SUFFICES ASSUME OneDevice, cache[d] # Missing
               PROVE  Overlay(cache[d], pending[d]) = Overlay(document, pending[d])
    OBVIOUS
  <2>1. /\ cache[d].state # "missing" /\ document.state # "missing"
        /\ ~HasArray(pending[d]) => cache[d] = document
    BY <1>2 DEF SerialInv, CacheSound
  <2>2. pending[d] \in Seq(Writes)
    BY <1>2, QueueFacts DEF SerialInv
  <2> QED
    BY <2>1, <2>2, OverlayArray
<1>5. answer.state = "error" \/ answer = Overlay(document, pending[d])
  BY <1>3, <1>4 DEF Error
<1>6. Asks(closure[t]) => View = Overlay(document, pending[d])
  <2> SUFFICES ASSUME Asks(closure[t])
               PROVE  View = Overlay(document, pending[d])
    OBVIOUS
  <2>1. \A e \in Devices : e # d => pending[e] = <<>>
    BY Mapping DEF SerialInv, WindowsApart, d
  <2> QED
    BY <1>2, <2>1, ViewOfWriter, Mapping
<1> DEFINE r == [closure[t] EXCEPT !.phase = "answered", !.answer = answer]
<1>7. closure' = [closure EXCEPT ![t] = r]
  BY <1>3 DEF Answered
<1>8. r.kind = closure[t].kind /\ r.tapped = closure[t].tapped /\ r.answer = answer
      /\ r.phase = "answered"
  BY <1>1 DEF ClosureRecords
<1> HIDE DEF r
<1>9. closure'[t] = r /\ \A u \in Closures : u # t => closure'[u] = closure[u]
  BY <1>7 DEF SerialInv, TypeInv, TypeOK
<1>10. ASSUME NEW u \in Closures
       PROVE  SameWindows!(u)
  <2>1. CASE u # t
    BY <1>9, <2>1
  <2>2. CASE u = t
    <3>1. Asks(closure'[t]) <=> Asks(closure[t])
      BY <1>1, <1>8, <1>9 DEF Asks
    <3> QED
      BY <1>5, <1>6, <1>8, <1>9, <2>2, <3>1
  <2> QED
    BY <2>1, <2>2
<1> QED
  BY <1>10 DEF SameWindows

LEMMA AcknowledgeSameWindows ==
    ASSUME SerialInv, NEW d \in Devices, Acknowledge(d)
    PROVE  SameWindows
<1> DEFINE t == Head(pending[d]).callback
<1>1. /\ pending[d] # <<>> /\ pending[d] \in Seq(Writes)
      /\ NotifyUser(d, "acked")
  BY QueueFacts DEF Acknowledge, SerialInv
<1>2. Head(pending[d]) \in Writes /\ 1 \in DOMAIN pending[d] /\ Head(pending[d]) = pending[d][1]
  BY <1>1
<1>3. CASE t = None
  BY <1>1, <1>3, SameClosuresSameWindows DEF NotifyUser
<1>4. CASE t # None
  <2>1. t \in Closures /\ closure[t] \in ClosureRecords /\ closure[t].phase = "writing"
    BY <1>2, <1>4 DEF Writes, SerialInv, TypeInv, TypeOK, CallbacksTracked
  <2>2. closure' = [closure EXCEPT ![t].phase = "acked"]
    BY <1>1, <1>4 DEF NotifyUser
  <2> HIDE DEF t
  <2> DEFINE r == [closure[t] EXCEPT !.phase = "acked"]
  <2>3. ~Asks(closure[t]) /\ ~Asks(r)
    BY <2>1 DEF ClosureRecords, Asks
  <2>4. closure' = [closure EXCEPT ![t] = r]
    BY <2>2
  <2> HIDE DEF r
  <2> QED
    BY <2>1, <2>3, <2>4, OutsideWindows DEF SerialInv, TypeInv
<1> QED
  BY <1>3, <1>4

LEMMA LoadSameWindows ==
    ASSUME SerialInv, NEW t \in Closures, LoadCallback(t)
    PROVE  SameWindows
<1>1. closure[t].kind = "load" /\ closure[t] \in ClosureRecords /\ TypeOK
  BY DEF LoadCallback, Callback, SerialInv, TypeInv, TypeOK
<1>2. ~Asks(closure[t])
  BY <1>1 DEF Asks
<1>3. CASE \E phase \in Terminal : Finish(t, phase)
  BY <1>1, <1>2, <1>3, FinishOutside
<1>4. CASE closure' = [closure EXCEPT ![t] =
             [@ EXCEPT !.phase = "finishing", !.answer = NoAnswer]]
  <2> DEFINE r == [closure[t] EXCEPT !.phase = "finishing", !.answer = NoAnswer]
  <2>1. ~Asks(r)
    BY <1>1 DEF ClosureRecords, Asks
  <2>2. closure' = [closure EXCEPT ![t] = r]
    BY <1>4
  <2> HIDE DEF r
  <2> QED
    BY <1>1, <1>2, <2>1, <2>2, OutsideWindows
<1> QED
  BY <1>3, <1>4 DEF LoadCallback, Terminal

LEMMA CompletionSameWindows ==
    ASSUME SerialInv, NEW t \in Closures,
           \/ AddCompletion(t) \/ CityRemoveCompletion(t) \/ ReloadBlock(t)
           \/ CityNotified(t) \/ FavoritesRemoveCompletion(t)
    PROVE  SameWindows
<1>1. closure[t] \in ClosureRecords /\ TypeOK
  BY DEF SerialInv, TypeInv, TypeOK
<1>2. ~Asks(closure[t])
  BY DEF AddCompletion, CityRemoveCompletion, ReloadBlock, CityNotified,
     FavoritesRemoveCompletion, Asks
<1>3. CASE \E phase \in Terminal : Finish(t, phase)
  BY <1>1, <1>2, <1>3, FinishOutside
<1>4. CASE FavoritesRemoveCompletion(t)
  <2> DEFINE r == [closure[t] EXCEPT !.phase = "reloading"]
  <2>1. ~Asks(r)
    BY <1>1 DEF ClosureRecords, Asks
  <2>2. closure' = [closure EXCEPT ![t] = r]
    BY <1>4 DEF FavoritesRemoveCompletion
  <2> HIDE DEF r
  <2> QED
    BY <1>1, <1>2, <2>1, <2>2, OutsideWindows
<1> QED
  BY <1>3, <1>4 DEF AddCompletion, CityRemoveCompletion, ReloadBlock, CityNotified, Terminal

LEMMA OpenSameWindows ==
    ASSUME SerialInv, NEW t \in Closures, NEW s \in Screens, Open(t, s)
    PROVE  SameWindows
<1>1. ~Asks(closure[t]) /\ ~Asks(Reading("load", s, None, None))
  BY DEF Open, Unused, Reading, Asks
<1>2. closure' = [closure EXCEPT ![t] = Reading("load", s, None, None)]
  BY DEF Open
<1> QED
  BY <1>1, <1>2, OutsideWindows DEF SerialInv, TypeInv

LEMMA WindowSteps ==
    ASSUME SerialInv, Next, Serial
    PROVE  \/ SameWindows
           \/ \E t \in Closures, c \in Cells : TapAdd(t, c) \/ TapRemove(t, c)
           \/ \E t \in Closures : AddCallback(t) \/ RemoveCallback(t)
           \/ \E d \in Devices : Restart(d)
<1>1. ASSUME NEW t \in Closures, MainQueueStep(t), ~AddCallback(t), ~RemoveCallback(t)
      PROVE  SameWindows
  BY <1>1, LoadSameWindows, CompletionSameWindows DEF MainQueueStep
<1>2. FirestoreStep => SameWindows
  <2>1. ASSUME NEW d \in Devices, Commit(d) \/ LoseAck(d)
        PROVE  SameWindows
    BY <2>1, SameClosuresSameWindows DEF Commit, LoseAck
  <2> QED
    BY <2>1, AnswerSameWindows, AcknowledgeSameWindows DEF FirestoreStep, Serial
<1>3. ScreenStep => SameWindows
  <2>1. ASSUME NEW s \in Screens, NEW x \in Spots,
               SpotArrives(s, x) \/ SpotAbsent(s, x) \/ FavoriteSpotNotified(s, x)
        PROVE  SameWindows
    BY <2>1, SameClosuresSameWindows DEF SpotArrives, SpotAbsent, FavoriteSpotNotified
  <2>2. ASSUME NEW c \in Cells, NEW x \in Spots, Configure(c, x)
        PROVE  SameWindows
    BY <2>2, SameClosuresSameWindows DEF Configure
  <2> QED
    BY <2>1, <2>2, CompletionSameWindows DEF ScreenStep
<1>4. UserStep =>
        \/ SameWindows
        \/ \E t \in Closures, c \in Cells : TapAdd(t, c) \/ TapRemove(t, c)
  <2>1. ASSUME NEW c \in Cells, ScrollOff(c)
        PROVE  SameWindows
    BY <2>1, SameClosuresSameWindows DEF ScrollOff
  <2> QED
    BY <2>1, OpenSameWindows DEF UserStep
<1> QED
  BY <1>1, <1>2, <1>3, <1>4 DEF Next

-----------------------------------------------------------------------------
(* The refinement.                                                            *)

(* A closure that is about to write has read the account's favourites.         *)
AnswersCurrent ==
    \A t \in Closures :
        Asks(closure[t]) /\ closure[t].phase = "answered" /\ closure[t].answer.state # "error"
            => closure[t].answer = View

LEMMA WindowFacts ==
    ASSUME SerialInv, NEW t \in Closures, Asks(closure[t])
    PROVE  /\ \A u \in Closures : Asks(closure[u]) => u = t
           /\ DeviceFor(t) \in Devices
           /\ View = Overlay(document, pending[DeviceFor(t)])
           /\ closure[t].kind \in {"add", "remove"} /\ closure[t].tapped \in Spots
           /\ Shown(t) = closure[t].tapped
           /\ Request = [kind |-> closure[t].kind, spot |-> closure[t].tapped]
           /\ Request # None
<1>1. InWindow(t) /\ closure[t] \in ClosureRecords
  BY Mapping DEF SerialInv, TypeInv, TypeOK
<1>2. \A u \in Closures : Asks(closure[u]) => u = t
  BY <1>1, Mapping DEF SerialInv, WindowsApart
<1>3. DeviceFor(t) \in Devices
  BY DeviceForType DEF SerialInv, TypeInv, ClosuresBound, Asks
<1>4. View = Overlay(document, pending[DeviceFor(t)])
  <2>1. \A e \in Devices : e # DeviceFor(t) => pending[e] = <<>>
    BY <1>1 DEF SerialInv, WindowsApart
  <2> QED
    BY <1>3, <2>1, ViewOfWriter, Mapping
<1>5. closure[t].kind \in {"add", "remove"}
  BY <1>1 DEF Asks, ClosureRecords
<1>6. Shown(t) = closure[t].tapped
  BY <1>1 DEF SerialInv, CellsKept
<1>7. closure[t].tapped \in Spots
  <2>1. InFlight(t) /\ closure[t].kind # "load"
    BY DEF InFlight, Terminal, Asks
  <2> QED
    BY <1>6, <2>1, ShownType DEF SerialInv
<1>8. Request = [kind |-> closure[t].kind, spot |-> closure[t].tapped]
  BY <1>2, RequestOfAsker, Mapping
<1>9. Request # None
  BY <1>5, <1>7, <1>8, RequestsAssumption
<1> QED
  BY <1>2, <1>3, <1>4, <1>5, <1>6, <1>7, <1>8, <1>9

LEMMA CallbackCloses ==
    ASSUME SerialInv, NEW t \in Closures, AddCallback(t) \/ RemoveCallback(t)
    PROVE  /\ Asks(closure[t]) /\ closure[t].phase = "answered"
           /\ \A u \in Closures : ~Asks(closure'[u])
           /\ Request' = None
<1>1. Asks(closure[t]) /\ closure[t].phase = "answered" /\ closure[t] \in ClosureRecords
  BY DEF AddCallback, RemoveCallback, Callback, Asks, SerialInv, TypeInv, TypeOK
<1>2. \/ \E phase \in Terminal : Finish(t, phase)
      \/ \E data : UpdateData(t, data)
  BY DEF AddCallback, RemoveCallback, Terminal
<1>3. PICK r : closure' = [closure EXCEPT ![t] = r] /\ ~Asks(r)
  <2>1. CASE \E phase \in Terminal : Finish(t, phase)
    <3>1. PICK phase \in Terminal : closure' = [closure EXCEPT ![t] = Released(closure[t], phase)]
      BY <2>1 DEF Finish
    <3>2. ~Asks(Released(closure[t], phase))
      BY DEF Released, Asks, Terminal
    <3> QED
      BY <3>1, <3>2
  <2>2. ASSUME NEW data, UpdateData(t, data)
        PROVE  \E r : closure' = [closure EXCEPT ![t] = r] /\ ~Asks(r)
    <3> DEFINE s == [closure[t] EXCEPT !.phase = "writing", !.data = data]
    <3>1. closure' = [closure EXCEPT ![t] = s]
      BY <2>2 DEF UpdateData
    <3>2. ~Asks(s)
      BY <1>1 DEF ClosureRecords, Asks
    <3> HIDE DEF s
    <3> QED
      BY <3>1, <3>2
  <2> QED
    BY <1>2, <2>1, <2>2
<1>4. closure'[t] = r /\ \A u \in Closures : u # t => closure'[u] = closure[u]
  BY <1>3 DEF SerialInv, TypeInv, TypeOK
<1>5. \A u \in Closures : ~Asks(closure'[u])
  BY <1>1, <1>3, <1>4, WindowFacts
<1>6. Request' = None
  BY <1>5, NoRequest, Mapping
<1> QED
  BY <1>1, <1>5, <1>6

LEMMA TapFacts ==
    ASSUME SerialInv, NEW t \in Closures, NEW c \in Cells, TapAdd(t, c) \/ TapRemove(t, c)
    PROVE  /\ cell[c].spot \in Spots
           /\ \A u \in Closures : u # t => closure'[u] = closure[u]
           /\ \E kind \in {"add", "remove"} :
                 closure'[t] = Reading(kind, ScreenOf[c], c, cell[c].spot)
           /\ ~Asks(closure[t]) /\ Asks(closure'[t]) /\ closure'[t].phase = "reading"
           /\ View' = View
<1>1. cell[c].spot \in Spots
  BY DEF SerialInv, TypeInv, TypeOK, CellRecords, CellsFilled, TapAdd, TapRemove, Touchable
<1>2. PICK kind \in {"add", "remove"} :
        closure' = [closure EXCEPT ![t] = Reading(kind, ScreenOf[c], c, cell[c].spot)]
  BY DEF TapAdd, TapRemove
<1>3. /\ closure'[t] = Reading(kind, ScreenOf[c], c, cell[c].spot)
      /\ \A u \in Closures : u # t => closure'[u] = closure[u]
  BY <1>2 DEF SerialInv, TypeInv, TypeOK
<1>4. ~Asks(closure[t]) /\ Asks(closure'[t]) /\ closure'[t].phase = "reading"
  BY <1>3 DEF TapAdd, TapRemove, Unused, Reading, Asks
<1>5. View' = View
  BY DEF TapAdd, TapRemove, View
<1> QED
  BY <1>1, <1>3, <1>4, <1>5

LEMMA RestartView ==
    ASSUME SerialInv, Next, Serial, NEW d \in Devices, Restart(d)
    PROVE  /\ View' = View
           /\ \A u \in Closures : closure'[u] = closure[u] \/ ~Asks(closure'[u])
<1>1. ASSUME NEW u \in Closures
      PROVE  closure'[u] = closure[u] \/ closure'[u].phase = "dead"
  BY DEF Restart, Released
<1>2. ~\E u \in Closures : Queued(u)
  <2> SUFFICES ASSUME NEW u \in Closures, Queued(u)
               PROVE  FALSE
    OBVIOUS
  <2>1. closure[u].phase = "answered" /\ closure[u] \in ClosureRecords
    BY DEF Queued, SerialInv, TypeInv, TypeOK
  <2>2. PICK data : closure' = [closure EXCEPT ![u] =
                       [closure[u] EXCEPT !.phase = "writing", !.data = data]]
    BY DEF Queued, UpdateData
  <2>3. closure'[u].phase = "writing"
    BY <2>1, <2>2 DEF SerialInv, TypeInv, TypeOK, ClosureRecords
  <2> QED
    BY <1>1, <2>1, <2>3
<1>3. View' = View
  BY <1>2, ViewStep DEF Serial
<1> QED
  BY <1>1, <1>3 DEF Asks

LEMMA SameWindowsView ==
    ASSUME SerialInv, Next, Serial, SameWindows
    PROVE  View' = View
<1>1. ~\E u \in Closures : Queued(u)
  <2> SUFFICES ASSUME NEW u \in Closures, Queued(u)
               PROVE  FALSE
    OBVIOUS
  <2>1. Asks(closure[u]) /\ closure[u] \in ClosureRecords
    BY DEF Queued, Asks, SerialInv, TypeInv, TypeOK
  <2>2. PICK data : closure' = [closure EXCEPT ![u] =
                       [closure[u] EXCEPT !.phase = "writing", !.data = data]]
    BY DEF Queued, UpdateData
  <2>3. closure'[u].phase = "writing"
    BY <2>1, <2>2 DEF SerialInv, TypeInv, TypeOK, ClosureRecords
  <2> QED
    BY <2>1, <2>3 DEF SameWindows, Asks
<1> QED
  BY <1>1, ViewStep DEF Serial

LEMMA AnswersStep ==
    ASSUME SerialInv, AnswersCurrent, Next, Serial
    PROVE  AnswersCurrent'
<1> SUFFICES ASSUME NEW u \in Closures, Asks(closure'[u]), closure'[u].phase = "answered",
                    closure'[u].answer.state # "error"
             PROVE  closure'[u].answer = View'
  BY Mapping DEF AnswersCurrent, Asks
<1>1. CASE SameWindows
  BY <1>1, SameWindowsView DEF SameWindows, AnswersCurrent
<1>2. ASSUME NEW t \in Closures, NEW c \in Cells, TapAdd(t, c) \/ TapRemove(t, c)
      PROVE  closure'[u].answer = View'
  BY <1>2, TapFacts DEF AnswersCurrent
<1>3. ASSUME NEW t \in Closures, AddCallback(t) \/ RemoveCallback(t)
      PROVE  FALSE
  BY <1>3, CallbackCloses
<1>4. ASSUME NEW d \in Devices, Restart(d)
      PROVE  closure'[u].answer = View'
  BY <1>4, RestartView DEF AnswersCurrent
<1> QED
  BY <1>1, <1>2, <1>3, <1>4, WindowSteps

LEMMA SameRequest ==
    ASSUME SerialInv,
           \A u \in Closures :
              /\ Asks(closure'[u]) <=> Asks(closure[u])
              /\ Asks(closure[u]) =>
                   closure'[u].kind = closure[u].kind /\ closure'[u].tapped = closure[u].tapped
    PROVE  Request' = Request
<1>1. CASE \E t \in Closures : Asks(closure[t])
  <2>1. PICK t \in Closures : Asks(closure[t])
    BY <1>1
  <2>2. /\ \A u \in Closures : Asks(closure[u]) => u = t
        /\ Request = [kind |-> closure[t].kind, spot |-> closure[t].tapped]
    BY <2>1, WindowFacts
  <2>3. Request' = [kind |-> closure'[t].kind, spot |-> closure'[t].tapped]
    BY <2>1, <2>2, RequestOfAsker, Mapping
  <2> QED
    BY <2>1, <2>2, <2>3
<1>2. CASE \A t \in Closures : ~Asks(closure[t])
  BY <1>2, NoRequest, Mapping
<1> QED
  BY <1>1, <1>2

(* A tap asks: no other window was open, and this one is now.                 *)
LEMMA TapAsks ==
    ASSUME SerialInv, Serial, NEW t \in Closures, NEW c \in Cells,
           TapAdd(t, c) \/ TapRemove(t, c)
    PROVE  Abstract!Ask
<1>1. PICK kind \in {"add", "remove"} :
        closure'[t] = Reading(kind, ScreenOf[c], c, cell[c].spot)
  BY TapFacts
<1>2. /\ cell[c].spot \in Spots /\ Asks(closure'[t]) /\ ~Asks(closure[t]) /\ View' = View
      /\ \A u \in Closures : u # t => closure'[u] = closure[u]
  BY TapFacts
<1>3. \A u \in Closures : Asks(closure'[u]) => u = t
  <2>1. WindowsApart'
    BY DEF Serial
  <2> QED
    BY <1>2, <2>1, Mapping DEF WindowsApart
<1>4. Request = None
  <2>1. \A u \in Closures : ~Asks(closure[u])
    BY <1>2, <1>3
  <2> QED
    BY <2>1, NoRequest, Mapping
<1>5. Request' = [kind |-> closure'[t].kind, spot |-> closure'[t].tapped]
  BY <1>2, <1>3, RequestOfAsker, Mapping
<1>6. closure'[t].kind = kind /\ closure'[t].tapped = cell[c].spot
  BY <1>1 DEF Reading
<1>7. Request' \in Abstract!Requests
  BY <1>2, <1>5, <1>6 DEF Abstract!Requests
<1> QED
  BY <1>2, <1>4, <1>7 DEF Abstract!Ask

(* The closure that writes has read the view, and its write becomes the view.  *)
LEMMA CallbackPerforms ==
    ASSUME SerialInv, AnswersCurrent, NEW t \in Closures, AddCallback(t) \/ RemoveCallback(t)
    PROVE  Abstract!Perform \/ Abstract!Drop
<1> DEFINE d == DeviceFor(t)
           q == pending[d]
           answer == closure[t].answer
           x == closure[t].tapped
<1>1. /\ Asks(closure[t]) /\ closure[t].phase = "answered" /\ Request' = None
      /\ closure[t] \in ClosureRecords /\ document' = document
  BY CallbackCloses DEF SerialInv, TypeInv, TypeOK, AddCallback, RemoveCallback
<1>2. /\ d \in Devices /\ x \in Spots /\ Shown(t) = x
      /\ Request = [kind |-> closure[t].kind, spot |-> x] /\ Request # None
      /\ View = Overlay(document, q)
  BY <1>1, WindowFacts
<1>3. /\ q \in Seq(Writes) /\ pending \in [Devices -> Seq(Writes)]
      /\ \A e \in Devices : e # d => pending[e] = <<>>
  <2>1. InWindow(t)
    BY <1>1, Mapping
  <2> QED
    BY <1>2, <2>1, QueueFacts DEF SerialInv, WindowsApart
<1>4. CASE pending' = pending
  <2>1. View' = View
    BY <1>1, <1>4 DEF View
  <2> QED
    BY <1>1, <1>2, <2>1 DEF Abstract!Drop
<1>5. ASSUME NEW data \in Documents, UpdateData(t, data),
             answer = View, answer.state # "missing"
      PROVE  View' = IF data.state = "array" THEN data ELSE View
  <2> DEFINE w == [data |-> data, callback |-> t]
  <2>1. w \in Writes /\ w.data = data
    BY DEF Writes
  <2>2. pending' = [pending EXCEPT ![d] = Append(q, w)]
    BY <1>5 DEF UpdateData
  <2>3. document.state # "missing"
    BY <1>2, <1>5, OverlayPlain
  <2> HIDE DEF w, q, d
  <2>4. pending'[d] = Append(q, w) /\ \A e \in Devices : e # d => pending'[e] = <<>>
    BY <1>2, <1>3, <2>2
  <2>5. View' = Overlay(document, Append(q, w))
    BY <1>1, <1>2, <2>4, ViewOfWriter, Mapping
  <2>6. Overlay(document, Append(q, w)) = IF data.state = "array" THEN data ELSE View
    BY <1>2, <1>3, <2>1, <2>3, OverlayAppend
  <2> QED
    BY <2>5, <2>6
<1>6. answer \in Answers /\ WellFormed(answer)
      /\ (answer.state # "error" => answer = View)
  BY <1>1 DEF ClosureRecords, SerialInv, CopiesWellFormed, AnswersCurrent
<1>7. CASE AddCallback(t)
  <2>1. closure[t].kind = "add" /\ Request.kind = "add" /\ Request.spot = x
    BY <1>2, <1>7 DEF AddCallback, Callback
  <2>2. CASE answer.state \in {"error", "missing"}
    BY <1>4, <1>7, <2>2 DEF AddCallback
  <2>3. CASE answer.state \notin {"error", "missing"}
    <3> DEFINE data == AddData(answer, x)
    <3>1. UpdateData(t, data) /\ data \in Documents
      BY <1>2, <1>6, <1>7, <2>3, AddDataType DEF AddCallback
    <3>2. View' = IF data.state = "array" THEN data ELSE View
      BY <1>5, <1>6, <2>3, <3>1
    <3>3. \/ data.state = "array" /\ ToSet(data.ids) = ToSet(answer.ids) \cup {x}
          \/ data = Bare /\ x \in ToSet(answer.ids)
      BY <1>2, <1>6, AddDataToggles
    <3>4. answer = View /\ Bare.state # "array"
      BY <1>6, <2>3 DEF Bare
    <3> HIDE DEF data, answer, x
    <3>5. ToSet(View'.ids) = ToSet(View.ids) \cup {x}
      BY <3>2, <3>3, <3>4
    <3> QED
      BY <1>1, <1>2, <2>1, <3>5 DEF Abstract!Perform
  <2> QED
    BY <2>2, <2>3
<1>8. CASE RemoveCallback(t)
  <2>1. closure[t].kind = "remove" /\ Request.kind = "remove" /\ Request.spot = x
    BY <1>2, <1>8 DEF RemoveCallback, Callback
  <2>2. CASE ~(answer.state = "array" /\ Contains(answer.ids, x))
    BY <1>2, <1>4, <1>8, <2>2 DEF RemoveCallback
  <2>3. CASE answer.state = "array" /\ Contains(answer.ids, x)
    <3> DEFINE data == RemoveData(answer, x)
    <3>1. UpdateData(t, data) /\ data \in Documents
      BY <1>2, <1>6, <1>8, <2>3, RemoveDataType DEF RemoveCallback
    <3>2. data.state = "array"
      BY DEF RemoveData, Array
    <3>3. View' = data
      BY <1>5, <1>6, <2>3, <3>1, <3>2
    <3>4. ToSet(data.ids) = ToSet(answer.ids) \ {x}
      BY <1>2, <1>6, <2>3, RemoveDataToggles DEF WellFormed
    <3>5. answer = View
      BY <1>6, <2>3
    <3> HIDE DEF data, answer, x
    <3>6. ToSet(View'.ids) = ToSet(View.ids) \ {x}
      BY <3>3, <3>4, <3>5
    <3> QED
      BY <1>1, <1>2, <2>1, <3>6 DEF Abstract!Perform
  <2> QED
    BY <2>2, <2>3
<1> QED
  BY <1>7, <1>8

(* A restart gives up the tap of its device, if there is one, and no other.    *)
LEMMA RestartDrops ==
    ASSUME SerialInv, Next, Serial, NEW d \in Devices, Restart(d)
    PROVE  Abstract!Drop \/ (View' = View /\ Request' = Request)
<1>1. /\ View' = View
      /\ \A u \in Closures : closure'[u] = closure[u] \/ ~Asks(closure'[u])
  BY RestartView
<1>2. CASE \E t \in Closures : Asks(closure[t]) /\ ~Asks(closure'[t])
  <2>1. PICK t \in Closures : Asks(closure[t]) /\ ~Asks(closure'[t])
    BY <1>2
  <2>2. Request # None /\ \A u \in Closures : Asks(closure[u]) => u = t
    BY <2>1, WindowFacts
  <2>3. \A u \in Closures : ~Asks(closure'[u])
    BY <1>1, <2>1, <2>2
  <2>4. Request' = None
    BY <2>3, NoRequest, Mapping
  <2> QED
    BY <1>1, <2>2, <2>4 DEF Abstract!Drop
<1>3. CASE \A t \in Closures : Asks(closure[t]) => Asks(closure'[t])
  <2>1. Request' = Request
    BY <1>1, <1>3, SameRequest
  <2> QED
    BY <1>1, <2>1
<1> QED
  BY <1>2, <1>3

LEMMA StepRefines ==
    ASSUME SerialInv, AnswersCurrent, [Next /\ Serial]_vars
    PROVE  [Abstract!Next]_<<ToSet(View.ids), Request>>
<1> SUFFICES Abstract!Next \/ (View' = View /\ Request' = Request)
  OBVIOUS
<1>1. CASE UNCHANGED vars
  BY <1>1 DEF vars, View, Request, InWindow
<1>2. CASE Next /\ Serial
  <2>1. CASE SameWindows
    <3>1. View' = View
      BY <1>2, <2>1, SameWindowsView
    <3>2. Request' = Request
      BY <2>1, SameRequest DEF SameWindows
    <3> QED
      BY <3>1, <3>2
  <2>2. ASSUME NEW t \in Closures, NEW c \in Cells, TapAdd(t, c) \/ TapRemove(t, c)
        PROVE  Abstract!Next
    BY <1>2, <2>2, TapAsks DEF Abstract!Next
  <2>3. ASSUME NEW t \in Closures, AddCallback(t) \/ RemoveCallback(t)
        PROVE  Abstract!Next
    BY <2>3, CallbackPerforms DEF Abstract!Next
  <2>4. ASSUME NEW d \in Devices, Restart(d)
        PROVE  Abstract!Next \/ (View' = View /\ Request' = Request)
    BY <1>2, <2>4, RestartDrops DEF Abstract!Next
  <2> QED
    BY <1>2, <2>1, <2>2, <2>3, <2>4, WindowSteps
<1> QED
  BY <1>1, <1>2

LEMMA InitRefines ==
    ASSUME Init
    PROVE  Abstract!Init /\ AnswersCurrent
<1>1. \A t \in Closures : ~Asks(closure[t])
  BY DEF Init, Unused, Asks
<1>2. Request = None
  BY <1>1, NoRequest, Mapping
<1>3. View = document
  BY DEF Init, View
<1>4. document \in Documents
  BY InitType DEF TypeInv, TypeOK
<1>5. ToSet(document.ids) \in SUBSET Spots
  <2>1. document.ids \in Seq(Spots)
    BY <1>4 DEF Documents
  <2> QED
    BY <2>1 DEF ToSet
<1> QED
  BY <1>1, <1>2, <1>3, <1>5 DEF Abstract!Init, AnswersCurrent

(* Where tap windows do not overlap, the favourite buttons keep the promise of  *)
(* FavoriteSet: each tap toggles the tapped spot at one instant, the one at     *)
(* which its closure queues the write, or is given up.  The set that is toggled *)
(* is the server's, with the writes still pending of the one device that has    *)
(* any (OneWriter); commits, acknowledgements lost and found, and restarts do   *)
(* not change it (ViewStep); and what a closure has read is still this set when *)
(* it writes (AnswersCurrent), for no window but its own is open.               *)
THEOREM TogglesAreSerial == SerialSpec => TogglesAreAtomic
<1>1. Init => SerialInv /\ AnswersCurrent /\ Abstract!Init
  BY SerialInit, InitRefines
<1>2. SerialInv /\ AnswersCurrent /\ [Next /\ Serial]_vars => AnswersCurrent'
  <2> SUFFICES ASSUME SerialInv, AnswersCurrent, [Next /\ Serial]_vars
               PROVE  AnswersCurrent'
    OBVIOUS
  <2>1. CASE UNCHANGED vars
    BY <2>1 DEF vars, AnswersCurrent, View
  <2> QED
    BY <2>1, AnswersStep
<1>3. SerialInv /\ AnswersCurrent /\ [Next /\ Serial]_vars
        => [Abstract!Next]_<<ToSet(View.ids), Request>>
  BY StepRefines
<1> QED
  BY <1>1, <1>2, <1>3, SerialNext, PTL DEF SerialSpec, TogglesAreAtomic, Abstract!Spec
=============================================================================
