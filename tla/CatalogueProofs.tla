--------------------------- MODULE CatalogueProofs ---------------------------
(***************************************************************************)
(* Rebuilds heal and converge, and while one is at work no city lists a    *)
(* spot that is not there, for every feed, catalogue left behind, number   *)
(* typed and number of taps.                                               *)
(***************************************************************************)
EXTENDS Catalogue, TLAPS

-----------------------------------------------------------------------------
(* What is in the end on the server.                                          *)

(* Of the writes in queue q of the runs in R, the i-th is the last on document k. *)
LastOf(q, R, k, i) ==
    /\ q[i].run \in R /\ q[i].key = k
    /\ \A j \in DOMAIN q : j > i => ~(q[j].run \in R /\ q[j].key = k)

(* Document k will hold X when the runs' writes in q have been applied to docs. *)
Outcome(docs, q, R, k, X) ==
    \/ \E i \in DOMAIN q : LastOf(q, R, k, i) /\ q[i].op = "set" /\ q[i].ids = X
    \/ /\ k \in DOMAIN docs /\ docs[k] = X
       /\ \A i \in DOMAIN q : ~(q[i].run \in R /\ q[i].key = k)

LEMMA AppendFacts ==
    ASSUME NEW S, NEW q \in Seq(S), NEW w \in S
    PROVE  /\ Append(q, w) \in Seq(S)
           /\ Len(q) \in Nat /\ DOMAIN q = 1..Len(q)
           /\ DOMAIN Append(q, w) = 1..(Len(q) + 1)
           /\ Append(q, w)[Len(q) + 1] = w
           /\ \A i \in DOMAIN q : Append(q, w)[i] = q[i]
OBVIOUS

LEMMA TailFacts ==
    ASSUME NEW S, NEW q \in Seq(S), q # <<>>
    PROVE  /\ Head(q) \in S /\ Tail(q) \in Seq(S)
           /\ Len(q) \in Nat /\ Len(q) >= 1 /\ DOMAIN q = 1..Len(q)
           /\ Head(q) = q[1]
           /\ DOMAIN Tail(q) = 1..(Len(q) - 1)
           /\ \A i \in DOMAIN Tail(q) : i + 1 \in DOMAIN q /\ Tail(q)[i] = q[i + 1]
           /\ \A i \in DOMAIN q : i = 1 \/ (i - 1 \in DOMAIN Tail(q) /\ Tail(q)[i - 1] = q[i])
OBVIOUS

LEMMA OutcomeAppend ==
    ASSUME NEW docs, NEW q \in Seq(Writes), NEW w \in Writes, NEW R, NEW k, NEW X
    PROVE  Outcome(docs, Append(q, w), R, k, X) <=>
              IF w.run \in R /\ w.key = k THEN w.op = "set" /\ w.ids = X
              ELSE Outcome(docs, q, R, k, X)
<1> DEFINE p == Append(q, w)
           n == Len(q)
<1>1. /\ n \in Nat /\ DOMAIN q = 1..n /\ DOMAIN p = 1..(n + 1)
      /\ p[n + 1] = w /\ \A i \in 1..n : p[i] = q[i]
  BY AppendFacts
<1> HIDE DEF p, n
<1>2. CASE w.run \in R /\ w.key = k
  <2>1. LastOf(p, R, k, n + 1)
    BY <1>1, <1>2 DEF LastOf
  <2>2. \A i \in DOMAIN p : LastOf(p, R, k, i) => i = n + 1
    BY <1>1, <1>2 DEF LastOf
  <2> QED
    BY <1>1, <1>2, <2>1, <2>2 DEF Outcome, p
<1>3. CASE ~(w.run \in R /\ w.key = k)
  <2>1. \A i \in DOMAIN q : LastOf(p, R, k, i) <=> LastOf(q, R, k, i)
    BY <1>1, <1>3 DEF LastOf
  <2>2. ~LastOf(p, R, k, n + 1)
    BY <1>1, <1>3 DEF LastOf
  <2>3. (\E i \in DOMAIN p : LastOf(p, R, k, i) /\ p[i].op = "set" /\ p[i].ids = X)
          <=> (\E i \in DOMAIN q : LastOf(q, R, k, i) /\ q[i].op = "set" /\ q[i].ids = X)
    BY <1>1, <2>1, <2>2
  <2>4. (\A i \in DOMAIN p : ~(p[i].run \in R /\ p[i].key = k))
          <=> (\A i \in DOMAIN q : ~(q[i].run \in R /\ q[i].key = k))
    BY <1>1, <1>3
  <2> QED
    BY <1>3, <2>3, <2>4 DEF Outcome, p
<1> QED
  BY <1>2, <1>3

(* Applying the first write, or applying it once too often, changes nothing.   *)
LEMMA ApplyFacts ==
    ASSUME NEW w \in Writes, NEW k
    PROVE  /\ k \in DOMAIN Apply(w) <=>
                IF w.key = k THEN w.op = "set" ELSE k \in DOMAIN store
           /\ k \in DOMAIN Apply(w) =>
                Apply(w)[k] = IF w.key = k THEN w.ids ELSE store[k]
BY DEF Apply, Writes

LEMMA OutcomeUnheard ==
    ASSUME NEW q \in Seq(Writes), q # <<>>, NEW R, NEW k, NEW X,
           Head(q).run \in R \/ Head(q).key # k
    PROVE  Outcome(Apply(Head(q)), q, R, k, X) <=> Outcome(store, q, R, k, X)
<1> DEFINE w == Head(q)
<1>1. w \in Writes /\ w = q[1] /\ 1 \in DOMAIN q
  BY TailFacts
<1> HIDE DEF w
<1>2. (k \in DOMAIN Apply(w) /\ Apply(w)[k] = X) <=>
         IF w.key = k THEN w.op = "set" /\ w.ids = X ELSE k \in DOMAIN store /\ store[k] = X
  BY <1>1, ApplyFacts
<1> QED
  BY <1>1, <1>2 DEF Outcome, w

LEMMA OutcomeTail ==
    ASSUME NEW q \in Seq(Writes), q # <<>>, NEW R, NEW k, NEW X,
           Head(q).run \in R \/ Head(q).key # k
    PROVE  Outcome(Apply(Head(q)), Tail(q), R, k, X) <=> Outcome(store, q, R, k, X)
<1> DEFINE w == Head(q)
           t == Tail(q)
           n == Len(q)
<1>1. /\ w \in Writes /\ n \in Nat /\ n >= 1 /\ DOMAIN q = 1..n /\ w = q[1]
      /\ DOMAIN t = 1..(n - 1) /\ t \in Seq(Writes)
      /\ \A i \in DOMAIN t : i + 1 \in DOMAIN q /\ t[i] = q[i + 1]
      /\ \A i \in DOMAIN q : i = 1 \/ (i - 1 \in DOMAIN t /\ t[i - 1] = q[i])
  BY TailFacts
<1> HIDE DEF w, t, n
<1>2. (k \in DOMAIN Apply(w) /\ Apply(w)[k] = X) <=>
         IF w.key = k THEN w.op = "set" /\ w.ids = X ELSE k \in DOMAIN store /\ store[k] = X
  BY <1>1, ApplyFacts
<1>3. \A i \in DOMAIN t : LastOf(t, R, k, i) <=> LastOf(q, R, k, i + 1)
  <2> SUFFICES ASSUME NEW i \in DOMAIN t
               PROVE  LastOf(t, R, k, i) <=> LastOf(q, R, k, i + 1)
    OBVIOUS
  <2>1. ASSUME LastOf(t, R, k, i)  PROVE LastOf(q, R, k, i + 1)
    <3> SUFFICES ASSUME NEW j \in DOMAIN q, j > i + 1
                 PROVE  ~(q[j].run \in R /\ q[j].key = k)
      BY <1>1, <2>1 DEF LastOf
    <3>1. j - 1 \in DOMAIN t /\ t[j - 1] = q[j] /\ j - 1 > i
      BY <1>1
    <3> QED
      BY <2>1, <3>1 DEF LastOf
  <2>2. ASSUME LastOf(q, R, k, i + 1)  PROVE LastOf(t, R, k, i)
    <3> SUFFICES ASSUME NEW j \in DOMAIN t, j > i
                 PROVE  ~(t[j].run \in R /\ t[j].key = k)
      BY <1>1, <2>2 DEF LastOf
    <3>1. j + 1 \in DOMAIN q /\ t[j] = q[j + 1] /\ j + 1 > i + 1
      BY <1>1
    <3> QED
      BY <2>2, <3>1 DEF LastOf
  <2> QED
    BY <2>1, <2>2
<1>4. (\E i \in DOMAIN q : i # 1 /\ LastOf(q, R, k, i) /\ q[i].op = "set" /\ q[i].ids = X)
        <=> (\E i \in DOMAIN t : LastOf(t, R, k, i) /\ t[i].op = "set" /\ t[i].ids = X)
  <2>1. ASSUME NEW i \in DOMAIN q, i # 1, LastOf(q, R, k, i), q[i].op = "set", q[i].ids = X
        PROVE  \E j \in DOMAIN t : LastOf(t, R, k, j) /\ t[j].op = "set" /\ t[j].ids = X
    <3>1. i - 1 \in DOMAIN t /\ t[i - 1] = q[i] /\ (i - 1) + 1 = i
      BY <1>1, <2>1
    <3>2. LastOf(t, R, k, i - 1)
      BY <1>3, <2>1, <3>1
    <3> QED
      BY <2>1, <3>1, <3>2
  <2>2. ASSUME NEW i \in DOMAIN t, LastOf(t, R, k, i), t[i].op = "set", t[i].ids = X
        PROVE  \E j \in DOMAIN q : j # 1 /\ LastOf(q, R, k, j) /\ q[j].op = "set" /\ q[j].ids = X
    <3>1. i + 1 \in DOMAIN q /\ t[i] = q[i + 1] /\ i + 1 # 1
      BY <1>1
    <3>2. LastOf(q, R, k, i + 1)
      BY <1>3, <2>2
    <3> QED
      BY <2>2, <3>1, <3>2
  <2> QED
    BY <2>1, <2>2
<1>5. (\A i \in DOMAIN t : ~(t[i].run \in R /\ t[i].key = k))
        <=> (\A i \in DOMAIN q : i # 1 => ~(q[i].run \in R /\ q[i].key = k))
  BY <1>1
<1>6. LastOf(q, R, k, 1) <=>
        w.run \in R /\ w.key = k /\ \A i \in DOMAIN t : ~(t[i].run \in R /\ t[i].key = k)
  BY <1>1, <1>5 DEF LastOf
<1>7. CASE w.key = k
  BY <1>1, <1>2, <1>4, <1>5, <1>6, <1>7 DEF Outcome, w, t
<1>8. CASE w.key # k
  BY <1>1, <1>2, <1>4, <1>5, <1>6, <1>8 DEF Outcome, w, t
<1> QED
  BY <1>7, <1>8

-----------------------------------------------------------------------------
(* Types.                                                                     *)

LEMMA RunFacts ==
    ASSUME TypeOK, NEW r \in Runs
    PROVE  /\ run[r] \in RunRecords
           /\ run[r].phase \in Phases /\ run[r].count \in Nat /\ run[r].next \in Nat
           /\ run[r].todo \subseteq Keys /\ run[r].awaiting \subseteq Keys
           /\ run[r].alive \in BOOLEAN /\ run[r].flawed \in BOOLEAN
           /\ run[r].rivals \subseteq Runs
BY DEF TypeOK, RunRecords

(* A run's record with other fields is a run's record.                         *)
LEMMA RecordUpdates ==
    ASSUME NEW old \in RunRecords
    PROVE  /\ [old EXCEPT !.alive = FALSE] \in RunRecords
           /\ [old EXCEPT !.next = @ + 1] \in RunRecords
           /\ \A phase \in Phases : [old EXCEPT !.phase = phase] \in RunRecords
           /\ \A k : [old EXCEPT !.todo = @ \ {k}] \in RunRecords
           /\ \A r \in Runs : [old EXCEPT !.rivals = @ \cup {r}] \in RunRecords
           /\ \A phase \in Phases, keys \in SUBSET Keys :
                [old EXCEPT !.phase = phase, !.todo = keys, !.awaiting = keys] \in RunRecords
           /\ \A phase \in Phases, keys \in SUBSET Keys, flawed \in BOOLEAN :
                [old EXCEPT !.phase = phase, !.todo = keys, !.awaiting = keys, !.flawed = flawed]
                  \in RunRecords
           /\ \A keys \in SUBSET Keys, flawed \in BOOLEAN :
                [old EXCEPT !.awaiting = keys, !.flawed = flawed] \in RunRecords
<1> USE DEF RunRecords
<1>1. [old EXCEPT !.alive = FALSE] \in RunRecords
  OBVIOUS
<1>2. [old EXCEPT !.next = @ + 1] \in RunRecords
  OBVIOUS
<1>3. \A phase \in Phases : [old EXCEPT !.phase = phase] \in RunRecords
  OBVIOUS
<1>4. \A k : [old EXCEPT !.todo = @ \ {k}] \in RunRecords
  OBVIOUS
<1>5. \A r \in Runs : [old EXCEPT !.rivals = @ \cup {r}] \in RunRecords
  OBVIOUS
<1>6. \A phase \in Phases, keys \in SUBSET Keys :
        [old EXCEPT !.phase = phase, !.todo = keys, !.awaiting = keys] \in RunRecords
  OBVIOUS
<1>7. \A phase \in Phases, keys \in SUBSET Keys, flawed \in BOOLEAN :
        [old EXCEPT !.phase = phase, !.todo = keys, !.awaiting = keys, !.flawed = flawed]
          \in RunRecords
  OBVIOUS
<1>8. \A keys \in SUBSET Keys, flawed \in BOOLEAN :
        [old EXCEPT !.awaiting = keys, !.flawed = flawed] \in RunRecords
  OBVIOUS
<1> HIDE DEF RunRecords
<1> QED
  BY <1>1, <1>2, <1>3, <1>4, <1>5, <1>6, <1>7, <1>8

LEMMA StoreType == store \in Catalogues <=> DOMAIN store \subseteq Keys /\ store \in [DOMAIN store -> SUBSET Ids]
BY DEF Catalogues

LEMMA PostedInType ==
    ASSUME NEW n, InRange(n), NEW c
    PROVE  PostedIn(n, c) \subseteq Ids /\ CitiesPosted(n) \subseteq Cities /\ SpotsPosted(n) \subseteq Ids
           /\ n \in Nat /\ \A i \in 1..n : Feed[i] \in [id : Ids, city : Cities \cup {None}]
<1>1. n \in Nat /\ \A i \in 1..n : Feed[i] \in [id : Ids, city : Cities \cup {None}]
  <2> DEFINE Entries == [id : Ids, city : Cities \cup {None}]
  <2>1. Feed \in Seq(Entries)
    BY FeedAssumption
  <2> HIDE DEF Entries
  <2>2. n \in Nat /\ \A i \in 1..n : Feed[i] \in Entries
    BY <2>1 DEF InRange
  <2> QED
    BY <2>2 DEF Entries
<1>2. \A i \in 1..n : Feed[i].id \in Ids
  BY <1>1
<1> QED
  BY <1>1, <1>2 DEF PostedIn, CitiesPosted, SpotsPosted

LEMMA InitTypeOK == Init => TypeOK
<1> SUFFICES ASSUME Init PROVE TypeOK
  OBVIOUS
<1>1. store \in Catalogues
  BY StoresAssumption DEF Init, Catalogues
<1>2. Unused \in RunRecords
  BY DEF Unused, RunRecords, Phases
<1> QED
  BY <1>1, <1>2 DEF Init, TypeOK

LEMMA ApplyType ==
    ASSUME store \in Catalogues, NEW w \in Writes
    PROVE  Apply(w) \in Catalogues
<1>1. DOMAIN store \subseteq Keys /\ store \in [DOMAIN store -> SUBSET Ids]
  BY StoreType
<1>2. w.key \in Keys /\ w.ids \in SUBSET Ids
  BY DEF Writes
<1>3. CASE w.op = "delete"
  <2>1. Apply(w) = [k \in DOMAIN store \ {w.key} |-> store[k]]
    BY <1>3 DEF Apply
  <2>2. Apply(w) \in [DOMAIN store \ {w.key} -> SUBSET Ids]
    BY <1>1, <2>1
  <2> QED
    BY <1>1, <2>2 DEF Catalogues
<1>4. CASE w.op # "delete"
  <2>1. Apply(w) \in [DOMAIN store \cup {w.key} -> SUBSET Ids]
    BY <1>1, <1>2, <1>4 DEF Apply
  <2> QED
    BY <1>1, <1>2, <2>1 DEF Catalogues
<1> QED
  BY <1>3, <1>4

LEMMA QueueType ==
    ASSUME TypeOK, NEW r \in Runs, NEW op \in {"set", "delete"}, NEW key \in Keys,
           NEW ids \in SUBSET Ids, Queue(r, op, key, ids)
    PROVE  pending' \in Seq(Writes)
BY DEF TypeOK, Queue, Writes

-----------------------------------------------------------------------------
(* The inductive invariant.                                                   *)

(* A run's group holds names of the collection that it deletes or sets, and     *)
(* nothing in the other phases; the feed is read from its start, within bounds. *)
RunSound(r) ==
    /\ run[r].todo \subseteq run[r].awaiting
    /\ run[r].awaiting \subseteq
         IF run[r].phase \in Deleting \cup {"settingCities"}
         THEN Collection(run[r].phase) ELSE {}
    /\ run[r].phase \in Posting \cup {"done"} => InRange(run[r].count)
    /\ run[r].phase \in {"unused", "fetching"} \cup Listing \cup Deleting => run[r].next = 1
    /\ run[r].next >= 1
    /\ run[r].phase = "settingCities" => run[r].awaiting \subseteq CitiesPosted(run[r].count)

(* The calls that enter a group: deletions, and the cities.                    *)
Grouped(w) == w.op = "delete" \/ w.key \in Cities

(* A pending write of a run is one that its phase makes and waits for, or a     *)
(* posted spot, which nobody waits for; the spots come before the cities.      *)
WritesSound(r) ==
    /\ \A i \in DOMAIN pending : pending[i].run = r /\ Grouped(pending[i]) =>
         /\ run[r].phase \in Deleting \cup {"settingCities"}
         /\ pending[i].op = "delete" <=> run[r].phase \in Deleting
         /\ pending[i].key \in run[r].awaiting \ run[r].todo
         /\ pending[i].op = "set" => pending[i].ids = PostedIn(run[r].count, pending[i].key)
    /\ \A i \in DOMAIN pending : pending[i].run = r /\ ~Grouped(pending[i]) =>
         run[r].phase \in Posting \cup {"done"}
    /\ \A i, j \in DOMAIN pending :
         (i < j /\ pending[i].run = r /\ pending[j].run = r /\ Grouped(pending[i])) =>
            Grouped(pending[j]) /\ pending[i].key # pending[j].key

Used(r) == run[r].phase # "unused"

(* Taps are numbered in their order, and a run knows who was at work with it.   *)
RunsInOrder == \A r \in Runs : Used(r) => \A u \in Runs : u < r => Used(u)
RivalsKnown(r) ==
    /\ \A u \in run[r].rivals : Used(u)
    /\ Used(r) => \A u \in Runs : u < r /\ Active(u) => u \in run[r].rivals

(* Whose writes may come after those of r.                                    *)
Follows(r, u) == u = r \/ u \in run[r].rivals \/ u > r
InQueueOrder(r) ==
    \A i, j \in DOMAIN pending : i < j /\ pending[i].run = r => Follows(r, pending[j].run)

(* Once one of its cities has been answered, whatever was queued before is gone. *)
OldGone(r) ==
    run[r].phase \in {"settingCities", "done"} /\ run[r].awaiting # CitiesPosted(run[r].count) =>
      \A i \in DOMAIN pending :
         Follows(r, pending[i].run) /\ (pending[i].run = r => Grouped(pending[i]))

(* The rebuilds that RebuildsConverge may turn out to be about.                *)
Clean(r) ==
    /\ Used(r) /\ ~run[r].flawed /\ NoLaterThan(r)
    /\ \A u \in run[r].rivals : run[u].count = run[r].count

WillBe(k, X) == Outcome(store, pending, Runs, k, X)
Seen(k) == \E X \in SUBSET Ids : WillBe(k, X)
Posted(n) == SpotsPosted(n) \cup CitiesPosted(n)

(* The documents whose deletion a run has made sure of.                        *)
Swept(r) ==
    CASE run[r].phase = "deletingSpots" -> Ids \ run[r].todo
      [] run[r].phase = "listingCities" -> Ids
      [] run[r].phase = "deletingCities" -> Keys \ run[r].todo
      [] run[r].phase \in {"fetching", "done"} \cup Posting -> Keys
      [] OTHER -> {}
(* What is seen of them afterwards has been posted since.                      *)
MayBeSeen(r, k) ==
    /\ InRange(run[r].count) /\ k \in Posted(run[r].count)
    /\ run[r].rivals # {} \/ run[r].phase \in Posting \cup {"done"}
Absence(r) == Clean(r) => \A k \in Swept(r) : Seen(k) => MayBeSeen(r, k)

(* Run u has still to post document k.                                        *)
Owes(u, k) ==
    \/ run[u].phase \notin Posting \cup {"done"}
    \/ run[u].phase = "posting" /\ k \in Cities
    \/ /\ run[u].phase = "posting"
       /\ \E i \in run[u].next..run[u].count : Feed[i].id = k /\ Feed[i].city # None
    \/ run[u].phase = "settingCities" /\ k \in run[u].todo
(* What is to be posted is as it should be, or somebody has still to post it.    *)
Presence(r) ==
    Clean(r) /\ InRange(run[r].count) => \A k \in Posted(run[r].count) :
        \/ WillBe(k, Catalogue(run[r].count)[k])
        \/ \E u \in {r} \cup run[r].rivals : Owes(u, k)

(* Where a rebuild is alone: what the store holds but for its own pending writes. *)
SeenWithout(r, c) == \E X \in SUBSET Ids : Outcome(store, pending, Runs \ {r}, c, X)
CitiesOwn(r) ==
    Clean(r) /\ run[r].rivals = {} /\ run[r].phase \in {"fetching", "done"} \cup Posting =>
      \A c \in Cities : SeenWithout(r, c) =>
        /\ run[r].phase \in {"settingCities", "done"}
        /\ c \in DOMAIN store /\ store[c] = PostedIn(run[r].count, c)
        /\ \A i \in DOMAIN pending : pending[i].run = r /\ Grouped(pending[i])

RunsSound == \A r \in Runs : RunSound(r)
QueueSound == \A r \in Runs : WritesSound(r)
Order == RunsInOrder /\ \A r \in Runs : RivalsKnown(r) /\ InQueueOrder(r) /\ OldGone(r)

CatalogueInv ==
    /\ TypeOK /\ RunsSound /\ QueueSound /\ Order
    /\ \A r \in Runs : Absence(r) /\ Presence(r) /\ CitiesOwn(r)

-----------------------------------------------------------------------------
(* What each action does to its run and to the others.                         *)

(* A step of run r that may change its phase, group and place in the feed only.  *)
MovesOnly(r) ==
    /\ Active(r) /\ store' = store
    /\ \A u \in Runs : u # r => run'[u] = run[u]
    /\ run'[r].count = run[r].count /\ run'[r].alive = run[r].alive
    /\ run'[r].rivals = run[r].rivals
    /\ run[r].flawed => run'[r].flawed
    /\ run' \in [Runs -> RunRecords]

LEMMA ListedStep ==
    ASSUME TypeOK, NEW r \in Runs, NEW base, NEW flawed \in BOOLEAN, Listed(r, base, flawed)
    PROVE  /\ MovesOnly(r) /\ pending' = pending /\ run[r].phase \in Listing
           /\ run'[r].phase = IF run[r].phase = "listingSpots" THEN "deletingSpots"
                              ELSE "deletingCities"
           /\ run'[r].todo = {k \in Collection(run[r].phase) : Sees(k, base)}
           /\ run'[r].awaiting = run'[r].todo /\ run'[r].next = run[r].next
           /\ ~run'[r].flawed => ~flawed
<1> DEFINE found == {k \in Collection(run[r].phase) : Sees(k, base)}
           phase == IF run[r].phase = "listingSpots" THEN "deletingSpots" ELSE "deletingCities"
           f == run[r].flawed \/ flawed
           new == [run[r] EXCEPT !.phase = phase, !.todo = found, !.awaiting = found, !.flawed = f]
<1>1. found \in SUBSET Keys /\ phase \in Phases /\ f \in BOOLEAN
  BY DEF Collection, Keys, Phases, Deleting
<1>2. /\ Active(r) /\ run[r].phase \in Listing /\ store' = store /\ pending' = pending
      /\ run' = [run EXCEPT ![r] = new]
  <2>1. Active(r) /\ run[r].phase \in Listing /\ store' = store /\ pending' = pending
    BY DEF Listed
  <2>2. run' = [run EXCEPT ![r] = new]
    BY Zenon DEF Listed
  <2> QED
    BY <2>1, <2>2
<1>3. run[r] \in RunRecords /\ run \in [Runs -> RunRecords]
  BY DEF TypeOK
<1> HIDE DEF found, phase, f
<1>4. new \in RunRecords
  BY <1>1, <1>3, RecordUpdates
<1>5. /\ new.phase = phase /\ new.todo = found /\ new.awaiting = found /\ new.flawed = f
      /\ new.count = run[r].count /\ new.alive = run[r].alive /\ new.rivals = run[r].rivals
      /\ new.next = run[r].next
  BY <1>3 DEF RunRecords
<1> HIDE DEF new
<1>6. run' \in [Runs -> RunRecords] /\ run'[r] = new /\ \A u \in Runs : u # r => run'[u] = run[u]
  BY <1>2, <1>3, <1>4
<1> QED
  BY <1>2, <1>5, <1>6 DEF MovesOnly, found, phase, f

LEMMA MoveStep ==
    ASSUME TypeOK, NEW r \in Runs, NEW phase \in Phases, Move(r, phase), Active(r), store' = store
    PROVE  /\ MovesOnly(r) /\ run'[r].phase = phase /\ run'[r].todo = run[r].todo
           /\ run'[r].awaiting = run[r].awaiting /\ run'[r].next = run[r].next
           /\ run'[r].flawed = run[r].flawed
<1> DEFINE new == [run[r] EXCEPT !.phase = phase]
<1>1. run[r] \in RunRecords /\ run \in [Runs -> RunRecords]
  BY DEF TypeOK
<1>2. run' = [run EXCEPT ![r] = new]
  BY <1>1 DEF Move
<1>3. new \in RunRecords
  BY <1>1, RecordUpdates
<1>4. /\ new.phase = phase /\ new.todo = run[r].todo /\ new.awaiting = run[r].awaiting
      /\ new.flawed = run[r].flawed /\ new.next = run[r].next
      /\ new.count = run[r].count /\ new.alive = run[r].alive /\ new.rivals = run[r].rivals
  BY <1>1 DEF RunRecords
<1> HIDE DEF new
<1>5. run' \in [Runs -> RunRecords] /\ run'[r] = new /\ \A u \in Runs : u # r => run'[u] = run[u]
  BY <1>1, <1>2, <1>3
<1> QED
  BY <1>4, <1>5 DEF MovesOnly

(* A call made in a loop over the group.                                      *)
LEMMA TodoStep ==
    ASSUME TypeOK, NEW r \in Runs, NEW k, Active(r), store' = store,
           run' = [run EXCEPT ![r].todo = @ \ {k}]
    PROVE  /\ MovesOnly(r) /\ run'[r].phase = run[r].phase
           /\ run'[r].todo = run[r].todo \ {k}
           /\ run'[r].awaiting = run[r].awaiting /\ run'[r].next = run[r].next
           /\ run'[r].flawed = run[r].flawed
<1> DEFINE new == [run[r] EXCEPT !.todo = @ \ {k}]
<1>1. run[r] \in RunRecords /\ run \in [Runs -> RunRecords]
  BY DEF TypeOK
<1>2. run' = [run EXCEPT ![r] = new]
  BY <1>1
<1>3. new \in RunRecords
  BY <1>1, RecordUpdates
<1>4. /\ new.todo = run[r].todo \ {k} /\ new.phase = run[r].phase
      /\ new.awaiting = run[r].awaiting /\ new.flawed = run[r].flawed /\ new.next = run[r].next
      /\ new.count = run[r].count /\ new.alive = run[r].alive /\ new.rivals = run[r].rivals
  BY <1>1 DEF RunRecords
<1> HIDE DEF new
<1>5. run' \in [Runs -> RunRecords] /\ run'[r] = new /\ \A u \in Runs : u # r => run'[u] = run[u]
  BY <1>1, <1>2, <1>3
<1> QED
  BY <1>4, <1>5 DEF MovesOnly

LEMMA PostSpotStep ==
    ASSUME TypeOK, NEW r \in Runs, PostSpot(r)
    PROVE  /\ MovesOnly(r) /\ run[r].phase = "posting" /\ run'[r].phase = "posting"
           /\ run[r].next <= run[r].count
           /\ run'[r].todo = run[r].todo
           /\ run'[r].awaiting = run[r].awaiting /\ run'[r].next = run[r].next + 1
           /\ run'[r].flawed = run[r].flawed
           /\ IF Feed[run[r].next].city = None THEN pending' = pending
              ELSE Queue(r, "set", Feed[run[r].next].id, {})
<1> DEFINE new == [run[r] EXCEPT !.next = @ + 1]
<1>1. run[r] \in RunRecords /\ run \in [Runs -> RunRecords]
  BY DEF TypeOK
<1>2. run' = [run EXCEPT ![r] = new]
  BY <1>1 DEF PostSpot
<1>3. new \in RunRecords
  BY <1>1, RecordUpdates
<1>4. /\ new.next = run[r].next + 1 /\ new.phase = run[r].phase /\ new.todo = run[r].todo
      /\ new.awaiting = run[r].awaiting /\ new.flawed = run[r].flawed
      /\ new.count = run[r].count /\ new.alive = run[r].alive /\ new.rivals = run[r].rivals
  BY <1>1 DEF RunRecords
<1> HIDE DEF new
<1>5. run' \in [Runs -> RunRecords] /\ run'[r] = new /\ \A u \in Runs : u # r => run'[u] = run[u]
  BY <1>1, <1>2, <1>3
<1> QED
  BY <1>4, <1>5 DEF MovesOnly, PostSpot

LEMMA PostedSpotsStep ==
    ASSUME TypeOK, RunsSound, NEW r \in Runs, PostedSpots(r)
    PROVE  /\ MovesOnly(r) /\ pending' = pending
           /\ run[r].phase = "posting" /\ run'[r].phase = "settingCities"
           /\ run[r].next > run[r].count
           /\ run'[r].todo = CitiesPosted(run[r].count)
           /\ run'[r].awaiting = CitiesPosted(run[r].count) /\ run'[r].next = run[r].next
           /\ run'[r].flawed = run[r].flawed
<1> DEFINE cities == CitiesPosted(run[r].count)
           new == [run[r] EXCEPT !.phase = "settingCities", !.todo = cities, !.awaiting = cities]
<1>1. run[r] \in RunRecords /\ run \in [Runs -> RunRecords]
  BY DEF TypeOK
<1>2. run' = [run EXCEPT ![r] = new] /\ run[r].phase = "posting"
  BY <1>1 DEF PostedSpots
<1>0. cities \in SUBSET Keys /\ "settingCities" \in Phases
  BY DEF CitiesPosted, Keys, Phases, Posting
<1> HIDE DEF cities
<1>3. new \in RunRecords
  BY <1>0, <1>1, RecordUpdates
<1>4. /\ new.next = run[r].next /\ new.phase = "settingCities" /\ new.todo = cities
      /\ new.awaiting = cities /\ new.flawed = run[r].flawed
      /\ new.count = run[r].count /\ new.alive = run[r].alive /\ new.rivals = run[r].rivals
  BY <1>1 DEF RunRecords
<1> HIDE DEF new
<1>5. run' \in [Runs -> RunRecords] /\ run'[r] = new /\ \A u \in Runs : u # r => run'[u] = run[u]
  BY <1>1, <1>2, <1>3
<1> QED
  BY <1>4, <1>5 DEF MovesOnly, PostedSpots, cities

LEMMA TapStep ==
    ASSUME TypeOK, NEW r \in Runs, NEW n \in Counts, Tap(r, n)
    PROVE  /\ store' = store /\ pending' = pending /\ ~Used(r)
           /\ \A u \in Runs : u < r => Used(u)
           /\ run'[r].phase = "listingSpots" /\ run'[r].count = n /\ run'[r].todo = {}
           /\ run'[r].awaiting = {} /\ run'[r].next = 1 /\ run'[r].alive /\ ~run'[r].flawed
           /\ run'[r].rivals = {u \in Runs : Active(u)}
           /\ \A u \in Runs : u # r =>
                /\ run'[u].phase = run[u].phase /\ run'[u].count = run[u].count
                /\ run'[u].todo = run[u].todo /\ run'[u].awaiting = run[u].awaiting
                /\ run'[u].next = run[u].next /\ run'[u].alive = run[u].alive
                /\ run'[u].flawed = run[u].flawed
                /\ run'[u].rivals = IF Active(u) THEN run[u].rivals \cup {r} ELSE run[u].rivals
           /\ run' \in [Runs -> RunRecords]
<1> DEFINE others == {u \in Runs : Active(u)}
           new == [Unused EXCEPT !.phase = "listingSpots", !.count = n, !.rivals = others]
           more(u) == [run[u] EXCEPT !.rivals = @ \cup {r}]
<1>1. \A u \in Runs : run[u] \in RunRecords
  BY DEF TypeOK
<1>2. run' = [u \in Runs |-> IF u = r THEN new ELSE IF u \in others THEN more(u) ELSE run[u]]
  BY DEF Tap
<1>3. new \in RunRecords
  BY CountsAssumption DEF Unused, RunRecords, Phases, Listing
<1>4. \A u \in Runs : more(u) \in RunRecords
  BY <1>1, RecordUpdates
<1>5. /\ new.phase = "listingSpots" /\ new.count = n /\ new.todo = {} /\ new.awaiting = {}
      /\ new.next = 1 /\ new.alive /\ ~new.flawed /\ new.rivals = others
  BY DEF Unused
<1>6. \A u \in Runs :
         /\ more(u).phase = run[u].phase /\ more(u).count = run[u].count
         /\ more(u).todo = run[u].todo /\ more(u).awaiting = run[u].awaiting
         /\ more(u).next = run[u].next /\ more(u).alive = run[u].alive
         /\ more(u).flawed = run[u].flawed /\ more(u).rivals = run[u].rivals \cup {r}
  BY <1>1 DEF RunRecords
<1> HIDE DEF new, more
<1>7. run' \in [Runs -> RunRecords]
  BY <1>1, <1>2, <1>3, <1>4
<1>8. run[r].phase = "unused" /\ \A u \in Runs : u < r => run[u].phase # "unused"
  <2>1. run[r].phase = "unused" /\ \A u \in 1..(r - 1) : run[u].phase # "unused"
    BY DEF Tap
  <2>2. \A u \in Runs : u < r => u \in 1..(r - 1)
    BY RunsAssumption DEF Runs
  <2> QED
    BY <2>1, <2>2
<1>9. store' = store /\ pending' = pending
  BY DEF Tap
<1> HIDE DEF others
<1> QED
  BY <1>2, <1>5, <1>6, <1>7, <1>8, <1>9 DEF Used, others

LEMMA TapOther ==
    ASSUME TypeOK, NEW r \in Runs, NEW n \in Counts, Tap(r, n), NEW u \in Runs, u # r
    PROVE  /\ run'[u].phase = run[u].phase /\ run'[u].count = run[u].count
           /\ run'[u].todo = run[u].todo /\ run'[u].awaiting = run[u].awaiting
           /\ run'[u].next = run[u].next /\ run'[u].alive = run[u].alive
           /\ run'[u].flawed = run[u].flawed
           /\ run'[u].rivals = IF Active(u) THEN run[u].rivals \cup {r} ELSE run[u].rivals
<1> DEFINE P(v) == /\ run'[v].phase = run[v].phase /\ run'[v].count = run[v].count
                   /\ run'[v].todo = run[v].todo /\ run'[v].awaiting = run[v].awaiting
                   /\ run'[v].next = run[v].next /\ run'[v].alive = run[v].alive
                   /\ run'[v].flawed = run[v].flawed
                   /\ run'[v].rivals = IF Active(v) THEN run[v].rivals \cup {r} ELSE run[v].rivals
<1>1. \A v \in Runs : v # r => P(v)
  BY TapStep
<1> HIDE DEF P
<1>2. P(u)
  BY <1>1
<1> QED
  BY <1>2 DEF P

LEMMA DieStep ==
    ASSUME TypeOK, Die
    PROVE  /\ store' = store /\ pending' = pending
           /\ \A u \in Runs :
                /\ run'[u].phase = run[u].phase /\ run'[u].count = run[u].count
                /\ run'[u].todo = run[u].todo /\ run'[u].awaiting = run[u].awaiting
                /\ run'[u].next = run[u].next /\ run'[u].rivals = run[u].rivals
                /\ run'[u].flawed = run[u].flawed /\ (run'[u].alive => run[u].alive)
           /\ run' \in [Runs -> RunRecords]
<1> DEFINE dead(u) == [run[u] EXCEPT !.alive = FALSE]
<1>1. \A u \in Runs : run[u] \in RunRecords
  BY DEF TypeOK
<1>2. run' = [u \in Runs |-> IF Active(u) THEN dead(u) ELSE run[u]]
  BY DEF Die
<1>3. \A u \in Runs : dead(u) \in RunRecords
  BY <1>1, RecordUpdates
<1>4. \A u \in Runs :
         /\ dead(u).phase = run[u].phase /\ dead(u).count = run[u].count
         /\ dead(u).todo = run[u].todo /\ dead(u).awaiting = run[u].awaiting
         /\ dead(u).next = run[u].next /\ dead(u).rivals = run[u].rivals
         /\ dead(u).flawed = run[u].flawed /\ ~dead(u).alive
  BY <1>1 DEF RunRecords
<1> HIDE DEF dead
<1>5. run' \in [Runs -> RunRecords]
  BY <1>1, <1>2, <1>3
<1>6. \A u \in Runs : run'[u] = dead(u) \/ run'[u] = run[u]
  BY <1>2
<1>7. \A u \in Runs :
        /\ run'[u].phase = run[u].phase /\ run'[u].count = run[u].count
        /\ run'[u].todo = run[u].todo /\ run'[u].awaiting = run[u].awaiting
        /\ run'[u].next = run[u].next /\ run'[u].rivals = run[u].rivals
        /\ run'[u].flawed = run[u].flawed /\ (run'[u].alive => run[u].alive)
  BY <1>4, <1>6
<1>8. store' = store /\ pending' = pending
  BY DEF Die
<1> QED
  BY <1>5, <1>7, <1>8

LEMMA LeaveStep ==
    ASSUME TypeOK, NEW w \in Writes, NEW refused \in BOOLEAN, Leave(w, refused)
    PROVE  /\ \A u \in Runs :
                /\ run'[u].phase = run[u].phase /\ run'[u].count = run[u].count
                /\ run'[u].todo = run[u].todo
                /\ run'[u].awaiting = IF u = w.run /\ run[u].alive THEN run[u].awaiting \ {w.key}
                                      ELSE run[u].awaiting
                /\ run'[u].next = run[u].next /\ run'[u].rivals = run[u].rivals
                /\ run'[u].flawed <=> run[u].flawed \/ (refused /\ Used(u))
                /\ run'[u].alive = run[u].alive
           /\ run' \in [Runs -> RunRecords]
<1> DEFINE left(u) == IF u = w.run /\ run[u].alive THEN run[u].awaiting \ {w.key}
                      ELSE run[u].awaiting
           f(u) == run[u].flawed \/ (refused /\ run[u].phase # "unused")
           new(u) == [run[u] EXCEPT !.awaiting = left(u), !.flawed = f(u)]
<1>1. \A u \in Runs : run[u] \in RunRecords
  BY DEF TypeOK
<1>2. run' = [u \in Runs |-> new(u)]
  BY DEF Leave
<1>3. \A u \in Runs : left(u) \in SUBSET Keys /\ f(u) \in BOOLEAN
  BY RunFacts
<1> HIDE DEF left, f
<1>4. \A u \in Runs : new(u) \in RunRecords
  BY <1>1, <1>3, RecordUpdates
<1>5. \A u \in Runs :
         /\ new(u).phase = run[u].phase /\ new(u).count = run[u].count
         /\ new(u).todo = run[u].todo /\ new(u).awaiting = left(u)
         /\ new(u).next = run[u].next /\ new(u).rivals = run[u].rivals
         /\ new(u).flawed = f(u) /\ new(u).alive = run[u].alive
  BY <1>1 DEF RunRecords
<1> HIDE DEF new
<1>6. \A u \in Runs : run'[u] = new(u)
  BY <1>2
<1> QED
  BY <1>2, <1>4, <1>5, <1>6 DEF left, f, Used

(* The steps of a run but for the trap, with all that they change.             *)
Lists(r) ==
    /\ MovesOnly(r) /\ pending' = pending /\ run[r].phase \in Listing
    /\ run'[r].phase = IF run[r].phase = "listingSpots" THEN "deletingSpots" ELSE "deletingCities"
    /\ run'[r].todo \subseteq Collection(run[r].phase)
    /\ run'[r].awaiting = run'[r].todo /\ run'[r].next = run[r].next
    /\ ~run'[r].flawed => \A k \in Collection(run[r].phase) : Sees(k, DOMAIN store) => k \in run'[r].todo
Stalls(r) ==
    /\ MovesOnly(r) /\ pending' = pending /\ run[r].phase \in Listing \cup {"fetching"}
    /\ run'[r].phase = "stalled" /\ run'[r].todo = run[r].todo
    /\ run'[r].awaiting = run[r].awaiting /\ run'[r].next = run[r].next
Deletes(r, k) ==
    /\ MovesOnly(r) /\ Queue(r, "delete", k, {}) /\ run[r].phase \in Deleting
    /\ k \in run[r].todo /\ run'[r].todo = run[r].todo \ {k}
    /\ run'[r].phase = run[r].phase
    /\ run'[r].awaiting = run[r].awaiting /\ run'[r].next = run[r].next
Notifies(r) ==
    /\ MovesOnly(r) /\ pending' = pending /\ run[r].phase \in Deleting \cup {"settingCities"}
    /\ run[r].todo = {} /\ run[r].awaiting = {}
    /\ run'[r].phase = After(run[r].phase)
    /\ run'[r].todo = {} /\ run'[r].awaiting = {} /\ run'[r].next = run[r].next
StartsPosting(r) ==
    /\ MovesOnly(r) /\ pending' = pending /\ run[r].phase = "fetching"
    /\ InRange(run[r].count) /\ run'[r].phase = "posting" /\ run'[r].todo = run[r].todo
    /\ run'[r].awaiting = run[r].awaiting /\ run'[r].next = run[r].next
Posts(r) ==
    /\ MovesOnly(r) /\ run[r].phase = "posting" /\ run'[r].phase = "posting"
    /\ InRange(run[r].count) /\ run[r].next \in 1..run[r].count
    /\ run'[r].todo = run[r].todo
    /\ run'[r].awaiting = run[r].awaiting /\ run'[r].next = run[r].next + 1
    /\ \/ Feed[run[r].next].city = None /\ pending' = pending
       \/ /\ Feed[run[r].next].city \in Cities /\ Feed[run[r].next].id \in Ids
          /\ Queue(r, "set", Feed[run[r].next].id, {})
StartsCities(r) ==
    /\ MovesOnly(r) /\ pending' = pending
    /\ InRange(run[r].count) /\ run[r].next > run[r].count
    /\ run[r].phase = "posting" /\ run'[r].phase = "settingCities"
    /\ run'[r].todo = CitiesPosted(run[r].count)
    /\ run'[r].awaiting = CitiesPosted(run[r].count) /\ run'[r].next = run[r].next
SetsCity(r, c) ==
    /\ MovesOnly(r) /\ Queue(r, "set", c, PostedIn(run[r].count, c))
    /\ InRange(run[r].count) /\ run[r].phase = "settingCities" /\ run'[r].phase = "settingCities"
    /\ c \in run[r].todo /\ run'[r].todo = run[r].todo \ {c}
    /\ run'[r].awaiting = run[r].awaiting /\ run'[r].next = run[r].next

Steps(r) ==
    \/ Lists(r) \/ Stalls(r) \/ Notifies(r) \/ StartsPosting(r) \/ Posts(r) \/ StartsCities(r)
    \/ \E k \in Keys : Deletes(r, k)
    \/ \E c \in Cities : SetsCity(r, c)

LEMMA RunStepCases ==
    ASSUME TypeOK, RunsSound, NEW r \in Runs, RunStep(r)
    PROVE  Die \/ Steps(r)
<1> DEFINE G == Die \/ Steps(r)
<1> USE DEF Steps
<1> HIDE DEF G
<1>0. run[r].count \in Nat /\ run[r].next \in Nat /\ RunSound(r)
  BY RunFacts DEF RunsSound
<1>1. ASSUME NEW base, NEW flawed \in BOOLEAN, Listed(r, base, flawed), flawed \/ base = DOMAIN store
      PROVE  G
  <2>1. Lists(r)
    BY <1>1, ListedStep DEF Lists
  <2> QED
    BY <1>1, <2>1, ListedStep DEF G
<1>2. CASE ListedOnline(r)
  <2>1. Listed(r, DOMAIN store, FALSE)
    BY <1>2 DEF ListedOnline
  <2>2. ASSUME NEW base, base = DOMAIN store, Listed(r, base, FALSE)  PROVE G
    BY <1>1, <2>2
  <2> QED
    BY <2>1, <2>2 DEF G
<1>3. CASE ListedOffline(r)
  <2>1. PICK cached \in SUBSET Collection(run[r].phase) : Listed(r, cached, TRUE)
    BY <1>3 DEF ListedOffline
  <2> HIDE DEF Listed
  <2> QED
    BY <1>1, <2>1 DEF G
<1>4. CASE ListFailed(r) \/ FeedFails(r)
  <2>1. /\ Active(r) /\ store' = store /\ pending' = pending
        /\ run[r].phase \in Listing \cup {"fetching"}
        /\ Move(r, "stalled") /\ "stalled" \in Phases
    BY <1>4 DEF ListFailed, FeedFails, Phases, Ended
  <2>2. Stalls(r)
    BY <2>1, MoveStep DEF Stalls
  <2> QED
    BY <2>2 DEF G
<1>5. CASE FeedArrives(r)
  <2>1. /\ Active(r) /\ store' = store /\ pending' = pending /\ run[r].phase = "fetching"
        /\ InRange(run[r].count) /\ Move(r, "posting") /\ "posting" \in Phases
    BY <1>5 DEF FeedArrives, Phases, Posting
  <2>2. StartsPosting(r)
    BY <2>1, MoveStep DEF StartsPosting
  <2> QED
    BY <2>2 DEF G
<1>6. CASE Notified(r)
  <2>1. /\ Active(r) /\ store' = store /\ pending' = pending
        /\ run[r].phase \in Deleting \cup {"settingCities"}
        /\ run[r].todo = {} /\ run[r].awaiting = {}
        /\ Move(r, After(run[r].phase)) /\ After(run[r].phase) \in Phases
    BY <1>6 DEF Notified, After, Phases, Listing, Ended
  <2>2. Notifies(r)
    BY <2>1, MoveStep DEF Notifies
  <2> QED
    BY <2>2 DEF G
<1>7. ASSUME NEW k \in Keys, Delete(r, k)  PROVE G
  <2>1. /\ Active(r) /\ store' = store /\ run[r].phase \in Deleting /\ k \in run[r].todo
        /\ Queue(r, "delete", k, {}) /\ run' = [run EXCEPT ![r].todo = @ \ {k}]
    BY <1>7 DEF Delete
  <2>2. Deletes(r, k)
    BY <2>1, TodoStep DEF Deletes
  <2> QED
    BY <2>2 DEF G
<1>8. ASSUME NEW c \in Cities, SetCity(r, c)  PROVE G
  <2>1. /\ Active(r) /\ store' = store /\ run[r].phase = "settingCities" /\ c \in run[r].todo
        /\ Queue(r, "set", c, PostedIn(run[r].count, c)) /\ run' = [run EXCEPT ![r].todo = @ \ {c}]
    BY <1>8 DEF SetCity
  <2>2. SetsCity(r, c)
    BY <1>0, <2>1, TodoStep DEF SetsCity, RunSound, Posting
  <2> QED
    BY <2>2 DEF G
<1>9. CASE PostSpot(r)
  <2>1. InRange(run[r].count)
    BY <1>0, <1>9, PostSpotStep DEF RunSound, Posting
  <2>2. run[r].next \in 1..run[r].count
    BY <1>0, <1>9, PostSpotStep DEF RunSound
  <2>3. Feed[run[r].next].id \in Ids /\ Feed[run[r].next].city \in Cities \cup {None}
    BY <2>1, <2>2, PostedInType
  <2>4. Posts(r)
    BY <1>9, <2>1, <2>2, <2>3, PostSpotStep DEF Posts
  <2> QED
    BY <1>9, <2>4, PostSpotStep DEF G
<1>10. CASE PostedSpots(r)
  <2>1. InRange(run[r].count)
    BY <1>0, <1>10, PostedSpotsStep DEF RunSound, Posting
  <2>2. StartsCities(r)
    BY <1>10, <2>1, PostedSpotsStep DEF StartsCities
  <2> QED
    BY <1>10, <2>2, PostedSpotsStep DEF G
<1>11. CASE FeedTraps(r)
  BY <1>11 DEF FeedTraps, G
<1> QED
  BY <1>2, <1>3, <1>4, <1>5, <1>6, <1>7, <1>8, <1>9, <1>10, <1>11 DEF RunStep, G

(* An answer to the first write.                                              *)
Answered(refused) ==
    /\ pending # <<>> /\ pending' = Tail(pending) /\ Leave(Head(pending), refused)
    /\ store' = IF refused THEN store ELSE Apply(Head(pending))

LEMMA NextCases ==
    ASSUME TypeOK, RunsSound, Next
    PROVE  \/ \E r \in Runs, n \in Counts : Tap(r, n)
           \/ \E r \in Runs : Steps(r)
           \/ \E refused \in BOOLEAN : Answered(refused)
           \/ CommitUnheard
           \/ Die
<1>1. CASE \E r \in Runs : RunStep(r)
  BY <1>1, RunStepCases
<1>2. CASE Commit
  <2>1. Answered(FALSE)
    BY <1>2 DEF Commit, Answered
  <2> QED
    BY <2>1
<1>3. CASE Refuse
  <2>1. Answered(TRUE)
    BY <1>3 DEF Refuse, Answered
  <2> QED
    BY <2>1
<1> QED
  BY <1>1, <1>2, <1>3 DEF Next, Restart

-----------------------------------------------------------------------------
(* Types, groups and queue.                                                   *)

LEMMA QueueFacts ==
    ASSUME TypeOK, NEW r \in Runs, NEW op \in {"set", "delete"}, NEW key \in Keys,
           NEW ids \in SUBSET Ids, Queue(r, op, key, ids)
    PROVE  \E w \in Writes : /\ w.op = op /\ w.key = key /\ w.ids = ids /\ w.run = r
                             /\ pending' = Append(pending, w) /\ pending' \in Seq(Writes)
<1> DEFINE w == [op |-> op, key |-> key, ids |-> ids, run |-> r]
<1>1. w \in Writes /\ w.op = op /\ w.key = key /\ w.ids = ids /\ w.run = r
  BY DEF Writes
<1>2. pending' = Append(pending, w)
  BY DEF Queue
<1> HIDE DEF w
<1>3. pending' \in Seq(Writes)
  BY <1>1, <1>2 DEF TypeOK
<1> QED
  BY <1>1, <1>2, <1>3

(* The writes that runs make.                                                 *)
LEMMA CallFacts ==
    ASSUME TypeOK, NEW r \in Runs
    PROVE  /\ \A k \in Keys : Deletes(r, k) =>
                \E w \in Writes : /\ w.op = "delete" /\ w.key = k /\ w.run = r
                                  /\ pending' = Append(pending, w) /\ pending' \in Seq(Writes)
           /\ \A c \in Cities : SetsCity(r, c) =>
                \E w \in Writes : /\ w.op = "set" /\ w.key = c /\ w.run = r
                                  /\ w.ids = PostedIn(run[r].count, c)
                                  /\ pending' = Append(pending, w) /\ pending' \in Seq(Writes)
           /\ Posts(r) /\ Feed[run[r].next].city # None =>
                \E w \in Writes : /\ w.op = "set" /\ w.key = Feed[run[r].next].id /\ w.run = r
                                  /\ w.key \in Ids /\ w.ids = {}
                                  /\ pending' = Append(pending, w) /\ pending' \in Seq(Writes)
<1>1. ASSUME NEW k \in Keys, Deletes(r, k)
      PROVE  \E w \in Writes : /\ w.op = "delete" /\ w.key = k /\ w.run = r
                               /\ pending' = Append(pending, w) /\ pending' \in Seq(Writes)
  <2>1. Queue(r, "delete", k, {}) /\ {} \in SUBSET Ids
    BY <1>1 DEF Deletes
  <2> QED
    BY <2>1, QueueFacts
<1>2. ASSUME NEW c \in Cities, SetsCity(r, c)
      PROVE  \E w \in Writes : /\ w.op = "set" /\ w.key = c /\ w.run = r
                               /\ w.ids = PostedIn(run[r].count, c)
                               /\ pending' = Append(pending, w) /\ pending' \in Seq(Writes)
  <2>1. Queue(r, "set", c, PostedIn(run[r].count, c)) /\ c \in Keys
    BY <1>2 DEF SetsCity, Keys
  <2>2. PostedIn(run[r].count, c) \in SUBSET Ids
    BY <1>2, PostedInType DEF SetsCity
  <2> QED
    BY <2>1, <2>2, QueueFacts
<1>3. ASSUME Posts(r), Feed[run[r].next].city # None
      PROVE  \E w \in Writes : /\ w.op = "set" /\ w.key = Feed[run[r].next].id /\ w.run = r
                               /\ w.key \in Ids /\ w.ids = {}
                               /\ pending' = Append(pending, w) /\ pending' \in Seq(Writes)
  <2> DEFINE k == Feed[run[r].next].id
  <2>1. Queue(r, "set", k, {}) /\ k \in Ids /\ k \in Keys /\ {} \in SUBSET Ids
    BY <1>3 DEF Posts, Keys
  <2> HIDE DEF k
  <2>2. \E w \in Writes : /\ w.op = "set" /\ w.key = k /\ w.run = r /\ w.ids = {}
                          /\ pending' = Append(pending, w) /\ pending' \in Seq(Writes)
    BY <2>1, QueueFacts
  <2> QED
    BY <2>1, <2>2 DEF k
<1> QED
  BY <1>1, <1>2, <1>3

(* A run's step moves that run and makes at most one call.                     *)
LEMMA StepWrites ==
    ASSUME TypeOK, NEW r \in Runs, Steps(r)
    PROVE  /\ MovesOnly(r)
           /\ pending' = pending \/ \E w \in Writes : w.run = r /\ pending' = Append(pending, w)
<1>1. MovesOnly(r)
  BY DEF Steps, Lists, Stalls, Notifies, StartsPosting, Posts, StartsCities, Deletes, SetsCity
<1>2. pending' = pending \/ \E w \in Writes : w.run = r /\ pending' = Append(pending, w)
  BY CallFacts, KeysAssumption
     DEF Steps, Lists, Stalls, Notifies, StartsPosting, Posts, StartsCities, Keys
<1> QED
  BY <1>1, <1>2

LEMMA TypeStep == TypeOK /\ RunsSound /\ [Next]_vars => TypeOK'
<1> SUFFICES ASSUME TypeOK, RunsSound, [Next]_vars PROVE TypeOK'
  OBVIOUS
<1>0. store \in Catalogues /\ pending \in Seq(Writes) /\ run \in [Runs -> RunRecords]
  BY DEF TypeOK
<1>1. ASSUME NEW r \in Runs, NEW n \in Counts, Tap(r, n)  PROVE TypeOK'
  BY <1>0, <1>1, TapStep DEF TypeOK
<1>2. ASSUME NEW r \in Runs, Steps(r)  PROVE TypeOK'
  <2>1. store' = store /\ run' \in [Runs -> RunRecords]
    BY <1>2, StepWrites DEF MovesOnly
  <2>2. pending' \in Seq(Writes)
    BY <1>0, <1>2, StepWrites, AppendFacts
  <2> QED
    BY <1>0, <2>1, <2>2 DEF TypeOK
<1>3. ASSUME NEW refused \in BOOLEAN, Answered(refused)  PROVE TypeOK'
  <2>1. Head(pending) \in Writes /\ Tail(pending) \in Seq(Writes)
    BY <1>0, <1>3, TailFacts DEF Answered
  <2>2. store' \in Catalogues
    BY <1>0, <1>3, <2>1, ApplyType DEF Answered
  <2>3. run' \in [Runs -> RunRecords]
    BY <1>3, <2>1, LeaveStep DEF Answered
  <2> QED
    BY <1>3, <2>1, <2>2, <2>3 DEF Answered, TypeOK
<1>4. CASE CommitUnheard
  <2>1. Head(pending) \in Writes
    BY <1>0, <1>4, TailFacts DEF CommitUnheard
  <2>2. store' \in Catalogues
    BY <1>0, <1>4, <2>1, ApplyType DEF CommitUnheard
  <2> QED
    BY <1>0, <1>4, <2>2 DEF CommitUnheard, TypeOK
<1>5. CASE Die
  BY <1>0, <1>5, DieStep DEF TypeOK
<1>6. CASE UNCHANGED vars
  BY <1>0, <1>6 DEF vars, TypeOK
<1> QED
  BY <1>1, <1>2, <1>3, <1>4, <1>5, <1>6, NextCases

LEMMA RunsStep == TypeOK /\ RunsSound /\ QueueSound /\ [Next]_vars => RunsSound'
<1> SUFFICES ASSUME TypeOK, RunsSound, QueueSound, [Next]_vars, NEW v \in Runs
             PROVE  RunSound(v)'
  BY DEF RunsSound
<1>0. RunSound(v) /\ run[v].next \in Nat /\ run[v].count \in Nat /\ pending \in Seq(Writes)
  BY RunFacts DEF RunsSound, TypeOK
<1> USE DEF RunSound
<1>1. ASSUME NEW r \in Runs, NEW n \in Counts, Tap(r, n)  PROVE RunSound(v)'
  <2>1. CASE v = r
    BY <1>1, <2>1, TapStep DEF Posting, Deleting
  <2>2. CASE v # r
    BY <1>0, <1>1, <2>2, TapStep
  <2> QED
    BY <2>1, <2>2
<1>2. ASSUME NEW r \in Runs, MovesOnly(r), v # r  PROVE RunSound(v)'
  BY <1>0, <1>2 DEF MovesOnly
<1>3. ASSUME Lists(v)  PROVE RunSound(v)'
  BY <1>0, <1>3 DEF Lists, MovesOnly, Listing, Deleting, Posting, Collection
<1>4. ASSUME Stalls(v)  PROVE RunSound(v)'
  BY <1>0, <1>4 DEF Stalls, MovesOnly, Listing, Deleting, Posting
<1>5. ASSUME Notifies(v)  PROVE RunSound(v)'
  BY <1>0, <1>5 DEF Notifies, MovesOnly, Listing, Deleting, Posting, After
<1>6. ASSUME StartsPosting(v)  PROVE RunSound(v)'
  BY <1>0, <1>6 DEF StartsPosting, MovesOnly, Listing, Deleting, Posting
<1>7. ASSUME Posts(v)  PROVE RunSound(v)'
  BY <1>0, <1>7 DEF Posts, MovesOnly, Listing, Deleting, Posting
<1>8. ASSUME StartsCities(v)  PROVE RunSound(v)'
  <2>1. CitiesPosted(run[v].count) \subseteq Cities
    BY DEF CitiesPosted
  <2> QED
    BY <1>0, <1>8, <2>1 DEF StartsCities, MovesOnly, Listing, Deleting, Posting, Collection
<1>9. ASSUME NEW k \in Keys, Deletes(v, k)  PROVE RunSound(v)'
  BY <1>0, <1>9 DEF Deletes, MovesOnly, Listing, Deleting, Posting
<1>10. ASSUME NEW c \in Cities, SetsCity(v, c)  PROVE RunSound(v)'
  BY <1>0, <1>10 DEF SetsCity, MovesOnly, Listing, Deleting, Posting
<1>11. ASSUME NEW refused \in BOOLEAN, Answered(refused)  PROVE RunSound(v)'
  <2> DEFINE w == Head(pending)
  <2>1. w \in Writes /\ 1 \in DOMAIN pending /\ w = pending[1]
    BY <1>0, <1>11, TailFacts DEF Answered
  <2>2. w.run = v => w.key \notin run[v].todo
    <3> SUFFICES ASSUME w.run = v PROVE w.key \notin run[v].todo
      OBVIOUS
    <3>1. CASE Grouped(w)
      BY <2>1, <3>1 DEF QueueSound, WritesSound
    <3>2. CASE ~Grouped(w)
      <4>1. w.key \in Ids /\ w.key \notin Cities
        BY <2>1, <3>2 DEF Grouped, Writes, Keys
      <4>2. run[v].phase \in Posting \cup {"done"}
        BY <2>1, <3>2 DEF QueueSound, WritesSound
      <4> QED
        BY <1>0, <4>1, <4>2 DEF Posting, Deleting, Collection
    <3> QED
      BY <3>1, <3>2
  <2> HIDE DEF w
  <2>3. /\ run'[v].phase = run[v].phase /\ run'[v].count = run[v].count
        /\ run'[v].todo = run[v].todo /\ run'[v].next = run[v].next
        /\ run'[v].awaiting = IF v = w.run /\ run[v].alive THEN run[v].awaiting \ {w.key}
                              ELSE run[v].awaiting
    BY <1>11, <2>1, LeaveStep DEF Answered, w
  <2> QED
    BY <1>0, <2>2, <2>3
<1>12. CASE CommitUnheard \/ UNCHANGED vars
  BY <1>0, <1>12 DEF CommitUnheard, vars
<1>13. CASE Die
  BY <1>0, <1>13, DieStep
<1> HIDE DEF RunSound
<1>14. ASSUME NEW r \in Runs, Steps(r)  PROVE RunSound(v)'
  BY <1>2, <1>3, <1>4, <1>5, <1>6, <1>7, <1>8, <1>9, <1>10, <1>14, StepWrites DEF Steps
<1> QED
  BY <1>1, <1>11, <1>12, <1>13, <1>14, NextCases

(* A write more, made by run r, leaves the other runs' writes as they were.    *)
LEMMA WritesAppend ==
    ASSUME TypeOK, NEW w \in Writes, pending' = Append(pending, w),
           NEW v \in Runs, WritesSound(v), v # w.run,
           run'[v] = run[v]
    PROVE  WritesSound(v)'
<1>1. /\ Len(pending) \in Nat /\ DOMAIN pending = 1..Len(pending)
      /\ DOMAIN pending' = 1..(Len(pending) + 1) /\ pending'[Len(pending) + 1] = w
      /\ \A i \in DOMAIN pending : pending'[i] = pending[i]
  BY AppendFacts DEF TypeOK
<1>2. \A i \in DOMAIN pending' : pending'[i].run = v => i \in DOMAIN pending /\ pending'[i] = pending[i]
  BY <1>1
<1> QED
  BY <1>2 DEF WritesSound, Grouped

(* One that the run makes itself has to fit in.                               *)
LEMMA WritesOwn ==
    ASSUME TypeOK, NEW w \in Writes, pending' = Append(pending, w),
           NEW v \in Runs, WritesSound(v), v = w.run,
           run'[v].phase = run[v].phase, run'[v].count = run[v].count,
           run'[v].awaiting = run[v].awaiting, run'[v].todo \subseteq run[v].todo,
           Grouped(w) =>
             /\ run[v].phase \in Deleting \cup {"settingCities"}
             /\ w.op = "delete" <=> run[v].phase \in Deleting
             /\ w.key \in run[v].awaiting \ run'[v].todo /\ w.key \in run[v].todo
             /\ w.op = "set" => w.ids = PostedIn(run[v].count, w.key),
           ~Grouped(w) => run[v].phase = "posting"
    PROVE  WritesSound(v)'
<1>1. /\ Len(pending) \in Nat /\ DOMAIN pending = 1..Len(pending)
      /\ DOMAIN pending' = 1..(Len(pending) + 1) /\ pending'[Len(pending) + 1] = w
      /\ \A i \in DOMAIN pending : pending'[i] = pending[i]
  BY AppendFacts DEF TypeOK
<1>2. \A i \in DOMAIN pending' : i \in DOMAIN pending \/ i = Len(pending) + 1
  BY <1>1
<1>3. \A i \in DOMAIN pending : pending[i].run = v /\ Grouped(pending[i]) => pending[i].key \notin run[v].todo
  BY DEF WritesSound
<1>4. ~Grouped(w) => \A i \in DOMAIN pending : pending[i].run = v => ~Grouped(pending[i])
  BY DEF WritesSound, Deleting
<1>5. \A i, j \in DOMAIN pending' :
        (i < j /\ pending'[i].run = v /\ pending'[j].run = v /\ Grouped(pending'[i])) =>
           Grouped(pending'[j]) /\ pending'[i].key # pending'[j].key
  <2> SUFFICES ASSUME NEW i \in DOMAIN pending', NEW j \in DOMAIN pending',
                      i < j, pending'[i].run = v, pending'[j].run = v, Grouped(pending'[i])
               PROVE  Grouped(pending'[j]) /\ pending'[i].key # pending'[j].key
    OBVIOUS
  <2>1. i \in DOMAIN pending /\ pending'[i] = pending[i]
    BY <1>1
  <2>2. CASE j \in DOMAIN pending
    BY <1>1, <2>1, <2>2 DEF WritesSound
  <2>3. CASE j = Len(pending) + 1
    BY <1>1, <1>3, <1>4, <2>1, <2>3
  <2> QED
    BY <1>2, <2>2, <2>3
<1>6. \A i \in DOMAIN pending' : pending'[i].run = v /\ Grouped(pending'[i]) =>
        /\ run[v].phase \in Deleting \cup {"settingCities"}
        /\ pending'[i].op = "delete" <=> run[v].phase \in Deleting
        /\ pending'[i].key \in run[v].awaiting \ run'[v].todo
        /\ pending'[i].op = "set" => pending'[i].ids = PostedIn(run[v].count, pending'[i].key)
  BY <1>1, <1>2 DEF WritesSound
<1>7. \A i \in DOMAIN pending' : pending'[i].run = v /\ ~Grouped(pending'[i]) =>
         run[v].phase \in Posting \cup {"done"}
  BY <1>1, <1>2 DEF WritesSound, Posting
<1> QED
  BY <1>5, <1>6, <1>7 DEF WritesSound, Grouped

(* Where the run only changes its phase, its writes have to suit the new one.   *)
LEMMA WritesStay ==
    ASSUME NEW v \in Runs, WritesSound(v), pending' = pending,
           \/ \A i \in DOMAIN pending : pending[i].run # v
           \/ /\ run'[v].phase = run[v].phase /\ run'[v].count = run[v].count
              /\ run'[v].todo = run[v].todo /\ run'[v].awaiting = run[v].awaiting
           \/ /\ \A i \in DOMAIN pending : pending[i].run = v => ~Grouped(pending[i])
              /\ run'[v].phase \in Posting \cup {"done"}
    PROVE  WritesSound(v)'
BY DEF WritesSound, Grouped

LEMMA WritesTail ==
    ASSUME TypeOK, pending # <<>>, pending' = Tail(pending),
           NEW v \in Runs, WritesSound(v),
           run'[v].phase = run[v].phase, run'[v].count = run[v].count, run'[v].todo = run[v].todo,
           \/ run'[v].awaiting = run[v].awaiting
           \/ /\ run'[v].awaiting = run[v].awaiting \ {Head(pending).key}
              /\ Head(pending).run = v /\ (Grouped(Head(pending)) \/ run[v].awaiting \subseteq Cities)
    PROVE  WritesSound(v)'
<1> DEFINE w == Head(pending)
<1>1. /\ Len(pending) \in Nat /\ Len(pending) >= 1 /\ DOMAIN pending = 1..Len(pending)
      /\ w = pending[1] /\ w \in Writes
      /\ DOMAIN pending' = 1..(Len(pending) - 1)
      /\ \A i \in DOMAIN pending' : i + 1 \in DOMAIN pending /\ pending'[i] = pending[i + 1]
  BY TailFacts DEF TypeOK
<1> HIDE DEF w
<1>2. \A i \in DOMAIN pending' :
        pending'[i].run = v /\ Grouped(pending'[i]) => pending'[i].key \in run'[v].awaiting
  <2> SUFFICES ASSUME NEW i \in DOMAIN pending', pending'[i].run = v, Grouped(pending'[i])
               PROVE  pending'[i].key \in run'[v].awaiting
    OBVIOUS
  <2>1. pending[i + 1].key \in run[v].awaiting
    BY <1>1 DEF WritesSound
  <2>2. CASE run'[v].awaiting = run[v].awaiting
    BY <1>1, <2>1, <2>2
  <2>3. CASE w.run = v /\ Grouped(w) /\ run'[v].awaiting = run[v].awaiting \ {w.key}
    <3>1. 1 < i + 1 /\ 1 \in DOMAIN pending
      BY <1>1
    <3>2. pending[1].key # pending[i + 1].key
      BY <1>1, <2>3, <3>1 DEF WritesSound
    <3> QED
      BY <1>1, <2>1, <2>3, <3>2
  <2>4. CASE ~Grouped(w) /\ run'[v].awaiting = run[v].awaiting \ {w.key}
                /\ run[v].awaiting \subseteq Cities
    <3>1. w.key \notin Cities
      BY <2>4 DEF Grouped
    <3> QED
      BY <1>1, <2>1, <2>4, <3>1
  <2> QED
    BY <2>2, <2>3, <2>4 DEF w
<1>3. \A i, j \in DOMAIN pending' :
        (i < j /\ pending'[i].run = v /\ pending'[j].run = v /\ Grouped(pending'[i])) =>
           Grouped(pending'[j]) /\ pending'[i].key # pending'[j].key
  <2> SUFFICES ASSUME NEW i \in DOMAIN pending', NEW j \in DOMAIN pending',
                      i < j, pending'[i].run = v, pending'[j].run = v, Grouped(pending'[i])
               PROVE  Grouped(pending'[j]) /\ pending'[i].key # pending'[j].key
    OBVIOUS
  <2>1. /\ i + 1 \in DOMAIN pending /\ pending'[i] = pending[i + 1]
        /\ j + 1 \in DOMAIN pending /\ pending'[j] = pending[j + 1] /\ i + 1 < j + 1
    BY <1>1
  <2> QED
    BY <2>1 DEF WritesSound
<1>4. \A i \in DOMAIN pending' : pending'[i].run = v /\ Grouped(pending'[i]) =>
        /\ run[v].phase \in Deleting \cup {"settingCities"}
        /\ pending'[i].op = "delete" <=> run[v].phase \in Deleting
        /\ pending'[i].key \notin run[v].todo
        /\ pending'[i].op = "set" => pending'[i].ids = PostedIn(run[v].count, pending'[i].key)
  BY <1>1 DEF WritesSound
<1>5. \A i \in DOMAIN pending' : pending'[i].run = v /\ ~Grouped(pending'[i]) =>
         run[v].phase \in Posting \cup {"done"}
  BY <1>1 DEF WritesSound
<1> QED
  BY <1>2, <1>3, <1>4, <1>5 DEF WritesSound, Grouped

LEMMA QueueStep == TypeOK /\ RunsSound /\ QueueSound /\ [Next]_vars => QueueSound'
<1> SUFFICES ASSUME TypeOK, RunsSound, QueueSound, [Next]_vars, NEW v \in Runs
             PROVE  WritesSound(v)'
  BY DEF QueueSound
<1>0. WritesSound(v) /\ RunSound(v) /\ pending \in Seq(Writes)
  BY DEF QueueSound, RunsSound, TypeOK
<1>1. ASSUME NEW r \in Runs, NEW n \in Counts, Tap(r, n)  PROVE WritesSound(v)'
  <2>1. CASE v = r
    <3>1. \A i \in DOMAIN pending : pending[i].run # v
      BY <1>0, <1>1, <2>1, TapStep DEF WritesSound, Used, Deleting, Posting
    <3> QED
      BY <1>0, <1>1, <3>1, TapStep, WritesStay
  <2>2. CASE v # r
    <3>1. pending' = pending
      BY <1>1, TapStep
    <3>2. /\ run'[v].phase = run[v].phase /\ run'[v].count = run[v].count
          /\ run'[v].todo = run[v].todo /\ run'[v].awaiting = run[v].awaiting
      BY <1>1, <2>2, TapOther
    <3> QED
      BY <1>0, <3>1, <3>2, WritesStay
  <2> QED
    BY <2>1, <2>2
<1>2. ASSUME NEW r \in Runs, MovesOnly(r), pending' = pending, v # r  PROVE WritesSound(v)'
  BY <1>0, <1>2, WritesStay DEF MovesOnly
<1>3. ASSUME NEW r \in Runs, MovesOnly(r), v # r,
             \E w \in Writes : w.run = r /\ pending' = Append(pending, w)
      PROVE  WritesSound(v)'
  BY <1>0, <1>3, WritesAppend DEF MovesOnly
<1>4. CASE Lists(v) \/ Stalls(v) \/ StartsPosting(v)
  <2>1. \A i \in DOMAIN pending : pending[i].run # v
    BY <1>0, <1>4 DEF WritesSound, Lists, Stalls, StartsPosting, Deleting, Posting, Listing
  <2> QED
    BY <1>0, <1>4, <2>1, WritesStay DEF Lists, Stalls, StartsPosting
<1>5. CASE Notifies(v)
  <2>1. \A i \in DOMAIN pending : pending[i].run = v => ~Grouped(pending[i])
    BY <1>0, <1>5 DEF WritesSound, Notifies
  <2>2. CASE run[v].phase \in Deleting
    <3>1. \A i \in DOMAIN pending : pending[i].run # v
      BY <1>0, <2>1, <2>2 DEF WritesSound, Deleting, Posting
    <3> QED
      BY <1>0, <1>5, <3>1, WritesStay DEF Notifies
  <2>3. CASE run[v].phase = "settingCities"
    BY <1>0, <1>5, <2>1, <2>3, WritesStay DEF Notifies, After
  <2> QED
    BY <1>5, <2>2, <2>3 DEF Notifies
<1>6. CASE StartsCities(v)
  <2>1. \A i \in DOMAIN pending : pending[i].run = v => ~Grouped(pending[i])
    BY <1>0, <1>6 DEF WritesSound, StartsCities, Deleting
  <2> QED
    BY <1>0, <1>6, <2>1, WritesStay DEF StartsCities, Posting
<1>7. CASE Posts(v)
  <2>1. CASE Feed[run[v].next].city = None
    <3>1. pending' = pending
      BY <1>7, <2>1, KeysAssumption DEF Posts, Keys
    <3> QED
      BY <1>0, <1>7, <3>1, WritesStay DEF Posts, MovesOnly
  <2>2. CASE Feed[run[v].next].city # None
    <3>1. PICK w \in Writes : /\ w.op = "set" /\ w.run = v /\ w.key \in Ids
                              /\ pending' = Append(pending, w)
      BY <1>7, <2>2, CallFacts
    <3>2. ~Grouped(w)
      BY <3>1, KeysAssumption DEF Grouped
    <3> QED
      BY <1>0, <1>7, <3>1, <3>2, WritesOwn DEF Posts, MovesOnly
  <2> QED
    BY <2>1, <2>2
<1>8. ASSUME NEW k \in Keys, Deletes(v, k)  PROVE WritesSound(v)'
  <2>1. PICK w \in Writes : /\ w.op = "delete" /\ w.key = k /\ w.run = v
                            /\ pending' = Append(pending, w)
    BY <1>8, CallFacts
  <2>2. Grouped(w)
    BY <2>1 DEF Grouped
  <2> QED
    BY <1>0, <1>8, <2>1, <2>2, WritesOwn DEF Deletes, MovesOnly, RunSound
<1>9. ASSUME NEW c \in Cities, SetsCity(v, c)  PROVE WritesSound(v)'
  <2>1. PICK w \in Writes : /\ w.op = "set" /\ w.key = c /\ w.run = v
                            /\ w.ids = PostedIn(run[v].count, c)
                            /\ pending' = Append(pending, w)
    BY <1>9, CallFacts
  <2>2. Grouped(w)
    BY <2>1 DEF Grouped
  <2> QED
    BY <1>0, <1>9, <2>1, <2>2, WritesOwn DEF SetsCity, MovesOnly, RunSound, Deleting
<1>10. ASSUME NEW refused \in BOOLEAN, Answered(refused)  PROVE WritesSound(v)'
  <2> DEFINE w == Head(pending)
  <2>1. w \in Writes /\ 1 \in DOMAIN pending /\ w = pending[1]
    BY <1>0, <1>10, TailFacts DEF Answered
  <2> HIDE DEF w
  <2>2. /\ run'[v].phase = run[v].phase /\ run'[v].count = run[v].count
        /\ run'[v].todo = run[v].todo
        /\ run'[v].awaiting = IF v = w.run /\ run[v].alive THEN run[v].awaiting \ {w.key}
                              ELSE run[v].awaiting
    BY <1>10, <2>1, LeaveStep DEF Answered, w
  <2>3. w.run = v => Grouped(w) \/ run[v].awaiting \subseteq Cities
    BY <1>0, <2>1 DEF WritesSound, RunSound, Collection, Posting, Deleting
  <2> QED
    BY <1>0, <1>10, <2>2, <2>3, WritesTail DEF Answered, w
<1>11. CASE CommitUnheard \/ UNCHANGED vars
  BY <1>0, <1>11, WritesStay DEF CommitUnheard, vars
<1>12. CASE Die
  BY <1>0, <1>12, DieStep, WritesStay
<1>13. ASSUME NEW r \in Runs, Steps(r)  PROVE WritesSound(v)'
  <2>1. CASE r = v
    BY <1>4, <1>5, <1>6, <1>7, <1>8, <1>9, <1>13, <2>1 DEF Steps
  <2>2. CASE r # v
    BY <1>2, <1>3, <1>13, <2>2, StepWrites
  <2> QED
    BY <2>1, <2>2
<1> QED
  BY <1>1, <1>10, <1>11, <1>12, <1>13, NextCases

-----------------------------------------------------------------------------
(* The order of runs and of their writes.                                      *)

(* All steps but a tap keep who is used and who is whose rival.                 *)
NoTap ==
    \/ \E r \in Runs : Steps(r)
    \/ \E refused \in BOOLEAN : Answered(refused)
    \/ CommitUnheard \/ Die \/ UNCHANGED vars

LEMMA NoTapFrame ==
    ASSUME TypeOK, NoTap, NEW u \in Runs
    PROVE  /\ Used(u)' <=> Used(u)
           /\ run'[u].rivals = run[u].rivals /\ run'[u].count = run[u].count
           /\ Active(u)' => Active(u)
           /\ run[u].flawed => run'[u].flawed
<1> DEFINE G == /\ Used(u)' <=> Used(u)
                /\ run'[u].rivals = run[u].rivals /\ run'[u].count = run[u].count
                /\ Active(u)' => Active(u)
                /\ run[u].flawed => run'[u].flawed
<1>1. ASSUME NEW r \in Runs, Steps(r)  PROVE G
  <2>1. MovesOnly(r)
    BY <1>1, StepWrites
  <2>2. CASE u # r
    BY <2>1, <2>2 DEF MovesOnly, Used, Active
  <2>3. CASE u = r
    <3>1. run'[r].phase # "unused"
      BY <1>1 DEF Steps, Lists, Stalls, Notifies, StartsPosting, Posts, StartsCities, Deletes,
                  SetsCity, After, Deleting
    <3> QED
      BY <2>1, <2>3, <3>1 DEF MovesOnly, Used, Active
  <2> QED
    BY <2>2, <2>3
<1>2. ASSUME NEW refused \in BOOLEAN, Answered(refused)  PROVE G
  <2>1. Head(pending) \in Writes
    BY <1>2, TailFacts DEF Answered, TypeOK
  <2> QED
    BY <1>2, <2>1, LeaveStep DEF Answered, Used, Active
<1>3. CASE CommitUnheard \/ UNCHANGED vars
  BY <1>3 DEF CommitUnheard, vars, Used, Active
<1>4. CASE Die
  BY <1>4, DieStep DEF Used, Active
<1> QED
  BY <1>1, <1>2, <1>3, <1>4 DEF NoTap

LEMMA TapOrNot == TypeOK /\ RunsSound /\ [Next]_vars => NoTap \/ \E r \in Runs, n \in Counts : Tap(r, n)
BY NextCases DEF NoTap

LEMMA PendingFacts ==
    ASSUME TypeOK, NEW i \in DOMAIN pending
    PROVE  /\ pending[i] \in Writes /\ pending[i].run \in Runs
           /\ pending[i].key \in Keys /\ pending[i].ids \in SUBSET Ids
<1>1. pending[i] \in Writes
  BY DEF TypeOK
<1> QED
  BY <1>1 DEF Writes

LEMMA PendingUsed ==
    ASSUME TypeOK, QueueSound, NEW i \in DOMAIN pending
    PROVE  pending[i].run \in Runs /\ Used(pending[i].run)
BY PendingFacts DEF QueueSound, WritesSound, Used, Deleting, Posting

(* Whoever makes a call follows every run in use.                              *)
LEMMA CallersFollow ==
    ASSUME TypeOK, NEW r \in Runs, Active(r), NEW v \in Runs, Used(v), RivalsKnown(v)
    PROVE  Follows(v, r)
<1>1. r \in Nat /\ v \in Nat
  BY RunsAssumption DEF Runs
<1>2. r = v \/ r > v \/ r < v
  BY <1>1
<1> QED
  BY <1>2 DEF RivalsKnown, Follows

LEMMA RivalsStep ==
    ASSUME TypeOK, RunsSound, [Next]_vars, RunsInOrder, \A r \in Runs : RivalsKnown(r)
    PROVE  RunsInOrder' /\ \A r \in Runs : RivalsKnown(r)'
<1>1. CASE NoTap
  BY <1>1, NoTapFrame, RunFacts DEF RunsInOrder, RivalsKnown
<1>2. ASSUME NEW r \in Runs, NEW n \in Counts, Tap(r, n)
      PROVE  RunsInOrder' /\ \A v \in Runs : RivalsKnown(v)'
  <2>1. /\ ~Used(r) /\ Used(r)' /\ \A u \in Runs : u < r => Used(u)
        /\ run'[r].rivals = {u \in Runs : Active(u)}
    BY <1>2, TapStep DEF Used
  <2>2. \A u \in Runs : u # r => (Used(u)' <=> Used(u)) /\ (Active(u)' <=> Active(u))
    BY <1>2, TapOther DEF Used, Active
  <2>3. \A u \in Runs : u # r =>
          run'[u].rivals = IF Active(u) THEN run[u].rivals \cup {r} ELSE run[u].rivals
    BY <1>2, TapOther
  <2>4. \A u \in Runs : Active(u) => Used(u)
    BY DEF Active, Used
  <2>5. \A u, v \in Runs : Used(v) /\ u < v => Used(u)
    BY DEF RunsInOrder
  <2>6. RunsInOrder'
    BY <2>1, <2>2, <2>5 DEF RunsInOrder
  <2>7. ASSUME NEW v \in Runs  PROVE RivalsKnown(v)'
    <3>1. CASE v = r
      <4>1. \A u \in run'[r].rivals : Used(u)'
        BY <2>1, <2>2, <2>4
      <4>2. \A u \in Runs : u < r /\ Active(u)' => u \in run'[r].rivals
        <5>1. \A u \in Runs : u < r => u # r
          BY RunsAssumption DEF Runs
        <5> QED
          BY <2>1, <2>2, <5>1
      <4> QED
        BY <3>1, <4>1, <4>2 DEF RivalsKnown
    <3>2. CASE v # r
      <4>1. \A u \in run'[v].rivals : Used(u)'
        <5> SUFFICES ASSUME NEW u \in run'[v].rivals PROVE Used(u)'
          OBVIOUS
        <5>1. u = r \/ u \in run[v].rivals
          BY <2>3, <3>2
        <5>2. u \in run[v].rivals => Used(u) /\ u \in Runs
          BY RunFacts DEF RivalsKnown
        <5> QED
          BY <2>1, <2>2, <5>1, <5>2
      <4>2. Used(v)' => \A u \in Runs : u < v /\ Active(u)' => u \in run'[v].rivals
        <5> SUFFICES ASSUME Used(v)', NEW u \in Runs, u < v, Active(u)'
                     PROVE  u \in run'[v].rivals
          OBVIOUS
        <5>1. Used(v)
          BY <2>2, <3>2
        <5>2. u # r
          BY <2>1, <2>5, <5>1
        <5>3. u \in run[v].rivals
          BY <2>2, <5>1, <5>2 DEF RivalsKnown
        <5> QED
          BY <2>3, <3>2, <5>3
      <4> QED
        BY <4>1, <4>2 DEF RivalsKnown
    <3> QED
      BY <3>1, <3>2
  <2> QED
    BY <2>6, <2>7
<1> QED
  BY <1>1, <1>2, TapOrNot

LEMMA QueueOrderStep ==
    ASSUME TypeOK, RunsSound, QueueSound, [Next]_vars, NEW v \in Runs, RivalsKnown(v), InQueueOrder(v)
    PROVE  InQueueOrder(v)'
<1>0. pending \in Seq(Writes) /\ Len(pending) \in Nat
  BY DEF TypeOK
<1>1. ASSUME NEW r \in Runs, NEW n \in Counts, Tap(r, n)  PROVE InQueueOrder(v)'
  <2>1. pending' = pending
    BY <1>1, TapStep
  <2>2. CASE v # r
    <3>1. run[v].rivals \subseteq run'[v].rivals
      BY <1>1, <2>2, TapOther
    <3> QED
      BY <2>1, <3>1 DEF InQueueOrder, Follows
  <2>3. CASE v = r
    <3>1. ~Used(v)
      BY <1>1, <2>3, TapStep
    <3> QED
      BY <2>1, <3>1, PendingUsed DEF InQueueOrder
  <2> QED
    BY <2>2, <2>3
<1>2. ASSUME run'[v].rivals = run[v].rivals, pending' = pending  PROVE InQueueOrder(v)'
  BY <1>2 DEF InQueueOrder, Follows
<1>3. ASSUME NEW r \in Runs, Steps(r)  PROVE InQueueOrder(v)'
  <2>1. Active(r) /\ run'[v].rivals = run[v].rivals
    BY <1>3, StepWrites DEF MovesOnly
  <2>2. ASSUME NEW w \in Writes, w.run = r, pending' = Append(pending, w)  PROVE InQueueOrder(v)'
    <3>1. /\ DOMAIN pending = 1..Len(pending)
          /\ DOMAIN pending' = 1..(Len(pending) + 1) /\ pending'[Len(pending) + 1] = w
          /\ \A i \in DOMAIN pending : pending'[i] = pending[i]
      BY <1>0, <2>2, AppendFacts
    <3>2. SUFFICES ASSUME NEW i \in DOMAIN pending', NEW j \in DOMAIN pending', i < j,
                          pending'[i].run = v
                   PROVE  Follows(v, pending'[j].run)
      BY <2>1 DEF InQueueOrder, Follows
    <3>3. i \in DOMAIN pending /\ pending'[i] = pending[i]
      BY <1>0, <3>1, <3>2
    <3>4. CASE j \in DOMAIN pending
      BY <3>1, <3>2, <3>3, <3>4 DEF InQueueOrder
    <3>5. CASE j \notin DOMAIN pending
      <4>1. pending'[j].run = r
        BY <1>0, <2>2, <3>1, <3>5
      <4>2. Used(v)
        BY <3>2, <3>3, PendingUsed
      <4> QED
        BY <2>1, <4>1, <4>2, CallersFollow
    <3> QED
      BY <3>4, <3>5
  <2> QED
    BY <1>2, <1>3, <2>1, <2>2, StepWrites
<1>4. ASSUME NEW refused \in BOOLEAN, Answered(refused)  PROVE InQueueOrder(v)'
  <2>1. /\ DOMAIN pending' = 1..(Len(pending) - 1)
        /\ \A i \in DOMAIN pending' : i + 1 \in DOMAIN pending /\ pending'[i] = pending[i + 1]
    BY <1>0, <1>4, TailFacts DEF Answered
  <2>2. run'[v].rivals = run[v].rivals
    BY <1>4, NoTapFrame DEF NoTap
  <2>3. \A i, j \in DOMAIN pending' : i < j => i + 1 < j + 1
    BY <1>0, <2>1
  <2> QED
    BY <2>1, <2>2, <2>3 DEF InQueueOrder, Follows
<1>5. CASE CommitUnheard \/ Die \/ UNCHANGED vars
  <2>1. pending' = pending
    BY <1>5, DieStep DEF CommitUnheard, vars
  <2>2. run'[v].rivals = run[v].rivals
    BY <1>5, NoTapFrame DEF NoTap
  <2> QED
    BY <1>2, <2>1, <2>2
<1> QED
  BY <1>1, <1>3, <1>4, <1>5, NextCases

LEMMA OldGoneStep ==
    ASSUME TypeOK, RunsSound, QueueSound, [Next]_vars, NEW v \in Runs,
           RivalsKnown(v), InQueueOrder(v), OldGone(v)
    PROVE  OldGone(v)'
<1>0. pending \in Seq(Writes) /\ Len(pending) \in Nat /\ RunSound(v) /\ WritesSound(v)
  BY DEF TypeOK, RunsSound, QueueSound
<1>1. ASSUME NEW r \in Runs, NEW n \in Counts, Tap(r, n)  PROVE OldGone(v)'
  <2>1. pending' = pending
    BY <1>1, TapStep
  <2>2. CASE v # r
    <3>1. /\ run[v].rivals \subseteq run'[v].rivals /\ run'[v].phase = run[v].phase
          /\ run'[v].awaiting = run[v].awaiting /\ run'[v].count = run[v].count
      BY <1>1, <2>2, TapOther
    <3> QED
      BY <2>1, <3>1 DEF OldGone, Follows, Grouped
  <2>3. CASE v = r
    BY <1>1, <2>3, TapStep DEF OldGone
  <2> QED
    BY <2>2, <2>3
<1>2. ASSUME pending' = pending, run'[v].rivals = run[v].rivals, run'[v].count = run[v].count,
             run'[v].awaiting = run[v].awaiting,
             run'[v].phase \in {"settingCities", "done"} => run[v].phase \in {"settingCities", "done"}
      PROVE  OldGone(v)'
  BY <1>2 DEF OldGone, Follows, Grouped
<1>3. ASSUME NEW r \in Runs, Steps(r)  PROVE OldGone(v)'
  <2>1. MovesOnly(r) /\ run'[v].rivals = run[v].rivals /\ run'[v].count = run[v].count
    BY <1>3, StepWrites, NoTapFrame DEF NoTap
  <2>2. ASSUME NEW w \in Writes, w.run = r, pending' = Append(pending, w),
               v = r => Grouped(w),
               run'[v].awaiting = run[v].awaiting, run'[v].phase = run[v].phase
        PROVE  OldGone(v)'
    <3>1. /\ DOMAIN pending = 1..Len(pending)
          /\ DOMAIN pending' = 1..(Len(pending) + 1) /\ pending'[Len(pending) + 1] = w
          /\ \A i \in DOMAIN pending : pending'[i] = pending[i]
      BY <1>0, <2>2, AppendFacts
    <3>2. SUFFICES ASSUME run[v].phase \in {"settingCities", "done"},
                          run[v].awaiting # CitiesPosted(run[v].count),
                          NEW i \in DOMAIN pending'
                   PROVE  Follows(v, pending'[i].run) /\ (pending'[i].run = v => Grouped(pending'[i]))
      BY <2>1, <2>2 DEF OldGone, Follows, Grouped
    <3>3. CASE i \in DOMAIN pending
      BY <3>1, <3>2, <3>3 DEF OldGone
    <3>4. CASE i \notin DOMAIN pending
      <4>1. pending'[i] = w
        BY <1>0, <3>1, <3>4
      <4>2. Follows(v, r)
        BY <2>1, <3>2, CallersFollow DEF Used, MovesOnly
      <4> QED
        BY <2>2, <4>1, <4>2
    <3> QED
      BY <3>3, <3>4
  <2>3. CASE v # r
    <3>1. run'[v] = run[v]
      BY <2>1, <2>3 DEF MovesOnly
    <3> QED
      BY <1>2, <1>3, <2>2, <2>3, <3>1, StepWrites
  <2>4. CASE v = r /\ run'[v].phase \notin {"settingCities", "done"}
    BY <2>4 DEF OldGone
  <2>5. CASE v = r /\ StartsCities(r)
    BY <2>5 DEF OldGone, StartsCities, MovesOnly
  <2>6. CASE v = r /\ Notifies(r) /\ run'[v].phase \in {"settingCities", "done"}
    <3>1. run[v].phase = "settingCities"
      BY <2>6 DEF Notifies, After, Deleting
    <3> QED
      BY <1>2, <2>1, <2>6, <3>1 DEF Notifies
  <2>7. ASSUME NEW c \in Cities, v = r, SetsCity(r, c)  PROVE OldGone(v)'
    <3>1. PICK w \in Writes : w.key = c /\ w.run = r /\ pending' = Append(pending, w)
      BY <2>7, CallFacts
    <3>2. Grouped(w)
      BY <3>1 DEF Grouped
    <3> QED
      BY <2>2, <2>7, <3>1, <3>2 DEF SetsCity
  <2>8. v = r => \/ run'[v].phase \notin {"settingCities", "done"}
                 \/ StartsCities(r) \/ Notifies(r)
                 \/ \E c \in Cities : SetsCity(r, c)
    BY <1>3 DEF Steps, Lists, Stalls, StartsPosting, Posts, Deletes, Deleting
  <2> QED
    BY <2>3, <2>4, <2>5, <2>6, <2>7, <2>8
<1>4. ASSUME NEW refused \in BOOLEAN, Answered(refused)  PROVE OldGone(v)'
  <2> DEFINE w == Head(pending)
  <2>1. /\ DOMAIN pending' = 1..(Len(pending) - 1)
        /\ \A i \in DOMAIN pending' : i + 1 \in DOMAIN pending /\ pending'[i] = pending[i + 1]
        /\ w \in Writes /\ 1 \in DOMAIN pending /\ w = pending[1]
    BY <1>0, <1>4, TailFacts DEF Answered
  <2> HIDE DEF w
  <2>2. /\ run'[v].phase = run[v].phase /\ run'[v].count = run[v].count
        /\ run'[v].rivals = run[v].rivals
        /\ run'[v].awaiting = IF v = w.run /\ run[v].alive THEN run[v].awaiting \ {w.key}
                              ELSE run[v].awaiting
    BY <1>4, <2>1, LeaveStep DEF Answered, w
  <2>3. SUFFICES ASSUME run[v].phase \in {"settingCities", "done"},
                        run'[v].awaiting # CitiesPosted(run[v].count),
                        NEW i \in DOMAIN pending'
                 PROVE  Follows(v, pending'[i].run) /\ (pending'[i].run = v => Grouped(pending'[i]))
    BY <2>2 DEF OldGone, Follows, Grouped
  <2>4. CASE run[v].awaiting # CitiesPosted(run[v].count)
    BY <2>1, <2>3, <2>4 DEF OldGone
  <2>5. CASE run[v].awaiting = CitiesPosted(run[v].count)
    <3>1. w.run = v /\ w.key \in run[v].awaiting
      BY <2>2, <2>3, <2>5
    <3>2. Grouped(w)
      BY <1>0, <2>3, <3>1 DEF RunSound, Collection, Grouped, Deleting
    <3>3. 1 < i + 1 /\ i + 1 \in DOMAIN pending /\ pending'[i] = pending[i + 1]
      BY <1>0, <2>1
    <3>4. Follows(v, pending[i + 1].run)
      BY <2>1, <3>1, <3>3 DEF InQueueOrder
    <3>5. pending[i + 1].run = v => Grouped(pending[i + 1])
      BY <1>0, <2>1, <3>1, <3>2, <3>3 DEF WritesSound
    <3> QED
      BY <3>3, <3>4, <3>5
  <2> QED
    BY <2>4, <2>5
<1>5. CASE CommitUnheard \/ Die \/ UNCHANGED vars
  <2>1. /\ pending' = pending /\ run'[v].rivals = run[v].rivals /\ run'[v].count = run[v].count
        /\ run'[v].awaiting = run[v].awaiting /\ run'[v].phase = run[v].phase
    BY <1>5, DieStep DEF CommitUnheard, vars
  <2> QED
    BY <1>2, <2>1
<1> QED
  BY <1>1, <1>3, <1>4, <1>5, NextCases

-----------------------------------------------------------------------------
(* What the steps do to the outcome.                                           *)

(* What will be there is seen by the client, found by a rebuild and deleted.    *)
LEMMA SeenSees ==
    ASSUME TypeOK, NEW k, Seen(k)
    PROVE  Sees(k, DOMAIN store)
<1>1. PICK X \in SUBSET Ids : Outcome(store, pending, Runs, k, X)
  BY DEF Seen, WillBe
<1>2. \A i \in DOMAIN pending : pending[i].run \in Runs
  BY PendingFacts
<1> QED
  BY <1>1, <1>2 DEF Outcome, LastOf, Sees, IsLastWrite

LEMMA WillBeCall ==
    ASSUME TypeOK, NEW w \in Writes, pending' = Append(pending, w), store' = store, NEW k, NEW X
    PROVE  WillBe(k, X)' <=> IF w.key = k THEN w.op = "set" /\ w.ids = X ELSE WillBe(k, X)
<1>1. w.run \in Runs /\ pending \in Seq(Writes)
  BY DEF TypeOK, Writes
<1>2. Outcome(store, Append(pending, w), Runs, k, X) <=>
        IF w.run \in Runs /\ w.key = k THEN w.op = "set" /\ w.ids = X
        ELSE Outcome(store, pending, Runs, k, X)
  BY <1>1, OutcomeAppend
<1> QED
  BY <1>1, <1>2 DEF WillBe

LEMMA WillBeAnswered ==
    ASSUME TypeOK, Answered(FALSE) \/ CommitUnheard, NEW k, NEW X
    PROVE  WillBe(k, X)' <=> WillBe(k, X)
<1>1. pending \in Seq(Writes) /\ pending # <<>> /\ store' = Apply(Head(pending))
  BY DEF TypeOK, Answered, CommitUnheard
<1>2. Head(pending).run \in Runs
  <2>1. Head(pending) \in Writes
    BY <1>1, TailFacts
  <2> QED
    BY <2>1 DEF Writes
<1>3. CASE Answered(FALSE)
  BY <1>1, <1>2, <1>3, OutcomeTail DEF WillBe, Answered
<1>4. CASE CommitUnheard
  BY <1>1, <1>2, <1>4, OutcomeUnheard DEF WillBe, CommitUnheard
<1> QED
  BY <1>3, <1>4

LEMMA CatalogueAt ==
    ASSUME NEW n, InRange(n)
    PROVE  /\ \A k \in SpotsPosted(n) : k \in Posted(n) /\ k \in Ids /\ Catalogue(n)[k] = {}
           /\ \A c \in CitiesPosted(n) :
                c \in Posted(n) /\ c \in Cities /\ Catalogue(n)[c] = PostedIn(n, c)
           /\ DOMAIN Catalogue(n) = Posted(n)
<1>1. SpotsPosted(n) \subseteq Ids /\ CitiesPosted(n) \subseteq Cities
  BY PostedInType
<1> QED
  BY <1>1, KeysAssumption DEF Catalogue, Posted

(* A rebuild's set writes put the document right, for its own catalogue.        *)
LEMMA SetsAreRight ==
    ASSUME TypeOK, RunsSound, NEW r \in Runs, NEW k0,
           \/ Posts(r) /\ Feed[run[r].next].city # None /\ k0 = Feed[run[r].next].id
           \/ k0 \in Cities /\ SetsCity(r, k0)
    PROVE  /\ InRange(run[r].count) /\ k0 \in Posted(run[r].count) /\ run[r].phase \in Posting
           /\ \A k, X : WillBe(k, X)' <=> IF k0 = k THEN X = Catalogue(run[r].count)[k0]
                                          ELSE WillBe(k, X)
<1> DEFINE n == run[r].count
<1>1. InRange(n) /\ run[r].phase \in Posting /\ store' = store
  BY DEF Posts, SetsCity, Posting, MovesOnly
<1>2. CASE Posts(r) /\ Feed[run[r].next].city # None /\ k0 = Feed[run[r].next].id
  <2>1. PICK w \in Writes : /\ w.op = "set" /\ w.key = k0 /\ w.ids = {}
                            /\ pending' = Append(pending, w)
    BY <1>2, CallFacts
  <2>2. run[r].next \in 1..n /\ Feed[run[r].next].city \in Cities
    BY <1>2, KeysAssumption DEF Posts, Keys
  <2>3. k0 \in PostedIn(n, Feed[run[r].next].city)
    BY <1>2, <2>2 DEF PostedIn
  <2>4. k0 \in SpotsPosted(n)
    BY <2>2, <2>3 DEF SpotsPosted
  <2>5. k0 \in Posted(n) /\ Catalogue(n)[k0] = {}
    BY <1>1, <2>4, CatalogueAt
  <2>6. \A k, X : WillBe(k, X)' <=> IF k0 = k THEN X = {} ELSE WillBe(k, X)
    BY <1>1, <2>1, WillBeCall
  <2> QED
    BY <1>1, <2>5, <2>6
<1>3. CASE k0 \in Cities /\ SetsCity(r, k0)
  <2>1. PICK w \in Writes : /\ w.op = "set" /\ w.key = k0 /\ w.ids = PostedIn(n, k0)
                            /\ pending' = Append(pending, w)
    BY <1>3, CallFacts
  <2>2. k0 \in CitiesPosted(n)
    BY <1>3 DEF SetsCity, RunsSound, RunSound
  <2>3. k0 \in Posted(n) /\ Catalogue(n)[k0] = PostedIn(n, k0)
    BY <1>1, <2>2, CatalogueAt
  <2>4. \A k, X : WillBe(k, X)' <=> IF k0 = k THEN X = PostedIn(n, k0) ELSE WillBe(k, X)
    BY <1>1, <2>1, WillBeCall
  <2> QED
    BY <1>1, <2>3, <2>4
<1> QED
  BY <1>2, <1>3

LEMMA DeletesGo ==
    ASSUME TypeOK, NEW r \in Runs, NEW k0 \in Keys, Deletes(r, k0)
    PROVE  \A k, X : WillBe(k, X)' <=> k0 # k /\ WillBe(k, X)
<1>1. PICK w \in Writes : w.op = "delete" /\ w.key = k0 /\ pending' = Append(pending, w)
  BY CallFacts
<1>2. store' = store
  BY DEF Deletes, MovesOnly
<1> QED
  BY <1>1, <1>2, WillBeCall

LEMMA OthersStay ==
    ASSUME TypeOK, pending' = pending, store' = store
    PROVE  \A k, X : WillBe(k, X)' <=> WillBe(k, X)
BY DEF WillBe

-----------------------------------------------------------------------------
(* Clean rebuilds.                                                            *)

(* Who is at work with a clean rebuild is the rebuild or a rival of it.         *)
LEMMA OnlyRivals ==
    ASSUME TypeOK, NEW v \in Runs, Clean(v), RivalsKnown(v), NEW r \in Runs, Active(r)
    PROVE  /\ r \in {v} \cup run[v].rivals
           /\ run[r].count = run[v].count
<1>1. Follows(v, r)
  BY CallersFollow DEF Clean
<1>2. r \in {v} \cup run[v].rivals
  BY <1>1 DEF Follows, Clean, NoLaterThan, Active
<1> QED
  BY <1>2 DEF Clean

(* A run can become clean only by its tap.                                    *)
LEMMA CleanBefore ==
    ASSUME TypeOK, RunsSound, Order, [Next]_vars, NEW v \in Runs, Used(v), Clean(v)'
    PROVE  /\ Clean(v) /\ run[v].rivals \subseteq run'[v].rivals /\ run'[v].count = run[v].count
           /\ \A r \in Runs, n \in Counts : Tap(r, n) => r # v /\ r \in run'[v].rivals
<1>1. CASE NoTap
  <2>1. \A u \in Runs : /\ Used(u)' <=> Used(u)
                        /\ run'[u].rivals = run[u].rivals /\ run'[u].count = run[u].count
                        /\ run[u].flawed => run'[u].flawed
    BY <1>1, NoTapFrame
  <2>2. run[v].rivals \subseteq Runs
    BY RunFacts
  <2>3. Clean(v)
    BY <2>1, <2>2 DEF Clean, NoLaterThan, Used
  <2>4. ASSUME NEW r \in Runs, NEW n \in Counts, Tap(r, n)  PROVE FALSE
    <3>1. ~Used(r) /\ Used(r)'
      BY <2>4, TapStep DEF Used
    <3> QED
      BY <2>1, <3>1
  <2> QED
    BY <2>1, <2>3, <2>4
<1>2. ASSUME NEW r \in Runs, NEW n \in Counts, Tap(r, n)
      PROVE  /\ Clean(v) /\ run[v].rivals \subseteq run'[v].rivals /\ run'[v].count = run[v].count
             /\ r # v /\ r \in run'[v].rivals
  <2>1. ~Used(r) /\ Used(r)' /\ r # v
    BY <1>2, TapStep DEF Used
  <2>2. \A u \in Runs : u # r => /\ run'[u].phase = run[u].phase /\ run'[u].count = run[u].count
                                 /\ run'[u].flawed = run[u].flawed
    BY <1>2, TapOther
  <2>3. run'[v].rivals = IF Active(v) THEN run[v].rivals \cup {r} ELSE run[v].rivals
    BY <1>2, <2>1, TapOther
  <2>4. \A u \in run[v].rivals : u \in Runs /\ u # r
    BY <2>1, RunFacts DEF Order, RivalsKnown
  <2>5. NoLaterThan(v)
    BY <2>1, <2>2, <2>3 DEF Clean, NoLaterThan, Used
  <2>6. \A u \in run[v].rivals : run[u].count = run[v].count
    BY <2>1, <2>2, <2>3, <2>4 DEF Clean
  <2>7. Clean(v)
    BY <2>1, <2>2, <2>5, <2>6 DEF Clean
  <2>8. r > v
    <3>1. ~(r < v)
      BY <2>1 DEF Order, RunsInOrder
    <3> QED
      BY <2>1, <3>1, RunsAssumption DEF Runs
  <2>9. r \in run'[v].rivals
    BY <2>1, <2>8 DEF Clean, NoLaterThan, Used
  <2> QED
    BY <2>1, <2>2, <2>3, <2>7, <2>9
<1> QED
  BY <1>1, <1>2, TapOrNot

(* After a refusal no run in use is clean.                                     *)
LEMMA RefusalsFlaw ==
    ASSUME TypeOK, NEW v \in Runs, Used(v), Answered(TRUE)
    PROVE  ~Clean(v)'
<1>1. Head(pending) \in Writes
  BY TailFacts DEF Answered, TypeOK
<1>2. run'[v].flawed
  BY <1>1, LeaveStep DEF Answered
<1> QED
  BY <1>2 DEF Clean

-----------------------------------------------------------------------------
(* Absence.                                                                   *)

LEMMA AbsenceStep ==
    ASSUME TypeOK, RunsSound, QueueSound, Order, [Next]_vars, NEW v \in Runs, Absence(v)
    PROVE  Absence(v)'
<1> SUFFICES ASSUME Clean(v)', NEW k \in Swept(v)', Seen(k)'
             PROVE  MayBeSeen(v, k)'
  BY DEF Absence
<1>0. RunSound(v) /\ RivalsKnown(v) /\ RunSound(v)'
  BY RunsStep DEF RunsSound, Order
<1>1. ASSUME NEW n \in Counts, Tap(v, n)  PROVE FALSE
  BY <1>1, TapStep DEF Swept, Posting
<1>2. Used(v)
  <2>1. CASE NoTap
    BY <2>1, NoTapFrame DEF Clean
  <2>2. ASSUME NEW r \in Runs, NEW n \in Counts, Tap(r, n), r # v  PROVE Used(v)
    <3>1. run'[v].phase = run[v].phase
      BY <2>2, TapOther
    <3> QED
      BY <3>1 DEF Clean, Used
  <2> QED
    BY <1>1, <2>1, <2>2, TapOrNot
<1>3. Clean(v) /\ run[v].rivals \subseteq run'[v].rivals /\ run'[v].count = run[v].count
  BY <1>2, CleanBefore
(* Where neither the outcome nor the run changes.                               *)
<1>4. ASSUME \A X : WillBe(k, X)' => WillBe(k, X),
             Swept(v)' \subseteq Swept(v),
             run[v].phase \in Posting \cup {"done"} => run'[v].phase \in Posting \cup {"done"}
      PROVE  MayBeSeen(v, k)'
  <2>1. k \in Swept(v) /\ Seen(k)
    BY <1>4 DEF Seen
  <2>2. MayBeSeen(v, k)
    BY <1>3, <2>1 DEF Absence
  <2> QED
    BY <1>3, <1>4, <2>2 DEF MayBeSeen
<1>5. ASSUME run'[v].phase = run[v].phase, run'[v].todo = run[v].todo
      PROVE  Swept(v)' = Swept(v)
  BY <1>5 DEF Swept
<1>6. ASSUME NEW r \in Runs, Steps(r)  PROVE MayBeSeen(v, k)'
  <2>1. MovesOnly(r) /\ Active(r)
    BY <1>6, StepWrites DEF MovesOnly
  <2>2. r \in {v} \cup run[v].rivals /\ run[r].count = run[v].count
    BY <1>0, <1>3, <2>1, OnlyRivals
  <2>3. run[v].phase \in Posting \cup {"done"} => run'[v].phase \in Posting \cup {"done"}
    <3>1. CASE v # r
      BY <2>1, <3>1 DEF MovesOnly
    <3>2. CASE v = r
      BY <1>6, <2>1, <3>2
         DEF Steps, Lists, Stalls, Notifies, StartsPosting, Posts, StartsCities, Deletes, SetsCity,
             After, Active, Ended, Posting, Listing, Deleting
    <3> QED
      BY <3>1, <3>2
  <2>4. v # r => Swept(v)' = Swept(v)
    BY <1>5, <2>1 DEF MovesOnly
  <2>5. CASE Stalls(r) \/ Notifies(r) \/ StartsPosting(r) \/ StartsCities(r)
    <3>1. \A X : WillBe(k, X)' <=> WillBe(k, X)
      BY <2>5, OthersStay DEF Stalls, Notifies, StartsPosting, StartsCities, MovesOnly
    <3>2. Swept(r)' \subseteq Swept(r)
      BY <2>5 DEF Stalls, Notifies, StartsPosting, StartsCities, Swept, After, Listing, Deleting,
                  Posting
    <3> QED
      BY <1>4, <2>3, <2>4, <3>1, <3>2
  <2>6. CASE Lists(r)
    <3>1. \A X : WillBe(k, X)' <=> WillBe(k, X)
      BY <2>6, OthersStay DEF Lists, MovesOnly
    <3>2. CASE v # r
      BY <1>4, <2>3, <2>4, <3>1, <3>2
    <3>3. CASE v = r
      <4>1. Seen(k)
        BY <3>1 DEF Seen
      <4>2. Sees(k, DOMAIN store)
        BY <4>1, SeenSees
      <4>3. ~run'[r].flawed
        BY <3>3 DEF Clean
      <4>4. k \in Collection(run[r].phase) => k \in run'[r].todo
        BY <2>6, <4>2, <4>3 DEF Lists
      <4>5. CASE run[r].phase = "listingSpots"
        <5>1. run'[r].phase = "deletingSpots" /\ Collection(run[r].phase) = Ids
          BY <2>6, <4>5 DEF Lists, Collection
        <5>2. k \in Ids \ run'[r].todo
          BY <3>3, <5>1 DEF Swept, Posting
        <5> QED
          BY <4>4, <5>1, <5>2
      <4>6. CASE run[r].phase = "listingCities"
        <5>0. run'[r].phase = "deletingCities" /\ Collection(run[r].phase) = Cities
          BY <2>6, <4>6 DEF Lists, Collection
        <5>1. k \in Keys \ run'[r].todo
          BY <3>3, <5>0 DEF Swept, Posting
        <5>2. k \in Ids
          BY <4>4, <5>0, <5>1 DEF Keys
        <5>3. k \in Swept(v)
          BY <3>3, <4>6, <5>2 DEF Swept, Posting
        <5>4. MayBeSeen(v, k)
          BY <1>3, <4>1, <5>3 DEF Absence
        <5> QED
          BY <1>3, <2>3, <5>4 DEF MayBeSeen
      <4> QED
        BY <2>6, <4>5, <4>6 DEF Lists, Listing
    <3> QED
      BY <3>2, <3>3
  <2>7. ASSUME NEW k0 \in Keys, Deletes(r, k0)  PROVE MayBeSeen(v, k)'
    <3>1. \A X : WillBe(k, X)' <=> k0 # k /\ WillBe(k, X)
      BY <2>7, DeletesGo
    <3>2. k0 # k /\ Seen(k)
      BY <3>1 DEF Seen
    <3>3. Swept(r)' \subseteq Swept(r) \cup {k0}
      BY <2>7 DEF Deletes, Swept
    <3>4. k \in Swept(v)
      BY <2>4, <3>2, <3>3
    <3>5. MayBeSeen(v, k)
      BY <1>3, <3>2, <3>4 DEF Absence
    <3> QED
      BY <1>3, <2>3, <3>5 DEF MayBeSeen
  <2>8. ASSUME NEW k0,
               \/ Posts(r) /\ Feed[run[r].next].city # None /\ k0 = Feed[run[r].next].id
               \/ k0 \in Cities /\ SetsCity(r, k0)
        PROVE  MayBeSeen(v, k)'
    <3>1. /\ InRange(run[r].count) /\ k0 \in Posted(run[r].count) /\ run[r].phase \in Posting
          /\ \A X : k0 # k => (WillBe(k, X)' <=> WillBe(k, X))
      BY <2>8, SetsAreRight
    <3>2. CASE k = k0
      <4>1. run'[v].rivals # {} \/ run'[v].phase \in Posting \cup {"done"}
        BY <1>3, <2>2, <2>3, <3>1
      <4> QED
        BY <1>3, <2>2, <3>1, <3>2, <4>1 DEF MayBeSeen
    <3>3. CASE k # k0
      <4>1. Swept(r)' \subseteq Swept(r)
        BY <2>8 DEF Posts, SetsCity, Swept, Posting
      <4> QED
        BY <1>4, <2>3, <2>4, <3>1, <3>3, <4>1
    <3> QED
      BY <3>2, <3>3
  <2>9. CASE Posts(r) /\ Feed[run[r].next].city = None
    <3>1. pending' = pending
      BY <2>9, KeysAssumption DEF Posts, Keys
    <3>2. \A X : WillBe(k, X)' <=> WillBe(k, X)
      BY <2>1, <3>1, OthersStay DEF MovesOnly
    <3>3. Swept(r)' \subseteq Swept(r)
      BY <2>9 DEF Posts, Swept, Posting
    <3> QED
      BY <1>4, <2>3, <2>4, <3>2, <3>3
  <2> QED
    BY <1>6, <2>5, <2>6, <2>7, <2>8, <2>9 DEF Steps
<1>7. ASSUME NEW r \in Runs, NEW n \in Counts, Tap(r, n), r # v  PROVE MayBeSeen(v, k)'
  <2>1. run'[v].phase = run[v].phase /\ run'[v].todo = run[v].todo
    BY <1>7, TapOther
  <2>2. \A X : WillBe(k, X)' <=> WillBe(k, X)
    BY <1>7, TapStep, OthersStay
  <2> QED
    BY <1>4, <1>5, <2>1, <2>2
<1>8. CASE Answered(FALSE) \/ CommitUnheard
  <2>1. run'[v].phase = run[v].phase /\ run'[v].todo = run[v].todo
    <3>1. Head(pending) \in Writes
      BY <1>8, TailFacts DEF Answered, CommitUnheard, TypeOK
    <3> QED
      BY <1>8, <3>1, LeaveStep DEF Answered, CommitUnheard
  <2>2. \A X : WillBe(k, X)' <=> WillBe(k, X)
    BY <1>8, WillBeAnswered
  <2> QED
    BY <1>4, <1>5, <2>1, <2>2
<1>9. CASE Answered(TRUE)
  BY <1>2, <1>9, RefusalsFlaw
<1>10. CASE Die \/ UNCHANGED vars
  <2>1. /\ run'[v].phase = run[v].phase /\ run'[v].todo = run[v].todo
        /\ pending' = pending /\ store' = store
    BY <1>10, DieStep DEF vars
  <2>2. \A X : WillBe(k, X)' <=> WillBe(k, X)
    BY <2>1, OthersStay
  <2> QED
    BY <1>4, <1>5, <2>1, <2>2
<1> QED
  BY <1>1, <1>6, <1>7, <1>8, <1>9, <1>10, NextCases

-----------------------------------------------------------------------------
(* Presence.                                                                  *)

LEMMA PostedSorts ==
    ASSUME NEW n, InRange(n), NEW k \in Posted(n)
    PROVE  /\ k \in Cities => k \in CitiesPosted(n)
           /\ k \notin Cities => \E i \in 1..n : Feed[i].id = k /\ Feed[i].city # None
<1>1. SpotsPosted(n) \subseteq Ids /\ CitiesPosted(n) \subseteq Cities
  BY PostedInType
<1>2. k \in Cities => k \in CitiesPosted(n)
  BY <1>1, KeysAssumption DEF Posted
<1>3. ASSUME k \notin Cities  PROVE \E i \in 1..n : Feed[i].id = k /\ Feed[i].city # None
  <2>1. k \in SpotsPosted(n)
    BY <1>1, <1>3 DEF Posted
  <2>2. PICK c \in Cities : k \in PostedIn(n, c)
    BY <2>1 DEF SpotsPosted
  <2>3. PICK i \in 1..n : Feed[i].city = c /\ Feed[i].id = k
    BY <2>2 DEF PostedIn
  <2> QED
    BY <2>3, KeysAssumption DEF Keys
<1> QED
  BY <1>2, <1>3

(* A run that owes a document goes on owing it until it posts it.               *)
LEMMA DebtsArePaid ==
    ASSUME TypeOK, RunsSound, NEW r \in Runs, Steps(r), NEW n, run[r].count = n, InRange(n),
           NEW k \in Posted(n), Owes(r, k)
    PROVE  Owes(r, k)' \/ WillBe(k, Catalogue(n)[k])'
<1>0. /\ MovesOnly(r) /\ run'[r].count = n /\ RunSound(r) /\ n \in Nat /\ run[r].next \in Nat
  BY StepWrites, RunFacts DEF MovesOnly, RunsSound
<1>1. CASE run'[r].phase \notin Posting \cup {"done"}
  BY <1>1 DEF Owes
<1>2. CASE Notifies(r) /\ run'[r].phase \in Posting \cup {"done"}
  <2>1. run[r].phase = "settingCities" /\ run[r].todo = {}
    BY <1>2 DEF Notifies, After, Deleting, Posting
  <2> QED
    BY <2>1 DEF Owes, Posting
<1>3. CASE StartsPosting(r)
  <2>1. run'[r].phase = "posting" /\ run'[r].next = 1
    BY <1>0, <1>3 DEF StartsPosting, RunSound
  <2> QED
    BY <1>0, <2>1, PostedSorts DEF Owes
<1>4. CASE Posts(r)
  <2>1. run'[r].phase = "posting" /\ run[r].phase = "posting" /\ run'[r].next = run[r].next + 1
    BY <1>4 DEF Posts
  <2>2. CASE k \in Cities
    BY <2>1, <2>2 DEF Owes
  <2>3. ASSUME NEW i \in run[r].next..n, Feed[i].id = k, Feed[i].city # None
        PROVE  Owes(r, k)' \/ WillBe(k, Catalogue(n)[k])'
    <3>1. CASE i = run[r].next
      <4>1. \A X : WillBe(k, X)' <=> X = Catalogue(n)[k]
        BY <1>4, <2>3, <3>1, SetsAreRight
      <4> QED
        BY <4>1
    <3>2. CASE i # run[r].next
      <4>1. i \in (run[r].next + 1)..n
        BY <1>0, <2>3, <3>2
      <4> QED
        BY <1>0, <2>1, <2>3, <4>1 DEF Owes
    <3> QED
      BY <3>1, <3>2
  <2> QED
    BY <2>1, <2>2, <2>3 DEF Owes, Posting
<1>5. CASE StartsCities(r)
  <2>1. /\ run'[r].phase = "settingCities" /\ run[r].phase = "posting" /\ run[r].next > n
        /\ run'[r].todo = CitiesPosted(n)
    BY <1>5 DEF StartsCities
  <2>2. CASE k \in Cities
    BY <2>1, <2>2, PostedSorts DEF Owes
  <2>3. CASE k \notin Cities
    <3>1. run[r].next..n = {}
      BY <1>0, <2>1
    <3> QED
      BY <2>1, <2>3, <3>1 DEF Owes, Posting
  <2> QED
    BY <2>2, <2>3
<1>6. ASSUME NEW c \in Cities, SetsCity(r, c)
      PROVE  Owes(r, k)' \/ WillBe(k, Catalogue(n)[k])'
  <2>1. /\ run'[r].phase = "settingCities" /\ run[r].phase = "settingCities"
        /\ run'[r].todo = run[r].todo \ {c}
    BY <1>6 DEF SetsCity
  <2>2. k \in run[r].todo
    BY <2>1 DEF Owes, Posting
  <2>3. CASE k = c
    <3>1. \A X : WillBe(k, X)' <=> X = Catalogue(n)[k]
      BY <1>6, <2>3, SetsAreRight
    <3> QED
      BY <3>1
  <2>4. CASE k # c
    BY <2>1, <2>2, <2>4 DEF Owes
  <2> QED
    BY <2>3, <2>4
<1> QED
  BY <1>1, <1>2, <1>3, <1>4, <1>5, <1>6
     DEF Steps, Lists, Stalls, Deletes, Posting, Deleting

(* A step of a rebuild with the same count leaves right what is right, or owes it. *)
LEMMA RightStays ==
    ASSUME TypeOK, RunsSound, NEW r \in Runs, Steps(r), NEW n, run[r].count = n, InRange(n),
           NEW k \in Posted(n), WillBe(k, Catalogue(n)[k])
    PROVE  Owes(r, k)' \/ WillBe(k, Catalogue(n)[k])'
<1>1. CASE pending' = pending
  <2>1. store' = store
    BY StepWrites DEF MovesOnly
  <2> QED
    BY <1>1, <2>1, OthersStay
<1>2. ASSUME NEW k0 \in Keys, Deletes(r, k0)  PROVE Owes(r, k)'
  BY <1>2 DEF Deletes, Owes, Deleting, Posting
<1>3. ASSUME NEW k0,
             \/ Posts(r) /\ Feed[run[r].next].city # None /\ k0 = Feed[run[r].next].id
             \/ k0 \in Cities /\ SetsCity(r, k0)
      PROVE  WillBe(k, Catalogue(n)[k])'
  <2>1. \A X : WillBe(k, X)' <=> IF k0 = k THEN X = Catalogue(n)[k0] ELSE WillBe(k, X)
    BY <1>3, SetsAreRight
  <2> QED
    BY <2>1
<1>4. Posts(r) /\ Feed[run[r].next].city = None => pending' = pending
  BY KeysAssumption DEF Posts, Keys
<1> QED
  BY <1>1, <1>2, <1>3, <1>4 DEF Steps, Lists, Stalls, Notifies, StartsPosting, StartsCities

LEMMA PresenceStep ==
    ASSUME TypeOK, RunsSound, QueueSound, Order, [Next]_vars, NEW v \in Runs, Presence(v)
    PROVE  Presence(v)'
<1> SUFFICES ASSUME Clean(v)', NEW n, n = run'[v].count, InRange(n), NEW k \in Posted(n)
             PROVE  \/ WillBe(k, Catalogue(n)[k])'
                    \/ \E u \in {v} \cup run'[v].rivals : Owes(u, k)'
  <2>1. ASSUME Clean(v)', InRange(run'[v].count)
        PROVE  \A k \in Posted(run'[v].count) :
                  \/ WillBe(k, Catalogue(run[v].count)[k])'
                  \/ \E u \in {v} \cup run'[v].rivals : Owes(u, k)'
    <3>1. PICK n : n = run'[v].count
      OBVIOUS
    <3>2. \A k \in Posted(n) : \/ WillBe(k, Catalogue(n)[k])'
                               \/ \E u \in {v} \cup run'[v].rivals : Owes(u, k)'
      BY <2>1, <3>1
    <3> QED
      BY <3>1, <3>2
  <2> QED
    BY <2>1 DEF Presence
<1> DEFINE G == \/ WillBe(k, Catalogue(n)[k])'
                \/ \E u \in {v} \cup run'[v].rivals : Owes(u, k)'
<1>0. RivalsKnown(v) /\ run[v].rivals \subseteq Runs
  BY RunFacts DEF Order
<1>1. ASSUME NEW m \in Counts, Tap(v, m)  PROVE G
  <2>1. run'[v].phase \notin Posting \cup {"done"}
    BY <1>1, TapStep DEF Posting
  <2> QED
    BY <2>1 DEF Owes
<1>2. CASE ~Used(v)
  <2>1. ~NoTap
    BY <1>2, NoTapFrame DEF Clean
  <2>2. PICK r \in Runs, m \in Counts : Tap(r, m)
    BY <2>1, TapOrNot
  <2>3. CASE r = v
    BY <1>1, <2>2, <2>3
  <2>4. CASE r # v
    <3>1. run'[v].phase = run[v].phase
      BY <2>2, <2>4, TapOther
    <3> QED
      BY <1>2, <3>1 DEF Clean, Used
  <2> QED
    BY <2>3, <2>4
<1>3. CASE Used(v)
  <2>1. Clean(v) /\ run[v].rivals \subseteq run'[v].rivals /\ n = run[v].count
    BY <1>3, CleanBefore
  <2>2. \/ WillBe(k, Catalogue(n)[k])
        \/ \E u \in {v} \cup run[v].rivals : Owes(u, k)
    BY <2>1 DEF Presence
  <2>3. ASSUME WillBe(k, Catalogue(n)[k])' <=> WillBe(k, Catalogue(n)[k]),
               \A u \in {v} \cup run[v].rivals : Owes(u, k) => Owes(u, k)'
        PROVE  G
    BY <2>1, <2>2, <2>3
  <2>4. ASSUME NEW u \in Runs, run'[u].phase = run[u].phase, run'[u].todo = run[u].todo,
               run'[u].next = run[u].next, run'[u].count = run[u].count
        PROVE  Owes(u, k)' <=> Owes(u, k)
    BY <2>4 DEF Owes
  <2>5. ASSUME NEW r \in Runs, Steps(r)  PROVE G
    <3>1. MovesOnly(r) /\ Active(r)
      BY <2>5, StepWrites DEF MovesOnly
    <3>2. r \in {v} \cup run[v].rivals /\ run[r].count = n
      BY <1>0, <2>1, <3>1, OnlyRivals
    <3>3. CASE WillBe(k, Catalogue(n)[k])
      <4>1. Owes(r, k)' \/ WillBe(k, Catalogue(n)[k])'
        BY <2>5, <3>2, <3>3, RightStays
      <4> QED
        BY <2>1, <3>2, <4>1
    <3>4. ASSUME NEW u \in {v} \cup run[v].rivals, Owes(u, k)  PROVE G
      <4>1. CASE u = r
        <5>1. Owes(r, k)' \/ WillBe(k, Catalogue(n)[k])'
          BY <2>5, <3>2, <3>4, <4>1, DebtsArePaid
        <5> QED
          BY <2>1, <3>2, <5>1
      <4>2. CASE u # r
        <5>1. u \in Runs /\ run'[u] = run[u]
          BY <1>0, <3>1, <3>4, <4>2 DEF MovesOnly
        <5>2. Owes(u, k)'
          BY <2>4, <3>4, <5>1
        <5> QED
          BY <2>1, <3>4, <5>2
      <4> QED
        BY <4>1, <4>2
    <3> QED
      BY <2>2, <3>3, <3>4
  <2>6. ASSUME NEW r \in Runs, NEW m \in Counts, Tap(r, m)  PROVE G
    <3>1. \A u \in {v} \cup run[v].rivals : u \in Runs /\ u # r
      <4>1. ~Used(r)
        BY <2>6, TapStep
      <4> QED
        BY <1>0, <1>3, <4>1 DEF RivalsKnown
    <3>2. ASSUME NEW u \in {v} \cup run[v].rivals  PROVE Owes(u, k)' <=> Owes(u, k)
      <4>1. /\ run'[u].phase = run[u].phase /\ run'[u].todo = run[u].todo
            /\ run'[u].next = run[u].next /\ run'[u].count = run[u].count
        BY <2>6, <3>1, <3>2, TapOther
      <4> QED
        BY <2>4, <3>1, <3>2, <4>1
    <3>3. WillBe(k, Catalogue(n)[k])' <=> WillBe(k, Catalogue(n)[k])
      BY <2>6, TapStep, OthersStay
    <3> QED
      BY <2>3, <3>2, <3>3
  <2>7. CASE Answered(FALSE) \/ CommitUnheard
    <3>1. WillBe(k, Catalogue(n)[k])' <=> WillBe(k, Catalogue(n)[k])
      BY <2>7, WillBeAnswered
    <3>2. Head(pending) \in Writes
      BY <2>7, TailFacts DEF Answered, CommitUnheard, TypeOK
    <3>3. \A u \in Runs : /\ run'[u].phase = run[u].phase /\ run'[u].todo = run[u].todo
                          /\ run'[u].next = run[u].next /\ run'[u].count = run[u].count
      BY <2>7, <3>2, LeaveStep DEF Answered, CommitUnheard
    <3> QED
      BY <1>0, <2>3, <2>4, <3>1, <3>3
  <2>8. CASE Answered(TRUE)
    BY <1>3, <2>8, RefusalsFlaw
  <2>9. CASE Die \/ UNCHANGED vars
    <3>1. pending' = pending /\ store' = store
      BY <2>9, DieStep DEF vars
    <3>2. WillBe(k, Catalogue(n)[k])' <=> WillBe(k, Catalogue(n)[k])
      BY <3>1, OthersStay
    <3>3. \A u \in Runs : /\ run'[u].phase = run[u].phase /\ run'[u].todo = run[u].todo
                          /\ run'[u].next = run[u].next /\ run'[u].count = run[u].count
      BY <2>9, DieStep DEF vars
    <3> QED
      BY <1>0, <2>3, <2>4, <3>2, <3>3
  <2> QED
    BY <2>5, <2>6, <2>7, <2>8, <2>9, NextCases
<1> QED
  BY <1>2, <1>3

-----------------------------------------------------------------------------
(* The cities of a rebuild that is alone.                                      *)

LEMMA CitiesOwnStep ==
    ASSUME TypeOK, RunsSound, QueueSound, Order, [Next]_vars, NEW v \in Runs,
           Absence(v), CitiesOwn(v)
    PROVE  CitiesOwn(v)'
<1> DEFINE Late == {"fetching", "done"} \cup Posting
<1> SUFFICES ASSUME Clean(v)', run'[v].rivals = {}, run'[v].phase \in Late,
                    NEW c \in Cities, SeenWithout(v, c)'
             PROVE  /\ run'[v].phase \in {"settingCities", "done"}
                    /\ c \in DOMAIN store' /\ store'[c] = PostedIn(run'[v].count, c)
                    /\ \A i \in DOMAIN pending' : pending'[i].run = v /\ Grouped(pending'[i])
  BY DEF CitiesOwn, Grouped
<1> DEFINE G == /\ run'[v].phase \in {"settingCities", "done"}
                /\ c \in DOMAIN store' /\ store'[c] = PostedIn(run'[v].count, c)
                /\ \A i \in DOMAIN pending' : pending'[i].run = v /\ Grouped(pending'[i])
<1>0. /\ RunSound(v) /\ WritesSound(v) /\ RivalsKnown(v) /\ InQueueOrder(v)
      /\ pending \in Seq(Writes) /\ c \in Keys
  BY DEF RunsSound, QueueSound, Order, TypeOK, Keys
<1>1. Used(v)
  <2>1. CASE NoTap
    BY <2>1, NoTapFrame DEF Clean
  <2>2. ASSUME NEW r \in Runs, NEW n \in Counts, Tap(r, n)  PROVE Used(v)
    <3>1. CASE r # v
      <4>1. run'[v].phase = run[v].phase
        BY <2>2, <3>1, TapOther
      <4> QED
        BY <4>1 DEF Clean, Used
    <3>2. CASE r = v
      BY <2>2, <3>2, TapStep DEF Posting
    <3> QED
      BY <3>1, <3>2
  <2> QED
    BY <2>1, <2>2, TapOrNot
<1>2. /\ Clean(v) /\ run[v].rivals = {} /\ run'[v].count = run[v].count
      /\ \A r \in Runs, n \in Counts : ~Tap(r, n)
  BY <1>1, CleanBefore
<1>3. ASSUME run[v].phase \in Late, SeenWithout(v, c)
      PROVE  /\ run[v].phase \in {"settingCities", "done"}
             /\ c \in DOMAIN store /\ store[c] = PostedIn(run[v].count, c)
             /\ \A i \in DOMAIN pending : pending[i].run = v /\ Grouped(pending[i])
  BY <1>2, <1>3 DEF CitiesOwn
<1>4. ASSUME NEW r \in Runs, Steps(r)  PROVE G
  <2>1. MovesOnly(v) /\ r = v
    <3>1. MovesOnly(r) /\ Active(r)
      BY <1>4, StepWrites DEF MovesOnly
    <3>2. r = v
      BY <1>0, <1>2, <3>1, OnlyRivals
    <3> QED
      BY <3>1, <3>2
  <2>2. SeenWithout(v, c)
    <3>1. CASE pending' = pending
      BY <2>1, <3>1 DEF SeenWithout, MovesOnly
    <3>2. ASSUME NEW w \in Writes, w.run = v, pending' = Append(pending, w)
          PROVE  SeenWithout(v, c)
      <4>1. w.run \notin Runs \ {v} /\ store' = store
        BY <2>1, <3>2 DEF MovesOnly
      <4>2. PICK X \in SUBSET Ids : Outcome(store, Append(pending, w), Runs \ {v}, c, X)
        BY <3>2, <4>1 DEF SeenWithout
      <4>3. Outcome(store, pending, Runs \ {v}, c, X)
        BY <1>0, <4>1, <4>2, OutcomeAppend
      <4> QED
        BY <4>3 DEF SeenWithout
    <3> QED
      BY <1>4, <2>1, <3>1, <3>2, StepWrites
  <2>3. CASE Notifies(v)
    <3>1. CASE run[v].phase = "deletingCities"
      <4>1. run[v].awaiting = {} /\ run[v].todo = {}
        BY <2>3 DEF Notifies
      <4>2. \A i \in DOMAIN pending : pending[i].run # v
        BY <1>0, <3>1, <4>1 DEF WritesSound, Posting
      <4>3. PICK X \in SUBSET Ids : Outcome(store, pending, Runs \ {v}, c, X)
        BY <2>2 DEF SeenWithout
      <4>4. \A i \in DOMAIN pending : pending[i].run \in Runs \ {v} <=> pending[i].run \in Runs
        BY <4>2
      <4>5. Outcome(store, pending, Runs, c, X)
        BY <4>3, <4>4 DEF Outcome, LastOf
      <4>6. Seen(c)
        BY <4>5 DEF Seen, WillBe
      <4>7. c \in Swept(v)
        BY <1>0, <3>1, <4>1 DEF Swept
      <4>8. MayBeSeen(v, c)
        BY <1>2, <4>6, <4>7 DEF Absence
      <4> QED
        BY <1>2, <3>1, <4>8 DEF MayBeSeen, Posting
    <3>2. CASE run[v].phase # "deletingCities"
      <4>1. run[v].phase = "settingCities" /\ run'[v].phase = "done"
        BY <2>3, <3>2 DEF Notifies, After, Deleting, Posting
      <4> QED
        BY <1>2, <1>3, <2>1, <2>2, <2>3, <4>1 DEF Notifies, MovesOnly, Posting
    <3> QED
      BY <3>1, <3>2
  <2>4. CASE StartsPosting(v) \/ Posts(v) \/ StartsCities(v)
    BY <1>3, <2>2, <2>4 DEF StartsPosting, Posts, StartsCities, Posting
  <2>5. ASSUME NEW c0 \in Cities, SetsCity(v, c0)  PROVE G
    <3>1. PICK w \in Writes : w.key = c0 /\ w.run = v /\ pending' = Append(pending, w)
      BY <2>5, CallFacts
    <3>2. /\ DOMAIN pending = 1..Len(pending) /\ Len(pending) \in Nat
          /\ DOMAIN pending' = 1..(Len(pending) + 1) /\ pending'[Len(pending) + 1] = w
          /\ \A i \in DOMAIN pending : pending'[i] = pending[i]
      BY <1>0, <3>1, AppendFacts
    <3>3. Grouped(w)
      BY <3>1 DEF Grouped
    <3>4. run[v].phase = "settingCities" /\ run'[v].phase = "settingCities" /\ store' = store
      BY <2>1, <2>5 DEF SetsCity, MovesOnly
    <3>5. /\ c \in DOMAIN store /\ store[c] = PostedIn(run[v].count, c)
          /\ \A i \in DOMAIN pending : pending[i].run = v /\ Grouped(pending[i])
      BY <1>3, <2>2, <3>4 DEF Posting
    <3>6. \A i \in DOMAIN pending' : pending'[i] = w \/ (i \in DOMAIN pending /\ pending'[i] = pending[i])
      BY <3>2
    <3>7. \A i \in DOMAIN pending' : pending'[i].run = v /\ Grouped(pending'[i])
      BY <3>1, <3>3, <3>5, <3>6
    <3> QED
      BY <1>2, <3>4, <3>5, <3>7
  <2>6. CASE Lists(v) \/ Stalls(v) \/ \E k \in Keys : Deletes(v, k)
    BY <2>6 DEF Lists, Stalls, Deletes, Posting, Deleting
  <2> QED
    BY <1>4, <2>1, <2>3, <2>4, <2>5, <2>6 DEF Steps
<1>5. CASE Answered(FALSE) \/ CommitUnheard
  <2> DEFINE w == Head(pending)
  <2>1. w \in Writes /\ 1 \in DOMAIN pending /\ w = pending[1] /\ DOMAIN pending = 1..Len(pending)
    <3>1. pending # <<>>
      BY <1>5 DEF Answered, CommitUnheard
    <3> QED
      BY <1>0, <3>1, TailFacts
  <2>2. store' = Apply(w) /\ pending # <<>>
    BY <1>5 DEF Answered, CommitUnheard
  <2>3. run'[v].phase = run[v].phase
    BY <1>5, <2>1, LeaveStep DEF Answered, CommitUnheard
  <2>4. \A i \in DOMAIN pending' : \E j \in DOMAIN pending : pending'[i] = pending[j]
    <3>1. CASE pending' = Tail(pending)
      BY <1>0, <2>2, <3>1, TailFacts
    <3>2. CASE pending' = pending
      BY <3>2
    <3> QED
      BY <1>5, <3>1, <3>2 DEF Answered, CommitUnheard
  <2>5. CASE w.run = v /\ w.key = c
    <3>1. Grouped(w)
      BY <2>5 DEF Grouped
    <3>2. run[v].phase = "settingCities" /\ w.op = "set" /\ w.ids = PostedIn(run[v].count, c)
      <4> HIDE DEF w
      <4>1. w.op \in {"set", "delete"}
        BY <2>1 DEF Writes
      <4> QED
        BY <1>0, <2>1, <2>3, <2>5, <3>1, <4>1 DEF WritesSound, Posting, Deleting
    <3>3. c \in DOMAIN store' /\ store'[c] = PostedIn(run[v].count, c)
      BY <2>1, <2>2, <2>5, <3>2, ApplyFacts
    <3>4. ASSUME NEW j \in DOMAIN pending  PROVE pending[j].run = v /\ Grouped(pending[j])
      <4> HIDE DEF w
      <4>1. CASE j = 1
        BY <2>1, <2>5, <3>1, <4>1
      <4>2. CASE j # 1
        <5>1. 1 < j
          BY <2>1, <4>2
        <5>2. Follows(v, pending[j].run)
          BY <1>0, <2>1, <2>5, <5>1 DEF InQueueOrder
        <5>3. pending[j].run \in Runs /\ Used(pending[j].run)
          BY PendingUsed
        <5>4. pending[j].run = v
          BY <1>2, <5>2, <5>3 DEF Follows, Clean, NoLaterThan, Used
        <5> QED
          BY <1>0, <2>1, <2>5, <3>1, <5>1, <5>4 DEF WritesSound
      <4> QED
        BY <4>1, <4>2
    <3> QED
      BY <1>2, <2>3, <2>4, <3>2, <3>3, <3>4
  <2>6. CASE ~(w.run = v /\ w.key = c)
    <3>1. w.run \in Runs \ {v} \/ w.key # c
      BY <2>1, <2>6 DEF Writes
    <3>2. PICK X \in SUBSET Ids : Outcome(store', pending', Runs \ {v}, c, X)
      BY DEF SeenWithout
    <3>3. Outcome(store, pending, Runs \ {v}, c, X)
      <4>1. CASE Answered(FALSE)
        BY <1>0, <2>2, <3>1, <3>2, <4>1, OutcomeTail DEF Answered
      <4>2. CASE CommitUnheard
        BY <1>0, <2>2, <3>1, <3>2, <4>2, OutcomeUnheard DEF CommitUnheard
      <4> QED
        BY <1>5, <4>1, <4>2
    <3>4. SeenWithout(v, c)
      BY <3>3 DEF SeenWithout
    <3>5. /\ run[v].phase \in {"settingCities", "done"}
          /\ c \in DOMAIN store /\ store[c] = PostedIn(run[v].count, c)
          /\ \A i \in DOMAIN pending : pending[i].run = v /\ Grouped(pending[i])
      BY <1>3, <2>3, <3>4
    <3>6. w.run = v
      BY <2>1, <3>5
    <3>7. w.key # c
      BY <2>6, <3>6
    <3>8. c \in DOMAIN store' /\ store'[c] = store[c]
      BY <2>1, <2>2, <3>5, <3>7, ApplyFacts
    <3> QED
      BY <1>2, <2>3, <2>4, <3>5, <3>8
  <2> QED
    BY <2>5, <2>6
<1>6. CASE Answered(TRUE)
  BY <1>1, <1>6, RefusalsFlaw
<1>7. CASE Die \/ UNCHANGED vars
  <2>1. run'[v].phase = run[v].phase /\ pending' = pending /\ store' = store
    BY <1>7, DieStep DEF vars
  <2>2. SeenWithout(v, c)
    BY <2>1 DEF SeenWithout
  <2> QED
    BY <1>2, <1>3, <2>1, <2>2
<1> QED
  BY <1>2, <1>4, <1>5, <1>6, <1>7, NextCases

-----------------------------------------------------------------------------
(* The invariant, and what it is for.                                          *)

LEMMA InitCatalogueInv == Init => CatalogueInv
<1> SUFFICES ASSUME Init PROVE CatalogueInv
  OBVIOUS
<1>1. TypeOK
  BY InitTypeOK
<1>2. ASSUME NEW r \in Runs
      PROVE  /\ run[r].phase = "unused" /\ run[r].todo = {} /\ run[r].awaiting = {}
             /\ run[r].next = 1 /\ run[r].rivals = {}
  BY DEF Init, Unused
<1>3. DOMAIN pending = {}
  BY DEF Init
<1>4. RunsSound
  BY <1>2 DEF RunsSound, RunSound, Posting
<1>5. QueueSound
  BY <1>3 DEF QueueSound, WritesSound
<1>6. Order
  BY <1>2, <1>3 DEF Order, RunsInOrder, RivalsKnown, InQueueOrder, OldGone, Used
<1>7. \A r \in Runs : ~Clean(r)
  BY <1>2 DEF Clean, Used
<1> QED
  BY <1>1, <1>4, <1>5, <1>6, <1>7 DEF CatalogueInv, Absence, Presence, CitiesOwn

LEMMA NextCatalogueInv == CatalogueInv /\ [Next]_vars => CatalogueInv'
<1> SUFFICES ASSUME CatalogueInv, [Next]_vars PROVE CatalogueInv'
  OBVIOUS
<1>1. TypeOK /\ RunsSound /\ QueueSound /\ Order
  BY DEF CatalogueInv
<1>2. TypeOK' /\ RunsSound' /\ QueueSound'
  BY <1>1, TypeStep, RunsStep, QueueStep
<1>3. Order'
  <2>1. RunsInOrder' /\ \A r \in Runs : RivalsKnown(r)'
    BY <1>1, RivalsStep DEF Order
  <2>2. \A r \in Runs : InQueueOrder(r)'
    BY <1>1, QueueOrderStep DEF Order
  <2>3. \A r \in Runs : OldGone(r)'
    BY <1>1, OldGoneStep DEF Order
  <2> QED
    BY <2>1, <2>2, <2>3 DEF Order
<1>4. ASSUME NEW r \in Runs  PROVE Absence(r)' /\ Presence(r)' /\ CitiesOwn(r)'
  <2>1. Absence(r) /\ Presence(r) /\ CitiesOwn(r)
    BY DEF CatalogueInv
  <2> QED
    BY <1>1, <2>1, AbsenceStep, PresenceStep, CitiesOwnStep
<1> QED
  BY <1>2, <1>3, <1>4 DEF CatalogueInv

LEMMA Converges == CatalogueInv => RebuildsConverge
<1> SUFFICES ASSUME CatalogueInv, NEW r \in Runs, Flawless(r), NoLaterThan(r),
                    CitiesPosted(run[r].count) # {} \/ pending = <<>>,
                    \A u \in run[r].rivals : Flawless(u) /\ run[u].count = run[r].count
             PROVE  store = Catalogue(run[r].count)
  BY DEF RebuildsConverge
<1> DEFINE n == run[r].count
           team == {r} \cup run[r].rivals
<1>0. /\ TypeOK /\ QueueSound /\ RunSound(r) /\ OldGone(r) /\ Absence(r) /\ Presence(r)
      /\ \A u \in Runs : WritesSound(u) /\ OldGone(u) /\ RunSound(u)
  BY DEF CatalogueInv, RunsSound, QueueSound, Order
<1>1. \A u \in team : u \in Runs /\ run[u].phase = "done" /\ run[u].count = n
  BY <1>0, RunFacts DEF Flawless
<1>2. Clean(r) /\ InRange(n)
  BY <1>0 DEF Clean, Used, Flawless, RunSound
(* Nothing is on its way any more.                                            *)
<1>3. DOMAIN pending = {}
  <2>1. CASE pending = <<>>
    BY <2>1
  <2>2. CASE CitiesPosted(n) # {}
    <3>1. \A u \in team : run[u].awaiting = {}
      BY <1>0, <1>1 DEF RunSound, Deleting
    <3>2. \A u \in team, i \in DOMAIN pending :
            Follows(u, pending[i].run) /\ (pending[i].run = u => Grouped(pending[i]))
      BY <1>0, <1>1, <2>2, <3>1 DEF OldGone
    <3>3. ASSUME NEW i \in DOMAIN pending  PROVE FALSE
      <4>1. pending[i].run \in Runs /\ Used(pending[i].run)
        BY <1>0, PendingUsed
      <4>2. pending[i].run \in team
        BY <3>2, <4>1 DEF Follows, NoLaterThan, Used
      <4>3. Grouped(pending[i])
        BY <3>2, <4>2
      <4> QED
        BY <1>0, <1>1, <4>2, <4>3 DEF WritesSound, Deleting
    <3> QED
      BY <3>3
  <2> QED
    BY <2>1, <2>2
<1>4. \A k, X : WillBe(k, X) <=> k \in DOMAIN store /\ store[k] = X
  BY <1>3 DEF WillBe, Outcome
<1>5. ASSUME NEW k \in Posted(n)  PROVE k \in DOMAIN store /\ store[k] = Catalogue(n)[k]
  <2>1. \A u \in team : ~Owes(u, k)
    BY <1>1 DEF Owes, Posting
  <2>2. WillBe(k, Catalogue(n)[k])
    BY <1>0, <1>2, <2>1 DEF Presence
  <2> QED
    BY <1>4, <2>2
<1>6. ASSUME NEW k \in DOMAIN store  PROVE k \in Posted(n)
  <2>1. k \in Keys /\ store[k] \in SUBSET Ids
    BY <1>0, StoreType DEF TypeOK
  <2>2. Seen(k)
    BY <1>4, <2>1 DEF Seen
  <2>3. k \in Swept(r)
    BY <1>1, <2>1 DEF Swept, Posting
  <2> QED
    BY <1>0, <1>2, <2>2, <2>3 DEF Absence, MayBeSeen
<1>7. DOMAIN store = Posted(n) /\ DOMAIN Catalogue(n) = Posted(n)
  BY <1>2, <1>5, <1>6, CatalogueAt
<1>8. store = [k \in DOMAIN store |-> store[k]]
  BY <1>0, StoreType DEF TypeOK
<1>9. Catalogue(n) = [k \in DOMAIN Catalogue(n) |-> Catalogue(n)[k]]
  BY DEF Catalogue
<1> HIDE DEF n
<1>10. store = Catalogue(n)
  BY <1>5, <1>7, <1>8, <1>9
<1> QED
  BY <1>10 DEF n

LEMMA ListedAreStored == CatalogueInv => CitiesListStoredSpots
<1> SUFFICES ASSUME CatalogueInv, NEW r \in Runs,
                    run[r].phase \in Posting \cup {"fetching", "done"},
                    ~run[r].flawed, run[r].rivals = {}, NoLaterThan(r),
                    \A i \in DOMAIN pending : pending[i].run = r,
                    NEW c \in Cities \cap DOMAIN store
             PROVE  store[c] \subseteq DOMAIN store
  BY DEF CitiesListStoredSpots
<1> DEFINE n == run[r].count
<1>0. TypeOK /\ RunSound(r) /\ Presence(r) /\ CitiesOwn(r)
  BY DEF CatalogueInv, RunsSound
<1>1. Clean(r)
  BY DEF Clean, Used, Posting
<1>2. SeenWithout(r, c)
  <2>1. store[c] \in SUBSET Ids
    BY <1>0, StoreType DEF TypeOK
  <2>2. \A i \in DOMAIN pending : pending[i].run \notin Runs \ {r}
    OBVIOUS
  <2>3. Outcome(store, pending, Runs \ {r}, c, store[c])
    BY <2>2 DEF Outcome
  <2> QED
    BY <2>1, <2>3 DEF SeenWithout
<1>3. /\ run[r].phase \in {"settingCities", "done"} /\ store[c] = PostedIn(n, c)
      /\ \A i \in DOMAIN pending : Grouped(pending[i])
  BY <1>0, <1>1, <1>2 DEF CitiesOwn
<1>4. InRange(n)
  BY <1>0, <1>3 DEF RunSound, Posting
<1> SUFFICES ASSUME NEW x \in PostedIn(n, c)
             PROVE  x \in DOMAIN store
  BY <1>3
<1>5. x \in SpotsPosted(n)
  BY DEF SpotsPosted
<1>6. x \in Posted(n) /\ x \in Ids /\ Catalogue(n)[x] = {} /\ x \notin Cities
  BY <1>4, <1>5, CatalogueAt, KeysAssumption
<1>7. ~Owes(r, x)
  BY <1>0, <1>3, <1>6 DEF Owes, RunSound, Collection, Posting, Deleting
<1>8. WillBe(x, {})
  BY <1>0, <1>1, <1>4, <1>6, <1>7 DEF Presence
<1>9. ASSUME NEW i \in DOMAIN pending, LastOf(pending, Runs, x, i), pending[i].op = "set"
      PROVE  FALSE
  BY <1>3, <1>6, <1>9 DEF LastOf, Grouped
<1> QED
  BY <1>8, <1>9 DEF WillBe, Outcome

LEMMA Invariant == Spec => []CatalogueInv
BY InitCatalogueInv, NextCatalogueInv, PTL DEF Spec

-----------------------------------------------------------------------------
(* The theorems.                                                              *)

(* The catalogue, the queue and the runs have their types, for every feed, every *)
(* number typed and every catalogue that was left behind: the chain of closures  *)
(* in ProfileViewController.apiButtonDidTap names only documents of the two      *)
(* collections.                                                               *)
THEOREM CatalogueTypes == Spec => []TypeOK
<1>1. CatalogueInv => TypeOK
  BY DEF CatalogueInv
<1> QED
  BY <1>1, Invariant, PTL

(* When the last rebuild is done, and it and those that ran into it with the     *)
(* same number have had no refusal, the server holds the catalogue downloaded,   *)
(* neither a document more nor one less, whatever earlier rebuilds left behind    *)
(* on the server or in the queue (API.postSpots and the cities after it).       *)
THEOREM Convergence == Spec => []RebuildsConverge
BY Converges, Invariant, PTL

(* While one rebuild is at work no city on the server lists a spot that is not    *)
(* there: the deletions come before the download, and the queue brings the       *)
(* spots, which nobody waits for, before the cities that list them.             *)
THEOREM CitiesAreBacked == Spec => []CitiesListStoredSpots
BY ListedAreStored, Invariant, PTL
=============================================================================
