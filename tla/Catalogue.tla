------------------------------ MODULE Catalogue ------------------------------
(***************************************************************************)
(* The catalogue of spots and cities on the server, and its rebuild by an  *)
(* administrator: delete every spot, delete every city, download the       *)
(* government's list, post its first spots and then the cities that list   *)
(* them.  A rebuild is a chain of closures without a lock: the button can  *)
(* be tapped again at any time, any call may fail, and the app may be      *)
(* killed, or trap on the number typed, at any point of the chain.         *)
(*                                                                         *)
(* Sources: Extension/API.swift, Profile/ProfileViewController.swift       *)
(* (apiButtonDidTap), Profile/ProfileTableViewCell.swift, Model/Spot.swift *)
(* (CityEnum).  One device; its writes reach the server through one queue  *)
(* (Firestore's mutation queue, see Favorites).                            *)
(***************************************************************************)
EXTENDS Naturals, Sequences

CONSTANTS
    Ids,      \* spot ids, which are also the names of the documents in Spots
    Cities,   \* the members of CityEnum, the names of the documents in Cities
    Feed,     \* the downloaded list, in order
    Counts,   \* the numbers that may be typed
    Stores,   \* the catalogues an earlier use may have left behind
    MaxRuns,  \* bound on the taps of the button
    None      \* nil

Runs == 1..MaxRuns
Keys == Ids \cup Cities

ASSUME RunsAssumption == MaxRuns \in Nat
ASSUME KeysAssumption == Ids \cap Cities = {} /\ None \notin Keys
ASSUME CountsAssumption == Counts \subseteq Nat
ASSUME FeedAssumption == Feed \in Seq([id : Ids, city : Cities \cup {None}])
ASSUME StoresAssumption ==
    \A old \in Stores : old \in UNION {[S -> SUBSET Ids] : S \in SUBSET Keys}

VARIABLES
    store,    \* the documents on the server; a city's value is its cityIds, a spot's is {}
    pending,  \* the device's writes that the server has not acknowledged, in order
    run       \* per tap of the button: how far its chain of closures has come

vars == <<store, pending, run>>

-----------------------------------------------------------------------------
(* Documents and writes.                                                      *)

Catalogues == UNION {[S -> SUBSET Ids] : S \in SUBSET Keys}
Writes == [op : {"set", "delete"}, key : Keys, ids : SUBSET Ids, run : Runs]

Apply(w) ==
    IF w.op = "delete" THEN [k \in DOMAIN store \ {w.key} |-> store[k]]
    ELSE [k \in DOMAIN store \cup {w.key} |-> IF k = w.key THEN w.ids ELSE store[k]]

(* Whether the client sees a document: its last pending write decides, and the  *)
(* base (the server's documents or the cached ones) where no write is pending.  *)
IsLastWrite(k, i) ==
    /\ pending[i].key = k
    /\ \A j \in DOMAIN pending : j > i => pending[j].key # k
Sees(k, base) ==
    \/ \E i \in DOMAIN pending : IsLastWrite(k, i) /\ pending[i].op = "set"
    \/ k \in base /\ \A i \in DOMAIN pending : pending[i].key # k

(* The part of the feed that is posted: spots of a city of CityEnum.           *)
PostedIn(n, c) == {Feed[i].id : i \in {j \in 1..n : Feed[j].city = c}}
(* Variants named ...Variant, here and below, are not part of the              *)
(* specification: each is its neighbour with one mistake in it, and shows that *)
(* some property would notice.  This one takes every region for a city.        *)
CitiesPostedVariant(n) == {Feed[i].city : i \in 1..n}
CitiesPosted(n) == {c \in Cities : PostedIn(n, c) # {}}
SpotsPosted(n) == UNION {PostedIn(n, c) : c \in Cities}

-----------------------------------------------------------------------------
Listing == {"listingSpots", "listingCities"}
Deleting == {"deletingSpots", "deletingCities"}
Posting == {"posting", "settingCities"}
Ended == {"done", "stalled"}
Phases == {"unused", "fetching"} \cup Listing \cup Deleting \cup Posting \cup Ended

(* The collection that a phase is about.                                      *)
Collection(phase) ==
    IF phase \in {"listingSpots", "deletingSpots"} THEN Ids ELSE Cities

(* What follows when the dispatch group of a phase is empty.                   *)
After(phase) == CASE phase = "deletingSpots" -> "listingCities"
                  [] phase = "deletingCities" -> "fetching"
                  [] OTHER -> "done"

(* todo: calls the current loop has yet to make; awaiting: its dispatch group; *)
(* next: index into the feed.  alive, flawed and rivals say what became of the *)
(* run and are read by the properties only (but for alive, without which no     *)
(* closure runs): killed with the app; a write refused since the tap, whoever   *)
(* queued it, or a list read offline; the runs under way at the same time.     *)
RunRecords ==
    [phase : Phases, count : Nat, todo : SUBSET Keys, awaiting : SUBSET Keys,
     next : Nat, alive : BOOLEAN, flawed : BOOLEAN, rivals : SUBSET Runs]
Unused == [phase |-> "unused", count |-> 0, todo |-> {}, awaiting |-> {},
           next |-> 1, alive |-> TRUE, flawed |-> FALSE, rivals |-> {}]

Active(r) == run[r].alive /\ run[r].phase \notin {"unused"} \cup Ended

(* The loops of the two deletions run on the main queue, one closure at a time;*)
(* posting runs on the session's delegate queue, which is serial too.          *)
MainQueueFree == \A r \in Runs :
    ~(Active(r) /\ run[r].phase \in Deleting /\ run[r].todo # {})
DelegateQueueFree == \A r \in Runs :
    ~(Active(r) /\ (run[r].phase = "posting"
                      \/ (run[r].phase = "settingCities" /\ run[r].todo # {})))

TypeOK ==
    /\ store \in Catalogues
    /\ pending \in Seq(Writes)
    /\ run \in [Runs -> RunRecords]

Init ==
    /\ store \in Stores
    /\ pending = <<>>
    /\ run = [r \in Runs |-> Unused]

Queue(r, op, key, ids) ==
    pending' = Append(pending, [op |-> op, key |-> key, ids |-> ids, run |-> r])
Move(r, phase) == run' = [run EXCEPT ![r].phase = phase]

-----------------------------------------------------------------------------
(* The administrator's button, once the text is a number.  Nothing keeps it     *)
(* from being tapped while a rebuild is under way.                             *)
Tap(r, n) ==
    LET others == {u \in Runs : Active(u)} IN
    /\ run[r].phase = "unused"
    /\ \A u \in 1..(r - 1) : run[u].phase # "unused"
    /\ MainQueueFree
    /\ run' = [u \in Runs |->
         IF u = r THEN [Unused EXCEPT !.phase = "listingSpots", !.count = n, !.rivals = others]
         ELSE IF u \in others THEN [run[u] EXCEPT !.rivals = @ \cup {r}] ELSE run[u]]
    /\ UNCHANGED <<store, pending>>

(* getDocuments answers; the closure enters its group once per document.       *)
Listed(r, base, flawed) ==
    LET found == {k \in Collection(run[r].phase) : Sees(k, base)}
        deleting == IF run[r].phase = "listingSpots" THEN "deletingSpots" ELSE "deletingCities"
    IN
    /\ Active(r) /\ run[r].phase \in Listing
    /\ MainQueueFree
    /\ run' = [run EXCEPT ![r] =
         [@ EXCEPT !.phase = deleting, !.todo = found, !.awaiting = found,
                   !.flawed = run[r].flawed \/ flawed]]
    /\ UNCHANGED <<store, pending>>

ListedOnline(r) == Listed(r, DOMAIN store, FALSE)
(* Offline, a query is answered with whatever the cache happens to hold.       *)
ListedOffline(r) == \E cached \in SUBSET Collection(run[r].phase) : Listed(r, cached, TRUE)

(* An error leaves snapshot nil: the completion is never called.               *)
ListFailed(r) ==
    /\ Active(r) /\ run[r].phase \in Listing
    /\ MainQueueFree
    /\ Move(r, "stalled")
    /\ UNCHANGED <<store, pending>>

(* One pass of the loop that deletes.                                          *)
Delete(r, k) ==
    /\ Active(r) /\ run[r].phase \in Deleting
    /\ k \in run[r].todo
    /\ Queue(r, "delete", k, {})
    /\ run' = [run EXCEPT ![r].todo = @ \ {k}]
    /\ UNCHANGED store

(* Does not wait for the calls that have been made.                            *)
NotifiedVariant(r) ==
    /\ Active(r) /\ run[r].phase \in Deleting \cup {"settingCities"}
    /\ run[r].todo = {}
    /\ MainQueueFree
    /\ Move(r, After(run[r].phase))
    /\ UNCHANGED <<store, pending>>

(* dispatchGroup.notify                                                       *)
Notified(r) ==
    /\ Active(r) /\ run[r].phase \in Deleting \cup {"settingCities"}
    /\ run[r].todo = {} /\ run[r].awaiting = {}
    /\ MainQueueFree
    /\ Move(r, After(run[r].phase))
    /\ UNCHANGED <<store, pending>>

-----------------------------------------------------------------------------
(* The process ends; what it had put into the queue is on disk and will be sent. *)
Die ==
    /\ run' = [r \in Runs |-> IF Active(r) THEN [run[r] EXCEPT !.alive = FALSE] ELSE run[r]]
    /\ UNCHANGED <<store, pending>>

Restart == (\E r \in Runs : Active(r)) /\ Die

(* info[0...count - 1] is in range.                                           *)
InRange(n) == n \in 1..Len(Feed)

FeedArrives(r) ==
    /\ Active(r) /\ run[r].phase = "fetching"
    /\ DelegateQueueFree
    /\ InRange(run[r].count)
    /\ Move(r, "posting")
    /\ UNCHANGED <<store, pending>>

(* It is not (a negative number is as bad as 0): Swift traps, after everything  *)
(* has been deleted.  An entry that lacks a field Spot's initialiser forces     *)
(* traps too, which is a Restart at this point.                                *)
FeedTraps(r) ==
    /\ Active(r) /\ run[r].phase = "fetching"
    /\ DelegateQueueFree
    /\ ~InRange(run[r].count)
    /\ Die

(* No connection, or an answer of another shape: getTaiwanSpots just returns.  *)
FeedFails(r) ==
    /\ Active(r) /\ run[r].phase = "fetching"
    /\ DelegateQueueFree
    /\ Move(r, "stalled")
    /\ UNCHANGED <<store, pending>>

(* One pass of the loop of postSpots; its writes enter no group.               *)
PostSpot(r) ==
    LET spot == Feed[run[r].next] IN
    /\ Active(r) /\ run[r].phase = "posting"
    /\ run[r].next <= run[r].count
    /\ IF spot.city = None THEN UNCHANGED pending ELSE Queue(r, "set", spot.id, {})
    /\ run' = [run EXCEPT ![r].next = @ + 1]
    /\ UNCHANGED store

(* Returns before the last spot is posted.                                     *)
PostedSpotsVariant(r) ==
    LET cities == CitiesPosted(run[r].count) IN
    /\ Active(r) /\ run[r].phase = "posting"
    /\ run[r].next >= run[r].count
    /\ run' = [run EXCEPT ![r] =
         [@ EXCEPT !.phase = "settingCities", !.todo = cities, !.awaiting = cities]]
    /\ UNCHANGED <<store, pending>>

(* postSpots returns the cities and their spots.                               *)
PostedSpots(r) ==
    LET cities == CitiesPosted(run[r].count) IN
    /\ Active(r) /\ run[r].phase = "posting"
    /\ run[r].next > run[r].count
    /\ run' = [run EXCEPT ![r] =
         [@ EXCEPT !.phase = "settingCities", !.todo = cities, !.awaiting = cities]]
    /\ UNCHANGED <<store, pending>>

(* One pass of the loop over the dictionary of cities, in no certain order.    *)
SetCity(r, c) ==
    /\ Active(r) /\ run[r].phase = "settingCities"
    /\ c \in run[r].todo
    /\ Queue(r, "set", c, PostedIn(run[r].count, c))
    /\ run' = [run EXCEPT ![r].todo = @ \ {c}]
    /\ UNCHANGED store

-----------------------------------------------------------------------------
(* Firestore: the writes of the device, in order.                              *)

(* Returns on an error before it leaves the group.                             *)
LeaveVariant(w, refused) ==
    run' = [r \in Runs |->
      [run[r] EXCEPT !.awaiting = IF r = w.run /\ run[r].alive /\ ~refused
                                  THEN @ \ {w.key} ELSE @,
                     !.flawed = @ \/ (refused /\ run[r].phase # "unused")]]

(* The completion of a call leaves its group, error or not.                    *)
Leave(w, refused) ==
    run' = [r \in Runs |->
      [run[r] EXCEPT !.awaiting = IF r = w.run /\ run[r].alive THEN @ \ {w.key} ELSE @,
                     !.flawed = @ \/ (refused /\ run[r].phase # "unused")]]

Commit ==
    /\ pending # <<>>
    /\ store' = Apply(Head(pending))
    /\ pending' = Tail(pending)
    /\ Leave(Head(pending), FALSE)

(* Applied, but the acknowledgement is lost: the write will be sent again.     *)
CommitUnheard ==
    /\ pending # <<>>
    /\ store' = Apply(Head(pending))
    /\ UNCHANGED <<pending, run>>

(* The server refuses the write; the error is printed.                         *)
Refuse ==
    /\ pending # <<>>
    /\ pending' = Tail(pending)
    /\ Leave(Head(pending), TRUE)
    /\ UNCHANGED store

-----------------------------------------------------------------------------
RunStep(r) ==
    \/ ListedOnline(r) \/ ListedOffline(r) \/ ListFailed(r)
    \/ \E k \in Keys : Delete(r, k)
    \/ Notified(r)
    \/ FeedArrives(r) \/ FeedTraps(r) \/ FeedFails(r)
    \/ PostSpot(r) \/ PostedSpots(r)
    \/ \E c \in Cities : SetCity(r, c)

Next ==
    \/ \E r \in Runs, n \in Counts : Tap(r, n)
    \/ \E r \in Runs : RunStep(r)
    \/ Commit \/ CommitUnheard \/ Refuse
    \/ Restart

Spec == Init /\ [][Next]_vars

(* Queries and downloads are answered in the end or fail, the run loop runs,   *)
(* and the server answers the first write in the end.                          *)
Fairness == WF_vars(Commit \/ Refuse) /\ \A r \in Runs : WF_vars(RunStep(r))

FairSpec == Spec /\ Fairness

-----------------------------------------------------------------------------
(* Properties.                                                                *)

(* The catalogue that a rebuild with count n is meant to leave.                *)
Catalogue(n) ==
    [k \in SpotsPosted(n) \cup CitiesPosted(n) |->
        IF k \in Cities THEN PostedIn(n, k) ELSE {}]

Flawless(r) == run[r].phase = "done" /\ ~run[r].flawed
NoLaterThan(r) == \A u \in Runs : u > r => run[u].phase = "unused" \/ u \in run[r].rivals

(* Rebuilds heal and converge.  Whatever earlier failures and interruptions    *)
(* have left behind, when the last rebuild calls its completion, all its calls  *)
(* having succeeded, the catalogue is the one downloaded; and so it is when     *)
(* several rebuilds with the same number have run into each other.  Although    *)
(* the completion waits for the cities only, the spots are there as well; but a *)
(* rebuild that posts none waits for nothing, and what a killed one had queued  *)
(* may still be on its way.                                                    *)
RebuildsConverge ==
    \A r \in Runs :
        (/\ Flawless(r) /\ NoLaterThan(r)
         /\ CitiesPosted(run[r].count) # {} \/ pending = <<>>
         /\ \A u \in run[r].rivals : Flawless(u) /\ run[u].count = run[r].count)
            => store = Catalogue(run[r].count)

(* A reader who finds a city finds its spots: from the download on, and even    *)
(* if the app is killed on the way, no city lists a spot that is not there,     *)
(* as long as a single rebuild is at work, what a killed one had queued is      *)
(* through, and no write is refused.                                           *)
CitiesListStoredSpots ==
    \A r \in Runs :
        (/\ run[r].phase \in Posting \cup {"fetching", "done"}
         /\ ~run[r].flawed /\ run[r].rivals = {} /\ NoLaterThan(r)
         /\ \A i \in DOMAIN pending : pending[i].run = r)
            => \A c \in Cities \cap DOMAIN store : store[c] \subseteq DOMAIN store

(* No rebuild hangs: it calls its completion, is given up or is killed.        *)
RebuildsEnd == \A r \in Runs : Active(r) ~> ~Active(r)
=============================================================================
