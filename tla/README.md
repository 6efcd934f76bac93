# A verification development for the Taiwan spot guide

The repository is an iOS app (`src/Map/MusicPlayer`, 26 Swift files) that shows the
scenic spots of five Taiwanese cities out of Firestore and lets a signed-in user keep
favourites. `src/Map/Pods` is vendored third-party code; it is modelled only where it
gives the app's calls their meaning. The app has no tests and no documentation beside
its comments: the models are read off the code.

Paths below are relative to `src/Map/MusicPlayer`; `CORE` stands for
`src/Map/Pods/FirebaseFirestore/Firestore/core/src`.

## 1. Inventory

| Component | Code | State | Operations | What is hard |
|---|---|---|---|---|
| Favourites | `Search/SpotCollectionViewCell`, `Search/SpotsViewController`, `Search/SpotsCollectionViewController`, `Profile/FavoriteSpotsViewController` | `Users/<uid>.favoriteSpots`; per screen the ids its hearts come from and the spots it lists; per cell the spot and the heart | open a screen, tap a heart (read the user document, then write the whole array), completion closures, cell reuse | read and write are apart; closures read `self.spot` late; several devices; failures in between |
| Progress HUD | `Extension/HUD` | one reference, `HUD.shared.hud` | `showLoading`, `hideLoading` | the reference is overwritten; everybody hides whatever is newest |
| Firestore client, one document | `CORE/local`, `CORE/api` | cached document, queue of pending writes, callbacks | `getDocument`, `updateData`, acknowledgement, rejection | offline reads, lost acknowledgements, restart with writes pending |
| Firestore client, the way of a write | `CORE/remote` (`remote_store`, `stream`, `write_stream`, `grpc_stream`), `CORE/core/sync_engine`, `CORE/auth`, `FirebaseAuth` | a mutation queue per account, the write pipeline, the stream's state, handshake and idle timer, the gRPC call, tokens under way | write, start, handshake, result, close, retry, idle stop, change of account, disable and enable the network | three queues (worker, main, Auth's) whose tasks overtake each other; results that name no batch; broken calls; writes sent again |
| Catalogue rebuild | `Extension/API`, `Profile/ProfileTableViewCell`, `Model/Spot` | `Spots/*`, `Cities/*` | `removeSpots`, `removeCities`, `getTaiwanSpots`, `postSpots`, `updataSpotsAPI` | partial failure, interruption, overlapping rebuilds, readers during a rebuild |
| Session and profile | `TabBarViewController`, `Auth/*`, `Profile/ProfileViewController`, `Model/User` | the signed-in account, the registration's user, the profile's user, `isAdmin`, the avatar | sign in, sign out, three registration steps, `setupData`, avatar upload | late answers after a sign-out, account without a user document, chains of calls |
| City grid | `Search/SearchViewController`, `Search/CityCollectionViewCell` | `cityArray` | load, choose a city | documents of unknown cities, images chosen by position |
| Spots map | `Search/SpotsMapViewController` | panel position, `spots`, annotations, selected spot | load, pan, locate, select | gesture limits |
| Small pure UI | `Search/SpotDetailViewController`, `Extension/showToast`, `Extension/String`, `Model/Music` | none that outlives a call | | |

Interaction: a tap calls Firestore and returns; Firestore answers through closures that
the main queue runs one at a time; closures of all screens meet in the user document and
in the one HUD. The user's hand is the scheduler: a HUD that covers a screen is the only
thing that keeps the next tap away.

What makes each component correct:

* Favourites - a tap changes exactly one favourite, the one that was tapped; nothing is
  listed twice; every tap comes to an end.
* HUD - what covers a screen can be taken away again; a removal in progress blocks its
  screen; a finished one does not. All of it as long as no other screen of the device interferes.
* Firestore client - what it shows is the server's document with its own writes on top;
  an unacknowledged write survives a restart, and is answered to the closure that is
  still there, or to none.
* The way of a write - each account's batches take effect in the order in which they were made,
  are reported truthfully, under no other account's token, and in the end.
* Catalogue - every spot id a city lists names a spot; a rebuild ends with the catalogue
  it downloaded, or with a difference that the failures explain.
* Session - what the profile shows belongs to the account that is signed in, and only an
  administrator gets to a rebuild, unless another screen takes the profile's HUD away; nobody's
  document holds another's data.
* Spots map - the card lies under the finger and comes to rest where it was dragged.

The hazards found in the code, each at its line, are in `PROJECT.json`.

## 2. Modules

| Module | What it is |
|---|---|
| `Favorites` | the core: favourites, HUD and Firestore client of any number of devices |
| `FavoriteSet` | the abstract promise: a set of spots that each tap toggles in one step, or not at all |
| `FavoritesSerial` | `Favorites` under the circumstances in which the read-then-write is safe; refinement of `FavoriteSet` |
| `Catalogue` | the rebuild of the spots and cities on the server |
| `Batches` | the batches of mutations and what the server makes of them, as the next two know them |
| `WriteQueue` | the abstract promise about writes: a queue per account, answered at the head, applied in order and at least once |
| `WritePipeline` | the way of a write through `SyncEngine`, `RemoteStore`, the stream, gRPC and FirebaseAuth; refinement of `WriteQueue` |
| `Session` | sign-in, sign-out, registration, the profile and the avatar |
| `SpotsMap` | the card over the map |
| `MCFavorites`, `MCFavoritesSerial`, `MCCatalogue`, `MCWritePipeline`, `MCSession`, `MCSpotsMap` | instances for TLC |
| `FavoritesProofs` | type correctness, the absence of duplicates, and what a tap writes |
| `FavoritesScreenProofs` | what the HUD guarantees |
| `FavoritesSerialProofs` | `FavoritesSerial` implements `FavoriteSet`; the cache can be trusted |
| `CatalogueProofs` | rebuilds converge, and cities list spots that are there |
| `WriteQueueProofs` | the promise keeps writes in order |
| `WritePipelineProofs` | the pipeline's safety properties, and that it implements `WriteQueue` |
| `SessionProofs` | administrators, documents, registrations and what the profile shows |
| `SpotsMapProofs` | the card follows the finger |

### How `Favorites` corresponds to the code

One member of `Closures` is one run of a handler (`viewDidLoad`'s read of the user document,
or one `favoriteButtonDidTap`) together with the closures nested in it. Its `phase`
says which closure is due:

    unused -> reading -> answered -> writing -> acked | rejected -> done | failed
                 (load)      `-> finishing -> done        (favourites screen) `-> reloading -> done
    any phase -> dead when the app is restarted

| Variable | Code |
|---|---|
| `document` | the server's `Users/<uid>`: missing, without the field ("bare"), or with the array |
| `cache`, `pending`, `stage` | per device: `remote_document_cache_`, the mutation queue with its callbacks, and whether its head has been applied by the server ("applied"), and read back ("seen") |
| `mainQueue` | per device: blocks waiting for `DispatchQueue.main` |
| `closure` | the captured values of each handler run |
| `cell` | `spot`, `favoriteButton.isSelected`, whether it is on screen or in the reuse pool |
| `screen` | `heartIDs` = `favoriteSpotsIDs`; `listed` = `spots` or `favoriteSpots`; `awaiting`, `leaving` = the `DispatchGroup`s |
| `shared`, `covering` | `HUD.shared.hud`, and the HUD views that lie over each screen |

| Actions | Code |
|---|---|
| `Open`, `LoadCallback` | `SpotsViewController.getSpots`, `FavoriteSpotsViewController.viewDidLoad` |
| `SpotArrives`, `SpotAbsent`, `CityNotified`, `FavoriteSpotNotified` | their per-spot closures and notify blocks |
| `Configure`, `ScrollOff` | `cellForItemAt` with `spot.didSet`; UIKit's reuse |
| `TapAdd`, `TapRemove` | `favoriteButtonDidTap` up to `getDocument` |
| `AddCallback`, `RemoveCallback` | its `getDocument` closures, up to `updateData` or an early return |
| `AddCompletion`, `CityRemoveCompletion`, `FavoritesRemoveCompletion`, `ReloadBlock` | its `updateData` closures and the block one of them puts on the main queue |
| `AnswerFromServer`, `AnswerFromCache`, `AnswerWithError` | `DocumentReference::GetDocument` |
| `Commit`, `LoseAck`, `Acknowledge`, `Reject` | the life of a write |
| `Restart` | the app is killed and started again |

Abstractions. The two arrays that cells write and nobody reads
(`SpotsCollectionViewController.favoriteSpotsIDs`, and
`FavoriteSpotsViewController.favoriteSpotsIDs` after its load) are left out. A spot is its
id: `Spot`'s `==` compares ids. `listed` is a set because the ids of a screen are distinct
(the favourites by `NoDuplicates`). A HUD that is being dismissed leaves at once instead of
after 0.5 s. A screen, once opened, stays open until the app is restarted, and each is
opened once per run. The failed fetch of one spot on a city screen changes nothing (the
early return skips `leave()`), so it is a spot that never arrives. A signed-in user is
assumed; that the user document may be missing, which a registration cut off before its
`setData` leaves behind, is an initial state.

Operators and actions named `...Variant` are not part of the specification. Each
repeats its neighbour with one plausible mistake, and records which property notices.

### How `Catalogue` corresponds to the code

`run[r]` is the `r`-th tap of the administrator's button with the chain of closures it starts:

    listingSpots -> deletingSpots -> listingCities -> deletingCities -> fetching
      -> posting -> settingCities -> done          (or stalled, or killed: alive = FALSE)

| Actions | Code (`Extension/API.swift` unless named) |
|---|---|
| `Tap` | `ProfileTableViewCell.apiButtonDidTap`, `ProfileViewController.apiButtonDidTap` |
| `ListedOnline`, `ListedOffline`, `ListFailed` | `getDocuments` of `removeSpots` and `removeCities` |
| `Delete`, `Notified` | their loops and notify blocks; `Notified` also ends `updataSpotsAPI` |
| `FeedArrives`, `FeedTraps`, `FeedFails` | `getTaiwanSpots` |
| `PostSpot`, `PostedSpots`, `SetCity` | `postSpots`, and the loop of `updataSpotsAPI` |
| `Commit`, `CommitUnheard`, `Refuse` | the device's queue of writes at the server |
| `Restart` | the app is killed |

`store` holds the documents of both collections, `pending` the queue of writes. The loops of the
deletions run on the main queue and those of posting on the session's delegate queue, so a
deletion and a posting interleave call by call, two of a kind do not. A spot's document is
its id; a city's is the set it lists; a region outside `CityEnum` is `None`. What an
offline query finds in the cache is left open. All rebuilds are of one device; that only
administrators get to the button is a property of `Session`.

`Favorites` and `Catalogue` take the queue of writes as one whose head may be applied ahead of its
answer. That is `WriteQueue` with at most one batch unheard of; `WritePipeline` has the general
case.

### How `WritePipeline` corresponds to the code

All of the client runs on its worker queue, one task at a time; each task is one action, with
every call it makes. Functions of the code that change the client are operators from a client to a
client, under the code's names (`Fill`, `Close`, `OnWriteStreamClose`, `HandleWriteError`, ...),
and are composed as the code calls them.

| Part of `client` | Code |
|---|---|
| `queue`, `user` | the mutation queues on disk, `SyncEngine::current_user_` |
| `network`, `pipeline` | `RemoteStore::is_network_enabled_`, `write_pipeline_` |
| `state`, `handshake`, `idle` | `Stream::state_`, `WriteStream::handshake_complete_`, `idleness_timer_` |
| `call` | the `GrpcStream`: token's account, buffered writes (the head under way), what is on the wire in both directions, the status with which the call has ended, `is_grpc_call_finished_` |
| `asking` | requests for a token that FirebaseAuth has not answered |
| `main`, `worker` | the main queue (notifications, tokens) and the worker queue (completions, tokens, changes of account) |
| `asserted` | no `HARD_ASSERT` has failed |

`close_count_` and `token_counter` are compared for equality only: a request carries whether it is
still `current` and `fresh`.

| Actions | Code |
|---|---|
| `Write` | `SyncEngine::WriteMutations` with `FillWritePipeline` |
| `HandshakeComplete`, `MutationResult` | `WriteStream::NotifyStreamResponse` and `RemoteStore`'s handlers |
| `WriteDone`, `OperationFailed`, `Finished`, `NothingToDo` | `GrpcStream::OnWrite`, `OnOperationFailed` with `FinishGrpcCall`, and its completion with `Stream::OnStreamFinish`; completions that `FinishGrpcCall` has cancelled on the worker queue |
| `TokenArrives`, `LookUp`, `TokenFetched`, `AnswerToken` | `Stream::RequestCredentials`, FirebaseAuth's `getTokenForcingRefresh`, `FirebaseCredentialsProvider::GetToken` |
| `SignIn`, `Notified`, `AccountChanges` | FirebaseAuth's change of user, its notification, `SyncEngine::HandleCredentialChange` |
| `BackoffElapses`, `IdleElapses` | the timers of `Stream` |
| `ConnectivityChanges`, `NetworkDisabled`, `NetworkEnabled` | `RemoteStore::RestartNetwork`, `DisableNetwork`, `EnableNetwork` |
| `ReadCompletes`, `ReadFails`, `WriteGoesOut`, `WriteFails` | gRPC's completions |
| `ServerGreets`, `ServerApplies`, `ServerRefuses`, `CallBreaks`, `HandshakeRefused`, `ProcessDies` | the environment |

Abstractions. Stream tokens, versions and the length of the backoff are left out, and so are
responses that cannot be parsed and a server that ends a call with OK while it owes answers. A
`Finish` completes at once. A server works off nothing more of a call that has broken. A message
written after the end of a call is lost or its write fails; a write may fail while messages that
came before the end still wait to be read, as gRPC's HTTP/2 transport allows
(`chttp2_transport.cc:1484`). Batch numbers are not used again after a restart. A batch is
what the app calls a write; what it does to documents is the matter of `Favorites` and `Catalogue`:
here the server keeps, for every batch applied, which ones were applied last before it,
which decides what the documents hold.

### How `Session` corresponds to the code

| Variable | Code |
|---|---|
| `account` | `Auth.auth().currentUser`, kept in the keychain |
| `documents`, `writes` | the user documents on the server; Firestore's queue of each account, with whether a closure still listens (`heard`) |
| `stored` | the object at `users/<uid>/` in Storage |
| `requests` | closures that wait for an answer, with the uid they captured; asked twice counts once |
| `screen`, `linked` | the tabs or the sheet over them; `AuthViewController.profileViewController` is not nil |
| `profile` | whether the profile's view is loaded; `user`'s name and `isAdmin` |
| `hud` | the view under `HUD.shared.hud` (profile, registration, a screen of spots), and views under HUDs whose reference was overwritten |
| `loads` | screens of spots that are loading, or removing a favourite, and may still hide the HUD |
| `crossed`, `outlived` | history since the app was started: a screen of spots has replaced or hidden the profile's HUD; somebody has signed out while a read of the profile was under way |

| Actions | Code |
|---|---|
| `LoginButtonDidTap`, `SignInAnswered`, `SignInFails`, `SignedIn` | `AuthViewController.loginButtonDidTap`; FirebaseAuth sets the user before the closure runs |
| `RegisterButtonDidTap`, `BackButtonDidTap`, `FinishButtonDidTap` | the registration steps |
| `CreateAnswered`, `CreateFails`, `Created` | `createUser` and its closure |
| `ProfileLoads`, `ReadAnswered`, `ReadFails`, `ImageLoaded` | `ProfileViewController.viewDidLoad`, `setupData` and its closures |
| `SignOut` | `signOut` |
| `SpotsOpen` | `showLoading` of a city (`SpotsViewController:83`), the favourites (`FavoriteSpotsViewController:30`) or a removal |
| `SpotsAnswered` | their `hideLoading`: `SpotsViewController:126`, once per spot `FavoriteSpotsViewController:68`, and a removal's completion |
| `SpotsFail` | their error returns, which hide nothing |
| `AvatarPicked`, `PutAnswered`, `UrlAnswered`, `UploadFails` | `saveToStorage` |
| `WriteAnswered`, `WriteRefused` | Firestore's answers, with the closure of `setData` |
| `ProcessDies` | the app is killed and opened again; Auth's server may have created the account |

A HUD covers the view of its screen and not the tab bar, so `SpotsOpen` needs only the tabs, and a
load goes on under whatever screen or sheet the user is at by then. What a screen of spots does with
its own favourites is the matter of `Favorites`; here it matters because the HUD is one. Where a lost
HUD is a screen of spots', the model forgets it: nothing in `Session` asks whether that screen opens.

A user document is whose data it holds (e-mail, name and password come together), `isAdmin`, and
the avatar. The three steps of a registration are one screen: the first two only collect what the
third sends. **Assumption** `UnderWay`: the user awaits the answer to a sign-in or a registration
before asking for another. Nothing in the code enforces it; the hazard at
`Auth/AuthViewController.swift:86` says what happens otherwise. Without the assumption TLC finds
`DocumentsAreOwn`, `RebuildIsForAdministrators`, `HudKeepsSignOutFromReads` and
`UncoveredProfileIsCurrent` violated. The picture in the profile's image
view, which sign-out does not reset, is not modelled.

### How `SpotsMap` corresponds to the code

`top` is `spotDetailTopAnchor.constant`, `translation` what the recogniser reports, `state` its
state; `start` and `moved` record where the finger is. `Began`, `Changed`, `Ended` and `Cancelled` are
the cases of `spotDetailsViewPanGesture`, `SegmentControlDidChanged` takes the map away.
Positions are whole points. The last movement before the finger lifts is part of the last `Changed`.
**Assumption** `StepsAssumption`: between two calls of the handler the finger moves up by 95 points at
most. A longer step from the closed position would be refused whole, and the card would fall back.

## 3. Runs

| Run | Instance | Distinct states | Shows |
|---|---|---|---|
| `city` | 1 city screen, 2 cells, 2 spots, 3 handler runs, 1 restart | 120,902 | `TypeOK`, `TouchableCityIsLoaded`, `CityRemovalBlocksScreen`, `CityRemovalHitsTappedSpot` |
| `profile` | 1 favourites screen, 2 cells, 2 spots, 4 handler runs, 1 restart | 119,468 | `NoOrphanedHud`, `FavoritesScreenOnlyRemoves`, `SucceededRemovalUncovers` |
| `devices` | phone with a city screen, tablet with a favourites screen, 1 cell each, 2 spots, 4 handler runs | 1,330,173 | `NoDuplicates`, `WriteIsOneToggle` |
| `serial` | 1 city screen, 1 cell, 2 spots, 5 handler runs, 1 restart | 109,158 | `CacheAgrees`, `TogglesAreAtomic` |
| `rebuilds` | 2 rebuilds, 3 spots of which one belongs to no city, 2 cities, counts 0 to 3, 3 catalogues to start from | 3,347,712 | `TypeOK` (of `Catalogue`), `RebuildsConverge`, `CitiesListStoredSpots` |
| `rebuilds_live` | 2 rebuilds, 2 spots of one city, counts 0 and 2, fairness | 78,855 | `RebuildsEnd` |
| `live` | 1 city screen, 1 cell, 1 spot, 3 handler runs, 1 restart, fairness | 15,919 | `TapsSettle`, `AckedRemovalUncovers` |
| `pipeline` | 2 accounts, 4 batches, pipeline of 2, 3 disturbances | 1,407,256 | `TypeOK` (of `WritePipeline`), `AssertionsHold`, `OwnCredentials`, `InFlightIsPipeline`, `IdleOnlyWhenDrained`, `AcknowledgedInOrder`, `KeepsPromise` |
| `pipeline_live` | 2 accounts, 3 batches, pipeline of 1, 2 disturbances, fairness | 28,080 | `WritesAreAnswered` |
| `pipeline_rejects` | 1 account, 4 batches, pipeline of 10, no disturbance | - | a counterexample to `RejectedWereRefused` |
| `session` | 2 accounts (administrator, newcomer), 1 avatar, 1 load of spots at a time, 1 failure, 1 death, fairness | 233,278 | `TypeOK` (of `Session`), `RebuildIsForAdministrators`, `HudKeepsSignOutFromReads`, `DocumentsAreOwn`, `RegisteredHaveDocuments`, `UncoveredProfileIsCurrent`, `RegistrationEnds`, `ProfileOpens` |
| `spots_map` | steps of 5, 25 and 95 points both ways, from -350 to 35 | 132,405 | `TypeOK` (of `SpotsMap`), `FollowsFinger`, `OpensAsDragged` |

Deadlock is not checked where the system may stop: when the handler runs, batches or disturbances
are used up nothing more happens, and a failed read of the profile leaves a HUD up that
really stops the app (`session`).

Bounds, and why they are enough to be interesting. `Closures` bounds the loads and taps of a
behaviour. A load and two taps are the least with which two taps of one screen overlap;
`profile` has a fourth, because an add on the favourites screen would need a removal whose
HUD another spot's notify block takes away, and `FavoritesScreenOnlyRemoves` can only then
go wrong. `devices` has two loads and two taps, one per device, so that either device's
read, write, acknowledgement and offline answer fall anywhere in the other's. Two cells and
two spots let a cell be reused for the other spot. One restart is enough to find the queue
with a write whose callback is gone, both before and after the server applied it.
`MaxRestarts` and the size of `Closures` are the only bounds; queues are bounded by the
number of handler runs. Symmetry is used over spots, handler runs and (where all
belong to one screen) cells, which no definition tells apart; not in `live`.

What the safety properties are about:

* `NoDuplicates` - the adder's `firstIndex` test runs on a snapshot that may be out of date,
  and the remover takes out one index only. It is enough, for all devices together.
* `WriteIsOneToggle` - however stale the snapshot, a write differs from it by at most one
  spot: an add keeps what was read, a removal leaves no trace of the one it drops. (It does not say that the snapshot was current: overlapping taps on two devices do
  lose updates, which is why `FavoritesSerial` names its circumstances.)
* `TouchableCityIsLoaded` - the answers for the user document and for every spot come in any order
  and each ends in a `leave()` or in a return that keeps the group waiting; no order opens the
  screen early.
* `CityRemovalBlocksScreen`, `CityRemovalHitsTappedSpot` - the closures of a removal read
  `self.spot` when they run. That they still see the tapped spot depends on the HUD
  that keeps the user from scrolling, on the load's HUD being gone by then, and on the
  load's group keeping `reloadData` away from a screen that can be touched.
* `NoOrphanedHud` - `showLoading` overwrites the only reference to the previous HUD.
* `FavoritesScreenOnlyRemoves` - on the favourites screen every spot hides the HUD on its
  own, in the middle of a removal as well; that no emptied heart can be tapped there hangs on
  the reload that goes with it.
* `SucceededRemovalUncovers` - even so, who succeeded has taken its own HUD away.
* `RebuildsConverge` - a rebuild may find anything: half a catalogue, cities without
  spots, writes still queued by a rebuild that was killed, or another rebuild at work. If the last
  one goes through without a flaw, its completion finds exactly the catalogue it
  downloaded; rebuilds that ran into each other do so if they had the same count. With
  different counts they leave a mixture, and after a refused write or an offline query
  old documents stay. The completion waits for the cities only; the spots are there because
  writes reach the server in order. A count that covers no city posts none: such a rebuild waits
  for nothing, is done before what a killed one had queued has reached the server, and so the
  property asks it for an empty queue as well. The proof showed this; the feed of the run begins with
  a spot of no city so that TLC meets it.
* `CitiesListStoredSpots` - deleting leaves cities without their spots for a while;
  from the download on no city is ahead of its spots, whenever the app is killed.

* `AssertionsHold` - every `HARD_ASSERT` on the way of a write would end the app. Among
  them: a token that arrives finds the stream starting, and a stream that stops in good order
  has nothing left to send.
* `OwnCredentials` - FirebaseAuth's user, the mutation queue and the stream's token change at
  three different times; still no batch is sent under another account's token.
* `InFlightIsPipeline` - answers read and on the wire, requests on the wire and messages not yet
  written are together the pipeline, in order. It is why a result may be taken for that of
  the first batch.
* `IdleOnlyWhenDrained` - the idle timer never runs while a write waits.
* `KeepsPromise`, `AcknowledgedInOrder` - `WritePipeline` implements `WriteQueue`: `unheard` is the
  number of answers that will still reach the client. A commit is `Apply`, a result
  `Acknowledge`, a permanent error `Reject`, lost answers `Lose`, everything else a stutter. What
  is acknowledged is on the server and in order, although the whole pipeline is sent again after every loss.
* `WritesAreAnswered` - no close, error, token or change of account leaves the stream stopped
  with writes waiting.
* `RebuildIsForAdministrators` - `setupData` changes `isAdmin` only where the document has the
  field; that nobody inherits it hangs on sign-out, and on no read answered after it. The property
  therefore exempts a run in which somebody has signed out during a read (`outlived`).
* `HudKeepsSignOutFromReads` - that needs another screen: as long as no screen of spots has replaced or
  hidden the profile's HUD, it is there from `setupData` to the last closure of the read. What the
  program does when one has is told below.
* `UncoveredProfileIsCurrent` - whenever the HUD leaves the profile, what it shows belongs to the
  account signed in, with the same exception (`crossed`).
* `DocumentsAreOwn` - an upload is four requests long, and others may sign in meanwhile.
* `RegisteredHaveDocuments` - without a failure or a death nobody gets past the sheets without a
  user document, on which the favourites and the profile depend.
* `RegistrationEnds`, `ProfileOpens` - the HUDs go; the profile's stays only after a failed read,
  without a document, or when a screen of spots has replaced or hidden it.
* `FollowsFinger`, `OpensAsDragged` - the handler refuses steps and judges by the card, not
  by the finger; the translation it leaves standing makes up for both.

Two rebuilds are the least that can follow or overlap each other, and the first may be killed in
any phase. Counts 0 (the trap), 1 (a list that names no city), 2 and 3 let overlapping rebuilds agree or differ. The three
starting catalogues are an empty one, an intact one, and one whose city lists a spot that is
gone. `MaxRuns` is the only bound.

In `pipeline` the second of the four batches is the other account's, so both queues hold something
when the account changes there and back. With room for two in the pipeline (`kMaxPendingWrites`,
10 in the code) it is full, drained and refilled. Three disturbances are
enough for a change of account there and back with a broken call or a failed token in
between; `MaxFaults` and `MaxBatches` are the only bounds; they bound every queue.
`pipeline_live` has fewer of each because of the liveness check. In `session` the administrator signs in and the newcomer
registers, behind a profile screen the other has left; the picture can be chosen once, by either, and
one failure and one death may strike anywhere; the properties that exempt them name the count. One
load of spots shows and hides the HUD at any time, again and again, and a second `SpotsOpen` may follow at once.
The user whose document lacks `isAdmin`, and who could inherit it, is the newcomer after registering. Two overlapping
uploads, three accounts and overlapping loads are left to the theorems, which hold for all of them.

**A rejected write need not have been refused** (`pipeline_rejects`). `HandleWriteError` gives up the
first batch of the pipeline when the call ends with a permanent error, "the request itself was
the problem" (`CORE/remote/remote_store.cc:513`). But when a *write* fails because the server
has ended the call, `GrpcStream::FinishGrpcCall` cancels the completions on the worker queue,
an answer that has been read among them (`CORE/remote/grpc_stream.cc:239`). The first batch is then one
that was applied. TLC's trace: of four batches the first is acknowledged, the second
applied and its answer read, the third refused, the write of the fourth fails; the second is reported as failed, and the
refused third is sent again. `WriteQueue` therefore lets `Reject` take a batch that was
applied, and promises only what is acknowledged. In the app a rejected favourite may be on the server;
`Favorites`, whose queue has one write under way, does not show it.

**One screen per device.** The five properties of the HUD hold when a device shows one
screen. They are not true of a phone on which a city screen is open in the search tab and
the favourites screen in the profile tab: the second `showLoading` replaces
`HUD.shared.hud`, the first HUD can no longer be dismissed, and a completion on one screen
uncovers the other. With the instance `BothOnPhone` TLC shows counterexamples within three
handler runs (four for `FavoritesScreenOnlyRemoves`). Nothing in the repository promises
otherwise, so this is recorded as the hazard at `Extension/HUD.swift:28` and as the
assumption `OneScreenPerDevice` of the theorems.

**The profile's HUD and the other screens.** The tab bar stays in reach under a HUD, so the profile is
a second screen too, and no assumption of `Session` keeps it apart. Two runs of the program do go wrong;
TLC shows them when the exceptions are taken out of the properties:

* A city is loading in the search tab and the profile tab is selected: `setupData` puts the profile's
  HUD into `shared`. The city's notify block (`SpotsViewController:126`) dismisses it before the profile's
  read is answered: the profile is uncovered and shows nobody or the former user
  (`UncoveredProfileIsCurrent` without `crossed`). Now Sign Out can be tapped; it resets `isAdmin`, the late answer
  (`ProfileViewController:73`) sets it again, and whoever comes next without the field in the document is offered
  the rebuild (`RebuildIsForAdministrators` without `outlived`).
* The profile is loading and a city is opened: `showLoading` replaces the reference, the profile's answer
  dismisses the city's HUD, and the profile stays covered though nothing failed (`ProfileOpens` without `crossed`).

Nothing in the repository promises otherwise, so these are the hazards at `Extension/HUD.swift:28` and
`Profile/ProfileViewController.swift:61` and `:62`. What the properties add is that there is no
other way: `HudKeepsSignOutFromReads` ties the second exception to the first.

**Serial use.** `FavoritesSerial` restricts the steps of `Favorites`: tap windows of the
account do not overlap, nor overlap another device's unacknowledged writes; a cell is not
reused during a window; no write is rejected; offline reads happen with one device only. The
code guarantees none of this. Under it `TogglesAreAtomic` shows that `Favorites` implements
`FavoriteSet`: `favorites` is the server's array with the pending writes of the device on
top, and `request` the tap whose window is open. The write takes effect when it is queued;
commits, acknowledgements, losses, resends, offline answers and restarts are stutters.
`CacheAgrees` says why an offline read is harmless: with the pending writes on top the cache
shows what the server will show.

**Fairness** (`live`). Weak fairness of an answer to every read (from the server, the cache
or with an error: the client's time-outs provide the last two) and of the main queue's
turns (the run loop); weak fairness of commit-or-reject and strong fairness of
`Acknowledge`, because a write stream that breaks is opened again with back-off and an
acknowledgement can be lost any number of times, though not for ever. Nothing is assumed of
the user, of restarts or of the spots' own documents. `TapsSettle`: every tap ends, be it
with the app. `AckedRemovalUncovers`: an accepted removal gives the screen back. A
*failed* removal does not; that is the hazard at `SpotCollectionViewCell.swift:194`.

In `rebuilds_live` weak fairness of each rebuild's next step (a query or download is answered
or fails, the queues run) and of `Commit \/ Refuse`: the server answers the first write
in the end. `RebuildsEnd` then says that no dispatch group is waited for in vain.

In `pipeline_live` weak fairness of the worker queue, the main queue and FirebaseAuth's queue (dispatch
queues run what they hold), of gRPC's completions (each operation comes back), of the server's
answers and of the backoff timer. Nothing is assumed of the idle timer, of enabling the network or of
the user; disturbances are finitely many, as they must be for anything to be promised.

In `session` weak fairness of the answers to `createUser` with its closure, to the profile's read and image,
and of Firestore's answers to the signed-in user's writes. Each of these calls has a time-out of its own except the writes,
which `pipeline_live` is about. Nothing is assumed of the user or of uploads.

## 4. Proofs

Every theorem is checked by TLAPS to the last leaf, for every value of the constants
that satisfies the named assumptions of its component, which TLC evaluates in the runs. Each safety proof
has the same form: an inductive invariant, which TLC checked first, holds initially, every action
keeps it, and it implies the property.

### Favourites

`FavoritesProofs` and `FavoritesScreenProofs`, from the assumptions declared in `Favorites`
(screens belong to devices, cells to screens, `None` is none of the model's values, saved
arrays have no duplicates, the number of restarts is bounded).

* `TypeCorrect`: `Spec => []TypeOK`. `TypeOK` is not inductive. An acknowledgement
  indexes `closure` with the callback of the first pending write, a main-queue block with its
  head; the queues must be known to hold handler runs with a screen, and no callback may
  outlive the device that owns it. `TypeInv` adds `ClosuresBound` (a run in use has a
  screen and, for a tap, a cell of that screen), `CellsFilled` (what is on screen has a
  spot), `StageFollowsQueue` (only a queue with a first write can have it applied) and
  `CallbacksTracked` (a callback in a queue is a run of that device in the phase "writing").
* `NothingListedTwice`: `Spec => []NoDuplicates`, over any number of devices. Given
  `TypeInv` the invariant is inductive; the work is in the lemmas that `Append`, `RemoveAt`,
  `Patch` and `Overlay` keep a sequence free of duplicates.
* `WritesAreToggles`: `Spec => []WriteIsOneToggle`. That a removal leaves no trace needs
  `CopiesWellFormed`: only from a list without duplicates does `remove(at:)` take the spot away.
* `NoHudIsOrphaned`, `RemovalBlocksItsScreen`, `RemovalHitsTappedSpot`,
  `FavoritesScreenNeverAdds`, `SucceededRemovalsUncover`: the five HUD properties, from
  `OneScreenPerDevice`. None is inductive alone. `ScreenInv` says where HUDs come from
  (`HudOnOwnScreen`), that a screen not opened is empty (`ClosedIsEmpty`), that only
  favourites screens have groups of single spots (`OnlyFavoritesLeave`), that a city
  screen with a load, an awaited spot or a removal in progress is covered by it
  (`LoadingIsCovered`, `CityBlocked`), that a removal's cell still shows the tapped spot
  (`RemovalKeepsCell`) and that an emptied heart of a favourites screen is off screen
  or under a HUD (`EmptyHeartsCovered`).

* `TouchableCitiesAreLoaded`: `TouchableCityIsLoaded`, from the same `ScreenInv`: `LoadingIsCovered`
  and `CityBlocked` are the parts it needs.

`FavoritesSerialProofs`, about `SerialSpec` and from one assumption more, that `None` is no request:

* `CachesCanBeTrusted`: `SerialSpec => []CacheAgrees`. `SerialInv` adds to the types and to
  `CopiesWellFormed` that one device at most has writes pending (`OneWriter`), that the
  server holds the write it has applied and not yet acknowledged (`Applied`), and, for a single device,
  that the cache differs from the document only where a pending write will overwrite it (`CacheSound`).
* `TogglesAreSerial`: `SerialSpec => TogglesAreAtomic`, the refinement. Each action is
  mapped to `Ask`, `Perform` or `Drop` of `FavoriteSet` or to a stutter. `Perform` is the step that puts
  the write into the queue; it is right because an answer read in the window is still what the server will
  show (`AnswersCurrent`), and later steps are stutters because a commit moves
  the head of the queue from the overlay into the document.

### Catalogue

`CatalogueProofs`, from the assumptions of `Catalogue` (spots and cities have different names, counts are
natural numbers, the feed is a finite list, what was left behind are documents of the two collections): for
any feed, any number of taps, and any catalogue left behind.

* `CatalogueTypes`: `Spec => []TypeOK`.
* `Convergence`: `Spec => []RebuildsConverge`.
* `CitiesAreBacked`: `Spec => []CitiesListStoredSpots`.

Neither property says anything of the writes on their way, so the invariant speaks of the
*outcome*: `WillBe(k, X)` says that document `k` will hold `X` once the queue has been applied, and a
commit, heard or not, changes no outcome (`OutcomeTail`, `OutcomeUnheard`). `CatalogueInv` consists of

* what a dispatch group can hold (`RunsSound`) and which pending writes a phase can have (`QueueSound`): the
  deletions and the cities are waited for, the spots are not, and come before the cities;
* who can be at work with whom and whose writes lie behind whose (`Order`: `RunsInOrder`, `RivalsKnown`,
  `InQueueOrder`); `OldGone` says that once one city of a rebuild has been answered nothing older than
  the rebuild is in the queue any more, so that at its end there is nothing left to come;
* for a rebuild that `RebuildsConverge` may be about (`Clean`): what it has swept will not be there unless
  it has been posted since (`Absence`), and what is to be posted will be right or somebody has still to
  post it (`Presence`, `Owes`). A delete of a rival makes a document wrong, but the rival then owes it;
* for one that is alone: leaving its own pending writes out of account, no city will be there before its own first
  cities have reached the server, and by then the spots are through (`CitiesOwn`).

### The way of a write

`WriteQueueProofs`, from `Batches`' assumptions (every batch has an account):

* `TypeCorrect`: `Spec => []TypeOK`. An answer indexes the outcomes with the head of a queue, so the
  queues must be known to hold what is unheard of (`UnheardAreQueued`).
* `WritesTakeEffectInOrder`: `Spec => []AcknowledgedInOrder`. The invariant says that
  queues hold unanswered batches (`QueuesHoldUnanswered`) in ascending order (`QueuesAreSorted`), that what
  was answered is older than what waits (`AnsweredAreOlder`, `WrittenInOrder`), and, the heart of it, that
  of two batches of an account that are settled, that is acknowledged or applied with the answer
  still on its way, the later one was applied last (`SettledInOrder`). A loss unsettles a tail
  of the queue, which is sent again, in order and behind all that is settled.

`WritePipelineProofs`, from the same and from `WritePipeline`'s assumptions (the capacity is positive, faults
are bounded, `None` is neither an account nor a call):

* `PipelineTypes`, `NoAssertionFails`, `BatchesBearTheirToken`, `ResultsMatchThePipeline`,
  `IdleStreamsHaveNothingToSend`: `Spec => []P` for `TypeOK`, `AssertionsHold`, `OwnCredentials`,
  `InFlightIsPipeline` and `IdleOnlyWhenDrained`. One invariant serves all. `Sound` is a predicate on the
  client, because the code's functions compute one client from another and call each other: for each
  there is a lemma that it leads from a sound client to a sound one, and an action's proof is
  the composition. Its parts: the queues hold their account's batches in order (`QueuesSound`); a stream has
  a call while it is open and is started for a reason (`StreamSound`); at most one token is awaited
  in all three places together, and only while the stream is starting (`TokensSound`), on which the
  assertion in `TokenArrives` rests; the worker queue holds at most one completion of each kind
  (`WorkerSound`); the pipeline is a prefix of the account's queue (`PipelineSound`); and what a live call
  carries is what it was given to send (`CallSound`). `Settled` holds between two tasks only: within one, the
  handshake outlives the stream for a moment, and so does the idle timer the emptiness of the
  queue. `TokensAreOfUser` follows the account through the main and the worker queue:
  every token or notification that is of another account than the client's has a change of
  account before it.
* `ImplementsPromise`: `Spec => KeepsPromise`, the refinement of `WriteQueue`, action by action
  (`StepKeeps`): each of the 30 actions changes the queues and the answers under way in one of the five ways
  of `WriteQueue`, or not at all. The invariant of `WriteQueue` is carried along: it keeps what waits
  apart from what has been answered.
* `AcknowledgementsAreTrue`: `Spec => []AcknowledgedInOrder`, by that invariant.

### Session

`SessionProofs`, from `SessionAssumption` (administrators are registered, registered users are accounts, and `None`
is none of the values):

* `SessionTypes`, `RebuildsAreForAdministrators`, `ReadsEndBeforeSignOut`, `DocumentsStayOwn`,
  `RegisteredDocuments`: `Spec => []P` for `TypeOK`, `RebuildIsForAdministrators`,
  `HudKeepsSignOutFromReads`, `DocumentsAreOwn` and `RegisteredHaveDocuments`;
  `UncoveredProfiles`: the action property `UncoveredProfileIsCurrent`.
* What one closure may rely on is what all the others cannot do meanwhile. The invariant says that there is one
  sign-in or registration at a time (`OneAtATime`), that its sheet stays and the current user with it
  (`SheetsStay`), where HUDs are, and that the profile's is lost only after a screen of spots has met it
  (`HudOnScreen`), that until then there is one read of the profile, of the current user, and it is covered,
  and that a read is of the current user as long as none has outlived a sign-out
  (`ReadsAreCurrent`), that the tabs are for who is signed in (`TabsAreForUsers`), that writes and uploads keep
  their account (`WritesAreOwn`, `UploadsAreOwn`), and, without a failure, that an account without a document is
  on its way to one (`RegistrationsWrite`). `AdministratorsAre` is then inductive: `isAdmin` changes only by a
  read of the current user, and sign-out resets it.
* All of this is for a user who awaits the answer to a sign-in or a registration (`UnderWay`, section 2).
  `OneAtATime` is that assumption's doing. The HUD calls of other screens, in contrast, are not restricted.

### Spots map

`SpotsMapProofs`, from `StepsAssumption` and `ScreenAssumption`: `CardStaysOnScreen`,
`CardFollowsFinger` and `DragDecides`. `TypeOK /\ FollowsFinger` is
inductive: a step can be refused only to a card at `Middle` or above, for from below it would be longer than
the assumption admits. `DragDecides` follows, since a card that is held back counts as open like the finger does.

### What is only model-checked

The liveness properties (`TapsSettle`, `AckedRemovalUncovers`, `RebuildsEnd`, `WritesAreAnswered`,
`RegistrationEnds`, `ProfileOpens`) need ENABLED and fairness, which are beyond this prover.
`RejectedWereRefused` is false, and has a counterexample instead. Everything else that a run
checks is proved as well.

A caution for whoever extends the proofs: tlapm 1.4.5 reads the inner `@` of a nested
`[f EXCEPT ![x] = [@ EXCEPT !.a = ... @ ...]]` as that of the outer one, applied to the wrong field. No
module writes one; the inner update names the old value in full.

## 5. Plan

1. *(done)* `Favorites`, `FavoriteSet`, `FavoritesSerial`, with all safety properties and the refinement proved.
2. *(done)* `Catalogue` and its proofs.
3. *(done)* `WriteQueue`, `WritePipeline`, the refinement between them and their proofs.
4. *(done)* `Session` and its proofs.
5. *(done)* `SpotsMap` and its proofs.
6. Next: what is true of a phone on which two screens share the HUD, weaker than the five properties
   that ask for one screen, and theorems about it; leaving a screen with answers outstanding.

## 6. Not modelled

Leaving a screen while its answers are outstanding and the detail screen; the watch
stream, transactions, queries, transforms and garbage collection of Firestore; layout, wording and
toasts. The city grid (`Search/SearchViewController`) makes one query and sets one list
once; pictures go by position and a cell in reuse keeps the text of its last city, which is
plain from the code and no matter of interleaving. Of the map, the annotations and the location button
only hand values to MapKit; a first location that arrives late recentres a map that the user
has moved (`SpotsMapViewController.swift:265`). The Google sign-in of `AppDelegate` is started by no
screen.

The app is some 2,800 lines of Swift; nearly all of the repository's lines are the vendored pods
(Firebase, gRPC, BoringSSL, LevelDB, abseil and others) and generated tables in them. They are third-party code and are modelled where
the app's own correctness rests on them, so the share of all lines that the definitions
cover is small. `PROJECT.json` gives the reason per component.
