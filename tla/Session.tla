------------------------------- MODULE Session -------------------------------
(***************************************************************************)
(* Who is signed in, and what the app makes of it: the sign-in sheet       *)
(* (AuthViewController), registration (StepThreeViewController), the        *)
(* profile screen with its HUD (ProfileViewController) and the upload of an *)
(* avatar, with the Auth, Firestore and Storage requests that they wait    *)
(* for.  The screens of spots (a city, the favourites, a removal on either) *)
(* matter only as the other users of the one HUD.  The user waits for the   *)
(* answer to a sign-in or a registration before asking for another;         *)
(* everything else that no HUD covers can be tapped at any time, and the    *)
(* process can die at any time.                                            *)
(***************************************************************************)
EXTENDS Naturals, Sequences

CONSTANTS
    Accounts,        \* accounts that exist or may be registered, by e-mail address
    Registered,      \* those that exist at first
    Administrators,  \* those of them whose user document says isAdmin
    Pictures,        \* pictures that can be chosen as an avatar, each once
    MaxFailures,     \* bound on the reads, user documents and registrations that fail
    MaxDeaths,       \* bound on the deaths of the process
    MaxLoads,        \* bound on what screens of spots are loading at the same time
    None

ASSUME SessionAssumption ==
    /\ Administrators \subseteq Registered /\ Registered \subseteq Accounts
    /\ None \notin Accounts \cup Pictures /\ None \notin BOOLEAN
    /\ None \notin {"profile", "register", "spots"}
    /\ MaxFailures \in Nat /\ MaxDeaths \in Nat /\ MaxLoads \in Nat

VARIABLES
    account,     \* Auth.auth().currentUser, which survives a restart
    registered,  \* the accounts that the Auth server knows
    documents,   \* the user documents on the server
    writes,      \* Firestore's queue of writes for each account, kept on disk
    stored,      \* the object under users/<uid>/ in Storage
    requests,    \* what has been asked and not answered; asked twice counts once
    screen,      \* the tabs, or a sheet over them: sign-in or registration
    linked,      \* whether the sheet knows the profile (authViewController.profileViewController)
    profile,     \* ProfileViewController.user, once its view has been loaded
    hud,         \* HUD.shared: the newest HUD's view, and views covered by HUDs nobody can reach
    chosen,      \* whose avatar each picture was chosen as
    loads,       \* what screens of spots are loading and may still hide the HUD
    crossed,     \* history: a screen of spots has replaced or hidden the profile's HUD
    outlived,    \* history: somebody signed out before the profile's read was answered
    failures, deaths

vars == <<account, registered, documents, writes, stored, requests, screen, linked, profile,
          hud, chosen, loads, crossed, outlived, failures, deaths>>

asked == <<registered, documents, writes, stored>>
seen  == <<screen, linked, profile, hud>>
elsewhere == <<loads, crossed, outlived>>
others == <<loads, crossed, outlived, failures, deaths>>

Maybe(S) == S \cup {None}
Screens == {"tabs", "auth", "register"}
Views == {"profile", "register", "spots"}
Documents == [holder : Maybe(Accounts), isAdmin : Maybe(BOOLEAN), avatar : Maybe(Pictures)]
Writes == [kind : {"set", "update"}, of : Accounts, holder : Maybe(Accounts),
           avatar : Maybe(Pictures), heard : BOOLEAN]
Requests == [kind : {"signIn", "signedIn", "create", "created", "read", "image", "put", "url"},
             of : Accounts, picture : Maybe(Pictures)]

TypeOK ==
    /\ account \in Maybe(Accounts)
    /\ registered \in SUBSET Accounts
    /\ documents \in [Accounts -> Documents]
    /\ writes \in [Maybe(Accounts) -> Seq(Writes)]
    /\ stored \in [Accounts -> Maybe(Pictures)]
    /\ requests \in SUBSET Requests
    /\ screen \in Screens
    /\ linked \in BOOLEAN
    /\ profile \in [loaded : BOOLEAN, shown : Maybe(Accounts), isAdmin : BOOLEAN]
    /\ hud \in [shared : Maybe(Views), lost : SUBSET Views]
    /\ chosen \in [Pictures -> Maybe(Accounts)]
    /\ loads \in 0..MaxLoads /\ crossed \in BOOLEAN /\ outlived \in BOOLEAN
    /\ failures \in 0..MaxFailures /\ deaths \in 0..MaxDeaths

-----------------------------------------------------------------------------
(* The HUD: whoever shows it takes it over, whoever hides it hides the newest.  *)
(* Whether a screen of spots stays covered is left to Favorites.               *)
NoHud == [shared |-> None, lost |-> {}]

ShowLoading(view) ==
    [shared |-> view, lost |-> hud.lost \cup ({hud.shared} \cap {"profile", "register"})]

HideLoading == [hud EXCEPT !.shared = None]

Covered(view) == hud.shared = view \/ view \in hud.lost

(* The documents.  User.dictionary() has neither isAdmin nor an avatar, and an  *)
(* update needs a document.                                                   *)
NoDocument == [holder |-> None, isAdmin |-> None, avatar |-> None]

Written(d, w) ==
    CASE w.kind = "set" -> [NoDocument EXCEPT !.holder = w.holder]
      [] w.kind = "update" /\ d.holder # None -> [d EXCEPT !.avatar = w.avatar]
      [] OTHER -> d

(* A document after the last of the writes in q that have these indices.       *)
WithLast(d, q, indices) ==
    IF \E i \in indices : \A j \in indices : j <= i
    THEN Written(d, q[CHOOSE i \in indices : \A j \in indices : j <= i])
    ELSE d

(* What a read returns: the document with the writes that still wait, of which *)
(* the last "set" and the last "update" after it make the difference.          *)
Local(a) ==
    LET q == writes[account]
        sets == {i \in DOMAIN q : q[i].of = a /\ q[i].kind = "set"}
        updates == {i \in DOMAIN q : q[i].of = a /\ q[i].kind = "update"
                                        /\ \A j \in sets : j < i}
    IN  WithLast(WithLast(documents[a], q, sets), q, updates)

Request(kind, a) == [kind |-> kind, of |-> a, picture |-> None]

Done(r) == requests \ {r}

Enqueue(w) == writes' = [writes EXCEPT ![account] = Append(@, w)]

(* Variant: the HUD is hidden at the end of setupData, not in the callback.     *)
SetupDataVariant(remaining) ==
    /\ hud' = [ShowLoading("profile") EXCEPT !.shared = None]
    /\ requests' = IF account = None THEN remaining
                                     ELSE remaining \cup {Request("read", account)}

(* ProfileViewController.setupData, among the requests that remain.            *)
SetupData(remaining) ==
    /\ hud' = ShowLoading("profile")
    /\ requests' = IF account = None THEN remaining
                                     ELSE remaining \cup {Request("read", account)}

Unloaded == [loaded |-> FALSE, shown |-> None, isAdmin |-> FALSE]

(* TabBarViewController.viewDidAppear: who is not signed in gets the sheet.    *)
FirstScreen(a) == IF a = None THEN "auth" ELSE "tabs"

Init ==
    /\ account \in Maybe(Registered)
    /\ registered = Registered
    /\ documents = [a \in Accounts |->
          IF a \in Registered
          THEN [holder |-> a, isAdmin |-> IF a \in Administrators THEN TRUE ELSE None,
                avatar |-> None]
          ELSE NoDocument]
    /\ writes = [a \in Maybe(Accounts) |-> <<>>]
    /\ stored = [a \in Accounts |-> None]
    /\ requests = {}
    /\ screen = FirstScreen(account) /\ linked = FALSE
    /\ profile = Unloaded
    /\ hud = NoHud
    /\ chosen = [p \in Pictures |-> None]
    /\ loads = 0 /\ crossed = FALSE /\ outlived = FALSE
    /\ failures = 0 /\ deaths = 0

-----------------------------------------------------------------------------
(* Signing in.                                                               *)

(* The user waits while a sign-in or a registration is under way.              *)
UnderWay ==
    \/ \E r \in requests : r.kind \in {"signIn", "signedIn", "create", "created"}
    \/ \E a \in Maybe(Accounts) : \E i \in DOMAIN writes[a] :
          writes[a][i].kind = "set" /\ writes[a][i].heard

LoginButtonDidTap(a) ==
    /\ screen = "auth" /\ ~UnderWay
    /\ requests' = requests \cup {Request("signIn", a)}
    /\ UNCHANGED <<account, asked, seen, chosen, others>>

(* Auth changes the current user on its own queue, before the callback runs.   *)
SignInAnswered(r) ==
    /\ r.kind = "signIn" /\ r.of \in registered
    /\ account' = r.of
    /\ requests' = Done(r) \cup {Request("signedIn", r.of)}
    /\ UNCHANGED <<asked, seen, chosen, others>>

SignInFails(r) ==
    /\ r.kind = "signIn"
    /\ requests' = Done(r)
    /\ UNCHANGED <<account, asked, seen, chosen, others>>

SignedIn(r) ==
    /\ r.kind = "signedIn"
    /\ screen' = "tabs"
    /\ IF linked THEN SetupData(Done(r)) ELSE requests' = Done(r) /\ UNCHANGED hud
    /\ UNCHANGED <<account, asked, linked, profile, chosen, others>>

-----------------------------------------------------------------------------
(* Registration: steps one and two only collect what step three sends.         *)

RegisterButtonDidTap ==
    /\ screen = "auth" /\ ~UnderWay
    /\ screen' = "register"
    /\ UNCHANGED <<account, asked, requests, linked, profile, hud, chosen, others>>

(* Back to the sign-in sheet; the view of step three goes, with its HUDs.      *)
BackButtonDidTap ==
    /\ screen = "register" /\ ~UnderWay
    /\ screen' = "auth"
    /\ hud' = [shared |-> IF hud.shared = "register" THEN None ELSE hud.shared,
               lost |-> hud.lost \ {"register"}]
    /\ UNCHANGED <<account, asked, requests, linked, profile, chosen, others>>

FinishButtonDidTap(a) ==
    /\ screen = "register" /\ ~Covered("register") /\ ~UnderWay
    /\ hud' = ShowLoading("register")
    /\ requests' = requests \cup {Request("create", a)}
    /\ UNCHANGED <<account, asked, screen, linked, profile, chosen, others>>

CreateAnswered(r) ==
    /\ r.kind = "create" /\ r.of \notin registered
    /\ registered' = registered \cup {r.of}
    /\ account' = r.of
    /\ requests' = Done(r) \cup {Request("created", r.of)}
    /\ UNCHANGED <<documents, writes, stored, seen, chosen, others>>

(* Variant: an account that exists already leaves the HUD where it is.         *)
CreateFailsVariant(r) ==
    /\ r.kind = "create"
    /\ \/ UNCHANGED <<registered, failures>>
       \/ /\ failures < MaxFailures /\ failures' = failures + 1
          /\ registered' = registered \cup {r.of}
    /\ requests' = Done(r)
    /\ UNCHANGED <<account, documents, writes, stored, seen, chosen, elsewhere, deaths>>

(* The account exists already, or the answer is lost after it was created.     *)
CreateFails(r) ==
    /\ r.kind = "create"
    /\ \/ UNCHANGED <<registered, failures>>
       \/ /\ failures < MaxFailures /\ failures' = failures + 1
          /\ registered' = registered \cup {r.of}
    /\ hud' = HideLoading
    /\ requests' = Done(r)
    /\ UNCHANGED <<account, documents, writes, stored, screen, linked, profile, chosen,
                   elsewhere, deaths>>

(* Variant: the sheet closes without waiting for the document.                 *)
CreatedVariant(r) ==
    /\ r.kind = "created"
    /\ Enqueue([kind |-> "set", of |-> account, holder |-> r.of, avatar |-> None, heard |-> FALSE])
    /\ screen' = "tabs" /\ hud' = HideLoading
    /\ requests' = Done(r)
    /\ UNCHANGED <<account, registered, documents, stored, linked, profile, chosen, others>>

(* The callback asks again who is signed in, and writes that user's document.  *)
Created(r) ==
    /\ r.kind = "created"
    /\ IF account = None
       THEN UNCHANGED writes
       ELSE Enqueue([kind |-> "set", of |-> account, holder |-> r.of, avatar |-> None,
                     heard |-> TRUE])
    /\ requests' = Done(r)
    /\ UNCHANGED <<account, registered, documents, stored, seen, chosen, others>>

-----------------------------------------------------------------------------
(* The profile.                                                              *)

OnProfile == screen = "tabs" /\ profile.loaded /\ ~Covered("profile")

(* The tab is selected for the first time: viewDidLoad.                        *)
ProfileLoads ==
    /\ screen = "tabs" /\ ~profile.loaded
    /\ SetupData(requests)
    /\ profile' = [Unloaded EXCEPT !.loaded = TRUE]
    /\ UNCHANGED <<account, asked, screen, linked, chosen, others>>

(* Variants of the read: the name is only taken over from a document that has   *)
(* isAdmin; isAdmin is taken over even where it is missing; the HUD is left to  *)
(* an avatar that need not exist.                                             *)
ReadNamesNobodyVariant(r) ==
    LET d == Local(r.of)
    IN  /\ r.kind = "read"
        /\ profile' = IF d.isAdmin = None THEN profile
                      ELSE [profile EXCEPT !.shown = d.holder, !.isAdmin = d.isAdmin]
        /\ hud' = HideLoading
        /\ requests' = Done(r)
        /\ UNCHANGED <<account, asked, screen, linked, chosen, others>>

ReadTakesAnythingVariant(r) ==
    LET d == Local(r.of)
    IN  /\ r.kind = "read"
        /\ profile' = [profile EXCEPT !.shown = d.holder, !.isAdmin = d.isAdmin]
        /\ hud' = HideLoading
        /\ requests' = Done(r)
        /\ UNCHANGED <<account, asked, screen, linked, chosen, others>>

ReadAwaitsAvatarVariant(r) ==
    LET d == Local(r.of)
    IN  /\ r.kind = "read"
        /\ profile' = [profile EXCEPT !.shown = d.holder]
        /\ requests' = Done(r) \cup
              (IF d.avatar = None THEN {} ELSE {Request("image", r.of)})
        /\ UNCHANGED <<account, asked, screen, linked, hud, chosen, others>>

(* Without a document nothing hides the HUD; with an avatar, its download does. *)
ReadAnswered(r) ==
    LET d == Local(r.of)
    IN  /\ r.kind = "read"
        /\ IF d.holder = None
           THEN requests' = Done(r) /\ UNCHANGED <<profile, hud>>
           ELSE /\ profile' = [profile EXCEPT !.shown = d.holder,
                                   !.isAdmin = IF d.isAdmin = None THEN @ ELSE d.isAdmin]
                /\ IF d.avatar = None
                   THEN requests' = Done(r) /\ hud' = HideLoading
                   ELSE requests' = Done(r) \cup {Request("image", r.of)} /\ UNCHANGED hud
        /\ UNCHANGED <<account, asked, screen, linked, chosen, others>>

ReadFails(r) ==
    /\ r.kind = "read" /\ failures < MaxFailures
    /\ failures' = failures + 1
    /\ requests' = Done(r)
    /\ UNCHANGED <<account, asked, seen, chosen, elsewhere, deaths>>

(* The completion of sd_setImage runs whether or not there was an image.       *)
ImageLoaded(r) ==
    /\ r.kind = "image"
    /\ hud' = HideLoading
    /\ requests' = Done(r)
    /\ UNCHANGED <<account, asked, screen, linked, profile, chosen, others>>

(* A read is not cancelled by signing out.                                     *)
Outlives == outlived' = (outlived \/ \E r \in requests : r.kind = "read")

(* Variant: an administrator stays one.                                       *)
SignOutVariant ==
    /\ OnProfile /\ account # None
    /\ account' = None
    /\ screen' = "auth" /\ linked' = TRUE /\ Outlives
    /\ UNCHANGED <<asked, requests, hud, profile, chosen, loads, crossed, failures, deaths>>

SignOut ==
    /\ OnProfile /\ account # None
    /\ account' = None
    /\ profile' = [profile EXCEPT !.isAdmin = FALSE]
    /\ screen' = "auth" /\ linked' = TRUE /\ Outlives
    /\ UNCHANGED <<asked, requests, hud, chosen, loads, crossed, failures, deaths>>

-----------------------------------------------------------------------------
(* The screens of spots.  No HUD covers the tab bar, and what they wait for is  *)
(* answered wherever the user is by then.                                     *)

Crosses == crossed' = (crossed \/ hud.shared = "profile")

SpotsOpen ==
    /\ screen = "tabs" /\ loads < MaxLoads
    /\ loads' = loads + 1
    /\ hud' = ShowLoading("spots") /\ Crosses
    /\ UNCHANGED <<account, asked, requests, screen, linked, profile, chosen, outlived,
                   failures, deaths>>

(* A city hides the HUD once, as does a removal; the favourites once for each.   *)
SpotsAnswered ==
    /\ loads > 0 /\ loads' \in {loads - 1, loads}
    /\ hud' = HideLoading /\ Crosses
    /\ UNCHANGED <<account, asked, requests, screen, linked, profile, chosen, outlived,
                   failures, deaths>>

(* After an error nothing hides the HUD.                                       *)
SpotsFail ==
    /\ loads > 0 /\ loads' = loads - 1
    /\ UNCHANGED <<account, asked, requests, seen, chosen, crossed, outlived, failures, deaths>>

-----------------------------------------------------------------------------
(* The avatar: saveToStorage keeps the uid with which it began.                *)

AvatarPicked(p) ==
    /\ OnProfile /\ account # None /\ chosen[p] = None
    /\ chosen' = [chosen EXCEPT ![p] = account]
    /\ requests' = requests \cup {[Request("put", account) EXCEPT !.picture = p]}
    /\ UNCHANGED <<account, asked, seen, others>>

PutAnswered(r) ==
    /\ r.kind = "put"
    /\ stored' = [stored EXCEPT ![r.of] = r.picture]
    /\ requests' = Done(r) \cup {[r EXCEPT !.kind = "url"]}
    /\ UNCHANGED <<account, registered, documents, writes, seen, chosen, others>>

(* Variant: the upload ends in the document of whoever is signed in by then.   *)
UrlAnsweredVariant(r) ==
    /\ r.kind = "url" /\ account # None
    /\ Enqueue([kind |-> "update", of |-> account, holder |-> None, avatar |-> stored[r.of],
                heard |-> TRUE])
    /\ requests' = Done(r)
    /\ UNCHANGED <<account, registered, documents, stored, seen, chosen, others>>

(* The URL is that of whatever the object now holds.                           *)
UrlAnswered(r) ==
    /\ r.kind = "url"
    /\ Enqueue([kind |-> "update", of |-> r.of, holder |-> None, avatar |-> stored[r.of],
                heard |-> TRUE])
    /\ requests' = Done(r)
    /\ UNCHANGED <<account, registered, documents, stored, seen, chosen, others>>

UploadFails(r) ==
    /\ r.kind \in {"put", "url"}
    /\ requests' = Done(r)
    /\ UNCHANGED <<account, asked, seen, chosen, others>>

-----------------------------------------------------------------------------
(* Firestore sends what waits in the queue of the current user.                *)

(* The new user document is on the server: registration ends.                  *)
SetAnswered(w) ==
    IF w.kind = "set" /\ w.heard
    THEN screen' = "tabs" /\ hud' = HideLoading
    ELSE UNCHANGED <<screen, hud>>

WriteAnswered ==
    /\ writes[account] # <<>>
    /\ LET w == Head(writes[account])
       IN  /\ documents' = [documents EXCEPT ![w.of] = Written(@, w)]
           /\ SetAnswered(w)
    /\ writes' = [writes EXCEPT ![account] = Tail(@)]
    /\ UNCHANGED <<account, registered, stored, requests, linked, profile, chosen, others>>

WriteRefused ==
    /\ writes[account] # <<>>
    /\ LET w == Head(writes[account])
       IN  IF w.kind = "set"
           THEN /\ failures < MaxFailures /\ failures' = failures + 1
                /\ hud' = IF w.heard THEN HideLoading ELSE hud
           ELSE UNCHANGED <<failures, hud>>
    /\ writes' = [writes EXCEPT ![account] = Tail(@)]
    /\ UNCHANGED <<account, registered, documents, stored, requests, screen, linked, profile,
                   chosen, elsewhere, deaths>>

(* The app is started again: requests and callbacks are gone, the account and   *)
(* the writes are not, and an account may have been created on the way.        *)
ProcessDies ==
    /\ deaths < MaxDeaths /\ deaths' = deaths + 1
    /\ \/ UNCHANGED registered
       \/ registered' = registered \cup {r.of : r \in {q \in requests : q.kind = "create"}}
    /\ requests' = {}
    /\ writes' = [a \in Maybe(Accounts) |->
                     [i \in DOMAIN writes[a] |-> [writes[a][i] EXCEPT !.heard = FALSE]]]
    /\ screen' = FirstScreen(account) /\ linked' = FALSE
    /\ profile' = Unloaded
    /\ hud' = NoHud
    /\ loads' = 0 /\ crossed' = FALSE /\ outlived' = FALSE
    /\ UNCHANGED <<account, documents, stored, chosen, failures>>

Answer(r) ==
    \/ SignInAnswered(r) \/ SignInFails(r) \/ SignedIn(r)
    \/ CreateAnswered(r) \/ CreateFails(r) \/ Created(r)
    \/ ReadAnswered(r) \/ ReadFails(r) \/ ImageLoaded(r)
    \/ PutAnswered(r) \/ UrlAnswered(r) \/ UploadFails(r)

Next ==
    \/ \E a \in Accounts : LoginButtonDidTap(a) \/ FinishButtonDidTap(a)
    \/ RegisterButtonDidTap \/ BackButtonDidTap
    \/ ProfileLoads \/ SignOut
    \/ SpotsOpen \/ SpotsAnswered \/ SpotsFail
    \/ \E p \in Pictures : AvatarPicked(p)
    \/ \E r \in requests : Answer(r)
    \/ WriteAnswered \/ WriteRefused
    \/ ProcessDies

Spec == Init /\ [][Next]_vars

(* Every request is answered, if only by a timeout, and the network lets the    *)
(* writes of whoever is signed in through; the user need do nothing.           *)
Fairness ==
    /\ WF_vars(\E r \in requests : r.kind \in {"create", "created"} /\ Answer(r))
    /\ WF_vars(\E r \in requests : r.kind \in {"read", "image"} /\ Answer(r))
    /\ WF_vars(WriteAnswered \/ WriteRefused)

FairSpec == Spec /\ Fairness

-----------------------------------------------------------------------------
(* Only an administrator can start a rebuild: the profile that offers it to the *)
(* user is not left over from somebody else (apiButtonDidTap asks user.isAdmin, *)
(* setupData changes it only where the document has the field).  Unless         *)
(* somebody signed out while the profile was being read for him: the late       *)
(* answer undoes what signOut has reset.                                      *)
RebuildIsForAdministrators ==
    OnProfile /\ profile.isAdmin /\ ~outlived => account \in Administrators

(* And it is the profile's HUD that keeps the sign-out from such a read: only   *)
(* after a screen of spots has replaced or hidden it can there be one.          *)
HudKeepsSignOutFromReads == outlived => crossed

(* Whenever the HUD leaves the profile, what the profile shows is the account   *)
(* that is signed in: no answer came in late, or for somebody else.  Unless a   *)
(* screen of spots has replaced or hidden the profile's HUD.                   *)
UncoveredProfileIsCurrent ==
    [][Covered("profile") /\ ~Covered("profile")' /\ profile'.loaded /\ ~crossed'
         => profile'.shown = account']_vars

(* Nobody's user document holds another's data: neither the e-mail, name and    *)
(* password of another registration, nor a picture chosen by somebody else,    *)
(* whoever signs in while the upload is under way.                             *)
DocumentsAreOwn ==
    \A a \in Accounts :
        /\ documents[a].holder \in {a, None}
        /\ documents[a].avatar # None => chosen[documents[a].avatar] = a

(* Who gets past the sheets has a user document, unless something failed or the *)
(* app died between the creation of the account and that of the document.      *)
RegisteredHaveDocuments ==
    screen = "tabs" /\ failures = 0 /\ deaths = 0 => documents[account].holder # None

(* However a registration ends, its HUD goes.                                  *)
RegistrationEnds == Covered("register") ~> ~Covered("register")

(* The HUD leaves the profile, unless something failed, the document is         *)
(* missing, or a screen of spots has replaced or hidden the profile's HUD.       *)
ProfileOpens ==
    Covered("profile") ~>
        \/ ~Covered("profile")
        \/ failures > 0 \/ Local(account).holder = None \/ crossed
=============================================================================
