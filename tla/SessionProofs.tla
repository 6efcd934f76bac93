----------------------------- MODULE SessionProofs -----------------------------
(***************************************************************************)
(* Proofs about Session, for any accounts, pictures and bounds: its types,  *)
(* who may start a rebuild, whose data a document holds, who has one, and    *)
(* that the profile shows the account that is signed in.                    *)
(***************************************************************************)
EXTENDS Session, TLAPS

-----------------------------------------------------------------------------
(* The inductive invariant.                                                   *)

Entering == {"signIn", "signedIn", "create", "created"}
IsHeardSet(w) == w.kind = "set" /\ w.heard

(* One sign-in or registration at a time: a request, or the write of the new    *)
(* document.                                                                  *)
OneAtATime ==
    /\ \A r, s \in requests : r.kind \in Entering /\ s.kind \in Entering => r = s
    /\ \A r \in requests : r.kind \in Entering =>
          \A u \in Maybe(Accounts) : \A i \in DOMAIN writes[u] : ~IsHeardSet(writes[u][i])
    /\ \A u, v \in Maybe(Accounts) : \A i \in DOMAIN writes[u], j \in DOMAIN writes[v] :
          IsHeardSet(writes[u][i]) /\ IsHeardSet(writes[v][j]) => u = v /\ i = j

(* Its sheet stays until it is over, and nobody else becomes the current user.  *)
SheetsStay ==
    /\ \A r \in requests :
          /\ r.kind \in {"signIn", "signedIn"} => screen = "auth"
          /\ r.kind \in {"create", "created"} => screen = "register"
          /\ r.kind \in {"signedIn", "created"} => account = r.of
    /\ \A u \in Maybe(Accounts) : \A i \in DOMAIN writes[u] :
          IsHeardSet(writes[u][i]) =>
              screen = "register" /\ account = u /\ account = writes[u][i].of

(* A HUD covers the view that is on the screen, and can be reached, unless a     *)
(* screen of spots has replaced that of the profile.                           *)
HudOnScreen ==
    /\ "register" \notin hud.lost
    /\ "profile" \in hud.lost => crossed
    /\ hud.shared = "profile" => screen = "tabs" /\ profile.loaded
    /\ linked => profile.loaded
    /\ hud.shared = "register" => screen = "register"

(* What the profile waits for is asked for the current user, and covers it, as   *)
(* long as no screen of spots has met its HUD; a read that outlives a session   *)
(* comes after that.                                                          *)
ReadsAreCurrent ==
    /\ ~crossed =>
          /\ \A r, s \in requests :
                r.kind \in {"read", "image"} /\ s.kind \in {"read", "image"} => r = s
          /\ \A r \in requests :
                r.kind \in {"read", "image"} => account = r.of /\ hud.shared = "profile"
          /\ \A r \in requests : r.kind = "image" => profile.shown = r.of
    /\ ~outlived => \A r \in requests : r.kind = "read" => screen = "tabs" /\ account = r.of
    /\ outlived => crossed

(* The tabs are for who is signed in.                                          *)
TabsAreForUsers ==
    /\ screen = "tabs" => account # None
    /\ account # None => account \in registered

AdministratorsAre ==
    /\ \A a \in Accounts : documents[a].isAdmin = TRUE => a \in Administrators
    /\ profile.isAdmin /\ ~outlived => screen = "tabs" /\ account \in Administrators

(* What waits to be written, and what is stored or under way, is its account's. *)
WritesAreOwn ==
    \A u \in Maybe(Accounts) : \A i \in DOMAIN writes[u] :
        LET w == writes[u][i]
        IN  /\ w.kind = "set" => w.holder = w.of
            /\ w.kind = "update" /\ w.avatar # None => chosen[w.avatar] = w.of

UploadsAreOwn ==
    /\ \A a \in Accounts : stored[a] # None => chosen[stored[a]] = a
    /\ \A r \in requests : r.kind = "put" => r.picture # None /\ chosen[r.picture] = r.of

(* Unless something went wrong, an account is without a document only while it  *)
(* is being registered.                                                       *)
RegistrationsWrite ==
    failures = 0 /\ deaths = 0 =>
        \A a \in registered :
            \/ documents[a].holder # None
            \/ \E r \in requests : r.kind = "created" /\ r.of = a
            \/ \E i \in DOMAIN writes[a] : IsHeardSet(writes[a][i])

IInv ==
    /\ TypeOK /\ OneAtATime /\ SheetsStay /\ HudOnScreen /\ ReadsAreCurrent
    /\ TabsAreForUsers /\ AdministratorsAre /\ WritesAreOwn /\ UploadsAreOwn
    /\ DocumentsAreOwn /\ RegistrationsWrite
USE SessionAssumption

-----------------------------------------------------------------------------
(* What a request, a write and a document are made of.                          *)
LEMMA RequestIsTyped ==
    ASSUME NEW kind \in {"signIn", "signedIn", "create", "created", "read", "image"},
           NEW a \in Accounts
    PROVE  Request(kind, a) \in Requests
    BY DEF Request, Requests, Maybe

(* The upload of a picture.                                                    *)
LEMMA UploadIsTyped ==
    ASSUME NEW a \in Accounts, NEW p \in Pictures
    PROVE  [Request("put", a) EXCEPT !.picture = p] \in Requests
    BY DEF Request, Requests, Maybe

(* What a write makes of a document.                                           *)
LEMMA WrittenFacts ==
    ASSUME NEW d \in Documents, NEW w \in Writes
    PROVE  /\ Written(d, w) \in Documents
           /\ Written(d, w).holder \in {d.holder, w.holder}
           /\ w.kind = "update" => Written(d, w).holder = d.holder
           /\ Written(d, w).isAdmin \in {d.isAdmin, None}
           /\ Written(d, w).avatar \in {d.avatar, None, w.avatar}
           /\ w.kind = "set" => Written(d, w).avatar = None /\ Written(d, w).holder = w.holder
<1>1. NoDocument \in Documents
  BY DEF NoDocument, Documents, Maybe
<1>2. CASE w.kind = "set"
  BY <1>1, <1>2 DEF Written, Documents, NoDocument, Writes
<1>3. CASE w.kind = "update"
  BY <1>3 DEF Written, Documents, Writes
<1> QED
  BY <1>2, <1>3 DEF Writes

(* A document after writes of its own is its own.                              *)
LEMMA WithLastFacts ==
    ASSUME NEW a \in Accounts, NEW d \in Documents, NEW q \in Seq(Writes),
           NEW indices \in SUBSET DOMAIN q,
           d.holder \in {a, None}, d.isAdmin = TRUE => a \in Administrators,
           \A i \in indices : q[i].kind = "set" => q[i].holder = a
    PROVE  /\ WithLast(d, q, indices) \in Documents
           /\ WithLast(d, q, indices).holder \in {a, None}
           /\ WithLast(d, q, indices).isAdmin = TRUE => a \in Administrators
<1>1. CASE \E i \in indices : \A j \in indices : j <= i
  <2> DEFINE last == CHOOSE i \in indices : \A j \in indices : j <= i
  <2>1. last \in indices
    BY <1>1
  <2>2. WithLast(d, q, indices) = Written(d, q[last])
    BY <1>1 DEF WithLast
  <2> HIDE DEF last
  <2>3. q[last] \in Writes
    BY <2>1
  <2>4. q[last].kind \in {"set", "update"}
    BY <2>3 DEF Writes
  <2>5. q[last].kind = "set" => q[last].holder = a
    BY <2>1
  <2>6. /\ Written(d, q[last]) \in Documents
        /\ Written(d, q[last]).holder \in {a, None}
        /\ Written(d, q[last]).isAdmin \in {d.isAdmin, None}
    BY <2>3, <2>4, <2>5, WrittenFacts
  <2> QED
    BY <2>2, <2>6
<1>2. CASE ~ \E i \in indices : \A j \in indices : j <= i
  BY <1>2 DEF WithLast
<1> QED
  BY <1>1, <1>2

(* What a read of a returns is a's own document.                               *)
LEMMA LocalFacts ==
    ASSUME IInv, NEW a \in Accounts
    PROVE  /\ Local(a) \in Documents
           /\ Local(a).holder \in {a, None}
           /\ Local(a).isAdmin = TRUE => a \in Administrators
<1> DEFINE q == writes[account]
           sets == {i \in DOMAIN q : q[i].of = a /\ q[i].kind = "set"}
           updates == {i \in DOMAIN q : q[i].of = a /\ q[i].kind = "update"
                                           /\ \A j \in sets : j < i}
           d == WithLast(documents[a], q, sets)
<1>1. q \in Seq(Writes) /\ documents[a] \in Documents
  BY DEF IInv, TypeOK
<1>2. documents[a].holder \in {a, None} /\ (documents[a].isAdmin = TRUE => a \in Administrators)
  BY DEF IInv, DocumentsAreOwn, AdministratorsAre
<1>3. \A i \in DOMAIN q : q[i].of = a /\ q[i].kind = "set" => q[i].holder = a
  BY DEF IInv, TypeOK, WritesAreOwn
<1>4. /\ d \in Documents /\ d.holder \in {a, None}
      /\ d.isAdmin = TRUE => a \in Administrators
  <2> HIDE DEF q
  <2> QED
    BY <1>1, <1>2, <1>3, WithLastFacts
<1>5. /\ WithLast(d, q, updates) \in Documents
      /\ WithLast(d, q, updates).holder \in {a, None}
      /\ WithLast(d, q, updates).isAdmin = TRUE => a \in Administrators
  <2>1. updates \in SUBSET DOMAIN q /\ \A i \in updates : q[i].kind = "set" => q[i].holder = a
    OBVIOUS
  <2> HIDE DEF q, d, updates
  <2> QED
    BY <1>1, <1>4, <2>1, WithLastFacts
<1> QED
  BY <1>5 DEF Local

(* A queue without its first write, and with one more.                         *)
LEMMA QueueFacts ==
    ASSUME NEW q \in Seq(Writes)
    PROVE  /\ DOMAIN q = 1..Len(q) /\ Len(q) \in Nat
           /\ q # <<>> => /\ Head(q) = q[1] /\ Head(q) \in Writes /\ 1 \in DOMAIN q
                          /\ Tail(q) \in Seq(Writes)
                          /\ DOMAIN Tail(q) = 1..(Len(q) - 1)
                          /\ \A i \in DOMAIN Tail(q) : i + 1 \in DOMAIN q /\ Tail(q)[i] = q[i + 1]
           /\ \A w \in Writes :
                 /\ Append(q, w) \in Seq(Writes)
                 /\ DOMAIN Append(q, w) = 1..(Len(q) + 1)
                 /\ \A i \in DOMAIN q : Append(q, w)[i] = q[i]
                 /\ Append(q, w)[Len(q) + 1] = w
  OBVIOUS

(* What Enqueue leaves behind.                                                 *)
LEMMA EnqueueFacts ==
    ASSUME TypeOK, NEW w \in Writes, Enqueue(w)
    PROVE  /\ writes' \in [Maybe(Accounts) -> Seq(Writes)]
           /\ \A u \in Maybe(Accounts) : \A i \in DOMAIN writes[u] :
                 i \in DOMAIN writes'[u] /\ writes'[u][i] = writes[u][i]
           /\ \A u \in Maybe(Accounts) : \A i \in DOMAIN writes'[u] :
                 \/ i \in DOMAIN writes[u] /\ writes'[u][i] = writes[u][i]
                 \/ u = account /\ i = Len(writes[u]) + 1 /\ writes'[u][i] = w
           /\ \E i \in DOMAIN writes'[account] : writes'[account][i] = w
<1>1. /\ account \in Maybe(Accounts) /\ writes[account] \in Seq(Writes)
      /\ writes' = [writes EXCEPT ![account] = Append(writes[account], w)]
      /\ writes \in [Maybe(Accounts) -> Seq(Writes)]
  BY DEF TypeOK, Enqueue
<1>2. /\ DOMAIN writes[account] = 1..Len(writes[account]) /\ Len(writes[account]) \in Nat
      /\ Append(writes[account], w) \in Seq(Writes)
      /\ DOMAIN Append(writes[account], w) = 1..(Len(writes[account]) + 1)
      /\ \A i \in DOMAIN writes[account] : Append(writes[account], w)[i] = writes[account][i]
      /\ Append(writes[account], w)[Len(writes[account]) + 1] = w
  BY <1>1, QueueFacts
<1>3. /\ writes'[account] = Append(writes[account], w)
      /\ \A u \in Maybe(Accounts) : u # account => writes'[u] = writes[u]
      /\ writes' \in [Maybe(Accounts) -> Seq(Writes)]
  BY <1>1, <1>2
<1>4. \A i \in DOMAIN writes'[account] :
         i \in DOMAIN writes[account] \/ i = Len(writes[account]) + 1
  BY <1>2, <1>3
<1>5. Len(writes[account]) + 1 \in DOMAIN writes'[account]
  BY <1>2, <1>3
<1>6. \A i \in DOMAIN writes[account] : i \in DOMAIN writes'[account]
  BY <1>2, <1>3
<1>7. \E i \in DOMAIN writes'[account] : writes'[account][i] = w
  BY <1>2, <1>3, <1>5
<1>8. \A u \in Maybe(Accounts) : \A i \in DOMAIN writes[u] :
         i \in DOMAIN writes'[u] /\ writes'[u][i] = writes[u][i]
  BY <1>2, <1>3, <1>6
<1>9. \A u \in Maybe(Accounts) : \A i \in DOMAIN writes'[u] :
         \/ i \in DOMAIN writes[u] /\ writes'[u][i] = writes[u][i]
         \/ u = account /\ i = Len(writes[u]) + 1 /\ writes'[u][i] = w
  BY <1>2, <1>3, <1>4
<1> QED
  BY <1>3, <1>7, <1>8, <1>9

(* What is left when the first write of the current user has been answered.     *)
Dequeued == writes[account] # <<>> /\ writes' = [writes EXCEPT ![account] = Tail(@)]

(* The queues without that write.                                              *)
LEMMA DequeuedFacts ==
    ASSUME TypeOK, Dequeued
    PROVE  /\ writes' \in [Maybe(Accounts) -> Seq(Writes)]
           /\ Head(writes[account]) = writes[account][1] /\ Head(writes[account]) \in Writes
           /\ 1 \in DOMAIN writes[account]
           /\ \A u \in Maybe(Accounts) : u # account => writes'[u] = writes[u]
           /\ \A i \in DOMAIN writes'[account] :
                 /\ i \in Nat \ {0} /\ i + 1 \in DOMAIN writes[account]
                 /\ writes'[account][i] = writes[account][i + 1]
           /\ \A i \in DOMAIN writes[account] :
                 i # 1 => i - 1 \in DOMAIN writes'[account]
                            /\ writes'[account][i - 1] = writes[account][i]
<1>1. /\ account \in Maybe(Accounts) /\ writes[account] \in Seq(Writes)
      /\ writes' = [writes EXCEPT ![account] = Tail(writes[account])]
      /\ writes \in [Maybe(Accounts) -> Seq(Writes)]
      /\ writes[account] # <<>>
  BY DEF TypeOK, Dequeued
<1> DEFINE q == writes[account]
<1>2. /\ DOMAIN q = 1..Len(q) /\ Len(q) \in Nat
      /\ Head(q) = q[1] /\ Head(q) \in Writes /\ 1 \in DOMAIN q
      /\ Tail(q) \in Seq(Writes) /\ DOMAIN Tail(q) = 1..(Len(q) - 1)
      /\ \A i \in DOMAIN Tail(q) : i + 1 \in DOMAIN q /\ Tail(q)[i] = q[i + 1]
  BY <1>1, QueueFacts
<1>3. /\ writes'[account] = Tail(q)
      /\ \A u \in Maybe(Accounts) : u # account => writes'[u] = writes[u]
      /\ writes' \in [Maybe(Accounts) -> Seq(Writes)]
  BY <1>1, <1>2
<1>4. \A i \in DOMAIN q : i # 1 => i - 1 \in DOMAIN Tail(q) /\ Tail(q)[i - 1] = q[i]
  <2> SUFFICES ASSUME NEW i \in DOMAIN q, i # 1
               PROVE  i - 1 \in DOMAIN Tail(q) /\ Tail(q)[i - 1] = q[i]
    OBVIOUS
  <2>1. i - 1 \in DOMAIN Tail(q) /\ (i - 1) + 1 = i
    BY <1>2
  <2> QED
    BY <2>1, <1>2
<1>5. \A i \in DOMAIN Tail(q) : i \in Nat \ {0}
  BY <1>2
<1> QED
  BY <1>2, <1>3, <1>4, <1>5

(* The writes that a registration and an upload make.                          *)
NewDocument(r) ==
    [kind |-> "set", of |-> account, holder |-> r.of, avatar |-> None, heard |-> TRUE]

(* The document of a new account is put into its queue.                        *)
LEMMA CreatedFacts ==
    ASSUME IInv, NEW r \in requests, Created(r)
    PROVE  /\ account = r.of /\ account \in Accounts
           /\ writes' \in [Maybe(Accounts) -> Seq(Writes)]
           /\ \A u \in Maybe(Accounts) : \A i \in DOMAIN writes[u] :
                 i \in DOMAIN writes'[u] /\ writes'[u][i] = writes[u][i]
           /\ \A u \in Maybe(Accounts) : \A i \in DOMAIN writes'[u] :
                 \/ /\ i \in DOMAIN writes[u] /\ writes'[u][i] = writes[u][i]
                    /\ ~IsHeardSet(writes[u][i])
                 \/ u = account /\ i = Len(writes[u]) + 1 /\ writes'[u][i] = NewDocument(r)
           /\ \E i \in DOMAIN writes'[account] : writes'[account][i] = NewDocument(r)
           /\ \A s \in requests' : s \in requests /\ s.kind \notin Entering
<1>1. account = r.of /\ account \in Accounts
  BY DEF IInv, TypeOK, SheetsStay, Created, Requests
<1>2. NewDocument(r) \in Writes
  BY <1>1 DEF NewDocument, Writes, Maybe
<1>3. Enqueue(NewDocument(r)) /\ TypeOK
  BY <1>1 DEF Created, NewDocument, IInv
<1>4. r.kind = "created" /\ requests' = requests \ {r}
  BY DEF Created, Done
<1>5. \A u \in Maybe(Accounts) : \A i \in DOMAIN writes[u] : ~IsHeardSet(writes[u][i])
  BY <1>4 DEF IInv, OneAtATime, Entering
<1>6. \A s \in requests' : s \in requests /\ s.kind \notin Entering
  BY <1>4 DEF IInv, OneAtATime, Entering
<1> QED
  BY <1>1, <1>2, <1>3, <1>5, <1>6, EnqueueFacts

(* The address of an uploaded avatar is put into the queue of its account.     *)
LEMMA UrlEnqueues ==
    ASSUME IInv, NEW r \in requests, UrlAnswered(r)
    PROVE  /\ r.of \in Accounts
           /\ [kind |-> "update", of |-> r.of, holder |-> None, avatar |-> stored[r.of],
               heard |-> TRUE] \in Writes
           /\ writes' \in [Maybe(Accounts) -> Seq(Writes)]
           /\ \A u \in Maybe(Accounts) : \A i \in DOMAIN writes[u] :
                 i \in DOMAIN writes'[u] /\ writes'[u][i] = writes[u][i]
           /\ \A u \in Maybe(Accounts) : \A i \in DOMAIN writes'[u] :
                 \/ i \in DOMAIN writes[u] /\ writes'[u][i] = writes[u][i]
                 \/ writes'[u][i] = [kind |-> "update", of |-> r.of, holder |-> None,
                                     avatar |-> stored[r.of], heard |-> TRUE]
<1> DEFINE w == [kind |-> "update", of |-> r.of, holder |-> None, avatar |-> stored[r.of],
                 heard |-> TRUE]
<1>1. r.of \in Accounts
  BY DEF IInv, TypeOK, Requests
<1>2. w \in Writes
  BY <1>1 DEF IInv, TypeOK, Writes, Maybe
<1>3. Enqueue(w) /\ TypeOK
  BY DEF UrlAnswered, IInv
<1> HIDE DEF w
<1>4. /\ writes' \in [Maybe(Accounts) -> Seq(Writes)]
      /\ \A u \in Maybe(Accounts) : \A i \in DOMAIN writes[u] :
            i \in DOMAIN writes'[u] /\ writes'[u][i] = writes[u][i]
      /\ \A u \in Maybe(Accounts) : \A i \in DOMAIN writes'[u] :
            \/ i \in DOMAIN writes[u] /\ writes'[u][i] = writes[u][i]
            \/ writes'[u][i] = w
  BY <1>2, <1>3, EnqueueFacts
<1> QED
  BY <1>1, <1>2, <1>4 DEF w

(* Answers to the write of a new document, and to other writes.                 *)
LEMMA AnsweredFacts ==
    ASSUME IInv, Dequeued
    PROVE  /\ \A u \in Maybe(Accounts) : \A i \in DOMAIN writes'[u] :
                 \E j \in DOMAIN writes[u] :
                     /\ writes'[u][i] = writes[u][j] /\ j = (IF u = account THEN i + 1 ELSE i)
                     /\ i \in Nat
           /\ IsHeardSet(writes[account][1]) =>
                 /\ \A u \in Maybe(Accounts) : \A i \in DOMAIN writes'[u] :
                       ~IsHeardSet(writes'[u][i])
                 /\ \A r \in requests : r.kind \notin Entering
                 /\ screen = "register" /\ account \in Accounts
                 /\ hud.shared # "profile"
                 /\ writes[account][1].of = account /\ writes[account][1].holder = account
<1>1. TypeOK /\ account \in Maybe(Accounts) /\ writes[account][1] \in Writes
  BY DequeuedFacts DEF IInv, TypeOK
<1>2. \A u \in Maybe(Accounts) : DOMAIN writes[u] \subseteq Nat
  BY QueueFacts DEF IInv, TypeOK
<1>3. \A u \in Maybe(Accounts) : \A i \in DOMAIN writes'[u] :
          \E j \in DOMAIN writes[u] :
              /\ writes'[u][i] = writes[u][j] /\ j = (IF u = account THEN i + 1 ELSE i)
              /\ i \in Nat
  BY <1>1, <1>2, DequeuedFacts
<1>4. ASSUME IsHeardSet(writes[account][1])
      PROVE  /\ \A u \in Maybe(Accounts) : \A i \in DOMAIN writes'[u] : ~IsHeardSet(writes'[u][i])
             /\ \A r \in requests : r.kind \notin Entering
  <2>1. 1 \in DOMAIN writes[account]
    BY <1>1, DequeuedFacts
  <2>2. \A u \in Maybe(Accounts) : \A j \in DOMAIN writes[u] :
            IsHeardSet(writes[u][j]) => u = account /\ j = 1
    BY <1>1, <1>4, <2>1 DEF IInv, OneAtATime
  <2>3. \A u \in Maybe(Accounts) : \A i \in DOMAIN writes'[u] : ~IsHeardSet(writes'[u][i])
    <3> SUFFICES ASSUME NEW u \in Maybe(Accounts), NEW i \in DOMAIN writes'[u],
                        IsHeardSet(writes'[u][i])
                 PROVE  FALSE
      OBVIOUS
    <3>1. PICK j \in DOMAIN writes[u] :
              writes'[u][i] = writes[u][j] /\ j = (IF u = account THEN i + 1 ELSE i)
      BY <1>3
    <3>2. u = account /\ j = 1
      BY <2>2, <3>1
    <3>3. i \in Nat \ {0}
      BY <3>2, <1>1, DequeuedFacts
    <3> QED
      BY <3>1, <3>2, <3>3
  <2> QED
    BY <1>1, <1>4, <2>1, <2>3 DEF IInv, OneAtATime
<1>5. ASSUME IsHeardSet(writes[account][1])
      PROVE  /\ screen = "register" /\ account \in Accounts
             /\ hud.shared # "profile"
             /\ writes[account][1].of = account /\ writes[account][1].holder = account
  <2>1. 1 \in DOMAIN writes[account]
    BY <1>1, DequeuedFacts
  <2>2. screen = "register" /\ writes[account][1].of = account
    BY <1>1, <1>5, <2>1 DEF IInv, SheetsStay
  <2>3. writes[account][1].holder = writes[account][1].of
    BY <1>1, <1>5, <2>1 DEF IInv, WritesAreOwn, IsHeardSet
  <2> QED
    BY <1>1, <2>2, <2>3 DEF IInv, HudOnScreen, Writes
<1> QED
  BY <1>3, <1>4, <1>5

(* The queue of a process that died: nobody waits for its writes any more.       *)
LEMMA QuietIsTyped ==
    ASSUME NEW q \in Seq(Writes), \A w \in Writes : [w EXCEPT !.heard = FALSE] \in Writes
    PROVE  [i \in DOMAIN q |-> [q[i] EXCEPT !.heard = FALSE]] \in Seq(Writes)
<1>1. DOMAIN q = 1..Len(q) /\ Len(q) \in Nat /\ \A i \in 1..Len(q) : q[i] \in Writes
  OBVIOUS
<1>2. [i \in 1..Len(q) |-> [q[i] EXCEPT !.heard = FALSE]] \in Seq(Writes)
  BY <1>1
<1> QED
  BY <1>1, <1>2

(* The HUD comes and goes.                                                     *)
LEMMA HudFacts ==
    ASSUME TypeOK, NEW view \in Views
    PROVE  /\ ShowLoading(view) \in [shared : Maybe(Views), lost : SUBSET Views]
           /\ HideLoading \in [shared : Maybe(Views), lost : SUBSET Views]
           /\ HideLoading.shared = None /\ HideLoading.lost = hud.lost
           /\ ShowLoading(view).shared = view
           /\ hud.shared \notin {"profile", "register"} => ShowLoading(view).lost = hud.lost
    BY DEF TypeOK, ShowLoading, HideLoading, Maybe

-----------------------------------------------------------------------------
(* A sign-in starts: nothing else is entering.                                 *)
LEMMA LoginButtonDidTapKeeps ==
    ASSUME IInv, NEW a \in Accounts, LoginButtonDidTap(a)
    PROVE  IInv'
<1>1. TypeOK'
  <2>1. requests' \in SUBSET Requests
    BY RequestIsTyped DEF LoginButtonDidTap, IInv, TypeOK, Done, others
  <2> QED
    BY <2>1 DEF LoginButtonDidTap, IInv, TypeOK, asked, seen, others
<1>2. OneAtATime'
  BY DEF LoginButtonDidTap, UnderWay, IsHeardSet, Entering, OneAtATime, asked
<1>3. SheetsStay'
  BY DEF LoginButtonDidTap, Request, IInv, SheetsStay, asked, seen
<1>4. ReadsAreCurrent'
  BY DEF LoginButtonDidTap, Request, IInv, ReadsAreCurrent, seen, others
<1>5. UploadsAreOwn'
  BY DEF LoginButtonDidTap, Request, IInv, UploadsAreOwn, asked
<1>6. RegistrationsWrite'
  BY DEF LoginButtonDidTap, IInv, RegistrationsWrite, asked, others
<1>7. HudOnScreen' /\ TabsAreForUsers' /\ AdministratorsAre' /\ WritesAreOwn' /\ DocumentsAreOwn'
  BY DEF LoginButtonDidTap, asked, seen, IInv, HudOnScreen, TabsAreForUsers,
         AdministratorsAre, WritesAreOwn, DocumentsAreOwn, others
<1> QED
  BY <1>1, <1>2, <1>3, <1>4, <1>5, <1>6, <1>7 DEF IInv

(* The account is the one signed in.                                           *)
LEMMA SignInAnsweredKeeps ==
    ASSUME IInv, NEW r \in requests, SignInAnswered(r)
    PROVE  IInv'
<1>1. TypeOK'
  <2>1. r.of \in Accounts
    BY DEF IInv, TypeOK, Requests
  <2>2. requests' \in SUBSET Requests
    BY <2>1, RequestIsTyped DEF SignInAnswered, IInv, TypeOK, Done
  <2> QED
    BY <2>1, <2>2 DEF SignInAnswered, IInv, TypeOK, asked, seen, others, Maybe
<1>2. OneAtATime'
  BY DEF SignInAnswered, Done, Entering, IInv, OneAtATime, asked
<1>3. SheetsStay'
  BY DEF SignInAnswered, Request, Done, Entering, IInv, OneAtATime, SheetsStay, asked, seen
<1>4. ReadsAreCurrent'
  BY DEF SignInAnswered, Request, Done, IInv, SheetsStay, HudOnScreen, ReadsAreCurrent, others
<1>5. TabsAreForUsers'
  BY DEF SignInAnswered, IInv, TypeOK, TabsAreForUsers, asked, others
<1>6. AdministratorsAre'
  BY DEF SignInAnswered, IInv, SheetsStay, AdministratorsAre, asked, seen, others
<1>7. UploadsAreOwn'
  BY DEF SignInAnswered, Request, Done, IInv, UploadsAreOwn, asked
<1>8. RegistrationsWrite'
  <2> SUFFICES ASSUME failures' = 0, deaths' = 0, NEW a \in registered'
               PROVE  \/ documents'[a].holder # None
                      \/ \E s \in requests' : s.kind = "created" /\ s.of = a
                      \/ \E i \in DOMAIN writes'[a] : IsHeardSet(writes'[a][i])
    BY DEF RegistrationsWrite
  <2>1. \A s \in requests : s.kind = "created" => s \in requests'
    BY DEF SignInAnswered, Done
  <2> QED
    BY <2>1 DEF SignInAnswered, asked, others, IInv, RegistrationsWrite
<1>9. HudOnScreen' /\ WritesAreOwn' /\ DocumentsAreOwn'
  BY DEF SignInAnswered, asked, seen, IInv, HudOnScreen, WritesAreOwn, DocumentsAreOwn, others
<1> QED
  BY <1>1, <1>2, <1>3, <1>4, <1>5, <1>6, <1>7, <1>8, <1>9 DEF IInv

(* The sheet stays up.                                                         *)
LEMMA SignInFailsKeeps ==
    ASSUME IInv, NEW r \in requests, SignInFails(r)
    PROVE  IInv'
<1>1. TypeOK'
  BY DEF SignInFails, Done, IInv, TypeOK, asked, seen, others
<1>2. OneAtATime'
  BY DEF SignInFails, Done, IInv, OneAtATime, asked
<1>3. SheetsStay'
  BY DEF SignInFails, Done, IInv, SheetsStay, asked, seen
<1>4. ReadsAreCurrent'
  BY DEF SignInFails, Done, IInv, ReadsAreCurrent, seen, others
<1>5. UploadsAreOwn'
  BY DEF SignInFails, Done, IInv, UploadsAreOwn, asked
<1>6. RegistrationsWrite'
  BY DEF SignInFails, Done, IInv, RegistrationsWrite, asked, others
<1>7. HudOnScreen' /\ TabsAreForUsers' /\ AdministratorsAre' /\ WritesAreOwn' /\ DocumentsAreOwn'
  BY DEF SignInFails, asked, seen, IInv, HudOnScreen, TabsAreForUsers, AdministratorsAre,
         WritesAreOwn, DocumentsAreOwn, others
<1> QED
  BY <1>1, <1>2, <1>3, <1>4, <1>5, <1>6, <1>7 DEF IInv

(* The tabs come up for the account.                                           *)
LEMMA SignedInKeeps ==
    ASSUME IInv, NEW r \in requests, SignedIn(r)
    PROVE  IInv'
<1>1. TypeOK'
  <2>1. requests' \in SUBSET Requests
    BY RequestIsTyped DEF SignedIn, SetupData, IInv, TypeOK, Done, Maybe, others
  <2>2. hud' \in [shared : Maybe(Views), lost : SUBSET Views]
    BY HudFacts DEF SignedIn, SetupData, IInv, TypeOK, Views, others
  <2> QED
    BY <2>1, <2>2 DEF SignedIn, IInv, TypeOK, asked, others, Screens
<1>2. OneAtATime'
  BY DEF SignedIn, Done, SetupData, Entering, IInv, OneAtATime, asked
<1>3. SheetsStay'
  BY DEF SignedIn, Done, Request, SetupData, Entering, IInv, OneAtATime, SheetsStay, asked
<1>4. HudOnScreen'
  <2>1. hud.shared \notin {"profile", "register"}
    BY DEF SignedIn, IInv, TypeOK, HudOnScreen, Views, Maybe, SheetsStay, others
  <2>2. "profile" \in Views /\ TypeOK
    BY DEF Views, IInv
  <2> QED
    BY <2>1, <2>2, HudFacts DEF SignedIn, SetupData, IInv, HudOnScreen, others
<1>5. ReadsAreCurrent'
  BY DEF SignedIn, Done, Request, SetupData, ShowLoading, IInv, SheetsStay, HudOnScreen,
         ReadsAreCurrent, others
<1>6. TabsAreForUsers'
  BY DEF SignedIn, IInv, TypeOK, SheetsStay, TabsAreForUsers, asked, Requests, others
<1>7. AdministratorsAre'
  BY DEF SignedIn, IInv, AdministratorsAre, asked, others
<1>8. UploadsAreOwn'
  BY DEF SignedIn, Done, Request, SetupData, IInv, UploadsAreOwn, asked
<1>9. RegistrationsWrite'
  BY DEF SignedIn, Done, SetupData, IInv, RegistrationsWrite, asked, others
<1>10. WritesAreOwn' /\ DocumentsAreOwn'
  BY DEF SignedIn, asked, IInv, WritesAreOwn, DocumentsAreOwn
<1> QED
  BY <1>1, <1>2, <1>3, <1>4, <1>5, <1>6, <1>7, <1>8, <1>9, <1>10 DEF IInv

(* From the first sheet to the second.                                         *)
LEMMA RegisterButtonDidTapKeeps ==
    ASSUME IInv, RegisterButtonDidTap
    PROVE  IInv'
<1>1. TypeOK'
  BY DEF RegisterButtonDidTap, IInv, TypeOK, asked, others, Screens
<1>2. SheetsStay'
  BY DEF RegisterButtonDidTap, UnderWay, IInv, SheetsStay, asked
<1>3. HudOnScreen'
  BY DEF RegisterButtonDidTap, IInv, HudOnScreen, others
<1>4. TabsAreForUsers'
  BY DEF RegisterButtonDidTap, IInv, TabsAreForUsers, asked
<1>5. AdministratorsAre'
  BY DEF RegisterButtonDidTap, IInv, AdministratorsAre, asked, others
<1>6. OneAtATime' /\ ReadsAreCurrent' /\ WritesAreOwn' /\ UploadsAreOwn' /\ DocumentsAreOwn' /\ RegistrationsWrite'
  BY DEF RegisterButtonDidTap, asked, others, IInv, OneAtATime, ReadsAreCurrent,
         WritesAreOwn, UploadsAreOwn, DocumentsAreOwn, RegistrationsWrite
<1> QED
  BY <1>1, <1>2, <1>3, <1>4, <1>5, <1>6 DEF IInv

(* And back.                                                                   *)
LEMMA BackButtonDidTapKeeps ==
    ASSUME IInv, BackButtonDidTap
    PROVE  IInv'
<1>1. TypeOK'
  BY DEF BackButtonDidTap, IInv, TypeOK, asked, others, Maybe, Screens
<1>2. SheetsStay'
  BY DEF BackButtonDidTap, UnderWay, IsHeardSet, SheetsStay, asked
<1>3. HudOnScreen'
  BY DEF BackButtonDidTap, IInv, HudOnScreen, others
<1>4. ReadsAreCurrent'
  BY DEF BackButtonDidTap, IInv, ReadsAreCurrent, others
<1>5. TabsAreForUsers'
  BY DEF BackButtonDidTap, IInv, TabsAreForUsers, asked
<1>6. AdministratorsAre'
  BY DEF BackButtonDidTap, IInv, AdministratorsAre, asked, others
<1>7. OneAtATime' /\ WritesAreOwn' /\ UploadsAreOwn' /\ DocumentsAreOwn' /\ RegistrationsWrite'
  BY DEF BackButtonDidTap, asked, others, IInv, OneAtATime, WritesAreOwn, UploadsAreOwn,
         DocumentsAreOwn, RegistrationsWrite
<1> QED
  BY <1>1, <1>2, <1>3, <1>4, <1>5, <1>6, <1>7 DEF IInv

(* A registration starts: nothing else is entering.                            *)
LEMMA FinishButtonDidTapKeeps ==
    ASSUME IInv, NEW a \in Accounts, FinishButtonDidTap(a)
    PROVE  IInv'
<1>1. TypeOK'
  <2>1. requests' \in SUBSET Requests
    BY RequestIsTyped DEF FinishButtonDidTap, IInv, TypeOK, others
  <2>2. hud' \in [shared : Maybe(Views), lost : SUBSET Views]
    BY HudFacts DEF FinishButtonDidTap, IInv, TypeOK, Views, others
  <2> QED
    BY <2>1, <2>2 DEF FinishButtonDidTap, IInv, TypeOK, asked, others
<1>2. OneAtATime'
  BY DEF FinishButtonDidTap, UnderWay, IsHeardSet, Entering, OneAtATime, asked
<1>3. SheetsStay'
  BY DEF FinishButtonDidTap, Request, IInv, SheetsStay, asked
<1>4. HudOnScreen'
  <2>1. hud.shared \notin {"profile", "register"}
    BY DEF FinishButtonDidTap, IInv, TypeOK, HudOnScreen, Views, Maybe, Covered, others
  <2>2. "register" \in Views /\ TypeOK
    BY DEF Views, IInv
  <2> QED
    BY <2>1, <2>2, HudFacts DEF FinishButtonDidTap, IInv, HudOnScreen, others
<1>5. ReadsAreCurrent'
  BY DEF FinishButtonDidTap, Request, IInv, HudOnScreen, ReadsAreCurrent, others
<1>6. UploadsAreOwn'
  BY DEF FinishButtonDidTap, Request, IInv, UploadsAreOwn, asked
<1>7. RegistrationsWrite'
  BY DEF FinishButtonDidTap, IInv, RegistrationsWrite, asked, others
<1>8. TabsAreForUsers' /\ AdministratorsAre' /\ WritesAreOwn' /\ DocumentsAreOwn'
  BY DEF FinishButtonDidTap, asked, IInv, TabsAreForUsers, AdministratorsAre, WritesAreOwn,
         DocumentsAreOwn, others
<1> QED
  BY <1>1, <1>2, <1>3, <1>4, <1>5, <1>6, <1>7, <1>8 DEF IInv

(* The account exists and is signed in.                                        *)
LEMMA CreateAnsweredKeeps ==
    ASSUME IInv, NEW r \in requests, CreateAnswered(r)
    PROVE  IInv'
<1>1. TypeOK'
  <2>1. r.of \in Accounts
    BY DEF IInv, TypeOK, Requests
  <2>2. requests' \in SUBSET Requests
    BY <2>1, RequestIsTyped DEF CreateAnswered, IInv, TypeOK, Done
  <2> QED
    BY <2>1, <2>2 DEF CreateAnswered, IInv, TypeOK, seen, others, Maybe
<1>2. OneAtATime'
  BY DEF CreateAnswered, Done, Entering, IInv, OneAtATime
<1>3. SheetsStay'
  BY DEF CreateAnswered, Request, Done, Entering, IInv, OneAtATime, SheetsStay, seen
<1>4. ReadsAreCurrent'
  BY DEF CreateAnswered, Request, Done, IInv, SheetsStay, HudOnScreen, ReadsAreCurrent, others
<1>5. TabsAreForUsers'
  BY DEF CreateAnswered, IInv, TypeOK, TabsAreForUsers, Requests, others
<1>6. AdministratorsAre'
  BY DEF CreateAnswered, IInv, SheetsStay, AdministratorsAre, seen, others
<1>7. UploadsAreOwn'
  BY DEF CreateAnswered, Request, Done, IInv, UploadsAreOwn
<1>8. RegistrationsWrite'
  <2> SUFFICES ASSUME failures' = 0, deaths' = 0, NEW a \in registered'
               PROVE  \/ documents'[a].holder # None
                      \/ \E s \in requests' : s.kind = "created" /\ s.of = a
                      \/ \E i \in DOMAIN writes'[a] : IsHeardSet(writes'[a][i])
    BY DEF RegistrationsWrite
  <2>1. \A s \in requests : s.kind = "created" => s \in requests'
    BY DEF CreateAnswered, Done
  <2>2. CASE a \in registered
    BY <2>1, <2>2 DEF CreateAnswered, others, IInv, RegistrationsWrite
  <2>3. CASE a = r.of
    <3>1. Request("created", a) \in requests'
      BY <2>3 DEF CreateAnswered
    <3> QED
      BY <3>1 DEF Request
  <2> QED
    BY <2>2, <2>3 DEF CreateAnswered
<1>9. HudOnScreen' /\ WritesAreOwn' /\ DocumentsAreOwn'
  BY DEF CreateAnswered, seen, IInv, HudOnScreen, WritesAreOwn, DocumentsAreOwn, others
<1> QED
  BY <1>1, <1>2, <1>3, <1>4, <1>5, <1>6, <1>7, <1>8, <1>9 DEF IInv

(* The sheet stays up.                                                         *)
LEMMA CreateFailsKeeps ==
    ASSUME IInv, NEW r \in requests, CreateFails(r)
    PROVE  IInv'
<1>1. TypeOK'
  <2>1. r.of \in Accounts
    BY DEF IInv, TypeOK, Requests
  <2>2. requests' \in SUBSET Requests
    BY DEF CreateFails, IInv, TypeOK, Done, elsewhere
  <2>3. hud' \in [shared : Maybe(Views), lost : SUBSET Views]
    BY HudFacts DEF CreateFails, IInv, Views
  <2>4. registered' \in SUBSET Accounts /\ failures' \in 0..MaxFailures
    BY <2>1 DEF CreateFails, IInv, TypeOK
  <2> QED
    BY <2>1, <2>2, <2>3, <2>4 DEF CreateFails, IInv, TypeOK, elsewhere
<1>2. OneAtATime'
  BY DEF CreateFails, Done, IInv, OneAtATime
<1>3. SheetsStay'
  BY DEF CreateFails, Done, IInv, SheetsStay
<1>4. HudOnScreen'
  BY DEF CreateFails, HideLoading, IInv, HudOnScreen, elsewhere
<1>5. ReadsAreCurrent'
  BY DEF CreateFails, Done, IInv, SheetsStay, HudOnScreen, ReadsAreCurrent, elsewhere
<1>6. TabsAreForUsers'
  BY DEF CreateFails, IInv, TabsAreForUsers
<1>7. UploadsAreOwn'
  BY DEF CreateFails, Done, IInv, UploadsAreOwn
<1>8. RegistrationsWrite'
  <2> SUFFICES ASSUME failures' = 0, deaths' = 0, NEW a \in registered'
               PROVE  \/ documents'[a].holder # None
                      \/ \E s \in requests' : s.kind = "created" /\ s.of = a
                      \/ \E i \in DOMAIN writes'[a] : IsHeardSet(writes'[a][i])
    BY DEF RegistrationsWrite
  <2>1. \A s \in requests : s.kind = "created" => s \in requests'
    BY DEF Done, CreateFails
  <2>2. failures = 0 /\ deaths = 0 /\ registered' = registered
    BY DEF CreateFails, IInv, TypeOK
  <2> QED
    BY <2>1, <2>2 DEF CreateFails, IInv, RegistrationsWrite
<1>9. AdministratorsAre' /\ WritesAreOwn' /\ DocumentsAreOwn'
  BY DEF CreateFails, IInv, AdministratorsAre, WritesAreOwn, DocumentsAreOwn, elsewhere
<1> QED
  BY <1>1, <1>2, <1>3, <1>4, <1>5, <1>6, <1>7, <1>8, <1>9 DEF IInv

(* The document of the new account is written.                                 *)
LEMMA CreatedKeeps ==
    ASSUME IInv, NEW r \in requests, Created(r)
    PROVE  IInv'
<1>1. TypeOK'
  <2>1. requests' \in SUBSET Requests
    BY DEF Created, IInv, TypeOK, Done, others
  <2>2. writes' \in [Maybe(Accounts) -> Seq(Writes)]
    BY CreatedFacts
  <2> QED
    BY <2>1, <2>2 DEF Created, IInv, TypeOK, seen, others
<1>2. OneAtATime'
  BY CreatedFacts DEF OneAtATime
<1>3. SheetsStay'
  <2>1. screen' = "register" /\ account' = account
    BY DEF Created, seen, IInv, SheetsStay
  <2>2. \A u \in Maybe(Accounts) : \A i \in DOMAIN writes'[u] :
           IsHeardSet(writes'[u][i]) => u = account /\ writes'[u][i].of = account
    <3>1. \A u \in Maybe(Accounts) : \A i \in DOMAIN writes'[u] :
             IsHeardSet(writes'[u][i]) => u = account /\ writes'[u][i] = NewDocument(r)
      BY CreatedFacts
    <3> QED
      BY <3>1 DEF NewDocument
  <2>3. \A s \in requests' : s.kind \notin Entering
    BY CreatedFacts
  <2> QED
    BY <2>1, <2>2, <2>3 DEF SheetsStay, Entering
<1>4. ReadsAreCurrent'
  BY DEF Created, Done, IInv, ReadsAreCurrent, seen, others
<1>5. WritesAreOwn'
  <2>1. chosen' = chosen
    BY DEF Created
  <2>2. NewDocument(r).kind = "set" /\ NewDocument(r).holder = NewDocument(r).of
    BY CreatedFacts DEF NewDocument
  <2>3. \A u \in Maybe(Accounts) : \A i \in DOMAIN writes'[u] :
           \/ i \in DOMAIN writes[u] /\ writes'[u][i] = writes[u][i]
           \/ writes'[u][i] = NewDocument(r)
    BY CreatedFacts
  <2> QED
    BY <2>1, <2>2, <2>3 DEF IInv, WritesAreOwn
<1>6. UploadsAreOwn'
  BY DEF Created, Done, IInv, UploadsAreOwn
<1>7. RegistrationsWrite'
  <2> SUFFICES ASSUME failures' = 0, deaths' = 0, NEW a \in registered'
               PROVE  \/ documents'[a].holder # None
                      \/ \E s \in requests' : s.kind = "created" /\ s.of = a
                      \/ \E i \in DOMAIN writes'[a] : IsHeardSet(writes'[a][i])
    BY DEF RegistrationsWrite
  <2>0. a \in Maybe(Accounts) /\ failures = 0 /\ deaths = 0 /\ a \in registered /\ documents' = documents
    BY DEF IInv, TypeOK, Created, Maybe, others
  <2>1. CASE a = account
    <3>1. IsHeardSet(NewDocument(r))
      BY DEF IsHeardSet, NewDocument
    <3> QED
      BY <2>1, <3>1, CreatedFacts
  <2>2. CASE a # account
    <3>1. \A s \in requests : s.kind = "created" /\ s.of = a => s \in requests'
      BY <2>2, CreatedFacts DEF Created, Done
    <3> QED
      BY <2>0, <3>1, CreatedFacts DEF IInv, RegistrationsWrite
  <2> QED
    BY <2>1, <2>2
<1>8. HudOnScreen' /\ TabsAreForUsers' /\ AdministratorsAre' /\ DocumentsAreOwn'
  BY DEF Created, seen, others, IInv, HudOnScreen, TabsAreForUsers, AdministratorsAre,
     DocumentsAreOwn
<1> QED
  BY <1>1, <1>2, <1>3, <1>4, <1>5, <1>6, <1>7, <1>8 DEF IInv

(* The profile asks for the current user, and is covered.                      *)
LEMMA ProfileLoadsKeeps ==
    ASSUME IInv, ProfileLoads
    PROVE  IInv'
<1>1. TypeOK'
  <2>1. requests' \in SUBSET Requests
    BY RequestIsTyped DEF ProfileLoads, SetupData, IInv, TypeOK, Maybe, others
  <2>2. hud' \in [shared : Maybe(Views), lost : SUBSET Views]
    BY HudFacts DEF ProfileLoads, SetupData, IInv, TypeOK, Views, others
  <2> QED
    BY <2>1, <2>2 DEF ProfileLoads, IInv, TypeOK, asked, seen, others, Unloaded, Maybe
<1>2. OneAtATime'
  BY DEF ProfileLoads, SetupData, Request, IInv, OneAtATime, asked, Entering
<1>3. SheetsStay'
  BY DEF ProfileLoads, SetupData, Request, IInv, SheetsStay, asked
<1>4. HudOnScreen'
  <2>1. hud.shared \notin {"profile", "register"}
    BY DEF ProfileLoads, IInv, TypeOK, HudOnScreen, Views, Maybe, others
  <2>2. "profile" \in Views /\ TypeOK
    BY DEF Views, IInv
  <2> QED
    BY <2>1, <2>2, HudFacts DEF ProfileLoads, SetupData, IInv, HudOnScreen, others
<1>5. ReadsAreCurrent'
  BY DEF ProfileLoads, SetupData, ShowLoading, Request, IInv, HudOnScreen, ReadsAreCurrent, others
<1>6. AdministratorsAre'
  BY DEF ProfileLoads, Unloaded, IInv, AdministratorsAre, asked, others
<1>7. UploadsAreOwn'
  BY DEF ProfileLoads, SetupData, Request, IInv, UploadsAreOwn, asked
<1>8. RegistrationsWrite'
  BY DEF ProfileLoads, SetupData, IInv, RegistrationsWrite, asked, others
<1>9. TabsAreForUsers' /\ WritesAreOwn' /\ DocumentsAreOwn'
  BY DEF ProfileLoads, asked, IInv, TabsAreForUsers, WritesAreOwn, DocumentsAreOwn
<1> QED
  BY <1>1, <1>2, <1>3, <1>4, <1>5, <1>6, <1>7, <1>8, <1>9 DEF IInv

(* The document read is the current user's.                                    *)
LEMMA ReadAnsweredKeeps ==
    ASSUME IInv, NEW r \in requests, ReadAnswered(r)
    PROVE  IInv'
<1>1. TypeOK'
  <2>1. r.of \in Accounts
    BY DEF IInv, TypeOK, Requests
  <2>2. requests' \in SUBSET Requests
    BY <2>1, RequestIsTyped DEF ReadAnswered, IInv, TypeOK, Done
  <2>3. hud' \in [shared : Maybe(Views), lost : SUBSET Views]
    BY HudFacts DEF ReadAnswered, IInv, TypeOK, Views, others
  <2>4. Local(r.of) \in Documents
    BY <2>1, LocalFacts
  <2>5. profile' \in [loaded : BOOLEAN, shown : Maybe(Accounts), isAdmin : BOOLEAN]
    BY <2>4 DEF ReadAnswered, IInv, TypeOK, Documents, Maybe
  <2> QED
    BY <2>1, <2>2, <2>3, <2>4, <2>5 DEF ReadAnswered, IInv, TypeOK, asked, others
<1>2. OneAtATime'
  BY DEF ReadAnswered, Done, Request, IInv, OneAtATime, asked, Entering
<1>3. SheetsStay'
  BY DEF ReadAnswered, Done, Request, IInv, SheetsStay, asked
<1>4. HudOnScreen'
  <2>1. hud' \in {hud, HideLoading} /\ screen' = screen /\ linked' = linked /\ crossed' = crossed
    BY DEF ReadAnswered, others
  <2>2. profile'.loaded = profile.loaded
    BY DEF ReadAnswered, IInv, TypeOK, others
  <2>3. "profile" \in Views /\ TypeOK
    BY DEF Views, IInv
  <2> QED
    BY <2>1, <2>2, <2>3, HudFacts DEF IInv, HudOnScreen
<1>5. ReadsAreCurrent'
  <2> DEFINE Alone ==
        /\ \A q, s \in requests' :
              q.kind \in {"read", "image"} /\ s.kind \in {"read", "image"} => q = s
        /\ \A s \in requests' :
              s.kind \in {"read", "image"} => account = s.of /\ hud'.shared = "profile"
        /\ \A s \in requests' : s.kind = "image" => profile'.shown = s.of
  <2>1. ASSUME ~crossed
        PROVE  Alone
    <3>1. account = r.of /\ r.of \in Accounts /\ hud.shared = "profile"
      BY <2>1 DEF ReadAnswered, IInv, TypeOK, Requests, ReadsAreCurrent
    <3>2. \A s \in requests \ {r} : s.kind \notin {"read", "image"}
      BY <2>1 DEF ReadAnswered, IInv, ReadsAreCurrent
    <3>3. CASE requests' = Done(r)
      BY <3>2, <3>3 DEF Done
    <3>4. CASE /\ requests' = Done(r) \cup {Request("image", r.of)} /\ hud' = hud
               /\ profile'.shown = Local(r.of).holder /\ Local(r.of).holder # None
      <4>1. profile'.shown = account
        BY <3>1, <3>4, LocalFacts
      <4>2. \A s \in requests' : s.kind \in {"read", "image"} => s = Request("image", account)
        BY <3>1, <3>2, <3>4 DEF Done
      <4> QED
        BY <3>1, <3>4, <4>1, <4>2 DEF Request
    <3>5. profile' = [profile EXCEPT !.shown = Local(r.of).holder,
                          !.isAdmin = IF Local(r.of).isAdmin = None THEN @ ELSE Local(r.of).isAdmin]
            => profile'.shown = Local(r.of).holder
      BY DEF IInv, TypeOK
    <3> QED
      BY <3>3, <3>4, <3>5 DEF ReadAnswered
  <2>2. \A s \in requests' : s.kind = "read" => s \in requests
    BY DEF ReadAnswered, Done, Request
  <2>3. /\ account' = account /\ screen' = screen /\ crossed' = crossed /\ outlived' = outlived
    BY DEF ReadAnswered, others
  <2> HIDE DEF Alone
  <2>4. ~crossed' => Alone
    BY <2>1, <2>3
  <2> QED
    BY <2>2, <2>3, <2>4 DEF Alone, IInv, ReadsAreCurrent
<1>6. AdministratorsAre'
  <2>1. r.of \in Accounts
    BY DEF IInv, TypeOK, Requests
  <2>2. Local(r.of) \in Documents /\ (Local(r.of).isAdmin = TRUE => r.of \in Administrators)
    BY <2>1, LocalFacts
  <2>3. profile'.isAdmin \in {profile.isAdmin, Local(r.of).isAdmin}
    BY DEF ReadAnswered, IInv, TypeOK
  <2>4. profile'.isAdmin => profile'.isAdmin = TRUE
    BY <2>2, <2>3 DEF IInv, TypeOK, Documents
  <2>5. ~outlived => account = r.of /\ screen = "tabs"
    BY DEF ReadAnswered, IInv, ReadsAreCurrent
  <2>6. /\ account' = account /\ screen' = screen /\ documents' = documents
        /\ outlived' = outlived
    BY DEF ReadAnswered, asked, others
  <2>7. profile.isAdmin /\ ~outlived => screen = "tabs" /\ account \in Administrators
    BY DEF IInv, AdministratorsAre
  <2>8. profile'.isAdmin /\ ~outlived' => screen' = "tabs" /\ account' \in Administrators
    BY <2>2, <2>3, <2>4, <2>5, <2>6, <2>7
  <2> QED
    BY <2>6, <2>8 DEF IInv, AdministratorsAre
<1>7. UploadsAreOwn'
  BY DEF ReadAnswered, Done, Request, IInv, UploadsAreOwn, asked
<1>8. RegistrationsWrite'
  <2> SUFFICES ASSUME failures' = 0, deaths' = 0, NEW a \in registered'
               PROVE  \/ documents'[a].holder # None
                      \/ \E s \in requests' : s.kind = "created" /\ s.of = a
                      \/ \E i \in DOMAIN writes'[a] : IsHeardSet(writes'[a][i])
    BY DEF RegistrationsWrite
  <2>1. \A s \in requests : s.kind = "created" => s \in requests'
    BY DEF Done, ReadAnswered
  <2> QED
    BY <2>1 DEF ReadAnswered, asked, others, IInv, RegistrationsWrite
<1>9. TabsAreForUsers' /\ WritesAreOwn' /\ DocumentsAreOwn'
  BY DEF ReadAnswered, asked, IInv, TabsAreForUsers, WritesAreOwn, DocumentsAreOwn
<1> QED
  BY <1>1, <1>2, <1>3, <1>4, <1>5, <1>6, <1>7, <1>8, <1>9 DEF IInv

(* The profile is uncovered as it was.                                         *)
LEMMA ReadFailsKeeps ==
    ASSUME IInv, NEW r \in requests, ReadFails(r)
    PROVE  IInv'
<1>1. TypeOK'
  <2>1. requests' \in SUBSET Requests
    BY DEF ReadFails, IInv, TypeOK, Done, elsewhere
  <2>2. failures' \in 0..MaxFailures
    BY DEF ReadFails, IInv, TypeOK, elsewhere
  <2> QED
    BY <2>1, <2>2 DEF ReadFails, IInv, TypeOK, asked, seen, elsewhere
<1>2. OneAtATime'
  BY DEF ReadFails, Done, IInv, OneAtATime, asked
<1>3. SheetsStay'
  BY DEF ReadFails, Done, IInv, SheetsStay, asked, seen
<1>4. ReadsAreCurrent'
  BY DEF ReadFails, Done, IInv, ReadsAreCurrent, seen, elsewhere
<1>5. UploadsAreOwn'
  BY DEF ReadFails, Done, IInv, UploadsAreOwn, asked
<1>6. RegistrationsWrite'
  BY DEF ReadFails, IInv, TypeOK, RegistrationsWrite, elsewhere
<1>7. HudOnScreen' /\ TabsAreForUsers' /\ AdministratorsAre' /\ WritesAreOwn' /\ DocumentsAreOwn'
  BY DEF ReadFails, asked, seen, IInv, HudOnScreen, TabsAreForUsers, AdministratorsAre,
         WritesAreOwn, DocumentsAreOwn, elsewhere
<1> QED
  BY <1>1, <1>2, <1>3, <1>4, <1>5, <1>6, <1>7 DEF IInv

(* The avatar is there: the profile is uncovered.                              *)
LEMMA ImageLoadedKeeps ==
    ASSUME IInv, NEW r \in requests, ImageLoaded(r)
    PROVE  IInv'
<1>1. TypeOK'
  BY DEF ImageLoaded, Done, HideLoading, IInv, TypeOK, OneAtATime, SheetsStay, HudOnScreen,
         ReadsAreCurrent, TabsAreForUsers, AdministratorsAre, WritesAreOwn, UploadsAreOwn,
         DocumentsAreOwn, RegistrationsWrite, asked, seen, others, IsHeardSet, Entering,
         Maybe, Requests, Documents, Writes, Views, Screens
<1>2. OneAtATime'
  BY DEF ImageLoaded, Done, IInv, OneAtATime, asked
<1>3. SheetsStay'
  BY DEF ImageLoaded, Done, IInv, SheetsStay, asked
<1>4. HudOnScreen'
  BY DEF ImageLoaded, HideLoading, IInv, HudOnScreen, others
<1>5. ReadsAreCurrent'
  BY DEF ImageLoaded, Done, IInv, ReadsAreCurrent, others
<1>6. UploadsAreOwn'
  BY DEF ImageLoaded, Done, IInv, UploadsAreOwn, asked
<1>7. RegistrationsWrite'
  <2> SUFFICES ASSUME failures' = 0, deaths' = 0, NEW a \in registered'
               PROVE  \/ documents'[a].holder # None
                      \/ \E s \in requests' : s.kind = "created" /\ s.of = a
                      \/ \E i \in DOMAIN writes'[a] : IsHeardSet(writes'[a][i])
    BY DEF RegistrationsWrite
  <2>1. \A s \in requests : s.kind = "created" => s \in requests'
    BY DEF Done, ImageLoaded
  <2> QED
    BY <2>1 DEF ImageLoaded, asked, others, IInv, RegistrationsWrite
<1>8. TabsAreForUsers' /\ AdministratorsAre' /\ WritesAreOwn' /\ DocumentsAreOwn'
  BY DEF ImageLoaded, asked, IInv, TabsAreForUsers, AdministratorsAre, WritesAreOwn,
         DocumentsAreOwn, others
<1> QED
  BY <1>1, <1>2, <1>3, <1>4, <1>5, <1>6, <1>7, <1>8 DEF IInv

(* Nobody is signed in; what the profile knew is forgotten.                    *)
LEMMA SignOutKeeps ==
    ASSUME IInv, SignOut
    PROVE  IInv'
<1>1. TypeOK'
  BY DEF SignOut, OnProfile, Outlives, IInv, TypeOK, asked, Maybe, Screens
<1>2. SheetsStay'
  BY DEF SignOut, OnProfile, IInv, SheetsStay, asked
<1>3. HudOnScreen'
  BY DEF SignOut, OnProfile, Covered, IInv, HudOnScreen
<1>4. ReadsAreCurrent'
  BY DEF SignOut, OnProfile, Covered, Outlives, IInv, ReadsAreCurrent
<1>5. TabsAreForUsers'
  BY DEF SignOut, TabsAreForUsers
<1>6. AdministratorsAre'
  BY DEF SignOut, IInv, AdministratorsAre, asked
<1>7. OneAtATime' /\ WritesAreOwn' /\ UploadsAreOwn' /\ DocumentsAreOwn' /\ RegistrationsWrite'
  BY DEF SignOut, asked, IInv, OneAtATime, WritesAreOwn, UploadsAreOwn,
         DocumentsAreOwn, RegistrationsWrite
<1> QED
  BY <1>1, <1>2, <1>3, <1>4, <1>5, <1>6, <1>7 DEF IInv

(* The upload of a picture is its account's.                                   *)
LEMMA AvatarPickedKeeps ==
    ASSUME IInv, NEW p \in Pictures, AvatarPicked(p)
    PROVE  IInv'
<1>1. TypeOK'
  <2>1. account \in Accounts
    BY DEF AvatarPicked, IInv, TypeOK, Maybe, others
  <2>2. requests' \in SUBSET Requests
    BY <2>1, UploadIsTyped DEF AvatarPicked, IInv, TypeOK
  <2>3. chosen' \in [Pictures -> Maybe(Accounts)]
    BY DEF AvatarPicked, IInv, TypeOK, others
  <2> QED
    BY <2>1, <2>2, <2>3 DEF AvatarPicked, IInv, TypeOK, asked, seen, others
<1>2. OneAtATime'
  BY DEF AvatarPicked, Request, IInv, OneAtATime, asked, Entering
<1>3. SheetsStay'
  BY DEF AvatarPicked, Request, OnProfile, IInv, SheetsStay, asked
<1>4. ReadsAreCurrent'
  <2>1. \A s \in requests' : s \in requests \/ s.kind = "put"
    BY DEF AvatarPicked, Request
  <2> QED
    BY <2>1 DEF AvatarPicked, seen, others, IInv, ReadsAreCurrent
<1>5. WritesAreOwn'
  <2>1. \A q \in Pictures : chosen[q] # None => chosen'[q] = chosen[q]
    BY DEF AvatarPicked, IInv, TypeOK, others
  <2>2. \A u \in Maybe(Accounts) : \A i \in DOMAIN writes[u] :
           writes[u][i] \in Writes /\ writes'[u] = writes[u]
    BY DEF AvatarPicked, asked, IInv, TypeOK, others
  <2>3. \A w \in Writes : chosen[w.avatar] = w.of /\ w.avatar # None => chosen'[w.avatar] = w.of
    BY <2>1 DEF Writes, Maybe
  <2> SUFFICES ASSUME NEW u \in Maybe(Accounts), NEW i \in DOMAIN writes[u]
               PROVE  /\ writes[u][i].kind = "set" => writes[u][i].holder = writes[u][i].of
                      /\ writes[u][i].kind = "update" /\ writes[u][i].avatar # None
                            => chosen'[writes[u][i].avatar] = writes[u][i].of
    BY <2>2 DEF WritesAreOwn, AvatarPicked, asked
  <2> QED
    BY <2>2, <2>3 DEF IInv, WritesAreOwn
<1>6. UploadsAreOwn'
  BY DEF AvatarPicked, Request, IInv, TypeOK, UploadsAreOwn, asked, Requests, others
<1>7. DocumentsAreOwn'
  BY DEF AvatarPicked, IInv, DocumentsAreOwn, asked
<1>8. RegistrationsWrite'
  <2> SUFFICES ASSUME failures' = 0, deaths' = 0, NEW a \in registered'
               PROVE  \/ documents'[a].holder # None
                      \/ \E s \in requests' : s.kind = "created" /\ s.of = a
                      \/ \E i \in DOMAIN writes'[a] : IsHeardSet(writes'[a][i])
    BY DEF RegistrationsWrite
  <2>1. \A s \in requests : s.kind = "created" => s \in requests'
    BY DEF AvatarPicked
  <2> QED
    BY <2>1 DEF AvatarPicked, asked, others, IInv, RegistrationsWrite
<1>9. HudOnScreen' /\ TabsAreForUsers' /\ AdministratorsAre'
  BY DEF AvatarPicked, asked, seen, IInv, HudOnScreen, TabsAreForUsers, AdministratorsAre, others
<1> QED
  BY <1>1, <1>2, <1>3, <1>4, <1>5, <1>6, <1>7, <1>8, <1>9 DEF IInv

(* A picture is stored where its account's pictures are.                       *)
LEMMA PutAnsweredKeeps ==
    ASSUME IInv, NEW r \in requests, PutAnswered(r)
    PROVE  IInv'
<1>1. TypeOK'
  <2>1. r \in Requests /\ r.of \in Accounts /\ r.picture \in Maybe(Pictures)
    BY DEF IInv, TypeOK, Requests
  <2>2. [r EXCEPT !.kind = "url"] \in Requests
    BY <2>1 DEF Requests
  <2>3. requests' \in SUBSET Requests
    BY <2>2 DEF PutAnswered, IInv, TypeOK, Done
  <2>4. stored' \in [Accounts -> Maybe(Pictures)]
    BY <2>1 DEF PutAnswered, IInv, TypeOK
  <2> QED
    BY <2>1, <2>2, <2>3, <2>4 DEF PutAnswered, IInv, TypeOK, seen, others
<1>2. OneAtATime'
  BY DEF PutAnswered, Done, IInv, TypeOK, OneAtATime, Entering, Requests, others
<1>3. SheetsStay'
  BY DEF PutAnswered, Done, IInv, TypeOK, SheetsStay, seen, Requests, others
<1>4. ReadsAreCurrent'
  BY DEF PutAnswered, Done, IInv, TypeOK, ReadsAreCurrent, seen, Requests, others
<1>5. UploadsAreOwn'
  BY DEF PutAnswered, Done, IInv, TypeOK, UploadsAreOwn, Requests, others
<1>6. RegistrationsWrite'
  BY DEF PutAnswered, Done, IInv, RegistrationsWrite, others
<1>7. HudOnScreen' /\ TabsAreForUsers' /\ AdministratorsAre' /\ WritesAreOwn' /\ DocumentsAreOwn'
  BY DEF PutAnswered, seen, IInv, HudOnScreen, TabsAreForUsers, AdministratorsAre,
         WritesAreOwn, DocumentsAreOwn, others
<1> QED
  BY <1>1, <1>2, <1>3, <1>4, <1>5, <1>6, <1>7 DEF IInv

(* Its address goes into the document of that account.                         *)
LEMMA UrlAnsweredKeeps ==
    ASSUME IInv, NEW r \in requests, UrlAnswered(r)
    PROVE  IInv'
<1>1. TypeOK'
  <2>1. requests' \in SUBSET Requests
    BY DEF UrlAnswered, IInv, TypeOK, Done, others
  <2>2. writes' \in [Maybe(Accounts) -> Seq(Writes)]
    BY UrlEnqueues
  <2> QED
    BY <2>1, <2>2 DEF UrlAnswered, IInv, TypeOK, seen, others
<1>2. OneAtATime'
  BY DEF UrlAnswered, Done, Enqueue, IInv, OneAtATime, IsHeardSet
<1>3. SheetsStay'
  BY DEF UrlAnswered, Done, Enqueue, IInv, SheetsStay, seen, IsHeardSet
<1>4. ReadsAreCurrent'
  BY DEF UrlAnswered, Done, IInv, ReadsAreCurrent, seen, others
<1>5. WritesAreOwn'
  BY DEF UrlAnswered, Enqueue, IInv, TypeOK, WritesAreOwn, UploadsAreOwn, Requests, others
<1>6. UploadsAreOwn'
  BY DEF UrlAnswered, Done, IInv, UploadsAreOwn
<1>7. RegistrationsWrite'
  <2> SUFFICES ASSUME failures' = 0, deaths' = 0, NEW a \in registered'
               PROVE  \/ documents'[a].holder # None
                      \/ \E s \in requests' : s.kind = "created" /\ s.of = a
                      \/ \E i \in DOMAIN writes'[a] : IsHeardSet(writes'[a][i])
    BY DEF RegistrationsWrite
  <2>0. a \in Maybe(Accounts)
    BY DEF IInv, TypeOK, UrlAnswered, Maybe, others
  <2>1. \A s \in requests : s.kind = "created" => s \in requests'
    BY DEF UrlAnswered, Done
  <2>2. \A i \in DOMAIN writes[a] : i \in DOMAIN writes'[a] /\ writes'[a][i] = writes[a][i]
    BY <2>0, UrlEnqueues
  <2>3. failures = 0 /\ deaths = 0 /\ documents' = documents /\ registered' = registered
    BY DEF UrlAnswered, others
  <2> QED
    BY <2>1, <2>2, <2>3 DEF IInv, RegistrationsWrite
<1>8. HudOnScreen' /\ TabsAreForUsers' /\ AdministratorsAre' /\ DocumentsAreOwn'
  BY DEF UrlAnswered, seen, IInv, HudOnScreen, TabsAreForUsers, AdministratorsAre,
         DocumentsAreOwn, others
<1> QED
  BY <1>1, <1>2, <1>3, <1>4, <1>5, <1>6, <1>7, <1>8 DEF IInv

(* Nothing is written.                                                         *)
LEMMA UploadFailsKeeps ==
    ASSUME IInv, NEW r \in requests, UploadFails(r)
    PROVE  IInv'
<1>1. TypeOK'
  BY DEF UploadFails, Done, IInv, TypeOK, asked, seen, others
<1>2. OneAtATime'
  BY DEF UploadFails, Done, IInv, OneAtATime, asked
<1>3. SheetsStay'
  BY DEF UploadFails, Done, IInv, SheetsStay, asked, seen
<1>4. ReadsAreCurrent'
  BY DEF UploadFails, Done, IInv, ReadsAreCurrent, seen, others
<1>5. UploadsAreOwn'
  BY DEF UploadFails, Done, IInv, UploadsAreOwn, asked
<1>6. RegistrationsWrite'
  BY DEF UploadFails, Done, IInv, RegistrationsWrite, asked, others
<1>7. HudOnScreen' /\ TabsAreForUsers' /\ AdministratorsAre' /\ WritesAreOwn' /\ DocumentsAreOwn'
  BY DEF UploadFails, asked, seen, IInv, HudOnScreen, TabsAreForUsers, AdministratorsAre,
         WritesAreOwn, DocumentsAreOwn, others
<1> QED
  BY <1>1, <1>2, <1>3, <1>4, <1>5, <1>6, <1>7 DEF IInv

(* The server has taken the first write of the current user's queue.           *)
LEMMA WriteAnsweredKeeps ==
    ASSUME IInv, WriteAnswered
    PROVE  IInv'
<1>1. TypeOK'
  <2>1. writes' \in [Maybe(Accounts) -> Seq(Writes)] /\ Head(writes[account]) \in Writes
    BY DequeuedFacts DEF WriteAnswered, Dequeued, IInv
  <2>2. \A d \in Documents : Written(d, Head(writes[account])) \in Documents
    BY <2>1, WrittenFacts
  <2>3. documents' \in [Accounts -> Documents]
    BY <2>1, <2>2 DEF WriteAnswered, IInv, TypeOK, Writes
  <2>4. hud' \in [shared : Maybe(Views), lost : SUBSET Views] /\ screen' \in Screens
    BY HudFacts DEF WriteAnswered, SetAnswered, IInv, TypeOK, Views, Screens, others
  <2> QED
    BY <2>1, <2>2, <2>3, <2>4 DEF WriteAnswered, IInv, TypeOK, others
<1>2. OneAtATime'
  <2>1. Dequeued /\ requests' = requests
    BY DEF WriteAnswered, Dequeued
  <2> QED
    BY <2>1, AnsweredFacts DEF IInv, OneAtATime
<1>3. SheetsStay'
  BY DEF WriteAnswered, SetAnswered, others, IInv, TypeOK, OneAtATime, SheetsStay, IsHeardSet,
     Entering
<1>4. HudOnScreen'
  <2>1. /\ Dequeued /\ TypeOK /\ profile' = profile /\ linked' = linked
        /\ crossed' = crossed
    BY DEF WriteAnswered, Dequeued, IInv, others
  <2>2. CASE IsHeardSet(writes[account][1])
    <3>1. screen' = "tabs" /\ hud'.shared = None /\ hud'.lost = hud.lost
      BY <2>1, <2>2, DequeuedFacts
         DEF WriteAnswered, SetAnswered, IsHeardSet, HideLoading, TypeOK
    <3> QED
      BY <2>1, <3>1 DEF IInv, HudOnScreen
  <2>3. CASE ~IsHeardSet(writes[account][1])
    <3>1. screen' = screen /\ hud' = hud
      BY <2>1, <2>3, DequeuedFacts DEF WriteAnswered, SetAnswered, IsHeardSet
    <3> QED
      BY <2>1, <3>1 DEF IInv, HudOnScreen
  <2> QED
    BY <2>2, <2>3
<1>5. ReadsAreCurrent'
  BY DEF WriteAnswered, SetAnswered, IInv, TypeOK, SheetsStay, HudOnScreen, ReadsAreCurrent,
         IsHeardSet, others
<1>6. TabsAreForUsers'
  <2>1. Dequeued /\ TypeOK /\ account' = account /\ registered' = registered
    BY DEF WriteAnswered, Dequeued, IInv
  <2>2. CASE IsHeardSet(writes[account][1])
    <3>1. account # None
      BY <2>1, <2>2, AnsweredFacts
    <3> QED
      BY <2>1, <3>1 DEF IInv, TabsAreForUsers
  <2>3. CASE ~IsHeardSet(writes[account][1])
    <3>1. screen' = screen
      BY <2>1, <2>3, DequeuedFacts DEF WriteAnswered, SetAnswered, IsHeardSet
    <3> QED
      BY <2>1, <3>1 DEF IInv, TabsAreForUsers
  <2> QED
    BY <2>2, <2>3
<1>7. AdministratorsAre'
  <2> DEFINE w == Head(writes[account])
  <2>1. Dequeued /\ TypeOK
    BY DEF WriteAnswered, Dequeued, IInv
  <2>2. /\ w \in Writes /\ w.of \in Accounts
        /\ documents' = [documents EXCEPT ![w.of] = Written(documents[w.of], w)]
    BY <2>1, DequeuedFacts DEF WriteAnswered, Writes, TypeOK
  <2>3. Written(documents[w.of], w).isAdmin \in {documents[w.of].isAdmin, None}
    BY <2>1, <2>2, WrittenFacts DEF TypeOK
  <2>4. \A a \in Accounts : documents'[a].isAdmin = TRUE => a \in Administrators
    BY <2>1, <2>2, <2>3 DEF IInv, TypeOK, AdministratorsAre
  <2>5. screen = "tabs" => screen' = "tabs"
    BY DEF WriteAnswered, SetAnswered
  <2> QED
    BY <2>4, <2>5 DEF WriteAnswered, IInv, AdministratorsAre, others
<1>8. WritesAreOwn'
  BY DEF WriteAnswered, IInv, TypeOK, WritesAreOwn, others
<1>9. DocumentsAreOwn'
  BY DEF WriteAnswered, Written, NoDocument, IInv, TypeOK, WritesAreOwn, DocumentsAreOwn, others
<1>10. RegistrationsWrite'
  <2> SUFFICES ASSUME failures' = 0, deaths' = 0, NEW a \in registered'
               PROVE  \/ documents'[a].holder # None
                      \/ \E s \in requests' : s.kind = "created" /\ s.of = a
                      \/ \E i \in DOMAIN writes'[a] : IsHeardSet(writes'[a][i])
    BY DEF RegistrationsWrite
  <2>0. /\ Dequeued /\ TypeOK /\ account' = account /\ registered' = registered
        /\ requests' = requests /\ failures = 0 /\ deaths = 0 /\ a \in registered /\ a \in Accounts
    BY DEF WriteAnswered, Dequeued, IInv, TypeOK, others
  <2> DEFINE w == Head(writes[account])
  <2>1. /\ w \in Writes /\ w.of \in Accounts /\ w = writes[account][1]
        /\ documents' = [documents EXCEPT ![w.of] = Written(documents[w.of], w)]
        /\ w.kind = "set" => w.holder # None
    <3>1. w \in Writes /\ w = writes[account][1] /\ 1 \in DOMAIN writes[account]
      BY <2>0, DequeuedFacts
    <3>2. w.kind = "set" => w.holder = w.of
      BY <2>0, <3>1 DEF IInv, TypeOK, WritesAreOwn
    <3> QED
      BY <3>1, <3>2 DEF WriteAnswered, Writes
  <2>2. \A b \in Accounts : documents[b].holder # None => documents'[b].holder # None
    BY <2>0, <2>1, WrittenFacts DEF TypeOK, Writes
  <2>3. ASSUME NEW i \in DOMAIN writes[a], IsHeardSet(writes[a][i])
        PROVE  \/ documents'[a].holder # None
               \/ \E j \in DOMAIN writes'[a] : IsHeardSet(writes'[a][j])
    <3>1. CASE a = account /\ i = 1
      <4>1. w.of = a /\ w.kind = "set"
        BY <2>0, <2>1, <2>3, <3>1, AnsweredFacts DEF IsHeardSet
      <4>2. documents[a] \in Documents
        BY <2>0 DEF TypeOK
      <4>3. Written(documents[a], w).holder # None
        <5> HIDE DEF w
        <5> QED
          BY <2>1, <4>1, <4>2, WrittenFacts
      <4> QED
        BY <2>0, <2>1, <4>1, <4>3 DEF TypeOK
    <3>2. CASE ~(a = account /\ i = 1)
      BY <2>0, <2>3, <3>2, DequeuedFacts DEF Maybe
    <3> QED
      BY <3>1, <3>2
  <2> QED
    BY <2>0, <2>2, <2>3 DEF IInv, RegistrationsWrite
<1>11. UploadsAreOwn'
  BY DEF WriteAnswered, IInv, UploadsAreOwn
<1> QED
  BY <1>1, <1>2, <1>3, <1>4, <1>5, <1>6, <1>7, <1>8, <1>9, <1>10, <1>11 DEF IInv

(* The server has refused it.                                                  *)
LEMMA WriteRefusedKeeps ==
    ASSUME IInv, WriteRefused
    PROVE  IInv'
<1>1. TypeOK'
  <2>1. writes' \in [Maybe(Accounts) -> Seq(Writes)]
    BY DequeuedFacts DEF WriteRefused, Dequeued, IInv
  <2>2. hud' \in [shared : Maybe(Views), lost : SUBSET Views]
    BY HudFacts DEF WriteRefused, IInv, TypeOK, Views, elsewhere
  <2>3. failures' \in 0..MaxFailures
    BY DEF WriteRefused, IInv, TypeOK, elsewhere
  <2> QED
    BY <2>1, <2>2, <2>3 DEF WriteRefused, IInv, TypeOK, elsewhere
<1>2. OneAtATime'
  <2>1. Dequeued /\ requests' = requests
    BY DEF WriteRefused, Dequeued
  <2> QED
    BY <2>1, AnsweredFacts DEF IInv, OneAtATime
<1>3. SheetsStay'
  <2>1. Dequeued /\ requests' = requests /\ screen' = screen /\ account' = account
    BY DEF WriteRefused, Dequeued
  <2> QED
    BY <2>1, AnsweredFacts DEF IInv, SheetsStay
<1>4. HudOnScreen'
  BY DEF WriteRefused, HideLoading, IInv, TypeOK, SheetsStay, HudOnScreen, TabsAreForUsers,
         AdministratorsAre, WritesAreOwn, UploadsAreOwn, elsewhere
<1>5. ReadsAreCurrent'
  BY DEF WriteRefused, IInv, TypeOK, SheetsStay, HudOnScreen, ReadsAreCurrent, IsHeardSet, elsewhere
<1>6. WritesAreOwn'
  <2>1. Dequeued /\ chosen' = chosen
    BY DEF WriteRefused, Dequeued
  <2> QED
    BY <2>1, AnsweredFacts DEF IInv, WritesAreOwn
<1>7. RegistrationsWrite'
  <2> SUFFICES ASSUME failures' = 0, deaths' = 0, NEW a \in registered'
               PROVE  \/ documents'[a].holder # None
                      \/ \E s \in requests' : s.kind = "created" /\ s.of = a
                      \/ \E i \in DOMAIN writes'[a] : IsHeardSet(writes'[a][i])
    BY DEF RegistrationsWrite
  <2>0. /\ Dequeued /\ TypeOK /\ account' = account /\ registered' = registered
        /\ requests' = requests /\ failures = 0 /\ deaths = 0 /\ a \in registered /\ a \in Accounts
    BY DEF WriteRefused, Dequeued, IInv, TypeOK, elsewhere
  <2>1. documents' = documents /\ writes[account][1].kind # "set"
    BY <2>0, DequeuedFacts DEF WriteRefused, IInv, TypeOK
  <2>2. ASSUME NEW i \in DOMAIN writes[a], IsHeardSet(writes[a][i])
        PROVE  \E j \in DOMAIN writes'[a] : IsHeardSet(writes'[a][j])
    <3>1. ~(a = account /\ i = 1)
      BY <2>1, <2>2 DEF IsHeardSet
    <3> QED
      BY <2>0, <2>2, <3>1, DequeuedFacts DEF Maybe
  <2> QED
    BY <2>0, <2>1, <2>2 DEF IInv, RegistrationsWrite
<1>8. TabsAreForUsers' /\ AdministratorsAre' /\ UploadsAreOwn' /\ DocumentsAreOwn'
  BY DEF WriteRefused, elsewhere, IInv, TabsAreForUsers, AdministratorsAre, UploadsAreOwn,
     DocumentsAreOwn
<1> QED
  BY <1>1, <1>2, <1>3, <1>4, <1>5, <1>6, <1>7, <1>8 DEF IInv

(* A screen of spots begins to load: it may take over the profile's HUD.        *)
LEMMA SpotsOpenKeeps ==
    ASSUME IInv, SpotsOpen
    PROVE  IInv'
<1>1. TypeOK'
  <2>1. hud' \in [shared : Maybe(Views), lost : SUBSET Views]
    BY HudFacts DEF SpotsOpen, IInv, TypeOK, Views
  <2>2. loads' \in 0..MaxLoads /\ crossed' \in BOOLEAN
    BY DEF SpotsOpen, Crosses, IInv, TypeOK
  <2> QED
    BY <2>1, <2>2 DEF SpotsOpen, IInv, TypeOK, asked
<1>2. HudOnScreen'
  BY DEF SpotsOpen, Crosses, ShowLoading, IInv, HudOnScreen
<1>3. ReadsAreCurrent'
  BY DEF SpotsOpen, Crosses, IInv, ReadsAreCurrent
<1>4. SheetsStay' /\ TabsAreForUsers' /\ AdministratorsAre'
  BY DEF SpotsOpen, asked, IInv, SheetsStay, TabsAreForUsers, AdministratorsAre
<1>5. OneAtATime' /\ WritesAreOwn' /\ UploadsAreOwn' /\ DocumentsAreOwn' /\ RegistrationsWrite'
  BY DEF SpotsOpen, asked, IInv, OneAtATime, WritesAreOwn, UploadsAreOwn, DocumentsAreOwn,
         RegistrationsWrite
<1> QED
  BY <1>1, <1>2, <1>3, <1>4, <1>5 DEF IInv

(* And hides whatever HUD is newest.                                           *)
LEMMA SpotsAnsweredKeeps ==
    ASSUME IInv, SpotsAnswered
    PROVE  IInv'
<1>1. TypeOK'
  <2>1. hud' \in [shared : Maybe(Views), lost : SUBSET Views]
    BY HudFacts DEF SpotsAnswered, IInv, Views
  <2>2. loads' \in 0..MaxLoads /\ crossed' \in BOOLEAN
    BY DEF SpotsAnswered, Crosses, IInv, TypeOK
  <2> QED
    BY <2>1, <2>2 DEF SpotsAnswered, IInv, TypeOK, asked
<1>2. HudOnScreen'
  BY DEF SpotsAnswered, Crosses, HideLoading, IInv, TypeOK, HudOnScreen
<1>3. ReadsAreCurrent'
  BY DEF SpotsAnswered, Crosses, IInv, ReadsAreCurrent
<1>4. SheetsStay' /\ TabsAreForUsers' /\ AdministratorsAre'
  BY DEF SpotsAnswered, asked, IInv, SheetsStay, TabsAreForUsers, AdministratorsAre
<1>5. OneAtATime' /\ WritesAreOwn' /\ UploadsAreOwn' /\ DocumentsAreOwn' /\ RegistrationsWrite'
  BY DEF SpotsAnswered, asked, IInv, OneAtATime, WritesAreOwn, UploadsAreOwn, DocumentsAreOwn,
         RegistrationsWrite
<1> QED
  BY <1>1, <1>2, <1>3, <1>4, <1>5 DEF IInv

(* Or nothing at all.                                                          *)
LEMMA SpotsFailKeeps ==
    ASSUME IInv, SpotsFail
    PROVE  IInv'
<1>1. TypeOK'
  <2>1. loads' \in 0..MaxLoads
    BY DEF SpotsFail, IInv, TypeOK
  <2> QED
    BY <2>1 DEF SpotsFail, IInv, TypeOK, asked, seen
<1>2. HudOnScreen' /\ ReadsAreCurrent' /\ SheetsStay' /\ TabsAreForUsers' /\ AdministratorsAre'
  BY DEF SpotsFail, asked, seen, IInv, HudOnScreen, ReadsAreCurrent,
         SheetsStay, TabsAreForUsers, AdministratorsAre
<1>3. OneAtATime' /\ WritesAreOwn' /\ UploadsAreOwn' /\ DocumentsAreOwn' /\ RegistrationsWrite'
  BY DEF SpotsFail, asked, IInv, OneAtATime, WritesAreOwn, UploadsAreOwn, DocumentsAreOwn,
         RegistrationsWrite
<1> QED
  BY <1>1, <1>2, <1>3 DEF IInv

(* The process dies; queues survive, callbacks do not.                         *)
LEMMA ProcessDiesKeeps ==
    ASSUME IInv, ProcessDies
    PROVE  IInv'
<1>1. TypeOK'
  <2>1. registered' \in SUBSET Accounts
    BY DEF ProcessDies, IInv, TypeOK, Requests
  <2>2. \A w \in Writes : [w EXCEPT !.heard = FALSE] \in Writes
    BY DEF Writes
  <2>3. \A u \in Maybe(Accounts) : [i \in DOMAIN writes[u] |-> [writes[u][i] EXCEPT !.heard = FALSE]] \in Seq(Writes)
    BY <2>2, QuietIsTyped DEF IInv, TypeOK
  <2>4. writes' \in [Maybe(Accounts) -> Seq(Writes)]
    BY <2>3 DEF ProcessDies
  <2>5. deaths' \in 0..MaxDeaths
    BY DEF ProcessDies, IInv, TypeOK
  <2>6. loads' \in 0..MaxLoads /\ crossed' \in BOOLEAN /\ outlived' \in BOOLEAN
    <3>1. loads' = 0
      BY DEF ProcessDies
    <3>2. crossed' = FALSE /\ outlived' = FALSE
      BY DEF ProcessDies
    <3>3. loads' \in 0..MaxLoads
      BY <3>1
    <3> QED
      BY <3>2, <3>3
  <2> QED
    BY <2>1, <2>2, <2>3, <2>4, <2>5, <2>6
       DEF ProcessDies, IInv, TypeOK, Unloaded, NoHud, FirstScreen, Screens, Maybe
<1>2. OneAtATime'
  BY DEF ProcessDies, OneAtATime, IsHeardSet
<1>3. SheetsStay'
  BY DEF ProcessDies, SheetsStay, IsHeardSet
<1>4. HudOnScreen'
  BY DEF ProcessDies, NoHud, HudOnScreen
<1>5. ReadsAreCurrent'
  BY DEF ProcessDies, ReadsAreCurrent
<1>6. TabsAreForUsers'
  BY DEF ProcessDies, FirstScreen, IInv, TabsAreForUsers
<1>7. AdministratorsAre'
  BY DEF ProcessDies, Unloaded, IInv, AdministratorsAre
<1>8. WritesAreOwn'
  BY DEF ProcessDies, IInv, WritesAreOwn
<1>9. UploadsAreOwn'
  BY DEF ProcessDies, IInv, UploadsAreOwn
<1>10. RegistrationsWrite'
  BY DEF ProcessDies, IInv, TypeOK, RegistrationsWrite
<1>11. DocumentsAreOwn'
  BY DEF ProcessDies, IInv, DocumentsAreOwn
<1> QED
  BY <1>1, <1>2, <1>3, <1>4, <1>5, <1>6, <1>7, <1>8, <1>9, <1>10, <1>11 DEF IInv

-----------------------------------------------------------------------------
(* The app at its first start.                                                 *)
LEMMA InitIInv == Init => IInv
<1> SUFFICES ASSUME Init PROVE IInv
  OBVIOUS
<1>1. TypeOK
  <2>1. documents \in [Accounts -> Documents]
    BY DEF Init, Documents, NoDocument, Maybe
  <2>2. writes \in [Maybe(Accounts) -> Seq(Writes)]
    BY DEF Init
  <2>3. /\ stored \in [Accounts -> Maybe(Pictures)] /\ chosen \in [Pictures -> Maybe(Accounts)]
        /\ account \in Maybe(Accounts) /\ registered \in SUBSET Accounts
    BY DEF Init, Maybe
  <2>4. /\ profile \in [loaded : BOOLEAN, shown : Maybe(Accounts), isAdmin : BOOLEAN]
        /\ hud \in [shared : Maybe(Views), lost : SUBSET Views]
    BY DEF Init, Unloaded, NoHud, Maybe
  <2>5. requests \in SUBSET Requests /\ screen \in Screens /\ linked \in BOOLEAN
    BY DEF Init, FirstScreen, Screens
  <2>6. failures \in 0..MaxFailures /\ deaths \in 0..MaxDeaths /\ loads \in 0..MaxLoads
    <3>1. failures = 0 /\ deaths = 0 /\ loads = 0
      BY DEF Init
    <3> QED
      BY <3>1
  <2>7. crossed \in BOOLEAN /\ outlived \in BOOLEAN
    BY DEF Init
  <2> QED
    BY <2>1, <2>2, <2>3, <2>4, <2>5, <2>6, <2>7 DEF TypeOK
<1>2. \A u \in Maybe(Accounts) : DOMAIN writes[u] = {}
  BY DEF Init
<1>3. OneAtATime /\ SheetsStay /\ ReadsAreCurrent /\ WritesAreOwn /\ UploadsAreOwn
  BY <1>2 DEF Init, OneAtATime, SheetsStay, ReadsAreCurrent, WritesAreOwn, UploadsAreOwn
<1>4. HudOnScreen /\ TabsAreForUsers
  BY DEF Init, HudOnScreen, TabsAreForUsers, NoHud, FirstScreen, Maybe
<1>5. AdministratorsAre
  <2>1. profile.isAdmin = FALSE
    BY DEF Init, Unloaded
  <2>2. \A a \in Accounts : documents[a].isAdmin = TRUE => a \in Administrators
    BY DEF Init, NoDocument
  <2> QED
    BY <2>1, <2>2 DEF AdministratorsAre
<1>6. DocumentsAreOwn /\ RegistrationsWrite
  <2>1. ASSUME NEW a \in Accounts
        PROVE  /\ documents[a].avatar = None
               /\ documents[a].holder = IF a \in Registered THEN a ELSE None
    <3>1. CASE a \in Registered
      BY <3>1 DEF Init
    <3>2. CASE a \notin Registered
      BY <3>2 DEF Init, NoDocument
    <3> QED
      BY <3>1, <3>2
  <2>2. registered = Registered
    BY DEF Init
  <2> QED
    BY <2>1, <2>2 DEF DocumentsAreOwn, RegistrationsWrite
<1> QED
  BY <1>1, <1>3, <1>4, <1>5, <1>6 DEF IInv

(* Every step keeps the invariant.                                             *)
LEMMA NextIInv == IInv /\ [Next]_vars => IInv'
<1> SUFFICES ASSUME IInv, [Next]_vars PROVE IInv'
  OBVIOUS
<1>1. CASE UNCHANGED vars
  BY <1>1 DEF vars, IInv, TypeOK, OneAtATime, SheetsStay, HudOnScreen, ReadsAreCurrent,
     TabsAreForUsers, AdministratorsAre, WritesAreOwn, UploadsAreOwn, DocumentsAreOwn,
     RegistrationsWrite
<1>2. ASSUME NEW a \in Accounts, LoginButtonDidTap(a) \/ FinishButtonDidTap(a) PROVE IInv'
  BY <1>2, LoginButtonDidTapKeeps, FinishButtonDidTapKeeps
<1>3. ASSUME NEW r \in requests, Answer(r) PROVE IInv'
  BY <1>3, SignInAnsweredKeeps, SignInFailsKeeps, SignedInKeeps, CreateAnsweredKeeps,
     CreateFailsKeeps, CreatedKeeps, ReadAnsweredKeeps, ReadFailsKeeps, ImageLoadedKeeps,
     PutAnsweredKeeps, UrlAnsweredKeeps, UploadFailsKeeps DEF Answer
<1>4. ASSUME NEW p \in Pictures, AvatarPicked(p) PROVE IInv'
  BY <1>4, AvatarPickedKeeps
<1>5. CASE RegisterButtonDidTap \/ BackButtonDidTap \/ ProfileLoads \/ SignOut
  BY <1>5, RegisterButtonDidTapKeeps, BackButtonDidTapKeeps, ProfileLoadsKeeps, SignOutKeeps
<1>6. CASE WriteAnswered \/ WriteRefused \/ ProcessDies
  BY <1>6, WriteAnsweredKeeps, WriteRefusedKeeps, ProcessDiesKeeps
<1>7. CASE SpotsOpen \/ SpotsAnswered \/ SpotsFail
  BY <1>7, SpotsOpenKeeps, SpotsAnsweredKeeps, SpotsFailKeeps
<1> QED
  BY <1>1, <1>2, <1>3, <1>4, <1>5, <1>6, <1>7 DEF Next

(* The invariant holds in every behaviour.                                     *)
LEMMA AlwaysIInv == Spec => []IInv
  BY InitIInv, NextIInv, PTL DEF Spec

-----------------------------------------------------------------------------
(* The variables of the session stay within their types.                       *)
THEOREM SessionTypes == Spec => []TypeOK
<1>1. IInv => TypeOK
  BY DEF IInv
<1> QED
  BY <1>1, AlwaysIInv, PTL

(* Whoever is offered a rebuild by the profile screen is an administrator,      *)
(* unless somebody signed out before the profile's read was answered.          *)
THEOREM RebuildsAreForAdministrators == Spec => []RebuildIsForAdministrators
<1>1. IInv => RebuildIsForAdministrators
  BY DEF IInv, AdministratorsAre, RebuildIsForAdministrators
<1> QED
  BY <1>1, AlwaysIInv, PTL

(* And nobody does, unless a screen of spots has met the profile's HUD.         *)
THEOREM ReadsEndBeforeSignOut == Spec => []HudKeepsSignOutFromReads
<1>1. IInv => HudKeepsSignOutFromReads
  BY DEF IInv, ReadsAreCurrent, HudKeepsSignOutFromReads
<1> QED
  BY <1>1, AlwaysIInv, PTL

(* No user document ever holds the data or the avatar of another account.       *)
THEOREM DocumentsStayOwn == Spec => []DocumentsAreOwn
<1>1. IInv => DocumentsAreOwn
  BY DEF IInv
<1> QED
  BY <1>1, AlwaysIInv, PTL

(* Without a failure or a death, who is past the sheets has a user document.     *)
THEOREM RegisteredDocuments == Spec => []RegisteredHaveDocuments
<1>1. IInv => RegisteredHaveDocuments
  <2> SUFFICES ASSUME IInv, screen = "tabs", failures = 0, deaths = 0
               PROVE  documents[account].holder # None
    BY DEF RegisteredHaveDocuments
  <2>1. account \in registered /\ account \in Maybe(Accounts)
    BY DEF IInv, TabsAreForUsers, TypeOK
  <2>2. ~ \E r \in requests : r.kind = "created" /\ r.of = account
    BY DEF IInv, SheetsStay
  <2>3. ~ \E i \in DOMAIN writes[account] : IsHeardSet(writes[account][i])
    BY <2>1 DEF IInv, SheetsStay
  <2> QED
    BY <2>1, <2>2, <2>3 DEF IInv, RegistrationsWrite
<1> QED
  BY <1>1, AlwaysIInv, PTL

(* Only the death of the process forgets that a screen of spots has met the HUD. *)
LEMMA CrossedStays ==
    ASSUME [Next]_vars, crossed, ~ProcessDies
    PROVE  crossed'
<1>1. CASE UNCHANGED vars
  BY <1>1 DEF vars
<1>2. ASSUME NEW r \in requests, Answer(r) PROVE crossed'
  BY <1>2 DEF Answer, SignInAnswered, SignInFails, SignedIn, CreateAnswered, CreateFails, Created,
     ReadAnswered, ReadFails, ImageLoaded, PutAnswered, UrlAnswered, UploadFails, others, elsewhere
<1>3. ASSUME NEW a \in Accounts, LoginButtonDidTap(a) \/ FinishButtonDidTap(a) PROVE crossed'
  BY <1>3 DEF LoginButtonDidTap, FinishButtonDidTap, others
<1>4. ASSUME NEW p \in Pictures, AvatarPicked(p) PROVE crossed'
  BY <1>4 DEF AvatarPicked, others
<1>5. CASE RegisterButtonDidTap \/ BackButtonDidTap \/ ProfileLoads \/ SignOut
  BY <1>5 DEF RegisterButtonDidTap, BackButtonDidTap, ProfileLoads, SignOut, others
<1>6. CASE SpotsOpen \/ SpotsAnswered \/ SpotsFail
  BY <1>6 DEF SpotsOpen, SpotsAnswered, SpotsFail, Crosses
<1>7. CASE WriteAnswered \/ WriteRefused
  BY <1>7 DEF WriteAnswered, WriteRefused, others, elsewhere
<1> QED
  BY <1>1, <1>2, <1>3, <1>4, <1>5, <1>6, <1>7 DEF Next

(* Whenever the HUD leaves the profile, the profile shows the current user,      *)
(* unless a screen of spots has met that HUD.                                  *)
THEOREM UncoveredProfiles == Spec => UncoveredProfileIsCurrent
<1> DEFINE Shows == Covered("profile") /\ ~Covered("profile")' /\ profile'.loaded
                      /\ ~crossed' => profile'.shown = account'
<1>1. ASSUME IInv, [Next]_vars PROVE Shows
  <2> SUFFICES ASSUME Covered("profile"), ~Covered("profile")', profile'.loaded, ~crossed'
               PROVE  profile'.shown = account'
    OBVIOUS
  <2>0. ~crossed
    <3>1. ~ProcessDies
      BY DEF ProcessDies, Unloaded
    <3> QED
      BY <1>1, <3>1, CrossedStays
  <2>1. hud.shared = "profile" /\ hud' # hud /\ screen = "tabs"
    BY <1>1, <2>0 DEF Covered, IInv, HudOnScreen
  <2>2. ASSUME NEW a \in Accounts, LoginButtonDidTap(a) \/ FinishButtonDidTap(a) PROVE FALSE
    BY <2>1, <2>2 DEF LoginButtonDidTap, FinishButtonDidTap
  <2>3. ASSUME NEW r \in requests, Answer(r) PROVE profile'.shown = account'
    <3>1. r.kind \notin {"signIn", "signedIn", "create", "created"}
      BY <1>1, <2>1 DEF IInv, SheetsStay
    <3>2. CASE ReadAnswered(r)
      <4>1. account = r.of /\ r.of \in Accounts
        BY <1>1, <2>0, <3>2 DEF ReadAnswered, IInv, TypeOK, Requests, ReadsAreCurrent
      <4>2. /\ Local(r.of).holder # None
            /\ profile' = [profile EXCEPT !.shown = Local(r.of).holder,
                  !.isAdmin = IF Local(r.of).isAdmin = None THEN @ ELSE Local(r.of).isAdmin]
        BY <2>1, <3>2 DEF ReadAnswered
      <4>3. profile'.shown = Local(r.of).holder
        BY <1>1, <4>2 DEF IInv, TypeOK
      <4> QED
        BY <1>1, <3>2, <4>1, <4>2, <4>3, LocalFacts DEF ReadAnswered
    <3>3. CASE ImageLoaded(r)
      BY <1>1, <2>0, <3>3 DEF ImageLoaded, IInv, ReadsAreCurrent
    <3> QED
      BY <2>1, <2>3, <3>1, <3>2, <3>3 DEF Answer, SignInAnswered, SignInFails, SignedIn,
         CreateAnswered, CreateFails, Created, ReadFails, PutAnswered, UrlAnswered, UploadFails, seen
  <2>4. ASSUME NEW p \in Pictures, AvatarPicked(p) PROVE FALSE
    BY <2>1, <2>4 DEF AvatarPicked, seen
  <2>5. CASE RegisterButtonDidTap \/ BackButtonDidTap \/ SignOut
    BY <2>1, <2>5 DEF RegisterButtonDidTap, BackButtonDidTap, SignOut
  <2>6. CASE ProfileLoads
    BY <2>6, <1>1, <2>1 DEF ProfileLoads, IInv, HudOnScreen
  <2>7. CASE WriteAnswered
    <3>1. Dequeued /\ TypeOK
      BY <1>1, <2>7 DEF WriteAnswered, Dequeued, IInv
    <3>2. ~IsHeardSet(Head(writes[account]))
      BY <1>1, <2>1, <3>1, DequeuedFacts, AnsweredFacts
    <3> QED
      BY <2>1, <2>7, <3>2 DEF WriteAnswered, SetAnswered, IsHeardSet
  <2>8. CASE WriteRefused
    <3>1. Dequeued /\ TypeOK
      BY <1>1, <2>8 DEF WriteRefused, Dequeued, IInv
    <3>2. ~IsHeardSet(Head(writes[account]))
      BY <1>1, <2>1, <3>1, DequeuedFacts, AnsweredFacts
    <3> QED
      BY <2>1, <2>8, <3>2 DEF WriteRefused, IsHeardSet
  <2>9. CASE ProcessDies
    BY <2>9 DEF ProcessDies, Unloaded
  <2>10. CASE SpotsOpen \/ SpotsAnswered \/ SpotsFail
    BY <2>10, <2>1 DEF SpotsOpen, SpotsAnswered, SpotsFail, Crosses, seen
  <2> QED
    BY <1>1, <2>1, <2>2, <2>3, <2>4, <2>5, <2>6, <2>7, <2>8, <2>9, <2>10 DEF Next, vars
<1>2. [][Shows]_vars <=> UncoveredProfileIsCurrent
  BY DEF UncoveredProfileIsCurrent
<1> QED
  BY <1>1, <1>2, AlwaysIInv, PTL DEF Spec
==============================================================================
