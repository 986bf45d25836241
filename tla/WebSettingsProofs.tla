------------------------- MODULE WebSettingsProofs -------------------------
(***************************************************************************)
(* Proofs about WebSettings, for any number of browsers and requests, any   *)
(* limits and any time.                                                     *)
(***************************************************************************)
EXTENDS WebSettings, ListsProofs

Fields == {"kind", "sub", "exp", "at", "object", "left", "lru"}

ListsOK ==
  /\ now \in Nat
  /\ revoked \in [Browsers -> Int]
  /\ revokedFile \in [Browsers -> Int]
  /\ signedOut \in [Browsers -> Int]
  /\ tokens \subseteq [sub : Browsers, exp : Int]

\* A request that is about to revoke a token names its browser and its expiry.
RequestsOK ==
  /\ request = [r \in Requests |-> request[r]]
  /\ \A r \in Requests : request[r] # None =>
       /\ DOMAIN request[r] = Fields
       /\ request[r].at = "revoking" => request[r].sub \in Browsers /\ request[r].exp \in Int

\* A sign-out is in the list in memory until its token expires, if no server forgot it,
\* and in the one on disk as well, if that was written whole.
RevocationsHold ==
  \A b \in Browsers \ forgotten : signedOut[b] > now =>
    revoked[b] >= signedOut[b] /\ (~spoiled => revokedFile[b] >= signedOut[b])

SignOutInv == ListsOK /\ RequestsOK /\ RevocationsHold

-----------------------------------------------------------------------------
(* Requests *)

\* A request is replaced by none, or by one that is not about to revoke.
LEMMA OneRequest ==
  ASSUME RequestsOK, NEW r \in Requests, NEW q, request' = [request EXCEPT ![r] = q],
         q = None \/ (DOMAIN q = Fields /\ q.at # "revoking")
  PROVE  RequestsOK'
  BY DEF RequestsOK

\* The steps of a request, but those of a sign-out's first two.
RequestStep(r) ==
  \/ PairRight(r) \/ PruneDrop(r) \/ Pair(r) \/ \E b \in Browsers : PruneVisit(r, b)
  \/ Browser(r) \/ Begin(r)
  \/ LockProfile(r) \/ \E p \in Profiles : SelectProfile(r, p)
  \/ CreateProfile(r) \/ Edit(r) \/ Fail(r) \/ Respond(r)
  \/ LogoutRemoves(r) \/ LogoutCloses(r) \/ Drop(r)
  \/ \E t \in tokens, k \in Kinds : Arrive(r, k, t)

LEMMA RequestsStep ==
  ASSUME RequestsOK, NEW r \in Requests, RequestStep(r)
  PROVE  RequestsOK'
  <1> SUFFICES /\ request' = [request EXCEPT ![r] = request'[r]]
               /\ \/ request'[r] = None
                  \/ DOMAIN request'[r] = Fields /\ request'[r].at # "revoking"
    BY OneRequest
  <1> DEFINE q == request[r]
  <1>1. CASE PairRight(r)
    BY <1>1 DEF PairRight, Fields, RequestsOK
  <1>2. CASE PruneDrop(r) \/ \E b \in Browsers : PruneVisit(r, b)
    <2>1. DOMAIN q = Fields /\ q.at = "pairing"
      BY <1>2 DEF PruneDrop, PruneVisit, At, RequestsOK
    <2>2. PICK x, y : request' = [request EXCEPT ![r].left = x, ![r].lru = y]
      BY <1>2 DEF PruneDrop, PruneVisit
    <2> QED BY <2>1, <2>2 DEF Fields, RequestsOK
  <1>4. CASE Pair(r) \/ Fail(r) \/ Respond(r) \/ LogoutCloses(r) \/ Drop(r) \/ Ended(r)
    BY <1>4 DEF Pair, Fail, Respond, LogoutCloses, Drop, Ended, RequestsOK
  <1>5. ASSUME NEW o, NEW place \in {"queued", "closing"}, DOMAIN q = Fields,
               request' = [request EXCEPT ![r].object = o, ![r].at = place]
        PROVE  /\ request' = [request EXCEPT ![r] = request'[r]]
               /\ DOMAIN request'[r] = Fields /\ request'[r].at # "revoking"
    BY <1>5 DEF Fields, RequestsOK
  <1>6. CASE Browser(r) \/ LogoutRemoves(r)
    <2>1. DOMAIN q = Fields
      BY <1>6 DEF Browser, LogoutRemoves, At, RequestsOK
    <2>2. CASE request' = [request EXCEPT ![r].object = cached[request[r].sub], ![r].at = "queued"]
      BY <1>5, <2>1, <2>2
    <2>3. CASE request' = [request EXCEPT ![r].object = cached[request[r].sub], ![r].at = "closing"]
      BY <1>5, <2>1, <2>3
    <2>4. ASSUME NEW o \in Objects,
                 request' = [request EXCEPT ![r].object = o, ![r].at = "queued"]
          PROVE  /\ request' = [request EXCEPT ![r] = request'[r]]
                 /\ DOMAIN request'[r] = Fields /\ request'[r].at # "revoking"
      BY <1>5, <2>1, <2>4
    <2>5. CASE Ended(r)
      BY <1>4, <2>5
    <2>6. CASE Browser(r)
      BY <2>2, <2>4, <2>5, <2>6 DEF Browser, Unused
    <2>7. CASE LogoutRemoves(r)
      BY <2>3, <2>5, <2>7 DEF LogoutRemoves
    <2> QED BY <1>6, <2>6, <2>7
  <1>7. CASE \/ Begin(r) \/ LockProfile(r) \/ (\E p \in Profiles : SelectProfile(r, p))
             \/ CreateProfile(r) \/ Edit(r)
    <2>1. DOMAIN q = Fields
      BY <1>7 DEF Begin, LockProfile, SelectProfile, CreateProfile, Edit, Running, At, RequestsOK
    <2>2. PICK place \in {"running", "stored"} : To(r, place)
      BY <1>7 DEF Begin, LockProfile, SelectProfile, CreateProfile, Edit, Store
    <2> QED BY <2>1, <2>2 DEF To, Fields, RequestsOK
  <1>8. CASE \E t \in tokens, k \in Kinds : Arrive(r, k, t)
    BY <1>8 DEF Arrive, Waiting, Fields, RequestsOK
  <1> QED BY <1>1, <1>2, <1>4, <1>6, <1>7, <1>8 DEF RequestStep

\* A sign-out begins with a token that verifies.
LEMMA LogoutBegins ==
  ASSUME ListsOK, RequestsOK, NEW r \in Requests, NEW t \in tokens, LogoutArrives(r, t)
  PROVE  RequestsOK'
  BY DEF LogoutArrives, Waiting, RequestsOK, ListsOK, Fields

\* No request changes another one.
LEMMA OthersWait ==
  ASSUME RequestsOK, NEW r \in Requests, NEW s \in Requests \ {r},
         RequestStep(s) \/ Revoke(s) \/ \E t \in tokens : LogoutArrives(s, t)
  PROVE  request'[r] = request[r]
  <1>1. CASE PairRight(s) \/ PruneDrop(s) \/ (\E b \in Browsers : PruneVisit(s, b))
    BY <1>1 DEF PairRight, PruneDrop, PruneVisit, RequestsOK
  <1>2. CASE Pair(s) \/ Fail(s) \/ Respond(s) \/ LogoutCloses(s) \/ Drop(s)
    BY <1>2 DEF Pair, Fail, Respond, LogoutCloses, Drop, Ended, RequestsOK
  <1>3. CASE Browser(s) \/ LogoutRemoves(s)
    BY <1>3 DEF Browser, LogoutRemoves, Ended, RequestsOK
  <1>4. CASE \/ Begin(s) \/ LockProfile(s) \/ (\E p \in Profiles : SelectProfile(s, p))
             \/ CreateProfile(s) \/ Edit(s) \/ Revoke(s)
    BY <1>4 DEF Begin, LockProfile, SelectProfile, CreateProfile, Edit, Store, Revoke, To, RequestsOK
  <1>5. CASE \E t \in tokens : LogoutArrives(s, t) \/ \E k \in Kinds : Arrive(s, k, t)
    BY <1>5 DEF LogoutArrives, Arrive, Waiting, RequestsOK
  <1> QED BY <1>1, <1>2, <1>3, <1>4, <1>5 DEF RequestStep

-----------------------------------------------------------------------------
(* Lists *)

\* Steps that leave both lists and the clock alone.
LEMMA ListsKept ==
  ASSUME ListsOK, RevocationsHold, UNCHANGED <<now, signOuts>>,
         tokens' \subseteq tokens \union {Issued(b) : b \in Browsers}
  PROVE  ListsOK' /\ RevocationsHold'
  <1>1. \A b \in Browsers : Issued(b) \in [sub : Browsers, exp : Int]
    BY WebAssumption DEF Issued, ListsOK
  <1> QED BY <1>1 DEF ListsOK, RevocationsHold, signOuts

LEMMA RequestKeepsLists ==
  ASSUME NEW r \in Requests,
         RequestStep(r) \/ \E t \in tokens : LogoutArrives(r, t)
  PROVE  /\ UNCHANGED <<now, signOuts>>
         /\ tokens' \subseteq tokens \union {Issued(b) : b \in Browsers}
  <1>1. CASE Pair(r)
    BY <1>1 DEF Pair
  <1>2. CASE RequestStep(r) /\ ~Pair(r)
    BY <1>2 DEF RequestStep, PairRight, PruneDrop, PruneVisit, Browser, Begin, LockProfile,
       SelectProfile, CreateProfile, Edit, Store, Fail, Respond, LogoutRemoves, LogoutCloses,
       Drop, Arrive, credentials
  <1>3. CASE \E t \in tokens : LogoutArrives(r, t)
    BY <1>3 DEF LogoutArrives, credentials
  <1> QED BY <1>1, <1>2, <1>3

\* The list in memory gets the token's expiry and keeps the others that are not over;
\* the one on disk is that list, or not whole.
LEMMA RevokeHolds ==
  ASSUME SignOutInv, NEW r \in Requests, Revoke(r)
  PROVE  SignOutInv'
  <1> USE DEF SignOutInv
  <1> DEFINE b == request[r].sub
             exp == request[r].exp
             list == [Alive(revoked) EXCEPT ![b] = exp]
  <1>1. b \in Browsers /\ exp \in Int /\ DOMAIN request[r] = Fields
    BY DEF Revoke, At, RequestsOK
  <1>2. /\ now' = now /\ tokens' = tokens /\ revoked' = list
        /\ signedOut' = [signedOut EXCEPT ![b] = exp] /\ forgotten' = forgotten \ {b}
        /\ \/ revokedFile' = list
           \/ /\ \E kept \in SUBSET Browsers :
                   revokedFile' = [c \in Browsers |-> IF c \in kept THEN list[c] ELSE 0]
              /\ spoiled'
           \/ revokedFile' = revokedFile /\ spoiled'
    BY DEF Revoke
  <1>3. Alive(revoked) \in [Browsers -> Int] /\ list \in [Browsers -> Int]
    BY <1>1 DEF Alive, ListsOK
  <1>4. ListsOK'
    <2> HIDE DEF list
    <2>1. revokedFile' \in [Browsers -> Int]
      <3>1. CASE revokedFile' = list \/ revokedFile' = revokedFile
        BY <1>3, <3>1 DEF ListsOK
      <3>2. CASE \E kept \in SUBSET Browsers :
                   revokedFile' = [c \in Browsers |-> IF c \in kept THEN list[c] ELSE 0]
        <4>1. PICK kept \in SUBSET Browsers :
                   revokedFile' = [c \in Browsers |-> IF c \in kept THEN list[c] ELSE 0]
          BY <3>2
        <4>2. \A c \in Browsers : (IF c \in kept THEN list[c] ELSE 0) \in Int
          BY <1>3
        <4> QED BY <4>1, <4>2
      <3> QED BY <1>2, <3>1, <3>2
    <2>2. signedOut' \in [Browsers -> Int]
      BY <1>1, <1>2 DEF ListsOK
    <2> QED BY <1>2, <1>3, <2>1, <2>2 DEF ListsOK
  <1>5. RequestsOK'
    <2>1. /\ request' = [request EXCEPT ![r] = request'[r]]
          /\ DOMAIN request'[r] = Fields /\ request'[r].at # "revoking"
      BY <1>1 DEF Revoke, To, Fields, RequestsOK
    <2> QED BY <2>1, OneRequest
  <1>6. RevocationsHold'
    <2> SUFFICES ASSUME NEW c \in Browsers \ forgotten', signedOut'[c] > now
                 PROVE  list[c] >= signedOut'[c] /\ (~spoiled' => revokedFile' = list)
      BY <1>2 DEF RevocationsHold
    <2>1. ~spoiled' => revokedFile' = list
      BY <1>2
    <2>2. CASE c = b
      BY <1>1, <1>2, <1>3, <2>1, <2>2 DEF ListsOK
    <2>3. CASE c # b
      <3>1. signedOut'[c] = signedOut[c] /\ list[c] = Alive(revoked)[c] /\ c \notin forgotten
        BY <1>2, <1>3, <2>3 DEF ListsOK
      <3>2. Alive(revoked)[c] = revoked[c]
        BY <3>1 DEF Alive, ListsOK, RevocationsHold
      <3> QED BY <2>1, <3>1, <3>2 DEF ListsOK, RevocationsHold
    <2> QED BY <2>2, <2>3
  <1> QED BY <1>4, <1>5, <1>6

\* A server that starts reads what is not over yet, or, if the file is not whole,
\* forgets the sign-outs.
LEMMA StartHolds ==
  ASSUME SignOutInv, Start
  PROVE  SignOutInv'
  <1> USE DEF SignOutInv
  <1>1. /\ UNCHANGED <<now, revokedFile, signedOut, spoiled>> /\ tokens' \subseteq tokens
        /\ forgotten' = forgotten \union (IF spoiled THEN {b \in Browsers : signedOut[b] > now} ELSE {})
        /\ revoked' = Alive(revokedFile) /\ request' = [r \in Requests |-> None]
    BY DEF Start, RevokedBrowsers, SecretBytes
  <1>2. RequestsOK'
    BY <1>1 DEF RequestsOK
  <1>3. Alive(revokedFile) \in [Browsers -> Int]
    BY DEF Alive, ListsOK
  <1>4. ListsOK'
    BY <1>1, <1>3 DEF ListsOK
  <1>5. RevocationsHold'
    BY <1>1 DEF RevocationsHold, Alive, ListsOK
  <1> QED BY <1>2, <1>4, <1>5

LEMMA TickHolds ==
  ASSUME SignOutInv, Tick
  PROVE  SignOutInv'
  <1> USE DEF SignOutInv
  <1>1. /\ now' = now + 1 /\ tokens' \subseteq tokens
        /\ UNCHANGED <<signOuts, request>>
    BY DEF Tick
  <1> QED BY <1>1 DEF signOuts, ListsOK, RequestsOK, RevocationsHold

-----------------------------------------------------------------------------

LEMMA SignOutInitially == WebInit => SignOutInv
  BY DEF WebInit, SignOutInv, ListsOK, RequestsOK, RevocationsHold

LEMMA SignOutStep == SignOutInv /\ [WebNext]_webVars => SignOutInv'
  <1> SUFFICES ASSUME SignOutInv, [WebNext]_webVars PROVE SignOutInv'
    OBVIOUS
  <1> USE DEF SignOutInv
  <1>1. CASE UNCHANGED webVars
    BY <1>1 DEF webVars, credentials, signOuts, ListsOK, RequestsOK, RevocationsHold
  <1>2. CASE PairWrong \/ TvReloads
    BY <1>2 DEF PairWrong, TvReloads, credentials, signOuts, ListsOK, RequestsOK, RevocationsHold
  <1>3. ASSUME NEW t \in tokens, Refresh(t)
        PROVE  SignOutInv'
    <2>1. /\ UNCHANGED <<now, signOuts, request>>
          /\ tokens' \subseteq tokens \union {Issued(b) : b \in Browsers}
      BY <1>3 DEF Refresh, ListsOK
    <2>2. RequestsOK'
      BY <2>1 DEF RequestsOK
    <2> QED BY <2>1, <2>2, ListsKept
  <1>4. ASSUME NEW r \in Requests, RequestStep(r)
        PROVE  SignOutInv'
    BY <1>4, RequestsStep, RequestKeepsLists, ListsKept
  <1>5. ASSUME NEW r \in Requests, NEW t \in tokens, LogoutArrives(r, t)
        PROVE  SignOutInv'
    BY <1>5, LogoutBegins, RequestKeepsLists, ListsKept
  <1>6. ASSUME NEW r \in Requests, Revoke(r)
        PROVE  SignOutInv'
    BY <1>6, RevokeHolds
  <1>7. CASE Reopen \/ Restart
    BY <1>7, StartHolds DEF Reopen, Restart
  <1>8. CASE Tick
    BY <1>8, TickHolds
  <1> QED BY <1>1, <1>2, <1>3, <1>4, <1>5, <1>6, <1>7, <1>8
             DEF WebNext, Advance, RequestStep

\* The tokens of a browser that signed out admit nothing before the one it signed out
\* with expires, over restarts and other sign-outs; unless a server was started on a list
\* whose last write had failed or been cut short (web.rs, claims, revoke and start).
THEOREM SignedOutStays == WebSpec => SignedOutStaysOut
  <1> DEFINE Rightly == \A r \in DOMAIN request : Admitted(r) =>
               \/ signedOut[request'[r].sub] <= now
               \/ request'[r].sub \in forgotten
  <1>1. SignOutInv /\ [WebNext]_webVars => [Rightly]_webVars
    <2> SUFFICES ASSUME SignOutInv, WebNext, NEW r \in Requests, request[r] = None,
                        request'[r] # None, request'[r].sub # None
                 PROVE  signedOut[request'[r].sub] <= now \/ request'[r].sub \in forgotten
      BY DEF SignOutInv, RequestsOK, Admitted
    <2>1. PICK t \in tokens : Claims(t) /\ request'[r].sub = t.sub
      <3>1. CASE \E t \in tokens : LogoutArrives(r, t) \/ \E k \in Kinds : Arrive(r, k, t)
        BY <3>1 DEF LogoutArrives, Arrive, Waiting, SignOutInv, RequestsOK
      <3>2. CASE PairRight(r)
        BY <3>2 DEF PairRight, SignOutInv, RequestsOK
      <3>3. CASE \E s \in Requests \ {r} :
                   RequestStep(s) \/ Revoke(s) \/ \E t \in tokens : LogoutArrives(s, t)
        BY <3>3, OthersWait DEF SignOutInv
      <3>5. ASSUME RequestStep(r) \/ Revoke(r), ~PairRight(r),
                   ~\E t \in tokens, k \in Kinds : Arrive(r, k, t)
            PROVE  FALSE
        BY <3>5 DEF RequestStep, PruneDrop, PruneVisit, Pair, Browser, Begin, LockProfile,
           SelectProfile, CreateProfile, Edit, Running, Fail, Respond, Revoke, LogoutRemoves,
           LogoutCloses, Drop, At
      <3>4. CASE request' = request \/ request' = [s \in Requests |-> None]
        BY <3>4
      <3> QED BY <3>1, <3>2, <3>3, <3>4, <3>5
                 DEF WebNext, Advance, RequestStep, PairWrong, TvReloads, Tick, Reopen, Restart,
                     Start, Refresh
    <2> QED BY <2>1 DEF Claims, SignOutInv, RevocationsHold, ListsOK
  <1> QED BY <1>1, SignOutInitially, SignOutStep, PTL DEF WebSpec, SignedOutStaysOut

-----------------------------------------------------------------------------
(* Edits *)

IsEdit(r) == request[r].kind \in {"create", "edit"}

\* Behind an edit that the TV has not seen there is a request that will announce it.
EditKnown ==
  unseen => news \/ silent \/ \E r \in Requests : At(r, "stored") /\ IsEdit(r)

\* The requests of paired browsers, none of which is the missing one.
SessionsOK ==
  /\ cached \in [Browsers -> Objects \union {None}]
  /\ \A r \in Requests :
       request[r] # None /\ request[r].kind \in SessionKinds => request[r] \in SessionRequest

\* A request becomes one of a paired browser, or none.
LEMMA OneSession ==
  ASSUME RequestsOK, SessionsOK, NEW r \in Requests, NEW q,
         request' = [request EXCEPT ![r] = q], q # None /\ q.kind \in SessionKinds => q \in SessionRequest
  PROVE  \A s \in Requests : request'[s] # None /\ request'[s].kind \in SessionKinds
                               => request'[s] \in SessionRequest
  BY DEF RequestsOK, SessionsOK

LEMMA SessionsStep == SignOutInv /\ SessionsOK /\ [WebNext]_webVars => SessionsOK'
  <1> SUFFICES ASSUME SignOutInv, SessionsOK, [WebNext]_webVars PROVE SessionsOK'
    OBVIOUS
  <1> DEFINE Typed == \A s \in Requests : request[s] # None /\ request[s].kind \in SessionKinds
                        => request[s] \in SessionRequest
             Cache == cached \in [Browsers -> Objects \union {None}]
  <1>0. RequestsOK /\ ListsOK /\ Typed /\ Cache
    BY DEF SignOutInv, SessionsOK
  <1>1. CASE UNCHANGED webVars \/ PairWrong \/ TvReloads \/ Tick \/ \E t \in tokens : Refresh(t)
    BY <1>1 DEF webVars, PairWrong, TvReloads, Tick, Refresh, memory, SessionsOK
  <1>2. CASE Reopen \/ Restart
    BY <1>2 DEF Reopen, Restart, Start, ServerInit, SessionsOK
  <1>3. ASSUME NEW r \in Requests, request[r] # None, request[r].kind \in SessionKinds
        PROVE  request[r] \in SessionRequest /\ request[r].sub \in Browsers
               /\ ~At(r, "pairing") /\ ~At(r, "revoking") /\ ~At(r, "leaving") /\ ~At(r, "closing")
    BY <1>0, <1>3 DEF SessionRequest, At
  <1>4. ASSUME NEW r \in Requests, RequestStep(r) \/ Revoke(r) \/ \E t \in tokens : LogoutArrives(r, t)
        PROVE  SessionsOK'
    <2>1. Cache'
      <3>1. CASE Pair(r) \/ Browser(r)
        BY <1>0, <3>1 DEF Pair, Browser, Insert, memory, Unused
      <3>2. CASE PruneDrop(r) \/ LogoutRemoves(r)
        BY <1>0, <3>2 DEF PruneDrop, LogoutRemoves
      <3>3. CASE UNCHANGED cached
        BY <1>0, <3>3
      <3> QED BY <1>4, <3>1, <3>2, <3>3
              DEF RequestStep, PairRight, PruneVisit, Begin, LockProfile, SelectProfile, CreateProfile,
                  Edit, Store, Fail, Respond, Revoke, LogoutCloses, LogoutArrives, Drop, Arrive, memory
    <2>2. Typed'
      <3> SUFFICES /\ request' = [request EXCEPT ![r] = request'[r]]
                   /\ request'[r] # None /\ request'[r].kind \in SessionKinds => request'[r] \in SessionRequest
        BY <1>0, OneSession
      <3> DEFINE q == request[r]
      <3>1. CASE PairRight(r)
        BY <1>0, <3>1, WebAssumption DEF PairRight, RequestsOK, SessionKinds
      <3>2. CASE PruneDrop(r) \/ (\E b \in Browsers : PruneVisit(r, b))
        <4>1. At(r, "pairing") /\ DOMAIN q = Fields
          BY <1>0, <3>2 DEF PruneDrop, PruneVisit, At, RequestsOK
        <4>2. PICK x, y : request' = [request EXCEPT ![r].left = x, ![r].lru = y]
          BY <3>2 DEF PruneDrop, PruneVisit
        <4>3. q.kind \notin SessionKinds
          BY <1>3, <4>1 DEF At
        <4> QED BY <1>0, <4>1, <4>2, <4>3 DEF Fields, RequestsOK
      <3>3. CASE Pair(r) \/ Fail(r) \/ Respond(r) \/ LogoutCloses(r) \/ Drop(r) \/ Ended(r)
        BY <1>0, <3>3 DEF Pair, Fail, Respond, LogoutCloses, Drop, Ended, RequestsOK
      <3>4. ASSUME NEW o \in Objects \union {None}, q # None, DOMAIN q = Fields,
                   request' = [request EXCEPT ![r].object = o, ![r].at = "queued"]
            PROVE  /\ request' = [request EXCEPT ![r] = request'[r]]
                   /\ request'[r].kind \in SessionKinds => request'[r] \in SessionRequest
        <4>1. request' = [request EXCEPT ![r] = request'[r]] /\ request'[r].kind = q.kind
              /\ request'[r] = [q EXCEPT !.object = o, !.at = "queued"]
          BY <1>0, <3>4 DEF Fields, RequestsOK
        <4>2. CASE q.kind \in SessionKinds
          <5>1. q \in SessionRequest
            BY <1>3, <3>4, <4>2
          <5> QED BY <4>1, <5>1 DEF SessionRequest
        <4> QED BY <4>1, <4>2
      <3>5. CASE Browser(r)
        <4>1. q # None /\ DOMAIN q = Fields
          BY <1>0, <3>5 DEF Browser, At, RequestsOK
        <4>2. CASE request' = [request EXCEPT ![r].object = cached[q.sub], ![r].at = "queued"]
          <5>1. CASE q.kind \in SessionKinds
            <6>1. cached[q.sub] \in Objects \union {None}
              BY <1>0, <1>3, <4>1, <5>1
            <6> QED BY <3>4, <4>1, <4>2, <6>1
          <5>2. CASE q.kind \notin SessionKinds
            BY <1>0, <4>1, <4>2, <5>2 DEF Fields, RequestsOK
          <5> QED BY <5>1, <5>2
        <4>3. ASSUME NEW o \in Objects, request' = [request EXCEPT ![r].object = o, ![r].at = "queued"]
              PROVE  /\ request' = [request EXCEPT ![r] = request'[r]]
                     /\ request'[r].kind \in SessionKinds => request'[r] \in SessionRequest
          BY <3>4, <4>1, <4>3
        <4>4. CASE Ended(r)
          BY <3>3, <4>4
        <4> QED BY <3>5, <4>2, <4>3, <4>4 DEF Browser, Unused
      <3>6. CASE LogoutRemoves(r)
        <4>1. At(r, "leaving") /\ DOMAIN q = Fields
          BY <1>0, <3>6 DEF LogoutRemoves, At, RequestsOK
        <4>2. q.kind \notin SessionKinds
          BY <1>3, <4>1 DEF At
        <4>3. PICK o : \/ request' = [request EXCEPT ![r].object = o, ![r].at = "closing"]
                       \/ Ended(r)
          BY <3>6 DEF LogoutRemoves
        <4> QED BY <1>0, <3>3, <4>1, <4>2, <4>3 DEF Fields, RequestsOK
      <3>7. CASE \/ Begin(r) \/ LockProfile(r) \/ (\E p \in Profiles : SelectProfile(r, p))
                 \/ CreateProfile(r) \/ Edit(r) \/ Revoke(r)
        <4>1. q # None /\ DOMAIN q = Fields
          BY <1>0, <3>7 DEF Begin, LockProfile, SelectProfile, CreateProfile, Edit, Revoke, Running, At,
             RequestsOK
        <4>2. PICK place : To(r, place) /\ (place \in {"running", "stored"} \/ At(r, "revoking"))
          BY <3>7 DEF Begin, LockProfile, SelectProfile, CreateProfile, Edit, Store, Revoke
        <4>3. request' = [request EXCEPT ![r] = request'[r]] /\ request'[r].kind = q.kind
              /\ request'[r] = [q EXCEPT !.at = place]
          BY <1>0, <4>1, <4>2 DEF To, Fields, RequestsOK
        <4>4. CASE q.kind \in SessionKinds
          <5>1. q \in SessionRequest /\ place \in {"running", "stored"}
            BY <1>3, <4>1, <4>2, <4>4
          <5> QED BY <4>3, <5>1 DEF SessionRequest
        <4> QED BY <4>3, <4>4
      <3>8. ASSUME NEW t \in tokens, NEW k \in Kinds, Arrive(r, k, t)
            PROVE  /\ request' = [request EXCEPT ![r] = request'[r]]
                   /\ request'[r] \in SessionRequest
        BY <1>0, <3>8, WebAssumption DEF Arrive, Waiting, RequestsOK, ListsOK, SessionRequest
      <3>9. CASE \E t \in tokens : LogoutArrives(r, t)
        BY <1>0, <3>9, WebAssumption DEF LogoutArrives, Waiting, RequestsOK, SessionKinds
      <3> QED BY <1>4, <3>1, <3>2, <3>3, <3>5, <3>6, <3>7, <3>8, <3>9 DEF RequestStep
    <2> QED BY <2>1, <2>2 DEF SessionsOK
  <1> QED BY <1>1, <1>2, <1>4 DEF WebNext, Advance, RequestStep

\* A request that has stored nothing yet goes on.
LEMMA OthersAnnounce ==
  ASSUME EditKnown, NEW r \in Requests, ~At(r, "stored"), UNCHANGED versions,
         \A s \in Requests \ {r} : request'[s] = request[s]
  PROVE  EditKnown'
  BY DEF EditKnown, At, IsEdit, versions

LEMMA EditStep == SignOutInv /\ SessionsOK /\ SessionsOK' /\ EditKnown /\ [WebNext]_webVars => EditKnown'
  <1> SUFFICES ASSUME SignOutInv, SessionsOK, SessionsOK', EditKnown, [WebNext]_webVars PROVE EditKnown'
    OBVIOUS
  <1>0. RequestsOK
    BY DEF SignOutInv
  <1>1. CASE UNCHANGED webVars
    BY <1>1 DEF webVars, versions, EditKnown, At, IsEdit
  <1>2. CASE PairWrong \/ Tick \/ \E t \in tokens : Refresh(t)
    BY <1>2 DEF PairWrong, Tick, Refresh, versions, EditKnown, At, IsEdit
  <1>3. ASSUME NEW r \in Requests, CreateProfile(r) \/ Edit(r)
        PROVE  EditKnown'
    <2>1. At(r, "running") /\ IsEdit(r) /\ To(r, "stored")
      BY <1>3 DEF CreateProfile, Edit, Running, Store, IsEdit
    <2>2. At(r, "stored")' /\ IsEdit(r)'
      <3>1. request[r] \in SessionRequest
        BY <1>3, <2>1 DEF SessionsOK, SessionKinds, IsEdit, At
      <3>2. request'[r] = [request[r] EXCEPT !.at = "stored"]
        BY <1>0, <2>1 DEF RequestsOK, To
      <3>3. request'[r] \in SessionRequest /\ request'[r].at = "stored"
            /\ request'[r].kind = request[r].kind
        BY <3>1, <3>2 DEF SessionRequest
      <3> QED BY <2>1, <3>3, WebAssumption DEF At, IsEdit
    <2> QED BY <2>2 DEF EditKnown
  <1>4. ASSUME NEW r \in Requests, Respond(r)
        PROVE  EditKnown'
    BY <1>4 DEF Respond, Bumps, EditKnown
  <1>5. ASSUME NEW r \in Requests, Drop(r)
        PROVE  EditKnown'
    <2>1. \A s \in Requests \ {r} : request'[s] = request[s]
      BY <1>0, <1>5, OthersWait DEF RequestStep
    <2> QED BY <1>5, <2>1 DEF Drop, EditKnown, At, IsEdit
  <1>6. ASSUME NEW r \in Requests,
               \/ RequestStep(r) /\ ~CreateProfile(r) /\ ~Edit(r) /\ ~Respond(r) /\ ~Drop(r)
               \/ Revoke(r)
               \/ \E t \in tokens : LogoutArrives(r, t)
        PROVE  EditKnown'
    <2>1. ~At(r, "stored") /\ UNCHANGED versions
      BY <1>6 DEF RequestStep, PairRight, PruneDrop, PruneVisit, Pair, Browser, Begin, LockProfile,
         SelectProfile, Running, Fail, Revoke, LogoutRemoves, LogoutCloses, LogoutArrives, Arrive, At
    <2>2. \A s \in Requests \ {r} : request'[s] = request[s]
      BY <1>0, <1>6, OthersWait
    <2> QED BY <2>1, <2>2, OthersAnnounce
  <1>7. CASE Reopen
    <2>1. UNCHANGED versions /\ \A r \in Requests : request[r] = None
      BY <1>7 DEF Reopen
    <2> QED BY <2>1 DEF EditKnown, At, versions
  <1>8. CASE Restart \/ TvReloads
    BY <1>8 DEF Restart, TvReloads, EditKnown
  <1> QED BY <1>1, <1>2, <1>3, <1>4, <1>5, <1>6, <1>7, <1>8 DEF WebNext, Advance, RequestStep

\* The TV that saw the latest revision shows every edit, whichever requests overlap and
\* whichever handlers are dropped (web.rs, Server::respond).
THEOREM EditsAreSeen == WebSpec => []NoEditMissed
  <1>1. WebInit => EditKnown
    BY DEF WebInit, EditKnown
  <1>2. SignOutInv /\ EditKnown => NoEditMissed
    BY DEF SignOutInv, RequestsOK, EditKnown, NoEditMissed
  <1>3. WebInit => SessionsOK
    BY DEF WebInit, SessionsOK
  <1> QED BY <1>1, <1>2, <1>3, SignOutInitially, SignOutStep, SessionsStep, EditStep, PTL DEF WebSpec

-----------------------------------------------------------------------------
(* How many codes are guessed *)

\* The codes of the first n ages, given those of fewer.
Adds(g, counts, n) == IF n = 0 THEN 0 ELSE g[n - 1] + counts[n - 1]

LEMMA SumsExist ==
  ASSUME NEW counts, NEW len \in Nat
  PROVE  \E g : g = [n \in 0 .. len |-> Adds(g, counts, n)]
  <1> DEFINE Has(m) == \E g : g = [n \in 0 .. m |-> Adds(g, counts, n)]
             S == {m \in Nat : Has(m)}
  <1>1. Has(0)
    <2> DEFINE g == [n \in 0 .. 0 |-> 0]
    <2>1. g = [n \in 0 .. 0 |-> Adds(g, counts, n)]
      BY DEF Adds
    <2> QED BY <2>1
  <1>2. ASSUME NEW m \in Nat, Has(m) PROVE Has(m + 1)
    <2>1. PICK g : g = [n \in 0 .. m |-> Adds(g, counts, n)]
      BY <1>2
    <2> DEFINE h == [n \in 0 .. m + 1 |-> IF n = m + 1 THEN Adds(g, counts, n) ELSE g[n]]
    <2>2. \A n \in 0 .. m : h[n] = g[n]
      OBVIOUS
    <2>3. \A n \in 0 .. m + 1 : Adds(h, counts, n) = Adds(g, counts, n)
      <3> TAKE n \in 0 .. m + 1
      <3>1. n # 0 => n - 1 \in 0 .. m
        OBVIOUS
      <3> HIDE DEF h
      <3> QED BY <2>2, <3>1 DEF Adds
    <2>4. \A n \in 0 .. m : g[n] = Adds(g, counts, n)
      BY <2>1
    <2>5. \A n \in 0 .. m + 1 : h[n] = Adds(g, counts, n)
      BY <2>4
    <2>6. h = [n \in 0 .. m + 1 |-> h[n]]
      OBVIOUS
    <2>7. h = [n \in 0 .. m + 1 |-> Adds(h, counts, n)]
      <3> HIDE DEF h
      <3> QED BY <2>3, <2>5, <2>6
    <2> HIDE DEF h
    <2> QED BY <2>7
  <1> HIDE DEF Has
  <1>3. 0 \in S /\ \A m \in S : m + 1 \in S
    BY <1>1, <1>2
  <1> HIDE DEF S
  <1>4. S = Nat
    BY <1>3, NatInd DEF S
  <1> QED BY <1>4 DEF Has, S

UpTo(counts) == CHOOSE g : g = [n \in 0 .. LockTime |-> Adds(g, counts, n)]

\* The partial sums of the codes guessed.
LEMMA SumsAdd ==
  ASSUME NEW counts \in [Ages -> Nat]
  PROVE  /\ Guesses(counts) = UpTo(counts)[LockTime]
         /\ UpTo(counts)[0] = 0
         /\ \A n \in 0 .. LockTime - 1 : UpTo(counts)[n + 1] = UpTo(counts)[n] + counts[n]
         /\ \A n \in 0 .. LockTime : UpTo(counts)[n] \in Nat
  <1>1. LockTime \in Nat \ {0}
    BY WebAssumption
  <1>2. UpTo(counts) = [n \in 0 .. LockTime |-> Adds(UpTo(counts), counts, n)]
    BY <1>1, SumsExist DEF UpTo
  <1>3. Guesses(counts) = UpTo(counts)[LockTime]
    BY DEF Guesses, UpTo, Adds
  <1> DEFINE g == UpTo(counts)
  <1>4. \A n \in 0 .. LockTime : g[n] = Adds(g, counts, n)
    BY <1>2
  <1> HIDE DEF g
  <1>5. g[0] = 0
    BY <1>1, <1>4 DEF Adds
  <1>6. ASSUME NEW n \in 0 .. LockTime - 1 PROVE g[n + 1] = g[n] + counts[n]
    <2>1. n + 1 \in 0 .. LockTime /\ n + 1 # 0 /\ (n + 1) - 1 = n
      BY <1>1
    <2> QED BY <1>4, <2>1 DEF Adds
  <1> DEFINE S == {n \in Nat : n <= LockTime => g[n] \in Nat}
  <1>7. 0 \in S
    BY <1>5
  <1>8. ASSUME NEW n \in S PROVE n + 1 \in S
    <2>1. n + 1 <= LockTime => n \in Ages /\ n \in 0 .. LockTime - 1 /\ g[n] \in Nat
      BY <1>1 DEF Ages
    <2> QED BY <1>6, <2>1
  <1> HIDE DEF S
  <1>9. S = Nat
    BY <1>7, <1>8, NatInd DEF S
  <1>10. \A n \in 0 .. LockTime : g[n] \in Nat
    BY <1>1, <1>9 DEF S
  <1> QED BY <1>3, <1>5, <1>6, <1>10 DEF g

LEMMA NoGuessesSum ==
  ASSUME NEW counts \in [Ages -> Nat], \A a \in Ages : counts[a] = 0
  PROVE  \A n \in 0 .. LockTime : UpTo(counts)[n] = 0
  <1>1. LockTime \in Nat \ {0}
    BY WebAssumption
  <1> DEFINE g == UpTo(counts)
             S == {n \in Nat : n <= LockTime => g[n] = 0}
  <1> HIDE DEF g
  <1>2. /\ g[0] = 0
        /\ \A n \in 0 .. LockTime - 1 : g[n + 1] = g[n] + counts[n]
    BY SumsAdd DEF g
  <1>3. 0 \in S
    BY <1>2
  <1>4. ASSUME NEW n \in S PROVE n + 1 \in S
    <2>1. n + 1 <= LockTime => n \in Ages /\ n \in 0 .. LockTime - 1 /\ g[n] = 0
      BY <1>1 DEF Ages
    <2> QED BY <1>2, <2>1
  <1> HIDE DEF S
  <1>5. S = Nat
    BY <1>3, <1>4, NatInd DEF S
  <1> QED BY <1>1, <1>5 DEF S, g

\* What is counted now counts in every sum but the empty one.
LEMMA CountedNow ==
  ASSUME NEW counts \in [Ages -> Nat], NEW d \in Nat, NEW more \in [Ages -> Nat],
         more = [counts EXCEPT ![0] = @ + d]
  PROVE  \A n \in 1 .. LockTime : UpTo(more)[n] = UpTo(counts)[n] + d
  <1>1. LockTime \in Nat \ {0}
    BY WebAssumption
  <1>2. more[0] = counts[0] + d /\ \A a \in Ages : a # 0 => more[a] = counts[a]
    BY <1>1 DEF Ages
  <1> DEFINE g == UpTo(counts)
             h == UpTo(more)
             S == {n \in Nat : n # 0 /\ n <= LockTime => h[n] = g[n] + d}
  <1> HIDE DEF g, h
  <1>3. /\ g[0] = 0
        /\ \A n \in 0 .. LockTime - 1 : g[n + 1] = g[n] + counts[n]
        /\ \A n \in 0 .. LockTime : g[n] \in Nat
    BY SumsAdd DEF g
  <1>4. /\ h[0] = 0
        /\ \A n \in 0 .. LockTime - 1 : h[n + 1] = h[n] + more[n]
    BY SumsAdd DEF h
  <1>5. 0 \in S
    OBVIOUS
  <1>6. ASSUME NEW n \in S PROVE n + 1 \in S
    <2> SUFFICES ASSUME n + 1 <= LockTime PROVE h[n + 1] = g[n + 1] + d
      OBVIOUS
    <2>1. n \in 0 .. LockTime - 1 /\ n \in 0 .. LockTime /\ n \in Ages
      BY <1>1 DEF Ages
    <2>2. g[n + 1] = g[n] + counts[n] /\ h[n + 1] = h[n] + more[n]
      BY <1>3, <1>4, <2>1
    <2>3. counts[n] \in Nat /\ g[n] \in Nat
      BY <1>3, <2>1
    <2>4. CASE n = 0
      BY <1>2, <1>3, <1>4, <2>2, <2>3, <2>4
    <2>5. CASE n # 0
      <3>1. h[n] = g[n] + d /\ more[n] = counts[n]
        BY <1>2, <2>1, <2>5
      <3> QED BY <2>2, <2>3, <3>1
    <2> QED BY <2>4, <2>5
  <1> HIDE DEF S
  <1>7. S = Nat
    BY <1>5, <1>6, NatInd DEF S
  <1>8. \A n \in 1 .. LockTime : h[n] = g[n] + d
    <2> SUFFICES ASSUME NEW n \in 1 .. LockTime PROVE h[n] = g[n] + d
      OBVIOUS
    <2>1. n \in Nat /\ n # 0 /\ n <= LockTime
      BY <1>1
    <2>2. n \in S
      BY <1>7, <2>1
    <2> QED BY <2>1, <2>2 DEF S
  <1> QED BY <1>8 DEF g, h

\* As time passes every sum is that of one age less.
LEMMA CountsAge ==
  ASSUME NEW counts \in [Ages -> Nat]
  PROVE  /\ Older(counts) \in [Ages -> Nat]
         /\ \A n \in 1 .. LockTime : n - 1 \in 0 .. LockTime /\ UpTo(Older(counts))[n] = UpTo(counts)[n - 1]
  <1>1. LockTime \in Nat \ {0}
    BY WebAssumption
  <1> DEFINE older == Older(counts)
  <1>2. \A a \in Ages : a # 0 => a - 1 \in Ages
    BY <1>1 DEF Ages
  <1>3. older \in [Ages -> Nat] /\ older[0] = 0 /\ \A a \in Ages : a # 0 => older[a] = counts[a - 1]
    BY <1>1, <1>2 DEF Older, Ages
  <1> DEFINE g == UpTo(counts)
             h == UpTo(older)
             S == {n \in Nat : n + 1 <= LockTime => h[n + 1] = g[n]}
  <1> HIDE DEF g, h, older
  <1>4. /\ g[0] = 0
        /\ \A n \in 0 .. LockTime - 1 : g[n + 1] = g[n] + counts[n]
    BY SumsAdd DEF g
  <1>5. /\ h[0] = 0
        /\ \A n \in 0 .. LockTime - 1 : h[n + 1] = h[n] + older[n]
    BY <1>3, SumsAdd DEF h
  <1>6. 0 \in S
    <2>1. 0 \in 0 .. LockTime - 1
      BY <1>1
    <2>2. h[0 + 1] = h[0] + older[0]
      BY <1>5, <2>1
    <2> QED BY <1>3, <1>4, <1>5, <2>2
  <1>7. ASSUME NEW n \in S PROVE n + 1 \in S
    <2> SUFFICES ASSUME (n + 1) + 1 <= LockTime PROVE h[(n + 1) + 1] = g[n + 1]
      OBVIOUS
    <2>1. n \in 0 .. LockTime - 1 /\ n + 1 \in 0 .. LockTime - 1 /\ n + 1 \in Ages /\ n + 1 # 0
      BY <1>1 DEF Ages
    <2>2. h[(n + 1) + 1] = h[n + 1] + older[n + 1] /\ g[n + 1] = g[n] + counts[n]
      BY <1>4, <1>5, <2>1
    <2>3. older[n + 1] = counts[n]
      BY <1>3, <2>1
    <2>4. h[n + 1] = g[n]
      BY <1>1, <2>1
    <2> QED BY <2>2, <2>3, <2>4
  <1> HIDE DEF S
  <1>8. S = Nat
    BY <1>6, <1>7, NatInd DEF S
  <1>9. ASSUME NEW n \in 1 .. LockTime
        PROVE  n - 1 \in 0 .. LockTime /\ h[n] = g[n - 1]
    <2>1. n - 1 \in Nat /\ (n - 1) + 1 = n /\ n - 1 \in 0 .. LockTime
      BY <1>1
    <2> QED BY <1>8, <2>1 DEF S
  <1> QED BY <1>3, <1>9 DEF g, h, older

\* Of the codes no older than any age, at most `most` are wrong, apart from those excused.
AtMost(most) ==
  \A n \in 0 .. LockTime : UpTo(wrong)[n] <= most + UpTo(excused)[n]

\* The inductive invariant of pairing, of codes up to every age: the count of failures is
\* at least that of the wrong codes until they lock pairing, apart from those excused, and
\* a lock lasts until the wrong ones are all too old to count.
PairingInv ==
  /\ now \in Nat /\ failed \in Nat /\ lockedUntil \in Nat
  /\ wrong \in [Ages -> Nat] /\ excused \in [Ages -> Nat]
  /\ lockedUntil = 0 => AtMost(failed) /\ failed < MaxFailed
  /\ lockedUntil # 0 =>
       /\ AtMost(MaxFailed)
       /\ \A a \in Ages : a < now + LockTime - lockedUntil => wrong[a] = 0

\* A server that starts draws another code, against which none was tried.
LEMMA NoFailures ==
  ASSUME now \in Nat, NoGuesses = wrong, NoGuesses = excused, failed = 0, lockedUntil = 0
  PROVE  PairingInv
  <1>1. NoGuesses \in [Ages -> Nat] /\ \A a \in Ages : NoGuesses[a] = 0
    BY DEF NoGuesses
  <1>2. \A n \in 0 .. LockTime : UpTo(wrong)[n] = 0 /\ UpTo(excused)[n] = 0
    BY <1>1, NoGuessesSum
  <1> QED BY <1>1, <1>2, WebAssumption DEF PairingInv, AtMost

LEMMA PairingInitially == WebInit => PairingInv
  BY NoFailures DEF WebInit

\* Whoever may try a code has as many left as the count says.
LEMMA CountBefore ==
  ASSUME PairingInv, ~PairingLocked
  PROVE  FailedBefore \in Nat /\ FailedBefore < MaxFailed /\ AtMost(FailedBefore)
  <1>1. LockTime \in Nat \ {0} /\ MaxFailed \in Nat \ {0}
    BY WebAssumption
  <1>2. CASE lockedUntil = 0
    BY <1>2 DEF FailedBefore, PairingInv
  <1>3. CASE lockedUntil # 0
    <2>1. \A a \in Ages : a < now + LockTime - lockedUntil
      BY <1>1 DEF PairingInv, PairingLocked, Ages
    <2>2. \A n \in 0 .. LockTime : UpTo(wrong)[n] = 0
      BY <1>3, <2>1, NoGuessesSum DEF PairingInv
    <2>3. \A n \in 0 .. LockTime : UpTo(excused)[n] \in Nat
      BY SumsAdd DEF PairingInv
    <2> QED BY <1>1, <1>3, <2>2, <2>3 DEF FailedBefore, AtMost
  <1> QED BY <1>2, <1>3

LEMMA SumsNatural ==
  ASSUME PairingInv
  PROVE  /\ UpTo(wrong)[0] = 0 /\ UpTo(excused)[0] = 0
         /\ \A n \in 0 .. LockTime : UpTo(wrong)[n] \in Nat /\ UpTo(excused)[n] \in Nat
  BY SumsAdd DEF PairingInv

LEMMA WrongCodeCounts ==
  ASSUME PairingInv, PairWrong
  PROVE  PairingInv'
  <1>1. LockTime \in Nat \ {0} /\ MaxFailed \in Nat \ {0}
    BY WebAssumption
  <1>2. now' = now /\ now \in Nat /\ failed' = FailedBefore + 1 /\ excused' = excused
    BY DEF PairWrong, PairingInv
  <1>3. FailedBefore \in Nat /\ FailedBefore < MaxFailed /\ AtMost(FailedBefore)
    BY CountBefore DEF PairWrong
  <1>4. wrong' \in [Ages -> Nat] /\ wrong' = [wrong EXCEPT ![0] = @ + 1]
    BY <1>1 DEF PairWrong, PairingInv, Ages
  <1>5. \A n \in 1 .. LockTime : UpTo(wrong')[n] = UpTo(wrong)[n] + 1
    BY <1>4, CountedNow DEF PairingInv
  <1>6. ASSUME NEW n \in 0 .. LockTime
        PROVE  UpTo(wrong')[n] <= failed' + UpTo(excused)[n]
    <2>1. UpTo(wrong)[n] \in Nat /\ UpTo(excused)[n] \in Nat
      BY SumsNatural
    <2>2. CASE n = 0
      <3>1. UpTo(wrong')[0] = 0
        BY <1>4, SumsAdd
      <3> QED BY <1>2, <1>3, <2>1, <2>2, <3>1
    <2>3. CASE n # 0
      <3>1. n \in 1 .. LockTime /\ UpTo(wrong)[n] <= FailedBefore + UpTo(excused)[n]
        BY <1>1, <1>3, <2>3 DEF AtMost
      <3>2. UpTo(wrong')[n] = UpTo(wrong)[n] + 1
        BY <1>5, <3>1
      <3> QED BY <1>2, <1>3, <2>1, <3>1, <3>2
    <2> QED BY <2>2, <2>3
  <1>7. failed' \in Nat /\ failed' <= MaxFailed
    BY <1>1, <1>2, <1>3
  <1>8. AtMost(failed)'
    BY <1>2, <1>6 DEF AtMost
  <1>9. CASE failed' >= MaxFailed
    <2>1. lockedUntil' = now + LockTime /\ failed' = MaxFailed
      BY <1>1, <1>7, <1>9 DEF PairWrong
    <2>2. \A a \in Ages : ~(a < now' + LockTime - lockedUntil')
      BY <1>1, <1>2, <2>1 DEF Ages
    <2>3. AtMost(MaxFailed)'
      BY <1>8, <2>1 DEF AtMost
    <2> QED BY <1>1, <1>2, <1>4, <1>7, <2>1, <2>2, <2>3 DEF PairingInv
  <1>10. CASE ~(failed' >= MaxFailed)
    <2>1. lockedUntil' = 0
      BY <1>10 DEF PairWrong
    <2> QED BY <1>1, <1>2, <1>4, <1>7, <1>8, <1>10, <2>1 DEF PairingInv
  <1> QED BY <1>9, <1>10

\* A right code clears the count, and excuses as many as it may have said.
LEMMA RightCodeExcuses ==
  ASSUME PairingInv, NEW r \in Requests, PairRight(r)
  PROVE  PairingInv'
  <1>1. LockTime \in Nat \ {0} /\ MaxFailed \in Nat \ {0}
    BY WebAssumption
  <1>2. now' = now /\ failed' = 0 /\ lockedUntil' = 0 /\ wrong' = wrong
    BY DEF PairRight
  <1>3. FailedBefore \in Nat /\ FailedBefore < MaxFailed /\ AtMost(FailedBefore)
    BY CountBefore DEF PairRight
  <1> DEFINE d == MaxFailed - 1
  <1>4. d \in Nat /\ FailedBefore <= d
    BY <1>1, <1>3
  <1>5. excused' = [excused EXCEPT ![0] = @ + d]
    <2>1. excused[0] + MaxFailed - 1 = excused[0] + d
      BY <1>1 DEF PairingInv, Ages
    <2> QED BY <2>1 DEF PairRight
  <1> HIDE DEF d
  <1>6. excused' \in [Ages -> Nat]
    BY <1>1, <1>4, <1>5 DEF PairingInv, Ages
  <1>7. \A n \in 1 .. LockTime : UpTo(excused')[n] = UpTo(excused)[n] + d
    BY <1>4, <1>5, <1>6, CountedNow DEF PairingInv
  <1>8. ASSUME NEW n \in 0 .. LockTime
        PROVE  UpTo(wrong)[n] <= 0 + UpTo(excused')[n]
    <2>1. UpTo(wrong)[n] \in Nat /\ UpTo(excused)[n] \in Nat /\ UpTo(excused')[n] \in Nat
      BY <1>6, SumsNatural, SumsAdd
    <2>2. CASE n = 0
      BY <2>1, <2>2, SumsNatural
    <2>3. CASE n # 0
      <3>1. n \in 1 .. LockTime /\ UpTo(wrong)[n] <= FailedBefore + UpTo(excused)[n]
        BY <1>1, <1>3, <2>3 DEF AtMost
      <3>2. UpTo(excused')[n] = UpTo(excused)[n] + d
        BY <1>7, <3>1
      <3> QED BY <1>3, <1>4, <2>1, <3>1, <3>2
    <2> QED BY <2>2, <2>3
  <1>9. AtMost(failed)'
    BY <1>2, <1>8 DEF AtMost
  <1> QED BY <1>1, <1>2, <1>6, <1>9 DEF PairingInv

LEMMA TickCounts ==
  ASSUME PairingInv, Tick
  PROVE  PairingInv'
  <1>1. LockTime \in Nat \ {0} /\ MaxFailed \in Nat \ {0}
    BY WebAssumption
  <1>2. /\ now' = now + 1 /\ failed' = failed /\ lockedUntil' = lockedUntil
        /\ wrong' = Older(wrong) /\ excused' = Older(excused)
    BY DEF Tick
  <1>3. wrong' \in [Ages -> Nat] /\ excused' \in [Ages -> Nat]
    BY <1>2, CountsAge DEF PairingInv
  <1>4. ASSUME NEW most \in Nat, AtMost(most)
        PROVE  \A n \in 0 .. LockTime : UpTo(wrong')[n] <= most + UpTo(excused')[n]
    <2> TAKE n \in 0 .. LockTime
    <2>1. CASE n = 0
      <3>1. UpTo(wrong')[0] = 0 /\ UpTo(excused')[0] = 0
        BY <1>3, SumsAdd
      <3> QED BY <1>4, <2>1, <3>1
    <2>2. CASE n # 0
      <3>1. n \in 1 .. LockTime
        BY <1>1, <2>2
      <3>2. /\ n - 1 \in 0 .. LockTime /\ UpTo(wrong')[n] = UpTo(wrong)[n - 1]
            /\ UpTo(excused')[n] = UpTo(excused)[n - 1]
        BY <1>2, <3>1, CountsAge DEF PairingInv
      <3> QED BY <1>4, <3>2 DEF AtMost
    <2> QED BY <2>1, <2>2
  <1>5. lockedUntil = 0 => AtMost(failed)'
    BY <1>2, <1>4 DEF PairingInv, AtMost
  <1>6. lockedUntil # 0 => AtMost(MaxFailed)'
    BY <1>1, <1>4 DEF PairingInv, AtMost
  <1>7. ASSUME lockedUntil # 0, NEW a \in Ages, a < now' + LockTime - lockedUntil'
        PROVE  wrong'[a] = 0
    <2>1. CASE a = 0
      BY <1>2, <2>1 DEF Older
    <2>2. CASE a # 0
      <3>1. a - 1 \in Ages /\ wrong'[a] = wrong[a - 1]
        BY <1>1, <1>2, <2>2 DEF Ages, Older
      <3>2. a \in Int /\ a - 1 < now + LockTime - lockedUntil
        BY <1>1, <1>2, <1>7 DEF Ages, PairingInv
      <3> QED BY <1>7, <3>1, <3>2 DEF PairingInv
    <2> QED BY <2>1, <2>2
  <1>8. now' \in Nat
    BY <1>2 DEF PairingInv
  <1> QED BY <1>2, <1>3, <1>5, <1>6, <1>7, <1>8 DEF PairingInv

LEMMA PairingStep == PairingInv /\ [WebNext]_webVars => PairingInv'
  <1> SUFFICES ASSUME PairingInv, [WebNext]_webVars PROVE PairingInv'
    OBVIOUS
  <1>1. CASE UNCHANGED <<now, pairing>>
    BY <1>1 DEF pairing, PairingInv, AtMost
  <1>2. ASSUME NEW r \in Requests, PairRight(r) PROVE PairingInv'
    BY <1>2, RightCodeExcuses
  <1>3. ASSUME NEW r \in Requests, Advance(r) PROVE PairingInv'
    <2>1. UNCHANGED <<now, pairing>>
      BY <1>3 DEF Advance, PruneDrop, Pair, PruneVisit, Browser, Begin, LockProfile, SelectProfile,
         CreateProfile, Edit, Store, Fail, Respond, Revoke, LogoutRemoves, LogoutCloses
    <2> QED BY <1>1, <2>1
  <1>4. ASSUME NEW r \in Requests, NEW t \in tokens,
               Drop(r) \/ LogoutArrives(r, t) \/ (\E k \in Kinds : Arrive(r, k, t))
        PROVE  PairingInv'
    BY <1>1, <1>4 DEF Drop, LogoutArrives, Arrive
  <1>5. ASSUME NEW r \in Requests, Drop(r) PROVE PairingInv'
    BY <1>1, <1>5 DEF Drop
  <1>6. CASE Reopen \/ Restart
    <2>1. /\ now' \in Nat /\ NoGuesses = wrong' /\ NoGuesses = excused'
          /\ failed' = 0 /\ lockedUntil' = 0
      BY <1>6 DEF Reopen, Restart, Start, ServerInit, PairingInv
    <2>2. (now \in Nat /\ NoGuesses = wrong /\ NoGuesses = excused /\ failed = 0 /\ lockedUntil = 0
             => PairingInv)'
      BY NoFailures, PTL
    <2> QED BY <2>1, <2>2 DEF NoGuesses
  <1>7. ASSUME NEW t \in tokens, Refresh(t) PROVE PairingInv'
    BY <1>1, <1>7 DEF Refresh
  <1>8. CASE TvReloads
    BY <1>1, <1>8 DEF TvReloads
  <1>9. CASE UNCHANGED webVars
    BY <1>1, <1>9 DEF webVars
  <1> QED BY <1>2, <1>3, <1>4, <1>5, <1>6, <1>7, <1>8, <1>9, WrongCodeCounts, TickCounts DEF WebNext

LEMMA PairingBounds == PairingInv => GuessesBounded
  <1> SUFFICES ASSUME PairingInv PROVE Guesses(wrong) <= MaxFailed + Guesses(excused)
    BY DEF GuessesBounded
  <1>1. LockTime \in 0 .. LockTime /\ MaxFailed \in Nat
    BY WebAssumption
  <1>2. UpTo(wrong)[LockTime] \in Nat /\ UpTo(excused)[LockTime] \in Nat
    BY <1>1, SumsNatural
  <1>3. UpTo(wrong)[LockTime] <= MaxFailed + UpTo(excused)[LockTime]
    BY <1>1, <1>2 DEF PairingInv, AtMost
  <1>4. Guesses(wrong) = UpTo(wrong)[LockTime] /\ Guesses(excused) = UpTo(excused)[LockTime]
    BY SumsAdd DEF PairingInv
  <1> QED BY <1>3, <1>4

\* Whatever pairs or is dropped meanwhile, and whenever the lock runs out: against the code
\* that a running server shows, no more than MaxFailed wrong ones are judged within a
\* LockTime, and MaxFailed - 1 more for each right one that came in it (the pair handler).
THEOREM GuessesStayBounded == WebSpec => []GuessesBounded
  <1>1. WebSpec => []PairingInv
    BY PairingInitially, PairingStep, PTL DEF WebSpec
  <1> QED BY <1>1, PairingBounds, PTL

=============================================================================
