---------------------------- MODULE WebSettings ----------------------------
(***************************************************************************)
(* The LAN settings server of the TV and iOS clients                        *)
(* (crates/madari-tv/src/web.rs): pairing with the code on the screen, the  *)
(* tokens of paired browsers and their revocation, and the requests of a    *)
(* browser, which run one after another on the state the server caches for  *)
(* it.  Handlers are async functions: a step here is what happens between   *)
(* two awaits, and a request is dropped at an await when its client hangs   *)
(* up.  The pairing lock is held across awaits, `holder` says by whom.      *)
(*                                                                         *)
(* Instant and SystemTime are one coarse clock.  What an edit writes to a   *)
(* profile is module Profiles' and CoreState's; here it is only noted.      *)
(***************************************************************************)
EXTENDS Integers, FiniteSets

CONSTANTS
  Browsers,     \* the ids of paired browsers (Claims.sub)
  Objects,      \* bound: Browser values in memory
  Requests,     \* bound: requests in progress
  Profiles,
  Kinds,        \* the requests made, of the SessionKinds
  None,
  MaxBrowsers,  \* MAX_BROWSERS
  MaxFailed,    \* wrong codes before pairing is locked: 5
  LockTime,     \* for how long: 60 seconds
  Lifetime,     \* TOKEN_LIFETIME
  MaxTime,      \* bound on the clock
  MaxExcused    \* bound: wrong codes that right ones excuse within any LockTime

SessionKinds == {"overview", "select", "lock", "create", "edit"}

\* A request with a token; see request below.
SessionRequest ==
  [kind : SessionKinds, sub : Browsers, exp : Int, at : {"arrived", "queued", "running", "stored"},
   object : Objects \union {None}, left : {{}}, lru : {None}]

ASSUME WebAssumption ==
  /\ Kinds \subseteq SessionKinds
  /\ {MaxBrowsers, MaxFailed, LockTime, Lifetime} \subseteq Nat \ {0}
  /\ {MaxTime, MaxExcused} \subseteq Nat
  /\ None \notin Browsers \union Objects \union Requests \union Profiles \union SessionRequest

VARIABLES
  now,
  failed, lockedUntil,   \* Pairing: wrong codes, and the lock's end or 0
  cached,                \* Pairing.browsers: each browser's Object, or None
  selected, used,        \* Browser.selected, Browser.last_used of each Object
  holder,                \* the request that holds the pairing lock, or None
  request,               \* each request: [kind, sub, exp, at, object, left, lru], or None
  tokens,                \* issued tokens [sub, exp] that the signing key verifies
  revoked, revokedFile,  \* Server.revoked and web.revoked: until when, or 0
  news,                  \* Server.revision differs from the one the TV saw
  unseen,                \* the profiles were edited since the TV read them
  signedOut,             \* history: the expiry each browser last signed out with
  spoiled,               \* history: the last write of web.revoked was not whole
  forgotten,             \* history: browsers that signed out before a server read it so
  wrong,                 \* history: wrong codes since the server drew its own, by age
  excused,               \* history: MaxFailed - 1 for each right one, by age
  silent                 \* history: an edit's request was dropped before it announced it

pairing == <<failed, lockedUntil, wrong, excused>>
memory == <<cached, selected, used>>
signOuts == <<revoked, revokedFile, signedOut, spoiled, forgotten>>
credentials == <<tokens, signOuts>>
versions == <<news, unseen, silent>>
webVars == <<now, pairing, memory, holder, request, credentials, versions>>

Ages == 0 .. LockTime - 1
NoGuesses == [a \in Ages |-> 0]
Older(counts) == [a \in Ages |-> IF a = 0 THEN 0 ELSE counts[a - 1]]

Guesses(counts) ==
  LET upTo[n \in 0 .. LockTime] == IF n = 0 THEN 0 ELSE upTo[n - 1] + counts[n - 1]
  IN upTo[LockTime]

\* A server just started on what is on disk.
ServerInit ==
  /\ failed' = 0 /\ lockedUntil' = 0 /\ wrong' = NoGuesses /\ excused' = NoGuesses
  /\ cached' = [b \in Browsers |-> None]
  /\ selected' = [o \in Objects |-> None] /\ used' = [o \in Objects |-> 0]

WebInit ==
  /\ now = 0
  /\ failed = 0 /\ lockedUntil = 0 /\ wrong = NoGuesses /\ excused = NoGuesses
  /\ cached = [b \in Browsers |-> None]
  /\ selected = [o \in Objects |-> None] /\ used = [o \in Objects |-> 0]
  /\ holder = None
  /\ request = [r \in Requests |-> None]
  /\ tokens = {}
  /\ revoked = [b \in Browsers |-> 0] /\ revokedFile = revoked /\ signedOut = revoked
  /\ spoiled = FALSE /\ forgotten = {}
  /\ news = FALSE /\ unseen = FALSE /\ silent = FALSE

At(r, place) == request[r] # None /\ request[r].at = place

To(r, place) == request' = [request EXCEPT ![r].at = place]

Ended(r) == request' = [request EXCEPT ![r] = None]

Waiting(r, kind, sub, exp, place) ==
  request' = [request EXCEPT ![r] = [kind |-> kind, sub |-> sub, exp |-> exp,
    at |-> place, object |-> None, left |-> {}, lru |-> None]]

\* The request that holds the lock of a Browser.
Held(o) == \E r \in Requests :
  request[r] # None /\ request[r].object = o /\ request[r].at \in {"running", "stored"}

Cached == {b \in Browsers : cached[b] # None}

Live(o) == \/ \E b \in Browsers : cached[b] = o
           \/ \E r \in Requests : request[r] # None /\ request[r].object = o

\* The Browsers as they are given; one that nothing refers to any more is freed.
Kept(sel, use) ==
  /\ selected' = [o \in Objects |-> IF Live(o)' THEN sel[o] ELSE None]
  /\ used' = [o \in Objects |-> IF Live(o)' THEN use[o] ELSE 0]

Unused == {o \in Objects : ~Live(o)}

\* A new Browser in the cache, with no profile selected.
Insert(b, o) ==
  /\ cached' = [cached EXCEPT ![b] = o]
  /\ selected' = [selected EXCEPT ![o] = None]
  /\ used' = [used EXCEPT ![o] = now]

-----------------------------------------------------------------------------
(* Tokens *)

Issued(b) == [sub |-> b, exp |-> now + Lifetime]

\* The signature and the expiry hold.
Verified(t) == t \in tokens /\ t.exp > now

Claims(t) == Verified(t) /\ revoked[t.sub] <= now

Refresh(t) ==
  /\ Claims(t)
  /\ tokens' = tokens \union {Issued(t.sub)}
  /\ UNCHANGED <<now, pairing, memory, holder, request, signOuts, versions>>

Alive(list) == [b \in Browsers |-> IF list[b] > now THEN list[b] ELSE 0]

\* The file is truncated and written, and nobody notices an error: it may not be opened
\* at all, or hold some of the lines only. The number in a line that was cut in two is
\* of the past, so that it is dropped with those that expired.
Revoke(r) ==
  LET b == request[r].sub
      list == [Alive(revoked) EXCEPT ![b] = request[r].exp]
  IN /\ At(r, "revoking")
     /\ revoked' = list
     /\ \/ revokedFile' = list /\ spoiled' = FALSE
        \/ /\ \E kept \in SUBSET Browsers :
                revokedFile' = [c \in Browsers |-> IF c \in kept THEN list[c] ELSE 0]
           /\ spoiled' = TRUE
        \/ UNCHANGED revokedFile /\ spoiled' = TRUE
     /\ signedOut' = [signedOut EXCEPT ![b] = request[r].exp]
     /\ forgotten' = forgotten \ {b}
     /\ To(r, "leaving")
     /\ UNCHANGED <<now, pairing, memory, holder, tokens, versions>>

\* Fault: the entries that expired are kept, and the others dropped.
RevokedBrowsersPast == [b \in Browsers |-> IF revokedFile[b] <= now THEN revokedFile[b] ELSE 0]

RevokedBrowsers == Alive(revokedFile)

-----------------------------------------------------------------------------
(* Pairing *)

PairingLocked == lockedUntil > now

\* Fault: a lock that expired leaves the count, and one that never was clears it.
FailedBeforeSwapped == IF lockedUntil = 0 THEN 0 ELSE failed

\* The count of wrong codes, which an expired lock clears.
FailedBefore == IF lockedUntil = 0 THEN failed ELSE 0

PairWrong ==
  /\ holder = None /\ ~PairingLocked
  /\ failed' = FailedBefore + 1
  /\ lockedUntil' = IF failed' >= MaxFailed THEN now + LockTime ELSE 0
  /\ wrong' = [wrong EXCEPT ![0] = @ + 1] /\ UNCHANGED excused
  /\ UNCHANGED <<now, memory, holder, request, credentials, versions>>

\* The right code; the least recently used browsers must make room.
PairRight(r) ==
  /\ request[r] = None /\ holder = None /\ ~PairingLocked
  /\ \E b \in Browsers \ Cached : \A t \in tokens : t.sub # b
  /\ failed' = 0 /\ lockedUntil' = 0
  /\ excused' = [excused EXCEPT ![0] = @ + MaxFailed - 1] /\ UNCHANGED wrong
  /\ Guesses(excused') <= MaxExcused
  /\ holder' = r
  /\ request' = [request EXCEPT ![r] = [kind |-> "pair", sub |-> None, exp |-> 0,
       at |-> "pairing", object |-> None, left |-> Cached, lru |-> None]]
  /\ UNCHANGED <<now, memory, credentials, versions>>

Full == Cardinality(Cached) >= MaxBrowsers

\* prune reads the last use of one browser after another, with its lock.
PruneVisit(r, b) ==
  LET q == request[r]
  IN /\ At(r, "pairing") /\ Full /\ b \in q.left
     /\ ~Held(cached[b])
     /\ request' = [request EXCEPT
          ![r].left = @ \ {b},
          ![r].lru = IF q.lru = None \/ used[cached[b]] < q.lru.used
                     THEN [sub |-> b, used |-> used[cached[b]]] ELSE @]
     /\ UNCHANGED <<now, pairing, memory, holder, credentials, versions>>

PruneDrop(r) ==
  LET q == request[r]
  IN /\ At(r, "pairing") /\ Full /\ q.left = {} /\ q.lru # None
     /\ cached' = [cached EXCEPT ![q.lru.sub] = None]
     /\ request' = [request EXCEPT ![r].left = Cached \ {q.lru.sub}, ![r].lru = None]
     /\ Kept(selected, used)
     /\ UNCHANGED <<now, pairing, holder, credentials, versions>>

\* The database is opened and the browser gets its token, or an error.
Pair(r) ==
  /\ At(r, "pairing") /\ ~Full
  /\ holder' = None
  /\ Ended(r)
  /\ \/ \E b \in Browsers \ Cached, o \in Unused :
          /\ \A t \in tokens : t.sub # b
          /\ tokens' = tokens \union {Issued(b)}
          /\ Insert(b, o)
     \/ UNCHANGED <<tokens, memory>>
  /\ UNCHANGED <<now, pairing, signOuts, versions>>

-----------------------------------------------------------------------------
(* Requests of a paired browser *)

\* The session! macro, up to the pairing lock: guard, and the claims.
Arrive(r, kind, t) ==
  /\ request[r] = None
  /\ Claims(t)
  /\ Waiting(r, kind, t.sub, t.exp, "arrived")
  /\ UNCHANGED <<now, pairing, memory, holder, credentials, versions>>

\* The cached browser, or one rebuilt from its token alone.
Browser(r) ==
  LET b == request[r].sub
  IN /\ At(r, "arrived") /\ holder = None
     /\ \/ /\ cached[b] # None
           /\ request' = [request EXCEPT ![r].object = cached[b], ![r].at = "queued"]
           /\ UNCHANGED memory
        \/ /\ cached[b] = None
           /\ \E o \in Unused :
                /\ Insert(b, o)
                /\ request' = [request EXCEPT ![r].object = o, ![r].at = "queued"]
        \/ \* the database cannot be opened
           cached[b] = None /\ Ended(r) /\ UNCHANGED memory
     /\ UNCHANGED <<now, pairing, holder, credentials, versions>>

\* The session! macro, from the browser's lock on.
Begin(r) ==
  /\ At(r, "queued") /\ ~Held(request[r].object)
  /\ used' = [used EXCEPT ![request[r].object] = now]
  /\ To(r, "running")
  /\ UNCHANGED <<now, pairing, cached, selected, holder, credentials, versions>>

Running(r, kinds) == At(r, "running") /\ request[r].kind \in kinds

SelectProfile(r, p) ==
  /\ Running(r, {"select"})
  /\ selected' = [selected EXCEPT ![request[r].object] = p]
  /\ To(r, "stored")
  /\ UNCHANGED <<now, pairing, cached, used, holder, credentials, versions>>

LockProfile(r) ==
  /\ Running(r, {"lock"})
  /\ selected' = [selected EXCEPT ![request[r].object] = None]
  /\ To(r, "stored")
  /\ UNCHANGED <<now, pairing, cached, used, holder, credentials, versions>>

Store(r) ==
  /\ unseen' = TRUE
  /\ To(r, "stored")
  /\ UNCHANGED <<now, pairing, memory, holder, credentials, news, silent>>

\* create_with_avatar checks the session, if there is one, itself.
CreateProfile(r) == Running(r, {"create"}) /\ Store(r)

\* core_for: preferences, addons, sharing and the profile's name need a selected profile.
Edit(r) == Running(r, {"edit"}) /\ selected[request[r].object] # None /\ Store(r)

\* overview; a wrong PIN, no selected profile, or an error of the core.
Fail(r) ==
  /\ Running(r, Kinds \ {"lock"})
  /\ Ended(r)
  /\ UNCHANGED <<now, pairing, cached, holder, credentials, versions>>
  /\ Kept(selected, used)

\* Fault: creating a profile answers as overview does, without a bump.
BumpsKnown(r) == request[r].kind # "create"

Bumps(r) == TRUE

\* respond(bump): a mutation bumps the revision, and the overview is the answer.
Respond(r) ==
  /\ At(r, "stored")
  /\ news' = (news \/ Bumps(r))
  /\ Ended(r)
  /\ UNCHANGED <<now, pairing, cached, holder, credentials, unseen, silent>>
  /\ Kept(selected, used)

LogoutArrives(r, t) ==
  /\ request[r] = None
  /\ Claims(t)
  /\ Waiting(r, "logout", t.sub, t.exp, "revoking")
  /\ UNCHANGED <<now, pairing, memory, holder, credentials, versions>>

\* logout takes the browser out of the cache, without keeping the pairing lock,
LogoutRemoves(r) ==
  LET b == request[r].sub
  IN /\ At(r, "leaving") /\ holder = None
     /\ cached' = [cached EXCEPT ![b] = None]
     /\ IF cached[b] = None THEN Ended(r)
        ELSE request' = [request EXCEPT ![r].object = cached[b], ![r].at = "closing"]
     /\ UNCHANGED <<now, pairing, selected, used, holder, credentials, versions>>

\* and waits for its requests before it locks the profile's settings.
LogoutCloses(r) ==
  /\ At(r, "closing") /\ ~Held(request[r].object)
  /\ Ended(r)
  /\ UNCHANGED <<now, pairing, cached, holder, credentials, versions>>
  /\ Kept([selected EXCEPT ![request[r].object] = None], used)

\* The client hangs up: the handler's future is dropped at the await it is at.
Drop(r) ==
  /\ request[r] # None /\ ~At(r, "revoking")
  /\ silent' = (silent \/ (At(r, "stored") /\ request[r].kind \in {"create", "edit"}))
  /\ holder' = IF holder = r THEN None ELSE holder
  /\ Ended(r)
  /\ UNCHANGED <<now, pairing, cached, credentials, news, unseen>>
  /\ Kept(selected, used)

-----------------------------------------------------------------------------
(* The server and the TV *)

\* The tokens that verify under the signing key of a new server: those issued so
\* far, or none when the key could not be written to web.key.
SecretBytes == {tokens, {}}

\* start: the key, if it is there, and the list of revoked browsers are read again.
Start ==
  /\ ServerInit
  /\ revoked' = RevokedBrowsers
  /\ tokens' \in SecretBytes
  /\ holder' = None
  /\ request' = [r \in Requests |-> None]
  /\ forgotten' = forgotten \union (IF spoiled THEN {b \in Browsers : signedOut[b] > now} ELSE {})
  /\ UNCHANGED <<now, revokedFile, signedOut, spoiled>>

\* web_stop, which lets requests finish, and web_start.
Reopen ==
  /\ \A r \in Requests : request[r] = None
  /\ Start
  /\ UNCHANGED versions

\* The application ends at any moment, and starts again.
Restart ==
  /\ Start
  /\ news' = FALSE /\ unseen' = FALSE /\ silent' = FALSE

\* The TV's poll sees another revision, and reads the profiles after it.
TvReloads ==
  /\ news
  /\ news' = FALSE /\ unseen' = FALSE /\ silent' = FALSE
  /\ UNCHANGED <<now, pairing, memory, holder, request, credentials>>

\* Nobody keeps an expired token.
Tick ==
  /\ now < MaxTime
  /\ now' = now + 1
  /\ wrong' = Older(wrong) /\ excused' = Older(excused)
  /\ tokens' = {t \in tokens : t.exp > now'}
  /\ UNCHANGED <<failed, lockedUntil, memory, holder, request, signOuts, versions>>

Advance(r) ==
  \/ PruneDrop(r) \/ Pair(r) \/ \E b \in Browsers : PruneVisit(r, b)
  \/ Browser(r) \/ Begin(r)
  \/ LockProfile(r) \/ \E p \in Profiles : SelectProfile(r, p)
  \/ CreateProfile(r) \/ Edit(r) \/ Fail(r) \/ Respond(r)
  \/ Revoke(r) \/ LogoutRemoves(r) \/ LogoutCloses(r)

WebNext ==
  \/ PairWrong
  \/ \E t \in tokens : Refresh(t)
  \/ \E r \in Requests :
       \/ PairRight(r) \/ Advance(r) \/ Drop(r)
       \/ \E t \in tokens : LogoutArrives(r, t) \/ \E k \in Kinds : Arrive(r, k, t)
  \/ Reopen \/ Restart \/ TvReloads \/ Tick

WebSpec == WebInit /\ [][WebNext]_webVars

-----------------------------------------------------------------------------
(* Properties *)

Admitted(r) == request[r] = None /\ request'[r] # None /\ request'[r].sub # None

\* A browser that signed out has no request admitted before the token it signed out with
\* expires, whatever restarts or is revoked meanwhile; unless a server was started on a
\* web.revoked whose last write had failed or been cut short (revoke ignores the error).
SignedOutStaysOut ==
  [][\A r \in DOMAIN request : Admitted(r) =>
       \/ signedOut[request'[r].sub] <= now
       \/ request'[r].sub \in forgotten]_webVars

\* Of the codes tried against the one on the screen within any LockTime, which a server
\* draws when it starts, at most MaxFailed are wrong, and MaxFailed - 1 more for every
\* right one among them, whoever tried which (the pair handler counts and locks for all).
GuessesBounded ==
  Guesses(wrong) <= MaxFailed + Guesses(excused)

\* A TV that saw the latest revision shows every edit whose request has ended,
\* unless the client hung up between the edit and its announcement.
NoEditMissed ==
  unseen => news \/ silent \/ \E r \in DOMAIN request : At(r, "stored")

=============================================================================
