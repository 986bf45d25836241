------------------------------- MODULE Media -------------------------------
(***************************************************************************)
(* Torrents and the tickets that let a player read their files: the engine  *)
(* (crates/madari-media/src/lib.rs) with the companion server's AppState    *)
(* (apps/server/src/lib.rs), or, when embedded, with the InternalMedia of   *)
(* the Linux, TV and iOS applications (madari-native/src/internal_media.rs).*)
(*                                                                         *)
(* A call takes a step from one await to the next, and may be dropped or    *)
(* time out there.  librqbit (vendor/librqbit) adds, forgets, starts and    *)
(* pauses torrents in one step each, and may give one up with an error.  A  *)
(* ticket may expire at any moment.                                         *)
(***************************************************************************)
EXTENDS Integers, FiniteSets

CONSTANTS
  Torrents, Files,
  Tokens,        \* bound: tickets at a time
  MediaCalls,    \* bound: calls and streams at a time
  MaxTorrents,   \* torrents the engine keeps: 64
  MaxAdditions,  \* additions at a time: 2
  MaxTickets,    \* 256
  MaxStreams,    \* media_slots: 32
  MaxTranscodes, \* Ffmpeg's slots
  NoTorrent, NoTicket, NoCall

\* librqbit's flag and its Error state, and the selected files.
TorrentRecord == [paused : BOOLEAN, failed : BOOLEAN, files : SUBSET Files]

\* The engine reads a hash in any case, tickets keep and compare what the caller wrote.
Spellings == {"engine", "other"}

TicketRecord == [torrent : Torrents, spelt : Spellings, file : Files]

MediaOps == {"add", "ticket", "play", "remove", "stream", "transcode"}

MediaPlaces ==
  {"looking", "initializing", "pause", "keep", "kept", "insert", "first", "second",
   "opening", "streaming", "starting", "transcoding"}

CallRecord ==
  [op : MediaOps, torrent : Torrents, spelt : Spellings, file : Files \cup {0}, at : MediaPlaces,
   files : SUBSET Files, removed : {"no", "forgotten", "yes"}]

ASSUME AbsenceAssumption ==
  NoTorrent \notin TorrentRecord /\ NoTicket \notin TicketRecord /\ NoCall \notin CallRecord

VARIABLES
  embedded,   \* InternalMedia rather than AppState: never changes
  torrents,   \* the engine's: [paused, failed, files], or NoTorrent
  tickets,    \* each token's [torrent, spelt, file], or NoTicket
  call,       \* each call: a CallRecord, or NoCall; `files` are those keep_file read,
              \* `removed` (history) how far a removal went meanwhile
  disturbed,  \* history: <<torrent, file>> pairs another call took from the fetched ones
  outlived    \* history: tokens that missed the removal of their torrent

mediaVars == <<embedded, torrents, tickets, call, disturbed, outlived>>

MediaInit ==
  /\ embedded \in BOOLEAN
  /\ torrents = [t \in Torrents |-> NoTorrent]
  /\ tickets = [k \in Tokens |-> NoTicket]
  /\ call = [c \in MediaCalls |-> NoCall]
  /\ disturbed = {} /\ outlived = {}

Managed == {t \in Torrents : torrents[t] # NoTorrent}

Active(ops) == {c \in MediaCalls : call[c] # NoCall /\ call[c].op \in ops}

Is(c, op, at) == call[c] # NoCall /\ call[c].op = op /\ call[c].at = at

BeginsAs(c, op, t, spelt, f, at) ==
  /\ call[c] = NoCall
  /\ call' = [call EXCEPT ![c] =
       [op |-> op, torrent |-> t, spelt |-> spelt, file |-> f, at |-> at, files |-> {},
        removed |-> "no"]]

Begins(c, op, t, f, at) == BeginsAs(c, op, t, "engine", f, at)

\* The applications pass on the id they have from the engine.
Written == IF embedded THEN {"engine"} ELSE Spellings

Goes(c, at) == call' = [call EXCEPT ![c].at = at]

Returns(c) == call' = [call EXCEPT ![c] = NoCall]

-----------------------------------------------------------------------------
(* Adding torrents *)

\* `additions` is held until the torrent is initialized.
PermitFree == Cardinality(Active({"add"})) < MaxAdditions

\* A known magnet only waits for its storage, even when the engine is full.
Add(c, t) ==
  /\ PermitFree
  /\ IF t \in Managed THEN Begins(c, "add", t, 0, "initializing")
     ELSE Cardinality(Managed) < MaxTorrents /\ Begins(c, "add", t, 0, "looking")
  /\ UNCHANGED <<torrents, tickets, disturbed, outlived>>

\* librqbit found the metadata: nothing of the torrent is fetched yet.
Added(c) ==
  LET t == call[c].torrent
  IN /\ Is(c, "add", "looking")
     /\ torrents' = IF t \in Managed THEN torrents
                    ELSE [torrents EXCEPT ![t] = [paused |-> FALSE, failed |-> FALSE, files |-> {}]]
     /\ Goes(c, "initializing")
     /\ UNCHANGED <<tickets, disturbed, outlived>>

\* Initialized; or an error (of a torrent that failed, too), a timeout, the client
\* gone: what was added stays.
AddReturns(c) ==
  /\ c \in Active({"add"})
  /\ Returns(c)
  /\ UNCHANGED <<torrents, tickets, disturbed, outlived>>

-----------------------------------------------------------------------------
(* What a torrent fetches *)

Live(t) == t \in Managed /\ ~torrents[t].paused /\ ~torrents[t].failed

\* A torrent in its Error state is not paused, which librqbit refuses; one that is
\* started is initialized again.
SetPaused(t, paused) ==
  /\ IF paused THEN Live(t) ELSE t \in Managed /\ torrents[t].paused
  /\ torrents' = [torrents EXCEPT ![t] =
       [paused |-> paused, failed |-> FALSE, files |-> torrents[t].files]]
  /\ disturbed' = disturbed \union (IF paused THEN {t} \X Files ELSE {})
  /\ UNCHANGED <<tickets, call, outlived>>

\* librqbit stops a torrent at a fatal error: a full disk, a check that fails.
EngineFails(t) ==
  /\ t \in Managed /\ ~torrents[t].failed
  /\ torrents' = [torrents EXCEPT ![t] =
       [paused |-> torrents[t].paused, failed |-> TRUE, files |-> torrents[t].files]]
  /\ UNCHANGED <<tickets, call, disturbed, outlived>>

\* keep_file reads what is fetched,
KeepReads(c) ==
  /\ c \in Active({"ticket", "play"}) /\ call[c].at = "keep"
  /\ IF call[c].torrent \in Managed
     THEN call' = [call EXCEPT ![c].at = "kept", ![c].files = torrents[call[c].torrent].files]
     ELSE Returns(c)
  /\ UNCHANGED <<torrents, tickets, disturbed, outlived>>

\* adds the file, and starts a paused torrent: one that failed is left as it is.
KeepFile(c) ==
  LET t == call[c].torrent
      f == call[c].file
  IN /\ c \in Active({"ticket", "play"}) /\ call[c].at = "kept"
     /\ IF t \in Managed
        THEN /\ torrents' = [torrents EXCEPT ![t] =
                  [paused |-> FALSE, failed |-> torrents[t].failed /\ ~torrents[t].paused,
                   files |-> call[c].files \union {f}]]
             /\ disturbed' = (disturbed \ {<<t, f>>})
                  \union {<<t, g>> : g \in torrents[t].files \ (call[c].files \union {f})}
             /\ IF call[c].op = "ticket" THEN Goes(c, "insert") ELSE Returns(c)
        ELSE Returns(c) /\ UNCHANGED <<torrents, disturbed>>
     /\ UNCHANGED <<tickets, outlived>>

\* prioritize_playback pauses the live torrents one after another,
Prioritize(c, t, f) ==
  /\ embedded
  /\ Begins(c, "play", t, f, "pause")
  /\ UNCHANGED <<torrents, tickets, disturbed, outlived>>

PauseOther(c, o) ==
  /\ Is(c, "play", "pause")
  /\ o # call[c].torrent /\ Live(o)
  /\ torrents' = [torrents EXCEPT ![o] =
       [paused |-> TRUE, failed |-> FALSE, files |-> torrents[o].files]]
  /\ disturbed' = disturbed \union ({o} \X Files)
  /\ UNCHANGED <<tickets, call, outlived>>

\* then fetches the one file, whatever other calls had selected, and keeps it.
SelectOnly(c) ==
  LET t == call[c].torrent
  IN /\ Is(c, "play", "pause")
     /\ IF t \in Managed
        THEN /\ torrents' = [torrents EXCEPT ![t] = [paused |-> torrents[t].paused,
                  failed |-> torrents[t].failed, files |-> {call[c].file}]]
             /\ disturbed' = disturbed \union {<<t, g>> : g \in torrents[t].files \ {call[c].file}}
             /\ Goes(c, "keep")
        ELSE Returns(c) /\ UNCHANGED <<torrents, disturbed>>
     /\ UNCHANGED <<tickets, outlived>>

-----------------------------------------------------------------------------
(* Tickets *)

\* details: the torrent is known and has the file.
IssueTicket(c, t, f) ==
  /\ t \in Managed
  /\ \E spelt \in Written :
       BeginsAs(c, "ticket", t, spelt, f, IF embedded THEN "keep" ELSE "insert")
  /\ UNCHANGED <<torrents, tickets, disturbed, outlived>>

\* The ticket is inserted, or refused when there are too many.
InsertTicket(c) ==
  /\ Is(c, "ticket", "insert")
  /\ \/ \E k \in Tokens :
          /\ tickets[k] = NoTicket
          /\ Cardinality({j \in Tokens : tickets[j] # NoTicket}) < MaxTickets
          /\ tickets' = [tickets EXCEPT ![k] =
               [torrent |-> call[c].torrent, spelt |-> call[c].spelt, file |-> call[c].file]]
          /\ outlived' = IF call[c].removed = "yes" THEN outlived \union {k} ELSE outlived
     \/ /\ Cardinality({j \in Tokens : tickets[j] # NoTicket}) >= MaxTickets
        /\ UNCHANGED <<tickets, outlived>>
  /\ Returns(c)
  /\ UNCHANGED <<torrents, disturbed>>

\* revoke; or it expired, and is dropped when the table is used next.
RevokeTicket(k) ==
  /\ tickets[k] # NoTicket
  /\ tickets' = [tickets EXCEPT ![k] = NoTicket]
  /\ outlived' = outlived \ {k}
  /\ UNCHANGED <<torrents, call, disturbed>>

RemoveTorrent(c, t) ==
  /\ \E spelt \in Written : BeginsAs(c, "remove", t, spelt, 0, "first")
  /\ UNCHANGED <<torrents, tickets, disturbed, outlived>>

\* Fault: the tickets are dropped before the torrent is forgotten.
OrderTickets == [first |-> "tickets", second |-> "forget"]

\* remove: the torrent is forgotten, then its tickets are dropped.
Order == [first |-> "forget", second |-> "tickets"]

\* How far a ticket that is being issued has seen its torrent's removal go.
Seeing(t, from, to) ==
  [d \in MediaCalls |->
     IF call[d] # NoCall /\ call[d].op = "ticket" /\ call[d].torrent = t
        /\ call[d].removed = from
     THEN [call[d] EXCEPT !.removed = to] ELSE call[d]]

Forget(c, next) ==
  LET t == call[c].torrent
  IN /\ c \in Active({"remove"}) /\ Order[call[c].at] = "forget"
     /\ torrents' = [torrents EXCEPT ![t] = NoTorrent]
     /\ disturbed' = disturbed \union ({t} \X Files)
     /\ call' = [Seeing(t, "no", "forgotten") EXCEPT ![c] = next]
     /\ UNCHANGED <<tickets, outlived>>

TicketsOf(t) == {k \in Tokens : tickets[k] # NoTicket /\ tickets[k].torrent = t}

\* Those whose id is written as the removal's.
DropTickets(c, next) ==
  LET t == call[c].torrent
      gone == {k \in TicketsOf(t) : tickets[k].spelt = call[c].spelt}
  IN /\ c \in Active({"remove"}) /\ Order[call[c].at] = "tickets"
     /\ tickets' = [k \in Tokens |-> IF k \in gone THEN NoTicket ELSE tickets[k]]
     /\ outlived' = (outlived \union TicketsOf(t)) \ gone
     /\ call' = [Seeing(t, "forgotten", "yes") EXCEPT ![c] = next]
     /\ UNCHANGED <<torrents, disturbed>>

RemoveSteps(c) ==
  \/ Is(c, "remove", "first")
     /\ LET next == [call[c] EXCEPT !.at = "second"] IN Forget(c, next) \/ DropTickets(c, next)
  \/ Is(c, "remove", "second") /\ (Forget(c, NoCall) \/ DropTickets(c, NoCall))

-----------------------------------------------------------------------------
(* Streams *)

SlotFree == Cardinality({c \in MediaCalls : call[c] # NoCall
  /\ call[c].at \in {"opening", "streaming", "transcoding"}}) < MaxStreams

\* original: the ticket is read, a slot taken, and the engine asked for the file.
Original(c, k) ==
  /\ tickets[k] # NoTicket /\ (embedded \/ SlotFree)
  /\ Begins(c, "stream", tickets[k].torrent, tickets[k].file, "opening")
  /\ UNCHANGED <<torrents, tickets, disturbed, outlived>>

Open(c) ==
  /\ Is(c, "stream", "opening")
  /\ IF call[c].torrent \in Managed /\ ~torrents[call[c].torrent].failed
     THEN Goes(c, "streaming") ELSE Returns(c)
  /\ UNCHANGED <<torrents, tickets, disturbed, outlived>>

\* transcode: FFmpeg is started,
Transcode(c, k) ==
  /\ ~embedded
  /\ tickets[k] # NoTicket
  /\ Cardinality(Active({"transcode"})) < MaxTranscodes
  /\ Begins(c, "transcode", tickets[k].torrent, tickets[k].file, "starting")
  /\ UNCHANGED <<torrents, tickets, disturbed, outlived>>

\* and asks this server for the original with the same ticket, for a slot of its own.
FfmpegOpens(c) ==
  LET t == call[c].torrent
  IN /\ Is(c, "transcode", "starting")
     /\ IF TicketsOf(t) # {} /\ SlotFree /\ t \in Managed /\ ~torrents[t].failed
        THEN Goes(c, "transcoding") ELSE Returns(c)
     /\ UNCHANGED <<torrents, tickets, disturbed, outlived>>

\* The last chunk, a read that takes too long, or the player closes the stream.
ReadEnds(c) ==
  /\ c \in Active({"stream", "transcode"})
  /\ Returns(c)
  /\ UNCHANGED <<torrents, tickets, disturbed, outlived>>

\* A call is dropped at an await; a removal that is dropped leaves the tickets.
Dropped(c) ==
  LET t == call[c].torrent
  IN /\ c \in Active({"ticket", "play", "remove"})
     /\ embedded \/ call[c].op = "remove"
     /\ IF call[c].op = "remove" /\ call[c].at = "second"
        THEN /\ call' = [Seeing(t, "forgotten", "yes") EXCEPT ![c] = NoCall]
             /\ outlived' = outlived \union TicketsOf(t)
        ELSE Returns(c) /\ UNCHANGED outlived
     /\ UNCHANGED <<torrents, tickets, disturbed>>

\* The process ends; the engine's session is persisted and every torrent initialized
\* again, tickets are lost.
MediaRestart ==
  /\ torrents' = [t \in Torrents |-> IF t \in Managed
       THEN [paused |-> torrents[t].paused, failed |-> FALSE, files |-> torrents[t].files]
       ELSE NoTorrent]
  /\ tickets' = [k \in Tokens |-> NoTicket]
  /\ call' = [c \in MediaCalls |-> NoCall]
  /\ outlived' = {}
  /\ UNCHANGED disturbed

MediaSteps ==
  \/ \E c \in MediaCalls :
       \/ \E t \in Torrents :
            \/ Add(c, t) \/ RemoveTorrent(c, t)
            \/ \E f \in Files : Prioritize(c, t, f) \/ IssueTicket(c, t, f)
            \/ PauseOther(c, t)
       \/ \E k \in Tokens : Original(c, k) \/ Transcode(c, k)
       \/ Added(c) \/ AddReturns(c) \/ KeepReads(c) \/ KeepFile(c) \/ SelectOnly(c)
       \/ InsertTicket(c) \/ RemoveSteps(c) \/ Open(c) \/ FfmpegOpens(c) \/ ReadEnds(c)
       \/ Dropped(c)
  \/ \E k \in Tokens : RevokeTicket(k)
  \/ \E t \in Torrents : EngineFails(t) \/ \E paused \in BOOLEAN : SetPaused(t, paused)
  \/ MediaRestart

MediaNext == MediaSteps /\ UNCHANGED embedded

MediaSpec == MediaInit /\ [][MediaNext]_mediaVars

-----------------------------------------------------------------------------
(* Properties *)

\* A ticket names a torrent the engine has, unless the torrent's whole removal fell
\* between the check of the torrent and the insertion of the ticket, or the removal
\* was dropped halfway, or wrote the torrent's id in another case than the ticket.
TicketsNameTorrents ==
  \A k \in DOMAIN tickets : tickets[k] # NoTicket =>
    \/ torrents[tickets[k].torrent] # NoTorrent
    \/ k \in outlived
    \/ \E c \in DOMAIN call : call[c] # NoCall /\ call[c].op = "remove"
                              /\ call[c].torrent = tickets[k].torrent

\* And the embedded engine fetches every file that has a ticket, unless another call
\* paused or removed the torrent, or replaced the files that it fetches, or the engine
\* gave the torrent up with an error, which keep_file and ticket do not notice.
TicketedIsFetched ==
  embedded => \A k \in DOMAIN tickets :
    tickets[k] # NoTicket /\ torrents[tickets[k].torrent] # NoTorrent =>
    \/ <<tickets[k].torrent, tickets[k].file>> \in disturbed
    \/ ~torrents[tickets[k].torrent].paused
       /\ tickets[k].file \in torrents[tickets[k].torrent].files

\* A ticket serves a torrent the engine has, from a file that it fetches unless it gave
\* the torrent up, whatever other calls did while Torrents::ticket waited for keep_file
\* (server/src/lib.rs, madari-native/src/internal_media.rs).
TicketsServe == TicketsNameTorrents /\ TicketedIsFetched

=============================================================================
