---------------------------- MODULE Preparation -----------------------------
(***************************************************************************)
(* From a chosen stream to what a player can open: prepare_playback of      *)
(* crates/madari-core/src/playback.rs and lib.rs, with the torrent hints of *)
(* crates/madari-addon/src/torrent.rs.                                      *)
(*                                                                         *)
(* One request, made by any client for any stream. The storage and the      *)
(* media service answer as they like.                                       *)
(***************************************************************************)
EXTENDS Integers, Sequences, FiniteSets

CONSTANTS
  Indexes,    \* of a torrent's files: 0, 1, ...
  MaxLength   \* bound: of a file

ASSUME PreparationAssumption == Indexes \subseteq Nat /\ MaxLength \in Nat

VARIABLES
  asked,     \* the request
  viewing,   \* the entry of progress for it, as the storage has it
  preparing  \* how far prepare_inner is

preparationVars == <<asked, viewing, preparing>>

NoIndex == -1

-----------------------------------------------------------------------------
(* Requests *)

\* What of a stream decides: its primary forms, the scheme of its URL (a magnet's
\* may be written in capitals), the headers it wants, and the addon's file.
Offered(forms, scheme, headers, webReady, index) ==
  [forms |-> forms, scheme |-> scheme, headers |-> headers, webReady |-> webReady, index |-> index]

Plain(forms, scheme) == Offered(forms, scheme, "none", TRUE, NoIndex)

Streams ==
  {Offered({"infoHash"}, "none", "none", TRUE, i) : i \in Indexes \cup {NoIndex}}
    \cup {Offered({"url"}, s, "none", TRUE, 0) : s \in {"magnet:", "Magnet:", "magnet:invalid"}}
    \cup {Offered({"url"}, s, h, w, NoIndex) :
            s \in {"https:", "rtsp:", "file:"}, h \in {"none", "valid", "invalid"}, w \in BOOLEAN}
    \cup {Plain({"externalUrl"}, s) : s \in {"https:", "rtsp:"}}
    \cup {Plain({f}, "none") : f \in {"ytId", "rarUrls"}}
    \cup {Plain({}, "none"), Plain({"infoHash", "url"}, "https:"), Plain({"url", "rarUrls"}, "https:")}

\* PlayerCapabilities, and the schemes that the player opens.
Players ==
  [torrent : BOOLEAN, web : BOOLEAN, companion : BOOLEAN, headers : BOOLEAN, external : BOOLEAN,
   schemes : {{"https:"}, {"https:", "rtsp:"}}]

\* title: the key and the video are given, neither is, or one of them.
Request(source, player, title, index) ==
  [source |-> source, player |-> player, title |-> title, index |-> index]

\* A report in progress: how much of it was seen, and a position.
Viewings ==
  {[seen |-> s, completed |-> c, position |-> 1] : s \in {"half", "most"}, c \in BOOLEAN}

PreparationInit ==
  /\ \E s \in Streams, p \in Players, t \in {"given", "none", "half"}, i \in Indexes \cup {NoIndex} :
       asked = Request(s, p, t, i)
  /\ viewing \in Viewings
  /\ preparing = [at |-> "start"]

-----------------------------------------------------------------------------
(* The stream *)

HasUrl(s) == "url" \in s.forms

\* from_stream: the magnet's scheme is compared without case.
IsTorrent(s) == "infoHash" \in s.forms \/ (HasUrl(s) /\ s.scheme \in {"magnet:", "Magnet:"})

Malformed(s) ==
  \/ Cardinality(s.forms) > 1
  \/ HasUrl(s) /\ s.scheme = "magnet:invalid"

\* validate_request, from_stream, and the check of file_index.
Rejected(r) ==
  \/ r.title = "half"
  \/ Malformed(r.source)
  \/ r.index # NoIndex /\ ~IsTorrent(r.source)

Opens(s, p) ==
  /\ s.scheme \in p.schemes
  /\ s.headers = "none" \/ p.headers
  /\ ~(p.web /\ ~s.webReady)

\* prepare_playback: the disposition, before anything is asked of the media service.
\* Here the scheme is compared with its case.
Planned(s, p) ==
  CASE "infoHash" \in s.forms \/ (HasUrl(s) /\ s.scheme = "magnet:") ->
         IF (p.torrent /\ ~p.web) \/ p.companion THEN "MediaService" ELSE "Unsupported"
    [] "externalUrl" \in s.forms -> IF p.external THEN "ExternalApplication" ELSE "Unsupported"
    [] HasUrl(s) /\ s.scheme # "magnet:" -> IF Opens(s, p) THEN "Direct" ELSE "Unsupported"
    [] OTHER -> "Unsupported"

\* direct_url and request_headers.
Transportable(s) ==
  IF HasUrl(s) THEN s.scheme \in {"https:", "rtsp:"} /\ s.headers # "invalid"
  ELSE "externalUrl" \in s.forms => s.scheme = "https:"

\* resume_position
ResumePosition(p) == IF p.completed \/ p.seen = "most" THEN 0 ELSE p.position

-----------------------------------------------------------------------------
(* prepare_inner *)

Proceeds(call) == preparing' = call /\ UNCHANGED <<asked, viewing>>

Failed == Proceeds([at |-> "failed"])

Reject == preparing.at = "start" /\ Rejected(asked) /\ Failed

\* The plan, with the position if the request names a title.
Plan ==
  /\ preparing.at = "start" /\ ~Rejected(asked)
  /\ \/ asked.title = "given" /\ Failed   \* the storage does
     \/ Proceeds([at |-> IF IsTorrent(asked.source) THEN "torrent" ELSE "link",
              resume |-> IF asked.title = "given" THEN ResumePosition(viewing) ELSE 0])

\* What is no torrent: nothing is fetched.
Deliver ==
  /\ preparing.at = "link"
  /\ IF ~Transportable(asked.source) THEN Failed
     ELSE Proceeds([at |-> "ready", delivery |-> Planned(asked.source, asked.player)])

NoEngine ==
  /\ preparing.at = "torrent"
  /\ ~asked.player.companion /\ (~asked.player.torrent \/ asked.player.web)
  /\ Proceeds([at |-> "ready", delivery |-> "Unsupported"])

\* The media service knows the torrent's files; or fails, or has another torrent.
ResolveTorrent ==
  /\ preparing.at = "torrent"
  /\ asked.player.companion \/ (asked.player.torrent /\ ~asked.player.web)
  /\ \/ Failed
     \/ \E listed \in SUBSET Indexes : \E files \in [listed -> 0 .. MaxLength] :
          Proceeds([at |-> "file", resume |-> preparing.resume, files |-> files])

\* Fault: the addon's file goes before the user's.
AddonsChoice(r) == IF r.source.index # NoIndex THEN r.source.index ELSE r.index

ChosenIndex(r) == IF r.index # NoIndex THEN r.index ELSE r.source.index

\* select_file: of the largest files, the first.
SelectFile(r, files) ==
  IF ChosenIndex(r) # NoIndex THEN {ChosenIndex(r)} \cap DOMAIN files
  ELSE {f \in DOMAIN files : \A g \in DOMAIN files :
          files[g] < files[f] \/ (files[g] = files[f] /\ f <= g)}

\* create_torrent_ticket, the last step.
CreateTicket ==
  /\ preparing.at = "file"
  /\ \/ Failed
     \/ \E f \in SelectFile(asked, preparing.files) :
          /\ preparing.files[f] # 0
          /\ Proceeds([at |-> "ready", delivery |-> "MediaService", files |-> preparing.files,
                   file |-> f, resume |-> preparing.resume])

PreparationNext ==
  Reject \/ Plan \/ Deliver \/ NoEngine \/ ResolveTorrent \/ CreateTicket

PreparationSpec == PreparationInit /\ [][PreparationNext]_preparationVars

-----------------------------------------------------------------------------
(* Properties *)

\* What prepare_inner delivers is what the plan of the same stream announced, though
\* each decides for itself (a magnet in capitals is delivered unannounced); a player
\* gets nothing that it cannot open. A torrent's ticket is for a file it has that is
\* not empty: the user's, else the addon's, else the largest; from the position of
\* the viewing, or from the start once nearly all of it was seen.
DeliveredAsPlanned ==
  preparing.at = "ready" =>
    LET s == asked.source
        p == asked.player
        delivery == preparing.delivery
    IN /\ delivery = Planned(s, p) \/ s.scheme = "Magnet:"
       /\ delivery = "Direct" => ~(p.web /\ ~s.webReady) /\ (s.headers = "valid" => p.headers)
       /\ delivery = "MediaService" =>
            /\ p.companion \/ ~p.web
            /\ preparing.files[preparing.file] > 0
            /\ asked.index \in {NoIndex, preparing.file}
            /\ asked.index = NoIndex => s.index \in {NoIndex, preparing.file}
            /\ asked.index = NoIndex /\ s.index = NoIndex =>
                 \A f \in DOMAIN preparing.files : preparing.files[f] <= preparing.files[preparing.file]
            /\ preparing.resume \in {0, viewing.position}
            /\ viewing.completed \/ viewing.seen = "most" \/ asked.title # "given" => preparing.resume = 0

=============================================================================
