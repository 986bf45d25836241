----------------------------- MODULE MCDevices -----------------------------
(***************************************************************************)
(* Model checking what a device runs around the core, one part at a time:   *)
(* the parts do not interact.                                               *)
(*   remote    the remote control                                           *)
(*   bridge    the TV's session                                             *)
(*   screen    what the TV shows of it                                      *)
(*   torrents  two torrents of one file, in an application                  *)
(*   files     one torrent of two files, in an application                  *)
(*   server    one torrent of one file and two tickets, in the server       *)
(*   player    the end and the surface of the Linux player                  *)
(*   bar       its seek bar                                                 *)
(*   tracks    its choice of tracks                                         *)
(*   prepare   what it opens for a chosen stream                            *)
(***************************************************************************)
EXTENDS WebRemote, TvScreen, Media, Player, Controls, Preparation

TwoTorrents == INSTANCE Media WITH Tokens <- {"k"}

TwoFiles == INSTANCE Media WITH Torrents <- {"t"}, Files <- {0, 1}, Tokens <- {"k"}

Server == INSTANCE Media WITH Torrents <- {"t"}

VARIABLE part

vars == <<remoteVars, tvVars, mediaVars, playerVars, controlsVars, preparationVars, part>>

MCWishes ==
  {NoWishes, [languages |-> <<"en">>, flags |-> <<"any", "any">>]}
    \cup {[languages |-> l, flags |-> <<f, "avoid">>] :
             l \in {<<>>, <<"en_GB", "fr">>}, f \in {"prefer", "avoid"}}

Track(tag, first, second) == [tag |-> tag, flags |-> <<first, second>>]

UsersFile == Track("fra", FALSE, FALSE)

SameTracks == <<UsersFile, UsersFile, UsersFile>>

MCTrackLists ==
  {<<Track(t, f, FALSE), Track("eng", FALSE, g), UsersFile>> :
     t \in {"en_GB", "fr", "eng"}, f \in BOOLEAN, g \in BOOLEAN}
    \cup {SameTracks}

Parts ==
  {"remote", "bridge", "screen", "torrents", "files", "server", "player", "bar", "tracks", "prepare"}

FirstRequest == Request(Plain({}, "none"), CHOOSE p \in Players : TRUE, "none", NoIndex)

Init ==
  /\ part \in Parts
  /\ RemoteInit /\ TvInit /\ PlayerInit /\ ControlsInit
  /\ CASE part = "torrents" -> TwoTorrents!MediaInit
       [] part = "files" -> TwoFiles!MediaInit
       [] OTHER -> Server!MediaInit
  /\ embedded <=> part # "server"
  /\ part = "player" \/ video = FirstVideo
  /\ part = "tracks" \/ worker = FirstWorker(TRUE, NoWishes, SameTracks)
  /\ IF part = "prepare" THEN PreparationInit
     ELSE /\ asked = FirstRequest /\ preparing = [at |-> "start"]
          /\ viewing = [seen |-> "half", completed |-> FALSE, position |-> 1]

Next ==
  /\ UNCHANGED part
  /\ \/ part = "remote" /\ RemoteNext
     \/ part # "remote" /\ UNCHANGED remoteVars
  /\ \/ part = "bridge" /\ BridgeNext /\ UNCHANGED screenVars
     \/ part = "screen" /\ TvNext
     \/ part \notin {"bridge", "screen"} /\ UNCHANGED tvVars
  /\ \/ part = "torrents" /\ TwoTorrents!MediaNext
     \/ part = "files" /\ TwoFiles!MediaNext
     \/ part = "server" /\ Server!MediaNext
     \/ part \notin {"torrents", "files", "server"} /\ UNCHANGED mediaVars
  /\ \/ part = "player" /\ PlayerNext
     \/ part # "player" /\ UNCHANGED playerVars
  /\ \/ part = "bar" /\ SeekBarNext
     \/ part = "tracks" /\ TracksNext
     \/ part \notin {"bar", "tracks"} /\ UNCHANGED controlsVars
  /\ \/ part = "prepare" /\ PreparationNext
     \/ part # "prepare" /\ UNCHANGED preparationVars

Spec == Init /\ [][Next]_vars

=============================================================================
