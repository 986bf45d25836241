----------------------------- MODULE MCScrobble -----------------------------
(***************************************************************************)
(* Scrobble for model checking; its constants are numbers.                  *)
(***************************************************************************)
EXTENDS Scrobble

=============================================================================
