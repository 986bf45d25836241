------------------------------ MODULE MCTitles ------------------------------
(***************************************************************************)
(* Model checking what a profile knows of its titles, one part at a time:   *)
(*   account       the Trakt account and the calls that use it              *)
(*   continuation  which episode is next, with the traktHistory from Trakt       *)
(*   metadata      the details of a title and their cache                   *)
(* The parts meet in the snapshot only, which CoreState and Profiles have.  *)
(***************************************************************************)
EXTENDS TraktAccount, Continuation, Metadata, TLC

VARIABLE part

MCInit ==
  /\ part \in {"account", "continuation", "metadata"}
  /\ Init /\ MetadataInit
  /\ IF part = "continuation" THEN ContinuationInit
     ELSE /\ number = [v \in Episodes |-> Unnumbered] /\ released = [v \in Episodes |-> 1]
          /\ today = 1 /\ viewed = <<>> /\ traktHistory = <<>> /\ latest = NoEpisode /\ inOrder = TRUE

MCNext ==
  /\ UNCHANGED part
  /\ \/ part = "account" /\ Next
     \/ part # "account" /\ UNCHANGED vars
  /\ \/ part = "continuation" /\ ContinuationNext
     \/ part # "continuation" /\ UNCHANGED continuationVars
  /\ \/ part = "metadata" /\ MetadataNext
     \/ part # "metadata" /\ UNCHANGED metadataVars

MCSpec ==
  MCInit /\ [][MCNext]_<<vars, continuationVars, metadataVars, part>>

MCSymmetry == Permutations(Profiles) \union Permutations(Calls) \union Permutations(Requests)

=============================================================================
