--------------------------- MODULE MCWebSettings ---------------------------
(***************************************************************************)
(* Model checking WebSettings in three parts:                               *)
(*   requests  that overlap while no time passes                            *)
(*   time      requests that come one after another while tokens and        *)
(*             revocations expire                                           *)
(*   codes     of which several wrong and right ones are tried while the    *)
(*             pairing lock runs out                                        *)
(***************************************************************************)
EXTENDS WebSettings, TLC

Overlapping == INSTANCE WebSettings WITH MaxFailed <- 1, MaxTime <- 0

OneByOne ==
  INSTANCE WebSettings WITH Requests <- {"only"}, Kinds <- {"overview"}, MaxFailed <- 1

Guessing ==
  INSTANCE WebSettings WITH Requests <- {"only"}, Browsers <- {"one"}, Kinds <- {"lock"}

VARIABLE part

Init ==
  \/ part = "requests" /\ Overlapping!WebInit
  \/ part = "time" /\ OneByOne!WebInit
  \/ part = "codes" /\ Guessing!WebInit

Next ==
  \/ part = "requests" /\ Overlapping!WebNext /\ UNCHANGED part
  \/ part = "time" /\ OneByOne!WebNext /\ UNCHANGED part
  \/ part = "codes" /\ Guessing!WebNext /\ UNCHANGED part

Spec == Init /\ [][Next]_<<webVars, part>>

MCSymmetry ==
  Permutations(Browsers) \union Permutations(Objects) \union Permutations(Requests)

=============================================================================
