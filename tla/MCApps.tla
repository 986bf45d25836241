------------------------------- MODULE MCApps -------------------------------
(***************************************************************************)
(* Model checking what the applications do on their own, one part at a      *)
(* time: the parts do not interact.                                         *)
(*   login     the device login of Trakt                                    *)
(*   defaults  the default addons                                           *)
(*   pages     the Linux interface around its player                        *)
(*   streams   two writers of the core and a stream of its events            *)
(***************************************************************************)
EXTENDS TraktLogin, DefaultAddons, Interface, TLC

CONSTANTS
  cinemeta, opensubtitles,
  Parts   \* the parts a run checks

MCDefaults == <<cinemeta, opensubtitles>>

VARIABLES
  part,
  \* the variables of CoreState
  stored, pc, cmd, read, tries, outcome, since,
  stage, linked, queue, floor, seen, silent

\* One harmless command: what matters is who writes and who listens.
Streamed == INSTANCE CoreState WITH
  InstallationIds <- {}, ManifestUrls <- {}, ItemKeys <- {}, VideoIds <- {},
  Preferences <- {"default"}, ValidPreferences <- {"default"},
  DefaultPreferences <- "default", NoMetadata <- "none", NoDuration <- "none",
  NoCommand <- [op |-> "none"], Commands <- {[op |-> "mark_seeded"]},
  Callers <- {"c1", "c2"}, Streams <- {"s1"},
  MaxRevision <- 3, MaxTries <- 2, Buffer <- 1

coreVars ==
  <<stored, pc, cmd, read, tries, outcome, since,
    stage, linked, queue, floor, seen, silent>>

allVars == <<loginVars, defaultsVars, interfaceVars, coreVars, part>>

Init ==
  /\ part \in Parts
  /\ LoginInit /\ DefaultsInit /\ InterfaceInit /\ Streamed!Init

Login(A) ==
  part = "login" /\ A /\ UNCHANGED <<defaultsVars, interfaceVars, coreVars, part>>
Offering(A) ==
  part = "defaults" /\ A /\ UNCHANGED <<loginVars, interfaceVars, coreVars, part>>
Pages(A) ==
  part = "pages" /\ A /\ UNCHANGED <<loginVars, defaultsVars, coreVars, part>>
Streaming(A) ==
  part = "streams" /\ A /\ UNCHANGED <<loginVars, defaultsVars, interfaceVars, part>>

Next ==
  \/ Login(LoginNext)
  \/ Offering(DefaultsNext)
  \/ Pages(InterfaceNext)
  \/ Streaming(Streamed!Next)

\* The fairness of TraktLogin and CoreState, in their parts; nothing of CoreState
\* is enabled in the others.
Fairness ==
  /\ WF_allVars(Login(TaskPolls))
  /\ \A q \in Polls : WF_allVars(Login(PollReturns(q)))
  /\ Streamed!Fairness

\* The fairness of Interface.
PagesFairness ==
  /\ WF_allVars(Pages(Answers))
  /\ WF_allVars(Pages(StopArrives)) /\ WF_allVars(Pages(Record)) /\ WF_allVars(Pages(HandOver))

Spec == Init /\ [][Next]_allVars

FairSpec == Spec /\ Fairness

PagesSpec == Spec /\ PagesFairness

\* CoreState's property of event streams.
StreamsCatchUp == Streamed!StreamsCatchUp

=============================================================================
