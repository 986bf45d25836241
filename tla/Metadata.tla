------------------------------ MODULE Metadata ------------------------------
(***************************************************************************)
(* The details of a title, from the addons and from the profile's cache     *)
(* (crates/madari-core/src/metadata.rs, resume_cache.rs).                   *)
(*                                                                         *)
(* Requests overlap, with each other and with the user's changes to the     *)
(* addons. Between the snapshot a request asks the addons with and the      *)
(* write to the cache lie the network and two reads of the storage.         *)
(* One title is followed, under the key of its originating addon. The        *)
(* snapshot's own copies, which come after all of this, are left out.        *)
(***************************************************************************)
EXTENDS Naturals

CONSTANTS
  Requests,    \* under way at a time
  Addons,      \* that there may be, in the order of installation: 1, 2, ...
  Origin,      \* the addon in the title's key
  Fields,      \* of the metadata
  MaxChanges,  \* bound: changes of the addons
  NoEntry

ASSUME AddonsAssumption == Addons \subseteq Nat \ {0} /\ Origin \in Addons

VARIABLES
  addons,    \* of the snapshot: each addon's configuration, 0 if it is not enabled
  changes,   \* so far
  entry,     \* the title's row of the cache
  request    \* each request; what the properties compare with, once it has resolved: who
             \* said something of each field (full) and what the cache `had`

metadataVars == <<addons, changes, entry, request>>

NoRequest == [at |-> "idle"]

MetadataInit ==
  /\ addons = [a \in Addons |-> 1]
  /\ changes = 0
  /\ entry = NoEntry
  /\ request = [r \in Requests |-> NoRequest]

Enabled(config) == {a \in DOMAIN config : config[a] # 0}

\* `sources` of CachedMetadata: the enabled installations, their URLs and permissions.
Sources(config) == {<<a, config[a]>> : a \in Enabled(config)}

\* The cached entry of these sources: a function from fields, or nothing.
Cached(config) ==
  IF entry # NoEntry /\ entry.sources = Sources(config) THEN entry.data ELSE <<>>

IsCached(config) == entry # NoEntry /\ entry.sources = Sources(config)

\* What a client knows of the title already comes last, as the originating addon's.
Preview == 0

Provider(a) == IF a = Preview THEN Origin ELSE a

\* The addons among `asked` that answer for this title, with what they say of each
\* field, and the preview likewise.
Answers(asked) ==
  UNION {[who -> [Fields -> {"absent", "blank", "full"}]] : who \in SUBSET asked}

\* resolve_metadata_inner sorts the originating addon's answer to the front; without
\* it, as in continue_metadata, the earliest installation goes first.
Foremost(op, S) ==
  IF op = "resolve" /\ Origin \in S THEN Origin
  ELSE IF S \subseteq {Preview} THEN Preview
  ELSE CHOOSE a \in S \ {Preview} : \A b \in S \ {Preview} : a <= b

\* Who says something of each field.
Populated(answers) == [f \in Fields |-> {a \in DOMAIN answers : answers[a][f] = "full"}]

\* The first answer, its other fields filled from the later ones (fill_missing):
\* each field with the configured addon it is from, a preview's with no configuration.
Merged(op, config, answers) ==
  LET full == Populated(answers)
      first == Foremost(op, DOMAIN answers)
      from(f) == Foremost(op, IF full[f] = {} THEN DOMAIN answers ELSE full[f])
  IN [f \in {f \in Fields : full[f] # {} \/ answers[first][f] = "blank"} |->
        [from |-> <<Provider(from(f)), IF from(f) = Preview THEN 0 ELSE config[from(f)]>>,
         blank |-> full[f] = {}, provider |-> Provider(from(f))]]

NotBlank(data) == {f \in DOMAIN data : ~data[f].blank}

\* Fault: what the cache fills in counts as the originating addon's.
FilledByOrigin(data, cached) ==
  [f \in DOMAIN data \cup NotBlank(cached) |->
     IF f \in NotBlank(cached) \ NotBlank(data) THEN [cached[f] EXCEPT !.provider = Origin]
     ELSE data[f]]

\* fill_missing from the cache, then the cache's providers of all it has that was not
\* answered: also of what is blank in both, whose blank is still the answer's.
Filled(data, cached) ==
  [f \in DOMAIN data \cup NotBlank(cached) |->
     IF f \in NotBlank(cached) \ NotBlank(data) THEN cached[f]
     ELSE IF f \in DOMAIN cached \ NotBlank(data)
     THEN [from |-> data[f].from, blank |-> TRUE, provider |-> cached[f].provider]
     ELSE data[f]]

\* merge_cached: a field that was answered blank stays blank.
MergedCached(data, cached) ==
  [f \in DOMAIN data \cup DOMAIN cached |-> IF f \in DOMAIN data THEN data[f] ELSE cached[f]]

Turns(r, call) == request' = [request EXCEPT ![r] = call]

Unchanged == UNCHANGED <<addons, changes, entry>>

-----------------------------------------------------------------------------
(* resolve_metadata_inner *)

\* The load in query_incremental.
BeginResolve(r) ==
  /\ request[r] = NoRequest
  /\ Turns(r, [at |-> "query", op |-> "resolve", config |-> addons])
  /\ Unchanged

\* The answers are in; the snapshot and the cache are read anew. Without any, nor a
\* preview, the cached entry is the answer, and nothing is written.
ResolveReads(r) ==
  /\ request[r].at = "query" /\ request[r].op = "resolve"
  /\ \E answers \in Answers(Enabled(request[r].config) \cup {Preview}) :
       IF answers = <<>> THEN Turns(r, NoRequest)
       ELSE Turns(r,
              [at |-> "write", op |-> "resolve", full |-> Populated(answers), sources |-> Sources(addons),
               had |-> NotBlank(Cached(addons)),
               data |-> Filled(Merged("resolve", request[r].config, answers),
                               Cached(addons))])
  /\ Unchanged

-----------------------------------------------------------------------------
(* continue_metadata *)

\* The snapshot and the cache are read first; a fresh entry is the answer, as a
\* stale one is if no addon answers.
BeginContinue(r) ==
  /\ request[r] = NoRequest
  /\ ~(IsCached(addons) /\ entry.fresh)
  /\ Turns(r, [at |-> "query", op |-> "continue", config |-> addons,
                 cached |-> Cached(addons)])
  /\ Unchanged

\* The lastVideosIds catalogs of the addons, in their order.
ContinueAnswers(r) ==
  /\ request[r].at = "query" /\ request[r].op = "continue"
  /\ LET call == request[r] IN
     \E answers \in Answers(Enabled(call.config)) :
       IF answers = <<>> THEN Turns(r, NoRequest)
       ELSE Turns(r,
              [at |-> "write", op |-> "continue", full |-> Populated(answers), sources |-> Sources(call.config),
               had |-> NotBlank(call.cached),
               data |-> MergedCached(Merged("continue", call.config, answers), call.cached)])
  /\ Unchanged

-----------------------------------------------------------------------------
(* The cache *)

\* cache_metadata, which may fail.
CacheMetadata(r) ==
  /\ request[r].at = "write"
  /\ entry' \in {entry, [sources |-> request[r].sources, data |-> request[r].data, fresh |-> TRUE]}
  /\ Turns(r, NoRequest)
  /\ UNCHANGED <<addons, changes>>

\* Six hours pass, or the entry leaves the newest hundred.
EntryAges ==
  /\ entry # NoEntry
  /\ entry' \in {NoEntry, [entry EXCEPT !.fresh = FALSE]} \ {entry}
  /\ UNCHANGED <<addons, changes, request>>

\* The user enables, disables or configures an addon.
ChangeAddon(a) ==
  /\ changes < MaxChanges
  /\ changes' = changes + 1
  /\ \E config \in 0 .. 2 : config # addons[a] /\ addons' = [addons EXCEPT ![a] = config]
  /\ UNCHANGED <<entry, request>>

\* The client goes away.
DropRequest(r) ==
  /\ request[r].at \in {"query", "write"}
  /\ Turns(r, NoRequest)
  /\ Unchanged

MetadataNext ==
  \/ \E r \in Requests :
       \/ BeginResolve(r) \/ ResolveReads(r)
       \/ BeginContinue(r) \/ ContinueAnswers(r)
       \/ CacheMetadata(r) \/ DropRequest(r)
  \/ \E a \in Addons : ChangeAddon(a)
  \/ EntryAges

MetadataSpec == MetadataInit /\ [][MetadataNext]_metadataVars

-----------------------------------------------------------------------------
(* Properties *)

\* "Prefer the originating provider, then installation order ... conflicting
\* populated values are not overwritten" (metadata.rs) and "Keep stale metadata on
\* network failure" (resume_cache.rs): what an addon answers now goes before the
\* client's preview, and that before the cache; nothing the cache had of these sources is
\* lost; and each populated field names the addon it came from, however often it went
\* through the cache since. (A blank may be filed under the provider of an older blank.)
ResolvedByRank ==
  \A r \in Requests : request[r].at = "write" =>
    LET call == request[r]
    IN /\ call.had \subseteq DOMAIN call.data
       /\ call.op = "resolve" => call.had \subseteq NotBlank(call.data)
       /\ \A f \in NotBlank(call.data) : call.data[f].provider = call.data[f].from[1]
       /\ \A f \in Fields : call.full[f] # {} =>
            /\ f \in NotBlank(call.data)
            /\ IF call.full[f] = {Preview} THEN call.data[f].from = <<Origin, 0>>
               ELSE IF call.op = "resolve" /\ Origin \in call.full[f]
               THEN call.data[f].provider = Origin
               ELSE /\ call.data[f].provider \in call.full[f]
                    /\ \A a \in call.full[f] \ {Preview} : call.data[f].provider <= a

\* "Invalidate when addon configuration or local-network permissions change"
\* (resume_cache.rs): what an entry of the cache has from addons (and not from a client's
\* preview), the addons of its sources answered, configured as they say.
CachedFromSources ==
  entry # NoEntry =>
    \A f \in DOMAIN entry.data :
      entry.data[f].from \in entry.sources \cup {<<Origin, 0>>}

=============================================================================
