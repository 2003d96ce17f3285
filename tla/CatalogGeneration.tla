-------------------------- MODULE CatalogGeneration --------------------------
(***************************************************************************)
(* The graph catalog an MCP server serves                                  *)
(* (packages/mcp/src/catalog-generation.ts, catalog-freshness-controller.ts *)
(* and the two callers of theirs that every tool goes through).            *)
(*                                                                         *)
(* One Node process answers the requests; `opensip graph`, run by anyone,  *)
(* replaces the persisted catalog at any moment, and the files it was      *)
(* built from are edited at any moment.  A capture is one synchronous      *)
(* block of the event loop: nothing else of the server runs until it ends, *)
(* but the other processes do, between any two of its reads.  Everything   *)
(* else a request does is split by an await, where other requests run.     *)
(***************************************************************************)
EXTENDS Naturals

CONSTANTS
    Requests,      \* the tool calls, each made at most once
    Plans,         \* the kinds of call they may be: plan[r] is the kind of r
    MaxCatalogs,   \* catalogs ever built
    MaxEdits,      \* edits of the project's files
    MaxFaults,     \* reads, verifications and rebuilds that fail
    NoCatalog, NoCache, NoRequest

Kinds == {"query", "refresh", "forced"}

ASSUME Parameters ==
    /\ Plans \subseteq [Requests -> Kinds]
    /\ MaxCatalogs \in Nat /\ MaxEdits \in Nat /\ MaxFaults \in Nat
    /\ NoRequest \notin Requests
    /\ NoCatalog \notin [id : Nat, from : Nat]

VARIABLES
    disk,         \* the one row of graph_catalog
    stored,       \* every catalog the row has held (history)
    built,        \* the number of catalogs built; builtAt tells them apart
    tree,         \* the state of the project's files
    faults,       \* how many faults have happened
    generation,   \* GraphGenerationController.generation
    cache,        \* CatalogFreshnessController.cache
    verifying,    \* its inFlight map: the verifications that run, at most one of a key
    sync,         \* syncing: the capture that runs, or its result until it is taken
    refreshing,   \* inFlightRefresh, by the request that started it
    req,          \* the requests
    answered      \* the newest persisted catalog a query has been answered from (history)

vars == <<disk, stored, built, tree, faults, generation, cache, verifying, sync,
          refreshing, req, answered>>

\* A catalog: when it was built, and the files it was built from.
Catalogs == [id : Nat \ {0}, from : Nat]

\* A generation has the key of the identity it was loaded by, and its payload is that of this
\* identity.
Generations == {g \in [key : Nat \ {0}, catalog : Catalogs] : g.catalog.id = g.key}
createGeneration(c, key) == [key |-> key, catalog |-> c]

Key(g) == IF g = NoCatalog THEN 0 ELSE g.key
DiskId == IF disk = NoCatalog THEN 0 ELSE disk.id

NoSync == [stage |-> "none"]

\* A read, a verification or a rebuild fails.
Fault == faults < MaxFaults /\ faults' = faults + 1

Idle == [kind |-> "query", pc |-> "idle", ok |-> TRUE, gen |-> NoCatalog, verdict |-> "none",
         forced |-> FALSE, decision |-> "pending", prior |-> NoCatalog, fallback |-> NoCatalog,
         action |-> "none", on |-> NoRequest, since |-> 0, floor |-> 0, early |-> {}]

Init ==
    /\ \E c \in {NoCatalog} \cup [id : {1}, from : {0}] :
          /\ disk = c
          /\ stored = IF c = NoCatalog THEN {} ELSE {1}
    /\ built = 1 /\ tree = 0 /\ faults = 0
    /\ generation = NoCatalog /\ cache = NoCache
    /\ verifying = {}
    /\ sync = NoSync /\ refreshing = NoRequest
    /\ \E plan \in Plans : req = [r \in Requests |-> [Idle EXCEPT !.kind = plan[r]]]
    /\ answered = 0

-----------------------------------------------------------------------------
(* The other processes. *)

Edit ==
    /\ tree < MaxEdits
    /\ tree' = tree + 1
    /\ UNCHANGED <<disk, stored, built, faults, generation, cache, verifying, sync,
                   refreshing, req, answered>>

\* The row is replaced by a single statement: no reader sees a part of it.
replaceAll(c) ==
    /\ disk' = c
    /\ stored' = stored \cup {c.id}

\* `opensip graph` in another process.
ExternalGraph ==
    /\ built < MaxCatalogs
    /\ built' = built + 1
    /\ replaceAll([id |-> built + 1, from |-> tree])
    /\ UNCHANGED <<tree, faults, generation, cache, verifying, sync, refreshing, req, answered>>

-----------------------------------------------------------------------------
(* Capture. *)

\* The event loop is inside a capture.
Syncing == sync.stage \notin {"none", "done"}

\* capture(): join the flight there is, or begin one; `started` is the request as it awaits,
\* `snapshot` the cache a failure puts back.
BeginCapture(r, started, snapshot) ==
    IF sync.stage = "none"
    THEN /\ sync' = [stage |-> "probe", round |-> 1, by |-> r, ident |-> 0,
                     payload |-> NoCatalog, prior |-> generation,
                     priorCache |-> snapshot, began |-> DiskId]
         /\ req' = [req EXCEPT ![r] = [started EXCEPT !.pc = "capture", !.on = r]]
    ELSE /\ UNCHANGED sync
         /\ req' = [req EXCEPT ![r] = [started EXCEPT !.pc = "captured", !.on = sync.by,
                                                      !.ok = sync.ok, !.gen = sync.gen]]

SyncEnds(ok, gen) ==
    /\ sync' = [stage |-> "done", by |-> sync.by, ok |-> ok, gen |-> gen]
    /\ req' = [req EXCEPT ![sync.by] =
                  [req[sync.by] EXCEPT !.pc = "captured", !.ok = ok, !.gen = gen]]

\* Mutant: the failure keeps what the first probe had swapped in.
SyncFailsSwapped ==
    /\ UNCHANGED <<generation, cache>>
    /\ SyncEnds(FALSE, NoCatalog)

\* restore(), then the failure.
SyncFails ==
    /\ generation' = sync.prior
    /\ cache' = sync.priorCache
    /\ SyncEnds(FALSE, NoCatalog)

\* Mutant: one probe too many.
NextProbeAgain ==
    sync' = [sync EXCEPT !.stage = IF sync.round < 3 THEN "probe" ELSE "final",
                         !.round = @ + 1, !.ident = 0, !.payload = NoCatalog]

\* A probe is over: the second one re-probes in case a writer raced with the first.
NextProbe ==
    sync' = [sync EXCEPT !.stage = IF sync.round = 1 THEN "probe" ELSE "final", !.round = 2,
                         !.ident = 0, !.payload = NoCatalog]

NotSync == <<disk, stored, built, tree, verifying, refreshing, answered>>

\* readIdentity, loadCatalog or the confirming readIdentity fails, or the identity it reads
\* is malformed.
SyncReadFails ==
    /\ Syncing
    /\ Fault
    /\ SyncFails
    /\ UNCHANGED NotSync

ProbeMissing ==
    /\ Syncing /\ sync.stage = "probe"
    /\ disk = NoCatalog
    /\ generation' = NoCatalog
    /\ cache' = NoCache
    /\ NextProbe
    /\ UNCHANGED <<faults, req>> /\ UNCHANGED NotSync

ProbeCurrent ==
    /\ Syncing /\ sync.stage = "probe"
    /\ disk # NoCatalog
    /\ Key(generation) = DiskId
    /\ NextProbe
    /\ UNCHANGED <<faults, generation, cache, req>> /\ UNCHANGED NotSync

ProbeOther ==
    /\ Syncing /\ sync.stage = "probe"
    /\ disk # NoCatalog
    /\ Key(generation) # DiskId
    /\ sync' = [sync EXCEPT !.stage = "load", !.ident = DiskId]
    /\ UNCHANGED <<faults, generation, cache, req>> /\ UNCHANGED NotSync

LoadCatalog ==
    /\ Syncing /\ sync.stage = "load"
    /\ sync' = [sync EXCEPT !.stage = "confirm", !.payload = disk]
    /\ UNCHANGED <<faults, generation, cache, req>> /\ UNCHANGED NotSync

\* The identity is read again: when it has changed the payload is dropped.
ConfirmRaced ==
    /\ Syncing /\ sync.stage = "confirm"
    /\ DiskId # sync.ident
    /\ NextProbe
    /\ UNCHANGED <<faults, generation, cache, req>> /\ UNCHANGED NotSync

\* What was loaded is swapped in when its payload has the identity it was loaded by.
ConfirmSame ==
    /\ Syncing /\ sync.stage = "confirm"
    /\ DiskId = sync.ident
    /\ IF sync.payload.id = sync.ident
       THEN /\ generation' = createGeneration(sync.payload, sync.ident)
            /\ cache' = NoCache
            /\ NextProbe
            /\ UNCHANGED req
       ELSE SyncFails
    /\ UNCHANGED faults /\ UNCHANGED NotSync

\* The last probe: what was loaded is served only if it is still what is persisted.
StillPersisted == DiskId = Key(generation)

SyncFinal ==
    /\ Syncing /\ sync.stage = "final"
    /\ IF StillPersisted
       THEN /\ SyncEnds(TRUE, generation)
            /\ UNCHANGED <<generation, cache>>
       ELSE SyncFails
    /\ UNCHANGED faults /\ UNCHANGED NotSync

\* The finally of capture(), when the awaiting request goes on.
TakeCapture(r) == sync' = IF sync.stage = "done" /\ sync.by = req[r].on THEN NoSync ELSE sync

-----------------------------------------------------------------------------
(* Freshness. *)

\* verify(): the cached verdict unless FRESHNESS_BURST_MS have passed, the flight of the same
\* generation, or a new flight.
BeginVerify(r, asked) ==
    \/ /\ cache # NoCache /\ cache.key = asked.gen.key
       /\ req' = [req EXCEPT ![r] = [asked EXCEPT !.pc = "verified", !.ok = TRUE,
                                                  !.verdict = cache.verdict]]
       /\ UNCHANGED verifying
    \/ /\ req' = [req EXCEPT ![r] = [asked EXCEPT !.pc = "verify"]]
       /\ verifying' = IF \E v \in verifying : v.key = asked.gen.key THEN verifying
                       ELSE verifying \cup {[key |-> asked.gen.key,
                                             from |-> asked.gen.catalog.from,
                                             since |-> tree]}

\* A flight is over: every request that awaits it goes on.
VerifyEnds(v, ok, verdict) ==
    /\ verifying' = verifying \ {v}
    /\ req' = [r \in Requests |->
                 IF req[r].pc = "verify" /\ req[r].gen.key = v.key
                 THEN [req[r] EXCEPT !.pc = "verified", !.ok = ok, !.verdict = verdict]
                 ELSE req[r]]

\* The verifier read the files as they were at some time since the flight began.  The verdict
\* is cached if it is about the generation that is served when it arrives.
VerifySettles(v) ==
    /\ ~Syncing
    /\ \E seen \in v.since..tree :
       LET verdict == IF seen = v.from THEN "fresh" ELSE "stale" IN
          /\ VerifyEnds(v, TRUE, verdict)
          /\ cache' = IF Key(generation) = v.key THEN [key |-> v.key, verdict |-> verdict]
                                                 ELSE cache
    /\ UNCHANGED <<disk, stored, built, tree, faults, generation, sync, refreshing, answered>>

VerifyFails(v) ==
    /\ ~Syncing
    /\ Fault
    /\ VerifyEnds(v, FALSE, "none")
    /\ UNCHANGED <<disk, stored, built, tree, generation, cache, sync, refreshing, answered>>

-----------------------------------------------------------------------------
(* A query: capture, then verify what was captured (runQuery). *)

Ask(r) ==
    /\ ~Syncing
    /\ req[r].pc = "idle" /\ req[r].kind = "query"
    /\ BeginCapture(r, [Idle EXCEPT !.floor = answered], cache)
    /\ UNCHANGED <<disk, stored, built, tree, faults, generation, cache, verifying, refreshing,
                   answered>>

\* The request is answered, and what it knew is gone.
Done == [Idle EXCEPT !.pc = "done"]

\* Mutant: the query goes on with what is served when it is its turn.
TakenLate(r) == [req[r] EXCEPT !.gen = generation]

\* What the query goes on with: what its capture returned.
Taken(r) == req[r]

QueryCaptured(r) ==
    /\ ~Syncing
    /\ req[r].pc = "captured" /\ req[r].kind = "query"
    /\ TakeCapture(r)
    /\ IF Taken(r).ok /\ Taken(r).gen # NoCatalog
       THEN BeginVerify(r, Taken(r))
       ELSE /\ req' = [req EXCEPT ![r] = Done]
            /\ UNCHANGED verifying
    /\ UNCHANGED <<disk, stored, built, tree, faults, generation, cache, refreshing, answered>>

Answer(r) ==
    /\ ~Syncing
    /\ req[r].pc = "verified" /\ req[r].kind = "query"
    /\ req' = [req EXCEPT ![r] = Done]
    /\ answered' = IF req[r].ok /\ req[r].gen.key > answered THEN req[r].gen.key ELSE answered
    /\ UNCHANGED <<disk, stored, built, tree, faults, generation, cache, verifying, sync,
                   refreshing>>

-----------------------------------------------------------------------------
(* A refresh: sync, verify, rebuild unless what is served is fresh. *)

\* The request of a flight as it begins: `floor` is the state of the files, `early` the
\* verifications that run already (history, both).
Flight(kind) == [Idle EXCEPT !.kind = kind, !.forced = (kind = "forced"), !.prior = generation,
                             !.fallback = generation, !.floor = tree, !.early = verifying]

\* Mutant: the flight does not call invalidateFreshness.
BeginRefreshCached(r, kind) ==
    /\ refreshing' = r
    /\ UNCHANGED cache
    /\ BeginCapture(r, Flight(kind), cache)

\* A flight begins inside the request that finds none.
BeginRefresh(r, kind) ==
    /\ refreshing' = r
    /\ cache' = NoCache
    /\ BeginCapture(r, Flight(kind), NoCache)

Join(r, kind, pc) ==
    [req EXCEPT ![r] = [Idle EXCEPT !.kind = kind, !.pc = pc, !.on = refreshing]]

Refresh(r) ==
    /\ ~Syncing
    /\ req[r].pc = "idle" /\ req[r].kind = "refresh"
    /\ IF refreshing = NoRequest
       THEN BeginRefresh(r, "refresh")
       ELSE /\ req' = Join(r, "refresh", "joined")
            /\ UNCHANGED <<refreshing, cache, sync>>
    /\ UNCHANGED <<disk, stored, built, tree, faults, generation, verifying, answered>>

\* A forced call joins a rebuild, makes a flight that is undecided rebuild, and comes again
\* after one that has decided not to.
JoinForced(r) ==
    CASE req[refreshing].decision = "rebuild" -> req' = Join(r, "forced", "joined")
      [] req[refreshing].decision = "pending" ->
            req' = [Join(r, "forced", "joined") EXCEPT ![refreshing].forced = TRUE]
      [] OTHER -> req' = Join(r, "forced", "waiting")

RefreshForced(r) ==
    /\ ~Syncing
    /\ req[r].pc \in {"idle", "again"} /\ req[r].kind = "forced"
    /\ IF refreshing = NoRequest
       THEN BeginRefresh(r, "forced")
       ELSE /\ JoinForced(r)
            /\ UNCHANGED <<refreshing, cache, sync>>
    /\ UNCHANGED <<disk, stored, built, tree, faults, generation, verifying, answered>>

\* Mutant: a forced call that waits for the flight is not told that it is over.
SettleJoined(r, action) ==
    /\ refreshing' = IF refreshing = r THEN NoRequest ELSE refreshing
    /\ req' = [s \in Requests |->
         IF s = r \/ (req[s].pc = "joined" /\ req[s].on = r)
         THEN [Done EXCEPT !.kind = req[s].kind, !.action = action]
         ELSE req[s]]

\* The flight of r is over: everyone who awaits it has its outcome, and a forced call that
\* waited for it calls again.  (The port verifies the generation it is given once more before
\* it answers, exactly as a query does.)  The slot is cleared if it is still the slot of this flight.
Settle(r, action) ==
    /\ refreshing' = IF refreshing = r THEN NoRequest ELSE refreshing
    /\ req' = [s \in Requests |->
         IF s = r \/ (req[s].pc = "joined" /\ req[s].on = r)
         THEN [Done EXCEPT !.kind = req[s].kind, !.action = action]
         ELSE IF req[s].pc = "waiting" /\ req[s].on = r THEN [req[s] EXCEPT !.pc = "again"]
         ELSE req[s]]

\* A failed verification or rebuild puts the generation of the flight back.
FlightFails(r) ==
    /\ generation' = req[r].fallback
    /\ Settle(r, "failed")

Rebuild(s) == [s EXCEPT !.decision = "rebuild", !.pc = "rebuild", !.since = tree]

RefreshCaptured(r) ==
    /\ ~Syncing
    /\ req[r].pc = "captured" /\ req[r].kind # "query"
    /\ TakeCapture(r)
    /\ LET gen == req[r].gen
           kept == [req[r] EXCEPT !.fallback = IF gen # NoCatalog THEN gen
                                                 ELSE req[r].fallback] IN
       CASE ~req[r].ok -> /\ Settle(r, "failed")
                          /\ UNCHANGED verifying
         [] req[r].ok /\ (gen = NoCatalog \/ req[r].forced) ->
                          /\ req' = [req EXCEPT ![r] = Rebuild(kept)]
                          /\ UNCHANGED <<verifying, refreshing>>
         [] OTHER -> BeginVerify(r, kept) /\ UNCHANGED refreshing
    /\ UNCHANGED <<disk, stored, built, tree, faults, generation, cache, answered>>

Deciding(r) == req[r].pc = "verified" /\ req[r].kind # "query"

RefreshUnverified(r) ==
    /\ ~Syncing
    /\ Deciding(r) /\ ~req[r].ok
    /\ FlightFails(r)
    /\ UNCHANGED <<disk, stored, built, tree, faults, cache, verifying, sync, answered>>

\* Mutant: the force is looked at only before the verification.
ReusableUnforced(r) == req[r].verdict = "fresh"

\* reuseFreshGeneration: the force may have been requested during the verification.
Reusable(r) == req[r].verdict = "fresh" /\ ~req[r].forced

RefreshReuses(r) ==
    /\ ~Syncing
    /\ Deciding(r) /\ req[r].ok
    /\ Reusable(r)
    /\ req' = [req EXCEPT ![r] = [req[r] EXCEPT !.decision = "no-op", !.pc = "reused"]]
    /\ UNCHANGED <<disk, stored, built, tree, faults, generation, cache, verifying, sync,
                   refreshing, answered>>

RefreshRebuilds(r) ==
    /\ ~Syncing
    /\ Deciding(r) /\ req[r].ok
    /\ ~Reusable(r)
    /\ req' = [req EXCEPT ![r] = Rebuild(req[r])]
    /\ UNCHANGED <<disk, stored, built, tree, faults, generation, cache, verifying, sync,
                   refreshing, answered>>

RefreshReused(r) ==
    /\ ~Syncing
    /\ req[r].pc = "reused"
    /\ Settle(r, IF Key(req[r].prior) = req[r].gen.key THEN "no-op" ELSE "reloaded")
    /\ UNCHANGED <<disk, stored, built, tree, faults, generation, cache, verifying, sync,
                   answered>>

\* rebuildCatalog reads the files at some time since it began and persists what it built; a
\* catalog that cannot be persisted is returned all the same.
RebuildPersists(r) ==
    /\ ~Syncing
    /\ req[r].pc = "rebuild"
    /\ built' = built + 1
    /\ \E read \in req[r].since..tree :
       LET c == [id |-> built + 1, from |-> read] IN
          /\ \/ replaceAll(c) /\ UNCHANGED faults
             \/ Fault /\ UNCHANGED <<disk, stored>>
          /\ req' = [req EXCEPT ![r] = [req[r] EXCEPT !.pc = "rebuilt",
                                                 !.gen = createGeneration(c, c.id)]]
    /\ UNCHANGED <<tree, generation, cache, verifying, sync, refreshing, answered>>

RebuildFails(r) ==
    /\ ~Syncing
    /\ req[r].pc = "rebuild"
    /\ Fault
    /\ FlightFails(r)
    /\ UNCHANGED <<disk, stored, built, tree, cache, verifying, sync, answered>>

RebuildReturns(r) ==
    /\ ~Syncing
    /\ req[r].pc = "rebuilt"
    /\ generation' = req[r].gen
    /\ cache' = NoCache
    /\ Settle(r, "rebuilt")
    /\ UNCHANGED <<disk, stored, built, tree, faults, verifying, sync, answered>>

-----------------------------------------------------------------------------

SyncStep ==
    \/ ProbeMissing \/ ProbeCurrent \/ ProbeOther \/ LoadCatalog
    \/ ConfirmRaced \/ ConfirmSame \/ SyncFinal

Proceed(r) ==
    \/ QueryCaptured(r) \/ Answer(r)
    \/ RefreshCaptured(r) \/ RefreshUnverified(r) \/ RefreshReuses(r) \/ RefreshRebuilds(r)
    \/ RefreshReused(r) \/ RebuildPersists(r) \/ RebuildReturns(r)
    \/ req[r].pc = "again" /\ RefreshForced(r)

\* What goes on by itself once it has begun.
Proceeds ==
    \/ SyncStep
    \/ \E v \in verifying : VerifySettles(v)
    \/ \E r \in Requests : Proceed(r)

Next ==
    \/ Edit \/ ExternalGraph
    \/ Proceeds
    \/ SyncReadFails
    \/ \E v \in verifying : VerifyFails(v)
    \/ \E r \in Requests : Ask(r) \/ Refresh(r) \/ RefreshForced(r) \/ RebuildFails(r)

\* The event loop runs: while anything can go on by itself, something does.
Spec == Init /\ [][Next]_vars /\ WF_vars(Proceeds)

-----------------------------------------------------------------------------
(* Properties. *)

Pcs == {"idle", "capture", "captured", "verify", "verified", "reused", "rebuild",
        "rebuilt", "joined", "waiting", "again", "done"}

Verifications == [key : Nat \ {0}, from : Nat, since : Nat]
Served == Generations \cup {NoCatalog}
Caches == [key : Nat \ {0}, verdict : {"fresh", "stale"}] \cup {NoCache}

Syncs == [stage : {"probe", "load", "confirm", "final"}, round : {1, 2}, by : Requests,
          ident : Nat, payload : Catalogs \cup {NoCatalog}, prior : Served,
          priorCache : Caches, began : Nat]
Results == [stage : {"done"}, by : Requests, ok : BOOLEAN, gen : Served]

Calls == [kind : Kinds, pc : Pcs, ok : BOOLEAN, gen : Served,
          verdict : {"none", "fresh", "stale"}, forced : BOOLEAN,
          decision : {"pending", "rebuild", "no-op"}, prior : Served, fallback : Served,
          action : {"none", "failed", "no-op", "reloaded", "rebuilt"},
          on : Requests \cup {NoRequest}, since : Nat, floor : Nat,
          early : SUBSET Verifications]

\* Every variable has its type, and whatever is served, kept to be put back or handed to a
\* request has the payload of its key (GraphGenerationController, CatalogFreshnessController).
TypeOK ==
    /\ disk \in Catalogs \cup {NoCatalog}
    /\ stored \subseteq Nat \ {0}
    /\ built \in Nat /\ tree \in Nat /\ faults \in Nat
    /\ generation \in Served
    /\ cache \in Caches
    /\ verifying \subseteq Verifications
    /\ sync \in Syncs \cup Results \cup {NoSync}
    /\ refreshing \in Requests \cup {NoRequest}
    /\ req \in [Requests -> Calls]
    /\ answered \in Nat

\* A capture is all or nothing (syncPersistedGeneration): one that succeeds serves a catalog
\* that was persisted at some time while the capture ran, with its own payload, whatever other
\* processes wrote between its reads; one that fails leaves the generation and the cached
\* verdict of before it, whichever of its reads failed and whatever it had swapped in.
CaptureAllOrNothing ==
    [][Syncing /\ ~Syncing' =>
         IF sync'.ok
         THEN /\ sync'.gen = generation'
              /\ Key(generation') >= sync.began
              /\ generation' # NoCatalog => /\ generation'.key \in stored
                                            /\ generation'.catalog.id = generation'.key
         ELSE generation' = sync.prior /\ cache' = sync.priorCache]_vars

\* A query is never served an older catalog than one a query was answered from before it was
\* asked, though captures are shared, a failed refresh puts an older generation back, and a
\* rebuild that could not be persisted is dropped (capture, runQuery).
NeverGoesBack ==
    \A r \in Requests :
       req[r].kind = "query" /\ req[r].pc \in {"captured", "verify", "verified"} /\ req[r].ok
          => Key(req[r].gen) >= req[r].floor

\* Only one request at a time verifies in order to rebuild, or rebuilds (inFlightRefresh).
Working(r) == /\ req[r].kind # "query"
              /\ req[r].pc \in {"capture", "captured", "verify", "verified", "reused",
                                "rebuild", "rebuilt"}
SingleFlight == \A r, s \in Requests : Working(r) /\ Working(s) => r = s

\* A forced call that succeeds has rebuilt, in its own flight or in the one it joined, whatever
\* that flight had decided when it was joined.
ForcedRebuilds ==
    \A r \in Requests : req[r].kind = "forced" => req[r].action \in {"none", "failed", "rebuilt"}

\* Catalog c is of files no older than the flight s, or than the verification of c that ran when
\* the flight began and that it may have joined.
Recent(s, c) ==
    \/ c.from >= s.floor
    \/ \E v \in s.early : v.key = c.id /\ c.from >= v.since

\* What a flight reuses is as recent as that; what it has rebuilt, as the flight itself.
FreshEnough ==
    \A r \in Requests : Working(r) =>
       /\ req[r].pc = "reused" => Recent(req[r], req[r].gen.catalog)
       /\ req[r].pc = "rebuilt" => req[r].gen.catalog.from >= req[r].floor

\* What refresh() promises its callers: one flight at a time works; a forced call that succeeds
\* has rebuilt; and no flight answers with what an edit from before it has made stale, whatever
\* verdict was cached, restored or in flight (refresh, runRefresh, verify).
RefreshSound == SingleFlight /\ ForcedRebuilds /\ FreshEnough

\* Every request is answered: nobody waits for a flight that has ended, or for himself.
Open(r) == req[r].pc \notin {"idle", "done"}
EveryRequestAnswered == (\E r \in Requests : Open(r)) ~> (\A r \in Requests : ~Open(r))

\* ADR-0148: "A failed probe, verification, or rebuild retains a usable prior generation".
\* What runRefresh puts back is what it saw before it awaited.
FailureRetains ==
    [][\A r \in Requests : req[r].pc \in {"verified", "rebuild"} /\ req'[r].action = "failed"
                             => Key(generation') >= Key(generation)]_vars
=============================================================================
