----------------------- MODULE CatalogGenerationProofs -----------------------
(* Theorems about CatalogGeneration, for any requests, catalogs, edits and faults. *)
EXTENDS CatalogGeneration, TLAPS

\* The row only moves forward, and is one of the catalogs that were ever stored.
Forward ==
    /\ \A i \in stored : i <= built
    /\ disk # NoCatalog => disk.id \in stored

\* A capture that runs belongs to the one request that awaits it; it has seen no catalog the
\* row has not had since it began.
Loading ==
    /\ Syncing => /\ sync.began <= DiskId
                  /\ sync.stage \in {"load", "confirm"} => sync.ident # 0 /\ disk # NoCatalog
                  /\ sync.stage = "confirm" => sync.payload # NoCatalog
                  /\ req[sync.by].pc = "capture"
                  /\ req[sync.by].kind = "query" => req[sync.by].floor <= sync.began
    /\ \A r \in Requests : req[r].pc = "capture" => Syncing /\ sync.by = r

\* A generation that is verified, or was, exists.
Verified ==
    \A r \in Requests :
       /\ req[r].pc \in {"verify", "verified", "reused"} => req[r].gen # NoCatalog
       /\ req[r].pc = "verify" => req[r].ok

\* The result of a capture that has ended, until it is taken.
Result == sync.stage = "done" /\ sync.ok

Carries(r) == /\ req[r].kind = "query"
              /\ req[r].pc \in {"captured", "verify", "verified"}
              /\ req[r].ok

\* No query was answered from a catalog newer than the row, or than a result that may still be
\* shared; what a query carries lies between what was answered before it and either of these.
Serving ==
    /\ answered <= DiskId
    /\ Result => answered <= Key(sync.gen) /\ Key(sync.gen) <= DiskId
    /\ \A r \in Requests : Carries(r) =>
          /\ req[r].floor <= Key(req[r].gen)
          /\ Key(req[r].gen) <= DiskId
          /\ Result => Key(req[r].gen) <= Key(sync.gen)

\* The flight under way is that of the request that works, if one does.
Owned ==
    /\ \A r \in Requests : Working(r) => refreshing = r
    /\ refreshing # NoRequest => Working(refreshing)

\* A force that was requested of a flight is never lost: the flight rebuilds.
Latched ==
    \A r \in Requests :
       /\ Working(r) /\ req[r].kind = "forced" => req[r].forced
       /\ req[r].pc = "reused" <=> Working(r) /\ req[r].decision = "no-op"
       /\ req[r].pc \in {"rebuild", "rebuilt"} <=> Working(r) /\ req[r].decision = "rebuild"
       /\ req[r].pc = "reused" => ~req[r].forced
       /\ req[r].pc = "joined" /\ req[r].kind = "forced"
             => /\ req[r].on \in Requests /\ Working(req[r].on)
                /\ req[req[r].on].forced \/ req[req[r].on].decision = "rebuild"
       /\ req[r].kind = "forced" => req[r].action \in {"none", "failed", "rebuilt"}

Holds(g, c) == g # NoCatalog /\ g.catalog = c

\* c is persisted, served, loaded, kept to be put back, handed to a request or verified.
InPlay(c) ==
    \/ disk = c
    \/ Holds(generation, c)
    \/ Syncing /\ (Holds(sync.prior, c) \/ sync.payload = c)
    \/ sync.stage = "done" /\ Holds(sync.gen, c)
    \/ \E r \in Requests : Holds(req[r].gen, c) \/ Holds(req[r].fallback, c)
    \/ \E v \in verifying : v.key = c.id /\ v.from = c.from

\* A key names one catalog, of those that were built.
Named ==
    /\ \A c \in Catalogs : InPlay(c) => c.id <= built
    /\ \A c, d \in Catalogs : InPlay(c) /\ InPlay(d) /\ c.id = d.id => c = d
    /\ cache # NoCache => cache.key <= built
    /\ Syncing /\ sync.priorCache # NoCache => sync.priorCache.key <= built

\* A cached verdict that flight s may use.
Usable(x, s) ==
    x # NoCache /\ x.verdict = "fresh"
       => \A c \in Catalogs : InPlay(c) /\ c.id = x.key => Recent(s, c)

\* What the flight knows, and what it may still be told, is recent: by the cache, by the cache
\* that a failed capture puts back, and by the verifications that run.
Informed(s) ==
    /\ s.floor <= tree
    /\ Usable(cache, s)
    /\ Syncing => Usable(sync.priorCache, s)
    /\ \A v \in verifying : v.since >= s.floor \/ v \in s.early
    /\ s.pc \in {"verified", "reused"} /\ s.verdict = "fresh" => Recent(s, s.gen.catalog)
    /\ s.pc = "reused" => s.verdict = "fresh"
    /\ s.pc = "rebuild" => s.since >= s.floor
    /\ s.pc = "rebuilt" => s.gen.catalog.from >= s.floor

Recency == \A r \in Requests : Working(r) => Informed(req[r])

IInv == /\ TypeOK /\ Forward /\ Loading /\ Verified /\ Serving /\ Owned /\ Latched
        /\ Named /\ Recency

-----------------------------------------------------------------------------
(* Types. *)

LEMMA KeyTyped == ASSUME NEW g \in Served PROVE Key(g) \in Nat
  BY DEF Served, Generations, Key

LEMMA DiskIdTyped == ASSUME TypeOK PROVE DiskId \in Nat
  BY DEF TypeOK, Catalogs, DiskId

LEMMA IdleTyped == Idle \in Calls /\ Done \in Calls
  BY DEF Idle, Done, Calls, Kinds, Pcs, Served

LEMMA FlightTyped ==
  ASSUME TypeOK, NEW kind \in Kinds
  PROVE  /\ Flight(kind) \in Calls
         /\ Flight(kind).kind = kind /\ Flight(kind).forced = (kind = "forced")
         /\ Flight(kind).decision = "pending" /\ Flight(kind).action = "none"
         /\ Flight(kind).floor = tree /\ Flight(kind).early = verifying
         /\ Flight(kind).gen = NoCatalog /\ Flight(kind).fallback = generation
<1>1. ASSUME NEW s \in Calls, NEW b \in BOOLEAN
      PROVE  LET f == [s EXCEPT !.kind = kind, !.forced = b, !.prior = generation,
                                !.fallback = generation, !.floor = tree, !.early = verifying] IN
             /\ f \in Calls /\ f.kind = kind /\ f.forced = b
             /\ f.decision = s.decision /\ f.action = s.action /\ f.gen = s.gen
             /\ f.floor = tree /\ f.early = verifying /\ f.fallback = generation
  BY DEF Calls, TypeOK
<1>2. Idle.decision = "pending" /\ Idle.action = "none" /\ Idle.gen = NoCatalog BY DEF Idle
<1>3. (kind = "forced") \in BOOLEAN /\ Idle \in Calls BY IdleTyped
<1> QED BY <1>1, <1>2, <1>3, Zenon DEF Flight

LEMMA SyncingTyped ==
  ASSUME TypeOK
  PROVE  /\ Syncing => sync \in Syncs
         /\ sync.stage = "done" => sync \in Results
         /\ sync.stage = "none" => sync = NoSync
         /\ ~Syncing => sync.stage \in {"none", "done"}
  BY DEF TypeOK, Syncing, Syncs, Results, NoSync

LEMMA SyncEndsTyped ==
  ASSUME TypeOK, Syncing, NEW ok \in BOOLEAN, NEW gen \in Served, SyncEnds(ok, gen)
  PROVE  /\ sync' \in Results
         /\ req' \in [Requests -> Calls]
<1>1. sync \in Syncs BY SyncingTyped
<1>2. sync.by \in Requests BY <1>1 DEF Syncs
<1>3. sync' \in Results BY <1>2 DEF SyncEnds, Results
<1>4. req \in [Requests -> Calls] BY DEF TypeOK
<1> DEFINE s == [req[sync.by] EXCEPT !.pc = "captured", !.ok = ok, !.gen = gen]
<1>5. s \in Calls
  <2>1. ASSUME NEW c \in Calls
        PROVE  [c EXCEPT !.pc = "captured", !.ok = ok, !.gen = gen] \in Calls
    BY DEF Calls, Pcs
  <2> QED BY <1>2, <1>4, <2>1
<1>6. req' = [req EXCEPT ![sync.by] = s] BY DEF SyncEnds
<1> HIDE DEF s
<1> QED BY <1>2, <1>3, <1>4, <1>5, <1>6

LEMMA BeginCaptureTyped ==
  ASSUME TypeOK, ~Syncing, NEW r \in Requests, NEW s \in Calls, NEW c \in Caches,
         BeginCapture(r, s, c)
  PROVE  /\ sync' \in Syncs \cup Results
         /\ req' \in [Requests -> Calls]
<1>1. req \in [Requests -> Calls] /\ generation \in Served BY DEF TypeOK
<1>2. CASE sync.stage = "none"
  <2>1. sync' \in Syncs
    BY <1>1, <1>2, DiskIdTyped DEF BeginCapture, Syncs
  <2>2. [s EXCEPT !.pc = "capture", !.on = r] \in Calls BY DEF Calls, Pcs
  <2> QED BY <1>1, <1>2, <2>1, <2>2 DEF BeginCapture
<1>3. CASE sync.stage = "done"
  <2>1. sync \in Results BY <1>3, SyncingTyped
  <2>2. [s EXCEPT !.pc = "captured", !.on = sync.by, !.ok = sync.ok, !.gen = sync.gen] \in Calls
    BY <2>1 DEF Calls, Pcs, Results
  <2> QED BY <1>1, <1>3, <2>1, <2>2 DEF BeginCapture
<1> QED BY <1>2, <1>3, SyncingTyped

LEMMA NextProbeTyped ==
  ASSUME TypeOK, Syncing, NextProbe
  PROVE  sync' \in Syncs
  BY SyncingTyped DEF NextProbe, Syncs

LEMMA BeginVerifyTyped ==
  ASSUME TypeOK, NEW r \in Requests, NEW s \in Calls, s.gen # NoCatalog, BeginVerify(r, s)
  PROVE  /\ req' \in [Requests -> Calls]
         /\ verifying' \subseteq Verifications
<1>1. req \in [Requests -> Calls] BY DEF TypeOK
<1>2. s.gen \in Generations BY DEF Calls, Served
<1>3. CASE /\ cache # NoCache /\ cache.key = s.gen.key
           /\ req' = [req EXCEPT ![r] = [s EXCEPT !.pc = "verified", !.ok = TRUE,
                                                  !.verdict = cache.verdict]]
           /\ UNCHANGED verifying
  <2>1. cache.verdict \in {"fresh", "stale"} BY <1>3 DEF TypeOK, Caches
  <2>2. [s EXCEPT !.pc = "verified", !.ok = TRUE, !.verdict = cache.verdict] \in Calls
    BY <2>1 DEF Calls, Pcs
  <2> QED BY <1>1, <1>3, <2>2 DEF TypeOK
<1>4. CASE req' = [req EXCEPT ![r] = [s EXCEPT !.pc = "verify"]]
  <2>1. [s EXCEPT !.pc = "verify"] \in Calls BY DEF Calls, Pcs
  <2>2. [key |-> s.gen.key, from |-> s.gen.catalog.from, since |-> tree]
          \in Verifications
    BY <1>2 DEF Generations, Catalogs, TypeOK, Verifications
  <2>3. verifying' = verifying
        \/ verifying' = verifying \cup {[key |-> s.gen.key, from |-> s.gen.catalog.from,
                                         since |-> tree]}
        \/ verifying' = verifying
    BY DEF BeginVerify
  <2> QED BY <1>1, <1>4, <2>1, <2>2, <2>3 DEF TypeOK
<1> QED BY <1>3, <1>4 DEF BeginVerify

LEMMA VerifyEndsTyped ==
  ASSUME TypeOK, NEW v \in verifying, NEW ok \in BOOLEAN, NEW d \in {"none", "fresh", "stale"},
         VerifyEnds(v, ok, d)
  PROVE  /\ req' \in [Requests -> Calls]
         /\ verifying' \subseteq Verifications
<1>1. ASSUME NEW s \in Calls PROVE [s EXCEPT !.pc = "verified", !.ok = ok, !.verdict = d] \in Calls
  BY DEF Calls, Pcs
<1> QED BY <1>1 DEF VerifyEnds, TypeOK

LEMMA SettleTyped ==
  ASSUME TypeOK, NEW r \in Requests,
         NEW action \in {"none", "failed", "no-op", "reloaded", "rebuilt"}, Settle(r, action)
  PROVE  /\ req' \in [Requests -> Calls]
         /\ refreshing' \in Requests \cup {NoRequest}
<1>0. ASSUME NEW s \in Calls, NEW k \in Kinds
      PROVE  /\ [s EXCEPT !.kind = k, !.action = action] \in Calls
             /\ [s EXCEPT !.pc = "again"] \in Calls
  BY DEF Calls, Pcs
<1>1. ASSUME NEW s \in Calls
      PROVE  /\ [Done EXCEPT !.kind = s.kind, !.action = action] \in Calls
             /\ [s EXCEPT !.pc = "again"] \in Calls
  <2>1. Done \in Calls BY IdleTyped
  <2>2. s.kind \in Kinds BY DEF Calls
  <2>3. [Done EXCEPT !.kind = s.kind, !.action = action] \in Calls
    BY <1>0, <2>1, <2>2, Zenon
  <2> QED BY <1>0, <2>2, <2>3
<1>2. req \in [Requests -> Calls] /\ refreshing \in Requests \cup {NoRequest} BY DEF TypeOK
<1>3. ASSUME NEW t \in Requests PROVE req'[t] \in Calls
  BY <1>1, <1>2 DEF Settle
<1> QED BY <1>2, <1>3 DEF Settle

LEMMA FlightFailsTyped ==
  ASSUME TypeOK, NEW r \in Requests, FlightFails(r)
  PROVE  /\ req' \in [Requests -> Calls]
         /\ refreshing' \in Requests \cup {NoRequest}
         /\ generation' \in Served
  BY SettleTyped DEF FlightFails, TypeOK, Calls

LEMMA SyncFailsTyped ==
  ASSUME TypeOK, Syncing, SyncFails
  PROVE  /\ sync' \in Results /\ req' \in [Requests -> Calls]
         /\ generation' \in Served /\ cache' \in Caches
<1>1. NoCatalog \in Served BY DEF Served
<1> QED BY <1>1, SyncEndsTyped, SyncingTyped DEF SyncFails, Syncs

LEMMA TypeStep ==
  ASSUME TypeOK, Loading, Verified, [Next]_vars
  PROVE  TypeOK'
<1> USE DEF TypeOK
<1>1. NoCache \in Caches /\ NoCatalog \in Served BY DEF Caches, Served
<1>2. ASSUME UNCHANGED vars PROVE TypeOK' BY <1>2 DEF vars
<1>3. ASSUME Edit PROVE TypeOK' BY <1>3 DEF Edit
<1>4. ASSUME NEW n \in Nat, NEW t \in Nat
      PROVE  [id |-> n + 1, from |-> t] \in Catalogs
  BY DEF Catalogs
<1>5. ASSUME ExternalGraph PROVE TypeOK'
  <2>1. [id |-> built + 1, from |-> tree] \in Catalogs BY <1>4
  <2> QED BY <1>5, <2>1 DEF ExternalGraph, replaceAll
<1>6. ASSUME ProbeMissing \/ ProbeCurrent PROVE TypeOK'
  <2>1. sync' \in Syncs
    BY <1>6, NextProbeTyped DEF ProbeMissing, ProbeCurrent
  <2> QED BY <1>1, <1>6, <2>1 DEF ProbeMissing, ProbeCurrent, NotSync
<1>7. ASSUME ProbeOther \/ LoadCatalog PROVE TypeOK'
  <2>1. sync \in Syncs BY <1>7, SyncingTyped DEF ProbeOther, LoadCatalog
  <2>2. sync' \in Syncs
    BY <1>7, <2>1, DiskIdTyped DEF ProbeOther, LoadCatalog, Syncs
  <2> QED BY <1>7, <2>2 DEF ProbeOther, LoadCatalog, NotSync
<1>8. ASSUME ConfirmRaced PROVE TypeOK'
  BY <1>8, NextProbeTyped DEF ConfirmRaced, NotSync
<1>9. ASSUME ConfirmSame PROVE TypeOK'
  <2>1. sync \in Syncs /\ Syncing BY <1>9, SyncingTyped DEF ConfirmSame
  <2>2. CASE sync.payload.id = sync.ident
    <3>1. sync.ident \in Nat \ {0} /\ sync.payload \in Catalogs
      BY <1>9, <2>1 DEF ConfirmSame, Loading, Syncs
    <3>2. createGeneration(sync.payload, sync.ident) \in Served
      BY <2>2, <3>1 DEF createGeneration, Served, Generations
    <3> QED BY <1>1, <1>9, <2>1, <2>2, <3>2, NextProbeTyped DEF ConfirmSame, NotSync
  <2>3. CASE sync.payload.id # sync.ident
    BY <1>9, <2>1, <2>3, SyncFailsTyped DEF ConfirmSame, NotSync
  <2> QED BY <2>2, <2>3
<1>10. ASSUME SyncFinal PROVE TypeOK'
  <2>1. CASE StillPersisted
    BY <1>10, <2>1, SyncEndsTyped DEF SyncFinal, NotSync
  <2>2. CASE ~StillPersisted
    BY <1>10, <2>2, SyncFailsTyped DEF SyncFinal, NotSync
  <2> QED BY <2>1, <2>2
<1>11. ASSUME SyncReadFails PROVE TypeOK'
  BY <1>11, SyncFailsTyped DEF SyncReadFails, Fault, NotSync
<1>12. ASSUME NEW v \in verifying, VerifySettles(v) PROVE TypeOK'
  <2>1. PICK seen \in v.since..tree :
          LET verdict == IF seen = v.from THEN "fresh" ELSE "stale" IN
          /\ VerifyEnds(v, TRUE, verdict)
          /\ cache' = IF Key(generation) = v.key THEN [key |-> v.key, verdict |-> verdict]
                                                 ELSE cache
    BY <1>12 DEF VerifySettles
  <2> DEFINE verdict == IF seen = v.from THEN "fresh" ELSE "stale"
  <2>2. verdict \in {"fresh", "stale"} /\ v.key \in Nat \ {0} BY DEF Verifications
  <2>3. VerifyEnds(v, TRUE, verdict)
        /\ cache' = IF Key(generation) = v.key THEN [key |-> v.key, verdict |-> verdict]
                                               ELSE cache
    BY <2>1
  <2> HIDE DEF verdict
  <2>4. cache' \in Caches BY <2>2, <2>3 DEF Caches
  <2>5. req' \in [Requests -> Calls]
        /\ verifying' \subseteq Verifications
    BY <2>2, <2>3, VerifyEndsTyped
  <2> QED BY <1>12, <2>4, <2>5 DEF VerifySettles
<1>13. ASSUME NEW v \in verifying, VerifyFails(v) PROVE TypeOK'
  <2>1. req' \in [Requests -> Calls]
        /\ verifying' \subseteq Verifications
    BY <1>13, VerifyEndsTyped DEF VerifyFails
  <2> QED BY <1>13, <2>1 DEF VerifyFails, Fault
<1>14. ASSUME NEW r \in Requests, Ask(r) PROVE TypeOK'
  <2> DEFINE s == [Idle EXCEPT !.floor = answered]
  <2>1. s \in Calls BY IdleTyped DEF Calls
  <2>2. BeginCapture(r, s, cache) BY <1>14 DEF Ask
  <2> HIDE DEF s
  <2>3. sync' \in Syncs \cup Results /\ req' \in [Requests -> Calls]
    BY <1>14, <2>1, <2>2, BeginCaptureTyped DEF Ask
  <2> QED BY <1>14, <2>3 DEF Ask
<1>15. ASSUME NEW r \in Requests, NEW kind \in Kinds, ~Syncing, BeginRefresh(r, kind)
       PROVE  /\ sync' \in Syncs \cup Results /\ req' \in [Requests -> Calls]
              /\ refreshing' \in Requests /\ cache' \in Caches
  <2>1. Flight(kind) \in Calls BY FlightTyped
  <2>2. BeginCapture(r, Flight(kind), NoCache) BY <1>15 DEF BeginRefresh
  <2> QED BY <1>1, <1>15, <2>1, <2>2, BeginCaptureTyped DEF BeginRefresh
<1>16. ASSUME NEW r \in Requests, NEW kind \in Kinds, NEW pc \in Pcs
       PROVE  Join(r, kind, pc) \in [Requests -> Calls]
  <2>1. [Idle EXCEPT !.kind = kind, !.pc = pc, !.on = refreshing] \in Calls
    BY IdleTyped DEF Calls
  <2> QED BY <2>1 DEF Join
<1>17. ASSUME NEW r \in Requests, Refresh(r) PROVE TypeOK'
  <2>1. CASE refreshing = NoRequest
    BY <1>15, <1>17, <2>1 DEF Refresh, Kinds
  <2>2. CASE refreshing # NoRequest
    <3>1. req' = Join(r, "refresh", "joined") /\ UNCHANGED <<refreshing, cache, sync>>
      BY <1>17, <2>2 DEF Refresh
    <3> QED BY <1>16, <1>17, <3>1 DEF Refresh, Kinds, Pcs
  <2> QED BY <2>1, <2>2
<1>18. ASSUME NEW r \in Requests, RefreshForced(r) PROVE TypeOK'
  <2>1. CASE refreshing = NoRequest
    BY <1>15, <1>18, <2>1 DEF RefreshForced, Kinds
  <2>2. CASE refreshing # NoRequest
    <3>1. JoinForced(r) /\ UNCHANGED <<refreshing, cache, sync>>
      BY <1>18, <2>2 DEF RefreshForced
    <3>2. ASSUME NEW f \in [Requests -> Calls]
          PROVE  [f EXCEPT ![refreshing].forced = TRUE] \in [Requests -> Calls]
      <4>1. ASSUME NEW c \in Calls PROVE [c EXCEPT !.forced = TRUE] \in Calls BY DEF Calls
      <4> QED BY <2>2, <4>1
    <3>3. Join(r, "forced", "joined") \in [Requests -> Calls]
          /\ Join(r, "forced", "waiting") \in [Requests -> Calls]
      BY <1>16 DEF Kinds, Pcs
    <3>4. req' \in [Requests -> Calls] BY <3>1, <3>2, <3>3 DEF JoinForced
    <3> QED BY <1>18, <3>1, <3>4 DEF RefreshForced
  <2> QED BY <2>1, <2>2
<1>19. ASSUME NEW r \in Requests, QueryCaptured(r) \/ RefreshCaptured(r)
       PROVE  sync' \in Syncs \cup Results \cup {NoSync}
  BY <1>19 DEF QueryCaptured, RefreshCaptured, TakeCapture
<1>20. ASSUME NEW r \in Requests, QueryCaptured(r) PROVE TypeOK'
  <2>1. CASE req[r].ok /\ req[r].gen # NoCatalog
    <3>1. BeginVerify(r, req[r]) BY <1>20, <2>1 DEF QueryCaptured, Taken
    <3> QED BY <1>19, <1>20, <2>1, <3>1, BeginVerifyTyped DEF QueryCaptured
  <2>2. CASE ~(req[r].ok /\ req[r].gen # NoCatalog)
    <3>1. req' = [req EXCEPT ![r] = Done] /\ UNCHANGED verifying
      BY <1>20, <2>2 DEF QueryCaptured, Taken
    <3> QED BY <1>19, <1>20, <3>1, IdleTyped DEF QueryCaptured
  <2> QED BY <2>1, <2>2
<1>21. ASSUME NEW r \in Requests, Answer(r) PROVE TypeOK'
  <2>1. req[r].gen \in Generations BY <1>21 DEF Answer, Verified, Calls, Served
  <2>2. req[r].gen.key \in Nat BY <2>1 DEF Generations
  <2> QED BY <1>21, <2>2, IdleTyped DEF Answer
<1>22. ASSUME NEW c \in Calls
       PROVE  /\ Rebuild(c) \in Calls
              /\ [c EXCEPT !.decision = "no-op", !.pc = "reused"] \in Calls
  BY DEF Rebuild, Calls, Pcs
<1>23. ASSUME NEW r \in Requests, RefreshCaptured(r) PROVE TypeOK'
  <2> DEFINE gen == req[r].gen
             kept == [req[r] EXCEPT !.fallback = IF gen # NoCatalog THEN gen
                                                 ELSE req[r].fallback]
  <2>1. kept \in Calls /\ kept.gen = gen BY DEF Calls
  <2>2. /\ ~req[r].ok => Settle(r, "failed") /\ UNCHANGED verifying
        /\ req[r].ok /\ (gen = NoCatalog \/ req[r].forced)
             => req' = [req EXCEPT ![r] = Rebuild(kept)] /\ UNCHANGED <<verifying, refreshing>>
        /\ req[r].ok /\ gen # NoCatalog /\ ~req[r].forced
             => BeginVerify(r, kept) /\ UNCHANGED refreshing
    BY <1>23 DEF RefreshCaptured
  <2>3. /\ req' \in [Requests -> Calls]
        /\ refreshing' \in Requests \cup {NoRequest}
        /\ verifying' \subseteq Verifications
    <3> HIDE DEF kept
    <3>1. CASE ~req[r].ok BY <2>2, <3>1, SettleTyped
    <3>2. CASE req[r].ok /\ (gen = NoCatalog \/ req[r].forced) BY <1>22, <2>1, <2>2, <3>2
    <3>3. CASE req[r].ok /\ gen # NoCatalog /\ ~req[r].forced
      BY <2>1, <2>2, <3>3, BeginVerifyTyped
    <3> QED BY <3>1, <3>2, <3>3
  <2> QED BY <1>19, <1>23, <2>3 DEF RefreshCaptured
<1>24. ASSUME NEW r \in Requests, RefreshUnverified(r) \/ RebuildFails(r) PROVE TypeOK'
  <2>1. FlightFails(r) /\ faults' \in Nat BY <1>24 DEF RefreshUnverified, RebuildFails, Fault
  <2>2. UNCHANGED <<disk, stored, built, tree, cache, verifying, sync, answered>>
    BY <1>24 DEF RefreshUnverified, RebuildFails
  <2> QED BY <2>1, <2>2, FlightFailsTyped
<1>25. ASSUME NEW r \in Requests, RefreshReuses(r) \/ RefreshRebuilds(r) PROVE TypeOK'
  <2>1. req' \in [Requests -> Calls] BY <1>22, <1>25 DEF RefreshReuses, RefreshRebuilds
  <2> QED BY <1>25, <2>1 DEF RefreshReuses, RefreshRebuilds
<1>26. ASSUME NEW r \in Requests, RefreshReused(r) PROVE TypeOK'
  <2>1. PICK a \in {"none", "failed", "no-op", "reloaded", "rebuilt"} : Settle(r, a)
    BY <1>26 DEF RefreshReused
  <2> QED BY <1>26, <2>1, SettleTyped DEF RefreshReused
<1>27. ASSUME NEW r \in Requests, RebuildPersists(r) PROVE TypeOK'
  <2>1. PICK read \in req[r].since..tree :
          LET c == [id |-> built + 1, from |-> read] IN
          /\ \/ replaceAll(c) /\ UNCHANGED faults
             \/ Fault /\ UNCHANGED <<disk, stored>>
          /\ req' = [req EXCEPT ![r] = [req[r] EXCEPT !.pc = "rebuilt",
                                                      !.gen = createGeneration(c, c.id)]]
    BY <1>27 DEF RebuildPersists
  <2> DEFINE c == [id |-> built + 1, from |-> read]
  <2>2. req[r].since \in Nat BY DEF Calls
  <2>3. c \in Catalogs /\ c.id \in Nat \ {0} BY <1>4, <2>2 DEF Catalogs
  <2>4. /\ \/ replaceAll(c) /\ UNCHANGED faults
           \/ Fault /\ UNCHANGED <<disk, stored>>
        /\ req' = [req EXCEPT ![r] = [req[r] EXCEPT !.pc = "rebuilt",
                                                    !.gen = createGeneration(c, c.id)]]
    BY <2>1
  <2> HIDE DEF c
  <2>5. createGeneration(c, c.id) \in Served
    BY <2>3 DEF createGeneration, Served, Generations
  <2>6. ASSUME NEW s \in Calls, NEW g \in Served
        PROVE  [s EXCEPT !.pc = "rebuilt", !.gen = g] \in Calls
    BY DEF Calls, Pcs
  <2>7. req' \in [Requests -> Calls] BY <2>4, <2>5, <2>6
  <2>8. disk' \in Catalogs \cup {NoCatalog} /\ stored' \subseteq Nat \ {0} /\ faults' \in Nat
    BY <2>3, <2>4 DEF replaceAll, Fault
  <2> QED BY <1>27, <2>7, <2>8 DEF RebuildPersists
<1>28. ASSUME NEW r \in Requests, RebuildReturns(r) PROVE TypeOK'
  <2>1. req[r].gen \in Served BY DEF Calls
  <2> QED BY <1>1, <1>28, <2>1, SettleTyped DEF RebuildReturns
<1> QED
  BY <1>2, <1>3, <1>5, <1>6, <1>7, <1>8, <1>9, <1>10, <1>11, <1>12, <1>13, <1>14, <1>17,
     <1>18, <1>20, <1>21, <1>23, <1>24, <1>25, <1>26, <1>27, <1>28
  DEF Next, Proceeds, SyncStep, Proceed

-----------------------------------------------------------------------------
(* The row. *)

LEMMA ReplaceForward ==
  ASSUME TypeOK, Forward, NEW c \in Catalogs, c.id = built + 1, replaceAll(c), built' = built + 1
  PROVE  Forward' /\ DiskId <= DiskId' /\ disk' # NoCatalog /\ stored \subseteq stored'
<1>1. c # NoCatalog BY Parameters DEF Catalogs
<1>2. \A i \in stored : i <= built BY DEF Forward
<1>3. Forward'
  BY <1>1, <1>2 DEF TypeOK, Forward, replaceAll
<1>4. DiskId' = built + 1 BY <1>1 DEF DiskId, replaceAll
<1>5. DiskId <= built
  <2>1. CASE disk = NoCatalog BY <2>1 DEF TypeOK, DiskId
  <2>2. CASE disk # NoCatalog BY <1>2, <2>2 DEF Forward, DiskId
  <2> QED BY <2>1, <2>2
<1> QED BY <1>1, <1>3, <1>4, <1>5, DiskIdTyped DEF TypeOK, replaceAll

LEMMA ForwardStep ==
  ASSUME TypeOK, Forward, [Next]_vars
  PROVE  /\ Forward' /\ DiskId <= DiskId'
         /\ disk # NoCatalog => disk' # NoCatalog
<1>1. CASE UNCHANGED <<disk, stored, built>>
  BY <1>1, DiskIdTyped DEF Forward, DiskId
<1>2. CASE ExternalGraph
  <2>1. [id |-> built + 1, from |-> tree] \in Catalogs BY DEF TypeOK, Catalogs
  <2> QED BY <1>2, <2>1, ReplaceForward DEF ExternalGraph
<1>3. ASSUME NEW r \in Requests, RebuildPersists(r)
      PROVE  /\ Forward' /\ DiskId <= DiskId'
             /\ disk # NoCatalog => disk' # NoCatalog
  <2>1. PICK read \in req[r].since..tree :
          \/ replaceAll([id |-> built + 1, from |-> read])
          \/ UNCHANGED <<disk, stored>>
    BY <1>3 DEF RebuildPersists
  <2>2. built' = built + 1 BY <1>3 DEF RebuildPersists
  <2>3. CASE UNCHANGED <<disk, stored>>
    BY <2>2, <2>3, DiskIdTyped DEF Forward, DiskId, TypeOK
  <2>4. CASE replaceAll([id |-> built + 1, from |-> read])
    <3>1. req[r].since \in Nat BY DEF TypeOK, Calls
    <3>2. [id |-> built + 1, from |-> read] \in Catalogs BY <3>1 DEF TypeOK, Catalogs
    <3> QED BY <2>2, <2>4, <3>2, ReplaceForward
  <2> QED BY <2>1, <2>3, <2>4
<1> QED
  BY <1>1, <1>2, <1>3
  DEF Next, Proceeds, SyncStep, Proceed, vars, Edit, ProbeMissing, ProbeCurrent, ProbeOther,
      LoadCatalog, ConfirmRaced, ConfirmSame, SyncFinal, SyncReadFails, NotSync, VerifySettles,
      VerifyFails, Ask, Refresh, RefreshForced, QueryCaptured, Answer, RefreshCaptured,
      RefreshUnverified, RefreshReuses, RefreshRebuilds, RefreshReused, RebuildFails,
      RebuildReturns

-----------------------------------------------------------------------------
(* What a helper does to the requests. *)

LEMMA BeginCaptureDoes ==
  ASSUME TypeOK, ~Syncing, NEW r \in Requests, NEW s \in Calls, NEW c \in Caches,
         BeginCapture(r, s, c)
  PROVE  /\ \A t \in Requests \ {r} : req'[t] = req[t]
         /\ \/ /\ sync.stage = "none" /\ sync'.stage = "probe" /\ sync'.by = r
               /\ sync'.began = DiskId /\ sync'.prior = generation
               /\ sync'.payload = NoCatalog /\ sync'.priorCache = c
               /\ req'[r] = [s EXCEPT !.pc = "capture", !.on = r]
            \/ /\ sync.stage = "done" /\ UNCHANGED sync
               /\ req'[r] = [s EXCEPT !.pc = "captured", !.on = sync.by, !.ok = sync.ok,
                                      !.gen = sync.gen]
<1>1. req \in [Requests -> Calls] BY DEF TypeOK
<1>2. CASE sync.stage = "none"
  BY <1>1, <1>2 DEF BeginCapture
<1>3. CASE sync.stage = "done"
  BY <1>1, <1>3 DEF BeginCapture
<1> QED BY <1>2, <1>3, SyncingTyped

LEMMA BeginRefreshDoes ==
  ASSUME TypeOK, ~Syncing, NEW r \in Requests, NEW kind \in Kinds, kind # "query",
         BeginRefresh(r, kind)
  PROVE  /\ \A t \in Requests \ {r} : req'[t] = req[t]
         /\ refreshing' = r /\ cache' = NoCache
         /\ req'[r].kind = kind /\ req'[r].forced = (kind = "forced")
         /\ req'[r].decision = "pending" /\ req'[r].action = "none"
         /\ req'[r].floor = tree /\ req'[r].early = verifying /\ req'[r].fallback = generation
         /\ \/ /\ sync.stage = "none" /\ sync'.stage = "probe" /\ sync'.by = r
               /\ sync'.began = DiskId /\ sync'.prior = generation
               /\ sync'.payload = NoCatalog /\ sync'.priorCache = NoCache
               /\ req'[r].pc = "capture" /\ req'[r].gen = NoCatalog
            \/ /\ sync.stage = "done" /\ UNCHANGED sync
               /\ req'[r].pc = "captured" /\ req'[r].gen = sync.gen
<1> DEFINE s == Flight(kind)
<1>1. /\ s \in Calls /\ s.kind = kind /\ s.forced = (kind = "forced") /\ s.decision = "pending"
      /\ s.action = "none" /\ s.floor = tree /\ s.early = verifying /\ s.gen = NoCatalog
      /\ s.fallback = generation
  BY FlightTyped
<1>2. BeginCapture(r, s, NoCache) /\ NoCache \in Caches BY DEF BeginRefresh, Caches
<1> HIDE DEF s
<1>3. /\ \A t \in Requests \ {r} : req'[t] = req[t]
      /\ \/ /\ sync.stage = "none" /\ sync'.stage = "probe" /\ sync'.by = r
            /\ sync'.began = DiskId /\ sync'.prior = generation
            /\ sync'.payload = NoCatalog /\ sync'.priorCache = NoCache
            /\ req'[r] = [s EXCEPT !.pc = "capture", !.on = r]
         \/ /\ sync.stage = "done" /\ UNCHANGED sync
            /\ req'[r] = [s EXCEPT !.pc = "captured", !.on = sync.by, !.ok = sync.ok,
                                   !.gen = sync.gen]
  BY <1>1, <1>2, BeginCaptureDoes
<1>4. refreshing' = r /\ cache' = NoCache BY DEF BeginRefresh
<1>5. /\ req'[r].kind = s.kind /\ req'[r].forced = s.forced
      /\ req'[r].decision = s.decision /\ req'[r].action = s.action
      /\ req'[r].floor = s.floor /\ req'[r].early = s.early
      /\ req'[r].fallback = s.fallback
      /\ sync.stage = "none" => req'[r].pc = "capture" /\ req'[r].gen = s.gen
      /\ sync.stage = "done" => req'[r].pc = "captured" /\ req'[r].gen = sync.gen
  BY <1>1, <1>3 DEF Calls
<1> QED BY <1>1, <1>3, <1>4, <1>5

LEMMA BeginVerifyDoes ==
  ASSUME TypeOK, NEW r \in Requests, NEW s \in Calls, BeginVerify(r, s)
  PROVE  /\ \A t \in Requests \ {r} : req'[t] = req[t]
         /\ \/ /\ req'[r].pc = "verified" /\ req'[r].ok
               /\ cache # NoCache /\ cache.key = s.gen.key /\ req'[r].verdict = cache.verdict
            \/ req'[r].pc = "verify" /\ req'[r].ok = s.ok
         /\ \A v \in verifying' : v \in verifying
               \/ v = [key |-> s.gen.key, from |-> s.gen.catalog.from, since |-> tree]
         /\ req'[r].early = s.early /\ req'[r].fallback = s.fallback
         /\ req'[r].gen = s.gen /\ req'[r].kind = s.kind /\ req'[r].forced = s.forced
         /\ req'[r].decision = s.decision /\ req'[r].action = s.action
         /\ req'[r].floor = s.floor /\ req'[r].on = s.on
<1>1. req \in [Requests -> Calls] BY DEF TypeOK
<1>2. CASE /\ cache # NoCache /\ cache.key = s.gen.key /\ UNCHANGED verifying
           /\ req' = [req EXCEPT ![r] = [s EXCEPT !.pc = "verified", !.ok = TRUE,
                                                  !.verdict = cache.verdict]]
  <2>1. ASSUME NEW d, NEW ok
        PROVE  LET e == [s EXCEPT !.pc = "verified", !.ok = ok, !.verdict = d] IN
               /\ e.pc = "verified" /\ e.ok = ok /\ e.verdict = d /\ e.early = s.early
               /\ e.fallback = s.fallback /\ e.gen = s.gen /\ e.kind = s.kind
               /\ e.forced = s.forced /\ e.decision = s.decision /\ e.action = s.action
               /\ e.floor = s.floor /\ e.on = s.on
    BY DEF Calls
  <2> QED BY <1>1, <1>2, <2>1
<1>3. CASE /\ req' = [req EXCEPT ![r] = [s EXCEPT !.pc = "verify"]]
           /\ \/ UNCHANGED verifying
              \/ verifying' = verifying \cup {[key |-> s.gen.key, from |-> s.gen.catalog.from,
                                                since |-> tree]}
  <2>1. LET e == [s EXCEPT !.pc = "verify"] IN
        /\ e.pc = "verify" /\ e.ok = s.ok /\ e.early = s.early
        /\ e.fallback = s.fallback /\ e.gen = s.gen /\ e.kind = s.kind
        /\ e.forced = s.forced /\ e.decision = s.decision /\ e.action = s.action
        /\ e.floor = s.floor /\ e.on = s.on
    BY DEF Calls
  <2> QED BY <1>1, <1>3, <2>1
<1> QED BY <1>2, <1>3 DEF BeginVerify

LEMMA VerifyEndsDoes ==
  ASSUME TypeOK, NEW v, NEW ok \in BOOLEAN, NEW d, VerifyEnds(v, ok, d), NEW t \in Requests
  PROVE  \/ req'[t] = req[t]
         \/ /\ req[t].pc = "verify" /\ req'[t].pc = "verified" /\ req'[t].ok = ok
            /\ req'[t].gen = req[t].gen /\ req'[t].kind = req[t].kind
            /\ req'[t].forced = req[t].forced /\ req'[t].decision = req[t].decision
            /\ req'[t].action = req[t].action /\ req'[t].floor = req[t].floor
            /\ req'[t].on = req[t].on /\ req'[t].early = req[t].early
            /\ req'[t].fallback = req[t].fallback
            /\ req'[t].verdict = d /\ req[t].gen.key = v.key
<1>1. req[t] \in Calls BY DEF TypeOK
<1>2. ASSUME NEW s \in Calls
      PROVE  LET e == [s EXCEPT !.pc = "verified", !.ok = ok, !.verdict = d] IN
             /\ e.pc = "verified" /\ e.ok = ok /\ e.gen = s.gen /\ e.kind = s.kind
             /\ e.forced = s.forced /\ e.decision = s.decision /\ e.action = s.action
             /\ e.floor = s.floor /\ e.on = s.on /\ e.early = s.early
             /\ e.fallback = s.fallback /\ e.verdict = d
  BY DEF Calls
<1> QED BY <1>1, <1>2 DEF VerifyEnds

LEMMA SettleDoes ==
  ASSUME TypeOK, NEW r \in Requests, NEW action, Settle(r, action), NEW t \in Requests
  PROVE  \/ /\ t = r \/ (req[t].pc = "joined" /\ req[t].on = r)
            /\ req'[t].pc = "done" /\ req'[t].kind = req[t].kind /\ req'[t].action = action
            /\ req'[t].gen = NoCatalog /\ req'[t].fallback = NoCatalog
         \/ /\ t # r /\ req[t].pc = "waiting" /\ req[t].on = r
            /\ req'[t].pc = "again" /\ req'[t].kind = req[t].kind
            /\ req'[t].action = req[t].action
            /\ req'[t].gen = req[t].gen /\ req'[t].fallback = req[t].fallback
         \/ /\ t # r /\ ~(req[t].pc \in {"joined", "waiting"} /\ req[t].on = r)
            /\ req'[t] = req[t]
<1>1. req[t] \in Calls BY DEF TypeOK
<1>2. /\ Done \in Calls /\ Done.pc = "done" /\ Done.gen = NoCatalog
      /\ Done.fallback = NoCatalog
  BY IdleTyped DEF Done, Idle
<1>3. ASSUME NEW s \in Calls, NEW k
      PROVE  /\ [s EXCEPT !.kind = k, !.action = action].pc = s.pc
             /\ [s EXCEPT !.kind = k, !.action = action].kind = k
             /\ [s EXCEPT !.kind = k, !.action = action].action = action
             /\ [s EXCEPT !.kind = k, !.action = action].gen = s.gen
             /\ [s EXCEPT !.kind = k, !.action = action].fallback = s.fallback
             /\ [s EXCEPT !.pc = "again"].gen = s.gen
             /\ [s EXCEPT !.pc = "again"].fallback = s.fallback
             /\ [s EXCEPT !.pc = "again"].pc = "again"
             /\ [s EXCEPT !.pc = "again"].kind = s.kind
             /\ [s EXCEPT !.pc = "again"].action = s.action
  BY DEF Calls
<1>4. req'[t] = IF t = r \/ (req[t].pc = "joined" /\ req[t].on = r)
                THEN [Done EXCEPT !.kind = req[t].kind, !.action = action]
                ELSE IF req[t].pc = "waiting" /\ req[t].on = r THEN [req[t] EXCEPT !.pc = "again"]
                ELSE req[t]
  BY DEF Settle
<1>5. CASE t = r \/ (req[t].pc = "joined" /\ req[t].on = r)
  BY <1>2, <1>3, <1>4, <1>5
<1>6. CASE t # r /\ ~(req[t].pc = "joined" /\ req[t].on = r)
  BY <1>1, <1>3, <1>4, <1>6
<1> QED BY <1>5, <1>6

LEMMA SyncEndsDoes ==
  ASSUME TypeOK, Syncing, NEW ok \in BOOLEAN, NEW gen \in Served, SyncEnds(ok, gen)
  PROVE  /\ sync.by \in Requests
         /\ sync'.stage = "done" /\ sync'.by = sync.by /\ sync'.ok = ok /\ sync'.gen = gen
         /\ \A t \in Requests \ {sync.by} : req'[t] = req[t]
         /\ LET s == req'[sync.by]
                o == req[sync.by] IN
            /\ s.pc = "captured" /\ s.ok = ok /\ s.gen = gen /\ s.kind = o.kind
            /\ s.forced = o.forced /\ s.decision = o.decision /\ s.action = o.action
            /\ s.floor = o.floor /\ s.on = o.on /\ s.early = o.early
            /\ s.fallback = o.fallback
<1>1. sync.by \in Requests BY SyncingTyped DEF Syncs
<1>2. req \in [Requests -> Calls] /\ req[sync.by] \in Calls BY <1>1 DEF TypeOK
<1> DEFINE s == [req[sync.by] EXCEPT !.pc = "captured", !.ok = ok, !.gen = gen]
<1>3. LET o == req[sync.by] IN
      /\ s.pc = "captured" /\ s.ok = ok /\ s.gen = gen /\ s.kind = o.kind
      /\ s.forced = o.forced /\ s.decision = o.decision /\ s.action = o.action
      /\ s.floor = o.floor /\ s.on = o.on /\ s.early = o.early /\ s.fallback = o.fallback
  BY <1>2 DEF Calls
<1>4. req' = [req EXCEPT ![sync.by] = s] BY DEF SyncEnds
<1>5. /\ sync'.stage = "done" /\ sync'.by = sync.by /\ sync'.ok = ok /\ sync'.gen = gen
  BY DEF SyncEnds
<1> HIDE DEF s
<1> QED BY <1>1, <1>2, <1>3, <1>4, <1>5

LEMMA NextProbeDoes ==
  ASSUME TypeOK, Syncing, NextProbe
  PROVE  /\ sync'.stage \in {"probe", "final"} /\ Syncing'
         /\ sync'.by = sync.by /\ sync'.began = sync.began /\ sync'.prior = sync.prior
         /\ sync'.priorCache = sync.priorCache /\ sync'.payload = NoCatalog
<1>1. sync \in Syncs BY SyncingTyped
<1> QED BY <1>1 DEF NextProbe, Syncs, Syncing

LEMMA JoinForcedDoes ==
  ASSUME TypeOK, NEW r \in Requests, refreshing \in Requests, r # refreshing, JoinForced(r)
  PROVE  /\ \A t \in Requests \ {r, refreshing} : req'[t] = req[t]
         /\ req'[r].kind = "forced" /\ req'[r].on = refreshing /\ req'[r].action = "none"
         /\ req'[r].pc \in {"joined", "waiting"}
         /\ req'[r].pc = "joined"
               => req'[refreshing].forced \/ req[refreshing].decision = "rebuild"
         /\ \/ req'[refreshing] = req[refreshing]
            \/ /\ req[refreshing].decision = "pending"
               /\ req'[refreshing] = [req[refreshing] EXCEPT !.forced = TRUE]
<1> DEFINE j == Join(r, "forced", "joined")
           w == Join(r, "forced", "waiting")
<1>1. req \in [Requests -> Calls] BY DEF TypeOK
<1>2. req[refreshing].decision \in {"pending", "rebuild", "no-op"} BY <1>1 DEF Calls
<1>3. "joined" \in Pcs /\ "waiting" \in Pcs /\ "forced" \in Kinds BY DEF Pcs, Kinds
<1>4. /\ j \in [Requests -> Calls]
      /\ \A t \in Requests \ {r} : j[t] = req[t]
      /\ j[r].kind = "forced" /\ j[r].pc = "joined" /\ j[r].on = refreshing
      /\ j[r].action = "none"
  <2> DEFINE s == [Idle EXCEPT !.kind = "forced", !.pc = "joined", !.on = refreshing]
  <2>1. s \in Calls BY <1>3, IdleTyped DEF Calls, TypeOK
  <2>2. s.kind = "forced" /\ s.pc = "joined" /\ s.on = refreshing /\ s.action = "none" BY DEF Idle
  <2>3. j = [req EXCEPT ![r] = s] BY DEF Join
  <2> HIDE DEF s, j
  <2> QED BY <1>1, <2>1, <2>2, <2>3
<1>5. /\ \A t \in Requests \ {r} : w[t] = req[t]
      /\ w[r].kind = "forced" /\ w[r].pc = "waiting" /\ w[r].on = refreshing
      /\ w[r].action = "none"
  <2> DEFINE s == [Idle EXCEPT !.kind = "forced", !.pc = "waiting", !.on = refreshing]
  <2>1. s \in Calls BY <1>3, IdleTyped DEF Calls, TypeOK
  <2>2. s.kind = "forced" /\ s.pc = "waiting" /\ s.on = refreshing /\ s.action = "none" BY DEF Idle
  <2>3. w = [req EXCEPT ![r] = s] BY DEF Join
  <2> HIDE DEF s, w
  <2> QED BY <1>1, <2>1, <2>2, <2>3
<1>6. /\ req[refreshing].decision = "rebuild" => req' = j
      /\ req[refreshing].decision = "pending" => req' = [j EXCEPT ![refreshing].forced = TRUE]
      /\ req[refreshing].decision = "no-op" => req' = w
  BY <1>2 DEF JoinForced
<1> HIDE DEF j, w
<1>7. CASE req[refreshing].decision = "pending"
  <2>1. req' = [j EXCEPT ![refreshing].forced = TRUE] BY <1>6, <1>7
  <2>2. req'[refreshing] = [j[refreshing] EXCEPT !.forced = TRUE] BY <1>4, <2>1
  <2>3. \A t \in Requests \ {refreshing} : req'[t] = j[t] BY <1>4, <2>1
  <2>4. req'[refreshing].forced = TRUE BY <1>4, <2>2 DEF Calls
  <2> QED BY <1>4, <1>7, <2>2, <2>3, <2>4
<1>8. CASE req[refreshing].decision = "rebuild" BY <1>4, <1>6, <1>8
<1>9. CASE req[refreshing].decision = "no-op" BY <1>5, <1>6, <1>9
<1> QED BY <1>2, <1>7, <1>8, <1>9

-----------------------------------------------------------------------------
(* Captures. *)

LEMMA LoadingStep ==
  ASSUME TypeOK, TypeOK', Loading, Serving, Owned, DiskId <= DiskId',
         disk # NoCatalog => disk' # NoCatalog, [Next]_vars
  PROVE  Loading'
<1>1. DiskId \in Nat /\ DiskId' \in Nat BY DiskIdTyped DEF TypeOK, DiskId, Catalogs
<1>2. req \in [Requests -> Calls] BY DEF TypeOK
<1>3. ASSUME UNCHANGED <<sync, req>> PROVE Loading'
  <2>1. Syncing => sync.began \in Nat BY SyncingTyped DEF Syncs
  <2> QED BY <1>1, <1>3, <2>1 DEF Loading, Syncing
<1>4. ASSUME Syncing, sync' \in Syncs, Syncing', sync'.by = sync.by, sync'.began = sync.began,
             UNCHANGED req,
             sync'.stage \in {"load", "confirm"} => sync'.ident # 0 /\ disk' # NoCatalog,
             sync'.stage = "confirm" => sync'.payload # NoCatalog
      PROVE  Loading'
  BY <1>1, <1>4 DEF Loading, Syncs
<1>5. ASSUME ProbeMissing \/ ProbeCurrent \/ ConfirmRaced PROVE Loading'
  <2>1. Syncing /\ NextProbe /\ UNCHANGED req
    BY <1>5 DEF ProbeMissing, ProbeCurrent, ConfirmRaced
  <2> QED BY <1>4, <2>1, NextProbeDoes, NextProbeTyped
<1>6. ASSUME ProbeOther PROVE Loading'
  <2>1. sync \in Syncs BY <1>6, SyncingTyped DEF ProbeOther
  <2>2. DiskId # 0 /\ disk' # NoCatalog
    BY <1>6 DEF ProbeOther, NotSync, TypeOK, Catalogs, DiskId
  <2>3. /\ sync'.stage = "load" /\ sync'.ident = DiskId /\ sync'.by = sync.by
        /\ sync'.began = sync.began
    BY <1>6, <2>1 DEF ProbeOther, Syncs
  <2>4. sync' \in Syncs BY <1>1, <1>6, <2>1 DEF ProbeOther, Syncs
  <2> QED BY <1>4, <1>6, <2>2, <2>3, <2>4 DEF ProbeOther, Syncing
<1>7. ASSUME LoadCatalog PROVE Loading'
  <2>1. sync \in Syncs BY <1>7, SyncingTyped DEF LoadCatalog
  <2>2. disk # NoCatalog /\ disk' # NoCatalog /\ sync.ident # 0
    BY <1>7 DEF LoadCatalog, Loading
  <2>3. /\ sync'.stage = "confirm" /\ sync'.ident = sync.ident /\ sync'.by = sync.by
        /\ sync'.began = sync.began /\ sync'.payload = disk
    BY <1>7, <2>1 DEF LoadCatalog, Syncs
  <2>4. sync' \in Syncs BY <1>7, <2>1 DEF LoadCatalog, Syncs, TypeOK
  <2> QED BY <1>4, <1>7, <2>2, <2>3, <2>4 DEF LoadCatalog, Syncing
<1>8. ASSUME Syncing, NEW ok \in BOOLEAN, NEW gen \in Served, SyncEnds(ok, gen) PROVE Loading'
  BY <1>8, SyncEndsDoes DEF Loading, Syncing
<1>9. ASSUME Syncing, SyncFails PROVE Loading'
  BY <1>8, <1>9 DEF SyncFails, Served
<1>10. ASSUME ConfirmSame PROVE Loading'
  <2>1. Syncing BY <1>10 DEF ConfirmSame
  <2>2. CASE sync.payload.id = sync.ident
    <3>1. NextProbe /\ UNCHANGED req BY <1>10, <2>2 DEF ConfirmSame
    <3> QED BY <1>4, <2>1, <3>1, NextProbeDoes, NextProbeTyped
  <2>3. CASE sync.payload.id # sync.ident BY <1>9, <1>10, <2>1, <2>3 DEF ConfirmSame
  <2> QED BY <2>2, <2>3
<1>11. ASSUME SyncFinal PROVE Loading'
  <2>1. Syncing /\ generation \in Served BY <1>11 DEF SyncFinal, TypeOK
  <2>2. CASE StillPersisted BY <1>8, <1>11, <2>1, <2>2 DEF SyncFinal
  <2>3. CASE ~StillPersisted BY <1>9, <1>11, <2>1, <2>3 DEF SyncFinal
  <2> QED BY <2>2, <2>3
\* While no capture runs no request awaits one.
<1>12. ASSUME ~Syncing PROVE \A t \in Requests : req[t].pc # "capture"
  BY <1>12 DEF Loading
<1>13. ASSUME ~Syncing, sync' = sync \/ sync' = NoSync,
              \A t \in Requests : req'[t] = req[t] \/ req'[t].pc # "capture"
       PROVE  Loading'
  <2>1. ~Syncing' BY <1>13 DEF Syncing, NoSync
  <2>2. \A t \in Requests : req'[t].pc # "capture" BY <1>12, <1>13
  <2> QED BY <2>1, <2>2 DEF Loading
<1>14. ASSUME NEW r \in Requests, Ask(r) PROVE Loading'
  <2> DEFINE s == [Idle EXCEPT !.floor = answered]
  <2>1. s \in Calls BY IdleTyped DEF Calls, TypeOK
  <2>2. s.floor = answered BY DEF Idle
  <2>3. BeginCapture(r, s, cache) /\ cache \in Caches /\ ~Syncing BY <1>14 DEF Ask, TypeOK
  <2> HIDE DEF s
  <2>4. /\ \A t \in Requests \ {r} : req'[t] = req[t]
        /\ \/ /\ sync.stage = "none" /\ sync'.stage = "probe" /\ sync'.by = r
              /\ sync'.began = DiskId
              /\ req'[r] = [s EXCEPT !.pc = "capture", !.on = r]
           \/ /\ sync.stage = "done" /\ UNCHANGED sync
              /\ req'[r] = [s EXCEPT !.pc = "captured", !.on = sync.by, !.ok = sync.ok,
                                     !.gen = sync.gen]
    BY <2>1, <2>3, BeginCaptureDoes
  <2>5. CASE sync.stage = "none"
    <3>1. req'[r].pc = "capture" /\ req'[r].floor = answered
      BY <2>1, <2>2, <2>4, <2>5 DEF Calls
    <3> QED BY <1>1, <1>12, <2>3, <2>4, <2>5, <3>1 DEF Loading, Syncing, Serving
  <2>6. CASE sync.stage = "done"
    <3>1. req'[r].pc = "captured" BY <2>1, <2>4, <2>6 DEF Calls
    <3> QED BY <1>13, <2>3, <2>4, <2>6, <3>1
  <2> QED BY <2>3, <2>5, <2>6, SyncingTyped
<1>15. ASSUME NEW r \in Requests, NEW kind \in {"refresh", "forced"}, ~Syncing,
              BeginRefresh(r, kind)
       PROVE  Loading'
  <2>1. kind \in Kinds /\ kind # "query" BY DEF Kinds
  <2>2. /\ \A t \in Requests \ {r} : req'[t] = req[t]
        /\ req'[r].kind = kind
        /\ \/ /\ sync.stage = "none" /\ sync'.stage = "probe" /\ sync'.by = r
              /\ sync'.began = DiskId
              /\ req'[r].pc = "capture"
           \/ /\ sync.stage = "done" /\ UNCHANGED sync
              /\ req'[r].pc = "captured"
    BY <1>15, <2>1, BeginRefreshDoes
  <2>3. CASE sync.stage = "none"
    BY <1>1, <1>12, <1>15, <2>1, <2>2, <2>3 DEF Loading, Syncing
  <2>4. CASE sync.stage = "done" BY <1>13, <1>15, <2>2, <2>4
  <2> QED BY <1>15, <2>3, <2>4, SyncingTyped
<1>16. ASSUME NEW r \in Requests, Refresh(r) PROVE Loading'
  <2>1. CASE refreshing = NoRequest BY <1>15, <1>16, <2>1 DEF Refresh
  <2>2. CASE refreshing # NoRequest
    <3>1. req' = Join(r, "refresh", "joined") /\ UNCHANGED sync /\ ~Syncing
      BY <1>16, <2>2 DEF Refresh
    <3>2. req'[r].pc = "joined" /\ \A t \in Requests \ {r} : req'[t] = req[t]
      BY <1>2, <3>1 DEF Join, Idle
    <3> QED BY <1>13, <3>1, <3>2
  <2> QED BY <2>1, <2>2
<1>17. ASSUME NEW r \in Requests, RefreshForced(r) PROVE Loading'
  <2>1. CASE refreshing = NoRequest BY <1>15, <1>17, <2>1 DEF RefreshForced
  <2>2. CASE refreshing # NoRequest
    <3>1. JoinForced(r) /\ UNCHANGED sync /\ ~Syncing BY <1>17, <2>2 DEF RefreshForced
    <3>2. \A t \in Requests : req'[t] = req[t] \/ req'[t].pc # "capture"
      <4>1. refreshing \in Requests BY <2>2 DEF TypeOK
      <4>2. r # refreshing BY <1>17, <2>2 DEF RefreshForced, Owned, Working
      <4>3. req[refreshing] \in Calls BY <1>2, <4>1
      <4>4. [req[refreshing] EXCEPT !.forced = TRUE].pc = req[refreshing].pc
        BY <4>3 DEF Calls
      <4>5. /\ \A t \in Requests \ {r, refreshing} : req'[t] = req[t]
            /\ req'[r].pc \in {"joined", "waiting"}
            /\ \/ req'[refreshing] = req[refreshing]
               \/ req'[refreshing] = [req[refreshing] EXCEPT !.forced = TRUE]
        BY <3>1, <4>1, <4>2, JoinForcedDoes
      <4> QED BY <1>12, <3>1, <4>1, <4>4, <4>5
    <3> QED BY <1>13, <3>1, <3>2
  <2> QED BY <2>1, <2>2
<1>18. ASSUME ~Syncing, NEW r \in Requests, NEW s \in Calls, BeginVerify(r, s),
              sync' = sync \/ sync' = NoSync
       PROVE  Loading'
  BY <1>13, <1>18, BeginVerifyDoes
<1>19. ASSUME ~Syncing, NEW r \in Requests, NEW action, Settle(r, action),
              sync' = sync \/ sync' = NoSync
       PROVE  Loading'
  BY <1>13, <1>19, SettleDoes
<1>20. ASSUME ~Syncing, NEW r \in Requests, NEW s, s.pc # "capture", req' = [req EXCEPT ![r] = s],
              sync' = sync \/ sync' = NoSync
       PROVE  Loading'
  BY <1>2, <1>13, <1>20
<1>21. Done.pc = "done" BY DEF Done, Idle
<1>22. ASSUME NEW s \in Calls
       PROVE  /\ Rebuild(s).pc = "rebuild"
              /\ [s EXCEPT !.decision = "no-op", !.pc = "reused"].pc = "reused"
              /\ \A g : [s EXCEPT !.pc = "rebuilt", !.gen = g].pc = "rebuilt"
  BY DEF Rebuild, Calls
<1>23. ASSUME NEW r \in Requests, QueryCaptured(r) PROVE Loading'
  <2>1. ~Syncing /\ (sync' = sync \/ sync' = NoSync)
    BY <1>23 DEF QueryCaptured, TakeCapture
  <2>2. BeginVerify(r, req[r]) \/ req' = [req EXCEPT ![r] = Done]
    BY <1>23 DEF QueryCaptured, Taken
  <2> QED BY <1>2, <1>18, <1>20, <1>21, <2>1, <2>2
<1>24. ASSUME NEW r \in Requests, Answer(r) PROVE Loading'
  BY <1>20, <1>21, <1>24 DEF Answer
<1>25. ASSUME NEW r \in Requests, RefreshCaptured(r) PROVE Loading'
  <2> DEFINE kept == [req[r] EXCEPT !.fallback = IF req[r].gen # NoCatalog THEN req[r].gen
                                                 ELSE req[r].fallback]
  <2>1. ~Syncing /\ (sync' = sync \/ sync' = NoSync)
    BY <1>25 DEF RefreshCaptured, TakeCapture
  <2>2. kept \in Calls BY <1>2 DEF Calls
  <2>3. \/ Settle(r, "failed") \/ req' = [req EXCEPT ![r] = Rebuild(kept)]
        \/ BeginVerify(r, kept)
    BY <1>25 DEF RefreshCaptured
  <2> HIDE DEF kept
  <2> QED BY <1>18, <1>19, <1>20, <1>22, <2>1, <2>2, <2>3
<1>26. ASSUME NEW r \in Requests, RefreshUnverified(r) \/ RebuildFails(r) PROVE Loading'
  BY <1>19, <1>26 DEF RefreshUnverified, RebuildFails, FlightFails
<1>27. ASSUME NEW r \in Requests, RefreshReuses(r) \/ RefreshRebuilds(r) PROVE Loading'
  <2>1. req[r] \in Calls BY <1>2
  <2> QED BY <1>20, <1>22, <1>27, <2>1 DEF RefreshReuses, RefreshRebuilds
<1>28. ASSUME NEW r \in Requests, RefreshReused(r) \/ RebuildReturns(r) PROVE Loading'
  BY <1>19, <1>28 DEF RefreshReused, RebuildReturns
<1>29. ASSUME NEW r \in Requests, RebuildPersists(r) PROVE Loading'
  <2>1. PICK g : req' = [req EXCEPT ![r] = [req[r] EXCEPT !.pc = "rebuilt", !.gen = g]]
    BY <1>29 DEF RebuildPersists
  <2>2. req[r] \in Calls BY <1>2
  <2> QED BY <1>20, <1>22, <1>29, <2>1, <2>2 DEF RebuildPersists
<1>30. ASSUME NEW v \in verifying, NEW ok \in BOOLEAN, NEW d, VerifyEnds(v, ok, d), ~Syncing,
              UNCHANGED sync
       PROVE  Loading'
  BY <1>13, <1>30, VerifyEndsDoes
<1>31. ASSUME NEW v \in verifying, VerifySettles(v) \/ VerifyFails(v) PROVE Loading'
  BY <1>30, <1>31 DEF VerifySettles, VerifyFails
<1> QED
  BY <1>3, <1>5, <1>6, <1>7, <1>9, <1>10, <1>11, <1>14, <1>16, <1>17, <1>23, <1>24, <1>25,
     <1>26, <1>27, <1>28, <1>29, <1>31
  DEF Next, Proceeds, SyncStep, Proceed, vars, Edit, ExternalGraph, SyncReadFails

LEMMA RebuildDoes ==
  ASSUME NEW s \in Calls
  PROVE  /\ Rebuild(s).pc = "rebuild" /\ Rebuild(s).kind = s.kind
         /\ Rebuild(s).decision = "rebuild" /\ Rebuild(s).action = s.action
         /\ Rebuild(s).forced = s.forced
  BY DEF Rebuild, Calls

LEMMA ForcedDoes ==
  ASSUME NEW s \in Calls
  PROVE  LET f == [s EXCEPT !.forced = TRUE] IN
         /\ f.pc = s.pc /\ f.ok = s.ok /\ f.gen = s.gen /\ f.kind = s.kind
         /\ f.floor = s.floor /\ f.decision = s.decision /\ f.action = s.action
         /\ f.on = s.on /\ f.forced = TRUE /\ f.early = s.early /\ f.fallback = s.fallback
         /\ f.verdict = s.verdict /\ f.since = s.since
  BY DEF Calls

\* What a request that is alone in its action becomes.
LEMMA AskDoes ==
  ASSUME TypeOK, NEW r \in Requests, Ask(r)
  PROVE  /\ ~Syncing /\ UNCHANGED refreshing
         /\ \A t \in Requests \ {r} : req'[t] = req[t]
         /\ req[r].pc = "idle"
         /\ req'[r].kind = "query" /\ req'[r].floor = answered /\ req'[r].action = "none"
         /\ \/ req'[r].pc = "capture" /\ sync'.stage = "probe"
            \/ /\ sync.stage = "done" /\ UNCHANGED sync
               /\ req'[r].pc = "captured" /\ req'[r].ok = sync.ok /\ req'[r].gen = sync.gen
<1> DEFINE s == [Idle EXCEPT !.floor = answered]
<1>1. s \in Calls BY IdleTyped DEF Calls, TypeOK
<1>2. s.floor = answered /\ s.kind = "query" /\ s.action = "none" BY DEF Idle
<1>3. BeginCapture(r, s, cache) /\ cache \in Caches /\ ~Syncing BY DEF Ask, TypeOK
<1> HIDE DEF s
<1>4. /\ \A t \in Requests \ {r} : req'[t] = req[t]
      /\ \/ /\ sync.stage = "none" /\ sync'.stage = "probe" /\ sync'.by = r
            /\ sync'.began = DiskId
            /\ req'[r] = [s EXCEPT !.pc = "capture", !.on = r]
         \/ /\ sync.stage = "done" /\ UNCHANGED sync
            /\ req'[r] = [s EXCEPT !.pc = "captured", !.on = sync.by, !.ok = sync.ok,
                                   !.gen = sync.gen]
  BY <1>1, <1>3, BeginCaptureDoes
<1>5. UNCHANGED refreshing /\ req[r].pc = "idle" BY DEF Ask
<1> QED BY <1>1, <1>2, <1>3, <1>4, <1>5 DEF Calls

LEMMA QueryCapturedDoes ==
  ASSUME TypeOK, NEW r \in Requests, QueryCaptured(r)
  PROVE  /\ ~Syncing /\ UNCHANGED refreshing /\ (sync' = sync \/ sync' = NoSync)
         /\ req[r].pc = "captured" /\ req[r].kind = "query"
         /\ \A t \in Requests \ {r} : req'[t] = req[t]
         /\ \/ req'[r] = Done
            \/ /\ req[r].ok /\ req[r].gen # NoCatalog
               /\ req'[r].pc \in {"verify", "verified"} /\ req'[r].ok
               /\ req'[r].gen = req[r].gen /\ req'[r].kind = "query"
               /\ req'[r].action = req[r].action /\ req'[r].floor = req[r].floor
<1>1. req[r] \in Calls /\ req \in [Requests -> Calls] BY DEF TypeOK
<1>2. /\ ~Syncing /\ UNCHANGED refreshing /\ (sync' = sync \/ sync' = NoSync)
      /\ req[r].pc = "captured" /\ req[r].kind = "query"
  BY DEF QueryCaptured, TakeCapture
<1>3. CASE req[r].ok /\ req[r].gen # NoCatalog
  <2>1. BeginVerify(r, req[r]) BY <1>3 DEF QueryCaptured, Taken
  <2> QED BY <1>1, <1>2, <1>3, <2>1, BeginVerifyDoes
<1>4. CASE ~(req[r].ok /\ req[r].gen # NoCatalog)
  <2>1. req' = [req EXCEPT ![r] = Done] BY <1>4 DEF QueryCaptured, Taken
  <2> QED BY <1>1, <1>2, <2>1
<1> QED BY <1>3, <1>4

LEMMA RefreshCapturedDoes ==
  ASSUME TypeOK, NEW r \in Requests, RefreshCaptured(r)
  PROVE  /\ ~Syncing /\ (sync' = sync \/ sync' = NoSync)
         /\ req[r].pc = "captured" /\ req[r].kind # "query"
         /\ \/ Settle(r, "failed")
            \/ /\ UNCHANGED refreshing
               /\ \A t \in Requests \ {r} : req'[t] = req[t]
               /\ req'[r].kind = req[r].kind /\ req'[r].forced = req[r].forced
               /\ req'[r].action = req[r].action
               /\ \/ req'[r].pc = "rebuild" /\ req'[r].decision = "rebuild"
                  \/ /\ req'[r].pc \in {"verify", "verified"} /\ req'[r].ok
                     /\ req'[r].gen # NoCatalog /\ req'[r].decision = req[r].decision
<1> DEFINE kept == [req[r] EXCEPT !.fallback = IF req[r].gen # NoCatalog THEN req[r].gen
                                               ELSE req[r].fallback]
<1>1. req[r] \in Calls /\ req \in [Requests -> Calls] BY DEF TypeOK
<1>2. /\ ~Syncing /\ (sync' = sync \/ sync' = NoSync)
      /\ req[r].pc = "captured" /\ req[r].kind # "query"
  BY DEF RefreshCaptured, TakeCapture
<1>3. /\ kept \in Calls /\ kept.kind = req[r].kind /\ kept.forced = req[r].forced
      /\ kept.action = req[r].action /\ kept.decision = req[r].decision
      /\ kept.gen = req[r].gen /\ kept.ok = req[r].ok
  BY <1>1 DEF Calls
<1>4. \/ Settle(r, "failed")
      \/ req' = [req EXCEPT ![r] = Rebuild(kept)] /\ UNCHANGED refreshing
      \/ req[r].ok /\ req[r].gen # NoCatalog /\ BeginVerify(r, kept) /\ UNCHANGED refreshing
  BY DEF RefreshCaptured
<1> HIDE DEF kept
<1>5. CASE req' = [req EXCEPT ![r] = Rebuild(kept)] /\ UNCHANGED refreshing
  BY <1>1, <1>2, <1>3, <1>5, RebuildDoes
<1>6. CASE req[r].ok /\ req[r].gen # NoCatalog /\ BeginVerify(r, kept) /\ UNCHANGED refreshing
  <2>1. /\ \A t \in Requests \ {r} : req'[t] = req[t]
        /\ \/ req'[r].pc = "verified" /\ req'[r].ok
           \/ req'[r].pc = "verify" /\ req'[r].ok = kept.ok
        /\ req'[r].gen = kept.gen /\ req'[r].kind = kept.kind /\ req'[r].forced = kept.forced
        /\ req'[r].decision = kept.decision /\ req'[r].action = kept.action
    BY <1>3, <1>6, BeginVerifyDoes
  <2> QED BY <1>2, <1>3, <1>6, <2>1
<1> QED BY <1>2, <1>4, <1>5, <1>6

LEMMA DecidesDoes ==
  ASSUME TypeOK, NEW r \in Requests, RefreshReuses(r) \/ RefreshRebuilds(r)
  PROVE  /\ ~Syncing /\ UNCHANGED <<refreshing, sync>>
         /\ req[r].pc = "verified" /\ req[r].kind # "query"
         /\ \A t \in Requests \ {r} : req'[t] = req[t]
         /\ req'[r].kind = req[r].kind /\ req'[r].forced = req[r].forced
         /\ req'[r].action = req[r].action
         /\ \/ req'[r].pc = "rebuild" /\ req'[r].decision = "rebuild"
            \/ /\ req'[r].pc = "reused" /\ req'[r].decision = "no-op"
               /\ req'[r].gen = req[r].gen /\ ~req[r].forced
<1>1. req[r] \in Calls /\ req \in [Requests -> Calls] BY DEF TypeOK
<1>2. /\ ~Syncing /\ UNCHANGED <<refreshing, sync>>
      /\ req[r].pc = "verified" /\ req[r].kind # "query"
  BY DEF RefreshReuses, RefreshRebuilds, Deciding
<1>3. CASE RefreshRebuilds(r)
  BY <1>1, <1>2, <1>3, RebuildDoes DEF RefreshRebuilds
<1>4. CASE RefreshReuses(r)
  <2>1. ~req[r].forced BY <1>4 DEF RefreshReuses, Reusable
  <2>2. req' = [req EXCEPT ![r] = [req[r] EXCEPT !.decision = "no-op", !.pc = "reused"]]
    BY <1>4 DEF RefreshReuses
  <2> QED BY <1>1, <1>2, <2>1, <2>2 DEF Calls
<1> QED BY <1>3, <1>4

LEMMA RebuildPersistsDoes ==
  ASSUME TypeOK, NEW r \in Requests, RebuildPersists(r)
  PROVE  /\ ~Syncing /\ UNCHANGED <<refreshing, sync>>
         /\ req[r].pc = "rebuild" /\ req'[r].pc = "rebuilt"
         /\ \A t \in Requests \ {r} : req'[t] = req[t]
         /\ req'[r].kind = req[r].kind /\ req'[r].forced = req[r].forced
         /\ req'[r].action = req[r].action /\ req'[r].decision = req[r].decision
<1>1. req[r] \in Calls /\ req \in [Requests -> Calls] BY DEF TypeOK
<1>2. PICK g : req' = [req EXCEPT ![r] = [req[r] EXCEPT !.pc = "rebuilt", !.gen = g]]
  BY DEF RebuildPersists
<1>3. ~Syncing /\ UNCHANGED <<refreshing, sync>> /\ req[r].pc = "rebuild"
  BY DEF RebuildPersists
<1> QED BY <1>1, <1>2, <1>3 DEF Calls

\* A refresh, forced or not, that begins a flight or joins the one there is.
LEMMA RefreshDoes ==
  ASSUME TypeOK, Owned, NEW r \in Requests, Refresh(r) \/ RefreshForced(r)
  PROVE  /\ ~Syncing /\ req[r].pc \in {"idle", "again"}
         /\ req'[r].kind # "query" /\ req'[r].action = "none"
         /\ \/ /\ refreshing = NoRequest /\ refreshing' = r
               /\ \A t \in Requests \ {r} : req'[t] = req[t]
               /\ req'[r].forced = (req'[r].kind = "forced")
               /\ req'[r].decision = "pending"
               /\ \/ req'[r].pc = "capture" /\ sync'.stage = "probe"
                  \/ req'[r].pc = "captured" /\ UNCHANGED sync
            \/ /\ refreshing \in Requests /\ refreshing # r /\ UNCHANGED <<refreshing, sync>>
               /\ \A t \in Requests \ {r, refreshing} : req'[t] = req[t]
               /\ req'[r].pc \in {"joined", "waiting"} /\ req'[r].on = refreshing
               /\ req'[r].pc = "joined" /\ req'[r].kind = "forced"
                     => req'[refreshing].forced \/ req[refreshing].decision = "rebuild"
               /\ \/ req'[refreshing] = req[refreshing]
                  \/ /\ req[refreshing].decision = "pending"
                     /\ req'[refreshing] = [req[refreshing] EXCEPT !.forced = TRUE]
<1>1. req \in [Requests -> Calls] BY DEF TypeOK
<1>2. /\ ~Syncing /\ req[r].pc \in {"idle", "again"}
  BY DEF Refresh, RefreshForced
<1>3. refreshing # NoRequest => refreshing \in Requests /\ refreshing # r
  BY <1>2 DEF TypeOK, Owned, Working
<1>4. "refresh" \in Kinds /\ "forced" \in Kinds BY DEF Kinds
<1>5. CASE refreshing = NoRequest
  <2>1. PICK kind \in {"refresh", "forced"} : BeginRefresh(r, kind)
    BY <1>5 DEF Refresh, RefreshForced
  <2> QED BY <1>2, <1>4, <1>5, <2>1, BeginRefreshDoes
<1>6. CASE refreshing # NoRequest /\ Refresh(r)
  <2> DEFINE s == [Idle EXCEPT !.kind = "refresh", !.pc = "joined", !.on = refreshing]
  <2>1. /\ s.kind = "refresh" /\ s.pc = "joined" /\ s.on = refreshing /\ s.action = "none"
    BY DEF Idle
  <2>2. req' = [req EXCEPT ![r] = s] /\ UNCHANGED <<refreshing, sync>>
    BY <1>6 DEF Refresh, Join
  <2> HIDE DEF s
  <2> QED BY <1>1, <1>2, <1>3, <1>6, <2>1, <2>2
<1>7. CASE refreshing # NoRequest /\ RefreshForced(r)
  <2>1. JoinForced(r) /\ UNCHANGED <<refreshing, sync>> BY <1>7 DEF RefreshForced
  <2>2. /\ \A t \in Requests \ {r, refreshing} : req'[t] = req[t]
        /\ req'[r].kind = "forced" /\ req'[r].on = refreshing /\ req'[r].action = "none"
        /\ req'[r].pc \in {"joined", "waiting"}
        /\ req'[r].pc = "joined"
              => req'[refreshing].forced \/ req[refreshing].decision = "rebuild"
        /\ \/ req'[refreshing] = req[refreshing]
           \/ /\ req[refreshing].decision = "pending"
              /\ req'[refreshing] = [req[refreshing] EXCEPT !.forced = TRUE]
    BY <1>3, <1>7, <2>1, JoinForcedDoes
  <2> QED BY <1>2, <1>3, <1>7, <2>1, <2>2
<1> QED BY <1>5, <1>6, <1>7

\* A step of a capture: it goes on, or it ends.
LEMMA SyncMoves ==
  ASSUME TypeOK, SyncStep \/ SyncReadFails
  PROVE  /\ Syncing /\ UNCHANGED <<disk, refreshing, answered>>
         /\ \/ UNCHANGED req /\ Syncing'
            \/ /\ SyncEnds(FALSE, NoCatalog)
               /\ generation' = sync.prior /\ cache' = sync.priorCache
            \/ SyncEnds(TRUE, generation) /\ StillPersisted /\ UNCHANGED generation
<1>1. Syncing /\ UNCHANGED <<disk, refreshing, answered>>
  BY DEF SyncStep, ProbeMissing, ProbeCurrent, ProbeOther, LoadCatalog, ConfirmRaced, ConfirmSame,
         SyncFinal, SyncReadFails, NotSync
<1>2. sync \in Syncs BY <1>1, SyncingTyped
<1>3. ASSUME ProbeOther PROVE UNCHANGED req /\ Syncing'
  BY <1>2, <1>3 DEF ProbeOther, Syncing, Syncs
<1>4. ASSUME LoadCatalog PROVE UNCHANGED req /\ Syncing'
  BY <1>2, <1>4 DEF LoadCatalog, Syncing, Syncs
<1> QED
  BY <1>1, <1>3, <1>4, NextProbeDoes
  DEF SyncStep, ProbeMissing, ProbeCurrent, ConfirmRaced, ConfirmSame, SyncFinal, SyncReadFails,
      SyncFails

LEMMA VerifiedStep ==
  ASSUME TypeOK, Verified, Owned, [Next]_vars
  PROVE  Verified'
<1> DEFINE Good(c) == /\ c.pc \in {"verify", "verified", "reused"} => c.gen # NoCatalog
                      /\ c.pc = "verify" => c.ok
<1>1. (\A t \in Requests : Good(req[t])) /\ req \in [Requests -> Calls] BY DEF Verified, TypeOK
<1>2. ASSUME \A t \in Requests : req'[t] = req[t] \/ Good(req'[t]) PROVE Verified'
  BY <1>1, <1>2 DEF Verified
<1>3. CASE SyncStep \/ SyncReadFails
  <2>1. Syncing /\ (UNCHANGED req \/ \E ok \in BOOLEAN, g \in Served : SyncEnds(ok, g))
    BY <1>3, SyncMoves DEF TypeOK, Served
  <2>2. ASSUME NEW ok \in BOOLEAN, NEW g \in Served, SyncEnds(ok, g) PROVE Verified'
    BY <1>2, <2>1, <2>2, SyncEndsDoes
  <2> QED BY <1>2, <2>1, <2>2
<1>4. ASSUME NEW v \in verifying, VerifySettles(v) \/ VerifyFails(v) PROVE Verified'
  <2>1. PICK ok \in BOOLEAN, d \in {"none", "fresh", "stale"} : VerifyEnds(v, ok, d)
    BY <1>4 DEF VerifySettles, VerifyFails
  <2>2. ASSUME NEW t \in Requests PROVE req'[t] = req[t] \/ Good(req'[t])
    <3>1. \/ req'[t] = req[t]
          \/ /\ req[t].pc = "verify" /\ req'[t].pc = "verified"
             /\ req'[t].gen = req[t].gen
      BY <2>1, VerifyEndsDoes
    <3> QED BY <1>1, <3>1
  <2> HIDE DEF Good
  <2> QED BY <1>2, <2>2
<1>5. ASSUME NEW r \in Requests, Ask(r) PROVE Verified' BY <1>2, <1>5, AskDoes
<1>6. ASSUME NEW r \in Requests, Refresh(r) \/ RefreshForced(r) PROVE Verified'
  <2>1. refreshing \in Requests => Good([req[refreshing] EXCEPT !.forced = TRUE])
    BY <1>1, ForcedDoes
  <2>2. ASSUME NEW t \in Requests PROVE req'[t] = req[t] \/ Good(req'[t])
    BY <1>6, <2>1, RefreshDoes
  <2> HIDE DEF Good
  <2> QED BY <1>2, <2>2
<1>7. ASSUME NEW r \in Requests, QueryCaptured(r) PROVE Verified'
  <2>1. Good(Done) BY DEF Done, Idle
  <2> QED BY <1>2, <1>7, <2>1, QueryCapturedDoes
<1>8. ASSUME NEW r \in Requests, NEW a, Settle(r, a) PROVE Verified'
  <2>1. ASSUME NEW t \in Requests PROVE req'[t] = req[t] \/ Good(req'[t]) BY <1>8, SettleDoes
  <2> HIDE DEF Good
  <2> QED BY <1>2, <2>1
<1>9. ASSUME NEW r \in Requests, RefreshCaptured(r) PROVE Verified'
  BY <1>2, <1>8, <1>9, RefreshCapturedDoes
<1>10. ASSUME NEW r \in Requests,
              RefreshUnverified(r) \/ RebuildFails(r) \/ RefreshReused(r) \/ RebuildReturns(r)
       PROVE  Verified'
  BY <1>8, <1>10 DEF RefreshUnverified, RebuildFails, RefreshReused, RebuildReturns, FlightFails
<1>11. ASSUME NEW r \in Requests, RefreshReuses(r) \/ RefreshRebuilds(r) PROVE Verified'
  BY <1>1, <1>2, <1>11, DecidesDoes
<1>12. ASSUME NEW r \in Requests, RebuildPersists(r) PROVE Verified'
  BY <1>2, <1>12, RebuildPersistsDoes
<1>13. ASSUME NEW r \in Requests, Answer(r) PROVE Verified'
  BY <1>1, <1>2, <1>13 DEF Answer, Done, Idle
<1> QED
  BY <1>1, <1>2, <1>3, <1>4, <1>5, <1>6, <1>7, <1>9, <1>10, <1>11, <1>12, <1>13
  DEF Next, Proceeds, Proceed, vars, Edit, ExternalGraph

-----------------------------------------------------------------------------
(* Queries. *)

LEMMA ServingStep ==
  ASSUME TypeOK, TypeOK', Loading, Verified, Serving, Owned, DiskId <= DiskId', [Next]_vars
  PROVE  Serving'
<1>1. /\ DiskId \in Nat /\ DiskId' \in Nat /\ answered \in Nat /\ answered' \in Nat
      /\ req \in [Requests -> Calls]
  BY DiskIdTyped DEF TypeOK, DiskId, Catalogs
<1>2. \A g \in Served : Key(g) \in Nat BY KeyTyped
<1>3. /\ \A t \in Requests : req[t].gen \in Served /\ req'[t].gen \in Served
                             /\ req[t].floor \in Nat
      /\ sync.stage = "done" => sync.gen \in Served
  BY SyncingTyped DEF TypeOK, Calls, Results
\* What carries nothing new, while the result that may be shared is kept or dropped.
<1>4. ASSUME UNCHANGED answered, sync' = sync \/ ~Result',
             \A t \in Requests : Carries(t)' => /\ Carries(t) /\ req'[t].gen = req[t].gen
                                                /\ req'[t].floor = req[t].floor
      PROVE  Serving'
  BY <1>1, <1>2, <1>3, <1>4 DEF Serving, Result
<1>5. ASSUME UNCHANGED <<answered, sync>>, UNCHANGED req PROVE Serving'
  BY <1>4, <1>5 DEF Carries
<1>6. sync' = NoSync => ~Result' BY DEF NoSync, Result
<1>7. CASE SyncStep \/ SyncReadFails
  <2>1. Syncing /\ UNCHANGED <<disk, refreshing, answered>> /\ DiskId' = DiskId
    BY <1>7, SyncMoves DEF DiskId
  <2>2. CASE UNCHANGED req /\ Syncing'
    <3>1. ~Result' BY <2>2 DEF Result, Syncing
    <3> QED BY <1>4, <2>1, <2>2, <3>1 DEF Carries
  <2>3. CASE SyncEnds(FALSE, NoCatalog)
    <3>1. /\ sync'.ok = FALSE /\ sync.by \in Requests
          /\ \A t \in Requests \ {sync.by} : req'[t] = req[t]
          /\ req'[sync.by].ok = FALSE
      BY <2>1, <2>3, SyncEndsDoes DEF Served
    <3> QED BY <1>4, <2>1, <3>1 DEF Result, Carries
  <2>4. CASE SyncEnds(TRUE, generation) /\ StillPersisted
    <3>1. generation \in Served /\ Key(generation) = DiskId
      BY <2>4 DEF TypeOK, StillPersisted
    <3>2. /\ sync'.gen = generation /\ sync.by \in Requests
          /\ \A t \in Requests \ {sync.by} : req'[t] = req[t]
          /\ req'[sync.by].pc = "captured" /\ req'[sync.by].gen = generation
          /\ req'[sync.by].kind = req[sync.by].kind /\ req'[sync.by].floor = req[sync.by].floor
      BY <2>1, <2>4, <3>1, SyncEndsDoes
    <3>3. sync.began \in Nat /\ sync.began <= DiskId
          /\ (req[sync.by].kind = "query" => req[sync.by].floor <= sync.began)
      BY <2>1, SyncingTyped DEF Loading, Syncs
    <3>4. ASSUME NEW t \in Requests, Carries(t)'
          PROVE  /\ req'[t].floor <= Key(req'[t].gen)
                 /\ Key(req'[t].gen) <= DiskId
      <4>1. CASE t = sync.by
        BY <1>1, <1>3, <3>1, <3>2, <3>3, <3>4, <4>1 DEF Carries
      <4>2. CASE t # sync.by BY <3>2, <3>4, <4>2 DEF Carries, Serving
      <4> QED BY <4>1, <4>2
    <3>5. answered <= DiskId BY DEF Serving
    <3>6. Key(sync'.gen) = DiskId BY <3>1, <3>2
    <3>7. \A t \in Requests : Carries(t)' =>
             /\ req'[t].floor <= Key(req'[t].gen) /\ Key(req'[t].gen) <= DiskId'
             /\ Result' => Key(req'[t].gen) <= Key(sync'.gen)
      BY <2>1, <3>4, <3>6
    <3> QED BY <1>1, <2>1, <3>5, <3>6, <3>7 DEF Serving
  <2> QED BY <1>7, <2>2, <2>3, <2>4, SyncMoves
<1>8. ASSUME NEW v \in verifying, VerifySettles(v) \/ VerifyFails(v) PROVE Serving'
  <2>1. PICK ok \in BOOLEAN, d \in {"none", "fresh", "stale"} : VerifyEnds(v, ok, d)
    BY <1>8 DEF VerifySettles, VerifyFails
  <2>2. ASSUME NEW t \in Requests, Carries(t)'
        PROVE  Carries(t) /\ req'[t].gen = req[t].gen /\ req'[t].floor = req[t].floor
    BY <2>1, <2>2, VerifyEndsDoes DEF Carries, Verified
  <2>3. UNCHANGED <<sync, answered>> BY <1>8 DEF VerifySettles, VerifyFails
  <2> QED BY <1>4, <2>2, <2>3
<1>9. ASSUME NEW r \in Requests, Ask(r) PROVE Serving'
  <2>1. UNCHANGED answered /\ DiskId' = DiskId BY <1>9 DEF Ask, DiskId
  <2>2. CASE req'[r].pc = "capture" /\ sync'.stage = "probe"
    <3>1. ~Result' BY <2>2 DEF Result
    <3> QED BY <1>4, <1>9, <2>1, <2>2, <3>1, AskDoes DEF Carries
  <2>3. CASE /\ sync.stage = "done" /\ UNCHANGED sync
             /\ req'[r].pc = "captured" /\ req'[r].ok = sync.ok /\ req'[r].gen = sync.gen
    <3>1. (\A t \in Requests \ {r} : req'[t] = req[t]) /\ req'[r].floor = answered
      BY <1>9, AskDoes
    <3>2. ASSUME NEW t \in Requests, Carries(t)'
          PROVE  /\ req'[t].floor <= Key(req'[t].gen)
                 /\ Key(req'[t].gen) <= DiskId
                 /\ Result => Key(req'[t].gen) <= Key(sync.gen)
      <4>1. CASE t = r
        BY <1>2, <1>3, <2>3, <3>1, <3>2, <4>1 DEF Carries, Serving, Result
      <4>2. CASE t # r BY <3>1, <3>2, <4>2 DEF Carries, Serving
      <4> QED BY <4>1, <4>2
    <3> QED BY <2>1, <2>3, <3>2 DEF Serving, Result
  <2> QED BY <1>9, <2>2, <2>3, AskDoes
<1>10. ASSUME NEW r \in Requests, Refresh(r) \/ RefreshForced(r) PROVE Serving'
  <2>1. UNCHANGED answered BY <1>10 DEF Refresh, RefreshForced
  <2>2. sync' = sync \/ ~Result' BY <1>10, RefreshDoes DEF Result
  <2>3. ASSUME NEW t \in Requests, Carries(t)'
        PROVE  Carries(t) /\ req'[t].gen = req[t].gen /\ req'[t].floor = req[t].floor
    <3>1. refreshing \in Requests =>
             LET f == [req[refreshing] EXCEPT !.forced = TRUE] IN
             /\ f.pc = req[refreshing].pc /\ f.ok = req[refreshing].ok
             /\ f.gen = req[refreshing].gen /\ f.kind = req[refreshing].kind
             /\ f.floor = req[refreshing].floor
      BY <1>1, ForcedDoes
    <3>2. t # r BY <1>10, <2>3, RefreshDoes DEF Carries
    <3>3. \/ req'[t] = req[t]
          \/ t = refreshing /\ req'[t] = [req[t] EXCEPT !.forced = TRUE]
      BY <1>10, <3>2, RefreshDoes
    <3>4. CASE req'[t] = req[t] BY <2>3, <3>4 DEF Carries
    <3>5. CASE t = refreshing /\ req'[t] = [req[t] EXCEPT !.forced = TRUE]
      BY <2>3, <3>1, <3>5 DEF Carries
    <3> QED BY <3>3, <3>4, <3>5
  <2> QED BY <1>4, <2>1, <2>2, <2>3
<1>11. Done.pc = "done" BY DEF Done, Idle
<1>12. ASSUME NEW r \in Requests, QueryCaptured(r) PROVE Serving'
  <2>1. UNCHANGED answered BY <1>12 DEF QueryCaptured
  <2>2. ASSUME NEW t \in Requests, Carries(t)'
        PROVE  Carries(t) /\ req'[t].gen = req[t].gen /\ req'[t].floor = req[t].floor
    BY <1>11, <1>12, <2>2, QueryCapturedDoes DEF Carries
  <2>3. sync' = sync \/ ~Result' BY <1>6, <1>12, QueryCapturedDoes
  <2> QED BY <1>4, <2>1, <2>2, <2>3
<1>13. ASSUME NEW r \in Requests, NEW a, Settle(r, a), UNCHANGED answered,
              sync' = sync \/ sync' = NoSync
       PROVE  Serving'
  <2>1. ASSUME NEW t \in Requests, Carries(t)'
        PROVE  Carries(t) /\ req'[t].gen = req[t].gen /\ req'[t].floor = req[t].floor
    BY <1>13, <2>1, SettleDoes DEF Carries
  <2> QED BY <1>4, <1>6, <1>13, <2>1
<1>14. ASSUME NEW r \in Requests, RefreshCaptured(r) PROVE Serving'
  <2>1. UNCHANGED answered BY <1>14 DEF RefreshCaptured
  <2>2. sync' = sync \/ sync' = NoSync BY <1>14, RefreshCapturedDoes
  <2>3. CASE Settle(r, "failed") BY <1>13, <2>1, <2>2, <2>3
  <2>4. CASE ~Settle(r, "failed")
    <3>1. ASSUME NEW t \in Requests, Carries(t)'
          PROVE  Carries(t) /\ req'[t].gen = req[t].gen /\ req'[t].floor = req[t].floor
      BY <1>14, <2>4, <3>1, RefreshCapturedDoes DEF Carries
    <3> QED BY <1>4, <1>6, <2>1, <2>2, <3>1
  <2> QED BY <2>3, <2>4
<1>15. ASSUME NEW r \in Requests,
              RefreshUnverified(r) \/ RebuildFails(r) \/ RefreshReused(r) \/ RebuildReturns(r)
       PROVE  Serving'
  BY <1>13, <1>15 DEF RefreshUnverified, RebuildFails, RefreshReused, RebuildReturns, FlightFails
<1>16. ASSUME NEW r \in Requests, RefreshReuses(r) \/ RefreshRebuilds(r) PROVE Serving'
  <2>1. UNCHANGED <<answered, sync>> BY <1>16 DEF RefreshReuses, RefreshRebuilds
  <2>2. ASSUME NEW t \in Requests, Carries(t)'
        PROVE  Carries(t) /\ req'[t].gen = req[t].gen /\ req'[t].floor = req[t].floor
    BY <1>16, <2>2, DecidesDoes DEF Carries
  <2> QED BY <1>4, <2>1, <2>2
<1>17. ASSUME NEW r \in Requests, RebuildPersists(r) PROVE Serving'
  <2>1. UNCHANGED <<answered, sync>> BY <1>17 DEF RebuildPersists
  <2>2. ASSUME NEW t \in Requests, Carries(t)'
        PROVE  Carries(t) /\ req'[t].gen = req[t].gen /\ req'[t].floor = req[t].floor
    BY <1>17, <2>2, RebuildPersistsDoes DEF Carries
  <2> QED BY <1>4, <2>1, <2>2
<1>18. ASSUME NEW r \in Requests, Answer(r) PROVE Serving'
  <2>1. /\ req[r].pc = "verified" /\ req[r].kind = "query"
        /\ req' = [req EXCEPT ![r] = Done] /\ UNCHANGED sync
        /\ answered' = IF req[r].ok /\ req[r].gen.key > answered THEN req[r].gen.key ELSE answered
    BY <1>18 DEF Answer
  <2>2. Key(req[r].gen) = req[r].gen.key BY <2>1 DEF Verified, Key
  <2>3. answered' = answered \/ (answered' = Key(req[r].gen) /\ Carries(r))
    BY <2>1, <2>2 DEF Carries
  <2>4. ASSUME NEW t \in Requests, Carries(t)'
        PROVE  Carries(t) /\ req'[t] = req[t]
    <3>1. t # r BY <1>1, <1>11, <2>1, <2>4 DEF Carries
    <3>2. req'[t] = req[t] BY <1>1, <2>1, <3>1
    <3> QED BY <2>4, <3>2 DEF Carries
  <2>5. CASE answered' = answered BY <1>4, <2>1, <2>4, <2>5
  <2>6. CASE answered' = Key(req[r].gen) /\ Carries(r)
    <3>1. /\ answered' <= DiskId
          /\ Result => answered' <= Key(sync.gen) /\ Key(sync.gen) <= DiskId
      BY <2>6 DEF Serving
    <3>2. Result' = Result /\ sync' = sync BY <2>1 DEF Result
    <3>3. Result => Key(sync.gen) \in Nat BY <1>2, <1>3 DEF Result
    <3>4. \A t \in Requests : Carries(t)' =>
             /\ req'[t].floor <= Key(req'[t].gen) /\ Key(req'[t].gen) <= DiskId
             /\ Result => Key(req'[t].gen) <= Key(sync.gen)
      BY <2>4 DEF Serving
    <3>5. \A t \in Requests : Key(req'[t].gen) \in Nat BY <1>2, <1>3
    <3> QED BY <1>1, <3>1, <3>2, <3>3, <3>4, <3>5 DEF Serving
  <2> QED BY <2>3, <2>5, <2>6
<1> QED
  BY <1>5, <1>7, <1>8, <1>9, <1>10, <1>12, <1>14, <1>15, <1>16, <1>17, <1>18
  DEF Next, Proceeds, Proceed, vars, Edit, ExternalGraph

-----------------------------------------------------------------------------
(* Refreshes. *)

\* What the end of a capture or of a verification leaves as it was.
Kept(t) ==
    /\ req'[t].kind = req[t].kind /\ req'[t].forced = req[t].forced
    /\ req'[t].decision = req[t].decision /\ req'[t].action = req[t].action
    /\ req'[t].on = req[t].on
    /\ \/ req'[t].pc = req[t].pc
       \/ /\ req[t].pc \in {"capture", "captured", "verify", "verified"}
          /\ req'[t].pc \in {"capture", "captured", "verify", "verified"}

LEMMA FlightMoves ==
  ASSUME TypeOK, Loading,
         \/ SyncStep \/ SyncReadFails
         \/ \E v \in verifying : VerifySettles(v) \/ VerifyFails(v)
  PROVE  UNCHANGED refreshing /\ \A t \in Requests : Kept(t)
<1>1. CASE SyncStep \/ SyncReadFails
  <2>1. UNCHANGED refreshing /\ Syncing BY <1>1, SyncMoves
  <2>2. ASSUME NEW ok \in BOOLEAN, NEW g \in Served, SyncEnds(ok, g), NEW t \in Requests
        PROVE  Kept(t)
    <3>1. req[sync.by].pc = "capture" BY <2>1 DEF Loading
    <3> QED BY <2>1, <2>2, <3>1, SyncEndsDoes DEF Kept
  <2>3. NoCatalog \in Served /\ generation \in Served BY DEF Served, TypeOK
  <2> QED BY <1>1, <2>1, <2>2, <2>3, SyncMoves DEF Kept
<1>2. ASSUME NEW v \in verifying, VerifySettles(v) \/ VerifyFails(v)
      PROVE  UNCHANGED refreshing /\ \A t \in Requests : Kept(t)
  <2>1. PICK ok \in BOOLEAN, d \in {"none", "fresh", "stale"} : VerifyEnds(v, ok, d)
    BY <1>2 DEF VerifySettles, VerifyFails
  <2>2. \A t \in Requests : Kept(t) BY <2>1, VerifyEndsDoes DEF Kept
  <2> QED BY <1>2, <2>2 DEF VerifySettles, VerifyFails
<1> QED BY <1>1, <1>2

LEMMA OwnedStep ==
  ASSUME TypeOK, Loading, Owned, Latched, [Next]_vars
  PROVE  Owned'
<1>1. /\ \A t \in Requests : Working(t) => refreshing = t
      /\ refreshing # NoRequest => Working(refreshing)
      /\ refreshing \in Requests \cup {NoRequest}
      /\ NoRequest \notin Requests
      /\ req \in [Requests -> Calls]
  BY Parameters DEF Owned, TypeOK
<1>2. ASSUME UNCHANGED refreshing, \A t \in Requests : Working(t)' <=> Working(t) PROVE Owned'
  BY <1>1, <1>2 DEF Owned
<1>3. ASSUME \A t \in Requests : Kept(t), UNCHANGED refreshing PROVE Owned'
  <2>1. ASSUME NEW t \in Requests PROVE Working(t)' <=> Working(t)
    BY <1>3 DEF Kept, Working
  <2> QED BY <1>2, <1>3, <2>1
<1>4. ASSUME UNCHANGED <<refreshing, req>> PROVE Owned'
  BY <1>2, <1>4 DEF Working
<1>5. ASSUME NEW r \in Requests, UNCHANGED refreshing,
             \A t \in Requests \ {r} : req'[t] = req[t], Working(r)' <=> Working(r)
      PROVE  Owned'
  <2>1. ASSUME NEW t \in Requests PROVE Working(t)' <=> Working(t) BY <1>5 DEF Working
  <2> QED BY <1>2, <1>5, <2>1
<1>6. ASSUME NEW r \in Requests, Ask(r) PROVE Owned'
  <2>1. ~Working(r) /\ ~Working(r)' BY <1>6, AskDoes DEF Working
  <2> QED BY <1>5, <1>6, <2>1, AskDoes
<1>7. ASSUME NEW r \in Requests, Refresh(r) \/ RefreshForced(r) PROVE Owned'
  <2>1. CASE refreshing = NoRequest
    <3>1. refreshing' = r /\ Working(r)' /\ \A t \in Requests \ {r} : req'[t] = req[t]
      BY <1>1, <1>7, <2>1, RefreshDoes DEF Working
    <3>2. \A t \in Requests \ {r} : ~Working(t)' BY <1>1, <2>1, <3>1 DEF Working
    <3> QED BY <3>1, <3>2 DEF Owned
  <2>2. CASE refreshing # NoRequest
    <3>1. [req[refreshing] EXCEPT !.forced = TRUE].pc = req[refreshing].pc
          /\ [req[refreshing] EXCEPT !.forced = TRUE].kind = req[refreshing].kind
      BY <1>1, <2>2, ForcedDoes
    <3>2. /\ \A t \in Requests \ {r, refreshing} : req'[t] = req[t]
          /\ req'[r].pc \in {"joined", "waiting"} /\ req[r].pc \in {"idle", "again"}
          /\ req'[refreshing].pc = req[refreshing].pc
          /\ req'[refreshing].kind = req[refreshing].kind
          /\ UNCHANGED refreshing
      BY <1>7, <2>2, <3>1, RefreshDoes
    <3>3. ASSUME NEW t \in Requests PROVE Working(t)' <=> Working(t) BY <3>2 DEF Working
    <3> QED BY <1>2, <3>2, <3>3
  <2> QED BY <2>1, <2>2
<1>8. ASSUME NEW r \in Requests, QueryCaptured(r) PROVE Owned'
  <2>1. Done.kind = "query" BY DEF Done, Idle
  <2>2. ~Working(r) /\ ~Working(r)' BY <1>8, <2>1, QueryCapturedDoes DEF Working
  <2> QED BY <1>5, <1>8, <2>2, QueryCapturedDoes
<1>9. ASSUME NEW r \in Requests, Answer(r) PROVE Owned'
  <2>1. /\ UNCHANGED refreshing /\ req[r].kind = "query" /\ req' = [req EXCEPT ![r] = Done]
        /\ Done.kind = "query"
    BY <1>9 DEF Answer, Done, Idle
  <2> QED BY <1>1, <1>5, <2>1 DEF Working
<1>10. ASSUME NEW r \in Requests, Working(r), NEW a, Settle(r, a) PROVE Owned'
  <2>1. refreshing = r /\ refreshing' = NoRequest BY <1>1, <1>10 DEF Settle
  <2>2. ASSUME NEW t \in Requests PROVE ~Working(t)'
    <3>1. CASE t = r BY <1>10, <3>1, SettleDoes DEF Working
    <3>2. CASE t # r
      <4>1. ~Working(t) BY <1>1, <2>1, <3>2
      <4>2. req'[t] = req[t] \/ req'[t].pc \in {"done", "again"} BY <1>10, SettleDoes
      <4> QED BY <4>1, <4>2 DEF Working
    <3> QED BY <3>1, <3>2
  <2> QED BY <2>1, <2>2 DEF Owned
<1>11. ASSUME NEW r \in Requests, RefreshCaptured(r) PROVE Owned'
  <2>1. Working(r) BY <1>11, RefreshCapturedDoes DEF Working
  <2>2. CASE Settle(r, "failed") BY <1>10, <2>1, <2>2
  <2>3. CASE ~Settle(r, "failed")
    <3>1. Working(r)' BY <1>11, <2>3, RefreshCapturedDoes DEF Working
    <3> QED BY <1>5, <1>11, <2>1, <2>3, <3>1, RefreshCapturedDoes
  <2> QED BY <2>2, <2>3
<1>12. ASSUME NEW r \in Requests, RefreshReuses(r) \/ RefreshRebuilds(r) PROVE Owned'
  <2>1. Working(r) /\ Working(r)' BY <1>12, DecidesDoes DEF Working
  <2> QED BY <1>5, <1>12, <2>1, DecidesDoes
<1>13. \A r \in Requests : req[r].pc \in {"reused", "rebuild", "rebuilt"} => Working(r)
  BY DEF Latched
<1>14. ASSUME NEW r \in Requests,
              RefreshUnverified(r) \/ RebuildFails(r) \/ RefreshReused(r) \/ RebuildReturns(r)
       PROVE  Owned'
  <2>1. Working(r)
    BY <1>13, <1>14
    DEF RefreshUnverified, RebuildFails, RefreshReused, RebuildReturns, Deciding, Working
  <2> QED
    BY <1>10, <1>14, <2>1
    DEF RefreshUnverified, RebuildFails, RefreshReused, RebuildReturns, FlightFails
<1>15. ASSUME NEW r \in Requests, RebuildPersists(r) PROVE Owned'
  <2>1. Working(r) BY <1>13, <1>15, RebuildPersistsDoes
  <2>2. Working(r)' BY <1>15, <2>1, RebuildPersistsDoes DEF Working
  <2> QED BY <1>5, <1>15, <2>1, <2>2, RebuildPersistsDoes
<1> QED
  BY <1>3, <1>4, <1>6, <1>7, <1>8, <1>9, <1>11, <1>12, <1>14, <1>15, FlightMoves
  DEF Next, Proceeds, Proceed, vars, Edit, ExternalGraph

LEMMA LatchedStep ==
  ASSUME TypeOK, Loading, Owned, Latched, [Next]_vars
  PROVE  Latched'
<1> DEFINE Alone(t) ==
             /\ Working(t) /\ req[t].kind = "forced" => req[t].forced
             /\ req[t].pc = "reused" <=> Working(t) /\ req[t].decision = "no-op"
             /\ req[t].pc \in {"rebuild", "rebuilt"} <=> Working(t) /\ req[t].decision = "rebuild"
             /\ req[t].pc = "reused" => ~req[t].forced
             /\ req[t].kind = "forced" => req[t].action \in {"none", "failed", "rebuilt"}
           Joined(t) == req[t].pc = "joined" /\ req[t].kind = "forced"
           Bound(s) == Working(s) /\ (req[s].forced \/ req[s].decision = "rebuild")
<1>1. /\ \A t \in Requests : Alone(t)
      /\ \A t \in Requests : Joined(t) => req[t].on \in Requests /\ Bound(req[t].on)
      /\ req \in [Requests -> Calls]
  BY DEF Latched, TypeOK
<1>2. ASSUME \A t \in Requests : Alone(t)',
             \A t \in Requests : Joined(t)' => req'[t].on \in Requests /\ Bound(req[t].on)'
      PROVE  Latched'
  BY <1>2 DEF Latched
<1>3. \A t \in Requests : Joined(t) => req[t].on = refreshing
  BY <1>1 DEF Owned
<1>4. ASSUME \A t \in Requests : Kept(t) PROVE Latched'
  <2>1. \A t \in Requests : Alone(t)' BY <1>1, <1>4 DEF Kept, Working
  <2>2. \A t \in Requests : Bound(t) => Bound(t)' BY <1>4 DEF Kept, Working
  <2>3. \A t \in Requests : Joined(t)' => Joined(t) /\ req'[t].on = req[t].on
    BY <1>4 DEF Kept
  <2> QED BY <1>1, <1>2, <2>1, <2>2, <2>3
\* A step of one request that does not join another.
<1>5. ASSUME NEW r \in Requests, \A t \in Requests \ {r} : req'[t] = req[t],
             Alone(r)', ~Joined(r)', Bound(r) => Bound(r)'
      PROVE  Latched'
  <2>1. \A t \in Requests : Alone(t)'
    <3>1. \A t \in Requests \ {r} : Alone(t)' BY <1>1, <1>5 DEF Working
    <3> QED BY <1>5, <3>1
  <2>2. \A t \in Requests : Bound(t) => Bound(t)'
    <3>1. \A t \in Requests \ {r} : Bound(t) => Bound(t)' BY <1>5 DEF Working
    <3> QED BY <1>5, <3>1
  <2>3. \A t \in Requests : Joined(t)' => Joined(t) /\ req'[t].on = req[t].on
    BY <1>5
  <2> QED BY <1>1, <1>2, <2>1, <2>2, <2>3
<1>6. ASSUME NEW r \in Requests, Ask(r) PROVE Latched'
  <2>1. Alone(r)' /\ ~Joined(r)' /\ ~Bound(r) BY <1>6, AskDoes DEF Working
  <2> QED BY <1>5, <1>6, <2>1, AskDoes
<1>7. Done.kind = "query" /\ Done.pc = "done" BY DEF Done, Idle
<1>8. ASSUME NEW r \in Requests, QueryCaptured(r) PROVE Latched'
  <2>1. Alone(r)' /\ ~Joined(r)' /\ ~Bound(r) BY <1>7, <1>8, QueryCapturedDoes DEF Working
  <2> QED BY <1>5, <1>8, <2>1, QueryCapturedDoes
<1>9. ASSUME NEW r \in Requests, Answer(r) PROVE Latched'
  <2>1. req[r].kind = "query" /\ req' = [req EXCEPT ![r] = Done] BY <1>9 DEF Answer
  <2>2. req'[r] = Done /\ \A t \in Requests \ {r} : req'[t] = req[t] BY <1>1, <2>1
  <2>3. Alone(r)' /\ ~Joined(r)' /\ ~Bound(r) BY <1>7, <2>1, <2>2 DEF Working
  <2> QED BY <1>5, <2>2, <2>3
<1>10. ASSUME NEW r \in Requests, Refresh(r) \/ RefreshForced(r) PROVE Latched'
  <2>1. CASE refreshing = NoRequest
    <3>1. \A t \in Requests \ {r} : req'[t] = req[t]
      BY <1>10, <2>1, RefreshDoes, Parameters
    <3>2. Alone(r)' /\ ~Joined(r)' /\ ~Bound(r)
      BY <1>10, <2>1, RefreshDoes, Parameters DEF Working
    <3> QED BY <1>5, <3>1, <3>2
  <2>2. CASE refreshing # NoRequest
    <3>1. PICK f \in Requests : f = refreshing BY <1>10, <2>2, RefreshDoes
    <3>2. /\ f # r
          /\ \A t \in Requests \ {r, f} : req'[t] = req[t]
          /\ req[r].pc \in {"idle", "again"}
          /\ req'[r].kind # "query" /\ req'[r].action = "none"
          /\ req'[r].pc \in {"joined", "waiting"} /\ req'[r].on = f
          /\ Joined(r)' => req'[f].forced \/ req[f].decision = "rebuild"
          /\ \/ req'[f] = req[f]
             \/ req[f].decision = "pending" /\ req'[f] = [req[f] EXCEPT !.forced = TRUE]
      BY <1>10, <2>2, <3>1, RefreshDoes
    <3>3. Working(f) /\ Alone(f) BY <1>1, <2>2, <3>1 DEF Owned
    <3>4. /\ req'[f].pc = req[f].pc /\ req'[f].kind = req[f].kind
          /\ req'[f].decision = req[f].decision /\ req'[f].action = req[f].action
          /\ req'[f].on = req[f].on
          /\ \/ req'[f].forced = req[f].forced
             \/ req[f].decision = "pending" /\ req'[f].forced = TRUE
      <4>1. req[f] \in Calls BY <1>1, <3>1
      <4>2. LET g == [req[f] EXCEPT !.forced = TRUE] IN
            /\ g.pc = req[f].pc /\ g.kind = req[f].kind /\ g.decision = req[f].decision
            /\ g.action = req[f].action /\ g.on = req[f].on /\ g.forced = TRUE
        BY <4>1, ForcedDoes
      <4> QED BY <3>2, <4>2
    <3>5. Working(f)' BY <3>3, <3>4 DEF Working
    <3>6. Alone(f)' BY <3>3, <3>4, <3>5
    <3>7. Bound(f) => Bound(f)' BY <3>4, <3>5
    <3>8. Joined(r)' => Bound(f)' BY <3>2, <3>4, <3>5
    <3>9. Alone(r)' BY <3>2 DEF Working
    <3>10. \A t \in Requests \ {r, f} : Alone(t)' BY <1>1, <3>2 DEF Working
    <3>11. \A t \in Requests \ {r} : Joined(t)' => Joined(t) /\ req'[t].on = req[t].on
      BY <3>2, <3>4
    <3>12. \A t \in Requests : Joined(t)' => req'[t].on \in Requests /\ Bound(req[t].on)'
      BY <1>1, <1>3, <3>1, <3>2, <3>7, <3>8, <3>11
    <3> QED BY <1>2, <3>6, <3>9, <3>10, <3>12
  <2> QED BY <2>1, <2>2
\* The flight of r is over: nobody joins it any more.
<1>11. ASSUME NEW r \in Requests, Working(r), NEW a, Settle(r, a),
              \A t \in Requests : (t = r \/ Joined(t)) /\ req[t].kind = "forced"
                                     => a \in {"none", "failed", "rebuilt"}
       PROVE  Latched'
  <2>1. refreshing = r BY <1>11 DEF Owned
  <2>2. ASSUME NEW t \in Requests PROVE Alone(t)' /\ ~Joined(t)'
    <3>1. CASE /\ t = r \/ (req[t].pc = "joined" /\ req[t].on = r)
               /\ req'[t].pc = "done" /\ req'[t].kind = req[t].kind /\ req'[t].action = a
      BY <1>11, <3>1 DEF Working
    <3>2. CASE /\ req'[t].pc = "again" /\ req'[t].kind = req[t].kind
               /\ req'[t].action = req[t].action
      BY <1>1, <3>2 DEF Working
    <3>3. CASE /\ t # r /\ ~(req[t].pc \in {"joined", "waiting"} /\ req[t].on = r)
               /\ req'[t] = req[t]
      <4>1. ~Joined(t) BY <1>3, <2>1, <3>3
      <4> QED BY <1>1, <3>3, <4>1 DEF Working
    <3> QED BY <1>11, <3>1, <3>2, <3>3, SettleDoes
  <2> QED BY <1>2, <2>2
<1>12. ASSUME NEW r \in Requests, RefreshCaptured(r) PROVE Latched'
  <2>1. Working(r) /\ Alone(r) /\ req[r].pc = "captured"
    BY <1>1, <1>12, RefreshCapturedDoes DEF Working
  <2>2. CASE Settle(r, "failed") BY <1>11, <2>1, <2>2
  <2>3. CASE ~Settle(r, "failed")
    <3>1. /\ \A t \in Requests \ {r} : req'[t] = req[t]
          /\ req'[r].kind = req[r].kind /\ req'[r].forced = req[r].forced
          /\ req'[r].action = req[r].action
          /\ \/ req'[r].pc = "rebuild" /\ req'[r].decision = "rebuild"
             \/ req'[r].pc \in {"verify", "verified"} /\ req'[r].decision = req[r].decision
      BY <1>12, <2>3, RefreshCapturedDoes
    <3>2. Working(r)' BY <2>1, <3>1 DEF Working
    <3>3. Alone(r)' /\ ~Joined(r)' /\ (Bound(r) => Bound(r)') BY <2>1, <3>1, <3>2
    <3> QED BY <1>5, <3>1, <3>3
  <2> QED BY <2>2, <2>3
<1>13. ASSUME NEW r \in Requests, RefreshReuses(r) \/ RefreshRebuilds(r) PROVE Latched'
  <2>1. Working(r) /\ Alone(r) /\ req[r].pc = "verified"
    BY <1>1, <1>13, DecidesDoes DEF Working
  <2>2. /\ \A t \in Requests \ {r} : req'[t] = req[t]
        /\ req'[r].kind = req[r].kind /\ req'[r].forced = req[r].forced
        /\ req'[r].action = req[r].action
        /\ \/ req'[r].pc = "rebuild" /\ req'[r].decision = "rebuild"
           \/ req'[r].pc = "reused" /\ req'[r].decision = "no-op" /\ ~req[r].forced
    BY <1>13, DecidesDoes
  <2>3. Working(r)' BY <2>1, <2>2 DEF Working
  <2>4. Alone(r)' /\ ~Joined(r)' /\ (Bound(r) => Bound(r)') BY <2>1, <2>2, <2>3
  <2> QED BY <1>5, <2>2, <2>4
<1>14. ASSUME NEW r \in Requests, RebuildPersists(r) PROVE Latched'
  <2>1. /\ req[r].pc = "rebuild" /\ req'[r].pc = "rebuilt"
        /\ \A t \in Requests \ {r} : req'[t] = req[t]
        /\ req'[r].kind = req[r].kind /\ req'[r].forced = req[r].forced
        /\ req'[r].action = req[r].action /\ req'[r].decision = req[r].decision
    BY <1>14, RebuildPersistsDoes
  <2>2. Working(r) /\ Alone(r) BY <1>1, <2>1
  <2>3. Working(r)' BY <2>1, <2>2 DEF Working
  <2>4. Alone(r)' /\ ~Joined(r)' /\ (Bound(r) => Bound(r)') BY <2>1, <2>2, <2>3
  <2> QED BY <1>5, <2>1, <2>4
<1>15. ASSUME NEW r \in Requests, RefreshUnverified(r) \/ RebuildFails(r) \/ RebuildReturns(r)
       PROVE  Latched'
  <2>1. Working(r)
    BY <1>1, <1>15 DEF RefreshUnverified, RebuildFails, RebuildReturns, Deciding, Working
  <2> QED
    BY <1>11, <1>15, <2>1 DEF RefreshUnverified, RebuildFails, RebuildReturns, FlightFails
<1>16. ASSUME NEW r \in Requests, RefreshReused(r) PROVE Latched'
  <2>1. /\ Working(r) /\ ~req[r].forced /\ req[r].decision = "no-op" /\ req[r].kind # "forced"
    BY <1>1, <1>16 DEF RefreshReused
  <2>2. \A t \in Requests : Joined(t) => t # r /\ req[t].on = r
    BY <1>3, <2>1 DEF Owned, Working
  <2>3. \A t \in Requests : ~Joined(t) BY <1>1, <2>1, <2>2
  <2> QED BY <1>11, <1>16, <2>1, <2>3 DEF RefreshReused
<1> QED
  BY <1>4, <1>6, <1>8, <1>9, <1>10, <1>12, <1>13, <1>14, <1>15, <1>16, FlightMoves
  DEF Next, Proceeds, Proceed, vars, Edit, ExternalGraph, Kept

-----------------------------------------------------------------------------
(* What is in play. *)

LEMMA CatalogNotNo == NoCatalog \notin Catalogs
  BY Parameters DEF Catalogs

\* A generation whose catalog is in play already.
Safe(g) == g # NoCatalog => InPlay(g.catalog)

LEMMA HeldSafe ==
  /\ Safe(generation) /\ Safe(NoCatalog)
  /\ Syncing => Safe(sync.prior) /\ (sync.payload # NoCatalog => InPlay(sync.payload))
  /\ sync.stage = "done" => Safe(sync.gen)
  /\ \A t \in Requests : Safe(req[t].gen) /\ Safe(req[t].fallback)
  BY DEF Safe, InPlay, Holds

LEMMA NothingNew ==
  ASSUME disk' = disk, Safe(generation'),
         Syncing' => Safe(sync'.prior) /\ (sync'.payload # NoCatalog => InPlay(sync'.payload)),
         sync'.stage = "done" => Safe(sync'.gen),
         \A t \in Requests : Safe(req'[t].gen) /\ Safe(req'[t].fallback),
         \A v \in verifying' : \/ v \in verifying
                               \/ \E d \in Catalogs : /\ InPlay(d)
                                                      /\ v.key = d.id /\ v.from = d.from,
         NEW c \in Catalogs, InPlay(c)'
  PROVE  InPlay(c)
<1>1. c # NoCatalog BY CatalogNotNo
<1>2. CASE disk' = c BY <1>2 DEF InPlay
<1>3. CASE Holds(generation', c) BY <1>3 DEF Holds, Safe
<1>4. CASE Syncing' /\ (Holds(sync'.prior, c) \/ sync'.payload = c)
  BY <1>1, <1>4 DEF Holds, Safe
<1>5. CASE sync'.stage = "done" /\ Holds(sync'.gen, c) BY <1>5 DEF Holds, Safe
<1>6. ASSUME NEW t \in Requests, Holds(req'[t].gen, c) \/ Holds(req'[t].fallback, c)
      PROVE  InPlay(c)
  BY <1>6 DEF Holds, Safe
<1>7. ASSUME NEW v \in verifying', v.key = c.id, v.from = c.from PROVE InPlay(c)
  <2>1. CASE v \in verifying BY <1>7, <2>1 DEF InPlay
  <2>2. ASSUME NEW d \in Catalogs, InPlay(d), v.key = d.id, v.from = d.from PROVE InPlay(c)
    <3>1. c = [id |-> c.id, from |-> c.from] /\ d = [id |-> d.id, from |-> d.from]
      BY DEF Catalogs
    <3>2. c = d BY <1>7, <2>2, <3>1
    <3> QED BY <2>2, <3>2
  <2> QED BY <2>1, <2>2
<1> QED BY <1>2, <1>3, <1>4, <1>5, <1>6, <1>7 DEF InPlay, Holds

\* A step of a capture: what it has loaded, and what it puts back.
LEMMA SyncHolds ==
  ASSUME TypeOK, Loading, SyncStep \/ SyncReadFails
  PROVE  /\ UNCHANGED <<disk, built, tree, verifying>>
         /\ Safe(generation')
         /\ Syncing' => /\ Safe(sync'.prior)
                        /\ sync'.payload # NoCatalog => InPlay(sync'.payload)
                        /\ sync'.priorCache = sync.priorCache
         /\ sync'.stage = "done" => Safe(sync'.gen)
         /\ \A t \in Requests : Safe(req'[t].gen) /\ Safe(req'[t].fallback)
         /\ cache' \in {cache, NoCache, sync.priorCache}
<1>1. Syncing /\ sync \in Syncs BY SyncMoves, SyncingTyped
<1>2. UNCHANGED <<disk, built, tree, verifying>>
  BY DEF SyncStep, ProbeMissing, ProbeCurrent, ProbeOther, LoadCatalog, ConfirmRaced, ConfirmSame,
         SyncFinal, SyncReadFails, NotSync
<1>3. /\ Safe(generation) /\ Safe(NoCatalog) /\ Safe(sync.prior)
      /\ sync.payload # NoCatalog => InPlay(sync.payload)
      /\ \A t \in Requests : Safe(req[t].gen) /\ Safe(req[t].fallback)
  BY <1>1, HeldSafe
<1>4. ASSUME NEW ok \in BOOLEAN, NEW g \in Served, Safe(g), SyncEnds(ok, g)
      PROVE  /\ ~Syncing' /\ Safe(sync'.gen)
             /\ \A t \in Requests : Safe(req'[t].gen) /\ Safe(req'[t].fallback)
  <2>1. /\ sync'.stage = "done" /\ sync'.gen = g
        /\ \A t \in Requests \ {sync.by} : req'[t] = req[t]
        /\ req'[sync.by].gen = g /\ req'[sync.by].fallback = req[sync.by].fallback
        /\ sync.by \in Requests
    BY <1>1, <1>4, SyncEndsDoes
  <2>2. ~Syncing' BY <2>1 DEF Syncing
  <2>3. Safe(sync'.gen) BY <1>4, <2>1
  <2>4. ASSUME NEW t \in Requests PROVE Safe(req'[t].gen) /\ Safe(req'[t].fallback)
    BY <1>3, <1>4, <2>1
  <2> QED BY <2>2, <2>3, <2>4
<1>5. NoCatalog \in Served /\ generation \in Served BY DEF Served, TypeOK
<1> DEFINE Goal == /\ Safe(generation')
                   /\ Syncing' => /\ Safe(sync'.prior)
                                  /\ sync'.payload # NoCatalog => InPlay(sync'.payload)
                                  /\ sync'.priorCache = sync.priorCache
                   /\ sync'.stage = "done" => Safe(sync'.gen)
                   /\ \A t \in Requests : Safe(req'[t].gen) /\ Safe(req'[t].fallback)
                   /\ cache' \in {cache, NoCache, sync.priorCache}
<1> SUFFICES Goal BY <1>2
<1>6. CASE SyncEnds(FALSE, NoCatalog) /\ generation' = sync.prior /\ cache' = sync.priorCache
  BY <1>3, <1>4, <1>5, <1>6
<1>7. CASE SyncEnds(TRUE, generation) /\ UNCHANGED <<generation, cache>>
  BY <1>3, <1>4, <1>5, <1>7
<1>8. ASSUME NextProbe, UNCHANGED req, Safe(generation'), cache' \in {cache, NoCache} PROVE Goal
  <2>1. /\ sync'.prior = sync.prior /\ sync'.priorCache = sync.priorCache
        /\ sync'.payload = NoCatalog /\ sync'.stage # "done"
    BY <1>1, <1>8, NextProbeDoes
  <2> QED BY <1>3, <1>8, <2>1
<1>9. CASE ProbeMissing \/ ProbeCurrent \/ ConfirmRaced
  <2>1. NextProbe /\ UNCHANGED req /\ cache' \in {cache, NoCache}
    BY <1>9 DEF ProbeMissing, ProbeCurrent, ConfirmRaced
  <2>2. generation' = NoCatalog \/ generation' = generation
    BY <1>9 DEF ProbeMissing, ProbeCurrent, ConfirmRaced
  <2>3. Safe(generation') BY <1>3, <2>2
  <2> QED BY <1>8, <2>1, <2>3
<1>10. CASE ProbeOther
  <2>1. UNCHANGED <<req, generation, cache>> /\ sync' = [sync EXCEPT !.stage = "load",
                                                                     !.ident = DiskId]
    BY <1>10 DEF ProbeOther
  <2>2. /\ sync'.prior = sync.prior /\ sync'.priorCache = sync.priorCache
        /\ sync'.payload = sync.payload /\ sync'.stage = "load"
    BY <1>1, <2>1 DEF Syncs
  <2> QED BY <1>3, <2>1, <2>2
<1>11. CASE LoadCatalog
  <2>1. UNCHANGED <<req, generation, cache>> /\ sync' = [sync EXCEPT !.stage = "confirm",
                                                                     !.payload = disk]
    BY <1>11 DEF LoadCatalog
  <2>2. /\ sync'.prior = sync.prior /\ sync'.priorCache = sync.priorCache
        /\ sync'.payload = disk /\ sync'.stage = "confirm"
    BY <1>1, <2>1 DEF Syncs
  <2>3. InPlay(disk) BY DEF InPlay
  <2> QED BY <1>3, <2>1, <2>2, <2>3
<1>12. CASE ConfirmSame /\ sync.payload.id = sync.ident
  <2>1. /\ NextProbe /\ UNCHANGED req /\ cache' = NoCache
        /\ generation' = createGeneration(sync.payload, sync.ident)
    BY <1>12 DEF ConfirmSame
  <2>2. generation'.catalog = sync.payload BY <2>1 DEF createGeneration
  <2>3. sync.payload # NoCatalog BY <1>1, <1>12 DEF ConfirmSame, Loading
  <2>4. Safe(generation') BY <1>3, <2>2, <2>3 DEF Safe
  <2> QED BY <1>8, <2>1, <2>4
<1>13. CASE ConfirmSame /\ sync.payload.id # sync.ident
  BY <1>6, <1>13 DEF ConfirmSame, SyncFails
<1>14. CASE SyncFinal
  BY <1>6, <1>7, <1>14 DEF SyncFinal, SyncFails
<1>15. CASE SyncReadFails
  BY <1>6, <1>15 DEF SyncReadFails, SyncFails
<1> HIDE DEF Goal
<1> QED BY <1>9, <1>10, <1>11, <1>12, <1>13, <1>14, <1>15 DEF SyncStep

\* A call that joins a flight holds nothing; the flight holds what it did.
LEMMA JoinHolds ==
  ASSUME TypeOK, Owned, NEW r \in Requests, Refresh(r) \/ RefreshForced(r),
         refreshing # NoRequest, NEW t \in Requests
  PROVE  /\ UNCHANGED <<sync, cache, verifying, tree>>
         /\ \/ req'[t].gen = NoCatalog /\ req'[t].fallback = NoCatalog
               /\ req'[t].pc \in {"joined", "waiting"}
            \/ /\ req'[t].gen = req[t].gen /\ req'[t].fallback = req[t].fallback
               /\ req'[t].pc = req[t].pc /\ req'[t].kind = req[t].kind
               /\ req'[t].floor = req[t].floor /\ req'[t].early = req[t].early
               /\ req'[t].verdict = req[t].verdict /\ req'[t].since = req[t].since
<1>1. req \in [Requests -> Calls] /\ refreshing \in Requests BY DEF TypeOK
<1>2. UNCHANGED <<sync, cache, verifying, tree>> BY DEF Refresh, RefreshForced
<1>3. r # refreshing BY DEF Refresh, RefreshForced, Owned, Working
<1>4. ASSUME NEW kind, NEW pc
      PROVE  LET j == [Idle EXCEPT !.kind = kind, !.pc = pc, !.on = refreshing] IN
             j.gen = NoCatalog /\ j.fallback = NoCatalog /\ j.pc = pc
  BY DEF Idle
<1>5. ASSUME NEW kind, NEW pc
      PROVE  /\ Join(r, kind, pc)[r].gen = NoCatalog
             /\ Join(r, kind, pc)[r].fallback = NoCatalog
             /\ Join(r, kind, pc)[r].pc = pc
             /\ \A u \in Requests \ {r} : Join(r, kind, pc)[u] = req[u]
             /\ DOMAIN Join(r, kind, pc) = Requests
  BY <1>1, <1>4 DEF Join
<1>6. PICK f : /\ f[r].gen = NoCatalog /\ f[r].fallback = NoCatalog
               /\ f[r].pc \in {"joined", "waiting"}
               /\ \A u \in Requests \ {r} : f[u] = req[u]
               /\ DOMAIN f = Requests
               /\ req' = f \/ req' = [f EXCEPT ![refreshing].forced = TRUE]
  <2>1. PICK kind \in {"refresh", "forced"}, pc \in {"joined", "waiting"} :
          \/ req' = Join(r, kind, pc)
          \/ req' = [Join(r, kind, pc) EXCEPT ![refreshing].forced = TRUE]
    BY DEF Refresh, RefreshForced, JoinForced
  <2> QED BY <1>5, <2>1
<1>7. req[refreshing] \in Calls BY <1>1
<1>8. LET g == [req[refreshing] EXCEPT !.forced = TRUE] IN
      /\ g.gen = req[refreshing].gen /\ g.fallback = req[refreshing].fallback
      /\ g.pc = req[refreshing].pc /\ g.kind = req[refreshing].kind
      /\ g.floor = req[refreshing].floor /\ g.early = req[refreshing].early
      /\ g.verdict = req[refreshing].verdict /\ g.since = req[refreshing].since
  BY <1>7, ForcedDoes
<1>9. req'[t] = f[t] \/ (t = refreshing /\ req'[t] = [req[t] EXCEPT !.forced = TRUE])
  BY <1>1, <1>3, <1>6
<1>10. CASE t = r BY <1>2, <1>3, <1>6, <1>9, <1>10
<1>11. CASE t # r BY <1>2, <1>6, <1>8, <1>9, <1>11
<1> QED BY <1>10, <1>11

\* A rebuild hands out a new catalog, of files no older than its beginning.
LEMMA RebuildPersistsBuilds ==
  ASSUME TypeOK, NEW r \in Requests, RebuildPersists(r)
  PROVE  /\ \A t \in Requests \ {r} : req'[t] = req[t]
         /\ req'[r].fallback = req[r].fallback /\ req'[r].floor = req[r].floor
         /\ req'[r].early = req[r].early
         /\ \E n \in Catalogs : /\ n.id = built + 1 /\ disk' \in {disk, n}
                                /\ req'[r].gen.catalog = n /\ n.from >= req[r].since
<1>1. req \in [Requests -> Calls] /\ req[r] \in Calls /\ req[r].since \in Nat /\ built \in Nat
  BY DEF TypeOK, Calls
<1>2. PICK read \in req[r].since..tree :
        LET c == [id |-> built + 1, from |-> read] IN
        /\ disk' = c \/ disk' = disk
        /\ req' = [req EXCEPT ![r] = [req[r] EXCEPT !.pc = "rebuilt",
                                                    !.gen = createGeneration(c, c.id)]]
  BY DEF RebuildPersists, replaceAll
<1> DEFINE n == [id |-> built + 1, from |-> read]
           g == createGeneration(n, n.id)
<1>3. n \in Catalogs /\ n.id = built + 1 /\ n.from >= req[r].since
  BY <1>1 DEF Catalogs, TypeOK
<1>4. /\ disk' \in {disk, n}
      /\ req' = [req EXCEPT ![r] = [req[r] EXCEPT !.pc = "rebuilt", !.gen = g]]
  BY <1>2
<1>5. g \in Generations /\ g.catalog = n
  BY <1>3 DEF createGeneration, Generations, Catalogs
<1> HIDE DEF g, n
<1>7. /\ \A t \in Requests \ {r} : req'[t] = req[t]
      /\ req'[r] = [req[r] EXCEPT !.pc = "rebuilt", !.gen = g]
  BY <1>1, <1>4
<1>8. /\ req'[r].gen = g /\ req'[r].fallback = req[r].fallback
      /\ req'[r].floor = req[r].floor /\ req'[r].early = req[r].early
  BY <1>1, <1>7 DEF Calls
<1> QED BY <1>3, <1>4, <1>5, <1>7, <1>8

LEMMA PlayStep ==
  ASSUME TypeOK, Loading, Verified, Owned, Latched, [Next]_vars
  PROVE  \/ built' = built /\ \A c \in Catalogs : InPlay(c)' => InPlay(c)
         \/ /\ built' = built + 1
            /\ \E n \in Catalogs : /\ n.id = built + 1
                                   /\ \A c \in Catalogs : InPlay(c)' => InPlay(c) \/ c = n
<1> DEFINE Old == built' = built /\ \A c \in Catalogs : InPlay(c)' => InPlay(c)
           New == /\ built' = built + 1
                  /\ \E n \in Catalogs : /\ n.id = built + 1
                                         /\ \A c \in Catalogs : InPlay(c)' => InPlay(c) \/ c = n
           SyncOK == /\ Syncing' => /\ Safe(sync'.prior)
                                    /\ sync'.payload # NoCatalog => InPlay(sync'.payload)
                     /\ sync'.stage = "done" => Safe(sync'.gen)
           Seen(v) == \/ v \in verifying
                      \/ \E d \in Catalogs : InPlay(d) /\ v.key = d.id /\ v.from = d.from
<1>1. /\ Safe(generation) /\ Safe(NoCatalog)
      /\ \A t \in Requests : Safe(req[t].gen) /\ Safe(req[t].fallback)
      /\ sync.stage = "done" => Safe(sync.gen)
      /\ req \in [Requests -> Calls] /\ built \in Nat
  BY HeldSafe DEF TypeOK
<1>2. ASSUME sync' = sync \/ sync' = NoSync PROVE SyncOK
  BY <1>2, HeldSafe DEF Syncing, NoSync
<1>3. ASSUME sync'.stage = "probe", sync'.prior = generation, sync'.payload = NoCatalog
      PROVE  SyncOK
  BY <1>1, <1>3
<1>4. ASSUME UNCHANGED <<disk, built>>, Safe(generation'), SyncOK,
             \A t \in Requests : Safe(req'[t].gen) /\ Safe(req'[t].fallback),
             \A v \in verifying' : Seen(v)
      PROVE  Old
  BY <1>4, NothingNew
<1>5. ASSUME NEW r \in Requests, \A t \in Requests \ {r} : req'[t] = req[t],
             Safe(req'[r].gen), Safe(req'[r].fallback)
      PROVE  \A t \in Requests : Safe(req'[t].gen) /\ Safe(req'[t].fallback)
  BY <1>1, <1>5
<1> HIDE DEF SyncOK, Seen
<1>6. \A v \in verifying : Seen(v) BY DEF Seen
<1>7. CASE UNCHANGED vars \/ Edit
  <2>1. UNCHANGED <<disk, built, generation, sync, verifying, req>> BY <1>7 DEF vars, Edit
  <2> QED BY <1>1, <1>2, <1>4, <1>6, <2>1
<1>8. CASE SyncStep \/ SyncReadFails
  BY <1>4, <1>6, <1>8, SyncHolds DEF SyncOK
<1>9. ASSUME NEW v \in verifying, VerifySettles(v) \/ VerifyFails(v) PROVE Old
  <2>1. PICK ok \in BOOLEAN, d \in {"none", "fresh", "stale"} : VerifyEnds(v, ok, d)
    BY <1>9 DEF VerifySettles, VerifyFails
  <2>2. UNCHANGED <<disk, built, generation, sync>> BY <1>9 DEF VerifySettles, VerifyFails
  <2>3. verifying' = verifying \ {v} BY <2>1 DEF VerifyEnds
  <2>4. ASSUME NEW t \in Requests
        PROVE  req'[t].gen = req[t].gen /\ req'[t].fallback = req[t].fallback
    BY <2>1, VerifyEndsDoes
  <2> QED BY <1>1, <1>2, <1>4, <1>6, <2>2, <2>3, <2>4
<1>10. ASSUME NEW r \in Requests, Ask(r) PROVE Old
  <2> DEFINE s == [Idle EXCEPT !.floor = answered]
  <2>1. s \in Calls BY IdleTyped DEF Calls, TypeOK
  <2>2. s.gen = NoCatalog /\ s.fallback = NoCatalog BY DEF Idle
  <2>3. BeginCapture(r, s, cache) /\ cache \in Caches /\ ~Syncing BY <1>10 DEF Ask, TypeOK
  <2> HIDE DEF s
  <2>4. /\ \A t \in Requests \ {r} : req'[t] = req[t]
        /\ \/ /\ sync.stage = "none" /\ sync'.stage = "probe"
              /\ sync'.prior = generation /\ sync'.payload = NoCatalog
              /\ req'[r] = [s EXCEPT !.pc = "capture", !.on = r]
           \/ /\ sync.stage = "done" /\ UNCHANGED sync
              /\ req'[r] = [s EXCEPT !.pc = "captured", !.on = sync.by, !.ok = sync.ok,
                                     !.gen = sync.gen]
    BY <2>1, <2>3, BeginCaptureDoes
  <2>5. /\ req'[r].fallback = NoCatalog
        /\ req'[r].gen = NoCatalog \/ (sync.stage = "done" /\ req'[r].gen = sync.gen)
    BY <2>1, <2>2, <2>4 DEF Calls
  <2>6. Safe(req'[r].gen) /\ Safe(req'[r].fallback) BY <1>1, <2>5
  <2>7. SyncOK BY <1>2, <1>3, <2>4
  <2>8. UNCHANGED <<disk, built, generation, verifying>> BY <1>10 DEF Ask
  <2> QED BY <1>1, <1>4, <1>5, <1>6, <2>4, <2>6, <2>7, <2>8
<1>11. ASSUME NEW r \in Requests, Refresh(r) \/ RefreshForced(r) PROVE Old
  <2>1. UNCHANGED <<disk, built, generation, verifying>> /\ ~Syncing
    BY <1>11 DEF Refresh, RefreshForced
  <2>2. CASE refreshing = NoRequest
    <3>1. PICK kind \in {"refresh", "forced"} : BeginRefresh(r, kind)
      BY <1>11, <2>2 DEF Refresh, RefreshForced
    <3>2. kind \in Kinds /\ kind # "query" BY DEF Kinds
    <3>3. /\ \A t \in Requests \ {r} : req'[t] = req[t]
          /\ req'[r].fallback = generation
          /\ \/ /\ sync'.stage = "probe" /\ sync'.prior = generation
                /\ sync'.payload = NoCatalog /\ req'[r].gen = NoCatalog
             \/ /\ sync.stage = "done" /\ UNCHANGED sync /\ req'[r].gen = sync.gen
      BY <2>1, <3>1, <3>2, BeginRefreshDoes
    <3>4. SyncOK BY <1>2, <1>3, <3>3
    <3>5. Safe(req'[r].gen) /\ Safe(req'[r].fallback) BY <1>1, <3>3
    <3> QED BY <1>1, <1>4, <1>5, <1>6, <2>1, <3>3, <3>4, <3>5
  <2>3. CASE refreshing # NoRequest
    <3>1. UNCHANGED sync BY <1>11, <2>3 DEF Refresh, RefreshForced
    <3>2. ASSUME NEW t \in Requests
          PROVE  \/ req'[t].gen = req[t].gen /\ req'[t].fallback = req[t].fallback
                 \/ req'[t].gen = NoCatalog /\ req'[t].fallback = NoCatalog
      BY <1>11, <2>3, <3>2, JoinHolds
    <3> QED BY <1>1, <1>2, <1>4, <1>6, <2>1, <3>1, <3>2
  <2> QED BY <2>2, <2>3
\* A verification that begins is of a generation that is held.
<1>12. ASSUME NEW r \in Requests, NEW s \in Calls, s.gen # NoCatalog, Safe(s.gen), BeginVerify(r, s)
       PROVE  /\ \A v \in verifying' : Seen(v)
              /\ \A t \in Requests \ {r} : req'[t] = req[t]
              /\ req'[r].gen = s.gen /\ req'[r].fallback = s.fallback
  <2>1. /\ \A v \in verifying' : v \in verifying
             \/ v = [key |-> s.gen.key, from |-> s.gen.catalog.from, since |-> tree]
        /\ \A t \in Requests \ {r} : req'[t] = req[t]
        /\ req'[r].gen = s.gen /\ req'[r].fallback = s.fallback
    BY <1>12, BeginVerifyDoes
  <2>2. s.gen.catalog \in Catalogs /\ s.gen.catalog.id = s.gen.key
    BY <1>12 DEF Calls, Served, Generations
  <2>3. InPlay(s.gen.catalog) BY <1>12 DEF Safe
  <2>4. ASSUME NEW v \in verifying',
               v = [key |-> s.gen.key, from |-> s.gen.catalog.from, since |-> tree]
        PROVE  Seen(v)
    BY <2>2, <2>3, <2>4 DEF Seen
  <2> QED BY <1>6, <2>1, <2>4
<1>13. ASSUME NEW r \in Requests, QueryCaptured(r) PROVE Old
  <2>1. UNCHANGED <<disk, built, generation>> /\ (sync' = sync \/ sync' = NoSync)
    BY <1>13 DEF QueryCaptured, TakeCapture
  <2>2. SyncOK BY <1>2, <2>1
  <2>3. CASE req[r].ok /\ req[r].gen # NoCatalog
    <3>1. BeginVerify(r, req[r]) /\ req[r] \in Calls BY <1>1, <1>13, <2>3 DEF QueryCaptured, Taken
    <3> QED BY <1>1, <1>4, <1>5, <1>12, <2>1, <2>2, <2>3, <3>1
  <2>4. CASE ~(req[r].ok /\ req[r].gen # NoCatalog)
    <3>1. req' = [req EXCEPT ![r] = Done] /\ UNCHANGED verifying
      BY <1>13, <2>4 DEF QueryCaptured, Taken
    <3>2. Done.gen = NoCatalog /\ Done.fallback = NoCatalog BY DEF Done, Idle
    <3>3. /\ \A t \in Requests \ {r} : req'[t] = req[t]
          /\ Safe(req'[r].gen) /\ Safe(req'[r].fallback)
      BY <1>1, <3>1, <3>2
    <3> QED BY <1>1, <1>4, <1>5, <1>6, <2>1, <2>2, <3>1, <3>3
  <2> QED BY <2>3, <2>4
<1>14. ASSUME NEW r \in Requests, Answer(r) PROVE Old
  <2>1. /\ UNCHANGED <<disk, built, generation, sync, verifying>>
        /\ req' = [req EXCEPT ![r] = Done]
    BY <1>14 DEF Answer
  <2>2. Done.gen = NoCatalog /\ Done.fallback = NoCatalog BY DEF Done, Idle
  <2>3. /\ \A t \in Requests \ {r} : req'[t] = req[t]
        /\ Safe(req'[r].gen) /\ Safe(req'[r].fallback)
    BY <1>1, <2>1, <2>2
  <2> QED BY <1>1, <1>2, <1>4, <1>5, <1>6, <2>1, <2>3
<1>15. ASSUME NEW r \in Requests, NEW a, Settle(r, a)
       PROVE  \A t \in Requests : Safe(req'[t].gen) /\ Safe(req'[t].fallback)
  <2> SUFFICES ASSUME NEW t \in Requests PROVE Safe(req'[t].gen) /\ Safe(req'[t].fallback)
    OBVIOUS
  <2>1. \/ req'[t].gen = NoCatalog /\ req'[t].fallback = NoCatalog
        \/ req'[t].gen = req[t].gen /\ req'[t].fallback = req[t].fallback
    BY <1>15, SettleDoes
  <2> QED BY <1>1, <2>1
<1>16. ASSUME NEW r \in Requests, RefreshCaptured(r) PROVE Old
  <2> DEFINE kept == [req[r] EXCEPT !.fallback = IF req[r].gen # NoCatalog THEN req[r].gen
                                                 ELSE req[r].fallback]
  <2>1. UNCHANGED <<disk, built, generation>> /\ (sync' = sync \/ sync' = NoSync)
    BY <1>16 DEF RefreshCaptured, TakeCapture
  <2>2. SyncOK BY <1>2, <2>1
  <2>3. /\ kept \in Calls /\ kept.gen = req[r].gen
        /\ kept.fallback = req[r].gen \/ kept.fallback = req[r].fallback
    BY <1>1 DEF Calls
  <2>4. \/ Settle(r, "failed") /\ UNCHANGED verifying
        \/ req' = [req EXCEPT ![r] = Rebuild(kept)] /\ UNCHANGED verifying
        \/ BeginVerify(r, kept) /\ req[r].gen # NoCatalog
    BY <1>16 DEF RefreshCaptured
  <2> HIDE DEF kept
  <2>5. Safe(kept.gen) /\ Safe(kept.fallback) BY <1>1, <2>3
  <2>6. CASE Settle(r, "failed") /\ UNCHANGED verifying
    BY <1>1, <1>4, <1>6, <1>15, <2>1, <2>2, <2>6
  <2>7. CASE req' = [req EXCEPT ![r] = Rebuild(kept)] /\ UNCHANGED verifying
    <3>1. Rebuild(kept).gen = kept.gen /\ Rebuild(kept).fallback = kept.fallback
      BY <2>3 DEF Rebuild, Calls
    <3>2. /\ \A t \in Requests \ {r} : req'[t] = req[t]
          /\ Safe(req'[r].gen) /\ Safe(req'[r].fallback)
      BY <1>1, <2>5, <2>7, <3>1
    <3> QED BY <1>1, <1>4, <1>5, <1>6, <2>1, <2>2, <2>7, <3>2
  <2>8. CASE BeginVerify(r, kept) /\ req[r].gen # NoCatalog
    BY <1>1, <1>4, <1>5, <1>12, <2>1, <2>2, <2>3, <2>5, <2>8
  <2> QED BY <2>4, <2>6, <2>7, <2>8
<1>17. ASSUME NEW r \in Requests,
              RefreshUnverified(r) \/ RebuildFails(r) \/ RefreshReused(r) \/ RebuildReturns(r)
       PROVE  Old
  <2>1. /\ UNCHANGED <<disk, built, sync, verifying>>
        /\ generation' \in {generation, req[r].gen, req[r].fallback}
        /\ \E a : Settle(r, a)
    BY <1>17 DEF RefreshUnverified, RebuildFails, RefreshReused, RebuildReturns, FlightFails
  <2>2. Safe(generation') BY <1>1, <2>1
  <2> QED BY <1>2, <1>4, <1>6, <1>15, <2>1, <2>2
<1>18. ASSUME NEW r \in Requests, RefreshReuses(r) \/ RefreshRebuilds(r) PROVE Old
  <2>1. UNCHANGED <<disk, built, generation, sync, verifying>>
    BY <1>18 DEF RefreshReuses, RefreshRebuilds
  <2>2. \/ req' = [req EXCEPT ![r] = [req[r] EXCEPT !.decision = "no-op", !.pc = "reused"]]
        \/ req' = [req EXCEPT ![r] = Rebuild(req[r])]
    BY <1>18 DEF RefreshReuses, RefreshRebuilds
  <2>3. ASSUME NEW s \in Calls
        PROVE  /\ Rebuild(s).gen = s.gen /\ Rebuild(s).fallback = s.fallback
               /\ [s EXCEPT !.decision = "no-op", !.pc = "reused"].gen = s.gen
               /\ [s EXCEPT !.decision = "no-op", !.pc = "reused"].fallback = s.fallback
    BY DEF Rebuild, Calls
  <2>4. /\ \A t \in Requests \ {r} : req'[t] = req[t]
        /\ req'[r].gen = req[r].gen /\ req'[r].fallback = req[r].fallback
    BY <1>1, <2>2, <2>3
  <2> QED BY <1>1, <1>2, <1>4, <1>5, <1>6, <2>1, <2>4
\* What is built is all that is new.
<1>19. CASE ExternalGraph
  <2> DEFINE n == [id |-> built + 1, from |-> tree]
  <2>1. n \in Catalogs /\ n.id = built + 1 BY DEF TypeOK, Catalogs
  <2>2. /\ disk' = n /\ built' = built + 1
        /\ UNCHANGED <<generation, sync, req, verifying>>
    BY <1>19 DEF ExternalGraph, replaceAll
  <2> HIDE DEF n
  <2>3. \A c \in Catalogs : InPlay(c)' => InPlay(c) \/ c = n
    BY <2>2 DEF InPlay, Syncing, Holds
  <2> QED BY <2>1, <2>2, <2>3
<1>20. ASSUME NEW r \in Requests, RebuildPersists(r) PROVE New
  <2>1. PICK n \in Catalogs :
          /\ n.id = built + 1 /\ disk' \in {disk, n}
          /\ \A t \in Requests \ {r} : req'[t] = req[t]
          /\ req'[r].gen.catalog = n /\ req'[r].fallback = req[r].fallback
    BY <1>20, RebuildPersistsBuilds
  <2>2. built' = built + 1 /\ UNCHANGED <<generation, sync, verifying>>
    BY <1>20 DEF RebuildPersists
  <2>3. ASSUME NEW c \in Catalogs, InPlay(c)' PROVE InPlay(c) \/ c = n
    <3>1. ASSUME NEW t \in Requests, Holds(req'[t].gen, c) \/ Holds(req'[t].fallback, c)
          PROVE  InPlay(c) \/ c = n
      <4>1. CASE t = r BY <2>1, <3>1, <4>1 DEF InPlay, Holds
      <4>2. CASE t # r BY <2>1, <3>1, <4>2 DEF InPlay
      <4> QED BY <4>1, <4>2
    <3> QED BY <2>1, <2>2, <2>3, <3>1 DEF InPlay, Syncing
  <2> QED BY <2>1, <2>2, <2>3
<1> QED
  BY <1>7, <1>8, <1>9, <1>10, <1>11, <1>13, <1>14, <1>16, <1>17, <1>18, <1>19, <1>20
  DEF Next, Proceeds, Proceed

-----------------------------------------------------------------------------
(* Verdicts. *)

\* Verification v may find that its catalog is fresh, or that it is not.
Finds(v, verdict) ==
    \E seen \in v.since..tree : verdict = IF seen = v.from THEN "fresh" ELSE "stale"

\* The files and the verifications only move on; a verdict that is cached was, or was kept to
\* be put back, or has just been found.
LEMMA VerdictsMove ==
  ASSUME TypeOK, Loading, Owned, [Next]_vars
  PROVE  /\ tree <= tree'
         /\ \A v \in verifying' : v \in verifying \/ v.since = tree
         /\ \/ cache' \in {cache, NoCache}
            \/ Syncing /\ cache' = sync.priorCache
            \/ \E v \in verifying : \E d : Finds(v, d) /\ cache' = [key |-> v.key, verdict |-> d]
         /\ Syncing' => \/ sync'.priorCache \in {cache, NoCache}
                        \/ Syncing /\ sync'.priorCache = sync.priorCache
<1> DEFINE Files == tree <= tree'
           Runs == \A v \in verifying' : v \in verifying \/ v.since = tree
           Caught == \/ cache' \in {cache, NoCache}
                     \/ Syncing /\ cache' = sync.priorCache
                     \/ \E v \in verifying : \E d : /\ Finds(v, d)
                                                    /\ cache' = [key |-> v.key, verdict |-> d]
           Prior == Syncing' => \/ sync'.priorCache \in {cache, NoCache}
                                \/ Syncing /\ sync'.priorCache = sync.priorCache
           Goal == Files /\ Runs /\ Caught /\ Prior
<1> SUFFICES Goal OBVIOUS
<1>1. tree \in Nat BY DEF TypeOK
<1>2. ASSUME sync' = sync \/ sync' = NoSync PROVE Prior
  BY <1>2 DEF Syncing, NoSync
<1>3. ASSUME UNCHANGED tree, UNCHANGED verifying, cache' \in {cache, NoCache},
             sync' = sync \/ sync' = NoSync
      PROVE  Goal
  BY <1>1, <1>2, <1>3
<1>4. CASE UNCHANGED vars BY <1>3, <1>4 DEF vars
<1>5. CASE Edit
  <2>1. tree' = tree + 1 /\ UNCHANGED <<verifying, cache, sync>> BY <1>5 DEF Edit
  <2> QED BY <1>1, <1>2, <2>1
<1>6. CASE ExternalGraph BY <1>3, <1>6 DEF ExternalGraph
<1>7. CASE SyncStep \/ SyncReadFails
  <2>1. Syncing BY <1>7, SyncMoves
  <2> QED BY <1>1, <1>7, <2>1, SyncHolds
<1>8. ASSUME NEW v \in verifying, VerifySettles(v) PROVE Goal
  <2>1. PICK seen \in v.since..tree :
          LET verdict == IF seen = v.from THEN "fresh" ELSE "stale" IN
          /\ VerifyEnds(v, TRUE, verdict)
          /\ cache' = IF Key(generation) = v.key THEN [key |-> v.key, verdict |-> verdict]
                                                 ELSE cache
    BY <1>8 DEF VerifySettles
  <2> DEFINE d == IF seen = v.from THEN "fresh" ELSE "stale"
  <2>2. Finds(v, d) BY DEF Finds
  <2>3. cache' = cache \/ cache' = [key |-> v.key, verdict |-> d] BY <2>1
  <2>4. verifying' = verifying \ {v} BY <2>1 DEF VerifyEnds
  <2>5. UNCHANGED <<tree, sync>> BY <1>8 DEF VerifySettles
  <2> HIDE DEF d
  <2>6. Caught BY <2>2, <2>3
  <2> HIDE DEF Caught
  <2> QED BY <1>1, <1>2, <2>4, <2>5, <2>6
<1>9. ASSUME NEW v \in verifying, VerifyFails(v) PROVE Goal
  <2>1. verifying' = verifying \ {v} /\ UNCHANGED <<tree, cache, sync>>
    BY <1>9 DEF VerifyFails, VerifyEnds
  <2> QED BY <1>1, <1>2, <2>1
<1>10. ASSUME NEW r \in Requests, Ask(r) PROVE Goal
  <2>1. UNCHANGED <<tree, cache, verifying>> BY <1>10 DEF Ask
  <2>2. sync' = sync \/ sync'.priorCache = cache BY <1>10 DEF Ask, BeginCapture
  <2> QED BY <1>1, <1>2, <2>1, <2>2
<1>11. ASSUME NEW r \in Requests, Refresh(r) \/ RefreshForced(r) PROVE Goal
  <2>1. UNCHANGED <<tree, verifying>> BY <1>11 DEF Refresh, RefreshForced
  <2>2. /\ cache' \in {cache, NoCache}
        /\ sync' = sync \/ sync'.priorCache = NoCache
    BY <1>11 DEF Refresh, RefreshForced, BeginRefresh, BeginCapture
  <2> QED BY <1>1, <1>2, <2>1, <2>2
<1>12. ASSUME NEW r \in Requests, QueryCaptured(r) \/ RefreshCaptured(r) PROVE Goal
  <2>1. UNCHANGED <<tree, cache>> /\ (sync' = sync \/ sync' = NoSync)
    BY <1>12 DEF QueryCaptured, RefreshCaptured, TakeCapture
  <2>2. verifying' = verifying \/ \E v : v.since = tree /\ verifying' = verifying \cup {v}
    BY <1>12 DEF QueryCaptured, RefreshCaptured, BeginVerify
  <2> QED BY <1>1, <1>2, <2>1, <2>2
<1>13. ASSUME NEW r \in Requests, Answer(r) PROVE Goal BY <1>3, <1>13 DEF Answer
<1>14. ASSUME NEW r \in Requests,
              \/ RefreshUnverified(r) \/ RebuildFails(r) \/ RefreshReused(r) \/ RebuildReturns(r)
              \/ RefreshReuses(r) \/ RefreshRebuilds(r) \/ RebuildPersists(r)
       PROVE  Goal
  BY <1>3, <1>14
  DEF RefreshUnverified, RebuildFails, RefreshReused, RebuildReturns, RefreshReuses,
      RefreshRebuilds, RebuildPersists
<1> HIDE DEF Goal
<1> QED
  BY <1>4, <1>5, <1>6, <1>7, <1>8, <1>9, <1>10, <1>11, <1>12, <1>13, <1>14
  DEF Next, Proceeds, Proceed

\* The catalog a verification is about.
LEMMA VerifiedInPlay ==
  ASSUME TypeOK, Named, NEW v \in verifying
  PROVE  /\ v.key \in Nat /\ v.from \in Nat /\ v.since \in Nat /\ v.key <= built
         /\ \A c \in Catalogs : InPlay(c) /\ c.id = v.key => c.from = v.from
<1> DEFINE d == [id |-> v.key, from |-> v.from]
<1>1. v.key \in Nat \ {0} /\ v.from \in Nat /\ v.since \in Nat BY DEF TypeOK, Verifications
<1>2. d \in Catalogs /\ d.id = v.key /\ d.from = v.from BY <1>1 DEF Catalogs
<1> HIDE DEF d
<1>3. InPlay(d) BY <1>2 DEF InPlay
<1> QED BY <1>1, <1>2, <1>3 DEF Named

LEMMA NamedStep ==
  ASSUME TypeOK, TypeOK', Loading, Verified, Owned, Latched, Named, [Next]_vars
  PROVE  Named'
<1>1. built \in Nat /\ built' \in Nat BY DEF TypeOK
<1>2. built <= built' BY <1>1, PlayStep
<1>3. \A c \in Catalogs : c.id \in Nat BY DEF Catalogs
<1>4. /\ \A c \in Catalogs : InPlay(c)' => c.id <= built'
      /\ \A c, d \in Catalogs : InPlay(c)' /\ InPlay(d)' /\ c.id = d.id => c = d
  <2>1. /\ \A c \in Catalogs : InPlay(c) => c.id <= built
        /\ \A c, d \in Catalogs : InPlay(c) /\ InPlay(d) /\ c.id = d.id => c = d
    BY DEF Named
  <2>2. CASE built' = built /\ \A c \in Catalogs : InPlay(c)' => InPlay(c)
    BY <2>1, <2>2
  <2>3. ASSUME built' = built + 1, NEW n \in Catalogs, n.id = built + 1,
               \A c \in Catalogs : InPlay(c)' => InPlay(c) \/ c = n
        PROVE  /\ \A c \in Catalogs : InPlay(c)' => c.id <= built'
               /\ \A c, d \in Catalogs : InPlay(c)' /\ InPlay(d)' /\ c.id = d.id => c = d
    BY <1>1, <1>3, <2>1, <2>3
  <2> QED BY <2>2, <2>3, PlayStep
<1> DEFINE Bounded(x) == x # NoCache => x.key <= built
<1>5. Bounded(cache) /\ (Syncing => Bounded(sync.priorCache)) /\ Bounded(NoCache)
  BY DEF Named
<1>6. Bounded(cache')
  <2>1. ASSUME NEW v \in verifying, NEW d, cache' = [key |-> v.key, verdict |-> d]
        PROVE  Bounded(cache')
    BY <2>1, VerifiedInPlay
  <2> QED BY <1>5, <2>1, VerdictsMove
<1>7. Syncing' => Bounded(sync'.priorCache) BY <1>5, VerdictsMove
<1>8. /\ cache' # NoCache => cache'.key \in Nat
      /\ Syncing' /\ sync'.priorCache # NoCache => sync'.priorCache.key \in Nat
  <2>1. Syncing' => sync' \in Syncs BY DEF TypeOK, Syncing, Syncs, Results, NoSync
  <2> QED BY <2>1 DEF TypeOK, Caches, Syncs
<1> QED BY <1>1, <1>2, <1>4, <1>6, <1>7, <1>8 DEF Named

\* A verdict the flight s is given by verification v is about files as recent as v.
LEMMA FoundRecent ==
  ASSUME TypeOK, Named, NEW s \in Calls, NEW v \in verifying, v.since >= s.floor \/ v \in s.early,
         Finds(v, "fresh"), NEW c \in Catalogs, InPlay(c), c.id = v.key
  PROVE  Recent(s, c)
<1>1. v.from \in Nat /\ v.since \in Nat /\ c.from = v.from BY VerifiedInPlay
<1>2. v.from >= v.since BY <1>1 DEF Finds, TypeOK
<1>3. s.floor \in Nat BY DEF Calls
<1>4. CASE v.since >= s.floor BY <1>1, <1>2, <1>3, <1>4 DEF Recent
<1>5. CASE v \in s.early BY <1>1, <1>2, <1>5 DEF Recent
<1> QED BY <1>4, <1>5

\* A flight begins and knows nothing.
Begins(s) ==
    /\ s.floor = tree /\ s.early = verifying /\ s.pc \in {"capture", "captured"}
    /\ UNCHANGED <<tree, verifying>> /\ cache' = NoCache
    /\ Syncing' => sync'.priorCache = NoCache

\* What a step tells a flight o that it leaves as s.
Learns(o, s) ==
    /\ s.floor = o.floor /\ s.early = o.early
    /\ \/ s.pc \in {"capture", "captured", "verify"}
       \/ s.pc = o.pc /\ s.gen = o.gen /\ s.verdict = o.verdict /\ s.since = o.since
       \/ /\ s.pc = "verified" /\ s.gen = o.gen
          /\ cache # NoCache /\ cache.key = o.gen.key /\ s.verdict = cache.verdict
       \/ /\ s.pc = "verified" /\ s.gen = o.gen
          /\ s.verdict = "none" \/ \E v \in verifying : v.key = o.gen.key /\ Finds(v, s.verdict)
       \/ /\ s.pc = "reused" /\ o.pc = "verified" /\ s.gen = o.gen
          /\ s.verdict = o.verdict /\ s.verdict = "fresh"
       \/ s.pc = "rebuild" /\ s.since = tree
       \/ /\ o.pc = "rebuild" /\ s.pc = "rebuilt"
          /\ s.gen.catalog \in Catalogs /\ s.gen.catalog.from >= o.since

LEMMA LearnsStep ==
  ASSUME TypeOK, Loading, Verified, Owned, Latched, [Next]_vars, NEW t \in Requests, Working(t)'
  PROVE  Begins(req'[t]) \/ (Working(t) /\ Learns(req[t], req'[t]))
<1> DEFINE Goal == Begins(req'[t]) \/ (Working(t) /\ Learns(req[t], req'[t]))
<1> SUFFICES Goal OBVIOUS
<1>1. req \in [Requests -> Calls] /\ req[t] \in Calls BY DEF TypeOK
<1>2. ASSUME req'[t] = req[t] PROVE Goal
  <2>1. Working(t) BY <1>2 DEF Working
  <2> QED BY <1>2, <2>1 DEF Learns
<1>3. CASE UNCHANGED req BY <1>2, <1>3
<1>4. CASE SyncStep \/ SyncReadFails
  <2>1. Syncing BY <1>4, SyncMoves
  <2>2. ASSUME NEW ok \in BOOLEAN, NEW g \in Served, SyncEnds(ok, g) PROVE Goal
    <3>1. CASE t = sync.by
      <4>1. /\ req'[t].pc = "captured" /\ req'[t].kind = req[t].kind
            /\ req'[t].floor = req[t].floor /\ req'[t].early = req[t].early
        BY <2>1, <2>2, <3>1, SyncEndsDoes
      <4>2. req[t].pc = "capture" BY <2>1, <3>1 DEF Loading
      <4> QED BY <4>1, <4>2 DEF Learns, Working
    <3>2. CASE t # sync.by BY <1>2, <2>1, <2>2, <3>2, SyncEndsDoes
    <3> QED BY <3>1, <3>2
  <2>3. NoCatalog \in Served /\ generation \in Served BY DEF Served, TypeOK
  <2> QED BY <1>3, <1>4, <2>2, <2>3, SyncMoves
<1>5. ASSUME NEW v \in verifying, VerifySettles(v) \/ VerifyFails(v) PROVE Goal
  <2>1. PICK ok \in BOOLEAN, d \in {"none", "fresh", "stale"} :
          VerifyEnds(v, ok, d) /\ (d = "none" \/ Finds(v, d))
    BY <1>5 DEF VerifySettles, VerifyFails, Finds
  <2>2. CASE req'[t] = req[t] BY <1>2, <2>2
  <2>3. CASE req'[t] # req[t]
    <3>1. /\ req[t].pc = "verify" /\ req'[t].pc = "verified" /\ req'[t].gen = req[t].gen
          /\ req'[t].kind = req[t].kind /\ req'[t].floor = req[t].floor
          /\ req'[t].early = req[t].early /\ req'[t].verdict = d /\ req[t].gen.key = v.key
      BY <2>1, <2>3, VerifyEndsDoes
    <3>2. Working(t) BY <3>1 DEF Working
    <3> QED BY <2>1, <3>1, <3>2 DEF Learns
  <2> QED BY <2>2, <2>3
<1>6. ASSUME NEW r \in Requests, Ask(r) PROVE Goal
  BY <1>2, <1>6, AskDoes DEF Working
<1>7. ASSUME NEW r \in Requests, Refresh(r) \/ RefreshForced(r) PROVE Goal
  <2>1. CASE refreshing = NoRequest
    <3>1. PICK kind \in {"refresh", "forced"} : BeginRefresh(r, kind)
      BY <1>7, <2>1 DEF Refresh, RefreshForced
    <3>2. kind \in Kinds /\ kind # "query" BY DEF Kinds
    <3>3. ~Syncing /\ UNCHANGED <<tree, verifying>> BY <1>7 DEF Refresh, RefreshForced
    <3>4. /\ \A u \in Requests \ {r} : req'[u] = req[u]
          /\ cache' = NoCache
          /\ req'[r].floor = tree /\ req'[r].early = verifying
          /\ req'[r].pc \in {"capture", "captured"}
          /\ Syncing' => sync'.priorCache = NoCache
      BY <3>1, <3>2, <3>3, BeginRefreshDoes DEF Syncing
    <3> QED BY <1>2, <3>3, <3>4 DEF Begins
  <2>2. CASE refreshing # NoRequest
    <3>1. \/ req'[t].pc \in {"joined", "waiting"}
          \/ /\ req'[t].gen = req[t].gen /\ req'[t].pc = req[t].pc /\ req'[t].kind = req[t].kind
             /\ req'[t].floor = req[t].floor /\ req'[t].early = req[t].early
             /\ req'[t].verdict = req[t].verdict /\ req'[t].since = req[t].since
      BY <1>7, <2>2, JoinHolds
    <3>2. req'[t].pc \notin {"joined", "waiting"} BY DEF Working
    <3>3. Working(t) BY <3>1, <3>2 DEF Working
    <3> QED BY <3>1, <3>2, <3>3 DEF Learns
  <2> QED BY <2>1, <2>2
<1>8. ASSUME NEW r \in Requests, QueryCaptured(r) PROVE Goal
  <2>1. Done.kind = "query" BY DEF Done, Idle
  <2> QED BY <1>2, <1>8, <2>1, QueryCapturedDoes DEF Working
<1>9. ASSUME NEW r \in Requests, Answer(r) PROVE Goal
  <2>1. req' = [req EXCEPT ![r] = Done] /\ Done.kind = "query" BY <1>9 DEF Answer, Done, Idle
  <2> QED BY <1>1, <1>2, <2>1 DEF Working
<1>10. ASSUME NEW r \in Requests, NEW a, Settle(r, a) PROVE Goal
  <2>1. req'[t] = req[t] \/ req'[t].pc \in {"done", "again"} BY <1>10, SettleDoes
  <2> QED BY <1>2, <2>1 DEF Working
<1>11. ASSUME NEW r \in Requests, RefreshCaptured(r) PROVE Goal
  <2> DEFINE kept == [req[r] EXCEPT !.fallback = IF req[r].gen # NoCatalog THEN req[r].gen
                                                 ELSE req[r].fallback]
  <2>1. /\ kept \in Calls /\ kept.gen = req[r].gen /\ kept.floor = req[r].floor
        /\ kept.early = req[r].early
    BY <1>1 DEF Calls
  <2>2. \/ Settle(r, "failed")
        \/ req' = [req EXCEPT ![r] = Rebuild(kept)]
        \/ BeginVerify(r, kept)
    BY <1>11 DEF RefreshCaptured
  <2>3. Working(r) BY <1>11 DEF RefreshCaptured, Working
  <2> HIDE DEF kept
  <2>4. CASE req' = [req EXCEPT ![r] = Rebuild(kept)]
    <3>1. /\ Rebuild(kept).pc = "rebuild" /\ Rebuild(kept).since = tree
          /\ Rebuild(kept).floor = kept.floor /\ Rebuild(kept).early = kept.early
      BY <2>1 DEF Rebuild, Calls
    <3>2. req'[r] = Rebuild(kept) /\ \A u \in Requests \ {r} : req'[u] = req[u]
      BY <1>1, <2>4
    <3>3. Learns(req[r], req'[r]) BY <2>1, <3>1, <3>2 DEF Learns
    <3> QED BY <1>2, <2>3, <3>2, <3>3
  <2>5. CASE BeginVerify(r, kept)
    <3>1. /\ \A u \in Requests \ {r} : req'[u] = req[u]
          /\ \/ /\ req'[r].pc = "verified" /\ cache # NoCache
                /\ cache.key = kept.gen.key /\ req'[r].verdict = cache.verdict
             \/ req'[r].pc = "verify"
          /\ req'[r].early = kept.early /\ req'[r].gen = kept.gen
          /\ req'[r].floor = kept.floor
      BY <2>1, <2>5, BeginVerifyDoes
    <3>2. Learns(req[r], req'[r]) BY <2>1, <3>1 DEF Learns
    <3> QED BY <1>2, <2>3, <3>1, <3>2
  <2> QED BY <1>10, <2>2, <2>4, <2>5
<1>12. ASSUME NEW r \in Requests,
              RefreshUnverified(r) \/ RebuildFails(r) \/ RefreshReused(r) \/ RebuildReturns(r)
       PROVE  Goal
  BY <1>10, <1>12
  DEF RefreshUnverified, RebuildFails, RefreshReused, RebuildReturns, FlightFails
<1>13. ASSUME NEW r \in Requests, RefreshReuses(r) \/ RefreshRebuilds(r) PROVE Goal
  <2>1. Working(r) /\ req[r].pc = "verified"
    BY <1>13 DEF RefreshReuses, RefreshRebuilds, Deciding, Working
  <2>2. ASSUME NEW s \in Calls
        PROVE  /\ Rebuild(s).pc = "rebuild" /\ Rebuild(s).since = tree
               /\ Rebuild(s).floor = s.floor /\ Rebuild(s).early = s.early
               /\ LET e == [s EXCEPT !.decision = "no-op", !.pc = "reused"] IN
                  /\ e.pc = "reused" /\ e.gen = s.gen /\ e.verdict = s.verdict
                  /\ e.floor = s.floor /\ e.early = s.early
    BY DEF Rebuild, Calls
  <2>3. CASE RefreshRebuilds(r)
    <3>1. req'[r] = Rebuild(req[r]) /\ \A u \in Requests \ {r} : req'[u] = req[u]
      BY <1>1, <2>3 DEF RefreshRebuilds
    <3>2. Learns(req[r], req'[r]) BY <1>1, <2>2, <3>1 DEF Learns
    <3> QED BY <1>2, <2>1, <3>1, <3>2
  <2>4. CASE RefreshReuses(r)
    <3>1. /\ req'[r] = [req[r] EXCEPT !.decision = "no-op", !.pc = "reused"]
          /\ \A u \in Requests \ {r} : req'[u] = req[u]
          /\ req[r].verdict = "fresh"
      BY <1>1, <2>4 DEF RefreshReuses, Reusable
    <3>2. Learns(req[r], req'[r]) BY <1>1, <2>1, <2>2, <3>1 DEF Learns
    <3> QED BY <1>2, <2>1, <3>1, <3>2
  <2> QED BY <1>13, <2>3, <2>4
<1>14. ASSUME NEW r \in Requests, RebuildPersists(r) PROVE Goal
  <2>1. /\ req[r].pc = "rebuild" /\ req'[r].pc = "rebuilt"
        /\ \A u \in Requests \ {r} : req'[u] = req[u]
    BY <1>14, RebuildPersistsDoes
  <2>2. /\ req'[r].floor = req[r].floor /\ req'[r].early = req[r].early
        /\ req'[r].gen.catalog \in Catalogs /\ req'[r].gen.catalog.from >= req[r].since
    BY <1>14, RebuildPersistsBuilds
  <2>3. Working(r) BY <2>1 DEF Latched
  <2>4. Learns(req[r], req'[r]) BY <2>1, <2>2 DEF Learns
  <2> QED BY <1>2, <2>1, <2>3, <2>4
<1> HIDE DEF Goal
<1> QED
  BY <1>3, <1>4, <1>5, <1>6, <1>7, <1>8, <1>9, <1>11, <1>12, <1>13, <1>14
  DEF Next, Proceeds, Proceed, vars, Edit, ExternalGraph

\* What a flight knows stays recent, and what it learns is.
LEMMA RecencyStep ==
  ASSUME TypeOK, TypeOK', Loading, Verified, Verified', Owned, Latched, Named, Recency, [Next]_vars
  PROVE  Recency'
<1> SUFFICES ASSUME NEW t \in Requests, Working(t)' PROVE Informed(req[t])'
  BY DEF Recency
<1> DEFINE o == req[t]
           s == req'[t]
           Use(x) == x # NoCache /\ x.verdict = "fresh"
                        => \A c \in Catalogs : InPlay(c)' /\ c.id = x.key => Recent(s, c)
<1>1. /\ tree \in Nat /\ tree' \in Nat /\ o \in Calls /\ s \in Calls
      /\ o.floor \in Nat /\ o.since \in Nat /\ s.floor \in Nat
  BY DEF TypeOK, Calls
<1>2. tree <= tree' /\ \A v \in verifying' : v \in verifying \/ v.since = tree
  BY VerdictsMove
<1>3. SUFFICES /\ s.floor <= tree'
               /\ Use(cache')
               /\ Syncing' => Use(sync'.priorCache)
               /\ \A v \in verifying' : v.since >= s.floor \/ v \in s.early
               /\ s.pc \in {"verified", "reused"} /\ s.verdict = "fresh"
                     => Recent(s, s.gen.catalog)
               /\ s.pc = "reused" => s.verdict = "fresh"
               /\ s.pc = "rebuild" => s.since >= s.floor
               /\ s.pc = "rebuilt" => s.gen.catalog.from >= s.floor
  BY DEF Informed, Usable, Recent
<1>4. CASE Begins(s)
  <2>1. Use(NoCache) OBVIOUS
  <2>2. Use(cache') /\ (Syncing' => Use(sync'.priorCache)) BY <1>4, <2>1 DEF Begins
  <2> HIDE DEF Use
  <2> QED BY <1>1, <1>4, <2>2 DEF Begins
<1>5. CASE Working(t) /\ Learns(o, s)
  <2>1. Informed(o) BY <1>5 DEF Recency
  <2>2. s.floor = o.floor /\ s.early = o.early BY <1>5 DEF Learns
  <2>3. \A c : Recent(o, c) => Recent(s, c) BY <2>2 DEF Recent
  <2>4. ASSUME NEW c \in Catalogs, InPlay(c)', c.id <= built PROVE InPlay(c)
    <3>1. built \in Nat BY DEF TypeOK
    <3> QED BY <2>4, <3>1, PlayStep
  <2>5. ASSUME NEW x, x # NoCache => x.key <= built, Usable(x, o) PROVE Use(x)
    BY <2>3, <2>4, <2>5 DEF Usable
  <2>6. ASSUME NEW v \in verifying PROVE v.since >= o.floor \/ v \in o.early
    BY <2>1 DEF Informed
  <2>7. ASSUME NEW v \in verifying, NEW d, Finds(v, d), cache' = [key |-> v.key, verdict |-> d]
        PROVE  Use(cache')
    <3> SUFFICES ASSUME d = "fresh", NEW c \in Catalogs, InPlay(c)', c.id = v.key
                 PROVE  Recent(s, c)
      BY <2>7
    <3>1. c.id <= built BY VerifiedInPlay
    <3>2. InPlay(c) BY <2>4, <3>1
    <3>3. Recent(o, c) BY <1>1, <2>6, <2>7, <3>2, FoundRecent
    <3> QED BY <2>3, <3>3
  <2>8. /\ Use(NoCache)
        /\ Use(cache)
        /\ Syncing => Use(sync.priorCache)
    <3>1. Use(NoCache) OBVIOUS
    <3>2. Use(cache) BY <2>1, <2>5 DEF Informed, Named
    <3>3. Syncing => Use(sync.priorCache) BY <2>1, <2>5 DEF Informed, Named
    <3> QED BY <3>1, <3>2, <3>3
  <2> HIDE DEF Use
  <2>9. Use(cache') BY <2>7, <2>8, VerdictsMove
  <2>10. Syncing' => Use(sync'.priorCache) BY <2>8, VerdictsMove
  <2>11. s.floor <= tree' BY <1>1, <1>2, <2>1, <2>2 DEF Informed
  <2>12. \A v \in verifying' : v.since >= s.floor \/ v \in s.early
    <3>1. o.floor <= tree BY <2>1 DEF Informed
    <3> QED BY <1>1, <1>2, <2>2, <2>6, <3>1
  \* The catalog the flight works with.
  <2>13. ASSUME o.gen # NoCatalog
         PROVE  o.gen.catalog \in Catalogs /\ o.gen.catalog.id = o.gen.key /\ InPlay(o.gen.catalog)
    BY <1>1, <2>13 DEF Calls, Served, Generations, InPlay, Holds
  <2>14. CASE s.pc \in {"capture", "captured", "verify"}
    BY <2>9, <2>10, <2>11, <2>12, <2>14
  <2>15. CASE s.pc = o.pc /\ s.gen = o.gen /\ s.verdict = o.verdict /\ s.since = o.since
    <3>1. /\ o.pc \in {"verified", "reused"} /\ o.verdict = "fresh" => Recent(o, o.gen.catalog)
          /\ o.pc = "reused" => o.verdict = "fresh"
          /\ o.pc = "rebuild" => o.since >= o.floor
          /\ o.pc = "rebuilt" => o.gen.catalog.from >= o.floor
      BY <2>1 DEF Informed
    <3> HIDE DEF o, s
    <3> QED BY <2>2, <2>3, <2>9, <2>10, <2>11, <2>12, <2>15, <3>1
  <2>16. CASE /\ s.pc = "verified" /\ s.gen = o.gen
              /\ cache # NoCache /\ cache.key = o.gen.key /\ s.verdict = cache.verdict
    <3>1. o.gen # NoCatalog BY <2>16 DEF Verified
    <3>2. s.verdict = "fresh" => Recent(o, o.gen.catalog)
      BY <2>1, <2>13, <2>16, <3>1 DEF Informed, Usable
    <3> QED BY <2>3, <2>9, <2>10, <2>11, <2>12, <2>16, <3>2
  <2>17. CASE /\ s.pc = "verified" /\ s.gen = o.gen
              /\ s.verdict = "none" \/ \E v \in verifying : /\ v.key = o.gen.key
                                                            /\ Finds(v, s.verdict)
    <3>1. o.gen # NoCatalog BY <2>17 DEF Verified
    <3>2. s.verdict = "fresh" => Recent(o, o.gen.catalog)
      BY <1>1, <2>6, <2>13, <2>17, <3>1, FoundRecent
    <3> QED BY <2>3, <2>9, <2>10, <2>11, <2>12, <2>17, <3>2
  <2>18. CASE /\ s.pc = "reused" /\ o.pc = "verified" /\ s.gen = o.gen
              /\ s.verdict = o.verdict /\ s.verdict = "fresh"
    <3>1. Recent(o, o.gen.catalog) BY <2>1, <2>18 DEF Informed
    <3> QED BY <2>3, <2>9, <2>10, <2>11, <2>12, <2>18, <3>1
  <2>19. CASE s.pc = "rebuild" /\ s.since = tree
    <3>1. s.since >= s.floor BY <1>1, <2>1, <2>2, <2>19 DEF Informed
    <3> QED BY <2>9, <2>10, <2>11, <2>12, <2>19, <3>1
  <2>20. CASE /\ o.pc = "rebuild" /\ s.pc = "rebuilt"
              /\ s.gen.catalog \in Catalogs /\ s.gen.catalog.from >= o.since
    <3>1. o.since >= o.floor BY <2>1, <2>20 DEF Informed
    <3>2. s.gen.catalog.from \in Nat BY <2>20 DEF Catalogs
    <3>3. s.gen.catalog.from >= s.floor BY <1>1, <2>2, <2>20, <3>1, <3>2
    <3> QED BY <2>9, <2>10, <2>11, <2>12, <2>20, <3>3
  <2> QED
    BY <1>5, <2>14, <2>15, <2>16, <2>17, <2>18, <2>19, <2>20 DEF Learns
<1> QED BY <1>4, <1>5, LearnsStep

-----------------------------------------------------------------------------
(* The theorems. *)

LEMMA InitOK == Init => IInv
<1> SUFFICES ASSUME Init PROVE IInv OBVIOUS
<1>1. PICK plan \in [Requests -> Kinds] :
        req = [r \in Requests |-> [Idle EXCEPT !.kind = plan[r]]]
  BY Parameters DEF Init
<1>2. ASSUME NEW k \in Kinds
      PROVE  LET s == [Idle EXCEPT !.kind = k] IN
             /\ s \in Calls /\ s.pc = "idle" /\ s.action = "none" /\ s.kind = k
             /\ s.gen = NoCatalog /\ s.fallback = NoCatalog
  BY IdleTyped DEF Calls, Idle
<1>3. \A r \in Requests : /\ req[r] \in Calls /\ req[r].pc = "idle" /\ req[r].action = "none"
                          /\ req[r].gen = NoCatalog /\ req[r].fallback = NoCatalog
  BY <1>1, <1>2
<1>4. /\ sync = NoSync /\ ~Syncing /\ ~Result /\ refreshing = NoRequest /\ answered = 0
      /\ verifying = {} /\ generation = NoCatalog /\ cache = NoCache
      /\ built = 1 /\ tree = 0 /\ faults = 0
  BY DEF Init, Syncing, Result, NoSync
<1>5. \/ disk = NoCatalog /\ stored = {}
      \/ disk = [id |-> 1, from |-> 0] /\ disk # NoCatalog /\ stored = {1}
  BY Parameters DEF Init
<1>6. DiskId \in Nat BY <1>5 DEF DiskId
<1>7. TypeOK
  <2>1. req \in [Requests -> Calls] BY <1>1, <1>3
  <2>2. disk \in Catalogs \cup {NoCatalog} /\ stored \subseteq Nat \ {0}
    BY <1>5 DEF Catalogs
  <2> QED BY <1>4, <2>1, <2>2 DEF TypeOK, Served, Caches
<1>8. Forward BY <1>4, <1>5 DEF Forward
<1>9. Loading /\ Verified BY <1>3, <1>4 DEF Loading, Verified
<1>10. Serving BY <1>3, <1>4, <1>6 DEF Serving, Carries
<1>11. Owned /\ Latched BY <1>3, <1>4 DEF Owned, Latched, Working
<1>12. \A c \in Catalogs : InPlay(c) => c = disk
  BY <1>3, <1>4 DEF InPlay, Holds, NoSync
<1>13. Named /\ Recency
  <2>1. Named BY <1>4, <1>5, <1>12, CatalogNotNo DEF Named
  <2>2. Recency BY <1>3 DEF Recency, Working
  <2> QED BY <2>1, <2>2
<1> QED BY <1>7, <1>8, <1>9, <1>10, <1>11, <1>13 DEF IInv

LEMMA Inductive == IInv /\ [Next]_vars => IInv'
<1> SUFFICES ASSUME IInv, [Next]_vars PROVE IInv' OBVIOUS
<1> USE DEF IInv
<1>1. TypeOK' BY TypeStep
<1>2. Forward' /\ DiskId <= DiskId' /\ (disk # NoCatalog => disk' # NoCatalog) BY ForwardStep
<1>3. Loading' BY <1>1, <1>2, LoadingStep
<1>4. Verified' BY VerifiedStep
<1>5. Serving' BY <1>1, <1>2, ServingStep
<1>6. Owned' BY OwnedStep
<1>7. Latched' BY LatchedStep
<1>8. Named' BY <1>1, NamedStep
<1>9. Recency' BY <1>1, <1>4, RecencyStep
<1> QED BY <1>1, <1>2, <1>3, <1>4, <1>5, <1>6, <1>7, <1>8, <1>9

LEMMA Invariant == Spec => []IInv
  BY InitOK, Inductive, PTL DEF Spec

\* Every variable keeps its type, and whatever is served, kept or handed out has the payload of
\* its key.
THEOREM TypeCorrect == Spec => []TypeOK
<1>1. IInv => TypeOK BY DEF IInv
<1> QED BY <1>1, Invariant, PTL

\* No query is served an older catalog than one answered from before it was asked.
THEOREM QueriesNeverGoBack == Spec => []NeverGoesBack
<1>1. IInv => NeverGoesBack
  <2> SUFFICES ASSUME IInv, NEW r \in Requests, Carries(r) PROVE Key(req[r].gen) >= req[r].floor
    BY DEF NeverGoesBack, Carries
  <2>1. Key(req[r].gen) \in Nat /\ req[r].floor \in Nat
    BY KeyTyped DEF IInv, TypeOK, Calls
  <2> QED BY <2>1 DEF IInv, Serving
<1> QED BY <1>1, Invariant, PTL

\* One refresh at a time works; a forced one that succeeds has rebuilt; and a flight answers with
\* a catalog of files no older than the flight, or than the verification it may have joined.
THEOREM RefreshIsSound == Spec => []RefreshSound
<1>1. IInv => RefreshSound
  <2> SUFFICES ASSUME IInv PROVE RefreshSound OBVIOUS
  <2>1. SingleFlight BY DEF IInv, Owned, SingleFlight
  <2>2. ForcedRebuilds BY DEF IInv, Latched, ForcedRebuilds
  <2>3. FreshEnough BY DEF IInv, Recency, Informed, FreshEnough
  <2> QED BY <2>1, <2>2, <2>3 DEF RefreshSound
<1> QED BY <1>1, Invariant, PTL

\* A capture serves a catalog that was persisted while it ran, or changes nothing.
THEOREM CaptureIsAllOrNothing == Spec => CaptureAllOrNothing
<1> DEFINE Step == Syncing /\ ~Syncing' =>
         IF sync'.ok
         THEN /\ sync'.gen = generation'
              /\ Key(generation') >= sync.began
              /\ generation' # NoCatalog => /\ generation'.key \in stored
                                            /\ generation'.catalog.id = generation'.key
         ELSE generation' = sync.prior /\ cache' = sync.priorCache
<1>1. IInv /\ [Next]_vars => [Step]_vars
  <2> SUFFICES ASSUME IInv, [Next]_vars, Syncing, ~Syncing' PROVE Step OBVIOUS
  <2> USE DEF IInv
  <2>1. SyncStep \/ SyncReadFails
    BY DEF Next, Proceeds, Proceed, vars, Edit, ExternalGraph, Syncing, VerifySettles,
           VerifyFails, Ask, Refresh, RefreshForced, QueryCaptured, Answer, RefreshCaptured,
           RefreshUnverified, RefreshReuses, RefreshRebuilds, RefreshReused, RebuildPersists,
           RebuildFails, RebuildReturns
  <2>2. CASE /\ SyncEnds(FALSE, NoCatalog)
             /\ generation' = sync.prior /\ cache' = sync.priorCache
    BY <2>2 DEF SyncEnds
  <2>3. CASE SyncEnds(TRUE, generation) /\ StillPersisted /\ UNCHANGED generation
    <3>1. sync'.ok /\ sync'.gen = generation BY <2>3 DEF SyncEnds
    <3>2. Key(generation) = DiskId BY <2>3 DEF StillPersisted
    <3>3. sync.began \in Nat /\ sync.began <= DiskId /\ DiskId \in Nat
      BY SyncingTyped, DiskIdTyped DEF Syncs, Loading
    <3>4. ASSUME generation # NoCatalog
          PROVE  generation.key \in stored /\ generation.catalog.id = generation.key
      <4>1. generation \in Generations BY <3>4 DEF TypeOK, Served
      <4>2. generation.key = DiskId /\ generation.key # 0
        BY <3>2, <3>4, <4>1 DEF Key, Generations
      <4>3. disk # NoCatalog /\ disk.id = DiskId BY <4>2 DEF DiskId
      <4> QED BY <4>1, <4>2, <4>3 DEF Forward, Generations
    <3> QED BY <2>3, <3>1, <3>2, <3>3, <3>4
  <2> QED BY <2>1, <2>2, <2>3, SyncMoves
<1>2. CaptureAllOrNothing <=> [][Step]_vars BY PTL DEF CaptureAllOrNothing
<1> QED BY <1>1, <1>2, Invariant, PTL DEF Spec
=============================================================================
