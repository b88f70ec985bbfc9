----------------------------- MODULE PageProofs -----------------------------
(***************************************************************************)
(* Proofs about the template manager, for any pages, requests and number   *)
(* of edits.                                                               *)
(***************************************************************************)
EXTENDS PageCache, TLAPS

-----------------------------------------------------------------------------
(* The inductive invariant *)

Call == [at : Stage, page : Page, since : Nat, template : Template]

Typed ==
    /\ isDevelopment \in BOOLEAN
    /\ edition \in Nat /\ edition <= MaxEdits
    /\ IsTable(pageCache, Page, Template)
    /\ pageCacheMutex \in Request \cup {Nobody}
    /\ resolving \in [Request -> {Idle} \cup Call]
    /\ parsed \in [Page -> Nat]

\* The base templates never get a page, and a cached template only its own.
TemplatesIsolated ==
    /\ baseTemplate = Base(0)
    /\ \A p \in DOMAIN pageCache : pageCache[p].pages = {p}

ParsedAccounted ==
    ~isDevelopment => \A p \in Page : parsed[p] = IF p \in DOMAIN pageCache THEN 1 ELSE 0

\* The write lock is held from the second lookup to the end of resolve.
LockFollows(r) ==
    pageCacheMutex = r <=> ~isDevelopment /\ At(r, {"locked", "build", "parse"})

\* What a call has found out: in production that nobody has cached the page it
\* builds, in development that what it read is no older than the request.
Fits(c, dev, e, cache) ==
    /\ c.since <= e
    /\ c.at = "parse" => c.template.pages = {}
    /\ c.at = "resolved" => c.template.pages = {c.page}
    /\ dev => c.at \in {"build", "parse", "resolved", "failed"}
    /\ dev /\ c.at \in {"parse", "resolved"} => c.template.base >= c.since
    /\ dev /\ c.at = "resolved" => c.template.page >= c.since
    /\ ~dev /\ c.at \in {"build", "parse"} => c.page \notin DOMAIN cache
    /\ ~dev /\ c.at = "resolved" => c.page \in DOMAIN cache /\ c.template = cache[c.page]

CallFollows(r) == At(r, Stage) => Fits(resolving[r], isDevelopment, edition, pageCache)

PageInv ==
    /\ Typed /\ TemplatesIsolated /\ ParsedAccounted
    /\ \A r \in Request : LockFollows(r) /\ CallFollows(r)

-----------------------------------------------------------------------------
(* Steps of one request *)

\* A call that is under way.
LEMMA UnderWay ==
    ASSUME Typed, NEW r \in Request, NEW stages, At(r, stages)
    PROVE  resolving[r] \in Call /\ resolving[r].at \in stages
  BY DEF Typed, At

LEMMA BaseTyped ==
    ASSUME NEW e \in Nat
    PROVE  Base(e) \in Template /\ Base(e).pages = {} /\ Base(e).base = e
  BY DEF Base, Template

\* The request of r alone changes; the cache only grows, under the lock of r.
OnlyRequest(r) ==
    /\ resolving' \in [Request -> {Idle} \cup Call]
    /\ \A q \in Request \ {r} : resolving'[q] = resolving[q]
    /\ UNCHANGED <<isDevelopment, edition, baseTemplate>>

CacheGrows(r) ==
    /\ \A p \in DOMAIN pageCache : p \in DOMAIN pageCache' /\ pageCache'[p] = pageCache[p]
    /\ pageCache' # pageCache => pageCacheMutex = r /\ ~isDevelopment

LEMMA OthersFollow ==
    ASSUME PageInv, NEW r \in Request, OnlyRequest(r), CacheGrows(r),
           pageCacheMutex' = pageCacheMutex
           \/ (pageCacheMutex = r /\ pageCacheMutex' = Nobody)
           \/ (pageCacheMutex = Nobody /\ pageCacheMutex' = r),
           NEW q \in Request, q # r
    PROVE  LockFollows(q)' /\ CallFollows(q)'
  <1>1. resolving'[q] = resolving[q] /\ UNCHANGED <<isDevelopment, edition>>
    BY DEF OnlyRequest
  <1>2. LockFollows(q) /\ CallFollows(q) /\ q # Nobody
    BY PageAssumption DEF PageInv
  <1>3. pageCacheMutex' = q <=> pageCacheMutex = q
    BY <1>2
  <1>4. LockFollows(q)'
    BY <1>1, <1>2, <1>3 DEF LockFollows, At
  <1>5. CASE pageCache' = pageCache
    BY <1>1, <1>2, <1>4, <1>5 DEF CallFollows, At
  <1>6. CASE pageCache' # pageCache
    <2>1. pageCacheMutex # q /\ ~isDevelopment
      BY <1>6 DEF CacheGrows
    <2>2. ~At(q, {"locked", "build", "parse"})
      BY <1>2, <2>1 DEF LockFollows
    <2>3. At(q, Stage) => Fits(resolving[q], isDevelopment, edition, pageCache')
      BY <1>2, <2>1, <2>2 DEF CallFollows, Fits, At, CacheGrows
    <2> QED BY <1>1, <1>4, <2>3 DEF CallFollows, At
  <1> QED BY <1>4, <1>5, <1>6

\* A step of r that leaves the cache alone.
LEMMA QuietStep ==
    ASSUME PageInv, NEW r \in Request, OnlyRequest(r), UNCHANGED <<pageCache, parsed>>,
           pageCacheMutex' = pageCacheMutex
           \/ (pageCacheMutex = r /\ pageCacheMutex' = Nobody)
           \/ (pageCacheMutex = Nobody /\ pageCacheMutex' = r),
           LockFollows(r)', CallFollows(r)'
    PROVE  PageInv'
  <1>1. CacheGrows(r)
    BY DEF CacheGrows
  <1>2. Typed'
    BY DEF PageInv, Typed, OnlyRequest
  <1>3. TemplatesIsolated' /\ ParsedAccounted'
    BY DEF PageInv, TemplatesIsolated, ParsedAccounted, OnlyRequest
  <1>4. ASSUME NEW q \in Request PROVE LockFollows(q)' /\ CallFollows(q)'
    BY <1>1, OthersFollow
  <1> QED BY <1>2, <1>3, <1>4 DEF PageInv

LEMMA GotoTyped ==
    ASSUME Typed, NEW r \in Request, resolving[r] \in Call, NEW stage \in Stage,
           Goto(r, stage), UNCHANGED <<isDevelopment, edition, baseTemplate>>
    PROVE  /\ OnlyRequest(r) /\ resolving'[r] # Idle
           /\ resolving'[r].at = stage
           /\ resolving'[r].page = resolving[r].page
           /\ resolving'[r].since = resolving[r].since
           /\ resolving'[r].template = resolving[r].template
  <1>1. /\ resolving'[r] \in Call
        /\ resolving'[r].at = stage
        /\ resolving'[r].page = resolving[r].page
        /\ resolving'[r].since = resolving[r].since
        /\ resolving'[r].template = resolving[r].template
    BY DEF Goto, Typed, Call
  <1>2. Idle \notin Call
    BY DEF Idle, Call, Stage
  <1> QED BY <1>1, <1>2 DEF Goto, Typed, OnlyRequest

\* A call that gets a template.
Resolves(r, stage, template) ==
    resolving' = [resolving EXCEPT ![r] = [@ EXCEPT !.at = stage, !.template = template]]

LEMMA TemplateTyped ==
    ASSUME Typed, NEW r \in Request, resolving[r] \in Call, NEW stage \in Stage,
           NEW template \in Template, Resolves(r, stage, template),
           UNCHANGED <<isDevelopment, edition, baseTemplate>>
    PROVE  /\ OnlyRequest(r) /\ resolving'[r] # Idle
           /\ resolving'[r].at = stage
           /\ resolving'[r].page = resolving[r].page
           /\ resolving'[r].since = resolving[r].since
           /\ resolving'[r].template = template
  <1>1. /\ resolving'[r] \in Call
        /\ resolving'[r].at = stage
        /\ resolving'[r].page = resolving[r].page
        /\ resolving'[r].since = resolving[r].since
        /\ resolving'[r].template = template
    BY DEF Typed, Call, Resolves
  <1>2. Idle \notin Call
    BY DEF Idle, Call, Stage
  <1> QED BY <1>1, <1>2 DEF Typed, OnlyRequest, Resolves

LEMMA RenderKeeps ==
    ASSUME PageInv, NEW r \in Request, NEW p \in Page, Render(r, p)
    PROVE  PageInv'
  <1> DEFINE stage == IF isDevelopment THEN "build" ELSE "lookup"
  <1> DEFINE since == IF isDevelopment THEN edition ELSE 0
  <1>1. resolving'[r] = [at |-> stage, page |-> p, since |-> since, template |-> baseTemplate]
    BY DEF Render, PageInv, Typed
  <1>2. since \in Nat /\ since <= edition /\ stage \in {"build", "lookup"}
    BY DEF PageInv, Typed
  <1>3. baseTemplate \in Template
    BY BaseTyped DEF PageInv, TemplatesIsolated
  <1>4. /\ resolving'[r] \in Call /\ resolving'[r].at = stage
        /\ resolving'[r].since = since
    <2>1. stage \in Stage
      BY DEF Stage
    <2> HIDE DEF stage, since
    <2> QED BY <1>1, <1>2, <1>3, <2>1 DEF Call
  <1>5. OnlyRequest(r)
    BY <1>4 DEF Render, PageInv, Typed, OnlyRequest
  <1>6. resolving[r] = Idle /\ pageCacheMutex' = pageCacheMutex
    BY DEF Render
  <1>7. LockFollows(r)'
    <2>1. pageCacheMutex # r
      BY <1>6 DEF PageInv, LockFollows, At
    <2> QED BY <1>2, <1>4, <1>5, <1>6, <2>1 DEF LockFollows, At, OnlyRequest
  <1>8. CallFollows(r)'
    BY <1>2, <1>4, <1>5 DEF CallFollows, Fits, At, OnlyRequest
  <1> QED BY <1>5, <1>6, <1>7, <1>8, QuietStep DEF Render

LEMMA LookupKeeps ==
    ASSUME PageInv, NEW r \in Request, Lookup(r)
    PROVE  PageInv'
  <1> DEFINE p == resolving[r].page
  <1>1. /\ resolving[r] \in Call /\ resolving[r].at = "lookup" /\ At(r, Stage)
        /\ UNCHANGED <<isDevelopment, edition, baseTemplate, pageCache, pageCacheMutex>>
    BY UnderWay DEF Lookup, PageInv, At, Stage
  <1>2. pageCacheMutex # r /\ ~isDevelopment /\ resolving[r].since <= edition
    BY <1>1, PageAssumption DEF Lookup, PageInv, CallFollows, Fits
  <1>3. CASE p \in DOMAIN pageCache
    <2>1. pageCache[p] \in Template /\ "resolved" \in Stage
      BY <1>3 DEF PageInv, Typed, IsTable, Stage
    <2>2. Resolves(r, "resolved", pageCache[p])
      BY <1>3 DEF Lookup, Resolved, Resolves
    <2>3. /\ OnlyRequest(r) /\ resolving'[r] # Idle /\ resolving'[r].at = "resolved"
          /\ resolving'[r].page = p /\ resolving'[r].since = resolving[r].since
          /\ resolving'[r].template = pageCache[p]
      BY <1>1, <2>1, <2>2, TemplateTyped DEF PageInv
    <2>4. LockFollows(r)'
      BY <1>1, <1>2, <2>3 DEF LockFollows, At
    <2>5. CallFollows(r)'
      BY <1>1, <1>2, <1>3, <2>3 DEF CallFollows, Fits, At, PageInv, TemplatesIsolated
    <2> QED BY <1>1, <2>3, <2>4, <2>5, QuietStep DEF Lookup
  <1>4. CASE p \notin DOMAIN pageCache
    <2>1. Goto(r, "missed") /\ "missed" \in Stage
      BY <1>4 DEF Lookup, Stage
    <2>2. /\ OnlyRequest(r) /\ resolving'[r].at = "missed"
          /\ resolving'[r].since = resolving[r].since
      BY <1>1, <2>1, GotoTyped DEF PageInv
    <2>3. LockFollows(r)' /\ CallFollows(r)'
      BY <1>1, <1>2, <2>2 DEF LockFollows, CallFollows, Fits, At
    <2> QED BY <1>1, <2>2, <2>3, QuietStep DEF Lookup
  <1> QED BY <1>3, <1>4

LEMMA LockKeeps ==
    ASSUME PageInv, NEW r \in Request, LockCache(r)
    PROVE  PageInv'
  <1>1. /\ resolving[r] \in Call /\ resolving[r].at = "missed" /\ At(r, Stage)
        /\ UNCHANGED <<isDevelopment, edition, baseTemplate, pageCache>>
        /\ pageCacheMutex = Nobody /\ pageCacheMutex' = r
    BY UnderWay DEF LockCache, PageInv, At, Stage
  <1>2. ~isDevelopment /\ resolving[r].since <= edition
    BY <1>1 DEF PageInv, CallFollows, Fits
  <1>3. Goto(r, "locked") /\ "locked" \in Stage
    BY DEF LockCache, Stage
  <1>4. /\ OnlyRequest(r) /\ resolving'[r] # Idle /\ resolving'[r].at = "locked"
        /\ resolving'[r].since = resolving[r].since
    BY <1>1, <1>3, GotoTyped DEF PageInv
  <1>5. LockFollows(r)' /\ CallFollows(r)'
    BY <1>1, <1>2, <1>4 DEF LockFollows, CallFollows, Fits, At
  <1> QED BY <1>1, <1>4, <1>5, QuietStep DEF LockCache

LEMMA RecheckKeeps ==
    ASSUME PageInv, NEW r \in Request, Recheck(r)
    PROVE  PageInv'
  <1> DEFINE p == resolving[r].page
  <1>1. /\ resolving[r] \in Call /\ resolving[r].at = "locked" /\ At(r, {"locked"})
        /\ At(r, Stage)
        /\ UNCHANGED <<isDevelopment, edition, baseTemplate, pageCache>>
    BY UnderWay DEF Recheck, PageInv, At, Stage
  <1>2. ~isDevelopment /\ resolving[r].since <= edition /\ pageCacheMutex = r
    BY <1>1 DEF PageInv, CallFollows, Fits, LockFollows, At
  <1>3. CASE p \in DOMAIN pageCache
    <2>1. pageCache[p] \in Template /\ "resolved" \in Stage
      BY <1>3 DEF PageInv, Typed, IsTable, Stage
    <2>2. Resolves(r, "resolved", pageCache[p]) /\ pageCacheMutex' = Nobody
      BY <1>2, <1>3 DEF Recheck, Unlock, Resolved, Resolves
    <2>3. /\ OnlyRequest(r) /\ resolving'[r] # Idle /\ resolving'[r].at = "resolved"
          /\ resolving'[r].page = p /\ resolving'[r].since = resolving[r].since
          /\ resolving'[r].template = pageCache[p]
      BY <1>1, <2>1, <2>2, TemplateTyped DEF PageInv
    <2>4. LockFollows(r)'
      BY <2>2, <2>3, PageAssumption DEF LockFollows, At
    <2>5. CallFollows(r)'
      BY <1>1, <1>2, <1>3, <2>3 DEF CallFollows, Fits, At, PageInv, TemplatesIsolated
    <2> QED BY <1>1, <1>2, <2>2, <2>3, <2>4, <2>5, QuietStep DEF Recheck
  <1>4. CASE p \notin DOMAIN pageCache
    <2>1. Goto(r, "build") /\ pageCacheMutex' = pageCacheMutex /\ "build" \in Stage
      BY <1>4 DEF Recheck, Stage
    <2>2. /\ OnlyRequest(r) /\ resolving'[r] # Idle /\ resolving'[r].at = "build"
          /\ resolving'[r].since = resolving[r].since /\ resolving'[r].page = p
      BY <1>1, <2>1, GotoTyped DEF PageInv
    <2>3. LockFollows(r)' /\ CallFollows(r)'
      BY <1>1, <1>2, <1>4, <2>1, <2>2 DEF LockFollows, CallFollows, Fits, At
    <2> QED BY <1>1, <2>1, <2>2, <2>3, QuietStep DEF Recheck
  <1> QED BY <1>3, <1>4

LEMMA BaseKeeps ==
    ASSUME PageInv, NEW r \in Request, BuildBase(r)
    PROVE  PageInv'
  <1> DEFINE base == IF isDevelopment THEN Base(edition) ELSE baseTemplate
  <1>1. /\ resolving[r] \in Call /\ resolving[r].at = "build" /\ At(r, {"build"}) /\ At(r, Stage)
        /\ UNCHANGED <<isDevelopment, edition, baseTemplate, pageCache, pageCacheMutex>>
    BY UnderWay DEF BuildBase, PageInv, At, Stage
  <1>2. /\ base \in Template /\ base.pages = {}
        /\ isDevelopment => base.base = edition
    BY BaseTyped DEF PageInv, TemplatesIsolated, Typed
  <1>3. /\ OnlyRequest(r) /\ resolving'[r] # Idle /\ resolving'[r].at = "parse"
        /\ resolving'[r].page = resolving[r].page
        /\ resolving'[r].since = resolving[r].since /\ resolving'[r].template = base
    <2> HIDE DEF base
    <2>1. Resolves(r, "parse", base)
      BY DEF BuildBase, base, Resolves
    <2>2. "parse" \in Stage
      BY DEF Stage
    <2> QED BY <1>1, <1>2, <2>1, <2>2, TemplateTyped DEF PageInv
  <1> HIDE DEF base
  <1>4. LockFollows(r) /\ CallFollows(r) /\ edition \in Nat
    BY DEF PageInv, Typed
  <1>5. LockFollows(r)'
    BY <1>1, <1>3, <1>4 DEF LockFollows, At
  <1>6. CallFollows(r)'
    BY <1>1, <1>2, <1>3, <1>4 DEF CallFollows, Fits, At, Call
  <1> QED BY <1>1, <1>3, <1>5, <1>6, QuietStep DEF BuildBase

LEMMA ParseKeeps ==
    ASSUME PageInv, NEW r \in Request, ParsePage(r)
    PROVE  PageInv'
  <1> DEFINE p == resolving[r].page
  <1> DEFINE built == WithPage(resolving[r].template, p)
  <1>1. /\ resolving[r] \in Call /\ resolving[r].at = "parse" /\ At(r, {"parse"}) /\ At(r, Stage)
        /\ UNCHANGED <<isDevelopment, edition, baseTemplate>>
    BY UnderWay DEF ParsePage, PageInv, At, Stage
  <1>2. LockFollows(r) /\ CallFollows(r) /\ edition \in Nat /\ Typed
    BY DEF PageInv, Typed
  <1>3. /\ built \in Template /\ built.pages = {p} /\ built.page = edition
        /\ built.base = resolving[r].template.base
    <2>1. resolving[r].template \in Template /\ p \in Page
      BY <1>1 DEF Call
    <2>2. resolving[r].template.pages = {}
      BY <1>1, <1>2 DEF CallFollows, Fits
    <2> QED BY <1>2, <2>1, <2>2 DEF WithPage, Template
  <1>4. Resolves(r, "resolved", built) /\ Unlock(r)
    BY DEF ParsePage, Resolved, Resolves
  <1> HIDE DEF built
  <1>5. /\ OnlyRequest(r) /\ resolving'[r] # Idle /\ resolving'[r].at = "resolved"
        /\ resolving'[r].page = p /\ resolving'[r].since = resolving[r].since
        /\ resolving'[r].template = built
    <2>1. "resolved" \in Stage
      BY DEF Stage
    <2> QED BY <1>1, <1>2, <1>3, <1>4, <2>1, TemplateTyped
  <1>6. LockFollows(r)'
    BY <1>4, <1>5, PageAssumption DEF LockFollows, At, Unlock
  <1>7. CASE isDevelopment
    <2>1. UNCHANGED <<pageCache, parsed>>
      BY <1>7 DEF ParsePage
    <2>2. CallFollows(r)'
      BY <1>1, <1>2, <1>3, <1>5, <1>7 DEF CallFollows, Fits, At, Call
    <2>3. pageCacheMutex' = pageCacheMutex
      BY <1>2, <1>4, <1>7 DEF LockFollows, Unlock
    <2> QED BY <1>5, <1>6, <2>1, <2>2, <2>3, QuietStep
  <1>8. CASE ~isDevelopment
    <2>1. pageCacheMutex = r /\ pageCacheMutex' = Nobody
      BY <1>1, <1>2, <1>4, <1>8 DEF LockFollows, At, Unlock
    <2>2. pageCache' = Insert(pageCache, p, built) /\ parsed' = [parsed EXCEPT ![p] = @ + 1]
      BY <1>8 DEF ParsePage, built
    <2>3. p \in Page /\ p \notin DOMAIN pageCache
      BY <1>1, <1>2, <1>8 DEF CallFollows, Fits, Call
    <2>4. /\ DOMAIN pageCache' = DOMAIN pageCache \cup {p} /\ pageCache'[p] = built
          /\ \A q \in DOMAIN pageCache : pageCache'[q] = pageCache[q]
      BY <2>2, <2>3 DEF Insert
    <2>5. IsTable(pageCache', Page, Template)
      BY <1>2, <1>3, <2>2, <2>3 DEF Typed, IsTable, Insert
    <2>6. Typed'
      BY <1>1, <1>2, <1>5, <2>1, <2>2, <2>3, <2>5 DEF Typed, OnlyRequest
    <2>7. TemplatesIsolated'
      BY <1>1, <1>3, <2>4 DEF PageInv, TemplatesIsolated
    <2>8. ParsedAccounted'
      BY <1>1, <1>2, <1>8, <2>2, <2>3, <2>4 DEF PageInv, ParsedAccounted, Typed
    <2>9. CallFollows(r)'
      BY <1>1, <1>2, <1>3, <1>5, <1>8, <2>4 DEF CallFollows, Fits, At
    <2>10. CacheGrows(r)
      BY <1>8, <2>1, <2>4 DEF CacheGrows
    <2> QED BY <1>5, <1>6, <2>1, <2>6, <2>7, <2>8, <2>9, <2>10, OthersFollow DEF PageInv
  <1> QED BY <1>7, <1>8

LEMMA EndKeeps ==
    ASSUME PageInv, NEW r \in Request, BuildFails(r) \/ RenderReturns(r)
    PROVE  PageInv'
  <1>1. CASE BuildFails(r)
    <2>1. /\ resolving[r] \in Call /\ At(r, Stage)
          /\ UNCHANGED <<isDevelopment, edition, baseTemplate, pageCache, parsed>>
      BY <1>1, UnderWay DEF BuildFails, PageInv, At, Stage
    <2>2. baseTemplate \in Template /\ "failed" \in Stage
      BY BaseTyped DEF PageInv, TemplatesIsolated, Stage
    <2>6. Resolves(r, "failed", baseTemplate)
      BY <1>1 DEF BuildFails, Resolves
    <2>3. /\ OnlyRequest(r) /\ resolving'[r] # Idle /\ resolving'[r].at = "failed"
          /\ resolving'[r].since = resolving[r].since
      BY <2>1, <2>2, <2>6, TemplateTyped DEF PageInv
    <2>4. LockFollows(r)'
      BY <1>1, <2>3, PageAssumption DEF LockFollows, At, BuildFails, Unlock
    <2>5. CallFollows(r)'
      BY <2>1, <2>3 DEF PageInv, CallFollows, Fits, At
    <2> QED BY <1>1, <2>1, <2>3, <2>4, <2>5, QuietStep DEF BuildFails, Unlock
  <1>2. CASE RenderReturns(r)
    <2>1. resolving'[r] = Idle /\ OnlyRequest(r) /\ resolving[r].at \in {"resolved", "failed"}
      BY <1>2 DEF RenderReturns, PageInv, Typed, OnlyRequest, At
    <2>2. pageCacheMutex' = pageCacheMutex /\ pageCacheMutex # r
      BY <1>2, <2>1 DEF RenderReturns, PageInv, LockFollows, At
    <2>3. LockFollows(r)' /\ CallFollows(r)'
      BY <2>1, <2>2 DEF LockFollows, CallFollows, Fits, At
    <2> QED BY <1>2, <2>1, <2>2, <2>3, QuietStep DEF RenderReturns
  <1> QED BY <1>1, <1>2

LEMMA EditKeeps ==
    ASSUME PageInv, Edit \/ UNCHANGED pageVars
    PROVE  PageInv'
  <1>1. /\ edition \in Nat /\ edition' \in Nat /\ edition <= edition' /\ edition' <= MaxEdits
    BY PageAssumption DEF PageInv, Typed, Edit, pageVars
  <1>2. UNCHANGED <<isDevelopment, baseTemplate, pageCache, pageCacheMutex, resolving, parsed>>
    BY DEF Edit, pageVars
  <1>3. Typed'
    BY <1>1, <1>2 DEF PageInv, Typed
  <1>4. TemplatesIsolated' /\ ParsedAccounted'
    BY <1>2 DEF PageInv, TemplatesIsolated, ParsedAccounted
  <1>5. ASSUME NEW r \in Request PROVE LockFollows(r)' /\ CallFollows(r)'
    <2>1. LockFollows(r)'
      BY <1>2 DEF PageInv, LockFollows, At
    <2>2. At(r, Stage) => resolving[r].since \in Nat
      BY UnderWay DEF PageInv, Call
    <2>3. CallFollows(r)'
      BY <1>1, <1>2, <2>2 DEF PageInv, CallFollows, Fits, At
    <2> QED BY <2>1, <2>3
  <1> QED BY <1>3, <1>4, <1>5 DEF PageInv

LEMMA InitialInv == PageInit => PageInv
  <1> SUFFICES ASSUME PageInit PROVE PageInv
    OBVIOUS
  <1>1. IsTable(pageCache, Page, Template)
    BY DEF PageInit, IsTable, EmptyTable
  <1>2. Typed
    BY <1>1, PageAssumption DEF PageInit, Typed
  <1>3. TemplatesIsolated /\ ParsedAccounted
    BY DEF PageInit, TemplatesIsolated, ParsedAccounted, EmptyTable
  <1>4. ASSUME NEW r \in Request PROVE LockFollows(r) /\ CallFollows(r)
    BY PageAssumption DEF PageInit, LockFollows, CallFollows, Fits, At
  <1> QED BY <1>2, <1>3, <1>4 DEF PageInv

LEMMA InvHolds == PageSpec => []PageInv
  <1>1. PageInv /\ [PageNext]_pageVars => PageInv'
    BY RenderKeeps, LookupKeeps, LockKeeps, RecheckKeeps, BaseKeeps, ParseKeeps, EndKeeps,
        EditKeeps DEF PageNext, Resolve, Build
  <1> QED BY <1>1, InitialInv, PTL DEF PageSpec

-----------------------------------------------------------------------------
(* Theorems *)

\* Templates and calls are well-formed, and the write lock is held by the call
\* that builds a page for the cache (Manager.resolve).
THEOREM PagesTyped == PageSpec => []PageTypeOK
  <1>1. PageInv => PageTypeOK
    <2> SUFFICES ASSUME PageInv PROVE PageTypeOK
      OBVIOUS
    <2>1. ASSUME NEW r \in Request
          PROVE  resolving[r] \in {Idle} \cup
                    [at : Stage, page : Page, since : 0 .. edition, template : Template]
      <3>1. CASE resolving[r] = Idle
        BY <3>1
      <3>2. CASE resolving[r] # Idle
        <4>1. resolving[r] \in Call /\ At(r, Stage)
          BY <3>2 DEF PageInv, Typed, At, Call
        <4>2. resolving[r].since \in 0 .. edition
          BY <4>1 DEF PageInv, CallFollows, Fits, Typed, Call
        <4> QED BY <4>1, <4>2 DEF Call
      <3> QED BY <3>1, <3>2
    <2>2. baseTemplate \in Template
      BY BaseTyped DEF PageInv, TemplatesIsolated
    <2>3. \A r \in Request :
            pageCacheMutex = r <=> ~isDevelopment /\ At(r, {"locked", "build", "parse"})
      BY DEF PageInv, LockFollows
    <2>4. edition \in 0 .. MaxEdits
      BY PageAssumption DEF PageInv, Typed
    <2> QED BY <2>1, <2>2, <2>3, <2>4 DEF PageInv, Typed, PageTypeOK
  <1> QED BY <1>1, InvHolds, PTL

\* In production a page is parsed at most once and every request gets that one
\* template (Manager.resolve).
THEOREM ParsedOnce == PageSpec => []PageParsedOnce
  <1>1. PageInv => PageParsedOnce
    BY DEF PageInv, ParsedAccounted, CallFollows, Fits, PageParsedOnce, At, Stage
  <1> QED BY <1>1, InvHolds, PTL

\* A template has the definitions of its own page only, and in development
\* nothing in it is older than the request (Manager.build).
THEOREM AnswersAreFit == PageSpec => []AnswersFit
  <1>1. PageInv => AnswersFit
    BY DEF PageInv, CallFollows, Fits, AnswersFit, PagesIsolated, DevelopmentIsCurrent, At, Stage
  <1> QED BY <1>1, InvHolds, PTL
=============================================================================
