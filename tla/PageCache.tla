----------------------------- MODULE PageCache -----------------------------
(***************************************************************************)
(* core/render: the calls of Manager.resolve by concurrent requests.  In   *)
(* production a page is looked up under the read lock and, if missing,     *)
(* again under the write lock, under which it is then parsed into a clone  *)
(* of the base templates and cached; in development base and page are      *)
(* parsed anew for every request, under no lock.  The files may be edited  *)
(* at any time.                                                            *)
(***************************************************************************)
EXTENDS Naturals, Tables

CONSTANTS
    Page,           \* page files
    Request,        \* requests that render pages
    Nobody,         \* the holder of a lock that is free
    MaxEdits        \* bound: edits of the template files

ASSUME PageAssumption == Nobody \notin Request /\ MaxEdits \in Nat

VARIABLES
    isDevelopment,  \* CORE_APP_DEV
    edition,        \* of the files on disk: how often they were edited
    baseTemplate,   \* layouts and components parsed by NewManager
    pageCache,      \* table: page |-> template
    pageCacheMutex, \* who holds the write lock
    resolving,      \* of each request: where its call of Render is
    parsed          \* history: how often each page was parsed for the cache

pageVars == <<isDevelopment, edition, baseTemplate, pageCache, pageCacheMutex,
              resolving, parsed>>

\* A template set: the edition its layouts and components were read in, the
\* pages parsed into it and the edition of the last.
Template == [base : Nat, pages : SUBSET Page, page : Nat]

Idle == [at |-> "idle"]

Stage == {"lookup", "missed", "locked", "build", "parse", "resolved", "failed"}

At(r, stages) == resolving[r] # Idle /\ resolving[r].at \in stages

Goto(r, stage) == resolving' = [resolving EXCEPT ![r].at = stage]

Resolved(r, template) ==
    resolving' = [resolving EXCEPT ![r] =
                    [@ EXCEPT !.at = "resolved", !.template = template]]

\* The deferred unlock.
Unlock(r) == pageCacheMutex' = IF pageCacheMutex = r THEN Nobody ELSE pageCacheMutex

\* A template set without a page.
Base(e) == [base |-> e, pages |-> {}, page |-> e]

\* NewManager.
PageInit ==
    /\ isDevelopment \in BOOLEAN
    /\ edition = 0
    /\ baseTemplate = Base(0)
    /\ pageCache = EmptyTable
    /\ pageCacheMutex = Nobody
    /\ resolving = [r \in Request |-> Idle]
    /\ parsed = [p \in Page |-> 0]

-----------------------------------------------------------------------------
(* Render *)

Render(r, p) ==
    /\ resolving[r] = Idle
    /\ resolving' = [resolving EXCEPT ![r] =
            [at |-> IF isDevelopment THEN "build" ELSE "lookup", page |-> p,
             since |-> IF isDevelopment THEN edition ELSE 0,
             template |-> baseTemplate]]
    /\ UNCHANGED <<isDevelopment, edition, baseTemplate, pageCache, pageCacheMutex, parsed>>

\* The lookup under the read lock.
Lookup(r) ==
    /\ At(r, {"lookup"})
    /\ pageCacheMutex = Nobody
    /\ IF resolving[r].page \in DOMAIN pageCache
       THEN Resolved(r, pageCache[resolving[r].page])
       ELSE Goto(r, "missed")
    /\ UNCHANGED <<isDevelopment, edition, baseTemplate, pageCache, pageCacheMutex, parsed>>

LockCache(r) ==
    /\ At(r, {"missed"})
    /\ pageCacheMutex = Nobody
    /\ pageCacheMutex' = r
    /\ Goto(r, "locked")
    /\ UNCHANGED <<isDevelopment, edition, baseTemplate, pageCache, parsed>>

\* Mutant: the page is built without looking again under the write lock.
RecheckSkipped(r) ==
    /\ At(r, {"locked"})
    /\ Goto(r, "build")
    /\ UNCHANGED <<isDevelopment, edition, baseTemplate, pageCache, pageCacheMutex, parsed>>

\* The second lookup, under the write lock.
Recheck(r) ==
    /\ At(r, {"locked"})
    /\ IF resolving[r].page \in DOMAIN pageCache
       THEN Resolved(r, pageCache[resolving[r].page]) /\ Unlock(r)
       ELSE Goto(r, "build") /\ UNCHANGED pageCacheMutex
    /\ UNCHANGED <<isDevelopment, edition, baseTemplate, pageCache, parsed>>

\* build: layouts and components, cloned from the base or parsed afresh.
BuildBase(r) ==
    /\ At(r, {"build"})
    /\ resolving' = [resolving EXCEPT ![r] =
            [@ EXCEPT !.at = "parse",
                      !.template = IF isDevelopment THEN Base(edition)
                                   ELSE baseTemplate]]
    /\ UNCHANGED <<isDevelopment, edition, baseTemplate, pageCache, pageCacheMutex, parsed>>

\* The template set with the page parsed into it.
WithPage(template, p) ==
    [template EXCEPT !.pages = @ \cup {p}, !.page = edition]

\* Mutant: the page is parsed into the base templates and not into a clone.
ParseIntoBase(r) ==
    LET p == resolving[r].page
        built == WithPage(resolving[r].template, p) IN
    /\ At(r, {"parse"})
    /\ Resolved(r, built)
    /\ IF isDevelopment
       THEN UNCHANGED <<baseTemplate, pageCache, parsed>>
       ELSE /\ pageCache' = Insert(pageCache, p, built)
            /\ baseTemplate' = built
            /\ parsed' = [parsed EXCEPT ![p] = @ + 1]
    /\ Unlock(r)
    /\ UNCHANGED <<isDevelopment, edition>>

\* build parses the page; in production the result is cached before the lock
\* is released.
ParsePage(r) ==
    LET p == resolving[r].page
        built == WithPage(resolving[r].template, p) IN
    /\ At(r, {"parse"})
    /\ Resolved(r, built)
    /\ IF isDevelopment
       THEN UNCHANGED <<pageCache, parsed>>
       ELSE /\ pageCache' = Insert(pageCache, p, built)
            /\ parsed' = [parsed EXCEPT ![p] = @ + 1]
    /\ Unlock(r)
    /\ UNCHANGED <<isDevelopment, edition, baseTemplate>>

\* Mutant: the lock is kept when the page cannot be parsed.
BuildFailsLocked(r) ==
    /\ At(r, {"build", "parse"})
    /\ Goto(r, "failed")
    /\ UNCHANGED <<isDevelopment, edition, baseTemplate, pageCache, pageCacheMutex, parsed>>

\* A file is missing or does not parse: nothing is cached, resolve fails.
BuildFails(r) ==
    /\ At(r, {"build", "parse"})
    /\ resolving' = [resolving EXCEPT ![r] =
            [@ EXCEPT !.at = "failed", !.template = baseTemplate]]
    /\ Unlock(r)
    /\ UNCHANGED <<isDevelopment, edition, baseTemplate, pageCache, parsed>>

\* The template is executed, or the error is returned.
RenderReturns(r) ==
    /\ At(r, {"resolved", "failed"})
    /\ resolving' = [resolving EXCEPT ![r] = Idle]
    /\ UNCHANGED <<isDevelopment, edition, baseTemplate, pageCache, pageCacheMutex, parsed>>

\* Somebody edits the template files.
Edit ==
    /\ edition < MaxEdits
    /\ edition' = edition + 1
    /\ UNCHANGED <<isDevelopment, baseTemplate, pageCache, pageCacheMutex, resolving, parsed>>

Build(r) == BuildBase(r) \/ ParsePage(r) \/ BuildFails(r)

Resolve(r) ==
    \/ Lookup(r) \/ LockCache(r) \/ Recheck(r)
    \/ Build(r) \/ RenderReturns(r)

PageNext ==
    \/ \E r \in Request : Resolve(r) \/ \E p \in Page : Render(r, p)
    \/ Edit

PageSpec == PageInit /\ [][PageNext]_pageVars

\* A call of Render goes on, and sync.RWMutex starves nobody who waits for it.
PageFairness ==
    \A r \in Request :
        /\ WF_pageVars(Resolve(r))
        /\ SF_pageVars(Lookup(r))
        /\ SF_pageVars(LockCache(r))

FairPageSpec == PageSpec /\ PageFairness

-----------------------------------------------------------------------------
(* Properties *)

\* Templates and calls are well-formed, and the write lock is held by the call
\* that builds a page for the cache.
PageTypeOK ==
    /\ isDevelopment \in BOOLEAN
    /\ edition \in 0 .. MaxEdits
    /\ baseTemplate \in Template
    /\ IsTable(pageCache, Page, Template)
    /\ pageCacheMutex \in Request \cup {Nobody}
    /\ resolving \in [Request -> {Idle} \cup
            [at : Stage, page : Page, since : 0 .. edition, template : Template]]
    /\ parsed \in [Page -> Nat]
    /\ \A r \in Request :
        pageCacheMutex = r <=> ~isDevelopment /\ At(r, {"locked", "build", "parse"})

\* In production a page is parsed at most once, however many requests miss it
\* at the same time, and every request is answered with that one template, so
\* that two answers never differ by an edit in between (resolve).
PageParsedOnce ==
    ~isDevelopment =>
        /\ \A p \in Page : parsed[p] = IF p \in DOMAIN pageCache THEN 1 ELSE 0
        /\ \A r \in Request : At(r, {"resolved"}) =>
            /\ resolving[r].page \in DOMAIN pageCache
            /\ resolving[r].template = pageCache[resolving[r].page]

PagesIsolated ==
    \A r \in Request : At(r, {"resolved"}) =>
        resolving[r].template.pages = {resolving[r].page}

DevelopmentIsCurrent ==
    \A r \in Request : isDevelopment /\ At(r, {"resolved"}) =>
        /\ resolving[r].template.base >= resolving[r].since
        /\ resolving[r].template.page >= resolving[r].since

\* CONTRACT.md, "template parsing preserves clone-based page isolation" and "dev
\* mode bypasses page cache": the definitions of one page are never in the
\* template of another, whatever was parsed before or at the same time, and in
\* development layouts, components and page are no older than the request.
AnswersFit == PagesIsolated /\ DevelopmentIsCurrent

\* Every call of Render returns, however calls meet at the page cache and
\* whichever fail (Manager.resolve).
RendersReturn == \A r \in Request : resolving[r] # Idle ~> resolving[r] = Idle
=============================================================================
