---------------------------- MODULE ServerWiring ----------------------------
(***************************************************************************)
(* What kumacore init generates (cmd/kumacore/internal/initcmd): the plan  *)
(* of files for a choice of modules, and the wiring of cmd/server, whose   *)
(* marked regions are replaced by code rendered for that choice.  A source *)
(* file is a sequence of lines; a line is a marker or code, of which only  *)
(* the packages it imports and uses are kept.                              *)
(***************************************************************************)
EXTENDS Naturals, Sequences, SequencesExt

ModuleOrder == <<"home", "auth", "health">>

KnownModule(id) == id \in ToSet(ModuleOrder)

\* validateModules: no unknown and no duplicate module.
ValidModules(ids) ==
    /\ \A i \in DOMAIN ids : KnownModule(ids[i])
    /\ \A i, j \in DOMAIN ids : ids[i] = ids[j] => i = j

\* What a list has of a set, in order.
Only(list, set) ==
    FlattenSeq([i \in DOMAIN list |-> IF list[i] \in set THEN <<list[i]>> ELSE <<>>])

\* normalizeModuleIDs
Normalized(ids) == Only(ModuleOrder, ToSet(ids))

-----------------------------------------------------------------------------
(* The plan *)

ProjectFiles ==
    <<"go.mod", "go.sum", ".gitignore", "README.md", "cmd/server/main.go",
      "cmd/server/database.go", "cmd/server/modules.go", "cmd/server/worker.go",
      "app/migrations/sqlite/app/.gitkeep">>

\* What can be copied, sorted.
Copied ==
    <<"app/jobs/logging", "app/middleware/auth", "app/migrations/embed.go",
      "app/migrations/source.go",
      "app/migrations/sqlite/app/0001_create_auth_tables.sql",
      "app/migrations/sqlite/worker", "app/modules/auth", "app/modules/health",
      "app/modules/home", "app/repositories/auth",
      "app/repositories/repositories.go", "app/services/auth", "app/testing",
      "app/web", "core">>

PathsOf(id) ==
    CASE id = "home" -> {"app/modules/home"}
      [] id = "auth" ->
           {"app/modules/auth", "app/middleware/auth", "app/repositories/auth",
            "app/services/auth", "app/repositories/repositories.go",
            "app/migrations/sqlite/app/0001_create_auth_tables.sql"}
      [] id = "health" -> {"app/modules/health"}

Baseline ==
    {"core", "app/jobs/logging", "app/migrations/embed.go",
     "app/migrations/source.go", "app/migrations/sqlite/worker", "app/testing",
     "app/web"}

Selected(ids) == Baseline \cup UNION {PathsOf(id) : id \in ToSet(ids)}

\* plannedChanges, in the order in which the files are written.
Planned(ids) ==
    ProjectFiles \o Only(Copied, Selected(ids))

-----------------------------------------------------------------------------
(* Lines and markers *)

Marker(kind, section) ==
    [kind |-> kind, section |-> section, imports |-> {}, uses |-> {}]
Begin(section) == Marker("begin", section)
End(section) == Marker("end", section)
Code(imports, uses) ==
    [kind |-> "code", section |-> "", imports |-> imports, uses |-> uses]

\* Result of a rewriting that fails; no source is empty.
Damaged == <<>>

PositionsOf(source, line) == {i \in DOMAIN source : source[i] = line}

\* Mutant: of two equal markers the first is taken.
ReplaceFirstRegion(source, section, content) ==
    LET begins == PositionsOf(source, Begin(section))
        ends == PositionsOf(source, End(section)) IN
    IF \E b \in begins, e \in ends : b < e
    THEN LET b == CHOOSE i \in begins : \A j \in begins : i <= j
             e == CHOOSE i \in ends : \A j \in ends : i <= j IN
         SubSeq(source, 1, b) \o content \o SubSeq(source, e, Len(source))
    ELSE Damaged

\* replaceMarkedRegion: both markers once and in order, or an error.
ReplaceMarkedRegion(source, section, content) ==
    LET begins == PositionsOf(source, Begin(section))
        ends == PositionsOf(source, End(section)) IN
    IF \E b \in begins, e \in ends : begins = {b} /\ ends = {e} /\ b < e
    THEN LET b == CHOOSE i \in begins : TRUE
             e == CHOOSE i \in ends : TRUE IN
         SubSeq(source, 1, b) \o content \o SubSeq(source, e, Len(source))
    ELSE Damaged

CodeOf(line) == IF line.kind = "code" THEN <<line>> ELSE <<>>

StripScaffoldMarkers(source) == FlattenSeq([i \in DOMAIN source |-> CodeOf(source[i])])

\* rewriteMarkedSource: one section after the other, up to the first error.
RewriteMarkedSource(source, sections, content) ==
    LET rewritten[n \in 0 .. Len(sections)] ==
            IF n = 0 THEN source
            ELSE LET before == rewritten[n - 1] IN
                 IF before = Damaged THEN Damaged
                 ELSE ReplaceMarkedRegion(before, sections[n], content[sections[n]])
    IN StripScaffoldMarkers(rewritten[Len(sections)])

-----------------------------------------------------------------------------
(* cmd/server/modules.go *)

ModuleSections ==
    <<"modules-imports", "modules-setup", "modules-middleware", "modules-routes">>

ImportsOf(id) ==
    CASE id = "home" -> {"app/modules/home"}
      [] id = "auth" -> {"app/middleware/auth", "app/modules/auth",
                         "app/repositories/auth", "app/services/auth", "core/cache"}
      [] id = "health" -> {"app/modules/health"}

\* The packages a section names for a module.
UsesOf(section, id) ==
    CASE section = "modules-setup" -> ImportsOf(id) \ {"app/middleware/auth"}
      [] section = "modules-middleware" -> {"app/middleware/auth"}
      [] section = "modules-routes" ->
            ImportsOf(id) \cap {"app/modules/home", "app/modules/auth",
                                "app/modules/health"}

\* renderModuleImports, renderModuleSetup, renderModuleMiddleware and
\* renderModuleRoutes: a piece of code per selected module.
RenderModules(section, ids) ==
    LET modules == IF section = "modules-middleware"
                   THEN Only(Normalized(ids), {"auth"})
                   ELSE Normalized(ids)
    IN [i \in DOMAIN modules |->
            IF section = "modules-imports" THEN Code(ImportsOf(modules[i]), {})
            ELSE Code({}, UsesOf(section, modules[i]))]

Section(section, content) == <<Begin(section), content, End(section)>>

\* The file of the repository, which has all modules.
ModulesSource ==
    LET all == ToSet(ModuleOrder)
        uses(section) == UNION {UsesOf(section, id) : id \in all} IN
    Section("modules-imports",
            Code(UNION {ImportsOf(id) : id \in all} \ {"core/cache"}, {}))
    \o <<Code({"core/cache", "core/config", "core/db/dialect", "core/render"}, {}),
         Code({}, {"core/config", "core/db/dialect", "core/render"})>>
    \o Section("modules-setup", Code({}, uses("modules-setup")))
    \o Section("modules-middleware", Code({}, {"app/middleware/auth"}))
    \o Section("modules-routes", Code({}, uses("modules-routes")))

RewriteServerModules(source, ids) ==
    RewriteMarkedSource(source, ModuleSections,
                        [section \in ToSet(ModuleSections) |-> RenderModules(section, ids)])

-----------------------------------------------------------------------------
(* cmd/server/worker.go *)

JobSections == <<"jobs-imports", "jobs-register">>

Jobs == {"app/jobs/logging", "app/jobs/backup"}

\* renderJobImports and renderJobRegistrations
RenderJobs(section) ==
    <<IF section = "jobs-imports" THEN Code(Jobs, {}) ELSE Code({}, Jobs)>>

WorkerSource ==
    Section("jobs-imports", Code(Jobs, {}))
    \o <<Code({"core/config", "core/worker"}, {"core/config", "core/worker"})>>
    \o Section("jobs-register", Code({}, Jobs))

RewriteServerWorker(source) ==
    RewriteMarkedSource(source, JobSections,
                        [section \in ToSet(JobSections) |-> RenderJobs(section)])
=============================================================================
