------------------------------ MODULE Scaffold ------------------------------
(***************************************************************************)
(* kumacore init: processes that generate a project of the same name in    *)
(* one repository, by writing the planned files (module ServerWiring) to a *)
(* staging directory of their own and renaming it, while anything else may *)
(* come to exist under the project's name.                                 *)
(***************************************************************************)
EXTENDS Naturals, ServerWiring

CONSTANTS
    Process,        \* calls of kumacore init
    Requested,      \* lists of modules that are asked for
    Sources         \* contents of cmd/server/modules.go in the repository

ASSUME ScaffoldAssumption ==
    /\ \A ids \in Requested : ids # <<>>
    /\ \A source \in Sources : source \in Seq(ToSet(source)) /\ source # Damaged

VARIABLES
    modulesSource,  \* cmd/server/modules.go of the repository
    target,         \* what is at the path of the project
    staging,        \* of each process: its staging directory
    call            \* of each process: where it is

vars == <<modulesSource, target, staging, call>>

Nothing == [is |-> "nothing"]

\* A staging directory that nobody will remove, whatever is in it.
Abandoned == [is |-> "abandoned"]

Foreign(kind) == [is |-> kind]
ForeignKinds == {"file", "empty directory", "directory"}

Stages == {"plan", "check", "stage", "write", "move", "print", "clean", "done", "killed"}

NotRunning == [at |-> "none"]

At(p, stage) == call[p].at = stage

Goto(p, stage) == call' = [call EXCEPT ![p] = [@ EXCEPT !.at = stage]]

\* The call returns to initializeRepository's deferred RemoveAll.
Return(p, outcome) ==
    call' = [call EXCEPT ![p] = [@ EXCEPT !.at = "clean", !.told = outcome]]

\* It returns before there is anything to remove.
Fail(p) == call' = [call EXCEPT ![p] = [@ EXCEPT !.at = "done", !.told = "failure"]]

Init ==
    /\ modulesSource \in Sources
    /\ target = Nothing
    /\ staging = [p \in Process |-> Nothing]
    /\ call = [p \in Process |-> NotRunning]

-----------------------------------------------------------------------------
\* run: options that are not valid are refused.
Run(p, ids) ==
    /\ At(p, "none")
    /\ call' = [call EXCEPT ![p] =
            [at |-> IF ValidModules(ids) THEN "plan" ELSE "done", ids |-> ids,
             told |-> IF ValidModules(ids) THEN "nothing" ELSE "failure"]]
    /\ UNCHANGED <<modulesSource, target, staging>>

\* plannedChanges: the wiring is rewritten, and every file read.
Plan(p) ==
    /\ At(p, "plan")
    /\ IF RewriteServerModules(modulesSource, call[p].ids) = Damaged
       THEN Fail(p) ELSE Goto(p, "check")
    /\ UNCHANGED <<modulesSource, target, staging>>

\* A file of the repository cannot be read.
PlanFails(p) ==
    /\ At(p, "plan")
    /\ Fail(p)
    /\ UNCHANGED <<modulesSource, target, staging>>

\* ensureProjectDestination
EnsureDestination(p) ==
    /\ At(p, "check")
    /\ IF target = Nothing THEN Goto(p, "stage") ELSE Fail(p)
    /\ UNCHANGED <<modulesSource, target, staging>>

MakeStaging(p) ==
    /\ At(p, "stage")
    /\ staging' = [staging EXCEPT ![p] = [is |-> "staging", written |-> 0]]
    /\ Goto(p, "write")
    /\ UNCHANGED <<modulesSource, target>>

\* Mutant: the error of os.MkdirTemp is not looked at.
StagingFailsUnnoticed(p) ==
    /\ At(p, "stage")
    /\ Goto(p, "write")
    /\ UNCHANGED <<modulesSource, target, staging>>

StagingFails(p) ==
    /\ At(p, "stage")
    /\ Fail(p)
    /\ UNCHANGED <<modulesSource, target, staging>>

\* Mutant: the last file is forgotten.
WriteAllButOne(p) ==
    LET written == staging[p].written + 1 IN
    /\ At(p, "write")
    /\ staging' = [staging EXCEPT ![p].written = written]
    /\ Goto(p, IF DOMAIN Planned(call[p].ids) = 1 .. written + 1 THEN "move" ELSE "write")
    /\ UNCHANGED <<modulesSource, target>>

\* The next of the planned files.
WriteFile(p) ==
    LET written == staging[p].written + 1 IN
    /\ At(p, "write")
    /\ staging' = [staging EXCEPT ![p].written = written]
    /\ Goto(p, IF DOMAIN Planned(call[p].ids) = 1 .. written THEN "move" ELSE "write")
    /\ UNCHANGED <<modulesSource, target>>

\* Writing fails and the temporary file is removed.
WriteFails(p) ==
    /\ At(p, "write")
    /\ Return(p, "failure")
    /\ UNCHANGED <<modulesSource, target, staging>>

Staged(p) == {Planned(call[p].ids)[i] : i \in 1 .. staging[p].written}

\* Mutant: what stands in the way is removed before the rename.
MoveAnyway(p) ==
    /\ At(p, "move")
    /\ target' = [is |-> "project", by |-> p, files |-> Staged(p)]
    /\ staging' = [staging EXCEPT ![p].written = 0]
    /\ Goto(p, "print")
    /\ UNCHANGED modulesSource

\* os.Rename.  It refuses a directory that it sees in the way; an empty one that
\* comes after this look, before the system call, is replaced.  The look is no step
\* of its own: the rename may replace an empty directory or fail (MoveFails).
Move(p) ==
    /\ At(p, "move")
    /\ target.is \in {"nothing", "empty directory"}
    /\ target' = [is |-> "project", by |-> p, files |-> Staged(p)]
    /\ staging' = [staging EXCEPT ![p].written = 0]
    /\ Goto(p, "print")
    /\ UNCHANGED modulesSource

\* The rename is refused, or fails for another reason.
MoveFails(p) ==
    /\ At(p, "move")
    /\ Return(p, "failure")
    /\ UNCHANGED <<modulesSource, target, staging>>

\* printChangeSummary; its error is returned although the project stands.
PrintSummary(p) ==
    /\ At(p, "print")
    /\ \E outcome \in {"success", "failure"} : Return(p, outcome)
    /\ UNCHANGED <<modulesSource, target, staging>>

\* Mutant: the staging directory is removed only after a success.
RemoveAfterSuccess(p) ==
    /\ At(p, "clean")
    /\ staging' = IF call[p].told = "success"
                  THEN [staging EXCEPT ![p] = Nothing] ELSE staging
    /\ Goto(p, "done")
    /\ UNCHANGED <<modulesSource, target>>

\* The deferred os.RemoveAll of the staging directory.
RemoveStaging(p) ==
    /\ At(p, "clean")
    /\ staging' = [staging EXCEPT ![p] = Nothing]
    /\ Goto(p, "done")
    /\ UNCHANGED <<modulesSource, target>>

\* Its error is dropped.
RemoveFails(p) ==
    /\ At(p, "clean")
    /\ staging' = [staging EXCEPT ![p] = Abandoned]
    /\ Goto(p, "done")
    /\ UNCHANGED <<modulesSource, target>>

\* The process is killed; nothing handles signals.
Kill(p) ==
    /\ call[p].at \notin {"none", "done", "killed"}
    /\ Goto(p, "killed")
    /\ staging' = IF staging[p] = Nothing THEN staging
                  ELSE [staging EXCEPT ![p] = Abandoned]
    /\ UNCHANGED <<modulesSource, target>>

\* Somebody else uses the name of the project, or the empty directory.
Occupy ==
    /\ \/ target = Nothing /\ \E kind \in ForeignKinds : target' = Foreign(kind)
       \/ target = Foreign("empty directory") /\ target' = Foreign("directory")
    /\ UNCHANGED <<modulesSource, staging, call>>

-----------------------------------------------------------------------------
Prepare(p) ==
    \/ \E ids \in Requested : Run(p, ids)
    \/ Plan(p) \/ PlanFails(p) \/ EnsureDestination(p)

Generate(p) ==
    \/ MakeStaging(p) \/ StagingFails(p)
    \/ WriteFile(p) \/ WriteFails(p)
    \/ Move(p) \/ MoveFails(p) \/ PrintSummary(p)
    \/ RemoveStaging(p) \/ RemoveFails(p)

Next ==
    \/ \E p \in Process : Prepare(p) \/ Generate(p) \/ Kill(p)
    \/ Occupy

Spec == Init /\ [][Next]_vars

-----------------------------------------------------------------------------
(* Properties *)

Files == UNION {ToSet(Planned(ids)) : ids \in Requested}

Project == [is : {"project"}, by : Process, files : SUBSET Files]

Staging == [is : {"staging"}, written : Nat]

\* Calls, staging directories and the target are well-formed; a process has a
\* staging directory when it writes, moves and reports.
ScaffoldTypeOK ==
    /\ modulesSource \in Sources
    /\ target \in {Nothing} \cup {Foreign(kind) : kind \in ForeignKinds} \cup Project
    /\ \A p \in Process :
        /\ call[p] \in {NotRunning} \cup
            [at : Stages, ids : Requested, told : {"nothing", "success", "failure"}]
        /\ staging[p] \in {Nothing, Abandoned} \cup Staging
        /\ call[p].at \in {"write", "move", "print", "clean"} => staging[p] # Nothing
        /\ call[p].at \in {"none", "plan", "check", "stage"} => staging[p] = Nothing
        /\ call[p].at = "done" => call[p].told # "nothing"

\* The check for an existing target is long past when the project is moved, so
\* only the rename protects what has come there since: nothing but an empty
\* directory is ever replaced, be it somebody's file or the project of another
\* call, and what replaces it is at once the whole project of one call
\* (initializeRepository).
TargetIsWhole ==
    [][target # target' =>
        /\ target.is \in {"nothing", "empty directory"}
        /\ target'.is = "project" =>
            target'.files = ToSet(Planned(call[target'.by].ids))]_vars

\* A call that reports success has its project in place for good, so at most one
\* does; a call that fails before the summary has none (run).
OutcomeIsTold ==
    \A p \in Process :
        /\ (call[p] # NotRunning /\ call[p].told = "success") =>
            target.is = "project" /\ target.by = p
        /\ call[p].at \in {"plan", "check", "stage", "write", "move"} =>
            ~(target.is = "project" /\ target.by = p)

\* Whatever fails, a call that has returned leaves no staging directory, unless
\* its removal failed too.
StagingRemoved ==
    \A p \in Process : At(p, "done") => staging[p] \in {Nothing, Abandoned}

\* Between the markers of a region, given as the set of its pair of positions.
Inside(i, region) == \E r \in region : r[1] < i /\ i < r[2]

\* The regions of a source: from the begin marker of a section to its end marker, each
\* the only one that no region of an earlier section has in it; none if there is no
\* such pair or the end comes first.
Regions(source, sections) ==
    LET region[n \in 1 .. Len(sections)] ==
            LET open(line) == {i \in PositionsOf(source, line) :
                                  \A m \in 1 .. n - 1 : ~Inside(i, region[m])}
                begins == open(Begin(sections[n]))
                ends == open(End(sections[n])) IN
            {r \in begins \X ends : begins = {r[1]} /\ ends = {r[2]} /\ r[1] < r[2]}
    IN region

\* The code outside all regions, with what is rendered for a section at its begin.
Expected(source, sections, content) ==
    LET region == Regions(source, sections)
        inside(i) == \E n \in 1 .. Len(sections) : Inside(i, region[n])
        begins(i) == \E n \in 1 .. Len(sections) : \E r \in region[n] : r[1] = i
    IN FlattenSeq([i \in DOMAIN source |->
            IF inside(i) THEN <<>>
            ELSE IF begins(i) THEN content[source[i].section]
            ELSE CodeOf(source[i])])

\* Rewriting one section after the other gives each region its new code and keeps
\* every line outside, and it fails exactly if a section has no region, because a
\* marker is missing, doubled or out of order. What is between the markers of a
\* region goes with it, the markers of other sections too: a doubled one goes
\* unnoticed there, and so does a whole region (rewriteMarkedSource).
RewriteIsExact ==
    \A p \in Process : At(p, "plan") =>
        RewriteServerModules(modulesSource, call[p].ids) =
            IF \A n \in DOMAIN ModuleSections : Regions(modulesSource, ModuleSections)[n] # {}
            THEN Expected(modulesSource, ModuleSections,
                          [section \in ToSet(ModuleSections) |->
                                RenderModules(section, call[p].ids)])
            ELSE Damaged

-----------------------------------------------------------------------------
(* What go build asks of cmd/server *)

Core == {"core/app", "core/cache", "core/config", "core/db", "core/db/dialect",
         "core/db/migrate", "core/render", "core/worker"}

\* The packages in a copied path.
PackagesIn(path) ==
    CASE path = "core" -> Core
      [] path \in {"app/migrations/embed.go", "app/migrations/source.go"} -> {"app/migrations"}
      [] path = "app/repositories/repositories.go" -> {"app/repositories"}
      [] OTHER -> {path}

\* The packages outside core that a package imports.
Requires(package) ==
    CASE package = "app/modules/auth" -> {"app/middleware/auth", "app/services/auth"}
      [] package = "app/middleware/auth" -> {"app/services/auth"}
      [] package = "app/services/auth" -> {"app/repositories/auth"}
      [] package = "app/repositories/auth" -> {"app/repositories"}
      [] OTHER -> {}

\* main.go and database.go import these.
Bootstrap == {"app/migrations", "core/app", "core/config", "core/db",
              "core/db/dialect", "core/db/migrate", "core/render"}

Imported(lines) == UNION {line.imports : line \in ToSet(lines)}

\* A file imports nothing twice and uses what it imports.
FileCompiles(lines) ==
    /\ \A i, j \in DOMAIN lines : i # j => lines[i].imports \cap lines[j].imports = {}
    /\ Imported(lines) = UNION {line.uses : line \in ToSet(lines)}

ServerBuilds(files, ids) ==
    LET modules == RewriteServerModules(modulesSource, ids)
        jobs == RewriteServerWorker(WorkerSource)
        packages == UNION {PackagesIn(path) : path \in files} IN
    /\ FileCompiles(modules)
    /\ FileCompiles(jobs)
    /\ Bootstrap \cup Imported(modules) \cup Imported(jobs) \subseteq packages
    /\ \A package \in packages : Requires(package) \subseteq packages
    \* app/migrations/embed.go embeds sqlite/app/*.sql
    /\ "app/migrations/sqlite/app/0001_create_auth_tables.sql" \in files

\* README.md and the generated README.md: the next command after kumacore init
\* is "go run ./cmd/server", so the generated server compiles.
GeneratedServerBuilds ==
    target.is = "project" => ServerBuilds(target.files, call[target.by].ids)
=============================================================================
