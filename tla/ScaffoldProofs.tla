--------------------------- MODULE ScaffoldProofs ---------------------------
(***************************************************************************)
(* Proofs about kumacore init, for any number of concurrent calls, any     *)
(* lists of modules and any sources.                                       *)
(***************************************************************************)
EXTENDS Scaffold, SequenceTheorems, WellFoundedInduction, TLAPS

-----------------------------------------------------------------------------
(* The inductive invariant *)

Call == [at : Stages, ids : Requested, told : {"nothing", "success", "failure"}]

Targets == {Nothing} \cup {Foreign(kind) : kind \in ForeignKinds} \cup Project

IsProjectOf(p) == target.is = "project" /\ target.by = p

CallsTyped ==
    /\ DOMAIN call = Process
    /\ \A p \in Process : call[p] \in {NotRunning} \cup Call

\* An outcome is told at the end and not before.
Silent(p) ==
    /\ call[p].at \in {"plan", "check", "stage", "write", "move", "print"} =>
        call[p].told = "nothing"
    /\ call[p].at \in {"clean", "done"} => call[p].told # "nothing"

\* Which stages have a staging directory, and that what is moved is complete.
StagingFollows(p) ==
    /\ staging[p] \in {Nothing, Abandoned} \cup Staging
    /\ call[p].at \in {"write", "move", "print", "clean"} => staging[p] \in Staging
    /\ call[p].at \in {"none", "plan", "check", "stage"} => staging[p] = Nothing
    /\ call[p].at = "done" => staging[p] \in {Nothing, Abandoned}
    /\ call[p].at = "move" =>
        DOMAIN Planned(call[p].ids) = 1 .. staging[p].written

\* Whose project is in place.
TargetFollows(p) ==
    /\ call[p].at = "print" => IsProjectOf(p)
    /\ (call[p] # NotRunning /\ call[p].told = "success") => IsProjectOf(p)
    /\ call[p].at \in {"none", "plan", "check", "stage", "write", "move"} =>
        ~IsProjectOf(p)

CallInv(p) == Silent(p) /\ StagingFollows(p) /\ TargetFollows(p)

ScaffoldInv ==
    /\ modulesSource \in Sources
    /\ target \in Targets
    /\ DOMAIN staging = Process
    /\ CallsTyped
    /\ \A p \in Process : CallInv(p)

-----------------------------------------------------------------------------
(* Steps of one call *)

\* A call that goes to another stage keeps the rest.
LEMMA GotoCall ==
    ASSUME CallsTyped, NEW p \in Process, call[p] # NotRunning,
           NEW stage \in Stages, Goto(p, stage)
    PROVE  /\ CallsTyped'
           /\ call'[p] \in Call
           /\ call'[p].at = stage
           /\ call'[p].ids = call[p].ids
           /\ call'[p].told = call[p].told
           /\ \A q \in Process \ {p} : call'[q] = call[q]
  BY DEF CallsTyped, Goto, Call

\* A call that ends up with an outcome.
LEMMA ReturnCall ==
    ASSUME CallsTyped, NEW p \in Process, call[p] # NotRunning,
           NEW outcome \in {"success", "failure"}, Return(p, outcome)
    PROVE  /\ CallsTyped'
           /\ call'[p] \in Call
           /\ call'[p].at = "clean"
           /\ call'[p].told = outcome
           /\ \A q \in Process \ {p} : call'[q] = call[q]
  <1>1. call' = [call EXCEPT ![p] = [call[p] EXCEPT !.at = "clean", !.told = outcome]]
    BY DEF Return
  <1> USE DEF CallsTyped, Call, Stages
  <1>2. call[p] \in Call
    OBVIOUS
  <1>3. [call[p] EXCEPT !.at = "clean", !.told = outcome] \in Call
    BY <1>2
  <1> QED BY <1>1, <1>2, <1>3

\* A call that fails before it has anything to remove.
LEMMA FailCall ==
    ASSUME CallsTyped, NEW p \in Process, call[p] # NotRunning, Fail(p)
    PROVE  /\ CallsTyped'
           /\ call'[p] \in Call
           /\ call'[p].at = "done"
           /\ call'[p].told = "failure"
           /\ \A q \in Process \ {p} : call'[q] = call[q]
  <1>1. call' = [call EXCEPT ![p] = [call[p] EXCEPT !.at = "done", !.told = "failure"]]
    BY DEF Fail
  <1> USE DEF CallsTyped, Call, Stages
  <1>2. call[p] \in Call
    OBVIOUS
  <1>3. [call[p] EXCEPT !.at = "done", !.told = "failure"] \in Call
    BY <1>2
  <1> QED BY <1>1, <1>2, <1>3

\* What a step of one call must show when it leaves the target alone.
LEMMA OtherCalls ==
    ASSUME ScaffoldInv, NEW p \in Process,
           CallsTyped', CallInv(p)', DOMAIN staging' = Process,
           \A q \in Process \ {p} : call'[q] = call[q] /\ staging'[q] = staging[q],
           UNCHANGED <<modulesSource, target>>
    PROVE  ScaffoldInv'
  <1>1. ASSUME NEW q \in Process \ {p} PROVE CallInv(q)'
    BY <1>1 DEF ScaffoldInv, CallInv, Silent, StagingFollows, TargetFollows, IsProjectOf
  <1> QED BY <1>1 DEF ScaffoldInv

\* Before there is a staging directory.
LEMMA PrepareKeeps ==
    ASSUME ScaffoldInv, NEW p \in Process, Prepare(p) \/ StagingFails(p)
    PROVE  ScaffoldInv'
  <1> USE DEF CallInv, Silent, StagingFollows, TargetFollows, IsProjectOf
  <1>1. ASSUME NEW ids \in Requested, Run(p, ids) PROVE ScaffoldInv'
    <2>1. /\ CallsTyped'
          /\ call'[p] \in Call
          /\ call'[p].at \in {"plan", "done"}
          /\ call'[p].told = IF call'[p].at = "plan" THEN "nothing" ELSE "failure"
          /\ \A q \in Process \ {p} : call'[q] = call[q]
      <3> DEFINE next == [at |-> IF ValidModules(ids) THEN "plan" ELSE "done", ids |-> ids,
                          told |-> IF ValidModules(ids) THEN "nothing" ELSE "failure"]
      <3>1. DOMAIN call = Process /\ \A q \in Process : call[q] \in {NotRunning} \cup Call
        BY DEF ScaffoldInv, CallsTyped
      <3>2. call' = [call EXCEPT ![p] = next]
        BY <1>1 DEF Run
      <3>3. /\ next \in Call /\ next.at \in {"plan", "done"}
            /\ next.told = IF next.at = "plan" THEN "nothing" ELSE "failure"
        BY <1>1 DEF Call, Stages
      <3> HIDE DEF next
      <3> QED BY <3>1, <3>2, <3>3 DEF CallsTyped
    <2>2. staging[p] = Nothing
      BY <1>1 DEF ScaffoldInv, Run, At
    <2>3. CallInv(p)'
      BY <1>1, <2>1, <2>2 DEF ScaffoldInv, Run, At
    <2> QED BY <1>1, <2>1, <2>3, OtherCalls DEF Run, ScaffoldInv
  <1>2. ASSUME call[p].at \in {"plan", "check", "stage"}, Fail(p),
               UNCHANGED <<modulesSource, target, staging>>
        PROVE  ScaffoldInv'
    <2>1. call[p] # NotRunning
      BY <1>2 DEF NotRunning
    <2>2. CallsTyped
      BY DEF ScaffoldInv
    <2>3. CallInv(p)'
      BY <1>2, <2>1, <2>2, FailCall DEF ScaffoldInv
    <2> QED BY <1>2, <2>1, <2>2, <2>3, FailCall, OtherCalls DEF ScaffoldInv
  <1>3. ASSUME NEW stage \in {"check", "stage"}, Goto(p, stage),
               call[p].at \in {"plan", "check"},
               UNCHANGED <<modulesSource, target, staging>>
        PROVE  ScaffoldInv'
    <2>1. call[p] # NotRunning /\ stage \in Stages
      BY <1>3 DEF NotRunning, Stages
    <2>2. CallsTyped
      BY DEF ScaffoldInv
    <2>3. CallInv(p)'
      BY <1>3, <2>1, <2>2, GotoCall DEF ScaffoldInv, NotRunning
    <2> QED BY <1>3, <2>1, <2>2, <2>3, GotoCall, OtherCalls DEF ScaffoldInv
  <1> QED BY <1>1, <1>2, <1>3
          DEF Prepare, Plan, PlanFails, EnsureDestination, StagingFails, At

\* From the staging directory on, without the move.
LEMMA StageKeeps ==
    ASSUME ScaffoldInv, NEW p \in Process, MakeStaging(p) \/ WriteFile(p)
    PROVE  ScaffoldInv'
  <1> USE DEF CallInv, Silent, StagingFollows, TargetFollows, IsProjectOf
  <1>1. CallsTyped /\ DOMAIN staging = Process
    BY DEF ScaffoldInv
  <1>2. CASE MakeStaging(p)
    <2>1. call[p] # NotRunning /\ "write" \in Stages
      BY <1>2 DEF MakeStaging, At, NotRunning, Stages
    <2>2. /\ staging'[p] \in Staging /\ DOMAIN staging' = Process
          /\ \A q \in Process \ {p} : staging'[q] = staging[q]
      BY <1>1, <1>2 DEF MakeStaging, Staging
    <2>3. Goto(p, "write")
      BY <1>2 DEF MakeStaging
    <2>4. CallInv(p)'
      BY <1>1, <1>2, <2>1, <2>2, <2>3, GotoCall DEF ScaffoldInv, MakeStaging, At, NotRunning
    <2> QED BY <1>1, <1>2, <2>1, <2>2, <2>3, <2>4, GotoCall, OtherCalls DEF MakeStaging
  <1>3. CASE WriteFile(p)
    <2> DEFINE written == staging[p].written + 1
           stage == IF DOMAIN Planned(call[p].ids) = 1 .. written THEN "move" ELSE "write"
    <2>1. call[p] # NotRunning /\ stage \in Stages /\ stage \in {"move", "write"}
      BY <1>3 DEF WriteFile, At, NotRunning, Stages
    <2>2. /\ staging'[p] \in Staging /\ DOMAIN staging' = Process
          /\ staging'[p].written = written
          /\ \A q \in Process \ {p} : staging'[q] = staging[q]
      BY <1>1, <1>3 DEF ScaffoldInv, WriteFile, At, Staging
    <2>3. Goto(p, stage)
      BY <1>3 DEF WriteFile
    <2>4. stage = "move" => DOMAIN Planned(call[p].ids) = 1 .. written
      OBVIOUS
    <2> HIDE DEF stage, written
    <2>5. call'[p].ids = call[p].ids /\ call'[p].at = stage
      BY <1>1, <2>1, <2>3, GotoCall
    <2>6. Planned(call[p].ids)' = Planned(call[p].ids)
      BY <2>5
    <2>7. CallInv(p)'
      BY <1>1, <1>3, <2>1, <2>2, <2>3, <2>4, <2>5, <2>6, GotoCall
         DEF ScaffoldInv, WriteFile, At, NotRunning
    <2> QED BY <1>1, <1>3, <2>1, <2>2, <2>3, <2>7, GotoCall, OtherCalls DEF WriteFile
  <1> QED BY <1>2, <1>3

\* The way out, whatever happened.
LEMMA EndKeeps ==
    ASSUME ScaffoldInv, NEW p \in Process,
           \/ WriteFails(p) \/ MoveFails(p) \/ PrintSummary(p)
           \/ RemoveStaging(p) \/ RemoveFails(p) \/ Kill(p)
    PROVE  ScaffoldInv'
  <1> USE DEF CallInv, Silent, StagingFollows, TargetFollows, IsProjectOf
  <1>1. CallsTyped /\ DOMAIN staging = Process
    BY DEF ScaffoldInv
  <1>2. ASSUME NEW outcome \in {"success", "failure"}, Return(p, outcome),
               call[p].at \in {"write", "move", "print"},
               outcome = "success" => call[p].at = "print",
               UNCHANGED <<modulesSource, target, staging>>
        PROVE  ScaffoldInv'
    <2>1. call[p] # NotRunning
      BY <1>2 DEF NotRunning
    <2>2. CallInv(p)'
      BY <1>1, <1>2, <2>1, ReturnCall DEF ScaffoldInv, NotRunning
    <2> QED BY <1>1, <1>2, <2>1, <2>2, ReturnCall, OtherCalls
  <1>3. ASSUME NEW left \in {Nothing, Abandoned}, call[p].at = "clean", Goto(p, "done"),
               staging' = [staging EXCEPT ![p] = left],
               UNCHANGED <<modulesSource, target>>
        PROVE  ScaffoldInv'
    <2>1. call[p] # NotRunning /\ "done" \in Stages
      BY <1>3 DEF NotRunning, Stages
    <2>2. /\ staging'[p] = left /\ DOMAIN staging' = Process
          /\ \A q \in Process \ {p} : staging'[q] = staging[q]
      BY <1>1, <1>3
    <2>3. CallInv(p)'
      BY <1>1, <1>3, <2>1, <2>2, GotoCall DEF ScaffoldInv
    <2> QED BY <1>1, <1>3, <2>1, <2>2, <2>3, GotoCall, OtherCalls
  <1>4. CASE Kill(p)
    <2>1. call[p] # NotRunning /\ "killed" \in Stages /\ Goto(p, "killed")
      BY <1>4 DEF Kill, NotRunning, Stages
    <2>2. /\ staging'[p] \in {Nothing, Abandoned} /\ DOMAIN staging' = Process
          /\ \A q \in Process \ {p} : staging'[q] = staging[q]
      BY <1>1, <1>4 DEF Kill
    <2>3. CallInv(p)'
      BY <1>1, <1>4, <2>1, <2>2, GotoCall DEF ScaffoldInv, Kill
    <2> QED BY <1>1, <1>4, <2>1, <2>2, <2>3, GotoCall, OtherCalls DEF Kill
  <1> QED BY <1>2, <1>3, <1>4
          DEF WriteFails, MoveFails, PrintSummary, RemoveStaging, RemoveFails, At

\* The planned files are what a call that moves has written.
LEMMA WholeMoved ==
    ASSUME ScaffoldInv, NEW p \in Process, call[p].at = "move"
    PROVE  Staged(p) = ToSet(Planned(call[p].ids)) /\ Staged(p) \in SUBSET Files
  <1>1. DOMAIN Planned(call[p].ids) = 1 .. staging[p].written
    BY DEF ScaffoldInv, CallInv, StagingFollows
  <1>2. call[p].ids \in Requested
    BY DEF ScaffoldInv, CallsTyped, NotRunning, Call
  <1>3. Staged(p) = ToSet(Planned(call[p].ids))
    BY <1>1 DEF Staged, ToSet
  <1> QED BY <1>2, <1>3 DEF Files

\* The rename.
LEMMA MoveKeeps ==
    ASSUME ScaffoldInv, NEW p \in Process, Move(p)
    PROVE  ScaffoldInv'
  <1>1. CallsTyped /\ DOMAIN staging = Process
    BY DEF ScaffoldInv
  <1>2. /\ call[p] # NotRunning /\ "print" \in Stages /\ Goto(p, "print")
        /\ call[p].at = "move"
    <2>1. At(p, "move") /\ Goto(p, "print")
      BY DEF Move
    <2> QED BY <2>1 DEF At, NotRunning, Stages
  <1>3. /\ target.is # "project" /\ target'.is = "project" /\ target'.by = p
        /\ target' \in Targets
    BY <1>2, WholeMoved DEF Move, Targets, Project
  <1>4. /\ staging'[p] \in Staging /\ DOMAIN staging' = Process
        /\ \A q \in Process \ {p} : staging'[q] = staging[q]
    BY <1>1, <1>2 DEF ScaffoldInv, CallInv, StagingFollows, Move, Staging
  <1>5. CallInv(p)'
    BY <1>1, <1>2, <1>3, <1>4, GotoCall
       DEF ScaffoldInv, CallInv, Silent, StagingFollows, TargetFollows, IsProjectOf
  <1>6. ASSUME NEW q \in Process \ {p} PROVE CallInv(q)'
    <2>1. call'[q] = call[q] /\ staging'[q] = staging[q]
      BY <1>1, <1>2, <1>4, GotoCall
    <2> QED BY <1>3, <2>1 DEF ScaffoldInv, CallInv, Silent, StagingFollows,
                TargetFollows, IsProjectOf
  <1>7. CallsTyped' /\ modulesSource' = modulesSource
    BY <1>1, <1>2, GotoCall DEF Move
  <1> QED BY <1>3, <1>4, <1>5, <1>6, <1>7 DEF ScaffoldInv

\* Somebody else takes the name.
LEMMA Occupied ==
    ASSUME Occupy
    PROVE  /\ target.is \in {"nothing", "empty directory"}
           /\ target'.is # "project"
           /\ target' \in Targets
  <1>1. target = Nothing \/ target = Foreign("empty directory")
    BY DEF Occupy
  <1>2. PICK kind \in ForeignKinds : target' = Foreign(kind)
    BY DEF Occupy, ForeignKinds
  <1>3. target' \in Targets
    BY <1>2 DEF Targets
  <1>4. Nothing.is = "nothing" /\ Foreign("empty directory").is = "empty directory"
    BY DEF Nothing, Foreign
  <1>5. target'.is # "project"
    BY <1>2 DEF Foreign, ForeignKinds
  <1> QED BY <1>1, <1>3, <1>4, <1>5

LEMMA OccupyKeeps ==
    ASSUME ScaffoldInv, Occupy
    PROVE  ScaffoldInv'
  <1>1. target.is # "project" /\ target'.is # "project" /\ target' \in Targets
    BY Occupied
  <1>2. UNCHANGED <<modulesSource, staging, call>>
    BY DEF Occupy
  <1>3. ASSUME NEW p \in Process PROVE CallInv(p)'
    BY <1>1, <1>2 DEF ScaffoldInv, CallInv, Silent, StagingFollows, TargetFollows, IsProjectOf
  <1> QED BY <1>1, <1>2, <1>3 DEF ScaffoldInv, CallsTyped

-----------------------------------------------------------------------------
(* The theorems *)

LEMMA InitialInv == Init => ScaffoldInv
  BY DEF Init, ScaffoldInv, Targets, CallsTyped, CallInv, Silent, StagingFollows,
      TargetFollows, IsProjectOf, Nothing, NotRunning

LEMMA NextKeeps == ScaffoldInv /\ [Next]_vars => ScaffoldInv'
  <1> SUFFICES ASSUME ScaffoldInv, [Next]_vars PROVE ScaffoldInv'
    OBVIOUS
  <1>1. ASSUME NEW p \in Process, Prepare(p) \/ Generate(p) \/ Kill(p)
        PROVE  ScaffoldInv'
    BY <1>1, PrepareKeeps, StageKeeps, EndKeeps, MoveKeeps DEF Generate
  <1>2. CASE UNCHANGED vars
    <2>1. ASSUME NEW p \in Process PROVE CallInv(p)'
      BY <1>2 DEF vars, ScaffoldInv, CallInv, Silent, StagingFollows, TargetFollows, IsProjectOf
    <2> QED BY <1>2, <2>1 DEF vars, ScaffoldInv, CallsTyped
  <1> QED BY <1>1, <1>2, OccupyKeeps DEF Next

LEMMA InvHolds == Spec => []ScaffoldInv
  BY InitialInv, NextKeeps, PTL DEF Spec

\* Whatever comes to bear the project's name meanwhile, only an empty directory
\* is replaced, and at once by a whole project (initializeRepository).
THEOREM TargetWhole == Spec => TargetIsWhole
  <1>1. ScaffoldInv /\ [Next]_vars =>
            [target # target' =>
                /\ target.is \in {"nothing", "empty directory"}
                /\ target'.is = "project" =>
                    target'.files = ToSet(Planned(call[target'.by].ids))]_vars
    <2> SUFFICES ASSUME ScaffoldInv, [Next]_vars, target # target'
                 PROVE  /\ target.is \in {"nothing", "empty directory"}
                        /\ target'.is = "project" =>
                            target'.files = ToSet(Planned(call[target'.by].ids))
      OBVIOUS
    <2>1. ASSUME NEW p \in Process, Move(p)
          PROVE  /\ target.is \in {"nothing", "empty directory"}
                 /\ target'.by = p
                 /\ target'.files = ToSet(Planned(call[p].ids))
      BY <2>1, WholeMoved DEF Move, At
    <2>2. CASE Occupy
      BY <2>2, Occupied
    <2>3. Occupy \/ \E p \in Process : Move(p)
      BY DEF Next, vars, Prepare, Run, Plan, PlanFails, EnsureDestination, Generate,
          MakeStaging, StagingFails, WriteFile, WriteFails, MoveFails, PrintSummary,
          RemoveStaging, RemoveFails, Kill
    <2> QED BY <2>1, <2>2, <2>3
  <1> QED BY <1>1, InvHolds, PTL DEF Spec, TargetIsWhole

\* A call that reports success has its project in place, and one that fails
\* before the summary has none (run).
THEOREM OutcomeTold == Spec => []OutcomeIsTold
  <1>1. ScaffoldInv => OutcomeIsTold
    BY DEF ScaffoldInv, CallInv, TargetFollows, IsProjectOf, OutcomeIsTold
  <1> QED BY <1>1, InvHolds, PTL

\* No call leaves its staging directory behind, unless it cannot remove it
\* (initializeRepository's deferred RemoveAll).
THEOREM NoStagingLeft == Spec => []StagingRemoved
  <1>1. ScaffoldInv => StagingRemoved
    BY DEF ScaffoldInv, CallInv, StagingFollows, StagingRemoved, At
  <1> QED BY <1>1, InvHolds, PTL

\* Calls, staging directories and the target are well-formed.
THEOREM ScaffoldTyped == Spec => []ScaffoldTypeOK
  <1>1. ScaffoldInv => ScaffoldTypeOK
    <2> SUFFICES ASSUME ScaffoldInv PROVE ScaffoldTypeOK
      OBVIOUS
    <2>1. modulesSource \in Sources /\ target \in Targets
      BY DEF ScaffoldInv
    <2>2. ASSUME NEW p \in Process
          PROVE  call[p] \in {NotRunning} \cup Call /\ Silent(p) /\ StagingFollows(p)
      BY DEF ScaffoldInv, CallsTyped, CallInv
    <2>3. \A p \in Process : staging[p] \in Staging => staging[p] # Nothing
      BY DEF Staging, Nothing
    <2> QED BY <2>1, <2>2, <2>3 DEF ScaffoldTypeOK, Targets, Call, Silent, StagingFollows
  <1> QED BY <1>1, InvHolds, PTL

-----------------------------------------------------------------------------
(* Induction *)

\* Every set of naturals has a least element.
LEMMA Least ==
    ASSUME NEW T, T \subseteq Nat, T # {}
    PROVE  \E n \in T : \A m \in T : n <= m
  <1>1. PICK n \in T : \A m \in T : ~(<<m, n>> \in OpToRel(<, Nat))
    BY NatLessThanWellFounded, WFMin
  <1>2. ASSUME NEW m \in T PROVE n <= m
    <2>1. n \in Nat /\ m \in Nat
      OBVIOUS
    <2>2. ~(<<m, n>> \in {p \in Nat \X Nat : p[1] < p[2]})
      BY <1>1 DEF OpToRel
    <2>3. <<m, n>> \in Nat \X Nat
      BY <2>1
    <2>4. ~(m < n)
      BY <2>2, <2>3
    <2> QED BY <2>1, <2>4
  <1> QED BY <1>2

\* What holds at m and goes from each number to the next holds from m to n.
LEMMA UpTo ==
    ASSUME NEW m \in Nat, NEW n \in Nat, NEW S, m \in S,
           \A k \in m .. n - 1 : k \in S => k + 1 \in S
    PROVE  \A k \in m .. n : k \in S
  <1> DEFINE T == {k \in m .. n : k \notin S}
  <1> SUFFICES ASSUME T # {} PROVE FALSE
    OBVIOUS
  <1>1. PICK k \in T : \A j \in T : k <= j
    <2>1. T \subseteq Nat
      OBVIOUS
    <2> HIDE DEF T
    <2> QED BY <2>1, Least, Zenon
  <1>2. k - 1 \in m .. n - 1 /\ (k - 1) + 1 = k
    BY <1>1
  <1>3. k - 1 \notin T
    BY <1>1, <1>2
  <1> QED BY <1>1, <1>2, <1>3

-----------------------------------------------------------------------------
(* Joining sequences *)

Follows(join, s, k) == join[k] = join[k - 1] \o s[k]

\* The sequences s[1] \o ... \o s[k], for k from 0 to n.
Joins(join, s, n) ==
    /\ join[0] = <<>>
    /\ \A k \in 1 .. n : Follows(join, s, k)

\* Any sequences can be joined, one after the other.
LEMMA JoinsExist ==
    ASSUME NEW L, NEW n \in Nat, NEW s \in [1 .. n -> Seq(L)]
    PROVE  \E join \in [0 .. n -> Seq(L)] : Joins(join, s, n)
  <1> DEFINE S == {k \in 0 .. n : \E join \in [0 .. k -> Seq(L)] : Joins(join, s, k)}
  <1>1. 0 \in S
    <2> DEFINE join == [i \in 0 .. 0 |-> <<>>]
    <2>1. join \in [0 .. 0 -> Seq(L)] /\ Joins(join, s, 0)
      BY EmptySeq DEF Joins
    <2> HIDE DEF join
    <2> QED BY <2>1
  <1>2. ASSUME NEW k \in 0 .. n - 1, k \in S PROVE k + 1 \in S
    <2>1. PICK before \in [0 .. k -> Seq(L)] : Joins(before, s, k)
      BY <1>2
    <2> DEFINE join == [i \in 0 .. k + 1 |-> IF i <= k THEN before[i]
                                             ELSE before[k] \o s[k + 1]]
    <2>2. before[k] \o s[k + 1] \in Seq(L)
      BY <2>1, ConcatProperties
    <2>3. join \in [0 .. k + 1 -> Seq(L)]
      BY <2>2
    <2>4. ASSUME NEW i \in 1 .. k + 1 PROVE Follows(join, s, i)
      <3>1. CASE i <= k
        <4>1. before[i] = before[i - 1] \o s[i]
          <5>1. Follows(before, s, i)
            BY <2>1, <3>1 DEF Joins
          <5> QED BY <5>1 DEF Follows
        <4>2. join[i] = before[i] /\ join[i - 1] = before[i - 1]
          BY <3>1
        <4> HIDE DEF join
        <4> QED BY <4>1, <4>2 DEF Follows
      <3>2. CASE i = k + 1
        <4>1. join[i - 1] = before[k] /\ join[i] = before[k] \o s[i]
          BY <3>2
        <4> HIDE DEF join
        <4> QED BY <4>1 DEF Follows
      <3> QED BY <3>1, <3>2
    <2>5. join[0] = <<>>
      BY <2>1 DEF Joins
    <2> HIDE DEF join
    <2>6. Joins(join, s, k + 1)
      BY <2>4, <2>5 DEF Joins
    <2>7. k + 1 \in 0 .. n
      OBVIOUS
    <2> QED BY <2>3, <2>6, <2>7
  <1> HIDE DEF S
  <1>3. \A k \in 0 .. n : k \in S
    BY <1>1, <1>2, UpTo, Zenon
  <1>4. n \in S
    BY <1>3
  <1> QED BY <1>4 DEF S

\* There is one way to join, and joins agree as far as what they join.
LEMMA JoinsAgree ==
    ASSUME NEW n \in Nat, NEW s, NEW t, \A i \in 1 .. n : s[i] = t[i],
           NEW join, Joins(join, s, n), NEW other, Joins(other, t, n)
    PROVE  \A k \in 0 .. n : join[k] = other[k]
  <1> DEFINE S == {k \in 0 .. n : join[k] = other[k]}
  <1>1. 0 \in S
    BY DEF Joins
  <1>2. ASSUME NEW k \in 0 .. n - 1, k \in S PROVE k + 1 \in S
    <2>1. k + 1 \in 1 .. n /\ (k + 1) - 1 = k
      OBVIOUS
    <2>2. join[k + 1] = join[k] \o s[k + 1] /\ other[k + 1] = other[k] \o t[k + 1]
      <3>1. /\ join[k + 1] = join[(k + 1) - 1] \o s[k + 1]
            /\ other[k + 1] = other[(k + 1) - 1] \o t[k + 1]
        <4>1. Follows(join, s, k + 1) /\ Follows(other, t, k + 1)
          BY <2>1 DEF Joins
        <4> QED BY <4>1 DEF Follows
      <3> QED BY <2>1, <3>1
    <2>3. s[k + 1] = t[k + 1] /\ join[k] = other[k] /\ k + 1 \in 0 .. n
      BY <1>2, <2>1
    <2> QED BY <2>2, <2>3
  <1> HIDE DEF S
  <1>3. \A k \in 0 .. n : k \in S
    BY <1>1, <1>2, UpTo
  <1> QED BY <1>3 DEF S

\* FlattenSeq is the last join.
LEMMA FlattenJoins ==
    ASSUME NEW L, NEW n \in Nat, NEW s \in [1 .. n -> Seq(L)],
           NEW join \in [0 .. n -> Seq(L)], Joins(join, s, n)
    PROVE  FlattenSeq(s) = join[n]
  <1>1. s \in Seq(Seq(L)) /\ Len(s) = n
    BY SeqDef, LenProperties
  <1>2. CASE n = 0
    <2>1. s = <<>>
      BY <1>1, <1>2, EmptySeq
    <2> QED BY <1>1, <1>2, <2>1 DEF FlattenSeq, Joins
  <1>3. CASE n # 0
    <2> DEFINE Def(g) == [i \in 1 .. Len(s) |-> IF i = 1 THEN s[i] ELSE g[i - 1] \o s[i]]
               flatten == CHOOSE g : g = Def(g)
               all == [i \in 1 .. n |-> join[i]]
    <2>1. FlattenSeq(s) = flatten[Len(s)]
      BY <1>1, <1>3 DEF FlattenSeq
    <2>2. all = Def(all)
      <3>1. join[1] = s[1]
        <4>1. 1 \in 1 .. n /\ 1 - 1 = 0
          BY <1>3
        <4>2. join[1] = <<>> \o s[1] /\ s[1] \in Seq(L)
          <5>1. Follows(join, s, 1) /\ join[0] = <<>>
            BY <4>1 DEF Joins
          <5> QED BY <4>1, <5>1 DEF Follows
        <4> QED BY <4>2, ConcatEmptySeq
      <3>2. ASSUME NEW i \in 1 .. n, i # 1 PROVE all[i] = all[i - 1] \o s[i]
        <4>1. i - 1 \in 1 .. n /\ i - 1 \in 0 .. n
          BY <3>2
        <4>2. all[i] = join[i] /\ all[i - 1] = join[i - 1]
          BY <4>1
        <4>3. join[i] = join[i - 1] \o s[i]
          <5>1. Follows(join, s, i)
            BY DEF Joins
          <5> QED BY <5>1 DEF Follows
        <4> QED BY <4>2, <4>3
      <3> QED BY <1>1, <3>1, <3>2
    <2>3. flatten = Def(flatten)
      BY <2>2
    <2> HIDE DEF flatten
    <2> DEFINE S == {i \in 1 .. n : flatten[i] = join[i]}
    <2>4. 1 \in S
      <3>1. 1 \in 1 .. n
        BY <1>3
      <3>2. flatten[1] = s[1]
        BY <1>1, <2>3, <3>1
      <3>3. join[1] = <<>> \o s[1] /\ s[1] \in Seq(L)
        <4>1. 1 - 1 = 0
          OBVIOUS
        <4>2. Follows(join, s, 1) /\ join[0] = <<>>
          BY <3>1 DEF Joins
        <4> QED BY <3>1, <4>1, <4>2 DEF Follows
      <3>4. join[1] = s[1]
        BY <3>3, ConcatEmptySeq
      <3> QED BY <3>1, <3>2, <3>4
    <2>5. ASSUME NEW i \in 1 .. n - 1, i \in S PROVE i + 1 \in S
      <3>1. i + 1 \in 1 .. n /\ i + 1 # 1 /\ (i + 1) - 1 = i
        OBVIOUS
      <3>2. flatten[i + 1] = flatten[i] \o s[i + 1]
        BY <1>1, <2>3, <3>1
      <3>3. Follows(join, s, i + 1)
        BY <3>1 DEF Joins
      <3>4. join[i + 1] = join[i] \o s[i + 1]
        BY <3>1, <3>3 DEF Follows
      <3> QED BY <2>5, <3>1, <3>2, <3>4
    <2> HIDE DEF S
    <2>6. n \in S
      <3>1. 1 \in Nat /\ n \in 1 .. n
        BY <1>3
      <3>2. \A k \in 1 .. n : k \in S
        BY <2>4, <2>5, <3>1, UpTo, Zenon
      <3> QED BY <3>1, <3>2
    <2> QED BY <1>1, <2>1, <2>6 DEF S
  <1> QED BY <1>2, <1>3

\* The sequences s[1] to s[n] of elements of L and their joins.
Joined(L, n, s, join) ==
    /\ n \in Nat
    /\ s \in [1 .. n -> Seq(L)]
    /\ join \in [0 .. n -> Seq(L)]
    /\ Joins(join, s, n)

\* The same, for typed sequences.
LEMMA AnyJoined ==
    ASSUME NEW L, NEW n \in Nat, NEW s \in [1 .. n -> Seq(L)]
    PROVE  \E join : Joined(L, n, s, join)
  BY JoinsExist DEF Joined

\* FlattenSeq of typed sequences is their last join.
LEMMA JoinedFlat ==
    ASSUME NEW L, NEW n \in Nat, NEW s, NEW join, Joined(L, n, s, join)
    PROVE  FlattenSeq(s) = join[n]
  BY FlattenJoins DEF Joined

\* The k-th step of a join, with the types of what it joins.
IsStep(L, join, s, k) ==
    /\ s[k] \in Seq(L) /\ join[k - 1] \in Seq(L) /\ join[k] \in Seq(L)
    /\ join[k] = join[k - 1] \o s[k]

\* Every step of a join is one.
LEMMA JoinStep ==
    ASSUME NEW L, NEW n \in Nat, NEW s, NEW join, Joined(L, n, s, join), NEW k \in 1 .. n
    PROVE  IsStep(L, join, s, k)
  <1>1. Follows(join, s, k)
    BY DEF Joined, Joins
  <1>2. k - 1 \in 0 .. n /\ k \in 0 .. n
    BY DEF Joined
  <1> QED BY <1>1, <1>2 DEF Joined, Follows, IsStep

-----------------------------------------------------------------------------
(* Where a join has what is joined *)

\* One sequence is in front of another.
Fronts(s, t) ==
    Len(s) <= Len(t) /\ \A p \in 1 .. Len(s) : t[p] = s[p]

\* A sequence is in front of its concatenation with another.
LEMMA FrontOfConcat ==
    ASSUME NEW L, NEW s \in Seq(L), NEW t \in Seq(L), NEW u \in Seq(L), Fronts(s, t)
    PROVE  Fronts(s, t \o u)
  <1>1. /\ Len(t \o u) = Len(t) + Len(u)
        /\ \A p \in 1 .. Len(t) + Len(u) :
              (t \o u)[p] = IF p <= Len(t) THEN t[p] ELSE u[p - Len(t)]
    BY ConcatProperties
  <1>2. Len(s) \in Nat /\ Len(t) \in Nat /\ Len(u) \in Nat
    BY LenProperties
  <1> DEFINE tu == t \o u
  <1>3. /\ Len(tu) = Len(t) + Len(u)
        /\ \A p \in 1 .. Len(t) + Len(u) : tu[p] = IF p <= Len(t) THEN t[p] ELSE u[p - Len(t)]
    BY <1>1
  <1> HIDE DEF tu
  <1>4. Fronts(s, tu)
    BY <1>2, <1>3 DEF Fronts
  <1> QED BY <1>4 DEF tu

\* Where the second part of a concatenation is in what has it in front.
LEMMA ConcatHas ==
    ASSUME NEW L, NEW s \in Seq(L), NEW u \in Seq(L), NEW t \in Seq(L),
           Fronts(s \o u, t)
    PROVE  /\ Len(s) \in Nat /\ Len(u) \in Nat /\ Len(s \o u) = Len(s) + Len(u)
           /\ \A p \in 1 .. Len(u) : Len(s) + p \in 1 .. Len(t) /\ t[Len(s) + p] = u[p]
  <1> DEFINE su == s \o u
  <1>1. /\ Len(su) = Len(s) + Len(u)
        /\ \A p \in 1 .. Len(s) + Len(u) :
              su[p] = IF p <= Len(s) THEN s[p] ELSE u[p - Len(s)]
    BY ConcatProperties
  <1>0. Fronts(su, t)
    OBVIOUS
  <1> HIDE DEF su
  <1>2. Len(s) \in Nat /\ Len(u) \in Nat /\ Len(t) \in Nat
    BY LenProperties
  <1>3. ASSUME NEW p \in 1 .. Len(u)
        PROVE  Len(s) + p \in 1 .. Len(t) /\ t[Len(s) + p] = u[p]
    <2>1. /\ Len(s) + p \in 1 .. Len(s) + Len(u) /\ ~(Len(s) + p <= Len(s))
          /\ (Len(s) + p) - Len(s) = p
      BY <1>2
    <2>2. su[Len(s) + p] = u[p]
      BY <1>1, <2>1
    <2> QED BY <1>0, <1>1, <1>2, <2>1, <2>2 DEF Fronts
  <1> QED BY <1>1, <1>2, <1>3 DEF su

\* A join has those before it in front.
LEMMA JoinGrows ==
    ASSUME NEW L, NEW n \in Nat, NEW s, NEW join, Joined(L, n, s, join),
           NEW i \in 0 .. n, NEW k \in i .. n
    PROVE  Fronts(join[i], join[k])
  <1> DEFINE S == {j \in i .. n : Fronts(join[i], join[j])}
  <1>1. n \in Nat /\ i \in Nat /\ join[i] \in Seq(L)
    BY DEF Joined
  <1>2. i \in S
    <2>1. Fronts(join[i], join[i])
      BY <1>1, LenProperties DEF Fronts
    <2> QED BY <1>1, <2>1
  <1>3. ASSUME NEW j \in i .. n - 1, j \in S PROVE j + 1 \in S
    <2>1. j + 1 \in 1 .. n /\ (j + 1) - 1 = j /\ j + 1 \in i .. n
      BY <1>1
    <2>2. join[j] \in Seq(L) /\ s[j + 1] \in Seq(L) /\ join[j + 1] = join[j] \o s[j + 1]
      <3>1. IsStep(L, join, s, j + 1)
        BY <2>1, JoinStep
      <3> QED BY <2>1, <3>1 DEF IsStep
    <2>3. Fronts(join[i], join[j])
      BY <1>3
    <2>4. Fronts(join[i], join[j + 1])
      BY <1>1, <2>2, <2>3, FrontOfConcat
    <2> QED BY <2>1, <2>4
  <1> HIDE DEF S
  <1>4. \A j \in i .. n : j \in S
    BY <1>1, <1>2, <1>3, UpTo, Zenon
  <1> QED BY <1>4 DEF S

\* The place in a join behind what is joined before the i-th sequence.
Place(join, i) == Len(join[i - 1]) + 1

PlacesOf(join, fronts) == {Place(join, i) : i \in fronts}

\* The i-th sequence is in its place.
InPlace(join, n, s, i) ==
    /\ Len(join[i - 1]) \in Nat
    /\ Len(s[i]) \in Nat
    /\ Len(join[i]) = Len(join[i - 1]) + Len(s[i])
    /\ \A p \in 1 .. Len(s[i]) :
        /\ Len(join[i - 1]) + p \in 1 .. Len(join[n])
        /\ join[n][Len(join[i - 1]) + p] = s[i][p]

\* Every sequence is in its place in a join of all.
LEMMA JoinHas ==
    ASSUME NEW L, NEW n \in Nat, NEW s, NEW join, Joined(L, n, s, join), NEW i \in 1 .. n
    PROVE  InPlace(join, n, s, i)
  <1>1. IsStep(L, join, s, i)
    BY JoinStep
  <1>2. Fronts(join[i], join[n]) /\ join[n] \in Seq(L)
    <2>1. i \in 0 .. n /\ n \in i .. n /\ join[n] \in Seq(L)
      BY DEF Joined
    <2> QED BY <2>1, JoinGrows
  <1> DEFINE before == join[i - 1]
             joined == join[i]
             all == join[n]
             piece == s[i]
  <1>3. /\ before \in Seq(L) /\ piece \in Seq(L) /\ all \in Seq(L)
        /\ joined = before \o piece /\ Fronts(before \o piece, all)
    BY <1>1, <1>2 DEF IsStep
  <1> HIDE DEF before, joined, all, piece
  <1>4. /\ Len(before) \in Nat /\ Len(piece) \in Nat
        /\ Len(joined) = Len(before) + Len(piece)
        /\ \A p \in 1 .. Len(piece) :
              Len(before) + p \in 1 .. Len(all) /\ all[Len(before) + p] = piece[p]
    BY <1>3, ConcatHas
  <1> QED BY <1>4, Zenon DEF InPlace, before, joined, all, piece

From(join, n, s, q, i, p) == q = Len(join[i - 1]) + p /\ join[n][q] = s[i][p]

\* Every element of the join comes from a sequence.
LEMMA JoinFrom ==
    ASSUME NEW L, NEW n \in Nat, NEW s, NEW join, Joined(L, n, s, join),
           NEW q \in 1 .. Len(join[n])
    PROVE  \E i \in 1 .. n : \E p \in 1 .. Len(s[i]) : From(join, n, s, q, i, p)
  <1> DEFINE T == {k \in 0 .. n : q <= Len(join[k])}
  <1>1. Len(join[0]) = 0 /\ n \in Nat /\ join[n] \in Seq(L)
    BY EmptySeq DEF Joined, Joins
  <1>2. Len(join[n]) \in Nat /\ q \in Nat /\ 1 <= q /\ q <= Len(join[n])
    BY <1>1, LenProperties
  <1>3. T \subseteq Nat /\ n \in T /\ \A k : k \in T <=> k \in 0 .. n /\ q <= Len(join[k])
    BY <1>1, <1>2
  <1> HIDE DEF T
  <1>4. PICK k \in T : \A j \in T : k <= j
    BY <1>3, Least, Zenon
  <1>5. k \in 1 .. n /\ k - 1 \in 0 .. n
    BY <1>1, <1>2, <1>3, <1>4
  <1>6. ~(q <= Len(join[k - 1]))
    BY <1>3, <1>4, <1>5
  <1>7. InPlace(join, n, s, k)
    BY <1>5, JoinHas
  <1> DEFINE before == join[k - 1]
             all == join[n]
             piece == s[k]
             p == q - Len(before)
  <1>8. /\ Len(before) \in Nat /\ Len(piece) \in Nat
        /\ q <= Len(before) + Len(piece) /\ ~(q <= Len(before))
        /\ \A r \in 1 .. Len(piece) : all[Len(before) + r] = piece[r]
    <2>1. q <= Len(join[k])
      BY <1>3, <1>4
    <2> QED BY <2>1, <1>6, <1>7 DEF InPlace
  <1> HIDE DEF before, all, piece
  <1>9. p \in 1 .. Len(piece) /\ q = Len(before) + p
    BY <1>2, <1>8
  <1>10. all[q] = piece[p]
    BY <1>8, <1>9
  <1> HIDE DEF p
  <1>11. From(join, n, s, q, k, p) /\ p \in 1 .. Len(s[k])
    BY <1>9, <1>10 DEF before, all, piece, From
  <1> QED BY <1>5, <1>11

\* Of s[1] to s[n], those in fronts have the line, in front and nowhere else.
OnlyFront(s, n, line, fronts) ==
    /\ \A i \in fronts : s[i] # <<>> /\ s[i][1] = line
    /\ \A i \in 1 .. n : \A p \in 1 .. Len(s[i]) :
         s[i][p] = line => i \in fronts /\ p = 1

\* A line that is nowhere but in front of sequences is where these begin.
LEMMA FrontsFound ==
    ASSUME NEW L, NEW n \in Nat, NEW s, NEW join, Joined(L, n, s, join),
           NEW line, NEW fronts \in SUBSET (1 .. n),
           OnlyFront(s, n, line, fronts)
    PROVE  PositionsOf(join[n], line) = PlacesOf(join, fronts)
  <1>1. DOMAIN join[n] = 1 .. Len(join[n])
    <2>1. join[n] \in Seq(L)
      BY DEF Joined
    <2> QED BY <2>1, LenProperties
  <1>2. ASSUME NEW i \in fronts
        PROVE  Place(join, i) \in 1 .. Len(join[n]) /\ join[n][Place(join, i)] = line
    <2>1. i \in 1 .. n /\ s[i][1] = line /\ s[i] # <<>>
      BY DEF OnlyFront
    <2>2. s[i] \in Seq(L) /\ InPlace(join, n, s, i)
      <3>1. IsStep(L, join, s, i)
        BY <2>1, JoinStep
      <3> QED BY <2>1, <3>1, JoinHas DEF IsStep
    <2>3. 1 \in 1 .. Len(s[i])
      BY <2>1, <2>2, EmptySeq
    <2> QED BY <2>1, <2>2, <2>3 DEF InPlace, Place
  <1>3. ASSUME NEW q \in 1 .. Len(join[n]), join[n][q] = line
        PROVE  \E i \in fronts : q = Place(join, i)
    <2>1. PICK i \in 1 .. n : \E p \in 1 .. Len(s[i]) : From(join, n, s, q, i, p)
      BY JoinFrom
    <2>2. PICK p \in 1 .. Len(s[i]) : q = Len(join[i - 1]) + p /\ join[n][q] = s[i][p]
      BY <2>1 DEF From
    <2>3. s[i][p] = line
      BY <1>3, <2>2
    <2>4. i \in fronts /\ p = 1
      BY <2>3 DEF OnlyFront
    <2> QED BY <2>2, <2>4 DEF Place
  <1> DEFINE lines == join[n]
  <1>4. \A q : q \in PositionsOf(lines, line) <=> q \in 1 .. Len(lines) /\ lines[q] = line
    BY <1>1 DEF PositionsOf
  <1>5. PositionsOf(lines, line) \subseteq {Place(join, i) : i \in fronts}
    BY <1>3, <1>4
  <1>6. {Place(join, i) : i \in fronts} \subseteq PositionsOf(lines, line)
    BY <1>2, <1>4
  <1> QED BY <1>5, <1>6 DEF PlacesOf

\* Sequences that are not empty begin one after the other.
LEMMA FrontsOrdered ==
    ASSUME NEW L, NEW n \in Nat, NEW s, NEW join, Joined(L, n, s, join),
           NEW i \in 1 .. n, NEW k \in 1 .. n, i < k, s[i] # <<>>
    PROVE  /\ Place(join, i) \in Nat /\ Place(join, k) \in Nat
           /\ Place(join, i) < Place(join, k)
  <1>1. InPlace(join, n, s, i) /\ InPlace(join, n, s, k) /\ s[i] \in Seq(L)
    <2>1. IsStep(L, join, s, i)
      BY JoinStep
    <2> QED BY <2>1, JoinHas DEF IsStep
  <1>2. Len(s[i]) # 0 /\ Len(s[i]) \in Nat
    BY <1>1, EmptySeq
  <1>3. k - 1 \in i .. n /\ i \in 0 .. n
    BY DEF Joined
  <1>4. Fronts(join[i], join[k - 1])
    BY <1>3, JoinGrows
  <1> DEFINE a == Len(join[i - 1])
             b == Len(join[i])
             c == Len(join[k - 1])
             d == Len(s[i])
  <1>5. a \in Nat /\ d \in Nat /\ d # 0 /\ b = a + d /\ b <= c /\ c \in Nat
    BY <1>1, <1>2, <1>4 DEF InPlace, Fronts
  <1> HIDE DEF a, b, c, d
  <1>6. a + 1 \in Nat /\ c + 1 \in Nat /\ a + 1 < c + 1
    BY <1>5
  <1> QED BY <1>6 DEF Place, a, c

Associates(s, t, u) == (s \o t) \o u = s \o (t \o u)

-----------------------------------------------------------------------------
(* Replacing what is between two lines of a join *)

\* Concatenation is associative.
LEMMA Associative ==
    ASSUME NEW L, NEW s \in Seq(L), NEW t \in Seq(L), NEW u \in Seq(L)
    PROVE  Associates(s, t, u)
  BY ConcatAssociative DEF Associates

\* The two parts of a concatenation.
LEMMA Parts ==
    ASSUME NEW L, NEW s \in Seq(L), NEW t \in Seq(L)
    PROVE  /\ SubSeq(s \o t, 1, Len(s)) = s
           /\ SubSeq(s \o t, Len(s) + 1, Len(s \o t)) = t
  <1> DEFINE st == s \o t
  <1>1. /\ st \in Seq(L) /\ Len(st) = Len(s) + Len(t)
        /\ \A i \in 1 .. Len(s) + Len(t) :
              st[i] = IF i <= Len(s) THEN s[i] ELSE t[i - Len(s)]
    BY ConcatProperties
  <1>2. Len(s) \in Nat /\ Len(t) \in Nat
    BY LenProperties
  <1> HIDE DEF st
  <1>3. \A i \in 1 .. Len(s) + Len(t) : st[i] \in L
    BY <1>1, ElementOfSeq
  <1>4. SubSeq(st, 1, Len(s)) = s
    <2> DEFINE u == SubSeq(st, 1, Len(s))
    <2>1. /\ u \in Seq(L) /\ Len(u) = Len(s)
          /\ \A i \in 1 .. Len(s) : u[i] = st[i]
      BY <1>2, <1>3, SubSeqProperties
    <2> HIDE DEF u
    <2>2. \A i \in 1 .. Len(s) : u[i] = s[i]
      BY <1>1, <1>2, <2>1
    <2>3. u = s
      BY <2>1, <2>2, SeqEqual
    <2> QED BY <2>3 DEF u
  <1>5. SubSeq(st, Len(s) + 1, Len(st)) = t
    <2> DEFINE u == SubSeq(st, Len(s) + 1, Len(st))
    <2>1. /\ u \in Seq(L) /\ Len(u) = Len(t)
          /\ \A i \in 1 .. Len(t) : u[i] = st[Len(s) + i]
      <3>1. /\ u \in Seq(L)
            /\ Len(u) = IF Len(s) + 1 <= Len(st) THEN Len(st) - (Len(s) + 1) + 1 ELSE 0
            /\ \A i \in 1 .. Len(st) - (Len(s) + 1) + 1 : u[i] = st[Len(s) + 1 + i - 1]
        BY <1>1, <1>2, <1>3, SubSeqProperties
      <3> HIDE DEF u
      <3>2. ASSUME NEW i \in 1 .. Len(t) PROVE u[i] = st[Len(s) + i]
        <4>1. i \in 1 .. Len(st) - (Len(s) + 1) + 1 /\ Len(s) + 1 + i - 1 = Len(s) + i
          BY <1>1, <1>2
        <4> QED BY <3>1, <4>1
      <3> QED BY <3>1, <3>2, <1>1, <1>2
    <2> HIDE DEF u
    <2>2. ASSUME NEW i \in 1 .. Len(t) PROVE u[i] = t[i]
      <3>1. /\ Len(s) + i \in 1 .. Len(s) + Len(t) /\ ~(Len(s) + i <= Len(s))
            /\ (Len(s) + i) - Len(s) = i
        BY <1>2
      <3> QED BY <1>1, <2>1, <3>1
    <2>3. u = t
      BY <2>1, <2>2, SeqEqual
    <2> QED BY <2>3 DEF u
  <1> QED BY <1>4, <1>5 DEF st

SameIn(s, t, i, k) == \A j \in i .. k : s[j] = t[j]

\* Two sequences that go on with the same rest.
SameRest(L, s, u, t, v) == \E rest \in Seq(L) : u = s \o rest /\ v = t \o rest

\* The same rest, after one more sequence that is the same.
LEMMA RestGoesOn ==
    ASSUME NEW L, NEW s \in Seq(L), NEW u \in Seq(L), NEW t \in Seq(L), NEW v \in Seq(L),
           SameRest(L, s, u, t, v), NEW w \in Seq(L)
    PROVE  SameRest(L, s, u \o w, t, v \o w)
  <1>1. PICK rest \in Seq(L) : u = s \o rest /\ v = t \o rest
    BY DEF SameRest
  <1>2. rest \o w \in Seq(L)
    BY ConcatProperties
  <1>3. Associates(s, rest, w) /\ Associates(t, rest, w)
    BY Associative
  <1>4. u \o w = s \o (rest \o w) /\ v \o w = t \o (rest \o w)
    BY <1>1, <1>3, Zenon DEF Associates
  <1> QED BY <1>2, <1>4, Zenon DEF SameRest

\* Of two joins of sequences that are the same from some point on, the rest is the same.
LEMMA RestIsSame ==
    ASSUME NEW L, NEW n \in Nat, NEW s, NEW join, Joined(L, n, s, join),
           NEW t, NEW other, Joined(L, n, t, other),
           NEW i \in 0 .. n, SameIn(s, t, i + 1, n)
    PROVE  SameRest(L, join[i], join[n], other[i], other[n])
  <1> DEFINE S == {k \in i .. n : SameRest(L, join[i], join[k], other[i], other[k])}
  <1>1. join[i] \in Seq(L) /\ other[i] \in Seq(L)
    BY DEF Joined
  <1>2. i \in S
    <2>1. SameRest(L, join[i], join[i], other[i], other[i])
      BY <1>1, EmptySeq, ConcatEmptySeq DEF SameRest
    <2> QED BY <2>1
  <1>3. ASSUME NEW k \in i .. n - 1, k \in S PROVE k + 1 \in S
    <2>1. k + 1 \in 1 .. n /\ k + 1 \in i + 1 .. n /\ (k + 1) - 1 = k /\ k + 1 \in i .. n
      OBVIOUS
    <2>2. IsStep(L, join, s, k + 1) /\ IsStep(L, other, t, k + 1) /\ s[k + 1] = t[k + 1]
      BY <2>1, JoinStep DEF SameIn
    <2>3. /\ join[k] \in Seq(L) /\ other[k] \in Seq(L) /\ s[k + 1] \in Seq(L)
          /\ join[k + 1] = join[k] \o s[k + 1] /\ other[k + 1] = other[k] \o s[k + 1]
      BY <2>1, <2>2 DEF IsStep
    <2>4. SameRest(L, join[i], join[k], other[i], other[k])
      BY <1>3
    <2>5. SameRest(L, join[i], join[k + 1], other[i], other[k + 1])
      BY <1>1, <2>3, <2>4, RestGoesOn
    <2> QED BY <2>1, <2>5
  <1> HIDE DEF S
  <1>4. \A k \in i .. n : k \in S
    <2>1. i \in Nat
      OBVIOUS
    <2> QED BY <1>2, <1>3, <2>1, UpTo, Zenon
  <1>5. n \in S
    BY <1>4
  <1> QED BY <1>5 DEF S

\* Joins that join the same from the start.
LEMMA SameJoins ==
    ASSUME NEW L, NEW n \in Nat, NEW s, NEW join, Joined(L, n, s, join),
           NEW t, NEW other, Joined(L, n, t, other),
           NEW i \in 0 .. n, SameIn(s, t, 1, i)
    PROVE  join[i] = other[i]
  <1>1. Joins(join, s, i) /\ Joins(other, t, i)
    <2>1. Joins(join, s, n) /\ Joins(other, t, n)
      BY DEF Joined
    <2>2. \A k \in 1 .. i : k \in 1 .. n
      OBVIOUS
    <2> QED BY <2>1, <2>2 DEF Joins
  <1>2. i \in Nat /\ i \in 0 .. i
    OBVIOUS
  <1>3. \A k \in 0 .. i : join[k] = other[k]
    <2>1. \A k \in 1 .. i : s[k] = t[k]
      BY DEF SameIn
    <2> QED BY <1>1, <1>2, <2>1, JoinsAgree
  <1> QED BY <1>2, <1>3

EmptyIn(s, i, k) == \A j \in i .. k : s[j] = <<>>

\* A join stays what it is as long as nothing is joined.
LEMMA JoinStays ==
    ASSUME NEW L, NEW n \in Nat, NEW s, NEW join, Joined(L, n, s, join),
           NEW i \in 0 .. n, NEW k \in i .. n, EmptyIn(s, i + 1, k)
    PROVE  join[k] = join[i]
  <1> DEFINE S == {j \in i .. k : join[j] = join[i]}
  <1>1. i \in Nat /\ k \in Nat /\ i \in S
    OBVIOUS
  <1>2. ASSUME NEW j \in i .. k - 1, j \in S PROVE j + 1 \in S
    <2>1. j + 1 \in 1 .. n /\ j + 1 \in i + 1 .. k /\ (j + 1) - 1 = j /\ j + 1 \in i .. k
      OBVIOUS
    <2>2. IsStep(L, join, s, j + 1) /\ s[j + 1] = <<>>
      BY <2>1, JoinStep DEF EmptyIn
    <2>3. join[j + 1] = join[j] \o <<>> /\ join[j] \in Seq(L)
      BY <2>1, <2>2 DEF IsStep
    <2>4. join[j + 1] = join[j]
      BY <2>3, ConcatEmptySeq
    <2> QED BY <1>2, <2>1, <2>4
  <1> HIDE DEF S
  <1>3. \A j \in i .. k : j \in S
    BY <1>1, <1>2, UpTo, Zenon
  <1>4. k \in S
    BY <1>3
  <1> QED BY <1>4 DEF S

Splice(source, first, content, last) ==
    SubSeq(source, 1, first) \o content \o SubSeq(source, last, Len(source))

\* In t, unlike s, content goes with the line in b, and there is nothing from there to e.
Splices(L, n, s, t, b, e, line, content) ==
    /\ b \in 1 .. n /\ e \in 1 .. n /\ b < e
    /\ line \in L /\ content \in Seq(L)
    /\ s[b] = <<line>> /\ t[b] = <<line>> \o content
    /\ SameIn(s, t, 1, b - 1) /\ EmptyIn(t, b + 1, e - 1) /\ SameIn(s, t, e, n)

\* Replacing what is between two lines of a join.
LEMMA Spliced ==
    ASSUME NEW L, NEW n \in Nat, NEW s, NEW join, Joined(L, n, s, join),
           NEW t, NEW other, Joined(L, n, t, other),
           NEW b, NEW e, NEW line, NEW content, Splices(L, n, s, t, b, e, line, content)
    PROVE  Splice(join[n], Place(join, b), content, Place(join, e)) = other[n]
  <1>0. /\ b \in 1 .. n /\ e \in 1 .. n /\ b < e
        /\ line \in L /\ content \in Seq(L)
        /\ s[b] = <<line>> /\ t[b] = <<line>> \o content
        /\ SameIn(s, t, 1, b - 1) /\ EmptyIn(t, b + 1, e - 1) /\ SameIn(s, t, e, n)
    BY DEF Splices
  <1>1. join[b - 1] = other[b - 1]
    <2>1. b - 1 \in 0 .. n
      BY <1>0
    <2> QED BY <1>0, <2>1, SameJoins
  <1>2. IsStep(L, join, s, b) /\ IsStep(L, other, t, b) /\ IsStep(L, join, s, e)
    BY <1>0, JoinStep
  <1>3. b \in 0 .. n /\ e - 1 \in 0 .. n /\ e - 1 \in b .. n
    BY <1>0
  <1>4. <<line>> \in Seq(L) /\ Len(<<line>>) = 1 /\ content \in Seq(L)
    BY <1>0
  <1> DEFINE start == join[b - 1]
             front == join[b]
             before == join[e - 1]
             whole == join[n]
             result == other[n]
  <1>5. /\ start \in Seq(L) /\ front \in Seq(L) /\ before \in Seq(L) /\ whole \in Seq(L)
        /\ front = start \o <<line>> /\ other[b] = start \o (<<line>> \o content)
    <2>1. whole \in Seq(L)
      BY DEF Joined
    <2> QED BY <1>0, <1>1, <1>2, <2>1 DEF IsStep
  <1>6. other[b] = front \o content
    <2> HIDE DEF start, front
    <2>1. (start \o <<line>>) \o content = start \o (<<line>> \o content)
      <3>1. Associates(start, <<line>>, content)
        BY <1>4, <1>5, Associative
      <3> QED BY <3>1 DEF Associates
    <2> QED BY <1>5, <2>1
  <1>7. Place(join, b) = Len(front) /\ Place(join, e) = Len(before) + 1
    <2> HIDE DEF front, start
    <2>1. Len(front) = Len(start) + 1
      BY <1>4, <1>5, ConcatProperties
    <2> QED BY <2>1 DEF Place, start
  <1>8. other[e - 1] = front \o content
    <2>1. other[e - 1] = other[b]
      BY <1>0, <1>3, JoinStays
    <2> QED BY <1>6, <2>1
  <1>9. SameRest(L, before, whole, other[e - 1], result)
    <2>1. SameIn(s, t, (e - 1) + 1, n)
      <3>1. (e - 1) + 1 = e
        BY <1>0
      <3> QED BY <1>0, <3>1
    <2> QED BY <1>3, <2>1, RestIsSame
  <1>10. SameRest(L, front, whole, front, whole)
    <2>1. SameIn(s, s, b + 1, n)
      BY DEF SameIn
    <2> QED BY <1>3, <2>1, RestIsSame
  <1> HIDE DEF start, front, before, whole, result
  <1>11. PICK back \in Seq(L) : whole = before \o back /\ result = (front \o content) \o back
    BY <1>8, <1>9 DEF SameRest
  <1>12. PICK rest \in Seq(L) : whole = front \o rest
    BY <1>10 DEF SameRest
  <1>13. /\ SubSeq(whole, 1, Len(front)) = front
         /\ SubSeq(whole, Len(before) + 1, Len(whole)) = back
    <2>1. SubSeq(front \o rest, 1, Len(front)) = front
      BY <1>5, Parts
    <2>2. SubSeq(before \o back, Len(before) + 1, Len(before \o back)) = back
      BY <1>5, Parts
    <2> QED BY <1>11, <1>12, <2>1, <2>2
  <1>14. SubSeq(whole, 1, Place(join, b)) \o content
           \o SubSeq(whole, Place(join, e), Len(whole)) = result
    BY <1>7, <1>11, <1>13
  <1> QED BY <1>14 DEF whole, result, Splice

-----------------------------------------------------------------------------
(* Stripping the markers *)

\* The code of a line is a sequence of lines.
LEMMA CodeTyped ==
    ASSUME NEW L, NEW line \in L
    PROVE  CodeOf(line) \in Seq(L)
  BY DEF CodeOf

\* The code of each line.
CodeLines(source) == [i \in 1 .. Len(source) |-> CodeOf(source[i])]

\* The same, for every line of a source.
LEMMA CodeLinesTyped ==
    ASSUME NEW L, NEW source \in Seq(L)
    PROVE  CodeLines(source) \in [1 .. Len(source) -> Seq(L)]
  BY ElementOfSeq, CodeTyped DEF CodeLines

\* stripScaffoldMarkers joins the code of each line.
LEMMA StripJoins ==
    ASSUME NEW L, NEW source \in Seq(L),
           NEW join, Joined(L, Len(source), CodeLines(source), join)
    PROVE  StripScaffoldMarkers(source) = join[Len(source)]
  <1>1. DOMAIN source = 1 .. Len(source) /\ Len(source) \in Nat
    BY LenProperties
  <1>2. StripScaffoldMarkers(source) = FlattenSeq(CodeLines(source))
    BY <1>1 DEF StripScaffoldMarkers, CodeLines
  <1> QED BY <1>1, <1>2, JoinedFlat

\* stripScaffoldMarkers keeps lines of the source.
LEMMA StripTyped ==
    ASSUME NEW L, NEW source \in Seq(L)
    PROVE  StripScaffoldMarkers(source) \in Seq(L)
  <1> DEFINE n == Len(source)
  <1>1. n \in Nat
    BY LenProperties
  <1>2. PICK join : Joined(L, n, CodeLines(source), join)
    BY <1>1, CodeLinesTyped, AnyJoined
  <1>3. join[n] \in Seq(L)
    BY <1>1, <1>2 DEF Joined
  <1> QED BY <1>2, <1>3, StripJoins

\* Stripping a concatenation strips both parts.
LEMMA StripConcat ==
    ASSUME NEW L, NEW s \in Seq(L), NEW t \in Seq(L)
    PROVE  StripScaffoldMarkers(s \o t) = StripScaffoldMarkers(s) \o StripScaffoldMarkers(t)
  <1> DEFINE st == s \o t
             n == Len(s)
             m == Len(t)
  <1>1. n \in Nat /\ m \in Nat
    BY LenProperties
  <1>2. /\ st \in Seq(L) /\ Len(st) = n + m
        /\ \A i \in 1 .. n + m : st[i] = IF i <= n THEN s[i] ELSE t[i - n]
    BY ConcatProperties
  <1> HIDE DEF st
  <1>3. PICK front : Joined(L, n, CodeLines(s), front)
    BY <1>1, CodeLinesTyped, AnyJoined
  <1>4. PICK back : Joined(L, m, CodeLines(t), back)
    BY <1>1, CodeLinesTyped, AnyJoined
  <1>5. CodeLines(st) \in [1 .. n + m -> Seq(L)]
    <2>1. CodeLines(st) \in [1 .. Len(st) -> Seq(L)]
      BY <1>2, CodeLinesTyped
    <2> QED BY <1>2, <2>1
  <1>6. \A i \in 1 .. n : CodeLines(st)[i] = CodeLines(s)[i]
    BY <1>1, <1>2 DEF CodeLines
  <1>7. ASSUME NEW i \in 1 .. m PROVE CodeLines(st)[n + i] = CodeLines(t)[i]
    <2>1. n + i \in 1 .. n + m /\ ~(n + i <= n) /\ (n + i) - n = i
      BY <1>1
    <2>2. st[n + i] = t[i]
      BY <1>2, <2>1
    <2> QED BY <1>2, <2>1, <2>2 DEF CodeLines
  <1> HIDE DEF n, m
  <1>8. front \in [0 .. n -> Seq(L)] /\ back \in [0 .. m -> Seq(L)]
        /\ front[0] = <<>> /\ back[0] = <<>>
    BY <1>3, <1>4 DEF Joined, Joins
  <1> DEFINE join == [k \in 0 .. n + m |-> IF k <= n THEN front[k] ELSE front[n] \o back[k - n]]
             first == front[n]
  <1>9. first \in Seq(L)
    BY <1>1, <1>8
  <1> HIDE DEF first
  <1>10. \A k \in 0 .. n : join[k] = front[k]
    BY <1>1
  <1>11. \A k \in 0 .. m : join[n + k] = first \o back[k]
    <2> SUFFICES ASSUME NEW k \in 0 .. m PROVE join[n + k] = first \o back[k]
      OBVIOUS
    <2>1. CASE k = 0
      <3>1. join[n + 0] = first
        BY <1>1 DEF first
      <3>2. first \o <<>> = first
        BY <1>9, ConcatEmptySeq
      <3> QED BY <1>8, <2>1, <3>1, <3>2
    <2>2. CASE k # 0
      <3>1. n + k \in 0 .. n + m /\ ~(n + k <= n) /\ (n + k) - n = k
        BY <1>1, <2>2
      <3> QED BY <3>1 DEF first
    <2> QED BY <2>1, <2>2
  <1>12. join \in [0 .. n + m -> Seq(L)]
    <2> SUFFICES ASSUME NEW k \in 0 .. n + m
                 PROVE  (IF k <= n THEN front[k] ELSE front[n] \o back[k - n]) \in Seq(L)
      OBVIOUS
    <2>1. CASE k <= n
      <3>1. k \in 0 .. n
        BY <1>1, <2>1
      <3> QED BY <1>8, <2>1, <3>1
    <2>2. CASE ~(k <= n)
      <3>1. k - n \in 0 .. m
        BY <1>1, <2>2
      <3>2. back[k - n] \in Seq(L)
        BY <1>8, <3>1
      <3>3. first \o back[k - n] \in Seq(L)
        BY <1>9, <3>2, ConcatProperties
      <3> QED BY <2>2, <3>3 DEF first
    <2> QED BY <2>1, <2>2
  <1> HIDE DEF join
  <1>13. ASSUME NEW k \in 1 .. n + m PROVE Follows(join, CodeLines(st), k)
    <2>1. CASE k <= n
      <3>1. k \in 1 .. n /\ k \in 0 .. n /\ k - 1 \in 0 .. n
        BY <1>1, <2>1
      <3>2. IsStep(L, front, CodeLines(s), k)
        BY <1>1, <1>3, <3>1, JoinStep
      <3>3. join[k] = front[k] /\ join[k - 1] = front[k - 1] /\ CodeLines(st)[k] = CodeLines(s)[k]
        BY <1>6, <1>10, <3>1
      <3> QED BY <3>2, <3>3 DEF IsStep, Follows
    <2>2. CASE ~(k <= n)
      <3> DEFINE i == k - n
                 before == back[i - 1]
                 piece == CodeLines(t)[i]
      <3>1. i \in 1 .. m /\ i \in 0 .. m /\ i - 1 \in 0 .. m /\ n + i = k /\ n + (i - 1) = k - 1
        BY <1>1, <2>2
      <3> HIDE DEF i
      <3>2. IsStep(L, back, CodeLines(t), i)
        BY <1>1, <1>4, <3>1, JoinStep
      <3>3. join[k] = first \o back[i] /\ join[k - 1] = first \o back[i - 1]
        <4>1. join[n + i] = first \o back[i] /\ join[n + (i - 1)] = first \o back[i - 1]
          BY <1>11, <3>1
        <4> QED BY <3>1, <4>1
      <3>4. CodeLines(st)[k] = piece
        BY <1>7, <3>1
      <3>5. before \in Seq(L) /\ piece \in Seq(L) /\ back[i] = before \o piece
        BY <3>2 DEF IsStep
      <3>6. join[k - 1] = first \o before
        BY <3>3
      <3> HIDE DEF before, piece
      <3>7. (first \o before) \o piece = first \o (before \o piece)
        <4>1. Associates(first, before, piece)
          BY <1>9, <3>5, Associative
        <4> QED BY <4>1 DEF Associates
      <3> QED BY <3>3, <3>4, <3>5, <3>6, <3>7 DEF Follows
    <2> QED BY <2>1, <2>2
  <1>14. Joined(L, n + m, CodeLines(st), join)
    <2>1. join[0] = <<>>
      <3>1. 0 \in 0 .. n
        BY <1>1
      <3>2. join[0] = front[0]
        BY <1>10, <3>1
      <3> QED BY <1>8, <3>2
    <2>2. n + m \in Nat
      BY <1>1
    <2> QED BY <1>5, <1>12, <1>13, <2>1, <2>2 DEF Joined, Joins
  <1>15. StripScaffoldMarkers(st) = join[n + m]
    <2>1. Joined(L, Len(st), CodeLines(st), join)
      BY <1>2, <1>14 DEF n, m
    <2>2. StripScaffoldMarkers(st) = join[Len(st)]
      BY <1>2, <2>1, StripJoins
    <2> QED BY <1>2, <2>2 DEF n, m
  <1>16. join[n + m] = first \o back[m]
    BY <1>1, <1>11
  <1>17. StripScaffoldMarkers(s) = first /\ StripScaffoldMarkers(t) = back[m]
    BY <1>3, <1>4, StripJoins DEF n, m, first
  <1> QED BY <1>15, <1>16, <1>17 DEF st

\* Nothing is stripped from an empty source.
LEMMA StripEmpty == StripScaffoldMarkers(<<>>) = <<>>
  <1>1. <<>> \in Seq({}) /\ Len(<<>>) = 0
    BY EmptySeq
  <1>2. PICK join : Joined({}, 0, CodeLines(<<>>), join)
    BY <1>1, CodeLinesTyped, AnyJoined
  <1>3. Joined({}, Len(<<>>), CodeLines(<<>>), join)
    BY <1>1, <1>2
  <1>4. StripScaffoldMarkers(<<>>) = join[Len(<<>>)]
    BY <1>1, <1>3, StripJoins
  <1> QED BY <1>1, <1>2, <1>4 DEF Joined, Joins

\* Of one line, its code is left.
LEMMA StripOne ==
    ASSUME NEW line
    PROVE  StripScaffoldMarkers(<<line>>) = CodeOf(line)
  <1> DEFINE L == {line}
             one == <<line>>
  <1>1. one \in Seq(L) /\ Len(one) = 1 /\ one[1] = line
    OBVIOUS
  <1> HIDE DEF one
  <1>2. PICK join : Joined(L, 1, CodeLines(one), join)
    BY <1>1, CodeLinesTyped, AnyJoined
  <1>3. IsStep(L, join, CodeLines(one), 1) /\ join[0] = <<>>
    <2> DEFINE code == CodeLines(one)
    <2>1. Joined(L, 1, code, join) /\ 1 \in Nat /\ 1 \in 1 .. 1
      BY <1>2
    <2> HIDE DEF code
    <2>2. IsStep(L, join, code, 1)
      BY <2>1, JoinStep, Zenon
    <2>3. join[0] = <<>>
      BY <2>1, Zenon DEF Joined, Joins
    <2> QED BY <2>2, <2>3 DEF code
  <1>4. CodeLines(one)[1] = CodeOf(line)
    BY <1>1 DEF CodeLines
  <1>5. join[1] = <<>> \o CodeOf(line) /\ CodeOf(line) \in Seq(L)
    BY <1>3, <1>4 DEF IsStep
  <1>6. join[1] = CodeOf(line)
    BY <1>5, ConcatEmptySeq
  <1>7. StripScaffoldMarkers(one) = join[1]
    BY <1>1, <1>2, StripJoins
  <1> QED BY <1>6, <1>7 DEF one

\* The joins of the lines of a source are its fronts.
LEMMA LinesJoined ==
    ASSUME NEW L, NEW source \in Seq(L),
           NEW lines \in [1 .. Len(source) -> Seq(L)],
           \A i \in 1 .. Len(source) : lines[i] = <<source[i]>>,
           NEW join, Joined(L, Len(source), lines, join)
    PROVE  join[Len(source)] = source
  <1> DEFINE n == Len(source)
             fronts == [k \in 0 .. n |-> SubSeq(source, 1, k)]
  <1>1. n \in Nat /\ \A i \in 1 .. n : source[i] \in L
    BY LenProperties, ElementOfSeq
  <1>2. fronts[0] = <<>>
    BY <1>1, SubSeqEmpty
  <1>3. ASSUME NEW k \in 1 .. n PROVE Follows(fronts, lines, k)
    <2>1. SubSeq(source, 1, k) = SubSeq(source, 1, k - 1) \o <<source[k]>>
      <3>1. 1 \in 1 .. Len(source) /\ k \in 1 .. Len(source)
        BY <1>1
      <3> QED BY <3>1, SubSeqRecursiveSecond
    <2>2. fronts[k] = SubSeq(source, 1, k) /\ fronts[k - 1] = SubSeq(source, 1, k - 1)
      BY <1>1
    <2> HIDE DEF fronts
    <2> QED BY <2>1, <2>2 DEF Follows
  <1>4. fronts[n] = source
    BY <1>1, SubSeqFull
  <1> HIDE DEF fronts, n
  <1>5. Joins(fronts, lines, n) /\ Joins(join, lines, n)
    BY <1>2, <1>3 DEF Joins, Joined, n
  <1>6. \A k \in 0 .. n : fronts[k] = join[k]
    BY <1>1, <1>5, JoinsAgree
  <1>7. n \in 0 .. n
    BY <1>1
  <1>8. fronts[n] = join[n]
    BY <1>6, <1>7
  <1> QED BY <1>4, <1>8 DEF n

\* Code stays as it is.
LEMMA StripCode ==
    ASSUME NEW L, NEW code \in Seq(L), \A i \in 1 .. Len(code) : code[i].kind = "code"
    PROVE  StripScaffoldMarkers(code) = code
  <1>1. Len(code) \in Nat
    BY LenProperties
  <1>2. PICK join : Joined(L, Len(code), CodeLines(code), join)
    BY <1>1, CodeLinesTyped, AnyJoined
  <1>3. \A i \in 1 .. Len(code) : CodeLines(code)[i] = <<code[i]>>
    BY DEF CodeLines, CodeOf
  <1>4. join[Len(code)] = code
    BY <1>2, <1>3, CodeLinesTyped, LinesJoined
  <1> QED BY <1>2, <1>4, StripJoins

\* The code of a join is the join of the code.
LEMMA StripOfJoin ==
    ASSUME NEW L, NEW n \in Nat, NEW s, NEW join, Joined(L, n, s, join)
    PROVE  StripScaffoldMarkers(join[n]) = FlattenSeq([i \in 1 .. n |-> StripScaffoldMarkers(s[i])])
  <1> DEFINE stripped == [k \in 0 .. n |-> StripScaffoldMarkers(join[k])]
             code == [i \in 1 .. n |-> StripScaffoldMarkers(s[i])]
  <1>1. code \in [1 .. n -> Seq(L)] /\ stripped \in [0 .. n -> Seq(L)]
    <2>1. s \in [1 .. n -> Seq(L)] /\ join \in [0 .. n -> Seq(L)]
      BY DEF Joined
    <2> QED BY <2>1, StripTyped
  <1>2. stripped[0] = <<>>
    <2>1. join[0] = <<>>
      BY DEF Joined, Joins
    <2> QED BY <2>1, StripEmpty
  <1>3. ASSUME NEW k \in 1 .. n PROVE Follows(stripped, code, k)
    <2>1. IsStep(L, join, s, k)
      BY JoinStep
    <2>2. StripScaffoldMarkers(join[k - 1] \o s[k]) =
            StripScaffoldMarkers(join[k - 1]) \o StripScaffoldMarkers(s[k])
      BY <2>1, StripConcat DEF IsStep
    <2>3. /\ stripped[k] = StripScaffoldMarkers(join[k])
          /\ stripped[k - 1] = StripScaffoldMarkers(join[k - 1])
          /\ code[k] = StripScaffoldMarkers(s[k])
      OBVIOUS
    <2> HIDE DEF stripped, code
    <2> QED BY <2>1, <2>2, <2>3 DEF IsStep, Follows
  <1>4. stripped[n] = StripScaffoldMarkers(join[n])
    OBVIOUS
  <1> HIDE DEF stripped, code
  <1>5. Joined(L, n, code, stripped)
    BY <1>1, <1>2, <1>3 DEF Joined, Joins
  <1>6. FlattenSeq(code) = stripped[n]
    BY <1>5, JoinedFlat
  <1> QED BY <1>4, <1>6 DEF code

-----------------------------------------------------------------------------
(* What the recursive definitions define *)

\* A line that no region before the n-th has inside.
Open(source, region, n, line) ==
    {i \in PositionsOf(source, line) : \A m \in 1 .. n - 1 : ~Inside(i, region[m])}

RegionOf(source, sections, region, n) ==
    {r \in Open(source, region, n, Begin(sections[n]))
           \X Open(source, region, n, End(sections[n])) :
        /\ Open(source, region, n, Begin(sections[n])) = {r[1]}
        /\ Open(source, region, n, End(sections[n])) = {r[2]}
        /\ r[1] < r[2]}

\* A region depends on the regions before it and on no other.
LEMMA RegionDepends ==
    ASSUME NEW source, NEW sections, NEW n \in Nat, NEW g, NEW h,
           \A m \in 1 .. n - 1 : g[m] = h[m]
    PROVE  RegionOf(source, sections, g, n) = RegionOf(source, sections, h, n)
  <1>1. \A line : Open(source, g, n, line) = Open(source, h, n, line)
    BY DEF Open
  <1> QED BY <1>1 DEF RegionOf

\* The defining equation of Regions.
LEMMA RegionsDefined ==
    ASSUME NEW source, NEW sections, Len(sections) \in Nat
    PROVE  Regions(source, sections) =
             [n \in 1 .. Len(sections) |->
                RegionOf(source, sections, Regions(source, sections), n)]
  <1> DEFINE last == Len(sections)
             Def(k, g) == [n \in 1 .. k |-> RegionOf(source, sections, g, n)]
             S == {k \in 0 .. last : \E g : g = Def(k, g)}
  <1>1. 0 \in S
    <2> DEFINE none == [n \in 1 .. 0 |-> {}]
    <2>1. none = Def(0, none)
      OBVIOUS
    <2> HIDE DEF none, Def
    <2> QED BY <2>1
  <1>2. ASSUME NEW k \in 0 .. last - 1, k \in S PROVE k + 1 \in S
    <2>1. PICK g : g = Def(k, g)
      BY <1>2
    <2> DEFINE h == [n \in 1 .. k + 1 |-> RegionOf(source, sections, g, n)]
    <2>2. \A n \in 1 .. k : g[n] = h[n]
      BY <2>1
    <2>3. ASSUME NEW n \in 1 .. k + 1
          PROVE  RegionOf(source, sections, g, n) = RegionOf(source, sections, h, n)
      <3>1. \A m \in 1 .. n - 1 : g[m] = h[m]
        BY <2>2
      <3> HIDE DEF h
      <3> QED BY <3>1, RegionDepends
    <2>4. h = Def(k + 1, h)
      BY <2>3
    <2> HIDE DEF h
    <2> QED BY <2>4
  <1> HIDE DEF S
  <1>3. last \in S
    <2>1. 0 \in Nat /\ last \in 0 .. last /\ last \in Nat
      OBVIOUS
    <2> HIDE DEF last
    <2>2. \A k \in 0 .. last : k \in S
      BY <1>1, <1>2, <2>1, UpTo, Zenon
    <2> QED BY <2>1, <2>2
  <1>4. \E g : g = Def(last, g)
    BY <1>3 DEF S
  <1>5. Regions(source, sections) = CHOOSE g : g = Def(last, g)
    BY DEF Regions, RegionOf, Open
  <1> HIDE DEF Def
  <1>6. Regions(source, sections) = Def(last, Regions(source, sections))
    BY <1>4, <1>5
  <1> QED BY <1>6 DEF Def

\* The same, for one region.
LEMMA RegionAt ==
    ASSUME NEW source, NEW sections, Len(sections) \in Nat, NEW n \in 1 .. Len(sections)
    PROVE  Regions(source, sections)[n] =
             RegionOf(source, sections, Regions(source, sections), n)
  <1> DEFINE region == Regions(source, sections)
  <1>1. region = [k \in 1 .. Len(sections) |-> RegionOf(source, sections, region, k)]
    BY RegionsDefined
  <1> HIDE DEF region
  <1>2. region[n] = RegionOf(source, sections, region, n)
    BY <1>1
  <1> QED BY <1>2 DEF region

\* The source after the first n sections.
RewrittenBy(source, sections, content, f, n) ==
    IF n = 0 THEN source
    ELSE IF f[n - 1] = Damaged THEN Damaged
         ELSE ReplaceMarkedRegion(f[n - 1], sections[n], content[sections[n]])

\* The defining equation of RewriteMarkedSource.
LEMMA RewritingDefined ==
    ASSUME NEW source, NEW sections, NEW content, Len(sections) \in Nat
    PROVE  \E f : /\ \A n \in 0 .. Len(sections) :
                        f[n] = RewrittenBy(source, sections, content, f, n)
                  /\ RewriteMarkedSource(source, sections, content) =
                        StripScaffoldMarkers(f[Len(sections)])
  <1> DEFINE last == Len(sections)
             Def(k, g) == [n \in 0 .. k |-> RewrittenBy(source, sections, content, g, n)]
             S == {k \in 0 .. last : \E g : g = Def(k, g)}
  <1>1. 0 \in S
    <2> DEFINE unchanged == [n \in 0 .. 0 |-> source]
    <2>1. unchanged = Def(0, unchanged)
      BY DEF RewrittenBy
    <2> QED BY <2>1
  <1>2. ASSUME NEW k \in 0 .. last - 1, k \in S PROVE k + 1 \in S
    <2>1. PICK g : g = Def(k, g)
      BY <1>2
    <2> DEFINE h == [n \in 0 .. k + 1 |-> RewrittenBy(source, sections, content, g, n)]
    <2>2. \A n \in 0 .. k : g[n] = h[n]
      BY <2>1
    <2>3. ASSUME NEW n \in 0 .. k + 1
          PROVE  RewrittenBy(source, sections, content, g, n) =
                 RewrittenBy(source, sections, content, h, n)
      <3>1. n = 0 \/ g[n - 1] = h[n - 1]
        <4>1. n = 0 \/ n - 1 \in 0 .. k
          OBVIOUS
        <4> HIDE DEF h
        <4> QED BY <2>2, <4>1
      <3> HIDE DEF h
      <3> QED BY <3>1 DEF RewrittenBy
    <2>4. h = Def(k + 1, h)
      BY <2>3
    <2> HIDE DEF h
    <2> QED BY <2>4
  <1> HIDE DEF S
  <1>3. last \in S
    <2>1. 0 \in Nat /\ last \in 0 .. last /\ last \in Nat
      OBVIOUS
    <2> HIDE DEF last
    <2>2. \A k \in 0 .. last : k \in S
      BY <1>1, <1>2, <2>1, UpTo, Zenon
    <2> QED BY <2>1, <2>2
  <1>4. \E g : g = Def(last, g)
    BY <1>3 DEF S
  <1> DEFINE f == CHOOSE h : h = Def(last, h)
  <1>5. RewriteMarkedSource(source, sections, content) = StripScaffoldMarkers(f[last])
    BY DEF RewriteMarkedSource, RewrittenBy
  <1> HIDE DEF Def
  <1>6. f = Def(last, f)
    BY <1>4
  <1> HIDE DEF f
  <1>7. \A n \in 0 .. last : f[n] = RewrittenBy(source, sections, content, f, n)
    BY <1>6 DEF Def
  <1> QED BY <1>5, <1>7

-----------------------------------------------------------------------------
(* The source after the first sections, piece by piece *)

Dropped(region, m, i) == \E k \in 1 .. m : Inside(i, region[k])

Begun(region, m, i) == \E k \in 1 .. m : \E r \in region[k] : r[1] = i

\* What has become of a line after m sections.
Piece(source, content, region, m, i) ==
    IF Dropped(region, m, i) THEN <<>>
    ELSE IF Begun(region, m, i) THEN <<source[i]>> \o content[source[i].section]
    ELSE <<source[i]>>

Pieces(source, content, region, m) ==
    [i \in 1 .. Len(source) |-> Piece(source, content, region, m, i)]

IsCode(lines) == \A p \in 1 .. Len(lines) : lines[p].kind = "code"

\* Sections that are rewritten with code, each once.
Rewritable(L, source, sections, content) ==
    /\ source \in Seq(L)
    /\ Len(sections) \in Nat
    /\ \A i, j \in 1 .. Len(sections) : sections[i] = sections[j] => i = j
    /\ \A i \in 1 .. Len(sections) :
        content[sections[i]] \in Seq(L) /\ IsCode(content[sections[i]])

\* The n-th region and its markers.
RegionIs(source, sections, region, n, r) ==
    /\ r[1] \in 1 .. Len(source) /\ r[2] \in 1 .. Len(source) /\ r[1] < r[2]
    /\ region[n] = {r}
    /\ source[r[1]] = Begin(sections[n])
    /\ Open(source, region, n, Begin(sections[n])) = {r[1]}
    /\ Open(source, region, n, End(sections[n])) = {r[2]}
    /\ ~Dropped(region, n - 1, r[1]) /\ ~Dropped(region, n - 1, r[2])

\* What is known of a region.
LEMMA RegionFacts ==
    ASSUME NEW source, DOMAIN source = 1 .. Len(source),
           NEW sections, Len(sections) \in Nat,
           NEW n \in 1 .. Len(sections), NEW r \in Regions(source, sections)[n]
    PROVE  RegionIs(source, sections, Regions(source, sections), n, r)
  <1> DEFINE region == Regions(source, sections)
             begins == Open(source, region, n, Begin(sections[n]))
             ends == Open(source, region, n, End(sections[n]))
  <1>1. region[n] = RegionOf(source, sections, region, n)
    BY RegionAt
  <1> HIDE DEF region
  <1>2. r \in begins \X ends /\ begins = {r[1]} /\ ends = {r[2]} /\ r[1] < r[2]
    BY <1>1 DEF RegionOf, region
  <1>3. region[n] = {q \in begins \X ends : begins = {q[1]} /\ ends = {q[2]} /\ q[1] < q[2]}
    BY <1>1 DEF RegionOf
  <1>4. region[n] = {r}
    BY <1>2, <1>3
  <1>5. /\ r[1] \in DOMAIN source /\ source[r[1]] = Begin(sections[n])
        /\ \A m \in 1 .. n - 1 : ~Inside(r[1], region[m])
    <2>1. r[1] \in begins
      BY <1>2
    <2> QED BY <2>1 DEF Open, PositionsOf
  <1>6. r[2] \in DOMAIN source /\ \A m \in 1 .. n - 1 : ~Inside(r[2], region[m])
    <2>1. r[2] \in ends
      BY <1>2
    <2> QED BY <2>1 DEF Open, PositionsOf
  <1> QED BY <1>2, <1>4, <1>5, <1>6 DEF region, Dropped, RegionIs

\* The begin markers of regions tell their section.
LEMMA BegunBy ==
    ASSUME NEW source, DOMAIN source = 1 .. Len(source),
           NEW sections, Len(sections) \in Nat,
           NEW m \in 0 .. Len(sections), NEW i,
           Begun(Regions(source, sections), m, i)
    PROVE  \E k \in 1 .. m : k \in 1 .. Len(sections)
              /\ source[i] = Begin(sections[k]) /\ source[i].section = sections[k]
  <1>1. PICK k \in 1 .. m : \E r \in Regions(source, sections)[k] : r[1] = i
    BY DEF Begun
  <1>2. k \in 1 .. Len(sections)
    OBVIOUS
  <1>3. source[i] = Begin(sections[k])
    <2>1. PICK r \in Regions(source, sections)[k] : r[1] = i
      BY <1>1
    <2>2. source[r[1]] = Begin(sections[k])
      BY <1>2, RegionFacts DEF RegionIs
    <2> QED BY <2>1, <2>2
  <1>4. Begin(sections[k]).section = sections[k]
    BY DEF Begin, Marker
  <1> QED BY <1>2, <1>3, <1>4

\* A line that is kept is in front of its piece, before code; else there is no piece.
LEMMA PieceFacts ==
    ASSUME NEW L, NEW source, NEW sections, NEW content,
           Rewritable(L, source, sections, content),
           NEW m \in 0 .. Len(sections), NEW i \in 1 .. Len(source)
    PROVE  LET region == Regions(source, sections)
               piece == Piece(source, content, region, m, i) IN
           /\ piece \in Seq(L)
           /\ Dropped(region, m, i) => piece = <<>>
           /\ ~Dropped(region, m, i) =>
                /\ piece # <<>> /\ piece[1] = source[i]
                /\ \A p \in 1 .. Len(piece) : p = 1 \/ piece[p].kind = "code"
  <1> DEFINE region == Regions(source, sections)
             piece == Piece(source, content, region, m, i)
             code == content[source[i].section]
  <1>1. /\ source \in Seq(L) /\ DOMAIN source = 1 .. Len(source) /\ Len(sections) \in Nat
        /\ source[i] \in L
    BY LenProperties, ElementOfSeq DEF Rewritable
  <1>2. CASE Dropped(region, m, i)
    BY <1>2, EmptySeq DEF Piece
  <1>3. CASE ~Dropped(region, m, i) /\ Begun(region, m, i)
    <2>1. code \in Seq(L) /\ IsCode(code)
      BY <1>1, <1>3, BegunBy DEF Rewritable
    <2>2. piece = <<source[i]>> \o code
      BY <1>3 DEF Piece
    <2>3. <<source[i]>> \in Seq(L) /\ Len(<<source[i]>>) = 1 /\ <<source[i]>>[1] = source[i]
      BY <1>1
    <2> HIDE DEF piece, code
    <2>4. /\ piece \in Seq(L) /\ Len(piece) = 1 + Len(code)
          /\ \A p \in 1 .. 1 + Len(code) :
                piece[p] = IF p <= 1 THEN <<source[i]>>[p] ELSE code[p - 1]
      BY <2>1, <2>2, <2>3, ConcatProperties
    <2>5. Len(code) \in Nat
      BY <2>1, LenProperties
    <2>6. piece # <<>> /\ piece[1] = source[i]
      BY <2>3, <2>4, <2>5, EmptySeq
    <2>7. ASSUME NEW p \in 1 .. Len(piece), p # 1 PROVE piece[p].kind = "code"
      <3>1. p - 1 \in 1 .. Len(code) /\ ~(p <= 1) /\ p \in 1 .. 1 + Len(code)
        BY <2>4, <2>5, <2>7
      <3> QED BY <2>1, <2>4, <3>1 DEF IsCode
    <2> QED BY <1>3, <2>4, <2>6, <2>7 DEF piece
  <1>4. CASE ~Dropped(region, m, i) /\ ~Begun(region, m, i)
    <2>1. piece = <<source[i]>>
      BY <1>4 DEF Piece
    <2> QED BY <1>1, <1>4, <2>1
  <1> QED BY <1>2, <1>3, <1>4

\* The markers that are left after m sections.
LEMMA MarkersFound ==
    ASSUME NEW L, NEW source, NEW sections, NEW content,
           Rewritable(L, source, sections, content),
           NEW m \in 0 .. Len(sections),
           NEW join,
           Joined(L, Len(source), Pieces(source, content, Regions(source, sections), m), join),
           NEW line, line.kind # "code"
    PROVE  PositionsOf(join[Len(source)], line) =
             PlacesOf(join, Open(source, Regions(source, sections), m + 1, line))
  <1> DEFINE region == Regions(source, sections)
             n == Len(source)
             pieces == Pieces(source, content, region, m)
             fronts == Open(source, region, m + 1, line)
  <1>1. n \in Nat /\ DOMAIN source = 1 .. n
    BY LenProperties DEF Rewritable
  <1>2. pieces \in [1 .. n -> Seq(L)]
    BY PieceFacts DEF Pieces
  <1>3. \A i : i \in fronts <=> i \in 1 .. n /\ source[i] = line /\ ~Dropped(region, m, i)
    BY <1>1 DEF Open, PositionsOf, Dropped
  <1>4. \A i \in 1 .. n :
          /\ Dropped(region, m, i) => pieces[i] = <<>>
          /\ ~Dropped(region, m, i) =>
                /\ pieces[i] # <<>> /\ pieces[i][1] = source[i]
                /\ \A p \in 1 .. Len(pieces[i]) : p = 1 \/ pieces[i][p].kind = "code"
    BY PieceFacts DEF Pieces
  <1> HIDE DEF region, n, pieces, fronts
  <1>5. fronts \in SUBSET (1 .. n) /\ \A i \in fronts : pieces[i] # <<>> /\ pieces[i][1] = line
    BY <1>3, <1>4
  <1>6. ASSUME NEW i \in 1 .. n, NEW p \in 1 .. Len(pieces[i]), pieces[i][p] = line
        PROVE  i \in fronts /\ p = 1
    <2>1. pieces[i] # <<>>
      BY EmptySeq
    <2>2. ~Dropped(region, m, i)
      BY <1>4, <2>1
    <2>3. p = 1
      BY <1>4, <1>6, <2>2
    <2> QED BY <1>3, <1>4, <1>6, <2>2, <2>3
  <1>7. Joined(L, n, pieces, join)
    BY DEF n, pieces, region
  <1>8. PositionsOf(join[n], line) = PlacesOf(join, fronts)
    <2>1. OnlyFront(pieces, n, line, fronts)
      BY <1>5, <1>6 DEF OnlyFront
    <2>2. n \in Nat /\ fronts \in SUBSET (1 .. n)
      BY <1>1, <1>5
    <2> QED BY <1>7, <2>1, <2>2, FrontsFound
  <1> QED BY <1>8 DEF n, fronts, region

-----------------------------------------------------------------------------
(* One more section *)

\* Lines that are kept are in the order of the source.
LEMMA PlacesOrdered ==
    ASSUME NEW L, NEW source, NEW sections, NEW content,
           Rewritable(L, source, sections, content),
           NEW m \in 0 .. Len(sections),
           NEW join,
           Joined(L, Len(source), Pieces(source, content, Regions(source, sections), m), join),
           NEW i \in 1 .. Len(source), ~Dropped(Regions(source, sections), m, i),
           NEW k \in 1 .. Len(source), i < k
    PROVE  /\ Place(join, i) \in Nat /\ Place(join, k) \in Nat
           /\ Place(join, i) < Place(join, k)
  <1> DEFINE region == Regions(source, sections)
             n == Len(source)
             pieces == Pieces(source, content, region, m)
  <1>1. n \in Nat
    BY LenProperties DEF Rewritable
  <1>2. pieces[i] # <<>>
    BY PieceFacts DEF Pieces
  <1> HIDE DEF pieces
  <1>3. Joined(L, n, pieces, join)
    BY DEF pieces
  <1> QED BY <1>1, <1>2, <1>3, FrontsOrdered

\* A place in a join is one of its positions.
LEMMA PlaceTyped ==
    ASSUME NEW L, NEW n \in Nat, NEW s, NEW join, Joined(L, n, s, join), NEW i \in 1 .. n
    PROVE  Place(join, i) \in Int
  <1>1. InPlace(join, n, s, i)
    BY JoinHas
  <1> QED BY <1>1 DEF InPlace, Place

Apart(join, lines) == \A i, k \in lines : i < k => Place(join, i) # Place(join, k)

IsOne(join, lines, p) == \E i : lines = {i} /\ Place(join, i) = p

\* The places of a line are one if the line is.
LEMMA OneOf ==
    ASSUME NEW join, NEW lines, lines \subseteq Nat, NEW p, PlacesOf(join, lines) = {p},
           Apart(join, lines)
    PROVE  IsOne(join, lines, p)
  <1>1. \A i \in lines : Place(join, i) = p
    BY DEF PlacesOf
  <1>2. PICK i \in lines : Place(join, i) = p
    BY DEF PlacesOf
  <1>3. ASSUME NEW k \in lines PROVE k = i
    <2>1. i \in Nat /\ k \in Nat /\ ~(i < k) /\ ~(k < i)
      BY <1>1 DEF Apart
    <2> QED BY <2>1
  <1> QED BY <1>2, <1>3 DEF IsOne

\* A section without a region is not replaced.
LEMMA NoRegion ==
    ASSUME NEW L, NEW source, NEW sections, NEW content,
           Rewritable(L, source, sections, content),
           NEW m \in 0 .. Len(sections) - 1,
           NEW join,
           Joined(L, Len(source), Pieces(source, content, Regions(source, sections), m), join),
           Regions(source, sections)[m + 1] = {},
           NEW code
    PROVE  ReplaceMarkedRegion(join[Len(source)], sections[m + 1], code) = Damaged
  <1> DEFINE region == Regions(source, sections)
             section == sections[m + 1]
             begins == Open(source, region, m + 1, Begin(section))
             ends == Open(source, region, m + 1, End(section))
             result == join[Len(source)]
             In == 1 .. Len(source)
  <1>1. /\ source \in Seq(L) /\ DOMAIN source = In /\ Len(sections) \in Nat
        /\ m + 1 \in 1 .. Len(sections) /\ m \in 0 .. Len(sections) /\ (m + 1) - 1 = m
        /\ Len(source) \in Nat
    BY LenProperties DEF Rewritable
  <1>2. Begin(section).kind # "code" /\ End(section).kind # "code"
    BY DEF Begin, End, Marker
  <1>3. PositionsOf(result, Begin(section)) = PlacesOf(join, begins)
    BY <1>1, <1>2, MarkersFound
  <1>4. PositionsOf(result, End(section)) = PlacesOf(join, ends)
    BY <1>1, <1>2, MarkersFound
  <1>5. \A i \in begins \cup ends : i \in In /\ ~Dropped(region, m, i)
    BY <1>1 DEF Open, PositionsOf, Dropped
  <1>6. {r \in begins \X ends : begins = {r[1]} /\ ends = {r[2]} /\ r[1] < r[2]} = {}
    <2>1. region[m + 1] = RegionOf(source, sections, region, m + 1)
      BY <1>1, RegionAt
    <2> QED BY <2>1 DEF RegionOf
  <1>7. ASSUME NEW i \in In, NEW k \in In, ~Dropped(region, m, i), i < k
        PROVE  Place(join, i) < Place(join, k) /\ Place(join, i) \in Nat /\ Place(join, k) \in Nat
    BY <1>1, <1>7, PlacesOrdered
  <1>8. \A i \in In : i \in Nat
    BY <1>1
  <1> HIDE DEF begins, ends, result, region, In
  <1>9. \A i, k \in begins \cup ends : i < k =>
            /\ Place(join, i) < Place(join, k) /\ Place(join, i) # Place(join, k)
            /\ ~(Place(join, k) < Place(join, i))
    <2> SUFFICES ASSUME NEW i \in begins \cup ends, NEW k \in begins \cup ends, i < k
                 PROVE  /\ Place(join, i) < Place(join, k) /\ Place(join, i) # Place(join, k)
                        /\ ~(Place(join, k) < Place(join, i))
      OBVIOUS
    <2>1. i \in In /\ k \in In /\ ~Dropped(region, m, i)
      BY <1>5
    <2>2. Place(join, i) < Place(join, k) /\ Place(join, i) \in Nat /\ Place(join, k) \in Nat
      BY <1>7, <2>1
    <2> QED BY <2>2
  <1>10. begins \subseteq Nat /\ ends \subseteq Nat
    BY <1>5, <1>8
  <1>11. ASSUME NEW b \in PositionsOf(result, Begin(section)),
                NEW e \in PositionsOf(result, End(section)),
                PositionsOf(result, Begin(section)) = {b},
                PositionsOf(result, End(section)) = {e}, b < e
         PROVE  FALSE
    <2>1. PICK i : begins = {i} /\ Place(join, i) = b
      <3>1. PlacesOf(join, begins) = {b}
        BY <1>3, <1>11
      <3>2. Apart(join, begins)
        BY <1>9 DEF Apart
      <3>3. IsOne(join, begins, b)
        BY <1>10, <3>1, <3>2, OneOf
      <3> QED BY <3>3 DEF IsOne
    <2>2. PICK k : ends = {k} /\ Place(join, k) = e
      <3>1. PlacesOf(join, ends) = {e}
        BY <1>4, <1>11
      <3>2. Apart(join, ends)
        BY <1>9 DEF Apart
      <3>3. IsOne(join, ends, e)
        BY <1>10, <3>1, <3>2, OneOf
      <3> QED BY <3>3 DEF IsOne
    <2>3. i \in Nat /\ k \in Nat /\ i \in begins \cup ends /\ k \in begins \cup ends
      BY <1>10, <2>1, <2>2
    <2>4. ~(k < i)
      BY <1>9, <1>11, <2>1, <2>2, <2>3
    <2>5. i # k
      <3> SUFFICES ASSUME i = k PROVE FALSE
        OBVIOUS
      <3>1. b = e
        BY <2>1, <2>2
      <3>2. b \in Int
        BY <1>1, <1>11, <2>1, <2>3, PlaceTyped, <1>5 DEF In
      <3> QED BY <1>11, <3>1, <3>2
    <2>6. <<i, k>> \in {r \in begins \X ends : begins = {r[1]} /\ ends = {r[2]} /\ r[1] < r[2]}
      BY <2>1, <2>2, <2>3, <2>4, <2>5
    <2> QED BY <1>6, <2>6
  <1>12. ReplaceMarkedRegion(result, section, code) = Damaged
    BY <1>11 DEF ReplaceMarkedRegion
  <1> QED BY <1>12 DEF result

\* One more region replaced.
LEMMA NextRegion ==
    ASSUME NEW L, NEW source, NEW sections, NEW content,
           Rewritable(L, source, sections, content),
           NEW m \in 0 .. Len(sections) - 1,
           NEW join,
           Joined(L, Len(source), Pieces(source, content, Regions(source, sections), m), join),
           NEW next,
           Joined(L, Len(source), Pieces(source, content, Regions(source, sections), m + 1), next),
           Regions(source, sections)[m + 1] # {}
    PROVE  ReplaceMarkedRegion(join[Len(source)], sections[m + 1], content[sections[m + 1]])
             = next[Len(source)]
  <1> DEFINE region == Regions(source, sections)
             n == Len(source)
             section == sections[m + 1]
             code == content[section]
             s == Pieces(source, content, region, m)
             t == Pieces(source, content, region, m + 1)
             result == join[n]
  <1>1. /\ source \in Seq(L) /\ DOMAIN source = 1 .. n /\ Len(sections) \in Nat /\ n \in Nat
        /\ m + 1 \in 1 .. Len(sections) /\ m \in 0 .. Len(sections)
        /\ m + 1 \in 0 .. Len(sections) /\ (m + 1) - 1 = m
        /\ code \in Seq(L)
    BY LenProperties DEF Rewritable
  <1>2. PICK r : r \in region[m + 1]
    OBVIOUS
  <1> DEFINE b == r[1]
             e == r[2]
             begins == Open(source, region, m + 1, Begin(section))
             ends == Open(source, region, m + 1, End(section))
  <1>3. /\ b \in 1 .. n /\ e \in 1 .. n /\ b < e /\ region[m + 1] = {r}
        /\ source[b] = Begin(section) /\ begins = {b} /\ ends = {e}
        /\ ~Dropped(region, m, b) /\ ~Dropped(region, m, e)
    <2>1. /\ b \in 1 .. n /\ e \in 1 .. n /\ b < e /\ region[m + 1] = {r}
          /\ source[b] = Begin(section) /\ begins = {b} /\ ends = {e}
          /\ ~Dropped(region, (m + 1) - 1, b) /\ ~Dropped(region, (m + 1) - 1, e)
      <3>1. RegionIs(source, sections, region, m + 1, r)
        BY <1>1, <1>2, RegionFacts
      <3> QED BY <3>1 DEF RegionIs
    <2>2. (m + 1) - 1 = m
      OBVIOUS
    <2> QED BY <2>1, <2>2
  <1>4. s \in [1 .. n -> Seq(L)] /\ t \in [1 .. n -> Seq(L)]
    BY <1>1, PieceFacts DEF Pieces
  <1>5. \A i : Dropped(region, m + 1, i) <=> Dropped(region, m, i) \/ (b < i /\ i < e)
    <2> HIDE DEF region
    <2>1. \A k : k \in 1 .. m + 1 <=> k \in 1 .. m \/ k = m + 1
      BY <1>1
    <2>2. \A i : Inside(i, region[m + 1]) <=> b < i /\ i < e
      BY <1>3 DEF Inside
    <2> QED BY <2>1, <2>2 DEF Dropped
  <1>6. \A i : Begun(region, m + 1, i) <=> Begun(region, m, i) \/ i = b
    <2> HIDE DEF region
    <2>1. \A k : k \in 1 .. m + 1 <=> k \in 1 .. m \/ k = m + 1
      BY <1>1
    <2>2. \A i : (\E q \in region[m + 1] : q[1] = i) <=> i = b
      BY <1>3
    <2> DEFINE starts(k, i) == \E q \in region[k] : q[1] = i
    <2>3. \A i : starts(m + 1, i) <=> i = b
      BY <2>2
    <2>4. \A i, j : Begun(region, j, i) <=> \E k \in 1 .. j : starts(k, i)
      BY DEF Begun
    <2> HIDE DEF starts
    <2>5. \A i : (\E k \in 1 .. m + 1 : starts(k, i)) <=> (\E k \in 1 .. m : starts(k, i)) \/ i = b
      <3> TAKE i
      <3>1. (\E k \in 1 .. m + 1 : starts(k, i)) <=> (\E k \in 1 .. m : starts(k, i)) \/ starts(m + 1, i)
        BY <2>1
      <3> QED BY <2>3, <3>1
    <2> QED BY <2>4, <2>5
  <1>7. source[b].section = section
    BY <1>3 DEF Begin, Marker
  <1>8. ~Begun(region, m, b)
    <2> SUFFICES ASSUME Begun(region, m, b) PROVE FALSE
      OBVIOUS
    <2>1. PICK k \in 1 .. m : k \in 1 .. Len(sections) /\ source[b].section = sections[k]
      <3> HIDE DEF b
      <3>1. /\ DOMAIN source = 1 .. Len(source) /\ Len(sections) \in Nat
            /\ m \in 0 .. Len(sections) /\ Begun(Regions(source, sections), m, b)
        BY <1>1
      <3>2. \E k \in 1 .. m : k \in 1 .. Len(sections)
              /\ source[b] = Begin(sections[k]) /\ source[b].section = sections[k]
        BY ONLY <3>1, BegunBy
      <3> QED BY <3>2
    <2>2. k = m + 1
      BY <1>1, <1>7, <2>1 DEF Rewritable
    <2> QED BY <1>1, <2>1, <2>2
  <1> HIDE DEF region
  <1>9. s[b] = <<source[b]>>
    BY <1>3, <1>8 DEF Pieces, Piece
  <1>10. t[b] = <<source[b]>> \o code
    <2>1. ~Dropped(region, m + 1, b) /\ Begun(region, m + 1, b)
      <3>1. ~(b < b)
        BY <1>3
      <3> QED BY <1>3, <1>5, <1>6, <3>1
    <2> QED BY <1>3, <1>7, <2>1 DEF Pieces, Piece
  <1>11. EmptyIn(t, b + 1, e - 1)
    <2> SUFFICES ASSUME NEW i \in b + 1 .. e - 1 PROVE t[i] = <<>>
      BY DEF EmptyIn
    <2>1. i \in 1 .. n /\ b < i /\ i < e
      BY <1>3
    <2> QED BY <1>5, <2>1 DEF Pieces, Piece
  <1>12. ASSUME NEW i \in 1 .. n, i < b \/ e <= i PROVE t[i] = s[i]
    <2>1. (Dropped(region, m + 1, i) <=> Dropped(region, m, i))
          /\ (Begun(region, m + 1, i) <=> Begun(region, m, i))
      BY <1>3, <1>5, <1>6, <1>12
    <2> QED BY <2>1 DEF Pieces, Piece
  <1>13. source[b] \in L
    BY <1>1, <1>3, ElementOfSeq
  <1> DEFINE first == Place(join, b)
             last == Place(join, e)
  <1>14. /\ PositionsOf(result, Begin(section)) = {first}
         /\ PositionsOf(result, End(section)) = {last}
    <2>1. Begin(section).kind # "code" /\ End(section).kind # "code"
      BY DEF Begin, End, Marker
    <2>2. PositionsOf(result, Begin(section)) = PlacesOf(join, begins)
      BY <1>1, <2>1, MarkersFound DEF region
    <2>3. PositionsOf(result, End(section)) = PlacesOf(join, ends)
      BY <1>1, <2>1, MarkersFound DEF region
    <2>4. begins = {b} /\ ends = {e}
      BY <1>3
    <2> HIDE DEF begins, ends
    <2> QED BY <2>2, <2>3, <2>4 DEF PlacesOf
  <1>15. first < last
    BY <1>1, <1>3, PlacesOrdered DEF region
  <1> HIDE DEF first, last
  <1>16. ReplaceMarkedRegion(result, section, code) = Splice(result, first, code, last)
    BY <1>14, <1>15 DEF ReplaceMarkedRegion, Splice
  <1>17. Joined(L, n, s, join) /\ Joined(L, n, t, next)
    BY DEF region
  <1>18. b \in Nat /\ e \in Nat
    BY <1>1, <1>3
  <1> HIDE DEF s, t, n, b, e, code
  <1>19. SameIn(s, t, 1, b - 1)
    BY <1>1, <1>3, <1>12, <1>18 DEF SameIn
  <1>20. SameIn(s, t, e, n)
    BY <1>1, <1>3, <1>12, <1>18 DEF SameIn
  <1> DEFINE line == source[b]
  <1>21. Splices(L, n, s, t, b, e, line, code)
    BY <1>1, <1>3, <1>9, <1>10, <1>11, <1>13, <1>19, <1>20 DEF Splices
  <1> HIDE DEF line
  <1>22. Splice(join[n], Place(join, b), code, Place(join, e)) = next[n]
    BY <1>1, <1>17, <1>21, Spliced
  <1> QED BY <1>16, <1>22 DEF n, code, first, last

-----------------------------------------------------------------------------
(* One section after the other *)

\* Pieces are sequences of lines.
LEMMA PiecesTyped ==
    ASSUME NEW L, NEW source, NEW sections, NEW content,
           Rewritable(L, source, sections, content), NEW m \in 0 .. Len(sections)
    PROVE  Pieces(source, content, Regions(source, sections), m) \in [1 .. Len(source) -> Seq(L)]
  BY PieceFacts DEF Pieces

\* A rewriting that has failed stays so.
LEMMA NothingToReplace ==
    ASSUME NEW section, NEW code
    PROVE  ReplaceMarkedRegion(Damaged, section, code) = Damaged
  <1>1. \A line : PositionsOf(Damaged, line) = {}
    BY DEF PositionsOf, Damaged
  <1> QED BY <1>1 DEF ReplaceMarkedRegion

Found(source, sections, m) == \A k \in 1 .. m : Regions(source, sections)[k] # {}

\* What the source is after m sections: its pieces, if all of these had a region.
After(L, source, sections, content, m, lines) ==
    IF Found(source, sections, m)
    THEN \E join :
            /\ Joined(L, Len(source), Pieces(source, content, Regions(source, sections), m), join)
            /\ lines = join[Len(source)]
    ELSE lines = Damaged

\* Before the first section, every line is its own piece.
LEMMA AfterNone ==
    ASSUME NEW L, NEW source, NEW sections, NEW content,
           Rewritable(L, source, sections, content)
    PROVE  After(L, source, sections, content, 0, source)
  <1> DEFINE n == Len(source)
             pieces == Pieces(source, content, Regions(source, sections), 0)
  <1>1. /\ source \in Seq(L) /\ n \in Nat /\ 0 \in 0 .. Len(sections)
    BY LenProperties DEF Rewritable
  <1>2. pieces \in [1 .. n -> Seq(L)]
    BY <1>1, PiecesTyped
  <1>3. \A i \in 1 .. n : pieces[i] = <<source[i]>>
    BY DEF Pieces, Piece, Dropped, Begun
  <1>4. Found(source, sections, 0)
    BY DEF Found
  <1> HIDE DEF pieces
  <1>5. PICK join : Joined(L, n, pieces, join)
    BY <1>1, <1>2, AnyJoined
  <1>6. join[n] = source
    BY <1>1, <1>2, <1>3, <1>5, LinesJoined
  <1> QED BY <1>4, <1>5, <1>6 DEF After, pieces

\* One more section is rewritten.
LEMMA AfterNext ==
    ASSUME NEW L, NEW source, NEW sections, NEW content,
           Rewritable(L, source, sections, content),
           NEW m \in 0 .. Len(sections) - 1,
           NEW lines, After(L, source, sections, content, m, lines)
    PROVE  After(L, source, sections, content, m + 1,
                 IF lines = Damaged THEN Damaged
                 ELSE ReplaceMarkedRegion(lines, sections[m + 1], content[sections[m + 1]]))
  <1> DEFINE region == Regions(source, sections)
             n == Len(source)
             section == sections[m + 1]
             next == IF lines = Damaged THEN Damaged
                     ELSE ReplaceMarkedRegion(lines, section, content[section])
             pieces(k) == Pieces(source, content, region, k)
  <1>1. next = ReplaceMarkedRegion(lines, section, content[section])
    BY NothingToReplace
  <1>2. n \in Nat /\ m \in 0 .. Len(sections) /\ m + 1 \in 0 .. Len(sections)
    BY LenProperties DEF Rewritable
  <1>3. Found(source, sections, m + 1) <=> Found(source, sections, m) /\ region[m + 1] # {}
    <2>1. \A k : k \in 1 .. m + 1 <=> k \in 1 .. m \/ k = m + 1
      BY <1>2
    <2> HIDE DEF region
    <2> QED BY <2>1 DEF Found, region
  <1> HIDE DEF next
  <1>4. CASE ~Found(source, sections, m)
    <2>1. lines = Damaged
      BY <1>4 DEF After
    <2> QED BY <1>1, <1>3, <1>4, <2>1, NothingToReplace DEF After, next
  <1>5. CASE Found(source, sections, m)
    <2>1. PICK join : Joined(L, n, pieces(m), join) /\ lines = join[n]
      BY <1>5 DEF After
    <2>2. CASE region[m + 1] = {}
      <3>1. ReplaceMarkedRegion(join[n], section, content[section]) = Damaged
        BY <2>1, <2>2, NoRegion
      <3>2. ~Found(source, sections, m + 1) /\ next = Damaged
        BY <1>1, <1>3, <2>1, <2>2, <3>1
      <3> QED BY <3>2 DEF After, next
    <2>3. CASE region[m + 1] # {}
      <3>1. pieces(m + 1) \in [1 .. n -> Seq(L)]
        BY <1>2, PiecesTyped
      <3>2. PICK after : Joined(L, n, pieces(m + 1), after)
        BY <1>2, <3>1, AnyJoined
      <3>3. ReplaceMarkedRegion(join[n], section, content[section]) = after[n]
        BY <2>1, <2>3, <3>2, NextRegion
      <3>4. Found(source, sections, m + 1) /\ next = after[n]
        BY <1>1, <1>3, <1>5, <2>1, <2>3, <3>3
      <3> QED BY <3>2, <3>4 DEF After, next
    <2> QED BY <2>2, <2>3
  <1> QED BY <1>4, <1>5

\* All sections are rewritten.
LEMMA AfterAll ==
    ASSUME NEW L, NEW source, NEW sections, NEW content,
           Rewritable(L, source, sections, content),
           NEW f,
           \A m \in 0 .. Len(sections) : f[m] = RewrittenBy(source, sections, content, f, m)
    PROVE  After(L, source, sections, content, Len(sections), f[Len(sections)])
  <1> DEFINE last == Len(sections)
             S == {m \in 0 .. last : After(L, source, sections, content, m, f[m])}
  <1>1. last \in Nat
    BY DEF Rewritable
  <1>2. 0 \in S
    <2>1. f[0] = source /\ 0 \in 0 .. last
      BY <1>1 DEF RewrittenBy
    <2> QED BY <2>1, AfterNone
  <1>3. ASSUME NEW m \in 0 .. last - 1, m \in S PROVE m + 1 \in S
    <2>1. m + 1 \in 0 .. last /\ m + 1 # 0 /\ (m + 1) - 1 = m
      BY <1>1
    <2>2. f[m + 1] = IF f[m] = Damaged THEN Damaged
                     ELSE ReplaceMarkedRegion(f[m], sections[m + 1], content[sections[m + 1]])
      <3>1. f[m + 1] = RewrittenBy(source, sections, content, f, m + 1)
        BY <2>1
      <3> QED BY <2>1, <3>1 DEF RewrittenBy
    <2>3. After(L, source, sections, content, m, f[m])
      BY <1>3
    <2> DEFINE now == f[m]
    <2>4. After(L, source, sections, content, m, now)
      BY <2>3
    <2> HIDE DEF now
    <2>5. After(L, source, sections, content, m + 1,
                IF now = Damaged THEN Damaged
                ELSE ReplaceMarkedRegion(now, sections[m + 1], content[sections[m + 1]]))
      BY <2>4, AfterNext
    <2>6. After(L, source, sections, content, m + 1, f[m + 1])
      BY <2>2, <2>5 DEF now
    <2> QED BY <2>1, <2>6
  <1> HIDE DEF S
  <1>4. last \in S
    <2>1. 0 \in Nat /\ last \in 0 .. last
      BY <1>1
    <2> HIDE DEF last
    <2>2. \A m \in 0 .. last : m \in S
      BY <1>1, <1>2, <1>3, <2>1, UpTo, Zenon
    <2> QED BY <2>1, <2>2
  <1> QED BY <1>4 DEF S

\* The code of the pieces is what is expected.
LEMMA CodeOfPieces ==
    ASSUME NEW L, NEW source, NEW sections, NEW content,
           Rewritable(L, source, sections, content)
    PROVE  FlattenSeq([i \in 1 .. Len(source) |->
                StripScaffoldMarkers(
                    Pieces(source, content, Regions(source, sections), Len(sections))[i])])
           = Expected(source, sections, content)
  <1> DEFINE region == Regions(source, sections)
             last == Len(sections)
             piece(i) == Pieces(source, content, region, last)[i]
             expected(i) == IF Dropped(region, last, i) THEN <<>>
                            ELSE IF Begun(region, last, i) THEN content[source[i].section]
                            ELSE CodeOf(source[i])
  <1>1. /\ source \in Seq(L) /\ DOMAIN source = 1 .. Len(source) /\ last \in Nat
        /\ last \in 0 .. Len(sections)
    BY LenProperties DEF Rewritable
  <1>2. ASSUME NEW i \in 1 .. Len(source) PROVE StripScaffoldMarkers(piece(i)) = expected(i)
    <2>1. piece(i) = Piece(source, content, region, last, i)
      BY DEF Pieces
    <2>2. CASE Dropped(region, last, i)
      BY <2>1, <2>2, StripEmpty DEF Piece
    <2>3. CASE ~Dropped(region, last, i) /\ ~Begun(region, last, i)
      BY <2>1, <2>3, StripOne DEF Piece
    <2>4. CASE ~Dropped(region, last, i) /\ Begun(region, last, i)
      <3> DEFINE code == content[source[i].section]
                 line == source[i]
      <3>1. PICK k \in 1 .. last : line = Begin(sections[k]) /\ line.section = sections[k]
        BY <1>1, <2>4, BegunBy
      <3>2. code \in Seq(L) /\ IsCode(code) /\ line \in L
        BY <1>1, <3>1, ElementOfSeq DEF Rewritable
      <3>3. line.kind = "begin"
        BY <3>1 DEF Begin, Marker
      <3>4. piece(i) = <<line>> \o code
        BY <2>1, <2>4 DEF Piece
      <3>5. expected(i) = code
        BY <2>4
      <3> HIDE DEF code, line, piece, expected
      <3>6. StripScaffoldMarkers(<<line>> \o code) =
              StripScaffoldMarkers(<<line>>) \o StripScaffoldMarkers(code)
        <4>1. <<line>> \in Seq(L)
          BY <3>2
        <4> QED BY <3>2, <4>1, StripConcat
      <3>7. StripScaffoldMarkers(code) = code
        BY <3>2, StripCode DEF IsCode
      <3>8. StripScaffoldMarkers(<<line>>) = <<>>
        BY <3>3, StripOne DEF CodeOf
      <3>9. <<>> \o code = code
        BY <3>2, ConcatEmptySeq
      <3> QED BY <3>4, <3>5, <3>6, <3>7, <3>8, <3>9
    <2> QED BY <2>2, <2>3, <2>4
  <1>3. Expected(source, sections, content) = FlattenSeq([i \in 1 .. Len(source) |-> expected(i)])
    BY <1>1 DEF Expected, Dropped, Begun
  <1> HIDE DEF piece, expected
  <1>4. [i \in 1 .. Len(source) |-> StripScaffoldMarkers(piece(i))]
          = [i \in 1 .. Len(source) |-> expected(i)]
    BY <1>2
  <1> QED BY <1>3, <1>4 DEF piece

\* Whatever the source, different sections that are rewritten one after the other
\* with code leave the code outside their regions and in each region its own, and
\* fail exactly if one has no region (rewriteMarkedSource, for modules.go and
\* worker.go).
THEOREM RewritingIsExact ==
    ASSUME NEW L, NEW source, NEW sections, NEW content,
           Rewritable(L, source, sections, content)
    PROVE  RewriteMarkedSource(source, sections, content) =
             IF Found(source, sections, Len(sections))
             THEN Expected(source, sections, content) ELSE Damaged
  <1>1. Len(sections) \in Nat /\ Len(source) \in Nat /\ Len(sections) \in 0 .. Len(sections)
    BY LenProperties DEF Rewritable
  <1> DEFINE Into(f) ==
                \A m \in 0 .. Len(sections) : f[m] = RewrittenBy(source, sections, content, f, m)
  <1>2. PICK f : /\ Into(f)
                 /\ RewriteMarkedSource(source, sections, content) =
                        StripScaffoldMarkers(f[Len(sections)])
    BY <1>1, RewritingDefined
  <1> DEFINE lines == f[Len(sections)]
  <1>3. After(L, source, sections, content, Len(sections), lines)
    BY <1>2, AfterAll
  <1> HIDE DEF Into, lines
  <1>4. CASE Found(source, sections, Len(sections))
    <2> DEFINE pieces == Pieces(source, content, Regions(source, sections), Len(sections))
    <2>1. PICK join : Joined(L, Len(source), pieces, join) /\ lines = join[Len(source)]
      BY <1>3, <1>4 DEF After
    <2> HIDE DEF pieces
    <2>2. StripScaffoldMarkers(join[Len(source)]) =
            FlattenSeq([i \in 1 .. Len(source) |-> StripScaffoldMarkers(pieces[i])])
      BY <1>1, <2>1, StripOfJoin
    <2>3. StripScaffoldMarkers(lines) = Expected(source, sections, content)
      BY <2>1, <2>2, CodeOfPieces DEF pieces
    <2> QED BY <1>2, <1>4, <2>3 DEF lines
  <1>5. CASE ~Found(source, sections, Len(sections))
    <2>1. lines = Damaged
      BY <1>3, <1>5 DEF After
    <2>2. StripScaffoldMarkers(lines) = Damaged
      BY <2>1, StripEmpty DEF Damaged
    <2> QED BY <1>2, <1>5, <2>2 DEF lines
  <1> QED BY <1>4, <1>5

-----------------------------------------------------------------------------
(* What is generated in cmd/server/modules.go *)

\* Only keeps elements of the list.
LEMMA OnlyTyped ==
    ASSUME NEW A, NEW list \in Seq(A), NEW set
    PROVE  Only(list, set) \in Seq(A)
  <1> DEFINE piece == [i \in 1 .. Len(list) |->
                            IF list[i] \in set THEN <<list[i]>> ELSE <<>>]
  <1>1. Len(list) \in Nat /\ DOMAIN list = 1 .. Len(list)
    BY LenProperties
  <1>2. \A i \in 1 .. Len(list) : list[i] \in A
    BY ElementOfSeq
  <1>3. piece \in [1 .. Len(list) -> Seq(A)]
    BY <1>2
  <1>4. Only(list, set) = FlattenSeq(piece)
    BY <1>1 DEF Only
  <1> HIDE DEF piece
  <1>5. PICK join : Joined(A, Len(list), piece, join)
    BY <1>1, <1>3, AnyJoined
  <1>6. join[Len(list)] \in Seq(A)
    BY <1>1, <1>5 DEF Joined
  <1> QED BY <1>1, <1>4, <1>5, <1>6, JoinedFlat

\* What is rendered for a section is code (renderModuleImports and the others).
LEMMA RenderedCode ==
    ASSUME NEW section, NEW ids
    PROVE  /\ RenderModules(section, ids) \in Seq(ToSet(RenderModules(section, ids)))
           /\ IsCode(RenderModules(section, ids))
  <1> DEFINE A == {"home", "auth", "health"}
             modules == IF section = "modules-middleware"
                        THEN Only(Normalized(ids), {"auth"}) ELSE Normalized(ids)
             Line(id) == IF section = "modules-imports" THEN Code(ImportsOf(id), {})
                         ELSE Code({}, UsesOf(section, id))
             rendered == [i \in DOMAIN modules |-> Line(modules[i])]
  <1>1. ModuleOrder \in Seq(A)
    BY DEF ModuleOrder
  <1>2. Normalized(ids) \in Seq(A)
    BY <1>1, OnlyTyped DEF Normalized
  <1>3. modules \in Seq(A)
    BY <1>2, OnlyTyped
  <1>4. RenderModules(section, ids) = rendered
    BY DEF RenderModules
  <1> HIDE DEF modules
  <1>5. Len(modules) \in Nat /\ DOMAIN modules = 1 .. Len(modules)
    BY <1>3, LenProperties
  <1>6. \A id : Line(id).kind = "code"
    BY DEF Code
  <1> HIDE DEF Line
  <1>7. DOMAIN rendered = 1 .. Len(modules) /\ \A i \in 1 .. Len(modules) : rendered[i].kind = "code"
    BY <1>5, <1>6
  <1>8. rendered \in Seq(ToSet(rendered))
    <2>1. \A i \in 1 .. Len(modules) : Line(modules[i]) \in ToSet(rendered)
      BY <1>5 DEF ToSet
    <2>2. rendered = [i \in 1 .. Len(modules) |-> Line(modules[i])]
      BY <1>5
    <2> DEFINE S == ToSet(rendered)
    <2>3. \A i \in 1 .. Len(modules) : Line(modules[i]) \in S
      BY <2>1
    <2> HIDE DEF S
    <2>4. [i \in 1 .. Len(modules) |-> Line(modules[i])] \in Seq(S)
      BY <1>5, <2>3, IsASeq
    <2> QED BY <2>2, <2>4 DEF S
  <1> HIDE DEF rendered
  <1>9. DOMAIN rendered = 1 .. Len(rendered)
    BY <1>8, LenProperties
  <1> QED BY <1>4, <1>7, <1>8, <1>9 DEF IsCode

\* What is rendered for all sections.
RenderedFor(ids) == [section \in ToSet(ModuleSections) |-> RenderModules(section, ids)]

\* The four sections are different.
LEMMA SectionsListed ==
    /\ Len(ModuleSections) = 4
    /\ DOMAIN ModuleSections = 1 .. Len(ModuleSections)
    /\ \A i, j \in 1 .. Len(ModuleSections) : ModuleSections[i] = ModuleSections[j] => i = j
    /\ \A i \in 1 .. Len(ModuleSections) : ModuleSections[i] \in ToSet(ModuleSections)
  BY DEF ModuleSections, ToSet

\* cmd/server/modules.go is rewritten with code.
LEMMA ModulesRewritable ==
    ASSUME NEW source, source \in Seq(ToSet(source)), NEW ids
    PROVE  \E L : Rewritable(L, source, ModuleSections, RenderedFor(ids))
  <1> DEFINE rendered(section) == RenderModules(section, ids)
             L == ToSet(source)
                  \cup UNION {ToSet(rendered(section)) : section \in ToSet(ModuleSections)}
  <1>1. source \in Seq(L)
    <2>1. ToSet(source) \subseteq L
      OBVIOUS
    <2> HIDE DEF L
    <2> QED BY <2>1, SeqMonotonic
  <1>2. ASSUME NEW i \in 1 .. Len(ModuleSections)
        PROVE  /\ RenderedFor(ids)[ModuleSections[i]] \in Seq(L)
               /\ IsCode(RenderedFor(ids)[ModuleSections[i]])
    <2> DEFINE section == ModuleSections[i]
               code == rendered(section)
    <2>1. section \in ToSet(ModuleSections)
      BY SectionsListed
    <2>2. RenderedFor(ids)[section] = code
      BY <2>1 DEF RenderedFor
    <2>3. code \in Seq(ToSet(code)) /\ IsCode(code)
      BY RenderedCode
    <2>4. ToSet(code) \subseteq L
      BY <2>1
    <2> HIDE DEF L, code
    <2>5. code \in Seq(L)
      BY <2>3, <2>4, SeqMonotonic
    <2> QED BY <2>2, <2>3, <2>5
  <1> HIDE DEF L
  <1> QED BY <1>1, <1>2, SectionsListed DEF Rewritable

\* RewriteIsExact: the generated modules.go is the source with the code of every
\* region replaced, and generating fails exactly if a section has no region
\* (rewriteServerModules), for every source and every list of modules.
THEOREM ModulesRewritten == Spec => []RewriteIsExact
  <1>1. ScaffoldInv => RewriteIsExact
    <2> SUFFICES ASSUME ScaffoldInv, NEW p \in Process
                 PROVE  RewriteServerModules(modulesSource, call[p].ids) =
                            IF \A n \in DOMAIN ModuleSections :
                                Regions(modulesSource, ModuleSections)[n] # {}
                            THEN Expected(modulesSource, ModuleSections,
                                          RenderedFor(call[p].ids))
                            ELSE Damaged
      BY DEF RewriteIsExact, RenderedFor
    <2>1. modulesSource \in Seq(ToSet(modulesSource))
      BY ScaffoldAssumption DEF ScaffoldInv
    <2>2. PICK L : Rewritable(L, modulesSource, ModuleSections, RenderedFor(call[p].ids))
      BY <2>1, ModulesRewritable
    <2>3. RewriteServerModules(modulesSource, call[p].ids) =
            RewriteMarkedSource(modulesSource, ModuleSections, RenderedFor(call[p].ids))
      BY DEF RewriteServerModules, RenderedFor
    <2>4. (\A n \in DOMAIN ModuleSections : Regions(modulesSource, ModuleSections)[n] # {})
            <=> Found(modulesSource, ModuleSections, Len(ModuleSections))
      BY SectionsListed DEF Found
    <2>5. RewriteMarkedSource(modulesSource, ModuleSections, RenderedFor(call[p].ids)) =
            IF Found(modulesSource, ModuleSections, Len(ModuleSections))
            THEN Expected(modulesSource, ModuleSections, RenderedFor(call[p].ids))
            ELSE Damaged
      BY <2>2, RewritingIsExact
    <2> QED BY <2>3, <2>4, <2>5
  <1> QED BY <1>1, InvHolds, PTL
=============================================================================
