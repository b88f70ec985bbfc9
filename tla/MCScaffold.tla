----------------------------- MODULE MCScaffold -----------------------------
(* Two calls over an intact repository, or one with a marker damaged. *)
EXTENDS Scaffold

CONSTANTS i1, i2

MCRequested ==
    {<<"home">>, <<"health", "auth">>, <<"home", "home">>}

Markers(source) == {i \in DOMAIN source : source[i].kind # "code"}

Dropped(source) == {RemoveAt(source, i) : i \in Markers(source)}

\* At the front, inside the first region and behind the third.
Doubled(source) ==
    {InsertAt(source, i, source[j]) : i \in {1, 2, 12}, j \in Markers(source)}

Swapped(source) ==
    {[source EXCEPT ![i] = source[j], ![j] = source[i]] :
        i \in Markers(source), j \in Markers(source)}

\* To the front, so that the region of a section has those before it inside.
Moved(source) ==
    {InsertAt(RemoveAt(source, i), 1, source[i]) : i \in Markers(source)}

\* A begin marker doubled in the region of the section before, which has its own
\* doubled in the first region.
Chained(source) ==
    {InsertAt(InsertAt(source, i, Begin("modules-middleware")), 2, Begin("modules-setup")) :
        i \in {5, 6, 7}}

Intact == {ModulesSource}

MCSources ==
    Intact \cup Dropped(ModulesSource) \cup Doubled(ModulesSource)
           \cup Swapped(ModulesSource) \cup Moved(ModulesSource)
           \cup Chained(ModulesSource)

Symmetry == Permutations({i1, i2})
=============================================================================
