--------------------------- MODULE MCBmadRuntime ---------------------------
(* BmadRuntime on a project with the modules method and extra: method asks a *)
(* team and a user question and renamed the skill old to new, extra is one   *)
(* skill that places no scripts.  new needs a later method than the installs *)
(* with method in the global folder have.                                    *)
EXTENDS BmadRuntime

CONSTANTS s1, s2, r1, r2

MCSetups == {s1, s2}
MCOneSetup == {s1}
MCRenderers == {r1, r2}
MCRoots == <<"c", "C">>
MCGlobal == {"C"}
MCSkills == <<"extra", "method", "new", "old">>
MCFold == ("extra" :> "extra") @@ ("method" :> "method")
MCKeys == {"core", "site", "name"}

Method(v) ==
    [NoFile EXCEPT !.file = "bmod.toml", !.code = "method", !.version = v, !.published = Release(2), !.skills = {"new"},
                   !.renamed = {<<"old", "new">>},
                   !.questions = {[scope |-> "team", key |-> "site"], [scope |-> "user", key |-> "name"]}]
Extra == [NoFile EXCEPT !.file = "bmod.toml", !.code = "extra", !.version = Release(1), !.skill = TRUE]
New == [NoFile EXCEPT !.file = "bmod.toml", !.skill = TRUE, !.bmod = "method",
                      !.scripts = {[to |-> "run.py", version |-> 1]},
                      !.needs = {[skill |-> "method", version |-> Release(2), source |-> "github"]}]

MCContent ==
    [pn \in {"c", "C"} \X Range(MCSkills) |->
       CASE pn[2] = "method" -> Method(Release(IF pn[1] = "c" THEN 2 ELSE 1))
         [] pn[2] = "extra" -> Extra
         [] OTHER -> New]

Empty == [pn \in Places \X Names |-> NoPlace]
Put(d, p, n) == (<<p, n>> :> p) @@ d

\* All in the project; method in the global folder only.
MCStartDisks ==
    {Put(Put(Put(Empty, "c", "extra"), "c", "method"), "c", "new"), Put(Put(Empty, "C", "method"), "c", "new")}

\* No folder yet; one an older release left.
MCStartTrees ==
    {NoTree,
     [EmptyTree EXCEPT !.scripts = "stale", !.config = TRUE, !.team = [k \in Keys |-> IF k = "core" THEN 1 ELSE 0],
                       !.mods = [c \in Codes |-> IF c = "method" THEN {[to |-> "run.py", version |-> 0]} ELSE NoScripts],
                       !.custom = [n \in Names |-> IF n = "old" THEN 1 ELSE 0]]}

MCSelections == {{"method"}, {"method", "extra"}}

MCSpots == {<<"user", "name">>, <<"custom", "old">>, <<"custom", "new">>}

\* The templates read the customization, and one config value unless it is set.
MCUsed(v) == [custom |-> v.custom, core |-> IF v.custom = 0 THEN v.team["core"] ELSE 0]
\* The second source is for the customization the installer wrote; for any
\* other the entry still names it.
MCSources == <<"step.md", "workflow.md">>
MCBlank(f, v) == f = "step.md" /\ v.custom # 1
MCLinks(f, v) == IF f = Entry /\ v.custom # 0 THEN {"step.md"} ELSE {}

Symmetry == Permutations(MCSetups) \cup Permutations(MCRenderers)

=============================================================================
