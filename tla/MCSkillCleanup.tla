--------------------------- MODULE MCSkillCleanup ---------------------------
(* SkillCleanup on a project with .claude/skills (c) and .agents/skills (a), *)
(* and the global folders C, which the host passes, and A, which it does     *)
(* not.  The module method lists new and renamed old to it; x also declares  *)
(* the code, so that the place of a record matters.                          *)
EXTENDS SkillCleanup

CONSTANTS r1, r2

MCCleaners == {r1, r2}
MCRoots == <<"c", "C">>
MCTools == {"a"}
MCHidden == {"A"}
MCGlobal == {"C", "A"}
MCSkills == <<"method", "new", "old", "x">>
MCFold == ("method" :> "method") @@ ("METHOD" :> "method")

MCTopics == {"help/more.md", "help/new.md"}
Entry(path, skills, form) == [path |-> path, skills |-> skills, form |-> form]

Method == [NoFile EXCEPT !.file = "bmod.toml", !.code = "method", !.version = Release(2),
                         !.skills = {"new"}, !.renamed = {<<"old", "new">>},
                         !.files = (HelpName :> "fine") @@ ("help/new.md" :> "fine") @@ ("help/more.md" :> "fine"),
                         !.knowledge = <<Entry("help/new.md", {"new"}, "fine"), Entry("old.md", NoList, "fine")>>]
Member == [NoFile EXCEPT !.file = "bmod.toml", !.skill = TRUE, !.bmod = "method"]
Second == [NoFile EXCEPT !.file = "bmod.toml", !.code = "method", !.version = Release(1), !.skills = {"x"},
                         !.skill = TRUE,
                         !.files = (HelpName :> "fine") @@ ("help/more.md" :> "bad"),
                         !.knowledge = <<Entry(HelpName, {"x"}, "fine")>>]
Third == [Second EXCEPT !.wrong = {"version"}, !.files = (HelpName :> "bad") @@ ("help/new.md" :> "fine"),
                        !.knowledge = <<Entry("help/new.md", {}, "wrong"), Entry(NoName, NoList, "fine")>>]

MCContent ==
    [pn \in (Range(MCRoots) \cup MCTools \cup MCHidden) \X Range(MCSkills) |->
       CASE pn[2] = "method" -> Method
         [] pn[2] = "x" -> IF pn[1] = "C" THEN Third ELSE Second
         [] pn[2] = "new" -> [(IF pn[1] = "C" THEN NoFile ELSE Member) EXCEPT !.custom = IF pn[1] = "a" THEN "broken" ELSE "there",
                                            !.surfaces = IF pn[1] = "c" THEN {"agent"} ELSE {"workflow"}]
         [] OTHER -> Member]

Empty == [pn \in Places \X Names |-> NoPlace]
Put(d, p, n, t) == (<<p, n>> :> t) @@ d

\* The module and its skill in the project, the old skill in both scopes or
\* twice in one; the skill in both active roots, once as a link into another; the record in the
\* global folder and a second one in the project.
MCStartDisks ==
    LET base == Put(Put(Empty, "c", "method", "c"), "c", "new", "c")
    IN {Put(Put(base, "C", "old", "C"), "a", "old", "a"),
        Put(Put(base, "c", "old", "c"), "a", "old", "a"),
        Put(Put(base, "C", "new", "C"), "a", "new", "c"),
        Put(Put(base, "C", "new", "c"), "A", "new", "A"),
        Put(Put(Put(base, "c", "new", "a"), "a", "new", "a"), "C", "new", "C"),
        Put(Put(Put(Empty, "C", "method", "C"), "c", "new", "c"), "c", "x", "c")}

\* The skill in both global folders, and the old one in all of them.
MCHiddenDisks ==
    {Put(Put(Put(Put(Empty, "C", "method", "C"), "C", "old", "C"), "A", "old", "A"), "c", "old", "c")}

Symmetry == Permutations(MCCleaners)

=============================================================================
