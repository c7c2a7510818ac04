------------------------------ MODULE BmadTree ------------------------------
(***************************************************************************)
(* The _bmad folder of a project as a value, and what setup.py and         *)
(* setup_check.py compute from it and from the installed skills.           *)
(*                                                                         *)
(*   scripts         _bmad/scripts against the bmad skill's own: "none",   *)
(*                   "stale" or "current"                                  *)
(*   mods[c]         the scripts in _bmad/<c>/scripts, NoScripts if there  *)
(*                   is no such folder                                     *)
(*   config, team    config.toml: whether it exists, key -> value          *)
(*   user            custom/config.user.toml: key -> value                 *)
(*   custom          custom/<skill>.toml: skill -> value                   *)
(*   ignore          custom/.gitignore exists                              *)
(*   gens, staging   render/: generations, and per renderer the files of   *)
(*                   its .staging folder, NoStaging if there is none       *)
(*                                                                         *)
(* A value is the number of the edit that set it: 0 for none, 1 for what a *)
(* template, an answer or an installer wrote.  A text that does not parse, *)
(* a link or a plain file where a folder belongs stops setup; those are    *)
(* left out, and so are the output folder and the report it prints.        *)
(***************************************************************************)
EXTENDS Installation

CONSTANTS
    Renderers,      \* processes that run render_skill.py
    Keys,           \* the keys of the config files
    TemplateKeys    \* those of config.template.toml; the others are questions'

VARIABLE
    bmad            \* the _bmad folder

\* A question's key is "modules.<code>.<key>", one of the template's "core.<key>".
ASSUME TreeAssumption ==
    /\ TemplateKeys \subseteq Keys
    /\ \A p \in Places, n \in Names :
         /\ \A q \in Content[<<p, n>>].questions : /\ q.key \in Keys \ TemplateKeys
                                                   /\ q.scope \in {"team", "user"}
         /\ Content[<<p, n>>].renamed \subseteq Names \X Names
         /\ \A s \in Content[<<p, n>>].scripts : s.to # "no folder"

Codes == DOMAIN Fold
NoScripts == {[to |-> "no folder", version |-> 0]}
NoStaging == {<<"no folder">>}

EmptyTree ==
    [there |-> TRUE, scripts |-> "none", mods |-> [c \in Codes |-> NoScripts],
     config |-> FALSE, team |-> [k \in Keys |-> 0], user |-> [k \in Keys |-> 0],
     custom |-> [n \in Names |-> 0], ignore |-> FALSE,
     gens |-> {}, staging |-> [r \in Renderers |-> NoStaging]]
NoTree == [EmptyTree EXCEPT !.there = FALSE]

IsTree(t) ==
    /\ DOMAIN t = DOMAIN EmptyTree /\ t.there \in BOOLEAN
    /\ DOMAIN t.mods = Codes /\ DOMAIN t.staging = Renderers
    /\ t.team \in [Keys -> Nat] /\ t.user \in [Keys -> Nat] /\ t.custom \in [Names -> Nat]
    /\ ~t.there => t = NoTree

\* fill_keep on tables of values: what exists is kept, what is new filled in.
Fill(template, existing) ==
    [k \in DOMAIN existing |-> IF existing[k] # 0 THEN existing[k] ELSE template[k]]

Template == [k \in Keys |-> IF k \in TemplateKeys THEN 1 ELSE 0]

\* find_pending_questions: a team question is pending once per project, a
\* user question once per person.
Pending(at, codes, tree) ==
    LET asked == UNION {RecordFile(at, c).questions : c \in codes}
    IN {q \in asked : IF q.scope = "user" THEN tree.user[q.key] = 0
                      ELSE Fill(Template, tree.team)[q.key] = 0}

\* load_module_answers: the file the caller wrote for the questions it was
\* shown, each by module and key, or none.
Supplied(asked) == {asked, {}}

\* validate_module_answers: all that is pending and nothing else.
Accepts(answers, pending) == answers = pending

\* current_answers: what has a value in the file of its scope.
CurrentAnswers(at, codes, tree) ==
    LET team == Fill(Template, tree.team)
    IN {q \in UNION {RecordFile(at, c).questions : c \in codes} :
          (IF q.scope = "user" THEN tree.user[q.key] ELSE team[q.key]) # 0}

Answered(values, questions) ==
    [k \in DOMAIN values |-> IF \E q \in questions : q.key = k THEN 1 ELSE values[k]]

\* read_module_scripts: what the present members place, each [to, version].
ModuleScripts(at, c) == UNION {FileAt(at[n], n).scripts : n \in Members(at, c)}

\* Two members that place different scripts under one name stop setup.
ScriptsClash(at, codes) ==
    \E c \in codes : LET placed == ModuleScripts(at, c)
                     IN \E s, t \in placed : s.to = t.to /\ s # t

\* retirement_report: the customizations that follow a renamed skill.  Of two
\* that would take one name the first listed does (here, by name).
CustomRenames(at, codes, tree) ==
    LET free == {r \in RenamedBy(at, codes) : tree.custom[r[1]] # 0 /\ tree.custom[r[2]] = 0}
    IN {r \in free : \A o \in free : o[2] = r[2] =>
          SelectInSeq(Skills, LAMBDA n : n = r[1]) <= SelectInSeq(Skills, LAMBDA n : n = o[1])}

\* team_config_plan with the answers added: the text for config.toml.
TeamText(at, codes, tree) ==
    Answered(Fill(Template, tree.team), {q \in Pending(at, codes, tree) : q.scope = "team"})

\* What makes setup write: the `changed` of setup().
Changed(at, codes, tree) ==
    \/ ~tree.there \/ tree.scripts # "current" \/ ~tree.ignore
    \/ ~tree.config \/ TeamText(at, codes, tree) # tree.team
    \/ \E q \in Pending(at, codes, tree) : q.scope = "user"
    \/ \E c \in codes : tree.mods[c] # ModuleScripts(at, c)
    \/ CustomRenames(at, codes, tree) # {}

-----------------------------------------------------------------------------
(* status_report: what is owed, and the one command to run next.           *)

\* tree_state of a module's scripts; "could-not-check" when they clash.
ScriptState(at, c, tree) ==
    IF ScriptsClash(at, {c}) THEN "could-not-check"
    ELSE IF ~tree.there \/ tree.mods[c] = NoScripts THEN "missing"
    ELSE IF tree.mods[c] = ModuleScripts(at, c) THEN "current" ELSE "stale"

\* team_config_state, without answers.
TeamState(tree) ==
    IF ~tree.config THEN "created"
    ELSE IF Fill(Template, tree.team) # tree.team THEN "updated" ELSE "current"

\* Faulty variant of SetupOwed: scripts that were never placed do not count.
SetupOwedStale(at, codes, tree) ==
    \/ ~tree.there \/ tree.scripts # "current" \/ TeamState(tree) # "current" \/ ~tree.ignore
    \/ Pending(at, codes, tree) # {} \/ CustomRenames(at, codes, tree) # {}
    \/ \E c \in codes : ScriptState(at, c, tree) = "stale"

SetupOwed(at, codes, tree) ==
    \/ ~tree.there \/ tree.scripts # "current" \/ TeamState(tree) # "current" \/ ~tree.ignore
    \/ Pending(at, codes, tree) # {} \/ CustomRenames(at, codes, tree) # {}
    \/ \E c \in codes : ScriptState(at, c, tree) \in {"missing", "stale"}

\* module_update_report
UpdateState(at, c) ==
    LET f == RecordFile(at, c)
    IN IF f.source = "plugin" THEN "plugin-managed"
       ELSE IF f.published = NoVersion THEN "could-not-check"
       ELSE IF "odd" \in {f.version.pre, f.published.pre} THEN "differing-unordered"
       ELSE IF f.version = f.published THEN "current"
       ELSE IF AtLeast(f.version, f.published) THEN "ahead" ELSE "newer-available"

\* next_step: install what is absent, then update, then set up.
NextStep(at, codes, tree) ==
    LET unmet == Unmet(at)
        state(u) == Check(at, u[2])
        updatable(u) == state(u) \in {"outdated", "unknown-version"} /\ u[2].source \in {"github", "https"}
    IN IF \E n \in MissingRecords(at) : FileAt(at[n], n).source = "github" THEN "install record"
       ELSE IF \E u \in unmet : state(u) = "missing" /\ u[2].source = "github" THEN "install"
       ELSE IF \/ \E u \in unmet : updatable(u)
               \/ \E c \in codes : UpdateState(at, c) = "newer-available" THEN "update"
       ELSE IF SetupOwed(at, codes, tree) THEN "setup" ELSE "none"

\* What status calls current.
Current(at, codes, tree) ==
    /\ NextStep(at, codes, tree) = "none"
    /\ Unmet(at) = {} /\ Problems(at) = {} /\ MissingRecords(at) = {}
    /\ \A c \in codes : /\ ScriptState(at, c, tree) # "could-not-check"
                         /\ UpdateState(at, c) # "differing-unordered"

-----------------------------------------------------------------------------
(* stage_bmad, on the copy of the tree.  The plan is what setup read before*)
(* it made the copy.                                                       *)

\* ensure_file: the values in the copy win.
StageTeam(plan, tree) == Fill(plan.team, tree.team)

\* The user's file is written as planned, when an answer goes into it.
StageUser(plan, tree) == IF plan.writesUser THEN plan.user ELSE tree.user

\* Faulty variant of StageMods: no folder for a module that places nothing.
StageModsBusy(plan, tree) ==
    [c \in Codes |-> IF c \in plan.codes /\ plan.mods[c] # {} THEN plan.mods[c] ELSE tree.mods[c]]

\* ensure_plain_tree for the modules in scope, those without scripts too.
StageMods(plan, tree) == [c \in Codes |-> IF c \in plan.codes THEN plan.mods[c] ELSE tree.mods[c]]

\* The renames: one whose source is gone, or was renamed just before, stops
\* setup; a target that appeared since is replaced.
RenamesFail(plan, tree) ==
    \E r \in plan.renames : tree.custom[r[1]] = 0 \/ \E o \in plan.renames : o # r /\ o[1] = r[1]
StageCustom(plan, tree) ==
    [n \in Names |->
       IF \E r \in plan.renames : r[2] = n THEN tree.custom[(CHOOSE r \in plan.renames : r[2] = n)[1]]
       ELSE IF \E r \in plan.renames : r[1] = n THEN 0 ELSE tree.custom[n]]

Staged(plan, tree) ==
    [tree EXCEPT !.there = TRUE, !.scripts = "current", !.config = TRUE, !.ignore = TRUE,
                 !.team = StageTeam(plan, tree), !.user = StageUser(plan, tree),
                 !.mods = StageMods(plan, tree), !.custom = StageCustom(plan, tree)]

-----------------------------------------------------------------------------
(* setup_check.owed: what a starting skill tells its user.                 *)

RecordOf(at, n) == IF FileAt(at[n], n).code # NoName THEN n ELSE FileAt(at[n], n).bmod

\* Without an answer in any layer of the central config.
Unanswered(at, n, tree) ==
    {q \in FileAt(at[RecordOf(at, n)], RecordOf(at, n)).questions :
       tree.team[q.key] = 0 /\ tree.user[q.key] = 0}

ScriptsOwed(at, n, tree) ==
    LET placed == tree.mods[FileAt(at[RecordOf(at, n)], RecordOf(at, n)).code]
    IN \E s \in FileAt(at[n], n).scripts : placed = NoScripts \/ s \notin placed

Owed(d, p, n, tree) ==
    LET at == Beside(d, p)
    IN \/ OwedAtStart(d, p, n)
       \/ /\ Readable(at, n) /\ ~RecordOwed(at, n) /\ tree.there
          /\ ScriptsOwed(at, n, tree) \/ (tree.config /\ Unanswered(at, n, tree) # {})

=============================================================================
