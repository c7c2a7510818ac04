---------------------------- MODULE BmadRuntime ----------------------------
(***************************************************************************)
(* Setup and renders on one _bmad folder, together with what a user edits  *)
(* there by hand.                                                          *)
(***************************************************************************)
EXTENDS SetupRun, RenderRun

CONSTANTS
    Spots,        \* where the user edits: <<"team" or "user", key>>, <<"custom", skill>>
    MaxEdits,     \* edits ever made (bound of the model)
    MaxStarts,    \* setups and renders ever started (bound of the model)
    ActAfterRace  \* whether anything starts after two processes got in each
                  \* other's way (bound of the model)

ASSUME RuntimeAssumption ==
    /\ Skill \in Names
    /\ Spots \subseteq ({"team", "user"} \X Keys) \cup ({"custom"} \X Names)
    /\ \A t \in StartTrees : \A g \in t.gens : Renders(g.key) /\ g.files = Whole(g.key)

VARIABLES
    edits,        \* the last edit's number, less one
    mine,         \* <<where, key>> -> the user's last edit there, 0 if none (history)
    clashed,      \* two setups were under way at once (history)
    raced,        \* an edit went where a setup under way would not see it (history)
    crossed,      \* a render published while a setup was between its copy and
                  \* its rename (history)
    stolen,       \* a render made a _bmad while it was moved aside (history)
    killed        \* a setup was killed with something moved aside (history)

histVars == <<mine, clashed, raced, crossed, stolen, killed>>
vars == <<sharedVars, setupVars, boundVars, calm, settled, renderVars, edits, histVars>>

Init ==
    /\ SetupInit /\ RenderInit
    /\ edits = 0 /\ mine = [s \in Spots |-> 0]
    /\ clashed = FALSE /\ raced = FALSE /\ crossed = FALSE /\ stolen = FALSE /\ killed = FALSE

Overlap ==
    /\ \E p \in Setups : spc[p] \in {"stage", "swap", "movein"}
    /\ \E r \in Renderers : rpc[r] \in {"write", "rename"}

\* Bounds of the model.
MayAct == ActAfterRace \/ ~(clashed \/ raced \/ crossed)
MayStart == MayAct /\ setups + renders < MaxStarts

Setup(p) ==
    /\ spc[p] = "idle" => MayStart
    /\ SetupStep(p)
    /\ clashed' = (clashed \/ \E q \in Setups \ {p} : Underway(p) /\ Underway(q))
    /\ UNCHANGED <<renderVars, edits, mine, raced, stolen, killed>>
    /\ crossed' = (crossed \/ Overlap')

Kill(p) ==
    /\ KillSetup(p)
    /\ killed' = (killed \/ spc[p] \in {"movein", "drop"})
    /\ UNCHANGED <<renderVars, edits, mine, clashed, raced, crossed, stolen>>

Render(r) ==
    /\ rpc[r] = "idle" => MayStart
    /\ RenderStep(r)
    /\ UNCHANGED <<disk, aside, setupVars, boundVars, edits, mine, clashed, raced, killed>>
    /\ crossed' = (crossed \/ Overlap')
    /\ stolen' = (stolen \/ (~bmad.there /\ bmad'.there))
    /\ IF bmad.there THEN UNCHANGED <<calm, settled>> ELSE calm' = {} /\ settled' = {}

Crash(r) ==
    /\ faults < MaxFaults /\ faults' = faults + 1
    /\ KillRender(r)
    /\ UNCHANGED <<disk, aside, setupVars, setups, calm, settled, edits, histVars>>

\* The user saves a file below _bmad with a new value.  A setup still to make
\* its copy will see it, but for a user file or the target of a rename that
\* it has planned to write.
Edit(spot) ==
    /\ bmad.there /\ edits < MaxEdits /\ MayAct
    /\ edits' = edits + 1
    /\ LET v == edits + 2
       IN /\ bmad' = CASE spot[1] = "team" -> [bmad EXCEPT !.config = TRUE, !.team[spot[2]] = v]
                       [] spot[1] = "user" -> [bmad EXCEPT !.user[spot[2]] = v]
                       [] spot[1] = "custom" -> [bmad EXCEPT !.custom[spot[2]] = v]
          /\ mine' = [s \in Spots |->
                       IF s = spot THEN v
                       ELSE IF spot[1] = "custom" /\ s[1] = "custom" /\ mine[s] = bmad.custom[spot[2]]
                       THEN 0 ELSE mine[s]]
    /\ raced' = (raced \/ \E p \in Setups :
                   \/ spc[p] \in {"stage", "swap", "movein"}
                   \/ spc[p] = "copy" /\ (\/ spot[1] = "user" /\ plan[p].writesUser
                                          \/ spot[1] = "custom" /\ \E q \in plan[p].renames : q[2] = spot[2]))
    /\ calm' = {} /\ settled' = {}
    /\ UNCHANGED <<disk, aside, setupVars, boundVars, renderVars, clashed, crossed, stolen, killed>>

Next ==
    \/ \E p \in Setups : Setup(p) \/ Kill(p)
    \/ \E r \in Renderers : Render(r) \/ Crash(r)
    \/ \E spot \in Spots : Edit(spot)

Spec == Init /\ [][Next]_vars

-----------------------------------------------------------------------------
Holds(tree, spot) ==
    /\ tree.there
    /\ CASE spot[1] = "team" -> tree.team[spot[2]] = mine[spot]
         [] spot[1] = "user" -> tree.user[spot[2]] = mine[spot]
         [] spot[1] = "custom" -> \E n \in Names : tree.custom[n] = mine[spot]

\* What a user edited is never destroyed: it is in _bmad or in the folder it
\* was moved to, whatever operations fail and whoever is killed, unless two
\* setups overlapped or the edit fell between a setup's copy and its rename
\* (materialize_bmad: "Seed staging so custom/, extra *.user.toml, and
\* leftovers survive replace_dir").  And once no setup is at it nothing is
\* left aside, unless a setup was killed or a render took the name.
EditsSurvive ==
    /\ clashed \/ raced \/ \A s \in Spots :
         mine[s] = 0 \/ Holds(bmad, s) \/ \E b \in Seconds : Holds(aside[b], s)
    /\ clashed \/ stolen \/ killed \/ \A b \in Seconds :
         aside[b].there => \E p \in Setups : spc[p] \in {"movein", "drop"} /\ plan[p].moved = b

\* Some skill was renamed to a name that was itself renamed.
RenamedTwice(at, codes) == \E r, o \in RenamedBy(at, codes) : r[2] = o[1]

\* After a setup nobody interfered with, a second one finds nothing to do and
\* nothing to ask, and status does not send anybody to it (setup, next_step);
\* a customization that follows two renames needs a setup for each.
SetupSettles ==
    settled = {} \/
    LET at == Across(disk)
    IN RenamedTwice(at, settled) \/
       /\ ~Changed(at, settled, bmad) /\ Pending(at, settled, bmad) = {}
       /\ NextStep(at, settled, bmad) # "setup"

\* Whatever edits, renders and half-done setups left, while none is at work
\* status says that a setup is owed exactly when one would change something,
\* no skill asks what setup reports as answered, and when status calls all the
\* modules current no skill that starts tells its user otherwise, as long as
\* that skill sees in its own folder what status sees across the roots, and
\* no module asks for its own record, which status never checks (status_report,
\* setup, setup_check.owed).
StatusIsHonest ==
    LET at == Across(disk)
        all == Modules(at)
        owed == SetupOwed(at, all, bmad)
        circular == \E c \in all : \E need \in RecordFile(at, c).moduleNeeds : need.skill = Record(at, c)
    IN \/ (\E p \in Setups : spc[p] # "idle") \/ (\E r \in Renderers : rpc[r] # "idle")
       \/ /\ (owed <=> Changed(at, all, bmad)) \/ ScriptsClash(at, all)
          /\ \A n \in Names : Readable(at, n) /\ ~RecordOwed(at, n) =>
               Unanswered(at, n, bmad) \cap CurrentAnswers(at, all, bmad) = {}
          /\ owed \/ circular \/ ~Current(at, all, bmad) \/ \A p \in Range(Roots), n \in Names :
               Beside(disk, p) = at => ~Owed(disk, p, n, bmad)

\* A generation has every file its values make, with what they make of it, and
\* every file one of them names; one a caller was told to follow stays,
\* whatever renders overlap or are killed, unless a setup replaced _bmad under
\* a render (_publish, _render_sources).
SnapshotsHold ==
    crossed \/
    /\ \A g \in bmad.gens :
         /\ g.files = Whole(g.key)
         /\ \A f \in Outputs(g.key) : {Made(o, g.key) : o \in Links(f, g.key)} \subseteq g.files
    /\ clashed \/ stolen \/ killed \/ ~bmad.there \/ answered \subseteq {g.key : g \in bmad.gens}

\* The same, setup or not ("an immutable project snapshot", render_skill.py).
SnapshotsAreWhole == \A g \in bmad.gens : g.files = Whole(g.key)

=============================================================================
