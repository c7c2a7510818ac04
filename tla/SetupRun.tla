------------------------------ MODULE SetupRun ------------------------------
(***************************************************************************)
(* Setup as processes on the _bmad folder of a project: ask for the open   *)
(* questions, plan from what is read, copy _bmad into a staging folder,    *)
(* bring the copy up to date, move _bmad aside under the name of the       *)
(* second, move the copy in, and delete what was moved aside.  Nothing     *)
(* keeps two setups, or a setup and a user's editor, apart.                *)
(***************************************************************************)
EXTENDS BmadTree

CONSTANTS
    Setups,       \* processes that run setup
    Seconds,      \* the names a _bmad.old folder can get (bound of the model)
    StartDisks,   \* installed skills to start from
    StartTrees,   \* _bmad folders to start from
    Selections,       \* the sets of modules setup is asked for
    MaxSetups,    \* setups ever started (bound of the model)
    MaxFaults     \* operations that fail, and kills (bound of the model)

ASSUME SetupAssumption ==
    /\ 0 \notin Seconds /\ StartDisks \subseteq Disks
    /\ \A t \in StartTrees : IsTree(t)

VARIABLES
    disk,         \* the skills folders; they stay as they are here
    aside,        \* name -> a _bmad.old folder, NoTree when there is none
    spc,          \* setup -> where it is
    plan,         \* setup -> what it has decided
    stage,        \* setup -> its staging folder
    setups, faults,
    calm,         \* setups since whose plan nobody else changed _bmad (history)
    settled       \* the modules of the last setup that ended calm, {} as soon
                  \* as somebody changes _bmad (history)

setupVars == <<spc, plan, stage>>
boundVars == <<setups, faults>>
sharedVars == <<disk, bmad, aside>>

NoPlan == [codes |-> {}, answers |-> {}, team |-> <<>>, user |-> <<>>, writesUser |-> FALSE,
           mods |-> <<>>, renames |-> {}, moved |-> 0]

SetupInit ==
    /\ disk \in StartDisks /\ bmad \in StartTrees
    /\ aside = [s \in Seconds |-> NoTree]
    /\ spc = [p \in Setups |-> "idle"]
    /\ plan = [p \in Setups |-> NoPlan] /\ stage = [p \in Setups |-> NoTree]
    /\ setups = 0 /\ faults = 0
    /\ calm = {} /\ settled = {}

\* A setup between its plan and its last rename.
Underway(p) == spc[p] \in {"copy", "stage", "swap", "movein"}

\* Somebody other than p changes _bmad, or leaves it half moved.
Disturb(p) == calm' = calm \cap {p} /\ settled' = {}

To(p, where) == spc' = [spc EXCEPT ![p] = where]

\* The process ends; its staging folder is removed.
Stop(p) ==
    /\ To(p, "idle")
    /\ plan' = [plan EXCEPT ![p] = NoPlan] /\ stage' = [stage EXCEPT ![p] = NoTree]

\* list-config-questions: the caller answers what is pending now, or does not.
Ask(p, codes) ==
    /\ spc[p] = "idle" /\ setups < MaxSetups
    /\ codes # {} /\ ~CodesClash(Across(disk))
    /\ setups' = setups + 1
    /\ To(p, "plan")
    /\ \E answers \in Supplied(Pending(Across(disk), codes, bmad)) :
         plan' = [plan EXCEPT ![p] = [NoPlan EXCEPT !.codes = codes, !.answers = answers]]
    /\ UNCHANGED <<sharedVars, stage, faults, calm, settled>>

\* setup() up to materialize_bmad.  Answers that are not those to the pending
\* questions, and scripts that clash, stop it.
Plan(p) ==
    LET at == Across(disk)
        codes == plan[p].codes
        pending == Pending(at, codes, bmad)
    IN /\ spc[p] = "plan"
       /\ IF ~Accepts(plan[p].answers, pending) \/ ScriptsClash(at, codes)
          THEN Stop(p) /\ UNCHANGED calm
          ELSE /\ To(p, IF Changed(at, codes, bmad) THEN "copy" ELSE "output")
               /\ plan' = [plan EXCEPT ![p] =
                    [@ EXCEPT !.team = TeamText(at, codes, bmad),
                              !.user = Answered(bmad.user, {q \in pending : q.scope = "user"}),
                              !.writesUser = \E q \in pending : q.scope = "user",
                              !.mods = [c \in codes |-> ModuleScripts(at, c)],
                              !.renames = CustomRenames(at, codes, bmad)]]
               /\ calm' = calm \cup {p}
               /\ UNCHANGED stage
       /\ UNCHANGED <<sharedVars, boundVars, settled>>

\* copytree of _bmad into the staging folder, if there is a _bmad.
Copy(p) ==
    /\ spc[p] = "copy" /\ To(p, "stage")
    /\ stage' = [stage EXCEPT ![p] = IF bmad.there THEN bmad ELSE EmptyTree]
    /\ UNCHANGED <<sharedVars, plan, boundVars, calm, settled>>

Stage(p) ==
    /\ spc[p] = "stage"
    /\ IF RenamesFail(plan[p], stage[p]) THEN Stop(p)
       ELSE /\ To(p, "swap") /\ stage' = [stage EXCEPT ![p] = Staged(plan[p], @)]
            /\ UNCHANGED plan
    /\ UNCHANGED <<sharedVars, boundVars, calm, settled>>

\* replace_dir: _bmad, if there is one, gets the name of the second; the name
\* of another setup's folder is refused.
MoveAside(p) ==
    /\ spc[p] = "swap"
    /\ IF ~bmad.there
       THEN To(p, "movein") /\ UNCHANGED <<sharedVars, plan, stage, calm, settled>>
       ELSE \E s \in Seconds :
              IF aside[s].there
              THEN Stop(p) /\ UNCHANGED <<sharedVars, calm, settled>>
              ELSE /\ aside' = [aside EXCEPT ![s] = bmad] /\ bmad' = NoTree
                   /\ plan' = [plan EXCEPT ![p].moved = s]
                   /\ To(p, "movein") /\ Disturb(p)
                   /\ UNCHANGED <<disk, stage>>
    /\ UNCHANGED boundVars

\* The rename back; it fails like the rename in when a _bmad has appeared.
Restore(p) ==
    IF plan[p].moved = 0 \/ bmad.there THEN UNCHANGED <<bmad, aside>>
    ELSE /\ bmad' = aside[plan[p].moved]
         /\ aside' = [aside EXCEPT ![plan[p].moved] = NoTree]

MoveIn(p) ==
    /\ spc[p] = "movein"
    /\ IF bmad.there THEN Stop(p) /\ UNCHANGED <<bmad, aside, calm, settled>>
       ELSE /\ bmad' = stage[p] /\ stage' = [stage EXCEPT ![p] = NoTree]
            /\ To(p, IF plan[p].moved = 0 THEN "output" ELSE "drop")
            /\ Disturb(p) /\ UNCHANGED <<aside, plan>>
    /\ UNCHANGED <<disk, boundVars>>

\* Faulty variant of MoveInFails: what was moved aside stays there.
MoveInFailsBare(p) ==
    /\ spc[p] = "movein" /\ faults < MaxFaults
    /\ faults' = faults + 1
    /\ Stop(p) /\ Disturb(p) /\ UNCHANGED <<disk, bmad, aside, setups>>

\* The rename in fails for a reason of its own.
MoveInFails(p) ==
    /\ spc[p] = "movein" /\ faults < MaxFaults
    /\ faults' = faults + 1
    /\ Restore(p) /\ Stop(p) /\ Disturb(p)
    /\ UNCHANGED <<disk, setups>>

\* rmtree of what was moved aside.
DropAside(p) ==
    /\ spc[p] = "drop" /\ To(p, "output")
    /\ aside' = [aside EXCEPT ![plan[p].moved] = NoTree]
    /\ UNCHANGED <<disk, bmad, plan, stage, boundVars, calm, settled>>

\* The output folder is created, the report printed.
Output(p) ==
    /\ spc[p] = "output" /\ Stop(p)
    /\ settled' = IF p \in calm THEN plan[p].codes ELSE settled
    /\ UNCHANGED <<sharedVars, boundVars, calm>>

\* An operation fails before _bmad is touched: the staging folder is removed.
Fail(p) ==
    /\ spc[p] \in {"copy", "stage"} /\ faults < MaxFaults
    /\ faults' = faults + 1 /\ Stop(p)
    /\ UNCHANGED <<sharedVars, setups, calm, settled>>

KillSetup(p) ==
    /\ Underway(p) \/ spc[p] = "drop"
    /\ faults < MaxFaults /\ faults' = faults + 1
    /\ Stop(p) /\ UNCHANGED <<sharedVars, setups, calm, settled>>

SetupStep(p) ==
    \/ \E codes \in Selections : codes \subseteq Modules(Across(disk)) /\ Ask(p, codes)
    \/ Plan(p) \/ Copy(p) \/ Stage(p) \/ MoveAside(p) \/ MoveIn(p) \/ MoveInFails(p)
    \/ DropAside(p) \/ Output(p) \/ Fail(p)

=============================================================================
