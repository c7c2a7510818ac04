-------------------------------- MODULE Tickets --------------------------------
(***************************************************************************)
(* The commands of tickets.py that write, `mark` and `pull`, run by several*)
(* processes on one ticket tree, with the edits people and builds make in  *)
(* between.  A command reads the whole tree, decides, opens the file it    *)
(* writes (which truncates or creates it) and writes it; it can be killed  *)
(* at any step.  The store is the repo's: elsewhere `mark` is refused.     *)
(***************************************************************************)
EXTENDS TicketTree

CONSTANTS
    Procs,        \* processes that run the commands
    Trees,        \* trees to start from
    MarkAs,       \* what mark is told: a status, and whether --blocked is given
    MaxCommands,  \* commands ever run (bound of the model)
    MaxEdits,     \* edits of plans by builds, kills (bound of the model)
    ActAfterOverlap \* they go on after two overlapped (FALSE: bound of the model)

ASSUME TicketsAssumption ==
    /\ \A tr \in Trees : IsTree(tr)
    /\ MarkAs \subseteq [status : Statuses, halt : BOOLEAN]
    /\ MaxCommands \in Nat /\ MaxEdits \in Nat
    /\ ActAfterOverlap \in BOOLEAN

VARIABLES
    tree,       \* the files
    pc,         \* process -> where it is
    job,        \* process -> what it is about to write
    commands,   \* commands run so far
    edits,      \* edits of plans by builds and kills so far
    marked,     \* ticket -> what the last mark that answered was told (history)
    built,      \* folder, plan -> the body a build wrote last, but for plans a
                \* killed command left empty (history)
    pulled,     \* tickets whose leaf file a pull wrote (history)
    torn,       \* tickets whose file a killed command left empty (history)
    overlapped  \* a command or a build's edit came between another's read and
                \* its write (history)

hist == <<marked, built, pulled, torn, overlapped>>
ticketVars == <<tree, pc, job, commands, edits, hist>>

Scopes(tr) == {NoName} \cup DOMAIN tr.entry
NoJob == [key |-> NoKey, name |-> NoName, new |-> FALSE, text |-> [type |-> "none"],
          told |-> [status |-> "", halt |-> FALSE]]
Cut == [type |-> "cut"]

\* A function with a value for one more key, or another one for a key it has.
With(f, k, v) == [x \in DOMAIN f \cup {k} |-> IF x = k THEN v ELSE f[x]]

\* A tree that does not load is not started from.
Starting == {tr \in Trees : \A s \in Scopes(tr) : Loads(tr, s)}

TicketsInit ==
    /\ tree \in Starting
    /\ pc = [p \in Procs |-> "idle"] /\ job = [p \in Procs |-> NoJob]
    /\ commands = 0 /\ edits = 0
    /\ marked = [k \in {} |-> NoJob.told] /\ built = [k \in {} |-> 0]
    /\ pulled = {} /\ torn = {} /\ overlapped = FALSE

MayGo == ActAfterOverlap \/ ~overlapped
Busy == \E p \in Procs : pc[p] # "idle"

Starts(p, step, j) ==
    /\ pc[p] = "idle" /\ commands < MaxCommands /\ MayGo
    /\ pc' = [pc EXCEPT ![p] = step]
    /\ job' = [job EXCEPT ![p] = j]
    /\ commands' = commands + 1
    /\ overlapped' = (overlapped \/ Busy)
    /\ UNCHANGED <<tree, edits, marked, built, pulled, torn>>

-----------------------------------------------------------------------------
(* mark                                                                    *)

\* Faulty variant of MarkedPlan: the blocked fields are set, never cleared.
MarkedPlanSticky(tr, t, status, halt) ==
    IF t.plan = NoName
    THEN [type |-> "plan", id |-> t.id, file |-> IF t.id = NoId THEN t.file ELSE NoName,
          status |-> status, halted |-> halt, body |-> 0]
    ELSE [tr.plan[t.key.folder][t.plan] EXCEPT !.status = status, !.halted = @ \/ halt]

\* The plan's text with the status set and the blocked fields set or cleared;
\* the rest of an existing plan, its body too, as it was read.
MarkedPlan(tr, t, status, halt) ==
    IF t.plan = NoName
    THEN [type |-> "plan", id |-> t.id, file |-> IF t.id = NoId THEN t.file ELSE NoName,
          status |-> status, halted |-> halt, body |-> 0]
    ELSE [tr.plan[t.key.folder][t.plan] EXCEPT !.status = status, !.halted = halt]

\* What a user can type for a ticket of the tree.
Refs(tr) ==
    UNION {{RowRef(tr, NoName, t), NameRef(t.stem)} : t \in Rows(tr, NoName)}

\* cmd_mark up to its write: refused when the tree does not load, or the
\* reference does not name one ticket.
MarkRead(p, scope) ==
    /\ pc[p] = "idle" /\ commands < MaxCommands /\ MayGo
    /\ LET loaded == Resolved(tree, scope)
       IN /\ Accepted(tree, scope, loaded)
          /\ \E ref \in Refs(tree) :
               LET hits == Matches(tree, scope, loaded, ref)
               IN \E t \in hits, m \in MarkAs :
                    /\ hits = {t}
                    /\ Starts(p, "open_plan",
                         [key |-> t.key, name |-> PlanPath(t), new |-> t.plan = NoName,
                          text |-> MarkedPlan(tree, t, m.status, m.halt), told |-> m])

\* path.open: "xb" refuses a plan file that is there by now, "wb" truncates.
MarkOpen(p) ==
    LET f == job[p].key.folder
        taken == job[p].new /\ job[p].name \in DOMAIN tree.plan[f]
    IN /\ pc[p] = "open_plan"
       /\ pc' = [pc EXCEPT ![p] = IF taken THEN "idle" ELSE "write_plan"]
       /\ tree' = IF taken THEN tree
                  ELSE [tree EXCEPT !.plan[f] = With(@, job[p].name, Cut)]
       /\ UNCHANGED <<job, commands, edits, hist>>

MarkWrite(p) ==
    /\ pc[p] = "write_plan" /\ pc' = [pc EXCEPT ![p] = "idle"]
    /\ tree' = [tree EXCEPT !.plan[job[p].key.folder][job[p].name] = job[p].text]
    /\ marked' = With(marked, job[p].key, job[p].told)
    /\ torn' = torn \ {job[p].key}
    /\ UNCHANGED <<job, commands, edits, built, pulled, overlapped>>

-----------------------------------------------------------------------------
(* pull                                                                    *)

\* The leaf file of an entry: `after` as the plan writes it, no status.
PulledLeaf(tr, t) ==
    [type |-> t.type, id |-> t.id, tracker |-> NoName, status |-> "", mirrored |-> "",
     refined |-> FALSE, hitl |-> t.hitl, halted |-> FALSE,
     after |-> {RefOf(tr, k, t.key.folder) : k \in t.after}]

\* cmd_pull up to its write: refused when the tree does not load, the entry is
\* pulled already, or a file has the name the leaf would get.
PullRead(p, f, n) ==
    /\ pc[p] = "idle" /\ commands < MaxCommands /\ MayGo
    /\ n \in DOMAIN tree.entry[f]
    /\ LET loaded == Resolved(tree, f)
       IN /\ Accepted(tree, f, loaded)
          /\ \E t \in loaded.tickets :
               /\ t.key = Key(f, n, NoName) /\ t.file = NoName /\ t.stem \notin DOMAIN tree.leaf[f]
               /\ Starts(p, "open_leaf", [key |-> t.key, name |-> t.stem, new |-> TRUE,
                                          text |-> PulledLeaf(tree, t), told |-> NoJob.told])

PullOpen(p) ==
    /\ pc[p] = "open_leaf" /\ pc' = [pc EXCEPT ![p] = "write_leaf"]
    /\ tree' = [tree EXCEPT !.leaf[job[p].key.folder] = With(@, job[p].name, Cut)]
    /\ UNCHANGED <<job, commands, edits, hist>>

PullWrite(p) ==
    /\ pc[p] = "write_leaf" /\ pc' = [pc EXCEPT ![p] = "idle"]
    /\ tree' = [tree EXCEPT !.leaf[job[p].key.folder][job[p].name] = job[p].text]
    /\ pulled' = pulled \cup {job[p].key}
    /\ UNCHANGED <<job, commands, edits, marked, built, torn, overlapped>>

-----------------------------------------------------------------------------
(* Around them.                                                            *)

\* Killed between the open and the write, a command leaves an empty file.
Killed(p) ==
    /\ pc[p] # "idle" /\ pc' = [pc EXCEPT ![p] = "idle"]
    /\ edits < MaxEdits /\ edits' = edits + 1
    /\ torn' = IF pc[p] \in {"write_plan", "write_leaf"} THEN torn \cup {job[p].key} ELSE torn
    /\ built' = IF pc[p] = "write_plan" THEN Restrict(built, DOMAIN built \ {<<job[p].key.folder, job[p].name>>})
                ELSE built
    /\ UNCHANGED <<tree, job, commands, marked, pulled, overlapped>>

\* A build writes its own plan file.
BuildWrites(f, s) ==
    /\ MayGo /\ edits < MaxEdits /\ edits' = edits + 1
    /\ s \in DOMAIN tree.plan[f] /\ tree.plan[f][s].type = "plan"
    /\ tree' = [tree EXCEPT !.plan[f][s].body = edits + 1]
    /\ built' = With(built, <<f, s>>, edits + 1)
    /\ overlapped' = (overlapped \/ Busy)
    /\ UNCHANGED <<pc, job, commands, marked, pulled, torn>>

\* Somebody refines a leaf file, or closes an epic in its own file.
Refine(f, s) ==
    /\ MayGo /\ ~Busy /\ s \in Leaves(tree, f) /\ ~tree.leaf[f][s].refined
    /\ tree' = [tree EXCEPT !.leaf[f][s].refined = TRUE]
    /\ UNCHANGED <<pc, job, commands, edits, hist>>

Close(e) ==
    /\ MayGo /\ ~Busy /\ tree.container[e].status # "done"
    /\ tree' = [tree EXCEPT !.container[e].status = "done"]
    /\ UNCHANGED <<pc, job, commands, edits, hist>>

TicketsNext ==
    \/ \E p \in Procs :
         \/ \E s \in Scopes(tree) : MarkRead(p, s)
         \/ MarkOpen(p) \/ MarkWrite(p)
         \/ \E f \in DOMAIN tree.entry : \E n \in DOMAIN tree.entry[f] : PullRead(p, f, n)
         \/ PullOpen(p) \/ PullWrite(p) \/ Killed(p)
    \/ \E f \in DOMAIN tree.entry :
         \/ \E s \in DOMAIN tree.plan[f] : BuildWrites(f, s)
         \/ \E s \in DOMAIN tree.leaf[f] : Refine(f, s)
    \/ \E e \in Epics(tree) : Close(e)

TicketsSpec == TicketsInit /\ [][TicketsNext]_ticketVars

-----------------------------------------------------------------------------
(* What the proofs ask of the trees that are started from.                 *)

TrackerIds(tr) ==
    {tr.container[e].tracker : e \in Epics(tr)}
    \cup UNION {{tr.leaf[f][s].tracker : s \in Leaves(tr, f)} : f \in DOMAIN tr.entry}

\* A name means one thing: a leaf file or an entry is not named like an epic,
\* an epic or an entry not like a tracker id, and no two tickets or epics have
\* one tracker id.
WellNamed(tr) ==
    /\ \A f \in DOMAIN tr.entry :
         /\ \A n \in DOMAIN tr.entry[f] : tr.entry[f][n].stem \notin Epics(tr) \cup TrackerIds(tr)
         /\ \A s \in Leaves(tr, f) : s \notin Epics(tr)
    /\ TrackerIds(tr) \cap Epics(tr) = {}
    /\ \A f, g \in DOMAIN tr.entry : \A s \in Leaves(tr, f) : \A r \in Leaves(tr, g) :
         tr.leaf[f][s].tracker = tr.leaf[g][r].tracker /\ tr.leaf[f][s].tracker # NoName => f = g /\ s = r
    /\ \A e, g \in Epics(tr) :
         tr.container[e].tracker = tr.container[g].tracker /\ tr.container[e].tracker # NoName => e = g
    /\ \A e \in Epics(tr) : \A f \in DOMAIN tr.entry : \A s \in Leaves(tr, f) :
         tr.leaf[f][s].tracker # NoName => tr.leaf[f][s].tracker # tr.container[e].tracker

\* A plan that names a file names no file that an entry would be given.
PlansNameFiles(tr) ==
    \A f \in DOMAIN tr.entry : \A p \in DOMAIN tr.plan[f] :
      tr.plan[f][p].type = "plan" /\ tr.plan[f][p].id = NoId =>
        \/ tr.plan[f][p].file \in Leaves(tr, f)
        \/ \A n \in DOMAIN tr.entry[f] : tr.entry[f][n].stem # tr.plan[f][p].file

\* The plan can write what an entry waits for: an epic, a ticket that has an id
\* beside it or in an epic that has one.
Written(tr, f, k) ==
    \/ k.id = NoId /\ k.file = NoName
    \/ k.id # NoId /\ (k.folder = f \/ (k.folder \in Epics(tr) /\ tr.number[k.folder] # NoId))
Writable(tr) ==
    \A s \in Scopes(tr) : \A t \in Resolved(tr, s).tickets :
      t.file = NoName => \A k \in t.after : Written(tr, t.key.folder, k)

\* Ids are given where the epics are listed, and the name of a leaf file
\* without one is its own.
Findable(tr) ==
    /\ \A f \in DOMAIN tr.entry :
         \/ f \in Epics(tr) /\ tr.number[f] # NoId
         \/ DOMAIN tr.entry[f] = {} /\ \A s \in Leaves(tr, f) : tr.leaf[f][s].id = NoId
    /\ \A f, g \in DOMAIN tr.entry : \A s \in Leaves(tr, f) :
         tr.leaf[f][s].id = NoId /\ f # g =>
           s \notin Leaves(tr, g) /\ \A n \in DOMAIN tr.entry[g] : tr.entry[g][n].stem # s

WellKept(tr) == WellNamed(tr) /\ PlansNameFiles(tr) /\ Writable(tr)

-----------------------------------------------------------------------------
(***************************************************************************)
(* Properties.                                                             *)
(***************************************************************************)

\* The commands never write what they cannot read: a tree that loads still
\* loads after any of them, in every folder, and the leaf file a pull wrote
\* says what its entry says (no `drift`).
TreeStaysSound ==
    ~overlapped =>
      \A s \in Scopes(tree) :
        LET loaded == Resolved(tree, s)
        IN /\ Accepted(tree, s, loaded)
           /\ \A t \in loaded.tickets : t.key \in pulled \ torn => ~t.drift

\* A mark that answered stands: the ticket reads with the status it was given
\* until the next mark, and the body a build wrote is still in its plan.  A
\* killed command can take back that of its own ticket and plan only.
MarksStand ==
    ~overlapped /\ ~Busy =>
      /\ \A t \in Resolved(tree, NoName).tickets :
           t.key \in DOMAIN marked \ torn =>
             t.status = marked[t.key].status /\ t.halted = marked[t.key].halt
      /\ \A d \in DOMAIN built :
           LET plan == tree.plan[d[1]][d[2]] IN plan.type = "plan" /\ plan.body = built[d]

\* A tree that loads never stalls unnoticed: while a ticket is left, `next`
\* lists one to refine, to start or under way, or one that was blocked by
\* hand, or else a dropped prerequisite is in the way ("a dropped prerequisite
\* still blocks", tickets.py:35) or an epic whose tickets are all settled has
\* not been marked done.
NoStall ==
    ~overlapped =>
      LET loaded == Resolved(tree, NoName)
          group == [t \in loaded.tickets |-> Group(tree, loaded, t)]
          left == {t \in loaded.tickets : group[t] # "settled"}
          dropped == {t.key : t \in {t \in loaded.tickets : t.state = "dropped"}}
      IN \/ \A t \in left : FALSE
         \/ \E t \in left : group[t] # "waiting"
         \/ dropped \cap Reached(Waits(loaded), {t.key : t \in left}) # {}
         \/ \E e \in DOMAIN loaded.gates :
              /\ tree.container[e].status # "done"
              /\ \A t \in left : t.key.folder # e

\* "Each row of next, status, and find carries `ref`, a reference find resolves
\* in the folder the command ran on" (tickets.py:53), where every epic is
\* listed and no two leaf files of the tree have one name (README).
RefFinds ==
    ~overlapped =>
      \A s \in Scopes(tree) :
        LET loaded == Resolved(tree, s)
        IN \A t \in InScope(loaded, s) : Matches(tree, s, loaded, RowRef(tree, s, t)) = {t}

\* "A key as the plan writes it" (tickets.py:563): what pull writes under
\* `after` is what the reader takes for the same tickets.  It is not when the
\* prerequisite is a leaf file without an id.
WrittenRefsResolve ==
    ~overlapped => \A s \in Scopes(tree) : \A t \in Resolved(tree, s).tickets : NoKey \notin t.after

=============================================================================
