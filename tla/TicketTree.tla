------------------------------ MODULE TicketTree ------------------------------
(***************************************************************************)
(* What tickets.py reads out of a ticket tree (load_tree and the views): a *)
(* tree is a value, the text of the files of an initiative, and everything *)
(* here is a function of it.                                               *)
(*                                                                         *)
(*   tree.entry[f]      id -> entry of the folder's tickets.toml           *)
(*   tree.leaf[f]       stem -> leaf file of that name                     *)
(*   tree.plan[f]       stem -> plan file "<stem>-plan.md"                 *)
(*   tree.container[e]  the epic's own file, for the folders that are epics*)
(*   tree.number[e]     its id in the initiative's tickets.toml, or NoId  *)
(*                                                                         *)
(* An id or a name that is absent is NoId or NoName.  The build order of   *)
(* the rows, titles (an entry's is its stem) and the fields that are only  *)
(* copied (covers, estimate, assignee, ...) are left out.  A file whose    *)
(* text is cut short has type "cut": it is neither a leaf nor a plan.      *)
(***************************************************************************)
EXTENDS Naturals, SequencesExt

LeafTypes == {"story", "spike", "bug"}

Statuses == {"draft", "ready-for-dev", "in-progress", "in-review", "built",
             "done", "blocked", "dropped"}

\* STATE_OF; "" is a ticket no build has started.
StateOf(status) ==
    CASE status \in {"", "draft", "ready-for-dev"} -> "backlog"
      [] status \in {"in-progress", "blocked"} -> "in-progress"
      [] status \in {"in-review", "built"} -> "review"
      [] OTHER -> status

-----------------------------------------------------------------------------
(* Keys and references.                                                    *)

\* <folder>/<id>, <folder>/<file> for a leaf without an id, or an epic.
NoId == 0
NoName == ""
Key(f, id, file) == [folder |-> f, id |-> id, file |-> file]
NoKey == Key(NoName, NoId, NoName)

\* An item of an `after` list: an integer, "<epic id>.<entry id>", or a name
\* (an epic's slug, a file's stem, a tracker id).
IdRef(n) == [kind |-> "id", epic |-> NoId, id |-> n, name |-> NoName]
CrossRef(i, n) == [kind |-> "cross", epic |-> i, id |-> n, name |-> NoName]
NameRef(s) == [kind |-> "name", epic |-> NoId, id |-> NoId, name |-> s]

\* Only tickets and epics that have an id are named by one.
IsRef(ref) ==
    /\ ref.kind \in {"id", "cross"} => ref.id # NoId
    /\ ref.kind = "cross" => ref.epic # NoId

Epics(tree) == DOMAIN tree.container

\* The folders a command reads: all of them on the initiative (scope
\* NoName), the
\* epics on an epic's folder, the folder alone elsewhere.
FoldersRead(tree, scope) ==
    IF scope = NoName THEN DOMAIN tree.entry
    ELSE IF scope \in Epics(tree) THEN Epics(tree) ELSE {scope}

EpicsRead(tree, scope) == Epics(tree) \cap FoldersRead(tree, scope)

Leaves(tree, f) == {s \in DOMAIN tree.leaf[f] : tree.leaf[f][s].type \in LeafTypes}

\* What the files of an initiative can be.
IsTree(tree) ==
    /\ DOMAIN tree = {"entry", "leaf", "plan", "container", "number"}
    /\ DOMAIN tree.entry = DOMAIN tree.leaf /\ DOMAIN tree.entry = DOMAIN tree.plan
    /\ IsFiniteSet(DOMAIN tree.entry) /\ NoName \notin DOMAIN tree.entry
    /\ Epics(tree) \subseteq DOMAIN tree.entry /\ DOMAIN tree.number = Epics(tree)
    /\ \A e \in Epics(tree) : /\ DOMAIN tree.container[e] = {"status", "tracker", "after"}
                              /\ \A x \in tree.container[e].after : IsRef(x)
    /\ \A f \in DOMAIN tree.entry :
         /\ IsFiniteSet(DOMAIN tree.entry[f]) /\ IsFiniteSet(DOMAIN tree.leaf[f])
         /\ NoId \notin DOMAIN tree.entry[f]
         /\ NoName \notin DOMAIN tree.leaf[f] \cup DOMAIN tree.plan[f]
         /\ \A n \in DOMAIN tree.entry[f] :
              /\ tree.entry[f][n].stem # NoName /\ tree.entry[f][n].type \in LeafTypes
              /\ \A x \in tree.entry[f][n].after : IsRef(x)
         /\ \A s \in Leaves(tree, f) :
              /\ DOMAIN tree.leaf[f][s] = {"type", "id", "tracker", "status", "mirrored",
                                          "refined", "hitl", "halted", "after"}
              /\ \A x \in tree.leaf[f][s].after : IsRef(x)
         /\ \A p \in DOMAIN tree.plan[f] :
              \/ tree.plan[f][p].type = "cut"
              \/ /\ tree.plan[f][p].type = "plan"
                 /\ DOMAIN tree.plan[f][p] = {"type", "id", "file", "status", "halted", "body"}

-----------------------------------------------------------------------------
(* load_folder and join_plans: the rows.                                   *)

\* Two leaf files that share an id are refused.
IdsAreUnique(tree, f) ==
    \A s, r \in Leaves(tree, f) :
      tree.leaf[f][s].id = tree.leaf[f][r].id /\ tree.leaf[f][s].id # NoId => s = r

\* The leaf file that joins entry or ticket id n, "" when there is none.
LeafFor(tree, f, n) ==
    LET mine == {s \in Leaves(tree, f) : tree.leaf[f][s].id = n}
    IN IF mine = {} THEN NoName ELSE CHOOSE s \in mine : TRUE

\* Plans whose `ticket` joins the row of that id and file.
PlansFor(tree, f, id, file) ==
    {p \in DOMAIN tree.plan[f] :
       LET q == tree.plan[f][p]
       IN /\ q.type # "cut"
          /\ IF q.id # NoId THEN q.id = id ELSE q.file # NoName /\ q.file = file}

EntryRow(tree, f, n) ==
    LET e == tree.entry[f][n]
    IN [key |-> Key(f, n, NoName), id |-> n, file |-> NoName, type |-> e.type,
        tracker |-> NoName, status |-> "", mirrored |-> "", state |-> "planned",
        refined |-> FALSE, refine |-> e.type = "bug" \/ e.refine, hitl |-> e.hitl,
        halted |-> FALSE, raw |-> e.after, planned |-> e.after, wanted |-> e.hitl,
        joined |-> FALSE, stem |-> e.stem, plan |-> NoName]

\* A leaf file's own fields replace its entry's; one without an entry is to be
\* refined.
LeafRow(tree, f, s) ==
    LET l == tree.leaf[f][s]
        listed == l.id \in DOMAIN tree.entry[f]
        base == EntryRow(tree, f, l.id)
    IN [key |-> IF l.id # NoId THEN Key(f, l.id, NoName) ELSE Key(f, NoId, s),
        id |-> l.id, file |-> s, type |-> l.type, tracker |-> l.tracker,
        status |-> l.status, mirrored |-> l.mirrored,
        state |-> IF l.mirrored # "" THEN l.mirrored ELSE StateOf(l.status),
        refined |-> l.refined, hitl |-> l.hitl, halted |-> l.halted,
        refine |-> l.type = "bug" \/ (IF listed THEN base.refine ELSE TRUE),
        raw |-> l.after, joined |-> listed,
        planned |-> IF listed THEN base.raw ELSE {},
        wanted |-> IF listed THEN base.hitl ELSE FALSE,
        stem |-> s, plan |-> NoName]

\* A plan's status fields replace the row's; an unknown status reads as
\* blocked.
WithPlan(tree, f, row) ==
    LET plans == PlansFor(tree, f, row.id, row.file)
        p == CHOOSE x \in plans : TRUE
        q == tree.plan[f][p]
        status == IF q.status \in Statuses \cup {""} THEN q.status ELSE "blocked"
    IN IF plans = {} THEN row
       ELSE [row EXCEPT
               !.plan = p, !.status = status, !.halted = q.halted,
               !.state = IF row.mirrored # "" THEN row.mirrored ELSE StateOf(status)]

FolderRows(tree, f) ==
    LET bare == {n \in DOMAIN tree.entry[f] : LeafFor(tree, f, n) = NoName}
    IN {WithPlan(tree, f, r) :
          r \in {EntryRow(tree, f, n) : n \in bare}
                \cup {LeafRow(tree, f, s) : s \in Leaves(tree, f)}}

\* Two plans for one ticket are refused.
PlansAreUnique(tree, f) ==
    \A r \in FolderRows(tree, f) : \A p, q \in PlansFor(tree, f, r.id, r.file) : p = q

Rows(tree, scope) == UNION {FolderRows(tree, f) : f \in FoldersRead(tree, scope)}

-----------------------------------------------------------------------------
(* _resolve: what an `after` list names.                                   *)

\* The key a name stands for: the leaf file of a sibling, an epic, or a
\* tracker id.  An epic's own list has no siblings.
NameKey(tree, scope, rows, f, isTicket, s) ==
    LET mates == {r.key : r \in {r \in rows : isTicket /\ r.key.folder = f /\ r.file = s}}
        tracked == {r.key : r \in {r \in rows : r.tracker = s}}
        epics == {e \in EpicsRead(tree, scope) : tree.container[e].tracker = s}
    IN IF s = NoName THEN NoKey
       ELSE IF mates # {} THEN CHOOSE k \in mates : TRUE
       ELSE IF s \in EpicsRead(tree, scope) THEN Key(s, NoId, NoName)
       ELSE IF tracked # {} THEN CHOOSE k \in tracked : TRUE
       ELSE IF epics # {} THEN Key(CHOOSE e \in epics : TRUE, NoId, NoName)
       ELSE NoKey

\* NoKey when the reference matches nothing: the tree is then refused.
Resolve(tree, scope, rows, f, isTicket, ref) ==
    LET keys == {r.key : r \in rows}
        sibling == Key(f, ref.id, NoName)
        there == {Key(e, ref.id, NoName) : e \in {e \in Epics(tree) : tree.number[e] = ref.epic}}
    IN CASE ref.kind = "id" -> IF isTicket /\ sibling \in keys THEN sibling ELSE NoKey
         [] ref.kind = "cross" -> IF there \cap keys = {} THEN NoKey
                                  ELSE CHOOSE k \in there : TRUE
         [] OTHER -> NameKey(tree, scope, rows, f, isTicket, ref.name)

ResolveAll(tree, scope, rows, f, isTicket, refs) ==
    {Resolve(tree, scope, rows, f, isTicket, x) : x \in refs}

\* The rows with `after` and `gated_by` as keys, and `drift`: the leaf file
\* and its entry no longer say the same.
Resolved(tree, scope) ==
    LET rows == Rows(tree, scope)
        gates == [e \in EpicsRead(tree, scope) |->
                    ResolveAll(tree, scope, rows, e, FALSE, tree.container[e].after)]
        after(r) == ResolveAll(tree, scope, rows, r.key.folder, TRUE, r.raw)
        planned(r) == ResolveAll(tree, scope, rows, r.key.folder, TRUE, r.planned)
    IN [tickets |->
          {[key |-> r.key, id |-> r.id, file |-> r.file, stem |-> r.stem, type |-> r.type,
            tracker |-> r.tracker, status |-> r.status, state |-> r.state,
            refine |-> r.refine, refined |-> r.refined, hitl |-> r.hitl,
            halted |-> r.halted, plan |-> r.plan, after |-> after(r),
            planned |-> planned(r),
            gated |-> IF r.key.folder \in DOMAIN gates THEN gates[r.key.folder] ELSE {},
            drift |-> r.joined /\ (planned(r) # after(r) \/ r.wanted # r.hitl)] : r \in rows},
        gates |-> gates]

-----------------------------------------------------------------------------
(* load_tree.                                                              *)

\* Faulty variant of Waits: an epic stands for nothing.
WaitsForTickets(loaded) ==
    LET tickets == {t.key : t \in loaded.tickets}
    IN [k \in tickets \cup {Key(e, NoId, NoName) : e \in DOMAIN loaded.gates} |->
          IF k \in tickets THEN UNION {t.after \cup t.gated : t \in {t \in loaded.tickets : t.key = k}}
          ELSE {}]

\* What _check_cycles walks from a ticket: its `after` and its gates; from an
\* epic, all its tickets and its own gates.
Waits(loaded) ==
    LET tickets == {t.key : t \in loaded.tickets}
        epics == {Key(e, NoId, NoName) : e \in DOMAIN loaded.gates}
        own(k) == CHOOSE t \in loaded.tickets : t.key = k
    IN [k \in tickets \cup epics |->
          IF k \in tickets THEN own(k).after \cup own(k).gated
          ELSE {q \in tickets : q.folder = k.folder} \cup loaded.gates[k.folder]]

\* Everything reached from a set of keys in any number of steps.
Reached(waits, keys) ==
    LET reach[i \in 0..Cardinality(DOMAIN waits)] ==
          IF i = 0 THEN keys
          ELSE LET had == reach[i-1] IN had \cup UNION {waits[k] : k \in had}
    IN reach[Cardinality(DOMAIN waits)]

\* Keys left after dropping, again and again, those that wait for none left.
HasCycle(loaded) ==
    LET waits == Waits(loaded)
        left[i \in 0..Cardinality(DOMAIN waits)] ==
          IF i = 0 THEN Reached(waits, {t.key : t \in loaded.tickets})
          ELSE LET had == left[i-1] IN {k \in had : waits[k] \cap had # {}}
    IN left[Cardinality(DOMAIN waits)] # {}

\* load_tree accepts the tree, read as `loaded`: ids and plans are unique, every
\* reference names something, nothing waits for itself.  The epics listed have
\* distinct ids.
Accepted(tree, scope, loaded) ==
    /\ \A f \in FoldersRead(tree, scope) : IdsAreUnique(tree, f) /\ PlansAreUnique(tree, f)
    /\ \A e, g \in Epics(tree) : tree.number[e] = tree.number[g] /\ tree.number[e] # NoId => e = g
    /\ \A t \in loaded.tickets : NoKey \notin t.after \cup t.planned
    /\ \A e \in DOMAIN loaded.gates : NoKey \notin loaded.gates[e]
    /\ ~HasCycle(loaded)

Loads(tree, scope) == Accepted(tree, scope, Resolved(tree, scope))

-----------------------------------------------------------------------------
(* The views.                                                              *)

InScope(loaded, scope) == {t \in loaded.tickets : scope = NoName \/ t.key.folder = scope}

DoneKeys(tree, loaded) ==
    {t.key : t \in {t \in loaded.tickets : t.state = "done"}}
    \cup {Key(e, NoId, NoName) : e \in {e \in DOMAIN loaded.gates : tree.container[e].status = "done"}}

\* classify, for one ticket.  A ticket in review meets an `after`; an epic
\* gate waits for the epic to be done.
Group(tree, loaded, t) ==
    LET done == DoneKeys(tree, loaded)
        met == done \cup {r.key : r \in {r \in loaded.tickets : r.state = "review"}}
    IN IF t.state \in {"done", "dropped"} THEN "settled"
       ELSE IF t.status = "blocked" \/ t.halted THEN "halted"
       ELSE IF t.state \in {"in-progress", "review"} THEN "in_progress"
       ELSE IF ~(t.after \subseteq met /\ t.gated \subseteq done) THEN "waiting"
       ELSE IF t.refine /\ ~t.refined THEN "ready_to_refine" ELSE "ready_to_start"

\* Faulty variant of RefOf: the folder is not compared.
RefOfAnywhere(tree, k, f) == IF k.id # NoId THEN IdRef(k.id) ELSE NameRef(k.folder)

\* ref: a key as the plan writes it from folder f.
RefOf(tree, k, f) ==
    IF k.id = NoId /\ k.file = NoName THEN NameRef(k.folder)
    ELSE IF k.id # NoId /\ k.folder = f THEN IdRef(k.id)
    ELSE IF k.id # NoId /\ k.folder \in Epics(tree) /\ tree.number[k.folder] # NoId
         THEN CrossRef(tree.number[k.folder], k.id)
    ELSE NameRef("<folder>/<file>")

\* Faulty variant of RowRef: the id alone, wherever the command ran.
RowRefBare(tree, scope, t) == IF t.id # NoId THEN IdRef(t.id) ELSE NameRef(t.file)

\* row_ref: what a row says `find` takes.
RowRef(tree, scope, t) ==
    IF t.id # NoId /\ t.key.folder \in Epics(tree) /\ tree.number[t.key.folder] # NoId
    THEN CrossRef(tree.number[t.key.folder], t.id)
    ELSE IF t.id # NoId /\ t.key.folder = scope THEN IdRef(t.id)
    ELSE NameRef(t.file)

\* resolve_ticket: the tickets a reference matches; find and mark want one.
\* A name is tried as a file in scope, as a file anywhere, as a tracker id, as
\* a title.
Matches(tree, scope, loaded, ref) ==
    LET all == loaded.tickets
        mine == InScope(loaded, scope)
        pools == CASE ref.kind = "cross" ->
                        <<{t \in all : /\ t.id = ref.id /\ t.key.folder \in Epics(tree)
                                      /\ tree.number[t.key.folder] = ref.epic}>>
                   [] ref.kind = "id" ->
                        <<{t \in all : scope # NoName /\ t.key.folder = scope /\ t.id = ref.id}>>
                   [] OTHER ->
                        <<{t \in mine : t.file = ref.name}, {t \in all : t.file = ref.name},
                          {t \in all : t.tracker = ref.name}, {t \in mine : t.stem = ref.name}>>
        hit == SelectInSeq(pools, LAMBDA pool : pool # {})
    IN IF ref = NameRef(NoName) \/ hit = 0 THEN {} ELSE pools[hit]

\* plan_path: the plan a ticket has, or would be given.
PlanPath(t) == IF t.plan # NoName THEN t.plan ELSE t.stem

=============================================================================
