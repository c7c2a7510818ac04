----------------------------- MODULE RenderRun -----------------------------
(***************************************************************************)
(* render_skill.py as processes on the _bmad folder: read the central      *)
(* config, then the customization of the skill; render every source; write *)
(* the files and their manifest into a staging folder under _bmad/render   *)
(* and rename it to the name the inputs hash to.  A generation that exists *)
(* is verified and used.                                                   *)
(*                                                                         *)
(* One skill is rendered.  A generation is named by the values its         *)
(* templates read, which is what the identity hash distinguishes while the *)
(* sources, the renderer and the paths stay the same; a file of it is      *)
(* named with the values it was rendered from.                             *)
(***************************************************************************)
EXTENDS BmadTree

CONSTANTS
    Skill,        \* the skill that is rendered
    Sources,      \* its sources in sort order, Entry among them
    Used(_),      \* the values its templates read, of those they are given
    Blank(_, _),  \* whether a source renders to nothing with these values
    Links(_, _),  \* the sources it names with rendered() then
    MaxRenders    \* renders ever started (bound of the model)

VARIABLES
    rpc,          \* renderer -> where it is
    values,       \* renderer -> the config and customization it has read
    todo,         \* renderer -> the outputs it has still to write
    renders,
    answered      \* generations a caller was told to follow (history)

renderVars == <<rpc, values, todo, renders, answered>>

NoValues == [team |-> <<>>, user |-> <<>>, custom |-> 0]
Manifest == "manifest.json"
Entry == "workflow.md"

RenderInit ==
    /\ rpc = [r \in Renderers |-> "idle"] /\ values = [r \in Renderers |-> NoValues]
    /\ todo = [r \in Renderers |-> {}] /\ renders = 0 /\ answered = {}

At(r, where) == rpc' = [rpc EXCEPT ![r] = where]
Rest(r) ==
    /\ At(r, "idle") /\ values' = [values EXCEPT ![r] = NoValues]
    /\ todo' = [todo EXCEPT ![r] = {}]

\* The name of a generation, and the files a whole one has.
Key(r) == Used(values[r])
Made(f, key) == <<f, key>>

\* _render_sources: a source that renders to nothing is left out.
Outputs(key) == {f \in Range(Sources) : ~Blank(f, key)}

\* The entry may not be, and none that stays may name one that is.
Renders(key) ==
    /\ Entry \in Outputs(key)
    /\ \A f \in Outputs(key) : Links(f, key) \subseteq Outputs(key)

Whole(key) == {Made(f, key) : f \in Outputs(key) \cup {Manifest}}

Generation(tree, key) == {g \in tree.gens : g.key = key}

\* load_central_config: config.toml must be there, and custom/config.user.toml
\* is read after it.
ReadConfig(r) ==
    /\ rpc[r] = "idle" /\ renders < MaxRenders
    /\ bmad.there /\ bmad.config
    /\ renders' = renders + 1
    /\ values' = [values EXCEPT ![r] = [NoValues EXCEPT !.team = bmad.team, !.user = bmad.user]]
    /\ At(r, "custom") /\ UNCHANGED <<bmad, todo, answered>>

\* load_customization: a layer that is not there counts as empty.
ReadCustom(r) ==
    /\ rpc[r] = "custom"
    /\ values' = [values EXCEPT ![r].custom = bmad.custom[Skill]]
    /\ At(r, "render") /\ UNCHANGED <<bmad, todo, renders, answered>>

\* The staging folder is removed, if it is still there.
Unstaged(r, tree) == [tree EXCEPT !.staging[r] = NoStaging]

\* _verify_existing on the generation under the key: the caller is told to
\* follow it, or the render halts.
Verify(r) ==
    /\ Rest(r) /\ bmad' = Unstaged(r, bmad) /\ UNCHANGED renders
    /\ answered' = IF \E g \in Generation(bmad, Key(r)) : g.files = Whole(Key(r))
                   THEN answered \cup {Key(r)} ELSE answered

Halt(r) == Rest(r) /\ bmad' = Unstaged(r, bmad) /\ UNCHANGED <<renders, answered>>

\* Both passes over the sources; nothing has been written yet.
Pass(r) ==
    /\ rpc[r] = "render"
    /\ IF Renders(Key(r)) THEN At(r, "publish") /\ UNCHANGED <<values, todo>> ELSE Rest(r)
    /\ UNCHANGED <<bmad, renders, answered>>

\* Faulty variant of Begin: the folder gets its name before its files.
BeginInPlace(r) ==
    /\ rpc[r] = "publish"
    /\ IF Generation(bmad, Key(r)) # {} THEN Verify(r)
       ELSE /\ bmad' = [bmad EXCEPT !.there = TRUE, !.staging[r] = {},
                                    !.gens = @ \cup {[key |-> Key(r), files |-> {}]}]
            /\ todo' = [todo EXCEPT ![r] = Outputs(Key(r))]
            /\ At(r, "write") /\ UNCHANGED <<values, renders, answered>>

\* _publish: the folders above are made, _bmad too when it is gone.  A
\* generation of the name is verified, else a staging folder is made.
Begin(r) ==
    /\ rpc[r] = "publish"
    /\ IF Generation(bmad, Key(r)) # {} THEN Verify(r)
       ELSE /\ bmad' = [bmad EXCEPT !.there = TRUE, !.staging[r] = {}]
            /\ todo' = [todo EXCEPT ![r] = Outputs(Key(r))]
            /\ At(r, "write") /\ UNCHANGED <<values, renders, answered>>

\* The next source goes into the staging folder, which is made again when it
\* is gone.
Position(f) == SelectInSeq(Sources, LAMBDA s : s = f)
WriteSource(r) ==
    /\ rpc[r] = "write"
    /\ \E f \in todo[r] :
         /\ \A o \in todo[r] : Position(f) <= Position(o)
         /\ bmad' = [bmad EXCEPT !.there = TRUE,
                                 !.staging[r] = (IF @ = NoStaging THEN {} ELSE @) \cup {Made(f, Key(r))}]
         /\ todo' = [todo EXCEPT ![r] = @ \ {f}]
    /\ UNCHANGED <<rpc, values, renders, answered>>

\* The manifest is not: without the folder the render halts.
WriteManifest(r) ==
    /\ rpc[r] = "write" /\ todo[r] = {}
    /\ IF bmad.staging[r] = NoStaging THEN Halt(r)
       ELSE /\ bmad' = [bmad EXCEPT !.staging[r] = @ \cup {Made(Manifest, Key(r))}]
            /\ At(r, "rename") /\ UNCHANGED <<values, todo, renders, answered>>

\* The rename; when it fails because another renderer was first, or because
\* the staging folder is gone, an existing generation is verified.
Publish(r) ==
    /\ rpc[r] = "rename"
    /\ IF Generation(bmad, Key(r)) # {} THEN Verify(r)
       ELSE IF bmad.staging[r] = NoStaging THEN Halt(r)
       ELSE /\ bmad' = [Unstaged(r, bmad) EXCEPT
                          !.gens = @ \cup {[key |-> Key(r), files |-> bmad.staging[r]]}]
            /\ answered' = answered \cup {Key(r)} /\ Rest(r) /\ UNCHANGED renders

\* A killed render leaves its staging folder behind.
KillRender(r) ==
    /\ rpc[r] # "idle" /\ Rest(r) /\ UNCHANGED <<bmad, renders, answered>>

RenderStep(r) ==
    \/ ReadConfig(r) \/ ReadCustom(r) \/ Pass(r) \/ Begin(r) \/ WriteSource(r) \/ WriteManifest(r)
    \/ Publish(r)

=============================================================================
