-------------------------------- MODULE Lenses --------------------------------
(***************************************************************************)
(* What a render makes of a skill's list of review layers                  *)
(* (render_skill.py): the three layers of files, an overrides file and the *)
(* --set assignments of the call, merged, checked and shown.  The list is  *)
(* the keyed array of Layering; an item's code is a review layer's id and  *)
(* its name the instruction, "" to turn it off.  A call is the items of    *)
(* its file, whether that file sets another key, and the assignments, each *)
(* a path and items.  The skill ships a customize.toml.                    *)
(***************************************************************************)
EXTENDS Layering

Key == <<"workflow", "review_layers">>

\* _check_persistent_layers: a file of team or user sets a key the skill does
\* not declare.
Undeclared(layers) == \E l \in {"team", "user"} : layers[l].state = "stray"

\* _invocation_customization: two assignments where one path leads into the
\* other, or one to what is not declared.
SetsClash(sets) ==
    \/ \E i, j \in DOMAIN sets : i < j /\ (IsPrefix(sets[i].path, sets[j].path) \/ IsPrefix(sets[j].path, sets[i].path))
    \/ \E i \in DOMAIN sets : ~IsPrefix(sets[i].path, Key)

SetItems(call) == IF call.sets = <<>> THEN <<>> ELSE call.sets[1].items

\* The layers of the call, merged over those of the files.
WithFile(layers, call) == MergeArrays(Merged(layers), call.file)
Effective(layers, call) == MergeArrays(WithFile(layers, call), SetItems(call))

\* The keys a call supplies, of which the templates must read every one.
Supplies(call) == call.file # <<>> \/ call.sets # <<>>

\* _require_review_layers: each has an id of its own.
IdsRefused(list) ==
    {NoCode, BadCode} \cap Codes(list) # {} \/ Cardinality(Codes(list)) < Len(list)

\* _resolve_customization_value: a list is checked by what the skill ships, and
\* one that ships an empty list takes strings only.
ListRefused(layers, list) ==
    IF Items(layers, "base") = <<>> THEN list # <<>> ELSE IdsRefused(list)

\* The render halts; reads says whether the templates reach the list.
Halts(layers, call, reads) ==
    \/ Fails(layers) \/ Undeclared(layers) \/ SetsClash(call.sets)
    \/ KeyError(Merged(layers), call.file) \/ KeyError(WithFile(layers, call), SetItems(call))
    \/ call.stray \/ (Supplies(call) /\ ~reads)
    \/ reads /\ ListRefused(layers, Effective(layers, call))

\* _format_review_layers: those that are not turned off, in order.
Shown(layers, call) ==
    LET list == Effective(layers, call) IN Only(list, {m \in Range(list) : m.name # ""})

=============================================================================
