------------------------------ MODULE Layering ------------------------------
(***************************************************************************)
(* What a skill's customization layers merge to (config_utils.py), and the *)
(* catalogues that are laid over it by brain.py and pick_methods.py.       *)
(*                                                                         *)
(* A layer is the table of one TOML file as far as a keyed array goes: its *)
(* items, and whether the file is there, parses, and sets another key that *)
(* the skill does not declare ("stray").  An item has a code, a            *)
(* name and the layer it was written in; a catalogue row has a number too. *)
(***************************************************************************)
EXTENDS Naturals, SequencesExt, FiniteSetsExt

NoCode == "no code"      \* an item without the key
BadCode == ""            \* one whose key is empty or no string
NoNum == 0

LayerNames == <<"base", "team", "user">>
NoLayer == [state |-> "absent", items |-> <<>>]

Codes(items) == {items[i].code : i \in DOMAIN items}
NamesOf(items) == {items[i].name : i \in DOMAIN items}

\* _detect_keyed_merge_field: every item has the key; a bad one is an error.
Keyed(items) == items # <<>> /\ NoCode \notin Codes(items)
KeyError(base, over) ==
    /\ base # <<>> /\ over # <<>>
    /\ Keyed(base \o over) /\ BadCode \in Codes(base \o over)

\* The members of a sequence that are in a set, in order.
Only(s, S) ==
    LET kept[i \in 0..Len(s)] ==
          IF i = 0 THEN <<>>
          ELSE IF s[i] \in S THEN Append(kept[i-1], s[i]) ELSE kept[i-1]
    IN kept[Len(s)]

\* The place an item goes to in a list that is indexed by a field: that of the
\* last item with the same value, or the end.
LastWith(list, field, value) == SelectLastInSeq(list, LAMBDA o : o[field] = value)
Put(list, item, field) ==
    LET at == LastWith(list, field, item[field])
    IN IF at = 0 THEN Append(list, item) ELSE [list EXCEPT ![at] = item]
PutAll(list, items, field) ==
    LET put[i \in 0..Len(items)] == IF i = 0 THEN list ELSE Put(put[i-1], items[i], field)
    IN put[Len(items)]

\* Faulty variant of MergeArrays: the items of `over` need not have the key.
MergeArraysHalf(base, over) ==
    IF base # <<>> /\ ~Keyed(base) THEN base \o over ELSE PutAll(base, over, "code")

\* _merge_arrays: by key when every item of both has it, else appended.
MergeArrays(base, over) ==
    IF ~Keyed(base \o over) THEN base \o over ELSE PutAll(base, over, "code")

\* load_customization: the skill's own file must be there, and every file that
\* is there must parse.  "error" stands for the ConfigError.
Items(layers, l) == IF layers[l].state \in {"there", "stray"} THEN layers[l].items ELSE <<>>
TwoMerged(layers) == MergeArrays(Items(layers, "base"), Items(layers, "team"))
Fails(layers) ==
    \/ layers["base"].state # "there" \/ \E l \in Range(LayerNames) : layers[l].state = "broken"
    \/ KeyError(Items(layers, "base"), Items(layers, "team"))
    \/ KeyError(TwoMerged(layers), Items(layers, "user"))
Merged(layers) == MergeArrays(TwoMerged(layers), Items(layers, "user"))

-----------------------------------------------------------------------------
(* The catalogues.  Names are in lower case, as both compare them.         *)

\* brain.merge_extra: an extra takes the place of the row with its name.
Techniques(rows, extras) == PutAll(rows, extras, "name")

\* Faulty variant of Renumbered: the row's number is not inherited.
RenumberedBare(list, e) == e

\* pick_methods.merge_extra: the same, but the new row keeps the number of the
\* one it replaces, unless it has one of its own.
Renumbered(list, e) ==
    LET at == LastWith(list, "name", e.name)
    IN IF at = 0 \/ e.num # NoNum THEN e ELSE [e EXCEPT !.num = list[at].num]

\* Rows still without a number get the next free ones.
NextFree(list, done) == Max({o.num : o \in Range(list) \cup Range(done)}) + 1
Numbered(list) ==
    LET numbered[i \in 0..Len(list)] ==
          IF i = 0 THEN <<>>
          ELSE LET done == numbered[i-1]
               IN Append(done, IF list[i].num # NoNum THEN list[i]
                               ELSE [list[i] EXCEPT !.num = NextFree(list, done)])
    IN numbered[Len(list)]

Methods(rows, extras) ==
    LET merged[i \in 0..Len(extras)] ==
          IF i = 0 THEN rows
          ELSE LET list == merged[i-1] IN Put(list, Renumbered(list, extras[i]), "name")
    IN Numbered(merged[Len(extras)])

\* find: by name, the last row of that name; by number, the first that has it,
\* and no name is one.
ByName(list, name) == LET at == LastWith(list, "name", name)
                      IN IF at = 0 THEN <<>> ELSE <<list[at]>>
ByNumber(list, num) == LET at == SelectInSeq(list, LAMBDA r : r.num = num)
                       IN IF at = 0 THEN <<>> ELSE <<list[at]>>

=============================================================================
