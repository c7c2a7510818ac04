--------------------------- MODULE Customization ---------------------------
(***************************************************************************)
(* A project whose people, groups and catalogues change: skills come and   *)
(* go, and team and user edit the layers of one skill, the names of the    *)
(* agents and the central config.  What the scripts report is looked at    *)
(* after every change; nothing is recorded in between.                     *)
(***************************************************************************)
EXTENDS Rooms, Lenses

CONSTANTS
    StartFolders,  \* installed skills to start from
    Base,          \* the items the skill was shipped with
    Written,       \* the items team and user may write: [code, name, num]
    BaseName,      \* agent skill -> its name as shipped, Unnamed if it has none
    Nicknames,     \* names an agent may be given
    Central,       \* the [agents] tables a user may write: [code, name]
    OfferedGroups, \* the groups the rosters offer: [code, members]
    OwnGroups,     \* the user's
    Defaults,      \* the groups a user may want party mode to open with
    Calls,         \* what a render may be called with: [file, stray, sets]
    Rows,          \* the catalogue as shipped: [code, name, num, by]
    MaxItems,      \* items in a layer (bound of the model)
    MaxChanges     \* changes ever made (bound of the model)

\* What a layer, a call and a catalogue hold, and a group: add_group takes none
\* without an id, and each id once.
IsItem(m) == m = [code |-> m.code, name |-> m.name, num |-> m.num, by |-> m.by] /\ m.num \in Nat
IsItems(items) == items \in Seq(Range(items)) /\ \A i \in DOMAIN items : IsItem(items[i])
IsGroup(g) ==
    g = [code |-> g.code, members |-> g.members] /\ g.members \in Seq(Range(g.members)) /\ g.code # NoGroup

ASSUME CustomizationAssumption ==
    /\ StartFolders \subseteq Disks
    /\ IsItems(Base) /\ \A i \in DOMAIN Base : Base[i].by = "base"
    /\ \A m \in Written : DOMAIN m = {"code", "name", "num"} /\ m.num \in Nat
    /\ IsItems(Rows)
    /\ \A call \in Calls :
         /\ IsItems(call.file) /\ call.sets \in Seq(Range(call.sets))
         /\ \A i \in DOMAIN call.sets : IsItems(call.sets[i].items)
    /\ \A info \in Central : info.code # NoCode
    /\ OfferedGroups \in Seq(Range(OfferedGroups)) /\ \A g \in Range(OfferedGroups) \cup OwnGroups : IsGroup(g)
    /\ \A i, j \in DOMAIN OfferedGroups : OfferedGroups[i].code = OfferedGroups[j].code => i = j

\* The skill ships review layers, each with an id of its own, and the catalogue
\* rows with a name and a number of their own.
ASSUME ShippedAssumption ==
    /\ Base # <<>> /\ \A i, j \in DOMAIN Base : Base[i].code = Base[j].code => i = j
    /\ \A i, j \in DOMAIN Rows : Rows[i].name = Rows[j].name \/ Rows[i].num = Rows[j].num => i = j
    /\ \A i \in DOMAIN Rows : Rows[i].num # NoNum

VARIABLES
    folders,      \* the skills folder
    layers,       \* layer -> the skill's file
    nick,         \* agent skill -> layer -> the name it sets, Unnamed if none
    central,      \* the [agents] of the central config, in order
    own,          \* the user's groups
    default,      \* the group party mode opens with, NoGroup if none
    changes

customVars == <<folders, layers, nick, central, own, default, changes>>

Edited == {"team", "user"}

CustomInit ==
    /\ folders \in StartFolders
    /\ layers = [l \in Range(LayerNames) |->
                   IF l = "base" THEN [state |-> "there", items |-> Base] ELSE NoLayer]
    /\ nick = [n \in DOMAIN BaseName |-> [l \in Edited |-> Unnamed]]
    /\ central = <<>> /\ own = <<>> /\ default = NoGroup /\ changes = 0

Change == changes < MaxChanges /\ changes' = changes + 1

Install(p, n) ==
    /\ ~Present(folders, p, n) /\ Change /\ folders' = [folders EXCEPT ![<<p, n>>] = p]
    /\ UNCHANGED <<layers, nick, central, own, default>>
Uninstall(p, n) ==
    /\ Present(folders, p, n) /\ Change /\ folders' = [folders EXCEPT ![<<p, n>>] = NoPlace]
    /\ UNCHANGED <<layers, nick, central, own, default>>

Write(l, item) ==
    /\ layers[l].state \in {"absent", "there"} /\ Len(layers[l].items) < MaxItems /\ Change
    /\ layers' = [layers EXCEPT ![l] =
         [state |-> "there",
          items |-> Append(@.items, [code |-> item.code, name |-> item.name, num |-> item.num, by |-> l])]]
    /\ UNCHANGED <<folders, nick, central, own, default>>
Break(l) ==
    /\ layers[l].state = "there" /\ Change
    /\ layers' = [layers EXCEPT ![l] = [state |-> "broken", items |-> <<>>]]
    /\ UNCHANGED <<folders, nick, central, own, default>>
\* A key is misspelt, or was declared by an older version of the skill.
Misspell(l) ==
    /\ layers[l].state = "there" /\ Change /\ layers' = [layers EXCEPT ![l].state = "stray"]
    /\ UNCHANGED <<folders, nick, central, own, default>>
Erase(l) ==
    /\ layers[l].state # "absent" /\ Change /\ layers' = [layers EXCEPT ![l] = NoLayer]
    /\ UNCHANGED <<folders, nick, central, own, default>>

Rename(n, l, name) ==
    /\ nick[n][l] # name /\ Change /\ nick' = [nick EXCEPT ![n][l] = name]
    /\ UNCHANGED <<folders, layers, central, own, default>>

Describe(info) ==
    /\ info.code \notin Codes(central) /\ Change /\ central' = Append(central, info)
    /\ UNCHANGED <<folders, layers, nick, own, default>>

Gather(group) ==
    /\ own = <<>> /\ Change /\ own' = <<group>>
    /\ UNCHANGED <<folders, layers, nick, central, default>>

Prefer(code) ==
    /\ default # code /\ Change /\ default' = code
    /\ UNCHANGED <<folders, layers, nick, central, own>>

CustomNext ==
    \/ \E p \in Range(Roots), n \in Names : Install(p, n) \/ Uninstall(p, n)
    \/ \E l \in Edited : Break(l) \/ Misspell(l) \/ Erase(l) \/ \E item \in Written : Write(l, item)
    \/ \E n \in DOMAIN BaseName, l \in Edited, name \in Nicknames : Rename(n, l, name)
    \/ \E info \in Central : Describe(info)
    \/ \E group \in OwnGroups : Gather(group)
    \/ \E code \in Defaults : Prefer(code)

CustomSpec == CustomInit /\ [][CustomNext]_customVars

-----------------------------------------------------------------------------
\* agent_identity: the name of an agent after its customization.
Answers ==
    [n \in Names |->
       IF n \notin DOMAIN BaseName THEN Unnamed
       ELSE NameOr(nick[n]["user"], NameOr(nick[n]["team"], BaseName[n]))]

\* What the scripts make of the project as it is: party mode's room, and the
\* forge's with the members party mode has and with those it finds itself.
ReportOn(r, items, groups, party) ==
    [people |-> r.people, agents |-> r.agents, items |-> items, groups |-> groups, party |-> party,
     opened |-> Opened(party, r.agents, groups, default), menu |-> Menu(groups),
     forge |-> Witnesses(r.agents, r.guests, items),
     found |-> Witnesses(r.agents, r.guests, ForgeMembers(folders, layers))]
ReportOf(r, items) == ReportOn(r, items, Groups(r.groups, own), Collective(r.agents, r.guests, items))
Report(old) == ReportOf(Roster(folders, Answers, central, OfferedGroups, old), CustomMembers(layers))

-----------------------------------------------------------------------------
\* All items of the files, and those of a render's call after them.
FileItems == Items(layers, "base") \o Items(layers, "team") \o Items(layers, "user")
AllItems(call) == FileItems \o call.file \o SetItems(call)

\* Where a list has a code first, and what it has of it last.
FirstAt(items, c) == SelectInSeq(items, LAMBDA m : m.code = c)
LastOf(items, c) == items[LastWith(items, "code", c)]

\* The nearest layer that sets a code.
Nearest(c) == LayerNames[Max({i \in DOMAIN LayerNames : c \in Codes(Items(layers, LayerNames[i]))})]

ListsFollow ==
    LET merged == Merged(layers)
    IN \/ Fails(layers)
       \/ IF NoCode \notin Codes(FileItems)
          THEN /\ Cardinality(Codes(merged)) = Len(merged) /\ Codes(merged) = Codes(FileItems)
               /\ \A m \in Range(merged) : m \in Range(Items(layers, Nearest(m.code)))
               /\ \A i \in DOMAIN Base : merged[i].code = Base[i].code
          ELSE /\ merged = TwoMerged(layers) \o Items(layers, "user")
               /\ NoCode \in Codes(Items(layers, "base") \o Items(layers, "team")) => merged = FileItems

\* A render halts for what is wrong with a file or the call, or with an item
\* that has no good id, and for nothing the merge did; else it shows, in the order
\* in which they were first written, each review layer once, as it was written
\* last, but those that were turned off last.
HaltsFollow(call, reads) ==
    LET wrong == \/ Fails(layers) \/ Undeclared(layers) \/ SetsClash(call.sets) \/ call.stray
                 \/ Supplies(call) /\ ~reads
    IN Halts(layers, call, reads) <=> wrong \/ (reads /\ {NoCode, BadCode} \cap Codes(AllItems(call)) # {})
ShownFollows(call) ==
    LET all == AllItems(call)
        list == Shown(layers, call)
    IN \/ Halts(layers, call, TRUE)
       \/ /\ Range(list) = {LastOf(all, c) : c \in {d \in Codes(all) : LastOf(all, d).name # ""}}
          /\ \A i, j \in DOMAIN list : i < j => FirstAt(all, list[i].code) < FirstAt(all, list[j].code)
RenderFollows(call) == ShownFollows(call) /\ \A reads \in BOOLEAN : HaltsFollow(call, reads)

\* The merged list has each code once, with the item of the nearest layer that
\* sets it, and whoever was there before stays in place; once a layer has an
\* item without a code, what it and the layers after it write is appended and
\* nothing is lost (structural_merge).
\* A render shows the same list with the layers of its call over it, whatever
\* it was called with, or halts for a reason that is in one of the files or the
\* call ("validated where consumed", render_skill.py:588).
NearestWins == ListsFollow /\ \A call \in Calls : RenderFollows(call)

AgentsKept(r) ==
    LET pool == r.party.pool
        index == r.party.index
        seats == Seats(r.party, r.agents)
        names == NamesOf(r.people) \cup NamesOf(r.agents) \cup NamesOf(r.items) \cup {pool[c].name : c \in DOMAIN pool}
        shared == {PartyAlias[c] : c \in {a \in DOMAIN pool : \E b \in DOMAIN pool \ {a} : PartyAlias[a] = PartyAlias[b]}}
        skills(c) == {m.skill : m \in {o \in Range(Rosters(folders)) : o.code = c}}
    IN /\ \A i \in DOMAIN seats : seats[i].code = r.agents[i].code
       /\ Cardinality(Codes(seats)) = Len(seats)
       /\ \A c \in Codes(seats) \ Codes(central) : \E n \in skills(c) : Folder(folders, n) # NoPlace
       /\ \A c \in DOMAIN pool : c \in names \/ index[c] = c
       /\ \A t \in shared : t \in DOMAIN index => t \in DOMAIN pool \cup names

\* The default room of party mode is the installed agents, each in the seat
\* its roster gave it, whatever members are added; an agent whose skill is not
\* installed has none.  A member is found under its full code unless someone
\* took that as a name, and a short form two members share finds neither
\* ("the full code still works", build_collective).
RoomKeepsItsAgents == AgentsKept(Report(FALSE))

\* Who claims a token, once all is registered; whether two do; and whether two
\* members find the same person.
Claims(r, room, members) ==
    LET pool == room.pool
        index == room.index
        found == {m \in Range(members) : m.code \in DOMAIN index}
    IN (UNION {{c} \X {c, PartyAlias[c], ForgeAlias[c], pool[c].name} : c \in DOMAIN pool})
       \cup {<<m.code, m.name>> : m \in Range(r.people) \cup Range(r.agents)}
       \cup (UNION {{index[m.code]} \X {m.code, NameOr(m.name, m.code)} : m \in found})
Confused(r, room, members) ==
    \E a, b \in Claims(r, room, members) : a[2] = b[2] /\ a[1] # b[1]
Doubled(room, members) ==
    \E i, j \in DOMAIN members :
      /\ i # j /\ {members[i].code, members[j].code} \subseteq DOMAIN room.index
      /\ room.index[members[i].code] = room.index[members[j].code]

SameRoom(r) ==
    LET parties == Parties(r.forge, r.groups)
    IN \/ Confused(r, r.party, r.items)
       \/ \E c \in DOMAIN r.party.pool : PartyAlias[c] # ForgeAlias[c]
       \/ /\ r.party.pool = r.forge.pool /\ r.party.index = r.forge.index
          /\ \A i \in DOMAIN parties :
               LET d == Detail(r.party, r.groups[i])
               IN /\ d.members = parties[i].members /\ d.open = parties[i].open
                  /\ r.menu[i].count = Len(d.members) + Len(d.unresolved)
                  /\ default = parties[i].code => r.opened = d
          /\ default \notin Codes(parties) => r.opened.members = Seats(r.forge, r.agents)

\* Those a member that party mode was shipped with stands for.
ShippedFor(r) ==
    {r.forge.index[m.code] : m \in {n \in Range(r.items) : n.by = "base" /\ n.code \in DOMAIN r.forge.index}}

SameFound(r) ==
    LET written == ForgeMembers(folders, layers)
    IN \/ Fails(layers)
       \/ Confused(r, r.forge, r.items) \/ Confused(r, r.found, written)
       \/ Doubled(r.forge, r.items) \/ Doubled(r.found, written)
       \/ \A c \in DOMAIN r.found.pool :
            c \in DOMAIN r.forge.pool /\ (r.found.pool[c] = r.forge.pool[c] \/ c \in ShippedFor(r))

\* Party mode and the forge put the same people under the same tokens, seat
\* the same groups and open the same room, in a project with rosters or without,
\* as long as no token is claimed by two of them and both make the same short
\* forms; and without party mode the forge makes the same of everyone but those
\* a shipped member stands for, unless a layer is wrong, a token is claimed by two or two
\* members find one person ("both skills see the same room", resolve_personas.py).
RoomsAgree == \A old \in BOOLEAN : LET r == Report(old) IN SameRoom(r) /\ SameFound(r)

\* The two catalogues lay the same extras over the same rows in the same way,
\* so that every entry is found by its name; and while no extra brings a
\* number of its own, every number finds one entry, and the entry in place of
\* a shipped one keeps the shipped one's ("every merged method stays
\* addressable by number", merge_extra).
CatalogsAgree ==
    LET extras == CustomMembers(layers)
        techniques == Techniques(Rows, extras)
        methods == Methods(Rows, extras)
    IN /\ Len(techniques) = Len(methods)
       /\ \A i \in DOMAIN methods :
            /\ techniques[i].name = methods[i].name /\ techniques[i].by = methods[i].by
            /\ ByName(methods, methods[i].name) = <<methods[i]>>
       /\ (\E e \in Range(extras) : e.num # NoNum) \/
            /\ \A i \in DOMAIN methods : ByNumber(methods, methods[i].num) = <<methods[i]>>
            /\ \A i \in DOMAIN Rows : methods[i].num = Rows[i].num /\ methods[i].name = Rows[i].name

=============================================================================
