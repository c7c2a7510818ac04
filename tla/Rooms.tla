------------------------------- MODULE Rooms -------------------------------
(***************************************************************************)
(* Who is in the room: what roster.py offers of the installed skills, and  *)
(* what resolve_party.py and resolve_personas.py make of it and of the     *)
(* members and groups a user added.                                        *)
(*                                                                         *)
(* Everything is a function of the skills folder and of the layers.  A     *)
(* token is a code, an alias or a name, in lower case.  A person is        *)
(* [code, name, here]; of a person's other fields only the name matters    *)
(* here, since it is the one that is looked up.                            *)
(***************************************************************************)
EXTENDS Layering, Installation

CONSTANTS
    PartyAlias,   \* code -> the short form party mode makes of it (_alias)
    ForgeAlias,   \* code -> the one the forge makes
    ModuleOrder,  \* the module codes in lower case, sorted
    PartySkill,   \* the folder name of party mode
    PartyRoots    \* where the forge looks for it

\* add_member takes no member without a code.
ASSUME RoomsAssumption ==
    /\ ModuleOrder \in Seq(Range(ModuleOrder))
    /\ \A pn \in Places \X Names :
         LET roster == Content[pn].roster
         IN roster \in Seq(Range(roster)) /\ \A i \in DOMAIN roster : roster[i].code # NoCode

Unnamed == NoName
NameOr(name, other) == IF name # Unnamed THEN name ELSE other

-----------------------------------------------------------------------------
(* roster.collect.  `answers` maps a skill to the name its customization   *)
(* gives it.                                                               *)

\* record_file: the roster.toml of each module's record, if it parses.
RosterIn(disk, record) ==
    LET file == FileAt(Folder(disk, record), record)
    IN IF record = NoName \/ "roster" \in file.wrong THEN <<>> ELSE file.roster
Rosters(disk) ==
    LET rosters[i \in 0..Len(ModuleOrder)] ==
          IF i = 0 THEN <<>> ELSE rosters[i-1] \o RosterIn(disk, ScanRecord(disk, ModuleOrder[i]))
    IN rosters[Len(ModuleOrder)]

\* add_member
Person(disk, m, answers) ==
    LET here == CASE m.skill = NoName -> "guest"
                  [] m.skill \in Names /\ Folder(disk, m.skill) # NoPlace -> "installed"
                  [] OTHER -> "gone"
        own == IF here = "installed" THEN answers[m.skill] ELSE Unnamed
    IN [code |-> m.code, name |-> NameOr(own, NameOr(m.name, m.code)), here |-> here]

\* The first definition of a code counts, whether its skill is there or not.
Persons(disk, members, answers) ==
    LET persons[i \in 0..Len(members)] ==
          IF i = 0 THEN <<>>
          ELSE LET list == persons[i-1]
               IN IF members[i].code \in Codes(list) THEN list
                  ELSE Append(list, Person(disk, members[i], answers))
    IN persons[Len(members)]
People(disk, answers) == Persons(disk, Rosters(disk), answers)

\* apply_central_agents: the [agents] of the central config, less those whose
\* roster names a skill that is gone.
Agents(people, central) ==
    LET gone == {m.code : m \in {m \in Range(people) : m.here = "gone"}}
        agents[i \in 0..Len(central)] ==
          IF i = 0 THEN Only(people, {m \in Range(people) : m.here = "installed"})
          ELSE LET list == agents[i-1]
                   info == central[i]
               IN IF info.code \in Codes(list) \cup gone THEN list
                  ELSE Append(list, [code |-> info.code, name |-> NameOr(info.name, info.code),
                                     here |-> "config"])
    IN agents[Len(central)]

Guests(people, agents) == Only(people, {m \in Range(people) : m.code \notin Codes(agents)})

\* load_roster: what roster.py offers or, in a project set up before there was
\* one (`old`), the agents of the central config and nothing else.
RosterOf(people, central, groups) ==
    LET agents == Agents(people, central)
    IN [people |-> people, agents |-> agents, guests |-> Guests(people, agents), groups |-> groups]
Roster(disk, answers, central, offered, old) ==
    IF old THEN RosterOf(<<>>, central, <<>>) ELSE RosterOf(People(disk, answers), central, offered)

-----------------------------------------------------------------------------
(* A room: the pool by code, the index by token, and in party mode the     *)
(* code that owns each alias, Nobody once two have claimed it.             *)

Nobody == NoCode
Nothing == [x \in {} |-> Nobody]
EmptyRoom == [pool |-> Nothing, index |-> Nothing, owner |-> Nothing]

\* A function with a value for one more argument, another one for one it has,
\* or one only for an argument it lacks; and without one.
With(f, x, v) == [y \in DOMAIN f \cup {x} |-> IF y = x THEN v ELSE f[y]]
WithFirst(f, x, v) == IF x \in DOMAIN f THEN f ELSE With(f, x, v)
Without(f, x) == [y \in DOMAIN f \ {x} |-> f[y]]

\* Faulty variant of Register: an alias two codes claim stays with the first.
RegisterFirst(room, p) ==
    [room EXCEPT !.pool = With(@, p.code, p),
                 !.index = With(WithFirst(With(@, p.code, p.code), PartyAlias[p.code], p.code), p.name, p.code)]

\* build_collective.register: an alias that is claimed twice is taken back,
\* unless it is a code of its own; a name goes to whoever had it last.
Register(room, p) ==
    LET alias == PartyAlias[p.code]
        owner == IF alias \in DOMAIN room.owner THEN room.owner[alias] ELSE p.code
        coded == With(room.index, p.code, p.code)
        aliased == CASE owner = p.code -> WithFirst(coded, alias, p.code)
                     [] /\ owner \notin {p.code, Nobody} /\ alias # owner
                        /\ alias \in DOMAIN coded /\ coded[alias] = owner -> Without(coded, alias)
                     [] OTHER -> coded
    IN [pool |-> With(room.pool, p.code, p),
        index |-> With(aliased, p.name, p.code),
        owner |-> With(room.owner, alias, IF owner = p.code THEN owner ELSE Nobody)]

\* Faulty variant of RegisterWitness: no aliases.
RegisterWitnessBare(room, p) ==
    [room EXCEPT !.pool = With(@, p.code, p), !.index = With(With(@, p.code, p.code), p.name, p.code)]

\* build_pool.register: an alias goes to whoever had it last, a name to the
\* first.
RegisterWitness(room, p) ==
    LET index == With(With(room.index, p.code, p.code), ForgeAlias[p.code], p.code)
    IN [room EXCEPT !.pool = With(@, p.code, p), !.index = WithFirst(index, p.name, p.code)]

\* One of the user's members: it overrides the one its code finds and keeps
\* that one's name unless it brings one.
Custom(room, m) ==
    LET code == IF m.code \in DOMAIN room.index THEN room.index[m.code] ELSE m.code
        old == IF code \in DOMAIN room.pool THEN room.pool[code].name ELSE code
    IN [code |-> code, name |-> NameOr(m.name, old), here |-> "custom"]

Seat(people, register(_, _)) ==
    LET seat[i \in 0..Len(people)] ==
          IF i = 0 THEN EmptyRoom ELSE register(seat[i-1], people[i])
    IN seat[Len(people)]
SeatCustom(room, items, register(_, _)) ==
    LET coded == Only(items, {m \in Range(items) : m.code \notin {NoCode, BadCode}})
        seat[i \in 0..Len(coded)] ==
          IF i = 0 THEN room ELSE LET had == seat[i-1] IN register(had, Custom(had, coded[i]))
    IN seat[Len(coded)]

Collective(agents, guests, items) ==
    SeatCustom(Seat(agents \o guests, Register), items, Register)
Witnesses(agents, guests, items) ==
    SeatCustom(Seat(agents \o guests, RegisterWitness), items, RegisterWitness)

\* The default room: the agents' seats, in order.
Seats(room, agents) == [i \in DOMAIN agents |-> room.pool[agents[i].code]]

-----------------------------------------------------------------------------
(* The user's members, and the groups.                                     *)

\* load_workflow, load_party_workflow: a layer that does not parse, or a key
\* that is wrong, leaves what the skill was shipped with.
CustomMembers(layers) == IF Fails(layers) THEN Items(layers, "base") ELSE Merged(layers)

\* find_party_skill
PartyFound(disk) == \E p \in PartyRoots : Present(disk, p, PartySkill)

\* load_party_overrides: without party mode team's items and then user's are
\* taken one by one, and a file that does not parse loses only its own.
Overrides(layers) == Items(layers, "team") \o Items(layers, "user")

ForgeMembers(disk, layers) ==
    IF PartyFound(disk) THEN CustomMembers(layers) ELSE Overrides(layers)

\* merge_groups
Groups(offered, own) == PutAll(offered, own, "code")

Menu(groups) == [i \in DOMAIN groups |-> [code |-> groups[i].code, count |-> Len(groups[i].members)]]

\* resolve_members: the tokens somebody answers to, in order.
Known(room, group) == Only(group.members, DOMAIN room.index)
GroupSeats(room, group) ==
    LET known == Known(room, group) IN [i \in DOMAIN known |-> room.pool[room.index[known[i]]]]

\* group_detail: a group that lists nobody is open to whom its scene calls.
Detail(room, group) ==
    [code |-> group.code, members |-> GroupSeats(room, group), open |-> group.members = <<>>,
     unresolved |-> Only(group.members, Range(group.members) \ DOMAIN room.index)]

\* The room party mode opens: the default group if it is there, or the agents.
NoGroup == NoName
Opened(room, agents, groups, default) ==
    LET at == SelectInSeq(groups, LAMBDA g : default # NoGroup /\ g.code = default)
    IN IF at # 0 THEN Detail(room, groups[at])
       ELSE [code |-> NoGroup, members |-> Seats(room, agents), open |-> FALSE, unresolved |-> <<>>]

\* resolve_parties: what the forge lists of a group, whose unknown tokens it
\* drops.
Parties(room, groups) ==
    [i \in DOMAIN groups |->
       [code |-> groups[i].code, members |-> GroupSeats(room, groups[i]), open |-> groups[i].members = <<>>]]

=============================================================================
