---------------------------- MODULE Installation ----------------------------
(***************************************************************************)
(* What the two readers of the installed skills make of the same folders:  *)
(* setup.py (discover_installation and the checks and lists it feeds) and  *)
(* knowledge.py (scan).  Everything here is a  *)
(* function of the disk.                                                   *)
(*                                                                         *)
(*   disk[<<p, n>>]     skill n in the skills folder p: NoPlace, p for a   *)
(*                      folder, another place for a link to n in it        *)
(*   Content[<<p, n>>]  what the package put there: its bmod.toml (wrong:  *)
(*                      the fields whose value a reader may not take;      *)
(*                      source: "github", "https", "plugin" or "file";     *)
(*                      published: the version at the source, NoVersion if *)
(*                      that cannot be read), retired.toml, roster.toml,   *)
(*                      scripts, and its customize.toml: "none", "broken"  *)
(*                      or "there", with the surfaces it has; its help     *)
(*                      files ("fine" or "bad") and [[bmod.knowledge]]     *)
(*                      entries, of the form "fine", "repeated" (a skill   *)
(*                      twice) or "wrong"                                  *)
(*                                                                         *)
(* A version is a core and a prerelease: "" for a release, "next" for the  *)
(* development branch, "odd" for one that does not order.  The texts of    *)
(* problems, sources and install commands are left out.                    *)
(***************************************************************************)
EXTENDS Naturals, SequencesExt

CONSTANTS
    Roots,      \* the active skills folders, in order (unique_folders)
    Tools,      \* the project's other .<tool>/skills folders
    Hidden,     \* global skills folders the host did not pass
    Global,     \* the places outside the project
    Skills,     \* the folder names, in sort order
    Content,    \* <<place, name>> -> what the package put there
    Fold        \* module code -> the code in lower case

Places == Range(Roots) \cup Tools \cup Hidden
Names == Range(Skills)
NoPlace == "nowhere"
NoName == ""

Release(n) == [core |-> n, pre |-> ""]
AnyVersion == Release(0)
NoVersion == [core |-> 0, pre |-> "none"]
NoList == {NoName}
HelpName == "help/help.md"

NoFile ==
    [file |-> "none", wrong |-> {}, code |-> NoName, version |-> AnyVersion, skills |-> NoList,
     source |-> "github", published |-> NoVersion, skill |-> FALSE, bmod |-> NoName, needs |-> {}, moduleNeeds |-> {},
     renamed |-> {}, removed |-> {}, roster |-> <<>>, scripts |-> {}, questions |-> {}, custom |-> "none", surfaces |-> {},
     knowledge |-> <<>>, files |-> <<>>]

ASSUME InstallationAssumption ==
    /\ NoPlace \notin Places /\ NoName \notin Names
    /\ Roots \in Seq(Places) /\ Skills \in Seq(Names)
    /\ Global \subseteq Places /\ Hidden \subseteq Global
    /\ Tools \cap Global = {}
    /\ \A p \in Places, n \in Names : /\ DOMAIN Content[<<p, n>>] = DOMAIN NoFile
                                     /\ Content[<<p, n>>].code \in DOMAIN Fold \cup {NoName}
                                     /\ Content[<<p, n>>].knowledge \in Seq(Range(Content[<<p, n>>].knowledge))

Disks == [Places \X Names -> Places \cup {NoPlace}]

Present(disk, p, n) == disk[<<p, n>>] # NoPlace

\* The folder an entry is or leads to: entry.is_dir(), resolved.
DirOf(disk, p, n) ==
    LET t == disk[<<p, n>>]
    IN IF t \in {p, NoPlace} \/ disk[<<t, n>>] = t THEN t ELSE NoPlace

FileAt(p, n) == IF p = NoPlace THEN NoFile ELSE Content[<<p, n>>]

\* What each parser refuses: `wrong` has the fields whose value has the wrong
\* type or form; what a well-formed value may not hold is checked here.
Once(things, of(_)) == \A a, b \in things : of(a) = of(b) => a = b
RequirementsParse(f) ==
    /\ f.wrong \cap {"needs", "moduleNeeds"} = {}
    /\ Once(f.needs, LAMBDA r : r.skill) /\ Once(f.moduleNeeds, LAMBDA r : r.skill)
QuestionsParse(f) == "questions" \notin f.wrong /\ Once(f.questions, LAMBDA q : q.key)
ScriptsParse(f) == "scripts" \notin f.wrong
SourceParses(f) == "source" \notin f.wrong
KnowledgeParses(f) ==
    /\ "knowledge" \notin f.wrong
    /\ \A i \in DOMAIN f.knowledge :
         /\ f.knowledge[i].path # NoName /\ f.knowledge[i].form = "fine"
         /\ \A j \in 1..(i - 1) : f.knowledge[j].path # f.knowledge[i].path

\* parse_bmod_table and parse_skill_table.
TableParses(f) ==
    /\ f.wrong \cap {"code", "version", "skills"} = {}
    /\ SourceParses(f) /\ KnowledgeParses(f) /\ QuestionsParse(f) /\ RequirementsParse(f)
SkillParses(f) ==
    /\ f.code = NoName => "bmod" \notin f.wrong /\ SourceParses(f)
    /\ ScriptsParse(f) /\ RequirementsParse(f)

\* parse_bmod_file: a table, and nothing wrong in either.
Parses(f) ==
    /\ f.file # "none" /\ "toml" \notin f.wrong
    /\ f.code # NoName \/ f.skill
    /\ f.code # NoName => TableParses(f)
    /\ f.skill => SkillParses(f)

GoodFiles == {f \in {Content[pn] : pn \in Places \X Names} : Parses(f)}
Good(f) == f \in GoodFiles

\* read_retired_file: a name is retired once, and not for itself.
RetiredParses(f) ==
    /\ "retired" \notin f.wrong
    /\ \A r \in f.renamed : r[1] # r[2] /\ r[1] \notin f.removed
    /\ Once(f.renamed, LAMBDA r : r[1])

\* The same file as knowledge.scan takes it: it parses and has a table; only
\* its code is looked at.
Usable(f) == f.file # "none" /\ "toml" \notin f.wrong /\ (f.code # NoName \/ f.skill)
UsableRecord(f) == Usable(f) /\ f.code # NoName /\ "code" \notin f.wrong

-----------------------------------------------------------------------------
(* locate_skills: one copy of each skill, and the duplicates.              *)

RootOf(disk, n) == SelectInSeq(Roots, LAMBDA p : DirOf(disk, p, n) # NoPlace)

\* The copy in use: the first root that holds the skill wins it.
Folder(disk, n) ==
    LET i == RootOf(disk, n) IN IF i = 0 THEN NoPlace ELSE DirOf(disk, Roots[i], n)

Copies(disk, n) == {i \in DOMAIN Roots : DirOf(disk, Roots[i], n) # NoPlace}

\* Faulty variant of Distinct: a link counts as a copy of its own.
DistinctPaths(disk, n) == {Roots[i] : i \in Copies(disk, n)}

\* unique_folders over the copies: each folder once, however it is reached.
Distinct(disk, n) ==
    {Roots[i] : i \in {k \in Copies(disk, n) :
        \A j \in Copies(disk, n) : j < k => DirOf(disk, Roots[j], n) # DirOf(disk, Roots[k], n)}}

Duplicates(disk) ==
    {n \in Names : /\ Cardinality(Distinct(disk, n)) > 1
                   /\ \E p \in Distinct(disk, n) : FileAt(DirOf(disk, p, n), n).file # "none"}

-----------------------------------------------------------------------------
(* discover_installation: module records, members and problems.  `at` maps *)
(* a skill to the folder it is read from.                                  *)

Across(disk) == [n \in Names |-> Folder(disk, n)]
Beside(disk, p) == [n \in Names |-> DirOf(disk, p, n)]

Installed(at) == {n \in Names : at[n] # NoPlace}

\* discover_installed_files: the unusable ones left out.
Files(at) == {n \in Names : Good(FileAt(at[n], n))}

IsRecord(at, n) ==
    n \in Names /\ LET f == FileAt(at[n], n) IN Good(f) /\ f.code # NoName

\* Two codes that differ only by case stop the run.
CodesClash(at) ==
    \E n, m \in Names :
      /\ IsRecord(at, n) /\ IsRecord(at, m)
      /\ Fold[FileAt(at[n], n).code] = Fold[FileAt(at[m], m).code]
      /\ FileAt(at[n], n).code # FileAt(at[m], m).code

\* The first of some names, in folder name order; NoName if there is none.
FirstOf(names) ==
    LET i == SelectInSeq(Skills, LAMBDA n : n \in names) IN IF i = 0 THEN NoName ELSE Skills[i]

Declaring(at, c) == {n \in Names : IsRecord(at, n) /\ FileAt(at[n], n).code = c}

\* Faulty variant of Record: a later record replaces an earlier one.
RecordOfLast(at, c) ==
    LET i == SelectLastInSeq(Skills, LAMBDA n : n \in Declaring(at, c))
    IN IF i = 0 THEN NoName ELSE Skills[i]

\* select_module_records: the first record in folder name order wins a code.
Record(at, c) == FirstOf(Declaring(at, c))

Modules(at) == {c \in DOMAIN Fold : Record(at, c) # NoName}
RecordFile(at, c) == FileAt(at[Record(at, c)], Record(at, c))

\* member_names
Listed(file, n) ==
    IF file.skills # NoList THEN file.skills ELSE IF file.skill THEN {n} ELSE {}

ListedBy(at, n) == Listed(FileAt(at[n], n), n)

BelongsTo(at, n, record) ==
    LET f == FileAt(at[n], n)
    IN n = record \/ (f.code = NoName /\ f.bmod = record)

Members(at, c) ==
    {n \in ListedBy(at, Record(at, c)) \cap Installed(at) :
       Good(FileAt(at[n], n)) /\ FileAt(at[n], n).skill /\ BelongsTo(at, n, Record(at, c))}

\* A skill whose module record is absent.
MissingRecords(at) ==
    {n \in Files(at) : /\ FileAt(at[n], n).skill /\ FileAt(at[n], n).code = NoName
                              /\ ~IsRecord(at, FileAt(at[n], n).bmod)}

\* Record and skill do not name each other, either way round.
Membership(at) ==
    {n \in Files(at) :
       LET f == FileAt(at[n], n)
       IN /\ f.skill
          /\ \/ f.code # NoName /\ n \notin Listed(f, n)
             \/ /\ f.code = NoName /\ IsRecord(at, f.bmod)
                /\ n \notin ListedBy(at, f.bmod)
             \/ \E c \in Modules(at) : /\ n \in ListedBy(at, Record(at, c))
                                       /\ ~BelongsTo(at, n, Record(at, c))}

Unusable(at) == {n \in Names : FileAt(at[n], n).file # "none" /\ ~Good(FileAt(at[n], n))}

Repeated(at) == {n \in Names : IsRecord(at, n) /\ Record(at, FileAt(at[n], n).code) # n}

RetiredWrong(at) == {Record(at, c) : c \in {d \in Modules(at) : ~RetiredParses(RecordFile(at, d))}}

Problems(at) == Membership(at) \cup Unusable(at) \cup Repeated(at) \cup RetiredWrong(at)

-----------------------------------------------------------------------------
(* Requirements.                                                           *)

\* compare_semver, for two versions that order.
AtLeast(v, w) ==
    IF v.core # w.core THEN v.core > w.core ELSE v.pre = w.pre \/ v.pre = ""

\* requirement_state: X-next already holds everything X will.
VersionState(have, want) ==
    IF "odd" \in {have.pre, want.pre} THEN "unorderable"
    ELSE IF AtLeast(have, want) \/ (have.core = want.core /\ want.pre = "" /\ have.pre = "next") THEN "met"
    ELSE "outdated"

\* skill_module_version: the record a skill takes its version from.
VersionRecord(at, n) ==
    LET f == FileAt(at[n], n)
    IN IF IsRecord(at, n) THEN n
       ELSE IF Good(f) /\ f.skill /\ IsRecord(at, f.bmod) THEN f.bmod ELSE NoName

\* requirement_check
Check(at, need) ==
    IF at[need.skill] = NoPlace THEN "missing"
    ELSE LET r == VersionRecord(at, need.skill)
         IN IF need.version = AnyVersion THEN "met"
            ELSE IF r # NoName THEN VersionState(FileAt(at[r], r).version, need.version)
            ELSE IF Good(FileAt(at[need.skill], need.skill)) THEN "met" ELSE "unknown-version"

\* unmet_entries: a module's list once for the module, a skill's for the skill.
Unmet(at) ==
    {u \in (UNION {{<<n, need>> : need \in FileAt(at[n], n).needs} : n \in Files(at)})
        \cup (UNION {{<<Record(at, c), need>> : need \in RecordFile(at, c).moduleNeeds}
                    : c \in Modules(at)}) :
       u[2].skill # u[1] /\ Check(at, u[2]) # "met"}

-----------------------------------------------------------------------------
(* setup_check.owed, but for what it reads of _bmad: a starting skill looks*)
(* only at the folder it is in.                                            *)

\* A skill named by both lists is checked once, against the higher minimum.
Wanted(at, n) ==
    LET own == FileAt(at[n], n)
        record == IF own.code # NoName THEN n ELSE own.bmod
        first == IF IsRecord(at, record) THEN FileAt(at[record], record).moduleNeeds ELSE {}
    IN {need \in first \cup own.needs :
          /\ need.skill # n
          /\ \A other \in first \cup own.needs :
               other.skill = need.skill => AtLeast(need.version, other.version)}

\* The start of a skill never fails on what it cannot read: report says
\* nothing then.
Readable(at, n) ==
    LET own == FileAt(at[n], n)
    IN /\ Good(own) /\ own.skill
       /\ own.code = NoName /\ own.bmod \in Names =>
            LET record == FileAt(at[own.bmod], own.bmod) IN record.file = "none" \/ Good(record)

RecordOwed(at, n) ==
    LET own == FileAt(at[n], n) IN own.code = NoName /\ ~IsRecord(at, own.bmod)

OwedAtStart(disk, p, n) ==
    LET at == Beside(disk, p)
    IN Readable(at, n)
       /\ \/ RecordOwed(at, n)
          \/ \E need \in Wanted(at, n) : Check(at, need) \in {"missing", "outdated", "unknown-version"}

-----------------------------------------------------------------------------
(* retired_skills and skill_folders.                                       *)

\* What an installed module still lists, under either name.
StillListed(at) == UNION {ListedBy(at, Record(at, c)) : c \in Modules(at)}

\* <<old, new>> for the renamed skills; the names of all that are retired.
\* A module whose retired.toml does not parse retires nothing.
Retiring(at, codes) == {RecordFile(at, c) : c \in {d \in codes : RetiredParses(RecordFile(at, d))}}
RenamedBy(at, codes) ==
    {r \in UNION {f.renamed : f \in Retiring(at, codes)} : r[1] \notin StillListed(at)}
RetiredBy(at, codes) ==
    {r[1] : r \in RenamedBy(at, codes)}
    \cup ((UNION {f.removed : f \in Retiring(at, codes)}) \ StillListed(at))

\* The active roots only.
RootFolders == Range(Roots)

\* The active roots and every .<tool>/skills of the project.
SkillFolders == Range(Roots) \cup Tools

Scopes == {"project", "global"}

\* lock_path
ScopeOf(p) == IF p \in Global THEN "global" ELSE "project"

-----------------------------------------------------------------------------
(* knowledge.scan: root by root, folder names sorted in each.              *)

\* The record the scan keeps for a code, in lower case: the first root's.
ScanRecord(disk, low) ==
    LET at == Across(disk)
        records == {n \in Names : /\ UsableRecord(FileAt(at[n], n))
                                  /\ Fold[FileAt(at[n], n).code] = low}
        nearest == {n \in records : \A m \in records : RootOf(disk, n) <= RootOf(disk, m)}
    IN FirstOf(nearest)

\* absent_records: skills that name a record no root holds.
ScanAbsent(disk) ==
    LET at == Across(disk)
    IN {n \in Names :
          LET f == FileAt(at[n], n)
          IN /\ Usable(f) /\ f.skill /\ f.code = NoName /\ "bmod" \notin f.wrong
             /\ ~(f.bmod \in Names /\ UsableRecord(FileAt(at[f.bmod], f.bmod)))}

-----------------------------------------------------------------------------
(* list_customizable_skills.scan_skills: root by root, the first copy whose *)
(* customize.toml parses; one without a surface is an error, and still hides*)
(* the copies after it.                                                    *)

Customizable(p, n) == FileAt(p, n).custom = "there"
ListedFolder(disk, n) ==
    LET i == SelectInSeq(Roots, LAMBDA p : Customizable(DirOf(disk, p, n), n))
    IN IF i = 0 THEN NoPlace ELSE DirOf(disk, Roots[i], n)
ListedSurfaces(disk, n) == FileAt(ListedFolder(disk, n), n).surfaces

=============================================================================
