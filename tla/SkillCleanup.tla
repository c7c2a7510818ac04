---------------------------- MODULE SkillCleanup ----------------------------
(***************************************************************************)
(* The cleanups of setup.py: remove-retired deletes skills that a module   *)
(* renamed or removed, remove-copies deletes copies of duplicated skills,  *)
(* and both then drop the names from the locks of the skills CLI.  Each is *)
(* a process that looks at the folders, reads the locks, deletes one path  *)
(* at a time and rewrites one lock at a time.  Cleanups overlap each other *)
(* and the CLI, and may be killed between any two steps.                   *)
(***************************************************************************)
EXTENDS Knowledge

CONSTANTS
    Cleaners,     \* processes that run a cleanup
    StartDisks,   \* installations to start from
    MaxRuns,      \* cleanups ever started (bound of the model)
    MaxAdds,      \* skills the CLI adds (bound of the model)
    MaxKills      \* cleanups killed (bound of the model)

ASSUME CleanupAssumption == StartDisks \subseteq Disks

VARIABLES
    disk,         \* the skills folders, see Installation
    lock,         \* scope -> names in its lock, NoLock while the file is cut short
    pc,           \* cleanup -> where it is
    targets,      \* cleanup -> paths <<place, name>> still to delete
    doomed,       \* cleanup -> all the paths it set out to delete
    held,         \* cleanup -> scope -> the lock as it read it, for those still to write
    runs, adds, kills,
    crossed,      \* two cleanups overlapped (history)
    rival,        \* two remove-copies of the same skill did (history)
    raced,        \* the CLI added a skill during a cleanup (history)
    kept          \* skills that must stay usable: those that were, less the
                  \* ones a remove-retired was asked to delete (history)

procVars == <<pc, targets, doomed, held>>
histVars == <<crossed, rival, raced, kept>>
vars == <<disk, lock, procVars, runs, adds, kills, histVars>>

NoLock == {NoName}
InScope(s) == {p \in Places : ScopeOf(p) = s}

Usables(d) == {n \in Names : Folder(d, n) # NoPlace}

Init ==
    /\ disk \in StartDisks
    /\ lock = [s \in Scopes |-> {n \in Names : \E p \in InScope(s) : Present(disk, p, n)}]
    /\ pc = [c \in Cleaners |-> "idle"]
    /\ targets = [c \in Cleaners |-> {}] /\ doomed = targets
    /\ held = [c \in Cleaners |-> <<>>]
    /\ runs = 0 /\ adds = 0 /\ kills = 0
    /\ crossed = FALSE /\ rival = FALSE /\ raced = FALSE
    /\ kept = Usables(disk)

Running == {c \in Cleaners : pc[c] # "idle"}

\* A cleanup that has decided what to delete.
Begin(c, paths) ==
    /\ pc[c] = "idle" /\ runs < MaxRuns
    /\ runs' = runs + 1
    /\ pc' = [pc EXCEPT ![c] = "locks"]
    /\ targets' = [targets EXCEPT ![c] = paths]
    /\ doomed' = [doomed EXCEPT ![c] = paths]
    /\ crossed' = (crossed \/ Running # {})
    /\ UNCHANGED <<disk, lock, held, raced, adds, kills>>

\* remove_retired: every name must be retired; all its copies go.
RemoveRetired(c, codes, names) ==
    LET at == Across(disk)
    IN /\ pc[c] = "idle" /\ runs < MaxRuns
       /\ ~CodesClash(at) /\ codes \subseteq Modules(at)
       /\ names # {} /\ names \subseteq RetiredBy(at, codes)
       /\ Begin(c, {t \in SkillFolders \X names : Present(disk, t[1], t[2])})
       /\ kept' = kept \ names /\ UNCHANGED rival

\* remove_copies: only listed copies, and never all the copies of a skill.
RemoveCopies(c, paths) ==
    /\ pc[c] = "idle" /\ runs < MaxRuns
    /\ ~CodesClash(Across(disk)) /\ paths # {}
    /\ paths \subseteq UNION {Distinct(disk, n) \X {n} : n \in Duplicates(disk)}
    /\ \A n \in Duplicates(disk) : ~(Distinct(disk, n) \X {n} \subseteq paths)
    /\ Begin(c, paths) /\ UNCHANGED kept
    /\ rival' = (rival \/ \E d \in Running, t \in paths : \E u \in doomed[d] : u[2] = t[2])

\* Every affected lock is read before anything is deleted; one that does not
\* parse stops the run.
ReadLocks(c) ==
    LET scopes == {ScopeOf(t[1]) : t \in targets[c]}
    IN /\ pc[c] = "locks"
       /\ IF \E s \in scopes : lock[s] = NoLock
          THEN /\ pc' = [pc EXCEPT ![c] = "idle"] /\ targets' = [targets EXCEPT ![c] = {}]
               /\ doomed' = [doomed EXCEPT ![c] = {}] /\ UNCHANGED held
          ELSE /\ pc' = [pc EXCEPT ![c] = "delete"] /\ held' = [held EXCEPT ![c] = [s \in scopes |-> lock[s]]]
               /\ UNCHANGED <<targets, doomed>>
       /\ UNCHANGED <<disk, lock, runs, adds, kills, histVars>>

\* unlink or rmtree; a path that is gone by now is passed over.
Delete(c, t) ==
    /\ pc[c] = "delete" /\ t \in targets[c]
    /\ disk' = [disk EXCEPT ![t] = NoPlace]
    /\ targets' = [targets EXCEPT ![c] = @ \ {t}]
    /\ UNCHANGED <<lock, pc, doomed, held, runs, adds, kills, histVars>>

\* Faulty variant of Dropped: a copy outside the active roots does not count.
DroppedByRoots(c, s) ==
    {n \in held[c][s] : /\ n \in {t[2] : t \in {u \in doomed[c] : ScopeOf(u[1]) = s}}
                        /\ \A p \in RootFolders \cap InScope(s) : ~Present(disk, p, n)}

\* The names to drop from a lock: deleted in this scope, listed in the lock as
\* it was read, and without a copy left in the folders of the scope.
Dropped(c, s) ==
    {n \in held[c][s] : /\ n \in {t[2] : t \in {u \in doomed[c] : ScopeOf(u[1]) = s}}
                        /\ \A p \in SkillFolders \cap InScope(s) : ~Present(disk, p, n)}

\* The rewrite opens the lock, which empties it; nothing to drop, no rewrite.
OpenLock(c, s) ==
    /\ pc[c] = "delete" /\ targets[c] = {} /\ s \in DOMAIN held[c]
    /\ IF Dropped(c, s) = {}
       THEN /\ held' = [held EXCEPT ![c] = [r \in DOMAIN @ \ {s} |-> @[r]]]
            /\ UNCHANGED <<lock, pc>>
       ELSE /\ lock' = [lock EXCEPT ![s] = NoLock]
            /\ held' = [held EXCEPT ![c][s] = @ \ Dropped(c, s)]
            /\ pc' = [pc EXCEPT ![c] = s]
    /\ UNCHANGED <<disk, targets, doomed, runs, adds, kills, histVars>>

\* write_text: the lock as it was read, less the names dropped.
WriteLock(c, s) ==
    /\ pc[c] = s
    /\ lock' = [lock EXCEPT ![s] = held[c][s]]
    /\ held' = [held EXCEPT ![c] = [r \in DOMAIN @ \ {s} |-> @[r]]]
    /\ pc' = [pc EXCEPT ![c] = "delete"]
    /\ UNCHANGED <<disk, targets, doomed, runs, adds, kills, histVars>>

Finish(c) ==
    /\ pc[c] = "delete" /\ targets[c] = {} /\ held[c] = <<>>
    /\ pc' = [pc EXCEPT ![c] = "idle"] /\ doomed' = [doomed EXCEPT ![c] = {}]
    /\ UNCHANGED <<disk, lock, targets, held, runs, adds, kills, histVars>>

Kill(c) ==
    /\ pc[c] # "idle" /\ kills < MaxKills
    /\ kills' = kills + 1
    /\ pc' = [pc EXCEPT ![c] = "idle"]
    /\ targets' = [targets EXCEPT ![c] = {}] /\ doomed' = [doomed EXCEPT ![c] = {}]
    /\ held' = [held EXCEPT ![c] = <<>>]
    /\ UNCHANGED <<disk, lock, runs, adds, histVars>>

\* npx skills add: a copy in a place, and its name in the lock of the scope.
CliAdds(p, n) ==
    /\ adds < MaxAdds /\ ~Present(disk, p, n) /\ lock[ScopeOf(p)] # NoLock
    /\ adds' = adds + 1
    /\ disk' = [disk EXCEPT ![<<p, n>>] = p]
    /\ lock' = [lock EXCEPT ![ScopeOf(p)] = @ \cup {n}]
    /\ raced' = (raced \/ Running # {})
    /\ kept' = IF p \in Range(Roots) /\ \A c \in Running : <<p, n>> \notin doomed[c]
               THEN kept \cup {n} ELSE kept
    /\ UNCHANGED <<procVars, runs, kills, crossed, rival>>

\* select_module: the module a call names, or all of them.
Asked(at) == {Modules(at)} \cup {{c} : c \in Modules(at)}

Next ==
    \/ \E c \in Cleaners :
         \/ /\ pc[c] = "idle" /\ runs < MaxRuns
            /\ \/ \E codes \in Asked(Across(disk)), names \in SUBSET Names : RemoveRetired(c, codes, names)
               \* One skill's copies in a call (bound of the model).
               \/ \E n \in Duplicates(disk) : \E ps \in SUBSET Distinct(disk, n) : RemoveCopies(c, ps \X {n})
         \/ ReadLocks(c) \/ Finish(c) \/ Kill(c)
         \/ \E t \in targets[c] : Delete(c, t)
         \/ \E s \in Scopes : OpenLock(c, s) \/ WriteLock(c, s)
    \/ \E p \in Places, n \in Names : CliAdds(p, n)

Spec == Init /\ [][Next]_vars

-----------------------------------------------------------------------------
\* The skills with a copy where a cleanup looks, and with one anywhere.
Seen(s) == {n \in Names : \E p \in SkillFolders \cap InScope(s) : Present(disk, p, n)}
InAll(s) == {n \in Names : \E p \in InScope(s) : Present(disk, p, n)}

\* No sequence of cleanups, killed or overlapping, takes the last usable copy
\* of a skill it was not asked to retire, unless two remove-copies of the same
\* skill overlap: copies are told apart by what they resolve to, so a link
\* never stands for the folder that is deleted (remove_copies, locate_skills).
LastCopyStays == rival \/ kept \subseteq Usables(disk)

\* A lock that is not cut short lists every name with a copy left where a
\* cleanup looks, whatever cleanups were killed or overlapped, unless the CLI
\* wrote it meanwhile; between cleanups that did neither it lists no name
\* without a copy ("drop each name from the lock of its scope once no copy is
\* left there", remove_skill_paths).  Only a kill cuts a lock short.
LocksFollowDisk ==
    \A s \in Scopes :
      \/ raced \/ \E c \in Running : s \in DOMAIN held[c]
      \/ lock[s] = NoLock /\ kills > 0
      \/ Seen(s) \subseteq lock[s] /\ (crossed \/ kills > 0 \/ lock[s] \subseteq InAll(s))

\* The same promise over all the folders of the scope, those the host did not
\* pass included.
EntryOutlivesCopies ==
    raced \/ crossed \/ kills > 0 \/ \A s \in Scopes : lock[s] = NoLock \/ InAll(s) \subseteq lock[s]

\* Setup and the knowledge report read the same folders in different orders
\* (by folder name across the roots; root by root), yet name the same record
\* for a module and the same skills as belonging to none, while every file is
\* one both can use and a code is declared in one root at most.  And the list
\* of customizable skills has, for a skill whose copy in use can be customized,
\* that copy and its surfaces.
ScannersAgree ==
    LET at == Across(disk)
        records == {n \in Names : IsRecord(at, n)}
    IN /\ \A n \in Names : Customizable(at[n], n) =>
            ListedFolder(disk, n) = at[n] /\ ListedSurfaces(disk, n) = FileAt(at[n], n).surfaces
       /\ \/ Unusable(at) # {} \/ CodesClash(at)
          \/ \E n, m \in records : /\ FileAt(at[n], n).code = FileAt(at[m], m).code
                                   /\ RootOf(disk, n) # RootOf(disk, m)
          \/ /\ \A low \in Range(Fold) :
                  {ScanRecord(disk, low)} \ {NoName} = {Record(at, c) : c \in {m \in Modules(at) : Fold[m] = low}}
             /\ MissingRecords(at) = ScanAbsent(disk)

\* Every help file that reads of the record in use is offered exactly once,
\* as a document or as a topic, whatever its entries get wrong; of a record
\* that setup accepts every entry becomes a document or is said not to read,
\* unless it names help.md again ("help/help.md ... needs no entry",
\* knowledge.py); and of the skills a document of the whole module is installed
\* for, those that declare themselves in a bmod.toml are the members setup
\* counts, while setup has nothing to say of them.
OffersAgree ==
    LET at == Across(disk)
        settled == ~CodesClash(at) /\ Membership(at) \cup Unusable(at) = {}
    IN \A n \in Recorded(disk) :
         LET file == FileAt(at[n], n)
             known == Documents(file, n)
             topics == TopicsOf(file, known.documents)
             offers(p) == Cardinality({d \in known.documents : d.path = p}) + (IF p \in topics THEN 1 ELSE 0)
         IN /\ \A p \in Topics \cup {HelpName} :
                 offers(p) = IF ReadsAs(file, p) /\ (p = HelpName => "knowledge" \notin file.wrong) THEN 1 ELSE 0
            /\ Good(file) =>
                 /\ \A e \in known.problems : e.path = HelpName
                 /\ \A e \in Range(file.knowledge) :
                      e.path \in known.unread \cup {HelpName} \/ Document(file, n, e) \in known.documents
                 /\ settled /\ n = Record(at, file.code) =>
                      \A d \in known.documents : d.path = HelpName =>
                        {m \in InstalledOf(disk, d) : m \in Files(at) /\ FileAt(at[m], m).skill} = Members(at, file.code)

=============================================================================
