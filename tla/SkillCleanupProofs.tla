-------------------------- MODULE SkillCleanupProofs --------------------------
(***************************************************************************)
(* Proofs about SkillCleanup, for any folders, skills, contents, cleanups  *)
(* and bounds, and about Customization, for any layers, calls and          *)
(* catalogue rows.                                                         *)
(***************************************************************************)
EXTENDS SkillCleanup, Customization, SequenceTheorems, FiniteSetTheorems, WellFoundedInduction, TLAPS

-----------------------------------------------------------------------------
(* The folders. *)

\* A set of naturals that is not empty has a least member.
LEMMA LeastMember ==
    ASSUME NEW T, T \subseteq Nat, T # {}
    PROVE  \E x \in T : \A y \in T : x <= y
  <1>1. PICK R : /\ IsWellFoundedOn(R, Nat)
                 /\ \A x, y \in Nat : <<y, x>> \in R <=> y < x
    <2>1. \A x, y \in Nat : <<y, x>> \in OpToRel(<, Nat) <=> y < x
      BY DEF OpToRel
    <2>2. QED
      BY <2>1, NatLessThanWellFounded, Zenon
  <1>2. PICK x \in T : \A y \in T : ~(<<y, x>> \in R)
    BY <1>1, WFMin
  <1>3. ASSUME NEW y \in T
        PROVE  x <= y
    <2>1. x \in Nat /\ y \in Nat
      OBVIOUS
    <2>2. ~(y < x)
      BY <1>1, <1>2, <2>1, Zenon
    <2>3. QED
      BY <2>1, <2>2
  <1>4. QED
    BY <1>3

LEMMA MinFacts ==
    ASSUME NEW T, T \subseteq Nat, T # {}
    PROVE  Min(T) \in T /\ \A y \in T : Min(T) <= y
  <1>1. \E x \in T : \A y \in T : x =< y
    BY LeastMember
  <1>2. QED
    BY <1>1 DEF Min

\* A set of naturals that has 0 and with a number the next one has all.
LEMMA Induction ==
    ASSUME NEW T, 0 \in T, \A n \in Nat : n \in T => n + 1 \in T
    PROVE  Nat \subseteq T
  <1>1. SUFFICES ASSUME Nat \ T # {}
                 PROVE  FALSE
    OBVIOUS
  <1>2. PICK x \in Nat \ T : \A y \in Nat \ T : x <= y
    BY <1>1, LeastMember
  <1>3. x - 1 \in Nat /\ x - 1 < x
    BY <1>2
  <1>4. x - 1 \in T
    BY <1>2, <1>3
  <1>5. x - 1 + 1 \in T
    BY <1>3, <1>4
  <1>6. QED
    BY <1>2, <1>5

LEMMA SequenceFacts ==
    /\ Len(Roots) \in Nat /\ DOMAIN Roots = 1..Len(Roots)
    /\ Len(Skills) \in Nat /\ DOMAIN Skills = 1..Len(Skills)
    /\ \A i \in DOMAIN Roots : Roots[i] \in Places /\ Roots[i] \in Range(Roots)
    /\ \A p \in Range(Roots) : \E i \in DOMAIN Roots : Roots[i] = p
    /\ \A n \in Names : \E i \in DOMAIN Skills : Skills[i] = n
    /\ \A i \in DOMAIN Skills : Skills[i] \in Names
  BY InstallationAssumption DEF InstallationAssumption, Range, Names

\* The first root with a copy.
LEMMA RootFacts ==
    ASSUME NEW d, NEW n
    PROVE  LET r == RootOf(d, n) IN
           \/ r = 0 /\ \A i \in DOMAIN Roots : DirOf(d, Roots[i], n) = NoPlace
           \/ /\ r \in DOMAIN Roots /\ DirOf(d, Roots[r], n) # NoPlace
              /\ \A i \in DOMAIN Roots : DirOf(d, Roots[i], n) # NoPlace => r <= i
  <1> DEFINE I == {i \in 1..Len(Roots) : DirOf(d, Roots[i], n) # NoPlace}
  <1>1. RootOf(d, n) = IF I # {} THEN Min(I) ELSE 0
    BY DEF RootOf, SelectInSeq
  <1>2. I \subseteq Nat
    OBVIOUS
  <1>3. CASE I = {}
    BY <1>1, <1>3, SequenceFacts
  <1>4. CASE I # {}
    <2>1. RootOf(d, n) = Min(I) /\ Min(I) \in I /\ \A y \in I : Min(I) <= y
      <3> HIDE DEF I
      <3>1. QED
        BY <1>1, <1>2, <1>4, MinFacts
    <2>2. QED
      BY <2>1, SequenceFacts
  <1>5. QED
    BY <1>3, <1>4

LEMMA FolderFacts ==
    ASSUME NEW d, NEW n
    PROVE  Folder(d, n) # NoPlace <=> \E p \in Range(Roots) : DirOf(d, p, n) # NoPlace
  <1> DEFINE r == RootOf(d, n)
  <1>1. Folder(d, n) = IF r = 0 THEN NoPlace ELSE DirOf(d, Roots[r], n)
    BY DEF Folder
  <1>2. \/ r = 0 /\ \A i \in DOMAIN Roots : DirOf(d, Roots[i], n) = NoPlace
        \/ r \in DOMAIN Roots /\ DirOf(d, Roots[r], n) # NoPlace
    BY RootFacts
  <1>3. r \in DOMAIN Roots => r # 0
    BY SequenceFacts
  <1> HIDE DEF r
  <1>4. QED
    BY <1>1, <1>2, <1>3, SequenceFacts

\* What a copy leads to is a folder that leads to itself.
LEMMA DirFacts ==
    ASSUME NEW d, NEW p, NEW n, DirOf(d, p, n) # NoPlace
    PROVE  /\ d[<<p, n>>] = DirOf(d, p, n)
           /\ d[<<DirOf(d, p, n), n>>] = DirOf(d, p, n)
           /\ DirOf(d, DirOf(d, p, n), n) = DirOf(d, p, n)
  BY DEF DirOf

-----------------------------------------------------------------------------
(* Types, and where the paths of a cleanup are. *)

Paths == Places \X Names

Typed ==
    /\ disk \in Disks
    /\ lock \in [Scopes -> (SUBSET Names) \cup {NoLock}]
    /\ pc \in [Cleaners -> {"idle", "locks", "delete"} \cup Scopes]
    /\ targets \in [Cleaners -> SUBSET Paths]
    /\ doomed \in [Cleaners -> SUBSET Paths]
    /\ DOMAIN held = Cleaners
    /\ runs \in Nat /\ adds \in Nat /\ kills \in Nat
    /\ crossed \in BOOLEAN /\ rival \in BOOLEAN /\ raced \in BOOLEAN
    /\ kept \subseteq Names

\* What a cleanup holds: nothing before it has read the locks and after it has
\* ended; while it deletes, the locks of all the scopes its paths are in.
CleanerSound(c) ==
    /\ targets[c] \subseteq doomed[c]
    /\ \A t \in doomed[c] : t[1] \in SkillFolders
    /\ DOMAIN held[c] \subseteq Scopes
    /\ \A s \in DOMAIN held[c] : held[c][s] \subseteq Names
    /\ pc[c] = "idle" => doomed[c] = {}
    /\ pc[c] \in {"idle", "locks"} => DOMAIN held[c] = {}
    /\ pc[c] = "delete" => \A t \in targets[c] : ScopeOf(t[1]) \in DOMAIN held[c]
    /\ pc[c] \in Scopes => targets[c] = {} /\ pc[c] \in DOMAIN held[c]

CleanersSound == \A c \in Cleaners : CleanerSound(c)

IInv == Typed /\ CleanersSound

LEMMA PlaceFacts ==
    /\ SkillFolders \subseteq Places /\ Range(Roots) \subseteq SkillFolders
    /\ \A p : ScopeOf(p) \in Scopes
    /\ NoPlace \notin Places /\ NoName \notin Names
    /\ NoLock \notin SUBSET Names
    /\ "idle" \notin Scopes /\ "locks" \notin Scopes /\ "delete" \notin Scopes
  <1>1. NoName \in NoLock /\ NoName \notin Names
    BY InstallationAssumption DEF InstallationAssumption, NoLock
  <1>2. QED
    BY <1>1, InstallationAssumption DEF InstallationAssumption, SkillFolders, Places, ScopeOf, Scopes

LEMMA DistinctFacts ==
    ASSUME NEW d, NEW n
    PROVE  /\ Distinct(d, n) \subseteq Range(Roots)
           /\ \A p \in Distinct(d, n) : DirOf(d, p, n) # NoPlace
           /\ \A p, q \in Distinct(d, n) : DirOf(d, p, n) = DirOf(d, q, n) => p = q
  <1>1. Copies(d, n) \subseteq DOMAIN Roots
    BY DEF Copies
  <1>2. \A i \in Copies(d, n) : DirOf(d, Roots[i], n) # NoPlace
    BY DEF Copies
  <1>3. ASSUME NEW p \in Distinct(d, n), NEW q \in Distinct(d, n), DirOf(d, p, n) = DirOf(d, q, n)
        PROVE  p = q
    <2>1. PICK i \in Copies(d, n) : /\ p = Roots[i]
                                    /\ \A j \in Copies(d, n) : j < i => DirOf(d, Roots[j], n) # DirOf(d, Roots[i], n)
      BY DEF Distinct
    <2>2. PICK k \in Copies(d, n) : /\ q = Roots[k]
                                    /\ \A j \in Copies(d, n) : j < k => DirOf(d, Roots[j], n) # DirOf(d, Roots[k], n)
      BY DEF Distinct
    <2>3. i \in Nat /\ k \in Nat /\ ~(i < k) /\ ~(k < i)
      BY <1>1, <1>3, <2>1, <2>2, SequenceFacts
    <2>4. i = k
      BY <2>3
    <2>5. QED
      BY <2>1, <2>2, <2>4
  <1>4. QED
    BY <1>1, <1>2, <1>3, SequenceFacts DEF Distinct

LEMMA Initial == Init => IInv
  <1> SUFFICES ASSUME Init PROVE IInv
    OBVIOUS
  <1>1. disk \in Disks
    BY CleanupAssumption DEF CleanupAssumption, Init
  <1>2. \A s \in Scopes : lock[s] \subseteq Names
    BY DEF Init
  <1>3. Typed
    BY <1>1 DEF Init, Typed, Usables, Paths
  <1>4. CleanersSound
    BY PlaceFacts DEF Init, CleanersSound, CleanerSound
  <1>5. QED
    BY <1>3, <1>4 DEF IInv

\* What the two cleanups set out to delete.
LEMMA RetiredPaths ==
    ASSUME NEW c \in Cleaners, NEW codes, NEW names \in SUBSET Names, RemoveRetired(c, codes, names)
    PROVE  \E paths \in SUBSET Paths :
             /\ Begin(c, paths)
             /\ \A t \in paths : t[1] \in SkillFolders /\ t[2] \in names
  <1> DEFINE paths == {t \in SkillFolders \X names : Present(disk, t[1], t[2])}
  <1>1. Begin(c, paths)
    BY DEF RemoveRetired
  <1>2. paths \subseteq SkillFolders \X names
    OBVIOUS
  <1> HIDE DEF paths
  <1>3. paths \in SUBSET Paths
    BY <1>2, PlaceFacts DEF Paths
  <1>4. QED
    BY <1>1, <1>2, <1>3

LEMMA CopyPaths ==
    ASSUME NEW c \in Cleaners, NEW paths, RemoveCopies(c, paths)
    PROVE  /\ paths \in SUBSET Paths /\ Begin(c, paths)
           /\ \A t \in paths : t[1] \in SkillFolders /\ t[1] \in Distinct(disk, t[2])
  <1>1. \A t \in paths : \E n \in Names : t \in Distinct(disk, n) \X {n}
    BY DEF RemoveCopies, Duplicates
  <1>2. \A n : Distinct(disk, n) \subseteq SkillFolders
    BY DistinctFacts, PlaceFacts
  <1>3. ASSUME NEW t \in paths
        PROVE  t \in Paths /\ t[1] \in SkillFolders /\ t[1] \in Distinct(disk, t[2])
    <2>1. PICK n \in Names : t \in Distinct(disk, n) \X {n}
      BY <1>1
    <2>2. PICK p \in Distinct(disk, n) : t = <<p, n>>
      BY <2>1
    <2>3. QED
      BY <1>2, <2>2, PlaceFacts DEF Paths
  <1>4. QED
    BY <1>3 DEF RemoveCopies

LEMMA BeginStep ==
    ASSUME IInv, NEW c \in Cleaners, NEW paths \in SUBSET Paths, Begin(c, paths),
           \A t \in paths : t[1] \in SkillFolders,
           kept' \subseteq Names, rival' \in BOOLEAN
    PROVE  IInv'
  <1>1. Typed'
    BY DEF IInv, Typed, Begin
  <1>2. CleanersSound'
    <2> SUFFICES ASSUME NEW d \in Cleaners PROVE CleanerSound(d)'
      BY DEF CleanersSound
    <2>1. CleanerSound(d)
      BY DEF IInv, CleanersSound
    <2>2. CASE d # c
      BY <2>1, <2>2 DEF IInv, Typed, Begin, CleanerSound
    <2>3. CASE d = c
      BY <2>1, <2>3, PlaceFacts DEF IInv, Typed, Begin, CleanerSound
    <2>4. QED
      BY <2>2, <2>3
  <1>3. QED
    BY <1>1, <1>2 DEF IInv

LEMMA ReadLocksStep ==
    ASSUME IInv, NEW c \in Cleaners, ReadLocks(c)
    PROVE  IInv'
  <1> DEFINE scopes == {ScopeOf(t[1]) : t \in targets[c]}
             read == [s \in scopes |-> lock[s]]
  <1>1. scopes \subseteq Scopes
    BY PlaceFacts
  <1>2. CASE \E s \in scopes : lock[s] = NoLock
    <2>1. /\ pc' = [pc EXCEPT ![c] = "idle"] /\ targets' = [targets EXCEPT ![c] = {}]
          /\ doomed' = [doomed EXCEPT ![c] = {}] /\ UNCHANGED <<held, disk, lock, runs, adds, kills, histVars>>
          /\ pc[c] = "locks"
      BY <1>2 DEF ReadLocks
    <2>2. Typed'
      BY <2>1 DEF IInv, Typed, histVars
    <2>3. CleanersSound'
      <3> SUFFICES ASSUME NEW d \in Cleaners PROVE CleanerSound(d)'
        BY DEF CleanersSound
      <3>1. CleanerSound(d)
        BY DEF IInv, CleanersSound
      <3>2. CASE d # c
        BY <2>1, <3>1, <3>2 DEF IInv, Typed, CleanerSound
      <3>3. CASE d = c
        BY <2>1, <3>1, <3>3, PlaceFacts DEF IInv, Typed, CleanerSound
      <3>4. QED
        BY <3>2, <3>3
    <2>4. QED
      BY <2>2, <2>3 DEF IInv
  <1>3. CASE ~\E s \in scopes : lock[s] = NoLock
    <2>1. /\ pc' = [pc EXCEPT ![c] = "delete"] /\ held' = [held EXCEPT ![c] = read]
          /\ UNCHANGED <<targets, doomed, disk, lock, runs, adds, kills, histVars>>
          /\ pc[c] = "locks"
      BY <1>3 DEF ReadLocks
    <2>2. DOMAIN read = scopes /\ \A s \in scopes : read[s] = lock[s] /\ lock[s] \subseteq Names
      <3>1. \A s \in scopes : lock[s] \in SUBSET Names
        BY <1>1, <1>3 DEF IInv, Typed
      <3>2. QED
        BY <3>1
    <2>3. \A t \in targets[c] : ScopeOf(t[1]) \in scopes
      OBVIOUS
    <2> HIDE DEF scopes, read
    <2>4. Typed'
      BY <2>1 DEF IInv, Typed, histVars
    <2>5. CleanersSound'
      <3> SUFFICES ASSUME NEW d \in Cleaners PROVE CleanerSound(d)'
        BY DEF CleanersSound
      <3>1. CleanerSound(d)
        BY DEF IInv, CleanersSound
      <3>2. CASE d # c
        BY <2>1, <3>1, <3>2 DEF IInv, Typed, CleanerSound
      <3>3. CASE d = c
        BY <1>1, <2>1, <2>2, <2>3, <3>1, <3>3, PlaceFacts DEF IInv, Typed, CleanerSound
      <3>4. QED
        BY <3>2, <3>3
    <2>6. QED
      BY <2>4, <2>5 DEF IInv
  <1>4. QED
    BY <1>2, <1>3

LEMMA DeleteStep ==
    ASSUME IInv, NEW c \in Cleaners, NEW t \in targets[c], Delete(c, t)
    PROVE  IInv'
  <1>1. t \in Places \X Names /\ disk \in [Places \X Names -> Places \cup {NoPlace}]
    BY DEF IInv, Typed, Paths, Disks
  <1>2. disk' \in Disks
    BY <1>1 DEF Delete, Disks
  <1>3. Typed'
    BY <1>2 DEF IInv, Typed, Delete, histVars
  <1>4. CleanersSound'
    <2> SUFFICES ASSUME NEW d \in Cleaners PROVE CleanerSound(d)'
      BY DEF CleanersSound
    <2>1. CleanerSound(d)
      BY DEF IInv, CleanersSound
    <2>2. CASE d # c
      BY <2>1, <2>2 DEF IInv, Typed, Delete, CleanerSound
    <2>3. CASE d = c
      BY <2>1, <2>3, PlaceFacts DEF IInv, Typed, Delete, CleanerSound
    <2>4. QED
      BY <2>2, <2>3
  <1>5. QED
    BY <1>3, <1>4 DEF IInv

\* What is left of the locks a cleanup holds when it is through with one.
LEMMA DropHeld ==
    ASSUME NEW h, NEW s, NEW g, g = [r \in DOMAIN h \ {s} |-> h[r]]
    PROVE  DOMAIN g = DOMAIN h \ {s} /\ \A r \in DOMAIN g : g[r] = h[r]
  OBVIOUS

LEMMA OpenLockStep ==
    ASSUME IInv, NEW c \in Cleaners, NEW s \in Scopes, OpenLock(c, s)
    PROVE  IInv'
  <1>1. CleanerSound(c) /\ pc[c] = "delete" /\ targets[c] = {} /\ s \in DOMAIN held[c]
    BY DEF IInv, CleanersSound, OpenLock
  <1>2. CASE Dropped(c, s) = {}
    <2> DEFINE left == [r \in DOMAIN held[c] \ {s} |-> held[c][r]]
    <2>1. held' = [held EXCEPT ![c] = left] /\ UNCHANGED <<lock, pc, disk, targets, doomed, runs, adds, kills, histVars>>
      BY <1>2 DEF OpenLock
    <2>2. DOMAIN left = DOMAIN held[c] \ {s} /\ \A r \in DOMAIN left : left[r] = held[c][r]
      OBVIOUS
    <2> HIDE DEF left
    <2>3. Typed'
      BY <2>1 DEF IInv, Typed, histVars
    <2>4. CleanersSound'
      <3> SUFFICES ASSUME NEW d \in Cleaners PROVE CleanerSound(d)'
        BY DEF CleanersSound
      <3>1. CleanerSound(d)
        BY DEF IInv, CleanersSound
      <3>2. CASE d # c
        BY <2>1, <3>1, <3>2 DEF IInv, Typed, CleanerSound
      <3>3. CASE d = c
        BY <1>1, <2>1, <2>2, <3>1, <3>3, PlaceFacts DEF IInv, Typed, CleanerSound
      <3>4. QED
        BY <3>2, <3>3
    <2>5. QED
      BY <2>3, <2>4 DEF IInv
  <1>3. CASE Dropped(c, s) # {}
    <2> DEFINE less == [held[c] EXCEPT ![s] = held[c][s] \ Dropped(c, s)]
    <2>1. /\ held' = [held EXCEPT ![c] = less] /\ pc' = [pc EXCEPT ![c] = s] /\ lock' = [lock EXCEPT ![s] = NoLock]
          /\ UNCHANGED <<disk, targets, doomed, runs, adds, kills, histVars>>
      BY <1>3 DEF OpenLock
    <2>2. /\ DOMAIN less = DOMAIN held[c] /\ less[s] = held[c][s] \ Dropped(c, s)
          /\ \A r \in DOMAIN less : r # s => less[r] = held[c][r]
      BY <1>1
    <2> HIDE DEF less
    <2>3. Typed'
      <3>1. lock' \in [Scopes -> (SUBSET Names) \cup {NoLock}]
        BY <2>1 DEF IInv, Typed
      <3>2. pc' \in [Cleaners -> {"idle", "locks", "delete"} \cup Scopes]
        BY <2>1 DEF IInv, Typed
      <3>3. QED
        BY <2>1, <3>1, <3>2 DEF IInv, Typed, histVars
    <2>4. CleanersSound'
      <3> SUFFICES ASSUME NEW d \in Cleaners PROVE CleanerSound(d)'
        BY DEF CleanersSound
      <3>1. CleanerSound(d)
        BY DEF IInv, CleanersSound
      <3>2. CASE d # c
        BY <2>1, <3>1, <3>2 DEF IInv, Typed, CleanerSound
      <3>3. CASE d = c
        <4>1. pc'[c] = s /\ s \in Scopes /\ held'[c] = less /\ targets' = targets /\ doomed' = doomed
          BY <2>1 DEF IInv, Typed
        <4>2. \A r \in DOMAIN less : less[r] \subseteq Names
          BY <1>1, <2>2 DEF CleanerSound
        <4>3. s # "idle" /\ s # "locks" /\ s # "delete"
          BY PlaceFacts
        <4>4. QED
          BY <1>1, <2>2, <3>3, <4>1, <4>2, <4>3 DEF CleanerSound
      <3>4. QED
        BY <3>2, <3>3
    <2>5. QED
      BY <2>3, <2>4 DEF IInv
  <1>4. QED
    BY <1>2, <1>3

LEMMA WriteLockStep ==
    ASSUME IInv, NEW c \in Cleaners, NEW s \in Scopes, WriteLock(c, s)
    PROVE  IInv'
  <1> DEFINE left == [r \in DOMAIN held[c] \ {s} |-> held[c][r]]
  <1>1. /\ CleanerSound(c) /\ pc[c] = s /\ pc[c] \in Scopes
        /\ lock' = [lock EXCEPT ![s] = held[c][s]] /\ held' = [held EXCEPT ![c] = left]
        /\ pc' = [pc EXCEPT ![c] = "delete"] /\ UNCHANGED <<disk, targets, doomed, runs, adds, kills, histVars>>
    BY DEF IInv, CleanersSound, WriteLock
  <1>2. DOMAIN left = DOMAIN held[c] \ {s} /\ \A r \in DOMAIN left : left[r] = held[c][r]
    OBVIOUS
  <1> HIDE DEF left
  <1>3. held[c][s] \in SUBSET Names /\ targets[c] = {}
    BY <1>1 DEF CleanerSound
  <1>4. Typed'
    <2>1. lock' \in [Scopes -> (SUBSET Names) \cup {NoLock}]
      BY <1>1, <1>3 DEF IInv, Typed
    <2>2. QED
      BY <1>1, <2>1 DEF IInv, Typed, histVars
  <1>5. CleanersSound'
    <2> SUFFICES ASSUME NEW d \in Cleaners PROVE CleanerSound(d)'
      BY DEF CleanersSound
    <2>1. CleanerSound(d)
      BY DEF IInv, CleanersSound
    <2>2. CASE d # c
      BY <1>1, <2>1, <2>2 DEF IInv, Typed, CleanerSound
    <2>3. CASE d = c
      BY <1>1, <1>2, <1>3, <2>3, PlaceFacts DEF IInv, Typed, CleanerSound
    <2>4. QED
      BY <2>2, <2>3
  <1>6. QED
    BY <1>4, <1>5 DEF IInv

\* A cleanup that ends, by itself or killed, holds nothing.
LEMMA EndStep ==
    ASSUME IInv, NEW c \in Cleaners, Finish(c) \/ Kill(c)
    PROVE  IInv'
  <1>1. /\ pc' = [pc EXCEPT ![c] = "idle"] /\ doomed' = [doomed EXCEPT ![c] = {}]
        /\ UNCHANGED <<disk, lock, runs, adds, histVars>> /\ kills' \in Nat
        /\ targets'[c] = {} /\ DOMAIN held'[c] = {}
        /\ targets' \in [Cleaners -> SUBSET Paths] /\ DOMAIN held' = Cleaners
        /\ \A d \in Cleaners : d # c => targets'[d] = targets[d] /\ held'[d] = held[d]
    <2>1. CASE Finish(c)
      BY <2>1 DEF Finish, IInv, Typed
    <2>2. CASE Kill(c)
      BY <2>2 DEF Kill, IInv, Typed
    <2>3. QED
      BY <2>1, <2>2
  <1>2. Typed'
    BY <1>1 DEF IInv, Typed, histVars
  <1>3. CleanersSound'
    <2> SUFFICES ASSUME NEW d \in Cleaners PROVE CleanerSound(d)'
      BY DEF CleanersSound
    <2>1. CleanerSound(d)
      BY DEF IInv, CleanersSound
    <2>2. CASE d # c
      BY <1>1, <2>1, <2>2 DEF IInv, Typed, CleanerSound
    <2>3. CASE d = c
      BY <1>1, <2>3, PlaceFacts DEF IInv, Typed, CleanerSound
    <2>4. QED
      BY <2>2, <2>3
  <1>4. QED
    BY <1>2, <1>3 DEF IInv

LEMMA CliAddsStep ==
    ASSUME IInv, NEW p \in Places, NEW n \in Names, CliAdds(p, n)
    PROVE  IInv'
  <1>1. ScopeOf(p) \in Scopes
    BY PlaceFacts
  <1>2. disk' \in Disks
    BY DEF IInv, Typed, CliAdds, Disks
  <1>3. lock' \in [Scopes -> (SUBSET Names) \cup {NoLock}]
    BY <1>1 DEF IInv, Typed, CliAdds
  <1>4. Typed'
    BY <1>2, <1>3 DEF IInv, Typed, CliAdds, procVars
  <1>5. CleanersSound'
    BY DEF IInv, CliAdds, procVars, CleanersSound, CleanerSound
  <1>6. QED
    BY <1>4, <1>5 DEF IInv

LEMMA Inductive == IInv /\ [Next]_vars => IInv'
  <1> SUFFICES ASSUME IInv, [Next]_vars PROVE IInv'
    OBVIOUS
  <1>1. CASE UNCHANGED vars
    BY <1>1 DEF IInv, Typed, CleanersSound, CleanerSound, vars, procVars, histVars
  <1>2. ASSUME NEW c \in Cleaners, NEW codes, NEW names \in SUBSET Names, RemoveRetired(c, codes, names)
        PROVE  IInv'
    <2>1. PICK paths \in SUBSET Paths : Begin(c, paths) /\ \A t \in paths : t[1] \in SkillFolders
      BY <1>2, RetiredPaths
    <2>2. kept' \subseteq Names /\ rival' \in BOOLEAN
      BY <1>2 DEF RemoveRetired, IInv, Typed
    <2>3. QED
      BY <2>1, <2>2, BeginStep
  <1>3. ASSUME NEW c \in Cleaners, NEW paths, RemoveCopies(c, paths)
        PROVE  IInv'
    <2>1. paths \in SUBSET Paths /\ Begin(c, paths) /\ \A t \in paths : t[1] \in SkillFolders
      BY <1>3, CopyPaths
    <2>2. kept' \subseteq Names /\ rival' \in BOOLEAN
      BY <1>3 DEF RemoveCopies, IInv, Typed
    <2>3. QED
      BY <2>1, <2>2, BeginStep
  <1>4. QED
    BY <1>1, <1>2, <1>3, ReadLocksStep, DeleteStep, OpenLockStep, WriteLockStep, EndStep, CliAddsStep DEF Next

-----------------------------------------------------------------------------
(* The last usable copy. *)

\* Skill n is reached through root p, and no cleanup is about to delete the
\* entry there or the folder it leads to.
Reached(p, n) ==
    /\ DirOf(disk, p, n) # NoPlace
    /\ \A c \in Cleaners : <<p, n>> \notin targets[c] /\ <<DirOf(disk, p, n), n>> \notin targets[c]

CopiesStay == rival \/ \A n \in kept : \E p \in Range(Roots) : Reached(p, n)

\* Deciding to delete paths of skills that are not to stay takes nothing away.
LEMMA ReachedAtBegin ==
    ASSUME IInv, NEW c \in Cleaners, NEW paths, Begin(c, paths), NEW p, NEW n, Reached(p, n),
           \A t \in paths : t[2] # n
    PROVE  Reached(p, n)'
  <1>1. disk' = disk /\ targets' = [targets EXCEPT ![c] = paths] /\ targets \in [Cleaners -> SUBSET Paths]
    BY DEF Begin, IInv, Typed
  <1>2. \A q : <<q, n>> \notin paths
    <2>1. \A q : <<q, n>>[2] = n
      OBVIOUS
    <2>2. QED
      BY <2>1
  <1>3. QED
    BY <1>1, <1>2 DEF Reached

LEMMA CopiesAtRetire ==
    ASSUME IInv, CopiesStay, NEW c \in Cleaners, NEW codes, NEW names \in SUBSET Names, RemoveRetired(c, codes, names)
    PROVE  CopiesStay'
  <1>1. PICK paths \in SUBSET Paths : Begin(c, paths) /\ \A t \in paths : t[2] \in names
    BY RetiredPaths
  <1>2. kept' = kept \ names /\ rival' = rival
    BY DEF RemoveRetired
  <1>3. QED
    BY <1>1, <1>2, ReachedAtBegin DEF CopiesStay

LEMMA CopiesAtRemove ==
    ASSUME IInv, CopiesStay, NEW c \in Cleaners, NEW paths, RemoveCopies(c, paths)
    PROVE  CopiesStay'
  <1>1. /\ paths \in SUBSET Paths /\ Begin(c, paths)
        /\ \A t \in paths : t[1] \in Distinct(disk, t[2])
    BY CopyPaths
  <1>2. /\ kept' = kept /\ disk' = disk /\ targets' = [targets EXCEPT ![c] = paths]
        /\ rival' = (rival \/ \E d \in Running, t \in paths : \E u \in doomed[d] : u[2] = t[2])
    BY DEF RemoveCopies, Begin
  <1>3. SUFFICES ASSUME ~rival', NEW n \in kept
                 PROVE  \E p \in Range(Roots) : Reached(p, n)'
    BY <1>2 DEF CopiesStay
  <1>4. PICK p \in Range(Roots) : Reached(p, n)
    BY <1>2, <1>3 DEF CopiesStay
  <1>5. CASE \A t \in paths : t[2] # n
    BY <1>1, <1>4, <1>5, ReachedAtBegin
  <1>6. CASE \E t \in paths : t[2] = n
    <2>1. PICK t \in paths : t[2] = n
      BY <1>6
    <2>2. n \in Duplicates(disk)
      <3>1. PICK m \in Duplicates(disk) : t \in Distinct(disk, m) \X {m}
        BY DEF RemoveCopies
      <3>2. t[2] = m
        BY <3>1
      <3>3. QED
        BY <2>1, <3>1, <3>2
    <2>3. PICK q \in Distinct(disk, n) : <<q, n>> \notin paths
      BY <2>2 DEF RemoveCopies
    <2> DEFINE f == DirOf(disk, q, n)
    <2>4. q \in Range(Roots) /\ f # NoPlace /\ DirOf(disk, f, n) = f
      BY DistinctFacts, DirFacts
    <2>5. <<f, n>> \notin paths
      <3> SUFFICES ASSUME <<f, n>> \in paths PROVE FALSE
        OBVIOUS
      <3> HIDE DEF f
      <3>1. f \in Distinct(disk, n)
        <4>1. <<f, n>>[1] = f /\ <<f, n>>[2] = n
          OBVIOUS
        <4>2. QED
          BY <1>1, <4>1
      <3>2. f = q
        BY <2>4, <3>1, DistinctFacts DEF f
      <3>3. QED
        BY <2>3, <3>2
    <2>6. \A d \in Cleaners : d # c => \A u \in targets[d] : u[2] # n
      <3>1. SUFFICES ASSUME NEW d \in Cleaners, NEW u \in targets[d], u[2] = n
                     PROVE  FALSE
        OBVIOUS
      <3>2. u \in doomed[d] /\ pc[d] # "idle"
        BY <3>1 DEF IInv, CleanersSound, CleanerSound
      <3>3. d \in Running
        BY <3>2 DEF Running
      <3>4. QED
        BY <1>2, <1>3, <2>1, <3>1, <3>2, <3>3
    <2>7. \A d \in Cleaners : d # c => \A r : <<r, n>> \notin targets[d]
      <3>1. \A r : <<r, n>>[2] = n
        OBVIOUS
      <3>2. QED
        BY <2>6, <3>1
    <2>8. targets \in [Cleaners -> SUBSET Paths]
      BY DEF IInv, Typed
    <2>9. Reached(q, n)'
      <3> HIDE DEF f
      <3>1. \A d \in Cleaners : <<q, n>> \notin targets'[d] /\ <<f, n>> \notin targets'[d]
        BY <1>2, <2>3, <2>5, <2>7, <2>8
      <3>2. QED
        BY <1>2, <2>4, <3>1 DEF Reached, f
    <2>10. QED
      BY <2>4, <2>9
  <1>7. QED
    BY <1>5, <1>6

LEMMA CopiesAtDelete ==
    ASSUME IInv, CopiesStay, NEW c \in Cleaners, NEW t \in targets[c], Delete(c, t)
    PROVE  CopiesStay'
  <1>1. /\ disk' = [disk EXCEPT ![t] = NoPlace] /\ rival' = rival /\ kept' = kept
        /\ \A d \in Cleaners : targets'[d] \subseteq targets[d]
        /\ disk \in [Places \X Names -> Places \cup {NoPlace}]
    BY DEF Delete, histVars, IInv, Typed, Disks
  <1>2. ASSUME NEW p \in Range(Roots), NEW n \in kept, Reached(p, n)
        PROVE  Reached(p, n)'
    <2> DEFINE f == DirOf(disk, p, n)
    <2>1. f # NoPlace /\ disk[<<p, n>>] = f /\ disk[<<f, n>>] = f
      BY <1>2, DirFacts DEF Reached
    <2>2. t # <<p, n>> /\ t # <<f, n>>
      BY <1>2 DEF Reached
    <2>3. n \in Names /\ p \in Places
      BY PlaceFacts DEF IInv, Typed
    <2>4. f \in Places
      BY <1>1, <2>1, <2>3
    <2> HIDE DEF f
    <2>5. disk'[<<p, n>>] = f /\ disk'[<<f, n>>] = f
      BY <1>1, <2>1, <2>2, <2>3, <2>4
    <2>6. DirOf(disk', p, n) = f
      BY <2>5 DEF DirOf
    <2>7. \A d \in Cleaners : <<p, n>> \notin targets'[d] /\ <<f, n>> \notin targets'[d]
      BY <1>1, <1>2 DEF Reached, f
    <2>8. QED
      BY <2>1, <2>6, <2>7 DEF Reached
  <1>3. QED
    BY <1>1, <1>2 DEF CopiesStay

LEMMA CopiesAtAdd ==
    ASSUME IInv, CopiesStay, NEW p \in Places, NEW n \in Names, CliAdds(p, n)
    PROVE  CopiesStay'
  <1>1. /\ disk' = [disk EXCEPT ![<<p, n>>] = p] /\ disk[<<p, n>>] = NoPlace
        /\ rival' = rival /\ targets' = targets
        /\ disk \in [Places \X Names -> Places \cup {NoPlace}]
    BY DEF CliAdds, Present, procVars, IInv, Typed, Disks
  <1>2. ASSUME NEW q \in Range(Roots), NEW m \in Names, Reached(q, m)
        PROVE  Reached(q, m)'
    <2> DEFINE f == DirOf(disk, q, m)
    <2>1. f # NoPlace /\ disk[<<q, m>>] = f /\ disk[<<f, m>>] = f
      BY <1>2, DirFacts DEF Reached
    <2>2. q \in Places
      BY PlaceFacts
    <2>3. f \in Places
      BY <1>1, <2>1, <2>2
    <2> HIDE DEF f
    <2>4. disk'[<<q, m>>] = f /\ disk'[<<f, m>>] = f
      BY <1>1, <2>1, <2>2, <2>3
    <2>5. DirOf(disk', q, m) = f
      BY <2>4 DEF DirOf
    <2>6. QED
      BY <1>1, <1>2, <2>1, <2>5 DEF Reached, f
  <1>3. ASSUME p \in Range(Roots), \A c \in Running : <<p, n>> \notin doomed[c]
        PROVE  Reached(p, n)'
    <2>1. DirOf(disk', p, n) = p /\ p # NoPlace
      BY <1>1, PlaceFacts DEF DirOf
    <2>2. \A c \in Cleaners : <<p, n>> \notin targets[c]
      BY <1>3 DEF IInv, CleanersSound, CleanerSound, Running
    <2>3. QED
      BY <1>1, <2>1, <2>2 DEF Reached
  <1>4. ASSUME NEW m \in kept', m \notin kept
        PROVE  m = n /\ p \in Range(Roots) /\ \A c \in Running : <<p, n>> \notin doomed[c]
    BY <1>4 DEF CliAdds
  <1>5. kept \subseteq Names
    BY DEF IInv, Typed
  <1>6. QED
    BY <1>1, <1>2, <1>3, <1>4, <1>5 DEF CopiesStay

LEMMA CopiesStep == IInv /\ CopiesStay /\ [Next]_vars => CopiesStay'
  <1> SUFFICES ASSUME IInv, CopiesStay, [Next]_vars PROVE CopiesStay'
    OBVIOUS
  <1>1. ASSUME UNCHANGED <<disk, rival, kept>>, \A c \in Cleaners : targets'[c] \subseteq targets[c]
        PROVE  CopiesStay'
    BY <1>1 DEF CopiesStay, Reached
  <1>2. CASE UNCHANGED vars
    BY <1>1, <1>2 DEF vars, procVars, histVars
  <1>3. ASSUME NEW c \in Cleaners, ReadLocks(c) \/ Finish(c) \/ Kill(c)
        PROVE  CopiesStay'
    <2>1. targets \in [Cleaners -> SUBSET Paths]
      BY DEF IInv, Typed
    <2>2. \A d \in Cleaners : targets'[d] \subseteq targets[d]
      <3>1. targets' = [targets EXCEPT ![c] = {}] \/ targets' = targets
        BY <1>3 DEF ReadLocks, Finish, Kill
      <3>2. QED
        BY <2>1, <3>1
    <2>3. QED
      BY <1>1, <1>3, <2>2 DEF ReadLocks, Finish, Kill, histVars
  <1>4. ASSUME NEW c \in Cleaners, NEW s \in Scopes, OpenLock(c, s) \/ WriteLock(c, s)
        PROVE  CopiesStay'
    BY <1>1, <1>4 DEF OpenLock, WriteLock, histVars
  <1>5. QED
    BY <1>2, <1>3, <1>4, CopiesAtRetire, CopiesAtRemove, CopiesAtDelete, CopiesAtAdd DEF Next

LEMMA CopiesInit == Init => CopiesStay
  <1> SUFFICES ASSUME Init PROVE CopiesStay
    OBVIOUS
  <1>1. kept = Usables(disk) /\ \A c \in Cleaners : targets[c] = {}
    BY DEF Init
  <1>2. QED
    BY <1>1, FolderFacts DEF CopiesStay, Reached, Usables

LEMMA Invariant == Spec => []IInv
  BY Initial, Inductive, PTL DEF Spec

\* No sequence of cleanups, whatever is killed or overlaps, takes the last
\* usable copy of a skill that was not to be retired, while no two remove-copies
\* of one skill overlap (remove_copies, remove_retired and locate_skills).
THEOREM CopiesAreSafe == Spec => []LastCopyStays
  <1>1. IInv /\ CopiesStay => LastCopyStays
    <2> SUFFICES ASSUME IInv, CopiesStay PROVE LastCopyStays
      OBVIOUS
    <2>1. kept \subseteq Names
      BY DEF IInv, Typed
    <2>2. QED
      BY <2>1, FolderFacts DEF CopiesStay, Reached, LastCopyStays, Usables
  <1>2. QED
    BY <1>1, Initial, Inductive, CopiesInit, CopiesStep, PTL DEF Spec

-----------------------------------------------------------------------------
(* The locks. *)

\* A lock that was read or can be read lists every copy a cleanup would see,
\* and one that is cut short is about to be written, unless there was a kill.
LocksHold ==
    /\ \A s \in Scopes : lock[s] = NoLock => kills > 0 \/ \E c \in Cleaners : pc[c] = s
    /\ \/ raced
       \/ \A s \in Scopes : /\ lock[s] # NoLock => Seen(s) \subseteq lock[s]
                            /\ \A c \in Cleaners : s \in DOMAIN held[c] => Seen(s) \subseteq held[c][s]

LEMMA SeenFacts ==
    /\ \A s : Seen(s) \subseteq Names /\ Seen(s) \subseteq InAll(s)
    /\ disk' = disk => \A s : Seen(s)' = Seen(s) /\ InAll(s)' = InAll(s)
  BY PlaceFacts DEF Seen, InAll, InScope

LEMMA SeenAtDelete ==
    ASSUME IInv, NEW c \in Cleaners, NEW t \in targets[c], Delete(c, t), NEW s
    PROVE  /\ Seen(s)' \subseteq Seen(s)
           /\ \A n \in InAll(s) : n \in InAll(s)' \/ (n = t[2] /\ ScopeOf(t[1]) = s)
  <1>1. /\ disk' = [disk EXCEPT ![t] = NoPlace] /\ disk \in [Places \X Names -> Places \cup {NoPlace}]
        /\ t \in Places \X Names
    BY DEF Delete, IInv, Typed, Disks, Paths
  <1>2. ASSUME NEW p \in Places, NEW n \in Names, <<p, n>> # t
        PROVE  disk'[<<p, n>>] = disk[<<p, n>>]
    BY <1>1, <1>2
  <1>3. disk'[t] = NoPlace
    BY <1>1
  <1>4. Seen(s)' \subseteq Seen(s)
    <2> SUFFICES ASSUME NEW n \in Names, NEW p \in SkillFolders \cap InScope(s), disk'[<<p, n>>] # NoPlace
                 PROVE  disk[<<p, n>>] # NoPlace
      BY DEF Seen, Present
    <2>1. p \in Places
      BY PlaceFacts
    <2>2. QED
      BY <1>2, <1>3, <2>1
  <1>5. ASSUME NEW n \in InAll(s)
        PROVE  n \in InAll(s)' \/ (n = t[2] /\ ScopeOf(t[1]) = s)
    <2>1. PICK p \in InScope(s) : disk[<<p, n>>] # NoPlace /\ n \in Names
      BY DEF InAll, Present
    <2>2. p \in Places /\ ScopeOf(p) = s
      BY DEF InScope
    <2>3. CASE <<p, n>> = t
      <3>1. t[1] = p /\ t[2] = n
        BY <2>3
      <3>2. QED
        BY <2>2, <3>1
    <2>4. CASE <<p, n>> # t
      <3>1. disk'[<<p, n>>] # NoPlace
        BY <1>2, <2>1, <2>2, <2>4
      <3>2. QED
        BY <2>1, <3>1 DEF InAll, Present
    <2>5. QED
      BY <2>3, <2>4
  <1>6. QED
    BY <1>4, <1>5

LEMMA SeenAtAdd ==
    ASSUME IInv, NEW p \in Places, NEW n \in Names, CliAdds(p, n), NEW s
    PROVE  /\ Seen(s)' \subseteq Seen(s) \cup (IF s = ScopeOf(p) THEN {n} ELSE {})
           /\ InAll(s) \subseteq InAll(s)'
           /\ s = ScopeOf(p) => n \in InAll(s)'
  <1>1. /\ disk' = [disk EXCEPT ![<<p, n>>] = p] /\ disk \in [Places \X Names -> Places \cup {NoPlace}]
    BY DEF CliAdds, IInv, Typed, Disks
  <1>2. /\ disk'[<<p, n>>] = p /\ p # NoPlace
        /\ \A q \in Places, m \in Names : <<q, m>> # <<p, n>> => disk'[<<q, m>>] = disk[<<q, m>>]
    BY <1>1, PlaceFacts
  <1>3. Seen(s)' \subseteq Seen(s) \cup (IF s = ScopeOf(p) THEN {n} ELSE {})
    <2> SUFFICES ASSUME NEW m \in Names, NEW q \in SkillFolders \cap InScope(s), disk'[<<q, m>>] # NoPlace
                 PROVE  m \in Seen(s) \/ (m = n /\ s = ScopeOf(p))
      BY DEF Seen, Present
    <2>1. q \in Places /\ ScopeOf(q) = s
      BY DEF InScope
    <2>2. CASE <<q, m>> = <<p, n>>
      <3>1. q = p /\ m = n
        BY <2>2
      <3>2. QED
        BY <2>1, <3>1
    <2>3. CASE <<q, m>> # <<p, n>>
      BY <1>2, <2>1, <2>3 DEF Seen, Present
    <2>4. QED
      BY <2>2, <2>3
  <1>4. InAll(s) \subseteq InAll(s)'
    <2> SUFFICES ASSUME NEW m \in Names, NEW q \in InScope(s), disk[<<q, m>>] # NoPlace
                 PROVE  disk'[<<q, m>>] # NoPlace
      BY DEF InAll, Present
    <2>1. q \in Places
      BY DEF InScope
    <2>2. CASE <<q, m>> = <<p, n>>
      BY <1>2, <2>2
    <2>3. CASE <<q, m>> # <<p, n>>
      BY <1>2, <2>1, <2>3
    <2>4. QED
      BY <2>2, <2>3
  <1>5. s = ScopeOf(p) => n \in InAll(s)'
    BY <1>2 DEF InAll, Present, InScope
  <1>6. QED
    BY <1>3, <1>4, <1>5

LEMMA DroppedFacts ==
    ASSUME NEW c, NEW s
    PROVE  Dropped(c, s) \cap Seen(s) = {}
  BY DEF Dropped, Seen

LEMMA LocksHoldStep == IInv /\ LocksHold /\ [Next]_vars => LocksHold'
  <1> SUFFICES ASSUME IInv, LocksHold, [Next]_vars PROVE LocksHold'
    OBVIOUS
  <1>1. CASE UNCHANGED vars
    BY <1>1, SeenFacts DEF LocksHold, vars, procVars, histVars
  \* Nothing is read, written or deleted.
  <1>2. ASSUME UNCHANGED <<disk, lock, held, kills, raced>>, NEW c \in Cleaners, pc[c] \notin Scopes,
               \A d \in Cleaners : d # c => pc'[d] = pc[d]
        PROVE  LocksHold'
    <2>1. ASSUME NEW s \in Scopes, lock[s] = NoLock, ~(kills > 0)
          PROVE  \E d \in Cleaners : pc'[d] = s
      BY <1>2, <2>1 DEF LocksHold
    <2>2. QED
      BY <1>2, <2>1, SeenFacts DEF LocksHold
  <1>3. ASSUME NEW c \in Cleaners, NEW codes, NEW names, RemoveRetired(c, codes, names)
        PROVE  LocksHold'
    BY <1>2, <1>3, PlaceFacts DEF RemoveRetired, Begin, IInv, Typed
  <1>4. ASSUME NEW c \in Cleaners, NEW paths, RemoveCopies(c, paths)
        PROVE  LocksHold'
    BY <1>2, <1>4, PlaceFacts DEF RemoveCopies, Begin, IInv, Typed
  <1>5. ASSUME NEW c \in Cleaners, ReadLocks(c)
        PROVE  LocksHold'
    <2>1. pc[c] = "locks" /\ UNCHANGED <<disk, lock, kills, raced>>
      BY <1>5 DEF ReadLocks, histVars
    <2>2. \A d \in Cleaners : d # c => pc'[d] = pc[d]
      BY <1>5 DEF ReadLocks, IInv, Typed
    <2>3. CASE UNCHANGED held
      BY <1>2, <2>1, <2>2, <2>3, PlaceFacts
    <2>4. CASE ~UNCHANGED held
      <3> DEFINE scopes == {ScopeOf(t[1]) : t \in targets[c]}
      <3>1. held' = [held EXCEPT ![c] = [s \in scopes |-> lock[s]]] /\ \A s \in scopes : lock[s] # NoLock
        BY <1>5, <2>4 DEF ReadLocks
      <3> HIDE DEF scopes
      <3>2. \A d \in Cleaners : d # c => held'[d] = held[d]
        BY <3>1 DEF IInv, Typed
      <3>3. DOMAIN held'[c] = scopes /\ \A s \in scopes : held'[c][s] = lock[s]
        BY <3>1 DEF IInv, Typed
      <3>4. \A s \in Scopes : lock[s] = NoLock => kills > 0 \/ \E d \in Cleaners : pc'[d] = s
        BY <2>1, <2>2, PlaceFacts DEF LocksHold
      <3>5. QED
        BY <2>1, <3>1, <3>2, <3>3, <3>4, SeenFacts DEF LocksHold
    <2>5. QED
      BY <2>3, <2>4
  <1>6. ASSUME NEW c \in Cleaners, NEW t \in targets[c], Delete(c, t)
        PROVE  LocksHold'
    <2>1. UNCHANGED <<lock, held, pc, kills, raced>>
      BY <1>6 DEF Delete, histVars
    <2>2. \A s : Seen(s)' \subseteq Seen(s)
      BY <1>6, SeenAtDelete
    <2>3. QED
      BY <2>1, <2>2 DEF LocksHold
  <1>7. ASSUME NEW c \in Cleaners, NEW s \in Scopes, OpenLock(c, s)
        PROVE  LocksHold'
    <2>1. UNCHANGED <<disk, kills, raced>> /\ pc[c] = "delete" /\ s \in DOMAIN held[c]
      BY <1>7 DEF OpenLock, histVars
    <2>2. CASE Dropped(c, s) = {}
      <3> DEFINE left == [r \in DOMAIN held[c] \ {s} |-> held[c][r]]
      <3>1. held' = [held EXCEPT ![c] = left] /\ UNCHANGED <<lock, pc>>
        BY <1>7, <2>2 DEF OpenLock
      <3>2. DOMAIN left = DOMAIN held[c] \ {s} /\ \A r \in DOMAIN left : left[r] = held[c][r]
        OBVIOUS
      <3> HIDE DEF left
      <3>3. \A d \in Cleaners : \A r \in DOMAIN held'[d] : r \in DOMAIN held[d] /\ held'[d][r] = held[d][r]
        BY <3>1, <3>2 DEF IInv, Typed
      <3>4. QED
        BY <2>1, <3>1, <3>3, SeenFacts DEF LocksHold
    <2>3. CASE Dropped(c, s) # {}
      <3> DEFINE less == [held[c] EXCEPT ![s] = held[c][s] \ Dropped(c, s)]
      <3>1. held' = [held EXCEPT ![c] = less] /\ pc' = [pc EXCEPT ![c] = s] /\ lock' = [lock EXCEPT ![s] = NoLock]
        BY <1>7, <2>3 DEF OpenLock
      <3>2. /\ DOMAIN less = DOMAIN held[c] /\ less[s] = held[c][s] \ Dropped(c, s)
            /\ \A r \in DOMAIN less : r # s => less[r] = held[c][r]
        BY <2>1
      <3> HIDE DEF less
      <3>3. \A d \in Cleaners : d # c => held'[d] = held[d] /\ pc'[d] = pc[d]
        BY <3>1 DEF IInv, Typed
      <3>4. held'[c] = less /\ pc'[c] = s /\ lock'[s] = NoLock /\ \A r \in Scopes : r # s => lock'[r] = lock[r]
        BY <3>1 DEF IInv, Typed
      <3>5. \A r \in Scopes : lock'[r] = NoLock => kills > 0 \/ \E d \in Cleaners : pc'[d] = r
        <4>1. SUFFICES ASSUME NEW r \in Scopes, lock'[r] = NoLock, ~(kills > 0), r # s
                       PROVE  \E d \in Cleaners : pc'[d] = r
          BY <3>4
        <4>2. PICK d \in Cleaners : pc[d] = r
          BY <3>4, <4>1 DEF LocksHold
        <4>3. d # c
          BY <2>1, <4>2, PlaceFacts
        <4>4. QED
          BY <3>3, <4>2, <4>3
      <3>6. \/ raced
            \/ \A r \in Scopes : /\ lock'[r] # NoLock => Seen(r) \subseteq lock'[r]
                                 /\ \A d \in Cleaners : r \in DOMAIN held'[d] => Seen(r) \subseteq held'[d][r]
        <4>1. SUFFICES ASSUME ~raced, NEW r \in Scopes
                       PROVE  /\ lock'[r] # NoLock => Seen(r) \subseteq lock'[r]
                              /\ \A d \in Cleaners : r \in DOMAIN held'[d] => Seen(r) \subseteq held'[d][r]
          OBVIOUS
        <4>2. lock'[r] # NoLock => Seen(r) \subseteq lock'[r]
          BY <3>4, <4>1 DEF LocksHold
        <4>3. \A d \in Cleaners : d # c => (r \in DOMAIN held'[d] => Seen(r) \subseteq held'[d][r])
          BY <3>3, <4>1 DEF LocksHold
        <4>4. r \in DOMAIN less => Seen(r) \subseteq less[r]
          BY <3>2, <4>1, DroppedFacts DEF LocksHold
        <4>5. QED
          BY <3>4, <4>2, <4>3, <4>4
      <3>7. QED
        BY <2>1, <3>5, <3>6, SeenFacts DEF LocksHold
    <2>4. QED
      BY <2>2, <2>3
  <1>8. ASSUME NEW c \in Cleaners, NEW s \in Scopes, WriteLock(c, s)
        PROVE  LocksHold'
    <2> DEFINE left == [r \in DOMAIN held[c] \ {s} |-> held[c][r]]
    <2>1. /\ pc[c] = s /\ lock' = [lock EXCEPT ![s] = held[c][s]] /\ held' = [held EXCEPT ![c] = left]
          /\ pc' = [pc EXCEPT ![c] = "delete"] /\ UNCHANGED <<disk, kills, raced>>
      BY <1>8 DEF WriteLock, histVars
    <2>2. DOMAIN left = DOMAIN held[c] \ {s} /\ \A r \in DOMAIN left : left[r] = held[c][r]
      OBVIOUS
    <2> HIDE DEF left
    <2>3. s \in DOMAIN held[c] /\ held[c][s] \in SUBSET Names
      BY <2>1 DEF IInv, CleanersSound, CleanerSound
    <2>4. \A d \in Cleaners : \A r \in DOMAIN held'[d] : r \in DOMAIN held[d] /\ held'[d][r] = held[d][r]
      BY <2>1, <2>2 DEF IInv, Typed
    <2>5. lock'[s] = held[c][s] /\ lock'[s] # NoLock /\ \A r \in Scopes : r # s => lock'[r] = lock[r]
      BY <2>1, <2>3, PlaceFacts DEF IInv, Typed
    <2>6. \A d \in Cleaners : d # c => pc'[d] = pc[d]
      BY <2>1 DEF IInv, Typed
    <2>7. \A r \in Scopes : lock'[r] = NoLock => kills > 0 \/ \E d \in Cleaners : pc'[d] = r
      <3>1. SUFFICES ASSUME NEW r \in Scopes, lock'[r] = NoLock, ~(kills > 0)
                     PROVE  \E d \in Cleaners : pc'[d] = r
        OBVIOUS
      <3>2. r # s /\ lock[r] = NoLock
        BY <2>5, <3>1
      <3>3. PICK d \in Cleaners : pc[d] = r
        BY <3>1, <3>2 DEF LocksHold
      <3>4. QED
        BY <2>1, <2>6, <3>2, <3>3
    <2>8. \/ raced
          \/ \A r \in Scopes : /\ lock'[r] # NoLock => Seen(r) \subseteq lock'[r]
                               /\ \A d \in Cleaners : r \in DOMAIN held'[d] => Seen(r) \subseteq held'[d][r]
      BY <2>3, <2>4, <2>5 DEF LocksHold
    <2>9. QED
      BY <2>1, <2>7, <2>8, SeenFacts DEF LocksHold
  <1>9. ASSUME NEW c \in Cleaners, Finish(c)
        PROVE  LocksHold'
    BY <1>2, <1>9, PlaceFacts DEF Finish, IInv, Typed, histVars
  <1>10. ASSUME NEW c \in Cleaners, Kill(c)
         PROVE  LocksHold'
    <2>1. UNCHANGED <<disk, lock, raced>> /\ kills' > 0
      BY <1>10 DEF Kill, histVars, IInv, Typed
    <2>2. \A d \in Cleaners : \A r \in DOMAIN held'[d] : r \in DOMAIN held[d] /\ held'[d][r] = held[d][r]
      BY <1>10 DEF Kill, IInv, Typed
    <2>3. QED
      BY <2>1, <2>2, SeenFacts DEF LocksHold
  <1>11. ASSUME NEW p \in Places, NEW n \in Names, CliAdds(p, n)
         PROVE  LocksHold'
    <2> DEFINE s == ScopeOf(p)
    <2>1. /\ UNCHANGED <<pc, held, kills>> /\ lock[s] # NoLock /\ lock' = [lock EXCEPT ![s] = lock[s] \cup {n}]
          /\ raced' = (raced \/ Running # {})
      BY <1>11 DEF CliAdds, procVars
    <2>2. s \in Scopes
      BY PlaceFacts
    <2> HIDE DEF s
    <2>3. lock'[s] = lock[s] \cup {n} /\ \A r \in Scopes : r # s => lock'[r] = lock[r]
      BY <2>1, <2>2 DEF IInv, Typed
    <2>4. lock'[s] # NoLock
      <3>1. lock[s] \in SUBSET Names
        BY <2>1, <2>2 DEF IInv, Typed
      <3>2. lock'[s] \in SUBSET Names
        BY <2>3, <3>1
      <3>3. QED
        BY <3>2, PlaceFacts
    <2>5. \A r \in Scopes : Seen(r)' \subseteq Seen(r) \cup (IF r = s THEN {n} ELSE {})
      BY <1>11, SeenAtAdd DEF s
    <2>6. ~raced' => \A c \in Cleaners : DOMAIN held[c] = {}
      BY <2>1 DEF Running, IInv, CleanersSound, CleanerSound
    <2>7. QED
      BY <2>1, <2>3, <2>4, <2>5, <2>6 DEF LocksHold
  <1>12. QED
    BY <1>1, <1>3, <1>4, <1>5, <1>6, <1>7, <1>8, <1>9, <1>10, <1>11 DEF Next

\* While cleanups come one after the other and none is killed, a lock lists no
\* name without a copy: only the lock that a cleanup holds does, and there only
\* names of what it deletes.
DoomedIn(c, s) == {t[2] : t \in {u \in doomed[c] : ScopeOf(u[1]) = s}}
Alone ==
    /\ \A c, d \in Running : c = d
    /\ \A s \in Scopes : (\A c \in Cleaners : s \notin DOMAIN held[c]) => lock[s] \subseteq InAll(s)
    /\ \A c \in Cleaners : \A s \in DOMAIN held[c] :
         /\ held[c][s] \subseteq InAll(s) \cup DoomedIn(c, s)
         /\ pc[c] = s => held[c][s] \subseteq InAll(s)
         /\ pc[c] # s => lock[s] = held[c][s]

NoneStale == raced \/ crossed \/ kills > 0 \/ Alone

\* The cleanup that runs while no other does.
LEMMA OnlyOne ==
    ASSUME IInv, Alone, NEW c \in Cleaners, pc[c] # "idle", NEW d \in Cleaners, d # c
    PROVE  pc[d] = "idle" /\ DOMAIN held[d] = {} /\ targets[d] = {}
  BY DEF Alone, Running, IInv, CleanersSound, CleanerSound

\* What is dropped from the lock is all it should not list.
LEMMA DroppedIsAll ==
    ASSUME IInv, Alone, NEW c \in Cleaners, NEW s \in DOMAIN held[c]
    PROVE  held[c][s] \ Dropped(c, s) \subseteq InAll(s)
  <1> SUFFICES ASSUME NEW n \in held[c][s], n \notin Dropped(c, s), n \notin InAll(s)
               PROVE  FALSE
    OBVIOUS
  <1>1. n \in DoomedIn(c, s) /\ n \in Names
    BY DEF Alone, IInv, CleanersSound, CleanerSound
  <1>2. \A p \in SkillFolders \cap InScope(s) : ~Present(disk, p, n)
    BY <1>1 DEF InAll
  <1>3. QED
    BY <1>1, <1>2 DEF Dropped, DoomedIn

LEMMA AloneAtBegin ==
    ASSUME IInv, Alone, NEW c \in Cleaners, NEW paths, Begin(c, paths), ~crossed'
    PROVE  Alone'
  <1>1. /\ pc' = [pc EXCEPT ![c] = "locks"] /\ UNCHANGED <<disk, lock, held>> /\ pc[c] = "idle" /\ Running = {}
    BY DEF Begin
  <1>2. \A d \in Cleaners : DOMAIN held[d] = {}
    BY <1>1 DEF Running, IInv, CleanersSound, CleanerSound
  <1>3. Running' \subseteq {c}
    BY <1>1 DEF Running, IInv, Typed
  <1>4. QED
    BY <1>1, <1>2, <1>3, SeenFacts DEF Alone

LEMMA AloneAtRead ==
    ASSUME IInv, Alone, NEW c \in Cleaners, ReadLocks(c)
    PROVE  Alone'
  <1> DEFINE scopes == {ScopeOf(t[1]) : t \in targets[c]}
             read == [s \in scopes |-> lock[s]]
  <1>1. pc[c] = "locks" /\ UNCHANGED <<disk, lock>>
    BY DEF ReadLocks
  <1>2. \A d \in Cleaners : DOMAIN held[d] = {}
    BY <1>1, OnlyOne DEF IInv, CleanersSound, CleanerSound
  <1>3. Running' \subseteq Running
    BY <1>1 DEF ReadLocks, Running, IInv, Typed
  <1>4. CASE UNCHANGED held
    BY <1>1, <1>2, <1>3, <1>4, SeenFacts DEF Alone
  <1>5. CASE ~UNCHANGED held
    <2>1. held' = [held EXCEPT ![c] = read] /\ pc' = [pc EXCEPT ![c] = "delete"] /\ doomed' = doomed
      BY <1>5 DEF ReadLocks
    <2>2. DOMAIN read = scopes /\ \A s \in scopes : read[s] = lock[s]
      OBVIOUS
    <2>3. scopes \subseteq Scopes
      BY PlaceFacts
    <2> HIDE DEF read, scopes
    <2>4. held'[c] = read /\ pc'[c] = "delete" /\ \A d \in Cleaners : d # c => DOMAIN held'[d] = {}
      BY <1>2, <2>1 DEF IInv, Typed
    <2>5. \A s \in Scopes : lock[s] \subseteq InAll(s)
      BY <1>2 DEF Alone
    <2>6. QED
      BY <1>1, <1>3, <2>1, <2>2, <2>3, <2>4, <2>5, SeenFacts, PlaceFacts DEF Alone
  <1>6. QED
    BY <1>4, <1>5

LEMMA AloneAtDelete ==
    ASSUME IInv, Alone, NEW c \in Cleaners, NEW t \in targets[c], Delete(c, t)
    PROVE  Alone'
  <1>1. UNCHANGED <<lock, pc, doomed, held>> /\ pc[c] = "delete"
    BY DEF Delete
  <1>2. \A s, n : n \in InAll(s) => n \in InAll(s)' \/ (n = t[2] /\ ScopeOf(t[1]) = s)
    BY SeenAtDelete
  <1>3. ScopeOf(t[1]) \in DOMAIN held[c] /\ t \in doomed[c]
    BY <1>1 DEF IInv, CleanersSound, CleanerSound
  <1>4. \A d \in Cleaners : d # c => DOMAIN held[d] = {}
    BY <1>1, OnlyOne
  <1>5. t[2] \in DoomedIn(c, ScopeOf(t[1]))
    BY <1>3 DEF DoomedIn
  <1>6. \A s \in Scopes : (\A d \in Cleaners : s \notin DOMAIN held[d]) => lock[s] \subseteq InAll(s)'
    BY <1>2, <1>3 DEF Alone
  <1>7. \A d \in Cleaners : \A s : DoomedIn(d, s)' = DoomedIn(d, s)
    BY <1>1 DEF DoomedIn
  <1>8. ASSUME NEW s \in DOMAIN held[c]
        PROVE  held[c][s] \subseteq InAll(s)' \cup DoomedIn(c, s)
    BY <1>2, <1>5, <1>8 DEF Alone
  <1>9. \A s \in DOMAIN held[c] : pc[c] # s
    BY <1>1, PlaceFacts DEF IInv, CleanersSound, CleanerSound
  <1>10. Running' = Running
    BY <1>1 DEF Running
  <1>11. QED
    BY <1>1, <1>4, <1>6, <1>7, <1>8, <1>9, <1>10 DEF Alone

LEMMA AloneAtOpen ==
    ASSUME IInv, Alone, NEW c \in Cleaners, NEW s \in Scopes, OpenLock(c, s)
    PROVE  Alone'
  <1>1. UNCHANGED <<disk, doomed>> /\ pc[c] = "delete" /\ s \in DOMAIN held[c]
    BY DEF OpenLock
  <1>2. \A d \in Cleaners : d # c => DOMAIN held[d] = {}
    BY <1>1, OnlyOne
  <1>3. held[c][s] \ Dropped(c, s) \subseteq InAll(s)
    BY <1>1, DroppedIsAll
  <1>4. \A d \in Cleaners : \A r : DoomedIn(d, r)' = DoomedIn(d, r)
    BY <1>1 DEF DoomedIn
  <1>5. \A r \in DOMAIN held[c] : pc[c] # r /\ lock[r] = held[c][r] /\ r \in Scopes
    BY <1>1, PlaceFacts DEF IInv, CleanersSound, CleanerSound, Alone
  <1>6. CASE Dropped(c, s) = {}
    <2> DEFINE left == [r \in DOMAIN held[c] \ {s} |-> held[c][r]]
    <2>1. held' = [held EXCEPT ![c] = left] /\ UNCHANGED <<lock, pc>>
      BY <1>6 DEF OpenLock
    <2>2. DOMAIN left = DOMAIN held[c] \ {s} /\ \A r \in DOMAIN left : left[r] = held[c][r]
      OBVIOUS
    <2> HIDE DEF left
    <2>3. held'[c] = left /\ \A d \in Cleaners : d # c => DOMAIN held'[d] = {}
      BY <1>2, <2>1 DEF IInv, Typed
    <2>4. lock[s] \subseteq InAll(s)
      BY <1>1, <1>3, <1>5, <1>6
    <2>5. \A r \in Scopes : (\A d \in Cleaners : r \notin DOMAIN held'[d]) => lock[r] \subseteq InAll(r)
      <3>1. SUFFICES ASSUME NEW r \in Scopes, r # s, \A d \in Cleaners : r \notin DOMAIN held'[d]
                     PROVE  lock[r] \subseteq InAll(r)
        BY <2>4
      <3>2. \A d \in Cleaners : r \notin DOMAIN held[d]
        BY <1>2, <2>2, <2>3, <3>1
      <3>3. QED
        BY <3>2 DEF Alone
    <2>6. Running' = Running
      BY <2>1 DEF Running
    <2>7. QED
      BY <1>1, <1>4, <2>1, <2>2, <2>3, <2>5, <2>6, SeenFacts DEF Alone
  <1>7. CASE Dropped(c, s) # {}
    <2> DEFINE less == [held[c] EXCEPT ![s] = held[c][s] \ Dropped(c, s)]
    <2>1. held' = [held EXCEPT ![c] = less] /\ pc' = [pc EXCEPT ![c] = s] /\ lock' = [lock EXCEPT ![s] = NoLock]
      BY <1>7 DEF OpenLock
    <2>2. /\ DOMAIN less = DOMAIN held[c] /\ less[s] = held[c][s] \ Dropped(c, s)
          /\ \A r \in DOMAIN less : r # s => less[r] = held[c][r]
      BY <1>1
    <2> HIDE DEF less
    <2>3. held'[c] = less /\ pc'[c] = s /\ \A d \in Cleaners : d # c => DOMAIN held'[d] = {} /\ pc'[d] = pc[d]
      BY <1>2, <2>1 DEF IInv, Typed
    <2>4. \A r \in Scopes : r # s => lock'[r] = lock[r]
      BY <2>1 DEF IInv, Typed
    <2>5. Running' = Running
      BY <1>1, <2>3, PlaceFacts DEF Running
    <2>6. \A r \in Scopes : (\A d \in Cleaners : r \notin DOMAIN held'[d]) => lock'[r] \subseteq InAll(r)
      <3>1. SUFFICES ASSUME NEW r \in Scopes, \A d \in Cleaners : r \notin DOMAIN held'[d]
                     PROVE  lock'[r] \subseteq InAll(r)
        OBVIOUS
      <3>2. r # s /\ \A d \in Cleaners : r \notin DOMAIN held[d]
        BY <1>1, <1>2, <2>2, <2>3, <3>1
      <3>3. QED
        BY <2>4, <3>2 DEF Alone
    <2>7. ASSUME NEW r \in DOMAIN less
          PROVE  /\ less[r] \subseteq InAll(r) \cup DoomedIn(c, r)
                 /\ s = r => less[r] \subseteq InAll(r)
                 /\ s # r => lock'[r] = less[r]
      <3>1. CASE r = s
        BY <1>3, <2>2, <3>1
      <3>2. CASE r # s
        <4>1. r \in DOMAIN held[c] /\ less[r] = held[c][r] /\ r \in Scopes
          BY <1>5, <2>2, <2>7, <3>2
        <4>2. QED
          BY <1>5, <2>4, <3>2, <4>1 DEF Alone
      <3>3. QED
        BY <3>1, <3>2
    <2>8. QED
      BY <1>1, <1>4, <2>3, <2>5, <2>6, <2>7, SeenFacts DEF Alone
  <1>8. QED
    BY <1>6, <1>7

LEMMA AloneAtWrite ==
    ASSUME IInv, Alone, NEW c \in Cleaners, NEW s \in Scopes, WriteLock(c, s)
    PROVE  Alone'
  <1> DEFINE left == [r \in DOMAIN held[c] \ {s} |-> held[c][r]]
  <1>1. /\ pc[c] = s /\ lock' = [lock EXCEPT ![s] = held[c][s]] /\ held' = [held EXCEPT ![c] = left]
        /\ pc' = [pc EXCEPT ![c] = "delete"] /\ UNCHANGED <<disk, doomed>>
    BY DEF WriteLock
  <1>2. DOMAIN left = DOMAIN held[c] \ {s} /\ \A r \in DOMAIN left : left[r] = held[c][r]
    OBVIOUS
  <1> HIDE DEF left
  <1>3. pc[c] # "idle" /\ s \in DOMAIN held[c] /\ DOMAIN held[c] \subseteq Scopes
    BY <1>1, PlaceFacts DEF IInv, CleanersSound, CleanerSound
  <1>4. held'[c] = left /\ pc'[c] = "delete" /\ \A d \in Cleaners : d # c => DOMAIN held'[d] = {} /\ DOMAIN held[d] = {} /\ pc'[d] = pc[d]
    BY <1>1, <1>3, OnlyOne DEF IInv, Typed
  <1>5. lock'[s] = held[c][s] /\ \A r \in Scopes : r # s => lock'[r] = lock[r]
    BY <1>1 DEF IInv, Typed
  <1>6. \A d \in Cleaners : \A r : DoomedIn(d, r)' = DoomedIn(d, r)
    BY <1>1 DEF DoomedIn
  <1>7. Running' = Running
    BY <1>3, <1>4 DEF Running
  <1>8. held[c][s] \subseteq InAll(s)
    BY <1>1, <1>3 DEF Alone
  <1>9. \A r \in Scopes : (\A d \in Cleaners : r \notin DOMAIN held'[d]) => lock'[r] \subseteq InAll(r)
    <2>1. SUFFICES ASSUME NEW r \in Scopes, r # s, \A d \in Cleaners : r \notin DOMAIN held'[d]
                   PROVE  lock'[r] \subseteq InAll(r)
      BY <1>5, <1>8
    <2>2. \A d \in Cleaners : r \notin DOMAIN held[d]
      BY <1>2, <1>4, <2>1
    <2>3. QED
      BY <1>5, <2>1, <2>2 DEF Alone
  <1>10. ASSUME NEW r \in DOMAIN left
         PROVE  /\ left[r] \subseteq InAll(r) \cup DoomedIn(c, r)
                /\ "delete" # r /\ lock'[r] = left[r]
    <2>1. r \in DOMAIN held[c] /\ r # s /\ left[r] = held[c][r] /\ r \in Scopes
      BY <1>2, <1>3, <1>10
    <2>2. QED
      BY <1>1, <1>5, <2>1, PlaceFacts DEF Alone
  <1>11. QED
    BY <1>1, <1>4, <1>6, <1>7, <1>9, <1>10, SeenFacts DEF Alone

LEMMA AloneAtFinish ==
    ASSUME IInv, Alone, NEW c \in Cleaners, Finish(c)
    PROVE  Alone'
  <1>1. UNCHANGED <<disk, lock, held>> /\ pc[c] = "delete" /\ DOMAIN held[c] = {}
    BY DEF Finish
  <1>2. \A d \in Cleaners : DOMAIN held[d] = {}
    BY <1>1, OnlyOne
  <1>3. Running' \subseteq Running
    BY DEF Finish, Running, IInv, Typed
  <1>4. QED
    BY <1>1, <1>2, <1>3, SeenFacts DEF Alone

LEMMA AloneAtAdd ==
    ASSUME IInv, Alone, NEW p \in Places, NEW n \in Names, CliAdds(p, n), ~raced'
    PROVE  Alone'
  <1> DEFINE s == ScopeOf(p)
  <1>1. UNCHANGED <<pc, held>> /\ lock' = [lock EXCEPT ![s] = lock[s] \cup {n}] /\ Running = {}
    BY DEF CliAdds, procVars
  <1>2. s \in Scopes
    BY PlaceFacts
  <1>3. \A r : InAll(r) \subseteq InAll(r)' /\ (r = s => n \in InAll(r)')
    BY SeenAtAdd
  <1> HIDE DEF s
  <1>4. lock'[s] = lock[s] \cup {n} /\ \A r \in Scopes : r # s => lock'[r] = lock[r]
    BY <1>1, <1>2 DEF IInv, Typed
  <1>5. \A c \in Cleaners : DOMAIN held[c] = {}
    BY <1>1 DEF Running, IInv, CleanersSound, CleanerSound
  <1>6. \A r \in Scopes : lock'[r] \subseteq InAll(r)'
    BY <1>3, <1>4, <1>5 DEF Alone
  <1>7. Running' = {}
    BY <1>1 DEF Running
  <1>8. QED
    BY <1>1, <1>5, <1>6, <1>7 DEF Alone

LEMMA NoneStaleStep == IInv /\ NoneStale /\ [Next]_vars => NoneStale'
  <1> SUFFICES ASSUME IInv, NoneStale, [Next]_vars, ~raced', ~crossed', ~(kills' > 0)
               PROVE  Alone'
    BY DEF NoneStale
  <1>1. kills \in Nat /\ crossed \in BOOLEAN /\ raced \in BOOLEAN
    BY DEF IInv, Typed
  <1>2. CASE UNCHANGED vars
    <2>1. Alone
      BY <1>2 DEF vars, histVars, NoneStale
    <2>2. QED
      BY <1>2, <2>1, SeenFacts DEF Alone, vars, procVars, Running, DoomedIn
  <1>3. ASSUME NEW c \in Cleaners, NEW codes, NEW names \in SUBSET Names, RemoveRetired(c, codes, names)
        PROVE  Alone'
    <2>1. PICK paths \in SUBSET Paths : Begin(c, paths)
      BY <1>3, RetiredPaths
    <2>2. Alone
      BY <2>1 DEF Begin, NoneStale
    <2>3. QED
      BY <2>1, <2>2, AloneAtBegin
  <1>4. ASSUME NEW c \in Cleaners, NEW paths, RemoveCopies(c, paths)
        PROVE  Alone'
    <2>1. Begin(c, paths)
      BY <1>4, CopyPaths
    <2>2. Alone
      BY <2>1 DEF Begin, NoneStale
    <2>3. QED
      BY <2>1, <2>2, AloneAtBegin
  <1>5. ASSUME NEW c \in Cleaners, ReadLocks(c) \/ Finish(c)
        PROVE  Alone'
    <2>1. Alone
      BY <1>5 DEF ReadLocks, Finish, histVars, NoneStale
    <2>2. QED
      BY <1>5, <2>1, AloneAtRead, AloneAtFinish
  <1>6. ASSUME NEW c \in Cleaners, NEW t \in targets[c], Delete(c, t)
        PROVE  Alone'
    <2>1. Alone
      BY <1>6 DEF Delete, histVars, NoneStale
    <2>2. QED
      BY <1>6, <2>1, AloneAtDelete
  <1>7. ASSUME NEW c \in Cleaners, NEW s \in Scopes, OpenLock(c, s) \/ WriteLock(c, s)
        PROVE  Alone'
    <2>1. Alone
      BY <1>7 DEF OpenLock, WriteLock, histVars, NoneStale
    <2>2. QED
      BY <1>7, <2>1, AloneAtOpen, AloneAtWrite
  <1>8. ASSUME NEW c \in Cleaners, Kill(c)
        PROVE  FALSE
    BY <1>1, <1>8 DEF Kill
  <1>9. ASSUME NEW p \in Places, NEW n \in Names, CliAdds(p, n)
        PROVE  Alone'
    <2>1. Alone
      BY <1>9 DEF CliAdds, NoneStale
    <2>2. QED
      BY <1>9, <2>1, AloneAtAdd
  <1>10. QED
    BY <1>2, <1>3, <1>4, <1>5, <1>6, <1>7, <1>8, <1>9 DEF Next

LEMMA LocksInit == Init => LocksHold /\ NoneStale
  <1> SUFFICES ASSUME Init PROVE LocksHold /\ NoneStale
    OBVIOUS
  <1>1. \A s \in Scopes : lock[s] = InAll(s) /\ lock[s] \in SUBSET Names
    BY DEF Init, InAll
  <1>2. /\ \A c \in Cleaners : pc[c] = "idle" /\ DOMAIN held[c] = {}
    BY DEF Init
  <1>3. LocksHold
    BY <1>1, <1>2, SeenFacts, PlaceFacts DEF LocksHold
  <1>4. Alone
    BY <1>1, <1>2 DEF Alone, Running
  <1>5. QED
    BY <1>3, <1>4 DEF NoneStale

\* A lock that is not cut short lists every name with a copy left where a
\* cleanup looks, however many cleanups overlap or are killed, and between
\* cleanups that did neither no name without a copy (remove_skill_paths).
THEOREM LocksStayInStep == Spec => []LocksFollowDisk
  <1>1. IInv /\ LocksHold /\ NoneStale => LocksFollowDisk
    <2> SUFFICES ASSUME IInv, LocksHold, NoneStale, NEW s \in Scopes, ~raced, \A c \in Running : s \notin DOMAIN held[c]
                 PROVE  \/ lock[s] = NoLock /\ kills > 0
                        \/ Seen(s) \subseteq lock[s] /\ (crossed \/ kills > 0 \/ lock[s] \subseteq InAll(s))
      BY DEF LocksFollowDisk
    <2>1. \A c \in Cleaners : s \notin DOMAIN held[c] /\ pc[c] # s
      <3>1. \A c \in Cleaners : c \notin Running => DOMAIN held[c] = {}
        BY DEF Running, IInv, CleanersSound, CleanerSound
      <3>2. \A c \in Cleaners : s \notin DOMAIN held[c]
        BY <3>1
      <3>3. QED
        BY <3>2 DEF IInv, CleanersSound, CleanerSound
    <2>2. CASE lock[s] = NoLock
      BY <2>1, <2>2 DEF LocksHold
    <2>3. CASE lock[s] # NoLock
      BY <2>1, <2>3 DEF LocksHold, NoneStale, Alone
    <2>4. QED
      BY <2>2, <2>3
  <1>2. QED
    BY <1>1, Initial, Inductive, LocksInit, LocksHoldStep, NoneStaleStep, PTL DEF Spec

-----------------------------------------------------------------------------
(* The two readers. *)

\* What the skill in use declares.
UsedFile(d, n) == FileAt(Across(d)[n], n)

LEMMA FirstOfFacts ==
    ASSUME NEW S, S \subseteq Names
    PROVE  IF S = {} THEN FirstOf(S) = NoName ELSE FirstOf(S) \in S
  <1> DEFINE I == {i \in 1..Len(Skills) : Skills[i] \in S}
  <1>1. FirstOf(S) = LET i == IF I # {} THEN Min(I) ELSE 0 IN IF i = 0 THEN NoName ELSE Skills[i]
    BY DEF FirstOf, SelectInSeq
  <1>2. CASE S = {}
    <2>1. I = {}
      BY <1>2
    <2>2. QED
      BY <1>1, <1>2, <2>1
  <1>3. CASE S # {}
    <2>1. I # {} /\ I \subseteq Nat
      BY <1>3, SequenceFacts
    <2>2. Min(I) \in I
      <3> HIDE DEF I
      <3>1. QED
        BY <2>1, MinFacts
    <2>3. Min(I) # 0 /\ Skills[Min(I)] \in S
      BY <2>2
    <2> HIDE DEF I
    <2>4. QED
      BY <1>1, <1>3, <2>1, <2>3
  <1>4. QED
    BY <1>2, <1>3

LEMMA FolderTypes ==
    ASSUME NEW d \in Disks, NEW n \in Names
    PROVE  /\ Across(d)[n] = Folder(d, n)
           /\ Folder(d, n) \in Places \cup {NoPlace}
           /\ RootOf(d, n) \in Nat
  <1>1. \A p \in Places : DirOf(d, p, n) \in Places \cup {NoPlace}
    BY DEF Disks, DirOf
  <1>2. RootOf(d, n) = 0 \/ RootOf(d, n) \in DOMAIN Roots
    BY RootFacts
  <1>3. Folder(d, n) \in Places \cup {NoPlace}
    BY <1>1, <1>2, SequenceFacts DEF Folder
  <1>4. RootOf(d, n) \in Nat
    BY <1>2, SequenceFacts
  <1>5. QED
    BY <1>3, <1>4 DEF Across

LEMMA FileFacts ==
    ASSUME NEW d \in Disks, NEW n \in Names
    PROVE  LET f == UsedFile(d, n) IN
           /\ f.code \in DOMAIN Fold \cup {NoName}
           /\ f.knowledge \in Seq(Range(f.knowledge))
           /\ Good(f) <=> Parses(f)
           /\ f.file = "none" => ~Good(f)
           /\ Folder(d, n) = NoPlace => f.file = "none" /\ f.custom = "none"
  <1> DEFINE f == UsedFile(d, n)
             p == Folder(d, n)
  <1>1. f = FileAt(p, n) /\ p \in Places \cup {NoPlace}
    BY FolderTypes DEF UsedFile
  <1>2. CASE p = NoPlace
    <2>1. f = NoFile
      BY <1>1, <1>2 DEF FileAt
    <2>2. NoFile.code = NoName /\ NoFile.knowledge = <<>> /\ NoFile.file = "none" /\ NoFile.custom = "none"
      BY DEF NoFile
    <2>3. ~Parses(f)
      BY <2>1, <2>2 DEF Parses
    <2>4. ~Good(f)
      BY <2>3 DEF Good, GoodFiles
    <2>5. <<>> \in Seq(Range(<<>>))
      BY EmptySeq
    <2>6. QED
      BY <1>2, <2>1, <2>2, <2>3, <2>4, <2>5
  <1>3. CASE p # NoPlace
    <2>1. f = Content[<<p, n>>] /\ p \in Places
      BY <1>1, <1>3 DEF FileAt
    <2>2. f \in {Content[pn] : pn \in Places \X Names}
      BY <2>1
    <2>3. Good(f) <=> Parses(f)
      BY <2>2 DEF Good, GoodFiles
    <2>4. f.file = "none" => ~Parses(f)
      BY DEF Parses
    <2>5. f.code \in DOMAIN Fold \cup {NoName} /\ f.knowledge \in Seq(Range(f.knowledge))
      BY <2>1, InstallationAssumption DEF InstallationAssumption
    <2>6. QED
      BY <1>3, <2>3, <2>4, <2>5
  <1>4. QED
    BY <1>2, <1>3

\* While setup can use every file it finds, the two agree on what a record is.
LEMMA RecordFacts ==
    ASSUME NEW d \in Disks, NEW n \in Names, Unusable(Across(d)) = {}
    PROVE  LET f == UsedFile(d, n) IN
           /\ Usable(f) <=> Good(f)
           /\ UsableRecord(f) <=> IsRecord(Across(d), n)
           /\ Good(f) /\ f.code = NoName /\ f.skill => "bmod" \notin f.wrong
  <1> DEFINE f == UsedFile(d, n)
  <1>1. f.file # "none" => Good(f)
    BY DEF Unusable, UsedFile
  <1>2. Good(f) => Parses(f)
    BY FileFacts
  <1>3. Usable(f) <=> Good(f)
    BY <1>1, <1>2 DEF Usable, Parses
  <1>4. Good(f) /\ f.code # NoName => "code" \notin f.wrong
    BY <1>2 DEF Parses, TableParses
  <1>5. IsRecord(Across(d), n) <=> Good(f) /\ f.code # NoName
    BY DEF IsRecord, UsedFile
  <1>6. UsableRecord(f) <=> Usable(f) /\ f.code # NoName /\ "code" \notin f.wrong
    BY DEF UsableRecord
  <1>7. Good(f) /\ f.code = NoName /\ f.skill => "bmod" \notin f.wrong
    BY <1>2 DEF Parses, SkillParses
  <1> HIDE DEF f
  <1>8. UsableRecord(f) <=> IsRecord(Across(d), n)
    BY <1>3, <1>4, <1>5, <1>6
  <1>9. QED
    BY <1>3, <1>7, <1>8 DEF f

LEMMA SameAbsent ==
    ASSUME NEW d \in Disks, Unusable(Across(d)) = {}
    PROVE  MissingRecords(Across(d)) = ScanAbsent(d)
  <1> SUFFICES ASSUME NEW n \in Names
               PROVE  n \in MissingRecords(Across(d)) <=> n \in ScanAbsent(d)
    BY DEF MissingRecords, ScanAbsent, Files
  <1> DEFINE f == UsedFile(d, n)
             b == f.bmod
  <1>1. (b \in Names /\ UsableRecord(UsedFile(d, b))) <=> IsRecord(Across(d), b)
    BY RecordFacts DEF IsRecord
  <1>2. Usable(f) <=> Good(f)
    BY RecordFacts
  <1>3. Good(f) /\ f.code = NoName /\ f.skill => "bmod" \notin f.wrong
    BY RecordFacts
  <1>4. n \in MissingRecords(Across(d)) <=> Good(f) /\ f.skill /\ f.code = NoName /\ ~IsRecord(Across(d), b)
    BY DEF MissingRecords, Files, UsedFile
  <1>5. n \in ScanAbsent(d) <=> /\ Usable(f) /\ f.skill /\ f.code = NoName /\ "bmod" \notin f.wrong
                                /\ ~(b \in Names /\ UsableRecord(UsedFile(d, b)))
    BY DEF ScanAbsent, UsedFile
  <1> HIDE DEF f, b
  <1>6. QED
    BY <1>1, <1>2, <1>3, <1>4, <1>5

\* The scan finds the record setup selects.
LEMMA SameRecord ==
    ASSUME NEW d \in Disks, Unusable(Across(d)) = {}, ~CodesClash(Across(d)), NEW low,
           \A n, m \in Names : /\ IsRecord(Across(d), n) /\ IsRecord(Across(d), m)
                               /\ UsedFile(d, n).code = UsedFile(d, m).code
                               => RootOf(d, n) = RootOf(d, m)
    PROVE  {ScanRecord(d, low)} \ {NoName}
             = {Record(Across(d), c) : c \in {m \in Modules(Across(d)) : Fold[m] = low}}
  <1> DEFINE at == Across(d)
             records == {n \in Names : UsableRecord(UsedFile(d, n)) /\ Fold[UsedFile(d, n).code] = low}
             nearest == {n \in records : \A m \in records : RootOf(d, n) <= RootOf(d, m)}
             mine == {Record(at, c) : c \in {m \in Modules(at) : Fold[m] = low}}
  <1>1. ScanRecord(d, low) = FirstOf(nearest)
    BY DEF ScanRecord, UsedFile
  <1>2. records = {n \in Names : IsRecord(at, n) /\ Fold[UsedFile(d, n).code] = low}
    BY RecordFacts
  <1>3. \A c : Declaring(at, c) = {n \in Names : IsRecord(at, n) /\ UsedFile(d, n).code = c}
    BY DEF Declaring, UsedFile
  <1>4. \A n \in Names : IsRecord(at, n) => UsedFile(d, n).code \in DOMAIN Fold
    <2>1. \A n \in Names : UsedFile(d, n).code \in DOMAIN Fold \cup {NoName}
      BY FileFacts
    <2>2. QED
      BY <2>1 DEF IsRecord, UsedFile
  <1>5. \A n, m \in records : UsedFile(d, n).code = UsedFile(d, m).code
    BY <1>2 DEF CodesClash, UsedFile
  <1>6. nearest = records
    <2>1. \A n, m \in records : RootOf(d, n) <= RootOf(d, m)
      BY <1>2, <1>5, FolderTypes
    <2>2. QED
      BY <2>1
  <1>7. \A c : IF Declaring(at, c) = {} THEN Record(at, c) = NoName ELSE Record(at, c) \in Declaring(at, c)
    BY <1>3, FirstOfFacts DEF Record
  <1>8. records \subseteq Names
    OBVIOUS
  <1>9. \A c \in Modules(at) : Fold[c] = low => \E n \in records : UsedFile(d, n).code = c
    <2>1. SUFFICES ASSUME NEW c \in Modules(at), Fold[c] = low
                   PROVE  \E n \in records : UsedFile(d, n).code = c
      OBVIOUS
    <2>2. Record(at, c) \in Declaring(at, c)
      BY <1>7 DEF Modules
    <2>3. QED
      BY <1>2, <1>3, <2>1, <2>2
  <1>10. NoName \notin Names
    BY PlaceFacts
  <1> HIDE DEF records, nearest, at
  <1>11. CASE records = {}
    <2>1. ScanRecord(d, low) = NoName
      BY <1>1, <1>6, <1>8, <1>11, FirstOfFacts
    <2>2. mine = {}
      BY <1>9, <1>11
    <2>3. QED
      BY <2>1, <2>2 DEF at
  <1>12. CASE records # {}
    <2>1. PICK n \in records : TRUE
      BY <1>12
    <2> DEFINE c == UsedFile(d, n).code
    <2>2. records = Declaring(at, c)
      BY <1>2, <1>3, <1>5, <2>1
    <2>3. ScanRecord(d, low) = Record(at, c) /\ Record(at, c) \in records
      BY <1>1, <1>6, <1>7, <2>1, <2>2 DEF Record
    <2>4. c \in Modules(at) /\ Fold[c] = low
      BY <1>2, <1>4, <1>8, <1>10, <2>1, <2>3 DEF Modules
    <2>5. \A m \in Modules(at) : Fold[m] = low => m = c
      BY <1>5, <1>9, <2>1
    <2> HIDE DEF c
    <2>6. mine = {Record(at, c)}
      BY <2>4, <2>5
    <2>7. Record(at, c) # NoName
      BY <1>8, <1>10, <2>3
    <2>8. QED
      BY <2>3, <2>6, <2>7 DEF at
  <1>13. QED
    BY <1>11, <1>12

\* The list of customizable skills takes the copy in use when it can.
LEMMA SameCopy ==
    ASSUME NEW d \in Disks, NEW n \in Names, Customizable(Folder(d, n), n)
    PROVE  ListedFolder(d, n) = Folder(d, n)
  <1> DEFINE I == {i \in 1..Len(Roots) : Customizable(DirOf(d, Roots[i], n), n)}
             r == RootOf(d, n)
  <1>1. ListedFolder(d, n) = LET i == IF I # {} THEN Min(I) ELSE 0 IN IF i = 0 THEN NoPlace ELSE DirOf(d, Roots[i], n)
    BY DEF ListedFolder, SelectInSeq
  <1>2. ~Customizable(NoPlace, n)
    BY DEF Customizable, FileAt, NoFile
  <1>3. Folder(d, n) = IF r = 0 THEN NoPlace ELSE DirOf(d, Roots[r], n)
    BY DEF Folder
  <1>4. r # 0 /\ Folder(d, n) = DirOf(d, Roots[r], n)
    BY <1>2, <1>3
  <1>5. r \in DOMAIN Roots /\ \A i \in DOMAIN Roots : DirOf(d, Roots[i], n) # NoPlace => r <= i
    BY <1>4, RootFacts
  <1>6. r \in I /\ \A i \in I : r <= i
    BY <1>2, <1>4, <1>5, SequenceFacts
  <1>7. I \subseteq Nat /\ r \in Nat
    BY <1>6
  <1> HIDE DEF I, r
  <1>8. Min(I) \in I /\ Min(I) <= r /\ r <= Min(I)
    BY <1>6, <1>7, MinFacts
  <1>9. Min(I) = r /\ I # {}
    <2> DEFINE k == Min(I)
    <2> HIDE DEF k
    <2>1. k \in I /\ k <= r /\ r <= k
      BY <1>8 DEF k
    <2>2. k \in Nat
      BY <1>7, <2>1
    <2>3. k = r /\ I # {}
      BY <1>7, <2>1, <2>2
    <2>4. QED
      BY <2>3 DEF k
  <1>10. QED
    BY <1>1, <1>4, <1>9

\* Setup, the knowledge report and the list of customizable skills agree on
\* any installation that setup can use (select_module_records, knowledge.scan,
\* absent_records and list_customizable_skills.scan_skills).
THEOREM ReadersAgree == Spec => []ScannersAgree
  <1>1. IInv => ScannersAgree
    <2> SUFFICES ASSUME IInv PROVE ScannersAgree
      OBVIOUS
    <2>1. disk \in Disks
      BY DEF IInv, Typed
    <2> DEFINE at == Across(disk)
               records == {n \in Names : IsRecord(at, n)}
    <2>2. ASSUME NEW n \in Names, Customizable(at[n], n)
          PROVE  ListedFolder(disk, n) = at[n] /\ ListedSurfaces(disk, n) = FileAt(at[n], n).surfaces
      <3>1. at[n] = Folder(disk, n)
        BY <2>1, FolderTypes
      <3> HIDE DEF at
      <3>2. ListedFolder(disk, n) = at[n]
        BY <2>1, <2>2, <3>1, SameCopy
      <3>3. QED
        BY <3>2 DEF ListedSurfaces
    <2>3. ASSUME Unusable(at) = {}, ~CodesClash(at),
                 ~\E n, m \in records : /\ FileAt(at[n], n).code = FileAt(at[m], m).code
                                        /\ RootOf(disk, n) # RootOf(disk, m)
          PROVE  /\ \A low \in Range(Fold) :
                      {ScanRecord(disk, low)} \ {NoName} = {Record(at, c) : c \in {m \in Modules(at) : Fold[m] = low}}
                 /\ MissingRecords(at) = ScanAbsent(disk)
      <3>1. \A n, m \in Names : /\ IsRecord(at, n) /\ IsRecord(at, m)
                                /\ UsedFile(disk, n).code = UsedFile(disk, m).code
                                => RootOf(disk, n) = RootOf(disk, m)
        BY <2>3 DEF UsedFile
      <3>2. \A low : {ScanRecord(disk, low)} \ {NoName} = {Record(at, c) : c \in {m \in Modules(at) : Fold[m] = low}}
        BY <2>1, <2>3, <3>1, SameRecord
      <3>3. QED
        BY <2>1, <2>3, <3>2, SameAbsent
    <2>4. \A n \in Names : Customizable(at[n], n) =>
            ListedFolder(disk, n) = at[n] /\ ListedSurfaces(disk, n) = FileAt(at[n], n).surfaces
      BY <2>2
    <2>5. \/ Unusable(at) # {} \/ CodesClash(at)
          \/ \E n, m \in records : /\ FileAt(at[n], n).code = FileAt(at[m], m).code
                                   /\ RootOf(disk, n) # RootOf(disk, m)
          \/ /\ \A low \in Range(Fold) :
                  {ScanRecord(disk, low)} \ {NoName} = {Record(at, c) : c \in {m \in Modules(at) : Fold[m] = low}}
             /\ MissingRecords(at) = ScanAbsent(disk)
      <3> HIDE DEF at, records
      <3>1. QED
        BY <2>3
    <2>6. QED
      BY <2>4, <2>5 DEF ScannersAgree
  <1>2. QED
    BY <1>1, Invariant, PTL

-----------------------------------------------------------------------------
(* What a record offers. *)

\* The sum over the first entries of a record.
NoSum == [documents |-> {}, problems |-> {}, unread |-> {}]
SumAt(f, file, n, i) == IF i = 0 THEN NoSum ELSE RecordDocument(f[i - 1], file, n, EntriesOf(file)[i])
IsSum(f, file, n, k) == f = [i \in 0..k |-> SumAt(f, file, n, i)]

LEMMA SumIsDefined ==
    ASSUME NEW file, NEW n, NEW m \in Nat
    PROVE  \E f : IsSum(f, file, n, m)
  <1> DEFINE T == {k \in Nat : \E f : IsSum(f, file, n, k)}
  <1>1. 0 \in T
    <2>1. IsSum([i \in 0..0 |-> NoSum], file, n, 0)
      BY DEF IsSum, SumAt
    <2>2. QED
      BY <2>1
  <1>2. ASSUME NEW k \in Nat, k \in T
        PROVE  k + 1 \in T
    <2>1. PICK f : IsSum(f, file, n, k)
      BY <1>2
    <2> DEFINE g == [i \in 0..(k + 1) |-> SumAt(f, file, n, i)]
    <2>2. \A i \in 0..k : g[i] = f[i]
      BY <2>1 DEF IsSum
    <2>3. \A i \in 0..(k + 1) : SumAt(f, file, n, i) = SumAt(g, file, n, i)
      <3> HIDE DEF g
      <3>1. \A i \in 0..(k + 1) : i # 0 => i - 1 \in 0..k
        OBVIOUS
      <3>2. QED
        BY <2>2, <3>1 DEF SumAt
    <2>4. IsSum(g, file, n, k + 1)
      <3>1. [i \in 0..(k + 1) |-> SumAt(f, file, n, i)] = [i \in 0..(k + 1) |-> SumAt(g, file, n, i)]
        <4> HIDE DEF g
        <4>1. QED
          BY <2>3
      <3>2. QED
        BY <3>1 DEF IsSum
    <2>5. QED
      BY <2>4
  <1>3. Nat \subseteq T
    <2> HIDE DEF T
    <2>1. QED
      BY <1>1, <1>2, Induction
  <1>4. QED
    BY <1>3

\* What is known of the sum over the first k entries.
WellFormed(e) == e.path # NoName /\ e.form # "wrong"
Offered(sum, file, n, k) ==
    LET E == EntriesOf(file)
    IN /\ \A d \in sum.documents : \E i \in 1..k :
            WellFormed(E[i]) /\ ReadsAs(file, E[i].path) /\ d = Document(file, n, E[i])
       /\ \A d, e \in sum.documents : d.path = e.path => d = e
       /\ \A i \in 1..k : WellFormed(E[i]) /\ ReadsAs(file, E[i].path) =>
            \E d \in sum.documents : d.path = E[i].path
       /\ \A e \in sum.problems : \E i \in 1..k :
            e = E[i] /\ (~WellFormed(e) \/ \E j \in 1..(i - 1) : E[j].path = e.path)
       /\ \A i \in 1..k : \/ E[i] \in sum.problems \/ E[i].path \in sum.unread
                          \/ Document(file, n, E[i]) \in sum.documents
       /\ k >= 1 /\ WellFormed(E[1]) /\ ReadsAs(file, E[1].path) => Document(file, n, E[1]) \in sum.documents
IsOffer(sum, file, n, k) ==
    /\ \E D, P, U : sum = [documents |-> D, problems |-> P, unread |-> U]
    /\ Offered(sum, file, n, k)

\* One entry more.
LEMMA OfferStep ==
    ASSUME NEW file, NEW n, NEW k \in Nat, NEW sum, IsOffer(sum, file, n, k)
    PROVE  IsOffer(RecordDocument(sum, file, n, EntriesOf(file)[k + 1]), file, n, k + 1)
  <1> DEFINE E == EntriesOf(file)
             e == E[k + 1]
             next == RecordDocument(sum, file, n, e)
  <1>1. PICK D, P, U : sum = [documents |-> D, problems |-> P, unread |-> U]
    BY DEF IsOffer
  <1>2. sum.documents = D /\ sum.problems = P /\ sum.unread = U
    BY <1>1
  <1>3. /\ \A d \in D : \E i \in 1..k :
             WellFormed(E[i]) /\ ReadsAs(file, E[i].path) /\ d = Document(file, n, E[i])
        /\ \A d, b \in D : d.path = b.path => d = b
        /\ \A i \in 1..k : WellFormed(E[i]) /\ ReadsAs(file, E[i].path) => \E d \in D : d.path = E[i].path
        /\ \A b \in P : \E i \in 1..k : b = E[i] /\ (~WellFormed(b) \/ \E j \in 1..(i - 1) : E[j].path = b.path)
        /\ \A i \in 1..k : E[i] \in P \/ E[i].path \in U \/ Document(file, n, E[i]) \in D
        /\ k >= 1 /\ WellFormed(E[1]) /\ ReadsAs(file, E[1].path) => Document(file, n, E[1]) \in D
    BY <1>2 DEF IsOffer, Offered
  <1>4. /\ \A i \in 1..k : i \in 1..(k + 1)
        /\ \A i \in 1..(k + 1) : i \in 1..k \/ (i = k + 1 /\ E[i] = e)
        /\ k + 1 \in 1..(k + 1) /\ (k + 1) - 1 = k
        /\ k >= 1 \/ k + 1 = 1
        /\ k >= 1 => 1 \in 1..k
    OBVIOUS
  <1>5. \A b : Document(file, n, b).path = b.path
    BY DEF Document
  <1>6. \A d \in D : \E i \in 1..k : E[i].path = d.path
    BY <1>3, <1>5
  <1>7. Refused(sum, e) <=> ~WellFormed(e) \/ \E d \in D : d.path = e.path
    BY <1>2 DEF Refused, WellFormed
  <1> HIDE DEF e, E
  <1>8. CASE Refused(sum, e)
    <2>1. next = [documents |-> D, problems |-> P \cup {e}, unread |-> U]
      BY <1>1, <1>8 DEF RecordDocument
    <2>2. next.documents = D /\ next.problems = P \cup {e} /\ next.unread = U
      BY <2>1
    <2> HIDE DEF next
    <2>3. \A d \in D : \E i \in 1..(k + 1) :
             WellFormed(E[i]) /\ ReadsAs(file, E[i].path) /\ d = Document(file, n, E[i])
      BY <1>3, <1>4
    <2>4. \A i \in 1..(k + 1) : WellFormed(E[i]) /\ ReadsAs(file, E[i].path) => \E d \in D : d.path = E[i].path
      BY <1>3, <1>4, <1>7, <1>8
    <2>5. \A b \in P \cup {e} : \E i \in 1..(k + 1) :
             b = E[i] /\ (~WellFormed(b) \/ \E j \in 1..(i - 1) : E[j].path = b.path)
      <3>1. ASSUME NEW b \in P
            PROVE  \E i \in 1..(k + 1) : b = E[i] /\ (~WellFormed(b) \/ \E j \in 1..(i - 1) : E[j].path = b.path)
        BY <1>3, <1>4, <3>1
      <3>2. ~WellFormed(e) \/ \E j \in 1..((k + 1) - 1) : E[j].path = e.path
        BY <1>4, <1>6, <1>7, <1>8
      <3>3. e = E[k + 1]
        BY DEF e
      <3>4. QED
        BY <1>4, <3>1, <3>2, <3>3
    <2>6. \A i \in 1..(k + 1) : E[i] \in P \cup {e} \/ E[i].path \in U \/ Document(file, n, E[i]) \in D
      BY <1>3, <1>4
    <2>7. k + 1 >= 1 /\ WellFormed(E[1]) /\ ReadsAs(file, E[1].path) => Document(file, n, E[1]) \in D
      <3>1. CASE k >= 1
        BY <1>3, <3>1
      <3>2. CASE k + 1 = 1
        <4>1. D = {} /\ E[1] = e
          <5>1. 1..k = {}
            BY <3>2
          <5>2. QED
            BY <1>6, <3>2, <5>1 DEF e
        <4>2. QED
          BY <1>7, <1>8, <4>1
      <3>3. QED
        BY <1>4, <3>1, <3>2
    <2>8. Offered(next, file, n, k + 1)
      BY <1>3, <2>2, <2>3, <2>4, <2>5, <2>6, <2>7 DEF Offered, E
    <2>9. QED
      BY <2>1, <2>8 DEF IsOffer, next, e, E
  <1>9. CASE ~Refused(sum, e) /\ ~ReadsAs(file, e.path)
    <2>1. next = [documents |-> D, problems |-> P, unread |-> U \cup {e.path}]
      BY <1>1, <1>9 DEF RecordDocument
    <2>2. next.documents = D /\ next.problems = P /\ next.unread = U \cup {e.path}
      BY <2>1
    <2> HIDE DEF next
    <2>3. \A d \in D : \E i \in 1..(k + 1) :
             WellFormed(E[i]) /\ ReadsAs(file, E[i].path) /\ d = Document(file, n, E[i])
      BY <1>3, <1>4
    <2>4. \A i \in 1..(k + 1) : WellFormed(E[i]) /\ ReadsAs(file, E[i].path) => \E d \in D : d.path = E[i].path
      BY <1>3, <1>4, <1>9
    <2>5. \A b \in P : \E i \in 1..(k + 1) :
             b = E[i] /\ (~WellFormed(b) \/ \E j \in 1..(i - 1) : E[j].path = b.path)
      BY <1>3, <1>4
    <2>6. \A i \in 1..(k + 1) : E[i] \in P \/ E[i].path \in U \cup {e.path} \/ Document(file, n, E[i]) \in D
      BY <1>3, <1>4
    <2>7. k + 1 >= 1 /\ WellFormed(E[1]) /\ ReadsAs(file, E[1].path) => Document(file, n, E[1]) \in D
      <3>1. CASE k >= 1
        BY <1>3, <3>1
      <3>2. CASE k + 1 = 1
        BY <1>9, <3>2 DEF e
      <3>3. QED
        BY <1>4, <3>1, <3>2
    <2>8. Offered(next, file, n, k + 1)
      BY <1>3, <2>2, <2>3, <2>4, <2>5, <2>6, <2>7 DEF Offered, E
    <2>9. QED
      BY <2>1, <2>8 DEF IsOffer, next, e, E
  <1>10. CASE ~Refused(sum, e) /\ ReadsAs(file, e.path)
    <2> DEFINE new == Document(file, n, e)
    <2>1. next = [documents |-> D \cup {new}, problems |-> P, unread |-> U]
      BY <1>1, <1>10 DEF RecordDocument
    <2>2. next.documents = D \cup {new} /\ next.problems = P /\ next.unread = U
      BY <2>1
    <2>3. new.path = e.path
      BY <1>5
    <2> HIDE DEF next
    <2>4. \A d \in D \cup {new} : \E i \in 1..(k + 1) :
             WellFormed(E[i]) /\ ReadsAs(file, E[i].path) /\ d = Document(file, n, E[i])
      <3>1. E[k + 1] = e
        BY DEF e
      <3>2. WellFormed(e)
        BY <1>7, <1>10
      <3>3. QED
        BY <1>3, <1>4, <1>10, <3>1, <3>2
    <2>5. \A d, b \in D \cup {new} : d.path = b.path => d = b
      <3> HIDE DEF new
      <3>1. \A d \in D : d.path # new.path
        BY <1>7, <1>10, <2>3
      <3>2. QED
        BY <1>3, <3>1
    <2>6. \A i \in 1..(k + 1) : WellFormed(E[i]) /\ ReadsAs(file, E[i].path) =>
             \E d \in D \cup {new} : d.path = E[i].path
      <3> HIDE DEF new
      <3>1. QED
        BY <1>3, <1>4, <2>3
    <2>7. \A b \in P : \E i \in 1..(k + 1) :
             b = E[i] /\ (~WellFormed(b) \/ \E j \in 1..(i - 1) : E[j].path = b.path)
      BY <1>3, <1>4
    <2>8. \A i \in 1..(k + 1) : E[i] \in P \/ E[i].path \in U \/ Document(file, n, E[i]) \in D \cup {new}
      BY <1>3, <1>4
    <2>9. k + 1 >= 1 /\ WellFormed(E[1]) /\ ReadsAs(file, E[1].path) => Document(file, n, E[1]) \in D \cup {new}
      <3>1. CASE k >= 1
        BY <1>3, <3>1
      <3>2. CASE k + 1 = 1
        BY <3>2 DEF e
      <3>3. QED
        BY <1>4, <3>1, <3>2
    <2> HIDE DEF new
    <2>10. Offered(next, file, n, k + 1)
      BY <2>2, <2>4, <2>5, <2>6, <2>7, <2>8, <2>9 DEF Offered, E
    <2>11. QED
      BY <2>1, <2>10 DEF IsOffer, next, e, E
  <1>11. QED
    BY <1>8, <1>9, <1>10

LEMMA OffersHold ==
    ASSUME NEW file, NEW n, NEW m \in Nat, NEW f, IsSum(f, file, n, m)
    PROVE  IsOffer(f[m], file, n, m)
  <1> DEFINE T == {k \in Nat : k <= m => IsOffer(f[k], file, n, k)}
  <1>1. \A k \in 0..m : f[k] = SumAt(f, file, n, k)
    BY DEF IsSum
  <1>2. 0 \in T
    <2>1. f[0] = NoSum
      BY <1>1 DEF SumAt
    <2>2. IsOffer(NoSum, file, n, 0)
      <3>1. NoSum.documents = {} /\ NoSum.problems = {} /\ NoSum.unread = {}
        BY DEF NoSum
      <3>2. 1..0 = {} /\ ~(0 >= 1)
        OBVIOUS
      <3>3. \E D, P, U : NoSum = [documents |-> D, problems |-> P, unread |-> U]
        BY DEF NoSum
      <3>4. Offered(NoSum, file, n, 0)
        BY <3>1, <3>2 DEF Offered
      <3>5. QED
        BY <3>3, <3>4 DEF IsOffer
    <2>3. QED
      BY <2>1, <2>2
  <1>3. ASSUME NEW k \in Nat, k \in T, k + 1 <= m
        PROVE  IsOffer(f[k + 1], file, n, k + 1)
    <2>1. k + 1 \in 0..m /\ k + 1 # 0 /\ (k + 1) - 1 = k /\ k <= m
      BY <1>3
    <2>2. IsOffer(f[k], file, n, k)
      BY <1>3, <2>1
    <2>3. f[k + 1] = RecordDocument(f[k], file, n, EntriesOf(file)[k + 1])
      BY <1>1, <2>1 DEF SumAt
    <2>4. QED
      BY <2>2, <2>3, OfferStep
  <1>4. \A k \in Nat : k \in T => k + 1 \in T
    BY <1>3 DEF T
  <1>5. Nat \subseteq T
    <2> HIDE DEF T
    <2>1. QED
      BY <1>2, <1>4, Induction
  <1>6. QED
    BY <1>5

LEMMA DocumentsFacts ==
    ASSUME NEW file, NEW n, Len(EntriesOf(file)) \in Nat
    PROVE  IsOffer(Documents(file, n), file, n, Len(EntriesOf(file)))
  <1> DEFINE m == Len(EntriesOf(file))
             f == CHOOSE g : IsSum(g, file, n, m)
  <1>1. \E g : IsSum(g, file, n, m)
    BY SumIsDefined
  <1>2. Documents(file, n) = f[m]
    BY DEF Documents, IsSum, SumAt, NoSum
  <1>3. IsSum(f, file, n, m)
    BY <1>1
  <1>4. QED
    BY <1>2, <1>3, OffersHold

HelpEntry == [path |-> HelpName, skills |-> NoList, form |-> "fine"]

LEMMA EntryFacts ==
    ASSUME NEW file, file.knowledge \in Seq(Range(file.knowledge))
    PROVE  LET E == EntriesOf(file)
               K == file.knowledge
               h == HelpName \in DOMAIN file.files
           IN /\ Len(E) \in Nat /\ Len(K) \in Nat /\ DOMAIN K = 1..Len(K)
              /\ "knowledge" \in file.wrong => Len(E) = 0
              /\ "knowledge" \notin file.wrong /\ h =>
                   Len(E) = Len(K) + 1 /\ E[1] = HelpEntry /\ \A j \in 1..Len(K) : E[j + 1] = K[j]
              /\ "knowledge" \notin file.wrong /\ ~h => E = K
  <1> DEFINE K == file.knowledge
             h == HelpName \in DOMAIN file.files
             R == Range(K) \cup {HelpEntry}
  <1>1. Len(K) \in Nat /\ DOMAIN K = 1..Len(K)
    BY LenProperties
  <1>2. CASE "knowledge" \in file.wrong
    <2>1. EntriesOf(file) = <<>>
      BY <1>2 DEF EntriesOf
    <2>2. QED
      BY <1>1, <1>2, <2>1, EmptySeq
  <1>3. CASE "knowledge" \notin file.wrong /\ h
    <2>1. EntriesOf(file) = <<HelpEntry>> \o K
      BY <1>3 DEF EntriesOf, HelpEntry
    <2>2. K \in Seq(R) /\ <<HelpEntry>> \in Seq(R)
      BY <1>1
    <2> HIDE DEF R, K
    <2>3. /\ Len(<<HelpEntry>> \o K) = Len(<<HelpEntry>>) + Len(K)
          /\ \A i \in 1..(Len(<<HelpEntry>>) + Len(K)) :
               (<<HelpEntry>> \o K)[i] = IF i <= Len(<<HelpEntry>>) THEN <<HelpEntry>>[i] ELSE K[i - Len(<<HelpEntry>>)]
      BY <2>2, ConcatProperties
    <2>4. Len(<<HelpEntry>>) = 1 /\ <<HelpEntry>>[1] = HelpEntry
      OBVIOUS
    <2>5. Len(EntriesOf(file)) = Len(K) + 1
      BY <1>1, <2>1, <2>3, <2>4 DEF K
    <2>6. EntriesOf(file)[1] = HelpEntry
      BY <1>1, <2>1, <2>3, <2>4 DEF K
    <2>7. \A j \in 1..Len(K) : EntriesOf(file)[j + 1] = K[j]
      BY <1>1, <2>1, <2>3, <2>4 DEF K
    <2>8. QED
      BY <1>1, <1>3, <2>5, <2>6, <2>7 DEF K
  <1>4. CASE "knowledge" \notin file.wrong /\ ~h
    <2>1. EntriesOf(file) = <<>> \o K
      BY <1>4 DEF EntriesOf
    <2>2. <<>> \o K = K
      BY <1>1
    <2>3. QED
      BY <1>1, <1>4, <2>1, <2>2
  <1>5. QED
    BY <1>2, <1>3, <1>4

LEMMA RecordedFacts ==
    ASSUME NEW d \in Disks, NEW n \in Recorded(d)
    PROVE  n \in Names /\ UsableRecord(UsedFile(d, n))
  <1>1. PICK low : n = ScanRecord(d, low) /\ n # NoName
    BY DEF Recorded
  <1> DEFINE records == {m \in Names : UsableRecord(UsedFile(d, m)) /\ Fold[UsedFile(d, m).code] = low}
             nearest == {k \in records : \A m \in records : RootOf(d, k) <= RootOf(d, m)}
  <1>2. n = FirstOf(nearest)
    BY <1>1 DEF ScanRecord, UsedFile
  <1>3. nearest \subseteq Names /\ nearest \subseteq records
    OBVIOUS
  <1> HIDE DEF nearest
  <1>4. n \in nearest
    BY <1>1, <1>2, <1>3, FirstOfFacts
  <1>5. QED
    BY <1>3, <1>4

\* A file that reads is offered once: as one document or as a topic.
Count(D, p) == Cardinality({d \in D : d.path = p})
Tally(file, n, p) ==
    LET D == Documents(file, n).documents IN Count(D, p) + (IF p \in TopicsOf(file, D) THEN 1 ELSE 0)

LEMMA CountFacts ==
    ASSUME NEW D, NEW p, \A d, e \in D : d.path = e.path => d = e
    PROVE  Count(D, p) = IF \E d \in D : d.path = p THEN 1 ELSE 0
  <1> DEFINE S == {d \in D : d.path = p}
  <1>1. CASE \E d \in D : d.path = p
    <2>1. PICK d \in D : d.path = p
      BY <1>1
    <2>2. S = {d}
      BY <2>1
    <2>3. Cardinality(S) = 1
      BY <2>2, FS_Singleton
    <2>4. QED
      BY <1>1, <2>3 DEF Count
  <1>2. CASE ~\E d \in D : d.path = p
    <2>1. S = {}
      BY <1>2
    <2>2. Cardinality(S) = 0
      BY <2>1, FS_EmptySet
    <2>3. QED
      BY <1>2, <2>2 DEF Count
  <1>3. QED
    BY <1>1, <1>2

LEMMA OfferedOnce ==
    ASSUME NEW file, NEW n, file.knowledge \in Seq(Range(file.knowledge)), NEW p \in Topics \cup {HelpName}
    PROVE  Tally(file, n, p) = IF ReadsAs(file, p) /\ (p = HelpName => "knowledge" \notin file.wrong) THEN 1 ELSE 0
  <1> DEFINE E == EntriesOf(file)
             m == Len(E)
             D == Documents(file, n).documents
             has == \E d \in D : d.path = p
  <1>1. /\ m \in Nat /\ ("knowledge" \in file.wrong => m = 0)
        /\ "knowledge" \notin file.wrong /\ HelpName \in DOMAIN file.files => m >= 1 /\ E[1] = HelpEntry
    BY EntryFacts
  <1>2. Offered(Documents(file, n), file, n, m)
    BY <1>1, DocumentsFacts DEF IsOffer
  <1>3. /\ \A d \in D : \E i \in 1..m : WellFormed(E[i]) /\ ReadsAs(file, E[i].path) /\ d = Document(file, n, E[i])
        /\ \A d, e \in D : d.path = e.path => d = e
        /\ m >= 1 /\ WellFormed(E[1]) /\ ReadsAs(file, E[1].path) => Document(file, n, E[1]) \in D
    BY <1>2 DEF Offered
  <1>4. \A e : Document(file, n, e).path = e.path
    BY DEF Document
  <1>5. Count(D, p) = IF has THEN 1 ELSE 0
    BY <1>3, CountFacts
  <1>6. has => ReadsAs(file, p) /\ "knowledge" \notin file.wrong
    <2>1. SUFFICES ASSUME NEW d \in D, d.path = p
                   PROVE  ReadsAs(file, p) /\ "knowledge" \notin file.wrong
      OBVIOUS
    <2>2. PICK i \in 1..m : WellFormed(E[i]) /\ ReadsAs(file, E[i].path) /\ d = Document(file, n, E[i])
      BY <1>3
    <2>3. m # 0
      BY <1>1, <2>2
    <2>4. QED
      BY <1>1, <1>4, <2>1, <2>2, <2>3
  <1> HIDE DEF D, E, m
  <1>7. CASE p \in Topics
    <2>1. p # HelpName
      BY <1>7, KnowledgeAssumption DEF KnowledgeAssumption
    <2>2. p \in TopicsOf(file, D) <=> ReadsAs(file, p) /\ ~has
      BY <1>7 DEF TopicsOf
    <2>3. Tally(file, n, p) = Count(D, p) + (IF p \in TopicsOf(file, D) THEN 1 ELSE 0)
      BY DEF Tally, D
    <2>4. CASE has
      BY <1>5, <1>6, <2>1, <2>2, <2>3, <2>4
    <2>5. CASE ~has
      BY <1>5, <1>6, <2>1, <2>2, <2>3, <2>5
    <2>6. QED
      BY <2>4, <2>5
  <1>8. CASE p = HelpName
    <2>1. p \notin TopicsOf(file, D)
      BY <1>8, KnowledgeAssumption DEF KnowledgeAssumption, TopicsOf
    <2>2. Tally(file, n, p) = Count(D, p) + 0
      BY <2>1 DEF Tally, D
    <2>3. ReadsAs(file, p) /\ "knowledge" \notin file.wrong => has
      <3>1. SUFFICES ASSUME ReadsAs(file, p), "knowledge" \notin file.wrong
                     PROVE  has
        OBVIOUS
      <3>2. m >= 1 /\ E[1] = HelpEntry
        BY <1>1, <1>8, <3>1 DEF ReadsAs
      <3>3. HelpEntry.path = p /\ WellFormed(HelpEntry)
        BY <1>8 DEF HelpEntry, WellFormed, HelpName, NoName
      <3>4. QED
        BY <1>3, <1>4, <3>1, <3>2, <3>3
    <2>4. CASE has
      BY <1>5, <1>6, <2>2, <2>4
    <2>5. CASE ~has
      BY <1>5, <1>8, <2>2, <2>3, <2>5
    <2>6. QED
      BY <2>4, <2>5
  <1>9. QED
    BY <1>7, <1>8

\* What setup accepts, the report takes whole.
LEMMA AcceptedWhole ==
    ASSUME NEW file, NEW n, file.knowledge \in Seq(Range(file.knowledge)), KnowledgeParses(file)
    PROVE  LET known == Documents(file, n) IN
           /\ \A e \in known.problems : e.path = HelpName
           /\ \A e \in Range(file.knowledge) :
                e.path \in known.unread \cup {HelpName} \/ Document(file, n, e) \in known.documents
           /\ \A d \in known.documents : d.path = HelpName => d.skills = Listed(file, n)
  <1> DEFINE E == EntriesOf(file)
             m == Len(E)
             K == file.knowledge
             h == HelpName \in DOMAIN file.files
             known == Documents(file, n)
             P == known.problems
             D == known.documents
  <1>1. /\ m \in Nat /\ Len(K) \in Nat /\ DOMAIN K = 1..Len(K)
        /\ h => m = Len(K) + 1 /\ E[1] = HelpEntry /\ \A j \in 1..Len(K) : E[j + 1] = K[j]
        /\ ~h => E = K /\ m = Len(K)
    BY EntryFacts DEF KnowledgeParses
  <1> DEFINE size == Len(K)
  <1>2. m \in Nat /\ size \in Nat /\ DOMAIN K = 1..size
    BY <1>1
  <1>3. ASSUME h
         PROVE  m = size + 1 /\ E[1] = HelpEntry /\ \A j \in 1..size : E[j + 1] = K[j]
    BY <1>1, <1>3
  <1>4. ASSUME ~h
         PROVE  E = K /\ m = size
    BY <1>1, <1>4
  <1>5. \A j \in 1..size : /\ WellFormed(K[j])
                             /\ \A i \in 1..(j - 1) : K[i].path # K[j].path
    <2>1. SUFFICES ASSUME NEW j \in 1..size
                   PROVE  WellFormed(K[j]) /\ \A i \in 1..(j - 1) : K[i].path # K[j].path
      OBVIOUS
    <2>2. K[j].path # NoName /\ K[j].form = "fine" /\ \A i \in 1..(j - 1) : K[i].path # K[j].path
      BY <1>2 DEF KnowledgeParses
    <2>3. QED
      BY <2>2 DEF WellFormed
  <1>6. Offered(known, file, n, m)
    BY <1>2, DocumentsFacts DEF IsOffer
  <1>7. /\ \A d \in D : \E i \in 1..m : WellFormed(E[i]) /\ ReadsAs(file, E[i].path) /\ d = Document(file, n, E[i])
        /\ \A d, e \in D : d.path = e.path => d = e
        /\ \A e \in P : \E i \in 1..m : e = E[i] /\ (~WellFormed(e) \/ \E j \in 1..(i - 1) : E[j].path = e.path)
        /\ \A i \in 1..m : E[i] \in P \/ E[i].path \in known.unread \/ Document(file, n, E[i]) \in D
        /\ m >= 1 /\ WellFormed(E[1]) /\ ReadsAs(file, E[1].path) => Document(file, n, E[1]) \in D
    BY <1>6 DEF Offered
  <1>8. \A e : Document(file, n, e).path = e.path
    BY DEF Document
  <1>9. HelpEntry.path = HelpName /\ WellFormed(HelpEntry) /\ HelpEntry.skills = NoList
    BY DEF HelpEntry, WellFormed, HelpName, NoName
  <1> HIDE DEF E, m, K, h, P, D, size
  <1>10. ASSUME NEW e \in P
        PROVE  e.path = HelpName
    <2>1. PICK i \in 1..m : e = E[i] /\ (~WellFormed(e) \/ \E j \in 1..(i - 1) : E[j].path = e.path)
      BY <1>7
    <2>2. CASE ~h
      <3>1. i \in 1..size /\ E = K
        BY <1>4, <2>1, <2>2
      <3>2. QED
        BY <1>5, <2>1, <3>1
    <2>3. CASE h
      <3>1. CASE i = 1
        BY <1>9, <1>3, <2>1, <2>3, <3>1
      <3>2. CASE i # 1
        <4>1. i - 1 \in 1..size /\ (i - 1) + 1 = i
          BY <1>2, <1>3, <2>1, <2>3, <3>2
        <4>2. E[i] = K[i - 1]
          BY <1>3, <2>3, <4>1
        <4>3. PICK j \in 1..(i - 1) : E[j].path = e.path
          BY <1>5, <2>1, <4>1, <4>2
        <4>4. CASE j = 1
          BY <1>9, <1>3, <2>3, <4>3, <4>4
        <4>5. CASE j # 1
          <5>1. size \in Nat /\ i \in Nat
            BY <1>2, <1>3, <2>1, <2>3
          <5>2. j - 1 \in 1..((i - 1) - 1) /\ j - 1 \in 1..size /\ (j - 1) + 1 = j
            BY <4>1, <4>5, <5>1
          <5>3. E[j] = K[j - 1]
            BY <1>3, <2>3, <5>2
          <5>4. QED
            BY <1>5, <2>1, <4>1, <4>2, <4>3, <5>2, <5>3
        <4>6. QED
          BY <4>4, <4>5
      <3>3. QED
        BY <3>1, <3>2
    <2>4. QED
      BY <2>2, <2>3
  <1>11. ASSUME NEW e \in Range(K)
        PROVE  e.path \in known.unread \cup {HelpName} \/ Document(file, n, e) \in D
    <2>1. PICK j \in 1..size : e = K[j]
      BY <1>11, <1>2 DEF Range
    <2>2. \E i \in 1..m : e = E[i]
      <3>1. CASE h
        <4>1. m = size + 1 /\ E[j + 1] = K[j]
          BY <1>3, <2>1, <3>1
        <4>2. j + 1 \in 1..m
          <5>1. size \in Nat
            BY <1>2
          <5>2. QED
            BY <2>1, <4>1, <5>1
        <4>3. QED
          BY <2>1, <4>1, <4>2
      <3>2. CASE ~h
        BY <1>4, <2>1, <3>2
      <3>3. QED
        BY <3>1, <3>2
    <2>3. PICK i \in 1..m : e = E[i]
      BY <2>2
    <2>4. QED
      BY <1>7, <1>10, <2>3
  <1>12. ASSUME NEW d \in D, d.path = HelpName
        PROVE  d.skills = Listed(file, n)
    <2>1. PICK i \in 1..m : ReadsAs(file, E[i].path) /\ d = Document(file, n, E[i])
      BY <1>7
    <2>2. E[i].path = HelpName
      BY <1>8, <1>12, <2>1
    <2>3. h /\ ReadsAs(file, HelpName)
      BY <2>1, <2>2 DEF ReadsAs, h
    <2>4. m >= 1 /\ E[1] = HelpEntry
      BY <1>2, <1>3, <2>3
    <2>5. Document(file, n, HelpEntry) \in D
      BY <1>7, <1>9, <2>3, <2>4
    <2>6. d = Document(file, n, HelpEntry)
      BY <1>7, <1>8, <1>9, <1>12, <2>5
    <2>7. QED
      BY <1>9, <2>6 DEF Document
  <1>13. QED
    BY <1>10, <1>11, <1>12 DEF P, D, K

\* The skills a whole-module document is installed for that declare themselves
\* are the members setup counts.
LEMMA SameMembers ==
    ASSUME NEW d \in Disks, NEW n \in Names, Membership(Across(d)) = {},
           UsedFile(d, n).code # NoName, n = Record(Across(d), UsedFile(d, n).code),
           NEW doc, doc.skills = Listed(UsedFile(d, n), n)
    PROVE  {m \in InstalledOf(d, doc) : m \in Files(Across(d)) /\ UsedFile(d, m).skill}
             = Members(Across(d), UsedFile(d, n).code)
  <1> DEFINE at == Across(d)
             c == UsedFile(d, n).code
  <1>1. c \in DOMAIN Fold
    BY FileFacts
  <1>2. n # NoName
    BY PlaceFacts
  <1>3. c \in Modules(at)
    BY <1>1, <1>2 DEF Modules
  <1>4. ListedBy(at, n) = doc.skills
    BY DEF ListedBy, UsedFile
  <1>5. \A m \in Names : at[m] = Folder(d, m)
    BY FolderTypes
  <1>6. \A m \in Files(at) : UsedFile(d, m).skill /\ m \in doc.skills => BelongsTo(at, m, n)
    <2>1. SUFFICES ASSUME NEW m \in Files(at), UsedFile(d, m).skill, m \in doc.skills, ~BelongsTo(at, m, n)
                   PROVE  FALSE
      OBVIOUS
    <2>2. \E x \in Modules(at) : m \in ListedBy(at, Record(at, x)) /\ ~BelongsTo(at, m, Record(at, x))
      BY <1>3, <1>4, <2>1
    <2>3. m \in Membership(at)
      BY <2>1, <2>2 DEF Membership, UsedFile
    <2>4. QED
      BY <2>3
  <1>7. Members(at, c) = {m \in doc.skills \cap Installed(at) :
                            Good(UsedFile(d, m)) /\ UsedFile(d, m).skill /\ BelongsTo(at, m, n)}
    BY <1>4 DEF Members, UsedFile
  <1>8. \A m : m \in Files(at) <=> m \in Names /\ Good(UsedFile(d, m))
    BY DEF Files, UsedFile
  <1>9. \A m : m \in InstalledOf(d, doc) <=> m \in doc.skills /\ m \in Names /\ at[m] # NoPlace
    BY <1>5 DEF InstalledOf
  <1>10. \A m : m \in Installed(at) <=> m \in Names /\ at[m] # NoPlace
    BY DEF Installed
  <1> HIDE DEF at, c
  <1>11. \A m : m \in Members(at, c) <=> /\ m \in doc.skills /\ m \in Names /\ at[m] # NoPlace
                                         /\ Good(UsedFile(d, m)) /\ UsedFile(d, m).skill /\ BelongsTo(at, m, n)
    BY <1>7, <1>10
  <1>12. {m \in InstalledOf(d, doc) : m \in Files(at) /\ UsedFile(d, m).skill} = Members(at, c)
    <2>1. \A m : m \in {k \in InstalledOf(d, doc) : k \in Files(at) /\ UsedFile(d, k).skill} <=> m \in Members(at, c)
      BY <1>6, <1>8, <1>9, <1>11
    <2>2. QED
      BY <2>1
  <1>13. QED
    BY <1>12 DEF at, c

\* Of every record in use the knowledge report offers each help file that reads
\* exactly once and takes whole what setup accepts, and a document of the whole
\* module is installed for the members setup counts (collect, record_document,
\* module_topics, installed_skills; discover_installation).
THEOREM OffersAreExact == Spec => []OffersAgree
  <1>1. IInv => OffersAgree
    <2> SUFFICES ASSUME IInv PROVE OffersAgree
      OBVIOUS
    <2>1. disk \in Disks
      BY DEF IInv, Typed
    <2> DEFINE at == Across(disk)
               settled == ~CodesClash(at) /\ Membership(at) \cup Unusable(at) = {}
    <2>2. ASSUME NEW n \in Recorded(disk)
          PROVE  LET file == FileAt(at[n], n)
                     known == Documents(file, n)
                     topics == TopicsOf(file, known.documents)
                     offers(p) == Cardinality({d \in known.documents : d.path = p}) + (IF p \in topics THEN 1 ELSE 0)
                 IN /\ \A p \in Topics \cup {HelpName} :
                         offers(p) = IF ReadsAs(file, p) /\ (p = HelpName => "knowledge" \notin file.wrong) THEN 1 ELSE 0
                    /\ Good(file) =>
                         /\ \A e \in known.problems : e.path = HelpName
                         /\ \A e \in Range(file.knowledge) :
                              e.path \in known.unread \cup {HelpName} \/ Document(file, n, e) \in known.documents
                         /\ settled /\ n = Record(at, file.code) =>
                              \A d \in known.documents : d.path = HelpName =>
                                {m \in InstalledOf(disk, d) : m \in Files(at) /\ FileAt(at[m], m).skill}
                                  = Members(at, file.code)
      <3> DEFINE file == UsedFile(disk, n)
                 known == Documents(file, n)
      <3>1. n \in Names /\ UsableRecord(file)
        BY <2>1, <2>2, RecordedFacts
      <3>2. file.knowledge \in Seq(Range(file.knowledge)) /\ (Good(file) => Parses(file))
        BY <2>1, <3>1, FileFacts
      <3>3. file.code # NoName
        BY <3>1 DEF UsableRecord
      <3>4. Good(file) => KnowledgeParses(file)
        BY <3>2, <3>3 DEF Parses, TableParses
      <3>5. \A p \in Topics \cup {HelpName} :
               Tally(file, n, p) = IF ReadsAs(file, p) /\ (p = HelpName => "knowledge" \notin file.wrong) THEN 1 ELSE 0
        <4> HIDE DEF file
        <4>1. file.knowledge \in Seq(Range(file.knowledge))
          BY <3>2
        <4>2. QED
          BY <4>1, OfferedOnce
      <3>6. ASSUME Good(file)
            PROVE  /\ \A e \in known.problems : e.path = HelpName
                   /\ \A e \in Range(file.knowledge) :
                        e.path \in known.unread \cup {HelpName} \/ Document(file, n, e) \in known.documents
                   /\ \A d \in known.documents : d.path = HelpName => d.skills = Listed(file, n)
        <4>1. file.knowledge \in Seq(Range(file.knowledge)) /\ KnowledgeParses(file)
          BY <3>2, <3>4, <3>6
        <4> HIDE DEF file
        <4>2. QED
          BY <4>1, AcceptedWhole
      <3>7. ASSUME Good(file), settled, n = Record(at, file.code), NEW d \in known.documents, d.path = HelpName
            PROVE  {m \in InstalledOf(disk, d) : m \in Files(at) /\ UsedFile(disk, m).skill} = Members(at, file.code)
        <4>1. d.skills = Listed(UsedFile(disk, n), n)
          BY <3>6, <3>7
        <4>2. Membership(Across(disk)) = {}
          BY <3>7
        <4>3. UsedFile(disk, n).code # NoName /\ n = Record(Across(disk), UsedFile(disk, n).code)
          BY <3>3, <3>7
        <4>4. QED
          BY <2>1, <3>1, <4>1, <4>2, <4>3, SameMembers
      <3>8. FileAt(at[n], n) = file /\ \A m : FileAt(at[m], m) = UsedFile(disk, m)
        BY DEF UsedFile
      <3> HIDE DEF at, settled, file
      <3>9. \A p \in Topics \cup {HelpName} :
               Cardinality({d \in known.documents : d.path = p}) + (IF p \in TopicsOf(file, known.documents) THEN 1 ELSE 0)
                 = IF ReadsAs(file, p) /\ (p = HelpName => "knowledge" \notin file.wrong) THEN 1 ELSE 0
        BY <3>5 DEF Tally, Count
      <3>10. ASSUME Good(file), settled, n = Record(at, file.code)
             PROVE  \A d \in known.documents : d.path = HelpName =>
                      {m \in InstalledOf(disk, d) : m \in Files(at) /\ FileAt(at[m], m).skill} = Members(at, file.code)
        <4>1. \A d : {m \in InstalledOf(disk, d) : m \in Files(at) /\ FileAt(at[m], m).skill}
                       = {m \in InstalledOf(disk, d) : m \in Files(at) /\ UsedFile(disk, m).skill}
          BY <3>8
        <4>2. QED
          BY <3>7, <3>10, <4>1
      <3> HIDE DEF known
      <3>11. QED
        BY <3>6, <3>8, <3>9, <3>10 DEF known
    <2> HIDE DEF at, settled
    <2>3. QED
      BY <2>2 DEF OffersAgree, at, settled
  <1>2. QED
    BY <1>1, Invariant, PTL

-----------------------------------------------------------------------------
(* Lists that are indexed by a field.                                      *)

LEMMA MaxFacts ==
    ASSUME NEW n \in Nat, NEW T, T \subseteq 0..n, T # {}
    PROVE  Max(T) \in T /\ \A y \in T : y <= Max(T)
  <1> DEFINE D == {n - y : y \in T}
  <1>1. D \subseteq Nat /\ D # {}
    <2>1. \A y \in T : y \in 0..n /\ n - y \in Nat
      OBVIOUS
    <2>2. QED
      BY <2>1
  <1>2. PICK d \in D : \A e \in D : d <= e
    <2> HIDE DEF D
    <2>1. QED
      BY <1>1, LeastMember
  <1>3. PICK x \in T : d = n - x
    BY <1>2
  <1>4. ASSUME NEW y \in T
        PROVE  x >= y
    <2>1. n - y \in D
      OBVIOUS
    <2>2. d <= n - y
      BY <1>2, <2>1
    <2>3. QED
      BY <1>3, <2>2
  <1>5. \E z \in T : \A y \in T : z >= y
    BY <1>4
  <1>6. Max(T) \in T /\ \A y \in T : Max(T) >= y
    BY <1>5 DEF Max
  <1>7. QED
    BY <1>6

LEMMA LastWithFacts ==
    ASSUME NEW S, NEW list \in Seq(S), NEW field, NEW v
    PROVE  LET at == LastWith(list, field, v)
           IN \/ at = 0 /\ \A i \in 1..Len(list) : list[i][field] # v
              \/ /\ at \in 1..Len(list) /\ list[at][field] = v
                 /\ \A i \in 1..Len(list) : i > at => list[i][field] # v
  <1> DEFINE I == {i \in 1..Len(list) : list[i][field] = v}
  <1>1. LastWith(list, field, v) = IF I # {} THEN Max(I) ELSE 0
    BY DEF LastWith, SelectLastInSeq
  <1>2. Len(list) \in Nat
    OBVIOUS
  <1>3. CASE I = {}
    BY <1>1, <1>3
  <1>4. CASE I # {}
    <2>1. I \subseteq 0..Len(list)
      OBVIOUS
    <2>2. Max(I) \in I /\ \A y \in I : y <= Max(I)
      BY <1>2, <1>4, <2>1, MaxFacts
    <2>3. \A i \in 1..Len(list) : i > Max(I) => i \notin I
      BY <1>2, <2>1, <2>2
    <2>4. QED
      BY <1>1, <1>4, <2>2, <2>3
  <1>5. QED
    BY <1>3, <1>4

\* An item goes to the place of the last one with its value, or to the end.
PutsAt(list, item, field, new, at) ==
    /\ at \in 1..(Len(list) + 1)
    /\ Len(new) = IF at = Len(list) + 1 THEN Len(list) + 1 ELSE Len(list)
    /\ new[at] = item
    /\ \A i \in 1..Len(list) : i # at => new[i] = list[i]
    /\ at <= Len(list) => list[at][field] = item[field]
    /\ \A i \in 1..Len(list) : i > at => list[i][field] # item[field]
    /\ at = Len(list) + 1 => \A i \in 1..Len(list) : list[i][field] # item[field]

LEMMA PutFacts ==
    ASSUME NEW S, NEW list \in Seq(S), NEW item \in S, NEW field
    PROVE  /\ Put(list, item, field) \in Seq(S)
           /\ \E at : PutsAt(list, item, field, Put(list, item, field), at)
  <1> DEFINE at == LastWith(list, field, item[field])
             new == Put(list, item, field)
  <1>1. new = IF at = 0 THEN Append(list, item) ELSE [list EXCEPT ![at] = item]
    BY DEF Put
  <1>2. \/ at = 0 /\ \A i \in 1..Len(list) : list[i][field] # item[field]
        \/ /\ at \in 1..Len(list) /\ list[at][field] = item[field]
           /\ \A i \in 1..Len(list) : i > at => list[i][field] # item[field]
    BY LastWithFacts
  <1> HIDE DEF at, new
  <1>3. CASE at = 0
    <2>1. new = Append(list, item)
      BY <1>1, <1>3
    <2>2. PutsAt(list, item, field, new, Len(list) + 1)
      BY <1>2, <1>3, <2>1 DEF PutsAt
    <2>3. QED
      BY <2>1, <2>2 DEF new
  <1>4. CASE at # 0
    <2>1. new = [list EXCEPT ![at] = item] /\ at \in 1..Len(list)
      BY <1>1, <1>2, <1>4
    <2>2. /\ new \in Seq(S) /\ Len(new) = Len(list) /\ Len(list) \in Nat
          /\ \A j \in 1..Len(list) : new[j] = IF j = at THEN item ELSE list[j]
      BY <2>1, ExceptSeq
    <2>3. /\ list[at][field] = item[field] /\ at # Len(list) + 1 /\ at \in 1..(Len(list) + 1)
          /\ \A i \in 1..Len(list) : i > at => list[i][field] # item[field]
      BY <1>2, <1>4, <2>1, <2>2
    <2>4. PutsAt(list, item, field, new, at)
      BY <2>1, <2>2, <2>3 DEF PutsAt
    <2>5. QED
      BY <2>2, <2>4 DEF new
  <1>5. QED
    BY <1>3, <1>4

-----------------------------------------------------------------------------
(* What is computed by steps along a list.                                 *)

LEMMA UpTo ==
    ASSUME NEW n \in Nat, NEW T, 0 \in T, \A i \in 1..n : i - 1 \in T => i \in T
    PROVE  0..n \subseteq T
  <1> DEFINE U == {k \in Nat : k <= n => k \in T}
  <1>1. 0 \in U
    OBVIOUS
  <1>2. ASSUME NEW k \in Nat, k \in U
        PROVE  k + 1 \in U
    <2>1. k + 1 <= n => k + 1 \in 1..n /\ k <= n /\ (k + 1) - 1 = k
      OBVIOUS
    <2>2. QED
      BY <1>2, <2>1
  <1>3. Nat \subseteq U
    <2> HIDE DEF U
    <2>1. QED
      BY <1>1, <1>2, Induction
  <1>4. QED
    BY <1>3

\* Steps that stay in a set lead from its first member to the end.
IsPath(f, v, F, n) == f = [i \in 0..n |-> IF i = 0 THEN v ELSE F[<<i, f[i-1]>>]]

LEMMA PathExists ==
    ASSUME NEW n \in Nat, NEW V, NEW v \in V, NEW F,
           \A i \in 1..n, x \in V : F[<<i, x>>] \in V
    PROVE  \E f : IsPath(f, v, F, n) /\ \A i \in 0..n : f[i] \in V
  <1> DEFINE T == {k \in Nat : \E f : IsPath(f, v, F, k)}
  <1>1. 0 \in T
    <2>1. IsPath([i \in 0..0 |-> v], v, F, 0)
      BY DEF IsPath
    <2>2. QED
      BY <2>1
  <1>2. ASSUME NEW k \in Nat, k \in T
        PROVE  k + 1 \in T
    <2>1. PICK f : IsPath(f, v, F, k)
      BY <1>2
    <2> DEFINE g == [i \in 0..(k + 1) |-> IF i = 0 THEN v ELSE F[<<i, f[i-1]>>]]
    <2>2. \A i \in 0..k : g[i] = f[i]
      BY <2>1 DEF IsPath
    <2>3. \A i \in 0..(k + 1) : (IF i = 0 THEN v ELSE F[<<i, f[i-1]>>]) = (IF i = 0 THEN v ELSE F[<<i, g[i-1]>>])
      <3> HIDE DEF g
      <3>1. \A i \in 0..(k + 1) : i # 0 => i - 1 \in 0..k
        OBVIOUS
      <3>2. QED
        BY <2>2, <3>1
    <2>4. g = [i \in 0..(k + 1) |-> IF i = 0 THEN v ELSE F[<<i, g[i-1]>>]]
      <3>1. [i \in 0..(k + 1) |-> IF i = 0 THEN v ELSE F[<<i, f[i-1]>>]]
              = [i \in 0..(k + 1) |-> IF i = 0 THEN v ELSE F[<<i, g[i-1]>>]]
        <4> HIDE DEF g
        <4>1. QED
          BY <2>3
      <3>2. QED
        BY <3>1
    <2>5. IsPath(g, v, F, k + 1)
      BY <2>4 DEF IsPath
    <2>6. QED
      BY <2>5
  <1>3. Nat \subseteq T
    <2> HIDE DEF T
    <2>1. QED
      BY <1>1, <1>2, Induction
  <1>4. PICK f : f = [i \in 0..n |-> IF i = 0 THEN v ELSE F[<<i, f[i-1]>>]]
    BY <1>3 DEF IsPath
  <1>5. \A i \in 0..n : f[i] \in V
    <2> DEFINE U == {k \in 0..n : f[k] \in V}
    <2>1. 0 \in U
      BY <1>4
    <2>2. ASSUME NEW i \in 1..n, i - 1 \in U
          PROVE  i \in U
      <3>1. f[i] = F[<<i, f[i-1]>>]
        BY <1>4
      <3>2. QED
        BY <2>2, <3>1
    <2>3. 0..n \subseteq U
      <3> HIDE DEF U
      <3>1. QED
        BY <2>1, <2>2, UpTo
    <2>4. QED
      BY <2>3
  <1>6. QED
    BY <1>4, <1>5 DEF IsPath

IsPutAll(put, S, list, items, field) ==
    /\ put[0] = list /\ put[Len(items)] = PutAll(list, items, field)
    /\ \A i \in 1..Len(items) : put[i] = Put(put[i-1], items[i], field)
    /\ \A i \in 0..Len(items) : put[i] \in Seq(S)

LEMMA PutAllFacts ==
    ASSUME NEW S, NEW list \in Seq(S), NEW items \in Seq(S), NEW field
    PROVE  \E put : IsPutAll(put, S, list, items, field)
  <1> DEFINE n == Len(items)
             F == [ix \in (1..n) \X Seq(S) |-> Put(ix[2], items[ix[1]], field)]
             Is(f) == f = [i \in 0..n |-> IF i = 0 THEN list ELSE Put(f[i-1], items[i], field)]
             put == CHOOSE f : f = [i \in 0..n |-> IF i = 0 THEN list ELSE Put(f[i-1], items[i], field)]
  <1>1. n \in Nat /\ \A i \in 1..n : items[i] \in S
    OBVIOUS
  <1>2. \A i \in 1..n, x \in Seq(S) : F[<<i, x>>] = Put(x, items[i], field) /\ F[<<i, x>>] \in Seq(S)
    <2>1. \A i \in 1..n, x \in Seq(S) : F[<<i, x>>] = Put(x, items[i], field)
      OBVIOUS
    <2>2. \A i \in 1..n, x \in Seq(S) : Put(x, items[i], field) \in Seq(S)
      BY <1>1, PutFacts
    <2> HIDE DEF F, n
    <2>3. QED
      BY <2>1, <2>2
  <1>3. \E f : /\ f = [i \in 0..n |-> IF i = 0 THEN list ELSE F[<<i, f[i-1]>>]]
               /\ \A i \in 0..n : f[i] \in Seq(S)
    <2> HIDE DEF F, n
    <2> DEFINE V == Seq(S)
    <2>1. list \in V /\ \A i \in 1..n, x \in V : F[<<i, x>>] \in V
      BY <1>2
    <2> HIDE DEF V
    <2>2. \E f : IsPath(f, list, F, n) /\ \A i \in 0..n : f[i] \in V
      BY <1>1, <2>1, PathExists
    <2>3. QED
      BY <2>2 DEF V, IsPath
  <1>4. PICK f : /\ f = [i \in 0..n |-> IF i = 0 THEN list ELSE F[<<i, f[i-1]>>]]
                 /\ \A i \in 0..n : f[i] \in Seq(S)
    BY <1>3
  <1>5. \A i \in 0..n : (IF i = 0 THEN list ELSE F[<<i, f[i-1]>>]) = (IF i = 0 THEN list ELSE Put(f[i-1], items[i], field))
    <2> HIDE DEF F, n
    <2>1. \A i \in 0..n : i # 0 => i \in 1..n /\ i - 1 \in 0..n
      BY <1>1
    <2>2. QED
      BY <1>2, <1>4, <2>1
  <1>6. [i \in 0..n |-> IF i = 0 THEN list ELSE F[<<i, f[i-1]>>]]
          = [i \in 0..n |-> IF i = 0 THEN list ELSE Put(f[i-1], items[i], field)]
    <2> HIDE DEF F, n
    <2>1. QED
      BY <1>5
  <1>7. Is(f)
    <2> HIDE DEF F, n
    <2>1. QED
      BY <1>4, <1>6
  <1>8. Is(put)
    <2> HIDE DEF F, n
    <2>1. QED
      BY <1>7
  <1>9. PutAll(list, items, field) = put[n]
    BY DEF PutAll
  <1> HIDE DEF put, F
  <1>10. put[0] = list /\ \A i \in 1..n : put[i] = Put(put[i-1], items[i], field)
    <2> HIDE DEF n
    <2>1. QED
      BY <1>1, <1>8
  <1>11. \A i \in 0..n : put[i] \in Seq(S)
    <2> DEFINE U == {k \in 0..n : put[k] \in Seq(S)}
    <2>1. 0 \in U
      BY <1>10
    <2>2. ASSUME NEW i \in 1..n, i - 1 \in U
          PROVE  i \in U
      BY <1>1, <1>10, <2>2, PutFacts
    <2>3. 0..n \subseteq U
      <3> HIDE DEF U, n
      <3>1. QED
        BY <1>1, <2>1, <2>2, UpTo
    <2>4. QED
      BY <2>3
  <1>12. QED
    BY <1>9, <1>10, <1>11 DEF IsPutAll

-----------------------------------------------------------------------------
(* What keyed lists merge to.                                              *)

\* A list is the merge of the first k items: each code once, as its last item,
\* in the order in which the codes were first met.
MergeOf(list, all, k) ==
    /\ \A i \in 1..Len(list) : \E p \in 1..k :
         list[i] = all[p] /\ \A q \in 1..k : all[q].code = all[p].code => q <= p
    /\ \A p \in 1..k : \E i \in 1..Len(list) : list[i].code = all[p].code
    /\ \A i, j \in 1..Len(list) : i < j =>
         \E p \in 1..k : all[p].code = list[i].code /\ \A q \in 1..k : all[q].code = list[j].code => p < q

LEMMA PutMerges ==
    ASSUME NEW S, NEW all \in Seq(S), NEW list \in Seq(S), NEW k \in Nat, k + 1 <= Len(all), MergeOf(list, all, k)
    PROVE  MergeOf(Put(list, all[k + 1], "code"), all, k + 1)
  <1> DEFINE item == all[k + 1]
             new == Put(list, item, "code")
             n == Len(list)
  <1>0. item \in S /\ n \in Nat /\ Len(all) \in Nat
    OBVIOUS
  <1>1. PICK at : PutsAt(list, item, "code", new, at)
    BY <1>0, PutFacts
  <1> HIDE DEF new
  <1>2. /\ at \in 1..(n + 1) /\ Len(new) = IF at = n + 1 THEN n + 1 ELSE n
        /\ new[at] = item
        /\ \A i \in 1..n : i # at => new[i] = list[i]
        /\ at <= n => list[at].code = item.code
        /\ \A i \in 1..n : i > at => list[i].code # item.code
        /\ at = n + 1 => \A i \in 1..n : list[i].code # item.code
    BY <1>1 DEF PutsAt
  <1>3. MergeOf(list, all, k)
    OBVIOUS
  <1>4. \A i, j \in 1..n : i # j => list[i].code # list[j].code
    <2>1. ASSUME NEW i \in 1..n, NEW j \in 1..n, i < j
          PROVE  list[i].code # list[j].code
      <3>1. PICK p \in 1..k : all[p].code = list[i].code /\ \A q \in 1..k : all[q].code = list[j].code => p < q
        BY <1>3, <2>1 DEF MergeOf
      <3>2. QED
        BY <3>1
    <2>2. QED
      BY <1>0, <2>1
  <1>5. \A i \in 1..n : i # at => list[i].code # item.code
    <2> HIDE DEF item, n
    <2>1. CASE at = n + 1
      BY <1>2, <2>1
    <2>2. CASE at # n + 1
      <3>1. at \in 1..n /\ list[at].code = item.code
        BY <1>0, <1>2, <2>2
      <3>2. QED
        BY <1>4, <3>1
    <2>3. QED
      BY <2>1, <2>2
  <1>6. \A i \in 1..Len(new) : i = at \/ (i # at /\ i \in 1..n /\ new[i] = list[i])
    BY <1>0, <1>2
  <1> HIDE DEF item, n
  <1>7. \A q \in 1..(k + 1) : q \in 1..k \/ (q = k + 1 /\ all[q] = item)
    BY DEF item
  <1>8. \A q \in 1..k : q \in 1..(k + 1) /\ q < k + 1
    OBVIOUS
  <1>9. ASSUME NEW i \in 1..Len(new)
        PROVE  \E p \in 1..(k + 1) : new[i] = all[p] /\ \A q \in 1..(k + 1) : all[q].code = all[p].code => q <= p
    <2>1. CASE i = at
      <3>1. new[i] = all[k + 1] /\ k + 1 \in 1..(k + 1) /\ \A q \in 1..(k + 1) : q <= k + 1
        BY <1>2, <2>1 DEF item
      <3>2. QED
        BY <3>1
    <2>2. CASE i # at
      <3>1. i \in 1..n /\ new[i] = list[i]
        BY <1>6, <2>2
      <3>2. PICK p \in 1..k : list[i] = all[p] /\ \A q \in 1..k : all[q].code = all[p].code => q <= p
        BY <1>3, <3>1 DEF MergeOf, n
      <3>3. all[p].code # item.code
        BY <1>5, <2>2, <3>1, <3>2
      <3>4. \A q \in 1..(k + 1) : all[q].code = all[p].code => q <= p
        BY <1>7, <3>2, <3>3
      <3>5. QED
        BY <1>8, <3>1, <3>2, <3>4
    <2>3. QED
      BY <2>1, <2>2
  <1>10. ASSUME NEW p \in 1..(k + 1)
         PROVE  \E i \in 1..Len(new) : new[i].code = all[p].code
    <2>1. at \in 1..Len(new)
      BY <1>0, <1>2
    <2>2. CASE all[p].code = item.code
      BY <1>2, <2>1, <2>2
    <2>3. CASE all[p].code # item.code
      <3>1. p \in 1..k
        BY <1>7, <2>3
      <3>2. PICK i \in 1..n : list[i].code = all[p].code
        BY <1>3, <3>1 DEF MergeOf, n
      <3>3. i # at
        BY <1>0, <1>2, <2>3, <3>2
      <3>4. i \in 1..Len(new) /\ new[i] = list[i]
        BY <1>0, <1>2, <3>3
      <3>5. QED
        BY <3>2, <3>4
    <2>4. QED
      BY <2>2, <2>3
  <1>11. \A i \in 1..n : i \in 1..Len(new) => new[i].code = list[i].code
    BY <1>0, <1>2
  <1>12. ASSUME NEW i \in 1..Len(new), NEW j \in 1..Len(new), i < j
         PROVE  \E p \in 1..(k + 1) : all[p].code = new[i].code /\ \A q \in 1..(k + 1) : all[q].code = new[j].code => p < q
    <2>1. i \in 1..n /\ new[i].code = list[i].code
      BY <1>0, <1>2, <1>11, <1>12
    <2>2. CASE at = n + 1 /\ j = n + 1
      <3>1. new[j].code = item.code /\ \A q \in 1..k : all[q].code # item.code
        <4>1. ASSUME NEW q \in 1..k
              PROVE  all[q].code # item.code
          <5>1. PICK m \in 1..n : list[m].code = all[q].code
            BY <1>3 DEF MergeOf, n
          <5>2. QED
            BY <1>2, <2>2, <5>1
        <4>2. QED
          BY <1>2, <2>2, <4>1
      <3>2. PICK p \in 1..k : list[i] = all[p]
        BY <1>3, <2>1 DEF MergeOf, n
      <3>3. \A q \in 1..(k + 1) : all[q].code = new[j].code => p < q
        BY <1>7, <1>8, <3>1
      <3>4. QED
        BY <1>8, <2>1, <3>2, <3>3
    <2>3. CASE ~(at = n + 1 /\ j = n + 1)
      <3>1. j \in 1..n /\ new[j].code = list[j].code
        BY <1>0, <1>2, <1>11, <2>3
      <3>2. PICK p \in 1..k : all[p].code = list[i].code /\ \A q \in 1..k : all[q].code = list[j].code => p < q
        BY <1>3, <1>12, <2>1, <3>1 DEF MergeOf, n
      <3>3. \A q \in 1..(k + 1) : all[q].code = new[j].code => p < q
        BY <1>7, <1>8, <3>1, <3>2
      <3>4. QED
        BY <1>8, <2>1, <3>2, <3>3
    <2>4. QED
      BY <2>2, <2>3
  <1>13. QED
    BY <1>9, <1>10, <1>12 DEF MergeOf, new, item

LEMMA CodeFacts ==
    ASSUME NEW S, NEW items \in Seq(S)
    PROVE  /\ Len(items) \in Nat /\ DOMAIN items = 1..Len(items) /\ Codes(items) = {items[i].code : i \in 1..Len(items)}
           /\ \A c : c \in Codes(items) <=> \E i \in 1..Len(items) : items[i].code = c
           /\ Range(items) = {items[i] : i \in 1..Len(items)}
           /\ items \in Seq(Range(items)) /\ Range(items) \subseteq S
  <1>1. Len(items) \in Nat /\ DOMAIN items = 1..Len(items) /\ \A i \in 1..Len(items) : items[i] \in S
    OBVIOUS
  <1>2. Codes(items) = {items[i].code : i \in 1..Len(items)} /\ Range(items) = {items[i] : i \in 1..Len(items)}
    BY <1>1 DEF Codes, Range
  <1>3. items \in Seq(Range(items))
    BY <1>1, <1>2, SeqDef
  <1>4. QED
    BY <1>1, <1>2, <1>3

LEMMA CodesJoined ==
    ASSUME NEW S, NEW a \in Seq(S), NEW b \in Seq(S)
    PROVE  a \o b \in Seq(S) /\ Codes(a \o b) = Codes(a) \cup Codes(b) /\ Range(a \o b) = Range(a) \cup Range(b)
  <1> DEFINE ab == a \o b
             n == Len(a)
             m == Len(b)
  <1>1. /\ ab \in Seq(S) /\ Len(ab) = n + m /\ n \in Nat /\ m \in Nat
        /\ \A i \in 1..(n + m) : ab[i] = IF i <= n THEN a[i] ELSE b[i - n]
    BY ConcatProperties
  <1>2. /\ Codes(ab) = {ab[i].code : i \in 1..(n + m)} /\ Range(ab) = {ab[i] : i \in 1..(n + m)}
        /\ Codes(a) = {a[i].code : i \in 1..n} /\ Range(a) = {a[i] : i \in 1..n}
        /\ Codes(b) = {b[i].code : i \in 1..m} /\ Range(b) = {b[i] : i \in 1..m}
    <2>1. ASSUME NEW s \in Seq(S)
          PROVE  Codes(s) = {s[i].code : i \in 1..Len(s)} /\ Range(s) = {s[i] : i \in 1..Len(s)}
      BY ONLY <2>1, CodeFacts
    <2>2. ab \in Seq(S)
      BY <1>1
    <2>3. QED
      BY <1>1, <2>1, <2>2
  <1> HIDE DEF ab, n, m
  <1>3. \A i \in 1..n : i \in 1..(n + m) /\ ab[i] = a[i]
    BY <1>1
  <1>4. \A i \in 1..m : n + i \in 1..(n + m) /\ ab[n + i] = b[i]
    BY <1>1
  <1>5. \A i \in 1..(n + m) : i \in 1..n \/ (i - n \in 1..m /\ n + (i - n) = i)
    BY <1>1
  <1>6. \A i \in 1..(n + m) : (i \in 1..n /\ ab[i] = a[i]) \/ (i - n \in 1..m /\ ab[i] = b[i - n])
    BY <1>3, <1>4, <1>5
  <1>7. Range(ab) = Range(a) \cup Range(b)
    BY <1>2, <1>3, <1>4, <1>6
  <1>8. Codes(ab) = Codes(a) \cup Codes(b)
    BY <1>2, <1>3, <1>4, <1>6
  <1>9. QED
    BY <1>1, <1>7, <1>8 DEF ab

\* Nothing is in the merge that was in neither, and nothing is replaced in a
\* list with an item that has no code.
LEMMA MergeArraysFacts ==
    ASSUME NEW S, NEW base \in Seq(S), NEW over \in Seq(S)
    PROVE  LET merged == MergeArrays(base, over)
               codes == Codes(base) \cup Codes(over)
           IN /\ merged \in Seq(S)
              /\ Codes(merged) \subseteq codes
              /\ NoCode \in codes => merged = base \o over /\ Codes(merged) = codes
  <1> DEFINE both == base \o over
             codes == Codes(base) \cup Codes(over)
             merged == MergeArrays(base, over)
  <1>1. both \in Seq(S) /\ Codes(both) = codes /\ Range(both) = Range(base) \cup Range(over)
    BY CodesJoined
  <1>2. merged = IF Keyed(both) THEN PutAll(base, over, "code") ELSE both
    BY DEF MergeArrays
  <1>3. PutAll(base, over, "code") \in Seq(S) /\ PutAll(base, over, "code") \in Seq(Range(both))
    <2>1. Len(over) \in Nat
      OBVIOUS
    <2>2. ASSUME NEW V, base \in Seq(V), over \in Seq(V)
          PROVE  PutAll(base, over, "code") \in Seq(V)
      <3>1. PICK put : IsPutAll(put, V, base, over, "code")
        BY <2>2, PutAllFacts
      <3>2. QED
        BY <2>1, <3>1 DEF IsPutAll
    <2>3. base \in Seq(Range(both)) /\ over \in Seq(Range(both))
      <3>1. base \in Seq(Range(base)) /\ over \in Seq(Range(over))
        BY CodeFacts
      <3> HIDE DEF both
      <3>2. QED
        BY <1>1, <3>1
    <2>4. QED
      BY <2>2, <2>3
  <1>4. CASE Keyed(both)
    <2>1. merged \in Seq(Range(both))
      BY <1>2, <1>3, <1>4
    <2>2. Codes(merged) \subseteq codes
      <3> HIDE DEF merged, both, codes
      <3>1. \A i \in 1..Len(merged) : \E j \in 1..Len(both) : merged[i] = both[j]
        <4>1. Range(both) = {both[j] : j \in 1..Len(both)}
          BY <1>1, CodeFacts
        <4>2. QED
          BY <2>1, <4>1
      <3>2. \A c \in Codes(merged) : \E i \in 1..Len(merged) : merged[i].code = c
        BY <2>1, CodeFacts
      <3>3. \A j \in 1..Len(both) : both[j].code \in Codes(both)
        BY <1>1, CodeFacts
      <3>4. QED
        BY <1>1, <3>1, <3>2, <3>3
    <2>3. NoCode \notin codes
      BY <1>1, <1>4 DEF Keyed
    <2>4. QED
      BY <1>2, <1>3, <1>4, <2>2, <2>3
  <1>5. CASE ~Keyed(both)
    BY <1>1, <1>2, <1>5
  <1>6. QED
    BY <1>4, <1>5

LEMMA MergePrefix ==
    ASSUME NEW S, NEW list, NEW all \in Seq(S), NEW more \in Seq(S), MergeOf(list, all, Len(all))
    PROVE  MergeOf(list, all \o more, Len(all))
  <1> DEFINE ab == all \o more
  <1>1. \A p \in 1..Len(all) : ab[p] = all[p]
    <2>1. /\ Len(all) \in Nat /\ Len(more) \in Nat
          /\ \A i \in 1..(Len(all) + Len(more)) : ab[i] = IF i <= Len(all) THEN all[i] ELSE more[i - Len(all)]
      BY ConcatProperties
    <2>2. QED
      BY <2>1
  <1> HIDE DEF ab
  <1> DEFINE k == Len(all)
  <1>2. /\ \A i \in 1..Len(list) : \E p \in 1..k :
             list[i] = all[p] /\ \A q \in 1..k : all[q].code = all[p].code => q <= p
        /\ \A p \in 1..k : \E i \in 1..Len(list) : list[i].code = all[p].code
        /\ \A i, j \in 1..Len(list) : i < j =>
             \E p \in 1..k : all[p].code = list[i].code /\ \A q \in 1..k : all[q].code = list[j].code => p < q
    BY DEF MergeOf
  <1> HIDE DEF k
  <1>3. /\ \A i \in 1..Len(list) : \E p \in 1..k :
             list[i] = ab[p] /\ \A q \in 1..k : ab[q].code = ab[p].code => q <= p
        /\ \A p \in 1..k : \E i \in 1..Len(list) : list[i].code = ab[p].code
        /\ \A i, j \in 1..Len(list) : i < j =>
             \E p \in 1..k : ab[p].code = list[i].code /\ \A q \in 1..k : ab[q].code = list[j].code => p < q
    <2>0. \A p \in 1..k : ab[p] = all[p]
      BY <1>1 DEF k
    <2>1. ASSUME NEW i \in 1..Len(list)
          PROVE  \E p \in 1..k : list[i] = ab[p] /\ \A q \in 1..k : ab[q].code = ab[p].code => q <= p
      <3>1. PICK p \in 1..k : list[i] = all[p] /\ \A q \in 1..k : all[q].code = all[p].code => q <= p
        BY <1>2
      <3>2. QED
        BY <2>0, <3>1
    <2>2. \A p \in 1..k : \E i \in 1..Len(list) : list[i].code = ab[p].code
      BY <1>2, <2>0
    <2>3. ASSUME NEW i \in 1..Len(list), NEW j \in 1..Len(list), i < j
          PROVE  \E p \in 1..k : ab[p].code = list[i].code /\ \A q \in 1..k : ab[q].code = list[j].code => p < q
      <3>1. PICK p \in 1..k : all[p].code = list[i].code /\ \A q \in 1..k : all[q].code = list[j].code => p < q
        BY <1>2, <2>3
      <3>2. QED
        BY <2>0, <3>1
    <2>4. QED
      BY <2>1, <2>2, <2>3
  <1>4. QED
    BY <1>3 DEF MergeOf, ab, k

LEMMA MergeArraysMerges ==
    ASSUME NEW S, NEW all \in Seq(S), NEW base \in Seq(S), NEW over \in Seq(S),
           MergeOf(base, all, Len(all)), Codes(base) = Codes(all), NoCode \notin Codes(all) \cup Codes(over)
    PROVE  MergeOf(MergeArrays(base, over), all \o over, Len(all \o over))
  <1> DEFINE m == Len(all)
             n == Len(over)
             whole == all \o over
  <1>1. /\ whole \in Seq(S) /\ Len(whole) = m + n /\ m \in Nat /\ n \in Nat
        /\ \A i \in 1..(m + n) : whole[i] = IF i <= m THEN all[i] ELSE over[i - m]
    BY ConcatProperties
  <1>2. MergeOf(base, whole, m)
    BY MergePrefix
  <1> HIDE DEF whole
  <1>3. base \o over \in Seq(S) /\ NoCode \notin Codes(base \o over)
    BY CodesJoined
  <1>4. CASE base \o over = <<>>
    <2>1. over = <<>> /\ base = <<>> /\ n = 0
      BY <1>4
    <2>2. MergeArrays(base, over) = base
      BY <1>4, <2>1 DEF MergeArrays, Keyed
    <2>3. QED
      BY <1>1, <1>2, <2>1, <2>2 DEF whole
  <1>5. CASE base \o over # <<>>
    <2>1. MergeArrays(base, over) = PutAll(base, over, "code")
      BY <1>3, <1>5 DEF MergeArrays, Keyed
    <2>2. PICK put : IsPutAll(put, S, base, over, "code")
      BY PutAllFacts
    <2>3. /\ put[0] = base /\ put[n] = PutAll(base, over, "code")
          /\ \A i \in 1..n : put[i] = Put(put[i-1], over[i], "code")
          /\ \A i \in 0..n : put[i] \in Seq(S)
      BY <2>2 DEF IsPutAll
    <2> DEFINE U == {i \in 0..n : MergeOf(put[i], whole, m + i)}
    <2>4. 0 \in U
      <3>1. m + 0 = m /\ 0 \in 0..n
        BY <1>1
      <3>2. QED
        BY <1>2, <2>3, <3>1
    <2>5. ASSUME NEW i \in 1..n, i - 1 \in U
          PROVE  i \in U
      <3>1. /\ m + (i - 1) \in Nat /\ (m + (i - 1)) + 1 = m + i /\ m + i <= Len(whole) /\ i \in 0..n /\ i - 1 \in 0..n
            /\ whole[m + i] = over[i]
        BY <1>1
      <3>2. MergeOf(put[i - 1], whole, m + (i - 1)) /\ put[i - 1] \in Seq(S)
        BY <2>3, <2>5, <3>1
      <3>3. MergeOf(Put(put[i - 1], whole[(m + (i - 1)) + 1], "code"), whole, (m + (i - 1)) + 1)
        BY <1>1, <3>1, <3>2, PutMerges
      <3>4. QED
        BY <2>3, <3>1, <3>3
    <2>6. 0..n \subseteq U
      <3> HIDE DEF U
      <3>1. QED
        BY <1>1, <2>4, <2>5, UpTo
    <2>7. n \in U
      BY <1>1, <2>6
    <2>8. QED
      BY <1>1, <2>1, <2>3, <2>7 DEF whole
  <1>6. QED
    BY <1>4, <1>5

\* Whoever was there before stays in place.
LEMMA CodesStand ==
    ASSUME NEW S, NEW base \in Seq(S), NEW over \in Seq(S)
    PROVE  LET merged == MergeArrays(base, over)
           IN Len(merged) >= Len(base) /\ \A i \in 1..Len(base) : merged[i].code = base[i].code
  <1> DEFINE n == Len(over)
             b == Len(base)
             Stands(list) == Len(list) >= b /\ \A i \in 1..b : list[i].code = base[i].code
  <1>0. n \in Nat /\ b \in Nat /\ \A i \in 1..n : over[i] \in S
    OBVIOUS
  <1>1. Stands(base \o over)
    <2>1. /\ Len(base \o over) = b + n
          /\ \A i \in 1..(b + n) : (base \o over)[i] = IF i <= b THEN base[i] ELSE over[i - b]
      BY ConcatProperties
    <2>2. QED
      BY <1>0, <2>1
  <1>2. Stands(PutAll(base, over, "code"))
    <2>0. PICK put : IsPutAll(put, S, base, over, "code")
      BY PutAllFacts
    <2>1. /\ put[0] = base /\ put[n] = PutAll(base, over, "code")
          /\ \A i \in 1..n : put[i] = Put(put[i-1], over[i], "code")
          /\ \A i \in 0..n : put[i] \in Seq(S)
      BY <2>0 DEF IsPutAll
    <2> DEFINE U == {i \in 0..n : Stands(put[i])}
    <2>2. 0 \in U
      BY <1>0, <2>1
    <2>3. ASSUME NEW i \in 1..n, i - 1 \in U
          PROVE  i \in U
      <3> DEFINE old == put[i-1]
                 new == put[i]
                 item == over[i]
      <3>1. i - 1 \in 0..n /\ i \in 0..n /\ old \in Seq(S) /\ item \in S /\ Stands(old) /\ new = Put(old, item, "code")
        BY <1>0, <2>1, <2>3
      <3> HIDE DEF old, new, item, n, b
      <3>2. PICK at : PutsAt(old, item, "code", new, at)
        BY <3>1, PutFacts
      <3>3. Len(old) \in Nat
        BY <3>1
      <3>4. Len(new) >= Len(old) /\ \A k \in 1..Len(old) : new[k].code = old[k].code
        BY <3>2, <3>3 DEF PutsAt
      <3>5. Len(new) \in Nat
        BY <3>2, <3>3 DEF PutsAt
      <3>6. Len(new) >= b /\ \A k \in 1..b : k \in 1..Len(old)
        BY <1>0, <3>1, <3>3, <3>4, <3>5
      <3>7. Stands(new)
        BY <3>1, <3>4, <3>6
      <3>8. QED
        BY <3>1, <3>7 DEF new
    <2>4. 0..n \subseteq U
      <3> HIDE DEF U, n
      <3>1. QED
        BY <1>0, <2>2, <2>3, UpTo
    <2>5. n \in U
      BY <1>0, <2>4
    <2>6. QED
      BY <2>1, <2>5
  <1>3. QED
    <2> HIDE DEF n, b, Stands
    <2>1. Stands(MergeArrays(base, over))
      BY <1>1, <1>2 DEF MergeArrays
    <2>2. QED
      BY <2>1 DEF Stands, b

\* The members of a list that are in a set, in the order of the list.
OnlyOf(chosen, s, X, k) ==
    /\ Range(chosen) = {s[i] : i \in {h \in 1..k : s[h] \in X}}
    /\ \A a, b \in 1..Len(chosen) : a < b => \E i, j \in 1..k : i < j /\ chosen[a] = s[i] /\ chosen[b] = s[j]

OnlyBy(f, s, X) ==
    /\ Only(s, X) = f[Len(s)] /\ f[0] = <<>>
    /\ \A i \in 1..Len(s) : f[i] = IF s[i] \in X THEN Append(f[i-1], s[i]) ELSE f[i-1]

LEMMA OnlySteps ==
    ASSUME NEW S, NEW s \in Seq(S), NEW X
    PROVE  \E f : OnlyBy(f, s, X)
  <1> DEFINE n == Len(s)
             V == Seq(S)
             F == [ix \in (1..n) \X V |-> IF s[ix[1]] \in X THEN Append(ix[2], s[ix[1]]) ELSE ix[2]]
             Is(f) == f = [i \in 0..n |-> IF i = 0 THEN <<>>
                                          ELSE IF s[i] \in X THEN Append(f[i-1], s[i]) ELSE f[i-1]]
             chosen == CHOOSE f : f = [i \in 0..n |-> IF i = 0 THEN <<>>
                                          ELSE IF s[i] \in X THEN Append(f[i-1], s[i]) ELSE f[i-1]]
  <1>1. n \in Nat /\ (\A i \in 1..n : s[i] \in S) /\ <<>> \in V
    OBVIOUS
  <1>2. \A i \in 1..n, x \in V : F[<<i, x>>] = (IF s[i] \in X THEN Append(x, s[i]) ELSE x) /\ F[<<i, x>>] \in V
    <2>1. \A i \in 1..n, x \in V : F[<<i, x>>] = (IF s[i] \in X THEN Append(x, s[i]) ELSE x)
      <3> HIDE DEF V, n
      <3>1. QED
        OBVIOUS
    <2>2. \A i \in 1..n, x \in V : Append(x, s[i]) \in V
      BY <1>1
    <2> HIDE DEF F, n, V
    <2>3. QED
      BY <2>1, <2>2
  <1> HIDE DEF F
  <1>3. \E f : IsPath(f, <<>>, F, n) /\ \A i \in 0..n : f[i] \in V
    <2> HIDE DEF n, V
    <2>1. QED
      BY <1>1, <1>2, PathExists
  <1>4. PICK f : IsPath(f, <<>>, F, n) /\ \A i \in 0..n : f[i] \in V
    BY <1>3
  <1>5. Is(f)
    <2> HIDE DEF n, V
    <2>1. f = [i \in 0..n |-> IF i = 0 THEN <<>> ELSE F[<<i, f[i-1]>>]]
      BY <1>4 DEF IsPath
    <2>2. \A i \in 0..n : i # 0 => i \in 1..n /\ i - 1 \in 0..n
      BY <1>1
    <2>3. \A i \in 0..n : (IF i = 0 THEN <<>> ELSE F[<<i, f[i-1]>>])
                          = IF i = 0 THEN <<>> ELSE IF s[i] \in X THEN Append(f[i-1], s[i]) ELSE f[i-1]
      BY <1>2, <1>4, <2>2
    <2>4. [i \in 0..n |-> IF i = 0 THEN <<>> ELSE F[<<i, f[i-1]>>]]
            = [i \in 0..n |-> IF i = 0 THEN <<>> ELSE IF s[i] \in X THEN Append(f[i-1], s[i]) ELSE f[i-1]]
      BY <2>3
    <2>5. QED
      BY <2>1, <2>4
  <1>6. Is(chosen)
    <2> HIDE DEF n, V
    <2>1. QED
      BY <1>5
  <1>7. Only(s, X) = chosen[n]
    BY DEF Only
  <1> HIDE DEF chosen
  <1>8. chosen[0] = <<>> /\ \A i \in 1..n : chosen[i] = IF s[i] \in X THEN Append(chosen[i-1], s[i]) ELSE chosen[i-1]
    <2> HIDE DEF n, V
    <2>1. \A i \in 0..n : chosen[i] = IF i = 0 THEN <<>>
                                    ELSE IF s[i] \in X THEN Append(chosen[i-1], s[i]) ELSE chosen[i-1]
      BY <1>6
    <2>2. 0 \in 0..n /\ \A i \in 1..n : i \in 0..n /\ i # 0
      BY <1>1
    <2>3. QED
      BY <2>1, <2>2
  <1>9. QED
    BY <1>7, <1>8 DEF OnlyBy

LEMMA OnlyFacts ==
    ASSUME NEW S, NEW s \in Seq(S), NEW X
    PROVE  Only(s, X) \in Seq(S) /\ OnlyOf(Only(s, X), s, X, Len(s))
  <1> DEFINE n == Len(s)
  <1>1. n \in Nat /\ \A i \in 1..n : s[i] \in S
    OBVIOUS
  <1>2. PICK chosen : OnlyBy(chosen, s, X)
    BY OnlySteps
  <1>3. Only(s, X) = chosen[n]
    BY <1>2 DEF OnlyBy
  <1>4. chosen[0] = <<>> /\ \A i \in 1..n : chosen[i] = IF s[i] \in X THEN Append(chosen[i-1], s[i]) ELSE chosen[i-1]
    BY <1>2 DEF OnlyBy
  <1> DEFINE U == {i \in 0..n : chosen[i] \in Seq(S) /\ OnlyOf(chosen[i], s, X, i)}
  <1>5. 0 \in U
    <2>1. 0 \in 0..n
      BY <1>1
    <2>2. /\ Range(<<>>) = {s[i] : i \in {h \in 1..0 : s[h] \in X}}
          /\ \A a \in 1..Len(<<>>) : FALSE
      BY DEF Range
    <2>3. OnlyOf(<<>>, s, X, 0)
      BY <2>2 DEF OnlyOf
    <2>4. chosen[0] = <<>> /\ <<>> \in Seq(S)
      BY <1>4
    <2>5. chosen[0] \in Seq(S) /\ OnlyOf(chosen[0], s, X, 0)
      BY ONLY <2>3, <2>4
    <2>6. QED
      BY <2>1, <2>5
  <1>6. ASSUME NEW i \in 1..n, i - 1 \in U
         PROVE  i \in U
    <2> DEFINE old == chosen[i-1]
               new == chosen[i]
    <2>1. i - 1 \in 0..n /\ i \in 0..n /\ old \in Seq(S) /\ OnlyOf(old, s, X, i - 1) /\ s[i] \in S
      BY <1>1, <1>6
    <2>2. new = IF s[i] \in X THEN Append(old, s[i]) ELSE old
      BY <1>4
    <2> HIDE DEF old, new, n
    <2>3. \A h \in 1..i : h \in 1..(i - 1) \/ h = i
      BY <2>1
    <2>4. \A h \in 1..(i - 1) : h \in 1..i /\ h < i
      BY <2>1
    <2>5. /\ Range(old) = {s[j] : j \in {h \in 1..(i - 1) : s[h] \in X}}
          /\ \A a, b \in 1..Len(old) : a < b => \E k, j \in 1..(i - 1) : k < j /\ old[a] = s[k] /\ old[b] = s[j]
      BY <2>1 DEF OnlyOf
    <2>6. CASE s[i] \notin X
      <3>1. {s[j] : j \in {h \in 1..(i - 1) : s[h] \in X}} = {s[j] : j \in {h \in 1..i : s[h] \in X}}
        BY <2>3, <2>4, <2>6
      <3>2. OnlyOf(old, s, X, i)
        <4>1. ASSUME NEW a \in 1..Len(old), NEW b \in 1..Len(old), a < b
              PROVE  \E k, j \in 1..i : k < j /\ old[a] = s[k] /\ old[b] = s[j]
          <5>1. PICK k \in 1..(i - 1), j \in 1..(i - 1) : k < j /\ old[a] = s[k] /\ old[b] = s[j]
            BY <2>5, <4>1
          <5>2. QED
            BY <2>4, <5>1
        <4>2. QED
          BY <2>5, <3>1, <4>1 DEF OnlyOf
      <3>3. QED
        BY <2>1, <2>2, <2>6, <3>2 DEF new
    <2>7. CASE s[i] \in X
      <3>1. /\ new \in Seq(S) /\ Len(new) = Len(old) + 1 /\ Len(old) \in Nat
            /\ \A a \in 1..Len(old) : new[a] = old[a]
            /\ new[Len(old) + 1] = s[i]
        BY <2>1, <2>2, <2>7, AppendProperties
      <3>2. Range(new) = Range(old) \cup {s[i]}
        <4>1. Range(new) = {new[a] : a \in 1..Len(new)} /\ Range(old) = {old[a] : a \in 1..Len(old)}
          BY <2>1, <3>1 DEF Range
        <4>2. \A a \in 1..Len(new) : a \in 1..Len(old) \/ a = Len(old) + 1
          BY <3>1
        <4>3. \A a \in 1..Len(old) : a \in 1..Len(new)
          BY <3>1
        <4>4. Len(old) + 1 \in 1..Len(new)
          BY <3>1
        <4>5. QED
          BY <3>1, <4>1, <4>2, <4>3, <4>4
      <3>3. i \in 1..i
        BY <2>1
      <3>4. {s[j] : j \in {h \in 1..(i - 1) : s[h] \in X}} \cup {s[i]} = {s[j] : j \in {h \in 1..i : s[h] \in X}}
        BY <2>3, <2>4, <2>7, <3>3
      <3>5. ASSUME NEW a \in 1..Len(new), NEW b \in 1..Len(new), a < b
            PROVE  \E k, j \in 1..i : k < j /\ new[a] = s[k] /\ new[b] = s[j]
        <4>1. a \in 1..Len(old) /\ new[a] = old[a]
          BY <3>1, <3>5
        <4>2. CASE b = Len(old) + 1
          <5>1. PICK k \in 1..(i - 1) : old[a] = s[k]
            <6>1. old[a] \in Range(old)
              BY <2>1, <4>1 DEF Range
            <6>2. QED
              BY <2>5, <6>1
          <5>2. k \in 1..i /\ k < i /\ new[a] = s[k] /\ new[b] = s[i]
            BY <2>4, <3>1, <4>1, <4>2, <5>1
          <5>3. QED
            BY <3>3, <5>2
        <4>3. CASE b # Len(old) + 1
          <5>1. b \in 1..Len(old) /\ new[b] = old[b]
            BY <3>1, <4>3
          <5>2. PICK k \in 1..(i - 1), j \in 1..(i - 1) : k < j /\ old[a] = s[k] /\ old[b] = s[j]
            BY <2>5, <3>5, <4>1, <5>1
          <5>3. QED
            BY <2>4, <4>1, <5>1, <5>2
        <4>4. QED
          BY <4>2, <4>3
      <3>6. OnlyOf(new, s, X, i)
        BY <2>5, <3>2, <3>4, <3>5 DEF OnlyOf
      <3>7. QED
        BY <2>1, <3>1, <3>6 DEF new
    <2>8. QED
      BY <2>6, <2>7
  <1>7. 0..n \subseteq U
    <2> HIDE DEF U, n
    <2>1. QED
      BY <1>1, <1>5, <1>6, UpTo
  <1>8. n \in U
    BY <1>1, <1>7
  <1>9. QED
    BY <1>3, <1>8

LEMMA FirstAtFacts ==
    ASSUME NEW S, NEW items \in Seq(S), NEW c \in Codes(items)
    PROVE  /\ FirstAt(items, c) \in 1..Len(items) /\ items[FirstAt(items, c)].code = c
           /\ \A i \in 1..Len(items) : items[i].code = c => FirstAt(items, c) <= i
  <1> DEFINE I == {i \in 1..Len(items) : items[i].code = c}
  <1>1. FirstAt(items, c) = IF I # {} THEN Min(I) ELSE 0
    BY DEF FirstAt, SelectInSeq
  <1>2. I \subseteq Nat /\ I # {}
    <2>1. \E i \in 1..Len(items) : items[i].code = c
      BY CodeFacts
    <2>2. QED
      BY <2>1
  <1>3. FirstAt(items, c) \in I /\ \A i \in I : FirstAt(items, c) <= i
    <2> HIDE DEF I
    <2>1. QED
      BY <1>1, <1>2, MinFacts
  <1>4. QED
    BY <1>3

LEMMA LastOfFacts ==
    ASSUME NEW S, NEW items \in Seq(S), NEW p \in 1..Len(items),
           \A q \in 1..Len(items) : items[q].code = items[p].code => q <= p
    PROVE  LastOf(items, items[p].code) = items[p]
  <1> DEFINE c == items[p].code
             at == LastWith(items, "code", c)
  <1>1. \/ at = 0 /\ \A i \in 1..Len(items) : items[i].code # c
        \/ /\ at \in 1..Len(items) /\ items[at].code = c
           /\ \A i \in 1..Len(items) : i > at => items[i].code # c
    BY LastWithFacts
  <1> HIDE DEF at
  <1>2. at \in 1..Len(items) /\ at <= p /\ ~(p > at)
    BY <1>1
  <1>3. at = p
    BY <1>2
  <1>4. QED
    BY <1>3 DEF LastOf, at

LEMMA DistinctLen ==
    ASSUME NEW S, NEW list \in Seq(S), \A i, j \in 1..Len(list) : i < j => list[i].code # list[j].code
    PROVE  Cardinality(Codes(list)) = Len(list)
  <1> DEFINE n == Len(list)
             F == [i \in 1..n |-> list[i].code]
  <1>1. n \in Nat /\ Codes(list) = {list[i].code : i \in 1..n}
    BY CodeFacts
  <1>2. \A i, j \in 1..n : list[i].code = list[j].code => i = j
    BY <1>1
  <1> HIDE DEF n
  <1>3. F \in [1..n -> Codes(list)] /\ \A i \in 1..n : F[i] = list[i].code
    BY <1>1
  <1> HIDE DEF F
  <1>4. F \in Injection(1..n, Codes(list))
    BY <1>2, <1>3 DEF Injection, IsInjective
  <1>5. F \in Surjection(1..n, Codes(list))
    BY <1>1, <1>3 DEF Surjection
  <1>6. ExistsBijection(1..n, Codes(list))
    BY <1>4, <1>5 DEF ExistsBijection, Bijection
  <1>7. IsFiniteSet(1..n) /\ Cardinality(1..n) = n
    BY <1>1, FS_Interval
  <1>8. QED
    BY <1>6, <1>7, FS_Bijection DEF n

\* What a merge of all items is.
LEMMA MergesFacts ==
    ASSUME NEW S, NEW all \in Seq(S), NEW list \in Seq(S), MergeOf(list, all, Len(all))
    PROVE  /\ Codes(list) = Codes(all) /\ Cardinality(Codes(list)) = Len(list)
           /\ Range(list) = {LastOf(all, c) : c \in Codes(all)}
           /\ \A c \in Codes(all) : LastOf(all, c).code = c
           /\ \A i, j \in 1..Len(list) : i < j => FirstAt(all, list[i].code) < FirstAt(all, list[j].code)
  <1> DEFINE k == Len(all)
             n == Len(list)
  <1>1. /\ k \in Nat /\ n \in Nat
        /\ \A c : c \in Codes(all) <=> \E i \in 1..k : all[i].code = c
        /\ \A c : c \in Codes(list) <=> \E i \in 1..n : list[i].code = c
        /\ Range(list) = {list[i] : i \in 1..n}
    <2>1. ASSUME NEW s \in Seq(S)
          PROVE  /\ Len(s) \in Nat /\ \A c : c \in Codes(s) <=> \E i \in 1..Len(s) : s[i].code = c
                 /\ Range(s) = {s[i] : i \in 1..Len(s)}
      BY ONLY <2>1, CodeFacts
    <2>2. QED
      BY <2>1
  <1>2. /\ \A i \in 1..n : \E p \in 1..k :
             list[i] = all[p] /\ \A q \in 1..k : all[q].code = all[p].code => q <= p
        /\ \A p \in 1..k : \E i \in 1..n : list[i].code = all[p].code
        /\ \A i, j \in 1..n : i < j =>
             \E p \in 1..k : all[p].code = list[i].code /\ \A q \in 1..k : all[q].code = list[j].code => p < q
    BY DEF MergeOf
  <1>3. ASSUME NEW i \in 1..n
        PROVE  list[i].code \in Codes(all) /\ LastOf(all, list[i].code) = list[i]
    <2>1. PICK p \in 1..k : list[i] = all[p] /\ \A q \in 1..k : all[q].code = all[p].code => q <= p
      BY <1>2
    <2>2. LastOf(all, all[p].code) = all[p]
      BY <2>1, LastOfFacts
    <2>3. QED
      BY <1>1, <2>1, <2>2
  <1> HIDE DEF k, n
  <1>4. ASSUME NEW c \in Codes(all)
        PROVE  \E i \in 1..n : list[i].code = c
    BY <1>1, <1>2
  <1>5. Codes(list) = Codes(all)
    BY <1>1, <1>3, <1>4
  <1>6. Range(list) = {LastOf(all, c) : c \in Codes(all)}
    BY <1>1, <1>3, <1>4
  <1>7. \A c \in Codes(all) : LastOf(all, c).code = c
    BY <1>3, <1>4
  <1>8. ASSUME NEW i \in 1..n, NEW j \in 1..n, i < j
        PROVE  FirstAt(all, list[i].code) < FirstAt(all, list[j].code)
    <2>1. PICK p \in 1..k : all[p].code = list[i].code /\ \A q \in 1..k : all[q].code = list[j].code => p < q
      BY <1>2, <1>8
    <2>2. FirstAt(all, list[i].code) \in 1..k /\ FirstAt(all, list[i].code) <= p
      BY <1>3, <2>1, FirstAtFacts DEF k
    <2>3. FirstAt(all, list[j].code) \in 1..k /\ all[FirstAt(all, list[j].code)].code = list[j].code
      BY <1>3, FirstAtFacts DEF k
    <2>4. QED
      BY <1>1, <2>1, <2>2, <2>3
  <1>9. ASSUME NEW i \in 1..n, NEW j \in 1..n, i < j
        PROVE  list[i].code # list[j].code
    BY <1>2, <1>9
  <1>10. Cardinality(Codes(list)) = n
    BY <1>9, DistinctLen DEF n
  <1>11. QED
    BY <1>5, <1>6, <1>7, <1>8, <1>10 DEF n

\* A list stands for all items merged so far: it has a bad item if they have
\* one, and is their merge if each has a code.
StandsFor(list, all) ==
    /\ Codes(list) \subseteq Codes(all)
    /\ NoCode \in Codes(list) <=> NoCode \in Codes(all)
    /\ NoCode \notin Codes(all) => MergeOf(list, all, Len(all))

LEMMA DistinctStandsFor ==
    ASSUME NEW S, NEW all \in Seq(S), \A i, j \in 1..Len(all) : all[i].code = all[j].code => i = j
    PROVE  StandsFor(all, all)
  <1>1. ASSUME NEW i \in 1..Len(all), NEW q \in 1..Len(all), all[q].code = all[i].code
        PROVE  q <= i
    BY <1>1
  <1>2. ASSUME NEW i \in 1..Len(all), NEW j \in 1..Len(all), i < j, NEW q \in 1..Len(all), all[q].code = all[j].code
        PROVE  i < q
    BY <1>2
  <1>3. MergeOf(all, all, Len(all))
    BY <1>1, <1>2 DEF MergeOf
  <1>4. QED
    BY <1>3 DEF StandsFor

LEMMA MergeStandsFor ==
    ASSUME NEW S, NEW list \in Seq(S), NEW all \in Seq(S), NEW over \in Seq(S), StandsFor(list, all)
    PROVE  /\ MergeArrays(list, over) \in Seq(S) /\ all \o over \in Seq(S)
           /\ StandsFor(MergeArrays(list, over), all \o over)
  <1> DEFINE merged == MergeArrays(list, over)
             codes == Codes(list) \cup Codes(over)
  <1>1. merged \in Seq(S) /\ Codes(merged) \subseteq codes /\ (NoCode \in codes => Codes(merged) = codes)
    BY MergeArraysFacts
  <1>2. all \o over \in Seq(S) /\ Codes(all \o over) = Codes(all) \cup Codes(over)
    BY CodesJoined
  <1>3. NoCode \in Codes(merged) <=> NoCode \in Codes(all \o over)
    BY <1>1, <1>2 DEF StandsFor
  <1>4. ASSUME NoCode \notin Codes(all \o over)
        PROVE  MergeOf(merged, all \o over, Len(all \o over))
    <2>1. MergeOf(list, all, Len(all)) /\ NoCode \notin Codes(all) \cup Codes(over)
      BY <1>2, <1>4 DEF StandsFor
    <2>2. Codes(list) = Codes(all)
      BY <2>1, MergesFacts
    <2>3. QED
      BY <2>1, <2>2, MergeArraysMerges
  <1>5. QED
    BY <1>1, <1>2, <1>3, <1>4 DEF StandsFor

-----------------------------------------------------------------------------
(* The layers of a project: the skill's own file is as it was shipped.     *)

LayersHold ==
    /\ layers["base"] = [state |-> "there", items |-> Base]
    /\ DOMAIN layers = {"base", "team", "user"}
    /\ \A l \in Edited : IsItems(layers[l].items) /\ {"state", "items"} \subseteq DOMAIN layers[l]

LEMMA LayerFacts ==
    /\ Range(LayerNames) = {"base", "team", "user"} /\ Len(LayerNames) = 3 /\ DOMAIN LayerNames = 1..3
    /\ LayerNames[1] = "base" /\ LayerNames[2] = "team" /\ LayerNames[3] = "user"
  <1>1. Len(LayerNames) = 3 /\ DOMAIN LayerNames = 1..3
        /\ LayerNames[1] = "base" /\ LayerNames[2] = "team" /\ LayerNames[3] = "user"
    BY DEF LayerNames
  <1>2. Range(LayerNames) = {LayerNames[i] : i \in 1..3}
    BY <1>1 DEF Range
  <1>3. \A i \in 1..3 : i = 1 \/ i = 2 \/ i = 3
    OBVIOUS
  <1>4. 1 \in 1..3 /\ 2 \in 1..3 /\ 3 \in 1..3
    OBVIOUS
  <1>5. Range(LayerNames) = {"base", "team", "user"}
    <2> HIDE DEF LayerNames
    <2>1. QED
      BY <1>1, <1>2, <1>3, <1>4
  <1>6. QED
    BY <1>1, <1>5

LEMMA ItemsAppend ==
    ASSUME NEW items, IsItems(items), NEW m, IsItem(m)
    PROVE  IsItems(Append(items, m))
  <1> DEFINE S == Range(items) \cup {m}
             new == Append(items, m)
  <1>1. items \in Seq(Range(items)) /\ \A i \in DOMAIN items : IsItem(items[i])
    BY DEF IsItems
  <1>2. items \in Seq(S) /\ m \in S
    BY <1>1
  <1>3. /\ new \in Seq(S) /\ Len(new) = Len(items) + 1 /\ Len(items) \in Nat
        /\ \A i \in 1..Len(items) : new[i] = items[i]
        /\ new[Len(items) + 1] = m
    BY <1>2, AppendProperties
  <1> HIDE DEF S, new
  <1>4. DOMAIN items = 1..Len(items) /\ DOMAIN new = 1..(Len(items) + 1)
    BY <1>2, <1>3
  <1>5. \A i \in DOMAIN new : IsItem(new[i])
    BY <1>1, <1>3, <1>4
  <1>6. new \in Seq(Range(new))
    BY <1>3, CodeFacts
  <1>7. QED
    BY <1>5, <1>6 DEF IsItems, new

LEMMA LayersInit == CustomInit => LayersHold
  <1> SUFFICES ASSUME CustomInit
               PROVE  LayersHold
    OBVIOUS
  <1>1. layers = [l \in {"base", "team", "user"} |->
                   IF l = "base" THEN [state |-> "there", items |-> Base] ELSE NoLayer]
    BY LayerFacts DEF CustomInit
  <1>2. IsItems(<<>>)
    BY DEF IsItems, Range
  <1>3. QED
    BY <1>1, <1>2 DEF LayersHold, Edited, NoLayer

LEMMA LayersStep == LayersHold /\ [CustomNext]_customVars => LayersHold'
  <1> SUFFICES ASSUME LayersHold, [CustomNext]_customVars
               PROVE  LayersHold'
    OBVIOUS
  <1>0. /\ layers["base"] = [state |-> "there", items |-> Base] /\ DOMAIN layers = {"base", "team", "user"}
        /\ \A l \in Edited : IsItems(layers[l].items) /\ {"state", "items"} \subseteq DOMAIN layers[l]
        /\ Edited = {"team", "user"}
    BY DEF LayersHold, Edited
  <1>1. ASSUME NEW l \in Edited, NEW x, layers' = [layers EXCEPT ![l] = x],
               IsItems(x.items), {"state", "items"} \subseteq DOMAIN x
        PROVE  LayersHold'
    <2>1. l \in DOMAIN layers /\ l # "base"
      BY <1>0
    <2>2. \A k \in DOMAIN layers : layers'[k] = IF k = l THEN x ELSE layers[k]
      BY <1>1, <2>1
    <2>3. DOMAIN layers' = DOMAIN layers
      BY <1>1
    <2>4. layers'["base"] = layers["base"]
      BY <1>0, <2>1, <2>2
    <2>5. \A k \in Edited : IsItems(layers'[k].items) /\ {"state", "items"} \subseteq DOMAIN layers'[k]
      BY <1>0, <1>1, <2>2
    <2>6. QED
      BY <1>0, <2>3, <2>4, <2>5 DEF LayersHold, Edited
  <1>2. ASSUME layers' = layers
        PROVE  LayersHold'
    BY <1>2 DEF LayersHold, Edited
  <1>3. IsItems(<<>>)
    BY DEF IsItems, Range
  <1>4. ASSUME NEW p \in Range(Roots), NEW n \in Names, Install(p, n) \/ Uninstall(p, n)
        PROVE  LayersHold'
    BY <1>2, <1>4 DEF Install, Uninstall
  <1>5. ASSUME NEW l \in Edited, Break(l)
        PROVE  LayersHold'
    <2> DEFINE x == [state |-> "broken", items |-> <<>>]
    <2>1. layers' = [layers EXCEPT ![l] = x]
      BY <1>5 DEF Break
    <2>2. x.items = <<>> /\ {"state", "items"} \subseteq DOMAIN x
      OBVIOUS
    <2> HIDE DEF x
    <2>3. QED
      BY <1>1, <1>3, <2>1, <2>2
  <1>6. ASSUME NEW l \in Edited, Misspell(l)
        PROVE  LayersHold'
    <2>1. layers' = [layers EXCEPT ![l] = [layers[l] EXCEPT !.state = "stray"]]
      BY <1>6 DEF Misspell
    <2>2. DOMAIN [layers[l] EXCEPT !.state = "stray"] = DOMAIN layers[l]
          /\ [layers[l] EXCEPT !.state = "stray"].items = layers[l].items
      BY <1>0
    <2>3. QED
      BY <1>0, <1>1, <2>1, <2>2
  <1>7. ASSUME NEW l \in Edited, Erase(l)
        PROVE  LayersHold'
    <2>1. layers' = [layers EXCEPT ![l] = NoLayer]
      BY <1>7 DEF Erase
    <2>2. NoLayer.items = <<>> /\ {"state", "items"} \subseteq DOMAIN NoLayer
      BY DEF NoLayer
    <2>3. QED
      BY <1>1, <1>3, <2>1, <2>2
  <1>8. ASSUME NEW l \in Edited, NEW item \in Written, Write(l, item)
        PROVE  LayersHold'
    <2> DEFINE m == [code |-> item.code, name |-> item.name, num |-> item.num, by |-> l]
    <2> DEFINE items == Append(layers[l].items, m)
               x == [state |-> "there", items |-> items]
    <2>1. layers' = [layers EXCEPT ![l] = x]
      BY <1>8 DEF Write
    <2>2. IsItem(m)
      BY CustomizationAssumption DEF CustomizationAssumption, IsItem
    <2>3. IsItems(items)
      <3> HIDE DEF m
      <3>1. QED
        BY <1>0, <2>2, ItemsAppend
    <2> HIDE DEF items
    <2>4. x.items = items /\ {"state", "items"} \subseteq DOMAIN x
      OBVIOUS
    <2> HIDE DEF x
    <2>5. QED
      BY <1>1, <2>1, <2>3, <2>4
  <1>9. ASSUME NEW n \in DOMAIN BaseName, NEW l \in Edited, NEW name \in Nicknames, Rename(n, l, name)
        PROVE  LayersHold'
    BY <1>2, <1>9 DEF Rename
  <1>10. ASSUME NEW info \in Central, Describe(info)
         PROVE  LayersHold'
    BY <1>2, <1>10 DEF Describe
  <1>11. ASSUME NEW group \in OwnGroups, Gather(group)
         PROVE  LayersHold'
    BY <1>2, <1>11 DEF Gather
  <1>12. ASSUME NEW code \in Defaults, Prefer(code)
         PROVE  LayersHold'
    BY <1>2, <1>12 DEF Prefer
  <1>13. CASE UNCHANGED customVars
    BY <1>2, <1>13 DEF customVars
  <1>14. QED
    BY <1>4, <1>5, <1>6, <1>7, <1>8, <1>9, <1>10, <1>11, <1>12, <1>13 DEF CustomNext

LEMMA LastOfJoined ==
    ASSUME NEW S, NEW a \in Seq(S), NEW b \in Seq(S), NEW c \in Codes(a) \cup Codes(b)
    PROVE  LastOf(a \o b, c) \in Range(IF c \in Codes(b) THEN b ELSE a)
  <1> DEFINE n == Len(a)
             m == Len(b)
             ab == a \o b
  <1>1. /\ ab \in Seq(S) /\ Len(ab) = n + m /\ n \in Nat /\ m \in Nat
        /\ \A i \in 1..(n + m) : ab[i] = IF i <= n THEN a[i] ELSE b[i - n]
    BY ConcatProperties
  <1>2. ASSUME NEW s \in Seq(S), c \in Codes(s)
        PROVE  \E p \in 1..Len(s) : s[p].code = c /\ \A i \in 1..Len(s) : i > p => s[i].code # c
    <2>1. \E i \in 1..Len(s) : s[i].code = c
      BY <1>2, CodeFacts
    <2> DEFINE at == LastWith(s, "code", c)
    <2>2. \/ at = 0 /\ \A i \in 1..Len(s) : s[i].code # c
          \/ at \in 1..Len(s) /\ s[at].code = c /\ \A i \in 1..Len(s) : i > at => s[i].code # c
      BY LastWithFacts
    <2> HIDE DEF at
    <2>3. QED
      BY <2>1, <2>2
  <1>3. ASSUME NEW s \in Seq(S)
        PROVE  /\ \A i \in 1..Len(s) : s[i] \in Range(s)
               /\ c \notin Codes(s) => \A i \in 1..Len(s) : s[i].code # c
    <2>1. Range(s) = {s[i] : i \in 1..Len(s)} /\ \A d : d \in Codes(s) <=> \E i \in 1..Len(s) : s[i].code = d
      BY ONLY <1>3, CodeFacts
    <2>2. QED
      BY <2>1
  <1>4. ASSUME NEW p \in 1..(n + m), ab[p].code = c, \A q \in 1..(n + m) : q > p => ab[q].code # c
        PROVE  LastOf(ab, c) = ab[p]
    <2>1. \A q \in 1..Len(ab) : ab[q].code = ab[p].code => q <= p
      BY <1>1, <1>4
    <2>2. ab \in Seq(S) /\ p \in 1..Len(ab)
      BY <1>1
    <2> HIDE DEF ab, n, m
    <2>3. QED
      BY <1>4, <2>1, <2>2, LastOfFacts
  <1> HIDE DEF ab, n, m
  <1>5. CASE c \in Codes(b)
    <2>1. PICK p \in 1..m : b[p].code = c /\ \A i \in 1..m : i > p => b[i].code # c
      BY <1>2, <1>5 DEF m
    <2>2. n + p \in 1..(n + m) /\ ab[n + p] = b[p]
      <3>1. n + p \in 1..(n + m) /\ ~(n + p <= n) /\ (n + p) - n = p
        BY <1>1
      <3>2. QED
        BY <1>1, <3>1
    <2>3. ASSUME NEW q \in 1..(n + m), q > n + p
          PROVE  ab[q].code # c
      <3>1. ab[q] = b[q - n] /\ q - n \in 1..m /\ q - n > p
        BY <1>1, <2>3
      <3>2. QED
        BY <2>1, <3>1
    <2>4. LastOf(ab, c) = b[p]
      BY <1>4, <2>1, <2>2, <2>3
    <2>5. b[p] \in Range(b)
      BY <1>3 DEF m
    <2>6. QED
      BY <1>5, <2>4, <2>5 DEF ab
  <1>6. CASE c \notin Codes(b)
    <2>1. PICK p \in 1..n : a[p].code = c /\ \A i \in 1..n : i > p => a[i].code # c
      BY <1>2, <1>6 DEF n
    <2>2. p \in 1..(n + m) /\ ab[p] = a[p]
      BY <1>1
    <2>3. ASSUME NEW q \in 1..(n + m), q > p
          PROVE  ab[q].code # c
      <3>1. CASE q <= n
        <4>1. q \in 1..n /\ ab[q] = a[q]
          BY <1>1, <3>1
        <4>2. QED
          BY <2>1, <2>3, <4>1
      <3>2. CASE ~(q <= n)
        <4>1. q - n \in 1..m /\ ab[q] = b[q - n]
          BY <1>1, <3>2
        <4>2. QED
          BY <1>3, <1>6, <4>1 DEF m
      <3>3. QED
        BY <3>1, <3>2
    <2>4. LastOf(ab, c) = a[p]
      BY <1>4, <2>1, <2>2, <2>3
    <2>5. a[p] \in Range(a)
      BY <1>3 DEF n
    <2>6. QED
      BY <1>6, <2>4, <2>5 DEF ab
  <1>7. QED
    BY <1>5, <1>6

LEMMA FilesTyped ==
    ASSUME LayersHold
    PROVE  /\ Items(layers, "base") = Base /\ IsItems(Base)
           /\ IsItems(Items(layers, "team")) /\ IsItems(Items(layers, "user"))
  <1>1. IsItems(<<>>)
    BY DEF IsItems, Range
  <1>2. Items(layers, "base") = Base
    BY DEF LayersHold, Items
  <1>3. QED
    BY <1>1, <1>2, CustomizationAssumption DEF CustomizationAssumption, LayersHold, Items, Edited

LEMMA CallTyped ==
    ASSUME NEW call \in Calls
    PROVE  IsItems(call.file) /\ IsItems(SetItems(call))
  <1>1. /\ IsItems(call.file) /\ call.sets \in Seq(Range(call.sets))
        /\ \A i \in DOMAIN call.sets : IsItems(call.sets[i].items)
    BY CustomizationAssumption DEF CustomizationAssumption
  <1>2. IsItems(<<>>)
    BY DEF IsItems, Range
  <1>3. call.sets # <<>> => 1 \in DOMAIN call.sets
    BY <1>1
  <1>4. QED
    BY <1>1, <1>2, <1>3 DEF SetItems

LEMMA BaseDistinct ==
    ASSUME NEW S, Base \in Seq(S)
    PROVE  Base # <<>> /\ \A i, j \in 1..Len(Base) : Base[i].code = Base[j].code => i = j
  <1>1. DOMAIN Base = 1..Len(Base)
    OBVIOUS
  <1>2. QED
    BY <1>1, ShippedAssumption DEF ShippedAssumption

\* The files stand for their items, one after the other.
LEMMA FilesMerge ==
    ASSUME LayersHold, NEW S,
           Base \in Seq(S), Items(layers, "team") \in Seq(S), Items(layers, "user") \in Seq(S)
    PROVE  /\ TwoMerged(layers) \in Seq(S) /\ Base \o Items(layers, "team") \in Seq(S)
           /\ StandsFor(TwoMerged(layers), Base \o Items(layers, "team"))
           /\ Merged(layers) \in Seq(S) /\ FileItems \in Seq(S) /\ StandsFor(Merged(layers), FileItems)
  <1> DEFINE T == Items(layers, "team")
             U == Items(layers, "user")
  <1>1. Items(layers, "base") = Base
    BY FilesTyped
  <1>2. StandsFor(Base, Base)
    BY BaseDistinct, DistinctStandsFor
  <1>3. TwoMerged(layers) = MergeArrays(Base, T) /\ Merged(layers) = MergeArrays(TwoMerged(layers), U)
        /\ FileItems = (Base \o T) \o U
    BY <1>1 DEF TwoMerged, Merged, FileItems
  <1> HIDE DEF T, U
  <1>4. /\ TwoMerged(layers) \in Seq(S) /\ Base \o T \in Seq(S)
        /\ StandsFor(TwoMerged(layers), Base \o T)
    <2>1. T \in Seq(S)
      BY DEF T
    <2>2. QED
      BY <1>2, <1>3, <2>1, MergeStandsFor
  <1>5. Merged(layers) \in Seq(S) /\ FileItems \in Seq(S) /\ StandsFor(Merged(layers), FileItems)
    <2>1. U \in Seq(S)
      BY DEF U
    <2>2. /\ MergeArrays(TwoMerged(layers), U) \in Seq(S) /\ (Base \o T) \o U \in Seq(S)
          /\ StandsFor(MergeArrays(TwoMerged(layers), U), (Base \o T) \o U)
      BY <1>4, <2>1, MergeStandsFor
    <2>3. QED
      BY <1>3, <2>2
  <1>6. QED
    BY <1>4, <1>5 DEF T

LEMMA LastOfFirst ==
    ASSUME NEW S, NEW a \in Seq(S), NEW b \in Seq(S), NEW c \in Codes(a), c \notin Codes(b)
    PROVE  LastOf(a \o b, c) = LastOf(a, c)
  <1> DEFINE n == Len(a)
             m == Len(b)
             ab == a \o b
             at == LastWith(a, "code", c)
  <1>1. /\ ab \in Seq(S) /\ Len(ab) = n + m /\ n \in Nat /\ m \in Nat
        /\ \A i \in 1..(n + m) : ab[i] = IF i <= n THEN a[i] ELSE b[i - n]
    BY ConcatProperties
  <1>2. at \in 1..n /\ a[at].code = c /\ \A i \in 1..n : i > at => a[i].code # c
    <2>1. \E i \in 1..n : a[i].code = c
      BY CodeFacts
    <2>2. \/ at = 0 /\ \A i \in 1..n : a[i].code # c
          \/ at \in 1..n /\ a[at].code = c /\ \A i \in 1..n : i > at => a[i].code # c
      BY LastWithFacts
    <2> HIDE DEF at, n
    <2>3. QED
      BY <2>1, <2>2
  <1>3. LastOf(a, c) = a[at]
    BY DEF LastOf
  <1>4. \A i \in 1..m : b[i].code # c
    <2>1. \A d : d \in Codes(b) <=> \E i \in 1..m : b[i].code = d
      BY CodeFacts
    <2>2. QED
      BY <2>1
  <1> HIDE DEF at, ab
  <1>5. at \in 1..Len(ab) /\ ab[at] = a[at]
    BY <1>1, <1>2
  <1>6. \A q \in 1..Len(ab) : ab[q].code = ab[at].code => q <= at
    <2> HIDE DEF n, m
    <2>1. ASSUME NEW q \in 1..(n + m), ab[q].code = c
          PROVE  q <= at
      <3>1. CASE q <= n
        <4>1. q \in 1..n /\ ab[q] = a[q]
          BY <1>1, <3>1
        <4>2. ~(q > at)
          BY <1>2, <2>1, <4>1
        <4>3. QED
          BY <1>1, <1>2, <4>1, <4>2
      <3>2. CASE ~(q <= n)
        <4>1. q - n \in 1..m /\ ab[q] = b[q - n]
          BY <1>1, <3>2
        <4>2. QED
          BY <1>4, <2>1, <4>1
      <3>3. QED
        BY <3>1, <3>2
    <2>2. QED
      BY <1>1, <1>2, <1>5, <2>1
  <1>7. LastOf(ab, ab[at].code) = ab[at]
    BY <1>1, <1>5, <1>6, LastOfFacts
  <1>8. QED
    BY <1>2, <1>3, <1>5, <1>7 DEF ab

\* The nearest layer that has a code is the last of the three lists with it.
LEMMA NearestFacts ==
    ASSUME LayersHold, NEW c, c \in Codes(Base) \cup Codes(Items(layers, "team")) \cup Codes(Items(layers, "user"))
    PROVE  Nearest(c) = IF c \in Codes(Items(layers, "user")) THEN "user"
                        ELSE IF c \in Codes(Items(layers, "team")) THEN "team" ELSE "base"
  <1> DEFINE I == {i \in DOMAIN LayerNames : c \in Codes(Items(layers, LayerNames[i]))}
  <1>1. Items(layers, "base") = Base
    BY FilesTyped
  <1>2. Nearest(c) = LayerNames[Max(I)]
    BY DEF Nearest
  <1>3. /\ 1 \in I <=> c \in Codes(Base)
        /\ 2 \in I <=> c \in Codes(Items(layers, "team"))
        /\ 3 \in I <=> c \in Codes(Items(layers, "user"))
    BY <1>1, LayerFacts
  <1>4. I \subseteq 0..3 /\ 0 \notin I /\ I # {}
    BY <1>3, LayerFacts
  <1> HIDE DEF I
  <1>5. Max(I) \in I /\ \A y \in I : y <= Max(I)
    BY <1>4, MaxFacts
  <1>6. Max(I) = 1 \/ Max(I) = 2 \/ Max(I) = 3
    <2>1. \A x \in I : x \in 0..3 /\ x # 0
      BY <1>4
    <2>2. \A x \in I : x = 1 \/ x = 2 \/ x = 3
      BY <2>1
    <2>3. QED
      BY <1>5, <2>2
  <1>7. Max(I) = IF 3 \in I THEN 3 ELSE IF 2 \in I THEN 2 ELSE 1
    BY <1>5, <1>6
  <1>8. QED
    BY <1>2, <1>3, <1>7, LayerFacts

LEMMA ListsHold == LayersHold => ListsFollow
  <1> SUFFICES ASSUME LayersHold
               PROVE  ListsFollow
    OBVIOUS
  <1> DEFINE T == Items(layers, "team")
             U == Items(layers, "user")
             S == Range(Base) \cup Range(T) \cup Range(U)
             merged == Merged(layers)
             two == TwoMerged(layers)
  <1>1. Items(layers, "base") = Base /\ IsItems(Base) /\ IsItems(T) /\ IsItems(U)
    BY FilesTyped
  <1>2. Base \in Seq(S) /\ T \in Seq(S) /\ U \in Seq(S)
    BY <1>1 DEF IsItems
  <1> HIDE DEF S
  <1>3. /\ two \in Seq(S) /\ Base \o T \in Seq(S) /\ StandsFor(two, Base \o T)
        /\ merged \in Seq(S) /\ FileItems \in Seq(S) /\ StandsFor(merged, FileItems)
    BY <1>2, FilesMerge
  <1>4. /\ merged = MergeArrays(two, U) /\ two = MergeArrays(Base, T) /\ FileItems = (Base \o T) \o U
    BY <1>1 DEF Merged, TwoMerged, FileItems
  <1> HIDE DEF T, U, merged, two
  <1>5. Codes(Base \o T) = Codes(Base) \cup Codes(T) /\ Codes(FileItems) = Codes(Base) \cup Codes(T) \cup Codes(U)
    <2>1. ASSUME NEW a \in Seq(S), NEW b \in Seq(S)
          PROVE  Codes(a \o b) = Codes(a) \cup Codes(b)
      BY ONLY <2>1, CodesJoined
    <2>2. Codes(Base \o T) = Codes(Base) \cup Codes(T) /\ Codes((Base \o T) \o U) = Codes(Base \o T) \cup Codes(U)
      BY <1>2, <1>3, <2>1
    <2>3. QED
      BY <1>4, <2>2
  <1>6. CASE NoCode \notin Codes(FileItems)
    <2>1. MergeOf(merged, FileItems, Len(FileItems))
      BY <1>3, <1>6 DEF StandsFor
    <2>2. /\ Codes(merged) = Codes(FileItems) /\ Cardinality(Codes(merged)) = Len(merged)
          /\ Range(merged) = {LastOf(FileItems, c) : c \in Codes(FileItems)}
          /\ \A c \in Codes(FileItems) : LastOf(FileItems, c).code = c
      BY <1>3, <2>1, MergesFacts
    <2>3. ASSUME NEW c \in Codes(FileItems)
          PROVE  LastOf(FileItems, c) \in Range(Items(layers, Nearest(c)))
      <3>1. Nearest(c) = IF c \in Codes(U) THEN "user" ELSE IF c \in Codes(T) THEN "team" ELSE "base"
        BY <1>5, NearestFacts DEF T, U
      <3>2. LastOf(FileItems, c) \in Range(IF c \in Codes(U) THEN U ELSE Base \o T)
        <4>1. c \in Codes(Base \o T) \cup Codes(U)
          BY <1>5
        <4>2. LastOf((Base \o T) \o U, c) \in Range(IF c \in Codes(U) THEN U ELSE Base \o T)
          BY <1>2, <1>3, <4>1, LastOfJoined
        <4>3. QED
          BY <1>4, <4>2
      <3>3. CASE c \in Codes(U)
        BY <3>1, <3>2, <3>3 DEF U
      <3>4. CASE c \notin Codes(U)
        <4>1. c \in Codes(Base) \cup Codes(T)
          BY <1>5, <3>4
        <4>2. LastOf(Base \o T, c) \in Range(IF c \in Codes(T) THEN T ELSE Base)
          BY <1>2, <4>1, LastOfJoined
        <4>3. LastOf((Base \o T) \o U, c) = LastOf(Base \o T, c)
          <5>1. c \in Codes(Base \o T)
            BY <1>5, <4>1
          <5>2. QED
            BY <1>2, <1>3, <3>4, <5>1, LastOfFirst
        <4>4. QED
          BY <1>1, <1>4, <3>1, <3>4, <4>2, <4>3 DEF T
      <3>5. QED
        BY <3>3, <3>4
    <2>4. \A m \in Range(merged) : m \in Range(Items(layers, Nearest(m.code)))
      BY <2>2, <2>3
    <2>5. \A i \in DOMAIN Base : merged[i].code = Base[i].code
      <3>1. Len(two) >= Len(Base) /\ \A i \in 1..Len(Base) : two[i].code = Base[i].code
        BY <1>2, <1>4, CodesStand
      <3>2. Len(merged) >= Len(two) /\ \A i \in 1..Len(two) : merged[i].code = two[i].code
        BY <1>2, <1>3, <1>4, CodesStand
      <3>3. Len(two) \in Nat /\ Len(Base) \in Nat /\ DOMAIN Base = 1..Len(Base)
        BY <1>2, <1>3
      <3>4. \A i \in 1..Len(Base) : i \in 1..Len(two)
        BY <3>1, <3>3
      <3>5. QED
        BY <3>1, <3>2, <3>3, <3>4
    <2>6. QED
      BY <1>6, <2>2, <2>4, <2>5 DEF ListsFollow, merged
  <1>7. CASE NoCode \in Codes(FileItems)
    <2>1. merged = two \o U
      <3>1. NoCode \in Codes(two) \cup Codes(U)
        BY <1>3, <1>5, <1>7 DEF StandsFor
      <3>2. QED
        BY <1>2, <1>3, <1>4, <3>1, MergeArraysFacts
    <2>2. ASSUME NoCode \in Codes(Base \o T)
          PROVE  merged = FileItems
      <3>1. NoCode \in Codes(Base) \cup Codes(T)
        BY <1>5, <2>2
      <3>2. two = Base \o T
        BY <1>2, <1>4, <3>1, MergeArraysFacts
      <3>3. QED
        BY <1>4, <2>1, <3>2
    <2>3. QED
      BY <1>1, <1>7, <2>1, <2>2 DEF ListsFollow, merged, two, T, U
  <1>8. QED
    BY <1>6, <1>7

LEMMA RenderHolds ==
    ASSUME LayersHold, NEW call \in Calls, NEW reads \in BOOLEAN
    PROVE  ShownFollows(call) /\ HaltsFollow(call, reads)
  <1> DEFINE T == Items(layers, "team")
             U == Items(layers, "user")
             F == call.file
             X == SetItems(call)
             S == Range(Base) \cup Range(T) \cup Range(U) \cup Range(F) \cup Range(X)
             all == AllItems(call)
             merged == Merged(layers)
             filed == WithFile(layers, call)
             list == Effective(layers, call)
             bad == {NoCode, BadCode}
  <1>1. Items(layers, "base") = Base /\ IsItems(Base) /\ IsItems(T) /\ IsItems(U)
    BY FilesTyped
  <1>2. IsItems(F) /\ IsItems(X)
    BY CallTyped
  <1>3. Base \in Seq(S) /\ T \in Seq(S) /\ U \in Seq(S) /\ F \in Seq(S) /\ X \in Seq(S)
    BY <1>1, <1>2 DEF IsItems
  <1> HIDE DEF S
  <1>4. merged \in Seq(S) /\ FileItems \in Seq(S) /\ StandsFor(merged, FileItems)
    BY <1>3, FilesMerge
  <1>5. filed = MergeArrays(merged, F) /\ list = MergeArrays(filed, X) /\ all = (FileItems \o F) \o X
    BY DEF WithFile, Effective, AllItems
  <1> HIDE DEF T, U, F, X, all, merged, filed, list
  <1>6. filed \in Seq(S) /\ FileItems \o F \in Seq(S) /\ StandsFor(filed, FileItems \o F)
    <2>1. /\ MergeArrays(merged, F) \in Seq(S) /\ FileItems \o F \in Seq(S)
          /\ StandsFor(MergeArrays(merged, F), FileItems \o F)
      BY <1>3, <1>4, MergeStandsFor
    <2>2. QED
      BY <1>5, <2>1
  <1>7. list \in Seq(S) /\ all \in Seq(S) /\ StandsFor(list, all)
    <2>1. /\ MergeArrays(filed, X) \in Seq(S) /\ (FileItems \o F) \o X \in Seq(S)
          /\ StandsFor(MergeArrays(filed, X), (FileItems \o F) \o X)
      BY <1>3, <1>6, MergeStandsFor
    <2>2. QED
      BY <1>5, <2>1
  <1>8. NoCode \notin Codes(all) =>
          /\ Codes(list) = Codes(all) /\ Cardinality(Codes(list)) = Len(list)
          /\ Range(list) = {LastOf(all, c) : c \in Codes(all)}
          /\ \A c \in Codes(all) : LastOf(all, c).code = c
          /\ \A i, j \in 1..Len(list) : i < j => FirstAt(all, list[i].code) < FirstAt(all, list[j].code)
    BY <1>7, MergesFacts DEF StandsFor
  <1>9. ListRefused(layers, list) <=> bad \cap Codes(all) # {}
    <2>1. Base # <<>>
      BY ShippedAssumption DEF ShippedAssumption
    <2>2. ListRefused(layers, list) <=> bad \cap Codes(list) # {} \/ Cardinality(Codes(list)) < Len(list)
      BY <1>1, <2>1 DEF ListRefused, IdsRefused
    <2>3. CASE NoCode \in Codes(all)
      <3>1. NoCode \in Codes(list)
        BY <1>7, <2>3 DEF StandsFor
      <3>2. QED
        BY <2>2, <2>3, <3>1
    <2>4. CASE NoCode \notin Codes(all)
      <3>1. Len(list) \in Nat
        BY <1>7
      <3>2. ~(Cardinality(Codes(list)) < Len(list)) /\ Codes(list) = Codes(all)
        BY <1>8, <2>4, <3>1
      <3>3. QED
        BY <2>2, <3>2
    <2>5. QED
      BY <2>3, <2>4
  <1> DEFINE wrong == \/ Fails(layers) \/ Undeclared(layers) \/ SetsClash(call.sets) \/ call.stray
                      \/ Supplies(call) /\ ~reads
  <1>10. KeyError(merged, F) => Supplies(call) /\ BadCode \in Codes(all)
    <2>1. Codes(merged \o F) = Codes(merged) \cup Codes(F) /\ Codes(FileItems \o F) = Codes(FileItems) \cup Codes(F)
          /\ Codes(all) = Codes(FileItems \o F) \cup Codes(X)
      <3>1. ASSUME NEW a \in Seq(S), NEW b \in Seq(S)
            PROVE  Codes(a \o b) = Codes(a) \cup Codes(b)
        BY ONLY <3>1, CodesJoined
      <3>2. QED
        BY <1>3, <1>4, <1>5, <1>6, <3>1
    <2>2. Codes(merged) \subseteq Codes(FileItems)
      BY <1>4 DEF StandsFor
    <2>3. KeyError(merged, F) => F # <<>> /\ BadCode \in Codes(merged \o F)
      BY DEF KeyError
    <2>4. QED
      BY <2>1, <2>2, <2>3 DEF Supplies, F
  <1>11. KeyError(filed, X) => Supplies(call) /\ BadCode \in Codes(all)
    <2>1. Codes(filed \o X) = Codes(filed) \cup Codes(X) /\ Codes(all) = Codes(FileItems \o F) \cup Codes(X)
      <3>1. ASSUME NEW a \in Seq(S), NEW b \in Seq(S)
            PROVE  Codes(a \o b) = Codes(a) \cup Codes(b)
        BY ONLY <3>1, CodesJoined
      <3>2. QED
        BY <1>3, <1>5, <1>6, <3>1
    <2>2. Codes(filed) \subseteq Codes(FileItems \o F)
      BY <1>6 DEF StandsFor
    <2>3. KeyError(filed, X) => X # <<>> /\ BadCode \in Codes(filed \o X)
      BY DEF KeyError
    <2>4. X # <<>> => Supplies(call)
      BY DEF X, SetItems, Supplies
    <2>5. QED
      BY <2>1, <2>2, <2>3, <2>4
  <1> DEFINE loud == KeyError(merged, F) \/ KeyError(filed, X)
  <1>12. ASSUME NEW r
         PROVE  Halts(layers, call, r) <=>
                  \/ Fails(layers) \/ Undeclared(layers) \/ SetsClash(call.sets) \/ loud
                  \/ call.stray \/ (Supplies(call) /\ ~r) \/ (r /\ ListRefused(layers, list))
    <2>1. Halts(layers, call, r) <=>
            \/ Fails(layers) \/ Undeclared(layers) \/ SetsClash(call.sets)
            \/ KeyError(Merged(layers), call.file) \/ KeyError(WithFile(layers, call), SetItems(call))
            \/ call.stray \/ (Supplies(call) /\ ~r) \/ (r /\ ListRefused(layers, Effective(layers, call)))
      BY Zenon DEF Halts
    <2>2. QED
      BY <2>1, Zenon DEF loud, merged, F, filed, X, list
  <1>13. Halts(layers, call, reads) <=> wrong \/ (reads /\ bad \cap Codes(all) # {})
    <2> DEFINE unread == BadCode \in Codes(all)
               refused == bad \cap Codes(all) # {}
               first == Fails(layers) \/ Undeclared(layers) \/ SetsClash(call.sets)
    <2>1. unread => refused
      OBVIOUS
    <2>2. loud => Supplies(call) /\ unread
      BY <1>10, <1>11
    <2>3. ListRefused(layers, list) <=> refused
      BY <1>9
    <2>4. Halts(layers, call, reads) <=>
            first \/ loud \/ call.stray \/ (Supplies(call) /\ ~reads) \/ (reads /\ ListRefused(layers, list))
      BY <1>12, Zenon
    <2> HIDE DEF refused, unread, loud
    <2>5. Halts(layers, call, reads) <=> wrong \/ (reads /\ refused)
      BY <2>1, <2>2, <2>3, <2>4, Zenon
    <2>6. QED
      BY <2>5 DEF refused
  <1>14. ASSUME ~Halts(layers, call, TRUE)
         PROVE  LET shown == Shown(layers, call)
                IN /\ Range(shown) = {LastOf(all, c) : c \in {d \in Codes(all) : LastOf(all, d).name # ""}}
                   /\ \A i, j \in DOMAIN shown : i < j => FirstAt(all, shown[i].code) < FirstAt(all, shown[j].code)
    <2> DEFINE on == {m \in Range(list) : m.name # ""}
               shown == Only(list, on)
    <2>1. ~ListRefused(layers, list)
      BY <1>12, <1>14
    <2>2. NoCode \notin Codes(all)
      BY <1>9, <2>1
    <2>3. Shown(layers, call) = shown
      BY DEF Shown, list
    <2>4. shown \in Seq(S) /\ OnlyOf(shown, list, on, Len(list))
      BY <1>7, OnlyFacts
    <2> HIDE DEF shown
    <2>5. Range(list) = {list[i] : i \in 1..Len(list)}
      BY <1>7, CodeFacts
    <2>6. Range(shown) = {list[i] : i \in {h \in 1..Len(list) : list[h] \in on}}
      BY <2>4 DEF OnlyOf
    <2>7. Range(shown) = on
      BY <2>5, <2>6
    <2>8. on = {LastOf(all, c) : c \in {d \in Codes(all) : LastOf(all, d).name # ""}}
      <3>1. Range(list) = {LastOf(all, c) : c \in Codes(all)}
        BY <1>8, <2>2
      <3>2. \A c \in Codes(all) : LastOf(all, c) \in Range(list)
        BY <3>1
      <3>3. \A m \in Range(list) : \E c \in Codes(all) : m = LastOf(all, c)
        BY <3>1
      <3>4. QED
        BY <3>2, <3>3
    <2>9. DOMAIN shown = 1..Len(shown)
      <3>1. shown \in Seq(S)
        BY <2>4
      <3>2. QED
        BY ONLY <3>1
    <2>10. ASSUME NEW a \in 1..Len(shown), NEW b \in 1..Len(shown), a < b
           PROVE  FirstAt(all, shown[a].code) < FirstAt(all, shown[b].code)
      <3>1. PICK i \in 1..Len(list), j \in 1..Len(list) : i < j /\ shown[a] = list[i] /\ shown[b] = list[j]
        BY <2>4, <2>10 DEF OnlyOf
      <3>2. QED
        BY <1>8, <2>2, <3>1
    <2>11. QED
      BY <2>3, <2>7, <2>8, <2>9, <2>10
  <1>15. QED
    BY <1>13, <1>14 DEF ShownFollows, HaltsFollow, all

\* Whatever is written to the layers, the merged list has of each code what the
\* nearest layer says, and a render shows it or halts for a reason of the files
\* or the call (structural_merge, render_skill.py).
THEOREM NearestAlwaysWins == CustomSpec => []NearestWins
  <1>1. LayersHold => NearestWins
    BY ListsHold, RenderHolds DEF NearestWins, RenderFollows
  <1>2. CustomSpec => []LayersHold
    BY LayersInit, LayersStep, PTL DEF CustomSpec
  <1>3. QED
    BY <1>1, <1>2, PTL

-----------------------------------------------------------------------------
(* The catalogues.                                                         *)

Entry(C, N, Y) == [code : C, name : N, num : Nat, by : Y]

LEMMA RowFacts ==
    ASSUME NEW C, NEW N, NEW Y, NEW m \in Entry(C, N, Y), NEW k \in Nat
    PROVE  /\ [m EXCEPT !.num = k] \in Entry(C, N, Y)
           /\ [m EXCEPT !.num = k].num = k
           /\ [m EXCEPT !.num = k].name = m.name /\ [m EXCEPT !.num = k].by = m.by
  BY DEF Entry

\* The place of a name depends on the names only.
LEMMA SamePlace ==
    ASSUME NEW S, NEW a \in Seq(S), NEW b \in Seq(S), Len(a) = Len(b),
           \A i \in 1..Len(a) : a[i].name = b[i].name, NEW v
    PROVE  LastWith(a, "name", v) = LastWith(b, "name", v)
  <1> DEFINE I == {i \in 1..Len(a) : a[i].name = v}
             J == {i \in 1..Len(b) : b[i].name = v}
  <1>1. LastWith(a, "name", v) = IF I # {} THEN Max(I) ELSE 0
    BY DEF LastWith, SelectLastInSeq
  <1>2. LastWith(b, "name", v) = IF J # {} THEN Max(J) ELSE 0
    BY DEF LastWith, SelectLastInSeq
  <1>3. I = J
    OBVIOUS
  <1> HIDE DEF I, J
  <1>4. QED
    BY <1>1, <1>2, <1>3

LEMMA RenumberedFacts ==
    ASSUME NEW C, NEW N, NEW Y, NEW list \in Seq(Entry(C, N, Y)), NEW e \in Entry(C, N, Y)
    PROVE  LET new == Renumbered(list, e)
               at == LastWith(list, "name", e.name)
           IN /\ new \in Entry(C, N, Y) /\ new.name = e.name /\ new.by = e.by
              /\ e.num = NoNum => new.num = IF at = 0 THEN NoNum ELSE list[at].num
  <1> DEFINE at == LastWith(list, "name", e.name)
  <1>1. at = 0 \/ at \in 1..Len(list)
    BY LastWithFacts
  <1>2. Renumbered(list, e) = IF at = 0 \/ e.num # NoNum THEN e ELSE [e EXCEPT !.num = list[at].num]
    BY DEF Renumbered
  <1> HIDE DEF at
  <1>3. CASE at = 0 \/ e.num # NoNum
    <2>1. Renumbered(list, e) = e
      BY <1>2, <1>3
    <2>2. e.num = NoNum => at = 0
      BY <1>3
    <2>3. QED
      BY <2>1, <2>2 DEF at
  <1>4. CASE ~(at = 0 \/ e.num # NoNum)
    <2>1. Renumbered(list, e) = [e EXCEPT !.num = list[at].num]
      BY <1>2, <1>4
    <2>2. list[at] \in Entry(C, N, Y)
      BY <1>1, <1>4
    <2>3. list[at].num \in Nat
      BY <2>2 DEF Entry
    <2>4. /\ [e EXCEPT !.num = list[at].num] \in Entry(C, N, Y)
          /\ [e EXCEPT !.num = list[at].num].num = list[at].num
          /\ [e EXCEPT !.num = list[at].num].name = e.name /\ [e EXCEPT !.num = list[at].num].by = e.by
      BY <2>3, RowFacts
    <2>5. QED
      BY <1>4, <2>1, <2>4 DEF at
  <1>5. QED
    BY <1>3, <1>4

\* The list after each extra entry, before the free numbers are given.
IsMethods(m, S, rows, extras) ==
    /\ m[0] = rows /\ Methods(rows, extras) = Numbered(m[Len(extras)])
    /\ \A i \in 1..Len(extras) : m[i] = Put(m[i-1], Renumbered(m[i-1], extras[i]), "name")
    /\ \A i \in 0..Len(extras) : m[i] \in Seq(S)

LEMMA MethodsPath ==
    ASSUME NEW C, NEW N, NEW Y, NEW rows \in Seq(Entry(C, N, Y)), NEW extras \in Seq(Entry(C, N, Y))
    PROVE  \E m : IsMethods(m, Entry(C, N, Y), rows, extras)
  <1> DEFINE S == Entry(C, N, Y)
             V == Seq(S)
             n == Len(extras)
             Next1(i, x) == Put(x, Renumbered(x, extras[i]), "name")
             F == [ix \in (1..n) \X V |-> Next1(ix[1], ix[2])]
             Is(f) == f = [i \in 0..n |-> IF i = 0 THEN rows ELSE Put(f[i-1], Renumbered(f[i-1], extras[i]), "name")]
             m == CHOOSE f : f = [i \in 0..n |-> IF i = 0 THEN rows ELSE Put(f[i-1], Renumbered(f[i-1], extras[i]), "name")]
  <1>1. n \in Nat /\ rows \in V /\ \A i \in 1..n : extras[i] \in S
    OBVIOUS
  <1>2. ASSUME NEW i \in 1..n, NEW x \in V
        PROVE  F[<<i, x>>] = Next1(i, x) /\ Next1(i, x) \in V
    <2>1. F[<<i, x>>] = Next1(i, x)
      <3> HIDE DEF V, n, Next1
      <3>1. QED
        OBVIOUS
    <2>2. Renumbered(x, extras[i]) \in S
      BY <1>1, RenumberedFacts
    <2> HIDE DEF S, F
    <2>3. Put(x, Renumbered(x, extras[i]), "name") \in Seq(S)
      BY <2>2, PutFacts
    <2>4. QED
      BY <2>1, <2>3
  <1>3. \E f : IsPath(f, rows, F, n) /\ \A i \in 0..n : f[i] \in V
    <2> HIDE DEF F, n, V, Next1
    <2>1. \A i \in 1..n, x \in V : F[<<i, x>>] \in V
      BY <1>2
    <2>2. QED
      BY <1>1, <2>1, PathExists
  <1>4. PICK f : IsPath(f, rows, F, n) /\ \A i \in 0..n : f[i] \in V
    BY <1>3
  <1>5. Is(f)
    <2> HIDE DEF F, n, V, Next1
    <2>1. f = [i \in 0..n |-> IF i = 0 THEN rows ELSE F[<<i, f[i-1]>>]]
      BY <1>4 DEF IsPath
    <2>2. \A i \in 0..n : i # 0 => i \in 1..n /\ i - 1 \in 0..n
      BY <1>1
    <2>3. \A i \in 0..n : (IF i = 0 THEN rows ELSE F[<<i, f[i-1]>>]) = IF i = 0 THEN rows ELSE Next1(i, f[i-1])
      BY <1>2, <1>4, <2>2
    <2>4. [i \in 0..n |-> IF i = 0 THEN rows ELSE F[<<i, f[i-1]>>]]
            = [i \in 0..n |-> IF i = 0 THEN rows ELSE Next1(i, f[i-1])]
      BY <2>3
    <2>5. f = [i \in 0..n |-> IF i = 0 THEN rows ELSE Next1(i, f[i-1])]
      BY <2>1, <2>4
    <2>6. QED
      BY <2>5 DEF Next1
  <1>6. Is(m)
    <2> HIDE DEF F, n, V, Next1
    <2>1. QED
      BY <1>5
  <1>7. Methods(rows, extras) = Numbered(m[n])
    BY DEF Methods
  <1> HIDE DEF m, F
  <1>8. m[0] = rows /\ \A i \in 1..n : m[i] = Next1(i, m[i-1])
    <2> HIDE DEF n, V
    <2>1. \A i \in 0..n : m[i] = IF i = 0 THEN rows ELSE Next1(i, m[i-1])
      BY <1>6
    <2>2. 0 \in 0..n /\ \A i \in 1..n : i \in 0..n /\ i # 0
      BY <1>1
    <2> HIDE DEF Next1
    <2>3. QED
      BY <2>1, <2>2
  <1>9. \A i \in 0..n : m[i] \in V
    <2> DEFINE U == {k \in 0..n : m[k] \in V}
    <2> HIDE DEF Next1, V, n
    <2>1. 0 \in U
      BY <1>1, <1>8
    <2>2. ASSUME NEW i \in 1..n, i - 1 \in U
          PROVE  i \in U
      <3>1. i \in 0..n
        BY <1>1
      <3>2. m[i] = Next1(i, m[i-1]) /\ m[i-1] \in V
        BY <1>8, <2>2
      <3>3. QED
        BY <1>2, <3>1, <3>2
    <2>3. 0..n \subseteq U
      <3> HIDE DEF U
      <3>1. QED
        BY <1>1, <2>1, <2>2, UpTo
    <2>4. QED
      BY <2>3
  <1>10. QED
    BY <1>7, <1>8, <1>9 DEF IsMethods

\* Two lists of the same entries, each under a name of its own.
Alike(a, b) ==
    /\ Len(a) = Len(b)
    /\ \A i \in 1..Len(a) : a[i].name = b[i].name /\ a[i].by = b[i].by
    /\ \A i, j \in 1..Len(b) : b[i].name = b[j].name => i = j

\* The shipped rows keep their numbers, and no entry after them has one.
RowsStand(list, rows) ==
    /\ Len(list) >= Len(rows)
    /\ \A i \in 1..Len(rows) : list[i].num = rows[i].num /\ list[i].name = rows[i].name
    /\ \A i \in 1..Len(list) : i > Len(rows) => list[i].num = NoNum

LEMMA AlikeStep ==
    ASSUME NEW C, NEW N, NEW Y, NEW a \in Seq(Entry(C, N, Y)), NEW b \in Seq(Entry(C, N, Y)), Alike(a, b),
           NEW e \in Entry(C, N, Y), NEW rows, Len(rows) \in Nat
    PROVE  /\ Alike(Put(a, e, "name"), Put(b, Renumbered(b, e), "name"))
           /\ e.num = NoNum /\ RowsStand(b, rows) => RowsStand(Put(b, Renumbered(b, e), "name"), rows)
  <1> DEFINE S == Entry(C, N, Y)
             f == Renumbered(b, e)
             n == Len(a)
             at == LastWith(b, "name", e.name)
             a2 == Put(a, e, "name")
             b2 == Put(b, f, "name")
  <1>0. /\ n \in Nat /\ Len(b) = n
        /\ \A i \in 1..n : a[i].name = b[i].name /\ a[i].by = b[i].by
        /\ \A i, j \in 1..n : b[i].name = b[j].name => i = j
    BY DEF Alike
  <1>1. /\ f \in S /\ f.name = e.name /\ f.by = e.by
        /\ e.num = NoNum => f.num = IF at = 0 THEN NoNum ELSE b[at].num
    BY RenumberedFacts
  <1>2. LastWith(a, "name", e.name) = at
    BY <1>0, SamePlace
  <1>3. LastWith(b, "name", f.name) = at
    BY <1>1
  <1>4. \/ at = 0 /\ \A i \in 1..n : b[i].name # e.name
        \/ at \in 1..n /\ b[at].name = e.name
    <2>1. \/ at = 0 /\ \A i \in 1..Len(b) : b[i].name # e.name
          \/ at \in 1..Len(b) /\ b[at].name = e.name
      BY LastWithFacts
    <2> HIDE DEF at
    <2>2. QED
      BY <1>0, <2>1
  <1>5. a2 = IF at = 0 THEN Append(a, e) ELSE [a EXCEPT ![at] = e]
    BY <1>2 DEF Put
  <1>6. b2 = IF at = 0 THEN Append(b, f) ELSE [b EXCEPT ![at] = f]
    BY <1>3 DEF Put
  <1> HIDE DEF f, at, a2, b2
  <1>7. CASE at = 0
    <2>1. /\ Len(a2) = n + 1 /\ Len(b2) = n + 1 /\ a2[n + 1] = e /\ b2[n + 1] = f
          /\ \A i \in 1..n : a2[i] = a[i] /\ b2[i] = b[i]
      <3>1. a2 = Append(a, e) /\ b2 = Append(b, f)
        BY <1>5, <1>6, <1>7
      <3>2. f \in S /\ e \in S /\ a \in Seq(S) /\ b \in Seq(S)
        BY <1>1
      <3> HIDE DEF S
      <3>3. QED
        BY <1>0, <3>1, <3>2, AppendProperties
    <2> HIDE DEF n, S
    <2>2. \A i \in 1..(n + 1) : i \in 1..n \/ i = n + 1
      BY <1>0
    <2>3. \A i \in 1..n : b[i].name # e.name
      BY <1>0, <1>4, <1>7
    <2>4. \A i, j \in 1..(n + 1) : b2[i].name = b2[j].name => i = j
      BY <1>0, <1>1, <2>1, <2>2, <2>3
    <2>5. \A i \in 1..(n + 1) : a2[i].name = b2[i].name /\ a2[i].by = b2[i].by
      BY <1>0, <1>1, <2>1, <2>2
    <2>6. Alike(a2, b2)
      BY <2>1, <2>4, <2>5 DEF Alike
    <2>7. ASSUME e.num = NoNum, RowsStand(b, rows)
          PROVE  RowsStand(b2, rows)
      <3>1. f.num = NoNum
        BY <1>1, <1>7, <2>7
      <3>2. n >= Len(rows) /\ \A i \in 1..Len(rows) : i \in 1..n
        BY <1>0, <2>7 DEF RowsStand
      <3>3. \A i \in 1..Len(rows) : b2[i].num = rows[i].num /\ b2[i].name = rows[i].name
        BY <2>1, <2>7, <3>2 DEF RowsStand
      <3>4. \A i \in 1..(n + 1) : i > Len(rows) => b2[i].num = NoNum
        BY <1>0, <2>1, <2>2, <2>7, <3>1 DEF RowsStand
      <3>5. QED
        BY <1>0, <2>1, <3>2, <3>3, <3>4 DEF RowsStand
    <2>8. QED
      BY <2>6, <2>7 DEF a2, b2, f
  <1>8. CASE at # 0
    <2>1. /\ Len(a2) = n /\ Len(b2) = n /\ at \in 1..n /\ b[at].name = e.name
          /\ \A i \in 1..n : a2[i] = (IF i = at THEN e ELSE a[i]) /\ b2[i] = (IF i = at THEN f ELSE b[i])
      <3>1. a2 = [a EXCEPT ![at] = e] /\ b2 = [b EXCEPT ![at] = f] /\ at \in 1..n /\ b[at].name = e.name
        BY <1>4, <1>5, <1>6, <1>8
      <3>2. f \in S /\ e \in S /\ a \in Seq(S) /\ b \in Seq(S)
        BY <1>1
      <3> HIDE DEF S
      <3>3. QED
        BY <1>0, <3>1, <3>2, ExceptSeq
    <2> HIDE DEF n, S
    <2>2. \A i \in 1..n : a2[i].name = b2[i].name /\ a2[i].by = b2[i].by
      BY <1>0, <1>1, <2>1
    <2>3. \A i \in 1..n : b2[i].name = b[i].name
      BY <1>1, <2>1
    <2>4. Alike(a2, b2)
      BY <1>0, <2>1, <2>2, <2>3 DEF Alike
    <2>5. ASSUME e.num = NoNum, RowsStand(b, rows)
          PROVE  RowsStand(b2, rows)
      <3>1. \A i \in 1..n : b2[i].num = b[i].num
        BY <1>1, <1>8, <2>1, <2>5
      <3>2. n >= Len(rows) /\ \A i \in 1..Len(rows) : i \in 1..n
        BY <1>0, <2>5 DEF RowsStand
      <3>3. QED
        BY <1>0, <2>1, <2>3, <2>5, <3>1, <3>2 DEF RowsStand
    <2>6. QED
      BY <2>4, <2>5 DEF a2, b2, f
  <1>9. QED
    BY <1>7, <1>8

\* The catalogues before the free numbers are given.
LEMMA AlikeAtEnd ==
    ASSUME NEW C, NEW N, NEW Y, NEW rows \in Seq(Entry(C, N, Y)), NEW extras \in Seq(Entry(C, N, Y)),
           \A i, j \in 1..Len(rows) : rows[i].name = rows[j].name => i = j
    PROVE  \E list \in Seq(Entry(C, N, Y)) :
             /\ Methods(rows, extras) = Numbered(list) /\ Alike(Techniques(rows, extras), list)
             /\ (\A i \in 1..Len(extras) : extras[i].num = NoNum) => RowsStand(list, rows)
  <1> DEFINE S == Entry(C, N, Y)
             n == Len(extras)
             bare == \A i \in 1..n : extras[i].num = NoNum
  <1>1. PICK put : IsPutAll(put, S, rows, extras, "name")
    BY PutAllFacts
  <1>2. PICK m : IsMethods(m, S, rows, extras)
    BY MethodsPath
  <1> HIDE DEF S
  <1>3. /\ put[0] = rows /\ put[n] = Techniques(rows, extras)
        /\ \A i \in 1..n : put[i] = Put(put[i-1], extras[i], "name")
        /\ \A i \in 0..n : put[i] \in Seq(S)
    BY <1>1 DEF IsPutAll, Techniques
  <1>4. /\ m[0] = rows /\ Methods(rows, extras) = Numbered(m[n])
        /\ \A i \in 1..n : m[i] = Put(m[i-1], Renumbered(m[i-1], extras[i]), "name")
        /\ \A i \in 0..n : m[i] \in Seq(S)
    BY <1>2 DEF IsMethods
  <1>5. rows \in Seq(S) /\ n \in Nat /\ Len(rows) \in Nat /\ \A i \in 1..n : extras[i] \in S
    BY DEF S
  <1> DEFINE U == {i \in 0..n : Alike(put[i], m[i]) /\ (bare => RowsStand(m[i], rows))}
  <1>6. 0 \in U
    <2>1. Alike(rows, rows)
      BY DEF Alike
    <2>2. RowsStand(rows, rows)
      BY <1>5 DEF RowsStand
    <2>3. 0 \in 0..n
      BY <1>5
    <2> HIDE DEF bare, n
    <2>4. QED
      BY <1>3, <1>4, <2>1, <2>2, <2>3
  <1>7. ASSUME NEW i \in 1..n, i - 1 \in U
        PROVE  i \in U
    <2> HIDE DEF n
    <2>1. i - 1 \in 0..n /\ i \in 0..n
      BY <1>5
    <2>2. put[i-1] \in Seq(S) /\ m[i-1] \in Seq(S) /\ extras[i] \in S
      BY <1>3, <1>4, <1>5, <2>1
    <2>3. Alike(put[i-1], m[i-1]) /\ (bare => RowsStand(m[i-1], rows) /\ extras[i].num = NoNum)
      BY <1>7 DEF n
    <2> HIDE DEF bare
    <2>4. /\ Alike(Put(put[i-1], extras[i], "name"), Put(m[i-1], Renumbered(m[i-1], extras[i]), "name"))
          /\ extras[i].num = NoNum /\ RowsStand(m[i-1], rows)
               => RowsStand(Put(m[i-1], Renumbered(m[i-1], extras[i]), "name"), rows)
      BY <1>5, <2>2, <2>3, AlikeStep DEF S
    <2>5. QED
      BY <1>3, <1>4, <2>1, <2>3, <2>4
  <1>8. 0..n \subseteq U
    <2> HIDE DEF U, n
    <2>1. QED
      BY <1>5, <1>6, <1>7, UpTo
  <1>9. n \in U /\ n \in 0..n
    BY <1>5, <1>8
  <1>10. m[n] \in Seq(S) /\ Alike(put[n], m[n]) /\ (bare => RowsStand(m[n], rows))
    <2> HIDE DEF n, bare
    <2>1. QED
      BY <1>4, <1>9
  <1>11. QED
    BY <1>3, <1>4, <1>10 DEF S

\* Numbers in a list are bounded.
LEMMA NumsBounded ==
    ASSUME NEW C, NEW N, NEW Y, NEW list \in Seq(Entry(C, N, Y))
    PROVE  \E k \in Nat : \A i \in 1..Len(list) : list[i].num \in 0..k
  <1> DEFINE n == Len(list)
             Bound(i, k) == \A j \in 1..i : list[j].num \in 0..k
             U == {i \in 0..n : \E k \in Nat : Bound(i, k)}
  <1>1. n \in Nat /\ \A i \in 1..n : list[i].num \in Nat
    <2>1. n \in Nat /\ \A i \in 1..n : list[i] \in Entry(C, N, Y)
      OBVIOUS
    <2>2. \A m \in Entry(C, N, Y) : m.num \in Nat
      BY DEF Entry
    <2>3. QED
      BY <2>1, <2>2
  <1> HIDE DEF n
  <1>2. 0 \in U
    <2>1. Bound(0, 0) /\ 0 \in 0..n
      BY <1>1
    <2>2. QED
      BY <2>1
  <1>3. ASSUME NEW i \in 1..n, i - 1 \in U
        PROVE  i \in U
    <2>1. PICK k \in Nat : Bound(i - 1, k)
      BY <1>3
    <2> DEFINE big == IF k >= list[i].num THEN k ELSE list[i].num
    <2>2. big \in Nat /\ k <= big /\ list[i].num \in 0..big
      BY <1>1
    <2>3. \A j \in 1..i : j \in 1..(i - 1) \/ j = i
      BY <1>1
    <2> HIDE DEF big
    <2>4. \A j \in 1..(i - 1) : list[j].num \in 0..big
      BY <2>1, <2>2
    <2>5. Bound(i, big) /\ i \in 0..n
      BY <1>1, <2>2, <2>3, <2>4
    <2>6. QED
      BY <2>2, <2>5
  <1>4. 0..n \subseteq U
    <2> HIDE DEF U
    <2>1. QED
      BY <1>1, <1>2, <1>3, UpTo
  <1>5. n \in U
    <2> HIDE DEF U
    <2>1. n \in 0..n
      BY <1>1
    <2>2. QED
      BY <1>4, <2>1
  <1>6. QED
    BY <1>5 DEF n

\* A free number is above all others.
LEMMA NextFreeFacts ==
    ASSUME NEW C, NEW N, NEW Y, NEW list \in Seq(Entry(C, N, Y)), NEW done \in Seq(Entry(C, N, Y)), Len(list) >= 1
    PROVE  LET next == NextFree(list, done)
           IN /\ next \in Nat /\ next # NoNum
              /\ \A i \in 1..Len(list) : list[i].num < next
              /\ \A i \in 1..Len(done) : done[i].num < next
  <1> DEFINE T == {o.num : o \in Range(list) \cup Range(done)}
  <1>1. PICK k \in Nat : \A i \in 1..Len(list) : list[i].num \in 0..k
    BY NumsBounded
  <1>2. PICK h \in Nat : \A i \in 1..Len(done) : done[i].num \in 0..h
    BY NumsBounded
  <1>3. Range(list) = {list[i] : i \in 1..Len(list)} /\ Range(done) = {done[i] : i \in 1..Len(done)}
    <2>1. DOMAIN list = 1..Len(list) /\ DOMAIN done = 1..Len(done)
      OBVIOUS
    <2>2. QED
      BY <2>1 DEF Range
  <1>4. \A x \in T : (\E i \in 1..Len(list) : x = list[i].num) \/ (\E i \in 1..Len(done) : x = done[i].num)
    BY <1>3
  <1>5. (\A i \in 1..Len(list) : list[i].num \in T) /\ (\A i \in 1..Len(done) : done[i].num \in T)
    BY <1>3
  <1>6. 1 \in 1..Len(list)
    OBVIOUS
  <1>7. NextFree(list, done) = Max(T) + 1
    BY DEF NextFree
  <1> HIDE DEF T
  <1>8. T \subseteq 0..(k + h) /\ T # {} /\ k + h \in Nat
    <2>1. ASSUME NEW x \in T
          PROVE  x \in 0..(k + h)
      <3>1. x \in 0..k \/ x \in 0..h
        BY <1>1, <1>2, <1>4
      <3>2. QED
        BY <3>1
    <2>2. QED
      BY <1>5, <1>6, <2>1
  <1>9. Max(T) \in T /\ \A y \in T : y <= Max(T)
    BY <1>8, MaxFacts
  <1>10. Max(T) \in Nat /\ \A y \in T : y \in Nat /\ y < Max(T) + 1
    <2>1. \A y \in T : y \in Nat
      BY <1>8
    <2>2. QED
      BY <1>9, <2>1
  <1>11. QED
    BY <1>5, <1>7, <1>10 DEF NoNum

\* What the first k entries are once they are numbered.
IsNumbered(done, list, k) ==
    /\ Len(done) = k
    /\ \A i \in 1..k : done[i].name = list[i].name /\ done[i].by = list[i].by
    /\ \A i \in 1..k : list[i].num # NoNum => done[i].num = list[i].num
    /\ \A i \in 1..k : list[i].num = NoNum =>
         (\A j \in 1..Len(list) : list[j].num < done[i].num) /\ (\A j \in 1..(i - 1) : done[j].num < done[i].num)

LEMMA NumberedFacts ==
    ASSUME NEW C, NEW N, NEW Y, NEW list \in Seq(Entry(C, N, Y))
    PROVE  Numbered(list) \in Seq(Entry(C, N, Y)) /\ IsNumbered(Numbered(list), list, Len(list))
  <1> DEFINE S == Entry(C, N, Y)
             V == Seq(S)
             n == Len(list)
             NumberOf(i, x) == IF list[i].num # NoNum THEN list[i] ELSE [list[i] EXCEPT !.num = NextFree(list, x)]
             F == [ix \in (1..n) \X V |-> Append(ix[2], NumberOf(ix[1], ix[2]))]
             Is(f) == f = [i \in 0..n |->
                             IF i = 0 THEN <<>>
                             ELSE Append(f[i-1], IF list[i].num # NoNum THEN list[i]
                                                 ELSE [list[i] EXCEPT !.num = NextFree(list, f[i-1])])]
             m == CHOOSE f : f = [i \in 0..n |->
                             IF i = 0 THEN <<>>
                             ELSE Append(f[i-1], IF list[i].num # NoNum THEN list[i]
                                                 ELSE [list[i] EXCEPT !.num = NextFree(list, f[i-1])])]
  <1>1. n \in Nat /\ <<>> \in V /\ \A i \in 1..n : list[i] \in S /\ list[i].num \in Nat
    <2>1. n \in Nat /\ <<>> \in V /\ \A i \in 1..n : list[i] \in S
      OBVIOUS
    <2>2. \A x \in S : x.num \in Nat
      BY DEF Entry
    <2>3. QED
      BY <2>1, <2>2
  <1>2. ASSUME NEW i \in 1..n, NEW x \in V
        PROVE  /\ NumberOf(i, x) \in S
               /\ NumberOf(i, x).name = list[i].name /\ NumberOf(i, x).by = list[i].by
               /\ list[i].num # NoNum => NumberOf(i, x).num = list[i].num
               /\ list[i].num = NoNum => /\ \A j \in 1..n : list[j].num < NumberOf(i, x).num
                                         /\ \A j \in 1..Len(x) : x[j].num < NumberOf(i, x).num
    <2> DEFINE next == NextFree(list, x)
    <2>1. /\ next \in Nat
          /\ \A j \in 1..n : list[j].num < next
          /\ \A j \in 1..Len(x) : x[j].num < next
      <3>1. n >= 1 /\ x \in Seq(Entry(C, N, Y))
        BY <1>1
      <3>2. QED
        BY <3>1, NextFreeFacts
    <2> HIDE DEF next
    <2>2. /\ [list[i] EXCEPT !.num = next] \in S /\ [list[i] EXCEPT !.num = next].num = next
          /\ [list[i] EXCEPT !.num = next].name = list[i].name /\ [list[i] EXCEPT !.num = next].by = list[i].by
      <3>1. list[i] \in Entry(C, N, Y)
        BY <1>1
      <3>2. QED
        BY <2>1, <3>1, RowFacts
    <2>3. NumberOf(i, x) = IF list[i].num # NoNum THEN list[i] ELSE [list[i] EXCEPT !.num = next]
      BY DEF next
    <2> HIDE DEF NumberOf, n, S
    <2>4. CASE list[i].num # NoNum
      BY <1>1, <2>3, <2>4
    <2>5. CASE list[i].num = NoNum
      BY <2>1, <2>2, <2>3, <2>5
    <2>6. QED
      BY <2>4, <2>5
  <1> HIDE DEF NumberOf
  <1>3. ASSUME NEW i \in 1..n, NEW x \in V
        PROVE  F[<<i, x>>] = Append(x, NumberOf(i, x)) /\ F[<<i, x>>] \in V
    <2>1. F[<<i, x>>] = Append(x, NumberOf(i, x))
      <3> HIDE DEF V, n
      <3>1. QED
        OBVIOUS
    <2>2. NumberOf(i, x) \in S /\ x \in Seq(S)
      BY <1>2
    <2> HIDE DEF S, F
    <2>3. Append(x, NumberOf(i, x)) \in Seq(S)
      BY <2>2, AppendProperties
    <2>4. QED
      BY <2>1, <2>3
  <1> HIDE DEF F
  <1>4. \E f : IsPath(f, <<>>, F, n) /\ \A i \in 0..n : f[i] \in V
    <2> HIDE DEF n, V
    <2>1. \A i \in 1..n, x \in V : F[<<i, x>>] \in V
      BY <1>3
    <2>2. QED
      BY <1>1, <2>1, PathExists
  <1>5. PICK f : IsPath(f, <<>>, F, n) /\ \A i \in 0..n : f[i] \in V
    BY <1>4
  <1>6. Is(f)
    <2> HIDE DEF n, V
    <2>1. f = [i \in 0..n |-> IF i = 0 THEN <<>> ELSE F[<<i, f[i-1]>>]]
      BY <1>5 DEF IsPath
    <2>2. \A i \in 0..n : i # 0 => i \in 1..n /\ i - 1 \in 0..n
      BY <1>1
    <2>3. \A i \in 0..n : (IF i = 0 THEN <<>> ELSE F[<<i, f[i-1]>>])
                          = IF i = 0 THEN <<>> ELSE Append(f[i-1], NumberOf(i, f[i-1]))
      BY <1>3, <1>5, <2>2
    <2>4. [i \in 0..n |-> IF i = 0 THEN <<>> ELSE F[<<i, f[i-1]>>]]
            = [i \in 0..n |-> IF i = 0 THEN <<>> ELSE Append(f[i-1], NumberOf(i, f[i-1]))]
      BY <2>3
    <2>5. f = [i \in 0..n |-> IF i = 0 THEN <<>> ELSE Append(f[i-1], NumberOf(i, f[i-1]))]
      BY <2>1, <2>4
    <2>6. QED
      BY <2>5 DEF NumberOf
  <1>7. Is(m)
    <2> HIDE DEF n, V
    <2>1. QED
      BY <1>6
  <1>8. Numbered(list) = m[n]
    BY DEF Numbered
  <1> HIDE DEF m
  <1>9. m[0] = <<>> /\ \A i \in 1..n : m[i] = Append(m[i-1], NumberOf(i, m[i-1]))
    <2> HIDE DEF n, V
    <2>1. \A i \in 0..n : m[i] = IF i = 0 THEN <<>> ELSE Append(m[i-1], NumberOf(i, m[i-1]))
      BY <1>7 DEF NumberOf
    <2>2. 0 \in 0..n /\ \A i \in 1..n : i \in 0..n /\ i # 0
      BY <1>1
    <2>3. QED
      BY <2>1, <2>2
  <1> DEFINE U == {i \in 0..n : m[i] \in V /\ IsNumbered(m[i], list, i)}
  <1>10. 0 \in U
    <2>1. m[0] \in V
      BY <1>1, <1>9
    <2>2. Len(m[0]) = 0
      BY <1>9
    <2>3. IsNumbered(m[0], list, 0)
      BY <2>2 DEF IsNumbered
    <2>4. QED
      BY <1>1, <2>1, <2>3
  <1>11. ASSUME NEW i \in 1..n, i - 1 \in U
         PROVE  i \in U
    <2> DEFINE old == m[i-1]
               new == m[i]
               x == NumberOf(i, old)
    <2>1. i - 1 \in 0..n /\ i \in 0..n /\ i \in Nat /\ old \in V /\ IsNumbered(old, list, i - 1)
      BY <1>1, <1>11
    <2>2. new = Append(old, x)
      BY <1>9
    <2>3. /\ x \in S
          /\ x.name = list[i].name /\ x.by = list[i].by
          /\ list[i].num # NoNum => x.num = list[i].num
          /\ list[i].num = NoNum => /\ \A j \in 1..n : list[j].num < x.num
                                    /\ \A j \in 1..Len(old) : old[j].num < x.num
      BY <1>2, <2>1
    <2> HIDE DEF old, new, x, S
    <2>4. /\ Len(old) = i - 1
          /\ \A j \in 1..(i - 1) : old[j].name = list[j].name /\ old[j].by = list[j].by
          /\ \A j \in 1..(i - 1) : list[j].num # NoNum => old[j].num = list[j].num
          /\ \A j \in 1..(i - 1) : list[j].num = NoNum =>
               (\A k \in 1..n : list[k].num < old[j].num) /\ (\A k \in 1..(j - 1) : old[k].num < old[j].num)
      BY <2>1 DEF IsNumbered
    <2>5. new \in Seq(S) /\ Len(new) = i /\ new[i] = x /\ \A j \in 1..(i - 1) : new[j] = old[j]
      BY <2>1, <2>2, <2>3, <2>4, AppendProperties
    <2> HIDE DEF n
    <2>6. \A j \in 1..i : j \in 1..(i - 1) \/ j = i
      BY <2>1
    <2>7. \A j \in 1..(i - 1) : \A k \in 1..(j - 1) : k \in 1..(i - 1)
      BY <2>1
    <2>8. ASSUME NEW j \in 1..i, list[j].num = NoNum
          PROVE  (\A k \in 1..n : list[k].num < new[j].num) /\ (\A k \in 1..(j - 1) : new[k].num < new[j].num)
      <3>1. CASE j = i
        BY <2>3, <2>4, <2>5, <2>8, <3>1
      <3>2. CASE j # i
        <4>1. j \in 1..(i - 1)
          BY <2>6, <3>2
        <4>2. QED
          BY <2>4, <2>5, <2>7, <2>8, <4>1
      <3>3. QED
        BY <3>1, <3>2
    <2>9. \A j \in 1..i : new[j].name = list[j].name /\ new[j].by = list[j].by
      BY <2>3, <2>4, <2>5, <2>6
    <2>10. \A j \in 1..i : list[j].num # NoNum => new[j].num = list[j].num
      BY <2>3, <2>4, <2>5, <2>6
    <2>11. IsNumbered(new, list, i)
      BY <2>5, <2>8, <2>9, <2>10 DEF IsNumbered, n
    <2>12. QED
      BY <2>1, <2>5, <2>11 DEF new
  <1>12. 0..n \subseteq U
    <2> HIDE DEF U, n
    <2>1. QED
      BY <1>1, <1>10, <1>11, UpTo
  <1>13. n \in U
    BY <1>1, <1>12
  <1>14. QED
    BY <1>8, <1>13

\* The entries of the catalogue and of the extras, by a name of their own.
LEMMA ByNameFacts ==
    ASSUME NEW S, NEW list \in Seq(S), \A i, j \in 1..Len(list) : list[i].name = list[j].name => i = j,
           NEW i \in 1..Len(list)
    PROVE  ByName(list, list[i].name) = <<list[i]>>
  <1> DEFINE at == LastWith(list, "name", list[i].name)
  <1>1. \/ at = 0 /\ \A j \in 1..Len(list) : list[j].name # list[i].name
        \/ at \in 1..Len(list) /\ list[at].name = list[i].name
    BY LastWithFacts
  <1>2. ByName(list, list[i].name) = IF at = 0 THEN <<>> ELSE <<list[at]>>
    BY DEF ByName
  <1> HIDE DEF at
  <1>3. at = i /\ i # 0
    BY <1>1
  <1>4. QED
    BY <1>2, <1>3

LEMMA ByNumberFacts ==
    ASSUME NEW S, NEW list \in Seq(S), \A i, j \in 1..Len(list) : list[i].num = list[j].num => i = j,
           NEW i \in 1..Len(list)
    PROVE  ByNumber(list, list[i].num) = <<list[i]>>
  <1> DEFINE I == {j \in 1..Len(list) : list[j].num = list[i].num}
             at == IF I # {} THEN Min(I) ELSE 0
  <1>1. SelectInSeq(list, LAMBDA r : r.num = list[i].num) = at
    BY DEF SelectInSeq
  <1>2. ByNumber(list, list[i].num) = IF at = 0 THEN <<>> ELSE <<list[at]>>
    BY DEF ByNumber, SelectInSeq
  <1>3. I = {i} /\ I \subseteq Nat
    OBVIOUS
  <1>4. Min(I) \in I
    <2> HIDE DEF I
    <2>1. I # {}
      BY <1>3
    <2>2. QED
      BY <1>3, <2>1, MinFacts
  <1> HIDE DEF I
  <1>5. at = i /\ i # 0
    BY <1>3, <1>4
  <1> HIDE DEF at
  <1>6. QED
    BY <1>2, <1>5

LEMMA ExtrasTyped ==
    ASSUME LayersHold
    PROVE  \E C, N, Y : Rows \in Seq(Entry(C, N, Y)) /\ CustomMembers(layers) \in Seq(Entry(C, N, Y))
  <1> DEFINE T == Items(layers, "team")
             U == Items(layers, "user")
             S == Range(Base) \cup Range(T) \cup Range(U) \cup Range(Rows)
             C == {m.code : m \in S}
             N == {m.name : m \in S}
             Y == {m.by : m \in S}
  <1>1. Items(layers, "base") = Base /\ IsItems(Base) /\ IsItems(T) /\ IsItems(U) /\ IsItems(Rows)
    BY FilesTyped, CustomizationAssumption DEF CustomizationAssumption
  <1>2. Base \in Seq(S) /\ T \in Seq(S) /\ U \in Seq(S) /\ Rows \in Seq(S)
    BY <1>1 DEF IsItems
  <1>3. \A m \in S : IsItem(m)
    BY <1>1 DEF IsItems, Range
  <1> HIDE DEF S
  <1>4. S \subseteq Entry(C, N, Y)
    <2>1. ASSUME NEW m \in S
          PROVE  m \in Entry(C, N, Y)
      <3>1. m = [code |-> m.code, name |-> m.name, num |-> m.num, by |-> m.by] /\ m.num \in Nat
        BY <1>3 DEF IsItem
      <3>2. m.code \in C /\ m.name \in N /\ m.by \in Y
        OBVIOUS
      <3> HIDE DEF C, N, Y
      <3>3. [code |-> m.code, name |-> m.name, num |-> m.num, by |-> m.by] \in Entry(C, N, Y)
        BY <3>1, <3>2 DEF Entry
      <3>4. QED
        BY <3>1, <3>3
    <2>2. QED
      BY <2>1
  <1>5. Merged(layers) \in Seq(S)
    BY <1>2, FilesMerge
  <1>6. CustomMembers(layers) \in Seq(S)
    BY <1>1, <1>2, <1>5 DEF CustomMembers
  <1> HIDE DEF C, N, Y
  <1>7. Rows \in Seq(Entry(C, N, Y)) /\ CustomMembers(layers) \in Seq(Entry(C, N, Y))
    BY <1>2, <1>4, <1>6
  <1>8. QED
    BY <1>7

LEMMA CatalogsHold == LayersHold => CatalogsAgree
  <1> SUFFICES ASSUME LayersHold
               PROVE  CatalogsAgree
    OBVIOUS
  <1> DEFINE extras == CustomMembers(layers)
             techniques == Techniques(Rows, extras)
             methods == Methods(Rows, extras)
  <1>1. PICK C, N, Y : Rows \in Seq(Entry(C, N, Y)) /\ extras \in Seq(Entry(C, N, Y))
    BY ExtrasTyped
  <1> DEFINE S == Entry(C, N, Y)
             r == Len(Rows)
  <1>2. r \in Nat /\ DOMAIN Rows = 1..r /\ Rows \in Seq(S) /\ extras \in Seq(S)
    BY <1>1
  <1>3. /\ \A i, j \in 1..r : Rows[i].name = Rows[j].name \/ Rows[i].num = Rows[j].num => i = j
        /\ \A i \in 1..r : Rows[i].num # NoNum
    BY <1>2, ShippedAssumption DEF ShippedAssumption
  <1> HIDE DEF extras, S, r
  <1>4. PICK list \in Seq(S) :
          /\ methods = Numbered(list) /\ Alike(techniques, list)
          /\ (\A i \in 1..Len(extras) : extras[i].num = NoNum) => RowsStand(list, Rows)
    <2>1. \A i, j \in 1..Len(Rows) : Rows[i].name = Rows[j].name => i = j
      BY <1>3 DEF r
    <2>2. QED
      BY <1>2, <2>1, AlikeAtEnd DEF S
  <1> HIDE DEF techniques, methods
  <1> DEFINE n == Len(list)
  <1>5. methods \in Seq(S) /\ IsNumbered(methods, list, n)
    BY <1>4, NumberedFacts DEF S
  <1>6. n \in Nat /\ Len(methods) = n /\ Len(techniques) = n /\ DOMAIN methods = 1..n
    BY <1>4, <1>5 DEF Alike, IsNumbered
  <1> HIDE DEF n
  <1>7. /\ \A i \in 1..n : techniques[i].name = list[i].name /\ techniques[i].by = list[i].by
        /\ \A i, j \in 1..n : list[i].name = list[j].name => i = j
    BY <1>4, <1>6 DEF Alike, n
  <1>8. /\ \A i \in 1..n : methods[i].name = list[i].name /\ methods[i].by = list[i].by
        /\ \A i \in 1..n : list[i].num # NoNum => methods[i].num = list[i].num
        /\ \A i \in 1..n : list[i].num = NoNum =>
             (\A j \in 1..n : list[j].num < methods[i].num) /\ (\A j \in 1..(i - 1) : methods[j].num < methods[i].num)
    BY <1>5 DEF IsNumbered, n
  <1>9. \A i \in 1..n : techniques[i].name = methods[i].name /\ techniques[i].by = methods[i].by
    BY <1>7, <1>8
  <1>10. ASSUME NEW i \in 1..n
         PROVE  ByName(methods, methods[i].name) = <<methods[i]>>
    <2>1. \A j, k \in 1..Len(methods) : methods[j].name = methods[k].name => j = k
      BY <1>6, <1>7, <1>8
    <2>2. QED
      BY <1>5, <1>6, <2>1, ByNameFacts
  <1>11. ASSUME \A e \in Range(extras) : e.num = NoNum
         PROVE  /\ \A i \in 1..n : ByNumber(methods, methods[i].num) = <<methods[i]>>
                /\ \A i \in 1..r : methods[i].num = Rows[i].num /\ methods[i].name = Rows[i].name
    <2>1. \A i \in 1..Len(extras) : extras[i].num = NoNum
      <3>1. \A i \in 1..Len(extras) : extras[i] \in Range(extras)
        BY <1>2, CodeFacts
      <3>2. QED
        BY <1>11, <3>1
    <2>2. /\ n >= r
          /\ \A i \in 1..r : list[i].num = Rows[i].num /\ list[i].name = Rows[i].name
          /\ \A i \in 1..n : i > r => list[i].num = NoNum
      BY <1>4, <2>1 DEF RowsStand, n, r
    <2>3. \A i \in 1..r : i \in 1..n
      BY <1>2, <1>6, <2>2
    <2>4. \A i \in 1..n : list[i].num # NoNum => i \in 1..r
      BY <1>2, <1>6, <2>2
    <2>5. \A i \in 1..r : methods[i].num = Rows[i].num /\ methods[i].name = Rows[i].name
      BY <1>3, <1>8, <2>2, <2>3
    <2>6. \A i \in 1..n : methods[i].num \in Nat /\ list[i].num \in Nat
      <3>1. \A x \in S : x.num \in Nat
        BY DEF S, Entry
      <3>2. \A i \in 1..n : methods[i] \in S /\ list[i] \in S
        BY <1>4, <1>5, <1>6 DEF n
      <3>3. QED
        BY <3>1, <3>2
    <2>7. ASSUME NEW i \in 1..n, NEW j \in 1..n, i < j
          PROVE  methods[i].num # methods[j].num
      <3>1. CASE list[j].num = NoNum
        <4>1. i \in 1..(j - 1)
          BY <1>6, <2>7
        <4>2. methods[i].num < methods[j].num
          BY <1>8, <3>1, <4>1
        <4>3. QED
          BY <2>6, <4>2
      <3>2. CASE list[j].num # NoNum /\ list[i].num = NoNum
        <4>1. methods[j].num = list[j].num /\ list[j].num < methods[i].num
          BY <1>8, <3>2
        <4>2. QED
          BY <2>6, <4>1
      <3>3. CASE list[j].num # NoNum /\ list[i].num # NoNum
        <4>1. i \in 1..r /\ j \in 1..r
          BY <2>4, <3>3
        <4>2. i # j
          BY <1>6, <2>7
        <4>3. QED
          BY <1>3, <2>5, <4>1, <4>2
      <3>4. QED
        BY <3>1, <3>2, <3>3
    <2>8. \A i, j \in 1..Len(methods) : methods[i].num = methods[j].num => i = j
      <3>1. \A i, j \in 1..n : i # j => i < j \/ j < i
        BY <1>6
      <3>2. QED
        BY <1>6, <2>7, <3>1
    <2>9. \A i \in 1..n : ByNumber(methods, methods[i].num) = <<methods[i]>>
      BY <1>5, <1>6, <2>8, ByNumberFacts
    <2>10. QED
      BY <2>5, <2>9
  <1>12. QED
    BY <1>2, <1>6, <1>9, <1>10, <1>11 DEF CatalogsAgree, extras, techniques, methods, r

\* Both merge_extra functions lay the same extras over the same rows alike, and
\* every entry is found by its name and its number (brain.py, pick_methods.py).
THEOREM CatalogsAlwaysAgree == CustomSpec => []CatalogsAgree
  <1>1. CustomSpec => []LayersHold
    BY LayersInit, LayersStep, PTL DEF CustomSpec
  <1>2. QED
    BY <1>1, CatalogsHold, PTL

-----------------------------------------------------------------------------
(* The rosters.                                                            *)

\* What the rosters, the persons and the agents grow by.
RosterStep(d, list, i) == list \o RosterIn(d, ScanRecord(d, ModuleOrder[i]))
PersonStep(d, members, answers, list, i) ==
    IF members[i].code \in Codes(list) THEN list ELSE Append(list, Person(d, members[i], answers))
Residents(people) == Only(people, {m \in Range(people) : m.here = "installed"})
Gone(people) == {m.code : m \in {m \in Range(people) : m.here = "gone"}}
AgentStep(people, infos, list, i) ==
    IF infos[i].code \in Codes(list) \cup Gone(people) THEN list
    ELSE Append(list, [code |-> infos[i].code, name |-> NameOr(infos[i].name, infos[i].code), here |-> "config"])

RostersBy(f, d) ==
    Rosters(d) = f[Len(ModuleOrder)] /\ f[0] = <<>> /\ \A i \in 1..Len(ModuleOrder) : f[i] = RosterStep(d, f[i-1], i)
LEMMA RosterSteps ==
    ASSUME NEW d, Len(ModuleOrder) \in Nat
    PROVE  \E f : RostersBy(f, d)
  <1> DEFINE n == Len(ModuleOrder)
             Is(f, k) == f = [i \in 0..k |-> IF i = 0 THEN <<>> ELSE RosterStep(d, f[i-1], i)]
             T == {k \in Nat : \E f : Is(f, k)}
             f == CHOOSE f : f = [i \in 0..n |-> IF i = 0 THEN <<>> ELSE RosterStep(d, f[i-1], i)]
  <1>0. n \in Nat
    OBVIOUS
  <1> HIDE DEF n
  <1>1. 0 \in T
    <2>1. Is([i \in 0..0 |-> <<>>], 0)
      OBVIOUS
    <2>2. QED
      BY <2>1
  <1>2. ASSUME NEW k \in Nat, k \in T
        PROVE  k + 1 \in T
    <2>1. PICK g : Is(g, k)
      BY <1>2
    <2> DEFINE h == [i \in 0..(k + 1) |-> IF i = 0 THEN <<>> ELSE RosterStep(d, g[i-1], i)]
    <2>2. \A i \in 0..k : h[i] = g[i]
      BY <2>1
    <2>3. \A i \in 0..(k + 1) : i # 0 => i - 1 \in 0..k
      OBVIOUS
    <2>4. \A i \in 0..(k + 1) : (IF i = 0 THEN <<>> ELSE RosterStep(d, g[i-1], i))
                                 = (IF i = 0 THEN <<>> ELSE RosterStep(d, h[i-1], i))
      <3> HIDE DEF h
      <3>1. QED
        BY <2>2, <2>3
    <2>5. [i \in 0..(k + 1) |-> IF i = 0 THEN <<>> ELSE RosterStep(d, g[i-1], i)]
            = [i \in 0..(k + 1) |-> IF i = 0 THEN <<>> ELSE RosterStep(d, h[i-1], i)]
      <3> HIDE DEF h
      <3>1. QED
        BY <2>4
    <2>6. Is(h, k + 1)
      BY <2>5
    <2>7. QED
      <3> HIDE DEF h
      <3>1. QED
        BY <2>6
  <1>3. Nat \subseteq T
    <2> HIDE DEF T
    <2>1. QED
      BY <1>1, <1>2, Induction
  <1>4. Is(f, n)
    BY <1>0, <1>3
  <1>5. Rosters(d) = f[n]
    BY DEF Rosters, RosterStep, n
  <1> HIDE DEF f
  <1>6. 0 \in 0..n /\ \A i \in 1..n : i \in 0..n /\ i # 0
    BY <1>0
  <1>7. f[0] = <<>> /\ \A i \in 1..n : f[i] = RosterStep(d, f[i-1], i)
    BY <1>4, <1>6
  <1>8. QED
    BY <1>5, <1>7 DEF RostersBy, n

PersonsBy(f, d, members, answers) ==
    Persons(d, members, answers) = f[Len(members)] /\ f[0] = <<>> /\ \A i \in 1..Len(members) : f[i] = PersonStep(d, members, answers, f[i-1], i)
LEMMA PersonSteps ==
    ASSUME NEW d, NEW members, NEW answers, Len(members) \in Nat
    PROVE  \E f : PersonsBy(f, d, members, answers)
  <1> DEFINE n == Len(members)
             Is(f, k) == f = [i \in 0..k |-> IF i = 0 THEN <<>> ELSE PersonStep(d, members, answers, f[i-1], i)]
             T == {k \in Nat : \E f : Is(f, k)}
             f == CHOOSE f : f = [i \in 0..n |-> IF i = 0 THEN <<>> ELSE PersonStep(d, members, answers, f[i-1], i)]
  <1>0. n \in Nat
    OBVIOUS
  <1> HIDE DEF n
  <1>1. 0 \in T
    <2>1. Is([i \in 0..0 |-> <<>>], 0)
      OBVIOUS
    <2>2. QED
      BY <2>1
  <1>2. ASSUME NEW k \in Nat, k \in T
        PROVE  k + 1 \in T
    <2>1. PICK g : Is(g, k)
      BY <1>2
    <2> DEFINE h == [i \in 0..(k + 1) |-> IF i = 0 THEN <<>> ELSE PersonStep(d, members, answers, g[i-1], i)]
    <2>2. \A i \in 0..k : h[i] = g[i]
      BY <2>1
    <2>3. \A i \in 0..(k + 1) : i # 0 => i - 1 \in 0..k
      OBVIOUS
    <2>4. \A i \in 0..(k + 1) : (IF i = 0 THEN <<>> ELSE PersonStep(d, members, answers, g[i-1], i))
                                 = (IF i = 0 THEN <<>> ELSE PersonStep(d, members, answers, h[i-1], i))
      <3> HIDE DEF h
      <3>1. QED
        BY <2>2, <2>3
    <2>5. [i \in 0..(k + 1) |-> IF i = 0 THEN <<>> ELSE PersonStep(d, members, answers, g[i-1], i)]
            = [i \in 0..(k + 1) |-> IF i = 0 THEN <<>> ELSE PersonStep(d, members, answers, h[i-1], i)]
      <3> HIDE DEF h
      <3>1. QED
        BY <2>4
    <2>6. Is(h, k + 1)
      BY <2>5
    <2>7. QED
      <3> HIDE DEF h
      <3>1. QED
        BY <2>6
  <1>3. Nat \subseteq T
    <2> HIDE DEF T
    <2>1. QED
      BY <1>1, <1>2, Induction
  <1>4. Is(f, n)
    BY <1>0, <1>3
  <1>5. Persons(d, members, answers) = f[n]
    BY DEF Persons, PersonStep, n
  <1> HIDE DEF f
  <1>6. 0 \in 0..n /\ \A i \in 1..n : i \in 0..n /\ i # 0
    BY <1>0
  <1>7. f[0] = <<>> /\ \A i \in 1..n : f[i] = PersonStep(d, members, answers, f[i-1], i)
    BY <1>4, <1>6
  <1>8. QED
    BY <1>5, <1>7 DEF PersonsBy, n

AgentsBy(f, people, infos) ==
    Agents(people, infos) = f[Len(infos)] /\ f[0] = Residents(people) /\ \A i \in 1..Len(infos) : f[i] = AgentStep(people, infos, f[i-1], i)
LEMMA AgentSteps ==
    ASSUME NEW people, NEW infos, Len(infos) \in Nat
    PROVE  \E f : AgentsBy(f, people, infos)
  <1> DEFINE n == Len(infos)
             Is(f, k) == f = [i \in 0..k |-> IF i = 0 THEN Residents(people) ELSE AgentStep(people, infos, f[i-1], i)]
             T == {k \in Nat : \E f : Is(f, k)}
             f == CHOOSE f : f = [i \in 0..n |-> IF i = 0 THEN Residents(people) ELSE AgentStep(people, infos, f[i-1], i)]
  <1>0. n \in Nat
    OBVIOUS
  <1> HIDE DEF n
  <1>1. 0 \in T
    <2>1. Is([i \in 0..0 |-> Residents(people)], 0)
      OBVIOUS
    <2>2. QED
      BY <2>1
  <1>2. ASSUME NEW k \in Nat, k \in T
        PROVE  k + 1 \in T
    <2>1. PICK g : Is(g, k)
      BY <1>2
    <2> DEFINE h == [i \in 0..(k + 1) |-> IF i = 0 THEN Residents(people) ELSE AgentStep(people, infos, g[i-1], i)]
    <2>2. \A i \in 0..k : h[i] = g[i]
      BY <2>1
    <2>3. \A i \in 0..(k + 1) : i # 0 => i - 1 \in 0..k
      OBVIOUS
    <2>4. \A i \in 0..(k + 1) : (IF i = 0 THEN Residents(people) ELSE AgentStep(people, infos, g[i-1], i))
                                 = (IF i = 0 THEN Residents(people) ELSE AgentStep(people, infos, h[i-1], i))
      <3> HIDE DEF h
      <3>1. QED
        BY <2>2, <2>3
    <2>5. [i \in 0..(k + 1) |-> IF i = 0 THEN Residents(people) ELSE AgentStep(people, infos, g[i-1], i)]
            = [i \in 0..(k + 1) |-> IF i = 0 THEN Residents(people) ELSE AgentStep(people, infos, h[i-1], i)]
      <3> HIDE DEF h
      <3>1. QED
        BY <2>4
    <2>6. Is(h, k + 1)
      BY <2>5
    <2>7. QED
      <3> HIDE DEF h
      <3>1. QED
        BY <2>6
  <1>3. Nat \subseteq T
    <2> HIDE DEF T
    <2>1. QED
      BY <1>1, <1>2, Induction
  <1>4. Is(f, n)
    BY <1>0, <1>3
  <1>5. Agents(people, infos) = f[n]
    BY DEF Agents, AgentStep, Gone, Residents, n
  <1> HIDE DEF f
  <1>6. 0 \in 0..n /\ \A i \in 1..n : i \in 0..n /\ i # 0
    BY <1>0
  <1>7. f[0] = Residents(people) /\ \A i \in 1..n : f[i] = AgentStep(people, infos, f[i-1], i)
    BY <1>4, <1>6
  <1>8. QED
    BY <1>5, <1>7 DEF AgentsBy, n

\* The rosters' members all have a code.
OnRosters == UNION {Range(Content[pn].roster) : pn \in Places \X Names}

LEMMA RosterFacts ==
    ASSUME NEW d \in Disks
    PROVE  Rosters(d) \in Seq(OnRosters) /\ \A m \in OnRosters : m.code # NoCode
  <1> DEFINE n == Len(ModuleOrder)
  <1>1. n \in Nat /\ DOMAIN ModuleOrder = 1..n
    BY RoomsAssumption DEF RoomsAssumption
  <1>2. ASSUME NEW pn \in Places \X Names
        PROVE  Content[pn].roster \in Seq(OnRosters)
    <2>1. Content[pn].roster \in Seq(Range(Content[pn].roster))
      BY RoomsAssumption DEF RoomsAssumption
    <2>2. Range(Content[pn].roster) \subseteq OnRosters
      BY DEF OnRosters
    <2>3. QED
      BY <2>1, <2>2, SeqMonotonic
  <1>3. ASSUME NEW low
        PROVE  RosterIn(d, ScanRecord(d, low)) \in Seq(OnRosters)
    <2> DEFINE m == ScanRecord(d, low)
               p == Folder(d, m)
    <2>1. m \in Names \cup {NoName}
      <3> DEFINE at == Across(d)
                 records == {x \in Names : /\ UsableRecord(FileAt(at[x], x))
                                           /\ Fold[FileAt(at[x], x).code] = low}
                 nearest == {x \in records : \A y \in records : RootOf(d, x) <= RootOf(d, y)}
      <3>1. m = FirstOf(nearest)
        BY DEF ScanRecord
      <3>2. nearest \subseteq Names
        OBVIOUS
      <3> HIDE DEF nearest
      <3>3. QED
        BY <3>1, <3>2, FirstOfFacts
    <2> HIDE DEF m
    <2>2. m \in Names => p \in Places \cup {NoPlace}
      <3>1. \/ RootOf(d, m) = 0
            \/ RootOf(d, m) \in DOMAIN Roots
        BY RootFacts
      <3>2. RootOf(d, m) \in DOMAIN Roots => Roots[RootOf(d, m)] \in Places
        BY SequenceFacts
      <3>3. ASSUME NEW q \in Places, m \in Names
            PROVE  DirOf(d, q, m) \in Places \cup {NoPlace}
        BY <3>3 DEF DirOf, Disks
      <3>4. QED
        BY <3>1, <3>2, <3>3 DEF Folder
    <2>3. CASE m = NoName
      BY <2>3, EmptySeq DEF RosterIn, m
    <2>4. CASE m \in Names /\ p \in Places
      <3>1. FileAt(p, m) = Content[<<p, m>>]
        BY <2>4, InstallationAssumption DEF FileAt, InstallationAssumption
      <3>2. FileAt(p, m).roster \in Seq(OnRosters)
        BY <1>2, <2>4, <3>1
      <3>3. QED
        BY <3>2, EmptySeq DEF RosterIn, m
    <2>5. CASE m \in Names /\ p = NoPlace
      <3>1. FileAt(p, m).roster = <<>>
        BY <2>5 DEF FileAt, NoFile
      <3>2. QED
        BY <3>1, EmptySeq DEF RosterIn, m
    <2>6. QED
      BY <2>1, <2>2, <2>3, <2>4, <2>5
  <1>4. PICK f : RostersBy(f, d)
    <2>1. Len(ModuleOrder) \in Nat
      BY <1>1
    <2>2. QED
      BY ONLY <2>1, RosterSteps
  <1> DEFINE T == {i \in 0..n : f[i] \in Seq(OnRosters)}
  <1>5. 0 \in T
    <2>1. f[0] = <<>> /\ 0 \in 0..n
      BY <1>1, <1>4 DEF RostersBy
    <2>2. <<>> \in Seq(OnRosters)
      OBVIOUS
    <2>3. QED
      BY <2>1, <2>2
  <1>6. ASSUME NEW i \in 1..n, i - 1 \in T
        PROVE  i \in T
    <2>1. f[i] = f[i-1] \o RosterIn(d, ScanRecord(d, ModuleOrder[i]))
      BY <1>4 DEF RosterStep, RostersBy
    <2>2. f[i-1] \in Seq(OnRosters)
      BY <1>6
    <2>3. f[i] \in Seq(OnRosters)
      BY <1>3, <2>1, <2>2, ConcatProperties
    <2>4. QED
      BY <1>1, <2>3
  <1>7. 0..n \subseteq T
    <2> HIDE DEF T, n
    <2>1. QED
      BY <1>1, <1>5, <1>6, UpTo
  <1>8. n \in 0..n
    BY <1>1
  <1>9. \A m \in OnRosters : m.code # NoCode
    <2>1. ASSUME NEW pn \in Places \X Names, NEW m \in Range(Content[pn].roster)
          PROVE  m.code # NoCode
      BY RoomsAssumption DEF RoomsAssumption, Range
    <2>2. QED
      BY <2>1 DEF OnRosters
  <1>10. QED
    BY <1>4, <1>7, <1>8, <1>9 DEF RostersBy

\* Nobody is on a list twice.
OneEach(list) == \A i, j \in 1..Len(list) : list[i].code = list[j].code => i = j

LEMMA OneMore ==
    ASSUME NEW S, NEW list \in Seq(S), OneEach(list), NEW p \in S, p.code \notin Codes(list)
    PROVE  Append(list, p) \in Seq(S) /\ OneEach(Append(list, p))
  <1> DEFINE n == Len(list)
             new == Append(list, p)
  <1>1. /\ n \in Nat /\ new \in Seq(S) /\ Len(new) = n + 1
        /\ \A i \in 1..n : new[i] = list[i] /\ new[i].code \in Codes(list)
        /\ new[n + 1] = p
    BY CodeFacts, AppendProperties
  <1> HIDE DEF n, new
  <1>2. \A i \in 1..(n + 1) : i \in 1..n \/ i = n + 1
    BY <1>1
  <1>3. OneEach(list) => \A i, j \in 1..n : list[i].code = list[j].code => i = j
    BY DEF OneEach, n
  <1>4. \A i, j \in 1..(n + 1) : new[i].code = new[j].code => i = j
    BY <1>1, <1>2, <1>3
  <1>5. QED
    BY <1>1, <1>4 DEF OneEach, new

PersonOf(d, members, answers) == {Person(d, m, answers) : m \in Range(members)}

LEMMA PersonFacts ==
    ASSUME NEW d, NEW R, NEW members \in Seq(R), NEW answers
    PROVE  /\ Persons(d, members, answers) \in Seq(PersonOf(d, members, answers))
           /\ OneEach(Persons(d, members, answers))
  <1> DEFINE n == Len(members)
             P == PersonOf(d, members, answers)
  <1>1. n \in Nat /\ \A i \in 1..n : Person(d, members[i], answers) \in P
    <2>1. n \in Nat /\ Range(members) = {members[i] : i \in 1..n}
      BY CodeFacts
    <2>2. QED
      BY <2>1 DEF PersonOf
  <1>2. PICK f : PersonsBy(f, d, members, answers)
    BY <1>1, PersonSteps
  <1> DEFINE T == {i \in 0..n : f[i] \in Seq(P) /\ OneEach(f[i])}
  <1>3. 0 \in T
    <2>1. 0 \in 0..n
      BY <1>1
    <2>2. <<>> \in Seq(P) /\ OneEach(<<>>)
      BY DEF OneEach
    <2>3. QED
      BY <1>2, <2>1, <2>2 DEF PersonsBy
  <1>4. ASSUME NEW i \in 1..n, i - 1 \in T
        PROVE  i \in T
    <2> DEFINE old == f[i-1]
               p == Person(d, members[i], answers)
    <2>1. old \in Seq(P) /\ OneEach(old) /\ i \in 0..n /\ p \in P
      BY <1>1, <1>4
    <2>2. f[i] = IF members[i].code \in Codes(old) THEN old ELSE Append(old, p)
      BY <1>2 DEF PersonStep, PersonsBy
    <2>3. p.code = members[i].code
      BY DEF Person
    <2> HIDE DEF old, p, P
    <2>4. f[i] \in Seq(P) /\ OneEach(f[i])
      BY <2>1, <2>2, <2>3, OneMore
    <2>5. QED
      BY <2>1, <2>4
  <1>5. 0..n \subseteq T
    <2> HIDE DEF T, n
    <2>1. QED
      BY <1>1, <1>3, <1>4, UpTo
  <1>6. n \in 0..n
    BY <1>1
  <1>7. QED
    BY <1>2, <1>5, <1>6 DEF PersonsBy

LEMMA OnlyOneEach ==
    ASSUME NEW S, NEW s \in Seq(S), OneEach(s), NEW X
    PROVE  Only(s, X) \in Seq(S \cap X) /\ OneEach(Only(s, X)) /\ Range(Only(s, X)) = Range(s) \cap X
  <1> DEFINE o == Only(s, X)
  <1>1. o \in Seq(S) /\ OnlyOf(o, s, X, Len(s))
    BY OnlyFacts
  <1> HIDE DEF o
  <1>2. Len(o) \in Nat /\ Range(o) = {o[i] : i \in 1..Len(o)} /\ o \in Seq(Range(o))
    BY <1>1, CodeFacts
  <1>3. Len(s) \in Nat /\ Range(s) = {s[i] : i \in 1..Len(s)} /\ Range(s) \subseteq S
    BY CodeFacts
  <1>4. Range(o) = Range(s) \cap X
    BY <1>1, <1>3 DEF OnlyOf
  <1>5. Range(o) \subseteq S \cap X
    BY <1>3, <1>4
  <1>6. o \in Seq(S \cap X)
    BY <1>2, <1>5, SeqMonotonic
  <1>7. ASSUME NEW a \in 1..Len(o), NEW b \in 1..Len(o), a < b
        PROVE  o[a].code # o[b].code
    <2>1. PICK i \in 1..Len(s), j \in 1..Len(s) : i < j /\ o[a] = s[i] /\ o[b] = s[j]
      BY <1>1, <1>7 DEF OnlyOf
    <2>2. QED
      BY <2>1 DEF OneEach
  <1>8. \A a, b \in 1..Len(o) : a < b \/ b < a \/ a = b
    BY <1>2
  <1>9. OneEach(o)
    BY <1>7, <1>8 DEF OneEach
  <1>10. QED
    BY <1>4, <1>6, <1>9 DEF o

\* Who has a seat by default: installed, or described in the central config.
Described(infos) == {[code |-> i.code, name |-> NameOr(i.name, i.code), here |-> "config"] : i \in Range(infos)}
AgentOf(people, infos) == {m \in Range(people) : m.here = "installed"} \cup Described(infos)

LEMMA AgentFacts ==
    ASSUME NEW S, NEW people \in Seq(S), OneEach(people), NEW C, NEW infos \in Seq(C)
    PROVE  Agents(people, infos) \in Seq(AgentOf(people, infos)) /\ OneEach(Agents(people, infos))
  <1> DEFINE n == Len(infos)
             A == AgentOf(people, infos)
             X == {m \in Range(people) : m.here = "installed"}
  <1>1. /\ n \in Nat
        /\ \A i \in 1..n : [code |-> infos[i].code, name |-> NameOr(infos[i].name, infos[i].code), here |-> "config"] \in A
    <2>1. n \in Nat /\ Range(infos) = {infos[i] : i \in 1..n}
      BY CodeFacts
    <2>2. QED
      BY <2>1 DEF AgentOf, Described
  <1>2. PICK f : AgentsBy(f, people, infos)
    BY <1>1, AgentSteps
  <1>3. Residents(people) \in Seq(A) /\ OneEach(Residents(people))
    <2>1. Only(people, X) \in Seq(S \cap X) /\ OneEach(Only(people, X))
      BY OnlyOneEach
    <2>2. S \cap X \subseteq A
      BY DEF AgentOf
    <2> HIDE DEF X, A
    <2>3. Only(people, X) \in Seq(A)
      BY <2>1, <2>2, SeqMonotonic
    <2>4. QED
      BY <2>1, <2>3 DEF Residents, X
  <1> DEFINE T == {i \in 0..n : f[i] \in Seq(A) /\ OneEach(f[i])}
  <1>4. 0 \in T
    <2>1. 0 \in 0..n
      BY <1>1
    <2>2. QED
      BY <1>2, <1>3, <2>1 DEF AgentsBy
  <1>5. ASSUME NEW i \in 1..n, i - 1 \in T
        PROVE  i \in T
    <2> DEFINE old == f[i-1]
               p == [code |-> infos[i].code, name |-> NameOr(infos[i].name, infos[i].code), here |-> "config"]
    <2>1. old \in Seq(A) /\ OneEach(old) /\ i \in 0..n /\ p \in A
      BY <1>1, <1>5
    <2>2. f[i] = IF infos[i].code \in Codes(old) \cup Gone(people) THEN old ELSE Append(old, p)
      BY <1>2 DEF AgentStep, AgentsBy
    <2>3. p.code = infos[i].code
      OBVIOUS
    <2> HIDE DEF old, p, A
    <2>4. f[i] \in Seq(A) /\ OneEach(f[i])
      BY <2>1, <2>2, <2>3, OneMore
    <2>5. QED
      BY <2>1, <2>4
  <1>6. 0..n \subseteq T
    <2> HIDE DEF T, n
    <2>1. QED
      BY <1>1, <1>4, <1>5, UpTo
  <1>7. n \in 0..n
    BY <1>1
  <1>8. QED
    BY <1>2, <1>6, <1>7 DEF AgentsBy

-----------------------------------------------------------------------------
(* The rooms.                                                              *)

\* Everyone in the pool is under a code of their own and has one of the names or
\* the code for a name; a code finds its own unless it is somebody's name; and a
\* token that is neither a code nor a name finds the only one whose short form
\* it is.
RoomSound(room, N) ==
    /\ Nobody \notin DOMAIN room.pool
    /\ \A c \in DOMAIN room.pool :
         /\ room.pool[c].code = c /\ room.pool[c].name \in N \cup {c}
         /\ c \in N \/ (c \in DOMAIN room.index /\ room.index[c] = c)
         /\ PartyAlias[c] \in DOMAIN room.owner
    /\ \A t \in DOMAIN room.index :
         /\ room.index[t] \in DOMAIN room.pool
         /\ \/ t \in DOMAIN room.pool \cup N
            \/ t \in DOMAIN room.owner /\ room.owner[t] \in DOMAIN room.pool /\ room.index[t] = room.owner[t]
    /\ \A t \in DOMAIN room.owner :
         \/ room.owner[t] = Nobody
         \/ room.owner[t] \in DOMAIN room.pool /\ \A c \in DOMAIN room.pool : PartyAlias[c] = t => c = room.owner[t]

LEMMA RegisterSound ==
    ASSUME NEW room, NEW N, NEW p, RoomSound(room, N), p.code # Nobody, p.name \in N \cup {p.code}
    PROVE  RoomSound(Register(room, p), N) /\ DOMAIN Register(room, p).pool = DOMAIN room.pool \cup {p.code}
  <1> DEFINE k == p.code
             alias == PartyAlias[k]
             first == IF alias \in DOMAIN room.owner THEN room.owner[alias] ELSE k
             coded == With(room.index, k, k)
             kicked == /\ first \notin {k, Nobody} /\ alias # first
                       /\ alias \in DOMAIN coded /\ coded[alias] = first
             aliased == CASE first = k -> WithFirst(coded, alias, k)
                          [] kicked -> Without(coded, alias)
                          [] OTHER -> coded
             new == Register(room, p)
  <1>1. /\ new.pool = With(room.pool, k, p) /\ new.index = With(aliased, p.name, k)
        /\ new.owner = With(room.owner, alias, IF first = k THEN first ELSE Nobody)
    BY DEF Register
  <1> DEFINE D == DOMAIN room.pool
             I == DOMAIN room.index
             O == DOMAIN room.owner
  <1>2. /\ DOMAIN new.pool = D \cup {k} /\ new.pool[k] = p
        /\ \A c \in D : c # k => new.pool[c] = room.pool[c]
    <2>1. new.pool = [y \in D \cup {k} |-> IF y = k THEN p ELSE room.pool[y]]
      BY <1>1 DEF With
    <2> HIDE DEF new, D, k
    <2>2. QED
      BY <2>1
  <1>3. /\ DOMAIN new.owner = O \cup {alias} /\ new.owner[alias] = (IF first = k THEN k ELSE Nobody)
        /\ \A t \in O : t # alias => new.owner[t] = room.owner[t]
    <2>1. new.owner = [y \in O \cup {alias} |-> IF y = alias THEN (IF first = k THEN first ELSE Nobody) ELSE room.owner[y]]
      BY <1>1 DEF With
    <2> HIDE DEF new, O, k, alias, first
    <2>2. QED
      BY <2>1
  <1>4. /\ DOMAIN coded = I \cup {k} /\ coded[k] = k
        /\ \A t \in I : t # k => coded[t] = room.index[t]
    <2>1. coded = [y \in I \cup {k} |-> IF y = k THEN k ELSE room.index[y]]
      BY DEF With
    <2> HIDE DEF coded, I, k
    <2>2. QED
      BY <2>1
  <1> HIDE DEF coded
  <1>5. /\ DOMAIN aliased \subseteq I \cup {k, alias}
        /\ \A t \in I \cup {k} : t # alias => t \in DOMAIN aliased /\ aliased[t] = coded[t]
        /\ first = k => alias \in DOMAIN aliased /\ aliased[alias] = (IF alias \in I \cup {k} THEN coded[alias] ELSE k)
        /\ first # k /\ alias \in DOMAIN aliased => ~kicked /\ alias \in I \cup {k} /\ aliased[alias] = coded[alias]
        /\ first # k /\ alias \in I \cup {k} /\ ~kicked => alias \in DOMAIN aliased
    <2>1. CASE first = k
      <3>1. aliased = WithFirst(coded, alias, k)
        BY <2>1
      <3>2. aliased = IF alias \in I \cup {k} THEN coded ELSE [y \in I \cup {k} \cup {alias} |-> IF y = alias THEN k ELSE coded[y]]
        BY <1>4, <3>1 DEF With, WithFirst
      <3> HIDE DEF aliased, I, k, alias, first
      <3>3. QED
        BY <1>4, <2>1, <3>2
    <2>2. CASE first # k /\ kicked
      <3>1. aliased = Without(coded, alias)
        BY <2>2
      <3>2. aliased = [y \in (I \cup {k}) \ {alias} |-> coded[y]]
        BY <1>4, <3>1 DEF Without
      <3> HIDE DEF aliased, I, k, alias, first, kicked
      <3>3. QED
        BY <1>4, <2>2, <3>2
    <2>3. CASE first # k /\ ~kicked
      <3>1. aliased = coded
        BY <2>3
      <3>2. QED
        BY <1>4, <2>3, <3>1
    <2>4. QED
      BY <2>1, <2>2, <2>3
  <1> HIDE DEF aliased
  <1>6. /\ DOMAIN new.index = DOMAIN aliased \cup {p.name} /\ new.index[p.name] = k
        /\ \A t \in DOMAIN aliased : t # p.name => new.index[t] = aliased[t]
    <2>1. new.index = [y \in DOMAIN aliased \cup {p.name} |-> IF y = p.name THEN k ELSE aliased[y]]
      BY <1>1 DEF With
    <2> HIDE DEF new, k
    <2>2. QED
      BY <2>1
  <1>7. /\ Nobody \notin D
        /\ \A c \in D : /\ room.pool[c].code = c /\ room.pool[c].name \in N \cup {c}
                        /\ c \in N \/ (c \in I /\ room.index[c] = c)
                        /\ PartyAlias[c] \in O
        /\ \A t \in I : /\ room.index[t] \in D
                        /\ t \in D \cup N \/ (t \in O /\ room.owner[t] \in D /\ room.index[t] = room.owner[t])
        /\ \A t \in O : \/ room.owner[t] = Nobody
                        \/ room.owner[t] \in D /\ \A c \in D : PartyAlias[c] = t => c = room.owner[t]
    BY DEF RoomSound
  <1>8. /\ first = k \/ first = Nobody \/ (alias \in O /\ first \in D /\ \A c \in D : PartyAlias[c] = alias => c = first)
        /\ first # k => alias \in O /\ room.owner[alias] = first
        /\ alias \in O => first = room.owner[alias]
    BY <1>7
  <1> HIDE DEF new, D, I, O
  <1>9. \A c \in DOMAIN new.pool :
          /\ new.pool[c].code = c /\ new.pool[c].name \in N \cup {c}
          /\ PartyAlias[c] \in DOMAIN new.owner
    BY <1>2, <1>3, <1>7
  <1>10. ASSUME NEW c \in DOMAIN new.pool
         PROVE  c \in N \/ (c \in DOMAIN new.index /\ new.index[c] = c)
    <2>1. SUFFICES ASSUME c \notin N
                   PROVE  c \in DOMAIN new.index /\ new.index[c] = c
      OBVIOUS
    <2>2. p.name = c => c = k
      BY <2>1
    <2>3. c \in I \cup {k} /\ coded[c] = c
      BY <1>2, <1>4, <1>7, <2>1
    <2>4. CASE c = p.name
      BY <1>6, <2>2, <2>4
    <2>5. CASE c # alias /\ c # p.name
      BY <1>5, <1>6, <2>3, <2>5
    <2>6. CASE c = alias /\ c # p.name
      <3>1. first # k => ~kicked
        BY <2>3, <2>6
      <3>2. c \in DOMAIN aliased /\ aliased[c] = c
        BY <1>5, <2>3, <2>6, <3>1
      <3>3. QED
        BY <1>6, <2>6, <3>2
    <2>7. QED
      BY <2>4, <2>5, <2>6
  <1>11. ASSUME NEW t \in DOMAIN new.index
         PROVE  /\ new.index[t] \in DOMAIN new.pool
                /\ \/ t \in DOMAIN new.pool \cup N
                   \/ t \in DOMAIN new.owner /\ new.owner[t] \in DOMAIN new.pool /\ new.index[t] = new.owner[t]
    <2>1. CASE t = p.name
      BY <1>2, <1>6, <2>1
    <2>2. CASE t # p.name /\ t = k
      <3>1. t \in DOMAIN aliased /\ new.index[t] = aliased[t]
        BY <1>6, <2>2
      <3>2. aliased[t] = k
        BY <1>4, <1>5, <2>2, <3>1
      <3>3. QED
        BY <1>2, <2>2, <3>1, <3>2
    <2>3. CASE t # p.name /\ t # k /\ t # alias
      <3>1. t \in DOMAIN aliased /\ new.index[t] = aliased[t]
        BY <1>6, <2>3
      <3>2. t \in I /\ aliased[t] = room.index[t]
        BY <1>4, <1>5, <2>3, <3>1
      <3>3. QED
        BY <1>2, <1>3, <1>7, <2>3, <3>1, <3>2
    <2>4. CASE t # p.name /\ t # k /\ t = alias
      <3>1. t \in DOMAIN aliased /\ new.index[t] = aliased[t]
        BY <1>6, <2>4
      <3>2. CASE first = k
        <4>1. aliased[t] = IF t \in I THEN room.index[t] ELSE k
          BY <1>4, <1>5, <2>4, <3>2
        <4>2. new.owner[t] = k
          BY <1>3, <2>4, <3>2
        <4>3. CASE t \notin I
          BY <1>2, <1>3, <2>4, <3>1, <4>1, <4>2, <4>3
        <4>4. CASE t \in I
          <5>1. room.index[t] \in D /\ (t \in D \cup N \/ (t \in O /\ room.index[t] = room.owner[t]))
            BY <1>7, <4>4
          <5>2. t \in O => room.owner[t] = k
            BY <1>8, <2>4, <3>2
          <5>3. QED
            BY <1>2, <1>3, <2>4, <3>1, <4>1, <4>2, <4>4, <5>1, <5>2
        <4>5. QED
          BY <4>3, <4>4
      <3>3. CASE first # k
        <4>1. ~kicked /\ t \in I /\ aliased[t] = room.index[t] /\ coded[t] = room.index[t]
          BY <1>4, <1>5, <2>4, <3>1, <3>3
        <4>2. room.index[t] \in D /\ (t \in D \cup N \/ (t \in O /\ room.owner[t] \in D /\ room.index[t] = room.owner[t]))
          BY <1>7, <4>1
        <4>3. t \in D \cup N
          <5>1. SUFFICES ASSUME t \in O, room.owner[t] \in D, room.index[t] = room.owner[t], t \notin D
                         PROVE  FALSE
            BY <4>2
          <5>2. first = room.owner[t] /\ first # Nobody
            BY <1>7, <1>8, <2>4, <5>1
          <5>3. t # first
            BY <5>1, <5>2
          <5>4. t \in DOMAIN coded /\ coded[t] = first
            BY <1>4, <4>1, <5>1, <5>2
          <5>5. QED
            BY <2>4, <3>3, <4>1, <5>2, <5>3, <5>4
        <4>4. QED
          BY <1>2, <3>1, <4>1, <4>2, <4>3
      <3>4. QED
        BY <3>2, <3>3
    <2>5. QED
      BY <2>1, <2>2, <2>3, <2>4
  <1>12. ASSUME NEW t \in DOMAIN new.owner
         PROVE  \/ new.owner[t] = Nobody
                \/ new.owner[t] \in DOMAIN new.pool /\ \A c \in DOMAIN new.pool : PartyAlias[c] = t => c = new.owner[t]
    <2>1. CASE t # alias
      BY <1>2, <1>3, <1>7, <2>1
    <2>2. CASE t = alias /\ first = k
      <3>1. new.owner[t] = k
        BY <1>3, <2>2
      <3>2. \A c \in D : PartyAlias[c] = alias => c = k
        <4>1. CASE alias \in O
          <5>1. room.owner[alias] = k
            BY <1>8, <2>2, <4>1
          <5>2. QED
            BY <1>7, <4>1, <5>1
        <4>2. CASE alias \notin O
          BY <1>7, <4>2
        <4>3. QED
          BY <4>1, <4>2
      <3>3. QED
        BY <1>2, <2>2, <3>1, <3>2
    <2>3. CASE t = alias /\ first # k
      BY <1>3, <2>3
    <2>4. QED
      BY <2>1, <2>2, <2>3
  <1>13. Nobody \notin DOMAIN new.pool
    BY <1>2, <1>7
  <1>14. RoomSound(new, N)
    BY <1>9, <1>10, <1>11, <1>12, <1>13 DEF RoomSound
  <1>15. QED
    BY <1>2, <1>14 DEF new, D
-----------------------------------------------------------------------------
(* The seats.                                                              *)

SeatBy(f, people) ==
    Seat(people, Register) = f[Len(people)] /\ f[0] = EmptyRoom /\ \A i \in 1..Len(people) : f[i] = Register(f[i-1], people[i])
LEMMA SeatSteps ==
    ASSUME NEW people, Len(people) \in Nat
    PROVE  \E f : SeatBy(f, people)
  <1> DEFINE n == Len(people)
             Is(f, k) == f = [i \in 0..k |-> IF i = 0 THEN EmptyRoom ELSE Register(f[i-1], people[i])]
             T == {k \in Nat : \E f : Is(f, k)}
             f == CHOOSE f : f = [i \in 0..n |-> IF i = 0 THEN EmptyRoom ELSE Register(f[i-1], people[i])]
  <1>0. n \in Nat
    OBVIOUS
  <1> HIDE DEF n
  <1>1. 0 \in T
    <2>1. Is([i \in 0..0 |-> EmptyRoom], 0)
      OBVIOUS
    <2>2. QED
      BY <2>1
  <1>2. ASSUME NEW k \in Nat, k \in T
        PROVE  k + 1 \in T
    <2>1. PICK g : Is(g, k)
      BY <1>2
    <2> DEFINE h == [i \in 0..(k + 1) |-> IF i = 0 THEN EmptyRoom ELSE Register(g[i-1], people[i])]
    <2>2. \A i \in 0..k : h[i] = g[i]
      BY <2>1
    <2>3. \A i \in 0..(k + 1) : i # 0 => i - 1 \in 0..k
      OBVIOUS
    <2>4. \A i \in 0..(k + 1) : (IF i = 0 THEN EmptyRoom ELSE Register(g[i-1], people[i]))
                                 = (IF i = 0 THEN EmptyRoom ELSE Register(h[i-1], people[i]))
      <3> HIDE DEF h
      <3>1. QED
        BY <2>2, <2>3
    <2>5. [i \in 0..(k + 1) |-> IF i = 0 THEN EmptyRoom ELSE Register(g[i-1], people[i])]
            = [i \in 0..(k + 1) |-> IF i = 0 THEN EmptyRoom ELSE Register(h[i-1], people[i])]
      <3> HIDE DEF h
      <3>1. QED
        BY <2>4
    <2>6. Is(h, k + 1)
      BY <2>5
    <2>7. QED
      <3> HIDE DEF h
      <3>1. QED
        BY <2>6
  <1>3. Nat \subseteq T
    <2> HIDE DEF T
    <2>1. QED
      BY <1>1, <1>2, Induction
  <1>4. Is(f, n)
    BY <1>0, <1>3
  <1>5. Seat(people, Register) = f[n]
    BY DEF Seat, n
  <1> HIDE DEF f
  <1>6. 0 \in 0..n /\ \A i \in 1..n : i \in 0..n /\ i # 0
    BY <1>0
  <1>7. f[0] = EmptyRoom /\ \A i \in 1..n : f[i] = Register(f[i-1], people[i])
    BY <1>4, <1>6
  <1>8. QED
    BY <1>5, <1>7 DEF SeatBy, n

\* The members that have a code.
Coded(items) == Only(items, {m \in Range(items) : m.code \notin {NoCode, BadCode}})
CustomStep(room, items, i) == Register(room, Custom(room, Coded(items)[i]))

CustomBy(f, room, items) ==
    SeatCustom(room, items, Register) = f[Len(Coded(items))] /\ f[0] = room /\ \A i \in 1..Len(Coded(items)) : f[i] = CustomStep(f[i-1], items, i)
LEMMA CustomSteps ==
    ASSUME NEW room, NEW items, Len(Coded(items)) \in Nat
    PROVE  \E f : CustomBy(f, room, items)
  <1> DEFINE n == Len(Coded(items))
             Is(f, k) == f = [i \in 0..k |-> IF i = 0 THEN room ELSE CustomStep(f[i-1], items, i)]
             T == {k \in Nat : \E f : Is(f, k)}
             f == CHOOSE f : f = [i \in 0..n |-> IF i = 0 THEN room ELSE CustomStep(f[i-1], items, i)]
  <1>0. n \in Nat
    OBVIOUS
  <1> HIDE DEF n
  <1>1. 0 \in T
    <2>1. Is([i \in 0..0 |-> room], 0)
      OBVIOUS
    <2>2. QED
      BY <2>1
  <1>2. ASSUME NEW k \in Nat, k \in T
        PROVE  k + 1 \in T
    <2>1. PICK g : Is(g, k)
      BY <1>2
    <2> DEFINE h == [i \in 0..(k + 1) |-> IF i = 0 THEN room ELSE CustomStep(g[i-1], items, i)]
    <2>2. \A i \in 0..k : h[i] = g[i]
      BY <2>1
    <2>3. \A i \in 0..(k + 1) : i # 0 => i - 1 \in 0..k
      OBVIOUS
    <2>4. \A i \in 0..(k + 1) : (IF i = 0 THEN room ELSE CustomStep(g[i-1], items, i))
                                 = (IF i = 0 THEN room ELSE CustomStep(h[i-1], items, i))
      <3> HIDE DEF h
      <3>1. QED
        BY <2>2, <2>3
    <2>5. [i \in 0..(k + 1) |-> IF i = 0 THEN room ELSE CustomStep(g[i-1], items, i)]
            = [i \in 0..(k + 1) |-> IF i = 0 THEN room ELSE CustomStep(h[i-1], items, i)]
      <3> HIDE DEF h
      <3>1. QED
        BY <2>4
    <2>6. Is(h, k + 1)
      BY <2>5
    <2>7. QED
      <3> HIDE DEF h
      <3>1. QED
        BY <2>6
  <1>3. Nat \subseteq T
    <2> HIDE DEF T
    <2>1. QED
      BY <1>1, <1>2, Induction
  <1>4. Is(f, n)
    BY <1>0, <1>3
  <1>5. SeatCustom(room, items, Register) = f[n]
    BY DEF SeatCustom, CustomStep, Coded, n
  <1> HIDE DEF f
  <1>6. 0 \in 0..n /\ \A i \in 1..n : i \in 0..n /\ i # 0
    BY <1>0
  <1>7. f[0] = room /\ \A i \in 1..n : f[i] = CustomStep(f[i-1], items, i)
    BY <1>4, <1>6
  <1>8. QED
    BY <1>5, <1>7 DEF CustomBy, n

LEMMA EmptySound ==
    ASSUME NEW N
    PROVE  RoomSound(EmptyRoom, N) /\ DOMAIN EmptyRoom.pool = {}
  BY DEF RoomSound, EmptyRoom, Nothing

LEMMA SeatFacts ==
    ASSUME NEW S, NEW people \in Seq(S), NEW N,
           \A i \in 1..Len(people) : people[i].code # Nobody /\ people[i].name \in N \cup {people[i].code}
    PROVE  /\ RoomSound(Seat(people, Register), N)
           /\ \A i \in 1..Len(people) : people[i].code \in DOMAIN Seat(people, Register).pool
  <1> DEFINE n == Len(people)
  <1>1. n \in Nat
    OBVIOUS
  <1>2. PICK f : SeatBy(f, people)
    BY ONLY <1>1, SeatSteps
  <1> DEFINE Sat(i) == RoomSound(f[i], N) /\ \A j \in 1..i : people[j].code \in DOMAIN f[i].pool
             T == {i \in 0..n : Sat(i)}
  <1>3. 0 \in T
    <2>1. f[0] = EmptyRoom
      BY <1>2 DEF SeatBy
    <2>2. Sat(0)
      BY <2>1, EmptySound
    <2> HIDE DEF Sat
    <2>3. QED
      BY <1>1, <2>2
  <1>4. ASSUME NEW i \in 1..n, i - 1 \in T
        PROVE  i \in T
    <2> DEFINE old == f[i-1]
               p == people[i]
    <2>1. RoomSound(old, N) /\ \A j \in 1..(i - 1) : people[j].code \in DOMAIN old.pool
      BY <1>4
    <2>2. f[i] = Register(old, p)
      BY <1>2 DEF SeatBy
    <2>3. p.code # Nobody /\ p.name \in N \cup {p.code}
      OBVIOUS
    <2> HIDE DEF old, p
    <2>4. RoomSound(Register(old, p), N) /\ DOMAIN Register(old, p).pool = DOMAIN old.pool \cup {p.code}
      BY <2>1, <2>3, RegisterSound
    <2>5. \A j \in 1..i : j \in 1..(i - 1) \/ j = i
      BY <1>1
    <2>6. \A j \in 1..i : people[j].code \in DOMAIN f[i].pool
      BY <2>1, <2>2, <2>4, <2>5 DEF p
    <2>7. Sat(i)
      BY <2>2, <2>4, <2>6
    <2> HIDE DEF Sat
    <2>8. QED
      BY <1>1, <2>7
  <1>5. 0..n \subseteq T
    <2> HIDE DEF T, n
    <2>1. QED
      BY <1>1, <1>3, <1>4, UpTo
  <1>6. n \in 0..n
    BY <1>1
  <1>7. QED
    BY <1>2, <1>5, <1>6 DEF SeatBy

LEMMA CustomKept ==
    ASSUME NEW room, NEW N, RoomSound(room, N), NEW m, m.code # Nobody, m.name \in N
    PROVE  Custom(room, m).code # Nobody /\ Custom(room, m).name \in N \cup {Custom(room, m).code}
  <1> DEFINE code == Custom(room, m).code
  <1>1. code = (IF m.code \in DOMAIN room.index THEN room.index[m.code] ELSE m.code)
    BY DEF Custom
  <1>2. Custom(room, m).name = NameOr(m.name, IF code \in DOMAIN room.pool THEN room.pool[code].name ELSE code)
    BY DEF Custom
  <1> HIDE DEF code
  <1>3. /\ Nobody \notin DOMAIN room.pool
        /\ \A c \in DOMAIN room.pool : room.pool[c].name \in N \cup {c}
        /\ \A t \in DOMAIN room.index : room.index[t] \in DOMAIN room.pool
    BY DEF RoomSound
  <1>4. code # Nobody
    BY <1>1, <1>3
  <1>5. Custom(room, m).name \in N \cup {code}
    BY <1>2, <1>3 DEF NameOr
  <1>6. QED
    BY <1>4, <1>5 DEF code

LEMMA CustomFacts ==
    ASSUME NEW room, NEW N, RoomSound(room, N), NEW S, NEW items \in Seq(S), NamesOf(items) \subseteq N
    PROVE  /\ RoomSound(SeatCustom(room, items, Register), N)
           /\ DOMAIN room.pool \subseteq DOMAIN SeatCustom(room, items, Register).pool
  <1> DEFINE list == Coded(items)
             n == Len(list)
             X == {m \in Range(items) : m.code \notin {NoCode, BadCode}}
  <1>1. n \in Nat /\ \A i \in 1..n : list[i].code # Nobody /\ list[i].name \in N
    <2>1. list \in Seq(S) /\ OnlyOf(list, items, X, Len(items))
      BY OnlyFacts DEF Coded
    <2>2. Range(list) = {items[i] : i \in {h \in 1..Len(items) : items[h] \in X}}
      BY <2>1 DEF OnlyOf
    <2>3. \A i \in 1..Len(items) : items[i].name \in N
      BY DEF NamesOf
    <2> HIDE DEF list
    <2>4. n \in Nat /\ \A i \in 1..n : list[i] \in Range(list)
      BY <2>1, CodeFacts
    <2>5. \A i \in 1..n : list[i] \in X /\ list[i].name \in N
      BY <2>2, <2>3, <2>4
    <2>6. QED
      BY <2>4, <2>5 DEF Nobody, NoCode, BadCode
  <1>2. PICK f : CustomBy(f, room, items)
    BY <1>1, CustomSteps
  <1> DEFINE Sat(i) == RoomSound(f[i], N) /\ DOMAIN room.pool \subseteq DOMAIN f[i].pool
             T == {i \in 0..n : Sat(i)}
  <1>3. 0 \in T
    <2>1. f[0] = room
      BY <1>2 DEF CustomBy
    <2>2. Sat(0)
      BY <2>1
    <2> HIDE DEF Sat
    <2>3. QED
      BY <1>1, <2>2
  <1>4. ASSUME NEW i \in 1..n, i - 1 \in T
        PROVE  i \in T
    <2> DEFINE old == f[i-1]
               m == list[i]
               p == Custom(old, m)
    <2>1. RoomSound(old, N) /\ DOMAIN room.pool \subseteq DOMAIN old.pool
      BY <1>4
    <2>2. f[i] = Register(old, p)
      BY <1>2 DEF CustomBy, CustomStep
    <2>3. m.code # Nobody /\ m.name \in N
      BY <1>1
    <2> HIDE DEF old, m
    <2>4. p.code # Nobody /\ p.name \in N \cup {p.code}
      BY <2>1, <2>3, CustomKept
    <2> HIDE DEF p
    <2>5. RoomSound(Register(old, p), N) /\ DOMAIN Register(old, p).pool = DOMAIN old.pool \cup {p.code}
      BY <2>1, <2>4, RegisterSound
    <2>6. Sat(i)
      BY <2>1, <2>2, <2>5
    <2> HIDE DEF Sat
    <2>7. QED
      BY <1>1, <2>6
  <1>5. 0..n \subseteq T
    <2> HIDE DEF T, n
    <2>1. QED
      BY <1>1, <1>3, <1>4, UpTo
  <1>6. n \in 0..n
    BY <1>1
  <1>7. QED
    BY <1>2, <1>5, <1>6 DEF CustomBy

-----------------------------------------------------------------------------
(* The agents of the room.                                                 *)

RoomsHold == LayersHold /\ folders \in Disks /\ central \in Seq(Central) /\ own \in Seq(OwnGroups)

LEMMA RoomsInit == CustomInit => RoomsHold
  <1> SUFFICES ASSUME CustomInit
               PROVE  RoomsHold
    OBVIOUS
  <1>1. folders \in Disks
    BY CustomizationAssumption DEF CustomInit, CustomizationAssumption
  <1>2. central \in Seq(Central) /\ own \in Seq(OwnGroups)
    BY DEF CustomInit
  <1>3. QED
    BY <1>1, <1>2, LayersInit DEF RoomsHold

LEMMA RoomsStep == RoomsHold /\ [CustomNext]_customVars => RoomsHold'
  <1> SUFFICES ASSUME RoomsHold, [CustomNext]_customVars
               PROVE  RoomsHold'
    OBVIOUS
  <1>1. LayersHold'
    BY LayersStep DEF RoomsHold
  <1>2. folders \in Disks /\ central \in Seq(Central) /\ own \in Seq(OwnGroups)
    BY DEF RoomsHold
  <1>3. folders' \in Disks /\ central' \in Seq(Central) /\ own' \in Seq(OwnGroups)
    <2>1. ASSUME NEW p \in Range(Roots), NEW n \in Names, Install(p, n) \/ Uninstall(p, n)
          PROVE  folders' \in Disks /\ central' = central /\ own' = own
      <3>1. Range(Roots) \subseteq Places
        BY SequenceFacts DEF Range
      <3>2. folders' = [folders EXCEPT ![<<p, n>>] = p] \/ folders' = [folders EXCEPT ![<<p, n>>] = NoPlace]
        BY <2>1 DEF Install, Uninstall
      <3>3. QED
        BY <1>2, <2>1, <3>1, <3>2 DEF Disks, Install, Uninstall
    <2>2. ASSUME NEW info \in Central, Describe(info)
          PROVE  folders' = folders /\ central' \in Seq(Central) /\ own' = own
      BY <1>2, <2>2 DEF Describe
    <2>3. CASE UNCHANGED customVars
      BY <1>2, <2>3 DEF customVars
    <2>4. ASSUME NEW l \in Edited, Break(l) \/ Misspell(l) \/ Erase(l) \/ \E item \in Written : Write(l, item)
          PROVE  folders' = folders /\ central' = central /\ own' = own
      BY <2>4 DEF Break, Misspell, Erase, Write
    <2>5. ASSUME NEW n \in DOMAIN BaseName, NEW l \in Edited, NEW name \in Nicknames, Rename(n, l, name)
          PROVE  folders' = folders /\ central' = central /\ own' = own
      BY <2>5 DEF Rename
    <2>6. ASSUME NEW group \in OwnGroups, Gather(group)
          PROVE  folders' = folders /\ central' = central /\ own' \in Seq(OwnGroups)
      BY <2>6 DEF Gather
    <2>7. ASSUME NEW code \in Defaults, Prefer(code)
          PROVE  folders' = folders /\ central' = central /\ own' = own
      BY <2>7 DEF Prefer
    <2>8. QED
      BY <1>2, <2>1, <2>2, <2>3, <2>4, <2>5, <2>6, <2>7 DEF CustomNext
  <1>4. QED
    BY <1>1, <1>3 DEF RoomsHold

\* Everyone the rosters and the central config offer has a code, and each is on
\* the list once.
LEMMA OfferedFacts ==
    ASSUME RoomsHold, NEW people, NEW agents,
           people = People(folders, Answers), agents = Agents(people, central)
    PROVE  /\ people \in Seq(PersonOf(folders, Rosters(folders), Answers)) /\ OneEach(people)
           /\ agents \in Seq(AgentOf(people, central)) /\ OneEach(agents)
           /\ \A m \in Range(people) \cup Range(agents) : m.code # Nobody
  <1> DEFINE rosters == Rosters(folders)
             P == PersonOf(folders, rosters, Answers)
             A == AgentOf(people, central)
  <1>1. folders \in Disks /\ central \in Seq(Central)
    BY DEF RoomsHold
  <1>2. rosters \in Seq(OnRosters) /\ \A m \in OnRosters : m.code # NoCode
    BY <1>1, RosterFacts
  <1>3. people \in Seq(P) /\ OneEach(people)
    <2>1. Persons(folders, rosters, Answers) \in Seq(P) /\ OneEach(Persons(folders, rosters, Answers))
      BY ONLY <1>2, PersonFacts
    <2>2. QED
      BY <2>1 DEF People
  <1> HIDE DEF rosters, P, A
  <1>4. agents \in Seq(A) /\ OneEach(agents)
    BY <1>1, <1>3, AgentFacts DEF A
  <1>5. \A m \in P : m.code # Nobody
    <2>1. Range(rosters) \subseteq OnRosters
      BY <1>2, CodeFacts
    <2>2. \A m \in Range(rosters) : Person(folders, m, Answers).code = m.code
      BY DEF Person
    <2>3. QED
      BY <1>2, <2>1, <2>2 DEF P, PersonOf, rosters, Nobody
  <1>6. Range(people) \subseteq P
    BY <1>3, CodeFacts
  <1>7. Range(agents) \subseteq A
    BY <1>4, CodeFacts
  <1>8. \A m \in Described(central) : m.code # Nobody
    <2>1. Range(central) \subseteq Central
      BY <1>1, CodeFacts
    <2>2. \A info \in Central : info.code # Nobody
      BY CustomizationAssumption DEF CustomizationAssumption, Nobody
    <2>3. QED
      BY <2>1, <2>2 DEF Described
  <1>9. \A m \in A : m.code # Nobody
    BY <1>5, <1>6, <1>8 DEF A, AgentOf
  <1>10. QED
    BY <1>3, <1>4, <1>5, <1>6, <1>7, <1>9 DEF P, A, rosters

\* Who is seated before the members a user added: the agents, and the people of
\* the rosters that are none.
LEMMA ComersFacts ==
    ASSUME NEW S, NEW people \in Seq(S), NEW A, NEW agents \in Seq(A)
    PROVE  LET all == agents \o Guests(people, agents)
           IN /\ all \in Seq(A \cup S) /\ Len(all) \in Nat /\ Len(agents) \in Nat /\ Len(all) >= Len(agents)
              /\ \A i \in 1..Len(agents) : all[i] = agents[i]
              /\ \A i \in 1..Len(all) : all[i] \in Range(agents) \cup Range(people)
  <1> DEFINE X == {m \in Range(people) : m.code \notin Codes(agents)}
             guests == Guests(people, agents)
             all == agents \o guests
  <1>1. guests \in Seq(S) /\ Range(guests) \subseteq Range(people)
    <2>1. guests \in Seq(S) /\ OnlyOf(guests, people, X, Len(people))
      BY OnlyFacts DEF Guests
    <2>2. Range(guests) = {people[i] : i \in {h \in 1..Len(people) : people[h] \in X}}
      BY <2>1 DEF OnlyOf
    <2>3. QED
      BY <2>1, <2>2, CodeFacts
  <1>2. /\ all \in Seq(A \cup S) /\ Len(all) = Len(agents) + Len(guests)
        /\ Len(agents) \in Nat /\ Len(guests) \in Nat
        /\ \A i \in 1..Len(all) : all[i] = IF i <= Len(agents) THEN agents[i] ELSE guests[i - Len(agents)]
    <2>1. agents \in Seq(A \cup S) /\ guests \in Seq(A \cup S)
      BY <1>1, SeqMonotonic
    <2> HIDE DEF guests
    <2>2. QED
      BY <2>1, ConcatProperties
  <1> HIDE DEF guests, all
  <1>3. \A i \in 1..Len(all) : all[i] \in Range(agents) \cup Range(people)
    <2>1. Range(agents) = {agents[i] : i \in 1..Len(agents)}
      BY CodeFacts
    <2>2. Range(guests) = {guests[i] : i \in 1..Len(guests)}
      BY <1>1, CodeFacts
    <2> DEFINE a == Len(agents)
               g == Len(guests)
    <2>3. a \in Nat /\ g \in Nat /\ Len(all) = a + g
      BY <1>2
    <2> HIDE DEF a, g
    <2>4. \A i \in 1..(a + g) : IF i <= a THEN i \in 1..a ELSE i - a \in 1..g
      BY <2>3
    <2>5. ASSUME NEW i \in 1..(a + g)
          PROVE  all[i] \in Range(agents) \cup Range(people)
      <3>1. all[i] = IF i <= a THEN agents[i] ELSE guests[i - a]
        BY <1>2, <2>3 DEF a, g
      <3>2. CASE i <= a
        <4>1. i \in 1..a
          BY <2>4, <3>2
        <4>2. QED
          BY <2>1, <3>1, <3>2, <4>1 DEF a
      <3>3. CASE ~(i <= a)
        <4>1. i - a \in 1..g
          BY <2>4, <3>3
        <4>2. QED
          BY <1>1, <2>2, <3>1, <3>3, <4>1 DEF g
      <3>4. QED
        BY <3>2, <3>3
    <2>6. QED
      BY <2>3, <2>5
  <1>4. Len(all) \in Nat /\ Len(all) >= Len(agents) /\ \A i \in 1..Len(agents) : all[i] = agents[i]
    BY <1>2
  <1>5. QED
    BY <1>2, <1>3, <1>4 DEF all, guests

\* Who is in the agents' seats is in the room, under the code of the roster.
LEMMA CollectiveFacts ==
    ASSUME NEW S, NEW people \in Seq(S), NEW A, NEW agents \in Seq(A), NEW I, NEW items \in Seq(I),
           \A m \in Range(people) \cup Range(agents) : m.code # Nobody
    PROVE  LET room == Collective(agents, Guests(people, agents), items)
           IN /\ RoomSound(room, NamesOf(people) \cup NamesOf(agents) \cup NamesOf(items))
              /\ Codes(agents) \subseteq DOMAIN room.pool
  <1> DEFINE N == NamesOf(people) \cup NamesOf(agents) \cup NamesOf(items)
             all == agents \o Guests(people, agents)
             seated == Seat(all, Register)
  <1>1. /\ all \in Seq(A \cup S) /\ Len(all) \in Nat /\ Len(agents) \in Nat /\ Len(all) >= Len(agents)
        /\ \A i \in 1..Len(agents) : all[i] = agents[i]
        /\ \A i \in 1..Len(all) : all[i] \in Range(agents) \cup Range(people)
    <2>1. people \in Seq(S) /\ agents \in Seq(A)
      OBVIOUS
    <2>2. QED
      BY ONLY <2>1, ComersFacts
  <1>2. \A i \in 1..Len(all) : all[i] \in Range(agents) \cup Range(people)
    BY <1>1
  <1> HIDE DEF all
  <1>3. \A m \in Range(people) \cup Range(agents) : m.name \in N
    <2>1. \A m \in Range(people) : m.name \in NamesOf(people)
      BY DEF NamesOf, Range
    <2>2. \A m \in Range(agents) : m.name \in NamesOf(agents)
      BY DEF NamesOf, Range
    <2>3. QED
      BY <2>1, <2>2
  <1>4. \A i \in 1..Len(all) : all[i].code # Nobody /\ all[i].name \in N \cup {all[i].code}
    BY <1>2, <1>3
  <1> HIDE DEF N
  <1>5. RoomSound(seated, N) /\ \A i \in 1..Len(all) : all[i].code \in DOMAIN seated.pool
    BY <1>1, <1>4, SeatFacts
  <1> HIDE DEF seated
  <1>6. NamesOf(items) \subseteq N
    BY DEF N
  <1>7. RoomSound(SeatCustom(seated, items, Register), N) /\ DOMAIN seated.pool \subseteq DOMAIN SeatCustom(seated, items, Register).pool
    BY <1>5, <1>6, CustomFacts
  <1>8. Codes(agents) \subseteq DOMAIN seated.pool
    <2>1. \A i \in 1..Len(agents) : i \in 1..Len(all) /\ all[i] = agents[i]
      BY <1>1
    <2>2. Codes(agents) = {agents[i].code : i \in 1..Len(agents)}
      BY CodeFacts
    <2>3. QED
      BY <1>5, <2>1, <2>2
  <1>9. QED
    BY <1>7, <1>8 DEF Collective, N, seated, all

\* What the room holds makes the agents keep their seats and their names.
LEMMA AgentsHold == RoomsHold => RoomKeepsItsAgents
  <1> SUFFICES ASSUME RoomsHold
               PROVE  RoomKeepsItsAgents
    OBVIOUS
  <1> DEFINE people == People(folders, Answers)
             agents == Agents(people, central)
             items == CustomMembers(layers)
             N == NamesOf(people) \cup NamesOf(agents) \cup NamesOf(items)
             r == Report(FALSE)
             party == Collective(agents, Guests(people, agents), items)
             P == PersonOf(folders, Rosters(folders), Answers)
             A == AgentOf(people, central)
  <1>1. r.people = people /\ r.agents = agents /\ r.items = items /\ r.party = party
    <2> HIDE DEF people, agents, items
    <2>1. Roster(folders, Answers, central, OfferedGroups, FALSE) = RosterOf(people, central, OfferedGroups)
      BY DEF Roster, people
    <2> DEFINE roster == RosterOf(people, central, OfferedGroups)
    <2>2. roster.people = people /\ roster.agents = agents /\ roster.guests = Guests(people, agents)
      BY DEF RosterOf, agents
    <2>3. r = ReportOf(roster, items)
      BY <2>1 DEF Report, items
    <2> HIDE DEF roster, r
    <2>4. r = ReportOn(roster, items, Groups(roster.groups, own), Collective(roster.agents, roster.guests, items))
      BY <2>3 DEF ReportOf
    <2>5. r.people = roster.people /\ r.agents = roster.agents /\ r.items = items
          /\ r.party = Collective(roster.agents, roster.guests, items)
      BY <2>4 DEF ReportOn
    <2>6. QED
      BY <2>2, <2>5
  <1> HIDE DEF r
  <1>2. /\ people \in Seq(P) /\ OneEach(people) /\ agents \in Seq(A) /\ OneEach(agents)
        /\ \A m \in Range(people) \cup Range(agents) : m.code # Nobody
    BY OfferedFacts
  <1>3. PICK I : items \in Seq(I)
    <2>1. \E C, M, Y : Rows \in Seq(Entry(C, M, Y)) /\ CustomMembers(layers) \in Seq(Entry(C, M, Y))
      BY ExtrasTyped DEF RoomsHold
    <2>2. QED
      BY <2>1
  <1> HIDE DEF people, agents, items, P, A
  <1>4. RoomSound(party, N) /\ Codes(agents) \subseteq DOMAIN party.pool
    BY <1>2, <1>3, CollectiveFacts
  <1> HIDE DEF party, N
  <1> DEFINE pool == party.pool
             index == party.index
             seats == Seats(party, agents)
             n == Len(agents)
             names == N \cup {pool[c].name : c \in DOMAIN pool}
             shared == {PartyAlias[c] : c \in {a \in DOMAIN pool : \E b \in DOMAIN pool \ {a} : PartyAlias[a] = PartyAlias[b]}}
             skills(c) == {m.skill : m \in {o \in Range(Rosters(folders)) : o.code = c}}
  <1>5. /\ Nobody \notin DOMAIN pool
        /\ \A c \in DOMAIN pool :
             pool[c].code = c /\ (c \in N \/ (c \in DOMAIN index /\ index[c] = c)) /\ PartyAlias[c] \in DOMAIN party.owner
        /\ \A t \in DOMAIN index :
             t \in DOMAIN pool \cup N \/ (t \in DOMAIN party.owner /\ party.owner[t] \in DOMAIN pool)
        /\ \A t \in DOMAIN party.owner :
             party.owner[t] = Nobody \/ \A c \in DOMAIN pool : PartyAlias[c] = t => c = party.owner[t]
    BY <1>4 DEF RoomSound
  <1>6. n \in Nat /\ DOMAIN agents = 1..n /\ \A i \in 1..n : agents[i].code \in DOMAIN pool /\ agents[i] \in Range(agents)
    <2>1. n \in Nat /\ DOMAIN agents = 1..n /\ Codes(agents) = {agents[i].code : i \in 1..n}
          /\ Range(agents) = {agents[i] : i \in 1..n}
      BY <1>2, CodeFacts
    <2>2. QED
      BY <1>4, <2>1
  <1>7. seats \in Seq(Range(pool)) /\ Len(seats) = n /\ DOMAIN seats = 1..n /\ \A i \in 1..n : seats[i].code = agents[i].code
    <2>1. seats = [i \in 1..n |-> pool[agents[i].code]]
      BY <1>6 DEF Seats
    <2>2. \A i \in 1..n : pool[agents[i].code] \in Range(pool)
      BY <1>6 DEF Range
    <2> HIDE DEF pool, seats, n
    <2>3. seats \in [1..n -> Range(pool)]
      BY <2>1, <2>2
    <2>4. seats \in Seq(Range(pool)) /\ Len(seats) = n
      BY <1>6, <2>3
    <2>5. QED
      BY <1>5, <1>6, <2>1, <2>4
  <1> HIDE DEF seats, pool, index, n
  <1>8. Cardinality(Codes(seats)) = Len(seats)
    <2>1. \A i, j \in 1..n : agents[i].code = agents[j].code => i = j
      BY <1>2 DEF OneEach, n
    <2>2. n \in Nat /\ \A i, j \in 1..n : i < j => seats[i].code # seats[j].code
      BY <1>6, <1>7, <2>1
    <2>3. QED
      BY <1>7, <2>2, DistinctLen
  <1>9. ASSUME NEW c \in Codes(seats) \ Codes(central)
        PROVE  \E k \in skills(c) : Folder(folders, k) # NoPlace
    <2>1. PICK i \in 1..n : agents[i].code = c
      BY <1>7 DEF Codes
    <2>2. agents[i] \in A
      BY <1>2, <1>6, <2>1 DEF n
    <2>3. agents[i] \notin Described(central)
      <3>1. central \in Seq(Central)
        BY DEF RoomsHold
      <3>2. Range(central) = {central[h] : h \in 1..Len(central)} /\ Codes(central) = {central[h].code : h \in 1..Len(central)}
        BY <3>1, CodeFacts
      <3>3. \A m \in Described(central) : m.code \in Codes(central)
        BY <3>2 DEF Described
      <3>4. QED
        BY <1>9, <2>1, <3>3
    <2>4. agents[i] \in Range(people) /\ agents[i].here = "installed"
      BY <2>2, <2>3 DEF A, AgentOf
    <2>5. agents[i] \in P
      BY <1>2, <2>4, CodeFacts
    <2>6. PICK m \in Range(Rosters(folders)) : agents[i] = Person(folders, m, Answers)
      BY <2>5 DEF P, PersonOf
    <2>7. m.code = c /\ Folder(folders, m.skill) # NoPlace
      BY <2>1, <2>4, <2>6 DEF Person
    <2>8. QED
      BY <2>7
  <1>10. ASSUME NEW t \in shared, t \in DOMAIN index
         PROVE  t \in DOMAIN pool \cup names
    <2>1. PICK a \in DOMAIN pool, b \in DOMAIN pool : a # b /\ PartyAlias[a] = t /\ PartyAlias[b] = t
      OBVIOUS
    <2>2. QED
      BY <1>5, <1>10, <2>1
  <1>11. \A c \in DOMAIN pool : c \in names \/ index[c] = c
    BY <1>5
  <1> HIDE DEF names, shared
  <1>12. AgentsKept(r)
    <2>1. \A i \in DOMAIN seats : seats[i].code = agents[i].code
      BY <1>7
    <2>2. names = NamesOf(people) \cup NamesOf(agents) \cup NamesOf(items) \cup {pool[c].name : c \in DOMAIN pool}
      BY DEF names, N
    <2>3. QED
      BY <1>1, <1>8, <1>9, <1>10, <1>11, <2>1, <2>2 DEF AgentsKept, pool, index, seats, shared
  <1>13. QED
    BY <1>12 DEF RoomKeepsItsAgents, r

\* Whatever members the user adds, party mode opens on the agents that are
\* installed or described, each in the seat of its own code (apply_central_agents
\* and build_collective).
THEOREM RoomAlwaysKeepsItsAgents == CustomSpec => []RoomKeepsItsAgents
  <1>1. CustomSpec => []RoomsHold
    BY RoomsInit, RoomsStep, PTL DEF CustomSpec
  <1>2. QED
    BY <1>1, AgentsHold, PTL

-----------------------------------------------------------------------------
(* One room under both registrations.                                      *)

WitnessSeatBy(f, people) ==
    Seat(people, RegisterWitness) = f[Len(people)] /\ f[0] = EmptyRoom /\ \A i \in 1..Len(people) : f[i] = RegisterWitness(f[i-1], people[i])

LEMMA WitnessSeatSteps ==
    ASSUME NEW people, Len(people) \in Nat
    PROVE  \E f : WitnessSeatBy(f, people)
  <1> DEFINE n == Len(people)
             Is(f, k) == f = [i \in 0..k |-> IF i = 0 THEN EmptyRoom ELSE RegisterWitness(f[i-1], people[i])]
             T == {k \in Nat : \E f : Is(f, k)}
             f == CHOOSE f : f = [i \in 0..n |-> IF i = 0 THEN EmptyRoom ELSE RegisterWitness(f[i-1], people[i])]
  <1>0. n \in Nat
    OBVIOUS
  <1> HIDE DEF n
  <1>1. 0 \in T
    <2>1. Is([i \in 0..0 |-> EmptyRoom], 0)
      OBVIOUS
    <2>2. QED
      BY <2>1
  <1>2. ASSUME NEW k \in Nat, k \in T
        PROVE  k + 1 \in T
    <2>1. PICK g : Is(g, k)
      BY <1>2
    <2> DEFINE h == [i \in 0..(k + 1) |-> IF i = 0 THEN EmptyRoom ELSE RegisterWitness(g[i-1], people[i])]
    <2>2. \A i \in 0..k : h[i] = g[i]
      BY <2>1
    <2>3. \A i \in 0..(k + 1) : i # 0 => i - 1 \in 0..k
      OBVIOUS
    <2>4. \A i \in 0..(k + 1) : (IF i = 0 THEN EmptyRoom ELSE RegisterWitness(g[i-1], people[i]))
                                 = (IF i = 0 THEN EmptyRoom ELSE RegisterWitness(h[i-1], people[i]))
      <3> HIDE DEF h
      <3>1. QED
        BY <2>2, <2>3
    <2>5. [i \in 0..(k + 1) |-> IF i = 0 THEN EmptyRoom ELSE RegisterWitness(g[i-1], people[i])]
            = [i \in 0..(k + 1) |-> IF i = 0 THEN EmptyRoom ELSE RegisterWitness(h[i-1], people[i])]
      <3> HIDE DEF h
      <3>1. QED
        BY <2>4
    <2>6. Is(h, k + 1)
      BY <2>5
    <2>7. QED
      <3> HIDE DEF h
      <3>1. QED
        BY <2>6
  <1>3. Nat \subseteq T
    <2> HIDE DEF T
    <2>1. QED
      BY <1>1, <1>2, Induction
  <1>4. Is(f, n)
    BY <1>0, <1>3
  <1>5. Seat(people, RegisterWitness) = f[n]
    BY DEF Seat, n
  <1> HIDE DEF f
  <1>6. 0 \in 0..n /\ \A i \in 1..n : i \in 0..n /\ i # 0
    BY <1>0
  <1>7. f[0] = EmptyRoom /\ \A i \in 1..n : f[i] = RegisterWitness(f[i-1], people[i])
    BY <1>4, <1>6
  <1>8. QED
    BY <1>5, <1>7 DEF WitnessSeatBy, n

WitnessStep(room, items, i) == RegisterWitness(room, Custom(room, Coded(items)[i]))

WitnessCustomBy(f, room, items) ==
    SeatCustom(room, items, RegisterWitness) = f[Len(Coded(items))] /\ f[0] = room /\ \A i \in 1..Len(Coded(items)) : f[i] = WitnessStep(f[i-1], items, i)

LEMMA WitnessCustomSteps ==
    ASSUME NEW room, NEW items, Len(Coded(items)) \in Nat
    PROVE  \E f : WitnessCustomBy(f, room, items)
  <1> DEFINE n == Len(Coded(items))
             Is(f, k) == f = [i \in 0..k |-> IF i = 0 THEN room ELSE WitnessStep(f[i-1], items, i)]
             T == {k \in Nat : \E f : Is(f, k)}
             f == CHOOSE f : f = [i \in 0..n |-> IF i = 0 THEN room ELSE WitnessStep(f[i-1], items, i)]
  <1>0. n \in Nat
    OBVIOUS
  <1> HIDE DEF n
  <1>1. 0 \in T
    <2>1. Is([i \in 0..0 |-> room], 0)
      OBVIOUS
    <2>2. QED
      BY <2>1
  <1>2. ASSUME NEW k \in Nat, k \in T
        PROVE  k + 1 \in T
    <2>1. PICK g : Is(g, k)
      BY <1>2
    <2> DEFINE h == [i \in 0..(k + 1) |-> IF i = 0 THEN room ELSE WitnessStep(g[i-1], items, i)]
    <2>2. \A i \in 0..k : h[i] = g[i]
      BY <2>1
    <2>3. \A i \in 0..(k + 1) : i # 0 => i - 1 \in 0..k
      OBVIOUS
    <2>4. \A i \in 0..(k + 1) : (IF i = 0 THEN room ELSE WitnessStep(g[i-1], items, i))
                                 = (IF i = 0 THEN room ELSE WitnessStep(h[i-1], items, i))
      <3> HIDE DEF h
      <3>1. QED
        BY <2>2, <2>3
    <2>5. [i \in 0..(k + 1) |-> IF i = 0 THEN room ELSE WitnessStep(g[i-1], items, i)]
            = [i \in 0..(k + 1) |-> IF i = 0 THEN room ELSE WitnessStep(h[i-1], items, i)]
      <3> HIDE DEF h
      <3>1. QED
        BY <2>4
    <2>6. Is(h, k + 1)
      BY <2>5
    <2>7. QED
      <3> HIDE DEF h
      <3>1. QED
        BY <2>6
  <1>3. Nat \subseteq T
    <2> HIDE DEF T
    <2>1. QED
      BY <1>1, <1>2, Induction
  <1>4. Is(f, n)
    BY <1>0, <1>3
  <1>5. SeatCustom(room, items, RegisterWitness) = f[n]
    BY DEF SeatCustom, WitnessStep, Coded, n
  <1> HIDE DEF f
  <1>6. 0 \in 0..n /\ \A i \in 1..n : i \in 0..n /\ i # 0
    BY <1>0
  <1>7. f[0] = room /\ \A i \in 1..n : f[i] = WitnessStep(f[i-1], items, i)
    BY <1>4, <1>6
  <1>8. QED
    BY <1>5, <1>7 DEF WitnessCustomBy, n

\* No token is claimed by two codes; what a person claims; and what is entered
\* when nobody else claims it, however it is registered.
Single(C) == \A c, d, t : <<c, t>> \in C /\ <<d, t>> \in C => c = d
Fits(C, p) ==
    /\ <<p.code, p.code>> \in C /\ <<p.code, p.name>> \in C
    /\ <<p.code, PartyAlias[p.code]>> \in C /\ <<p.code, ForgeAlias[p.code]>> \in C
Entered(index, p, alias) ==
    [t \in DOMAIN index \cup {p.code, alias, p.name} |-> IF t \in {p.code, alias, p.name} THEN p.code ELSE index[t]]
Told(room, C) ==
    /\ \A t \in DOMAIN room.index : <<room.index[t], t>> \in C
    /\ \A c \in DOMAIN room.pool : <<c, c>> \in C /\ <<c, room.pool[c].name>> \in C
HasParts(room) == {"pool", "index"} \subseteq DOMAIN room
Owned(room, C) == \A t \in DOMAIN room.owner : <<room.owner[t], t>> \in C

LEMMA RegisterPlain ==
    ASSUME NEW C, Single(C), NEW room, Told(room, C), Owned(room, C), NEW p, Fits(C, p)
    PROVE  /\ Register(room, p).index = Entered(room.index, p, PartyAlias[p.code])
           /\ Register(room, p).pool = With(room.pool, p.code, p)
           /\ Owned(Register(room, p), C)
  <1> DEFINE k == p.code
             alias == PartyAlias[k]
             first == IF alias \in DOMAIN room.owner THEN room.owner[alias] ELSE k
             coded == With(room.index, k, k)
             kicked == /\ first \notin {k, Nobody} /\ alias # first
                       /\ alias \in DOMAIN coded /\ coded[alias] = first
             aliased == CASE first = k -> WithFirst(coded, alias, k)
                          [] kicked -> Without(coded, alias)
                          [] OTHER -> coded
             new == Register(room, p)
             I == DOMAIN room.index
  <1>1. /\ new.pool = With(room.pool, k, p) /\ new.index = With(aliased, p.name, k)
        /\ new.owner = With(room.owner, alias, IF first = k THEN first ELSE Nobody)
    BY DEF Register
  <1>2. <<k, k>> \in C /\ <<k, p.name>> \in C /\ <<k, alias>> \in C
    BY DEF Fits
  <1>3. first = k
    BY <1>2 DEF Owned, Single
  <1>4. aliased = WithFirst(coded, alias, k)
    BY <1>3
  <1>5. coded = [t \in I \cup {k} |-> IF t = k THEN k ELSE room.index[t]]
    BY DEF With
  <1>6. \A t \in I : <<room.index[t], t>> \in C
    BY DEF Told
  <1> HIDE DEF new, coded, I, aliased, first, alias, k
  <1>7. alias \in I \cup {k} => coded[alias] = k
    BY <1>2, <1>5, <1>6 DEF Single
  <1>8. aliased = [t \in I \cup {k} \cup {alias} |-> IF t \in {k, alias} THEN k ELSE room.index[t]]
    <2>1. aliased = IF alias \in I \cup {k} THEN coded ELSE [t \in I \cup {k} \cup {alias} |-> IF t = alias THEN k ELSE coded[t]]
      BY <1>4, <1>5 DEF With, WithFirst
    <2>2. CASE alias \in I \cup {k}
      <3>1. aliased = coded /\ I \cup {k} = I \cup {k} \cup {alias}
        BY <2>1, <2>2
      <3>2. \A t \in I \cup {k} : coded[t] = IF t \in {k, alias} THEN k ELSE room.index[t]
        BY <1>5, <1>7
      <3>3. QED
        BY <1>5, <3>1, <3>2
    <2>3. CASE alias \notin I \cup {k}
      BY <1>5, <2>1, <2>3
    <2>4. QED
      BY <2>2, <2>3
  <1>9. new.index = Entered(room.index, p, alias)
    <2>1. new.index = [t \in DOMAIN aliased \cup {p.name} |-> IF t = p.name THEN k ELSE aliased[t]]
      BY <1>1 DEF With
    <2>2. DOMAIN aliased = I \cup {k} \cup {alias} /\ \A t \in DOMAIN aliased : aliased[t] = IF t \in {k, alias} THEN k ELSE room.index[t]
      BY <1>8
    <2>3. DOMAIN aliased \cup {p.name} = I \cup {k, alias, p.name}
      BY <2>2
    <2>4. new.index = [t \in I \cup {k, alias, p.name} |-> IF t \in {k, alias, p.name} THEN k ELSE room.index[t]]
      BY <2>1, <2>2, <2>3
    <2>5. QED
      BY <2>4 DEF Entered, I, k
  <1>10. Owned(new, C)
    <2>1. new.owner = [t \in DOMAIN room.owner \cup {alias} |-> IF t = alias THEN k ELSE room.owner[t]]
      BY <1>1, <1>3 DEF With
    <2>2. \A t \in DOMAIN room.owner : <<room.owner[t], t>> \in C
      BY DEF Owned
    <2>3. QED
      BY <1>2, <2>1, <2>2 DEF Owned
  <1>11. QED
    BY <1>1, <1>9, <1>10 DEF new, k, alias

LEMMA WitnessPlain ==
    ASSUME NEW C, Single(C), NEW room, HasParts(room), Told(room, C), NEW p, Fits(C, p)
    PROVE  /\ RegisterWitness(room, p).index = Entered(room.index, p, ForgeAlias[p.code])
           /\ RegisterWitness(room, p).pool = With(room.pool, p.code, p)
           /\ HasParts(RegisterWitness(room, p))
  <1> DEFINE k == p.code
             alias == ForgeAlias[k]
             coded == With(room.index, k, k)
             aliased == With(coded, alias, k)
             new == RegisterWitness(room, p)
             I == DOMAIN room.index
  <1>1. new.pool = With(room.pool, k, p) /\ new.index = WithFirst(aliased, p.name, k) /\ DOMAIN new = DOMAIN room
    <2>1. new = [room EXCEPT !.pool = With(room.pool, k, p), !.index = WithFirst(aliased, p.name, k)]
      BY DEF RegisterWitness
    <2> HIDE DEF new, k, aliased
    <2>2. QED
      BY <2>1 DEF HasParts
  <1>2. <<k, k>> \in C /\ <<k, p.name>> \in C /\ <<k, alias>> \in C
    BY DEF Fits
  <1>3. \A t \in I : <<room.index[t], t>> \in C
    BY DEF Told
  <1>4. coded = [t \in I \cup {k} |-> IF t = k THEN k ELSE room.index[t]]
    BY DEF With
  <1>5. aliased = [t \in I \cup {k} \cup {alias} |-> IF t \in {k, alias} THEN k ELSE room.index[t]]
    <2>1. aliased = [t \in DOMAIN coded \cup {alias} |-> IF t = alias THEN k ELSE coded[t]]
      BY DEF With
    <2> HIDE DEF coded, aliased, k, alias, I
    <2>2. DOMAIN coded \cup {alias} = I \cup {k} \cup {alias}
      BY <1>4
    <2>3. QED
      BY <1>4, <2>1, <2>2
  <1>6. new.index = IF p.name \in DOMAIN aliased THEN aliased
                    ELSE [t \in DOMAIN aliased \cup {p.name} |-> IF t = p.name THEN k ELSE aliased[t]]
    BY <1>1 DEF With, WithFirst
  <1> HIDE DEF new, coded, aliased, I, alias, k
  <1>7. p.name \in DOMAIN aliased => aliased[p.name] = k
    BY <1>2, <1>3, <1>5 DEF Single
  <1>8. new.index = [t \in I \cup {k, alias, p.name} |-> IF t \in {k, alias, p.name} THEN k ELSE room.index[t]]
    <2>1. DOMAIN aliased = I \cup {k, alias} /\ \A t \in DOMAIN aliased : aliased[t] = IF t \in {k, alias} THEN k ELSE room.index[t]
      BY <1>5
    <2>2. DOMAIN aliased \cup {p.name} = I \cup {k, alias, p.name}
      BY <2>1
    <2>3. CASE p.name \in DOMAIN aliased
      <3>1. new.index = aliased /\ DOMAIN aliased = I \cup {k, alias, p.name}
        BY <1>6, <2>2, <2>3
      <3>2. \A t \in DOMAIN aliased : aliased[t] = IF t \in {k, alias, p.name} THEN k ELSE room.index[t]
        BY <1>7, <2>1, <2>3
      <3>3. aliased = [t \in DOMAIN aliased |-> aliased[t]]
        BY <1>5
      <3>4. QED
        BY <3>1, <3>2, <3>3
    <2>4. CASE p.name \notin DOMAIN aliased
      BY <1>6, <2>1, <2>2, <2>4
    <2>5. QED
      BY <2>3, <2>4
  <1>9. QED
    BY <1>1, <1>8 DEF Entered, HasParts, new, k, alias, I

\* What a room gains when nothing of p's was another's.
Gained(room, new, p, alias) ==
    /\ DOMAIN new.index = DOMAIN room.index \cup {p.code, alias, p.name}
    /\ \A t \in DOMAIN room.index : new.index[t] = room.index[t]
    /\ \A t \in {p.code, alias, p.name} : new.index[t] = p.code
    /\ DOMAIN new.pool = DOMAIN room.pool \cup {p.code} /\ new.pool[p.code] = p
    /\ \A c \in DOMAIN room.pool : c # p.code => new.pool[c] = room.pool[c]

\* What is entered is claimed.
LEMMA EnteredTold ==
    ASSUME NEW C, Single(C), NEW room, Told(room, C), NEW p, Fits(C, p), NEW alias, <<p.code, alias>> \in C,
           NEW new, new.index = Entered(room.index, p, alias), new.pool = With(room.pool, p.code, p)
    PROVE  Told(new, C) /\ Gained(room, new, p, alias)
  <1> DEFINE k == p.code
             I == DOMAIN room.index
             D == DOMAIN room.pool
  <1>1. new.index = [t \in I \cup {k, alias, p.name} |-> IF t \in {k, alias, p.name} THEN k ELSE room.index[t]]
    BY DEF Entered
  <1>2. new.pool = [c \in D \cup {k} |-> IF c = k THEN p ELSE room.pool[c]]
    BY DEF With
  <1>3. <<k, k>> \in C /\ <<k, p.name>> \in C /\ <<k, alias>> \in C
    BY DEF Fits
  <1>4. /\ \A t \in I : <<room.index[t], t>> \in C
        /\ \A c \in D : <<c, c>> \in C /\ <<c, room.pool[c].name>> \in C
    BY DEF Told
  <1> HIDE DEF k, I, D
  <1>5. /\ DOMAIN new.index = I \cup {k, alias, p.name} /\ \A t \in {k, alias, p.name} : new.index[t] = k
        /\ \A t \in I : t \notin {k, alias, p.name} => new.index[t] = room.index[t]
    BY <1>1
  <1>6. \A t \in I : new.index[t] = room.index[t]
    BY <1>3, <1>4, <1>5 DEF Single
  <1>7. /\ DOMAIN new.pool = D \cup {k} /\ new.pool[k] = p
        /\ \A c \in D : c # k => new.pool[c] = room.pool[c]
    BY <1>2
  <1>8. Told(new, C)
    <2>1. \A t \in DOMAIN new.index : <<new.index[t], t>> \in C
      BY <1>3, <1>4, <1>5, <1>6
    <2>2. \A c \in DOMAIN new.pool : <<c, c>> \in C /\ <<c, new.pool[c].name>> \in C
      BY <1>3, <1>4, <1>7
    <2>3. QED
      BY <2>1, <2>2 DEF Told
  <1>9. QED
    BY <1>5, <1>6, <1>7, <1>8 DEF Gained, k, I, D

\* Who comes next: first those the rosters and the config offer, then members.
Comer(room, people, list, i) ==
    IF i <= Len(people) THEN people[i] ELSE Custom(room, list[i - Len(people)])

PartyRun(z, people, items) ==
    LET n == Len(people)
        k == Len(Coded(items))
    IN /\ z[0] = EmptyRoom /\ z[n] = Seat(people, Register)
       /\ z[n + k] = SeatCustom(Seat(people, Register), items, Register)
       /\ \A i \in 1..(n + k) : z[i] = Register(z[i-1], Comer(z[i-1], people, Coded(items), i))

LEMMA PartyRuns ==
    ASSUME NEW people, Len(people) \in Nat, NEW items, Len(Coded(items)) \in Nat
    PROVE  \E z : PartyRun(z, people, items)
  <1> DEFINE n == Len(people)
             k == Len(Coded(items))
             room == Seat(people, Register)
  <1>1. PICK f : SeatBy(f, people)
    BY ONLY Len(people) \in Nat, SeatSteps
  <1>2. PICK h : CustomBy(h, room, items)
    BY ONLY Len(Coded(items)) \in Nat, CustomSteps
  <1>3. /\ room = f[n] /\ f[0] = EmptyRoom
        /\ \A i \in 1..n : f[i] = Register(f[i-1], people[i])
    BY <1>1 DEF SeatBy
  <1>4. /\ SeatCustom(room, items, Register) = h[k] /\ h[0] = room
        /\ \A i \in 1..k : h[i] = Register(h[i-1], Custom(h[i-1], Coded(items)[i]))
    BY <1>2 DEF CustomBy, CustomStep
  <1> DEFINE z == [i \in 0..(n + k) |-> IF i <= n THEN f[i] ELSE h[i - n]]
  <1>5. n \in Nat /\ k \in Nat
    OBVIOUS
  <1> HIDE DEF n, k, room
  <1>6. (\A i \in 0..n : z[i] = f[i]) /\ (\A i \in 0..k : z[n + i] = h[i])
    <2>1. \A i \in 0..n : i \in 0..(n + k) /\ i <= n
      BY <1>5
    <2>2. \A i \in 0..k : n + i \in 0..(n + k) /\ (n + i) - n = i /\ (n + i <= n => i = 0) /\ n + 0 = n
      BY <1>5
    <2>3. h[0] = f[n]
      BY <1>3, <1>4
    <2>4. \A i \in 0..n : z[i] = f[i]
      BY <2>1
    <2>5. ASSUME NEW i \in 0..k
          PROVE  z[n + i] = h[i]
      <3>1. z[n + i] = IF n + i <= n THEN f[n + i] ELSE h[(n + i) - n]
        BY <2>2
      <3>2. CASE n + i <= n
        <4>1. i = 0 /\ n + i = n
          BY <2>2, <3>2
        <4>2. QED
          BY <2>3, <3>1, <3>2, <4>1
      <3>3. CASE ~(n + i <= n)
        BY <2>2, <3>1, <3>3
      <3>4. QED
        BY <3>2, <3>3
    <2>6. QED
      BY <2>4, <2>5
  <1> HIDE DEF z
  <1>7. ASSUME NEW i \in 1..(n + k)
        PROVE  z[i] = Register(z[i-1], Comer(z[i-1], people, Coded(items), i))
    <2>1. CASE i <= n
      <3>1. i \in 1..n /\ i \in 0..n /\ i - 1 \in 0..n
        BY <1>5, <2>1
      <3>2. Comer(z[i-1], people, Coded(items), i) = people[i]
        BY <2>1 DEF Comer, n
      <3>3. QED
        BY <1>3, <1>6, <3>1, <3>2
    <2>2. CASE ~(i <= n)
      <3>1. PICK j \in 1..k : i = n + j
        <4>1. i - n \in 1..k /\ i = n + (i - n)
          BY <1>5, <2>2
        <4>2. QED
          BY <4>1
      <3>2. j \in 0..k /\ j - 1 \in 0..k /\ i - 1 = n + (j - 1) /\ i - n = j
        BY <1>5, <3>1
      <3>3. z[i-1] = h[j-1] /\ z[i] = h[j]
        BY <1>6, <3>1, <3>2
      <3>4. Comer(z[i-1], people, Coded(items), i) = Custom(z[i-1], Coded(items)[i - n])
        BY <2>2 DEF Comer, n
      <3>5. QED
        BY <1>4, <3>2, <3>3, <3>4
    <2>3. QED
      BY <2>1, <2>2
  <1>8. z[0] = EmptyRoom /\ z[n] = room /\ z[n + k] = SeatCustom(room, items, Register)
    <2>1. 0 \in 0..n /\ n \in 0..n /\ k \in 0..k
      BY <1>5
    <2>2. QED
      BY <1>3, <1>4, <1>6, <2>1
  <1>9. PartyRun(z, people, items)
    BY <1>7, <1>8 DEF PartyRun, n, k, room
  <1>10. QED
    BY <1>9

ForgeRun(z, people, items) ==
    LET n == Len(people)
        k == Len(Coded(items))
    IN /\ z[0] = EmptyRoom /\ z[n] = Seat(people, RegisterWitness)
       /\ z[n + k] = SeatCustom(Seat(people, RegisterWitness), items, RegisterWitness)
       /\ \A i \in 1..(n + k) : z[i] = RegisterWitness(z[i-1], Comer(z[i-1], people, Coded(items), i))

LEMMA ForgeRuns ==
    ASSUME NEW people, Len(people) \in Nat, NEW items, Len(Coded(items)) \in Nat
    PROVE  \E z : ForgeRun(z, people, items)
  <1> DEFINE n == Len(people)
             k == Len(Coded(items))
             room == Seat(people, RegisterWitness)
  <1>1. PICK f : WitnessSeatBy(f, people)
    BY ONLY Len(people) \in Nat, WitnessSeatSteps
  <1>2. PICK h : WitnessCustomBy(h, room, items)
    BY ONLY Len(Coded(items)) \in Nat, WitnessCustomSteps
  <1>3. /\ room = f[n] /\ f[0] = EmptyRoom
        /\ \A i \in 1..n : f[i] = RegisterWitness(f[i-1], people[i])
    BY <1>1 DEF WitnessSeatBy
  <1>4. /\ SeatCustom(room, items, RegisterWitness) = h[k] /\ h[0] = room
        /\ \A i \in 1..k : h[i] = RegisterWitness(h[i-1], Custom(h[i-1], Coded(items)[i]))
    BY <1>2 DEF WitnessCustomBy, WitnessStep
  <1> DEFINE z == [i \in 0..(n + k) |-> IF i <= n THEN f[i] ELSE h[i - n]]
  <1>5. n \in Nat /\ k \in Nat
    OBVIOUS
  <1> HIDE DEF n, k, room
  <1>6. (\A i \in 0..n : z[i] = f[i]) /\ (\A i \in 0..k : z[n + i] = h[i])
    <2>1. \A i \in 0..n : i \in 0..(n + k) /\ i <= n
      BY <1>5
    <2>2. \A i \in 0..k : n + i \in 0..(n + k) /\ (n + i) - n = i /\ (n + i <= n => i = 0) /\ n + 0 = n
      BY <1>5
    <2>3. h[0] = f[n]
      BY <1>3, <1>4
    <2>4. \A i \in 0..n : z[i] = f[i]
      BY <2>1
    <2>5. ASSUME NEW i \in 0..k
          PROVE  z[n + i] = h[i]
      <3>1. z[n + i] = IF n + i <= n THEN f[n + i] ELSE h[(n + i) - n]
        BY <2>2
      <3>2. CASE n + i <= n
        <4>1. i = 0 /\ n + i = n
          BY <2>2, <3>2
        <4>2. QED
          BY <2>3, <3>1, <3>2, <4>1
      <3>3. CASE ~(n + i <= n)
        BY <2>2, <3>1, <3>3
      <3>4. QED
        BY <3>2, <3>3
    <2>6. QED
      BY <2>4, <2>5
  <1> HIDE DEF z
  <1>7. ASSUME NEW i \in 1..(n + k)
        PROVE  z[i] = RegisterWitness(z[i-1], Comer(z[i-1], people, Coded(items), i))
    <2>1. CASE i <= n
      <3>1. i \in 1..n /\ i \in 0..n /\ i - 1 \in 0..n
        BY <1>5, <2>1
      <3>2. Comer(z[i-1], people, Coded(items), i) = people[i]
        BY <2>1 DEF Comer, n
      <3>3. QED
        BY <1>3, <1>6, <3>1, <3>2
    <2>2. CASE ~(i <= n)
      <3>1. PICK j \in 1..k : i = n + j
        <4>1. i - n \in 1..k /\ i = n + (i - n)
          BY <1>5, <2>2
        <4>2. QED
          BY <4>1
      <3>2. j \in 0..k /\ j - 1 \in 0..k /\ i - 1 = n + (j - 1) /\ i - n = j
        BY <1>5, <3>1
      <3>3. z[i-1] = h[j-1] /\ z[i] = h[j]
        BY <1>6, <3>1, <3>2
      <3>4. Comer(z[i-1], people, Coded(items), i) = Custom(z[i-1], Coded(items)[i - n])
        BY <2>2 DEF Comer, n
      <3>5. QED
        BY <1>4, <3>2, <3>3, <3>4
    <2>3. QED
      BY <2>1, <2>2
  <1>8. z[0] = EmptyRoom /\ z[n] = room /\ z[n + k] = SeatCustom(room, items, RegisterWitness)
    <2>1. 0 \in 0..n /\ n \in 0..n /\ k \in 0..k
      BY <1>5
    <2>2. QED
      BY <1>3, <1>4, <1>6, <2>1
  <1>9. ForgeRun(z, people, items)
    BY <1>7, <1>8 DEF ForgeRun, n, k, room
  <1>10. QED
    BY <1>9

LEMMA Climb ==
    ASSUME NEW n \in Nat, NEW D, \A i \in 1..n : D[i-1] \subseteq D[i]
    PROVE  \A i \in 0..n : D[i] \subseteq D[n]
  <1> DEFINE T == {j \in 0..n : \A i \in 0..j : D[i] \subseteq D[j]}
  <1>1. 0 \in T
    <2>1. \A i \in 0..0 : i = 0
      OBVIOUS
    <2>2. QED
      BY <2>1
  <1>2. ASSUME NEW j \in 1..n, j - 1 \in T
        PROVE  j \in T
    <2>1. \A i \in 0..j : i \in 0..(j - 1) \/ i = j
      OBVIOUS
    <2>2. D[j-1] \subseteq D[j] /\ j \in 0..n /\ \A i \in 0..(j - 1) : D[i] \subseteq D[j-1]
      BY <1>2
    <2>3. \A i \in 0..j : D[i] \subseteq D[j]
      BY <2>1, <2>2
    <2>4. QED
      BY <2>2, <2>3
  <1>3. 0..n \subseteq T
    <2> HIDE DEF T
    <2>1. QED
      BY <1>1, <1>2, UpTo
  <1>4. n \in 0..n
    OBVIOUS
  <1>5. QED
    BY <1>3, <1>4

\* While no short form is shared, registration only adds.
OwnerSound(room) ==
    \A t \in DOMAIN room.owner :
      room.owner[t] = Nobody \/ (room.owner[t] \in DOMAIN room.pool /\ PartyAlias[room.owner[t]] = t)

LEMMA RegisterAdds ==
    ASSUME NEW room, NEW p
    PROVE  /\ DOMAIN Register(room, p).pool = DOMAIN room.pool \cup {p.code}
           /\ OwnerSound(room) /\ (\A c \in DOMAIN room.pool : PartyAlias[c] = PartyAlias[p.code] => c = p.code)
                => OwnerSound(Register(room, p)) /\ DOMAIN room.index \cup {p.code} \subseteq DOMAIN Register(room, p).index
  <1> DEFINE k == p.code
             alias == PartyAlias[k]
             first == IF alias \in DOMAIN room.owner THEN room.owner[alias] ELSE k
             coded == With(room.index, k, k)
             kicked == /\ first \notin {k, Nobody} /\ alias # first
                       /\ alias \in DOMAIN coded /\ coded[alias] = first
             aliased == CASE first = k -> WithFirst(coded, alias, k)
                          [] kicked -> Without(coded, alias)
                          [] OTHER -> coded
             new == Register(room, p)
  <1>1. /\ new.pool = With(room.pool, k, p) /\ new.index = With(aliased, p.name, k)
        /\ new.owner = With(room.owner, alias, IF first = k THEN first ELSE Nobody)
    BY DEF Register
  <1>2. DOMAIN new.pool = DOMAIN room.pool \cup {k}
    BY <1>1 DEF With
  <1>3. DOMAIN coded = DOMAIN room.index \cup {k} /\ DOMAIN new.index = DOMAIN aliased \cup {p.name}
    BY <1>1 DEF With
  <1>4. ASSUME OwnerSound(room), \A c \in DOMAIN room.pool : PartyAlias[c] = alias => c = k
        PROVE  OwnerSound(new) /\ DOMAIN room.index \cup {k} \subseteq DOMAIN new.index
    <2>1. first \in {k, Nobody}
      BY <1>4 DEF OwnerSound
    <2>2. aliased = IF first = k THEN WithFirst(coded, alias, k) ELSE coded
      BY <2>1
    <2> HIDE DEF coded, aliased, first, new, k
    <2>3. DOMAIN coded \subseteq DOMAIN aliased
      BY <2>2 DEF WithFirst, With
    <2>4. new.owner = [t \in DOMAIN room.owner \cup {alias} |-> IF t = alias THEN (IF first = k THEN first ELSE Nobody) ELSE room.owner[t]]
      BY <1>1 DEF With
    <2>5. \A t \in DOMAIN room.owner :
            room.owner[t] = Nobody \/ (room.owner[t] \in DOMAIN room.pool /\ PartyAlias[room.owner[t]] = t)
      BY <1>4 DEF OwnerSound
    <2>6. \A t \in DOMAIN new.owner :
            new.owner[t] = Nobody \/ (new.owner[t] \in DOMAIN new.pool /\ PartyAlias[new.owner[t]] = t)
      BY <1>2, <2>4, <2>5
    <2>7. OwnerSound(new)
      BY <2>6 DEF OwnerSound
    <2>8. QED
      BY <1>3, <2>3, <2>7
  <1>5. QED
    BY <1>2, <1>4

LEMMA WitnessAdds ==
    ASSUME NEW room, HasParts(room), NEW p
    PROVE  /\ DOMAIN RegisterWitness(room, p).pool = DOMAIN room.pool \cup {p.code}
           /\ DOMAIN room.index \cup {p.code} \subseteq DOMAIN RegisterWitness(room, p).index
           /\ HasParts(RegisterWitness(room, p))
  <1> DEFINE k == p.code
             coded == With(room.index, k, k)
             aliased == With(coded, ForgeAlias[k], k)
             new == RegisterWitness(room, p)
  <1>1. new.pool = With(room.pool, k, p) /\ new.index = WithFirst(aliased, p.name, k) /\ DOMAIN new = DOMAIN room
    <2>1. new = [room EXCEPT !.pool = With(room.pool, k, p), !.index = WithFirst(aliased, p.name, k)]
      BY DEF RegisterWitness
    <2> HIDE DEF new, k, aliased
    <2>2. QED
      BY <2>1 DEF HasParts
  <1>2. DOMAIN new.pool = DOMAIN room.pool \cup {k}
    BY <1>1 DEF With
  <1>3. DOMAIN coded = DOMAIN room.index \cup {k} /\ DOMAIN coded \subseteq DOMAIN aliased
    BY DEF With
  <1>4. DOMAIN aliased \subseteq DOMAIN new.index
    <2> HIDE DEF aliased, new
    <2>1. QED
      BY <1>1 DEF WithFirst, With
  <1>5. HasParts(new)
    BY <1>1 DEF HasParts
  <1>6. QED
    BY <1>2, <1>3, <1>4, <1>5

\* Who came is in the pool at the end, and what a member asked for is a token.
Stayed(z, people, list) ==
    LET end == Len(people) + Len(list)
    IN \A i \in 1..end :
         /\ Comer(z[i-1], people, list, i).code \in DOMAIN z[end].pool
         /\ i > Len(people) => list[i - Len(people)].code \in DOMAIN z[end].index

LEMMA PartyRunStays ==
    ASSUME NEW people, Len(people) \in Nat, NEW items, Len(Coded(items)) \in Nat, NEW z, PartyRun(z, people, items),
           \A c, d \in DOMAIN z[Len(people) + Len(Coded(items))].pool : PartyAlias[c] = PartyAlias[d] => c = d
    PROVE  Stayed(z, people, Coded(items))
  <1> DEFINE n == Len(people)
             list == Coded(items)
             e == n + Len(list)
             P == [i \in 0..e |-> DOMAIN z[i].pool]
             I == [i \in 0..e |-> DOMAIN z[i].index]
             p(i) == Comer(z[i-1], people, list, i)
  <1>1. n \in Nat /\ e \in Nat /\ 0 \in 0..e /\ e \in 0..e /\ \A i \in 1..e : i \in 0..e /\ i - 1 \in 0..e
    OBVIOUS
  <1>2. z[0] = EmptyRoom /\ \A i \in 1..e : z[i] = Register(z[i-1], p(i))
    BY DEF PartyRun
  <1> HIDE DEF list, e, p
  <1>3. \A i \in 1..e : DOMAIN z[i].pool = DOMAIN z[i-1].pool \cup {p(i).code}
    BY <1>2, RegisterAdds
  <1>4. \A i \in 0..e : P[i] \subseteq P[e]
    <2>1. \A i \in 1..e : P[i-1] \subseteq P[i]
      BY <1>1, <1>3
    <2> HIDE DEF P
    <2>2. QED
      BY <1>1, <2>1, Climb
  <1>5. \A c, d \in P[e] : PartyAlias[c] = PartyAlias[d] => c = d
    BY <1>1 DEF e, list
  <1>6. ASSUME NEW i \in 1..e
        PROVE  \A c \in DOMAIN z[i-1].pool : PartyAlias[c] = PartyAlias[p(i).code] => c = p(i).code
    <2>1. P[i-1] \subseteq P[e] /\ P[i] \subseteq P[e] /\ P[i-1] = DOMAIN z[i-1].pool /\ P[i] = DOMAIN z[i].pool
      BY <1>1, <1>4
    <2> HIDE DEF P
    <2>2. QED
      BY <1>3, <1>5, <2>1
  <1> DEFINE T == {i \in 0..e : OwnerSound(z[i])}
  <1>7. 0..e \subseteq T
    <2>1. 0 \in T
      BY <1>1, <1>2 DEF OwnerSound, EmptyRoom, Nothing
    <2>2. ASSUME NEW i \in 1..e, i - 1 \in T
          PROVE  i \in T
      <3>1. OwnerSound(z[i])
        BY <1>2, <1>6, <2>2, RegisterAdds
      <3>2. QED
        BY <1>1, <3>1
    <2> HIDE DEF T
    <2>3. QED
      BY <1>1, <2>1, <2>2, UpTo
  <1>8. ASSUME NEW i \in 1..e
        PROVE  DOMAIN z[i-1].index \cup {p(i).code} \subseteq DOMAIN z[i].index
    <2>1. OwnerSound(z[i-1])
      BY <1>1, <1>7
    <2>2. QED
      BY <1>2, <1>6, <2>1, RegisterAdds
  <1>9. \A i \in 0..e : I[i] \subseteq I[e]
    <2>1. \A i \in 1..e : I[i-1] \subseteq I[i]
      BY <1>1, <1>8
    <2> HIDE DEF I
    <2>2. QED
      BY <1>1, <2>1, Climb
  <1>10. ASSUME NEW i \in 1..e
         PROVE  /\ p(i).code \in DOMAIN z[e].pool
                /\ i > n => list[i - n].code \in DOMAIN z[e].index
    <2>1. P[i] \subseteq P[e] /\ I[i] \subseteq I[e]
      BY <1>1, <1>4, <1>9
    <2>2. p(i).code \in P[i]
      BY <1>1, <1>3
    <2>3. ASSUME i > n
          PROVE  list[i - n].code \in I[i]
      <3>1. p(i).code = IF list[i - n].code \in DOMAIN z[i-1].index THEN z[i-1].index[list[i - n].code] ELSE list[i - n].code
        <4>1. ~(i <= n)
          BY <1>1, <2>3
        <4>2. p(i) = Custom(z[i-1], list[i - n])
          BY <4>1 DEF p, Comer
        <4>3. QED
          BY <4>2 DEF Custom
      <3>2. DOMAIN z[i-1].index \cup {p(i).code} \subseteq DOMAIN z[i].index
        BY <1>8
      <3>3. QED
        BY <1>1, <3>1, <3>2
    <2>4. QED
      BY <1>1, <2>1, <2>2, <2>3
  <1>11. QED
    BY <1>10 DEF Stayed, e, p, list

LEMMA ForgeRunStays ==
    ASSUME NEW people, Len(people) \in Nat, NEW items, Len(Coded(items)) \in Nat, NEW z, ForgeRun(z, people, items)
    PROVE  /\ Stayed(z, people, Coded(items))
           /\ \A i \in 0..(Len(people) + Len(Coded(items))) : HasParts(z[i])
  <1> DEFINE n == Len(people)
             list == Coded(items)
             e == n + Len(list)
             P == [i \in 0..e |-> DOMAIN z[i].pool]
             I == [i \in 0..e |-> DOMAIN z[i].index]
             p(i) == Comer(z[i-1], people, list, i)
  <1>1. n \in Nat /\ e \in Nat /\ 0 \in 0..e /\ e \in 0..e /\ \A i \in 1..e : i \in 0..e /\ i - 1 \in 0..e
    OBVIOUS
  <1>2. z[0] = EmptyRoom /\ \A i \in 1..e : z[i] = RegisterWitness(z[i-1], p(i))
    BY DEF ForgeRun
  <1> HIDE DEF list, e, p
  <1> DEFINE T == {i \in 0..e : HasParts(z[i])}
  <1>3. 0..e \subseteq T
    <2>1. 0 \in T
      BY <1>1, <1>2 DEF EmptyRoom, HasParts
    <2>2. ASSUME NEW i \in 1..e, i - 1 \in T
          PROVE  i \in T
      <3>1. HasParts(z[i])
        BY <1>2, <2>2, WitnessAdds
      <3>2. QED
        BY <1>1, <3>1
    <2> HIDE DEF T
    <2>3. QED
      BY <1>1, <2>1, <2>2, UpTo
  <1>4. ASSUME NEW i \in 1..e
        PROVE  /\ DOMAIN z[i-1].index \cup {p(i).code} \subseteq DOMAIN z[i].index
               /\ DOMAIN z[i].pool = DOMAIN z[i-1].pool \cup {p(i).code}
    <2>1. HasParts(z[i-1])
      BY <1>1, <1>3
    <2>2. /\ DOMAIN RegisterWitness(z[i-1], p(i)).pool = DOMAIN z[i-1].pool \cup {p(i).code}
          /\ DOMAIN z[i-1].index \cup {p(i).code} \subseteq DOMAIN RegisterWitness(z[i-1], p(i)).index
      BY ONLY <2>1, WitnessAdds
    <2>3. z[i] = RegisterWitness(z[i-1], p(i))
      BY <1>2
    <2>4. QED
      BY <2>2, <2>3, Zenon
  <1>5. \A i \in 1..e : DOMAIN z[i].pool = DOMAIN z[i-1].pool \cup {p(i).code}
    BY <1>4
  <1>6. \A i \in 0..e : P[i] \subseteq P[e]
    <2>1. \A i \in 1..e : P[i-1] \subseteq P[i]
      BY <1>1, <1>5
    <2> HIDE DEF P
    <2>2. QED
      BY <1>1, <2>1, Climb
  <1>7. \A i \in 0..e : I[i] \subseteq I[e]
    <2>1. \A i \in 1..e : I[i-1] \subseteq I[i]
      BY <1>1, <1>4
    <2> HIDE DEF I
    <2>2. QED
      BY <1>1, <2>1, Climb
  <1>8. ASSUME NEW i \in 1..e
         PROVE  /\ p(i).code \in DOMAIN z[e].pool
                /\ i > n => list[i - n].code \in DOMAIN z[e].index
    <2>1. P[i] \subseteq P[e] /\ I[i] \subseteq I[e]
      BY <1>1, <1>6, <1>7
    <2>2. p(i).code \in P[i]
      BY <1>1, <1>5
    <2>3. ASSUME i > n
          PROVE  list[i - n].code \in I[i]
      <3>1. p(i).code = IF list[i - n].code \in DOMAIN z[i-1].index THEN z[i-1].index[list[i - n].code] ELSE list[i - n].code
        <4>1. ~(i <= n)
          BY <1>1, <2>3
        <4>2. p(i) = Custom(z[i-1], list[i - n])
          BY <4>1 DEF p, Comer
        <4>3. QED
          BY <4>2 DEF Custom
      <3>2. DOMAIN z[i-1].index \cup {p(i).code} \subseteq DOMAIN z[i].index
        BY <1>4
      <3>3. QED
        BY <1>1, <3>1, <3>2
    <2>4. QED
      BY <1>1, <2>1, <2>2, <2>3
  <1>9. QED
    BY <1>3, <1>8 DEF Stayed, e, p, list

\* The claims of everyone who is in the room at the end.
Covers(C, room, people, list) ==
    /\ \A c \in DOMAIN room.pool : <<c, c>> \in C /\ <<c, PartyAlias[c]>> \in C /\ <<c, ForgeAlias[c]>> \in C
    /\ \A i \in 1..Len(people) : <<people[i].code, people[i].name>> \in C
    /\ \A i \in 1..Len(list) : list[i].code \in DOMAIN room.index =>
         /\ <<room.index[list[i].code], list[i].code>> \in C
         /\ <<room.index[list[i].code], NameOr(list[i].name, list[i].code)>> \in C

\* Whoever comes claims only what is theirs, and a member stands for whom its
\* code finds at the end.
LEMMA ComerFits ==
    ASSUME NEW C, Single(C), NEW people, Len(people) \in Nat, NEW list, Len(list) \in Nat,
           NEW end, Covers(C, end, people, list), NEW room, Told(room, C),
           NEW i \in 1..(Len(people) + Len(list)), NEW p, p = Comer(room, people, list, i), p.code \in DOMAIN end.pool,
           i > Len(people) => list[i - Len(people)].code \in DOMAIN end.index
    PROVE  /\ Fits(C, p)
           /\ i > Len(people) => end.index[list[i - Len(people)].code] = p.code
  <1> DEFINE n == Len(people)
             k == p.code
             m == list[i - n]
  <1>1. <<k, k>> \in C /\ <<k, PartyAlias[k]>> \in C /\ <<k, ForgeAlias[k]>> \in C
    BY DEF Covers
  <1>2. CASE i <= n
    <2>1. p = people[i] /\ i \in 1..n /\ ~(i > n)
      BY <1>2 DEF Comer
    <2>2. <<k, p.name>> \in C
      BY <2>1 DEF Covers
    <2>3. QED
      BY <1>1, <2>1, <2>2 DEF Fits
  <1>3. CASE ~(i <= n)
    <2>1. p = Custom(room, m) /\ i - n \in 1..Len(list) /\ i > n
      BY <1>3 DEF Comer
    <2>2. m.code \in DOMAIN end.index
      BY <2>1
    <2>3. <<end.index[m.code], m.code>> \in C /\ <<end.index[m.code], NameOr(m.name, m.code)>> \in C
      BY <2>1, <2>2 DEF Covers
    <2>4. k = IF m.code \in DOMAIN room.index THEN room.index[m.code] ELSE m.code
      BY <2>1 DEF Custom
    <2>5. p.name = NameOr(m.name, IF k \in DOMAIN room.pool THEN room.pool[k].name ELSE k)
      BY <2>1 DEF Custom
    <2>6. /\ \A t \in DOMAIN room.index : <<room.index[t], t>> \in C
          /\ \A c \in DOMAIN room.pool : <<c, room.pool[c].name>> \in C
      BY DEF Told
    <2> HIDE DEF m, k, n
    <2>7. <<k, m.code>> \in C
      BY <1>1, <2>4, <2>6
    <2>8. end.index[m.code] = k
      BY <2>3, <2>7 DEF Single
    <2>9. <<k, p.name>> \in C
      <3>1. CASE m.name # Unnamed
        <4>1. p.name = m.name /\ NameOr(m.name, m.code) = m.name
          BY <2>5, <3>1 DEF NameOr
        <4>2. QED
          BY <2>3, <2>8, <4>1
      <3>2. CASE m.name = Unnamed
        BY <1>1, <2>5, <2>6, <3>2 DEF NameOr
      <3>3. QED
        BY <3>1, <3>2
    <2>10. Fits(C, p)
      BY <1>1, <2>9 DEF Fits, k
    <2>11. QED
      BY <2>8, <2>10 DEF m, k, n
  <1>4. QED
    BY <1>2, <1>3

LEMMA EmptyTold ==
    ASSUME NEW C
    PROVE  Told(EmptyRoom, C) /\ Owned(EmptyRoom, C)
  BY DEF Told, Owned, EmptyRoom, Nothing

\* The forge's room, while no token is claimed by two codes of it.
LEMMA ForgeTold ==
    ASSUME NEW people, Len(people) \in Nat, NEW items, Len(Coded(items)) \in Nat, NEW w, ForgeRun(w, people, items),
           NEW C, Single(C), Covers(C, w[Len(people) + Len(Coded(items))], people, Coded(items))
    PROVE  \A i \in 0..(Len(people) + Len(Coded(items))) : Told(w[i], C)
  <1> DEFINE n == Len(people)
             list == Coded(items)
             e == n + Len(list)
             T == {i \in 0..e : Told(w[i], C)}
  <1>1. e \in Nat /\ 0 \in 0..e /\ \A i \in 1..e : i \in 0..e /\ i - 1 \in 0..e
    OBVIOUS
  <1>2. w[0] = EmptyRoom /\ \A i \in 1..e : w[i] = RegisterWitness(w[i-1], Comer(w[i-1], people, list, i))
    BY DEF ForgeRun
  <1>3. Stayed(w, people, list) /\ \A i \in 0..e : HasParts(w[i])
    BY ForgeRunStays
  <1>4. 0 \in T
    BY <1>1, <1>2, EmptyTold
  <1>5. ASSUME NEW i \in 1..e, i - 1 \in T
        PROVE  i \in T
    <2> DEFINE old == w[i-1]
               p == Comer(old, people, list, i)
    <2>1. Told(old, C) /\ HasParts(old) /\ w[i] = RegisterWitness(old, p) /\ i \in 0..e
      BY <1>1, <1>2, <1>3, <1>5
    <2>2. p.code \in DOMAIN w[e].pool /\ (i > n => list[i - n].code \in DOMAIN w[e].index)
      BY <1>3 DEF Stayed
    <2> HIDE DEF list, old
    <2>3. Covers(C, w[e], people, list) /\ Len(list) \in Nat
      BY DEF list
    <2>4. Fits(C, p)
      BY <2>1, <2>2, <2>3, ComerFits
    <2> HIDE DEF p
    <2>5. /\ w[i].index = Entered(old.index, p, ForgeAlias[p.code]) /\ w[i].pool = With(old.pool, p.code, p)
      BY <2>1, <2>4, WitnessPlain
    <2>6. <<p.code, ForgeAlias[p.code]>> \in C
      BY <2>4 DEF Fits
    <2>7. Told(w[i], C)
      BY ONLY Single(C), <2>1, <2>4, <2>5, <2>6, EnteredTold
    <2>8. QED
      BY <2>1, <2>7
  <1>6. 0..e \subseteq T
    <2> HIDE DEF T, e
    <2>1. QED
      BY <1>1, <1>4, <1>5, UpTo
  <1>7. QED
    BY <1>6

\* Party mode's room and the forge's, step by step.
LEMMA Lockstep ==
    ASSUME NEW people, Len(people) \in Nat, NEW items, Len(Coded(items)) \in Nat,
           NEW z, PartyRun(z, people, items), NEW w, ForgeRun(w, people, items),
           NEW C, Single(C), Covers(C, z[Len(people) + Len(Coded(items))], people, Coded(items)),
           \A c \in DOMAIN z[Len(people) + Len(Coded(items))].pool : PartyAlias[c] = ForgeAlias[c]
    PROVE  LET e == Len(people) + Len(Coded(items))
           IN z[e].pool = w[e].pool /\ z[e].index = w[e].index
  <1> DEFINE n == Len(people)
             list == Coded(items)
             e == n + Len(list)
             Same(i) == z[i].pool = w[i].pool /\ z[i].index = w[i].index /\ Told(z[i], C) /\ Owned(z[i], C)
             T == {i \in 0..e : Same(i)}
  <1>1. e \in Nat /\ 0 \in 0..e /\ e \in 0..e /\ \A i \in 1..e : i \in 0..e /\ i - 1 \in 0..e
    OBVIOUS
  <1>2. /\ z[0] = EmptyRoom /\ \A i \in 1..e : z[i] = Register(z[i-1], Comer(z[i-1], people, list, i))
        /\ w[0] = EmptyRoom /\ \A i \in 1..e : w[i] = RegisterWitness(w[i-1], Comer(w[i-1], people, list, i))
    BY DEF PartyRun, ForgeRun
  <1>3. \A i \in 0..e : HasParts(w[i])
    BY ForgeRunStays
  <1>4. Stayed(z, people, list)
    <2>1. \A c, d \in DOMAIN z[e].pool : PartyAlias[c] = PartyAlias[d] => c = d
      BY DEF Covers, Single
    <2>2. QED
      BY <2>1, PartyRunStays
  <1>5. 0 \in T
    BY <1>1, <1>2, EmptyTold
  <1>6. ASSUME NEW i \in 1..e, i - 1 \in T
        PROVE  i \in T
    <2> DEFINE old == z[i-1]
               new == w[i-1]
               p == Comer(old, people, list, i)
    <2>1. old.pool = new.pool /\ old.index = new.index /\ Told(old, C) /\ Owned(old, C) /\ i \in 0..e
      BY <1>1, <1>6
    <2>2. p = Comer(new, people, list, i)
      <3> HIDE DEF list, old, new
      <3>1. QED
        BY <2>1 DEF Comer, Custom
    <2>3. z[i] = Register(old, p) /\ w[i] = RegisterWitness(new, p) /\ HasParts(new)
      BY <1>1, <1>2, <1>3, <2>2
    <2>4. p.code \in DOMAIN z[e].pool /\ (i > n => list[i - n].code \in DOMAIN z[e].index)
      BY <1>4 DEF Stayed
    <2>5. Covers(C, z[e], people, list) /\ Len(list) \in Nat
      OBVIOUS
    <2>6. PartyAlias[p.code] = ForgeAlias[p.code]
      BY <2>4
    <2> HIDE DEF list, old, new
    <2>7. Fits(C, p)
      BY <2>1, <2>4, <2>5, ComerFits
    <2> HIDE DEF p
    <2>8. z[i].index = Entered(old.index, p, PartyAlias[p.code]) /\ z[i].pool = With(old.pool, p.code, p) /\ Owned(z[i], C)
      BY <2>1, <2>3, <2>7, RegisterPlain
    <2>9. Told(new, C)
      BY <2>1 DEF Told
    <2>10. w[i].index = Entered(new.index, p, ForgeAlias[p.code]) /\ w[i].pool = With(new.pool, p.code, p)
      BY <2>3, <2>7, <2>9, WitnessPlain
    <2>11. <<p.code, PartyAlias[p.code]>> \in C
      BY <2>7 DEF Fits
    <2>12. Told(z[i], C)
      BY ONLY Single(C), <2>1, <2>7, <2>8, <2>11, EnteredTold
    <2>13. Same(i)
      BY <2>1, <2>6, <2>8, <2>10, <2>12
    <2> HIDE DEF Same
    <2>14. QED
      BY <2>1, <2>13
  <1>7. 0..e \subseteq T
    <2> HIDE DEF T, e
    <2>1. QED
      BY <1>1, <1>5, <1>6, UpTo
  <1>8. QED
    BY <1>1, <1>7

\* A room after j members, when no two of them stand for one person.
Placed(room, now, list, K, j) ==
    /\ DOMAIN now.pool = DOMAIN room.pool \cup {K[a] : a \in 1..j}
    /\ \A c \in DOMAIN room.pool : (\A a \in 1..j : K[a] # c) => now.pool[c] = room.pool[c]
    /\ \A a \in 1..j : Custom(room, list[a]).code = K[a] /\ now.pool[K[a]] = Custom(room, list[a])
    /\ \A t \in DOMAIN room.index : t \in DOMAIN now.index /\ now.index[t] = room.index[t]
    /\ \A t \in DOMAIN now.index : t \in DOMAIN room.index \/ \E a \in 1..j : now.index[t] = K[a]

LEMMA PlacedStep ==
    ASSUME NEW room, NEW old, NEW list, NEW K, NEW j \in Nat, Placed(room, old, list, K, j),
           \A a \in 1..j : K[a] # K[j+1], NEW C, Single(C), Told(old, C),
           NEW p, p = Custom(old, list[j+1]), p.code = K[j+1], Fits(C, p),
           NEW new, new.index = Entered(old.index, p, ForgeAlias[p.code]), new.pool = With(old.pool, p.code, p)
    PROVE  Placed(room, new, list, K, j + 1)
  <1> DEFINE k == K[j+1]
             m == list[j+1]
             D == DOMAIN room.pool
             I == DOMAIN room.index
  <1>1. /\ DOMAIN old.pool = D \cup {K[a] : a \in 1..j}
        /\ \A c \in D : (\A a \in 1..j : K[a] # c) => old.pool[c] = room.pool[c]
        /\ \A a \in 1..j : Custom(room, list[a]).code = K[a] /\ old.pool[K[a]] = Custom(room, list[a])
        /\ \A t \in I : t \in DOMAIN old.index /\ old.index[t] = room.index[t]
        /\ \A t \in DOMAIN old.index : t \in I \/ \E a \in 1..j : old.index[t] = K[a]
    BY DEF Placed
  <1>2. <<p.code, ForgeAlias[p.code]>> \in C
    BY DEF Fits
  <1> DEFINE al == ForgeAlias[p.code]
  <1>3. new.index = Entered(old.index, p, al) /\ new.pool = With(old.pool, p.code, p)
    OBVIOUS
  <1>4. Fits(C, p)
    OBVIOUS
  <1>5. /\ DOMAIN new.index = DOMAIN old.index \cup {p.code, al, p.name}
        /\ \A t \in DOMAIN old.index : new.index[t] = old.index[t]
        /\ \A t \in {p.code, al, p.name} : new.index[t] = p.code
        /\ DOMAIN new.pool = DOMAIN old.pool \cup {p.code} /\ new.pool[p.code] = p
        /\ \A c \in DOMAIN old.pool : c # p.code => new.pool[c] = old.pool[c]
    <2>1. <<p.code, al>> \in C
      BY <1>2
    <2>2. Told(old, C) /\ Single(C)
      OBVIOUS
    <2> HIDE DEF al, k, m, D, I
    <2>3. QED
      <3>1. Gained(old, new, p, al)
        BY ONLY <1>3, <1>4, <2>1, <2>2, EnteredTold
      <3>2. QED
        BY <3>1 DEF Gained
  <1>6. /\ \A a \in 1..j : a \in 1..(j + 1)
        /\ j + 1 \in 1..(j + 1) /\ \A a \in 1..(j + 1) : a \in 1..j \/ a = j + 1
    OBVIOUS
  <1> DEFINE J == 1..j
             J1 == 1..(j + 1)
             l == j + 1
  <1>7. (\A a \in J : a \in J1) /\ l \in J1 /\ \A a \in J1 : a \in J \/ a = l
    BY <1>6
  <1>8. p.code = k /\ (\A a \in J : K[a] # k) /\ k = K[l] /\ m = list[l]
    OBVIOUS
  <1> HIDE DEF D, I, J, J1, l, k, m, al
  <1>9. p = Custom(room, m)
    <2>1. m.code \in DOMAIN old.index => m.code \in I
      <3>1. m.code \in DOMAIN old.index => old.index[m.code] = k
        BY <1>8 DEF Custom, m
      <3>2. QED
        BY <1>1, <1>8, <3>1 DEF J
    <2>2. Custom(room, m).code = k
      <3>1. Custom(old, m).code = k
        BY <1>8 DEF m
      <3>2. QED
        BY <1>1, <2>1, <3>1 DEF Custom, I
    <2>3. k \in DOMAIN old.pool <=> k \in D
      BY <1>1, <1>8 DEF J
    <2>4. k \in D => old.pool[k] = room.pool[k]
      BY <1>1, <1>8 DEF J
    <2>5. /\ Custom(old, m) = [code |-> k, name |-> NameOr(m.name, IF k \in DOMAIN old.pool THEN old.pool[k].name ELSE k), here |-> "custom"]
          /\ Custom(room, m) = [code |-> k, name |-> NameOr(m.name, IF k \in D THEN room.pool[k].name ELSE k), here |-> "custom"]
      <3>1. Custom(old, m).code = k
        BY <1>8 DEF m
      <3>2. QED
        BY <2>2, <3>1 DEF Custom, D
    <2>6. Custom(old, m) = Custom(room, m)
      BY <2>3, <2>4, <2>5
    <2>7. QED
      BY <2>6 DEF m
  <1>10. DOMAIN new.pool = D \cup {K[a] : a \in J1}
    <2>1. {K[a] : a \in J1} = {K[a] : a \in J} \cup {k}
      BY <1>7, <1>8
    <2>2. QED
      BY <1>1, <1>5, <1>8, <2>1 DEF J
  <1>11. \A c \in D : (\A a \in J1 : K[a] # c) => new.pool[c] = room.pool[c]
    BY <1>1, <1>5, <1>7, <1>8 DEF J
  <1>12. ASSUME NEW a \in J1
         PROVE  Custom(room, list[a]).code = K[a] /\ new.pool[K[a]] = Custom(room, list[a])
    <2>1. CASE a = l
      BY <1>5, <1>8, <1>9, <2>1
    <2>2. CASE a \in J
      <3>1. Custom(room, list[a]).code = K[a] /\ old.pool[K[a]] = Custom(room, list[a]) /\ K[a] # k
        BY <1>1, <1>8, <2>2 DEF J
      <3>2. K[a] \in DOMAIN old.pool
        BY <1>1, <2>2 DEF J
      <3>3. QED
        BY <1>5, <1>8, <3>1, <3>2
    <2>3. QED
      BY <1>7, <2>1, <2>2
  <1>13. \A t \in I : t \in DOMAIN new.index /\ new.index[t] = room.index[t]
    BY <1>1, <1>5
  <1>14. ASSUME NEW t \in DOMAIN new.index
         PROVE  t \in I \/ \E a \in J1 : new.index[t] = K[a]
    <2>1. CASE t \in DOMAIN old.index
      BY <1>1, <1>5, <1>7, <2>1 DEF J
    <2>2. CASE t \in {p.code, al, p.name}
      BY <1>5, <1>7, <1>8, <2>2
    <2>3. QED
      BY <1>5, <2>1, <2>2
  <1>15. QED
    BY <1>10, <1>11, <1>12, <1>13, <1>14 DEF Placed, D, I, J1

LEMMA StandAlone ==
    ASSUME NEW people, Len(people) \in Nat, NEW items, Len(Coded(items)) \in Nat, NEW w, ForgeRun(w, people, items),
           NEW C, Single(C), Covers(C, w[Len(people) + Len(Coded(items))], people, Coded(items)),
           \A a, b \in 1..Len(Coded(items)) :
             w[Len(people) + Len(Coded(items))].index[Coded(items)[a].code] = w[Len(people) + Len(Coded(items))].index[Coded(items)[b].code]
               => a = b
    PROVE  LET end == w[Len(people) + Len(Coded(items))]
           IN Placed(w[Len(people)], end, Coded(items), [a \in 1..Len(Coded(items)) |-> end.index[Coded(items)[a].code]],
                     Len(Coded(items)))
  <1> DEFINE n == Len(people)
             list == Coded(items)
             h == Len(list)
             e == n + h
             end == w[e]
             K == [a \in 1..h |-> end.index[list[a].code]]
             T == {j \in 0..h : Placed(w[n], w[n + j], list, K, j)}
  <1>1. /\ n \in Nat /\ h \in Nat /\ n + 0 = n
        /\ \A j \in 1..h : n + j \in 1..e /\ (n + j) - 1 = n + (j - 1) /\ (n + j) - n = j /\ n + j > n /\ ~(n + j <= n)
                           /\ n + (j - 1) \in 0..e
    OBVIOUS
  <1>2. \A i \in 1..e : w[i] = RegisterWitness(w[i-1], Comer(w[i-1], people, list, i))
    BY DEF ForgeRun
  <1>3. Stayed(w, people, list) /\ \A i \in 0..e : HasParts(w[i])
    BY ForgeRunStays
  <1>4. \A i \in 0..e : Told(w[i], C)
    BY ForgeTold
  <1>5. 0 \in T
    <2>1. Placed(w[n], w[n], list, K, 0)
      BY DEF Placed
    <2>2. QED
      BY <1>1, <2>1
  <1>6. ASSUME NEW j \in 1..h, j - 1 \in T
        PROVE  j \in T
    <2> DEFINE i == n + j
               old == w[n + (j - 1)]
               new == w[i]
               p == Custom(old, list[j])
    <2>1. i \in 1..e /\ i > n /\ ~(i <= n) /\ i - n = j /\ w[i-1] = old
      BY <1>1
    <2>2. Comer(old, people, list, i) = p
      BY <2>1 DEF Comer
    <2>3. new = RegisterWitness(old, p) /\ HasParts(old) /\ Told(old, C)
      BY <1>1, <1>2, <1>3, <1>4, <2>1, <2>2
    <2>4. p.code \in DOMAIN end.pool /\ list[j].code \in DOMAIN end.index
      BY <1>3, <2>1, <2>2 DEF Stayed
    <2>5. K[j] = end.index[list[j].code] /\ \A a \in 1..(j - 1) : a \in 1..h /\ a # j /\ K[a] # K[j]
      OBVIOUS
    <2>6. Placed(w[n], old, list, K, j - 1) /\ j - 1 \in Nat /\ (j - 1) + 1 = j
      BY <1>6
    <2>7. Covers(C, end, people, list) /\ Len(list) \in Nat
      OBVIOUS
    <2> HIDE DEF list, end, K, i, old, new
    <2>8. Fits(C, p) /\ end.index[list[j].code] = p.code
      <3>1. i \in 1..(n + Len(list))
        BY <2>1 DEF list
      <3> HIDE DEF n
      <3>2. n = Len(people)
        BY DEF n
      <3>3. p = Comer(old, people, list, i) /\ (i > n => list[i - n].code \in DOMAIN end.index)
        BY <2>1, <2>2, <2>4
      <3> HIDE DEF p
      <3>4. Fits(C, p) /\ (i > Len(people) => end.index[list[i - Len(people)].code] = p.code)
        BY <2>3, <2>4, <2>7, <3>1, <3>2, <3>3, ComerFits
      <3>5. QED
        BY <2>1, <3>2, <3>4
    <2>9. p.code = K[j]
      BY <2>5, <2>8
    <2>10. new.index = Entered(old.index, p, ForgeAlias[p.code]) /\ new.pool = With(old.pool, p.code, p)
      BY <2>3, <2>8, WitnessPlain
    <2> DEFINE g == j - 1
    <2>11. g \in Nat /\ g + 1 = j
      BY <2>6
    <2>12. Placed(w[n], old, list, K, g) /\ \A a \in 1..g : K[a] # K[g + 1]
      BY <2>5, <2>6
    <2>13. p = Custom(old, list[g + 1]) /\ p.code = K[g + 1]
      BY <2>9, <2>11
    <2> HIDE DEF g, p
    <2>14. Placed(w[n], new, list, K, g + 1)
      BY ONLY Single(C), <2>3, <2>8, <2>10, <2>11, <2>12, <2>13, PlacedStep
    <2>15. QED
      BY <2>11, <2>14 DEF new, i
  <1>7. 0..h \subseteq T
    <2> HIDE DEF T, h
    <2>1. QED
      BY <1>1, <1>5, <1>6, UpTo
  <1>8. Placed(w[n], w[n + h], list, K, h)
    <2>1. h \in 0..h
      BY <1>1
    <2> HIDE DEF K, list
    <2>2. QED
      BY <1>7, <2>1
  <1>9. QED
    BY <1>8

\* What load_roster offers, from rosters or without any.
LEMMA RosterKnown ==
    ASSUME RoomsHold, NEW bare \in BOOLEAN, NEW r, r = Roster(folders, Answers, central, OfferedGroups, bare)
    PROVE  \E S, A : /\ r.people \in Seq(S) /\ r.agents \in Seq(A) /\ r.guests = Guests(r.people, r.agents)
                     /\ r.groups \in Seq(Range(OfferedGroups)) /\ OneEach(r.groups)
  <1> DEFINE people == People(folders, Answers)
  <1>1. central \in Seq(Central)
    BY DEF RoomsHold
  <1>2. \A x, g : LET o == RosterOf(x, central, g)
                  IN o.people = x /\ o.agents = Agents(x, central) /\ o.guests = Guests(x, Agents(x, central)) /\ o.groups = g
    BY DEF RosterOf
  <1>3. CASE bare
    <2>1. r = RosterOf(<<>>, central, <<>>)
      BY <1>3 DEF Roster
    <2>2. <<>> \in Seq({}) /\ OneEach(<<>>) /\ <<>> \in Seq(Range(OfferedGroups))
      BY DEF OneEach
    <2>3. Agents(<<>>, central) \in Seq(AgentOf(<<>>, central))
      BY ONLY <1>1, <2>2, AgentFacts
    <2> DEFINE none == <<>>
               A == AgentOf(none, central)
    <2>4. r.people = none /\ r.agents = Agents(none, central) /\ r.guests = Guests(none, Agents(none, central)) /\ r.groups = none
      BY <1>2, <2>1
    <2>5. /\ r.people \in Seq({}) /\ r.agents \in Seq(A) /\ r.guests = Guests(r.people, r.agents)
          /\ r.groups \in Seq(Range(OfferedGroups)) /\ OneEach(r.groups)
      BY <2>2, <2>3, <2>4
    <2> HIDE DEF A
    <2>6. QED
      BY <2>5
  <1>4. CASE ~bare
    <2>1. r = RosterOf(people, central, OfferedGroups)
      BY <1>4 DEF Roster, People
    <2>2. /\ people \in Seq(PersonOf(folders, Rosters(folders), Answers))
          /\ Agents(people, central) \in Seq(AgentOf(people, central))
      BY OfferedFacts
    <2>3. OfferedGroups \in Seq(Range(OfferedGroups)) /\ OneEach(OfferedGroups)
      <3>1. OfferedGroups \in Seq(Range(OfferedGroups))
        BY CustomizationAssumption DEF CustomizationAssumption
      <3>2. DOMAIN OfferedGroups = 1..Len(OfferedGroups)
        BY <3>1, CodeFacts
      <3>3. QED
        BY <3>1, <3>2, CustomizationAssumption DEF CustomizationAssumption, OneEach
    <2> HIDE DEF people
    <2>4. QED
      BY <1>2, <2>1, <2>2, <2>3
  <1>5. QED
    BY <1>3, <1>4

LEMMA CodedFacts ==
    ASSUME NEW I, NEW items \in Seq(I)
    PROVE  /\ Len(Coded(items)) \in Nat /\ Coded(items) \in Seq(I)
           /\ Range(Coded(items)) = {m \in Range(items) : m.code \notin {NoCode, BadCode}}
           /\ \A i \in 1..Len(Coded(items)) : Coded(items)[i] \in Range(items)
  <1> DEFINE X == {m \in Range(items) : m.code \notin {NoCode, BadCode}}
  <1>1. Only(items, X) \in Seq(I) /\ OnlyOf(Only(items, X), items, X, Len(items))
    BY OnlyFacts
  <1>2. Coded(items) \in Seq(I) /\ OnlyOf(Coded(items), items, X, Len(items))
    BY <1>1 DEF Coded
  <1>3. Range(items) = {items[i] : i \in 1..Len(items)}
    BY CodeFacts
  <1>4. Len(Coded(items)) \in Nat /\ Range(Coded(items)) = {Coded(items)[i] : i \in 1..Len(Coded(items))}
    BY <1>2, CodeFacts
  <1>5. Range(Coded(items)) = X
    BY <1>2, <1>3 DEF OnlyOf
  <1>6. QED
    BY <1>2, <1>4, <1>5

\* Where no two claim a token, the claims cover the room.
LEMMA ClaimsCover ==
    ASSUME NEW r, NEW room, NEW members, ~Confused(r, room, members),
           NEW people, \A i \in 1..Len(people) : people[i] \in Range(r.people) \cup Range(r.agents),
           NEW list, \A i \in 1..Len(list) : list[i] \in Range(members)
    PROVE  Single(Claims(r, room, members)) /\ Covers(Claims(r, room, members), room, people, list)
  <1> DEFINE C == Claims(r, room, members)
             pool == room.pool
             index == room.index
             found == {m \in Range(members) : m.code \in DOMAIN index}
             Own(c) == {c} \X {c, PartyAlias[c], ForgeAlias[c], pool[c].name}
             Met(m) == {index[m.code]} \X {m.code, NameOr(m.name, m.code)}
  <1>1. C = (UNION {Own(c) : c \in DOMAIN pool})
             \cup {<<m.code, m.name>> : m \in Range(r.people) \cup Range(r.agents)}
             \cup (UNION {Met(m) : m \in found})
    BY DEF Claims
  <1>2. Single(C)
    <2>1. \A a, b \in C : a[2] = b[2] => a[1] = b[1]
      BY DEF Confused
    <2> HIDE DEF C
    <2>2. ASSUME NEW c, NEW d, NEW t, <<c, t>> \in C, <<d, t>> \in C
          PROVE  c = d
      <3>1. <<c, t>>[2] = <<d, t>>[2] => <<c, t>>[1] = <<d, t>>[1]
        BY <2>1, <2>2
      <3>2. QED
        BY <3>1
    <2>3. QED
      BY <2>2 DEF Single
  <1>3. ASSUME NEW c \in DOMAIN pool
        PROVE  <<c, c>> \in C /\ <<c, PartyAlias[c]>> \in C /\ <<c, ForgeAlias[c]>> \in C
    <2>1. <<c, c>> \in Own(c) /\ <<c, PartyAlias[c]>> \in Own(c) /\ <<c, ForgeAlias[c]>> \in Own(c)
      OBVIOUS
    <2> HIDE DEF Own, Met, found, C
    <2>2. QED
      BY <1>1, <1>3, <2>1
  <1>4. ASSUME NEW i \in 1..Len(people)
        PROVE  <<people[i].code, people[i].name>> \in C
    <2> HIDE DEF Own, Met, found, C
    <2>1. QED
      BY <1>1
  <1>5. ASSUME NEW i \in 1..Len(list), list[i].code \in DOMAIN index
        PROVE  <<index[list[i].code], list[i].code>> \in C /\ <<index[list[i].code], NameOr(list[i].name, list[i].code)>> \in C
    <2> DEFINE m == list[i]
    <2>1. m \in found
      BY <1>5
    <2>2. <<index[m.code], m.code>> \in Met(m) /\ <<index[m.code], NameOr(m.name, m.code)>> \in Met(m)
      OBVIOUS
    <2> HIDE DEF Own, Met, found, C, m
    <2>3. <<index[m.code], m.code>> \in C /\ <<index[m.code], NameOr(m.name, m.code)>> \in C
      BY <1>1, <2>1, <2>2
    <2>4. QED
      BY <2>3 DEF m
  <1> HIDE DEF C
  <1>6. Covers(C, room, people, list)
    BY <1>3, <1>4, <1>5 DEF Covers
  <1>7. QED
    BY <1>2, <1>6 DEF C

\* Party mode and the forge make the same of everyone.
LEMMA SamePeople ==
    ASSUME NEW r, NEW S, r.people \in Seq(S), NEW A, r.agents \in Seq(A), NEW I, NEW items \in Seq(I),
           NEW party, party = Collective(r.agents, Guests(r.people, r.agents), items),
           NEW forge, forge = Witnesses(r.agents, Guests(r.people, r.agents), items),
           ~Confused(r, party, items), \A c \in DOMAIN party.pool : PartyAlias[c] = ForgeAlias[c]
    PROVE  party.pool = forge.pool /\ party.index = forge.index
  <1> DEFINE comers == r.agents \o Guests(r.people, r.agents)
             coded == Coded(items)
             C == Claims(r, party, items)
             e == Len(comers) + Len(coded)
  <1>1. Len(comers) \in Nat /\ \A i \in 1..Len(comers) : comers[i] \in Range(r.people) \cup Range(r.agents)
    <2>1. r.people \in Seq(S) /\ r.agents \in Seq(A)
      OBVIOUS
    <2>2. /\ Len(comers) \in Nat
          /\ \A i \in 1..Len(comers) : comers[i] \in Range(r.agents) \cup Range(r.people)
      BY ONLY <2>1, ComersFacts
    <2>3. QED
      BY <2>2
  <1>2. Len(coded) \in Nat /\ \A i \in 1..Len(coded) : coded[i] \in Range(items)
    BY CodedFacts
  <1>3. party = SeatCustom(Seat(comers, Register), items, Register)
        /\ forge = SeatCustom(Seat(comers, RegisterWitness), items, RegisterWitness)
    BY DEF Collective, Witnesses
  <1> HIDE DEF comers
  <1>4. PICK z : PartyRun(z, comers, items)
    BY <1>1, <1>2, PartyRuns
  <1>5. PICK w : ForgeRun(w, comers, items)
    BY <1>1, <1>2, ForgeRuns
  <1>6. z[e] = party /\ w[e] = forge
    BY <1>3, <1>4, <1>5 DEF PartyRun, ForgeRun
  <1>7. ~Confused(r, party, items)
    OBVIOUS
  <1> HIDE DEF coded, e
  <1>8. Single(C) /\ Covers(C, party, comers, coded)
    BY ONLY <1>1, <1>2, <1>7, ClaimsCover DEF C
  <1> HIDE DEF C
  <1>9. Covers(C, z[Len(comers) + Len(Coded(items))], comers, Coded(items))
        /\ \A c \in DOMAIN z[Len(comers) + Len(Coded(items))].pool : PartyAlias[c] = ForgeAlias[c]
    BY <1>6, <1>8 DEF e, coded
  <1>10. Len(comers) \in Nat /\ Len(Coded(items)) \in Nat /\ Single(C)
    BY <1>1, <1>2, <1>8 DEF coded
  <1> DEFINE x == Len(comers) + Len(Coded(items))
  <1>11. z[x].pool = w[x].pool /\ z[x].index = w[x].index
    BY ONLY <1>4, <1>5, <1>9, <1>10, Lockstep
  <1>12. QED
    BY <1>6, <1>11 DEF e, coded

-----------------------------------------------------------------------------
(* The groups.                                                             *)

LEMMA PutOneEach ==
    ASSUME NEW S, NEW list \in Seq(S), OneEach(list), NEW item \in S
    PROVE  Put(list, item, "code") \in Seq(S) /\ OneEach(Put(list, item, "code"))
  <1> DEFINE new == Put(list, item, "code")
             n == Len(list)
  <1>1. new \in Seq(S) /\ \E at : PutsAt(list, item, "code", new, at)
    BY PutFacts
  <1> HIDE DEF new
  <1>2. PICK at : PutsAt(list, item, "code", new, at)
    BY <1>1
  <1>3. /\ at \in 1..(n + 1) /\ Len(new) = IF at = n + 1 THEN n + 1 ELSE n
        /\ new[at] = item /\ \A i \in 1..n : i # at => new[i] = list[i]
        /\ at <= n => list[at].code = item.code
        /\ at = n + 1 => \A i \in 1..n : list[i].code # item.code
    BY <1>2 DEF PutsAt
  <1>4. n \in Nat /\ \A i, j \in 1..n : list[i].code = list[j].code => i = j
    BY DEF OneEach
  <1> HIDE DEF n
  <1> DEFINE m == Len(new)
  <1>5. n \in Nat /\ at \in 1..(n + 1) /\ m = IF at = n + 1 THEN n + 1 ELSE n
    BY <1>3, <1>4
  <1> HIDE DEF m
  <1>6. \A i \in 1..m : i = at \/ (i \in 1..n /\ i # at)
    BY ONLY <1>5
  <1>7. \A i \in 1..Len(new) : i = at \/ (i \in 1..n /\ i # at)
    BY <1>6 DEF m
  <1>8. ASSUME NEW i \in 1..n, i # at
        PROVE  list[i].code # item.code
    <2>1. CASE at = n + 1
      BY <1>3, <2>1
    <2>2. CASE at # n + 1
      <3>1. at \in 1..n /\ at <= n
        BY <1>3, <1>4, <2>2
      <3>2. QED
        BY <1>3, <1>4, <1>8, <3>1
    <2>3. QED
      BY <2>1, <2>2
  <1>9. OneEach(new)
    <2>1. \A i, j \in 1..Len(new) : new[i].code = new[j].code => i = j
      BY <1>3, <1>4, <1>7, <1>8
    <2>2. QED
      BY <2>1 DEF OneEach
  <1>10. QED
    BY <1>1, <1>9 DEF new

\* Each group is on the menu once, the user's in place of those offered.
LEMMA GroupsFacts ==
    ASSUME NEW S, NEW offered \in Seq(S), OneEach(offered), NEW mine \in Seq(S)
    PROVE  Groups(offered, mine) \in Seq(S) /\ OneEach(Groups(offered, mine))
  <1> DEFINE n == Len(mine)
  <1>1. n \in Nat /\ \A i \in 1..n : mine[i] \in S
    OBVIOUS
  <1>2. PICK put : IsPutAll(put, S, offered, mine, "code")
    BY PutAllFacts
  <1> DEFINE T == {i \in 0..n : put[i] \in Seq(S) /\ OneEach(put[i])}
  <1>3. 0 \in T
    BY <1>1, <1>2 DEF IsPutAll
  <1>4. ASSUME NEW i \in 1..n, i - 1 \in T
        PROVE  i \in T
    <2>1. put[i] = Put(put[i-1], mine[i], "code") /\ put[i-1] \in Seq(S) /\ OneEach(put[i-1]) /\ mine[i] \in S
      BY <1>1, <1>2, <1>4 DEF IsPutAll
    <2>2. i \in 0..n
      BY <1>1
    <2> HIDE DEF n
    <2>3. put[i] \in Seq(S) /\ OneEach(put[i])
      BY ONLY <2>1, PutOneEach
    <2>4. QED
      BY <2>2, <2>3
  <1>5. 0..n \subseteq T
    <2> HIDE DEF T, n
    <2>1. QED
      BY <1>1, <1>3, <1>4, UpTo
  <1>6. n \in 0..n /\ put[n] = PutAll(offered, mine, "code")
    BY <1>1, <1>2 DEF IsPutAll
  <1>7. QED
    BY <1>5, <1>6 DEF Groups

Split(a, b, i) == Len(a) + Len(b) = i

\* Whoever a group lists either has a seat or is unresolved.
LEMMA SplitLen ==
    ASSUME NEW S, NEW s \in Seq(S), NEW X
    PROVE  Len(s) = Len(Only(s, X)) + Len(Only(s, Range(s) \ X))
  <1> DEFINE n == Len(s)
             Y == Range(s) \ X
  <1>1. n \in Nat /\ \A i \in 1..n : s[i] \in S /\ (s[i] \in X <=> s[i] \notin Y)
    BY CodeFacts
  <1>2. PICK f : OnlyBy(f, s, X)
    BY OnlySteps
  <1>3. PICK g : OnlyBy(g, s, Y)
    BY OnlySteps
  <1> HIDE DEF Y
  <1>4. /\ f[0] = <<>> /\ g[0] = <<>> /\ Only(s, X) = f[n] /\ Only(s, Y) = g[n]
        /\ \A i \in 1..n : f[i] = (IF s[i] \in X THEN Append(f[i-1], s[i]) ELSE f[i-1])
                           /\ g[i] = (IF s[i] \in Y THEN Append(g[i-1], s[i]) ELSE g[i-1])
    BY <1>2, <1>3 DEF OnlyBy
  <1> DEFINE T == {i \in 0..n : f[i] \in Seq(S) /\ g[i] \in Seq(S) /\ Split(f[i], g[i], i)}
  <1> HIDE DEF n
  <1>5. 0 \in T
    <2>1. <<>> \in Seq(S) /\ Len(<<>>) = 0 /\ 0 \in 0..n
      BY <1>1
    <2>2. Split(<<>>, <<>>, 0)
      BY <2>1 DEF Split
    <2>3. QED
      BY <1>4, <2>1, <2>2
  <1>6. ASSUME NEW i \in 1..n, i - 1 \in T
        PROVE  i \in T
    <2> DEFINE a == f[i-1]
               b == g[i-1]
    <2>1. /\ a \in Seq(S) /\ b \in Seq(S) /\ Split(a, b, i - 1) /\ s[i] \in S /\ (s[i] \in X <=> s[i] \notin Y)
          /\ i \in 0..n
      BY <1>1, <1>6
    <2>2. f[i] = (IF s[i] \in X THEN Append(a, s[i]) ELSE a) /\ g[i] = (IF s[i] \in Y THEN Append(b, s[i]) ELSE b)
      BY <1>4
    <2>3. /\ Append(a, s[i]) \in Seq(S) /\ Len(Append(a, s[i])) = Len(a) + 1
          /\ Append(b, s[i]) \in Seq(S) /\ Len(Append(b, s[i])) = Len(b) + 1
      BY <2>1, AppendProperties
    <2> DEFINE x == Len(a)
               y == Len(b)
    <2> HIDE DEF a, b
    <2>4. x \in Nat /\ y \in Nat
      BY <2>1
    <2>5. x + y = i - 1
      BY ONLY <2>1 DEF Split, x, y
    <2>6. x \in Nat /\ y \in Nat /\ x + y = i - 1 /\ i \in Int
      BY <1>1, <2>4, <2>5
    <2>7. /\ f[i] \in Seq(S) /\ Len(f[i]) = (IF s[i] \in X THEN x + 1 ELSE x)
          /\ g[i] \in Seq(S) /\ Len(g[i]) = (IF s[i] \in Y THEN y + 1 ELSE y)
      BY <2>1, <2>3, <2>2
    <2> HIDE DEF x, y
    <2>8. Split(f[i], g[i], i)
      BY <2>1, <2>7, <2>6 DEF Split
    <2>9. QED
      BY <2>1, <2>7, <2>8
  <1>7. 0..n \subseteq T
    <2> HIDE DEF T
    <2>1. QED
      BY <1>1, <1>5, <1>6, UpTo
  <1>8. n \in 0..n
    BY <1>1
  <1>9. Split(f[n], g[n], n)
    BY <1>7, <1>8
  <1>10. QED
    BY <1>4, <1>9 DEF n, Y, Split

\* Which room party mode opens.
LEMMA OpenedFacts ==
    ASSUME NEW S, NEW groups \in Seq(S), OneEach(groups), \A i \in 1..Len(groups) : groups[i].code # NoGroup,
           NEW room, NEW agents, NEW wish
    PROVE  /\ \A i \in 1..Len(groups) : wish = groups[i].code => Opened(room, agents, groups, wish) = Detail(room, groups[i])
           /\ (\A i \in 1..Len(groups) : wish # groups[i].code)
                => Opened(room, agents, groups, wish).members = Seats(room, agents)
  <1> DEFINE n == Len(groups)
             I == {i \in 1..n : wish # NoGroup /\ groups[i].code = wish}
             at == SelectInSeq(groups, LAMBDA g : wish # NoGroup /\ g.code = wish)
  <1>1. at = IF I # {} THEN Min(I) ELSE 0
    BY DEF SelectInSeq
  <1>2. Opened(room, agents, groups, wish) =
          IF at # 0 THEN Detail(room, groups[at])
          ELSE [code |-> NoGroup, members |-> Seats(room, agents), open |-> FALSE, unresolved |-> <<>>]
    BY DEF Opened
  <1>3. I \subseteq 1..n /\ (\A i \in I : groups[i].code = wish)
        /\ \A i \in 1..n : wish = groups[i].code => i \in I
    OBVIOUS
  <1>4. \A i, j \in 1..n : groups[i].code = groups[j].code => i = j
    BY DEF OneEach
  <1>5. n \in Nat
    OBVIOUS
  <1> HIDE DEF I, at, n
  <1>6. I # {} => at \in I
    <2>1. I \subseteq Nat
      BY <1>3, <1>5
    <2>2. QED
      BY <1>1, <2>1, MinFacts
  <1>7. \A i \in 1..n : i # 0
    BY <1>5
  <1>8. ASSUME NEW i \in 1..n, wish = groups[i].code
        PROVE  Opened(room, agents, groups, wish) = Detail(room, groups[i])
    <2>1. i \in I /\ at \in I
      BY <1>3, <1>6, <1>8
    <2>2. at = i
      BY <1>3, <1>4, <1>8, <2>1
    <2>3. QED
      BY <1>2, <1>7, <2>2
  <1>9. ASSUME \A i \in 1..n : wish # groups[i].code
        PROVE  Opened(room, agents, groups, wish).members = Seats(room, agents)
    <2>1. I = {}
      BY <1>3, <1>9
    <2>2. at = 0
      BY <1>1, <2>1
    <2>3. QED
      BY <1>2, <2>2
  <1>10. QED
    BY <1>8, <1>9 DEF n

ReportFacts(r, q, items) ==
    /\ r.people = q.people /\ r.agents = q.agents /\ r.items = items /\ r.groups = Groups(q.groups, own)
    /\ r.party = Collective(q.agents, q.guests, items) /\ r.forge = Witnesses(q.agents, q.guests, items)
    /\ r.found = Witnesses(q.agents, q.guests, ForgeMembers(folders, layers))
    /\ r.menu = Menu(r.groups) /\ r.opened = Opened(r.party, r.agents, r.groups, default)

LEMMA Reported ==
    ASSUME NEW q, NEW items
    PROVE  ReportFacts(ReportOf(q, items), q, items)
  <1> DEFINE groups == Groups(q.groups, own)
             party == Collective(q.agents, q.guests, items)
             r == ReportOf(q, items)
             forge == Witnesses(q.agents, q.guests, items)
             found == Witnesses(q.agents, q.guests, ForgeMembers(folders, layers))
  <1>1. r = [people |-> q.people, agents |-> q.agents, items |-> items, groups |-> groups, party |-> party,
             opened |-> Opened(party, q.agents, groups, default), menu |-> Menu(groups), forge |-> forge, found |-> found]
    BY DEF ReportOf, ReportOn
  <1> HIDE DEF groups, party, forge, found, r
  <1>2. /\ r.people = q.people /\ r.agents = q.agents /\ r.items = items /\ r.groups = groups
        /\ r.party = party /\ r.forge = forge /\ r.found = found
        /\ r.menu = Menu(groups) /\ r.opened = Opened(party, q.agents, groups, default)
    BY <1>1
  <1>3. QED
    BY <1>2 DEF ReportFacts, groups, party, forge, found, r

LEMMA ItemsTyped ==
    ASSUME RoomsHold
    PROVE  \E I : CustomMembers(layers) \in Seq(I)
  <1>1. LayersHold
    BY DEF RoomsHold
  <1>2. \E C, N, Y : Rows \in Seq(Entry(C, N, Y)) /\ CustomMembers(layers) \in Seq(Entry(C, N, Y))
    BY <1>1, ExtrasTyped
  <1>3. QED
    BY <1>2

\* All groups of the room are tables with members and a code of their own.
LEMMA GroupsHold ==
    ASSUME RoomsHold, NEW offered \in Seq(Range(OfferedGroups)), OneEach(offered),
           NEW groups, groups = Groups(offered, own)
    PROVE  /\ groups \in Seq(Range(OfferedGroups) \cup OwnGroups) /\ OneEach(groups)
           /\ \A i \in 1..Len(groups) : IsGroup(groups[i])
  <1> DEFINE S == Range(OfferedGroups) \cup OwnGroups
  <1>1. own \in Seq(OwnGroups) /\ \A g \in S : IsGroup(g)
    BY CustomizationAssumption DEF RoomsHold, CustomizationAssumption
  <1>2. Range(OfferedGroups) \subseteq S /\ OwnGroups \subseteq S
    OBVIOUS
  <1> HIDE DEF S
  <1>3. own \in Seq(S) /\ offered \in Seq(S) /\ OneEach(offered)
    BY <1>1, <1>2, SeqMonotonic
  <1>4. groups \in Seq(S) /\ OneEach(groups)
    BY ONLY <1>3, groups = Groups(offered, own), GroupsFacts
  <1>5. \A i \in 1..Len(groups) : groups[i] \in S
    BY <1>4
  <1>6. QED
    BY <1>1, <1>4, <1>5 DEF S

Counted(room, g) == Len(g.members) = Len(Detail(room, g).members) + Len(Detail(room, g).unresolved)

\* A group is listed, and counted, as it is seated.
LEMMA GroupAlike ==
    ASSUME NEW party, NEW forge, party.pool = forge.pool, party.index = forge.index, NEW g, IsGroup(g)
    PROVE  GroupSeats(party, g) = GroupSeats(forge, g) /\ Counted(party, g)
  <1> DEFINE known == Only(g.members, DOMAIN party.index)
             seats == GroupSeats(party, g)
             out == Only(g.members, Range(g.members) \ DOMAIN party.index)
             k == Len(known)
  <1>1. g.members \in Seq(Range(g.members))
    BY DEF IsGroup
  <1>2. seats = [i \in DOMAIN known |-> party.pool[party.index[known[i]]]]
    BY DEF GroupSeats, Known
  <1>3. GroupSeats(forge, g) = [i \in DOMAIN known |-> party.pool[party.index[known[i]]]]
    BY DEF GroupSeats, Known
  <1>4. Len(g.members) = k + Len(out)
    BY <1>1, SplitLen
  <1>5. known \in Seq(Range(g.members))
    BY <1>1, OnlyFacts
  <1> HIDE DEF known, out, seats
  <1>6. Len(seats) = k
    <2>1. k \in Nat /\ DOMAIN known = 1..k
      BY <1>5
    <2> HIDE DEF k
    <2>2. DOMAIN seats = 1..k
      BY <1>2, <2>1
    <2>3. QED
      BY <1>2, <2>1, <2>2
  <1>7. Detail(party, g).members = seats /\ Detail(party, g).unresolved = out
    BY DEF Detail, seats, out
  <1>8. QED
    BY <1>2, <1>3, <1>4, <1>6, <1>7 DEF seats, Counted

LEMMA SameRoomHolds ==
    ASSUME RoomsHold, NEW bare \in BOOLEAN, NEW q, q = Roster(folders, Answers, central, OfferedGroups, bare),
           NEW r, r = ReportOf(q, CustomMembers(layers))
    PROVE  SameRoom(r)
  <1> DEFINE items == CustomMembers(layers)
             groups == r.groups
             parties == Parties(r.forge, groups)
             n == Len(groups)
  <1>1. ReportFacts(r, q, items)
    BY Reported
  <1>2. \E I : items \in Seq(I)
    BY ItemsTyped
  <1> HIDE DEF items
  <1>3. PICK S, A : /\ q.people \in Seq(S) /\ q.agents \in Seq(A) /\ q.guests = Guests(q.people, q.agents)
                    /\ q.groups \in Seq(Range(OfferedGroups)) /\ OneEach(q.groups)
    BY RosterKnown
  <1>4. /\ groups \in Seq(Range(OfferedGroups) \cup OwnGroups) /\ OneEach(groups)
        /\ \A i \in 1..Len(groups) : IsGroup(groups[i])
    <2>1. groups = Groups(q.groups, own)
      BY <1>1 DEF ReportFacts
    <2> HIDE DEF groups
    <2>2. QED
      BY <1>3, <2>1, GroupsHold
  <1> SUFFICES ASSUME ~Confused(r, r.party, r.items), \A c \in DOMAIN r.party.pool : PartyAlias[c] = ForgeAlias[c]
               PROVE  SameRoom(r)
    BY DEF SameRoom
  <1>5. r.party.pool = r.forge.pool /\ r.party.index = r.forge.index
    <2>1. PICK I : items \in Seq(I)
      BY <1>2
    <2>2. r.people \in Seq(S) /\ r.agents \in Seq(A) /\ r.items = items /\ q.guests = Guests(r.people, r.agents)
      BY <1>1, <1>3 DEF ReportFacts
    <2>3. /\ r.party = Collective(r.agents, Guests(r.people, r.agents), items)
          /\ r.forge = Witnesses(r.agents, Guests(r.people, r.agents), items)
      BY <1>1, <2>2 DEF ReportFacts
    <2>4. ~Confused(r, r.party, items) /\ \A c \in DOMAIN r.party.pool : PartyAlias[c] = ForgeAlias[c]
      BY <2>2
    <2>5. QED
      BY ONLY <2>1, <2>2, <2>3, <2>4, SamePeople
  <1>6. /\ r.menu = Menu(groups) /\ r.opened = Opened(r.party, r.agents, groups, default)
    BY <1>1 DEF ReportFacts
  <1>7. n \in Nat /\ DOMAIN groups = 1..n
    BY <1>4
  <1>8. /\ \A i \in 1..n : groups[i].code # NoGroup
        /\ \A i \in 1..n : default = groups[i].code => r.opened = Detail(r.party, groups[i])
        /\ (\A i \in 1..n : default # groups[i].code) => r.opened.members = Seats(r.party, r.agents)
    <2>1. \A i \in 1..n : groups[i].code # NoGroup
      BY <1>4 DEF IsGroup
    <2> HIDE DEF groups
    <2>2. QED
      BY <1>4, <1>6, <2>1, OpenedFacts
  <1>9. /\ DOMAIN parties = 1..n
        /\ \A i \in 1..n : /\ parties[i].code = groups[i].code /\ parties[i].open = (groups[i].members = <<>>)
                           /\ parties[i].members = GroupSeats(r.forge, groups[i])
                           /\ r.menu[i].count = Len(groups[i].members)
    <2> HIDE DEF n, groups, parties
    <2>1. parties = [i \in 1..n |->
                       [code |-> groups[i].code, members |-> GroupSeats(r.forge, groups[i]), open |-> groups[i].members = <<>>]]
      BY <1>7 DEF Parties, parties
    <2>2. r.menu = [i \in 1..n |-> [code |-> groups[i].code, count |-> Len(groups[i].members)]]
      BY <1>6, <1>7 DEF Menu
    <2>3. QED
      BY <2>1, <2>2
  <1> HIDE DEF n, parties, groups
  <1>10. ASSUME NEW i \in 1..n
         PROVE  LET d == Detail(r.party, groups[i])
                IN /\ d.members = parties[i].members /\ d.open = parties[i].open
                   /\ r.menu[i].count = Len(d.members) + Len(d.unresolved)
                   /\ default = parties[i].code => r.opened = d
    <2> DEFINE d == Detail(r.party, groups[i])
    <2>1. /\ GroupSeats(r.party, groups[i]) = GroupSeats(r.forge, groups[i])
          /\ Len(groups[i].members) = Len(d.members) + Len(d.unresolved)
      <3>1. IsGroup(groups[i])
        BY <1>4 DEF n
      <3>2. GroupSeats(r.party, groups[i]) = GroupSeats(r.forge, groups[i]) /\ Counted(r.party, groups[i])
        BY ONLY <1>5, <3>1, GroupAlike
      <3>3. QED
        BY <3>2 DEF Counted
    <2>2. d.members = GroupSeats(r.party, groups[i]) /\ d.open = (groups[i].members = <<>>)
      BY DEF Detail
    <2> HIDE DEF d
    <2>3. default = parties[i].code => r.opened = d
      BY <1>8, <1>9 DEF d
    <2>4. QED
      BY <1>9, <2>1, <2>2, <2>3 DEF d
  <1>11. default \notin Codes(parties) => r.opened.members = Seats(r.forge, r.agents)
    <2>1. Codes(parties) = {parties[i].code : i \in 1..n}
      BY <1>9 DEF Codes
    <2>2. Seats(r.party, r.agents) = Seats(r.forge, r.agents)
      BY <1>5 DEF Seats
    <2>3. QED
      BY <1>8, <1>9, <2>1, <2>2
  <1>12. QED
    BY <1>5, <1>9, <1>10, <1>11 DEF SameRoom, parties, groups

-----------------------------------------------------------------------------
(* Without party mode.                                                     *)

Seated(r) == Seat(r.agents \o Guests(r.people, r.agents), RegisterWitness)
Found(room, list) == [a \in 1..Len(list) |-> room.index[list[a].code]]

\* Where no two members find one person, each stands for its own.
LEMMA EachItsOwn ==
    ASSUME NEW r, NEW S, r.people \in Seq(S), NEW A, r.agents \in Seq(A), NEW I, NEW items \in Seq(I),
           NEW room, room = Witnesses(r.agents, Guests(r.people, r.agents), items),
           ~Confused(r, room, items), ~Doubled(room, items)
    PROVE  /\ Placed(Seated(r), room, Coded(items), Found(room, Coded(items)), Len(Coded(items)))
           /\ \A a \in 1..Len(Coded(items)) : Coded(items)[a].code \in DOMAIN room.index
  <1> DEFINE comers == r.agents \o Guests(r.people, r.agents)
             coded == Coded(items)
             h == Len(coded)
             C == Claims(r, room, items)
  <1>1. Len(comers) \in Nat /\ \A i \in 1..Len(comers) : comers[i] \in Range(r.people) \cup Range(r.agents)
    <2>1. r.people \in Seq(S) /\ r.agents \in Seq(A)
      OBVIOUS
    <2>2. /\ Len(comers) \in Nat
          /\ \A i \in 1..Len(comers) : comers[i] \in Range(r.agents) \cup Range(r.people)
      BY ONLY <2>1, ComersFacts
    <2>3. QED
      BY <2>2
  <1>2. h \in Nat /\ coded \in Seq(I) /\ \A i \in 1..h : coded[i] \in Range(items)
    BY CodedFacts
  <1>3. room = SeatCustom(Seat(comers, RegisterWitness), items, RegisterWitness) /\ Seated(r) = Seat(comers, RegisterWitness)
    BY DEF Witnesses, Seated
  <1> HIDE DEF comers
  <1>4. PICK w : ForgeRun(w, comers, items)
    BY <1>1, <1>2, ForgeRuns
  <1> DEFINE n == Len(comers)
  <1>5. w[n] = Seated(r) /\ w[n + h] = room
    BY <1>3, <1>4 DEF ForgeRun
  <1>6. Stayed(w, comers, coded)
    BY <1>1, <1>2, <1>4, ForgeRunStays
  <1>7. \A a \in 1..h : coded[a].code \in DOMAIN room.index
    <2>1. ASSUME NEW a \in 1..h
          PROVE  n + a \in 1..(n + h) /\ (n + a) - n = a /\ n + a > n
      BY <1>1, <1>2
    <2>2. \A i \in 1..(n + h) : i > n => coded[i - n].code \in DOMAIN w[n + h].index
      BY <1>6 DEF Stayed
    <2>3. QED
      BY <1>5, <2>1, <2>2
  <1>8. ~Confused(r, room, items)
    OBVIOUS
  <1> HIDE DEF coded, h, n
  <1>9. Single(C) /\ Covers(C, room, comers, coded)
    <2>1. \A i \in 1..Len(coded) : coded[i] \in Range(items)
      BY <1>2 DEF h
    <2>2. QED
      BY ONLY <1>1, <1>8, <2>1, ClaimsCover DEF C
  <1> HIDE DEF C
  <1>10. ASSUME NEW a \in 1..h, NEW b \in 1..h, room.index[coded[a].code] = room.index[coded[b].code]
         PROVE  a = b
    <2>1. \A x \in 1..h, y \in 1..h : x < y => \E i, j \in DOMAIN items : i # j /\ coded[x] = items[i] /\ coded[y] = items[j]
      <3>1. OnlyOf(coded, items, {m \in Range(items) : m.code \notin {NoCode, BadCode}}, Len(items))
        BY OnlyFacts DEF coded, Coded
      <3>2. \A x, y \in 1..h : x < y => \E i, j \in 1..Len(items) : i < j /\ coded[x] = items[i] /\ coded[y] = items[j]
        BY <3>1 DEF OnlyOf, h
      <3>3. \A i, j \in 1..Len(items) : i \in DOMAIN items /\ (i < j => i # j)
        OBVIOUS
      <3>4. ASSUME NEW x \in 1..h, NEW y \in 1..h, x < y
            PROVE  \E i, j \in DOMAIN items : i # j /\ coded[x] = items[i] /\ coded[y] = items[j]
        <4>1. PICK i \in 1..Len(items), j \in 1..Len(items) : i < j /\ coded[x] = items[i] /\ coded[y] = items[j]
          BY <3>2, <3>4
        <4>2. i # j /\ i \in DOMAIN items /\ j \in DOMAIN items
          BY <3>3, <4>1
        <4>3. QED
          BY <4>1, <4>2
      <3>5. QED
        BY <3>4
    <2>2. \A i, j \in DOMAIN items :
            i # j /\ {items[i].code, items[j].code} \subseteq DOMAIN room.index => room.index[items[i].code] # room.index[items[j].code]
      BY DEF Doubled
    <2>3. ASSUME NEW x \in 1..h, NEW y \in 1..h, x < y
          PROVE  room.index[coded[x].code] # room.index[coded[y].code]
      <3>1. PICK i \in DOMAIN items, j \in DOMAIN items : i # j /\ coded[x] = items[i] /\ coded[y] = items[j]
        BY <2>1, <2>3
      <3>2. QED
        BY <1>7, <2>2, <3>1
    <2>4. a < b \/ b < a \/ a = b
      BY <1>2
    <2>5. QED
      BY <1>10, <2>3, <2>4
  <1>11. /\ Len(comers) \in Nat /\ Len(Coded(items)) \in Nat
         /\ Covers(C, w[Len(comers) + Len(Coded(items))], comers, Coded(items)) /\ Single(C)
         /\ \A a, b \in 1..Len(Coded(items)) :
              w[Len(comers) + Len(Coded(items))].index[Coded(items)[a].code]
                = w[Len(comers) + Len(Coded(items))].index[Coded(items)[b].code] => a = b
    BY <1>1, <1>2, <1>5, <1>9, <1>10 DEF coded, h, n
  <1>12. Placed(w[Len(comers)], w[Len(comers) + Len(Coded(items))], Coded(items),
                [a \in 1..Len(Coded(items)) |-> w[Len(comers) + Len(Coded(items))].index[Coded(items)[a].code]],
                Len(Coded(items)))
    BY ONLY <1>4, <1>11, StandAlone
  <1>13. QED
    BY <1>5, <1>7, <1>12 DEF coded, h, n, Found

OnceEach(list) == \A x, y \in Range(list) : x.code = y.code /\ x.code \notin {NoCode, BadCode} => x = y

\* What the forge finds itself is in what party mode merges, if it has each code
\* once; and what else that has was shipped.
LEMMA WrittenKept ==
    ASSUME LayersHold, ~Fails(layers), NEW items, items = Merged(layers),
           NEW written, written = Items(layers, "team") \o Items(layers, "user"),
           OnceEach(written)
    PROVE  /\ \A m \in Range(written) : m.code \notin {NoCode, BadCode} => m \in Range(items)
           /\ Range(items) \subseteq Range(Base) \cup Range(written)
  <1> DEFINE T == Items(layers, "team")
             U == Items(layers, "user")
             S == Range(Base) \cup Range(T) \cup Range(U)
             two == TwoMerged(layers)
  <1>1. Items(layers, "base") = Base /\ IsItems(Base) /\ IsItems(T) /\ IsItems(U)
    BY FilesTyped
  <1> HIDE DEF T, U
  <1>2. Base \in Seq(S) /\ T \in Seq(S) /\ U \in Seq(S)
    <2>1. Base \in Seq(Range(Base)) /\ T \in Seq(Range(T)) /\ U \in Seq(Range(U))
      BY <1>1 DEF IsItems
    <2>2. Range(Base) \subseteq S /\ Range(T) \subseteq S /\ Range(U) \subseteq S
      OBVIOUS
    <2> HIDE DEF S
    <2>3. QED
      BY <2>1, <2>2, SeqMonotonic
  <1>3. /\ two \in Seq(S) /\ Base \o T \in Seq(S) /\ StandsFor(two, Base \o T)
        /\ items \in Seq(S) /\ FileItems \in Seq(S) /\ StandsFor(items, FileItems)
    BY <1>2, FilesMerge DEF T, U, two
  <1>4. written = T \o U /\ FileItems = (Base \o T) \o U
    BY <1>1 DEF T, U, FileItems
  <1>5. /\ written \in Seq(S) /\ Codes(written) = Codes(T) \cup Codes(U) /\ Range(written) = Range(T) \cup Range(U)
        /\ Codes(Base \o T) = Codes(Base) \cup Codes(T)
        /\ Codes(FileItems) = Codes(Base \o T) \cup Codes(U) /\ Range(FileItems) = Range(Base \o T) \cup Range(U)
        /\ Range(Base \o T) = Range(Base) \cup Range(T)
    <2> HIDE DEF S, two
    <2>1. T \o U \in Seq(S) /\ Codes(T \o U) = Codes(T) \cup Codes(U) /\ Range(T \o U) = Range(T) \cup Range(U)
      BY <1>2, CodesJoined
    <2>2. Codes(Base \o T) = Codes(Base) \cup Codes(T) /\ Range(Base \o T) = Range(Base) \cup Range(T)
      BY <1>2, CodesJoined
    <2> DEFINE shared == Base \o T
    <2>3. shared \in Seq(S) /\ U \in Seq(S)
      BY <1>2, <1>3
    <2> HIDE DEF shared
    <2>4. Codes(shared \o U) = Codes(shared) \cup Codes(U) /\ Range(shared \o U) = Range(shared) \cup Range(U)
      BY ONLY <2>3, CodesJoined
    <2>5. /\ Codes((Base \o T) \o U) = Codes(Base \o T) \cup Codes(U)
          /\ Range((Base \o T) \o U) = Range(Base \o T) \cup Range(U)
      BY <2>4 DEF shared
    <2>6. QED
      BY <1>4, <2>1, <2>2, <2>5
  <1> HIDE DEF two
  <1>6. Range(items) \subseteq Range(Base) \cup Range(written)
    <2>1. Range(items) \subseteq S
      BY <1>3, CodeFacts
    <2>2. QED
      BY <1>5, <2>1
  <1> HIDE DEF S
  <1>7. ASSUME NEW m \in Range(T)
        PROVE  m.code \in Codes(T)
    <2>1. Range(T) = {T[i] : i \in 1..Len(T)} /\ Codes(T) = {T[i].code : i \in 1..Len(T)}
      BY <1>2, CodeFacts
    <2>2. QED
      BY <1>7, <2>1
  <1>8. ASSUME NEW m \in Range(U)
        PROVE  m.code \in Codes(U)
    <2>1. Range(U) = {U[i] : i \in 1..Len(U)} /\ Codes(U) = {U[i].code : i \in 1..Len(U)}
      BY <1>2, CodeFacts
    <2>2. QED
      BY <1>8, <2>1
  <1>9. ASSUME NEW m \in Range(written), m.code \notin {NoCode, BadCode}
        PROVE  m \in Range(items)
    <2> DEFINE c == m.code
    <2>1. ASSUME NEW x \in Range(written), x.code = c
          PROVE  x = m
      BY <1>9, <2>1 DEF OnceEach
    <2>2. c \in Codes(T) \cup Codes(U)
      BY <1>5, <1>7, <1>8
    <2>3. ASSUME c \in Codes(T)
          PROVE  LastOf(Base \o T, c) \in Range(T)
      <3>1. c \in Codes(Base) \cup Codes(T)
        BY <2>3
      <3> HIDE DEF c
      <3>2. LastOf(Base \o T, c) \in Range(IF c \in Codes(T) THEN T ELSE Base)
        BY <1>2, <3>1, LastOfJoined
      <3>3. QED
        BY <2>3, <3>2
    <2>4. CASE NoCode \notin Codes(FileItems)
      <3>1. MergeOf(items, FileItems, Len(FileItems))
        BY <1>3, <2>4 DEF StandsFor
      <3>2. /\ Range(items) = {LastOf(FileItems, d) : d \in Codes(FileItems)}
            /\ \A d \in Codes(FileItems) : LastOf(FileItems, d).code = d
        BY <1>3, <3>1, MergesFacts
      <3>3. c \in Codes(FileItems)
        BY <1>5, <2>2
      <3>4. LastOf(FileItems, c) \in Range(written)
        <4>1. CASE c \in Codes(U)
          <5>1. c \in Codes(Base \o T) \cup Codes(U)
            BY <4>1
          <5> HIDE DEF c
          <5>2. LastOf((Base \o T) \o U, c) \in Range(IF c \in Codes(U) THEN U ELSE Base \o T)
            BY <1>2, <1>3, <5>1, LastOfJoined
          <5>3. QED
            BY <1>4, <1>5, <4>1, <5>2
        <4>2. CASE c \notin Codes(U)
          <5>1. c \in Codes(T) /\ c \in Codes(Base \o T)
            BY <1>5, <2>2, <4>2
          <5>2. LastOf(Base \o T, c) \in Range(T)
            BY <2>3, <5>1
          <5> HIDE DEF c
          <5>3. LastOf((Base \o T) \o U, c) = LastOf(Base \o T, c)
            BY <1>2, <1>3, <4>2, <5>1, LastOfFirst
          <5>4. QED
            BY <1>4, <1>5, <5>2, <5>3
        <4>3. QED
          BY <4>1, <4>2
      <3>5. LastOf(FileItems, c) = m
        BY <2>1, <3>2, <3>3, <3>4
      <3>6. QED
        BY <3>2, <3>3, <3>5
    <2>5. CASE NoCode \in Codes(FileItems)
      <3>1. /\ items = two \o U
            /\ NoCode \in Codes(Base \o T) => items = FileItems
        <4>1. ListsFollow
          BY ListsHold
        <4>2. QED
          BY <1>1, <2>5, <4>1 DEF ListsFollow, two, T, U
      <3>2. Range(items) = Range(two) \cup Range(U)
        BY <1>2, <1>3, <3>1, CodesJoined
      <3>3. CASE NoCode \in Codes(Base \o T)
        BY <1>5, <1>9, <3>1, <3>3
      <3>4. CASE NoCode \notin Codes(Base \o T)
        <4>1. CASE m \in Range(U)
          BY <3>2, <4>1
        <4>2. CASE m \in Range(T)
          <5>1. MergeOf(two, Base \o T, Len(Base \o T))
            BY <1>3, <3>4 DEF StandsFor
          <5>2. /\ Range(two) = {LastOf(Base \o T, d) : d \in Codes(Base \o T)}
                /\ \A d \in Codes(Base \o T) : LastOf(Base \o T, d).code = d
            BY <1>3, <5>1, MergesFacts
          <5>3. c \in Codes(T) /\ c \in Codes(Base \o T)
            BY <1>5, <1>7, <4>2
          <5>4. LastOf(Base \o T, c) \in Range(written) /\ LastOf(Base \o T, c).code = c
            BY <1>5, <2>3, <5>2, <5>3
          <5>5. LastOf(Base \o T, c) = m
            BY <2>1, <5>4
          <5>6. QED
            BY <3>2, <5>2, <5>3, <5>5
        <4>3. QED
          BY <1>5, <1>9, <4>1, <4>2
      <3>5. QED
        BY <3>3, <3>4
    <2>6. QED
      BY <2>4, <2>5
  <1>10. QED
    BY <1>3, <1>5, <1>6, <1>9

Within(less, list) == \A a \in 1..Len(less) : \E b \in 1..Len(list) : less[a] = list[b]
Beyond(list, less, Shipped) ==
    \A b \in 1..Len(list) : (\E a \in 1..Len(less) : list[b] = less[a]) \/ list[b] \in Shipped
Differ(found, forge, list, Shipped) ==
    \A c \in DOMAIN found.pool :
      /\ c \in DOMAIN forge.pool
      /\ \/ found.pool[c] = forge.pool[c]
         \/ \E b \in 1..Len(list) : list[b] \in Shipped /\ c = forge.index[list[b].code]

\* What is written is made the same of, whatever else was merged; only whom a
\* member that was not written stands for may differ.
LEMMA SameOthers ==
    ASSUME NEW base, NEW list, Len(list) \in Nat, NEW less, Len(less) \in Nat,
           NEW forge, Placed(base, forge, list, Found(forge, list), Len(list)),
           NEW found, Placed(base, found, less, Found(found, less), Len(less)),
           NEW Shipped, Within(less, list), Beyond(list, less, Shipped)
    PROVE  Differ(found, forge, list, Shipped)
  <1> DEFINE B == 1..Len(list)
             L == 1..Len(less)
             K == Found(forge, list)
             N == Found(found, less)
             D == DOMAIN base.pool
  <1>1. /\ DOMAIN forge.pool = D \cup {K[b] : b \in B}
        /\ \A c \in D : (\A b \in B : K[b] # c) => forge.pool[c] = base.pool[c]
        /\ \A b \in B : Custom(base, list[b]).code = K[b] /\ forge.pool[K[b]] = Custom(base, list[b])
    BY DEF Placed
  <1>2. /\ DOMAIN found.pool = D \cup {N[a] : a \in L}
        /\ \A c \in D : (\A a \in L : N[a] # c) => found.pool[c] = base.pool[c]
        /\ \A a \in L : Custom(base, less[a]).code = N[a] /\ found.pool[N[a]] = Custom(base, less[a])
    BY DEF Placed
  <1>3. \A b \in B : K[b] = forge.index[list[b].code]
    BY DEF Found
  <1>4. /\ \A a \in L : \E b \in B : less[a] = list[b]
        /\ \A b \in B : (\E a \in L : list[b] = less[a]) \/ list[b] \in Shipped
    BY DEF Within, Beyond
  <1> HIDE DEF B, L, K, N, D
  <1>5. ASSUME NEW c \in DOMAIN found.pool
        PROVE  /\ c \in DOMAIN forge.pool
               /\ \/ found.pool[c] = forge.pool[c]
                  \/ \E b \in B : list[b] \in Shipped /\ c = forge.index[list[b].code]
    <2>1. CASE \E a \in L : N[a] = c
      <3>1. PICK a \in L : N[a] = c
        BY <2>1
      <3>2. PICK b \in B : less[a] = list[b]
        BY <1>4
      <3>3. K[b] = c /\ found.pool[c] = Custom(base, list[b]) /\ forge.pool[c] = Custom(base, list[b])
        BY <1>1, <1>2, <3>1, <3>2
      <3>4. QED
        BY <1>1, <3>3
    <2>2. CASE \A a \in L : N[a] # c
      <3>1. c \in D /\ found.pool[c] = base.pool[c] /\ c \in DOMAIN forge.pool
        BY <1>1, <1>2, <2>2
      <3>2. CASE \A b \in B : K[b] # c
        BY <1>1, <3>1, <3>2
      <3>3. CASE \E b \in B : K[b] = c
        <4>1. PICK b \in B : K[b] = c
          BY <3>3
        <4>2. ASSUME NEW a \in L, list[b] = less[a]
              PROVE  FALSE
          BY <1>1, <1>2, <2>2, <4>1, <4>2
        <4>3. list[b] \in Shipped
          BY <1>4, <4>2
        <4>4. QED
          BY <1>3, <3>1, <4>1, <4>3
      <3>4. QED
        BY <3>2, <3>3
    <2>3. QED
      BY <2>1, <2>2
  <1>6. QED
    BY <1>5 DEF B, Differ

LEMMA SameFoundHolds ==
    ASSUME RoomsHold, NEW bare \in BOOLEAN, NEW q, q = Roster(folders, Answers, central, OfferedGroups, bare),
           NEW r, r = ReportOf(q, CustomMembers(layers))
    PROVE  SameFound(r)
  <1> DEFINE items == CustomMembers(layers)
             written == ForgeMembers(folders, layers)
             Free(room, list) == ~Confused(r, room, list) /\ ~Doubled(room, list)
             SameFor(c) == c \in DOMAIN r.forge.pool /\ (r.found.pool[c] = r.forge.pool[c] \/ c \in ShippedFor(r))
  <1>1. ReportFacts(r, q, items)
    BY Reported
  <1>2. PICK S, A : /\ q.people \in Seq(S) /\ q.agents \in Seq(A) /\ q.guests = Guests(q.people, q.agents)
                    /\ q.groups \in Seq(Range(OfferedGroups)) /\ OneEach(q.groups)
    BY RosterKnown
  <1> SUFFICES ASSUME ~Fails(layers), Free(r.forge, r.items), Free(r.found, written)
               PROVE  \A c \in DOMAIN r.found.pool : SameFor(c)
    BY DEF SameFound
  <1>3. items = Merged(layers)
    BY DEF CustomMembers
  <1>4. CASE PartyFound(folders)
    <2>1. written = items
      BY <1>4 DEF ForgeMembers
    <2> HIDE DEF items, written
    <2>2. r.found = r.forge
      BY <1>1, <2>1 DEF ReportFacts, written
    <2>3. QED
      BY <2>2
  <1>5. CASE ~PartyFound(folders)
    <2>1. written = Items(layers, "team") \o Items(layers, "user")
      BY <1>5 DEF ForgeMembers, Overrides
    <2>2. LayersHold
      BY DEF RoomsHold
    <2>3. r.items = items
      BY <1>1 DEF ReportFacts
    <2>4. Free(r.forge, items) /\ Free(r.found, written)
      BY <2>3
    <2>5. /\ r.people = q.people /\ r.agents = q.agents /\ q.guests = Guests(r.people, r.agents)
          /\ r.people \in Seq(S) /\ r.agents \in Seq(A)
      BY <1>1, <1>2 DEF ReportFacts
    <2>6. /\ r.forge = Witnesses(r.agents, Guests(r.people, r.agents), items)
          /\ r.found = Witnesses(r.agents, Guests(r.people, r.agents), written)
      BY <1>1, <2>5 DEF ReportFacts
    <2> HIDE DEF items, written, SameFor
    <2>7. PICK I : written \in Seq(I)
      <3>1. IsItems(Items(layers, "team")) /\ IsItems(Items(layers, "user"))
        BY <2>2, FilesTyped
      <3> DEFINE T == Items(layers, "team")
                 U == Items(layers, "user")
                 V == Range(T) \cup Range(U)
      <3>2. T \in Seq(Range(T)) /\ U \in Seq(Range(U)) /\ Range(T) \subseteq V /\ Range(U) \subseteq V
        BY <3>1 DEF IsItems
      <3>3. T \in Seq(V) /\ U \in Seq(V)
        <4> HIDE DEF T, U, V
        <4>1. QED
          BY <3>2, SeqMonotonic
      <3> HIDE DEF V
      <3>4. written \in Seq(V)
        <4> HIDE DEF T, U
        <4>1. T \o U \in Seq(V)
          BY <3>3, ConcatProperties
        <4>2. QED
          BY <2>1, <4>1 DEF T, U
      <3>5. QED
        BY <3>4
    <2> DEFINE less == Coded(written)
               list == Coded(items)
    <2>8. /\ Placed(Seated(r), r.found, less, Found(r.found, less), Len(less))
          /\ \A a \in 1..Len(less) : less[a].code \in DOMAIN r.found.index
      BY ONLY <2>4, <2>5, <2>6, <2>7, EachItsOwn
    <2>9. OnceEach(written)
      <3>1. /\ Range(less) = {m \in Range(written) : m.code \notin {NoCode, BadCode}}
            /\ Range(less) = {less[a] : a \in 1..Len(less)}
        <4>1. /\ Range(less) = {m \in Range(written) : m.code \notin {NoCode, BadCode}}
              /\ less \in Seq(I)
          BY <2>7, CodedFacts
        <4> HIDE DEF less
        <4>2. QED
          BY <4>1, CodeFacts
      <3>2. Range(written) = {written[i] : i \in 1..Len(written)} /\ DOMAIN written = 1..Len(written)
        BY <2>7, CodeFacts
      <3>3. \A i, j \in DOMAIN written :
              i # j /\ {written[i].code, written[j].code} \subseteq DOMAIN r.found.index
                => r.found.index[written[i].code] # r.found.index[written[j].code]
        BY <2>4 DEF Doubled
      <3>4. ASSUME NEW x \in Range(written), NEW y \in Range(written), x.code = y.code, x.code \notin {NoCode, BadCode}
            PROVE  x = y
        <4>1. PICK i \in DOMAIN written, j \in DOMAIN written : x = written[i] /\ y = written[j]
          BY <3>2
        <4>2. x \in Range(less)
          BY <3>1, <3>4
        <4>3. x.code \in DOMAIN r.found.index
          BY <2>8, <3>1, <4>2
        <4>4. QED
          BY <3>3, <3>4, <4>1, <4>3
      <3>5. QED
        BY <3>4 DEF OnceEach
    <2>10. /\ \A m \in Range(written) : m.code \notin {NoCode, BadCode} => m \in Range(items)
           /\ Range(items) \subseteq Range(Base) \cup Range(written)
      <3>1. ~Fails(layers) /\ items = Merged(layers)
        BY <1>3 DEF items
      <3>2. QED
        BY ONLY <2>1, <2>2, <2>9, <3>1, WrittenKept
    <2>11. PICK J : items \in Seq(J)
      BY ItemsTyped DEF items
    <2>12. /\ Placed(Seated(r), r.forge, list, Found(r.forge, list), Len(list))
           /\ \A a \in 1..Len(list) : list[a].code \in DOMAIN r.forge.index
      BY ONLY <2>4, <2>5, <2>6, <2>11, EachItsOwn
    <2>13. /\ Len(less) \in Nat /\ Range(less) = {m \in Range(written) : m.code \notin {NoCode, BadCode}}
           /\ Range(less) = {less[a] : a \in 1..Len(less)}
      <3>1. /\ Range(less) = {m \in Range(written) : m.code \notin {NoCode, BadCode}}
            /\ less \in Seq(I)
        BY <2>7, CodedFacts
      <3> HIDE DEF less
      <3>2. QED
        BY <3>1, CodeFacts
    <2>14. /\ Len(list) \in Nat /\ Range(list) = {m \in Range(items) : m.code \notin {NoCode, BadCode}}
           /\ Range(list) = {list[b] : b \in 1..Len(list)}
      <3>1. /\ Range(list) = {m \in Range(items) : m.code \notin {NoCode, BadCode}}
            /\ list \in Seq(J)
        BY <2>11, CodedFacts
      <3> HIDE DEF list
      <3>2. QED
        BY <3>1, CodeFacts
    <2> HIDE DEF less, list
    <2>15. Range(less) \subseteq Range(list) /\ Range(list) \subseteq Range(less) \cup Range(Base)
      BY <2>10, <2>13, <2>14
    <2>16. Within(less, list)
      BY <2>13, <2>14, <2>15 DEF Within
    <2>17. Beyond(list, less, Range(Base))
      BY <2>13, <2>14, <2>15 DEF Beyond
    <2>18. Len(list) \in Nat /\ Len(less) \in Nat
      BY <2>13, <2>14
    <2>19. Differ(r.found, r.forge, list, Range(Base))
      <3>1. /\ Placed(Seated(r), r.found, less, Found(r.found, less), Len(less))
            /\ Placed(Seated(r), r.forge, list, Found(r.forge, list), Len(list))
        BY <2>8, <2>12 DEF less, list
      <3>2. QED
        BY ONLY <2>16, <2>17, <2>18, <3>1, SameOthers
    <2>20. ASSUME NEW b \in 1..Len(list), list[b] \in Range(Base)
           PROVE  r.forge.index[list[b].code] \in ShippedFor(r)
      <3>1. \A m \in Range(Base) : m.by = "base"
        BY CustomizationAssumption DEF CustomizationAssumption, Range
      <3>2. list[b] \in Range(r.items)
        BY <2>3, <2>14
      <3>3. list[b].code \in DOMAIN r.forge.index
        BY <2>12 DEF list
      <3>4. QED
        BY <2>20, <3>1, <3>2, <3>3 DEF ShippedFor
    <2>21. ASSUME NEW c \in DOMAIN r.found.pool
           PROVE  SameFor(c)
      BY <2>19, <2>20 DEF SameFor, Differ
    <2>22. QED
      BY <2>21
  <1>6. QED
    BY <1>4, <1>5

LEMMA RoomsAlike == RoomsHold => RoomsAgree
  <1> SUFFICES ASSUME RoomsHold, NEW bare \in BOOLEAN
               PROVE  LET r == Report(bare) IN SameRoom(r) /\ SameFound(r)
    BY DEF RoomsAgree
  <1> DEFINE q == Roster(folders, Answers, central, OfferedGroups, bare)
             r == Report(bare)
  <1>1. r = ReportOf(q, CustomMembers(layers))
    BY DEF Report
  <1> HIDE DEF q, r
  <1>2. q = Roster(folders, Answers, central, OfferedGroups, bare) /\ RoomsHold /\ bare \in BOOLEAN
    BY DEF q
  <1>3. SameRoom(r)
    BY ONLY <1>1, <1>2, SameRoomHolds
  <1>4. SameFound(r)
    BY ONLY <1>1, <1>2, SameFoundHolds
  <1>5. QED
    BY <1>3, <1>4 DEF r

\* Party mode and the forge put the same people under the same tokens, seat the
\* same groups and open the same room (build_collective and build_pool); and the
\* forge, when it has to read team's and user's files itself, makes the same of
\* everyone but those a shipped member stands for (load_party_overrides): unless
\* two claim a token or two members find one person.
THEOREM RoomsAlwaysAgree == CustomSpec => []RoomsAgree
  <1>1. CustomSpec => []RoomsHold
    BY RoomsInit, RoomsStep, PTL DEF CustomSpec
  <1>2. QED
    BY <1>1, RoomsAlike, PTL

=============================================================================
