---------------------------- MODULE DeliveryProofs ----------------------------
(***************************************************************************)
(* Proofs about Release, for any versions, crates, branches, failures and  *)
(* runs of the workflow: crates are published in order and together, tags  *)
(* report their entries, folds conform, and the evidence adds up.  And     *)
(* about Tickets, for any trees, commands and builds: trees still load,    *)
(* marks stand, work never stalls unnoticed, and references find.          *)
(*                                                                         *)
(* The argument about the crates: a commit stays what it was when a tag    *)
(* was put on it, so that a workflow that is run again publishes the same  *)
(* version; the crates before the one it is at are on the index under that *)
(* version (Behind); and what is there came from a tag, which only a moved *)
(* tag leaves (Origins).                                                   *)
(*                                                                         *)
(* About the changelogs: parents are earlier commits (Rooted); a commit's  *)
(* changelog has what its history wrote (HasEntries), as merges, folds and *)
(* edits by hand lose nothing; it has sections that share no entry while   *)
(* all versions were folded (Disjoint); and a tag past the guard still     *)
(* passes it (Guarded).                                                    *)
(*                                                                         *)
(* About the evidence: a sum over what git prints is one over the commits, *)
(* from the newest to the oldest (PrintedAddsUp); along a line of first    *)
(* parents, each commit adds what its history has beyond the one before    *)
(* (LineAddsUp).  Recursive functions are unfolded, and what they compute  *)
(* is shown, by Induction from the least counterexample.                   *)
(*                                                                         *)
(* About the tickets: a row without what its plan says is a core, and what *)
(* load_tree resolves, and whether something waits for itself, depends on  *)
(* the cores alone.  A plan file changes no core; a pull replaces the core *)
(* of an entry by one with the same key that waits for the same tickets.   *)
(* Until a command or a build overlaps another the tree is in order        *)
(* (InOrder), the one command at work writes what joins its own ticket     *)
(* (JobsHold), and marks, bodies and pulled leaves are what they were told *)
(* (MarksHold, BuiltsHold, PulledHold): this is Steady.                    *)
(***************************************************************************)
EXTENDS Release, Tickets, SequenceTheorems, FiniteSetTheorems, WellFoundedInduction, TLAPS

Places == {"none", "guard", "publish", "failed", "done"}

Typed ==
    /\ \E S : history \in Seq(S)
    /\ main \in 1..Len(history)
    /\ tags \in [Versions -> 0..Len(history)]
    /\ run \in [Versions -> [at : Places, crate : 1..Len(Crates)]]
    /\ moved \in BOOLEAN
    /\ \A v \in Versions : run[v].at # "none" => tags[v] # 0

\* The version of the crates in the tree a tag is on.
CrateVersion(v) == history[tags[v]].crate

Behind == \A v \in Versions :
    /\ run[v].at = "publish" => \A i \in 1..(run[v].crate - 1) : OnIndex(Crates[i], CrateVersion(v))
    /\ run[v].at = "done" => \A i \in 1..Len(Crates) : OnIndex(Crates[i], CrateVersion(v))

Ordered == \A p \in crates, i, j \in DOMAIN Crates :
    i < j /\ p.name = Crates[j] => OnIndex(Crates[i], p.version)

Origins == moved \/ \A p \in crates : \E v \in Versions :
    tags[v] # 0 /\ p.from = tags[v] /\ p.version = CrateVersion(v)

\* The inductive invariant.
IInv == Typed /\ Behind /\ Ordered /\ Origins

-----------------------------------------------------------------------------
LEMMA CratesFacts ==
    /\ Len(Crates) \in Nat \ {0} /\ DOMAIN Crates = 1..Len(Crates)
    /\ \A i, j \in 1..Len(Crates) : Crates[i] = Crates[j] => i = j
  <1>1. Crates \in Seq(STRING) /\ Crates # <<>> /\ IsInjective(Crates)
    BY ReleaseAssumption
  <1>2. Len(Crates) \in Nat \ {0} /\ DOMAIN Crates = 1..Len(Crates)
    BY <1>1, EmptySeq, LenProperties
  <1>3. QED
    BY <1>1, <1>2 DEF IsInjective

\* What is appended to the history leaves the commits that are there.
LEMMA HistoryGrows ==
    ASSUME Typed, NEW c, history' = Append(history, c)
    PROVE  /\ \E T : history' \in Seq(T)
           /\ Len(history') = Len(history) + 1 /\ Len(history) \in Nat
           /\ \A i \in 1..Len(history) : history'[i] = history[i]
  <1>1. PICK S : history \in Seq(S)
    BY DEF Typed
  <1>2. history \in Seq(S \cup {c}) /\ c \in S \cup {c} /\ Len(history) \in Nat
    BY <1>1, SeqMonotonic, LenProperties
  <1>3. /\ Append(history, c) \in Seq(S \cup {c}) /\ Len(Append(history, c)) = Len(history) + 1
        /\ \A i \in 1..Len(history) : Append(history, c)[i] = history[i]
    BY <1>2, AppendProperties
  <1>4. QED
    BY <1>2, <1>3

LEMMA InitInv == Init => IInv
  <1>1. ASSUME Init
        PROVE  IInv
    <2>1. PICK c : history = <<c>>
      BY <1>1 DEF Init
    <2>2. Len(history) = 1 /\ \E S : history \in Seq(S)
      <3>1. history \in Seq({c}) /\ Len(history) = 1
        BY <2>1
      <3>2. QED
        BY <3>1
    <2>3. Typed
      <3>1. At("none") \in [at : Places, crate : 1..Len(Crates)]
        BY CratesFacts DEF At, Places
      <3>2. \A v \in Versions : run[v] = At("none") /\ tags[v] = 0
        BY <1>1 DEF Init
      <3>3. At("none").at = "none"
        BY DEF At
      <3>4. tags \in [Versions -> 0..1] /\ run \in [Versions -> [at : Places, crate : 1..Len(Crates)]]
        <4>1. /\ tags = [v \in Versions |-> 0] /\ 0 \in 0..1
              /\ run = [v \in Versions |-> At("none")]
          BY <1>1 DEF Init
        <4>2. QED
          BY <3>1, <4>1
      <3>5. main \in 1..1 /\ moved \in BOOLEAN
        <4>1. main = 1 /\ moved = FALSE
          BY <1>1 DEF Init
        <4>2. main \in 1..1
          BY <4>1
        <4>3. moved \in BOOLEAN
          BY <4>1, Zenon
        <4>4. QED
          BY <4>2, <4>3
      <3>6. QED
        BY <2>2, <3>2, <3>3, <3>4, <3>5 DEF Typed
    <2>4. QED
      BY <1>1, <2>3 DEF Init, IInv, Behind, Ordered, Origins, At
  <1>2. QED
    BY <1>1

\* The repository goes on: nothing that is tagged changes.
Commits == /\ \E c : history' = Append(history, c)
           /\ main' \in {main, New} /\ UNCHANGED releaseVars

LEMMA RepositorySteps ==
    ASSUME \/ \E kind \in Kinds : WorkOnMain(kind) \/ Branch(kind) \/ WorkOnSide(kind)
           \/ \E own \in BOOLEAN : MergeSide(own) \/ CatchUp(own)
           \/ \E v \in Versions : Fold(v) \/ PrepareByHand(v)
    PROVE  Commits
  <1>1. \A c : Commit(c) => \E d : history' = Append(history, d)
    BY DEF Commit
  <1>2. \A head, kind : Work(head, kind) => \E d : history' = Append(history, d)
    BY <1>1 DEF Work
  <1>3. \A head, other, own : Merge(head, other, own) => \E d : history' = Append(history, d)
    BY <1>1 DEF Merge
  <1>4. ASSUME NEW v, NEW log, Prepare(v, log)
        PROVE  Commits
    BY <1>1, <1>4 DEF Prepare, Commits
  <1>5. ASSUME NEW kind \in Kinds, WorkOnMain(kind) \/ Branch(kind) \/ WorkOnSide(kind)
        PROVE  Commits
    BY <1>2, <1>5 DEF WorkOnMain, Branch, WorkOnSide, Commits
  <1>6. ASSUME NEW own \in BOOLEAN, MergeSide(own)
        PROVE  Commits
    BY <1>3, <1>6 DEF MergeSide, Commits
  <1>7. ASSUME NEW own \in BOOLEAN, CatchUp(own)
        PROVE  Commits
    BY <1>1, <1>7 DEF CatchUp, Commits
  <1>8. ASSUME NEW v \in Versions, Fold(v)
        PROVE  Commits
    BY <1>4, <1>8 DEF Fold
  <1>9. ASSUME NEW v \in Versions, PrepareByHand(v)
        PROVE  Commits
    BY <1>4, <1>9 DEF PrepareByHand
  <1>10. QED
    BY <1>5, <1>6, <1>7, <1>8, <1>9

LEMMA CommitsKeep ==
    ASSUME IInv, Commits
    PROVE  IInv'
  <1>1. PICK c : history' = Append(history, c)
    BY DEF Commits
  <1>2. /\ \E S : history' \in Seq(S)
        /\ Len(history') = Len(history) + 1
        /\ Len(history) \in Nat
        /\ \A i \in 1..Len(history) : history'[i] = history[i]
    BY <1>1, HistoryGrows DEF IInv
  <1>3. /\ main' \in {main, Len(history) + 1} /\ tags' = tags /\ run' = run
        /\ crates' = crates /\ moved' = moved
    BY DEF Commits, New, releaseVars
  <1>5. Typed'
    BY <1>2, <1>3 DEF IInv, Typed
  <1>6. \A v \in Versions : tags[v] # 0 => CrateVersion(v)' = CrateVersion(v)
    BY <1>2, <1>3 DEF IInv, Typed, CrateVersion
  <1>7. \A n, version : OnIndex(n, version)' <=> OnIndex(n, version)
    BY <1>3 DEF OnIndex
  <1>8. Behind'
    <2>1. ASSUME NEW v \in Versions, run[v].at \in {"publish", "done"}
          PROVE  CrateVersion(v)' = CrateVersion(v)
      BY <1>6, <2>1 DEF IInv, Typed
    <2>2. QED
      BY <1>3, <1>7, <2>1 DEF IInv, Behind
  <1>9. Ordered'
    BY <1>3, <1>7 DEF IInv, Ordered
  <1>10. Origins'
    BY <1>3, <1>6 DEF IInv, Origins
  <1>11. QED
    BY <1>5, <1>8, <1>9, <1>10 DEF IInv

\* A tag is put on a commit, for the first time or anew.
LEMMA PushKeeps ==
    ASSUME IInv, NEW v \in Versions, PushTag(v) \/ MoveTag(v)
    PROVE  IInv'
  <1>1. /\ history' = history /\ main' = main /\ crates' = crates
        /\ tags' = [tags EXCEPT ![v] = main] /\ run' = [run EXCEPT ![v] = At("guard")]
        /\ (PushTag(v) /\ tags[v] = 0 /\ moved' = moved) \/ moved' = TRUE
    BY DEF PushTag, MoveTag, Push, Goes
  <1>2. Typed'
    <2>1. At("guard") \in [at : Places, crate : 1..Len(Crates)] /\ main \in Nat \ {0}
      BY CratesFacts DEF At, Places, IInv, Typed
    <2>2. moved' \in BOOLEAN
      BY <1>1 DEF IInv, Typed
    <2>3. tags'[v] # 0 /\ \A u \in Versions : u # v => run'[u] = run[u] /\ tags'[u] = tags[u]
      BY <1>1, <2>1 DEF IInv, Typed
    <2>4. tags' \in [Versions -> 0..Len(history)] /\ run' \in [Versions -> [at : Places, crate : 1..Len(Crates)]]
      BY <1>1, <2>1 DEF IInv, Typed
    <2>5. QED
      BY <1>1, <2>2, <2>3, <2>4 DEF IInv, Typed
  <1>3. \A n, version : OnIndex(n, version)' <=> OnIndex(n, version)
    BY <1>1 DEF OnIndex
  <1>4. /\ run'[v].at = "guard"
        /\ \A u \in Versions : u # v => run'[u] = run[u] /\ CrateVersion(u)' = CrateVersion(u)
    BY <1>1 DEF IInv, Typed, At, CrateVersion
  <1>5. Behind'
    BY <1>3, <1>4 DEF IInv, Behind
  <1>6. Ordered'
    BY <1>1, <1>3 DEF IInv, Ordered
  <1>7. Origins'
    <2>1. CASE moved'
      BY <2>1 DEF Origins
    <2>2. CASE ~moved'
      <3>1. ~moved /\ tags[v] = 0
        BY <1>1, <2>2
      <3>2. \A u \in Versions : tags[u] # 0 => tags'[u] = tags[u] /\ CrateVersion(u)' = CrateVersion(u)
        BY <1>1, <1>4, <3>1 DEF IInv, Typed
      <3>3. QED
        BY <1>1, <3>1, <3>2 DEF IInv, Origins
    <2>3. QED
      BY <2>1, <2>2
  <1>8. QED
    BY <1>2, <1>5, <1>6, <1>7 DEF IInv

\* What follows crate i, and the crates before that.
LEMMA AfterFacts ==
    ASSUME NEW i \in 1..Len(Crates)
    PROVE  /\ After(i) \in [at : Places, crate : 1..Len(Crates)]
           /\ After(i).at = "done" => i = Len(Crates)
           /\ After(i).at = "publish" => After(i).crate = i + 1
           /\ After(i).at # "none"
  <1>1. CASE i = Len(Crates)
    BY <1>1, CratesFacts DEF After, At, Places
  <1>2. CASE i # Len(Crates)
    <2>1. i + 1 \in 1..Len(Crates)
      <3>1. i \in Int /\ Len(Crates) \in Int /\ 1 <= i /\ i <= Len(Crates)
        BY CratesFacts
      <3>2. QED
        BY <1>2, <3>1
    <2>2. After(i) = [at |-> "publish", crate |-> i + 1]
      BY <1>2 DEF After
    <2>3. QED
      <3>1. "publish" \in Places /\ "publish" # "done" /\ "publish" # "none"
        BY DEF Places
      <3>2. [at |-> "publish", crate |-> i + 1] \in [at : Places, crate : 1..Len(Crates)]
        BY <2>1, <3>1
      <3>3. QED
        BY <2>2, <3>1, <3>2
  <1>3. QED
    BY <1>1, <1>2

LEMMA PublishKeeps ==
    ASSUME IInv, NEW v \in Versions, Publish(v)
    PROVE  IInv'
  <1>1. PICK i, version :
        /\ i = run[v].crate /\ version = CrateVersion(v)
        /\ run[v].at = "publish" /\ run' = [run EXCEPT ![v] = After(i)]
        /\ crates' = IF OnIndex(Crates[i], version) THEN crates
                     ELSE crates \cup {[name |-> Crates[i], version |-> version, from |-> tags[v]]}
        /\ history' = history /\ main' = main /\ tags' = tags /\ moved' = moved
    BY DEF Publish, Goes, CrateVersion
  <1>2. i \in 1..Len(Crates) /\ tags[v] # 0
    BY <1>1 DEF IInv, Typed
  <1>3. Typed'
    <2>1. run' \in [Versions -> [at : Places, crate : 1..Len(Crates)]]
      BY <1>1, <1>2, AfterFacts DEF IInv, Typed
    <2>2. \A u \in Versions : u # v => run'[u] = run[u]
      BY <1>1 DEF IInv, Typed
    <2>3. QED
      BY <1>1, <1>2, <2>1, <2>2 DEF IInv, Typed
  <1>4. \E p \in crates' : p.name = Crates[i] /\ p.version = version
    <2>1. CASE OnIndex(Crates[i], version)
      BY <1>1, <2>1 DEF OnIndex
    <2>2. CASE ~OnIndex(Crates[i], version)
      <3>1. [name |-> Crates[i], version |-> version, from |-> tags[v]] \in crates'
        BY <1>1, <2>2
      <3>2. QED
        BY <3>1
    <2>3. QED
      BY <2>1, <2>2
  <1>5. crates \subseteq crates'
    BY <1>1
  <1>6. \A u \in Versions : CrateVersion(u)' = CrateVersion(u)
    BY <1>1 DEF CrateVersion
  <1>7. \A k \in 1..(i - 1) : OnIndex(Crates[k], version)
    BY <1>1 DEF IInv, Behind
  <1>8. \A k \in 1..i : \E p \in crates' : p.name = Crates[k] /\ p.version = version
    <2>1. ASSUME NEW k \in 1..i, k # i
          PROVE  \E p \in crates : p.name = Crates[k] /\ p.version = version
      <3>1. k \in 1..(i - 1)
        BY <1>2, <2>1, CratesFacts
      <3>2. QED
        BY <1>7, <3>1 DEF OnIndex
    <2>2. QED
      BY <1>4, <1>5, <2>1
  <1>9. Behind'
    <2>1. ASSUME NEW u \in Versions, NEW k \in 1..Len(Crates),
                 \/ run'[u].at = "publish" /\ k < run'[u].crate
                 \/ run'[u].at = "done"
          PROVE  \E p \in crates' : p.name = Crates[k] /\ p.version = CrateVersion(u)
      <3>1. CASE u = v
        <4>1. run'[u] = After(i)
          BY <1>1, <3>1 DEF IInv, Typed
        <4>2. i \in Nat /\ k \in Nat /\ 1 <= k /\ k <= Len(Crates) /\ Len(Crates) \in Nat
          BY <1>2, CratesFacts
        <4>3. k \in 1..i
          BY <1>2, <2>1, <4>1, <4>2, AfterFacts
        <4>4. QED
          BY <1>1, <1>8, <3>1, <4>3
      <3>2. CASE u # v
        <4>1. run'[u] = run[u] /\ run[u].crate \in 1..Len(Crates)
          BY <1>1, <3>2 DEF IInv, Typed
        <4>2. run[u].at = "publish" => k \in 1..(run[u].crate - 1)
          BY <2>1, <4>1, CratesFacts
        <4>3. OnIndex(Crates[k], CrateVersion(u))
          BY <2>1, <4>1, <4>2 DEF IInv, Behind
        <4>4. QED
          BY <1>5, <4>3 DEF OnIndex
      <3>3. QED
        BY <3>1, <3>2
    <2>2. ASSUME NEW u \in Versions, run'[u].at = "publish", NEW k \in 1..(run'[u].crate - 1)
          PROVE  k \in 1..Len(Crates) /\ k < run'[u].crate
      <3>1. run'[u].crate \in 1..Len(Crates)
        BY <1>3 DEF Typed
      <3>2. QED
        BY <2>2, <3>1, CratesFacts
    <2>3. QED
      BY <1>6, <2>1, <2>2 DEF Behind, OnIndex
  <1>10. Ordered'
    <2>1. ASSUME NEW p \in crates', NEW k \in 1..Len(Crates), NEW j \in 1..Len(Crates),
                 k < j, p.name = Crates[j]
          PROVE  \E q \in crates' : q.name = Crates[k] /\ q.version = p.version
      <3>1. CASE p \in crates
        <4>1. OnIndex(Crates[k], p.version)
          BY <2>1, <3>1, CratesFacts DEF IInv, Ordered
        <4>2. QED
          BY <1>5, <4>1 DEF OnIndex
      <3>2. CASE p \notin crates
        <4>1. p = [name |-> Crates[i], version |-> version, from |-> tags[v]]
          BY <1>1, <3>2
        <4>2. j = i /\ p.version = version
          BY <1>2, <2>1, <4>1, CratesFacts
        <4>3. k \in 1..i
          BY <2>1, <4>2, CratesFacts
        <4>4. QED
          BY <1>8, <4>2, <4>3
      <3>3. QED
        BY <3>1, <3>2
    <2>2. QED
      BY <2>1, CratesFacts DEF Ordered, OnIndex
  <1>11. Origins'
    <2>1. CASE moved
      BY <1>1, <2>1 DEF Origins
    <2>2. CASE ~moved
      <3>1. ASSUME NEW p \in crates'
            PROVE  \E u \in Versions : tags[u] # 0 /\ p.from = tags[u] /\ p.version = CrateVersion(u)
        <4>1. CASE p \in crates
          BY <2>2, <4>1 DEF IInv, Origins
        <4>2. CASE p \notin crates
          <5>1. p = [name |-> Crates[i], version |-> version, from |-> tags[v]]
            BY <1>1, <4>2
          <5>2. QED
            BY <1>1, <1>2, <5>1
        <4>3. QED
          BY <4>1, <4>2
      <3>2. QED
        BY <1>1, <1>6, <3>1 DEF Origins
    <2>3. QED
      BY <2>1, <2>2
  <1>12. QED
    BY <1>3, <1>9, <1>10, <1>11 DEF IInv

\* The workflow goes on without publishing: it begins, passes, fails.
LEMMA WorkflowKeeps ==
    ASSUME IInv, NEW v \in Versions, RunAgain(v) \/ Guard(v) \/ Fails(v)
    PROVE  IInv'
  <1>1. /\ history' = history /\ main' = main /\ tags' = tags /\ moved' = moved
        /\ crates' = crates /\ run[v].at # "none"
        /\ \E where \in Places : where # "done" /\ run' = [run EXCEPT ![v] = At(where)]
    BY DEF RunAgain, Guard, Fails, Goes, Places
  <1>2. PICK where \in Places : where # "done" /\ run' = [run EXCEPT ![v] = At(where)]
    BY <1>1
  <1>3. Typed'
    <2>1. At(where) \in [at : Places, crate : 1..Len(Crates)]
      BY CratesFacts DEF At
    <2>2. \A u \in Versions : u # v => run'[u] = run[u]
      BY <1>2 DEF IInv, Typed
    <2>3. run' \in [Versions -> [at : Places, crate : 1..Len(Crates)]]
      BY <1>2, <2>1 DEF IInv, Typed
    <2>4. QED
      BY <1>1, <2>2, <2>3 DEF IInv, Typed
  <1>4. \A n, u : OnIndex(n, u)' <=> OnIndex(n, u)
    BY <1>1 DEF OnIndex
  <1>5. \A u \in Versions : CrateVersion(u)' = CrateVersion(u)
    BY <1>1 DEF CrateVersion
  <1>6. Behind'
    <2>1. run'[v].at # "done" /\ run'[v].crate = 1 /\ ~ \E k : k \in 1..(1 - 1)
      BY <1>2 DEF IInv, Typed, At
    <2>2. \A u \in Versions : u # v => run'[u] = run[u]
      BY <1>2 DEF IInv, Typed
    <2>3. QED
      BY <1>4, <1>5, <2>1, <2>2 DEF IInv, Behind
  <1>7. Ordered' /\ Origins'
    BY <1>1, <1>4, <1>5 DEF IInv, Ordered, Origins
  <1>8. QED
    BY <1>3, <1>6, <1>7 DEF IInv

LEMMA Inductive == Spec => []IInv
  <1>1. ASSUME IInv, [Next]_vars
        PROVE  IInv'
    <2>1. CASE UNCHANGED vars
      <3>1. /\ history' = history /\ main' = main /\ tags' = tags /\ run' = run
            /\ crates' = crates /\ moved' = moved
        BY <2>1 DEF vars
      <3>2. Typed'
        BY <1>1, <3>1 DEF IInv, Typed
      <3>3. Behind' /\ Ordered' /\ Origins'
        BY <1>1, <3>1 DEF IInv, Behind, Ordered, Origins, OnIndex, CrateVersion
      <3>4. QED
        BY <3>2, <3>3 DEF IInv
    <2>2. CASE Commits
      BY <1>1, <2>2, CommitsKeep
    <2>3. ASSUME NEW v \in Versions, PushTag(v) \/ MoveTag(v)
          PROVE  IInv'
      BY <1>1, <2>3, PushKeeps
    <2>4. ASSUME NEW v \in Versions, RunAgain(v) \/ Guard(v) \/ Fails(v)
          PROVE  IInv'
      BY <1>1, <2>4, WorkflowKeeps
    <2>5. ASSUME NEW v \in Versions, Publish(v)
          PROVE  IInv'
      BY <1>1, <2>5, PublishKeeps
    <2>6. QED
      BY <1>1, <2>1, <2>2, <2>3, <2>4, <2>5, RepositorySteps DEF Next
  <1>2. QED
    BY InitInv, <1>1, PTL DEF Spec

-----------------------------------------------------------------------------
\* A crate is published after those before it, the crates of a version come
\* from one commit unless a tag moved or is on another version's crates, and a
\* workflow that is done has published all (release.yml:67).
THEOREM CratesStayTogether == Spec => []CratesComeTogether
  <1>1. ASSUME IInv
        PROVE  CratesComeTogether
    <2>1. \A p \in crates, i, j \in DOMAIN Crates :
             i < j /\ p.name = Crates[j] => OnIndex(Crates[i], p.version)
      BY <1>1 DEF IInv, Ordered
    <2>2. ASSUME \A v \in Versions : tags[v] # 0 => history[tags[v]].crate = v, ~moved,
                 NEW p \in crates, NEW q \in crates, p.version = q.version
          PROVE  p.from = q.from
      <3>1. PICK u \in Versions : tags[u] # 0 /\ p.from = tags[u] /\ p.version = CrateVersion(u)
        BY <1>1, <2>2 DEF IInv, Origins
      <3>2. PICK v \in Versions : tags[v] # 0 /\ q.from = tags[v] /\ q.version = CrateVersion(v)
        BY <1>1, <2>2 DEF IInv, Origins
      <3>3. u = v
        BY <2>2, <3>1, <3>2 DEF CrateVersion
      <3>4. QED
        BY <3>1, <3>2, <3>3
    <2>3. ASSUME NEW v \in Versions, run[v].at = "done", NEW n \in Range(Crates)
          PROVE  OnIndex(n, history[tags[v]].crate)
      <3>1. PICK i \in 1..Len(Crates) : n = Crates[i]
        BY CratesFacts DEF Range
      <3>2. QED
        BY <1>1, <2>3, <3>1 DEF IInv, Behind, CrateVersion
    <2>4. QED
      BY <2>1, <2>2, <2>3 DEF CratesComeTogether
  <1>2. QED
    BY Inductive, <1>1, PTL

-----------------------------------------------------------------------------
\* The order of the naturals is well-founded: each set of them has a least
\* member, ...
LEMMA LeastMember ==
    ASSUME NEW T, T \subseteq Nat, T # {}
    PROVE  \E x \in T : \A y \in T : x <= y
  <1>1. PICK R : /\ IsWellFoundedOn(R, Nat)
                 /\ \A x, y \in Nat : <<y, x>> \in R <=> y < x
    <2>1. \A x, y \in Nat : <<y, x>> \in OpToRel(<, Nat) <=> y < x
      BY DEF OpToRel
    <2>2. QED
      BY <2>1, NatLessThanWellFounded, Zenon
  <1>2. PICK x \in T : \A y \in T : ~(<<y, x>> \in R)
    BY <1>1, WFMin
  <1>3. ASSUME NEW y \in T
        PROVE  x <= y
    <2>1. x \in Nat /\ y \in Nat
      OBVIOUS
    <2>2. ~(y < x)
      BY <1>1, <1>2, <2>1, Zenon
    <2>3. QED
      BY <2>1, <2>2
  <1>4. QED
    BY <1>3

\* ... so that a set that has 0 and with each number the next has them all.
LEMMA Induction ==
    ASSUME NEW T, 0 \in T, \A n \in Nat : n \in T => n + 1 \in T
    PROVE  Nat \subseteq T
  <1>1. SUFFICES ASSUME Nat \ T # {}
                 PROVE  FALSE
    OBVIOUS
  <1>2. PICK x \in Nat \ T : \A y \in Nat \ T : x <= y
    BY <1>1, LeastMember
  <1>3. x - 1 \in Nat /\ x - 1 < x
    BY <1>2
  <1>4. x - 1 \in T
    BY <1>2, <1>3
  <1>5. x - 1 + 1 \in T
    BY <1>3, <1>4
  <1>6. QED
    BY <1>2, <1>5

-----------------------------------------------------------------------------
(* The histories of commits.                                               *)

\* Parents are earlier commits.
Rooted(h) ==
    /\ \E S : h \in Seq(S)
    /\ \A c \in 1..Len(h) : h[c].parents \in Seq(1..(c - 1))

PastAt(f, h, c) == IF c = 0 THEN {} ELSE {c} \cup UNION {f[p] : p \in Range(h[c].parents)}
IsPast(f, h, n) == f = [c \in 0..n |-> PastAt(f, h, c)]

LEMMA RootedFacts ==
    ASSUME NEW h, Rooted(h)
    PROVE  /\ Len(h) \in Nat /\ DOMAIN h = 1..Len(h)
           /\ \A c \in 1..Len(h) : \A p \in Range(h[c].parents) : p \in Nat /\ 1 <= p /\ p <= c - 1 /\ p \in 0..(c - 1)
  <1>1. PICK S : h \in Seq(S)
    BY DEF Rooted
  <1>2. Len(h) \in Nat /\ DOMAIN h = 1..Len(h)
    BY <1>1, LenProperties
  <1>3. ASSUME NEW c \in 1..Len(h), NEW p \in Range(h[c].parents)
        PROVE  p \in 1..(c - 1)
    <2>1. h[c].parents \in Seq(1..(c - 1))
      BY DEF Rooted
    <2>2. h[c].parents \in [1..Len(h[c].parents) -> 1..(c - 1)]
      BY <2>1, LenProperties
    <2>3. QED
      BY <2>2 DEF Range
  <1>4. ASSUME NEW c \in 1..Len(h), NEW p \in 1..(c - 1)
        PROVE  p \in Nat /\ 1 <= p /\ p <= c - 1 /\ p \in 0..(c - 1)
    BY <1>2
  <1>5. QED
    BY <1>2, <1>3, <1>4

LEMMA PastIsDefined ==
    ASSUME NEW h, Rooted(h)
    PROVE  IsPast(Histories(h), h, Len(h))
  <1> DEFINE T == {n \in Nat : n <= Len(h) => \E f : IsPast(f, h, n)}
  <1>0. Len(h) \in Nat
    BY RootedFacts
  <1>1. 0 \in T
    <2>1. IsPast([c \in 0..0 |-> {}], h, 0)
      BY DEF IsPast, PastAt
    <2>2. QED
      BY <2>1
  <1>2. ASSUME NEW n \in Nat, n \in T, n + 1 <= Len(h)
        PROVE  \E f : IsPast(f, h, n + 1)
    <2>1. PICK f : IsPast(f, h, n)
      BY <1>0, <1>2
    <2> DEFINE g == [c \in 0..(n + 1) |-> PastAt(f, h, c)]
    <2>2. \A c \in 0..n : g[c] = f[c]
      BY <2>1 DEF IsPast
    <2>3. ASSUME NEW c \in 0..(n + 1)
          PROVE  PastAt(f, h, c) = PastAt(g, h, c)
      <3>1. CASE c = 0
        BY <3>1 DEF PastAt
      <3>2. CASE c # 0
        <4>1. c \in 1..Len(h) /\ c - 1 <= n /\ c \in Nat
          BY <1>0, <1>2, <3>2
        <4>2. \A p \in Range(h[c].parents) : p \in 0..n
          <5>1. \A p \in Range(h[c].parents) : p \in Nat /\ p <= c - 1
            BY <4>1, RootedFacts
          <5>2. QED
            BY <4>1, <5>1
        <4> HIDE DEF g
        <4>3. {f[p] : p \in Range(h[c].parents)} = {g[p] : p \in Range(h[c].parents)}
          BY <2>2, <4>2
        <4>4. QED
          BY <4>3 DEF PastAt
      <3>3. QED
        BY <3>1, <3>2
    <2>4. IsPast(g, h, n + 1)
      <3>1. [c \in 0..(n + 1) |-> PastAt(f, h, c)] = [c \in 0..(n + 1) |-> PastAt(g, h, c)]
        <4> HIDE DEF g
        <4>1. QED
          BY <2>3
      <3>2. QED
        BY <3>1 DEF IsPast
    <2>5. QED
      BY <2>4
  <1>3. Nat \subseteq T
    <2> HIDE DEF T
    <2>1. \A n \in Nat : n \in T => n + 1 \in T
      BY <1>0, <1>2 DEF T
    <2>2. QED
      BY <1>1, <2>1, Induction
  <1>4. \E f : IsPast(f, h, Len(h))
    BY <1>0, <1>3
  <1>5. Histories(h) = CHOOSE f : IsPast(f, h, Len(h))
    BY DEF Histories, IsPast, PastAt
  <1>6. QED
    BY <1>4, <1>5

\* Every commit is in its own history, with those of its parents.
LEMMA PastFacts ==
    ASSUME NEW h, Rooted(h)
    PROVE  /\ Histories(h)[0] = {}
           /\ \A c \in 1..Len(h) :
                Histories(h)[c] = {c} \cup UNION {Histories(h)[p] : p \in Range(h[c].parents)}
  <1> DEFINE f == Histories(h)
  <1>0. Len(h) \in Nat
    BY RootedFacts
  <1>1. f = [c \in 0..Len(h) |-> PastAt(f, h, c)]
    BY PastIsDefined DEF IsPast
  <1> HIDE DEF f
  <1>2. \A c \in 0..Len(h) : f[c] = PastAt(f, h, c)
    BY <1>1
  <1>3. f[0] = {}
    <2>1. 0 \in 0..Len(h)
      BY <1>0
    <2>2. f[0] = PastAt(f, h, 0)
      BY <1>2, <2>1
    <2>3. QED
      BY <2>2 DEF PastAt
  <1>4. ASSUME NEW c \in 1..Len(h)
        PROVE  f[c] = {c} \cup UNION {f[p] : p \in Range(h[c].parents)}
    <2>1. c \in 0..Len(h) /\ c # 0
      BY <1>0
    <2>2. QED
      BY <1>2, <2>1 DEF PastAt
  <1>5. QED
    BY <1>3, <1>4 DEF f

\* A history reaches back only.
LEMMA PastIsEarlier ==
    ASSUME NEW h, Rooted(h)
    PROVE  \A c \in 1..Len(h) : c \in Histories(h)[c] /\ Histories(h)[c] \subseteq 1..c
  <1> DEFINE f == Histories(h)
             T == {n \in Nat : n <= Len(h) => \A c \in 1..n : f[c] \subseteq 1..c}
  <1>0. Len(h) \in Nat
    BY RootedFacts
  <1> HIDE DEF f
  <1>1. 0 \in T
    OBVIOUS
  <1>2. ASSUME NEW n \in Nat, n \in T, n + 1 <= Len(h)
        PROVE  \A c \in 1..(n + 1) : f[c] \subseteq 1..c
    <2>1. \A c \in 1..n : f[c] \subseteq 1..c
      BY <1>0, <1>2
    <2> DEFINE m == n + 1
    <2>2. m \in 1..Len(h) /\ m \in Nat
      BY <1>0, <1>2
    <2>3. f[m] = {m} \cup UNION {f[p] : p \in Range(h[m].parents)}
      BY <2>2, PastFacts DEF f
    <2>4. \A p \in Range(h[m].parents) : p \in 1..n
      <3>1. \A p \in Range(h[m].parents) : p \in Nat /\ 1 <= p /\ p <= m - 1
        BY <2>2, RootedFacts
      <3>2. QED
        BY <3>1
    <2>5. \A p \in 1..n : f[p] \subseteq 1..m
      BY <2>1
    <2>6. f[m] \subseteq 1..m
      BY <2>2, <2>3, <2>4, <2>5
    <2>7. 1..(n + 1) = 1..n \cup {m}
      OBVIOUS
    <2> HIDE DEF m
    <2>8. QED
      BY <2>1, <2>6, <2>7
  <1>3. Nat \subseteq T
    <2> HIDE DEF T
    <2>1. \A n \in Nat : n \in T => n + 1 \in T
      BY <1>0, <1>2 DEF T
    <2>2. QED
      BY <1>1, <2>1, Induction
  <1>4. \A c \in 1..Len(h) : c \in f[c]
    BY PastFacts DEF f
  <1>5. QED
    BY <1>0, <1>3, <1>4 DEF f

\* A new commit leaves the histories of those before it.
LEMMA PastGrows ==
    ASSUME NEW h, Rooted(h), NEW x, x.parents \in Seq(1..Len(h))
    PROVE  LET g == Append(h, x) IN
           /\ Rooted(g) /\ Len(g) = Len(h) + 1 /\ g[Len(g)] = x
           /\ \A c \in 1..Len(h) : g[c] = h[c]
           /\ \A c \in 0..Len(h) : Histories(g)[c] = Histories(h)[c]
           /\ Histories(g)[Len(g)] = {Len(g)} \cup UNION {Histories(h)[p] : p \in Range(x.parents)}
  <1> DEFINE g == Append(h, x)
             past == Histories(h)
             new == Histories(g)
  <1>0. PICK S : h \in Seq(S)
    BY DEF Rooted
  <1>1. Len(h) \in Nat /\ g \in Seq(S \cup {x}) /\ Len(g) = Len(h) + 1 /\ g[Len(h) + 1] = x
        /\ \A c \in 1..Len(h) : g[c] = h[c]
    <2>1. h \in Seq(S \cup {x}) /\ x \in S \cup {x}
      BY <1>0, SeqMonotonic
    <2>2. QED
      BY <2>1, AppendProperties, LenProperties
  <1>2. Rooted(g)
    <2>1. ASSUME NEW c \in 1..(Len(h) + 1)
          PROVE  g[c].parents \in Seq(1..(c - 1))
      <3>1. CASE c = Len(h) + 1
        BY <1>1, <3>1
      <3>2. CASE c # Len(h) + 1
        <4>1. c \in 1..Len(h)
          BY <1>1, <3>2
        <4>2. QED
          BY <1>1, <4>1 DEF Rooted
      <3>3. QED
        BY <3>1, <3>2
    <2>2. QED
      BY <1>1, <2>1 DEF Rooted
  <1> HIDE DEF g, past, new
  <1> DEFINE T == {n \in Nat : n <= Len(h) => \A c \in 0..n : new[c] = past[c]}
  <1>3. past[0] = {} /\ new[0] = {}
    BY <1>2, PastFacts DEF past, new
  <1>4. 0 \in T
    <2>1. \A c \in 0..0 : c = 0
      OBVIOUS
    <2>2. \A c \in 0..0 : new[c] = past[c]
      BY <1>3, <2>1
    <2>3. QED
      BY <2>2
  <1>5. ASSUME NEW n \in Nat, n \in T, n + 1 <= Len(h)
        PROVE  \A c \in 0..(n + 1) : new[c] = past[c]
    <2>1. \A c \in 0..n : new[c] = past[c]
      BY <1>1, <1>5
    <2> DEFINE m == n + 1
    <2>2. m \in 1..Len(h) /\ m \in 1..Len(g) /\ g[m] = h[m] /\ m - 1 = n
      BY <1>1, <1>5
    <2> HIDE DEF m
    <2>3. /\ past[m] = {m} \cup UNION {past[p] : p \in Range(h[m].parents)}
          /\ new[m] = {m} \cup UNION {new[p] : p \in Range(h[m].parents)}
      BY <1>2, <2>2, PastFacts DEF past, new
    <2>4. \A p \in Range(h[m].parents) : p \in 0..n
      BY <2>2, RootedFacts
    <2>5. new[m] = past[m]
      BY <2>1, <2>3, <2>4
    <2>6. 0..(n + 1) = 0..n \cup {m}
      BY DEF m
    <2>7. QED
      BY <2>1, <2>5, <2>6
  <1>6. Nat \subseteq T
    <2>1. ASSUME NEW n \in Nat, n \in T
          PROVE  n + 1 \in T
      <3>1. n + 1 \in Nat
        OBVIOUS
      <3>2. n + 1 <= Len(h) => \A c \in 0..(n + 1) : new[c] = past[c]
        <4> HIDE DEF T
        <4>1. QED
          BY <1>5, <2>1
      <3>3. QED
        BY <3>1, <3>2
    <2> HIDE DEF T
    <2>2. QED
      BY <1>4, <2>1, Induction
  <1>7. \A c \in 0..Len(h) : new[c] = past[c]
    BY <1>1, <1>6
  <1>8. new[Len(g)] = {Len(g)} \cup UNION {past[p] : p \in Range(x.parents)}
    <2>1. Len(g) \in 1..Len(g)
      BY <1>1
    <2>2. new[Len(g)] = {Len(g)} \cup UNION {new[p] : p \in Range(g[Len(g)].parents)}
      BY <1>2, <2>1, PastFacts DEF new
    <2>3. \A p \in Range(x.parents) : p \in 0..Len(h)
      <3>1. x.parents \in [1..Len(x.parents) -> 1..Len(h)]
        BY LenProperties
      <3>2. QED
        BY <1>1, <3>1 DEF Range
    <2>4. QED
      BY <1>1, <1>7, <2>2, <2>3
  <1>9. QED
    BY <1>1, <1>2, <1>7, <1>8 DEF g, past, new

-----------------------------------------------------------------------------
\* A changelog a commit c may have: sections with entries of commits up to c,
\* one of them [Unreleased].
Kind == Kinds \cup {"cited"}
Section(c) == [version : Nat \cup {Odd}, entries : SUBSET [by : 1..c, kind : Kind]]
LogOK(c, log) == log \in Seq(Section(c)) /\ \E i \in 1..Len(log) : log[i].version = Unreleased

Disjoint(log) == \A i, j \in DOMAIN log : i # j => log[i].entries \cap log[j].entries = {}

LEMMA LogFacts ==
    ASSUME NEW c \in Nat, NEW log, LogOK(c, log)
    PROVE  /\ Len(log) \in Nat /\ DOMAIN log = 1..Len(log)
           /\ \A i \in 1..Len(log) : log[i] \in Section(c)
           /\ UnreleasedAt(log) \in 1..Len(log) /\ log[UnreleasedAt(log)].version = Unreleased
           /\ Entries(log) = UNION {log[i].entries : i \in 1..Len(log)}
           /\ Entries(log) \subseteq [by : 1..c, kind : Kind]
  <1>1. Len(log) \in Nat /\ DOMAIN log = 1..Len(log) /\ \A i \in 1..Len(log) : log[i] \in Section(c)
    BY LenProperties DEF LogOK
  <1> DEFINE I == {i \in 1..Len(log) : log[i].version = Unreleased}
  <1>2. I # {} /\ I \subseteq Nat
    BY <1>1 DEF LogOK
  <1>3. PICK k \in I : \A i \in I : k <= i
    BY <1>2, LeastMember
  <1>4. UnreleasedAt(log) = Min(I)
    BY <1>2 DEF UnreleasedAt, SelectInSeq
  <1>5. UnreleasedAt(log) \in I
    BY <1>3, <1>4 DEF Min
  <1>6. Entries(log) = UNION {log[i].entries : i \in 1..Len(log)}
    BY <1>1 DEF Entries, Range
  <1>7. \A i \in 1..Len(log) : log[i].entries \subseteq [by : 1..c, kind : Kind]
    BY <1>1 DEF Section
  <1>8. QED
    BY <1>1, <1>5, <1>6, <1>7

LEMMA SectionsGrow ==
    ASSUME NEW c \in Nat, NEW d \in Nat, c <= d
    PROVE  Section(c) \subseteq Section(d) /\ \A log : LogOK(c, log) => LogOK(d, log)
  <1>1. 1..c \subseteq 1..d
    OBVIOUS
  <1>2. [by : 1..c, kind : Kind] \subseteq [by : 1..d, kind : Kind]
    BY <1>1
  <1>3. Section(c) \subseteq Section(d)
    BY <1>2 DEF Section
  <1>4. QED
    BY <1>3, SeqMonotonic DEF LogOK

\* Entries are added to one section.
Added(log, i, new) == [log EXCEPT ![i].entries = @ \cup new]

LEMMA AddFacts ==
    ASSUME NEW c \in Nat, NEW log, LogOK(c, log), NEW i \in 1..Len(log),
           NEW new \in SUBSET [by : 1..c, kind : Kind]
    PROVE  /\ LogOK(c, Added(log, i, new)) /\ Entries(Added(log, i, new)) = Entries(log) \cup new
           /\ Disjoint(log) /\ Entries(log) \cap new = {} => Disjoint(Added(log, i, new))
  <1> DEFINE section == [log[i] EXCEPT !.entries = @ \cup new]
             more == [log EXCEPT ![i] = section]
  <1>1. log \in Seq(Section(c)) /\ Len(log) \in Nat /\ DOMAIN log = 1..Len(log) /\ log[i] \in Section(c)
    BY LogFacts DEF LogOK
  <1>2. /\ section \in Section(c) /\ section.version = log[i].version
        /\ section.entries = log[i].entries \cup new
    BY <1>1 DEF Section
  <1> HIDE DEF section
  <1>3. /\ more \in Seq(Section(c)) /\ Len(more) = Len(log) /\ DOMAIN more = 1..Len(log)
        /\ \A j \in 1..Len(log) : more[j] = IF j = i THEN section ELSE log[j]
    BY <1>1, <1>2, ExceptSeq, LenProperties
  <1>0. Added(log, i, new) = more
    BY DEF Added, section
  <1> HIDE DEF more
  <1>4. LogOK(c, more)
    BY <1>2, <1>3 DEF LogOK
  <1>5. Entries(more) = Entries(log) \cup new
    <2>1. Entries(more) = UNION {more[j].entries : j \in 1..Len(log)}
      BY <1>3, <1>4, LogFacts
    <2>2. Entries(log) = UNION {log[j].entries : j \in 1..Len(log)}
      BY LogFacts
    <2>3. \A j \in 1..Len(log) : more[j].entries = IF j = i THEN log[i].entries \cup new ELSE log[j].entries
      BY <1>2, <1>3
    <2>4. QED
      BY <2>1, <2>2, <2>3
  <1>6. ASSUME Disjoint(log), Entries(log) \cap new = {}
        PROVE  Disjoint(more)
    <2>1. \A j \in 1..Len(log) : log[j].entries \cap new = {}
      BY <1>6, LogFacts
    <2>2. \A j \in 1..Len(log) : more[j].entries = IF j = i THEN log[i].entries \cup new ELSE log[j].entries
      BY <1>2, <1>3
    <2>3. QED
      BY <1>1, <1>3, <1>6, <2>1, <2>2 DEF Disjoint
  <1>7. QED
    BY <1>0, <1>4, <1>5, <1>6

-----------------------------------------------------------------------------
\* What fold writes.
LEMMA FoldFacts ==
    ASSUME NEW c \in Nat, NEW log, LogOK(c, log), NEW v \in Versions, MayFold(log, v)
    PROVE  /\ LogOK(c, Folded(log, v)) /\ Entries(Folded(log, v)) = Entries(log)
           /\ GuardPasses(Folded(log, v), v)
           /\ Disjoint(log) => Disjoint(Folded(log, v))
  <1> DEFINE first == [version |-> Unreleased, entries |-> {}]
             second == [version |-> v, entries |-> Head(log).entries]
             new == Folded(log, v)
             n == Len(log)
  <1>0. v \in Nat /\ v # 0 /\ v # Odd /\ v # Unreleased /\ Odd # Unreleased
    BY ReleaseAssumption DEF Odd, Unreleased
  <1>1. /\ n \in Nat /\ DOMAIN log = 1..n /\ \A i \in 1..n : log[i] \in Section(c)
        /\ log # <<>> /\ log \in Seq(Section(c))
    BY LogFacts DEF LogOK, MayFold, Conforms
  <1>2. n >= 1 /\ Head(log) = log[1]
    BY <1>1, EmptySeq
  <1>3. first \in Section(c) /\ second \in Section(c)
    BY <1>0, <1>1, <1>2 DEF Section, Unreleased
  <1>4. /\ Tail(log) \in Seq(Section(c)) /\ Len(Tail(log)) = n - 1
        /\ \A i \in 1..(n - 1) : Tail(log)[i] = log[i + 1]
    BY <1>1, <1>2, HeadTailProperties
  <1>5. /\ <<first, second>> \in Seq(Section(c)) /\ Len(<<first, second>>) = 2
        /\ <<first, second>>[1] = first /\ <<first, second>>[2] = second
    <2> HIDE DEF first, second
    <2>1. QED
      BY <1>3
  <1>6. new = <<first, second>> \o Tail(log)
    BY DEF Folded
  <1> HIDE DEF first, second, new, n
  <1>7. /\ new \in Seq(Section(c)) /\ Len(new) = n + 1 /\ DOMAIN new = 1..(n + 1)
        /\ new[1] = first /\ new[2] = second
        /\ \A i \in 3..(n + 1) : new[i] = log[i - 1]
    <2>1. /\ new \in Seq(Section(c)) /\ Len(new) = 2 + (n - 1)
          /\ \A i \in 1..(2 + (n - 1)) : new[i] = IF i <= 2 THEN <<first, second>>[i] ELSE Tail(log)[i - 2]
      BY <1>4, <1>5, <1>6, ConcatProperties
    <2>2. Len(new) = n + 1 /\ DOMAIN new = 1..(n + 1)
      BY <1>1, <2>1, LenProperties
    <2>3. new[1] = first /\ new[2] = second
      BY <1>1, <1>2, <1>5, <2>1
    <2>4. ASSUME NEW i \in 3..(n + 1)
          PROVE  new[i] = log[i - 1]
      <3>1. i \in 1..(2 + (n - 1)) /\ ~(i <= 2) /\ i - 2 \in 1..(n - 1) /\ (i - 2) + 1 = i - 1
        BY <1>1
      <3>2. new[i] = Tail(log)[i - 2]
        BY <2>1, <3>1
      <3>3. QED
        BY <1>4, <3>1, <3>2
    <2>5. QED
      BY <2>1, <2>2, <2>3, <2>4
  <1>8. /\ first.version = Unreleased /\ first.entries = {}
        /\ second.version = v /\ second.entries = log[1].entries
    BY <1>2 DEF first, second
  <1>9. 1 \in 1..(n + 1) /\ 2 \in 1..(n + 1) /\ \A i \in 1..(n + 1) : i = 1 \/ i = 2 \/ (i \in 3..(n + 1) /\ i - 1 \in 2..n)
    BY <1>1, <1>2
  <1>10. LogOK(c, new)
    BY <1>7, <1>8, <1>9 DEF LogOK
  <1>11. \A i \in 2..n : i \in 1..n /\ i + 1 \in 3..(n + 1) /\ (i + 1) - 1 = i
    BY <1>1
  <1>12. Entries(new) = Entries(log)
    <2>1. Entries(new) = UNION {new[i].entries : i \in 1..(n + 1)}
      BY <1>7, <1>10, LogFacts
    <2>2. Entries(log) = UNION {log[i].entries : i \in 1..n}
      BY LogFacts DEF n
    <2>3. ASSUME NEW i \in 1..(n + 1)
          PROVE  new[i].entries \subseteq Entries(log)
      <3>1. CASE i = 1
        BY <1>7, <1>8, <3>1
      <3>2. CASE i = 2
        BY <1>1, <1>2, <1>7, <1>8, <2>2, <3>2
      <3>3. CASE i \in 3..(n + 1) /\ i - 1 \in 2..n
        BY <1>7, <1>11, <2>2, <3>3
      <3>4. QED
        BY <1>9, <3>1, <3>2, <3>3
    <2>4. ASSUME NEW i \in 1..n
          PROVE  log[i].entries \subseteq Entries(new)
      <3>1. CASE i = 1
        BY <1>7, <1>8, <1>9, <2>1, <3>1
      <3>2. CASE i # 1
        <4>1. i \in 2..n /\ i + 1 \in 1..(n + 1)
          BY <1>1, <3>2
        <4>2. new[i + 1] = log[i]
          BY <1>7, <1>11, <4>1
        <4>3. QED
          BY <2>1, <4>1, <4>2
      <3>3. QED
        BY <3>1, <3>2
    <2>5. QED
      BY <2>1, <2>2, <2>3, <2>4
  <1>13. Conforms(log) /\ \A s \in Released(log) : v > s.version
    BY DEF MayFold
  <1>14. \A i \in 2..n : log[i].version # Unreleased /\ log[i].version # Odd /\ v > log[i].version
    <2>1. ASSUME NEW i \in 2..n
          PROVE  i \in DOMAIN log /\ i # 1 /\ i \in 2..Len(log)
      BY <1>1 DEF n
    <2>2. QED
      BY <1>13, <2>1 DEF Conforms, Released
  <1>15. Conforms(new)
    <2>1. new # <<>>
      BY <1>7, <1>9
    <2>2. ASSUME NEW i \in 1..(n + 1)
          PROVE  new[i].version = Unreleased <=> i = 1
      <3>1. CASE i = 1
        BY <1>7, <1>8, <3>1
      <3>2. CASE i = 2
        BY <1>0, <1>7, <1>8, <3>2
      <3>3. CASE i \in 3..(n + 1) /\ i - 1 \in 2..n
        <4>1. new[i].version # Unreleased
          BY <1>7, <1>14, <3>3
        <4>2. i # 1
          BY <1>1, <3>3
        <4>3. QED
          BY <4>1, <4>2
      <3>4. QED
        BY <1>9, <3>1, <3>2, <3>3
    <2>3. ASSUME NEW i \in 2..(n + 1)
          PROVE  new[i].version # Odd
      <3>1. i \in 1..(n + 1) /\ i # 1
        BY <1>1
      <3>2. CASE i = 2
        BY <1>0, <1>7, <1>8, <3>2
      <3>3. CASE i \in 3..(n + 1) /\ i - 1 \in 2..n
        BY <1>7, <1>14, <3>3
      <3>4. QED
        BY <1>9, <3>1, <3>2, <3>3
    <2>4. ASSUME NEW i \in 2..(n + 1), i < n + 1
          PROVE  new[i].version > new[i + 1].version
      <3>1. i \in 2..n /\ i \in Nat /\ (i = 2 \/ i \in 3..(n + 1)) /\ i + 1 \in 3..(n + 1)
        BY <1>1, <2>4
      <3>2. new[i + 1] = log[i]
        BY <1>7, <1>11, <3>1
      <3>3. CASE i = 2
        BY <1>7, <1>8, <1>14, <3>1, <3>2, <3>3
      <3>4. CASE i \in 3..(n + 1)
        <4>1. new[i] = log[i - 1] /\ i - 1 \in 2..Len(log) /\ i - 1 < Len(log) /\ (i - 1) + 1 = i
          BY <1>1, <1>7, <3>1, <3>4 DEF n
        <4>2. log[i - 1].version > log[(i - 1) + 1].version
          BY <1>13, <4>1 DEF Conforms
        <4>3. QED
          BY <3>2, <4>1, <4>2
      <3>5. QED
        BY <3>1, <3>3, <3>4
    <2>5. Cited(new[1]) = {}
      BY <1>7, <1>8 DEF Cited
    <2>6. Len(new) = n + 1
      BY <1>7
    <2>7. \A i \in DOMAIN new : new[i].version = Unreleased <=> i = 1
      BY <1>7, <2>2
    <2>8. \A i \in 2..Len(new) : /\ new[i].version # Odd
                                 /\ i < Len(new) => new[i].version > new[i + 1].version
                                 /\ Cited(new[1]) \cap Cited(new[i]) = {}
      BY <2>3, <2>4, <2>5, <2>6
    <2>9. QED
      BY <2>1, <2>7, <2>8 DEF Conforms
  <1>16. GuardPasses(new, v)
    <2>1. new[2] \in Released(new)
      BY <1>0, <1>7, <1>8, <1>9 DEF Released
    <2>2. QED
      BY <1>7, <1>8, <1>15, <2>1 DEF GuardPasses
  <1>17. ASSUME Disjoint(log), NEW i \in 1..(n + 1), NEW j \in 1..(n + 1), i # j
         PROVE  new[i].entries \cap new[j].entries = {}
    <2> DEFINE at(k) == IF k = 2 THEN 1 ELSE k - 1
    <2>1. ASSUME NEW k \in 1..(n + 1), k # 1
          PROVE  at(k) \in 1..n /\ new[k].entries = log[at(k)].entries
      <3>1. CASE k = 2
        BY <1>1, <1>2, <1>7, <1>8, <3>1
      <3>2. CASE k \in 3..(n + 1) /\ k - 1 \in 2..n
        BY <1>1, <1>7, <1>11, <3>2
      <3>3. QED
        BY <1>9, <2>1, <3>1, <3>2
    <2>2. CASE i = 1 \/ j = 1
      BY <1>7, <1>8, <2>2
    <2>3. CASE i # 1 /\ j # 1 /\ at(i) # at(j)
      <3>1. at(i) \in DOMAIN log /\ at(j) \in DOMAIN log
        BY <1>1, <2>1, <2>3
      <3>2. log[at(i)].entries \cap log[at(j)].entries = {}
        BY <1>17, <2>3, <3>1 DEF Disjoint
      <3>3. QED
        BY <2>1, <2>3, <3>2
    <2>4. ASSUME i # 1, j # 1
          PROVE  at(i) # at(j)
      BY <1>1, <1>17, <2>4
    <2>5. QED
      BY <2>2, <2>3, <2>4
  <1>18. Disjoint(log) => Disjoint(new)
    BY <1>7, <1>17 DEF Disjoint
  <1>19. QED
    BY <1>10, <1>12, <1>16, <1>18 DEF new

\* A section is put in.
LEMMA InsertFacts ==
    ASSUME NEW c \in Nat, NEW log, LogOK(c, log), NEW i \in 1..(Len(log) + 1), NEW section \in Section(c)
    PROVE  /\ LogOK(c, InsertAt(log, i, section))
           /\ Entries(log) \subseteq Entries(InsertAt(log, i, section))
           /\ section.entries \subseteq Entries(InsertAt(log, i, section))
  <1> DEFINE n == Len(log)
             a == SubSeq(log, 1, i - 1)
             b == SubSeq(log, i, n)
             s == <<section>>
             new == InsertAt(log, i, section)
  <1>1. n \in Nat /\ DOMAIN log = 1..n /\ (\A k \in 1..n : log[k] \in Section(c)) /\ log \in Seq(Section(c))
    BY LogFacts DEF LogOK
  <1>2. a \in Seq(Section(c)) /\ Len(a) = i - 1 /\ \A k \in 1..(i - 1) : a[k] = log[k]
    BY <1>1
  <1>3. b \in Seq(Section(c)) /\ Len(b) = n + 1 - i /\ \A k \in 1..(n + 1 - i) : b[k] = log[i + k - 1]
    BY <1>1
  <1>4. s \in Seq(Section(c)) /\ Len(s) = 1 /\ s[1] = section
    OBVIOUS
  <1>5. new = (a \o s) \o b
    BY DEF InsertAt
  <1> HIDE DEF a, b, s, new, n
  <1>6. /\ new \in Seq(Section(c)) /\ Len(new) = n + 1 /\ DOMAIN new = 1..(n + 1)
        /\ new[i] = section
        /\ \A k \in 1..n : new[IF k < i THEN k ELSE k + 1] = log[k]
    <2> DEFINE as == a \o s
    <2>1. /\ as \in Seq(Section(c)) /\ Len(as) = (i - 1) + 1
          /\ \A k \in 1..((i - 1) + 1) : as[k] = IF k <= i - 1 THEN a[k] ELSE s[k - (i - 1)]
      <3>1. /\ as \in Seq(Section(c)) /\ Len(as) = Len(a) + Len(s)
            /\ \A k \in 1..(Len(a) + Len(s)) : as[k] = IF k <= Len(a) THEN a[k] ELSE s[k - Len(a)]
        BY <1>2, <1>4, ConcatProperties
      <3> HIDE DEF as
      <3>2. Len(a) = i - 1 /\ Len(s) = 1
        BY <1>2, <1>4
      <3>3. QED
        BY <3>1, <3>2
    <2> HIDE DEF as
    <2>2. Len(as) = i /\ i \in Nat /\ 1 <= i /\ i <= n + 1
      BY <1>1, <2>1 DEF n
    <2>3. /\ as \o b \in Seq(Section(c)) /\ Len(as \o b) = i + (n + 1 - i)
          /\ \A k \in 1..(i + (n + 1 - i)) : (as \o b)[k] = IF k <= i THEN as[k] ELSE b[k - i]
      <3> DEFINE ab == as \o b
      <3>1. /\ ab \in Seq(Section(c)) /\ Len(ab) = Len(as) + Len(b)
            /\ \A k \in 1..(Len(as) + Len(b)) : ab[k] = IF k <= Len(as) THEN as[k] ELSE b[k - Len(as)]
        BY <1>3, <2>1, ConcatProperties
      <3>2. Len(as) = i /\ Len(b) = n + 1 - i
        BY <1>3, <2>2
      <3> HIDE DEF ab
      <3>3. /\ ab \in Seq(Section(c)) /\ Len(ab) = i + (n + 1 - i)
            /\ \A k \in 1..(i + (n + 1 - i)) : ab[k] = IF k <= i THEN as[k] ELSE b[k - i]
        BY <3>1, <3>2
      <3>4. QED
        BY <3>3 DEF ab
    <2>4. new = as \o b /\ i + (n + 1 - i) = n + 1
      BY <1>1, <1>5, <2>2 DEF as
    <2>5. new \in Seq(Section(c)) /\ Len(new) = n + 1
      BY <2>3, <2>4
    <2>6. as[i] = section /\ \A k \in 1..(i - 1) : as[k] = log[k]
      <3>1. i \in 1..((i - 1) + 1) /\ ~(i <= i - 1) /\ i - (i - 1) = 1
        BY <2>2
      <3>2. as[i] = section
        BY <1>4, <2>1, <3>1
      <3>3. ASSUME NEW k \in 1..(i - 1)
            PROVE  as[k] = log[k]
        <4>1. k \in 1..((i - 1) + 1) /\ k <= i - 1
          BY <2>2
        <4>2. QED
          BY <1>2, <2>1, <4>1
      <3>4. QED
        BY <3>2, <3>3
    <2>7. new[i] = section
      <3>1. i \in 1..(i + (n + 1 - i)) /\ i <= i
        BY <1>1, <2>2
      <3>2. QED
        BY <2>3, <2>4, <2>6, <3>1
    <2>8. ASSUME NEW k \in 1..n
          PROVE  new[IF k < i THEN k ELSE k + 1] = log[k]
      <3>1. CASE k < i
        <4>1. k \in 1..(i - 1) /\ k \in 1..(i + (n + 1 - i)) /\ k <= i
          BY <1>1, <2>2, <3>1
        <4>2. QED
          BY <2>3, <2>4, <2>6, <3>1, <4>1
      <3>2. CASE ~(k < i)
        <4>1. k + 1 \in 1..(i + (n + 1 - i)) /\ ~(k + 1 <= i) /\ (k + 1) - i \in 1..(n + 1 - i)
              /\ i + ((k + 1) - i) - 1 = k
          BY <1>1, <2>2, <3>2
        <4>2. new[k + 1] = b[(k + 1) - i]
          BY <2>3, <2>4, <4>1
        <4>3. b[(k + 1) - i] = log[k]
          BY <1>3, <4>1
        <4>4. QED
          BY <3>2, <4>2, <4>3
      <3>3. QED
        BY <3>1, <3>2
    <2>9. DOMAIN new = 1..(n + 1)
      BY <2>5, LenProperties
    <2>10. QED
      BY <2>5, <2>7, <2>8, <2>9
  <1>7. ASSUME NEW k \in 1..n
        PROVE  \E j \in 1..(n + 1) : new[j] = log[k]
    <2>1. (IF k < i THEN k ELSE k + 1) \in 1..(n + 1)
      BY <1>1
    <2>2. QED
      BY <1>6, <2>1
  <1>8. LogOK(c, new)
    <2>1. PICK k \in 1..n : log[k].version = Unreleased
      BY DEF LogOK, n
    <2>2. QED
      BY <1>6, <1>7, <2>1 DEF LogOK
  <1>9. Entries(new) = UNION {new[k].entries : k \in 1..(n + 1)}
    BY <1>6, <1>8, LogFacts
  <1>10. Entries(log) = UNION {log[k].entries : k \in 1..n}
    BY LogFacts DEF n
  <1>11. i \in 1..(n + 1)
    BY DEF n
  <1>12. QED
    BY <1>6, <1>7, <1>8, <1>9, <1>10, <1>11 DEF new

\* Some entries of a section are taken out.
Without(log, i, taken, kept) == [log EXCEPT ![i].entries = IF kept THEN @ ELSE @ \ taken]

LEMMA TakeFacts ==
    ASSUME NEW c \in Nat, NEW log, LogOK(c, log), NEW i \in 1..Len(log), NEW taken, NEW kept \in BOOLEAN
    PROVE  /\ LogOK(c, Without(log, i, taken, kept)) /\ Len(Without(log, i, taken, kept)) = Len(log)
           /\ Entries(log) \subseteq Entries(Without(log, i, taken, kept)) \cup taken
  <1> DEFINE left == IF kept THEN log[i].entries ELSE log[i].entries \ taken
             section == [log[i] EXCEPT !.entries = left]
             rest == [log EXCEPT ![i] = section]
  <1>1. log \in Seq(Section(c)) /\ Len(log) \in Nat /\ DOMAIN log = 1..Len(log) /\ log[i] \in Section(c)
    BY LogFacts DEF LogOK
  <1>2. left \subseteq log[i].entries /\ log[i].entries \subseteq left \cup taken
    OBVIOUS
  <1>0. Without(log, i, taken, kept) = rest
    BY DEF Without
  <1> HIDE DEF left
  <1>3. section \in Section(c) /\ section.version = log[i].version /\ section.entries = left
    BY <1>1, <1>2 DEF Section
  <1> HIDE DEF section
  <1>4. /\ rest \in Seq(Section(c)) /\ Len(rest) = Len(log)
        /\ \A j \in 1..Len(log) : rest[j] = IF j = i THEN section ELSE log[j]
    BY <1>1, <1>3, ExceptSeq
  <1> HIDE DEF rest
  <1>5. LogOK(c, rest)
    BY <1>3, <1>4 DEF LogOK
  <1>6. Entries(log) \subseteq Entries(rest) \cup taken
    <2>1. Entries(rest) = UNION {rest[j].entries : j \in 1..Len(log)}
      BY <1>4, <1>5, LogFacts
    <2>2. Entries(log) = UNION {log[j].entries : j \in 1..Len(log)}
      BY LogFacts
    <2>3. \A j \in 1..Len(log) : log[j].entries \subseteq rest[j].entries \cup taken
      BY <1>2, <1>3, <1>4
    <2>4. QED
      BY <2>1, <2>2, <2>3
  <1>7. QED
    BY <1>0, <1>4, <1>5, <1>6

-----------------------------------------------------------------------------
\* A commit's changelog has every entry that a commit of its history wrote.
HasEntries(h, c) == \A d \in Histories(h)[c] :
    h[d].entry \in {"cited", "plain"} => [by |-> d, kind |-> h[d].entry] \in Entries(h[c].log)

LogsOK(h) == Rooted(h) /\ \A c \in 1..Len(h) : LogOK(c, h[c].log) /\ HasEntries(h, c)

LogsDisjoint(h) == \A c \in 1..Len(h) : Disjoint(h[c].log)

\* A commit whose changelog has what those of its parents have, and its own entry.
Carries(h, x) ==
    /\ x.parents \in Seq(1..Len(h)) /\ LogOK(Len(h) + 1, x.log)
    /\ \A p \in Range(x.parents) : Entries(h[p].log) \subseteq Entries(x.log)
    /\ x.entry \in {"cited", "plain"} => [by |-> Len(h) + 1, kind |-> x.entry] \in Entries(x.log)

LEMMA LogsGrow ==
    ASSUME NEW h, LogsOK(h), NEW x, Carries(h, x)
    PROVE  LogsOK(Append(h, x)) /\ (LogsDisjoint(h) /\ Disjoint(x.log) => LogsDisjoint(Append(h, x)))
  <1> DEFINE g == Append(h, x)
             n == Len(h)
             past == Histories(h)
             new == Histories(g)
  <1>1. Rooted(h) /\ n \in Nat
    BY RootedFacts DEF LogsOK
  <1>2. /\ Rooted(g) /\ Len(g) = n + 1 /\ g[n + 1] = x
        /\ \A c \in 1..n : g[c] = h[c]
        /\ \A c \in 0..n : new[c] = past[c]
        /\ new[n + 1] = {n + 1} \cup UNION {past[p] : p \in Range(x.parents)}
    <2>1. x.parents \in Seq(1..Len(h))
      BY DEF Carries
    <2>2. /\ Rooted(g) /\ Len(g) = Len(h) + 1 /\ g[Len(g)] = x
          /\ \A c \in 1..Len(h) : g[c] = h[c]
          /\ \A c \in 0..Len(h) : Histories(g)[c] = Histories(h)[c]
          /\ Histories(g)[Len(g)] = {Len(g)} \cup UNION {Histories(h)[p] : p \in Range(x.parents)}
      BY <1>1, <2>1, PastGrows
    <2> HIDE DEF g
    <2>3. QED
      BY <2>2
  <1>3. ASSUME NEW c \in 1..n
        PROVE  c \in 0..n /\ past[c] \subseteq 1..n
    <2>1. past[c] \subseteq 1..c /\ 1..c \subseteq 1..n /\ c \in 0..n
      BY <1>1, PastIsEarlier
    <2>2. QED
      BY <2>1
  <1>4. ASSUME NEW p \in Range(x.parents)
        PROVE  p \in 1..n
    <2>1. x.parents \in [1..Len(x.parents) -> 1..n]
      BY LenProperties DEF Carries
    <2>2. QED
      BY <2>1 DEF Range
  <1>5. \A c \in 1..n : LogOK(c, h[c].log) /\ HasEntries(h, c)
    BY DEF LogsOK
  <1> HIDE DEF g, past, new
  <1>6. ASSUME NEW c \in 1..n
        PROVE  LogOK(c, g[c].log) /\ HasEntries(g, c)
    <2>1. g[c] = h[c] /\ new[c] = past[c] /\ \A d \in past[c] : g[d] = h[d]
      BY <1>2, <1>3
    <2>2. QED
      BY <1>5, <2>1 DEF HasEntries, past, new
  <1>7. LogOK(n + 1, g[n + 1].log)
    BY <1>2 DEF Carries, n
  <1>8. HasEntries(g, n + 1)
    <2>1. ASSUME NEW d \in new[n + 1], g[d].entry \in {"cited", "plain"}
          PROVE  [by |-> d, kind |-> g[d].entry] \in Entries(x.log)
      <3>1. CASE d = n + 1
        BY <1>2, <2>1, <3>1 DEF Carries, n
      <3>2. CASE d # n + 1
        <4>1. PICK p \in Range(x.parents) : d \in past[p]
          BY <1>2, <3>2
        <4>2. p \in 1..n /\ d \in 1..n
          BY <1>3, <1>4, <4>1
        <4>3. [by |-> d, kind |-> g[d].entry] \in Entries(h[p].log)
          BY <1>2, <1>5, <2>1, <4>1, <4>2 DEF HasEntries, past
        <4>4. QED
          BY <4>3 DEF Carries
      <3>3. QED
        BY <3>1, <3>2
    <2>2. QED
      BY <1>2, <2>1 DEF HasEntries, new
  <1>9. \A c \in 1..Len(g) : c \in 1..n \/ c = n + 1
    BY <1>1, <1>2
  <1>10. LogsOK(g)
    BY <1>2, <1>6, <1>7, <1>8, <1>9 DEF LogsOK
  <1>11. ASSUME LogsDisjoint(h), Disjoint(x.log)
         PROVE  LogsDisjoint(g)
    <2>1. ASSUME NEW c \in 1..Len(g)
          PROVE  Disjoint(g[c].log)
      <3>1. CASE c \in 1..n
        <4>1. Disjoint(h[c].log)
          BY <1>11, <3>1 DEF LogsDisjoint, n
        <4>2. QED
          BY <1>2, <3>1, <4>1
      <3>2. CASE c = n + 1
        BY <1>2, <1>11, <3>2
      <3>3. QED
        BY <1>9, <3>1, <3>2
    <2>2. QED
      BY <2>1 DEF LogsDisjoint
  <1>12. QED
    BY <1>10, <1>11 DEF g

-----------------------------------------------------------------------------
\* Branches are at commits, changelogs are kept, and what passed the guard
\* still does.
Repository ==
    /\ main \in 1..Len(history) /\ side \in 0..Len(history)
    /\ LogsOK(history) /\ (byHand \/ LogsDisjoint(history))

\* The new commit of a step.
LEMMA CommitKeeps ==
    ASSUME Repository, NEW x, Carries(history, x), history' = Append(history, x),
           main' \in {main, New}, side' \in {0, side, New},
           byHand' \/ (~byHand /\ (LogsDisjoint(history) => Disjoint(x.log)))
    PROVE  Repository'
  <1>1. LogsOK(history') /\ (LogsDisjoint(history) /\ Disjoint(x.log) => LogsDisjoint(history'))
    BY LogsGrow DEF Repository
  <1>2. Len(history') = Len(history) + 1 /\ Len(history) \in Nat
    <2>1. Rooted(history) /\ x.parents \in Seq(1..Len(history))
      BY DEF Repository, LogsOK, Carries
    <2>2. QED
      BY <2>1, PastGrows, RootedFacts
  <1>3. main' \in 1..Len(history') /\ side' \in 0..Len(history')
    BY <1>2 DEF Repository, New
  <1>4. byHand' \/ LogsDisjoint(history')
    BY <1>1 DEF Repository
  <1>5. QED
    BY <1>1, <1>3, <1>4 DEF Repository

LEMMA RepositoryFacts ==
    ASSUME Repository
    PROVE  /\ Len(history) \in Nat /\ New \in Nat /\ New = Len(history) + 1
           /\ \A c \in 1..Len(history) : /\ c \in Nat /\ c <= New /\ LogOK(c, Log(c)) /\ LogOK(New, Log(c))
                                         /\ Entries(Log(c)) \subseteq [by : 1..Len(history), kind : Kind]
  <1>1. Len(history) \in Nat /\ New \in Nat /\ New = Len(history) + 1
    BY RootedFacts DEF Repository, LogsOK, New
  <1>2. ASSUME NEW c \in 1..Len(history)
        PROVE  /\ c \in Nat /\ c <= New /\ LogOK(c, Log(c)) /\ LogOK(New, Log(c))
               /\ Entries(Log(c)) \subseteq [by : 1..Len(history), kind : Kind]
    <2>1. c \in Nat /\ c <= New /\ c <= Len(history)
      BY <1>1
    <2>2. LogOK(c, Log(c))
      BY DEF Repository, LogsOK, Log
    <2>3. LogOK(New, Log(c)) /\ LogOK(Len(history), Log(c))
      BY <1>1, <2>1, <2>2, SectionsGrow
    <2>4. QED
      BY <1>1, <2>1, <2>2, <2>3, LogFacts
  <1>3. QED
    BY <1>1, <1>2

\* A pull request's work.
LEMMA WorkKeeps ==
    ASSUME Repository, NEW kind \in Kinds, WorkOnMain(kind) \/ Branch(kind) \/ WorkOnSide(kind)
    PROVE  Repository'
  <1> DEFINE n == Len(history)
  <1>1. PICK head \in {main, side} : Work(head, kind) /\ (head = main \/ side # 0)
    BY DEF WorkOnMain, Branch, WorkOnSide
  <1>2. head \in 1..n /\ n \in Nat /\ LogOK(New, Log(head)) /\ New = n + 1 /\ New \in Nat
    BY <1>1, RepositoryFacts DEF Repository
  <1> DEFINE entry == [by |-> New, kind |-> kind]
             i == UnreleasedAt(Log(head))
             log == Added(Log(head), i, {entry})
             x == [parents |-> <<head>>, own |-> TRUE, crate |-> history[head].crate, entry |-> kind, log |-> log]
  <1>3. i \in 1..Len(Log(head)) /\ {entry} \in SUBSET [by : 1..New, kind : Kind]
    BY <1>2, LogFacts DEF Kind
  <1>4. /\ LogOK(New, log) /\ Entries(log) = Entries(Log(head)) \cup {entry}
        /\ Disjoint(Log(head)) /\ Entries(Log(head)) \cap {entry} = {} => Disjoint(log)
    BY <1>2, <1>3, AddFacts
  <1>5. Entries(Log(head)) \cap {entry} = {}
    <2>1. Entries(Log(head)) \subseteq [by : 1..n, kind : Kind]
      BY <1>2, RepositoryFacts
    <2>2. New \notin 1..n
      BY <1>2
    <2>3. QED
      BY <2>1, <2>2
  <1>6. history' = Append(history, x)
    BY <1>1 DEF Work, Commit, Insert, Added
  <1>7. x.parents = <<head>> /\ x.log = log /\ x.entry = kind
    OBVIOUS
  <1> HIDE DEF log, x
  <1>8. Carries(history, x)
    <2>1. <<head>> \in Seq(1..n) /\ Range(<<head>>) = {head}
      BY <1>2 DEF Range
    <2>2. QED
      BY <1>2, <1>4, <1>7, <2>1 DEF Carries, Log
  <1>9. LogsDisjoint(history) => Disjoint(log)
    BY <1>2, <1>4, <1>5 DEF LogsDisjoint, Log
  <1>10. main' \in {main, New} /\ side' \in {0, side, New} /\ byHand' = byHand
    BY DEF WorkOnMain, Branch, WorkOnSide
  <1>11. byHand' \/ (~byHand /\ (LogsDisjoint(history) => Disjoint(x.log)))
    BY <1>7, <1>9, <1>10
  <1>12. QED
    BY <1>6, <1>8, <1>10, <1>11, CommitKeeps

\* A merge of two branches, one way or the other.
LEMMA MergedFacts ==
    ASSUME Repository, NEW head \in 1..Len(history), NEW other \in 1..Len(history),
           NEW log \in MergedLog(head, other)
    PROVE  /\ LogOK(New, log) /\ Entries(log) = Entries(Log(head)) \cup Entries(Log(other))
           /\ LogsDisjoint(history) => Disjoint(log)
  <1> DEFINE new == Entries(Log(other)) \ Entries(Log(head))
  <1>1. /\ New \in Nat /\ New = Len(history) + 1 /\ Len(history) \in Nat
        /\ LogOK(New, Log(head)) /\ LogOK(New, Log(other))
    BY RepositoryFacts
  <1>2. PICK i \in 1..Len(Log(head)) : log = Added(Log(head), i, new)
    <2>1. UnreleasedAt(Log(head)) \in 1..Len(Log(head)) /\ DOMAIN Log(head) = 1..Len(Log(head))
      BY <1>1, LogFacts
    <2>2. QED
      BY <2>1 DEF MergedLog, Added
  <1>3. new \in SUBSET [by : 1..New, kind : Kind]
    <2>1. Entries(Log(other)) \subseteq [by : 1..New, kind : Kind]
      BY <1>1, LogFacts
    <2>2. QED
      BY <2>1
  <1>4. /\ LogOK(New, log) /\ Entries(log) = Entries(Log(head)) \cup new
        /\ Disjoint(Log(head)) /\ Entries(Log(head)) \cap new = {} => Disjoint(log)
    BY <1>1, <1>2, <1>3, AddFacts
  <1>5. QED
    BY <1>4 DEF LogsDisjoint, Log

LEMMA MergeKeeps ==
    ASSUME Repository, NEW own \in BOOLEAN, MergeSide(own) \/ CatchUp(own)
    PROVE  Repository'
  <1> DEFINE n == Len(history)
  <1>1. PICK first \in 1..n, second \in 1..n, log \in MergedLog(main, side) :
           /\ side # 0 /\ {main, side} = {first, second}
           /\ history' = Append(history, [parents |-> <<first, second>>, own |-> own, crate |-> history[main].crate,
                                          entry |-> NoEntry, log |-> log])
    <2>1. side # 0 => main \in 1..n /\ side \in 1..n
      BY RepositoryFacts DEF Repository
    <2>2. CASE MergeSide(own)
      <3>1. /\ side # 0
            /\ \E log \in MergedLog(main, side) :
                 history' = Append(history, [parents |-> <<main, side>>, own |-> own, crate |-> history[main].crate,
                                             entry |-> NoEntry, log |-> log])
        BY <2>2 DEF MergeSide, Merge, Commit
      <3>2. QED
        BY <2>1, <3>1
    <2>3. CASE CatchUp(own)
      <3>1. /\ side # 0
            /\ \E log \in MergedLog(main, side) :
                 history' = Append(history, [parents |-> <<side, main>>, own |-> own, crate |-> history[main].crate,
                                             entry |-> NoEntry, log |-> log])
        BY <2>3 DEF CatchUp, Commit
      <3>2. QED
        BY <2>1, <3>1
    <2>4. QED
      BY <2>2, <2>3
  <1>2. main \in 1..n /\ side \in 1..n /\ New = n + 1
    BY <1>1, RepositoryFacts DEF Repository
  <1>3. /\ LogOK(New, log) /\ Entries(log) = Entries(Log(main)) \cup Entries(Log(side))
        /\ LogsDisjoint(history) => Disjoint(log)
    BY <1>1, <1>2, MergedFacts
  <1> DEFINE x == [parents |-> <<first, second>>, own |-> own, crate |-> history[main].crate, entry |-> NoEntry, log |-> log]
  <1>4. x.parents = <<first, second>> /\ x.log = log /\ x.entry = NoEntry
    OBVIOUS
  <1>5. history' = Append(history, x)
    BY <1>1
  <1> HIDE DEF x
  <1>6. Carries(history, x)
    <2>1. <<first, second>> \in Seq(1..n) /\ Range(<<first, second>>) = {first, second}
      BY <1>2 DEF Range
    <2>2. NoEntry \notin {"cited", "plain"}
      BY DEF NoEntry
    <2>3. \A p \in {first, second} : Entries(Log(p)) \subseteq Entries(log)
      BY <1>1, <1>3
    <2>4. QED
      BY <1>2, <1>3, <1>4, <2>1, <2>2, <2>3 DEF Carries, Log
  <1>7. main' \in {main, New} /\ side' \in {0, side, New} /\ byHand' = byHand
    BY DEF MergeSide, CatchUp
  <1>8. byHand' \/ (~byHand /\ (LogsDisjoint(history) => Disjoint(x.log)))
    BY <1>3, <1>4, <1>7
  <1>9. QED
    BY <1>5, <1>6, <1>7, <1>8, CommitKeeps

\* A commit that prepares a version.
LEMMA PrepareKeeps ==
    ASSUME Repository, NEW v, NEW log, Prepare(v, log), LogOK(New, log), Entries(Log(main)) \subseteq Entries(log),
           byHand' \/ (~byHand /\ (LogsDisjoint(history) => Disjoint(log)))
    PROVE  Repository'
  <1>1. PICK crate : history' = Append(history, [parents |-> <<main>>, own |-> TRUE, crate |-> crate,
                                                 entry |-> NoEntry, log |-> log])
    BY DEF Prepare, Commit
  <1> DEFINE x == [parents |-> <<main>>, own |-> TRUE, crate |-> crate, entry |-> NoEntry, log |-> log]
  <1>2. x.parents = <<main>> /\ x.log = log /\ x.entry = NoEntry
    OBVIOUS
  <1>3. history' = Append(history, x)
    BY <1>1
  <1> HIDE DEF x
  <1>4. Carries(history, x)
    <2>1. <<main>> \in Seq(1..Len(history)) /\ Range(<<main>>) = {main}
      BY DEF Range, Repository
    <2>2. NoEntry \notin {"cited", "plain"} /\ New = Len(history) + 1
      BY RepositoryFacts DEF NoEntry
    <2>3. QED
      BY <1>2, <2>1, <2>2 DEF Carries, Log
  <1>5. main' \in {main, New} /\ side' \in {0, side, New}
    BY DEF Prepare
  <1>6. QED
    BY <1>2, <1>3, <1>4, <1>5, CommitKeeps

LEMMA FoldKeeps ==
    ASSUME Repository, NEW v \in Versions, Fold(v)
    PROVE  Repository'
  <1>1. MayFold(Log(main), v) /\ Prepare(v, Folded(Log(main), v)) /\ byHand' = byHand
    BY DEF Fold
  <1>2. main \in 1..Len(history)
    BY DEF Repository
  <1>3. LogOK(New, Log(main)) /\ New \in Nat
    BY <1>2, RepositoryFacts
  <1>4. /\ LogOK(New, Folded(Log(main), v)) /\ Entries(Folded(Log(main), v)) = Entries(Log(main))
        /\ Disjoint(Log(main)) => Disjoint(Folded(Log(main), v))
    BY <1>1, <1>3, FoldFacts
  <1>5. byHand' \/ (~byHand /\ (LogsDisjoint(history) => Disjoint(Folded(Log(main), v))))
    BY <1>1, <1>2, <1>4 DEF LogsDisjoint, Log
  <1>6. QED
    BY <1>1, <1>4, <1>5, PrepareKeeps

LEMMA PrepareByHandKeeps ==
    ASSUME Repository, NEW v \in Versions, PrepareByHand(v)
    PROVE  Repository'
  <1> DEFINE log == Log(main)
             at == UnreleasedAt(log)
  <1>1. main \in 1..Len(history)
    BY DEF Repository
  <1>2. LogOK(New, log) /\ New \in Nat
    BY <1>1, RepositoryFacts
  <1>3. at \in 1..Len(log) /\ log[at] \in Section(New) /\ Len(log) \in Nat
    BY <1>2, LogFacts
  <1>4. byHand'
    BY DEF PrepareByHand
  <1>5. v \in Nat
    BY ReleaseAssumption
  <1>6. ASSUME NEW taken \in SUBSET log[at].entries, NEW kept \in BOOLEAN, NEW place \in {at, at + 1},
               Prepare(v, InsertAt([log EXCEPT ![at].entries = IF kept THEN @ ELSE @ \ taken],
                                   place, [version |-> v, entries |-> taken]))
        PROVE  Repository'
    <2> DEFINE rest == Without(log, at, taken, kept)
               section == [version |-> v, entries |-> taken]
               new == InsertAt(rest, place, section)
    <2>1. LogOK(New, rest) /\ Len(rest) = Len(log) /\ Entries(log) \subseteq Entries(rest) \cup taken
      BY <1>2, <1>3, TakeFacts
    <2>2. section \in Section(New) /\ section.entries = taken
      <3>1. log[at].entries \in SUBSET [by : 1..New, kind : Kind]
        BY <1>3 DEF Section
      <3>2. taken \in SUBSET [by : 1..New, kind : Kind]
        BY <3>1
      <3>3. QED
        BY <1>5, <3>2 DEF Section
    <2>3. place \in 1..(Len(rest) + 1)
      BY <1>3, <2>1
    <2>4. Prepare(v, new)
      BY <1>6 DEF Without
    <2> HIDE DEF rest, section
    <2>5. LogOK(New, new) /\ Entries(rest) \subseteq Entries(new) /\ section.entries \subseteq Entries(new)
      BY <1>2, <2>1, <2>2, <2>3, InsertFacts
    <2>6. Entries(log) \subseteq Entries(new)
      BY <2>1, <2>2, <2>5
    <2> HIDE DEF new
    <2>7. QED
      BY <1>4, <2>4, <2>5, <2>6, PrepareKeeps
  <1>7. ASSUME Prepare(v, InsertAt(log, at, [version |-> Odd, entries |-> {}]))
        PROVE  Repository'
    <2> DEFINE section == [version |-> Odd, entries |-> {}]
               new == InsertAt(log, at, section)
    <2>1. section \in Section(New)
      BY DEF Section
    <2>2. at \in 1..(Len(log) + 1)
      BY <1>3
    <2>3. Prepare(v, new)
      BY <1>7
    <2> HIDE DEF section
    <2>4. LogOK(New, new) /\ Entries(log) \subseteq Entries(new)
      BY <1>2, <2>1, <2>2, InsertFacts
    <2> HIDE DEF new
    <2>5. QED
      BY <1>4, <2>3, <2>4, PrepareKeeps
  <1>8. QED
    BY <1>6, <1>7 DEF PrepareByHand

-----------------------------------------------------------------------------
\* What passed the guard still does: its commit is as it was.
Guarded == \A v \in Versions : Passed(v) => GuardPasses(Log(tags[v]), v)

LEMMA GuardedStays ==
    ASSUME IInv, Guarded, Next
    PROVE  Guarded'
  <1>1. CASE Commits
    <2>1. PICK c : history' = Append(history, c)
      BY <1>1 DEF Commits
    <2>2. \A i \in 1..Len(history) : history'[i] = history[i]
      BY <2>1, HistoryGrows DEF IInv
    <2>3. tags' = tags /\ run' = run
      BY <1>1 DEF Commits, releaseVars
    <2>4. ASSUME NEW v \in Versions, Passed(v)
          PROVE  Log(tags[v])' = Log(tags[v])
      <3>1. tags[v] \in 1..Len(history)
        <4>1. tags[v] \in 0..Len(history) /\ tags[v] # 0 /\ Len(history) \in Nat
          BY <2>1, <2>4, HistoryGrows DEF IInv, Typed, Passed
        <4>2. QED
          BY <4>1
      <3>2. QED
        BY <2>2, <2>3, <3>1 DEF Log
    <2>5. QED
      BY <2>3, <2>4 DEF Guarded, Passed
  <1>2. ASSUME NEW v \in Versions,
               \/ PushTag(v) \/ MoveTag(v) \/ RunAgain(v) \/ Guard(v) \/ Publish(v) \/ Fails(v)
        PROVE  Guarded'
    <2>1. /\ history' = history
          /\ \A u \in Versions : u # v => tags'[u] = tags[u] /\ run'[u] = run[u]
      BY <1>2 DEF PushTag, MoveTag, Push, RunAgain, Guard, Publish, Fails, Goes, IInv, Typed
    <2>2. ASSUME Passed(v)'
          PROVE  GuardPasses(Log(tags[v]), v)'
      <3>1. CASE PushTag(v) \/ MoveTag(v) \/ RunAgain(v) \/ Fails(v)
        <4>1. run'[v] \in {At("guard"), At("failed")}
          BY <3>1 DEF PushTag, MoveTag, Push, RunAgain, Fails, Goes, IInv, Typed
        <4>2. QED
          BY <2>2, <4>1 DEF Passed, At
      <3>2. CASE Guard(v)
        <4>1. tags' = tags /\ run'[v] = At(IF GuardPasses(Log(tags[v]), v) THEN "publish" ELSE "failed")
          BY <3>2 DEF Guard, Goes, IInv, Typed
        <4>2. GuardPasses(Log(tags[v]), v)
          BY <2>2, <4>1 DEF Passed, At
        <4>3. QED
          BY <2>1, <4>1, <4>2 DEF Log
      <3>3. CASE Publish(v)
        <4>1. tags' = tags /\ GuardPasses(Log(tags[v]), v)
          BY <3>3 DEF Publish, Guarded, Passed
        <4>2. QED
          BY <2>1, <4>1 DEF Log
      <3>4. QED
        BY <1>2, <3>1, <3>2, <3>3
    <2>3. ASSUME NEW u \in Versions, u # v
          PROVE  Passed(u)' => GuardPasses(Log(tags[u]), u)'
      BY <2>1, <2>3 DEF Guarded, Passed, Log
    <2>4. QED
      BY <2>2, <2>3 DEF Guarded
  <1>3. QED
    BY <1>1, <1>2, RepositorySteps DEF Next

LEMMA RepositoryStays ==
    ASSUME Repository, Next
    PROVE  Repository'
  <1>1. ASSUME NEW v \in Versions,
               \/ PushTag(v) \/ MoveTag(v) \/ RunAgain(v) \/ Guard(v) \/ Publish(v) \/ Fails(v)
        PROVE  Repository'
    <2>1. history' = history /\ main' = main /\ side' = side /\ byHand' = byHand
      BY <1>1 DEF PushTag, MoveTag, Push, RunAgain, Guard, Publish, Fails
    <2>2. QED
      BY <2>1 DEF Repository
  <1>2. QED
    BY <1>1, WorkKeeps, MergeKeeps, FoldKeeps, PrepareByHandKeeps DEF Next

LEMMA LogsInit ==
    ASSUME Init
    PROVE  Repository /\ Guarded
  <1> DEFINE entry == [by |-> 1, kind |-> "cited"]
             section == [version |-> Unreleased, entries |-> {entry}]
             log == <<section>>
             x == [parents |-> <<>>, own |-> TRUE, crate |-> 0, entry |-> "cited", log |-> log]
  <1>1. history = <<x>> /\ main = 1 /\ side = 0
    BY DEF Init
  <1>2. /\ x.parents = <<>> /\ x.entry = "cited" /\ x.log = log
        /\ section.version = Unreleased /\ section.entries = {entry}
    OBVIOUS
  <1>3. section \in Section(1)
    BY DEF Section, Kind, Unreleased
  <1> HIDE DEF section, entry
  <1>4. /\ log \in Seq(Section(1)) /\ Len(log) = 1 /\ log[1] = section /\ DOMAIN log = {1}
    BY <1>3
  <1> HIDE DEF log
  <1>5. LogOK(1, log) /\ Disjoint(log) /\ Entries(log) = {entry}
    <2>1. LogOK(1, log)
      BY <1>2, <1>4 DEF LogOK
    <2>2. Entries(log) = {entry}
      BY <1>2, <1>4 DEF Entries, Range
    <2>3. Disjoint(log)
      BY <1>4 DEF Disjoint
    <2>4. QED
      BY <2>1, <2>2, <2>3
  <1> HIDE DEF x
  <1>6. Len(history) = 1 /\ history[1] = x /\ \E S : history \in Seq(S)
    <2>1. history \in Seq({x}) /\ Len(history) = 1 /\ history[1] = x
      BY <1>1
    <2>2. QED
      BY <2>1
  <1>7. \A c \in 1..1 : c = 1
    OBVIOUS
  <1>8. Rooted(history)
    <2>1. x.parents \in Seq(1..(1 - 1))
      BY <1>2
    <2>2. QED
      BY <1>6, <1>7, <2>1 DEF Rooted
  <1>9. HasEntries(history, 1)
    <2>1. Histories(history)[1] \subseteq {1}
      <3>1. 1 \in 1..Len(history)
        BY <1>6
      <3>2. Histories(history)[1] \subseteq 1..1
        BY <1>8, <3>1, PastIsEarlier
      <3>3. QED
        BY <3>2
    <2>2. [by |-> 1, kind |-> history[1].entry] \in Entries(history[1].log)
      BY <1>2, <1>5, <1>6 DEF entry
    <2>3. QED
      BY <2>1, <2>2 DEF HasEntries
  <1>10. LogsOK(history) /\ LogsDisjoint(history)
    BY <1>2, <1>5, <1>6, <1>7, <1>8, <1>9 DEF LogsOK, LogsDisjoint
  <1>11. Guarded
    BY DEF Init, Guarded, Passed, At
  <1>12. QED
    BY <1>1, <1>6, <1>10, <1>11 DEF Repository

LEMMA LogsStaySound == Spec => [](Repository /\ Guarded)
  <1>1. ASSUME IInv, Repository, Guarded, [Next]_vars
        PROVE  Repository' /\ Guarded'
    <2>1. CASE Next
      BY <1>1, <2>1, RepositoryStays, GuardedStays
    <2>2. CASE UNCHANGED vars
      BY <1>1, <2>2 DEF vars, Repository, Guarded, Passed, Log
    <2>3. QED
      BY <1>1, <2>1, <2>2
  <1>2. QED
    BY Inductive, LogsInit, <1>1, PTL DEF Spec

\* A tag that is past the guard reports every entry with a number or under a
\* heading that any of its commits wrote (check_changelog.py).
THEOREM TagsStayHonest == Spec => []TagsReportTheirEntries
  <1>1. ASSUME IInv, Repository, Guarded
        PROVE  TagsReportTheirEntries
    <2>1. SUFFICES ASSUME NEW v \in Versions, Passed(v), NEW c \in Histories(history)[tags[v]],
                          history[c].entry \in {"cited", "plain"}
                   PROVE  \E s \in Released(Log(tags[v])) : [by |-> c, kind |-> history[c].entry] \in s.entries
      BY DEF TagsReportTheirEntries
    <2> DEFINE t == tags[v]
               log == Log(t)
               e == [by |-> c, kind |-> history[c].entry]
    <2>2. t \in 1..Len(history)
      <3>1. t \in 0..Len(history) /\ t # 0 /\ Len(history) \in Nat
        BY <1>1, <2>1, RepositoryFacts DEF IInv, Typed, Passed
      <3>2. QED
        BY <3>1
    <2>3. LogOK(New, log) /\ New \in Nat /\ HasEntries(history, t)
      BY <1>1, <2>2, RepositoryFacts DEF Repository, LogsOK
    <2>4. e \in Entries(log)
      BY <2>1, <2>3 DEF HasEntries, Log
    <2>5. PICK i \in 1..Len(log) : e \in log[i].entries
      BY <2>3, <2>4, LogFacts
    <2>6. GuardPasses(log, v)
      BY <1>1, <2>1 DEF Guarded
    <2>7. i # 1
      <3>1. e.kind # "loose"
        BY <2>1
      <3>2. QED
        BY <2>5, <2>6, <3>1 DEF GuardPasses
    <2>8. i \in DOMAIN log
      BY <2>3, LogFacts
    <2>9. log[i].version # Unreleased
      BY <2>6, <2>7, <2>8 DEF GuardPasses, Conforms
    <2>10. QED
      BY <2>5, <2>8, <2>9 DEF Released
  <1>2. QED
    BY Inductive, LogsStaySound, <1>1, PTL

\* What fold writes passes the guard for its version and has every entry, and
\* while all versions are folded no entry stands in two sections.
THEOREM FoldsStayConforming == Spec => []FoldsConform
  <1>1. ASSUME Repository
        PROVE  FoldsConform
    <2>1. Latest \in 1..Len(history)
      BY <1>1, RepositoryFacts DEF Repository, Latest
    <2>2. LogOK(New, Log(Latest)) /\ New \in Nat
      BY <1>1, <2>1, RepositoryFacts
    <2>3. \A v \in Versions : MayFold(Log(Latest), v) =>
            GuardPasses(Folded(Log(Latest), v), v) /\ Entries(Folded(Log(Latest), v)) = Entries(Log(Latest))
      BY <2>2, FoldFacts
    <2>4. byHand \/ Disjoint(Log(Latest))
      BY <1>1, <2>1 DEF Repository, LogsDisjoint, Log
    <2>5. QED
      BY <2>3, <2>4 DEF FoldsConform, Disjoint
  <1>2. QED
    BY LogsStaySound, <1>1, PTL

-----------------------------------------------------------------------------
(* What git prints, and what is made of it. *)

Blocks == [commit : Nat, lines : {L \in SUBSET Nat : IsFiniteSet(L)}]
Sums == [commits : SUBSET Nat, added : Nat]
Nothing == [commits |-> {}, added |-> 0]

SumAt(f, s, i) == IF i = 0 THEN Nothing ELSE Counted(f[i - 1], s[i])
IsSum(f, s, n) == f = [i \in 0..n |-> SumAt(f, s, i)]

LEMMA SumIsDefined ==
    ASSUME NEW s, NEW n \in Nat
    PROVE  \E f : IsSum(f, s, n)
  <1> DEFINE T == {k \in Nat : \E f : IsSum(f, s, k)}
  <1>1. 0 \in T
    <2>1. IsSum([i \in 0..0 |-> Nothing], s, 0)
      BY DEF IsSum, SumAt
    <2>2. QED
      BY <2>1
  <1>2. ASSUME NEW k \in Nat, k \in T
        PROVE  k + 1 \in T
    <2>1. PICK f : IsSum(f, s, k)
      BY <1>2
    <2> DEFINE g == [i \in 0..(k + 1) |-> SumAt(f, s, i)]
    <2>2. \A i \in 0..k : g[i] = f[i]
      BY <2>1 DEF IsSum
    <2>3. \A i \in 0..(k + 1) : SumAt(f, s, i) = SumAt(g, s, i)
      <3> HIDE DEF g
      <3>1. \A i \in 0..(k + 1) : i # 0 => i - 1 \in 0..k
        OBVIOUS
      <3>2. QED
        BY <2>2, <3>1 DEF SumAt
    <2>4. IsSum(g, s, k + 1)
      <3>1. [i \in 0..(k + 1) |-> SumAt(f, s, i)] = [i \in 0..(k + 1) |-> SumAt(g, s, i)]
        <4> HIDE DEF g
        <4>1. QED
          BY <2>3
      <3>2. QED
        BY <3>1 DEF IsSum
    <2>5. QED
      BY <2>4
  <1>3. Nat \subseteq T
    <2> HIDE DEF T
    <2>1. QED
      BY <1>1, <1>2, Induction
  <1>4. QED
    BY <1>3

\* Two sums agree where their blocks do.
LEMMA SumsAgree ==
    ASSUME NEW s, NEW t, NEW n \in Nat, NEW m \in Nat, NEW f, NEW g, IsSum(f, s, n), IsSum(g, t, m),
           NEW k \in Nat, k <= n, k <= m, \A i \in 1..k : s[i] = t[i]
    PROVE  f[k] = g[k]
  <1> DEFINE T == {j \in Nat : j <= k => f[j] = g[j]}
  <1>1. \A j \in 0..n : f[j] = SumAt(f, s, j)
    BY DEF IsSum
  <1>2. \A j \in 0..m : g[j] = SumAt(g, t, j)
    BY DEF IsSum
  <1>3. 0 \in T
    <2>1. 0 \in 0..n /\ 0 \in 0..m
      OBVIOUS
    <2>2. f[0] = SumAt(f, s, 0) /\ g[0] = SumAt(g, t, 0)
      BY <1>1, <1>2, <2>1
    <2>3. f[0] = Nothing /\ g[0] = Nothing
      BY <2>2 DEF SumAt
    <2>4. QED
      BY <2>3
  <1>4. ASSUME NEW j \in Nat, j \in T, j + 1 <= k
        PROVE  f[j + 1] = g[j + 1]
    <2>1. f[j] = g[j] /\ j + 1 \in 0..n /\ j + 1 \in 0..m /\ j + 1 \in 1..k /\ (j + 1) - 1 = j /\ j + 1 # 0
      BY <1>4
    <2> DEFINE i == j + 1
    <2> HIDE DEF i
    <2>2. f[i] = SumAt(f, s, i) /\ g[i] = SumAt(g, t, i) /\ s[i] = t[i] /\ i - 1 = j /\ i # 0
      BY <1>1, <1>2, <2>1 DEF i
    <2>3. f[i] = g[i]
      BY <2>1, <2>2 DEF SumAt
    <2>4. QED
      BY <2>3 DEF i
  <1>5. Nat \subseteq T
    <2> HIDE DEF T
    <2>1. \A j \in Nat : j \in T => j + 1 \in T
      BY <1>4 DEF T
    <2>2. QED
      BY <1>3, <2>1, Induction
  <1>6. QED
    BY <1>5

LEMMA ParsedIsSum ==
    ASSUME NEW s \in Seq(Blocks)
    PROVE  \E f : IsSum(f, s, Len(s)) /\ Parsed(s) = f[Len(s)]
  <1>1. \E f : IsSum(f, s, Len(s))
    BY SumIsDefined, LenProperties
  <1>2. Parsed(s) = (CHOOSE f : IsSum(f, s, Len(s)))[Len(s)]
    BY DEF Parsed, IsSum, SumAt, Nothing
  <1>3. QED
    BY <1>1, <1>2

\* One block more.
LEMMA ParsedAppend ==
    ASSUME NEW s \in Seq(Blocks), NEW b \in Blocks
    PROVE  Parsed(Append(s, b)) = Counted(Parsed(s), b)
  <1> DEFINE t == Append(s, b)
             n == Len(s)
  <1>1. n \in Nat /\ t \in Seq(Blocks) /\ Len(t) = n + 1 /\ t[n + 1] = b /\ \A i \in 1..n : t[i] = s[i]
    BY AppendProperties, LenProperties
  <1> HIDE DEF t, n
  <1>2. PICK f : IsSum(f, s, n) /\ Parsed(s) = f[n]
    BY ParsedIsSum DEF n
  <1>3. PICK g : IsSum(g, t, n + 1) /\ Parsed(t) = g[n + 1]
    BY <1>1, ParsedIsSum
  <1>4. f[n] = g[n]
    BY <1>1, <1>2, <1>3, SumsAgree
  <1>5. g[n + 1] = SumAt(g, t, n + 1)
    <2>1. n + 1 \in 0..(n + 1)
      BY <1>1
    <2>2. g = [i \in 0..(n + 1) |-> SumAt(g, t, i)]
      BY <1>3 DEF IsSum
    <2>3. QED
      BY <2>1, <2>2, Zenon
  <1>6. SumAt(g, t, n + 1) = Counted(g[n], t[n + 1])
    BY <1>1 DEF SumAt
  <1>7. QED
    BY <1>1, <1>2, <1>3, <1>4, <1>5, <1>6 DEF t

LEMMA ParsedEmpty == Parsed(<<>>) = Nothing
  <1>1. <<>> \in Seq(Blocks) /\ Len(<<>>) = 0
    BY EmptySeq
  <1>2. PICK f : IsSum(f, <<>>, 0) /\ Parsed(<<>>) = f[0]
    BY <1>1, ParsedIsSum
  <1>3. f[0] = SumAt(f, <<>>, 0)
    BY <1>2 DEF IsSum
  <1>4. QED
    BY <1>2, <1>3 DEF SumAt

\* The blocks of one commit that was not printed before: the first one counts.
LEMMA ParsedConcat ==
    ASSUME NEW s \in Seq(Blocks), NEW t \in Seq(Blocks), NEW c, t # <<>>,
           \A i \in 1..Len(t) : t[i].commit = c, c \notin Parsed(s).commits
    PROVE  Parsed(s \o t) = [commits |-> Parsed(s).commits \cup {c},
                             added |-> Parsed(s).added + Cardinality(t[1].lines)]
  <1> DEFINE sum == [commits |-> Parsed(s).commits \cup {c},
                     added |-> Parsed(s).added + Cardinality(t[1].lines)]
             n == Len(t)
             cut(k) == SubSeq(t, 1, k)
             T == {k \in Nat : k + 1 <= n => Parsed(s \o cut(k + 1)) = sum}
  <1>1. n \in Nat /\ n >= 1 /\ \A i \in 1..n : t[i] \in Blocks
    BY EmptySeq, LenProperties
  <1>2. ASSUME NEW k \in Nat, k + 1 <= n
        PROVE  /\ s \o cut(k) \in Seq(Blocks)
               /\ s \o cut(k + 1) = Append(s \o cut(k), t[k + 1])
    <2>1. k + 1 \in 1..n /\ k \in Int /\ 1 \in Int /\ k + 1 \in Int
      BY <1>1, <1>2
    <2>2. /\ cut(k) \in Seq(Blocks) /\ Len(cut(k)) = k /\ \A i \in 1..k : cut(k)[i] = t[i]
      <3>1. \A i \in 1..k : t[i] \in Blocks
        BY <1>1, <1>2
      <3>2. /\ SubSeq(t, 1, k) \in Seq(Blocks) /\ Len(SubSeq(t, 1, k)) = (IF 1 <= k THEN k - 1 + 1 ELSE 0)
            /\ \A i \in 1..(k - 1 + 1) : SubSeq(t, 1, k)[i] = t[1 + i - 1]
        BY <2>1, <3>1, SubSeqProperties
      <3> DEFINE u == SubSeq(t, 1, k)
      <3> HIDE DEF u
      <3>3. u \in Seq(Blocks) /\ Len(u) = k /\ \A i \in 1..k : u[i] = t[i]
        BY <3>2 DEF u
      <3>4. QED
        BY <3>3 DEF u
    <2>3. cut(k + 1) = Append(cut(k), t[k + 1])
      <3>1. \A i \in 1..(k + 1) : t[i] \in Blocks
        BY <1>1, <1>2
      <3>2. /\ SubSeq(t, 1, k + 1) \in Seq(Blocks) /\ Len(SubSeq(t, 1, k + 1)) = (IF 1 <= k + 1 THEN k + 1 - 1 + 1 ELSE 0)
            /\ \A i \in 1..(k + 1 - 1 + 1) : SubSeq(t, 1, k + 1)[i] = t[1 + i - 1]
        BY <2>1, <3>1, SubSeqProperties
      <3> DEFINE u == SubSeq(t, 1, k + 1)
                 w == cut(k)
                 v == Append(w, t[k + 1])
      <3>3. v \in Seq(Blocks) /\ Len(v) = Len(w) + 1 /\ (\A i \in 1..Len(w) : v[i] = w[i])
            /\ v[Len(w) + 1] = t[k + 1]
        <4>1. w \in Seq(Blocks) /\ t[k + 1] \in Blocks
          BY <1>1, <2>1, <2>2
        <4> DEFINE b == t[k + 1]
        <4> HIDE DEF w, b
        <4>2. b \in Blocks
          BY <4>1 DEF b
        <4>3. /\ Append(w, b) \in Seq(Blocks) /\ Len(Append(w, b)) = Len(w) + 1
              /\ \A i \in 1..Len(w) : Append(w, b)[i] = w[i]
              /\ Append(w, b)[Len(w) + 1] = b
          BY <4>1, <4>2, AppendProperties
        <4>4. QED
          BY <4>3 DEF b
      <3>4. Len(w) = k /\ \A i \in 1..k : w[i] = t[i]
        BY <2>2
      <3> HIDE DEF u, v, w
      <3>5. u \in Seq(Blocks) /\ Len(u) = k + 1 /\ \A i \in 1..(k + 1) : u[i] = t[i]
        BY <3>2 DEF u
      <3>6. \A i \in 1..(k + 1) : i \in 1..k \/ i = k + 1
        OBVIOUS
      <3>7. v \in Seq(Blocks) /\ Len(v) = k + 1 /\ \A i \in 1..(k + 1) : v[i] = t[i]
        BY <3>3, <3>4, <3>6
      <3>8. u = v
        BY <3>5, <3>7, SeqEqual
      <3>9. QED
        BY <3>8 DEF u, v
    <2> DEFINE w == cut(k)
               b == t[k + 1]
    <2>4. w \in Seq(Blocks) /\ b \in Blocks
      BY <1>1, <2>1, <2>2
    <2>5. cut(k + 1) = Append(w, b)
      BY <2>3
    <2> HIDE DEF w, b
    <2>6. s \o w \in Seq(Blocks) /\ s \o Append(w, b) = Append(s \o w, b)
      <3>1. Append(w, b) = w \o <<b>> /\ <<b>> \in Seq(Blocks)
        BY <2>4, AppendIsConcat
      <3>2. s \o w \in Seq(Blocks)
        BY <2>4, ConcatProperties
      <3>3. Append(s \o w, b) = (s \o w) \o <<b>>
        BY <2>4, <3>2, AppendIsConcat
      <3>4. (s \o w) \o <<b>> = s \o (w \o <<b>>)
        BY <2>4, <3>1, ConcatAssociative
      <3>5. QED
        BY <3>1, <3>2, <3>3, <3>4
    <2>7. QED
      BY <2>5, <2>6 DEF w, b
  <1>3. 0 \in T
    <2>1. cut(0) = <<>> /\ 1 \in 1..n
      BY <1>1, SubSeqEmpty
    <2>2. s \o cut(0) = s
      BY <2>1, ConcatEmptySeq
    <2>3. s \o cut(0 + 1) = Append(s \o cut(0), t[0 + 1])
      <3> HIDE DEF cut
      <3>1. 0 \in Nat /\ 0 + 1 <= n
        BY <1>1
      <3>2. QED
        BY <1>2, <3>1
    <2> HIDE DEF cut, n
    <2>4. 0 + 1 = 1
      OBVIOUS
    <2>5. Parsed(s \o cut(1)) = Counted(Parsed(s), t[1])
      BY <1>1, <2>1, <2>2, <2>3, <2>4, ParsedAppend
    <2>6. t[1].commit = c
      BY <2>1 DEF n
    <2>7. Counted(Parsed(s), t[1]) = sum
      BY <2>6 DEF Counted
    <2> HIDE DEF sum
    <2>8. QED
      BY <2>4, <2>5, <2>7
  <1>4. ASSUME NEW k \in Nat, k \in T, (k + 1) + 1 <= n
        PROVE  Parsed(s \o cut((k + 1) + 1)) = sum
    <2> DEFINE m == k + 1
    <2>1. m \in Nat /\ m <= n /\ m + 1 <= n /\ m + 1 \in 1..n
      BY <1>1, <1>4
    <2> HIDE DEF cut, n, sum
    <2>2. Parsed(s \o cut(m)) = sum
      BY <1>4, <2>1
    <2> HIDE DEF m
    <2>3. s \o cut(m) \in Seq(Blocks) /\ s \o cut(m + 1) = Append(s \o cut(m), t[m + 1])
      BY <1>2, <2>1
    <2>4. Parsed(s \o cut(m + 1)) = Counted(sum, t[m + 1])
      BY <1>1, <2>1, <2>2, <2>3, ParsedAppend
    <2>5. t[m + 1].commit = c
      BY <2>1 DEF n
    <2>6. c \in sum.commits
      BY DEF sum
    <2>7. Counted(sum, t[m + 1]) = sum
      BY <2>5, <2>6 DEF Counted
    <2>8. QED
      BY <2>4, <2>7 DEF m
  <1>5. Nat \subseteq T
    <2>1. ASSUME NEW k \in Nat, k \in T
          PROVE  k + 1 \in T
      <3> HIDE DEF cut, n, sum
      <3>1. k + 1 \in Nat
        OBVIOUS
      <3>2. (k + 1) + 1 <= n => Parsed(s \o cut((k + 1) + 1)) = sum
        <4> HIDE DEF T
        <4>1. QED
          BY <1>4, <2>1
      <3>3. QED
        BY <3>1, <3>2
    <2> HIDE DEF T
    <2>2. QED
      BY <1>3, <2>1, Induction
  <1>6. cut(n) = t
    BY SubSeqFull
  <1>7. n - 1 \in Nat /\ (n - 1) + 1 = n
    BY <1>1
  <1> HIDE DEF cut, sum
  <1>8. Parsed(s \o cut(n)) = sum
    <2> HIDE DEF n
    <2>1. n - 1 \in T
      BY <1>5, <1>7
    <2>2. (n - 1) + 1 <= n
      BY <1>1
    <2>3. Parsed(s \o cut((n - 1) + 1)) = sum
      BY <2>1, <2>2
    <2>4. QED
      BY <1>7, <2>3
  <1>9. QED
    BY <1>6, <1>8 DEF sum

-----------------------------------------------------------------------------
\* A set that has n, and with each number the one below, has all down to 0.
LEMMA Down ==
    ASSUME NEW n \in Nat, NEW T, n \in T, \A m \in 1..n : m \in T => m - 1 \in T
    PROVE  \A m \in 0..n : m \in T
  <1> DEFINE U == {k \in Nat : k <= n => n - k \in T}
  <1>1. 0 \in U
    <2>1. n - 0 = n
      OBVIOUS
    <2>2. QED
      BY <2>1
  <1>2. ASSUME NEW k \in Nat, k \in U, k + 1 <= n
        PROVE  n - (k + 1) \in T
    <2>1. n - k \in T /\ n - k \in 1..n /\ (n - k) - 1 = n - (k + 1)
      BY <1>2
    <2>2. (n - k) - 1 \in T
      BY <2>1
    <2>3. QED
      BY <2>1, <2>2
  <1>3. Nat \subseteq U
    <2>1. \A k \in Nat : k \in U => k + 1 \in U
      BY <1>2
    <2> HIDE DEF U
    <2>2. QED
      BY <1>1, <2>1, Induction
  <1>4. ASSUME NEW m \in 0..n
        PROVE  m \in T
    <2>1. n - m \in Nat /\ n - m <= n /\ n - (n - m) = m
      OBVIOUS
    <2> DEFINE k == n - m
    <2>2. k \in U
      BY <1>3, <2>1
    <2>3. k \in Nat /\ k <= n /\ n - k = m
      BY <2>1
    <2> HIDE DEF k
    <2>4. n - k \in T
      BY <2>2, <2>3
    <2>5. QED
      BY <2>3, <2>4
  <1>5. QED
    BY <1>4

-----------------------------------------------------------------------------
Shown(f, h, blocks, k) == IF k = 0 THEN <<>> ELSE f[k - 1] \o blocks[Len(h) + 1 - k]
IsShown(f, h, blocks, n) == f = [k \in 0..n |-> Shown(f, h, blocks, k)]

LEMMA PrintedIsDefined ==
    ASSUME NEW h, NEW blocks, NEW n \in Nat
    PROVE  \E f : IsShown(f, h, blocks, n)
  <1> DEFINE T == {k \in Nat : \E f : IsShown(f, h, blocks, k)}
  <1>1. 0 \in T
    <2>1. IsShown([i \in 0..0 |-> <<>>], h, blocks, 0)
      BY DEF IsShown, Shown
    <2>2. QED
      BY <2>1
  <1>2. ASSUME NEW k \in Nat, k \in T
        PROVE  k + 1 \in T
    <2>1. PICK f : IsShown(f, h, blocks, k)
      BY <1>2
    <2> DEFINE g == [i \in 0..(k + 1) |-> Shown(f, h, blocks, i)]
    <2>2. \A i \in 0..k : g[i] = f[i]
      BY <2>1 DEF IsShown
    <2>3. \A i \in 0..(k + 1) : Shown(f, h, blocks, i) = Shown(g, h, blocks, i)
      <3> HIDE DEF g
      <3>1. \A i \in 0..(k + 1) : i # 0 => i - 1 \in 0..k
        OBVIOUS
      <3>2. QED
        BY <2>2, <3>1 DEF Shown
    <2>4. IsShown(g, h, blocks, k + 1)
      <3>1. [i \in 0..(k + 1) |-> Shown(f, h, blocks, i)] = [i \in 0..(k + 1) |-> Shown(g, h, blocks, i)]
        <4> HIDE DEF g
        <4>1. QED
          BY <2>3
      <3>2. QED
        BY <3>1 DEF IsShown
    <2>5. QED
      BY <2>4
  <1>3. Nat \subseteq T
    <2> HIDE DEF T
    <2>1. QED
      BY <1>1, <1>2, Induction
  <1>4. QED
    BY <1>3

\* The sum goes from the newest commit to the oldest: at[m] is what the commits
\* after m add.
LEMMA PrintedAddsUp ==
    ASSUME NEW h, Rooted(h), NEW blocks,
           \A c \in 1..Len(h) : /\ blocks[c] \in Seq(Blocks)
                                /\ \A i \in 1..Len(blocks[c]) : blocks[c][i].commit = c
    PROVE  /\ Parsed(Printed(h, blocks)).commits = {c \in 1..Len(h) : blocks[c] # <<>>}
           /\ \E at \in [0..Len(h) -> Nat] :
                /\ at[Len(h)] = 0 /\ at[0] = Parsed(Printed(h, blocks)).added
                /\ \A m \in 1..Len(h) :
                     /\ blocks[m] = <<>> => at[m - 1] = at[m]
                     /\ blocks[m] # <<>> => at[m - 1] = at[m] + Cardinality(blocks[m][1].lines)
  <1> DEFINE n == Len(h)
  <1>0. n \in Nat
    BY RootedFacts
  <1>1. PICK f : IsShown(f, h, blocks, n)
    BY <1>0, PrintedIsDefined
  <1> DEFINE f0 == CHOOSE g : IsShown(g, h, blocks, n)
  <1>2. IsShown(f0, h, blocks, n)
    BY <1>1
  <1>3. Printed(h, blocks) = f0[n]
    BY DEF Printed, IsShown, Shown
  <1> HIDE DEF f0
  <1>4. f0[0] = <<>> /\ \A m \in 1..n : f0[n - (m - 1)] = f0[n - m] \o blocks[m]
    <2>1. \A k \in 0..n : f0[k] = Shown(f0, h, blocks, k)
      <3>1. f0 = [k \in 0..n |-> Shown(f0, h, blocks, k)]
        BY <1>2 DEF IsShown
      <3>2. QED
        BY <3>1, Zenon
    <2>2. 0 \in 0..n
      BY <1>0
    <2>3. f0[0] = <<>>
      <3>1. f0[0] = Shown(f0, h, blocks, 0)
        BY <2>1, <2>2
      <3>2. QED
        BY <3>1 DEF Shown
    <2>4. ASSUME NEW m \in 1..n
          PROVE  f0[n - (m - 1)] = f0[n - m] \o blocks[m]
      <3> DEFINE k == n - (m - 1)
      <3>1. k \in 0..n /\ k # 0 /\ k - 1 = n - m /\ n + 1 - k = m
        BY <1>0
      <3> HIDE DEF k
      <3>2. f0[k] = f0[k - 1] \o blocks[n + 1 - k]
        BY <2>1, <3>1 DEF Shown
      <3>3. QED
        BY <3>1, <3>2 DEF k
    <2>5. QED
      BY <2>3, <2>4
  <1> DEFINE sum(m) == Parsed(f0[n - m])
             later(m) == {c \in 1..n : c > m /\ blocks[c] # <<>>}
             T == {m \in 0..n : /\ f0[n - m] \in Seq(Blocks) /\ sum(m).added \in Nat
                                /\ sum(m).commits = later(m)}
  <1>5. n \in T
    <2>1. n - n = 0 /\ n \in 0..n
      BY <1>0
    <2>2. f0[n - n] = <<>> /\ <<>> \in Seq(Blocks)
      BY <1>4, <2>1, EmptySeq
    <2>3. sum(n) = Nothing
      BY <2>2, ParsedEmpty
    <2>4. later(n) = {}
      BY <1>0
    <2>5. f0[n - n] \in Seq(Blocks)
      BY <2>2
    <2>6. sum(n).added \in Nat /\ sum(n).commits = later(n)
      BY <2>3, <2>4 DEF Nothing
    <2> HIDE DEF sum, later, n
    <2>7. QED
      BY <2>1, <2>5, <2>6
  <1>6. sum(n).added = 0
    <2>1. n - n = 0
      BY <1>0
    <2>2. sum(n) = Nothing
      BY <1>4, <2>1, ParsedEmpty
    <2>3. QED
      BY <2>2 DEF Nothing
  <1>7. ASSUME NEW m \in 1..n, m \in T
        PROVE  /\ m - 1 \in T
               /\ blocks[m] = <<>> => sum(m - 1).added = sum(m).added
               /\ blocks[m] # <<>> => sum(m - 1).added = sum(m).added + Cardinality(blocks[m][1].lines)
    <2> DEFINE s == f0[n - m]
               t == blocks[m]
    <2>1. s \in Seq(Blocks) /\ Parsed(s).added \in Nat /\ Parsed(s).commits = later(m)
      BY <1>7
    <2>2. t \in Seq(Blocks) /\ \A i \in 1..Len(t) : t[i].commit = m
      BY <1>7
    <2>3. f0[n - (m - 1)] = s \o t
      BY <1>4
    <2>4. m - 1 \in 0..n /\ m \in Nat /\ m \notin later(m)
      BY <1>0
    <2>5. CASE t = <<>>
      <3>1. later(m - 1) = later(m)
        BY <1>0, <2>5
      <3> HIDE DEF s, t, later
      <3>2. s \o t = s
        BY <2>1, <2>5, ConcatEmptySeq
      <3>3. sum(m - 1) = Parsed(s) /\ f0[n - (m - 1)] = s
        BY <2>3, <3>2
      <3>4. sum(m) = Parsed(s)
        BY DEF s
      <3> HIDE DEF sum
      <3>5. m - 1 \in T
        BY <2>1, <2>4, <3>1, <3>3
      <3>6. QED
        BY <2>5, <3>3, <3>4, <3>5 DEF t
    <2>6. CASE t # <<>>
      <3>1. later(m - 1) = later(m) \cup {m}
        BY <1>0, <2>6
      <3>2. 1 \in 1..Len(t) /\ t[1] \in Blocks
        <4> HIDE DEF t
        <4>1. QED
          BY <2>2, <2>6, EmptySeq, LenProperties
      <3>3. Cardinality(t[1].lines) \in Nat
        BY <3>2, FS_CardinalityType DEF Blocks
      <3> HIDE DEF s, t, later
      <3>4. Parsed(s \o t) = [commits |-> Parsed(s).commits \cup {m},
                              added |-> Parsed(s).added + Cardinality(t[1].lines)]
        BY <2>1, <2>2, <2>4, <2>6, ParsedConcat
      <3>5. s \o t \in Seq(Blocks)
        BY <2>1, <2>2, ConcatProperties
      <3>6. sum(m - 1) = Parsed(s \o t) /\ f0[n - (m - 1)] = s \o t
        BY <2>3
      <3>7. sum(m) = Parsed(s)
        BY DEF s
      <3> HIDE DEF sum
      <3>8. sum(m - 1).added = sum(m).added + Cardinality(t[1].lines) /\ sum(m - 1).added \in Nat
        BY <2>1, <3>3, <3>4, <3>6, <3>7
      <3>9. m - 1 \in T
        <4>1. f0[n - (m - 1)] \in Seq(Blocks)
          BY <3>5, <3>6
        <4>2. sum(m - 1).commits = later(m - 1)
          <5>1. Parsed(s \o t).commits = Parsed(s).commits \cup {m}
            BY <3>4
          <5>2. sum(m - 1).commits = Parsed(s \o t).commits
            BY <3>6
          <5>3. QED
            BY <2>1, <3>1, <5>1, <5>2, Zenon
        <4>3. QED
          BY <2>4, <3>8, <4>1, <4>2
      <3>10. QED
        BY <2>6, <3>8, <3>9 DEF t
    <2>7. QED
      BY <2>5, <2>6
  <1>8. \A m \in 0..n : m \in T
    <2> HIDE DEF T, sum
    <2>1. \A m \in 1..n : m \in T => m - 1 \in T
      BY <1>7
    <2> HIDE DEF n
    <2>2. QED
      BY <1>0, <1>5, <2>1, Down
  <1>9. n - 0 = n /\ 0 \in 0..n /\ n \in 0..n
    BY <1>0
  <1>10. sum(0) = Parsed(Printed(h, blocks))
    BY <1>3, <1>9
  <1>11. sum(0).commits = {c \in 1..n : blocks[c] # <<>>}
    <2>1. sum(0).commits = later(0)
      BY <1>8, <1>9
    <2>2. \A c \in 1..n : c > 0
      BY <1>0
    <2>3. later(0) = {c \in 1..n : blocks[c] # <<>>}
      BY <2>2
    <2>4. QED
      BY <2>1, <2>3
  <1> DEFINE at == [m \in 0..n |-> sum(m).added]
  <1>12. at \in [0..n -> Nat]
    BY <1>8
  <1>13. \A m \in 1..n : m - 1 \in 0..n /\ m \in 0..n
    BY <1>0
  <1>14. at[n] = 0 /\ at[0] = sum(0).added
    <2> HIDE DEF sum
    <2>1. QED
      BY <1>6, <1>9
  <1>15. \A m \in 1..n : /\ blocks[m] = <<>> => at[m - 1] = at[m]
                         /\ blocks[m] # <<>> => at[m - 1] = at[m] + Cardinality(blocks[m][1].lines)
    <2> HIDE DEF sum, T
    <2>1. \A m \in 0..n : at[m] = sum(m).added
      OBVIOUS
    <2> HIDE DEF at
    <2>2. QED
      BY <1>7, <1>8, <1>13, <2>1
  <1> HIDE DEF sum, at
  <1>16. QED
    BY <1>10, <1>11, <1>12, <1>14, <1>15

-----------------------------------------------------------------------------
(* The line of a commit: it and its first parent's.                        *)

\* The commit before c on its line, 0 when there is none.
Before(h, c) == IF h[c].parents = <<>> THEN 0 ELSE Head(h[c].parents)

LineAt(f, h, d) ==
    IF d = 0 THEN {}
    ELSE {d} \cup (IF h[d].parents = <<>> THEN {} ELSE f[Head(h[d].parents)])
IsLine(f, h, n) == f = [d \in 0..n |-> LineAt(f, h, d)]
Line(h) == CHOOSE f : IsLine(f, h, Len(h))

LEMMA BeforeFacts ==
    ASSUME NEW h, Rooted(h), NEW c \in 1..Len(h)
    PROVE  /\ Before(h, c) \in 0..(c - 1)
           /\ h[c].parents # <<>> =>
                /\ Before(h, c) = Head(h[c].parents) /\ Before(h, c) \in 1..(c - 1)
                /\ h[c].parents[1] = Before(h, c) /\ Before(h, c) \in Range(h[c].parents)
           /\ Len(h[c].parents) \in Nat
           /\ ~IsMerge(h, c) /\ h[c].parents # <<>> => Range(h[c].parents) = {Before(h, c)}
  <1> DEFINE s == h[c].parents
  <1>1. s \in Seq(1..(c - 1)) /\ c \in Nat /\ Len(h) \in Nat
    BY RootedFacts DEF Rooted
  <1>2. Len(s) \in Nat /\ DOMAIN s = 1..Len(s)
    BY <1>1, LenProperties
  <1>3. CASE s = <<>>
    <2>1. Before(h, c) = 0 /\ 0 \in 0..(c - 1)
      BY <1>1, <1>3 DEF Before
    <2>2. QED
      BY <1>2, <1>3, <2>1
  <1>4. CASE s # <<>>
    <2>1. Head(s) = s[1] /\ Head(s) \in 1..(c - 1) /\ Len(s) >= 1
      <3> HIDE DEF s
      <3>1. Len(s) # 0
        BY <1>1, <1>4, EmptySeq
      <3>2. QED
        BY <1>1, <1>2, <1>4, <3>1, HeadTailProperties, ElementOfSeq
    <2>2. Before(h, c) = Head(s)
      BY <1>4 DEF Before
    <2>3. 1 \in DOMAIN s
      BY <1>2, <2>1
    <2>4. Head(s) \in Range(s)
      BY <2>1, <2>3 DEF Range
    <2>5. Head(s) \in 0..(c - 1)
      BY <1>1, <2>1
    <2>6. ASSUME ~IsMerge(h, c)
          PROVE  Range(s) = {Before(h, c)}
      <3>1. Len(s) = 1
        <4>1. ~(Len(s) > 1)
          BY <2>6 DEF IsMerge
        <4> HIDE DEF s
        <4>2. QED
          BY <1>2, <2>1, <4>1
      <3>2. \A i \in DOMAIN s : i = 1
        BY <1>2, <3>1
      <3> HIDE DEF s
      <3>3. QED
        BY <2>1, <2>2, <2>3, <3>2 DEF Range
    <2>7. QED
      BY <1>2, <2>1, <2>2, <2>4, <2>5, <2>6
  <1>5. QED
    BY <1>3, <1>4

LEMMA LineIsDefined ==
    ASSUME NEW h, Rooted(h)
    PROVE  IsLine(Line(h), h, Len(h))
  <1> DEFINE T == {n \in Nat : n <= Len(h) => \E f : IsLine(f, h, n)}
  <1>0. Len(h) \in Nat
    BY RootedFacts
  <1>1. 0 \in T
    <2>1. IsLine([c \in 0..0 |-> {}], h, 0)
      BY DEF IsLine, LineAt
    <2>2. QED
      BY <2>1
  <1>2. ASSUME NEW n \in Nat, n \in T, n + 1 <= Len(h)
        PROVE  \E f : IsLine(f, h, n + 1)
    <2>1. PICK f : IsLine(f, h, n)
      BY <1>0, <1>2
    <2> DEFINE g == [c \in 0..(n + 1) |-> LineAt(f, h, c)]
    <2>2. \A c \in 0..n : g[c] = f[c]
      BY <2>1 DEF IsLine
    <2>3. ASSUME NEW c \in 0..(n + 1)
          PROVE  LineAt(f, h, c) = LineAt(g, h, c)
      <3> HIDE DEF g
      <3>1. CASE c = 0
        BY <3>1 DEF LineAt
      <3>2. CASE c # 0 /\ h[c].parents = <<>>
        BY <3>2 DEF LineAt
      <3>3. CASE c # 0 /\ h[c].parents # <<>>
        <4>1. c \in 1..Len(h) /\ c - 1 <= n /\ c \in Nat
          BY <1>0, <1>2, <3>3
        <4>2. Head(h[c].parents) \in 1..(c - 1)
          BY <3>3, <4>1, BeforeFacts
        <4>3. Head(h[c].parents) \in 0..n
          BY <4>1, <4>2
        <4>4. QED
          BY <2>2, <4>3 DEF LineAt
      <3>4. QED
        BY <3>1, <3>2, <3>3
    <2>4. IsLine(g, h, n + 1)
      <3>1. [c \in 0..(n + 1) |-> LineAt(f, h, c)] = [c \in 0..(n + 1) |-> LineAt(g, h, c)]
        <4> HIDE DEF g
        <4>1. QED
          BY <2>3
      <3>2. QED
        BY <3>1 DEF IsLine
    <2>5. QED
      BY <2>4
  <1>3. Nat \subseteq T
    <2>1. \A n \in Nat : n \in T => n + 1 \in T
      BY <1>0, <1>2
    <2> HIDE DEF T
    <2>2. QED
      BY <1>1, <2>1, Induction
  <1>4. \E f : IsLine(f, h, Len(h))
    BY <1>0, <1>3
  <1>5. QED
    BY <1>4 DEF Line

LEMMA LineFacts ==
    ASSUME NEW h, Rooted(h)
    PROVE  /\ \A c : Spine(h, c) = Line(h)[c]
           /\ Line(h)[0] = {}
           /\ \A d \in 1..Len(h) : Line(h)[d] = {d} \cup Line(h)[Before(h, d)]
  <1> DEFINE f == Line(h)
  <1>0. Len(h) \in Nat
    BY RootedFacts
  <1>1. \A c : Spine(h, c) = f[c]
    BY DEF Spine, Line, IsLine, LineAt
  <1>2. f = [d \in 0..Len(h) |-> LineAt(f, h, d)]
    BY LineIsDefined DEF IsLine
  <1> HIDE DEF f
  <1>3. \A d \in 0..Len(h) : f[d] = LineAt(f, h, d)
    BY <1>2, Zenon
  <1>4. f[0] = {}
    <2>1. 0 \in 0..Len(h)
      BY <1>0
    <2>2. f[0] = LineAt(f, h, 0)
      BY <1>3, <2>1
    <2>3. QED
      BY <2>2 DEF LineAt
  <1>5. ASSUME NEW d \in 1..Len(h)
        PROVE  f[d] = {d} \cup f[Before(h, d)]
    <2>1. d \in 0..Len(h) /\ d # 0
      BY <1>0
    <2>2. f[d] = {d} \cup (IF h[d].parents = <<>> THEN {} ELSE f[Head(h[d].parents)])
      BY <1>3, <2>1 DEF LineAt
    <2>3. QED
      BY <1>4, <2>2 DEF Before
  <1>6. QED
    BY <1>1, <1>4, <1>5 DEF f

\* A line runs through the histories of its commits, which are lines themselves.
Runs(line, past, d) ==
    /\ line[d] \subseteq 1..d /\ line[d] \subseteq past[d]
    /\ \A c \in line[d] :
         /\ line[c] \subseteq line[d] /\ past[c] \subseteq past[d]
         /\ \A x \in line[d] : x <= c => x \in line[c]

LEMMA LineRuns ==
    ASSUME NEW h, Rooted(h)
    PROVE  \A d \in 0..Len(h) : Runs(Line(h), Histories(h), d)
  <1> DEFINE line == Line(h)
             past == Histories(h)
             T == {n \in Nat : n <= Len(h) => \A d \in 0..n : Runs(line, past, d)}
  <1>0. Len(h) \in Nat
    BY RootedFacts
  <1>1. line[0] = {} /\ past[0] = {}
    BY LineFacts, PastFacts
  <1>2. ASSUME NEW d \in 1..Len(h)
        PROVE  /\ line[d] = {d} \cup line[Before(h, d)] /\ d \in past[d] /\ past[Before(h, d)] \subseteq past[d]
               /\ Before(h, d) \in 0..(d - 1) /\ d \in Nat
    <2>1. line[d] = {d} \cup line[Before(h, d)] /\ Before(h, d) \in 0..(d - 1) /\ d \in Nat /\ d \in past[d]
      BY <1>0, LineFacts, BeforeFacts, PastIsEarlier
    <2>2. past[Before(h, d)] \subseteq past[d]
      <3>1. CASE h[d].parents = <<>>
        <4>1. Before(h, d) = 0
          BY <3>1 DEF Before
        <4>2. QED
          BY <1>1, <4>1
      <3>2. CASE h[d].parents # <<>>
        <4>1. Before(h, d) \in Range(h[d].parents)
          BY <3>2, BeforeFacts
        <4>2. past[d] = {d} \cup UNION {past[p] : p \in Range(h[d].parents)}
          BY PastFacts
        <4>3. QED
          BY <4>1, <4>2
      <3>3. QED
        BY <3>1, <3>2
    <2>3. QED
      BY <2>1, <2>2
  <1> HIDE DEF line, past
  <1>3. 0 \in T
    <2>1. Runs(line, past, 0)
      BY <1>1 DEF Runs
    <2>2. \A d \in 0..0 : d = 0
      OBVIOUS
    <2>3. \A d \in 0..0 : Runs(line, past, d)
      BY <2>1, <2>2
    <2>4. QED
      BY <2>3
  <1>4. ASSUME NEW n \in Nat, n \in T, n + 1 <= Len(h)
        PROVE  \A d \in 0..(n + 1) : Runs(line, past, d)
    <2>1. \A d \in 0..n : Runs(line, past, d)
      BY <1>0, <1>4
    <2> DEFINE d == n + 1
               p == Before(h, d)
    <2>2. d \in 1..Len(h) /\ d - 1 = n
      BY <1>0, <1>4
    <2>3. /\ line[d] = {d} \cup line[p] /\ d \in past[d] /\ past[p] \subseteq past[d]
          /\ p \in 0..n /\ p \in Nat /\ d \in Nat /\ p < d
      BY <1>2, <2>2
    <2>4. Runs(line, past, p)
      BY <2>1, <2>3
    <2>5. 0..(n + 1) = 0..n \cup {d}
      OBVIOUS
    <2> HIDE DEF d, p
    <2>6. line[p] \subseteq 1..p /\ line[p] \subseteq past[p]
      BY <2>4 DEF Runs
    <2>7. line[d] \subseteq 1..d
      <3>1. 1..p \subseteq 1..d /\ d \in 1..d
        BY <2>2, <2>3
      <3>2. QED
        BY <2>3, <2>6, <3>1
    <2>8. line[d] \subseteq past[d]
      BY <2>3, <2>6
    <2>9. ASSUME NEW c \in line[d]
          PROVE  /\ line[c] \subseteq line[d] /\ past[c] \subseteq past[d]
                 /\ \A x \in line[d] : x <= c => x \in line[c]
      <3>1. CASE c = d
        BY <3>1
      <3>2. CASE c \in line[p]
        <4>1. /\ line[c] \subseteq line[p] /\ past[c] \subseteq past[p]
              /\ \A x \in line[p] : x <= c => x \in line[c]
          BY <2>4, <3>2 DEF Runs
        <4>2. c \in Nat /\ c < d
          BY <2>3, <2>6, <3>2
        <4>3. ~(d <= c)
          BY <2>3, <4>2
        <4>4. \A x \in line[d] : x <= c => x \in line[p]
          BY <2>3, <4>3
        <4>5. QED
          BY <2>3, <4>1, <4>4
      <3>3. QED
        BY <2>3, <3>1, <3>2
    <2>10. Runs(line, past, d)
      BY <2>7, <2>8, <2>9 DEF Runs
    <2>11. QED
      BY <2>1, <2>5, <2>10
  <1>5. Nat \subseteq T
    <2>1. ASSUME NEW n \in Nat, n \in T
          PROVE  n + 1 \in T
      <3>1. n + 1 \in Nat
        OBVIOUS
      <3>2. n + 1 <= Len(h) => \A d \in 0..(n + 1) : Runs(line, past, d)
        <4> HIDE DEF T
        <4>1. QED
          BY <1>4, <2>1
      <3>3. QED
        BY <3>1, <3>2
    <2> HIDE DEF T
    <2>2. QED
      BY <1>3, <2>1, Induction
  <1>6. QED
    BY <1>0, <1>5 DEF line, past

-----------------------------------------------------------------------------
LEMMA LinesFacts ==
    ASSUME NEW h, NEW n \in Nat, NEW S, S \subseteq 1..n
    PROVE  /\ Lines(h, S) \subseteq S /\ IsFiniteSet(Lines(h, S)) /\ Cardinality(Lines(h, S)) \in Nat
           /\ Lines(h, S) \in {L \in SUBSET Nat : IsFiniteSet(L)}
  <1>1. IsFiniteSet(1..n)
    BY FS_Interval
  <1>2. Lines(h, S) \subseteq S /\ Lines(h, S) \subseteq 1..n
    BY DEF Lines
  <1>3. IsFiniteSet(Lines(h, S))
    BY <1>1, <1>2, FS_Subset
  <1>4. Lines(h, S) \subseteq Nat
    BY <1>2
  <1>5. QED
    BY <1>2, <1>3, <1>4, FS_CardinalityType

\* Two sets of numbers with nothing in common count as much as both.
LEMMA Together ==
    ASSUME NEW n \in Nat, NEW S, NEW R, S \subseteq 1..n, R \subseteq 1..n, S \cap R = {}
    PROVE  /\ Cardinality(S \cup R) = Cardinality(S) + Cardinality(R)
           /\ Cardinality(S) \in Nat /\ Cardinality(R) \in Nat
  <1>1. IsFiniteSet(1..n)
    BY FS_Interval
  <1>2. IsFiniteSet(S) /\ IsFiniteSet(R)
    BY <1>1, FS_Subset
  <1>3. Cardinality(S \cup R) = Cardinality(S) + Cardinality(R) - Cardinality(S \cap R)
    BY <1>2, FS_Union
  <1>4. Cardinality(S \cap R) = 0
    BY FS_EmptySet
  <1>5. Cardinality(S) \in Nat /\ Cardinality(R) \in Nat
    BY <1>2, FS_CardinalityType
  <1>6. QED
    BY <1>3, <1>4, <1>5

\* The files' sum over a range: every commit, and the lines of those that are
\* no merges.
LEMMA FilesAddUp ==
    ASSUME NEW h, Rooted(h), NEW range \in SUBSET (1..Len(h))
    PROVE  /\ Parsed(Listing(h, range)).commits = range
           /\ Parsed(Listing(h, range)).added = Cardinality({c \in range : ~IsMerge(h, c) /\ h[c].own})
  <1> DEFINE n == Len(h)
             lines(c) == IF IsMerge(h, c) THEN {} ELSE Lines(h, {c})
             block(c) == [commit |-> c, lines |-> lines(c)]
             blocks == [c \in 1..n |-> IF c \notin range THEN <<>> ELSE <<block(c)>>]
             later(m) == {c \in range : c > m /\ ~IsMerge(h, c) /\ h[c].own}
  <1>0. n \in Nat
    BY RootedFacts
  <1>1. Listing(h, range) = Printed(h, blocks)
    BY DEF Listing
  <1>2. ASSUME NEW c \in 1..n
        PROVE  block(c) \in Blocks /\ block(c).commit = c /\ block(c).lines = lines(c)
    <2>1. c \in Nat /\ {c} \subseteq 1..n
      BY <1>0
    <2>2. Lines(h, {c}) \in {L \in SUBSET Nat : IsFiniteSet(L)}
      BY <1>0, <2>1, LinesFacts
    <2>3. {} \in {L \in SUBSET Nat : IsFiniteSet(L)}
      BY FS_EmptySet
    <2>4. lines(c) \in {L \in SUBSET Nat : IsFiniteSet(L)}
      BY <2>2, <2>3
    <2> HIDE DEF lines
    <2>5. QED
      BY <2>1, <2>4 DEF Blocks
  <1>3. \A c \in 1..n : blocks[c] = IF c \notin range THEN <<>> ELSE <<block(c)>>
    OBVIOUS
  <1> HIDE DEF block, blocks
  <1>4. ASSUME NEW c \in 1..n
        PROVE  /\ blocks[c] \in Seq(Blocks) /\ \A i \in 1..Len(blocks[c]) : blocks[c][i].commit = c
               /\ blocks[c] # <<>> <=> c \in range
               /\ c \in range => blocks[c][1].lines = lines(c)
    <2>1. CASE c \notin range
      <3>1. blocks[c] = <<>>
        BY <1>3, <2>1
      <3>2. QED
        BY <2>1, <3>1
    <2>2. CASE c \in range
      <3>1. blocks[c] = <<block(c)>>
        BY <1>3, <2>2
      <3> DEFINE b == block(c)
      <3>2. b \in Blocks /\ b.commit = c /\ b.lines = lines(c)
        BY <1>2
      <3> HIDE DEF b, lines
      <3>3. <<b>> \in Seq(Blocks) /\ Len(<<b>>) = 1 /\ <<b>>[1] = b /\ <<b>> # <<>>
        BY <3>2
      <3>4. \A i \in 1..1 : i = 1
        OBVIOUS
      <3>5. QED
        BY <2>2, <3>1, <3>2, <3>3, <3>4 DEF b
    <2>3. QED
      BY <2>1, <2>2
  <1> HIDE DEF n
  <1>5. /\ Parsed(Printed(h, blocks)).commits = {c \in 1..n : blocks[c] # <<>>}
        /\ \E at \in [0..n -> Nat] :
                /\ at[n] = 0 /\ at[0] = Parsed(Printed(h, blocks)).added
                /\ \A m \in 1..n :
                     /\ blocks[m] = <<>> => at[m - 1] = at[m]
                     /\ blocks[m] # <<>> => at[m - 1] = at[m] + Cardinality(blocks[m][1].lines)
    <2>1. \A c \in 1..n : blocks[c] \in Seq(Blocks) /\ \A i \in 1..Len(blocks[c]) : blocks[c][i].commit = c
      BY <1>4
    <2> HIDE DEF blocks
    <2> USE DEF n
    <2>2. QED
      BY <2>1, PrintedAddsUp
  <1>6. PICK at \in [0..n -> Nat] :
                /\ at[n] = 0 /\ at[0] = Parsed(Printed(h, blocks)).added
                /\ \A m \in 1..n :
                     /\ blocks[m] = <<>> => at[m - 1] = at[m]
                     /\ blocks[m] # <<>> => at[m - 1] = at[m] + Cardinality(blocks[m][1].lines)
    BY <1>5
  <1> DEFINE T == {m \in 0..n : at[m] = Cardinality(later(m))}
  <1>7. n \in T
    <2>1. \A c \in range : ~(c > n)
      BY <1>0 DEF n
    <2>2. later(n) = {}
      BY <2>1
    <2>3. Cardinality(later(n)) = 0
      BY <2>2, FS_EmptySet
    <2>4. QED
      BY <1>0, <1>6, <2>3
  <1>8. ASSUME NEW m \in 1..n, m \in T
        PROVE  m - 1 \in T
    <2>1. at[m] = Cardinality(later(m)) /\ m - 1 \in 0..n /\ m \in Nat
      BY <1>0, <1>8
    <2>2. \A c \in range : c \in Nat /\ c \in 1..n
      BY <1>0 DEF n
    <2>3. later(m - 1) = later(m) \cup (IF m \in range THEN Lines(h, {m}) \ {c \in {m} : IsMerge(h, c)} ELSE {})
      <3>1. \A c \in range : c > m - 1 <=> c > m \/ c = m
        BY <2>1, <2>2
      <3>2. QED
        BY <3>1 DEF Lines
    <2>4. CASE m \in range
      <3>1. at[m - 1] = at[m] + Cardinality(lines(m))
        BY <1>4, <1>6, <2>4
      <3>2. lines(m) = Lines(h, {m}) \ {c \in {m} : IsMerge(h, c)}
        BY DEF Lines
      <3>3. later(m) \in SUBSET (1..n) /\ lines(m) \in SUBSET (1..n) /\ later(m) \cap lines(m) = {}
        <4>1. lines(m) \subseteq {m}
          BY DEF Lines
        <4>2. m \notin later(m)
          BY <2>1
        <4>3. later(m) \subseteq 1..n
          BY <2>2
        <4> HIDE DEF later, lines
        <4>4. QED
          BY <4>1, <4>2, <4>3
      <3>4. later(m - 1) = later(m) \cup lines(m)
        BY <2>3, <2>4, <3>2
      <3> HIDE DEF later, lines
      <3>5. Cardinality(later(m - 1)) = Cardinality(later(m)) + Cardinality(lines(m))
        <4> DEFINE A == later(m)
                   B == lines(m)
        <4>1. A \subseteq 1..n /\ B \subseteq 1..n /\ A \cap B = {} /\ later(m - 1) = A \cup B
          BY <3>3, <3>4
        <4> HIDE DEF A, B
        <4>2. Cardinality(A \cup B) = Cardinality(A) + Cardinality(B)
          <5>1. n \in Nat
            BY <1>0
          <5>2. A \subseteq 1..n
            BY <4>1
          <5>3. B \subseteq 1..n
            BY <4>1
          <5>4. A \cap B = {}
            BY <4>1
          <5>5. QED
            BY <5>1, <5>2, <5>3, <5>4, Together
        <4>3. QED
          BY <4>1, <4>2 DEF A, B
      <3>6. QED
        BY <2>1, <3>1, <3>5
    <2>5. CASE m \notin range
      <3>1. at[m - 1] = at[m]
        BY <1>4, <1>6, <2>5
      <3>2. later(m - 1) = later(m)
        BY <2>3, <2>5
      <3> HIDE DEF later
      <3>3. QED
        BY <2>1, <3>1, <3>2
    <2>6. QED
      BY <2>4, <2>5
  <1>9. at[0] = Cardinality(later(0))
    <2>1. 0 \in 0..n
      BY <1>0
    <2> HIDE DEF T
    <2>2. \A m \in 0..n : m \in T
      BY <1>0, <1>7, <1>8, Down
    <2>3. 0 \in T
      BY <2>1, <2>2
    <2>4. QED
      BY <2>3 DEF T
  <1>10. later(0) = {c \in range : ~IsMerge(h, c) /\ h[c].own}
    <2>1. \A c \in range : c > 0
      BY <1>0 DEF n
    <2>2. QED
      BY <2>1
  <1>11. {c \in 1..n : blocks[c] # <<>>} = range
    BY <1>4 DEF n
  <1> HIDE DEF later
  <1>12. QED
    BY <1>1, <1>5, <1>6, <1>9, <1>10, <1>11

-----------------------------------------------------------------------------
\* What is printed for a merge restates what it brought to its line: the first
\* block, which counts, is against the first parent.
LEMMA MergeBlocksFacts ==
    ASSUME NEW h, Rooted(h), NEW c \in 1..Len(h), IsMerge(h, c)
    PROVE  /\ MergeBlocks(h, c) \in Seq(Blocks) /\ MergeBlocks(h, c) # <<>>
           /\ \A i \in 1..Len(MergeBlocks(h, c)) : MergeBlocks(h, c)[i].commit = c
           /\ MergeBlocks(h, c)[1].lines = Lines(h, Histories(h)[c] \ Histories(h)[Before(h, c)])
  <1> DEFINE past == Histories(h)
             parents == h[c].parents
             lines(p) == Lines(h, past[c] \ past[p])
             block(p) == [commit |-> c, lines |-> lines(p)]
             n == Len(h)
  <1>1. n \in Nat /\ c \in Nat /\ past[c] \subseteq 1..n
    <2>1. Len(h) \in Nat /\ past[c] \subseteq 1..c
      BY RootedFacts, PastIsEarlier
    <2>2. 1..c \subseteq 1..n
      BY <2>1
    <2>3. QED
      BY <2>1, <2>2
  <1>2. /\ Len(parents) \in Nat /\ Len(parents) > 1 /\ parents # <<>>
        /\ DOMAIN parents = 1..Len(parents) /\ parents[1] = Before(h, c) /\ Head(parents) = Before(h, c)
    <2>1. parents \in Seq(1..(c - 1)) /\ Len(parents) > 1
      BY DEF Rooted, IsMerge
    <2> HIDE DEF parents
    <2>2. Len(parents) \in Nat /\ parents # <<>> /\ DOMAIN parents = 1..Len(parents)
      BY <2>1, EmptySeq, LenProperties
    <2>3. QED
      BY <2>1, <2>2, BeforeFacts DEF parents
  <1>3. ASSUME NEW p
        PROVE  block(p) \in Blocks /\ block(p).commit = c /\ block(p).lines = lines(p)
    <2> DEFINE S == past[c] \ past[p]
    <2>1. S \subseteq 1..n
      BY <1>1
    <2> HIDE DEF S
    <2>2. Lines(h, S) \in {L \in SUBSET Nat : IsFiniteSet(L)}
      BY <1>1, <2>1, LinesFacts
    <2>3. lines(p) \in {L \in SUBSET Nat : IsFiniteSet(L)}
      BY <2>2 DEF S
    <2> HIDE DEF lines
    <2>4. QED
      BY <1>1, <2>3 DEF Blocks
  <1> DEFINE all == [i \in DOMAIN parents |-> block(parents[i])]
             one == <<block(Head(parents))>>
  <1>4. MergeBlocks(h, c) = IF GitRepeats THEN all ELSE one
    BY DEF MergeBlocks
  <1>5. /\ all \in Seq(Blocks) /\ all # <<>> /\ \A i \in 1..Len(all) : all[i].commit = c
        /\ all[1].lines = lines(Before(h, c))
    <2> HIDE DEF block, lines, parents
    <2>1. all \in [1..Len(parents) -> Blocks]
      BY <1>2, <1>3
    <2>2. all \in Seq(Blocks) /\ Len(all) = Len(parents)
      <3> DEFINE m == Len(parents)
      <3>1. m \in Nat /\ all \in [1..m -> Blocks]
        BY <1>2, <2>1
      <3> HIDE DEF all, m
      <3>2. all \in Seq(Blocks)
        BY <3>1, SeqDef
      <3>3. DOMAIN all = 1..m
        BY <3>1
      <3>4. Len(all) = m
        BY <3>1, <3>2, <3>3, LenProperties
      <3>5. QED
        BY <3>2, <3>4 DEF m
    <2>3. \A i \in 1..Len(parents) : all[i] = block(parents[i])
      BY <1>2
    <2>4. 1 \in 1..Len(parents)
      BY <1>2
    <2> HIDE DEF all
    <2>5. all # <<>>
      BY <1>2, <2>2, EmptySeq
    <2>6. all[1] = block(Before(h, c))
      BY <1>2, <2>3, <2>4
    <2>7. QED
      BY <1>3, <2>2, <2>3, <2>5, <2>6
  <1>6. /\ one \in Seq(Blocks) /\ one # <<>> /\ \A i \in 1..Len(one) : one[i].commit = c
        /\ one[1].lines = lines(Before(h, c))
    <2> DEFINE b == block(Head(parents))
    <2>1. b \in Blocks /\ b.commit = c /\ b.lines = lines(Before(h, c))
      BY <1>2, <1>3
    <2> HIDE DEF b, lines
    <2>2. <<b>> \in Seq(Blocks) /\ Len(<<b>>) = 1 /\ <<b>>[1] = b /\ <<b>> # <<>>
      BY <2>1
    <2>3. \A i \in 1..1 : i = 1
      OBVIOUS
    <2>4. one = <<b>>
      BY DEF b
    <2> HIDE DEF one
    <2>5. QED
      BY <2>1, <2>2, <2>3, <2>4
  <1> HIDE DEF all, one
  <1>7. CASE GitRepeats
    BY <1>4, <1>5, <1>7
  <1>8. CASE ~GitRepeats
    BY <1>4, <1>6, <1>8
  <1>9. QED
    BY <1>7, <1>8

\* The merges of the line that are in the range, and what one of them brought in.
Merges(h, range) == {c \in 1..Len(h) : c \in range /\ c \in Line(h)[Len(h)] /\ IsMerge(h, c)}
Brought(h, c) == Lines(h, Histories(h)[c] \ Histories(h)[Before(h, c)])

\* at[m] is what the merges after m brought in.
BringIn(h, range, at) ==
    /\ at \in [0..Len(h) -> Nat] /\ at[Len(h)] = 0
    /\ \A m \in 1..Len(h) :
         /\ m \notin Merges(h, range) => at[m - 1] = at[m]
         /\ m \in Merges(h, range) => at[m - 1] = at[m] + Cardinality(Brought(h, m))

LEMMA MergesAddUp ==
    ASSUME NEW h, Rooted(h), NEW range
    PROVE  /\ Parsed(MergeListing(h, range, Len(h))).commits = Merges(h, range)
           /\ \E at : BringIn(h, range, at) /\ at[0] = Parsed(MergeListing(h, range, Len(h))).added
  <1> DEFINE n == Len(h)
             spine == range \cap Spine(h, n)
             merges == Merges(h, range)
             blocks == [c \in 1..n |-> IF c \in spine /\ IsMerge(h, c) THEN MergeBlocks(h, c) ELSE <<>>]
  <1>1. MergeListing(h, range, n) = Printed(h, blocks)
    BY DEF MergeListing
  <1>2. Spine(h, n) = Line(h)[n]
    BY LineFacts
  <1>3. \A c \in 1..n : c \in spine /\ IsMerge(h, c) <=> c \in merges
    BY <1>2 DEF Merges
  <1>4. \A c \in 1..n : blocks[c] = IF c \in merges THEN MergeBlocks(h, c) ELSE <<>>
    BY <1>3
  <1> HIDE DEF blocks
  <1>5. ASSUME NEW c \in 1..n
        PROVE  /\ blocks[c] \in Seq(Blocks) /\ \A i \in 1..Len(blocks[c]) : blocks[c][i].commit = c
               /\ c \in merges => blocks[c] # <<>> /\ blocks[c][1].lines = Brought(h, c)
               /\ c \notin merges => blocks[c] = <<>>
    <2>1. CASE c \in merges
      <3>1. blocks[c] = MergeBlocks(h, c) /\ IsMerge(h, c)
        BY <1>4, <2>1 DEF Merges
      <3> DEFINE b == MergeBlocks(h, c)
      <3>2. /\ b \in Seq(Blocks) /\ b # <<>> /\ \A i \in 1..Len(b) : b[i].commit = c
            /\ b[1].lines = Brought(h, c)
        BY <3>1, MergeBlocksFacts DEF Brought
      <3>3. blocks[c] = b
        BY <3>1
      <3> HIDE DEF b, merges
      <3>4. QED
        BY <2>1, <3>2, <3>3
    <2>2. CASE c \notin merges
      <3>1. blocks[c] = <<>>
        BY <1>4, <2>2
      <3>2. <<>> \in Seq(Blocks) /\ Len(<<>>) = 0
        BY EmptySeq
      <3> HIDE DEF merges
      <3>3. \A i \in 1..0 : FALSE
        OBVIOUS
      <3>4. QED
        BY <2>2, <3>1, <3>2, <3>3
    <2>3. QED
      BY <2>1, <2>2
  <1>6. /\ Parsed(Printed(h, blocks)).commits = {c \in 1..n : blocks[c] # <<>>}
        /\ \E at \in [0..n -> Nat] :
                /\ at[n] = 0 /\ at[0] = Parsed(Printed(h, blocks)).added
                /\ \A m \in 1..n :
                     /\ blocks[m] = <<>> => at[m - 1] = at[m]
                     /\ blocks[m] # <<>> => at[m - 1] = at[m] + Cardinality(blocks[m][1].lines)
    <2>1. \A c \in 1..n : blocks[c] \in Seq(Blocks) /\ \A i \in 1..Len(blocks[c]) : blocks[c][i].commit = c
      BY <1>5
    <2>2. QED
      BY <2>1, PrintedAddsUp
  <1>7. PICK at \in [0..n -> Nat] :
                /\ at[n] = 0 /\ at[0] = Parsed(Printed(h, blocks)).added
                /\ \A m \in 1..n :
                     /\ blocks[m] = <<>> => at[m - 1] = at[m]
                     /\ blocks[m] # <<>> => at[m - 1] = at[m] + Cardinality(blocks[m][1].lines)
    BY <1>6
  <1>8. \A c \in 1..n : blocks[c] # <<>> <=> c \in merges
    BY <1>5
  <1>9. {c \in 1..n : blocks[c] # <<>>} = merges
    BY <1>8 DEF Merges
  <1>10. ASSUME NEW m \in 1..n
         PROVE  /\ m \notin merges => at[m - 1] = at[m]
                /\ m \in merges => at[m - 1] = at[m] + Cardinality(Brought(h, m))
    <2> HIDE DEF merges
    <2>1. QED
      BY <1>5, <1>7
  <1>11. BringIn(h, range, at)
    BY <1>7, <1>10 DEF BringIn
  <1>12. at[0] = Parsed(MergeListing(h, range, Len(h))).added
    BY <1>1, <1>7
  <1> HIDE DEF merges
  <1>13. Parsed(MergeListing(h, range, Len(h))).commits = merges
    BY <1>1, <1>6, <1>9
  <1>14. QED
    BY <1>11, <1>12, <1>13 DEF merges

-----------------------------------------------------------------------------
\* From a commit of the line on, the merges and the other commits of the line
\* bring in what the range adds.
LEMMA LineAddsUp ==
    ASSUME NEW h, Rooted(h), NEW from \in Line(h)[Len(h)], 1 <= Len(h), NEW range,
           range = Histories(h)[Len(h)] \ Histories(h)[from], NEW at, BringIn(h, range, at)
    PROVE  at[0] + Cardinality(Lines(h, {c \in range \cap Line(h)[Len(h)] : ~IsMerge(h, c)}))
             = Cardinality(Lines(h, range))
  <1> DEFINE n == Len(h)
             past == Histories(h)
             line == Line(h)
             L == line[n]
             merges == Merges(h, range)
             rest(m) == {c \in L : c > m /\ c > from /\ ~IsMerge(h, c) /\ h[c].own}
             since(q) == Lines(h, past[n] \ past[q])
  <1>1. n \in Nat /\ n \in 1..n
    BY RootedFacts
  <1>2. /\ L \subseteq 1..n /\ L \subseteq past[n] /\ n \in L /\ past[n] \subseteq 1..n
        /\ \A c \in L : past[c] \subseteq past[n] /\ \A x \in L : x <= c => x \in line[c]
    <2>1. Runs(line, past, n)
      BY <1>1, LineRuns
    <2>2. n \in L
      BY <1>1, LineFacts
    <2>3. past[n] \subseteq 1..n
      BY <1>1, PastIsEarlier
    <2>4. QED
      BY <2>1, <2>2, <2>3 DEF Runs
  <1>3. \A c \in 1..n : /\ c \in Nat /\ c \in past[c] /\ past[c] \subseteq 1..c
                        /\ line[c] \subseteq past[c] /\ line[c] = {c} \cup line[Before(h, c)]
    <2>1. \A c \in 1..n : Runs(line, past, c)
      BY <1>1, LineRuns
    <2>2. QED
      BY <1>1, <2>1, PastIsEarlier, LineFacts DEF Runs
  <1>4. from \in L /\ from \in 1..n /\ from \in Nat
    BY <1>1, <1>2
  <1>5. \A c \in L : c \in range <=> c > from
    <2>1. ASSUME NEW c \in L
          PROVE  c \in past[from] <=> c <= from
      <3>1. ASSUME c <= from
            PROVE  c \in past[from]
        <4>1. c \in line[from]
          BY <1>2, <1>4, <3>1
        <4>2. QED
          BY <1>3, <1>4, <4>1
      <3>2. ASSUME c \in past[from]
            PROVE  c <= from
        <4>1. c \in 1..from
          BY <1>3, <1>4, <3>2
        <4>2. QED
          BY <1>4, <4>1
      <3>3. QED
        BY <3>1, <3>2
    <2>2. \A c \in L : c \in Nat
      BY <1>1, <1>2
    <2>3. \A c \in L : c \in past[n] /\ (c <= from <=> ~(c > from))
      BY <1>2, <1>4, <2>2
    <2>4. QED
      BY <2>1, <2>3
  <1>6. \A m \in 1..n : m \in merges <=> m \in L /\ m > from /\ IsMerge(h, m)
    BY <1>5 DEF Merges
  <1>7. /\ at \in [0..n -> Nat] /\ at[n] = 0
        /\ \A m \in 1..n : /\ m \notin merges => at[m - 1] = at[m]
                           /\ m \in merges => at[m - 1] = at[m] + Cardinality(Brought(h, m))
    BY DEF BringIn
  <1> HIDE DEF merges
  <1> DEFINE Nearest(m, q) == q >= from /\ (q <= m \/ q = from) /\ \A x \in L : x > q => x > m
             T == {m \in 0..n : \A q \in L : Nearest(m, q) =>
                                  at[m] + Cardinality(rest(m)) = Cardinality(since(q))}
  <1>8. n \in T
    <2>1. ASSUME NEW q \in L, Nearest(n, q)
          PROVE  at[n] + Cardinality(rest(n)) = Cardinality(since(q))
      <3>1. q = n
        <4>1. q \in Nat /\ q <= n /\ ~(n > n)
          BY <1>1, <1>2
        <4>2. ~(n > q)
          BY <1>1, <1>2, <2>1
        <4>3. QED
          BY <1>1, <4>1, <4>2
      <3>2. since(q) = {}
        BY <3>1 DEF Lines
      <3>3. rest(n) = {}
        <4>1. \A c \in L : ~(c > n)
          BY <1>1, <1>2
        <4>2. QED
          BY <4>1
      <3> HIDE DEF since, rest
      <3>4. QED
        BY <1>7, <3>2, <3>3, FS_EmptySet
    <2>2. n \in 0..n
      BY <1>1
    <2> HIDE DEF rest, since, Nearest
    <2>3. QED
      BY <2>1, <2>2
  <1>9. ASSUME NEW m \in 1..n, m \in T, NEW q \in L, Nearest(m - 1, q)
        PROVE  at[m - 1] + Cardinality(rest(m - 1)) = Cardinality(since(q))
    <2>1. m \in Nat /\ m - 1 \in 0..n /\ m - 1 < m /\ q \in Nat /\ q \in 1..n
      BY <1>1, <1>2
    <2>2. \A c \in L : c \in Nat /\ c \in 1..n
      BY <1>1, <1>2
    <2>3. at[m] \in Nat
      BY <1>1, <1>7
    <2>4. CASE ~(m \in L /\ m > from)
      <3>1. Nearest(m, q)
        <4>1. q <= m \/ q = from
          BY <1>9, <2>1
        <4>2. ASSUME NEW x \in L, x > q
              PROVE  x > m
          <5>1. x > m - 1 /\ x > from /\ x \in Nat
            BY <1>4, <1>9, <2>1, <2>2, <4>2
          <5>2. x # m
            BY <2>4, <5>1
          <5>3. QED
            BY <2>1, <5>1, <5>2
        <4>3. QED
          BY <1>9, <4>1, <4>2
      <3>2. at[m - 1] = at[m]
        BY <1>6, <1>7, <2>4
      <3>3. rest(m - 1) = rest(m)
        <4>1. \A c \in L : c > m - 1 /\ c > from <=> c > m /\ c > from
          BY <2>1, <2>2, <2>4
        <4>2. QED
          BY <4>1
      <3>4. at[m] + Cardinality(rest(m)) = Cardinality(since(q))
        <4> HIDE DEF rest, since, Nearest
        <4>1. QED
          BY <1>9, <3>1
      <3> HIDE DEF rest, since
      <3>5. QED
        BY <3>2, <3>3, <3>4
    <2>5. CASE m \in L /\ m > from
      <3>1. q < m /\ q >= from
        BY <1>4, <1>9, <2>1, <2>5
      <3>2. Before(h, m) = q
        <4> DEFINE p == Before(h, m)
        <4>1. q \in line[m] /\ q # m
          BY <1>2, <2>1, <2>5, <3>1
        <4>2. q \in line[p]
          BY <1>3, <4>1
        <4>3. p \in 0..(m - 1)
          BY BeforeFacts
        <4>4. p # 0
          BY <4>2, LineFacts
        <4>5. p \in 1..n /\ p \in Nat /\ p < m
          BY <1>1, <2>1, <4>3, <4>4
        <4>6. q <= p
          <5>1. q \in 1..p
            BY <1>3, <4>2, <4>5
          <5>2. QED
            BY <4>5, <5>1
        <4>7. p \in L
          <5>1. p \in line[p]
            BY <1>3, <4>5
          <5>2. p \in line[m]
            BY <1>3, <5>1
          <5>3. Runs(line, past, n)
            BY <1>1, LineRuns
          <5>4. line[m] \subseteq L
            BY <2>5, <5>3 DEF Runs
          <5>5. QED
            BY <5>2, <5>4
        <4> HIDE DEF p
        <4>8. ~(p > q)
          <5>1. p > q => p > m - 1
            BY <1>9, <4>7
          <5>2. QED
            BY <2>1, <4>5, <5>1
        <4>9. QED
          BY <2>1, <4>5, <4>6, <4>8 DEF p
      <3>3. at[m] + Cardinality(rest(m)) = Cardinality(since(m))
        <4>1. Nearest(m, m)
          BY <1>4, <2>1, <2>5
        <4> HIDE DEF rest, since, Nearest
        <4>2. QED
          BY <1>9, <2>5, <4>1
      <3>4. h[m].parents # <<>>
        <4>1. Before(h, m) # 0
          BY <2>1, <3>2
        <4>2. QED
          BY <4>1 DEF Before
      <3>5. past[q] \subseteq past[m] /\ past[m] \subseteq past[n]
        <4>1. q \in line[m]
          BY <1>2, <2>1, <2>5, <3>1
        <4>2. Runs(line, past, m)
          BY <1>1, <2>1, LineRuns
        <4>3. QED
          BY <1>2, <2>5, <4>1, <4>2 DEF Runs
      <3> DEFINE brought == Lines(h, past[m] \ past[q])
      <3>6. since(q) = since(m) \cup brought /\ since(m) \cap brought = {}
        BY <3>5 DEF Lines
      <3>7. since(m) \subseteq 1..n /\ brought \subseteq 1..n
        BY <1>2, <3>5 DEF Lines
      <3>8. Cardinality(since(q)) = Cardinality(since(m)) + Cardinality(brought)
            /\ Cardinality(since(m)) \in Nat /\ Cardinality(brought) \in Nat
        <4> DEFINE A == since(m)
                   B == brought
        <4>1. A \subseteq 1..n /\ B \subseteq 1..n /\ A \cap B = {} /\ since(q) = A \cup B
          BY <3>6, <3>7
        <4> HIDE DEF A, B
        <4>2. /\ Cardinality(A \cup B) = Cardinality(A) + Cardinality(B)
              /\ Cardinality(A) \in Nat /\ Cardinality(B) \in Nat
          <5>1. A \subseteq 1..n
            BY <4>1
          <5>2. B \subseteq 1..n
            BY <4>1
          <5>3. A \cap B = {}
            BY <4>1
          <5>4. QED
            BY <1>1, <5>1, <5>2, <5>3, Together
        <4>3. QED
          BY <4>1, <4>2 DEF A, B
      <3>9. /\ rest(m) \subseteq 1..n /\ brought \subseteq 1..n /\ Cardinality(rest(m)) \in Nat
        <4> DEFINE A == rest(m)
        <4>1. A \subseteq 1..n
          BY <2>2
        <4> HIDE DEF A
        <4>2. IsFiniteSet(A)
          <5>1. IsFiniteSet(1..n)
            BY <1>1, FS_Interval
          <5>2. QED
            BY <4>1, <5>1, FS_Subset
        <4>3. Cardinality(A) \in Nat
          BY <4>2, FS_CardinalityType
        <4>4. QED
          BY <3>7, <4>1, <4>3 DEF A
      <3>10. CASE IsMerge(h, m)
        <4>1. at[m - 1] = at[m] + Cardinality(brought)
          <5>1. m \in merges
            BY <1>6, <2>5, <3>10
          <5>2. Brought(h, m) = brought
            BY <3>2 DEF Brought
          <5>3. QED
            BY <1>7, <5>1, <5>2
        <4>2. rest(m - 1) = rest(m)
          <5>1. \A c \in L : c > m - 1 /\ ~IsMerge(h, c) <=> c > m /\ ~IsMerge(h, c)
            BY <2>1, <2>2, <3>10
          <5>2. QED
            BY <5>1
        <4> HIDE DEF rest, since, brought
        <4>3. QED
          BY <2>3, <3>3, <3>8, <3>9, <4>1, <4>2
      <3>11. CASE ~IsMerge(h, m)
        <4>1. at[m - 1] = at[m]
          BY <1>6, <1>7, <3>11
        <4>2. past[m] = {m} \cup past[q]
          <5>1. Range(h[m].parents) = {q}
            BY <3>2, <3>4, <3>11, BeforeFacts
          <5>2. past[m] = {m} \cup UNION {past[p] : p \in Range(h[m].parents)}
            BY PastFacts
          <5>3. QED
            BY <5>1, <5>2
        <4>3. m \notin past[q]
          <5>1. past[q] \subseteq 1..q /\ ~(m \in 1..q)
            BY <1>3, <2>1, <3>1
          <5>2. QED
            BY <5>1
        <4>4. brought = Lines(h, {m})
          BY <4>2, <4>3 DEF Lines
        <4>5. rest(m - 1) = rest(m) \cup brought /\ rest(m) \cap brought = {}
          <5>1. \A c \in L : c > m - 1 <=> c > m \/ c = m
            BY <2>1, <2>2
          <5>2. rest(m - 1) = rest(m) \cup Lines(h, {m})
            BY <2>5, <3>11, <5>1 DEF Lines
          <5>3. m \notin rest(m)
            BY <2>1
          <5>4. Lines(h, {m}) \subseteq {m}
            BY DEF Lines
          <5> HIDE DEF rest, brought
          <5>5. QED
            BY <4>4, <5>2, <5>3, <5>4
        <4>6. Cardinality(rest(m - 1)) = Cardinality(rest(m)) + Cardinality(brought)
          <5> DEFINE A == rest(m)
                     B == brought
          <5>1. A \subseteq 1..n /\ B \subseteq 1..n /\ A \cap B = {} /\ rest(m - 1) = A \cup B
            BY <3>9, <4>5
          <5> HIDE DEF A, B
          <5>2. Cardinality(A \cup B) = Cardinality(A) + Cardinality(B)
            <6>1. A \subseteq 1..n
              BY <5>1
            <6>2. B \subseteq 1..n
              BY <5>1
            <6>3. A \cap B = {}
              BY <5>1
            <6>4. QED
              BY <1>1, <6>1, <6>2, <6>3, Together
          <5>3. QED
            BY <5>1, <5>2 DEF A, B
        <4> HIDE DEF rest, since, brought
        <4>7. QED
          BY <2>3, <3>3, <3>8, <3>9, <4>1, <4>6
      <3>12. QED
        BY <3>10, <3>11
    <2>6. QED
      BY <2>4, <2>5
  <1>10. \A m \in 1..n : m \in T => m - 1 \in T
    <2>1. \A m \in 1..n : m - 1 \in 0..n
      BY <1>1
    <2> HIDE DEF rest, since, Nearest
    <2>2. QED
      BY <1>9, <2>1
  <1>11. 0 \in T
    <2> HIDE DEF T, n
    <2>1. \A m \in 0..n : m \in T
      BY <1>1, <1>8, <1>10, Down
    <2>2. 0 \in 0..n
      BY <1>1
    <2>3. QED
      BY <2>1, <2>2
  <1>12. Nearest(0, from)
    <2>1. \A x \in L : x > 0
      BY <1>1, <1>2
    <2>2. QED
      BY <1>4, <2>1
  <1>13. at[0] + Cardinality(rest(0)) = Cardinality(since(from))
    <2> HIDE DEF rest, since, Nearest
    <2>1. QED
      BY <1>4, <1>11, <1>12
  <1>14. rest(0) = Lines(h, {c \in range \cap L : ~IsMerge(h, c)})
    <2>1. \A c \in L : c > 0
      BY <1>1, <1>2
    <2>2. QED
      BY <1>5, <2>1 DEF Lines
  <1>15. since(from) = Lines(h, range)
    OBVIOUS
  <1> HIDE DEF rest, since
  <1>16. QED
    BY <1>13, <1>14, <1>15

-----------------------------------------------------------------------------
LEMMA EvidenceIsSound ==
    ASSUME Rooted(history), 1 <= Len(history)
    PROVE  EvidenceAddsUp
  <1> DEFINE n == Len(history)
             past == Histories(history)
             line == Line(history)[n]
  <1>1. n \in Nat /\ n \in 1..n /\ past[n] \subseteq 1..n
    <2>1. n \in Nat
      BY RootedFacts
    <2>2. n \in 1..n
      BY <2>1
    <2>3. QED
      BY <2>1, <2>2, PastIsEarlier
  <1>2. line \subseteq past[n] /\ Spine(history, n) = line
    <2>1. Runs(Line(history), past, n)
      BY <1>1, LineRuns
    <2>2. QED
      BY <2>1, LineFacts DEF Runs
  <1>3. ASSUME NEW from \in past[n]
        PROVE  LET range == past[n] \ past[from]
                   e == Evidence(history, from, n)
                   merged == {c \in range : IsMerge(history, c)}
               IN /\ e.commits = range /\ e.measured \subseteq merged
                  /\ e.added + Cardinality({c \in merged : history[c].own}) = Cardinality(Lines(history, range))
                  /\ from \in line =>
                       e.mergeAdded + Cardinality(Lines(history, (range \cap line) \ merged))
                         = Cardinality(Lines(history, range))
    <2> DEFINE range == past[n] \ past[from]
               e == Evidence(history, from, n)
               merged == {c \in range : IsMerge(history, c)}
               files == Parsed(Listing(history, range))
               merges == Parsed(MergeListing(history, range, n))
               plain == {c \in range : ~IsMerge(history, c) /\ history[c].own}
               own == {c \in merged : history[c].own}
    <2>1. range \subseteq 1..n
      BY <1>1
    <2>2. e.commits = files.commits /\ e.added = files.added
          /\ e.measured = merges.commits /\ e.mergeAdded = merges.added
      BY DEF Evidence
    <2> HIDE DEF e, files, merges
    <2>3. files.commits = range /\ files.added = Cardinality(plain)
      <3> DEFINE r == range
      <3>1. r \in SUBSET (1..Len(history))
        BY <2>1
      <3> HIDE DEF r
      <3>2. /\ Parsed(Listing(history, r)).commits = r
            /\ Parsed(Listing(history, r)).added
                 = Cardinality({c \in r : ~IsMerge(history, c) /\ history[c].own})
        BY <3>1, FilesAddUp
      <3>3. QED
        BY <3>2 DEF r, files
    <2>4. merges.commits = Merges(history, range)
          /\ \E at : BringIn(history, range, at) /\ at[0] = merges.added
      <3> DEFINE r == range
      <3> HIDE DEF r
      <3>1. /\ Parsed(MergeListing(history, r, Len(history))).commits = Merges(history, r)
            /\ \E at : /\ BringIn(history, r, at)
                       /\ at[0] = Parsed(MergeListing(history, r, Len(history))).added
        BY MergesAddUp
      <3>2. QED
        BY <3>1 DEF r, merges
    <2>5. Merges(history, range) \subseteq merged
      BY DEF Merges
    <2>6. Cardinality(plain) + Cardinality(own) = Cardinality(Lines(history, range))
      <3> DEFINE A == plain
                 B == own
      <3>1. A \subseteq 1..n /\ B \subseteq 1..n
        BY <2>1
      <3>2. A \cap B = {}
        OBVIOUS
      <3>3. Lines(history, range) = A \cup B
        BY DEF Lines
      <3> HIDE DEF A, B
      <3>4. Cardinality(A \cup B) = Cardinality(A) + Cardinality(B)
        <4>1. A \subseteq 1..n
          BY <3>1
        <4>2. B \subseteq 1..n
          BY <3>1
        <4>3. QED
          BY <1>1, <3>2, <4>1, <4>2, Together
      <3>5. QED
        BY <3>3, <3>4 DEF A, B
    <2>7. ASSUME from \in line
          PROVE  merges.added + Cardinality(Lines(history, (range \cap line) \ merged))
                   = Cardinality(Lines(history, range))
      <3>1. PICK at : BringIn(history, range, at) /\ at[0] = merges.added
        BY <2>4
      <3> DEFINE r == range
      <3>2. (r \cap line) \ merged = {c \in r \cap line : ~IsMerge(history, c)}
        OBVIOUS
      <3>3. r = Histories(history)[Len(history)] \ Histories(history)[from] /\ BringIn(history, r, at)
        BY <3>1
      <3> HIDE DEF r
      <3>4. at[0] + Cardinality(Lines(history, {c \in r \cap Line(history)[Len(history)] : ~IsMerge(history, c)}))
              = Cardinality(Lines(history, r))
        BY <2>7, <3>3, LineAddsUp
      <3>5. at[0] + Cardinality(Lines(history, (r \cap line) \ merged)) = Cardinality(Lines(history, r))
        BY <3>2, <3>4
      <3>6. QED
        BY <3>1, <3>5 DEF r
    <2> HIDE DEF range, merged, plain, own
    <2>8. /\ e.commits = range /\ e.measured \subseteq merged
          /\ e.added + Cardinality(own) = Cardinality(Lines(history, range))
          /\ from \in line =>
               e.mergeAdded + Cardinality(Lines(history, (range \cap line) \ merged))
                 = Cardinality(Lines(history, range))
      BY <2>2, <2>3, <2>4, <2>5, <2>6, <2>7
    <2>9. QED
      BY <2>8 DEF range, merged, own, e
  <1>4. QED
    BY <1>2, <1>3 DEF EvidenceAddsUp, Latest

\* A range counts each commit once and its files the lines of those that are no
\* merges; the merges of a line restate what its other commits do not add, so
\* that the two sums are not to be added up (git_evidence.py).
THEOREM EvidenceStaysExact == Spec => []EvidenceAddsUp
  <1>1. ASSUME Repository
        PROVE  EvidenceAddsUp
    <2>1. Rooted(history) /\ Len(history) \in Nat /\ main \in 1..Len(history)
      BY <1>1, RootedFacts DEF Repository, LogsOK
    <2>2. 1 <= Len(history)
      BY <2>1
    <2>3. QED
      BY <2>1, <2>2, EvidenceIsSound
  <1>2. QED
    BY LogsStaySound, <1>1, PTL

-----------------------------------------------------------------------------
(* The rows of a folder, whatever its plans say.                           *)

RowFields == {"key", "id", "file", "type", "tracker", "status", "mirrored", "state", "refined", "refine",
              "hitl", "halted", "raw", "planned", "wanted", "joined", "stem", "plan"}

\* What a row is, whatever its plan says.
Core(r) == [key |-> r.key, id |-> r.id, file |-> r.file, type |-> r.type, tracker |-> r.tracker, raw |-> r.raw,
            planned |-> r.planned, joined |-> r.joined, wanted |-> r.wanted, hitl |-> r.hitl, stem |-> r.stem]

Bare(tr, f) == {n \in DOMAIN tr.entry[f] : LeafFor(tr, f, n) = NoName}
BaseRows(tr, f) ==
    {EntryRow(tr, f, n) : n \in Bare(tr, f)} \cup {LeafRow(tr, f, s) : s \in Leaves(tr, f)}

LeafKey(tr, f, s) == IF tr.leaf[f][s].id # NoId THEN Key(f, tr.leaf[f][s].id, NoName) ELSE Key(f, NoId, s)

EntryCore(tr, f, n) ==
    LET e == tr.entry[f][n]
    IN [key |-> Key(f, n, NoName), id |-> n, file |-> NoName, type |-> e.type, tracker |-> NoName, raw |-> e.after, planned |-> e.after,
        joined |-> FALSE, wanted |-> e.hitl, hitl |-> e.hitl, stem |-> e.stem]

LeafCore(tr, f, s) ==
    LET l == tr.leaf[f][s]
        listed == l.id \in DOMAIN tr.entry[f]
    IN [key |-> LeafKey(tr, f, s), id |-> l.id, file |-> s, type |-> l.type, tracker |-> l.tracker, raw |-> l.after,
        planned |-> IF listed THEN tr.entry[f][l.id].after ELSE {}, joined |-> listed,
        wanted |-> IF listed THEN tr.entry[f][l.id].hitl ELSE FALSE, hitl |-> l.hitl, stem |-> s]

Cores(tr, f) ==
    {EntryCore(tr, f, n) : n \in Bare(tr, f)} \cup {LeafCore(tr, f, s) : s \in Leaves(tr, f)}

LEMMA EntryRowCore ==
    ASSUME NEW tr, NEW f, NEW n
    PROVE  DOMAIN EntryRow(tr, f, n) = RowFields /\ Core(EntryRow(tr, f, n)) = EntryCore(tr, f, n)
           /\ EntryRow(tr, f, n).plan = NoName
  BY DEF EntryRow, RowFields, Core, EntryCore

LEMMA LeafRowCore ==
    ASSUME NEW tr, NEW f, NEW s
    PROVE  DOMAIN LeafRow(tr, f, s) = RowFields /\ Core(LeafRow(tr, f, s)) = LeafCore(tr, f, s)
           /\ LeafRow(tr, f, s).plan = NoName
  <1> DEFINE l == tr.leaf[f][s]
             base == EntryRow(tr, f, l.id)
  <1>1. base.raw = tr.entry[f][l.id].after /\ base.hitl = tr.entry[f][l.id].hitl
    BY DEF EntryRow
  <1>2. QED
    BY <1>1 DEF LeafRow, RowFields, Core, LeafCore, LeafKey

\* What a row says of its plan, if it has one.
ReadsPlan(tr, f, r) ==
    LET plans == PlansFor(tr, f, r.id, r.file)
        q == tr.plan[f][r.plan]
    IN /\ plans = {} => r.plan = NoName
       /\ plans # {} => /\ r.plan \in plans
                        /\ r.halted = q.halted
                        /\ r.status = IF q.status \in Statuses \cup {""} THEN q.status ELSE "blocked"

\* A plan changes a row's status only.
LEMMA WithPlanFacts ==
    ASSUME NEW tr, NEW f, NEW r, DOMAIN r = RowFields, r.plan = NoName
    PROVE  Core(WithPlan(tr, f, r)) = Core(r) /\ ReadsPlan(tr, f, WithPlan(tr, f, r))
  <1> DEFINE plans == PlansFor(tr, f, r.id, r.file)
             p == CHOOSE x \in plans : TRUE
             q == tr.plan[f][p]
             status == IF q.status \in Statuses \cup {""} THEN q.status ELSE "blocked"
             state == IF r.mirrored # "" THEN r.mirrored ELSE StateOf(status)
             w == [r EXCEPT !.plan = p, !.status = status, !.halted = q.halted, !.state = state]
  <1> HIDE DEF plans
  <1>1. CASE plans = {}
    <2>1. WithPlan(tr, f, r) = r
      BY <1>1 DEF WithPlan, plans
    <2>2. QED
      BY <1>1, <2>1 DEF ReadsPlan, plans
  <1>2. CASE plans # {}
    <2>1. p \in plans
      BY <1>2
    <2> HIDE DEF p
    <2> HIDE DEF status, state
    <2>2. Core(w) = Core(r) /\ w.plan = p /\ w.status = status /\ w.halted = q.halted
          /\ w.id = r.id /\ w.file = r.file
      BY DEF RowFields, Core
    <2>3. WithPlan(tr, f, r) = w
      BY <1>2 DEF WithPlan, plans, p, status, state
    <2> HIDE DEF w
    <2>4. ReadsPlan(tr, f, w)
      BY <1>2, <2>1, <2>2 DEF plans, status, ReadsPlan
    <2>5. QED
      BY <2>2, <2>3, <2>4
  <1>3. QED
    BY <1>1, <1>2

\* The rows of a folder, one for each of its cores.
LEMMA RowFacts ==
    ASSUME NEW tr, NEW f
    PROVE  /\ \A r \in FolderRows(tr, f) : Core(r) \in Cores(tr, f) /\ ReadsPlan(tr, f, r)
           /\ \A c \in Cores(tr, f) : \E r \in FolderRows(tr, f) : Core(r) = c
  <1> DEFINE base == {EntryRow(tr, f, n) : n \in Bare(tr, f)} \cup {LeafRow(tr, f, s) : s \in Leaves(tr, f)}
  <1>0. FolderRows(tr, f) = {WithPlan(tr, f, r) : r \in base}
    BY DEF FolderRows, Bare
  <1>1. ASSUME NEW b \in base
        PROVE  DOMAIN b = RowFields /\ b.plan = NoName /\ Core(b) \in Cores(tr, f)
    <2>1. CASE \E n \in Bare(tr, f) : b = EntryRow(tr, f, n)
      BY <2>1, EntryRowCore DEF Cores
    <2>2. CASE \E s \in Leaves(tr, f) : b = LeafRow(tr, f, s)
      BY <2>2, LeafRowCore DEF Cores
    <2>3. QED
      BY <2>1, <2>2
  <1>2. ASSUME NEW c \in Cores(tr, f)
        PROVE  \E b \in base : Core(b) = c
    <2>1. CASE \E n \in Bare(tr, f) : c = EntryCore(tr, f, n)
      BY <2>1, EntryRowCore
    <2>2. CASE \E s \in Leaves(tr, f) : c = LeafCore(tr, f, s)
      BY <2>2, LeafRowCore
    <2>3. QED
      BY <2>1, <2>2 DEF Cores
  <1> HIDE DEF base
  <1>3. ASSUME NEW r \in FolderRows(tr, f)
        PROVE  Core(r) \in Cores(tr, f) /\ ReadsPlan(tr, f, r)
    <2>1. PICK b \in base : r = WithPlan(tr, f, b)
      BY <1>0
    <2>2. QED
      BY <2>1, <1>1, WithPlanFacts
  <1>4. ASSUME NEW c \in Cores(tr, f)
        PROVE  \E r \in FolderRows(tr, f) : Core(r) = c
    <2>1. PICK b \in base : Core(b) = c
      BY <1>2
    <2>2. WithPlan(tr, f, b) \in FolderRows(tr, f)
      BY <1>0
    <2>3. QED
      BY <2>1, <2>2, <1>1, WithPlanFacts
  <1>5. QED
    BY <1>3, <1>4

LEMMA EntryCoreFields ==
    ASSUME NEW tr, NEW f, NEW n
    PROVE  /\ EntryCore(tr, f, n).key = Key(f, n, NoName) /\ EntryCore(tr, f, n).id = n
           /\ EntryCore(tr, f, n).file = NoName /\ EntryCore(tr, f, n).tracker = NoName
           /\ EntryCore(tr, f, n).type = tr.entry[f][n].type
           /\ EntryCore(tr, f, n).raw = tr.entry[f][n].after /\ EntryCore(tr, f, n).planned = tr.entry[f][n].after
           /\ EntryCore(tr, f, n).wanted = tr.entry[f][n].hitl /\ ~EntryCore(tr, f, n).joined
           /\ EntryCore(tr, f, n).hitl = tr.entry[f][n].hitl /\ EntryCore(tr, f, n).stem = tr.entry[f][n].stem
  BY DEF EntryCore

LEMMA LeafCoreFields ==
    ASSUME NEW tr, NEW f, NEW s
    PROVE  /\ LeafCore(tr, f, s).key = LeafKey(tr, f, s) /\ LeafCore(tr, f, s).id = tr.leaf[f][s].id
           /\ LeafCore(tr, f, s).file = s /\ LeafCore(tr, f, s).tracker = tr.leaf[f][s].tracker
           /\ LeafCore(tr, f, s).type = tr.leaf[f][s].type
           /\ LeafCore(tr, f, s).raw = tr.leaf[f][s].after
           /\ (LeafCore(tr, f, s).joined <=> tr.leaf[f][s].id \in DOMAIN tr.entry[f])
           /\ tr.leaf[f][s].id \in DOMAIN tr.entry[f] =>
                /\ LeafCore(tr, f, s).planned = tr.entry[f][tr.leaf[f][s].id].after
                /\ LeafCore(tr, f, s).wanted = tr.entry[f][tr.leaf[f][s].id].hitl
           /\ tr.leaf[f][s].id \notin DOMAIN tr.entry[f] => LeafCore(tr, f, s).planned = {}
           /\ LeafCore(tr, f, s).hitl = tr.leaf[f][s].hitl /\ LeafCore(tr, f, s).stem = s
  BY DEF LeafCore

LEMMA KeyFields ==
    /\ \A f, n, s : Key(f, n, s).folder = f /\ Key(f, n, s).id = n /\ Key(f, n, s).file = s
    /\ \A f, n, s : f # NoName => Key(f, n, s) # NoKey
    /\ \A f, n, s, g, m, t : Key(f, n, s) = Key(g, m, t) <=> f = g /\ n = m /\ s = t
  BY DEF Key, NoKey

\* The leaf file of an entry.
LEMMA LeafForFacts ==
    ASSUME NEW tr, NEW f, NEW n, NoName \notin Leaves(tr, f)
    PROVE  /\ LeafFor(tr, f, n) = NoName <=> \A s \in Leaves(tr, f) : tr.leaf[f][s].id # n
           /\ LeafFor(tr, f, n) # NoName => /\ LeafFor(tr, f, n) \in Leaves(tr, f)
                                        /\ tr.leaf[f][LeafFor(tr, f, n)].id = n
  <1> DEFINE mine == {s \in Leaves(tr, f) : tr.leaf[f][s].id = n}
  <1>1. CASE mine = {}
    BY <1>1 DEF LeafFor
  <1>2. CASE mine # {}
    <2>1. (CHOOSE s \in mine : TRUE) \in mine
      BY <1>2
    <2>2. LeafFor(tr, f, n) = CHOOSE s \in mine : TRUE
      BY <1>2 DEF LeafFor
    <2> HIDE DEF LeafFor
    <2>3. QED
      BY <2>1, <2>2
  <1>3. QED
    BY <1>1, <1>2

\* Keys tell the tickets of a folder apart.
LEMMA CoreKeys ==
    ASSUME NEW tr, NEW f, IsTree(tr), f \in DOMAIN tr.entry
    PROVE  /\ \A c \in Cores(tr, f) : /\ c.key = Key(f, c.key.id, c.key.file) /\ c.key # NoKey
                                      /\ c.id # NoId => c.key = Key(f, c.id, NoName)
                                      /\ c.id = NoId => c.key = Key(f, NoId, c.file) /\ c.file # NoName
                                      /\ c.stem # NoName
           /\ IdsAreUnique(tr, f) => \A c, d \in Cores(tr, f) : c.key = d.key => c = d
  <1>0. f # NoName /\ NoId \notin DOMAIN tr.entry[f] /\ NoName \notin Leaves(tr, f)
        /\ \A n \in DOMAIN tr.entry[f] : tr.entry[f][n].stem # NoName
    BY DEF IsTree, Leaves
  <1>1. ASSUME NEW c \in Cores(tr, f)
        PROVE  \/ \E n \in Bare(tr, f) : c = EntryCore(tr, f, n)
               \/ \E s \in Leaves(tr, f) : c = LeafCore(tr, f, s)
    BY DEF Cores
  <1>2. ASSUME NEW c \in Cores(tr, f)
        PROVE  /\ c.key = Key(f, c.key.id, c.key.file) /\ c.key # NoKey
               /\ c.id # NoId => c.key = Key(f, c.id, NoName)
               /\ c.id = NoId => c.key = Key(f, NoId, c.file) /\ c.file # NoName
               /\ c.stem # NoName
    <2>1. CASE \E n \in Bare(tr, f) : c = EntryCore(tr, f, n)
      BY <1>0, <2>1, EntryCoreFields, KeyFields DEF Bare
    <2>2. CASE \E s \in Leaves(tr, f) : c = LeafCore(tr, f, s)
      BY <1>0, <2>2, LeafCoreFields, KeyFields DEF LeafKey
    <2>3. QED
      BY <1>1, <2>1, <2>2
  <1>3. ASSUME IdsAreUnique(tr, f), NEW c \in Cores(tr, f), NEW d \in Cores(tr, f), c.key = d.key
        PROVE  c = d
    <2>1. c.id = d.id /\ (c.id = NoId => c.file = d.file)
      BY <1>2, <1>3, KeyFields
    <2>2. ASSUME NEW n \in Bare(tr, f), NEW s \in Leaves(tr, f), tr.leaf[f][s].id = n
          PROVE  FALSE
      BY <2>2, <1>0, LeafForFacts DEF Bare
    <2>3. CASE \E n \in Bare(tr, f) : c = EntryCore(tr, f, n)
      <3>1. PICK n \in Bare(tr, f) : c = EntryCore(tr, f, n)
        BY <2>3
      <3>2. c.id = n
        BY <3>1 DEF EntryCore
      <3>3. CASE \E m \in Bare(tr, f) : d = EntryCore(tr, f, m)
        <4>1. PICK m \in Bare(tr, f) : d = EntryCore(tr, f, m)
          BY <3>3
        <4>2. QED
          BY <4>1, <3>1, <3>2, <2>1 DEF EntryCore
      <3>4. CASE \E s \in Leaves(tr, f) : d = LeafCore(tr, f, s)
        <4>1. PICK s \in Leaves(tr, f) : d = LeafCore(tr, f, s)
          BY <3>4
        <4>2. QED
          BY <4>1, <3>2, <2>1, <2>2 DEF LeafCore
      <3>5. QED
        BY <1>1, <3>3, <3>4
    <2>4. CASE \E s \in Leaves(tr, f) : c = LeafCore(tr, f, s)
      <3>1. PICK s \in Leaves(tr, f) : c = LeafCore(tr, f, s)
        BY <2>4
      <3>2. c.id = tr.leaf[f][s].id /\ c.file = s
        BY <3>1 DEF LeafCore
      <3>3. CASE \E m \in Bare(tr, f) : d = EntryCore(tr, f, m)
        <4>1. PICK m \in Bare(tr, f) : d = EntryCore(tr, f, m)
          BY <3>3
        <4>2. QED
          BY <4>1, <3>2, <2>1, <2>2 DEF EntryCore
      <3>4. CASE \E r \in Leaves(tr, f) : d = LeafCore(tr, f, r)
        <4>1. PICK r \in Leaves(tr, f) : d = LeafCore(tr, f, r)
          BY <3>4
        <4>2. d.id = tr.leaf[f][r].id /\ d.file = r
          BY <4>1 DEF LeafCore
        <4>3. s = r
          BY <4>2, <3>2, <2>1, <1>3 DEF IdsAreUnique
        <4>4. QED
          BY <4>1, <3>1, <4>3
      <3>5. QED
        BY <1>1, <3>3, <3>4
    <2>5. QED
      BY <1>1, <2>3, <2>4
  <1>4. QED
    BY <1>2, <1>3

\* A row is told by its core.
LEMMA RowsByCore ==
    ASSUME NEW tr, NEW f, IsTree(tr), f \in DOMAIN tr.entry,
           NEW r \in FolderRows(tr, f), NEW q \in FolderRows(tr, f), Core(r) = Core(q)
    PROVE  r = q
  <1> DEFINE base == {EntryRow(tr, f, n) : n \in Bare(tr, f)} \cup {LeafRow(tr, f, s) : s \in Leaves(tr, f)}
  <1>0. FolderRows(tr, f) = {WithPlan(tr, f, b) : b \in base}
    BY DEF FolderRows, Bare
  <1>1. NoName \notin Leaves(tr, f)
    BY DEF IsTree, Leaves
  <1>2. ASSUME NEW b \in base
        PROVE  /\ DOMAIN b = RowFields /\ b.plan = NoName
               /\ b = IF Core(b).file = NoName THEN EntryRow(tr, f, Core(b).id) ELSE LeafRow(tr, f, Core(b).file)
    <2>1. CASE \E n \in Bare(tr, f) : b = EntryRow(tr, f, n)
      BY <2>1, EntryRowCore DEF EntryCore
    <2>2. CASE \E s \in Leaves(tr, f) : b = LeafRow(tr, f, s)
      BY <1>1, <2>2, LeafRowCore, LeafCoreFields
    <2>3. QED
      BY <2>1, <2>2
  <1> HIDE DEF base
  <1>3. PICK b \in base : r = WithPlan(tr, f, b)
    BY <1>0
  <1>4. PICK d \in base : q = WithPlan(tr, f, d)
    BY <1>0
  <1>5. Core(b) = Core(d)
    BY <1>2, <1>3, <1>4, WithPlanFacts
  <1>6. b = d
    BY <1>2, <1>5
  <1>7. QED
    BY <1>3, <1>4, <1>6

-----------------------------------------------------------------------------
(* References.                                                             *)

AllCores(tr, s) == UNION {Cores(tr, f) : f \in FoldersRead(tr, s)}

KeysOf(R) == {r.key : r \in R}
MatesOf(R, f, x) == {r.key : r \in {r \in R : r.key.folder = f /\ r.file = x}}
TrackedOf(R, x) == {r.key : r \in {r \in R : r.tracker = x}}
EpicsOf(tr, s, x) == {e \in EpicsRead(tr, s) : tr.container[e].tracker = x}
There(tr, ref) == {Key(e, ref.id, NoName) : e \in {e \in Epics(tr) : tr.number[e] = ref.epic}}

NameKeyBy(tr, s, mates, tracked, epics, x) ==
    IF x = NoName THEN NoKey
    ELSE IF mates # {} THEN CHOOSE k \in mates : TRUE
    ELSE IF x \in EpicsRead(tr, s) THEN Key(x, NoId, NoName)
    ELSE IF tracked # {} THEN CHOOSE k \in tracked : TRUE
    ELSE IF epics # {} THEN Key(CHOOSE e \in epics : TRUE, NoId, NoName)
    ELSE NoKey

MatesFor(R, f, b, x) == IF b THEN MatesOf(R, f, x) ELSE {}

LEMMA NameKeyIs ==
    ASSUME NEW tr, NEW s, NEW R, NEW f, NEW b \in BOOLEAN, NEW x
    PROVE  NameKey(tr, s, R, f, b, x)
             = NameKeyBy(tr, s, MatesFor(R, f, b, x), TrackedOf(R, x), EpicsOf(tr, s, x), x)
  <1>1. {r.key : r \in {r \in R : b /\ r.key.folder = f /\ r.file = x}} = MatesFor(R, f, b, x)
    BY DEF MatesOf, MatesFor
  <1> DEFINE mates == {r.key : r \in {r \in R : b /\ r.key.folder = f /\ r.file = x}}
             tracked == {r.key : r \in {r \in R : r.tracker = x}}
             epics == {e \in EpicsRead(tr, s) : tr.container[e].tracker = x}
  <1>2. NameKey(tr, s, R, f, b, x) = NameKeyBy(tr, s, mates, tracked, epics, x)
    BY DEF NameKey, NameKeyBy
  <1>3. tracked = TrackedOf(R, x) /\ epics = EpicsOf(tr, s, x)
    BY DEF TrackedOf, EpicsOf
  <1> HIDE DEF mates, tracked, epics
  <1>4. mates = MatesFor(R, f, b, x)
    BY <1>1 DEF mates
  <1>5. QED
    BY <1>2, <1>3, <1>4

\* What a reference names depends on the keys, the files and the tracker ids of
\* the rows only.
LEMMA ResolveCases ==
    ASSUME NEW tr, NEW s, NEW R, NEW f, NEW b \in BOOLEAN, NEW ref
    PROVE  /\ ref.kind = "id" => Resolve(tr, s, R, f, b, ref)
                = IF b /\ Key(f, ref.id, NoName) \in KeysOf(R) THEN Key(f, ref.id, NoName) ELSE NoKey
           /\ ref.kind = "cross" => Resolve(tr, s, R, f, b, ref)
                = IF There(tr, ref) \cap KeysOf(R) = {} THEN NoKey ELSE CHOOSE k \in There(tr, ref) : TRUE
           /\ ref.kind \notin {"id", "cross"} => Resolve(tr, s, R, f, b, ref)
                = NameKeyBy(tr, s, MatesFor(R, f, b, ref.name), TrackedOf(R, ref.name),
                            EpicsOf(tr, s, ref.name), ref.name)
  BY NameKeyIs DEF Resolve, KeysOf, There

ResolveAt(tr, s, f, b, ref) == Resolve(tr, s, AllCores(tr, s), f, b, ref)
Meant(tr, s, f, b, refs) == {ResolveAt(tr, s, f, b, x) : x \in refs}

LEMMA RowsAreCores ==
    ASSUME NEW tr, NEW s
    PROVE  /\ \A r \in Rows(tr, s) : Core(r) \in AllCores(tr, s)
           /\ \A c \in AllCores(tr, s) : \E r \in Rows(tr, s) : Core(r) = c
  <1>1. ASSUME NEW r \in Rows(tr, s)
        PROVE  Core(r) \in AllCores(tr, s)
    <2>1. PICK f \in FoldersRead(tr, s) : r \in FolderRows(tr, f)
      BY DEF Rows
    <2>2. QED
      BY <2>1, RowFacts DEF AllCores
  <1>2. ASSUME NEW c \in AllCores(tr, s)
        PROVE  \E r \in Rows(tr, s) : Core(r) = c
    <2>1. PICK f \in FoldersRead(tr, s) : c \in Cores(tr, f)
      BY DEF AllCores
    <2>2. PICK r \in FolderRows(tr, f) : Core(r) = c
      BY <2>1, RowFacts
    <2>3. QED
      BY <2>2 DEF Rows
  <1>3. QED
    BY <1>1, <1>2

LEMMA CoreOf ==
    ASSUME NEW r
    PROVE  /\ Core(r).key = r.key /\ Core(r).id = r.id /\ Core(r).file = r.file /\ Core(r).tracker = r.tracker
           /\ Core(r).type = r.type /\ Core(r).raw = r.raw /\ Core(r).planned = r.planned
           /\ (Core(r).joined <=> r.joined)
           /\ Core(r).wanted = r.wanted /\ Core(r).hitl = r.hitl /\ Core(r).stem = r.stem
  BY DEF Core

LEMMA ResolveRows ==
    ASSUME NEW tr, NEW s, NEW f, NEW b \in BOOLEAN, NEW refs
    PROVE  ResolveAll(tr, s, Rows(tr, s), f, b, refs) = Meant(tr, s, f, b, refs)
  <1>1. KeysOf(Rows(tr, s)) = KeysOf(AllCores(tr, s))
    BY RowsAreCores, CoreOf DEF KeysOf
  <1>2. \A x : TrackedOf(Rows(tr, s), x) = TrackedOf(AllCores(tr, s), x)
    BY RowsAreCores, CoreOf DEF TrackedOf
  <1>3. \A x : MatesOf(Rows(tr, s), f, x) = MatesOf(AllCores(tr, s), f, x)
    BY RowsAreCores, CoreOf DEF MatesOf
  <1>4. ASSUME NEW x
        PROVE  Resolve(tr, s, Rows(tr, s), f, b, x) = ResolveAt(tr, s, f, b, x)
    <2> DEFINE R == Rows(tr, s)
               C == AllCores(tr, s)
    <2>1. MatesFor(R, f, b, x.name) = MatesFor(C, f, b, x.name)
      BY <1>3 DEF MatesFor
    <2> HIDE DEF R, C
    <2>2. KeysOf(R) = KeysOf(C) /\ TrackedOf(R, x.name) = TrackedOf(C, x.name)
      BY <1>1, <1>2 DEF R, C
    <2>3. Resolve(tr, s, R, f, b, x) = Resolve(tr, s, C, f, b, x)
      <3>1. CASE x.kind = "id"
        BY <3>1, <2>2, ResolveCases
      <3>2. CASE x.kind = "cross"
        <4>1. \A Z : Resolve(tr, s, Z, f, b, x)
                = IF There(tr, x) \cap KeysOf(Z) = {} THEN NoKey ELSE CHOOSE k \in There(tr, x) : TRUE
          BY <3>2, ResolveCases
        <4>2. QED
          BY <4>1, <2>2
      <3>3. CASE x.kind \notin {"id", "cross"}
        BY <3>3, <2>1, <2>2, ResolveCases
      <3>4. QED
        BY <3>1, <3>2, <3>3
    <2>4. QED
      BY <2>3 DEF ResolveAt, R, C
  <1>5. QED
    BY <1>4 DEF ResolveAll, Meant

AfterKeys(tr, s, c) == Meant(tr, s, c.key.folder, TRUE, c.raw)
Planned(tr, s, c) == Meant(tr, s, c.key.folder, TRUE, c.planned)
GatesAt(tr, s) == [e \in EpicsRead(tr, s) |-> Meant(tr, s, e, FALSE, tr.container[e].after)]
Gated(tr, s, c) == IF c.key.folder \in EpicsRead(tr, s) THEN GatesAt(tr, s)[c.key.folder] ELSE {}
Drifts(tr, s, c) == c.joined /\ (Planned(tr, s, c) # AfterKeys(tr, s, c) \/ c.wanted # c.hitl)

\* A ticket, from the row it is made of.
TicketOf(tr, s, t, r) ==
    /\ t.key = r.key /\ t.id = r.id /\ t.file = r.file /\ t.stem = r.stem /\ t.type = r.type
    /\ t.tracker = r.tracker /\ t.status = r.status /\ t.state = r.state
    /\ t.hitl = r.hitl /\ t.halted = r.halted /\ t.plan = r.plan
    /\ t.after = AfterKeys(tr, s, r) /\ t.planned = Planned(tr, s, r) /\ t.gated = Gated(tr, s, r)
    /\ (t.drift <=> Drifts(tr, s, r))

LEMMA ResolvedFacts ==
    ASSUME NEW tr, NEW s
    PROVE  /\ Resolved(tr, s).gates = GatesAt(tr, s)
           /\ \A t \in Resolved(tr, s).tickets : \E r \in Rows(tr, s) : TicketOf(tr, s, t, r)
           /\ \A r \in Rows(tr, s) : \E t \in Resolved(tr, s).tickets : TicketOf(tr, s, t, r)
           /\ \A r \in Rows(tr, s) : \A t, u \in Resolved(tr, s).tickets :
                TicketOf(tr, s, t, r) /\ TicketOf(tr, s, u, r) /\ (\A q \in Rows(tr, s) : q.key = r.key => q = r)
                  => t = u
  <1> DEFINE rows == Rows(tr, s)
             gates == [e \in EpicsRead(tr, s) |-> ResolveAll(tr, s, rows, e, FALSE, tr.container[e].after)]
             after(r) == ResolveAll(tr, s, rows, r.key.folder, TRUE, r.raw)
             planned(r) == ResolveAll(tr, s, rows, r.key.folder, TRUE, r.planned)
             ticket(r) ==
               [key |-> r.key, id |-> r.id, file |-> r.file, stem |-> r.stem, type |-> r.type,
                tracker |-> r.tracker, status |-> r.status, state |-> r.state,
                refine |-> r.refine, refined |-> r.refined, hitl |-> r.hitl,
                halted |-> r.halted, plan |-> r.plan, after |-> after(r),
                planned |-> planned(r),
                gated |-> IF r.key.folder \in DOMAIN gates THEN gates[r.key.folder] ELSE {},
                drift |-> r.joined /\ (planned(r) # after(r) \/ r.wanted # r.hitl)]
  <1>1. Resolved(tr, s) = [tickets |-> {ticket(r) : r \in rows}, gates |-> gates]
    BY DEF Resolved
  <1>2. gates = GatesAt(tr, s)
    BY ResolveRows DEF GatesAt
  <1>3. ASSUME NEW r \in rows
        PROVE  TicketOf(tr, s, ticket(r), r)
    <2>1. after(r) = AfterKeys(tr, s, r) /\ planned(r) = Planned(tr, s, r)
      BY ResolveRows DEF AfterKeys, Planned
    <2>2. DOMAIN gates = EpicsRead(tr, s)
      OBVIOUS
    <2> HIDE DEF after, planned, gates, rows
    <2>3. QED
      BY <1>2, <2>1, <2>2 DEF TicketOf, Gated, Drifts
  <1>7. \A r \in rows : ticket(r).key = r.key
    OBVIOUS
  <1> HIDE DEF ticket, gates
  <1>4. \A t \in Resolved(tr, s).tickets : \E r \in rows : t = ticket(r)
    BY <1>1
  <1>5. \A r \in rows : ticket(r) \in Resolved(tr, s).tickets
    BY <1>1
  <1>6. Resolved(tr, s).gates = gates
    BY <1>1
  <1>8. ASSUME NEW r \in rows, NEW t \in Resolved(tr, s).tickets, NEW u \in Resolved(tr, s).tickets,
               TicketOf(tr, s, t, r), TicketOf(tr, s, u, r), \A q \in rows : q.key = r.key => q = r
        PROVE  t = u
    <2>1. t.key = r.key /\ u.key = r.key
      BY <1>8 DEF TicketOf
    <2>2. QED
      BY <2>1, <1>4, <1>7, <1>8
  <1>9. QED
    BY <1>2, <1>3, <1>4, <1>5, <1>6, <1>8

-----------------------------------------------------------------------------
(* What load_tree reads, over cores.                                       *)

IdsUnique(tr) == \A f \in DOMAIN tr.entry : IdsAreUnique(tr, f)
NumbersUnique(tr) ==
    \A e, g \in Epics(tr) : tr.number[e] = tr.number[g] /\ tr.number[e] # NoId => e = g

LEMMA AllCoresFacts ==
    ASSUME NEW tr, IsTree(tr), NEW s \in Scopes(tr)
    PROVE  /\ FoldersRead(tr, s) \subseteq DOMAIN tr.entry
           /\ EpicsRead(tr, s) \subseteq Epics(tr) \cap DOMAIN tr.entry
           /\ \A c \in AllCores(tr, s) :
                /\ c.key.folder \in FoldersRead(tr, s) /\ c \in Cores(tr, c.key.folder) /\ c.key # NoKey
                /\ c.id # NoId => c.key = Key(c.key.folder, c.id, NoName)
                /\ c.id = NoId => c.key = Key(c.key.folder, NoId, c.file) /\ c.file # NoName
           /\ IdsUnique(tr) => \A c, d \in AllCores(tr, s) : c.key = d.key => c = d
  <1>1. FoldersRead(tr, s) \subseteq DOMAIN tr.entry
    BY DEF FoldersRead, Scopes, IsTree
  <1>2. EpicsRead(tr, s) \subseteq Epics(tr) \cap DOMAIN tr.entry
    BY DEF EpicsRead, IsTree
  <1>3. ASSUME NEW c \in AllCores(tr, s)
        PROVE  /\ c.key.folder \in FoldersRead(tr, s) /\ c \in Cores(tr, c.key.folder) /\ c.key # NoKey
               /\ c.id # NoId => c.key = Key(c.key.folder, c.id, NoName)
               /\ c.id = NoId => c.key = Key(c.key.folder, NoId, c.file) /\ c.file # NoName
    <2>1. PICK f \in FoldersRead(tr, s) : c \in Cores(tr, f)
      BY DEF AllCores
    <2>2. f \in DOMAIN tr.entry
      BY <1>1
    <2>3. c.key.folder = f
      BY <2>1, <2>2, CoreKeys, KeyFields
    <2>4. QED
      BY <2>1, <2>2, <2>3, CoreKeys
  <1>4. ASSUME IdsUnique(tr), NEW c \in AllCores(tr, s), NEW d \in AllCores(tr, s), c.key = d.key
        PROVE  c = d
    <2>1. c.key.folder \in DOMAIN tr.entry
      BY <1>1, <1>3
    <2>2. c \in Cores(tr, c.key.folder) /\ d \in Cores(tr, c.key.folder)
      BY <1>3, <1>4
    <2>3. QED
      BY <1>4, <2>1, <2>2, CoreKeys DEF IdsUnique
  <1>5. QED
    BY <1>1, <1>2, <1>3, <1>4

TicketKeys(tr, s) == KeysOf(AllCores(tr, s))
EpicKeys(tr, s) == {Key(e, NoId, NoName) : e \in EpicsRead(tr, s)}

LEMMA TicketsAreNoEpics ==
    ASSUME NEW tr, IsTree(tr), NEW s \in Scopes(tr)
    PROVE  /\ \A k \in TicketKeys(tr, s) : k \notin EpicKeys(tr, s) /\ k # NoKey
           /\ NoKey \notin EpicKeys(tr, s)
           /\ \A k \in TicketKeys(tr, s) : k.id = NoId => k.file # NoName
           /\ \A k \in TicketKeys(tr, s) : k.id # NoId => k = Key(k.folder, k.id, NoName)
  <1>1. ASSUME NEW k \in TicketKeys(tr, s)
        PROVE  /\ k # NoKey /\ (k.id = NoId => k.file # NoName)
               /\ k.id # NoId => k = Key(k.folder, k.id, NoName)
    <2>1. PICK c \in AllCores(tr, s) : c.key = k
      BY DEF TicketKeys, KeysOf
    <2>2. QED
      BY <2>1, AllCoresFacts, KeyFields
  <1>2. \A k \in TicketKeys(tr, s) : k \notin EpicKeys(tr, s)
    BY <1>1, KeyFields DEF EpicKeys
  <1>3. NoKey \notin EpicKeys(tr, s)
    <2>1. NoName \notin EpicsRead(tr, s)
      BY AllCoresFacts DEF IsTree
    <2>2. QED
      BY <2>1, KeyFields DEF EpicKeys
  <1>4. QED
    BY <1>1, <1>2, <1>3

\* There is one ticket at most that an epic's number and an id name.
LEMMA ThereIsOne ==
    ASSUME NEW tr, NumbersUnique(tr), NEW ref, ref.kind = "cross", IsRef(ref)
    PROVE  \A k, q \in There(tr, ref) : k = q
  <1>1. ref.epic # NoId
    BY DEF IsRef
  <1>2. QED
    BY <1>1 DEF There, NumbersUnique

LEMMA NameKeyRange ==
    ASSUME NEW tr, NEW s, NEW mates, NEW tracked, NEW epics, epics \subseteq EpicsRead(tr, s), NEW x
    PROVE  NameKeyBy(tr, s, mates, tracked, epics, x) \in mates \cup tracked \cup EpicKeys(tr, s) \cup {NoKey}
  <1>1. mates # {} => (CHOOSE k \in mates : TRUE) \in mates
    OBVIOUS
  <1>2. tracked # {} => (CHOOSE k \in tracked : TRUE) \in tracked
    OBVIOUS
  <1>3. epics # {} => Key(CHOOSE e \in epics : TRUE, NoId, NoName) \in EpicKeys(tr, s)
    BY DEF EpicKeys
  <1>4. x \in EpicsRead(tr, s) => Key(x, NoId, NoName) \in EpicKeys(tr, s)
    BY DEF EpicKeys
  <1>5. QED
    BY <1>1, <1>2, <1>3, <1>4 DEF NameKeyBy

\* A reference names a ticket read, an epic read, or nothing.
LEMMA ResolveRange ==
    ASSUME NEW tr, NumbersUnique(tr), NEW s, NEW f, NEW b \in BOOLEAN, NEW ref, IsRef(ref)
    PROVE  ResolveAt(tr, s, f, b, ref) \in TicketKeys(tr, s) \cup EpicKeys(tr, s) \cup {NoKey}
  <1> DEFINE C == AllCores(tr, s)
  <1>1. CASE ref.kind = "id"
    BY <1>1, ResolveCases DEF ResolveAt, TicketKeys
  <1>2. CASE ref.kind = "cross"
    <2>1. ResolveAt(tr, s, f, b, ref)
            = IF There(tr, ref) \cap KeysOf(C) = {} THEN NoKey ELSE CHOOSE k \in There(tr, ref) : TRUE
      BY <1>2, ResolveCases DEF ResolveAt
    <2>2. CASE There(tr, ref) \cap KeysOf(C) # {}
      <3>1. PICK k \in There(tr, ref) : k \in KeysOf(C)
        BY <2>2
      <3>2. (CHOOSE q \in There(tr, ref) : TRUE) = k
        BY <1>2, <3>1, ThereIsOne
      <3>3. QED
        BY <2>1, <2>2, <3>1, <3>2 DEF TicketKeys
    <2>3. QED
      BY <2>1, <2>2
  <1>3. CASE ref.kind \notin {"id", "cross"}
    <2>1. EpicsOf(tr, s, ref.name) \subseteq EpicsRead(tr, s)
      BY DEF EpicsOf
    <2>2. MatesFor(C, f, b, ref.name) \subseteq KeysOf(C) /\ TrackedOf(C, ref.name) \subseteq KeysOf(C)
      BY DEF MatesFor, MatesOf, TrackedOf, KeysOf
    <2>3. ResolveAt(tr, s, f, b, ref)
            = NameKeyBy(tr, s, MatesFor(C, f, b, ref.name), TrackedOf(C, ref.name),
                        EpicsOf(tr, s, ref.name), ref.name)
      BY <1>3, ResolveCases DEF ResolveAt
    <2>4. ResolveAt(tr, s, f, b, ref)
            \in MatesFor(C, f, b, ref.name) \cup TrackedOf(C, ref.name) \cup EpicKeys(tr, s) \cup {NoKey}
      BY <2>1, <2>3, NameKeyRange
    <2>5. QED
      BY <2>2, <2>4 DEF TicketKeys
  <1>4. QED
    BY <1>1, <1>2, <1>3

CoreAt(tr, s, k) == CHOOSE c \in AllCores(tr, s) : c.key = k

\* Waits, over cores.
WaitsAt(tr, s) ==
    [k \in TicketKeys(tr, s) \cup EpicKeys(tr, s) |->
       IF k \in TicketKeys(tr, s) THEN AfterKeys(tr, s, CoreAt(tr, s, k)) \cup Gated(tr, s, CoreAt(tr, s, k))
       ELSE {q \in TicketKeys(tr, s) : q.folder = k.folder} \cup GatesAt(tr, s)[k.folder]]

\* HasCycle, for what waits for what.
Cyclic(waits, keys) ==
    LET left[i \in 0..Cardinality(DOMAIN waits)] ==
          IF i = 0 THEN Reached(waits, keys)
          ELSE LET had == left[i-1] IN {k \in had : waits[k] \cap had # {}}
    IN left[Cardinality(DOMAIN waits)] # {}

\* A ticket of the loaded tree, from a core.
TicketAt(tr, s, t, c) ==
    /\ t.key = c.key /\ t.id = c.id /\ t.file = c.file /\ t.stem = c.stem /\ t.type = c.type
    /\ t.tracker = c.tracker /\ t.hitl = c.hitl
    /\ t.after = AfterKeys(tr, s, c) /\ t.planned = Planned(tr, s, c) /\ t.gated = Gated(tr, s, c)
    /\ (t.drift <=> Drifts(tr, s, c))

LEMMA TicketsAreCores ==
    ASSUME NEW tr, NEW s
    PROVE  /\ \A t \in Resolved(tr, s).tickets : \E c \in AllCores(tr, s) : TicketAt(tr, s, t, c)
           /\ \A c \in AllCores(tr, s) : \E t \in Resolved(tr, s).tickets : TicketAt(tr, s, t, c)
  <1>1. ASSUME NEW r, NEW t, TicketOf(tr, s, t, r)
        PROVE  TicketAt(tr, s, t, Core(r))
    <2>1. AfterKeys(tr, s, Core(r)) = AfterKeys(tr, s, r) /\ Planned(tr, s, Core(r)) = Planned(tr, s, r)
          /\ Gated(tr, s, Core(r)) = Gated(tr, s, r)
      BY CoreOf DEF AfterKeys, Planned, Gated
    <2>2. Drifts(tr, s, Core(r)) <=> Drifts(tr, s, r)
      BY <2>1, CoreOf DEF Drifts
    <2>3. QED
      BY <1>1, <2>1, <2>2, CoreOf DEF TicketOf, TicketAt
  <1>2. QED
    BY <1>1, ResolvedFacts, RowsAreCores

LEMMA WaitsIs ==
    ASSUME NEW tr, IsTree(tr), IdsUnique(tr), NEW s \in Scopes(tr)
    PROVE  /\ Waits(Resolved(tr, s)) = WaitsAt(tr, s)
           /\ {t.key : t \in Resolved(tr, s).tickets} = TicketKeys(tr, s)
           /\ DOMAIN Resolved(tr, s).gates = EpicsRead(tr, s)
  <1> DEFINE l == Resolved(tr, s)
             tickets == {t.key : t \in l.tickets}
             epics == {Key(e, NoId, NoName) : e \in DOMAIN l.gates}
             own(k) == CHOOSE t \in l.tickets : t.key = k
  <1>1. tickets = TicketKeys(tr, s)
    BY TicketsAreCores DEF TicketAt, TicketKeys, KeysOf
  <1>2. l.gates = GatesAt(tr, s) /\ DOMAIN l.gates = EpicsRead(tr, s)
    <2>1. l.gates = GatesAt(tr, s)
      BY ResolvedFacts
    <2>2. DOMAIN GatesAt(tr, s) = EpicsRead(tr, s)
      BY DEF GatesAt
    <2>3. QED
      BY <2>1, <2>2
  <1>3. epics = EpicKeys(tr, s)
    BY <1>2 DEF EpicKeys
  <1>4. ASSUME NEW k \in TicketKeys(tr, s)
        PROVE  own(k).after = AfterKeys(tr, s, CoreAt(tr, s, k)) /\ own(k).gated = Gated(tr, s, CoreAt(tr, s, k))
    <2>1. PICK d \in AllCores(tr, s) : d.key = k
      BY DEF TicketKeys, KeysOf
    <2>2. CoreAt(tr, s, k) \in AllCores(tr, s) /\ CoreAt(tr, s, k).key = k
      BY <2>1 DEF CoreAt
    <2>3. PICK u \in l.tickets : u.key = k
      BY <1>1
    <2>4. own(k) \in l.tickets /\ own(k).key = k
      BY <2>3
    <2> HIDE DEF own, l
    <2>5. PICK c \in AllCores(tr, s) : TicketAt(tr, s, own(k), c)
      BY <2>4, TicketsAreCores DEF l
    <2>6. c.key = k
      BY <2>4, <2>5 DEF TicketAt
    <2>7. c = CoreAt(tr, s, k)
      BY <2>2, <2>6, AllCoresFacts
    <2>8. QED
      BY <2>5, <2>7 DEF TicketAt
  <1>5. Waits(l) = [k \in tickets \cup epics |->
                      IF k \in tickets THEN own(k).after \cup own(k).gated
                      ELSE {q \in tickets : q.folder = k.folder} \cup l.gates[k.folder]]
    BY DEF Waits
  <1> HIDE DEF own, l, tickets, epics
  <1>6. Waits(l) = WaitsAt(tr, s)
    BY <1>1, <1>2, <1>3, <1>4, <1>5 DEF WaitsAt
  <1>7. QED
    BY <1>1, <1>2, <1>6 DEF l, tickets

\* load_tree accepts a tree: what that says of its cores.
LEMMA LoadsIs ==
    ASSUME NEW tr, IsTree(tr), IdsUnique(tr), NEW s \in Scopes(tr)
    PROVE  Loads(tr, s) <=>
             /\ \A f \in FoldersRead(tr, s) : IdsAreUnique(tr, f) /\ PlansAreUnique(tr, f)
             /\ NumbersUnique(tr)
             /\ \A c \in AllCores(tr, s) : NoKey \notin AfterKeys(tr, s, c) \cup Planned(tr, s, c)
             /\ \A e \in EpicsRead(tr, s) : NoKey \notin GatesAt(tr, s)[e]
             /\ ~Cyclic(WaitsAt(tr, s), TicketKeys(tr, s))
  <1> DEFINE l == Resolved(tr, s)
  <1>1. HasCycle(l) <=> Cyclic(Waits(l), {t.key : t \in l.tickets})
    BY DEF HasCycle, Cyclic
  <1>2. HasCycle(l) <=> Cyclic(WaitsAt(tr, s), TicketKeys(tr, s))
    BY <1>1, WaitsIs
  <1>3. (\A t \in l.tickets : NoKey \notin t.after \cup t.planned)
          <=> \A c \in AllCores(tr, s) : NoKey \notin AfterKeys(tr, s, c) \cup Planned(tr, s, c)
    BY TicketsAreCores DEF TicketAt
  <1>4. (\A e \in DOMAIN l.gates : NoKey \notin l.gates[e])
          <=> \A e \in EpicsRead(tr, s) : NoKey \notin GatesAt(tr, s)[e]
    BY WaitsIs, ResolvedFacts
  <1> HIDE DEF l
  <1>5. QED
    BY <1>2, <1>3, <1>4 DEF Loads, Accepted, NumbersUnique, l

-----------------------------------------------------------------------------
(* Cycles.                                                                 *)

ReachAt(waits, keys, f, i) == IF i = 0 THEN keys ELSE LET had == f[i-1] IN had \cup UNION {waits[k] : k \in had}
IsReach(waits, keys, f, n) == f = [i \in 0..n |-> ReachAt(waits, keys, f, i)]
LeftAt(waits, keys, f, i) ==
    IF i = 0 THEN Reached(waits, keys) ELSE LET had == f[i-1] IN {k \in had : waits[k] \cap had # {}}
IsLeft(waits, keys, f, n) == f = [i \in 0..n |-> LeftAt(waits, keys, f, i)]

LEMMA ReachIsDefined ==
    ASSUME NEW waits, NEW keys, NEW m \in Nat
    PROVE  \E f : IsReach(waits, keys, f, m)
  <1> DEFINE T == {k \in Nat : \E f : IsReach(waits, keys, f, k)}
  <1>1. 0 \in T
    <2>1. IsReach(waits, keys, [i \in 0..0 |-> keys], 0)
      BY DEF IsReach, ReachAt
    <2>2. QED
      BY <2>1
  <1>2. ASSUME NEW k \in Nat, k \in T
        PROVE  k + 1 \in T
    <2>1. PICK f : IsReach(waits, keys, f, k)
      BY <1>2
    <2> DEFINE g == [i \in 0..(k + 1) |-> ReachAt(waits, keys, f, i)]
    <2>2. \A i \in 0..k : g[i] = f[i]
      BY <2>1 DEF IsReach
    <2>3. \A i \in 0..(k + 1) : ReachAt(waits, keys, f, i) = ReachAt(waits, keys, g, i)
      <3> HIDE DEF g
      <3>1. \A i \in 0..(k + 1) : i # 0 => i - 1 \in 0..k
        OBVIOUS
      <3>2. QED
        BY <2>2, <3>1 DEF ReachAt
    <2>4. IsReach(waits, keys, g, k + 1)
      <3>1. [i \in 0..(k + 1) |-> ReachAt(waits, keys, f, i)] = [i \in 0..(k + 1) |-> ReachAt(waits, keys, g, i)]
        <4> HIDE DEF g
        <4>1. QED
          BY <2>3
      <3>2. QED
        BY <3>1 DEF IsReach
    <2>5. QED
      BY <2>4
  <1>3. Nat \subseteq T
    <2> HIDE DEF T
    <2>1. QED
      BY <1>1, <1>2, Induction
  <1>4. QED
    BY <1>3

LEMMA LeftIsDefined ==
    ASSUME NEW waits, NEW keys, NEW m \in Nat
    PROVE  \E f : IsLeft(waits, keys, f, m)
  <1> DEFINE T == {k \in Nat : \E f : IsLeft(waits, keys, f, k)}
  <1>1. 0 \in T
    <2>1. IsLeft(waits, keys, [i \in 0..0 |-> Reached(waits, keys)], 0)
      BY DEF IsLeft, LeftAt
    <2>2. QED
      BY <2>1
  <1>2. ASSUME NEW k \in Nat, k \in T
        PROVE  k + 1 \in T
    <2>1. PICK f : IsLeft(waits, keys, f, k)
      BY <1>2
    <2> DEFINE g == [i \in 0..(k + 1) |-> LeftAt(waits, keys, f, i)]
    <2>2. \A i \in 0..k : g[i] = f[i]
      BY <2>1 DEF IsLeft
    <2>3. \A i \in 0..(k + 1) : LeftAt(waits, keys, f, i) = LeftAt(waits, keys, g, i)
      <3> HIDE DEF g
      <3>1. \A i \in 0..(k + 1) : i # 0 => i - 1 \in 0..k
        OBVIOUS
      <3>2. QED
        BY <2>2, <3>1 DEF LeftAt
    <2>4. IsLeft(waits, keys, g, k + 1)
      <3>1. [i \in 0..(k + 1) |-> LeftAt(waits, keys, f, i)] = [i \in 0..(k + 1) |-> LeftAt(waits, keys, g, i)]
        <4> HIDE DEF g
        <4>1. QED
          BY <2>3
      <3>2. QED
        BY <3>1 DEF IsLeft
    <2>5. QED
      BY <2>4
  <1>3. Nat \subseteq T
    <2> HIDE DEF T
    <2>1. QED
      BY <1>1, <1>2, Induction
  <1>4. QED
    BY <1>3

\* What keys wait for is reached from them.
LEMMA ReachedHas ==
    ASSUME NEW waits, NEW keys, Cardinality(DOMAIN waits) \in Nat
    PROVE  /\ keys \subseteq Reached(waits, keys)
           /\ Cardinality(DOMAIN waits) # 0 => \A k \in keys : waits[k] \subseteq Reached(waits, keys)
  <1> DEFINE n == Cardinality(DOMAIN waits)
             f == CHOOSE g : IsReach(waits, keys, g, n)
  <1>0. Reached(waits, keys) = f[n]
    BY DEF Reached, IsReach, ReachAt
  <1>1. IsReach(waits, keys, f, n)
    BY ReachIsDefined
  <1> HIDE DEF f, n
  <1>n. n \in Nat
    BY DEF n
  <1>2. f[0] = keys
    BY <1>1, <1>n DEF IsReach, ReachAt
  <1>3. \A i \in 1..n : f[i] = f[i-1] \cup UNION {waits[k] : k \in f[i-1]}
    BY <1>1, <1>n DEF IsReach, ReachAt
  <1> DEFINE T == {i \in Nat : i <= n => /\ keys \subseteq f[i]
                                         /\ i # 0 => \A k \in keys : waits[k] \subseteq f[i]}
  <1>4. 0 \in T
    BY <1>2
  <1>5. ASSUME NEW i \in Nat, i \in T, i + 1 <= n
        PROVE  /\ keys \subseteq f[i + 1]
               /\ \A k \in keys : waits[k] \subseteq f[i + 1]
    <2>1. keys \subseteq f[i]
      BY <1>5, <1>n
    <2>2. f[i + 1] = f[i] \cup UNION {waits[k] : k \in f[i]}
      <3>1. i + 1 \in 1..n /\ (i + 1) - 1 = i
        BY <1>5, <1>n
      <3>2. QED
        BY <1>3, <3>1
    <2>3. QED
      BY <2>1, <2>2
  <1>6. Nat \subseteq T
    <2>1. \A i \in Nat : i \in T => i + 1 \in T
      BY <1>5, <1>n
    <2> HIDE DEF T
    <2>2. QED
      BY <1>4, <2>1, Induction
  <1>7. n \in T
    BY <1>6, <1>n
  <1>8. QED
    BY <1>0, <1>7, <1>n DEF n

\* A set of keys reached, each of which waits for one of them, is a cycle.
LEMMA CycleIn ==
    ASSUME NEW waits, NEW keys, Cardinality(DOMAIN waits) \in Nat,
           NEW B, B # {}, B \subseteq Reached(waits, keys), \A k \in B : waits[k] \cap B # {}
    PROVE  Cyclic(waits, keys)
  <1> DEFINE n == Cardinality(DOMAIN waits)
             f == CHOOSE g : IsLeft(waits, keys, g, n)
  <1>0. Cyclic(waits, keys) <=> f[n] # {}
    BY DEF Cyclic, IsLeft, LeftAt
  <1>1. IsLeft(waits, keys, f, n)
    BY LeftIsDefined
  <1> HIDE DEF f, n
  <1>n. n \in Nat
    BY DEF n
  <1>2. f[0] = Reached(waits, keys)
    BY <1>1, <1>n DEF IsLeft, LeftAt
  <1>3. ASSUME NEW i \in 1..n
        PROVE  f[i] = {k \in f[i-1] : waits[k] \cap f[i-1] # {}}
    <2>1. i \in 0..n /\ i # 0
      BY <1>n
    <2>2. f[i] = LeftAt(waits, keys, f, i)
      BY <1>1, <2>1 DEF IsLeft
    <2>3. QED
      BY <2>1, <2>2 DEF LeftAt
  <1> DEFINE T == {i \in Nat : i <= n => B \subseteq f[i]}
  <1>4. 0 \in T
    BY <1>2
  <1>5. ASSUME NEW i \in Nat, i \in T, i + 1 <= n
        PROVE  B \subseteq f[i + 1]
    <2>1. B \subseteq f[i]
      BY <1>5, <1>n
    <2>2. f[i + 1] = {k \in f[i] : waits[k] \cap f[i] # {}}
      <3>1. i + 1 \in 1..n /\ (i + 1) - 1 = i
        BY <1>5, <1>n
      <3>2. QED
        BY <1>3, <3>1
    <2>3. QED
      BY <2>1, <2>2
  <1>6. Nat \subseteq T
    <2>1. \A i \in Nat : i \in T => i + 1 \in T
      BY <1>5, <1>n
    <2> HIDE DEF T
    <2>2. QED
      BY <1>4, <2>1, Induction
  <1>7. n \in T
    BY <1>6, <1>n
  <1>8. QED
    BY <1>0, <1>7, <1>n

LEMMA ImageIsFinite ==
    ASSUME NEW S, IsFiniteSet(S), NEW f
    PROVE  IsFiniteSet({f[x] : x \in S})
  <1> DEFINE T == {f[x] : x \in S}
             g == [x \in S |-> f[x]]
  <1>1. g \in Surjection(S, T)
    BY DEF Surjection
  <1>2. QED
    BY <1>1, FS_Surjection

LEMMA KeysAreFinite ==
    ASSUME NEW tr, IsTree(tr), NEW s \in Scopes(tr)
    PROVE  IsFiniteSet(TicketKeys(tr, s)) /\ IsFiniteSet(EpicKeys(tr, s))
  <1>0. FoldersRead(tr, s) \subseteq DOMAIN tr.entry /\ IsFiniteSet(DOMAIN tr.entry)
        /\ EpicsRead(tr, s) \subseteq DOMAIN tr.entry
    BY AllCoresFacts DEF IsTree
  <1>1. ASSUME NEW f \in FoldersRead(tr, s)
        PROVE  IsFiniteSet(KeysOf(Cores(tr, f)))
    <2> DEFINE ek == [n \in DOMAIN tr.entry[f] |-> Key(f, n, NoName)]
               lk == [x \in DOMAIN tr.leaf[f] |-> LeafKey(tr, f, x)]
               E == {ek[n] : n \in DOMAIN tr.entry[f]}
               L == {lk[x] : x \in DOMAIN tr.leaf[f]}
    <2>1. IsFiniteSet(DOMAIN tr.entry[f]) /\ IsFiniteSet(DOMAIN tr.leaf[f])
      BY <1>0 DEF IsTree
    <2> HIDE DEF ek, lk
    <2>2. IsFiniteSet(E) /\ IsFiniteSet(L)
      BY <2>1, ImageIsFinite
    <2> USE DEF ek, lk
    <2>3. ASSUME NEW c \in Cores(tr, f)
          PROVE  c.key \in E \cup L
      <3>1. CASE \E n \in Bare(tr, f) : c = EntryCore(tr, f, n)
        BY <3>1, EntryCoreFields DEF Bare
      <3>2. CASE \E x \in Leaves(tr, f) : c = LeafCore(tr, f, x)
        BY <3>2, LeafCoreFields DEF Leaves
      <3>3. QED
        BY <3>1, <3>2 DEF Cores
    <2> HIDE DEF E, L
    <2>4. KeysOf(Cores(tr, f)) \subseteq E \cup L
      BY <2>3 DEF KeysOf
    <2>5. QED
      BY <2>2, <2>4, FS_Union, FS_Subset
  <1>2. IsFiniteSet(FoldersRead(tr, s)) /\ IsFiniteSet(EpicsRead(tr, s))
    BY <1>0, FS_Subset
  <1>3. IsFiniteSet(TicketKeys(tr, s))
    <2> DEFINE kf == [f \in FoldersRead(tr, s) |-> KeysOf(Cores(tr, f))]
               K == {kf[f] : f \in FoldersRead(tr, s)}
    <2>1. \A k \in K : IsFiniteSet(k)
      BY <1>1
    <2>2. TicketKeys(tr, s) = UNION K
      <3>1. TicketKeys(tr, s) \subseteq UNION K
        BY DEF TicketKeys, KeysOf, AllCores
      <3>2. UNION K \subseteq TicketKeys(tr, s)
        BY DEF TicketKeys, KeysOf, AllCores
      <3>3. QED
        BY <3>1, <3>2
    <2> HIDE DEF kf
    <2>3. IsFiniteSet(K)
      BY <1>2, ImageIsFinite
    <2>4. QED
      BY <2>1, <2>2, <2>3, FS_UNION
  <1>4. IsFiniteSet(EpicKeys(tr, s))
    <2> DEFINE ek == [e \in EpicsRead(tr, s) |-> Key(e, NoId, NoName)]
    <2>1. EpicKeys(tr, s) = {ek[e] : e \in EpicsRead(tr, s)}
      BY DEF EpicKeys
    <2> HIDE DEF ek
    <2>2. QED
      BY <1>2, <2>1, ImageIsFinite
  <1>5. QED
    BY <1>3, <1>4

LEMMA CoresHaveRefs ==
    ASSUME NEW tr, IsTree(tr), NEW f \in DOMAIN tr.entry, NEW c \in Cores(tr, f)
    PROVE  \A x \in c.raw \cup c.planned : IsRef(x)
  <1>1. CASE \E n \in Bare(tr, f) : c = EntryCore(tr, f, n)
    <2>1. PICK n \in DOMAIN tr.entry[f] : c = EntryCore(tr, f, n)
      BY <1>1 DEF Bare
    <2>2. c.raw = tr.entry[f][n].after /\ c.planned = tr.entry[f][n].after
      BY <2>1, EntryCoreFields
    <2>3. QED
      BY <2>2 DEF IsTree
  <1>2. CASE \E s \in Leaves(tr, f) : c = LeafCore(tr, f, s)
    <2>1. PICK s \in Leaves(tr, f) : c = LeafCore(tr, f, s)
      BY <1>2
    <2>2. \A x \in c.raw : IsRef(x)
      BY <2>1, LeafCoreFields DEF IsTree
    <2>3. \A x \in c.planned : IsRef(x)
      <3>1. \/ c.planned = {}
            \/ /\ tr.leaf[f][s].id \in DOMAIN tr.entry[f]
               /\ c.planned = tr.entry[f][tr.leaf[f][s].id].after
        BY <2>1, LeafCoreFields
      <3>2. QED
        BY <3>1 DEF IsTree
    <2>4. QED
      BY <2>2, <2>3
  <1>3. QED
    BY <1>1, <1>2 DEF Cores

\* What a ticket or an epic waits for is read.
LEMMA WaitsForWhatIsRead ==
    ASSUME NEW tr, IsTree(tr), IdsUnique(tr), NEW s \in Scopes(tr), Loads(tr, s)
    PROVE  /\ \A c \in AllCores(tr, s) :
                AfterKeys(tr, s, c) \cup Planned(tr, s, c) \cup Gated(tr, s, c)
                  \subseteq TicketKeys(tr, s) \cup EpicKeys(tr, s)
           /\ \A e \in EpicsRead(tr, s) : GatesAt(tr, s)[e] \subseteq TicketKeys(tr, s) \cup EpicKeys(tr, s)
  <1> DEFINE K == TicketKeys(tr, s) \cup EpicKeys(tr, s)
  <1>1. NumbersUnique(tr) /\ \A c \in AllCores(tr, s) : NoKey \notin AfterKeys(tr, s, c) \cup Planned(tr, s, c)
    BY LoadsIs
  <1>2. \A e \in EpicsRead(tr, s) : NoKey \notin GatesAt(tr, s)[e]
    BY LoadsIs
  <1>3. ASSUME NEW f, NEW b \in BOOLEAN, NEW refs, \A x \in refs : IsRef(x)
        PROVE  Meant(tr, s, f, b, refs) \subseteq K \cup {NoKey}
    BY <1>1, <1>3, ResolveRange DEF Meant
  <1>4. ASSUME NEW e \in EpicsRead(tr, s)
        PROVE  GatesAt(tr, s)[e] \subseteq K
    <2>1. \A x \in tr.container[e].after : IsRef(x)
      BY AllCoresFacts DEF IsTree
    <2>2. GatesAt(tr, s)[e] = Meant(tr, s, e, FALSE, tr.container[e].after)
      BY DEF GatesAt
    <2>3. Meant(tr, s, e, FALSE, tr.container[e].after) \subseteq K \cup {NoKey}
      BY <1>3, <2>1, FALSE \in BOOLEAN
    <2>4. QED
      BY <1>2, <2>2, <2>3
  <1>5. ASSUME NEW c \in AllCores(tr, s)
        PROVE  AfterKeys(tr, s, c) \cup Planned(tr, s, c) \cup Gated(tr, s, c) \subseteq K
    <2>1. c.key.folder \in DOMAIN tr.entry /\ c \in Cores(tr, c.key.folder)
      BY AllCoresFacts
    <2>2. \A x \in c.raw \cup c.planned : IsRef(x)
      BY <2>1, CoresHaveRefs
    <2>3. AfterKeys(tr, s, c) \subseteq K \cup {NoKey} /\ Planned(tr, s, c) \subseteq K \cup {NoKey}
      BY <1>3, <2>2 DEF AfterKeys, Planned
    <2>4. Gated(tr, s, c) \subseteq K
      BY <1>4 DEF Gated
    <2>5. QED
      BY <1>1, <2>3, <2>4
  <1>6. QED
    BY <1>4, <1>5

\* Waits, over the tickets themselves.
WaitsAre(tr, s, waits, tickets) ==
    /\ DOMAIN waits = TicketKeys(tr, s) \cup EpicKeys(tr, s)
    /\ Cardinality(DOMAIN waits) \in Nat
    /\ DOMAIN waits # {} => Cardinality(DOMAIN waits) # 0
    /\ \A t \in tickets : t.key \in TicketKeys(tr, s) /\ waits[t.key] = t.after \cup t.gated
    /\ \A e \in EpicsRead(tr, s) :
         waits[Key(e, NoId, NoName)] = {q \in TicketKeys(tr, s) : q.folder = e} \cup GatesAt(tr, s)[e]

LEMMA WaitsFacts ==
    ASSUME NEW tr, IsTree(tr), IdsUnique(tr), NEW s \in Scopes(tr)
    PROVE  WaitsAre(tr, s, Waits(Resolved(tr, s)), Resolved(tr, s).tickets)
  <1> DEFINE loaded == Resolved(tr, s)
             waits == Waits(loaded)
  <1>1. waits = WaitsAt(tr, s)
    BY WaitsIs
  <1>2. DOMAIN waits = TicketKeys(tr, s) \cup EpicKeys(tr, s)
    BY <1>1 DEF WaitsAt
  <1>3. IsFiniteSet(DOMAIN waits)
    BY <1>2, KeysAreFinite, FS_Union
  <1>4. Cardinality(DOMAIN waits) \in Nat /\ (DOMAIN waits # {} => Cardinality(DOMAIN waits) # 0)
    BY <1>3, FS_CardinalityType, FS_EmptySet
  <1>5. ASSUME NEW t \in loaded.tickets
        PROVE  t.key \in TicketKeys(tr, s) /\ waits[t.key] = t.after \cup t.gated
    <2> HIDE DEF loaded, waits
    <2>1. PICK c \in AllCores(tr, s) : TicketAt(tr, s, t, c)
      BY TicketsAreCores DEF loaded
    <2>2. t.key = c.key /\ t.after = AfterKeys(tr, s, c) /\ t.gated = Gated(tr, s, c)
      BY <2>1 DEF TicketAt
    <2>3. t.key \in TicketKeys(tr, s)
      BY <2>2 DEF TicketKeys, KeysOf
    <2>4. CoreAt(tr, s, t.key) = c
      <3>1. CoreAt(tr, s, t.key) \in AllCores(tr, s) /\ CoreAt(tr, s, t.key).key = c.key
        BY <2>2 DEF CoreAt
      <3>2. QED
        BY <3>1, AllCoresFacts
    <2>5. waits[t.key] = AfterKeys(tr, s, CoreAt(tr, s, t.key)) \cup Gated(tr, s, CoreAt(tr, s, t.key))
      BY <1>1, <2>3 DEF WaitsAt
    <2>6. QED
      BY <2>2, <2>3, <2>4, <2>5
  <1>6. ASSUME NEW e \in EpicsRead(tr, s)
        PROVE  waits[Key(e, NoId, NoName)] = {q \in TicketKeys(tr, s) : q.folder = e} \cup GatesAt(tr, s)[e]
    <2> DEFINE k == Key(e, NoId, NoName)
    <2>1. k \in EpicKeys(tr, s) /\ k.folder = e
      BY KeyFields DEF EpicKeys
    <2>2. k \notin TicketKeys(tr, s)
      BY <2>1, TicketsAreNoEpics
    <2> HIDE DEF waits, k
    <2>3. waits[k] = {q \in TicketKeys(tr, s) : q.folder = k.folder} \cup GatesAt(tr, s)[k.folder]
      BY <1>1, <2>1, <2>2 DEF WaitsAt
    <2>4. QED
      BY <2>1, <2>3 DEF k
  <1> HIDE DEF loaded, waits
  <1>7. QED
    BY <1>2, <1>4, <1>5, <1>6 DEF WaitsAre, loaded, waits

NoStallIn(tr) ==
    LET loaded == Resolved(tr, NoName)
        group == [t \in loaded.tickets |-> Group(tr, loaded, t)]
        left == {t \in loaded.tickets : group[t] # "settled"}
        dropped == {t.key : t \in {t \in loaded.tickets : t.state = "dropped"}}
    IN \/ \A t \in left : FALSE
       \/ \E t \in left : group[t] # "waiting"
       \/ dropped \cap Reached(Waits(loaded), {t.key : t \in left}) # {}
       \/ \E e \in DOMAIN loaded.gates :
            /\ tr.container[e].status # "done"
            /\ \A t \in left : t.key.folder # e

LEMMA GroupFacts ==
    ASSUME NEW tr, NEW loaded, NEW t
    PROVE  /\ Group(tr, loaded, t) = "settled" => t.state \in {"done", "dropped"}
           /\ t.state \in {"done", "dropped"} => Group(tr, loaded, t) = "settled"
           /\ Group(tr, loaded, t) = "waiting" =>
                \/ \E k \in t.after : k \notin DoneKeys(tr, loaded)
                                       /\ k \notin {r.key : r \in {r \in loaded.tickets : r.state = "review"}}
                \/ \E k \in t.gated : k \notin DoneKeys(tr, loaded)
  BY DEF Group

\* Where a tree that loads is read as a whole, nothing stalls unnoticed.
LEMMA NothingStalls ==
    ASSUME NEW tr, IsTree(tr), IdsUnique(tr), Loads(tr, NoName)
    PROVE  NoStallIn(tr)
  <1> DEFINE loaded == Resolved(tr, NoName)
             group == [t \in loaded.tickets |-> Group(tr, loaded, t)]
             left == {t \in loaded.tickets : group[t] # "settled"}
             leftKeys == {t.key : t \in left}
             dropped == {t.key : t \in {t \in loaded.tickets : t.state = "dropped"}}
             waits == Waits(loaded)
             undone == {e \in EpicsRead(tr, NoName) : tr.container[e].status # "done"}
             reached == Reached(waits, TicketKeys(tr, NoName))
             B == leftKeys \cup {k \in {Key(e, NoId, NoName) : e \in undone} : k \in reached}
  <1>0. NoName \in Scopes(tr)
    BY DEF Scopes
  <1> SUFFICES ASSUME ~NoStallIn(tr)
               PROVE  FALSE
    OBVIOUS
  <1>1. /\ left # {} /\ \A t \in left : group[t] = "waiting"
        /\ dropped \cap Reached(waits, leftKeys) = {}
        /\ \A e \in undone : \E t \in left : t.key.folder = e
    <2>1. ~(\/ \A t \in left : FALSE
            \/ \E t \in left : group[t] # "waiting"
            \/ dropped \cap Reached(waits, leftKeys) # {}
            \/ \E e \in DOMAIN loaded.gates :
                 /\ tr.container[e].status # "done"
                 /\ \A t \in left : t.key.folder # e)
      BY DEF NoStallIn
    <2>2. DOMAIN loaded.gates = EpicsRead(tr, NoName)
      BY <1>0, WaitsIs
    <2> HIDE DEF left, group, dropped, waits, leftKeys, loaded
    <2>3. \A e \in undone : e \in DOMAIN loaded.gates /\ tr.container[e].status # "done"
      BY <2>2
    <2> HIDE DEF undone
    <2>4. left # {}
      BY <2>1
    <2>5. \A t \in left : group[t] = "waiting"
      BY <2>1
    <2>6. dropped \cap Reached(waits, leftKeys) = {}
      BY <2>1
    <2>7. \A e \in undone : \E t \in left : t.key.folder = e
      BY <2>1, <2>3
    <2>8. QED
      BY <2>4, <2>5, <2>6, <2>7
  <1>2. ~Cyclic(waits, TicketKeys(tr, NoName))
    BY <1>0, LoadsIs, WaitsIs
  <1>a. /\ DOMAIN waits = TicketKeys(tr, NoName) \cup EpicKeys(tr, NoName)
        /\ Cardinality(DOMAIN waits) \in Nat
        /\ \A t \in loaded.tickets : t.key \in TicketKeys(tr, NoName) /\ waits[t.key] = t.after \cup t.gated
        /\ \A e \in EpicsRead(tr, NoName) :
             waits[Key(e, NoId, NoName)]
               = {q \in TicketKeys(tr, NoName) : q.folder = e} \cup GatesAt(tr, NoName)[e]
    <2>1. WaitsAre(tr, NoName, waits, loaded.tickets)
      BY <1>0, WaitsFacts
    <2> HIDE DEF waits, loaded
    <2>2. QED
      BY <2>1 DEF WaitsAre
  <1>b. Cardinality(DOMAIN waits) # 0
    <2>1. WaitsAre(tr, NoName, waits, loaded.tickets)
      BY <1>0, WaitsFacts
    <2>2. left \subseteq loaded.tickets
      OBVIOUS
    <2> HIDE DEF waits, loaded, left
    <2>3. DOMAIN waits # {}
      BY <1>1, <1>a, <2>2
    <2>4. QED
      BY <2>1, <2>3 DEF WaitsAre
  <1>c. \A t \in loaded.tickets : t \notin left => t.state \in {"done", "dropped"}
    BY GroupFacts
  <1>d. \A t \in left : t.state \notin {"done", "dropped"}
    BY GroupFacts
  <1>e. \A t \in left : group[t] = Group(tr, loaded, t)
    OBVIOUS
  <1>f. \A e \in EpicsRead(tr, NoName) : e \notin undone => Key(e, NoId, NoName) \in DoneKeys(tr, loaded)
    BY <1>0, WaitsIs DEF DoneKeys
  <1>g. \A t \in loaded.tickets : t.state = "done" => t.key \in DoneKeys(tr, loaded)
    BY DEF DoneKeys
  <1>h. TicketKeys(tr, NoName) = {t.key : t \in loaded.tickets}
    BY <1>0, WaitsIs
  <1>i. \A t \in loaded.tickets : t.after \cup t.gated \subseteq TicketKeys(tr, NoName) \cup EpicKeys(tr, NoName)
    <2>1. ASSUME NEW t \in loaded.tickets
          PROVE  t.after \cup t.gated \subseteq TicketKeys(tr, NoName) \cup EpicKeys(tr, NoName)
      <3>1. PICK c \in AllCores(tr, NoName) : TicketAt(tr, NoName, t, c)
        BY TicketsAreCores
      <3>2. t.after = AfterKeys(tr, NoName, c) /\ t.gated = Gated(tr, NoName, c)
        BY <3>1 DEF TicketAt
      <3>3. QED
        BY <1>0, <3>2, WaitsForWhatIsRead
    <2>2. QED
      BY <2>1
  <1>j. leftKeys \subseteq TicketKeys(tr, NoName)
    BY <1>a
  <1>k. /\ TicketKeys(tr, NoName) \subseteq reached
        /\ \A k \in TicketKeys(tr, NoName) : waits[k] \subseteq reached
        /\ \A k \in leftKeys : waits[k] \subseteq Reached(waits, leftKeys)
    BY <1>a, <1>b, ReachedHas
  <1> HIDE DEF loaded, group, left, leftKeys, dropped, waits, undone, reached
  <1>3. ASSUME NEW t \in left
        PROVE  \E k \in waits[t.key] : k \in B
    <2>0. t \in loaded.tickets /\ t.key \in leftKeys
      BY DEF left, leftKeys
    <2>1. PICK k \in t.after \cup t.gated :
            /\ k \notin DoneKeys(tr, loaded)
            /\ k \in t.gated \/ k \notin {r.key : r \in {r \in loaded.tickets : r.state = "review"}}
      BY <1>1, <1>e, GroupFacts
    <2>2. k \in waits[t.key] /\ k \in reached /\ k \in Reached(waits, leftKeys)
      BY <1>a, <1>j, <1>k, <2>0, <2>1
    <2>3. CASE k \in TicketKeys(tr, NoName)
      <3>1. PICK q \in loaded.tickets : q.key = k
        BY <1>h, <2>3
      <3>2. q.state # "done"
        BY <1>g, <2>1, <3>1
      <3>3. q.state # "dropped"
        <4>1. q.state = "dropped" => k \in dropped
          BY <3>1 DEF dropped
        <4>2. QED
          BY <1>1, <2>2, <4>1
      <3>4. q \in left
        BY <1>c, <3>1, <3>2, <3>3
      <3>5. QED
        BY <2>2, <3>1, <3>4 DEF leftKeys
    <2>4. CASE k \in EpicKeys(tr, NoName)
      <3>1. PICK e \in EpicsRead(tr, NoName) : k = Key(e, NoId, NoName)
        BY <2>4 DEF EpicKeys
      <3>2. e \in undone
        BY <1>f, <2>1, <3>1
      <3>3. QED
        BY <2>2, <3>1, <3>2
    <2>5. QED
      BY <1>i, <2>0, <2>1, <2>3, <2>4
  <1>4. ASSUME NEW e \in undone
        PROVE  \E k \in waits[Key(e, NoId, NoName)] : k \in B
    <2>1. PICK t \in left : t.key.folder = e
      BY <1>1
    <2>2. t.key \in leftKeys
      BY DEF leftKeys
    <2>3. e \in EpicsRead(tr, NoName)
      BY DEF undone
    <2>4. t.key \in waits[Key(e, NoId, NoName)]
      BY <1>a, <1>j, <2>1, <2>2, <2>3
    <2>5. QED
      BY <2>2, <2>4
  <1>5. \A k \in B : waits[k] \cap B # {}
    <2>1. \A k \in leftKeys : waits[k] \cap B # {}
      <3> HIDE DEF B
      <3>1. QED
        BY <1>3 DEF leftKeys
    <2>2. QED
      BY <2>1, <1>4
  <1>6. B # {} /\ B \subseteq reached
    BY <1>1, <1>j, <1>k DEF leftKeys
  <1>7. QED
    <2> HIDE DEF B
    <2>1. Cyclic(waits, TicketKeys(tr, NoName))
      BY <1>5, <1>6, <1>a, CycleIn DEF reached
    <2>2. QED
      BY <1>2, <2>1

-----------------------------------------------------------------------------
(* Trees that read alike.                                                  *)

SameLinks(tr, c, tr2, d, s) ==
    /\ d.key = c.key /\ AfterKeys(tr2, s, d) = AfterKeys(tr, s, c) /\ Planned(tr2, s, d) = Planned(tr, s, c)
    /\ Gated(tr2, s, d) = Gated(tr, s, c)

\* The same tickets wait for the same tickets and epics, wherever it is read.
SameReading(tr, tr2, s) ==
    /\ FoldersRead(tr2, s) = FoldersRead(tr, s) /\ EpicsRead(tr2, s) = EpicsRead(tr, s)
    /\ GatesAt(tr2, s) = GatesAt(tr, s)
    /\ \A c \in AllCores(tr, s) : \E d \in AllCores(tr2, s) : SameLinks(tr, c, tr2, d, s)
    /\ \A d \in AllCores(tr2, s) : \E c \in AllCores(tr, s) : SameLinks(tr, c, tr2, d, s)

PlansUnique(tr) == \A f \in DOMAIN tr.entry : PlansAreUnique(tr, f)

LEMMA SameReadingLoads ==
    ASSUME NEW tr, IsTree(tr), IdsUnique(tr), NEW tr2, IsTree(tr2), IdsUnique(tr2), PlansUnique(tr2),
           NEW s \in Scopes(tr), s \in Scopes(tr2), NumbersUnique(tr2), SameReading(tr, tr2, s), Loads(tr, s)
    PROVE  Loads(tr2, s)
  <1>1. TicketKeys(tr2, s) = TicketKeys(tr, s)
    BY DEF SameReading, SameLinks, TicketKeys, KeysOf
  <1>2. EpicKeys(tr2, s) = EpicKeys(tr, s)
    BY DEF SameReading, EpicKeys
  <1>3. ASSUME NEW k \in TicketKeys(tr, s)
        PROVE  /\ AfterKeys(tr2, s, CoreAt(tr2, s, k)) = AfterKeys(tr, s, CoreAt(tr, s, k))
               /\ Gated(tr2, s, CoreAt(tr2, s, k)) = Gated(tr, s, CoreAt(tr, s, k))
    <2>1. CoreAt(tr, s, k) \in AllCores(tr, s) /\ CoreAt(tr, s, k).key = k
      BY DEF CoreAt, TicketKeys, KeysOf
    <2>2. PICK d \in AllCores(tr2, s) : SameLinks(tr, CoreAt(tr, s, k), tr2, d, s)
      BY <2>1 DEF SameReading
    <2>3. d.key = k
      BY <2>1, <2>2 DEF SameLinks
    <2>4. CoreAt(tr2, s, k) \in AllCores(tr2, s) /\ CoreAt(tr2, s, k).key = k
      BY <2>3 DEF CoreAt
    <2>5. CoreAt(tr2, s, k) = d
      BY <2>3, <2>4, AllCoresFacts
    <2>6. QED
      BY <2>2, <2>5 DEF SameLinks
  <1>4. WaitsAt(tr2, s) = WaitsAt(tr, s)
    BY <1>1, <1>2, <1>3 DEF WaitsAt, SameReading
  <1>5. /\ \A c \in AllCores(tr, s) : NoKey \notin AfterKeys(tr, s, c) \cup Planned(tr, s, c)
        /\ \A e \in EpicsRead(tr, s) : NoKey \notin GatesAt(tr, s)[e]
        /\ ~Cyclic(WaitsAt(tr, s), TicketKeys(tr, s))
    BY LoadsIs
  <1>6. \A d \in AllCores(tr2, s) : NoKey \notin AfterKeys(tr2, s, d) \cup Planned(tr2, s, d)
    <2>1. ASSUME NEW d \in AllCores(tr2, s)
          PROVE  NoKey \notin AfterKeys(tr2, s, d) \cup Planned(tr2, s, d)
      <3>1. PICK c \in AllCores(tr, s) : SameLinks(tr, c, tr2, d, s)
        BY DEF SameReading
      <3>2. QED
        BY <1>5, <3>1 DEF SameLinks
    <2>2. QED
      BY <2>1
  <1>7. \A e \in EpicsRead(tr2, s) : NoKey \notin GatesAt(tr2, s)[e]
    BY <1>5 DEF SameReading
  <1>8. \A f \in FoldersRead(tr2, s) : IdsAreUnique(tr2, f) /\ PlansAreUnique(tr2, f)
    BY AllCoresFacts DEF IdsUnique, PlansUnique
  <1>9. ~Cyclic(WaitsAt(tr2, s), TicketKeys(tr2, s))
    BY <1>1, <1>4, <1>5
  <1>10. QED
    BY <1>6, <1>7, <1>8, <1>9, LoadsIs

\* The text of two trees, but for the plans and for what is not read of a leaf
\* or an epic's own file here.
SameText(tr, tr2) ==
    /\ tr2.entry = tr.entry /\ tr2.number = tr.number /\ Epics(tr2) = Epics(tr)
    /\ \A e \in Epics(tr) : /\ tr2.container[e].tracker = tr.container[e].tracker
                            /\ tr2.container[e].after = tr.container[e].after
    /\ \A f \in DOMAIN tr.entry :
         /\ Leaves(tr2, f) = Leaves(tr, f)
         /\ \A s \in Leaves(tr, f) :
              /\ tr2.leaf[f][s].id = tr.leaf[f][s].id /\ tr2.leaf[f][s].tracker = tr.leaf[f][s].tracker
              /\ tr2.leaf[f][s].after = tr.leaf[f][s].after /\ tr2.leaf[f][s].hitl = tr.leaf[f][s].hitl
              /\ tr2.leaf[f][s].type = tr.leaf[f][s].type

SameEpics(tr, tr2) ==
    /\ DOMAIN tr2.entry = DOMAIN tr.entry /\ tr2.number = tr.number /\ Epics(tr2) = Epics(tr)
    /\ \A e \in Epics(tr) : /\ tr2.container[e].tracker = tr.container[e].tracker
                            /\ tr2.container[e].after = tr.container[e].after

LEMMA SameEpicsFacts ==
    ASSUME NEW tr, NEW tr2, SameEpics(tr, tr2), NEW s
    PROVE  /\ Scopes(tr2) = Scopes(tr) /\ FoldersRead(tr2, s) = FoldersRead(tr, s)
           /\ EpicsRead(tr2, s) = EpicsRead(tr, s)
           /\ \A x : EpicsOf(tr2, s, x) = EpicsOf(tr, s, x)
           /\ \A ref : There(tr2, ref) = There(tr, ref)
           /\ \A e \in EpicsRead(tr, s) : tr2.container[e].after = tr.container[e].after
           /\ NumbersUnique(tr) => NumbersUnique(tr2)
  <1>1. FoldersRead(tr2, s) = FoldersRead(tr, s) /\ Scopes(tr2) = Scopes(tr)
    BY DEF SameEpics, FoldersRead, Scopes
  <1>2. EpicsRead(tr2, s) = EpicsRead(tr, s)
    BY <1>1 DEF SameEpics, EpicsRead
  <1>3. \A e \in EpicsRead(tr, s) : /\ tr2.container[e].after = tr.container[e].after
                                    /\ tr2.container[e].tracker = tr.container[e].tracker
    BY DEF SameEpics, EpicsRead
  <1>4. \A x : EpicsOf(tr2, s, x) = EpicsOf(tr, s, x)
    BY <1>2, <1>3 DEF EpicsOf
  <1>5. \A ref : There(tr2, ref) = There(tr, ref)
    BY DEF SameEpics, There
  <1>6. NumbersUnique(tr) => NumbersUnique(tr2)
    BY DEF SameEpics, NumbersUnique
  <1>7. QED
    BY <1>1, <1>2, <1>3, <1>4, <1>5, <1>6

\* A reference means the same where the keys are the same, and the files and the
\* tracker ids of its name.
LEMMA SameResolve ==
    ASSUME NEW tr, NEW tr2, SameEpics(tr, tr2), NEW s, NEW f, NEW b \in BOOLEAN, NEW ref,
           TicketKeys(tr2, s) = TicketKeys(tr, s),
           ref.kind \notin {"id", "cross"} =>
             \/ ref.name = NoName
             \/ /\ MatesFor(AllCores(tr2, s), f, b, ref.name) = MatesFor(AllCores(tr, s), f, b, ref.name)
                /\ TrackedOf(AllCores(tr2, s), ref.name) = TrackedOf(AllCores(tr, s), ref.name)
    PROVE  ResolveAt(tr2, s, f, b, ref) = ResolveAt(tr, s, f, b, ref)
  <1> DEFINE C == AllCores(tr, s)
             D == AllCores(tr2, s)
  <1>1. KeysOf(D) = KeysOf(C)
    BY DEF TicketKeys
  <1> HIDE DEF C, D
  <1>2. CASE ref.kind = "id"
    BY <1>1, <1>2, ResolveCases DEF ResolveAt, C, D
  <1>3. CASE ref.kind = "cross"
    <2>1. Resolve(tr, s, C, f, b, ref)
            = IF There(tr, ref) \cap KeysOf(C) = {} THEN NoKey ELSE CHOOSE k \in There(tr, ref) : TRUE
      BY <1>3, ResolveCases
    <2>2. Resolve(tr2, s, D, f, b, ref)
            = IF There(tr2, ref) \cap KeysOf(D) = {} THEN NoKey ELSE CHOOSE k \in There(tr2, ref) : TRUE
      BY <1>3, ResolveCases
    <2>3. There(tr2, ref) = There(tr, ref)
      BY SameEpicsFacts
    <2>4. QED
      BY <1>1, <2>1, <2>2, <2>3 DEF ResolveAt, C, D
  <1>4. CASE ref.kind \notin {"id", "cross"}
    <2>1. Resolve(tr, s, C, f, b, ref)
            = NameKeyBy(tr, s, MatesFor(C, f, b, ref.name), TrackedOf(C, ref.name),
                        EpicsOf(tr, s, ref.name), ref.name)
      BY <1>4, ResolveCases
    <2>2. Resolve(tr2, s, D, f, b, ref)
            = NameKeyBy(tr2, s, MatesFor(D, f, b, ref.name), TrackedOf(D, ref.name),
                        EpicsOf(tr2, s, ref.name), ref.name)
      BY <1>4, ResolveCases
    <2>3. EpicsOf(tr2, s, ref.name) = EpicsOf(tr, s, ref.name) /\ EpicsRead(tr2, s) = EpicsRead(tr, s)
      BY SameEpicsFacts
    <2>4. CASE ref.name = NoName
      BY <2>1, <2>2, <2>4 DEF NameKeyBy, ResolveAt, C, D
    <2>5. CASE ref.name # NoName
      <3>1. /\ MatesFor(D, f, b, ref.name) = MatesFor(C, f, b, ref.name)
            /\ TrackedOf(D, ref.name) = TrackedOf(C, ref.name)
        BY <1>4, <2>5 DEF C, D
      <3>2. QED
        BY <2>1, <2>2, <2>3, <3>1 DEF NameKeyBy, ResolveAt, C, D
    <2>6. QED
      BY <2>4, <2>5
  <1>5. QED
    BY <1>2, <1>3, <1>4

LEMMA SameTextCores ==
    ASSUME NEW tr, NEW tr2, SameText(tr, tr2), NEW f \in DOMAIN tr.entry
    PROVE  /\ Cores(tr2, f) = Cores(tr, f) /\ Bare(tr2, f) = Bare(tr, f)
           /\ IdsAreUnique(tr, f) => IdsAreUnique(tr2, f)
  <1>1. Leaves(tr2, f) = Leaves(tr, f) /\ tr2.entry = tr.entry
    BY DEF SameText
  <1>2. ASSUME NEW s \in Leaves(tr, f)
        PROVE  LeafCore(tr2, f, s) = LeafCore(tr, f, s) /\ tr2.leaf[f][s].id = tr.leaf[f][s].id
    <2>1. /\ tr2.leaf[f][s].id = tr.leaf[f][s].id /\ tr2.leaf[f][s].tracker = tr.leaf[f][s].tracker
          /\ tr2.leaf[f][s].after = tr.leaf[f][s].after /\ tr2.leaf[f][s].hitl = tr.leaf[f][s].hitl
          /\ tr2.leaf[f][s].type = tr.leaf[f][s].type
      BY DEF SameText
    <2>2. LeafKey(tr2, f, s) = LeafKey(tr, f, s)
      BY <2>1 DEF LeafKey
    <2>3. QED
      BY <1>1, <2>1, <2>2 DEF LeafCore
  <1>3. \A n : LeafFor(tr2, f, n) = LeafFor(tr, f, n)
    <2>1. ASSUME NEW n
          PROVE  LeafFor(tr2, f, n) = LeafFor(tr, f, n)
      <3> DEFINE m == {s \in Leaves(tr, f) : tr.leaf[f][s].id = n}
                 m2 == {s \in Leaves(tr2, f) : tr2.leaf[f][s].id = n}
      <3>1. m2 = m
        BY <1>1, <1>2
      <3>2. LeafFor(tr, f, n) = IF m = {} THEN NoName ELSE CHOOSE s \in m : TRUE
        BY DEF LeafFor
      <3>3. LeafFor(tr2, f, n) = IF m2 = {} THEN NoName ELSE CHOOSE s \in m2 : TRUE
        BY DEF LeafFor
      <3> HIDE DEF m, m2
      <3>4. QED
        BY <3>1, <3>2, <3>3
    <2>2. QED
      BY <2>1
  <1>4. Bare(tr2, f) = Bare(tr, f)
    BY <1>1, <1>3 DEF Bare
  <1>5. \A n : EntryCore(tr2, f, n) = EntryCore(tr, f, n)
    BY <1>1 DEF EntryCore
  <1>6. Cores(tr2, f) = Cores(tr, f)
    BY <1>1, <1>2, <1>4, <1>5 DEF Cores
  <1>7. IdsAreUnique(tr, f) => IdsAreUnique(tr2, f)
    BY <1>1, <1>2 DEF IdsAreUnique
  <1>8. QED
    BY <1>4, <1>6, <1>7

\* What is read of trees with the same text is the same.
LEMMA SameTextReads ==
    ASSUME NEW tr, IsTree(tr), NEW tr2, SameText(tr, tr2), NEW s \in Scopes(tr)
    PROVE  /\ SameEpics(tr, tr2) /\ AllCores(tr2, s) = AllCores(tr, s)
           /\ \A f, refs : \A b \in BOOLEAN : Meant(tr2, s, f, b, refs) = Meant(tr, s, f, b, refs)
           /\ SameReading(tr, tr2, s)
           /\ \A c \in AllCores(tr, s) : /\ SameLinks(tr, c, tr2, c, s)
                                         /\ Drifts(tr2, s, c) => Drifts(tr, s, c)
           /\ IdsUnique(tr) => IdsUnique(tr2)
  <1>1. SameEpics(tr, tr2)
    BY DEF SameText, SameEpics
  <1>2. FoldersRead(tr2, s) = FoldersRead(tr, s) /\ EpicsRead(tr2, s) = EpicsRead(tr, s)
    BY <1>1, SameEpicsFacts
  <1>3. FoldersRead(tr, s) \subseteq DOMAIN tr.entry
    BY AllCoresFacts
  <1>4. AllCores(tr2, s) = AllCores(tr, s)
    BY <1>2, <1>3, SameTextCores DEF AllCores
  <1>5. ASSUME NEW f, NEW b \in BOOLEAN, NEW x
        PROVE  ResolveAt(tr2, s, f, b, x) = ResolveAt(tr, s, f, b, x)
    <2>1. TicketKeys(tr2, s) = TicketKeys(tr, s)
      BY <1>4 DEF TicketKeys
    <2>2. QED
      BY <1>1, <1>4, <2>1, SameResolve
  <1>6. \A f, refs : \A b \in BOOLEAN : Meant(tr2, s, f, b, refs) = Meant(tr, s, f, b, refs)
    BY <1>5 DEF Meant
  <1>7. GatesAt(tr2, s) = GatesAt(tr, s)
    <2>1. ASSUME NEW e \in EpicsRead(tr, s)
          PROVE  Meant(tr2, s, e, FALSE, tr2.container[e].after) = Meant(tr, s, e, FALSE, tr.container[e].after)
      <3>1. tr2.container[e].after = tr.container[e].after
        BY <1>1, SameEpicsFacts
      <3>2. QED
        BY <1>6, <3>1, FALSE \in BOOLEAN
    <2>2. QED
      BY <1>2, <2>1 DEF GatesAt
  <1>8. ASSUME NEW c
        PROVE  SameLinks(tr, c, tr2, c, s) /\ (Drifts(tr2, s, c) => Drifts(tr, s, c))
    <2>1. AfterKeys(tr2, s, c) = AfterKeys(tr, s, c) /\ Planned(tr2, s, c) = Planned(tr, s, c)
      BY <1>6, TRUE \in BOOLEAN DEF AfterKeys, Planned
    <2>2. Gated(tr2, s, c) = Gated(tr, s, c)
      BY <1>2, <1>7 DEF Gated
    <2>3. QED
      BY <2>1, <2>2 DEF SameLinks, Drifts
  <1>9. SameReading(tr, tr2, s)
    BY <1>2, <1>4, <1>7, <1>8 DEF SameReading
  <1>10. IdsUnique(tr) => IdsUnique(tr2)
    BY <1>1, SameTextCores DEF IdsUnique, SameEpics
  <1>11. QED
    BY <1>1, <1>4, <1>6, <1>8, <1>9, <1>10

StartFindable == \A tr \in Starting : Findable(tr)

\* A tree in which the tickets wait for each other as they should.
InOrder(tr) ==
    /\ IsTree(tr) /\ IdsUnique(tr) /\ PlansUnique(tr) /\ NumbersUnique(tr)
    /\ \A s \in Scopes(tr) : Loads(tr, s)
    /\ WellNamed(tr) /\ Writable(tr) /\ (StartFindable => Findable(tr))

\* Writable, over cores.
LEMMA WritableIs ==
    ASSUME NEW tr
    PROVE  Writable(tr) <=> \A s \in Scopes(tr) : \A c \in AllCores(tr, s) :
                              c.file = NoName => \A k \in AfterKeys(tr, s, c) : Written(tr, c.key.folder, k)
  BY TicketsAreCores DEF Writable, TicketAt

LEMMA TrackerIdsAre ==
    ASSUME NEW tr, NEW x
    PROVE  x \in TrackerIds(tr) <=> \/ \E f \in DOMAIN tr.entry : \E s \in Leaves(tr, f) : x = tr.leaf[f][s].tracker
                                    \/ \E e \in Epics(tr) : x = tr.container[e].tracker
  BY DEF TrackerIds

LEMMA SameTextNamed ==
    ASSUME NEW tr, IsTree(tr), NEW tr2, SameText(tr, tr2), WellNamed(tr)
    PROVE  WellNamed(tr2)
  <1>1. TrackerIds(tr2) = TrackerIds(tr)
    <2>1. ASSUME NEW x
          PROVE  x \in TrackerIds(tr2) <=> x \in TrackerIds(tr)
      <3>1. (\E f \in DOMAIN tr2.entry : \E s \in Leaves(tr2, f) : x = tr2.leaf[f][s].tracker)
              <=> \E f \in DOMAIN tr.entry : \E s \in Leaves(tr, f) : x = tr.leaf[f][s].tracker
        BY DEF SameText
      <3>2. (\E e \in Epics(tr2) : x = tr2.container[e].tracker) <=> \E e \in Epics(tr) : x = tr.container[e].tracker
        BY DEF SameText
      <3>3. QED
        BY <3>1, <3>2, TrackerIdsAre
    <2>2. QED
      BY <2>1
  <1>2. QED
    BY <1>1 DEF WellNamed, SameText

LEMMA SameTextFindable ==
    ASSUME NEW tr, NEW tr2, SameText(tr, tr2), Findable(tr)
    PROVE  Findable(tr2)
  <1>1. /\ tr2.entry = tr.entry /\ tr2.number = tr.number /\ Epics(tr2) = Epics(tr)
        /\ \A f \in DOMAIN tr.entry : /\ Leaves(tr2, f) = Leaves(tr, f)
                                      /\ \A s \in Leaves(tr, f) : tr2.leaf[f][s].id = tr.leaf[f][s].id
    BY DEF SameText
  <1>2. QED
    BY <1>1 DEF Findable

LEMMA SameTextOrdered ==
    ASSUME NEW tr, InOrder(tr), NEW tr2, SameText(tr, tr2), IsTree(tr2), PlansUnique(tr2)
    PROVE  InOrder(tr2)
  <1>1. SameEpics(tr, tr2) /\ Scopes(tr2) = Scopes(tr)
    BY SameEpicsFacts DEF SameEpics, SameText
  <1>2. IdsUnique(tr2) /\ NumbersUnique(tr2)
    <2>1. NoName \in Scopes(tr)
      BY DEF Scopes
    <2>2. QED
      BY <1>1, <2>1, SameTextReads, SameEpicsFacts DEF InOrder
  <1>3. ASSUME NEW s \in Scopes(tr2)
        PROVE  Loads(tr2, s)
    BY <1>1, <1>2, SameTextReads, SameReadingLoads DEF InOrder
  <1>4. WellNamed(tr2)
    BY SameTextNamed DEF InOrder
  <1>5. Writable(tr2)
    <2>1. \A f, k : Written(tr2, f, k) <=> Written(tr, f, k)
      BY DEF Written, SameText
    <2>2. ASSUME NEW s \in Scopes(tr2), NEW c \in AllCores(tr2, s), c.file = NoName, NEW k \in AfterKeys(tr2, s, c)
          PROVE  Written(tr2, c.key.folder, k)
      <3>1. c \in AllCores(tr, s) /\ k \in AfterKeys(tr, s, c)
        BY <1>1, <2>2, SameTextReads DEF InOrder, SameLinks
      <3>2. QED
        BY <1>1, <2>1, <2>2, <3>1, WritableIs DEF InOrder
    <2>3. QED
      BY <2>2, WritableIs
  <1>6. StartFindable => Findable(tr2)
    BY SameTextFindable DEF InOrder
  <1>7. QED
    BY <1>2, <1>3, <1>4, <1>5, <1>6 DEF InOrder

-----------------------------------------------------------------------------
(* What a reference names does not depend on the folder the command ran on.*)

\* Where a core is from.
LEMMA CoreIs ==
    ASSUME NEW tr, IsTree(tr), NEW s \in Scopes(tr), NEW c \in AllCores(tr, s)
    PROVE  /\ c.key.folder \in DOMAIN tr.entry
           /\ \/ \E n \in Bare(tr, c.key.folder) : c = EntryCore(tr, c.key.folder, n)
              \/ \E r \in Leaves(tr, c.key.folder) : c = LeafCore(tr, c.key.folder, r)
  <1>1. c.key.folder \in DOMAIN tr.entry /\ c \in Cores(tr, c.key.folder)
    BY AllCoresFacts
  <1>2. QED
    BY <1>1 DEF Cores

\* A tracker id is one ticket's, or one epic's, and no epic's name.
LEMMA TrackedFacts ==
    ASSUME NEW tr, IsTree(tr), WellNamed(tr), NEW x, x # NoName
    PROVE  /\ \A k, q \in TrackedOf(AllCores(tr, NoName), x) : k = q
           /\ TrackedOf(AllCores(tr, NoName), x) # {} =>
                /\ x \in TrackerIds(tr) /\ x \notin Epics(tr)
                /\ \A e \in Epics(tr) : tr.container[e].tracker # x
           /\ \A e \in Epics(tr) : tr.container[e].tracker = x => x \in TrackerIds(tr) /\ x \notin Epics(tr)
           /\ \A e, g \in Epics(tr) : tr.container[e].tracker = x /\ tr.container[g].tracker = x => e = g
  <1>0. NoName \in Scopes(tr)
    BY DEF Scopes
  <1>1. ASSUME NEW c \in AllCores(tr, NoName), c.tracker = x
        PROVE  \E r \in Leaves(tr, c.key.folder) :
                 c = LeafCore(tr, c.key.folder, r) /\ tr.leaf[c.key.folder][r].tracker = x
    BY <1>0, <1>1, CoreIs, EntryCoreFields, LeafCoreFields
  <1>2. ASSUME NEW c \in AllCores(tr, NoName), c.tracker = x
        PROVE  /\ x \in TrackerIds(tr) /\ x \notin Epics(tr)
               /\ \A e \in Epics(tr) : tr.container[e].tracker # x
    <2>1. PICK r \in Leaves(tr, c.key.folder) : tr.leaf[c.key.folder][r].tracker = x
      BY <1>1, <1>2
    <2>2. c.key.folder \in DOMAIN tr.entry
      BY <1>0, CoreIs
    <2>3. x \in TrackerIds(tr)
      BY <2>1, <2>2, TrackerIdsAre
    <2>4. QED
      BY <2>1, <2>2, <2>3 DEF WellNamed
  <1>3. ASSUME NEW c \in AllCores(tr, NoName), c.tracker = x, NEW d \in AllCores(tr, NoName), d.tracker = x
        PROVE  c = d
    <2>1. PICK r \in Leaves(tr, c.key.folder) :
            c = LeafCore(tr, c.key.folder, r) /\ tr.leaf[c.key.folder][r].tracker = x
      BY <1>1, <1>3
    <2>2. PICK q \in Leaves(tr, d.key.folder) :
            d = LeafCore(tr, d.key.folder, q) /\ tr.leaf[d.key.folder][q].tracker = x
      BY <1>1, <1>3
    <2>3. c.key.folder \in DOMAIN tr.entry /\ d.key.folder \in DOMAIN tr.entry
      BY <1>0, CoreIs
    <2>4. c.key.folder = d.key.folder /\ r = q
      BY <2>1, <2>2, <2>3 DEF WellNamed
    <2>5. QED
      BY <2>1, <2>2, <2>4
  <1>4. ASSUME NEW e \in Epics(tr), tr.container[e].tracker = x
        PROVE  x \in TrackerIds(tr) /\ x \notin Epics(tr)
    <2>1. x \in TrackerIds(tr)
      BY <1>4, TrackerIdsAre
    <2>2. QED
      BY <2>1 DEF WellNamed
  <1>5. \A e, g \in Epics(tr) : tr.container[e].tracker = x /\ tr.container[g].tracker = x => e = g
    BY DEF WellNamed
  <1>6. QED
    BY <1>2, <1>3, <1>4, <1>5 DEF TrackedOf

LEMMA CoresOfWhole ==
    ASSUME NEW tr, IsTree(tr), NEW s \in Scopes(tr)
    PROVE  /\ AllCores(tr, s) \subseteq AllCores(tr, NoName)
           /\ TicketKeys(tr, s) \subseteq TicketKeys(tr, NoName)
           /\ EpicsRead(tr, NoName) = Epics(tr)
           /\ \A f \in FoldersRead(tr, s) : \A x :
                MatesOf(AllCores(tr, s), f, x) = MatesOf(AllCores(tr, NoName), f, x)
           /\ \A x : TrackedOf(AllCores(tr, s), x) \subseteq TrackedOf(AllCores(tr, NoName), x)
  <1>0. NoName \in Scopes(tr) /\ FoldersRead(tr, NoName) = DOMAIN tr.entry
    BY DEF Scopes, FoldersRead
  <1>1. AllCores(tr, s) \subseteq AllCores(tr, NoName)
    BY <1>0, AllCoresFacts DEF AllCores
  <1>2. EpicsRead(tr, NoName) = Epics(tr)
    BY <1>0 DEF EpicsRead, IsTree
  <1>3. ASSUME NEW f \in FoldersRead(tr, s), NEW x
        PROVE  MatesOf(AllCores(tr, s), f, x) = MatesOf(AllCores(tr, NoName), f, x)
    <2>1. \A c \in AllCores(tr, NoName) : c.key.folder = f => c \in AllCores(tr, s)
      <3>1. \A c \in AllCores(tr, NoName) : c \in Cores(tr, c.key.folder)
        BY <1>0, AllCoresFacts
      <3>2. QED
        BY <3>1 DEF AllCores
    <2>2. QED
      BY <1>1, <2>1 DEF MatesOf
  <1>4. QED
    BY <1>1, <1>2, <1>3 DEF TicketKeys, KeysOf, TrackedOf

LEMMA OneNameOneKey ==
    ASSUME NEW tr, IsTree(tr), WellNamed(tr), NEW s \in Scopes(tr),
           NEW mates, NEW x, NameKeyBy(tr, s, mates, TrackedOf(AllCores(tr, s), x), EpicsOf(tr, s, x), x) # NoKey
    PROVE  NameKeyBy(tr, NoName, mates, TrackedOf(AllCores(tr, NoName), x), EpicsOf(tr, NoName, x), x)
             = NameKeyBy(tr, s, mates, TrackedOf(AllCores(tr, s), x), EpicsOf(tr, s, x), x)
  <1> DEFINE T == TrackedOf(AllCores(tr, s), x)
             U == TrackedOf(AllCores(tr, NoName), x)
             E == EpicsOf(tr, s, x)
             F == EpicsOf(tr, NoName, x)
  <1>1. x # NoName
    BY DEF NameKeyBy
  <1>2. T \subseteq U /\ EpicsRead(tr, NoName) = Epics(tr) /\ EpicsRead(tr, s) \subseteq Epics(tr)
    BY CoresOfWhole, AllCoresFacts
  <1>3. F = {e \in Epics(tr) : tr.container[e].tracker = x} /\ E \subseteq F
    BY <1>2 DEF EpicsOf
  <1>4. /\ \A k, q \in U : k = q
        /\ U # {} => x \notin Epics(tr) /\ F = {}
        /\ F # {} => x \notin Epics(tr)
        /\ \A e, g \in F : e = g
    BY <1>1, <1>3, TrackedFacts
  <1> HIDE DEF T, U, E, F
  <1>5. CASE mates # {}
    BY <1>1, <1>5 DEF NameKeyBy
  <1>6. CASE mates = {} /\ x \in EpicsRead(tr, s)
    BY <1>1, <1>2, <1>6 DEF NameKeyBy
  <1>7. CASE mates = {} /\ x \notin EpicsRead(tr, s) /\ T # {}
    <2>1. PICK k \in T : TRUE
      BY <1>7
    <2>2. (CHOOSE q \in T : TRUE) = k /\ (CHOOSE q \in U : TRUE) = k
      BY <1>2, <1>4
    <2>3. x \notin Epics(tr) /\ U # {}
      BY <1>2, <1>4, <1>7
    <2>4. NameKeyBy(tr, s, mates, T, E, x) = k
      BY <1>1, <1>7, <2>2 DEF NameKeyBy
    <2>5. NameKeyBy(tr, NoName, mates, U, F, x) = k
      BY <1>1, <1>2, <1>7, <2>2, <2>3 DEF NameKeyBy
    <2>6. QED
      BY <2>4, <2>5 DEF T, U, E, F
  <1>8. CASE mates = {} /\ x \notin EpicsRead(tr, s) /\ T = {}
    <2>1. E # {}
      BY <1>1, <1>8 DEF NameKeyBy, T, E
    <2>2. PICK e \in E : TRUE
      BY <2>1
    <2>3. (CHOOSE g \in E : TRUE) = e /\ (CHOOSE g \in F : TRUE) = e
      BY <1>3, <1>4
    <2>4. x \notin Epics(tr) /\ U = {} /\ F # {}
      BY <1>3, <1>4, <2>1
    <2>5. NameKeyBy(tr, s, mates, T, E, x) = Key(e, NoId, NoName)
      BY <1>1, <1>8, <2>1, <2>3 DEF NameKeyBy
    <2>6. NameKeyBy(tr, NoName, mates, U, F, x) = Key(e, NoId, NoName)
      BY <1>1, <1>2, <1>8, <2>3, <2>4 DEF NameKeyBy
    <2>7. QED
      BY <2>5, <2>6 DEF T, U, E, F
  <1>9. QED
    BY <1>5, <1>6, <1>7, <1>8 DEF T, U, E, F

LEMMA ScopeFree ==
    ASSUME NEW tr, IsTree(tr), WellNamed(tr), NEW s \in Scopes(tr), NEW f \in FoldersRead(tr, s),
           NEW b \in BOOLEAN, NEW ref, ResolveAt(tr, s, f, b, ref) # NoKey
    PROVE  ResolveAt(tr, NoName, f, b, ref) = ResolveAt(tr, s, f, b, ref)
  <1> DEFINE C == AllCores(tr, s)
             D == AllCores(tr, NoName)
  <1>1. KeysOf(C) \subseteq KeysOf(D)
    BY CoresOfWhole DEF TicketKeys
  <1> HIDE DEF C, D
  <1>2. CASE ref.kind = "id"
    <2>1. Resolve(tr, s, C, f, b, ref)
            = IF b /\ Key(f, ref.id, NoName) \in KeysOf(C) THEN Key(f, ref.id, NoName) ELSE NoKey
      BY <1>2, ResolveCases
    <2>2. Resolve(tr, NoName, D, f, b, ref)
            = IF b /\ Key(f, ref.id, NoName) \in KeysOf(D) THEN Key(f, ref.id, NoName) ELSE NoKey
      BY <1>2, ResolveCases
    <2>3. QED
      BY <1>1, <2>1, <2>2 DEF ResolveAt, C, D
  <1>3. CASE ref.kind = "cross"
    <2>1. Resolve(tr, s, C, f, b, ref)
            = IF There(tr, ref) \cap KeysOf(C) = {} THEN NoKey ELSE CHOOSE k \in There(tr, ref) : TRUE
      BY <1>3, ResolveCases
    <2>2. Resolve(tr, NoName, D, f, b, ref)
            = IF There(tr, ref) \cap KeysOf(D) = {} THEN NoKey ELSE CHOOSE k \in There(tr, ref) : TRUE
      BY <1>3, ResolveCases
    <2>3. There(tr, ref) \cap KeysOf(C) # {}
      BY <2>1 DEF ResolveAt, C
    <2>4. There(tr, ref) \cap KeysOf(D) # {}
      BY <1>1, <2>3
    <2>5. QED
      BY <2>1, <2>2, <2>3, <2>4 DEF ResolveAt, C, D
  <1>4. CASE ref.kind \notin {"id", "cross"}
    <2>1. Resolve(tr, s, C, f, b, ref)
            = NameKeyBy(tr, s, MatesFor(C, f, b, ref.name), TrackedOf(C, ref.name),
                        EpicsOf(tr, s, ref.name), ref.name)
      BY <1>4, ResolveCases
    <2>2. Resolve(tr, NoName, D, f, b, ref)
            = NameKeyBy(tr, NoName, MatesFor(D, f, b, ref.name), TrackedOf(D, ref.name),
                        EpicsOf(tr, NoName, ref.name), ref.name)
      BY <1>4, ResolveCases
    <2>3. MatesFor(C, f, b, ref.name) = MatesFor(D, f, b, ref.name)
      BY CoresOfWhole DEF MatesFor, C, D
    <2>4. QED
      BY <2>1, <2>2, <2>3, OneNameOneKey DEF ResolveAt, C, D
  <1>5. QED
    BY <1>2, <1>3, <1>4

\* A name from folder f is no file's, no epic's and no tracker id's: it is
\* refused.
LEMMA NamesNothing ==
    ASSUME NEW tr, IsTree(tr), NEW s \in Scopes(tr), NEW f, NEW x,
           x \notin Epics(tr), x \notin TrackerIds(tr), x \notin Leaves(tr, f), x # NoName,
           NEW b \in BOOLEAN, NEW ref, ref.kind \notin {"id", "cross"}, ref.name = x
    PROVE  ResolveAt(tr, s, f, b, ref) = NoKey
  <1>1. MatesFor(AllCores(tr, s), f, b, x) = {}
    <2>1. ASSUME NEW c \in AllCores(tr, s), c.key.folder = f, c.file = x
          PROVE  FALSE
      <3>1. CASE \E n \in Bare(tr, f) : c = EntryCore(tr, f, n)
        BY <2>1, <3>1, EntryCoreFields
      <3>2. CASE \E r \in Leaves(tr, f) : c = LeafCore(tr, f, r)
        BY <2>1, <3>2, LeafCoreFields
      <3>3. QED
        BY <2>1, <3>1, <3>2, CoreIs
    <2>2. MatesOf(AllCores(tr, s), f, x) = {}
      BY <2>1 DEF MatesOf
    <2>3. QED
      BY <2>2 DEF MatesFor
  <1>2. TrackedOf(AllCores(tr, s), x) = {}
    <2>1. ASSUME NEW c \in AllCores(tr, s), c.tracker = x
          PROVE  FALSE
      <3>0. c.key.folder \in DOMAIN tr.entry
        BY CoreIs
      <3>1. CASE \E n \in Bare(tr, c.key.folder) : c = EntryCore(tr, c.key.folder, n)
        BY <2>1, <3>1, EntryCoreFields
      <3>2. CASE \E r \in Leaves(tr, c.key.folder) : c = LeafCore(tr, c.key.folder, r)
        BY <2>1, <3>0, <3>2, LeafCoreFields, TrackerIdsAre
      <3>3. QED
        BY <3>1, <3>2, CoreIs
    <2>2. QED
      BY <2>1 DEF TrackedOf
  <1>3. EpicsOf(tr, s, x) = {} /\ x \notin EpicsRead(tr, s)
    <2>1. EpicsRead(tr, s) \subseteq Epics(tr)
      BY AllCoresFacts
    <2>2. QED
      BY <2>1, TrackerIdsAre DEF EpicsOf
  <1>4. ResolveAt(tr, s, f, b, ref)
          = NameKeyBy(tr, s, MatesFor(AllCores(tr, s), f, b, x), TrackedOf(AllCores(tr, s), x),
                      EpicsOf(tr, s, x), x)
    BY ResolveCases DEF ResolveAt
  <1>5. QED
    BY <1>1, <1>2, <1>3, <1>4 DEF NameKeyBy

\* The plan writes an epic as its name.
LEMMA EpicRoundTrip ==
    ASSUME NEW tr, IsTree(tr), WellNamed(tr), NEW s \in Scopes(tr), NEW f \in DOMAIN tr.entry,
           NEW b \in BOOLEAN, NEW e \in EpicsRead(tr, s)
    PROVE  ResolveAt(tr, s, f, b, NameRef(e)) = Key(e, NoId, NoName)
  <1>0. e \in Epics(tr) /\ e # NoName
    <2>1. e \in Epics(tr)
      BY AllCoresFacts
    <2>2. QED
      BY <2>1 DEF IsTree
  <1>1. MatesFor(AllCores(tr, s), f, b, e) = {}
    <2>1. ASSUME NEW c \in AllCores(tr, s), c.key.folder = f, c.file = e
          PROVE  FALSE
      <3>1. CASE \E n \in Bare(tr, f) : c = EntryCore(tr, f, n)
        BY <1>0, <2>1, <3>1, EntryCoreFields
      <3>2. CASE \E r \in Leaves(tr, f) : c = LeafCore(tr, f, r)
        BY <1>0, <2>1, <3>2, LeafCoreFields DEF WellNamed
      <3>3. QED
        BY <2>1, <3>1, <3>2, CoreIs
    <2>2. MatesOf(AllCores(tr, s), f, e) = {}
      BY <2>1 DEF MatesOf
    <2>3. QED
      BY <2>2 DEF MatesFor
  <1>2. NameRef(e).kind = "name" /\ NameRef(e).name = e
    BY DEF NameRef
  <1>3. ResolveAt(tr, s, f, b, NameRef(e))
          = NameKeyBy(tr, s, MatesFor(AllCores(tr, s), f, b, e), TrackedOf(AllCores(tr, s), e),
                      EpicsOf(tr, s, e), e)
    <2>1. NameRef(e).kind \notin {"id", "cross"}
      BY <1>2
    <2>2. QED
      BY <1>2, <2>1, ResolveCases DEF ResolveAt
  <1>4. QED
    BY <1>0, <1>1, <1>3 DEF NameKeyBy

\* What the plan writes for a key names that key, from the same folder.
LEMMA RoundTrip ==
    ASSUME NEW tr, IsTree(tr), WellNamed(tr), NumbersUnique(tr), NEW s \in Scopes(tr), NEW f \in DOMAIN tr.entry,
           NEW b \in BOOLEAN, NEW k \in TicketKeys(tr, s) \cup EpicKeys(tr, s), Written(tr, f, k)
    PROVE  b => ResolveAt(tr, s, f, b, RefOf(tr, k, f)) = k
  <1>1. CASE k \in EpicKeys(tr, s)
    <2>1. PICK e \in EpicsRead(tr, s) : k = Key(e, NoId, NoName)
      BY <1>1 DEF EpicKeys
    <2>2. RefOf(tr, k, f) = NameRef(e)
      BY <2>1, KeyFields DEF RefOf
    <2>3. ResolveAt(tr, s, f, b, NameRef(e)) = Key(e, NoId, NoName)
      BY EpicRoundTrip
    <2>4. QED
      BY <2>1, <2>2, <2>3
  <1>2. CASE k \in TicketKeys(tr, s)
    <2>1. k.id # NoId /\ k = Key(k.folder, k.id, NoName)
      BY <1>2, TicketsAreNoEpics DEF Written
    <2>2. CASE k.folder = f
      <3>1. RefOf(tr, k, f) = IdRef(k.id)
        BY <2>1, <2>2 DEF RefOf
      <3>2. IdRef(k.id).kind = "id" /\ IdRef(k.id).id = k.id
        BY DEF IdRef
      <3>3. Key(f, k.id, NoName) \in KeysOf(AllCores(tr, s))
        BY <1>2, <2>1, <2>2 DEF TicketKeys
      <3>4. ResolveAt(tr, s, f, b, IdRef(k.id))
              = IF b /\ Key(f, k.id, NoName) \in KeysOf(AllCores(tr, s)) THEN Key(f, k.id, NoName) ELSE NoKey
        BY <3>2, ResolveCases DEF ResolveAt
      <3>5. QED
        BY <2>1, <2>2, <3>1, <3>3, <3>4
    <2>3. CASE k.folder # f
      <3> DEFINE ref == CrossRef(tr.number[k.folder], k.id)
      <3>1. k.folder \in Epics(tr) /\ tr.number[k.folder] # NoId
        BY <2>1, <2>3 DEF Written
      <3>2. RefOf(tr, k, f) = ref
        BY <2>1, <2>3, <3>1 DEF RefOf
      <3>3. ref.kind = "cross" /\ ref.id = k.id /\ ref.epic = tr.number[k.folder]
        BY DEF CrossRef
      <3>4. IsRef(ref)
        BY <2>1, <3>1, <3>3 DEF IsRef
      <3> HIDE DEF ref
      <3>5. k \in There(tr, ref)
        BY <2>1, <3>1, <3>3 DEF There
      <3>6. (CHOOSE q \in There(tr, ref) : TRUE) = k
        BY <3>3, <3>4, <3>5, ThereIsOne
      <3>7. There(tr, ref) \cap KeysOf(AllCores(tr, s)) # {}
        BY <1>2, <3>5 DEF TicketKeys
      <3>8. ResolveAt(tr, s, f, b, ref)
              = IF There(tr, ref) \cap KeysOf(AllCores(tr, s)) = {} THEN NoKey
                ELSE CHOOSE q \in There(tr, ref) : TRUE
        BY <3>3, ResolveCases DEF ResolveAt
      <3>9. QED
        BY <3>2, <3>6, <3>7, <3>8
    <2>4. QED
      BY <2>2, <2>3
  <1>3. QED
    BY <1>1, <1>2

-----------------------------------------------------------------------------
(* A pull, once written.                                                   *)

PullsInto(tr, tr2, f, n, stem) ==
    /\ f \in DOMAIN tr.entry /\ n \in Bare(tr, f) /\ stem = tr.entry[f][n].stem
    /\ stem \notin Leaves(tr, f)
    /\ tr2.entry = tr.entry /\ tr2.number = tr.number /\ tr2.container = tr.container /\ tr2.plan = tr.plan
    /\ \A g \in DOMAIN tr.entry :
         /\ g # f => Leaves(tr2, g) = Leaves(tr, g)
         /\ \A r \in Leaves(tr, g) : tr2.leaf[g][r] = tr.leaf[g][r]
    /\ Leaves(tr2, f) = Leaves(tr, f) \cup {stem}
    /\ tr2.leaf[f][stem].id = n /\ tr2.leaf[f][stem].tracker = NoName
    /\ tr2.leaf[f][stem].hitl = tr.entry[f][n].hitl
    /\ tr2.leaf[f][stem].after = {RefOf(tr, k, f) : k \in AfterKeys(tr, f, EntryCore(tr, f, n))}

\* The entry's core makes room for that of its leaf file, of the same key.
LEMMA PullCores ==
    ASSUME NEW tr, IsTree(tr), NEW tr2, IsTree(tr2), NEW f, NEW n, NEW stem, PullsInto(tr, tr2, f, n, stem)
    PROVE  /\ EntryCore(tr, f, n) \in Cores(tr, f) /\ LeafCore(tr2, f, stem) \in Cores(tr2, f)
           /\ n # NoId /\ LeafKey(tr2, f, stem) = Key(f, n, NoName)
           /\ n \in DOMAIN tr.entry[f] /\ stem # NoName
           /\ \A c \in Cores(tr, f) : c = EntryCore(tr, f, n) \/ c \in Cores(tr2, f)
           /\ \A d \in Cores(tr2, f) : d = LeafCore(tr2, f, stem) \/ (d \in Cores(tr, f) /\ d.key # Key(f, n, NoName))
           /\ \A g \in DOMAIN tr.entry : g # f => Cores(tr2, g) = Cores(tr, g)
           /\ IdsUnique(tr) => IdsUnique(tr2)
  <1>0. /\ f \in DOMAIN tr.entry /\ n \in Bare(tr, f) /\ stem = tr.entry[f][n].stem /\ stem \notin Leaves(tr, f)
        /\ tr2.entry = tr.entry
        /\ \A g \in DOMAIN tr.entry : /\ g # f => Leaves(tr2, g) = Leaves(tr, g)
                                      /\ \A r \in Leaves(tr, g) : tr2.leaf[g][r] = tr.leaf[g][r]
        /\ Leaves(tr2, f) = Leaves(tr, f) \cup {stem}
        /\ tr2.leaf[f][stem].id = n
    BY DEF PullsInto
  <1>1. /\ n \in DOMAIN tr.entry[f] /\ n # NoId /\ stem # NoName
    BY <1>0 DEF Bare, IsTree
  <1>2. \A g \in DOMAIN tr.entry : NoName \notin Leaves(tr, g) /\ NoName \notin Leaves(tr2, g)
    <2>1. \A g \in DOMAIN tr.entry : NoName \notin Leaves(tr, g)
      BY DEF IsTree, Leaves
    <2>2. \A g \in DOMAIN tr2.entry : NoName \notin Leaves(tr2, g)
      BY DEF IsTree, Leaves
    <2>3. QED
      BY <1>0, <2>1, <2>2
  <1>3. \A r \in Leaves(tr, f) : tr.leaf[f][r].id # n
    BY <1>0, <1>2, LeafForFacts DEF Bare
  <1>4. \A m \in DOMAIN tr.entry[f] : m \in Bare(tr2, f) <=> m \in Bare(tr, f) /\ m # n
    <2>1. ASSUME NEW m \in DOMAIN tr.entry[f]
          PROVE  m \in Bare(tr2, f) <=> \A r \in Leaves(tr2, f) : tr2.leaf[f][r].id # m
      BY <1>0, <1>2, LeafForFacts DEF Bare
    <2>2. ASSUME NEW m \in DOMAIN tr.entry[f]
          PROVE  m \in Bare(tr, f) <=> \A r \in Leaves(tr, f) : tr.leaf[f][r].id # m
      BY <1>0, <1>2, LeafForFacts DEF Bare
    <2>3. QED
      BY <1>0, <2>1, <2>2
  <1>5. Bare(tr2, f) = Bare(tr, f) \ {n}
    BY <1>0, <1>4 DEF Bare
  <1>6. \A m : EntryCore(tr2, f, m) = EntryCore(tr, f, m)
    BY <1>0 DEF EntryCore
  <1>7. ASSUME NEW g \in DOMAIN tr.entry, NEW r \in Leaves(tr, g)
        PROVE  LeafCore(tr2, g, r) = LeafCore(tr, g, r)
    BY <1>0 DEF LeafCore, LeafKey
  <1>8. LeafKey(tr2, f, stem) = Key(f, n, NoName)
    BY <1>0, <1>1 DEF LeafKey
  <1>9. EntryCore(tr, f, n) \in Cores(tr, f) /\ LeafCore(tr2, f, stem) \in Cores(tr2, f)
    BY <1>0 DEF Cores
  <1>10. ASSUME NEW c \in Cores(tr, f), c # EntryCore(tr, f, n)
         PROVE  c \in Cores(tr2, f)
    <2>1. CASE \E m \in Bare(tr, f) : c = EntryCore(tr, f, m)
      BY <1>5, <1>6, <1>10, <2>1 DEF Cores
    <2>2. CASE \E r \in Leaves(tr, f) : c = LeafCore(tr, f, r)
      BY <1>0, <1>7, <2>2 DEF Cores
    <2>3. QED
      BY <2>1, <2>2 DEF Cores
  <1>11. ASSUME NEW d \in Cores(tr2, f), d # LeafCore(tr2, f, stem)
         PROVE  d \in Cores(tr, f) /\ d.key # Key(f, n, NoName)
    <2>1. CASE \E m \in Bare(tr2, f) : d = EntryCore(tr2, f, m)
      <3>1. PICK m \in Bare(tr, f) : m # n /\ d = EntryCore(tr, f, m)
        BY <1>5, <1>6, <2>1
      <3>2. d.key = Key(f, m, NoName)
        BY <3>1, EntryCoreFields
      <3>3. QED
        BY <3>1, <3>2, KeyFields DEF Cores
    <2>2. CASE \E r \in Leaves(tr2, f) : d = LeafCore(tr2, f, r)
      <3>1. PICK r \in Leaves(tr, f) : d = LeafCore(tr, f, r)
        BY <1>0, <1>7, <1>11, <2>2
      <3>2. d.key = LeafKey(tr, f, r) /\ tr.leaf[f][r].id # n
        BY <1>3, <3>1, LeafCoreFields
      <3>3. d.key # Key(f, n, NoName)
        BY <1>1, <3>2, KeyFields DEF LeafKey
      <3>4. QED
        BY <3>1, <3>3 DEF Cores
    <2>3. QED
      BY <2>1, <2>2 DEF Cores
  <1>12. ASSUME NEW g \in DOMAIN tr.entry, g # f
         PROVE  Cores(tr2, g) = Cores(tr, g)
    <2>1. Leaves(tr2, g) = Leaves(tr, g)
      BY <1>0, <1>12
    <2>2. \A m : LeafFor(tr2, g, m) = NoName <=> LeafFor(tr, g, m) = NoName
      BY <1>0, <1>2, <2>1, LeafForFacts
    <2>3. Bare(tr2, g) = Bare(tr, g)
      BY <1>0, <2>2 DEF Bare
    <2>4. \A m : EntryCore(tr2, g, m) = EntryCore(tr, g, m)
      BY <1>0 DEF EntryCore
    <2>5. \A r \in Leaves(tr, g) : LeafCore(tr2, g, r) = LeafCore(tr, g, r)
      BY <1>7
    <2>6. QED
      BY <2>1, <2>3, <2>4, <2>5 DEF Cores
  <1>13. ASSUME IdsUnique(tr)
         PROVE  IdsUnique(tr2)
    <2>1. ASSUME NEW g \in DOMAIN tr.entry, NEW r \in Leaves(tr2, g), NEW q \in Leaves(tr2, g),
                 tr2.leaf[g][r].id = tr2.leaf[g][q].id, tr2.leaf[g][r].id # NoId
          PROVE  r = q
      <3>1. \A u, v \in Leaves(tr, g) : tr.leaf[g][u].id = tr.leaf[g][v].id /\ tr.leaf[g][u].id # NoId => u = v
        BY <1>13 DEF IdsUnique, IdsAreUnique
      <3>2. CASE g # f
        BY <1>0, <2>1, <3>1, <3>2
      <3>3. CASE g = f
        BY <1>0, <1>3, <2>1, <3>1, <3>3
      <3>4. QED
        BY <3>2, <3>3
    <2>2. QED
      BY <1>0, <2>1 DEF IdsUnique, IdsAreUnique
  <1>14. QED
    BY <1>0, <1>1, <1>8, <1>9, <1>10, <1>11, <1>12, <1>13

LEMMA PullAll ==
    ASSUME NEW tr, IsTree(tr), NEW tr2, IsTree(tr2), NEW f, NEW n, NEW stem, PullsInto(tr, tr2, f, n, stem),
           NEW s \in Scopes(tr)
    PROVE  /\ SameEpics(tr, tr2)
           /\ f \in FoldersRead(tr, s) => /\ EntryCore(tr, f, n) \in AllCores(tr, s)
                                          /\ LeafCore(tr2, f, stem) \in AllCores(tr2, s)
           /\ \A c \in AllCores(tr, s) : \/ c = EntryCore(tr, f, n) /\ f \in FoldersRead(tr, s)
                                         \/ c \in AllCores(tr2, s)
           /\ \A d \in AllCores(tr2, s) : \/ d = LeafCore(tr2, f, stem) /\ f \in FoldersRead(tr, s)
                                          \/ d \in AllCores(tr, s) /\ d.key # Key(f, n, NoName)
           /\ TicketKeys(tr2, s) = TicketKeys(tr, s)
           /\ \A x : x # NoName => TrackedOf(AllCores(tr2, s), x) = TrackedOf(AllCores(tr, s), x)
           /\ \A g, x : x # NoName /\ (g # f \/ x # stem) =>
                MatesOf(AllCores(tr2, s), g, x) = MatesOf(AllCores(tr, s), g, x)
  <1> DEFINE c0 == EntryCore(tr, f, n)
             c1 == LeafCore(tr2, f, stem)
             C == AllCores(tr, s)
             D == AllCores(tr2, s)
  <1>1. SameEpics(tr, tr2)
    BY DEF PullsInto, SameEpics, Epics
  <1>2. FoldersRead(tr2, s) = FoldersRead(tr, s) /\ FoldersRead(tr, s) \subseteq DOMAIN tr.entry
    BY <1>1, SameEpicsFacts, AllCoresFacts
  <1>3. /\ c0.key = Key(f, n, NoName) /\ c0.file = NoName /\ c0.tracker = NoName
        /\ c1.key = Key(f, n, NoName) /\ c1.file = stem /\ c1.tracker = NoName
        /\ n # NoId /\ stem # NoName
    <2>1. tr2.leaf[f][stem].tracker = NoName
      BY DEF PullsInto
    <2>2. QED
      BY <2>1, EntryCoreFields, LeafCoreFields, PullCores
  <1>4. c0 \in Cores(tr, f) /\ c1 \in Cores(tr2, f)
    BY PullCores
  <1> HIDE DEF c0, c1
  <1>5. f \in FoldersRead(tr, s) => c0 \in C /\ c1 \in D
    BY <1>2, <1>4 DEF AllCores
  <1>6. ASSUME NEW c \in C
        PROVE  (c = c0 /\ f \in FoldersRead(tr, s)) \/ c \in D
    <2>1. PICK g \in FoldersRead(tr, s) : c \in Cores(tr, g)
      BY DEF AllCores
    <2>2. CASE g = f
      <3>1. c = c0 \/ c \in Cores(tr2, f)
        BY <2>1, <2>2, PullCores DEF c0
      <3>2. QED
        BY <1>2, <2>1, <2>2, <3>1 DEF AllCores
    <2>3. CASE g # f
      <3>1. c \in Cores(tr2, g)
        BY <1>2, <2>1, <2>3, PullCores
      <3>2. QED
        BY <1>2, <2>1, <3>1 DEF AllCores
    <2>4. QED
      BY <2>2, <2>3
  <1>7. ASSUME NEW d \in D
        PROVE  (d = c1 /\ f \in FoldersRead(tr, s)) \/ (d \in C /\ d.key # Key(f, n, NoName))
    <2>1. PICK g \in FoldersRead(tr, s) : d \in Cores(tr2, g)
      BY <1>2 DEF AllCores
    <2>2. CASE g = f
      <3>1. d = c1 \/ (d \in Cores(tr, f) /\ d.key # Key(f, n, NoName))
        BY <2>1, <2>2, PullCores DEF c1
      <3>2. QED
        BY <1>2, <2>1, <2>2, <3>1 DEF AllCores
    <2>3. CASE g # f
      <3>1. d \in Cores(tr, g)
        BY <1>2, <2>1, <2>3, PullCores
      <3>2. d \in C
        BY <2>1, <3>1 DEF AllCores
      <3>3. d.key.folder = g
        BY <1>2, <2>1, <3>1, CoreKeys, KeyFields
      <3>4. QED
        BY <2>3, <3>2, <3>3, KeyFields
    <2>4. QED
      BY <2>2, <2>3
  <1> HIDE DEF C, D
  <1>8. KeysOf(D) = KeysOf(C)
    <2>1. ASSUME NEW k \in KeysOf(D)
          PROVE  k \in KeysOf(C)
      <3>1. PICK d \in D : d.key = k
        BY DEF KeysOf
      <3>2. QED
        BY <1>3, <1>5, <1>7, <3>1 DEF KeysOf
    <2>2. ASSUME NEW k \in KeysOf(C)
          PROVE  k \in KeysOf(D)
      <3>1. PICK c \in C : c.key = k
        BY DEF KeysOf
      <3>2. QED
        BY <1>3, <1>5, <1>6, <3>1 DEF KeysOf
    <2>3. QED
      BY <2>1, <2>2
  <1>9. ASSUME NEW x, x # NoName
        PROVE  TrackedOf(D, x) = TrackedOf(C, x)
    <2>1. \A c \in C : c.tracker = x => c \in D
      BY <1>3, <1>6, <1>9
    <2>2. \A d \in D : d.tracker = x => d \in C
      BY <1>3, <1>7, <1>9
    <2>3. QED
      BY <2>1, <2>2 DEF TrackedOf
  <1>10. ASSUME NEW g, NEW x, x # NoName, g # f \/ x # stem
         PROVE  MatesOf(D, g, x) = MatesOf(C, g, x)
    <2>1. \A c \in C : c.key.folder = g /\ c.file = x => c \in D
      BY <1>3, <1>6, <1>10
    <2>2. \A d \in D : d.key.folder = g /\ d.file = x => d \in C
      BY <1>3, <1>7, <1>10, KeyFields
    <2>3. QED
      BY <2>1, <2>2 DEF MatesOf
  <1>11. QED
    BY <1>1, <1>5, <1>6, <1>7, <1>8, <1>9, <1>10 DEF c0, c1, C, D, TicketKeys

\* What named something before a pull names it after.
LEMMA PullResolve ==
    ASSUME NEW tr, IsTree(tr), WellNamed(tr), NEW tr2, IsTree(tr2),
           NEW f, NEW n, NEW stem, PullsInto(tr, tr2, f, n, stem),
           NEW s \in Scopes(tr), NEW g, NEW b \in BOOLEAN, NEW ref, ResolveAt(tr, s, g, b, ref) # NoKey
    PROVE  ResolveAt(tr2, s, g, b, ref) = ResolveAt(tr, s, g, b, ref)
  <1> DEFINE C == AllCores(tr, s)
             D == AllCores(tr2, s)
  <1>1. SameEpics(tr, tr2) /\ TicketKeys(tr2, s) = TicketKeys(tr, s)
    BY PullAll
  <1>2. ASSUME ref.kind \notin {"id", "cross"}, ref.name # NoName
        PROVE  /\ MatesFor(D, g, b, ref.name) = MatesFor(C, g, b, ref.name)
               /\ TrackedOf(D, ref.name) = TrackedOf(C, ref.name)
    <2>1. g # f \/ ref.name # stem
      <3>1. SUFFICES ASSUME g = f, ref.name = stem
                     PROVE  FALSE
        OBVIOUS
      <3>2. stem \notin Epics(tr) \cup TrackerIds(tr) /\ stem \notin Leaves(tr, f)
        <4>1. n \in DOMAIN tr.entry[f]
          BY PullCores
        <4>2. QED
          BY <4>1 DEF PullsInto, WellNamed
      <3>3. ResolveAt(tr, s, g, b, ref) = NoKey
        BY <1>2, <3>1, <3>2, NamesNothing
      <3>4. QED
        BY <3>3
    <2>2. MatesOf(D, g, ref.name) = MatesOf(C, g, ref.name) /\ TrackedOf(D, ref.name) = TrackedOf(C, ref.name)
      BY <1>2, <2>1, PullAll
    <2>3. QED
      BY <2>2 DEF MatesFor
  <1>3. QED
    BY <1>1, <1>2, SameResolve

LEMMA PullMeant ==
    ASSUME NEW tr, IsTree(tr), WellNamed(tr), NEW tr2, IsTree(tr2),
           NEW f, NEW n, NEW stem, PullsInto(tr, tr2, f, n, stem),
           NEW s \in Scopes(tr), NEW g, NEW b \in BOOLEAN, NEW refs, NoKey \notin Meant(tr, s, g, b, refs)
    PROVE  Meant(tr2, s, g, b, refs) = Meant(tr, s, g, b, refs)
  <1>1. ASSUME NEW x \in refs
        PROVE  ResolveAt(tr2, s, g, b, x) = ResolveAt(tr, s, g, b, x)
    <2>1. ResolveAt(tr, s, g, b, x) # NoKey
      BY DEF Meant
    <2>2. QED
      BY <2>1, PullResolve
  <1>2. QED
    BY <1>1 DEF Meant

\* What a list names, wherever it is read from.
LEMMA MeantScopeFree ==
    ASSUME NEW tr, IsTree(tr), WellNamed(tr), NEW s \in Scopes(tr), NEW z \in Scopes(tr),
           NEW f \in FoldersRead(tr, s), f \in FoldersRead(tr, z), NEW b \in BOOLEAN, NEW refs,
           NoKey \notin Meant(tr, s, f, b, refs), NoKey \notin Meant(tr, z, f, b, refs)
    PROVE  Meant(tr, s, f, b, refs) = Meant(tr, z, f, b, refs)
  <1>1. ASSUME NEW x \in refs
        PROVE  ResolveAt(tr, s, f, b, x) = ResolveAt(tr, z, f, b, x)
    <2>1. ResolveAt(tr, s, f, b, x) # NoKey /\ ResolveAt(tr, z, f, b, x) # NoKey
      BY DEF Meant
    <2>2. ResolveAt(tr, s, f, b, x) = ResolveAt(tr, NoName, f, b, x)
      BY <2>1, ScopeFree
    <2>3. ResolveAt(tr, z, f, b, x) = ResolveAt(tr, NoName, f, b, x)
      BY <2>1, ScopeFree
    <2>4. QED
      BY <2>2, <2>3
  <1>2. QED
    BY <1>1 DEF Meant

\* What the plan writes for keys that are read names them, from the same
\* folder.
LEMMA WrittenMeans ==
    ASSUME NEW tr, IsTree(tr), WellNamed(tr), NumbersUnique(tr), NEW s \in Scopes(tr), NEW f \in DOMAIN tr.entry,
           NEW keys, keys \subseteq TicketKeys(tr, s) \cup EpicKeys(tr, s), \A k \in keys : Written(tr, f, k)
    PROVE  Meant(tr, s, f, TRUE, {RefOf(tr, k, f) : k \in keys}) = keys
  <1>1. ASSUME NEW k \in keys
        PROVE  ResolveAt(tr, s, f, TRUE, RefOf(tr, k, f)) = k
    <2>1. \A b \in BOOLEAN : b => ResolveAt(tr, s, f, b, RefOf(tr, k, f)) = k
      BY RoundTrip
    <2>2. QED
      BY <2>1
  <1>2. QED
    BY <1>1 DEF Meant

\* A folder is read from its own scope.
LEMMA OwnScope ==
    ASSUME NEW tr, NEW f \in DOMAIN tr.entry, IsTree(tr)
    PROVE  f \in Scopes(tr) /\ f \in FoldersRead(tr, f) /\ f \in FoldersRead(tr, NoName)
  BY DEF Scopes, FoldersRead, IsTree

LEMMA PullAfter ==
    ASSUME NEW tr, InOrder(tr), NEW tr2, IsTree(tr2),
           NEW f, NEW n, NEW stem, PullsInto(tr, tr2, f, n, stem),
           NEW s \in Scopes(tr), f \in FoldersRead(tr, s)
    PROVE  /\ AfterKeys(tr2, s, LeafCore(tr2, f, stem)) = AfterKeys(tr, s, EntryCore(tr, f, n))
           /\ Planned(tr2, s, LeafCore(tr2, f, stem)) = Planned(tr, s, EntryCore(tr, f, n))
           /\ Planned(tr, s, EntryCore(tr, f, n)) = AfterKeys(tr, s, EntryCore(tr, f, n))
           /\ ~Drifts(tr2, s, LeafCore(tr2, f, stem))
  <1> DEFINE c0 == EntryCore(tr, f, n)
             c1 == LeafCore(tr2, f, stem)
             refs == tr.entry[f][n].after
             keys == AfterKeys(tr, s, c0)
  <1>0. /\ IsTree(tr) /\ IdsUnique(tr) /\ NumbersUnique(tr) /\ WellNamed(tr) /\ Writable(tr)
        /\ \A z \in Scopes(tr) : Loads(tr, z)
    BY DEF InOrder
  <1>1. /\ f \in DOMAIN tr.entry /\ n \in DOMAIN tr.entry[f] /\ tr2.entry = tr.entry
        /\ tr2.leaf[f][stem].id = n /\ tr2.leaf[f][stem].hitl = tr.entry[f][n].hitl
        /\ tr2.leaf[f][stem].after = {RefOf(tr, k, f) : k \in AfterKeys(tr, f, c0)}
    <2>1. n \in DOMAIN tr.entry[f]
      BY <1>0, PullCores
    <2>2. QED
      BY <2>1 DEF PullsInto
  <1>2. /\ c0.key.folder = f /\ c0.raw = refs /\ c0.planned = refs /\ c0.file = NoName
        /\ c1.key.folder = f /\ c1.raw = tr2.leaf[f][stem].after /\ c1.planned = refs
        /\ c1.wanted = c1.hitl /\ c0.key = Key(f, n, NoName) /\ c1.key = Key(f, n, NoName)
    <2>1. c1.key = Key(f, n, NoName) /\ c0.key = Key(f, n, NoName)
      BY <1>0, PullCores, LeafCoreFields, EntryCoreFields
    <2>2. c1.planned = refs /\ c1.wanted = c1.hitl
      BY <1>1, LeafCoreFields
    <2>3. QED
      BY <2>1, <2>2, EntryCoreFields, LeafCoreFields, KeyFields
  <1>3. f \in Scopes(tr) /\ f \in FoldersRead(tr, f)
    BY <1>0, <1>1, OwnScope
  <1>4. c0 \in AllCores(tr, s) /\ c0 \in AllCores(tr, f)
    BY <1>0, <1>3, PullAll
  <1> HIDE DEF c0, c1
  <1>5. NoKey \notin AfterKeys(tr, s, c0) /\ NoKey \notin AfterKeys(tr, f, c0)
    BY <1>0, <1>3, <1>4, LoadsIs
  <1>6. AfterKeys(tr, s, c0) = Meant(tr, s, f, TRUE, refs) /\ AfterKeys(tr, f, c0) = Meant(tr, f, f, TRUE, refs)
        /\ Planned(tr, s, c0) = Meant(tr, s, f, TRUE, refs)
    BY <1>2 DEF AfterKeys, Planned
  <1>7. AfterKeys(tr, f, c0) = keys
    <2>1. NoKey \notin Meant(tr, s, f, TRUE, refs) /\ NoKey \notin Meant(tr, f, f, TRUE, refs)
      BY <1>5, <1>6
    <2>2. Meant(tr, s, f, TRUE, refs) = Meant(tr, f, f, TRUE, refs)
      BY <1>0, <1>3, <2>1, MeantScopeFree, TRUE \in BOOLEAN
    <2>3. QED
      BY <1>6, <2>2
  <1>8. keys \subseteq TicketKeys(tr, s) \cup EpicKeys(tr, s)
    BY <1>0, <1>4, WaitsForWhatIsRead
  <1>9. \A k \in keys : Written(tr, f, k)
    BY <1>0, <1>2, <1>4, WritableIs
  <1>10. Meant(tr, s, f, TRUE, c1.raw) = keys
    <2>1. c1.raw = {RefOf(tr, k, f) : k \in keys}
      BY <1>1, <1>2, <1>7
    <2> HIDE DEF keys
    <2>2. Meant(tr, s, f, TRUE, {RefOf(tr, k, f) : k \in keys}) = keys
      BY <1>0, <1>1, <1>8, <1>9, WrittenMeans
    <2>3. QED
      BY <2>1, <2>2
  <1>11. Meant(tr2, s, f, TRUE, c1.raw) = keys
    <2>1. NoKey \notin Meant(tr, s, f, TRUE, c1.raw)
      BY <1>5, <1>10
    <2>2. \A b \in BOOLEAN : NoKey \notin Meant(tr, s, f, b, c1.raw) => Meant(tr2, s, f, b, c1.raw) = Meant(tr, s, f, b, c1.raw)
      BY <1>0, PullMeant
    <2>3. Meant(tr2, s, f, TRUE, c1.raw) = Meant(tr, s, f, TRUE, c1.raw)
      BY <2>1, <2>2
    <2>4. QED
      BY <1>10, <2>3
  <1>12. Meant(tr2, s, f, TRUE, refs) = keys
    <2>1. NoKey \notin Meant(tr, s, f, TRUE, refs)
      BY <1>5, <1>6
    <2>2. \A b \in BOOLEAN : NoKey \notin Meant(tr, s, f, b, refs) => Meant(tr2, s, f, b, refs) = Meant(tr, s, f, b, refs)
      BY <1>0, PullMeant
    <2>3. Meant(tr2, s, f, TRUE, refs) = Meant(tr, s, f, TRUE, refs)
      BY <2>1, <2>2
    <2>4. QED
      BY <1>6, <2>3
  <1>13. AfterKeys(tr2, s, c1) = keys /\ Planned(tr2, s, c1) = keys /\ Planned(tr, s, c0) = keys
    BY <1>2, <1>6, <1>11, <1>12 DEF AfterKeys, Planned
  <1>14. ~Drifts(tr2, s, c1)
    BY <1>2, <1>13 DEF Drifts
  <1>15. QED
    BY <1>13, <1>14 DEF c0, c1

LEMMA PlansUniqueIs ==
    ASSUME NEW tr, NEW f
    PROVE  PlansAreUnique(tr, f) <=> \A c \in Cores(tr, f) : \A p, q \in PlansFor(tr, f, c.id, c.file) : p = q
  <1>1. ASSUME PlansAreUnique(tr, f), NEW c \in Cores(tr, f)
        PROVE  \A p, q \in PlansFor(tr, f, c.id, c.file) : p = q
    <2>1. PICK r \in FolderRows(tr, f) : Core(r) = c
      BY RowFacts
    <2>2. r.id = c.id /\ r.file = c.file
      BY <2>1, CoreOf
    <2>3. QED
      BY <1>1, <2>2 DEF PlansAreUnique
  <1>2. ASSUME \A c \in Cores(tr, f) : \A p, q \in PlansFor(tr, f, c.id, c.file) : p = q,
               NEW r \in FolderRows(tr, f)
        PROVE  \A p, q \in PlansFor(tr, f, r.id, r.file) : p = q
    <2>1. Core(r) \in Cores(tr, f) /\ Core(r).id = r.id /\ Core(r).file = r.file
      BY RowFacts, CoreOf
    <2>2. QED
      BY <1>2, <2>1
  <1>3. QED
    BY <1>1, <1>2 DEF PlansAreUnique

\* A plan of the pulled ticket named its entry.
LEMMA PullPlans ==
    ASSUME NEW tr, IsTree(tr), PlansNameFiles(tr), NEW tr2, IsTree(tr2),
           NEW f, NEW n, NEW stem, PullsInto(tr, tr2, f, n, stem)
    PROVE  /\ PlansFor(tr2, f, n, stem) = PlansFor(tr, f, n, NoName)
           /\ \A g, id, file : PlansFor(tr2, g, id, file) = PlansFor(tr, g, id, file)
           /\ PlansNameFiles(tr2)
           /\ PlansUnique(tr) => PlansUnique(tr2)
  <1>1. /\ f \in DOMAIN tr.entry /\ n \in DOMAIN tr.entry[f] /\ stem = tr.entry[f][n].stem /\ stem \notin Leaves(tr, f)
        /\ tr2.plan = tr.plan /\ tr2.entry = tr.entry /\ n # NoId
    <2>1. n \in DOMAIN tr.entry[f] /\ n # NoId
      BY PullCores
    <2>2. QED
      BY <2>1 DEF PullsInto
  <1>2. \A g, id, file : PlansFor(tr2, g, id, file) = PlansFor(tr, g, id, file)
    BY <1>1 DEF PlansFor
  <1>3. ASSUME NEW p \in DOMAIN tr.plan[f], tr.plan[f][p].type # "cut", tr.plan[f][p].id = NoId
        PROVE  tr.plan[f][p].file # stem
    <2>1. tr.plan[f][p].type = "plan"
      BY <1>1, <1>3 DEF IsTree
    <2>2. QED
      BY <1>1, <1>3, <2>1 DEF PlansNameFiles
  <1>4. PlansFor(tr2, f, n, stem) = PlansFor(tr, f, n, NoName)
    <2>1. PlansFor(tr2, f, n, stem) = PlansFor(tr, f, n, stem)
      BY <1>2
    <2>2. ASSUME NEW p \in DOMAIN tr.plan[f]
          PROVE  p \in PlansFor(tr, f, n, stem) <=> p \in PlansFor(tr, f, n, NoName)
      BY <1>3 DEF PlansFor
    <2>3. QED
      BY <2>1, <2>2 DEF PlansFor
  <1>5. PlansNameFiles(tr2)
    <2>1. \A g \in DOMAIN tr.entry : Leaves(tr, g) \subseteq Leaves(tr2, g)
      BY DEF PullsInto
    <2>2. QED
      BY <1>1, <2>1 DEF PlansNameFiles
  <1>6. ASSUME PlansUnique(tr), NEW g \in DOMAIN tr.entry
        PROVE  PlansAreUnique(tr2, g)
    <2>0. \A c \in Cores(tr, g) : \A p, q \in PlansFor(tr, g, c.id, c.file) : p = q
      BY <1>6, PlansUniqueIs DEF PlansUnique
    <2>1. CASE g # f
      BY <1>2, <1>6, <2>0, <2>1, PlansUniqueIs, PullCores
    <2>2. CASE g = f
      <3>1. \A p, q \in PlansFor(tr2, f, n, stem) : p = q
        <4>1. EntryCore(tr, f, n) \in Cores(tr, f) /\ EntryCore(tr, f, n).id = n /\ EntryCore(tr, f, n).file = NoName
          BY PullCores, EntryCoreFields
        <4>2. QED
          BY <1>4, <2>0, <2>2, <4>1
      <3>2. LeafCore(tr2, f, stem).id = n /\ LeafCore(tr2, f, stem).file = stem
        <4>1. tr2.leaf[f][stem].id = n
          BY DEF PullsInto
        <4>2. QED
          BY <4>1, LeafCoreFields
      <3>3. \A d \in Cores(tr2, f) : d = LeafCore(tr2, f, stem) \/ d \in Cores(tr, f)
        BY PullCores
      <3>4. \A d \in Cores(tr2, f) : \A p, q \in PlansFor(tr2, f, d.id, d.file) : p = q
        BY <1>2, <2>0, <2>2, <3>1, <3>2, <3>3
      <3>5. QED
        BY <2>2, <3>4, PlansUniqueIs
    <2>3. QED
      BY <2>1, <2>2
  <1>7. QED
    BY <1>1, <1>2, <1>4, <1>5, <1>6 DEF PlansUnique

\* Names stay one thing's: the new leaf file has its entry's name and no
\* tracker id.
LEMMA PullNamed ==
    ASSUME NEW tr, IsTree(tr), WellNamed(tr), NEW tr2, IsTree(tr2),
           NEW f, NEW n, NEW stem, PullsInto(tr, tr2, f, n, stem)
    PROVE  WellNamed(tr2)
  <1>1. /\ f \in DOMAIN tr.entry /\ n \in DOMAIN tr.entry[f] /\ stem = tr.entry[f][n].stem /\ stem \notin Leaves(tr, f)
        /\ tr2.entry = tr.entry /\ tr2.container = tr.container /\ Epics(tr2) = Epics(tr)
    <2>1. n \in DOMAIN tr.entry[f]
      BY PullCores
    <2>2. QED
      BY <2>1 DEF PullsInto, Epics
  <1>2. \A g \in DOMAIN tr.entry : \A r \in Leaves(tr2, g) :
          \/ r \in Leaves(tr, g) /\ tr2.leaf[g][r].tracker = tr.leaf[g][r].tracker
          \/ g = f /\ r = stem /\ tr2.leaf[g][r].tracker = NoName
    BY DEF PullsInto
  <1>3. ASSUME NEW x, x # NoName, x \in TrackerIds(tr2)
        PROVE  x \in TrackerIds(tr)
    <2>1. CASE \E g \in DOMAIN tr2.entry : \E r \in Leaves(tr2, g) : x = tr2.leaf[g][r].tracker
      BY <1>1, <1>2, <1>3, <2>1, TrackerIdsAre
    <2>2. CASE \E e \in Epics(tr2) : x = tr2.container[e].tracker
      BY <1>1, <2>2, TrackerIdsAre
    <2>3. QED
      BY <1>3, <2>1, <2>2, TrackerIdsAre
  <1>4. NoName \notin Epics(tr) /\ \A g \in DOMAIN tr.entry : \A m \in DOMAIN tr.entry[g] : tr.entry[g][m].stem # NoName
    BY DEF IsTree
  <1>5. ASSUME NEW g \in DOMAIN tr2.entry
        PROVE  /\ \A m \in DOMAIN tr2.entry[g] : tr2.entry[g][m].stem \notin Epics(tr2) \cup TrackerIds(tr2)
               /\ \A r \in Leaves(tr2, g) : r \notin Epics(tr2)
    BY <1>1, <1>2, <1>3, <1>4 DEF WellNamed
  <1>6. TrackerIds(tr2) \cap Epics(tr2) = {}
    BY <1>1, <1>3, <1>4 DEF WellNamed
  <1>7. ASSUME NEW g \in DOMAIN tr2.entry, NEW h \in DOMAIN tr2.entry, NEW r \in Leaves(tr2, g), NEW q \in Leaves(tr2, h),
               tr2.leaf[g][r].tracker = tr2.leaf[h][q].tracker, tr2.leaf[g][r].tracker # NoName
        PROVE  g = h /\ r = q
    <2>1. r \in Leaves(tr, g) /\ tr2.leaf[g][r].tracker = tr.leaf[g][r].tracker
      BY <1>1, <1>2, <1>7
    <2>2. q \in Leaves(tr, h) /\ tr2.leaf[h][q].tracker = tr.leaf[h][q].tracker
      BY <1>1, <1>2, <1>7
    <2>3. \A a, b \in DOMAIN tr.entry : \A u \in Leaves(tr, a) : \A v \in Leaves(tr, b) :
            tr.leaf[a][u].tracker = tr.leaf[b][v].tracker /\ tr.leaf[a][u].tracker # NoName => a = b /\ u = v
      BY DEF WellNamed
    <2>4. g \in DOMAIN tr.entry /\ h \in DOMAIN tr.entry
      BY <1>1, <1>7
    <2>5. tr.leaf[g][r].tracker = tr.leaf[h][q].tracker /\ tr.leaf[g][r].tracker # NoName
      BY <1>7, <2>1, <2>2
    <2>6. QED
      BY <2>1, <2>2, <2>3, <2>4, <2>5
  <1>8. \A e, g \in Epics(tr2) :
          tr2.container[e].tracker = tr2.container[g].tracker /\ tr2.container[e].tracker # NoName => e = g
    BY <1>1 DEF WellNamed
  <1>9. ASSUME NEW e \in Epics(tr2), NEW g \in DOMAIN tr2.entry, NEW r \in Leaves(tr2, g), tr2.leaf[g][r].tracker # NoName
        PROVE  tr2.leaf[g][r].tracker # tr2.container[e].tracker
    <2>1. r \in Leaves(tr, g) /\ tr2.leaf[g][r].tracker = tr.leaf[g][r].tracker
      BY <1>1, <1>2, <1>9
    <2>2. QED
      BY <1>1, <1>9, <2>1 DEF WellNamed
  <1>10. QED
    BY <1>5, <1>6, <1>7, <1>8, <1>9 DEF WellNamed

LEMMA PullLinks ==
    ASSUME NEW tr, InOrder(tr), NEW tr2, IsTree(tr2),
           NEW f, NEW n, NEW stem, PullsInto(tr, tr2, f, n, stem), NEW s \in Scopes(tr)
    PROVE  /\ GatesAt(tr2, s) = GatesAt(tr, s)
           /\ \A c \in AllCores(tr, s) : /\ SameLinks(tr, c, tr2, c, s)
                                         /\ Drifts(tr2, s, c) <=> Drifts(tr, s, c)
           /\ f \in FoldersRead(tr, s) => SameLinks(tr, EntryCore(tr, f, n), tr2, LeafCore(tr2, f, stem), s)
  <1>0. /\ IsTree(tr) /\ IdsUnique(tr) /\ NumbersUnique(tr) /\ WellNamed(tr) /\ Loads(tr, s)
    BY DEF InOrder
  <1>1. SameEpics(tr, tr2) /\ EpicsRead(tr2, s) = EpicsRead(tr, s)
        /\ \A e \in EpicsRead(tr, s) : tr2.container[e].after = tr.container[e].after
    <2>1. SameEpics(tr, tr2)
      BY <1>0, PullAll
    <2>2. QED
      BY <2>1, SameEpicsFacts
  <1>2. \A g, refs : \A b \in BOOLEAN : NoKey \notin Meant(tr, s, g, b, refs) =>
          Meant(tr2, s, g, b, refs) = Meant(tr, s, g, b, refs)
    BY <1>0, PullMeant
  <1>3. GatesAt(tr2, s) = GatesAt(tr, s)
    <2>1. ASSUME NEW e \in EpicsRead(tr, s)
          PROVE  Meant(tr2, s, e, FALSE, tr2.container[e].after) = Meant(tr, s, e, FALSE, tr.container[e].after)
      <3>1. NoKey \notin GatesAt(tr, s)[e]
        BY <1>0, LoadsIs
      <3>2. NoKey \notin Meant(tr, s, e, FALSE, tr.container[e].after)
        BY <3>1 DEF GatesAt
      <3>3. QED
        BY <1>1, <1>2, <3>2
    <2>2. QED
      BY <1>1, <2>1 DEF GatesAt
  <1>4. ASSUME NEW c \in AllCores(tr, s)
        PROVE  SameLinks(tr, c, tr2, c, s) /\ (Drifts(tr2, s, c) <=> Drifts(tr, s, c))
    <2>1. NoKey \notin AfterKeys(tr, s, c) /\ NoKey \notin Planned(tr, s, c)
      BY <1>0, LoadsIs
    <2>2. AfterKeys(tr2, s, c) = AfterKeys(tr, s, c)
      BY <1>2, <2>1 DEF AfterKeys
    <2>3. Planned(tr2, s, c) = Planned(tr, s, c)
      BY <1>2, <2>1 DEF Planned
    <2>4. Gated(tr2, s, c) = Gated(tr, s, c)
      BY <1>1, <1>3 DEF Gated
    <2>5. QED
      BY <2>2, <2>3, <2>4 DEF SameLinks, Drifts
  <1>5. ASSUME f \in FoldersRead(tr, s)
        PROVE  SameLinks(tr, EntryCore(tr, f, n), tr2, LeafCore(tr2, f, stem), s)
    <2> DEFINE c0 == EntryCore(tr, f, n)
               c1 == LeafCore(tr2, f, stem)
    <2>1. c0.key = Key(f, n, NoName) /\ c1.key = Key(f, n, NoName)
      BY <1>0, PullCores, EntryCoreFields, LeafCoreFields
    <2>2. AfterKeys(tr2, s, c1) = AfterKeys(tr, s, c0) /\ Planned(tr2, s, c1) = Planned(tr, s, c0)
      BY <1>5, PullAfter
    <2> HIDE DEF c0, c1
    <2>3. Gated(tr2, s, c1) = Gated(tr, s, c0)
      BY <1>1, <1>3, <2>1 DEF Gated
    <2>4. QED
      BY <2>1, <2>2, <2>3 DEF SameLinks, c0, c1
  <1>6. QED
    BY <1>3, <1>4, <1>5

LEMMA PullFindable ==
    ASSUME NEW tr, IsTree(tr), NEW tr2, NEW f, NEW n, NEW stem, PullsInto(tr, tr2, f, n, stem), Findable(tr)
    PROVE  Findable(tr2)
  <1>1. tr2.entry = tr.entry /\ tr2.number = tr.number /\ Epics(tr2) = Epics(tr)
    BY Zenon DEF PullsInto, Epics
  <1>2. f \in DOMAIN tr.entry /\ n \in DOMAIN tr.entry[f] /\ n # NoId /\ stem = tr.entry[f][n].stem
    <2>1. f \in DOMAIN tr.entry /\ n \in Bare(tr, f) /\ stem = tr.entry[f][n].stem
      BY Zenon DEF PullsInto
    <2>2. QED
      BY <2>1 DEF Bare, IsTree
  <1>3. /\ \A g \in DOMAIN tr.entry : /\ g # f => Leaves(tr2, g) = Leaves(tr, g)
                                      /\ \A r \in Leaves(tr, g) : tr2.leaf[g][r] = tr.leaf[g][r]
        /\ Leaves(tr2, f) = Leaves(tr, f) \cup {stem} /\ tr2.leaf[f][stem].id = n
    BY Zenon DEF PullsInto
  <1>4. \A g \in DOMAIN tr.entry : \A s \in Leaves(tr2, g) :
          \/ s \in Leaves(tr, g) /\ tr2.leaf[g][s] = tr.leaf[g][s]
          \/ g = f /\ s = stem
    <2>1. ASSUME NEW g \in DOMAIN tr.entry, NEW s \in Leaves(tr2, g), ~(g = f /\ s = stem)
          PROVE  s \in Leaves(tr, g) /\ tr2.leaf[g][s] = tr.leaf[g][s]
      <3>1. s \in Leaves(tr, g)
        <4>1. CASE g = f
          BY <1>3, <2>1, <4>1
        <4>2. CASE g # f
          BY <1>3, <4>2
        <4>3. QED
          BY <4>1, <4>2
      <3>2. QED
        BY <1>3, <3>1
    <2>2. QED
      BY <2>1
  <1>5. ASSUME NEW g \in DOMAIN tr.entry
        PROVE  \/ g \in Epics(tr) /\ tr.number[g] # NoId
               \/ DOMAIN tr.entry[g] = {} /\ \A s \in Leaves(tr2, g) : tr2.leaf[g][s].id = NoId
    <2>1. CASE g = f
      BY <1>2, <2>1 DEF Findable
    <2>2. CASE g # f
      BY <1>3, <2>2 DEF Findable
    <2>3. QED
      BY <2>1, <2>2
  <1>6. ASSUME NEW g \in DOMAIN tr.entry, NEW h \in DOMAIN tr.entry, NEW s \in Leaves(tr2, g),
               tr2.leaf[g][s].id = NoId, g # h
        PROVE  s \notin Leaves(tr2, h) /\ \A m \in DOMAIN tr.entry[h] : tr.entry[h][m].stem # s
    <2>1. s \in Leaves(tr, g) /\ tr.leaf[g][s].id = NoId
      BY <1>2, <1>3, <1>4, <1>6
    <2>2. s \notin Leaves(tr, h) /\ \A m \in DOMAIN tr.entry[h] : tr.entry[h][m].stem # s
      BY <1>6, <2>1 DEF Findable
    <2>3. QED
      BY <1>2, <1>3, <1>4, <2>2
  <1>7. QED
    BY <1>1, <1>5, <1>6 DEF Findable

\* A tree stays in order over a pull, and the file pulled does not drift.
LEMMA PullOrdered ==
    ASSUME NEW tr, InOrder(tr), PlansNameFiles(tr), NEW tr2, IsTree(tr2),
           NEW f, NEW n, NEW stem, PullsInto(tr, tr2, f, n, stem)
    PROVE  /\ InOrder(tr2) /\ PlansNameFiles(tr2) /\ Scopes(tr2) = Scopes(tr)
           /\ \A s \in Scopes(tr) : \A d \in AllCores(tr2, s) :
                Drifts(tr2, s, d) => d \in AllCores(tr, s) /\ Drifts(tr, s, d)
  <1>0. /\ IsTree(tr) /\ IdsUnique(tr) /\ PlansUnique(tr) /\ NumbersUnique(tr) /\ WellNamed(tr) /\ Writable(tr)
        /\ \A s \in Scopes(tr) : Loads(tr, s)
    BY DEF InOrder
  <1>1. SameEpics(tr, tr2)
    BY DEF PullsInto, SameEpics, Epics
  <1>2. Scopes(tr2) = Scopes(tr) /\ NumbersUnique(tr2)
    BY <1>0, <1>1, SameEpicsFacts
  <1>3. IdsUnique(tr2) /\ WellNamed(tr2) /\ PlansUnique(tr2) /\ PlansNameFiles(tr2)
    BY <1>0, PullCores, PullNamed, PullPlans
  <1>4. ASSUME NEW s \in Scopes(tr)
        PROVE  SameReading(tr, tr2, s)
    <2>1. FoldersRead(tr2, s) = FoldersRead(tr, s) /\ EpicsRead(tr2, s) = EpicsRead(tr, s)
      BY <1>1, SameEpicsFacts
    <2>2. GatesAt(tr2, s) = GatesAt(tr, s)
      BY PullLinks
    <2>3. ASSUME NEW c \in AllCores(tr, s)
          PROVE  \E d \in AllCores(tr2, s) : SameLinks(tr, c, tr2, d, s)
      <3>1. CASE c = EntryCore(tr, f, n) /\ f \in FoldersRead(tr, s)
        <4>1. LeafCore(tr2, f, stem) \in AllCores(tr2, s)
          BY <1>0, <3>1, PullAll
        <4>2. SameLinks(tr, c, tr2, LeafCore(tr2, f, stem), s)
          BY <3>1, PullLinks
        <4>3. QED
          BY <4>1, <4>2
      <3>2. CASE c \in AllCores(tr2, s)
        BY <3>2, PullLinks
      <3>3. QED
        BY <1>0, <3>1, <3>2, PullAll
    <2>4. ASSUME NEW d \in AllCores(tr2, s)
          PROVE  \E c \in AllCores(tr, s) : SameLinks(tr, c, tr2, d, s)
      <3>1. CASE d = LeafCore(tr2, f, stem) /\ f \in FoldersRead(tr, s)
        <4>1. EntryCore(tr, f, n) \in AllCores(tr, s)
          BY <1>0, <3>1, PullAll
        <4>2. SameLinks(tr, EntryCore(tr, f, n), tr2, d, s)
          BY <3>1, PullLinks
        <4>3. QED
          BY <4>1, <4>2
      <3>2. CASE d \in AllCores(tr, s)
        BY <3>2, PullLinks
      <3>3. QED
        BY <1>0, <3>1, <3>2, PullAll
    <2>5. QED
      BY <2>1, <2>2, <2>3, <2>4 DEF SameReading
  <1>5. \A s \in Scopes(tr2) : Loads(tr2, s)
    BY <1>0, <1>2, <1>3, <1>4, SameReadingLoads
  <1>6. ASSUME NEW s \in Scopes(tr), NEW d \in AllCores(tr2, s), Drifts(tr2, s, d)
        PROVE  d \in AllCores(tr, s) /\ Drifts(tr, s, d)
    <2>1. d # LeafCore(tr2, f, stem) \/ f \notin FoldersRead(tr, s)
      BY <1>6, PullAfter
    <2>2. d \in AllCores(tr, s)
      BY <1>0, <2>1, PullAll
    <2>3. QED
      BY <1>6, <2>2, PullLinks
  <1>7. Writable(tr2)
    <2>1. ASSUME NEW s \in Scopes(tr), NEW d \in AllCores(tr2, s), d.file = NoName, NEW k \in AfterKeys(tr2, s, d)
          PROVE  Written(tr2, d.key.folder, k)
      <3>1. LeafCore(tr2, f, stem).file = stem /\ stem # NoName
        BY <1>0, PullCores, LeafCoreFields
      <3>2. d \in AllCores(tr, s)
        BY <1>0, <2>1, <3>1, PullAll
      <3>3. AfterKeys(tr2, s, d) = AfterKeys(tr, s, d)
        BY <3>2, PullLinks DEF SameLinks
      <3>4. Written(tr, d.key.folder, k)
        BY <1>0, <2>1, <3>2, <3>3, WritableIs
      <3>5. QED
        BY <1>1, <3>4 DEF Written, SameEpics
    <2>2. QED
      BY <1>2, <2>1, WritableIs
  <1>8. StartFindable => Findable(tr2)
    BY <1>0, PullFindable DEF InOrder
  <1>9. QED
    BY <1>2, <1>3, <1>5, <1>6, <1>7, <1>8 DEF InOrder

-----------------------------------------------------------------------------
(* What a step changes in the tree.                                        *)

PlanFields == {"type", "id", "file", "status", "halted", "body"}
IsPlanText(q) == q.type = "plan" /\ DOMAIN q = PlanFields
Joins(q, id, file) ==
    q.type # "cut" /\ IF q.id # NoId THEN q.id = id ELSE q.file # NoName /\ q.file = file

\* One plan file of folder f has a new text.
PlanChanges(tr, tr2, f, name, text) ==
    /\ DOMAIN tr2 = DOMAIN tr /\ tr2.entry = tr.entry /\ tr2.leaf = tr.leaf /\ tr2.container = tr.container
    /\ tr2.number = tr.number /\ DOMAIN tr2.plan = DOMAIN tr.plan
    /\ \A g \in DOMAIN tr.plan : g # f => tr2.plan[g] = tr.plan[g]
    /\ DOMAIN tr2.plan[f] = DOMAIN tr.plan[f] \cup {name}
    /\ \A p \in DOMAIN tr.plan[f] : p # name => tr2.plan[f][p] = tr.plan[f][p]
    /\ tr2.plan[f][name] = text

LEMMA PlanChangesFacts ==
    ASSUME NEW tr, IsTree(tr), NEW tr2, NEW f \in DOMAIN tr.entry, NEW name, name # NoName,
           NEW text, text.type = "cut" \/ IsPlanText(text), PlanChanges(tr, tr2, f, name, text)
    PROVE  /\ IsTree(tr2) /\ SameText(tr, tr2)
           /\ \A g \in DOMAIN tr.entry : \A id, file : g # f => PlansFor(tr2, g, id, file) = PlansFor(tr, g, id, file)
           /\ \A id, file : \A p : p \in PlansFor(tr2, f, id, file) <=>
                \/ p = name /\ Joins(text, id, file)
                \/ p # name /\ p \in PlansFor(tr, f, id, file)
  <1>0. /\ tr2.entry = tr.entry /\ tr2.leaf = tr.leaf /\ tr2.container = tr.container /\ tr2.number = tr.number
        /\ DOMAIN tr2 = DOMAIN tr /\ DOMAIN tr2.plan = DOMAIN tr.plan
        /\ \A g \in DOMAIN tr.plan : g # f => tr2.plan[g] = tr.plan[g]
        /\ DOMAIN tr2.plan[f] = DOMAIN tr.plan[f] \cup {name}
        /\ \A p \in DOMAIN tr.plan[f] : p # name => tr2.plan[f][p] = tr.plan[f][p]
        /\ tr2.plan[f][name] = text
    BY DEF PlanChanges
  <1>1. \A g : Leaves(tr2, g) = Leaves(tr, g)
    BY <1>0 DEF Leaves
  <1>2. Epics(tr2) = Epics(tr)
    BY <1>0 DEF Epics
  <1>3. SameText(tr, tr2)
    BY <1>0, <1>1, <1>2 DEF SameText
  <1>4. DOMAIN tr.plan = DOMAIN tr.entry
    BY DEF IsTree
  <1>5. IsTree(tr2)
    <2>1. ASSUME NEW g \in DOMAIN tr.entry, NEW p \in DOMAIN tr2.plan[g]
          PROVE  \/ tr2.plan[g][p].type = "cut"
                 \/ tr2.plan[g][p].type = "plan" /\ DOMAIN tr2.plan[g][p] = PlanFields
      <3>1. \A q \in DOMAIN tr.plan[g] : \/ tr.plan[g][q].type = "cut"
                                         \/ tr.plan[g][q].type = "plan" /\ DOMAIN tr.plan[g][q] = PlanFields
        BY DEF IsTree, PlanFields
      <3>2. CASE g = f /\ p = name
        BY <1>0, <3>2 DEF IsPlanText
      <3>3. CASE g # f \/ p # name
        <4>1. p \in DOMAIN tr.plan[g] /\ tr2.plan[g][p] = tr.plan[g][p]
          BY <1>0, <1>4, <2>1, <3>3
        <4>2. QED
          BY <3>1, <4>1
      <3>4. QED
        BY <3>2, <3>3
    <2>2. ASSUME NEW g \in DOMAIN tr.entry
          PROVE  NoName \notin DOMAIN tr.leaf[g] \cup DOMAIN tr2.plan[g]
      <3>1. NoName \notin DOMAIN tr.leaf[g] \cup DOMAIN tr.plan[g]
        BY DEF IsTree
      <3>2. QED
        BY <1>0, <1>4, <3>1
    <2>3. /\ DOMAIN tr2 = {"entry", "leaf", "plan", "container", "number"}
          /\ DOMAIN tr2.entry = DOMAIN tr2.leaf /\ DOMAIN tr2.entry = DOMAIN tr2.plan
          /\ IsFiniteSet(DOMAIN tr2.entry) /\ NoName \notin DOMAIN tr2.entry
          /\ Epics(tr2) \subseteq DOMAIN tr2.entry /\ DOMAIN tr2.number = Epics(tr2)
          /\ \A e \in Epics(tr2) : /\ DOMAIN tr2.container[e] = {"status", "tracker", "after"}
                                   /\ \A x \in tr2.container[e].after : IsRef(x)
      BY <1>0, <1>2 DEF IsTree
    <2>4. ASSUME NEW g \in DOMAIN tr2.entry
          PROVE  /\ IsFiniteSet(DOMAIN tr2.entry[g]) /\ IsFiniteSet(DOMAIN tr2.leaf[g])
                 /\ NoId \notin DOMAIN tr2.entry[g]
                 /\ \A n \in DOMAIN tr2.entry[g] :
                      /\ tr2.entry[g][n].stem # NoName /\ tr2.entry[g][n].type \in LeafTypes
                      /\ \A x \in tr2.entry[g][n].after : IsRef(x)
                 /\ \A s \in Leaves(tr2, g) :
                      /\ DOMAIN tr2.leaf[g][s] = {"type", "id", "tracker", "status", "mirrored",
                                                  "refined", "hitl", "halted", "after"}
                      /\ \A x \in tr2.leaf[g][s].after : IsRef(x)
      BY <1>0, <1>1 DEF IsTree
    <2>5. QED
      BY <1>0, <2>1, <2>2, <2>3, <2>4 DEF IsTree, PlanFields
  <1>6. ASSUME NEW g \in DOMAIN tr.entry, NEW id, NEW file, g # f
        PROVE  PlansFor(tr2, g, id, file) = PlansFor(tr, g, id, file)
    BY <1>0, <1>4, <1>6 DEF PlansFor
  <1>7. ASSUME NEW id, NEW file, NEW p
        PROVE  p \in PlansFor(tr2, f, id, file) <=>
                 \/ p = name /\ Joins(text, id, file)
                 \/ p # name /\ p \in PlansFor(tr, f, id, file)
    <2>1. \A q : q \in PlansFor(tr2, f, id, file) <=> q \in DOMAIN tr2.plan[f] /\ Joins(tr2.plan[f][q], id, file)
      BY DEF PlansFor, Joins
    <2>2. \A q : q \in PlansFor(tr, f, id, file) <=> q \in DOMAIN tr.plan[f] /\ Joins(tr.plan[f][q], id, file)
      BY DEF PlansFor, Joins
    <2>3. QED
      BY <1>0, <2>1, <2>2
  <1>8. QED
    BY <1>3, <1>5, <1>6, <1>7

\* A text joins one ticket of a folder at most.
LEMMA JoinsOne ==
    ASSUME NEW tr, IsTree(tr), NEW f \in DOMAIN tr.entry, IdsUnique(tr), NEW q,
           NEW c \in Cores(tr, f), NEW d \in Cores(tr, f), Joins(q, c.id, c.file), Joins(q, d.id, d.file)
    PROVE  c = d
  <1>1. CASE q.id # NoId
    <2>1. c.key = Key(f, q.id, NoName) /\ d.key = Key(f, q.id, NoName)
      BY <1>1, CoreKeys DEF Joins
    <2>2. QED
      BY <2>1, CoreKeys DEF IdsUnique
  <1>2. CASE q.id = NoId
    <2>1. c.file = q.file /\ d.file = q.file /\ q.file # NoName
      BY <1>2 DEF Joins
    <2>2. ASSUME NEW e \in Cores(tr, f), e.file = q.file
          PROVE  e = LeafCore(tr, f, q.file)
      <3>1. CASE \E n \in Bare(tr, f) : e = EntryCore(tr, f, n)
        BY <2>1, <2>2, <3>1, EntryCoreFields
      <3>2. CASE \E r \in Leaves(tr, f) : e = LeafCore(tr, f, r)
        BY <2>2, <3>2, LeafCoreFields
      <3>3. QED
        BY <3>1, <3>2 DEF Cores
    <2>3. QED
      BY <2>1, <2>2
  <1>3. QED
    BY <1>1, <1>2

\* A text that joins a ticket by its file names a file that is there.
LEMMA JoinsFile ==
    ASSUME NEW tr, NEW f, NEW q, q.id = NoId, NEW c \in Cores(tr, f), Joins(q, c.id, c.file)
    PROVE  q.file \in Leaves(tr, f)
  <1>1. c.file = q.file /\ q.file # NoName
    BY DEF Joins
  <1>2. CASE \E n \in Bare(tr, f) : c = EntryCore(tr, f, n)
    BY <1>1, <1>2, EntryCoreFields
  <1>3. CASE \E r \in Leaves(tr, f) : c = LeafCore(tr, f, r)
    BY <1>1, <1>3, LeafCoreFields
  <1>4. QED
    BY <1>2, <1>3 DEF Cores

LeafFields == {"type", "id", "tracker", "status", "mirrored", "refined", "hitl", "halted", "after"}
IsLeafText(l) == l.type \in LeafTypes /\ DOMAIN l = LeafFields /\ \A x \in l.after : IsRef(x)

\* One file of folder f has a new text.
LeafChanges(tr, tr2, f, name, leaf) ==
    /\ DOMAIN tr2 = DOMAIN tr /\ tr2.entry = tr.entry /\ tr2.plan = tr.plan /\ tr2.container = tr.container
    /\ tr2.number = tr.number /\ DOMAIN tr2.leaf = DOMAIN tr.leaf
    /\ \A g \in DOMAIN tr.leaf : g # f => tr2.leaf[g] = tr.leaf[g]
    /\ DOMAIN tr2.leaf[f] = DOMAIN tr.leaf[f] \cup {name}
    /\ \A r \in DOMAIN tr.leaf[f] : r # name => tr2.leaf[f][r] = tr.leaf[f][r]
    /\ tr2.leaf[f][name] = leaf

LEMMA LeafChangesFacts ==
    ASSUME NEW tr, IsTree(tr), NEW tr2, NEW f \in DOMAIN tr.entry, NEW name, name # NoName,
           NEW leaf, leaf.type \notin LeafTypes \/ IsLeafText(leaf), LeafChanges(tr, tr2, f, name, leaf)
    PROVE  /\ IsTree(tr2) /\ Epics(tr2) = Epics(tr)
           /\ \A g \in DOMAIN tr.entry : g # f => Leaves(tr2, g) = Leaves(tr, g) /\ tr2.leaf[g] = tr.leaf[g]
           /\ \A r : r \in Leaves(tr2, f) <=> \/ r = name /\ leaf.type \in LeafTypes
                                              \/ r # name /\ r \in Leaves(tr, f)
           /\ \A r \in Leaves(tr, f) : r # name => tr2.leaf[f][r] = tr.leaf[f][r]
  <1>0. /\ tr2.entry = tr.entry /\ tr2.plan = tr.plan /\ tr2.container = tr.container /\ tr2.number = tr.number
        /\ DOMAIN tr2 = DOMAIN tr /\ DOMAIN tr2.leaf = DOMAIN tr.leaf
        /\ \A g \in DOMAIN tr.leaf : g # f => tr2.leaf[g] = tr.leaf[g]
        /\ DOMAIN tr2.leaf[f] = DOMAIN tr.leaf[f] \cup {name}
        /\ \A r \in DOMAIN tr.leaf[f] : r # name => tr2.leaf[f][r] = tr.leaf[f][r]
        /\ tr2.leaf[f][name] = leaf
    BY DEF LeafChanges
  <1>1. DOMAIN tr.leaf = DOMAIN tr.entry /\ Epics(tr2) = Epics(tr)
    BY <1>0 DEF IsTree, Epics
  <1>2. \A g \in DOMAIN tr.entry : g # f => Leaves(tr2, g) = Leaves(tr, g) /\ tr2.leaf[g] = tr.leaf[g]
    BY <1>0, <1>1 DEF Leaves
  <1>3. \A r : r \in Leaves(tr2, f) <=> \/ r = name /\ leaf.type \in LeafTypes
                                        \/ r # name /\ r \in Leaves(tr, f)
    BY <1>0 DEF Leaves
  <1>4. \A r \in Leaves(tr, f) : r # name => tr2.leaf[f][r] = tr.leaf[f][r]
    BY <1>0 DEF Leaves
  <1>5. /\ DOMAIN tr2 = {"entry", "leaf", "plan", "container", "number"}
        /\ DOMAIN tr2.entry = DOMAIN tr2.leaf /\ DOMAIN tr2.entry = DOMAIN tr2.plan
        /\ IsFiniteSet(DOMAIN tr2.entry) /\ NoName \notin DOMAIN tr2.entry
        /\ Epics(tr2) \subseteq DOMAIN tr2.entry /\ DOMAIN tr2.number = Epics(tr2)
        /\ \A e \in Epics(tr2) : /\ DOMAIN tr2.container[e] = {"status", "tracker", "after"}
                                 /\ \A x \in tr2.container[e].after : IsRef(x)
    BY <1>0, <1>1 DEF IsTree
  <1>6. ASSUME NEW g \in DOMAIN tr2.entry
        PROVE  /\ IsFiniteSet(DOMAIN tr2.entry[g]) /\ IsFiniteSet(DOMAIN tr2.leaf[g])
               /\ NoId \notin DOMAIN tr2.entry[g]
               /\ \A n \in DOMAIN tr2.entry[g] :
                    /\ tr2.entry[g][n].stem # NoName /\ tr2.entry[g][n].type \in LeafTypes
                    /\ \A x \in tr2.entry[g][n].after : IsRef(x)
    <2>1. /\ IsFiniteSet(DOMAIN tr.entry[g]) /\ IsFiniteSet(DOMAIN tr.leaf[g])
          /\ NoId \notin DOMAIN tr.entry[g]
          /\ \A n \in DOMAIN tr.entry[g] :
               /\ tr.entry[g][n].stem # NoName /\ tr.entry[g][n].type \in LeafTypes
               /\ \A x \in tr.entry[g][n].after : IsRef(x)
      BY <1>0 DEF IsTree
    <2>2. IsFiniteSet(DOMAIN tr.leaf[g] \cup {name})
      BY <2>1, FS_AddElement
    <2>3. DOMAIN tr2.leaf[g] = DOMAIN tr.leaf[g] \/ DOMAIN tr2.leaf[g] = DOMAIN tr.leaf[g] \cup {name}
      <3>1. CASE g = f
        BY <1>0, <3>1
      <3>2. CASE g # f
        BY <1>0, <1>2, <3>2
      <3>3. QED
        BY <3>1, <3>2
    <2>4. QED
      BY <1>0, <2>1, <2>2, <2>3
  <1>7. ASSUME NEW g \in DOMAIN tr2.entry
        PROVE  /\ NoName \notin DOMAIN tr2.leaf[g] \cup DOMAIN tr2.plan[g]
               /\ \A p \in DOMAIN tr2.plan[g] :
                    \/ tr2.plan[g][p].type = "cut"
                    \/ /\ tr2.plan[g][p].type = "plan"
                       /\ DOMAIN tr2.plan[g][p] = PlanFields
    <2>1. /\ NoName \notin DOMAIN tr.leaf[g] \cup DOMAIN tr.plan[g]
          /\ \A p \in DOMAIN tr.plan[g] :
               \/ tr.plan[g][p].type = "cut"
               \/ /\ tr.plan[g][p].type = "plan"
                  /\ DOMAIN tr.plan[g][p] = PlanFields
      BY <1>0 DEF IsTree, PlanFields
    <2>2. DOMAIN tr2.leaf[g] \subseteq DOMAIN tr.leaf[g] \cup {name}
      <3>1. CASE g = f
        BY <1>0, <3>1
      <3>2. CASE g # f
        BY <1>0, <1>2, <3>2
      <3>3. QED
        BY <3>1, <3>2
    <2>3. QED
      BY <1>0, <2>1, <2>2
  <1>8. ASSUME NEW g \in DOMAIN tr2.entry, NEW r \in Leaves(tr2, g)
        PROVE  DOMAIN tr2.leaf[g][r] = LeafFields /\ \A x \in tr2.leaf[g][r].after : IsRef(x)
    <2>1. \A q \in Leaves(tr, g) : DOMAIN tr.leaf[g][q] = LeafFields /\ \A x \in tr.leaf[g][q].after : IsRef(x)
      BY <1>0 DEF IsTree, LeafFields
    <2>2. CASE g = f /\ r = name
      BY <1>0, <1>3, <2>2 DEF IsLeafText
    <2>3. CASE ~(g = f /\ r = name)
      <3>1. r \in Leaves(tr, g) /\ tr2.leaf[g][r] = tr.leaf[g][r]
        BY <1>0, <1>2, <1>3, <1>4, <2>3
      <3>2. QED
        BY <2>1, <3>1
    <2>4. QED
      BY <2>2, <2>3
  <1>9. IsTree(tr2)
    BY <1>5, <1>6, <1>7, <1>8 DEF IsTree, PlanFields, LeafFields
  <1>10. QED
    BY <1>1, <1>2, <1>3, <1>4, <1>9

\* A file that is created empty, or whose copied fields change, says what it
\* said.
LEMMA LeafSameText ==
    ASSUME NEW tr, IsTree(tr), NEW tr2, NEW f \in DOMAIN tr.entry, NEW name, name # NoName, NEW leaf,
           LeafChanges(tr, tr2, f, name, leaf),
           \/ leaf.type \notin LeafTypes /\ name \notin Leaves(tr, f)
           \/ /\ IsLeafText(leaf) /\ name \in Leaves(tr, f)
              /\ leaf.id = tr.leaf[f][name].id /\ leaf.tracker = tr.leaf[f][name].tracker
              /\ leaf.after = tr.leaf[f][name].after /\ leaf.hitl = tr.leaf[f][name].hitl
              /\ leaf.type = tr.leaf[f][name].type
    PROVE  SameText(tr, tr2) /\ IsTree(tr2)
  <1>1. /\ IsTree(tr2) /\ Epics(tr2) = Epics(tr)
        /\ \A g \in DOMAIN tr.entry : g # f => Leaves(tr2, g) = Leaves(tr, g) /\ tr2.leaf[g] = tr.leaf[g]
        /\ \A r : r \in Leaves(tr2, f) <=> \/ r = name /\ leaf.type \in LeafTypes
                                           \/ r # name /\ r \in Leaves(tr, f)
        /\ \A r \in Leaves(tr, f) : r # name => tr2.leaf[f][r] = tr.leaf[f][r]
    BY LeafChangesFacts
  <1>2. tr2.entry = tr.entry /\ tr2.number = tr.number /\ tr2.container = tr.container /\ tr2.leaf[f][name] = leaf
    BY DEF LeafChanges
  <1>3. Leaves(tr2, f) = Leaves(tr, f)
    BY <1>1 DEF IsLeafText
  <1>4. ASSUME NEW g \in DOMAIN tr.entry, NEW r \in Leaves(tr, g)
        PROVE  /\ tr2.leaf[g][r].id = tr.leaf[g][r].id /\ tr2.leaf[g][r].tracker = tr.leaf[g][r].tracker
               /\ tr2.leaf[g][r].after = tr.leaf[g][r].after /\ tr2.leaf[g][r].hitl = tr.leaf[g][r].hitl
               /\ tr2.leaf[g][r].type = tr.leaf[g][r].type
    BY <1>1, <1>2
  <1>5. QED
    BY <1>1, <1>2, <1>3, <1>4 DEF SameText

LEMMA CloseSameText ==
    ASSUME NEW tr, IsTree(tr), NEW e \in Epics(tr), NEW tr2,
           tr2 = [tr EXCEPT !.container[e].status = "done"]
    PROVE  SameText(tr, tr2) /\ IsTree(tr2) /\ tr2.plan = tr.plan
  <1>1. /\ DOMAIN tr2 = DOMAIN tr /\ tr2.entry = tr.entry /\ tr2.leaf = tr.leaf /\ tr2.plan = tr.plan
        /\ tr2.number = tr.number /\ tr2.container = [tr.container EXCEPT ![e].status = "done"]
    BY DEF IsTree
  <1>2. Epics(tr2) = Epics(tr)
    BY <1>1 DEF Epics
  <1>3. ASSUME NEW g \in Epics(tr)
        PROVE  /\ tr2.container[g].tracker = tr.container[g].tracker
               /\ tr2.container[g].after = tr.container[g].after
               /\ DOMAIN tr2.container[g] = DOMAIN tr.container[g]
    <2>1. DOMAIN tr.container[e] = {"status", "tracker", "after"}
      BY DEF IsTree
    <2>2. CASE g = e
      BY <1>1, <2>1, <2>2 DEF Epics
    <2>3. CASE g # e
      BY <1>1, <2>3 DEF Epics
    <2>4. QED
      BY <2>2, <2>3
  <1>4. \A g : Leaves(tr2, g) = Leaves(tr, g)
    BY <1>1 DEF Leaves
  <1>5. SameText(tr, tr2)
    BY <1>1, <1>2, <1>3, <1>4 DEF SameText
  <1>6. IsTree(tr2)
    <2>1. /\ DOMAIN tr2 = {"entry", "leaf", "plan", "container", "number"}
          /\ DOMAIN tr2.entry = DOMAIN tr2.leaf /\ DOMAIN tr2.entry = DOMAIN tr2.plan
          /\ IsFiniteSet(DOMAIN tr2.entry) /\ NoName \notin DOMAIN tr2.entry
          /\ Epics(tr2) \subseteq DOMAIN tr2.entry /\ DOMAIN tr2.number = Epics(tr2)
      BY <1>1, <1>2 DEF IsTree
    <2>2. \A g \in Epics(tr2) : /\ DOMAIN tr2.container[g] = {"status", "tracker", "after"}
                                /\ \A x \in tr2.container[g].after : IsRef(x)
      <3>1. \A g \in Epics(tr) : /\ DOMAIN tr.container[g] = {"status", "tracker", "after"}
                                 /\ \A x \in tr.container[g].after : IsRef(x)
        BY DEF IsTree
      <3>2. QED
        BY <1>2, <1>3, <3>1
    <2>3. ASSUME NEW g \in DOMAIN tr2.entry
          PROVE  /\ IsFiniteSet(DOMAIN tr2.entry[g]) /\ IsFiniteSet(DOMAIN tr2.leaf[g])
                 /\ NoId \notin DOMAIN tr2.entry[g]
                 /\ NoName \notin DOMAIN tr2.leaf[g] \cup DOMAIN tr2.plan[g]
                 /\ \A n \in DOMAIN tr2.entry[g] :
                      /\ tr2.entry[g][n].stem # NoName /\ tr2.entry[g][n].type \in LeafTypes
                      /\ \A x \in tr2.entry[g][n].after : IsRef(x)
      BY <1>1 DEF IsTree
    <2>4. ASSUME NEW g \in DOMAIN tr2.entry
          PROVE  /\ \A s \in Leaves(tr2, g) : /\ DOMAIN tr2.leaf[g][s] = LeafFields
                                               /\ \A x \in tr2.leaf[g][s].after : IsRef(x)
                 /\ \A p \in DOMAIN tr2.plan[g] :
                      \/ tr2.plan[g][p].type = "cut"
                      \/ tr2.plan[g][p].type = "plan" /\ DOMAIN tr2.plan[g][p] = PlanFields
      BY <1>1, <1>4 DEF IsTree, LeafFields, PlanFields
    <2>5. QED
      BY <2>1, <2>2, <2>3, <2>4, SMTT(60) DEF IsTree, LeafFields, PlanFields
  <1>7. QED
    BY <1>1, <1>5, <1>6

-----------------------------------------------------------------------------
(* The tickets a reference matches.                                        *)

Pools(tr, scope, loaded, ref) ==
    CASE ref.kind = "cross" ->
           <<{t \in loaded.tickets : /\ t.id = ref.id /\ t.key.folder \in Epics(tr)
                                     /\ tr.number[t.key.folder] = ref.epic}>>
      [] ref.kind = "id" ->
           <<{t \in loaded.tickets : scope # NoName /\ t.key.folder = scope /\ t.id = ref.id}>>
      [] OTHER ->
           <<{t \in InScope(loaded, scope) : t.file = ref.name}, {t \in loaded.tickets : t.file = ref.name},
             {t \in loaded.tickets : t.tracker = ref.name}, {t \in InScope(loaded, scope) : t.stem = ref.name}>>

FirstFull(P) == SelectInSeq(P, LAMBDA pool : pool # {})

LEMMA FirstFullIs ==
    ASSUME NEW P, Len(P) \in Nat
    PROVE  \/ FirstFull(P) = 0 /\ \A i \in 1..Len(P) : P[i] = {}
           \/ /\ FirstFull(P) \in 1..Len(P) /\ P[FirstFull(P)] # {}
              /\ \A i \in 1..Len(P) : i < FirstFull(P) => P[i] = {}
  <1> DEFINE I == {i \in 1..Len(P) : P[i] # {}}
  <1>1. FirstFull(P) = IF I # {} THEN Min(I) ELSE 0
    BY DEF FirstFull, SelectInSeq
  <1>2. CASE I # {}
    <2>1. I \subseteq Nat
      OBVIOUS
    <2>2. PICK x \in I : \A y \in I : x <= y
      BY <1>2, <2>1, LeastMember
    <2>3. Min(I) \in I /\ \A y \in I : Min(I) <= y
      BY <2>2 DEF Min
    <2> DEFINE m == Min(I)
    <2> HIDE DEF m
    <2>4. m \in I /\ \A y \in I : m <= y
      BY <2>3 DEF m
    <2>5. FirstFull(P) = m
      BY <1>1, <1>2 DEF m
    <2>6. m \in 1..Len(P) /\ P[m] # {}
      BY <2>4
    <2>7. \A i \in 1..Len(P) : i < m => P[i] = {}
      BY <2>4, <2>6
    <2>8. QED
      BY <2>5, <2>6, <2>7
  <1>3. CASE I = {}
    BY <1>1, <1>3
  <1>4. QED
    BY <1>2, <1>3

LEMMA MatchesIs ==
    ASSUME NEW tr, NEW scope, NEW loaded, NEW ref
    PROVE  Matches(tr, scope, loaded, ref)
             = IF ref = NameRef(NoName) \/ FirstFull(Pools(tr, scope, loaded, ref)) = 0 THEN {}
               ELSE Pools(tr, scope, loaded, ref)[FirstFull(Pools(tr, scope, loaded, ref))]
  BY DEF Matches, Pools, FirstFull

LEMMA PoolsHaveTickets ==
    ASSUME NEW tr, NEW scope, NEW loaded, NEW ref
    PROVE  /\ Len(Pools(tr, scope, loaded, ref)) \in Nat
           /\ \A i \in 1..Len(Pools(tr, scope, loaded, ref)) : Pools(tr, scope, loaded, ref)[i] \subseteq loaded.tickets
  <1>1. CASE ref.kind = "cross"
    <2> DEFINE a == {t \in loaded.tickets : /\ t.id = ref.id /\ t.key.folder \in Epics(tr)
                                            /\ tr.number[t.key.folder] = ref.epic}
    <2>1. a \subseteq loaded.tickets /\ Pools(tr, scope, loaded, ref) = <<a>>
      BY <1>1 DEF Pools
    <2> HIDE DEF a
    <2>2. QED
      BY <2>1
  <1>2. CASE ref.kind = "id"
    <2> DEFINE a == {t \in loaded.tickets : scope # NoName /\ t.key.folder = scope /\ t.id = ref.id}
    <2>1. a \subseteq loaded.tickets /\ Pools(tr, scope, loaded, ref) = <<a>>
      BY <1>2 DEF Pools
    <2> HIDE DEF a
    <2>2. QED
      BY <2>1
  <1>3. CASE ref.kind # "id" /\ ref.kind # "cross"
    <2> DEFINE a == {t \in InScope(loaded, scope) : t.file = ref.name}
               b == {t \in loaded.tickets : t.file = ref.name}
               c == {t \in loaded.tickets : t.tracker = ref.name}
               d == {t \in InScope(loaded, scope) : t.stem = ref.name}
    <2>1. Pools(tr, scope, loaded, ref) = <<a, b, c, d>>
      BY <1>3 DEF Pools
    <2>2. a \subseteq loaded.tickets /\ b \subseteq loaded.tickets /\ c \subseteq loaded.tickets /\ d \subseteq loaded.tickets
      BY DEF InScope
    <2> HIDE DEF a, b, c, d
    <2>3. QED
      BY <2>1, <2>2
  <1>4. QED
    BY <1>1, <1>2, <1>3

LEMMA MatchesAreTickets ==
    ASSUME NEW tr, NEW scope, NEW loaded, NEW ref
    PROVE  Matches(tr, scope, loaded, ref) \subseteq loaded.tickets
  <1> DEFINE P == Pools(tr, scope, loaded, ref)
  <1>1. Len(P) \in Nat /\ \A i \in 1..Len(P) : P[i] \subseteq loaded.tickets
    BY PoolsHaveTickets
  <1>2. Matches(tr, scope, loaded, ref) = IF ref = NameRef(NoName) \/ FirstFull(P) = 0 THEN {} ELSE P[FirstFull(P)]
    BY MatchesIs
  <1> HIDE DEF P
  <1>3. FirstFull(P) # 0 => FirstFull(P) \in 1..Len(P)
    BY <1>1, FirstFullIs
  <1>4. QED
    BY <1>1, <1>2, <1>3

\* The first pool decides when there is something in it.
LEMMA MatchesFirst ==
    ASSUME NEW tr, NEW scope, NEW loaded, NEW ref, ref # NameRef(NoName), NEW a, a # {},
           Len(Pools(tr, scope, loaded, ref)) \in Nat \ {0}, Pools(tr, scope, loaded, ref)[1] = a
    PROVE  Matches(tr, scope, loaded, ref) = a
  <1> DEFINE P == Pools(tr, scope, loaded, ref)
  <1>1. Matches(tr, scope, loaded, ref) = IF ref = NameRef(NoName) \/ FirstFull(P) = 0 THEN {} ELSE P[FirstFull(P)]
    BY MatchesIs
  <1>2. Len(P) \in Nat \ {0} /\ P[1] = a
    OBVIOUS
  <1> HIDE DEF P
  <1>3. FirstFull(P) = 1
    <2>1. 1 \in 1..Len(P)
      BY <1>2
    <2>2. FirstFull(P) # 0 /\ FirstFull(P) \in 1..Len(P) /\ ~(1 < FirstFull(P))
      BY <1>2, <2>1, FirstFullIs
    <2>3. QED
      BY <1>2, <2>2
  <1>4. QED
    BY <1>1, <1>2, <1>3

\* Tickets are told by their keys.
LEMMA TicketsByKey ==
    ASSUME NEW tr, IsTree(tr), IdsUnique(tr), NEW s \in Scopes(tr),
           NEW t \in Resolved(tr, s).tickets, NEW u \in Resolved(tr, s).tickets, t.key = u.key
    PROVE  t = u
  <1>1. PICK r \in Rows(tr, s) : TicketOf(tr, s, t, r)
    BY ResolvedFacts
  <1>2. PICK q \in Rows(tr, s) : TicketOf(tr, s, u, q)
    BY ResolvedFacts
  <1>3. r.key = t.key /\ q.key = u.key
    BY <1>1, <1>2 DEF TicketOf
  <1>4. ASSUME NEW x \in Rows(tr, s), NEW y \in Rows(tr, s), x.key = y.key
        PROVE  x = y
    <2>1. Core(x) \in AllCores(tr, s) /\ Core(y) \in AllCores(tr, s) /\ Core(x).key = x.key /\ Core(y).key = y.key
      BY RowsAreCores, CoreOf
    <2>2. Core(x) = Core(y)
      BY <1>4, <2>1, AllCoresFacts
    <2>3. PICK f \in FoldersRead(tr, s) : x \in FolderRows(tr, f)
      BY DEF Rows
    <2>4. PICK g \in FoldersRead(tr, s) : y \in FolderRows(tr, g)
      BY DEF Rows
    <2>5. f \in DOMAIN tr.entry /\ g \in DOMAIN tr.entry
      BY AllCoresFacts
    <2>6. Core(x) \in Cores(tr, f) /\ Core(y) \in Cores(tr, g)
      BY <2>3, <2>4, RowFacts
    <2>7. f = g
      BY <2>2, <2>5, <2>6, CoreKeys, KeyFields
    <2>8. QED
      BY <2>2, <2>3, <2>4, <2>5, <2>7, RowsByCore
  <1>5. q = r
    BY <1>3, <1>4
  <1>6. \A x \in Rows(tr, s) : x.key = r.key => x = r
    BY <1>4
  <1>7. QED
    BY <1>1, <1>2, <1>5, <1>6, ResolvedFacts

\* find takes back what a row says of itself.
LEMMA FindsIn ==
    ASSUME NEW tr, InOrder(tr), Findable(tr), NEW s \in Scopes(tr), NEW t \in InScope(Resolved(tr, s), s)
    PROVE  Matches(tr, s, Resolved(tr, s), RowRef(tr, s, t)) = {t}
  <1> DEFINE l == Resolved(tr, s)
             f == t.key.folder
             ref == RowRef(tr, s, t)
  <1>0. IsTree(tr) /\ IdsUnique(tr) /\ NumbersUnique(tr)
    BY DEF InOrder
  <1>1. t \in l.tickets /\ (s = NoName \/ f = s)
    BY DEF InScope
  <1>2. \A u \in l.tickets : u.key = t.key => u = t
    BY <1>0, <1>1, TicketsByKey
  <1>3. ASSUME NEW u \in l.tickets
        PROVE  /\ u.key.folder \in DOMAIN tr.entry
               /\ u.id # NoId => u.key = Key(u.key.folder, u.id, NoName)
               /\ u.id = NoId => u.key = Key(u.key.folder, NoId, u.file) /\ u.file # NoName
               /\ \/ u.file = NoName /\ u.id \in DOMAIN tr.entry[u.key.folder]
                  \/ u.file \in Leaves(tr, u.key.folder) /\ tr.leaf[u.key.folder][u.file].id = u.id
    <2>1. PICK c \in AllCores(tr, s) : TicketAt(tr, s, u, c)
      BY TicketsAreCores
    <2>2. c.key = u.key /\ c.id = u.id /\ c.file = u.file
      BY <2>1 DEF TicketAt
    <2>3. \/ c.file = NoName /\ c.id \in DOMAIN tr.entry[c.key.folder]
          \/ c.file \in Leaves(tr, c.key.folder) /\ tr.leaf[c.key.folder][c.file].id = c.id
      BY <1>0, CoreIs, EntryCoreFields, LeafCoreFields DEF Bare
    <2>4. /\ c.id # NoId => c.key = Key(c.key.folder, c.id, NoName)
          /\ c.id = NoId => c.key = Key(c.key.folder, NoId, c.file) /\ c.file # NoName
      BY <1>0, AllCoresFacts
    <2>5. c.key.folder \in DOMAIN tr.entry
      BY <1>0, CoreIs
    <2>6. QED
      BY <2>2, <2>3, <2>4, <2>5
  <1>4. f \in DOMAIN tr.entry /\ f # NoName
    BY <1>0, <1>1, <1>3 DEF IsTree
  <1> HIDE DEF l, f
  <1>5. CASE t.id # NoId /\ f \in Epics(tr) /\ tr.number[f] # NoId
    <2>1. ref = CrossRef(tr.number[f], t.id)
      BY <1>5 DEF RowRef, f
    <2>2. ref.kind = "cross" /\ ref.epic = tr.number[f] /\ ref.id = t.id
      BY <2>1 DEF CrossRef
    <2>3. ref # NameRef(NoName)
      BY <2>2 DEF NameRef
    <2> HIDE DEF ref
    <2> DEFINE a == {u \in l.tickets : u.id = ref.id /\ u.key.folder \in Epics(tr) /\ tr.number[u.key.folder] = ref.epic}
    <2>4. Pools(tr, s, l, ref) = <<a>>
      BY <2>2 DEF Pools
    <2>5. a = {t}
      <3>1. t \in a
        BY <1>1, <1>5, <2>2 DEF f
      <3>2. ASSUME NEW u \in a
            PROVE  u = t
        <4>1. u.key.folder = f
          BY <1>0, <1>5, <2>2, <3>2 DEF NumbersUnique
        <4>2. u.key = Key(f, t.id, NoName) /\ t.key = Key(f, t.id, NoName)
          BY <1>1, <1>3, <1>5, <2>2, <3>2, <4>1 DEF f
        <4>3. QED
          BY <1>2, <3>2, <4>2
      <3>3. QED
        BY <3>1, <3>2
    <2> HIDE DEF a
    <2>6. Len(Pools(tr, s, l, ref)) \in Nat \ {0} /\ Pools(tr, s, l, ref)[1] = a
      BY <2>4
    <2>7. Matches(tr, s, l, ref) = a
      BY <2>3, <2>5, <2>6, MatchesFirst
    <2>8. QED
      BY <2>5, <2>7 DEF l, ref
  <1>6. CASE t.id # NoId /\ ~(f \in Epics(tr) /\ tr.number[f] # NoId)
    <2>1. DOMAIN tr.entry[f] = {} /\ \A r \in Leaves(tr, f) : tr.leaf[f][r].id = NoId
      BY <1>4, <1>6 DEF Findable
    <2>2. QED
      BY <1>1, <1>3, <1>6, <2>1 DEF f
  <1>7. CASE t.id = NoId
    <2>1. ref = NameRef(t.file) /\ t.file # NoName
      BY <1>1, <1>3, <1>7 DEF RowRef
    <2>2. ref.kind = "name" /\ ref.name = t.file
      BY <2>1 DEF NameRef
    <2>3. ref # NameRef(NoName)
      BY <2>1 DEF NameRef
    <2> HIDE DEF ref
    <2> DEFINE a == {u \in InScope(l, s) : u.file = ref.name}
               b == {u \in l.tickets : u.file = ref.name}
               c == {u \in l.tickets : u.tracker = ref.name}
               d == {u \in InScope(l, s) : u.stem = ref.name}
    <2>4. Pools(tr, s, l, ref) = <<a, b, c, d>>
      BY <2>2 DEF Pools
    <2>5. a = {t}
      <3>1. t \in a
        BY <2>2 DEF l
      <3>2. t.file \in Leaves(tr, f) /\ tr.leaf[f][t.file].id = NoId
        BY <1>1, <1>3, <1>7, <2>1 DEF f
      <3>3. ASSUME NEW u \in a
            PROVE  u = t
        <4>1. u \in l.tickets /\ u.file = t.file
          BY <2>2, <3>3 DEF InScope
        <4>2. u.file \in Leaves(tr, u.key.folder) /\ u.key.folder \in DOMAIN tr.entry
              /\ tr.leaf[u.key.folder][u.file].id = u.id
          BY <1>3, <2>1, <4>1
        <4>3. u.key.folder = f
          BY <1>4, <3>2, <4>1, <4>2 DEF Findable
        <4>4. u.id = NoId
          BY <3>2, <4>1, <4>2, <4>3
        <4>5. u.key = Key(f, NoId, t.file) /\ t.key = Key(f, NoId, t.file)
          BY <1>1, <1>3, <1>7, <4>1, <4>3, <4>4 DEF f
        <4>6. QED
          BY <1>2, <4>1, <4>5
      <3>4. QED
        BY <3>1, <3>3
    <2> HIDE DEF a, b, c, d
    <2>6. Len(Pools(tr, s, l, ref)) \in Nat \ {0} /\ Pools(tr, s, l, ref)[1] = a
      BY <2>4
    <2>7. Matches(tr, s, l, ref) = a
      BY <2>3, <2>5, <2>6, MatchesFirst
    <2>8. QED
      BY <2>5, <2>7 DEF l, ref
  <1>8. QED
    BY <1>5, <1>6, <1>7

-----------------------------------------------------------------------------
(* The inductive invariant.                                                *)

\* What a mark is about to write, and of which ticket.
MarkOf(tr, j, c) ==
    /\ j.key.folder \in DOMAIN tr.entry /\ j.name # NoName /\ j.told \in MarkAs
    /\ IsPlanText(j.text) /\ j.text.status = j.told.status /\ j.text.halted = j.told.halt
    /\ c \in Cores(tr, j.key.folder) /\ c.key = j.key /\ Joins(j.text, c.id, c.file)

MarkReady(tr, j) ==
    \E c : /\ MarkOf(tr, j, c)
           /\ j.new => PlansFor(tr, j.key.folder, c.id, c.file) = {}
           /\ ~j.new => /\ j.name \in PlansFor(tr, j.key.folder, c.id, c.file)
                        /\ \A q \in PlansFor(tr, j.key.folder, c.id, c.file) : q = j.name
                        /\ j.text.body = tr.plan[j.key.folder][j.name].body

MarkOpened(tr, j) ==
    \E c : /\ MarkOf(tr, j, c) /\ PlansFor(tr, j.key.folder, c.id, c.file) = {}
           /\ j.name \in DOMAIN tr.plan[j.key.folder] /\ tr.plan[j.key.folder][j.name].type = "cut"

\* What a pull is about to write, and of which entry.
PullOf(tr, j, f, n) ==
    /\ f \in DOMAIN tr.entry /\ n \in Bare(tr, f) /\ j.key = Key(f, n, NoName)
    /\ j.name = tr.entry[f][n].stem /\ j.name \notin Leaves(tr, f)
    /\ IsLeafText(j.text) /\ j.text.id = n /\ j.text.tracker = NoName
    /\ j.text.hitl = tr.entry[f][n].hitl
    /\ j.text.after = {RefOf(tr, k, f) : k \in AfterKeys(tr, f, EntryCore(tr, f, n))}

PullReady(tr, j) == \E f, n : PullOf(tr, j, f, n)

\* The ticket of a key has one plan, which says what a mark was told.
MarkedAs(tr, k, m) ==
    /\ k.folder \in DOMAIN tr.entry /\ m \in MarkAs
    /\ \E c \in Cores(tr, k.folder) :
         /\ c.key = k /\ PlansFor(tr, k.folder, c.id, c.file) # {}
         /\ \A q \in PlansFor(tr, k.folder, c.id, c.file) :
              tr.plan[k.folder][q].status = m.status /\ tr.plan[k.folder][q].halted = m.halt

BuiltAs(tr, f, s, body) == tr.plan[f][s].type = "plan" /\ tr.plan[f][s].body = body

KeepsEntry(tr, k) == \A s \in Scopes(tr) : \A c \in AllCores(tr, s) : c.key = k => ~Drifts(tr, s, c)

OneBusy == \A p, q \in Procs : pc[p] # "idle" /\ pc[q] # "idle" => p = q

JobsHold ==
    \A p \in Procs :
      /\ pc[p] \in {"idle", "open_plan", "write_plan", "open_leaf", "write_leaf"}
      /\ pc[p] = "open_plan" => MarkReady(tree, job[p])
      /\ pc[p] = "write_plan" => MarkOpened(tree, job[p])
      /\ pc[p] \in {"open_leaf", "write_leaf"} => PullReady(tree, job[p])
      /\ pc[p] = "write_leaf" => job[p].name \in DOMAIN tree.leaf[job[p].key.folder]

MarksHold ==
    \A k \in DOMAIN marked \ torn :
      (\A p \in Procs : ~(pc[p] = "write_plan" /\ job[p].key = k)) => MarkedAs(tree, k, marked[k])

BuiltsHold ==
    \A d \in DOMAIN built :
      \E f \in DOMAIN tree.entry : \E s \in DOMAIN tree.plan[f] :
        /\ d = <<f, s>>
        /\ \/ BuiltAs(tree, f, s, built[d])
           \/ \E p \in Procs : /\ pc[p] = "write_plan" /\ job[p].key.folder = f /\ job[p].name = s
                               /\ job[p].text.body = built[d]

PulledHold == \A k \in pulled : KeepsEntry(tree, k)

Steady ==
    /\ InOrder(tree) /\ PlansNameFiles(tree)
    /\ DOMAIN pc = Procs /\ DOMAIN job = Procs
    /\ OneBusy /\ JobsHold /\ MarksHold /\ BuiltsHold /\ PulledHold

Inv == overlapped \/ Steady

\* Nothing about plans changes when the text of the other files does not.
LEMMA SameTextMarked ==
    ASSUME NEW tr, IsTree(tr), NEW tr2, SameText(tr, tr2), NEW k, NEW m, MarkedAs(tr, k, m),
           \A g \in DOMAIN tr.entry : \A c \in Cores(tr, g) : c.key = k /\ g = k.folder =>
             /\ PlansFor(tr2, g, c.id, c.file) = PlansFor(tr, g, c.id, c.file)
             /\ \A q \in PlansFor(tr, g, c.id, c.file) : /\ tr2.plan[g][q].status = tr.plan[g][q].status
                                                         /\ tr2.plan[g][q].halted = tr.plan[g][q].halted
    PROVE  MarkedAs(tr2, k, m)
  <1>1. PICK c \in Cores(tr, k.folder) :
          /\ c.key = k /\ PlansFor(tr, k.folder, c.id, c.file) # {}
          /\ \A q \in PlansFor(tr, k.folder, c.id, c.file) :
               tr.plan[k.folder][q].status = m.status /\ tr.plan[k.folder][q].halted = m.halt
    BY DEF MarkedAs
  <1>2. k.folder \in DOMAIN tr.entry /\ m \in MarkAs
    BY DEF MarkedAs
  <1>3. Cores(tr2, k.folder) = Cores(tr, k.folder) /\ tr2.entry = tr.entry
    BY <1>2, SameTextCores DEF SameText
  <1>4. /\ PlansFor(tr2, k.folder, c.id, c.file) = PlansFor(tr, k.folder, c.id, c.file)
        /\ \A q \in PlansFor(tr, k.folder, c.id, c.file) :
             /\ tr2.plan[k.folder][q].status = tr.plan[k.folder][q].status
             /\ tr2.plan[k.folder][q].halted = tr.plan[k.folder][q].halted
    BY <1>1, <1>2
  <1>5. QED
    BY <1>1, <1>2, <1>3, <1>4 DEF MarkedAs

LEMMA SameTextKeeps ==
    ASSUME NEW tr, IsTree(tr), NEW tr2, SameText(tr, tr2), NEW k, KeepsEntry(tr, k)
    PROVE  KeepsEntry(tr2, k)
  <1>1. \A s \in Scopes(tr) : /\ AllCores(tr2, s) = AllCores(tr, s)
                              /\ \A c \in AllCores(tr, s) : Drifts(tr2, s, c) => Drifts(tr, s, c)
    BY SameTextReads
  <1>2. Scopes(tr2) = Scopes(tr)
    BY DEF Scopes, SameText
  <1>3. QED
    BY <1>1, <1>2 DEF KeepsEntry

LEMMA SameTextFiles ==
    ASSUME NEW tr, NEW tr2, SameText(tr, tr2), tr2.plan = tr.plan, PlansNameFiles(tr)
    PROVE  PlansNameFiles(tr2)
  BY DEF SameText, PlansNameFiles

\* Nobody is at work: the jobs hold, whatever the tree.
LEMMA IdleJobs ==
    ASSUME \A p \in Procs : pc[p] = "idle"
    PROVE  OneBusy /\ JobsHold
  BY DEF OneBusy, JobsHold

-----------------------------------------------------------------------------
(* What a command reads.                                                   *)

\* A plan that is there says what it is.
LEMMA PlanTexts ==
    ASSUME NEW tr, IsTree(tr), NEW f \in DOMAIN tr.entry, NEW id, NEW file, NEW p \in PlansFor(tr, f, id, file)
    PROVE  /\ p \in DOMAIN tr.plan[f] /\ p # NoName /\ IsPlanText(tr.plan[f][p])
           /\ Joins(tr.plan[f][p], id, file)
  <1>1. p \in DOMAIN tr.plan[f] /\ Joins(tr.plan[f][p], id, file)
    BY DEF PlansFor, Joins
  <1>2. p # NoName /\ IsPlanText(tr.plan[f][p])
    BY <1>1 DEF IsTree, Joins, IsPlanText, PlanFields
  <1>3. QED
    BY <1>1, <1>2

LEMMA MarkedPlanIs ==
    ASSUME NEW tr, NEW t, NEW status, NEW halt,
           t.plan # NoName => IsPlanText(tr.plan[t.key.folder][t.plan])
    PROVE  /\ IsPlanText(MarkedPlan(tr, t, status, halt))
           /\ MarkedPlan(tr, t, status, halt).status = status /\ MarkedPlan(tr, t, status, halt).halted = halt
           /\ t.plan = NoName => /\ MarkedPlan(tr, t, status, halt).id = t.id
                                 /\ t.id = NoId => MarkedPlan(tr, t, status, halt).file = t.file
           /\ t.plan # NoName =>
                /\ MarkedPlan(tr, t, status, halt).id = tr.plan[t.key.folder][t.plan].id
                /\ MarkedPlan(tr, t, status, halt).file = tr.plan[t.key.folder][t.plan].file
                /\ MarkedPlan(tr, t, status, halt).body = tr.plan[t.key.folder][t.plan].body
  <1>1. CASE t.plan = NoName
    <2>1. MarkedPlan(tr, t, status, halt)
            = [type |-> "plan", id |-> t.id, file |-> IF t.id = NoId THEN t.file ELSE NoName,
               status |-> status, halted |-> halt, body |-> 0]
      BY <1>1 DEF MarkedPlan
    <2>2. QED
      BY <1>1, <2>1 DEF IsPlanText, PlanFields
  <1>2. CASE t.plan # NoName
    <2> DEFINE q == tr.plan[t.key.folder][t.plan]
    <2>1. MarkedPlan(tr, t, status, halt) = [q EXCEPT !.status = status, !.halted = halt]
      BY <1>2 DEF MarkedPlan
    <2>2. IsPlanText(q)
      BY <1>2
    <2> HIDE DEF q
    <2>3. QED
      BY <1>2, <2>1, <2>2 DEF IsPlanText, PlanFields, q
  <1>3. QED
    BY <1>1, <1>2

LEMMA MarkReads ==
    ASSUME NEW tr, InOrder(tr), NEW s \in Scopes(tr), NEW t \in Resolved(tr, s).tickets, NEW m \in MarkAs,
           NEW j, j.key = t.key, j.name = PlanPath(t), j.new <=> t.plan = NoName,
           j.text = MarkedPlan(tr, t, m.status, m.halt), j.told = m
    PROVE  MarkReady(tr, j)
  <1>0. IsTree(tr) /\ IdsUnique(tr) /\ PlansUnique(tr)
    BY DEF InOrder
  <1>1. PICK r \in Rows(tr, s) : TicketOf(tr, s, t, r)
    BY ResolvedFacts
  <1>2. PICK f \in FoldersRead(tr, s) : r \in FolderRows(tr, f)
    BY DEF Rows
  <1>3. f \in DOMAIN tr.entry
    BY <1>0, AllCoresFacts
  <1> DEFINE c == Core(r)
             plans == PlansFor(tr, f, c.id, c.file)
  <1>4. c \in Cores(tr, f) /\ ReadsPlan(tr, f, r)
    BY <1>2, RowFacts
  <1>5. c.key = r.key /\ c.id = r.id /\ c.file = r.file /\ c.stem = r.stem
    BY CoreOf
  <1>6. t.key = c.key /\ t.id = c.id /\ t.file = c.file /\ t.stem = c.stem /\ t.plan = r.plan
    BY <1>1, <1>5 DEF TicketOf
  <1>7. /\ c.key.folder = f /\ c.stem # NoName
        /\ c.id = NoId => c.file # NoName
    BY <1>0, <1>3, <1>4, CoreKeys, KeyFields
  <1>8. (plans = {} => t.plan = NoName) /\ (plans # {} => t.plan \in plans)
    BY <1>4, <1>5, <1>6 DEF ReadsPlan
  <1> HIDE DEF c
  <1>9. /\ \A p, q \in plans : p = q
        /\ \A p \in plans : p # NoName /\ IsPlanText(tr.plan[f][p]) /\ Joins(tr.plan[f][p], c.id, c.file)
    <2>1. \A p, q \in plans : p = q
      BY <1>0, <1>3, <1>4, PlansUniqueIs DEF PlansUnique
    <2>2. QED
      BY <1>0, <1>3, <2>1, PlanTexts
  <1> HIDE DEF plans
  <1>10. t.plan = NoName <=> plans = {}
    BY <1>8, <1>9
  <1>11. t.plan # NoName => IsPlanText(tr.plan[t.key.folder][t.plan])
    BY <1>6, <1>7, <1>8, <1>9, <1>10
  <1>12. /\ IsPlanText(j.text) /\ j.text.status = m.status /\ j.text.halted = m.halt
         /\ t.plan = NoName => j.text.id = t.id /\ (t.id = NoId => j.text.file = t.file)
         /\ t.plan # NoName => /\ j.text.id = tr.plan[f][t.plan].id /\ j.text.file = tr.plan[f][t.plan].file
                               /\ j.text.body = tr.plan[f][t.plan].body
    BY <1>6, <1>7, <1>11, MarkedPlanIs
  <1>13. Joins(j.text, c.id, c.file)
    <2>1. j.text.type # "cut"
      BY <1>12 DEF IsPlanText
    <2>2. CASE t.plan = NoName
      BY <1>6, <1>7, <1>12, <2>1, <2>2 DEF Joins
    <2>3. CASE t.plan # NoName
      <3>1. Joins(tr.plan[f][t.plan], c.id, c.file)
        BY <1>8, <1>9, <1>10, <2>3
      <3>2. QED
        BY <1>12, <2>1, <2>3, <3>1 DEF Joins
    <2>4. QED
      BY <2>2, <2>3
  <1>14. j.name # NoName /\ (t.plan # NoName => j.name = t.plan)
    BY <1>6, <1>7 DEF PlanPath
  <1>15. MarkOf(tr, j, c)
    BY <1>3, <1>4, <1>6, <1>7, <1>12, <1>13, <1>14 DEF MarkOf
  <1>16. j.key.folder = f
    BY <1>6, <1>7
  <1>17. QED
    BY <1>8, <1>9, <1>10, <1>12, <1>14, <1>15, <1>16 DEF MarkReady, plans

LEMMA PulledLeafIs ==
    ASSUME NEW tr, NEW t
    PROVE  /\ PulledLeaf(tr, t).type = t.type /\ PulledLeaf(tr, t).id = t.id /\ PulledLeaf(tr, t).tracker = NoName
           /\ PulledLeaf(tr, t).hitl = t.hitl
           /\ PulledLeaf(tr, t).after = {RefOf(tr, k, t.key.folder) : k \in t.after}
           /\ DOMAIN PulledLeaf(tr, t) = LeafFields
  BY DEF PulledLeaf, LeafFields

LEMMA PullReads ==
    ASSUME NEW tr, InOrder(tr), NEW f \in DOMAIN tr.entry, NEW n \in DOMAIN tr.entry[f],
           NEW t \in Resolved(tr, f).tickets, t.key = Key(f, n, NoName), t.file = NoName,
           t.stem \notin DOMAIN tr.leaf[f],
           NEW j, j.key = t.key, j.name = t.stem, j.text = PulledLeaf(tr, t)
    PROVE  PullReady(tr, j)
  <1>0. IsTree(tr) /\ IdsUnique(tr) /\ f \in Scopes(tr)
    BY OwnScope DEF InOrder
  <1>1. PICK c \in AllCores(tr, f) : TicketAt(tr, f, t, c)
    BY TicketsAreCores
  <1>2. c.key = Key(f, n, NoName) /\ c.file = NoName
    BY <1>1 DEF TicketAt
  <1>3. c.key.folder = f
    BY <1>2, KeyFields
  <1>4. n \in Bare(tr, f) /\ c = EntryCore(tr, f, n)
    <2>1. NoName \notin Leaves(tr, f)
      BY <1>0 DEF IsTree, Leaves
    <2>2. PICK m \in Bare(tr, f) : c = EntryCore(tr, f, m)
      BY <1>0, <1>2, <1>3, <2>1, CoreIs, LeafCoreFields
    <2>3. m = n
      BY <1>2, <2>2, EntryCoreFields, KeyFields
    <2>4. QED
      BY <2>2, <2>3
  <1>5. /\ t.stem = tr.entry[f][n].stem /\ t.type = tr.entry[f][n].type /\ t.hitl = tr.entry[f][n].hitl /\ t.id = n
        /\ t.after = AfterKeys(tr, f, EntryCore(tr, f, n)) /\ t.key.folder = f
    BY <1>1, <1>3, <1>4, EntryCoreFields DEF TicketAt
  <1>6. t.type \in LeafTypes
    BY <1>0, <1>5 DEF IsTree
  <1>7. \A k : IsRef(RefOf(tr, k, f))
    BY DEF IsRef, RefOf, NameRef, IdRef, CrossRef
  <1> DEFINE refs == {RefOf(tr, k, t.key.folder) : k \in t.after}
  <1>8. refs = {RefOf(tr, k, f) : k \in AfterKeys(tr, f, EntryCore(tr, f, n))} /\ \A x \in refs : IsRef(x)
    BY <1>5, <1>7
  <1>9. j.text.type = t.type /\ j.text.id = t.id /\ j.text.tracker = NoName /\ j.text.hitl = t.hitl
        /\ j.text.after = refs /\ DOMAIN j.text = LeafFields
    BY PulledLeafIs
  <1> HIDE DEF refs
  <1>10. IsLeafText(j.text) /\ j.text.id = n
    BY <1>5, <1>6, <1>8, <1>9 DEF IsLeafText
  <1>11. j.name \notin Leaves(tr, f)
    BY DEF Leaves
  <1>12. QED
    BY <1>4, <1>5, <1>8, <1>9, <1>10, <1>11 DEF PullReady, PullOf

-----------------------------------------------------------------------------
(* The steps.                                                              *)

LEMMA StartsSteady ==
    ASSUME Steady, NEW p \in Procs, NEW step, NEW j, Starts(p, step, j), ~overlapped',
           \/ step = "open_plan" /\ MarkReady(tree, j)
           \/ step = "open_leaf" /\ PullReady(tree, j)
    PROVE  Steady'
  <1>1. /\ tree' = tree /\ pc' = [pc EXCEPT ![p] = step] /\ job' = [job EXCEPT ![p] = j]
        /\ marked' = marked /\ built' = built /\ pulled' = pulled /\ torn' = torn
        /\ \A q \in Procs : pc[q] = "idle"
    BY DEF Starts, Busy
  <1>2. DOMAIN pc = Procs /\ DOMAIN job = Procs
    BY DEF Steady
  <1>3. pc'[p] = step /\ job'[p] = j /\ \A q \in Procs : q # p => pc'[q] = "idle"
    BY <1>1, <1>2
  <1>4. DOMAIN pc' = Procs /\ DOMAIN job' = Procs
    BY <1>1, <1>2
  <1>5. OneBusy'
    BY <1>3 DEF OneBusy
  <1>6. JobsHold'
    BY <1>1, <1>3 DEF JobsHold
  <1>7. MarksHold'
    <2>1. \A k \in DOMAIN marked \ torn : MarkedAs(tree, k, marked[k])
      BY <1>1 DEF Steady, MarksHold
    <2>2. QED
      BY <1>1, <2>1 DEF MarksHold
  <1>8. BuiltsHold'
    <2>1. \A d \in DOMAIN built : \E f \in DOMAIN tree.entry : \E s \in DOMAIN tree.plan[f] :
            d = <<f, s>> /\ BuiltAs(tree, f, s, built[d])
      BY <1>1 DEF Steady, BuiltsHold
    <2>2. QED
      BY <1>1, <2>1 DEF BuiltsHold
  <1>9. QED
    BY <1>1, <1>4, <1>5, <1>6, <1>7, <1>8 DEF Steady, PulledHold

LEMMA MarkReadSteady ==
    ASSUME Steady, NEW p \in Procs, NEW s \in Scopes(tree), MarkRead(p, s), ~overlapped'
    PROVE  Steady'
  <1> DEFINE loaded == Resolved(tree, s)
             J(t, m) == [key |-> t.key, name |-> PlanPath(t), new |-> t.plan = NoName,
                         text |-> MarkedPlan(tree, t, m.status, m.halt), told |-> m]
  <1>1. PICK ref \in Refs(tree) : \E t \in Matches(tree, s, loaded, ref), m \in MarkAs :
          Starts(p, "open_plan", J(t, m))
    BY DEF MarkRead
  <1>2. PICK t \in Matches(tree, s, loaded, ref), m \in MarkAs : Starts(p, "open_plan", J(t, m))
    BY <1>1
  <1>3. t \in loaded.tickets
    BY <1>2, MatchesAreTickets
  <1> DEFINE j == J(t, m)
  <1>4. /\ j.key = t.key /\ j.name = PlanPath(t) /\ (j.new <=> t.plan = NoName)
        /\ j.text = MarkedPlan(tree, t, m.status, m.halt) /\ j.told = m
    OBVIOUS
  <1>5. Starts(p, "open_plan", j)
    BY <1>2
  <1> HIDE DEF j, J
  <1>6. MarkReady(tree, j)
    BY <1>3, <1>4, MarkReads DEF Steady
  <1>7. QED
    BY <1>5, <1>6, StartsSteady

LEMMA PullReadSteady ==
    ASSUME Steady, NEW p \in Procs, NEW f \in DOMAIN tree.entry, NEW n \in DOMAIN tree.entry[f],
           PullRead(p, f, n), ~overlapped'
    PROVE  Steady'
  <1> DEFINE J(t) == [key |-> t.key, name |-> t.stem, new |-> TRUE, text |-> PulledLeaf(tree, t), told |-> NoJob.told]
  <1>1. PICK t \in Resolved(tree, f).tickets :
          /\ t.key = Key(f, n, NoName) /\ t.file = NoName /\ t.stem \notin DOMAIN tree.leaf[f]
          /\ Starts(p, "open_leaf", J(t))
    BY DEF PullRead
  <1> DEFINE j == J(t)
  <1>2. j.key = t.key /\ j.name = t.stem /\ j.text = PulledLeaf(tree, t)
    OBVIOUS
  <1>3. Starts(p, "open_leaf", j)
    BY <1>1
  <1> HIDE DEF j, J
  <1>4. PullReady(tree, j)
    BY <1>1, <1>2, PullReads DEF Steady
  <1>5. QED
    BY <1>3, <1>4, StartsSteady

\* The others are idle while one is at work.
LEMMA OthersIdle ==
    ASSUME Steady, NEW p \in Procs, pc[p] # "idle"
    PROVE  \A q \in Procs : q # p => pc[q] = "idle"
  BY DEF Steady, OneBusy

LEMMA KilledSteady ==
    ASSUME Steady, NEW p \in Procs, Killed(p)
    PROVE  Steady'
  <1>1. /\ tree' = tree /\ pc' = [pc EXCEPT ![p] = "idle"] /\ job' = job /\ pc[p] # "idle"
        /\ marked' = marked /\ pulled' = pulled
        /\ torn' = IF pc[p] \in {"write_plan", "write_leaf"} THEN torn \cup {job[p].key} ELSE torn
        /\ built' = IF pc[p] = "write_plan" THEN Restrict(built, DOMAIN built \ {<<job[p].key.folder, job[p].name>>})
                    ELSE built
    BY DEF Killed
  <1>2. DOMAIN pc = Procs /\ DOMAIN job = Procs /\ \A q \in Procs : q # p => pc[q] = "idle"
    BY <1>1, OthersIdle DEF Steady
  <1>3. DOMAIN pc' = Procs /\ \A q \in Procs : pc'[q] = "idle"
    BY <1>1, <1>2
  <1>4. OneBusy' /\ JobsHold'
    BY <1>3 DEF OneBusy, JobsHold
  <1>5. MarksHold'
    <2>1. ASSUME NEW k \in DOMAIN marked \ torn'
          PROVE  MarkedAs(tree, k, marked[k])
      <3>1. k \in DOMAIN marked \ torn /\ (pc[p] = "write_plan" => k # job[p].key)
        BY <1>1, <2>1
      <3>2. \A q \in Procs : ~(pc[q] = "write_plan" /\ job[q].key = k)
        BY <1>2, <3>1
      <3>3. QED
        BY <3>1, <3>2 DEF Steady, MarksHold
    <2>2. QED
      BY <1>1, <2>1 DEF MarksHold
  <1>6. BuiltsHold'
    <2>1. DOMAIN built' \subseteq DOMAIN built /\ \A d \in DOMAIN built' : built'[d] = built[d]
      <3>1. CASE pc[p] = "write_plan"
        BY <1>1, <3>1 DEF Restrict
      <3>2. CASE pc[p] # "write_plan"
        BY <1>1, <3>2
      <3>3. QED
        BY <3>1, <3>2
    <2>2. pc[p] = "write_plan" => <<job[p].key.folder, job[p].name>> \notin DOMAIN built'
      BY <1>1 DEF Restrict
    <2>3. ASSUME NEW d \in DOMAIN built'
          PROVE  \E f \in DOMAIN tree.entry : \E s \in DOMAIN tree.plan[f] :
                   d = <<f, s>> /\ BuiltAs(tree, f, s, built[d])
      <3>0. PICK f \in DOMAIN tree.entry : \E s \in DOMAIN tree.plan[f] :
              /\ d = <<f, s>>
              /\ \/ BuiltAs(tree, f, s, built[d])
                 \/ \E q \in Procs : pc[q] = "write_plan" /\ job[q].key.folder = f /\ job[q].name = s
                                     /\ job[q].text.body = built[d]
        BY <2>1 DEF Steady, BuiltsHold
      <3>1. PICK s \in DOMAIN tree.plan[f] :
              /\ d = <<f, s>>
              /\ \/ BuiltAs(tree, f, s, built[d])
                 \/ \E q \in Procs : pc[q] = "write_plan" /\ job[q].key.folder = f /\ job[q].name = s
                                     /\ job[q].text.body = built[d]
        BY <3>0
      <3>2. ASSUME NEW q \in Procs, pc[q] = "write_plan", job[q].key.folder = f, job[q].name = s
            PROVE  FALSE
        <4>1. q = p
          BY <1>2, <3>2
        <4>2. QED
          BY <2>2, <2>3, <3>1, <3>2, <4>1
      <3>3. QED
        BY <3>1, <3>2
    <2>4. QED
      BY <1>1, <2>1, <2>3 DEF BuiltsHold
  <1>7. QED
    BY <1>1, <1>2, <1>3, <1>4, <1>5, <1>6 DEF Steady, PulledHold

LEMMA PlanSets ==
    ASSUME NEW tr, IsTree(tr), NEW f \in DOMAIN tr.entry, NEW name, NEW text, NEW tr2
    PROVE  /\ tr2 = [tr EXCEPT !.plan[f] = With(@, name, text)] => PlanChanges(tr, tr2, f, name, text)
           /\ name \in DOMAIN tr.plan[f] /\ tr2 = [tr EXCEPT !.plan[f][name] = text]
                => PlanChanges(tr, tr2, f, name, text)
  <1>0. f \in DOMAIN tr.plan /\ "plan" \in DOMAIN tr
    BY DEF IsTree
  <1>1. ASSUME NEW P, tr2 = [tr EXCEPT !.plan[f] = P], DOMAIN P = DOMAIN tr.plan[f] \cup {name},
               P[name] = text, \A p \in DOMAIN tr.plan[f] : p # name => P[p] = tr.plan[f][p]
        PROVE  PlanChanges(tr, tr2, f, name, text)
    <2>1. /\ DOMAIN tr2 = DOMAIN tr /\ tr2.entry = tr.entry /\ tr2.leaf = tr.leaf /\ tr2.container = tr.container
          /\ tr2.number = tr.number /\ tr2.plan = [tr.plan EXCEPT ![f] = P]
      BY <1>0, <1>1
    <2>2. DOMAIN tr2.plan = DOMAIN tr.plan /\ tr2.plan[f] = P /\ \A g \in DOMAIN tr.plan : g # f => tr2.plan[g] = tr.plan[g]
      BY <1>0, <2>1
    <2>3. QED
      BY <1>1, <2>1, <2>2 DEF PlanChanges
  <1>2. ASSUME tr2 = [tr EXCEPT !.plan[f] = With(@, name, text)]
        PROVE  PlanChanges(tr, tr2, f, name, text)
    <2> DEFINE P == With(tr.plan[f], name, text)
    <2>1. DOMAIN P = DOMAIN tr.plan[f] \cup {name} /\ P[name] = text
          /\ \A p \in DOMAIN tr.plan[f] : p # name => P[p] = tr.plan[f][p]
      BY DEF With
    <2>2. tr2 = [tr EXCEPT !.plan[f] = P]
      BY <1>2
    <2> HIDE DEF P
    <2>3. QED
      BY <1>1, <2>1, <2>2
  <1>3. ASSUME name \in DOMAIN tr.plan[f], tr2 = [tr EXCEPT !.plan[f][name] = text]
        PROVE  PlanChanges(tr, tr2, f, name, text)
    <2> DEFINE P == [tr.plan[f] EXCEPT ![name] = text]
    <2>1. DOMAIN P = DOMAIN tr.plan[f] \cup {name} /\ P[name] = text
          /\ \A p \in DOMAIN tr.plan[f] : p # name => P[p] = tr.plan[f][p]
      BY <1>3
    <2>2. tr2 = [tr EXCEPT !.plan[f] = P]
      BY <1>3
    <2> HIDE DEF P
    <2>3. QED
      BY <1>1, <2>1, <2>2
  <1>4. QED
    BY <1>2, <1>3

LEMMA LeafSets ==
    ASSUME NEW tr, IsTree(tr), NEW f \in DOMAIN tr.entry, NEW name, NEW text, NEW tr2
    PROVE  /\ tr2 = [tr EXCEPT !.leaf[f] = With(@, name, text)] => LeafChanges(tr, tr2, f, name, text)
           /\ name \in DOMAIN tr.leaf[f] /\ tr2 = [tr EXCEPT !.leaf[f][name] = text]
                => LeafChanges(tr, tr2, f, name, text)
  <1>0. f \in DOMAIN tr.leaf /\ "leaf" \in DOMAIN tr
    BY DEF IsTree
  <1>1. ASSUME NEW P, tr2 = [tr EXCEPT !.leaf[f] = P], DOMAIN P = DOMAIN tr.leaf[f] \cup {name},
               P[name] = text, \A p \in DOMAIN tr.leaf[f] : p # name => P[p] = tr.leaf[f][p]
        PROVE  LeafChanges(tr, tr2, f, name, text)
    <2>1. /\ DOMAIN tr2 = DOMAIN tr /\ tr2.entry = tr.entry /\ tr2.plan = tr.plan /\ tr2.container = tr.container
          /\ tr2.number = tr.number /\ tr2.leaf = [tr.leaf EXCEPT ![f] = P]
      BY <1>0, <1>1
    <2>2. DOMAIN tr2.leaf = DOMAIN tr.leaf /\ tr2.leaf[f] = P /\ \A g \in DOMAIN tr.leaf : g # f => tr2.leaf[g] = tr.leaf[g]
      BY <1>0, <2>1
    <2>3. QED
      BY <1>1, <2>1, <2>2 DEF LeafChanges
  <1>2. ASSUME tr2 = [tr EXCEPT !.leaf[f] = With(@, name, text)]
        PROVE  LeafChanges(tr, tr2, f, name, text)
    <2> DEFINE P == With(tr.leaf[f], name, text)
    <2>1. DOMAIN P = DOMAIN tr.leaf[f] \cup {name} /\ P[name] = text
          /\ \A p \in DOMAIN tr.leaf[f] : p # name => P[p] = tr.leaf[f][p]
      BY DEF With
    <2>2. tr2 = [tr EXCEPT !.leaf[f] = P]
      BY <1>2
    <2> HIDE DEF P
    <2>3. QED
      BY <1>1, <2>1, <2>2
  <1>3. ASSUME name \in DOMAIN tr.leaf[f], tr2 = [tr EXCEPT !.leaf[f][name] = text]
        PROVE  LeafChanges(tr, tr2, f, name, text)
    <2> DEFINE P == [tr.leaf[f] EXCEPT ![name] = text]
    <2>1. DOMAIN P = DOMAIN tr.leaf[f] \cup {name} /\ P[name] = text
          /\ \A p \in DOMAIN tr.leaf[f] : p # name => P[p] = tr.leaf[f][p]
      BY <1>3
    <2>2. tr2 = [tr EXCEPT !.leaf[f] = P]
      BY <1>3
    <2> HIDE DEF P
    <2>3. QED
      BY <1>1, <2>1, <2>2
  <1>4. QED
    BY <1>2, <1>3

\* What is written to one plan keeps the tree in order, when it joins no
\* ticket that another plan joins.
LEMMA PlanStepOrdered ==
    ASSUME NEW tr, InOrder(tr), PlansNameFiles(tr), NEW tr2, NEW f \in DOMAIN tr.entry, NEW name, name # NoName,
           NEW text, text.type = "cut" \/ IsPlanText(text), PlanChanges(tr, tr2, f, name, text),
           text.type # "cut" => \E c \in Cores(tr, f) : /\ Joins(text, c.id, c.file)
                                                        /\ \A q \in PlansFor(tr, f, c.id, c.file) : q = name
    PROVE  InOrder(tr2) /\ PlansNameFiles(tr2)
  <1>0. IsTree(tr) /\ IdsUnique(tr) /\ PlansUnique(tr)
    BY DEF InOrder
  <1>1. /\ IsTree(tr2) /\ SameText(tr, tr2)
        /\ \A g \in DOMAIN tr.entry : \A id, file : g # f => PlansFor(tr2, g, id, file) = PlansFor(tr, g, id, file)
        /\ \A id, file : \A p : p \in PlansFor(tr2, f, id, file) <=>
             \/ p = name /\ Joins(text, id, file)
             \/ p # name /\ p \in PlansFor(tr, f, id, file)
    BY <1>0, PlanChangesFacts
  <1>2. \A g \in DOMAIN tr.entry : Cores(tr2, g) = Cores(tr, g)
    BY <1>1, SameTextCores
  <1>3. \A g \in DOMAIN tr.entry : \A c \in Cores(tr, g) : \A p, q \in PlansFor(tr, g, c.id, c.file) : p = q
    BY <1>0, PlansUniqueIs DEF PlansUnique
  <1>4. ASSUME NEW c \in Cores(tr, f), NEW p \in PlansFor(tr2, f, c.id, c.file), NEW q \in PlansFor(tr2, f, c.id, c.file)
        PROVE  p = q
    <2>1. CASE Joins(text, c.id, c.file)
      <3>1. text.type # "cut"
        BY <2>1 DEF Joins
      <3>2. PICK d \in Cores(tr, f) : Joins(text, d.id, d.file) /\ \A r \in PlansFor(tr, f, d.id, d.file) : r = name
        BY <3>1
      <3>3. d = c
        BY <1>0, <2>1, <3>2, JoinsOne
      <3>4. QED
        BY <1>1, <3>2, <3>3
    <2>2. CASE ~Joins(text, c.id, c.file)
      BY <1>1, <1>3, <2>2
    <2>3. QED
      BY <2>1, <2>2
  <1>5. PlansUnique(tr2)
    <2>1. ASSUME NEW g \in DOMAIN tr.entry
          PROVE  PlansAreUnique(tr2, g)
      <3>1. CASE g = f
        BY <1>2, <1>4, <3>1, PlansUniqueIs
      <3>2. CASE g # f
        BY <1>1, <1>2, <1>3, <3>2, PlansUniqueIs
      <3>3. QED
        BY <3>1, <3>2
    <2>2. tr2.entry = tr.entry
      BY <1>1 DEF SameText
    <2>3. QED
      BY <2>1, <2>2 DEF PlansUnique
  <1>6. InOrder(tr2)
    BY <1>1, <1>5, SameTextOrdered
  <1>7. PlansNameFiles(tr2)
    <2>1. /\ tr2.entry = tr.entry /\ \A g \in DOMAIN tr.entry : Leaves(tr2, g) = Leaves(tr, g)
      BY <1>1 DEF SameText
    <2>2. ASSUME NEW g \in DOMAIN tr.entry, NEW p \in DOMAIN tr2.plan[g],
                 tr2.plan[g][p].type = "plan", tr2.plan[g][p].id = NoId
          PROVE  \/ tr2.plan[g][p].file \in Leaves(tr, g)
                 \/ \A n \in DOMAIN tr.entry[g] : tr.entry[g][n].stem # tr2.plan[g][p].file
      <3>1. CASE g = f /\ p = name
        <4>1. tr2.plan[g][p] = text /\ text.type = "plan" /\ text.id = NoId
          BY <2>2, <3>1 DEF PlanChanges
        <4>2. PICK d \in Cores(tr, f) : Joins(text, d.id, d.file)
          BY <4>1
        <4>3. QED
          BY <3>1, <4>1, <4>2, JoinsFile
      <3>2. CASE ~(g = f /\ p = name)
        <4>1. p \in DOMAIN tr.plan[g] /\ tr2.plan[g][p] = tr.plan[g][p]
          <5>1. g \in DOMAIN tr.plan
            BY <1>0 DEF IsTree
          <5>2. QED
            BY <2>2, <3>2, <5>1 DEF PlanChanges
        <4>2. QED
          BY <2>2, <4>1 DEF PlansNameFiles
      <3>3. QED
        BY <3>1, <3>2
    <2>3. QED
      BY <2>1, <2>2 DEF PlansNameFiles
  <1>8. QED
    BY <1>6, <1>7

LEMMA TypeOfCut == Cut.type = "cut" /\ Cut.type \notin LeafTypes
  BY DEF Cut, LeafTypes

\* mark gives way to a plan that appeared.
LEMMA MarkGivesWay ==
    ASSUME Steady, NEW p \in Procs, pc[p] = "open_plan", tree' = tree, pc' = [pc EXCEPT ![p] = "idle"],
           UNCHANGED <<job, hist>>
    PROVE  Steady'
  <1>1. DOMAIN pc = Procs /\ \A q \in Procs : q # p => pc[q] = "idle"
    BY OthersIdle DEF Steady
  <1>2. DOMAIN pc' = Procs /\ \A q \in Procs : pc'[q] = "idle" /\ pc[q] # "write_plan"
    BY <1>1
  <1>3. OneBusy' /\ JobsHold'
    BY <1>2 DEF OneBusy, JobsHold
  <1>4. job' = job /\ marked' = marked /\ built' = built /\ pulled' = pulled /\ torn' = torn
    BY DEF hist
  <1>5. MarksHold'
    <2>1. \A k \in DOMAIN marked \ torn : MarkedAs(tree, k, marked[k])
      BY <1>2 DEF Steady, MarksHold
    <2>2. QED
      BY <1>4, <2>1 DEF MarksHold
  <1>6. BuiltsHold'
    <2>1. \A d \in DOMAIN built : \E f \in DOMAIN tree.entry : \E s \in DOMAIN tree.plan[f] :
            d = <<f, s>> /\ BuiltAs(tree, f, s, built[d])
      BY <1>2 DEF Steady, BuiltsHold
    <2>2. QED
      BY <1>4, <2>1 DEF BuiltsHold
  <1>7. QED
    BY <1>2, <1>3, <1>4, <1>5, <1>6 DEF Steady, PulledHold

\* What is written to a plan leaves the marks of the tickets that it joins
\* neither before nor after.
LEMMA PlanStepMarks ==
    ASSUME NEW tr, IsTree(tr), NEW tr2, NEW f \in DOMAIN tr.entry, NEW name, name # NoName,
           NEW text, text.type = "cut" \/ IsPlanText(text), PlanChanges(tr, tr2, f, name, text),
           NEW k, NEW m, MarkedAs(tr, k, m),
           \A d \in Cores(tr, f) : d.key = k =>
             name \notin PlansFor(tr, f, d.id, d.file) /\ ~Joins(text, d.id, d.file)
    PROVE  MarkedAs(tr2, k, m)
  <1>1. /\ IsTree(tr2) /\ SameText(tr, tr2)
        /\ \A g \in DOMAIN tr.entry : \A id, file : g # f => PlansFor(tr2, g, id, file) = PlansFor(tr, g, id, file)
        /\ \A id, file : \A p : p \in PlansFor(tr2, f, id, file) <=>
             \/ p = name /\ Joins(text, id, file)
             \/ p # name /\ p \in PlansFor(tr, f, id, file)
    BY PlanChangesFacts
  <1>2. /\ \A g \in DOMAIN tr.entry : g # f => tr2.plan[g] = tr.plan[g]
        /\ \A q \in DOMAIN tr.plan[f] : q # name => tr2.plan[f][q] = tr.plan[f][q]
    BY DEF PlanChanges, IsTree
  <1>3. ASSUME NEW d \in Cores(tr, f), d.key = k
        PROVE  PlansFor(tr2, f, d.id, d.file) = PlansFor(tr, f, d.id, d.file)
    <2>1. \A p : p \in PlansFor(tr2, f, d.id, d.file) <=> p \in PlansFor(tr, f, d.id, d.file)
      BY <1>1, <1>3
    <2>2. QED
      BY <2>1
  <1>4. ASSUME NEW g \in DOMAIN tr.entry, NEW d \in Cores(tr, g), d.key = k, g = k.folder
        PROVE  /\ PlansFor(tr2, g, d.id, d.file) = PlansFor(tr, g, d.id, d.file)
               /\ \A q \in PlansFor(tr, g, d.id, d.file) : /\ tr2.plan[g][q].status = tr.plan[g][q].status
                                                           /\ tr2.plan[g][q].halted = tr.plan[g][q].halted
    <2>1. CASE g # f
      BY <1>1, <1>2, <2>1
    <2>2. CASE g = f
      <3>1. PlansFor(tr2, f, d.id, d.file) = PlansFor(tr, f, d.id, d.file) /\ name \notin PlansFor(tr, f, d.id, d.file)
        BY <1>3, <1>4, <2>2
      <3>2. \A q \in PlansFor(tr, f, d.id, d.file) : q \in DOMAIN tr.plan[f] /\ q # name
        BY <3>1 DEF PlansFor
      <3>3. QED
        BY <1>2, <2>2, <3>1, <3>2
    <2>3. QED
      BY <2>1, <2>2
  <1>5. \A g \in DOMAIN tr.entry : \A c \in Cores(tr, g) : c.key = k /\ g = k.folder =>
             /\ PlansFor(tr2, g, c.id, c.file) = PlansFor(tr, g, c.id, c.file)
             /\ \A q \in PlansFor(tr, g, c.id, c.file) : /\ tr2.plan[g][q].status = tr.plan[g][q].status
                                                         /\ tr2.plan[g][q].halted = tr.plan[g][q].halted
    BY <1>4
  <1>6. QED
    BY <1>1, <1>5, SameTextMarked

PlansElsewhere(tr, tr2, f) ==
    \A g \in DOMAIN tr.entry : \A id, file : g # f => PlansFor(tr2, g, id, file) = PlansFor(tr, g, id, file)

\* A plan that is cut short joins no ticket.
LEMMA CutPlan ==
    ASSUME NEW tr, IsTree(tr), NEW tr2, NEW f \in DOMAIN tr.entry, NEW name, name # NoName,
           PlanChanges(tr, tr2, f, name, Cut)
    PROVE  /\ IsTree(tr2) /\ SameText(tr, tr2)
           /\ PlansElsewhere(tr, tr2, f)
           /\ \A id, file : \A q : q \in PlansFor(tr2, f, id, file) <=> q # name /\ q \in PlansFor(tr, f, id, file)
  <1> DEFINE text == Cut
  <1>1. \A id, file : ~Joins(text, id, file)
    BY TypeOfCut DEF Joins
  <1>2. text.type = "cut" /\ PlanChanges(tr, tr2, f, name, text)
    BY TypeOfCut
  <1> HIDE DEF text
  <1>3. /\ IsTree(tr2) /\ SameText(tr, tr2)
        /\ \A g \in DOMAIN tr.entry : \A id, file : g # f => PlansFor(tr2, g, id, file) = PlansFor(tr, g, id, file)
        /\ \A id, file : \A q : q \in PlansFor(tr2, f, id, file) <=>
             \/ q = name /\ Joins(text, id, file)
             \/ q # name /\ q \in PlansFor(tr, f, id, file)
    BY <1>2, PlanChangesFacts
  <1>4. QED
    BY <1>1, <1>3 DEF PlansElsewhere

\* mark empties the plan it is to write, and no other.
LEMMA MarkTruncates ==
    ASSUME Steady, NEW p \in Procs, pc[p] = "open_plan",
           ~(job[p].new /\ job[p].name \in DOMAIN tree.plan[job[p].key.folder]),
           tree' = [tree EXCEPT !.plan[job[p].key.folder] = With(@, job[p].name, Cut)],
           pc' = [pc EXCEPT ![p] = "write_plan"], UNCHANGED <<job, hist>>
    PROVE  Steady'
  <1> DEFINE j == job[p]
             f == job[p].key.folder
             name == job[p].name
  <1>1. DOMAIN pc = Procs /\ DOMAIN job = Procs /\ \A q \in Procs : q # p => pc[q] = "idle"
    BY OthersIdle DEF Steady
  <1>2. DOMAIN pc' = Procs /\ pc'[p] = "write_plan" /\ \A q \in Procs : q # p => pc'[q] = "idle"
    BY <1>1
  <1>3. job' = job /\ marked' = marked /\ built' = built /\ pulled' = pulled /\ torn' = torn
    BY DEF hist
  <1>4. PICK c : /\ MarkOf(tree, j, c)
                 /\ j.new => PlansFor(tree, f, c.id, c.file) = {}
                 /\ ~j.new => /\ name \in PlansFor(tree, f, c.id, c.file)
                              /\ \A q \in PlansFor(tree, f, c.id, c.file) : q = name
                              /\ j.text.body = tree.plan[f][name].body
    BY DEF Steady, JobsHold, MarkReady
  <1> HIDE DEF j, f, name
  <1>5. f \in DOMAIN tree.entry /\ name # NoName /\ c \in Cores(tree, f) /\ c.key = j.key /\ Joins(j.text, c.id, c.file)
    BY <1>4 DEF MarkOf, f, name, j
  <1>6. InOrder(tree) /\ PlansNameFiles(tree) /\ IsTree(tree) /\ IdsUnique(tree)
    BY DEF Steady, InOrder
  <1>7. PlanChanges(tree, tree', f, name, Cut)
    BY <1>5, <1>6, PlanSets DEF f, name
  <1>8. InOrder(tree') /\ PlansNameFiles(tree')
    BY <1>5, <1>6, <1>7, TypeOfCut, PlanStepOrdered
  <1>9. /\ IsTree(tree') /\ SameText(tree, tree')
        /\ \A g \in DOMAIN tree.entry : \A id, file : g # f => PlansFor(tree', g, id, file) = PlansFor(tree, g, id, file)
        /\ \A id, file : \A q : q \in PlansFor(tree', f, id, file) <=> q # name /\ q \in PlansFor(tree, f, id, file)
    <2>1. IsTree(tree) /\ f \in DOMAIN tree.entry /\ name # NoName /\ PlanChanges(tree, tree', f, name, Cut)
      BY <1>5, <1>6, <1>7
    <2>2. IsTree(tree') /\ SameText(tree, tree')
      BY ONLY <2>1, CutPlan
    <2>3. PlansElsewhere(tree, tree', f)
      BY ONLY <2>1, CutPlan
    <2>4. \A id, file : \A q : q \in PlansFor(tree', f, id, file) <=> q # name /\ q \in PlansFor(tree, f, id, file)
      BY ONLY <2>1, CutPlan
    <2>5. QED
      BY <2>2, <2>3, <2>4 DEF PlansElsewhere
  <1>10. /\ \A g \in DOMAIN tree.plan : g # f => tree'.plan[g] = tree.plan[g]
         /\ DOMAIN tree'.plan[f] = DOMAIN tree.plan[f] \cup {name} /\ tree'.plan[f][name] = Cut
         /\ \A q \in DOMAIN tree.plan[f] : q # name => tree'.plan[f][q] = tree.plan[f][q]
         /\ tree'.entry = tree.entry /\ DOMAIN tree.plan = DOMAIN tree.entry
    BY <1>6, <1>7 DEF PlanChanges, IsTree
  <1>11. OneBusy'
    BY <1>2 DEF OneBusy
  <1>12. MarkOpened(tree', j)
    <2>1. PlansFor(tree', f, c.id, c.file) = {}
      BY <1>4, <1>9
    <2>2. Cores(tree', f) = Cores(tree, f)
      BY <1>5, <1>9, SameTextCores
    <2>3. MarkOf(tree', j, c)
      <3>1. j.key.folder = f
        BY DEF f, j
      <3>2. QED
        BY <1>4, <1>10, <2>2, <3>1 DEF MarkOf
    <2>4. name \in DOMAIN tree'.plan[f] /\ tree'.plan[f][name].type = "cut"
      BY <1>10, TypeOfCut
    <2>5. QED
      BY <2>1, <2>3, <2>4 DEF MarkOpened, f, name, j
  <1>13. JobsHold'
    BY <1>2, <1>3, <1>12 DEF JobsHold, j
  <1>14. MarksHold'
    <2>1. ASSUME NEW k \in DOMAIN marked \ torn, k # j.key
          PROVE  MarkedAs(tree', k, marked[k])
      <3>1. \A q \in Procs : pc[q] # "write_plan"
        BY <1>1
      <3>2. MarkedAs(tree, k, marked[k])
        BY <3>1 DEF Steady, MarksHold
      <3>3. ASSUME NEW d \in Cores(tree, f), d.key = k
            PROVE  name \notin PlansFor(tree, f, d.id, d.file)
        <4>1. CASE j.new
          <5>1. name \notin DOMAIN tree.plan[f]
            BY <4>1 DEF j, f, name
          <5>2. QED
            BY <5>1 DEF PlansFor
        <4>2. CASE ~j.new
          <5>1. SUFFICES ASSUME name \in PlansFor(tree, f, d.id, d.file)
                         PROVE  FALSE
            OBVIOUS
          <5>2. Joins(tree.plan[f][name], d.id, d.file) /\ Joins(tree.plan[f][name], c.id, c.file)
            BY <1>4, <1>5, <1>6, <4>2, <5>1, PlanTexts
          <5>3. d = c
            BY <1>5, <1>6, <3>3, <5>2, JoinsOne
          <5>4. QED
            BY <1>5, <2>1, <3>3, <5>3
        <4>3. QED
          BY <4>1, <4>2
      <3>4. \A d \in Cores(tree, f) : d.key = k =>
              name \notin PlansFor(tree, f, d.id, d.file) /\ ~Joins(Cut, d.id, d.file)
        BY <3>3, TypeOfCut DEF Joins
      <3>5. Cut.type = "cut" \/ IsPlanText(Cut)
        BY TypeOfCut
      <3>6. QED
        BY <1>5, <1>6, <1>7, <3>2, <3>4, <3>5, PlanStepMarks
    <2>2. QED
      BY <1>2, <1>3, <2>1 DEF MarksHold, j
  <1>15. BuiltsHold'
    <2>1. ASSUME NEW d \in DOMAIN built
          PROVE  \E g \in DOMAIN tree'.entry : \E s \in DOMAIN tree'.plan[g] :
                   /\ d = <<g, s>>
                   /\ \/ BuiltAs(tree', g, s, built[d])
                      \/ \E q \in Procs : /\ pc'[q] = "write_plan" /\ job'[q].key.folder = g /\ job'[q].name = s
                                          /\ job'[q].text.body = built[d]
      <3>1. \E g \in DOMAIN tree.entry : \E s \in DOMAIN tree.plan[g] :
              d = <<g, s>> /\ BuiltAs(tree, g, s, built[d])
        BY <1>1 DEF Steady, BuiltsHold
      <3>2. PICK g \in DOMAIN tree.entry : \E s \in DOMAIN tree.plan[g] :
              d = <<g, s>> /\ BuiltAs(tree, g, s, built[d])
        BY <3>1
      <3>3. PICK s \in DOMAIN tree.plan[g] : d = <<g, s>> /\ BuiltAs(tree, g, s, built[d])
        BY <3>2
      <3>4. g \in DOMAIN tree'.entry /\ s \in DOMAIN tree'.plan[g]
        <4>1. CASE g = f
          BY <1>10, <4>1
        <4>2. CASE g # f
          BY <1>10, <4>2
        <4>3. QED
          BY <4>1, <4>2
      <3>5. CASE g = f /\ s = name
        <4>1. ~j.new
          BY <3>5 DEF j, f, name
        <4>2. j.text.body = built[d]
          BY <1>4, <3>3, <3>5, <4>1 DEF BuiltAs
        <4>3. pc'[p] = "write_plan" /\ job'[p].key.folder = g /\ job'[p].name = s /\ job'[p].text.body = built[d]
          BY <1>2, <1>3, <3>5, <4>2 DEF j, f, name
        <4>4. QED
          BY <3>3, <3>4, <4>3
      <3>6. CASE ~(g = f /\ s = name)
        <4>1. tree'.plan[g][s] = tree.plan[g][s]
          <5>1. CASE g = f
            BY <1>10, <3>6, <5>1
          <5>2. CASE g # f
            BY <1>10, <5>2
          <5>3. QED
            BY <5>1, <5>2
        <4>2. BuiltAs(tree', g, s, built[d])
          BY <3>3, <4>1 DEF BuiltAs
        <4>3. QED
          BY <3>3, <3>4, <4>2
      <3>7. QED
        BY <3>5, <3>6
    <2>2. QED
      BY <1>3, <2>1 DEF BuiltsHold
  <1>16. PulledHold'
    BY <1>3, <1>6, <1>9, SameTextKeeps DEF Steady, PulledHold
  <1>17. QED
    BY <1>1, <1>2, <1>3, <1>8, <1>11, <1>13, <1>14, <1>15, <1>16 DEF Steady

LEMMA MarkOpenSteady ==
    ASSUME Steady, NEW p \in Procs, MarkOpen(p)
    PROVE  Steady'
  <1> DEFINE taken == job[p].new /\ job[p].name \in DOMAIN tree.plan[job[p].key.folder]
  <1>1. /\ pc[p] = "open_plan" /\ UNCHANGED <<job, hist>>
        /\ pc' = [pc EXCEPT ![p] = IF taken THEN "idle" ELSE "write_plan"]
        /\ tree' = IF taken THEN tree
                   ELSE [tree EXCEPT !.plan[job[p].key.folder] = With(@, job[p].name, Cut)]
    BY DEF MarkOpen
  <1>2. CASE taken
    BY <1>1, <1>2, MarkGivesWay
  <1>3. CASE ~taken
    BY <1>1, <1>3, MarkTruncates
  <1>4. QED
    BY <1>2, <1>3

\* A plan that is written joins its ticket, and no other.
LEMMA TextPlan ==
    ASSUME NEW tr, IsTree(tr), NEW tr2, NEW f \in DOMAIN tr.entry, NEW name, name # NoName,
           NEW text, IsPlanText(text), PlanChanges(tr, tr2, f, name, text),
           NEW id, NEW file, Joins(text, id, file), \A q \in PlansFor(tr, f, id, file) : q = name
    PROVE  IsTree(tr2) /\ SameText(tr, tr2) /\ PlansFor(tr2, f, id, file) = {name}
  <1>1. /\ IsTree(tr2) /\ SameText(tr, tr2)
        /\ \A i, g : \A p : p \in PlansFor(tr2, f, i, g) <=>
             \/ p = name /\ Joins(text, i, g)
             \/ p # name /\ p \in PlansFor(tr, f, i, g)
    BY PlanChangesFacts
  <1>2. \A p : p \in PlansFor(tr2, f, id, file) <=> p = name
    BY <1>1
  <1>3. QED
    BY <1>1, <1>2

\* A plan that was not there to be read, or cut short, gets its text.
LEMMA MarkWriteSteady ==
    ASSUME Steady, NEW p \in Procs, MarkWrite(p)
    PROVE  Steady'
  <1> DEFINE j == job[p]
             f == job[p].key.folder
             name == job[p].name
             text == job[p].text
  <1>0. /\ pc[p] = "write_plan" /\ pc' = [pc EXCEPT ![p] = "idle"]
        /\ tree' = [tree EXCEPT !.plan[f][name] = text]
        /\ marked' = With(marked, j.key, j.told) /\ torn' = torn \ {j.key}
        /\ job' = job /\ built' = built /\ pulled' = pulled
    BY DEF MarkWrite
  <1>1. DOMAIN pc = Procs /\ DOMAIN job = Procs /\ \A q \in Procs : q # p => pc[q] = "idle"
    BY <1>0, OthersIdle DEF Steady
  <1>2. DOMAIN pc' = Procs /\ \A q \in Procs : pc'[q] = "idle"
    BY <1>0, <1>1
  <1>3. PICK c : /\ MarkOf(tree, j, c) /\ PlansFor(tree, f, c.id, c.file) = {}
                 /\ name \in DOMAIN tree.plan[f] /\ tree.plan[f][name].type = "cut"
    BY <1>0 DEF Steady, JobsHold, MarkOpened
  <1>4. /\ f \in DOMAIN tree.entry /\ name # NoName /\ c \in Cores(tree, f) /\ c.key = j.key
        /\ IsPlanText(text) /\ Joins(text, c.id, c.file) /\ j.key.folder = f
        /\ text.status = j.told.status /\ text.halted = j.told.halt /\ j.told \in MarkAs
    BY <1>3 DEF MarkOf
  <1>5. InOrder(tree) /\ PlansNameFiles(tree) /\ IsTree(tree) /\ IdsUnique(tree)
    BY DEF Steady, InOrder
  <1>6. PlanChanges(tree, tree', f, name, text)
    BY <1>0, <1>3, <1>4, <1>5, PlanSets
  <1>7. \A q \in Procs : pc[q] = "write_plan" => q = p
    BY <1>1
  <1>8. \A d \in DOMAIN built :
          \E g \in DOMAIN tree.entry : \E s \in DOMAIN tree.plan[g] :
            /\ d = <<g, s>>
            /\ BuiltAs(tree, g, s, built[d]) \/ (g = f /\ s = name /\ text.body = built[d])
    <2>1. \A d \in DOMAIN built :
            \E g \in DOMAIN tree.entry : \E s \in DOMAIN tree.plan[g] :
              /\ d = <<g, s>>
              /\ \/ BuiltAs(tree, g, s, built[d])
                 \/ \E q \in Procs : /\ pc[q] = "write_plan" /\ job[q].key.folder = g /\ job[q].name = s
                                     /\ job[q].text.body = built[d]
      BY DEF Steady, BuiltsHold
    <2>2. \A d : \A g, s : (\E q \in Procs : /\ pc[q] = "write_plan" /\ job[q].key.folder = g /\ job[q].name = s
                                             /\ job[q].text.body = built[d])
                    => g = f /\ s = name /\ text.body = built[d]
      BY <1>7
    <2> HIDE DEF f, name, text
    <2>3. QED
      BY <2>1, <2>2
  <1>9. \A k \in DOMAIN marked \ torn : k # j.key => MarkedAs(tree, k, marked[k])
    BY <1>7 DEF Steady, MarksHold
  <1> HIDE DEF j, f, name, text
  <1>10. InOrder(tree') /\ PlansNameFiles(tree')
    BY <1>3, <1>4, <1>5, <1>6, PlanStepOrdered
  <1>11. IsTree(tree') /\ SameText(tree, tree') /\ PlansFor(tree', f, c.id, c.file) = {name}
    <2>1. \A q \in PlansFor(tree, f, c.id, c.file) : q = name
      BY <1>3
    <2>2. /\ IsTree(tree) /\ f \in DOMAIN tree.entry /\ name # NoName
          /\ IsPlanText(text) /\ PlanChanges(tree, tree', f, name, text) /\ Joins(text, c.id, c.file)
      BY <1>4, <1>5, <1>6
    <2>3. QED
      BY <2>1, <2>2, TextPlan
  <1>12. Cores(tree', f) = Cores(tree, f) /\ tree'.entry = tree.entry /\ DOMAIN tree.plan = DOMAIN tree.entry
    BY <1>4, <1>5, <1>11, SameTextCores DEF SameText, IsTree
  <1>13. /\ \A g \in DOMAIN tree.plan : g # f => tree'.plan[g] = tree.plan[g]
         /\ DOMAIN tree'.plan[f] = DOMAIN tree.plan[f] \cup {name} /\ tree'.plan[f][name] = text
         /\ \A q \in DOMAIN tree.plan[f] : q # name => tree'.plan[f][q] = tree.plan[f][q]
    BY <1>6 DEF PlanChanges
  <1>14. MarkedAs(tree', j.key, j.told)
    <2>1. j.key.folder \in DOMAIN tree'.entry /\ c \in Cores(tree', j.key.folder) /\ c.key = j.key
      BY <1>4, <1>12
    <2>2. PlansFor(tree', j.key.folder, c.id, c.file) = {name}
      BY <1>4, <1>11
    <2>3. tree'.plan[j.key.folder][name].status = j.told.status /\ tree'.plan[j.key.folder][name].halted = j.told.halt
      BY <1>4, <1>13
    <2>4. QED
      BY <1>4, <2>1, <2>2, <2>3 DEF MarkedAs
  <1>15. MarksHold'
    <2>1. ASSUME NEW k \in DOMAIN marked \ torn, k # j.key
          PROVE  MarkedAs(tree', k, marked[k])
      <3>1. MarkedAs(tree, k, marked[k])
        BY <1>9, <2>1
      <3>2. ASSUME NEW d \in Cores(tree, f), d.key = k
            PROVE  name \notin PlansFor(tree, f, d.id, d.file) /\ ~Joins(text, d.id, d.file)
        <4>1. name \notin PlansFor(tree, f, d.id, d.file)
          BY <1>3 DEF PlansFor
        <4>2. ~Joins(text, d.id, d.file)
          <5>1. SUFFICES ASSUME Joins(text, d.id, d.file)
                         PROVE  FALSE
            OBVIOUS
          <5>2. d = c
            BY <1>4, <1>5, <5>1, JoinsOne
          <5>3. QED
            BY <1>4, <2>1, <3>2, <5>2
        <4>3. QED
          BY <4>1, <4>2
      <3>3. \A d \in Cores(tree, f) : d.key = k =>
              name \notin PlansFor(tree, f, d.id, d.file) /\ ~Joins(text, d.id, d.file)
        BY <3>2
      <3>4. QED
        BY <1>4, <1>5, <1>6, <3>1, <3>3, PlanStepMarks
    <2>2. /\ DOMAIN marked' = DOMAIN marked \cup {j.key} /\ marked'[j.key] = j.told
          /\ \A k \in DOMAIN marked : k # j.key => marked'[k] = marked[k]
      BY <1>0 DEF With
    <2>3. ASSUME NEW k \in DOMAIN marked' \ torn'
          PROVE  MarkedAs(tree', k, marked'[k])
      <3>1. CASE k = j.key
        BY <1>14, <2>2, <3>1
      <3>2. CASE k # j.key
        BY <1>0, <2>1, <2>2, <2>3, <3>2
      <3>3. QED
        BY <3>1, <3>2
    <2>4. QED
      BY <2>3 DEF MarksHold
  <1>16. BuiltsHold'
    <2>1. ASSUME NEW d \in DOMAIN built
          PROVE  \E g \in DOMAIN tree'.entry : \E s \in DOMAIN tree'.plan[g] :
                   d = <<g, s>> /\ BuiltAs(tree', g, s, built[d])
      <3>1. PICK g \in DOMAIN tree.entry : \E s \in DOMAIN tree.plan[g] :
              /\ d = <<g, s>>
              /\ BuiltAs(tree, g, s, built[d]) \/ (g = f /\ s = name /\ text.body = built[d])
        BY <1>8
      <3>2. PICK s \in DOMAIN tree.plan[g] :
              /\ d = <<g, s>>
              /\ BuiltAs(tree, g, s, built[d]) \/ (g = f /\ s = name /\ text.body = built[d])
        BY <3>1
      <3>3. g \in DOMAIN tree'.entry /\ s \in DOMAIN tree'.plan[g]
        <4>1. CASE g = f
          BY <1>12, <1>13, <4>1
        <4>2. CASE g # f
          BY <1>12, <1>13, <4>2
        <4>3. QED
          BY <4>1, <4>2
      <3>4. BuiltAs(tree', g, s, built[d])
        <4>1. CASE g = f /\ s = name
          BY <1>3, <1>4, <1>13, <3>2, <4>1 DEF BuiltAs, IsPlanText
        <4>2. CASE ~(g = f /\ s = name)
          <5>1. tree'.plan[g][s] = tree.plan[g][s]
            <6>1. CASE g = f
              BY <1>13, <4>2, <6>1
            <6>2. CASE g # f
              BY <1>12, <1>13, <6>2
            <6>3. QED
              BY <6>1, <6>2
          <5>2. QED
            BY <3>2, <4>2, <5>1 DEF BuiltAs
        <4>3. QED
          BY <4>1, <4>2
      <3>5. QED
        BY <3>2, <3>3, <3>4
    <2>2. QED
      BY <1>0, <2>1 DEF BuiltsHold
  <1>17. PulledHold'
    BY <1>0, <1>5, <1>11, SameTextKeeps DEF Steady, PulledHold
  <1>18. OneBusy' /\ JobsHold'
    BY <1>2 DEF OneBusy, JobsHold
  <1>19. QED
    BY <1>0, <1>1, <1>2, <1>10, <1>15, <1>16, <1>17, <1>18 DEF Steady

\* A step that changes neither the plans nor what the other files say of
\* tickets leaves everything in order.
LEMMA TextStepOrdered ==
    ASSUME NEW tr, InOrder(tr), PlansNameFiles(tr), NEW tr2, SameText(tr, tr2), IsTree(tr2), tr2.plan = tr.plan
    PROVE  /\ InOrder(tr2) /\ PlansNameFiles(tr2)
           /\ \A k, m : MarkedAs(tr, k, m) => MarkedAs(tr2, k, m)
           /\ \A k : KeepsEntry(tr, k) => KeepsEntry(tr2, k)
           /\ tr2.entry = tr.entry
  <1>1. IsTree(tr) /\ IdsUnique(tr) /\ PlansUnique(tr)
    BY DEF InOrder
  <1>2. \A g, id, file : PlansFor(tr2, g, id, file) = PlansFor(tr, g, id, file)
    BY DEF PlansFor
  <1>3. tr2.entry = tr.entry
    BY DEF SameText
  <1>4. \A g \in DOMAIN tr.entry : Cores(tr2, g) = Cores(tr, g)
    BY SameTextCores
  <1>5. PlansUnique(tr2)
    <2>1. ASSUME NEW g \in DOMAIN tr.entry
          PROVE  PlansAreUnique(tr2, g)
      <3>1. \A c \in Cores(tr, g) : \A p, q \in PlansFor(tr, g, c.id, c.file) : p = q
        BY <1>1, PlansUniqueIs DEF PlansUnique
      <3>2. QED
        BY <1>2, <1>4, <3>1, PlansUniqueIs
    <2>2. QED
      BY <1>3, <2>1 DEF PlansUnique
  <1>6. InOrder(tr2)
    BY <1>5, SameTextOrdered
  <1>7. PlansNameFiles(tr2)
    BY SameTextFiles
  <1>8. ASSUME NEW k, NEW m, MarkedAs(tr, k, m)
        PROVE  MarkedAs(tr2, k, m)
    <2>1. \A g \in DOMAIN tr.entry : \A c \in Cores(tr, g) : c.key = k /\ g = k.folder =>
            /\ PlansFor(tr2, g, c.id, c.file) = PlansFor(tr, g, c.id, c.file)
            /\ \A q \in PlansFor(tr, g, c.id, c.file) : /\ tr2.plan[g][q].status = tr.plan[g][q].status
                                                        /\ tr2.plan[g][q].halted = tr.plan[g][q].halted
      BY <1>2
    <2>2. QED
      BY <1>1, <1>8, <2>1, SameTextMarked
  <1>9. \A k : KeepsEntry(tr, k) => KeepsEntry(tr2, k)
    BY <1>1, SameTextKeeps
  <1>10. QED
    BY <1>3, <1>6, <1>7, <1>8, <1>9

LEMMA TextStepSteady ==
    ASSUME Steady, SameText(tree, tree'), IsTree(tree'), tree'.plan = tree.plan,
           marked' = marked, built' = built, pulled' = pulled, torn' = torn, job' = job,
           DOMAIN pc' = Procs, OneBusy', JobsHold',
           \A q \in Procs : pc'[q] = "write_plan" <=> pc[q] = "write_plan"
    PROVE  Steady'
  <1>1. InOrder(tree) /\ PlansNameFiles(tree) /\ DOMAIN job = Procs
    BY DEF Steady
  <1>2. InOrder(tree') /\ PlansNameFiles(tree') /\ tree'.entry = tree.entry
    BY <1>1, TextStepOrdered
  <1>3. \A k, m : MarkedAs(tree, k, m) => MarkedAs(tree', k, m)
    BY <1>1, TextStepOrdered
  <1>4. \A k : KeepsEntry(tree, k) => KeepsEntry(tree', k)
    BY <1>1, TextStepOrdered
  <1>5. MarksHold'
    BY <1>3 DEF Steady, MarksHold
  <1>6. \A f, s, body : BuiltAs(tree, f, s, body) <=> BuiltAs(tree', f, s, body)
    BY DEF BuiltAs
  <1>7. BuiltsHold'
    BY <1>2, <1>6 DEF Steady, BuiltsHold
  <1>8. PulledHold'
    BY <1>4 DEF Steady, PulledHold
  <1>9. QED
    BY <1>1, <1>2, <1>5, <1>7, <1>8 DEF Steady

LEMMA SameTextPulls ==
    ASSUME NEW tr, IsTree(tr), NEW tr2, SameText(tr, tr2), NEW j, PullReady(tr, j)
    PROVE  PullReady(tr2, j)
  <1>1. PICK f, n : PullOf(tr, j, f, n)
    BY DEF PullReady
  <1>2. f \in DOMAIN tr.entry /\ tr2.entry = tr.entry /\ tr2.number = tr.number /\ Epics(tr2) = Epics(tr)
        /\ Leaves(tr2, f) = Leaves(tr, f) /\ n \in Bare(tr, f)
    BY <1>1 DEF PullOf, SameText
  <1>3. Bare(tr2, f) = Bare(tr, f) /\ EntryCore(tr2, f, n) = EntryCore(tr, f, n)
    BY <1>2, SameTextCores DEF EntryCore
  <1>4. \A k : RefOf(tr2, k, f) = RefOf(tr, k, f)
    BY <1>2 DEF RefOf
  <1>5. f \in Scopes(tr) /\ f \in FoldersRead(tr, f)
    BY <1>2, OwnScope
  <1>6. \A g, refs : \A b \in BOOLEAN : Meant(tr2, f, g, b, refs) = Meant(tr, f, g, b, refs)
    BY <1>5, SameTextReads
  <1>7. AfterKeys(tr2, f, EntryCore(tr2, f, n)) = AfterKeys(tr, f, EntryCore(tr, f, n))
    BY <1>3, <1>6 DEF AfterKeys
  <1>8. {RefOf(tr2, k, f) : k \in AfterKeys(tr2, f, EntryCore(tr2, f, n))} = {RefOf(tr, k, f) : k \in AfterKeys(tr, f, EntryCore(tr, f, n))}
    BY <1>4, <1>7
  <1>9. PullOf(tr2, j, f, n)
    BY <1>1, <1>2, <1>3, <1>8 DEF PullOf
  <1>10. QED
    BY <1>9 DEF PullReady

\* pull opens a leaf file, which is nothing yet.
LEMMA PullOpenSteady ==
    ASSUME Steady, NEW p \in Procs, PullOpen(p)
    PROVE  Steady'
  <1> DEFINE f == job[p].key.folder
             name == job[p].name
  <1>0. /\ pc[p] = "open_leaf" /\ pc' = [pc EXCEPT ![p] = "write_leaf"] /\ job' = job
        /\ tree' = [tree EXCEPT !.leaf[f] = With(@, name, Cut)]
        /\ marked' = marked /\ built' = built /\ pulled' = pulled /\ torn' = torn
    BY DEF PullOpen, hist
  <1>1. DOMAIN pc = Procs /\ DOMAIN job = Procs /\ \A q \in Procs : q # p => pc[q] = "idle"
    BY <1>0, OthersIdle DEF Steady
  <1>2. DOMAIN pc' = Procs /\ pc'[p] = "write_leaf" /\ \A q \in Procs : q # p => pc'[q] = "idle"
    BY <1>0, <1>1
  <1>3. PullReady(tree, job[p]) /\ IsTree(tree)
    BY <1>0 DEF Steady, JobsHold, InOrder
  <1>4. f \in DOMAIN tree.entry /\ name \notin Leaves(tree, f) /\ name # NoName
    <2>1. PICK g, n : PullOf(tree, job[p], g, n)
      BY <1>3 DEF PullReady
    <2>2. g = f /\ g \in DOMAIN tree.entry /\ n \in DOMAIN tree.entry[g] /\ name = tree.entry[g][n].stem
          /\ name \notin Leaves(tree, g)
      BY <2>1, KeyFields DEF PullOf, Bare
    <2>3. QED
      BY <1>3, <2>2 DEF IsTree
  <1> HIDE DEF f, name
  <1>5. LeafChanges(tree, tree', f, name, Cut)
    BY <1>0, <1>3, <1>4, LeafSets
  <1>6. SameText(tree, tree') /\ IsTree(tree')
    BY <1>3, <1>4, <1>5, TypeOfCut, LeafSameText
  <1>7. tree'.plan = tree.plan
    BY <1>5 DEF LeafChanges
  <1>8. PullReady(tree', job[p])
    BY <1>3, <1>6, SameTextPulls
  <1>9. job'[p].name \in DOMAIN tree'.leaf[job'[p].key.folder]
    BY <1>0, <1>5 DEF LeafChanges, f, name
  <1>10. OneBusy' /\ JobsHold'
    BY <1>0, <1>2, <1>8, <1>9 DEF OneBusy, JobsHold
  <1>11. QED
    BY <1>0, <1>1, <1>2, <1>6, <1>7, <1>10, TextStepSteady

\* Between commands, a leaf file is refined or an epic closed.
LEMMA IdleStepSteady ==
    ASSUME Steady, ~Busy, SameText(tree, tree'), IsTree(tree'), tree'.plan = tree.plan,
           UNCHANGED <<pc, job, hist>>
    PROVE  Steady'
  <1>1. \A q \in Procs : pc[q] = "idle" /\ pc'[q] = "idle"
    BY DEF Busy
  <1>2. OneBusy' /\ JobsHold'
    BY <1>1 DEF OneBusy, JobsHold
  <1>3. marked' = marked /\ built' = built /\ pulled' = pulled /\ torn' = torn /\ job' = job /\ DOMAIN pc' = Procs
    BY DEF hist, Steady
  <1>4. QED
    BY <1>1, <1>2, <1>3, TextStepSteady

LEMMA RefineSteady ==
    ASSUME Steady, NEW f \in DOMAIN tree.entry, NEW s \in DOMAIN tree.leaf[f], Refine(f, s)
    PROVE  Steady'
  <1> DEFINE leaf == [tree.leaf[f][s] EXCEPT !.refined = TRUE]
  <1>1. IsTree(tree) /\ s \in Leaves(tree, f) /\ ~Busy /\ UNCHANGED <<pc, job, hist>>
        /\ tree' = [tree EXCEPT !.leaf[f][s].refined = TRUE]
    BY DEF Refine, Steady, InOrder
  <1>2. tree' = [tree EXCEPT !.leaf[f][s] = leaf]
    BY <1>1
  <1>3. /\ leaf.id = tree.leaf[f][s].id /\ leaf.tracker = tree.leaf[f][s].tracker
        /\ leaf.after = tree.leaf[f][s].after /\ leaf.hitl = tree.leaf[f][s].hitl
        /\ leaf.type = tree.leaf[f][s].type /\ DOMAIN leaf = DOMAIN tree.leaf[f][s]
    OBVIOUS
  <1> HIDE DEF leaf
  <1>4. DOMAIN tree.leaf[f][s] = LeafFields /\ tree.leaf[f][s].type \in LeafTypes
        /\ (\A x \in tree.leaf[f][s].after : IsRef(x)) /\ s # NoName
    BY <1>1 DEF IsTree, Leaves, LeafFields
  <1>5. IsLeafText(leaf)
    BY <1>3, <1>4 DEF IsLeafText
  <1>6. LeafChanges(tree, tree', f, s, leaf)
    BY <1>1, <1>2, LeafSets
  <1>7. SameText(tree, tree') /\ IsTree(tree')
    BY <1>1, <1>3, <1>4, <1>5, <1>6, LeafSameText
  <1>8. tree'.plan = tree.plan
    BY <1>6 DEF LeafChanges
  <1>9. QED
    BY <1>1, <1>7, <1>8, IdleStepSteady

LEMMA CloseSteady ==
    ASSUME Steady, NEW e \in Epics(tree), Close(e)
    PROVE  Steady'
  <1>1. IsTree(tree) /\ ~Busy /\ UNCHANGED <<pc, job, hist>>
        /\ tree' = [tree EXCEPT !.container[e].status = "done"]
    BY DEF Close, Steady, InOrder
  <1>2. SameText(tree, tree') /\ IsTree(tree') /\ tree'.plan = tree.plan
    BY <1>1, CloseSameText
  <1>3. QED
    BY <1>1, <1>2, IdleStepSteady

LEMMA PullSame ==
    ASSUME NEW tr, NEW tr2, NEW f, NEW n, NEW stem, PullsInto(tr, tr2, f, n, stem)
    PROVE  tr2.entry = tr.entry /\ tr2.plan = tr.plan /\ tr2.leaf[f][stem].id = n
  <1>1. tr2.entry = tr.entry /\ tr2.plan = tr.plan
    BY Zenon DEF PullsInto
  <1>2. tr2.leaf[f][stem].id = n
    BY Zenon DEF PullsInto
  <1>3. QED
    BY <1>1, <1>2

\* A pull keeps the marks: the entry's plan is the leaf file's.
LEMMA PullMarks ==
    ASSUME NEW tr, IsTree(tr), PlansNameFiles(tr), NEW tr2, IsTree(tr2),
           NEW f, NEW n, NEW stem, PullsInto(tr, tr2, f, n, stem), NEW k, NEW m, MarkedAs(tr, k, m)
    PROVE  MarkedAs(tr2, k, m)
  <1>1. PICK c \in Cores(tr, k.folder) :
          /\ c.key = k /\ PlansFor(tr, k.folder, c.id, c.file) # {}
          /\ \A q \in PlansFor(tr, k.folder, c.id, c.file) :
               tr.plan[k.folder][q].status = m.status /\ tr.plan[k.folder][q].halted = m.halt
    BY DEF MarkedAs
  <1>2. k.folder \in DOMAIN tr.entry /\ m \in MarkAs /\ tr2.entry = tr.entry /\ tr2.plan = tr.plan
    <2>1. k.folder \in DOMAIN tr.entry /\ m \in MarkAs
      BY DEF MarkedAs
    <2>2. tr2.entry = tr.entry /\ tr2.plan = tr.plan
      BY PullSame
    <2>3. QED
      BY <2>1, <2>2
  <1>3. /\ PlansFor(tr2, f, n, stem) = PlansFor(tr, f, n, NoName)
        /\ \A g, id, file : PlansFor(tr2, g, id, file) = PlansFor(tr, g, id, file)
    BY PullPlans
  <1>4. /\ LeafCore(tr2, f, stem) \in Cores(tr2, f) /\ LeafKey(tr2, f, stem) = Key(f, n, NoName)
        /\ \A d \in Cores(tr, f) : d = EntryCore(tr, f, n) \/ d \in Cores(tr2, f)
        /\ \A g \in DOMAIN tr.entry : g # f => Cores(tr2, g) = Cores(tr, g)
    BY PullCores
  <1>5. CASE c \in Cores(tr2, k.folder)
    BY <1>1, <1>2, <1>3, <1>5 DEF MarkedAs
  <1>6. CASE c \notin Cores(tr2, k.folder)
    <2>1. k.folder = f /\ c = EntryCore(tr, f, n)
      BY <1>1, <1>2, <1>4, <1>6
    <2>2. c.id = n /\ c.file = NoName /\ c.key = Key(f, n, NoName)
      BY <2>1, EntryCoreFields
    <2> DEFINE l == LeafCore(tr2, f, stem)
    <2>3. l.key = k /\ l.id = n /\ l.file = stem
      <3>1. tr2.leaf[f][stem].id = n
        BY PullSame
      <3>2. l.key = LeafKey(tr2, f, stem) /\ l.id = tr2.leaf[f][stem].id /\ l.file = stem
        BY LeafCoreFields
      <3>3. QED
        BY <1>1, <1>4, <2>2, <3>1, <3>2
    <2>4. l \in Cores(tr2, k.folder)
      BY <1>4, <2>1
    <2> HIDE DEF l
    <2>5. PlansFor(tr2, k.folder, l.id, l.file) = PlansFor(tr, k.folder, c.id, c.file)
      BY <1>3, <2>1, <2>2, <2>3
    <2>6. QED
      BY <1>1, <1>2, <2>3, <2>4, <2>5 DEF MarkedAs
  <1>7. QED
    BY <1>5, <1>6

LEMMA PullKeeps ==
    ASSUME NEW tr, InOrder(tr), PlansNameFiles(tr), NEW tr2, IsTree(tr2),
           NEW f, NEW n, NEW stem, PullsInto(tr, tr2, f, n, stem)
    PROVE  /\ KeepsEntry(tr2, Key(f, n, NoName))
           /\ \A k : KeepsEntry(tr, k) => KeepsEntry(tr2, k)
  <1>1. /\ Scopes(tr2) = Scopes(tr)
        /\ \A s \in Scopes(tr) : \A d \in AllCores(tr2, s) :
             Drifts(tr2, s, d) => d \in AllCores(tr, s) /\ Drifts(tr, s, d)
    BY PullOrdered
  <1>2. IsTree(tr)
    BY DEF InOrder
  <1>3. ASSUME NEW s \in Scopes(tr), NEW d \in AllCores(tr2, s), d.key = Key(f, n, NoName)
        PROVE  ~Drifts(tr2, s, d)
    <2>1. d = LeafCore(tr2, f, stem) /\ f \in FoldersRead(tr, s)
      BY <1>2, <1>3, PullAll
    <2>2. QED
      BY <1>3, <2>1, PullAfter
  <1>4. QED
    BY <1>1, <1>3 DEF KeepsEntry

\* pull writes the leaf file of an entry that has none.
LEMMA PullWriteSteady ==
    ASSUME Steady, NEW p \in Procs, PullWrite(p)
    PROVE  Steady'
  <1> DEFINE name == job[p].name
             text == job[p].text
  <1>0. /\ pc[p] = "write_leaf" /\ pc' = [pc EXCEPT ![p] = "idle"] /\ job' = job
        /\ tree' = [tree EXCEPT !.leaf[job[p].key.folder][name] = text]
        /\ marked' = marked /\ built' = built /\ pulled' = pulled \cup {job[p].key} /\ torn' = torn
    BY DEF PullWrite
  <1>1. DOMAIN pc = Procs /\ DOMAIN job = Procs /\ \A q \in Procs : q # p => pc[q] = "idle"
    BY <1>0, OthersIdle DEF Steady
  <1>2. DOMAIN pc' = Procs /\ \A q \in Procs : pc'[q] = "idle" /\ pc[q] # "write_plan"
    BY <1>0, <1>1
  <1>3. PullReady(tree, job[p]) /\ name \in DOMAIN tree.leaf[job[p].key.folder]
    BY <1>0 DEF Steady, JobsHold
  <1>4. PICK f, n : PullOf(tree, job[p], f, n)
    BY <1>3 DEF PullReady
  <1>5. InOrder(tree) /\ PlansNameFiles(tree) /\ IsTree(tree)
    BY DEF Steady, InOrder
  <1>6. /\ f \in DOMAIN tree.entry /\ n \in Bare(tree, f) /\ n \in DOMAIN tree.entry[f]
        /\ job[p].key = Key(f, n, NoName) /\ job[p].key.folder = f
        /\ name = tree.entry[f][n].stem /\ name \notin Leaves(tree, f)
        /\ IsLeafText(text) /\ text.id = n /\ text.tracker = NoName
        /\ text.hitl = tree.entry[f][n].hitl
        /\ text.after = {RefOf(tree, k, f) : k \in AfterKeys(tree, f, EntryCore(tree, f, n))}
    BY <1>4, KeyFields DEF PullOf, Bare
  <1> HIDE DEF name, text
  <1>7. name # NoName
    BY <1>5, <1>6 DEF IsTree
  <1>8. LeafChanges(tree, tree', f, name, text)
    BY <1>0, <1>3, <1>5, <1>6, LeafSets
  <1>9. /\ IsTree(tree')
        /\ \A g \in DOMAIN tree.entry : g # f => Leaves(tree', g) = Leaves(tree, g) /\ tree'.leaf[g] = tree.leaf[g]
        /\ \A r : r \in Leaves(tree', f) <=> \/ r = name /\ text.type \in LeafTypes
                                             \/ r # name /\ r \in Leaves(tree, f)
        /\ \A r \in Leaves(tree, f) : r # name => tree'.leaf[f][r] = tree.leaf[f][r]
    <2>1. /\ IsTree(tree) /\ f \in DOMAIN tree.entry /\ name # NoName /\ LeafChanges(tree, tree', f, name, text)
          /\ text.type \notin LeafTypes \/ IsLeafText(text)
      BY <1>5, <1>6, <1>7, <1>8
    <2>2. IsTree(tree')
      BY ONLY <2>1, LeafChangesFacts
    <2>3. \A g \in DOMAIN tree.entry : g # f => tree'.leaf[g] = tree.leaf[g]
      BY <2>1 DEF LeafChanges, IsTree
    <2>4. \A g \in DOMAIN tree.entry : g # f => Leaves(tree', g) = Leaves(tree, g) /\ tree'.leaf[g] = tree.leaf[g]
      BY <2>3 DEF Leaves
    <2>5. \A r : r \in Leaves(tree', f) <=> \/ r = name /\ text.type \in LeafTypes
                                            \/ r # name /\ r \in Leaves(tree, f)
      BY <2>1 DEF LeafChanges, Leaves
    <2>6. \A r \in Leaves(tree, f) : r # name => tree'.leaf[f][r] = tree.leaf[f][r]
      BY <2>1 DEF LeafChanges, Leaves
    <2>7. QED
      BY <2>2, <2>4, <2>5, <2>6
  <1>10. PullsInto(tree, tree', f, n, name)
    <2>1. /\ tree'.entry = tree.entry /\ tree'.number = tree.number /\ tree'.container = tree.container
          /\ tree'.plan = tree.plan /\ tree'.leaf[f][name] = text
      BY <1>8 DEF LeafChanges
    <2>2. Leaves(tree', f) = Leaves(tree, f) \cup {name}
      <3>1. text.type \in LeafTypes
        BY <1>6 DEF IsLeafText
      <3>2. QED
        BY <1>6, <1>9, <3>1
    <2>3. \A g \in DOMAIN tree.entry :
            /\ g # f => Leaves(tree', g) = Leaves(tree, g)
            /\ \A r \in Leaves(tree, g) : tree'.leaf[g][r] = tree.leaf[g][r]
      <3>1. \A r \in Leaves(tree, f) : tree'.leaf[f][r] = tree.leaf[f][r]
        BY <1>6, <1>9
      <3>2. QED
        BY <1>9, <3>1
    <2>4. QED
      BY <1>6, <2>1, <2>2, <2>3 DEF PullsInto
  <1>11. InOrder(tree') /\ PlansNameFiles(tree')
    BY <1>5, <1>9, <1>10, PullOrdered
  <1>12. tree'.entry = tree.entry /\ tree'.plan = tree.plan
    BY <1>8 DEF LeafChanges
  <1>13. MarksHold'
    <2>1. \A k, m : MarkedAs(tree, k, m) => MarkedAs(tree', k, m)
      BY <1>5, <1>9, <1>10, PullMarks
    <2>2. \A k \in DOMAIN marked \ torn : MarkedAs(tree, k, marked[k])
      BY <1>2 DEF Steady, MarksHold
    <2>3. QED
      BY <1>0, <2>1, <2>2 DEF MarksHold
  <1>14. BuiltsHold'
    <2>1. \A d \in DOMAIN built : \E g \in DOMAIN tree.entry : \E s \in DOMAIN tree.plan[g] :
            d = <<g, s>> /\ BuiltAs(tree, g, s, built[d])
      BY <1>2 DEF Steady, BuiltsHold
    <2>2. \A g, s, body : BuiltAs(tree, g, s, body) <=> BuiltAs(tree', g, s, body)
      BY <1>12 DEF BuiltAs
    <2>3. QED
      BY <1>0, <1>12, <2>1, <2>2 DEF BuiltsHold
  <1>15. PulledHold'
    <2>1. KeepsEntry(tree', job[p].key) /\ \A k : KeepsEntry(tree, k) => KeepsEntry(tree', k)
      BY <1>5, <1>6, <1>9, <1>10, PullKeeps
    <2>2. QED
      BY <1>0, <2>1 DEF Steady, PulledHold
  <1>16. OneBusy' /\ JobsHold'
    BY <1>2 DEF OneBusy, JobsHold
  <1>17. QED
    BY <1>0, <1>1, <1>2, <1>11, <1>13, <1>14, <1>15, <1>16 DEF Steady

\* A build's edit of its plan changes what no ticket reads from it.
LEMMA BodyStep ==
    ASSUME NEW tr, InOrder(tr), PlansNameFiles(tr), NEW tr2, NEW f \in DOMAIN tr.entry, NEW s \in DOMAIN tr.plan[f],
           tr.plan[f][s].type = "plan", NEW body, tr2 = [tr EXCEPT !.plan[f][s].body = body]
    PROVE  /\ InOrder(tr2) /\ PlansNameFiles(tr2) /\ tr2.entry = tr.entry /\ BuiltAs(tr2, f, s, body)
           /\ DOMAIN tr2.plan[f] = DOMAIN tr.plan[f]
           /\ \A g \in DOMAIN tr.entry : g # f => tr2.plan[g] = tr.plan[g]
           /\ \A r \in DOMAIN tr.plan[f] : r # s => tr2.plan[f][r] = tr.plan[f][r]
           /\ \A k, m : MarkedAs(tr, k, m) => MarkedAs(tr2, k, m)
           /\ \A k : KeepsEntry(tr, k) => KeepsEntry(tr2, k)
  <1> DEFINE text == [tr.plan[f][s] EXCEPT !.body = body]
  <1>1. IsTree(tr) /\ IdsUnique(tr) /\ PlansUnique(tr)
    BY DEF InOrder
  <1>2. s # NoName /\ DOMAIN tr.plan[f][s] = PlanFields /\ DOMAIN tr.plan = DOMAIN tr.entry
    BY <1>1 DEF IsTree, PlanFields
  <1>3. tr2 = [tr EXCEPT !.plan[f][s] = text]
    OBVIOUS
  <1>4. /\ text.type = tr.plan[f][s].type /\ text.id = tr.plan[f][s].id /\ text.file = tr.plan[f][s].file
        /\ text.status = tr.plan[f][s].status /\ text.halted = tr.plan[f][s].halted
        /\ DOMAIN text = PlanFields
    BY <1>2
  <1>5. text.body = body
    BY <1>2 DEF PlanFields
  <1> HIDE DEF text
  <1>6. IsPlanText(text)
    BY <1>4 DEF IsPlanText
  <1>7. PlanChanges(tr, tr2, f, s, text)
    BY <1>1, <1>3, PlanSets
  <1>8. /\ tr2.entry = tr.entry /\ DOMAIN tr2.plan[f] = DOMAIN tr.plan[f]
        /\ \A g \in DOMAIN tr.entry : g # f => tr2.plan[g] = tr.plan[g]
        /\ \A r \in DOMAIN tr.plan[f] : r # s => tr2.plan[f][r] = tr.plan[f][r]
        /\ tr2.plan[f][s] = text
    BY <1>2, <1>7 DEF PlanChanges
  <1>9. IsTree(tr2) /\ SameText(tr, tr2)
    BY <1>1, <1>2, <1>6, <1>7, PlanChangesFacts
  <1>10. \A g \in DOMAIN tr.entry : \A p \in DOMAIN tr.plan[g] :
           /\ tr2.plan[g][p].type = tr.plan[g][p].type /\ tr2.plan[g][p].id = tr.plan[g][p].id
           /\ tr2.plan[g][p].file = tr.plan[g][p].file
           /\ tr2.plan[g][p].status = tr.plan[g][p].status /\ tr2.plan[g][p].halted = tr.plan[g][p].halted
    <2>1. \A p \in DOMAIN tr.plan[f] :
            /\ tr2.plan[f][p].type = tr.plan[f][p].type /\ tr2.plan[f][p].id = tr.plan[f][p].id
            /\ tr2.plan[f][p].file = tr.plan[f][p].file
            /\ tr2.plan[f][p].status = tr.plan[f][p].status /\ tr2.plan[f][p].halted = tr.plan[f][p].halted
      BY <1>4, <1>8
    <2>2. QED
      BY <1>8, <2>1
  <1>11. \A g \in DOMAIN tr.entry : DOMAIN tr2.plan[g] = DOMAIN tr.plan[g]
    BY <1>8
  <1>12. \A g \in DOMAIN tr.entry : \A id, file : PlansFor(tr2, g, id, file) = PlansFor(tr, g, id, file)
    <2>1. ASSUME NEW g \in DOMAIN tr.entry, NEW id, NEW file
          PROVE  PlansFor(tr2, g, id, file) = PlansFor(tr, g, id, file)
      BY <1>10, <1>11 DEF PlansFor
    <2>2. QED
      BY <2>1
  <1>13. \A g \in DOMAIN tr.entry : Cores(tr2, g) = Cores(tr, g)
    BY <1>9, SameTextCores
  <1>14. PlansUnique(tr2)
    <2>1. ASSUME NEW g \in DOMAIN tr.entry
          PROVE  PlansAreUnique(tr2, g)
      <3>1. \A c \in Cores(tr, g) : \A p, q \in PlansFor(tr, g, c.id, c.file) : p = q
        BY <1>1, PlansUniqueIs DEF PlansUnique
      <3>2. QED
        BY <1>12, <1>13, <3>1, PlansUniqueIs
    <2>2. QED
      BY <1>8, <2>1 DEF PlansUnique
  <1>15. InOrder(tr2)
    BY <1>9, <1>14, SameTextOrdered
  <1>16. PlansNameFiles(tr2)
    <2>1. \A g \in DOMAIN tr.entry : Leaves(tr2, g) = Leaves(tr, g)
      BY <1>9 DEF SameText
    <2>2. ASSUME NEW g \in DOMAIN tr.entry, NEW p \in DOMAIN tr.plan[g],
                 tr2.plan[g][p].type = "plan", tr2.plan[g][p].id = NoId
          PROVE  \/ tr2.plan[g][p].file \in Leaves(tr2, g)
                 \/ \A n \in DOMAIN tr.entry[g] : tr.entry[g][n].stem # tr2.plan[g][p].file
      <3>1. tr.plan[g][p].type = "plan" /\ tr.plan[g][p].id = NoId /\ tr2.plan[g][p].file = tr.plan[g][p].file
        BY <1>10, <2>2
      <3>2. QED
        BY <2>1, <3>1 DEF PlansNameFiles
    <2>3. QED
      BY <1>8, <1>11, <2>2 DEF PlansNameFiles
  <1>17. ASSUME NEW k, NEW m, MarkedAs(tr, k, m)
         PROVE  MarkedAs(tr2, k, m)
    <2>1. \A g \in DOMAIN tr.entry : \A c \in Cores(tr, g) : c.key = k /\ g = k.folder =>
            /\ PlansFor(tr2, g, c.id, c.file) = PlansFor(tr, g, c.id, c.file)
            /\ \A q \in PlansFor(tr, g, c.id, c.file) : /\ tr2.plan[g][q].status = tr.plan[g][q].status
                                                        /\ tr2.plan[g][q].halted = tr.plan[g][q].halted
      <3>1. \A g \in DOMAIN tr.entry : \A id, file : \A q \in PlansFor(tr, g, id, file) : q \in DOMAIN tr.plan[g]
        BY DEF PlansFor
      <3>2. ASSUME NEW g \in DOMAIN tr.entry, NEW c \in Cores(tr, g), NEW q \in PlansFor(tr, g, c.id, c.file)
            PROVE  tr2.plan[g][q].status = tr.plan[g][q].status /\ tr2.plan[g][q].halted = tr.plan[g][q].halted
        <4>1. q \in DOMAIN tr.plan[g]
          BY <3>1
        <4>2. QED
          BY <1>10, <4>1
      <3>3. QED
        BY <1>12, <3>2
    <2>2. IsTree(tr) /\ SameText(tr, tr2) /\ MarkedAs(tr, k, m)
      BY <1>1, <1>9, <1>17
    <2>3. QED
      BY ONLY <2>1, <2>2, SameTextMarked
  <1>18. \A k : KeepsEntry(tr, k) => KeepsEntry(tr2, k)
    BY <1>1, <1>9, SameTextKeeps
  <1>19. BuiltAs(tr2, f, s, body)
    BY <1>4, <1>5, <1>8 DEF BuiltAs
  <1>20. QED
    BY <1>8, <1>15, <1>16, <1>17, <1>18, <1>19

LEMMA BuildWritesSteady ==
    ASSUME Steady, NEW f \in DOMAIN tree.entry, NEW s \in DOMAIN tree.plan[f], BuildWrites(f, s), ~overlapped'
    PROVE  Steady'
  <1>1. /\ tree.plan[f][s].type = "plan" /\ tree' = [tree EXCEPT !.plan[f][s].body = edits + 1]
        /\ built' = With(built, <<f, s>>, edits + 1) /\ ~Busy
        /\ pc' = pc /\ job' = job /\ marked' = marked /\ pulled' = pulled /\ torn' = torn
    BY DEF BuildWrites
  <1>2. InOrder(tree) /\ PlansNameFiles(tree) /\ DOMAIN pc = Procs /\ DOMAIN job = Procs
    BY DEF Steady
  <1>3. /\ InOrder(tree') /\ PlansNameFiles(tree') /\ tree'.entry = tree.entry /\ BuiltAs(tree', f, s, edits + 1)
        /\ DOMAIN tree'.plan[f] = DOMAIN tree.plan[f]
        /\ \A g \in DOMAIN tree.entry : g # f => tree'.plan[g] = tree.plan[g]
        /\ \A r \in DOMAIN tree.plan[f] : r # s => tree'.plan[f][r] = tree.plan[f][r]
    BY <1>1, <1>2, BodyStep
  <1>4. \A k, m : MarkedAs(tree, k, m) => MarkedAs(tree', k, m)
    BY <1>1, <1>2, BodyStep
  <1>5. \A k : KeepsEntry(tree, k) => KeepsEntry(tree', k)
    BY <1>1, <1>2, BodyStep
  <1>6. \A q \in Procs : pc[q] = "idle" /\ pc'[q] = "idle"
    BY <1>1 DEF Busy
  <1>7. OneBusy' /\ JobsHold'
    BY <1>6 DEF OneBusy, JobsHold
  <1>8. MarksHold' /\ PulledHold'
    BY <1>1, <1>4, <1>5, <1>6 DEF Steady, MarksHold, PulledHold
  <1>9. BuiltsHold'
    <2>1. /\ DOMAIN built' = DOMAIN built \cup {<<f, s>>} /\ built'[<<f, s>>] = edits + 1
          /\ \A d \in DOMAIN built : d # <<f, s>> => built'[d] = built[d]
      BY <1>1 DEF With
    <2>2. ASSUME NEW d \in DOMAIN built, d # <<f, s>>
          PROVE  \E g \in DOMAIN tree'.entry : \E r \in DOMAIN tree'.plan[g] :
                   d = <<g, r>> /\ BuiltAs(tree', g, r, built[d])
      <3>1. \E g \in DOMAIN tree.entry : \E r \in DOMAIN tree.plan[g] : d = <<g, r>> /\ BuiltAs(tree, g, r, built[d])
        BY <1>6 DEF Steady, BuiltsHold
      <3>2. PICK g \in DOMAIN tree.entry : \E r \in DOMAIN tree.plan[g] : d = <<g, r>> /\ BuiltAs(tree, g, r, built[d])
        BY <3>1
      <3>3. PICK r \in DOMAIN tree.plan[g] : d = <<g, r>> /\ BuiltAs(tree, g, r, built[d])
        BY <3>2
      <3>4. r \in DOMAIN tree'.plan[g] /\ tree'.plan[g][r] = tree.plan[g][r]
        <4>1. CASE g = f
          BY <1>3, <2>2, <3>3, <4>1
        <4>2. CASE g # f
          BY <1>3, <4>2
        <4>3. QED
          BY <4>1, <4>2
      <3>5. QED
        BY <1>3, <3>3, <3>4 DEF BuiltAs
    <2>3. QED
      BY <1>3, <2>1, <2>2 DEF BuiltsHold
  <1>10. QED
    BY <1>1, <1>2, <1>3, <1>7, <1>8, <1>9 DEF Steady

-----------------------------------------------------------------------------
(* The theorems.  Trees are started from that are well kept.               *)

LEMMA InitSteady ==
    ASSUME TicketsInit, \A tr \in Starting : WellKept(tr)
    PROVE  Steady
  <1>1. /\ tree \in Starting /\ pc = [p \in Procs |-> "idle"] /\ job = [p \in Procs |-> NoJob]
        /\ DOMAIN marked = {} /\ DOMAIN built = {} /\ pulled = {}
    BY DEF TicketsInit
  <1>2. /\ IsTree(tree) /\ WellNamed(tree) /\ PlansNameFiles(tree) /\ Writable(tree)
        /\ \A s \in Scopes(tree) : Loads(tree, s)
    BY <1>1, TicketsAssumption DEF Starting, WellKept
  <1>3. Loads(tree, NoName)
    BY <1>2 DEF Scopes
  <1>4. (\A f \in DOMAIN tree.entry : IdsAreUnique(tree, f) /\ PlansAreUnique(tree, f)) /\ NumbersUnique(tree)
    BY <1>3 DEF Loads, Accepted, FoldersRead, NumbersUnique
  <1>5. IdsUnique(tree) /\ PlansUnique(tree)
    BY <1>4 DEF IdsUnique, PlansUnique
  <1>6. InOrder(tree)
    BY <1>1, <1>2, <1>4, <1>5 DEF InOrder, StartFindable
  <1>7. \A p \in Procs : pc[p] = "idle"
    BY <1>1
  <1>8. OneBusy /\ JobsHold
    BY <1>7, IdleJobs
  <1>9. MarksHold /\ BuiltsHold /\ PulledHold
    BY <1>1 DEF MarksHold, BuiltsHold, PulledHold
  <1>10. QED
    BY <1>1, <1>2, <1>6, <1>8, <1>9 DEF Steady

\* A step leaves the commands that overlapped overlapped.
LEMMA OverlapStays ==
    ASSUME [TicketsNext]_ticketVars, overlapped
    PROVE  overlapped'
  <1>1. \A p \in Procs : \A step, j : Starts(p, step, j) => overlapped'
    BY DEF Starts
  <1>2. ASSUME NEW p \in Procs, NEW s \in Scopes(tree), MarkRead(p, s)
        PROVE  overlapped'
    BY <1>1, <1>2 DEF MarkRead
  <1>3. ASSUME NEW p \in Procs, NEW f, NEW n, PullRead(p, f, n)
        PROVE  overlapped'
    BY <1>1, <1>3 DEF PullRead
  <1>4. ASSUME NEW p \in Procs, MarkOpen(p) \/ MarkWrite(p) \/ PullOpen(p) \/ PullWrite(p) \/ Killed(p)
        PROVE  overlapped'
    BY <1>4 DEF MarkOpen, MarkWrite, PullOpen, PullWrite, Killed, hist
  <1>5. ASSUME NEW f, NEW s, BuildWrites(f, s) \/ Refine(f, s)
        PROVE  overlapped'
    BY <1>5 DEF BuildWrites, Refine, hist
  <1>6. ASSUME NEW e, Close(e)
        PROVE  overlapped'
    BY <1>6 DEF Close, hist
  <1>7. CASE UNCHANGED ticketVars
    BY <1>7 DEF ticketVars, hist
  <1>8. QED
    BY <1>2, <1>3, <1>4, <1>5, <1>6, <1>7 DEF TicketsNext

LEMMA UnchangedSteady ==
    ASSUME Steady, UNCHANGED ticketVars
    PROVE  Steady'
  BY DEF Steady, ticketVars, hist, OneBusy, JobsHold, MarksHold, BuiltsHold, PulledHold

LEMMA InvStep ==
    ASSUME Inv, [TicketsNext]_ticketVars
    PROVE  Inv'
  <1>1. SUFFICES ASSUME ~overlapped'
                 PROVE  Steady'
    BY DEF Inv
  <1>2. Steady
    BY <1>1, OverlapStays DEF Inv
  <1>3. ASSUME NEW p \in Procs, NEW s \in Scopes(tree), MarkRead(p, s)
        PROVE  Steady'
    BY <1>1, <1>2, <1>3, MarkReadSteady
  <1>4. ASSUME NEW p \in Procs, MarkOpen(p)
        PROVE  Steady'
    BY <1>2, <1>4, MarkOpenSteady
  <1>5. ASSUME NEW p \in Procs, MarkWrite(p)
        PROVE  Steady'
    BY <1>2, <1>5, MarkWriteSteady
  <1>6. ASSUME NEW p \in Procs, NEW f \in DOMAIN tree.entry, NEW n \in DOMAIN tree.entry[f], PullRead(p, f, n)
        PROVE  Steady'
    BY <1>1, <1>2, <1>6, PullReadSteady
  <1>7. ASSUME NEW p \in Procs, PullOpen(p)
        PROVE  Steady'
    BY <1>2, <1>7, PullOpenSteady
  <1>8. ASSUME NEW p \in Procs, PullWrite(p)
        PROVE  Steady'
    BY <1>2, <1>8, PullWriteSteady
  <1>9. ASSUME NEW p \in Procs, Killed(p)
        PROVE  Steady'
    BY <1>2, <1>9, KilledSteady
  <1>10. ASSUME NEW f \in DOMAIN tree.entry, NEW s \in DOMAIN tree.plan[f], BuildWrites(f, s)
         PROVE  Steady'
    BY <1>1, <1>2, <1>10, BuildWritesSteady
  <1>11. ASSUME NEW f \in DOMAIN tree.entry, NEW s \in DOMAIN tree.leaf[f], Refine(f, s)
         PROVE  Steady'
    BY <1>2, <1>11, RefineSteady
  <1>12. ASSUME NEW e \in Epics(tree), Close(e)
         PROVE  Steady'
    BY <1>2, <1>12, CloseSteady
  <1>13. CASE UNCHANGED ticketVars
    BY <1>2, <1>13, UnchangedSteady
  <1>14. QED
    BY <1>3, <1>4, <1>5, <1>6, <1>7, <1>8, <1>9, <1>10, <1>11, <1>12, <1>13 DEF TicketsNext

\* The inductive invariant: until a command or a build's edit comes between
\* another's read and its write, the tree is in order, the one command at work
\* writes what joins its ticket and no other, what the last mark of a ticket
\* was told is in its one plan, what a build wrote is in its plan or in the text
\* a mark is about to write, and pulled leaf files say what their entries say.
THEOREM SteadyHolds ==
    ASSUME \A tr \in Starting : WellKept(tr)
    PROVE  TicketsSpec => []Inv
  <1>1. TicketsInit => Inv
    BY InitSteady DEF Inv
  <1>2. Inv /\ [TicketsNext]_ticketVars => Inv'
    BY InvStep
  <1>3. QED
    BY <1>1, <1>2, PTL DEF TicketsSpec

\* TreeStaysSound, for every set of trees that are well kept: until commands
\* overlap, a tree that loads still loads after any command, in every folder,
\* and no leaf file that a pull wrote drifts from its entry.
THEOREM TicketsStaySound ==
    ASSUME \A tr \in Starting : WellKept(tr)
    PROVE  TicketsSpec => []TreeStaysSound
  <1>1. Inv => TreeStaysSound
    <2>1. SUFFICES ASSUME Inv, ~overlapped, NEW s \in Scopes(tree)
                   PROVE  /\ Loads(tree, s)
                          /\ \A t \in Resolved(tree, s).tickets : t.key \in pulled \ torn => ~t.drift
      BY DEF TreeStaysSound, Loads
    <2>2. Steady
      BY <2>1 DEF Inv
    <2>3. Loads(tree, s)
      BY <2>1, <2>2 DEF Steady, InOrder
    <2>4. ASSUME NEW t \in Resolved(tree, s).tickets, t.key \in pulled \ torn
          PROVE  ~t.drift
      <3>1. PICK c \in AllCores(tree, s) : TicketAt(tree, s, t, c)
        BY TicketsAreCores
      <3>2. c.key = t.key /\ (t.drift <=> Drifts(tree, s, c))
        BY <3>1 DEF TicketAt
      <3>3. KeepsEntry(tree, t.key)
        BY <2>2, <2>4 DEF Steady, PulledHold
      <3>4. QED
        BY <2>1, <3>2, <3>3 DEF KeepsEntry
    <2>5. QED
      BY <2>3, <2>4
  <1>2. QED
    BY <1>1, SteadyHolds, PTL

\* MarksStand, for every set of trees that are well kept: until commands
\* overlap, and while none is at work, each ticket that no killed command left
\* torn reads as the last mark told, and each plan still has the body a build
\* wrote last.
THEOREM TicketMarksStand ==
    ASSUME \A tr \in Starting : WellKept(tr)
    PROVE  TicketsSpec => []MarksStand
  <1>1. Inv => MarksStand
    <2>1. SUFFICES ASSUME Inv, ~overlapped, ~Busy
                   PROVE  /\ \A t \in Resolved(tree, NoName).tickets :
                               t.key \in DOMAIN marked \ torn =>
                                 t.status = marked[t.key].status /\ t.halted = marked[t.key].halt
                          /\ \A d \in DOMAIN built :
                               tree.plan[d[1]][d[2]].type = "plan" /\ tree.plan[d[1]][d[2]].body = built[d]
      BY DEF MarksStand
    <2>2. Steady /\ \A p \in Procs : pc[p] = "idle"
      BY <2>1 DEF Inv, Busy
    <2>3. IsTree(tree) /\ IdsUnique(tree) /\ NoName \in Scopes(tree)
      BY <2>2 DEF Steady, InOrder, Scopes
    <2>4. ASSUME NEW t \in Resolved(tree, NoName).tickets, t.key \in DOMAIN marked \ torn
          PROVE  t.status = marked[t.key].status /\ t.halted = marked[t.key].halt
      <3> DEFINE m == marked[t.key]
      <3>1. MarkedAs(tree, t.key, m)
        BY <2>2, <2>4 DEF Steady, MarksHold
      <3> HIDE DEF m
      <3>2. PICK c \in Cores(tree, t.key.folder) :
              /\ c.key = t.key /\ PlansFor(tree, t.key.folder, c.id, c.file) # {}
              /\ \A q \in PlansFor(tree, t.key.folder, c.id, c.file) :
                   tree.plan[t.key.folder][q].status = m.status /\ tree.plan[t.key.folder][q].halted = m.halt
        BY <3>1 DEF MarkedAs
      <3>3. t.key.folder \in DOMAIN tree.entry /\ m \in MarkAs
        BY <3>1 DEF MarkedAs
      <3>4. PICK r \in Rows(tree, NoName) : TicketOf(tree, NoName, t, r)
        BY ResolvedFacts
      <3>5. PICK f \in FoldersRead(tree, NoName) : r \in FolderRows(tree, f)
        BY DEF Rows
      <3>6. f \in DOMAIN tree.entry
        BY <3>5 DEF FoldersRead
      <3>7. Core(r) \in Cores(tree, f) /\ ReadsPlan(tree, f, r)
        BY <3>5, RowFacts
      <3>8. Core(r).key = t.key /\ Core(r).id = r.id /\ Core(r).file = r.file
            /\ t.status = r.status /\ t.halted = r.halted
        BY <3>4, CoreOf DEF TicketOf
      <3>9. f = t.key.folder
        BY <2>3, <3>6, <3>7, <3>8, CoreKeys, KeyFields
      <3>10. c = Core(r)
        BY <2>3, <3>2, <3>6, <3>7, <3>8, <3>9, CoreKeys DEF IdsUnique
      <3>11. m.status \in Statuses
        BY <3>3, TicketsAssumption
      <3>12. PlansFor(tree, f, r.id, r.file) # {}
             /\ \A q \in PlansFor(tree, f, r.id, r.file) :
                  tree.plan[f][q].status = m.status /\ tree.plan[f][q].halted = m.halt
        BY <3>2, <3>8, <3>9, <3>10
      <3>13. r.status = m.status /\ r.halted = m.halt
        BY <3>7, <3>11, <3>12 DEF ReadsPlan
      <3>14. QED
        BY <3>8, <3>13 DEF m
    <2>5. ASSUME NEW d \in DOMAIN built
          PROVE  tree.plan[d[1]][d[2]].type = "plan" /\ tree.plan[d[1]][d[2]].body = built[d]
      <3>1. \E f \in DOMAIN tree.entry : \E s \in DOMAIN tree.plan[f] : d = <<f, s>> /\ BuiltAs(tree, f, s, built[d])
        BY <2>2 DEF Steady, BuiltsHold
      <3>2. QED
        BY <3>1 DEF BuiltAs
    <2>6. QED
      BY <2>4, <2>5
  <1>2. QED
    BY <1>1, SteadyHolds, PTL

\* NoStall, for every set of trees that are well kept: until commands overlap,
\* whatever `next` lists of a tree that has tickets left, one is at hand, or a
\* dropped prerequisite or an epic that was not closed is in the way.
THEOREM TicketsNeverStall ==
    ASSUME \A tr \in Starting : WellKept(tr)
    PROVE  TicketsSpec => []NoStall
  <1>1. Inv => NoStall
    <2>1. SUFFICES ASSUME Inv, ~overlapped
                   PROVE  NoStallIn(tree)
      BY DEF NoStall, NoStallIn
    <2>2. IsTree(tree) /\ IdsUnique(tree) /\ Loads(tree, NoName)
      BY <2>1 DEF Inv, Steady, InOrder, Scopes
    <2>3. QED
      BY <2>2, NothingStalls
  <1>2. QED
    BY <1>1, SteadyHolds, PTL

\* RefFinds, for every set of trees that are well kept, in which ids are given
\* where epics are listed and a leaf file without one has a name of its own:
\* until commands overlap, the reference a row carries finds that row.
THEOREM TicketRefsFind ==
    ASSUME \A tr \in Starting : WellKept(tr) /\ Findable(tr)
    PROVE  TicketsSpec => []RefFinds
  <1>1. Inv => RefFinds
    <2>1. SUFFICES ASSUME Inv, ~overlapped, NEW s \in Scopes(tree), NEW t \in InScope(Resolved(tree, s), s)
                   PROVE  Matches(tree, s, Resolved(tree, s), RowRef(tree, s, t)) = {t}
      BY DEF RefFinds
    <2>2. StartFindable
      BY DEF StartFindable
    <2>3. InOrder(tree) /\ Findable(tree)
      BY <2>1, <2>2 DEF Inv, Steady, InOrder
    <2>4. QED
      BY <2>1, <2>3, FindsIn
  <1>2. \A tr \in Starting : WellKept(tr)
    OBVIOUS
  <1>3. TicketsSpec => []Inv
    BY <1>2, SteadyHolds
  <1>4. QED
    BY <1>1, <1>3, PTL

=============================================================================
