------------------------------- MODULE Release -------------------------------
(***************************************************************************)
(* From a pull request to crates.io: commits on main and on one other      *)
(* branch, each with its changelog; the preparation of a version with      *)
(* check_changelog.py --fold or by hand; the tag; and the release workflow *)
(* of the tag (.github/workflows/release.yml), which may fail anywhere, be *)
(* run again, or find its tag moved.                                       *)
(***************************************************************************)
EXTENDS Changelog, GitEvidence

CONSTANTS
    Versions,      \* those that are ever prepared, positive
    Kinds,         \* the kinds of entries that are written
    Crates,        \* in the order they are published in
    MaxCommits,    \* commits ever made (bound of the model)
    MaxPushes,     \* tags ever pushed or moved (bound of the model)
    MaxFailures    \* steps of the workflow that fail (bound of the model)

ASSUME ReleaseAssumption ==
    /\ Versions \subseteq Nat /\ 0 \notin Versions
    /\ Crates \in Seq(STRING) /\ Crates # <<>> /\ IsInjective(Crates)

VARIABLES
    history,       \* commit -> [parents, own, log, crate, entry]
    main, side,    \* the heads of the branches, side 0 when there is none
    tags,          \* version -> the commit its tag is on, 0 before
    run,           \* version -> where its workflow is, [at, crate]: "none", "guard",
                   \* "failed", "done", or "publish" and the crate it publishes next
    crates,        \* what is on crates.io: [name, version, from]
    pushes, failures,
    byHand,        \* a version was prepared without --fold (history)
    moved          \* a tag was moved (history)

vars == <<history, main, side, tags, run, crates, pushes, failures, byHand, moved>>
releaseVars == <<tags, run, crates, pushes, failures, moved>>

NoEntry == "none"

At(where) == [at |-> where, crate |-> 1]

\* The first commit: version 0 of every crate, one entry under [Unreleased].
Init ==
    /\ history = <<[parents |-> <<>>, own |-> TRUE, crate |-> 0, entry |-> "cited",
                    log |-> <<[version |-> Unreleased, entries |-> {[by |-> 1, kind |-> "cited"]}]>>]>>
    /\ main = 1 /\ side = 0
    /\ tags = [v \in Versions |-> 0] /\ run = [v \in Versions |-> At("none")]
    /\ crates = {} /\ pushes = 0 /\ failures = 0 /\ byHand = FALSE /\ moved = FALSE

Log(c) == history[c].log
New == Len(history) + 1

\* A workflow reads nothing but its tag's commit, so that nothing is lost if
\* the repository rests while one is under way (bound of the model).
Resting == \A v \in Versions : run[v].at \in {"none", "failed", "done"}
Commit(c) == Resting /\ Len(history) < MaxCommits /\ history' = Append(history, c)

-----------------------------------------------------------------------------
(* The repository.                                                         *)

Insert(log, entry, i) == [log EXCEPT ![i].entries = @ \cup {entry}]
UnreleasedAt(log) == SelectInSeq(log, LAMBDA s : s.version = Unreleased)

\* A pull request's work, with its entry.
Work(head, kind) ==
    Commit([parents |-> <<head>>, own |-> TRUE, crate |-> history[head].crate, entry |-> kind,
            log |-> Insert(Log(head), [by |-> New, kind |-> kind], UnreleasedAt(Log(head)))])

WorkOnMain(kind) ==
    /\ Work(main, kind) /\ main' = New /\ UNCHANGED <<side, byHand, releaseVars>>
Branch(kind) ==
    /\ side = 0 /\ Work(main, kind) /\ side' = New /\ UNCHANGED <<main, byHand, releaseVars>>
WorkOnSide(kind) ==
    /\ side # 0 /\ Work(side, kind) /\ side' = New /\ UNCHANGED <<main, byHand, releaseVars>>

\* git merges the changelogs: what the branch wrote goes to [Unreleased], or
\* stays with the lines around it, which a version may have taken since.
MergedLog(head, other) ==
    LET past == Histories(history)
        new == Entries(Log(other)) \ Entries(Log(head))
        since == {i \in DOMAIN Log(head) : Log(head)[i].version \notin {s.version : s \in Range(Log(other))}}
    IN {[Log(head) EXCEPT ![i].entries = @ \cup new] : i \in since \cup {UnreleasedAt(Log(head))}}

Merge(head, other, own) ==
    \E log \in MergedLog(head, other) :
      Commit([parents |-> <<head, other>>, own |-> own, crate |-> history[head].crate, entry |-> NoEntry, log |-> log])

MergeSide(own) ==
    /\ side # 0 /\ Merge(main, side, own) /\ main' = New /\ side' = 0 /\ UNCHANGED <<byHand, releaseVars>>

\* The branch catches up with main; the sections are main's.
CatchUp(own) ==
    /\ side # 0 /\ main \notin Histories(history)[side]
    /\ \E log \in MergedLog(main, side) :
         Commit([parents |-> <<side, main>>, own |-> own, crate |-> history[main].crate, entry |-> NoEntry, log |-> log])
    /\ side' = New /\ UNCHANGED <<main, byHand, releaseVars>>

\* The commit that prepares a version; the crates' version is raised to it,
\* or was forgotten.
Prepare(v, log) ==
    /\ \E crate \in {v, history[main].crate} :
         Commit([parents |-> <<main>>, own |-> TRUE, crate |-> crate, entry |-> NoEntry, log |-> log])
    /\ main' = New /\ UNCHANGED <<side, releaseVars>>

Fold(v) ==
    /\ MayFold(Log(main), v) /\ Prepare(v, Folded(Log(main), v)) /\ UNCHANGED byHand

\* By hand, the section goes above or below [Unreleased], which may keep what
\* was copied, or a block of another form goes above it; nothing is lost.
PrepareByHand(v) ==
    LET log == Log(main)
        at == UnreleasedAt(log)
    IN /\ v \notin {s.version : s \in Range(log)} /\ byHand' = TRUE
       /\ \/ \E taken \in SUBSET log[at].entries, kept \in BOOLEAN, place \in {at, at + 1} :
               Prepare(v, InsertAt([log EXCEPT ![at].entries = IF kept THEN @ ELSE @ \ taken],
                                   place, [version |-> v, entries |-> taken]))
          \/ Prepare(v, InsertAt(log, at, [version |-> Odd, entries |-> {}]))

-----------------------------------------------------------------------------
(* The tag and its workflow.                                               *)

Goes(v, where) == run' = [run EXCEPT ![v] = where]

Push(v) ==
    /\ Resting /\ pushes < MaxPushes /\ pushes' = pushes + 1
    /\ tags' = [tags EXCEPT ![v] = main] /\ Goes(v, At("guard"))

\* A tag for each version, in order.
PushTag(v) ==
    /\ tags[v] = 0 /\ \A u \in Versions : u < v => tags[u] # 0
    /\ Push(v)
    /\ UNCHANGED <<history, main, side, crates, failures, byHand, moved>>

\* After a failure: the same workflow again, unless the guard would refuse the
\* same file once more, or the tag on another commit.
RunAgain(v) ==
    /\ Resting /\ run[v].at = "failed" /\ GuardPasses(Log(tags[v]), v) /\ Goes(v, At("guard"))
    /\ UNCHANGED <<history, main, side, tags, crates, pushes, failures, byHand, moved>>
MoveTag(v) ==
    /\ run[v].at = "failed" /\ tags[v] # main /\ Push(v) /\ moved' = TRUE
    /\ UNCHANGED <<history, main, side, crates, failures, byHand>>

Guard(v) ==
    /\ run[v].at = "guard"
    /\ Goes(v, At(IF GuardPasses(Log(tags[v]), v) THEN "publish" ELSE "failed"))
    /\ UNCHANGED <<history, main, side, tags, crates, pushes, failures, byHand, moved>>

OnIndex(name, version) == \E p \in crates : p.name = name /\ p.version = version

\* What follows crate i in the workflow.
After(i) == IF i = Len(Crates) THEN At("done") ELSE [at |-> "publish", crate |-> i + 1]

\* Faulty variant of Publish: a crate that is there already ends the run.
PublishOnce(v) ==
    LET i == run[v].crate
        version == history[tags[v]].crate
    IN /\ run[v].at = "publish"
       /\ crates' = crates \cup {[name |-> Crates[i], version |-> version, from |-> tags[v]]}
       /\ Goes(v, IF OnIndex(Crates[i], version) THEN At("done") ELSE After(i))
       /\ UNCHANGED <<history, main, side, tags, pushes, failures, byHand, moved>>

\* publish_one: what exists is skipped.
Publish(v) ==
    LET i == run[v].crate
        version == history[tags[v]].crate
    IN /\ run[v].at = "publish"
       /\ crates' = IF OnIndex(Crates[i], version) THEN crates
                    ELSE crates \cup {[name |-> Crates[i], version |-> version, from |-> tags[v]]}
       /\ Goes(v, After(i))
       /\ UNCHANGED <<history, main, side, tags, pushes, failures, byHand, moved>>

\* The build, the tests, or the third attempt to publish a crate fail.
Fails(v) ==
    /\ run[v].at \in {"guard", "publish"}
    /\ failures < MaxFailures /\ failures' = failures + 1
    /\ Goes(v, At("failed")) /\ UNCHANGED <<history, main, side, tags, crates, pushes, byHand, moved>>

Next ==
    \/ \E kind \in Kinds : WorkOnMain(kind) \/ Branch(kind) \/ WorkOnSide(kind)
    \/ \E own \in BOOLEAN : MergeSide(own) \/ CatchUp(own)
    \/ \E v \in Versions :
         \/ Fold(v) \/ PrepareByHand(v)
         \/ PushTag(v) \/ RunAgain(v) \/ MoveTag(v) \/ Guard(v) \/ Publish(v) \/ Fails(v)

Spec == Init /\ [][Next]_vars

-----------------------------------------------------------------------------
\* What is said of the last commit was said of the others when they were last.
Latest == Len(history)
Passed(v) == run[v].at \in {"publish", "done"}

\* Once a tag is past the guard, every entry with a number or under a heading
\* that any of its commits wrote stands in a version section, however branches
\* were merged and versions prepared ("a tag may only ship once [Unreleased]
\* has been folded", check_changelog.py).
TagsReportTheirEntries ==
    \A v \in Versions : Passed(v) =>
      \A c \in Histories(history)[tags[v]] :
        history[c].entry \in {"cited", "plain"} =>
          \E s \in Released(Log(tags[v])) : [by |-> c, kind |-> history[c].entry] \in s.entries

\* Whatever file fold accepts, the file it writes passes the guard for its
\* version and has every entry, so that the check after the write never fails;
\* and while all versions are prepared with it no entry stands in two sections
\* ("conforming by construction").
FoldsConform ==
    LET log == Log(Latest)
    IN /\ \A v \in Versions : MayFold(log, v) =>
            GuardPasses(Folded(log, v), v) /\ Entries(Folded(log, v)) = Entries(log)
       /\ byHand \/ \A i, j \in DOMAIN log : i # j => log[i].entries \cap log[j].entries = {}

\* A crate is published after those it may depend on; all crates of a version
\* come from one commit and a workflow that is done has published them all,
\* whatever failed and ran again, unless a tag was moved or is on a commit with
\* another version's crates (publish_one).
CratesComeTogether ==
    LET own == \A v \in Versions : tags[v] # 0 => history[tags[v]].crate = v
    IN /\ \A p \in crates, i, j \in DOMAIN Crates :
            i < j /\ p.name = Crates[j] => OnIndex(Crates[i], p.version)
       /\ ~own \/ moved \/ \A p, q \in crates : p.version = q.version => p.from = q.from
       /\ \A v \in Versions : run[v].at = "done" =>
            \A name \in Range(Crates) : OnIndex(name, history[tags[v]].crate)

\* A range counts every commit once, and its files the lines of the commits
\* that are no merges.  From an earlier commit of the same line, the merges it
\* measured and the other commits of that line together add exactly what the
\* range adds: each restates what it brought in, so the sums are not to be
\* added up (git_evidence.py).
EvidenceAddsUp ==
    LET past == Histories(history)
        line == Spine(history, Latest)
    IN \A from \in past[Latest] :
      LET range == past[Latest] \ past[from]
          e == Evidence(history, from, Latest)
          merged == {c \in range : IsMerge(history, c)}
      IN /\ e.commits = range /\ e.measured \subseteq merged
         /\ e.added + Cardinality({c \in merged : history[c].own}) = Cardinality(Lines(history, range))
         /\ from \in line =>
              e.mergeAdded + Cardinality(Lines(history, (range \cap line) \ merged)) = Cardinality(Lines(history, range))

=============================================================================
