------------------------------ MODULE Changelog ------------------------------
(***************************************************************************)
(* CHANGELOG.md as scripts/check_changelog.py reads it: its `##` sections, *)
(* newest first, each with a version and the entries under it.             *)
(*                                                                         *)
(* An entry is [by, kind]: the commit that wrote it, and whether it is     *)
(* "cited" (it has a pull-request number), "plain" (it has none, but a     *)
(* `###` heading above it) or "loose" (neither).  A day is left out.       *)
(***************************************************************************)
EXTENDS Integers, SequencesExt

Unreleased == 0
Odd == -1                  \* a heading in no documented form

Cited(section) == {e.by : e \in {f \in section.entries : f.kind = "cited"}}
Entries(log) == UNION {section.entries : section \in Range(log)}
Released(log) == {log[i] : i \in {j \in DOMAIN log : log[j].version # Unreleased}}

\* check: [Unreleased] once and first, versions newest first, and no number
\* both there and in a version section.
Conforms(log) ==
    /\ log # <<>>
    /\ \A i \in DOMAIN log : log[i].version = Unreleased <=> i = 1
    /\ \A i \in 2..Len(log) : /\ log[i].version # Odd
                              /\ i < Len(log) => log[i].version > log[i + 1].version
                              /\ Cited(log[1]) \cap Cited(log[i]) = {}

\* Faulty variant of GuardPasses: what is left under [Unreleased] is not looked at.
GuardPassesBare(log, v) == Conforms(log) /\ \E s \in Released(log) : s.version = v

\* check --require-released: the section is there and [Unreleased] has neither
\* a heading nor a number left.
GuardPasses(log, v) ==
    /\ Conforms(log)
    /\ \E s \in Released(log) : s.version = v
    /\ \A e \in log[1].entries : e.kind = "loose"

\* fold: refused unless the file conforms, the version is new and newest and
\* there is something to fold.
MayFold(log, v) ==
    /\ Conforms(log) /\ log[1].entries # {}
    /\ \A s \in Released(log) : v > s.version

\* Faulty variant of Folded: [Unreleased] keeps what was folded.
FoldedLeaving(log, v) ==
    <<Head(log), [version |-> v, entries |-> Head(log).entries]>> \o Tail(log)

Folded(log, v) ==
    <<[version |-> Unreleased, entries |-> {}], [version |-> v, entries |-> Head(log).entries]>> \o Tail(log)

=============================================================================
