----------------------------- MODULE Knowledge -----------------------------
(***************************************************************************)
(* What knowledge.py reports of the module records it found: documents    *)
(* and topics, each from the record's own folder.  The migrations, the     *)
(* texts and the reasons why one cannot be read are left out.              *)
(***************************************************************************)
EXTENDS Installation

CONSTANT Topics    \* the paths help/*.md, HelpName left out

ASSUME KnowledgeAssumption == HelpName \notin Topics

Recorded(disk) == {ScanRecord(disk, low) : low \in Range(Fold)} \ {NoName}

\* read_document: there, inside the folder, a plain file and not too large.
ReadsAs(f, path) == path \in DOMAIN f.files /\ f.files[path] = "fine"

\* collect: help.md covers the module without an entry, and comes first.
EntriesOf(f) ==
    IF "knowledge" \in f.wrong THEN <<>>
    ELSE (IF HelpName \in DOMAIN f.files THEN <<[path |-> HelpName, skills |-> NoList, form |-> "fine"]>>
          ELSE <<>>) \o f.knowledge

\* record_document: an entry without a safe path or with wrong skills, a path
\* that is a document already and a file that does not read are problems.
Document(file, n, e) ==
    [path |-> e.path, skills |-> IF e.skills = NoList THEN Listed(file, n) ELSE e.skills]
Refused(sum, e) == e.path = NoName \/ e.form = "wrong" \/ \E d \in sum.documents : d.path = e.path
RecordDocument(sum, file, n, e) ==
    IF Refused(sum, e) THEN [sum EXCEPT !.problems = @ \cup {e}]
    ELSE IF ~ReadsAs(file, e.path) THEN [sum EXCEPT !.unread = @ \cup {e.path}]
    ELSE [sum EXCEPT !.documents = @ \cup {Document(file, n, e)}]

Documents(file, n) ==
    LET entries == EntriesOf(file)
        sum[i \in 0..Len(entries)] ==
          IF i = 0 THEN [documents |-> {}, problems |-> {}, unread |-> {}]
          ELSE RecordDocument(sum[i - 1], file, n, entries[i])
    IN sum[Len(entries)]

\* Faulty variant of TopicsOf: a document is listed as a topic again.
TopicsOfAll(file, documents) == {p \in Topics : ReadsAs(file, p)}

\* module_topics: every other file that reads.
TopicsOf(file, documents) == {p \in Topics : ReadsAs(file, p)} \ {d.path : d \in documents}

\* installed_skills: those of a document with a folder in some root.
InstalledOf(disk, document) == {n \in document.skills : n \in Names /\ Folder(disk, n) # NoPlace}

=============================================================================
