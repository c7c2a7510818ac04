-------------------------------- MODULE Memlog --------------------------------
(***************************************************************************)
(* The append-only memory log of a skill run (_bmad/scripts/memlog.py):    *)
(* init, append and set, each a process that reads .memlog.md, edits the   *)
(* text in memory, writes it to .memlog.md.tmp, flushes, fsyncs and        *)
(* renames it over the log.  Processes may overlap, be killed at any step, *)
(* and the machine may lose power.                                         *)
(*                                                                         *)
(* The nth command started is number n: the entry it appends or the value  *)
(* it sets is n, and the temporary file it creates is inode n.  A text is  *)
(* its front matter and its entries; entry Scrap is a line no command      *)
(* wrote (the tail of a longer text written under this one, or a line cut  *)
(* short).  A text fits one buffer, so it is written by the flush.         *)
(***************************************************************************)
EXTENDS Naturals, SequencesExt

CONSTANTS
    Writers,     \* processes that run the script
    Fields,      \* front matter keys a command sets
    MaxCommands, \* commands ever started (bound of the model)
    MaxMishaps   \* kills and power losses (bound of the model)

ASSUME MemlogAssumption == MaxCommands \in Nat /\ MaxMishaps \in Nat

Commands == 1..MaxCommands
Scrap == 0

VARIABLES
    name,       \* "log", "tmp" -> the inode of that name, 0 when there is none
    medium,     \* the names as they are on the medium
    inode,      \* inode -> its text
    synced,     \* inodes whose text is on the medium
    pc,         \* process -> where it is
    cmd,        \* process -> the command it runs
    buf,        \* process -> the text it is about to write
    fd,         \* process -> the inode it has open
    starts,     \* commands started so far
    mishaps,    \* kills and power losses so far
    acked,      \* commands that answered ok, less those a power loss undid (history)
    landed,     \* those of acked whose rename is on the medium (history)
    overlapped  \* a command started while another was between its read and its
                \* rename (history)

fileVars == <<name, medium, inode, synced>>
procVars == <<pc, cmd, buf, fd>>
logHistory == <<acked, landed, overlapped>>
logVars == <<fileVars, procVars, starts, mishaps, logHistory>>

NoText == [ok |-> FALSE, meta |-> [f \in Fields |-> 0], entries |-> <<>>]
NewText == [NoText EXCEPT !.ok = TRUE]
NoCommand == [n |-> 0, kind |-> "none", field |-> 0]

\* The log as a command that reads it finds it; NoText when it is missing,
\* or has no front matter.
TextOf(i) == IF i = 0 THEN NoText ELSE inode[i]
Log == TextOf(name.log)

LogInit ==
    /\ name = [log |-> 0, tmp |-> 0] /\ medium = name
    /\ inode = [i \in Commands |-> NoText] /\ synced = {}
    /\ pc = [w \in Writers |-> "idle"] /\ cmd = [w \in Writers |-> NoCommand]
    /\ buf = [w \in Writers |-> NoText] /\ fd = [w \in Writers |-> 0]
    /\ starts = 0 /\ mishaps = 0 /\ acked = {} /\ landed = {} /\ overlapped = FALSE

\* A process between its read of the log and its rename.
Busy(w) == pc[w] \in {"open", "write", "sync", "rename"}

\* The command that starts now, and the text it makes of what it read.
Start(w, kind, f, text) ==
    /\ pc[w] = "idle" /\ starts < MaxCommands
    /\ starts' = starts + 1
    /\ cmd' = [cmd EXCEPT ![w] = [n |-> starts + 1, kind |-> kind, field |-> f]]
    /\ buf' = [buf EXCEPT ![w] = text]
    /\ pc' = [pc EXCEPT ![w] = "open"]
    /\ overlapped' = (overlapped \/ \E v \in Writers : Busy(v))
    /\ UNCHANGED <<fileVars, fd, mishaps, acked, landed>>

\* Faulty variant of StartInit: an existing log is written over.
StartInitAnyway(w) == Start(w, "init", 0, NewText)

\* cmd_init refuses when the log exists.
StartInit(w) == name.log = 0 /\ Start(w, "init", 0, NewText)

\* cmd_append and cmd_set fail on a log that is missing or has no front
\* matter (split raises).
StartAppend(w) ==
    /\ Log.ok
    /\ Start(w, "append", 0, [Log EXCEPT !.entries = Append(@, starts + 1)])

\* Faulty variant of StartSet: the field is written without the entries.
StartSetBare(w, f) == Log.ok /\ Start(w, "set", f, [NewText EXCEPT !.meta[f] = starts + 1])

StartSet(w, f) ==
    /\ Log.ok
    /\ Start(w, "set", f, [Log EXCEPT !.meta[f] = starts + 1])

\* open(tmp, "w"): creates the file, or truncates the one another command
\* left or is still writing.
OpenTmp(w) ==
    /\ pc[w] = "open" /\ pc' = [pc EXCEPT ![w] = "write"]
    /\ LET i == IF name.tmp = 0 THEN cmd[w].n ELSE name.tmp
       IN /\ fd' = [fd EXCEPT ![w] = i]
          /\ name' = [name EXCEPT !.tmp = i]
          /\ inode' = [inode EXCEPT ![i] = NoText]
          /\ synced' = synced \ {i}
    /\ UNCHANGED <<medium, cmd, buf, starts, mishaps, logHistory>>

\* What a file holds after text is written at offset 0 over old: the end of a
\* longer text stays.
Over(text, old) ==
    IF old.ok THEN {text, [text EXCEPT !.entries = Append(@, Scrap)]} ELSE {text}

WriteTmp(w) ==
    /\ pc[w] = "write" /\ pc' = [pc EXCEPT ![w] = "sync"]
    /\ \E t \in Over(buf[w], inode[fd[w]]) : inode' = [inode EXCEPT ![fd[w]] = t]
    /\ synced' = synced \ {fd[w]}
    /\ UNCHANGED <<name, medium, cmd, buf, fd, starts, mishaps, logHistory>>

\* Faulty variant of SyncTmp: the text is flushed to the system only.
FlushTmp(w) ==
    /\ pc[w] = "sync" /\ pc' = [pc EXCEPT ![w] = "rename"]
    /\ UNCHANGED <<fileVars, cmd, buf, fd, starts, mishaps, logHistory>>

SyncTmp(w) ==
    /\ pc[w] = "sync" /\ pc' = [pc EXCEPT ![w] = "rename"]
    /\ synced' = synced \cup {fd[w]}
    /\ UNCHANGED <<name, medium, inode, cmd, buf, fd, starts, mishaps, logHistory>>

\* os.replace(tmp, path): fails when another command renamed the file first.
RenameTmp(w) ==
    /\ pc[w] = "rename"
    /\ IF name.tmp = 0
       THEN pc' = [pc EXCEPT ![w] = "idle"] /\ UNCHANGED name
       ELSE pc' = [pc EXCEPT ![w] = "ack"] /\ name' = [log |-> name.tmp, tmp |-> 0]
    /\ UNCHANGED <<medium, inode, synced, cmd, buf, fd, starts, mishaps, logHistory>>

Ack(w) ==
    /\ pc[w] = "ack" /\ pc' = [pc EXCEPT ![w] = "idle"]
    /\ acked' = acked \cup {cmd[w]}
    /\ landed' = IF medium.log = name.log THEN acked' ELSE landed
    /\ UNCHANGED <<fileVars, cmd, buf, fd, starts, mishaps, overlapped>>

Killed(w) ==
    /\ pc[w] # "idle" /\ pc' = [pc EXCEPT ![w] = "idle"]
    /\ mishaps < MaxMishaps /\ mishaps' = mishaps + 1
    /\ UNCHANGED <<fileVars, cmd, buf, fd, starts, logHistory>>

\* The system writes the names, or the text of a file, when it sees fit; the
\* names are journalled, so they reach the medium together.
NamesReachDisk ==
    /\ medium # name /\ medium' = name
    /\ landed' = acked
    /\ UNCHANGED <<name, inode, synced, procVars, starts, mishaps, acked, overlapped>>

TextReachesDisk(i) ==
    /\ i \notin synced /\ inode[i].ok /\ synced' = synced \cup {i}
    /\ UNCHANGED <<name, medium, inode, procVars, starts, mishaps, logHistory>>

\* What is left of a text that was not on the medium: all, a part, nothing.
Remains(text) ==
    {text, NoText, [text EXCEPT !.entries = IF @ = <<>> THEN @ ELSE Append(Front(@), Scrap)]}

\* The effect of command c is in text t: its entry is there, the field it set
\* holds its value or a later one.
In(c, t) ==
    /\ t.ok
    /\ c.kind = "append" => Contains(t.entries, c.n)
    /\ c.kind = "set" => t.meta[c.field] >= c.n

PowerLoss ==
    /\ mishaps < MaxMishaps /\ mishaps' = mishaps + 1
    /\ name' = medium
    /\ \E left \in [Commands \ synced -> UNION {Remains(inode[i]) : i \in Commands}] :
         /\ \A i \in DOMAIN left : left[i] \in Remains(inode[i])
         /\ inode' = [i \in Commands |-> IF i \in synced THEN inode[i] ELSE left[i]]
    /\ synced' = Commands
    /\ pc' = [w \in Writers |-> "idle"]
    /\ acked' = landed
    /\ UNCHANGED <<medium, cmd, buf, fd, starts, landed, overlapped>>

LogNext ==
    \/ \E w \in Writers :
         \/ StartInit(w) \/ StartAppend(w) \/ \E f \in Fields : StartSet(w, f)
         \/ OpenTmp(w) \/ WriteTmp(w) \/ SyncTmp(w) \/ RenameTmp(w) \/ Ack(w)
         \/ Killed(w)
    \/ NamesReachDisk \/ \E i \in Commands : TextReachesDisk(i)
    \/ PowerLoss

LogSpec == LogInit /\ [][LogNext]_logVars

-----------------------------------------------------------------------------
(***************************************************************************)
(* Properties.  Each holds while no two commands overlapped; the script    *)
(* takes no lock and every command uses one temporary name, so two that do *)
(* can lose an entry, tear the text or fail (README, "Where the code and   *)
(* its words part").                                                       *)
(***************************************************************************)

\* "every write goes to a temp file, is flushed and fsync'd, then atomically
\* renamed over the target, so a crash never leaves a half-written entry"
\* (memlog.py:34): whatever is killed and whenever the power goes, the log is
\* a text some command rendered.
NeverHalfWritten ==
    name.log # 0 /\ ~overlapped => Log.ok /\ ~Contains(Log.entries, Scrap)

\* "Entries land at the end, in the order they happen.  Nothing is ever
\* inserted backward, reordered, edited, or removed." (memlog.py:20): the
\* entries before a step are a prefix of those after it; only a power loss
\* takes back the last ones, and never more than it must.
AppendOnly ==
    [][~overlapped' =>
         \/ IsPrefix(Log.entries, Log'.entries)
         \/ PowerLoss /\ IsStrictPrefix(Log'.entries, Log.entries)
                      /\ Log' = TextOf(medium.log)]_logVars

\* "a crash never leaves": a command that answered ok is in the log, and
\* stays there through later commands and kills; its entry follows those of
\* the commands acknowledged before it.
AckedIsKept ==
    ~overlapped =>
      /\ \A c \in acked : In(c, Log)
      /\ \A i, j \in DOMAIN Log.entries : i < j => Log.entries[i] < Log.entries[j]

=============================================================================
