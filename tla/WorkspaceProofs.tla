--------------------------- MODULE WorkspaceProofs ---------------------------
(***************************************************************************)
(* Proofs about what the skills keep in a project: the memory log (Memlog) *)
(* and the _bmad folder (BmadRuntime), for any processes, fields, modules, *)
(* keys, folders, number of commands and of mishaps.                       *)
(*                                                                         *)
(* Memlog: while no two commands overlapped the log is never torn, it only *)
(* grows, and it holds what was acknowledged.  The one command between its *)
(* read and its rename edited the log as it still is (Prepared), it writes *)
(* a file that is neither the log nor the log on the medium (Stored), and  *)
(* it renames it only when it is on the medium, so that a power loss finds *)
(* a log that is whole and an earlier stage of this one (Behind).          *)
(*                                                                         *)
(* BmadRuntime: what a user edited is never destroyed.  What a setup will  *)
(* move in has every value of the user that _bmad has, or had when it was  *)
(* moved aside (Tended), since the plan undoes nothing that is there       *)
(* (Spares); so whoever stops or dies, the value is in _bmad or in a folder*)
(* that nobody is about to delete (Safe).  What status says of a tree and  *)
(* what setup does to one follow from its shape alone.  A calm setup plans *)
(* for the tree it will replace and leaves one that owes nothing           *)
(* (Settling).  A render that writes has, with what it has still to write, *)
(* the files of a whole generation, and setups carry every generation a    *)
(* caller follows from _bmad to the copy and back (SnapInv).               *)
(***************************************************************************)
EXTENDS Memlog, BmadRuntime, SequenceTheorems, WellFoundedInduction, TLAPS


\* A text made of the first n commands.
GoodText(t, n) ==
    /\ t \in [ok : {TRUE}, meta : [Fields -> 0..n], entries : Seq(1..n)]
    /\ \A i, j \in 1..Len(t.entries) : i < j => t.entries[i] < t.entries[j]

\* The text u is what command c makes of the text t.
Edited(c, t, u) ==
    \/ c.kind = "init" /\ t = NoText /\ u = NewText
    \/ c.kind = "append" /\ t.ok /\ u = [t EXCEPT !.entries = Append(@, c.n)]
    \/ /\ c.kind = "set" /\ t.ok /\ c.field \in Fields
       /\ u = [t EXCEPT !.meta[c.field] = c.n]

Typed ==
    /\ starts \in 0..MaxCommands
    /\ name \in [log : 0..starts, tmp : 0..starts]
    /\ medium \in [log : 0..starts, tmp : 0..starts]
    /\ inode = [i \in Commands |-> inode[i]]
    /\ synced \subseteq Commands
    /\ pc \in [Writers -> {"idle", "open", "write", "sync", "rename", "ack"}]
    /\ cmd = [w \in Writers |-> cmd[w]]
    /\ \A w \in Writers : cmd[w].n \in 0..starts
    /\ buf = [w \in Writers |-> buf[w]]
    /\ fd = [w \in Writers |-> fd[w]]

\* Both logs are whole and on the medium; a temporary file is neither.
Stored ==
    /\ \A l \in {name.log, medium.log} : l # 0 => l \in synced /\ GoodText(inode[l], starts)
    /\ name.tmp # 0 => name.tmp # name.log /\ name.tmp # medium.log
    /\ medium.tmp # 0 => medium.tmp # medium.log

\* What is known of the process that is between its read and its rename.
Prepared(w) ==
    /\ cmd[w].n = starts /\ starts # 0
    /\ Edited(cmd[w], Log, buf[w])
    /\ name.log # 0 => GoodText(Log, starts - 1)
    /\ pc[w] = "open" => starts \notin {name.log, name.tmp, medium.log}
    /\ pc[w] # "open" => fd[w] = name.tmp /\ name.tmp # 0
    /\ pc[w] = "write" => inode[fd[w]] = NoText
    /\ pc[w] \in {"sync", "rename"} => inode[fd[w]] = buf[w]
    /\ pc[w] = "rename" => fd[w] \in synced

Alone ==
    /\ \A v, w \in Writers : Busy(v) /\ Busy(w) => v = w
    /\ \A w \in Writers : Busy(w) => Prepared(w)

\* The log on the medium is an earlier stage of the log.
Behind == IsPrefix(TextOf(medium.log).entries, Log.entries)

Kept ==
    /\ \A c \in acked : c.n \in 0..starts /\ In(c, Log)
    /\ \A c \in landed : c.n \in 0..starts /\ In(c, TextOf(medium.log))
    /\ \A w \in Writers : pc[w] = "ack" => In(cmd[w], Log)

Sound == Typed /\ Stored /\ Alone /\ Behind /\ Kept

\* The inductive invariant.
IInv == overlapped \/ Sound

-----------------------------------------------------------------------------
\* A prefix, position by position.
LEMMA PrefixPointwise ==
    ASSUME NEW S, NEW s \in Seq(S), NEW t \in Seq(S)
    PROVE  IsPrefix(s, t) <=> Len(s) <= Len(t) /\ \A i \in 1..Len(s) : s[i] = t[i]
  <1>1. CASE Len(s) <= Len(t)
    <2>1. /\ SubSeq(s, 1, Len(s)) = [i \in 1..Len(s) |-> s[i]]
          /\ SubSeq(t, 1, Len(s)) = [i \in 1..Len(s) |-> t[i]]
      BY <1>1
    <2>2. QED
      BY <1>1, <2>1 DEF IsPrefix
  <1>2. QED
    BY <1>1 DEF IsPrefix

LEMMA PrefixFacts ==
    ASSUME NEW S, NEW s \in Seq(S), NEW t \in Seq(S), NEW u \in Seq(S), NEW e \in S
    PROVE  /\ IsPrefix(s, s) /\ IsPrefix(<<>>, s)
           /\ IsPrefix(s, Append(s, e))
           /\ IsPrefix(s, t) /\ IsPrefix(t, u) => IsPrefix(s, u)
  <1>1. \A a, b \in Seq(S) :
          IsPrefix(a, b) <=> Len(a) <= Len(b) /\ \A i \in 1..Len(a) : a[i] = b[i]
    BY PrefixPointwise
  <1>2. IsPrefix(s, s) /\ IsPrefix(<<>>, s)
    <2>1. <<>> \in Seq(S) /\ Len(<<>>) = 0 /\ Len(s) \in Nat
      OBVIOUS
    <2>2. IsPrefix(s, s) <=> Len(s) <= Len(s) /\ \A i \in 1..Len(s) : s[i] = s[i]
      BY <1>1, Zenon
    <2>3. IsPrefix(<<>>, s) <=>
            Len(<<>>) <= Len(s) /\ \A i \in 1..Len(<<>>) : <<>>[i] = s[i]
      BY <1>1, <2>1, Zenon
    <2>4. \A i \in 1..Len(<<>>) : <<>>[i] = s[i]
      BY <2>1
    <2>5. QED
      BY <2>1, <2>2, <2>3, <2>4
  <1>3. IsPrefix(s, Append(s, e))
    <2>1. /\ Append(s, e) \in Seq(S) /\ Len(s) \in Nat
          /\ Len(Append(s, e)) = Len(s) + 1
          /\ \A i \in 1..Len(s) : Append(s, e)[i] = s[i]
      BY AppendProperties
    <2>2. IsPrefix(s, Append(s, e)) <=>
            /\ Len(s) <= Len(Append(s, e))
            /\ \A i \in 1..Len(s) : s[i] = Append(s, e)[i]
      BY <1>1, <2>1, Zenon
    <2>3. QED
      BY <2>1, <2>2
  <1>4. ASSUME IsPrefix(s, t), IsPrefix(t, u)
        PROVE  IsPrefix(s, u)
    <2>1. /\ Len(s) <= Len(t) /\ \A i \in 1..Len(s) : s[i] = t[i]
          /\ Len(t) <= Len(u) /\ \A i \in 1..Len(t) : t[i] = u[i]
      BY <1>1, <1>4
    <2>2. Len(s) \in Nat /\ Len(t) \in Nat /\ Len(u) \in Nat
      OBVIOUS
    <2>3. Len(s) <= Len(u) /\ \A i \in 1..Len(s) : s[i] = u[i]
      BY <2>1, <2>2
    <2>4. QED
      BY <1>1, <2>3
  <1>5. QED
    BY <1>2, <1>3, <1>4

\* The parts of a good text; it stays good when more commands start.
LEMMA GoodFacts ==
    ASSUME NEW n \in Nat, NEW t, GoodText(t, n)
    PROVE  /\ t.ok = TRUE /\ t # NoText
           /\ t.meta \in [Fields -> 0..n]
           /\ t.entries \in Seq(1..n) /\ t.entries \in Seq(Nat)
           /\ t = [ok |-> t.ok, meta |-> t.meta, entries |-> t.entries]
           /\ GoodText(t, n + 1)
  <1>1. /\ t \in [ok : {TRUE}, meta : [Fields -> 0..n], entries : Seq(1..n)]
        /\ \A i, j \in 1..Len(t.entries) : i < j => t.entries[i] < t.entries[j]
    BY DEF GoodText
  <1>2. /\ t.ok = TRUE /\ t.meta \in [Fields -> 0..n] /\ t.entries \in Seq(1..n)
        /\ t = [ok |-> t.ok, meta |-> t.meta, entries |-> t.entries]
    BY <1>1
  <1>3. t # NoText
    BY <1>2 DEF NoText
  <1>4. t.entries \in Seq(1..(n + 1)) /\ t.entries \in Seq(Nat)
    BY <1>2
  <1>5. t.meta \in [Fields -> 0..(n + 1)]
    BY <1>2
  <1>6. t \in [ok : {TRUE}, meta : [Fields -> 0..(n + 1)], entries : Seq(1..(n + 1))]
    BY <1>2, <1>4, <1>5
  <1>7. QED
    BY <1>1, <1>2, <1>3, <1>4, <1>6 DEF GoodText

\* What a command makes of a good text, or of none, is good; it extends what
\* was there, and keeps the effects of the commands before.
LEMMA EditFacts ==
    ASSUME NEW c, NEW t, NEW u, c.n \in Nat \ {0},
           t = NoText \/ GoodText(t, c.n - 1), Edited(c, t, u)
    PROVE  /\ GoodText(u, c.n)
           /\ t.entries \in Seq(Nat) /\ IsPrefix(t.entries, u.entries)
           /\ In(c, u)
           /\ \A d : d.n \in 0..c.n /\ In(d, t) => In(d, u)
  <1> DEFINE n == c.n
  <1>1. CASE c.kind = "init" /\ t = NoText /\ u = NewText
    <2>1. /\ u = [ok |-> TRUE, meta |-> [f \in Fields |-> 0], entries |-> <<>>]
          /\ t = [ok |-> FALSE, meta |-> [f \in Fields |-> 0], entries |-> <<>>]
      BY <1>1 DEF NewText, NoText
    <2>2. u \in [ok : {TRUE}, meta : [Fields -> 0..n], entries : Seq(1..n)]
      BY <2>1
    <2>3. GoodText(u, n)
      BY <2>1, <2>2 DEF GoodText
    <2>4. t.entries \in Seq(Nat) /\ IsPrefix(t.entries, u.entries)
      <3>1. <<>> \in Seq(Nat) /\ 0 \in Nat
        OBVIOUS
      <3>2. IsPrefix(<<>>, <<>>)
        BY <3>1, PrefixFacts
      <3>3. QED
        BY <2>1, <3>1, <3>2
    <2>5. QED
      BY <1>1, <2>1, <2>3, <2>4 DEF In
  <1>2. CASE c.kind # "init"
    <2>1. t.ok /\ GoodText(t, n - 1)
      BY <1>2 DEF Edited, NoText
    <2>2. /\ t.ok = TRUE /\ t.meta \in [Fields -> 0..(n - 1)]
          /\ t.entries \in Seq(1..(n - 1)) /\ t.entries \in Seq(Nat)
          /\ t = [ok |-> t.ok, meta |-> t.meta, entries |-> t.entries]
          /\ GoodText(t, n)
      <3>1. n - 1 \in Nat /\ (n - 1) + 1 = n
        OBVIOUS
      <3>2. QED
        BY ONLY <2>1, <3>1, GoodFacts
    <2>3. \A i, j \in 1..Len(t.entries) : i < j => t.entries[i] < t.entries[j]
      BY <2>1 DEF GoodText
    <2>4. CASE c.kind = "append"
      <3>1. u = [ok |-> TRUE, meta |-> t.meta, entries |-> Append(t.entries, n)]
        BY <2>2, <2>4 DEF Edited
      <3>2. t.entries \in Seq(1..n) /\ n \in 1..n /\ t.meta \in [Fields -> 0..n]
        BY <2>2
      <3>3. /\ u.entries \in Seq(1..n)
            /\ Len(u.entries) = Len(t.entries) + 1
            /\ \A i \in 1..Len(t.entries) : u.entries[i] = t.entries[i]
            /\ u.entries[Len(t.entries) + 1] = n
        BY <3>1, <3>2, AppendProperties
      <3>4. \A i, j \in 1..Len(u.entries) : i < j => u.entries[i] < u.entries[j]
        <4>1. \A i \in 1..Len(t.entries) : t.entries[i] \in 1..(n - 1)
          BY <2>2
        <4>2. Len(t.entries) \in Nat
          BY <2>2
        <4>3. SUFFICES ASSUME NEW i \in 1..Len(u.entries), NEW j \in 1..Len(u.entries), i < j
                       PROVE  u.entries[i] < u.entries[j]
          OBVIOUS
        <4>4. i \in 1..Len(t.entries) /\ u.entries[i] = t.entries[i]
          BY <3>3, <4>2, <4>3
        <4>5. CASE j = Len(t.entries) + 1
          BY <3>3, <4>1, <4>4, <4>5
        <4>6. CASE j # Len(t.entries) + 1
          <5>1. j \in 1..Len(t.entries) /\ u.entries[j] = t.entries[j]
            BY <3>3, <4>2, <4>6
          <5>2. QED
            BY <2>3, <4>3, <4>4, <5>1
        <4>7. QED
          BY <4>5, <4>6
      <3>5. GoodText(u, n)
        <4>1. u \in [ok : {TRUE}, meta : [Fields -> 0..n], entries : Seq(1..n)]
          BY <3>1, <3>2, <3>3
        <4>2. QED
          BY <3>4, <4>1 DEF GoodText
      <3>6. IsPrefix(t.entries, u.entries)
        BY <2>2, <3>1, PrefixFacts
      <3>7. Len(t.entries) \in Nat
        BY <2>2
      <3>8. In(c, u)
        <4>1. Contains(u.entries, n)
          <5>1. Len(u.entries) \in 1..Len(u.entries) /\ u.entries[Len(u.entries)] = n
            BY <3>3, <3>7
          <5>2. QED
            BY <5>1, Zenon DEF Contains
        <4>2. u.ok = TRUE /\ c.kind # "set"
          BY <2>4, <3>1
        <4>3. QED
          BY <4>1, <4>2 DEF In
      <3>9. \A d : In(d, t) => In(d, u)
        BY <3>1, <3>3, <3>7 DEF In, Contains
      <3>10. QED
        BY <2>2, <3>5, <3>6, <3>8, <3>9
    <2>5. CASE c.kind = "set" /\ c.field \in Fields
      <3>1. u = [ok |-> TRUE, meta |-> [t.meta EXCEPT ![c.field] = n], entries |-> t.entries]
        BY <2>2, <2>5 DEF Edited
      <3>2. u.meta \in [Fields -> 0..n] /\ u.meta[c.field] = n
        BY <2>2, <2>5, <3>1
      <3>3. GoodText(u, n)
        <4>1. t.entries \in Seq(1..n)
          BY <2>2
        <4>2. u \in [ok : {TRUE}, meta : [Fields -> 0..n], entries : Seq(1..n)]
          BY <3>1, <3>2, <4>1
        <4>3. QED
          BY <2>3, <3>1, <4>2 DEF GoodText
      <3>4. IsPrefix(t.entries, u.entries)
        BY <2>2, <3>1, PrefixFacts
      <3>5. In(c, u)
        BY <2>5, <3>1, <3>2 DEF In
      <3>6. ASSUME NEW d, d.n \in 0..n, In(d, t)
            PROVE  In(d, u)
        <4>1. d.kind = "set" => u.meta[d.field] >= d.n
          <5>1. CASE d.field = c.field
            BY <3>2, <3>6, <5>1
          <5>2. CASE d.field # c.field
            <6>1. u.meta[d.field] = t.meta[d.field]
              BY <2>2, <3>1, <5>2
            <6>2. QED
              BY <3>6, <6>1 DEF In
          <5>3. QED
            BY <5>1, <5>2
        <4>2. QED
          BY <3>1, <3>6, <4>1 DEF In
      <3>7. QED
        BY <2>2, <3>3, <3>4, <3>5, <3>6
    <2>6. QED
      BY <1>2, <2>4, <2>5 DEF Edited
  <1>3. QED
    BY <1>1, <1>2 DEF Edited

-----------------------------------------------------------------------------
\* The log, and the one on the medium, as texts.
LEMMA LogFacts ==
    ASSUME Typed, Stored
    PROVE  /\ starts \in Nat
           /\ name.log # 0 => Log = inode[name.log] /\ GoodText(Log, starts)
           /\ name.log = 0 => Log = NoText
           /\ Log.ok => name.log # 0
           /\ Log.entries \in Seq(Nat)
           /\ TextOf(medium.log).entries \in Seq(Nat)
  <1>1. starts \in Nat
    BY DEF Typed
  <1>2. NoText.ok = FALSE /\ NoText.entries = <<>> /\ <<>> \in Seq(Nat)
    BY DEF NoText
  <1>3. \A l \in {name.log, medium.log} : l # 0 => GoodText(inode[l], starts)
    BY DEF Stored
  <1>4. \A l \in {name.log, medium.log} : TextOf(l).entries \in Seq(Nat)
    <2>1. ASSUME NEW l \in {name.log, medium.log}
          PROVE  TextOf(l).entries \in Seq(Nat)
      <3>1. CASE l = 0
        BY <1>2, <3>1 DEF TextOf
      <3>2. CASE l # 0
        <4>1. GoodText(inode[l], starts)
          BY <1>3, <2>1, <3>2
        <4>2. inode[l].entries \in Seq(Nat)
          BY <1>1, <4>1, GoodFacts
        <4>3. QED
          BY <3>2, <4>2 DEF TextOf
      <3>3. QED
        BY <3>1, <3>2
    <2>2. QED
      BY <2>1
  <1>5. QED
    BY <1>1, <1>2, <1>3, <1>4 DEF Log, TextOf

\* A step that leaves both logs and the histories alone, and after which
\* nobody new is about to answer, keeps Behind and Kept.
LEMMA LogsUntouched ==
    ASSUME Sound, Log' = Log, TextOf(medium.log)' = TextOf(medium.log),
           acked' = acked, landed' = landed, starts' \in Nat, starts <= starts',
           \A w \in Writers : pc'[w] = "ack" => pc[w] = "ack" /\ cmd'[w] = cmd[w]
    PROVE  Behind' /\ Kept'
  <1>1. starts \in Nat /\ Behind /\ Kept
    BY DEF Sound, Typed
  <1>2. Behind'
    BY <1>1 DEF Behind
  <1>3. \A c \in acked : c.n \in 0..starts' /\ In(c, Log')
    BY <1>1 DEF Kept
  <1>4. \A c \in landed : c.n \in 0..starts' /\ In(c, TextOf(medium.log)')
    BY <1>1 DEF Kept
  <1>5. \A w \in Writers : pc'[w] = "ack" => In(cmd'[w], Log')
    BY <1>1 DEF Kept
  <1>6. QED
    BY <1>2, <1>3, <1>4, <1>5 DEF Kept

LEMMA SoundInit == LogInit => IInv
  <1>1. ASSUME LogInit
        PROVE  Sound
    <2>1. Typed
      BY <1>1, MemlogAssumption DEF LogInit, Typed, NoCommand
    <2>2. Stored
      BY <1>1 DEF LogInit, Stored
    <2>3. Alone
      BY <1>1 DEF LogInit, Alone, Busy
    <2>4. Behind
      <3>1. NoText.entries = <<>> /\ <<>> \in Seq(Nat) /\ 0 \in Nat
        BY DEF NoText
      <3>2. IsPrefix(<<>>, <<>>)
        BY <3>1, PrefixFacts
      <3>3. QED
        BY <1>1, <3>1, <3>2 DEF LogInit, Behind, Log, TextOf
    <2>5. Kept
      BY <1>1 DEF LogInit, Kept
    <2>6. QED
      BY <2>1, <2>2, <2>3, <2>4, <2>5 DEF Sound
  <1>2. QED
    BY <1>1 DEF IInv

\* A command starts alone, on the log as it is.
LEMMA SoundBegin ==
    ASSUME Sound, NEW w \in Writers, NEW kind, NEW f, NEW text,
           Start(w, kind, f, text), ~overlapped',
           Edited([n |-> starts + 1, kind |-> kind, field |-> f], Log, text)
    PROVE  Sound'
  <1>1. /\ Typed /\ Stored /\ Alone
        /\ pc[w] = "idle" /\ starts < MaxCommands /\ starts' = starts + 1
        /\ cmd' = [cmd EXCEPT ![w] = [n |-> starts + 1, kind |-> kind, field |-> f]]
        /\ buf' = [buf EXCEPT ![w] = text] /\ pc' = [pc EXCEPT ![w] = "open"]
        /\ \A v \in Writers : ~Busy(v)
        /\ name' = name /\ medium' = medium /\ inode' = inode /\ synced' = synced
        /\ fd' = fd /\ acked' = acked /\ landed' = landed
    BY DEF Sound, Start, fileVars
  <1>2. starts \in Nat /\ starts' \in 0..MaxCommands /\ starts' = starts + 1
    BY <1>1, MemlogAssumption DEF Typed
  <1>3. Typed'
    <2>1. /\ name' \in [log : 0..starts', tmp : 0..starts']
          /\ medium' \in [log : 0..starts', tmp : 0..starts']
      BY <1>1, <1>2 DEF Typed
    <2>2. ASSUME NEW v \in Writers
          PROVE  cmd'[v].n \in 0..starts'
      <3>1. CASE v = w
        <4>1. cmd'[w].n = starts + 1
          BY <1>1 DEF Typed
        <4>2. QED
          BY <1>2, <3>1, <4>1
      <3>2. CASE v # w
        <4>1. cmd'[v] = cmd[v] /\ cmd[v].n \in 0..starts
          BY <1>1, <3>2 DEF Typed
        <4>2. QED
          BY <1>2, <4>1
      <3>3. QED
        BY <3>1, <3>2
    <2>3. /\ cmd' = [v \in Writers |-> cmd'[v]] /\ buf' = [v \in Writers |-> buf'[v]]
          /\ fd' = [v \in Writers |-> fd'[v]] /\ inode' = [i \in Commands |-> inode'[i]]
      BY <1>1 DEF Typed
    <2>4. pc' \in [Writers -> {"idle", "open", "write", "sync", "rename", "ack"}]
      BY <1>1 DEF Typed
    <2>5. QED
      BY <1>1, <1>2, <2>1, <2>2, <2>3, <2>4 DEF Typed
  <1>4. Stored'
    <2>1. \A l \in {name.log, medium.log} : l # 0 => l \in synced /\ GoodText(inode[l], starts')
      BY <1>1, <1>2, GoodFacts DEF Stored
    <2>2. QED
      BY <1>1, <2>1 DEF Stored
  <1>5. Log' = Log /\ TextOf(medium.log)' = TextOf(medium.log)
    BY <1>1 DEF Log, TextOf
  <1>6. Alone'
    <2>1. \A v \in Writers : Busy(v)' => v = w
      BY <1>1 DEF Busy, Typed
    <2>2. Prepared(w)'
      <3>1. /\ cmd'[w] = [n |-> starts + 1, kind |-> kind, field |-> f]
            /\ buf'[w] = text /\ pc'[w] = "open"
        BY <1>1 DEF Typed
      <3>2. Edited(cmd'[w], Log', buf'[w])
        BY <1>5, <3>1
      <3>3. name.log # 0 => GoodText(Log', starts' - 1)
        BY <1>1, <1>2, <1>5, LogFacts
      <3>4. starts' \notin {name.log, name.tmp, medium.log}
        BY <1>1, <1>2 DEF Typed
      <3>5. QED
        BY <1>1, <1>2, <3>1, <3>2, <3>3, <3>4 DEF Prepared
    <2>3. QED
      BY <2>1, <2>2 DEF Alone
  <1>7. \A v \in Writers : pc'[v] = "ack" => pc[v] = "ack" /\ cmd'[v] = cmd[v]
    BY <1>1 DEF Typed
  <1>8. Behind' /\ Kept'
    BY <1>1, <1>2, <1>5, <1>7, LogsUntouched
  <1>9. QED
    BY <1>3, <1>4, <1>6, <1>8 DEF Sound

\* The file a command opens is neither the log nor the log on the medium.
LEMMA SoundOpen ==
    ASSUME Sound, NEW w \in Writers, OpenTmp(w)
    PROVE  Sound'
  <1> DEFINE i == IF name.tmp = 0 THEN cmd[w].n ELSE name.tmp
  <1>1. /\ Typed /\ Stored /\ Alone
        /\ pc[w] = "open" /\ pc' = [pc EXCEPT ![w] = "write"]
        /\ fd' = [fd EXCEPT ![w] = i] /\ name' = [name EXCEPT !.tmp = i]
        /\ inode' = [inode EXCEPT ![i] = NoText] /\ synced' = synced \ {i}
        /\ medium' = medium /\ cmd' = cmd /\ buf' = buf /\ starts' = starts
        /\ acked' = acked /\ landed' = landed
    BY DEF Sound, OpenTmp, logHistory
  <1>2. Busy(w) /\ Prepared(w)
    BY <1>1 DEF Alone, Busy
  <1>3. starts \in Nat /\ starts \in 0..MaxCommands
    BY <1>1, MemlogAssumption DEF Typed
  <1>4. i \in 1..starts /\ i \in Commands /\ i # 0 /\ i # name.log /\ i # medium.log
    <2>1. CASE name.tmp = 0
      <3>1. i = starts /\ starts # 0 /\ starts # name.log /\ starts # medium.log
        BY <1>1, <1>2, <2>1 DEF Prepared
      <3>2. QED
        BY <1>3, <3>1, MemlogAssumption DEF Commands
    <2>2. CASE name.tmp # 0
      <3>1. i = name.tmp /\ i \in 0..starts /\ i # name.log /\ i # medium.log
        BY <1>1, <2>2 DEF Stored, Typed
      <3>2. QED
        BY <1>3, <2>2, <3>1, MemlogAssumption DEF Commands
    <2>3. QED
      BY <2>1, <2>2
  <1> HIDE DEF i
  <1>5. /\ name'.log = name.log /\ name'.tmp = i
        /\ \A l \in {name.log, medium.log} : l # 0 =>
              inode'[l] = inode[l] /\ (l \in synced => l \in synced')
        /\ inode'[i] = NoText
    BY <1>1, <1>4 DEF Typed
  <1>6. Typed'
    <2>1. name' \in [log : 0..starts, tmp : 0..starts]
      BY <1>1, <1>3, <1>4 DEF Typed
    <2>2. inode' = [j \in Commands |-> inode'[j]] /\ synced' \subseteq Commands
      BY <1>1 DEF Typed
    <2>3. /\ pc' \in [Writers -> {"idle", "open", "write", "sync", "rename", "ack"}]
          /\ fd' = [v \in Writers |-> fd'[v]]
      BY <1>1 DEF Typed
    <2>4. QED
      BY <1>1, <2>1, <2>2, <2>3 DEF Typed
  <1>7. Stored'
    BY <1>1, <1>4, <1>5 DEF Stored
  <1>8. Log' = Log /\ TextOf(medium.log)' = TextOf(medium.log)
    BY <1>1, <1>5 DEF Log, TextOf
  <1>9. Alone'
    <2>1. \A v \in Writers : Busy(v)' => v = w
      BY <1>1, <1>2 DEF Alone, Busy, Typed
    <2>2. fd'[w] = i /\ pc'[w] = "write"
      BY <1>1 DEF Typed
    <2>3. Prepared(w)'
      BY <1>1, <1>2, <1>4, <1>5, <1>8, <2>2 DEF Prepared
    <2>4. QED
      BY <2>1, <2>3 DEF Alone
  <1>10. \A v \in Writers : pc'[v] = "ack" => pc[v] = "ack" /\ cmd'[v] = cmd[v]
    BY <1>1 DEF Typed
  <1>11. Behind' /\ Kept'
    BY <1>1, <1>3, <1>8, <1>10, LogsUntouched
  <1>12. QED
    BY <1>6, <1>7, <1>9, <1>11 DEF Sound

\* The open file was empty, so that it then holds the text that was written.
LEMMA SoundWrite ==
    ASSUME Sound, NEW w \in Writers, WriteTmp(w)
    PROVE  Sound'
  <1> DEFINE i == fd[w]
  <1>1. /\ Typed /\ Stored /\ Alone
        /\ pc[w] = "write" /\ pc' = [pc EXCEPT ![w] = "sync"]
        /\ name' = name /\ medium' = medium /\ cmd' = cmd /\ buf' = buf /\ fd' = fd
        /\ starts' = starts /\ acked' = acked /\ landed' = landed
        /\ synced' = synced \ {i}
    BY DEF Sound, WriteTmp, logHistory
  <1>2. Busy(w) /\ Prepared(w)
    BY <1>1 DEF Alone, Busy
  <1>3. inode' = [inode EXCEPT ![i] = buf[w]]
    <2>1. inode[i].ok = FALSE
      BY <1>1, <1>2 DEF Prepared, NoText
    <2>2. Over(buf[w], inode[i]) = {buf[w]}
      BY <2>1 DEF Over
    <2>3. QED
      BY <2>2 DEF WriteTmp
  <1>4. starts \in 0..MaxCommands /\ starts \in Nat
    BY <1>1, MemlogAssumption DEF Typed
  <1>5. i = name.tmp /\ i \in Commands /\ i # 0 /\ i # name.log /\ i # medium.log
    <2>1. i = name.tmp /\ i # 0
      BY <1>1, <1>2 DEF Prepared
    <2>2. QED
      BY <1>1, <1>4, <2>1, MemlogAssumption DEF Typed, Stored, Commands
  <1> HIDE DEF i
  <1>6. /\ inode'[i] = buf[w]
        /\ \A l \in {name.log, medium.log} : l # 0 =>
              inode'[l] = inode[l] /\ (l \in synced => l \in synced')
    BY <1>1, <1>3, <1>5 DEF Typed
  <1>7. Typed'
    BY <1>1, <1>3 DEF Typed
  <1>8. Stored'
    BY <1>1, <1>6 DEF Stored
  <1>9. Log' = Log /\ TextOf(medium.log)' = TextOf(medium.log)
    BY <1>1, <1>6 DEF Log, TextOf
  <1>10. Alone'
    <2>1. \A v \in Writers : Busy(v)' => v = w
      BY <1>1, <1>2 DEF Alone, Busy, Typed
    <2>2. fd'[w] = i /\ pc'[w] = "sync"
      BY <1>1 DEF Typed, i
    <2>3. Prepared(w)'
      BY <1>1, <1>2, <1>5, <1>6, <1>9, <2>2 DEF Prepared
    <2>4. QED
      BY <2>1, <2>3 DEF Alone
  <1>11. \A v \in Writers : pc'[v] = "ack" => pc[v] = "ack" /\ cmd'[v] = cmd[v]
    BY <1>1 DEF Typed
  <1>12. Behind' /\ Kept'
    BY <1>1, <1>4, <1>9, <1>11, LogsUntouched
  <1>13. QED
    BY <1>7, <1>8, <1>10, <1>12 DEF Sound

LEMMA SoundSync ==
    ASSUME Sound, NEW w \in Writers, SyncTmp(w)
    PROVE  Sound'
  <1>1. /\ Typed /\ Stored /\ Alone
        /\ pc[w] = "sync" /\ pc' = [pc EXCEPT ![w] = "rename"]
        /\ name' = name /\ medium' = medium /\ inode' = inode /\ cmd' = cmd /\ buf' = buf
        /\ fd' = fd /\ starts' = starts /\ acked' = acked /\ landed' = landed
        /\ synced' = synced \cup {fd[w]}
    BY DEF Sound, SyncTmp, logHistory
  <1>2. Busy(w) /\ Prepared(w)
    BY <1>1 DEF Alone, Busy
  <1>3. starts \in 0..MaxCommands /\ starts \in Nat
    BY <1>1, MemlogAssumption DEF Typed
  <1>4. fd[w] \in Commands
    BY <1>1, <1>2, <1>3, MemlogAssumption DEF Typed, Prepared, Commands
  <1>5. Typed'
    BY <1>1, <1>4 DEF Typed
  <1>6. Stored'
    BY <1>1 DEF Stored
  <1>7. Log' = Log /\ TextOf(medium.log)' = TextOf(medium.log)
    BY <1>1 DEF Log, TextOf
  <1>8. Alone'
    <2>1. \A v \in Writers : Busy(v)' => v = w
      BY <1>1, <1>2 DEF Alone, Busy, Typed
    <2>2. pc'[w] = "rename"
      BY <1>1 DEF Typed
    <2>3. Prepared(w)'
      BY <1>1, <1>2, <1>7, <2>2 DEF Prepared
    <2>4. QED
      BY <2>1, <2>3 DEF Alone
  <1>9. \A v \in Writers : pc'[v] = "ack" => pc[v] = "ack" /\ cmd'[v] = cmd[v]
    BY <1>1 DEF Typed
  <1>10. Behind' /\ Kept'
    BY <1>1, <1>3, <1>7, <1>9, LogsUntouched
  <1>11. QED
    BY <1>5, <1>6, <1>8, <1>10 DEF Sound

\* What a rename makes of the log: the text of the one command under way,
\* which extends the log and keeps what was acknowledged.
LEMMA RenameFacts ==
    ASSUME Sound, NEW w \in Writers, RenameTmp(w)
    PROVE  /\ name.tmp # 0 /\ name' = [log |-> name.tmp, tmp |-> 0]
           /\ pc' = [pc EXCEPT ![w] = "ack"]
           /\ Busy(w) /\ Prepared(w) /\ name.tmp \in synced
           /\ Log' = buf[w] /\ Log' = inode[name.tmp]
           /\ GoodText(Log', starts) /\ In(cmd[w], Log')
           /\ Log.entries \in Seq(Nat) /\ Log'.entries \in Seq(Nat)
           /\ IsPrefix(Log.entries, Log'.entries)
           /\ \A d : d.n \in 0..starts /\ In(d, Log) => In(d, Log')
  <1>1. /\ Typed /\ Stored /\ Alone
        /\ pc[w] = "rename" /\ inode' = inode
    BY DEF Sound, RenameTmp
  <1>2. Busy(w) /\ Prepared(w)
    BY <1>1 DEF Alone, Busy
  <1>3. name.tmp # 0 /\ name.tmp = fd[w] /\ fd[w] \in synced /\ inode[fd[w]] = buf[w]
    BY <1>1, <1>2 DEF Prepared
  <1>4. name' = [log |-> name.tmp, tmp |-> 0] /\ pc' = [pc EXCEPT ![w] = "ack"]
    BY <1>3 DEF RenameTmp
  <1>5. Log' = inode[name.tmp] /\ Log' = buf[w]
    BY <1>1, <1>3, <1>4 DEF Log, TextOf
  <1>6. starts \in Nat \ {0} /\ cmd[w].n = starts
    BY <1>1, <1>2 DEF Typed, Prepared
  <1>7. Log = NoText \/ GoodText(Log, starts - 1)
    BY <1>1, <1>2, LogFacts DEF Prepared
  <1>8. Edited(cmd[w], Log, buf[w])
    BY <1>2 DEF Prepared
  <1>9. /\ GoodText(buf[w], starts) /\ In(cmd[w], buf[w])
        /\ Log.entries \in Seq(Nat) /\ IsPrefix(Log.entries, buf[w].entries)
        /\ \A d : d.n \in 0..starts /\ In(d, Log) => In(d, buf[w])
    BY <1>6, <1>7, <1>8, EditFacts
  <1>10. buf[w].entries \in Seq(Nat)
    BY <1>6, <1>9, GoodFacts
  <1>11. QED
    BY <1>2, <1>3, <1>4, <1>5, <1>9, <1>10

LEMMA SoundRename ==
    ASSUME Sound, NEW w \in Writers, RenameTmp(w)
    PROVE  Sound'
  <1>1. /\ Typed /\ Stored /\ Alone /\ Behind /\ Kept
        /\ medium' = medium /\ inode' = inode /\ synced' = synced /\ cmd' = cmd
        /\ buf' = buf /\ fd' = fd /\ starts' = starts
        /\ acked' = acked /\ landed' = landed
    BY DEF Sound, RenameTmp, logHistory
  <1>2. /\ name.tmp # 0 /\ name' = [log |-> name.tmp, tmp |-> 0]
        /\ pc' = [pc EXCEPT ![w] = "ack"]
        /\ Busy(w) /\ name.tmp \in synced
        /\ Log' = inode[name.tmp] /\ GoodText(Log', starts) /\ In(cmd[w], Log')
        /\ Log.entries \in Seq(Nat) /\ Log'.entries \in Seq(Nat)
        /\ IsPrefix(Log.entries, Log'.entries)
        /\ \A d : d.n \in 0..starts /\ In(d, Log) => In(d, Log')
    BY RenameFacts
  <1>3. starts \in Nat
    BY <1>1 DEF Typed
  <1>4. Typed'
    BY <1>1, <1>2, <1>3 DEF Typed
  <1>5. Stored'
    BY <1>1, <1>2 DEF Stored
  <1>6. Alone'
    <2>1. \A v \in Writers : ~Busy(v)'
      BY <1>1, <1>2 DEF Alone, Busy, Typed
    <2>2. QED
      BY <2>1 DEF Alone
  <1>7. TextOf(medium.log)' = TextOf(medium.log) /\ TextOf(medium.log).entries \in Seq(Nat)
    BY <1>1, LogFacts DEF TextOf
  <1>8. Behind'
    <2>1. IsPrefix(TextOf(medium.log).entries, Log.entries) /\ 0 \in Nat
      BY <1>1 DEF Behind
    <2>2. IsPrefix(TextOf(medium.log).entries, Log'.entries)
      BY <1>2, <1>7, <2>1, PrefixFacts
    <2>3. QED
      BY <1>7, <2>2 DEF Behind
  <1>9. Kept'
    <2>1. \A c \in acked : c.n \in 0..starts /\ In(c, Log')
      BY <1>1, <1>2 DEF Kept
    <2>2. \A c \in landed : c.n \in 0..starts /\ In(c, TextOf(medium.log)')
      BY <1>1, <1>7 DEF Kept
    <2>3. ASSUME NEW v \in Writers, pc'[v] = "ack"
          PROVE  In(cmd[v], Log')
      <3>1. CASE v = w
        BY <1>2, <3>1
      <3>2. CASE v # w
        <4>1. pc[v] = "ack" /\ cmd[v].n \in 0..starts
          BY <1>1, <1>2, <2>3, <3>2 DEF Typed
        <4>2. QED
          BY <1>1, <1>2, <4>1 DEF Kept
      <3>3. QED
        BY <3>1, <3>2
    <2>4. QED
      BY <1>1, <2>1, <2>2, <2>3 DEF Kept
  <1>10. QED
    BY <1>4, <1>5, <1>6, <1>8, <1>9 DEF Sound

LEMMA SoundAck ==
    ASSUME Sound, NEW w \in Writers, Ack(w)
    PROVE  Sound'
  <1>1. /\ Typed /\ Stored /\ Alone /\ Behind /\ Kept
        /\ pc[w] = "ack" /\ pc' = [pc EXCEPT ![w] = "idle"]
        /\ name' = name /\ medium' = medium /\ inode' = inode /\ synced' = synced
        /\ cmd' = cmd /\ buf' = buf /\ fd' = fd /\ starts' = starts
        /\ acked' = acked \cup {cmd[w]}
        /\ landed' = IF medium.log = name.log THEN acked' ELSE landed
    BY DEF Sound, Ack, fileVars
  <1>2. Typed'
    BY <1>1 DEF Typed
  <1>3. Stored'
    BY <1>1 DEF Stored
  <1>4. Log' = Log /\ TextOf(medium.log)' = TextOf(medium.log)
    BY <1>1 DEF Log, TextOf
  <1>5. Alone'
    <2>1. \A v \in Writers : Busy(v)' => Busy(v) /\ pc'[v] = pc[v]
      BY <1>1 DEF Busy, Typed
    <2>2. \A v \in Writers : Busy(v)' => Prepared(v)'
      BY <1>1, <1>4, <2>1 DEF Alone, Prepared
    <2>3. QED
      BY <1>1, <2>1, <2>2 DEF Alone
  <1>6. Behind'
    BY <1>1, <1>4 DEF Behind
  <1>7. Kept'
    <2>1. \A c \in acked' : c.n \in 0..starts /\ In(c, Log)
      BY <1>1 DEF Kept, Typed
    <2>2. \A c \in landed' : c.n \in 0..starts /\ In(c, TextOf(medium.log))
      <3>1. CASE medium.log = name.log
        BY <1>1, <2>1, <3>1 DEF Log
      <3>2. CASE medium.log # name.log
        BY <1>1, <3>2 DEF Kept
      <3>3. QED
        BY <3>1, <3>2
    <2>3. \A v \in Writers : pc'[v] = "ack" => In(cmd[v], Log)
      BY <1>1 DEF Kept, Typed
    <2>4. QED
      BY <1>1, <1>4, <2>1, <2>2, <2>3 DEF Kept
  <1>8. QED
    BY <1>2, <1>3, <1>5, <1>6, <1>7 DEF Sound

LEMMA SoundKilled ==
    ASSUME Sound, NEW w \in Writers, Killed(w)
    PROVE  Sound'
  <1>1. /\ Typed /\ Stored /\ Alone
        /\ pc' = [pc EXCEPT ![w] = "idle"]
        /\ name' = name /\ medium' = medium /\ inode' = inode /\ synced' = synced
        /\ cmd' = cmd /\ buf' = buf /\ fd' = fd /\ starts' = starts
        /\ acked' = acked /\ landed' = landed
    BY DEF Sound, Killed, fileVars, logHistory
  <1>2. Typed' /\ starts \in Nat
    BY <1>1 DEF Typed
  <1>3. Stored'
    BY <1>1 DEF Stored
  <1>4. Log' = Log /\ TextOf(medium.log)' = TextOf(medium.log)
    BY <1>1 DEF Log, TextOf
  <1>5. Alone'
    <2>1. \A v \in Writers : Busy(v)' => Busy(v) /\ pc'[v] = pc[v]
      BY <1>1 DEF Busy, Typed
    <2>2. \A v \in Writers : Busy(v)' => Prepared(v)'
      BY <1>1, <1>4, <2>1 DEF Alone, Prepared
    <2>3. QED
      BY <1>1, <2>1, <2>2 DEF Alone
  <1>6. \A v \in Writers : pc'[v] = "ack" => pc[v] = "ack" /\ cmd'[v] = cmd[v]
    BY <1>1 DEF Typed
  <1>7. Behind' /\ Kept'
    BY <1>1, <1>2, <1>4, <1>6, LogsUntouched
  <1>8. QED
    BY <1>2, <1>3, <1>5, <1>7 DEF Sound

LEMMA SoundNames ==
    ASSUME Sound, NamesReachDisk
    PROVE  Sound'
  <1>1. /\ Typed /\ Stored /\ Alone /\ Behind /\ Kept
        /\ medium' = name /\ landed' = acked
        /\ name' = name /\ inode' = inode /\ synced' = synced
        /\ pc' = pc /\ cmd' = cmd /\ buf' = buf /\ fd' = fd
        /\ starts' = starts /\ acked' = acked
    BY DEF Sound, NamesReachDisk, procVars
  <1>2. Typed'
    BY <1>1 DEF Typed
  <1>3. Stored'
    BY <1>1 DEF Stored
  <1>4. Log' = Log /\ TextOf(medium.log)' = Log
    BY <1>1 DEF Log, TextOf
  <1>5. Alone'
    <2>1. \A v \in Writers : Busy(v)' <=> Busy(v)
      BY <1>1 DEF Busy
    <2>2. \A v \in Writers : Busy(v) => Prepared(v)'
      BY <1>1, <1>4 DEF Alone, Prepared
    <2>3. QED
      BY <1>1, <2>1, <2>2 DEF Alone
  <1>6. Behind'
    <2>1. Log.entries \in Seq(Nat) /\ 0 \in Nat
      BY <1>1, LogFacts
    <2>2. IsPrefix(Log.entries, Log.entries)
      BY <2>1, PrefixFacts
    <2>3. QED
      BY <1>4, <2>2 DEF Behind
  <1>7. Kept'
    BY <1>1, <1>4 DEF Kept
  <1>8. QED
    BY <1>2, <1>3, <1>5, <1>6, <1>7 DEF Sound

LEMMA SoundText ==
    ASSUME Sound, NEW i \in Commands, TextReachesDisk(i)
    PROVE  Sound'
  <1>1. /\ Typed /\ Stored /\ Alone
        /\ synced' = synced \cup {i}
        /\ name' = name /\ medium' = medium /\ inode' = inode
        /\ pc' = pc /\ cmd' = cmd /\ buf' = buf /\ fd' = fd
        /\ starts' = starts /\ acked' = acked /\ landed' = landed
    BY DEF Sound, TextReachesDisk, procVars, logHistory
  <1>2. Typed' /\ starts \in Nat
    BY <1>1 DEF Typed
  <1>3. Stored'
    BY <1>1 DEF Stored
  <1>4. Log' = Log /\ TextOf(medium.log)' = TextOf(medium.log)
    BY <1>1 DEF Log, TextOf
  <1>5. Alone'
    <2>1. \A v \in Writers : Busy(v)' <=> Busy(v)
      BY <1>1 DEF Busy
    <2>2. \A v \in Writers : Busy(v) => Prepared(v)'
      BY <1>1, <1>4 DEF Alone, Prepared
    <2>3. QED
      BY <1>1, <2>1, <2>2 DEF Alone
  <1>6. Behind' /\ Kept'
    BY <1>1, <1>2, <1>4, LogsUntouched
  <1>7. QED
    BY <1>2, <1>3, <1>5, <1>6 DEF Sound

\* What a power loss leaves is the log on the medium, whole.
LEMMA PowerLossFacts ==
    ASSUME Sound, PowerLoss
    PROVE  /\ Log' = TextOf(medium.log) /\ TextOf(medium.log)' = TextOf(medium.log)
           /\ \A l \in {medium.log} : l # 0 => inode'[l] = inode[l]
           /\ inode' = [i \in Commands |-> inode'[i]]
  <1>1. Stored /\ Typed
    BY DEF Sound
  <1>2. PICK left \in [Commands \ synced -> UNION {Remains(inode[i]) : i \in Commands}] :
          inode' = [i \in Commands |-> IF i \in synced THEN inode[i] ELSE left[i]]
    BY DEF PowerLoss
  <1>3. medium.log # 0 => inode'[medium.log] = inode[medium.log]
    BY <1>1, <1>2 DEF Stored, Typed
  <1>4. name' = medium /\ medium' = medium
    BY DEF PowerLoss
  <1>5. TextOf(medium.log)' = TextOf(medium.log) /\ Log' = TextOf(medium.log)
    BY <1>3, <1>4 DEF TextOf, Log
  <1>6. inode' = [i \in Commands |-> inode'[i]]
    BY <1>2
  <1>7. QED
    BY <1>3, <1>5, <1>6

LEMMA SoundPowerLoss ==
    ASSUME Sound, PowerLoss
    PROVE  Sound'
  <1>1. /\ Typed /\ Stored /\ Kept
        /\ name' = medium /\ medium' = medium /\ synced' = Commands
        /\ pc' = [v \in Writers |-> "idle"] /\ cmd' = cmd /\ buf' = buf /\ fd' = fd
        /\ starts' = starts /\ acked' = landed /\ landed' = landed
    BY DEF Sound, PowerLoss
  <1>2. /\ Log' = TextOf(medium.log) /\ TextOf(medium.log)' = TextOf(medium.log)
        /\ medium.log # 0 => inode'[medium.log] = inode[medium.log]
        /\ inode' = [i \in Commands |-> inode'[i]]
    BY PowerLossFacts
  <1>3. Typed'
    BY <1>1, <1>2 DEF Typed
  <1>4. Stored'
    BY <1>1, <1>2 DEF Stored, Typed
  <1>5. Alone'
    BY <1>1 DEF Alone, Busy
  <1>6. Behind'
    <2>1. TextOf(medium.log).entries \in Seq(Nat) /\ 0 \in Nat
      BY <1>1, LogFacts
    <2>2. IsPrefix(TextOf(medium.log).entries, TextOf(medium.log).entries)
      BY <2>1, PrefixFacts
    <2>3. QED
      BY <1>2, <2>2 DEF Behind
  <1>7. Kept'
    BY <1>1, <1>2 DEF Kept
  <1>8. QED
    BY <1>3, <1>4, <1>5, <1>6, <1>7 DEF Sound

\* The three commands edit the log as they find it.
LEMMA SoundStart ==
    ASSUME Sound, ~overlapped', NEW w \in Writers,
           StartInit(w) \/ StartAppend(w) \/ \E f \in Fields : StartSet(w, f)
    PROVE  Sound'
  <1>1. Typed /\ Stored
    BY DEF Sound
  <1>2. CASE StartInit(w)
    <2>1. Log = NoText /\ Start(w, "init", 0, NewText)
      BY <1>1, <1>2, LogFacts DEF StartInit
    <2>2. Edited([n |-> starts + 1, kind |-> "init", field |-> 0], Log, NewText)
      BY <2>1 DEF Edited
    <2>3. QED
      BY <2>1, <2>2, SoundBegin
  <1>3. CASE StartAppend(w)
    <2> DEFINE text == [Log EXCEPT !.entries = Append(@, starts + 1)]
    <2>1. Log.ok /\ Start(w, "append", 0, text)
      BY <1>3 DEF StartAppend
    <2>2. Edited([n |-> starts + 1, kind |-> "append", field |-> 0], Log, text)
      BY <2>1 DEF Edited
    <2> HIDE DEF text
    <2>3. QED
      BY <2>1, <2>2, SoundBegin
  <1>4. ASSUME NEW f \in Fields, StartSet(w, f)
        PROVE  Sound'
    <2> DEFINE text == [Log EXCEPT !.meta[f] = starts + 1]
    <2>1. Log.ok /\ Start(w, "set", f, text)
      BY <1>4 DEF StartSet
    <2>2. Edited([n |-> starts + 1, kind |-> "set", field |-> f], Log, text)
      BY <2>1 DEF Edited
    <2> HIDE DEF text
    <2>3. QED
      BY <2>1, <2>2, SoundBegin
  <1>5. QED
    BY <1>2, <1>3, <1>4

\* Commands that overlapped stay so: only a start writes the history.
LEMMA OverlapStays == overlapped /\ [LogNext]_logVars => overlapped'
  <1>1. ASSUME overlapped, LogNext
        PROVE  overlapped'
    BY <1>1 DEF LogNext, StartInit, StartAppend, StartSet, Start, OpenTmp, WriteTmp, SyncTmp,
         RenameTmp, Ack, Killed, NamesReachDisk, TextReachesDisk, PowerLoss, logHistory
  <1>2. QED
    BY <1>1 DEF logVars, logHistory

LEMMA SoundStep == IInv /\ [LogNext]_logVars => IInv'
  <1> SUFFICES ASSUME IInv, [LogNext]_logVars, ~overlapped'
               PROVE  Sound'
    BY DEF IInv
  <1>1. Sound
    BY OverlapStays DEF IInv
  <1>2. ASSUME NEW w \in Writers,
               StartInit(w) \/ StartAppend(w) \/ \E f \in Fields : StartSet(w, f)
        PROVE  Sound'
    BY <1>1, <1>2, SoundStart
  <1>3. ASSUME NEW w \in Writers, OpenTmp(w)
        PROVE  Sound'
    BY <1>1, <1>3, SoundOpen
  <1>4. ASSUME NEW w \in Writers, WriteTmp(w)
        PROVE  Sound'
    BY <1>1, <1>4, SoundWrite
  <1>5. ASSUME NEW w \in Writers, SyncTmp(w)
        PROVE  Sound'
    BY <1>1, <1>5, SoundSync
  <1>6. ASSUME NEW w \in Writers, RenameTmp(w)
        PROVE  Sound'
    BY <1>1, <1>6, SoundRename
  <1>7. ASSUME NEW w \in Writers, Ack(w)
        PROVE  Sound'
    BY <1>1, <1>7, SoundAck
  <1>8. ASSUME NEW w \in Writers, Killed(w)
        PROVE  Sound'
    BY <1>1, <1>8, SoundKilled
  <1>9. CASE NamesReachDisk
    BY <1>1, <1>9, SoundNames
  <1>10. ASSUME NEW i \in Commands, TextReachesDisk(i)
         PROVE  Sound'
    BY <1>1, <1>10, SoundText
  <1>11. CASE PowerLoss
    BY <1>1, <1>11, SoundPowerLoss
  <1>12. CASE UNCHANGED logVars
    <2>1. /\ name' = name /\ medium' = medium /\ inode' = inode /\ synced' = synced
          /\ pc' = pc /\ cmd' = cmd /\ buf' = buf /\ fd' = fd /\ starts' = starts
          /\ acked' = acked /\ landed' = landed
      BY <1>12 DEF logVars, fileVars, procVars, logHistory
    <2>2. QED
      BY <1>1, <2>1 DEF Sound, Typed, Stored, Alone, Busy, Prepared, Behind, Kept,
                        Log, TextOf
  <1>13. QED
    BY <1>2, <1>3, <1>4, <1>5, <1>6, <1>7, <1>8, <1>9, <1>10, <1>11, <1>12 DEF LogNext

LEMMA Inductive == LogSpec => []IInv
  <1>1. QED
    BY SoundInit, SoundStep, PTL DEF LogSpec

-----------------------------------------------------------------------------
\* While no two commands overlapped, the log is a text some command rendered,
\* whatever is killed and whenever the power goes (memlog.py:123).
THEOREM LogIsNeverTorn == LogSpec => []NeverHalfWritten
  <1>1. IInv => NeverHalfWritten
    <2> SUFFICES ASSUME Sound, name.log # 0
                 PROVE  Log.ok /\ ~Contains(Log.entries, Scrap)
      BY DEF IInv, NeverHalfWritten
    <2>1. starts \in Nat /\ GoodText(Log, starts)
      BY LogFacts DEF Sound
    <2>2. Log.ok = TRUE /\ Log.entries \in Seq(1..starts)
      BY <2>1, GoodFacts
    <2>3. \A i \in 1..Len(Log.entries) : Log.entries[i] # 0
      BY <2>1, <2>2
    <2>4. QED
      BY <2>2, <2>3 DEF Contains, Scrap
  <1>2. QED
    BY Inductive, <1>1, PTL

\* While no two commands overlapped, every acknowledged command is in the log,
\* and the entries are in the order the commands started (memlog.py:138).
THEOREM AcknowledgedStays == LogSpec => []AckedIsKept
  <1>1. IInv => AckedIsKept
    <2> SUFFICES ASSUME Sound
                 PROVE  /\ \A c \in acked : In(c, Log)
                        /\ \A i, j \in DOMAIN Log.entries :
                              i < j => Log.entries[i] < Log.entries[j]
      BY DEF IInv, AckedIsKept
    <2>1. Typed /\ Stored /\ Kept
      BY DEF Sound
    <2>2. \A i, j \in DOMAIN Log.entries : i < j => Log.entries[i] < Log.entries[j]
      <3>1. CASE name.log = 0
        <4>1. Log.entries = <<>>
          BY <2>1, <3>1, LogFacts DEF NoText
        <4>2. QED
          BY <4>1
      <3>2. CASE name.log # 0
        <4>1. GoodText(Log, starts) /\ Log.entries \in Seq(Nat)
          BY <2>1, <3>2, LogFacts
        <4>2. DOMAIN Log.entries = 1..Len(Log.entries)
          BY <4>1
        <4>3. QED
          BY <4>1, <4>2 DEF GoodText
      <3>3. QED
        BY <3>1, <3>2
    <2>3. QED
      BY <2>1, <2>2 DEF Kept
  <1>2. QED
    BY Inductive, <1>1, PTL

\* While no two commands overlapped, entries are only ever added at the end; a
\* power loss alone takes some back, and then the log is the one that was on
\* the medium (memlog.py:178).
THEOREM LogOnlyGrows == LogSpec => AppendOnly
  <1>1. ASSUME IInv, LogNext, ~overlapped'
        PROVE  \/ IsPrefix(Log.entries, Log'.entries)
               \/ PowerLoss /\ IsStrictPrefix(Log'.entries, Log.entries)
                            /\ Log' = TextOf(medium.log)
    <2>1. Sound
      BY <1>1, OverlapStays DEF IInv
    <2>2. Typed /\ Stored /\ Behind /\ Log.entries \in Seq(Nat) /\ 0 \in Nat
      BY <2>1, LogFacts DEF Sound
    <2>3. IsPrefix(Log.entries, Log.entries)
      BY <2>2, PrefixFacts
    <2>4. CASE \E w \in Writers : RenameTmp(w)
      BY <2>1, <2>4, RenameFacts
    <2>5. CASE PowerLoss
      <3>1. Log' = TextOf(medium.log)
        BY <2>1, <2>5, PowerLossFacts
      <3>2. IsPrefix(Log'.entries, Log.entries)
        BY <2>2, <3>1 DEF Behind
      <3>3. QED
        BY <2>3, <2>5, <3>1, <3>2 DEF IsStrictPrefix
    <2>6. ASSUME NEW w \in Writers, OpenTmp(w)
          PROVE  Log' = Log
      <3>1. Busy(w) /\ Prepared(w)
        BY <2>1, <2>6 DEF Sound, Alone, OpenTmp, Busy
      <3>2. PICK i : /\ i = IF name.tmp = 0 THEN cmd[w].n ELSE name.tmp
                     /\ name' = [name EXCEPT !.tmp = i]
                     /\ inode' = [inode EXCEPT ![i] = NoText]
        BY <2>6 DEF OpenTmp
      <3>3. i # name.log
        BY <2>2, <2>6, <3>1, <3>2 DEF Stored, Prepared, OpenTmp
      <3>4. name'.log = name.log /\ (name.log # 0 => inode'[name.log] = inode[name.log])
        BY <2>2, <3>2, <3>3 DEF Typed, Stored
      <3>5. QED
        BY <3>4 DEF Log, TextOf
    <2>7. ASSUME NEW w \in Writers, WriteTmp(w)
          PROVE  Log' = Log
      <3>1. Busy(w) /\ Prepared(w)
        BY <2>1, <2>7 DEF Sound, Alone, WriteTmp, Busy
      <3>2. fd[w] # name.log
        BY <2>2, <2>7, <3>1 DEF Stored, Prepared, WriteTmp
      <3>3. name' = name /\ (name.log # 0 => inode'[name.log] = inode[name.log])
        BY <2>2, <2>7, <3>2 DEF WriteTmp, Typed, Stored
      <3>4. QED
        BY <3>3 DEF Log, TextOf
    <2>8. CASE name' = name /\ inode' = inode
      BY <2>3, <2>8 DEF Log, TextOf
    <2>9. QED
      BY <1>1, <2>3, <2>4, <2>5, <2>6, <2>7, <2>8 DEF LogNext, StartInit, StartAppend, StartSet,
         Start, SyncTmp, Ack, Killed, NamesReachDisk, TextReachesDisk, fileVars
  <1>2. IInv /\ [LogNext]_logVars =>
          [~overlapped' =>
             \/ IsPrefix(Log.entries, Log'.entries)
             \/ PowerLoss /\ IsStrictPrefix(Log'.entries, Log.entries)
                          /\ Log' = TextOf(medium.log)]_logVars
    BY <1>1
  <1>3. QED
    BY Inductive, <1>2, PTL DEF LogSpec, AppendOnly

-----------------------------------------------------------------------------
(* Trees. *)

\* The values a user can edit, and what setup writes beside them.
SameValues(t, u) ==
    /\ u.team = t.team /\ u.user = t.user /\ u.custom = t.custom
    /\ u.mods = t.mods /\ u.config = t.config /\ u.scripts = t.scripts /\ u.ignore = t.ignore

LEMMA TreeFacts ==
    /\ IsTree(EmptyTree) /\ IsTree(NoTree)
    /\ EmptyTree.there /\ ~NoTree.there /\ SameValues(NoTree, EmptyTree)
    /\ EmptyTree.gens = {} /\ NoTree.gens = {}
    /\ \A k \in Keys : NoTree.team[k] = 0 /\ NoTree.user[k] = 0
    /\ \A n \in Names : NoTree.custom[n] = 0
  BY DEF IsTree, EmptyTree, NoTree, SameValues

\* What a render does to a tree.
LEMMA TreeFields ==
    ASSUME NEW t, IsTree(t)
    PROVE  DOMAIN t = {"there", "scripts", "mods", "config", "team", "user", "custom", "ignore", "gens", "staging"}
  BY DEF IsTree, EmptyTree

\* A tree that differs in what renders write.
Rendered(t, u, there, gens, r, files) ==
    /\ IsTree(u) /\ SameValues(t, u)
    /\ u.there = there /\ u.gens = gens /\ u.staging = [t.staging EXCEPT ![r] = files]

LEMMA RenderedTree ==
    ASSUME NEW t, IsTree(t), NEW r \in Renderers, NEW files, NEW more
    PROVE  /\ Rendered(t, [t EXCEPT !.there = TRUE, !.staging[r] = files], TRUE, t.gens, r, files)
           /\ Rendered(t, [t EXCEPT !.staging[r] = NoStaging], t.there, t.gens, r, NoStaging)
           /\ t.there => Rendered(t, [t EXCEPT !.staging[r] = files], TRUE, t.gens, r, files)
           /\ t.there => Rendered(t, [[t EXCEPT !.staging[r] = NoStaging] EXCEPT !.gens = @ \cup more],
                                  TRUE, t.gens \cup more, r, NoStaging)
  <1>1. DOMAIN EmptyTree = DOMAIN t
    BY DEF IsTree
  <1>2. t.there \in BOOLEAN => t.there = TRUE \/ t.there = FALSE
    OBVIOUS
  <1>3. Rendered(t, [t EXCEPT !.there = TRUE, !.staging[r] = files], TRUE, t.gens, r, files)
    BY <1>1, TreeFields DEF Rendered, IsTree, SameValues
  <1>4. ASSUME ~t.there
        PROVE  [t EXCEPT !.staging[r] = NoStaging] = t
    <2>1. t = NoTree
      BY <1>4 DEF IsTree
    <2>2. NoTree.staging = [q \in Renderers |-> NoStaging]
      BY DEF NoTree, EmptyTree
    <2>3. DOMAIN t.staging = Renderers /\ t.staging[r] = NoStaging
      BY <2>1, <2>2
    <2>4. [t.staging EXCEPT ![r] = NoStaging] = t.staging
      BY <2>2, <2>1
    <2>5. [t EXCEPT !.staging[r] = NoStaging] = [t EXCEPT !.staging = t.staging]
      BY <2>4, Zenon
    <2>6. [t EXCEPT !.staging = t.staging] = t
      <3>1. t = [there |-> t.there, scripts |-> t.scripts, mods |-> t.mods, config |-> t.config, team |-> t.team,
                 user |-> t.user, custom |-> t.custom, ignore |-> t.ignore, gens |-> t.gens, staging |-> t.staging]
        BY <2>1 DEF NoTree, EmptyTree
      <3>2. QED
        BY <3>1
    <2>7. QED
      BY <2>5, <2>6
  <1>5. Rendered(t, [t EXCEPT !.staging[r] = NoStaging], t.there, t.gens, r, NoStaging)
    <2>1. CASE t.there
      BY <1>1, <2>1, TreeFields DEF Rendered, IsTree, SameValues
    <2>2. CASE ~t.there
      <3>1. t.staging = [t.staging EXCEPT ![r] = NoStaging]
        <4>1. [t EXCEPT !.staging[r] = NoStaging].staging = [t.staging EXCEPT ![r] = NoStaging]
          BY TreeFields
        <4>2. QED
          BY <4>1, <1>4, <2>2
      <3>2. QED
        BY <1>4, <2>2, <3>1 DEF Rendered, SameValues
    <2>3. QED
      BY <2>1, <2>2
  <1>6. t.there => Rendered(t, [t EXCEPT !.staging[r] = files], TRUE, t.gens, r, files)
    <2>1. SUFFICES ASSUME t.there PROVE t.there = TRUE /\ Rendered(t, [t EXCEPT !.staging[r] = files], t.there, t.gens, r, files)
      OBVIOUS
    <2>2. QED
      BY <1>1, <2>1, TreeFields DEF Rendered, IsTree, SameValues
  <1>7. t.there => Rendered(t, [[t EXCEPT !.staging[r] = NoStaging] EXCEPT !.gens = @ \cup more],
                            TRUE, t.gens \cup more, r, NoStaging)
    BY <1>1, TreeFields DEF Rendered, IsTree, SameValues
  <1>8. QED
    BY <1>3, <1>5, <1>6, <1>7

\* A plan whose values and renames are those of trees.
IsPlan(pl) ==
    /\ pl.team \in [Keys -> Nat] /\ pl.user \in [Keys -> Nat]
    /\ pl.renames \subseteq Names \X Names
    /\ \A r, o \in pl.renames : (r[2] = o[2] => r = o) /\ r[1] # o[2]

LEMMA StagedTree ==
    ASSUME NEW t, IsTree(t), NEW pl, IsPlan(pl)
    PROVE  LET u == Staged(pl, t)
           IN /\ IsTree(u) /\ u.there /\ u.gens = t.gens /\ u.staging = t.staging
              /\ u.team = StageTeam(pl, t) /\ u.user = StageUser(pl, t)
              /\ u.custom = StageCustom(pl, t) /\ u.mods = StageMods(pl, t)
              /\ u.scripts = "current" /\ u.config /\ u.ignore
  <1>1. DOMAIN t = {"there", "scripts", "mods", "config", "team", "user", "custom", "ignore", "gens", "staging"}
    BY DEF IsTree, EmptyTree
  <1>2. DOMAIN EmptyTree = DOMAIN t
    BY DEF IsTree
  <1>3. StageTeam(pl, t) \in [Keys -> Nat] /\ StageUser(pl, t) \in [Keys -> Nat] /\ DOMAIN StageMods(pl, t) = Codes
    BY DEF IsTree, IsPlan, StageTeam, StageUser, StageMods, Fill
  <1>4. StageCustom(pl, t) \in [Names -> Nat]
    <2>1. ASSUME NEW n \in Names, \E r \in pl.renames : r[2] = n
          PROVE  t.custom[(CHOOSE r \in pl.renames : r[2] = n)[1]] \in Nat
      <3>1. (CHOOSE r \in pl.renames : r[2] = n) \in Names \X Names
        BY <2>1 DEF IsPlan
      <3>2. QED
        BY <3>1 DEF IsTree
    <2>2. QED
      BY <2>1 DEF IsTree, StageCustom
  <1>5. QED
    BY <1>1, <1>2, <1>3, <1>4 DEF IsTree, Staged

-----------------------------------------------------------------------------
(* Names, records and plans. *)

\* A set of naturals that is not empty has a least member, and Min finds it.
LEMMA LeastNatural ==
    ASSUME NEW T, T \subseteq Nat, T # {}
    PROVE  Min(T) \in T /\ \A y \in T : Min(T) <= y
  <1>1. PICK R : /\ IsWellFoundedOn(R, Nat)
                 /\ \A x, y \in Nat : <<y, x>> \in R <=> y < x
    <2>1. \A x, y \in Nat : <<y, x>> \in OpToRel(<, Nat) <=> y < x
      BY DEF OpToRel
    <2>2. QED
      BY <2>1, NatLessThanWellFounded, Zenon
  <1>2. PICK x \in T : \A y \in T : ~(<<y, x>> \in R)
    BY <1>1, WFMin
  <1>3. ASSUME NEW y \in T
        PROVE  x <= y
    <2>1. x \in Nat /\ y \in Nat
      OBVIOUS
    <2>2. ~(y < x)
      BY <1>1, <1>2, <2>1, Zenon
    <2>3. QED
      BY <2>1, <2>2
  <1>4. \E z \in T : \A y \in T : z =< y
    BY <1>3
  <1>5. QED
    BY <1>4 DEF Min

LEMMA SkillFacts ==
    /\ Len(Skills) \in Nat /\ DOMAIN Skills = 1..Len(Skills)
    /\ \A n \in Names : \E i \in DOMAIN Skills : Skills[i] = n
    /\ \A i \in DOMAIN Skills : Skills[i] \in Names
    /\ NoName \notin Names
  BY InstallationAssumption DEF InstallationAssumption, Range, Names

\* Where a name stands in the order of the folders.
LEMMA PlaceOfName ==
    ASSUME NEW n \in Names
    PROVE  LET i == SelectInSeq(Skills, LAMBDA m : m = n)
           IN i \in Nat /\ i \in DOMAIN Skills /\ Skills[i] = n
  <1> DEFINE I == {i \in 1..Len(Skills) : Skills[i] = n}
  <1>1. SelectInSeq(Skills, LAMBDA m : m = n) = IF I # {} THEN Min(I) ELSE 0
    BY DEF SelectInSeq
  <1>2. I \subseteq Nat /\ I # {}
    BY SkillFacts
  <1>3. Min(I) \in I
    <2> HIDE DEF I
    <2>1. QED
      BY <1>2, LeastNatural
  <1>4. QED
    BY <1>1, <1>2, <1>3, SkillFacts

LEMMA FirstOfFound ==
    ASSUME NEW names, FirstOf(names) # NoName
    PROVE  FirstOf(names) \in names \cap Names
  <1> DEFINE I == {i \in 1..Len(Skills) : Skills[i] \in names}
             m == SelectInSeq(Skills, LAMBDA n : n \in names)
  <1>1. m = IF I # {} THEN Min(I) ELSE 0
    BY DEF SelectInSeq
  <1>2. FirstOf(names) = IF m = 0 THEN NoName ELSE Skills[m]
    BY DEF FirstOf
  <1>3. I \subseteq Nat
    OBVIOUS
  <1>4. I # {} /\ m = Min(I)
    <2> HIDE DEF m
    <2>1. QED
      BY <1>1, <1>2
  <1>5. Min(I) \in I
    <2> HIDE DEF I
    <2>1. QED
      BY <1>3, <1>4, LeastNatural
  <1>6. QED
    BY <1>2, <1>4, <1>5, SkillFacts

\* The record of an installed module parsed, so its package is one there is.
LEMMA RecordFound ==
    ASSUME NEW at, NEW c \in Modules(at)
    PROVE  /\ IsRecord(at, Record(at, c)) /\ Record(at, c) \in Names
           /\ RecordFile(at, c).code = c
           /\ \E p \in Places, n \in Names : RecordFile(at, c) = Content[<<p, n>>]
  <1>1. Record(at, c) \in Declaring(at, c) \cap Names
    BY FirstOfFound DEF Modules, Record
  <1>2. Good(RecordFile(at, c))
    BY <1>1 DEF Declaring, IsRecord, RecordFile
  <1>3. QED
    BY <1>1, <1>2 DEF Declaring, Good, GoodFiles, RecordFile

LEMMA QuestionFacts ==
    ASSUME NEW at, NEW codes \in SUBSET Modules(at), NEW c \in codes, NEW q \in RecordFile(at, c).questions
    PROVE  q.key \in Keys /\ q.key \notin TemplateKeys /\ q.scope \in {"team", "user"}
  <1>1. PICK p \in Places, n \in Names : RecordFile(at, c) = Content[<<p, n>>]
    BY RecordFound
  <1>2. QED
    BY <1>1, TreeAssumption DEF TreeAssumption

LEMMA FillFacts ==
    ASSUME NEW team \in [Keys -> Nat]
    PROVE  /\ Fill(Template, team) \in [Keys -> Nat]
           /\ \A k \in Keys : Fill(Template, team)[k] = IF team[k] # 0 THEN team[k] ELSE IF k \in TemplateKeys THEN 1 ELSE 0
  BY DEF Fill, Template

LEMMA AnsweredFacts ==
    ASSUME NEW table \in [Keys -> Nat], NEW questions
    PROVE  Answered(table, questions) \in [Keys -> Nat]
  BY DEF Answered

LEMMA FollowingFacts ==
    ASSUME NEW at, NEW codes \in SUBSET Modules(at), NEW t, IsTree(t)
    PROVE  /\ CustomRenames(at, codes, t) \subseteq RenamedBy(at, codes)
           /\ RenamedBy(at, codes) \subseteq Names \X Names
           /\ \A r \in CustomRenames(at, codes, t) : t.custom[r[1]] # 0 /\ t.custom[r[2]] = 0
           /\ \A r, o \in CustomRenames(at, codes, t) : (r[2] = o[2] => r = o) /\ r[1] # o[2]
  <1>1. RenamedBy(at, codes) \subseteq Names \X Names
    <2>1. ASSUME NEW f \in Retiring(at, codes)
          PROVE  f.renamed \subseteq Names \X Names
      <3>1. PICK c \in codes : f = RecordFile(at, c)
        BY <2>1 DEF Retiring
      <3>2. PICK p \in Places, n \in Names : RecordFile(at, c) = Content[<<p, n>>]
        BY RecordFound
      <3>3. QED
        BY <3>1, <3>2, TreeAssumption DEF TreeAssumption
    <2>2. QED
      BY <2>1 DEF RenamedBy
  <1>2. /\ CustomRenames(at, codes, t) \subseteq RenamedBy(at, codes)
        /\ \A r \in CustomRenames(at, codes, t) : t.custom[r[1]] # 0 /\ t.custom[r[2]] = 0
    BY DEF CustomRenames
  <1>3. ASSUME NEW r \in CustomRenames(at, codes, t), NEW o \in CustomRenames(at, codes, t), r[2] = o[2]
        PROVE  r = o
    <2> DEFINE i(x) == SelectInSeq(Skills, LAMBDA n : n = x[1])
    <2>1. i(r) <= i(o) /\ i(o) <= i(r)
      BY <1>3 DEF CustomRenames
    <2>2. r \in Names \X Names /\ o \in Names \X Names
      BY <1>1, <1>2
    <2>3. i(r) \in Nat /\ Skills[i(r)] = r[1]
      BY <2>2, PlaceOfName
    <2>4. i(o) \in Nat /\ Skills[i(o)] = o[1]
      BY <2>2, PlaceOfName
    <2> HIDE DEF i
    <2>5. r[1] = o[1]
      BY <2>1, <2>3, <2>4
    <2>6. QED
      BY <1>3, <2>2, <2>5
  <1>4. QED
    BY <1>1, <1>2, <1>3

-----------------------------------------------------------------------------
(* Where the values of the user are. *)

\* Tree t has value v in spot s.
Has(t, s, v) ==
    /\ t.there
    /\ CASE s[1] = "team" -> t.team[s[2]] = v
         [] s[1] = "user" -> t.user[s[2]] = v
         [] s[1] = "custom" -> \E n \in Names : t.custom[n] = v

\* Of the values m, tree u has what tree t has; t has none.
Covers(m, t, u) == \A s \in Spots : m[s] # 0 /\ Has(t, s, m[s]) => Has(u, s, m[s])
Lacks(m, t) == \A s \in Spots : m[s] # 0 => ~Has(t, s, m[s])

\* A plan would undo nothing that is in tree t.
Spares(pl, t) ==
    /\ pl.writesUser => \A k \in Keys : t.user[k] # 0 => pl.user[k] = t.user[k]
    /\ \A r \in pl.renames : t.custom[r[2]] = 0

LEMMA HoldsHas == \A t, s : Holds(t, s) <=> Has(t, s, mine[s])
  BY DEF Holds, Has

LEMMA SpotKinds ==
    ASSUME NEW s \in Spots
    PROVE  \/ s[1] \in {"team", "user"} /\ s[2] \in Keys
           \/ s[1] = "custom" /\ s[2] \in Names
  BY RuntimeAssumption DEF RuntimeAssumption

LEMMA NoTreeLacks ==
    ASSUME NEW t, IsTree(t), ~t.there \/ SameValues(NoTree, t), NEW s \in Spots, NEW v \in Nat, v # 0
    PROVE  ~Has(t, s, v)
  <1>1. CASE ~t.there
    BY <1>1 DEF Has
  <1>2. CASE SameValues(NoTree, t)
    BY <1>2, SpotKinds, TreeFacts DEF Has, SameValues
  <1>3. QED
    BY <1>1, <1>2

LEMMA HasSame ==
    ASSUME NEW t, NEW u, IsTree(t), IsTree(u), SameValues(t, u), t.there => u.there,
           NEW s \in Spots, NEW v \in Nat, v # 0
    PROVE  Has(t, s, v) <=> Has(u, s, v)
  <1>1. CASE t.there
    BY <1>1 DEF Has, SameValues
  <1>2. CASE ~t.there
    <2>1. t = NoTree
      BY <1>2 DEF IsTree
    <2>2. QED
      BY <1>2, <2>1, NoTreeLacks
  <1>3. QED
    BY <1>1, <1>2

\* Staging a tree keeps what is in it.
LEMMA StagedKeeps ==
    ASSUME NEW t, IsTree(t), NEW pl, IsPlan(pl), Spares(pl, t),
           NEW s \in Spots, NEW v \in Nat, v # 0, Has(t, s, v)
    PROVE  Has(Staged(pl, t), s, v)
  <1> DEFINE u == Staged(pl, t)
  <1>1. /\ u.there /\ u.team = StageTeam(pl, t) /\ u.user = StageUser(pl, t) /\ u.custom = StageCustom(pl, t)
    BY StagedTree
  <1> HIDE DEF u
  <1>2. CASE s[1] = "team"
    <2>1. s[2] \in Keys
      BY <1>2, SpotKinds
    <2>2. QED
      BY <1>1, <1>2, <2>1 DEF Has, StageTeam, Fill, IsTree, u
  <1>3. CASE s[1] = "user"
    <2>1. s[2] \in Keys
      BY <1>3, SpotKinds
    <2>2. QED
      BY <1>1, <1>3, <2>1 DEF Has, StageUser, Spares, u
  <1>4. CASE s[1] = "custom"
    <2>1. PICK n \in Names : t.custom[n] = v
      BY <1>4 DEF Has
    <2>2. \A r \in pl.renames : r[2] # n
      BY <2>1 DEF Spares
    <2>3. CASE \E r \in pl.renames : r[1] = n
      <3>1. PICK r \in pl.renames : r[1] = n
        BY <2>3
      <3>2. r[2] \in Names
        BY DEF IsPlan
      <3>3. (CHOOSE o \in pl.renames : o[2] = r[2]) = r
        BY DEF IsPlan
      <3>4. StageCustom(pl, t)[r[2]] = v
        BY <2>1, <3>1, <3>2, <3>3 DEF StageCustom
      <3>5. QED
        BY <1>1, <1>4, <3>2, <3>4 DEF Has, u
    <2>4. CASE ~ \E r \in pl.renames : r[1] = n
      <3>1. StageCustom(pl, t)[n] = v
        BY <2>1, <2>2, <2>4 DEF StageCustom
      <3>2. QED
        BY <1>1, <1>4, <3>1 DEF Has, u
    <2>5. QED
      BY <2>3, <2>4
  <1>5. QED
    BY <1>2, <1>3, <1>4, SpotKinds

-----------------------------------------------------------------------------
(* The invariants. *)

Stations == {"idle", "plan", "copy", "stage", "swap", "movein", "drop", "output"}

Shaped ==
    /\ IsTree(bmad)
    /\ DOMAIN aside = Seconds /\ \A b \in Seconds : IsTree(aside[b])
    /\ spc \in [Setups -> Stations]
    /\ DOMAIN plan = Setups /\ \A p \in Setups : DOMAIN plan[p] = DOMAIN NoPlan
    /\ DOMAIN stage = Setups /\ \A p \in Setups : IsTree(stage[p])
    /\ \A p \in Setups : /\ spc[p] # "idle" => plan[p].codes \subseteq Modules(Across(disk))
                         /\ Underway(p) => IsPlan(plan[p])
                         /\ spc[p] \in {"stage", "swap", "movein"} => stage[p].there
    /\ rpc \in [Renderers -> {"idle", "custom", "render", "publish", "write", "rename"}]
    /\ DOMAIN values = Renderers /\ DOMAIN todo = Renderers
    /\ edits \in Nat /\ mine \in [Spots -> Nat]

\* The folder a setup has moved aside and will deal with.
Moved(p) == IF spc[p] \in {"movein", "drop"} THEN plan[p].moved ELSE 0

Ordered ==
    \A p \in Setups :
      /\ spc[p] \notin {"movein", "drop", "output"} => plan[p].moved = 0
      /\ Moved(p) \in Seconds \cup {0}
      /\ Moved(p) # 0 => aside[Moved(p)].there
      /\ spc[p] = "drop" => Moved(p) # 0
      /\ \A q \in Setups : Moved(p) # 0 /\ Moved(q) = Moved(p) => q = p

\* Without a clash all setups but one wait at their copy.
Apart ==
    clashed \/ \A p, q \in Setups :
      Underway(p) /\ Underway(q) => p = q \/ spc[p] = "copy" \/ spc[q] = "copy"

\* Every value of the user is in _bmad, or aside and not about to go; and what a setup
\* under way will move in has what _bmad has, or had.
Tended(p) ==
    /\ spc[p] = "copy" => Spares(plan[p], bmad)
    /\ spc[p] = "stage" => Spares(plan[p], stage[p])
    /\ spc[p] \in {"stage", "swap"} => Covers(mine, bmad, stage[p])
    /\ spc[p] = "movein" => /\ Lacks(mine, bmad)
                            /\ Moved(p) # 0 => Covers(mine, aside[Moved(p)], stage[p])

Safe(s) ==
    \/ mine[s] = 0 \/ Has(bmad, s, mine[s])
    \/ \E b \in Seconds : /\ Has(aside[b], s, mine[s])
                          /\ \A p \in Setups : spc[p] = "drop" => Moved(p) # b

Guarded == clashed \/ raced \/ ((\A p \in Setups : Tended(p)) /\ \A s \in Spots : Safe(s))

\* What is aside has its setup, and nothing is in the way of what it moves in.
Owned ==
    clashed \/ stolen \/ killed \/
    /\ \A b \in Seconds : aside[b].there => \E p \in Setups : Moved(p) = b
    /\ \A p \in Setups : spc[p] = "movein" => ~bmad.there

TreeInv == Shaped /\ Ordered /\ Apart /\ Guarded /\ Owned

-----------------------------------------------------------------------------
(* Renders. *)

LEMMA RenderTreeStep ==
    ASSUME Shaped, NEW r \in Renderers, RenderStep(r) \/ KillRender(r)
    PROVE  \/ bmad' = bmad
           \/ \E there \in BOOLEAN : \E gens, files :
                /\ Rendered(bmad, bmad', there, gens, r, files)
                /\ bmad.there => there
  <1>1. IsTree(bmad)
    BY DEF Shaped
  <1>2. bmad.staging[r] # NoStaging => bmad.there
    BY <1>1 DEF IsTree, NoTree, EmptyTree
  <1>3. Rendered(bmad, Unstaged(r, bmad), bmad.there, bmad.gens, r, NoStaging) /\ bmad.there \in BOOLEAN
    BY <1>1, RenderedTree DEF Unstaged, IsTree
  <1>4. CASE ReadConfig(r) \/ ReadCustom(r) \/ Pass(r) \/ KillRender(r)
    BY <1>4 DEF ReadConfig, ReadCustom, Pass, KillRender
  <1>5. CASE Begin(r)
    <2>1. CASE Generation(bmad, Key(r)) # {}
      BY <1>3, <1>5, <2>1 DEF Begin, Verify
    <2>2. CASE Generation(bmad, Key(r)) = {}
      <3>1. bmad' = [bmad EXCEPT !.there = TRUE, !.staging[r] = {}]
        BY <1>5, <2>2 DEF Begin
      <3>2. QED
        BY <1>1, <3>1, RenderedTree
    <2>3. QED
      BY <2>1, <2>2
  <1>6. CASE WriteSource(r)
    <2>1. PICK f \in todo[r] :
            bmad' = [bmad EXCEPT !.there = TRUE,
                       !.staging[r] = (IF @ = NoStaging THEN {} ELSE @) \cup {Made(f, Key(r))}]
      BY <1>6 DEF WriteSource
    <2> DEFINE F == (IF bmad.staging[r] = NoStaging THEN {} ELSE bmad.staging[r]) \cup {Made(f, Key(r))}
    <2>2. bmad' = [bmad EXCEPT !.there = TRUE, !.staging[r] = F]
      BY <1>1, <2>1, TreeFields
    <2>3. QED
      BY <1>1, <2>2, RenderedTree
  <1>7. CASE WriteManifest(r)
    <2>1. CASE bmad.staging[r] = NoStaging
      BY <1>3, <1>7, <2>1 DEF WriteManifest, Halt
    <2>2. CASE bmad.staging[r] # NoStaging
      <3> DEFINE F == bmad.staging[r] \cup {Made(Manifest, Key(r))}
      <3>1. bmad' = [bmad EXCEPT !.staging[r] = F]
        BY <1>1, <1>7, <2>2, TreeFields DEF WriteManifest
      <3>2. QED
        BY <1>1, <1>2, <2>2, <3>1, RenderedTree
    <2>3. QED
      BY <2>1, <2>2
  <1>8. CASE Publish(r)
    <2>1. CASE Generation(bmad, Key(r)) # {} \/ bmad.staging[r] = NoStaging
      BY <1>3, <1>8, <2>1 DEF Publish, Verify, Halt
    <2>2. CASE Generation(bmad, Key(r)) = {} /\ bmad.staging[r] # NoStaging
      <3> DEFINE G == {[key |-> Key(r), files |-> bmad.staging[r]]}
      <3>1. bmad' = [[bmad EXCEPT !.staging[r] = NoStaging] EXCEPT !.gens = @ \cup G]
        BY <1>8, <2>2 DEF Publish, Unstaged
      <3>2. QED
        BY <1>1, <1>2, <2>2, <3>1, RenderedTree
    <2>3. QED
      BY <2>1, <2>2
  <1>9. QED
    BY <1>4, <1>5, <1>6, <1>7, <1>8 DEF RenderStep

\* A render leaves alone what setups and users write.
Aloof ==
    /\ IsTree(bmad') /\ SameValues(bmad, bmad') /\ (bmad.there => bmad'.there)
    /\ UNCHANGED <<disk, aside, spc, plan, stage, edits, mine, clashed, raced>>
    /\ (stolen \/ (~bmad.there /\ bmad'.there) => stolen') /\ (killed => killed')
    /\ rpc' \in [Renderers -> {"idle", "custom", "render", "publish", "write", "rename"}]
    /\ DOMAIN values' = Renderers /\ DOMAIN todo' = Renderers

LEMMA RenderShapes ==
    ASSUME Shaped, NEW r \in Renderers, RenderStep(r) \/ KillRender(r)
    PROVE  /\ rpc' \in [Renderers -> {"idle", "custom", "render", "publish", "write", "rename"}]
           /\ DOMAIN values' = Renderers /\ DOMAIN todo' = Renderers
  <1>1. Rest(r) => rpc' = [rpc EXCEPT ![r] = "idle"] /\ DOMAIN values' = Renderers /\ DOMAIN todo' = Renderers
    BY DEF Rest, At, Shaped
  <1>2. CASE ReadConfig(r) \/ ReadCustom(r)
    BY <1>2 DEF ReadConfig, ReadCustom, At, Shaped
  <1>3. CASE Pass(r) \/ KillRender(r)
    BY <1>1, <1>3 DEF Pass, KillRender, At, Shaped
  <1>4. CASE Begin(r)
    BY <1>1, <1>4 DEF Begin, Verify, At, Shaped
  <1>5. CASE WriteSource(r)
    BY <1>5 DEF WriteSource, Shaped
  <1>6. CASE WriteManifest(r)
    BY <1>1, <1>6 DEF WriteManifest, Halt, At, Shaped
  <1>7. CASE Publish(r)
    BY <1>1, <1>7 DEF Publish, Verify, Halt, Shaped
  <1>8. QED
    BY <1>2, <1>3, <1>4, <1>5, <1>6, <1>7 DEF RenderStep

LEMMA RendersAreAloof ==
    ASSUME Shaped, NEW r \in Renderers, Render(r) \/ Crash(r)
    PROVE  Aloof
  <1>1. RenderStep(r) \/ KillRender(r)
    BY DEF Render, Crash
  <1>2. IsTree(bmad') /\ SameValues(bmad, bmad') /\ (bmad.there => bmad'.there)
    <2>1. CASE bmad' = bmad
      BY <2>1 DEF Shaped, SameValues
    <2>2. CASE bmad' # bmad
      BY <1>1, <2>2, RenderTreeStep DEF Rendered
    <2>3. QED
      BY <2>1, <2>2
  <1>3. /\ UNCHANGED <<disk, aside, spc, plan, stage, edits, mine, clashed, raced>>
        /\ (stolen \/ (~bmad.there /\ bmad'.there) => stolen') /\ (killed => killed')
    <2>1. CASE Render(r)
      BY <2>1 DEF Render, setupVars, boundVars
    <2>2. CASE Crash(r)
      BY <2>2 DEF Crash, KillRender, setupVars, histVars
    <2>3. QED
      BY <2>1, <2>2
  <1>4. QED
    BY <1>1, <1>2, <1>3, RenderShapes DEF Aloof

LEMMA AloofKeeps ==
    ASSUME TreeInv, Aloof
    PROVE  TreeInv'
  <1>1. Shaped' /\ Ordered' /\ Apart'
    BY DEF TreeInv, Shaped, Ordered, Apart, Aloof, Moved, Underway
  <1>2. ASSUME NEW s \in Spots, mine[s] # 0
        PROVE  Has(bmad', s, mine[s]) <=> Has(bmad, s, mine[s])
    <2>1. mine[s] \in Nat
      BY DEF TreeInv, Shaped
    <2>2. IsTree(bmad) /\ IsTree(bmad') /\ SameValues(bmad, bmad') /\ (bmad.there => bmad'.there)
      BY DEF TreeInv, Shaped, Aloof
    <2>3. QED
      BY <1>2, <2>1, <2>2, HasSame
  <1>3. ASSUME ~clashed, ~raced
        PROVE  Guarded'
    <2>1. ASSUME NEW p \in Setups
          PROVE  Tended(p)'
      <3>1. Tended(p)
        BY <1>3 DEF TreeInv, Guarded
      <3>2. spc[p] = "copy" => Spares(plan[p], bmad')
        BY <3>1 DEF Tended, Spares, Aloof, SameValues
      <3>3. spc[p] \in {"stage", "swap"} => Covers(mine, bmad', stage[p])
        BY <1>2, <3>1 DEF Tended, Covers
      <3>4. spc[p] = "movein" => Lacks(mine, bmad')
        BY <1>2, <3>1 DEF Tended, Lacks
      <3>5. Moved(p)' = Moved(p)
        BY DEF Moved, Aloof
      <3>6. QED
        BY <3>1, <3>2, <3>3, <3>4, <3>5 DEF Tended, Aloof
    <2>2. ASSUME NEW s \in Spots
          PROVE  Safe(s)'
      <3>1. Safe(s)
        BY <1>3 DEF TreeInv, Guarded
      <3>2. \A p \in Setups : Moved(p)' = Moved(p)
        BY DEF Moved, Aloof
      <3>3. QED
        BY <1>2, <3>1, <3>2 DEF Safe, Aloof
    <2>3. QED
      BY <2>1, <2>2 DEF Guarded
  <1>4. Guarded'
    BY <1>3 DEF Guarded, Aloof
  <1>5. Owned'
    <2>1. SUFFICES ASSUME ~clashed', ~stolen', ~killed'
                   PROVE  /\ \A b \in Seconds : aside'[b].there => \E p \in Setups : Moved(p)' = b
                          /\ \A p \in Setups : spc'[p] = "movein" => ~bmad'.there
      BY DEF Owned
    <2>2. ~clashed /\ ~stolen /\ ~killed /\ ~(~bmad.there /\ bmad'.there)
      BY <2>1 DEF Aloof
    <2>3. /\ \A b \in Seconds : aside[b].there => \E p \in Setups : Moved(p) = b
          /\ \A p \in Setups : spc[p] = "movein" => ~bmad.there
      BY <2>2 DEF TreeInv, Owned
    <2>4. QED
      BY <2>2, <2>3 DEF Aloof, Moved
  <1>6. QED
    BY <1>1, <1>4, <1>5 DEF TreeInv

-----------------------------------------------------------------------------
(* Edits. *)

LEMMA SavedFacts ==
    ASSUME TreeInv, NEW spot \in Spots, Edit(spot)
    PROVE  LET v == edits + 2 IN
           /\ v \in Nat /\ v # 0 /\ bmad.there /\ bmad'.there /\ IsTree(bmad')
           /\ Has(bmad', spot, v) /\ mine'[spot] = v
           /\ mine' \in [Spots -> Nat]
           /\ \A s \in Spots : mine'[s] # 0 /\ s # spot =>
                mine'[s] = mine[s] /\ (Has(bmad, s, mine[s]) => Has(bmad', s, mine[s]))
           /\ spot[1] # "user" => bmad'.user = bmad.user
           /\ \A n \in Names : spot[1] # "custom" \/ spot[2] # n => bmad'.custom[n] = bmad.custom[n]
           /\ bmad'.gens = bmad.gens /\ bmad'.staging = bmad.staging
  <1> DEFINE v == edits + 2
  <1>1. v \in Nat /\ v # 0 /\ bmad.there /\ IsTree(bmad) /\ mine \in [Spots -> Nat]
    BY DEF TreeInv, Shaped, Edit
  <1>2. mine' = [s \in Spots |->
                  IF s = spot THEN v
                  ELSE IF spot[1] = "custom" /\ s[1] = "custom" /\ mine[s] = bmad.custom[spot[2]]
                  THEN 0 ELSE mine[s]]
    BY DEF Edit
  <1>3. \A s \in Spots : s = <<s[1], s[2]>>
    BY RuntimeAssumption DEF RuntimeAssumption
  <1> HIDE DEF v
  <1>4. mine' \in [Spots -> Nat] /\ mine'[spot] = v
    BY <1>1, <1>2
  <1>5. CASE spot[1] = "team"
    <2>1. bmad' = [bmad EXCEPT !.config = TRUE, !.team[spot[2]] = v]
      BY <1>5 DEF Edit, v
    <2>2. spot[2] \in Keys
      BY <1>5, SpotKinds
    <2>3. /\ IsTree(bmad') /\ bmad'.there /\ bmad'.team = [bmad.team EXCEPT ![spot[2]] = v]
          /\ bmad'.user = bmad.user /\ bmad'.custom = bmad.custom
          /\ bmad'.gens = bmad.gens /\ bmad'.staging = bmad.staging
      <3>1. IsTree(bmad) /\ bmad.there /\ v \in Nat
        BY <1>1
      <3>2. DOMAIN EmptyTree = DOMAIN bmad
        BY <3>1 DEF IsTree
      <3> HIDE DEF v
      <3>3. QED
        BY <3>1, <3>2, <2>1, <2>2, TreeFields DEF IsTree
    <2>4. ASSUME NEW s \in Spots, mine'[s] # 0, s # spot
          PROVE  mine'[s] = mine[s] /\ (Has(bmad, s, mine[s]) => Has(bmad', s, mine[s]))
      <3>1. mine'[s] = mine[s]
        BY <1>2, <1>5, <2>4
      <3>2. s[1] = "team" => s[2] # spot[2]
        BY <1>3, <1>5, <2>4
      <3>3. bmad.team \in [Keys -> Nat]
        BY <1>1 DEF IsTree
      <3>4. QED
        BY <2>3, <3>1, <3>2, <3>3, SpotKinds DEF Has
    <2>5. bmad.team \in [Keys -> Nat]
      BY <1>1 DEF IsTree
    <2>6. Has(bmad', spot, v)
      BY <1>1, <1>5, <2>2, <2>3, <2>5 DEF Has
    <2>7. QED
      BY <1>1, <1>4, <1>5, <2>3, <2>4, <2>6 DEF v
  <1>6. CASE spot[1] = "user"
    <2>1. bmad' = [bmad EXCEPT !.user[spot[2]] = v]
      BY <1>6 DEF Edit, v
    <2>2. spot[2] \in Keys
      BY <1>6, SpotKinds
    <2>3. /\ IsTree(bmad') /\ bmad'.there /\ bmad'.user = [bmad.user EXCEPT ![spot[2]] = v]
          /\ bmad'.team = bmad.team /\ bmad'.custom = bmad.custom
          /\ bmad'.gens = bmad.gens /\ bmad'.staging = bmad.staging
      <3>1. IsTree(bmad) /\ bmad.there /\ v \in Nat
        BY <1>1
      <3>2. DOMAIN EmptyTree = DOMAIN bmad
        BY <3>1 DEF IsTree
      <3> HIDE DEF v
      <3>3. QED
        BY <3>1, <3>2, <2>1, <2>2, TreeFields DEF IsTree
    <2>4. ASSUME NEW s \in Spots, mine'[s] # 0, s # spot
          PROVE  mine'[s] = mine[s] /\ (Has(bmad, s, mine[s]) => Has(bmad', s, mine[s]))
      <3>1. mine'[s] = mine[s]
        BY <1>2, <1>6, <2>4
      <3>2. s[1] = "user" => s[2] # spot[2]
        BY <1>3, <1>6, <2>4
      <3>3. bmad.user \in [Keys -> Nat]
        BY <1>1 DEF IsTree
      <3>4. QED
        BY <2>3, <3>1, <3>2, <3>3, SpotKinds DEF Has
    <2>5. bmad.user \in [Keys -> Nat]
      BY <1>1 DEF IsTree
    <2>6. Has(bmad', spot, v)
      BY <1>1, <1>6, <2>2, <2>3, <2>5 DEF Has
    <2>7. QED
      BY <1>1, <1>4, <1>6, <2>3, <2>4, <2>6 DEF v
  <1>7. CASE spot[1] = "custom"
    <2>1. bmad' = [bmad EXCEPT !.custom[spot[2]] = v]
      BY <1>7 DEF Edit, v
    <2>2. spot[2] \in Names
      BY <1>7, SpotKinds
    <2>3. /\ IsTree(bmad') /\ bmad'.there /\ bmad'.custom = [bmad.custom EXCEPT ![spot[2]] = v]
          /\ bmad'.team = bmad.team /\ bmad'.user = bmad.user
          /\ bmad'.gens = bmad.gens /\ bmad'.staging = bmad.staging
      <3>1. IsTree(bmad) /\ bmad.there /\ v \in Nat
        BY <1>1
      <3>2. DOMAIN EmptyTree = DOMAIN bmad
        BY <3>1 DEF IsTree
      <3> HIDE DEF v
      <3>3. QED
        BY <3>1, <3>2, <2>1, <2>2, TreeFields DEF IsTree
    <2>4. bmad.custom \in [Names -> Nat]
      BY <1>1 DEF IsTree
    <2>5. ASSUME NEW s \in Spots, mine'[s] # 0, s # spot
          PROVE  mine'[s] = mine[s] /\ (Has(bmad, s, mine[s]) => Has(bmad', s, mine[s]))
      <3>1. mine'[s] = mine[s] /\ (s[1] = "custom" => mine[s] # bmad.custom[spot[2]])
        BY <1>2, <1>7, <2>5
      <3>2. ASSUME s[1] = "custom", NEW n \in Names, bmad.custom[n] = mine[s]
            PROVE  bmad'.custom[n] = mine[s]
        BY <2>2, <2>3, <2>4, <3>1, <3>2
      <3>3. QED
        BY <2>3, <3>1, <3>2, SpotKinds DEF Has
    <2>6. Has(bmad', spot, v)
      BY <1>1, <1>7, <2>2, <2>3, <2>4 DEF Has
    <2>7. QED
      BY <1>1, <1>4, <1>7, <2>2, <2>3, <2>4, <2>5, <2>6 DEF v
  <1>8. QED
    BY <1>5, <1>6, <1>7, SpotKinds

LEMMA EditKeeps ==
    ASSUME TreeInv, NEW spot \in Spots, Edit(spot)
    PROVE  TreeInv'
  <1> DEFINE v == edits + 2
  <1>1. /\ v # 0 /\ bmad.there /\ bmad'.there /\ IsTree(bmad')
        /\ Has(bmad', spot, v) /\ mine'[spot] = v
        /\ mine' \in [Spots -> Nat]
        /\ \A s \in Spots : mine'[s] # 0 /\ s # spot =>
             mine'[s] = mine[s] /\ (Has(bmad, s, mine[s]) => Has(bmad', s, mine[s]))
        /\ spot[1] # "user" => bmad'.user = bmad.user
        /\ \A n \in Names : spot[1] # "custom" \/ spot[2] # n => bmad'.custom[n] = bmad.custom[n]
    BY SavedFacts
  <1> HIDE DEF v
  <1>2. /\ UNCHANGED <<disk, aside, spc, plan, stage, rpc, values, todo, clashed, stolen, killed>>
        /\ edits' = edits + 1
        /\ ~raced' => /\ ~raced
                      /\ \A p \in Setups :
                           /\ spc[p] \notin {"stage", "swap", "movein"}
                           /\ spc[p] = "copy" => /\ ~(spot[1] = "user" /\ plan[p].writesUser)
                                                 /\ spot[1] = "custom" => \A q \in plan[p].renames : q[2] # spot[2]
    BY DEF Edit, setupVars, renderVars
  <1>3. \A p \in Setups : Moved(p)' = Moved(p)
    BY <1>2 DEF Moved
  <1>4. Shaped' /\ Ordered' /\ Apart'
    BY <1>1, <1>2, <1>3 DEF TreeInv, Shaped, Ordered, Apart, Underway
  <1>5. ASSUME ~clashed, ~raced'
        PROVE  Guarded'
    <2>1. ASSUME NEW p \in Setups
          PROVE  Tended(p)'
      <3>1. Tended(p) /\ spc[p] \notin {"stage", "swap", "movein"}
        BY <1>2, <1>5 DEF TreeInv, Guarded
      <3>2. ASSUME spc[p] = "copy"
            PROVE  Spares(plan[p], bmad')
        <4>1. Spares(plan[p], bmad) /\ plan[p].renames \subseteq Names \X Names
          BY <3>1, <3>2 DEF Tended, TreeInv, Shaped, Underway, IsPlan
        <4>2. /\ plan[p].writesUser => bmad'.user = bmad.user
              /\ \A q \in plan[p].renames : bmad'.custom[q[2]] = bmad.custom[q[2]]
          BY <1>1, <1>2, <1>5, <3>2, <4>1
        <4>3. QED
          BY <4>1, <4>2 DEF Spares
      <3>3. QED
        BY <1>2, <3>1, <3>2 DEF Tended
    <2>2. ASSUME NEW s \in Spots
          PROVE  Safe(s)'
      <3>1. Safe(s)
        BY <1>2, <1>5 DEF TreeInv, Guarded
      <3>2. QED
        BY <1>1, <1>2, <1>3, <3>1 DEF Safe
    <2>3. QED
      BY <2>1, <2>2 DEF Guarded
  <1>6. Guarded'
    BY <1>2, <1>5 DEF Guarded
  <1>7. Owned'
    BY <1>1, <1>2, <1>3 DEF TreeInv, Owned
  <1>8. QED
    BY <1>4, <1>6, <1>7 DEF TreeInv

-----------------------------------------------------------------------------
(* Setups. *)

\* A step of one setup that leaves the rest alone.
Stands(p) ==
    /\ UNCHANGED <<disk, renderVars, edits, mine, raced>>
    /\ \A q \in Setups \ {p} : spc'[q] = spc[q] /\ plan'[q] = plan[q] /\ stage'[q] = stage[q]
    /\ (clashed => clashed') /\ (stolen => stolen') /\ (killed => killed')

\* It ends, and nothing else changes; what it has aside it leaves only if killed.
LEMMA StopKeeps ==
    ASSUME TreeInv, NEW p \in Setups, Stop(p), Stands(p), UNCHANGED <<bmad, aside>>,
           Moved(p) # 0 => clashed' \/ stolen' \/ killed'
    PROVE  TreeInv'
  <1>1. /\ spc' = [spc EXCEPT ![p] = "idle"] /\ plan' = [plan EXCEPT ![p] = NoPlan]
        /\ stage' = [stage EXCEPT ![p] = NoTree]
    BY DEF Stop, To
  <1>2. /\ spc \in [Setups -> Stations] /\ DOMAIN plan = Setups /\ DOMAIN stage = Setups
    BY DEF TreeInv, Shaped
  <1>3. /\ spc'[p] = "idle" /\ plan'[p] = NoPlan /\ stage'[p] = NoTree
    BY <1>1, <1>2
  <1>4. \A q \in Setups \ {p} : spc'[q] = spc[q] /\ plan'[q] = plan[q] /\ stage'[q] = stage[q]
    BY DEF Stands
  <1>5. Shaped'
    <2>1. spc' \in [Setups -> Stations] /\ DOMAIN plan' = Setups /\ DOMAIN stage' = Setups
      BY <1>1, <1>2 DEF Stations
    <2>2. IsTree(NoTree)
      BY TreeFacts
    <2>3. \A q \in Setups : DOMAIN plan'[q] = DOMAIN NoPlan /\ IsTree(stage'[q])
      BY <1>3, <1>4, <2>2 DEF TreeInv, Shaped
    <2>4. \A q \in Setups : /\ spc'[q] # "idle" => plan'[q].codes \subseteq Modules(Across(disk))
                            /\ Underway(q)' => IsPlan(plan'[q])
                            /\ spc'[q] \in {"stage", "swap", "movein"} => stage'[q].there
      BY <1>3, <1>4 DEF TreeInv, Shaped, Underway
    <2>5. QED
      BY <2>1, <2>3, <2>4 DEF TreeInv, Shaped, Stands, renderVars
  <1>6. Moved(p)' = 0 /\ \A q \in Setups \ {p} : Moved(q)' = Moved(q)
    BY <1>3, <1>4 DEF Moved
  <1>7. Ordered'
    BY <1>3, <1>4, <1>6 DEF TreeInv, Ordered, NoPlan
  <1>8. Apart'
    BY <1>3, <1>4 DEF TreeInv, Apart, Underway, Stands
  <1>9. Guarded'
    <2>1. \A q \in Setups : Tended(q) => Tended(q)'
      BY <1>3, <1>4, <1>6 DEF Tended, Stands
    <2>2. \A s \in Spots : Safe(s) => Safe(s)'
      BY <1>3, <1>4, <1>6 DEF Safe, Stands
    <2>3. QED
      BY <2>1, <2>2 DEF TreeInv, Guarded, Stands
  <1>10. Owned'
    BY <1>3, <1>4, <1>6 DEF TreeInv, Owned, Stands
  <1>11. QED
    BY <1>5, <1>7, <1>8, <1>9, <1>10 DEF TreeInv

\* A step to another place that touches neither _bmad nor what is aside.
LEMMA MoveKeeps ==
    ASSUME TreeInv, NEW p \in Setups, NEW where \in Stations, To(p, where), Stands(p), UNCHANGED <<bmad, aside>>,
           DOMAIN plan' = Setups, DOMAIN plan'[p] = DOMAIN NoPlan, DOMAIN stage' = Setups, IsTree(stage'[p]),
           where # "idle", plan'[p].codes \subseteq Modules(Across(disk)),
           Underway(p)' => IsPlan(plan'[p]), plan'[p].moved = plan[p].moved,
           where \in {"stage", "swap", "movein"} => stage'[p].there,
           spc[p] \notin {"movein", "drop", "output"}, where # "drop",
           where = "movein" => ~bmad.there,
           ~clashed' /\ Underway(p)' /\ where # "copy" =>
             \A q \in Setups : Underway(q) => q = p,
           ~clashed' /\ ~raced => Tended(p)'
    PROVE  TreeInv'
  <1>1. /\ spc' = [spc EXCEPT ![p] = where] /\ spc \in [Setups -> Stations]
    BY DEF To, TreeInv, Shaped
  <1>2. spc'[p] = where
    BY <1>1
  <1>3. \A q \in Setups \ {p} : spc'[q] = spc[q] /\ plan'[q] = plan[q] /\ stage'[q] = stage[q]
    BY DEF Stands
  <1>4. Shaped'
    <2>1. spc' \in [Setups -> Stations]
      BY <1>1
    <2>2. \A q \in Setups : DOMAIN plan'[q] = DOMAIN NoPlan /\ IsTree(stage'[q])
      BY <1>3 DEF TreeInv, Shaped
    <2>3. \A q \in Setups : /\ spc'[q] # "idle" => plan'[q].codes \subseteq Modules(Across(disk))
                            /\ Underway(q)' => IsPlan(plan'[q])
                            /\ spc'[q] \in {"stage", "swap", "movein"} => stage'[q].there
      BY <1>2, <1>3 DEF TreeInv, Shaped, Underway
    <2>4. QED
      BY <2>1, <2>2, <2>3 DEF TreeInv, Shaped, Stands, renderVars
  <1>5. \A q \in Setups \ {p} : Moved(q)' = Moved(q)
    BY <1>3 DEF Moved
  <1>6. Moved(p)' = Moved(p)
    BY <1>2 DEF Moved, TreeInv, Ordered
  <1>7. Ordered'
    <2>1. plan'[p].moved = 0
      BY DEF TreeInv, Ordered
    <2>2. QED
      BY <1>2, <1>3, <1>5, <1>6, <2>1 DEF TreeInv, Ordered
  <1>8. Apart'
    BY <1>2, <1>3 DEF TreeInv, Apart, Underway, Stands
  <1>9. Guarded'
    <2>1. \A q \in Setups \ {p} : Tended(q) => Tended(q)'
      BY <1>3, <1>5 DEF Tended, Stands
    <2>2. \A s \in Spots : Safe(s) => Safe(s)'
      BY <1>2, <1>3, <1>5, <1>6 DEF Safe, Stands
    <2>3. QED
      BY <2>1, <2>2 DEF TreeInv, Guarded, Stands
  <1>10. Owned'
    BY <1>2, <1>3, <1>5, <1>6 DEF TreeInv, Owned, Stands
  <1>11. QED
    BY <1>4, <1>7, <1>8, <1>9, <1>10 DEF TreeInv

LEMMA SetupStands ==
    ASSUME TreeInv, NEW p \in Setups, Setup(p) \/ Kill(p)
    PROVE  /\ Stands(p)
           /\ Setup(p) /\ ~clashed' /\ Underway(p) => \A q \in Setups : Underway(q) => q = p
           /\ Setup(p) => UNCHANGED <<stolen, killed>>
  <1>1. UNCHANGED <<renderVars, edits, mine, raced, stolen>>
    BY DEF Setup, Kill
  <1>2. (clashed => clashed') /\ (stolen => stolen') /\ (killed => killed')
    <2>1. CASE Setup(p)
      BY <2>1, Zenon DEF Setup
    <2>2. CASE Kill(p)
      BY <2>2, Zenon DEF Kill
    <2>3. QED
      BY <2>1, <2>2
  <1>3. Stop(p) => \A q \in Setups \ {p} : spc'[q] = spc[q] /\ plan'[q] = plan[q] /\ stage'[q] = stage[q]
    BY DEF Stop, To, TreeInv, Shaped
  <1>4. \A where : To(p, where) => \A q \in Setups \ {p} : spc'[q] = spc[q]
    BY DEF To, TreeInv, Shaped
  <1>5. DOMAIN plan = Setups /\ DOMAIN stage = Setups
    BY DEF TreeInv, Shaped
  <1> DEFINE Others == UNCHANGED disk /\ \A q \in Setups \ {p} : spc'[q] = spc[q] /\ plan'[q] = plan[q] /\ stage'[q] = stage[q]
  <1>6. SetupStep(p) \/ KillSetup(p) => Others
    <2>1. ASSUME NEW codes, Ask(p, codes) PROVE Others
      BY <1>4, <1>5, <2>1 DEF Ask, sharedVars
    <2>2. CASE Plan(p)
      BY <1>3, <1>4, <1>5, <2>2 DEF Plan, sharedVars
    <2>3. CASE Copy(p) \/ DropAside(p)
      BY <1>4, <1>5, <2>3 DEF Copy, DropAside, sharedVars
    <2>4. CASE Stage(p)
      BY <1>3, <1>4, <1>5, <2>4 DEF Stage, sharedVars
    <2>5. CASE MoveAside(p)
      BY <1>3, <1>4, <1>5, <2>5 DEF MoveAside, sharedVars
    <2>6. CASE MoveIn(p)
      BY <1>3, <1>4, <1>5, <2>6 DEF MoveIn, sharedVars
    <2>7. CASE MoveInFails(p) \/ Output(p) \/ Fail(p) \/ KillSetup(p)
      BY <1>3, <2>7 DEF MoveInFails, Output, Fail, KillSetup, sharedVars
    <2>8. QED
      BY <2>1, <2>2, <2>3, <2>4, <2>5, <2>6, <2>7 DEF SetupStep
  <1>7. Others
    BY <1>6 DEF Setup, Kill
  <1>8. Setup(p) /\ ~clashed' /\ Underway(p) => \A q \in Setups : Underway(q) => q = p
    BY DEF Setup
  <1>9. Setup(p) => UNCHANGED <<stolen, killed>>
    BY DEF Setup
  <1>10. QED
    BY <1>1, <1>2, <1>7, <1>8, <1>9 DEF Stands

LEMMA AskKeeps ==
    ASSUME TreeInv, NEW p \in Setups, Setup(p), NEW codes \in SUBSET Modules(Across(disk)), Ask(p, codes)
    PROVE  TreeInv'
  <1>1. PICK answers : plan' = [plan EXCEPT ![p] = [NoPlan EXCEPT !.codes = codes, !.answers = answers]]
    BY DEF Ask
  <1>2. spc[p] = "idle" /\ To(p, "plan") /\ UNCHANGED <<bmad, aside, stage>>
    BY DEF Ask, sharedVars
  <1>3. /\ DOMAIN plan' = Setups /\ DOMAIN plan'[p] = DOMAIN NoPlan
        /\ plan'[p].codes = codes /\ plan'[p].moved = 0
    BY <1>1 DEF TreeInv, Shaped, NoPlan
  <1>4. plan[p].moved = 0
    BY <1>2 DEF TreeInv, Ordered
  <1>5. spc'[p] = "plan"
    BY <1>2 DEF To, TreeInv, Shaped
  <1>6. Tended(p)'
    BY <1>5 DEF Tended
  <1>7. ~Underway(p)'
    BY <1>5 DEF Underway
  <1>8. DOMAIN stage' = Setups /\ IsTree(stage'[p])
    BY <1>2 DEF TreeInv, Shaped
  <1>9. Stands(p)
    BY SetupStands
  <1>10. QED
    BY <1>2, <1>3, <1>4, <1>6, <1>7, <1>8, <1>9, MoveKeeps DEF Stations

LEMMA PlanKeeps ==
    ASSUME TreeInv, NEW p \in Setups, Setup(p), Plan(p)
    PROVE  TreeInv'
  <1> DEFINE at == Across(disk)
             codes == plan[p].codes
             pending == Pending(at, codes, bmad)
             asked == {q \in pending : q.scope = "user"}
             new == [plan[p] EXCEPT !.team = TeamText(at, codes, bmad),
                                    !.user = Answered(bmad.user, asked),
                                    !.writesUser = \E q \in pending : q.scope = "user",
                                    !.mods = [c \in codes |-> ModuleScripts(at, c)],
                                    !.renames = CustomRenames(at, codes, bmad)]
  <1>1. spc[p] = "plan" /\ UNCHANGED <<bmad, aside>>
    BY DEF Plan, sharedVars
  <1>2. Stands(p)
    BY SetupStands
  <1>3. CASE Stop(p)
    <2>1. Moved(p) = 0
      BY <1>1 DEF Moved
    <2>2. QED
      BY <1>1, <1>2, <1>3, <2>1, StopKeeps
  <1>4. CASE ~Stop(p)
    <2>1. /\ To(p, IF Changed(at, codes, bmad) THEN "copy" ELSE "output")
          /\ plan' = [plan EXCEPT ![p] = new] /\ stage' = stage
      BY <1>4 DEF Plan
    <2>2. PICK where \in {"copy", "output"} : To(p, where)
      BY <2>1, Zenon
    <2>3. codes \subseteq Modules(at) /\ IsTree(bmad) /\ DOMAIN plan[p] = DOMAIN NoPlan /\ DOMAIN plan = Setups
      BY <1>1 DEF TreeInv, Shaped
    <2>4. plan'[p] = new
      BY <2>1, <2>3
    <2>5. /\ DOMAIN new = DOMAIN NoPlan /\ new.codes = codes /\ new.moved = plan[p].moved
          /\ new.team = TeamText(at, codes, bmad) /\ new.user = Answered(bmad.user, asked)
          /\ new.renames = CustomRenames(at, codes, bmad)
          /\ new.writesUser => \E q \in pending : q.scope = "user"
      BY <2>3 DEF NoPlan
    <2>6. new.team \in [Keys -> Nat] /\ new.user \in [Keys -> Nat]
      BY <2>3, <2>5, FillFacts, AnsweredFacts DEF IsTree, TeamText
    <2>7. /\ new.renames \subseteq Names \X Names
          /\ \A r \in new.renames : bmad.custom[r[2]] = 0
          /\ \A r, o \in new.renames : (r[2] = o[2] => r = o) /\ r[1] # o[2]
      <3> HIDE DEF new
      <3>1. QED
        BY <2>3, <2>5, FollowingFacts
    <2>8. IsPlan(new)
      BY <2>6, <2>7 DEF IsPlan
    <2>9. Spares(new, bmad)
      <3>1. ASSUME NEW k \in Keys, bmad.user[k] # 0
            PROVE  new.user[k] = bmad.user[k]
        <4>1. \A q \in asked : q.key # k
          BY <3>1 DEF Pending
        <4>2. QED
          BY <2>3, <2>5, <4>1 DEF Answered, IsTree
      <3>2. QED
        BY <2>7, <3>1 DEF Spares
    <2>10. spc'[p] = where
      BY <2>2 DEF To, TreeInv, Shaped
    <2> HIDE DEF new
    <2>11. Tended(p)'
      BY <1>1, <2>4, <2>9, <2>10 DEF Tended
    <2>12. DOMAIN stage' = Setups /\ IsTree(stage'[p])
      BY <2>1 DEF TreeInv, Shaped
    <2>13. Underway(p)' => where = "copy"
      BY <2>10 DEF Underway
    <2>14. DOMAIN plan' = Setups /\ plan'[p].codes \subseteq Modules(at) /\ IsPlan(plan'[p])
           /\ plan'[p].moved = plan[p].moved /\ DOMAIN plan'[p] = DOMAIN NoPlan
      BY <2>1, <2>3, <2>4, <2>5, <2>8
    <2>15. QED
      BY <1>1, <1>2, <2>2, <2>11, <2>12, <2>13, <2>14, MoveKeeps DEF Stations
  <1>5. QED
    BY <1>3, <1>4

LEMMA CopyKeeps ==
    ASSUME TreeInv, NEW p \in Setups, Setup(p), Copy(p)
    PROVE  TreeInv'
  <1> DEFINE copy == IF bmad.there THEN bmad ELSE EmptyTree
  <1>1. /\ spc[p] = "copy" /\ To(p, "stage") /\ stage' = [stage EXCEPT ![p] = copy]
        /\ UNCHANGED <<bmad, aside, plan>>
    BY DEF Copy, sharedVars
  <1>2. Underway(p) /\ IsTree(bmad)
    BY <1>1 DEF Underway, TreeInv, Shaped
  <1>3. IsTree(copy) /\ copy.there /\ SameValues(bmad, copy)
    <2>1. CASE bmad.there
      BY <1>2, <2>1 DEF SameValues
    <2>2. CASE ~bmad.there
      BY <1>2, <2>2, TreeFacts DEF IsTree
    <2>3. QED
      BY <2>1, <2>2
  <1> HIDE DEF copy
  <1>4. stage'[p] = copy /\ DOMAIN stage' = Setups /\ spc'[p] = "stage"
    BY <1>1 DEF TreeInv, Shaped, To
  <1>5. Stands(p) /\ (~clashed' => \A q \in Setups : Underway(q) => q = p)
    BY <1>2, SetupStands
  <1>6. ASSUME ~clashed', ~raced
        PROVE  Tended(p)'
    <2>1. Spares(plan[p], bmad)
      BY <1>1, <1>5, <1>6 DEF Stands, TreeInv, Guarded, Tended
    <2>2. Spares(plan[p], copy)
      BY <1>3, <2>1 DEF Spares, SameValues
    <2>3. Covers(mine, bmad, copy)
      <3>1. SUFFICES ASSUME NEW s \in Spots, mine[s] # 0, Has(bmad, s, mine[s]) PROVE Has(copy, s, mine[s])
        BY DEF Covers
      <3>2. mine[s] \in Nat
        BY DEF TreeInv, Shaped
      <3>3. QED
        BY <1>2, <1>3, <3>1, <3>2, HasSame
    <2>4. mine' = mine
      BY <1>5 DEF Stands
    <2>5. QED
      BY <1>1, <1>4, <2>2, <2>3, <2>4 DEF Tended
  <1>7. IsPlan(plan[p]) /\ plan[p].codes \subseteq Modules(Across(disk)) /\ DOMAIN plan = Setups
        /\ DOMAIN plan[p] = DOMAIN NoPlan
    BY <1>1, <1>2 DEF TreeInv, Shaped
  <1>8. QED
    BY <1>1, <1>3, <1>4, <1>5, <1>6, <1>7, MoveKeeps DEF Stations

LEMMA StageKeeps ==
    ASSUME TreeInv, NEW p \in Setups, Setup(p), Stage(p)
    PROVE  TreeInv'
  <1>1. spc[p] = "stage" /\ UNCHANGED <<bmad, aside>> /\ Moved(p) = 0 /\ Underway(p)
    BY DEF Stage, sharedVars, Moved, Underway
  <1>2. Stands(p) /\ (~clashed' => \A q \in Setups : Underway(q) => q = p)
    BY <1>1, SetupStands
  <1>3. CASE Stop(p)
    BY <1>1, <1>2, <1>3, StopKeeps
  <1>4. CASE ~Stop(p)
    <2> DEFINE new == Staged(plan[p], stage[p])
    <2>1. /\ To(p, "swap") /\ stage' = [stage EXCEPT ![p] = Staged(plan[p], @)] /\ plan' = plan
      BY <1>4 DEF Stage
    <2>2. stage'[p] = new /\ DOMAIN stage' = Setups /\ spc'[p] = "swap"
      BY <2>1 DEF TreeInv, Shaped, To
    <2>3. IsTree(stage[p]) /\ IsPlan(plan[p]) /\ plan[p].codes \subseteq Modules(Across(disk)) /\ DOMAIN plan = Setups
          /\ DOMAIN plan[p] = DOMAIN NoPlan
      BY <1>1 DEF TreeInv, Shaped
    <2>4. IsTree(new) /\ new.there
      BY <2>3, StagedTree
    <2> HIDE DEF new
    <2>5. ASSUME ~clashed', ~raced
          PROVE  Tended(p)'
      <3>1. Spares(plan[p], stage[p]) /\ Covers(mine, bmad, stage[p])
        BY <1>1, <1>2, <2>5 DEF Stands, TreeInv, Guarded, Tended
      <3>2. Covers(mine, bmad, new)
        <4>1. SUFFICES ASSUME NEW s \in Spots, mine[s] # 0, Has(bmad, s, mine[s]) PROVE Has(new, s, mine[s])
          BY DEF Covers
        <4>2. mine[s] \in Nat /\ Has(stage[p], s, mine[s])
          BY <3>1, <4>1 DEF TreeInv, Shaped, Covers
        <4>3. QED
          BY <2>3, <3>1, <4>1, <4>2, StagedKeeps DEF new
      <3>3. mine' = mine
        BY <1>2 DEF Stands
      <3>4. QED
        BY <1>1, <2>2, <3>2, <3>3 DEF Tended
    <2>6. QED
      BY <1>1, <1>2, <2>1, <2>2, <2>3, <2>4, <2>5, MoveKeeps DEF Stations
  <1>5. QED
    BY <1>3, <1>4

LEMMA AsideKeeps ==
    ASSUME TreeInv, NEW p \in Setups, Setup(p), MoveAside(p)
    PROVE  TreeInv'
  <1>1. spc[p] = "swap" /\ Moved(p) = 0 /\ Underway(p) /\ plan[p].moved = 0
    BY DEF MoveAside, Moved, Underway, TreeInv, Ordered
  <1>2. Stands(p) /\ (~clashed' => \A q \in Setups : Underway(q) => q = p)
    BY <1>1, SetupStands
  <1>3. /\ IsPlan(plan[p]) /\ plan[p].codes \subseteq Modules(Across(disk)) /\ DOMAIN plan = Setups
        /\ DOMAIN plan[p] = DOMAIN NoPlan /\ DOMAIN stage = Setups /\ IsTree(stage[p]) /\ stage[p].there
        /\ IsTree(bmad) /\ DOMAIN aside = Seconds /\ mine \in [Spots -> Nat]
    BY <1>1 DEF TreeInv, Shaped
  <1>4. CASE Stop(p) /\ UNCHANGED <<bmad, aside>>
    BY <1>1, <1>2, <1>4, StopKeeps
  <1>5. CASE ~bmad.there
    <2>1. To(p, "movein") /\ UNCHANGED <<bmad, aside, plan, stage>> /\ spc'[p] = "movein"
      BY <1>5 DEF MoveAside, sharedVars, To, TreeInv, Shaped
    <2>2. Lacks(mine, bmad)
      BY <1>5 DEF Lacks, Has
    <2>3. Moved(p)' = 0
      BY <1>1, <2>1 DEF Moved
    <2>4. Tended(p)'
      BY <1>2, <2>1, <2>2, <2>3 DEF Tended, Stands
    <2>5. QED
      BY <1>1, <1>2, <1>3, <1>5, <2>1, <2>4, MoveKeeps DEF Stations
  <1>6. ASSUME bmad.there, ~(Stop(p) /\ UNCHANGED <<bmad, aside>>)
        PROVE  TreeInv'
    <2>1. PICK b \in Seconds :
            /\ ~aside[b].there
            /\ aside' = [aside EXCEPT ![b] = bmad] /\ bmad' = NoTree
            /\ plan' = [plan EXCEPT ![p].moved = b]
            /\ To(p, "movein") /\ UNCHANGED stage
      BY <1>6 DEF MoveAside, sharedVars
    <2>2. /\ spc' = [spc EXCEPT ![p] = "movein"] /\ spc'[p] = "movein" /\ spc \in [Setups -> Stations]
      BY <2>1 DEF To, TreeInv, Shaped
    <2>3. /\ DOMAIN plan' = Setups /\ DOMAIN plan'[p] = DOMAIN NoPlan /\ plan'[p].moved = b
          /\ plan'[p].codes = plan[p].codes /\ IsPlan(plan'[p])
      BY <1>3, <2>1 DEF NoPlan, IsPlan
    <2>4. \A q \in Setups \ {p} : spc'[q] = spc[q] /\ plan'[q] = plan[q] /\ stage'[q] = stage[q]
      BY <1>2 DEF Stands
    <2>5. aside'[b] = bmad /\ DOMAIN aside' = Seconds /\ \A a \in Seconds \ {b} : aside'[a] = aside[a]
      BY <1>3, <2>1
    <2>6. b # 0
      BY SetupAssumption DEF SetupAssumption
    <2>7. Moved(p)' = b /\ \A q \in Setups \ {p} : Moved(q)' = Moved(q)
      BY <2>2, <2>3, <2>4 DEF Moved
    <2>8. \A q \in Setups : Moved(q) # b
      BY <2>1, <2>6 DEF TreeInv, Ordered
    <2>9. Shaped'
      <3>1. spc' \in [Setups -> Stations]
        BY <2>2 DEF Stations
      <3>2. IsTree(bmad') /\ \A a \in Seconds : IsTree(aside'[a])
        BY <1>3, <2>1, <2>5, TreeFacts DEF TreeInv, Shaped
      <3>3. \A q \in Setups : DOMAIN plan'[q] = DOMAIN NoPlan /\ IsTree(stage'[q])
        BY <2>1, <2>3, <2>4 DEF TreeInv, Shaped
      <3>4. \A q \in Setups : /\ spc'[q] # "idle" => plan'[q].codes \subseteq Modules(Across(disk))
                              /\ Underway(q)' => IsPlan(plan'[q])
                              /\ spc'[q] \in {"stage", "swap", "movein"} => stage'[q].there
        BY <1>3, <2>1, <2>2, <2>3, <2>4 DEF TreeInv, Shaped, Underway
      <3>5. QED
        BY <1>2, <1>3, <2>1, <2>3, <2>5, <3>1, <3>2, <3>3, <3>4 DEF TreeInv, Shaped, Stands, renderVars
    <2>10. Ordered'
      BY <1>6, <2>2, <2>4, <2>5, <2>6, <2>7, <2>8 DEF TreeInv, Ordered
    <2>11. Apart'
      BY <1>2, <2>2, <2>4 DEF TreeInv, Apart, Underway, Stands
    <2>12. ASSUME ~clashed', ~raced
           PROVE  (\A q \in Setups : Tended(q)') /\ \A s \in Spots : Safe(s)'
      <3>1. (\A q \in Setups : Tended(q)) /\ (\A s \in Spots : Safe(s)) /\ mine' = mine
        BY <1>2, <2>12 DEF TreeInv, Guarded, Stands
      <3>2. Lacks(mine, bmad')
        BY <2>1, TreeFacts DEF Lacks, Has
      <3>3. Covers(mine, aside'[b], stage'[p])
        BY <1>1, <2>1, <2>5, <3>1 DEF Tended
      <3>4. Tended(p)'
        BY <2>2, <2>7, <3>1, <3>2, <3>3 DEF Tended
      <3>5. ASSUME NEW q \in Setups \ {p} PROVE Tended(q)'
        <4>1. ~Underway(q)
          BY <1>2, <2>12
        <4>2. QED
          BY <2>4, <4>1 DEF Tended, Underway
      <3>6. ASSUME NEW s \in Spots PROVE Safe(s)'
        <4>1. CASE mine[s] = 0
          BY <3>1, <4>1 DEF Safe
        <4>2. CASE Has(bmad, s, mine[s])
          BY <2>2, <2>5, <2>4, <2>7, <2>8, <3>1, <4>2 DEF Safe
        <4>3. ASSUME NEW a \in Seconds, Has(aside[a], s, mine[s]), \A q \in Setups : spc[q] = "drop" => Moved(q) # a
              PROVE  Safe(s)'
          <5>1. a # b
            BY <2>1, <4>3 DEF Has
          <5>2. QED
            BY <2>2, <2>4, <2>5, <2>7, <3>1, <4>3, <5>1 DEF Safe
        <4>4. QED
          BY <3>1, <4>1, <4>2, <4>3 DEF Safe
      <3>7. QED
        BY <3>4, <3>5, <3>6
    <2>13. Guarded'
      BY <1>2, <2>12 DEF Guarded, Stands
    <2>14. Owned'
      <3>1. SUFFICES ASSUME ~clashed', ~stolen', ~killed'
                     PROVE  /\ \A a \in Seconds : aside'[a].there => \E q \in Setups : Moved(q)' = a
                            /\ \A q \in Setups : spc'[q] = "movein" => ~bmad'.there
        BY DEF Owned
      <3>2. \A a \in Seconds : aside[a].there => \E q \in Setups : Moved(q) = a
        BY <1>2, <3>1 DEF TreeInv, Owned, Stands
      <3>3. ~bmad'.there
        BY <2>1, TreeFacts
      <3>4. ASSUME NEW a \in Seconds, aside'[a].there PROVE \E q \in Setups : Moved(q)' = a
        <4>1. CASE a = b
          BY <2>7, <4>1
        <4>2. CASE a # b
          <5>1. PICK q \in Setups : Moved(q) = a
            BY <2>5, <3>2, <3>4, <4>2
          <5>2. q # p
            BY <1>1, <5>1, SetupAssumption DEF SetupAssumption
          <5>3. QED
            BY <2>7, <5>1, <5>2
        <4>3. QED
          BY <4>1, <4>2
      <3>5. QED
        BY <3>3, <3>4
    <2>15. QED
      BY <2>9, <2>10, <2>11, <2>13, <2>14 DEF TreeInv
  <1>7. QED
    BY <1>4, <1>5, <1>6

LEMMA MoveInKeeps ==
    ASSUME TreeInv, NEW p \in Setups, Setup(p), MoveIn(p)
    PROVE  TreeInv'
  <1>1. spc[p] = "movein" /\ Moved(p) = plan[p].moved /\ Underway(p)
    BY DEF MoveIn, Moved, Underway
  <1>2. Stands(p) /\ (~clashed' => \A q \in Setups : Underway(q) => q = p) /\ UNCHANGED <<stolen, killed>>
    BY <1>1, SetupStands
  <1>3. /\ plan[p].codes \subseteq Modules(Across(disk)) /\ DOMAIN plan = Setups
        /\ DOMAIN plan[p] = DOMAIN NoPlan /\ DOMAIN stage = Setups /\ IsTree(stage[p]) /\ stage[p].there
        /\ IsTree(bmad) /\ DOMAIN aside = Seconds /\ mine \in [Spots -> Nat]
    BY <1>1 DEF TreeInv, Shaped
  <1>4. CASE bmad.there
    <2>1. Stop(p) /\ UNCHANGED <<bmad, aside>>
      BY <1>4 DEF MoveIn
    <2>2. clashed' \/ stolen' \/ killed'
      BY <1>1, <1>2, <1>4 DEF TreeInv, Owned, Stands
    <2>3. QED
      BY <1>2, <2>1, <2>2, StopKeeps
  <1>5. ASSUME ~bmad.there
        PROVE  TreeInv'
    <2>1. PICK where \in {"output", "drop"} :
            /\ where = "output" <=> plan[p].moved = 0
            /\ To(p, where)
      BY <1>5 DEF MoveIn
    <2>2. /\ bmad' = stage[p] /\ stage' = [stage EXCEPT ![p] = NoTree] /\ UNCHANGED <<aside, plan>>
      BY <1>5 DEF MoveIn
    <2>3. /\ spc' = [spc EXCEPT ![p] = where] /\ spc'[p] = where /\ spc \in [Setups -> Stations]
      BY <2>1 DEF To, TreeInv, Shaped
    <2>4. \A q \in Setups \ {p} : spc'[q] = spc[q] /\ plan'[q] = plan[q] /\ stage'[q] = stage[q]
      BY <1>2 DEF Stands
    <2>5. \A q \in Setups : Moved(q)' = Moved(q)
      BY <1>1, <2>1, <2>2, <2>3, <2>4 DEF Moved
    <2>6. stage'[p] = NoTree /\ DOMAIN stage' = Setups
      BY <1>3, <2>2
    <2>7. Shaped'
      <3>1. spc' \in [Setups -> Stations]
        BY <2>3 DEF Stations
      <3>2. \A q \in Setups : DOMAIN plan'[q] = DOMAIN NoPlan /\ IsTree(stage'[q])
        BY <2>2, <2>4, <2>6, TreeFacts DEF TreeInv, Shaped
      <3>3. \A q \in Setups : /\ spc'[q] # "idle" => plan'[q].codes \subseteq Modules(Across(disk))
                              /\ Underway(q)' => IsPlan(plan'[q])
                              /\ spc'[q] \in {"stage", "swap", "movein"} => stage'[q].there
        BY <1>3, <2>2, <2>3, <2>4 DEF TreeInv, Shaped, Underway
      <3>4. QED
        BY <1>2, <1>3, <2>2, <2>6, <3>1, <3>2, <3>3 DEF TreeInv, Shaped, Stands, renderVars
    <2>8. Ordered'
      BY <1>1, <2>1, <2>2, <2>3, <2>4, <2>5 DEF TreeInv, Ordered
    <2>9. Apart'
      BY <1>2, <2>3, <2>4 DEF TreeInv, Apart, Underway, Stands
    <2>10. ASSUME ~clashed', ~raced
           PROVE  (\A q \in Setups : Tended(q)') /\ \A s \in Spots : Safe(s)'
      <3>1. (\A q \in Setups : Tended(q)) /\ (\A s \in Spots : Safe(s)) /\ mine' = mine
        BY <1>2, <2>10 DEF TreeInv, Guarded, Stands
      <3>2. \A q \in Setups : ~Underway(q)'
        BY <1>2, <2>3, <2>4, <2>10 DEF Underway
      <3>3. \A q \in Setups : Tended(q)'
        BY <3>2 DEF Tended, Underway
      <3>4. ASSUME NEW s \in Spots PROVE Safe(s)'
        <4>1. CASE mine[s] = 0
          BY <3>1, <4>1 DEF Safe
        <4>2. CASE mine[s] # 0
          <5>1. PICK a \in Seconds : /\ Has(aside[a], s, mine[s])
                                     /\ \A q \in Setups : spc[q] = "drop" => Moved(q) # a
            BY <1>1, <3>1, <4>2 DEF Safe, Tended, Lacks
          <5>2. CASE a = Moved(p)
            <6>1. a # 0
              BY SetupAssumption DEF SetupAssumption
            <6>2. Has(bmad', s, mine[s])
              BY <1>1, <2>2, <3>1, <4>2, <5>1, <5>2, <6>1 DEF Tended, Covers
            <6>3. QED
              BY <3>1, <6>2 DEF Safe
          <5>3. CASE a # Moved(p)
            BY <2>2, <2>3, <2>4, <2>5, <3>1, <5>1, <5>3 DEF Safe
          <5>4. QED
            BY <5>2, <5>3
        <4>3. QED
          BY <4>1, <4>2
      <3>5. QED
        BY <3>3, <3>4
    <2>11. Guarded'
      BY <1>2, <2>10 DEF Guarded, Stands
    <2>12. Owned'
      <3>1. SUFFICES ASSUME ~clashed', ~stolen', ~killed'
                     PROVE  /\ \A a \in Seconds : aside'[a].there => \E q \in Setups : Moved(q)' = a
                            /\ \A q \in Setups : spc'[q] = "movein" => ~bmad'.there
        BY DEF Owned
      <3>2. \A a \in Seconds : aside[a].there => \E q \in Setups : Moved(q) = a
        BY <1>2, <3>1 DEF TreeInv, Owned, Stands
      <3>3. \A q \in Setups : ~Underway(q)'
        BY <1>2, <2>3, <2>4, <3>1 DEF Underway
      <3>4. QED
        BY <2>2, <2>5, <3>2, <3>3 DEF Underway
    <2>13. QED
      BY <2>7, <2>8, <2>9, <2>11, <2>12 DEF TreeInv
  <1>6. QED
    BY <1>4, <1>5

LEMMA FailedMoveKeeps ==
    ASSUME TreeInv, NEW p \in Setups, Setup(p), MoveInFails(p)
    PROVE  TreeInv'
  <1>1. spc[p] = "movein" /\ Moved(p) = plan[p].moved /\ Underway(p) /\ Stop(p)
    BY DEF MoveInFails, Moved, Underway
  <1>2. Stands(p) /\ (~clashed' => \A q \in Setups : Underway(q) => q = p) /\ UNCHANGED <<stolen, killed>>
    BY <1>1, SetupStands
  <1>3. CASE plan[p].moved = 0 \/ bmad.there
    <2>1. UNCHANGED <<bmad, aside>>
      BY <1>3 DEF MoveInFails, Restore
    <2>2. Moved(p) # 0 => clashed' \/ stolen' \/ killed'
      BY <1>1, <1>2, <1>3 DEF TreeInv, Owned, Stands
    <2>3. QED
      BY <1>1, <1>2, <2>1, <2>2, StopKeeps
  <1>4. ASSUME plan[p].moved # 0, ~bmad.there
        PROVE  TreeInv'
    <2> DEFINE b == plan[p].moved
    <2>1. b \in Seconds /\ aside[b].there /\ Moved(p) = b
      BY <1>1, <1>4 DEF TreeInv, Ordered
    <2>2. bmad' = aside[b] /\ aside' = [aside EXCEPT ![b] = NoTree]
      BY <1>4 DEF MoveInFails, Restore
    <2>3. /\ spc' = [spc EXCEPT ![p] = "idle"] /\ plan' = [plan EXCEPT ![p] = NoPlan]
          /\ stage' = [stage EXCEPT ![p] = NoTree]
      BY <1>1 DEF Stop, To
    <2>4. /\ spc \in [Setups -> Stations] /\ DOMAIN plan = Setups /\ DOMAIN stage = Setups /\ DOMAIN aside = Seconds
      BY DEF TreeInv, Shaped
    <2>5. spc'[p] = "idle" /\ plan'[p] = NoPlan /\ stage'[p] = NoTree
      BY <2>3, <2>4
    <2>6. \A q \in Setups \ {p} : spc'[q] = spc[q] /\ plan'[q] = plan[q] /\ stage'[q] = stage[q]
      BY <1>2 DEF Stands
    <2> HIDE DEF b
    <2>7. DOMAIN aside' = Seconds /\ aside'[b] = NoTree /\ \A a \in Seconds \ {b} : aside'[a] = aside[a]
      BY <2>1, <2>2, <2>4
    <2>8. Moved(p)' = 0 /\ \A q \in Setups \ {p} : Moved(q)' = Moved(q)
      BY <2>5, <2>6 DEF Moved
    <2>9. b # 0 /\ \A q \in Setups \ {p} : Moved(q) # b
      BY <1>4, <2>1 DEF b, TreeInv, Ordered
    <2>10. Shaped'
      <3>1. spc' \in [Setups -> Stations] /\ DOMAIN plan' = Setups /\ DOMAIN stage' = Setups
        BY <2>3, <2>4 DEF Stations
      <3>2. IsTree(bmad') /\ \A a \in Seconds : IsTree(aside'[a])
        BY <2>1, <2>2, <2>7, TreeFacts DEF TreeInv, Shaped
      <3>3. \A q \in Setups : DOMAIN plan'[q] = DOMAIN NoPlan /\ IsTree(stage'[q])
        BY <2>5, <2>6, TreeFacts DEF TreeInv, Shaped
      <3>4. \A q \in Setups : /\ spc'[q] # "idle" => plan'[q].codes \subseteq Modules(Across(disk))
                              /\ Underway(q)' => IsPlan(plan'[q])
                              /\ spc'[q] \in {"stage", "swap", "movein"} => stage'[q].there
        BY <2>5, <2>6 DEF TreeInv, Shaped, Underway
      <3>5. QED
        BY <1>2, <2>7, <3>1, <3>2, <3>3, <3>4 DEF TreeInv, Shaped, Stands, renderVars
    <2>11. Ordered'
      BY <2>1, <2>5, <2>6, <2>7, <2>8, <2>9 DEF TreeInv, Ordered, NoPlan
    <2>12. Apart'
      BY <1>2, <2>5, <2>6 DEF TreeInv, Apart, Underway, Stands
    <2>13. ASSUME ~clashed', ~raced
           PROVE  (\A q \in Setups : Tended(q)') /\ \A s \in Spots : Safe(s)'
      <3>1. (\A q \in Setups : Tended(q)) /\ (\A s \in Spots : Safe(s)) /\ mine' = mine
        BY <1>2, <2>13 DEF TreeInv, Guarded, Stands
      <3>2. \A q \in Setups : ~Underway(q)'
        BY <1>2, <2>5, <2>6, <2>13 DEF Underway
      <3>3. \A q \in Setups : Tended(q)'
        BY <3>2 DEF Tended, Underway
      <3>4. ASSUME NEW s \in Spots PROVE Safe(s)'
        <4>1. CASE mine[s] = 0
          BY <3>1, <4>1 DEF Safe
        <4>2. CASE mine[s] # 0
          <5>1. PICK a \in Seconds : /\ Has(aside[a], s, mine[s])
                                     /\ \A q \in Setups : spc[q] = "drop" => Moved(q) # a
            BY <1>1, <3>1, <4>2 DEF Safe, Tended, Lacks
          <5>2. CASE a = b
            BY <2>2, <3>1, <5>1, <5>2 DEF Safe
          <5>3. CASE a # b
            BY <2>5, <2>6, <2>7, <2>8, <3>1, <5>1, <5>3 DEF Safe
          <5>4. QED
            BY <5>2, <5>3
        <4>3. QED
          BY <4>1, <4>2
      <3>5. QED
        BY <3>3, <3>4
    <2>14. Guarded'
      BY <1>2, <2>13 DEF Guarded, Stands
    <2>15. Owned'
      <3>1. SUFFICES ASSUME ~clashed', ~stolen', ~killed'
                     PROVE  /\ \A a \in Seconds : aside'[a].there => \E q \in Setups : Moved(q)' = a
                            /\ \A q \in Setups : spc'[q] = "movein" => ~bmad'.there
        BY DEF Owned
      <3>2. \A a \in Seconds : aside[a].there => \E q \in Setups : Moved(q) = a
        BY <1>2, <3>1 DEF TreeInv, Owned, Stands
      <3>3. \A q \in Setups : ~Underway(q)'
        BY <1>2, <2>5, <2>6, <3>1 DEF Underway
      <3>4. ASSUME NEW a \in Seconds, aside'[a].there PROVE \E q \in Setups : Moved(q)' = a
        <4>1. a # b
          BY <2>7, <3>4, TreeFacts
        <4>2. QED
          BY <2>1, <2>7, <2>8, <3>2, <3>4, <4>1
      <3>5. QED
        BY <3>3, <3>4 DEF Underway
    <2>16. QED
      BY <2>10, <2>11, <2>12, <2>14, <2>15 DEF TreeInv
  <1>5. QED
    BY <1>3, <1>4

LEMMA DropKeeps ==
    ASSUME TreeInv, NEW p \in Setups, Setup(p), DropAside(p)
    PROVE  TreeInv'
  <1> DEFINE b == plan[p].moved
  <1>1. spc[p] = "drop" /\ Moved(p) = b /\ b \in Seconds /\ b # 0
    BY DEF DropAside, Moved, TreeInv, Ordered
  <1>2. Stands(p) /\ UNCHANGED <<stolen, killed>>
    BY SetupStands
  <1>3. aside' = [aside EXCEPT ![b] = NoTree] /\ To(p, "output") /\ UNCHANGED <<bmad, plan, stage>>
    BY DEF DropAside
  <1> HIDE DEF b
  <1>4. /\ spc' = [spc EXCEPT ![p] = "output"] /\ spc'[p] = "output" /\ spc \in [Setups -> Stations]
        /\ DOMAIN aside = Seconds
    BY <1>3 DEF To, TreeInv, Shaped
  <1>5. \A q \in Setups \ {p} : spc'[q] = spc[q]
    BY <1>2 DEF Stands
  <1>6. DOMAIN aside' = Seconds /\ aside'[b] = NoTree /\ \A a \in Seconds \ {b} : aside'[a] = aside[a]
    BY <1>1, <1>3, <1>4
  <1>7. Moved(p)' = 0 /\ \A q \in Setups \ {p} : Moved(q)' = Moved(q)
    BY <1>3, <1>4, <1>5 DEF Moved
  <1>8. \A q \in Setups \ {p} : Moved(q) # b
    BY <1>1 DEF TreeInv, Ordered
  <1>9. Shaped'
    <2>1. spc' \in [Setups -> Stations]
      BY <1>4 DEF Stations
    <2>2. \A a \in Seconds : IsTree(aside'[a])
      BY <1>6, TreeFacts DEF TreeInv, Shaped
    <2>3. \A q \in Setups : /\ spc'[q] # "idle" => plan'[q].codes \subseteq Modules(Across(disk))
                            /\ Underway(q)' => IsPlan(plan'[q])
                            /\ spc'[q] \in {"stage", "swap", "movein"} => stage'[q].there
      BY <1>1, <1>3, <1>4, <1>5 DEF TreeInv, Shaped, Underway
    <2>4. QED
      BY <1>2, <1>3, <1>6, <2>1, <2>2, <2>3 DEF TreeInv, Shaped, Stands, renderVars
  <1>10. Ordered'
    BY <1>3, <1>4, <1>5, <1>6, <1>7, <1>8 DEF TreeInv, Ordered
  <1>11. Apart'
    BY <1>1, <1>2, <1>4, <1>5 DEF TreeInv, Apart, Underway, Stands
  <1>12. ASSUME ~clashed', ~raced
         PROVE  (\A q \in Setups : Tended(q)') /\ \A s \in Spots : Safe(s)'
    <2>1. (\A q \in Setups : Tended(q)) /\ (\A s \in Spots : Safe(s)) /\ mine' = mine
      BY <1>2, <1>12 DEF TreeInv, Guarded, Stands
    <2>2. ASSUME NEW q \in Setups PROVE Tended(q)'
      <3>1. CASE q = p
        BY <1>4, <3>1 DEF Tended
      <3>2. CASE q # p
        <4>1. Moved(q) # 0 => aside'[Moved(q)] = aside[Moved(q)]
          BY <1>6, <1>8, <3>2 DEF TreeInv, Ordered
        <4>2. QED
          BY <1>3, <1>5, <1>7, <2>1, <3>2, <4>1 DEF Tended
      <3>3. QED
        BY <3>1, <3>2
    <2>3. ASSUME NEW s \in Spots PROVE Safe(s)'
      <3>1. ASSUME NEW a \in Seconds, Has(aside[a], s, mine[s]), \A q \in Setups : spc[q] = "drop" => Moved(q) # a
            PROVE  Safe(s)'
        <4>1. a # b
          BY <1>1, <3>1
        <4>2. QED
          BY <1>4, <1>5, <1>6, <1>7, <2>1, <3>1, <4>1 DEF Safe
      <3>2. QED
        BY <1>3, <2>1, <3>1 DEF Safe
    <2>4. QED
      BY <2>2, <2>3
  <1>13. Guarded'
    BY <1>2, <1>12 DEF Guarded, Stands
  <1>14. Owned'
    <2>1. SUFFICES ASSUME ~clashed', ~stolen', ~killed'
                   PROVE  /\ \A a \in Seconds : aside'[a].there => \E q \in Setups : Moved(q)' = a
                          /\ \A q \in Setups : spc'[q] = "movein" => ~bmad'.there
      BY DEF Owned
    <2>2. /\ \A a \in Seconds : aside[a].there => \E q \in Setups : Moved(q) = a
          /\ \A q \in Setups : spc[q] = "movein" => ~bmad.there
      BY <1>2, <2>1 DEF TreeInv, Owned, Stands
    <2>3. ASSUME NEW a \in Seconds, aside'[a].there PROVE \E q \in Setups : Moved(q)' = a
      <3>1. a # b
        BY <1>6, <2>3, TreeFacts
      <3>2. QED
        BY <1>1, <1>6, <1>7, <2>2, <2>3, <3>1
    <2>4. QED
      BY <1>3, <1>4, <1>5, <2>2, <2>3
  <1>15. QED
    BY <1>9, <1>10, <1>11, <1>13, <1>14 DEF TreeInv

LEMMA EndKeeps ==
    ASSUME TreeInv, NEW p \in Setups, Setup(p), Output(p) \/ Fail(p)
    PROVE  TreeInv'
  <1>1. Stop(p) /\ UNCHANGED <<bmad, aside>> /\ Moved(p) = 0
    BY DEF Output, Fail, sharedVars, Moved
  <1>2. QED
    BY <1>1, SetupStands, StopKeeps

LEMMA KillKeeps ==
    ASSUME TreeInv, NEW p \in Setups, Kill(p)
    PROVE  TreeInv'
  <1>1. Stop(p) /\ UNCHANGED <<bmad, aside>>
    BY DEF Kill, KillSetup, sharedVars
  <1>2. Moved(p) # 0 => killed'
    BY DEF Moved, Kill
  <1>3. QED
    BY <1>1, <1>2, SetupStands, StopKeeps

LEMMA TreeInit == Init => TreeInv
  <1> SUFFICES ASSUME Init PROVE TreeInv
    OBVIOUS
  <1>1. IsTree(bmad)
    BY SetupAssumption DEF SetupAssumption, Init, SetupInit
  <1>2. Shaped
    BY <1>1, TreeFacts DEF Shaped, Init, SetupInit, RenderInit, Stations, Underway
  <1>3. \A p \in Setups : spc[p] = "idle" /\ Moved(p) = 0 /\ plan[p].moved = 0
    BY DEF Init, SetupInit, Moved, NoPlan
  <1>4. Ordered /\ Apart
    BY <1>3 DEF Ordered, Apart, Underway
  <1>5. Guarded
    BY <1>3 DEF Guarded, Tended, Safe, Init
  <1>6. Owned
    <2>1. \A b \in Seconds : ~aside[b].there
      BY TreeFacts DEF Init, SetupInit
    <2>2. QED
      BY <1>3, <2>1 DEF Owned
  <1>7. QED
    BY <1>2, <1>4, <1>5, <1>6 DEF TreeInv

LEMMA TreeStep == TreeInv /\ [Next]_vars => TreeInv'
  <1> SUFFICES ASSUME TreeInv, [Next]_vars PROVE TreeInv'
    OBVIOUS
  <1>1. ASSUME NEW p \in Setups, Setup(p) PROVE TreeInv'
    <2>1. ASSUME NEW codes \in Selections, codes \subseteq Modules(Across(disk)), Ask(p, codes) PROVE TreeInv'
      BY <1>1, <2>1, AskKeeps
    <2>2. SetupStep(p)
      BY <1>1 DEF Setup
    <2>3. QED
      BY <1>1, <2>1, <2>2, PlanKeeps, CopyKeeps, StageKeeps, AsideKeeps, MoveInKeeps, FailedMoveKeeps, DropKeeps, EndKeeps
         DEF SetupStep
  <1>2. ASSUME NEW p \in Setups, Kill(p) PROVE TreeInv'
    BY <1>2, KillKeeps
  <1>3. ASSUME NEW r \in Renderers, Render(r) \/ Crash(r) PROVE TreeInv'
    <2>1. Shaped
      BY DEF TreeInv
    <2>2. Aloof
      BY <1>3, <2>1, RendersAreAloof
    <2>3. QED
      BY <2>2, AloofKeeps
  <1>4. ASSUME NEW spot \in Spots, Edit(spot) PROVE TreeInv'
    BY <1>4, EditKeeps
  <1>5. CASE UNCHANGED vars
    BY <1>5 DEF vars, sharedVars, setupVars, boundVars, renderVars, histVars, TreeInv, Shaped, Ordered, Apart, Guarded, Owned,
       Tended, Safe, Moved, Underway
  <1>6. QED
    BY <1>1, <1>2, <1>3, <1>4, <1>5 DEF Next

\* Whatever fails, dies or overlaps with renders: what the user saved is in _bmad or where
\* _bmad was moved to, and what was moved aside has a setup that will deal with it
\* (materialize_bmad, replace_dir).
THEOREM EditsAlwaysSurvive == Spec => []EditsSurvive
  <1>1. TreeInv => EditsSurvive
    <2> SUFFICES ASSUME TreeInv PROVE EditsSurvive
      OBVIOUS
    <2>1. clashed \/ raced \/ \A s \in Spots :
             mine[s] = 0 \/ Holds(bmad, s) \/ \E b \in Seconds : Holds(aside[b], s)
      BY HoldsHas DEF TreeInv, Guarded, Safe
    <2>2. clashed \/ stolen \/ killed \/ \A b \in Seconds :
            aside[b].there => \E p \in Setups : spc[p] \in {"movein", "drop"} /\ plan[p].moved = b
      <3>1. ASSUME NEW b \in Seconds, NEW p \in Setups, Moved(p) = b
            PROVE  spc[p] \in {"movein", "drop"} /\ plan[p].moved = b
        BY <3>1, SetupAssumption DEF SetupAssumption, Moved
      <3>2. QED
        BY <3>1 DEF TreeInv, Owned
    <2>3. QED
      BY <2>1, <2>2 DEF EditsSurvive
  <1>2. QED
    BY <1>1, TreeInit, TreeStep, PTL DEF Spec

-----------------------------------------------------------------------------
(* What status says. *)

\* The record of a module that was found under no second code.
LEMMA RecordStands ==
    ASSUME NEW at, Repeated(at) = {}, NEW n, IsRecord(at, n)
    PROVE  LET c == FileAt(at[n], n).code IN c \in Modules(at) /\ Record(at, c) = n /\ RecordFile(at, c) = FileAt(at[n], n)
  <1> DEFINE c == FileAt(at[n], n).code
  <1>1. n \in Names /\ Good(FileAt(at[n], n)) /\ c # NoName
    BY DEF IsRecord
  <1>2. c \in DOMAIN Fold
    BY <1>1, InstallationAssumption DEF InstallationAssumption, Good, GoodFiles
  <1>3. Record(at, c) = n
    BY <1>1 DEF Repeated
  <1>4. QED
    BY <1>1, <1>2, <1>3, SkillFacts DEF Modules, RecordFile

\* A skill that can be read and whose record is there is a member of its module.
LEMMA MemberFacts ==
    ASSUME NEW at, Problems(at) = {}, NEW n \in Names, Readable(at, n), ~RecordOwed(at, n)
    PROVE  LET c == FileAt(at[RecordOf(at, n)], RecordOf(at, n)).code
           IN /\ c \in Modules(at) /\ Record(at, c) = RecordOf(at, n) /\ n \in Members(at, c)
              /\ RecordFile(at, c) = FileAt(at[RecordOf(at, n)], RecordOf(at, n))
  <1> DEFINE f == FileAt(at[n], n)
             r == RecordOf(at, n)
             c == FileAt(at[r], r).code
  <1>1. Good(f) /\ f.skill /\ n \in Files(at)
    BY DEF Readable, Files
  <1>2. IsRecord(at, r)
    BY <1>1 DEF RecordOf, RecordOwed, IsRecord
  <1>3. c \in Modules(at) /\ Record(at, c) = r /\ RecordFile(at, c) = FileAt(at[r], r)
    BY <1>2, RecordStands DEF Problems
  <1>4. n \in ListedBy(at, r) /\ BelongsTo(at, n, r)
    BY <1>1, <1>2 DEF RecordOf, Problems, Membership, ListedBy, BelongsTo
  <1>5. n \in Installed(at)
    BY <1>1 DEF Good, GoodFiles, Parses, FileAt, NoFile, Installed
  <1>6. QED
    BY <1>1, <1>3, <1>4, <1>5 DEF Members

LEMMA PlacedScripts ==
    ASSUME NEW at, NEW c
    PROVE  /\ ModuleScripts(at, c) # NoScripts
           /\ \A n \in Members(at, c) : FileAt(at[n], n).scripts \subseteq ModuleScripts(at, c)
  <1>1. ASSUME NEW n \in Members(at, c), NEW s \in FileAt(at[n], n).scripts
        PROVE  s.to # "no folder"
    <2>1. Good(FileAt(at[n], n))
      BY DEF Members
    <2>2. PICK p \in Places, m \in Names : FileAt(at[n], n) = Content[<<p, m>>]
      BY <2>1 DEF Good, GoodFiles
    <2>3. QED
      BY <2>2, TreeAssumption DEF TreeAssumption
  <1>2. \A s \in ModuleScripts(at, c) : s.to # "no folder"
    BY <1>1 DEF ModuleScripts
  <1>3. [to |-> "no folder", version |-> 0] \notin ModuleScripts(at, c)
    BY <1>2
  <1>4. QED
    BY <1>3 DEF NoScripts, ModuleScripts

LEMMA MetNeeds ==
    ASSUME NEW at, Unmet(at) = {}
    PROVE  /\ \A n \in Files(at) : \A need \in FileAt(at[n], n).needs : need.skill # n => Check(at, need) = "met"
           /\ \A c \in Modules(at) : \A need \in RecordFile(at, c).moduleNeeds :
                need.skill # Record(at, c) => Check(at, need) = "met"
  <1> DEFINE own(n) == {<<n, need>> : need \in FileAt(at[n], n).needs}
             shared(c) == {<<Record(at, c), need>> : need \in RecordFile(at, c).moduleNeeds}
  <1>1. \A u \in (UNION {own(n) : n \in Files(at)}) \cup (UNION {shared(c) : c \in Modules(at)}) :
          u[2].skill = u[1] \/ Check(at, u[2]) = "met"
    BY Zenon DEF Unmet
  <1>2. ASSUME NEW n \in Files(at), NEW need \in FileAt(at[n], n).needs
        PROVE  need.skill = n \/ Check(at, need) = "met"
    <2>1. <<n, need>> \in own(n)
      OBVIOUS
    <2> HIDE DEF own, shared
    <2>2. QED
      BY <1>1, <2>1
  <1>3. ASSUME NEW c \in Modules(at), NEW need \in RecordFile(at, c).moduleNeeds
        PROVE  need.skill = Record(at, c) \/ Check(at, need) = "met"
    <2>1. <<Record(at, c), need>> \in shared(c)
      OBVIOUS
    <2> HIDE DEF own, shared
    <2>2. QED
      BY <1>1, <2>1
  <1>4. QED
    BY <1>2, <1>3

LEMMA TeamTextFacts ==
    ASSUME NEW at, NEW codes \in SUBSET Modules(at), NEW t, IsTree(t)
    PROVE  TeamText(at, codes, t) = t.team <=>
             Fill(Template, t.team) = t.team /\ \A q \in Pending(at, codes, t) : q.scope # "team"
  <1> DEFINE full == Fill(Template, t.team)
             asked == {q \in Pending(at, codes, t) : q.scope = "team"}
  <1>1. t.team \in [Keys -> Nat]
    BY DEF IsTree
  <1>2. full \in [Keys -> Nat] /\ \A k \in Keys : t.team[k] # 0 => full[k] = t.team[k]
    BY <1>1, FillFacts
  <1>3. TeamText(at, codes, t) = Answered(full, asked)
    BY DEF TeamText
  <1>4. \A q \in asked : q.key \in Keys /\ full[q.key] = 0
    BY QuestionFacts DEF Pending
  <1> HIDE DEF full, asked
  <1>5. ASSUME NEW q \in asked
        PROVE  Answered(full, asked) # t.team
    <2>1. Answered(full, asked)[q.key] = 1 /\ t.team[q.key] = 0
      BY <1>1, <1>2, <1>4 DEF Answered
    <2>2. QED
      BY <2>1
  <1>6. ASSUME asked = {}
        PROVE  Answered(full, asked) = full
    BY <1>2, <1>6 DEF Answered
  <1>7. QED
    BY <1>3, <1>5, <1>6 DEF asked, full

LEMMA OwedMeansChange ==
    ASSUME NEW at, NEW codes \in SUBSET Modules(at), NEW t, IsTree(t), ~ScriptsClash(at, codes)
    PROVE  SetupOwed(at, codes, t) <=> Changed(at, codes, t)
  <1>1. ASSUME t.there, NEW c \in codes
        PROVE  ScriptState(at, c, t) \in {"missing", "stale"} <=> t.mods[c] # ModuleScripts(at, c)
    <2>1. ~ScriptsClash(at, {c})
      BY DEF ScriptsClash
    <2>2. QED
      BY <1>1, <2>1, PlacedScripts DEF ScriptState
  <1>2. TeamState(t) # "current" <=> ~t.config \/ Fill(Template, t.team) # t.team
    BY DEF TeamState
  <1>3. \A q \in Pending(at, codes, t) : q.scope \in {"team", "user"}
    BY QuestionFacts DEF Pending
  <1>4. CASE t.there
    BY <1>1, <1>2, <1>3, <1>4, TeamTextFacts DEF SetupOwed, Changed
  <1>5. CASE ~t.there
    BY <1>5 DEF SetupOwed, Changed
  <1>6. QED
    BY <1>4, <1>5

LEMMA AnsweredStays ==
    ASSUME NEW at, NEW t, IsTree(t), NEW q, q.key \in Keys, q.key \notin TemplateKeys
    PROVE  (IF q.scope = "user" THEN t.user[q.key] ELSE Fill(Template, t.team)[q.key]) =
             IF q.scope = "user" THEN t.user[q.key] ELSE t.team[q.key]
  BY FillFacts DEF IsTree

\* Nothing a skill would tell its user at its start is left, when status calls all current.
LEMMA CurrentMeansQuiet ==
    ASSUME NEW d, NEW p, NEW n \in Names, NEW t, IsTree(t), NEW at, at = Beside(d, p),
           ~SetupOwed(at, Modules(at), t), Current(at, Modules(at), t),
           \A c \in Modules(at) : \A need \in RecordFile(at, c).moduleNeeds : need.skill # Record(at, c)
    PROVE  ~Owed(d, p, n, t)
  <1> DEFINE f == FileAt(at[n], n)
             r == RecordOf(at, n)
             c == FileAt(at[r], r).code
  <1>1. Unmet(at) = {} /\ Problems(at) = {} /\ MissingRecords(at) = {}
    BY DEF Current
  <1>2. ~(Readable(at, n) /\ RecordOwed(at, n))
    BY <1>1 DEF Readable, RecordOwed, MissingRecords, Files
  <1>3. ASSUME Readable(at, n), NEW need \in Wanted(at, n)
        PROVE  Check(at, need) = "met"
    <2>1. need.skill # n /\ n \in Files(at)
      BY <1>3 DEF Wanted, Readable, Files
    <2>2. CASE need \in f.needs
      BY <1>1, <2>1, <2>2, MetNeeds
    <2>3. CASE need \notin f.needs
      <3>1. IsRecord(at, r) /\ need \in FileAt(at[r], r).moduleNeeds
        BY <2>3 DEF Wanted, RecordOf
      <3>2. c \in Modules(at) /\ Record(at, c) = r /\ RecordFile(at, c) = FileAt(at[r], r)
        BY <1>1, <3>1, RecordStands DEF Problems
      <3>3. need.skill # Record(at, c)
        BY <3>1, <3>2
      <3>4. QED
        BY <1>1, <3>1, <3>2, <3>3, MetNeeds
    <2>4. QED
      BY <2>2, <2>3
  <1>4. ~OwedAtStart(d, p, n)
    BY <1>2, <1>3 DEF OwedAtStart
  <1>5. ASSUME Readable(at, n), ~RecordOwed(at, n), t.there
        PROVE  ~ScriptsOwed(at, n, t) /\ Unanswered(at, n, t) = {}
    <2>1. c \in Modules(at) /\ n \in Members(at, c) /\ RecordFile(at, c) = FileAt(at[r], r)
      BY <1>1, <1>5, MemberFacts
    <2>2. ScriptState(at, c, t) = "current"
      <3>1. ScriptState(at, c, t) \in {"could-not-check", "missing", "current", "stale"}
        BY DEF ScriptState
      <3>2. QED
        BY <2>1, <3>1 DEF SetupOwed, Current
    <2>3. t.mods[c] = ModuleScripts(at, c)
      BY <2>2 DEF ScriptState
    <2>4. ~ScriptsOwed(at, n, t)
      BY <2>1, <2>3, PlacedScripts DEF ScriptsOwed
    <2>5. ASSUME NEW q \in Unanswered(at, n, t) PROVE FALSE
      <3>1. q \in RecordFile(at, c).questions /\ t.team[q.key] = 0 /\ t.user[q.key] = 0
        BY <2>1 DEF Unanswered
      <3>2. q.key \in Keys /\ q.key \notin TemplateKeys
        BY <2>1, <3>1, QuestionFacts
      <3>3. q \in Pending(at, Modules(at), t)
        BY <2>1, <3>1, <3>2, AnsweredStays DEF Pending
      <3>4. QED
        BY <3>3 DEF SetupOwed
    <2>6. QED
      BY <2>4, <2>5
  <1>6. QED
    BY <1>4, <1>5 DEF Owed

\* However skills were installed and whatever is in _bmad, status is honest about it
\* (status_report, setup_check.owed).
THEOREM StatusStaysHonest == Spec => []StatusIsHonest
  <1>1. TreeInv => StatusIsHonest
    <2> SUFFICES ASSUME TreeInv PROVE StatusIsHonest
      OBVIOUS
    <2> DEFINE at == Across(disk)
               all == Modules(at)
               owed == SetupOwed(at, all, bmad)
               circular == \E c \in all : \E need \in RecordFile(at, c).moduleNeeds : need.skill = Record(at, c)
    <2>1. IsTree(bmad)
      BY DEF TreeInv, Shaped
    <2>2. (owed <=> Changed(at, all, bmad)) \/ ScriptsClash(at, all)
      <3>1. all \in SUBSET Modules(at)
        OBVIOUS
      <3> HIDE DEF all, at
      <3>2. QED
        BY <2>1, <3>1, OwedMeansChange
    <2>3. ASSUME NEW n \in Names, Readable(at, n), ~RecordOwed(at, n),
                 NEW q \in Unanswered(at, n, bmad), q \in CurrentAnswers(at, all, bmad)
          PROVE  FALSE
      <3>1. PICK c \in all : q \in RecordFile(at, c).questions
        BY <2>3 DEF CurrentAnswers
      <3>2. all \in SUBSET Modules(at)
        OBVIOUS
      <3> HIDE DEF all, at
      <3>3. q.key \in Keys /\ q.key \notin TemplateKeys
        BY <3>1, <3>2, QuestionFacts
      <3>4. (IF q.scope = "user" THEN bmad.user[q.key] ELSE bmad.team[q.key]) # 0
        BY <2>1, <2>3, <3>3, AnsweredStays DEF CurrentAnswers
      <3>5. QED
        BY <2>3, <3>4 DEF Unanswered
    <2>4. ASSUME ~owed, ~circular, Current(at, all, bmad), NEW p \in Range(Roots), NEW n \in Names, Beside(disk, p) = at
          PROVE  ~Owed(disk, p, n, bmad)
      <3>1. at = Beside(disk, p)
        BY <2>4
      <3>2. \A c \in Modules(at) : \A need \in RecordFile(at, c).moduleNeeds : need.skill # Record(at, c)
        BY <2>4
      <3>3. ~SetupOwed(at, Modules(at), bmad) /\ Current(at, Modules(at), bmad)
        BY <2>4
      <3> HIDE DEF all, at, owed, circular
      <3>4. QED
        BY <2>1, <3>1, <3>2, <3>3, CurrentMeansQuiet
    <2>5. \A n \in Names : Readable(at, n) /\ ~RecordOwed(at, n) =>
             Unanswered(at, n, bmad) \cap CurrentAnswers(at, all, bmad) = {}
      BY <2>3
    <2>6. owed \/ circular \/ ~Current(at, all, bmad) \/ \A p \in Range(Roots), n \in Names :
             Beside(disk, p) = at => ~Owed(disk, p, n, bmad)
      BY <2>4
    <2>7. QED
      BY <2>2, <2>5, <2>6, Zenon DEF StatusIsHonest
  <1>2. QED
    BY <1>1, TreeInit, TreeStep, PTL DEF Spec

-----------------------------------------------------------------------------
(* What a setup settles. *)

\* A setup of these modules would find nothing to do and nothing to ask, but for a
\* customization that follows two renames.
Done(at, codes, t) ==
    RenamedTwice(at, codes) \/
    (~ScriptsClash(at, codes) /\ ~Changed(at, codes, t) /\ Pending(at, codes, t) = {})

\* The plan is what setup makes of tree t.
PlanOf(at, pl, t) ==
    /\ ~ScriptsClash(at, pl.codes) /\ pl.codes \subseteq Modules(at)
    /\ pl.team = TeamText(at, pl.codes, t)
    /\ pl.user = Answered(t.user, {q \in Pending(at, pl.codes, t) : q.scope = "user"})
    /\ (\E q \in Pending(at, pl.codes, t) : q.scope = "user") => pl.writesUser
    /\ \A c \in pl.codes : pl.mods[c] = ModuleScripts(at, c)
    /\ pl.renames = CustomRenames(at, pl.codes, t)

\* What setup would do to a tree depends on none of what renders write.
LEMMA SameDone ==
    ASSUME NEW at, NEW t, NEW u, SameValues(t, u)
    PROVE  /\ \A codes : t.there = u.there /\ Done(at, codes, t) => Done(at, codes, u)
           /\ \A pl : PlanOf(at, pl, t) => PlanOf(at, pl, u)
  <1>1. \A codes : /\ Pending(at, codes, t) = Pending(at, codes, u)
                   /\ CustomRenames(at, codes, t) = CustomRenames(at, codes, u)
                   /\ TeamText(at, codes, t) = TeamText(at, codes, u)
    BY DEF SameValues, Pending, CustomRenames, TeamText
  <1>2. \A codes : t.there = u.there => (Changed(at, codes, t) <=> Changed(at, codes, u))
    BY <1>1 DEF SameValues, Changed
  <1>3. QED
    BY <1>1, <1>2 DEF SameValues, Done, PlanOf

\* When nothing would change nothing is asked.
LEMMA UnchangedAsksNothing ==
    ASSUME NEW at, NEW codes \in SUBSET Modules(at), NEW t, IsTree(t), ~Changed(at, codes, t)
    PROVE  Pending(at, codes, t) = {}
  <1>1. TeamText(at, codes, t) = t.team /\ \A q \in Pending(at, codes, t) : q.scope # "user"
    BY DEF Changed
  <1>2. \A q \in Pending(at, codes, t) : q.scope \in {"team", "user"}
    BY QuestionFacts DEF Pending
  <1>3. \A q \in Pending(at, codes, t) : q.scope # "team"
    BY <1>1, TeamTextFacts
  <1>4. QED
    BY <1>1, <1>2, <1>3

\* Of the renames that are free and lead to one name one is followed.
LEMMA OneIsFollowed ==
    ASSUME NEW at, NEW codes \in SUBSET Modules(at), NEW t, IsTree(t),
           NEW r \in RenamedBy(at, codes), t.custom[r[1]] # 0, t.custom[r[2]] = 0
    PROVE  \E o \in CustomRenames(at, codes, t) : o[2] = r[2]
  <1> DEFINE i(n) == SelectInSeq(Skills, LAMBDA m : m = n)
             free == {x \in RenamedBy(at, codes) : t.custom[x[1]] # 0 /\ t.custom[x[2]] = 0}
             rivals == {x \in free : x[2] = r[2]}
             I == {i(x[1]) : x \in rivals}
  <1>1. RenamedBy(at, codes) \subseteq Names \X Names
    BY FollowingFacts
  <1>2. \A n \in Names : i(n) \in Nat
    BY PlaceOfName
  <1>3. CustomRenames(at, codes, t) = {x \in free : \A o \in free : o[2] = x[2] => i(x[1]) <= i(o[1])}
    BY DEF CustomRenames
  <1> HIDE DEF i
  <1>4. I \subseteq Nat /\ I # {}
    BY <1>1, <1>2
  <1>5. Min(I) \in I /\ \A y \in I : Min(I) <= y
    <2> HIDE DEF I
    <2>1. QED
      BY <1>4, LeastNatural
  <1>6. PICK x \in rivals : i(x[1]) = Min(I)
    BY <1>5
  <1>7. \A o \in free : o[2] = x[2] => i(x[1]) <= i(o[1])
    BY <1>5, <1>6
  <1>8. QED
    BY <1>3, <1>6, <1>7

\* What setup stages is done.
LEMMA StagedIsDone ==
    ASSUME NEW at, NEW t, IsTree(t), NEW pl, PlanOf(at, pl, t), IsPlan(pl)
    PROVE  Done(at, pl.codes, Staged(pl, t))
  <1> DEFINE codes == pl.codes
             u == Staged(pl, t)
             pending == Pending(at, codes, t)
  <1>1. codes \in SUBSET Modules(at) /\ ~ScriptsClash(at, codes)
    BY DEF PlanOf
  <1>2. /\ IsTree(u) /\ u.there /\ u.team = StageTeam(pl, t) /\ u.user = StageUser(pl, t)
        /\ u.custom = StageCustom(pl, t) /\ u.mods = StageMods(pl, t)
        /\ u.scripts = "current" /\ u.config /\ u.ignore
    BY StagedTree
  <1>3. pl.team = TeamText(at, codes, t) /\ pl.renames = CustomRenames(at, codes, t)
    BY DEF PlanOf
  <1>4. t.team \in [Keys -> Nat] /\ t.user \in [Keys -> Nat] /\ t.custom \in [Names -> Nat]
    BY DEF IsTree
  <1>5. /\ Fill(Template, t.team) \in [Keys -> Nat]
        /\ \A k \in Keys : Fill(Template, t.team)[k] =
             IF t.team[k] # 0 THEN t.team[k] ELSE IF k \in TemplateKeys THEN 1 ELSE 0
    BY <1>4, FillFacts
  <1>6. \A k \in Keys : pl.team[k] = IF \E q \in pending : q.scope = "team" /\ q.key = k THEN 1
                                     ELSE Fill(Template, t.team)[k]
    BY <1>3, <1>5 DEF TeamText, Answered
  <1>7. \A k \in Keys : pl.user[k] = IF \E q \in pending : q.scope = "user" /\ q.key = k THEN 1 ELSE t.user[k]
    BY <1>4 DEF PlanOf, Answered
  <1>8. \A k \in Keys : u.team[k] = IF t.team[k] # 0 THEN t.team[k] ELSE pl.team[k]
    BY <1>2, <1>4 DEF StageTeam, Fill
  <1>9. \A k \in Keys : u.user[k] = IF pl.writesUser THEN pl.user[k] ELSE t.user[k]
    BY <1>2 DEF StageUser
  <1>10. \A c \in codes : u.mods[c] = ModuleScripts(at, c)
    BY <1>1, <1>2 DEF StageMods, PlanOf, Codes, Modules
  <1>11. (\E q \in pending : q.scope = "user") => pl.writesUser
    BY DEF PlanOf
  <1> HIDE DEF u
  <1>12. Pending(at, codes, u) = {}
    <2>1. ASSUME NEW c \in codes, NEW q \in RecordFile(at, c).questions, q \in Pending(at, codes, u)
          PROVE  FALSE
      <3>1. q.key \in Keys /\ q.key \notin TemplateKeys /\ q.scope \in {"team", "user"}
        BY <1>1, QuestionFacts
      <3>2. (IF q.scope = "user" THEN u.user[q.key] ELSE u.team[q.key]) = 0
        BY <1>2, <2>1, <3>1, AnsweredStays DEF Pending
      <3>3. q \in pending <=> (IF q.scope = "user" THEN t.user[q.key] ELSE t.team[q.key]) = 0
        BY <3>1, AnsweredStays DEF Pending
      <3> HIDE DEF pending
      <3>4. CASE q.scope = "user"
        BY <1>7, <1>9, <1>11, <3>1, <3>2, <3>3, <3>4
      <3>5. CASE q.scope = "team"
        BY <1>6, <1>8, <3>1, <3>2, <3>3, <3>5
      <3>6. QED
        BY <3>1, <3>4, <3>5
    <2>2. QED
      BY <2>1 DEF Pending
  <1>13. TeamText(at, codes, u) = u.team
    <2>1. u.team \in [Keys -> Nat]
      BY <1>2 DEF IsTree
    <2>2. ASSUME NEW k \in Keys
          PROVE  Fill(Template, u.team)[k] = u.team[k]
      <3>1. u.team[k] = 0 => k \notin TemplateKeys
        BY <1>5, <1>6, <1>8
      <3>2. QED
        BY <2>1, <3>1, FillFacts
    <2>3. Fill(Template, u.team) = u.team
      BY <2>1, <2>2, FillFacts
    <2>4. QED
      BY <1>1, <1>2, <1>12, <2>3, TeamTextFacts
  <1>14. ASSUME ~RenamedTwice(at, codes)
         PROVE  CustomRenames(at, codes, u) = {}
    <2>1. SUFFICES ASSUME NEW r \in CustomRenames(at, codes, u) PROVE FALSE
      OBVIOUS
    <2>2. /\ r \in RenamedBy(at, codes) /\ r \in Names \X Names
          /\ u.custom[r[1]] # 0 /\ u.custom[r[2]] = 0
      <3> HIDE DEF codes
      <3>1. IsTree(u) /\ codes \in SUBSET Modules(at)
        BY <1>1, <1>2
      <3>2. /\ CustomRenames(at, codes, u) \subseteq RenamedBy(at, codes)
            /\ RenamedBy(at, codes) \subseteq Names \X Names
            /\ \A x \in CustomRenames(at, codes, u) : u.custom[x[1]] # 0 /\ u.custom[x[2]] = 0
        BY <3>1, FollowingFacts
      <3>3. QED
        BY <2>1, <3>2
    <2>3. /\ pl.renames \subseteq RenamedBy(at, codes) 
          /\ \A x \in pl.renames : t.custom[x[1]] # 0
      BY <1>1, <1>3, FollowingFacts
    <2>4. \A n \in Names : u.custom[n] =
            IF \E x \in pl.renames : x[2] = n THEN t.custom[(CHOOSE x \in pl.renames : x[2] = n)[1]]
            ELSE IF \E x \in pl.renames : x[1] = n THEN 0 ELSE t.custom[n]
      BY <1>2 DEF StageCustom
    <2>5. ~ \E x \in pl.renames : x[2] = r[1]
      BY <1>14, <2>2, <2>3 DEF RenamedTwice
    <2>6. ~ \E x \in pl.renames : x[1] = r[2]
      BY <1>14, <2>2, <2>3 DEF RenamedTwice
    <2>7. t.custom[r[1]] # 0
      BY <2>2, <2>4, <2>5
    <2>8. ~ \E x \in pl.renames : x[2] = r[2]
      <3>1. ASSUME \E x \in pl.renames : x[2] = r[2] PROVE FALSE
        <4>1. (CHOOSE x \in pl.renames : x[2] = r[2]) \in pl.renames
          BY <3>1
        <4>2. u.custom[r[2]] # 0
          BY <2>2, <2>3, <2>4, <3>1, <4>1
        <4>3. QED
          BY <2>2, <4>2
      <3>2. QED
        BY <3>1
    <2>9. t.custom[r[2]] = 0
      BY <2>2, <2>4, <2>6, <2>8
    <2>10. QED
      BY <1>1, <1>3, <2>2, <2>7, <2>8, <2>9, OneIsFollowed
  <1>15. ASSUME ~RenamedTwice(at, codes)
         PROVE  ~Changed(at, codes, u)
    <2> HIDE DEF codes
    <2>1. \A c \in codes : ~(u.mods[c] # ModuleScripts(at, c))
      BY <1>10
    <2>2. QED
      BY <1>2, <1>12, <1>13, <1>14, <1>15, <2>1 DEF Changed
  <1>16. QED
    BY <1>1, <1>12, <1>15 DEF Done, u

\* What a calm setup is about to move in, or has moved in, needs no other setup.
Calmly(p) ==
    LET at == Across(disk)
    IN /\ spc[p] = "copy" => PlanOf(at, plan[p], bmad)
       /\ spc[p] = "stage" => PlanOf(at, plan[p], stage[p])
       /\ spc[p] \in {"swap", "movein"} => Done(at, plan[p].codes, stage[p])
       /\ spc[p] \in {"drop", "output"} => Done(at, plan[p].codes, bmad)

Settling ==
    /\ settled = {} \/ (settled \subseteq Modules(Across(disk)) /\ Done(Across(disk), settled, bmad))
    /\ \A p \in Setups : p \in calm => Calmly(p)

\* A step of one setup that leaves the calm of the others, or ends it.
LEMMA SettlingKept ==
    ASSUME TreeInv, Settling, NEW p \in Setups, Stands(p),
           \/ bmad' = bmad /\ calm' \subseteq calm \cup {p} /\ (settled' = settled \/ (settled' = plan[p].codes /\ p \in calm /\ spc[p] = "output"))
           \/ calm' \subseteq {p} /\ settled' = {},
           p \in calm' => Calmly(p)'
    PROVE  Settling'
  <1>1. disk' = disk
    BY DEF Stands
  <1>2. ASSUME NEW q \in Setups \ {p}, q \in calm'
        PROVE  Calmly(q)'
    <2>1. bmad' = bmad /\ q \in calm
      BY <1>2
    <2>2. spc'[q] = spc[q] /\ plan'[q] = plan[q] /\ stage'[q] = stage[q]
      BY DEF Stands
    <2>3. QED
      BY <1>1, <2>1, <2>2 DEF Settling, Calmly
  <1>3. settled' = {} \/ (settled' \subseteq Modules(Across(disk)) /\ Done(Across(disk), settled', bmad'))
    <2>1. CASE settled' = {}
      BY <2>1
    <2>2. CASE bmad' = bmad /\ settled' = settled
      BY <2>2 DEF Settling
    <2>3. CASE bmad' = bmad /\ settled' = plan[p].codes /\ p \in calm /\ spc[p] = "output"
      BY <2>3 DEF Settling, Calmly, TreeInv, Shaped
    <2>4. QED
      BY <2>1, <2>2, <2>3
  <1>4. QED
    BY <1>1, <1>2, <1>3 DEF Settling

LEMMA SetupKeepsSettling ==
    ASSUME TreeInv, Settling, NEW p \in Setups, Setup(p) \/ Kill(p)
    PROVE  Settling'
  <1> DEFINE at == Across(disk)
             codes == plan[p].codes
  <1>1. Stands(p) /\ disk' = disk
    BY SetupStands DEF Stands
  <1>2. /\ DOMAIN spc = Setups /\ DOMAIN plan = Setups /\ DOMAIN stage = Setups
        /\ DOMAIN plan[p] = DOMAIN NoPlan /\ IsTree(bmad) /\ IsTree(stage[p])
    BY DEF TreeInv, Shaped
  <1>3. /\ \A where : To(p, where) => spc'[p] = where
        /\ Stop(p) => spc'[p] = "idle"
    BY <1>2 DEF To, Stop
  <1>4. spc'[p] \in {"idle", "plan"} => Calmly(p)'
    BY DEF Calmly
  <1>5. ASSUME NEW new \in SUBSET Modules(at), Ask(p, new) PROVE Settling'
    <2>1. spc'[p] = "plan" /\ UNCHANGED <<bmad, calm, settled>>
      BY <1>3, <1>5 DEF Ask, sharedVars
    <2>2. QED
      BY <1>1, <1>4, <2>1, SettlingKept
  <1>6. CASE Plan(p)
    <2>1. bmad' = bmad /\ settled' = settled /\ spc[p] = "plan"
      BY <1>6 DEF Plan, sharedVars
    <2>2. CASE Stop(p) /\ calm' = calm
      BY <1>1, <1>3, <1>4, <2>1, <2>2, SettlingKept
    <2>3. CASE ~(Stop(p) /\ calm' = calm)
      <3> DEFINE pending == Pending(at, codes, bmad)
                 new == [plan[p] EXCEPT !.team = TeamText(at, codes, bmad),
                                        !.user = Answered(bmad.user, {q \in pending : q.scope = "user"}),
                                        !.writesUser = \E q \in pending : q.scope = "user",
                                        !.mods = [c \in codes |-> ModuleScripts(at, c)],
                                        !.renames = CustomRenames(at, codes, bmad)]
      <3>1. /\ ~ScriptsClash(at, codes) /\ To(p, IF Changed(at, codes, bmad) THEN "copy" ELSE "output")
            /\ plan' = [plan EXCEPT ![p] = new] /\ calm' = calm \cup {p}
        BY <1>6, <2>3 DEF Plan
      <3>2. plan'[p] = new
        BY <1>2, <3>1
      <3>3. /\ new.codes = codes /\ new.team = TeamText(at, codes, bmad)
            /\ new.user = Answered(bmad.user, {q \in pending : q.scope = "user"})
            /\ (\E q \in pending : q.scope = "user") => new.writesUser
            /\ new.mods = [c \in codes |-> ModuleScripts(at, c)]
            /\ new.renames = CustomRenames(at, codes, bmad)
        BY <1>2 DEF NoPlan
      <3>4. codes \in SUBSET Modules(at)
        BY <2>1 DEF TreeInv, Shaped
      <3> HIDE DEF new, codes, at
      <3>5. PlanOf(at, new, bmad)
        BY <3>1, <3>3, <3>4 DEF PlanOf
      <3>6. ~Changed(at, codes, bmad) => Done(at, codes, bmad)
        BY <1>2, <3>1, <3>4, UnchangedAsksNothing DEF Done
      <3>7. spc'[p] = IF Changed(at, codes, bmad) THEN "copy" ELSE "output"
        BY <1>3, <3>1
      <3>8. Calmly(p)'
        BY <1>1, <2>1, <3>2, <3>3, <3>5, <3>6, <3>7 DEF Calmly, at
      <3>9. QED
        BY <1>1, <2>1, <3>1, <3>8, SettlingKept
    <2>4. QED
      BY <2>2, <2>3
  <1>7. CASE Copy(p)
    <2>1. /\ spc[p] = "copy" /\ spc'[p] = "stage" /\ UNCHANGED <<bmad, plan, calm, settled>>
          /\ stage'[p] = IF bmad.there THEN bmad ELSE EmptyTree
      BY <1>2, <1>3, <1>7 DEF Copy, sharedVars
    <2>2. SameValues(bmad, stage'[p])
      BY <1>2, <2>1, TreeFacts DEF IsTree, SameValues
    <2>3. p \in calm => PlanOf(at, plan'[p], stage'[p])
      BY <2>1, <2>2, SameDone DEF Settling, Calmly
    <2>4. p \in calm' => Calmly(p)'
      BY <1>1, <2>1, <2>3 DEF Calmly
    <2>5. QED
      BY <1>1, <2>1, <2>4, SettlingKept
  <1>8. CASE Stage(p)
    <2>1. UNCHANGED <<bmad, calm, settled>> /\ spc[p] = "stage"
      BY <1>8 DEF Stage, sharedVars
    <2>2. CASE Stop(p)
      BY <1>1, <1>3, <1>4, <2>1, <2>2, SettlingKept
    <2>3. CASE ~Stop(p)
      <3>1. spc'[p] = "swap" /\ plan' = plan /\ stage'[p] = Staged(plan[p], stage[p])
        BY <1>2, <1>3, <1>8, <2>3 DEF Stage
      <3>2. IsPlan(plan[p])
        BY <2>1 DEF TreeInv, Shaped, Underway
      <3>3. p \in calm => PlanOf(at, plan[p], stage[p])
        BY <2>1 DEF Settling, Calmly
      <3>4. p \in calm => Done(at, codes, stage'[p])
        BY <1>2, <3>1, <3>2, <3>3, StagedIsDone
      <3>5. p \in calm' => Calmly(p)'
        BY <1>1, <2>1, <3>1, <3>4 DEF Calmly
      <3>6. QED
        BY <1>1, <2>1, <3>5, SettlingKept
    <2>4. QED
      BY <2>2, <2>3
  <1>9. CASE MoveAside(p)
    <2>1. spc[p] = "swap"
      BY <1>9 DEF MoveAside
    <2>2. CASE Stop(p) /\ UNCHANGED <<bmad, calm, settled>>
      BY <1>1, <1>3, <1>4, <2>2, SettlingKept
    <2>3. CASE ~(Stop(p) /\ UNCHANGED <<bmad, calm, settled>>)
      <3>1. /\ To(p, "movein") /\ stage' = stage
            /\ UNCHANGED <<bmad, calm, settled>> \/ Disturb(p)
            /\ plan' = plan \/ \E s \in Seconds : plan' = [plan EXCEPT ![p].moved = s]
        BY <1>9, <2>3 DEF MoveAside, sharedVars
      <3>2. plan'[p].codes = codes
        BY <1>2, <3>1 DEF NoPlan
      <3>3. spc'[p] = "movein"
        BY <1>3, <3>1
      <3>4. p \in calm => Calmly(p)'
        BY <1>1, <2>1, <3>1, <3>2, <3>3 DEF Settling, Calmly
      <3>5. CASE UNCHANGED <<bmad, calm, settled>>
        BY <1>1, <3>4, <3>5, SettlingKept
      <3>6. CASE Disturb(p)
        BY <1>1, <3>4, <3>6, SettlingKept DEF Disturb
      <3>7. QED
        BY <3>1, <3>5, <3>6
    <2>4. QED
      BY <2>2, <2>3
  <1>10. CASE MoveIn(p)
    <2>1. spc[p] = "movein"
      BY <1>10 DEF MoveIn
    <2>2. CASE bmad.there
      BY <1>1, <1>3, <1>4, <1>10, <2>2, SettlingKept DEF MoveIn
    <2>3. CASE ~bmad.there
      <3>1. bmad' = stage[p] /\ plan' = plan /\ Disturb(p) /\ To(p, IF plan[p].moved = 0 THEN "output" ELSE "drop")
        BY <1>10, <2>3 DEF MoveIn
      <3>2. spc'[p] \in {"output", "drop"}
        BY <1>3, <3>1
      <3>3. p \in calm => Calmly(p)'
        BY <1>1, <2>1, <3>1, <3>2 DEF Settling, Calmly
      <3>4. QED
        BY <1>1, <3>1, <3>3, SettlingKept DEF Disturb
    <2>4. QED
      BY <2>2, <2>3
  <1>11. CASE MoveInFails(p)
    BY <1>1, <1>3, <1>4, <1>11, SettlingKept DEF MoveInFails, Disturb
  <1>12. CASE DropAside(p)
    <2>1. spc[p] = "drop" /\ spc'[p] = "output" /\ UNCHANGED <<bmad, plan, calm, settled>>
      BY <1>3, <1>12 DEF DropAside
    <2>2. p \in calm => Calmly(p)'
      BY <1>1, <2>1 DEF Settling, Calmly
    <2>3. QED
      BY <1>1, <2>1, <2>2, SettlingKept
  <1>13. CASE Output(p)
    <2>1. /\ spc[p] = "output" /\ spc'[p] = "idle" /\ UNCHANGED <<bmad, calm>>
          /\ settled' = IF p \in calm THEN codes ELSE settled
      BY <1>3, <1>13 DEF Output, sharedVars
    <2>2. QED
      BY <1>1, <1>4, <2>1, SettlingKept
  <1>14. CASE Fail(p) \/ KillSetup(p)
    <2>1. Stop(p) /\ UNCHANGED <<bmad, calm, settled>>
      BY <1>14 DEF Fail, KillSetup, sharedVars
    <2>2. QED
      BY <1>1, <1>3, <1>4, <2>1, SettlingKept
  <1>15. SetupStep(p) \/ KillSetup(p)
    BY DEF Setup, Kill
  <1>16. QED
    BY <1>5, <1>6, <1>7, <1>8, <1>9, <1>10, <1>11, <1>12, <1>13, <1>14, <1>15 DEF SetupStep

LEMMA SettlingStep == TreeInv /\ Settling /\ [Next]_vars => Settling'
  <1> SUFFICES ASSUME TreeInv, Settling, [Next]_vars PROVE Settling'
    OBVIOUS
  <1>1. ASSUME NEW p \in Setups, Setup(p) \/ Kill(p) PROVE Settling'
    BY <1>1, SetupKeepsSettling
  <1>2. ASSUME NEW r \in Renderers, Render(r) \/ Crash(r) PROVE Settling'
    <2>1. Shaped /\ Aloof
      BY <1>2, RendersAreAloof DEF TreeInv
    <2>2. CASE calm' = {} /\ settled' = {}
      BY <2>2 DEF Settling
    <2>3. CASE ~(calm' = {} /\ settled' = {})
      <3>1. UNCHANGED <<calm, settled>> /\ SameValues(bmad, bmad')
        BY <1>2, <2>1, <2>3 DEF Render, Crash, Aloof
      <3>2. bmad.there = bmad'.there
        <4>1. CASE Render(r)
          BY <2>1, <2>3, <4>1 DEF Render, Aloof, Shaped, IsTree
        <4>2. CASE Crash(r)
          BY <4>2 DEF Crash, KillRender
        <4>3. QED
          BY <1>2, <4>1, <4>2
      <3>3. UNCHANGED <<disk, spc, plan, stage>>
        BY <2>1 DEF Aloof
      <3>4. /\ \A codes : Done(Across(disk), codes, bmad) => Done(Across(disk), codes, bmad')
            /\ \A pl : PlanOf(Across(disk), pl, bmad) => PlanOf(Across(disk), pl, bmad')
        BY <3>1, <3>2, SameDone
      <3>5. \A p \in Setups : Calmly(p) => Calmly(p)'
        BY <3>3, <3>4 DEF Calmly
      <3>6. QED
        BY <3>1, <3>3, <3>4, <3>5 DEF Settling
    <2>4. QED
      BY <2>2, <2>3
  <1>3. ASSUME NEW spot \in Spots, Edit(spot) PROVE Settling'
    BY <1>3 DEF Edit, Settling
  <1>4. CASE UNCHANGED vars
    BY <1>4 DEF vars, sharedVars, setupVars, Settling, Calmly
  <1>5. QED
    BY <1>1, <1>2, <1>3, <1>4 DEF Next

\* Whatever the modules, their questions, scripts and renames: a setup nobody interfered
\* with leaves nothing for a second one (setup, next_step).
THEOREM SetupAlwaysSettles == Spec => []SetupSettles
  <1>1. Init => Settling
    BY DEF Init, SetupInit, Settling
  <1>2. TreeInv /\ Settling => SetupSettles
    <2> SUFFICES ASSUME TreeInv, Settling, settled # {}, ~RenamedTwice(Across(disk), settled) PROVE SetupSettles
      BY DEF SetupSettles
    <2> DEFINE at == Across(disk)
    <2>1. /\ settled \in SUBSET Modules(at) /\ IsTree(bmad)
          /\ ~ScriptsClash(at, settled) /\ ~Changed(at, settled, bmad) /\ Pending(at, settled, bmad) = {}
      BY DEF Settling, Done, TreeInv, Shaped
    <2> HIDE DEF at
    <2>2. ~SetupOwed(at, settled, bmad)
      BY <2>1, OwedMeansChange
    <2>3. NextStep(at, settled, bmad) # "setup"
      BY <2>2 DEF NextStep
    <2>4. QED
      BY <2>1, <2>3 DEF SetupSettles, at
  <1>3. QED
    BY <1>1, <1>2, SettlingStep, TreeInit, TreeStep, PTL DEF Spec

-----------------------------------------------------------------------------
(* Generations. *)

WholeTree(t) == \A g \in t.gens : Renders(g.key) /\ g.files = Whole(g.key)

\* What a renderer that writes has written, and has still to.
Writing(r) ==
    /\ rpc[r] \in {"publish", "write", "rename"} => Renders(Key(r))
    /\ rpc[r] = "write" =>
         bmad.staging[r] \cup {Made(f, Key(r)) : f \in todo[r]} = {Made(f, Key(r)) : f \in Outputs(Key(r))}
    /\ rpc[r] = "rename" => bmad.staging[r] = Whole(Key(r))

AllWhole ==
    /\ WholeTree(bmad) /\ (\A b \in Seconds : WholeTree(aside[b])) /\ (\A p \in Setups : WholeTree(stage[p]))
    /\ \A r \in Renderers : Writing(r)

KeysOf(t) == {g.key : g \in t.gens}

\* Where the generations are that somebody follows.
Followed ==
    /\ bmad.there => answered \subseteq KeysOf(bmad)
    /\ \A p \in Setups : spc[p] \in {"stage", "swap"} =>
         KeysOf(bmad) \subseteq KeysOf(stage[p]) /\ answered \subseteq KeysOf(stage[p])
    /\ \A p \in Setups : spc[p] = "movein" =>
         answered \subseteq KeysOf(stage[p]) /\ (Moved(p) # 0 => answered \subseteq KeysOf(aside[Moved(p)]))
    /\ bmad.there \/ answered = {} \/ \E p \in Setups : spc[p] = "movein" /\ Moved(p) # 0

SnapInv ==
    /\ Overlap => crossed
    /\ crossed \/ AllWhole
    /\ crossed \/ clashed \/ stolen \/ killed \/ Followed

LEMMA MadeFacts ==
    ASSUME NEW S, NEW key
    PROVE  \A T : T \cup {Made(f, key) : f \in S} = {Made(f, key) : f \in Outputs(key)} => T # NoStaging
  <1>1. \A f : Made(f, key) # <<"no folder">>
    BY DEF Made
  <1>2. \A T : T \subseteq {Made(f, key) : f \in Outputs(key)} => T # NoStaging
    BY <1>1 DEF NoStaging
  <1>3. QED
    BY <1>2

\* What one renderer does to the others, to the generations and to the answers.
Effect(r) ==
    /\ \A q \in Renderers \ {r} : /\ rpc'[q] = rpc[q] /\ values'[q] = values[q] /\ todo'[q] = todo[q]
                                  /\ bmad'.staging[q] = bmad.staging[q]
    /\ \/ bmad'.gens = bmad.gens /\ answered' \subseteq answered \cup KeysOf(bmad)
       \/ /\ rpc[r] = "rename" /\ bmad.there
          /\ bmad'.gens = bmad.gens \cup {[key |-> Key(r), files |-> bmad.staging[r]]}
          /\ answered' = answered \cup {Key(r)}
    /\ Writing(r) => Writing(r)'

LEMMA RenderEffect ==
    ASSUME Shaped, NEW r \in Renderers, RenderStep(r) \/ KillRender(r)
    PROVE  Effect(r)
  <1>1. /\ IsTree(bmad) /\ DOMAIN bmad.staging = Renderers /\ DOMAIN rpc = Renderers
        /\ DOMAIN values = Renderers /\ DOMAIN todo = Renderers
    BY DEF Shaped, IsTree
  <1> DEFINE Mine == \A q \in Renderers \ {r} : rpc'[q] = rpc[q] /\ values'[q] = values[q] /\ todo'[q] = todo[q]
             Puts(files) == bmad'.staging = [bmad.staging EXCEPT ![r] = files] /\ bmad'.gens = bmad.gens
  <1>2. \A files : Puts(files) =>
          /\ \A q \in Renderers \ {r} : bmad'.staging[q] = bmad.staging[q]
          /\ bmad'.staging[r] = files
    BY <1>1
  <1>3. Rest(r) => Mine /\ rpc'[r] = "idle"
    BY <1>1 DEF Rest, At
  <1>4. \A where : At(r, where) => rpc'[r] = where /\ \A q \in Renderers \ {r} : rpc'[q] = rpc[q]
    BY <1>1 DEF At
  <1>5. rpc'[r] \in {"idle", "custom", "render"} => Writing(r)'
    BY DEF Writing
  <1>6. /\ Verify(r) => Mine /\ Puts(NoStaging) /\ answered' \subseteq answered \cup KeysOf(bmad) /\ rpc'[r] = "idle"
        /\ Halt(r) => Mine /\ Puts(NoStaging) /\ answered' = answered /\ rpc'[r] = "idle"
    <2>1. Rendered(bmad, Unstaged(r, bmad), bmad.there, bmad.gens, r, NoStaging)
      BY <1>1, RenderedTree DEF Unstaged
    <2>2. Verify(r) => answered' \subseteq answered \cup KeysOf(bmad)
      BY DEF Verify, Generation, KeysOf
    <2>3. QED
      BY <1>3, <2>1, <2>2 DEF Verify, Halt, Rendered
  <1>7. ASSUME Verify(r) \/ Halt(r) PROVE Effect(r)
    BY <1>2, <1>5, <1>6, <1>7 DEF Effect
  <1>8. CASE ReadConfig(r) \/ ReadCustom(r)
    <2>1. Mine /\ bmad' = bmad /\ answered' = answered /\ rpc'[r] \in {"custom", "render"}
      BY <1>1, <1>4, <1>8 DEF ReadConfig, ReadCustom
    <2>2. QED
      BY <1>5, <2>1 DEF Effect
  <1>9. CASE Pass(r)
    <2>1. bmad' = bmad /\ answered' = answered
      BY <1>9 DEF Pass
    <2>2. CASE Renders(Key(r))
      <3>1. Mine /\ values' = values /\ rpc'[r] = "publish"
        BY <1>4, <1>9, <2>2 DEF Pass
      <3>2. Writing(r)'
        BY <2>2, <3>1 DEF Writing, Key
      <3>3. QED
        BY <2>1, <3>1, <3>2 DEF Effect
    <2>3. CASE ~Renders(Key(r))
      BY <1>3, <1>5, <1>9, <2>1, <2>3 DEF Pass, Effect
    <2>4. QED
      BY <2>2, <2>3
  <1>10. CASE KillRender(r)
    BY <1>3, <1>5, <1>10 DEF KillRender, Effect
  <1>11. CASE Begin(r)
    <2>1. CASE Generation(bmad, Key(r)) # {}
      BY <1>7, <1>11, <2>1 DEF Begin
    <2>2. CASE Generation(bmad, Key(r)) = {}
      <3>1. /\ rpc[r] = "publish" /\ bmad' = [bmad EXCEPT !.there = TRUE, !.staging[r] = {}]
            /\ todo' = [todo EXCEPT ![r] = Outputs(Key(r))] /\ At(r, "write") /\ values' = values /\ answered' = answered
        BY <1>11, <2>2 DEF Begin
      <3>2. Puts({})
        <4>1. Rendered(bmad, bmad', TRUE, bmad.gens, r, {})
          BY <1>1, <3>1, RenderedTree
        <4>2. QED
          BY <4>1 DEF Rendered
      <3>3. Mine /\ rpc'[r] = "write" /\ todo'[r] = Outputs(Key(r))
        BY <1>1, <1>4, <3>1
      <3>4. Key(r)' = Key(r)
        BY <3>1 DEF Key
      <3>5. bmad'.staging[r] = {}
        BY <1>2, <3>2
      <3>6. Writing(r) => Writing(r)'
        BY <3>1, <3>3, <3>4, <3>5 DEF Writing
      <3>7. QED
        BY <1>2, <3>1, <3>2, <3>3, <3>6 DEF Effect
    <2>3. QED
      BY <2>1, <2>2
  <1>12. CASE WriteSource(r)
    <2>1. PICK f \in todo[r] :
            /\ bmad' = [bmad EXCEPT !.there = TRUE,
                          !.staging[r] = (IF @ = NoStaging THEN {} ELSE @) \cup {Made(f, Key(r))}]
            /\ todo' = [todo EXCEPT ![r] = @ \ {f}]
      BY <1>12 DEF WriteSource
    <2> DEFINE F == (IF bmad.staging[r] = NoStaging THEN {} ELSE bmad.staging[r]) \cup {Made(f, Key(r))}
    <2>2. rpc[r] = "write" /\ UNCHANGED <<rpc, values, answered>>
      BY <1>12 DEF WriteSource
    <2>3. bmad' = [bmad EXCEPT !.there = TRUE, !.staging[r] = F]
      BY <1>1, <2>1, TreeFields
    <2>4. Puts(F)
      <3> HIDE DEF F
      <3>1. Rendered(bmad, bmad', TRUE, bmad.gens, r, F)
        BY <1>1, <2>3, RenderedTree
      <3>2. QED
        BY <3>1 DEF Rendered
    <2>5. Mine /\ todo'[r] = todo[r] \ {f} /\ Key(r)' = Key(r)
      BY <1>1, <2>1, <2>2 DEF Key
    <2>6. bmad'.staging[r] = F
      BY <1>2, <2>4
    <2>7. ASSUME Writing(r) PROVE Writing(r)'
      <3> DEFINE all(S) == {Made(g, Key(r)) : g \in S}
      <3>1. Renders(Key(r)) /\ bmad.staging[r] \cup all(todo[r]) = all(Outputs(Key(r)))
        BY <2>2, <2>7 DEF Writing
      <3>2. bmad.staging[r] # NoStaging
        BY <3>1, MadeFacts
      <3>3. F \cup all(todo[r] \ {f}) = bmad.staging[r] \cup all(todo[r])
        BY <3>2
      <3> HIDE DEF F
      <3>4. QED
        BY <2>2, <2>5, <2>6, <3>1, <3>3 DEF Writing
    <2>8. QED
      BY <1>2, <2>2, <2>4, <2>5, <2>7 DEF Effect
  <1>13. CASE WriteManifest(r)
    <2>1. CASE bmad.staging[r] = NoStaging
      BY <1>7, <1>13, <2>1 DEF WriteManifest
    <2>2. CASE bmad.staging[r] # NoStaging
      <3> DEFINE F == bmad.staging[r] \cup {Made(Manifest, Key(r))}
      <3>1. /\ rpc[r] = "write" /\ todo[r] = {} /\ bmad' = [bmad EXCEPT !.staging[r] = F]
            /\ At(r, "rename") /\ UNCHANGED <<values, todo, answered>>
        BY <1>1, <1>13, <2>2, TreeFields DEF WriteManifest
      <3>2. Puts(F)
        <4>1. bmad.there
          BY <1>1, <2>2 DEF IsTree, NoTree, EmptyTree
        <4> HIDE DEF F
        <4>2. Rendered(bmad, bmad', TRUE, bmad.gens, r, F)
          BY <1>1, <3>1, <4>1, RenderedTree
        <4>3. QED
          BY <4>2 DEF Rendered
      <3>3. Mine /\ rpc'[r] = "rename" /\ Key(r)' = Key(r)
        BY <1>4, <3>1 DEF Key
      <3>4. bmad'.staging[r] = F
        BY <1>2, <3>2
      <3>5. ASSUME Writing(r) PROVE Writing(r)'
        <4>1. Renders(Key(r)) /\ bmad.staging[r] = {Made(g, Key(r)) : g \in Outputs(Key(r))}
          BY <3>1, <3>5 DEF Writing
        <4>2. F = Whole(Key(r))
          BY <4>1 DEF Whole
        <4> HIDE DEF F
        <4>3. QED
          BY <3>3, <3>4, <4>1, <4>2 DEF Writing
      <3>6. QED
        BY <1>2, <3>1, <3>2, <3>3, <3>5 DEF Effect
    <2>3. QED
      BY <2>1, <2>2
  <1>14. CASE Publish(r)
    <2>1. CASE Generation(bmad, Key(r)) # {} \/ bmad.staging[r] = NoStaging
      BY <1>7, <1>14, <2>1 DEF Publish
    <2>2. CASE Generation(bmad, Key(r)) = {} /\ bmad.staging[r] # NoStaging
      <3> DEFINE G == {[key |-> Key(r), files |-> bmad.staging[r]]}
      <3>1. /\ rpc[r] = "rename" /\ Rest(r) /\ answered' = answered \cup {Key(r)}
            /\ bmad' = [[bmad EXCEPT !.staging[r] = NoStaging] EXCEPT !.gens = @ \cup G]
        BY <1>14, <2>2 DEF Publish, Unstaged
      <3>2. bmad.there
        BY <1>1, <2>2 DEF IsTree, NoTree, EmptyTree
      <3>3. bmad'.gens = bmad.gens \cup G /\ bmad'.staging = [bmad.staging EXCEPT ![r] = NoStaging]
        <4> HIDE DEF G
        <4>1. Rendered(bmad, bmad', TRUE, bmad.gens \cup G, r, NoStaging)
          BY <1>1, <3>1, <3>2, RenderedTree
        <4>2. QED
          BY <4>1 DEF Rendered
      <3>4. QED
        BY <1>1, <1>3, <1>5, <3>1, <3>2, <3>3 DEF Effect
    <2>3. QED
      BY <2>1, <2>2
  <1>15. QED
    BY <1>8, <1>9, <1>10, <1>11, <1>12, <1>13, <1>14 DEF RenderStep

LEMMA RendersKeepGenerations ==
    ASSUME TreeInv, SnapInv, NEW r \in Renderers, Render(r) \/ Crash(r)
    PROVE  SnapInv'
  <1>1. Shaped /\ IsTree(bmad) /\ Aloof
    BY RendersAreAloof DEF TreeInv, Shaped
  <1>2. Effect(r)
    BY <1>1, RenderEffect DEF Render, Crash
  <1>3. UNCHANGED <<disk, aside, spc, plan, stage, clashed>>
    BY <1>1 DEF Aloof
  <1>4. (crossed => crossed') /\ (Overlap' => crossed')
    <2>1. CASE Render(r)
      BY <2>1, Zenon DEF Render
    <2>2. CASE Crash(r)
      <3>1. crossed' = crossed /\ rpc'[r] = "idle"
        BY <1>1, <2>2 DEF Crash, histVars, KillRender, Rest, At, Shaped
      <3>2. Overlap' => Overlap
        BY <1>2, <1>3, <3>1 DEF Overlap, Effect
      <3>3. QED
        BY <3>1, <3>2 DEF SnapInv
    <2>3. QED
      BY <2>1, <2>2
  <1>5. ASSUME ~crossed'
        PROVE  AllWhole'
    <2>1. AllWhole
      BY <1>4, <1>5 DEF SnapInv
    <2>2. WholeTree(bmad')
      <3>1. CASE bmad'.gens = bmad.gens
        BY <2>1, <3>1 DEF AllWhole, WholeTree
      <3>2. CASE rpc[r] = "rename" /\ bmad'.gens = bmad.gens \cup {[key |-> Key(r), files |-> bmad.staging[r]]}
        <4>1. Renders(Key(r)) /\ bmad.staging[r] = Whole(Key(r))
          BY <2>1, <3>2 DEF AllWhole, Writing
        <4>2. QED
          BY <2>1, <3>2, <4>1 DEF AllWhole, WholeTree
      <3>3. QED
        BY <1>2, <3>1, <3>2 DEF Effect
    <2>3. ASSUME NEW q \in Renderers
          PROVE  Writing(q)'
      <3>1. CASE q = r
        BY <1>2, <2>1, <3>1 DEF Effect, AllWhole
      <3>2. CASE q # r
        <4>1. Key(q)' = Key(q)
          BY <1>2, <3>2 DEF Effect, Key
        <4>2. QED
          BY <1>2, <2>1, <3>2, <4>1 DEF Effect, AllWhole, Writing
      <3>3. QED
        BY <3>1, <3>2
    <2>4. QED
      BY <1>3, <2>1, <2>2, <2>3 DEF AllWhole
  <1>6. ASSUME ~crossed', ~clashed', ~stolen', ~killed'
        PROVE  Followed'
    <2>1. ~crossed /\ ~clashed /\ ~stolen /\ ~killed /\ (bmad'.there => bmad.there)
      BY <1>1, <1>3, <1>4, <1>6 DEF Aloof
    <2>2. Followed /\ ~Overlap
      BY <2>1 DEF SnapInv
    <2>3. ~bmad.there => KeysOf(bmad) = {} /\ bmad.gens = {}
      BY <1>1, TreeFacts DEF IsTree, KeysOf
    <2>4. \A p \in Setups : spc[p] = "movein" => ~bmad.there
      BY <2>1 DEF TreeInv, Owned
    <2>5. \A p \in Setups : Moved(p)' = Moved(p)
      BY <1>3 DEF Moved
    <2>6. CASE bmad'.gens = bmad.gens /\ answered' \subseteq answered \cup KeysOf(bmad)
      <3>1. KeysOf(bmad') = KeysOf(bmad)
        BY <2>6 DEF KeysOf
      <3>2. bmad'.there => answered' \subseteq KeysOf(bmad')
        BY <2>1, <2>2, <2>6, <3>1 DEF Followed
      <3>3. ASSUME NEW p \in Setups, spc[p] \in {"stage", "swap"}
            PROVE  KeysOf(bmad') \subseteq KeysOf(stage[p]) /\ answered' \subseteq KeysOf(stage[p])
        BY <2>2, <2>6, <3>1, <3>3 DEF Followed
      <3>4. ASSUME NEW p \in Setups, spc[p] = "movein"
            PROVE  answered' \subseteq KeysOf(stage[p]) /\ (Moved(p) # 0 => answered' \subseteq KeysOf(aside[Moved(p)]))
        BY <2>2, <2>3, <2>4, <2>6, <3>4 DEF Followed
      <3>5. bmad'.there \/ answered' = {} \/ \E p \in Setups : spc[p] = "movein" /\ Moved(p) # 0
        BY <1>1, <2>2, <2>3, <2>6 DEF Followed, Aloof
      <3>6. QED
        BY <1>3, <2>5, <3>2, <3>3, <3>4, <3>5 DEF Followed
    <2>7. CASE /\ rpc[r] = "rename" /\ bmad.there /\ answered' = answered \cup {Key(r)}
               /\ bmad'.gens = bmad.gens \cup {[key |-> Key(r), files |-> bmad.staging[r]]}
      <3>1. \A p \in Setups : spc[p] \notin {"stage", "swap", "movein"}
        BY <2>2, <2>7 DEF Overlap
      <3>2. KeysOf(bmad') = KeysOf(bmad) \cup {Key(r)}
        <4> DEFINE new == [key |-> Key(r), files |-> bmad.staging[r]]
        <4>1. new.key = Key(r) /\ bmad'.gens = bmad.gens \cup {new}
          BY <2>7
        <4> HIDE DEF new
        <4>2. QED
          BY <4>1 DEF KeysOf
      <3>3. bmad'.there /\ answered' \subseteq KeysOf(bmad')
        BY <1>1, <2>2, <2>7, <3>2 DEF Followed, Aloof
      <3>4. QED
        BY <1>3, <3>1, <3>3 DEF Followed
    <2>8. QED
      BY <1>2, <2>6, <2>7 DEF Effect
  <1>7. QED
    BY <1>4, <1>5, <1>6 DEF SnapInv

LEMMA EditKeepsGenerations ==
    ASSUME TreeInv, SnapInv, NEW spot \in Spots, Edit(spot)
    PROVE  SnapInv'
  <1>1. /\ bmad'.gens = bmad.gens /\ bmad'.staging = bmad.staging /\ bmad'.there = bmad.there
    <2>1. IsTree(bmad)
      BY DEF TreeInv, Shaped
    <2>2. CASE spot[1] = "team"
      BY <2>1, <2>2, TreeFields DEF Edit
    <2>3. CASE spot[1] = "user"
      BY <2>1, <2>3, TreeFields DEF Edit
    <2>4. CASE spot[1] = "custom"
      BY <2>1, <2>4, TreeFields DEF Edit
    <2>5. QED
      BY <2>2, <2>3, <2>4, SpotKinds
  <1>2. UNCHANGED <<aside, spc, plan, stage, rpc, values, todo, answered, clashed, crossed, stolen, killed>>
    BY DEF Edit, setupVars, renderVars
  <1>3. KeysOf(bmad') = KeysOf(bmad) /\ (WholeTree(bmad) => WholeTree(bmad'))
    BY <1>1 DEF KeysOf, WholeTree
  <1>4. Overlap' = Overlap /\ \A p \in Setups : Moved(p)' = Moved(p)
    BY <1>2 DEF Overlap, Moved
  <1>5. \A r \in Renderers : Writing(r) => Writing(r)'
    BY <1>1, <1>2 DEF Writing, Key
  <1>6. AllWhole => AllWhole'
    BY <1>2, <1>3, <1>5 DEF AllWhole
  <1>7. Followed => Followed'
    BY <1>1, <1>2, <1>3, <1>4 DEF Followed
  <1>8. QED
    BY <1>2, <1>4, <1>6, <1>7 DEF SnapInv

\* What a step of one setup does to the generations: nothing, the copy, its update, the
\* two renames, the one back, and the end of what was aside.
Idles(p) ==
    /\ UNCHANGED <<bmad, aside>> /\ spc'[p] \notin {"stage", "swap", "movein"}
    /\ stage'[p] \in {stage[p], NoTree}
    /\ spc[p] = "movein" /\ Moved(p) # 0 => bmad.there \/ killed'
TakesCopy(p) ==
    /\ UNCHANGED <<bmad, aside>> /\ spc[p] = "copy" /\ spc'[p] = "stage"
    /\ stage'[p] = IF bmad.there THEN bmad ELSE EmptyTree
Updates(p) ==
    /\ UNCHANGED <<bmad, aside>> /\ spc[p] = "stage" /\ spc'[p] = "swap" /\ stage'[p].gens = stage[p].gens
FindsNone(p) ==
    /\ UNCHANGED <<bmad, aside>> /\ spc[p] = "swap" /\ spc'[p] = "movein" /\ ~bmad.there
    /\ Moved(p)' = 0 /\ stage'[p] = stage[p]
MovesOut(p) ==
    /\ bmad.there /\ spc[p] = "swap" /\ spc'[p] = "movein" /\ stage'[p] = stage[p]
    /\ \E b \in Seconds : aside' = [aside EXCEPT ![b] = bmad] /\ Moved(p)' = b
    /\ bmad' = NoTree
MovesIn(p) ==
    /\ aside' = aside /\ spc[p] = "movein" /\ spc'[p] \in {"drop", "output"}
    /\ bmad' = stage[p] /\ stage'[p] = NoTree
MovesBack(p) ==
    /\ spc[p] = "movein" /\ spc'[p] = "idle" /\ stage'[p] = NoTree /\ Moved(p) # 0
    /\ bmad' = aside[Moved(p)] /\ aside' = [aside EXCEPT ![Moved(p)] = NoTree]
Drops(p) ==
    /\ bmad' = bmad /\ spc[p] = "drop" /\ spc'[p] = "output" /\ stage'[p] = stage[p]
    /\ aside' = [aside EXCEPT ![Moved(p)] = NoTree]

LEMMA SetupMoves ==
    ASSUME TreeInv, NEW p \in Setups, SetupStep(p) \/ Kill(p)
    PROVE  \/ Idles(p) \/ TakesCopy(p) \/ Updates(p) \/ FindsNone(p)
           \/ MovesOut(p) \/ MovesIn(p) \/ MovesBack(p) \/ Drops(p)
  <1>1. /\ DOMAIN spc = Setups /\ DOMAIN plan = Setups /\ DOMAIN stage = Setups
        /\ DOMAIN plan[p] = DOMAIN NoPlan /\ IsTree(stage[p])
    BY DEF TreeInv, Shaped
  <1>2. /\ \A where : To(p, where) => spc'[p] = where
        /\ Stop(p) => spc'[p] = "idle" /\ stage'[p] = NoTree
    BY <1>1 DEF To, Stop
  <1>3. ASSUME NEW codes, Ask(p, codes) PROVE Idles(p)
    BY <1>2, <1>3 DEF Ask, Idles, sharedVars
  <1>4. CASE Plan(p)
    <2>1. UNCHANGED <<bmad, aside>> /\ spc[p] = "plan" /\ spc'[p] \in {"idle", "copy", "output"}
      BY <1>2, <1>4 DEF Plan, sharedVars
    <2>2. stage'[p] \in {stage[p], NoTree}
      BY <1>2, <1>4 DEF Plan
    <2>3. QED
      BY <2>1, <2>2 DEF Idles
  <1>5. CASE Copy(p)
    BY <1>1, <1>2, <1>5 DEF Copy, TakesCopy, sharedVars
  <1>6. CASE Stage(p)
    <2>1. CASE Stop(p)
      BY <1>2, <1>6, <2>1 DEF Stage, Idles, sharedVars
    <2>2. CASE ~Stop(p)
      <3>1. spc[p] = "stage" /\ spc'[p] = "swap" /\ UNCHANGED <<bmad, aside>> /\ stage'[p] = Staged(plan[p], stage[p])
        BY <1>1, <1>2, <1>6, <2>2 DEF Stage, sharedVars
      <3>2. IsPlan(plan[p])
        BY <3>1 DEF TreeInv, Shaped, Underway
      <3>3. stage'[p].gens = stage[p].gens
        BY <1>1, <3>1, <3>2, StagedTree
      <3>4. QED
        BY <3>1, <3>3 DEF Updates
    <2>3. QED
      BY <2>1, <2>2
  <1>7. CASE MoveAside(p)
    <2>1. spc[p] = "swap" /\ plan[p].moved = 0
      BY <1>7 DEF MoveAside, TreeInv, Ordered
    <2>2. CASE Stop(p) /\ UNCHANGED <<bmad, aside>>
      BY <1>2, <2>1, <2>2 DEF Idles
    <2>3. CASE ~bmad.there
      <3>1. spc'[p] = "movein" /\ UNCHANGED <<bmad, aside, plan, stage>>
        BY <1>2, <1>7, <2>3 DEF MoveAside, sharedVars
      <3>2. QED
        BY <2>1, <2>3, <3>1 DEF FindsNone, Moved
    <2>4. CASE bmad.there /\ ~(Stop(p) /\ UNCHANGED <<bmad, aside>>)
      <3>1. PICK b \in Seconds :
              /\ aside' = [aside EXCEPT ![b] = bmad] /\ bmad' = NoTree
              /\ plan' = [plan EXCEPT ![p].moved = b] /\ To(p, "movein") /\ stage' = stage
        BY <1>7, <2>4 DEF MoveAside, sharedVars
      <3>2. spc'[p] = "movein" /\ plan'[p].moved = b
        BY <1>1, <1>2, <3>1 DEF NoPlan
      <3>3. QED
        BY <2>1, <2>4, <3>1, <3>2 DEF MovesOut, Moved
    <2>5. QED
      BY <2>2, <2>3, <2>4
  <1>8. CASE MoveIn(p)
    <2>1. CASE bmad.there
      BY <1>2, <1>8, <2>1 DEF MoveIn, Idles
    <2>2. CASE ~bmad.there
      <3>1. /\ spc[p] = "movein" /\ To(p, IF plan[p].moved = 0 THEN "output" ELSE "drop")
            /\ bmad' = stage[p] /\ stage' = [stage EXCEPT ![p] = NoTree] /\ aside' = aside
        BY <1>8, <2>2 DEF MoveIn
      <3>2. spc'[p] \in {"drop", "output"}
        BY <1>2, <3>1
      <3>3. QED
        BY <1>1, <3>1, <3>2 DEF MovesIn
    <2>3. QED
      BY <2>1, <2>2
  <1>9. CASE MoveInFails(p)
    <2>1. spc[p] = "movein" /\ spc'[p] = "idle" /\ stage'[p] = NoTree /\ Moved(p) = plan[p].moved
      BY <1>2, <1>9 DEF MoveInFails, Moved
    <2>2. CASE plan[p].moved = 0 \/ bmad.there
      BY <1>9, <2>1, <2>2 DEF MoveInFails, Restore, Idles
    <2>3. CASE ~(plan[p].moved = 0 \/ bmad.there)
      BY <1>9, <2>1, <2>3 DEF MoveInFails, Restore, MovesBack
    <2>4. QED
      BY <2>2, <2>3
  <1>10. CASE DropAside(p)
    BY <1>2, <1>10 DEF DropAside, Drops, Moved
  <1>11. CASE Output(p) \/ Fail(p)
    BY <1>2, <1>11 DEF Output, Fail, Idles, sharedVars
  <1>12. CASE Kill(p)
    <2>1. spc[p] = "movein" => killed'
      BY <1>12 DEF Kill
    <2>2. QED
      BY <1>2, <1>12, <2>1 DEF Kill, KillSetup, Idles, sharedVars
  <1>13. QED
    BY <1>3, <1>4, <1>5, <1>6, <1>7, <1>8, <1>9, <1>10, <1>11, <1>12 DEF SetupStep

LEMMA SetupKeepsGenerations ==
    ASSUME TreeInv, SnapInv, NEW p \in Setups, Setup(p) \/ Kill(p)
    PROVE  SnapInv'
  <1>1. /\ Stands(p)
        /\ Setup(p) /\ ~clashed' /\ Underway(p) => \A q \in Setups : Underway(q) => q = p
    BY SetupStands
  <1>2. UNCHANGED <<rpc, values, todo, answered>>
    BY <1>1 DEF Stands, renderVars
  <1>3. \A q \in Setups \ {p} : spc'[q] = spc[q] /\ plan'[q] = plan[q] /\ stage'[q] = stage[q] /\ Moved(q)' = Moved(q)
    BY <1>1 DEF Stands, Moved
  <1>4. /\ IsTree(bmad) /\ DOMAIN aside = Seconds
        /\ \A q \in Setups : spc[q] \in {"stage", "swap", "movein"} => stage[q].there
        /\ \A q \in Setups : Moved(q) # 0 => Moved(q) \in Seconds /\ aside[Moved(q)].there
    BY DEF TreeInv, Shaped, Ordered
  <1>5. \/ Idles(p) \/ TakesCopy(p) \/ Updates(p) \/ FindsNone(p)
        \/ MovesOut(p) \/ MovesIn(p) \/ MovesBack(p) \/ Drops(p)
    BY SetupMoves DEF Setup
  <1>6. (crossed => crossed') /\ (Overlap' => crossed')
    <2>1. CASE Setup(p)
      BY <2>1, Zenon DEF Setup
    <2>2. CASE Kill(p)
      <3>1. crossed' = crossed /\ spc'[p] = "idle"
        BY <2>2 DEF Kill, KillSetup, Stop, To, TreeInv, Shaped
      <3>2. Overlap' => Overlap
        BY <1>2, <1>3, <3>1 DEF Overlap
      <3>3. QED
        BY <3>1, <3>2 DEF SnapInv
    <2>3. QED
      BY <2>1, <2>2
  <1>7. ASSUME ~crossed' PROVE AllWhole'
    <2>1. AllWhole /\ ~Overlap
      BY <1>6, <1>7 DEF SnapInv
    <2>2. WholeTree(NoTree) /\ WholeTree(EmptyTree)
      BY TreeFacts DEF WholeTree
    <2>3. \A t, u : u.gens = t.gens /\ WholeTree(t) => WholeTree(u)
      BY DEF WholeTree
    <2>4. WholeTree(bmad')
      BY <1>4, <1>5, <2>1, <2>2
         DEF AllWhole, Idles, TakesCopy, Updates, FindsNone, MovesOut, MovesIn, MovesBack, Drops
    <2>5. ASSUME NEW b \in Seconds PROVE WholeTree(aside'[b])
      <3>1. aside' = aside \/ \E a : aside' = [aside EXCEPT ![a] = bmad] \/ aside' = [aside EXCEPT ![a] = NoTree]
        BY <1>5 DEF Idles, TakesCopy, Updates, FindsNone, MovesOut, MovesIn, MovesBack, Drops
      <3>2. aside'[b] \in {aside[b], bmad, NoTree}
        BY <1>4, <3>1
      <3>3. QED
        BY <2>1, <2>2, <3>2 DEF AllWhole
    <2>6. ASSUME NEW q \in Setups PROVE WholeTree(stage'[q])
      <3>1. CASE q = p
        <4>1. stage'[p] \in {stage[p], NoTree, bmad, EmptyTree} \/ stage'[p].gens = stage[p].gens
          BY <1>5 DEF Idles, TakesCopy, Updates, FindsNone, MovesOut, MovesIn, MovesBack, Drops
        <4>2. QED
          BY <2>1, <2>2, <2>3, <3>1, <4>1 DEF AllWhole
      <3>2. CASE q # p
        BY <1>3, <2>1, <3>2 DEF AllWhole
      <3>3. QED
        BY <3>1, <3>2
    <2>7. ASSUME NEW r \in Renderers PROVE Writing(r)'
      <3>1. bmad' = bmad \/ spc[p] \in {"stage", "swap", "movein"}
        BY <1>5 DEF Idles, TakesCopy, Updates, FindsNone, MovesOut, MovesIn, MovesBack, Drops
      <3>2. bmad' = bmad \/ rpc[r] \notin {"write", "rename"}
        BY <2>1, <3>1 DEF Overlap
      <3>3. Key(r)' = Key(r)
        BY <1>2 DEF Key
      <3>4. QED
        BY <1>2, <2>1, <3>2, <3>3 DEF AllWhole, Writing
    <2>8. QED
      BY <2>4, <2>5, <2>6, <2>7 DEF AllWhole
  <1>8. ASSUME ~crossed', ~clashed', ~stolen', ~killed'
        PROVE  Followed'
    <2>1. Followed
      BY <1>1, <1>6, <1>8 DEF SnapInv, Stands
    <2>2. ASSUME Underway(p), ~Idles(p) \/ spc[p] = "movein"
          PROVE  \A q \in Setups \ {p} : spc[q] \notin {"stage", "swap", "movein"}
      <3>1. ~Kill(p)
        BY <1>8, <2>2 DEF Kill, KillSetup, Stop, To, Idles, sharedVars, TreeInv, Shaped
      <3>2. QED
        BY <1>1, <1>8, <2>2, <3>1 DEF Underway
    <2>3. CASE Idles(p)
      BY <1>2, <1>3, <1>8, <2>1, <2>3 DEF Idles, Followed
    <2>4. CASE TakesCopy(p)
      <3>1. \A q \in Setups \ {p} : spc[q] \notin {"stage", "swap", "movein"}
        BY <2>2, <2>4 DEF TakesCopy, Underway, Idles
      <3>2. bmad.there \/ answered = {}
        BY <2>1, <2>4, <3>1 DEF Followed, TakesCopy
      <3>3. ~bmad.there => KeysOf(bmad) = {}
        BY <1>4, TreeFacts DEF IsTree, KeysOf
      <3>4. KeysOf(bmad) \subseteq KeysOf(stage'[p]) /\ answered \subseteq KeysOf(stage'[p])
        BY <2>1, <2>4, <3>2, <3>3 DEF TakesCopy, Followed
      <3>5. QED
        BY <1>2, <1>3, <2>1, <2>4, <3>1, <3>2, <3>4 DEF TakesCopy, Followed
    <2>5. CASE Updates(p)
      <3>1. KeysOf(stage'[p]) = KeysOf(stage[p])
        BY <2>5 DEF Updates, KeysOf
      <3>2. QED
        BY <1>2, <1>3, <2>1, <2>5, <3>1 DEF Updates, Followed
    <2>6. CASE FindsNone(p)
      BY <1>2, <1>3, <2>1, <2>6 DEF FindsNone, Followed
    <2>7. CASE MovesOut(p)
      <3>1. PICK b \in Seconds : aside' = [aside EXCEPT ![b] = bmad] /\ Moved(p)' = b
        BY <2>7 DEF MovesOut
      <3>2. \A q \in Setups \ {p} : spc'[q] \notin {"stage", "swap", "movein"}
        BY <1>3, <2>2, <2>7 DEF MovesOut, Underway, Idles
      <3>3. aside'[b] = bmad /\ b # 0
        BY <1>4, <3>1, SetupAssumption DEF SetupAssumption
      <3>4. answered \subseteq KeysOf(bmad) /\ answered \subseteq KeysOf(stage'[p]) /\ ~bmad'.there
        BY <2>1, <2>7, TreeFacts DEF MovesOut, Followed
      <3>5. QED
        BY <1>2, <2>7, <3>1, <3>2, <3>3, <3>4 DEF MovesOut, Followed
    <2>8. CASE MovesIn(p) \/ MovesBack(p)
      <3>1. \A q \in Setups : spc'[q] \notin {"stage", "swap", "movein"}
        BY <1>3, <2>2, <2>8 DEF MovesIn, MovesBack, Underway
      <3>2. answered \subseteq KeysOf(bmad') /\ bmad'.there
        BY <1>4, <2>1, <2>8 DEF MovesIn, MovesBack, Followed
      <3>3. QED
        BY <1>2, <3>1, <3>2 DEF Followed
    <2>9. CASE Drops(p)
      <3>1. \A q \in Setups \ {p} : Moved(q) # 0 => Moved(q) # Moved(p)
        BY DEF TreeInv, Ordered
      <3>2. \A q \in Setups \ {p} : Moved(q) # 0 => aside'[Moved(q)] = aside[Moved(q)]
        BY <1>4, <2>9, <3>1 DEF Drops
      <3>3. QED
        BY <1>2, <1>3, <2>1, <2>9, <3>2 DEF Drops, Followed
    <2>10. QED
      BY <1>5, <2>3, <2>4, <2>5, <2>6, <2>7, <2>8, <2>9
  <1>9. QED
    BY <1>6, <1>7, <1>8 DEF SnapInv

LEMMA SnapStep == TreeInv /\ SnapInv /\ [Next]_vars => SnapInv'
  <1> SUFFICES ASSUME TreeInv, SnapInv, [Next]_vars PROVE SnapInv'
    OBVIOUS
  <1>1. ASSUME NEW p \in Setups, Setup(p) \/ Kill(p) PROVE SnapInv'
    BY <1>1, SetupKeepsGenerations
  <1>2. ASSUME NEW r \in Renderers, Render(r) \/ Crash(r) PROVE SnapInv'
    BY <1>2, RendersKeepGenerations
  <1>3. ASSUME NEW spot \in Spots, Edit(spot) PROVE SnapInv'
    BY <1>3, EditKeepsGenerations
  <1>4. CASE UNCHANGED vars
    BY <1>4 DEF vars, sharedVars, setupVars, renderVars, histVars, SnapInv, Overlap, AllWhole, Writing, Key, Followed, Moved
  <1>5. QED
    BY <1>1, <1>2, <1>3, <1>4 DEF Next

\* Whatever renders overlap, crash or wait while setups come and go: a generation is whole,
\* and one a caller follows stays, unless a setup moved _bmad under a render
\* (_publish, _verify_existing).
THEOREM SnapshotsAlwaysHold == Spec => []SnapshotsHold
  <1>1. Init => SnapInv
    <2> SUFFICES ASSUME Init PROVE SnapInv
      OBVIOUS
    <2>1. (\A p \in Setups : spc[p] = "idle") /\ (\A r \in Renderers : rpc[r] = "idle") /\ answered = {}
      BY DEF Init, SetupInit, RenderInit
    <2>2. WholeTree(bmad)
      BY RuntimeAssumption DEF RuntimeAssumption, WholeTree, Init, SetupInit
    <2>3. WholeTree(NoTree)
      BY TreeFacts DEF WholeTree
    <2>4. (\A b \in Seconds : aside[b] = NoTree) /\ (\A p \in Setups : stage[p] = NoTree)
      BY DEF Init, SetupInit
    <2>5. AllWhole
      BY <2>1, <2>2, <2>3, <2>4 DEF AllWhole, Writing
    <2>6. Followed
      BY <2>1 DEF Followed
    <2>7. QED
      BY <2>1, <2>5, <2>6 DEF SnapInv, Overlap
  <1>2. SnapInv => SnapshotsHold
    <2> SUFFICES ASSUME SnapInv, ~crossed PROVE SnapshotsHold
      BY DEF SnapshotsHold
    <2>1. WholeTree(bmad)
      BY DEF SnapInv, AllWhole
    <2>2. ASSUME NEW g \in bmad.gens, NEW f \in Outputs(g.key)
          PROVE  {Made(o, g.key) : o \in Links(f, g.key)} \subseteq g.files
      <3>1. g.files = Whole(g.key) /\ Links(f, g.key) \subseteq Outputs(g.key)
        BY <2>1, <2>2 DEF WholeTree, Renders
      <3>2. QED
        BY <3>1 DEF Whole
    <2>3. clashed \/ stolen \/ killed \/ ~bmad.there \/ answered \subseteq {g.key : g \in bmad.gens}
      BY DEF SnapInv, Followed, KeysOf
    <2>4. QED
      BY <2>1, <2>2, <2>3 DEF SnapshotsHold, WholeTree
  <1>3. QED
    BY <1>1, <1>2, SnapStep, TreeInit, TreeStep, PTL DEF Spec

=============================================================================
