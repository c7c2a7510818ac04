---------------------------- MODULE ToolCallProofs ----------------------------
(***************************************************************************)
(* Proofs about ToolCall, for any set of calls, keys and arguments, any    *)
(* cap of the key table and any number of helper deaths: an idempotency    *)
(* key sees at most one effect while the table remembers it.               *)
(*                                                                         *)
(* The argument follows the attempts that are "loose": made, and not       *)
(* answered by a promise that they have no effect.  Only a loose attempt   *)
(* can have an effect.  A call has at most one (ThreadsAreSound), a key    *)
(* has at most one, and while the key is claimed it belongs to the owner   *)
(* of the claim (KeysAreSound).                                            *)
(*                                                                         *)
(* The last two sections are about the key table: what KeyTable says of it *)
(* under any threads, and that the calls are such threads.                 *)
(***************************************************************************)
EXTENDS ToolCall, SequenceTheorems, WellFoundedInduction, TLAPS

\* The types the proofs need; the retention order plays no part in them.
Typed ==
    /\ entry \in [Keys -> Entries]
    /\ pc \in [Calls -> PcStates]
    /\ result \in [Calls -> Codes]
    /\ written \in [Calls -> BOOLEAN]
    /\ spawned \in Nat /\ handle \in 0..spawned /\ alive \subseteq 1..spawned
    /\ genOf \in [Attempts -> 0..spawned]
    /\ out \in [Attempts -> Bridge!Outcomes \cup {"none"}]
    /\ ran \subseteq Attempts

Loose(a) == genOf[a] # 0 /\ out[a] \notin Bridge!Clean

\* What is known of an attempt: it has an outcome or an effect only if it was
\* made, and its outcome is honest.
AttemptsAreSound ==
    \A a \in Attempts :
        /\ genOf[a] = 0 => out[a] = "none" /\ a \notin ran
        /\ out[a] \in Bridge!Clean => a \notin ran
        /\ out[a] = "ok" => a \in ran

\* A thread that waits for an answer has made its attempt.
AttemptsAreMade == \A c \in Calls : pc[c] \in {"call", "recall"} => genOf[Try(c)] # 0

\* Where a thread is tells what its attempts are, unless its tool may run twice.
ThreadSound(c) ==
    /\ pc[c] \in {"idle", "get"} => genOf[<<c, 1>>] = 0
    /\ pc[c] \in {"idle", "get", "call", "recycle", "reget"} => genOf[<<c, 2>>] = 0
    /\ pc[c] = "call" => out[<<c, 1>>] = "none"
    /\ pc[c] = "recycle" =>
         /\ result[c] \in Failures /\ out[<<c, 1>>] = result[c]
         /\ written[c] = (result[c] # "helper_exited_unsent")
    /\ pc[c] \in {"idle", "get", "call", "reget", "recall"} => ~written[c]
    /\ pc[c] \in {"reget", "recall"} => out[<<c, 1>>] = "helper_exited_unsent"
    /\ pc[c] = "recall" => out[<<c, 2>>] = "none"
    /\ genOf[<<c, 2>>] # 0 => out[<<c, 1>>] = "helper_exited_unsent"
    /\ pc[c] = "end" =>
         /\ result[c] = "ok" => \E i \in {1, 2} : <<c, i>> \in ran
         /\ Unsettled(c) => \E i \in {1, 2} : out[<<c, i>>] \in Bridge!Ambiguous
         /\ result[c] # "ok" /\ ~Unsettled(c) => \A i \in {1, 2} : ~Loose(<<c, i>>)

ThreadsAreSound == \A c \in Calls \ ReplaySafe : ThreadSound(c)

\* What the table's record of a key says about the attempts made under it.
KeysAreSound ==
    \A a \in Attempts : KeyOf[a[1]] \in Keys /\ Loose(a) =>
        LET k == KeyOf[a[1]] IN
        k \notin forgotten =>
            /\ entry[k].st # "unset"
            /\ entry[k].st = "in_flight" => Owner(a[1])
            /\ entry[k].st = "done" => a \in ran
            /\ \A b \in Attempts : KeyOf[b[1]] = k /\ Loose(b) => b = a

IInv ==
    /\ Typed
    /\ AttemptsAreSound
    /\ AttemptsAreMade
    /\ ThreadsAreSound
    /\ ClaimsHaveOneOwner
    /\ KeysAreSound
    /\ PinsAreEarned

-----------------------------------------------------------------------------
(* The invariant.                                                            *)

\* Only settled keys are evicted.
LEMMA EvictedAreSettled ==
  \A k \in EvictedKeys : entry[k].st \in {"done", "unknown"}
  BY DEF EvictedKeys, Victims, IsVictim, OldestWith

\* The server starts with the invariant.
LEMMA Initial == Init => IInv
  BY ToolCallAssumption, IdempotencyAssumption
     DEF Init, Bridge!Init, TableInit, IInv, Typed, AttemptsAreSound, AttemptsAreMade, ThreadsAreSound, ThreadSound, ClaimsHaveOneOwner, KeysAreSound, PinsAreEarned, Loose, Owner, Keyed, Goes, Try, Returned, Attempts, PcStates, Codes, Exited, Failures, callVars, helperVars, tableVars, Entries, Unset, InFlight, Recorded, Unsettled, Ambiguous, Bridge!Outcomes, Bridge!Clean, Bridge!Ambiguous

\* A thread that does not move stays sound, whatever else takes effect.
LEMMA OtherThreads ==
  ASSUME NEW d \in Calls, ThreadSound(d),
         pc'[d] = pc[d], result'[d] = result[d], written'[d] = written[d],
         \A i \in {1, 2} : genOf'[<<d, i>>] = genOf[<<d, i>>] /\ out'[<<d, i>>] = out[<<d, i>>],
         ran \subseteq ran'
  PROVE  ThreadSound(d)'
  BY DEF ThreadSound, Unsettled, Ambiguous, Loose

\* Every step keeps the types.
LEMMA TypesStep == IInv /\ [Next]_vars => Typed'
<1> SUFFICES ASSUME IInv, [Next]_vars PROVE Typed'
  OBVIOUS
<1> USE ToolCallAssumption, IdempotencyAssumption DEF IInv, Typed
<1>1. ASSUME NEW c \in Calls, StartUnkeyed(c) \/ StartRecorded(c) PROVE Typed'
  BY <1>1 DEF StartUnkeyed, StartRecorded, Goes, PcStates, Codes, tableVars, helperVars
<1>2. ASSUME NEW c \in Calls, StartFresh(c) PROVE Typed'
  BY <1>2 DEF StartFresh, ReserveFresh, EntryAfterEvict, Goes, PcStates, Keyed, Unset,
              InFlight, Entries, helperVars
<1>3. ASSUME NEW c \in Calls, Get(c) PROVE Typed'
  <2>1. Try(c) \in Attempts
    BY DEF Try, Attempts
  <2>2. pc' \in [Calls -> PcStates]
    BY <1>3 DEF Get, Goes, PcStates
  <2>3. spawned' \in Nat /\ handle' \in 0..spawned' /\ alive' \subseteq 1..spawned'
        /\ spawned <= spawned'
    <3>1. CASE handle # 0
      <4>1. UNCHANGED <<handle, spawned, alive>>
        BY <1>3, <3>1 DEF Get, helperVars
      <4> QED
        BY <4>1
    <3>2. CASE handle = 0
      <4>1. spawned' = spawned + 1 /\ handle' = spawned + 1 /\ alive' = alive \cup {spawned + 1}
        BY <1>3, <3>2 DEF Get
      <4> QED
        BY <4>1
    <3> QED
      BY <3>1, <3>2
  <2>4. genOf' \in [Attempts -> 0..spawned']
    BY <1>3, <2>1, <2>3 DEF Get
  <2> QED
    BY <1>3, <2>2, <2>3, <2>4 DEF Get, tableVars
<1>4. ASSUME NEW c \in Calls, SpawnFails(c) PROVE Typed'
  <2>1. result' \in [Calls -> Codes] /\ pc' \in [Calls -> PcStates]
    BY <1>4 DEF SpawnFails, Goes, PcStates, Codes, Bridge!Outcomes, Bridge!Clean, Bridge!Ambiguous
  <2> QED
    BY <1>4, <2>1 DEF SpawnFails, tableVars, helperVars
<1>5. ASSUME NEW c \in Calls, NEW o \in Bridge!Outcomes, FirstReturns(c, o) \/ ReplayReturns(c, o)
      PROVE  Typed'
  <2>1. pc' \in [Calls -> PcStates] /\ written' \in [Calls -> BOOLEAN]
    BY <1>5 DEF FirstReturns, ReplayReturns, Goes, PcStates
  <2>2. Returned(c, o) /\ Try(c) \in Attempts
    BY <1>5 DEF FirstReturns, ReplayReturns, Try, Attempts
  <2> QED
    BY <2>1, <2>2 DEF Returned, Bridge!Return, Codes, tableVars, helperVars
<1>6. ASSUME NEW c \in Calls, Recycle(c) PROVE Typed'
  <2>1. pc' \in [Calls -> PcStates]
    BY <1>6 DEF Recycle, Goes, PcStates
  <2>2. handle' \in 0..spawned /\ alive' \subseteq alive
    BY <1>6 DEF Recycle
  <2> QED
    BY <1>6, <2>1, <2>2 DEF Recycle, tableVars
<1>7. ASSUME NEW c \in Calls, Finish(c) PROVE Typed'
  <2>1. pc' \in [Calls -> PcStates]
    BY <1>7 DEF Finish, Goes, PcStates
  <2>2. entry' \in [Keys -> Entries]
    <3>1. CASE UNCHANGED tableVars
      BY <3>1 DEF tableVars
    <3>2. CASE Keyed(c) /\ SettleDone(KeyOf[c], c)
      BY <3>2 DEF SettleDone, Recorded, Entries, Keyed
    <3>3. CASE Keyed(c) /\ SettleUnknown(KeyOf[c])
      BY <3>3 DEF SettleUnknown, Recorded, Entries, Keyed
    <3>4. CASE Keyed(c) /\ Release(KeyOf[c])
      BY <3>4 DEF Release, Unset, Entries, Keyed, tableVars
    <3> QED
      BY <1>7, <3>1, <3>2, <3>3, <3>4 DEF Finish
  <2> QED
    BY <1>7, <2>1, <2>2 DEF Finish, helperVars
<1>8. ASSUME NEW a \in Attempts, Execute(a) PROVE Typed'
  BY <1>8 DEF Execute, Bridge!Run, tableVars, callVars, helperVars
<1>9. ASSUME NEW g \in alive, HelperDies(g) PROVE Typed'
  BY <1>9 DEF HelperDies, tableVars, callVars
<1>10. CASE UNCHANGED vars
  BY <1>10 DEF vars, tableVars, callVars, helperVars
<1> QED
  BY <1>1, <1>2, <1>3, <1>4, <1>5, <1>6, <1>7, <1>8, <1>9, <1>10 DEF Next, CallStep

\* An attempt of a thread d is touched only by a step that d's own thread
\* takes on its current attempt.
LEMMA TryFacts ==
  ASSUME NEW c \in Calls
  PROVE  /\ Try(c) \in Attempts
         /\ pc[c] \in {"get", "call"} => Try(c) = <<c, 1>>
         /\ pc[c] \in {"reget", "recall"} => Try(c) = <<c, 2>>
         /\ \A d \in Calls : d # c => Try(c) \notin {<<d, 1>>, <<d, 2>>}
  BY DEF Try, Attempts

\* Every step keeps what is known of the attempts: a made attempt stays made,
\* and outcome and effect come in an order the contract allows.
LEMMA AttemptsStep == IInv /\ [Next]_vars => AttemptsAreSound' /\ AttemptsAreMade'
<1> SUFFICES ASSUME IInv, [Next]_vars PROVE AttemptsAreSound' /\ AttemptsAreMade'
  OBVIOUS
<1> USE ToolCallAssumption DEF IInv, Typed
<1>1. ASSUME NEW c \in Calls, Get(c) PROVE AttemptsAreSound' /\ AttemptsAreMade'
  <2>1. handle' # 0
    BY <1>1 DEF Get, helperVars
  <2>2. genOf' = [genOf EXCEPT ![Try(c)] = handle'] /\ UNCHANGED <<out, ran>>
    BY <1>1 DEF Get
  <2>3. AttemptsAreSound'
    BY <2>1, <2>2, TryFacts DEF AttemptsAreSound
  <2>4. ASSUME NEW d \in Calls, pc'[d] = "call" PROVE genOf'[<<d, 1>>] # 0
    <3>1. <<d, 1>> \in Attempts
      BY DEF Attempts
    <3>2. CASE d = c
      BY <1>1, <2>1, <2>2, <2>4, <3>1, <3>2, TryFacts DEF Get, Goes
    <3>3. CASE d # c
      <4>1. pc[d] = "call"
        BY <1>1, <2>4, <3>3 DEF Get, Goes
      <4>2. genOf[<<d, 1>>] # 0
        BY <4>1, TryFacts DEF AttemptsAreMade
      <4> QED
        BY <2>2, <3>1, <3>3, <4>2, TryFacts
    <3> QED
      BY <3>2, <3>3
  <2>5. ASSUME NEW d \in Calls, pc'[d] = "recall" PROVE genOf'[<<d, 2>>] # 0
    <3>1. <<d, 2>> \in Attempts
      BY DEF Attempts
    <3>2. CASE d = c
      BY <1>1, <2>1, <2>2, <2>5, <3>1, <3>2, TryFacts DEF Get, Goes
    <3>3. CASE d # c
      <4>1. pc[d] = "recall"
        BY <1>1, <2>5, <3>3 DEF Get, Goes
      <4>2. genOf[<<d, 2>>] # 0
        BY <4>1, TryFacts DEF AttemptsAreMade
      <4> QED
        BY <2>2, <3>1, <3>3, <4>2, TryFacts
    <3> QED
      BY <3>2, <3>3
  <2> QED
    BY <2>3, <2>4, <2>5 DEF AttemptsAreMade, Try
<1>2. ASSUME NEW c \in Calls, NEW o \in Bridge!Outcomes, FirstReturns(c, o) \/ ReplayReturns(c, o)
      PROVE  AttemptsAreSound' /\ AttemptsAreMade'
  <2>1. Bridge!Return(Try(c), o) /\ UNCHANGED genOf
    BY <1>2 DEF FirstReturns, ReplayReturns, Returned
  <2>2. genOf[Try(c)] # 0
    BY <1>2 DEF FirstReturns, ReplayReturns, Goes, AttemptsAreMade
  <2>3. AttemptsAreSound'
    BY <2>1, <2>2, TryFacts DEF Bridge!Return, AttemptsAreSound
  <2>4. AttemptsAreMade'
    BY <1>2, <2>1 DEF FirstReturns, ReplayReturns, Goes, AttemptsAreMade, Try
  <2> QED
    BY <2>3, <2>4
<1>3. ASSUME NEW a \in Attempts, Execute(a) PROVE AttemptsAreSound' /\ AttemptsAreMade'
  <2>1. genOf[a] # 0
    BY <1>3 DEF Execute
  <2> QED
    BY <1>3, <2>1 DEF Execute, Bridge!Run, AttemptsAreSound, AttemptsAreMade, Try, callVars
<1>4. ASSUME NEW c \in Calls,
             \/ StartUnkeyed(c) \/ StartFresh(c) \/ StartRecorded(c)
             \/ SpawnFails(c) \/ Recycle(c) \/ Finish(c)
      PROVE  AttemptsAreSound' /\ AttemptsAreMade'
  <2>1. UNCHANGED <<genOf, out, ran>>
    BY <1>4 DEF StartUnkeyed, StartFresh, StartRecorded, SpawnFails, Recycle, Finish
  <2>2. \A d \in Calls : pc'[d] \in {"call", "recall"} => pc'[d] = pc[d]
    BY <1>4 DEF StartUnkeyed, StartFresh, StartRecorded, SpawnFails, Recycle, Finish, Goes
  <2> QED
    BY <2>1, <2>2 DEF AttemptsAreSound, AttemptsAreMade, Try
<1>5. CASE UNCHANGED vars \/ \E g \in alive : HelperDies(g)
  BY <1>5 DEF vars, HelperDies, AttemptsAreSound, AttemptsAreMade, Try, callVars
<1> QED
  BY <1>1, <1>2, <1>3, <1>4, <1>5 DEF Next, CallStep

\* Every step keeps every thread sound.
LEMMA ThreadsStep == IInv /\ [Next]_vars => ThreadsAreSound'
<1> SUFFICES ASSUME IInv, [Next]_vars, NEW d \in Calls \ ReplaySafe PROVE ThreadSound(d)'
  BY DEF ThreadsAreSound
<1> USE ToolCallAssumption DEF IInv, Typed
<1>1. ThreadSound(d) /\ <<d, 1>> \in Attempts /\ <<d, 2>> \in Attempts /\ <<d, 1>> # <<d, 2>>
  BY DEF ThreadsAreSound, Attempts
<1>2. ASSUME NEW c \in Calls, CallStep(c), c # d PROVE ThreadSound(d)'
  <2>1. pc'[d] = pc[d] /\ result'[d] = result[d] /\ written'[d] = written[d]
    BY <1>2 DEF CallStep, StartUnkeyed, StartFresh, StartRecorded, Get, SpawnFails, FirstReturns,
                ReplayReturns, Returned, Recycle, Finish, Goes
  <2>2. ran' = ran
    BY <1>2 DEF CallStep, StartUnkeyed, StartFresh, StartRecorded, Get, SpawnFails, FirstReturns,
                ReplayReturns, Returned, Bridge!Return, Recycle, Finish
  <2>3. \A i \in {1, 2} : genOf'[<<d, i>>] = genOf[<<d, i>>] /\ out'[<<d, i>>] = out[<<d, i>>]
    BY <1>1, <1>2, TryFacts
       DEF CallStep, StartUnkeyed, StartFresh, StartRecorded, Get, SpawnFails, FirstReturns,
           ReplayReturns, Returned, Bridge!Return, Recycle, Finish
  <2> QED
    BY <1>1, <2>1, <2>2, <2>3, OtherThreads
<1>3. CASE StartUnkeyed(d) \/ StartFresh(d)
  BY <1>1, <1>3 DEF StartUnkeyed, StartFresh, Goes, ThreadSound
<1>4. CASE StartRecorded(d)
  BY <1>1, <1>4 DEF StartRecorded, Goes, ThreadSound
<1>5. CASE Get(d)
  <2>1. genOf' = [genOf EXCEPT ![Try(d)] = handle']
        /\ UNCHANGED <<result, written, out, ran>>
    BY <1>5 DEF Get
  <2>2. CASE pc[d] = "get"
    <3>1. out[<<d, 1>>] = "none"
      BY <1>1, <2>2 DEF ThreadSound, AttemptsAreSound
    <3> QED
      BY <1>1, <1>5, <2>1, <2>2, <3>1, TryFacts DEF Get, Goes, ThreadSound
  <2>3. CASE pc[d] = "reget"
    <3>1. out[<<d, 2>>] = "none"
      BY <1>1, <2>3 DEF ThreadSound, AttemptsAreSound
    <3> QED
      BY <1>1, <1>5, <2>1, <2>3, <3>1, TryFacts DEF Get, Goes, ThreadSound
  <2> QED
    BY <1>5, <2>2, <2>3 DEF Get, Goes
<1>6. CASE SpawnFails(d)
  <2>1. \A i \in {1, 2} : ~Loose(<<d, i>>)
    BY <1>1, <1>6 DEF SpawnFails, Goes, ThreadSound, Loose, Bridge!Clean
  <2>2. ~written[d] /\ result'[d] # "ok"
    BY <1>1, <1>6 DEF SpawnFails, Goes, ThreadSound
  <2> QED
    BY <1>1, <1>6, <2>1, <2>2 DEF SpawnFails, Goes, ThreadSound, Loose, Unsettled
<1>7. ASSUME NEW o \in Bridge!Outcomes, FirstReturns(d, o) PROVE ThreadSound(d)'
  <2>1. /\ pc[d] = "call" /\ pc'[d] \in {"recycle", "end"}
        /\ pc'[d] = "recycle" => o \in Failures
        /\ result'[d] = o /\ written'[d] = (o # "helper_exited_unsent")
        /\ genOf' = genOf /\ ran' = ran
        /\ out'[<<d, 1>>] = o /\ out'[<<d, 2>>] = out[<<d, 2>>]
        /\ o = "ok" => <<d, 1>> \in ran
    BY <1>1, <1>7, TryFacts DEF FirstReturns, Returned, Goes, Bridge!Return
  <2>2. genOf[<<d, 2>>] = 0
    BY <1>1, <2>1 DEF ThreadSound
  <2>3. o \in Bridge!Clean \cup Bridge!Ambiguous \cup {"ok"}
    BY DEF Bridge!Outcomes
  <2> QED
    BY <1>1, <2>1, <2>2, <2>3
       DEF ThreadSound, Unsettled, Ambiguous, Loose, Bridge!Clean, Bridge!Ambiguous
<1>8. ASSUME NEW o \in Bridge!Outcomes, ReplayReturns(d, o) PROVE ThreadSound(d)'
  <2>1. /\ pc[d] = "recall" /\ pc'[d] = "end"
        /\ result'[d] = o /\ written'[d] = (written[d] \/ o # "helper_exited_unsent")
        /\ genOf' = genOf /\ ran' = ran
        /\ out'[<<d, 2>>] = o /\ out'[<<d, 1>>] = out[<<d, 1>>]
        /\ o = "ok" => <<d, 2>> \in ran
    BY <1>1, <1>8, TryFacts DEF ReplayReturns, Returned, Goes, Bridge!Return
  <2>2. out[<<d, 1>>] = "helper_exited_unsent"
    BY <1>1, <2>1 DEF ThreadSound
  <2>3. o \in Bridge!Clean \cup Bridge!Ambiguous \cup {"ok"}
    BY DEF Bridge!Outcomes
  <2> QED
    BY <1>1, <2>1, <2>2, <2>3
       DEF ThreadSound, Unsettled, Ambiguous, Loose, Bridge!Clean, Bridge!Ambiguous
<1>9. CASE Recycle(d)
  <2>1. /\ pc[d] = "recycle"
        /\ pc'[d] = IF result[d] = "helper_exited_unsent" THEN "reget" ELSE "end"
        /\ UNCHANGED <<result, written, genOf, out, ran>>
    BY <1>9 DEF Recycle, Goes, MayReplay
  <2>2. out[<<d, 1>>] = result[d] /\ written[d] = (result[d] # "helper_exited_unsent")
        /\ genOf[<<d, 2>>] = 0
    BY <1>1, <2>1 DEF ThreadSound
  <2>3. result[d] \in Failures
    BY <1>1, <2>1 DEF ThreadSound
  <2> QED
    BY <1>1, <2>1, <2>2, <2>3
       DEF ThreadSound, Unsettled, Ambiguous, Loose, Failures, Exited, Bridge!Clean, Bridge!Ambiguous
<1>10. CASE Finish(d)
  BY <1>1, <1>10 DEF Finish, Goes, ThreadSound
<1>11. ASSUME NEW a \in Attempts, Execute(a) PROVE ThreadSound(d)'
  BY <1>1, <1>11, OtherThreads DEF Execute, Bridge!Run, callVars
<1>12. CASE UNCHANGED vars \/ \E g \in alive : HelperDies(g)
  BY <1>1, <1>12, OtherThreads DEF vars, HelperDies, callVars
<1> QED
  BY <1>2, <1>3, <1>4, <1>5, <1>6, <1>7, <1>8, <1>9, <1>10, <1>11, <1>12 DEF Next, CallStep

KeysInv == ClaimsHaveOneOwner /\ KeysAreSound /\ PinsAreEarned

\* A step that neither records nor forgets a key, changes no ownership and
\* makes no attempt loose keeps the table in line with the calls.
LEMMA KeysFrame ==
  ASSUME IInv, UNCHANGED <<entry, forgotten>>,
         \A c \in Calls : Owner(c)' <=> Owner(c),
         \A a \in Attempts : Loose(a)' => Loose(a),
         \A a \in Attempts : out[a] \in Bridge!Ambiguous => out'[a] = out[a],
         ran \subseteq ran'
  PROVE  KeysInv'
  <1>1. ClaimsHaveOneOwner'
    BY DEF IInv, ClaimsHaveOneOwner
  <1>2. \A a \in Attempts : a[1] \in Calls
    BY DEF Attempts
  <1>3. KeysAreSound'
    BY <1>2 DEF IInv, KeysAreSound
  <1>4. PinsAreEarned'
    BY DEF IInv, PinsAreEarned
  <1> QED
    BY <1>1, <1>3, <1>4 DEF KeysInv

\* Making an attempt: the key is the caller's, and no other attempt under it
\* is loose.
LEMMA KeysGet ==
  ASSUME IInv, NEW c \in Calls, Get(c)
  PROVE  KeysInv'
<1> USE ToolCallAssumption DEF IInv, Typed
<1>1. /\ UNCHANGED <<entry, forgotten, out, ran>>
      /\ genOf' = [genOf EXCEPT ![Try(c)] = handle']
  BY DEF Get, tableVars
<1>2. \A d \in Calls : Owner(d)' <=> Owner(d)
  BY DEF Get, Goes, Owner, PcStates
<1>3. \A a \in Attempts : a # Try(c) => (Loose(a)' <=> Loose(a))
  BY <1>1, TryFacts DEF Loose
<1>4. ClaimsHaveOneOwner' /\ PinsAreEarned'
  BY <1>1, <1>2 DEF ClaimsHaveOneOwner, PinsAreEarned
<1>5. ASSUME KeyOf[c] \in Keys, KeyOf[c] \notin forgotten, NEW b \in Attempts,
             KeyOf[b[1]] = KeyOf[c], Loose(b)
      PROVE  b = Try(c)
  <2>1. Owner(c) /\ c \notin ReplaySafe
    BY <1>5 DEF Get, Goes, Owner, Keyed, PcStates
  <2>2. entry[KeyOf[c]].st = "in_flight"
    BY <1>5, <2>1 DEF ClaimsHaveOneOwner
  <2>3. b[1] \in Calls /\ Owner(b[1])
    BY <1>5, <2>2 DEF KeysAreSound, Attempts
  <2>4. b[1] = c
    BY <1>5, <2>1, <2>3 DEF ClaimsHaveOneOwner
  <2>5. b = <<c, 1>> \/ b = <<c, 2>>
    BY <2>4 DEF Attempts
  <2>6. ThreadSound(c) /\ pc[c] \in {"get", "reget"}
    BY <2>1 DEF ThreadsAreSound, Get, Goes
  <2>7. ~Loose(<<c, 1>>) /\ ~Loose(<<c, 2>>)
    BY <2>6 DEF ThreadSound, Loose, Bridge!Clean
  <2> QED
    BY <1>5, <2>5, <2>7
<1>6. ASSUME KeyOf[c] \in Keys
      PROVE  entry[KeyOf[c]].st = "in_flight" /\ Owner(c) /\ Owner(c)'
  <2>1. Owner(c)
    BY <1>6 DEF Get, Goes, Owner, Keyed, PcStates
  <2> QED
    BY <1>2, <1>6, <2>1 DEF ClaimsHaveOneOwner
<1>7. KeysAreSound'
  <2> SUFFICES ASSUME NEW a \in Attempts, KeyOf[a[1]] \in Keys, Loose(a)',
                      KeyOf[a[1]] \notin forgotten
               PROVE  /\ entry[KeyOf[a[1]]].st # "unset"
                      /\ entry[KeyOf[a[1]]].st = "in_flight" => Owner(a[1])'
                      /\ entry[KeyOf[a[1]]].st = "done" => a \in ran
                      /\ \A b \in Attempts : KeyOf[b[1]] = KeyOf[a[1]] /\ Loose(b)' => b = a
    BY <1>1 DEF KeysAreSound
  <2>1. CASE a = Try(c)
    <3>1. a[1] = c
      BY <2>1 DEF Try
    <3> QED
      BY <1>3, <1>5, <1>6, <2>1, <3>1
  <2>2. CASE a # Try(c)
    <3>1. Loose(a) /\ a[1] \in Calls
      BY <1>3, <2>2 DEF Attempts
    <3>2. KeyOf[a[1]] # KeyOf[c]
      BY <1>5, <2>2, <3>1
    <3>3. ASSUME NEW b \in Attempts, KeyOf[b[1]] = KeyOf[a[1]], Loose(b)' PROVE b = a
      <4>1. b # Try(c)
        BY <3>2, <3>3 DEF Try
      <4> QED
        BY <1>3, <3>1, <3>3, <4>1 DEF KeysAreSound
    <3> QED
      BY <1>2, <3>1, <3>3 DEF KeysAreSound
  <2> QED
    BY <2>1, <2>2
<1> QED
  BY <1>4, <1>7 DEF KeysInv

\* Claiming a key: nothing is loose under it, and what makes room for it was
\* settled.
LEMMA KeysClaim ==
  ASSUME IInv, NEW c \in Calls, StartFresh(c)
  PROVE  KeysInv'
<1> USE ToolCallAssumption DEF IInv, Typed
<1> DEFINE k == KeyOf[c]
<1>1. /\ k \in Keys /\ entry[k].st = "unset"
      /\ forgotten' = forgotten \cup EvictedKeys
      /\ UNCHANGED <<genOf, out, ran>>
      /\ pc[c] = "idle" /\ pc' = [pc EXCEPT ![c] = "get"]
  <2>1. k \in Keys
    BY DEF StartFresh, Keyed
  <2>2. entry[k].st # "fresh"
    BY <2>1 DEF Entries
  <2>3. entry[k].st = "unset"
    BY <2>2 DEF StartFresh, ReserveFresh, ReserveVerdict
  <2> QED
    BY <2>1, <2>3 DEF StartFresh, Goes
<1>2. \A q \in Keys : entry'[q] = IF q = k THEN InFlight(FpOf[c])
                               ELSE IF q \in EvictedKeys THEN Unset ELSE entry[q]
  BY <1>1 DEF StartFresh, ReserveFresh, EntryAfterEvict
<1>3. \A q \in EvictedKeys : entry[q].st \in {"done", "unknown"}
  BY EvictedAreSettled
<1>4. /\ ~Owner(c) /\ Owner(c)'
      /\ \A d \in Calls : d # c => (Owner(d)' <=> Owner(d))
  BY <1>1 DEF Owner, Keyed, PcStates
<1>5. \A a \in Attempts : (Loose(a)' <=> Loose(a)) /\ a[1] \in Calls
  BY <1>1 DEF Loose, Attempts
<1>6. \A q \in Keys : entry'[q].st = "in_flight" <=> (q = k \/ entry[q].st = "in_flight")
  BY <1>1, <1>2, <1>3 DEF InFlight, Unset
<1>11. \A q \in Keys : entry'[q].st = "unknown" => entry[q].st = "unknown"
  BY <1>1, <1>2, <1>3 DEF InFlight, Unset
<1>7. ClaimsHaveOneOwner'
  <2>1. \A d \in Calls : Owner(d) => KeyOf[d] # k
    BY <1>1, <1>4 DEF ClaimsHaveOneOwner
  <2>2. ASSUME NEW q \in Keys, q # k
        PROVE  \A d \in Calls : KeyOf[d] = q => (Owner(d)' <=> Owner(d))
    BY <1>4, <2>2
  <2>3. \A d \in Calls : KeyOf[d] = k /\ Owner(d)' => d = c
    BY <1>4, <2>1
  <2> QED
    BY <1>1, <1>4, <1>6, <2>2, <2>3 DEF ClaimsHaveOneOwner
<1>8. PinsAreEarned'
  BY <1>1, <1>11 DEF PinsAreEarned
<1>9. \A a \in Attempts : Loose(a) /\ KeyOf[a[1]] = k => k \in forgotten
  BY <1>1 DEF KeysAreSound
<1>10. KeysAreSound'
  <2> SUFFICES ASSUME NEW a \in Attempts, KeyOf[a[1]] \in Keys, Loose(a),
                      KeyOf[a[1]] \notin forgotten', KeyOf[a[1]] # k
               PROVE  /\ entry'[KeyOf[a[1]]].st # "unset"
                      /\ entry'[KeyOf[a[1]]].st = "in_flight" => Owner(a[1])'
                      /\ entry'[KeyOf[a[1]]].st = "done" => a \in ran
                      /\ \A b \in Attempts : KeyOf[b[1]] = KeyOf[a[1]] /\ Loose(b) => b = a
    BY <1>1, <1>5, <1>9 DEF KeysAreSound
  <2>1. entry'[KeyOf[a[1]]] = entry[KeyOf[a[1]]] /\ KeyOf[a[1]] \notin forgotten
    BY <1>1, <1>2
  <2>2. a[1] # c
    OBVIOUS
  <2> QED
    BY <1>4, <1>5, <2>1, <2>2 DEF KeysAreSound
<1> QED
  BY <1>7, <1>8, <1>10 DEF KeysInv

\* Ending a claim: a result means the loose attempt ran, an unsettled failure
\* was ambiguous, and any other failure left nothing loose.
LEMMA KeysEnd ==
  ASSUME IInv, NEW c \in Calls, Keyed(c), Finish(c)
  PROVE  KeysInv'
<1> USE ToolCallAssumption DEF IInv, Typed
<1> DEFINE k == KeyOf[c]
<1>1. /\ k \in Keys /\ c \notin ReplaySafe
      /\ pc[c] = "end" /\ pc' = [pc EXCEPT ![c] = "done"]
      /\ UNCHANGED <<genOf, out, ran, forgotten>>
  BY DEF Finish, Goes, Keyed
<1>2. Owner(c) /\ entry[k].st = "in_flight"
  <2>1. Owner(c)
    BY <1>1 DEF Owner, PcStates
  <2> QED
    BY <1>1, <2>1 DEF ClaimsHaveOneOwner
<1>3. /\ ~Owner(c)'
      /\ \A d \in Calls : d # c => (Owner(d)' <=> Owner(d))
  BY <1>1 DEF Owner, Keyed, PcStates
<1>4. \A q \in Keys : q # k => entry'[q] = entry[q]
  BY <1>1 DEF Finish, SettleDone, SettleUnknown, Release, tableVars
<1>5. entry'[k].st = IF result[c] = "ok" THEN "done"
                     ELSE IF Unsettled(c) THEN "unknown" ELSE "unset"
  <2>1. CASE result[c] = "ok"
    BY <1>1, <1>2, <2>1
       DEF Finish, SettleDone, SettleUnknown, Release, Recorded, Unset, Unsettled, Ambiguous
  <2>2. CASE result[c] # "ok" /\ Unsettled(c)
    BY <1>1, <1>2, <2>2 DEF Finish, SettleUnknown, Recorded
  <2>3. CASE result[c] # "ok" /\ ~Unsettled(c)
    BY <1>1, <1>2, <2>3 DEF Finish, Release, Unset
  <2> QED
    BY <2>1, <2>2, <2>3
<1>6. \A a \in Attempts : (Loose(a)' <=> Loose(a)) /\ a[1] \in Calls
  BY <1>1 DEF Loose, Attempts
<1>7. ThreadSound(c)
  BY <1>1 DEF ThreadsAreSound
<1>8. <<c, 1>> \in Attempts /\ <<c, 2>> \in Attempts
  BY DEF Attempts
<1>9. ClaimsHaveOneOwner'
  <2>1. \A d \in Calls : Owner(d) /\ KeyOf[d] = k => d = c
    BY <1>1, <1>2 DEF ClaimsHaveOneOwner
  <2>2. entry'[k].st # "in_flight"
    BY <1>5
  <2> QED
    BY <1>1, <1>3, <1>4, <2>1, <2>2 DEF ClaimsHaveOneOwner
<1>10. PinsAreEarned'
  <2>1. entry'[k].st = "unknown" => \E a \in Attempts : KeyOf[a[1]] = k /\ out[a] \in Bridge!Ambiguous
    BY <1>1, <1>5, <1>7, <1>8 DEF ThreadSound
  <2> QED
    BY <1>1, <1>4, <2>1 DEF PinsAreEarned
<1>11. ASSUME NEW a \in Attempts, KeyOf[a[1]] = k, Loose(a), k \notin forgotten
       PROVE  /\ entry'[k].st # "unset"
              /\ entry'[k].st = "done" => a \in ran
  <2>1. a[1] = c
    BY <1>1, <1>2, <1>6, <1>11 DEF KeysAreSound, ClaimsHaveOneOwner
  <2>2. a = <<c, 1>> \/ a = <<c, 2>>
    BY <2>1 DEF Attempts
  <2>3. ASSUME result[c] = "ok" PROVE a \in ran
    <3>1. PICK i \in {1, 2} : <<c, i>> \in ran
      BY <1>1, <1>7, <2>3 DEF ThreadSound
    <3>2. Loose(<<c, i>>) /\ <<c, i>> \in Attempts /\ KeyOf[<<c, i>>[1]] = k
      BY <3>1 DEF AttemptsAreSound, Loose
    <3>3. <<c, i>> = a
      BY <1>1, <1>11, <3>2 DEF KeysAreSound
    <3> QED
      BY <3>1, <3>3
  <2>4. result[c] = "ok" \/ Unsettled(c)
    BY <1>1, <1>7, <1>11, <2>2 DEF ThreadSound
  <2> QED
    BY <1>5, <2>3, <2>4
<1>12. KeysAreSound'
  <2> SUFFICES ASSUME NEW a \in Attempts, KeyOf[a[1]] \in Keys, Loose(a), KeyOf[a[1]] \notin forgotten
               PROVE  /\ entry'[KeyOf[a[1]]].st # "unset"
                      /\ entry'[KeyOf[a[1]]].st = "in_flight" => Owner(a[1])'
                      /\ entry'[KeyOf[a[1]]].st = "done" => a \in ran
                      /\ \A b \in Attempts : KeyOf[b[1]] = KeyOf[a[1]] /\ Loose(b) => b = a
    BY <1>1, <1>6 DEF KeysAreSound
  <2>1. \A b \in Attempts : KeyOf[b[1]] = KeyOf[a[1]] /\ Loose(b) => b = a
    BY DEF KeysAreSound
  <2>2. CASE KeyOf[a[1]] = k
    BY <1>5, <1>11, <2>1, <2>2
  <2>3. CASE KeyOf[a[1]] # k
    <3>1. entry'[KeyOf[a[1]]] = entry[KeyOf[a[1]]] /\ a[1] # c /\ a[1] \in Calls
      BY <1>4, <1>6, <2>3
    <3> QED
      BY <1>3, <2>1, <3>1 DEF KeysAreSound
  <2> QED
    BY <2>2, <2>3
<1> QED
  BY <1>9, <1>10, <1>12 DEF KeysInv

\* Every step keeps the table in line with the calls.
LEMMA KeysStep == IInv /\ [Next]_vars => KeysInv'
<1> SUFFICES ASSUME IInv, [Next]_vars PROVE KeysInv'
  OBVIOUS
<1> USE ToolCallAssumption
<1>1. ASSUME NEW c \in Calls,
             StartUnkeyed(c) \/ StartRecorded(c) \/ SpawnFails(c) \/ Recycle(c) \/ (~Keyed(c) /\ Finish(c))
      PROVE  KeysInv'
  <2>1. UNCHANGED <<entry, forgotten, genOf, out, ran>>
    BY <1>1 DEF StartUnkeyed, StartRecorded, SpawnFails, Recycle, Finish, tableVars
  <2>2. \A d \in Calls : Owner(d)' <=> Owner(d)
    BY <1>1 DEF StartUnkeyed, StartRecorded, SpawnFails, Recycle, Finish, Goes, Owner, Keyed,
                PcStates, IInv, Typed
  <2> QED
    BY <2>1, <2>2, KeysFrame DEF Loose
<1>2. ASSUME NEW c \in Calls, NEW o \in Bridge!Outcomes, FirstReturns(c, o) \/ ReplayReturns(c, o)
      PROVE  KeysInv'
  <2>1. /\ UNCHANGED <<entry, forgotten, genOf, ran>>
        /\ out[Try(c)] = "none" /\ out' = [out EXCEPT ![Try(c)] = o]
    BY <1>2 DEF FirstReturns, ReplayReturns, Returned, Bridge!Return, tableVars
  <2>2. \A d \in Calls : Owner(d)' <=> Owner(d)
    BY <1>2 DEF FirstReturns, ReplayReturns, Goes, Owner, PcStates, IInv, Typed
  <2>3. \A a \in Attempts : /\ Loose(a)' => Loose(a)
                            /\ out[a] \in Bridge!Ambiguous => out'[a] = out[a]
    BY <2>1 DEF IInv, Typed, Loose, Bridge!Clean, Bridge!Ambiguous
  <2> QED
    BY <2>1, <2>2, <2>3, KeysFrame
<1>3. ASSUME NEW a \in Attempts, Execute(a) PROVE KeysInv'
  BY <1>3, KeysFrame DEF Execute, Bridge!Run, Loose, Owner, callVars, tableVars
<1>4. CASE UNCHANGED vars \/ \E g \in alive : HelperDies(g)
  BY <1>4, KeysFrame DEF vars, HelperDies, Loose, Owner, callVars, tableVars
<1> QED
  BY <1>1, <1>2, <1>3, <1>4, KeysGet, KeysClaim, KeysEnd DEF Next, CallStep

\* Every step preserves the invariant.
LEMMA Inductive == IInv /\ [Next]_vars => IInv'
  BY TypesStep, AttemptsStep, ThreadsStep, KeysStep DEF IInv, KeysInv

\* The invariant holds throughout.
LEMMA Invariant == Spec => []IInv
  BY Initial, Inductive, PTL DEF Spec

-----------------------------------------------------------------------------
(* What the invariant implies.                                               *)

\* Only a loose attempt has had, or may still have, an effect.
LEMMA CommitsAreLoose ==
  ASSUME IInv, NEW a \in Attempts
  PROVE  MayCommit(a) => Loose(a)
  BY DEF IInv, Typed, AttemptsAreSound, MayCommit, Loose

\* An attempt that took effect is loose.
LEMMA RanAreLoose ==
  ASSUME IInv, NEW a \in ran
  PROVE  a \in Attempts /\ a[1] \in Calls /\ Loose(a)
  BY DEF IInv, Typed, AttemptsAreSound, Loose, Attempts

\* run_tool_retrying: a second attempt is made only when the first provably
\* never reached the helper, so a tool that is not replay-safe takes effect at
\* most once per call.
THEOREM CallsTakeEffectOnce == Spec => []OneEffectPerCall
<1>1. IInv => OneEffectPerCall
  <2> SUFFICES ASSUME IInv, NEW c \in Calls \ ReplaySafe, genOf[<<c, 2>>] # 0
               PROVE  ~MayCommit(<<c, 1>>)
    BY DEF OneEffectPerCall
  <2>1. <<c, 1>> \in Attempts
    BY DEF Attempts
  <2>2. out[<<c, 1>>] = "helper_exited_unsent"
    BY DEF IInv, ThreadsAreSound, ThreadSound
  <2> QED
    BY <2>1, <2>2, CommitsAreLoose DEF Loose, Bridge!Clean
<1> QED
  BY <1>1, Invariant, PTL

\* run_tool_idempotent: as long as the table remembers a key, the attempts of
\* all the calls that carry it have at most one effect between them.
THEOREM KeysTakeEffectOnce == Spec => []OneEffectPerKey
<1>1. IInv => OneEffectPerKey
  BY CommitsAreLoose DEF IInv, KeysAreSound, OneEffectPerKey
<1> QED
  BY <1>1, Invariant, PTL

\* release and the eviction: a key the table holds free, and never evicted, was
\* never used to any effect, and no attempt of the past can still have one.
THEOREM FreeKeysAreSafe == Spec => []FreeKeyMeansUnsent
<1>1. IInv => FreeKeyMeansUnsent
  BY CommitsAreLoose DEF IInv, KeysAreSound, FreeKeyMeansUnsent
<1> QED
  BY <1>1, Invariant, PTL

\* reserve, settle and release: a claim belongs to one running call until that
\* call ends it, whatever is evicted meanwhile.
THEOREM ClaimsAreExclusive == Spec => []ClaimsHaveOneOwner
<1>1. IInv => ClaimsHaveOneOwner
  BY DEF IInv
<1> QED
  BY <1>1, Invariant, PTL

\* settle_unknown: a key is pinned only for an attempt that was written and
\* failed ambiguously, never for a clean failure or a failed spawn.
THEOREM PinsAreJustified == Spec => []PinsAreEarned
<1>1. IInv => PinsAreEarned
  BY DEF IInv
<1> QED
  BY <1>1, Invariant, PTL

-----------------------------------------------------------------------------
(* What a replay returns, and what is left in the handle.                    *)

\* A completed record is that of a call that carried the key and the digest
\* and took effect; a record in flight has the digest of the owner.
RecordsAreOwn ==
    /\ \A k \in Keys : entry[k].st = "done" =>
         LET v == entry[k].val IN
         /\ v \in Calls /\ KeyOf[v] = k /\ FpOf[v] = entry[k].fp
         /\ \E i \in {1, 2} : <<v, i>> \in ran
    /\ \A c \in Calls : Owner(c) => entry[KeyOf[c]].fp = FpOf[c]

\* A call that knows of an exit in its first attempt has seen to the handle.
ExitsAreSeenTo ==
    /\ \A c \in Calls : pc[c] \in {"idle", "get"} => out[<<c, 1>>] = "none"
    /\ \A c \in Calls \ Searches :
         /\ pc[c] = "recycle" => out[<<c, 1>>] = result[c]
         /\ pc[c] \in {"reget", "recall", "end", "done"} /\ out[<<c, 1>>] \in Exited
              => handle # genOf[<<c, 1>>]

Extra ==
    /\ \A c \in Calls : pc[c] \in {"idle", "get", "call"} <=> result[c] = "none"
    /\ value \in [Calls -> Calls \cup {None}]
    /\ RecordsAreOwn
    /\ ReplaysAreOwn
    /\ ExitsAreSeenTo

\* The server starts with it.
LEMMA ExtraInitial == Init => Extra
  BY ToolCallAssumption, IdempotencyAssumption
     DEF Init, Bridge!Init, TableInit, Extra, RecordsAreOwn, ReplaysAreOwn, ExitsAreSeenTo,
         Attempts, Unset, Owner, Keyed, PcStates

\* A thread has an outcome exactly when its first attempt is over.
LEMMA ResultsStep ==
  ASSUME IInv, Extra, [Next]_vars
  PROVE  /\ \A c \in Calls : pc'[c] \in {"idle", "get", "call"} <=> result'[c] = "none"
         /\ value' \in [Calls -> Calls \cup {None}]
<1> USE ToolCallAssumption, IdempotencyAssumption DEF IInv, Typed, Extra
<1> DEFINE Goal == /\ \A c \in Calls : pc'[c] \in {"idle", "get", "call"} <=> result'[c] = "none"
                   /\ value' \in [Calls -> Calls \cup {None}]
<1>1. ASSUME NEW c \in Calls, StartUnkeyed(c) \/ StartFresh(c) PROVE Goal
  BY <1>1 DEF StartUnkeyed, StartFresh, Goes
<1>2. ASSUME NEW c \in Calls, StartRecorded(c) PROVE Goal
  <2>1. KeyOf[c] \in Keys /\ entry[KeyOf[c]] \in Entries
    BY <1>2 DEF StartRecorded, Keyed
  <2>2. ReserveVerdict(KeyOf[c], FpOf[c]) = "done" => entry[KeyOf[c]].val \in Calls
    BY <2>1 DEF ReserveVerdict, RecordsAreOwn, Entries
  <2> QED
    BY <1>2, <2>2 DEF StartRecorded, Goes
<1>3. ASSUME NEW c \in Calls, Get(c) \/ SpawnFails(c) \/ Recycle(c) \/ Finish(c) PROVE Goal
  BY <1>3 DEF Get, SpawnFails, Recycle, Finish, Goes
<1>4. ASSUME NEW c \in Calls, NEW o \in Bridge!Outcomes, FirstReturns(c, o) \/ ReplayReturns(c, o)
      PROVE  Goal
  <2>1. o # "none"
    BY DEF Bridge!Outcomes, Bridge!Clean, Bridge!Ambiguous
  <2> QED
    BY <1>4, <2>1 DEF FirstReturns, ReplayReturns, Returned, Goes
<1>5. ASSUME NEW a \in Attempts, Execute(a) PROVE Goal
  BY <1>5 DEF Execute, callVars
<1>6. CASE UNCHANGED vars \/ \E g \in alive : HelperDies(g)
  BY <1>6 DEF vars, HelperDies, callVars
<1> QED
  BY <1>1, <1>2, <1>3, <1>4, <1>5, <1>6 DEF Next, CallStep

\* Effects are never taken back.
LEMMA RanGrows == [Next]_vars => ran \subseteq ran'
  BY DEF Next, CallStep, StartUnkeyed, StartFresh, StartRecorded, Get, SpawnFails, FirstReturns,
         ReplayReturns, Returned, Bridge!Return, Recycle, Finish, Execute, Bridge!Run, HelperDies, vars

\* Every step keeps the records those of the calls that made them.
LEMMA RecordsStep == IInv /\ Extra /\ [Next]_vars => RecordsAreOwn' /\ ReplaysAreOwn'
<1> SUFFICES ASSUME IInv, Extra, [Next]_vars PROVE RecordsAreOwn' /\ ReplaysAreOwn'
  OBVIOUS
<1> USE ToolCallAssumption, IdempotencyAssumption DEF IInv, Typed, Extra
<1>0. ran \subseteq ran'
  BY RanGrows
<1>1. ASSUME NEW c \in Calls, StartUnkeyed(c) \/ Get(c) \/ SpawnFails(c) \/ Recycle(c)
                              \/ (~Keyed(c) /\ Finish(c))
      PROVE  RecordsAreOwn' /\ ReplaysAreOwn'
  <2>1. UNCHANGED <<entry, value, ran>>
    BY <1>1 DEF StartUnkeyed, Get, SpawnFails, Recycle, Finish, tableVars
  <2>2. \A d \in Calls : Owner(d)' => Owner(d)
    BY <1>1 DEF StartUnkeyed, Get, SpawnFails, Recycle, Finish, Goes, Owner, Keyed, PcStates
  <2>3. \A d \in Calls : result'[d] = "replayed" => result[d] = "replayed"
    BY <1>1 DEF StartUnkeyed, Get, SpawnFails, Recycle, Finish
  <2> QED
    BY <2>1, <2>2, <2>3 DEF RecordsAreOwn, ReplaysAreOwn
<1>2. ASSUME NEW c \in Calls, NEW o \in Bridge!Outcomes, FirstReturns(c, o) \/ ReplayReturns(c, o)
      PROVE  RecordsAreOwn' /\ ReplaysAreOwn'
  <2>1. UNCHANGED <<entry, value, ran>>
    BY <1>2 DEF FirstReturns, ReplayReturns, Returned, Bridge!Return, tableVars
  <2>2. \A d \in Calls : Owner(d)' => Owner(d)
    BY <1>2 DEF FirstReturns, ReplayReturns, Goes, Owner, PcStates
  <2>3. o # "replayed"
    BY DEF Bridge!Outcomes, Bridge!Clean, Bridge!Ambiguous
  <2>4. \A d \in Calls : result'[d] = "replayed" => result[d] = "replayed"
    BY <1>2, <2>3 DEF FirstReturns, ReplayReturns, Returned
  <2> QED
    BY <2>1, <2>2, <2>4 DEF RecordsAreOwn, ReplaysAreOwn
<1>3. ASSUME NEW c \in Calls, StartRecorded(c) PROVE RecordsAreOwn' /\ ReplaysAreOwn'
  <2> DEFINE k == KeyOf[c]
  <2>1. UNCHANGED <<entry, ran>> /\ k \in Keys /\ entry[k] \in Entries
    BY <1>3 DEF StartRecorded, tableVars, Keyed
  <2>2. \A d \in Calls : Owner(d)' => Owner(d)
    BY <1>3 DEF StartRecorded, Goes, Owner, PcStates
  <2>3. ReserveVerdict(k, FpOf[c]) = "done" => entry[k].st = "done" /\ entry[k].fp = FpOf[c]
    BY <2>1 DEF ReserveVerdict, Entries
  <2>4. result'[c] = "replayed" =>
          /\ value'[c] \in Calls /\ KeyOf[value'[c]] = k /\ FpOf[value'[c]] = FpOf[c]
          /\ \E i \in {1, 2} : <<value'[c], i>> \in ran
    BY <1>3, <2>1, <2>3 DEF StartRecorded, RecordsAreOwn
  <2>5. \A d \in Calls : d # c => result'[d] = result[d] /\ value'[d] = value[d]
    BY <1>3 DEF StartRecorded
  <2>6. RecordsAreOwn'
    BY <2>1, <2>2 DEF RecordsAreOwn
  <2> QED
    BY <2>1, <2>4, <2>5, <2>6 DEF ReplaysAreOwn
<1>4. ASSUME NEW c \in Calls, StartFresh(c) PROVE RecordsAreOwn' /\ ReplaysAreOwn'
  <2> DEFINE k == KeyOf[c]
  <2>1. k \in Keys /\ UNCHANGED <<result, value, ran>>
    BY <1>4 DEF StartFresh, Keyed
  <2>2. entry[k].st = "unset"
    BY <1>4, <2>1 DEF StartFresh, ReserveFresh, ReserveVerdict, Entries
  <2>3. \A q \in Keys : entry'[q] = IF q = k THEN InFlight(FpOf[c])
                                 ELSE IF q \in EvictedKeys THEN Unset ELSE entry[q]
    BY <1>4, <2>1 DEF StartFresh, ReserveFresh, EntryAfterEvict
  <2>4. \A d \in Calls : d # c => (Owner(d)' <=> Owner(d))
    BY <1>4 DEF StartFresh, Goes, Owner
  <2>5. \A d \in Calls : Owner(d) => KeyOf[d] \in Keys /\ entry[KeyOf[d]].st = "in_flight"
    BY DEF ClaimsHaveOneOwner, Owner, Keyed
  <2>6. \A q \in Keys : entry'[q].st = "done" => entry'[q] = entry[q]
    BY <2>3 DEF InFlight, Unset
  <2>7. \A d \in Calls : Owner(d)' => entry'[KeyOf[d]].fp = FpOf[d]
    <3>1. CASE TRUE
      <4>1. \A d \in Calls : d # c /\ Owner(d) => entry'[KeyOf[d]] = entry[KeyOf[d]]
        BY <2>2, <2>3, <2>5, EvictedAreSettled
      <4>2. entry'[k].fp = FpOf[c]
        BY <2>1, <2>3 DEF InFlight
      <4> QED
        BY <2>4, <4>1, <4>2 DEF RecordsAreOwn
    <3> QED
      BY <3>1
  <2>8. RecordsAreOwn'
    BY <2>1, <2>6, <2>7 DEF RecordsAreOwn
  <2> QED
    BY <2>1, <2>8 DEF ReplaysAreOwn
<1>5. ASSUME NEW c \in Calls, Keyed(c), Finish(c) PROVE RecordsAreOwn' /\ ReplaysAreOwn'
  <2> DEFINE k == KeyOf[c]
  <2>1. /\ k \in Keys /\ c \notin ReplaySafe /\ pc[c] = "end"
        /\ UNCHANGED <<result, value, ran>>
    BY <1>5 DEF Finish, Goes, Keyed
  <2>2. /\ Owner(c) /\ ~Owner(c)' /\ \A d \in Calls : d # c => (Owner(d)' <=> Owner(d))
    BY <1>5, <2>1 DEF Finish, Goes, Owner, PcStates
  <2>3. \A q \in Keys : q # k => entry'[q] = entry[q]
    BY <1>5, <2>1 DEF Finish, SettleDone, SettleUnknown, Release, tableVars
  <2>4. \A d \in Calls : d # c /\ Owner(d) => KeyOf[d] # k /\ KeyOf[d] \in Keys
    BY <2>1, <2>2 DEF ClaimsHaveOneOwner, Owner, Keyed
  <2>5. entry[k].st = "in_flight" /\ entry[k].fp = FpOf[c]
    BY <2>1, <2>2 DEF ClaimsHaveOneOwner, RecordsAreOwn
  <2>6. entry'[k].st = "done" =>
          /\ entry'[k].val = c /\ entry'[k].fp = FpOf[c]
          /\ \E i \in {1, 2} : <<c, i>> \in ran
    <3>1. CASE result[c] = "ok"
      <4>1. \E i \in {1, 2} : <<c, i>> \in ran
        BY <2>1, <3>1 DEF ThreadsAreSound, ThreadSound
      <4>2. entry'[k] = Recorded(k, "done", c)
        BY <1>5, <2>1, <3>1 DEF Finish, SettleDone, SettleUnknown, Release, Unsettled, Ambiguous
      <4> QED
        BY <2>5, <4>1, <4>2 DEF Recorded
    <3>2. CASE result[c] # "ok"
      BY <1>5, <2>1, <2>5, <3>2 DEF Finish, SettleUnknown, Release, Recorded, Unset
    <3> QED
      BY <3>1, <3>2
  <2>7. RecordsAreOwn'
    BY <2>1, <2>2, <2>3, <2>4, <2>6 DEF RecordsAreOwn
  <2> QED
    BY <2>1, <2>7 DEF ReplaysAreOwn
<1>6. ASSUME NEW a \in Attempts, Execute(a) PROVE RecordsAreOwn' /\ ReplaysAreOwn'
  BY <1>0, <1>6 DEF Execute, tableVars, callVars, RecordsAreOwn, ReplaysAreOwn, Owner
<1>7. CASE UNCHANGED vars \/ \E g \in alive : HelperDies(g)
  BY <1>7 DEF vars, HelperDies, tableVars, callVars, RecordsAreOwn, ReplaysAreOwn, Owner
<1> QED
  BY <1>1, <1>2, <1>3, <1>4, <1>5, <1>6, <1>7 DEF Next, CallStep

\* Every step keeps the exits seen to.
LEMMA ExitsStep == IInv /\ Extra /\ [Next]_vars => ExitsAreSeenTo'
<1> SUFFICES ASSUME IInv, Extra, [Next]_vars PROVE ExitsAreSeenTo'
  OBVIOUS
<1> USE ToolCallAssumption, IdempotencyAssumption DEF IInv, Typed, Extra
<1>1. \A d \in Calls : /\ <<d, 1>> \in Attempts /\ <<d, 2>> \in Attempts
                       /\ out[<<d, 1>>] # "none" => genOf[<<d, 1>>] # 0
  BY DEF Attempts, AttemptsAreSound
<1>2. "none" \notin Exited
  BY DEF Exited
<1>3. ASSUME NEW c \in Calls, StartUnkeyed(c) \/ StartFresh(c) \/ StartRecorded(c) \/ SpawnFails(c)
                              \/ Finish(c)
      PROVE  ExitsAreSeenTo'
  <2>1. UNCHANGED <<out, genOf, handle>>
    BY <1>3 DEF StartUnkeyed, StartFresh, StartRecorded, SpawnFails, Finish, helperVars
  <2>2. \A d \in Calls : d # c => pc'[d] = pc[d] /\ result'[d] = result[d]
    BY <1>3 DEF StartUnkeyed, StartFresh, StartRecorded, SpawnFails, Finish, Goes
  <2>3. pc'[c] \in {"idle", "get"} => pc[c] = "idle"
    BY <1>3 DEF StartUnkeyed, StartFresh, StartRecorded, SpawnFails, Finish, Goes
  <2>4. pc'[c] # "recycle" /\ pc[c] \in {"idle", "get", "reget", "end"}
    BY <1>3 DEF StartUnkeyed, StartFresh, StartRecorded, SpawnFails, Finish, Goes
  <2>5. out[<<c, 1>>] \in Exited => pc[c] \in {"reget", "end"}
    BY <1>2, <2>4 DEF ExitsAreSeenTo
  <2> QED
    BY <2>1, <2>2, <2>3, <2>4, <2>5 DEF ExitsAreSeenTo
<1>4. ASSUME NEW c \in Calls, Get(c) PROVE ExitsAreSeenTo'
  <2>1. /\ UNCHANGED <<out, result>> /\ handle' \in {handle, spawned + 1} /\ handle' # 0
        /\ genOf' = [genOf EXCEPT ![Try(c)] = handle']
    BY <1>4 DEF Get, helperVars
  <2>2. \A d \in Calls : d # c => pc'[d] = pc[d]
    BY <1>4 DEF Get, Goes
  <2>3. \/ pc[c] = "get" /\ pc'[c] = "call" /\ Try(c) = <<c, 1>>
        \/ pc[c] = "reget" /\ pc'[c] = "recall" /\ Try(c) = <<c, 2>>
    BY <1>4, TryFacts DEF Get, Goes
  <2>4. \A d \in Calls : out[<<d, 1>>] \in Exited /\ handle # genOf[<<d, 1>>] /\ Try(c) # <<d, 1>>
                           => handle' # genOf'[<<d, 1>>]
    <3> SUFFICES ASSUME NEW d \in Calls, handle # genOf[<<d, 1>>], Try(c) # <<d, 1>>
                 PROVE  handle' # genOf'[<<d, 1>>]
      OBVIOUS
    <3>1. genOf'[<<d, 1>>] = genOf[<<d, 1>>] /\ genOf[<<d, 1>>] \in 0..spawned
      BY <1>1, <2>1
    <3> QED
      BY <2>1, <3>1
  <2>5. \A d \in Calls : d # c => Try(c) # <<d, 1>>
    BY TryFacts
  <2> QED
    BY <1>2, <2>1, <2>2, <2>3, <2>4, <2>5 DEF ExitsAreSeenTo
<1>5. ASSUME NEW c \in Calls, NEW o \in Bridge!Outcomes, FirstReturns(c, o) PROVE ExitsAreSeenTo'
  <2>1. /\ pc[c] = "call" /\ Try(c) = <<c, 1>> /\ out' = [out EXCEPT ![<<c, 1>>] = o]
        /\ result' = [result EXCEPT ![c] = o] /\ UNCHANGED <<genOf, handle>>
        /\ pc' = [pc EXCEPT ![c] = IF o \in Failures /\ c \notin Searches THEN "recycle" ELSE "end"]
    BY <1>5, TryFacts DEF FirstReturns, Returned, Bridge!Return, Goes, helperVars
  <2>2. \A d \in Calls : d # c => /\ pc'[d] = pc[d] /\ result'[d] = result[d]
                                  /\ out'[<<d, 1>>] = out[<<d, 1>>]
    BY <1>1, <2>1
  <2>3. out'[<<c, 1>>] = o /\ result'[c] = o
    BY <1>1, <2>1
  <2>4. c \notin Searches /\ o \in Exited => pc'[c] = "recycle"
    BY <2>1 DEF Failures
  <2> QED
    BY <2>1, <2>2, <2>3, <2>4 DEF ExitsAreSeenTo
<1>6. ASSUME NEW c \in Calls, NEW o \in Bridge!Outcomes, ReplayReturns(c, o) PROVE ExitsAreSeenTo'
  <2>1. /\ pc[c] = "recall" /\ out' = [out EXCEPT ![<<c, 2>>] = o]
        /\ result' = [result EXCEPT ![c] = o] /\ UNCHANGED <<genOf, handle>>
        /\ pc' = [pc EXCEPT ![c] = "end"]
    BY <1>6, TryFacts DEF ReplayReturns, Returned, Bridge!Return, Goes, helperVars
  <2>2. \A d \in Calls : out'[<<d, 1>>] = out[<<d, 1>>]
    BY <1>1, <2>1
  <2> QED
    BY <2>1, <2>2 DEF ExitsAreSeenTo
<1>7. ASSUME NEW c \in Calls, Recycle(c) PROVE ExitsAreSeenTo'
  <2>1. /\ pc[c] = "recycle" /\ UNCHANGED <<out, result, genOf>>
        /\ handle' = IF handle = genOf[<<c, 1>>] THEN 0 ELSE handle
        /\ pc'[c] \in {"reget", "end"} /\ \A d \in Calls : d # c => pc'[d] = pc[d]
    BY <1>7 DEF Recycle, Current, Goes
  <2>2. \A d \in Calls : out[<<d, 1>>] \in Exited => genOf[<<d, 1>>] # 0
    BY <1>1, <1>2
  <2> QED
    BY <2>1, <2>2 DEF ExitsAreSeenTo
<1>8. CASE UNCHANGED vars \/ (\E g \in alive : HelperDies(g)) \/ \E a \in Attempts : Execute(a)
  BY <1>8 DEF vars, HelperDies, Execute, Bridge!Run, callVars, helperVars, ExitsAreSeenTo
<1> QED
  BY <1>3, <1>4, <1>5, <1>6, <1>7, <1>8 DEF Next, CallStep

\* The whole of it, next to the first invariant.
LEMMA ExtraHolds == Spec => [](IInv /\ Extra)
<1>1. IInv /\ Extra /\ [Next]_vars => (IInv /\ Extra)'
  BY Inductive, ResultsStep, RecordsStep, ExitsStep DEF Extra
<1> QED
  BY <1>1, Initial, ExtraInitial, PTL DEF Spec

\* run_tool_idempotent and run_tool_retrying: everything the runs check of the
\* calls at any moment, replays and recycled handles included.
THEOREM CallsStaySound == Spec => []CallsAreSound
<1>1. IInv /\ Extra => TypeOK /\ ReplaysAreOwn /\ ExitsAreRecycled
  BY DEF IInv, Typed, Extra, TypeOK, ExitsAreSeenTo, ExitsAreRecycled
<1> QED
  BY <1>1, ExtraHolds, CallsTakeEffectOnce, KeysTakeEffectOnce, FreeKeysAreSafe,
     ClaimsAreExclusive, PinsAreJustified, PTL DEF CallsAreSound

-----------------------------------------------------------------------------
(* The handle.                                                               *)

\* A thread is about to recycle only because its own first attempt failed.
RecyclersFailed == \A c \in Calls : pc[c] = "recycle" => out[<<c, 1>>] \in Failures

LEMMA RecyclersStep == IInv /\ RecyclersFailed /\ [Next]_vars => RecyclersFailed'
<1> SUFFICES ASSUME IInv, RecyclersFailed, [Next]_vars, NEW d \in Calls, pc'[d] = "recycle"
             PROVE  out'[<<d, 1>>] \in Failures
  BY DEF RecyclersFailed
<1> USE ToolCallAssumption DEF IInv, Typed
<1>1. <<d, 1>> \in Attempts
  BY DEF Attempts
<1>2. ASSUME NEW c \in Calls, NEW o \in Bridge!Outcomes, FirstReturns(c, o)
      PROVE  out'[<<d, 1>>] \in Failures
  <2>1. /\ pc' = [pc EXCEPT ![c] = IF o \in Failures /\ c \notin Searches THEN "recycle" ELSE "end"]
        /\ out' = [out EXCEPT ![<<c, 1>>] = o]
    BY <1>2, TryFacts DEF FirstReturns, Returned, Bridge!Return, Goes
  <2> QED
    BY <1>1, <2>1 DEF RecyclersFailed
<1>3. ASSUME NEW c \in Calls, NEW o \in Bridge!Outcomes, ReplayReturns(c, o)
      PROVE  out'[<<d, 1>>] \in Failures
  <2>1. pc' = [pc EXCEPT ![c] = "end"] /\ out' = [out EXCEPT ![<<c, 2>>] = o]
    BY <1>3, TryFacts DEF ReplayReturns, Returned, Bridge!Return, Goes
  <2> QED
    BY <1>1, <2>1 DEF RecyclersFailed
<1>4. ASSUME NEW c \in Calls, ~\E o \in Bridge!Outcomes : FirstReturns(c, o) \/ ReplayReturns(c, o),
             CallStep(c)
      PROVE  out'[<<d, 1>>] \in Failures
  <2>1. UNCHANGED out /\ pc[d] = "recycle"
    BY <1>4 DEF CallStep, StartUnkeyed, StartFresh, StartRecorded, Get, SpawnFails, Recycle, Finish, Goes
  <2> QED
    BY <2>1 DEF RecyclersFailed
<1>5. CASE UNCHANGED vars \/ (\E g \in alive : HelperDies(g)) \/ \E a \in Attempts : Execute(a)
  BY <1>5 DEF vars, HelperDies, Execute, Bridge!Run, callVars, RecyclersFailed
<1> QED
  BY <1>2, <1>3, <1>4, <1>5 DEF Next

\* reset_if_same: however many threads share the handle, it lets go of a
\* generation only for a call that failed on that one.
THEOREM RecyclesAreOwn == Spec => OnlyItsOwnFailureRecycles
<1> DEFINE Own == handle # 0 /\ handle' # handle =>
                    \E c \in Calls : genOf[<<c, 1>>] = handle /\ out[<<c, 1>>] \in Failures
<1>1. Init => RecyclersFailed
  BY DEF Init, RecyclersFailed
<1>2. ASSUME RecyclersFailed, [Next]_vars PROVE Own
  <2>1. ASSUME NEW c \in Calls, Recycle(c) PROVE Own
    BY <1>2, <2>1 DEF Recycle, Current, Goes, RecyclersFailed
  <2>2. ASSUME NEW c \in Calls, ~Recycle(c), CallStep(c) PROVE Own
    BY <2>2 DEF CallStep, StartUnkeyed, StartFresh, StartRecorded, Get, SpawnFails, FirstReturns,
                ReplayReturns, Returned, Finish, helperVars
  <2>3. CASE UNCHANGED vars \/ (\E g \in alive : HelperDies(g)) \/ \E a \in Attempts : Execute(a)
    BY <2>3 DEF vars, HelperDies, Execute, helperVars
  <2> QED
    BY <1>2, <2>1, <2>2, <2>3 DEF Next
<1>3. RecyclersFailed /\ [Next]_vars => [Own]_vars
  BY <1>2
<1> QED
  BY <1>1, <1>3, RecyclersStep, Invariant, PTL DEF Spec, OnlyItsOwnFailureRecycles

-----------------------------------------------------------------------------
(* The calls keep what an idempotency key promises.                          *)

\* A step that leaves the table, the evictions and the effects alone is a
\* stutter of the promise.
LEMMA QuietSteps ==
  ASSUME UNCHANGED <<entry, forgotten, ran>>
  PROVE  UNCHANGED Promise!promiseVars
  BY DEF Promise!promiseVars, KeyStatus, SentUnder

\* Recording a key claims it, or records again what was forgotten.
LEMMA ClaimsRefine ==
  ASSUME IInv, NEW c \in Calls, StartFresh(c)
  PROVE  Promise!Next
<1> USE ToolCallAssumption DEF IInv, Typed
<1> DEFINE k == KeyOf[c]
           lost == {q \in Keys : q \in EvictedKeys \ forgotten}
           status == [q \in Keys |-> KeyStatus(q)]
<1>1. /\ k \in Keys /\ entry[k].st = "unset"
      /\ forgotten' = forgotten \cup EvictedKeys
      /\ ran' = ran
  <2>1. k \in Keys
    BY DEF StartFresh, Keyed
  <2>2. entry[k].st # "fresh"
    BY <2>1 DEF Entries
  <2> QED
    BY <2>1, <2>2 DEF StartFresh, ReserveFresh, ReserveVerdict
<1>2. \A q \in Keys : entry'[q] = IF q = k THEN InFlight(FpOf[c])
                                  ELSE IF q \in EvictedKeys THEN Unset ELSE entry[q]
  BY <1>1 DEF StartFresh, ReserveFresh, EntryAfterEvict
<1>3. k \notin EvictedKeys
  BY <1>1, EvictedAreSettled
<1>4. lost \in SUBSET {q \in Keys : KeyStatus(q) \in {"done", "pinned"}}
  BY EvictedAreSettled DEF KeyStatus
<1>5. \A q \in Keys \ {k} : KeyStatus(q)' = IF q \in lost THEN "forgotten" ELSE KeyStatus(q)
  BY <1>1, <1>2 DEF KeyStatus
<1>6. UNCHANGED [q \in Keys |-> SentUnder(q)]
  BY <1>1 DEF SentUnder
<1>7. CASE k \notin forgotten
  <2>1. KeyStatus(k) = "free" /\ KeyStatus(k)' = "claimed"
    BY <1>1, <1>2, <1>3, <1>7 DEF KeyStatus, InFlight
  <2>2. \A q \in Keys : KeyStatus(q)' = IF q \in lost THEN "forgotten"
                                        ELSE IF q = k THEN "claimed" ELSE KeyStatus(q)
    BY <1>3, <1>5, <2>1
  <2>3. Promise!Forgets(k, "claimed")
    <3>1. lost \in SUBSET {q \in Keys : status[q] \in {"done", "pinned"}}
      BY <1>4
    <3>2. status' = [q \in Keys |-> IF q \in lost THEN "forgotten"
                                   ELSE IF q = k THEN "claimed" ELSE status[q]]
      BY <2>2
    <3> QED
      BY ONLY <3>1, <3>2 DEF Promise!Forgets
  <2> QED
    BY <1>1, <1>6, <2>1, <2>3 DEF Promise!Next, Promise!Claim
<1>8. CASE k \in forgotten
  <2>1. KeyStatus(k) = "forgotten" /\ KeyStatus(k)' = "forgotten"
    BY <1>1, <1>8 DEF KeyStatus
  <2>2. \A q \in Keys : KeyStatus(q)' = IF q \in lost THEN "forgotten"
                                        ELSE IF q = k THEN "forgotten" ELSE KeyStatus(q)
    BY <1>3, <1>5, <2>1
  <2>3. Promise!Forgets(k, "forgotten")
    <3>1. lost \in SUBSET {q \in Keys : status[q] \in {"done", "pinned"}}
      BY <1>4
    <3>2. status' = [q \in Keys |-> IF q \in lost THEN "forgotten"
                                   ELSE IF q = k THEN "forgotten" ELSE status[q]]
      BY <2>2
    <3> QED
      BY ONLY <3>1, <3>2 DEF Promise!Forgets
  <2> QED
    BY <1>1, <1>6, <2>1, <2>3 DEF Promise!Next, Promise!Reclaim
<1> QED
  BY <1>7, <1>8

\* An effect is the one send its key may have, unless nothing is promised.
LEMMA EffectsRefine ==
  ASSUME IInv, NEW a \in Attempts, Execute(a)
  PROVE  [Promise!Next]_Promise!promiseVars
<1> USE ToolCallAssumption DEF IInv, Typed
<1> DEFINE k == KeyOf[a[1]]
           sent == [q \in Keys |-> SentUnder(q)]
<1>1. /\ genOf[a] \in alive /\ out[a] \notin Bridge!Clean /\ a \notin ran
      /\ ran' = ran \cup {a} /\ UNCHANGED <<entry, forgotten>>
  BY DEF Execute, Bridge!Run, tableVars
<1>2. Loose(a) /\ a[1] \in Calls
  BY <1>1 DEF Loose, Attempts
<1>3. UNCHANGED [q \in Keys |-> KeyStatus(q)]
  BY <1>1 DEF KeyStatus
<1>4. \A q \in Keys : SentUnder(q)' = IF q = k THEN SentUnder(q) \cup {a} ELSE SentUnder(q)
  BY <1>1 DEF SentUnder
<1>5. CASE k \notin Keys
  BY <1>3, <1>4, <1>5 DEF Promise!promiseVars
<1>6. CASE k \in Keys /\ k \in forgotten
  <2>1. KeyStatus(k) = "forgotten" /\ SentUnder(k)' \in SUBSET Attempts
    BY <1>1, <1>6 DEF KeyStatus, SentUnder
  <2>2. sent' = [sent EXCEPT ![k] = SentUnder(k)']
    BY <1>4
  <2>3. Promise!Unpromised(k)
    BY <1>3, <1>6, <2>1, <2>2 DEF Promise!Unpromised
  <2> QED
    BY <1>6, <2>3 DEF Promise!Next
<1>7. CASE k \in Keys /\ k \notin forgotten
  <2>1. KeyStatus(k) \in {"claimed", "pinned"}
    BY <1>1, <1>2, <1>7 DEF KeysAreSound, KeyStatus, Entries
  <2>2. SentUnder(k) = {}
    BY <1>1, <1>2, <1>7, RanAreLoose DEF KeysAreSound, SentUnder
  <2>3. sent' = [sent EXCEPT ![k] = {a}]
    BY <1>4, <2>2
  <2>4. Promise!Send(k)
    BY <1>3, <1>7, <2>1, <2>2, <2>3 DEF Promise!Send
  <2> QED
    BY <1>7, <2>4 DEF Promise!Next
<1> QED
  BY <1>5, <1>6, <1>7

\* Ending a claim finishes, pins or frees the key.
LEMMA EndsRefine ==
  ASSUME IInv, NEW c \in Calls, Finish(c)
  PROVE  [Promise!Next]_Promise!promiseVars
<1> USE ToolCallAssumption DEF IInv, Typed
<1> DEFINE k == KeyOf[c]
<1>1. UNCHANGED <<ran, forgotten>> /\ pc[c] = "end"
  BY DEF Finish, Goes
<1>2. UNCHANGED [q \in Keys |-> SentUnder(q)]
  BY <1>1 DEF SentUnder
<1>3. CASE ~Keyed(c)
  BY <1>1, <1>3, QuietSteps DEF Finish, tableVars
<1>4. ASSUME Keyed(c) PROVE [Promise!Next]_Promise!promiseVars
  <2>1. k \in Keys /\ c \notin ReplaySafe /\ Owner(c) /\ entry[k].st = "in_flight"
    BY <1>1, <1>4 DEF Keyed, Owner, PcStates, ClaimsHaveOneOwner
  <2>2. ThreadSound(c)
    BY <2>1 DEF ThreadsAreSound
  <2>3. \A q \in Keys : q # k => entry'[q] = entry[q]
    BY <1>4, <2>1 DEF Finish, SettleDone, SettleUnknown, Release, tableVars
  <2>4. \A q \in Keys : q # k => KeyStatus(q)' = KeyStatus(q)
    BY <1>1, <2>3 DEF KeyStatus
  <2>5. CASE k \in forgotten
    <3>1. KeyStatus(k)' = KeyStatus(k)
      BY <1>1, <2>5 DEF KeyStatus
    <3> QED
      BY <1>2, <2>4, <3>1 DEF Promise!promiseVars
  <2>6. CASE k \notin forgotten
    <3>1. KeyStatus(k) = "claimed"
      BY <2>1, <2>6 DEF KeyStatus
    <3>2. ASSUME NEW s, KeyStatus(k)' = s PROVE Promise!Becomes(k, "claimed", s)
      BY <2>1, <2>4, <3>1, <3>2 DEF Promise!Becomes
    <3>3. CASE result[c] = "ok"
      <4>1. entry'[k].st = "done"
        BY <1>4, <2>1, <3>3
           DEF Finish, SettleDone, SettleUnknown, Release, Recorded, Unsettled, Ambiguous
      <4>2. SentUnder(k) # {}
        BY <1>1, <2>2, <3>3 DEF ThreadSound, SentUnder
      <4>3. KeyStatus(k)' = "done"
        BY <1>1, <2>6, <4>1 DEF KeyStatus
      <4> QED
        BY <1>2, <2>1, <3>2, <4>2, <4>3 DEF Promise!Finish, Promise!Next
    <3>4. CASE result[c] # "ok" /\ Unsettled(c)
      <4>1. entry'[k].st = "unknown"
        BY <1>4, <2>1, <3>4 DEF Finish, SettleUnknown, Recorded
      <4>2. KeyStatus(k)' = "pinned"
        BY <1>1, <2>6, <4>1 DEF KeyStatus
      <4> QED
        BY <1>2, <2>1, <3>2, <4>2 DEF Promise!Pin, Promise!Next
    <3>5. CASE result[c] # "ok" /\ ~Unsettled(c)
      <4>1. entry'[k].st = "unset"
        BY <1>4, <2>1, <3>5 DEF Finish, Release, Unset
      <4>2. ASSUME NEW b \in ran, KeyOf[b[1]] = k PROVE FALSE
        <5>1. b \in Attempts /\ Loose(b) /\ b[1] \in Calls
          BY <4>2, RanAreLoose
        <5>2. b[1] = c
          BY <2>1, <2>6, <4>2, <5>1 DEF KeysAreSound, ClaimsHaveOneOwner
        <5>3. b = <<c, 1>> \/ b = <<c, 2>>
          BY <5>1, <5>2 DEF Attempts
        <5> QED
          BY <1>1, <2>2, <3>5, <5>1, <5>3 DEF ThreadSound
      <4>3. SentUnder(k) = {}
        BY <4>2 DEF SentUnder
      <4>4. KeyStatus(k)' = "free"
        BY <1>1, <2>6, <4>1 DEF KeyStatus
      <4> QED
        BY <1>2, <2>1, <3>2, <4>3, <4>4 DEF Promise!Free, Promise!Next
    <3> QED
      BY <3>3, <3>4, <3>5
  <2> QED
    BY <2>5, <2>6
<1> QED
  BY <1>3, <1>4

\* The tool calls of one server, with helper deaths, replays and evictions,
\* keep the promise of an idempotency key (AtMostOnce).
THEOREM CallsKeepThePromise == Spec => KeepsPromise
<1>1. Init => Promise!Init
  BY DEF Init, TableInit, Bridge!Init, Promise!Init, KeyStatus, SentUnder, Unset
<1>2. ASSUME IInv, [Next]_vars PROVE [Promise!Next]_Promise!promiseVars
  <2>1. ASSUME NEW c \in Calls, CallStep(c), ~StartFresh(c), ~Finish(c)
        PROVE  UNCHANGED Promise!promiseVars
    <3>1. UNCHANGED <<entry, forgotten, ran>>
      BY <2>1 DEF CallStep, StartUnkeyed, StartRecorded, Get, SpawnFails, FirstReturns,
                  ReplayReturns, Returned, Bridge!Return, Recycle, tableVars
    <3> QED
      BY <3>1, QuietSteps
  <2>2. CASE UNCHANGED vars \/ \E g \in alive : HelperDies(g)
    BY <2>2, QuietSteps DEF vars, HelperDies, tableVars
  <2> QED
    BY <1>2, <2>1, <2>2, ClaimsRefine, EffectsRefine, EndsRefine DEF Next
<1> QED
  BY <1>1, <1>2, Invariant, PTL DEF Spec, KeepsPromise, Promise!Spec

-----------------------------------------------------------------------------
(***************************************************************************)
(* The key table on its own (module KeyTable), for every set of keys and   *)
(* every cap, under threads that end each claim they make exactly once.    *)
(***************************************************************************)
VARIABLE owed   \* the keys those threads have claimed and not yet ended

Table == INSTANCE KeyTable

\* A set of naturals that is not empty has a least member.
LEMMA LeastMember ==
    ASSUME NEW T, T \subseteq Nat, T # {}
    PROVE  \E x \in T : \A y \in T : x <= y
  <1>1. PICK R : /\ IsWellFoundedOn(R, Nat)
                 /\ \A x, y \in Nat : <<y, x>> \in R <=> y < x
    <2>1. \A x, y \in Nat : <<y, x>> \in OpToRel(<, Nat) <=> y < x
      BY DEF OpToRel
    <2>2. QED
      BY <2>1, NatLessThanWellFounded, Zenon
  <1>2. PICK x \in T : \A y \in T : ~(<<y, x>> \in R)
    BY <1>1, WFMin
  <1>3. ASSUME NEW y \in T
        PROVE  x <= y
    <2>1. x \in Nat /\ y \in Nat
      OBVIOUS
    <2>2. ~(y < x)
      BY <1>1, <1>2, <2>1, Zenon
    <2>3. QED
      BY <2>1, <2>2
  <1>4. QED
    BY <1>3

\* Removing position i of a sequence keeps the others, in order.
LEMMA RemoveAtFacts ==
    ASSUME NEW S, NEW s \in Seq(S), NEW i \in DOMAIN s
    PROVE  /\ Table!RemoveAt(s, i) \in Seq(S)
           /\ Len(Table!RemoveAt(s, i)) = Len(s) - 1
           /\ \A j \in 1..(Len(s) - 1) :
                 Table!RemoveAt(s, i)[j] = IF j < i THEN s[j] ELSE s[j + 1]
  <1> DEFINE a == SubSeq(s, 1, i - 1)
             b == SubSeq(s, i + 1, Len(s))
  <1>1. /\ i \in 1..Len(s)
        /\ Len(s) \in Nat
    OBVIOUS
  <1>2. /\ a \in Seq(S)
        /\ Len(a) = i - 1
        /\ \A j \in 1..(i - 1) : a[j] = s[j]
    BY <1>1
  <1>3. /\ b \in Seq(S)
        /\ Len(b) = Len(s) - i
        /\ \A j \in 1..(Len(s) - i) : b[j] = s[i + j]
    BY <1>1
  <1>4. Table!RemoveAt(s, i) = a \o b
    BY DEF Table!RemoveAt
  <1>5. /\ a \o b \in Seq(S)
        /\ Len(a \o b) = Len(a) + Len(b)
        /\ \A j \in 1..(Len(a) + Len(b)) :
              (a \o b)[j] = IF j <= Len(a) THEN a[j] ELSE b[j - Len(a)]
    BY <1>2, <1>3, ConcatProperties
  <1> HIDE DEF a, b
  <1>6. ASSUME NEW j \in 1..(Len(s) - 1)
        PROVE  (a \o b)[j] = IF j < i THEN s[j] ELSE s[j + 1]
    <2>1. CASE j < i
      <3>1. j \in 1..(i - 1) /\ j <= Len(a)
        BY <1>1, <1>2, <2>1
      <3>2. j \in 1..(Len(a) + Len(b))
        BY <1>2, <1>3, <3>1
      <3>3. (a \o b)[j] = a[j]
        BY <1>5, <3>1, <3>2
      <3>4. QED
        BY <1>2, <2>1, <3>1, <3>3
    <2>2. CASE ~(j < i)
      <3>a. j - (i - 1) \in 1..(Len(s) - i)
        BY <1>1, <2>2
      <3>b. j \in 1..(Len(a) + Len(b)) /\ ~(j <= Len(a))
        BY <1>1, <1>2, <1>3, <2>2
      <3>c. (a \o b)[j] = b[j - Len(a)]
        BY <1>5, <3>b
      <3>1. /\ j - (i - 1) \in 1..(Len(s) - i)
            /\ (a \o b)[j] = b[j - (i - 1)]
        BY <1>2, <3>a, <3>c
      <3>2. b[j - (i - 1)] = s[i + (j - (i - 1))]
        BY <1>3, <3>1
      <3>3. i + (j - (i - 1)) = j + 1
        BY <1>1
      <3>4. QED
        BY <2>2, <3>1, <3>2, <3>3
    <2>3. QED
      BY <2>1, <2>2
  <1>7. Len(a \o b) = Len(s) - 1
    BY <1>1, <1>2, <1>3, <1>5
  <1>8. QED
    BY <1>4, <1>5, <1>6, <1>7

-----------------------------------------------------------------------------
(***************************************************************************)
(* The inductive invariant: types, queue and map, claims and their owners. *)
(***************************************************************************)
TableInv == Table!TypeOK /\ Table!QueueMatchesMap /\ Table!InFlightIffOwed

\* Removing the position of a key removes that key and no other from what
\* the queue lists.
LEMMA DropKey ==
    ASSUME TableInv, NEW i \in DOMAIN order
    PROVE  LET o == Table!RemoveAt(order, i) IN
           /\ o \in Seq(Keys)
           /\ \A m, n \in DOMAIN o : o[m] = o[n] => m = n
           /\ \A m \in DOMAIN o : o[m] \in Table!Held \ {order[i]}
           /\ \A k \in Table!Held \ {order[i]} : \E m \in DOMAIN o : o[m] = k
  <1> DEFINE o == Table!RemoveAt(order, i)
             n == Len(order)
  <1>1. /\ order \in Seq(Keys)
        /\ n \in Nat
        /\ i \in 1..n
        /\ DOMAIN order = 1..n
    BY DEF TableInv, Table!TypeOK, Table!TableTypeOK
  <1>2. /\ o \in Seq(Keys)
        /\ Len(o) = n - 1
        /\ \A j \in 1..(n - 1) : o[j] = IF j < i THEN order[j] ELSE order[j + 1]
    BY <1>1, RemoveAtFacts
  <1>3. DOMAIN o = 1..(n - 1)
    BY <1>1, <1>2
  <1> DEFINE src(j) == IF j < i THEN j ELSE j + 1
  <1>4. \A j \in 1..(n - 1) : /\ src(j) \in 1..n
                               /\ src(j) # i
                               /\ o[j] = order[src(j)]
    BY <1>1, <1>2
  <1>5. \A j, k \in 1..(n - 1) : src(j) = src(k) => j = k
    BY <1>1
  <1>6. \A j \in 1..n : j # i => \E m \in 1..(n - 1) : src(m) = j
    <2> TAKE j \in 1..n
    <2> HAVE j # i
    <2>1. CASE j < i
      <3>1. j \in 1..(n - 1) /\ src(j) = j
        BY <1>1, <2>1
      <3>2. QED
        BY <3>1
    <2>2. CASE j > i
      <3>1. j - 1 \in 1..(n - 1) /\ src(j - 1) = j
        BY <1>1, <2>2
      <3>2. QED
        BY <3>1
    <2>3. QED
      BY <1>1, <2>1, <2>2
  <1> HIDE DEF o, src
  <1>7. /\ \A p, q \in 1..n : order[p] = order[q] => p = q
        /\ \A p \in 1..n : order[p] \in Table!Held
        /\ \A k \in Table!Held : \E p \in 1..n : order[p] = k
    BY <1>1 DEF TableInv, Table!QueueMatchesMap
  <1>8. ASSUME NEW p \in DOMAIN o, NEW q \in DOMAIN o, o[p] = o[q]
        PROVE  p = q
    <2>1. /\ src(p) \in 1..n /\ o[p] = order[src(p)]
          /\ src(q) \in 1..n /\ o[q] = order[src(q)]
      BY <1>3, <1>4
    <2>2. src(p) = src(q)
      BY <1>7, <1>8, <2>1
    <2>3. QED
      BY <1>3, <1>5, <2>2
  <1>9. ASSUME NEW p \in DOMAIN o
        PROVE  o[p] \in Table!Held \ {order[i]}
    <2>1. /\ src(p) \in 1..n /\ src(p) # i /\ o[p] = order[src(p)]
      BY <1>3, <1>4
    <2>2. QED
      BY <1>1, <1>7, <2>1
  <1>10. ASSUME NEW k \in Table!Held \ {order[i]}
         PROVE  \E p \in DOMAIN o : o[p] = k
    <2>1. PICK j \in 1..n : order[j] = k
      BY <1>7
    <2>2. j # i
      BY <2>1
    <2>3. PICK m \in 1..(n - 1) : src(m) = j
      BY <1>6, <2>2
    <2>4. o[m] = k
      BY <1>4, <2>1, <2>3
    <2>5. QED
      BY <1>3, <2>4
  <1>11. QED
    BY <1>2, <1>8, <1>9, <1>10 DEF o

\* At most one position is the victim, and its key is settled.
LEMMA OneVictim ==
    ASSUME TableInv, NEW i \in Table!Victims
    PROVE  /\ i \in DOMAIN order
           /\ Table!Victims = {i}
           /\ entry[order[i]].st \in {"done", "unknown"}
  <1>1. /\ i \in DOMAIN order
        /\ Table!IsVictim(i)
    BY DEF Table!Victims
  <1>2. DOMAIN order \subseteq Nat \ {0}
    BY DEF TableInv, Table!TypeOK, Table!TableTypeOK
  <1>3. entry[order[i]].st \in {"done", "unknown"}
    BY <1>1 DEF Table!IsVictim, Table!OldestWith
  <1>4. ASSUME NEW j \in Table!Victims
        PROVE  j = i
    <2>1. j \in DOMAIN order /\ Table!IsVictim(j)
      BY DEF Table!Victims
    <2>2. \/ Table!OldestWith("done", i) /\ Table!OldestWith("done", j)
          \/ Table!OldestWith("unknown", i) /\ Table!OldestWith("unknown", j)
      BY <1>1, <2>1 DEF Table!IsVictim, Table!OldestWith
    <2>3. ~(i < j) /\ ~(j < i)
      BY <1>1, <1>2, <2>1, <2>2 DEF Table!OldestWith
    <2>4. QED
      BY <1>1, <1>2, <2>1, <2>3
  <1>5. QED
    BY <1>1, <1>3, <1>4

\* What the table holds once evict_if_full has made room.
AfterEvict ==
    /\ Table!OrderAfterEvict \in Seq(Keys)
    /\ Table!EntryAfterEvict \in [Keys -> Table!Entries]
    /\ \A m, n \in DOMAIN Table!OrderAfterEvict :
          Table!OrderAfterEvict[m] = Table!OrderAfterEvict[n] => m = n
    /\ \A m \in DOMAIN Table!OrderAfterEvict :
          Table!EntryAfterEvict[Table!OrderAfterEvict[m]].st # "unset"
    /\ \A k \in Keys : Table!EntryAfterEvict[k].st # "unset" =>
          \E m \in DOMAIN Table!OrderAfterEvict : Table!OrderAfterEvict[m] = k
    /\ \A k \in Keys : Table!EntryAfterEvict[k].st = "in_flight" <=> k \in owed

\* What eviction leaves behind.
LEMMA EvictFacts == ASSUME TableInv PROVE AfterEvict
  <1>1. CASE Table!Victims = {}
    <2>1. Table!EvictedKeys = {}
      BY <1>1 DEF Table!EvictedKeys
    <2>2. Table!OrderAfterEvict = order
      BY <1>1 DEF Table!OrderAfterEvict
    <2>3. \A k \in Keys : Table!EntryAfterEvict[k] = entry[k]
      BY <2>1 DEF Table!EntryAfterEvict
    <2>4. Table!EntryAfterEvict \in [Keys -> Table!Entries]
      BY <2>1 DEF Table!EntryAfterEvict, TableInv, Table!TypeOK, Table!TableTypeOK
    <2>5. QED
      BY <2>2, <2>3, <2>4
      DEF AfterEvict, TableInv, Table!TypeOK, Table!TableTypeOK, Table!QueueMatchesMap, Table!InFlightIffOwed, Table!Held
  <1>2. CASE Table!Victims # {}
    <2> DEFINE i == CHOOSE v \in Table!Victims : TRUE
               o == Table!RemoveAt(order, i)
    <2>1. i \in Table!Victims
      BY <1>2
    <2>2. /\ i \in DOMAIN order
          /\ Table!Victims = {i}
          /\ entry[order[i]].st \in {"done", "unknown"}
      BY <2>1, OneVictim
    <2>3. Table!OrderAfterEvict = o
      BY <1>2 DEF Table!OrderAfterEvict
    <2> HIDE DEF i
    <2>4. Table!EvictedKeys = {order[i]}
      BY <2>2 DEF Table!EvictedKeys
    <2>5. \A k \in Keys :
            Table!EntryAfterEvict[k] = IF k = order[i] THEN Table!Unset ELSE entry[k]
      BY <2>4 DEF Table!EntryAfterEvict
    <2>6. Table!EntryAfterEvict \in [Keys -> Table!Entries]
      BY <2>4 DEF Table!EntryAfterEvict, TableInv, Table!TypeOK, Table!TableTypeOK, Table!Entries, Table!Unset
    <2>7. /\ o \in Seq(Keys)
          /\ \A m, n \in DOMAIN o : o[m] = o[n] => m = n
          /\ \A m \in DOMAIN o : o[m] \in Table!Held \ {order[i]}
          /\ \A k \in Table!Held \ {order[i]} : \E m \in DOMAIN o : o[m] = k
      BY <2>2, DropKey
    <2> HIDE DEF o
    <2>8. /\ \A k \in Keys : Table!EntryAfterEvict[k].st # "unset" => k \in Table!Held \ {order[i]}
          /\ \A k \in Table!Held \ {order[i]} : Table!EntryAfterEvict[k].st # "unset"
      BY <2>5 DEF Table!Held, Table!Unset
    <2>9. \A k \in Keys : Table!EntryAfterEvict[k].st = "in_flight" <=> k \in owed
      BY <2>2, <2>5 DEF TableInv, Table!InFlightIffOwed, Table!Unset
    <2>10. QED
      BY <2>3, <2>6, <2>7, <2>8, <2>9 DEF AfterEvict
  <1>3. QED
    BY <1>1, <1>2

-----------------------------------------------------------------------------
\* Each action preserves the invariant.
LEMMA ClaimPreserves ==
    ASSUME TableInv, NEW k \in Keys, NEW fp \in Fingerprints, Table!Claim(k, fp)
    PROVE  TableInv'
  <1> DEFINE o == Table!OrderAfterEvict
             e == Table!EntryAfterEvict
  <1>1. AfterEvict
    BY EvictFacts
  <1>2. /\ entry[k].st = "unset"
        /\ order' = Append(o, k)
        /\ entry' = [e EXCEPT ![k] = Table!InFlight(fp)]
        /\ owed' = owed \cup {k}
    BY DEF Table!Claim, Table!ReserveFresh, Table!ReserveVerdict, TableInv, Table!TypeOK, Table!TableTypeOK, Table!Entries
  <1>3. e[k].st = "unset"
    BY <1>2 DEF Table!EntryAfterEvict, Table!Unset
  <1> HIDE DEF o, e
  <1>4. /\ o \in Seq(Keys)
        /\ e \in [Keys -> Table!Entries]
        /\ \A m, n \in DOMAIN o : o[m] = o[n] => m = n
        /\ \A m \in DOMAIN o : e[o[m]].st # "unset"
        /\ \A q \in Keys : e[q].st # "unset" => \E m \in DOMAIN o : o[m] = q
        /\ \A q \in Keys : e[q].st = "in_flight" <=> q \in owed
    BY <1>1 DEF AfterEvict, o, e
  <1>5. /\ order' \in Seq(Keys)
        /\ DOMAIN order' = 1..(Len(o) + 1)
        /\ DOMAIN o = 1..Len(o)
        /\ Len(o) \in Nat
        /\ \A m \in DOMAIN o : order'[m] = o[m]
        /\ order'[Len(o) + 1] = k
    BY <1>2, <1>4
  <1>6. /\ entry' \in [Keys -> Table!Entries]
        /\ entry'[k].st = "in_flight"
        /\ \A q \in Keys : q # k => entry'[q] = e[q]
    BY <1>2, <1>4, IdempotencyAssumption DEF Table!InFlight, Table!Entries
  <1>7. Table!TypeOK'
    BY <1>2, <1>5, <1>6 DEF Table!TypeOK, Table!TableTypeOK, TableInv
  <1>8. Table!InFlightIffOwed'
    BY <1>2, <1>4, <1>6 DEF Table!InFlightIffOwed
  <1>9. \A m \in DOMAIN o : o[m] \in Keys /\ o[m] # k
    BY <1>3, <1>4
  <1>10. Table!QueueMatchesMap'
    <2>1. \A m \in DOMAIN order' : m \in DOMAIN o \/ m = Len(o) + 1
      BY <1>5
    <2>2. \A m, n \in DOMAIN order' : order'[m] = order'[n] => m = n
      BY <1>4, <1>5, <1>9, <2>1
    <2>3. \A m \in DOMAIN order' : order'[m] \in Keys /\ entry'[order'[m]].st # "unset"
      BY <1>4, <1>5, <1>6, <1>9, <2>1
    <2>4. \A q \in Keys : entry'[q].st # "unset" => \E m \in DOMAIN order' : order'[m] = q
      <3> TAKE q \in Keys
      <3>1. CASE q = k
        BY <1>5, <3>1
      <3>2. CASE q # k
        BY <1>4, <1>5, <1>6, <3>2
      <3>3. QED
        BY <3>1, <3>2
    <2>5. QED
      BY <2>2, <2>3, <2>4 DEF Table!QueueMatchesMap, Table!Held
  <1>11. QED
    BY <1>7, <1>8, <1>10 DEF TableInv

\* Settling leaves the queue and the set of recorded keys as they are.
LEMMA SettlePreserves ==
    ASSUME TableInv, NEW k \in owed, NEW e \in Table!Entries,
           e.st \in {"done", "unknown"},
           order' = order,
           entry' = [entry EXCEPT ![k] = e],
           owed' = owed \ {k}
    PROVE  TableInv'
  <1>1. /\ k \in Keys
        /\ entry[k].st = "in_flight"
        /\ entry \in [Keys -> Table!Entries]
    BY DEF TableInv, Table!TypeOK, Table!TableTypeOK, Table!InFlightIffOwed
  <1>2. Table!Held' = Table!Held
    BY <1>1 DEF Table!Held
  <1>3. Table!TypeOK'
    BY <1>1 DEF TableInv, Table!TypeOK, Table!TableTypeOK
  <1>4. Table!QueueMatchesMap'
    BY <1>2 DEF TableInv, Table!QueueMatchesMap
  <1>5. Table!InFlightIffOwed'
    BY <1>1 DEF TableInv, Table!InFlightIffOwed
  <1>6. QED
    BY <1>3, <1>4, <1>5 DEF TableInv

\* Releasing a claim removes it from the queue and from the map.
LEMMA AbandonPreserves ==
    ASSUME TableInv, NEW k \in Keys, Table!Abandon(k)
    PROVE  TableInv'
  <1>1. /\ k \in owed
        /\ entry[k].st = "in_flight"
        /\ entry \in [Keys -> Table!Entries]
        /\ owed \subseteq Keys
    BY DEF Table!Abandon, TableInv, Table!TypeOK, Table!TableTypeOK, Table!InFlightIffOwed
  <1>2. PICK i \in DOMAIN order : /\ order[i] = k
                                  /\ order' = Table!RemoveAt(order, i)
    BY <1>1 DEF Table!Abandon, Table!Release
  <1>3. /\ entry' = [entry EXCEPT ![k] = Table!Unset]
        /\ owed' = owed \ {k}
    BY <1>1 DEF Table!Abandon, Table!Release
  <1>4. /\ order' \in Seq(Keys)
        /\ \A m, n \in DOMAIN order' : order'[m] = order'[n] => m = n
        /\ \A m \in DOMAIN order' : order'[m] \in Table!Held \ {k}
        /\ \A q \in Table!Held \ {k} : \E m \in DOMAIN order' : order'[m] = q
    BY <1>2, DropKey
  <1>5. Table!Held' = Table!Held \ {k}
    BY <1>1, <1>3 DEF Table!Held, Table!Unset
  <1>6. Table!TypeOK'
    BY <1>1, <1>3, <1>4 DEF Table!TypeOK, Table!TableTypeOK, Table!Entries, Table!Unset
  <1>7. Table!QueueMatchesMap'
    BY <1>4, <1>5 DEF Table!QueueMatchesMap
  <1>8. Table!InFlightIffOwed'
    BY <1>1, <1>3 DEF TableInv, Table!InFlightIffOwed, Table!Unset
  <1>9. QED
    BY <1>6, <1>7, <1>8 DEF TableInv

\* Every step preserves the invariant.
LEMMA TableInductive == TableInv /\ [Table!Next]_(Table!vars) => TableInv'
  <1> SUFFICES ASSUME TableInv, [Table!Next]_(Table!vars) PROVE TableInv'
    OBVIOUS
  <1>1. ASSUME NEW k \in Keys, NEW fp \in Fingerprints, Table!Claim(k, fp)
        PROVE  TableInv'
    BY <1>1, ClaimPreserves
  <1>2. CASE UNCHANGED Table!vars
    BY <1>2 DEF Table!vars, TableInv, Table!TypeOK, Table!TableTypeOK, Table!QueueMatchesMap, Table!InFlightIffOwed, Table!Held
  <1>3. ASSUME NEW k \in Keys, NEW fp \in Fingerprints, Table!Repeat(k, fp)
        PROVE  TableInv'
    BY <1>2, <1>3 DEF Table!Repeat
  <1>4. ASSUME NEW k \in Keys, NEW v \in Values, Table!Complete(k, v)
        PROVE  TableInv'
    <2>1. Table!Recorded(k, "done", v) \in Table!Entries
      BY DEF Table!Recorded, Table!Entries, TableInv, Table!TypeOK, Table!TableTypeOK
    <2>2. Table!Recorded(k, "done", v).st = "done"
      BY DEF Table!Recorded
    <2>3. QED
      BY <1>4, <2>1, <2>2, SettlePreserves DEF Table!Complete, Table!SettleDone
  <1>5. ASSUME NEW k \in Keys, Table!Pin(k)
        PROVE  TableInv'
    <2>1. Table!Recorded(k, "unknown", None) \in Table!Entries
      BY DEF Table!Recorded, Table!Entries, TableInv, Table!TypeOK, Table!TableTypeOK
    <2>2. Table!Recorded(k, "unknown", None).st = "unknown"
      BY DEF Table!Recorded
    <2>3. QED
      BY <1>5, <2>1, <2>2, SettlePreserves DEF Table!Pin, Table!SettleUnknown
  <1>6. ASSUME NEW k \in Keys, Table!Abandon(k)
        PROVE  TableInv'
    BY <1>6, AbandonPreserves
  <1>7. QED
    BY <1>1, <1>2, <1>3, <1>4, <1>5, <1>6 DEF Table!Next

\* An empty table satisfies the invariant.
LEMMA TableInitial == Table!Init => TableInv
  BY DEF Table!Init, Table!TableInit, TableInv, Table!TypeOK, Table!TableTypeOK, Table!QueueMatchesMap, Table!InFlightIffOwed, Table!Held,
         Table!Unset, Table!Entries

\* The queue and the map keep their types (idempotency.rs).
THEOREM TypeCorrect == Table!Spec => []Table!TypeOK
  <1>1. TableInv => Table!TypeOK
    BY DEF TableInv
  <1>2. QED
    BY <1>1, TableInitial, TableInductive, PTL DEF Table!Spec

\* The retention queue lists every recorded key exactly once, for any number
\* of keys, threads and any cap: reserve, settle, release and evict_if_full
\* keep `order` and `map` in step.
THEOREM QueueNeverDrifts == Table!Spec => []QueueMatchesMap
  <1>1. TableInv => QueueMatchesMap
    BY DEF TableInv, Table!QueueMatchesMap, QueueMatchesMap, Table!Held, Held
  <1>2. QED
    BY <1>1, TableInitial, TableInductive, PTL DEF Table!Spec

\* A claim lives exactly as long as its owner: eviction never takes a key in
\* flight and no claim is left behind when its thread is done.
THEOREM ClaimsAreOwned == Table!Spec => []Table!InFlightIffOwed
  <1>1. TableInv => Table!InFlightIffOwed
    BY DEF TableInv
  <1>2. QED
    BY <1>1, TableInitial, TableInductive, PTL DEF Table!Spec

\* The table is sound whatever the threads do, for any keys and any cap.
THEOREM TableStaysSound == Table!Spec => []TableIsSound
  <1>1. TableInv => TableTypeOK
    BY DEF TableInv, Table!TypeOK, Table!TableTypeOK, TableTypeOK, Table!Entries, Entries
  <1>2. Table!Spec => []TableTypeOK
    BY <1>1, TableInitial, TableInductive, PTL DEF Table!Spec
  <1>3. TableTypeOK /\ QueueMatchesMap => TableIsSound
    BY DEF TableIsSound
  <1>4. QED
    BY <1>2, <1>3, QueueNeverDrifts, PTL

-----------------------------------------------------------------------------
\* What one step may forget.
LEMMA PinsStep ==
    ASSUME TableInv, [Table!Next]_(Table!vars), NEW k \in Keys,
           entry[k].st = "unknown", entry'[k].st = "unset"
    PROVE  /\ Table!Full
           /\ \A q \in Keys : entry[q].st # "done"
           /\ \A q \in Keys :
                 entry[q].st = "unknown" /\ entry'[q].st = "unset" => q = k
  <1>1. PICK q \in Keys, fp \in Fingerprints : Table!Claim(q, fp)
    <2>1. k \notin owed /\ entry \in [Keys -> Table!Entries] /\ owed \subseteq Keys
      BY DEF TableInv, Table!TypeOK, Table!TableTypeOK, Table!InFlightIffOwed
    <2>2. ~UNCHANGED entry
      OBVIOUS
    <2>3. \A q \in Keys, v \in Values : ~Table!Complete(q, v)
      BY <2>1 DEF Table!Complete, Table!SettleDone
    <2>4. \A q \in Keys : ~Table!Pin(q)
      BY <2>1 DEF Table!Pin, Table!SettleUnknown
    <2>5. \A q \in Keys : ~Table!Abandon(q)
      BY <2>1, <2>2 DEF Table!Abandon, Table!Release, Table!tableVars
    <2>6. QED
      BY <2>2, <2>3, <2>4, <2>5 DEF Table!Next, Table!vars, Table!Repeat
  <1>2. /\ entry' = [Table!EntryAfterEvict EXCEPT ![q] = Table!InFlight(fp)]
        /\ DOMAIN Table!EntryAfterEvict = Keys
    BY <1>1 DEF Table!Claim, Table!ReserveFresh, Table!EntryAfterEvict
  <1>3. \A p \in Keys : entry[p].st = "unknown" /\ entry'[p].st = "unset"
                         => p \in Table!EvictedKeys
    BY <1>2 DEF Table!EntryAfterEvict, Table!InFlight
  <1>4. PICK i \in Table!Victims : order[i] = k
    BY <1>3 DEF Table!EvictedKeys
  <1>5. Table!EvictedKeys = {k}
    BY <1>4, OneVictim DEF Table!EvictedKeys
  <1>6. Table!Full /\ i \in DOMAIN order /\ Table!IsVictim(i)
    BY <1>4 DEF Table!Victims
  <1>7. \A j \in DOMAIN order : entry[order[j]].st # "done"
    BY <1>4, <1>6 DEF Table!IsVictim, Table!OldestWith
  <1>8. \A p \in Keys : entry[p].st # "done"
    BY <1>7 DEF TableInv, Table!QueueMatchesMap, Table!Held
  <1>9. QED
    BY <1>3, <1>5, <1>6, <1>8

\* An unknown pin, the record that guards against a double send, is forgotten
\* only by a full table that holds no completed key, one pin at a time.
THEOREM PinsAreForgottenLast == Table!Spec => PinsOutliveReplays
  <1> DEFINE A == \A k \in Keys :
         entry[k].st = "unknown" /\ entry'[k].st = "unset" =>
           /\ Full
           /\ \A q \in Keys : entry[q].st # "done"
           /\ \A q \in Keys : entry[q].st = "unknown" /\ entry'[q].st = "unset"
                               => q = k
  <1>1. TableInv /\ [Table!Next]_(Table!vars) => [A]_tableVars
    BY PinsStep DEF Table!Full, Full
  <1>2. QED
    BY <1>1, TableInitial, TableInductive, PTL DEF Table!Spec, PinsOutliveReplays

\* What becomes of a claim in one step: it stays, its owner settles it, or its
\* owner releases it, which shortens the queue and touches no other key.
LEMMA ClaimStep ==
    ASSUME TableInv, [Table!Next]_(Table!vars), NEW k \in Keys,
           entry[k].st = "in_flight", entry'[k].st = "unset"
    PROVE  /\ Len(order') < Len(order)
           /\ \A q \in Keys \ {k} : entry'[q] = entry[q]
  <1>1. /\ entry \in [Keys -> Table!Entries]
        /\ order \in Seq(Keys) /\ Len(order) \in Nat
    BY DEF TableInv, Table!TypeOK, Table!TableTypeOK
  <1>2. entry' # entry
    OBVIOUS
  <1>3. ASSUME NEW q \in Keys, NEW fp \in Fingerprints, Table!Claim(q, fp)
        PROVE  FALSE
    <2>1. /\ entry' = [Table!EntryAfterEvict EXCEPT ![q] = Table!InFlight(fp)]
          /\ DOMAIN Table!EntryAfterEvict = Keys
      BY <1>3 DEF Table!Claim, Table!ReserveFresh, Table!EntryAfterEvict
    <2>2. k # q
      BY <2>1 DEF Table!InFlight
    <2>3. PICK i \in Table!Victims : order[i] = k
      BY <2>1, <2>2 DEF Table!EntryAfterEvict, Table!EvictedKeys
    <2>4. QED
      BY <2>3, OneVictim
  <1>4. ASSUME NEW q \in Keys, NEW v \in Values, Table!Complete(q, v)
        PROVE  FALSE
    BY <1>1, <1>4 DEF Table!Complete, Table!SettleDone, Table!Recorded
  <1>5. ASSUME NEW q \in Keys, Table!Pin(q)
        PROVE  FALSE
    BY <1>1, <1>5 DEF Table!Pin, Table!SettleUnknown, Table!Recorded
  <1>6. PICK q \in Keys : Table!Abandon(q)
    BY <1>2, <1>3, <1>4, <1>5 DEF Table!Next, Table!vars, Table!Repeat
  <1>7. /\ entry' = [entry EXCEPT ![q] = Table!Unset]
        /\ \E i \in DOMAIN order : order' = Table!RemoveAt(order, i)
    BY <1>2, <1>6 DEF Table!Abandon, Table!Release, Table!tableVars
  <1>8. Len(order') = Len(order) - 1
    BY <1>1, <1>7, RemoveAtFacts
  <1>9. q = k
    BY <1>1, <1>7
  <1>10. QED
    BY <1>1, <1>7, <1>8, <1>9

\* No claim is ever evicted, for any keys, threads and cap (evict_if_full).
THEOREM ClaimsStay == Table!Spec => ClaimsAreNeverEvicted
  <1> DEFINE A == \A k \in Keys :
         entry[k].st = "in_flight" /\ entry'[k].st = "unset" =>
           /\ Len(order') < Len(order)
           /\ \A q \in Keys \ {k} : entry'[q] = entry[q]
  <1>1. TableInv /\ [Table!Next]_(Table!vars) => [A]_tableVars
    BY ClaimStep
  <1>2. QED
    BY <1>1, TableInitial, TableInductive, PTL DEF Table!Spec, ClaimsAreNeverEvicted

\* A full table with a settled key has a victim.
LEMMA SomeVictim ==
    ASSUME TableInv, Table!Full, NEW k \in Table!Held, entry[k].st # "in_flight"
    PROVE  Table!Victims # {}
  <1> DEFINE At(st) == {i \in DOMAIN order : entry[order[i]].st = st}
  <1>1. /\ DOMAIN order \subseteq Nat \ {0}
        /\ \A i \in DOMAIN order : 1..(i - 1) \subseteq DOMAIN order
    BY DEF TableInv, Table!TypeOK, Table!TableTypeOK
  <1>2. ASSUME NEW st, At(st) # {}
        PROVE  \E i \in DOMAIN order : Table!OldestWith(st, i)
    <2>1. At(st) \subseteq Nat
      BY <1>1
    <2>2. PICK i \in At(st) : \A j \in At(st) : i <= j
      BY <2>1, <1>2, LeastMember
    <2>3. \A j \in 1..(i - 1) : j \in DOMAIN order /\ ~(i <= j)
      BY <1>1
    <2>4. QED
      BY <2>2, <2>3 DEF Table!OldestWith
  <1>3. At("done") # {} \/ At("unknown") # {}
    <2>1. PICK i \in DOMAIN order : order[i] = k
      BY DEF TableInv, Table!QueueMatchesMap
    <2>2. entry[k].st \in {"done", "unknown"}
      BY DEF TableInv, Table!TypeOK, Table!TableTypeOK, Table!Entries, Table!Held
    <2>3. QED
      BY <2>1, <2>2
  <1>4. CASE At("done") # {}
    BY <1>2, <1>4 DEF Table!Victims, Table!IsVictim
  <1>5. CASE At("done") = {}
    BY <1>2, <1>3, <1>5 DEF Table!Victims, Table!IsVictim
  <1>6. QED
    BY <1>4, <1>5

\* Only a claim lengthens the queue, and past the cap only if no recorded
\* key is settled: evict_if_full would have made room.
LEMMA GrowthStep ==
    ASSUME TableInv, [Table!Next]_(Table!vars), Len(order') > Len(order), Len(order) >= MaxKeys
    PROVE  \A k \in Table!Held : entry[k].st = "in_flight"
  <1>0. order \in Seq(Keys) /\ Len(order) \in Nat
    BY DEF TableInv, Table!TypeOK, Table!TableTypeOK
  <1>1. PICK q \in Keys, fp \in Fingerprints : Table!Claim(q, fp)
    <2>1. ~UNCHANGED order
      BY <1>0
    <2>2. ASSUME NEW k \in Keys, Table!Abandon(k)
          PROVE  FALSE
      <3>1. PICK i \in DOMAIN order : order' = Table!RemoveAt(order, i)
        BY <2>1, <2>2 DEF Table!Abandon, Table!Release, Table!tableVars
      <3>2. Len(order') = Len(order) - 1
        BY <1>0, <3>1, RemoveAtFacts
      <3>3. QED
        BY <1>0, <3>2
    <2>3. QED
      BY <2>1, <2>2
         DEF Table!Next, Table!vars, Table!Repeat, Table!Complete, Table!Pin, Table!SettleDone, Table!SettleUnknown
  <1>2. SUFFICES ASSUME NEW k \in Table!Held, entry[k].st # "in_flight"
                 PROVE  FALSE
    OBVIOUS
  <1>3. Table!Victims # {}
    BY <1>2, SomeVictim DEF Table!Full
  <1>4. PICK i \in DOMAIN order : Table!OrderAfterEvict = Table!RemoveAt(order, i)
    <2>1. (CHOOSE i \in Table!Victims : TRUE) \in Table!Victims
      BY <1>3
    <2>2. QED
      BY <1>3, <2>1 DEF Table!OrderAfterEvict, Table!Victims
  <1>5. /\ Table!OrderAfterEvict \in Seq(Keys)
        /\ Len(Table!OrderAfterEvict) = Len(order) - 1
    BY <1>0, <1>4, RemoveAtFacts
  <1>6. order' = Append(Table!OrderAfterEvict, q)
    BY <1>1 DEF Table!Claim, Table!ReserveFresh
  <1>7. QED
    BY <1>0, <1>5, <1>6

\* Eviction is orderly for any keys and any cap: no claim is evicted, the
\* table outgrows its cap only while every recorded key is in flight, and a
\* pin goes last.
THEOREM EvictionStaysOrderly == Table!Spec => EvictionIsOrderly
  <1> DEFINE A == Len(order') > Len(order) /\ Len(order) >= MaxKeys
                    => \A k \in Held : entry[k].st = "in_flight"
  <1>1. TableInv /\ [Table!Next]_(Table!vars) => [A]_tableVars
    BY GrowthStep DEF Table!Held, Held
  <1>2. Table!Spec => GrowsOnlyWhenAllInFlight
    BY <1>1, TableInitial, TableInductive, PTL DEF Table!Spec, GrowsOnlyWhenAllInFlight
  <1>3. QED
    BY <1>2, PinsAreForgottenLast, ClaimsStay DEF EvictionIsOrderly

\* A settled outcome never changes until it is evicted, so every replay of a
\* key answers with the result the first attempt recorded.
THEOREM SettledIsFinal == Table!Spec => OutcomesAreFinal
  <1> DEFINE A == \A k \in Keys :
         entry[k].st \in {"done", "unknown"} => entry'[k] \in {entry[k], Unset}
  <1>0. Table!Unset = Unset
    BY DEF Table!Unset, Unset
  <1>1. ASSUME TableInv, Table!Next PROVE A
    <2>1. /\ entry \in [Keys -> Table!Entries]
          /\ \A k \in owed : entry[k].st = "in_flight"
      BY <1>1 DEF TableInv, Table!TypeOK, Table!TableTypeOK, Table!InFlightIffOwed
    <2>2. ASSUME NEW q \in Keys, NEW fp \in Fingerprints, Table!Claim(q, fp)
          PROVE  A
      <3>1. entry[q].st = "unset" /\ entry' = [Table!EntryAfterEvict EXCEPT ![q] = Table!InFlight(fp)]
        BY <2>1, <2>2 DEF Table!Claim, Table!ReserveFresh, Table!ReserveVerdict, Table!Entries
      <3>2. \A k \in Keys : k # q => entry'[k] \in {entry[k], Table!Unset}
        BY <3>1 DEF Table!EntryAfterEvict
      <3>3. QED
        BY <1>0, <3>1, <3>2
    <2>3. ASSUME NEW q \in Keys, NEW fp \in Fingerprints, Table!Repeat(q, fp)
          PROVE  A
      BY <2>3 DEF Table!Repeat, Table!vars
    <2>4. ASSUME NEW q \in Keys, NEW v \in Values, Table!Complete(q, v)
          PROVE  A
      BY <2>1, <2>4 DEF Table!Complete, Table!SettleDone
    <2>5. ASSUME NEW q \in Keys, Table!Pin(q)
          PROVE  A
      BY <2>1, <2>5 DEF Table!Pin, Table!SettleUnknown
    <2>6. ASSUME NEW q \in Keys, Table!Abandon(q)
          PROVE  A
      BY <2>1, <2>6 DEF Table!Abandon, Table!Release, Table!tableVars
    <2>7. QED
      BY <1>1, <2>2, <2>3, <2>4, <2>5, <2>6 DEF Table!Next
  <1>2. TableInv /\ [Table!Next]_(Table!vars) => [A]_tableVars
    BY <1>1 DEF Table!vars, tableVars
  <1>3. QED
    BY <1>2, TableInitial, TableInductive, PTL DEF Table!Spec, OutcomesAreFinal

-----------------------------------------------------------------------------
(***************************************************************************)
(* The calls of the server are such threads: what KeyTable assumes of them *)
(* holds of the calls of ToolCall, with the owners of the claims in place  *)
(* of the threads that owe an ending.                                      *)
(***************************************************************************)
OwnedKeys == {KeyOf[c] : c \in {d \in Calls : Owner(d)}}

Driven == INSTANCE KeyTable WITH owed <- OwnedKeys

\* Both instances of Idempotency say the same of the table.
LEMMA SameTable ==
    /\ Driven!Unset = Unset /\ \A fp : Driven!InFlight(fp) = InFlight(fp)
    /\ \A k, st, v : Driven!Recorded(k, st, v) = Recorded(k, st, v)
    /\ Driven!OrderAfterEvict = OrderAfterEvict /\ Driven!EntryAfterEvict = EntryAfterEvict
    /\ \A k, fp : Driven!ReserveVerdict(k, fp) = ReserveVerdict(k, fp)
  <1>1. Driven!Unset = Unset /\ \A fp : Driven!InFlight(fp) = InFlight(fp)
    BY DEF Driven!Unset, Unset, Driven!InFlight, InFlight
  <1>2. \A k, st, v : Driven!Recorded(k, st, v) = Recorded(k, st, v)
    BY DEF Driven!Recorded, Recorded
  <1>3. Driven!Victims = Victims
    BY DEF Driven!Victims, Victims, Driven!Full, Full, Driven!IsVictim, IsVictim, Driven!OldestWith, OldestWith
  <1>4. \A s, i : Driven!RemoveAt(s, i) = RemoveAt(s, i)
    BY DEF Driven!RemoveAt, RemoveAt
  <1>5. Driven!OrderAfterEvict = OrderAfterEvict
    BY <1>3, <1>4 DEF Driven!OrderAfterEvict, OrderAfterEvict
  <1>6. Driven!EntryAfterEvict = EntryAfterEvict
    BY <1>1, <1>3 DEF Driven!EntryAfterEvict, EntryAfterEvict, Driven!EvictedKeys, EvictedKeys
  <1>7. \A k, fp : Driven!ReserveVerdict(k, fp) = ReserveVerdict(k, fp)
    BY DEF Driven!ReserveVerdict, ReserveVerdict
  <1>8. QED
    BY <1>1, <1>2, <1>5, <1>6, <1>7

\* A step inside a call, or of a call without a key, moves no claim.
LEMMA OwnersStay ==
    ASSUME IInv, NEW c \in Calls, NEW from, NEW to, Goes(c, from, to),
           ~Keyed(c) \/ (from \in {"idle", "done"} <=> to \in {"idle", "done"}), to \in PcStates
    PROVE  OwnedKeys' = OwnedKeys
  <1>1. \A d \in Calls : d # c => pc'[d] = pc[d]
    BY DEF Goes, IInv, Typed
  <1>2. pc[c] = from /\ pc'[c] = to /\ from \in PcStates
    BY DEF Goes, IInv, Typed
  <1>3. \A d \in Calls : Owner(d)' <=> Owner(d)
    BY <1>1, <1>2 DEF Owner, Keyed
  <1>4. QED
    BY <1>3 DEF OwnedKeys

\* A step that leaves the table and the claims alone is none of KeyTable's.
LEMMA QuietForTheTable ==
    ASSUME IInv, NEW c \in Calls, CallStep(c), ~StartFresh(c), ~(Finish(c) /\ Keyed(c))
    PROVE  UNCHANGED Driven!vars
  <1>1. UNCHANGED tableVars
    BY DEF CallStep, StartUnkeyed, StartRecorded, Get, SpawnFails, FirstReturns, ReplayReturns, Returned,
           Recycle, Finish
  <1>2. PICK from, to : /\ Goes(c, from, to) /\ to \in PcStates
                        /\ ~Keyed(c) \/ (from \in {"idle", "done"} <=> to \in {"idle", "done"})
    <2>1. CASE StartUnkeyed(c)
      BY <2>1 DEF StartUnkeyed, PcStates
    <2>2. CASE StartRecorded(c)
      BY <2>2 DEF StartRecorded, PcStates
    <2>3. CASE Get(c)
      BY <2>3 DEF Get, PcStates
    <2>4. CASE SpawnFails(c)
      BY <2>4 DEF SpawnFails, PcStates
    <2>5. ASSUME NEW o \in Bridge!Outcomes, FirstReturns(c, o)
          PROVE  \E from, to : /\ Goes(c, from, to) /\ to \in PcStates
                               /\ (from \in {"idle", "done"} <=> to \in {"idle", "done"})
      <3>1. Goes(c, "call", "recycle") \/ Goes(c, "call", "end")
        BY <2>5 DEF FirstReturns
      <3>2. QED
        BY <3>1 DEF PcStates
    <2>6. ASSUME NEW o \in Bridge!Outcomes, ReplayReturns(c, o)
          PROVE  \E from, to : /\ Goes(c, from, to) /\ to \in PcStates
                               /\ (from \in {"idle", "done"} <=> to \in {"idle", "done"})
      BY <2>6 DEF ReplayReturns, PcStates
    <2>7. CASE Recycle(c)
      <3>1. Goes(c, "recycle", "reget") \/ Goes(c, "recycle", "end")
        BY <2>7 DEF Recycle
      <3>2. QED
        BY <3>1 DEF PcStates
    <2>8. CASE Finish(c) /\ ~Keyed(c)
      BY <2>8 DEF Finish, PcStates
    <2>9. QED
      BY <2>1, <2>2, <2>3, <2>4, <2>5, <2>6, <2>7, <2>8 DEF CallStep
  <1>3. OwnedKeys' = OwnedKeys
    BY <1>2, OwnersStay
  <1>4. QED
    BY <1>1, <1>3 DEF Driven!vars, tableVars

LEMMA ClaimIsTheTables ==
    ASSUME IInv, NEW c \in Calls, StartFresh(c)
    PROVE  Driven!Next
  <1> DEFINE k == KeyOf[c]
             fp == FpOf[c]
  <1>1. k \in Keys /\ fp \in Fingerprints
    BY ToolCallAssumption DEF StartFresh, Keyed
  <1>2. Goes(c, "idle", "get") /\ ReserveFresh(k, fp) /\ Keyed(c)
    BY DEF StartFresh
  <1>3. Driven!ReserveFresh(k, fp)
    BY <1>2, SameTable DEF ReserveFresh, Driven!ReserveFresh
  <1>4. pc'[c] = "get" /\ pc[c] = "idle" /\ \A d \in Calls : d # c => pc'[d] = pc[d]
    BY <1>2 DEF Goes, IInv, Typed
  <1>5. Owner(c)' /\ ~Owner(c) /\ \A d \in Calls : d # c => (Owner(d)' <=> Owner(d))
    BY <1>2, <1>4 DEF Owner, Keyed, PcStates
  <1>6. OwnedKeys' = OwnedKeys \cup {k}
    BY <1>5 DEF OwnedKeys
  <1>7. Driven!Claim(k, fp)
    BY <1>3, <1>6 DEF Driven!Claim
  <1>8. QED
    BY <1>1, <1>7 DEF Driven!Next

\* The call ends its claim by the one operation its outcome calls for.
LEMMA EndIsTheTables ==
    ASSUME IInv, NEW c \in Calls, Finish(c), Keyed(c)
    PROVE  Driven!Next
  <1> DEFINE k == KeyOf[c]
  <1>1. k \in Keys
    BY ToolCallAssumption DEF Keyed
  <1>2. Goes(c, "end", "done")
    BY DEF Finish
  <1>3. pc'[c] = "done" /\ pc[c] = "end" /\ \A d \in Calls : d # c => pc'[d] = pc[d]
    BY <1>2 DEF Goes, IInv, Typed
  <1>4. ~Owner(c)' /\ Owner(c) /\ \A d \in Calls : d # c => (Owner(d)' <=> Owner(d))
    BY <1>3 DEF Owner, Keyed, PcStates
  <1>5. \A d \in Calls : d # c /\ Owner(d) => KeyOf[d] # k
    BY <1>1, <1>4 DEF IInv, ClaimsHaveOneOwner
  <1>6. k \in OwnedKeys /\ OwnedKeys' = OwnedKeys \ {k}
    BY <1>4, <1>5 DEF OwnedKeys
  <1>7. CASE SettleDone(k, c)
    <2>1. Driven!Complete(k, c) /\ c \in Values
      BY <1>6, <1>7, SameTable, ToolCallAssumption DEF SettleDone, Driven!SettleDone, Driven!Complete
    <2>2. QED
      BY <1>1, <2>1 DEF Driven!Next
  <1>8. CASE SettleUnknown(k)
    <2>1. Driven!Pin(k)
      BY <1>6, <1>8, SameTable DEF SettleUnknown, Driven!SettleUnknown, Driven!Pin
    <2>2. QED
      BY <1>1, <2>1 DEF Driven!Next
  <1>9. CASE Release(k)
    <2>1. \A s, i : Driven!RemoveAt(s, i) = RemoveAt(s, i)
      BY DEF Driven!RemoveAt, RemoveAt
    <2>2. Driven!Release(k)
      BY <1>9, <2>1, SameTable DEF Release, Driven!Release, tableVars, Driven!tableVars
    <2>3. Driven!Abandon(k)
      BY <1>6, <2>2 DEF Driven!Abandon
    <2>4. QED
      BY <1>1, <2>3 DEF Driven!Next
  <1>10. QED
    BY <1>7, <1>8, <1>9 DEF Finish

\* The calls of the server drive the table as KeyTable has its threads do: a
\* claim is ended exactly once, by the call that made it, and what becomes of
\* the call between the two is invisible to the table (run_tool_idempotent).
THEOREM CallsDriveTheTable == Spec => Driven!Spec
  <1>1. Init => Driven!Init
    <2> SUFFICES ASSUME Init PROVE Driven!Init
      OBVIOUS
    <2>1. Driven!TableInit
      BY DEF Init, TableInit, Driven!TableInit, Driven!Unset, Unset
    <2>2. OwnedKeys = {}
      BY DEF Init, OwnedKeys, Owner
    <2>3. QED
      BY <2>1, <2>2 DEF Driven!Init
  <1>2. IInv /\ [Next]_vars => [Driven!Next]_(Driven!vars)
    <2> SUFFICES ASSUME IInv, [Next]_vars PROVE [Driven!Next]_(Driven!vars)
      OBVIOUS
    <2>1. ASSUME UNCHANGED <<tableVars, pc>>
          PROVE  UNCHANGED Driven!vars
      BY <2>1 DEF Driven!vars, tableVars, OwnedKeys, Owner, Keyed
    <2>2. CASE UNCHANGED vars
      BY <2>1, <2>2 DEF vars, callVars
    <2>3. ASSUME NEW a \in Attempts, Execute(a)
          PROVE  UNCHANGED Driven!vars
      BY <2>1, <2>3 DEF Execute, callVars
    <2>4. ASSUME NEW g \in alive, HelperDies(g)
          PROVE  UNCHANGED Driven!vars
      BY <2>1, <2>4 DEF HelperDies, callVars
    <2>5. ASSUME NEW c \in Calls, CallStep(c)
          PROVE  [Driven!Next]_(Driven!vars)
      BY <2>5, QuietForTheTable, ClaimIsTheTables, EndIsTheTables
    <2>6. QED
      BY <2>2, <2>3, <2>4, <2>5 DEF Next
  <1>3. QED
    BY <1>1, <1>2, Invariant, PTL DEF Spec, Driven!Spec

=============================================================================
