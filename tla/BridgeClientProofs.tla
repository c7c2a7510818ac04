-------------------------- MODULE BridgeClientProofs --------------------------
(***************************************************************************)
(* Proofs about BridgeClient, for any number of request threads, any set   *)
(* of recyclers and any set of large requests.                             *)
(*                                                                         *)
(* OutcomeIsHonest is not inductive: a response is honest long before it   *)
(* is returned.  The invariant follows it along its way, from the helper   *)
(* (NeverTwice, Fresh) through the pipe and the channel (PipeIsHonest,     *)
(* ChannelIsHonest) to the caller, and records what the end of the process *)
(* implies (DeathIsFinal).                                                 *)
(***************************************************************************)
EXTENDS BridgeClient, SequenceTheorems, TLAPS

\* A request that was not written is nowhere in the helper, and nobody speaks
\* of it yet.
Fresh ==
    \A c \in Callers : pc[c] \in {"start", "lock", "write", "unpend"} =>
        /\ c \notin ran /\ ~MayStillRun(c)
        /\ chan[c] \in {"none", "helper_exited"}
        /\ pc[c] = "start" => chan[c] = "none" /\ c \notin failing
        /\ \A i \in DOMAIN fromHelper : fromHelper[i].to # c

\* A word about c that the present state justifies and no later one refutes.
Justified(c, says) ==
    /\ says = "ok" => c \in ran
    /\ says = "error" => c \notin ran /\ ~MayStillRun(c)
    /\ says = "helper_exited" => ~up

PipeIsHonest ==
    \A i \in DOMAIN fromHelper : Justified(fromHelper[i].to, fromHelper[i].says)

ChannelIsHonest ==
    \A c \in Callers : Justified(c, chan[c])

\* What the end of the process implies, and how the host learns of it.
DeathIsFinal ==
    /\ ~up => toHelper = << >> /\ busy = NoCaller /\ late = {}
    /\ ~child => ~up
    /\ reader # "reading" => ~up

IInv ==
    /\ TypeOK
    /\ NeverTwice
    /\ Fresh
    /\ PipeIsHonest
    /\ ChannelIsHonest
    /\ DeathIsFinal
    /\ OutcomeIsHonest
    /\ NoStrandedWaiter
    /\ PendingIsExact


-----------------------------------------------------------------------------
(* Queues.                                                                   *)

\* Writing a line adds its request to the queued ones.
LEMMA QueuedAfterAppend ==
  ASSUME toHelper \in Seq(Callers), NEW c \in Callers, toHelper' = Append(toHelper, c)
  PROVE  Queued' = Queued \cup {c} /\ toHelper' \in Seq(Callers)
  BY DEF Queued

\* An empty pipe queues nothing.
LEMMA QueuedWhenEmpty ==
  ASSUME toHelper' = << >>
  PROVE  Queued' = {} /\ toHelper' \in Seq(Callers)
  BY DEF Queued

\* After a response line m is written the pipe holds m and what it held.
LEMMA PipeAfterAppend ==
  ASSUME NEW m \in [to : Callers, says : Replies],
         fromHelper \in Seq([to : Callers, says : Replies]),
         fromHelper' = Append(fromHelper, m)
  PROVE  /\ fromHelper' \in Seq([to : Callers, says : Replies])
         /\ \A i \in DOMAIN fromHelper' :
              \/ fromHelper'[i] = m
              \/ i \in DOMAIN fromHelper /\ fromHelper'[i] = fromHelper[i]
  OBVIOUS

\* A response line answers one of the requests.
LEMMA PipeElement ==
  ASSUME fromHelper \in Seq([to : Callers, says : Replies]), NEW i \in DOMAIN fromHelper
  PROVE  fromHelper[i].to \in Callers /\ fromHelper[i].says \in Replies
  <1>1. fromHelper[i] \in [to : Callers, says : Replies]
    BY ElementOfSeq, LenProperties
  <1> QED
    BY <1>1

\* Reading a response line leaves the lines behind it.
LEMMA PipeAfterTail ==
  ASSUME fromHelper \in Seq([to : Callers, says : Replies]),
         fromHelper # << >>,
         fromHelper' = Tail(fromHelper)
  PROVE  /\ Message \in [to : Callers, says : Replies]
         /\ 1 \in DOMAIN fromHelper /\ fromHelper[1] = Message
         /\ fromHelper' \in Seq([to : Callers, says : Replies])
         /\ \A i \in DOMAIN fromHelper' :
              i + 1 \in DOMAIN fromHelper /\ fromHelper'[i] = fromHelper[i + 1]
  <1>1. Len(fromHelper) \in Nat \ {0} /\ DOMAIN fromHelper = 1..Len(fromHelper)
    BY EmptySeq, LenProperties
  <1>2. /\ Message \in [to : Callers, says : Replies]
        /\ fromHelper' \in Seq([to : Callers, says : Replies])
        /\ Len(fromHelper') = Len(fromHelper) - 1
        /\ \A i \in 1..Len(fromHelper') : fromHelper'[i] = fromHelper[i + 1]
    BY HeadTailProperties DEF Message
  <1>3. DOMAIN fromHelper' = 1..Len(fromHelper')
    BY <1>2, LenProperties
  <1>4. fromHelper[1] = Message
    BY DEF Message
  <1> QED
    BY <1>1, <1>2, <1>3, <1>4

-----------------------------------------------------------------------------
(* The invariant.                                                            *)

\* A dead process executes nothing any more.
LEMMA AfterDeath ==
  ASSUME IInv, ProcessEnds
  PROVE  /\ Queued' = {} /\ toHelper' \in Seq(Callers)
         /\ \A c \in Callers : ~MayStillRun(c)'
         /\ PipeIsHonest'
  <1>1. Queued' = {} /\ toHelper' \in Seq(Callers)
    BY QueuedWhenEmpty DEF ProcessEnds
  <1>2. \A c \in Callers : ~MayStillRun(c)'
    BY <1>1, BridgeAssumption DEF ProcessEnds, MayStillRun
  <1>3. \A i \in DOMAIN fromHelper : fromHelper[i].to \in Callers
    BY PipeElement DEF IInv, TypeOK
  <1>4. PipeIsHonest'
    BY <1>2, <1>3 DEF IInv, TypeOK, PipeIsHonest, Justified, ProcessEnds, Replies
  <1> QED
    BY <1>1, <1>2, <1>4

\* A fresh bridge satisfies the invariant.
LEMMA Initial == Init => IInv
  BY BridgeAssumption, QueuedWhenEmpty
     DEF Init, IInv, TypeOK, NeverTwice, Fresh, PipeIsHonest, ChannelIsHonest,
         DeathIsFinal, OutcomeIsHonest, NoStrandedWaiter, PendingIsExact,
           Justified, MayStillRun, Queued, PcStates, Replies, Failures

\* Every step preserves the invariant.
LEMMA Inductive == IInv /\ [Next]_vars => IInv'
<1> SUFFICES ASSUME IInv, [Next]_vars PROVE IInv'
  OBVIOUS
<1> USE BridgeAssumption DEF IInv
<1>1. ASSUME NEW c \in Callers, Register(c) PROVE IInv'
  <2>1. TypeOK' /\ NeverTwice' /\ DeathIsFinal' /\ OutcomeIsHonest'
    BY <1>1
       DEF Register, TypeOK, NeverTwice, DeathIsFinal, OutcomeIsHonest, MayStillRun,
           Queued, At, PcStates, helperVars
  <2>2. Fresh' /\ PipeIsHonest' /\ ChannelIsHonest'
    BY <1>1
       DEF Register, TypeOK, Fresh, PipeIsHonest, ChannelIsHonest, Justified,
           MayStillRun, Queued, At, helperVars
  <2>3. NoStrandedWaiter' /\ PendingIsExact'
    BY <1>1
       DEF Register, TypeOK, Fresh, NoStrandedWaiter, PendingIsExact,
           At
  <2> QED
    BY <2>1, <2>2, <2>3
<1>2. ASSUME NEW c \in Callers, LockStdin(c) PROVE IInv'
  <2>1. TypeOK'
    BY <1>2 DEF LockStdin, TypeOK, PcStates, At, helperVars
  <2>2. NeverTwice' /\ DeathIsFinal'
    BY <1>2 DEF LockStdin, NeverTwice, DeathIsFinal, Queued, helperVars
  <2>6. OutcomeIsHonest'
    BY <1>2 DEF LockStdin, OutcomeIsHonest, MayStillRun, Queued, helperVars
  <2>3. Fresh' /\ ChannelIsHonest'
    BY <1>2
       DEF LockStdin, TypeOK, Fresh, ChannelIsHonest, DeathIsFinal, Justified,
           MayStillRun, Queued, At, helperVars
  <2>4. PipeIsHonest'
    BY <1>2
       DEF LockStdin, TypeOK, PipeIsHonest, Justified, MayStillRun, Queued, At,
           helperVars
  <2>5. NoStrandedWaiter' /\ PendingIsExact'
    BY <1>2
       DEF LockStdin, TypeOK, Fresh, NoStrandedWaiter, PendingIsExact,
           DeathIsFinal, At, helperVars
  <2> QED
    BY <2>1, <2>2, <2>3, <2>4, <2>5, <2>6
<1>3. ASSUME NEW c \in Callers, WriteLine(c) PROVE IInv'
  <2>1. Queued' = Queued \cup {c} /\ toHelper' \in Seq(Callers)
    BY <1>3, QueuedAfterAppend DEF WriteLine, TypeOK
  <2>2. c \notin Queued /\ c # busy /\ c \notin late /\ c \notin ran
    BY <1>3 DEF WriteLine, At, Fresh, MayStillRun
  <2>3. TypeOK'
    BY <1>3, <2>1 DEF WriteLine, TypeOK, At, PcStates
  <2>4. \A i, j \in DOMAIN toHelper' : toHelper'[i] = toHelper'[j] => i = j
    BY <1>3, <2>2 DEF WriteLine, TypeOK, NeverTwice, Queued
  <2>5. NeverTwice'
    BY <1>3, <2>1, <2>2, <2>4 DEF WriteLine, NeverTwice
  <2>6. Fresh' /\ ChannelIsHonest' /\ PipeIsHonest'
    BY <1>3, <2>1
       DEF WriteLine, TypeOK, Fresh, ChannelIsHonest, PipeIsHonest, Justified,
           MayStillRun, At
  <2>7. OutcomeIsHonest'
    BY <1>3, <2>1 DEF WriteLine, TypeOK, OutcomeIsHonest, MayStillRun, At
  <2>8. DeathIsFinal' /\ NoStrandedWaiter' /\ PendingIsExact'
    BY <1>3
       DEF WriteLine, TypeOK, DeathIsFinal, NoStrandedWaiter, PendingIsExact,
           At
  <2> QED
    BY <2>3, <2>5, <2>6, <2>7, <2>8
<1>4. ASSUME NEW c \in Callers, WriteFails(c) PROVE IInv'
  <2>1. TypeOK'
    BY <1>4 DEF WriteFails, TypeOK, PcStates, At, helperVars
  <2>2. NeverTwice' /\ DeathIsFinal' /\ OutcomeIsHonest'
    BY <1>4
       DEF WriteFails, TypeOK, NeverTwice, Fresh, DeathIsFinal, OutcomeIsHonest,
           MayStillRun, Queued, At, helperVars
  <2>3. Fresh' /\ ChannelIsHonest'
    BY <1>4
       DEF WriteFails, TypeOK, Fresh, ChannelIsHonest, DeathIsFinal, Justified,
           MayStillRun, Queued, At, helperVars
  <2>4. PipeIsHonest'
    BY <1>4
       DEF WriteFails, TypeOK, PipeIsHonest, Justified, MayStillRun, Queued, At,
           helperVars
  <2>5. NoStrandedWaiter' /\ PendingIsExact'
    BY <1>4
       DEF WriteFails, TypeOK, Fresh, NoStrandedWaiter, PendingIsExact,
           DeathIsFinal, At, helperVars
  <2> QED
    BY <2>1, <2>2, <2>3, <2>4, <2>5
<1>5. ASSUME NEW c \in Callers, Unpend(c) PROVE IInv'
  <2>1. TypeOK'
    BY <1>5 DEF Unpend, TypeOK, PcStates, Returns, At, Failures, helperVars
  <2>2. NeverTwice' /\ DeathIsFinal' /\ OutcomeIsHonest'
    BY <1>5
       DEF Unpend, TypeOK, NeverTwice, Fresh, DeathIsFinal, OutcomeIsHonest,
           MayStillRun, Queued, Returns, At, Failures, helperVars
  <2>3. Fresh' /\ ChannelIsHonest'
    BY <1>5
       DEF Unpend, TypeOK, Fresh, ChannelIsHonest, DeathIsFinal, Justified,
           MayStillRun, Queued, Returns, At, Failures, helperVars
  <2>4. PipeIsHonest'
    BY <1>5
       DEF Unpend, TypeOK, PipeIsHonest, Justified, MayStillRun, Queued, Returns,
           At, Failures, helperVars
  <2>5. NoStrandedWaiter' /\ PendingIsExact'
    BY <1>5
       DEF Unpend, TypeOK, Fresh, NoStrandedWaiter, PendingIsExact,
           DeathIsFinal, Returns, At, Failures, helperVars
  <2> QED
    BY <2>1, <2>2, <2>3, <2>4, <2>5
<1>6. ASSUME NEW c \in Callers, Receive(c) PROVE IInv'
  <2>1. TypeOK'
    <3>1. pc' = [pc EXCEPT ![c] = "recycle"] \/ pc' = [pc EXCEPT ![c] = "done"]
      BY <1>6 DEF Receive, Returns, At
    <3> QED
      BY <1>6, <3>1 DEF Receive, TypeOK, Returns, PcStates, Failures, Replies, helperVars
  <2>5. NeverTwice' /\ DeathIsFinal'
    BY <1>6 DEF Receive, NeverTwice, DeathIsFinal, Queued, helperVars
  <2>2. OutcomeIsHonest'
    BY <1>6
       DEF Receive, TypeOK, ChannelIsHonest, OutcomeIsHonest, Justified,
           MayStillRun, Queued, Returns, At, Replies, helperVars
  <2>3. Fresh' /\ PipeIsHonest' /\ ChannelIsHonest'
    BY <1>6
       DEF Receive, TypeOK, Fresh, PipeIsHonest, ChannelIsHonest, Justified,
           MayStillRun, Queued, Returns, At, helperVars
  <2>4. NoStrandedWaiter' /\ PendingIsExact'
    BY <1>6
       DEF Receive, TypeOK, NoStrandedWaiter, PendingIsExact,
           Returns, At
  <2> QED
    BY <2>1, <2>2, <2>3, <2>4, <2>5
<1>7. ASSUME NEW c \in Callers, Expire(c) PROVE IInv'
  <2>1. TypeOK'
    BY <1>7 DEF Expire, TypeOK, PcStates, At, helperVars
  <2>2. NeverTwice' /\ DeathIsFinal'
    BY <1>7 DEF Expire, NeverTwice, DeathIsFinal, Queued, helperVars
  <2>6. OutcomeIsHonest'
    BY <1>7 DEF Expire, OutcomeIsHonest, MayStillRun, Queued, helperVars
  <2>3. Fresh' /\ ChannelIsHonest'
    BY <1>7
       DEF Expire, TypeOK, Fresh, ChannelIsHonest, DeathIsFinal, Justified,
           MayStillRun, Queued, At, helperVars
  <2>4. PipeIsHonest'
    BY <1>7 DEF Expire, TypeOK, PipeIsHonest, Justified, MayStillRun, Queued, At, helperVars
  <2>5. NoStrandedWaiter' /\ PendingIsExact'
    BY <1>7
       DEF Expire, TypeOK, Fresh, NoStrandedWaiter, PendingIsExact,
           DeathIsFinal, At, helperVars
  <2> QED
    BY <2>1, <2>2, <2>3, <2>4, <2>5, <2>6
<1>8. ASSUME NEW c \in Callers, Forget(c) PROVE IInv'
  <2>1. TypeOK'
    BY <1>8 DEF Forget, TypeOK, PcStates, At, helperVars
  <2>2. NeverTwice' /\ DeathIsFinal'
    BY <1>8 DEF Forget, NeverTwice, DeathIsFinal, Queued, helperVars
  <2>6. OutcomeIsHonest'
    BY <1>8 DEF Forget, OutcomeIsHonest, MayStillRun, Queued, helperVars
  <2>3. Fresh' /\ ChannelIsHonest'
    BY <1>8
       DEF Forget, TypeOK, Fresh, ChannelIsHonest, DeathIsFinal, Justified,
           MayStillRun, Queued, At, helperVars
  <2>4. PipeIsHonest'
    BY <1>8 DEF Forget, TypeOK, PipeIsHonest, Justified, MayStillRun, Queued, At, helperVars
  <2>5. NoStrandedWaiter' /\ PendingIsExact'
    BY <1>8
       DEF Forget, TypeOK, Fresh, NoStrandedWaiter, PendingIsExact,
           DeathIsFinal, At, helperVars
  <2> QED
    BY <2>1, <2>2, <2>3, <2>4, <2>5, <2>6
<1>9. ASSUME NEW c \in Callers, Probe(c) PROVE IInv'
  <2>1. TypeOK'
    BY <1>9 DEF Probe, TypeOK, PcStates, Returns, At, Failures, helperVars
  <2>2. NeverTwice' /\ DeathIsFinal'
    BY <1>9 DEF Probe, NeverTwice, DeathIsFinal, Queued, helperVars
  <2>6. OutcomeIsHonest'
    <3>1. PICK o \in {"timeout", "helper_exited"} :
            out' = [out EXCEPT ![c] = o] /\ (o = "helper_exited" => ~up)
      BY <1>9 DEF Probe, Returns, DeathIsFinal
    <3> QED
      BY <1>9, <3>1 DEF Probe, TypeOK, OutcomeIsHonest, MayStillRun, Queued, helperVars
  <2>3. Fresh' /\ ChannelIsHonest'
    BY <1>9
       DEF Probe, TypeOK, Fresh, ChannelIsHonest, DeathIsFinal, Justified,
           MayStillRun, Queued, Returns, At, Failures, helperVars
  <2>4. PipeIsHonest'
    BY <1>9
       DEF Probe, TypeOK, PipeIsHonest, Justified, MayStillRun, Queued, Returns, At,
           Failures, helperVars
  <2>5. NoStrandedWaiter' /\ PendingIsExact'
    BY <1>9
       DEF Probe, TypeOK, Fresh, NoStrandedWaiter, PendingIsExact,
           DeathIsFinal, Returns, At, Failures, helperVars
  <2> QED
    BY <2>1, <2>2, <2>3, <2>4, <2>5, <2>6
<1>10. ASSUME NEW c \in Callers, Recycle(c) PROVE IInv'
  <2>1. CASE ~child
    <3>1. UNCHANGED <<fromHelper, helperVars, out, pending, chan, stdin, lock, reader, failing, child>>
          /\ At(c, "recycle", "done")
      BY <1>10, <2>1 DEF Recycle, TypeOK
    <3>2. TypeOK'
      BY <3>1 DEF TypeOK, At, PcStates, helperVars
    <3>3. NeverTwice' /\ DeathIsFinal' /\ OutcomeIsHonest'
      BY <3>1 DEF NeverTwice, DeathIsFinal, OutcomeIsHonest, MayStillRun, Queued, helperVars
    <3>4. Fresh' /\ PipeIsHonest' /\ ChannelIsHonest'
      BY <3>1
         DEF TypeOK, Fresh, PipeIsHonest, ChannelIsHonest, Justified, MayStillRun,
             Queued, At,
         helperVars
    <3>5. NoStrandedWaiter' /\ PendingIsExact'
      BY <3>1 DEF TypeOK, NoStrandedWaiter, PendingIsExact, At
    <3> QED
      BY <3>2, <3>3, <3>4, <3>5
  <2>2. CASE child
    <3>1. ProcessEnds /\ UNCHANGED <<out, pending, chan, stdin, lock, reader, failing>>
          /\ child' = FALSE /\ At(c, "recycle", "done")
      BY <1>10, <2>2 DEF Recycle
    <3>2. /\ Queued' = {} /\ toHelper' \in Seq(Callers)
          /\ \A d \in Callers : ~MayStillRun(d)'
          /\ PipeIsHonest'
      BY <3>1, AfterDeath
    <3>3. TypeOK'
      BY <3>1, <3>2 DEF TypeOK, At, PcStates, ProcessEnds
    <3>4. NeverTwice'
      BY <3>1, <3>2 DEF NeverTwice, ProcessEnds
    <3>5. Fresh' /\ ChannelIsHonest' /\ OutcomeIsHonest'
      BY <3>1, <3>2
         DEF TypeOK, Fresh, ChannelIsHonest, OutcomeIsHonest, Justified, At,
             ProcessEnds
    <3>6. DeathIsFinal'
      BY <3>1 DEF DeathIsFinal, ProcessEnds
    <3>7. NoStrandedWaiter' /\ PendingIsExact'
      BY <3>1 DEF TypeOK, NoStrandedWaiter, PendingIsExact, At
    <3> QED
      BY <3>2, <3>3, <3>4, <3>5, <3>6, <3>7
  <2> QED
    BY <2>1, <2>2 DEF TypeOK
<1>11. CASE Accept
  <2>1. TypeOK'
    BY <1>11 DEF Accept, TypeOK, PcStates, hostVars
  <2>2. NeverTwice' /\ DeathIsFinal' /\ OutcomeIsHonest'
    BY <1>11
       DEF Accept, TypeOK, NeverTwice, Fresh, DeathIsFinal, OutcomeIsHonest,
           MayStillRun, Queued, hostVars
  <2>3. Fresh' /\ ChannelIsHonest'
    BY <1>11
       DEF Accept, TypeOK, Fresh, ChannelIsHonest, DeathIsFinal, Justified,
           MayStillRun, Queued, hostVars
  <2>4. PipeIsHonest'
    BY <1>11 DEF Accept, TypeOK, PipeIsHonest, Justified, MayStillRun, Queued, hostVars
  <2>5. NoStrandedWaiter' /\ PendingIsExact'
    BY <1>11
       DEF Accept, TypeOK, Fresh, NoStrandedWaiter, PendingIsExact,
           DeathIsFinal, hostVars
  <2> QED
    BY <2>1, <2>2, <2>3, <2>4, <2>5
<1>12. CASE Act
  <2>1. TypeOK'
    BY <1>12 DEF Act, TypeOK, PcStates, hostVars
  <2>2. NeverTwice' /\ DeathIsFinal' /\ OutcomeIsHonest'
    BY <1>12
       DEF Act, TypeOK, NeverTwice, Fresh, DeathIsFinal, OutcomeIsHonest,
           MayStillRun, Queued, hostVars
  <2>3. Fresh' /\ ChannelIsHonest'
    BY <1>12
       DEF Act, TypeOK, Fresh, ChannelIsHonest, DeathIsFinal, Justified,
           MayStillRun, Queued, hostVars
  <2>4. PipeIsHonest'
    BY <1>12 DEF Act, TypeOK, PipeIsHonest, Justified, MayStillRun, Queued, hostVars
  <2>5. NoStrandedWaiter' /\ PendingIsExact'
    BY <1>12
       DEF Act, TypeOK, Fresh, NoStrandedWaiter, PendingIsExact,
           DeathIsFinal, hostVars
  <2> QED
    BY <2>1, <2>2, <2>3, <2>4, <2>5
<1>13. CASE Reply
  <2>1. PICK m \in [to : Callers, says : Replies] :
          m = [to |-> busy, says |-> IF busy \in ran THEN "ok" ELSE "error"]
    BY <1>13 DEF Reply, TypeOK, Replies
  <2>2. fromHelper' = Append(fromHelper, m)
    BY <1>13, <2>1 DEF Reply
  <2>3. /\ fromHelper' \in Seq([to : Callers, says : Replies])
        /\ \A i \in DOMAIN fromHelper' :
             \/ fromHelper'[i] = m
             \/ i \in DOMAIN fromHelper /\ fromHelper'[i] = fromHelper[i]
    BY <2>1, <2>2, PipeAfterAppend DEF TypeOK
  <2>4. \A d \in Callers : MayStillRun(d)' => MayStillRun(d) /\ d # busy 
    BY <1>13 DEF Reply, TypeOK, NeverTwice, MayStillRun, Queued, hostVars
  <2>5. TypeOK'
    BY <1>13, <2>3 DEF Reply, TypeOK, PcStates, hostVars
  <2>6. NeverTwice'
    BY <1>13 DEF Reply, TypeOK, NeverTwice, Queued, hostVars
  <2>7. Fresh'
    BY <1>13, <2>1, <2>3, <2>4 DEF Reply, TypeOK, Fresh, MayStillRun, hostVars
  <2>8. Justified(m.to, m.says)'
    BY <1>13, <2>1 DEF Reply, TypeOK, NeverTwice, Justified, MayStillRun, Queued, hostVars
  <2>9. PipeIsHonest'
    <3> SUFFICES ASSUME NEW i \in DOMAIN fromHelper'
                 PROVE  Justified(fromHelper[i].to, fromHelper[i].says)'
      BY DEF PipeIsHonest
    <3>1. CASE fromHelper'[i] = m
      <4>1. m.to = fromHelper[i].to' /\ m.says = fromHelper[i].says'
        BY <3>1
      <4> QED
        BY <2>8, <4>1 DEF Justified, MayStillRun, Queued
    <3>2. CASE i \in DOMAIN fromHelper /\ fromHelper'[i] = fromHelper[i]
      <4>1. fromHelper[i].to \in Callers /\ Justified(fromHelper[i].to, fromHelper[i].says)
        BY <3>2, PipeElement DEF TypeOK, PipeIsHonest
      <4> QED
        BY <1>13, <2>4, <3>2, <4>1 DEF Reply, Justified, hostVars
    <3> QED
      BY <2>3, <3>1, <3>2
  <2>10. ChannelIsHonest' /\ OutcomeIsHonest'
    BY <1>13, <2>4
       DEF Reply, TypeOK, ChannelIsHonest, OutcomeIsHonest, Justified, MayStillRun,
           hostVars
  <2>11. DeathIsFinal' /\ NoStrandedWaiter' /\ PendingIsExact'
    BY <1>13
       DEF Reply, DeathIsFinal, NoStrandedWaiter, PendingIsExact,
           hostVars
  <2> QED
    BY <2>5, <2>6, <2>7, <2>9, <2>10, <2>11
<1>14. CASE Watchdog
  <2>1. PICK m \in [to : Callers, says : Replies] :
          m = [to |-> busy, says |-> "timeout"]
    BY <1>14 DEF Watchdog, TypeOK, Replies
  <2>2. fromHelper' = Append(fromHelper, m)
    BY <1>14, <2>1 DEF Watchdog
  <2>3. /\ fromHelper' \in Seq([to : Callers, says : Replies])
        /\ \A i \in DOMAIN fromHelper' :
             \/ fromHelper'[i] = m
             \/ i \in DOMAIN fromHelper /\ fromHelper'[i] = fromHelper[i]
    BY <2>1, <2>2, PipeAfterAppend DEF TypeOK
  <2>4. \A d \in Callers : MayStillRun(d)' => MayStillRun(d) 
    BY <1>14 DEF Watchdog, TypeOK, NeverTwice, MayStillRun, Queued, hostVars
  <2>5. TypeOK'
    BY <1>14, <2>3 DEF Watchdog, TypeOK, PcStates, hostVars
  <2>6. NeverTwice'
    BY <1>14 DEF Watchdog, TypeOK, NeverTwice, Queued, hostVars
  <2>7. Fresh'
    BY <1>14, <2>1, <2>3, <2>4 DEF Watchdog, TypeOK, Fresh, MayStillRun, hostVars
  <2>8. Justified(m.to, m.says)'
    BY <1>14, <2>1
       DEF Watchdog, TypeOK, NeverTwice, Justified, MayStillRun, Queued, hostVars
  <2>9. PipeIsHonest'
    <3> SUFFICES ASSUME NEW i \in DOMAIN fromHelper'
                 PROVE  Justified(fromHelper[i].to, fromHelper[i].says)'
      BY DEF PipeIsHonest
    <3>1. CASE fromHelper'[i] = m
      <4>1. m.to = fromHelper[i].to' /\ m.says = fromHelper[i].says'
        BY <3>1
      <4> QED
        BY <2>8, <4>1 DEF Justified, MayStillRun, Queued
    <3>2. CASE i \in DOMAIN fromHelper /\ fromHelper'[i] = fromHelper[i]
      <4>1. fromHelper[i].to \in Callers /\ Justified(fromHelper[i].to, fromHelper[i].says)
        BY <3>2, PipeElement DEF TypeOK, PipeIsHonest
      <4> QED
        BY <1>14, <2>4, <3>2, <4>1 DEF Watchdog, Justified, hostVars
    <3> QED
      BY <2>3, <3>1, <3>2
  <2>10. ChannelIsHonest' /\ OutcomeIsHonest'
    BY <1>14, <2>4
       DEF Watchdog, TypeOK, ChannelIsHonest, OutcomeIsHonest, Justified,
           MayStillRun, hostVars
  <2>11. DeathIsFinal' /\ NoStrandedWaiter' /\ PendingIsExact'
    BY <1>14
       DEF Watchdog, DeathIsFinal, NoStrandedWaiter, PendingIsExact,
           hostVars
  <2> QED
    BY <2>5, <2>6, <2>7, <2>9, <2>10, <2>11
<1>15. CASE LateAct
  <2>1. TypeOK'
    BY <1>15 DEF LateAct, TypeOK, PcStates, hostVars
  <2>2. NeverTwice' /\ DeathIsFinal' /\ OutcomeIsHonest'
    BY <1>15
       DEF LateAct, TypeOK, NeverTwice, Fresh, DeathIsFinal, OutcomeIsHonest,
           MayStillRun, Queued, hostVars
  <2>3. Fresh' /\ ChannelIsHonest'
    BY <1>15
       DEF LateAct, TypeOK, Fresh, ChannelIsHonest, DeathIsFinal, Justified,
           MayStillRun, Queued, hostVars
  <2>4. PipeIsHonest'
    BY <1>15 DEF LateAct, TypeOK, PipeIsHonest, Justified, MayStillRun, Queued, hostVars
  <2>5. NoStrandedWaiter' /\ PendingIsExact'
    BY <1>15
       DEF LateAct, TypeOK, Fresh, NoStrandedWaiter, PendingIsExact,
           DeathIsFinal, hostVars
  <2> QED
    BY <2>1, <2>2, <2>3, <2>4, <2>5
<1>16. CASE Die
  <2>1. ProcessEnds /\ UNCHANGED hostVars
    BY <1>16 DEF Die
  <2>2. /\ Queued' = {} /\ toHelper' \in Seq(Callers)
        /\ \A d \in Callers : ~MayStillRun(d)'
        /\ PipeIsHonest'
    BY <2>1, AfterDeath
  <2>3. TypeOK'
    BY <2>1, <2>2 DEF TypeOK, PcStates, ProcessEnds, hostVars
  <2>4. NeverTwice'
    BY <2>1, <2>2 DEF NeverTwice, ProcessEnds
  <2>5. Fresh' /\ ChannelIsHonest' /\ OutcomeIsHonest'
    BY <2>1, <2>2
       DEF TypeOK, Fresh, ChannelIsHonest, OutcomeIsHonest, Justified, ProcessEnds,
           hostVars
  <2>6. DeathIsFinal'
    BY <2>1 DEF DeathIsFinal, ProcessEnds, hostVars
  <2>7. NoStrandedWaiter' /\ PendingIsExact'
    BY <2>1 DEF NoStrandedWaiter, PendingIsExact, hostVars
  <2> QED
    BY <2>2, <2>3, <2>4, <2>5, <2>6, <2>7
<1>17. CASE Deliver
  <2>1. /\ Message \in [to : Callers, says : Replies]
        /\ 1 \in DOMAIN fromHelper /\ fromHelper[1] = Message
        /\ fromHelper' \in Seq([to : Callers, says : Replies])
        /\ \A i \in DOMAIN fromHelper' :
             i + 1 \in DOMAIN fromHelper /\ fromHelper'[i] = fromHelper[i + 1]
    BY <1>17, PipeAfterTail DEF Deliver, TypeOK
  <2>2. UNCHANGED <<pc, out, stdin, lock, child, reader, failing, helperVars>>
    BY <1>17 DEF Deliver
  <2>3. /\ pending' = pending \ {Message.to}
        /\ \A d \in Callers :
             chan'[d] = IF d = Message.to /\ d \in pending THEN Message.says ELSE chan[d]
    BY <1>17, <2>1 DEF Deliver, TypeOK
  <2>4. chan' \in [Callers -> Replies \cup {"none", "helper_exited"}]
    BY <1>17, <2>1 DEF Deliver, TypeOK
  <2>5. TypeOK'
    BY <2>1, <2>2, <2>3, <2>4 DEF TypeOK, PcStates, helperVars
  <2>6. NeverTwice' /\ DeathIsFinal' /\ OutcomeIsHonest'
    BY <2>2 DEF NeverTwice, DeathIsFinal, OutcomeIsHonest, MayStillRun, Queued, helperVars
  <2>7. Justified(Message.to, Message.says)
    BY <2>1 DEF PipeIsHonest
  <2>8. Fresh'
    BY <2>1, <2>2, <2>3 DEF Fresh, MayStillRun, Queued, helperVars
  <2>9. PipeIsHonest'
    BY <2>1, <2>2 DEF PipeIsHonest, Justified, MayStillRun, Queued, helperVars
  <2>10. ChannelIsHonest'
    BY <2>2, <2>3, <2>7 DEF ChannelIsHonest, Justified, MayStillRun, Queued, helperVars
  <2>11. NoStrandedWaiter'
    BY <1>17, <2>2 DEF Deliver, NoStrandedWaiter
  <2>12. PendingIsExact'
    BY <1>17, <2>1, <2>2, <2>3 DEF TypeOK, PendingIsExact, Replies
  <2> QED
    BY <2>5, <2>6, <2>8, <2>9, <2>10, <2>11, <2>12
<1>18. CASE Reap
  <2>1. TypeOK'
    BY <1>18 DEF Reap, TypeOK, PcStates, callerVars, helperVars
  <2>2. NeverTwice' /\ DeathIsFinal' /\ OutcomeIsHonest'
    BY <1>18
       DEF Reap, TypeOK, NeverTwice, Fresh, DeathIsFinal, OutcomeIsHonest,
           MayStillRun, Queued, callerVars, helperVars
  <2>3. Fresh' /\ ChannelIsHonest'
    BY <1>18
       DEF Reap, TypeOK, Fresh, ChannelIsHonest, DeathIsFinal, Justified,
           MayStillRun, Queued, callerVars, helperVars
  <2>4. PipeIsHonest'
    BY <1>18
       DEF Reap, TypeOK, PipeIsHonest, Justified, MayStillRun, Queued, callerVars,
           helperVars
  <2>5. NoStrandedWaiter' /\ PendingIsExact'
    BY <1>18
       DEF Reap, TypeOK, Fresh, NoStrandedWaiter, PendingIsExact,
           DeathIsFinal, callerVars, helperVars
  <2> QED
    BY <2>1, <2>2, <2>3, <2>4, <2>5
<1>19. CASE Drain
  <2>1. TypeOK'
    BY <1>19 DEF Drain, TypeOK, PcStates, callerVars, helperVars
  <2>2. NeverTwice' /\ DeathIsFinal' /\ OutcomeIsHonest'
    BY <1>19
       DEF Drain, TypeOK, NeverTwice, Fresh, DeathIsFinal, OutcomeIsHonest,
           MayStillRun, Queued, callerVars, helperVars
  <2>3. Fresh' /\ ChannelIsHonest'
    BY <1>19
       DEF Drain, TypeOK, PendingIsExact, Fresh, ChannelIsHonest, DeathIsFinal, Justified,
           MayStillRun, Queued, callerVars, helperVars
  <2>4. PipeIsHonest'
    BY <1>19
       DEF Drain, TypeOK, PipeIsHonest, Justified, MayStillRun, Queued, callerVars,
           helperVars
  <2>5. NoStrandedWaiter' /\ PendingIsExact'
    BY <1>19
       DEF Drain, TypeOK, Fresh, NoStrandedWaiter, PendingIsExact,
           DeathIsFinal, callerVars, helperVars
  <2> QED
    BY <2>1, <2>2, <2>3, <2>4, <2>5
<1>20. CASE FailOne
  <2>1. TypeOK'
    BY <1>20 DEF FailOne, TypeOK, PcStates, callerVars, helperVars
  <2>2. NeverTwice' /\ DeathIsFinal' /\ OutcomeIsHonest'
    BY <1>20
       DEF FailOne, TypeOK, NeverTwice, Fresh, DeathIsFinal, OutcomeIsHonest,
           MayStillRun, Queued, callerVars, helperVars
  <2>3. Fresh' /\ ChannelIsHonest'
    BY <1>20
       DEF FailOne, TypeOK, Fresh, ChannelIsHonest, DeathIsFinal, Justified,
           MayStillRun, Queued, callerVars, helperVars
  <2>4. PipeIsHonest'
    BY <1>20
       DEF FailOne, TypeOK, PipeIsHonest, Justified, MayStillRun, Queued,
           callerVars, helperVars
  <2>5. NoStrandedWaiter' /\ PendingIsExact'
    BY <1>20
       DEF FailOne, TypeOK, Fresh, NoStrandedWaiter, PendingIsExact,
           DeathIsFinal, callerVars, helperVars
  <2> QED
    BY <2>1, <2>2, <2>3, <2>4, <2>5
<1>21. CASE CloseStdin
  <2>1. TypeOK'
    BY <1>21 DEF CloseStdin, TypeOK, PcStates, callerVars, helperVars
  <2>2. NeverTwice' /\ DeathIsFinal' /\ OutcomeIsHonest'
    BY <1>21
       DEF CloseStdin, TypeOK, NeverTwice, Fresh, DeathIsFinal, OutcomeIsHonest,
           MayStillRun, Queued, callerVars, helperVars
  <2>3. Fresh' /\ ChannelIsHonest'
    BY <1>21
       DEF CloseStdin, TypeOK, Fresh, ChannelIsHonest, DeathIsFinal, Justified,
           MayStillRun, Queued, callerVars, helperVars
  <2>4. PipeIsHonest'
    BY <1>21
       DEF CloseStdin, TypeOK, PipeIsHonest, Justified, MayStillRun, Queued,
           callerVars, helperVars
  <2>5. NoStrandedWaiter' /\ PendingIsExact'
    BY <1>21
       DEF CloseStdin, TypeOK, Fresh, NoStrandedWaiter, PendingIsExact,
           DeathIsFinal, callerVars, helperVars
  <2> QED
    BY <2>1, <2>2, <2>3, <2>4, <2>5
<1>22. CASE UNCHANGED vars
  BY <1>22
     DEF vars, TypeOK, NeverTwice, Fresh, PipeIsHonest, ChannelIsHonest, DeathIsFinal,
         OutcomeIsHonest, NoStrandedWaiter, PendingIsExact,
         Justified, MayStillRun, Queued, PcStates, Replies, Failures, At, Returns,
         ProcessEnds, callerVars, helperVars, hostVars, Message, Fits
<1> QED
  BY <1>1, <1>2, <1>3, <1>4, <1>5, <1>6, <1>7, <1>8, <1>9, <1>10, <1>11, <1>12, <1>13, <1>14, <1>15, <1>16, <1>17, <1>18, <1>19, <1>20, <1>21, <1>22
     DEF Next, CallerStep, HelperStep, ReaderStep

-----------------------------------------------------------------------------
(* Theorems.                                                                 *)

\* The invariant holds throughout.
LEMMA Invariant == Spec => []IInv
  BY Initial, Inductive, PTL DEF Spec

\* The variables of the client, the reader and the helper keep their types,
\* and an outcome exists exactly once call_timeout has returned.
THEOREM TypeCorrect == Spec => []TypeOK
  <1>1. IInv => TypeOK
    BY DEF IInv
  <1> QED
    BY Invariant, <1>1, PTL

\* client.rs: a call reported unsent never reaches the helper, not even later;
\* one reported failed cleanly had no effect; one answered did run; and
\* helper_exited is said only of a process that is gone.
THEOREM OutcomesAreHonest == Spec => []OutcomeIsHonest
  <1>1. IInv => OutcomeIsHonest
    BY DEF IInv
  <1> QED
    BY Invariant, <1>1, PTL

\* client.rs and main.swift: no request is executed by two bodies.
THEOREM RequestsNeverDouble == Spec => []NeverTwice
  <1>1. IInv => NeverTwice
    BY DEF IInv
  <1> QED
    BY Invariant, <1>1, PTL

\* client.rs, reader thread: whoever waits when the pipe closes is told, also
\* if it registered between two of the reader's steps.
THEOREM WaitersAreTold == Spec => []NoStrandedWaiter
  <1>1. IInv => NoStrandedWaiter
    BY DEF IInv
  <1> QED
    BY Invariant, <1>1, PTL

\* client.rs: the pending map holds the open calls and nothing else, and no
\* response channel is ever sent a second message.
THEOREM PendingIsSound == Spec => []PendingIsExact
  <1>1. IInv => PendingIsExact
    BY DEF IInv
  <1> QED
    BY Invariant, <1>1, PTL

\* A step of the client is a step of the contract: an effect of a call that
\* was not promised to have none, a return that keeps its promise, or nothing
\* the contract can see.
LEMMA StepRefines == IInv /\ [Next]_vars => [Contract!Next]_<<out, ran>>
<1> SUFFICES ASSUME IInv, [Next]_vars PROVE [Contract!Next]_<<out, ran>>
  OBVIOUS
<1> USE BridgeAssumption DEF IInv
<1>1. ASSUME NEW c \in Callers, NEW o \in Contract!Outcomes, out[c] = "none",
             o = "ok" => c \in ran, o \in Contract!Clean => c \notin ran,
             out' = [out EXCEPT ![c] = o], UNCHANGED ran
      PROVE  Contract!Next
  BY <1>1 DEF Contract!Next, Contract!Return
<1>2. ASSUME NEW c \in Callers, MayStillRun(c), c \notin ran, ran' = ran \cup {c}, UNCHANGED out
      PROVE  Contract!Next
  <2>1. out[c] \notin Contract!Clean
    BY <1>2 DEF OutcomeIsHonest, Contract!Clean
  <2> QED
    BY <1>2, <2>1 DEF Contract!Next, Contract!Run
<1>3. ASSUME NEW c \in Callers, Unpend(c) PROVE Contract!Next
  <2>1. out[c] = "none" /\ c \notin ran
    BY <1>3 DEF Unpend, Returns, At, TypeOK, Fresh
  <2> QED
    BY <1>1, <1>3, <2>1 DEF Unpend, Returns, helperVars, Contract!Outcomes, Contract!Clean
<1>4. ASSUME NEW c \in Callers, Receive(c) PROVE Contract!Next
  <2>1. out[c] = "none" /\ Justified(c, chan[c])
    BY <1>4 DEF Receive, Returns, At, TypeOK, ChannelIsHonest
  <2>2. chan[c] \in Contract!Outcomes \ {"helper_exited_unsent"}
    BY <1>4 DEF Receive, TypeOK, Replies, Contract!Outcomes, Contract!Clean, Contract!Ambiguous
  <2> QED
    BY <1>1, <1>4, <2>1, <2>2 DEF Receive, Returns, helperVars, Justified, Contract!Clean
<1>5. ASSUME NEW c \in Callers, Probe(c) PROVE Contract!Next
  <2>1. out[c] = "none"
    BY <1>5 DEF Probe, Returns, At, TypeOK
  <2>2. PICK o \in {"timeout", "helper_exited"} : out' = [out EXCEPT ![c] = o]
    BY <1>5 DEF Probe, Returns
  <2>3. o \in Contract!Outcomes \ Contract!Clean /\ o # "ok"
    BY DEF Contract!Outcomes, Contract!Clean, Contract!Ambiguous
  <2> QED
    BY <1>1, <1>5, <2>1, <2>2, <2>3 DEF Probe, helperVars
<1>6. ASSUME NEW c \in Callers, Recycle(c) PROVE UNCHANGED <<out, ran>>
  BY <1>6 DEF Recycle, ProcessEnds, helperVars
<1>7. ASSUME NEW c \in Callers,
             \/ Register(c) \/ LockStdin(c) \/ WriteLine(c) \/ WriteFails(c)
             \/ Expire(c) \/ Forget(c)
      PROVE  UNCHANGED <<out, ran>>
  BY <1>7 DEF Register, LockStdin, WriteLine, WriteFails, Expire, Forget, helperVars
<1>8. CASE Act
  <2>1. busy \in Callers /\ MayStillRun(busy)
    BY <1>8 DEF Act, TypeOK, MayStillRun
  <2> QED
    BY <1>2, <1>8, <2>1 DEF Act, hostVars
<1>9. CASE LateAct
  <2>1. PICK c \in late : ran' \in {ran, ran \cup {c}}
    BY <1>9 DEF LateAct
  <2>2. c \in Callers /\ MayStillRun(c) /\ c \notin ran
    BY DEF TypeOK, MayStillRun, NeverTwice
  <2> QED
    BY <1>2, <1>9, <2>1, <2>2 DEF LateAct, hostVars
<1>10. CASE Accept \/ Reply \/ Watchdog \/ Die
  BY <1>10 DEF Accept, Reply, Watchdog, Die, ProcessEnds, hostVars
<1>11. CASE ReaderStep
  BY <1>11 DEF ReaderStep, Deliver, Reap, Drain, FailOne, CloseStdin, callerVars, helperVars
<1>12. CASE UNCHANGED vars
  BY <1>12 DEF vars
<1> QED
  BY <1>3, <1>4, <1>5, <1>6, <1>7, <1>8, <1>9, <1>10, <1>11, <1>12
     DEF Next, CallerStep, HelperStep

\* The bridge client, with its reader thread, its timeouts and its recycling,
\* implements the contract of CallContract.
THEOREM ClientImplementsContract == Spec => ImplementsContract
  <1>1. Init => Contract!Init
    BY DEF Init, Contract!Init
  <1>2. IInv /\ [Next]_vars => [Contract!Next]_Contract!contractVars
    BY StepRefines DEF Contract!contractVars
  <1> QED
    BY Invariant, <1>1, <1>2, PTL DEF Spec, ImplementsContract, Contract!Spec

\* The calls, the reader and the helper stay sound at once, for any number of
\* callers.
THEOREM CallsStaySound == Spec => []CallsAreSound
  <1>1. IInv => CallsAreSound
    BY DEF IInv, CallsAreSound
  <1> QED
    BY Invariant, <1>1, PTL

=============================================================================
