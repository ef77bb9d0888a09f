---------------------------- MODULE AwsLeaseProofs -----------------------------
(***************************************************************************)
(* Proofs about the AWS lease: for any number of controllers, namespaces,  *)
(* pids and start times, a live holder keeps its lease and is the only     *)
(* one, provided that no controller dies between os.getppid() and the      *)
(* reading of its start time (IdentityAssumption).                         *)
(***************************************************************************)
EXTENDS AwsLease, TLAPS

\* /proc shows a live controller under its own pid, and init under init's.
ProcessesShown ==
  /\ \A c \in Controllers : ctl[c].live =>
       /\ ctl[c].pid # InitPid /\ ctl[c].start \in Starts
       /\ proc[SpaceOf[c]][ctl[c].pid] = ctl[c].start
  /\ \A s \in Spaces : proc[s][InitPid] \in Starts

\* Two live controllers of a namespace have different pids.
PidsDistinct ==
  \A c, d \in Controllers :
    (c # d /\ ctl[c].live /\ ctl[d].live /\ SpaceOf[c] = SpaceOf[d]) => ctl[c].pid # ctl[d].pid

\* A worker waiting for the guard has its controller's pid, or init's.
ParentKnown ==
  \A c \in Controllers : At(c, "flock") =>
    ctl[c].as = IF ctl[c].live THEN ctl[c].pid ELSE InitPid

\* Who writes the lease file has the guard, and nobody holds the lease.
WriterAlone ==
  \A c \in Controllers : ctl[c].pc \in {"write", "dump"} =>
    /\ guard = c /\ ctl[c].task = "held"
    /\ ctl[c].own \in Lease /\ (ctl[c].live => ctl[c].own = LeaseOf(c))
    /\ \A d \in Controllers : ~Holding(d)

IInv ==
  /\ TypeOK /\ ProcessesShown /\ PidsDistinct /\ ParentKnown /\ WriterAlone /\ LeasePreserved

-------------------------------------------------------------------------------
\* A worker that is not refused finds no other live holder: what it reads is no
\* lease, a dead controller's, or its own (aws_lock.py:31-36, 42).
LEMMA NotRefusedAlone ==
  ASSUME IInv, NEW c \in Controllers, At(c, "flock"), ~Refused(c),
         NEW d \in Controllers, Holding(d)
  PROVE  c = d
<1>1. file = LeaseOf(d) /\ LeaseOf(d) \in Lease
  BY LeaseAssumption DEF IInv, LeasePreserved, LeaseOf, Lease, TypeOK, Control, Holding, ProcessesShown
<1>2. SpaceOf[d] = SpaceOf[c] /\ (LeaseOf(d) = Mine(c) \/ ~Active(LeaseOf(d)))
  BY <1>1 DEF Refused, LeaseOf
<1>3. Active(LeaseOf(d))
  BY DEF IInv, ProcessesShown, Holding, Active, Identity, LeaseOf
<1>4. ctl[d].pid = ctl[c].as
  BY <1>2, <1>3 DEF LeaseOf, Mine
<1>5. ctl[d].pid # InitPid /\ ctl[d].live
  BY DEF IInv, ProcessesShown, Holding
<1>6. ctl[c].live /\ ctl[c].as = ctl[c].pid
  BY <1>4, <1>5 DEF IInv, ParentKnown
<1>. QED  BY <1>2, <1>4, <1>5, <1>6 DEF IInv, PidsDistinct

\* The lease is a mutual exclusion lock because it names one controller.
LEMMA PreservedExcludes == IInv => MutualExclusion
<1>. SUFFICES ASSUME IInv, NEW c \in Controllers, NEW d \in Controllers, Holding(c), Holding(d)
              PROVE  c = d
  BY DEF MutualExclusion
<1>1. LeaseOf(c) = LeaseOf(d)  BY DEF IInv, LeasePreserved
<1>2. ctl[c].pid = ctl[d].pid /\ SpaceOf[c] = SpaceOf[d]  BY <1>1 DEF LeaseOf
<1>. QED  BY <1>2 DEF IInv, PidsDistinct, Holding

\* IInv holds initially.
LEMMA InitIInv == Init => IInv
<1>. SUFFICES ASSUME Init PROVE IInv  OBVIOUS
<1>. USE LeaseAssumption DEF Init
<1>1. (CHOOSE t \in Starts : TRUE) \in Starts  OBVIOUS
<1>2. TypeOK  BY <1>1 DEF TypeOK, NotRunning, Control, PCs, Tasks
<1>3. ProcessesShown /\ PidsDistinct
  BY <1>1 DEF ProcessesShown, PidsDistinct, NotRunning
<1>4. ParentKnown /\ WriterAlone /\ LeasePreserved
  BY DEF ParentKnown, WriterAlone, LeasePreserved, NotRunning, At, Holding
<1>. QED  BY <1>2, <1>3, <1>4 DEF IInv
-------------------------------------------------------------------------------
\* Types and processes are kept by every step.
LEMMA NextTypes == IInv /\ [Next]_vars => TypeOK'
<1>. SUFFICES ASSUME IInv, [Next]_vars PROVE TypeOK'  OBVIOUS
<1>. USE LeaseAssumption DEF IInv, TypeOK, Become, At, Control, PCs, Tasks
<1>1. NotRunning \in Control  BY DEF NotRunning
<1>2. \A c \in Controllers : Mine(c) \in Lease
  BY DEF Mine, Lease, Identity
<1>3. ASSUME NEW c \in Controllers, Run(c) PROVE TypeOK'
  <2>. PICK p \in Pids, t \in Starts :
         /\ proc' = [proc EXCEPT ![SpaceOf[c]][p] = t]
         /\ Become(c, [NotRunning EXCEPT !.pc = "task", !.live = TRUE, !.pid = p, !.start = t])
    BY <1>3 DEF Run
  <2>1. [NotRunning EXCEPT !.pc = "task", !.live = TRUE, !.pid = p, !.start = t] \in Control
    BY <1>1
  <2>. QED  BY <1>3, <2>1 DEF Run
<1>4. ASSUME NEW c \in Controllers, GetParent(c) PROVE TypeOK'
  <2>1. [ctl[c] EXCEPT !.pc = "flock", !.as = IF ctl[c].live THEN ctl[c].pid ELSE InitPid] \in Control
    OBVIOUS
  <2>. QED  BY <1>4, <2>1 DEF GetParent
<1>5. ASSUME NEW c \in Controllers, Ended(c) PROVE ctl' \in [Controllers -> Control] /\ proc' \in [Spaces -> [Pids -> Starts \cup {NoStart}]]
  BY <1>1, <1>5 DEF Ended, Exit
<1>6. ASSUME NEW c \in Controllers, Refuse(c) PROVE TypeOK'
  BY <1>5, <1>6 DEF Refuse
<1>7. ASSUME NEW c \in Controllers, Acquire(c) PROVE TypeOK'
  <2>1. [ctl[c] EXCEPT !.pc = "write", !.own = Mine(c)] \in Control  BY <1>2
  <2>. QED  BY <1>7, <2>1 DEF Acquire
<1>8. ASSUME NEW c \in Controllers, Truncate(c) PROVE TypeOK'
  <2>1. [ctl[c] EXCEPT !.pc = "dump"] \in Control  OBVIOUS
  <2>. QED  BY <1>8, <2>1 DEF Truncate
<1>9. ASSUME NEW c \in Controllers, Dump(c) PROVE TypeOK'
  <2>1. file' \in Lease \cup {Absent, Empty} /\ guard' \in Controllers \cup {NoOne} /\ faults' = faults
    BY <1>9 DEF Dump
  <2>2. ctl' \in [Controllers -> Control] /\ proc' \in [Spaces -> [Pids -> Starts \cup {NoStart}]]
    <3>1. [ctl[c] EXCEPT !.pc = "block"] \in Control  OBVIOUS
    <3>2. CASE ctl[c].live
      <4>1. Become(c, [ctl[c] EXCEPT !.pc = "block"]) /\ proc' = proc  BY <1>9, <3>2 DEF Dump
      <4>. QED  BY <3>1, <4>1
    <3>3. CASE ~ctl[c].live
      <4>1. Ended(c)  BY <1>9, <3>3 DEF Dump
      <4>. QED  BY <1>5, <4>1
    <3>. QED  BY <3>2, <3>3
  <2>. QED  BY <2>1, <2>2
<1>10. ASSUME NEW c \in Controllers, EndBlock(c) PROVE TypeOK'
  <2>1. [ctl[c] EXCEPT !.pc = "task", !.task = "released"] \in Control  OBVIOUS
  <2>2. CASE ctl[c].live
    <3>1. /\ Become(c, [ctl[c] EXCEPT !.pc = "task", !.task = "released"])
          /\ UNCHANGED <<proc, file, guard, faults>>
      BY <1>10, <2>2 DEF EndBlock
    <3>. QED  BY <2>1, <3>1
  <2>3. CASE ~ctl[c].live
    <3>1. Ended(c)  BY <1>10, <2>3 DEF EndBlock
    <3>. QED  BY <1>5, <1>10, <3>1 DEF EndBlock
  <2>. QED  BY <2>2, <2>3
<1>11. ASSUME NEW c \in Controllers, Release(c) PROVE TypeOK'
  BY <1>5, <1>11 DEF Release
<1>12. ASSUME NEW c \in Controllers, Crash(c) PROVE TypeOK'
  <2>1. [ctl[c] EXCEPT !.live = FALSE] \in Control  OBVIOUS
  <2>. QED  BY <1>12, <2>1 DEF Crash, Fault, Exit
<1>13. ASSUME NEW c \in Controllers, WorkerDies(c) PROVE TypeOK'
  BY <1>1, <1>13 DEF WorkerDies
<1>14. ASSUME NEW s \in Spaces, NEW p \in ForeignPids, ForeignStart(s, p) PROVE TypeOK'
  BY <1>14 DEF ForeignStart, Fault
<1>15. CASE RemoveByHand  BY <1>15 DEF RemoveByHand
<1>16. CASE UNCHANGED vars  BY <1>16 DEF vars
<1>. QED
  BY <1>3, <1>4, <1>6, <1>7, <1>8, <1>9, <1>10, <1>11, <1>12, <1>13, <1>14, <1>15, <1>16
  DEF Next, Call

\* The rest of the invariant, one action at a time.
Rest == ProcessesShown /\ PidsDistinct /\ ParentKnown /\ WriterAlone /\ LeasePreserved

\* A controller that ends, or dies, takes nothing from the others.
LEMMA EndedKeeps ==
  ASSUME IInv, TypeOK', NEW c \in Controllers, Ended(c), guard' = guard \/ guard = c,
         ctl[c].pc \notin {"write", "dump"} \/ \A d \in Controllers : ~Holding(d),
         \A d \in Controllers \ {c} : Holding(d) => file' = file
  PROVE  Rest'
<1>. USE LeaseAssumption DEF IInv, Ended, Become, Exit, NotRunning
<1>1. ProcessesShown' /\ PidsDistinct'
  BY DEF ProcessesShown, PidsDistinct, TypeOK, Control
<1>2. ParentKnown'  BY DEF ParentKnown, TypeOK, At
<1>3. \A d \in Controllers : Holding(d)' => d # c /\ Holding(d)
  BY DEF Holding, At, TypeOK
<1>4. WriterAlone'  BY <1>3 DEF WriterAlone, TypeOK, LeaseOf
<1>5. LeasePreserved'  BY <1>3 DEF LeasePreserved, LeaseOf, TypeOK
<1>. QED  BY <1>1, <1>2, <1>4, <1>5 DEF Rest

LEMMA RunKeeps == ASSUME IInv, TypeOK', NEW c \in Controllers, Run(c) PROVE Rest'
<1>. USE LeaseAssumption DEF IInv, Become, At
<1>1. PICK p \in Pids, t \in Starts :
        /\ proc[SpaceOf[c]][p] = NoStart
        /\ proc' = [proc EXCEPT ![SpaceOf[c]][p] = t]
        /\ Become(c, [NotRunning EXCEPT !.pc = "task", !.live = TRUE, !.pid = p, !.start = t])
  BY DEF Run
<1>2. /\ ctl'[c].pc = "task" /\ ctl'[c].task = "held" /\ ctl'[c].live
      /\ ctl'[c].pid = p /\ ctl'[c].start = t
      /\ \A d \in Controllers \ {c} : ctl'[d] = ctl[d]
  BY <1>1 DEF TypeOK, NotRunning
<1>3. ProcessesShown' /\ PidsDistinct'
  BY <1>1, <1>2 DEF ProcessesShown, PidsDistinct, TypeOK, Control
<1>4. UNCHANGED <<file, guard>>  BY DEF Run
<1>5. \A d \in Controllers : Holding(d)' => d # c /\ Holding(d)
  BY <1>2 DEF Holding
<1>6. ParentKnown' /\ WriterAlone' /\ LeasePreserved'
  BY <1>2, <1>4, <1>5 DEF ParentKnown, WriterAlone, LeasePreserved, LeaseOf
<1>. QED  BY <1>3, <1>6 DEF Rest

LEMMA GetParentKeeps == ASSUME IInv, TypeOK', NEW c \in Controllers, GetParent(c) PROVE Rest'
<1>. USE LeaseAssumption DEF IInv, Become, At
<1>1. /\ ctl[c].pc = "task" /\ ctl'[c].pc = "flock" /\ ctl'[c].task = ctl[c].task
      /\ ctl'[c].live = ctl[c].live /\ ctl'[c].pid = ctl[c].pid /\ ctl'[c].start = ctl[c].start
      /\ ctl'[c].as = IF ctl[c].live THEN ctl[c].pid ELSE InitPid
      /\ \A d \in Controllers \ {c} : ctl'[d] = ctl[d]
      /\ UNCHANGED <<proc, file, guard>>
  BY DEF GetParent, TypeOK, Control
<1>2. \A d \in Controllers : Holding(d)' => Holding(d)
  BY <1>1 DEF Holding
<1>3. ProcessesShown'  BY <1>1 DEF ProcessesShown
<1>4. PidsDistinct'  BY <1>1 DEF PidsDistinct
<1>5. ParentKnown' /\ WriterAlone'  BY <1>1, <1>2 DEF ParentKnown, WriterAlone, LeaseOf
<1>6. LeasePreserved'  BY <1>1, <1>2 DEF LeasePreserved, LeaseOf
<1>. QED  BY <1>3, <1>4, <1>5, <1>6 DEF Rest

LEMMA AcquireKeeps == ASSUME IInv, TypeOK', NEW c \in Controllers, Acquire(c) PROVE Rest'
<1>. USE LeaseAssumption DEF IInv, Become, At
<1>1. /\ ctl[c].pc = "flock" /\ ctl'[c].pc = "write" /\ ctl'[c].task = "held" /\ ctl[c].task = "held"
      /\ ctl'[c].live = ctl[c].live /\ ctl'[c].pid = ctl[c].pid /\ ctl'[c].start = ctl[c].start
      /\ ctl'[c].own = Mine(c) /\ guard' = c /\ guard = NoOne
      /\ \A d \in Controllers \ {c} : ctl'[d] = ctl[d]
      /\ UNCHANGED <<proc, file>>
  BY DEF Acquire, TypeOK, Control
<1>2. \A d \in Controllers : Holding(d)' => Holding(d)
  BY <1>1 DEF Holding
<1>3. \A d \in Controllers : ~Holding(d)
  BY <1>1, NotRefusedAlone DEF Acquire, Holding
<1>4. Mine(c) \in Lease  BY DEF Mine, Lease, Identity, TypeOK, Control
<1>5. ctl[c].live => Mine(c) = LeaseOf(c)'
  BY <1>1 DEF Mine, LeaseOf, ParentKnown, ProcessesShown, Identity
<1>6. \A d \in Controllers : ctl[d].pc \notin {"write", "dump"}
  BY <1>1 DEF WriterAlone
<1>7. WriterAlone'
  <2>. SUFFICES ASSUME NEW d \in Controllers, ctl'[d].pc \in {"write", "dump"}
                PROVE /\ guard' = d /\ ctl'[d].task = "held"
                      /\ ctl'[d].own \in Lease /\ (ctl'[d].live => ctl'[d].own = LeaseOf(d)')
                      /\ \A e \in Controllers : ~Holding(e)'
    BY DEF WriterAlone
  <2>1. d = c  BY <1>1, <1>6
  <2>. QED  BY <1>1, <1>2, <1>3, <1>4, <1>5, <2>1
<1>8. ProcessesShown'  BY <1>1 DEF ProcessesShown
<1>9. PidsDistinct'  BY <1>1 DEF PidsDistinct
<1>10. ParentKnown' /\ LeasePreserved'  BY <1>1, <1>2, <1>3 DEF ParentKnown, LeasePreserved
<1>. QED  BY <1>7, <1>8, <1>9, <1>10 DEF Rest

LEMMA TruncateKeeps == ASSUME IInv, TypeOK', NEW c \in Controllers, Truncate(c) PROVE Rest'
<1>. USE DEF IInv, Become, At
<1>1. /\ ctl[c].pc = "write" /\ ctl'[c].pc = "dump" /\ ctl'[c].task = ctl[c].task
      /\ ctl'[c].live = ctl[c].live /\ ctl'[c].pid = ctl[c].pid /\ ctl'[c].start = ctl[c].start
      /\ ctl'[c].own = ctl[c].own
      /\ \A d \in Controllers \ {c} : ctl'[d] = ctl[d]
      /\ UNCHANGED <<proc, guard>>
  BY DEF Truncate, TypeOK, Control
<1>2. ctl[c].task = "held" /\ \A d \in Controllers : ~Holding(d)  BY <1>1 DEF WriterAlone
<1>3. \A d \in Controllers : ~Holding(d)'  BY <1>1, <1>2 DEF Holding
<1>4. ProcessesShown'  BY <1>1 DEF ProcessesShown
<1>5. PidsDistinct'  BY <1>1 DEF PidsDistinct
<1>6. ParentKnown' /\ LeasePreserved'  BY <1>1, <1>3 DEF ParentKnown, LeasePreserved
<1>7. WriterAlone'  BY <1>1, <1>3 DEF WriterAlone, LeaseOf
<1>. QED  BY <1>4, <1>5, <1>6, <1>7 DEF Rest

LEMMA DumpKeeps == ASSUME IInv, TypeOK', NEW c \in Controllers, Dump(c) PROVE Rest'
<1>. USE DEF IInv, At
<1>1. ctl[c].pc = "dump" /\ guard = c /\ \A d \in Controllers : ~Holding(d)
  BY DEF Dump, WriterAlone
<1>2. CASE ~ctl[c].live
  <2>1. Ended(c)  BY <1>2 DEF Dump
  <2>. QED  BY <1>1, <2>1, EndedKeeps
<1>3. CASE ctl[c].live
  <2>1. Become(c, [ctl[c] EXCEPT !.pc = "block"]) /\ file' = ctl[c].own /\ guard' = NoOne
        /\ UNCHANGED proc
    BY <1>3 DEF Dump
  <2>2. /\ ctl'[c].pc = "block" /\ ctl'[c].live /\ ctl'[c].pid = ctl[c].pid
        /\ ctl'[c].start = ctl[c].start
        /\ \A d \in Controllers \ {c} : ctl'[d] = ctl[d]
    BY <1>3, <2>1 DEF Become, TypeOK, Control
  <2>3. \A d \in Controllers \ {c} : ctl[d].pc \notin {"write", "dump"} /\ ~Holding(d)'
    BY <1>1, <2>2 DEF WriterAlone, Holding
  <2>4. ctl[c].own = LeaseOf(c)  BY <1>1, <1>3 DEF WriterAlone
  <2>5. WriterAlone' /\ ParentKnown'  BY <2>2, <2>3 DEF WriterAlone, ParentKnown
  <2>6. LeasePreserved'  BY <2>1, <2>2, <2>3, <2>4 DEF LeasePreserved, LeaseOf
  <2>7. ProcessesShown'  BY <2>1, <2>2, <1>3 DEF ProcessesShown
  <2>8. PidsDistinct'  BY <2>2, <1>3 DEF PidsDistinct
  <2>. QED  BY <2>5, <2>6, <2>7, <2>8 DEF Rest
<1>. QED  BY <1>2, <1>3

LEMMA EndBlockKeeps == ASSUME IInv, TypeOK', NEW c \in Controllers, EndBlock(c) PROVE Rest'
<1>. USE DEF IInv, At
<1>1. ctl[c].pc = "block" /\ UNCHANGED <<file, guard>>  BY DEF EndBlock
<1>2. CASE ~ctl[c].live
  <2>1. Ended(c)  BY <1>2 DEF EndBlock
  <2>. QED  BY <1>1, <2>1, EndedKeeps
<1>3. CASE ctl[c].live
  <2>1. Become(c, [ctl[c] EXCEPT !.pc = "task", !.task = "released"]) /\ UNCHANGED proc
    BY <1>3 DEF EndBlock
  <2>2. /\ ctl'[c].pc = "task" /\ ctl'[c].live /\ ctl'[c].pid = ctl[c].pid
        /\ ctl'[c].start = ctl[c].start
        /\ \A d \in Controllers \ {c} : ctl'[d] = ctl[d]
    BY <1>3, <2>1 DEF Become, TypeOK, Control
  <2>3. \A d \in Controllers : Holding(d)' => Holding(d)
    BY <1>1, <1>3, <2>2 DEF Holding
  <2>4. WriterAlone' /\ ParentKnown' /\ LeasePreserved'
    BY <1>1, <2>2, <2>3 DEF WriterAlone, ParentKnown, LeasePreserved, LeaseOf
  <2>5. ProcessesShown'  BY <2>1, <2>2, <1>3 DEF ProcessesShown
  <2>6. PidsDistinct'  BY <2>2, <1>3 DEF PidsDistinct
  <2>. QED  BY <2>4, <2>5, <2>6 DEF Rest
<1>. QED  BY <1>2, <1>3

LEMMA CrashKeeps ==
  ASSUME IdentityAssumption, IInv, TypeOK', NEW c \in Controllers, Crash(c) PROVE Rest'
<1>. USE LeaseAssumption DEF IInv, At
<1>1. /\ ctl[c].live /\ ~ctl'[c].live /\ ctl'[c].pc = ctl[c].pc /\ ctl'[c].task = ctl[c].task
      /\ ctl'[c].own = ctl[c].own
      /\ \A d \in Controllers \ {c} : ctl'[d] = ctl[d]
      /\ proc' = [proc EXCEPT ![SpaceOf[c]][ctl[c].pid] = NoStart]
      /\ UNCHANGED <<file, guard>>
  BY DEF Crash, Become, Exit, TypeOK, Control
<1>2. ctl[c].pc # "flock"
  BY DEF Crash, IdentityAssumption, TypeOK, Control
<1>3. \A d \in Controllers : Holding(d)' => d # c /\ Holding(d)  BY <1>1 DEF Holding
<1>4. ProcessesShown'
  <2>1. ctl[c].pid # InitPid /\ ctl[c].pid \in Pids /\ SpaceOf[c] \in Spaces
    BY <1>1 DEF ProcessesShown, TypeOK, Control
  <2>2. \A s \in Spaces : proc'[s][InitPid] \in Starts
    BY <1>1, <2>1 DEF ProcessesShown, TypeOK
  <2>3. ASSUME NEW d \in Controllers, ctl'[d].live
        PROVE /\ ctl'[d].pid # InitPid /\ ctl'[d].start \in Starts
              /\ proc'[SpaceOf[d]][ctl'[d].pid] = ctl'[d].start
    <3>1. d # c /\ ctl'[d] = ctl[d] /\ ctl[d].live  BY <1>1, <2>3
    <3>2. SpaceOf[d] # SpaceOf[c] \/ ctl[d].pid # ctl[c].pid  BY <1>1, <3>1 DEF PidsDistinct
    <3>3. ctl[d].pid \in Pids /\ SpaceOf[d] \in Spaces  BY DEF TypeOK, Control
    <3>4. proc'[SpaceOf[d]][ctl[d].pid] = proc[SpaceOf[d]][ctl[d].pid]
      BY <1>1, <2>1, <3>2, <3>3 DEF TypeOK
    <3>. QED  BY <3>1, <3>4 DEF ProcessesShown
  <2>. QED  BY <2>2, <2>3 DEF ProcessesShown
<1>5. PidsDistinct' /\ ParentKnown'  BY <1>1, <1>2 DEF PidsDistinct, ParentKnown
<1>6. WriterAlone'  BY <1>1, <1>3 DEF WriterAlone, LeaseOf
<1>7. LeasePreserved'  BY <1>1, <1>3 DEF LeasePreserved, LeaseOf
<1>. QED  BY <1>4, <1>5, <1>6, <1>7 DEF Rest

LEMMA WorkerDiesKeeps == ASSUME IInv, TypeOK', NEW c \in Controllers, WorkerDies(c) PROVE Rest'
<1>. USE LeaseAssumption DEF IInv, At
<1>1. /\ ~ctl'[c].live /\ ctl'[c].pc = "idle"
      /\ \A d \in Controllers \ {c} : ctl'[d] = ctl[d]
      /\ guard' = guard \/ guard = c
      /\ UNCHANGED <<proc, file>>
  BY DEF WorkerDies, Become, NotRunning, TypeOK, Control
<1>2. \A d \in Controllers : Holding(d)' => d # c /\ Holding(d)  BY <1>1 DEF Holding
<1>3. ProcessesShown' /\ PidsDistinct' /\ ParentKnown'
  BY <1>1 DEF ProcessesShown, PidsDistinct, ParentKnown
<1>4. WriterAlone' /\ LeasePreserved'
  BY <1>1, <1>2 DEF WriterAlone, LeasePreserved, LeaseOf
<1>. QED  BY <1>3, <1>4 DEF Rest

\* Steps that change no controller.
LEMMA OthersKeep ==
  ASSUME IInv, TypeOK', UNCHANGED <<ctl, guard>>, file' = file \/ RemoveByHand,
         proc' = proc \/ \E s \in Spaces, p \in ForeignPids : ForeignStart(s, p)
  PROVE  Rest'
<1>. USE LeaseAssumption DEF IInv, At
<1>1. ProcessesShown'
  <2>1. CASE proc' = proc  BY <2>1 DEF ProcessesShown
  <2>2. ASSUME NEW s \in Spaces, NEW p \in ForeignPids, ForeignStart(s, p) PROVE ProcessesShown'
    BY <2>2 DEF ForeignStart, ProcessesShown, TypeOK, Control
  <2>. QED  BY <2>1, <2>2
<1>2. \A d \in Controllers : Holding(d)' <=> Holding(d)  BY DEF Holding
<1>3. PidsDistinct' /\ ParentKnown' /\ WriterAlone'
  BY <1>2 DEF PidsDistinct, ParentKnown, WriterAlone, LeaseOf
<1>4. LeasePreserved'
  <2>1. CASE file' = file  BY <1>2, <2>1 DEF LeasePreserved, LeaseOf
  <2>2. ASSUME RemoveByHand, NEW d \in Controllers, Holding(d) PROVE FALSE
    BY <2>2 DEF RemoveByHand, LeasePreserved, LeaseOf, Holding, WriterAlone, TypeOK, Control, PCs
  <2>. QED  BY <1>2, <2>1, <2>2 DEF LeasePreserved
<1>. QED  BY <1>1, <1>3, <1>4 DEF Rest

-------------------------------------------------------------------------------
\* Every step keeps the inductive invariant.
LEMMA NextIInv == IdentityAssumption /\ IInv /\ [Next]_vars => IInv'
<1>. SUFFICES ASSUME IdentityAssumption, IInv, [Next]_vars PROVE IInv'  OBVIOUS
<1>1. TypeOK'  BY NextTypes
<1>2. ASSUME NEW c \in Controllers, Run(c) PROVE Rest'  BY <1>1, <1>2, RunKeeps
<1>3. ASSUME NEW c \in Controllers, Call(c) PROVE Rest'
  <2>1. CASE GetParent(c)  BY <1>1, <2>1, GetParentKeeps
  <2>2. CASE Refuse(c)  BY <1>1, <2>2, EndedKeeps DEF Refuse, At
  <2>3. CASE Acquire(c)  BY <1>1, <2>3, AcquireKeeps
  <2>4. CASE Truncate(c)  BY <1>1, <2>4, TruncateKeeps
  <2>5. CASE Dump(c)  BY <1>1, <2>5, DumpKeeps
  <2>6. CASE EndBlock(c)  BY <1>1, <2>6, EndBlockKeeps
  <2>7. CASE Release(c)
    <3>1. \A d \in Controllers \ {c} : ~Holding(d)
      BY <2>7, NotRefusedAlone DEF Release
    <3>. QED  BY <1>1, <2>7, <3>1, EndedKeeps DEF Release, At
  <2>. QED  BY <1>3, <2>1, <2>2, <2>3, <2>4, <2>5, <2>6, <2>7 DEF Call
<1>4. ASSUME NEW c \in Controllers, Crash(c) PROVE Rest'  BY <1>1, <1>4, CrashKeeps
<1>5. ASSUME NEW c \in Controllers, WorkerDies(c) PROVE Rest'  BY <1>1, <1>5, WorkerDiesKeeps
<1>6. ASSUME NEW s \in Spaces, NEW p \in ForeignPids, ForeignStart(s, p) PROVE Rest'
  <2>1. UNCHANGED <<file, guard, ctl>>  BY <1>6 DEF ForeignStart
  <2>. QED  BY <1>1, <1>6, <2>1, OthersKeep
<1>7. ASSUME RemoveByHand PROVE Rest'
  <2>1. proc' = proc /\ guard' = guard /\ ctl' = ctl  BY <1>7 DEF RemoveByHand
  <2>. QED  BY <1>1, <1>7, <2>1, OthersKeep
<1>8. ASSUME UNCHANGED vars PROVE Rest'
  <2>1. proc' = proc /\ file' = file /\ guard' = guard /\ ctl' = ctl  BY <1>8 DEF vars
  <2>. QED  BY <1>1, <2>1, OthersKeep
<1>9. Next => Rest'
  BY <1>2, <1>3, <1>4, <1>5, <1>6, <1>7 DEF Next
<1>. QED  BY <1>1, <1>8, <1>9 DEF IInv, Rest

\* The file names the live holder of the lease, until that holder releases it.
THEOREM LeaseIsPreserved == ASSUME IdentityAssumption PROVE Spec => []LeasePreserved
<1>1. Init => IInv  BY InitIInv
<1>2. IInv /\ [Next]_vars => IInv'  BY NextIInv
<1>3. IInv => LeasePreserved  BY DEF IInv
<1>. QED  BY <1>1, <1>2, <1>3, PTL DEF Spec

\* At most one live controller is between its acquire and its release.
THEOREM LeaseExcludes == ASSUME IdentityAssumption PROVE Spec => []MutualExclusion
<1>1. Init => IInv  BY InitIInv
<1>2. IInv /\ [Next]_vars => IInv'  BY NextIInv
<1>3. IInv => MutualExclusion  BY PreservedExcludes
<1>. QED  BY <1>1, <1>2, <1>3, PTL DEF Spec
===============================================================================
