--------------------------- MODULE LifecycleProofs ---------------------------
(***************************************************************************)
(* Proofs about the connection pool and the shutdown, for every size of    *)
(* the pool and every number of workers and rows.                          *)
(***************************************************************************)
EXTENDS Lifecycle, FiniteSetTheorems, TLAPS

USE LifecycleAssumption DEF Alone

\* The workers with a transaction can be counted, and so can their changes.
LEMMA WorkerTxsCount ==
    /\ IsFiniteSet(WorkerTxs) /\ Cardinality(WorkerTxs) \in Nat
    /\ \A w \in Worker : w \notin WorkerTxs =>
          Cardinality(WorkerTxs \cup {w}) = Cardinality(WorkerTxs) + 1
    /\ \A w \in WorkerTxs :
          /\ Cardinality(WorkerTxs \ {w}) = Cardinality(WorkerTxs) - 1
          /\ Cardinality(WorkerTxs) > 0
  <1>1. IsFiniteSet(WorkerTxs)
    BY FS_Subset DEF WorkerTxs
  <1>2. Cardinality(WorkerTxs) \in Nat
    BY <1>1, FS_CardinalityType
  <1>3. ASSUME NEW w \in Worker, w \notin WorkerTxs
        PROVE  Cardinality(WorkerTxs \cup {w}) = Cardinality(WorkerTxs) + 1
    BY <1>1, <1>3, FS_AddElement
  <1>4. ASSUME NEW w \in WorkerTxs
        PROVE  /\ Cardinality(WorkerTxs \ {w}) = Cardinality(WorkerTxs) - 1
               /\ Cardinality(WorkerTxs) > 0
    <2>1. Cardinality(WorkerTxs \ {w}) = Cardinality(WorkerTxs) - 1
      BY <1>1, FS_RemoveElement
    <2>2. Cardinality(WorkerTxs \ {w}) \in Nat
      BY <1>1, FS_RemoveElement, FS_CardinalityType
    <2> QED BY <1>2, <2>1, <2>2
  <1> QED BY <1>1, <1>2, <1>3, <1>4

\* The initial states satisfy the invariant.
LEMMA LifecycleInit == Init => LifecycleInv
  <1> SUFFICES ASSUME Init PROVE LifecycleInv
    OBVIOUS
  <1>1. TypeOK
    BY DEF Init, TypeOK
  <1>2. WorkerTxs = {}
    BY DEF Init, WorkerTxs
  <1>3. ConnectionsAccounted
    BY <1>2, FS_EmptySet DEF Init, ConnectionsAccounted, SchedulerTx, MainConn
  <1>4. UnmarkedSinceReset
    BY DEF Init, UnmarkedSinceReset
  <1>5. AloneAtStart
    BY DEF Init, AloneAtStart
  <1> QED BY <1>1, <1>3, <1>4, <1>5 DEF LifecycleInv

\* Whoever takes a step of the scheduler or of a worker is not alone, ...
LEMMA GoroutineAlone ==
    ASSUME LifecycleInv, SchedulerNext \/ SchedulerFails \/ \E w \in Worker : WorkerNext(w)
    PROVE  /\ ~(Starting \/ main = "down") /\ main' = main
           /\ AloneAtStart'
  <1> USE DEF LifecycleInv
  <1>1. main' = main
    BY DEF SchedulerNext, SchedulerFails, BeginCount, EndCount, BeginSeed, EndSeed, Poll,
           EmptyPoll, EmptyRound, StartRound, EndRound, WorkerNext, Receive, NewTx, NewTxFails,
           Done, Commit, Rollback
  <1>2. CASE SchedulerNext \/ SchedulerFails
    <2>1. sched # "stopped"
      BY <1>2 DEF SchedulerNext, SchedulerFails, BeginCount, EndCount, BeginSeed, EndSeed, Poll,
             EmptyPoll, EmptyRound, StartRound, EndRound
    <2> QED BY <1>1, <2>1 DEF AloneAtStart, Starting
  <1>3. ASSUME NEW w \in Worker, WorkerNext(w)
        PROVE  jobs # {} \/ pc[w] # "idle"
    BY <1>3 DEF WorkerNext, Receive, NewTx, NewTxFails, Done, Commit, Rollback
  <1> QED BY <1>1, <1>2, <1>3 DEF AloneAtStart, Starting

\* The steps of the scheduler take a connection, give it back, or make it a leaked one.
LEMMA SchedulerAccounted ==
    ASSUME LifecycleInv, SchedulerNext \/ SchedulerFails
    PROVE  LifecycleInv'
  <1> USE DEF LifecycleInv
  <1>1. /\ WorkerTxs' = WorkerTxs /\ MainConn' = MainConn
        /\ AloneAtStart'
        /\ main' = main /\ main # "down" /\ pc' = pc /\ job' = job /\ lost' = lost
    BY GoroutineAlone
       DEF SchedulerNext, SchedulerFails, BeginCount, EndCount, BeginSeed, EndSeed, Poll,
           EmptyPoll, EmptyRound, StartRound, EndRound, Running, WorkerTxs, MainConn
  <1>2. TypeOK /\ Cardinality(WorkerTxs) \in Nat /\ MainConn \in {0, 1}
    BY WorkerTxsCount DEF MainConn
  <1> USE <1>1, <1>2
  <1> USE DEF ConnectionsAccounted, TypeOK, SchedulerTx, Take, Give
  <1>3. CASE BeginCount
    BY <1>3 DEF BeginCount, UnmarkedSinceReset, Rows
  <1>4. CASE EndCount
    BY <1>4 DEF EndCount, UnmarkedSinceReset, Rows
  <1>5. CASE BeginSeed
    BY <1>5 DEF BeginSeed, UnmarkedSinceReset, Rows
  <1>6. CASE EndSeed
    BY <1>6 DEF EndSeed, UnmarkedSinceReset, Rows
  <1>7. CASE Poll
    BY <1>7 DEF Poll, UnmarkedSinceReset, Rows
  <1>8. CASE EmptyPoll
    BY <1>8 DEF EmptyPoll, UnmarkedSinceReset, Rows
  <1>9. CASE StartRound
    <2>1. PICK old \in SUBSET URL, batch \in SUBSET URL :
              /\ urls' = [u \in URL |-> IF u \in batch THEN "processing"
                                        ELSE IF u \in old THEN "pending" ELSE urls[u]]
              /\ jobs' = batch
              /\ late' = late \cup batch
      <3>1. PICK old \in SUBSET Rows("absent") :
               \E batch \in SUBSET (Rows("pending") \cup old) \ {{}} :
                  /\ urls' = [u \in URL |-> IF u \in batch THEN "processing"
                                            ELSE IF u \in old THEN "pending" ELSE urls[u]]
                  /\ jobs' = batch
                  /\ late' = late \cup batch
        BY <1>9 DEF StartRound
      <3>2. old \subseteq URL /\ Rows("pending") \subseteq URL
        BY DEF Rows
      <3>3. SUBSET (Rows("pending") \cup old) \ {{}} \subseteq SUBSET URL
        BY <3>2
      <3> QED BY <3>1, <3>2, <3>3
    <2>3. TypeOK'
      BY <1>9, <2>1 DEF StartRound
    <2>4. ConnectionsAccounted'
      BY <1>9 DEF StartRound
    <2>5. UnmarkedSinceReset'
      BY <2>1 DEF UnmarkedSinceReset, Rows
    <2> QED BY <2>3, <2>4, <2>5
  <1>10. CASE EndRound
    BY <1>10 DEF EndRound, UnmarkedSinceReset, Rows
  <1>11. CASE SchedulerFails
    BY <1>11 DEF SchedulerFails, UnmarkedSinceReset, Rows
  <1>12. CASE EmptyRound
    BY <1>12 DEF EmptyRound, UnmarkedSinceReset, Rows
  <1> QED
    BY <1>3, <1>4, <1>5, <1>6, <1>7, <1>8, <1>9, <1>10, <1>11, <1>12 DEF SchedulerNext

\* The steps of a worker: it holds one connection from NewTx to the end of its
\* transaction.
LEMMA WorkerAccounted ==
    ASSUME LifecycleInv, NEW w \in Worker, WorkerNext(w)
    PROVE  LifecycleInv'
  <1> USE DEF LifecycleInv
  <1>1. /\ SchedulerTx' = SchedulerTx /\ MainConn' = MainConn
        /\ main' = main /\ sched' = sched /\ leaked' = leaked /\ late' = late
        /\ AloneAtStart'
    BY GoroutineAlone
       DEF WorkerNext, Receive, NewTx, NewTxFails, Done, Commit, Rollback, SchedulerTx, MainConn
  <1>2. /\ TypeOK /\ Cardinality(WorkerTxs) \in Nat
        /\ MainConn \in {0, 1} /\ SchedulerTx \in {0, 1}
    BY WorkerTxsCount DEF MainConn, SchedulerTx
  <1>3. ASSUME pc' = [pc EXCEPT ![w] = "tx"], pc[w] = "begin"
        PROVE  Cardinality(WorkerTxs') = Cardinality(WorkerTxs) + 1
    <2>1. w \notin WorkerTxs /\ WorkerTxs' = WorkerTxs \cup {w}
      BY <1>2, <1>3 DEF WorkerTxs, TypeOK
    <2> QED BY <2>1, WorkerTxsCount
  <1>4. ASSUME NEW p \in {"idle", "fatal"}, pc' = [pc EXCEPT ![w] = p], pc[w] = "end"
        PROVE  Cardinality(WorkerTxs') = Cardinality(WorkerTxs) - 1 /\ Cardinality(WorkerTxs) > 0
    <2>1. w \in WorkerTxs /\ WorkerTxs' = WorkerTxs \ {w}
      BY <1>2, <1>4 DEF WorkerTxs, TypeOK
    <2> QED BY <2>1, WorkerTxsCount
  <1> USE <1>1, <1>2
  <1>5. CASE Receive(w)
    <2>1. WorkerTxs' = WorkerTxs
      BY <1>5 DEF Receive, Goto, WorkerTxs, TypeOK
    <2>2. TypeOK'
      BY <1>5 DEF Receive, Goto, TypeOK
    <2> QED BY <1>5, <2>1, <2>2 DEF Receive, ConnectionsAccounted, UnmarkedSinceReset, Rows
  <1>6. CASE NewTx(w)
    <2>1. Cardinality(WorkerTxs') = Cardinality(WorkerTxs) + 1
      BY <1>3, <1>6 DEF NewTx, Goto
    <2>2. TypeOK'
      BY <1>6 DEF NewTx, Goto, Take, TypeOK
    <2>3. ConnectionsAccounted'
      BY <1>6, <2>1 DEF NewTx, Take, ConnectionsAccounted, TypeOK
    <2> QED BY <1>6, <2>2, <2>3 DEF NewTx, UnmarkedSinceReset, Rows
  <1>7. CASE NewTxFails(w)
    <2>1. WorkerTxs' = WorkerTxs
      BY <1>7 DEF NewTxFails, Goto, WorkerTxs, TypeOK
    <2>2. TypeOK'
      BY <1>7 DEF NewTxFails, Goto, TypeOK
    <2> QED BY <1>7, <2>1, <2>2 DEF NewTxFails, ConnectionsAccounted, UnmarkedSinceReset, Rows
  <1>8. CASE Done(w)
    <2>1. WorkerTxs' = WorkerTxs
      BY <1>8 DEF Done, Goto, WorkerTxs, TypeOK
    <2>2. TypeOK'
      BY <1>8 DEF Done, Goto, TypeOK
    <2> QED BY <1>8, <2>1, <2>2 DEF Done, ConnectionsAccounted, UnmarkedSinceReset, Rows
  <1>9. CASE Commit(w)
    <2>1. Cardinality(WorkerTxs') = Cardinality(WorkerTxs) - 1 /\ Cardinality(WorkerTxs) > 0
      BY <1>4, <1>9 DEF Commit, Goto
    <2>2. ConnectionsAccounted' /\ inUse' \in Nat
      BY <1>9, <2>1 DEF Commit, Give, ConnectionsAccounted, TypeOK
    <2>3. TypeOK'
      BY <1>9, <2>2 DEF Commit, Goto, TypeOK
    <2>4. UnmarkedSinceReset'
      BY <1>9 DEF Commit, UnmarkedSinceReset, Rows
    <2> QED BY <2>2, <2>3, <2>4
  <1>10. CASE Rollback(w)
    <2>1. Cardinality(WorkerTxs') = Cardinality(WorkerTxs) - 1 /\ Cardinality(WorkerTxs) > 0
      BY <1>4, <1>10 DEF Rollback, Goto
    <2>2. ConnectionsAccounted' /\ inUse' \in Nat
      BY <1>10, <2>1 DEF Rollback, Give, ConnectionsAccounted, TypeOK
    <2>3. TypeOK'
      BY <1>10, <2>2 DEF Rollback, Goto, TypeOK
    <2> QED BY <1>10, <2>2, <2>3 DEF Rollback, UnmarkedSinceReset, Rows
  <1> QED
    BY <1>5, <1>6, <1>7, <1>8, <1>9, <1>10 DEF WorkerNext

\* The steps of main, a crash and a start.
LEMMA MainAccounted ==
    ASSUME LifecycleInv,
           \/ StartNext \/ FileFails \/ StartFails
           \/ MainNext \/ ResetFails \/ ReceiveSignal \/ Crash \/ Start
    PROVE  LifecycleInv'
  <1> USE DEF LifecycleInv
  <1>1. /\ TypeOK /\ Cardinality(WorkerTxs) \in Nat
        /\ MainConn \in {0, 1} /\ SchedulerTx \in {0, 1}
    BY WorkerTxsCount DEF MainConn, SchedulerTx
  <1>2. ASSUME UNCHANGED pc \/ \E w \in Worker : pc[w] = "fatal" /\ pc' = [pc EXCEPT ![w] = "idle"]
        PROVE  WorkerTxs' = WorkerTxs
    BY <1>1, <1>2 DEF WorkerTxs, TypeOK
  <1> USE <1>1
  <1> USE DEF ConnectionsAccounted, SchedulerTx, MainConn, UnmarkedSinceReset, AloneAtStart, Starting
  <1>3. CASE ReceiveFatalOfScheduler
    <2>1. WorkerTxs' = WorkerTxs
      BY <1>2, <1>3 DEF ReceiveFatalOfScheduler
    <2> QED BY <1>3, <2>1 DEF ReceiveFatalOfScheduler, Give, TypeOK
  <1>4. ASSUME NEW w \in Worker, ReceiveFatalOf(w) PROVE LifecycleInv'
    <2>1. WorkerTxs' = WorkerTxs
      BY <1>2, <1>4 DEF ReceiveFatalOf, Goto
    <2> QED BY <1>4, <2>1 DEF ReceiveFatalOf, Goto, TypeOK
  <1>5. CASE Reset
    <2>1. WorkerTxs' = WorkerTxs
      BY <1>2, <1>5 DEF Reset
    <2>2. TypeOK'
      BY <1>5 DEF Reset, Take, TypeOK
    <2> QED BY <1>5, <2>1, <2>2 DEF Reset, Take, TypeOK, Rows
  <1>6. CASE Ends
    <2>1. WorkerTxs' = {}
      BY <1>6 DEF Ends, WorkerTxs
    <2>2. Cardinality(WorkerTxs') = 0
      BY <2>1, FS_EmptySet
    <2> QED BY <1>6, <2>2 DEF Ends, TypeOK
  <1>7. CASE Start
    <2>1. WorkerTxs' = WorkerTxs
      BY <1>2, <1>7 DEF Start
    <2> QED BY <1>7, <2>1 DEF Start, TypeOK
  <1>8. CASE ReceiveSignal \/ ResetFails
    <2>1. WorkerTxs' = WorkerTxs
      BY <1>2, <1>8 DEF ReceiveSignal, ResetFails
    <2> QED BY <1>8, <2>1 DEF ReceiveSignal, ResetFails, TypeOK
  <1>9. CASE Connect \/ BeginFile \/ FileFails
    <2>1. WorkerTxs' = WorkerTxs
      BY <1>2, <1>9 DEF Connect, BeginFile, FileFails
    <2> QED BY <1>9, <2>1 DEF Connect, BeginFile, FileFails, RunApp, Take, Give, TypeOK
  <1>10. CASE CommitFile
    <2>1. WorkerTxs' = WorkerTxs
      BY <1>2, <1>10 DEF CommitFile
    <2>2. urls' \in [URL -> {"absent", "pending", "processing"}]
      BY <1>10 DEF CommitFile, TypeOK
    <2> QED BY <1>10, <2>1, <2>2 DEF CommitFile, RunApp, Give, TypeOK
  <1> QED
    BY <1>3, <1>4, <1>5, <1>6, <1>7, <1>8, <1>9, <1>10
    DEF MainNext, StartNext, StartFails, Close, Crash

\* Every step preserves the invariant.
LEMMA LifecycleNext == LifecycleInv /\ [Next]_vars => LifecycleInv'
  <1> SUFFICES ASSUME LifecycleInv, [Next]_vars PROVE LifecycleInv'
    OBVIOUS
  <1>1. CASE UNCHANGED vars
    BY <1>1 DEF vars, LifecycleInv, TypeOK, ConnectionsAccounted, UnmarkedSinceReset, SchedulerTx,
                MainConn, WorkerTxs, Rows, AloneAtStart, Starting
  <1>2. CASE Next
    BY <1>2, SchedulerAccounted, WorkerAccounted, MainAccounted DEF Next
  <1> QED BY <1>1, <1>2

\* The invariant holds throughout.
THEOREM LifecycleInvariance == Spec => []LifecycleInv
  BY LifecycleInit, LifecycleNext, PTL DEF Spec

\* Every connection that is out is that of a transaction which somebody will end or of
\* one that the scheduler has forgotten, and the pool is never overdrawn.
THEOREM PoolAccounted == Spec => []ConnectionsAccounted
  <1>1. LifecycleInv => ConnectionsAccounted
    BY DEF LifecycleInv
  <1> QED BY <1>1, LifecycleInvariance, PTL

\* After a shutdown whose UPDATE has succeeded the marked rows are those of rounds that
\* were started after it (Database.Shutdown).
THEOREM ShutdownLeavesNoMarks == Spec => ShutdownUnmarks
  <1>1. LifecycleInv /\ [Next]_vars =>
            [main = "close" /\ Close => Rows("processing") \subseteq late]_vars
    BY DEF LifecycleInv, UnmarkedSinceReset
  <1> QED BY <1>1, LifecycleInvariance, PTL DEF Spec, ShutdownUnmarks

\* A start adds all its seeds or none and touches no row that is there (AddURLsFromFile):
\* until runApp there is nobody but main, and main writes rows in CommitFile only.  When the
\* start has failed main is still alone, and writes in Reset only, which takes marks away.
THEOREM StartIsAtomic == Spec => SeedsAllOrNone
  <1>1. ASSUME LifecycleInv, Next, Starting, urls' # urls
        PROVE  /\ main' = "select"
               /\ \A u \in URL : urls[u] # "absent" => urls'[u] = urls[u]
    <2>1. CommitFile
      BY <1>1, GoroutineAlone
      DEF Next, StartNext, FileFails, StartFails, Connect, BeginFile, MainNext, Starting,
          ReceiveFatalOfScheduler, ReceiveFatalOf, Reset, Close, Ends, ResetFails, ReceiveSignal,
          Crash, Start
    <2> QED BY <2>1 DEF CommitFile, RunApp, Rows
  <1>2. ASSUME LifecycleInv, Next, main \in {"reset", "close", "closeMarked"}, Alone,
               NEW u \in URL, urls'[u] # urls[u]
        PROVE  urls[u] = "processing" /\ urls'[u] = "pending"
    <2>1. ~(SchedulerNext \/ SchedulerFails)
      BY <1>2 DEF SchedulerNext, SchedulerFails, BeginCount, EndCount, BeginSeed, EndSeed, Poll,
             EmptyPoll, EmptyRound, StartRound, EndRound
    <2>2. \A w \in Worker : ~WorkerNext(w)
      BY <1>2 DEF WorkerNext, Receive, NewTx, NewTxFails, Done, Commit, Rollback
    <2>3. Reset
      BY <1>2, <2>1, <2>2
      DEF Next, StartNext, FileFails, StartFails, Connect, BeginFile, CommitFile, MainNext,
          ReceiveFatalOfScheduler, ReceiveFatalOf, Close, Ends, ResetFails, ReceiveSignal,
          Crash, Start
    <2> QED BY <1>2, <2>3 DEF Reset
  <1>3. LifecycleInv /\ [Next]_vars =>
            [/\ Starting /\ urls' # urls =>
                   /\ main' = "select"
                   /\ \A u \in URL : urls[u] # "absent" => urls'[u] = urls[u]
             /\ main \in {"reset", "close", "closeMarked"} /\ Alone =>
                   \A u \in URL : urls'[u] # urls[u] =>
                                     urls[u] = "processing" /\ urls'[u] = "pending"]_vars
    BY <1>1, <1>2
  <1> QED BY <1>3, LifecycleInvariance, PTL DEF Spec, SeedsAllOrNone
=============================================================================
