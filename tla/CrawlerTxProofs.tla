-------------------------- MODULE CrawlerTxProofs --------------------------
(***************************************************************************)
(* Proofs about what the transactions of the workers do to the tables:     *)
(* a row leaves the queue only with a record, the links of a page that is  *)
(* committed are queued or crawled, and other schemes are left alone.      *)
(***************************************************************************)
EXTENDS CrawlerProofs

USE DEF Tx

-----------------------------------------------------------------------------
(***************************************************************************)
(* How the tables move.                                                    *)
(***************************************************************************)

\* No snapshot is ever lost, and a row goes only when there is a snapshot of its URL.
TablesMove ==
    /\ \A u \in URL : hist[u] # "never" => hist'[u] # "never"
    /\ ~DryRun => \A u \in URL : urls[u] # "absent" /\ urls'[u] = "absent" => hist'[u] # "never"

\* What a worker has in its hands and in its transaction.
SameWorker(v) ==
    /\ pc'[v] = pc[v] /\ job'[v] = job[v] /\ res'[v] = res[v]
    /\ found'[v] = found[v] /\ stored'[v] = stored[v] /\ link'[v] = link[v]
    /\ ins'[v] = ins[v] /\ del'[v] = del[v] /\ wrote'[v] = wrote[v]

LEMMA StillTables ==
    ASSUME UNCHANGED <<urls, hist>>
    PROVE  TablesMove
  BY DEF TablesMove

\* The end of a transaction leaves what the others wrote (Commit and Rollback).
LEMMA ForgetLeavesOthers ==
    ASSUME NEW t \in Tx, DbTypeOK, Forget(t)
    PROVE  \A o \in Tx : o # t => ins'[o] = ins[o] /\ del'[o] = del[o] /\ wrote'[o] = wrote[o]
  BY DEF Forget, DbTypeOK

\* A worker that does not move keeps its part of the invariant, however the others move
\* the tables.
LEMMA OthersKeep ==
    ASSUME TypeOK, NEW v \in Worker, WorkerTxInv(v), SameWorker(v), TablesMove,
           main = "reset" => main' = "reset"
    PROVE  WorkerTxInv(v)'
  <1> USE DEF WorkerTxInv, SameWorker
  <1>1. \A u \in del[v] \cup stored[v] : u \in URL
    BY DEF TypeOK, DbTypeOK
  <1>2. OnlyGemini(v)'
    BY DEF OnlyGemini, Active
  <1>3. DeletesRecorded(v)'
    BY <1>1 DEF DeletesRecorded, WillHaveRecord, TablesMove
  <1>4. AllOrNothing(v)'
    BY DEF AllOrNothing
  <1>5. LinksKept(v)'
    <2>1. KeepsLinks(v)' <=> KeepsLinks(v)
      BY DEF KeepsLinks
    <2>2. ASSUME ~DryRun, NEW l \in stored[v], Sees(v, l) \/ hist[l] # "never" \/ l = job[v]
          PROVE  Sees(v, l)' \/ hist'[l] # "never" \/ l = job'[v]
      BY <1>1, <2>2 DEF Sees, TablesMove
    <2> QED
      BY <2>1, <2>2 DEF LinksKept
  <1> QED
    BY <1>2, <1>3, <1>4, <1>5

\* A step of one worker moves no other worker and no other transaction.
LEMMA OthersStandStill ==
    ASSUME TypeOK, JobsAreURLs, NEW w \in Worker, WorkerNext(w) \/ WorkerFails(w)
    PROVE  /\ \A v \in Worker : v # w => SameWorker(v)
           /\ ins'[Scheduler] = ins[Scheduler]
           /\ main' = main
  <1>0. DbTypeOK /\ Scheduler # w
    BY DatabaseAssumption DEF TypeOK
  <1>1. \A v \in Worker : v # w =>
           /\ pc'[v] = pc[v] /\ job'[v] = job[v] /\ res'[v] = res[v]
           /\ found'[v] = found[v] /\ stored'[v] = stored[v] /\ link'[v] = link[v]
    BY DEF WorkerNext, WorkerFails, Receive, ReturnEarly, RejectScheme, Refuse, Admit, Acquire,
       VisitGemini, VisitGopher, VisitRedirect, VisitBadRedirect, Brings, CheckLink, InsertLink,
       RejectLink, LinksStored, Identical, Different, Save, Release, Done, CommitTx, RollbackTx,
       DeadlockVictim, CommitFails, DbFails, TimesOut, TimesOutLate, Return, Goto, Fail,
       pageVars, workerVars, TypeOK
  <1>2. \A t \in Tx : t # w => ins'[t] = ins[t] /\ del'[t] = del[t] /\ wrote'[t] = wrote[t]
    <2>1. CASE InsertLink(w)
      <3>1. link[w] \in URL /\ InsertURL(w, link[w]) /\ UNCHANGED <<del, wrote>>
        BY <2>1 DEF InsertLink, TypeOK
      <3> QED
        BY <1>0, <3>1, InsertURLEffect
    <2>2. CASE Identical(w) \/ Save(w)
      <3>1. job[w] \in URL /\ DeleteURL(w, job[w])
        BY <2>2 DEF Identical, Save, Active, JobsAreURLs
      <3>2. \A t \in Tx : t # w => wrote'[t] = wrote[t]
        BY <1>0, <2>2 DEF Identical, Save, SaveSnapshot, UpdateLastCrawled, DbTypeOK
      <3> QED
        BY <1>0, <3>1, <3>2, DeleteURLEffect
    <2>3. CASE Forget(w)
      BY <1>0, <2>3, ForgetLeavesOthers
    <2>4. CASE UNCHANGED <<ins, del, wrote>>
      BY <2>4
    <2> QED
      BY <2>1, <2>2, <2>3, <2>4
         DEF WorkerNext, WorkerFails, Receive, ReturnEarly, RejectScheme, Refuse, Admit, Acquire,
             VisitGemini, VisitGopher, VisitRedirect, VisitBadRedirect, Brings, CheckLink,
             RejectLink, LinksStored, Different, Release, Done, CommitTx, Commit, MarkAndCommit,
             RollbackTx, DeadlockVictim, CommitFails, DbFails, TimesOut, TimesOutLate, Discard, dbVars
  <1>3. main' = main
    BY DEF WorkerNext, WorkerFails, Receive, ReturnEarly, RejectScheme, Refuse, Admit, Acquire,
       VisitGemini, VisitGopher, VisitRedirect, VisitBadRedirect, Brings, CheckLink, InsertLink,
       RejectLink, LinksStored, Identical, Different, Save, Release, Done, CommitTx, RollbackTx,
       DeadlockVictim, CommitFails, DbFails, TimesOut, TimesOutLate
  <1> QED
    BY <1>0, <1>1, <1>2, <1>3 DEF SameWorker

\* A commit writes the snapshots that it has promised.
LEMMA CommitMovesTables ==
    ASSUME IInv, TxInv, NEW t \in Tx, NEW marked \in SUBSET URL, MarkAndCommit(t, marked)
    PROVE  TablesMove /\ RecentHaveHistory'
  <1>1. DbTypeOK /\ InsertsAreNew /\ DeletesAreOwn
    BY DEF IInv, TypeOK
  <1>2. hist' = [u \in URL |-> HistAfter(t, u)]
    BY DEF MarkAndCommit
  <1>3. ASSUME NEW u \in URL
        PROVE  /\ hist[u] # "never" => HistAfter(t, u) # "never"
               /\ WillHaveRecord(t, u) => HistAfter(t, u) # "never"
    BY DEF HistAfter, WillHaveRecord
  <1>4. ASSUME ~DryRun, NEW u \in URL, urls[u] # "absent", urls'[u] = "absent"
        PROVE  hist'[u] # "never"
    <2>1. u \in del[t]
      BY <1>4 DEF MarkAndCommit
    <2>2. t \in Worker
      BY <1>1, <2>1 DEF DeletesAreOwn
    <2>3. WillHaveRecord(t, u)
      BY <1>4, <2>1, <2>2 DEF TxInv, WorkerTxInv, DeletesRecorded
    <2> QED
      BY <1>2, <1>3, <2>3
  <1>5. TablesMove
    BY <1>2, <1>3, <1>4 DEF TablesMove
  <1>6. RecentHaveHistory'
    <2>1. recent' = recent \cup {u \in URL : {<<u, "gemtext">>, <<u, "other">>} \cap wrote[t] # {}}
      BY DEF MarkAndCommit
    <2>2. \A u \in recent : u \in URL /\ hist[u] # "never"
      BY <1>1 DEF TxInv, RecentHaveHistory, DbTypeOK
    <2>3. \A u \in recent' : u \in URL /\ (u \in recent \/ WillHaveRecord(t, u))
      BY <2>1, <2>2 DEF WillHaveRecord
    <2> QED
      BY <1>2, <1>3, <2>2, <2>3 DEF RecentHaveHistory
  <1> QED
    BY <1>5, <1>6

-----------------------------------------------------------------------------
(***************************************************************************)
(* The steps of a worker.                                                  *)
(***************************************************************************)

\* A step of worker w that leaves the tables keeps the invariant when it keeps the part
\* of w.
LEMMA OwnStep ==
    ASSUME IInv, TxInv, NEW w \in Worker,
           UNCHANGED <<urls, recent, hist, batch>>, jobs' \subseteq jobs,
           ins'[Scheduler] = ins[Scheduler],
           main = "reset" => main' = "reset",
           \A v \in Worker : v # w => SameWorker(v),
           WorkerTxInv(w)'
    PROVE  TxInv'
  <1>1. \A v \in Worker : v # w => WorkerTxInv(v)'
    BY OthersKeep, StillTables DEF TxInv, IInv
  <1>2. SendsOnlyGemini' /\ RecentHaveHistory'
    BY DEF TxInv, SendsOnlyGemini, RecentHaveHistory
  <1> QED
    BY <1>1, <1>2 DEF TxInv

\* The steps of WorkOnUrl before the visit ends, and the release of the host: what the
\* transaction holds does not change.
LEMMA PlainWorkerStep ==
    ASSUME IInv, TxInv, NEW w \in Worker,
           \/ Receive(w) \/ RejectScheme(w) \/ Refuse(w) \/ Admit(w) \/ Acquire(w)
           \/ VisitGemini(w) \/ VisitGopher(w) \/ VisitRedirect(w) \/ VisitBadRedirect(w)
           \/ CheckLink(w) \/ RejectLink(w) \/ LinksStored(w) \/ Different(w)
           \/ Release(w) \/ Done(w)
    PROVE  TxInv'
  <1>0. TypeOK /\ DatabaseAssumption
    BY DatabaseAssumption DEF IInv
  <1>1. /\ UNCHANGED <<urls, recent, hist, ins, del, wrote, batch>> /\ jobs' \subseteq jobs
        /\ (\A v \in Worker : v # w => SameWorker(v)) /\ main' = main
    <2>1. UNCHANGED <<urls, recent, hist, ins, del, wrote, batch>> /\ jobs' \subseteq jobs
      BY DEF Receive, RejectScheme, Refuse, Admit, Acquire, VisitGemini, VisitGopher, Brings,
         VisitRedirect, VisitBadRedirect, CheckLink, RejectLink, LinksStored, Different, Release, Done,
         dbVars, schedVars, queueVars
    <2> QED
      BY <2>1, OthersStandStill DEF IInv, WorkerNext
  <1>2. WorkerTxInv(w)
    BY DEF TxInv
  <1>3. CASE Receive(w)
    <2>1. PICK u \in jobs : job' = [job EXCEPT ![w] = u]
      BY <1>3 DEF Receive
    <2>2. job'[w] = u /\ (~GopherEnable => Scheme[u] = "gemini")
      BY <1>0, <2>1 DEF TypeOK, TxInv, SendsOnlyGemini
    <2>3. /\ pc[w] = "idle" /\ pc'[w] = "start"
          /\ UNCHANGED <<res, found, stored, link>>
      BY <1>0, <1>3 DEF Receive, Goto, pageVars, TypeOK
    <2>4. WorkerTxInv(w)'
      BY <1>1, <1>2, <2>2, <2>3
         DEF WorkerTxInv, OnlyGemini, DeletesRecorded, WillHaveRecord, AllOrNothing, LinksKept, KeepsLinks
    <2> QED
      BY <1>1, <2>4, OwnStep
  <1>4. CASE RejectScheme(w) \/ VisitBadRedirect(w) \/ RejectLink(w)
    <2>1. /\ pc[w] \in {"start", "visit", "redirect", "links"} /\ pc'[w] \in {"release", "done"}
          /\ res'[w] = "fail" /\ UNCHANGED <<job, found, stored, link>>
      BY <1>0, <1>4 DEF RejectScheme, VisitBadRedirect, RejectLink, Fail, Goto, pageVars, TypeOK
    <2>2. WorkerTxInv(w)'
      BY <1>1, <1>2, <2>1
         DEF WorkerTxInv, OnlyGemini, Active, DeletesRecorded, WillHaveRecord, AllOrNothing, LinksKept, KeepsLinks
    <2> QED
      BY <1>1, <2>2, OwnStep
  <1>5. CASE Refuse(w) \/ Admit(w) \/ Acquire(w)
    <2>1. /\ pc[w] \in {"start", "acquire"} /\ pc'[w] \in {"refuse", "acquire", "visit"}
          /\ UNCHANGED <<job, res, found, stored, link>>
      BY <1>0, <1>5 DEF Refuse, Admit, Acquire, Goto, pageVars, TypeOK
    <2>2. WorkerTxInv(w)'
      BY <1>1, <1>2, <2>1
         DEF WorkerTxInv, OnlyGemini, Active, DeletesRecorded, WillHaveRecord, AllOrNothing, LinksKept, KeepsLinks
    <2> QED
      BY <1>1, <2>2, OwnStep
  <1>6. CASE VisitGemini(w) \/ VisitGopher(w) \/ VisitRedirect(w)
    <2>1. /\ pc[w] = "visit" /\ pc'[w] \in {"compare", "redirect"}
          /\ \A l \in found'[w] : ShouldPersist(l)
          /\ UNCHANGED <<job, res, stored, link>>
      BY <1>0, <1>6 DEF VisitGemini, VisitGopher, VisitRedirect, Brings, Goto, TypeOK
    <2>2. WorkerTxInv(w)'
      BY <1>1, <1>2, <2>1
         DEF WorkerTxInv, OnlyGemini, Active, DeletesRecorded, WillHaveRecord, AllOrNothing, LinksKept,
             KeepsLinks, ShouldPersist
    <2> QED
      BY <1>1, <2>2, OwnStep
  <1>7. CASE CheckLink(w)
    <2>1. /\ pc[w] \in {"redirect", "links"} /\ UNCHANGED <<pc, job, res, found>>
      BY <1>7 DEF CheckLink
    <2>2. PICK l \in found[w] :
             IF Visited(w, l)
             THEN stored' = [stored EXCEPT ![w] = @ \cup {l}] /\ UNCHANGED link
             ELSE link' = [link EXCEPT ![w] = l] /\ UNCHANGED stored
      BY <1>7 DEF CheckLink
    <2>3. /\ link'[w] \in {link[w], l}
          /\ stored'[w] \in {stored[w], stored[w] \cup {l}}
          /\ l \in stored'[w] /\ l \notin stored[w] => hist[l] # "never"
      BY <1>0, <2>2 DEF TypeOK, Visited, TxInv, RecentHaveHistory
    <2>4. OnlyGemini(w)'
      BY <1>1, <1>2, <2>1, <2>3 DEF WorkerTxInv, OnlyGemini, Active
    <2>5. LinksKept(w)'
      BY <1>1, <1>2, <2>1, <2>3 DEF WorkerTxInv, LinksKept, KeepsLinks, Sees
    <2>6. WorkerTxInv(w)'
      BY <1>1, <1>2, <2>1, <2>4, <2>5
         DEF WorkerTxInv, DeletesRecorded, WillHaveRecord, AllOrNothing
    <2> QED
      BY <1>1, <2>6, OwnStep
  <1>8. CASE LinksStored(w) \/ Different(w)
    <2>1. /\ pc[w] \in {"redirect", "compare", "links"} /\ pc'[w] \in {"compare", "links", "save"}
          /\ UNCHANGED <<job, res, found, stored, link>>
      BY <1>0, <1>8 DEF LinksStored, Different, Goto, pageVars, TypeOK
    <2>2. WorkerTxInv(w)'
      BY <1>1, <1>2, <2>1
         DEF WorkerTxInv, OnlyGemini, Active, DeletesRecorded, WillHaveRecord, AllOrNothing, LinksKept,
             KeepsLinks, Sees
    <2> QED
      BY <1>1, <2>2, OwnStep
  <1>9. CASE Release(w) \/ Done(w)
    <2>1. /\ pc[w] \in {"release", "done"} /\ pc'[w] \in {"done", "end"}
          /\ UNCHANGED <<job, res, found, stored, link>>
      BY <1>0, <1>9 DEF Release, Done, Goto, pageVars, TypeOK
    <2>2. WorkerTxInv(w)'
      BY <1>1, <1>2, <2>1
         DEF WorkerTxInv, OnlyGemini, Active, DeletesRecorded, WillHaveRecord, AllOrNothing, LinksKept,
             KeepsLinks, Sees
    <2> QED
      BY <1>1, <2>2, OwnStep
  <1> QED
    BY <1>3, <1>4, <1>5, <1>6, <1>7, <1>8, <1>9

\* The insert of a link: afterwards the transaction sees its row.
LEMMA InsertLinkKeeps ==
    ASSUME IInv, TxInv, NEW w \in Worker, InsertLink(w)
    PROVE  TxInv'
  <1>0. TypeOK /\ DbTypeOK /\ DatabaseAssumption /\ WorkerTxInv(w)
    BY DatabaseAssumption DEF IInv, TypeOK, TxInv
  <1>1. /\ pc[w] \in {"redirect", "links"} /\ link[w] \in URL /\ link[w] # NoURL
        /\ InsertURL(w, link[w])
        /\ UNCHANGED <<urls, recent, hist, del, wrote, batch, jobs, pc, job, res, found>>
    BY <1>0 DEF InsertLink, tables, schedVars, queueVars, TypeOK
  <1>2. /\ stored' = [stored EXCEPT ![w] = @ \cup {link[w]}]
        /\ link' = [link EXCEPT ![w] = NoURL]
    BY DEF InsertLink
  <1>3. /\ \A o \in Tx : o # w => ins'[o] = ins[o]
        /\ ins[w] \subseteq ins'[w] /\ ins'[w] \subseteq ins[w] \cup {link[w]}
    BY <1>0, <1>1, InsertURLEffect
  <1>4. \A l \in URL : l = link[w] => Sees(w, l)'
    BY <1>0, <1>1 DEF InsertURL, Sees, DbTypeOK
  <1>5. (\A v \in Worker : v # w => SameWorker(v)) /\ main' = main
    BY OthersStandStill DEF IInv, WorkerNext
  <1>6. stored'[w] = stored[w] \cup {link[w]} /\ link'[w] = NoURL
    BY <1>0, <1>2 DEF TypeOK
  <1>7. OnlyGemini(w)'
    BY <1>0, <1>1, <1>3, <1>6 DEF WorkerTxInv, OnlyGemini, Active
  <1>8. LinksKept(w)'
    <2>1. \A l \in stored[w] : l \in URL /\ (Sees(w, l) => Sees(w, l)')
      BY <1>0, <1>1, <1>3 DEF Sees, TypeOK
    <2>2. \A l \in stored'[w] : l \in stored[w] \/ Sees(w, l)'
      BY <1>1, <1>4, <1>6
    <2> QED
      BY <1>0, <1>1, <2>1, <2>2 DEF WorkerTxInv, LinksKept, KeepsLinks
  <1>9. WorkerTxInv(w)'
    BY <1>0, <1>1, <1>7, <1>8 DEF WorkerTxInv, DeletesRecorded, WillHaveRecord, AllOrNothing
  <1> QED
    BY <1>0, <1>1, <1>3, <1>5, <1>9, OwnStep

\* The delete of the row of the job comes with a snapshot, or with last_crawled of one.
LEMMA RemoveKeeps ==
    ASSUME IInv, TxInv, NEW w \in Worker, Identical(w) \/ Save(w)
    PROVE  TxInv'
  <1>0. TypeOK /\ DbTypeOK /\ DatabaseAssumption /\ WorkerTxInv(w)
    BY DatabaseAssumption DEF IInv, TypeOK, TxInv
  <1>1. /\ pc[w] \in {"compare", "save", "refuse"} /\ pc'[w] \in {"release", "done"}
        /\ DeleteURL(w, job[w])
        /\ UNCHANGED <<urls, recent, hist, batch, jobs, job, res, found, stored, link>>
    BY <1>0 DEF Identical, Save, Goto, Holding, tables, schedVars, queueVars, pageVars, TypeOK
  <1>2. \E k \in WriteKind :
           /\ wrote' = [wrote EXCEPT ![w] = @ \cup {<<job[w], k>>}] \/ (DryRun /\ wrote' = wrote)
           /\ k = "touch" => hist[job[w]] # "never"
    BY DEF Identical, Save, SaveSnapshot, UpdateLastCrawled, WriteKind
  <1>3. /\ job[w] \in URL /\ del[w] = {}
        /\ main # "reset" => urls[job[w]] = "processing"
    BY <1>1 DEF IInv, JobsAreURLs, ClaimedRowsMarked, DeletesAreOwn, Active
  <1>4. /\ ins'[w] = ins[w] \ {job[w]} /\ del'[w] \subseteq {job[w]}
        /\ main # "reset" => del'[w] = {job[w]}
        /\ ins'[Scheduler] = ins[Scheduler]
    BY <1>0, <1>1, <1>3 DEF DeleteURL, DbTypeOK
  <1>5. WillHaveRecord(w, job[w])' \/ DryRun
    BY <1>0, <1>1, <1>2 DEF WillHaveRecord, WriteKind, DbTypeOK
  <1>6. (\A v \in Worker : v # w => SameWorker(v)) /\ main' = main
    BY OthersStandStill DEF IInv, WorkerNext
  <1>7. OnlyGemini(w)'
    BY <1>0, <1>1, <1>4 DEF WorkerTxInv, OnlyGemini, Active
  <1>8. DeletesRecorded(w)' /\ AllOrNothing(w)'
    BY <1>1, <1>4, <1>5, <1>6 DEF DeletesRecorded, AllOrNothing
  <1>9. LinksKept(w)'
    BY <1>0, <1>1, <1>4 DEF WorkerTxInv, LinksKept, KeepsLinks, Sees
  <1> QED
    BY <1>0, <1>1, <1>4, <1>6, <1>7, <1>8, <1>9, OwnStep DEF WorkerTxInv

\* A transaction that is rolled back under a worker.
LEMMA AbortKeeps ==
    ASSUME IInv, TxInv, NEW w \in Worker,
           DeadlockVictim(w) \/ DbFails(w) \/ TimesOut(w) \/ TimesOutLate(w)
    PROVE  TxInv'
  <1>0. TypeOK /\ DbTypeOK /\ DatabaseAssumption /\ WorkerTxInv(w)
    BY DatabaseAssumption DEF IInv, TypeOK, TxInv
  <1>1. Forget(w) /\ UNCHANGED <<urls, recent, hist, batch, jobs, job, found, stored, link>>
    BY DEF DeadlockVictim, DbFails, TimesOut, TimesOutLate, Discard, tables, schedVars, queueVars,
       pageVars, workerVars
  <1>2. ins'[w] = {} /\ del'[w] = {} /\ wrote'[w] = {}
    BY <1>0, <1>1, ForgetEffect
  <1>4. (\A v \in Worker : v # w => SameWorker(v)) /\ ins'[Scheduler] = ins[Scheduler] /\ main' = main
    BY OthersStandStill DEF IInv, WorkerNext, WorkerFails
  <1>5. /\ Active(w) /\ pc'[w] \in {"release", "done", "end"}
    <2>1. CASE DeadlockVictim(w)
      BY <1>0, <2>1 DEF DeadlockVictim, InDeadlock, WaitsFor, Fail, Goto, Active, TypeOK
    <2>2. CASE DbFails(w) \/ TimesOut(w)
      BY <1>0, <2>2 DEF DbFails, TimesOut, UsesDb, Fail, Goto, Active, TypeOK
    <2>3. CASE TimesOutLate(w)
      BY <1>0, <2>3 DEF TimesOutLate, Active, workerVars
    <2> QED
      BY <2>1, <2>2, <2>3
  <1>7. OnlyGemini(w)'
    BY <1>0, <1>1, <1>2, <1>5 DEF WorkerTxInv, OnlyGemini
  <1>8. DeletesRecorded(w)' /\ AllOrNothing(w)'
    BY <1>2 DEF DeletesRecorded, AllOrNothing
  <1>9. LinksKept(w)'
    <2>1. CASE TimesOutLate(w)
      BY <1>2, <1>5 DEF LinksKept, KeepsLinks
    <2>2. CASE DeadlockVictim(w) \/ DbFails(w) \/ TimesOut(w)
      BY <1>2, <1>5 DEF LinksKept, KeepsLinks
    <2> QED
      BY <2>1, <2>2
  <1> QED
    BY <1>1, <1>4, <1>7, <1>8, <1>9, OwnStep DEF WorkerTxInv

\* The return of RunWorkerWithTx, with the transaction ended or never begun.
LEMMA ReturnKeeps ==
    ASSUME TypeOK, NEW w \in Worker, NEW p \in {"idle", "fatal"}, Return(w, p),
           ins'[w] = {}, del'[w] = {}
    PROVE  WorkerTxInv(w)'
  <1>1. /\ pc'[w] = p /\ job'[w] = NoURL /\ found'[w] = {} /\ stored'[w] = {} /\ link'[w] = NoURL
    BY DEF Return, Goto, TypeOK
  <1> QED
    BY <1>1 DEF WorkerTxInv, OnlyGemini, Active, DeletesRecorded, AllOrNothing, LinksKept

\* The returns that change no table.
LEMMA EmptyReturnKeeps ==
    ASSUME IInv, TxInv, NEW w \in Worker, ReturnEarly(w) \/ CommitFails(w) \/ RollbackTx(w)
    PROVE  TxInv'
  <1>0. TypeOK /\ DbTypeOK /\ DatabaseAssumption
    BY DatabaseAssumption DEF IInv, TypeOK
  <1>1. UNCHANGED <<urls, recent, hist, batch, jobs>>
    BY DEF ReturnEarly, CommitFails, RollbackTx, Discard, dbVars, tables, schedVars, queueVars
  <1>2. PICK p \in {"idle", "fatal"} : Return(w, p)
    BY DEF ReturnEarly, CommitFails, RollbackTx
  <1>3. ins'[w] = {} /\ del'[w] = {}
    <2>1. CASE ReturnEarly(w)
      BY <2>1 DEF ReturnEarly, dbVars, IInv, NoTxWhenIdle
    <2>2. CASE CommitFails(w) \/ RollbackTx(w)
      BY <1>0, <2>2, ForgetEffect DEF CommitFails, RollbackTx, Discard
    <2> QED
      BY <2>1, <2>2
  <1>4. (\A v \in Worker : v # w => SameWorker(v)) /\ ins'[Scheduler] = ins[Scheduler] /\ main' = main
    BY OthersStandStill DEF IInv, WorkerNext, WorkerFails
  <1> QED
    BY <1>0, <1>1, <1>2, <1>3, <1>4, ReturnKeeps, OwnStep

\* The commit of a worker.
LEMMA CommitKeeps ==
    ASSUME IInv, TxInv, NEW w \in Worker, CommitTx(w)
    PROVE  TxInv' /\ TablesMove
  <1>0. TypeOK /\ DbTypeOK /\ DatabaseAssumption
    BY DatabaseAssumption DEF IInv, TypeOK
  <1>1. /\ MarkAndCommit(w, {}) /\ Return(w, "idle") /\ UNCHANGED <<batch, jobs>>
    BY DEF CommitTx, Commit, schedVars, queueVars
  <1>2. Forget(w)
    BY <1>1 DEF MarkAndCommit
  <1>3. ins'[w] = {} /\ del'[w] = {}
    BY <1>0, <1>2, ForgetEffect
  <1>4. TablesMove /\ RecentHaveHistory'
    BY <1>1, CommitMovesTables
  <1>5. WorkerTxInv(w)'
    BY <1>0, <1>1, <1>3, ReturnKeeps
  <1>6. (\A v \in Worker : v # w => SameWorker(v)) /\ ins'[Scheduler] = ins[Scheduler] /\ main' = main
    BY OthersStandStill DEF IInv, WorkerNext
  <1>7. \A v \in Worker : v # w => WorkerTxInv(v)'
    BY <1>0, <1>4, <1>6, OthersKeep DEF TxInv
  <1>8. SendsOnlyGemini'
    BY <1>1, <1>6 DEF TxInv, SendsOnlyGemini
  <1> QED
    BY <1>4, <1>5, <1>7, <1>8 DEF TxInv

-----------------------------------------------------------------------------
(***************************************************************************)
(* The steps of the scheduler, of main and of the clock.                   *)
(***************************************************************************)

\* A step that moves no worker.
LEMMA ElsewhereStep ==
    ASSUME IInv, TxInv, UNCHANGED workerVars, TablesMove, main = "reset" => main' = "reset",
           \A w \in Worker : ins'[w] = ins[w] /\ del'[w] = del[w] /\ wrote'[w] = wrote[w],
           SendsOnlyGemini', RecentHaveHistory'
    PROVE  TxInv'
  <1>1. \A w \in Worker : WorkerTxInv(w)'
    BY OthersKeep DEF TxInv, IInv, SameWorker, workerVars
  <1> QED
    BY <1>1 DEF TxInv

\* The scheduler claims, marks, inserts and sends what the crawler supports (the queries
\* of GetUrlHosts and GetRandomUrlsFromHosts, and the roots of the history query).
LEMMA SchedulerKeeps ==
    ASSUME IInv, TxInv, SchedulerNext \/ SchedulerFails
    PROVE  TxInv' /\ TablesMove
  <1>0. TypeOK /\ DbTypeOK /\ DatabaseAssumption /\ SendsOnlyGemini /\ RecentHaveHistory
    BY DatabaseAssumption DEF IInv, TypeOK, TxInv
  <1>1. CASE Poll \/ RequeryHosts \/ Wait
    <2>1. UNCHANGED <<dbVars, batch, jobs, main, workerVars>>
      BY <1>1 DEF Poll, RequeryHosts, Wait, queueVars
    <2>2. SendsOnlyGemini' /\ RecentHaveHistory'
      BY <1>0, <2>1 DEF SendsOnlyGemini, RecentHaveHistory, dbVars
    <2> QED
      BY <2>1, <2>2, ElsewhereStep, StillTables DEF dbVars
  <1>2. CASE FetchSnapshotsFromHistory \/ GetRandomUrlsFromHosts
    <2>1. UNCHANGED <<dbVars, jobs, main, workerVars>>
      BY <1>2 DEF FetchSnapshotsFromHistory, GetRandomUrlsFromHosts, queueVars
    <2>2. ASSUME ~GopherEnable, NEW u \in batch'
          PROVE  Scheme[u] = "gemini"
      BY <1>2, <2>2, CrawlerAssumption DEF FetchSnapshotsFromHistory, GetRandomUrlsFromHosts,
         HistoryChoice, Eligible, UrlsFromHosts, Claimable
    <2>3. SendsOnlyGemini' /\ RecentHaveHistory'
      BY <1>0, <2>1, <2>2 DEF SendsOnlyGemini, RecentHaveHistory, dbVars
    <2> QED
      BY <2>1, <2>3, ElsewhereStep, StillTables DEF dbVars
  <1>3. CASE InsertHistory
    <2>1. PICK u \in batch : InsertURL(Scheduler, u) /\ batch' = batch \ {u}
      BY <1>3 DEF InsertHistory
    <2>2. UNCHANGED <<urls, recent, hist, del, wrote, jobs, main, workerVars>>
      BY <1>3 DEF InsertHistory, tables, queueVars
    <2>3. /\ \A w \in Worker : ins'[w] = ins[w]
          /\ ins'[Scheduler] \subseteq ins[Scheduler] \cup {u}
      BY <1>0, <2>1, InsertURLEffect DEF TypeOK
    <2>4. SendsOnlyGemini' /\ RecentHaveHistory'
      BY <1>0, <2>1, <2>2, <2>3 DEF SendsOnlyGemini, RecentHaveHistory
    <2> QED
      BY <2>2, <2>3, <2>4, ElsewhereStep, StillTables
  <1>4. CASE CommitBatch
    <2>1. MarkAndCommit(Scheduler, batch) /\ UNCHANGED <<batch, jobs, main, workerVars>>
      BY <1>4 DEF CommitBatch
    <2>2. Forget(Scheduler)
      BY <2>1 DEF MarkAndCommit
    <2>3. /\ \A w \in Worker : ins'[w] = ins[w] /\ del'[w] = del[w] /\ wrote'[w] = wrote[w]
          /\ ins'[Scheduler] = {}
      BY <1>0, <2>2, ForgetEffect, ForgetLeavesOthers
    <2>4. TablesMove /\ RecentHaveHistory'
      BY <1>0, <2>1, CommitMovesTables DEF TypeOK
    <2>5. SendsOnlyGemini'
      BY <1>0, <2>1, <2>3 DEF SendsOnlyGemini
    <2> QED
      BY <2>1, <2>3, <2>4, <2>5, ElsewhereStep
  <1>5. CASE Send
    <2>1. /\ UNCHANGED <<dbVars, main, workerVars>> /\ batch' \cup jobs' \subseteq batch \cup jobs
      BY <1>5 DEF Send
    <2>2. SendsOnlyGemini' /\ RecentHaveHistory'
      BY <1>0, <2>1 DEF SendsOnlyGemini, RecentHaveHistory, dbVars
    <2> QED
      BY <2>1, <2>2, ElsewhereStep, StillTables DEF dbVars
  <1>6. CASE SchedulerFails
    <2>1. Forget(Scheduler) /\ UNCHANGED <<urls, recent, hist, batch, jobs, main, workerVars>>
      BY <1>6 DEF SchedulerFails, Discard, tables, queueVars
    <2>2. /\ \A w \in Worker : ins'[w] = ins[w] /\ del'[w] = del[w] /\ wrote'[w] = wrote[w]
          /\ ins'[Scheduler] = {}
      BY <1>0, <2>1, ForgetEffect, ForgetLeavesOthers
    <2>3. SendsOnlyGemini' /\ RecentHaveHistory'
      BY <1>0, <2>1, <2>2 DEF SendsOnlyGemini, RecentHaveHistory
    <2> QED
      BY <2>1, <2>2, <2>3, ElsewhereStep, StillTables
  <1> QED
    BY <1>1, <1>2, <1>3, <1>4, <1>5, <1>6 DEF SchedulerNext

\* main, a signal and the time that passes.
LEMMA EnvironmentKeeps ==
    ASSUME IInv, TxInv, MainNext \/ ReceiveSignal \/ ResetMarks \/ TimePasses \/ UNCHANGED vars
    PROVE  TxInv' /\ TablesMove
  <1>0. TypeOK /\ DbTypeOK /\ SendsOnlyGemini /\ RecentHaveHistory
    BY DEF IInv, TypeOK, TxInv
  <1>1. CASE ReceiveFatalOfScheduler \/ ReceiveSignal \/ UNCHANGED vars
    <2>1. UNCHANGED <<dbVars, batch, jobs, workerVars>> /\ (main = "reset" => main' = "reset")
      BY <1>1 DEF ReceiveFatalOfScheduler, ReceiveSignal, vars, dbVars, workerVars, schedVars, queueVars
    <2>2. SendsOnlyGemini' /\ RecentHaveHistory'
      BY <1>0, <2>1 DEF SendsOnlyGemini, RecentHaveHistory, dbVars
    <2> QED
      BY <2>1, <2>2, ElsewhereStep, StillTables DEF dbVars
  <1>2. CASE \E w \in Worker : ReceiveFatalOf(w)
    <2>1. PICK w \in Worker : ReceiveFatalOf(w)
      BY <1>2
    <2>2. /\ UNCHANGED <<urls, recent, hist, ins, del, wrote, batch, jobs, job, res, found, stored, link>>
          /\ pc[w] = "fatal" /\ pc' = [pc EXCEPT ![w] = "idle"] /\ main = "select"
      BY <2>1 DEF ReceiveFatalOf, Goto, dbVars, schedVars, queueVars, pageVars
    <2>3. \A v \in Worker : v # w => SameWorker(v)
      BY <1>0, <2>2 DEF SameWorker, TypeOK
    <2>4. WorkerTxInv(w) /\ pc'[w] = "idle"
      BY <1>0, <2>2 DEF TxInv, TypeOK
    <2>5. WorkerTxInv(w)'
      BY <2>2, <2>4 DEF WorkerTxInv, OnlyGemini, Active, DeletesRecorded, WillHaveRecord,
         AllOrNothing, LinksKept, KeepsLinks
    <2> QED
      BY <2>2, <2>3, <2>5, OwnStep, StillTables
  <1>3. CASE TimePasses
    <2>1. /\ UNCHANGED <<urls, ins, del, wrote, batch, jobs, main, workerVars>>
          /\ recent' \subseteq recent
          /\ \A u \in URL : hist'[u] = hist[u] \/ (hist[u] = "fresh" /\ hist'[u] = "old")
      BY <1>0, <1>3 DEF TimePasses, AgeSnapshot, AgeHistory, schedVars, queueVars, DbTypeOK
    <2>2. TablesMove
      BY <2>1 DEF TablesMove
    <2>3. SendsOnlyGemini' /\ RecentHaveHistory'
      BY <1>0, <2>1 DEF SendsOnlyGemini, RecentHaveHistory, DbTypeOK
    <2> QED
      BY <2>1, <2>2, <2>3, ElsewhereStep
  <1>4. CASE ResetMarks
    <2>1. /\ UNCHANGED <<recent, hist, ins, del, wrote, batch, jobs, workerVars>>
          /\ main' = "reset"
          /\ \A u \in URL : urls'[u] = "absent" <=> urls[u] = "absent"
      BY <1>4 DEF ResetMarks, UnmarkAll, schedVars, queueVars
    <2>2. TablesMove
      BY <2>1 DEF TablesMove
    <2>3. SendsOnlyGemini' /\ RecentHaveHistory'
      BY <1>0, <2>1 DEF SendsOnlyGemini, RecentHaveHistory
    <2> QED
      BY <2>1, <2>2, <2>3, ElsewhereStep
  <1> QED
    BY <1>1, <1>2, <1>3, <1>4 DEF MainNext

\* Of the steps of a worker only its commit writes to the tables.
LEMMA OnlyCommitTxWrites ==
    ASSUME NEW w \in Worker, WorkerNext(w) \/ WorkerFails(w), ~CommitTx(w)
    PROVE  UNCHANGED <<urls, hist>>
  BY DEF WorkerNext, WorkerFails, Receive, ReturnEarly, RejectScheme, Refuse, Admit, Acquire,
     VisitGemini, VisitGopher, VisitRedirect, VisitBadRedirect, Brings, CheckLink, InsertLink,
     RejectLink, LinksStored, Identical, Different, Save, Release, Done, RollbackTx, DeadlockVictim,
     CommitFails, DbFails, TimesOut, TimesOutLate, Discard, dbVars, tables

LEMMA WorkerKeeps ==
    ASSUME IInv, TxInv, NEW w \in Worker, WorkerNext(w) \/ WorkerFails(w)
    PROVE  TxInv' /\ TablesMove
  <1>1. CASE CommitTx(w)
    BY <1>1, CommitKeeps
  <1>2. CASE ~CommitTx(w)
    <2>1. TxInv'
      BY <1>2, PlainWorkerStep, InsertLinkKeeps, RemoveKeeps, AbortKeeps, EmptyReturnKeeps
         DEF WorkerNext, WorkerFails
    <2> QED
      BY <1>2, <2>1, OnlyCommitTxWrites, StillTables
  <1> QED
    BY <1>1, <1>2

\* The queue changes with a commit, with Shutdown's UPDATE, and with nothing else.
LEMMA OnlyCommitsWrite ==
    ASSUME [Next]_vars, ~CommitBatch, ~ResetMarks, ~\E w \in Worker : CommitTx(w)
    PROVE  urls' = urls
  <1>1. CASE SchedulerNext \/ SchedulerFails
    BY <1>1 DEF SchedulerNext, SchedulerFails, Poll, FetchSnapshotsFromHistory, InsertHistory,
       RequeryHosts, GetRandomUrlsFromHosts, Send, Wait, Discard, dbVars, tables
  <1>2. CASE \E w \in Worker : WorkerNext(w) \/ WorkerFails(w)
    BY <1>2, OnlyCommitTxWrites
  <1>3. CASE MainNext \/ ReceiveSignal \/ TimePasses \/ UNCHANGED vars
    BY <1>3 DEF MainNext, ReceiveFatalOfScheduler, ReceiveFatalOf, ReceiveSignal, TimePasses,
       AgeSnapshot, AgeHistory, dbVars, vars
  <1> QED
    BY <1>1, <1>2, <1>3 DEF Next

-----------------------------------------------------------------------------
(***************************************************************************)
(* The invariant holds, and what follows from it.                          *)
(***************************************************************************)

LEMMA TxInvariantNext == IInv /\ TxInv /\ [Next]_vars => TxInv' /\ TablesMove
  BY SchedulerKeeps, WorkerKeeps, EnvironmentKeeps DEF Next

\* What the open transactions of the workers will do to the tables fits the tables in
\* every reachable state (WorkOnUrl and RunWorkerWithTx).
THEOREM TxInvariance == Spec => []TxInv
  <1>1. Init => TxInv
    BY DEF Init, DbInit, TxInv, SendsOnlyGemini, RecentHaveHistory, WorkerTxInv, OnlyGemini, Active,
       DeletesRecorded, AllOrNothing, LinksKept
  <1> QED
    BY <1>1, TxInvariantNext, Invariance, PTL DEF Spec

\* A row leaves the queue only when the archive has a snapshot of its URL: the delete and
\* the snapshot are one transaction (saveSnapshotAndRemoveURL).  With -dry-run rows are
\* deleted and snapshots are not stored.
THEOREM RowsLeaveWithRecord ==
    ASSUME ~DryRun
    PROVE  Spec => RemovedOnlyWithRecord
  <1>1. IInv /\ TxInv /\ [Next]_vars =>
          \A u \in URL : urls[u] # "absent" /\ urls'[u] = "absent" => hist'[u] # "never"
    BY TxInvariantNext DEF TablesMove
  <1> QED
    BY <1>1, Invariance, TxInvariance, PTL DEF Spec, RemovedOnlyWithRecord

\* Every link of a page whose snapshot is about to be committed has a row in the queue or
\* a snapshot, although the row may have been another transaction's and be gone (storeLinks
\* and saveRedirectURL).
THEOREM LinksAreNeverLost ==
    ASSUME ~DryRun
    PROVE  Spec => []LinksQueuedOrCrawled
  <1>1. TxInv => LinksQueuedOrCrawled
    BY DEF TxInv, WorkerTxInv, LinksKept, KeepsLinks, LinksQueuedOrCrawled
  <1> QED
    BY <1>1, TxInvariance, PTL

\* A commit changes the rows that it has marked, inserted or deleted.
LEMMA CommitTouches ==
    ASSUME DbTypeOK, NEW t \in Tx, NEW marked, MarkAndCommit(t, marked),
           NEW u \in URL, u \notin marked \cup ins[t] \cup del[t]
    PROVE  urls'[u] = urls[u]
  BY DEF MarkAndCommit, DbTypeOK

\* Shutdown's UPDATE takes the mark off.
Unmarked(u) ==
    main = "shutdown" /\ main' = "reset" /\ urls[u] = "processing" /\ urls'[u] = "pending"

\* Without -gopher the rows of other schemes stay as they are (the LIKE conditions of the
\* scheduler's queries, and shouldPersistURL), but for the marks that Database.Shutdown
\* takes off every row.
THEOREM SchemesAreLeftAlone == Spec => OtherSchemesUntouched
  <1>1. IInv /\ TxInv /\ [Next]_vars =>
          \A u \in URL : ~GopherEnable /\ Scheme[u] # "gemini" => urls'[u] = urls[u] \/ Unmarked(u)
    <2> SUFFICES ASSUME IInv, TxInv, [Next]_vars, NEW u \in URL, ~GopherEnable, Scheme[u] # "gemini"
                 PROVE  urls'[u] = urls[u] \/ Unmarked(u)
      OBVIOUS
    <2>0. DbTypeOK /\ DatabaseAssumption /\ SendsOnlyGemini /\ del[Scheduler] = {}
      BY DatabaseAssumption DEF IInv, TypeOK, TxInv, DeletesAreOwn
    <2>1. CASE CommitBatch
      <3>1. MarkAndCommit(Scheduler, batch) /\ u \notin batch \cup ins[Scheduler] \cup del[Scheduler]
        BY <2>0, <2>1 DEF CommitBatch, SendsOnlyGemini
      <3> QED
        BY <2>0, <3>1, CommitTouches
    <2>2. CASE \E w \in Worker : CommitTx(w)
      <3>1. PICK w \in Worker : CommitTx(w)
        BY <2>2
      <3>2. Active(w) /\ MarkAndCommit(w, {})
        BY <3>1 DEF CommitTx, Commit, Active
      <3>3. Scheme[job[w]] = "gemini" /\ u \notin ins[w] /\ del[w] \subseteq {job[w]}
        BY <3>2 DEF TxInv, WorkerTxInv, OnlyGemini, IInv, DeletesAreOwn
      <3> QED
        BY <2>0, <3>2, <3>3, CommitTouches
    <2>3. CASE ~CommitBatch /\ ~ResetMarks /\ ~\E w \in Worker : CommitTx(w)
      BY <2>3, OnlyCommitsWrite
    <2>4. CASE ResetMarks
      BY <2>4 DEF ResetMarks, UnmarkAll, Unmarked
    <2> QED
      BY <2>1, <2>2, <2>3, <2>4
  <1>2. [Next]_vars /\ IInv /\ TxInv =>
          \A u \in URL :
             ~GopherEnable /\ Scheme[u] # "gemini" =>
                 \/ urls'[u] = urls[u]
                 \/ main = "shutdown" /\ main' = "reset"
                    /\ urls[u] = "processing" /\ urls'[u] = "pending"
    BY <1>1 DEF Unmarked
  <1> QED
    BY <1>2, Invariance, TxInvariance, PTL DEF Spec, OtherSchemesUntouched
=============================================================================
