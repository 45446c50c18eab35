---------------------- MODULE SnapshotRefinementProofs ----------------------
(***************************************************************************)
(* SnapshotStore implements what Crawler assumes of the archive: the       *)
(* commits and rollbacks of Database.                                      *)
(***************************************************************************)
EXTENDS SnapshotRefinement, SnapshotStoreProofs

-----------------------------------------------------------------------------
(***************************************************************************)
(* What the queries of the crawler see of the rows of a URL.               *)
(***************************************************************************)

\* The rows of a URL after a commit, as the history query and haveWeVisitedURL look at
\* them: its new row, or all of them with the time of the attempt.
LEMMA QueriedRows ==
    ASSUME ArchiveInv, NEW u \in URL, Commit(u)
    PROVE  /\ now \in Nat /\ began[u] \in Nat /\ write[u].at \in Nat /\ SkipDays \in Nat
           /\ Len(snaps[u]) \in Nat /\ now' = now
           /\ write[u].kind = "save" \/ write[u].kind = "touch" => write[u].at + SkipDays > now
           /\ write[u].kind = "save" =>
                 /\ Len(snaps'[u]) = Len(snaps[u]) + 1
                 /\ \A i \in 1 .. Len(snaps[u]) : snaps'[u][i] = snaps[u][i]
                 /\ LET new == snaps'[u][Len(snaps[u]) + 1] IN
                    /\ Counted(new) <=> KindOf(resp[u]) = "gemtext"
                    /\ new.timestamp = write[u].at /\ new.lastCrawled = write[u].at
           /\ write[u].kind = "touch" =>
                 /\ Len(snaps'[u]) = Len(snaps[u])
                 /\ \A i \in 1 .. Len(snaps[u]) :
                       /\ Counted(snaps'[u][i]) <=> Counted(snaps[u][i])
                       /\ snaps'[u][i].timestamp = snaps[u][i].timestamp
                       /\ snaps'[u][i].lastCrawled = write[u].at
           /\ write[u].kind = "none" => snaps'[u] = snaps[u]
  <1>1. /\ now \in Nat /\ began[u] \in Nat /\ write[u].at \in Nat /\ SkipDays \in Nat
        /\ Len(snaps[u]) \in Nat /\ now' = now
    BY CommitFacts, StoreAssumption DEF Time
  <1>2. write[u].kind = "save" \/ write[u].kind = "touch" => write[u].at + SkipDays > now
    <2>1. /\ now <= began[u] + 1 /\ SkipDays >= 2
          /\ write[u].kind = "save" => began[u] <= write[u].at
          /\ write[u].kind = "touch" => write[u].at = began[u]
      BY StoreAssumption DEF ArchiveInv, WritesFit, Open, Commit
    <2> QED
      BY ONLY <1>1, <2>1
  <1>3. ASSUME write[u].kind = "save"
        PROVE  /\ Counted(snaps'[u][Len(snaps[u]) + 1]) <=> KindOf(resp[u]) = "gemtext"
               /\ snaps'[u][Len(snaps[u]) + 1].timestamp = write[u].at
               /\ snaps'[u][Len(snaps[u]) + 1].lastCrawled = write[u].at
    <2>1. snaps'[u][Len(snaps[u]) + 1] = NewSnapshot(resp[u], write[u].at)
      BY <1>3, CommittedRows
    <2> QED
      BY <2>1 DEF NewSnapshot, Counted, KindOf
  <1>4. ASSUME write[u].kind = "touch", NEW i \in 1 .. Len(snaps[u])
        PROVE  /\ Counted(snaps'[u][i]) <=> Counted(snaps[u][i])
               /\ snaps'[u][i].timestamp = snaps[u][i].timestamp
               /\ snaps'[u][i].lastCrawled = write[u].at
    <2>1. snaps'[u][i] = [snaps[u][i] EXCEPT !.lastCrawled = write[u].at]
      BY <1>4, CommittedRows
    <2>2. snaps[u][i] \in Snapshot
      BY CommitFacts
    <2>3. Shows([snaps[u][i] EXCEPT !.lastCrawled = write[u].at], snaps[u][i])
      BY ONLY <2>2, SnapshotFields
    <2>4. /\ [snaps[u][i] EXCEPT !.lastCrawled = write[u].at].timestamp = snaps[u][i].timestamp
          /\ [snaps[u][i] EXCEPT !.lastCrawled = write[u].at].lastCrawled = write[u].at
      BY ONLY <2>2, SnapshotFields
    <2> QED
      BY <2>1, <2>3, <2>4 DEF Shows, Counted
  <1> QED
    BY <1>1, <1>2, <1>3, <1>4, CommittedRows

\* haveWeVisitedURL: a new snapshot is recent, and last_crawled does not count.
LEMMA RecentAfterCommit ==
    ASSUME ArchiveInv, NEW u \in URL, Commit(u)
    PROVE  Recent(u)' <=> Recent(u) \/ write[u].kind = "save"
  <1> USE QueriedRows
  <1>1. CASE write[u].kind = "save"
    <2>1. Len(snaps[u]) + 1 \in 1 .. Len(snaps'[u])
      BY <1>1
    <2> QED
      BY <1>1, <2>1 DEF Recent
  <1>2. CASE write[u].kind = "touch"
    BY <1>2 DEF Recent
  <1>3. CASE write[u].kind = "none"
    BY <1>3 DEF Recent
  <1> QED
    BY <1>1, <1>2, <1>3, CommitFacts

\* The history query: a page makes the URL fresh, and so does an attempt on a URL that has
\* one; any other snapshot counts for a URL that had none.
LEMMA HistAfterCommit ==
    ASSUME ArchiveInv, NEW u \in URL, Commit(u)
    PROVE  HistOf(u)' =
              IF \/ write[u].kind = "save" /\ KindOf(resp[u]) = "gemtext"
                 \/ write[u].kind = "touch" /\ HistOf(u) \in {"fresh", "old"}
              THEN "fresh"
              ELSE IF write[u].kind = "save" /\ HistOf(u) = "never" THEN "uncounted" ELSE HistOf(u)
  <1> DEFINE n == Len(snaps[u])
  <1>0. /\ n \in Nat /\ snaps[u] \in Seq(Snapshot) /\ snaps'[u] \in Seq(Snapshot)
        /\ \A rows \in Seq(Snapshot) : rows = <<>> <=> Len(rows) = 0
    BY CommitFacts, CommittedRows
  <1>1. CASE write[u].kind = "save"
    <2>1. /\ Len(snaps'[u]) = n + 1 /\ \A i \in 1 .. n : snaps'[u][i] = snaps[u][i]
          /\ Counted(snaps'[u][n + 1]) <=> KindOf(resp[u]) = "gemtext"
          /\ snaps'[u][n + 1].lastCrawled = write[u].at
          /\ now' = now /\ ~(write[u].at + SkipDays < now)
      BY <1>1, QueriedRows
    <2>2. snaps'[u] # <<>> /\ n + 1 \in 1 .. Len(snaps'[u])
      BY <1>0, <2>1
    <2>3. \A i : i \in 1 .. Len(snaps'[u]) <=> i \in 1 .. n \/ i = n + 1
      BY ONLY <1>0, <2>1
    <2>4. CASE KindOf(resp[u]) = "gemtext"
      <3>1. IsCounted(u)' /\ ~BeforeCutoff(u)'
        BY <2>1, <2>2, <2>4 DEF IsCounted, BeforeCutoff
      <3> QED
        BY <1>1, <2>2, <2>4, <3>1 DEF HistOf
    <2>5. CASE KindOf(resp[u]) # "gemtext"
      <3>1. (IsCounted(u)' <=> IsCounted(u)) /\ (BeforeCutoff(u)' <=> BeforeCutoff(u))
        BY <2>1, <2>3, <2>5 DEF IsCounted, BeforeCutoff
      <3>2. snaps[u] = <<>> => ~IsCounted(u)
        BY <1>0 DEF IsCounted
      <3>3. write[u].kind # "touch"
        BY <1>1
      <3> QED
        BY <1>1, <2>2, <2>5, <3>1, <3>2, <3>3 DEF HistOf
    <2> QED
      BY <2>4, <2>5
  <1>2. CASE write[u].kind = "touch"
    <2>1. /\ Len(snaps'[u]) = n /\ now' = now /\ ~(write[u].at + SkipDays < now)
          /\ \A i \in 1 .. n : /\ Counted(snaps'[u][i]) <=> Counted(snaps[u][i])
                               /\ snaps'[u][i].lastCrawled = write[u].at
      BY <1>2, QueriedRows
    <2>2. (snaps'[u] = <<>> <=> snaps[u] = <<>>) /\ (IsCounted(u)' <=> IsCounted(u))
      BY <1>0, <2>1 DEF IsCounted
    <2>3. IsCounted(u) => ~BeforeCutoff(u)'
      BY <2>1 DEF IsCounted, BeforeCutoff
    <2>4. write[u].kind # "save"
      BY <1>2
    <2> QED
      BY <1>2, <2>2, <2>3, <2>4 DEF HistOf
  <1>3. CASE write[u].kind = "none"
    <2>1. snaps'[u] = snaps[u] /\ now' = now
      BY <1>3, QueriedRows
    <2> QED
      BY <1>3, <2>1 DEF HistOf, IsCounted, BeforeCutoff
  <1> QED
    BY <1>1, <1>2, <1>3, CommitFacts

\* What Database knows of the URLs whose worker does not commit.
LEMMA OthersAfterCommit ==
    ASSUME ArchiveInv, NEW u \in URL, Commit(u), NEW v \in URL \ {u}
    PROVE  /\ RowOf(v)' = RowOf(v) /\ (Recent(v)' <=> Recent(v)) /\ HistOf(v)' = HistOf(v)
           /\ phase'[v] = phase[v] /\ WroteBy(v)' = WroteBy(v)
  <1>1. /\ snaps'[v] = snaps[v] /\ phase'[v] = phase[v] /\ write'[v] = write[v] /\ resp'[v] = resp[v]
        /\ now' = now /\ queue' = queue \ {u}
    BY CommitFacts DEF Commit
  <1> QED
    BY <1>1 DEF RowOf, Recent, HistOf, IsCounted, BeforeCutoff, WroteBy

-----------------------------------------------------------------------------
(***************************************************************************)
(* The steps of Database.                                                  *)
(***************************************************************************)

\* The row leaves the queue, and the snapshots are what the transaction promised.
LEMMA CommitImplements ==
    ASSUME ArchiveInv, NEW u \in URL, Commit(u)
    PROVE  Tables!Commit(u)
  <1>1. /\ phase[u] = "written" /\ phase'[u] = "idle" /\ write'[u] = NoWrite /\ queue' = queue \ {u}
        /\ write[u].kind \in {"none", "save", "touch"}
    BY CommitFacts DEF Commit
  <1>2. WroteBy(u)' = {}
    BY <1>1 DEF WroteBy, NoWrite
  <1>3. KindOf(resp[u]) \in {"gemtext", "other"}
    BY DEF KindOf
  <1>4. ASSUME NEW v \in URL
        PROVE  RowOf(v)' = IF v = u THEN "absent" ELSE RowOf(v)
    BY <1>1, OthersAfterCommit DEF RowOf
  <1>5. ASSUME NEW v \in URL
        PROVE  /\ <<v, "gemtext">> \in WroteBy(u) <=>
                     v = u /\ write[u].kind = "save" /\ KindOf(resp[u]) = "gemtext"
               /\ <<v, "other">> \in WroteBy(u) <=>
                     v = u /\ write[u].kind = "save" /\ KindOf(resp[u]) = "other"
               /\ <<v, "touch">> \in WroteBy(u) <=> v = u /\ write[u].kind = "touch"
    BY <1>1, <1>3 DEF WroteBy
  <1>6. ASSUME NEW v \in URL
        PROVE  Recent(v)' <=> Recent(v) \/ {<<v, "gemtext">>, <<v, "other">>} \cap WroteBy(u) # {}
    BY <1>3, <1>5, RecentAfterCommit, OthersAfterCommit
  <1>7. ASSUME NEW v \in URL
        PROVE  HistOf(v)' = IF \/ <<v, "gemtext">> \in WroteBy(u)
                               \/ <<v, "touch">> \in WroteBy(u) /\ HistOf(v) \in {"fresh", "old"}
                            THEN "fresh"
                            ELSE IF <<v, "other">> \in WroteBy(u) /\ HistOf(v) = "never"
                                 THEN "uncounted" ELSE HistOf(v)
    <2>1. CASE v = u
      BY <1>3, <1>5, <2>1, HistAfterCommit
    <2>2. CASE v # u
      BY <1>5, <2>2, OthersAfterCommit
    <2> QED
      BY <2>1, <2>2
  <1>8. ASSUME NEW t \in URL \cup {Nobody}, t # u
        PROVE  /\ t \in URL => phase'[t] = phase[t] /\ WroteBy(t)' = WroteBy(t)
    BY <1>8, OthersAfterCommit
  <1> DEFINE W == [t \in URL \cup {Nobody} |-> IF t \in URL THEN WroteBy(t) ELSE {}]
             D == [t \in URL \cup {Nobody} |-> IF t \in URL /\ phase[t] = "written" THEN {t} ELSE {}]
             I == [t \in URL \cup {Nobody} |-> {}]
  <1>9. /\ W[u] = WroteBy(u) /\ D[u] = {u} /\ I[u] = {}
        /\ W' = [W EXCEPT ![u] = {}] /\ D' = [D EXCEPT ![u] = {}] /\ I' = [I EXCEPT ![u] = {}]
    BY <1>1, <1>2, <1>8
  <1>10. [v \in URL |-> RowOf(v)]' =
            [v \in URL |-> IF v \in I[u] THEN "pending"
                           ELSE IF v \in D[u] THEN "absent" ELSE [x \in URL |-> RowOf(x)][v]]
    BY <1>4, <1>9
  <1>11. {v \in URL : Recent(v)}' =
            {v \in URL : Recent(v)} \cup {v \in URL : {<<v, "gemtext">>, <<v, "other">>} \cap W[u] # {}}
    BY <1>6, <1>9
  <1>12. [v \in URL |-> HistOf(v)]' = [v \in URL |-> Tables!HistAfter(u, v)]
    BY <1>7, <1>9 DEF Tables!HistAfter
  <1> QED
    BY <1>9, <1>10, <1>11, <1>12 DEF Tables!Commit, Tables!MarkAndCommit, Tables!Forget

\* A rollback, or a transaction that never ended, leaves the row marked.
LEMMA AbortImplements ==
    ASSUME ArchiveInv, NEW u \in URL, Abort(u)
    PROVE  Tables!Discard(u)
  <1>1. /\ phase[u] \in {"visiting", "written"} /\ phase'[u] = "stuck" /\ write'[u] = NoWrite
        /\ UNCHANGED <<now, queue, snaps>>
        /\ \A v \in URL \ {u} : phase'[v] = phase[v] /\ write'[v] = write[v] /\ resp'[v] = resp[v]
    BY DEF Abort, Open, Finish, seenVars, ArchiveInv, TypeOK
  <1>2. \A v \in URL : RowOf(v)' = RowOf(v)
    BY <1>1 DEF RowOf
  <1>3. \A v \in URL : (Recent(v)' <=> Recent(v)) /\ HistOf(v)' = HistOf(v)
    BY <1>1 DEF Recent, HistOf, IsCounted, BeforeCutoff
  <1>4. WroteBy(u)' = {} /\ \A v \in URL \ {u} : WroteBy(v)' = WroteBy(v)
    <2>1. WroteBy(u)' = {}
      BY <1>1 DEF WroteBy, NoWrite
    <2>2. \A v \in URL \ {u} : WroteBy(v)' = WroteBy(v)
      BY <1>1 DEF WroteBy
    <2> QED
      BY <2>1, <2>2
  <1> QED
    BY <1>1, <1>2, <1>3, <1>4 DEF Tables!Discard, Tables!Forget, Tables!tables

\* A new day can only make snapshots old.
LEMMA TickAges ==
    ASSUME ArchiveInv, Tick, NEW u \in URL
    PROVE  /\ Recent(u)' => Recent(u)
           /\ HistOf(u)' = HistOf(u) \/ (HistOf(u) = "fresh" /\ HistOf(u)' = "old")
           /\ snaps' = snaps
  <1>1. now \in Nat /\ now' = now + 1 /\ snaps' = snaps /\ SkipDays \in Nat
    BY StoreAssumption DEF Tick, ArchiveInv, TypeOK, Time, seenVars
  <1>2. \A i \in 1 .. Len(snaps[u]) : snaps[u][i].timestamp \in Nat /\ snaps[u][i].lastCrawled \in Nat
    BY RowFields DEF ArchiveInv, Rows
  <1>3. Recent(u)' => Recent(u)
    BY <1>1, <1>2 DEF Recent
  <1>4. (IsCounted(u)' <=> IsCounted(u)) /\ (BeforeCutoff(u) => BeforeCutoff(u)')
    BY <1>1, <1>2 DEF IsCounted, BeforeCutoff
  <1> QED
    BY <1>1, <1>3, <1>4 DEF HistOf

\* ImplementsDatabase: the commits and the rollbacks of the archive are those that Crawler
\* is built on, a new day makes snapshots older, and nothing else changes what Crawler
\* knows of them (saveSnapshotAndRemoveURL, and the queries on snapshots).
THEOREM DatabaseIsImplemented == Spec => ImplementsDatabase
  <1>1. ASSUME ArchiveInv, [Next]_vars
        PROVE  \/ \E u \in URL : (Commit(u) /\ Tables!Commit(u)) \/ (Abort(u) /\ Tables!Discard(u))
               \/ /\ \A u \in URL : Recent(u)' => Recent(u)
                  /\ \A u \in URL : HistOf(u)' = HistOf(u) \/ (HistOf(u) = "fresh" /\ HistOf(u)' = "old")
                  /\ snaps' = snaps
    <2>1. CASE \E u \in URL : Commit(u) \/ Abort(u)
      BY <1>1, <2>1, CommitImplements, AbortImplements
    <2>2. CASE Tick
      BY <1>1, <2>2, TickAges DEF Tick, seenVars
    <2>3. CASE ~Tick /\ ~\E u \in URL : Commit(u) \/ Abort(u)
      <3>1. UNCHANGED <<now, snaps>>
        BY <1>1, <2>3 DEF Next, Link, InsertHistory, Begin, Work, FetchSnapshotsFromHistory, Restart,
           vars, seenVars
      <3> QED
        BY <3>1 DEF Recent, HistOf, IsCounted, BeforeCutoff
    <2> QED
      BY <2>1, <2>2, <2>3
  <1> QED
    BY <1>1, ArchiveInvariance, PTL DEF Spec, ImplementsDatabase
=============================================================================
