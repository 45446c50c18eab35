------------------------ MODULE SnapshotStoreProofs ------------------------
(***************************************************************************)
(* Proofs about the archive, for every set of URLs, bodies and bounds.     *)
(***************************************************************************)
EXTENDS SnapshotStore, TLAPS

-----------------------------------------------------------------------------
(***************************************************************************)
(* Responses and rows.                                                     *)
(***************************************************************************)

\* A gemini response has a text, data, or an error, and one of these only.
LEMMA GeminiFacts ==
    ASSUME NEW r \in GeminiResponse
    PROVE  /\ r \in Response
           /\ r.gemtext # Null => r.data = Null /\ ~r.error
           /\ r.data # Null => ~r.error
  <1>1. CASE \E b \in Body, ok \in BOOLEAN : r = Page(b, ok)
    BY <1>1, StoreAssumption DEF Page, Response, Mime
  <1>2. CASE \E b \in Body : r = File(b)
    BY <1>2, StoreAssumption DEF File, Response, Mime
  <1>3. CASE \E b \in Body : r = Status(b)
    BY <1>3, StoreAssumption DEF Status, Response, Mime
  <1>4. CASE r = Garbled
    BY <1>4 DEF Garbled, Response, Mime
  <1>5. CASE r = Unreachable
    BY <1>5 DEF Unreachable, Response, Mime
  <1> QED
    BY <1>1, <1>2, <1>3, <1>4, <1>5 DEF GeminiResponse

\* A gopher response has a text or data, or neither, and data is no error.
LEMMA GopherFacts ==
    ASSUME NEW r \in GopherResponse
    PROVE  /\ r \in Response
           /\ r.gemtext # Null => r.data = Null
           /\ r.data # Null => ~r.error
  <1>1. CASE \E b \in Body, e \in BOOLEAN :
                r = [gemtext |-> b, data |-> Null, mime |-> "none", error |-> e, success |-> FALSE]
    BY <1>1, StoreAssumption DEF Response, Mime
  <1>2. CASE \E b \in Body \ {Empty} : r = [gemtext |-> Null, data |-> b, mime |-> "none",
                                            error |-> FALSE, success |-> FALSE]
    BY <1>2, StoreAssumption DEF Response, Mime
  <1>3. CASE r = Unreachable
    BY <1>3, StoreAssumption DEF Unreachable, Response, Mime
  <1> QED
    BY <1>1, <1>2, <1>3, StoreAssumption DEF GopherResponse

\* A visit brings a response.
LEMMA VisitBringsResponse == \A u \in URL : Visit(u) \subseteq Response
  BY GeminiFacts, GopherFacts DEF Visit

LEMMA UnreachableIsVisit == \A u \in URL : Unreachable \in Visit(u)
  BY DEF Visit, GopherResponse, GeminiResponse

\* Of two responses of one URL that have the same body, if it is a gemini URL, none is an
\* error.
LEMMA SameBodySameError ==
    ASSUME NEW u \in URL, NEW r \in Visit(u), NEW s \in Visit(u), SameBody(r, s)
    PROVE  /\ u \notin Gopher => r.error = s.error
           /\ r.gemtext = s.gemtext /\ r.data = s.data
  <1>1. /\ r \in Response /\ s \in Response
        /\ r.gemtext # Null => r.data = Null
        /\ s.gemtext # Null => s.data = Null
    BY GeminiFacts, GopherFacts DEF Visit
  <1>2. r.gemtext = s.gemtext /\ r.data = s.data /\ (r.gemtext # Null \/ r.data # Null)
    <2>1. CASE r.gemtext # Null /\ s.gemtext # Null
      BY <1>1, <2>1 DEF SameBody
    <2>2. CASE ~(r.gemtext # Null /\ s.gemtext # Null)
      <3>1. r.data # Null /\ s.data # Null /\ r.data = s.data
        BY <2>2 DEF SameBody
      <3> QED
        BY <1>1, <3>1
    <2> QED
      BY <2>1, <2>2
  <1>3. ASSUME u \notin Gopher PROVE r.error = s.error
    <2>1. r \in GeminiResponse /\ s \in GeminiResponse
      BY <1>3 DEF Visit
    <2>2. ~r.error /\ ~s.error
      BY <1>2, <2>1, GeminiFacts
    <2> QED
      BY <1>1, <2>2 DEF Response
  <1> QED
    BY <1>2, <1>3

LEMMA SnapshotFields ==
    ASSUME NEW s \in Snapshot, NEW t
    PROVE  /\ s.timestamp \in Nat /\ s.lastCrawled \in Nat
           /\ [s EXCEPT !.lastCrawled = t].timestamp = s.timestamp
           /\ [s EXCEPT !.lastCrawled = t].lastCrawled = t
           /\ \A r : Shows(s, r) => Shows([s EXCEPT !.lastCrawled = t], r)
           /\ Shows([s EXCEPT !.lastCrawled = t], s)
  BY StoreAssumption DEF Snapshot, Time, Shows

\* The rows are snapshots with times.
LEMMA RowFields ==
    ASSUME TypeOK, NEW u \in URL, NEW i \in Rows(u)
    PROVE  /\ snaps[u] \in Seq(Snapshot) /\ Len(snaps[u]) \in Nat
           /\ snaps[u][i] \in Snapshot
           /\ snaps[u][i].timestamp \in Nat /\ snaps[u][i].lastCrawled \in Nat
  <1>1. snaps[u] \in Seq(Snapshot) /\ Len(snaps[u]) \in Nat
    BY DEF TypeOK
  <1>2. snaps[u][i] \in Snapshot
    BY <1>1 DEF Rows
  <1> QED
    BY <1>1, <1>2, SnapshotFields

\* The two ways in which a commit changes the rows of a URL.
LEMMA TouchedRows ==
    ASSUME NEW rows \in Seq(Snapshot), NEW t \in Time
    PROVE  /\ UpdateLastCrawled(rows, t) \in Seq(Snapshot)
           /\ Len(UpdateLastCrawled(rows, t)) = Len(rows)
           /\ \A i \in 1 .. Len(rows) :
                 UpdateLastCrawled(rows, t)[i] = [rows[i] EXCEPT !.lastCrawled = t]
  <1> DEFINE f == [i \in 1 .. Len(rows) |-> [rows[i] EXCEPT !.lastCrawled = t]]
  <1>1. Len(rows) \in Nat
    OBVIOUS
  <1>2. \A i \in 1 .. Len(rows) : rows[i] \in Snapshot
    OBVIOUS
  <1>3. \A i \in 1 .. Len(rows) : [rows[i] EXCEPT !.lastCrawled = t] \in Snapshot
    BY <1>2 DEF Snapshot
  <1>4. f \in Seq(Snapshot) /\ Len(f) = Len(rows)
    BY <1>1, <1>3
  <1> QED
    BY <1>4 DEF UpdateLastCrawled

LEMMA AppendedRows ==
    ASSUME NEW rows \in Seq(Snapshot), NEW r \in Response, NEW t \in Time
    PROVE  /\ NewSnapshot(r, t) \in Snapshot
           /\ SaveSnapshot(rows, NewSnapshot(r, t)) \in Seq(Snapshot)
           /\ Len(SaveSnapshot(rows, NewSnapshot(r, t))) = Len(rows) + 1
           /\ \A i \in 1 .. Len(rows) : SaveSnapshot(rows, NewSnapshot(r, t))[i] = rows[i]
           /\ SaveSnapshot(rows, NewSnapshot(r, t))[Len(rows) + 1] = NewSnapshot(r, t)
           /\ Shows(NewSnapshot(r, t), r)
  <1>1. NewSnapshot(r, t) \in Snapshot /\ Shows(NewSnapshot(r, t), r)
    BY DEF NewSnapshot, Snapshot, Response, Shows
  <1> QED
    BY <1>1 DEF SaveSnapshot

-----------------------------------------------------------------------------
(***************************************************************************)
(* The invariant, action by action.                                        *)
(***************************************************************************)

\* Only a commit notes an attempt.
LEMMA AttemptsStay ==
    ASSUME AttemptsNoted, UNCHANGED seenVars
    PROVE  AttemptsNoted'
  BY DEF AttemptsNoted, Rows, seenVars

LEMMA InitEstablishes == Init => ArchiveInv
  <1> SUFFICES ASSUME Init PROVE ArchiveInv
    OBVIOUS
  <1>1. Unreachable \in Response
    BY DEF Unreachable, Response, Mime
  <1>2. 0 \in Time
    BY StoreAssumption DEF Time
  <1>3. TypeOK
    BY <1>1, <1>2 DEF Init, TypeOK, NoWrite
  <1>4. InOrder /\ FromVisits /\ AttemptsNoted
    BY UnreachableIsVisit DEF Init, InOrder, FromVisits, AttemptsNoted, Rows
  <1>5. WritesFit
    BY DEF Init, WritesFit, Open, NoWrite
  <1> QED
    BY <1>3, <1>4, <1>5 DEF ArchiveInv

\* Links and the history query change the queue and nothing that the archive depends on.
LEMMA QueueSteps ==
    ASSUME ArchiveInv,
           \/ \E u \in URL : Link(u) \/ InsertHistory(u)
           \/ FetchSnapshotsFromHistory
           \/ UNCHANGED vars
    PROVE  ArchiveInv'
  <1>1. UNCHANGED <<now, dryRun, workVars, seenVars>>
    BY DEF Link, InsertHistory, FetchSnapshotsFromHistory, vars, workVars, seenVars
  <1>2. queue' \subseteq URL /\ picked' \subseteq URL
    BY StoreAssumption DEF ArchiveInv, TypeOK, Link, InsertHistory, FetchSnapshotsFromHistory, vars,
       HistoryChoice, Eligible
  <1>3. TypeOK'
    BY <1>1, <1>2 DEF ArchiveInv, TypeOK, workVars, seenVars
  <1>4. InOrder' /\ FromVisits' /\ WritesFit' /\ AttemptsNoted'
    BY <1>1, AttemptsStay
       DEF ArchiveInv, InOrder, FromVisits, WritesFit, Rows, Open, workVars, seenVars
  <1> QED
    BY <1>3, <1>4 DEF ArchiveInv

LEMMA BeginStep ==
    ASSUME ArchiveInv, NEW u \in URL, Begin(u)
    PROVE  ArchiveInv'
  <1> USE DEF ArchiveInv
  <1>1. TypeOK'
    BY DEF TypeOK, Begin, seenVars
  <1>2. InOrder'
    <2>1. \A v \in URL : (IF Open(v) THEN began[v] ELSE now)' = (IF Open(v) THEN began[v] ELSE now)
      BY DEF Begin, Open, TypeOK
    <2> QED
      BY <2>1 DEF InOrder, Rows, Begin, seenVars
  <1>3. FromVisits'
    BY DEF FromVisits, Rows, Begin, seenVars
  <1>4. WritesFit'
    BY StoreAssumption DEF WritesFit, Open, Begin, seenVars, TypeOK, NoWrite, Time
  <1>5. AttemptsNoted'
    BY AttemptsStay DEF Begin
  <1> QED
    BY <1>1, <1>2, <1>3, <1>4, <1>5

LEMMA WorkStep ==
    ASSUME ArchiveInv, NEW u \in URL, Work(u)
    PROVE  ArchiveInv'
  <1> USE DEF ArchiveInv
  <1>1. PICK r \in Visit(u) :
          /\ resp' = [resp EXCEPT ![u] = r]
          /\ write' = [write EXCEPT ![u] = WriteFor(u, r)]
    BY DEF Work
  <1>2. r \in Response
    BY VisitBringsResponse
  <1>3. /\ phase[u] = "visiting" /\ phase' = [phase EXCEPT ![u] = "written"]
        /\ UNCHANGED <<now, dryRun, queue, picked, began, snaps, seen, attempt>>
    BY DEF Work, seenVars
  <1>4. WriteFor(u, r) \in [kind : {"none", "save", "touch"}, at : Time]
    BY StoreAssumption DEF WriteFor, NoWrite, TypeOK, Time
  <1>5. TypeOK'
    BY <1>1, <1>2, <1>3, <1>4 DEF TypeOK
  <1>6. InOrder'
    <2>1. \A v \in URL : (IF Open(v) THEN began[v] ELSE now)' = (IF Open(v) THEN began[v] ELSE now)
      BY <1>3 DEF Open, TypeOK
    <2> QED
      BY <1>3, <2>1 DEF InOrder, Rows
  <1>7. FromVisits'
    BY <1>1, <1>3 DEF FromVisits, Rows, TypeOK
  <1>8. WritesFit'
    <2>1. ASSUME NEW v \in URL, v # u
          PROVE  /\ phase'[v] = phase[v] /\ resp'[v] = resp[v] /\ write'[v] = write[v]
      BY <1>1, <1>3, <2>1 DEF TypeOK
    <2>2. phase'[u] = "written" /\ resp'[u] = r /\ write'[u] = WriteFor(u, r)
      BY <1>1, <1>3 DEF TypeOK
    <2>3. began[u] <= now /\ now <= began[u] + 1 /\ began[u] \in Nat /\ now \in Nat
      BY <1>3, StoreAssumption DEF WritesFit, Open, TypeOK, Time
    <2>4. WriteFor(u, r).kind = "save" =>
             /\ WriteFor(u, r).at = now
             /\ ~IsContentIdentical(r, snaps[u]) /\ ShouldUpdateSnapshotData(r, snaps[u])
      BY DEF WriteFor, NoWrite
    <2>5. WriteFor(u, r).kind = "touch" =>
             /\ WriteFor(u, r).at = began[u]
             /\ IsContentIdentical(r, snaps[u]) \/ ~ShouldUpdateSnapshotData(r, snaps[u])
      BY DEF WriteFor, NoWrite
    <2>6. ASSUME NEW v \in URL
          PROVE  /\ Open(v)' => began'[v] <= now' /\ now' <= began'[v] + 1
                 /\ phase'[v] # "written" => write'[v] = NoWrite
                 /\ write'[v].kind = "save" =>
                       /\ began'[v] <= write'[v].at /\ write'[v].at <= now'
                       /\ ~IsContentIdentical(resp'[v], snaps'[v])
                       /\ ShouldUpdateSnapshotData(resp'[v], snaps'[v])
                 /\ write'[v].kind = "touch" =>
                       /\ write'[v].at = began'[v]
                       /\ IsContentIdentical(resp'[v], snaps'[v])
                          \/ ~ShouldUpdateSnapshotData(resp'[v], snaps'[v])
      <3>1. CASE v = u
        BY <3>1, <1>3, <2>2, <2>3, <2>4, <2>5
      <3>2. CASE v # u
        BY <3>2, <1>3, <2>1 DEF WritesFit, Open
      <3> QED
        BY <3>1, <3>2
    <2> QED
      BY <2>6 DEF WritesFit
  <1>9. AttemptsNoted'
    BY AttemptsStay DEF Work
  <1> QED
    BY <1>5, <1>6, <1>7, <1>8, <1>9

\* What a commit does to each URL.
LEMMA CommitFacts ==
    ASSUME ArchiveInv, NEW u \in URL, Commit(u)
    PROVE  /\ \A v \in URL \ {u} :
                 /\ snaps'[v] = snaps[v] /\ seen'[v] = seen[v] /\ attempt'[v] = attempt[v]
                 /\ phase'[v] = phase[v] /\ began'[v] = began[v] /\ resp'[v] = resp[v]
                 /\ write'[v] = write[v]
           /\ snaps'[u] = RowsAfter(u)
           /\ seen'[u] = IF write[u].kind = "none" THEN seen[u] ELSE resp[u]
           /\ phase[u] = "written" /\ phase'[u] = "idle" /\ began'[u] = 0
           /\ resp'[u] = Unreachable /\ write'[u] = NoWrite
           /\ now' = now /\ now \in Nat
           /\ snaps[u] \in Seq(Snapshot) /\ Len(snaps[u]) \in Nat
           /\ resp[u] \in Response /\ resp[u] \in Visit(u) /\ write[u].at \in Time
           /\ write[u].kind \in {"none", "save", "touch"}
           /\ began[u] \in Nat /\ began[u] <= now
  <1>1. TypeOK /\ FromVisits /\ WritesFit
    BY DEF ArchiveInv
  <1>2. now \in Nat /\ began[u] \in Nat
    BY <1>1, StoreAssumption DEF TypeOK, Time
  <1>3. snaps[u] \in Seq(Snapshot) /\ Len(snaps[u]) \in Nat
    BY <1>1 DEF TypeOK
  <1>4. resp[u] \in Visit(u) /\ began[u] <= now
    BY <1>1 DEF FromVisits, WritesFit, Commit, Open
  <1> QED
    BY <1>1, <1>2, <1>3, <1>4 DEF Commit, Finish, TypeOK

\* The rows of the URL after the commit: one more, or the same ones with a later
\* last_crawled, or the same ones.
LEMMA CommittedRows ==
    ASSUME ArchiveInv, NEW u \in URL, Commit(u)
    PROVE  /\ snaps'[u] \in Seq(Snapshot)
           /\ write[u].kind = "save" =>
                 /\ Len(snaps'[u]) = Len(snaps[u]) + 1
                 /\ \A i \in 1 .. Len(snaps[u]) : snaps'[u][i] = snaps[u][i]
                 /\ snaps'[u][Len(snaps[u]) + 1] = NewSnapshot(resp[u], write[u].at)
           /\ write[u].kind = "touch" =>
                 /\ Len(snaps'[u]) = Len(snaps[u])
                 /\ \A i \in 1 .. Len(snaps[u]) :
                       snaps'[u][i] = [snaps[u][i] EXCEPT !.lastCrawled = write[u].at]
           /\ write[u].kind = "none" => snaps'[u] = snaps[u]
  <1>1. CASE write[u].kind = "save"
    BY <1>1, CommitFacts, AppendedRows DEF RowsAfter
  <1>2. CASE write[u].kind = "touch"
    BY <1>2, CommitFacts, TouchedRows DEF RowsAfter
  <1>3. CASE write[u].kind = "none"
    BY <1>3, CommitFacts DEF RowsAfter
  <1> QED
    BY <1>1, <1>2, <1>3, CommitFacts

\* A new snapshot is the attempt itself, and otherwise every row gets its time.
LEMMA CommitNotesAttempt ==
    ASSUME ArchiveInv, NEW u \in URL, Commit(u)
    PROVE  AttemptsNoted'
  <1> DEFINE n == Len(snaps[u])
             latest == snaps'[u][Len(snaps'[u])]
  <1>0. TypeOK /\ InOrder /\ WritesFit /\ AttemptsNoted
    BY DEF ArchiveInv
  <1>1. /\ snaps[u] \in Seq(Snapshot) /\ n \in Nat /\ began[u] \in Nat /\ write[u].at \in Nat
        /\ write[u].kind \in {"none", "save", "touch"}
    BY CommitFacts, StoreAssumption DEF Time
  <1>2. attempt'[u] = IF write[u].kind = "none" THEN attempt[u] ELSE write[u].at
    BY <1>0 DEF Commit, TypeOK
  <1>3. \A i \in 1 .. n : /\ snaps[u][i] \in Snapshot
                           /\ snaps[u][i].lastCrawled \in Nat
                           /\ snaps[u][i].lastCrawled <= began[u]
    BY <1>0, RowFields DEF InOrder, Rows, Open, Commit
  <1>4. ASSUME NEW i \in 1 .. Len(snaps'[u])
        PROVE  /\ snaps'[u][i].lastCrawled <= attempt'[u] /\ latest.lastCrawled = attempt'[u]
               /\ snaps'[u][i].lastCrawled = attempt'[u] \/ latest.timestamp = attempt'[u]
    <2>1. CASE write[u].kind = "save"
      <3>1. /\ Len(snaps'[u]) = n + 1 /\ \A k \in 1 .. n : snaps'[u][k] = snaps[u][k]
            /\ latest = NewSnapshot(resp[u], write[u].at)
        BY <2>1, CommittedRows
      <3>2. latest.lastCrawled = attempt'[u] /\ latest.timestamp = attempt'[u]
        BY <1>2, <2>1, <3>1 DEF NewSnapshot
      <3>3. began[u] <= write[u].at
        BY <1>0, <2>1 DEF WritesFit
      <3>4. i \in 1 .. n \/ i = Len(snaps'[u])
        BY ONLY <1>1, <3>1, i \in 1 .. Len(snaps'[u])
      <3>5. CASE i \in 1 .. n
        <4>1. snaps'[u][i].lastCrawled \in Nat /\ snaps'[u][i].lastCrawled <= began[u]
          BY <1>3, <3>1, <3>5
        <4> QED
          BY <1>1, <1>2, <2>1, <3>2, <3>3, <4>1
      <3>6. CASE i = Len(snaps'[u])
        BY <1>1, <1>2, <2>1, <3>2, <3>6
      <3> QED
        BY <3>4, <3>5, <3>6
    <2>2. CASE write[u].kind = "touch"
      <3>1. Len(snaps'[u]) = n
        BY <2>2, CommittedRows
      <3>2. ASSUME NEW k \in 1 .. n
            PROVE  snaps'[u][k].lastCrawled = write[u].at
        <4>1. snaps'[u][k] = [snaps[u][k] EXCEPT !.lastCrawled = write[u].at]
          BY <2>2, CommittedRows
        <4>2. snaps[u][k] \in Snapshot
          BY <1>3
        <4> QED
          BY ONLY <4>1, <4>2, SnapshotFields
      <3>3. i \in 1 .. n /\ n \in 1 .. n
        BY ONLY <1>1, <3>1, i \in 1 .. Len(snaps'[u])
      <3> QED
        BY <1>1, <1>2, <2>2, <3>1, <3>2, <3>3
    <2>3. CASE write[u].kind = "none"
      <3>1. snaps'[u] = snaps[u]
        BY <2>3, CommittedRows
      <3> QED
        BY <1>0, <1>2, <2>3, <3>1 DEF AttemptsNoted, Rows, GetLatestSnapshot
    <2> QED
      BY <1>1, <2>1, <2>2, <2>3
  <1>5. \A v \in URL \ {u} : snaps'[v] = snaps[v] /\ attempt'[v] = attempt[v]
    BY CommitFacts
  <1> QED
    BY <1>0, <1>4, <1>5 DEF AttemptsNoted, Rows, GetLatestSnapshot

LEMMA CommitStep ==
    ASSUME ArchiveInv, NEW u \in URL, Commit(u)
    PROVE  ArchiveInv'
  <1> USE CommitFacts, CommittedRows
  <1>0. TypeOK /\ InOrder /\ FromVisits /\ WritesFit
    BY DEF ArchiveInv
  <1>1. TypeOK'
    <2>1. Unreachable \in Response /\ 0 \in Time /\ NoWrite \in [kind : {"none", "save", "touch"}, at : Time]
      BY StoreAssumption DEF Unreachable, Response, Mime, Time, NoWrite
    <2>2. snaps' \in [URL -> Seq(Snapshot)]
      BY <1>0 DEF Commit, TypeOK
    <2>3. seen' \in [URL -> Response] /\ attempt' \in [URL -> Time]
      BY <1>0 DEF Commit, TypeOK
    <2> QED
      BY <1>0, <2>1, <2>2, <2>3 DEF Commit, Finish, TypeOK
  <1>2. InOrder'
    <2>1. ASSUME NEW v \in URL, NEW i \in Rows(v)'
          PROVE  /\ snaps'[v][i].timestamp <= snaps'[v][i].lastCrawled
                 /\ snaps'[v][i].lastCrawled <= (IF Open(v)' THEN began'[v] ELSE now')
                 /\ \A j \in Rows(v)' : i <= j => snaps'[v][i].timestamp <= snaps'[v][j].timestamp
      <3>1. CASE v # u
        BY <3>1, <1>0, <2>1 DEF InOrder, Rows, Open
      <3>2. CASE v = u
        <4>1. \A k \in 1 .. Len(snaps[u]) :
                /\ snaps[u][k] \in Snapshot
                /\ snaps[u][k].timestamp \in Nat /\ snaps[u][k].lastCrawled \in Nat
                /\ snaps[u][k].timestamp <= snaps[u][k].lastCrawled
                /\ snaps[u][k].lastCrawled <= began[u]
          BY <1>0, RowFields DEF InOrder, Rows, Open
        <4>2. write[u].at \in Nat
          BY StoreAssumption DEF Time
        <4>3. (IF Open(u)' THEN began'[u] ELSE now') = now
          BY DEF Open
        <4>4. CASE write[u].kind = "save"
          <5>1. began[u] <= write[u].at /\ write[u].at <= now
            BY <1>0, <4>4 DEF WritesFit
          <5>2. /\ NewSnapshot(resp[u], write[u].at).timestamp = write[u].at
                /\ NewSnapshot(resp[u], write[u].at).lastCrawled = write[u].at
            BY DEF NewSnapshot
          <5>3. i \in 1 .. Len(snaps[u]) + 1
            BY <3>2, <2>1, <4>4 DEF Rows
          <5>4. CASE i = Len(snaps[u]) + 1
            <6>1. Rows(u)' = 1 .. Len(snaps[u]) + 1 /\ Len(snaps[u]) \in Nat
              BY <4>4 DEF Rows
            <6>2. \A j \in Rows(u)' : i <= j => j = i
              BY ONLY <6>1, <5>4
            <6>3. snaps'[u][i] = NewSnapshot(resp[u], write[u].at)
              BY <4>4, <5>4
            <6>4. snaps'[u][i].timestamp = write[u].at /\ snaps'[u][i].lastCrawled = write[u].at
              BY ONLY <5>2, <6>3
            <6>5. now \in Nat
              BY <1>0, StoreAssumption DEF TypeOK, Time
            <6>6. /\ snaps'[u][i].timestamp <= snaps'[u][i].lastCrawled
                  /\ snaps'[u][i].lastCrawled <= now
                  /\ snaps'[u][i].timestamp <= snaps'[u][i].timestamp
              BY ONLY <6>4, <6>5, <5>1, <4>2
            <6> QED
              BY <6>2, <6>6, <4>3, <3>2
          <5>5. CASE i \in 1 .. Len(snaps[u])
            <6>1. /\ snaps'[u][i].timestamp <= snaps'[u][i].lastCrawled
                  /\ snaps'[u][i].lastCrawled <= now
              <7>1. snaps'[u][i] = snaps[u][i]
                BY <4>4, <5>5
              <7>2. /\ snaps[u][i].timestamp <= snaps[u][i].lastCrawled
                    /\ snaps[u][i].lastCrawled <= began[u]
                    /\ snaps[u][i].timestamp \in Nat /\ snaps[u][i].lastCrawled \in Nat
                BY <4>1, <5>5
              <7>3. began[u] \in Nat /\ now \in Nat
                BY <1>0, StoreAssumption DEF TypeOK, Time
              <7> QED
                BY ONLY <7>1, <7>2, <7>3, <5>1, <4>2
            <6>2. ASSUME NEW j \in 1 .. Len(snaps[u]) + 1, i <= j
                  PROVE  snaps'[u][i].timestamp <= snaps'[u][j].timestamp
              <7>1. CASE j \in 1 .. Len(snaps[u])
                BY <7>1, <6>2, <5>5, <4>4, <1>0 DEF InOrder, Rows
              <7>2. CASE j = Len(snaps[u]) + 1
                <8>1. /\ snaps'[u][j].timestamp = write[u].at
                      /\ snaps'[u][i].timestamp = snaps[u][i].timestamp
                  BY <7>2, <5>5, <5>2, <4>4
                <8>2. /\ snaps[u][i].timestamp <= snaps[u][i].lastCrawled
                      /\ snaps[u][i].lastCrawled <= began[u]
                      /\ snaps[u][i].timestamp \in Nat /\ snaps[u][i].lastCrawled \in Nat
                  BY <4>1, <5>5
                <8> QED
                  BY <8>1, <8>2, <5>1, <4>2
              <7>3. Len(snaps[u]) \in Nat
                OBVIOUS
              <7>4. j \in 1 .. Len(snaps[u]) \/ j = Len(snaps[u]) + 1
                BY ONLY <7>3, j \in 1 .. Len(snaps[u]) + 1
              <7> QED
                BY <7>1, <7>2, <7>4
            <6> QED
              BY <6>1, <6>2, <4>3, <4>4, <3>2 DEF Rows
          <5> QED
            BY <5>3, <5>4, <5>5
        <4>5. CASE write[u].kind = "touch"
          <5>1. write[u].at = began[u]
            BY <1>0, <4>5 DEF WritesFit
          <5>2. \A k \in 1 .. Len(snaps[u]) :
                  /\ snaps'[u][k].timestamp = snaps[u][k].timestamp
                  /\ snaps'[u][k].lastCrawled = began[u]
            <6>1. ASSUME NEW k \in 1 .. Len(snaps[u])
                  PROVE  /\ snaps'[u][k].timestamp = snaps[u][k].timestamp
                         /\ snaps'[u][k].lastCrawled = began[u]
              <7>1. snaps'[u][k] = [snaps[u][k] EXCEPT !.lastCrawled = began[u]]
                BY <4>5, <5>1
              <7>2. snaps[u][k] \in Snapshot
                BY <4>1
              <7> QED
                BY ONLY <7>1, <7>2, SnapshotFields
            <6> QED
              BY <6>1
          <5>3. Rows(u)' = 1 .. Len(snaps[u])
            BY <4>5 DEF Rows
          <5> QED
            BY <1>0, <2>1, <3>2, <4>1, <4>3, <5>2, <5>3 DEF InOrder, Rows
        <4>6. CASE write[u].kind = "none"
          <5>1. snaps'[u] = snaps[u] /\ Rows(u)' = 1 .. Len(snaps[u])
            BY <4>6 DEF Rows
          <5> QED
            BY <1>0, <2>1, <3>2, <4>1, <4>3, <5>1 DEF InOrder, Rows
        <4> QED
          BY <4>4, <4>5, <4>6
      <3> QED
        BY <3>1, <3>2
    <2> QED
      BY <2>1 DEF InOrder
  <1>3. FromVisits'
    <2>1. ASSUME NEW v \in URL
          PROVE  /\ \A i \in Rows(v)' : \E r \in Visit(v) : Shows(snaps'[v][i], r)
                 /\ seen'[v] \in Visit(v) /\ resp'[v] \in Visit(v)
      <3>1. CASE v # u
        BY <3>1, <1>0 DEF FromVisits, Rows
      <3>2. CASE v = u
        <4>1. seen'[u] \in Visit(u) /\ resp'[u] \in Visit(u)
          BY <1>0, UnreachableIsVisit DEF FromVisits
        <4>2. ASSUME NEW i \in Rows(u)'
              PROVE  \E r \in Visit(u) : Shows(snaps'[u][i], r)
          <5>1. CASE write[u].kind = "save"
            <6>1. i \in 1 .. Len(snaps[u]) \/ i = Len(snaps[u]) + 1
              BY <4>2, <5>1 DEF Rows
            <6>2. Shows(NewSnapshot(resp[u], write[u].at), resp[u])
              BY AppendedRows
            <6> QED
              BY <1>0, <5>1, <6>1, <6>2 DEF FromVisits, Rows
          <5>2. CASE write[u].kind = "touch"
            <6>1. i \in 1 .. Len(snaps[u])
              BY <4>2, <5>2 DEF Rows
            <6>2. snaps[u][i] \in Snapshot
              BY <6>1
            <6>3. PICK r \in Visit(u) : Shows(snaps[u][i], r)
              BY <1>0, <6>1 DEF FromVisits, Rows
            <6>4. Shows(snaps'[u][i], r)
              <7>1. snaps'[u][i] = [snaps[u][i] EXCEPT !.lastCrawled = write[u].at]
                BY <5>2, <6>1
              <7> QED
                BY ONLY <7>1, <6>2, <6>3, SnapshotFields
            <6> QED
              BY <6>4
          <5>3. CASE write[u].kind = "none"
            BY <1>0, <4>2, <5>3 DEF FromVisits, Rows
          <5> QED
            BY <5>1, <5>2, <5>3
        <4> QED
          BY <3>2, <4>1, <4>2
      <3> QED
        BY <3>1, <3>2
    <2> QED
      BY <2>1 DEF FromVisits
  <1>4. WritesFit'
    BY <1>0 DEF WritesFit, Open, NoWrite
  <1>5. AttemptsNoted'
    BY CommitNotesAttempt
  <1> QED
    BY <1>1, <1>2, <1>3, <1>4, <1>5 DEF ArchiveInv

LEMMA AbortStep ==
    ASSUME ArchiveInv, NEW u \in URL, Abort(u)
    PROVE  ArchiveInv'
  <1>0. TypeOK /\ InOrder /\ FromVisits /\ WritesFit
    BY DEF ArchiveInv
  <1>1. TypeOK'
    <2>1. Unreachable \in Response /\ 0 \in Time /\ NoWrite \in [kind : {"none", "save", "touch"}, at : Time]
      BY StoreAssumption DEF Unreachable, Response, Mime, Time, NoWrite
    <2> QED
      BY <1>0, <2>1 DEF Abort, Finish, TypeOK, seenVars
  <1>2. InOrder'
    <2>1. \A v \in URL : \A i \in Rows(v) : snaps[v][i].lastCrawled \in Nat
      BY <1>0, RowFields
    <2>2. \A v \in URL : (IF Open(v) THEN began[v] ELSE now) <= (IF Open(v) THEN began[v] ELSE now)'
      BY <1>0, StoreAssumption DEF Abort, Finish, Open, TypeOK, WritesFit, Time, seenVars
    <2>3. \A v \in URL : /\ (IF Open(v) THEN began[v] ELSE now) \in Nat
                         /\ (IF Open(v) THEN began[v] ELSE now)' \in Nat
      BY <1>0, <1>1, StoreAssumption DEF TypeOK, Time
    <2> QED
      BY <1>0, <2>1, <2>2, <2>3 DEF InOrder, Rows, Abort, seenVars
  <1>3. FromVisits'
    BY <1>0, UnreachableIsVisit DEF FromVisits, Rows, Abort, Finish, TypeOK, seenVars
  <1>4. WritesFit'
    BY <1>0 DEF WritesFit, Abort, Finish, Open, TypeOK, NoWrite, seenVars
  <1>5. AttemptsNoted'
    BY AttemptsStay DEF ArchiveInv, Abort
  <1> QED
    BY <1>1, <1>2, <1>3, <1>4, <1>5 DEF ArchiveInv

LEMMA RestartStep ==
    ASSUME ArchiveInv, Restart
    PROVE  ArchiveInv'
  <1>0. TypeOK /\ InOrder /\ FromVisits /\ WritesFit
    BY DEF ArchiveInv
  <1>1. TypeOK'
    BY <1>0 DEF Restart, TypeOK, seenVars
  <1>2. InOrder' /\ FromVisits'
    BY <1>0 DEF Restart, InOrder, FromVisits, Rows, Open, seenVars
  <1>3. WritesFit'
    BY <1>0 DEF Restart, WritesFit, Open, seenVars
  <1>4. AttemptsNoted'
    BY AttemptsStay DEF ArchiveInv, Restart
  <1> QED
    BY <1>1, <1>2, <1>3, <1>4 DEF ArchiveInv

LEMMA TickStep ==
    ASSUME ArchiveInv, Tick
    PROVE  ArchiveInv'
  <1>0. TypeOK /\ InOrder /\ FromVisits /\ WritesFit
    BY DEF ArchiveInv
  <1>1. now \in Nat /\ now' = now + 1 /\ now' \in Time
    BY <1>0, StoreAssumption DEF Tick, TypeOK, Time
  <1>2. UNCHANGED <<dryRun, queue, picked, workVars, seenVars>>
    BY DEF Tick
  <1>3. TypeOK'
    BY <1>0, <1>1, <1>2 DEF TypeOK, workVars, seenVars
  <1>4. InOrder'
    <2>1. \A v \in URL : \A i \in Rows(v) : snaps[v][i].lastCrawled \in Nat
      BY <1>0, RowFields
    <2> QED
      BY <1>0, <1>1, <1>2, <2>1 DEF InOrder, Rows, Open, workVars, seenVars
  <1>5. FromVisits'
    BY <1>0, <1>2 DEF FromVisits, Rows, workVars, seenVars
  <1>6. WritesFit'
    <2>1. \A v \in URL : began[v] \in Nat /\ write[v].at \in Nat
      BY <1>0, StoreAssumption DEF TypeOK, Time
    <2>2. \A v \in URL : Open(v) => began[v] = now
      BY DEF Tick
    <2> QED
      BY <1>0, <1>1, <1>2, <2>1, <2>2 DEF WritesFit, Open, workVars, seenVars
  <1>7. AttemptsNoted'
    BY <1>2, AttemptsStay DEF ArchiveInv
  <1> QED
    BY <1>3, <1>4, <1>5, <1>6, <1>7 DEF ArchiveInv

-----------------------------------------------------------------------------
\* The rows, the last responses and the open transactions fit together in every
\* reachable state.
THEOREM ArchiveInvariance == Spec => []ArchiveInv
  <1>1. ArchiveInv /\ [Next]_vars => ArchiveInv'
    BY QueueSteps, BeginStep, WorkStep, CommitStep, AbortStep, RestartStep, TickStep DEF Next
  <1> QED
    BY InitEstablishes, <1>1, PTL DEF Spec

-----------------------------------------------------------------------------
(***************************************************************************)
(* What follows from one snapshot to the next.                             *)
(***************************************************************************)

\* Only a commit changes the archive or the last response.
LEMMA OnlyCommitStores ==
    ASSUME [Next]_vars
    PROVE  UNCHANGED <<snaps, seen>> \/ \E u \in URL : Commit(u)
  BY DEF Next, Link, InsertHistory, Begin, Work, Abort, FetchSnapshotsFromHistory, Restart, Tick,
     vars, seenVars

\* A commit that stores appends one snapshot and one that only notes the crawl keeps what
\* every snapshot shows.
LEMMA CommittedShows ==
    ASSUME ArchiveInv, NEW u \in URL, Commit(u)
    PROVE  \/ /\ write[u].kind = "save"
              /\ Len(snaps'[u]) = Len(snaps[u]) + 1
              /\ \A i \in 1 .. Len(snaps[u]) : snaps'[u][i] = snaps[u][i]
              /\ Shows(snaps'[u][Len(snaps[u]) + 1], resp[u])
           \/ /\ write[u].kind # "save"
              /\ Len(snaps'[u]) = Len(snaps[u])
              /\ \A i \in 1 .. Len(snaps[u]) : Shows(snaps'[u][i], snaps[u][i])
  <1>1. CASE write[u].kind = "save"
    <2>1. Shows(NewSnapshot(resp[u], write[u].at), resp[u])
      BY CommitFacts, AppendedRows
    <2> QED
      BY <1>1, <2>1, CommittedRows
  <1>2. CASE write[u].kind = "touch"
    <2>1. ASSUME NEW i \in 1 .. Len(snaps[u])
          PROVE  Shows(snaps'[u][i], snaps[u][i])
      <3>1. snaps'[u][i] = [snaps[u][i] EXCEPT !.lastCrawled = write[u].at]
        BY <1>2, CommittedRows
      <3>2. snaps[u][i] \in Snapshot
        BY CommitFacts
      <3>3. Shows([snaps[u][i] EXCEPT !.lastCrawled = write[u].at], snaps[u][i])
        BY ONLY <3>2, SnapshotFields
      <3> QED
        BY <3>1, <3>3
    <2> QED
      BY <1>2, <2>1, CommittedRows
  <1>3. CASE write[u].kind = "none"
    BY <1>3, CommittedRows DEF Shows
  <1> QED
    BY <1>1, <1>2, <1>3, CommitFacts

\* Two neighbours are old neighbours, or the old latest and the response of the commit.
LEMMA CommittedNeighbours ==
    ASSUME ArchiveInv, NEW u \in URL, Commit(u),
           NEW i \in Rows(u)', i + 1 \in Rows(u)'
    PROVE  \/ /\ i \in Rows(u) /\ i + 1 \in Rows(u)
              /\ Shows(snaps'[u][i], snaps[u][i]) /\ Shows(snaps'[u][i + 1], snaps[u][i + 1])
           \/ /\ write[u].kind = "save" /\ snaps[u] # <<>>
              /\ Shows(snaps'[u][i], GetLatestSnapshot(snaps[u]))
              /\ Shows(snaps'[u][i + 1], resp[u])
  <1> DEFINE n == Len(snaps[u])
  <1>1. n \in Nat /\ snaps[u] \in Seq(Snapshot)
    BY CommitFacts
  <1>2. \A s : Shows(s, s)
    BY DEF Shows
  <1>3. i \in 1 .. Len(snaps'[u]) /\ i + 1 \in 1 .. Len(snaps'[u])
    BY DEF Rows
  <1>4. CASE write[u].kind = "save"
    <2>1. Len(snaps'[u]) = n + 1 /\ Shows(snaps'[u][n + 1], resp[u])
      BY <1>4, CommittedShows
    <2>2. \A k \in 1 .. n : snaps'[u][k] = snaps[u][k]
      BY <1>4, CommittedShows
    <2>3. i \in 1 .. n /\ (i + 1 \in 1 .. n \/ i = n)
      BY ONLY <1>1, <1>3, <2>1
    <2>4. CASE i + 1 \in 1 .. n
      BY <1>2, <2>2, <2>3, <2>4 DEF Rows
    <2>5. CASE i = n
      <3>1. snaps[u] # <<>>
        BY <2>3, <2>5, <1>1
      <3>2. snaps'[u][i] = GetLatestSnapshot(snaps[u])
        BY <2>2, <2>3, <2>5 DEF GetLatestSnapshot
      <3> QED
        BY <1>2, <1>4, <2>1, <2>5, <3>1, <3>2
    <2> QED
      BY <2>3, <2>4, <2>5
  <1>5. CASE write[u].kind # "save"
    <2>1. Len(snaps'[u]) = n /\ \A k \in 1 .. n : Shows(snaps'[u][k], snaps[u][k])
      BY <1>5, CommittedShows
    <2> QED
      BY <1>3, <2>1 DEF Rows
  <1> QED
    BY <1>4, <1>5

\* OneErrorInARow: at most one of consecutive snapshots of a URL is an error.
THEOREM NeverTwoErrors == Spec => []OneErrorInARow
  <1>1. Init => OneErrorInARow
    BY DEF Init, OneErrorInARow, Rows
  <1>2. ArchiveInv /\ OneErrorInARow /\ [Next]_vars => OneErrorInARow'
    <2> SUFFICES ASSUME ArchiveInv, OneErrorInARow, [Next]_vars,
                        NEW v \in URL, NEW i \in Rows(v)', i + 1 \in Rows(v)'
                 PROVE  ~(snaps'[v][i].error /\ snaps'[v][i + 1].error)
      BY DEF OneErrorInARow
    <2>1. CASE snaps'[v] = snaps[v]
      BY <2>1 DEF OneErrorInARow, Rows
    <2>2. CASE Commit(v)
      <3>1. CASE /\ i \in Rows(v) /\ i + 1 \in Rows(v)
                 /\ Shows(snaps'[v][i], snaps[v][i]) /\ Shows(snaps'[v][i + 1], snaps[v][i + 1])
        BY <3>1 DEF OneErrorInARow, Shows
      <3>2. CASE /\ write[v].kind = "save" /\ snaps[v] # <<>>
                 /\ Shows(snaps'[v][i], GetLatestSnapshot(snaps[v]))
                 /\ Shows(snaps'[v][i + 1], resp[v])
        BY <3>2 DEF ArchiveInv, WritesFit, ShouldUpdateSnapshotData, Shows
      <3> QED
        BY <2>2, <3>1, <3>2, CommittedNeighbours
    <2> QED
      BY <2>1, <2>2, OnlyCommitStores, CommitFacts
  <1> QED
    BY <1>1, <1>2, ArchiveInvariance, PTL DEF Spec

\* NoRepeatedVersion: two consecutive snapshots of a URL never have the same body.
THEOREM NeverTheSameTwice == Spec => []NoRepeatedVersion
  <1>1. Init => NoRepeatedVersion
    BY DEF Init, NoRepeatedVersion, Rows
  <1>2. ArchiveInv /\ NoRepeatedVersion /\ [Next]_vars => NoRepeatedVersion'
    <2> SUFFICES ASSUME ArchiveInv, NoRepeatedVersion, [Next]_vars,
                        NEW v \in URL, NEW i \in Rows(v)', i + 1 \in Rows(v)'
                 PROVE  ~SameBody(snaps'[v][i + 1], snaps'[v][i])
      BY DEF NoRepeatedVersion
    <2>1. CASE snaps'[v] = snaps[v]
      BY <2>1 DEF NoRepeatedVersion, Rows
    <2>2. CASE Commit(v)
      <3>1. CASE /\ i \in Rows(v) /\ i + 1 \in Rows(v)
                 /\ Shows(snaps'[v][i], snaps[v][i]) /\ Shows(snaps'[v][i + 1], snaps[v][i + 1])
        BY <3>1 DEF NoRepeatedVersion, Shows, SameBody
      <3>2. CASE /\ write[v].kind = "save" /\ snaps[v] # <<>>
                 /\ Shows(snaps'[v][i], GetLatestSnapshot(snaps[v]))
                 /\ Shows(snaps'[v][i + 1], resp[v])
        BY <3>2 DEF ArchiveInv, WritesFit, IsContentIdentical, Shows, SameBody
      <3> QED
        BY <2>2, <3>1, <3>2, CommittedNeighbours
    <2> QED
      BY <2>1, <2>2, OnlyCommitStores, CommitFacts
  <1> QED
    BY <1>1, <1>2, ArchiveInvariance, PTL DEF Spec

\* LatestIsCurrent: the latest snapshot has the body of the last visit that left a trace in
\* the archive, or both are errors (saveSnapshotAndRemoveURL, IsContentIdentical).
THEOREM LatestShowsLastVisit == Spec => []LatestIsCurrent
  <1>1. Init => LatestIsCurrent
    BY DEF Init, LatestIsCurrent
  <1>2. ArchiveInv /\ LatestIsCurrent /\ [Next]_vars => LatestIsCurrent'
    <2> SUFFICES ASSUME ArchiveInv, LatestIsCurrent, [Next]_vars,
                        NEW v \in URL, snaps'[v] # <<>>
                 PROVE  LET latest == GetLatestSnapshot(snaps'[v]) IN
                        /\ \/ latest.gemtext = seen'[v].gemtext /\ latest.data = seen'[v].data
                           \/ latest.error /\ seen'[v].error
                        /\ v \notin Gopher => latest.error = seen'[v].error
      BY DEF LatestIsCurrent
    <2> DEFINE old == GetLatestSnapshot(snaps[v])
               new == GetLatestSnapshot(snaps'[v])
    <2>1. CASE snaps'[v] = snaps[v] /\ seen'[v] = seen[v]
      BY <2>1 DEF LatestIsCurrent
    <2>2. CASE Commit(v)
      <3>1. /\ snaps[v] \in Seq(Snapshot) /\ Len(snaps[v]) \in Nat
            /\ snaps'[v] \in Seq(Snapshot)
            /\ seen'[v] = IF write[v].kind = "none" THEN seen[v] ELSE resp[v]
            /\ write[v].kind \in {"none", "save", "touch"}
        BY <2>2, CommitFacts, CommittedRows
      <3>2. CASE write[v].kind = "save"
        <4>1. Shows(new, resp[v])
          BY <2>2, <3>1, <3>2, CommittedShows DEF GetLatestSnapshot
        <4> QED
          BY <3>1, <3>2, <4>1 DEF Shows
      <3>3. CASE write[v].kind = "none"
        BY <2>2, <3>1, <3>3, CommittedRows DEF LatestIsCurrent
      <3>4. CASE write[v].kind = "touch"
        <4>1. Len(snaps'[v]) = Len(snaps[v]) /\ \A i \in 1 .. Len(snaps[v]) : Shows(snaps'[v][i], snaps[v][i])
          BY <2>2, <3>4, CommittedShows
        <4>2. Len(snaps[v]) \in 1 .. Len(snaps[v]) /\ snaps[v] # <<>>
          BY <3>1, <4>1
        <4>3. Shows(new, old)
          BY <4>1, <4>2 DEF GetLatestSnapshot
        <4>4. PICK r \in Visit(v) : Shows(old, r)
          BY <4>2 DEF ArchiveInv, FromVisits, Rows, GetLatestSnapshot
        <4>5. CASE IsContentIdentical(resp[v], snaps[v])
          <5>1. SameBody(resp[v], r)
            BY <4>4, <4>5 DEF IsContentIdentical, SameBody, Shows
          <5>2. /\ v \notin Gopher => resp[v].error = r.error
                /\ resp[v].gemtext = r.gemtext /\ resp[v].data = r.data
            BY <2>2, <5>1, CommitFacts, SameBodySameError
          <5> QED
            BY <3>1, <3>4, <4>3, <4>4, <5>2 DEF Shows
        <4>6. CASE ~ShouldUpdateSnapshotData(resp[v], snaps[v])
          <5>1. resp[v].error /\ old.error
            BY <4>6 DEF ShouldUpdateSnapshotData
          <5>2. old.error \in BOOLEAN /\ resp[v].error \in BOOLEAN
            <6>1. old \in Snapshot
              BY <3>1, <4>2 DEF GetLatestSnapshot
            <6>2. resp[v] \in Response
              BY <2>2, CommitFacts
            <6> QED
              BY ONLY <6>1, <6>2 DEF Snapshot, Response
          <5>3. new.error = old.error
            BY <4>3 DEF Shows
          <5> QED
            BY <3>1, <3>4, <5>1, <5>2, <5>3
        <4> QED
          BY <3>4, <4>5, <4>6 DEF ArchiveInv, WritesFit
      <3> QED
        BY <3>1, <3>2, <3>3, <3>4
    <2> QED
      BY <2>1, <2>2, OnlyCommitStores, CommitFacts
  <1> QED
    BY <1>1, <1>2, ArchiveInvariance, PTL DEF Spec

\* RecrawledWhenDue: a root whose last visit is before the cutoff is found by the history
\* query, and one that is found although it was visited since then owes that to a snapshot
\* that the query does not count (SQL_FETCH_SNAPSHOTS_FROM_HISTORY).
THEOREM DueRootsAreFound == Spec => []RecrawledWhenDue
  <1>1. ArchiveInv => RecrawledWhenDue
    <2> SUFFICES ASSUME ArchiveInv, NEW u \in Root
                 PROVE  /\ IsCounted(u) /\ HasContent(u) /\ attempt[u] + SkipDays < now => u \in Eligible
                        /\ u \in Eligible /\ attempt[u] + SkipDays >= now =>
                              LET latest == GetLatestSnapshot(snaps[u]) IN
                              ~Counted(latest) /\ latest.timestamp = attempt[u]
      BY DEF RecrawledWhenDue
    <2> DEFINE latest == GetLatestSnapshot(snaps[u])
    <2>1. u \in URL /\ attempt[u] \in Nat /\ now \in Nat /\ SkipDays \in Nat /\ Len(snaps[u]) \in Nat
      BY StoreAssumption DEF ArchiveInv, TypeOK, Time
    <2>2. ASSUME NEW i \in Rows(u)
          PROVE  /\ snaps[u][i].lastCrawled \in Nat
                 /\ snaps[u][i].lastCrawled <= attempt[u] /\ latest.lastCrawled = attempt[u]
                 /\ snaps[u][i].lastCrawled = attempt[u] \/ latest.timestamp = attempt[u]
      BY <2>1, RowFields DEF ArchiveInv, AttemptsNoted
    <2>3. ASSUME IsCounted(u), HasContent(u), attempt[u] + SkipDays < now
          PROVE  u \in Eligible
      <3>1. BeforeCutoff(u)
        BY <2>1, <2>2, <2>3 DEF BeforeCutoff, Rows
      <3> QED
        BY <2>3, <3>1 DEF Eligible
    <2>4. ASSUME u \in Eligible, attempt[u] + SkipDays >= now
          PROVE  ~Counted(latest) /\ latest.timestamp = attempt[u]
      <3>1. PICK i \in Rows(u) : Counted(snaps[u][i])
        BY <2>4 DEF Eligible, IsCounted, Rows
      <3>2. \A k \in Rows(u) : Counted(snaps[u][k]) => snaps[u][k].lastCrawled + SkipDays < now
        BY <2>4 DEF Eligible, BeforeCutoff, Rows
      <3>3. latest.timestamp = attempt[u]
        BY <2>1, <2>2, <2>4, <3>1, <3>2
      <3>4. Len(snaps[u]) \in Rows(u) /\ latest.lastCrawled = attempt[u]
        BY <2>1, <2>2, <3>1 DEF Rows
      <3>5. ~Counted(latest)
        BY <2>1, <2>4, <3>2, <3>4 DEF GetLatestSnapshot
      <3> QED
        BY <3>3, <3>5
    <2> QED
      BY <2>3, <2>4
  <1> QED
    BY <1>1, ArchiveInvariance, PTL

\* PastIsStable: a later visit adds no snapshot before the transactions that are open, and
\* changes nothing of an older one but last_crawled.
THEOREM PastNeverChanges == Spec => PastIsStable
  <1>1. ArchiveInv /\ [Next]_vars =>
          \A u \in URL, t \in Time :
            t < now /\ (Open(u) => t < began[u]) =>
              /\ RowsUntil(snaps[u]', t) = RowsUntil(snaps[u], t)
              /\ \A i \in Rows(u) :
                    /\ i \in 1 .. Len(snaps[u]')
                    /\ snaps[u]'[i] = [snaps[u][i] EXCEPT !.lastCrawled = snaps[u]'[i].lastCrawled]
    <2> SUFFICES ASSUME ArchiveInv, [Next]_vars, NEW u \in URL, NEW t \in Time,
                        t < now, Open(u) => t < began[u]
                 PROVE  /\ RowsUntil(snaps'[u], t) = RowsUntil(snaps[u], t)
                        /\ \A i \in Rows(u) :
                              /\ i \in 1 .. Len(snaps'[u])
                              /\ snaps'[u][i] = [snaps[u][i] EXCEPT !.lastCrawled = snaps'[u][i].lastCrawled]
      OBVIOUS
    <2>0. /\ snaps[u] \in Seq(Snapshot) /\ Len(snaps[u]) \in Nat
          /\ \A s \in Snapshot : s = [s EXCEPT !.lastCrawled = s.lastCrawled]
      <3>1. snaps[u] \in Seq(Snapshot) /\ Len(snaps[u]) \in Nat
        BY DEF ArchiveInv, TypeOK
      <3>2. \A s \in Snapshot : s = [s EXCEPT !.lastCrawled = s.lastCrawled]
        BY DEF Snapshot
      <3> QED
        BY <3>1, <3>2
    <2>1. CASE snaps'[u] = snaps[u]
      BY <2>0, <2>1 DEF Rows
    <2>2. CASE Commit(u)
      <3>1. CASE write[u].kind = "save"
        <4> DEFINE n == Len(snaps[u])
        <4>1. /\ Len(snaps'[u]) = n + 1
              /\ \A i \in 1 .. n : snaps'[u][i] = snaps[u][i]
              /\ snaps'[u][n + 1].timestamp = write[u].at
          <5>1. NewSnapshot(resp[u], write[u].at).timestamp = write[u].at
            BY DEF NewSnapshot
          <5> QED
            BY <2>2, <3>1, <5>1, CommittedRows
        <4>2. began[u] <= write[u].at /\ t < began[u] /\ began[u] \in Nat /\ write[u].at \in Nat /\ t \in Nat
          BY <2>2, <3>1, CommitFacts, StoreAssumption DEF ArchiveInv, WritesFit, Open, Time
        <4>3. {i \in 1 .. n + 1 : snaps'[u][i].timestamp <= t} = {i \in 1 .. n : snaps[u][i].timestamp <= t}
          <5>1. \A i : i \in 1 .. n + 1 <=> i \in 1 .. n \/ i = n + 1
            BY ONLY <2>0
          <5>2. ~(snaps'[u][n + 1].timestamp <= t)
            BY <4>1, <4>2
          <5> QED
            BY <4>1, <5>1, <5>2
        <4>4. RowsUntil(snaps'[u], t) = RowsUntil(snaps[u], t)
          BY <4>1, <4>3 DEF RowsUntil
        <4> QED
          BY <2>0, <4>1, <4>4 DEF Rows
      <3>2. CASE write[u].kind = "touch"
        <4>1. /\ Len(snaps'[u]) = Len(snaps[u])
              /\ \A i \in 1 .. Len(snaps[u]) :
                    snaps'[u][i] = [snaps[u][i] EXCEPT !.lastCrawled = write[u].at]
          BY <2>2, <3>2, CommittedRows
        <4>2. \A i \in 1 .. Len(snaps[u]) : snaps[u][i] \in Snapshot
          BY <2>0
        <4>3. \A s \in Snapshot : \A a : /\ [s EXCEPT !.lastCrawled = a].timestamp = s.timestamp
                                         /\ [s EXCEPT !.lastCrawled = a].lastCrawled = a
          BY DEF Snapshot
        <4>4. \A i \in 1 .. Len(snaps[u]) :
                 /\ snaps'[u][i].timestamp = snaps[u][i].timestamp
                 /\ snaps'[u][i].lastCrawled = write[u].at
          <5>1. ASSUME NEW i \in 1 .. Len(snaps[u])
                PROVE  /\ snaps'[u][i].timestamp = snaps[u][i].timestamp
                       /\ snaps'[u][i].lastCrawled = write[u].at
            <6>1. snaps'[u][i] = [snaps[u][i] EXCEPT !.lastCrawled = write[u].at]
              BY <4>1
            <6>2. snaps[u][i] \in Snapshot
              BY <4>2
            <6> QED
              BY ONLY <6>1, <6>2, <4>3
          <5> QED
            BY <5>1
        <4>5. RowsUntil(snaps'[u], t) = RowsUntil(snaps[u], t)
          BY <4>1, <4>4 DEF RowsUntil
        <4> QED
          BY <4>1, <4>4, <4>5 DEF Rows
      <3>3. CASE write[u].kind = "none"
        BY <2>0, <2>2, <3>3, CommittedRows DEF Rows
      <3> QED
        BY <2>2, <3>1, <3>2, <3>3, CommitFacts
    <2> QED
      BY <2>1, <2>2, OnlyCommitStores, CommitFacts
  <1> QED
    BY <1>1, ArchiveInvariance, PTL DEF Spec, PastIsStable
=============================================================================
