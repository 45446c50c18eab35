------------------------- MODULE SnapshotRefinement -------------------------
(***************************************************************************)
(* SnapshotStore implements the archive of Database: what Crawler assumes  *)
(* of the snapshots, an age and a class for each URL, is what the rows of  *)
(* the table and the queries on them amount to.                            *)
(***************************************************************************)
EXTENDS SnapshotStore

CONSTANT Nobody  \* the scheduler of Database; each URL stands for the worker that has it

RowOf(u) == IF u \notin queue THEN "absent" ELSE IF phase[u] = "idle" THEN "pending" ELSE "processing"

HistOf(u) ==
    IF snaps[u] = <<>> THEN "never"
    ELSE IF ~IsCounted(u) THEN "uncounted"
    ELSE IF BeforeCutoff(u) THEN "old" ELSE "fresh"

\* The kind of snapshot that Crawler saves.
KindOf(r) == IF r.mime = "text/gemini" /\ ~r.error THEN "gemtext" ELSE "other"

WroteBy(u) ==
    CASE write[u].kind = "save"  -> {<<u, KindOf(resp[u])>>}
      [] write[u].kind = "touch" -> {<<u, "touch">>}
      [] OTHER                   -> {}

Tables == INSTANCE Database WITH
    Worker <- URL,
    Scheduler <- Nobody,
    DryRun <- FALSE,
    urls <- [u \in URL |-> RowOf(u)],
    recent <- {u \in URL : Recent(u)},
    hist <- [u \in URL |-> HistOf(u)],
    ins <- [t \in URL \cup {Nobody} |-> {}],
    del <- [t \in URL \cup {Nobody} |-> IF t \in URL /\ phase[t] = "written" THEN {t} ELSE {}],
    wrote <- [t \in URL \cup {Nobody} |-> IF t \in URL THEN WroteBy(t) ELSE {}]

\* A commit and a rollback do to the tables what they do in Database, a new day makes
\* snapshots older and nothing else, and no other step changes what Database sees of them.
ImplementsDatabase ==
    [][ \/ \E u \in URL : (Commit(u) /\ Tables!Commit(u)) \/ (Abort(u) /\ Tables!Discard(u))
        \/ /\ \A u \in URL : Recent(u)' => Recent(u)
           /\ \A u \in URL : HistOf(u)' = HistOf(u) \/ (HistOf(u) = "fresh" /\ HistOf(u)' = "old")
           /\ snaps' = snaps ]_vars
=============================================================================
