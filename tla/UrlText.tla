------------------------------ MODULE UrlText ------------------------------
(***************************************************************************)
(* The text of a URL, from the page, menu or file that names it to its row *)
(* in urls, the request that is sent for it, and its snapshot.  Every hop  *)
(* parses and prints the text again (common/url/url.go).                   *)
(*                                                                         *)
(* A path is the sequence of its segments: "/a/" is <<"a", "">> and "" is  *)
(* <<>>.  Scheme and host are lower-cased on the first parse and the port  *)
(* is spelled out; neither changes after that.                             *)
(***************************************************************************)
EXTENDS Naturals, Sequences, FiniteSets, SequencesExt

CONSTANTS
    Segment,      \* the segments of paths, a subset of the domain of Unescape
    MaxSegments,  \* bound: the segments of a path that is not the target of a redirect
    MaxDepth,     \* bound: how many times a fragment is percent-encoded
    NoText, NoPath, NoSelector

VARIABLES
    via,      \* what names the URL: a page, a menu or the seed file
    selector, \* the line of the menu
    link,     \* how the page or the seed file writes the URL, or getGopherPageLinks does
    rule,     \* the path that robots.txt of the host disallows, if any
    target,   \* where the page redirects to, if it does
    urls,     \* the rows of urls that are not being processed
    marked,   \* those that are
    job,      \* the text that the worker has
    checked,  \* a text that storeLinks has looked up, not found visited, and not inserted yet
    overtaken,\* a visit has been committed since that lookup (history variable)
    snapshots,\* the texts that have a snapshot, all of them recent
    request,  \* the last request that was sent
    lost,     \* whether the page with the link could not be stored
    status    \* "up", "hung" (in WorkerWG.Wait) or "down"

given == <<via, selector, link, rule, target>>
lookup == <<checked, overtaken>>
vars == <<via, selector, link, rule, target, urls, marked, job, checked, overtaken, snapshots,
          request, lost, status>>

-----------------------------------------------------------------------------
(***************************************************************************)
(* Paths (net/url and path, as the code uses them).                        *)
(***************************************************************************)

\* A percent-encoded slash ends a segment once it is decoded.
Unescape ==
    [s \in {"", ".", "..", "1", "+", "a", "a b", "a!", "a%20b", "a%21", "a%2F", "%2E%2E"} |->
        CASE s = "a%20b"  -> <<"a b">>
          [] s = "a%21"   -> <<"a!">>
          [] s = "a%2F"   -> <<"a", "">>
          [] s = "%2E%2E" -> <<"..">>
          [] OTHER        -> <<s>>]

\* Mutant of PathEscape: the segments that are escaped already are escaped again, and
\* come out as another text.
PathEscapeTwice(s) ==
    IF s = "a%20b" THEN "a%21" ELSE IF s \in {"a b", "a%21"} THEN "a%20b" ELSE IF s = "a!" THEN "a%21" ELSE s

\* A blank is escaped, and so is a character that a path may hold as it is.
PathEscape(s) == IF s = "a b" THEN "a%20b" ELSE IF s = "a!" THEN "a%21" ELSE s

Unescaped(path) == FlattenSeq([i \in DOMAIN path |-> Unescape[path[i]]])

\* The text as it stands, if that is a legal encoding; the default encoding otherwise.
EscapedPath(path) ==
    IF "a b" \notin Range(path) THEN path
    ELSE LET plain == Unescaped(path) IN [i \in DOMAIN plain |-> PathEscape(plain[i])]

CleanStep(done, s) ==
    IF s \in {"", "."} THEN done
    ELSE IF s # ".." THEN Append(done, s)
    ELSE IF done = <<>> THEN done ELSE Front(done)

\* path.Clean of a rooted path
Clean(path) ==
    LET done[i \in 0 .. Len(path)] == IF i = 0 THEN <<>> ELSE CleanStep(done[i - 1], path[i])
    IN  done[Len(path)]

Rooted(path) == IF path = <<>> THEN <<"">> ELSE path

\* strings.HasSuffix of the decoded path
HadTrailingSlash(path) == Last(Unescaped(path)) = ""

NormalizePath(path) ==
    IF path = <<>> THEN <<>>
    ELSE LET c == Clean(EscapedPath(path))
             e == [i \in DOMAIN c |-> PathEscape(c[i])]
         IN  IF c # <<>> /\ HadTrailingSlash(path) THEN Append(e, "") ELSE Rooted(e)

-----------------------------------------------------------------------------
(***************************************************************************)
(* Texts.  A fragment is a character and how many times it is encoded.     *)
(***************************************************************************)

Fragment == [percent : BOOLEAN, depth : 0 .. MaxDepth]
Plain    == [percent |-> FALSE, depth |-> 0]

\* The paths that links, menus, rules and redirects are made of
ShortPath == UNION {[1 .. n -> Segment] : n \in 0 .. MaxSegments}

\* A line of a menu: the type of the item, and its selector, which may begin with a slash,
\* have blanks around it, and hold a '#' or a '?' after its path.
Selector ==
    {s \in [type : {"1", "+"}, path : ShortPath, rooted : BOOLEAN, blanks : BOOLEAN,
            hash : BOOLEAN, query : BOOLEAN] :
        IF s.path = <<>> THEN ~s.rooted ELSE s.path[1] = "" => s.rooted}

Text ==
    [scheme : {"gemini", "gopher"}, port : {"default", "other"}, path : Seq(DOMAIN Unescape), query : BOOLEAN,
     fragment : Fragment]

ASSUME TextAssumption ==
    /\ Segment \subseteq DOMAIN Unescape
    /\ MaxSegments \in Nat /\ MaxDepth \in Nat
    /\ NoText \notin Text /\ NoPath \notin Seq(DOMAIN Unescape) /\ NoSelector \notin Selector

\* A percent sign that encodes nothing is an error of url.Parse.
Parses(t) == ~(t.fragment.percent /\ t.fragment.depth = 0)

\* Mutant of ParseURL: the fragment is kept as it was written.
ParseURLRawFragment(t) == [t EXCEPT !.path = NormalizePath(@)]

\* Mutant of ParseURL: the fragment is decoded twice.
ParseURLUnescaped(t) ==
    [t EXCEPT !.path = NormalizePath(@),
              !.fragment.depth = IF @ <= 1 THEN 0 ELSE @ - 2]

\* URL.Full: the path encoded, the query as it was, the fragment decoded.
ParseURL(t) ==
    [t EXCEPT !.path = NormalizePath(@),
              !.fragment.depth = IF @ = 0 THEN 0 ELSE @ - 1]

\* Mutant of DerivedPath: the rest of the current path is dropped.
DerivedPathFromRoot(current, to) == Rooted(Clean(to.path))

\* DeriveAbsoluteURL, before it parses the result: path.Clean takes a trailing slash with
\* it, and a relative target hangs below the page and not below its directory.
DerivedPath(current, to) ==
    CASE to.kind = "url"      -> to.path
      [] to.kind = "absolute" -> Rooted(Clean(to.path))
      [] to.kind = "relative" -> Rooted(Clean(current.path \o to.path))

DeriveAbsoluteURL(current, to) ==
    ParseURL([current EXCEPT !.path = DerivedPath(current, to), !.query = FALSE,
                             !.fragment = Plain])

\* Mutant of StringNoDefaultPort: the path is decoded.
StringNoDefaultPortDecoded(t) ==
    IF t.port = "default"
    THEN [t EXCEPT !.path = Unescaped(@), !.query = FALSE, !.fragment = Plain] ELSE t

\* The text of a gemini request
StringNoDefaultPort(t) ==
    IF t.port = "default" THEN [t EXCEPT !.query = FALSE, !.fragment = Plain] ELSE t

\* The types of gopher items that the regular expression takes for one, in front of a path
ItemType == {"1", "a"}

\* Mutant of ConstructPayloadFromPath: the type stays.
PayloadWithType(path) == Rooted(path)

ConstructPayloadFromPath(path) ==
    IF Len(path) >= 2 /\ path[1] \in ItemType THEN Tail(path) ELSE Rooted(path)

\* What goes to the server of t.
Request(t) ==
    IF t.scheme = "gemini" THEN StringNoDefaultPort(ParseURL(t))
    ELSE [t EXCEPT !.path = ConstructPayloadFromPath(Unescaped(@)), !.query = FALSE,
                   !.fragment = Plain]

\* Whether the text of segment s begins that of segment t.
Begins(s, t) ==
    \/ s = t \/ s = ""
    \/ s = "a" /\ t \in {"a b", "a!", "a%20b", "a%21", "a%2F"}
    \/ s = "." /\ t = ".."

\* Mutant of Blocks: a rule is the path that it disallows.
BlocksSame(path, t) == path = t.path

\* isURLblocked, with the rule as ParseRobotsTxt leaves it: neither cleaned nor encoded.
Blocks(path, t) ==
    LET n == Len(path) IN
    /\ path # NoPath /\ n <= Len(t.path)
    /\ \A i \in 1 .. n - 1 : path[i] = t.path[i]
    /\ Begins(path[n], t.path[n])

-----------------------------------------------------------------------------
(***************************************************************************)
(* The hops.                                                               *)
(***************************************************************************)

Link(scheme, port, path, query, fragment) ==
    [scheme |-> scheme, port |-> port, path |-> path, query |-> query, fragment |-> fragment]

\* A link line of gemtext ends at a blank.
PageLink ==
    {Link("gemini", "default", p, FALSE, Plain) : p \in {q \in ShortPath : "a b" \notin Range(q)}}
    \cup {Link("gemini", port, <<"a">>, q, f) :
            port \in {"default", "other"}, q \in BOOLEAN, f \in Fragment}

\* getGopherPageLinks: the type of the item, and its selector without the blanks around it,
\* after a slash if it does not begin with one.  What follows a '#' is a fragment of the URL.
MenuLink(s) == Link("gopher", "default", <<s.type>> \o Rooted(s.path), s.query, Plain)

SeedLink ==
    {Link("gemini", "default", p, FALSE, Plain) : p \in ShortPath}
    \cup {Link("gemini", "default", <<"a b">>, FALSE, f) : f \in Fragment}

Target == [kind : {"url", "absolute", "relative"}, path : {<<"">>, <<"a">>, <<"a", "">>, <<"..", "a!">>}]
NoTarget == [kind |-> "none", path |-> <<>>]

Inputs ==
    /\ \/ via = "page" /\ selector = NoSelector /\ link \in PageLink
       \/ via = "menu" /\ selector \in Selector /\ link = MenuLink(selector)
       \/ via = "seed" /\ selector = NoSelector /\ link \in SeedLink
    /\ \/ target = NoTarget /\ rule \in {NoPath}
       \/ target = NoTarget /\ link.scheme = "gemini" /\ rule \in {<<"">>, Rooted(link.path), <<"a">>}
       \/ target \in Target /\ link.scheme = "gemini" /\ rule = NoPath /\ link.fragment = Plain

Init ==
    /\ Inputs
    /\ urls = {} /\ marked = {} /\ snapshots = {}
    /\ job = NoText /\ checked = NoText /\ overtaken = FALSE
    /\ request = NoText /\ lost = FALSE /\ status = "down"

\* Mutant of InsertURL: a row that is being processed does not count as one.
InsertURLAgain(t) == urls' = urls \cup {ParseURL(t)}

\* InsertURL parses its argument once more; ON CONFLICT DO NOTHING.
InsertURL(t) == urls' = urls \cup ({ParseURL(t)} \ marked)

\* Mutant of HaveWeVisited: the snapshots are not looked at.
HaveWeVisitedNever(t) == FALSE

\* haveWeVisitedURL
HaveWeVisited(t) == t \notin urls \cup marked /\ t \in snapshots

\* initializeApp: a seed that does not parse ends it.
Start ==
    /\ status = "down"
    /\ IF via = "seed" THEN Parses(link) /\ InsertURL(link) ELSE UNCHANGED urls
    /\ status' = "up"
    /\ UNCHANGED <<given, marked, job, lookup, snapshots, request, lost>>

\* A worker visits a page with the link and looks the link up.  A link that does not parse
\* is left out, and one that has been visited is passed over.
CheckLink ==
    /\ status # "down" /\ via # "seed" /\ checked = NoText
    /\ Parses(link) /\ ~HaveWeVisited(ParseURL(link))
    /\ checked' = ParseURL(link) /\ overtaken' = FALSE
    /\ UNCHANGED <<given, urls, marked, job, snapshots, request, lost, status>>

\* The same worker inserts it, possibly after having waited for the transaction that
\* deletes the row it saw.  A link that parses once and not again takes the transaction of
\* the page with it.
InsertLink ==
    /\ status # "down" /\ checked # NoText
    /\ IF Parses(checked) THEN InsertURL(checked) /\ UNCHANGED lost
       ELSE lost' = TRUE /\ UNCHANGED urls
    /\ checked' = NoText /\ overtaken' = FALSE
    /\ UNCHANGED <<given, marked, job, snapshots, request, status>>

\* RunWorkerWithTx gives up a job that does not parse, and not its place in WorkerWG.
Claim ==
    /\ status = "up" /\ job = NoText
    /\ \E t \in urls :
          /\ urls' = urls \ {t} /\ marked' = marked \cup {t}
          /\ IF Parses(t) THEN job' = t /\ UNCHANGED status ELSE status' = "hung" /\ UNCHANGED job
    /\ UNCHANGED <<given, lookup, snapshots, request, lost>>

\* A transaction with a visit is committed.
Overtake == overtaken' = (checked # NoText) /\ UNCHANGED checked

\* DeleteURL of text t, with what else the transaction does to the rows
DeleteURL(t, added) == urls' = (urls \cup added) \ {t} /\ marked' = marked \ {t}

RobotMatch(t) == Parses(t) /\ Blocks(rule, ParseURL(t))

\* The snapshot of a URL that robots.txt disallows
Refuse ==
    /\ status = "up" /\ job # NoText
    /\ LET t == ParseURL(job) IN
          /\ RobotMatch(t)
          /\ snapshots' = snapshots \cup {t}
          /\ DeleteURL(t, {})
    /\ job' = NoText /\ Overtake
    /\ UNCHANGED <<given, request, lost, status>>

\* The client parses the text of WorkOnUrl again, and cannot: the row stays marked.
Fail ==
    /\ status = "up" /\ job # NoText
    /\ ~Parses(ParseURL(job))
    /\ job' = NoText
    /\ UNCHANGED <<given, urls, marked, lookup, snapshots, request, lost, status>>

\* saveRedirectURL
Added(t) ==
    IF target = NoTarget THEN {}
    ELSE LET to == DeriveAbsoluteURL(t, target)
         IN  IF HaveWeVisited(to) THEN {} ELSE {ParseURL(to)} \ marked

\* The request, if the text still parses, and an error in the snapshot if not.
Visit ==
    /\ status = "up" /\ job # NoText
    /\ target = NoTarget \/ Len(job.path) <= MaxSegments + 1
    /\ Parses(ParseURL(job)) /\ ~RobotMatch(ParseURL(job))
    /\ LET t == ParseURL(ParseURL(job)) IN
          /\ Parses(t) \/ t \notin snapshots
          /\ request' = IF Parses(t) THEN Request(t) ELSE request
          /\ snapshots' = snapshots \cup {t}
          /\ DeleteURL(t, IF Parses(t) THEN Added(t) ELSE {})
    /\ job' = NoText /\ Overtake
    /\ UNCHANGED <<given, lost, status>>

\* Database.Shutdown, and the end of the process
Unmark ==
    /\ urls' = urls \cup marked /\ marked' = {}
    /\ checked' = NoText /\ overtaken' = FALSE
    /\ status' = "down"

\* The second visit of such a text: Scan cannot read the snapshot of the first, which is a
\* fatal error.
ScanFails ==
    /\ status = "up" /\ job # NoText
    /\ LET t == ParseURL(ParseURL(job)) IN Parses(ParseURL(job)) /\ ~Parses(t) /\ t \in snapshots
    /\ job' = NoText
    /\ Unmark
    /\ UNCHANGED <<given, snapshots, request, lost>>

Shutdown ==
    /\ status \in {"up", "hung"} /\ job = NoText
    /\ Unmark
    /\ UNCHANGED <<given, job, snapshots, request, lost>>

Next ==
    Start \/ CheckLink \/ InsertLink \/ Claim \/ Refuse \/ Fail \/ Visit \/ ScanFails \/ Shutdown

Spec == Init /\ [][Next]_vars

-----------------------------------------------------------------------------
(***************************************************************************)
(* What the texts promise.                                                 *)
(***************************************************************************)

Stable(path) == NormalizePath(path) = path

LinkPath == NormalizePath(NormalizePath(link.path))

\* How many times the text of the link is parsed before it is in a row
Hops == IF via = "seed" THEN 1 ELSE 2

\* The row of a link to a page that does not redirect
Row == IF via = "seed" THEN ParseURL(link) ELSE ParseURL(ParseURL(link))

TextTypeOK ==
    /\ link \in Text /\ urls \subseteq Text /\ marked \subseteq Text /\ snapshots \subseteq Text
    /\ checked \in Text \cup {NoText} /\ overtaken \in BOOLEAN
    /\ job \in marked \cup {NoText} /\ request \in Text \cup {NoText}
    /\ via \in {"page", "menu", "seed"} /\ lost \in BOOLEAN /\ status \in {"up", "hung", "down"}
    /\ urls \cap marked = {}

\* A row is that of the link or of a redirect.
RowsInv ==
    /\ \A t \in urls \cup marked :
          /\ Stable(t.path) \/ (via = "seed" /\ t.path = NormalizePath(link.path))
          /\ IF target = NoTarget THEN t = Row ELSE t.scheme = "gemini" /\ t.fragment = Plain
    /\ link.fragment.percent /\ urls \cup marked # {} => link.fragment.depth >= Hops
    /\ job # NoText => Parses(job)

\* A snapshot is that of a row, which was parsed once or twice more.
SnapshotsInv ==
    /\ \A t \in snapshots :
          /\ Stable(t.path)
          /\ IF target = NoTarget THEN t \in {ParseURL(Row), ParseURL(ParseURL(Row))}
             ELSE t.fragment = Plain
    /\ link.fragment.percent /\ snapshots # {} => link.fragment.depth > Hops

\* What stays behind in a row has a reason.
Leftover == link.fragment.depth > Hops \/ (via = "seed" /\ ~Stable(NormalizePath(link.path)))

RowsLeaveInv ==
    /\ status = "down" => marked = {}
    /\ status = "up" /\ marked \ {job} # {} => Leftover

\* The text of the link in a page is the text of its snapshot.
TextIsFinal == link.fragment.depth <= 1 /\ Stable(NormalizePath(link.path))

\* A text that has been looked up is that of the link.  If it has a snapshot and no visit
\* has been committed since, the lookup found a row, which is still there.
LookupInv ==
    /\ checked # NoText =>
          via # "seed" /\ status # "down" /\ Parses(link) /\ checked = ParseURL(link)
    /\ checked # NoText /\ ~overtaken /\ target = NoTarget /\ snapshots # {} /\ TextIsFinal =>
          urls \cup marked # {}

\* The inductive invariant
TextInv == Inputs /\ TextTypeOK /\ RowsInv /\ SnapshotsInv /\ RowsLeaveInv /\ LookupInv

\* What the target of a redirect from a path means: a relative one is below the page.
TargetPath(path) ==
    NormalizePath(IF target.kind = "relative" THEN path \o target.path ELSE target.path)

\* One page has one path: rows, snapshots and requests spell it alike, however many times
\* the text was parsed before.  Only a redirect leads to another path, and only the row of
\* a seed, which was parsed once, may be spelled differently.
OnePath ==
    \A t \in urls \cup marked \cup snapshots :
        via # "seed" \/ t \in snapshots =>
            Stable(t.path) /\ (target = NoTarget => t.path = LinkPath)

\* What becomes of a link with an encoded fragment.  A percent sign that is decoded one
\* time too early loses the page with the link (after one hop), blocks the scheduler (two),
\* leaves the row marked (three) or has its snapshot stop the crawler (four).  Other
\* characters only leave the row, if there is still something to decode in it.
FragmentFates ==
    LET f == link.fragment IN
    /\ lost => f.percent /\ f.depth = 1
    /\ status = "hung" => f.percent /\ f.depth = Hops
    /\ (\E t \in snapshots : ~Parses(t)) => f.percent /\ f.depth = Hops + 2
    /\ status = "up" /\ job = NoText /\ marked # {} => Leftover
    /\ \A t \in snapshots : f.depth <= Hops => t.fragment = Plain

\* A transaction that stores a snapshot leaves the row of its job behind exactly when some
\* part of the row's fragment is still encoded, or when the row is that of a seed whose
\* path one parse has not brought to its last form.
RowLeavesWithVisit ==
    [][snapshots' # snapshots =>
          (job \in urls' \cup marked' <=> job.fragment.depth > 0 \/ ~Stable(job.path))]_vars

\* A gemini request has the path under which its response is stored; a request to a server
\* on another port than the default one, and only that, carries the query of the URL.
RequestNamesPage ==
    [][request' # request /\ job.scheme = "gemini" =>
          /\ \E t \in snapshots' : t.path = request'.path
          /\ (request'.query <=> job.query /\ job.port = "other")]_vars

\* The payload of request r is the text of selector s.  A payload begins with a slash, has no
\* blanks around it and no '#' in it.
Spells(r, s) == s.rooted /\ ~s.blanks /\ ~s.hash /\ r.path = s.path /\ r.query = s.query

\* A gopher server is asked for the selector of its menu exactly when the selector begins
\* with a slash and has no blanks around it, no '#' and no '?', the type of the item is a
\* letter or a digit, and no part of the selector is cleaned away or decoded.
SelectorIsSent ==
    [][request' # request /\ via = "menu" =>
          (Spells(request', selector) <=>
              /\ selector.rooted /\ ~selector.blanks /\ ~selector.hash /\ ~selector.query
              /\ selector.type \in ItemType
              /\ \A i \in DOMAIN selector.path :
                    \/ selector.path[i] \in {"1", "+", "a", "a b", "a!"}
                    \/ selector.path[i] = "" /\ i = Len(selector.path))]_vars

\* What robots.txt disallows by the path of the page, or by "/", is requested only if the
\* rule is not spelled as the crawler spells paths, or if the page has no path at all.
DisallowedNotRequested ==
    [][request' # request /\ rule \in {link.path, <<"">>} =>
          NormalizePath(rule) # rule \/ LinkPath = <<>>]_vars

\* A redirect leads to a row or a snapshot of its target, unless the target has a trailing
\* slash: then to those of the path without it.
RedirectFollowed ==
    [][request' # request /\ target # NoTarget =>
          \E t \in urls' \cup marked' \cup snapshots' :
             \/ t.path = TargetPath(job.path)
             \/ t.path \o <<"">> = TargetPath(job.path)]_vars

\* A page whose snapshot is recent is queued again only by a link that was looked up before
\* the visit of the page was committed, and inserted after it; or if the link is found under
\* a text that is not yet that of the snapshot.
NotQueuedAgain ==
    [][InsertLink /\ urls' # urls /\ target = NoTarget /\ snapshots # {} =>
          overtaken \/ ~TextIsFinal]_vars

-----------------------------------------------------------------------------
\* "returns the data from a GET request to a Gemini URL": the request for a URL with a
\* query carries the query.
RequestCarriesQuery ==
    [][request' # request /\ job.scheme = "gemini" => request'.query = job.query]_vars
=============================================================================
