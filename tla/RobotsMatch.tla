----------------------------- MODULE RobotsMatch -----------------------------
(***************************************************************************)
(* The robots.txt check of the workers (robotsMatch/robotsMatch.go): a     *)
(* cache shared by all of them, a sync.Map from host to the disallowed     *)
(* URLs, that the first check of a host fills.  Nothing keeps two workers  *)
(* from filling the entry of one host at the same time, and the download   *)
(* of robots.txt happens before WorkOnUrl enters the host pool.            *)
(***************************************************************************)
EXTENDS HostPool

CONSTANTS
    URL,
    Worker,
    HostOf,        \* the host and port of a URL: the key of the cache
    Disallow,      \* the URLs that the robots.txt of a host disallows
    Answers,       \* how the download of a robots.txt may end, of AnswerKind
    NoURL

\* The robots.txt; a response that is not a robots.txt (a code other than 20, another
\* MIME type); a deadline that passes; any other error of the network.
AnswerKind == {"rules", "ignored", "timeout", "error"}

ASSUME RobotsAssumption ==
    /\ HostOf \in [URL -> Host]
    /\ Disallow \in [Host -> SUBSET URL]
    /\ Answers \subseteq AnswerKind
    /\ NoURL \notin URL

VARIABLES
    GopherEnable, \* config.GopherEnable, set once
    RobotsCache,  \* the entry of each host that has one
    pc,           \* where the worker is
    url,          \* the URL that it works on, or NoURL before the first one
    answered      \* answered[h]: the answers for robots.txt that h gave (history variable)

vars == <<hostnames, GopherEnable, RobotsCache, pc, url, answered>>

Key(w) == HostOf[url[w]]

TypeOK ==
    /\ hostnames \subseteq Host /\ GopherEnable \in BOOLEAN
    /\ DOMAIN RobotsCache \subseteq Host
    /\ RobotsCache \in [DOMAIN RobotsCache -> SUBSET URL]
    /\ pc \in [Worker -> {"idle", "match", "fetch", "failed", "acquire", "visit"}]
    /\ url \in [Worker -> URL \cup {NoURL}]
    /\ answered \in [Host -> SUBSET (Worker \X AnswerKind)]

Init ==
    /\ hostnames = {} /\ GopherEnable \in BOOLEAN
    /\ RobotsCache = [h \in {} |-> {}]
    /\ pc = [w \in Worker |-> "idle"]
    /\ url = [w \in Worker |-> NoURL]
    /\ answered = [h \in Host |-> {}]

Goto(w, p) == pc' = [pc EXCEPT ![w] = p]

Start(w) ==
    /\ pc[w] = "idle"
    /\ \E u \in URL : url' = [url EXCEPT ![w] = u]
    /\ Goto(w, "match")
    /\ UNCHANGED <<hostnames, GopherEnable, RobotsCache, answered>>

\* RobotsCache.Store
Store(h, entries) ==
    RobotsCache' = [k \in DOMAIN RobotsCache \cup {h} |-> IF k = h THEN entries ELSE RobotsCache[k]]

\* WorkOnUrl saves the error of a URL that is blocked, and goes on to the host otherwise.
Verdict(w, disallowedURLs) ==
    IF url[w] \in disallowedURLs THEN Goto(w, "idle") ELSE Goto(w, "acquire")

\* With -gopher robots.txt is not looked at, whatever the scheme of the URL.
MatchDisabled(w) ==
    /\ pc[w] = "match" /\ GopherEnable
    /\ Goto(w, "acquire")
    /\ UNCHANGED <<hostnames, GopherEnable, RobotsCache, url, answered>>

\* RobotsCache.Load finds an entry.
MatchCached(w) ==
    /\ pc[w] = "match" /\ ~GopherEnable
    /\ Key(w) \in DOMAIN RobotsCache
    /\ Verdict(w, RobotsCache[Key(w)])
    /\ UNCHANGED <<hostnames, GopherEnable, RobotsCache, url, answered>>

\* Mutant of Fetch: an empty list is taken for no entry.
FetchEmpty(w) ==
    /\ pc[w] = "match" /\ ~GopherEnable
    /\ IF Key(w) \in DOMAIN RobotsCache THEN RobotsCache[Key(w)] = {} ELSE TRUE
    /\ Goto(w, "fetch")
    /\ UNCHANGED <<hostnames, GopherEnable, RobotsCache, url, answered>>

\* Mutant of Fetch: an empty entry is stored before the download, so that others do not
\* download it, too.
FetchWithPlaceholder(w) ==
    /\ pc[w] = "match" /\ ~GopherEnable
    /\ Key(w) \notin DOMAIN RobotsCache
    /\ Store(Key(w), {})
    /\ Goto(w, "fetch")
    /\ UNCHANGED <<hostnames, GopherEnable, url, answered>>

\* It does not: the download begins.
Fetch(w) ==
    /\ pc[w] = "match" /\ ~GopherEnable
    /\ Key(w) \notin DOMAIN RobotsCache
    /\ Goto(w, "fetch")
    /\ UNCHANGED <<hostnames, GopherEnable, RobotsCache, url, answered>>

\* What populateRobotsCache's deferred Store writes: on every path but one the empty
\* list.
Entries(answer, h) == IF answer = "rules" THEN Disallow[h] ELSE {}

\* Mutant of Fetched: an answer that is no robots.txt leaves the host without an entry.
FetchedOnlyRules(w) ==
    /\ pc[w] = "fetch"
    /\ \E answer \in Answers \ {"error"} :
          /\ IF answer = "ignored" THEN UNCHANGED RobotsCache
             ELSE Store(Key(w), Entries(answer, Key(w)))
          /\ answered' = [answered EXCEPT ![Key(w)] = @ \cup {<<w, answer>>}]
          /\ Verdict(w, Entries(answer, Key(w)))
    /\ UNCHANGED <<hostnames, GopherEnable, url>>

\* The download ends, but not with an error of the network: one Store, the deferred one.
\* After a timeout RobotMatch answers no, which is what the empty list comes to.
Fetched(w) ==
    /\ pc[w] = "fetch"
    /\ \E answer \in Answers \ {"error"} :
          /\ Store(Key(w), Entries(answer, Key(w)))
          /\ answered' = [answered EXCEPT ![Key(w)] = @ \cup {<<w, answer>>}]
          /\ Verdict(w, Entries(answer, Key(w)))
    /\ UNCHANGED <<hostnames, GopherEnable, url>>

\* Any other error: the empty list is stored at once ...
FetchFails(w) ==
    /\ pc[w] = "fetch" /\ "error" \in Answers
    /\ Store(Key(w), {})
    /\ answered' = [answered EXCEPT ![Key(w)] = @ \cup {<<w, "error">>}]
    /\ Goto(w, "failed")
    /\ UNCHANGED <<hostnames, GopherEnable, url>>

\* ... and once more by the deferred Store, over whatever other workers have stored in the
\* meantime.  RobotMatch answers no.
StoreAgain(w) ==
    /\ pc[w] = "failed"
    /\ Store(Key(w), {})
    /\ Goto(w, "acquire")
    /\ UNCHANGED <<hostnames, GopherEnable, url, answered>>

\* The host pool goes by the name of the host without its port, so that it keeps more
\* workers waiting than here, where the key of the cache stands for both.
Acquire(w) ==
    /\ pc[w] = "acquire"
    /\ AddHostToHostPool(Key(w))
    /\ Goto(w, "visit")
    /\ UNCHANGED <<GopherEnable, RobotsCache, url, answered>>

\* The context is over before the host is free.
GiveUp(w) ==
    /\ pc[w] = "acquire"
    /\ Goto(w, "idle")
    /\ UNCHANGED <<hostnames, GopherEnable, RobotsCache, url, answered>>

Leave(w) ==
    /\ pc[w] = "visit"
    /\ RemoveHostFromPool(Key(w))
    /\ Goto(w, "idle")
    /\ UNCHANGED <<GopherEnable, RobotsCache, url, answered>>

Next == \E w \in Worker :
    \/ Start(w) \/ MatchDisabled(w) \/ MatchCached(w) \/ Fetch(w) \/ Fetched(w)
    \/ FetchFails(w) \/ StoreAgain(w) \/ Acquire(w) \/ GiveUp(w) \/ Leave(w)

Spec == Init /\ [][Next]_vars

-----------------------------------------------------------------------------
\* A download of h's robots.txt has ended without one.
Failed(h) == \E w \in Worker, a \in AnswerKind \ {"rules"} : <<w, a>> \in answered[h]

\* As long as no download of a host's robots.txt has failed no worker gets past the
\* check with a URL that it disallows, whichever worker filled the cache and whoever
\* else is filling it.
DisallowedNotVisited ==
    \A w \in Worker :
        (pc[w] \in {"acquire", "visit"} /\ ~GopherEnable /\ url[w] \in Disallow[Key(w)])
            => Failed(Key(w))

\* A worker that is not idle has a URL.
HasURL == \A w \in Worker : pc[w] # "idle" => url[w] \in URL

\* An entry holds the rules of its host unless a download of them has failed: a second
\* worker that fills the entry again cannot have replaced the rules by anything else.
EntriesSound ==
    \A h \in DOMAIN RobotsCache : RobotsCache[h] = Disallow[h] \/ Failed(h)

\* Whoever has an answer has stored it.
AnswersStored == \A h \in Host : answered[h] # {} => h \in DOMAIN RobotsCache

\* A worker that is about to store the empty list again has had an error.
ErrorsNoted == \A w \in Worker : pc[w] = "failed" => <<w, "error">> \in answered[Key(w)]

\* The inductive invariant behind the properties below.
RobotsInv ==
    TypeOK /\ HasURL /\ EntriesSound /\ AnswersStored /\ ErrorsNoted /\ DisallowedNotVisited

\* "For other errors, we store an empty list for this host to avoid continually hitting
\* it": a worker that has had an answer for a host's robots.txt, or an error, never starts
\* another download of it.  Nothing is said of a timeout, after which the comments of
\* populateRobotsCache want a retry (TimeoutNotCached).
NoRefetch ==
    [][\A w \in Worker : pc[w] = "match" /\ pc'[w] = "fetch" =>
          \A a \in AnswerKind \ {"timeout"} : <<w, a>> \notin answered[Key(w)]]_vars

\* The workers that are in populateRobotsCache for h.
Fetching(h) == {w \in Worker : pc[w] \in {"fetch", "failed"} /\ Key(w) = h}

\* Once a host has an entry only the downloads that were already on their way can still
\* write it: one that has found rules once, when it ends, and what it writes are the rules
\* again; one that has failed once or twice.  When the last of them has ended the entry is
\* final, empty for the rest of the run if that one failed, though others had found rules.
EntriesFinal ==
    [][\A h \in DOMAIN RobotsCache :
          /\ Fetching(h)' \subseteq Fetching(h)
          /\ RobotsCache'[h] # RobotsCache[h] =>
                \E w \in Fetching(h) :
                    \/ w \notin Fetching(h)' /\ RobotsCache'[h] = Disallow[h]
                    \/ \E a \in AnswerKind \ {"rules"} : <<w, a>> \in answered'[h]]_vars

\* "Don't cache the result on timeout, to allow retrying later": a host of which every
\* download timed out has no entry.
TimeoutNotCached ==
    \A h \in DOMAIN RobotsCache :
        \E w \in Worker, a \in AnswerKind \ {"timeout"} : <<w, a>> \in answered[h]
=============================================================================
