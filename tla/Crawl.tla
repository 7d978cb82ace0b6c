-------------------------------- MODULE Crawl --------------------------------
(***************************************************************************)
(* The crawler that mirrors other people's repositories into the registry. *)
(* A run goes through its list entry by entry: it fetches the repository   *)
(* (once for all entries of it), validates the plugin, asks the registry   *)
(* whether the version is there, asks GitHub for the date of the plugin's  *)
(* last commit, and publishes with that date, through the rate limit and   *)
(* the same handler as everybody else.  Runs may overlap, and the          *)
(* repositories move on meanwhile.                                         *)
(* Every call a run makes may fail: its client waits for a minute          *)
(* (crawler.go:70), its context ends after ten (cmd/crawler/main.go:46),   *)
(* and everything left in the list then fails.  A client that goes away    *)
(* cancels what the server does for it, between any two of its steps, or   *)
(* misses an answer that is on its way; the run goes on with its list when *)
(* the server has noticed.                                                 *)
(*                                                                         *)
(* The crawler's runs are the Requests of Registry: a run has one publish  *)
(* under way at most.  An entry's tree is its content, or None when the    *)
(* directory is missing, is no valid plugin or has no version.             *)
(***************************************************************************)
EXTENDS Registry, Sequences

CONSTANTS List,         \* the entries of the list, a sequence
          Repo,         \* [entries -> repositories]
          History,      \* [repositories -> Seq([entries -> Contents \cup {None}])]
          Mirror,       \* the account of the crawler
          Steady,       \* a run that somebody may start again and again
          Burst         \* of the publish limiter

Items == 1..Len(List)
Entries == {List[i] : i \in Items}
Repos == {Repo[e] : e \in Entries}

\* (An empty list is nothing to crawl.)
ASSUME CrawlAssumption ==
    /\ Len(List) \in Nat \ {0}
    /\ Repo \in [Entries -> Repos]
    /\ History \in [Repos -> Seq([Entries -> Contents \cup {None}])]
    /\ \A g \in Repos : Len(History[g]) > 0
    /\ Mirror \in Users
    /\ Steady \in Requests
    /\ Burst \in Nat \ {0}

Stages == {"off", "fetch", "check", "date", "publish", "wait"}

VARIABLES
    pushed,     \* [Repos -> Seq(Nat)], when each commit so far was made
    at,         \* the stage of each run
    item,       \* the entry of List it works on
    cache,      \* repoCache: [Repos -> Nat \cup {None}], the commit it fetched,
                \* 0 before it tried, or None when the fetch failed
    when,       \* the commit date it found
    report,     \* the version that the last result calls published, or None,
                \* until the run is busy with the next entry
    tokens,     \* the publish limiter's bucket for Mirror
    overtaken,  \* history: the contents that some run had fetched, and not
                \* yet dated, when a push touched their plugin
    cutOff      \* history: the keys of handlers that were cut off between
                \* storing a tarball and recording it

histories == <<overtaken, cutOff>>
crawlVars == <<pushed, at, item, cache, when, report, tokens, histories>>

CrawlInit ==
    /\ Init
    /\ pushed = [g \in Repos |-> <<1>>]
    /\ at = [r \in Requests |-> "off"]
    /\ item = [r \in Requests |-> 1]
    /\ cache = [r \in Requests |-> [g \in Repos |-> 0]]
    /\ when = [r \in Requests |-> 0]
    /\ report = [r \in Requests |-> None]
    /\ tokens = Burst
    /\ overtaken = {}
    /\ cutOff = {}

-----------------------------------------------------------------------------
Entry(r) == List[item[r]]
Tree(e, n) == History[Repo[e]][n][e]
Tip(g) == Len(pushed[g])

\* What run r fetched for its entry, and the key it publishes that under.
Fetched(r) == Tree(Entry(r), cache[r][Repo[Entry(r)]])
KeyOf(c) == <<<<Mirror, Manifest[c][1]>>, Manifest[c][2]>>

\* Commit n of the repository touches the plugin's directory.
Touches(e, n) == Tree(e, n) # (IF n = 1 THEN None ELSE Tree(e, n - 1))

Stage(r, s) == /\ at' = [at EXCEPT ![r] = s]
               /\ UNCHANGED <<item, cache, when, report>>

\* The result is recorded, and the run goes on to the next entry with what it
\* has fetched so far, or ends.
NextEntry(r, result, fetched) ==
    LET last == item[r] = Len(List) IN
    /\ report' = [report EXCEPT ![r] = result]
    /\ when' = [when EXCEPT ![r] = 0]
    /\ item' = [item EXCEPT ![r] = IF last THEN 1 ELSE @ + 1]
    /\ at' = [at EXCEPT ![r] = IF last THEN "off" ELSE "fetch"]
    /\ cache' = [cache EXCEPT ![r] = IF last THEN [g \in Repos |-> 0] ELSE fetched]

StartCrawl(r) ==
    /\ at[r] = "off"
    /\ at' = [at EXCEPT ![r] = "fetch"]
    /\ report' = [report EXCEPT ![r] = None]
    /\ UNCHANGED <<vars, pushed, item, cache, when, tokens, histories>>

\* The repository, fetched before or now, and what is in the directory.  A
\* fetch that failed is remembered for all entries of the repository.
Fetch(r) ==
    /\ at[r] = "fetch"
    /\ LET g == Repo[Entry(r)]
           n == IF cache[r][g] = 0 THEN Tip(g) ELSE cache[r][g]
           fetched == [cache[r] EXCEPT ![g] = n]
       IN IF n = None \/ Tree(Entry(r), n) = None
            THEN NextEntry(r, None, fetched)
            ELSE /\ cache' = [cache EXCEPT ![r] = fetched]
                 /\ at' = [at EXCEPT ![r] = "check"]
                 /\ report' = [report EXCEPT ![r] = None]
                 /\ UNCHANGED <<item, when>>
    /\ UNCHANGED <<vars, pushed, tokens, histories>>

\* (A bug: the registry is not asked first.)
CheckNothing(r) ==
    /\ at[r] = "check"
    /\ Stage(r, "date")
    /\ UNCHANGED <<vars, pushed, tokens, histories>>

\* versionAlreadyPublished: only a 200 counts.
Check(r) ==
    /\ at[r] = "check"
    /\ IF versions[KeyOf(Fetched(r))] # None
         THEN NextEntry(r, KeyOf(Fetched(r)), cache[r])
         ELSE Stage(r, "date")
    /\ UNCHANGED <<vars, pushed, tokens, histories>>

\* The question is not answered: the entry is left to a later run.
CheckFails(r) ==
    /\ at[r] = "check"
    /\ NextEntry(r, None, cache[r])
    /\ UNCHANGED <<vars, pushed, tokens, histories>>

\* (A bug: the question does not name the plugin's path.)
LastCommitOfAll(r) ==
    /\ at[r] = "date"
    /\ when' = [when EXCEPT ![r] = pushed[Repo[Entry(r)]][Tip(Repo[Entry(r)])]]
    /\ at' = [at EXCEPT ![r] = "publish"]
    /\ UNCHANGED <<vars, pushed, item, cache, report, tokens, histories>>

\* LastCommitDate asks for the branch as it is by now.
LastCommitDate(r) ==
    /\ at[r] = "date"
    /\ LET e == Entry(r)
           n == CHOOSE n \in 1..Tip(Repo[e]) :
                    /\ Touches(e, n)
                    /\ \A m \in (n + 1)..Tip(Repo[e]) : ~Touches(e, m)
       IN when' = [when EXCEPT ![r] = pushed[Repo[e]][n]]
    /\ at' = [at EXCEPT ![r] = "publish"]
    /\ UNCHANGED <<vars, pushed, item, cache, report, tokens, histories>>

\* GitHub does not answer, has had too many requests, or the time of the run
\* is over: the default branch or the date stays unknown, or the fetch fails.
GithubFails(r) ==
    /\ LET g == Repo[Entry(r)] IN
       \/ /\ at[r] = "date" \/ (at[r] = "fetch" /\ cache[r][g] = 0)
          /\ NextEntry(r, None, cache[r])
       \/ /\ at[r] = "fetch"
          /\ cache[r][g] = 0
          /\ NextEntry(r, None, [cache[r] EXCEPT ![g] = None])
    /\ UNCHANGED <<vars, pushed, tokens, histories>>

\* (A bug: the limiter lets every request through.)
PublishUnlimited(r) ==
    /\ at[r] = "publish"
    /\ tokens' = tokens - 1
    /\ StartPublish(r)
    /\ req'[r] = [plugin |-> KeyOf(Fetched(r))[1], version |-> KeyOf(Fetched(r))[2],
                  content |-> Fetched(r), date |-> when[r]]
    /\ Stage(r, "wait")
    /\ UNCHANGED <<pushed, histories>>

\* The publish request is let through by the limiter: it costs a token,
\* whatever becomes of it.
Publish(r) ==
    /\ at[r] = "publish"
    /\ tokens > 0
    /\ tokens' = tokens - 1
    /\ StartPublish(r)
    /\ req'[r] = [plugin |-> KeyOf(Fetched(r))[1], version |-> KeyOf(Fetched(r))[2],
                  content |-> Fetched(r), date |-> when[r]]
    /\ Stage(r, "wait")
    /\ UNCHANGED <<pushed, histories>>

\* The plugin can not be packed or does not arrive; the limiter may have let the
\* request through by then.
PublishFails(r) ==
    /\ at[r] = "publish"
    /\ tokens' \in {tokens, tokens - 1} \cap Nat
    /\ NextEntry(r, None, cache[r])
    /\ UNCHANGED <<vars, pushed, histories>>

\* 429
TooMany(r) ==
    /\ at[r] = "publish"
    /\ tokens = 0
    /\ NextEntry(r, None, cache[r])
    /\ UNCHANGED <<vars, pushed, tokens, histories>>

\* The request is over: what Registry remembers of it is dropped.
Hangup(r) == /\ pc' = [pc EXCEPT ![r] = "idle"]
             /\ req' = [req EXCEPT ![r] = None]
             /\ answer' = [answer EXCEPT ![r] = [code |-> "none", checksum |-> None]]
             /\ UNCHANGED <<stores, now>>

\* (A bug: any answer of the server counts as published.)
AnswerAny(r) ==
    /\ at[r] = "wait"
    /\ pc[r] = "done"
    /\ NextEntry(r, Key(r), cache[r])
    /\ Hangup(r)
    /\ UNCHANGED <<pushed, tokens, histories>>

\* The answer: 201, or 409 from a race, means that the version is there.
Answer(r) ==
    /\ at[r] = "wait"
    /\ pc[r] = "done"
    /\ NextEntry(r, IF answer[r].code \in {"created", "conflict"} THEN Key(r) ELSE None,
                 cache[r])
    /\ Hangup(r)
    /\ UNCHANGED <<pushed, tokens, histories>>

\* The answer, whatever it was, does not reach the run.
AnswerLost(r) ==
    /\ at[r] = "wait"
    /\ pc[r] = "done"
    /\ NextEntry(r, None, cache[r])
    /\ Hangup(r)
    /\ UNCHANGED <<pushed, tokens, histories>>

\* The handler is cut off: its client is gone, a call fails, the server ends.
HandlerFails(r) ==
    /\ Fail(r)
    /\ cutOff' = IF pc[r] \in Recording THEN cutOff \cup {Key(r)} ELSE cutOff
    /\ UNCHANGED <<pushed, at, item, cache, when, report, tokens, overtaken>>

\* Run r has yet to ask for the date of item i.
Undated(r, i) == i > item[r] \/ (i = item[r] /\ at[r] \notin {"publish", "wait"})

\* Run r has fetched content c of item i, and has yet to ask for its date.
Holds(r, i, c) ==
    LET n == cache[r][Repo[List[i]]]
    IN Undated(r, i) /\ n \notin {0, None} /\ Tree(List[i], n) = c

\* Somebody pushes to a repository; the clock counts the pushes.
Push(g) ==
    /\ Tip(g) < Len(History[g])
    /\ Tick
    /\ pushed' = [pushed EXCEPT ![g] = Append(@, now')]
    /\ overtaken' = overtaken \cup
           {c \in Contents : \E r \in Requests, i \in Items :
               Repo[List[i]] = g /\ Touches(List[i], Tip(g) + 1) /\ Holds(r, i, c)}
    /\ UNCHANGED <<at, item, cache, when, report, tokens, cutOff>>

Refill == /\ tokens < Burst
          /\ tokens' = tokens + 1
          /\ UNCHANGED <<vars, pushed, at, item, cache, when, report, histories>>

\* What a run does, and what goes wrong for it.
Proceed(r) == \/ Fetch(r) \/ Check(r) \/ LastCommitDate(r)
              \/ Publish(r) \/ TooMany(r) \/ Answer(r)
Stumble(r) == \/ GithubFails(r) \/ CheckFails(r) \/ PublishFails(r)
              \/ AnswerLost(r) \/ HandlerFails(r)

CrawlNext ==
    \/ \E r \in Requests :
         \/ StartCrawl(r) \/ Proceed(r) \/ Stumble(r)
         \/ Handle(r) /\ UNCHANGED crawlVars
    \/ \E g \in Repos : Push(g)
    \/ Refill

CrawlSpec == CrawlInit /\ [][CrawlNext]_<<vars, crawlVars>>

allVars == <<vars, crawlVars>>

\* A run that was started goes on, the server serves, the bucket fills.  Nobody
\* has to start a run.
CrawlFairness ==
    /\ \A r \in Requests : /\ WF_allVars(Proceed(r))
                           /\ WF_allVars(Handle(r) /\ UNCHANGED crawlVars)
    /\ WF_allVars(Refill)

FairCrawl == CrawlSpec /\ CrawlFairness

-----------------------------------------------------------------------------
(***************************************************************************)
(* Properties                                                              *)
(***************************************************************************)

\* The runs keep their types; the limiter never gives what it has not.
CrawlTypeOK ==
    /\ \A g \in Repos : pushed[g] \in Seq(Nat) /\ Tip(g) \in 1..Len(History[g])
    /\ at \in [Requests -> Stages]
    /\ item \in [Requests -> Items]
    /\ \A r \in Requests, g \in Repos : cache[r][g] \in 0..Tip(g) \cup {None}
    /\ when \in [Requests -> Nat]
    /\ report \in [Requests -> Keys \cup {None}]
    /\ tokens \in 0..Burst
    /\ overtaken \subseteq Contents
    /\ cutOff \subseteq Keys

\* "Published is true once this exact version is confirmed live in the mirror
\* registry" (crawler.go:33), however the run came to say so: from its
\* pre-check, from a 201, or from the 409 of a race that another run won.
ReportIsTrue ==
    \A r \in Requests : report[r] # None => versions[report[r]] # None

\* A tarball that no row names and nobody will record is what was left by a
\* handler that was cut off: overlapping runs, races and answers of the
\* registry leave none (registry.go:95-141).
NoOrphan == \A k \in Keys : Orphan(k) => k \in cutOff

\* r is told 500 by the logic of the handler, no call of it having failed.
ErrsNow(r) == answer[r].code # "error" /\ answer'[r].code = "error"

\* A run is only answered 500, no call having failed, when it was beaten to the
\* version, by one that is recorded or by a handler about to record it, or when
\* some earlier publish of the version was cut off.  (The crawler expects to
\* be told errAlreadyPublished then, crawler.go:181-185.)
ErrorMeansBeaten ==
    [][\A r \in Requests : ErrsNow(r) =>
           \/ versions[Key(r)] # None
           \/ \E s \in Requests \ {r} : pc[s] \in Recording /\ Key(s) = Key(r)
           \/ Key(r) \in cutOff]_allVars

\* A mirrored version has the date of the commit that made its content what it
\* is (crawler.go:41-44), and neither the time of the crawl nor the date of
\* another plugin's commit in the same repository; except where a push touched
\* the plugin between a run's fetch and its question, which may then be
\* answered with a later commit.
DateIsUpstream ==
    \A k \in Keys : versions[k] # None =>
        \E e \in Entries : \E n \in 1..Tip(Repo[e]) :
            /\ Touches(e, n)
            /\ versions[k].date = pushed[Repo[e]][n]
            /\ \/ Tree(e, n) = versions[k].checksum
               \/ /\ versions[k].checksum \in overtaken
                  /\ \E m \in 1..n : Tree(e, m) = versions[k].checksum

\* Content c is what some entry's repository has at its head.
AtHead(c) == \E e \in Entries : Tree(e, Tip(Repo[e])) = c

\* Where somebody runs the crawler again and again (README.md:294) and from some
\* time on nothing goes wrong for it, what a repository has at its head is
\* mirrored, unless it moves on first: no race of two runs and no number of
\* 429 answers keeps a version out for good, because versions that are there
\* cost no token.  An orphan ends this: it is published again by every run,
\* always in vain, and costs a token each time.
EventuallyMirrored ==
    /\ []<><<StartCrawl(Steady)>>_allVars
    /\ <>[][\A r \in Requests : Stumble(r) => Proceed(r)]_allVars
    => \A c \in Contents :
           AtHead(c) ~> \/ versions[KeyOf(c)] # None
                        \/ ~AtHead(c)
                        \/ \E k \in Keys : Orphan(k)
=============================================================================
