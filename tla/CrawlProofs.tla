----------------------------- MODULE CrawlProofs -----------------------------
(***************************************************************************)
(* Theorems about Crawl, for any list, any repositories and commits, any   *)
(* number of overlapping runs and any drivers: they stand on the invariant *)
(* of RegistryProofs, which a crawler's requests keep like any other's.    *)
(***************************************************************************)
EXTENDS Crawl, RegistryProofs, NaturalSets, SequenceTheorems

-----------------------------------------------------------------------------
(***************************************************************************)
(* The inductive invariant                                                 *)
(***************************************************************************)
CrawlTyped ==
    /\ CrawlTypeOK
    /\ pushed \in [Repos -> Seq(Nat)]
    /\ cache \in [Requests -> [Repos -> Nat \cup {None}]]

\* No commit has the date that means "not given".
Aged == \A g \in Repos : \A n \in 1..Tip(g) : pushed[g][n] > 0

\* With the commits in q and the contents in o overtaken by one, d is the date of
\* the commit that made c the content of an entry, or of a later one.
MirroredFrom(q, o, c, d) ==
    \E e \in Entries : \E n \in 1..Len(q[Repo[e]]) :
        /\ Touches(e, n)
        /\ d = q[Repo[e]][n]
        /\ \/ Tree(e, n) = c
           \/ c \in o /\ \E m \in 1..n : Tree(e, m) = c

\* A run past the fetch has a commit of its entry's repository, with a valid plugin.
Fetching == {"check", "date", "publish"}
HasFetched(r) ==
    /\ cache[r][Repo[Entry(r)]] \in 1..Tip(Repo[Entry(r)]) \ {None}
    /\ Fetched(r) \in Contents
Found == \A r \in Requests : at[r] \in Fetching => HasFetched(r)

\* With what f has fetched, every push that touched a plugin which r has yet to
\* date is remembered.
NoticedFor(r, f) ==
    \A i \in Items :
        LET n == f[Repo[List[i]]] IN
        Undated(r, i) /\ n \notin {0, None} /\ Tree(List[i], n) \in Contents =>
            \A m \in (n + 1)..Tip(Repo[List[i]]) :
                Touches(List[i], m) => Tree(List[i], n) \in overtaken
Noticed == \A r \in Requests : NoticedFor(r, cache[r])

\* The date goes with the content, from the run that found it ...
HasDate(r) == MirroredFrom(pushed, overtaken, Fetched(r), when[r])
FoundDate == \A r \in Requests : at[r] = "publish" => HasDate(r)

\* ... to the handler that publishes it.
Carried ==
    \A r \in Requests : pc[r] \in InFlight =>
        MirroredFrom(pushed, overtaken, req[r].content, req[r].date)

\* DateIsUpstream, in these terms.
Upstream ==
    \A k \in Keys : versions[k] # None =>
        MirroredFrom(pushed, overtaken, versions[k].checksum, versions[k].date)

CInv == /\ CrawlTyped /\ Aged /\ Found /\ FoundDate /\ Noticed
        /\ Carried /\ ReportIsTrue /\ Upstream

-----------------------------------------------------------------------------
(***************************************************************************)
(* Commits                                                                 *)
(***************************************************************************)

\* Of the commits up to t, if a plugin is there after one of them, some commit
\* is the last to touch it.
LEMMA LastTouch ==
  ASSUME NEW e, NEW t \in Nat, NEW n0 \in 1..t, Tree(e, n0) # None
  PROVE  \E n \in 1..t : /\ Touches(e, n)
                         /\ \A m \in (n + 1)..t : ~Touches(e, m)
<1> DEFINE there == {k \in Nat : k \in 1..n0 /\ Tree(e, k) # None}
<1>1. PICK k \in there : \A m \in there : k <= m
  <2>1. n0 \in there
    OBVIOUS
  <2> QED BY <2>1, LeastNatural
<1>2. Touches(e, k)
  <2>1. k = 1 \/ k - 1 \in 1..n0
    BY <1>1
  <2>2. k # 1 => k - 1 \notin there
    BY <1>1
  <2> QED BY <1>1, <2>1, <2>2 DEF Touches
<1> DEFINE back == {j \in Nat : j \in 0..(t - 1) /\ Touches(e, t - j)}
<1>3. PICK j \in back : \A m \in back : j <= m
  <2>1. t - k \in back
    <3>1. t - k \in 0..(t - 1) /\ t - (t - k) = k
      BY <1>1
    <3> QED BY <1>2, <3>1
  <2> QED BY <2>1, LeastNatural
<1>4. ASSUME NEW m \in (t - j + 1)..t PROVE ~Touches(e, m)
  <2>1. t - m \in Nat /\ t - m \in 0..(t - 1) /\ ~(j <= t - m)
    BY <1>3
  <2>2. ~Touches(e, t - (t - m))
    BY <1>3, <2>1
  <2>3. t - (t - m) = m
    BY <1>3
  <2> QED BY <2>2, <2>3
<1> QED BY <1>3, <1>4

\* What no commit touched has not changed.
LEMMA Unmoved ==
  ASSUME NEW e, NEW t \in Nat, NEW n \in 1..t,
         \A m \in (n + 1)..t : ~Touches(e, m)
  PROVE  \A m \in n..t : Tree(e, m) = Tree(e, n)
<1> DEFINE moved == {m \in Nat : m \in n..t /\ Tree(e, m) # Tree(e, n)}
<1>1. ASSUME moved # {} PROVE FALSE
  <2>1. PICK m \in moved : \A k \in moved : m <= k
    BY <1>1, LeastNatural
  <2>2. m # n /\ m \in (n + 1)..t /\ m # 1 /\ m - 1 \in n..t
    BY <2>1
  <2>3. Tree(e, m - 1) = Tree(e, n)
    BY <2>1, <2>2
  <2> QED BY <2>1, <2>2, <2>3 DEF Touches
<1> QED BY <1>1

\* The date that LastCommitDate finds belongs to the content that was fetched,
\* or a commit came after it.
LEMMA DateFits ==
  ASSUME NEW q, NEW o, NEW e \in Entries, NEW n0 \in 1..Len(q[Repo[e]]),
         Len(q[Repo[e]]) \in Nat,
         NEW n \in 1..Len(q[Repo[e]]), Touches(e, n),
         \A m \in (n + 1)..Len(q[Repo[e]]) : ~Touches(e, m),
         n0 < n => Tree(e, n0) \in o
  PROVE  MirroredFrom(q, o, Tree(e, n0), q[Repo[e]][n])
<1>1. CASE n0 < n
  BY <1>1 DEF MirroredFrom
<1>2. CASE ~(n0 < n)
  <2>1. n0 \in n..Len(q[Repo[e]])
    BY <1>2
  <2>2. Tree(e, n0) = Tree(e, n)
    BY <2>1, Unmoved
  <2> QED BY <2>2 DEF MirroredFrom
<1> QED BY <1>1, <1>2

\* Commits are only ever added.
Grows(q, p) == \A g \in Repos : /\ Len(q[g]) \in Nat
                                /\ Len(p[g]) \in Nat
                                /\ Len(q[g]) <= Len(p[g])
                                /\ \A n \in 1..Len(q[g]) : p[g][n] = q[g][n]

LEMMA MirroredStays ==
  ASSUME NEW q, NEW p, Grows(q, p), NEW o, NEW w, o \subseteq w,
         NEW c, NEW d, MirroredFrom(q, o, c, d)
  PROVE  MirroredFrom(p, w, c, d)
<1>0. PICK e \in Entries : \E n \in 1..Len(q[Repo[e]]) :
         /\ Touches(e, n)
         /\ d = q[Repo[e]][n]
         /\ \/ Tree(e, n) = c
            \/ c \in o /\ \E m \in 1..n : Tree(e, m) = c
  BY DEF MirroredFrom
<1>1. PICK n \in 1..Len(q[Repo[e]]) :
         /\ Touches(e, n)
         /\ d = q[Repo[e]][n]
         /\ \/ Tree(e, n) = c
            \/ c \in w /\ \E m \in 1..n : Tree(e, m) = c
  BY <1>0
<1>2. Repo[e] \in Repos
  BY DEF Repos
<1>3. n \in 1..Len(p[Repo[e]]) /\ p[Repo[e]][n] = q[Repo[e]][n]
  BY <1>2 DEF Grows
<1> QED BY <1>1, <1>3 DEF MirroredFrom

\* No date of a commit is 0.
LEMMA DatesGiven ==
  ASSUME CrawlTyped, Aged, NEW c, NEW d, MirroredFrom(pushed, overtaken, c, d)
  PROVE  d # Unset /\ d \in Nat
<1>0. PICK e \in Entries : \E n \in 1..Len(pushed[Repo[e]]) : d = pushed[Repo[e]][n]
  BY DEF MirroredFrom
<1>1. PICK n \in 1..Len(pushed[Repo[e]]) : d = pushed[Repo[e]][n]
  BY <1>0
<1>2. Repo[e] \in Repos
  BY DEF Repos
<1>3. pushed[Repo[e]] \in Seq(Nat)
  BY <1>2 DEF CrawlTyped
<1>4. pushed[Repo[e]][n] \in Nat
  BY <1>3, ElementOfSeq
<1> QED BY <1>1, <1>2, <1>4 DEF Aged, Tip, Unset

-----------------------------------------------------------------------------
(***************************************************************************)
(* The steps, as the registry sees them                                    *)
(***************************************************************************)

\* Asking, fetching and giving up leave the registry alone.
Looking(r) == /\ \/ StartCrawl(r) \/ Fetch(r) \/ Check(r) \/ LastCommitDate(r) \/ TooMany(r)
                 \/ GithubFails(r) \/ CheckFails(r) \/ PublishFails(r)
              /\ UNCHANGED <<vars, pushed, histories>>
Finishing(r) == Answer(r) \/ AnswerLost(r)

LEMMA Steps ==
  ASSUME [CrawlNext]_<<vars, crawlVars>>
  PROVE  \/ \E r \in Requests : \/ Looking(r) \/ Publish(r) \/ Finishing(r)
                                \/ Handle(r) /\ UNCHANGED crawlVars
                                \/ HandlerFails(r)
         \/ \E g \in Repos : Push(g)
         \/ Refill
         \/ UNCHANGED vars /\ UNCHANGED crawlVars
<1>1. ASSUME NEW r \in Requests,
             \/ StartCrawl(r) \/ Fetch(r) \/ Check(r) \/ LastCommitDate(r) \/ TooMany(r)
             \/ GithubFails(r) \/ CheckFails(r) \/ PublishFails(r)
      PROVE  Looking(r)
  BY <1>1 DEF Looking, StartCrawl, Fetch, Check, LastCommitDate, TooMany,
              GithubFails, CheckFails, PublishFails
<1> QED BY <1>1 DEF CrawlNext, Proceed, Stumble, Finishing

\* A request that is over leaves no trace in the registry's invariant.
LEMMA HangupKeeps ==
  ASSUME IInv, NEW r \in Requests, pc[r] = "done", Hangup(r)
  PROVE  IInv'
<1> USE DEF IInv, TypeOK, stores
<1>1. /\ UNCHANGED <<versions, plugins, blobs, rowLock, now>>
      /\ \A s \in Requests \ {r} : /\ pc'[s] = pc[s]
                                   /\ req'[s] = req[s]
                                   /\ answer'[s] = answer[s]
                                   /\ Key(s)' = Key(s)
      /\ pc'[r] = "idle"
      /\ answer'[r].code = "none"
  BY DEF Hangup, Key
<1>2. TypeOK' /\ Asked'
  <2>1. [code |-> "none", checksum |-> None] \in Answers
    BY DEF Answers, Codes
  <2> QED BY <1>1, <2>1 DEF Hangup, Asked, Places
<1>3. AnsweredLast' /\ OwnDriver'
  BY <1>1 DEF AnsweredLast, OwnDriver, InFlight, Uploading, Recording, InTransaction
<1>4. LockHeld'
  BY <1>1 DEF LockHeld, InTransaction
<1>5. CommitIsFree' /\ OwnRow' /\ CreatedIsDurable' /\ ConflictIsTrue'
  BY <1>1 DEF CommitIsFree, OwnRow, CreatedIsDurable, ConflictIsTrue
<1>6. LatestIsRecorded'
  BY <1>1 DEF LatestIsRecorded
<1>7. FsStaged'
  BY <1>1 DEF FsStaged, Staged, OneRecorder, BlobMatchesRecord, Recording, InTransaction
<1> QED BY <1>2, <1>3, <1>4, <1>5, <1>6, <1>7

\* Dropping a request that is over.
Dropping == \E r \in Requests : pc[r] = "done" /\ Hangup(r)

\* Everything else is a step of the registry, or none.
LEMMA AsTheRegistrySees ==
  ASSUME [CrawlNext]_<<vars, crawlVars>>
  PROVE  [Next]_vars \/ Dropping
<1>1. ASSUME NEW r \in Requests, Finishing(r) PROVE Dropping
  BY <1>1 DEF Finishing, Answer, AnswerLost, Dropping
<1>2. ASSUME NEW r \in Requests,
             \/ Looking(r) \/ Publish(r) \/ HandlerFails(r)
             \/ Handle(r) /\ UNCHANGED crawlVars
      PROVE  [Next]_vars
  BY <1>2 DEF Looking, Publish, HandlerFails, Next
<1>3. ASSUME NEW g \in Repos, Push(g) PROVE [Next]_vars
  BY <1>3 DEF Push, Next
<1>4. Refill => [Next]_vars
  BY DEF Refill
<1> QED BY <1>1, <1>2, <1>3, <1>4, Steps

LEMMA RegistryKept ==
  ASSUME IInv, [CrawlNext]_<<vars, crawlVars>>
  PROVE  IInv' /\ RowsKept
<1>1. CASE [Next]_vars
  BY <1>1, NextIInv, RowsStay DEF IInv
<1>2. CASE Dropping
  <2>1. PICK r \in Requests : pc[r] = "done" /\ Hangup(r)
    BY <1>2 DEF Dropping
  <2>2. UNCHANGED versions
    BY <2>1 DEF Hangup, stores
  <2> QED BY <2>1, <2>2, HangupKeeps DEF RowsKept
<1> QED BY <1>1, <1>2, AsTheRegistrySees

-----------------------------------------------------------------------------
(***************************************************************************)
(* Types                                                                   *)
(***************************************************************************)
LEMMA Lists ==
  /\ Len(List) \in Nat /\ Items = 1..Len(List)
  /\ \A i \in Items : List[i] \in Entries
  /\ \A e \in Entries : Repo[e] \in Repos
  /\ \A g \in Repos : History[g] \in Seq([Entries -> Contents \cup {None}])
  /\ \A g \in Repos : Len(History[g]) \in Nat \ {0}
  /\ \A g \in Repos : \A n \in 1..Len(History[g]), e \in Entries :
        History[g][n][e] \in Contents \cup {None}
<1>1. \A g \in Repos : History[g] \in Seq([Entries -> Contents \cup {None}])
  BY CrawlAssumption
<1>2. \A g \in Repos : Len(History[g]) \in Nat \ {0}
  BY <1>1, CrawlAssumption, LenProperties
<1>3. \A g \in Repos : \A n \in 1..Len(History[g]) :
        History[g][n] \in [Entries -> Contents \cup {None}]
  BY <1>1, ElementOfSeq
<1> QED BY <1>1, <1>2, <1>3, CrawlAssumption DEF Items, Entries, Repos

LEMMA KeysOfContents ==
  ASSUME NEW c \in Contents
  PROVE  KeyOf(c) \in Keys
BY CrawlAssumption, ConstantsAssumption DEF KeyOf, Keys, Plugins

\* What the run of r is about.
LEMMA RunTypes ==
  ASSUME CrawlTyped, NEW r \in Requests
  PROVE  /\ Entry(r) \in Entries
         /\ Repo[Entry(r)] \in Repos
         /\ Tip(Repo[Entry(r)]) \in 1..Len(History[Repo[Entry(r)]])
         /\ cache[r][Repo[Entry(r)]] \in 0..Tip(Repo[Entry(r)]) \cup {None}
BY Lists DEF CrawlTyped, CrawlTypeOK, Entry

\* The next entry, whatever the result of this one.
LEMMA NextEntryTypes ==
  ASSUME CrawlTyped, UNCHANGED <<pushed, histories>>, NEW r \in Requests,
         NEW STATE result, result \in Keys \cup {None},
         NEW STATE fetched, fetched \in [Repos -> Nat \cup {None}],
         \A g \in Repos : fetched[g] \in 0..Tip(g) \cup {None},
         NextEntry(r, result, fetched),
         tokens' \in 0..Burst
  PROVE  /\ CrawlTyped'
         /\ at'[r] \notin Fetching
         /\ \A s \in Requests \ {r} : /\ at'[s] = at[s] /\ item'[s] = item[s]
                                      /\ cache'[s] = cache[s] /\ when'[s] = when[s]
                                      /\ report'[s] = report[s]
         /\ report'[r] = result
<1> USE DEF CrawlTyped, CrawlTypeOK, NextEntry, histories
<1>1. /\ report' \in [Requests -> Keys \cup {None}]
      /\ when' \in [Requests -> Nat]
      /\ at' \in [Requests -> Stages]
  BY DEF Stages
<1>2. item' \in [Requests -> Items]
  BY Lists
<1>3. cache' \in [Requests -> [Repos -> Nat \cup {None}]]
  OBVIOUS
<1>4. ASSUME NEW g \in Repos, NEW s \in Requests
      PROVE  cache'[s][g] \in 0..Tip(g) \cup {None}
  <2>1. Tip(g) \in Nat
    BY Lists
  <2> QED BY <1>4, <2>1
<1>5. \A g \in Repos : Tip(g)' = Tip(g)
  BY DEF Tip
<1> QED BY <1>1, <1>2, <1>3, <1>4, <1>5 DEF Fetching

-----------------------------------------------------------------------------
(***************************************************************************)
(* A run that goes on                                                      *)
(***************************************************************************)

\* What the runs know, and what they have reported.
RunsInv == CrawlTyped /\ Found /\ FoundDate /\ Noticed /\ ReportIsTrue

\* The other runs know what they knew.
OthersKnow(r) ==
    \A s \in Requests \ {r} : /\ at'[s] = at[s]
                              /\ item'[s] = item[s]
                              /\ cache'[s] = cache[s]
                              /\ when'[s] = when[s]

LEMMA OthersFound ==
  ASSUME RunsInv, UNCHANGED <<pushed, histories>>, NEW r \in Requests, OthersKnow(r)
  PROVE  \A s \in Requests \ {r} : /\ at'[s] \in Fetching => HasFetched(s)'
                                   /\ at'[s] = "publish" => HasDate(s)'
                                   /\ NoticedFor(s, cache[s])'
<1> USE DEF histories
<1> SUFFICES ASSUME NEW s \in Requests \ {r}
             PROVE  /\ at'[s] \in Fetching => HasFetched(s)'
                    /\ at'[s] = "publish" => HasDate(s)'
                    /\ NoticedFor(s, cache[s])'
  OBVIOUS
<1>1. /\ at'[s] = at[s]
      /\ HasFetched(s)' = HasFetched(s)
      /\ HasDate(s)' = HasDate(s)
  BY DEF OthersKnow, HasFetched, HasDate, MirroredFrom, Fetched, Entry, Tip
<1>2. NoticedFor(s, cache[s])' = NoticedFor(s, cache[s])
  BY DEF OthersKnow, NoticedFor, Undated, Tip
<1> QED BY <1>1, <1>2 DEF RunsInv, Found, FoundDate, Noticed

\* A run that goes on with the same entry, and has fetched nothing since.
LEMMA StillNoticed ==
  ASSUME RunsInv, UNCHANGED <<pushed, histories>>, NEW r \in Requests, OthersKnow(r),
         item'[r] = item[r], cache'[r] = cache[r],
         at[r] \in {"publish", "wait"} => at'[r] \in {"publish", "wait"}
  PROVE  Noticed'
<1> USE DEF histories
<1>1. NoticedFor(r, cache[r])
  BY DEF RunsInv, Noticed
<1>2. \A i \in Items : Undated(r, i)' => Undated(r, i)
  BY DEF Undated
<1>3. NoticedFor(r, cache[r])'
  BY <1>1, <1>2 DEF NoticedFor, Tip
<1> QED BY <1>3, OthersFound DEF Noticed

LEMMA NextEntryStep ==
  ASSUME RunsInv, UNCHANGED <<pushed, versions, histories>>, NEW r \in Requests,
         NEW STATE result, result \in Keys \cup {None},
         result # None => versions[result] # None,
         NEW STATE fetched, fetched \in [Repos -> Nat \cup {None}],
         \A g \in Repos : fetched[g] \in 0..Tip(g) \cup {None},
         NoticedFor(r, fetched),
         NextEntry(r, result, fetched),
         tokens' \in 0..Burst
  PROVE  RunsInv'
<1>1. /\ CrawlTyped'
      /\ at'[r] \notin Fetching
      /\ OthersKnow(r)
      /\ \A s \in Requests \ {r} : report'[s] = report[s]
      /\ report'[r] = result
  BY NextEntryTypes DEF RunsInv, OthersKnow
<1>2. Found'
  BY <1>1, OthersFound DEF Found
<1>3. FoundDate'
  BY <1>1, OthersFound DEF FoundDate, Fetching
<1>4. ReportIsTrue'
  BY <1>1 DEF RunsInv, ReportIsTrue
<1>5. NoticedFor(r, cache[r])'
  <2>1. CASE item[r] = Len(List)
    <3>1. cache'[r] = [g \in Repos |-> 0]
      BY <2>1 DEF NextEntry, RunsInv, CrawlTyped, CrawlTypeOK
    <3> QED BY <3>1, Lists DEF NoticedFor
  <2>2. CASE item[r] # Len(List)
    <3>1. cache'[r] = fetched /\ item'[r] = item[r] + 1 /\ item[r] \in Nat
      BY <2>2, Lists DEF NextEntry, RunsInv, CrawlTyped, CrawlTypeOK
    <3>2. \A i \in Items : Undated(r, i)' => Undated(r, i)
      BY <3>1, Lists DEF Undated
    <3> QED BY <3>1, <3>2 DEF NoticedFor, Tip, histories
  <2> QED BY <2>1, <2>2
<1>6. Noticed'
  BY <1>1, <1>5, OthersFound DEF Noticed
<1> QED BY <1>1, <1>2, <1>3, <1>4, <1>6 DEF RunsInv

\* The entry's cache is one that NextEntry may keep.
LEMMA CacheTypes ==
  ASSUME RunsInv, NEW r \in Requests
  PROVE  /\ cache[r] \in [Repos -> Nat \cup {None}]
         /\ \A g \in Repos : cache[r][g] \in 0..Tip(g) \cup {None}
         /\ NoticedFor(r, cache[r])
BY DEF RunsInv, CrawlTyped, CrawlTypeOK, Noticed

LEMMA FetchStep ==
  ASSUME RunsInv, NEW r \in Requests, Fetch(r), UNCHANGED <<vars, pushed, tokens, histories>>
  PROVE  RunsInv'
<1> DEFINE g == Repo[Entry(r)]
           n == IF cache[r][g] = 0 THEN Tip(g) ELSE cache[r][g]
           fetched == [cache[r] EXCEPT ![g] = n]
<1>1. /\ CrawlTyped
      /\ Entry(r) \in Entries /\ g \in Repos
      /\ Tip(g) \in 1..Len(History[g]) /\ Len(History[g]) \in Nat
      /\ n \in 1..Tip(g) \cup {None}
  BY RunTypes, Lists DEF RunsInv
<1>2. /\ fetched \in [Repos -> Nat \cup {None}]
      /\ \A h \in Repos : fetched[h] \in 0..Tip(h) \cup {None}
      /\ fetched[g] = n
  BY <1>1, CacheTypes
<1>6. NoticedFor(r, fetched)
  <2> SUFFICES ASSUME NEW i \in Items, Undated(r, i),
                      fetched[Repo[List[i]]] \notin {0, None},
                      Tree(List[i], fetched[Repo[List[i]]]) \in Contents,
                      NEW m \in (fetched[Repo[List[i]]] + 1)..Tip(Repo[List[i]]),
                      Touches(List[i], m)
               PROVE  Tree(List[i], fetched[Repo[List[i]]]) \in overtaken
    BY DEF NoticedFor
  <2>1. Repo[List[i]] \in Repos
    BY Lists
  <2>2. CASE fetched[Repo[List[i]]] = cache[r][Repo[List[i]]]
    BY <2>2, CacheTypes DEF NoticedFor
  <2>3. CASE fetched[Repo[List[i]]] # cache[r][Repo[List[i]]]
    <3>1. Repo[List[i]] = g /\ n = Tip(g) /\ fetched[g] = Tip(g)
      BY <1>2, <2>1, <2>3, CacheTypes
    <3> QED BY <1>1, <3>1
  <2> QED BY <2>2, <2>3
<1>3. tokens' \in 0..Burst /\ UNCHANGED versions
  BY <1>1 DEF CrawlTyped, CrawlTypeOK, vars
<1>4. CASE n = None \/ Tree(Entry(r), n) = None
  <2>1. NextEntry(r, None, fetched)
    BY <1>4 DEF Fetch
  <2> HIDE DEF fetched
  <2> QED BY <1>2, <1>3, <1>6, <2>1, NextEntryStep
<1>5. CASE ~(n = None \/ Tree(Entry(r), n) = None)
  <2>1. /\ cache' = [cache EXCEPT ![r] = fetched]
        /\ at' = [at EXCEPT ![r] = "check"]
        /\ report' = [report EXCEPT ![r] = None]
        /\ UNCHANGED <<item, when>>
    BY <1>5 DEF Fetch
  <2>2. n \in 1..Tip(g) \ {None} /\ Tree(Entry(r), n) \in Contents
    BY <1>1, <1>5, Lists DEF Tree
  <2> HIDE DEF fetched, n
  <2>3. CrawlTyped'
    BY <1>1, <1>2, <1>3, <2>1 DEF CrawlTyped, CrawlTypeOK, Stages, Tip, histories
  <2>4. OthersKnow(r)
    BY <1>1, <2>1 DEF OthersKnow, CrawlTyped, CrawlTypeOK
  <2>5. /\ at'[r] = "check"
        /\ cache'[r] = fetched
        /\ Entry(r)' = Entry(r)
    BY <1>1, <2>1 DEF CrawlTyped, CrawlTypeOK, Entry
  <2>6. HasFetched(r)'
    BY <1>2, <2>2, <2>5 DEF HasFetched, Fetched, Tip
  <2>7. Found' /\ FoundDate'
    BY <2>4, <2>5, <2>6, OthersFound DEF Found, FoundDate
  <2>8. ReportIsTrue'
    BY <1>1, <1>3, <2>1 DEF RunsInv, CrawlTyped, CrawlTypeOK, ReportIsTrue
  <2>9. NoticedFor(r, cache[r])'
    <3>1. \A i \in Items : Undated(r, i)' => Undated(r, i)
      BY <2>1, <1>1 DEF Undated, Fetch, CrawlTyped, CrawlTypeOK
    <3> QED BY <1>6, <2>5, <3>1 DEF NoticedFor, Tip, histories
  <2>10. Noticed'
    BY <2>4, <2>9, OthersFound DEF Noticed
  <2> QED BY <2>3, <2>7, <2>8, <2>10 DEF RunsInv
<1> QED BY <1>4, <1>5

LEMMA CheckStep ==
  ASSUME RunsInv, NEW r \in Requests, Check(r), UNCHANGED <<vars, pushed, tokens, histories>>
  PROVE  RunsInv'
<1>1. CrawlTyped /\ at[r] = "check" /\ HasFetched(r) /\ Fetched(r) \in Contents
  BY DEF RunsInv, Check, Found, HasFetched, Fetching
<1>2. tokens' \in 0..Burst /\ UNCHANGED versions
  BY <1>1 DEF CrawlTyped, CrawlTypeOK, vars
<1>3. CASE versions[KeyOf(Fetched(r))] # None
  <2>1. NextEntry(r, KeyOf(Fetched(r)), cache[r])
    BY <1>3 DEF Check
  <2>2. KeyOf(Fetched(r)) \in Keys \cup {None}
    BY <1>1, KeysOfContents
  <2> QED BY <1>1, <1>2, <1>3, <2>1, <2>2, CacheTypes, NextEntryStep
<1>4. CASE ~(versions[KeyOf(Fetched(r))] # None)
  <2>1. at' = [at EXCEPT ![r] = "date"] /\ UNCHANGED <<item, cache, when, report>>
    BY <1>4 DEF Check, Stage
  <2>2. CrawlTyped'
    BY <1>1, <1>2, <2>1 DEF CrawlTyped, CrawlTypeOK, Stages, Tip, histories
  <2>3. OthersKnow(r) /\ at'[r] = "date"
    BY <1>1, <2>1 DEF OthersKnow, CrawlTyped, CrawlTypeOK
  <2>4. HasFetched(r)'
    BY <1>1, <2>1 DEF HasFetched, Fetched, Tip, Entry
  <2>5. Found' /\ FoundDate'
    BY <2>3, <2>4, OthersFound DEF Found, FoundDate
  <2>6. ReportIsTrue'
    BY <1>2, <2>1 DEF RunsInv, ReportIsTrue
  <2>7. Noticed'
    BY <1>1, <2>1, <2>3, StillNoticed
  <2> QED BY <2>2, <2>5, <2>6, <2>7 DEF RunsInv
<1> QED BY <1>3, <1>4

LEMMA DateStep ==
  ASSUME RunsInv, NEW r \in Requests, LastCommitDate(r),
         UNCHANGED <<vars, pushed, tokens, histories>>
  PROVE  RunsInv'
<1> DEFINE e == Entry(r)
           t == Tip(Repo[e])
           last(n) == Touches(e, n) /\ \A m \in (n + 1)..t : ~Touches(e, m)
           n == CHOOSE k \in 1..t : last(k)
<1>1. /\ CrawlTyped /\ Fetched(r) \in Contents
      /\ cache[r][Repo[e]] \in 1..t \ {None}
      /\ e \in Entries /\ Repo[e] \in Repos
      /\ t \in Nat /\ pushed[Repo[e]] \in Seq(Nat)
  BY RunTypes, Lists DEF RunsInv, LastCommitDate, Found, HasFetched, Fetching, CrawlTyped
<1>2. n \in 1..t /\ last(n)
  <2>1. Tree(e, cache[r][Repo[e]]) # None
    BY <1>1, NoneAssumption DEF Fetched
  <2>2. \E k \in 1..t : last(k)
    BY <1>1, <2>1, LastTouch
  <2> QED BY <2>2
<1>3. /\ at' = [at EXCEPT ![r] = "publish"]
      /\ when' = [when EXCEPT ![r] = pushed[Repo[e]][n]]
      /\ UNCHANGED <<item, cache, report>>
  BY DEF LastCommitDate
<1>4. MirroredFrom(pushed, overtaken, Fetched(r), pushed[Repo[e]][n])
  <2> DEFINE n0 == cache[r][Repo[e]]
  <2> HIDE DEF n
  <2>1. /\ e \in Entries
        /\ Len(pushed[Repo[e]]) \in Nat
        /\ n0 \in 1..Len(pushed[Repo[e]])
        /\ n \in 1..Len(pushed[Repo[e]])
        /\ Touches(e, n)
        /\ \A m \in (n + 1)..Len(pushed[Repo[e]]) : ~Touches(e, m)
    BY <1>1, <1>2 DEF Tip
  <2>2. Fetched(r) = Tree(e, n0)
    BY DEF Fetched
  <2>4. n0 < n => Tree(e, n0) \in overtaken
    <3> SUFFICES ASSUME n0 < n PROVE Tree(e, n0) \in overtaken
      OBVIOUS
    <3>1. item[r] \in Items /\ List[item[r]] = e /\ Undated(r, item[r])
      BY <1>1 DEF Entry, Undated, LastCommitDate, CrawlTyped, CrawlTypeOK
    <3>2. n0 \notin {0, None}
      BY <1>1 DEF RunsInv, LastCommitDate, Found, HasFetched, Fetching
    <3>3. n \in (n0 + 1)..Tip(Repo[List[item[r]]])
      BY <2>1, <3>1 DEF Tip
    <3>4. Tree(List[item[r]], n0) \in Contents /\ n0 = cache[r][Repo[List[item[r]]]]
      BY <1>1, <2>2, <3>1
    <3> HIDE DEF n0
    <3>5. NoticedFor(r, cache[r])
      BY CacheTypes
    <3> QED BY <2>1, <3>1, <3>2, <3>3, <3>4, <3>5 DEF NoticedFor
  <2> HIDE DEF e, n0
  <2>3. MirroredFrom(pushed, overtaken, Tree(e, n0), pushed[Repo[e]][n])
    BY <2>1, <2>2, <2>4, DateFits
  <2> QED BY <2>2, <2>3
<1>5. pushed[Repo[e]][n] \in Nat
  BY <1>1, <1>2, ElementOfSeq DEF Tip
<1> HIDE DEF n
<1>6. CrawlTyped' /\ UNCHANGED versions
  BY <1>1, <1>3, <1>5 DEF CrawlTyped, CrawlTypeOK, Stages, Tip, vars, histories
<1>7. OthersKnow(r) /\ at'[r] = "publish" /\ when'[r] = pushed[Repo[e]][n]
  BY <1>1, <1>3 DEF OthersKnow, CrawlTyped, CrawlTypeOK
<1>8. HasFetched(r)' /\ HasDate(r)'
  <2>1. HasFetched(r)'
    BY <1>1, <1>3 DEF HasFetched, Fetched, Tip, Entry
  <2>2. HasDate(r)'
    BY <1>1, <1>3, <1>4, <1>7 DEF HasDate, MirroredFrom, Fetched, Entry, histories
  <2> QED BY <2>1, <2>2
<1>9. Found' /\ FoundDate'
  BY <1>7, <1>8, OthersFound DEF Found, FoundDate
<1>10. ReportIsTrue'
  BY <1>3, <1>6 DEF RunsInv, ReportIsTrue
<1>11. Noticed'
  BY <1>1, <1>3, <1>7, StillNoticed
<1> QED BY <1>6, <1>9, <1>10, <1>11 DEF RunsInv

LEMMA GithubFailsStep ==
  ASSUME RunsInv, NEW r \in Requests, GithubFails(r),
         UNCHANGED <<vars, pushed, tokens, histories>>
  PROVE  RunsInv'
<1> DEFINE g == Repo[Entry(r)]
           failed == [cache[r] EXCEPT ![g] = None]
<1>1. /\ CrawlTyped
      /\ cache[r] \in [Repos -> Nat \cup {None}]
      /\ \A h \in Repos : cache[r][h] \in 0..Tip(h) \cup {None}
      /\ NoticedFor(r, cache[r])
  BY CacheTypes DEF RunsInv
<1>2. /\ failed \in [Repos -> Nat \cup {None}]
      /\ \A h \in Repos : failed[h] \in 0..Tip(h) \cup {None}
      /\ \A h \in Repos : failed[h] \in {None, cache[r][h]}
  BY <1>1
<1>3. tokens' \in 0..Burst /\ UNCHANGED versions
  BY <1>1 DEF CrawlTyped, CrawlTypeOK, vars
<1>4. NextEntry(r, None, cache[r]) \/ NextEntry(r, None, failed)
  BY DEF GithubFails
<1> HIDE DEF failed
<1>5. CASE NextEntry(r, None, cache[r])
  BY <1>1, <1>3, <1>5, NextEntryStep
<1>6. CASE NextEntry(r, None, failed)
  <2>1. NoticedFor(r, failed)
    BY <1>1, <1>2, Lists DEF NoticedFor
  <2> QED BY <1>2, <1>3, <1>6, <2>1, NextEntryStep
<1> QED BY <1>4, <1>5, <1>6

\* The limiter, and whatever goes wrong on the way to it or to the registry.
LEMMA GivingUpStep ==
  ASSUME RunsInv, NEW r \in Requests, TooMany(r) \/ CheckFails(r) \/ PublishFails(r),
         UNCHANGED <<vars, pushed, histories>>
  PROVE  RunsInv'
<1>1. tokens \in 0..Burst /\ Burst \in Nat /\ UNCHANGED versions
  BY CrawlAssumption DEF RunsInv, CrawlTyped, CrawlTypeOK, vars
<1>2. tokens' \in 0..Burst
  BY <1>1 DEF TooMany, CheckFails, PublishFails
<1> QED BY <1>1, <1>2, CacheTypes, NextEntryStep
        DEF TooMany, CheckFails, PublishFails

LEMMA StartCrawlStep ==
  ASSUME RunsInv, NEW r \in Requests, StartCrawl(r),
         UNCHANGED <<vars, pushed, tokens, histories>>
  PROVE  RunsInv'
<1>1. /\ at' = [at EXCEPT ![r] = "fetch"]
      /\ report' = [report EXCEPT ![r] = None]
      /\ at[r] = "off"
      /\ UNCHANGED <<pushed, item, cache, when, tokens, versions, histories>>
  BY DEF StartCrawl, vars
<1>2. CrawlTyped'
  BY <1>1 DEF RunsInv, CrawlTyped, CrawlTypeOK, Stages, Tip, histories
<1>3. OthersKnow(r) /\ at'[r] = "fetch"
  BY <1>1 DEF OthersKnow, RunsInv, CrawlTyped, CrawlTypeOK
<1>4. Found' /\ FoundDate'
  BY <1>3, <1>1, OthersFound DEF Found, FoundDate, Fetching
<1>5. ReportIsTrue'
  BY <1>1 DEF RunsInv, CrawlTyped, CrawlTypeOK, ReportIsTrue
<1>6. Noticed'
  BY <1>1, <1>3, StillNoticed
<1> QED BY <1>2, <1>4, <1>5, <1>6 DEF RunsInv

LEMMA LookingStep ==
  ASSUME RunsInv, NEW r \in Requests, Looking(r)
  PROVE  RunsInv' /\ UNCHANGED <<vars, pushed, histories>>
<1>1. CASE StartCrawl(r) \/ Fetch(r) \/ Check(r) \/ LastCommitDate(r) \/ GithubFails(r)
  <2>1. UNCHANGED <<vars, pushed, tokens, histories>>
    BY <1>1 DEF StartCrawl, Fetch, Check, LastCommitDate, GithubFails
  <2> QED BY <1>1, <2>1, StartCrawlStep, FetchStep, CheckStep, DateStep, GithubFailsStep
<1>2. CASE TooMany(r) \/ CheckFails(r) \/ PublishFails(r)
  BY <1>2, GivingUpStep DEF Looking
<1> QED BY <1>1, <1>2 DEF Looking
-----------------------------------------------------------------------------
(***************************************************************************)
(* Requests                                                                *)
(***************************************************************************)

\* What was mirrored before a push was mirrored after it.
LEMMA UpstreamGrows ==
  ASSUME CInv, Grows(pushed, pushed'), overtaken \subseteq overtaken',
         UNCHANGED <<versions, pc, req>>
  PROVE  Upstream' /\ Carried'
<1>1. ASSUME NEW k \in Keys, versions'[k] # None
      PROVE  MirroredFrom(pushed', overtaken', versions'[k].checksum, versions'[k].date)
  <2>1. MirroredFrom(pushed, overtaken, versions[k].checksum, versions[k].date)
    BY <1>1 DEF CInv, Upstream
  <2> QED BY <2>1, MirroredStays
<1>2. ASSUME NEW s \in Requests, pc'[s] \in InFlight
      PROVE  MirroredFrom(pushed', overtaken', req'[s].content, req'[s].date)
  <2>1. MirroredFrom(pushed, overtaken, req[s].content, req[s].date)
    BY <1>2 DEF CInv, Carried
  <2> QED BY <2>1, MirroredStays
<1> QED BY <1>1, <1>2 DEF Upstream, Carried

LEMMA PublishStep ==
  ASSUME IInv, CInv, NEW r \in Requests, Publish(r)
  PROVE  CInv'
<1> USE DEF CInv
<1>1. /\ at' = [at EXCEPT ![r] = "wait"]
      /\ UNCHANGED <<item, cache, when, report, pushed, histories>>
      /\ tokens > 0 /\ tokens' = tokens - 1
      /\ at[r] = "publish"
      /\ req'[r].content = Fetched(r) /\ req'[r].date = when[r]
      /\ StartPublish(r)
  BY DEF Publish, Stage
<1>2. /\ UNCHANGED versions
      /\ \A s \in Requests \ {r} : pc'[s] = pc[s] /\ req'[s] = req[s]
  BY <1>1, StartFrame DEF IInv
<1>3. CrawlTyped' /\ Aged'
  <2>1. tokens' \in 0..Burst
    BY <1>1, CrawlAssumption DEF CrawlTyped, CrawlTypeOK
  <2> QED BY <1>1, <2>1 DEF CrawlTyped, CrawlTypeOK, Stages, Tip, Aged, histories
<1>4. OthersKnow(r) /\ at'[r] = "wait"
  BY <1>1 DEF OthersKnow, CrawlTyped, CrawlTypeOK
<1>5. Found' /\ FoundDate'
  BY <1>1, <1>4, OthersFound DEF RunsInv, Found, FoundDate, Fetching
<1>6. MirroredFrom(pushed, overtaken, Fetched(r), when[r])
  BY <1>1 DEF FoundDate, HasDate
<1>7. Carried'
  BY <1>1, <1>2, <1>6 DEF Carried, histories
<1>8. ReportIsTrue' /\ Upstream'
  BY <1>1, <1>2 DEF ReportIsTrue, Upstream, histories
<1>9. Noticed'
  BY <1>1, <1>4, StillNoticed DEF RunsInv
<1> QED BY <1>3, <1>5, <1>7, <1>8, <1>9

LEMMA FinishingStep ==
  ASSUME IInv, CInv, NEW r \in Requests, Finishing(r)
  PROVE  CInv'
<1> USE DEF CInv
<1>1. PICK result \in {Key(r), None} :
        /\ result # None => answer[r].code \in {"created", "conflict"}
        /\ NextEntry(r, result, cache[r])
  BY DEF Finishing, Answer, AnswerLost
<1>2. pc[r] = "done" /\ Hangup(r) /\ UNCHANGED <<pushed, tokens, histories>>
  BY DEF Finishing, Answer, AnswerLost
<1>3. result \in Keys \cup {None} /\ (result # None => versions[result] # None)
  <2>1. Key(r) \in Keys
    BY <1>2, KeyInKeys DEF IInv
  <2> QED BY <1>1, <2>1 DEF IInv, CreatedIsDurable, ConflictIsTrue
<1>4. /\ UNCHANGED versions
      /\ pc'[r] = "idle"
      /\ \A s \in Requests \ {r} : pc'[s] = pc[s] /\ req'[s] = req[s]
  BY <1>2 DEF Hangup, stores, IInv, TypeOK
<1>5. tokens' \in 0..Burst
  BY <1>2 DEF CrawlTyped, CrawlTypeOK
<1>6. RunsInv
  BY DEF RunsInv
<1>7. RunsInv'
  BY <1>1, <1>2, <1>3, <1>4, <1>5, <1>6, CacheTypes, NextEntryStep
<1>8. Carried'
  BY <1>2, <1>4 DEF Carried, histories, InFlight, Uploading, Recording, InTransaction
<1>9. Aged' /\ Upstream'
  BY <1>2, <1>4 DEF Aged, Upstream, Tip, histories
<1> QED BY <1>7, <1>8, <1>9 DEF RunsInv

\* A date that was given is not replaced by the clock's.
LEMMA DateKept ==
  ASSUME TypeOK, Asked, NEW r \in Requests, Handle(r), req[r].date # Unset
  PROVE  pc[r] \in InFlight /\ req'[r].date = req[r].date
<1>1. \/ UNCHANGED req
      \/ req' = [req EXCEPT ![r] = Dated(@, Row(r).date)]
  BY DEF Handle, Put, Upsert, PreCheck, FsPut, S3Head, S3PutObject, SqliteUpsert,
         PgCountVersions, PgCountPlugins, PgInsertPlugin, PgUpdatePlugin,
         PgInsertVersion, PgCommit, FinalGetVersion, Goto, Reply
<1>2. pc[r] \in InFlight
  BY DEF Handle, Put, Upsert, PreCheck, FsPut, S3Head, S3PutObject, SqliteUpsert,
         PgCountVersions, PgCountPlugins, PgInsertPlugin, PgUpdatePlugin,
         PgInsertVersion, PgCommit, FinalGetVersion,
         InFlight, Uploading, Recording, InTransaction
<1>3. req'[r].date = req[r].date
  BY <1>1 DEF TypeOK, Dated, Row
<1> QED BY <1>2, <1>3

\* A handler that fails leaves its request as it is.
LEMMA FailFrame ==
  ASSUME IInv, NEW r \in Requests, Fail(r)
  PROVE  /\ pc[r] \in InFlight /\ pc'[r] = "done" /\ answer'[r].code = "fault"
         /\ \A s \in Requests \ {r} : pc'[s] = pc[s] /\ answer'[s] = answer[s]
         /\ UNCHANGED <<versions, blobs, req>>
         /\ Key(r) \in Keys
<1>1. pc[r] # "idle"
  BY DEF Fail, InFlight, Uploading, Recording, InTransaction
<1> QED BY <1>1, KeyInKeys DEF Fail, Reply, IInv, TypeOK

\* What the runs know does not depend on the registry.
LEMMA RunsUntouched ==
  ASSUME CInv, UNCHANGED <<pushed, at, item, cache, when, report, tokens, overtaken>>,
         cutOff' \subseteq Keys
  PROVE  CrawlTyped' /\ Aged' /\ Found' /\ FoundDate' /\ Noticed'
<1> USE DEF CInv
<1>1. CrawlTyped' /\ Aged'
  BY DEF CrawlTyped, CrawlTypeOK, Aged, Tip
<1>2. \A s \in Requests : HasFetched(s)' = HasFetched(s) /\ HasDate(s)' = HasDate(s)
  BY DEF HasFetched, HasDate, MirroredFrom, Fetched, Entry, Tip
<1>3. Noticed'
  BY DEF Noticed, NoticedFor, Undated, Tip
<1> QED BY <1>1, <1>2, <1>3 DEF Found, FoundDate

LEMMA HandlerFailsStep ==
  ASSUME IInv, CInv, NEW r \in Requests, HandlerFails(r)
  PROVE  CInv'
<1> USE DEF CInv
<1>1. /\ UNCHANGED <<pushed, at, item, cache, when, report, tokens, overtaken>>
      /\ cutOff' \in {cutOff, cutOff \cup {Key(r)}}
      /\ Fail(r)
  BY DEF HandlerFails
<1>2. cutOff' \subseteq Keys
  BY <1>1, FailFrame DEF CrawlTyped, CrawlTypeOK
<1>3. CrawlTyped' /\ Aged' /\ Found' /\ FoundDate' /\ Noticed'
  BY <1>1, <1>2, RunsUntouched
<1>4. Carried'
  BY <1>1, FailFrame DEF Carried, InFlight, Uploading, Recording, InTransaction
<1>5. ReportIsTrue' /\ Upstream'
  BY <1>1, FailFrame DEF ReportIsTrue, Upstream
<1> QED BY <1>3, <1>4, <1>5

LEMMA HandleStep ==
  ASSUME IInv, CInv, NEW r \in Requests, Handle(r), UNCHANGED crawlVars,
         RowsKept
  PROVE  CInv'
<1> USE DEF CInv
<1>1. UNCHANGED <<pushed, at, item, cache, when, report, tokens, overtaken, cutOff>>
  BY DEF crawlVars, histories
<1>2. CrawlTyped' /\ Aged' /\ Found' /\ FoundDate' /\ Noticed'
  BY <1>1, RunsUntouched DEF CrawlTyped, CrawlTypeOK
<1>3. pc[r] \in InFlight /\ pc[r] # "idle"
  BY HandlerTypes DEF IInv, Handle, Put, Upsert, PreCheck, FsPut, S3Head, S3PutObject, SqliteUpsert,
         PgCountVersions, PgCountPlugins, PgInsertPlugin, PgUpdatePlugin,
         PgInsertVersion, PgCommit, FinalGetVersion,
         InFlight, Uploading, Recording, InTransaction
<1>4. MirroredFrom(pushed, overtaken, req[r].content, req[r].date)
  BY <1>3 DEF Carried
<1>5. req[r].date # Unset
  BY <1>4, DatesGiven
<1>6. /\ \A s \in Requests \ {r} : pc'[s] = pc[s] /\ req'[s] = req[s]
      /\ req'[r].content = req[r].content
      /\ req'[r].date = req[r].date
  BY <1>5, Frame, DateKept DEF IInv
<1>7. Carried'
  BY <1>1, <1>4, <1>6 DEF Carried
<1>8. ReportIsTrue'
  BY <1>1 DEF ReportIsTrue, RowsKept, CrawlTyped, CrawlTypeOK
<1>9. Upstream'
  <2>1. CASE Records(r)
    <3>1. versions' = [versions EXCEPT ![Key(r)] = Row(r)]
      BY <2>1 DEF Records, WriteRows
    <3>2. Row(r).checksum = req[r].content /\ Row(r).date = req[r].date
      BY <1>5 DEF Row
    <3>3. versions \in [Keys -> Rows \cup {None}]
      BY DEF IInv, TypeOK
    <3>4. ASSUME NEW k \in Keys, versions'[k] # None
          PROVE  MirroredFrom(pushed, overtaken, versions'[k].checksum, versions'[k].date)
      <4>1. CASE k = Key(r)
        BY <1>4, <3>1, <3>2, <3>3, <4>1
      <4>2. CASE k # Key(r)
        BY <3>1, <3>3, <3>4, <4>2 DEF Upstream
      <4> QED BY <4>1, <4>2
    <3> QED BY <1>1, <3>4 DEF Upstream
  <2>2. CASE UNCHANGED versions
    BY <1>1, <2>2 DEF Upstream
  <2> QED BY <2>1, <2>2, RecordsOrNot DEF IInv
<1> QED BY <1>2, <1>7, <1>8, <1>9
-----------------------------------------------------------------------------
(***************************************************************************)
(* Pushes                                                                  *)
(***************************************************************************)
LEMMA PushStep ==
  ASSUME IInv, CInv, NEW g \in Repos, Push(g)
  PROVE  CInv'
<1> USE DEF CInv
<1>1. /\ pushed' = [pushed EXCEPT ![g] = Append(@, now')]
      /\ now' = now + 1 /\ now \in Nat
      /\ Len(pushed[g]) < Len(History[g])
      /\ overtaken' = overtaken \cup
           {c \in Contents : \E s \in Requests, i \in Items :
               Repo[List[i]] = g /\ Touches(List[i], Tip(g) + 1) /\ Holds(s, i, c)}
      /\ UNCHANGED <<versions, pc, req, at, item, cache, when, report, tokens, cutOff>>
  BY DEF Push, Tick, stores, Tip, IInv, TypeOK
<1>2. \A h \in Repos : pushed[h] \in Seq(Nat) /\ Len(pushed[h]) \in Nat \ {0}
  <2>1. \A h \in Repos : Len(pushed[h]) \in 1..Len(History[h])
    BY DEF CrawlTyped, CrawlTypeOK, Tip
  <2> QED BY <2>1, Lists DEF CrawlTyped
<1>3. /\ pushed'[g] \in Seq(Nat)
      /\ Len(pushed'[g]) = Len(pushed[g]) + 1
      /\ pushed'[g][Len(pushed[g]) + 1] = now'
      /\ \A n \in 1..Len(pushed[g]) : pushed'[g][n] = pushed[g][n]
      /\ \A h \in Repos \ {g} : pushed'[h] = pushed[h]
  <2>1. pushed'[g] = Append(pushed[g], now') /\ now' \in Nat
    BY <1>1 DEF CrawlTyped
  <2> QED BY <1>1, <1>2, <2>1, AppendProperties DEF CrawlTyped
<1>4. Grows(pushed, pushed')
  <2> SUFFICES ASSUME NEW h \in Repos
               PROVE  /\ Len(pushed[h]) \in Nat /\ Len(pushed'[h]) \in Nat
                      /\ Len(pushed[h]) <= Len(pushed'[h])
                      /\ \A n \in 1..Len(pushed[h]) : pushed'[h][n] = pushed[h][n]
    BY DEF Grows
  <2>1. CASE h = g
    BY <1>2, <1>3, <2>1
  <2>2. CASE h # g
    BY <1>2, <1>3, <2>2
  <2> QED BY <2>1, <2>2
<1>11. overtaken \subseteq overtaken' /\ overtaken' \subseteq Contents
  BY <1>1 DEF CrawlTyped, CrawlTypeOK
<1>5. Aged'
  <2> SUFFICES ASSUME NEW h \in Repos, NEW n \in 1..Len(pushed'[h])
               PROVE  pushed'[h][n] > 0
    BY DEF Aged, Tip
  <2>1. CASE n \in 1..Len(pushed[h])
    <3>1. pushed'[h][n] = pushed[h][n]
      BY <1>4, <2>1 DEF Grows
    <3>2. pushed[h][n] > 0
      BY <2>1 DEF Aged, Tip
    <3> QED BY <3>1, <3>2
  <2>2. CASE n \notin 1..Len(pushed[h])
    <3>1. h = g /\ n = Len(pushed[g]) + 1
      BY <1>2, <1>3, <2>2
    <3> QED BY <1>1, <1>3, <3>1
  <2> QED BY <2>1, <2>2
<1>6. CrawlTyped'
  <2>1. /\ pushed' \in [Repos -> Seq(Nat)]
        /\ \A h \in Repos : pushed'[h] \in Seq(Nat)
    BY <1>1, <1>2, <1>3 DEF CrawlTyped
  <2>2. \A h \in Repos : Len(pushed'[h]) \in 1..Len(History[h])
    BY <1>1, <1>2, <1>3, Lists DEF CrawlTyped, CrawlTypeOK, Tip
  <2>3. ASSUME NEW s \in Requests, NEW h \in Repos
        PROVE  cache'[s][h] \in 0..Len(pushed'[h]) \cup {None}
    <3>1. cache[s][h] \in 0..Len(pushed[h]) \cup {None}
      BY DEF CrawlTyped, CrawlTypeOK, Tip
    <3>2. Len(pushed[h]) \in Nat /\ Len(pushed'[h]) \in Nat
          /\ Len(pushed[h]) <= Len(pushed'[h])
      BY <1>4 DEF Grows
    <3> QED BY <1>1, <3>1, <3>2
  <2> QED BY <1>1, <1>11, <2>1, <2>2, <2>3 DEF CrawlTyped, CrawlTypeOK, Tip
<1>7. ASSUME NEW s \in Requests
      PROVE  /\ Entry(s)' = Entry(s) /\ Fetched(s)' = Fetched(s)
             /\ HasFetched(s) => HasFetched(s)'
             /\ HasDate(s) => HasDate(s)'
  <2>1. Entry(s)' = Entry(s) /\ Fetched(s)' = Fetched(s)
    BY <1>1 DEF Entry, Fetched
  <2>2. Repo[Entry(s)] \in Repos
    BY RunTypes
  <2>3. HasFetched(s) => HasFetched(s)'
    <3>1. /\ Len(pushed[Repo[Entry(s)]]) \in Nat
          /\ Len(pushed'[Repo[Entry(s)]]) \in Nat
          /\ Len(pushed[Repo[Entry(s)]]) <= Len(pushed'[Repo[Entry(s)]])
      BY <1>4, <2>2 DEF Grows
    <3> QED BY <1>1, <2>1, <3>1 DEF HasFetched, Tip
  <2>4. HasDate(s) => HasDate(s)'
    <3>1. HasDate(s) => MirroredFrom(pushed', overtaken', Fetched(s), when[s])
      BY <1>4, <1>11, MirroredStays DEF HasDate
    <3>2. HasDate(s)' = MirroredFrom(pushed', overtaken', Fetched(s), when[s])
      BY <1>1, <2>1 DEF HasDate, MirroredFrom
    <3> QED BY <3>1, <3>2
  <2> QED BY <2>1, <2>3, <2>4
<1>8. Found' /\ FoundDate'
  BY <1>1, <1>7 DEF Found, FoundDate
<1>9. Upstream' /\ Carried'
  BY <1>1, <1>4, <1>11, UpstreamGrows
<1>10. ReportIsTrue'
  BY <1>1 DEF ReportIsTrue
<1>12. Noticed'
  <2> SUFFICES ASSUME NEW s \in Requests, NEW i \in Items, Undated(s, i),
                      cache[s][Repo[List[i]]] \notin {0, None},
                      Tree(List[i], cache[s][Repo[List[i]]]) \in Contents,
                      NEW m \in (cache[s][Repo[List[i]]] + 1)..Len(pushed'[Repo[List[i]]]),
                      Touches(List[i], m)
               PROVE  Tree(List[i], cache[s][Repo[List[i]]]) \in overtaken'
    BY <1>1 DEF Noticed, NoticedFor, Undated, Tip
  <2>1. Repo[List[i]] \in Repos
    BY Lists
  <2>2. CASE m \in (cache[s][Repo[List[i]]] + 1)..Len(pushed[Repo[List[i]]])
    <3>1. NoticedFor(s, cache[s])
      BY DEF Noticed
    <3> QED BY <1>11, <2>2, <3>1 DEF NoticedFor, Tip
  <2>3. CASE m \notin (cache[s][Repo[List[i]]] + 1)..Len(pushed[Repo[List[i]]])
    <3>1. cache[s][Repo[List[i]]] \in 1..Len(pushed[Repo[List[i]]])
      BY <2>1 DEF CrawlTyped, CrawlTypeOK, Tip
    <3>2. Len(pushed[Repo[List[i]]]) \in Nat /\ Len(pushed'[Repo[List[i]]]) \in Nat
      BY <1>4, <2>1 DEF Grows
    <3>3. Repo[List[i]] = g
      BY <1>3, <2>1, <2>3
    <3>4. m = Tip(g) + 1
      BY <1>3, <2>3, <3>1, <3>2, <3>3 DEF Tip
    <3>5. Holds(s, i, Tree(List[i], cache[s][Repo[List[i]]]))
      BY DEF Holds
    <3> QED BY <1>1, <3>3, <3>4, <3>5
  <2> QED BY <2>2, <2>3
<1> QED BY <1>5, <1>6, <1>8, <1>9, <1>10, <1>12

-----------------------------------------------------------------------------
(***************************************************************************)
(* The invariant                                                           *)
(***************************************************************************)
LEMMA InitCInv == CrawlInit => IInv /\ CInv
<1> SUFFICES ASSUME CrawlInit PROVE IInv /\ CInv
  OBVIOUS
<1>1. IInv
  BY InitIInv DEF CrawlInit
<1>2. /\ pushed \in [Repos -> Seq(Nat)]
      /\ \A g \in Repos : pushed[g] \in Seq(Nat) /\ Tip(g) = 1 /\ pushed[g][1] = 1
  BY DEF CrawlInit, Tip
<1>3. CrawlTyped
  BY <1>2, Lists, CrawlAssumption DEF CrawlInit, CrawlTyped, CrawlTypeOK, Stages
<1>4. Aged
  BY <1>2 DEF Aged
<1>5. Found /\ FoundDate /\ ReportIsTrue
  BY DEF CrawlInit, Found, FoundDate, ReportIsTrue, Fetching
<1>6. Carried /\ Upstream
  BY DEF CrawlInit, Init, Carried, Upstream, InFlight, Uploading, Recording, InTransaction
<1>7. Noticed
  BY Lists DEF CrawlInit, Noticed, NoticedFor
<1> QED BY <1>1, <1>3, <1>4, <1>5, <1>6, <1>7 DEF CInv

LEMMA NextCInv ==
  ASSUME IInv, CInv, [CrawlNext]_<<vars, crawlVars>>
  PROVE  IInv' /\ CInv'
<1>1. IInv' /\ RowsKept
  BY RegistryKept
<1>2. ASSUME UNCHANGED <<vars, pushed, histories>>, RunsInv'
      PROVE  CInv'
  BY <1>2 DEF vars, histories, CInv, RunsInv, Aged, Tip, Carried, Upstream
<1>3. ASSUME NEW r \in Requests, Looking(r)
      PROVE  CInv'
  BY <1>2, <1>3, LookingStep DEF CInv, RunsInv
<1>4. CASE \E r \in Requests : \/ Looking(r) \/ Publish(r) \/ Finishing(r)
                               \/ Handle(r) /\ UNCHANGED crawlVars
                               \/ HandlerFails(r)
  BY <1>1, <1>3, <1>4, PublishStep, FinishingStep, HandleStep, HandlerFailsStep
<1>5. CASE \E g \in Repos : Push(g)
  BY <1>1, <1>5, PushStep
<1>6. CASE Refill \/ (UNCHANGED vars /\ UNCHANGED crawlVars)
  <2>1. /\ UNCHANGED <<vars, pushed, at, item, cache, when, report, overtaken, cutOff>>
        /\ tokens' \in 0..Burst
    BY <1>6, CrawlAssumption DEF Refill, crawlVars, histories, CInv, CrawlTyped, CrawlTypeOK
  <2>2. CrawlTyped'
    BY <2>1 DEF CInv, CrawlTyped, CrawlTypeOK, Tip
  <2>3. Found' /\ FoundDate'
    <3>1. \A s \in Requests : /\ HasFetched(s)' = HasFetched(s)
                              /\ HasDate(s)' = HasDate(s)
      BY <2>1 DEF HasFetched, HasDate, MirroredFrom, Fetched, Entry, Tip
    <3> QED BY <2>1, <3>1 DEF CInv, Found, FoundDate
  <2>4. ReportIsTrue'
    BY <2>1 DEF CInv, ReportIsTrue, vars
  <2>5. Noticed'
    BY <2>1 DEF CInv, Noticed, NoticedFor, Undated, Tip
  <2>6. UNCHANGED <<vars, pushed, histories>>
    BY <2>1 DEF histories
  <2> QED BY <1>1, <1>2, <2>2, <2>3, <2>4, <2>5, <2>6 DEF RunsInv
<1> QED BY <1>4, <1>5, <1>6, Steps

\* The conjunction that all of this module's results rest on is inductive,
\* together with the invariant of the registry that the crawler publishes to.
THEOREM CrawlInvariance == CrawlSpec => [](IInv /\ CInv)
<1>1. CrawlInit => IInv /\ CInv
  BY InitCInv
<1>2. (IInv /\ CInv) /\ [CrawlNext]_<<vars, crawlVars>> => (IInv /\ CInv)'
  BY NextCInv
<1> QED BY <1>1, <1>2, PTL DEF CrawlSpec

\* The runs of the crawler keep their types, a commit that was fetched exists,
\* and the publish limiter never gives a token that it has not.
THEOREM CrawlTypesHold == CrawlSpec => []CrawlTypeOK
<1>1. CInv => CrawlTypeOK
  BY DEF CInv, CrawlTyped
<1> QED BY <1>1, CrawlInvariance, PTL

\* A run only reports versions as published that are in the registry: found
\* there, published by it, or by the run that won the race for a 409.
THEOREM ReportsAreTrue == CrawlSpec => []ReportIsTrue
<1>1. CInv => ReportIsTrue
  BY DEF CInv
<1> QED BY <1>1, CrawlInvariance, PTL

\* A mirrored version has the date of the commit that made its content, unless a
\* push touched the plugin between the fetch and the question of some run that
\* had that content, and then it has the date of a later commit of the plugin; it is
\* always given, so the registry never puts the time of the crawl in its place.
THEOREM DatesAreUpstream == CrawlSpec => []DateIsUpstream
<1>1. CInv => DateIsUpstream
  BY DEF CInv, Upstream, MirroredFrom, DateIsUpstream, Tip
<1> QED BY <1>1, CrawlInvariance, PTL

-----------------------------------------------------------------------------
(***************************************************************************)
(* The registry, when crawlers publish into it                             *)
(***************************************************************************)

\* Only a run's handler that is cut off leaves a tarball that nobody will record,
\* and then the key is remembered.
LEMMA OrphansRemembered ==
  ASSUME BlobDriver = "fs", MetaDriver = "sqlite",
         IInv, NoOrphan, [CrawlNext]_<<vars, crawlVars>>
  PROVE  NoOrphan'
<1>1. cutOff \subseteq cutOff'
  BY DEF CrawlNext, Proceed, Stumble, StartCrawl, Fetch, Check, LastCommitDate, Publish,
         TooMany, Answer, GithubFails, CheckFails, PublishFails, AnswerLost, HandlerFails,
         Push, Refill, crawlVars, histories
<1> SUFFICES ASSUME NEW k \in Keys, ~Orphan(k), Orphan(k)'
             PROVE  k \in cutOff'
  BY <1>1 DEF NoOrphan
<1>2. ASSUME [Next]_vars
      PROVE  \E r \in Requests : Fail(r) /\ pc[r] \in Recording /\ Key(r) = k
  BY <1>2, OrphanStep
<1>3. ~Dropping
  <2> SUFFICES ASSUME NEW r \in Requests, pc[r] = "done", Hangup(r) PROVE FALSE
    BY DEF Dropping
  <2>1. /\ UNCHANGED <<blobs, versions>> /\ pc[r] \notin Recording
        /\ \A s \in Requests \ {r} : pc'[s] = pc[s] /\ Key(s)' = Key(s)
    BY DEF Hangup, stores, Key, IInv, TypeOK, Recording, InTransaction
  <2> QED BY <2>1 DEF Orphan
<1>4. PICK r \in Requests : Fail(r) /\ pc[r] \in Recording /\ Key(r) = k
  BY <1>2, <1>3, AsTheRegistrySees
<1>5. pc[r] \in InFlight /\ pc'[r] = "done"
  BY <1>4, FailFrame
<1>6. ASSUME NEW s \in Requests, HandlerFails(s) PROVE k \in cutOff'
  <2>1. s = r
    BY <1>5, <1>6, FailFrame DEF HandlerFails, InFlight, Uploading, Recording, InTransaction
  <2> QED BY <1>4, <1>6, <2>1 DEF HandlerFails
<1>7. ASSUME NEW s \in Requests, Handle(s) PROVE FALSE
  BY <1>7, HandlersRecord
<1>8. ASSUME NEW s \in Requests, Publish(s) PROVE FALSE
  <2>1. pc[s] \in {"idle", "done"} /\ \A q \in Requests \ {s} : pc'[q] = pc[q]
    BY <1>8, StartFrame DEF Publish, IInv
  <2> QED BY <1>5, <2>1 DEF InFlight, Uploading, Recording, InTransaction
<1>9. pc' # pc
  BY <1>5 DEF InFlight, Uploading, Recording, InTransaction
<1>10. ~(\E s \in Requests : Looking(s)) /\ ~Refill /\ ~(UNCHANGED vars)
  BY <1>9 DEF Looking, Refill, vars
<1>11. ~(\E g \in Repos : Push(g))
  BY <1>9 DEF Push, Tick
<1>12. ~(\E s \in Requests : Finishing(s))
  BY <1>3 DEF Finishing, Answer, AnswerLost, Dropping
<1> QED BY <1>6, <1>7, <1>8, <1>10, <1>11, <1>12, Steps

\* With the file system and SQLite every tarball without a row, and without a
\* handler on the way to it, was left by a handler that was cut off: overlapping
\* runs are in each other's way at most.
THEOREM CrawlersOrphanNothing ==
  BlobDriver = "fs" /\ MetaDriver = "sqlite" => (CrawlSpec => []NoOrphan)
<1> SUFFICES ASSUME BlobDriver = "fs", MetaDriver = "sqlite"
             PROVE  CrawlSpec => []NoOrphan
  OBVIOUS
<1>1. CrawlInit => NoOrphan
  BY DEF CrawlInit, Init, NoOrphan, Orphan
<1>2. (IInv /\ CInv) /\ NoOrphan /\ [CrawlNext]_<<vars, crawlVars>> => NoOrphan'
  BY OrphansRemembered
<1> QED BY <1>1, <1>2, CrawlInvariance, PTL DEF CrawlSpec

\* The version that r publishes is recorded, or somebody else is about to, or an
\* earlier publish of it was cut off.
Beaten(r) == \/ versions[Key(r)] # None
             \/ \E s \in Requests \ {r} : pc[s] \in Recording /\ Key(s) = Key(r)
             \/ Key(r) \in cutOff

LEMMA ErrorStep ==
  ASSUME BlobDriver = "fs", MetaDriver = "sqlite",
         IInv, NoOrphan, [CrawlNext]_<<vars, crawlVars>>, NEW r \in Requests, ErrsNow(r)
  PROVE  Beaten(r)
<1> USE DEF IInv, ErrsNow, Beaten
<1>1. Handle(r)
  <2>1. ASSUME NEW s \in Requests, Publish(s) PROVE FALSE
    <3>1. /\ \A q \in Requests \ {s} : answer'[q] = answer[q]
          /\ answer'[s].code \in {"none", "forbidden", "invalid"}
      BY <2>1, StartFrame DEF Publish
    <3> QED BY <3>1
  <2>2. ASSUME NEW s \in Requests, Handle(s) PROVE s = r
    BY <2>2, Frame
  <2>3. ASSUME NEW s \in Requests, HandlerFails(s) PROVE FALSE
    BY <2>3, FailFrame DEF HandlerFails
  <2>4. ASSUME NEW s \in Requests, Finishing(s) PROVE FALSE
    BY <2>4 DEF Finishing, Answer, AnswerLost, Hangup, TypeOK
  <2>5. answer' # answer
    OBVIOUS
  <2>6. ~(\E s \in Requests : Looking(s)) /\ ~Refill /\ ~(UNCHANGED vars)
    BY <2>5 DEF Looking, Refill, vars
  <2>7. ~(\E g \in Repos : Push(g))
    BY <2>5 DEF Push, Tick
  <2> QED BY <2>1, <2>2, <2>3, <2>4, <2>6, <2>7, Steps
<1>2. pc[r] \in Recording => pc[r] = "upsert"
  BY DEF OwnDriver
<1>3. Key(r) \in Keys
  BY <1>1, HandlerTypes, KeyInKeys
<1>4. CASE FsPut(r)
  <2>1. blobs[Key(r)] # None
    BY <1>4 DEF FsPut, Goto
  <2>2. pc[r] \notin Recording
    BY <1>4 DEF FsPut, Recording, InTransaction
  <2> QED BY <1>3, <2>1, <2>2 DEF NoOrphan, Orphan
<1>5. CASE SqliteUpsert(r)
  BY <1>5 DEF SqliteUpsert, Goto, Reply, TypeOK
<1>6. ~FinalGetVersion(r)
  BY DEF FinalGetVersion, Reply, OwnRow, TypeOK
<1>7. ~PreCheck(r)
  BY DEF PreCheck, Goto, Reply, TypeOK
<1> QED
  BY <1>1, <1>2, <1>4, <1>5, <1>6, <1>7
  DEF Handle, Put, Upsert, OwnDriver, Recording, InTransaction, S3Head, S3PutObject,
      PgCountVersions, PgCountPlugins, PgInsertPlugin, PgUpdatePlugin,
      PgInsertVersion, PgCommit

\* With the file system and SQLite a run is answered 500, no call having failed,
\* only when somebody has the version, or is about to, or when an earlier publish of
\* it was cut off.
THEOREM CrawlersAreOnlyBeaten ==
  BlobDriver = "fs" /\ MetaDriver = "sqlite" => (CrawlSpec => ErrorMeansBeaten)
<1> SUFFICES ASSUME BlobDriver = "fs", MetaDriver = "sqlite"
             PROVE  CrawlSpec => ErrorMeansBeaten
  OBVIOUS
<1>1. (IInv /\ CInv) /\ NoOrphan /\ [CrawlNext]_<<vars, crawlVars>> =>
        [\A r \in Requests : ErrsNow(r) =>
           \/ versions[Key(r)] # None
           \/ \E s \in Requests \ {r} : pc[s] \in Recording /\ Key(s) = Key(r)
           \/ Key(r) \in cutOff]_allVars
  BY ErrorStep DEF Beaten, allVars
<1> QED BY <1>1, CrawlersOrphanNothing, CrawlInvariance, PTL DEF CrawlSpec, ErrorMeansBeaten

\* What the registry promises about downloads it keeps with crawlers as its
\* publishers: overlapping runs fill one write-once table.
THEOREM CrawlersFillTheLedger == BlobDriver = "fs" => (CrawlSpec => ImplementsLedger)
<1> SUFFICES ASSUME BlobDriver = "fs"
             PROVE  CrawlSpec => Ledger!Spec
  BY DEF ImplementsLedger
<1>1. CrawlInit => Ledger!Init
  BY LedgerInit DEF CrawlInit
<1>2. ASSUME IInv, [CrawlNext]_<<vars, crawlVars>>
      PROVE  [Ledger!Next]_<<served, plugins>>
  <2>1. CASE [Next]_vars
    <3>1. Staged /\ Staged'
      BY <1>2, <2>1, NextIInv DEF IInv, FsStaged
    <3> QED BY <1>2, <2>1, <3>1, LedgerStep
  <2>2. CASE Dropping
    BY <2>2 DEF Dropping, Hangup, stores, served
  <2> QED BY <1>2, <2>1, <2>2, AsTheRegistrySees
<1>3. (IInv /\ CInv) /\ [CrawlNext]_<<vars, crawlVars>> => [Ledger!Next]_(Ledger!vars)
  BY <1>2 DEF Ledger!vars
<1> QED BY <1>1, <1>3, CrawlInvariance, PTL DEF CrawlSpec, Ledger!Spec
=============================================================================
