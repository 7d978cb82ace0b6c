---------------------------- MODULE ListingProofs ----------------------------
(***************************************************************************)
(* The full-text index and the plugin pages, proved for any plugins, any   *)
(* versions and any number of readers.                                     *)
(*                                                                         *)
(* The index needs one fact that the property does not state: who is past  *)
(* the rebuild finds the migration recorded.  A page needs that the table  *)
(* versions never forgets and always holds the plugin's row, so what a     *)
(* query found is still there when the next one looks.                     *)
(***************************************************************************)
EXTENDS Listing, TLAPS

SearchJobs == [at : {"search", "rows", "keywords"}, left : SUBSET Plugins]
PageJobs == [at : {"plugin", "list", "resolve", "version"},
             plugin : Plugins,
             latest : Versions \cup {None},
             list : SUBSET Versions,
             shown : Versions \cup {None}]

TablesTyped ==
    /\ row \in [Plugins -> Versions \cup {None}]
    /\ recorded \in [Plugins -> SUBSET Versions]
    /\ index \in [Plugins -> Versions \cup {None}]
    /\ stage \in [Processes -> Stages]
    /\ migrated \in BOOLEAN
    /\ lost \in BOOLEAN
    /\ older \in SUBSET Plugins

ReadersTyped == reader \in [Readers -> SearchJobs \cup PageJobs \cup {None}]

\* A plugin's row is one of its versions, and there is one if it has any.
RowRecorded ==
    \A p \in Plugins : /\ row[p] # None => row[p] \in recorded[p]
                       /\ row[p] = None => recorded[p] = {}

\* Past the rebuild the migration is recorded ...
PastMigration == \A x \in Processes : stage[x] \in {"rebuild", "up"} => migrated

\* ... and then only a rebuild still to come, or a lost one, excuses the index.
IndexFollows ==
    /\ \A p \in Plugins : index[p] \in {None, row[p]}
    /\ \A p \in Plugins \ older : index[p] = row[p]
    /\ migrated /\ ~lost /\ ~Pending => index = row

\* What a page has read of a plugin stays in the table versions.
PageFollows ==
    \A r \in Readers :
        LET j == reader[r] IN
        /\ At(r, "list") => j.latest \in recorded[j.plugin]
        /\ At(r, "resolve") \/ At(r, "version")
             => j.latest \in j.list /\ j.list \subseteq recorded[j.plugin]
        /\ At(r, "version") => j.shown \in recorded[j.plugin]

TablesInv == TablesTyped /\ RowRecorded /\ PastMigration /\ IndexFollows
PagesInv == ReadersTyped /\ PageFollows
IInv == TablesInv /\ PagesInv

-----------------------------------------------------------------------------
(***************************************************************************)
(* The tables and the index                                                *)
(***************************************************************************)
LEMMA InitIInv == Init => IInv
<1> SUFFICES ASSUME Init PROVE IInv
  OBVIOUS
<1>1. TablesTyped /\ RowRecorded
  BY DEF Init, TablesTyped, RowRecorded, Unindexed, Stages
<1>2. PastMigration /\ IndexFollows
  BY DEF Init, PastMigration, IndexFollows, Unindexed
<1>3. ReadersTyped /\ PageFollows
  BY DEF Init, ReadersTyped, PageFollows, At
<1> QED BY <1>1, <1>2, <1>3 DEF IInv, TablesInv, PagesInv

LEMMA OpenStep ==
  ASSUME TablesInv, NEW x \in Processes,
         ApplySchema(x) \/ RecordMigration(x) \/ Rebuild(x) \/ Stop(x)
  PROVE  TablesInv'
<1> USE DEF TablesInv, TablesTyped
<1>1. TablesTyped' /\ RowRecorded'
  BY DEF ApplySchema, RecordMigration, Rebuild, Stop, Reach, RowRecorded, Stages, database, history
<1>2. PastMigration'
  BY DEF ApplySchema, RecordMigration, Rebuild, Stop, Reach, PastMigration, Stages, database, history
<1>3. IndexFollows'
  <2>1. CASE ApplySchema(x)
    BY <2>1 DEF ApplySchema, Reach, IndexFollows, Pending, history
  <2>2. CASE RecordMigration(x)
    BY <2>2 DEF RecordMigration, Reach, IndexFollows, Pending, history
  <2>3. CASE Rebuild(x)
    BY <2>3 DEF Rebuild, Reach, IndexFollows, history
  <2>4. CASE Stop(x)
    BY <2>4 DEF Stop, Reach, IndexFollows, Pending, database, history
  <2> QED BY <2>1, <2>2, <2>3, <2>4
<1> QED BY <1>1, <1>2, <1>3

LEMMA UpsertStep ==
  ASSUME TablesInv, NEW p \in Plugins, NEW v \in Versions, Upsert(p, v)
  PROVE  TablesInv'
<1> USE DEF TablesInv, TablesTyped
<1>1. /\ row' = [row EXCEPT ![p] = v]
      /\ index' = [index EXCEPT ![p] = v]
      /\ recorded' = [recorded EXCEPT ![p] = @ \cup {v}]
      /\ older' = older \ {p}
      /\ UNCHANGED <<migrated, stage, lost>>
      /\ Serving
  BY DEF Upsert, IndexRow
<1>2. TablesTyped' /\ PastMigration'
  BY <1>1 DEF PastMigration
<1>3. RowRecorded'
  BY <1>1, ListingAssumption DEF RowRecorded
<1>4. IndexFollows'
  <2>1. \A q \in Plugins : q # p => row'[q] = row[q] /\ index'[q] = index[q]
    BY <1>1
  <2>2. row'[p] = v /\ index'[p] = v
    BY <1>1
  <2>3. migrated /\ ~lost /\ ~Pending => index' = row'
    BY <1>1 DEF IndexFollows
  <2> QED BY <1>1, <2>1, <2>2, <2>3 DEF IndexFollows, Pending
<1> QED BY <1>2, <1>3, <1>4

LEMMA TablesQuiet ==
  ASSUME TablesInv, UNCHANGED <<database, stage, history>>
  PROVE  TablesInv'
BY DEF database, history, TablesInv, TablesTyped, RowRecorded, PastMigration, IndexFollows, Pending

-----------------------------------------------------------------------------
(***************************************************************************)
(* The readers                                                             *)
(***************************************************************************)

\* What a reader found stays true while the versions only grow.
LEMMA PagesGrow ==
  ASSUME PagesInv, UNCHANGED reader, \A p \in Plugins : recorded[p] \subseteq recorded'[p]
  PROVE  PagesInv'
<1>1. ReadersTyped'
  BY DEF PagesInv, ReadersTyped
<1>2. PageFollows'
  <2> SUFFICES ASSUME NEW r \in Readers, reader[r] # None,
                      reader[r].at \in {"list", "resolve", "version"}
               PROVE  LET j == reader[r] IN
                      /\ j.at = "list" => j.latest \in recorded'[j.plugin]
                      /\ j.at = "resolve" \/ j.at = "version"
                           => j.latest \in j.list /\ j.list \subseteq recorded'[j.plugin]
                      /\ j.at = "version" => j.shown \in recorded'[j.plugin]
    BY DEF PageFollows, At
  <2>1. reader[r] \in PageJobs
    BY DEF PagesInv, ReadersTyped, SearchJobs
  <2>2. reader[r].plugin \in Plugins
    BY <2>1 DEF PageJobs
  <2> QED BY <2>2 DEF PagesInv, PageFollows, At
<1> QED BY <1>1, <1>2 DEF PagesInv

\* A reader that is served anew disturbs no other.
LEMMA OneReader ==
  ASSUME PagesInv, UNCHANGED recorded, NEW r \in Readers,
         NEW job \in SearchJobs \cup PageJobs \cup {None}, Serve(r, job),
         job # None /\ job.at = "list" => job.latest \in recorded[job.plugin],
         job # None /\ job.at \in {"resolve", "version"}
           => job.latest \in job.list /\ job.list \subseteq recorded[job.plugin],
         job # None /\ job.at = "version" => job.shown \in recorded[job.plugin]
  PROVE  PagesInv'
<1>1. ReadersTyped'
  BY DEF PagesInv, ReadersTyped, Serve
<1>2. PageFollows'
  <2> SUFFICES ASSUME NEW q \in Readers
               PROVE (LET j == reader[q] IN
                      /\ At(q, "list") => j.latest \in recorded[j.plugin]
                      /\ At(q, "resolve") \/ At(q, "version")
                           => j.latest \in j.list /\ j.list \subseteq recorded[j.plugin]
                      /\ At(q, "version") => j.shown \in recorded[j.plugin])'
    BY DEF PageFollows
  <2>1. CASE q = r
    <3>1. reader'[q] = job
      BY <2>1 DEF PagesInv, ReadersTyped, Serve
    <3> QED BY <3>1 DEF At
  <2>2. CASE q # r
    <3>1. reader'[q] = reader[q]
      BY <2>2 DEF PagesInv, ReadersTyped, Serve
    <3> QED BY <3>1 DEF PagesInv, PageFollows, At
  <2> QED BY <2>1, <2>2
<1> QED BY <1>1, <1>2 DEF PagesInv

LEMMA SearchStep ==
  ASSUME PagesInv, NEW r \in Readers,
         StartSearch(r) \/ SearchPlugins(r) \/ ExhaustRows(r) \/ SearchKeywords(r)
  PROVE  PagesInv'
<1>1. UNCHANGED recorded
  BY DEF StartSearch, SearchPlugins, ExhaustRows, SearchKeywords, ReadsOnly, database, history
<1>2. \E job \in SearchJobs \cup {None} : Serve(r, job)
  <2>1. CASE StartSearch(r)
    BY <2>1 DEF StartSearch, SearchJobs
  <2>2. CASE SearchPlugins(r)
    BY <2>2 DEF SearchPlugins, SearchJobs
  <2>3. CASE ExhaustRows(r)
    <3>1. reader[r] \in SearchJobs
      BY <2>3 DEF ExhaustRows, At, PagesInv, ReadersTyped, PageJobs
    <3> QED BY <2>3, <3>1 DEF ExhaustRows, SearchJobs
  <2>4. CASE SearchKeywords(r)
    <3>1. reader[r] \in SearchJobs
      BY <2>4 DEF SearchKeywords, At, PagesInv, ReadersTyped, PageJobs
    <3> QED BY <2>4, <3>1 DEF SearchKeywords, SearchJobs
  <2> QED BY <2>1, <2>2, <2>3, <2>4
<1>3. PICK job \in SearchJobs \cup {None} : Serve(r, job)
  BY <1>2
<1>4. job # None => job.at \notin {"list", "resolve", "version"}
  BY <1>3 DEF SearchJobs
<1> QED BY <1>1, <1>3, <1>4, OneReader

LEMMA PageStep ==
  ASSUME TablesInv, PagesInv, NEW r \in Readers,
         StartPage(r) \/ PagePlugin(r) \/ PageVersions(r) \/ PageResolve(r) \/ PageVersion(r)
  PROVE  PagesInv'
<1> DEFINE j == reader[r]
<1>1. UNCHANGED recorded
  BY DEF StartPage, PagePlugin, PageVersions, PageResolve, PageVersion, ReadsOnly, database, history
<1>2. CASE StartPage(r)
  <2>1. PICK p \in Plugins :
          Serve(r, [at |-> "plugin", plugin |-> p, latest |-> None, list |-> {}, shown |-> None])
    BY <1>2 DEF StartPage
  <2>2. [at |-> "plugin", plugin |-> p, latest |-> None, list |-> {}, shown |-> None] \in PageJobs
    BY DEF PageJobs
  <2> QED BY <1>1, <2>1, <2>2, OneReader
<1>3. ASSUME j # None, j.at \in {"plugin", "list", "resolve", "version"}
      PROVE  j \in PageJobs /\ j.plugin \in Plugins
  BY <1>3 DEF PagesInv, ReadersTyped, SearchJobs, PageJobs
<1>4. CASE PagePlugin(r)
  <2>1. j \in PageJobs /\ j.plugin \in Plugins
    BY <1>3, <1>4 DEF PagePlugin, Query, At
  <2>2. CASE row[j.plugin] = None
    <3>1. Serve(r, None)
      BY <1>4, <2>2 DEF PagePlugin
    <3> QED BY <1>1, <3>1, OneReader
  <2>3. CASE row[j.plugin] # None
    <3> DEFINE new == [j EXCEPT !.at = "list", !.latest = row[j.plugin]]
    <3>1. Serve(r, new)
      BY <1>4, <2>3 DEF PagePlugin
    <3>2. row[j.plugin] \in recorded[j.plugin] /\ row[j.plugin] \in Versions
      BY <2>1, <2>3 DEF TablesInv, TablesTyped, RowRecorded
    <3>3. /\ new \in PageJobs /\ new.at = "list"
          /\ new.latest = row[j.plugin] /\ new.plugin = j.plugin
      BY <2>1, <3>2 DEF PageJobs
    <3> HIDE DEF new
    <3> QED BY <1>1, <3>1, <3>2, <3>3, OneReader
  <2> QED BY <2>2, <2>3
<1>5. CASE PageVersions(r)
  <2>1. j \in PageJobs /\ j.plugin \in Plugins
    BY <1>3, <1>5 DEF PageVersions, Query, At
  <2> DEFINE new == [j EXCEPT !.at = "resolve", !.list = recorded[j.plugin]]
  <2>2. Serve(r, new)
    BY <1>5 DEF PageVersions
  <2>3. j.latest \in recorded[j.plugin] /\ recorded[j.plugin] \subseteq Versions
    BY <1>5, <2>1 DEF PageVersions, Query, At, PagesInv, PageFollows, TablesInv, TablesTyped
  <2>4. /\ new \in PageJobs /\ new.at = "resolve" /\ new.latest = j.latest
        /\ new.plugin = j.plugin /\ new.list = recorded[j.plugin]
    BY <2>1, <2>3 DEF PageJobs
  <2> HIDE DEF new
  <2> QED BY <1>1, <2>2, <2>3, <2>4, OneReader
<1>6. CASE PageResolve(r)
  <2>1. j \in PageJobs /\ j.plugin \in Plugins
    BY <1>3, <1>6 DEF PageResolve, Query, At
  <2>2. PICK v \in {row[j.plugin]} \cup j.list :
          Serve(r, [j EXCEPT !.at = "version", !.shown = v])
    BY <1>6 DEF PageResolve
  <2> DEFINE new == [j EXCEPT !.at = "version", !.shown = v]
  <2>3. j.latest \in j.list /\ j.list \subseteq recorded[j.plugin]
    BY <1>6, <2>1 DEF PageResolve, Query, At, PagesInv, PageFollows
  <2>4. v \in recorded[j.plugin] /\ recorded[j.plugin] \subseteq Versions
    BY <2>1, <2>3 DEF TablesInv, TablesTyped, RowRecorded
  <2>5. /\ new \in PageJobs /\ new.at = "version" /\ new.latest = j.latest
        /\ new.plugin = j.plugin /\ new.list = j.list /\ new.shown = v
    BY <2>1, <2>4 DEF PageJobs
  <2>6. Serve(r, new)
    BY <2>2
  <2> HIDE DEF new
  <2> QED BY <1>1, <2>3, <2>4, <2>5, <2>6, OneReader
<1>7. CASE PageVersion(r)
  <2>1. Serve(r, None)
    BY <1>7 DEF PageVersion
  <2> QED BY <1>1, <2>1, OneReader
<1> QED BY <1>2, <1>4, <1>5, <1>6, <1>7

-----------------------------------------------------------------------------
(***************************************************************************)
(* Theorems                                                                *)
(***************************************************************************)
LEMMA NextIInv == IInv /\ [Next]_vars => IInv'
<1> SUFFICES ASSUME IInv, [Next]_vars PROVE IInv'
  OBVIOUS
<1> USE DEF IInv
<1>1. ASSUME NEW x \in Processes,
             ApplySchema(x) \/ RecordMigration(x) \/ Rebuild(x) \/ Stop(x)
      PROVE  IInv'
  <2>1. TablesInv'
    BY <1>1, OpenStep
  <2>2. CASE UNCHANGED <<reader, recorded>>
    BY <2>1, <2>2, PagesGrow
  <2>3. CASE ~UNCHANGED <<reader, recorded>>
    <3>1. reader' = [r \in Readers |-> None]
      BY <1>1, <2>3 DEF ApplySchema, RecordMigration, Rebuild, Stop, database, history
    <3>2. PagesInv'
      BY <3>1 DEF PagesInv, ReadersTyped, PageFollows, At
    <3> QED BY <2>1, <3>2
  <2> QED BY <2>2, <2>3
<1>2. ASSUME NEW p \in Plugins, NEW v \in Versions, Upsert(p, v)
      PROVE  IInv'
  <2>1. TablesInv'
    BY <1>2, UpsertStep
  <2>2. \A q \in Plugins : recorded[q] \subseteq recorded'[q]
    <3>1. recorded' = [recorded EXCEPT ![p] = @ \cup {v}]
      BY <1>2 DEF Upsert
    <3> QED BY <3>1 DEF TablesInv, TablesTyped
  <2>3. UNCHANGED reader
    BY <1>2 DEF Upsert
  <2> QED BY <2>1, <2>2, <2>3, PagesGrow
<1>3. ASSUME NEW r \in Readers, StartSearch(r) \/ StartPage(r) \/ Read(r)
      PROVE  IInv'
  <2>1. UNCHANGED <<database, stage, history>>
    BY <1>3 DEF StartSearch, StartPage, Read, SearchPlugins, ExhaustRows, SearchKeywords,
                PagePlugin, PageVersions, PageResolve, PageVersion, ReadsOnly
  <2>2. TablesInv'
    BY <2>1, TablesQuiet
  <2>3. PagesInv'
    BY <1>3, SearchStep, PageStep DEF Read
  <2> QED BY <2>2, <2>3
<1>4. CASE UNCHANGED vars
  <2>1. TablesInv'
    BY <1>4, TablesQuiet DEF vars, database, history
  <2>2. PagesInv'
    BY <1>4, PagesGrow DEF vars, database, history
  <2> QED BY <2>1, <2>2
<1> QED BY <1>1, <1>2, <1>3, <1>4 DEF Next

\* The tables, the index, the migration and what every page has read of them
\* keep their relation through every opening, crash and publish.
THEOREM ListingInvariance == Spec => []IInv
<1>1. Init => IInv
  BY InitIInv
<1>2. IInv /\ [Next]_vars => IInv'
  BY NextIInv
<1> QED BY <1>1, <1>2, PTL DEF Spec

\* The index never holds an older text and always what was published since the
\* triggers exist, and a server that is up finds every plugin in it unless the
\* one rebuild is under way or was cut off.
THEOREM IndexStaysTrue == Spec => []IndexIsTrue
<1>1. IInv => IndexIsTrue
  BY DEF IInv, TablesInv, PastMigration, IndexFollows, IndexIsTrue, Serving, Processes
<1> QED BY <1>1, ListingInvariance, PTL

\* A page's latest version is in its list of versions, and the version it then
\* shows exists, whatever is published between its queries.
THEOREM PageStaysConsistent == Spec => []PageIsConsistent
<1>1. IInv => PageIsConsistent
  BY DEF IInv, PagesInv, PageFollows, PageIsConsistent
<1> QED BY <1>1, ListingInvariance, PTL
=============================================================================
