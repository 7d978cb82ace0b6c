------------------------------- MODULE Listing -------------------------------
(***************************************************************************)
(* Finding plugins in the SQLite store: the full-text index over the table *)
(* plugins, which triggers keep and a migration once fills for the rows    *)
(* that were there before it, and the reads that use the one connection of *)
(* the pool, a query at a time, while versions are published.              *)
(*                                                                         *)
(* Two processes open the database: the server, and krate-server -backup,  *)
(* which opens it in the same way, migration included, before it copies    *)
(* it.  A plugin's row is its latest version, which stands for the         *)
(* description that came with it.                                          *)
(***************************************************************************)
EXTENDS Naturals, FiniteSets

CONSTANTS Plugins, Versions,
          Readers,      \* searches and plugin pages being served at once
          None

ASSUME ListingAssumption == None \notin Versions \cup Readers

Processes == {"server", "backup"}
Stages == {"down", "record", "rebuild", "up"}

VARIABLES
    row,        \* [Plugins -> Versions \cup {None}], table plugins
    recorded,   \* [Plugins -> SUBSET Versions], table versions
    migrated,   \* is the backfill in schema_migrations?
    index,      \* [Plugins -> Versions \cup {None}], what plugins_fts holds
    stage,      \* [Processes -> Stages], how far Open got
    conn,       \* the reader whose open rows hold the connection, or None
    reader,     \* the search or page each reader is serving, or None
    \* Histories that only the properties read:
    lost,       \* was the rebuild cut off?
    older       \* plugins that nothing was published of since the triggers exist

database == <<row, recorded, migrated, index>>
history == <<lost, older>>
vars == <<row, recorded, migrated, index, stage, conn, reader, lost, older>>

Unindexed == [p \in Plugins |-> None]

\* The database may be new, or older than the index.
Init ==
    /\ row \in [Plugins -> Versions \cup {None}]
    /\ recorded = [p \in Plugins |-> {row[p]} \ {None}]
    /\ migrated = FALSE
    /\ index = Unindexed
    /\ stage = [x \in Processes |-> "down"]
    /\ conn = None
    /\ reader = [r \in Readers |-> None]
    /\ lost = FALSE
    /\ older = {p \in Plugins : row[p] # None}

-----------------------------------------------------------------------------
(***************************************************************************)
(* Opening the database                                                    *)
(***************************************************************************)
Reach(x, s) == stage' = [stage EXCEPT ![x] = s]

\* The rebuild is recorded and has not happened yet.
Pending == \E x \in Processes : stage[x] = "rebuild"

\* schemaSQL creates what does not exist: from here on the triggers are there.
ApplySchema(x) ==
    /\ stage[x] = "down"
    /\ Reach(x, "record")
    /\ UNCHANGED <<row, recorded, migrated, index, conn, reader, history>>

\* INSERT OR IGNORE INTO schema_migrations: only who inserts it rebuilds.
RecordMigration(x) ==
    /\ stage[x] = "record"
    /\ migrated' = TRUE
    /\ Reach(x, IF migrated THEN "up" ELSE "rebuild")
    /\ UNCHANGED <<row, recorded, index, conn, reader, history>>

\* (A bug: only the rows that a query of plugins_fts misses are indexed, and
\* such a query reads through to plugins.)
RebuildMissing(x) ==
    /\ stage[x] = "rebuild"
    /\ Reach(x, "up")
    /\ UNCHANGED <<database, conn, reader, history>>

Rebuild(x) ==
    /\ stage[x] = "rebuild"
    /\ index' = row
    /\ Reach(x, "up")
    /\ UNCHANGED <<row, recorded, migrated, conn, reader, history>>

\* A process ends, by itself, by a failure of Open or by a crash, and its
\* connection and its requests with it.
Stop(x) ==
    /\ stage[x] # "down"
    /\ Reach(x, "down")
    /\ lost' = (lost \/ stage[x] = "rebuild")
    /\ IF x = "server"
         THEN conn' = None /\ reader' = [r \in Readers |-> None]
         ELSE UNCHANGED <<conn, reader>>
    /\ UNCHANGED <<database, older>>

-----------------------------------------------------------------------------
(***************************************************************************)
(* Publishing                                                              *)
(***************************************************************************)
Serving == stage["server"] = "up"

\* The triggers.  On UPDATE, the old text is first deleted from the index: when
\* it is not there, FTS5 may find that out, and must if the index is empty
\* ("database disk image is malformed").
IndexRow(p, v) ==
    /\ row[p] # None => index # Unindexed
    /\ index' = [index EXCEPT ![p] = v]

\* (A bug: the plugin and its version are written by two transactions.)
UpsertInTwo(p, v) ==
    /\ Serving
    /\ conn = None
    /\ v \notin recorded[p]
    /\ IndexRow(p, v)
    /\ row' = [row EXCEPT ![p] = v]
    /\ recorded' = IF row[p] = v THEN [recorded EXCEPT ![p] = @ \cup {v}] ELSE recorded
    /\ older' = older \ {p}
    /\ UNCHANGED <<migrated, stage, conn, reader, lost>>

\* UpsertPluginAndVersion, alone on the connection.
Upsert(p, v) ==
    /\ Serving
    /\ conn = None
    /\ v \notin recorded[p]
    /\ IndexRow(p, v)
    /\ row' = [row EXCEPT ![p] = v]
    /\ recorded' = [recorded EXCEPT ![p] = @ \cup {v}]
    /\ older' = older \ {p}
    /\ UNCHANGED <<migrated, stage, conn, reader, lost>>

-----------------------------------------------------------------------------
(***************************************************************************)
(* Reading.  Every query waits for the connection.                         *)
(***************************************************************************)
Serve(r, job) == reader' = [reader EXCEPT ![r] = job]
At(r, place) == reader[r] # None /\ reader[r].at = place
Query(r, place) == At(r, place) /\ conn = None
ReadsOnly == UNCHANGED <<database, stage, history>>

StartSearch(r) ==
    /\ Serving
    /\ reader[r] = None
    /\ Serve(r, [at |-> "search", left |-> {}])
    /\ UNCHANGED conn
    /\ ReadsOnly

\* Search: the rows of the first query hold the connection ...
SearchPlugins(r) ==
    /\ Query(r, "search")
    /\ conn' = r
    /\ Serve(r, [at |-> "rows", left |-> {p \in Plugins : index[p] # None}])
    /\ ReadsOnly

\* (A bug: the keywords are queried while the first rows are still open.)
KeepRows(r) ==
    /\ At(r, "rows")
    /\ Serve(r, [reader[r] EXCEPT !.at = "keywords"])
    /\ UNCHANGED conn
    /\ ReadsOnly

\* ... until the last one has been read ...
ExhaustRows(r) ==
    /\ At(r, "rows")
    /\ conn' = None
    /\ Serve(r, [reader[r] EXCEPT !.at = "keywords"])
    /\ ReadsOnly

\* ... and then each plugin's keywords take a query, which closes its rows.
SearchKeywords(r) ==
    /\ At(r, "keywords")
    /\ \/ reader[r].left = {} /\ Serve(r, None)
       \/ /\ conn = None
          /\ \E p \in reader[r].left :
                Serve(r, [reader[r] EXCEPT !.left = @ \ {p}])
    /\ UNCHANGED conn
    /\ ReadsOnly

StartPage(r) ==
    /\ Serving
    /\ reader[r] = None
    /\ \E p \in Plugins :
         Serve(r, [at |-> "plugin", plugin |-> p, latest |-> None, list |-> {}, shown |-> None])
    /\ UNCHANGED conn
    /\ ReadsOnly

\* GetPlugin; a plugin that is not there is answered 404.
PagePlugin(r) ==
    /\ Query(r, "plugin")
    /\ LET j == reader[r] IN
       Serve(r, IF row[j.plugin] = None THEN None
                ELSE [j EXCEPT !.at = "list", !.latest = row[j.plugin]])
    /\ UNCHANGED conn
    /\ ReadsOnly

PageVersions(r) ==
    /\ Query(r, "list")
    /\ Serve(r, [reader[r] EXCEPT !.at = "resolve", !.list = recorded[reader[r].plugin]])
    /\ UNCHANGED conn
    /\ ReadsOnly

\* ResolveVersion of the page's version, which is "latest" unless the visitor
\* asks for one that is listed: once more the plugin ...
PageResolve(r) ==
    /\ Query(r, "resolve")
    /\ \E v \in {row[reader[r].plugin]} \cup reader[r].list :
         Serve(r, [reader[r] EXCEPT !.at = "version", !.shown = v])
    /\ UNCHANGED conn
    /\ ReadsOnly

\* ... and its version.
PageVersion(r) ==
    /\ Query(r, "version")
    /\ Serve(r, None)
    /\ UNCHANGED conn
    /\ ReadsOnly

Read(r) ==
    \/ SearchPlugins(r) \/ ExhaustRows(r) \/ SearchKeywords(r)
    \/ PagePlugin(r) \/ PageVersions(r) \/ PageResolve(r) \/ PageVersion(r)

Next ==
    \/ \E x \in Processes : ApplySchema(x) \/ RecordMigration(x) \/ Rebuild(x) \/ Stop(x)
    \/ \E p \in Plugins, v \in Versions : Upsert(p, v)
    \/ \E r \in Readers : StartSearch(r) \/ StartPage(r) \/ Read(r)

Spec == Init /\ [][Next]_vars

\* database/sql gives a freed connection to one of the requests that wait for
\* it, picked at random: who waits gets it at last, with probability one.  That
\* nobody waits for a connection it holds itself does not rest on this.
Fairness == \A r \in Readers : SF_vars(Read(r))

FairSpec == Spec /\ Fairness

-----------------------------------------------------------------------------
(***************************************************************************)
(* Properties                                                              *)
(***************************************************************************)

\* The full-text index never holds the text of an older version, and has every
\* plugin of which something was published since the triggers exist, also while
\* a rebuild is still to come or was cut off.  A server that is up finds the
\* rows that were there before in it too, whichever process migrated the
\* database, unless the one rebuild there is (sqlite.go:163) has not ended: it
\* is under way in another process, or it was cut off and is not done again.
IndexIsTrue ==
    /\ \A p \in Plugins : index[p] \in {None, row[p]}
    /\ \A p \in Plugins \ older : index[p] = row[p]
    /\ Serving /\ ~lost /\ ~Pending => index = row

\* What the migration is there for (sqlite.go:149, rows that predate the index
\* would otherwise be "permanently missing from search"; sqlite.go:163, "that
\* full reindex runs exactly once"): once no rebuild is under way, a server
\* that is up finds every plugin.  The code breaks it: a process that ends
\* after it recorded the migration and before it rebuilt the index leaves the
\* rebuild to nobody.
NothingMissing == Serving /\ ~Pending => index = row

\* The answers of handleGetPlugin and handlePlugin, put together from queries
\* between which versions are published, agree: the latest version is
\* in the list of versions, and the version the page then shows exists.
PageIsConsistent ==
    \A r \in Readers :
        /\ At(r, "resolve") \/ At(r, "version") => reader[r].latest \in reader[r].list
        /\ At(r, "version") => reader[r].shown \in recorded[reader[r].plugin]

\* Every search and every page comes to its end: no reader waits for a
\* connection that it holds itself.
ReadsAreAnswered == \A r \in Readers : reader[r] # None ~> reader[r] = None
=============================================================================
