------------------------------- MODULE Registry -------------------------------
(***************************************************************************)
(* Publishing into the plugin registry.  A publish writes two stores that  *)
(* share no transaction: the tarball goes to the blob store, then a row    *)
(* goes to the metadata database.  Any number of publishes run at once, in *)
(* one server or in several replicas.                                      *)
(*                                                                         *)
(* BlobDriver is "fs" (internal/store/fsblob, a hard link that fails when  *)
(* the target exists) or "s3" (internal/store/s3blob, a HeadObject and     *)
(* later an unconditional PutObject).  MetaDriver is "sqlite" (one         *)
(* connection, so one transaction at a time) or "postgres" (a pool of      *)
(* connections, transactions at READ COMMITTED).                           *)
(*                                                                         *)
(* A tarball is its content: two tarballs with the same bytes are the same *)
(* element of Contents, and the SHA-256 recorded for a version is the      *)
(* content it was computed from.  Manifest gives the name and version in   *)
(* the plugin.json packed in a tarball.                                    *)
(***************************************************************************)
EXTENDS Naturals

CONSTANTS Requests,     \* publish requests being served at once
          Users, Names, Contents,
          Versions,     \* version strings a client may put in the URL
          SemVer,       \* those for which semver.IsValid("v" + version)
          Manifest,     \* [Contents -> Names \X Versions]
          BlobDriver, MetaDriver,
          Faults,       \* may calls fail, clients vanish, servers crash?
          Dates,        \* dates a request may give; Unset, that is 0, for none
          MaxTime,      \* bound on the clock, for TLC
          None

ASSUME ConstantsAssumption ==
    /\ SemVer \subseteq Versions
    /\ Manifest \in [Contents -> Names \X Versions]
    /\ BlobDriver \in {"fs", "s3"}
    /\ MetaDriver \in {"sqlite", "postgres"}
    /\ Faults \in BOOLEAN
    /\ Dates \subseteq Nat
    /\ MaxTime \in Nat

ASSUME NoneAssumption ==
    /\ None \notin Contents
    /\ None \notin Versions
    /\ None \notin Requests
    /\ None \notin [checksum : Contents, date : Nat]

\* A scope is the name of the user who owns it.
Plugins == Users \X Names
Keys == Plugins \X Versions

\* Dates are times of the clock; 0 is Go's zero time.Time, "not given".
Unset == 0

Rows == [checksum : Contents, date : Nat]
Inputs == [plugin : Plugins, version : Versions, content : Contents, date : Nat]
Codes == {"none",       \* not answered yet
          "created",    \* 201, with the recorded checksum
          "conflict",   \* 409
          "forbidden",  \* 403
          "invalid",    \* 422
          "error",      \* 500 that the handler's own logic produced
          "fault"}      \* 500, or nothing at all, because some call failed
Answers == [code : Codes, checksum : Contents \cup {None}]

\* Uploading holds no tarball in the blob store yet, Recording does.
Uploading == {"precheck", "put", "s3put"}
InTransaction == {"pgInsertVersion", "pgCommit"}
Recording == {"upsert", "pgCountPlugins", "pgInsertPlugin", "pgUpdatePlugin"}
             \cup InTransaction
InFlight == Uploading \cup Recording \cup {"final"}
Places == InFlight \cup {"idle", "done"}

VARIABLES
    versions,   \* table versions:  [Keys -> Rows \cup {None}]
    plugins,    \* table plugins:   [Plugins -> Versions \cup {None}], latest_version
    blobs,      \* the blob store:  [Keys -> Contents \cup {None}]
    rowLock,    \* [Plugins -> Requests \cup {None}], the open Postgres
                \* transaction that wrote the plugin's row
    pc,         \* where each request's handler is
    req,        \* what each request publishes
    answer,     \* the answer of each request
    now         \* the servers' clock

stores == <<versions, plugins, blobs, rowLock>>
vars == <<versions, plugins, blobs, rowLock, pc, req, answer, now>>

Init ==
    /\ versions = [k \in Keys |-> None]
    /\ plugins = [p \in Plugins |-> None]
    /\ blobs = [k \in Keys |-> None]
    /\ rowLock = [p \in Plugins |-> None]
    /\ pc = [r \in Requests |-> "idle"]
    /\ req = [r \in Requests |-> None]
    /\ answer = [r \in Requests |-> [code |-> "none", checksum |-> None]]
    /\ now = 1
-----------------------------------------------------------------------------
\* Helpers of the handlers

Key(r) == <<req[r].plugin, req[r].version>>

Goto(r, place) == /\ pc' = [pc EXCEPT ![r] = place]
                  /\ UNCHANGED <<req, answer, now>>

\* The handler of r answers and returns.
Reply(r, code, checksum) ==
    /\ pc' = [pc EXCEPT ![r] = "done"]
    /\ answer' = [answer EXCEPT ![r] = [code |-> code, checksum |-> checksum]]
    /\ UNCHANGED <<req, now>>

\* (A bug: the semantic version check is dropped.)
AcceptableAnyVersion(user, p, v, c, d) ==
    user = p[1] /\ Manifest[c] = <<p[2], v>> /\ d <= now

\* What Publish checks before it looks at either store.
Acceptable(user, p, v, c, d) == /\ user = p[1]
                                /\ Manifest[c] = <<p[2], v>>
                                /\ v \in SemVer
                                /\ d <= now

-----------------------------------------------------------------------------
(***************************************************************************)
(* Publishing, up to the first write                                       *)
(***************************************************************************)

\* Tarball c arrives for version v of plugin p and passes every check.
StartPublish(r) ==
    /\ pc[r] \in {"idle", "done"}
    /\ \E user \in Users, p \in Plugins, v \in Versions, c \in Contents, d \in Dates :
         /\ Acceptable(user, p, v, c, d)
         /\ req' = [req EXCEPT ![r] =
                       [plugin |-> p, version |-> v, content |-> c, date |-> d]]
    /\ pc' = [pc EXCEPT ![r] = "precheck"]
    /\ answer' = [answer EXCEPT ![r] = [code |-> "none", checksum |-> None]]
    /\ UNCHANGED <<stores, now>>

\* It fails one: somebody else's scope first, then the manifest, the version
\* and the date.  Nothing of it is kept.
RejectPublish(r) ==
    /\ pc[r] \in {"idle", "done"}
    /\ \E user \in Users, p \in Plugins, v \in Versions, c \in Contents, d \in Dates :
         /\ ~Acceptable(user, p, v, c, d)
         /\ answer' = [answer EXCEPT ![r] =
                [code |-> IF user # p[1] THEN "forbidden" ELSE "invalid",
                 checksum |-> None]]
    /\ pc' = [pc EXCEPT ![r] = "idle"]
    /\ req' = [req EXCEPT ![r] = None]
    /\ UNCHANGED <<stores, now>>

\* (A bug: the plugin's row is written ahead, outside the transaction.)
PreCheckReserves(r) ==
    /\ pc[r] = "precheck"
    /\ IF versions[Key(r)] # None
         THEN Reply(r, "conflict", None) /\ UNCHANGED plugins
         ELSE /\ Goto(r, "put")
              /\ plugins' = [plugins EXCEPT ![req[r].plugin] = req[r].version]
    /\ UNCHANGED <<versions, blobs, rowLock>>

\* Registry.Publish asks for the version before it touches the blob store.
PreCheck(r) ==
    /\ pc[r] = "precheck"
    /\ IF versions[Key(r)] # None THEN Reply(r, "conflict", None) ELSE Goto(r, "put")
    /\ UNCHANGED stores

(***************************************************************************)
(* The blob store.  ErrConflict from Put reaches the handler wrapped in    *)
(* "store tarball: ...", which writePublishError does not recognise.       *)
(***************************************************************************)

\* (A bug: os.Rename instead of os.Link.)
FsPutRename(r) ==
    /\ pc[r] = "put"
    /\ blobs' = [blobs EXCEPT ![Key(r)] = req[r].content]
    /\ Goto(r, "upsert")
    /\ UNCHANGED <<versions, plugins, rowLock>>

\* fsblob.Put: the staged file is linked in one step, if the name is free.
FsPut(r) ==
    /\ pc[r] = "put"
    /\ IF blobs[Key(r)] # None
         THEN /\ Reply(r, "error", None)
              /\ UNCHANGED blobs
         ELSE /\ blobs' = [blobs EXCEPT ![Key(r)] = req[r].content]
              /\ Goto(r, "upsert")
    /\ UNCHANGED <<versions, plugins, rowLock>>

\* (A bug: Put's ErrConflict is passed on as the answer 409.)
S3HeadConflict(r) ==
    /\ pc[r] = "put"
    /\ IF blobs[Key(r)] # None THEN Reply(r, "conflict", None) ELSE Goto(r, "s3put")
    /\ UNCHANGED stores

\* s3blob.Put looks for the object ...
S3Head(r) ==
    /\ pc[r] = "put"
    /\ IF blobs[Key(r)] # None THEN Reply(r, "error", None) ELSE Goto(r, "s3put")
    /\ UNCHANGED stores

\* ... and writes it, whatever happened in between.
S3PutObject(r) ==
    /\ pc[r] = "s3put"
    /\ blobs' = [blobs EXCEPT ![Key(r)] = req[r].content]
    /\ Goto(r, "upsert")
    /\ UNCHANGED <<versions, plugins, rowLock>>

\* The store's Put begins as the driver in use has it.
Put(r) == IF BlobDriver = "fs" THEN FsPut(r) ELSE S3Head(r)

(***************************************************************************)
(* The metadata database                                                   *)
(***************************************************************************)

\* (A bug: the checksum Put returned is not passed on.)
RowUnsummed(r) == [checksum |-> None, date |-> now]

Row(r) == [checksum |-> req[r].content,
           date |-> IF req[r].date = Unset THEN now ELSE req[r].date]

\* (A bug: an existing plugin keeps its latest_version.)
WriteRowsKeepLatest(r) ==
    /\ versions' = [versions EXCEPT ![Key(r)] = Row(r)]
    /\ plugins' = IF plugins[req[r].plugin] # None THEN plugins
                  ELSE [plugins EXCEPT ![req[r].plugin] = req[r].version]

\* The rows UpsertPluginAndVersion leaves behind when it commits.
WriteRows(r) == /\ versions' = [versions EXCEPT ![Key(r)] = Row(r)]
                /\ plugins' = [plugins EXCEPT ![req[r].plugin] = req[r].version]

\* (A bug: the plugin's row is always inserted, never updated.)
SqliteInsert(r) ==
    /\ pc[r] = "upsert"
    /\ IF versions[Key(r)] # None \/ plugins[req[r].plugin] # None
         THEN /\ Reply(r, IF versions[Key(r)] # None THEN "conflict" ELSE "error", None)
              /\ UNCHANGED <<versions, plugins>>
         ELSE WriteRows(r) /\ Goto(r, "final")
    /\ UNCHANGED <<blobs, rowLock>>

\* sqlite: the pool has one connection, so the transaction runs alone.
SqliteUpsert(r) ==
    /\ pc[r] = "upsert"
    /\ IF versions[Key(r)] # None
         THEN /\ Reply(r, "conflict", None)
              /\ UNCHANGED <<versions, plugins>>
         ELSE WriteRows(r) /\ Goto(r, "final")
    /\ UNCHANGED <<blobs, rowLock>>

Dated(in, d) == [plugin |-> in.plugin, version |-> in.version,
                 content |-> in.content, date |-> d]

\* postgres: every statement sees what was committed when it began.  The date
\* of the row is settled here, before any wait for a lock.
PgCountVersions(r) ==
    /\ pc[r] = "upsert"
    /\ IF versions[Key(r)] # None
         THEN Reply(r, "conflict", None)
         ELSE /\ pc' = [pc EXCEPT ![r] = "pgCountPlugins"]
              /\ req' = [req EXCEPT ![r] = Dated(@, Row(r).date)]
              /\ UNCHANGED <<answer, now>>
    /\ UNCHANGED stores

\* So does the database's UpsertPluginAndVersion.
Upsert(r) == IF MetaDriver = "sqlite" THEN SqliteUpsert(r) ELSE PgCountVersions(r)

PgCountPlugins(r) ==
    /\ pc[r] = "pgCountPlugins"
    /\ Goto(r, IF plugins[req[r].plugin] = None THEN "pgInsertPlugin"
                                                ELSE "pgUpdatePlugin")
    /\ UNCHANGED stores

\* A write of the plugin's row waits for the transaction that wrote it last.
\* An INSERT then fails if that transaction committed: the unique violation
\* is not translated to ErrConflict.
PgInsertPlugin(r) ==
    /\ pc[r] = "pgInsertPlugin"
    /\ rowLock[req[r].plugin] = None
    /\ IF plugins[req[r].plugin] # None
         THEN Reply(r, "error", None) /\ UNCHANGED rowLock
         ELSE /\ rowLock' = [rowLock EXCEPT ![req[r].plugin] = r]
              /\ Goto(r, "pgInsertVersion")
    /\ UNCHANGED <<versions, plugins, blobs>>

PgUpdatePlugin(r) ==
    /\ pc[r] = "pgUpdatePlugin"
    /\ rowLock[req[r].plugin] = None
    /\ rowLock' = [rowLock EXCEPT ![req[r].plugin] = r]
    /\ Goto(r, "pgInsertVersion")
    /\ UNCHANGED <<versions, plugins, blobs>>

\* (A bug: INSERT ... ON CONFLICT DO UPDATE.)
PgReplaceVersion(r) ==
    /\ pc[r] = "pgInsertVersion"
    /\ Goto(r, "pgCommit")
    /\ UNCHANGED stores

\* The versions table has its own primary key; a violation rolls back.
PgInsertVersion(r) ==
    /\ pc[r] = "pgInsertVersion"
    /\ IF versions[Key(r)] # None
         THEN /\ Reply(r, "error", None)
              /\ rowLock' = [rowLock EXCEPT ![req[r].plugin] = None]
         ELSE Goto(r, "pgCommit") /\ UNCHANGED rowLock
    /\ UNCHANGED <<versions, plugins, blobs>>

PgCommit(r) ==
    /\ pc[r] = "pgCommit"
    /\ WriteRows(r)
    /\ rowLock' = [rowLock EXCEPT ![req[r].plugin] = None]
    /\ Goto(r, "final")
    /\ UNCHANGED blobs

\* Publish ends by reading the version back; the 201 carries that row.
FinalGetVersion(r) ==
    /\ pc[r] = "final"
    /\ IF versions[Key(r)] # None
         THEN Reply(r, "created", versions[Key(r)].checksum)
         ELSE Reply(r, "error", None)
    /\ UNCHANGED stores

\* (A bug: a failed publish removes its tarball, though it may be recorded.)
FailRemovesTarball(r) ==
    /\ Faults
    /\ pc[r] \in InFlight
    /\ Reply(r, "fault", None)
    /\ blobs' = IF pc[r] \in Uploading THEN blobs ELSE [blobs EXCEPT ![Key(r)] = None]
    /\ UNCHANGED <<versions, plugins, rowLock>>

\* (A bug: the deferred Rollback is missing.)
FailKeepsLock(r) ==
    /\ Faults
    /\ pc[r] \in InFlight
    /\ Reply(r, "fault", None)
    /\ UNCHANGED stores

(***************************************************************************)
(* Everything that can go wrong outside the logic above: a call to a store *)
(* fails, the client disconnects and its context cancels the next          *)
(* statement, the server is killed.  Any step may have taken effect before *)
(* its answer was lost.  An open transaction is rolled back.               *)
(***************************************************************************)
Fail(r) ==
    /\ Faults
    /\ pc[r] \in InFlight
    /\ Reply(r, "fault", None)
    /\ rowLock' = [p \in Plugins |-> IF rowLock[p] = r THEN None ELSE rowLock[p]]
    /\ UNCHANGED <<versions, plugins, blobs>>

\* The admin endpoint corrects the date of a version that exists, to a date
\* that is given and not in the future; otherwise it changes nothing.
AdminSetPublishedAt(k, d) ==
    /\ d # Unset
    /\ d <= now
    /\ versions[k] # None
    /\ versions' = [versions EXCEPT ![k] = [checksum |-> @.checksum, date |-> d]]
    /\ UNCHANGED <<plugins, blobs, rowLock, pc, req, answer, now>>

Tick == /\ now < MaxTime
        /\ now' = now + 1
        /\ UNCHANGED <<stores, pc, req, answer>>

\* The steps of a handler that is already running.
Handle(r) ==
    \/ PreCheck(r)
    \/ Put(r) \/ S3PutObject(r)
    \/ Upsert(r) \/ PgCountPlugins(r)
    \/ PgInsertPlugin(r) \/ PgUpdatePlugin(r)
    \/ PgInsertVersion(r) \/ PgCommit(r)
    \/ FinalGetVersion(r)

Next ==
    \/ \E r \in Requests : StartPublish(r) \/ RejectPublish(r) \/ Handle(r) \/ Fail(r)
    \/ \E k \in Keys, d \in Dates : AdminSetPublishedAt(k, d)
    \/ Tick

Spec == Init /\ [][Next]_vars

\* A goroutine that can run does.  The wait for a row lock is strongly fair:
\* Postgres queues the waiters of a row, so none is overtaken for ever.
Fairness == \A r \in Requests : /\ WF_vars(Handle(r))
                                /\ SF_vars(PgInsertPlugin(r))
                                /\ SF_vars(PgUpdatePlugin(r))

FairSpec == Spec /\ Fairness

-----------------------------------------------------------------------------
(***************************************************************************)
(* Properties                                                              *)
(***************************************************************************)

\* Every variable keeps its shape: rows, tarballs, locks and requests are what
\* the two stores and the handlers can hold.
TypeOK ==
    /\ versions \in [Keys -> Rows \cup {None}]
    /\ plugins \in [Plugins -> Versions \cup {None}]
    /\ blobs \in [Keys -> Contents \cup {None}]
    /\ rowLock \in [Plugins -> Requests \cup {None}]
    /\ pc \in [Requests -> Places]
    /\ req \in [Requests -> Inputs \cup {None}]
    /\ answer \in [Requests -> Answers]
    /\ now \in Nat

\* A version that the database lists can be downloaded, and the tarball stored
\* for it is the one whose checksum was recorded when it was published
\* (registry.go:95-102, the order of the two writes and the refusal to
\* overwrite).
BlobMatchesRecord ==
    \A k \in Keys : versions[k] # None => blobs[k] = versions[k].checksum

\* plugins.latest_version names a version that is recorded, and a plugin row
\* exists for every recorded version: "latest" resolves to something for every
\* published plugin, whatever publishes of it overlapped or failed
\* (ResolveVersion reads the two tables one after the other).
LatestIsRecorded ==
    \A p \in Plugins :
        /\ plugins[p] # None => versions[<<p, plugins[p]>>] # None
        /\ (\E v \in Versions : versions[<<p, v>>] # None) => plugins[p] # None

\* A 201 told the truth for ever: the version is recorded with the tarball this
\* very request uploaded, and the checksum in the answer is that tarball's.
\* Two publishers of one version can never both be told they published it,
\* unless they uploaded the same bytes.
CreatedIsDurable ==
    \A r \in Requests : answer[r].code = "created" =>
        /\ versions[Key(r)] # None
        /\ versions[Key(r)].checksum = req[r].content
        /\ answer[r].checksum = req[r].content

\* A 409 told the truth: the version really is published (the crawler counts
\* the plugin as mirrored when it sees one, crawler.go:181-185).
ConflictIsTrue ==
    \A r \in Requests : answer[r].code = "conflict" => versions[Key(r)] # None

\* Only a tarball whose own plugin.json gives the name and version in the URL is
\* ever stored under them, whichever upload wins, and nothing is stored
\* under a name like "latest" that is not a semantic version and that
\* ResolveVersion would never look up.
StoredUnderItsOwnName ==
    \A k \in Keys : blobs[k] # None =>
        /\ Manifest[blobs[k]] = <<k[1][2], k[2]>>
        /\ k[2] \in SemVer

\* At most one handler is between storing the tarball of a version and
\* recording it, so nobody else's row can be written over its tarball.
OneRecorder ==
    \A r, s \in Requests :
        pc[r] \in Recording /\ pc[s] \in Recording /\ Key(r) = Key(s) => r = s

\* A tarball without a row and without a handler on the way to write it.  Put
\* refuses to replace it, so no retry can publish that version any more.
Orphan(k) ==
    /\ blobs[k] # None
    /\ versions[k] = None
    /\ \A r \in Requests : pc[r] \in Recording => Key(r) # k

\* Only a handler cut off between storing a tarball and recording it, by a
\* failing call or by its own end, leaves an orphan.  No answer of the handler
\* does, however many publishers race (registry.go:95-141).  This is so with
\* the file system and SQLite; with Postgres a lost race leaves one too.
OrphansAreCutOff ==
    [][\A k \in Keys : ~Orphan(k) /\ Orphan(k)' =>
           \E r \in Requests : /\ pc[r] \in Recording
                               /\ Key(r) = k
                               /\ answer'[r].code = "fault"]_vars

\* "Versions are immutable" (registry.go:75, 147): once recorded, a version
\* stays, and its checksum never changes, not even by the admin endpoint.
RowsImmutable ==
    [][\A k \in Keys : versions[k] # None =>
           /\ versions'[k] # None
           /\ versions'[k].checksum = versions[k].checksum]_vars

\* A stored tarball is never overwritten, recorded or not.
BlobsImmutable ==
    [][\A k \in Keys : blobs[k] # None => blobs'[k] = blobs[k]]_vars

\* Every publish that is accepted for processing is answered.
EveryPublishAnswered ==
    \A r \in Requests : pc[r] \in InFlight ~> pc[r] \notin InFlight

\* A version that is published again and again, by requests none of which is
\* refused as invalid and which are answered without any call failing, ends up
\* published ("Publishing is idempotent, so running the crawler again doesn't
\* break anything", README.md:294).
RetriedUntilPublished ==
    \A k \in Keys :
        []<><<\E r \in Requests :
                 /\ pc[r] \in InFlight /\ pc'[r] = "done" /\ Key(r) = k
                 /\ answer'[r].code \in {"created", "conflict", "error"}>>_vars
          => <>(versions[k] # None)

\* What the registry promises about downloads, VersionLedger, is what this
\* module does: the tarball delivered for a version is the stored one, once
\* the version is recorded.
served == [k \in Keys |-> IF versions[k] = None THEN None ELSE blobs[k]]

Ledger == INSTANCE VersionLedger WITH latest <- plugins

ImplementsLedger == Ledger!Spec
=============================================================================
