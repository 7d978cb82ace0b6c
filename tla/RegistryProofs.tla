---------------------------- MODULE RegistryProofs ----------------------------
(***************************************************************************)
(* Theorems about Registry, for any number of requests, users, plugins,    *)
(* versions and tarballs, with either database and, where it says so, with *)
(* either blob store.                                                      *)
(***************************************************************************)
EXTENDS Registry, TLAPS

-----------------------------------------------------------------------------
(***************************************************************************)
(* The inductive invariant                                                 *)
(***************************************************************************)

\* A request that has begun knows what it publishes.
Asked == \A r \in Requests : pc[r] # "idle" => req[r] \in Inputs

\* Only a handler that has returned has answered.
AnsweredLast ==
    \A r \in Requests :
        /\ pc[r] \in InFlight => answer[r].code = "none"
        /\ answer[r].code \in {"created", "conflict"} => pc[r] = "done"

\* A handler is only where the configured drivers can take it.
OwnDriver ==
    \A r \in Requests :
        /\ pc[r] = "s3put" => BlobDriver = "s3"
        /\ pc[r] \in Recording \ {"upsert"} => MetaDriver = "postgres"

\* A transaction has the lock of its plugin's row, and only it has.
LockHeld ==
    /\ \A r \in Requests : pc[r] \in InTransaction => rowLock[req[r].plugin] = r
    /\ \A p \in Plugins, r \in Requests : rowLock[p] = r =>
          /\ pc[r] \in InTransaction
          /\ req[r].plugin = p

\* Between its INSERT and its COMMIT nobody else records the version.
CommitIsFree == \A r \in Requests : pc[r] = "pgCommit" => versions[Key(r)] = None

\* A handler about to answer 201 finds the row that it wrote.
OwnRow ==
    \A r \in Requests : pc[r] = "final" =>
        /\ versions[Key(r)] # None
        /\ versions[Key(r)].checksum = req[r].content

\* A tarball waits for its row under the name of one handler only, and whoever
\* is about to write one with S3 writes a new one.
Staged ==
    /\ \A r \in Requests : pc[r] \in Recording =>
          blobs[Key(r)] = req[r].content /\ versions[Key(r)] = None
    /\ \A r \in Requests : pc[r] = "s3put" => blobs[Key(r)] = None
    /\ OneRecorder
    /\ BlobMatchesRecord

\* The hard links of fsblob see to that.
FsStaged == BlobDriver = "fs" => Staged

\* With S3 nothing does.  Publishes keep apart when, while one of a version is
\* between its HeadObject and its PutObject, no other is there or past it.
Apart ==
    \A r, s \in Requests :
        pc[r] = "s3put" /\ pc[s] \in {"s3put"} \cup Recording /\ Key(r) = Key(s) => r = s

IInv == /\ TypeOK /\ Asked /\ AnsweredLast
        /\ OwnDriver /\ LockHeld /\ CommitIsFree /\ OwnRow
        /\ CreatedIsDurable /\ ConflictIsTrue /\ LatestIsRecorded
        /\ FsStaged
-----------------------------------------------------------------------------
(***************************************************************************)
(* Types                                                                   *)
(***************************************************************************)

USE DEF Inputs, Answers, Codes, Rows

\* The key of a request that has begun is a key of the stores.
LEMMA KeyInKeys ==
  ASSUME TypeOK, Asked, NEW r \in Requests, pc[r] # "idle"
  PROVE  /\ req[r] \in Inputs
         /\ req[r].plugin \in Plugins
         /\ Key(r) \in Keys
         /\ req[r].content \in Contents
  BY DEF Asked, Key, Keys

\* The row a request would record is a row.
LEMMA RowInRows ==
  ASSUME TypeOK, Asked, NEW r \in Requests, pc[r] # "idle"
  PROVE  Row(r) \in Rows
  BY KeyInKeys DEF Row, TypeOK

\* What a handler keeps to itself has the right type.
HandlersOK == /\ pc \in [Requests -> Places]
              /\ req \in [Requests -> Inputs \cup {None}]
              /\ answer \in [Requests -> Answers]
              /\ now \in Nat

\* Going on keeps the types of the handlers.
LEMMA GotoTypes ==
  ASSUME TypeOK, Asked, NEW r \in Requests, pc[r] # "idle",
         NEW STATE place, place \in Places, Goto(r, place)
  PROVE  HandlersOK' /\ Asked'
  BY DEF TypeOK, Asked, HandlersOK, Goto

\* So does answering.
LEMMA ReplyTypes ==
  ASSUME TypeOK, Asked, NEW r \in Requests, pc[r] # "idle",
         NEW code \in Codes,
         NEW STATE sum, sum \in Contents \cup {None}, Reply(r, code, sum)
  PROVE  HandlersOK' /\ Asked'
  BY DEF TypeOK, Asked, HandlersOK, Reply, Places

\* A handler that is running keeps the types of the handlers.
LEMMA HandlerTypes ==
  ASSUME TypeOK, Asked, NEW r \in Requests, Handle(r) \/ Fail(r)
  PROVE  HandlersOK' /\ Asked' /\ pc[r] # "idle"
<1> USE DEF Places, InFlight, Uploading, Recording, InTransaction
<1>1. CASE PreCheck(r)
  BY <1>1, GotoTypes, ReplyTypes DEF PreCheck
<1>2. CASE FsPut(r)
  BY <1>2, GotoTypes, ReplyTypes DEF FsPut
<1>3. CASE S3Head(r)
  BY <1>3, GotoTypes, ReplyTypes DEF S3Head
<1>4. CASE S3PutObject(r)
  BY <1>4, GotoTypes DEF S3PutObject
<1>5. CASE SqliteUpsert(r)
  BY <1>5, GotoTypes, ReplyTypes DEF SqliteUpsert
<1>6. CASE PgCountVersions(r)
  <2>1. CASE versions[Key(r)] # None
    BY <1>6, <2>1, ReplyTypes DEF PgCountVersions
  <2>2. CASE versions[Key(r)] = None
    <3>1. pc[r] # "idle" /\ Row(r).date \in Nat
      BY <1>6, RowInRows DEF PgCountVersions
    <3>2. Dated(req[r], Row(r).date) \in Inputs
      BY <3>1, KeyInKeys DEF Dated
    <3>3. /\ pc' = [pc EXCEPT ![r] = "pgCountPlugins"]
          /\ req' = [req EXCEPT ![r] = Dated(req[r], Row(r).date)]
          /\ UNCHANGED <<answer, now>>
      BY <1>6, <2>2 DEF PgCountVersions
    <3>4. pc' \in [Requests -> Places] /\ req' \in [Requests -> Inputs \cup {None}]
      BY <3>2, <3>3 DEF TypeOK
    <3>5. Asked'
      BY <3>1, <3>2, <3>3 DEF TypeOK, Asked
    <3> QED
      BY <3>1, <3>3, <3>4, <3>5 DEF HandlersOK, TypeOK
  <2> QED BY <2>1, <2>2
<1>7. CASE PgCountPlugins(r)
  BY <1>7, GotoTypes DEF PgCountPlugins
<1>8. CASE PgInsertPlugin(r)
  BY <1>8, GotoTypes, ReplyTypes DEF PgInsertPlugin
<1>9. CASE PgUpdatePlugin(r)
  BY <1>9, GotoTypes DEF PgUpdatePlugin
<1>10. CASE PgInsertVersion(r)
  BY <1>10, GotoTypes, ReplyTypes DEF PgInsertVersion
<1>11. CASE PgCommit(r)
  BY <1>11, GotoTypes DEF PgCommit
<1>12. CASE FinalGetVersion(r)
  <2>1. pc[r] # "idle" /\ versions[Key(r)] \in Rows \cup {None}
    BY <1>12, KeyInKeys DEF FinalGetVersion, TypeOK
  <2>2. CASE versions[Key(r)] # None
    <3>1. versions[Key(r)].checksum \in Contents
      BY <2>1, <2>2
    <3> QED BY <1>12, <2>1, <2>2, <3>1, ReplyTypes DEF FinalGetVersion
  <2>3. CASE versions[Key(r)] = None
    BY <1>12, <2>1, <2>3, ReplyTypes DEF FinalGetVersion
  <2> QED BY <2>2, <2>3
<1>13. CASE Fail(r)
  BY <1>13, ReplyTypes DEF Fail
<1> QED
  BY <1>1, <1>2, <1>3, <1>4, <1>5, <1>6, <1>7, <1>8, <1>9, <1>10, <1>11, <1>12,
     <1>13 DEF Handle, Put, Upsert

\* What the stores hold has the right type.
StoresOK == /\ versions \in [Keys -> Rows \cup {None}]
            /\ plugins \in [Plugins -> Versions \cup {None}]
            /\ blobs \in [Keys -> Contents \cup {None}]
            /\ rowLock \in [Plugins -> Requests \cup {None}]

\* A handler that is running keeps the types of the stores.
LEMMA StoreTypes ==
  ASSUME TypeOK, Asked, NEW r \in Requests, Handle(r) \/ Fail(r)
  PROVE  StoresOK'
<1>0. /\ Key(r) \in Keys
      /\ req[r] \in Inputs
      /\ req[r].plugin \in Plugins
      /\ req[r].content \in Contents
      /\ req[r].version \in Versions
      /\ Row(r) \in Rows
  BY HandlerTypes, KeyInKeys, RowInRows
<1> USE DEF StoresOK, TypeOK, stores
<1>1. CASE FsPut(r) \/ S3PutObject(r)
  BY <1>0, <1>1 DEF FsPut, S3PutObject
<1>2. CASE WriteRows(r) /\ UNCHANGED <<blobs, rowLock>>
  BY <1>0, <1>2 DEF WriteRows
<1>3. CASE SqliteUpsert(r)
  BY <1>2, <1>3 DEF SqliteUpsert
<1>4. CASE PgInsertPlugin(r) \/ PgUpdatePlugin(r) \/ PgInsertVersion(r)
  BY <1>0, <1>4 DEF PgInsertPlugin, PgUpdatePlugin, PgInsertVersion
<1>5. CASE PgCommit(r)
  BY <1>0, <1>5 DEF PgCommit, WriteRows
<1>6. CASE Fail(r)
  BY <1>6 DEF Fail
<1>7. CASE UNCHANGED stores
  BY <1>7
<1> QED
  BY <1>1, <1>3, <1>4, <1>5, <1>6, <1>7
  DEF Handle, Put, Upsert, PreCheck, S3Head, PgCountVersions, PgCountPlugins, FinalGetVersion

\* Every step keeps the types.
LEMMA TypeStep ==
  ASSUME TypeOK, Asked, [Next]_vars
  PROVE  TypeOK' /\ Asked'
<1>1. ASSUME NEW r \in Requests, StartPublish(r) \/ RejectPublish(r)
      PROVE  TypeOK' /\ Asked'
  <2>1. CASE StartPublish(r)
    <3>1. PICK p \in Plugins, v \in Versions, c \in Contents, d \in Dates :
             req' = [req EXCEPT ![r] =
                        [plugin |-> p, version |-> v, content |-> c, date |-> d]]
      BY <2>1 DEF StartPublish
    <3>2. d \in Nat
      BY ConstantsAssumption
    <3>3. req' \in [Requests -> Inputs \cup {None}] /\ req'[r] \in Inputs
      BY <3>1, <3>2 DEF TypeOK
    <3> QED
      BY <2>1, <3>1, <3>3
      DEF StartPublish, TypeOK, Asked, stores, Places, InFlight, Uploading
  <2>2. CASE RejectPublish(r)
    BY <2>2 DEF RejectPublish, TypeOK, Asked, stores, Places
  <2> QED
    BY <1>1, <2>1, <2>2
<1>2. ASSUME NEW r \in Requests, Handle(r) \/ Fail(r)
      PROVE  TypeOK' /\ Asked'
  BY <1>2, HandlerTypes, StoreTypes DEF HandlersOK, StoresOK, TypeOK
<1>3. ASSUME NEW k \in Keys, NEW d \in Dates, AdminSetPublishedAt(k, d)
      PROVE  TypeOK' /\ Asked'
  <2>1. [checksum |-> versions[k].checksum, date |-> d] \in Rows
    BY <1>3, ConstantsAssumption DEF AdminSetPublishedAt, TypeOK
  <2> QED
    BY <1>3, <2>1 DEF AdminSetPublishedAt, TypeOK, Asked
<1>4. CASE Tick
  BY <1>4 DEF Tick, TypeOK, Asked, stores
<1>5. CASE UNCHANGED vars
  BY <1>5 DEF vars, TypeOK, Asked
<1> QED
  BY <1>1, <1>2, <1>3, <1>4, <1>5 DEF Next
-----------------------------------------------------------------------------
(***************************************************************************)
(* What one step changes                                                   *)
(***************************************************************************)

\* A step of one handler leaves all others alone and what it publishes too.
LEMMA Frame ==
  ASSUME TypeOK, Asked, NEW r \in Requests, Handle(r) \/ Fail(r)
  PROVE  /\ \A s \in Requests \ {r} : /\ pc'[s] = pc[s]
                                      /\ req'[s] = req[s]
                                      /\ answer'[s] = answer[s]
         /\ \A s \in Requests : /\ Key(s)' = Key(s)
                                /\ req'[s].plugin = req[s].plugin
                                /\ req'[s].content = req[s].content
<1>1. \/ UNCHANGED req
      \/ req' = [req EXCEPT ![r] = Dated(@, Row(r).date)]
  BY DEF Handle, Put, Upsert, PreCheck, FsPut, S3Head, S3PutObject, SqliteUpsert,
         PgCountVersions, PgCountPlugins, PgInsertPlugin, PgUpdatePlugin,
         PgInsertVersion, PgCommit, FinalGetVersion, Fail, Goto, Reply
<1>2. \A s \in Requests \ {r} : pc'[s] = pc[s] /\ answer'[s] = answer[s]
  BY DEF TypeOK, Handle, Put, Upsert, PreCheck, FsPut, S3Head, S3PutObject, SqliteUpsert,
         PgCountVersions, PgCountPlugins, PgInsertPlugin, PgUpdatePlugin,
         PgInsertVersion, PgCommit, FinalGetVersion, Fail, Goto, Reply
<1>3. /\ \A s \in Requests \ {r} : req'[s] = req[s]
      /\ \A s \in Requests : /\ req'[s].plugin = req[s].plugin
                             /\ req'[s].version = req[s].version
                             /\ req'[s].content = req[s].content
  BY <1>1 DEF TypeOK, Dated
<1> QED
  BY <1>2, <1>3 DEF Key

\* Nor does the arrival of a request disturb the others or the stores.
LEMMA StartFrame ==
  ASSUME TypeOK, Asked, NEW r \in Requests, StartPublish(r) \/ RejectPublish(r)
  PROVE  /\ UNCHANGED <<versions, plugins, blobs, rowLock, now>>
         /\ \A s \in Requests \ {r} : /\ pc'[s] = pc[s]
                                      /\ req'[s] = req[s]
                                      /\ answer'[s] = answer[s]
                                      /\ Key(s)' = Key(s)
         /\ pc[r] \in {"idle", "done"}
         /\ pc'[r] \in {"precheck", "idle"}
         /\ answer'[r].code \in {"none", "forbidden", "invalid"}
         /\ pc'[r] = "precheck" => answer'[r].code = "none"
<1>1. UNCHANGED stores
  BY DEF StartPublish, RejectPublish
<1>2. /\ \A s \in Requests \ {r} : /\ pc'[s] = pc[s]
                                   /\ req'[s] = req[s]
                                   /\ answer'[s] = answer[s]
      /\ pc[r] \in {"idle", "done"}
      /\ pc'[r] \in {"precheck", "idle"}
      /\ answer'[r].code \in {"none", "forbidden", "invalid"}
      /\ pc'[r] = "precheck" => answer'[r].code = "none"
      /\ now' = now
  BY DEF StartPublish, RejectPublish, TypeOK
<1> QED
  BY <1>1, <1>2 DEF stores, Key

\* r records its version in one step, and goes on to answer.
Records(r) == /\ pc[r] \in {"upsert", "pgCommit"}
              /\ pc'[r] = "final"
              /\ versions[Key(r)] = None
              /\ pc[r] = "upsert" => MetaDriver = "sqlite"
              /\ WriteRows(r)
              /\ UNCHANGED <<blobs, answer>>

\* A step of a handler records its version, or leaves both tables alone.
LEMMA RecordsOrNot ==
  ASSUME TypeOK, Asked, CommitIsFree, NEW r \in Requests, Handle(r) \/ Fail(r)
  PROVE  \/ Records(r)
         \/ UNCHANGED <<versions, plugins>> /\ (pc'[r] = "final" => pc[r] = "final")
<1> USE DEF TypeOK, CommitIsFree, Records, stores
<1>1. CASE MetaDriver = "sqlite" /\ SqliteUpsert(r)
  BY <1>1 DEF SqliteUpsert, Goto, Reply
<1>2. CASE PgCommit(r)
  BY <1>2 DEF PgCommit, Goto
<1>3. CASE PreCheck(r) \/ S3Head(r) \/ PgCountVersions(r) \/ PgCountPlugins(r)
  BY <1>3 DEF PreCheck, S3Head, PgCountVersions, PgCountPlugins, Goto, Reply
<1>4. CASE FsPut(r) \/ S3PutObject(r)
  BY <1>4 DEF FsPut, S3PutObject, Goto, Reply
<1>5. CASE PgInsertPlugin(r) \/ PgUpdatePlugin(r) \/ PgInsertVersion(r)
  BY <1>5 DEF PgInsertPlugin, PgUpdatePlugin, PgInsertVersion, Goto, Reply
<1>6. CASE FinalGetVersion(r) \/ Fail(r)
  BY <1>6 DEF FinalGetVersion, Fail, Reply
<1> QED
  BY <1>1, <1>2, <1>3, <1>4, <1>5, <1>6 DEF Handle, Put, Upsert

\* Once recorded, a version stays with its checksum.
RowsKept == \A k \in Keys : versions[k] # None =>
                /\ versions'[k] # None
                /\ versions'[k].checksum = versions[k].checksum

\* No step takes a row away or changes its checksum.
LEMMA RowsStay ==
  ASSUME TypeOK, Asked, CommitIsFree, [Next]_vars
  PROVE  RowsKept
<1> USE DEF RowsKept
<1>1. ASSUME NEW r \in Requests, StartPublish(r) \/ RejectPublish(r)
      PROVE  RowsKept
  BY <1>1, StartFrame
<1>2. ASSUME NEW r \in Requests, Handle(r) \/ Fail(r)
      PROVE  RowsKept
  <2>1. Key(r) \in Keys
    BY <1>2, HandlerTypes, KeyInKeys
  <2>2. CASE Records(r)
    BY <2>1, <2>2 DEF Records, WriteRows, TypeOK
  <2> QED
    BY <1>2, <2>2, RecordsOrNot
<1>3. ASSUME NEW k \in Keys, NEW d \in Dates, AdminSetPublishedAt(k, d)
      PROVE  RowsKept
  <2>1. [checksum |-> versions[k].checksum, date |-> d] \in Rows
    BY <1>3, ConstantsAssumption DEF AdminSetPublishedAt, TypeOK
  <2> QED
    BY <1>3, <2>1, NoneAssumption DEF AdminSetPublishedAt, TypeOK
<1>4. CASE Tick \/ UNCHANGED vars
  BY <1>4 DEF Tick, vars, stores
<1> QED
  BY <1>1, <1>2, <1>3, <1>4 DEF Next

\* The clock and the admin touch nothing but dates.
LEMMA QuietFrame ==
  ASSUME TypeOK, Tick \/ UNCHANGED vars
                 \/ \E k \in Keys, d \in Dates : AdminSetPublishedAt(k, d)
  PROVE  /\ UNCHANGED <<plugins, blobs, rowLock, pc, req, answer>>
         /\ \A k \in Keys : versions'[k] = None <=> versions[k] = None
<1>1. ASSUME NEW k \in Keys, NEW d \in Dates, AdminSetPublishedAt(k, d)
      PROVE  /\ UNCHANGED <<plugins, blobs, rowLock, pc, req, answer>>
             /\ \A j \in Keys : versions'[j] = None <=> versions[j] = None
  <2>1. [checksum |-> versions[k].checksum, date |-> d] \in Rows
    BY <1>1, ConstantsAssumption DEF AdminSetPublishedAt, TypeOK
  <2> QED
    BY <1>1, <2>1, NoneAssumption DEF AdminSetPublishedAt, TypeOK
<1> QED
  BY <1>1 DEF Tick, vars, stores
-----------------------------------------------------------------------------
(***************************************************************************)
(* The inductive invariant is preserved, conjunct by conjunct              *)
(***************************************************************************)

\* Answers come last.
LEMMA AnsweredLastStep ==
  ASSUME TypeOK, Asked, AnsweredLast, [Next]_vars
  PROVE  AnsweredLast'
<1> USE DEF AnsweredLast, InFlight, Uploading, Recording, InTransaction
<1>1. ASSUME NEW r \in Requests, StartPublish(r) \/ RejectPublish(r)
      PROVE  AnsweredLast'
  BY <1>1, StartFrame
<1>2. ASSUME NEW r \in Requests, Handle(r) \/ Fail(r)
      PROVE  AnsweredLast'
  <2>1. pc[r] \in InFlight /\ (pc'[r] = "done" \/ answer' = answer)
    BY <1>2 DEF TypeOK, Handle, Put, Upsert, PreCheck, FsPut, S3Head, S3PutObject, SqliteUpsert,
         PgCountVersions, PgCountPlugins, PgInsertPlugin, PgUpdatePlugin,
         PgInsertVersion, PgCommit, FinalGetVersion, Fail, Goto, Reply
  <2> QED
    BY <1>2, <2>1, Frame
<1>3. CASE UNCHANGED <<pc, answer>>
  BY <1>3
<1> QED
  BY <1>1, <1>2, <1>3, QuietFrame DEF Next

\* Nobody strays to a driver that is not configured.
LEMMA OwnDriverStep ==
  ASSUME TypeOK, Asked, OwnDriver, [Next]_vars
  PROVE  OwnDriver'
<1> USE DEF OwnDriver, Recording, InTransaction
<1>1. ASSUME NEW r \in Requests, StartPublish(r) \/ RejectPublish(r)
      PROVE  OwnDriver'
  BY <1>1, StartFrame
<1>2. ASSUME NEW r \in Requests, Handle(r) \/ Fail(r)
      PROVE  OwnDriver'
  <2>1. /\ pc'[r] = "s3put" => BlobDriver = "s3"
        /\ pc'[r] \in Recording \ {"upsert"} => MetaDriver = "postgres"
    BY <1>2, ConstantsAssumption
    DEF TypeOK, Handle, Put, Upsert, PreCheck, FsPut, S3Head, S3PutObject, SqliteUpsert,
        PgCountVersions, PgCountPlugins, PgInsertPlugin, PgUpdatePlugin,
        PgInsertVersion, PgCommit, FinalGetVersion, Fail, Goto, Reply
  <2> QED
    BY <1>2, <2>1, Frame
<1>3. CASE UNCHANGED pc
  BY <1>3
<1> QED
  BY <1>1, <1>2, <1>3, QuietFrame DEF Next

\* The lock of a row is held by the transaction that wrote it, until it ends.
LEMMA LockHeldStep ==
  ASSUME TypeOK, Asked, LockHeld, [Next]_vars
  PROVE  LockHeld'
<1> USE DEF LockHeld
<1>1. ASSUME NEW r \in Requests, StartPublish(r) \/ RejectPublish(r)
      PROVE  LockHeld'
  BY <1>1, StartFrame DEF InTransaction
<1>2. ASSUME NEW r \in Requests, Handle(r) \/ Fail(r)
      PROVE  LockHeld'
  <2>0. /\ req[r].plugin \in Plugins
        /\ r # None
    BY <1>2, HandlerTypes, KeyInKeys, NoneAssumption
  <2>1. CASE UNCHANGED rowLock /\ (pc'[r] \in InTransaction <=> pc[r] \in InTransaction)
    BY <1>2, <2>1, Frame
  <2>2. CASE /\ rowLock[req[r].plugin] = None
             /\ rowLock' = [rowLock EXCEPT ![req[r].plugin] = r]
             /\ pc[r] \notin InTransaction /\ pc'[r] \in InTransaction
    BY <1>2, <2>0, <2>2, Frame, NoneAssumption DEF TypeOK
  <2>3. CASE /\ pc[r] \in InTransaction /\ pc'[r] \notin InTransaction
             /\ rowLock' = [rowLock EXCEPT ![req[r].plugin] = None]
    BY <1>2, <2>0, <2>3, Frame, NoneAssumption DEF TypeOK
  <2>4. CASE Fail(r)
    <3>1. pc'[r] = "done" /\ rowLock' = [p \in Plugins |-> IF rowLock[p] = r THEN None ELSE rowLock[p]]
      BY <2>4 DEF Fail, Reply, TypeOK
    <3>2. \A q \in Requests : pc[q] \in InTransaction => req[q].plugin \in Plugins
      BY KeyInKeys DEF InTransaction
    <3> QED
      BY <1>2, <2>0, <3>1, <3>2, Frame, NoneAssumption DEF TypeOK, InTransaction
  <2>5. CASE PgInsertPlugin(r) \/ PgUpdatePlugin(r)
    BY <2>1, <2>2, <2>5
    DEF TypeOK, InTransaction, PgInsertPlugin, PgUpdatePlugin, Goto, Reply
  <2>6. CASE PgInsertVersion(r) \/ PgCommit(r)
    BY <2>1, <2>3, <2>6
    DEF TypeOK, InTransaction, PgInsertVersion, PgCommit, Goto, Reply
  <2>7. CASE PreCheck(r) \/ S3Head(r) \/ PgCountVersions(r) \/ PgCountPlugins(r)
             \/ FinalGetVersion(r)
    BY <2>1, <2>7
    DEF TypeOK, InTransaction, stores, PreCheck, S3Head, PgCountVersions, PgCountPlugins,
        FinalGetVersion, Goto, Reply
  <2>8. CASE FsPut(r) \/ S3PutObject(r) \/ SqliteUpsert(r)
    BY <2>1, <2>8
    DEF TypeOK, InTransaction, FsPut, S3PutObject, SqliteUpsert, Goto, Reply
  <2> QED
    BY <1>2, <2>4, <2>5, <2>6, <2>7, <2>8 DEF Handle, Put, Upsert
<1>3. CASE UNCHANGED <<pc, req, rowLock>>
  BY <1>3
<1> QED
  BY <1>1, <1>2, <1>3, QuietFrame DEF Next

\* Two transactions that are about to commit one version would hold one lock.
LEMMA CommitIsFreeStep ==
  ASSUME TypeOK, Asked, OwnDriver, LockHeld, CommitIsFree, [Next]_vars
  PROVE  CommitIsFree'
<1> USE DEF CommitIsFree
<1>1. ASSUME NEW r \in Requests, StartPublish(r) \/ RejectPublish(r)
      PROVE  CommitIsFree'
  BY <1>1, StartFrame
<1>2. ASSUME NEW r \in Requests, Handle(r) \/ Fail(r)
      PROVE  CommitIsFree'
  <2>1. CASE Records(r)
    <3> SUFFICES ASSUME NEW s \in Requests, pc'[s] = "pgCommit"
                 PROVE  versions'[Key(s)'] = None
      OBVIOUS
    <3>1. s # r /\ pc[s] = "pgCommit" /\ Key(s)' = Key(s)
      BY <1>2, <2>1, Frame DEF Records
    <3>2. MetaDriver = "postgres"
      BY <3>1 DEF OwnDriver, Recording, InTransaction
    <3>3. rowLock[req[r].plugin] = r /\ rowLock[req[s].plugin] = s
      BY <2>1, <3>1, <3>2 DEF LockHeld, Records, InTransaction
    <3>4. Key(s) # Key(r)
      BY <3>1, <3>3 DEF Key
    <3> QED
      BY <2>1, <3>1, <3>4 DEF Records, WriteRows, TypeOK
  <2>2. CASE UNCHANGED versions
    <3>1. pc'[r] = "pgCommit" => versions[Key(r)] = None
      BY <1>2 DEF TypeOK, Handle, Put, Upsert, PreCheck, FsPut, S3Head, S3PutObject, SqliteUpsert,
           PgCountVersions, PgCountPlugins, PgInsertPlugin, PgUpdatePlugin,
           PgInsertVersion, PgCommit, FinalGetVersion, Fail, Goto, Reply
    <3> QED
      BY <1>2, <2>2, <3>1, Frame
  <2> QED
    BY <1>2, <2>1, <2>2, RecordsOrNot
<1>3. CASE Tick \/ UNCHANGED vars \/ \E k \in Keys, d \in Dates : AdminSetPublishedAt(k, d)
  <2>1. UNCHANGED <<pc, req>> /\ \A k \in Keys : versions'[k] = None <=> versions[k] = None
    BY <1>3, QuietFrame
  <2>2. \A s \in Requests : pc[s] = "pgCommit" => Key(s) \in Keys /\ Key(s)' = Key(s)
    BY <2>1, KeyInKeys DEF Key
  <2> QED
    BY <2>1, <2>2
<1> QED
  BY <1>1, <1>2, <1>3 DEF Next
\* The facts about a recorded version that a handler knows survive every step.
KnowledgeOK == OwnRow /\ CreatedIsDurable /\ ConflictIsTrue

LEMMA KnowledgeStep ==
  ASSUME TypeOK, Asked, AnsweredLast, CommitIsFree, KnowledgeOK, [Next]_vars
  PROVE  KnowledgeOK'
<1> USE DEF KnowledgeOK, OwnRow, CreatedIsDurable, ConflictIsTrue
<1>0. /\ RowsKept
      /\ \A s \in Requests : pc[s] # "idle" => Key(s) \in Keys
  BY RowsStay, KeyInKeys
<1>1. ASSUME NEW r \in Requests, StartPublish(r) \/ RejectPublish(r)
      PROVE  KnowledgeOK'
  BY <1>1, StartFrame
<1>2. ASSUME NEW r \in Requests, Handle(r) \/ Fail(r)
      PROVE  KnowledgeOK'
  <2>0. /\ Key(r) \in Keys /\ pc[r] # "done" /\ answer[r].code = "none"
        /\ Row(r) \in Rows /\ Row(r).checksum = req[r].content
        /\ req[r].content \in Contents
    BY <1>2, HandlerTypes, KeyInKeys, RowInRows
    DEF AnsweredLast, InFlight, Uploading, Recording, InTransaction, Row,
        Handle, Put, Upsert, PreCheck, FsPut, S3Head, S3PutObject, SqliteUpsert,
        PgCountVersions, PgCountPlugins, PgInsertPlugin, PgUpdatePlugin,
        PgInsertVersion, PgCommit, FinalGetVersion, Fail
  <2>1. \A s \in Requests \ {r} :
           /\ pc'[s] = "final" => /\ versions'[Key(s)'] # None
                                  /\ versions'[Key(s)'].checksum = req'[s].content
           /\ answer'[s].code = "created" =>
                /\ versions'[Key(s)'] # None
                /\ versions'[Key(s)'].checksum = req'[s].content
                /\ answer'[s].checksum = req'[s].content
           /\ answer'[s].code = "conflict" => versions'[Key(s)'] # None
    BY <1>0, <1>2, Frame DEF RowsKept, AnsweredLast
  <2>2. pc'[r] = "final" => /\ versions'[Key(r)'] # None
                            /\ versions'[Key(r)'].checksum = req'[r].content
    <3>1. CASE Records(r)
      BY <1>2, <2>0, <3>1, Frame, NoneAssumption DEF Records, WriteRows, TypeOK
    <3> QED
      BY <1>0, <1>2, <2>0, <3>1, Frame, RecordsOrNot DEF RowsKept
  <2>3. /\ answer'[r].code = "created" =>
             /\ versions[Key(r)] # None
             /\ versions[Key(r)].checksum = req[r].content
             /\ answer'[r].checksum = req[r].content
        /\ answer'[r].code = "conflict" => versions[Key(r)] # None
    <3> USE <2>0 DEF TypeOK, Goto, Reply
    <3>1. CASE FinalGetVersion(r)
      BY <3>1 DEF FinalGetVersion
    <3>2. CASE PreCheck(r) \/ SqliteUpsert(r) \/ PgCountVersions(r)
      BY <3>2 DEF PreCheck, SqliteUpsert, PgCountVersions
    <3>3. CASE FsPut(r) \/ S3Head(r) \/ S3PutObject(r) \/ PgCountPlugins(r)
               \/ PgInsertPlugin(r) \/ PgUpdatePlugin(r)
      BY <3>3 DEF FsPut, S3Head, S3PutObject, PgCountPlugins, PgInsertPlugin, PgUpdatePlugin
    <3>4. CASE PgInsertVersion(r) \/ PgCommit(r) \/ Fail(r)
      BY <3>4 DEF PgInsertVersion, PgCommit, Fail
    <3> QED
      BY <1>2, <3>1, <3>2, <3>3, <3>4 DEF Handle, Put, Upsert
  <2> QED
    BY <1>0, <1>2, <2>0, <2>1, <2>2, <2>3, Frame DEF RowsKept
<1>3. CASE Tick \/ UNCHANGED vars \/ \E k \in Keys, d \in Dates : AdminSetPublishedAt(k, d)
  <2>1. UNCHANGED <<pc, req, answer>>
    BY <1>3, QuietFrame
  <2>2. \A s \in Requests : Key(s)' = Key(s)
    BY <2>1 DEF Key
  <2> QED
    BY <1>0, <2>1, <2>2 DEF RowsKept, AnsweredLast
<1> QED
  BY <1>1, <1>2, <1>3 DEF Next

\* latest_version is written with the row that it names.
LEMMA LatestStep ==
  ASSUME TypeOK, Asked, CommitIsFree, LatestIsRecorded, [Next]_vars
  PROVE  LatestIsRecorded'
<1> USE DEF LatestIsRecorded
<1>1. CASE /\ UNCHANGED plugins
           /\ \A k \in Keys : versions'[k] = None <=> versions[k] = None
  BY <1>1 DEF TypeOK, Keys
<1>2. ASSUME NEW r \in Requests, Records(r), Handle(r)
      PROVE  LatestIsRecorded'
  <2>0. /\ req[r].plugin \in Plugins /\ req[r].version \in Versions
        /\ Key(r) \in Keys /\ Row(r) # None
    BY <1>2, HandlerTypes, KeyInKeys, RowInRows, NoneAssumption
  <2>1. SUFFICES ASSUME NEW p \in Plugins
                 PROVE  /\ plugins'[p] # None => versions'[<<p, plugins'[p]>>] # None
                        /\ (\E v \in Versions : versions'[<<p, v>>] # None) => plugins'[p] # None
    OBVIOUS
  <2>2. \A k \in Keys : versions'[k] = IF k = Key(r) THEN Row(r) ELSE versions[k]
    BY <1>2, <2>0 DEF Records, WriteRows, TypeOK
  <2>3. CASE p = req[r].plugin
    BY <1>2, <2>0, <2>2, <2>3, NoneAssumption DEF Records, WriteRows, TypeOK, Key, Keys
  <2>4. CASE p # req[r].plugin
    <3>1. plugins'[p] = plugins[p]
      BY <1>2, <2>4 DEF Records, WriteRows, TypeOK
    <3>2. \A v \in Versions : <<p, v>> \in Keys /\ <<p, v>> # Key(r)
      BY <2>4 DEF Key, Keys
    <3> QED
      BY <2>2, <3>1, <3>2 DEF TypeOK
  <2> QED BY <2>3, <2>4
<1>3. ASSUME NEW r \in Requests, StartPublish(r) \/ RejectPublish(r) \/ Fail(r)
      PROVE  LatestIsRecorded'
  BY <1>1, <1>3, StartFrame DEF Fail
<1> QED
  BY <1>1, <1>2, <1>3, RecordsOrNot, QuietFrame DEF Next

\* A stored tarball keeps every other upload of the version out.
LEMMA StagedStep ==
  ASSUME TypeOK, Asked, OwnDriver, CommitIsFree, Staged, Apart, [Next]_vars
  PROVE  Staged'
<1> USE DEF Staged, OneRecorder, BlobMatchesRecord
<1>0. \A s \in Requests : pc[s] \in Recording =>
            /\ Key(s) \in Keys
            /\ req[s].content \in Contents
            /\ req[s].content # None
  BY KeyInKeys, NoneAssumption DEF Recording, InTransaction
<1>1. ASSUME NEW r \in Requests, StartPublish(r) \/ RejectPublish(r)
      PROVE  Staged'
  BY <1>1, StartFrame DEF Recording, InTransaction
<1>2. ASSUME NEW r \in Requests, Handle(r) \/ Fail(r)
      PROVE  Staged'
  <2>0. Key(r) \in Keys /\ req[r].content \in Contents /\ req[r].content # None
    BY <1>2, HandlerTypes, KeyInKeys, NoneAssumption
  <2>1. CASE Records(r)
    <3>1. pc[r] \in Recording /\ pc'[r] \notin Recording
      BY <2>1 DEF Records, Recording, InTransaction
    <3>2. /\ blobs' = blobs
          /\ blobs[Key(r)] = Row(r).checksum
          /\ \A k \in Keys : versions'[k] = IF k = Key(r) THEN Row(r) ELSE versions[k]
      BY <2>0, <2>1, <3>1 DEF Records, WriteRows, Row, TypeOK
    <3>3. pc'[r] # "s3put"
      BY <2>1 DEF Records
    <3>4. \A s \in Requests \ {r} : pc[s] \in Recording => Key(s) # Key(r)
      BY <3>1
    <3>5. \A s \in Requests : pc'[s] = "s3put" => blobs'[Key(s)'] = None
      BY <1>2, <3>2, <3>3, Frame
    <3>6. \A s \in Requests : pc'[s] \in Recording =>
             blobs'[Key(s)'] = req'[s].content /\ versions'[Key(s)'] = None
      BY <1>0, <1>2, <3>1, <3>2, <3>4, Frame
    <3>7. OneRecorder'
      BY <1>2, <3>1, Frame
    <3>8. BlobMatchesRecord'
      BY <3>2
    <3> QED
      BY <3>5, <3>6, <3>7, <3>8
  <2>2. CASE \/ BlobDriver = "fs" /\ FsPut(r) /\ blobs[Key(r)] = None
             \/ S3PutObject(r)
    <3>0. BlobDriver = "fs" => \A s \in Requests \ {r} : pc[s] # "s3put"
      BY DEF OwnDriver
    <3>1. S3PutObject(r) =>
             \A s \in Requests \ {r} : pc[s] = "s3put" => Key(s) # Key(r)
      BY DEF S3PutObject, Apart
    <3>2. /\ versions' = versions /\ blobs[Key(r)] = None
          /\ \A k \in Keys : blobs'[k] = IF k = Key(r) THEN req[r].content ELSE blobs[k]
          /\ pc'[r] = "upsert"
          /\ \A s \in Requests \ {r} : pc[s] = "s3put" => Key(s) # Key(r)
      BY <2>0, <2>2, <3>0, <3>1 DEF FsPut, S3PutObject, Goto, TypeOK
    <3>3. versions[Key(r)] = None
      BY <2>0, <3>2, NoneAssumption DEF TypeOK
    <3>4. \A s \in Requests : pc[s] \in Recording => Key(s) # Key(r)
      BY <1>0, <3>2
    <3>5. \A k \in Keys : versions[k] # None => k # Key(r)
      BY <3>3
    <3>6. \A s \in Requests : pc[s] = "s3put" => Key(s) \in Keys
      BY KeyInKeys
    <3>7. \A s \in Requests : pc'[s] = "s3put" => blobs'[Key(s)'] = None
      BY <1>2, <3>2, <3>6, Frame
    <3>8. \A s \in Requests : pc'[s] \in Recording =>
             blobs'[Key(s)'] = req'[s].content /\ versions'[Key(s)'] = None
      BY <1>0, <1>2, <2>0, <3>2, <3>3, <3>4, Frame
    <3>9. OneRecorder'
      BY <1>2, <3>2, <3>4, Frame
    <3>10. BlobMatchesRecord'
      BY <3>2, <3>5
    <3> QED
      BY <3>7, <3>8, <3>9, <3>10
  <2>3. CASE /\ UNCHANGED <<versions, blobs>>
             /\ pc'[r] \in Recording => pc[r] \in Recording
             /\ pc'[r] = "s3put" => blobs[Key(r)] = None
    BY <1>2, <2>3, Frame
  <2>4. CASE FsPut(r) /\ blobs[Key(r)] # None
    BY <2>3, <2>4 DEF FsPut, Reply, TypeOK, Recording, InTransaction
  <2>5. CASE S3Head(r)
    BY <2>3, <2>5 DEF S3Head, stores, Goto, Reply, TypeOK, Recording, InTransaction
  <2>6. CASE /\ ~Records(r) /\ ~S3PutObject(r) /\ ~S3Head(r)
             /\ ~(BlobDriver = "fs" /\ FsPut(r))
    <3>1. UNCHANGED <<versions, blobs>>
      BY <1>2, <2>6, RecordsOrNot
      DEF stores, Handle, Put, Upsert, PreCheck, SqliteUpsert, PgCountVersions, PgCountPlugins,
          PgInsertPlugin, PgUpdatePlugin, PgInsertVersion, PgCommit, FinalGetVersion, Fail
    <3>2. (pc'[r] \in Recording => pc[r] \in Recording) /\ pc'[r] # "s3put"
      BY <1>2, <2>6
      DEF TypeOK, Recording, InTransaction, Goto, Reply,
          Handle, Put, Upsert, PreCheck, SqliteUpsert, PgCountVersions, PgCountPlugins,
          PgInsertPlugin, PgUpdatePlugin, PgInsertVersion, PgCommit, FinalGetVersion, Fail
    <3> QED
      BY <2>3, <3>1, <3>2
  <2> QED
    BY <2>1, <2>2, <2>4, <2>5, <2>6
<1>3. CASE Tick \/ UNCHANGED vars \/ \E k \in Keys, d \in Dates : AdminSetPublishedAt(k, d)
  <2>1. /\ UNCHANGED <<blobs, pc, req>>
        /\ \A k \in Keys : versions'[k] = None <=> versions[k] = None
        /\ RowsKept
    BY <1>3, QuietFrame, RowsStay
  <2>2. \A s \in Requests : Key(s)' = Key(s)
    BY <2>1 DEF Key
  <2> QED
    BY <1>0, <2>1, <2>2 DEF RowsKept
<1> QED
  BY <1>1, <1>2, <1>3 DEF Next

\* With hard links nobody is ever between HeadObject and PutObject.
LEMMA FsStagedStep ==
  ASSUME TypeOK, Asked, OwnDriver, CommitIsFree, FsStaged, [Next]_vars
  PROVE  FsStaged'
<1>1. BlobDriver = "fs" => Apart
  BY DEF OwnDriver, Apart
<1> QED BY <1>1, StagedStep DEF FsStaged

-----------------------------------------------------------------------------
(***************************************************************************)
(* Theorems                                                                *)
(***************************************************************************)

LEMMA InitStaged == Init => Staged
BY DEF Init, Staged, OneRecorder, BlobMatchesRecord, Recording, InTransaction

\* The invariant holds of an empty registry.
LEMMA InitIInv == Init => IInv
<1> SUFFICES ASSUME Init PROVE IInv
  OBVIOUS
<1>1. TypeOK /\ Asked
  BY DEF Init, TypeOK, Asked, Places
<1>2. AnsweredLast /\ OwnDriver /\ LockHeld /\ CommitIsFree /\ KnowledgeOK
  BY <1>1, NoneAssumption
  DEF Init, AnsweredLast, OwnDriver, LockHeld, CommitIsFree, KnowledgeOK, OwnRow,
      CreatedIsDurable, ConflictIsTrue, Recording, InTransaction
<1>3. LatestIsRecorded
  BY DEF Init, LatestIsRecorded, Keys
<1>4. FsStaged
  BY InitStaged DEF FsStaged
<1> QED
  BY <1>1, <1>2, <1>3, <1>4 DEF IInv, KnowledgeOK

\* Every step preserves it.
LEMMA NextIInv == IInv /\ [Next]_vars => IInv'
  BY TypeStep, AnsweredLastStep, OwnDriverStep, LockHeldStep, CommitIsFreeStep,
     KnowledgeStep, LatestStep, FsStagedStep
  DEF IInv, KnowledgeOK

\* The inductive invariant holds in every reachable state.
THEOREM Invariance == Spec => []IInv
  BY InitIInv, NextIInv, PTL DEF Spec

\* Handlers and stores hold what their types say, whatever is published, by
\* whomever, and whatever fails.
THEOREM TypeCorrect == Spec => []TypeOK
<1>1. IInv => TypeOK
  BY DEF IInv
<1> QED
  BY <1>1, Invariance, PTL

\* With fsblob, every version that either database lists can be downloaded
\* with the checksum that was recorded for it.
THEOREM FsBlobsMatch == BlobDriver = "fs" => (Spec => []BlobMatchesRecord)
<1> SUFFICES ASSUME BlobDriver = "fs"
             PROVE  Spec => []BlobMatchesRecord
  OBVIOUS
<1>1. IInv => BlobMatchesRecord
  BY DEF IInv, FsStaged, Staged
<1> QED
  BY <1>1, Invariance, PTL

\* A 201 is true for ever, with either blob store and either database: the
\* version is recorded with the checksum of the tarball that was uploaded.
THEOREM CreatedStays == Spec => []CreatedIsDurable
<1>1. IInv => CreatedIsDurable
  BY DEF IInv
<1> QED
  BY <1>1, Invariance, PTL

\* "latest" always resolves to a recorded version.
THEOREM LatestResolves == Spec => []LatestIsRecorded
<1>1. IInv => LatestIsRecorded
  BY DEF IInv
<1> QED
  BY <1>1, Invariance, PTL

\* A recorded version stays for ever with its checksum.
THEOREM Immutability == Spec => RowsImmutable
<1>1. IInv /\ [Next]_vars => [\A k \in Keys : versions[k] # None =>
           /\ versions'[k] # None
           /\ versions'[k].checksum = versions[k].checksum]_vars
  BY RowsStay DEF IInv, RowsKept
<1> QED
  BY <1>1, Invariance, PTL DEF Spec, RowsImmutable
\* A 409 is true: the version really is published.
THEOREM ConflictStays == Spec => []ConflictIsTrue
<1>1. IInv => ConflictIsTrue
  BY DEF IInv
<1> QED
  BY <1>1, Invariance, PTL

\* With fsblob, at most one handler at a time is on the way to record a version.
THEOREM FsOneRecorder == BlobDriver = "fs" => (Spec => []OneRecorder)
<1> SUFFICES ASSUME BlobDriver = "fs"
             PROVE  Spec => []OneRecorder
  OBVIOUS
<1>1. IInv => OneRecorder
  BY DEF IInv, FsStaged, Staged
<1> QED
  BY <1>1, Invariance, PTL

\* The S3 PutObject of a handler whose upload is staged writes a new tarball.
LEMMA BlobsStayStep ==
  ASSUME IInv, Staged, [Next]_vars
  PROVE  \A k \in Keys : blobs[k] # None => blobs'[k] = blobs[k]
<1> USE DEF IInv
<1>1. ASSUME NEW r \in Requests, FsPut(r) \/ S3PutObject(r)
      PROVE  \A k \in Keys : blobs[k] # None => blobs'[k] = blobs[k]
  <2>1. UNCHANGED blobs \/ (/\ blobs[Key(r)] = None
                           /\ blobs' = [blobs EXCEPT ![Key(r)] = req[r].content])
    BY <1>1 DEF FsPut, S3PutObject, Staged
  <2> QED BY <2>1 DEF TypeOK
<1>2. ASSUME NEW r \in Requests, Handle(r) \/ Fail(r), ~FsPut(r), ~S3PutObject(r)
      PROVE  blobs' = blobs
  BY <1>2
  DEF stores, Handle, Put, Upsert, PreCheck, S3Head, SqliteUpsert, PgCountVersions, PgCountPlugins,
      PgInsertPlugin, PgUpdatePlugin, PgInsertVersion, PgCommit, FinalGetVersion, Fail
<1> QED
  BY <1>1, <1>2, StartFrame, QuietFrame DEF Next

\* With fsblob, no stored tarball is ever overwritten, recorded or not.
THEOREM FsBlobsStay == BlobDriver = "fs" => (Spec => BlobsImmutable)
<1> SUFFICES ASSUME BlobDriver = "fs"
             PROVE  Spec => BlobsImmutable
  OBVIOUS
<1>1. IInv /\ [Next]_vars =>
        [\A k \in Keys : blobs[k] # None => blobs'[k] = blobs[k]]_vars
  BY BlobsStayStep DEF IInv, FsStaged
<1> QED
  BY <1>1, Invariance, PTL DEF Spec, BlobsImmutable

-----------------------------------------------------------------------------
(***************************************************************************)
(* Uploads to S3 that keep apart                                           *)
(*                                                                         *)
(* s3blob promises that Put refuses an existing object, and cannot keep    *)
(* it: two publishes of one version may both pass HeadObject.  These       *)
(* theorems say that this is the only thing that can go wrong with it.  In *)
(* any behaviour without it, whatever else overlaps, fails or crashes, S3  *)
(* does all that hard links do.                                            *)
(***************************************************************************)

\* Publishes that keep apart stay staged.
LEMMA ApartStaged == Spec /\ []Apart => []Staged
<1>1. IInv /\ Apart /\ Staged /\ [Next]_vars => Staged'
  BY StagedStep DEF IInv
<1> QED
  BY <1>1, InitStaged, Invariance, PTL DEF Spec

\* With either blob store: while publishes keep apart between HeadObject and
\* PutObject, every version that the database lists can be downloaded with the
\* checksum that was recorded for it.
THEOREM ApartBlobsMatch == Spec /\ []Apart => []BlobMatchesRecord
<1>1. Staged => BlobMatchesRecord
  BY DEF Staged
<1> QED
  BY <1>1, ApartStaged, PTL

\* While they keep apart, at most one handler is on the way to record a version.
THEOREM ApartOneRecorder == Spec /\ []Apart => []OneRecorder
<1>1. Staged => OneRecorder
  BY DEF Staged
<1> QED
  BY <1>1, ApartStaged, PTL

\* While they keep apart, no stored tarball is ever overwritten.
THEOREM ApartBlobsStay == Spec /\ []Apart => BlobsImmutable
<1>1. IInv /\ Staged /\ [Next]_vars =>
        [\A k \in Keys : blobs[k] # None => blobs'[k] = blobs[k]]_vars
  BY BlobsStayStep
<1> QED
  BY <1>1, ApartStaged, Invariance, PTL DEF Spec, BlobsImmutable

-----------------------------------------------------------------------------
(***************************************************************************)
(* Registry implements VersionLedger                                       *)
(***************************************************************************)

\* An empty registry is an empty ledger.
LEMMA LedgerInit == Init => Ledger!Init
<1> SUFFICES ASSUME Init PROVE Ledger!Init
  OBVIOUS
<1>1. \A k \in Keys : versions[k] = None
  BY DEF Init
<1>2. served = [k \in Keys |-> None]
  BY <1>1 DEF served
<1> QED
  BY <1>2 DEF Init, Ledger!Init, Keys

\* The commit that records a version is the ledger's one step; all else leaves
\* what downloads deliver, and what "latest" means, as it was.
LEMMA LedgerStep ==
  ASSUME IInv, Staged, Staged', [Next]_vars
  PROVE  [Ledger!Next]_<<served, plugins>>
<1> USE DEF IInv
<1>1. CASE /\ UNCHANGED plugins
           /\ \A k \in Keys : versions'[k] = None <=> versions[k] = None
  <2>1. \A k \in Keys : versions[k] # None => blobs'[k] = blobs[k]
    BY <1>1, RowsStay DEF Staged, BlobMatchesRecord, RowsKept
  <2>2. served' = served
    BY <1>1, <2>1 DEF served
  <2> QED
    BY <1>1, <2>2
<1>2. ASSUME NEW r \in Requests, Handle(r), Records(r)
      PROVE  Ledger!Next
  <2>0. /\ req[r].plugin \in Plugins /\ req[r].version \in Versions
        /\ req[r].content \in Contents
        /\ Key(r) \in Keys /\ Key(r) = <<req[r].plugin, req[r].version>>
        /\ Row(r) # None
    BY <1>2, HandlerTypes, KeyInKeys, RowInRows, NoneAssumption DEF Key
  <2>1. /\ versions[Key(r)] = None
        /\ \A k \in Keys : versions'[k] = IF k = Key(r) THEN Row(r) ELSE versions[k]
        /\ blobs' = blobs /\ blobs[Key(r)] = req[r].content
    BY <1>2, <2>0 DEF Records, WriteRows, TypeOK, Staged, Recording, InTransaction
  <2>2. served' = [served EXCEPT ![Key(r)] = req[r].content]
    BY <2>0, <2>1 DEF served
  <2>3. served[Key(r)] = None
    BY <2>0, <2>1 DEF served
  <2>4. plugins' = [plugins EXCEPT ![req[r].plugin] = req[r].version]
    BY <1>2 DEF Records, WriteRows
  <2>5. Ledger!Record(req[r].plugin, req[r].version, req[r].content)
    BY <2>0, <2>2, <2>3, <2>4 DEF Ledger!Record
  <2> QED
    BY <2>0, <2>5 DEF Ledger!Next
<1>3. ASSUME NEW r \in Requests, StartPublish(r) \/ RejectPublish(r) \/ Fail(r)
      PROVE  [Ledger!Next]_<<served, plugins>>
  BY <1>1, <1>3, StartFrame DEF Fail
<1> QED
  BY <1>1, <1>2, <1>3, RecordsOrNot, QuietFrame DEF Next

\* With fsblob, publishing over two stores looks from outside like one
\* write-once table: a version appears together with its tarball and as the
\* plugin's latest, in one step, and neither it nor its tarball changes again.
THEOREM Refinement == BlobDriver = "fs" => (Spec => ImplementsLedger)
<1> SUFFICES ASSUME BlobDriver = "fs"
             PROVE  Spec => Ledger!Spec
  BY DEF ImplementsLedger
<1>1. IInv /\ [Next]_vars => [Ledger!Next]_(Ledger!vars)
  BY LedgerStep, NextIInv DEF IInv, FsStaged, Ledger!vars
<1> QED
  BY <1>1, LedgerInit, Invariance, PTL DEF Spec, Ledger!Spec

\* And so it looks with S3, over either database, as long as publishes keep
\* apart between HeadObject and PutObject.
THEOREM ApartRefinement == Spec /\ []Apart => ImplementsLedger
<1>1. IInv /\ Staged /\ Staged' /\ [Next]_vars => [Ledger!Next]_(Ledger!vars)
  BY LedgerStep DEF Ledger!vars
<1> QED
  BY <1>1, LedgerInit, ApartStaged, Invariance, PTL
  DEF Spec, Ledger!Spec, ImplementsLedger

-----------------------------------------------------------------------------
(***************************************************************************)
(* What is stored, and what is left behind                                 *)
(***************************************************************************)

\* What a handler publishes has the name and version of its own manifest.
Named == \A r \in Requests : pc[r] # "idle" =>
            /\ Manifest[req[r].content] = <<req[r].plugin[2], req[r].version>>
            /\ req[r].version \in SemVer

LEMMA NamedStep ==
  ASSUME TypeOK, Asked, Named, StoredUnderItsOwnName, [Next]_vars
  PROVE  Named' /\ StoredUnderItsOwnName'
<1> USE DEF Named, StoredUnderItsOwnName
<1>1. ASSUME NEW r \in Requests, StartPublish(r)
      PROVE  Named' /\ StoredUnderItsOwnName'
  <2>1. PICK user \in Users, p \in Plugins, v \in Versions, c \in Contents, d \in Dates :
           /\ Acceptable(user, p, v, c, d)
           /\ req' = [req EXCEPT ![r] =
                         [plugin |-> p, version |-> v, content |-> c, date |-> d]]
    BY <1>1 DEF StartPublish
  <2>2. req'[r] = [plugin |-> p, version |-> v, content |-> c, date |-> d]
    BY <2>1 DEF TypeOK
  <2>3. /\ Manifest[req'[r].content] = <<req'[r].plugin[2], req'[r].version>>
        /\ req'[r].version \in SemVer
    BY <2>1, <2>2 DEF Acceptable
  <2>4. /\ UNCHANGED blobs
        /\ \A s \in Requests \ {r} : pc'[s] = pc[s] /\ req'[s] = req[s]
    BY <1>1, StartFrame
  <2>5. Named'
    BY <2>3, <2>4
  <2>6. StoredUnderItsOwnName'
    BY <2>4
  <2> QED BY <2>5, <2>6
<1>2. ASSUME NEW r \in Requests, RejectPublish(r)
      PROVE  Named' /\ StoredUnderItsOwnName'
  <2>1. pc'[r] = "idle"
    BY <1>2 DEF RejectPublish, TypeOK
  <2> QED BY <1>2, <2>1, StartFrame
<1>3. ASSUME NEW r \in Requests, Handle(r) \/ Fail(r)
      PROVE  Named' /\ StoredUnderItsOwnName'
  <2>0. pc[r] # "idle" /\ Key(r) \in Keys
    BY <1>3, HandlerTypes, KeyInKeys
  <2>1. /\ \A s \in Requests : /\ req'[s].plugin = req[s].plugin
                               /\ req'[s].content = req[s].content
                               /\ req'[s].version = req[s].version
        /\ \A s \in Requests \ {r} : pc'[s] = pc[s]
    BY <1>3, Frame DEF Key
  <2>2. Named'
    BY <2>0, <2>1
  <2>3. UNCHANGED blobs \/ blobs' = [blobs EXCEPT ![Key(r)] = req[r].content]
    BY <1>3 DEF stores, Handle, Put, Upsert, PreCheck, FsPut, S3Head, S3PutObject, SqliteUpsert,
         PgCountVersions, PgCountPlugins, PgInsertPlugin, PgUpdatePlugin,
         PgInsertVersion, PgCommit, FinalGetVersion, Fail
  <2>4. /\ Manifest[req[r].content] = <<Key(r)[1][2], Key(r)[2]>>
        /\ Key(r)[2] \in SemVer
    BY <2>0 DEF Key
  <2>5. StoredUnderItsOwnName'
    BY <2>0, <2>3, <2>4 DEF TypeOK
  <2> QED BY <2>2, <2>5
<1>4. CASE UNCHANGED <<pc, req, blobs>>
  BY <1>4
<1> QED BY <1>1, <1>2, <1>3, <1>4, QuietFrame DEF Next

\* Nothing is ever stored under a name or version that its own plugin.json does
\* not give, with either blob store and whoever overwrites whom.
THEOREM OwnNamesOnly == Spec => []StoredUnderItsOwnName
<1>1. Init => Named /\ StoredUnderItsOwnName
  BY DEF Init, Named, StoredUnderItsOwnName
<1>2. IInv /\ Named /\ StoredUnderItsOwnName /\ [Next]_vars
        => (Named /\ StoredUnderItsOwnName)'
  BY NamedStep DEF IInv
<1> QED BY <1>1, <1>2, Invariance, PTL DEF Spec

\* With hard links and SQLite's single transaction, a handler that has stored its
\* tarball records it.
LEMMA HandlersRecord ==
  ASSUME BlobDriver = "fs", MetaDriver = "sqlite",
         IInv, NEW r \in Requests, Handle(r), NEW k \in Keys, ~Orphan(k)
  PROVE  ~Orphan(k)'
<1> USE DEF IInv
<1>0. Key(r) \in Keys /\ Row(r) # None
  BY HandlerTypes, KeyInKeys, RowInRows, NoneAssumption
<1>1. pc[r] \in Recording => pc[r] = "upsert"
  BY DEF OwnDriver
<1>2. CASE FsPut(r)
  <2>1. CASE blobs[Key(r)] # None
    <3>1. blobs' = blobs /\ versions' = versions
      BY <1>2, <2>1 DEF FsPut
    <3>2. pc[r] \notin Recording
      BY <1>2 DEF FsPut, Recording, InTransaction
    <3> QED BY <3>1, <3>2, Frame DEF Orphan
  <2>2. CASE blobs[Key(r)] = None
    <3>1. /\ \A j \in Keys \ {Key(r)} : blobs'[j] = blobs[j]
          /\ versions' = versions
          /\ pc[r] \notin Recording /\ pc'[r] \in Recording
      BY <1>2, <2>2 DEF FsPut, Goto, TypeOK, Recording, InTransaction
    <3> QED BY <3>1, Frame DEF Orphan
  <2> QED BY <2>1, <2>2
<1>3. CASE SqliteUpsert(r)
  <2>1. versions[Key(r)] = None
    BY <1>3 DEF SqliteUpsert, FsStaged, Staged, Recording
  <2>2. /\ \A j \in Keys : versions'[j] = IF j = Key(r) THEN Row(r) ELSE versions[j]
        /\ blobs' = blobs
    BY <1>0, <1>3, <2>1 DEF SqliteUpsert, WriteRows, TypeOK
  <2> QED BY <1>0, <2>2, Frame DEF Orphan
<1>4. CASE ~FsPut(r) /\ ~SqliteUpsert(r)
  <2>1. PreCheck(r) \/ FinalGetVersion(r)
    BY <1>1, <1>4
    DEF Handle, Put, Upsert, OwnDriver, Recording, InTransaction, S3Head, S3PutObject,
        PgCountVersions, PgCountPlugins, PgInsertPlugin, PgUpdatePlugin,
        PgInsertVersion, PgCommit
  <2>2. UNCHANGED <<versions, blobs>> /\ pc[r] \notin Recording
    BY <2>1 DEF PreCheck, FinalGetVersion, stores, Recording, InTransaction
  <2> QED BY <2>2, Frame DEF Orphan
<1> QED BY <1>2, <1>3, <1>4

\* What leaves an orphan is the failure of the handler that stored it.
LEMMA OrphanStep ==
  ASSUME BlobDriver = "fs", MetaDriver = "sqlite",
         IInv, [Next]_vars, NEW k \in Keys, ~Orphan(k), Orphan(k)'
  PROVE  \E r \in Requests : Fail(r) /\ pc[r] \in Recording /\ Key(r) = k
<1> USE DEF IInv
<1>1. ASSUME NEW r \in Requests, StartPublish(r) \/ RejectPublish(r)
      PROVE  FALSE
  BY <1>1, StartFrame DEF Orphan, Recording, InTransaction
<1>2. ASSUME NEW r \in Requests, Handle(r)
      PROVE  FALSE
  BY <1>2, HandlersRecord
<1>3. ASSUME NEW r \in Requests, Fail(r)
      PROVE  pc[r] \in Recording /\ Key(r) = k
  <2>1. UNCHANGED <<versions, blobs>>
    BY <1>3 DEF Fail
  <2> QED BY <1>3, <2>1, Frame DEF Orphan
<1>4. ~(Tick \/ UNCHANGED vars \/ \E j \in Keys, d \in Dates : AdminSetPublishedAt(j, d))
  <2> SUFFICES ASSUME Tick \/ UNCHANGED vars
                      \/ \E j \in Keys, d \in Dates : AdminSetPublishedAt(j, d)
               PROVE  FALSE
    OBVIOUS
  <2>1. /\ UNCHANGED <<blobs, pc, req>>
        /\ versions'[k] = None <=> versions[k] = None
    BY QuietFrame
  <2>2. \A s \in Requests : Key(s)' = Key(s)
    BY <2>1 DEF Key
  <2> QED BY <2>1, <2>2 DEF Orphan
<1> QED BY <1>1, <1>2, <1>3, <1>4 DEF Next

\* With the file system and SQLite only a handler cut off between its two writes
\* leaves a tarball that nobody will record.
THEOREM OnlyCutOffsOrphan ==
  BlobDriver = "fs" /\ MetaDriver = "sqlite" => (Spec => OrphansAreCutOff)
<1> SUFFICES ASSUME BlobDriver = "fs", MetaDriver = "sqlite"
             PROVE  Spec => OrphansAreCutOff
  OBVIOUS
<1>1. ASSUME IInv, [Next]_vars, NEW k \in Keys, ~Orphan(k), Orphan(k)'
      PROVE  \E r \in Requests : /\ pc[r] \in Recording
                                 /\ Key(r) = k
                                 /\ answer'[r].code = "fault"
  <2>1. PICK r \in Requests : Fail(r) /\ pc[r] \in Recording /\ Key(r) = k
    BY <1>1, OrphanStep
  <2>2. answer'[r].code = "fault"
    BY <1>1, <2>1 DEF Fail, Reply, IInv, TypeOK
  <2> QED BY <2>1, <2>2
<1>2. IInv /\ [Next]_vars =>
        [\A k \in Keys : ~Orphan(k) /\ Orphan(k)' =>
           \E r \in Requests : /\ pc[r] \in Recording
                               /\ Key(r) = k
                               /\ answer'[r].code = "fault"]_vars
  BY <1>1
<1> QED BY <1>2, Invariance, PTL DEF Spec, OrphansAreCutOff
=============================================================================
