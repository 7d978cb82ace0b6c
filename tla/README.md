# A TLA+ model of the agentreg plugin registry

`agentreg` (KrateAI) is a registry for agent plugins: a server that stores
plugin tarballs and their metadata, a command-line client (`krate`) that
publishes and installs them, and a crawler that mirrors a public catalogue.
This directory specifies the parts of it that are hard to test, model-checks
them with TLC on small instances and proves the main results for every
instance with TLAPS.

## The system

| Component | State it keeps | Operations | What makes it correct |
|---|---|---|---|
| Publishing: `Registry.Publish`, `handlePublish` | none of its own; it writes the two stores | publish a version, correct a date | a version is written once, its row and its tarball agree, the answer is true |
| Blob stores: `fsblob`, `s3blob` | one tarball per scope/name/version | `Put`, `Open` | a tarball is never replaced |
| Metadata stores: `sqlite`, `postgres` | tables users, tokens, plugins, versions, email_verifications, password_resets | upsert a version, read, count, consume tokens | each operation is atomic; constraints keep rows unique |
| Downloading: `ResolveVersion`, `handleDownload` | `download_count` | resolve `latest`, open, count, stream | header and body agree, what exists is found |
| Accounts: `Signup`, tokens, verification, password reset | rows of users and tokens | sign up, log in, verify, request and confirm a reset | a token works once, in time, for its own user |
| Login lockout: `LoginLockout`, `RedisLockout` | recent failures per user | `Locked`, `RecordFailure`, `Reset` | enough failures lock an account, a window later it is free |
| Rate limits: `RateLimiter`, `RedisLimiter` | a token bucket per key | `Allow` | never more than the burst plus the refill, and no less |
| Client: `krate install`, `uninstall` | installed directories and `krate-lock.json` | install, uninstall, list | the lockfile says what is on disk |
| Search index and migrations | `plugins_fts`, `schema_migrations` | open, triggers, search, plugin page | every plugin can be found, the parts of an answer agree |
| Packing: `internal/pack` | none | pack, extract under a size limit | an archive is unpacked whole or refused |
| Crawler: `internal/crawler` | what one run has fetched and found | fetch, validate, check, date, publish, report | what it reports is there, everything is mirrored in the end |
| Manifests, mail, web, logging, wiring | none | | pure functions of their input, or output only |

A publish goes through both stores, which share no transaction:
`handlePublish` unpacks and validates the tarball, `Registry.Publish` compares
the manifest with the URL, asks the database whether the version exists,
calls `blob.Put`, then `UpsertPluginAndVersion`, and reads the row back for the
answer. Downloads read the same two stores in four steps. All of it runs
concurrently, in one goroutine per request, and with Postgres, S3 and Redis in
several server replicas. Nothing holds a lock across two calls, so every
interleaving of the calls of two requests can happen; any call can fail, a
client that disconnects cancels the context of its request, and a server may be
killed between two calls. The crawler is one more client of the publish
handler, behind the same rate limit as every other; the command-line client
reads what downloads deliver and shares nothing with the server but that.

`PROJECT.json` lists what can go wrong because of that ("hazards"), each with
the line where it bites and the properties that would show it.

## The modules

| Module | Models | State |
|---|---|---|
| `Registry` | publishing over both stores, all four driver combinations | the tables `versions` and `plugins`, the blob store, Postgres row locks, one handler per request, the clock |
| `VersionLedger` | what the registry promises: a write-once table of versions, and a latest version that is always one of them | what a download of each version delivers, `latest` |
| `Downloads` | `handleDownload` running against `Registry` | one handler per download, the counters |
| `LedgerReads` | what a download promises: an answer that was right for one moment of the `VersionLedger` between arrival and answer | what each reader asks, what it has found, its answer |
| `Accounts` | signing up, verifying, logging in and resetting the password, over both databases and both lockouts | the tables `users`, `tokens`, `email_verifications` and `password_resets`, mailboxes, failure counts, one handler per request |
| `OneTimeTokens` | what a password reset promises: a live token lets one password through, once, and nothing else changes one | passwords, and each token's owner and status |
| `Crawl` | runs of the crawler against `Registry` and its publish limiter, while the repositories move on | the stage and the caches of each run, commits and their dates, the limiter's tokens |
| `Limits` | the token bucket of one key, in memory or in Redis | the bucket, clock readings on their way, what was granted when |
| `Install` | `krate install` and `krate uninstall` in one project, with the extraction of archives | the directories, `krate-lock.json`, the commands running |
| `Listing` | opening a SQLite database and migrating its full-text index; searches and plugin pages on its one connection | the tables `plugins` and `versions`, the index, who holds the connection, what each reader has read |
| `MCRegistry`, `MCDownloads`, `MCAccounts`, `MCCrawl`, `MCLimits`, `MCInstall`, `MCListing` | small instances for TLC | |
| `RegistryProofs`, `DownloadsProofs`, `AccountsProofs`, `LimitsProofs`, `InstallProofs`, `ListingProofs`, `CrawlProofs` | theorems about the module each is named after | |
| `NaturalSets` | two lemmas on sets of natural numbers, for the proofs that need an induction | |

`Downloads` and `Crawl` extend `Registry`: their steps and those of publishes
interleave, and `Crawl` states its own `NoOrphan` and `ErrorMeansBeaten` about the
registry's stores and answers. `Registry`, `Downloads` and `Accounts` are
shown to implement the abstract `VersionLedger`, `LedgerReads` and
`OneTimeTokens` by refinement mappings (`ImplementsLedger`, `ImplementsReads`,
`ImplementsOneTimeTokens`).

Operators marked "(A bug: ...)" in a comment are what plausible mistakes in
the code would turn a definition into. No specification uses them:
`PROJECT.json` pairs each with the property that must find it.

### How `Registry` corresponds to the code

`versions[k]` is the row of the table `versions` for scope, name and version
(its checksum and its `published_at`), `plugins[p]` the `latest_version` column
of a plugin's row, `blobs[k]` the tarball at `scope/name/version`; `None` is
"no such row" and "no such object". A checksum is represented by the content it
was computed from: equal bytes, equal checksum. `pc[r]` is the next call of the
handler of request `r`, `req[r]` its arguments, `answer[r]` the status and the
checksum of its response.

| Action | Code |
|---|---|
| `StartPublish`, `RejectPublish` | `handlePublish` up to `reg.Publish` and Publish's checks of scope, manifest, version and date |
| `PreCheck` | `GetVersion` before the upload |
| `FsPut` | `fsblob.Put`: staging is local, `os.Link` is the one visible step |
| `S3Head`, `S3PutObject` | the two calls of `s3blob.Put` |
| `Put`, `Upsert` | the two interfaces: which driver's `Put` and `UpsertPluginAndVersion` a step begins is settled by the constants |
| `SqliteUpsert` | `UpsertPluginAndVersion`; one connection, so the transaction is one step |
| `PgCountVersions` ... `PgCommit` | the statements of Postgres' `UpsertPluginAndVersion` at READ COMMITTED; `rowLock` is the lock on the plugin's row (or on its key, for an INSERT) |
| `FinalGetVersion` | the row read back for the 201 |
| `Fail` | a call fails, the context is cancelled or the process dies; a step may have taken effect before its answer was lost, and an open transaction is rolled back |
| `AdminSetPublishedAt` | the admin endpoint, one UPDATE |
| `Tick` | the clock |

A 500 that the logic of the handler produces (an unrecognised conflict) has the
code `error`; one that a failing call produces has the code `fault`. The
distinction is what `ErrorMeansBeaten` and `OrphansAreCutOff` are about. Left out: keyword, skill and
README columns, listing and search, which only read or only carry data.
Two tarballs for one version with the same bytes are the same content, so
replacing one by the other is no change.

`Downloads` adds one handler per download: `GetPlugin` and `GetVersion` are
`ResolveVersion`, then `OpenTarball`, `IncrementDownloadCount` (or
`SkipDownloadCount` when it fails and is only logged) and `Deliver`. An opened
file or S3 response keeps its bytes, so the body is fixed when the tarball is
opened. `expected` is a history variable the code does
not have. Each element of `Downloads` is one request and is served once. The
second read of `ResolveVersion` has two places, `getLatest` after `GetPlugin` and
`getVersion` for a version the URL names; what the handler held is forgotten when
it returns, except for the header and body of a 200.

For `LedgerReads`, the moment of a download of `latest` is `GetPlugin`, which reads
the plugin's row: the version named there is recorded and neither its row nor its
tarball changes any more. The moment of a download of a version in the URL is
`GetVersion`. A 404 has its moment in the read that found nothing.

### How `Accounts` corresponds to the code

`accounts[u]` is the row of user `u`, `apiTokens` the users with a row in
`tokens`, `verifications[t]` and `resets[t]` the rows keyed by a token's hash
(whether it has expired stands for `expires_at`, "used" for `used_at`). A token
is a model value: whoever presents one was mailed it, or presents something that
was never drawn. A password hash is represented by its password. `place[r]` is
the next call of the handler of request `r` and `input[r]` what it carries;
`response` is what the current step answers and nothing reads it.

| Action | Code |
|---|---|
| `StartSignup`, `CreateUser`, `CreateVerification`, `MailVerification`, `SkipVerification` | `handleSignup`: `Signup`, then `RequestEmailVerification`, whose failure is only logged |
| `StartVerify`, `SqliteConsumeVerification`; `PgSelectVerification`, `PgCommitVerification` | `handleVerifyEmail` and `ConsumeEmailVerification`, one step with SQLite's single connection; with Postgres the SELECT sees what was committed before it |
| `StartLogin`, `Locked`, `LockedFailsOpen`, `ReadUser`, `ReadUserFails`, `RecordFailure`, `Reset`, `LockoutLost`, `IssueToken` | `handleCreateToken`: lockout, row, bcrypt, lockout again, token |
| `AgeOut` | `prune`, or `ZREMRANGEBYSCORE`: the oldest failure leaves the window |
| `StartReset`, `FindUser`, `CreateReset`, `MailReset` | `RequestPasswordReset` |
| `StartConfirm`, `SqliteConsumeReset`; `PgSelectReset`, `PgMarkUsed`; `UpdatePassword` | `ConfirmPasswordReset`: `ConsumePasswordReset`, and then a statement of its own |
| `Expire` | `time.Now()` passes a token's `expires_at` |
| `Fail`, `Restart` | a call fails or the client goes away; the only server is killed and the in-memory lockout starts afresh |

Time is left open on purpose: a token may expire, and a failure may leave the
window, at any moment. That is more than the clock allows, so what holds here
holds for every TTL and window. A Postgres transaction that has written a row
does nothing more before it commits, so waiting for its lock, writing and
committing are one step. Left out: names and mail addresses that do not
parse, short passwords and labels, which are refused before any of this; the
reading of a bearer token, which changes nothing; and that a login with an
unknown name counts as a failure of that name, which `ReadUser` includes.

### How `Crawl` corresponds to the code

The crawler's runs are the `Requests` of `Registry`, because a run has one
publish under way at most. `at[r]` is the stage of run `r`, `item[r]` the entry
of the list it works on, `cache[r]` the `repoCache` of fetched commits, failures
included. A commit of a repository gives each plugin's directory a content, or
`None` where the directory is missing or no valid plugin. `pushed` has the dates
of the commits; the clock of `Registry` counts them.

Every call of a run may fail, at any time. The crawler's client gives a request up
after 60 seconds (`crawler.go:70`) and the context of the whole run ends after ten
minutes (`cmd/crawler/main.go:46`); either cancels the request's context in the
server, wherever its handler is (`HandlerFails`), and if that is between tarball and
row an orphan is left. `AnswerLost` is the case of a handler that has answered by
then. One abstraction is in this: the run goes on with its list when the server has
noticed, not before, so that a run has one handler at a time. What the handler
would have gone on to do in between is what another run's handler does beside it.

`overtaken` and `cutOff` are histories that only the properties read: the contents
that some run had fetched, and not yet asked the date of, when a push touched their
plugin; and the versions of which a handler was cut off between tarball and row.

| Action | Code |
|---|---|
| `StartCrawl`, `Fetch`, `GithubFails` | the loop over the list: `FetchRepo` once per repository, `Load` and `Validate`; each may fail |
| `Check`, `CheckFails` | `versionAlreadyPublished`: only a 200 counts; an error leaves the entry unpublished in this run (`crawler.go:160`) |
| `LastCommitDate` | GitHub is asked for the newest commit that touches the plugin's path, by the time of the question |
| `Publish`, `TooMany`, `PublishFails` | the limiter of the publish endpoint, then `publishToRegistry`; the request may not get there, with or without the token |
| `Handle`, `HandlerFails` | the server's handler, from `Registry`, and its end by a failing call, a client that is gone or a crash |
| `Answer`, `AnswerLost` | 201, or 409 as `errAlreadyPublished`, is "published"; an answer may not arrive |
| `Refill`, `Push` | the limiter earns a token; somebody pushes |

### How `Limits` corresponds to the code

A tick is the unit of time; a request costs `Cost` units and a bucket earns one
unit a tick, so the floating-point rate `burst/per` becomes whole units.
`AllowInMemory` is `RateLimiter.Allow` under its mutex. `RedisLimiter.Allow`
is two steps, `ReadClock` in the replica (`time.Now()`, ahead by `Skew`) and
`Eval`, the script in Redis, at most `MaxDelay` later; `FailOpen` is a script
that does not answer. `Expired` is the key's EXPIRE. `Restart` empties the
memory. `grants` is a history: when each call was granted, and as which call.

### How `Install` corresponds to the code

`files[d]` is what directory `d` holds, path by path; `lock` is
`krate-lock.json`, or `Empty` when it was just truncated, or `Garbage` when two
commands wrote it at once or one was killed while writing. `job[c]` is the
command being run: where it is, and the lockfile as it has it in memory.

| Action | Code |
|---|---|
| `Fetch`, `FetchRefused` | `cmdInstall` up to the checksum: nothing on disk is touched before it agrees |
| `Remove` | `os.RemoveAll`, file by file |
| `Unpack` | `ExtractReader`, entry by entry, under the limit all entries share |
| `Load`, `Truncate`, `Save` | `loadLockfile`, and the two steps of `os.WriteFile` |
| `Uninstall`, `UninstallRefused` | `cmdUninstall`, which reads the lockfile first |
| `Interrupt` | the command is killed, or a call fails, at any of these places |

`alone`, `sole`, `overlapped`, `known`, `tenants` and `spoiled` are histories
that only the properties read. `spoiled` is what `LockIsTrue` excepts: a plugin in
whose directory, since its last install that ran alone, a command was stopped or
refused, ran beside another, or installed another plugin. These are real gaps:
a failed install leaves a lockfile that names what is no longer there, and a plugin of
the same name from another scope takes the directory (`InstallScopes`).

### How `Listing` corresponds to the code

| Action | Code |
|---|---|
| `ApplySchema`, `RecordMigration`, `Rebuild` | `Open`: `schemaSQL`, the `INSERT OR IGNORE` into `schema_migrations`, and the rebuild of the index by whoever inserted the row |
| `Stop` | the server or `krate-server -backup` ends, or dies, anywhere |
| `Upsert` | `UpsertPluginAndVersion` with the triggers on `plugins` (`IndexRow`) |
| `StartSearch`, `SearchPlugins`, `ExhaustRows`, `SearchKeywords` | `Search`: the rows of the first query hold the pool's one connection until they are exhausted |
| `StartPage`, `PagePlugin`, `PageVersions`, `PageResolve`, `PageVersion` | `handlePlugin`: `GetPlugin`, `ListVersions`, `ResolveVersion`; the API's `handleGetPlugin` is its first two |

A plugin's row is its latest version, which stands for the description that
came with it. FTS5's external-content index keeps no row of its own to compare
with, so deleting a text it does not hold may go unnoticed; when the index is
empty it does not, which `IndexRow` demands. What words match is left out. `lost` and
`older` are histories: was the rebuild cut off, and of which plugins was nothing
published since the triggers exist.

## What TLC checks

The `Registry` instances have two publish requests, which may each be reused, one
user, one plugin name, two versions and two tarballs of the first version
(`c1`, `c2`), one of the second (`c3`) and one whose plugin.json says the
version is `latest` (`c4`). Two handlers are every race between two publishers of
a version; as a request is reused after its handler failed or answered, what it
left in the stores meets the next two. More than two at once are left to
the theorems. Two tarballs of one version are what a mismatched row needs, two
versions what `latest_version` needs.

| Run | Instance | Shows |
|---|---|---|
| `S3Postgres` | S3, Postgres, failures, two publishers, three tarballs, a clock, corrected dates | types; though two uploads of one version can reach the database, a 201 and a 409 stay true, rows are immutable and `latest_version` exists; every publish is answered, whoever waits for whose row lock |
| `Downloads` | fs, SQLite, failures, two publishers of four tarballs and a download | rows and tarballs agree; one handler records at a time; tarballs are never replaced; nothing is stored under a name `ResolveVersion` never looks up; only a handler that is cut off leaves an orphan; the registry implements `VersionLedger`; body and header agree; what existed is found; downloads implement `LedgerReads` |
| `Crawl` | fs, SQLite, any failure, two overlapping runs, one repository of two plugins and two commits, a publish limit of one | what is reported is there; a version has the date of its own commit, unless a push overtook a run; only a handler that is cut off leaves a tarball without a row; a 500 that no failing call explains only goes to who was beaten, or meets such a tarball; everything is mirrored in the end |
| `AccountsSqlite` | SQLite, lockout in Redis, failures, two users | types; good answers are true; only mailed tokens change an account; password resets implement `OneTimeTokens` |
| `AccountsPostgres` | Postgres, lockout in memory, failures and restarts, one user | while transactions interleave, good answers are true, also for the second of two that found one token; the limit is overshot by fewer than the requests in flight; a lockout ends though refused logins go on |
| `Limits` | memory, or Redis and two replicas a tick apart, with calls that take up to a tick | in memory each interval grants exactly the burst and its refill; Redis grants at most two fifths of a request more for each later call in it |
| `Install` | two plugins of one default directory, six archives, two commands at once | how far the lockfile can be trusted; that it is never taken for empty; that unpacking is whole or refused |
| `Listing` | two plugins of two versions, a server and a backup, two readers | the index is never stale, has whatever was published since it exists, and the older rows unless its one rebuild was cut off; the parts of a page agree; no reader waits for itself |

Four runs show where the code does not do what it, or its documentation, says:

| Run | Shows |
|---|---|
| `RetryWedged` | Two different first versions of a new plugin, published at once with Postgres, with no call failing: both count no plugin row, both INSERT it, and the second publisher is answered 500 although nobody published its version, where store.go:110-112 promises an atomic create-if-absent. Its tarball stays without a row, as it would after any failure between `Put` and `UpsertPluginAndVersion`, and every retry is refused by `Put` and answered 500, for ever, where README.md:294 promises that publishing is idempotent. |
| `PgTokenTwice` | With Postgres two confirmations with one reset token both read it unused; the second UPDATE waits for the first and then succeeds, and both set a password. store.go:144 promises that `ConsumePasswordReset` validates and marks a token atomically. |
| `InstallScopes` | `@ann/x` and `@bob/x` are installed one after the other and nothing fails: the default directory does not depend on the scope, so the second install removes the first one's files, and the lockfile, which README.md:88 calls a record of "what's installed and at which resolved version", names for `@ann/x` the directory of `@bob/x`. Uninstalling either removes it. |
| `ListingLost` | A process ends after it recorded the full-text migration and before it rebuilt the index. The next start finds it recorded, and the rows that were there before stay out of every search, where sqlite.go:149-164 promises that the rebuild runs exactly once so that they do not. |

Five more disagreements are in `PROJECT.json` under "findings", without a run that
stops at them; the properties of the run they name state what is left:

- With S3, two publishers of one new version both find no object and both write it
  (s3blob.go:104). The row keeps the checksum of the one, the store the bytes of the
  other, where s3blob.go:101-102 calls the registry's check "what actually closes that
  window in practice". `S3Postgres` has these two uploads; `BlobMatchesRecord` is not
  among its properties because it does not hold there, and `ApartBlobsMatch`
  proves that nothing else breaks it.
- A download is counted when its tarball is open and before it is streamed
  (plugins.go:263), where store.go:130 says "once per successful tarball download".
  `Downloads` has the step; no property is stated about the counter.
- The script for Redis sets `ts` back to a slower or a later clock and earns the same
  time again (redislimiter.go:32), where redislimiter.go:63 promises the semantics of the
  memory. `Budget` bounds what that gives.
- A push between the crawler's fetch and its question dates old content with the new
  commit (crawler.go:169), where crawler.go:41 and README.md:299 promise the
  date of the commit that made it. `DateIsUpstream` holds exactly for all other
  contents, those not in `overtaken`.
- A run that loses the race for a version is answered 500, not the 409 that
  crawler.go:181-185 waits for, and reports an error. `ErrorMeansBeaten` says when.

### Bounds

- `Requests` bounds what is in flight, not how often a request is used. Two are
  every race for one version or one token.
- `MaxTime` is 2 in `S3Postgres`, where `Dates` gives a publish no date, or one in
  the past, now or in the future, as the clock moves; 1 in `Downloads` and
  `RetryWedged`, whose properties are not about dates; 2 in `Crawl`, the number of
  commits: a new version of one plugin, which is a commit of the other one's
  repository; and 13 in `Limits`.
- `Downloads` has one download, started at any time, of any version or `latest`:
  downloads only read, so one does not see another; the theorems have any number.
- `Crawl` has two runs, two plugins and three versions: two versions of one plugin for
  a push to overtake a run, and another plugin that keeps the limiter busy and whose
  fetch fills the cache; `Burst` is 1, so that each publish takes what the other
  wanted.
- `Tokens` bounds the mail tokens ever drawn: two. An account is signed up for with one
  of them, so there is either one account with its verification and one reset, whose token
  two requests may present, or two accounts with a verification each. Two
  resets at once and two users with a reset are left to the theorems (`MailIsProof`,
  `SqliteImplementsOneTimeTokens`), and so is all of that with two users and Postgres.
- `MaxFailures` is 1 with Redis and 2 in memory, so that a lockout starts and ends;
  `FailureBound` stops logins at that count: 9 is never reached.
- `Limits` has a burst of two requests that cost five ticks each, so that refills
  are partial and requests are refused, and readings that are two ticks late at most, less
  than a request costs: were they as late as that, `Budget` would allow a request
  for each call whatever the bucket does. `MaxTime` 13 lets a Redis key expire
  (after 11) and be used again; five calls are more than what an interval grants.
- `Install` has `MaxRuns` 3: an install, one that disturbs it, and one that comes
  after. `Limit` is 2 bytes; the archives reach it exactly, go over it, hold an
  empty file after it, drop a file the other version has, and hold an entry
  that is refused.
- `Listing` is unbounded except for its sets; the tables only grow.

Deadlock is checked everywhere but in `Limits` and `Install`, which stop when
their calls, time or commands are used up. Symmetry is used for requests,
downloads, interchangeable tarballs, users, mail addresses, passwords, tokens
and commands, never in a run with a liveness property.
The file system with Postgres is run only in `RetryWedged`; the theorems cover it.

### Fairness

`Fairness` in `Registry` assumes weak fairness of every handler's own next
step: a goroutine that can run does. Starting a request, failing, the admin and
the clock have none. The wait for a Postgres row lock is strongly fair, because
Postgres queues the waiters of a lock: a handler whose row is free again and
again gets it. `RetriedUntilPublished` has the assumption that somebody retries
in the property itself.

`Fairness` in `Accounts` is weak fairness of every handler and of `AgeOut`: time
passes, so a failure leaves the window in the end. Nothing makes clients stop
trying: `LockoutEnds` holds while logins go on.

`CrawlFairness` lets a run that was started go on, the server serve and the bucket
fill. Nobody has to start a run: mirroring is started by hand (README.md:290; the
scheduled job of crawl.yml does not publish), and any call may fail every time. So
`EventuallyMirrored` has in itself what it needs: that somebody starts the crawler
again and again, as README.md:294 says one may, and that from some time on nothing
goes wrong for it. It ends with an orphan: a version whose tarball has no row is
published again by each run, in vain, and each time it costs a token, which with a
limit as small as the run's keeps others out too.

`Fairness` in `Listing` is strong for the readers: `database/sql` gives its one
connection, when it is free, to one of the requests that wait for it, which current Go
picks at random, so a reader that waits gets it with probability one. That no reader
waits for the connection it holds itself, the case `ReadsAreAnswered` is there for, does
not rest on it. Publishes, openings and crashes have none.

## What is proved

`RegistryProofs` holds for any sets of requests, users, names, versions and
tarballs. The assumptions are the two named in `Registry`: the constants have
their types, and `None` is not a value of any of the sets it is added to.

| Theorem | States |
|---|---|
| `TypeCorrect` | `TypeOK` |
| `CreatedStays`, `ConflictStays` | a 201 and a 409 stay true, with every pair of drivers |
| `LatestResolves` | `LatestIsRecorded`, with every pair of drivers |
| `Immutability` | `RowsImmutable`, with every pair of drivers |
| `FsBlobsMatch`, `FsBlobsStay`, `FsOneRecorder` | `BlobMatchesRecord`, `BlobsImmutable`, `OneRecorder`, for the file system |
| `Refinement` | with the file system the registry implements `VersionLedger` |
| `ApartBlobsMatch`, `ApartBlobsStay`, `ApartOneRecorder`, `ApartRefinement` | the same four with either blob store, for every behaviour in which publishes of a version keep apart (`Apart`) |
| `OwnNamesOnly` | `StoredUnderItsOwnName`: every stored tarball lies under the name and the version of its own manifest, with every pair of drivers |
| `OnlyCutOffsOrphan` | `OrphansAreCutOff`, for the file system and SQLite, whatever fails |

None of these is inductive alone. The invariant of the proofs joins the
following to `TypeOK`: who holds a row lock is exactly who is inside a Postgres
transaction, so the transaction that commits is the only one that knows whether
the version's row exists; what each handler knows at each place of its program
(a handler about to commit has found no row, one at the final read has
written its own); what each answer implies; and, for the file system, that a
handler that is recording a version uploaded the tarball that is stored and is
the only such handler. Each action's preservation of these parts is one step of
the proof. The S3 driver refutes the last part (two uploads of one version), so the
theorems for the file system assume `BlobDriver = "fs"`. The last two stand
on that invariant: `OwnNamesOnly` adds that a request carries the name and
version of its own manifest, and `OnlyCutOffsOrphan` that with SQLite a handler which
has stored its tarball finds no row and writes it; with Postgres `RetryWedged`
refutes it.

`DownloadsProofs` extends both `Downloads` and `RegistryProofs`, for any number
of publishes and downloads. A step of the composition is a step of `Registry` or
leaves it alone, so the invariant of `RegistryProofs` holds there too; on top of
it stand what a download wants, that only semantic versions are recorded (so that
`latest` is never looked up as one), and, while uploads are `Staged`, what it holds: a
row that has been read, or that `latest_version` named, is still there, with its
checksum, when the tarball is opened and when the body is sent. The refinement of
`LedgerReads` follows step by step: from its moment on a download's tarball is what
the ledger has for its version (`SettledIsServed`), so that a publish never
changes what was found (`PublishBesideReads`), and every step of a download is one
of the abstract steps or invisible (`DownloadIsRead`).

| Theorem | States |
|---|---|
| `DownloadTypesHold` | `DownloadTypeOK`, with every pair of drivers |
| `BodiesMatch`, `PublishedAreFound` | `BodyMatchesHeader`, `PublishedIsFound`, for the file system |
| `DownloadsAreAtomic` | with the file system downloads implement `LedgerReads` |
| `ApartDownloads` | these three with S3, for every behaviour in which publishes of a version keep `Apart` |

`AccountsProofs` holds for any sets of requests, users, mail addresses,
passwords and tokens and any limit. It assumes the two assumptions of `Accounts`:
the constants have their types and finitely many requests are served at once,
and `None` is none of the values it is told from.

| Theorem | States |
|---|---|
| `AccountsTypesHold` | `AccountsTypeOK` |
| `GoodAnswersAreTrue` | `AnswersAreTrue`, with both databases and any failures |
| `MailIsProof` | `MailProves`, with both databases, any number of users and any failures: also a token that is consumed twice changes only its owner's account |
| `SqliteResetsAreOneTime` | `ResetTokensAreOneTime`, with SQLite |
| `SqliteImplementsOneTimeTokens` | with SQLite `Accounts` implements `OneTimeTokens` |
| `ApartResetsAreOneTime` | `ResetTokensAreOneTime`, with both databases, for every behaviour in which confirmations of one token keep apart |
| `ApartImplementsOneTimeTokens` | the same for `OneTimeTokens`, if besides no token expires between the SELECT and the UPDATE |
| `FailuresAreBounded` | `FailuresBounded`, for the lockout in memory |

The invariant joins these parts to the types: what a handler carries at each
place (`Shape`); that a token is known to the one handler that drew it until it is
mailed (`Fresh`), so that nobody can present a token before it has its owner;
that tokens belong to accounts (`Owned`); that a handler which consumes a token
acts for the token's user (`Bound`); that a verification found gone at the
commit was consumed for the same user, who is verified already (`Proved`, which
is why two concurrent verifications with Postgres do no harm); that with SQLite
whoever gets hold of a reset token is the first and only one (`OneHolder`, which is
`Unshared` with SQLite); and, for the lockout, that the failures counted and the
logins past the check together stay below the limit plus the requests (`Bounded`):
a login that fails turns from one into the other. Redis may lose a failure or be
passed while it is out of reach, so the last theorem assumes the memory.

`PgTokenTwice` refutes `Unshared` for Postgres. `ConfirmApart` says exactly what
happens there: two requests that present one token are both between the SELECT and
the UPDATE of `ConsumePasswordReset`. While no two are, `Unshared` is kept by every
step, whatever else runs or fails (`UnsharedStep`); with SQLite, which has no such
place, `ConfirmApart` always holds. So the two theorems about Postgres are implications
between temporal formulas: in every behaviour that breaks the promise of store.go:144
two confirmations of one token meet at that place. To implement `OneTimeTokens`, where
only a live token is spent, the token must not expire at that place either (`InTime`):
the UPDATE does not look at `expires_at`.

`LimitsProofs` holds for any burst, cost, number of callers, skews and delays;
`LimitsAssumption` bounds what the two make of a reading by `Lateness`.

| Theorem | States |
|---|---|
| `LimitsTypeCorrect` | `LimitsTypeOK`: the bucket stays between nothing and the burst |
| `BudgetIsKept` | `Budget`, in memory and in Redis |
| `MemoryGrantsExactly` | `MemoryIsExact` |

`Budget` says nothing about what is left in the bucket, so it is not inductive.
The invariant has for every grant that what was granted since then, together
with what is in the bucket, is no more than the burst, what the time up to the
bucket's last call has earned, and `Lateness` for each later call (`Spent`); that
a reading under way and the bucket's `ts` are within the skew and the delay of
the time they stand for (`Clocked`), so that a call earns at most `Lateness` twice;
and, for the memory, that a bucket that is not full accounts for every unit since
some grant (`Exact`), which is why a refusal is always due.

`InstallProofs` holds for any number of commands, plugins, directories and archives
and any limit.

| Theorem | States |
|---|---|
| `InstallTypesHold` | `InstallTypeOK`, with the bytes unpacked never above the limit |
| `LockStaysTrue` | `LockIsTrue`, with its exceptions |
| `LockIsKnown` | `LockSurvives` |
| `UndisturbedInstalls` | an install that had its directory for itself has unpacked the whole archive there and nothing else |
| `ExtractionIsExact` | `ExtractsExactly` |

`LockIsTrue` is about the lockfile on disk; what a command read of it long ago is
written back later, so the invariant says the same of every lockfile in memory
(`AllSound`). It is kept because a command disturbs, from its start to its end,
every plugin that ever was in its directory (`Tainted`), and because after `n`
entries an undisturbed directory holds what the first `n` entries leave behind
(`Unpacked`), nothing after `Remove`. `InTurn` is the case of commands that run
one after the other.

`ExtractsExactly` compares the counter of the loop with `Bytes`, a sum over the
archive defined by recursion. The library's induction principles cannot be
instantiated here, because they take an operator; an induction over a set of
numbers can, because a set that is not all of `Nat` has a least number outside it
(`AllNaturals`, from `LeastNatural`). With it the sums up to every entry exist, are
unique and are what `Bytes` computes (`SumExists`, `SumsAgree`, `BytesAreSums`) and
they only grow (`BytesGrow`). The invariant then says that the counter is the sum of
the entries unpacked and that these fit (`FitsUpTo`); what fits up to every entry fits
(`FitsWhole`), and what fails at one does not (`FitsNot`).

`ListingProofs` holds for any plugins, versions and readers.

| Theorem | States |
|---|---|
| `IndexStaysTrue` | `IndexIsTrue`, with its exception |
| `PageStaysConsistent` | `PageIsConsistent` |

`IndexIsTrue` needs one fact it does not state: who is past the rebuild finds the
migration recorded (`PastMigration`). A page needs that the table `versions` never
forgets and holds each plugin's row (`RowRecorded`), so that what one query found is
there for the next (`PageFollows`).

`CrawlProofs` holds for any list, any repositories and commits, any number of
overlapping runs and any drivers. Its assumptions are those of `Registry` and
`CrawlAssumption`: the list is not empty, every entry has a repository, and every
repository a commit. Any call may fail, any handler be cut off.

| Theorem | States |
|---|---|
| `CrawlTypesHold` | `CrawlTypeOK`, with the limiter's tokens never below 0 |
| `ReportsAreTrue` | `ReportIsTrue` |
| `DatesAreUpstream` | `DateIsUpstream`: the exact commit, or for what a push overtook a later one |
| `CrawlersOrphanNothing`, `CrawlersAreOnlyBeaten` | `NoOrphan` and `ErrorMeansBeaten`, for the file system and SQLite: a tarball without a row was left by a handler that was cut off |
| `CrawlersFillTheLedger` | `ImplementsLedger`, for the file system |

A step of the crawler is a step of the registry, or drops a request that was
answered; either keeps the invariant of `RegistryProofs` (`RegistryKept`), and with
it what a 201 and a 409 say. A date is followed from the question to the row: a
run past the fetch has a commit in which the plugin is there (`Found`); so some
commit is the last to touch the plugin (`LastTouch`). Either it is no later than the
commit that was fetched, and then the content has not changed since (`Unmoved`), or a
push overtook the run, and then it was noticed when it came (`Noticed`). Hence the
date fits the content (`DateFits`, `FoundDate`), stays with the request (`Carried`),
which no push disturbs because commits are only added (`MirroredStays`), and is
never 0 (`Aged`), the value for which the registry would put its own clock. The
last three theorems look at each step as the registry does (`AsTheRegistrySees`): a
step of `Registry`, a failing one included, or the dropping of an answered request,
which no property of the stores notices. Only a handler that is cut off makes an
orphan, and then `cutOff` has its version (`OrphansRemembered`).

Only model-checked are the liveness properties `EveryPublishAnswered`,
`EventuallyMirrored`, `ReadsAreAnswered` and `LockoutEnds`: TLAPS proves no
liveness under fairness. Every other property of a passing run is stated by a
theorem. Where a theorem assumes the file system, SQLite or the lockout in memory,
the runs of the other drivers (`S3Postgres`, `AccountsPostgres`) check what does
hold there, and `RetryWedged`, `PgTokenTwice` and the findings show why the rest does
not.

## What is not modelled

- Manifest and schema validation: a function of JSON documents, whose verdict
  `Registry` and `Crawl` take as an input.
- Packing a directory, and the rules on names of archive entries: functions of their
  input; an entry that the rules refuse ends an extraction like one of kind "other".
- Mail: output only; `Accounts` takes a delivery that may fail.
- Web pages and logging: rendering over the reads that `Listing` and `Downloads`
  have.
- The server's wiring and configuration: a function of its environment. Start, end
  and `-backup` are in `Listing`; a shutdown that runs out of time is `Fail`.
- `krate publish`, `search`, `view`, `list`, `login` and the other commands: one HTTP
  call each, or only a read of the lockfile.
- The hashing of passwords, tokens and checksums: equal values have equal hashes and
  no token is guessed.
- The text a search matches, the keywords, and Postgres' search, which has no index
  to migrate.
- A SQLite file that two processes write at once: one of them would wait for
  `busy_timeout` and may then fail, which `Stop` and `Fail` have as an outcome.
- The crawler's catalog file, a single write for people to read; the parsing of its
  list; and the moment a run gives up an answer: it goes on with its list when the
  server has noticed (`HandlerFails`, then `Answer` or `AnswerLost`), where the program
  may be one entry further by then.
- Where directories cannot be made because a file has their name: `krate install`
  then fails as `Interrupt` has it.
- Memory: buckets and failure lists of keys that are no longer used are never removed.
