------------------------------ MODULE Downloads ------------------------------
(***************************************************************************)
(* Downloads running against the registry while it is published into.      *)
(* handleDownload reads the two stores in several steps and holds no lock: *)
(* it resolves the version, opens the tarball, counts the download and     *)
(* only then streams the body, with the checksum it read at the beginning  *)
(* as a header.                                                            *)
(***************************************************************************)
EXTENDS Registry

CONSTANTS Downloads,        \* the downloads there may be, each served once
          Latest            \* the version string "latest", or none at all

ASSUME DownloadsAssumption == Latest \notin SemVer

\* The places of a download that is being served.  GetVersion is called at
\* "getLatest" for the version that GetPlugin named, at "getVersion" for one
\* that the URL names.
Resolving == {"getLatest", "getVersion"}
Serving == {"getPlugin", "getLatest", "getVersion", "open", "count", "stream"}

VARIABLES
    place,      \* where each download's handler is
    want,       \* [plugin, version], the version resolved in place
    got,        \* [checksum, body]: the header and the open tarball
    reply,      \* "none", "ok" (200), "notFound" (404) or "fault"
    expected,   \* was there something to download when the request arrived?
    downloadCount   \* versions.download_count

downloadVars == <<place, want, got, reply, expected, downloadCount>>

Nothing == [checksum |-> None, body |-> None]

DownloadInit ==
    /\ Init
    /\ place = [d \in Downloads |-> "idle"]
    /\ want = [d \in Downloads |-> None]
    /\ got = [d \in Downloads |-> Nothing]
    /\ reply = [d \in Downloads |-> "none"]
    /\ expected = [d \in Downloads |-> FALSE]
    /\ downloadCount = [k \in Keys |-> 0]

Wanted(d) == <<want[d].plugin, want[d].version>>

\* The download goes on at place p.
Continue(d, p) == /\ place' = [place EXCEPT ![d] = p]
                  /\ UNCHANGED <<reply, expected>>

\* The handler returns; of what it held only the answer is left.
Finish(d, code) == /\ place' = [place EXCEPT ![d] = "done"]
                   /\ reply' = [reply EXCEPT ![d] = code]
                   /\ want' = [want EXCEPT ![d] = None]
                   /\ got' = IF code = "ok" THEN got ELSE [got EXCEPT ![d] = Nothing]
                   /\ UNCHANGED expected

\* A GET of .../{version}/download arrives.
StartDownload(d) ==
    /\ place[d] = "idle"
    /\ \E p \in Plugins, v \in SemVer \cup {Latest} :
         /\ want' = [want EXCEPT ![d] = [plugin |-> p, version |-> v]]
         /\ place' = [place EXCEPT ![d] = IF v = Latest THEN "getPlugin" ELSE "getVersion"]
         /\ expected' = [expected EXCEPT ![d] =
                IF v = Latest THEN plugins[p] # None ELSE versions[<<p, v>>] # None]
    /\ UNCHANGED <<got, reply, downloadCount>>

\* (A bug: GetPlugin's error is ignored.)
GetPluginUnchecked(d) ==
    /\ place[d] = "getPlugin"
    /\ Continue(d, "getLatest")
    /\ want' = [want EXCEPT ![d].version = plugins[want[d].plugin]]
    /\ UNCHANGED <<got, downloadCount>>

\* ResolveVersion: latest_version stands in for "latest" ...
GetPlugin(d) ==
    /\ place[d] = "getPlugin"
    /\ LET p == want[d].plugin IN
         IF plugins[p] = None
           THEN Finish(d, "notFound")
           ELSE /\ Continue(d, "getLatest")
                /\ want' = [want EXCEPT ![d].version = plugins[p]]
                /\ UNCHANGED got
    /\ UNCHANGED downloadCount

\* (A bug: the latest version is served in place of one that is not there.)
GetVersionOrLatest(d) ==
    /\ place[d] \in Resolving
    /\ LET row == versions[Wanted(d)]
           p == want[d].plugin IN
         IF row # None
           THEN /\ Continue(d, "open")
                /\ got' = [got EXCEPT ![d].checksum = row.checksum]
                /\ UNCHANGED want
         ELSE IF plugins[p] # None
           THEN /\ Continue(d, "getLatest")
                /\ want' = [want EXCEPT ![d].version = plugins[p]]
                /\ UNCHANGED got
         ELSE Finish(d, "notFound")
    /\ UNCHANGED downloadCount

\* ... and the version is looked up, whatever was published in between.
GetVersion(d) ==
    /\ place[d] \in Resolving
    /\ LET row == versions[Wanted(d)] IN
         IF row = None
           THEN Finish(d, "notFound")
           ELSE /\ Continue(d, "open")
                /\ got' = [got EXCEPT ![d].checksum = row.checksum]
                /\ UNCHANGED want
    /\ UNCHANGED downloadCount

\* The tarball is opened: from here on its bytes are this download's.
OpenTarball(d) ==
    /\ place[d] = "open"
    /\ LET tarball == blobs[Wanted(d)] IN
         IF tarball = None
           THEN Finish(d, "notFound")
           ELSE /\ Continue(d, "count")
                /\ got' = [got EXCEPT ![d].body = tarball]
                /\ UNCHANGED want
    /\ UNCHANGED downloadCount

\* download_count = download_count + 1, one UPDATE.
IncrementDownloadCount(d) ==
    /\ place[d] = "count"
    /\ downloadCount' = [downloadCount EXCEPT ![Wanted(d)] = @ + 1]
    /\ Continue(d, "stream")
    /\ UNCHANGED <<want, got>>

\* It fails; the handler logs that and serves the tarball all the same.
SkipDownloadCount(d) ==
    /\ Faults
    /\ place[d] = "count"
    /\ Continue(d, "stream")
    /\ UNCHANGED <<want, got, downloadCount>>

\* The whole body reaches the client.  (It was counted before, and stays
\* counted when FailDownload takes the place of this step.)
Deliver(d) ==
    /\ place[d] = "stream"
    /\ Finish(d, "ok")
    /\ UNCHANGED downloadCount

\* A store fails, the client disconnects or the server is killed.
FailDownload(d) ==
    /\ Faults
    /\ place[d] \in Serving
    /\ Finish(d, "fault")
    /\ UNCHANGED downloadCount

Serve(d) ==
    \/ GetPlugin(d) \/ GetVersion(d) \/ OpenTarball(d)
    \/ IncrementDownloadCount(d) \/ SkipDownloadCount(d)
    \/ Deliver(d) \/ FailDownload(d)

DownloadNext ==
    \/ Next /\ UNCHANGED downloadVars
    \/ (\E d \in Downloads : StartDownload(d) \/ Serve(d)) /\ UNCHANGED vars

DownloadSpec == DownloadInit /\ [][DownloadNext]_<<vars, downloadVars>>

-----------------------------------------------------------------------------
(***************************************************************************)
(* Properties                                                              *)
(***************************************************************************)

\* The variables of the downloads keep their shape.
DownloadTypeOK ==
    /\ place \in [Downloads -> Serving \cup {"idle", "done"}]
    /\ want \in [Downloads -> [plugin : Plugins, version : SemVer \cup {Latest}] \cup {None}]
    /\ got \in [Downloads -> [checksum : Contents \cup {None}, body : Contents \cup {None}]]
    /\ reply \in [Downloads -> {"none", "ok", "notFound", "fault"}]
    /\ expected \in [Downloads -> BOOLEAN]
    /\ downloadCount \in [Keys -> Nat]

\* The body a client receives is the one X-Checksum-Sha256 announces, though
\* header and body were read at different times, between which other publishes
\* of the same version may have come and gone.
BodyMatchesHeader ==
    \A d \in Downloads : reply[d] = "ok" => got[d].body = got[d].checksum

\* A version, or the "latest" of a plugin, that existed when the request
\* arrived is never answered 404: the two reads of ResolveVersion and the
\* opening of the tarball agree, whatever is published meanwhile.
PublishedIsFound ==
    \A d \in Downloads : expected[d] => reply[d] # "notFound"

\* From where on the version of a download is settled: "latest" is by
\* GetPlugin, one that the URL names when it is found to be there.
Settled == {"getLatest", "open", "count", "stream"}

\* What LedgerReads calls a download's question, its finding and its answer.
asks == [d \in Downloads |-> IF place[d] \in Serving \ Settled THEN {want[d]} ELSE {}]
found == [d \in Downloads |-> IF place[d] \in Settled THEN {blobs[Wanted(d)]} ELSE {}]
answered == [d \in Downloads |->
               [code |-> reply[d],
                checksum |-> IF reply[d] = "ok" THEN got[d].checksum ELSE None,
                body |-> IF reply[d] = "ok" THEN got[d].body ELSE None]]

Reads == INSTANCE LedgerReads
           WITH latest <- plugins, Readers <- Downloads, reply <- answered

\* Downloads are atomic reads of the ledger (registry.go:174, handleDownload): the
\* header, the body or the 404 of each is right for one moment between its
\* arrival and its answer, though "latest" was resolved, the row read and
\* the tarball opened at three different times, with publishes in between.
ImplementsReads == Reads!ReadsSpec
=============================================================================
