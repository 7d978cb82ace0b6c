--------------------------- MODULE DownloadsProofs ---------------------------
(***************************************************************************)
(* Theorems about Downloads, for any number of publishes and downloads at  *)
(* once: they stand on the invariant of RegistryProofs, above all on       *)
(* rows never changing and, where uploads are staged (with hard links, or  *)
(* with S3 while publishes keep apart), on every row having its tarball.   *)
(***************************************************************************)
EXTENDS Downloads, RegistryProofs

\* A download that is served knows what it wants, a resolved one names a
\* version.
WantTyped ==
    \A d \in Downloads : place[d] \in Serving =>
        /\ want[d] \in [plugin : Plugins, version : SemVer \cup {Latest}]
        /\ place[d] = "getPlugin" => want[d].version = Latest
        /\ place[d] # "getPlugin" => Wanted(d) \in Keys /\ want[d].version # Latest

\* Resolved(d): the row whose checksum is in the header is still there.
Resolved(d) == /\ versions[Wanted(d)] # None
               /\ got[d].checksum = versions[Wanted(d)].checksum

\* A download holds in its hands what the two stores gave it.
Holding ==
    \A d \in Downloads :
        /\ place[d] = "getLatest" => versions[Wanted(d)] # None
        /\ place[d] \in {"open", "count", "stream"} => Resolved(d)
        /\ place[d] \in {"count", "stream"} => got[d].body = got[d].checksum
        /\ reply[d] = "ok" => got[d].body = got[d].checksum

\* What it was told exists is still there.
Promised ==
    \A d \in Downloads : expected[d] =>
        /\ place[d] = "getPlugin" => plugins[want[d].plugin] # None
        /\ place[d] = "getVersion" => versions[Wanted(d)] # None

\* Only a download that has ended has a reply.
RepliedLast == \A d \in Downloads : place[d] # "done" => reply[d] = "none"

\* Only semantic versions are recorded, so "latest" is never one of them.
Semantic == /\ Named
            /\ StoredUnderItsOwnName
            /\ \A k \in Keys : versions[k] # None => k[2] \in SemVer

\* What holds with either blob store, and what takes staged uploads.
DInv == DownloadTypeOK /\ WantTyped /\ Semantic
HInv == Holding /\ Promised /\ RepliedLast /\ PublishedIsFound

-----------------------------------------------------------------------------
(***************************************************************************)
(* Types                                                                   *)
(***************************************************************************)
Registering == Next /\ UNCHANGED downloadVars
Downloading(d) == (StartDownload(d) \/ Serve(d)) /\ UNCHANGED vars

LEMMA Split ==
  ASSUME [DownloadNext]_<<vars, downloadVars>>
  PROVE  \/ [Next]_vars /\ UNCHANGED downloadVars
         \/ \E d \in Downloads : Downloading(d)
BY DEF DownloadNext, Downloading

\* The handler of one download changes only what belongs to it.
LEMMA OthersStay ==
  ASSUME DownloadTypeOK, NEW d \in Downloads, StartDownload(d) \/ Serve(d)
  PROVE  \A e \in Downloads \ {d} :
            /\ place'[e] = place[e] /\ want'[e] = want[e] /\ got'[e] = got[e]
            /\ reply'[e] = reply[e] /\ expected'[e] = expected[e]
<1>1. CASE StartDownload(d)
  BY <1>1 DEF DownloadTypeOK, StartDownload
<1>2. CASE Serve(d)
  BY <1>2 DEF DownloadTypeOK, Serve, GetPlugin, GetVersion, OpenTarball,
     IncrementDownloadCount, SkipDownloadCount, Deliver, FailDownload, Continue, Finish
<1> QED BY <1>1, <1>2

\* So does ending it.
LEMMA Ended ==
  ASSUME DownloadTypeOK, WantTyped, NEW d \in Downloads, place[d] \in Serving,
         NEW code \in {"ok", "notFound", "fault"}, Finish(d, code),
         UNCHANGED downloadCount
  PROVE  DownloadTypeOK' /\ WantTyped'
<1>1. DownloadTypeOK'
  BY DEF DownloadTypeOK, Finish, Nothing
<1>2. WantTyped'
  BY DEF DownloadTypeOK, WantTyped, Finish, Wanted, Serving
<1> QED BY <1>1, <1>2

\* What a download holds keeps its type when the header or the body is set.
LEMMA HoldsMore ==
  ASSUME DownloadTypeOK, NEW d \in Downloads, NEW STATE c, c \in Contents,
         \/ got' = [got EXCEPT ![d].checksum = c]
         \/ got' = [got EXCEPT ![d].body = c]
  PROVE  got' \in [Downloads -> [checksum : Contents \cup {None}, body : Contents \cup {None}]]
<1> DEFINE Hands == [checksum : Contents \cup {None}, body : Contents \cup {None}]
<1>1. got \in [Downloads -> Hands] /\ got[d] \in Hands
  BY DEF DownloadTypeOK
<1>2. [got[d] EXCEPT !.checksum = c] \in Hands /\ [got[d] EXCEPT !.body = c] \in Hands
  BY <1>1
<1>3. CASE got' = [got EXCEPT ![d].checksum = c]
  <2> DEFINE new == [got[d] EXCEPT !.checksum = c]
  <2>1. got' = [got EXCEPT ![d] = new]
    BY <1>3
  <2>2. new \in Hands
    BY <1>2
  <2> HIDE DEF Hands, new
  <2>3. got' \in [Downloads -> Hands]
    BY <1>1, <2>1, <2>2
  <2> QED BY <2>3 DEF Hands
<1>4. CASE got' = [got EXCEPT ![d].body = c]
  <2> DEFINE new == [got[d] EXCEPT !.body = c]
  <2>1. got' = [got EXCEPT ![d] = new]
    BY <1>4
  <2>2. new \in Hands
    BY <1>2
  <2> HIDE DEF Hands, new
  <2>3. got' \in [Downloads -> Hands]
    BY <1>1, <2>1, <2>2
  <2> QED BY <2>3 DEF Hands
<1> QED BY <1>3, <1>4

LEMMA DownloadTypes ==
  ASSUME TypeOK, DownloadTypeOK, WantTyped,
         \A p \in Plugins : plugins[p] \in SemVer \cup {None},
         NEW d \in Downloads, StartDownload(d) \/ Serve(d)
  PROVE  DownloadTypeOK' /\ WantTyped'
<1> USE DEF DownloadTypeOK, WantTyped, Wanted, Keys, Continue, Finish
<1>0. SemVer \subseteq Versions
  BY ConstantsAssumption
<1>1. CASE StartDownload(d)
  <2>1. PICK p \in Plugins, v \in SemVer \cup {Latest} :
          /\ want' = [want EXCEPT ![d] = [plugin |-> p, version |-> v]]
          /\ place' = [place EXCEPT ![d] = IF v = Latest THEN "getPlugin" ELSE "getVersion"]
          /\ expected' = [expected EXCEPT ![d] =
                IF v = Latest THEN plugins[p] # None ELSE versions[<<p, v>>] # None]
    BY <1>1 DEF StartDownload
  <2>2. /\ want'[d] = [plugin |-> p, version |-> v]
        /\ want'[d] \in [plugin : Plugins, version : SemVer \cup {Latest}]
        /\ place'[d] = IF v = Latest THEN "getPlugin" ELSE "getVersion"
        /\ place'[d] \in Serving
    BY <2>1 DEF Serving
  <2>3. WantTyped'
    BY <1>0, <1>1, <2>2, DownloadsAssumption, OthersStay
  <2>4. DownloadTypeOK'
    <3>1. place' \in [Downloads -> Serving \cup {"idle", "done"}]
      BY <2>1 DEF Serving
    <3>2. want' \in [Downloads -> [plugin : Plugins, version : SemVer \cup {Latest}] \cup {None}]
      BY <2>1
    <3>3. got' \in [Downloads -> [checksum : Contents \cup {None}, body : Contents \cup {None}]]
      BY <1>1 DEF StartDownload
    <3>4. expected' \in [Downloads -> BOOLEAN]
      BY <2>1
    <3>5. /\ reply' \in [Downloads -> {"none", "ok", "notFound", "fault"}]
          /\ UNCHANGED downloadCount
      BY <1>1 DEF StartDownload
    <3> QED BY <3>1, <3>2, <3>3, <3>4, <3>5
  <2> QED BY <2>3, <2>4
<1>2. CASE GetPlugin(d)
  <2>1. want[d].plugin \in Plugins /\ plugins[want[d].plugin] \in SemVer \cup {None}
    BY <1>2 DEF GetPlugin, Serving
  <2>2. CASE plugins[want[d].plugin] = None
    BY <1>2, <2>2, Ended DEF GetPlugin, Serving
  <2>3. CASE plugins[want[d].plugin] # None
    <3>1. /\ want' = [want EXCEPT ![d].version = plugins[want[d].plugin]]
          /\ place' = [place EXCEPT ![d] = "getLatest"]
          /\ UNCHANGED <<reply, expected, got, downloadCount>>
      BY <1>2, <2>3 DEF GetPlugin
    <3>2. want[d] \in [plugin : Plugins, version : SemVer \cup {Latest}]
      BY <1>2 DEF GetPlugin, Serving
    <3>3. /\ want'[d] \in [plugin : Plugins, version : SemVer \cup {Latest}]
          /\ want'[d].plugin = want[d].plugin
          /\ want'[d].version = plugins[want[d].plugin]
      BY <2>1, <2>3, <3>1, <3>2
    <3>4. <<want'[d].plugin, want'[d].version>> \in Keys
      BY <1>0, <2>1, <2>3, <3>3
    <3>5. want' \in [Downloads -> [plugin : Plugins, version : SemVer \cup {Latest}] \cup {None}]
      BY <3>1, <3>3
    <3>6. WantTyped'
      <4>1. want'[d].version # Latest /\ place'[d] = "getLatest"
        BY <2>1, <2>3, <3>1, <3>3, DownloadsAssumption
      <4> QED BY <1>2, <3>3, <3>4, <4>1, OthersStay
    <3>7. DownloadTypeOK'
      BY <3>1, <3>5 DEF Serving, Resolving
    <3> QED BY <3>6, <3>7
  <2> QED BY <2>2, <2>3
<1>3. CASE GetVersion(d)
  <2>1. Wanted(d) \in Keys /\ versions[Wanted(d)] \in Rows \cup {None}
    BY <1>3 DEF GetVersion, Serving, Resolving, TypeOK, Rows
  <2>2. CASE versions[Wanted(d)] = None
    BY <1>3, <2>2, Ended DEF GetVersion, Serving, Resolving
  <2>3. CASE versions[Wanted(d)] # None
    <3>1. versions[Wanted(d)].checksum \in Contents
      BY <2>1, <2>3 DEF Rows
    <3>2. /\ got' = [got EXCEPT ![d].checksum = versions[Wanted(d)].checksum]
          /\ place' = [place EXCEPT ![d] = "open"]
          /\ UNCHANGED <<want, reply, expected, downloadCount>>
      BY <1>3, <2>3 DEF GetVersion
    <3>3. got' \in [Downloads -> [checksum : Contents \cup {None}, body : Contents \cup {None}]]
      BY <3>1, <3>2, HoldsMore
    <3>4. WantTyped'
      BY <1>3, <2>1, <3>2 DEF GetVersion, Serving, Resolving
    <3> QED BY <3>2, <3>3, <3>4 DEF Serving
  <2> QED BY <2>2, <2>3
<1>4. CASE OpenTarball(d)
  <2>1. Wanted(d) \in Keys /\ blobs[Wanted(d)] \in Contents \cup {None}
    BY <1>4 DEF OpenTarball, Serving, TypeOK
  <2>2. CASE blobs[Wanted(d)] = None
    BY <1>4, <2>2, Ended DEF OpenTarball, Serving
  <2>3. CASE blobs[Wanted(d)] # None
    <3>1. /\ got' = [got EXCEPT ![d].body = blobs[Wanted(d)]]
          /\ place' = [place EXCEPT ![d] = "count"]
          /\ UNCHANGED <<want, reply, expected, downloadCount>>
      BY <1>4, <2>3 DEF OpenTarball
    <3>2. got' \in [Downloads -> [checksum : Contents \cup {None}, body : Contents \cup {None}]]
      BY <2>1, <2>3, <3>1, HoldsMore
    <3>3. WantTyped'
      BY <1>4, <2>1, <3>1 DEF OpenTarball, Serving
    <3> QED BY <3>1, <3>2, <3>3 DEF Serving
  <2> QED BY <2>2, <2>3
<1>5. CASE IncrementDownloadCount(d) \/ SkipDownloadCount(d)
  <2>1. /\ UNCHANGED <<want, got, reply, expected>>
        /\ Wanted(d) \in Keys
        /\ place' = [place EXCEPT ![d] = "stream"]
        /\ place[d] = "count"
    BY <1>5 DEF IncrementDownloadCount, SkipDownloadCount, Serving
  <2>2. \/ downloadCount' = [downloadCount EXCEPT ![Wanted(d)] = @ + 1]
        \/ UNCHANGED downloadCount
    BY <1>5 DEF IncrementDownloadCount, SkipDownloadCount
  <2>3. downloadCount' \in [Keys -> Nat]
    <3>1. CASE downloadCount' = [downloadCount EXCEPT ![Wanted(d)] = @ + 1]
      BY <2>1, <3>1
    <3>2. CASE UNCHANGED downloadCount
      BY <3>2
    <3> QED BY <2>2, <3>1, <3>2
  <2>4. WantTyped'
    BY <2>1 DEF Serving
  <2> QED BY <2>1, <2>3, <2>4 DEF Serving
<1>6. CASE Deliver(d)
  BY <1>6, Ended DEF Deliver, Serving
<1>7. CASE FailDownload(d)
  BY <1>7, Ended DEF FailDownload
<1> QED BY <1>1, <1>2, <1>3, <1>4, <1>5, <1>6, <1>7 DEF Serve

\* What latest_version names is a version that can be looked up.
LEMMA LatestIsSemantic ==
  ASSUME IInv, Semantic
  PROVE  \A p \in Plugins : plugins[p] \in SemVer \cup {None}
<1> SUFFICES ASSUME NEW p \in Plugins, plugins[p] # None PROVE plugins[p] \in SemVer
  OBVIOUS
<1>1. plugins[p] \in Versions /\ versions[<<p, plugins[p]>>] # None
  BY DEF IInv, TypeOK, LatestIsRecorded
<1>2. <<p, plugins[p]>> \in Keys
  BY <1>1 DEF Keys
<1> QED BY <1>1, <1>2 DEF Semantic

LEMMA SemanticStep ==
  ASSUME IInv, Semantic, [Next]_vars
  PROVE  Semantic'
<1>1. Named' /\ StoredUnderItsOwnName'
  BY NamedStep DEF IInv, Semantic
<1>2. ASSUME NEW r \in Requests, Records(r), Handle(r)
      PROVE  \A k \in Keys : versions'[k] # None => k[2] \in SemVer
  <2>1. pc[r] # "idle" /\ Key(r)[2] \in SemVer
    BY <1>2 DEF Records, Semantic, Named, Key
  <2> QED BY <1>2, <2>1 DEF Records, WriteRows, Semantic, IInv, TypeOK
<1>3. CASE \A k \in Keys : versions'[k] = None <=> versions[k] = None
  BY <1>1, <1>3 DEF Semantic
<1> QED
  BY <1>1, <1>2, <1>3, StartFrame, RecordsOrNot, QuietFrame DEF Next, IInv, Semantic, Fail

LEMMA InitDInv == DownloadInit => DInv
<1> SUFFICES ASSUME DownloadInit PROVE DInv
  OBVIOUS
<1>1. DownloadTypeOK /\ WantTyped
  BY DEF DownloadInit, DownloadTypeOK, WantTyped, Nothing, Serving
<1>2. Semantic
  BY DEF DownloadInit, Init, Semantic, Named, StoredUnderItsOwnName
<1> QED BY <1>1, <1>2 DEF DInv

LEMMA NextDInv ==
  IInv /\ DInv /\ [DownloadNext]_<<vars, downloadVars>> => DInv'
<1> SUFFICES ASSUME IInv, DInv, [DownloadNext]_<<vars, downloadVars>> PROVE DInv'
  OBVIOUS
<1> USE DEF DInv
<1>1. CASE [Next]_vars /\ UNCHANGED downloadVars
  <2>1. Semantic'
    BY <1>1, SemanticStep
  <2>2. DownloadTypeOK' /\ WantTyped'
    BY <1>1 DEF downloadVars, DownloadTypeOK, WantTyped, Wanted
  <2> QED BY <2>1, <2>2
<1>2. ASSUME NEW d \in Downloads, Downloading(d)
      PROVE  DInv'
  <2>1. StartDownload(d) \/ Serve(d)
    BY <1>2 DEF Downloading
  <2>2. DownloadTypeOK' /\ WantTyped'
    BY <2>1, LatestIsSemantic, DownloadTypes DEF IInv
  <2>3. Semantic'
    BY <1>2 DEF Downloading, vars, Semantic, Named, StoredUnderItsOwnName
  <2> QED BY <2>2, <2>3
<1> QED BY <1>1, <1>2, Split

-----------------------------------------------------------------------------
(***************************************************************************)
(* Header, body and promise                                                *)
(***************************************************************************)

\* Rows and plugins that are there stay there.
LEMMA StoresGrow ==
  ASSUME IInv, [Next]_vars
  PROVE  /\ RowsKept
         /\ \A p \in Plugins : plugins[p] # None => plugins'[p] # None
<1>1. RowsKept
  BY RowsStay DEF IInv
<1>2. LatestIsRecorded' /\ TypeOK'
  BY NextIInv DEF IInv
<1>3. ASSUME NEW p \in Plugins, plugins[p] # None PROVE plugins'[p] # None
  <2>1. plugins[p] \in Versions /\ versions[<<p, plugins[p]>>] # None
    BY <1>3 DEF IInv, TypeOK, LatestIsRecorded
  <2>2. versions'[<<p, plugins[p]>>] # None
    BY <1>1, <2>1 DEF RowsKept, Keys
  <2> QED BY <1>2, <2>1, <2>2 DEF LatestIsRecorded
<1> QED BY <1>1, <1>3

LEMMA HoldingStep ==
  ASSUME IInv, Staged, DInv, HInv,
         NEW d \in Downloads, StartDownload(d) \/ Serve(d), UNCHANGED vars
  PROVE  HInv'
<1> USE DEF DInv, HInv
<1>0. UNCHANGED <<versions, plugins>>
  BY DEF vars
<1> DEFINE Fine(e) ==
      /\ place[e] = "getLatest" => versions[Wanted(e)] # None
      /\ place[e] \in {"open", "count", "stream"} => Resolved(e)
      /\ place[e] \in {"count", "stream"} => got[e].body = got[e].checksum
      /\ reply[e] = "ok" => got[e].body = got[e].checksum
      /\ expected[e] /\ place[e] = "getPlugin" => plugins[want[e].plugin] # None
      /\ expected[e] /\ place[e] = "getVersion" => versions[Wanted(e)] # None
      /\ place[e] # "done" => reply[e] = "none"
      /\ expected[e] => reply[e] # "notFound"
<1>1. \A e \in Downloads : Fine(e)
  BY DEF Holding, Promised, RepliedLast, PublishedIsFound
<1>2. \A e \in Downloads \ {d} : Fine(e)'
  BY <1>0, <1>1, OthersStay DEF Resolved, Wanted
<1>3. Fine(d)'
  <2> USE DEF DownloadTypeOK, Continue, Finish
  <2>0. Fine(d)
    BY <1>1
  <2>1. CASE StartDownload(d)
    <3>1. PICK p \in Plugins, v \in SemVer \cup {Latest} :
            /\ want' = [want EXCEPT ![d] = [plugin |-> p, version |-> v]]
            /\ place' = [place EXCEPT ![d] = IF v = Latest THEN "getPlugin" ELSE "getVersion"]
            /\ expected' = [expected EXCEPT ![d] =
                  IF v = Latest THEN plugins[p] # None ELSE versions[<<p, v>>] # None]
      BY <2>1 DEF StartDownload
    <3>2. reply'[d] = "none" /\ want'[d] = [plugin |-> p, version |-> v]
      BY <2>0, <2>1, <3>1 DEF StartDownload
    <3>3. /\ place'[d] = IF v = Latest THEN "getPlugin" ELSE "getVersion"
          /\ expected'[d] = IF v = Latest THEN plugins[p] # None ELSE versions[<<p, v>>] # None
      BY <3>1
    <3>4. CASE v = Latest
      <4>1. /\ place'[d] = "getPlugin"
            /\ expected'[d] => plugins'[want'[d].plugin] # None
        <5>1. expected'[d] = (plugins[p] # None)
          BY <3>3, <3>4
        <5>2. expected'[d] => plugins[p] # None
          BY <5>1, Zenon
        <5> QED BY <1>0, <3>2, <3>3, <3>4, <5>2
      <4> QED BY <3>2, <4>1
    <3>5. CASE v # Latest
      <4>1. /\ place'[d] = "getVersion"
            /\ expected'[d] => versions'[Wanted(d)'] # None
        <5>1. expected'[d] = (versions[<<p, v>>] # None)
          BY <3>3, <3>5
        <5>2. expected'[d] => versions[<<p, v>>] # None
          BY <5>1, Zenon
        <5>3. Wanted(d)' = <<p, v>>
          BY <3>2 DEF Wanted
        <5> QED BY <1>0, <3>3, <3>5, <5>2, <5>3
      <4> QED BY <3>2, <4>1
    <3> QED BY <3>4, <3>5
  <2>2. CASE GetPlugin(d)
    <3>1. CASE plugins[want[d].plugin] = None
      BY <2>0, <2>2, <3>1 DEF GetPlugin, Serving
    <3>2. CASE plugins[want[d].plugin] # None
      <4>1. /\ want[d] \in [plugin : Plugins, version : SemVer \cup {Latest}]
            /\ place'[d] = "getLatest" /\ reply'[d] = "none"
            /\ want'[d].plugin = want[d].plugin
            /\ want'[d].version = plugins[want[d].plugin]
        BY <2>0, <2>2, <3>2 DEF GetPlugin, Serving, WantTyped
      <4>2. versions[<<want[d].plugin, plugins[want[d].plugin]>>] # None
        BY <3>2, <4>1 DEF IInv, LatestIsRecorded
      <4> QED BY <1>0, <4>1, <4>2 DEF Wanted
    <3> QED BY <3>1, <3>2
  <2>3. CASE GetVersion(d)
    <3>1. CASE versions[Wanted(d)] = None
      <4>1. ~expected[d] /\ place'[d] = "done" /\ reply'[d] = "notFound"
        BY <2>0, <2>3, <3>1 DEF GetVersion, Resolving
      <4> QED BY <2>3, <3>1, <4>1 DEF GetVersion, Serving
    <3>2. CASE versions[Wanted(d)] # None
      <4>1. /\ place'[d] = "open" /\ reply'[d] = "none"
            /\ got'[d].checksum = versions[Wanted(d)].checksum
            /\ want' = want
        BY <2>0, <2>3, <3>2 DEF GetVersion, Serving, Resolving
      <4> QED BY <1>0, <3>2, <4>1 DEF Resolved, Wanted
    <3> QED BY <3>1, <3>2
  <2>4. CASE OpenTarball(d)
    <3>1. Wanted(d) \in Keys /\ Resolved(d) /\ reply[d] = "none"
      BY <2>0, <2>4 DEF OpenTarball, WantTyped, Serving
    <3>2. /\ blobs[Wanted(d)] = got[d].checksum
          /\ blobs[Wanted(d)] # None
      BY <3>1, NoneAssumption
         DEF Resolved, IInv, Staged, BlobMatchesRecord, TypeOK, Rows
    <3>3. /\ place'[d] = "count" /\ reply'[d] = "none" /\ want' = want
          /\ got'[d].body = got'[d].checksum /\ got'[d].checksum = got[d].checksum
      BY <2>4, <3>1, <3>2 DEF OpenTarball
    <3> QED BY <1>0, <3>1, <3>3 DEF Resolved, Wanted
  <2>5. CASE IncrementDownloadCount(d) \/ SkipDownloadCount(d)
    BY <1>0, <2>0, <2>5 DEF IncrementDownloadCount, SkipDownloadCount, Serving,
                            Resolved, Wanted
  <2>6. CASE Deliver(d) \/ FailDownload(d)
    BY <2>0, <2>6 DEF Deliver, FailDownload, Serving
  <2> QED BY <2>1, <2>2, <2>3, <2>4, <2>5, <2>6 DEF Serve
<1>4. \A e \in Downloads : Fine(e)'
  BY <1>2, <1>3
<1> QED BY <1>4 DEF Holding, Promised, RepliedLast, PublishedIsFound

LEMMA NextHInv ==
  ASSUME IInv, Staged, DInv, HInv, [DownloadNext]_<<vars, downloadVars>>
  PROVE  HInv'
<1>1. CASE [Next]_vars /\ UNCHANGED downloadVars
  <2>1. /\ RowsKept
        /\ \A p \in Plugins : plugins[p] # None => plugins'[p] # None
    BY <1>1, StoresGrow
  <2>2. UNCHANGED <<place, want, got, reply, expected>>
    BY <1>1 DEF downloadVars
  <2>3. Holding'
    <3>1. ASSUME NEW d \in Downloads, place[d] \in {"open", "count", "stream"}
          PROVE  Resolved(d)'
      <4>1. Resolved(d) /\ Wanted(d) \in Keys
        <5>1. Resolved(d)
          BY <3>1 DEF HInv, Holding
        <5>2. Wanted(d) \in Keys
          BY <3>1 DEF DInv, WantTyped, Serving
        <5> QED BY <5>1, <5>2
      <4>2. /\ versions'[Wanted(d)] # None
            /\ versions'[Wanted(d)].checksum = versions[Wanted(d)].checksum
        BY <2>1, <4>1 DEF RowsKept, Resolved
      <4> QED BY <2>2, <4>1, <4>2 DEF Resolved, Wanted
    <3>2. ASSUME NEW d \in Downloads, place[d] = "getLatest"
          PROVE  versions'[Wanted(d)'] # None
      <4>1. versions[Wanted(d)] # None /\ Wanted(d) \in Keys
        BY <3>2 DEF HInv, Holding, DInv, WantTyped, Serving
      <4>2. versions'[Wanted(d)] # None
        BY <2>1, <4>1 DEF RowsKept
      <4> QED BY <2>2, <4>2 DEF Wanted
    <3> QED BY <2>2, <3>1, <3>2 DEF HInv, Holding
  <2>4. Promised'
    <3>1. ASSUME NEW d \in Downloads, expected[d], place[d] = "getVersion"
          PROVE  versions'[Wanted(d)'] # None
      <4>1. versions[Wanted(d)] # None /\ Wanted(d) \in Keys
        <5>1. versions[Wanted(d)] # None
          BY <3>1 DEF HInv, Promised
        <5>2. Wanted(d) \in Keys
          BY <3>1 DEF DInv, WantTyped, Serving
        <5> QED BY <5>1, <5>2
      <4>2. versions'[Wanted(d)] # None
        BY <2>1, <4>1 DEF RowsKept
      <4> QED BY <2>2, <4>2 DEF Wanted
    <3>2. ASSUME NEW d \in Downloads, expected[d], place[d] = "getPlugin"
          PROVE  plugins'[want'[d].plugin] # None
      <4>1. plugins[want[d].plugin] # None /\ want[d].plugin \in Plugins
        BY <3>2 DEF HInv, Promised, DInv, WantTyped, Serving
      <4> QED BY <2>1, <2>2, <4>1
    <3> QED BY <2>2, <3>1, <3>2 DEF Promised
  <2>5. RepliedLast' /\ PublishedIsFound'
    BY <2>2 DEF HInv, RepliedLast, PublishedIsFound
  <2> QED BY <2>3, <2>4, <2>5 DEF HInv
<1>2. ASSUME NEW d \in Downloads, Downloading(d)
      PROVE  HInv'
  BY <1>2, HoldingStep DEF Downloading
<1> QED BY <1>1, <1>2, Split

-----------------------------------------------------------------------------
(***************************************************************************)
(* Downloads are atomic reads                                              *)
(***************************************************************************)

\* Once the version of a download is settled, its tarball is in the store and
\* is what the ledger has under that version.
LEMMA SettledIsServed ==
  ASSUME IInv, Staged, DInv, HInv, NEW d \in Downloads, place[d] \in Settled
  PROVE  /\ Wanted(d) \in Keys /\ versions[Wanted(d)] # None
         /\ blobs[Wanted(d)] = versions[Wanted(d)].checksum
         /\ blobs[Wanted(d)] # None
         /\ served[Wanted(d)] = blobs[Wanted(d)]
<1>1. Wanted(d) \in Keys /\ versions[Wanted(d)] # None
  <2>1. Wanted(d) \in Keys
    BY DEF DInv, WantTyped, Settled, Serving
  <2>2. versions[Wanted(d)] # None
    BY DEF HInv, Holding, Resolved, Settled
  <2> QED BY <2>1, <2>2
<1>2. blobs[Wanted(d)] = versions[Wanted(d)].checksum
  BY <1>1 DEF Staged, BlobMatchesRecord
<1>3. blobs[Wanted(d)] # None
  BY <1>1, <1>2, NoneAssumption DEF IInv, TypeOK, Rows
<1>4. served[Wanted(d)] = blobs[Wanted(d)]
  BY <1>1 DEF served
<1> QED BY <1>1, <1>2, <1>3, <1>4

\* A publish leaves alone what downloads ask for, have found and answer, and
\* makes a step of the ledger beside them.
LEMMA PublishBesideReads ==
  ASSUME IInv, Staged, Staged', DInv, HInv, [Next]_vars, UNCHANGED downloadVars
  PROVE  [Reads!ReadsNext]_<<served, plugins, asks, found, answered>>
<1>1. UNCHANGED <<asks, answered>>
  BY DEF downloadVars, asks, answered
<1>2. ASSUME NEW d \in Downloads, place[d] \in Settled
      PROVE  blobs'[Wanted(d)'] = blobs[Wanted(d)]
  <2>1. /\ Wanted(d) \in Keys /\ versions[Wanted(d)] # None
        /\ blobs[Wanted(d)] = versions[Wanted(d)].checksum
    BY <1>2, SettledIsServed
  <2>2. /\ versions'[Wanted(d)] # None
        /\ versions'[Wanted(d)].checksum = versions[Wanted(d)].checksum
    BY <2>1, StoresGrow DEF RowsKept
  <2>3. blobs'[Wanted(d)] = versions'[Wanted(d)].checksum
    BY <2>1, <2>2 DEF Staged, BlobMatchesRecord
  <2>4. Wanted(d)' = Wanted(d)
    BY DEF downloadVars, Wanted
  <2> QED BY <2>1, <2>2, <2>3, <2>4
<1>3. found' = found
  BY <1>2 DEF downloadVars, found
<1>4. [Ledger!Next]_<<served, plugins>>
  BY LedgerStep
<1>5. Ledger!Next => Reads!Next
  BY DEF Ledger!Next, Ledger!Record, Reads!Next, Reads!Record
<1> QED
  BY <1>1, <1>3, <1>4, <1>5 DEF Reads!ReadsNext, Reads!readerVars

\* What a step of one download does to the questions, findings and answers.
LEMMA ReadsOfOthersStay ==
  ASSUME DownloadTypeOK, NEW d \in Downloads, StartDownload(d) \/ Serve(d), UNCHANGED vars
  PROVE  /\ asks' = [asks EXCEPT ![d] = asks'[d]]
         /\ found' = [found EXCEPT ![d] = found'[d]]
         /\ answered' = [answered EXCEPT ![d] = answered'[d]]
<1>1. \A e \in Downloads \ {d} :
          /\ asks'[e] = asks[e] /\ found'[e] = found[e] /\ answered'[e] = answered[e]
  BY OthersStay DEF asks, found, answered, Wanted, vars
<1> QED BY <1>1 DEF asks, found, answered

\* A download that goes on has no answer yet; it has found its tarball once its
\* version is settled.
LEMMA ReadsWhileServed ==
  ASSUME RepliedLast, NEW d \in Downloads, place[d] \in Serving
  PROVE  /\ answered[d] = Reads!NoReply
         /\ place[d] \in Settled => asks[d] = {} /\ found[d] = {blobs[Wanted(d)]}
         /\ place[d] \notin Settled => asks[d] = {want[d]} /\ found[d] = {}
BY DEF RepliedLast, answered, asks, found, Reads!NoReply, Serving

\* Where a request is being answered nothing is left of what it asked.
LEMMA ReadsAtTheEnd ==
  ASSUME DownloadTypeOK, NEW d \in Downloads, NEW code \in {"notFound", "fault"},
         Finish(d, code)
  PROVE  /\ asks'[d] = {} /\ found'[d] = {}
         /\ answered'[d] = [Reads!NoReply EXCEPT !.code = code]
BY DEF DownloadTypeOK, Finish, asks, found, answered, Reads!NoReply, Settled, Serving

\* The moment of a download is the step that settles its version, or that finds
\* there is none; its arrival and its end are Ask, Answer and Lose, and the rest
\* of what its handler does can not be told from outside.
LEMMA DownloadIsRead ==
  ASSUME IInv, Staged, DInv, HInv,
         NEW d \in Downloads, StartDownload(d) \/ Serve(d), UNCHANGED vars
  PROVE  \/ Reads!Ask(d) \/ Reads!Look(d) \/ Reads!Miss(d) \/ Reads!Answer(d)
            \/ Reads!Lose(d)
         \/ UNCHANGED <<asks, found, answered>>
<1> USE DEF DInv, HInv
<1>0. /\ UNCHANGED <<versions, plugins, blobs, served>>
      /\ asks' = [asks EXCEPT ![d] = asks'[d]]
      /\ found' = [found EXCEPT ![d] = found'[d]]
      /\ answered' = [answered EXCEPT ![d] = answered'[d]]
  BY ReadsOfOthersStay DEF vars, served
<1>f. DownloadTypeOK /\ d \in DOMAIN place /\ d \in DOMAIN want /\ d \in DOMAIN got
      /\ d \in DOMAIN reply
  BY DEF DownloadTypeOK
<1>1. ASSUME place[d] \in Settled, place'[d] \in Settled,
             want'[d] = want[d], reply'[d] = reply[d]
      PROVE  UNCHANGED <<asks, found, answered>>
  <2>1. answered[d] = Reads!NoReply /\ asks[d] = {} /\ found[d] = {blobs[Wanted(d)]}
    BY <1>1, ReadsWhileServed DEF Settled, Serving
  <2>2. reply[d] = "none"
    BY <1>1 DEF RepliedLast, Settled
  <2>3. asks'[d] = {} /\ found'[d] = {blobs[Wanted(d)]} /\ answered'[d] = Reads!NoReply
    <3>1. found'[d] = {blobs[Wanted(d)]}
      <4>1. found'[d] = {blobs'[Wanted(d)']}
        BY <1>1 DEF found
      <4> QED BY <1>0, <1>1, <4>1 DEF Wanted
    <3>2. asks'[d] = {}
      BY <1>1 DEF asks
    <3>3. answered'[d] = Reads!NoReply
      BY <1>1, <2>2 DEF answered, Reads!NoReply
    <3> QED BY <3>1, <3>2, <3>3
  <2>4. asks' = asks
    BY <1>0, <2>1, <2>3 DEF asks
  <2>5. found' = found
    BY <1>0, <2>1, <2>3 DEF found
  <2>6. answered' = answered
    BY <1>0, <2>1, <2>3 DEF answered
  <2> QED BY <2>4, <2>5, <2>6
<1>2. ASSUME NEW code \in {"notFound", "fault"}, Finish(d, code)
      PROVE  Reads!Close(d, [Reads!NoReply EXCEPT !.code = code])
  BY <1>0, <1>f, <1>2, ReadsAtTheEnd DEF Reads!Close
<1>3. CASE StartDownload(d)
  <2>1. PICK p \in Plugins, v \in SemVer \cup {Latest} :
          /\ want' = [want EXCEPT ![d] = [plugin |-> p, version |-> v]]
          /\ place' = [place EXCEPT ![d] = IF v = Latest THEN "getPlugin" ELSE "getVersion"]
          /\ UNCHANGED reply
    BY <1>3 DEF StartDownload
  <2>2. place[d] = "idle" /\ reply[d] = "none" /\ reply'[d] = "none"
    BY <1>3, <2>1 DEF StartDownload, RepliedLast
  <2>3. asks[d] = {} /\ found[d] = {}
    BY <2>2 DEF asks, found, Settled, Serving
  <2>4. want'[d] = [plugin |-> p, version |-> v] /\ place'[d] \in Serving \ Settled
    BY <1>f, <2>1 DEF Settled, Serving
  <2>5. /\ asks'[d] = {[plugin |-> p, version |-> v]} /\ found'[d] = {}
        /\ answered'[d] = Reads!NoReply
    BY <2>2, <2>4 DEF asks, found, answered, Reads!NoReply
  <2>6. [plugin |-> p, version |-> v] \in Reads!Questions
    BY ConstantsAssumption DEF Reads!Questions
  <2>7. found' = found
    BY <1>0, <2>3, <2>5 DEF found
  <2> QED BY <1>0, <2>3, <2>5, <2>6, <2>7 DEF Reads!Ask
<1>4. CASE GetPlugin(d)
  <2>0. /\ place[d] = "getPlugin" /\ place[d] \in Serving \ Settled
        /\ want[d].plugin \in Plugins /\ want[d].version = Latest
    BY <1>4 DEF GetPlugin, Serving, Settled, WantTyped
  <2>1. answered[d] = Reads!NoReply /\ asks[d] = {want[d]} /\ found[d] = {}
    BY <2>0, ReadsWhileServed
  <2>2. CASE plugins[want[d].plugin] = None
    <3>1. Reads!Now(want[d]) = None
      BY <2>0, <2>2 DEF Reads!Now
    <3>2. Finish(d, "notFound")
      BY <1>4, <2>2 DEF GetPlugin
    <3> QED BY <1>2, <2>1, <3>1, <3>2 DEF Reads!Miss
  <2>3. CASE plugins[want[d].plugin] # None
    <3>1. /\ place'[d] = "getLatest" /\ reply' = reply
          /\ want'[d].plugin = want[d].plugin
          /\ want'[d].version = plugins[want[d].plugin]
      <4>1. want[d] \in [plugin : Plugins, version : SemVer \cup {Latest}]
        BY <2>0 DEF WantTyped
      <4> QED BY <1>4, <1>f, <2>3, <4>1 DEF GetPlugin, Continue
    <3>3. LET k == <<want[d].plugin, plugins[want[d].plugin]>>
          IN  k \in Keys /\ versions[k] # None /\ served[k] = blobs[k] /\ served[k] # None
      <4> DEFINE k == <<want[d].plugin, plugins[want[d].plugin]>>
      <4>1. k \in Keys /\ versions[k] # None
        BY <2>0, <2>3 DEF IInv, LatestIsRecorded, TypeOK, Keys
      <4>2. blobs[k] = versions[k].checksum /\ versions[k].checksum # None
        BY <4>1, NoneAssumption DEF IInv, TypeOK, Rows, Staged, BlobMatchesRecord
      <4> QED BY <4>1, <4>2 DEF served
    <3>4. /\ Reads!Now(want[d]) = served[<<want[d].plugin, plugins[want[d].plugin]>>]
          /\ Reads!Now(want[d]) # None
      BY <2>0, <2>3, <3>3 DEF Reads!Now
    <3>5. /\ found'[d] = {Reads!Now(want[d])} /\ asks'[d] = {}
          /\ answered'[d] = answered[d]
      <4>1. Wanted(d)' = <<want[d].plugin, plugins[want[d].plugin]>>
        BY <3>1 DEF Wanted
      <4>2. found'[d] = {blobs'[Wanted(d)']} /\ asks'[d] = {}
        BY <3>1 DEF found, asks, Settled
      <4>3. answered'[d] = answered[d]
        BY <2>0, <3>1 DEF answered, RepliedLast
      <4> QED BY <1>0, <3>3, <3>4, <4>1, <4>2, <4>3
    <3>6. answered' = answered
      BY <1>0, <3>5 DEF answered
    <3> QED BY <1>0, <2>1, <3>4, <3>5, <3>6 DEF Reads!Look
  <2> QED BY <2>2, <2>3
<1>5. CASE GetVersion(d)
  <2>0. /\ place[d] \in {"getVersion", "getLatest"} /\ place[d] \in Serving
        /\ Wanted(d) \in Keys /\ want[d].version # Latest
    BY <1>5 DEF GetVersion, Resolving, Serving, WantTyped
  <2>1. CASE place[d] = "getLatest"
    <3>1. versions[Wanted(d)] # None
      BY <2>1 DEF Holding
    <3>2. want'[d] = want[d] /\ reply'[d] = reply[d] /\ place'[d] = "open"
      BY <1>5, <1>f, <3>1 DEF GetVersion, Continue
    <3> QED BY <1>1, <2>1, <3>2 DEF Settled
  <2>2. CASE place[d] = "getVersion"
    <3>0. /\ answered[d] = Reads!NoReply /\ asks[d] = {want[d]} /\ found[d] = {}
          /\ reply[d] = "none"
      BY <2>0, <2>2, ReadsWhileServed DEF Settled, RepliedLast
    <3>n. want[d].version # None
      <4>1. want[d].version \in Versions
        BY <2>0 DEF Wanted, Keys
      <4> QED BY <4>1, NoneAssumption
    <3>1. Reads!Now(want[d]) = served[Wanted(d)]
      BY <2>0, <3>n DEF Reads!Now, Wanted
    <3>2. CASE versions[Wanted(d)] = None
      <4>1. Reads!Now(want[d]) = None
        BY <2>0, <3>1, <3>2 DEF served
      <4>2. Finish(d, "notFound")
        BY <1>5, <3>2 DEF GetVersion
      <4> QED BY <1>2, <3>0, <4>1, <4>2 DEF Reads!Miss
    <3>3. CASE versions[Wanted(d)] # None
      <4>1. want'[d] = want[d] /\ reply'[d] = reply[d] /\ place'[d] = "open"
        BY <1>5, <1>f, <3>3 DEF GetVersion, Continue
      <4>2. served[Wanted(d)] = blobs[Wanted(d)] /\ blobs[Wanted(d)] # None
        <5>1. blobs[Wanted(d)] = versions[Wanted(d)].checksum
          BY <2>0, <3>3 DEF Staged, BlobMatchesRecord
        <5>2. blobs[Wanted(d)] # None
          BY <2>0, <3>3, <5>1, NoneAssumption DEF IInv, TypeOK, Rows
        <5> QED BY <2>0, <3>3, <5>2 DEF served
      <4>3. /\ found'[d] = {blobs[Wanted(d)]} /\ asks'[d] = {}
            /\ answered'[d] = answered[d]
        BY <1>0, <3>0, <4>1 DEF found, asks, answered, Settled, Wanted
      <4>4. answered' = answered
        BY <1>0, <4>3 DEF answered
      <4> QED BY <1>0, <3>0, <3>1, <4>2, <4>3, <4>4 DEF Reads!Look
    <3> QED BY <3>2, <3>3
  <2> QED BY <2>0, <2>1, <2>2
<1>6. CASE OpenTarball(d)
  <2>1. place[d] = "open" /\ place[d] \in Settled
    BY <1>6 DEF OpenTarball, Settled
  <2>2. blobs[Wanted(d)] # None
    BY <2>1, SettledIsServed
  <2>3. want'[d] = want[d] /\ reply'[d] = reply[d] /\ place'[d] = "count"
    BY <1>6, <1>f, <2>2 DEF OpenTarball, Continue
  <2> QED BY <1>1, <2>1, <2>3 DEF Settled
<1>7. CASE IncrementDownloadCount(d) \/ SkipDownloadCount(d)
  <2>1. place[d] = "count" /\ want'[d] = want[d] /\ reply'[d] = reply[d] /\ place'[d] = "stream"
    BY <1>7, <1>f DEF IncrementDownloadCount, SkipDownloadCount, Continue
  <2> QED BY <1>1, <2>1 DEF Settled
<1>8. CASE Deliver(d)
  <2>1. place[d] = "stream" /\ place[d] \in Settled /\ place[d] \in Serving
    BY <1>8 DEF Deliver, Settled, Serving
  <2>2. found[d] = {blobs[Wanted(d)]}
    BY <2>1, ReadsWhileServed
  <2>3. got[d].checksum = blobs[Wanted(d)] /\ got[d].body = blobs[Wanted(d)]
    <3>1. blobs[Wanted(d)] = versions[Wanted(d)].checksum
      BY <2>1, SettledIsServed
    <3> QED BY <2>1, <3>1 DEF Holding, Resolved
  <2>4. place'[d] = "done" /\ reply'[d] = "ok" /\ got' = got
    BY <1>8, <1>f DEF Deliver, Finish
  <2>5. /\ asks'[d] = {} /\ found'[d] = {}
        /\ answered'[d] = [code |-> "ok", checksum |-> blobs[Wanted(d)],
                           body |-> blobs[Wanted(d)]]
    BY <2>3, <2>4 DEF asks, found, answered, Settled, Serving
  <2>6. Reads!Close(d, [code |-> "ok", checksum |-> blobs[Wanted(d)],
                        body |-> blobs[Wanted(d)]])
    BY <1>0, <2>5 DEF Reads!Close
  <2> QED BY <2>2, <2>6 DEF Reads!Answer
<1>9. CASE FailDownload(d)
  <2>1. place[d] \in Serving /\ Finish(d, "fault")
    BY <1>9 DEF FailDownload
  <2>2. asks[d] # {} \/ found[d] # {}
    BY <2>1, ReadsWhileServed
  <2> QED BY <1>2, <2>1, <2>2 DEF Reads!Lose
<1> QED BY <1>3, <1>4, <1>5, <1>6, <1>7, <1>8, <1>9 DEF Serve

LEMMA ReadsStep ==
  ASSUME IInv, Staged, Staged', DInv, HInv, [DownloadNext]_<<vars, downloadVars>>
  PROVE  [Reads!ReadsNext]_<<served, plugins, asks, found, answered>>
<1>1. CASE [Next]_vars /\ UNCHANGED downloadVars
  BY <1>1, PublishBesideReads
<1>2. ASSUME NEW d \in Downloads, Downloading(d)
      PROVE  [Reads!ReadsNext]_<<served, plugins, asks, found, answered>>
  <2>1. UNCHANGED <<served, plugins>>
    BY <1>2 DEF Downloading, vars, served
  <2>2. \/ Reads!Ask(d) \/ Reads!Look(d) \/ Reads!Miss(d) \/ Reads!Answer(d)
           \/ Reads!Lose(d)
        \/ UNCHANGED <<asks, found, answered>>
    BY <1>2, DownloadIsRead DEF Downloading
  <2> QED BY <2>1, <2>2 DEF Reads!ReadsNext, Reads!vars
<1> QED BY <1>1, <1>2, Split

-----------------------------------------------------------------------------
(***************************************************************************)
(* Theorems                                                                *)
(***************************************************************************)

\* With downloads beside it the registry behaves as without.
LEMMA RegistryRuns == DownloadSpec => Spec
<1>1. DownloadInit => Init
  BY DEF DownloadInit
<1>2. [DownloadNext]_<<vars, downloadVars>> => [Next]_vars
  BY DEF DownloadNext, vars
<1> QED BY <1>1, <1>2, PTL DEF DownloadSpec, Spec

\* Types, and what a download wants, hold in every reachable state of registry
\* and downloads together.
THEOREM DownloadsInvariance == DownloadSpec => []DInv
<1>1. IInv /\ DInv /\ [DownloadNext]_<<vars, downloadVars>> => DInv'
  BY NextDInv
<1> QED BY <1>1, InitDInv, RegistryRuns, Invariance, PTL DEF DownloadSpec

\* The downloads keep their types, and a resolved "latest" is a version.
THEOREM DownloadTypesHold == DownloadSpec => []DownloadTypeOK
<1>1. DInv => DownloadTypeOK
  BY DEF DInv
<1> QED BY <1>1, DownloadsInvariance, PTL

\* The uploads of a registry with downloads beside it are staged with hard
\* links, and with S3 while publishes keep apart.
LEMMA FsDownloadsStaged == BlobDriver = "fs" => (DownloadSpec => []Staged)
<1> SUFFICES ASSUME BlobDriver = "fs" PROVE DownloadSpec => []Staged
  OBVIOUS
<1>1. IInv => Staged
  BY DEF IInv, FsStaged
<1> QED BY <1>1, RegistryRuns, Invariance, PTL

LEMMA ApartDownloadsStaged == DownloadSpec /\ []Apart => []Staged
BY RegistryRuns, ApartStaged, PTL

LEMMA HandsInvariance == DownloadSpec /\ []Staged => []HInv
<1>1. DownloadInit => HInv
  BY DEF DownloadInit, HInv, Holding, Promised, RepliedLast, PublishedIsFound, Serving
<1>2. IInv /\ Staged /\ DInv /\ HInv /\ [DownloadNext]_<<vars, downloadVars>> => HInv'
  BY NextHInv
<1> QED
  BY <1>1, <1>2, DownloadsInvariance, RegistryRuns, Invariance, PTL DEF DownloadSpec

\* Downloads of staged uploads are atomic reads of the ledger.
LEMMA StagedReads == DownloadSpec /\ []Staged => ImplementsReads
<1>1. DownloadInit => Reads!ReadsInit
  <2> SUFFICES ASSUME DownloadInit PROVE Reads!ReadsInit
    OBVIOUS
  <2>1. served = [k \in Keys |-> None] /\ plugins = [p \in Plugins |-> None]
    <3>1. \A k \in Keys : versions[k] = None
      BY DEF DownloadInit, Init
    <3> QED BY <3>1 DEF DownloadInit, Init, served
  <2>2. Reads!Init
    BY <2>1 DEF Reads!Init, Keys
  <2>3. /\ asks = [d \in Downloads |-> {}]
        /\ found = [d \in Downloads |-> {}]
        /\ answered = [d \in Downloads |-> Reads!NoReply]
    BY DEF DownloadInit, asks, found, answered, Reads!NoReply, Settled, Serving
  <2> QED BY <2>2, <2>3 DEF Reads!ReadsInit
<1>2. IInv /\ Staged /\ Staged' /\ DInv /\ HInv /\ [DownloadNext]_<<vars, downloadVars>>
        => [Reads!ReadsNext]_<<Reads!vars, Reads!readerVars>>
  BY ReadsStep DEF Reads!vars, Reads!readerVars
<1> QED
  BY <1>1, <1>2, DownloadsInvariance, HandsInvariance, RegistryRuns, Invariance, PTL
     DEF DownloadSpec, Reads!ReadsSpec, ImplementsReads

\* With hard links the body is always the one that the header announces.
THEOREM BodiesMatch == BlobDriver = "fs" => (DownloadSpec => []BodyMatchesHeader)
<1> SUFFICES ASSUME BlobDriver = "fs" PROVE DownloadSpec => []BodyMatchesHeader
  OBVIOUS
<1>1. HInv => BodyMatchesHeader
  BY DEF HInv, Holding, BodyMatchesHeader
<1>2. DownloadSpec => []Staged
  BY FsDownloadsStaged
<1> QED BY <1>1, <1>2, HandsInvariance, PTL

\* With hard links no download of what was there when it arrived is answered 404.
THEOREM PublishedAreFound == BlobDriver = "fs" => (DownloadSpec => []PublishedIsFound)
<1> SUFFICES ASSUME BlobDriver = "fs" PROVE DownloadSpec => []PublishedIsFound
  OBVIOUS
<1>1. HInv => PublishedIsFound
  BY DEF HInv
<1>2. DownloadSpec => []Staged
  BY FsDownloadsStaged
<1> QED BY <1>1, <1>2, HandsInvariance, PTL

\* With hard links downloads are atomic reads of the write-once ledger: what each
\* of them answers, 404 included, was all there was to say at one moment
\* between its arrival and its answer, whoever publishes meanwhile.
THEOREM DownloadsAreAtomic == BlobDriver = "fs" => (DownloadSpec => ImplementsReads)
<1> SUFFICES ASSUME BlobDriver = "fs" PROVE DownloadSpec => ImplementsReads
  OBVIOUS
<1>1. DownloadSpec => []Staged
  BY FsDownloadsStaged
<1> QED BY <1>1, StagedReads, PTL

\* With S3 all three hold in every behaviour in which publishes of one version
\* keep apart between HeadObject and PutObject: what a client sees there can
\* only be broken by the overwriting of a tarball.
THEOREM ApartDownloads ==
  DownloadSpec /\ []Apart => []BodyMatchesHeader /\ []PublishedIsFound /\ ImplementsReads
<1>1. HInv => BodyMatchesHeader /\ PublishedIsFound
  BY DEF HInv, Holding, BodyMatchesHeader
<1> QED BY <1>1, ApartDownloadsStaged, HandsInvariance, StagedReads, PTL
=============================================================================
