------------------------------- MODULE Install -------------------------------
(***************************************************************************)
(* The client's krate install and krate uninstall in one project: they     *)
(* replace and remove plugin directories and rewrite krate-lock.json, the  *)
(* list of what is installed where.  Nothing locks the project: commands   *)
(* run side by side, and any of them may be stopped anywhere.              *)
(*                                                                         *)
(* An archive is what one version of a plugin unpacks to; its version and  *)
(* its checksum go with it.  Entries gives the entries of its tarball, in  *)
(* order; those that are neither file nor directory have kind "other".     *)
(***************************************************************************)
EXTENDS Naturals, Sequences, FiniteSets

CONSTANTS Commands,     \* commands running in the project at once
          Plugins, Archives, Dirs, Paths, Data,
          Offers,       \* [Plugins -> SUBSET Archives], what the registry has
          DefaultDir,   \* [Plugins -> Dirs], agent_plugins/<name>
          FlagDirs,     \* what --dir may say
          Entries,      \* [Archives -> Seq(EntryType)]
          Limit,        \* MaxDecompressedBytes
          MaxRuns,      \* bound on the commands started, for TLC
          Empty,        \* a lockfile just truncated
          Garbage,      \* one that two commands wrote at once
          Partial,      \* a file that was not written to its end
          None

EntryType == [kind : {"file", "dir", "other"}, path : Paths, data : Data, size : Nat]

ASSUME InstallAssumption ==
    /\ Offers \in [Plugins -> SUBSET Archives]
    /\ DefaultDir \in [Plugins -> Dirs]
    /\ FlagDirs \subseteq Dirs
    /\ Entries \in [Archives -> Seq(EntryType)]
    /\ Limit \in Nat
    /\ MaxRuns \in Nat

LockEntries == [archive : Archives, dir : Dirs]
Locks == [Plugins -> LockEntries \cup {None}]
Trees == [Paths -> Data \cup {Partial, None}]
Steps == {"remove", "unpack", "load", "truncate", "write"}
Jobs == [kind : {"install", "uninstall"}, at : Steps,
         plugin : Plugins,
         archive : Archives \cup {None},
         dir : Dirs,
         done : Nat,        \* entries of the archive unpacked so far
         written : Nat,     \* totalWritten
         lf : Locks]        \* the lockfile as the command has it in memory

ASSUME InstallNoneAssumption ==
    /\ None \notin LockEntries \cup Jobs \cup Data \cup Archives
    /\ Partial \notin Data \cup {None}
    /\ Empty \notin Locks
    /\ Garbage \notin Locks

VARIABLES
    files,      \* [Dirs -> Trees], what is in each directory
    lock,       \* krate-lock.json; a missing file reads like an empty one
    job,        \* [Commands -> Jobs \cup {None}], the commands running
    answer,     \* how each command's last run ended
    runs,       \* how many were started
    \* Histories that only the properties read:
    alone,      \* commands that no other ran beside since they started
    sole,       \* commands that no other on the same directory ran beside
    overlapped, \* did two commands ever run at once?
    known,      \* the lockfile the successful commands make together
    tenants,    \* [Dirs -> SUBSET Plugins], installed there once, or tried to
    spoiled     \* plugins whose directory was changed since their last install

disk == <<files, lock>>
history == <<alone, sole, overlapped, known, tenants, spoiled>>
vars == <<files, lock, job, answer, runs, alone, sole, overlapped, known, tenants, spoiled>>

NoTree == [x \in Paths |-> None]
NoLock == [p \in Plugins |-> None]

Init ==
    /\ files = [d \in Dirs |-> NoTree]
    /\ lock = NoLock
    /\ job = [c \in Commands |-> None]
    /\ answer = [c \in Commands |-> "none"]
    /\ runs = 0
    /\ alone = {}
    /\ sole = {}
    /\ overlapped = FALSE
    /\ known = NoLock
    /\ tenants = [d \in Dirs |-> {}]
    /\ spoiled = {}

-----------------------------------------------------------------------------
Running == {c \in Commands : job[c] # None}
At(c, place) == c \in Running /\ job[c].at = place

\* Who met whom, when c starts on directory d for plugin p.
Meet(c, p, d) ==
    LET rivals == {b \in Running : job[b].dir = d} IN
    /\ alone' = IF Running = {} THEN {c} ELSE {}
    /\ sole' = (sole \ rivals) \cup (IF rivals = {} THEN {c} ELSE {})
    /\ overlapped' = (overlapped \/ Running # {})
    /\ tenants' = [tenants EXCEPT ![d] = @ \cup {p}]
    /\ spoiled' = spoiled \cup tenants[d] \cup {p}
    /\ UNCHANGED known

Begin(c, new) ==
    /\ job[c] = None
    /\ runs < MaxRuns
    /\ runs' = runs + 1
    /\ job' = [job EXCEPT ![c] = new]
    /\ answer' = [answer EXCEPT ![c] = "none"]
    /\ Meet(c, new.plugin, new.dir)
    /\ UNCHANGED disk

Goto(c, place) == /\ job' = [job EXCEPT ![c].at = place]
                  /\ UNCHANGED <<answer, runs, history>>

End(c, how) == /\ job' = [job EXCEPT ![c] = None]
               /\ answer' = [answer EXCEPT ![c] = how]
               /\ alone' = alone \ {c}
               /\ sole' = sole \ {c}
               /\ UNCHANGED <<runs, overlapped, tenants>>

\* The command returns an error of its own.
Refuse(c) == End(c, "refused") /\ UNCHANGED <<known, spoiled>>

-----------------------------------------------------------------------------
(***************************************************************************)
(* krate install                                                           *)
(***************************************************************************)

\* The version is resolved and downloaded, and the checksum agrees.
Fetch(c) ==
    \E p \in Plugins : \E a \in Offers[p], d \in {DefaultDir[p]} \cup FlagDirs :
        Begin(c, [kind |-> "install", at |-> "remove", plugin |-> p, archive |-> a,
                  dir |-> d, done |-> 0, written |-> 0, lf |-> NoLock])

\* It is not found, not delivered, or delivered with another checksum: the
\* working install stays.
FetchRefused(c) ==
    /\ job[c] = None
    /\ answer' = [answer EXCEPT ![c] = "refused"]
    /\ UNCHANGED <<disk, job, runs, history>>

\* (A bug: a new version is unpacked over the old one.)
RemoveNothing(c) ==
    /\ At(c, "remove")
    /\ Goto(c, IF job[c].kind = "install" THEN "unpack" ELSE "truncate")
    /\ UNCHANGED disk

\* os.RemoveAll takes file after file, until it finds none.
Remove(c) ==
    /\ At(c, "remove")
    /\ LET d == job[c].dir IN
         IF files[d] = NoTree
           THEN /\ Goto(c, IF job[c].kind = "install" THEN "unpack" ELSE "truncate")
                /\ UNCHANGED disk
           ELSE /\ \E x \in Paths : /\ files[d][x] # None
                                    /\ files' = [files EXCEPT ![d][x] = None]
                /\ UNCHANGED <<lock, job, answer, runs, history>>

\* (A bug: the limit is tested before the entry is counted.)
WithinLoose(written, size) == written < Limit

\* ExtractReader lets a file of this size through after so many bytes: the
\* bytes left must be more than none, and the file no more than they are.
Within(written, size) == written < Limit /\ size <= Limit - written

Write(c, d, x, what) == files' = [files EXCEPT ![d][x] = what]

\* One entry of the archive, whose limit all entries share.  A file that goes
\* over it is removed again and the install fails.
Unpack(c) ==
    /\ At(c, "unpack")
    /\ UNCHANGED lock
    /\ LET j == job[c]
           e == Entries[j.archive][j.done + 1]
       IN IF j.done = Len(Entries[j.archive])
            THEN Goto(c, "load") /\ UNCHANGED files
          ELSE IF e.kind = "file" /\ Within(j.written, e.size)
            THEN /\ Write(c, j.dir, e.path, e.data)
                 /\ job' = [job EXCEPT ![c] = [j EXCEPT !.done = j.done + 1,
                                                        !.written = j.written + e.size]]
                 /\ UNCHANGED <<answer, runs, history>>
          ELSE IF e.kind = "file"
            THEN Write(c, j.dir, e.path, None) /\ Refuse(c)
          ELSE IF e.kind = "dir"
            THEN /\ job' = [job EXCEPT ![c].done = j.done + 1]
                 /\ UNCHANGED <<files, answer, runs, history>>
          ELSE Refuse(c) /\ UNCHANGED files

\* (A bug: a lockfile that can not be read counts as none.)
LoadLenient(c) ==
    /\ At(c, "load")
    /\ LET j == job[c]
           read == IF lock \in Locks THEN lock ELSE NoLock IN
       job' = [job EXCEPT ![c] =
                 [j EXCEPT !.at = "truncate",
                           !.lf = [read EXCEPT ![j.plugin] =
                                     [archive |-> j.archive, dir |-> j.dir]]]]
    /\ UNCHANGED <<disk, answer, runs, history>>

\* Only now the lockfile is read.  An unreadable one fails the install, which
\* has replaced the directory by then.
Load(c) ==
    /\ At(c, "load")
    /\ UNCHANGED disk
    /\ LET j == job[c] IN
       IF lock \in Locks
         THEN /\ job' = [job EXCEPT ![c] =
                    [j EXCEPT !.at = "truncate",
                              !.lf = [lock EXCEPT ![j.plugin] =
                                        [archive |-> j.archive, dir |-> j.dir]]]]
              /\ UNCHANGED <<answer, runs, history>>
         ELSE Refuse(c)

(***************************************************************************)
(* krate uninstall, and the end of both                                    *)
(***************************************************************************)

\* The lockfile says where the plugin is, and is kept for the end.
Uninstall(c) ==
    /\ lock \in Locks
    /\ \E p \in Plugins :
         /\ lock[p] # None
         /\ Begin(c, [kind |-> "uninstall", at |-> "remove", plugin |-> p, archive |-> None,
                      dir |-> lock[p].dir, done |-> 0, written |-> 0,
                      lf |-> [lock EXCEPT ![p] = None]])

UninstallRefused(c) ==
    /\ job[c] = None
    /\ lock \in Locks => \E p \in Plugins : lock[p] = None
    /\ answer' = [answer EXCEPT ![c] = "refused"]
    /\ UNCHANGED <<disk, job, runs, history>>

\* os.WriteFile truncates the file ...
Truncate(c) ==
    /\ At(c, "truncate")
    /\ lock' = Empty
    /\ Goto(c, "write")
    /\ UNCHANGED files

\* ... and writes from its beginning: over what another command wrote, the
\* rest of which may stay behind.
Save(c) ==
    /\ At(c, "write")
    /\ lock' \in {job[c].lf} \cup (IF lock = Empty THEN {} ELSE {Garbage})
    /\ End(c, "ok")
    /\ known' = [known EXCEPT ![job[c].plugin] = job[c].lf[job[c].plugin]]
    /\ spoiled' = IF c \in alone /\ job[c].kind = "install"
                    THEN spoiled \ {job[c].plugin} ELSE spoiled
    /\ UNCHANGED files

\* A command is killed, or a call of it fails, anywhere: the file it was
\* writing may stay unfinished.
Interrupt(c) ==
    /\ c \in Running
    /\ End(c, "stopped")
    /\ UNCHANGED <<known, spoiled>>
    /\ lock' \in {lock} \cup (IF At(c, "write") /\ lock # Empty THEN {Garbage} ELSE {})
    /\ LET j == job[c]
           e == Entries[j.archive][j.done + 1]
       IN \/ UNCHANGED files
          \/ /\ j.at = "unpack"
             /\ j.done < Len(Entries[j.archive])
             /\ e.kind = "file"
             /\ Write(c, j.dir, e.path, Partial)

Next == \E c \in Commands :
    \/ Fetch(c) \/ FetchRefused(c)
    \/ Uninstall(c) \/ UninstallRefused(c)
    \/ Remove(c) \/ Unpack(c) \/ Load(c) \/ Truncate(c) \/ Save(c)
    \/ Interrupt(c)

Spec == Init /\ [][Next]_vars

-----------------------------------------------------------------------------
(***************************************************************************)
(* Properties                                                              *)
(***************************************************************************)

\* Directories, lockfile and commands keep their types; a command never
\* unpacks more entries than the archive has, nor more bytes than the limit.
InstallTypeOK ==
    /\ files \in [Dirs -> Trees]
    /\ lock \in Locks \cup {Empty, Garbage}
    /\ job \in [Commands -> Jobs \cup {None}]
    /\ answer \in [Commands -> {"none", "ok", "refused", "stopped"}]
    /\ runs \in Nat
    /\ alone \in SUBSET Commands
    /\ sole \in SUBSET Commands
    /\ overlapped \in BOOLEAN
    /\ known \in Locks
    /\ tenants \in [Dirs -> SUBSET Plugins]
    /\ spoiled \in SUBSET Plugins
    /\ \A c \in Running : /\ job[c].kind = "install" => job[c].archive # None
                          /\ job[c].written <= Limit

Files(a) == {i \in 1..Len(Entries[a]) : Entries[a][i].kind = "file"}

\* What those of its entries leave behind that write one path: the last one wins.
LastData(a, is) ==
    IF is = {} THEN None ELSE Entries[a][CHOOSE i \in is : \A k \in is : k <= i].data

\* What an archive unpacks to.
Contents(a) ==
    [x \in Paths |-> LastData(a, {i \in Files(a) : Entries[a][i].path = x})]

\* The bytes of the first n entries of a.
Bytes(a, n) ==
    LET sum[k \in 0..n] ==
          IF k = 0 THEN 0
          ELSE sum[k - 1] + (IF k \in Files(a) THEN Entries[a][k].size ELSE 0)
    IN sum[n]

\* An archive may hold Limit bytes in all, but no empty file after all of them.
Fits(a) ==
    /\ \A i \in 1..Len(Entries[a]) : Entries[a][i].kind # "other"
    /\ Bytes(a, Len(Entries[a])) <= Limit
    /\ \A i \in Files(a) : Entries[a][i].size = 0 => Bytes(a, i - 1) < Limit

\* Unpacking comes to its end for the archives that fit, no matter how they
\* are ordered, and refuses the others; a command that had its directory
\* for itself then finds in it what the archive holds and nothing else, whatever
\* was there before and whatever other commands do elsewhere.
ExtractsExactly ==
    [][\A c \in Commands : At(c, "unpack") =>
          LET j == job[c] IN
          /\ job'[c] # None /\ job'[c].at = "load" =>
                Fits(j.archive) /\ (c \in sole => files'[j.dir] = Contents(j.archive))
          /\ answer'[c] = "refused" => ~Fits(j.archive)]_vars

\* How far the lockfile can be trusted (lockfile.go:9, "tracking what krate
\* install has put on disk"): the directory it names for a plugin is whole and
\* of the version it names, if the plugin's last install ran with no other
\* command beside it, and since then no command was stopped or refused in that
\* directory, ran there beside another, or installed another plugin there.
LockIsTrue ==
    lock \in Locks => \A p \in Plugins \ spoiled :
        lock[p] # None => files[lock[p].dir] = Contents(lock[p].archive)

\* Commands ran one after the other, each once, and each succeeded.
AllWentWell ==
    /\ Running = {} /\ ~overlapped
    /\ runs = Cardinality({c \in Commands : answer[c] = "ok"})

\* What the lockfile is said to be (README.md:88, "recording what's installed
\* and at which resolved version"), where nothing went wrong.  The code breaks
\* it: the default directory does not depend on the scope (cmd_fetch.go:86), so
\* installing @bob/x removes the files of @ann/x, whose entry stays.
LockTracksDisk ==
    AllWentWell /\ lock \in Locks =>
        \A p \in Plugins :
            lock[p] # None => files[lock[p].dir] = Contents(lock[p].archive)

\* Where commands run one after the other, stopped or not, the lockfile that
\* can be read is exactly what the successful commands said.  A command that
\* is stopped while it writes leaves one that can not be read, and no later
\* command takes that for an empty one.
LockSurvives == ~overlapped /\ lock \in Locks => lock = known
=============================================================================
