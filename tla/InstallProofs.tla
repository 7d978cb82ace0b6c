---------------------------- MODULE InstallProofs ----------------------------
(***************************************************************************)
(* Theorems about Install: what the lockfile and the directories say, for  *)
(* any number of commands, any archives and any limit.                     *)
(*                                                                         *)
(* LockIsTrue speaks about plugins nobody disturbed.  The invariant behind *)
(* it says the same of every lockfile that a command still has in memory,  *)
(* and that a command disturbs, from its start to its end, every plugin    *)
(* that ever was in its directory.                                         *)
(***************************************************************************)
EXTENDS Install, Integers, NaturalSets, SequenceTheorems, TLAPS

\* The first n entries of a hold w bytes, and nothing in them is refused.
FitsUpTo(a, n, w) ==
    /\ w = Bytes(a, n)
    /\ \A i \in 1..n : Entries[a][i].kind # "other"
    /\ \A i \in Files(a) : i <= n /\ Entries[a][i].size = 0 => Bytes(a, i - 1) < Limit

\* Only an install unpacks, an archive and no further than to its end, and has
\* counted the bytes of what it unpacked.
PhaseOK(j) ==
    /\ j.kind = "install" => j.archive \in Archives
    /\ j.at = "remove" => j.done = 0 /\ j.written = 0
    /\ j.at \in {"unpack", "load"} => j.kind = "install"
    /\ j.at = "unpack" => /\ j.done <= Len(Entries[j.archive])
                         /\ FitsUpTo(j.archive, j.done, j.written)
    /\ j.kind = "install" /\ j.at \in {"truncate", "write"} =>
          j.lf[j.plugin] = [archive |-> j.archive, dir |-> j.dir]
Phases == \A c \in Running : PhaseOK(job[c])

\* alone and sole mean what they say.
Company ==
    /\ \A c \in alone : Running = {c}
    /\ alone \subseteq sole
    /\ sole \subseteq Running
    /\ \A c \in sole, b \in Running : job[b].dir = job[c].dir => b = c

\* While a command runs, all that was ever in its directory counts as spoiled.
Tainted == \A c \in Running : /\ job[c].plugin \in tenants[job[c].dir]
                              /\ tenants[job[c].dir] \subseteq spoiled

\* What a lockfile says about the plugins nobody disturbed.
SoundIn(L, s, t, f) ==
    \A p \in Plugins \ s : L[p] # None =>
        /\ p \in t[L[p].dir]
        /\ f[L[p].dir] = Contents(L[p].archive)
Sound(L) == SoundIn(L, spoiled, tenants, files)
AllSound == /\ lock \in Locks => Sound(lock)
            /\ \A c \in Running : Sound(job[c].lf)

\* Its first n entries.
Prefix(a, n) ==
    [x \in Paths |-> LastData(a, {i \in Files(a) : i <= n /\ Entries[a][i].path = x})]

\* How far an undisturbed install has got.
UnpackedTo(j, tree) ==
    j.kind = "install" =>
        /\ j.at = "unpack" => tree = Prefix(j.archive, j.done)
        /\ j.at \in {"load", "truncate", "write"} => tree = Contents(j.archive)
Unpacked == \A c \in sole : UnpackedTo(job[c], files[job[c].dir])

\* One command after the other: what the running one will write is what the
\* successful ones made, changed where it says.
Follows(j, l, k) ==
    /\ j.at = "write" => l = Empty
    /\ j.kind = "uninstall" \/ j.at \in {"truncate", "write"}
         => j.lf = [k EXCEPT ![j.plugin] = j.lf[j.plugin]]
InTurn ==
    ~overlapped =>
        /\ \A b, c \in Running : b = c
        /\ lock \in Locks => lock = known
        /\ \A c \in Running : Follows(job[c], lock, known)

IInv == /\ InstallTypeOK /\ Phases /\ Company /\ Tainted
        /\ AllSound /\ Unpacked /\ InTurn

-----------------------------------------------------------------------------
(***************************************************************************)
(* What an archive unpacks to                                              *)
(***************************************************************************)
LEMMA EntryTypes ==
  ASSUME NEW a \in Archives
  PROVE  /\ Len(Entries[a]) \in Nat
         /\ \A i \in 1..Len(Entries[a]) : Entries[a][i] \in EntryType
<1>1. Entries[a] \in Seq(EntryType)
  BY InstallAssumption
<1> QED BY <1>1, ElementOfSeq, LenProperties

LEMMA NothingYet ==
  ASSUME NEW a \in Archives
  PROVE  Prefix(a, 0) = NoTree
<1>1. \A i \in Files(a) : ~(i <= 0)
  BY EntryTypes DEF Files
<1>2. ASSUME NEW x \in Paths
      PROVE  LastData(a, {i \in Files(a) : i <= 0 /\ Entries[a][i].path = x}) = None
  <2>1. {i \in Files(a) : i <= 0 /\ Entries[a][i].path = x} = {}
    BY <1>1
  <2> QED BY <2>1 DEF LastData
<1> QED BY <1>2 DEF Prefix, NoTree

LEMMA AllOfIt ==
  ASSUME NEW a \in Archives
  PROVE  Prefix(a, Len(Entries[a])) = Contents(a)
<1>1. \A i \in Files(a) : i <= Len(Entries[a])
  BY EntryTypes DEF Files
<1>2. \A x \in Paths : {i \in Files(a) : i <= Len(Entries[a]) /\ Entries[a][i].path = x}
                         = {i \in Files(a) : Entries[a][i].path = x}
  BY <1>1
<1> QED BY <1>2 DEF Prefix, Contents

\* A file takes the place of an earlier one with its path ...
LEMMA OneMoreFile ==
  ASSUME NEW a \in Archives, NEW n \in Nat, n < Len(Entries[a]),
         Entries[a][n + 1].kind = "file"
  PROVE  Prefix(a, n + 1) = [Prefix(a, n) EXCEPT ![Entries[a][n + 1].path] = Entries[a][n + 1].data]
<1> DEFINE is(m, x) == {i \in Files(a) : i <= m /\ Entries[a][i].path = x}
           path == Entries[a][n + 1].path
<1>1. n + 1 \in Files(a) /\ \A i \in Files(a) : i \in Int
  BY EntryTypes DEF Files
<1>2. \A x \in Paths : x # path => is(n + 1, x) = is(n, x)
  BY <1>1
<1>3. /\ n + 1 \in is(n + 1, path)
      /\ \A k \in is(n + 1, path) : k \in Int /\ k <= n + 1
  BY <1>1
<1>4. LastData(a, is(n + 1, path)) = Entries[a][n + 1].data
  <2> DEFINE S == is(n + 1, path)
             last == CHOOSE i \in S : \A k \in S : k <= i
  <2>1. \A k \in S : k \in Int
    BY <1>3
  <2>2. n + 1 \in S /\ \A k \in S : k <= n + 1
    BY <1>3
  <2>3. LastData(a, S) = Entries[a][last].data
    BY <2>2 DEF LastData
  <2> HIDE DEF S
  <2>4. last \in S /\ \A k \in S : k <= last
    BY <2>2
  <2> HIDE DEF last
  <2>5. last \in Int /\ last <= n + 1 /\ n + 1 <= last
    BY <2>1, <2>2, <2>4
  <2>6. last = n + 1
    BY <2>5
  <2> QED BY <2>3, <2>6 DEF S
<1>5. ASSUME NEW x \in Paths
      PROVE  Prefix(a, n + 1)[x]
               = [Prefix(a, n) EXCEPT ![Entries[a][n + 1].path] = Entries[a][n + 1].data][x]
  <2>1. Prefix(a, n + 1)[x] = LastData(a, is(n + 1, x))
    BY DEF Prefix
  <2>2. Prefix(a, n)[x] = LastData(a, is(n, x)) /\ x \in DOMAIN Prefix(a, n)
    BY DEF Prefix
  <2> HIDE DEF is
  <2>3. CASE x = path
    BY <1>4, <2>1, <2>2, <2>3
  <2>4. CASE x # path
    BY <1>2, <2>1, <2>2, <2>4
  <2> QED BY <2>3, <2>4
<1> QED BY <1>5 DEF Prefix

\* ... and what is no file leaves everything as it is.
LEMMA NoMoreFile ==
  ASSUME NEW a \in Archives, NEW n \in Nat, n < Len(Entries[a]),
         Entries[a][n + 1].kind # "file"
  PROVE  Prefix(a, n + 1) = Prefix(a, n)
<1>1. n + 1 \notin Files(a) /\ \A i \in Files(a) : i \in Int
  BY EntryTypes DEF Files
<1>2. \A i \in Files(a) : i <= n + 1 <=> i <= n
  BY <1>1
<1>3. \A x \in Paths : {i \in Files(a) : i <= n + 1 /\ Entries[a][i].path = x}
                         = {i \in Files(a) : i <= n /\ Entries[a][i].path = x}
  BY <1>2
<1> QED BY <1>3 DEF Prefix

-----------------------------------------------------------------------------
(***************************************************************************)
(* How many bytes it holds                                                 *)
(*                                                                         *)
(* Bytes is a recursive function for every number of entries; each is the  *)
(* beginning of the next.                                                  *)
(***************************************************************************)

\* The bytes of its k-th entry.
Size(a, k) == IF k \in Files(a) THEN Entries[a][k].size ELSE 0

\* s gives the sums of the sizes up to n.
IsSum(s, a, n) == s = [k \in 0..n |-> IF k = 0 THEN 0 ELSE s[k - 1] + Size(a, k)]

LEMMA SizeType ==
  ASSUME NEW a \in Archives, NEW k
  PROVE  Size(a, k) \in Nat
BY EntryTypes DEF Size, Files, EntryType

\* The sums exist, one entry after the other ...
LEMMA SumExists ==
  ASSUME NEW a \in Archives, NEW n \in Nat
  PROVE  \E s : IsSum(s, a, n) /\ \A k \in 0..n : s[k] \in Nat
<1> DEFINE has == {m \in Nat : \E s : IsSum(s, a, m) /\ \A k \in 0..m : s[k] \in Nat}
<1>1. 0 \in has
  <2> DEFINE s == [k \in 0..0 |-> 0]
  <2>1. IsSum(s, a, 0) /\ \A k \in 0..0 : s[k] \in Nat
    BY DEF IsSum
  <2> HIDE DEF s
  <2> QED BY <2>1
<1>2. ASSUME NEW m \in Nat, m \in has PROVE m + 1 \in has
  <2>1. PICK s : IsSum(s, a, m) /\ \A k \in 0..m : s[k] \in Nat
    BY <1>2
  <2> DEFINE last == s[m] + Size(a, m + 1)
             t == [k \in 0..(m + 1) |-> IF k = m + 1 THEN last ELSE s[k]]
  <2>2. last \in Nat
    BY <2>1, SizeType
  <2>3. \A k \in 0..(m + 1) : t[k] \in Nat
    BY <2>1, <2>2
  <2>4. ASSUME NEW k \in 0..(m + 1)
        PROVE  t[k] = IF k = 0 THEN 0 ELSE t[k - 1] + Size(a, k)
    <3>1. CASE k = m + 1
      <4>1. k # 0 /\ k - 1 = m /\ m \in 0..(m + 1) /\ m # m + 1
        BY <3>1
      <4>2. t[k] = last /\ t[m] = s[m]
        BY <3>1, <4>1
      <4> QED BY <3>1, <4>1, <4>2
    <3>2. CASE k # m + 1 /\ k # 0
      <4>1. k \in 0..m /\ k - 1 \in 0..(m + 1) /\ k - 1 # m + 1
        BY <3>2
      <4>2. t[k] = s[k] /\ t[k - 1] = s[k - 1]
        BY <3>2, <4>1
      <4>3. s[k] = s[k - 1] + Size(a, k)
        BY <2>1, <3>2, <4>1 DEF IsSum
      <4> QED BY <3>2, <4>2, <4>3
    <3>3. CASE k # m + 1 /\ k = 0
      <4>1. 0 \in 0..m
        OBVIOUS
      <4>2. s[0] = 0
        BY <2>1, <4>1 DEF IsSum
      <4> QED BY <3>3, <4>2
    <3> QED BY <3>1, <3>2, <3>3
  <2>5. IsSum(t, a, m + 1)
    <3>1. t = [k \in 0..(m + 1) |-> t[k]]
      OBVIOUS
    <3> HIDE DEF t
    <3> QED BY <2>4, <3>1 DEF IsSum
  <2> HIDE DEF t, last
  <2> QED BY <2>3, <2>5
<1> HIDE DEF has
<1>3. n \in has
  BY <1>1, <1>2, AllNaturals
<1> QED BY <1>3 DEF has

\* ... and do not depend on where they end.
LEMMA SumsAgree ==
  ASSUME NEW a, NEW n \in Nat, NEW m \in Nat, n <= m,
         NEW s, IsSum(s, a, n), NEW t, IsSum(t, a, m)
  PROVE  \A k \in 0..n : s[k] = t[k]
<1> DEFINE same == {k \in Nat : k <= n => s[k] = t[k]}
<1>1. 0 \in same
  BY DEF IsSum
<1>2. ASSUME NEW k \in Nat, k \in same PROVE k + 1 \in same
  <2> SUFFICES ASSUME k + 1 <= n PROVE s[k + 1] = t[k + 1]
    OBVIOUS
  <2>1. k + 1 \in 0..n /\ k + 1 \in 0..m /\ k + 1 # 0 /\ (k + 1) - 1 = k
    OBVIOUS
  <2>2. s[k + 1] = s[k] + Size(a, k + 1) /\ t[k + 1] = t[k] + Size(a, k + 1)
    BY <2>1 DEF IsSum
  <2>3. s[k] = t[k]
    BY <1>2
  <2> QED BY <2>2, <2>3
<1> HIDE DEF same
<1>3. Nat \subseteq same
  BY <1>1, <1>2, AllNaturals
<1> QED BY <1>3 DEF same

\* Bytes counts an archive's bytes entry by entry.
LEMMA BytesAreSums ==
  ASSUME NEW a \in Archives, NEW n \in Nat
  PROVE  \E s : IsSum(s, a, n) /\ Bytes(a, n) = s[n]
<1> DEFINE s == CHOOSE s : s = [k \in 0..n |->
                  IF k = 0 THEN 0
                  ELSE s[k - 1] + (IF k \in Files(a) THEN Entries[a][k].size ELSE 0)]
<1>1. Bytes(a, n) = s[n]
  BY DEF Bytes
<1>2. PICK t : IsSum(t, a, n)
  BY SumExists
<1>3. IsSum(s, a, n)
  BY <1>2 DEF IsSum, Size
<1> HIDE DEF s
<1> QED BY <1>1, <1>3

LEMMA BytesCounted ==
  ASSUME NEW a \in Archives, NEW n \in Nat
  PROVE  /\ Bytes(a, 0) = 0
         /\ Bytes(a, n) \in Nat
         /\ Bytes(a, n + 1) = Bytes(a, n) + Size(a, n + 1)
<1>1. Bytes(a, 0) = 0
  <2>1. PICK s : IsSum(s, a, 0) /\ Bytes(a, 0) = s[0]
    BY BytesAreSums
  <2> QED BY <2>1 DEF IsSum
<1>2. PICK s : IsSum(s, a, n) /\ Bytes(a, n) = s[n]
  BY BytesAreSums
<1>3. PICK t : IsSum(t, a, n + 1) /\ Bytes(a, n + 1) = t[n + 1]
  BY BytesAreSums
<1>4. s[n] \in Nat
  <2>1. PICK u : IsSum(u, a, n) /\ \A k \in 0..n : u[k] \in Nat
    BY SumExists
  <2>2. s[n] = u[n] /\ n \in 0..n
    BY <1>2, <2>1, SumsAgree
  <2> QED BY <2>1, <2>2
<1>5. s[n] = t[n]
  <2>1. n + 1 \in Nat /\ n <= n + 1 /\ n \in 0..n
    OBVIOUS
  <2> QED BY <1>2, <1>3, <2>1, SumsAgree
<1>6. t[n + 1] = t[n] + Size(a, n + 1)
  <2>1. n + 1 \in 0..(n + 1) /\ n + 1 # 0 /\ (n + 1) - 1 = n
    OBVIOUS
  <2> QED BY <1>3, <2>1 DEF IsSum
<1> QED BY <1>1, <1>2, <1>3, <1>4, <1>5, <1>6

\* The more entries, the more bytes.
LEMMA BytesGrow ==
  ASSUME NEW a \in Archives, NEW m \in Nat, NEW n \in Nat, m <= n
  PROVE  Bytes(a, m) <= Bytes(a, n)
<1> DEFINE over == {k \in Nat : Bytes(a, m) <= Bytes(a, m + k)}
<1>1. 0 \in over
  BY BytesCounted
<1>2. ASSUME NEW k \in Nat, k \in over PROVE k + 1 \in over
  <2>1. /\ Bytes(a, m) \in Nat /\ Bytes(a, m + k) \in Nat
        /\ Bytes(a, (m + k) + 1) = Bytes(a, m + k) + Size(a, (m + k) + 1)
    BY BytesCounted
  <2>2. Size(a, (m + k) + 1) \in Nat /\ (m + k) + 1 = m + (k + 1)
    BY SizeType
  <2>3. Bytes(a, m) <= Bytes(a, m + k)
    BY <1>2
  <2>4. Bytes(a, m) <= Bytes(a, (m + k) + 1)
    BY <2>1, <2>2, <2>3
  <2> QED BY <2>2, <2>4
<1> HIDE DEF over
<1>3. n - m \in over
  BY <1>1, <1>2, AllNaturals
<1>4. m + (n - m) = n
  OBVIOUS
<1> QED BY <1>3, <1>4 DEF over

\* What is unpacked so far is part of an archive that fits, or of one whose rest
\* will be refused.
LEMMA FitsSoFar ==
  ASSUME NEW a \in Archives
  PROVE  FitsUpTo(a, 0, 0)
<1>1. \A i \in Files(a) : ~(i <= 0)
  BY EntryTypes DEF Files
<1> QED BY <1>1, BytesCounted DEF FitsUpTo

LEMMA FitsWithFile ==
  ASSUME NEW a \in Archives, NEW n \in Nat, n < Len(Entries[a]), NEW w \in Nat,
         FitsUpTo(a, n, w), Entries[a][n + 1].kind = "file",
         Within(w, Entries[a][n + 1].size)
  PROVE  FitsUpTo(a, n + 1, w + Entries[a][n + 1].size)
<1>1. n + 1 \in Files(a) /\ \A i \in Files(a) : i \in Int
  BY EntryTypes DEF Files
<1>2. w + Entries[a][n + 1].size = Bytes(a, n + 1)
  BY <1>1, BytesCounted DEF FitsUpTo, Size
<1>3. \A i \in 1..(n + 1) : Entries[a][i].kind # "other"
  <2>1. \A i \in 1..(n + 1) : i \in 1..n \/ i = n + 1
    OBVIOUS
  <2> QED BY <2>1 DEF FitsUpTo
<1>4. ASSUME NEW i \in Files(a), i <= n + 1, Entries[a][i].size = 0
      PROVE  Bytes(a, i - 1) < Limit
  <2>1. CASE i = n + 1
    <3>1. i - 1 = n
      BY <2>1
    <3> QED BY <3>1 DEF FitsUpTo, Within
  <2>2. CASE i # n + 1
    <3>1. i <= n
      BY <1>1, <1>4, <2>2
    <3> QED BY <1>4, <3>1 DEF FitsUpTo
  <2> QED BY <2>1, <2>2
<1> QED BY <1>2, <1>3, <1>4 DEF FitsUpTo

LEMMA FitsWithDir ==
  ASSUME NEW a \in Archives, NEW n \in Nat, n < Len(Entries[a]), NEW w \in Nat,
         FitsUpTo(a, n, w), Entries[a][n + 1].kind = "dir"
  PROVE  FitsUpTo(a, n + 1, w)
<1>1. n + 1 \notin Files(a) /\ \A i \in Files(a) : i \in Int
  BY EntryTypes DEF Files
<1>2. w = Bytes(a, n + 1)
  BY <1>1, BytesCounted DEF FitsUpTo, Size
<1>3. \A i \in 1..(n + 1) : Entries[a][i].kind # "other"
  <2>1. \A i \in 1..(n + 1) : i \in 1..n \/ i = n + 1
    OBVIOUS
  <2> QED BY <2>1 DEF FitsUpTo
<1>4. \A i \in Files(a) : i <= n + 1 => i <= n
  BY <1>1
<1> QED BY <1>2, <1>3, <1>4 DEF FitsUpTo

LEMMA FitsWhole ==
  ASSUME NEW a \in Archives, NEW w \in Nat, w <= Limit,
         FitsUpTo(a, Len(Entries[a]), w)
  PROVE  Fits(a)
<1>1. \A i \in Files(a) : i <= Len(Entries[a])
  BY EntryTypes DEF Files
<1> QED BY <1>1 DEF FitsUpTo, Fits

LEMMA FitsNot ==
  ASSUME NEW a \in Archives, NEW n \in Nat, n < Len(Entries[a]), NEW w \in Nat,
         FitsUpTo(a, n, w), Entries[a][n + 1].kind # "dir",
         Entries[a][n + 1].kind = "file" => ~Within(w, Entries[a][n + 1].size)
  PROVE  ~Fits(a)
<1>0. /\ n + 1 \in 1..Len(Entries[a]) /\ Len(Entries[a]) \in Nat /\ n + 1 \in Nat
      /\ Entries[a][n + 1] \in EntryType
      /\ n + 1 <= Len(Entries[a]) /\ Limit \in Nat
  <2>1. Len(Entries[a]) \in Nat /\ n + 1 \in 1..Len(Entries[a])
    BY EntryTypes
  <2> QED BY <2>1, EntryTypes, InstallAssumption
<1>1. CASE Entries[a][n + 1].kind # "file"
  <2>1. Entries[a][n + 1].kind = "other"
    BY <1>0, <1>1 DEF EntryType
  <2> QED BY <1>0, <2>1 DEF Fits
<1>2. CASE Entries[a][n + 1].kind = "file"
  <2> DEFINE z == Entries[a][n + 1].size
  <2>1. n + 1 \in Files(a) /\ z \in Nat
    BY <1>0, <1>2 DEF Files, EntryType
  <2>2. /\ w = Bytes(a, n)
        /\ Bytes(a, n + 1) = w + z
        /\ Bytes(a, n + 1) <= Bytes(a, Len(Entries[a]))
        /\ Bytes(a, Len(Entries[a])) \in Nat
    BY <1>0, <2>1, BytesCounted, BytesGrow DEF FitsUpTo, Size
  <2>3. ~(w < Limit) \/ ~(z <= Limit - w)
    BY <1>2 DEF Within
  <2> HIDE DEF z
  <2>4. CASE z = 0
    <3>1. ~(w < Limit)
      BY <1>0, <2>3, <2>4
    <3>2. (n + 1) - 1 = n
      OBVIOUS
    <3> QED BY <2>1, <2>2, <2>4, <3>1, <3>2 DEF Fits, z
  <2>5. CASE z # 0
    <3>1. w + z > Limit
      BY <1>0, <2>1, <2>3, <2>5
    <3>2. ~(Bytes(a, Len(Entries[a])) <= Limit)
      BY <1>0, <2>1, <2>2, <3>1
    <3> QED BY <3>2 DEF Fits
  <2> QED BY <2>4, <2>5
<1> QED BY <1>1, <1>2

-----------------------------------------------------------------------------
(***************************************************************************)
(* Beginning                                                               *)
(***************************************************************************)
LEMMA BeginStep ==
  ASSUME IInv, NEW c \in Commands, NEW new \in Jobs, Begin(c, new),
         new.at = "remove", new.done = 0, new.written = 0,
         new.kind = "install" => new.archive \in Archives, Sound(new.lf),
         ~overlapped => Follows(new, lock, known)
  PROVE  IInv'
<1> DEFINE p == new.plugin  d == new.dir
<1>0. /\ job[c] = None /\ new # None
      /\ p \in Plugins /\ d \in Dirs
      /\ runs' = runs + 1
      /\ job' = [job EXCEPT ![c] = new]
      /\ answer' = [answer EXCEPT ![c] = "none"]
      /\ UNCHANGED <<files, lock>>
      /\ Meet(c, p, d)
  BY InstallNoneAssumption DEF Begin, disk, Jobs
<1>1. /\ job'[c] = new
      /\ Running' = Running \cup {c} /\ c \notin Running
      /\ \A b \in Running : b # c /\ job'[b] = job[b]
  BY <1>0 DEF IInv, InstallTypeOK, Running
<1>2. /\ UNCHANGED known
      /\ tenants' = [tenants EXCEPT ![d] = @ \cup {p}]
      /\ spoiled' = spoiled \cup tenants[d] \cup {p}
      /\ overlapped' = (overlapped \/ Running # {})
  BY <1>0 DEF Meet
<1> HIDE DEF p, d
<1>3. InstallTypeOK'
  <2>1. /\ alone' \subseteq Commands /\ sole' \subseteq Commands
        /\ tenants' \in [Dirs -> SUBSET Plugins] /\ spoiled' \subseteq Plugins
        /\ overlapped' \in BOOLEAN
    BY <1>0, <1>2 DEF Meet, IInv, InstallTypeOK, Running
  <2>2. ASSUME NEW b \in Running'
        PROVE  /\ job'[b].kind = "install" => job'[b].archive # None
               /\ job'[b].written <= Limit
    <3>1. CASE b = c
      BY <1>1, <3>1, InstallNoneAssumption, InstallAssumption
    <3>2. CASE b # c
      BY <1>1, <2>2, <3>2 DEF IInv, InstallTypeOK
    <3> QED BY <3>1, <3>2
  <2> QED BY <1>0, <1>2, <2>1, <2>2 DEF IInv, InstallTypeOK
<1>4. Phases'
  <2> SUFFICES ASSUME NEW b \in Running' PROVE PhaseOK(job[b])'
    BY DEF Phases
  <2>1. CASE b = c
    BY <1>1, <2>1 DEF PhaseOK
  <2>2. CASE b # c
    BY <1>1, <2>2 DEF IInv, Phases, PhaseOK
  <2> QED BY <2>1, <2>2
<1>5. Company'
  <2>1. CASE Running = {}
    BY <1>0, <1>1, <2>1 DEF IInv, Company, Meet
  <2>2. CASE Running # {}
    <3>1. /\ alone' = {}
          /\ sole' = (sole \ {b \in Running : job[b].dir = d})
                       \cup (IF {b \in Running : job[b].dir = d} = {} THEN {c} ELSE {})
      BY <1>0, <2>2 DEF Meet, d
    <3>2. alone' \subseteq sole' /\ sole' \subseteq Running' /\ \A b \in alone' : Running' = {b}
      BY <1>1, <3>1 DEF IInv, Company
    <3>3. job'[c].dir = d
      BY <1>1 DEF d
    <3>4. ASSUME NEW a \in sole', NEW b \in Running', job'[b].dir = job'[a].dir
          PROVE  b = a
      <4>1. CASE a = c
        BY <1>1, <3>1, <3>3, <3>4, <4>1 DEF IInv, Company
      <4>2. CASE a # c
        BY <1>1, <3>1, <3>3, <3>4, <4>2 DEF IInv, Company
      <4> QED BY <4>1, <4>2
    <3> QED BY <3>2, <3>4 DEF Company
  <2> QED BY <2>1, <2>2
<1>6. Tainted'
  <2> SUFFICES ASSUME NEW b \in Running'
               PROVE  /\ job'[b].plugin \in tenants'[job'[b].dir]
                      /\ tenants'[job'[b].dir] \subseteq spoiled'
    BY DEF Tainted
  <2>1. CASE b = c
    BY <1>0, <1>1, <1>2, <2>1 DEF p, d, IInv, InstallTypeOK
  <2>2. CASE b # c
    <3>1. /\ job[b].plugin \in tenants[job[b].dir] /\ tenants[job[b].dir] \subseteq spoiled
          /\ job[b].dir \in Dirs /\ job'[b] = job[b]
      BY <1>1, <2>2 DEF IInv, Tainted, InstallTypeOK, Running, Jobs
    <3> QED BY <1>0, <1>2, <3>1 DEF IInv, InstallTypeOK
  <2> QED BY <2>1, <2>2
<1>7. ASSUME NEW L \in Locks, Sound(L)
      PROVE  SoundIn(L, spoiled', tenants', files')
  <2> SUFFICES ASSUME NEW q \in Plugins \ spoiled', L[q] # None
               PROVE  /\ q \in tenants'[L[q].dir]
                      /\ files'[L[q].dir] = Contents(L[q].archive)
    BY DEF SoundIn
  <2>1. q \in tenants[L[q].dir] /\ files[L[q].dir] = Contents(L[q].archive) /\ L[q].dir \in Dirs
    BY <1>2, <1>7 DEF Sound, SoundIn, Locks, LockEntries
  <2> QED BY <1>0, <1>2, <2>1 DEF IInv, InstallTypeOK
<1>8. InTurn'
  <2> SUFFICES ASSUME ~overlapped'
               PROVE  (/\ \A a, b \in Running : a = b
                       /\ lock \in Locks => lock = known
                       /\ \A b \in Running : Follows(job[b], lock, known))'
    BY DEF InTurn
  <2>1. Running = {} /\ ~overlapped
    BY <1>2
  <2>2. Running' = {c}
    BY <1>1, <2>1
  <2> QED BY <1>0, <1>1, <1>2, <2>1, <2>2 DEF IInv, InTurn, Follows
<1>9. Unpacked'
  <2> SUFFICES ASSUME NEW b \in sole' PROVE UnpackedTo(job[b], files[job[b].dir])'
    BY DEF Unpacked
  <2>1. CASE b = c
    BY <1>1, <2>1 DEF UnpackedTo
  <2>2. CASE b # c
    <3>1. b \in sole /\ b \in Running
      BY <1>0, <1>5, <2>2 DEF Meet, IInv, Company
    <3>2. UnpackedTo(job[b], files[job[b].dir]) /\ job'[b] = job[b]
      BY <1>1, <3>1 DEF IInv, Unpacked
    <3> QED BY <1>0, <3>2 DEF UnpackedTo
  <2> QED BY <2>1, <2>2
<1>10. AllSound'
  <2>1. lock' \in Locks => SoundIn(lock', spoiled', tenants', files')
    BY <1>0, <1>7 DEF IInv, AllSound, Sound
  <2>2. ASSUME NEW b \in Running' PROVE SoundIn(job'[b].lf, spoiled', tenants', files')
    <3>1. job'[b].lf \in Locks /\ Sound(job'[b].lf)
      BY <1>1 DEF IInv, AllSound, InstallTypeOK, Running, Jobs
    <3> QED BY <1>7, <3>1 DEF Sound
  <2> QED BY <2>1, <2>2 DEF AllSound, Sound
<1> QED BY <1>3, <1>4, <1>5, <1>6, <1>8, <1>9, <1>10 DEF IInv

-----------------------------------------------------------------------------
(***************************************************************************)
(* Going on and ending                                                     *)
(***************************************************************************)

\* A command writes in its own directory only.
Touches(d) == /\ files' \in [Dirs -> Trees]
              /\ \A e \in Dirs \ {d} : files'[e] = files[e]

\* What a running command is.
LEMMA JobTypes ==
  ASSUME IInv, NEW c \in Running
  PROVE  /\ c \in Commands /\ job[c] \in Jobs /\ job[c] # None
         /\ job[c].plugin \in Plugins /\ job[c].dir \in Dirs
         /\ job[c].done \in Nat /\ job[c].written \in Nat /\ job[c].lf \in Locks
         /\ job[c].written <= Limit
         /\ job[c].at \in Steps /\ job[c].kind \in {"install", "uninstall"}
         /\ PhaseOK(job[c])
BY DEF IInv, InstallTypeOK, Running, Jobs, Phases

\* What is written in a command's directory disturbs no plugin that counts.
LEMMA SoundStays ==
  ASSUME IInv, NEW c \in Running, Touches(job[c].dir), UNCHANGED <<tenants, spoiled>>,
         NEW L \in Locks, Sound(L)
  PROVE  SoundIn(L, spoiled', tenants', files')
<1> SUFFICES ASSUME NEW q \in Plugins \ spoiled, L[q] # None
             PROVE  /\ q \in tenants[L[q].dir]
                    /\ files'[L[q].dir] = Contents(L[q].archive)
  BY DEF SoundIn
<1>1. q \in tenants[L[q].dir] /\ files[L[q].dir] = Contents(L[q].archive) /\ L[q].dir \in Dirs
  BY DEF Sound, SoundIn, Locks, LockEntries
<1>2. tenants[job[c].dir] \subseteq spoiled
  BY DEF IInv, Tainted
<1>3. L[q].dir # job[c].dir
  BY <1>1, <1>2
<1> QED BY <1>1, <1>3 DEF Touches

LEMMA MoveStep ==
  ASSUME IInv, NEW c \in Running, NEW new \in Jobs, job' = [job EXCEPT ![c] = new],
         new.kind = job[c].kind, new.plugin = job[c].plugin,
         new.archive = job[c].archive, new.dir = job[c].dir,
         UNCHANGED <<answer, runs, history>>,
         Touches(job[c].dir), lock' \in {lock, Empty},
         PhaseOK(new), new.written <= Limit, Sound(new.lf),
         c \in sole => UnpackedTo(new, files'[new.dir]),
         ~overlapped => Follows(new, lock', known)
  PROVE  IInv'
<1>0. /\ new # None /\ c \in Commands /\ job[c].dir \in Dirs
      /\ UNCHANGED <<alone, sole, overlapped, known, tenants, spoiled>>
  BY JobTypes, InstallNoneAssumption DEF history
<1>1. /\ job'[c] = new
      /\ Running' = Running
      /\ \A b \in Running \ {c} : job'[b] = job[b]
      /\ \A b \in Running : job'[b].dir = job[b].dir /\ job'[b].plugin = job[b].plugin
  BY <1>0, JobTypes DEF IInv, InstallTypeOK, Running
<1>2. InstallTypeOK'
  <2>1. job' \in [Commands -> Jobs \cup {None}]
    BY DEF IInv, InstallTypeOK
  <2>2. ASSUME NEW b \in Running'
        PROVE  /\ job'[b].kind = "install" => job'[b].archive # None
               /\ job'[b].written <= Limit
    <3>1. CASE b = c
      BY <1>1, <3>1, InstallNoneAssumption DEF PhaseOK
    <3>2. CASE b # c
      BY <1>1, <2>2, <3>2 DEF IInv, InstallTypeOK
    <3> QED BY <3>1, <3>2
  <2> QED BY <1>0, <2>1, <2>2 DEF IInv, InstallTypeOK, Touches
<1>3. Phases'
  <2> SUFFICES ASSUME NEW b \in Running' PROVE PhaseOK(job'[b])
    BY DEF Phases
  <2> QED BY <1>1 DEF IInv, Phases
<1>4. Company' /\ Tainted'
  BY <1>0, <1>1 DEF IInv, Company, Tainted
<1>5. AllSound'
  <2>1. lock' \in Locks => SoundIn(lock', spoiled', tenants', files')
    BY <1>0, InstallNoneAssumption, SoundStays DEF IInv, AllSound, Sound
  <2>2. ASSUME NEW b \in Running' PROVE SoundIn(job'[b].lf, spoiled', tenants', files')
    <3>1. job'[b].lf \in Locks /\ Sound(job'[b].lf)
      BY <1>1, <2>2, JobTypes DEF IInv, AllSound, Jobs
    <3> QED BY <1>0, <3>1, SoundStays DEF Sound
  <2> QED BY <2>1, <2>2 DEF AllSound, Sound
<1>6. Unpacked'
  <2> SUFFICES ASSUME NEW b \in sole PROVE UnpackedTo(job'[b], files'[job'[b].dir])
    BY <1>0 DEF Unpacked
  <2>1. CASE b = c
    BY <1>1, <2>1
  <2>2. CASE b # c
    <3>1. b \in Running /\ UnpackedTo(job[b], files[job[b].dir]) /\ job[b].dir # job[c].dir
      BY <2>2 DEF IInv, Company, Unpacked
    <3>2. job[b].dir \in Dirs /\ job'[b] = job[b]
      BY <1>1, <2>2, <3>1, JobTypes
    <3> QED BY <3>1, <3>2 DEF Touches
  <2> QED BY <2>1, <2>2
<1>7. InTurn'
  <2> SUFFICES ASSUME ~overlapped
               PROVE  (/\ \A a, b \in Running : a = b
                       /\ lock \in Locks => lock = known
                       /\ \A b \in Running : Follows(job[b], lock, known))'
    BY <1>0 DEF InTurn
  <2>1. \A a, b \in Running : a = b
    BY DEF IInv, InTurn
  <2>2. lock' \in Locks => lock' = known
    BY InstallNoneAssumption DEF IInv, InTurn
  <2>3. \A b \in Running' : Follows(job'[b], lock', known')
    BY <1>0, <1>1, <2>1
  <2> QED BY <1>0, <1>1, <2>1, <2>2, <2>3
<1> QED BY <1>2, <1>3, <1>4, <1>5, <1>6, <1>7 DEF IInv

\* Without c the others are as before.
LEMMA WithoutOne ==
  ASSUME IInv, NEW c \in Running, job' = [job EXCEPT ![c] = None],
         alone' = alone \ {c}, sole' = sole \ {c}
  PROVE  /\ Running' = Running \ {c}
         /\ \A b \in Running \ {c} : job'[b] = job[b]
         /\ alone' = {} /\ Company' /\ Phases'
<1>1. /\ Running' = Running \ {c}
      /\ \A b \in Running \ {c} : job'[b] = job[b]
  BY JobTypes DEF IInv, InstallTypeOK, Running
<1>2. alone' = {}
  BY DEF IInv, Company
<1>3. Company'
  BY <1>1, <1>2 DEF IInv, Company
<1>4. Phases'
  <2> SUFFICES ASSUME NEW b \in Running' PROVE PhaseOK(job'[b])
    BY DEF Phases
  <2> QED BY <1>1 DEF IInv, Phases
<1> QED BY <1>1, <1>2, <1>3, <1>4

LEMMA EndStep ==
  ASSUME IInv, NEW c \in Running, NEW how \in {"refused", "stopped"}, End(c, how),
         Touches(job[c].dir), lock' \in {lock, Garbage}, UNCHANGED <<known, spoiled>>
  PROVE  IInv'
<1>1. /\ job' = [job EXCEPT ![c] = None]
      /\ answer' = [answer EXCEPT ![c] = how]
      /\ alone' = alone \ {c} /\ sole' = sole \ {c}
      /\ UNCHANGED <<runs, overlapped, tenants>>
  BY DEF End
<1>2. /\ Running' = Running \ {c}
      /\ \A b \in Running \ {c} : job'[b] = job[b]
      /\ Company' /\ Phases'
  BY <1>1, WithoutOne
<1>3. InstallTypeOK'
  <2>1. ASSUME NEW b \in Running'
        PROVE  /\ job'[b].kind = "install" => job'[b].archive # None
               /\ job'[b].written <= Limit
    BY <1>2, <2>1 DEF IInv, InstallTypeOK
  <2>2. /\ job' \in [Commands -> Jobs \cup {None}]
        /\ answer' \in [Commands -> {"none", "ok", "refused", "stopped"}]
        /\ alone' \subseteq Commands /\ sole' \subseteq Commands
        /\ lock' \in Locks \cup {Empty, Garbage}
    BY <1>1 DEF IInv, InstallTypeOK
  <2>3. /\ files' \in [Dirs -> Trees] /\ runs' \in Nat /\ overlapped' \in BOOLEAN
        /\ tenants' \in [Dirs -> SUBSET Plugins] /\ known' \in Locks /\ spoiled' \subseteq Plugins
    BY <1>1 DEF IInv, InstallTypeOK, Touches
  <2> QED BY <2>1, <2>2, <2>3 DEF InstallTypeOK
<1>4. Tainted'
  BY <1>1, <1>2 DEF IInv, Tainted
<1>5. AllSound'
  <2>1. lock' \in Locks => SoundIn(lock', spoiled', tenants', files')
    BY <1>1, InstallNoneAssumption, SoundStays DEF IInv, AllSound, Sound
  <2>2. ASSUME NEW b \in Running' PROVE SoundIn(job'[b].lf, spoiled', tenants', files')
    <3>1. job'[b].lf \in Locks /\ Sound(job'[b].lf)
      BY <1>2, <2>2, JobTypes DEF IInv, AllSound
    <3> QED BY <1>1, <3>1, SoundStays DEF Sound
  <2> QED BY <2>1, <2>2 DEF AllSound, Sound
<1>6. Unpacked'
  <2> SUFFICES ASSUME NEW b \in sole' PROVE UnpackedTo(job'[b], files'[job'[b].dir])
    BY DEF Unpacked
  <2>1. /\ b \in Running \ {c} /\ UnpackedTo(job[b], files[job[b].dir])
        /\ job[b].dir # job[c].dir
    BY <1>1 DEF IInv, Company, Unpacked
  <2>2. job[b].dir \in Dirs /\ job'[b] = job[b]
    BY <1>2, <2>1, JobTypes
  <2> QED BY <2>1, <2>2 DEF Touches
<1>7. InTurn'
  <2> SUFFICES ASSUME ~overlapped
               PROVE  (/\ \A a, b \in Running : a = b
                       /\ lock \in Locks => lock = known
                       /\ \A b \in Running : Follows(job[b], lock, known))'
    BY <1>1 DEF InTurn
  <2>1. Running' = {}
    BY <1>2 DEF IInv, InTurn
  <2>2. lock' \in Locks => lock' = known
    BY InstallNoneAssumption DEF IInv, InTurn
  <2> QED BY <2>1, <2>2
<1> QED BY <1>2, <1>3, <1>4, <1>5, <1>6, <1>7 DEF IInv

\* The last write of a command: what it says is known, and an install that ran
\* alone vouches for its plugin.
LEMMA SaveStep ==
  ASSUME IInv, NEW c \in Commands, Save(c)
  PROVE  IInv'
<1> DEFINE p == job[c].plugin
<1>0. /\ c \in Running /\ job[c].at = "write"
      /\ p \in Plugins /\ job[c].lf \in Locks
  BY JobTypes DEF Save, At
<1>1. /\ job' = [job EXCEPT ![c] = None]
      /\ answer' = [answer EXCEPT ![c] = "ok"]
      /\ alone' = alone \ {c} /\ sole' = sole \ {c}
      /\ UNCHANGED <<files, runs, overlapped, tenants>>
      /\ lock' \in {job[c].lf} \cup (IF lock = Empty THEN {} ELSE {Garbage})
      /\ known' = [known EXCEPT ![p] = job[c].lf[p]]
      /\ spoiled' = IF c \in alone /\ job[c].kind = "install" THEN spoiled \ {p} ELSE spoiled
  BY DEF Save, End
<1>2. /\ Running' = Running \ {c}
      /\ \A b \in Running \ {c} : job'[b] = job[b]
      /\ Company' /\ Phases'
  BY <1>0, <1>1, WithoutOne
<1>3. Running' = {} \/ spoiled' = spoiled
  BY <1>1, <1>2 DEF IInv, Company
<1>4. InstallTypeOK'
  <2>1. ASSUME NEW b \in Running'
        PROVE  /\ job'[b].kind = "install" => job'[b].archive # None
               /\ job'[b].written <= Limit
    BY <1>2, <2>1 DEF IInv, InstallTypeOK
  <2>2. job[c].lf[p] \in LockEntries \cup {None}
    BY <1>0 DEF Locks
  <2>3. known' \in Locks
    BY <1>1, <2>2 DEF IInv, InstallTypeOK, Locks
  <2>4. /\ job' \in [Commands -> Jobs \cup {None}]
        /\ answer' \in [Commands -> {"none", "ok", "refused", "stopped"}]
        /\ alone' \subseteq Commands /\ sole' \subseteq Commands /\ spoiled' \subseteq Plugins
        /\ lock' \in Locks \cup {Empty, Garbage}
    BY <1>0, <1>1 DEF IInv, InstallTypeOK
  <2>5. /\ files' \in [Dirs -> Trees] /\ runs' \in Nat /\ overlapped' \in BOOLEAN
        /\ tenants' \in [Dirs -> SUBSET Plugins]
    BY <1>1 DEF IInv, InstallTypeOK
  <2> QED BY <2>1, <2>3, <2>4, <2>5 DEF InstallTypeOK
<1>5. Tainted'
  BY <1>1, <1>2, <1>3 DEF IInv, Tainted
<1>6. AllSound'
  <2>1. SoundIn(job[c].lf, spoiled', tenants', files')
    <3> SUFFICES ASSUME NEW q \in Plugins \ spoiled', job[c].lf[q] # None
                 PROVE  /\ q \in tenants[job[c].lf[q].dir]
                        /\ files[job[c].lf[q].dir] = Contents(job[c].lf[q].archive)
      BY <1>1 DEF SoundIn
    <3>1. CASE q \in spoiled
      <4>1. q = p /\ c \in alone /\ job[c].kind = "install"
        BY <1>1, <3>1
      <4>2. job[c].lf[p] = [archive |-> job[c].archive, dir |-> job[c].dir]
        BY <1>0, <4>1, JobTypes DEF PhaseOK
      <4>3. files[job[c].dir] = Contents(job[c].archive) /\ p \in tenants[job[c].dir]
        BY <1>0, <4>1 DEF IInv, Company, Unpacked, UnpackedTo, Tainted
      <4> QED BY <4>1, <4>2, <4>3
    <3>2. CASE q \notin spoiled
      <4>1. Sound(job[c].lf)
        BY <1>0 DEF IInv, AllSound
      <4> QED BY <3>2, <4>1 DEF Sound, SoundIn
    <3> QED BY <3>1, <3>2
  <2>2. lock' \in Locks => SoundIn(lock', spoiled', tenants', files')
    BY <1>1, <2>1, InstallNoneAssumption
  <2>3. ASSUME NEW b \in Running' PROVE SoundIn(job'[b].lf, spoiled', tenants', files')
    BY <1>1, <1>2, <1>3, <2>3 DEF IInv, AllSound, Sound
  <2> QED BY <2>2, <2>3 DEF AllSound, Sound
<1>7. Unpacked'
  <2> SUFFICES ASSUME NEW b \in sole' PROVE UnpackedTo(job'[b], files'[job'[b].dir])
    BY DEF Unpacked
  <2>1. b \in Running \ {c} /\ UnpackedTo(job[b], files[job[b].dir])
    BY <1>1 DEF IInv, Company, Unpacked
  <2> QED BY <1>1, <1>2, <2>1
<1>8. InTurn'
  <2> SUFFICES ASSUME ~overlapped
               PROVE  (/\ \A a, b \in Running : a = b
                       /\ lock \in Locks => lock = known
                       /\ \A b \in Running : Follows(job[b], lock, known))'
    BY <1>1 DEF InTurn
  <2>1. Running' = {}
    BY <1>0, <1>2 DEF IInv, InTurn
  <2>2. lock = Empty /\ job[c].lf = [known EXCEPT ![p] = job[c].lf[p]]
    BY <1>0 DEF IInv, InTurn, Follows
  <2>3. lock' = known'
    BY <1>1, <2>2
  <2> QED BY <2>1, <2>3
<1> QED BY <1>2, <1>4, <1>5, <1>6, <1>7, <1>8 DEF IInv

-----------------------------------------------------------------------------
(***************************************************************************)
(* The commands                                                            *)
(***************************************************************************)
LEMMA RefusedStep ==
  ASSUME IInv, NEW c \in Commands, FetchRefused(c) \/ UninstallRefused(c)
  PROVE  IInv'
<1>1. /\ UNCHANGED <<files, lock, job, runs, alone, sole, overlapped, known, tenants, spoiled>>
      /\ answer' = [answer EXCEPT ![c] = "refused"]
  BY DEF FetchRefused, UninstallRefused, disk, history
<1>2. Running' = Running
  BY <1>1 DEF Running
<1>3. InstallTypeOK'
  BY <1>1, <1>2 DEF IInv, InstallTypeOK
<1>4. Phases' /\ Company' /\ Tainted'
  BY <1>1, <1>2 DEF IInv, Phases, Company, Tainted
<1>5. AllSound' /\ Unpacked' /\ InTurn'
  BY <1>1, <1>2 DEF IInv, AllSound, Sound, Unpacked, InTurn
<1> QED BY <1>3, <1>4, <1>5 DEF IInv

LEMMA FetchStep ==
  ASSUME IInv, NEW c \in Commands, Fetch(c)
  PROVE  IInv'
<1>0. PICK p \in Plugins : \E a \in Offers[p], d \in {DefaultDir[p]} \cup FlagDirs :
        Begin(c, [kind |-> "install", at |-> "remove", plugin |-> p, archive |-> a,
                  dir |-> d, done |-> 0, written |-> 0, lf |-> NoLock])
  BY DEF Fetch
<1>1. PICK a \in Offers[p], d \in {DefaultDir[p]} \cup FlagDirs :
        Begin(c, [kind |-> "install", at |-> "remove", plugin |-> p, archive |-> a,
                  dir |-> d, done |-> 0, written |-> 0, lf |-> NoLock])
  BY <1>0
<1> DEFINE new == [kind |-> "install", at |-> "remove", plugin |-> p, archive |-> a,
                   dir |-> d, done |-> 0, written |-> 0, lf |-> NoLock]
<1>2. a \in Archives /\ d \in Dirs /\ NoLock \in Locks
  BY InstallAssumption DEF NoLock, Locks
<1>3. new \in Jobs
  BY <1>2 DEF Jobs, Steps
<1>4. Sound(new.lf)
  BY DEF Sound, SoundIn, NoLock
<1>5. Begin(c, new)
  BY <1>1
<1>6. /\ new.at = "remove" /\ new.done = 0 /\ new.archive \in Archives
      /\ new.kind = "install" /\ new.written = 0
  BY <1>2
<1> HIDE DEF new
<1> QED BY <1>3, <1>4, <1>5, <1>6, BeginStep DEF Follows

LEMMA UninstallStep ==
  ASSUME IInv, NEW c \in Commands, Uninstall(c)
  PROVE  IInv'
<1>1. PICK p \in Plugins :
        /\ lock \in Locks /\ lock[p] # None
        /\ Begin(c, [kind |-> "uninstall", at |-> "remove", plugin |-> p, archive |-> None,
                     dir |-> lock[p].dir, done |-> 0, written |-> 0,
                     lf |-> [lock EXCEPT ![p] = None]])
  BY DEF Uninstall
<1> DEFINE new == [kind |-> "uninstall", at |-> "remove", plugin |-> p, archive |-> None,
                   dir |-> lock[p].dir, done |-> 0, written |-> 0,
                   lf |-> [lock EXCEPT ![p] = None]]
<1>2. lock[p].dir \in Dirs /\ [lock EXCEPT ![p] = None] \in Locks
  BY <1>1 DEF Locks, LockEntries
<1>3. new \in Jobs
  BY <1>2 DEF Jobs, Steps
<1>4. Sound(new.lf)
  BY <1>1 DEF IInv, AllSound, Sound, SoundIn, Locks
<1>5. Begin(c, new)
  BY <1>1
<1>6. /\ new.at = "remove" /\ new.done = 0 /\ new.kind = "uninstall" /\ new.written = 0
      /\ new.plugin = p /\ new.lf = [lock EXCEPT ![p] = None]
  OBVIOUS
<1>7. ~overlapped => new.lf = [known EXCEPT ![new.plugin] = new.lf[new.plugin]]
  BY <1>1, <1>6 DEF IInv, InTurn, Locks
<1> HIDE DEF new
<1> QED BY <1>3, <1>4, <1>5, <1>6, <1>7, BeginStep DEF Follows

LEMMA RemoveStep ==
  ASSUME IInv, NEW c \in Commands, Remove(c)
  PROVE  IInv'
<1> DEFINE j == job[c]
<1>0. /\ c \in Running /\ j.at = "remove" /\ j.done = 0 /\ j.written = 0
      /\ j \in Jobs /\ j.dir \in Dirs /\ j.kind \in {"install", "uninstall"}
      /\ j.written <= Limit /\ PhaseOK(j)
      /\ files \in [Dirs -> Trees]
  BY JobTypes DEF Remove, At, PhaseOK, IInv, InstallTypeOK
<1>1. Sound(j.lf)
  BY <1>0 DEF IInv, AllSound
<1>2. CASE files[j.dir] = NoTree
  <2> DEFINE place == IF j.kind = "install" THEN "unpack" ELSE "truncate"
             new == [j EXCEPT !.at = place]
  <2>1. /\ job' = [job EXCEPT ![c] = new]
        /\ UNCHANGED <<answer, runs, history, files, lock>>
    BY <1>0, <1>2 DEF Remove, Goto, disk, IInv, InstallTypeOK
  <2>2. /\ new \in Jobs
        /\ new.kind = j.kind /\ new.plugin = j.plugin /\ new.archive = j.archive
        /\ new.dir = j.dir /\ new.done = 0 /\ new.written = 0 /\ new.lf = j.lf
        /\ new.at = place
    BY <1>0 DEF Jobs, Steps
  <2>3. PhaseOK(new)
    BY <1>0, <2>2, EntryTypes, FitsSoFar DEF PhaseOK
  <2>4. UnpackedTo(new, files'[new.dir])
    BY <1>0, <1>2, <2>1, <2>2, NothingYet DEF UnpackedTo, PhaseOK
  <2>5. ~overlapped => Follows(new, lock', known)
    BY <1>0, <2>1, <2>2 DEF IInv, InTurn, Follows
  <2>6. Touches(j.dir)
    BY <1>0, <2>1 DEF Touches
  <2> HIDE DEF new, place
  <2> QED BY <1>0, <1>1, <2>1, <2>2, <2>3, <2>4, <2>5, <2>6, MoveStep
<1>3. CASE files[j.dir] # NoTree
  <2>1. /\ UNCHANGED <<lock, job, answer, runs, history>>
        /\ \E x \in Paths : files' = [files EXCEPT ![j.dir][x] = None]
    BY <1>3 DEF Remove
  <2>2. Touches(j.dir)
    BY <1>0, <2>1 DEF Touches, Trees
  <2>3. job' = [job EXCEPT ![c] = j]
    BY <2>1 DEF IInv, InstallTypeOK
  <2>4. UnpackedTo(j, files'[j.dir])
    BY <1>0 DEF UnpackedTo
  <2>5. ~overlapped => Follows(j, lock', known)
    BY <1>0, <2>1 DEF IInv, InTurn
  <2> HIDE DEF j
  <2> QED BY <1>0, <1>1, <2>1, <2>2, <2>3, <2>4, <2>5, MoveStep DEF j
<1> QED BY <1>2, <1>3

LEMMA UnpackStep ==
  ASSUME IInv, NEW c \in Commands, Unpack(c)
  PROVE  IInv'
<1> DEFINE j == job[c]
           e == Entries[j.archive][j.done + 1]
<1>0. /\ c \in Running /\ j.at = "unpack" /\ j.kind = "install" /\ j.archive \in Archives
      /\ j \in Jobs /\ j.dir \in Dirs /\ j.done \in Nat /\ j.written \in Nat
      /\ j.done <= Len(Entries[j.archive]) /\ Len(Entries[j.archive]) \in Nat
      /\ j.written <= Limit /\ Limit \in Nat
      /\ files \in [Dirs -> Trees]
      /\ lock' = lock
      /\ FitsUpTo(j.archive, j.done, j.written)
  BY JobTypes, EntryTypes, InstallAssumption DEF Unpack, At, PhaseOK, IInv, InstallTypeOK
<1>1. Sound(j.lf)
  BY <1>0 DEF IInv, AllSound
<1>2. c \in sole => files[j.dir] = Prefix(j.archive, j.done)
  BY <1>0 DEF IInv, Unpacked, UnpackedTo
<1>3. j.done # Len(Entries[j.archive]) =>
        /\ j.done < Len(Entries[j.archive])
        /\ e.path \in Paths /\ e.data \in Data /\ e.size \in Nat
        /\ e.kind \in {"file", "dir", "other"}
  <2> SUFFICES ASSUME j.done # Len(Entries[j.archive])
               PROVE  /\ j.done < Len(Entries[j.archive])
                      /\ Entries[j.archive][j.done + 1] \in EntryType
    BY DEF EntryType
  <2>1. j.done < Len(Entries[j.archive]) /\ j.done + 1 \in 1..Len(Entries[j.archive])
    BY <1>0
  <2> QED BY <1>0, <2>1, EntryTypes
<1>4. CASE j.done = Len(Entries[j.archive])
  <2> DEFINE new == [j EXCEPT !.at = "load"]
  <2>1. /\ job' = [job EXCEPT ![c] = new]
        /\ UNCHANGED <<answer, runs, history, files>>
    BY <1>4 DEF Unpack, Goto, IInv, InstallTypeOK
  <2>2. /\ new \in Jobs
        /\ new.kind = j.kind /\ new.plugin = j.plugin /\ new.archive = j.archive
        /\ new.dir = j.dir /\ new.written = j.written /\ new.lf = j.lf /\ new.at = "load"
    BY <1>0 DEF Jobs, Steps
  <2>3. PhaseOK(new) /\ Follows(new, lock', known)
    BY <1>0, <2>2 DEF PhaseOK, Follows
  <2>4. c \in sole => UnpackedTo(new, files'[new.dir])
    BY <1>0, <1>2, <1>4, <2>1, <2>2, AllOfIt DEF UnpackedTo
  <2>5. Touches(j.dir)
    BY <1>0, <2>1 DEF Touches
  <2> HIDE DEF new
  <2> QED BY <1>0, <1>1, <2>1, <2>2, <2>3, <2>4, <2>5, MoveStep
<1>5. CASE j.done # Len(Entries[j.archive]) /\ e.kind = "file" /\ Within(j.written, e.size)
  <2> DEFINE new == [j EXCEPT !.done = j.done + 1, !.written = j.written + e.size]
  <2>1. /\ files' = [files EXCEPT ![j.dir][e.path] = e.data]
        /\ job' = [job EXCEPT ![c] = new]
        /\ UNCHANGED <<answer, runs, history>>
    BY <1>5 DEF Unpack, Write
  <2>2. /\ j.done + 1 \in Nat /\ j.written + e.size \in Nat
        /\ j.written + e.size <= Limit /\ j.done + 1 <= Len(Entries[j.archive])
    <3>1. e.size <= Limit - j.written
      BY <1>5 DEF Within
    <3> HIDE DEF e
    <3> QED BY <1>0, <1>3, <1>5, <3>1
  <2>3. /\ new \in Jobs
        /\ new.kind = j.kind /\ new.plugin = j.plugin /\ new.archive = j.archive
        /\ new.dir = j.dir /\ new.written = j.written + e.size /\ new.lf = j.lf
        /\ new.at = "unpack" /\ new.done = j.done + 1
    BY <1>0, <2>2 DEF Jobs
  <2>4. PhaseOK(new) /\ Follows(new, lock', known)
    <3>1. FitsUpTo(new.archive, new.done, new.written)
      <4> HIDE DEF new
      <4> QED BY <1>0, <1>3, <1>5, <2>3, FitsWithFile
    <3> HIDE DEF new
    <3> QED BY <1>0, <2>2, <2>3, <3>1 DEF PhaseOK, Follows
  <2>5. c \in sole => UnpackedTo(new, files'[new.dir])
    <3>1. c \in sole => Prefix(j.archive, j.done + 1) = [files[j.dir] EXCEPT ![e.path] = e.data]
      BY <1>0, <1>2, <1>3, <1>5, OneMoreFile
    <3>2. files'[j.dir] = [files[j.dir] EXCEPT ![e.path] = e.data]
      BY <1>0, <2>1
    <3> QED BY <2>3, <3>1, <3>2 DEF UnpackedTo
  <2>6. Touches(j.dir)
    BY <1>0, <1>3, <1>5, <2>1 DEF Touches, Trees
  <2> HIDE DEF new
  <2> QED BY <1>0, <1>1, <2>1, <2>2, <2>3, <2>4, <2>5, <2>6, MoveStep
<1>6. CASE j.done # Len(Entries[j.archive]) /\ e.kind = "file" /\ ~Within(j.written, e.size)
  <2>1. /\ files' = [files EXCEPT ![j.dir][e.path] = None]
        /\ Refuse(c)
    BY <1>6 DEF Unpack, Write
  <2>2. Touches(j.dir)
    BY <1>0, <1>3, <1>6, <2>1 DEF Touches, Trees
  <2> QED BY <1>0, <2>1, <2>2, EndStep DEF Refuse
<1>7. CASE j.done # Len(Entries[j.archive]) /\ e.kind = "dir"
  <2> DEFINE new == [j EXCEPT !.done = j.done + 1]
  <2>1. /\ job' = [job EXCEPT ![c] = new]
        /\ UNCHANGED <<files, answer, runs, history>>
    BY <1>7 DEF Unpack, IInv, InstallTypeOK
  <2>2. /\ new \in Jobs
        /\ new.kind = j.kind /\ new.plugin = j.plugin /\ new.archive = j.archive
        /\ new.dir = j.dir /\ new.written = j.written /\ new.lf = j.lf
        /\ new.at = "unpack" /\ new.done = j.done + 1
    BY <1>0 DEF Jobs
  <2>3. PhaseOK(new) /\ Follows(new, lock', known)
    <3>1. FitsUpTo(new.archive, new.done, new.written)
      <4> HIDE DEF new
      <4> QED BY <1>0, <1>3, <1>7, <2>2, FitsWithDir
    <3>2. j.done + 1 <= Len(Entries[j.archive])
      BY <1>0, <1>3, <1>7
    <3> HIDE DEF new
    <3> QED BY <1>0, <2>2, <3>1, <3>2 DEF PhaseOK, Follows
  <2>4. c \in sole => UnpackedTo(new, files'[new.dir])
    <3>1. c \in sole => Prefix(j.archive, j.done + 1) = files[j.dir]
      BY <1>0, <1>2, <1>3, <1>7, NoMoreFile
    <3> QED BY <2>1, <2>2, <3>1 DEF UnpackedTo
  <2>5. Touches(j.dir)
    BY <1>0, <2>1 DEF Touches
  <2> HIDE DEF new
  <2> QED BY <1>0, <1>1, <2>1, <2>2, <2>3, <2>4, <2>5, MoveStep
<1>8. CASE j.done # Len(Entries[j.archive]) /\ e.kind = "other"
  <2>1. Refuse(c) /\ UNCHANGED files
    BY <1>8 DEF Unpack
  <2>2. Touches(j.dir)
    BY <1>0, <2>1 DEF Touches
  <2> QED BY <1>0, <2>1, <2>2, EndStep DEF Refuse
<1> QED BY <1>3, <1>4, <1>5, <1>6, <1>7, <1>8

LEMMA LoadStep ==
  ASSUME IInv, NEW c \in Commands, Load(c)
  PROVE  IInv'
<1> DEFINE j == job[c]
           entry == [archive |-> j.archive, dir |-> j.dir]
<1>0. /\ c \in Running /\ j.at = "load" /\ j.kind = "install" /\ j.archive \in Archives
      /\ j \in Jobs /\ j.dir \in Dirs /\ j.plugin \in Plugins
      /\ j.written <= Limit
      /\ files \in [Dirs -> Trees]
      /\ UNCHANGED <<files, lock>>
  BY JobTypes DEF Load, At, PhaseOK, IInv, InstallTypeOK, disk
<1>1. Touches(j.dir)
  BY <1>0 DEF Touches
<1>2. CASE lock \in Locks
  <2> DEFINE new == [j EXCEPT !.at = "truncate", !.lf = [lock EXCEPT ![j.plugin] = entry]]
  <2>1. /\ job' = [job EXCEPT ![c] = new]
        /\ UNCHANGED <<answer, runs, history>>
    BY <1>2 DEF Load
  <2>2. [lock EXCEPT ![j.plugin] = entry] \in Locks
    BY <1>0, <1>2 DEF Locks, LockEntries
  <2>3. /\ new \in Jobs
        /\ new.kind = j.kind /\ new.plugin = j.plugin /\ new.archive = j.archive
        /\ new.dir = j.dir /\ new.written = j.written /\ new.at = "truncate"
        /\ new.lf = [lock EXCEPT ![j.plugin] = entry]
    BY <1>0, <2>2 DEF Jobs, Steps
  <2>4. new.lf[j.plugin] = entry
    BY <1>0, <1>2, <2>3 DEF Locks
  <2>5. PhaseOK(new)
    BY <1>0, <2>3, <2>4 DEF PhaseOK
  <2>6. Sound(new.lf)
    <3>1. j.plugin \in spoiled
      BY <1>0 DEF IInv, Tainted
    <3>2. Sound(lock)
      BY <1>2 DEF IInv, AllSound
    <3> QED BY <1>0, <1>2, <2>3, <3>1, <3>2 DEF Sound, SoundIn, Locks
  <2>7. ~overlapped => Follows(new, lock', known)
    BY <1>0, <1>2, <2>3, <2>4 DEF IInv, InTurn, Follows
  <2>8. c \in sole => UnpackedTo(new, files'[new.dir])
    BY <1>0, <2>3 DEF IInv, Unpacked, UnpackedTo
  <2> HIDE DEF new
  <2> QED BY <1>0, <1>1, <2>1, <2>3, <2>5, <2>6, <2>7, <2>8, MoveStep
<1>3. CASE lock \notin Locks
  <2>1. Refuse(c)
    BY <1>3 DEF Load
  <2> QED BY <1>0, <1>1, <2>1, EndStep DEF Refuse
<1> QED BY <1>2, <1>3

LEMMA TruncateStep ==
  ASSUME IInv, NEW c \in Commands, Truncate(c)
  PROVE  IInv'
<1> DEFINE j == job[c]
           new == [j EXCEPT !.at = "write"]
<1>0. /\ c \in Running /\ j.at = "truncate" /\ j \in Jobs /\ j.dir \in Dirs
      /\ j.written <= Limit /\ PhaseOK(j)
      /\ files \in [Dirs -> Trees]
      /\ files' = files /\ lock' = Empty
  BY JobTypes DEF Truncate, At, IInv, InstallTypeOK
<1>1. /\ job' = [job EXCEPT ![c] = new]
      /\ UNCHANGED <<answer, runs, history>>
  BY DEF Truncate, Goto, IInv, InstallTypeOK
<1>2. /\ new \in Jobs
      /\ new.kind = j.kind /\ new.plugin = j.plugin /\ new.archive = j.archive
      /\ new.dir = j.dir /\ new.written = j.written /\ new.lf = j.lf /\ new.at = "write"
  BY <1>0 DEF Jobs, Steps
<1>3. PhaseOK(new)
  BY <1>0, <1>2 DEF PhaseOK
<1>4. Sound(new.lf)
  BY <1>0, <1>2 DEF IInv, AllSound
<1>5. ~overlapped => Follows(new, lock', known)
  BY <1>0, <1>2 DEF IInv, InTurn, Follows
<1>6. c \in sole => UnpackedTo(new, files'[new.dir])
  BY <1>0, <1>2 DEF IInv, Unpacked, UnpackedTo
<1>7. Touches(j.dir)
  BY <1>0 DEF Touches
<1> HIDE DEF new
<1> QED BY <1>0, <1>1, <1>2, <1>3, <1>4, <1>5, <1>6, <1>7, MoveStep

LEMMA InterruptStep ==
  ASSUME IInv, NEW c \in Commands, Interrupt(c)
  PROVE  IInv'
<1> DEFINE j == job[c]
           e == Entries[j.archive][j.done + 1]
<1>0. /\ c \in Running /\ End(c, "stopped") /\ UNCHANGED <<known, spoiled>>
      /\ lock' \in {lock, Garbage}
      /\ j.dir \in Dirs /\ files \in [Dirs -> Trees]
  BY JobTypes DEF Interrupt, IInv, InstallTypeOK
<1>1. CASE UNCHANGED files
  BY <1>0, <1>1, EndStep DEF Touches
<1>2. CASE /\ j.at = "unpack" /\ j.done < Len(Entries[j.archive])
           /\ files' = [files EXCEPT ![j.dir][e.path] = Partial]
  <2>1. /\ j.archive \in Archives /\ j.done \in Nat /\ Len(Entries[j.archive]) \in Nat
    BY <1>0, <1>2, JobTypes, EntryTypes DEF PhaseOK
  <2>2. e \in EntryType
    <3>1. j.done + 1 \in 1..Len(Entries[j.archive])
      BY <1>2, <2>1
    <3> QED BY <2>1, <3>1, EntryTypes
  <2>3. Touches(j.dir)
    BY <1>0, <1>2, <2>2 DEF Touches, Trees, EntryType
  <2> QED BY <1>0, <2>3, EndStep
<1> QED BY <1>1, <1>2 DEF Interrupt, Write

-----------------------------------------------------------------------------
(***************************************************************************)
(* Theorems                                                                *)
(***************************************************************************)
LEMMA InitIInv == Init => IInv
<1> SUFFICES ASSUME Init PROVE IInv
  OBVIOUS
<1>1. Running = {} /\ NoLock \in Locks
  BY DEF Init, Running, NoLock, Locks
<1>2. InstallTypeOK
  BY <1>1 DEF Init, InstallTypeOK, Trees, NoTree
<1>3. Phases /\ Company /\ Tainted /\ Unpacked /\ InTurn
  BY <1>1 DEF Init, Phases, Company, Tainted, Unpacked, InTurn
<1>4. AllSound
  BY <1>1 DEF Init, AllSound, Sound, SoundIn, NoLock
<1> QED BY <1>2, <1>3, <1>4 DEF IInv

LEMMA NextIInv == IInv /\ [Next]_vars => IInv'
<1> SUFFICES ASSUME IInv, [Next]_vars PROVE IInv'
  OBVIOUS
<1>1. CASE UNCHANGED vars
  <2>1. InstallTypeOK' /\ Phases' /\ Company' /\ Tainted'
    BY <1>1 DEF vars, Running, IInv, InstallTypeOK, Phases, Company, Tainted
  <2>2. AllSound' /\ Unpacked' /\ InTurn'
    BY <1>1 DEF vars, Running, IInv, AllSound, Sound, Unpacked, InTurn
  <2> QED BY <2>1, <2>2 DEF IInv
<1> QED
  BY <1>1, FetchStep, RefusedStep, UninstallStep, RemoveStep, UnpackStep, LoadStep,
     TruncateStep, SaveStep, InterruptStep DEF Next

\* Jobs, directories, the lockfile on disk and those in memory keep their relation
\* through every interleaving and interruption of installs and uninstalls.
THEOREM InstallInvariance == Spec => []IInv
  BY InitIInv, NextIInv, PTL DEF Spec

\* Everything keeps its type, and no install unpacks more bytes than the limit.
THEOREM InstallTypesHold == Spec => []InstallTypeOK
<1>1. IInv => InstallTypeOK
  BY DEF IInv
<1> QED BY <1>1, InstallInvariance, PTL

\* What the lockfile says of a plugin that nobody disturbed is true.
THEOREM LockStaysTrue == Spec => []LockIsTrue
<1>1. IInv => LockIsTrue
  BY DEF IInv, AllSound, Sound, SoundIn, LockIsTrue
<1> QED BY <1>1, InstallInvariance, PTL

\* Where commands run one after the other, a lockfile that can be read is what the
\* successful ones said.
THEOREM LockIsKnown == Spec => []LockSurvives
<1>1. IInv => LockSurvives
  BY DEF IInv, InTurn, LockSurvives
<1> QED BY <1>1, InstallInvariance, PTL

-----------------------------------------------------------------------------
(***************************************************************************)
(* What an install finds out about its archive                             *)
(***************************************************************************)

\* A command that is running has not answered.
Unanswered == \A c \in Running : answer[c] = "none"

LEMMA UnansweredStays == IInv /\ Unanswered /\ [Next]_vars => Unanswered'
<1> SUFFICES ASSUME IInv, Unanswered, [Next]_vars, NEW c \in Running'
             PROVE  answer'[c] = "none"
  BY DEF Unanswered
<1> USE DEF Unanswered
<1>1. CASE UNCHANGED vars
  BY <1>1 DEF vars, Running
<1>2. ASSUME NEW b \in Commands, NEW new, Begin(b, new) PROVE answer'[c] = "none"
  BY <1>2 DEF Begin, Running, IInv, InstallTypeOK
<1>3. ASSUME NEW b \in Commands, FetchRefused(b) \/ UninstallRefused(b)
      PROVE  answer'[c] = "none"
  BY <1>3 DEF FetchRefused, UninstallRefused, Running, IInv, InstallTypeOK
<1>4. ASSUME NEW b \in Commands, NEW how, End(b, how) PROVE answer'[c] = "none"
  BY <1>4 DEF End, Running, IInv, InstallTypeOK
<1>5. ASSUME NEW b \in Running, NEW new, job' = [job EXCEPT ![b] = new], UNCHANGED answer
      PROVE  answer'[c] = "none"
  BY <1>5 DEF Running, IInv, InstallTypeOK
<1>6. ASSUME NEW b \in Commands, Remove(b) PROVE answer'[c] = "none"
  BY <1>5, <1>6 DEF Remove, Goto, Running, At
<1>7. ASSUME NEW b \in Commands, Unpack(b) PROVE answer'[c] = "none"
  BY <1>4, <1>5, <1>7 DEF Unpack, Goto, Refuse, At, Running
<1>8. ASSUME NEW b \in Commands, Load(b) PROVE answer'[c] = "none"
  BY <1>4, <1>5, <1>8 DEF Load, Refuse, At
<1>9. ASSUME NEW b \in Commands, Truncate(b) PROVE answer'[c] = "none"
  BY <1>5, <1>9 DEF Truncate, Goto, At
<1>10. ASSUME NEW b \in Commands, Save(b) \/ Interrupt(b) PROVE answer'[c] = "none"
  BY <1>4, <1>10 DEF Save, Interrupt
<1>11. ASSUME NEW b \in Commands, Fetch(b) \/ Uninstall(b) PROVE answer'[c] = "none"
  BY <1>2, <1>11 DEF Fetch, Uninstall
<1> QED BY <1>1, <1>3, <1>6, <1>7, <1>8, <1>9, <1>10, <1>11 DEF Next

\* A command's step leaves the others to themselves.
LEMMA OthersStay ==
  ASSUME IInv, NEW b \in Commands, NEW c \in Commands \ {b},
         \/ Fetch(b) \/ FetchRefused(b) \/ Uninstall(b) \/ UninstallRefused(b)
         \/ Remove(b) \/ Unpack(b) \/ Load(b) \/ Truncate(b) \/ Save(b)
         \/ Interrupt(b)
  PROVE  job'[c] = job[c] /\ answer'[c] = answer[c]
<1> USE DEF IInv, InstallTypeOK
<1>1. ASSUME NEW new, Begin(b, new) PROVE job'[c] = job[c] /\ answer'[c] = answer[c]
  BY <1>1 DEF Begin
<1>2. ASSUME NEW how, End(b, how) PROVE job'[c] = job[c] /\ answer'[c] = answer[c]
  BY <1>2 DEF End
<1>3. CASE Fetch(b) \/ Uninstall(b)
  BY <1>1, <1>3 DEF Fetch, Uninstall
<1>4. CASE FetchRefused(b) \/ UninstallRefused(b)
  BY <1>4 DEF FetchRefused, UninstallRefused
<1>5. CASE Remove(b) \/ Truncate(b)
  BY <1>5 DEF Remove, Truncate, Goto
<1>6. CASE Unpack(b)
  BY <1>2, <1>6 DEF Unpack, Goto, Refuse
<1>7. CASE Load(b)
  BY <1>2, <1>7 DEF Load, Refuse
<1>8. CASE Save(b) \/ Interrupt(b)
  BY <1>2, <1>8 DEF Save, Interrupt
<1> QED BY <1>3, <1>4, <1>5, <1>6, <1>7, <1>8

\* What one step says of the archive that c unpacks.
Says(c) ==
    LET j == job[c] IN
    /\ job'[c] # None /\ job'[c].at = "load" =>
          Fits(j.archive) /\ (c \in sole => files'[j.dir] = Contents(j.archive))
    /\ answer'[c] = "refused" => ~Fits(j.archive)

LEMMA UnpackSays ==
  ASSUME IInv, Unanswered, NEW c \in Commands, Unpack(c)
  PROVE  Says(c)
<1> DEFINE j == job[c]
           a == j.archive
           e == Entries[a][j.done + 1]
<1>0. /\ c \in Running /\ j.at = "unpack" /\ j.kind = "install" /\ a \in Archives
      /\ j \in Jobs /\ j.done \in Nat /\ j.written \in Nat
      /\ j.done <= Len(Entries[a]) /\ Len(Entries[a]) \in Nat
      /\ j.written <= Limit
      /\ FitsUpTo(a, j.done, j.written)
      /\ answer[c] = "none"
      /\ job \in [Commands -> Jobs \cup {None}]
      /\ answer \in [Commands -> {"none", "ok", "refused", "stopped"}]
  BY JobTypes, EntryTypes DEF Unpack, At, PhaseOK, IInv, InstallTypeOK, Unanswered
<1>1. CASE j.done = Len(Entries[a])
  <2>1. Fits(a)
    BY <1>0, <1>1, FitsWhole
  <2>2. c \in sole => files[j.dir] = Contents(a)
    BY <1>0, <1>1, AllOfIt DEF IInv, Unpacked, UnpackedTo
  <2>3. UNCHANGED <<files, answer>>
    BY <1>1 DEF Unpack, Goto
  <2> QED BY <1>0, <2>1, <2>2, <2>3 DEF Says
<1>2. CASE j.done # Len(Entries[a]) /\ UNCHANGED answer
  <2>1. job'[c] = None \/ job'[c].at = j.at
    <3>1. CASE e.kind = "file" /\ Within(j.written, e.size)
      <4>1. job' = [job EXCEPT ![c] = [j EXCEPT !.done = j.done + 1,
                                                !.written = j.written + e.size]]
        BY <1>2, <3>1 DEF Unpack
      <4>2. job'[c] = [j EXCEPT !.done = j.done + 1, !.written = j.written + e.size]
        BY <1>0, <4>1
      <4> QED BY <1>0, <4>2 DEF Jobs
    <3>2. CASE ~(e.kind = "file" /\ Within(j.written, e.size))
      <4>1. \/ job' = [job EXCEPT ![c].done = j.done + 1]
            \/ Refuse(c)
        BY <1>2, <3>2 DEF Unpack
      <4>2. CASE Refuse(c)
        BY <1>0, <4>2 DEF Refuse, End
      <4>3. CASE job' = [job EXCEPT ![c].done = j.done + 1]
        BY <1>0, <4>3 DEF Jobs
      <4> QED BY <4>1, <4>2, <4>3
    <3> QED BY <3>1, <3>2
  <2> QED BY <1>0, <1>2, <2>1 DEF Says
<1>3. CASE j.done # Len(Entries[a]) /\ answer' # answer
  <2>1. /\ Refuse(c)
        /\ e.kind # "dir"
        /\ e.kind = "file" => ~Within(j.written, e.size)
    BY <1>3 DEF Unpack
  <2>2. ~Fits(a)
    <3>1. j.done < Len(Entries[a])
      BY <1>0, <1>3
    <3> QED BY <1>0, <2>1, <3>1, FitsNot
  <2>3. job'[c] = None
    BY <1>0, <2>1 DEF Refuse, End
  <2> QED BY <2>2, <2>3 DEF Says
<1> QED BY <1>1, <1>2, <1>3

LEMMA EveryoneSays ==
  ASSUME IInv, Unanswered, [Next]_vars
  PROVE  [\A c \in Commands : At(c, "unpack") => Says(c)]_vars
<1> SUFFICES ASSUME ~UNCHANGED vars, NEW c \in Commands, At(c, "unpack")
             PROVE  Says(c)
  OBVIOUS
<1>0. c \in Running /\ job[c].at = "unpack" /\ job[c] # None /\ answer[c] = "none"
  BY DEF At, Running, Unanswered
<1>1. PICK b \in Commands :
         \/ Fetch(b) \/ FetchRefused(b) \/ Uninstall(b) \/ UninstallRefused(b)
         \/ Remove(b) \/ Unpack(b) \/ Load(b) \/ Truncate(b) \/ Save(b)
         \/ Interrupt(b)
  BY DEF Next
<1>2. CASE b # c
  <2>1. job'[c] = job[c] /\ answer'[c] = answer[c]
    BY <1>1, <1>2, OthersStay
  <2> QED BY <1>0, <2>1 DEF Says
<1>3. CASE b = c
  <2>1. ~(Fetch(c) \/ FetchRefused(c) \/ Uninstall(c) \/ UninstallRefused(c))
    BY <1>0 DEF Fetch, Begin, FetchRefused, Uninstall, UninstallRefused
  <2>2. ~(Remove(c) \/ Load(c) \/ Truncate(c) \/ Save(c))
    BY <1>0 DEF Remove, Load, Truncate, Save, At
  <2>3. Interrupt(c) => job'[c] = None /\ answer'[c] = "stopped"
    BY DEF Interrupt, End, IInv, InstallTypeOK
  <2> QED BY <1>1, <1>3, <2>1, <2>2, <2>3, UnpackSays DEF Says
<1> QED BY <1>2, <1>3

\* Unpacking comes to its end for the archives that fit the limit, however their
\* bytes are spread over their entries, and refuses the others; who had the
\* directory alone finds in it what the archive holds, and nothing else.
THEOREM ExtractionIsExact == Spec => ExtractsExactly
<1>1. Init => Unanswered
  BY DEF Init, Unanswered, Running
<1>2. Spec => []Unanswered
  BY <1>1, UnansweredStays, InstallInvariance, PTL DEF Spec
<1>3. IInv /\ Unanswered /\ [Next]_vars
        => [\A c \in Commands : At(c, "unpack") => Says(c)]_vars
  BY EveryoneSays
<1>4. Spec => [][\A c \in Commands : At(c, "unpack") => Says(c)]_vars
  BY <1>2, <1>3, InstallInvariance, PTL DEF Spec
<1> QED BY <1>4 DEF ExtractsExactly, Says

\* An install that had its directory for itself has unpacked the whole archive
\* there, and nothing else is left in it.
InstallsAreWhole ==
    \A c \in sole : job[c].kind = "install" /\ job[c].at \in {"load", "truncate", "write"}
        => files[job[c].dir] = Contents(job[c].archive)

\* What ExtractsExactly says of the end of unpacking stays true until the lockfile
\* is written, whatever commands on other directories do.
THEOREM UndisturbedInstalls == Spec => []InstallsAreWhole
<1>1. IInv => InstallsAreWhole
  BY DEF IInv, Unpacked, UnpackedTo, InstallsAreWhole
<1> QED BY <1>1, InstallInvariance, PTL
=============================================================================
