----------------------------- MODULE LimitsProofs -----------------------------
(***************************************************************************)
(* Theorems about Limits: what a key gets in any interval, for any burst,  *)
(* any number of replicas, and any skew and delay.                         *)
(***************************************************************************)
EXTENDS Limits, Integers, SequenceTheorems, TLAPS

-----------------------------------------------------------------------------
(***************************************************************************)
(* The inductive invariant                                                 *)
(***************************************************************************)

\* A call carries a reading of the present or of MaxDelay ago at most.
Timely(c, t) == t <= now + Skew[c] /\ now + Skew[c] <= t + MaxDelay

ReadingsRecent ==
    \A c \in Callers : reading[c] # None => driver = "redis" /\ Timely(c, reading[c])

\* What a call that reads t may be.
MayRead(t) == \/ driver = "memory" /\ t = now
              \/ driver = "redis" /\ \E c \in Callers : Timely(c, t)

\* The bucket's ts is how some replica's clock saw the last call.
Clocked ==
    bucket # None =>
        /\ bucket.touched <= now
        /\ driver = "memory" => bucket.ts = bucket.touched
        /\ driver = "redis" => \E d \in Callers :
              /\ bucket.ts <= bucket.touched + Skew[d]
              /\ bucket.touched + Skew[d] <= bucket.ts + MaxDelay

\* Units granted from the i-th grant on.
Used(i) == (Len(grants) - i + 1) * Cost

\* What was granted since the i-th grant and what is left in the bucket are
\* together no more than the burst and what the time since then has earned.
Spent ==
    /\ grants # <<>> => bucket # None
    /\ \A i \in 1..Len(grants) :
         /\ grants[i].at <= bucket.touched
         /\ grants[i].calls <= calls
         /\ Used(i) + bucket.tokens
              <= Capacity + (bucket.touched - grants[i].at)
                          + Late * (calls - grants[i].calls)

\* In memory nothing is lost: a bucket that is not full accounts for every
\* unit since some grant.
Exact ==
    driver = "memory" /\ bucket # None =>
        \/ bucket.tokens = Capacity
        \/ \E i \in 1..Len(grants) :
             Used(i) + bucket.tokens = Capacity + (bucket.touched - grants[i].at)

IInv == LimitsTypeOK /\ ReadingsRecent /\ Clocked /\ Spent /\ Exact

-----------------------------------------------------------------------------
(***************************************************************************)
(* Arithmetic and sequences                                                *)
(***************************************************************************)

\* The burst holds one request at least.
LEMMA CapacityIsNat == Capacity \in Nat /\ Cost \in Nat /\ Cost <= Capacity
<1>1. \A m \in Nat : (m + 1) * Cost \in Nat /\ Cost <= (m + 1) * Cost
  BY LimitsAssumption
<1>2. Burst - 1 \in Nat /\ Burst = (Burst - 1) + 1
  BY LimitsAssumption
<1> QED BY <1>1, <1>2, LimitsAssumption DEF Capacity

\* One factor more is one summand more.
LEMMA OneMore ==
  ASSUME NEW a \in Int, NEW b \in Int
  PROVE  (a + 1) * b = a * b + b /\ b * (a + 1) = b * a + b
  OBVIOUS

\* A grant is added at the end.
LEMMA Granted ==
  ASSUME grants \in Seq([at : Nat, calls : Nat]), now \in Nat, calls \in Nat, Grant
  PROVE  /\ grants' \in Seq([at : Nat, calls : Nat])
         /\ Len(grants') = Len(grants) + 1
         /\ \A i \in 1..Len(grants) : grants'[i] = grants[i]
         /\ grants'[Len(grants')] = [at |-> now, calls |-> calls + 1]
         /\ grants' # grants
         /\ grants' # <<>>
<1>1. [at |-> now, calls |-> calls + 1] \in [at : Nat, calls : Nat]
  OBVIOUS
<1>2. grants' = Append(grants, [at |-> now, calls |-> calls + 1])
  BY DEF Grant
<1>3. /\ grants' \in Seq([at : Nat, calls : Nat])
      /\ Len(grants') = Len(grants) + 1
  BY <1>1, <1>2
<1>4. /\ \A i \in 1..Len(grants) : grants'[i] = grants[i]
      /\ grants'[Len(grants) + 1] = [at |-> now, calls |-> calls + 1]
  BY <1>1, <1>2
<1>5. grants' # grants /\ grants' # <<>>
  BY <1>3, EmptySeq, LenProperties
<1> QED BY <1>3, <1>4, <1>5

\* What an interval holds, seen now rather than when the bucket was last touched.
LEMMA Budgeted ==
  ASSUME NEW used \in Int, NEW tokens \in Nat, NEW late \in Int, NEW granted \in Int,
         NEW then \in Nat, NEW time \in Nat, NEW cap \in Nat,
         then <= time,
         used + tokens <= cap + (then - granted) + late
  PROVE  used <= cap + (time - granted) + late
OBVIOUS

\* The same when the bucket is read and refilled now, with nothing late.
LEMMA Refilled ==
  ASSUME NEW used \in Int, NEW tokens \in Nat, NEW filled \in Int, NEW granted \in Int,
         NEW then \in Nat, NEW time \in Nat, NEW cap \in Nat,
         used + tokens <= cap + (then - granted) + 0,
         filled <= tokens + (time - then)
  PROVE  used + filled <= cap + (time - granted)
OBVIOUS

\* Grants have their types.
LEMMA GrantTypes ==
  ASSUME LimitsTypeOK
  PROVE  /\ now \in Nat /\ calls \in Nat
         /\ grants \in Seq([at : Nat, calls : Nat])
         /\ Len(grants) \in Nat
         /\ \A i \in 1..Len(grants) : grants[i].at \in Nat /\ grants[i].calls \in Nat
<1>1. /\ now \in Nat /\ calls \in Nat
      /\ grants \in Seq([at : Nat, calls : Nat])
  BY DEF LimitsTypeOK
<1>2. Len(grants) \in Nat
  BY <1>1
<1>3. \A i \in 1..Len(grants) : grants[i] \in [at : Nat, calls : Nat]
  BY <1>1, ElementOfSeq
<1> QED BY <1>1, <1>2, <1>3

\* A late reading costs a whole number of units.
LEMMA LateIsNat == Late \in Nat
  BY LimitsAssumption DEF Late

\* What is in the bucket at a call: never more than the burst, and no more than
\* was left and the time since, plus what the reading is late.
LEMMA FilledBounds ==
  ASSUME IInv, NEW t \in Nat, MayRead(t)
  PROVE  /\ Filled(t) \in 0..Capacity
         /\ bucket = None => Filled(t) = Capacity
         /\ bucket # None =>
              Filled(t) <= bucket.tokens + (now - bucket.touched) + Late
         /\ bucket # None /\ driver = "memory" =>
              \/ Filled(t) = Capacity
              \/ Filled(t) = bucket.tokens + (now - bucket.touched)
<1> USE CapacityIsNat, LateIsNat
<1>1. CASE bucket = None
  BY <1>1 DEF Filled
<1>2. CASE bucket # None
  <2>1. /\ bucket.tokens \in Nat /\ bucket.tokens <= Capacity
        /\ bucket.ts \in Nat /\ bucket.touched \in Nat
        /\ now \in Nat /\ bucket.touched <= now
    BY <1>2 DEF IInv, LimitsTypeOK, Buckets, Clocked
  <2>2. CASE Expired
    BY <2>1, <2>2, <1>2 DEF Expired, Filled
  <2>3. CASE ~Expired
    <3> DEFINE earned == IF t > bucket.ts THEN t - bucket.ts ELSE 0
               sum == bucket.tokens + earned
    <3>1. Filled(t) = IF sum > Capacity THEN Capacity ELSE sum
      BY <1>2, <2>3 DEF Filled
    <3>2. earned \in Nat
      BY <2>1
    <3>3. earned <= (now - bucket.touched) + Late
      <4>1. CASE driver = "memory"
        <5>1. t = now /\ bucket.ts = bucket.touched
          BY <4>1, <1>2 DEF MayRead, IInv, Clocked
        <5> QED BY <5>1, <2>1
      <4>2. CASE driver = "redis"
        <5>1. PICK c \in Callers : Timely(c, t)
          BY <4>2 DEF MayRead
        <5>2. PICK d \in Callers : /\ bucket.ts <= bucket.touched + Skew[d]
                                   /\ bucket.touched + Skew[d] <= bucket.ts + MaxDelay
          BY <4>2, <1>2 DEF IInv, Clocked
        <5>3. /\ Skew[c] \in Nat /\ Skew[d] \in Nat /\ MaxDelay \in Nat
              /\ Skew[c] + MaxDelay <= Skew[d] + Lateness
              /\ Late = Lateness /\ Lateness \in Nat
          BY <4>2, LimitsAssumption DEF Late
        <5> QED BY <5>1, <5>2, <5>3, <2>1 DEF Timely
      <4> QED BY <4>1, <4>2 DEF IInv, LimitsTypeOK
    <3>4. driver = "memory" => earned = now - bucket.touched
      BY <1>2, <2>1 DEF MayRead, IInv, Clocked
    <3> HIDE DEF earned
    <3> QED BY <3>1, <3>2, <3>3, <3>4, <2>1, <1>2
  <2> QED BY <2>2, <2>3
<1> QED BY <1>1, <1>2

-----------------------------------------------------------------------------
(***************************************************************************)
(* A call                                                                  *)
(***************************************************************************)

\* What a decision does to the bucket: it is granted if the bucket holds a
\* request's cost, and then only.
LEMMA Decision ==
  ASSUME IInv, NEW t \in Nat, MayRead(t), Decide(t)
  PROVE  /\ calls' = calls + 1
         /\ bucket' \in Buckets
         /\ bucket'.ts = t
         /\ bucket'.touched = now
         /\ \/ /\ Filled(t) < Cost
               /\ bucket'.tokens = Filled(t)
               /\ grants' = grants
            \/ /\ Cost <= Filled(t)
               /\ bucket'.tokens = Filled(t) - Cost
               /\ Grant
<1>1. Filled(t) \in 0..Capacity
  BY FilledBounds
<1>2. now \in Nat /\ Capacity \in Nat /\ Cost \in Nat
  BY CapacityIsNat DEF IInv, LimitsTypeOK
<1>3. calls' = calls + 1
  BY DEF Decide
<1>4. CASE Filled(t) < Cost
  <2>1. bucket' = [tokens |-> Filled(t), ts |-> t, touched |-> now] /\ grants' = grants
    BY <1>4 DEF Decide
  <2> QED BY <1>1, <1>2, <1>3, <1>4, <2>1 DEF Buckets
<1>5. CASE ~(Filled(t) < Cost)
  <2>1. bucket' = [tokens |-> Filled(t) - Cost, ts |-> t, touched |-> now] /\ Grant
    BY <1>5 DEF Decide
  <2>2. Cost <= Filled(t) /\ Filled(t) - Cost \in 0..Capacity
    BY <1>1, <1>2, <1>5
  <2> QED BY <1>1, <1>2, <1>3, <2>1, <2>2 DEF Buckets
<1> QED BY <1>4, <1>5

\* A call keeps the account, whether it is granted or refused.
LEMMA DecideSpent ==
  ASSUME IInv, NEW t \in Nat, MayRead(t), Decide(t), driver' = driver
  PROVE  Spent'
<1> USE CapacityIsNat, LateIsNat
<1>1. /\ now \in Nat /\ calls \in Nat
      /\ grants \in Seq([at : Nat, calls : Nat])
      /\ Len(grants) \in Nat
      /\ \A i \in 1..Len(grants) : grants[i].at \in Nat /\ grants[i].calls \in Nat
  BY GrantTypes DEF IInv
<1>2. Late' = Late
  BY DEF Late
<1>3. bucket' # None
  BY Decision, LimitsNoneAssumption
<1>4. bucket'.touched = now /\ calls' = calls + 1
  BY Decision
<1>5. Filled(t) \in 0..Capacity
  BY FilledBounds
\* What the old grants and the bucket, filled up to now, add up to.
<1>6. ASSUME NEW i \in 1..Len(grants)
      PROVE  /\ grants[i].at <= now
             /\ grants[i].calls <= calls + 1
             /\ Used(i) + Filled(t)
                  <= Capacity + (now - grants[i].at) + Late * ((calls + 1) - grants[i].calls)
  <2>0. grants[i].at \in Nat /\ grants[i].calls \in Nat /\ calls \in Nat /\ now \in Nat
    BY <1>1
  <2>1. grants # <<>> /\ bucket # None
    BY <1>1 DEF IInv, Spent
  <2>2. /\ bucket.tokens \in Nat /\ bucket.touched \in Nat
        /\ bucket.touched <= now
    <3>1. bucket \in Buckets
      BY <2>1 DEF IInv, LimitsTypeOK
    <3>2. bucket.touched <= now
      BY <2>1 DEF IInv, Clocked
    <3> QED BY <3>1, <3>2 DEF Buckets
  <2>3. /\ grants[i].at <= bucket.touched
        /\ grants[i].calls <= calls
        /\ Used(i) + bucket.tokens
             <= Capacity + (bucket.touched - grants[i].at) + Late * (calls - grants[i].calls)
    BY DEF IInv, Spent
  <2>4. Filled(t) <= bucket.tokens + (now - bucket.touched) + Late
    BY <2>1, FilledBounds
  <2>5. Late * ((calls + 1) - grants[i].calls) = Late * (calls - grants[i].calls) + Late
    <3>1. calls - grants[i].calls \in Int /\ Late \in Int
      BY <2>0, LateIsNat
    <3>2. Late * ((calls - grants[i].calls) + 1) = Late * (calls - grants[i].calls) + Late
      BY <3>1, OneMore
    <3>3. (calls + 1) - grants[i].calls = (calls - grants[i].calls) + 1
      BY <2>0
    <3> QED BY <3>2, <3>3
  <2>6. Used(i) \in Int /\ Late * (calls - grants[i].calls) \in Int
    BY <1>1 DEF Used
  <2> HIDE DEF Used
  <2>7. Used(i) + Filled(t)
          <= Capacity + (now - grants[i].at) + (Late * (calls - grants[i].calls) + Late)
    <3> DEFINE used == Used(i)  tokens == bucket.tokens  filled == Filled(t)
               touched == bucket.touched  granted == grants[i].at
               late == Late * (calls - grants[i].calls)
    <3>0. /\ used \in Int /\ late \in Int
          /\ tokens \in Nat /\ touched \in Nat /\ granted \in Nat
      BY <2>0, <2>2, <2>6
    <3>1. /\ used \in Int /\ tokens \in Int /\ filled \in Int
          /\ touched \in Int /\ granted \in Int /\ late \in Int /\ now \in Int
      <4>1. filled \in 0..Capacity
        BY <1>5
      <4> HIDE DEF used, tokens, filled, touched, granted, late
      <4> QED BY <2>0, <3>0, <4>1
    <3>2. used + tokens <= Capacity + (touched - granted) + late
      BY <2>3
    <3>3. filled <= tokens + (now - touched) + Late
      BY <2>4
    <3> HIDE DEF used, tokens, filled, touched, granted, late
    <3>4. used + filled <= Capacity + (now - granted) + (late + Late)
      BY <3>1, <3>2, <3>3
    <3> QED BY <3>4 DEF used, filled, granted, late
  <2>8. grants[i].at <= now /\ grants[i].calls <= calls + 1
    <3>1. grants[i].at <= bucket.touched /\ grants[i].calls <= calls
      BY <2>3
    <3> QED BY <2>0, <2>2, <3>1
  <2> QED BY <2>5, <2>7, <2>8
<1>7. CASE grants' = grants /\ bucket'.tokens = Filled(t)
  <2>1. \A i \in 1..Len(grants) : Used(i)' = Used(i)
    BY <1>7 DEF Used
  <2> QED BY <1>2, <1>3, <1>4, <1>6, <1>7, <2>1 DEF Spent
<1>8. CASE /\ Grant
           /\ Cost <= Filled(t)
           /\ bucket'.tokens = Filled(t) - Cost
  <2>1. /\ Len(grants') = Len(grants) + 1
        /\ \A i \in 1..Len(grants) : grants'[i] = grants[i]
        /\ grants'[Len(grants')] = [at |-> now, calls |-> calls + 1]
    BY <1>1, <1>8, Granted
  <2>2. ASSUME NEW i \in 1..Len(grants)
        PROVE  /\ grants'[i].at <= bucket'.touched
               /\ grants'[i].calls <= calls'
               /\ Used(i)' + bucket'.tokens
                    <= Capacity + (bucket'.touched - grants'[i].at)
                                + Late * (calls' - grants'[i].calls)
    <3>1. Used(i)' = Used(i) + Cost
      <4>1. ((Len(grants) - i + 1) + 1) * Cost = (Len(grants) - i + 1) * Cost + Cost
        BY <1>1, OneMore
      <4> QED BY <1>1, <2>1, <4>1 DEF Used
    <3>2. Used(i) \in Int /\ Late * ((calls + 1) - grants[i].calls) \in Int
      <4>1. Used(i) \in Int
        BY <1>1 DEF Used
      <4>2. (calls + 1) - grants[i].calls \in Int /\ Late \in Int
        BY <1>1
      <4> QED BY <4>1, <4>2
    <3> DEFINE late == Late * ((calls + 1) - grants[i].calls)
    <3>3. late \in Int /\ Used(i) + Filled(t) <= Capacity + (now - grants[i].at) + late
      BY <3>2, <1>6
    <3>4. Late * (calls' - grants'[i].calls) = late
      BY <1>4, <2>1
    <3> HIDE DEF Used, late
    <3>5. Used(i)' + bucket'.tokens = Used(i) + Filled(t)
      BY <1>5, <1>8, <3>1, <3>2
    <3> QED BY <1>1, <1>4, <1>5, <1>6, <2>1, <3>3, <3>4, <3>5
  <2>3. ASSUME NEW i \in 1..Len(grants'), i = Len(grants')
        PROVE  /\ grants'[i].at <= bucket'.touched
               /\ grants'[i].calls <= calls'
               /\ Used(i)' + bucket'.tokens
                    <= Capacity + (bucket'.touched - grants'[i].at)
                                + Late * (calls' - grants'[i].calls)
    <3>1. grants'[i].at = now /\ grants'[i].calls = calls + 1
      BY <2>1, <2>3
    <3>2. Used(i)' = Cost
      BY <1>1, <2>1, <2>3 DEF Used
    <3>3. Late * (calls' - grants'[i].calls) = 0
      BY <1>1, <1>4, <3>1
    <3> QED BY <1>1, <1>4, <1>5, <1>8, <3>1, <3>2, <3>3
  <2>4. \A i \in 1..Len(grants') : i \in 1..Len(grants) \/ i = Len(grants')
    BY <1>1, <2>1
  <2>5. Capacity' = Capacity
    BY DEF Capacity
  <2> QED BY <1>2, <1>3, <2>2, <2>3, <2>4, <2>5 DEF Spent
<1> QED BY <1>7, <1>8, Decision

\* In memory, a bucket that is not full now accounts for every unit since some
\* grant, and so does the bucket a call leaves behind.
LEMMA FilledExact ==
  ASSUME IInv, driver = "memory", Filled(now) # Capacity
  PROVE  \E i \in 1..Len(grants) : Used(i) + Filled(now) = Capacity + (now - grants[i].at)
<1> USE CapacityIsNat
<1>0. now \in Nat /\ MayRead(now)
  BY DEF MayRead, IInv, LimitsTypeOK
<1>1. bucket # None /\ Filled(now) \in 0..Capacity
  BY <1>0, FilledBounds
<1>2. Filled(now) = bucket.tokens + (now - bucket.touched)
  BY <1>0, <1>1, FilledBounds
<1>3. /\ bucket.tokens \in Nat /\ bucket.tokens <= Capacity
      /\ bucket.touched \in Nat /\ bucket.touched <= now
  BY <1>1 DEF IInv, LimitsTypeOK, Buckets, Clocked
<1>4. bucket.tokens # Capacity
  BY <1>0, <1>1, <1>2, <1>3
<1>5. PICK i \in 1..Len(grants) :
         Used(i) + bucket.tokens = Capacity + (bucket.touched - grants[i].at)
  BY <1>1, <1>4 DEF IInv, Exact
<1>6. grants[i].at \in Nat /\ Used(i) \in Int
  <2>1. /\ Len(grants) \in Nat
        /\ \A k \in 1..Len(grants) : grants[k].at \in Nat
    BY GrantTypes DEF IInv
  <2> QED BY <2>1 DEF Used
<1>7. Used(i) + Filled(now) = Capacity + (now - grants[i].at)
  <2> DEFINE used == Used(i)  granted == grants[i].at  filled == Filled(now)
             tokens == bucket.tokens  touched == bucket.touched
  <2>1. /\ used \in Int /\ granted \in Int /\ now \in Int /\ tokens \in Int /\ touched \in Int
        /\ used + tokens = Capacity + (touched - granted)
        /\ filled = tokens + (now - touched)
    BY <1>0, <1>2, <1>3, <1>5, <1>6
  <2> HIDE DEF used, granted, filled, tokens, touched
  <2>2. used + filled = Capacity + (now - granted)
    BY <2>1
  <2> QED BY <2>2 DEF used, granted, filled
<1> QED BY <1>7

LEMMA DecideExact ==
  ASSUME IInv, NEW t \in Nat, MayRead(t), Decide(t), driver' = driver
  PROVE  Exact'
<1> USE CapacityIsNat
<1>1. SUFFICES ASSUME driver = "memory"
               PROVE  \/ bucket'.tokens = Capacity
                      \/ \E i \in 1..Len(grants') :
                           Used(i)' + bucket'.tokens
                             = Capacity + (bucket'.touched - grants'[i].at)
  BY DEF Exact, Capacity
<1>2. t = now /\ bucket'.touched = now
  BY <1>1, Decision DEF MayRead
<1>3. Filled(now) \in 0..Capacity
  BY <1>2, FilledBounds
<1>4. /\ now \in Nat /\ Len(grants) \in Nat
      /\ \A i \in 1..Len(grants) : grants[i].at \in Nat
  BY GrantTypes DEF IInv
<1>5. CASE grants' = grants /\ bucket'.tokens = Filled(now)
  <2>1. CASE Filled(now) = Capacity
    BY <1>5, <2>1
  <2>2. CASE Filled(now) # Capacity
    <3>1. PICK i \in 1..Len(grants) :
             Used(i) + Filled(now) = Capacity + (now - grants[i].at)
      BY <1>1, <2>2, FilledExact
    <3>2. Used(i)' = Used(i)
      BY <1>5 DEF Used
    <3> QED BY <1>2, <1>5, <3>1, <3>2
  <2> QED BY <2>1, <2>2
<1>6. CASE /\ Grant
           /\ Cost <= Filled(now)
           /\ bucket'.tokens = Filled(now) - Cost
  <2>1. /\ Len(grants') = Len(grants) + 1
        /\ \A i \in 1..Len(grants) : grants'[i] = grants[i]
        /\ grants'[Len(grants')] = [at |-> now, calls |-> calls + 1]
    BY <1>6, GrantTypes, Granted DEF IInv
  <2>2. CASE Filled(now) = Capacity
    <3>0. PICK k \in 1..Len(grants') : k = Len(grants')
      BY <1>4, <2>1
    <3>1. Used(k)' = Cost
      BY <1>4, <2>1, <3>0 DEF Used
    <3>2. grants'[k].at = now
      BY <2>1, <3>0
    <3>3. Cost + bucket'.tokens = Capacity + (now - now)
      BY <1>4, <1>6, <2>2
    <3> QED BY <1>2, <3>1, <3>2, <3>3
  <2>3. CASE Filled(now) # Capacity
    <3>1. PICK i \in 1..Len(grants) :
             Used(i) + Filled(now) = Capacity + (now - grants[i].at)
      BY <1>1, <2>3, FilledExact
    <3>2. Used(i)' = Used(i) + Cost
      <4>1. ((Len(grants) - i + 1) + 1) * Cost = (Len(grants) - i + 1) * Cost + Cost
        BY <1>4, OneMore
      <4> QED BY <1>4, <2>1, <4>1 DEF Used
    <3>3. Used(i) \in Int
      BY <1>4 DEF Used
    <3>4. Used(i)' + bucket'.tokens = Used(i) + Filled(now)
      BY <1>3, <1>6, <3>2, <3>3
    <3>5. i \in 1..Len(grants') /\ grants'[i].at = grants[i].at
      BY <1>4, <2>1
    <3> QED BY <1>2, <3>1, <3>4, <3>5
  <2> QED BY <2>2, <2>3
<1> QED BY <1>2, <1>5, <1>6, Decision

-----------------------------------------------------------------------------
(***************************************************************************)
(* Every step                                                              *)
(***************************************************************************)

\* A call keeps the whole invariant, given that the readings stay recent.
LEMMA DecideStep ==
  ASSUME IInv, NEW t \in Nat, MayRead(t), Decide(t),
         driver' = driver, now' = now,
         reading' \in [Callers -> Nat \cup {None}], ReadingsRecent'
  PROVE  IInv'
<1>1. LimitsTypeOK'
  <2>1. grants' \in Seq([at : Nat, calls : Nat])
    BY Decision, Granted DEF IInv, LimitsTypeOK
  <2> QED BY <2>1, Decision DEF IInv, LimitsTypeOK
<1>2. Clocked'
  <2>1. now \in Nat /\ bucket'.touched = now /\ bucket'.ts = t
    BY Decision DEF IInv, LimitsTypeOK
  <2>2. CASE driver = "memory"
    BY <2>1, <2>2 DEF MayRead, Clocked
  <2>3. CASE driver = "redis"
    BY <2>1, <2>3 DEF MayRead, Clocked, Timely
  <2> QED BY <2>2, <2>3 DEF IInv, LimitsTypeOK
<1>3. Spent' /\ Exact'
  BY DecideSpent, DecideExact
<1> QED BY <1>1, <1>2, <1>3 DEF IInv

\* A step that leaves bucket and account alone keeps what they say of each other.
LEMMA QuietStep ==
  ASSUME IInv, UNCHANGED <<driver, bucket, calls, grants>>, now' \in Nat, now <= now',
         reading' \in [Callers -> Nat \cup {None}], ReadingsRecent'
  PROVE  IInv'
<1>1. LimitsTypeOK'
  BY DEF IInv, LimitsTypeOK
<1>2. Clocked'
  <2>1. SUFFICES ASSUME bucket # None PROVE bucket.touched <= now'
    BY DEF IInv, Clocked
  <2>2. bucket.touched \in Nat /\ bucket.touched <= now /\ now \in Nat
    BY <2>1 DEF IInv, LimitsTypeOK, Buckets, Clocked
  <2> QED BY <2>2
<1>3. \A i \in 1..Len(grants) : Used(i)' = Used(i)
  BY DEF Used
<1>4. Spent' /\ Exact'
  BY <1>3 DEF IInv, Spent, Exact, Capacity, Late
<1> QED BY <1>1, <1>2, <1>4 DEF IInv

LEMMA InitIInv == Init => IInv
<1> SUFFICES ASSUME Init PROVE IInv
  OBVIOUS
<1>1. LimitsTypeOK
  BY DEF Init, LimitsTypeOK
<1>2. ReadingsRecent /\ Clocked /\ Exact
  BY DEF Init, ReadingsRecent, Clocked, Exact
<1>3. Spent
  BY DEF Init, Spent
<1> QED BY <1>1, <1>2, <1>3 DEF IInv

LEMMA NextIInv == IInv /\ [Next]_vars => IInv'
<1> SUFFICES ASSUME IInv, [Next]_vars PROVE IInv'
  OBVIOUS
<1>0. /\ driver \in {"memory", "redis"} /\ now \in Nat
      /\ reading \in [Callers -> Nat \cup {None}]
      /\ Skew \in [Callers -> Nat] /\ MaxDelay \in Nat
  BY LimitsAssumption DEF IInv, LimitsTypeOK
<1>1. CASE AllowInMemory
  <2>1. ReadingsRecent'
    BY <1>1 DEF AllowInMemory, IInv, ReadingsRecent
  <2>2. MayRead(now) /\ Decide(now) /\ driver' = driver /\ now' = now /\ reading' = reading
    BY <1>1 DEF AllowInMemory, MayRead
  <2> QED BY <1>0, <2>1, <2>2, DecideStep
<1>2. ASSUME NEW c \in Callers, ReadClock(c) PROVE IInv'
  <2>1. ReadingsRecent'
    <3>1. now + Skew[c] \in Nat /\ Timely(c, now + Skew[c])
      BY <1>0 DEF Timely
    <3> QED BY <1>0, <1>2, <3>1 DEF ReadClock, IInv, ReadingsRecent, Timely
  <2>2. reading' \in [Callers -> Nat \cup {None}]
    BY <1>0, <1>2 DEF ReadClock
  <2> QED BY <1>0, <1>2, <2>1, <2>2, QuietStep DEF ReadClock
<1>3. ASSUME NEW c \in Callers, Eval(c) PROVE IInv'
  <2>1. reading[c] \in Nat /\ MayRead(reading[c])
    BY <1>0, <1>3 DEF Eval, IInv, ReadingsRecent, MayRead
  <2>2. ReadingsRecent'
    BY <1>0, <1>3 DEF Eval, IInv, ReadingsRecent, Timely
  <2>3. reading' \in [Callers -> Nat \cup {None}]
    BY <1>0, <1>3 DEF Eval
  <2>4. Decide(reading[c]) /\ driver' = driver /\ now' = now
    BY <1>3 DEF Eval
  <2> QED BY <2>1, <2>2, <2>3, <2>4, DecideStep
<1>4. ASSUME NEW c \in Callers, FailOpen(c) PROVE IInv'
  <2>1. ReadingsRecent'
    BY <1>0, <1>4 DEF FailOpen, IInv, ReadingsRecent, Timely
  <2>2. reading' \in [Callers -> Nat \cup {None}]
    BY <1>0, <1>4 DEF FailOpen
  <2> QED BY <1>0, <1>4, <2>1, <2>2, QuietStep DEF FailOpen
<1>5. CASE Restart
  <2>1. LimitsTypeOK'
    BY <1>5 DEF Restart, IInv, LimitsTypeOK
  <2>2. ReadingsRecent' /\ Clocked' /\ Exact'
    BY <1>5 DEF Restart, IInv, ReadingsRecent, Timely, Clocked, Exact
  <2>3. Spent'
    BY <1>5 DEF Restart, Spent
  <2> QED BY <2>1, <2>2, <2>3 DEF IInv
<1>6. CASE Tick
  <2>1. ReadingsRecent'
    <3>1. SUFFICES ASSUME NEW c \in Callers, reading[c] # None
                   PROVE  driver = "redis" /\ Timely(c, reading[c])'
      BY <1>6 DEF Tick, ReadingsRecent
    <3>2. driver = "redis" /\ Timely(c, reading[c])
      BY <3>1 DEF IInv, ReadingsRecent
    <3>3. /\ now < reading[c] + MaxDelay - Skew[c]
          /\ now' = now + 1 /\ reading' = reading
      BY <1>6, <3>1 DEF Tick
    <3>4. reading[c] \in Nat /\ Skew[c] \in Nat
      BY <1>0, <3>1
    <3> QED BY <1>0, <3>2, <3>3, <3>4 DEF Timely
  <2> QED BY <1>0, <1>6, <2>1, QuietStep DEF Tick
<1>7. CASE UNCHANGED vars
  <2>1. ReadingsRecent'
    BY <1>7 DEF vars, IInv, ReadingsRecent, Timely
  <2> QED BY <1>0, <1>7, <2>1, QuietStep DEF vars
<1> QED BY <1>1, <1>2, <1>3, <1>4, <1>5, <1>6, <1>7 DEF Next

-----------------------------------------------------------------------------
(***************************************************************************)
(* Theorems                                                                *)
(***************************************************************************)

\* Types, readings, the bucket and the account of what was granted belong
\* together in every reachable state of RateLimiter.Allow and RedisLimiter.Allow.
THEOREM LimitsInvariance == Spec => []IInv
<1>1. Init => IInv
  BY InitIInv
<1>2. IInv /\ [Next]_vars => IInv'
  BY NextIInv
<1> QED BY <1>1, <1>2, PTL DEF Spec

\* The bucket holds no more than the burst, in memory and in Redis.
THEOREM LimitsTypeCorrect == Spec => []LimitsTypeOK
<1>1. IInv => LimitsTypeOK
  BY DEF IInv
<1> QED BY <1>1, LimitsInvariance, PTL

\* No interval grants a key more than the burst and what the interval earns, plus
\* Lateness for each call of the interval when the bucket is in Redis.
THEOREM BudgetIsKept == Spec => []Budget
<1>1. IInv => Budget
  <2> SUFFICES ASSUME IInv, NEW i \in 1..Len(grants)
               PROVE  Used(i) <= Capacity + (now - grants[i].at)
                                  + Late * (calls - grants[i].calls)
    BY DEF Budget, Used
  <2>1. /\ now \in Nat /\ calls \in Nat /\ Len(grants) \in Nat
        /\ grants[i].at \in Nat /\ grants[i].calls \in Nat /\ grants # <<>>
    BY GrantTypes DEF IInv
  <2>2. /\ bucket.tokens \in Nat /\ bucket.touched \in Nat
        /\ bucket.touched <= now
    BY <2>1 DEF IInv, LimitsTypeOK, Buckets, Clocked, Spent
  <2>3. Used(i) + bucket.tokens
          <= Capacity + (bucket.touched - grants[i].at) + Late * (calls - grants[i].calls)
    BY DEF IInv, Spent
  <2>4. Capacity \in Nat /\ Late \in Nat /\ Cost \in Nat
    BY CapacityIsNat, LateIsNat
  <2>5. Used(i) \in Int /\ Late * (calls - grants[i].calls) \in Int
    BY <2>1, <2>4 DEF Used
  <2> DEFINE used == Used(i)  late == Late * (calls - grants[i].calls)
             granted == grants[i].at
  <2>6. /\ used \in Int /\ late \in Int /\ granted \in Int
        /\ used + bucket.tokens <= Capacity + (bucket.touched - granted) + late
    BY <2>1, <2>3, <2>5
  <2> HIDE DEF used, late, granted
  <2>7. used <= Capacity + (now - granted) + late
    BY <2>1, <2>2, <2>4, <2>6, Budgeted
  <2> QED BY <2>7 DEF used, late, granted
<1> QED BY <1>1, LimitsInvariance, PTL

\* In memory a call is granted exactly when it fits into every interval.
THEOREM MemoryGrantsExactly == Spec => MemoryIsExact
<1>1. IInv /\ [Next]_vars
        => [driver = "memory" /\ calls' # calls => (grants' # grants <=> Fits)]_vars
  <2> SUFFICES ASSUME IInv, [Next]_vars, driver = "memory", calls' # calls
               PROVE  grants' # grants <=> Fits
    OBVIOUS
  <2>1. AllowInMemory
    BY DEF Next, vars, IInv, ReadingsRecent, ReadClock, Eval, FailOpen, Restart, Tick
  <2>2. now \in Nat /\ MayRead(now) /\ Decide(now)
    BY <2>1 DEF AllowInMemory, MayRead, IInv, LimitsTypeOK
  <2>3. grants' # grants <=> Cost <= Filled(now)
    <3>1. /\ grants \in Seq([at : Nat, calls : Nat]) /\ calls \in Nat
          /\ Filled(now) \in 0..Capacity /\ Cost \in Nat /\ Capacity \in Nat
      BY <2>2, FilledBounds, CapacityIsNat DEF IInv, LimitsTypeOK
    <3>2. Grant => grants' # grants
      BY <2>2, <3>1, Granted
    <3>3. \/ Filled(now) < Cost /\ grants' = grants
          \/ Cost <= Filled(now) /\ Grant
      BY <2>2, Decision
    <3> QED BY <3>1, <3>2, <3>3
  <2>4. Cost <= Filled(now) <=> Fits
    <3>0. /\ Filled(now) \in 0..Capacity
          /\ Cost \in Nat /\ Capacity \in Nat /\ Cost <= Capacity
          /\ Len(grants) \in Nat
          /\ \A i \in 1..Len(grants) : grants[i].at \in Nat
      BY <2>2, FilledBounds, CapacityIsNat, GrantTypes DEF IInv
    <3>1. ASSUME NEW i \in 1..Len(grants)
          PROVE  /\ Used(i) \in Int
                 /\ (Len(grants) - i + 2) * Cost = Used(i) + Cost
      <4>1. ((Len(grants) - i + 1) + 1) * Cost = (Len(grants) - i + 1) * Cost + Cost
        BY <3>0, OneMore
      <4> QED BY <3>0, <4>1 DEF Used
    <3>2. ASSUME NEW i \in 1..Len(grants)
          PROVE  Used(i) + Filled(now) <= Capacity + (now - grants[i].at)
      <4>0. grants # <<>> /\ grants[i].at \in Nat
        BY <3>0
      <4>1. /\ bucket # None
            /\ Used(i) + bucket.tokens
                 <= Capacity + (bucket.touched - grants[i].at) + 0 * (calls - grants[i].calls)
        BY <4>0 DEF IInv, Spent, Late
      <4>2. /\ bucket.tokens \in Nat /\ bucket.touched \in Nat
            /\ 0 * (calls - grants[i].calls) = 0
        <5>1. bucket \in Buckets /\ calls \in Nat /\ grants[i].calls \in Nat
          BY <4>1, GrantTypes DEF IInv, LimitsTypeOK
        <5>2. bucket.tokens \in Nat /\ bucket.touched \in Nat
          BY <5>1 DEF Buckets
        <5>3. calls - grants[i].calls \in Int
          BY <5>1
        <5> QED BY <5>2, <5>3
      <4>3. Filled(now) <= bucket.tokens + (now - bucket.touched)
        <5>1. Filled(now) <= bucket.tokens + (now - bucket.touched) + Late /\ Late = 0
          BY <2>2, <4>1, FilledBounds DEF Late
        <5> QED BY <2>2, <3>0, <4>2, <5>1
      <4> DEFINE used == Used(i)  granted == grants[i].at  filled == Filled(now)
      <4>4. /\ used \in Int /\ granted \in Int /\ filled \in Int
            /\ used + bucket.tokens <= Capacity + (bucket.touched - granted) + 0
            /\ filled <= bucket.tokens + (now - bucket.touched)
        BY <3>0, <3>1, <4>0, <4>1, <4>2, <4>3
      <4> HIDE DEF used, granted, filled
      <4>5. used + filled <= Capacity + (now - granted)
        BY <2>2, <3>0, <4>2, <4>4, Refilled
      <4> QED BY <4>5 DEF used, granted, filled
    <3>3. ASSUME Cost <= Filled(now), NEW i \in 1..Len(grants)
          PROVE  (Len(grants) - i + 2) * Cost <= Capacity + (now - grants[i].at)
      <4> DEFINE used == Used(i)  granted == grants[i].at  filled == Filled(now)
      <4>1. /\ used \in Int /\ granted \in Int /\ filled \in Int /\ Cost <= filled
            /\ used + filled <= Capacity + (now - granted)
        BY <3>0, <3>1, <3>2, <3>3
      <4> HIDE DEF used, granted, filled
      <4>2. used + Cost <= Capacity + (now - granted)
        BY <2>2, <3>0, <4>1
      <4> QED BY <3>1, <4>2 DEF used, granted
    <3>4. ASSUME Fits PROVE Cost <= Filled(now)
      <4>1. CASE Filled(now) = Capacity
        BY <3>0, <4>1
      <4>2. CASE Filled(now) # Capacity
        <5>1. PICK i \in 1..Len(grants) :
                 Used(i) + Filled(now) = Capacity + (now - grants[i].at)
          BY <4>2, FilledExact
        <5> DEFINE used == Used(i)  granted == grants[i].at  filled == Filled(now)
        <5>2. /\ used \in Int /\ granted \in Int /\ filled \in Int
              /\ used + filled = Capacity + (now - granted)
              /\ used + Cost <= Capacity + (now - granted)
          BY <3>0, <3>1, <3>4, <5>1 DEF Fits
        <5> HIDE DEF used, granted, filled
        <5>3. Cost <= filled
          BY <2>2, <3>0, <5>2
        <5> QED BY <5>3 DEF filled
      <4> QED BY <4>1, <4>2
    <3> QED BY <3>3, <3>4 DEF Fits
  <2> QED BY <2>3, <2>4
<1> QED BY <1>1, LimitsInvariance, PTL DEF Spec, MemoryIsExact
=============================================================================
