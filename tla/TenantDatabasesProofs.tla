------------------------- MODULE TenantDatabasesProofs -------------------------
(***************************************************************************)
(* Theorems about the databases of the tenants: the connection resolver    *)
(* beside provisioning and the fan-out, for every number of calls,         *)
(* tenants, runs, releases and files, and every limit of the cache.  The   *)
(* two parts meet in db_name: provisioning writes it, once, and the        *)
(* resolver opens what it reads there.                                     *)
(***************************************************************************)
EXTENDS TenantPools, TenantMigrations, FiniteSetTheorems, SequenceTheorems,
        WellFoundedInduction, TLAPS

vars == <<poolVars, migrationVars>>

Init == PoolsInit /\ MigrationsInit

Next ==
    \/ PoolsNext /\ UNCHANGED migrationVars
    \/ MigrationsNext /\ UNCHANGED poolVars

Spec == Init /\ [][Next]_vars

-----------------------------------------------------------------------------
(* The invariant of the resolver.                                          *)

\* The rows of the tenants: a name is written once.
RowsOK ==
    /\ dbName \in [Tenants -> Tenants \union {NoDatabase}]
    /\ \A t \in Tenants : dbName[t] \in {t, NoDatabase}

\* The order names the tenants with a cached pool, each once, within the limit.
RecencyOK ==
    /\ Len(recency) <= MaxPools
    /\ \A i, j \in 1..Len(recency) : recency[i] = recency[j] => i = j
    /\ \A t \in Tenants : t \in Cached <=> \E i \in 1..Len(recency) : recency[i] = t

\* A cached pool is connected to the database of its tenant.
CachedOK ==
    \A t \in Cached :
        pools[t] \in 1..Len(pool) /\ dbName[t] # NoDatabase /\ pool[pools[t]].of = dbName[t]

Evicting == {o \in Callers : opening[o].pc = "evicting"}

\* An opening is the one that others join; none outlives the settling.
OpeningOK(o) ==
    opening[o].pc # "none" =>
        /\ inflight[call[o].tenant] = o
        /\ shutdown \in {"running", "settling"}
        /\ opening[o].pc = "lookup" => call[o].tenant \notin Cached
        /\ opening[o].pc = "evicting" => opening[o].victim \in 1..Len(pool)

InHand(p) ==
    \/ \E t \in Tenants : pools[t] = p
    \/ \E o \in Evicting : opening[o].victim = p

ShutdownOK ==
    /\ shutdown \in {"running", "settling"} => \A p \in Open : InHand(p)
    /\ shutdown \in {"ending", "closed"} => recency = <<>>
    /\ shutdown = "ending" =>
          /\ \A p \in Open : pool[p].state = "ending"
          /\ IsFiniteSet(Open) /\ Cardinality(Open) <= MaxPools
    /\ shutdown = "closed" => Open = {}

PoolsInv ==
    /\ PoolsTypeOK /\ RowsOK /\ RecencyOK /\ CachedOK
    /\ \A o \in Callers : OpeningOK(o)
    /\ ShutdownOK

-----------------------------------------------------------------------------
(* Pools that someone has in hand are few.                                 *)

LEMMA ImageIsSmall ==
    ASSUME NEW S, IsFiniteSet(S), NEW f, f = [x \in S |-> f[x]]
    PROVE  /\ IsFiniteSet({f[x] : x \in S})
           /\ Cardinality({f[x] : x \in S}) <= Cardinality(S)
<1> DEFINE T == {f[x] : x \in S}
<1>1. \A y \in T : \E x \in S : f[x] = y
  OBVIOUS
<1>2. \A x \in S : f[x] \in T
  OBVIOUS
<1> HIDE DEF T
<1>3. f \in [S -> T]
  BY <1>2
<1>4. f \in Surjection(S, T)
  BY <1>1, <1>3 DEF Surjection
<1>5. IsFiniteSet(T) /\ Cardinality(T) <= Cardinality(S)
  BY <1>4, FS_Surjection
<1> QED
  BY <1>5 DEF T

LEMMA InHandAreFew ==
    ASSUME PoolsTypeOK, RecencyOK, NEW P \in SUBSET (1..Len(pool)), \A p \in P : InHand(p)
    PROVE  /\ IsFiniteSet(P)
           /\ Cardinality(Evicting) \in Nat
           /\ Cardinality(P) <= MaxPools + Cardinality(Evicting)
<1> DEFINE N == 1..Len(recency)
           f == [i \in N |-> pools[recency[i]]]
           g == [o \in Evicting |-> opening[o].victim]
           A == {f[i] : i \in N}
           B == {g[o] : o \in Evicting}
<1>1. Len(recency) \in Nat /\ pool \in Seq([of : Tenants, state : {"live", "ending", "ended"}])
  BY DEF PoolsTypeOK
<1>2. IsFiniteSet(N) /\ Cardinality(N) = Len(recency)
  <2>1. 1 \in Int /\ Len(recency) \in Int
    BY <1>1
  <2>2. /\ IsFiniteSet(N)
        /\ Cardinality(N) = IF 1 > Len(recency) THEN 0 ELSE Len(recency) - 1 + 1
    BY ONLY <2>1, FS_Interval
  <2> QED
    BY <1>1, <2>2
<1>3. IsFiniteSet(Evicting)
  BY CallersAssumption, FS_Subset DEF Evicting
<1>4. IsFiniteSet(A) /\ Cardinality(A) <= Cardinality(N)
  <2>1. f = [i \in N |-> f[i]]
    OBVIOUS
  <2> HIDE DEF f, N
  <2> QED
    BY <1>2, <2>1, ImageIsSmall
<1>5. IsFiniteSet(B) /\ Cardinality(B) <= Cardinality(Evicting)
  <2>1. g = [o \in Evicting |-> g[o]]
    OBVIOUS
  <2> HIDE DEF g
  <2> QED
    BY <1>3, <2>1, ImageIsSmall
<1>6. P \subseteq A \cup B
  <2> SUFFICES ASSUME NEW p \in P
               PROVE  p \in A \cup B
    OBVIOUS
  <2>1. CASE \E o \in Evicting : opening[o].victim = p
    BY <2>1
  <2>2. CASE \E t \in Tenants : pools[t] = p
    <3>1. PICK t \in Tenants : pools[t] = p
      BY <2>2
    <3>2. p \in 1..Len(pool)
      OBVIOUS
    <3>3. t \in Cached
      BY <1>1, <3>1, <3>2 DEF Cached, NoPool
    <3>4. PICK i \in N : recency[i] = t
      BY <3>3 DEF RecencyOK
    <3>5. f[i] = p
      BY <3>1, <3>4
    <3> HIDE DEF f, N
    <3> QED
      BY <3>4, <3>5
  <2> QED
    BY <2>1, <2>2 DEF InHand
<1> HIDE DEF A, B, N
<1>7. /\ IsFiniteSet(A \cup B)
      /\ Cardinality(A \cup B) = Cardinality(A) + Cardinality(B) - Cardinality(A \cap B)
  BY <1>4, <1>5, FS_Union
<1>8. IsFiniteSet(A \cap B)
  BY <1>4, FS_Subset
<1>9. IsFiniteSet(P) /\ Cardinality(P) <= Cardinality(A \cup B)
  BY <1>6, <1>7, FS_Subset
<1>10. /\ Cardinality(A) \in Nat /\ Cardinality(B) \in Nat /\ Cardinality(A \cap B) \in Nat
       /\ Cardinality(Evicting) \in Nat /\ Cardinality(P) \in Nat
  BY <1>3, <1>4, <1>5, <1>8, <1>9, FS_CardinalityType
<1>11. Len(recency) <= MaxPools /\ MaxPools \in Nat
  BY MaxPoolsAssumption DEF RecencyOK
<1> QED
  BY <1>1, <1>2, <1>4, <1>5, <1>7, <1>9, <1>10, <1>11

-----------------------------------------------------------------------------
(* The order of the cached tenants.                                        *)

LEMMA Removed ==
    ASSUME NEW S, NEW s \in Seq(S), NEW k \in 1..Len(s)
    PROVE  /\ RemoveAt(s, k) \in Seq(S) /\ Len(RemoveAt(s, k)) = Len(s) - 1
           /\ \A i \in 1..(k - 1) : RemoveAt(s, k)[i] = s[i]
           /\ \A i \in k..(Len(s) - 1) : RemoveAt(s, k)[i] = s[i + 1]
<1>1. Len(s) \in Nat
  OBVIOUS
<1> DEFINE before == SubSeq(s, 1, k - 1)
           after == SubSeq(s, k + 1, Len(s))
<1>2. /\ before \in Seq(S) /\ Len(before) = k - 1
      /\ \A i \in 1..(k - 1) : before[i] = s[i]
  BY <1>1
<1>3. /\ after \in Seq(S) /\ Len(after) = Len(s) - k
      /\ \A i \in 1..(Len(s) - k) : after[i] = s[k + i]
  BY <1>1
<1>4. RemoveAt(s, k) = before \o after
  BY DEF RemoveAt
<1> HIDE DEF before, after
<1> DEFINE whole == before \o after
<1>5. /\ whole \in Seq(S) /\ Len(whole) = Len(s) - 1
      /\ \A i \in 1..(k - 1) : whole[i] = before[i]
      /\ \A i \in k..(Len(s) - 1) : whole[i] = after[i - (k - 1)]
  <2>1. before \in Seq(S) /\ after \in Seq(S)
    BY <1>2, <1>3
  <2>2. Len(before) = k - 1 /\ Len(after) = Len(s) - k
    BY <1>2, <1>3
  <2>3. /\ whole \in Seq(S) /\ Len(whole) = Len(before) + Len(after)
        /\ \A i \in 1..(Len(before) + Len(after)) :
               whole[i] = IF i <= Len(before) THEN before[i] ELSE after[i - Len(before)]
    BY <2>1, ConcatProperties, Zenon
  <2> HIDE DEF whole
  <2>4. Len(whole) = Len(s) - 1
    BY <1>1, <2>2, <2>3
  <2>5. \A i \in 1..(k - 1) : whole[i] = before[i]
    BY <1>1, <2>2, <2>3
  <2>6. \A i \in k..(Len(s) - 1) : whole[i] = after[i - (k - 1)]
    BY <1>1, <2>2, <2>3
  <2> QED
    BY <2>3, <2>4, <2>5, <2>6
<1>6. \A i \in k..(Len(s) - 1) : i - (k - 1) \in 1..(Len(s) - k) /\ k + (i - (k - 1)) = i + 1
  BY <1>1
<1>7. RemoveAt(s, k) = whole
  BY <1>4
<1> HIDE DEF whole
<1>8. \A i \in 1..(k - 1) : whole[i] = s[i]
  BY <1>2, <1>5
<1>9. \A i \in k..(Len(s) - 1) : whole[i] = s[i + 1]
  <2>1. TAKE i \in k..(Len(s) - 1)
  <2> DEFINE j == i - (k - 1)
  <2>2. j \in 1..(Len(s) - k) /\ k + j = i + 1
    BY <1>6
  <2>3. whole[i] = after[j]
    BY <1>5
  <2> HIDE DEF j
  <2>4. after[j] = s[k + j]
    BY <1>3, <2>2
  <2> QED
    BY <2>2, <2>3, <2>4
<1>10. whole \in Seq(S) /\ Len(whole) = Len(s) - 1
  BY <1>5
<1> QED
  BY <1>7, <1>8, <1>9, <1>10, Zenon

\* The use of a tenant puts it last.
LEMMA Used ==
    ASSUME PoolsTypeOK, RecencyOK, NEW t \in Tenants
    PROVE  LET used == Append(Without(t), t) IN
           /\ used \in Seq(Tenants)
           /\ Len(used) = IF t \in Cached THEN Len(recency) ELSE Len(recency) + 1
           /\ \A i, j \in 1..Len(used) : used[i] = used[j] => i = j
           /\ \A u \in Tenants : (\E i \in 1..Len(used) : used[i] = u) <=> u = t \/ u \in Cached
           /\ t \notin Cached => \A i \in 1..Len(recency) : used[i] = recency[i]
<1> DEFINE used == Append(Without(t), t)
           n == Len(recency)
<1>1. recency \in Seq(Tenants) /\ n \in Nat
  BY DEF PoolsTypeOK
<1>2. CASE t \notin Cached
  <2>1. used = Append(recency, t)
    BY <1>2 DEF Without
  <2>2. /\ used \in Seq(Tenants) /\ Len(used) = n + 1 /\ used[n + 1] = t
        /\ \A i \in 1..n : used[i] = recency[i]
    BY <1>1, <2>1
  <2> HIDE DEF used
  <2>3. \A i \in 1..n : recency[i] # t
    BY <1>2 DEF RecencyOK
  <2>4. \A i, j \in 1..(n + 1) : used[i] = used[j] => i = j
    BY <1>1, <2>2, <2>3 DEF RecencyOK
  <2>5. ASSUME NEW u \in Tenants
        PROVE  (\E i \in 1..(n + 1) : used[i] = u) <=> u = t \/ u \in Cached
    BY <1>1, <2>2 DEF RecencyOK
  <2> QED
    BY <1>2, <2>2, <2>4, <2>5 DEF used
<1>3. CASE t \in Cached
  <2>1. \E i \in DOMAIN recency : recency[i] = t
    BY <1>1, <1>3 DEF RecencyOK
  <2> DEFINE k == CHOOSE i \in DOMAIN recency : recency[i] = t
             w == RemoveAt(recency, k)
  <2>2. k \in 1..n /\ recency[k] = t
    BY <1>1, <2>1
  <2>3. used = Append(w, t)
    BY <1>3 DEF Without
  <2> HIDE DEF k
  <2>4. /\ w \in Seq(Tenants) /\ Len(w) = n - 1
        /\ \A i \in 1..(k - 1) : w[i] = recency[i]
        /\ \A i \in k..(n - 1) : w[i] = recency[i + 1]
    BY <1>1, <2>2, Removed
  <2> HIDE DEF w
  <2>5. /\ used \in Seq(Tenants) /\ Len(used) = n /\ used[n] = t
        /\ \A i \in 1..(k - 1) : used[i] = recency[i]
        /\ \A i \in k..(n - 1) : used[i] = recency[i + 1]
    BY <1>1, <2>2, <2>3, <2>4
  <2> HIDE DEF used
  <2> DEFINE from == [i \in 1..n |-> IF i < k THEN i ELSE IF i < n THEN i + 1 ELSE k]
  <2>6. \A i \in 1..n : from[i] \in 1..n /\ used[i] = recency[from[i]]
    BY <1>1, <2>2, <2>5
  <2>7. \A i, j \in 1..n : from[i] = from[j] => i = j
    BY <1>1, <2>2
  <2>8. \A i \in 1..n : \E j \in 1..n : from[j] = i
    <3> SUFFICES ASSUME NEW i \in 1..n
                 PROVE  \E j \in 1..n : from[j] = i
      OBVIOUS
    <3>1. CASE i < k
      BY <3>1
    <3>2. CASE i = k
      BY <1>1, <2>2, <3>2
    <3>3. CASE i > k
      <4>1. i - 1 \in 1..n /\ from[i - 1] = i
        BY <1>1, <2>2, <3>3
      <4> QED
        BY <4>1
    <3> QED
      BY <1>1, <2>2, <3>1, <3>2, <3>3
  <2> HIDE DEF from
  <2>9. \A i, j \in 1..n : used[i] = used[j] => i = j
    BY <2>6, <2>7 DEF RecencyOK
  <2>10. ASSUME NEW u \in Tenants
         PROVE  (\E i \in 1..n : used[i] = u) <=> u = t \/ u \in Cached
    <3>1. (\E i \in 1..n : used[i] = u) <=> \E i \in 1..n : recency[i] = u
      <4>1. ASSUME NEW i \in 1..n, used[i] = u
            PROVE  \E j \in 1..n : recency[j] = u
        BY <2>6, <4>1
      <4>2. ASSUME NEW i \in 1..n, recency[i] = u
            PROVE  \E j \in 1..n : used[j] = u
        BY <2>6, <2>8, <4>2
      <4> QED
        BY <4>1, <4>2
    <3> QED
      BY <1>3, <3>1 DEF RecencyOK
  <2> QED
    BY <1>3, <2>5, <2>9, <2>10 DEF used
<1> QED
  BY <1>2, <1>3

-----------------------------------------------------------------------------
(* The pools and the openings.                                             *)

PoolRecords == [of : Tenants, state : {"live", "ending", "ended"}]

LEMMA Mapped ==
    ASSUME NEW q \in Seq(PoolRecords), NEW r \in [1..Len(q) -> PoolRecords]
    PROVE  r \in Seq(PoolRecords) /\ Len(r) = Len(q)
<1> HIDE DEF PoolRecords
<1>1. Len(q) \in Nat
  OBVIOUS
<1> QED
  BY <1>1

LEMMA Restated ==
    ASSUME NEW q \in Seq(PoolRecords), NEW k \in 1..Len(q), NEW state \in {"ending", "ended"},
           NEW r, r = [q EXCEPT ![k].state = state]
    PROVE  /\ r \in Seq(PoolRecords) /\ Len(r) = Len(q)
           /\ \A i \in 1..Len(q) : r[i].of = q[i].of
           /\ \A i \in 1..Len(q) : i # k => r[i] = q[i]
           /\ r[k].state = state
<1>1. Len(q) \in Nat /\ DOMAIN q = 1..Len(q) /\ \A i \in 1..Len(q) : q[i] \in PoolRecords
  OBVIOUS
<1>2. r[k] = [q[k] EXCEPT !.state = state]
  BY <1>1
<1>3. r[k] \in PoolRecords /\ r[k].of = q[k].of /\ r[k].state = state
  BY <1>1, <1>2 DEF PoolRecords
<1>4. \A i \in 1..Len(q) : i # k => r[i] = q[i]
  BY <1>1
<1>5. r \in [1..Len(q) -> PoolRecords]
  BY <1>1, <1>3
<1>6. r \in Seq(PoolRecords) /\ Len(r) = Len(q)
  BY <1>5, Mapped
<1> QED
  BY <1>3, <1>4, <1>6

LEMMA PoolTyped == PoolsTypeOK => pool \in Seq(PoolRecords)
  BY DEF PoolsTypeOK, PoolRecords

\* The new pool.
LEMMA ConnectedPool ==
    ASSUME PoolsTypeOK, RowsOK, NEW t \in Tenants, dbName[t] # NoDatabase
    PROVE  /\ Connected(t) \in Seq(PoolRecords) /\ Len(Connected(t)) = Len(pool) + 1
           /\ \A p \in 1..Len(pool) : Connected(t)[p] = pool[p]
           /\ Connected(t)[Len(pool) + 1].of = dbName[t]
           /\ Connected(t)[Len(pool) + 1].state = "live"
<1> DEFINE r == [of |-> dbName[t], state |-> "live"]
<1>1. r \in PoolRecords /\ r.of = dbName[t] /\ r.state = "live"
  BY DEF RowsOK, PoolRecords
<1>2. pool \in Seq(PoolRecords) /\ Connected(t) = Append(pool, r)
  BY PoolTyped DEF Connected
<1> HIDE DEF r, PoolRecords
<1>3. /\ Append(pool, r) \in Seq(PoolRecords) /\ Len(Append(pool, r)) = Len(pool) + 1
      /\ \A p \in 1..Len(pool) : Append(pool, r)[p] = pool[p]
      /\ Append(pool, r)[Len(pool) + 1] = r
  BY <1>1, <1>2
<1> QED
  BY <1>1, <1>2, <1>3

\* What the end of an opening leaves of the others.
LEMMA SettledKeeps ==
    ASSUME PoolsTypeOK, \A d \in Callers : OpeningOK(d), NEW o \in Callers,
           opening[o].pc # "none", NEW pc \in {"served", "refused"}, NEW answer \in Nat,
           Settled(o, pc, answer)
    PROVE  /\ opening' \in [Callers -> Openings]
           /\ inflight' \in [Ids -> Callers \union {Nobody}]
           /\ call' \in [Callers -> Calls]
           /\ \A d \in Callers : call'[d].tenant = call[d].tenant
           /\ opening'[o].pc = "none"
           /\ \A d \in Callers \ {o} :
                 /\ opening'[d] = opening[d]
                 /\ opening[d].pc # "none" => inflight'[call[d].tenant] = d
<1>1. /\ opening \in [Callers -> Openings] /\ inflight \in [Ids -> Callers \union {Nobody}]
      /\ call \in [Callers -> Calls]
  BY DEF PoolsTypeOK
<1>2. opening' = [opening EXCEPT ![o] = NoOpening]
  BY DEF Settled
<1>3. NoOpening \in Openings /\ NoOpening.pc = "none"
  BY DEF NoOpening, Openings, NoPool
<1>4. inflight' = [inflight EXCEPT ![call[o].tenant] = Nobody]
  BY DEF Settled
<1>5. ASSUME NEW d \in Callers
      PROVE  call'[d] \in Calls /\ call'[d].tenant = call[d].tenant
  <2>1. call[d] \in Calls
    BY <1>1
  <2>2. call'[d] = call[d] \/ call'[d] = [call[d] EXCEPT !.pc = pc, !.answer = answer]
    BY DEF Settled
  <2>3. ASSUME NEW k, k = [call[d] EXCEPT !.pc = pc, !.answer = answer]
        PROVE  k \in Calls /\ k.tenant = call[d].tenant
    BY <2>1, <2>3 DEF Calls
  <2> QED
    BY <2>1, <2>2, <2>3
<1>6. call' \in [Callers -> Calls]
  <2>1. call' = [d \in Callers |-> call'[d]]
    BY DEF Settled
  <2> QED
    BY <1>5, <2>1
<1>7. ASSUME NEW d \in Callers \ {o}
      PROVE  /\ opening'[d] = opening[d]
             /\ opening[d].pc # "none" => inflight'[call[d].tenant] = d
  <2>1. opening[d].pc # "none" => inflight[call[d].tenant] = d /\ inflight[call[o].tenant] = o
    BY DEF OpeningOK
  <2>2. call[d].tenant \in Ids
    BY <1>1 DEF Calls
  <2> QED
    BY <1>1, <1>2, <1>4, <2>1, <2>2
<1> QED
  BY <1>1, <1>2, <1>3, <1>4, <1>5, <1>6, <1>7

-----------------------------------------------------------------------------
(* The steps of the resolver.                                              *)

\* A step of a call that neither opens nor closes anything.
LEMMA CallerKeeps ==
    ASSUME PoolsInv, NEW c \in Callers, CallerStep(c), UNCHANGED dbName
    PROVE  PoolsInv'
<1>0. /\ PoolsTypeOK /\ RowsOK /\ RecencyOK /\ CachedOK /\ ShutdownOK
      /\ call \in [Callers -> Calls] /\ opening \in [Callers -> Openings]
      /\ inflight \in [Ids -> Callers \union {Nobody}] /\ pools \in [Tenants -> Nat]
  BY DEF PoolsInv, PoolsTypeOK
<1>1. /\ UNCHANGED <<pools, pool, shutdown, controlPlane, dbName>> /\ Cached' = Cached
      /\ Open' = Open
  BY DEF CallerStep, RefuseClosed, Hit, Join, StartOpening, Cached, Open
<1>2. RowsOK' /\ CachedOK'
  BY <1>0, <1>1 DEF RowsOK, CachedOK
\* The call alone changes, within its type.
<1>3. ASSUME NEW k \in Calls, k.tenant = call[c].tenant, call' = [call EXCEPT ![c] = k]
      PROVE  call' \in [Callers -> Calls] /\ \A d \in Callers : call'[d].tenant = call[d].tenant
  BY <1>0, <1>3
<1>4. ASSUME UNCHANGED <<inflight, opening>>, recency' \in Seq(Tenants), RecencyOK',
             call' \in [Callers -> Calls], \A d \in Callers : call'[d].tenant = call[d].tenant,
             shutdown \in {"ending", "closed"} => recency' = recency
      PROVE  PoolsInv'
  <2>1. PoolsTypeOK'
    BY <1>0, <1>1, <1>4 DEF PoolsTypeOK
  <2>2. \A d \in Callers : OpeningOK(d)'
    BY <1>1, <1>4 DEF OpeningOK, PoolsInv
  <2>3. \A p : InHand(p)' <=> InHand(p)
    BY <1>1, <1>4 DEF InHand, Evicting
  <2>4. ShutdownOK'
    BY <1>0, <1>1, <1>4, <2>3 DEF ShutdownOK
  <2> QED
    BY <1>2, <1>4, <2>1, <2>2, <2>4 DEF PoolsInv
<1>5. ASSUME recency' = recency
      PROVE  recency' \in Seq(Tenants) /\ RecencyOK'
  BY <1>0, <1>1, <1>5 DEF RecencyOK, PoolsTypeOK
<1>6. CASE RefuseClosed(c)
  <2> DEFINE k == [call[c] EXCEPT !.pc = "refused"]
  <2>1. call' = [call EXCEPT ![c] = k] /\ UNCHANGED <<inflight, opening, recency>>
    BY <1>6 DEF RefuseClosed
  <2>2. k \in Calls /\ k.tenant = call[c].tenant
    BY <1>0 DEF Calls
  <2> QED
    BY <1>3, <1>4, <1>5, <2>1, <2>2
<1>7. CASE Hit(c)
  <2> DEFINE t == call[c].tenant
             k == [call[c] EXCEPT !.pc = "served", !.answer = pools[t]]
  <2>1. /\ call' = [call EXCEPT ![c] = k] /\ UNCHANGED <<inflight, opening>>
        /\ t \in Cached /\ shutdown = "running" /\ recency' = Append(Without(t), t)
    BY <1>0, <1>7 DEF Hit
  <2>2. t \in Tenants
    BY <2>1 DEF Cached
  <2>3. k \in Calls /\ k.tenant = call[c].tenant
    BY <1>0, <2>2 DEF Calls
  <2> DEFINE used == Append(Without(t), t)
  <2>4. /\ used \in Seq(Tenants) /\ Len(used) = Len(recency)
        /\ \A i, j \in 1..Len(used) : used[i] = used[j] => i = j
        /\ \A u \in Tenants : (\E i \in 1..Len(used) : used[i] = u) <=> u = t \/ u \in Cached
    <3> HIDE DEF t
    <3> QED
      BY <1>0, <2>1, <2>2, Used
  <2> HIDE DEF used
  <2>5. RecencyOK' /\ recency' \in Seq(Tenants)
    BY <1>0, <1>1, <2>1, <2>4 DEF used, RecencyOK
  <2> QED
    BY <1>3, <1>4, <2>1, <2>3, <2>5
<1>8. CASE Join(c)
  <2> DEFINE k == [call[c] EXCEPT !.pc = "waiting", !.on = inflight[call[c].tenant]]
  <2>1. call' = [call EXCEPT ![c] = k] /\ UNCHANGED <<inflight, opening, recency>>
    BY <1>0, <1>8 DEF Join
  <2>2. k \in Calls /\ k.tenant = call[c].tenant
    BY <1>0 DEF Calls
  <2> QED
    BY <1>3, <1>4, <1>5, <2>1, <2>2
<1>9. CASE StartOpening(c)
  <2> DEFINE t == call[c].tenant
             k == [call[c] EXCEPT !.pc = "waiting", !.on = c]
             w == [opening[c] EXCEPT !.pc = "lookup"]
  <2>1. /\ call' = [call EXCEPT ![c] = k] /\ opening' = [opening EXCEPT ![c] = w]
        /\ inflight' = [inflight EXCEPT ![t] = c] /\ recency' = recency
        /\ t \notin Cached /\ inflight[t] = Nobody /\ shutdown = "running"
    BY <1>0, <1>9 DEF StartOpening, Joins
  <2>2. t \in Ids /\ k \in Calls /\ k.tenant = t
    BY <1>0 DEF Calls
  <2>3. w \in Openings /\ w.pc = "lookup"
    BY <1>0 DEF Openings
  <2> HIDE DEF k, w
  <2>4. call' \in [Callers -> Calls] /\ \A d \in Callers : call'[d].tenant = call[d].tenant
    BY <1>3, <2>1, <2>2
  <2>5. PoolsTypeOK'
    BY <1>0, <1>1, <2>1, <2>2, <2>3, <2>4 DEF PoolsTypeOK
  <2>6. ASSUME NEW d \in Callers
        PROVE  OpeningOK(d)' /\ (d \in Evicting <=> d \in Evicting')
                 /\ (d \in Evicting => opening'[d] = opening[d])
    <3>1. OpeningOK(d) /\ OpeningOK(c)
      BY DEF PoolsInv
    <3>2. CASE d = c
      <4>1. opening'[d].pc = "lookup" /\ inflight'[call'[d].tenant] = c
        BY <1>0, <2>1, <2>2, <2>3, <2>4, <3>2
      <4>2. opening[c].pc = "none"
        BY <2>1, <3>1, CallersAssumption DEF OpeningOK
      <4> QED
        BY <1>1, <2>1, <2>4, <3>2, <4>1, <4>2 DEF OpeningOK, Evicting
    <3>3. CASE d # c
      <4>1. opening'[d] = opening[d]
        BY <1>0, <2>1, <3>3
      <4>2. opening[d].pc # "none" => inflight'[call'[d].tenant] = d
        <5>1. opening[d].pc # "none" => inflight[call[d].tenant] = d
          BY <3>1 DEF OpeningOK
        <5>2. call[d].tenant \in Ids /\ d # Nobody
          BY <1>0, CallersAssumption DEF Calls
        <5> QED
          BY <1>0, <2>1, <2>4, <5>1, <5>2
      <4> QED
        BY <1>1, <2>4, <3>1, <4>1, <4>2 DEF OpeningOK, Evicting
    <3> QED
      BY <3>2, <3>3
  <2>7. \A p : InHand(p) => InHand(p)'
    BY <1>1, <2>6 DEF InHand, Evicting
  <2>8. ShutdownOK'
    BY <1>0, <1>1, <2>1, <2>7 DEF ShutdownOK
  <2> QED
    BY <1>2, <1>5, <2>1, <2>5, <2>6, <2>8 DEF PoolsInv
<1> QED
  BY <1>6, <1>7, <1>8, <1>9 DEF CallerStep

LEMMA OpenFailsKeeps ==
    ASSUME PoolsInv, NEW o \in Callers, OpenFails(o), UNCHANGED dbName
    PROVE  PoolsInv'
<1>1. /\ opening[o].pc = "lookup" /\ Settled(o, "refused", 0)
      /\ UNCHANGED <<pools, recency, pool, shutdown, controlPlane, dbName>>
  BY DEF OpenFails, NoPool
<1>2. /\ PoolsTypeOK /\ RowsOK /\ RecencyOK /\ CachedOK /\ ShutdownOK
      /\ \A d \in Callers : OpeningOK(d)
  BY DEF PoolsInv
<1>3. /\ opening' \in [Callers -> Openings]
      /\ inflight' \in [Ids -> Callers \union {Nobody}]
      /\ call' \in [Callers -> Calls]
      /\ \A d \in Callers : call'[d].tenant = call[d].tenant
      /\ opening'[o].pc = "none"
      /\ \A d \in Callers \ {o} :
            /\ opening'[d] = opening[d]
            /\ opening[d].pc # "none" => inflight'[call[d].tenant] = d
  BY <1>1, <1>2, SettledKeeps
<1>4. Cached' = Cached /\ Open' = Open
  BY <1>1 DEF Cached, Open
<1>5. PoolsTypeOK' /\ RowsOK' /\ RecencyOK' /\ CachedOK'
  BY <1>1, <1>2, <1>3, <1>4 DEF PoolsTypeOK, RowsOK, RecencyOK, CachedOK
<1>6. \A d \in Callers : OpeningOK(d)'
  BY <1>1, <1>2, <1>3, <1>4 DEF OpeningOK
<1>7. \A p : InHand(p) => InHand(p)'
  BY <1>1, <1>3 DEF InHand, Evicting
<1>8. ShutdownOK'
  BY <1>1, <1>2, <1>4, <1>7 DEF ShutdownOK
<1> QED
  BY <1>5, <1>6, <1>8 DEF PoolsInv

LEMMA OpenPoolKeeps ==
    ASSUME PoolsInv, NEW o \in Callers, OpenPool(o), UNCHANGED dbName
    PROVE  PoolsInv'
<1> DEFINE t == call[o].tenant
           used == Append(Without(t), t)
           n == Len(pool)
<1>1. /\ opening[o].pc = "lookup" /\ t \in Tenants /\ dbName[t] # NoDatabase
      /\ Len(used) <= MaxPools /\ pool' = Connected(t)
      /\ pools' = [pools EXCEPT ![t] = n + 1] /\ recency' = used
      /\ Settled(o, "served", n + 1)
      /\ UNCHANGED <<shutdown, controlPlane, dbName>>
  BY DEF OpenPool
<1>2. /\ PoolsTypeOK /\ RowsOK /\ RecencyOK /\ CachedOK /\ ShutdownOK
      /\ \A d \in Callers : OpeningOK(d)
  BY DEF PoolsInv
<1>3. /\ pool \in Seq(PoolRecords) /\ n \in Nat /\ pools \in [Tenants -> Nat]
  BY <1>2, PoolTyped DEF PoolsTypeOK
<1>4. t \notin Cached /\ shutdown \in {"running", "settling"}
  BY <1>1, <1>2 DEF OpeningOK
<1>5. /\ used \in Seq(Tenants)
      /\ \A i, j \in 1..Len(used) : used[i] = used[j] => i = j
      /\ \A u \in Tenants : (\E i \in 1..Len(used) : used[i] = u) <=> u = t \/ u \in Cached
  <2> HIDE DEF t
  <2> QED
    BY <1>1, <1>2, Used
<1> HIDE DEF used
<1>6. /\ opening' \in [Callers -> Openings]
      /\ inflight' \in [Ids -> Callers \union {Nobody}]
      /\ call' \in [Callers -> Calls]
      /\ \A d \in Callers : call'[d].tenant = call[d].tenant
      /\ opening'[o].pc = "none"
      /\ \A d \in Callers \ {o} :
            /\ opening'[d] = opening[d]
            /\ opening[d].pc # "none" => inflight'[call[d].tenant] = d
  BY <1>1, <1>2, <1>3, SettledKeeps
<1>7. /\ pool' \in Seq(PoolRecords) /\ Len(pool') = n + 1
      /\ \A p \in 1..n : pool'[p] = pool[p]
      /\ pool'[n + 1].of = dbName[t]
  BY <1>1, <1>2, ConnectedPool
<1>8. /\ pools' \in [Tenants -> Nat] /\ pools'[t] = n + 1
      /\ \A u \in Tenants : u # t => pools'[u] = pools[u]
  BY <1>1, <1>3
<1>9. Cached' = Cached \union {t}
  BY <1>1, <1>3, <1>8 DEF Cached, NoPool
<1>10. PoolsTypeOK'
  BY <1>1, <1>2, <1>5, <1>6, <1>7, <1>8 DEF PoolsTypeOK, PoolRecords
<1>11. RowsOK'
  BY <1>1, <1>2 DEF RowsOK
<1>12. RecencyOK'
  BY <1>1, <1>5, <1>9 DEF RecencyOK
<1>13. CachedOK'
  <2> SUFFICES ASSUME NEW u \in Cached'
               PROVE  /\ pools'[u] \in 1..Len(pool') /\ dbName'[u] # NoDatabase
                      /\ pool'[pools'[u]].of = dbName'[u]
    BY DEF CachedOK
  <2>1. CASE u = t
    BY <1>1, <1>3, <1>7, <1>8, <2>1
  <2>2. CASE u # t
    <3>1. /\ pools'[u] = pools[u] /\ pools[u] \in 1..n /\ dbName[u] # NoDatabase
          /\ pool[pools[u]].of = dbName[u]
      BY <1>2, <1>8, <1>9, <2>2 DEF CachedOK, Cached
    <3> QED
      BY <1>1, <1>3, <1>7, <3>1
  <2> QED
    BY <2>1, <2>2
<1>14. ASSUME NEW d \in Callers
       PROVE  OpeningOK(d)'
  <2>1. CASE d = o
    BY <1>6, <2>1 DEF OpeningOK
  <2>2. CASE d # o
    <3>1. opening'[d] = opening[d] /\ call'[d].tenant = call[d].tenant
      BY <1>6, <2>2
    <3>2. opening[d].pc # "none" => inflight'[call'[d].tenant] = d
      BY <1>6, <2>2
    <3>3. opening[d].pc = "lookup" => call[d].tenant # t
      BY <1>1, <1>2, <2>2 DEF OpeningOK
    <3>4. opening[d].pc = "lookup" => call'[d].tenant \notin Cached'
      BY <1>2, <1>9, <3>1, <3>3 DEF OpeningOK
    <3>5. opening[d].pc = "evicting" => opening[d].victim \in 1..(n + 1)
      BY <1>2, <1>3 DEF OpeningOK
    <3>6. opening[d].pc # "none" => shutdown' \in {"running", "settling"}
      BY <1>1, <1>4
    <3> QED
      BY <1>7, <3>1, <3>2, <3>4, <3>5, <3>6 DEF OpeningOK
  <2> QED
    BY <2>1, <2>2
<1>15. ASSUME NEW p \in Open'
       PROVE  InHand(p)'
  <2>1. p \in 1..(n + 1)
    BY <1>3, <1>7 DEF Open
  <2>2. CASE p = n + 1
    BY <1>1, <1>8, <2>2 DEF InHand
  <2>3. CASE p \in 1..n
    <3>1. p \in Open
      BY <1>3, <1>7, <2>3 DEF Open
    <3>2. InHand(p)
      BY <1>2, <1>4, <3>1 DEF ShutdownOK
    <3>3. ASSUME NEW u \in Tenants, pools[u] = p
          PROVE  pools'[u] = p
      <4>1. u # t
        BY <1>3, <1>4, <2>3, <3>3 DEF Cached, NoPool
      <4> QED
        BY <1>8, <3>3, <4>1
    <3>4. ASSUME NEW d \in Evicting, opening[d].victim = p
          PROVE  d \in Evicting' /\ opening'[d].victim = p
      BY <1>1, <1>6, <3>4 DEF Evicting
    <3> QED
      BY <3>2, <3>3, <3>4 DEF InHand
  <2> QED
    BY <1>3, <2>1, <2>2, <2>3
<1>16. ShutdownOK'
  BY <1>1, <1>4, <1>15 DEF ShutdownOK
<1> QED
  BY <1>10, <1>11, <1>12, <1>13, <1>14, <1>16 DEF PoolsInv

LEMMA EvictionEndsKeeps ==
    ASSUME PoolsInv, NEW o \in Callers, EvictionEnds(o), UNCHANGED dbName
    PROVE  PoolsInv'
<1> DEFINE v == opening[o].victim
<1>1. /\ opening[o].pc = "evicting" /\ pool' = [pool EXCEPT ![v].state = "ended"]
      /\ Settled(o, "served", call[o].answer)
      /\ UNCHANGED <<pools, recency, shutdown, controlPlane, dbName>>
  BY DEF EvictionEnds
<1>2. /\ PoolsTypeOK /\ RowsOK /\ RecencyOK /\ CachedOK /\ ShutdownOK
      /\ \A d \in Callers : OpeningOK(d)
  BY DEF PoolsInv
<1>3. /\ pool \in Seq(PoolRecords) /\ v \in 1..Len(pool) /\ call[o].answer \in Nat
      /\ shutdown \in {"running", "settling"}
  BY <1>1, <1>2, PoolTyped DEF PoolsTypeOK, Calls, OpeningOK
<1>4. /\ opening' \in [Callers -> Openings]
      /\ inflight' \in [Ids -> Callers \union {Nobody}]
      /\ call' \in [Callers -> Calls]
      /\ \A d \in Callers : call'[d].tenant = call[d].tenant
      /\ opening'[o].pc = "none"
      /\ \A d \in Callers \ {o} :
            /\ opening'[d] = opening[d]
            /\ opening[d].pc # "none" => inflight'[call[d].tenant] = d
  BY <1>1, <1>2, <1>3, SettledKeeps
<1>5. /\ pool' \in Seq(PoolRecords) /\ Len(pool') = Len(pool)
      /\ \A i \in 1..Len(pool) : pool'[i].of = pool[i].of
      /\ \A i \in 1..Len(pool) : i # v => pool'[i] = pool[i]
      /\ pool'[v].state = "ended"
  <2> HIDE DEF v
  <2> QED
    BY <1>1, <1>3, Restated
<1>6. Cached' = Cached
  BY <1>1 DEF Cached
<1>7. PoolsTypeOK'
  BY <1>1, <1>2, <1>4, <1>5 DEF PoolsTypeOK, PoolRecords
<1>8. RowsOK' /\ RecencyOK'
  BY <1>1, <1>2, <1>6 DEF RowsOK, RecencyOK
<1>9. CachedOK'
  BY <1>1, <1>2, <1>5, <1>6 DEF CachedOK
<1>10. \A d \in Callers : OpeningOK(d)'
  BY <1>1, <1>2, <1>4, <1>5, <1>6 DEF OpeningOK
<1>11. ASSUME NEW p \in Open'
       PROVE  InHand(p)'
  <2>1. p \in 1..Len(pool) /\ p # v /\ p \in Open
    BY <1>3, <1>5 DEF Open
  <2>2. InHand(p)
    BY <1>2, <1>3, <2>1 DEF ShutdownOK
  <2>3. ASSUME NEW d \in Evicting, opening[d].victim = p
        PROVE  d \in Evicting' /\ opening'[d].victim = p
    BY <1>4, <2>1, <2>3 DEF Evicting
  <2> QED
    BY <1>1, <2>2, <2>3 DEF InHand
<1>12. ShutdownOK'
  BY <1>1, <1>3, <1>11 DEF ShutdownOK
<1> QED
  BY <1>7, <1>8, <1>9, <1>10, <1>12 DEF PoolsInv

LEMMA ShutdownKeeps ==
    ASSUME PoolsInv, ShutdownStep, UNCHANGED dbName
    PROVE  PoolsInv'
<1>0. /\ PoolsTypeOK /\ RowsOK /\ RecencyOK /\ CachedOK /\ ShutdownOK
      /\ \A d \in Callers : OpeningOK(d)
      /\ pool \in Seq(PoolRecords)
  BY PoolTyped DEF PoolsInv
<1>1. CASE Close \/ CloseControlPlane
  <2>1. /\ UNCHANGED <<pools, recency, inflight, opening, pool, call, dbName>>
        /\ \/ shutdown = "running" /\ shutdown' = "settling" /\ controlPlane' = controlPlane
           \/ shutdown = "closed" /\ shutdown' = "closed" /\ controlPlane' = "closed"
    BY <1>1 DEF Close, CloseControlPlane
  <2>2. Cached' = Cached /\ Open' = Open /\ \A p : InHand(p)' <=> InHand(p)
    BY <2>1 DEF Cached, Open, InHand, Evicting
  <2>3. PoolsTypeOK'
    BY <1>0, <2>1 DEF PoolsTypeOK
  <2>4. RowsOK' /\ RecencyOK' /\ CachedOK'
    BY <1>0, <2>1, <2>2 DEF RowsOK, RecencyOK, CachedOK
  <2>5. \A d \in Callers : OpeningOK(d)'
    BY <1>0, <2>1, <2>2 DEF OpeningOK
  <2>6. ShutdownOK'
    BY <1>0, <2>1, <2>2 DEF ShutdownOK
  <2> QED
    BY <2>3, <2>4, <2>5, <2>6 DEF PoolsInv
<1>2. CASE CloseClearsPools
  <2>1. /\ shutdown = "settling" /\ shutdown' = "ending"
        /\ \A t \in Ids : inflight[t] = Nobody
        /\ pools' = [t \in Tenants |-> NoPool] /\ recency' = <<>>
        /\ UNCHANGED <<inflight, opening, call, controlPlane, dbName>>
    BY <1>2 DEF CloseClearsPools, CloseAwaits, OpeningsSettled
  <2>2. /\ DOMAIN pool' = DOMAIN pool
        /\ \A p \in DOMAIN pool : pool'[p] = pool[p] \/ pool'[p] = [pool[p] EXCEPT !.state = "ending"]
        /\ \A p \in DOMAIN pool :
              (\E t \in Cached : pools[t] = p) => pool'[p] = [pool[p] EXCEPT !.state = "ending"]
        /\ pool' = [p \in DOMAIN pool |-> pool'[p]]
    BY <1>2 DEF CloseClearsPools
  <2>3. \A d \in Callers : opening[d].pc = "none"
    <3> SUFFICES ASSUME NEW d \in Callers, opening[d].pc # "none"
                 PROVE  FALSE
      OBVIOUS
    <3>1. call[d].tenant \in Ids
      BY <1>0 DEF PoolsTypeOK, Calls
    <3> QED
      BY <1>0, <2>1, <3>1, CallersAssumption DEF OpeningOK
  <2>4. Evicting = {}
    BY <2>3 DEF Evicting
  <2>5. ASSUME NEW p \in Open'
        PROVE  /\ p \in 1..Len(pool) /\ \E t \in Cached : pools[t] = p
               /\ pool'[p] = [pool[p] EXCEPT !.state = "ending"]
    <3>1. p \in 1..Len(pool) /\ pool'[p].state # "ended"
      BY <1>0, <2>2 DEF Open
    <3>2. ASSUME ~\E t \in Cached : pools[t] = p
          PROVE  FALSE
      <4>1. pool'[p] = pool[p]
        BY <1>0, <1>2, <3>1, <3>2 DEF CloseClearsPools
      <4>2. InHand(p)
        BY <1>0, <2>1, <3>1, <4>1 DEF ShutdownOK, Open
      <4>3. PICK t \in Tenants : pools[t] = p
        BY <2>4, <4>2 DEF InHand
      <4> QED
        BY <3>1, <3>2, <4>3 DEF Cached, NoPool
    <3> QED
      BY <1>0, <2>2, <3>1, <3>2
  <2>6. IsFiniteSet(Open') /\ Cardinality(Open') <= MaxPools
    <3> DEFINE P == Open'
    <3>1. P \in SUBSET (1..Len(pool)) /\ \A p \in P : InHand(p)
      BY <2>5 DEF InHand, Cached
    <3> HIDE DEF P
    <3>2. IsFiniteSet(P) /\ Cardinality(P) <= MaxPools + Cardinality(Evicting)
      BY <1>0, <3>1, InHandAreFew
    <3>3. Cardinality(Evicting) = 0 /\ Cardinality(P) \in Nat
      BY <2>4, <3>2, FS_EmptySet, FS_CardinalityType
    <3>4. IsFiniteSet(P) /\ Cardinality(P) <= MaxPools
      BY <3>2, <3>3, MaxPoolsAssumption
    <3> QED
      BY <3>4 DEF P
  <2>7. pool' \in [1..Len(pool) -> PoolRecords]
    <3>1. ASSUME NEW p \in 1..Len(pool)
          PROVE  pool'[p] \in PoolRecords
      <4>1. pool[p] \in PoolRecords
        BY <1>0
      <4>2. [pool[p] EXCEPT !.state = "ending"] \in PoolRecords
        BY <4>1 DEF PoolRecords
      <4> QED
        BY <1>0, <2>2, <4>1, <4>2
    <3>2. DOMAIN pool = 1..Len(pool)
      BY <1>0
    <3> QED
      BY <2>2, <3>1, <3>2
  <2>8. pool' \in Seq(PoolRecords) /\ Len(pool') = Len(pool)
    BY <1>0, <2>7, Mapped
  <2>9. \A p \in Open' : pool'[p].state = "ending"
    <3> SUFFICES ASSUME NEW p \in Open'
                 PROVE  pool'[p].state = "ending"
      OBVIOUS
    <3>1. p \in 1..Len(pool) /\ pool'[p] = [pool[p] EXCEPT !.state = "ending"]
      BY <2>5
    <3>2. pool[p] \in PoolRecords
      BY <1>0, <3>1
    <3> QED
      BY <3>1, <3>2 DEF PoolRecords
  <2>10. Cached' = {} /\ recency' \in Seq(Tenants) /\ Len(recency') = 0
    BY <2>1 DEF Cached
  <2>11. PoolsTypeOK'
    BY <1>0, <2>1, <2>8, <2>10 DEF PoolsTypeOK, PoolRecords, NoPool
  <2>12. RowsOK' /\ RecencyOK' /\ CachedOK'
    BY <1>0, <2>1, <2>10, MaxPoolsAssumption DEF RowsOK, RecencyOK, CachedOK
  <2>13. \A d \in Callers : OpeningOK(d)'
    BY <2>1, <2>3 DEF OpeningOK
  <2>14. ShutdownOK'
    BY <2>1, <2>6, <2>9 DEF ShutdownOK
  <2> QED
    BY <2>11, <2>12, <2>13, <2>14 DEF PoolsInv
<1>3. CASE CloseEndsPools
  <2>1. /\ shutdown = "ending" /\ shutdown' = "closed"
        /\ UNCHANGED <<pools, recency, inflight, opening, call, controlPlane, dbName>>
    BY <1>3 DEF CloseEndsPools
  <2>2. /\ DOMAIN pool' = DOMAIN pool /\ pool' = [p \in DOMAIN pool |-> pool'[p]]
        /\ \A p \in DOMAIN pool : pool'[p] = IF pool[p].state = "ending"
                                             THEN [pool[p] EXCEPT !.state = "ended"] ELSE pool[p]
    BY <1>3 DEF CloseEndsPools
  <2>3. ASSUME NEW p \in 1..Len(pool)
        PROVE  pool'[p] \in PoolRecords /\ pool'[p].of = pool[p].of /\ pool'[p].state = "ended"
    <3>1. pool[p] \in PoolRecords /\ DOMAIN pool = 1..Len(pool)
      BY <1>0
    <3>2. /\ [pool[p] EXCEPT !.state = "ended"] \in PoolRecords
          /\ [pool[p] EXCEPT !.state = "ended"].of = pool[p].of
          /\ [pool[p] EXCEPT !.state = "ended"].state = "ended"
      BY <3>1 DEF PoolRecords
    <3>3. pool[p].state \in {"ending", "ended"}
      BY <1>0, <2>1, <3>1 DEF ShutdownOK, Open
    <3> QED
      BY <2>2, <3>1, <3>2, <3>3
  <2>4. DOMAIN pool = 1..Len(pool)
    BY <1>0
  <2>5. pool' \in [1..Len(pool) -> PoolRecords]
    BY <2>2, <2>3, <2>4
  <2>6. pool' \in Seq(PoolRecords) /\ Len(pool') = Len(pool)
    BY <1>0, <2>5, Mapped
  <2>7. Cached' = Cached /\ Open' = {}
    BY <2>1, <2>2, <2>3, <2>4 DEF Cached, Open
  <2>8. PoolsTypeOK'
    BY <1>0, <2>1, <2>6 DEF PoolsTypeOK, PoolRecords
  <2>9. RowsOK' /\ RecencyOK' /\ CachedOK'
    BY <1>0, <2>1, <2>3, <2>6, <2>7 DEF RowsOK, RecencyOK, CachedOK
  <2>10. \A d \in Callers : OpeningOK(d)'
    BY <1>0, <2>1 DEF OpeningOK
  <2>11. ShutdownOK'
    BY <1>0, <2>1, <2>7 DEF ShutdownOK
  <2> QED
    BY <2>8, <2>9, <2>10, <2>11 DEF PoolsInv
<1> QED
  BY <1>1, <1>2, <1>3 DEF ShutdownStep

\* The pool in the limit's way leaves the cache and stays in the hands of the
\* opening that evicted it.
LEMMA OpenPoolOverLimitKeeps ==
    ASSUME PoolsInv, NEW o \in Callers, OpenPoolOverLimit(o), UNCHANGED dbName
    PROVE  PoolsInv'
<1> DEFINE t == call[o].tenant
           used == Append(Without(t), t)
           lru == Head(used)
           v == pools[lru]
           n == Len(pool)
           w == [pc |-> "evicting", victim |-> v]
           k == [call[o] EXCEPT !.answer = n + 1]
<1>1. /\ opening[o].pc = "lookup" /\ t \in Tenants /\ dbName[t] # NoDatabase
      /\ Len(used) > MaxPools /\ pool' = [Connected(t) EXCEPT ![v].state = "ending"]
      /\ pools' = [pools EXCEPT ![t] = n + 1, ![lru] = NoPool] /\ recency' = Tail(used)
      /\ opening' = [opening EXCEPT ![o] = w]
      /\ call' = [call EXCEPT ![o] = k]
      /\ UNCHANGED <<inflight, shutdown, controlPlane, dbName>>
  BY DEF OpenPoolOverLimit, PoolsInv, PoolsTypeOK
<1>2. /\ PoolsTypeOK /\ RowsOK /\ RecencyOK /\ CachedOK /\ ShutdownOK
      /\ \A d \in Callers : OpeningOK(d)
  BY DEF PoolsInv
<1>3. /\ pool \in Seq(PoolRecords) /\ n \in Nat /\ pools \in [Tenants -> Nat]
      /\ recency \in Seq(Tenants) /\ Len(recency) \in Nat
      /\ opening \in [Callers -> Openings] /\ call \in [Callers -> Calls]
  BY <1>2, PoolTyped DEF PoolsTypeOK
<1>4. t \notin Cached /\ shutdown \in {"running", "settling"} /\ inflight[t] = o
  BY <1>1, <1>2 DEF OpeningOK
<1>5. /\ used \in Seq(Tenants) /\ Len(used) = Len(recency) + 1
      /\ \A i, j \in 1..Len(used) : used[i] = used[j] => i = j
      /\ \A u \in Tenants : (\E i \in 1..Len(used) : used[i] = u) <=> u = t \/ u \in Cached
      /\ \A i \in 1..Len(recency) : used[i] = recency[i]
  <2> HIDE DEF t
  <2> QED
    BY <1>1, <1>2, <1>4, Used
<1> HIDE DEF used
<1>6. /\ Len(recency) = MaxPools /\ 1 \in 1..Len(recency)
      /\ lru = recency[1] /\ lru \in Cached /\ lru # t
  <2>1. Len(recency) = MaxPools /\ 1 \in 1..Len(recency)
    BY <1>1, <1>2, <1>3, <1>5, MaxPoolsAssumption DEF RecencyOK
  <2>2. lru = used[1]
    BY <1>5, <2>1
  <2>3. lru = recency[1] /\ recency[1] \in Tenants
    BY <1>3, <1>5, <2>1, <2>2
  <2>4. lru \in Cached
    BY <1>2, <2>1, <2>3 DEF RecencyOK
  <2> QED
    BY <1>4, <2>1, <2>3, <2>4
<1>7. v \in 1..n /\ v \in Nat /\ lru \in Tenants
  BY <1>2, <1>3, <1>6 DEF CachedOK, Cached
<1>8. /\ pool' \in Seq(PoolRecords) /\ Len(pool') = n + 1
      /\ \A p \in 1..n : pool'[p].of = pool[p].of
      /\ \A p \in 1..n : p # v => pool'[p] = pool[p]
      /\ pool'[n + 1].of = dbName[t]
  <2> DEFINE q == Connected(t)
  <2>1. /\ q \in Seq(PoolRecords) /\ Len(q) = n + 1
        /\ \A p \in 1..n : q[p] = pool[p]
        /\ q[n + 1].of = dbName[t]
    BY <1>1, <1>2, ConnectedPool
  <2>2. pool' = [q EXCEPT ![v].state = "ending"] /\ v \in 1..Len(q)
    BY <1>1, <1>3, <1>7, <2>1
  <2> HIDE DEF q, v
  <2>3. /\ pool' \in Seq(PoolRecords) /\ Len(pool') = Len(q)
        /\ \A i \in 1..Len(q) : pool'[i].of = q[i].of
        /\ \A i \in 1..Len(q) : i # v => pool'[i] = q[i]
    <3>1. q \in Seq(PoolRecords) /\ v \in 1..Len(q)
      BY <2>1, <2>2
    <3>2. PICK r : r = [q EXCEPT ![v].state = "ending"]
      OBVIOUS
    <3>3. /\ r \in Seq(PoolRecords) /\ Len(r) = Len(q)
          /\ \A i \in 1..Len(q) : r[i].of = q[i].of
          /\ \A i \in 1..Len(q) : i # v => r[i] = q[i]
      BY <3>1, <3>2, Restated
    <3> QED
      BY <2>2, <3>2, <3>3
  <2>4. 1..n \subseteq 1..Len(q) /\ n + 1 \in 1..Len(q)
    BY <1>3, <2>1
  <2> QED
    BY <2>1, <2>3, <2>4
<1>9. /\ pools' \in [Tenants -> Nat] /\ pools'[t] = n + 1 /\ pools'[lru] = NoPool
      /\ \A u \in Tenants : u # t /\ u # lru => pools'[u] = pools[u]
  <2> HIDE DEF lru
  <2> QED
    BY <1>1, <1>3, <1>6, <1>7 DEF NoPool
<1>10. Cached' = (Cached \union {t}) \ {lru}
  <2> HIDE DEF lru, v
  <2> QED
    BY <1>1, <1>3, <1>6, <1>7, <1>9 DEF Cached, NoPool
<1>11. /\ recency' \in Seq(Tenants) /\ Len(recency') = MaxPools
       /\ \A i \in 1..MaxPools : recency'[i] = used[i + 1]
  <2>1. Len(used) = MaxPools + 1 /\ MaxPools \in Nat
    BY <1>5, <1>6, MaxPoolsAssumption
  <2>2. used # <<>>
    BY <2>1
  <2>3. /\ Tail(used) \in Seq(Tenants) /\ Len(Tail(used)) = Len(used) - 1
        /\ \A i \in 1..Len(Tail(used)) : Tail(used)[i] = used[i + 1]
    BY <1>5, <2>2, HeadTailProperties
  <2> QED
    BY <1>1, <2>1, <2>3
<1>12. RecencyOK'
  <2> DEFINE m == MaxPools
  <2>1. m \in Nat /\ Len(used) = m + 1 /\ used[1] = lru
    BY <1>5, <1>6, MaxPoolsAssumption
  <2> HIDE DEF lru, m
  <2>2. \A i, j \in 1..m : recency'[i] = recency'[j] => i = j
    <3> SUFFICES ASSUME NEW i \in 1..m, NEW j \in 1..m, recency'[i] = recency'[j]
                 PROVE  i = j
      OBVIOUS
    <3>1. i + 1 \in 1..Len(used) /\ j + 1 \in 1..Len(used)
      BY <2>1
    <3>2. used[i + 1] = used[j + 1]
      BY <1>11 DEF m
    <3>3. i + 1 = j + 1
      BY <1>5, <3>1, <3>2
    <3> QED
      BY <2>1, <3>3
  <2>3. ASSUME NEW u \in Tenants
        PROVE  u \in Cached' <=> \E i \in 1..m : recency'[i] = u
    <3>1. ASSUME NEW i \in 1..m, recency'[i] = u
          PROVE  u \in Cached'
      <4>1. i + 1 \in 1..Len(used) /\ used[i + 1] = u /\ 1 \in 1..Len(used) /\ i + 1 # 1
        BY <1>11, <2>1, <3>1 DEF m
      <4>2. u # lru
        BY <1>5, <2>1, <4>1
      <4> QED
        BY <1>5, <1>10, <4>1, <4>2
    <3>2. ASSUME u \in Cached'
          PROVE  \E i \in 1..m : recency'[i] = u
      <4>1. PICK i \in 1..Len(used) : used[i] = u
        BY <1>5, <1>10, <3>2
      <4>2. i # 1
        BY <1>10, <2>1, <3>2, <4>1
      <4>3. i - 1 \in 1..m /\ recency'[i - 1] = used[(i - 1) + 1] /\ (i - 1) + 1 = i
        BY <1>11, <2>1, <4>1, <4>2 DEF m
      <4> QED
        BY <4>1, <4>3
    <3> QED
      BY <3>1, <3>2
  <2> QED
    BY <1>11, <2>1, <2>2, <2>3 DEF RecencyOK, m
<1> HIDE DEF lru
<1>13. CachedOK'
  <2> SUFFICES ASSUME NEW u \in Cached'
               PROVE  /\ pools'[u] \in 1..Len(pool') /\ dbName'[u] # NoDatabase
                      /\ pool'[pools'[u]].of = dbName'[u]
    BY DEF CachedOK
  <2>1. CASE u = t
    BY <1>1, <1>3, <1>8, <1>9, <2>1
  <2>2. CASE u # t
    <3>1. u \in Cached /\ u # lru /\ u \in Tenants
      BY <1>10, <2>2 DEF Cached
    <3>2. /\ pools'[u] = pools[u] /\ pools[u] \in 1..n /\ dbName[u] # NoDatabase
          /\ pool[pools[u]].of = dbName[u]
      BY <1>2, <1>9, <2>2, <3>1 DEF CachedOK
    <3> QED
      BY <1>1, <1>3, <1>8, <3>2
  <2> QED
    BY <2>1, <2>2
<1> HIDE DEF v
<1>14. w \in Openings /\ w.pc = "evicting" /\ w.victim = v
  BY <1>7 DEF Openings
<1>15. k \in Calls /\ k.tenant = t
  <2>1. call[o] \in Calls /\ n + 1 \in Nat
    BY <1>3
  <2> HIDE DEF n
  <2> QED
    BY <2>1 DEF Calls
<1> HIDE DEF w, k
<1>16. /\ opening' \in [Callers -> Openings] /\ opening'[o] = w
       /\ call' \in [Callers -> Calls]
       /\ \A d \in Callers : call'[d].tenant = call[d].tenant
       /\ \A d \in Callers \ {o} : opening'[d] = opening[d]
  BY <1>1, <1>3, <1>14, <1>15
<1>17. PoolsTypeOK'
  BY <1>1, <1>2, <1>8, <1>9, <1>11, <1>16 DEF PoolsTypeOK, PoolRecords
<1>18. RowsOK'
  BY <1>1, <1>2 DEF RowsOK
<1>19. ASSUME NEW d \in Callers
       PROVE  OpeningOK(d)'
  <2>1. CASE d = o
    BY <1>1, <1>3, <1>4, <1>7, <1>8, <1>14, <1>16, <2>1 DEF OpeningOK
  <2>2. CASE d # o
    <3>1. opening'[d] = opening[d] /\ call'[d].tenant = call[d].tenant
      BY <1>16, <2>2
    <3>2. opening[d].pc = "lookup" => call[d].tenant # t
      BY <1>1, <1>2, <1>4, <2>2 DEF OpeningOK
    <3>3. opening[d].pc = "lookup" => call[d].tenant \notin Cached'
      BY <1>2, <1>10, <3>2 DEF OpeningOK
    <3>4. opening[d].pc = "evicting" => opening[d].victim \in 1..(n + 1)
      BY <1>2, <1>3 DEF OpeningOK
    <3> QED
      BY <1>1, <1>2, <1>8, <3>1, <3>3, <3>4 DEF OpeningOK
  <2> QED
    BY <2>1, <2>2
<1>20. ASSUME NEW p \in Open'
       PROVE  InHand(p)'
  <2>1. p \in 1..(n + 1)
    BY <1>3, <1>8 DEF Open
  <2>2. CASE p = n + 1
    BY <1>1, <1>9, <2>2 DEF InHand
  <2>3. CASE p = v
    BY <1>14, <1>16, <2>3 DEF InHand, Evicting
  <2>4. CASE p \in 1..n /\ p # v
    <3>1. p \in Open
      BY <1>3, <1>8, <2>4 DEF Open
    <3>2. InHand(p)
      BY <1>2, <1>4, <3>1 DEF ShutdownOK
    <3>3. ASSUME NEW u \in Tenants, pools[u] = p
          PROVE  pools'[u] = p
      <4>1. u # t /\ u # lru
        BY <1>3, <1>4, <2>4, <3>3 DEF Cached, NoPool, v
      <4> QED
        BY <1>9, <3>3, <4>1
    <3>4. ASSUME NEW d \in Evicting, opening[d].victim = p
          PROVE  d \in Evicting' /\ opening'[d].victim = p
      BY <1>1, <1>16, <3>4 DEF Evicting
    <3> QED
      BY <3>2, <3>3, <3>4 DEF InHand
  <2> QED
    BY <1>3, <2>1, <2>2, <2>3, <2>4
<1>21. ShutdownOK'
  BY <1>1, <1>4, <1>20 DEF ShutdownOK
<1> QED
  BY <1>12, <1>13, <1>17, <1>18, <1>19, <1>21 DEF PoolsInv

-----------------------------------------------------------------------------
(* Every step of the two parts.                                            *)

\* A migration step writes at most the name of the database that is the
\* tenant's own.
LEMMA RowsWrite ==
    ASSUME MigrationsNext
    PROVE  \/ dbName' = dbName
           \/ \E t \in Tenants : dbName' = [dbName EXCEPT ![t] = t]
<1>1. PICK j \in Jobs : JobStep(j) \/ FileFails(j) \/ ListFails(j) \/ Die(j) \/ Rerun(j)
  BY DEF MigrationsNext
<1>2. CASE RecordDbName(j)
  BY <1>2, TenantOfAssumption DEF RecordDbName, TenantDbName
<1>3. CASE JobStep(j) /\ ~RecordDbName(j)
  BY <1>3 DEF JobStep, ReadStatus, ApplyFile, FindApplied, LookUpTenant, CreateDatabase,
              StartFanOut, StatusBefore, AllApplied, StatusAfter, ListTenants, NextTenant, EndFanOut
<1>4. CASE FileFails(j) \/ ListFails(j) \/ Die(j) \/ Rerun(j)
  BY <1>4 DEF FileFails, ListFails, Die, Rerun
<1> QED
  BY <1>1, <1>2, <1>3, <1>4

LEMMA PoolsInvInit == Init => PoolsInv
<1> SUFFICES ASSUME PoolsInit, MigrationsInit
             PROVE  PoolsInv
  BY DEF Init
<1>1. /\ pools = [t \in Tenants |-> 0] /\ recency = <<>> /\ pool = <<>>
      /\ inflight = [t \in Ids |-> Nobody] /\ opening = [c \in Callers |-> NoOpening]
      /\ shutdown = "running" /\ controlPlane = "open"
  BY DEF PoolsInit, NoPool
<1>2. call \in [Callers -> Calls]
  <2>1. PICK id \in [Callers -> Ids] :
          call = [c \in Callers |->
                    [tenant |-> id[c], pc |-> "new", on |-> Nobody, answer |-> NoPool]]
    BY DEF PoolsInit
  <2>2. ASSUME NEW t \in Ids
        PROVE  [tenant |-> t, pc |-> "new", on |-> Nobody, answer |-> NoPool] \in Calls
    BY DEF Calls, NoPool
  <2> QED
    BY <2>1, <2>2
<1>3. NoOpening \in Openings /\ NoOpening.pc = "none"
  BY DEF NoOpening, Openings, NoPool
<1>4. Cached = {} /\ Open = {}
  BY <1>1 DEF Cached, Open, NoPool
<1>5. PoolsTypeOK
  BY <1>1, <1>2, <1>3 DEF PoolsTypeOK
<1>6. RowsOK
  BY DEF MigrationsInit, RowsOK, TenantDbName
<1>7. RecencyOK /\ CachedOK
  BY <1>1, <1>4, MaxPoolsAssumption DEF RecencyOK, CachedOK
<1>8. \A o \in Callers : OpeningOK(o)
  BY <1>1, <1>3 DEF OpeningOK
<1>9. ShutdownOK
  BY <1>1, <1>4 DEF ShutdownOK
<1> QED
  BY <1>5, <1>6, <1>7, <1>8, <1>9 DEF PoolsInv

LEMMA PoolsInvNext == PoolsInv /\ [Next]_vars => PoolsInv'
<1> SUFFICES ASSUME PoolsInv, [Next]_vars
             PROVE  PoolsInv'
  OBVIOUS
<1>1. CASE PoolsNext /\ UNCHANGED migrationVars
  <2>1. UNCHANGED dbName
    BY <1>1 DEF migrationVars
  <2>2. ASSUME NEW o \in Callers, OpeningStep(o)
        PROVE  PoolsInv'
    BY <2>1, <2>2, OpenFailsKeeps, OpenPoolKeeps, OpenPoolOverLimitKeeps, EvictionEndsKeeps
    DEF OpeningStep
  <2> QED
    BY <1>1, <2>1, <2>2, CallerKeeps, ShutdownKeeps DEF PoolsNext
<1>2. CASE UNCHANGED poolVars /\ (MigrationsNext \/ UNCHANGED migrationVars)
  <2>1. dbName' = dbName \/ \E t \in Tenants : dbName' = [dbName EXCEPT ![t] = t]
    BY <1>2, RowsWrite DEF migrationVars
  <2>2. /\ UNCHANGED <<pools, recency, inflight, opening, pool, call, shutdown, controlPlane>>
        /\ PoolsTypeOK /\ RowsOK /\ RecencyOK /\ CachedOK /\ ShutdownOK
        /\ \A d \in Callers : OpeningOK(d)
    BY <1>2 DEF poolVars, PoolsInv
  <2>3. Cached' = Cached /\ Open' = Open
    BY <2>2 DEF Cached, Open
  <2>4. RowsOK'
    BY <2>1, <2>2 DEF RowsOK
  <2>5. \A t \in Tenants : dbName[t] # NoDatabase => dbName'[t] = dbName[t]
    BY <2>1, <2>2 DEF RowsOK
  <2>6. CachedOK'
    BY <2>2, <2>3, <2>5 DEF CachedOK, Cached
  <2>7. PoolsTypeOK' /\ RecencyOK'
    BY <2>2, <2>3 DEF PoolsTypeOK, RecencyOK
  <2>8. \A d \in Callers : OpeningOK(d)'
    BY <2>2, <2>3 DEF OpeningOK
  <2>9. \A p : InHand(p)' <=> InHand(p)
    BY <2>2 DEF InHand, Evicting
  <2>10. ShutdownOK'
    BY <2>2, <2>3, <2>9 DEF ShutdownOK
  <2> QED
    BY <2>4, <2>6, <2>7, <2>8, <2>10 DEF PoolsInv
<1> QED
  BY <1>1, <1>2 DEF Next, vars

\* Every connection pool that is open is in the cache of its tenant, connected
\* to the tenant's own database, or is being ended by someone who waits for it;
\* and no more are open than the limit and the evictions under way (resolver.ts
\* getTenantDb, evictOverflow, close).
THEOREM PoolsAreInHand == Spec => []NoPoolLeaks
<1>1. PoolsInv => NoPoolLeaks
  <2> SUFFICES ASSUME PoolsInv
               PROVE  NoPoolLeaks
    OBVIOUS
  <2>1. /\ PoolsTypeOK /\ RecencyOK /\ CachedOK /\ ShutdownOK
        /\ shutdown \in {"running", "settling", "ending", "closed"}
        /\ Open \subseteq 1..Len(pool)
    <3>1. pool \in Seq(PoolRecords)
      BY PoolTyped DEF PoolsInv
    <3> QED
      BY <3>1 DEF PoolsInv, PoolsTypeOK, Open
  <2>2. ASSUME NEW p \in Open, InHand(p)
        PROVE  \/ \E t \in Tenants : pools[t] = p /\ pool[p].of = dbName[t]
               \/ \E o \in Callers : opening[o].pc = "evicting" /\ opening[o].victim = p
    <3>1. p # NoPool
      BY <2>1 DEF NoPool
    <3> QED
      BY <2>1, <2>2, <3>1 DEF InHand, Evicting, CachedOK, Cached
  <2>3. IsFiniteSet(Evicting) /\ Cardinality(Evicting) \in Nat
    BY CallersAssumption, FS_Subset, FS_CardinalityType DEF Evicting
  <2>4. CASE shutdown \in {"running", "settling"}
    <3>1. \A p \in Open : InHand(p)
      BY <2>1, <2>4 DEF ShutdownOK
    <3>2. Cardinality(Open) <= MaxPools + Cardinality(Evicting)
      BY <2>1, <3>1, InHandAreFew
    <3> QED
      BY <2>2, <3>1, <3>2 DEF NoPoolLeaks, Evicting
  <2>5. CASE shutdown = "ending"
    <3>1. IsFiniteSet(Open) /\ Cardinality(Open) <= MaxPools
      BY <2>1, <2>5 DEF ShutdownOK
    <3>2. Cardinality(Open) <= MaxPools + Cardinality(Evicting)
      BY <2>3, <3>1, FS_CardinalityType, MaxPoolsAssumption
    <3> QED
      BY <2>5, <3>2 DEF NoPoolLeaks, Evicting
  <2>6. CASE shutdown = "closed"
    <3>1. Open = {} /\ Cardinality(Open) = 0
      BY <2>1, <2>6, FS_EmptySet DEF ShutdownOK
    <3> QED
      BY <2>3, <3>1, MaxPoolsAssumption DEF NoPoolLeaks, Evicting
  <2> QED
    BY <2>1, <2>4, <2>5, <2>6
<1> QED
  BY <1>1, PoolsInvInit, PoolsInvNext, PTL DEF Spec

-----------------------------------------------------------------------------
(* The invariant of the migrations.                                        *)

JobPcs ==
    {"start", "create", "before", "status", "apply", "after", "list", "next", "done", "refused",
     "failed", "dead"}

Reports == [status : {"none", "ok", "failed"}, pending : SUBSET Files]

JobStates ==
    [pc : JobPcs, release : Releases, mode : {"dry-run", "apply"}, db : Databases,
     todo : SUBSET Files, queue : SUBSET Tenants, listed : SUBSET Tenants,
     report : [Databases -> Reports]]

\* A database holds what a release ships for it.
UpToDate(release, db) ==
    \A f \in DOMAIN Ships(release, db) : recorded[db][f] = Ships(release, db)[f]

\* A run has left behind it only files that are recorded as it ships them.
TodoOK(r) ==
    LET files == Ships(r.release, r.db) IN
    /\ r.todo \subseteq DOMAIN files
    /\ \A f \in DOMAIN files \ r.todo : recorded[r.db][f] = files[f]

\* What a fan-out has reported is so.
Truth(r) ==
    r.mode = "apply" =>
        \A db \in r.listed \union {ControlPlane} :
            r.report[db].status = "ok" => UpToDate(r.release, db)

\* Where a fan-out is in its list: the control plane comes first, and a tenant
\* that was listed is in the queue, in hand or reported on.
Phase(pc, r) ==
    /\ pc \in {"start", "before", "status", "apply", "after", "list", "next", "done", "dead"}
    /\ pc \in {"start", "list"} => r.db = ControlPlane
    /\ pc \in {"start", "before", "status", "apply", "after", "list"} /\ r.db = ControlPlane =>
          r.listed = {} /\ \A t \in Tenants : r.report[t].status = "none"
    /\ pc \in {"before", "status", "apply", "after"} =>
          \A t \in r.listed : t \in r.queue \/ t = r.db \/ r.report[t].status # "none"
    /\ pc = "next" => \A t \in r.listed : t \in r.queue \/ r.report[t].status # "none"
    /\ pc = "done" => \A t \in r.listed : r.report[t].status # "none"

JobOK(j, r) ==
    /\ r.pc = "apply" => TodoOK(r)
    /\ j \in FanOuts => Truth(r) /\ Phase(r.pc, r)

RecordedOK ==
    /\ DOMAIN recorded = Databases /\ \A db \in Databases : DOMAIN recorded[db] = Files
    /\ ran \in [Databases -> [Files -> Nat]]
    /\ EachFileOnceInOrder

MigrationsInv ==
    /\ RecordedOK
    /\ job \in [Jobs -> JobStates]
    /\ \A j \in Jobs : JobOK(j, job[j])

-----------------------------------------------------------------------------
(* Files and their order.                                                  *)

LEMMA MinOfNat ==
    ASSUME NEW S \in SUBSET Nat, S # {}
    PROVE  Min(S) \in S /\ \A y \in S : Min(S) <= y
<1> DEFINE R == OpToRel(<, Nat)
<1>1. \A x, y \in Nat : <<x, y>> \in R <=> x < y
  BY DEF OpToRel
<1>2. PICK x \in S : \A y \in S : ~(<<y, x>> \in R)
  <2> HIDE DEF R
  <2> QED
    BY WFMin, NatLessThanWellFounded DEF R
<1> HIDE DEF R
<1>3. ASSUME NEW y \in S
      PROVE  x <= y
  <2>1. x \in Nat /\ y \in Nat
    OBVIOUS
  <2>2. ~(y < x)
    BY <1>1, <1>2, <2>1
  <2> QED
    BY <2>1, <2>2
<1>4. Min(S) = CHOOSE z \in S : \A y \in S : z =< y
  BY DEF Min
<1> QED
  BY <1>3, <1>4

LEMMA ShipsFiles ==
    ASSUME NEW release \in Releases, NEW db \in Databases
    PROVE  LET files == Ships(release, db) IN
           /\ Len(files) \in Nat /\ DOMAIN files = 1..Len(files)
           /\ DOMAIN files \subseteq Files
           /\ \A f \in DOMAIN files : files[f] # NotApplied
<1>1. Ships(release, db) \in {release.controlPlane, release.tenant}
  BY DEF Ships
<1>2. DOMAIN Ships(release, db) \subseteq Files
  BY DEF Files
<1> QED
  BY <1>1, <1>2, ReleasesAssumption

LEMMA FilesInOrder ==
    ASSUME NEW f \in Files
    PROVE  f \in Nat /\ 1..f \subseteq Files
<1>1. PICK release \in Releases, db \in Databases : f \in DOMAIN Ships(release, db)
  BY DEF Files
<1>2. PICK n : n = Len(Ships(release, db))
  OBVIOUS
<1>3. n \in Nat /\ DOMAIN Ships(release, db) = 1..n /\ 1..n \subseteq Files
  BY <1>2, ShipsFiles
<1> QED
  BY <1>1, <1>3

LEMMA UpToDateMeans ==
    ASSUME NEW release \in Releases, NEW db \in Databases
    PROVE  UpToDate(release, db) <=> /\ Pending(db, Ships(release, db)) = {}
                                     /\ ~Mismatch(db, Ships(release, db))
<1> DEFINE files == Ships(release, db)
<1>1. \A f \in DOMAIN files : files[f] # NotApplied
  BY ShipsFiles
<1> HIDE DEF files
<1>2. (\A f \in DOMAIN files : recorded[db][f] = files[f]) <=>
         Pending(db, files) = {} /\ ~Mismatch(db, files)
  BY <1>1 DEF Pending, Mismatch
<1> QED
  BY <1>2 DEF UpToDate, files

\* What is recorded stays as it is recorded.
Extends ==
    \A db \in Databases, f \in Files :
        recorded[db][f] # NotApplied => recorded'[db][f] = recorded[db][f]

LEMMA JobOKStays ==
    ASSUME Extends, NEW j \in Jobs, NEW r \in JobStates, JobOK(j, r)
    PROVE  JobOK(j, r)'
<1>1. r.release \in Releases /\ r.db \in Databases /\ r.listed \subseteq Tenants
  BY DEF JobStates
<1>2. ASSUME NEW db \in Databases, NEW f \in DOMAIN Ships(r.release, db),
             recorded[db][f] = Ships(r.release, db)[f]
      PROVE  recorded'[db][f] = Ships(r.release, db)[f]
  BY <1>1, <1>2, ShipsFiles DEF Extends
<1>3. TodoOK(r) => TodoOK(r)'
  BY <1>1, <1>2 DEF TodoOK
<1>4. \A db \in Databases : UpToDate(r.release, db) => UpToDate(r.release, db)'
  BY <1>2 DEF UpToDate
<1>5. Truth(r) => Truth(r)'
  BY <1>1, <1>4 DEF Truth, Databases
<1>6. Phase(r.pc, r) <=> Phase(r.pc, r)'
  BY DEF Phase
<1> QED
  BY <1>3, <1>5, <1>6 DEF JobOK

\* One run takes a step; what is recorded may grow with it.
LEMMA RunMoves ==
    ASSUME MigrationsInv, Extends, RecordedOK',
           NEW j \in Jobs, NEW r \in JobStates, JobOK(j, r)',
           job' = [job EXCEPT ![j] = r]
    PROVE  MigrationsInv'
<1>1. job' \in [Jobs -> JobStates]
  BY DEF MigrationsInv
<1>2. ASSUME NEW i \in Jobs
      PROVE  JobOK(i, job[i])'
  <2>1. CASE i = j
    <3>1. PICK q : q = job'[i]
      OBVIOUS
    <3>2. q = r
      BY <2>1, <3>1 DEF MigrationsInv
    <3> QED
      BY <2>1, <3>1, <3>2
  <2>2. CASE i # j
    <3>1. PICK q : q = job[i]
      OBVIOUS
    <3>2. job'[i] = q /\ q \in JobStates /\ JobOK(i, q)
      BY <2>2, <3>1 DEF MigrationsInv
    <3>3. JobOK(i, q)'
      BY <3>2, JobOKStays
    <3> QED
      BY <3>2, <3>3
  <2> QED
    BY <2>1, <2>2
<1> QED
  BY <1>1, <1>2 DEF MigrationsInv

\* A step of one run that commits nothing.
LEMMA QuietStep ==
    ASSUME MigrationsInv, NEW j \in Jobs, NEW r \in JobStates, JobOK(j, r),
           job' = [job EXCEPT ![j] = r], UNCHANGED <<recorded, ran>>
    PROVE  MigrationsInv'
<1>1. Extends
  BY DEF Extends
<1>2. JobOK(j, r)'
  BY <1>1, JobOKStays
<1>3. RecordedOK'
  BY DEF MigrationsInv, RecordedOK, EachFileOnceInOrder
<1> QED
  BY <1>1, <1>2, <1>3, RunMoves

-----------------------------------------------------------------------------
(* The steps of a run.                                                     *)

\* A run goes to another place and keeps all else.
LEMMA GotoKeeps ==
    ASSUME MigrationsInv, NEW j \in Jobs, NEW pc \in JobPcs, pc # "apply",
           j \in FanOuts => Phase(pc, job[j]),
           Goto(j, pc), UNCHANGED <<recorded, ran>>
    PROVE  MigrationsInv'
<1> DEFINE r == [job[j] EXCEPT !.pc = pc]
<1>1. job[j] \in JobStates /\ JobOK(j, job[j])
  BY DEF MigrationsInv
<1>2. r \in JobStates
  BY <1>1 DEF JobStates
<1>3. /\ r.pc = pc /\ r.release = job[j].release /\ r.mode = job[j].mode /\ r.db = job[j].db
      /\ r.queue = job[j].queue /\ r.listed = job[j].listed /\ r.report = job[j].report
  BY <1>1 DEF JobStates
<1>4. job' = [job EXCEPT ![j] = r]
  BY DEF Goto
<1> HIDE DEF r
<1>5. Truth(job[j]) => Truth(r)
  BY <1>3 DEF Truth
<1>6. Phase(pc, job[j]) => Phase(r.pc, r)
  BY <1>3 DEF Phase
<1>7. JobOK(j, r)
  BY <1>1, <1>3, <1>5, <1>6 DEF JobOK
<1> QED
  BY <1>2, <1>4, <1>7, QuietStep

LEMMA ThrownKeeps ==
    ASSUME MigrationsInv, NEW j \in Jobs, job[j].pc \in {"status", "apply"},
           Thrown(j), UNCHANGED <<recorded, ran>>
    PROVE  MigrationsInv'
<1>1. CASE j \in Provisioners
  <2>1. Goto(j, "failed") /\ j \notin FanOuts
    BY <1>1, DistinctAssumption DEF Thrown
  <2>2. "failed" \in JobPcs
    BY DEF JobPcs
  <2> QED
    BY <2>1, <2>2, GotoKeeps
<1>2. CASE j \notin Provisioners
  <2>1. Goto(j, "after") /\ "after" \in JobPcs
    BY <1>2 DEF Thrown, JobPcs
  <2>2. j \in FanOuts => Phase("after", job[j])
    BY DEF MigrationsInv, JobOK, Phase
  <2> QED
    BY <2>1, <2>2, GotoKeeps
<1> QED
  BY <1>1, <1>2

\* The report on the database in hand, and on with the list.
LEMMA ReportKeeps ==
    ASSUME MigrationsInv, NEW j \in Jobs,
           NEW status \in {"ok", "failed"}, NEW pending \in SUBSET Files,
           j \in FanOuts => job[j].pc \in {"before", "apply", "after"},
           job[j].mode = "apply" /\ status = "ok" => UpToDate(job[j].release, job[j].db),
           Report(j, status, pending), UNCHANGED <<recorded, ran>>
    PROVE  MigrationsInv'
<1> DEFINE s == job[j]
           told == [status |-> status, pending |-> pending]
           pc == IF s.db = ControlPlane THEN "list" ELSE "next"
           r == [s EXCEPT !.report[s.db] = told, !.pc = pc]
<1>1. s \in JobStates /\ JobOK(j, s)
  BY DEF MigrationsInv
<1>2. told \in Reports /\ told.status = status
  BY DEF Reports
<1>3. job' = [job EXCEPT ![j] = r]
  <2>1. job \in [Jobs -> JobStates]
    BY DEF MigrationsInv
  <2> QED
    BY <2>1, <1>1 DEF Report, JobStates
<1>4. pc \in JobPcs
  BY DEF JobPcs
<1> HIDE DEF told, s
<1>5. s.report \in [Databases -> Reports] /\ s.db \in Databases
  BY <1>1 DEF JobStates
<1>6. r.report = [s.report EXCEPT ![s.db] = told] /\ r.pc = pc
      /\ r.release = s.release /\ r.mode = s.mode /\ r.db = s.db
      /\ r.queue = s.queue /\ r.listed = s.listed /\ r.todo = s.todo
  BY <1>1 DEF JobStates
<1>7. r \in JobStates
  <2>1. [s.report EXCEPT ![s.db] = told] \in [Databases -> Reports]
    BY <1>2, <1>5
  <2> HIDE DEF pc
  <2> QED
    BY <1>1, <1>4, <2>1 DEF JobStates
<1> HIDE DEF r
<1>8. \A db \in Databases : r.report[db] = IF db = s.db THEN told ELSE s.report[db]
  BY <1>5, <1>6
<1>9. r.listed \subseteq Tenants /\ ControlPlane \notin Tenants
      /\ Tenants \subseteq Databases /\ ControlPlane \in Databases
  BY <1>7, DistinctAssumption DEF JobStates, Databases
<1>10. ASSUME j \in FanOuts
       PROVE  Truth(r)
  <2>1. Truth(s) /\ (s.mode = "apply" /\ status = "ok" => UpToDate(s.release, s.db))
    BY <1>1, <1>10 DEF JobOK, s
  <2> SUFFICES ASSUME r.mode = "apply", NEW db \in r.listed \union {ControlPlane},
                      r.report[db].status = "ok"
               PROVE  UpToDate(r.release, db)
    BY DEF Truth
  <2>2. db \in Databases
    BY <1>9
  <2>3. CASE db = s.db
    BY <1>2, <1>6, <1>8, <2>1, <2>2, <2>3
  <2>4. CASE db # s.db
    BY <1>6, <1>8, <2>1, <2>2, <2>4 DEF Truth
  <2> QED
    BY <2>3, <2>4
<1>11. ASSUME j \in FanOuts
       PROVE  Phase(r.pc, r)
  <2>1. Phase(s.pc, s) /\ s.pc \in {"before", "apply", "after"}
    BY <1>1, <1>11 DEF JobOK, s
  <2>2. CASE s.db = ControlPlane
    <3>1. r.pc = "list" /\ r.db = ControlPlane /\ r.listed = {}
      BY <1>6, <2>1, <2>2 DEF Phase
    <3>2. \A t \in Tenants : r.report[t].status = "none"
      BY <1>8, <1>9, <2>1, <2>2 DEF Phase
    <3> QED
      BY <3>1, <3>2 DEF Phase
  <2>3. CASE s.db # ControlPlane
    <3>1. r.pc = "next"
      BY <1>6, <2>3
    <3>2. \A t \in s.listed : t \in s.queue \/ t = s.db \/ s.report[t].status # "none"
      BY <2>1 DEF Phase
    <3>3. \A t \in r.listed : t \in r.queue \/ r.report[t].status # "none"
      BY <1>2, <1>6, <1>8, <1>9, <3>2
    <3> QED
      BY <3>1, <3>3 DEF Phase
  <2> QED
    BY <2>2, <2>3
<1>12. JobOK(j, r)
  BY <1>6, <1>10, <1>11 DEF JobOK
<1> QED
  BY <1>3, <1>7, <1>12, QuietStep

LEMMA ReadStatusKeeps ==
    ASSUME MigrationsInv, NEW j \in Jobs, ReadStatus(j)
    PROVE  MigrationsInv'
<1> DEFINE s == job[j]
           files == FilesOf(j)
           r == [s EXCEPT !.pc = "apply", !.todo = Pending(s.db, files)]
<1>1. s \in JobStates /\ JobOK(j, s) /\ s.pc = "status" /\ UNCHANGED <<recorded, ran>>
  BY DEF MigrationsInv, ReadStatus
<1>2. CASE Mismatch(s.db, files)
  BY <1>1, <1>2, ThrownKeeps DEF ReadStatus
<1>3. CASE ~Mismatch(s.db, files)
  <2>1. job' = [job EXCEPT ![j] = r]
    BY <1>3 DEF ReadStatus
  <2>2. files = Ships(s.release, s.db) /\ DOMAIN files \subseteq Files
    BY <1>1, ShipsFiles DEF JobStates, FilesOf
  <2> HIDE DEF files, s
  <2>3. Pending(s.db, files) \subseteq DOMAIN files
    BY DEF Pending
  <2>4. r \in JobStates
    BY <1>1, <2>2, <2>3 DEF JobStates, JobPcs
  <2>5. /\ r.pc = "apply" /\ r.todo = Pending(s.db, files) /\ r.release = s.release
        /\ r.db = s.db /\ r.mode = s.mode /\ r.queue = s.queue /\ r.listed = s.listed
        /\ r.report = s.report
    BY <1>1 DEF JobStates
  <2> HIDE DEF r
  <2>6. TodoOK(r)
    <3>1. \A f \in DOMAIN files \ Pending(s.db, files) : recorded[s.db][f] = files[f]
      BY <1>3 DEF Pending, Mismatch
    <3> QED
      BY <2>2, <2>3, <2>5, <3>1 DEF TodoOK
  <2>7. Truth(s) => Truth(r)
    BY <2>5 DEF Truth
  <2>8. Phase(s.pc, s) => Phase(r.pc, r)
    BY <1>1, <2>5 DEF Phase
  <2>9. JobOK(j, r)
    BY <1>1, <2>6, <2>7, <2>8 DEF JobOK
  <2> QED
    BY <1>1, <2>1, <2>4, <2>9, QuietStep
<1> QED
  BY <1>2, <1>3

\* A file is ticked off that is recorded as the run ships it.
LEMMA TickedOff ==
    ASSUME MigrationsInv, Extends, RecordedOK', NEW j \in Jobs, NEW f \in job[j].todo,
           job[j].pc = "apply",
           recorded'[job[j].db][f] = FilesOf(j)[f],
           job' = [job EXCEPT ![j].todo = @ \ {f}]
    PROVE  MigrationsInv'
<1>1. PICK s : s = job[j]
  OBVIOUS
<1> DEFINE r == [s EXCEPT !.todo = s.todo \ {f}]
<1>2. s \in JobStates /\ JobOK(j, s) /\ s.pc = "apply"
  BY <1>1 DEF MigrationsInv
<1>3. job' = [job EXCEPT ![j] = r]
  BY <1>1
<1>4. r \in JobStates
  BY <1>2 DEF JobStates
<1>5. /\ r.pc = s.pc /\ r.todo = s.todo \ {f} /\ r.release = s.release /\ r.db = s.db
      /\ r.mode = s.mode /\ r.queue = s.queue /\ r.listed = s.listed /\ r.report = s.report
  BY <1>2 DEF JobStates
<1> HIDE DEF r
<1>6. PICK q : q = r
  OBVIOUS
<1>7. JobOK(j, s)'
  BY <1>2, JobOKStays
<1>8. recorded'[s.db][f] = Ships(s.release, s.db)[f]
  BY <1>1 DEF FilesOf
<1>9. TodoOK(s)' => TodoOK(q)'
  BY <1>5, <1>6, <1>8 DEF TodoOK
<1>10. (Truth(s)' => Truth(q)') /\ (Phase(s.pc, s)' => Phase(q.pc, q)')
  BY <1>5, <1>6 DEF Truth, Phase, UpToDate
<1>11. JobOK(j, q)'
  BY <1>2, <1>5, <1>6, <1>7, <1>9, <1>10 DEF JobOK
<1> QED
  BY <1>3, <1>4, <1>6, <1>11, RunMoves

\* What a run has yet to apply are files of its release, and the first of them
\* is one whose predecessors are all recorded.
LEMMA FirstToDo ==
    ASSUME MigrationsInv, NEW j \in Jobs, job[j].pc = "apply", job[j].todo # {}
    PROVE  LET f == Min(job[j].todo) IN
           /\ f \in job[j].todo /\ f \in DOMAIN FilesOf(j) /\ f \in Files /\ f \in Nat
           /\ job[j].db \in Databases /\ FilesOf(j)[f] # NotApplied
           /\ \A g \in 1..f - 1 : g \in Files /\ recorded[job[j].db][g] # NotApplied
<1> DEFINE s == job[j]
           files == FilesOf(j)
           f == Min(s.todo)
<1>1. s \in JobStates /\ TodoOK(s) /\ s.release \in Releases /\ s.db \in Databases
  BY DEF MigrationsInv, JobOK, JobStates
<1>2. /\ files = Ships(s.release, s.db) /\ Len(files) \in Nat /\ DOMAIN files = 1..Len(files)
      /\ DOMAIN files \subseteq Files /\ \A g \in DOMAIN files : files[g] # NotApplied
  BY <1>1, ShipsFiles DEF FilesOf
<1> HIDE DEF files
<1>3. s.todo \in SUBSET Nat /\ s.todo \subseteq DOMAIN files
  BY <1>1, <1>2 DEF TodoOK
<1> HIDE DEF s
<1>4. f \in s.todo /\ \A g \in s.todo : f <= g
  BY <1>3, MinOfNat DEF s
<1> HIDE DEF f
<1>5. f \in 1..Len(files) /\ f \in Nat
  BY <1>2, <1>3, <1>4
<1>6. ASSUME NEW g \in 1..f - 1
      PROVE  g \in Files /\ recorded[s.db][g] # NotApplied
  <2>1. g \in DOMAIN files /\ ~(f <= g)
    BY <1>2, <1>5
  <2>2. recorded[s.db][g] = files[g]
    BY <1>1, <1>2, <1>4, <2>1 DEF TodoOK
  <2> QED
    BY <1>2, <2>1, <2>2
<1> QED
  BY <1>1, <1>2, <1>4, <1>5, <1>6 DEF f, s, files

LEMMA ApplyFileKeeps ==
    ASSUME MigrationsInv, NEW j \in Jobs, ApplyFile(j)
    PROVE  MigrationsInv'
<1>1. PICK db, f, c : db = job[j].db /\ f = Min(job[j].todo) /\ c = FilesOf(j)[f]
  OBVIOUS
<1>2. /\ job[j].pc = "apply" /\ job[j].todo # {} /\ recorded[db][f] = NotApplied
      /\ recorded' = [recorded EXCEPT ![db][f] = c]
      /\ ran' = [ran EXCEPT ![db][f] = @ + 1]
      /\ job' = [job EXCEPT ![j].todo = @ \ {f}]
  BY <1>1 DEF ApplyFile, StillMissing
<1>3. /\ f \in job[j].todo /\ f \in Files /\ f \in Nat /\ db \in Databases /\ c # NotApplied
      /\ \A g \in 1..f - 1 : g \in Files /\ recorded[db][g] # NotApplied
  BY <1>1, <1>2, FirstToDo
<1>4. RecordedOK
  BY DEF MigrationsInv
<1>5. /\ DOMAIN recorded' = Databases /\ \A d \in Databases : DOMAIN recorded'[d] = Files
      /\ \A d \in Databases, g \in Files :
            recorded'[d][g] = IF d = db /\ g = f THEN c ELSE recorded[d][g]
  BY <1>2, <1>3, <1>4 DEF RecordedOK
<1>6. /\ ran' \in [Databases -> [Files -> Nat]]
      /\ \A d \in Databases, g \in Files :
            ran'[d][g] = IF d = db /\ g = f THEN ran[d][g] + 1 ELSE ran[d][g]
  BY <1>2, <1>3, <1>4 DEF RecordedOK
<1>7. Extends
  BY <1>2, <1>5 DEF Extends
<1>8. ASSUME NEW d \in Databases, NEW g \in Files
      PROVE  ran'[d][g] = IF recorded'[d][g] = NotApplied THEN 0 ELSE 1
  <2>1. ran[d][g] = IF recorded[d][g] = NotApplied THEN 0 ELSE 1
    BY <1>4 DEF RecordedOK, EachFileOnceInOrder
  <2>2. recorded'[d][g] = (IF d = db /\ g = f THEN c ELSE recorded[d][g])
        /\ ran'[d][g] = (IF d = db /\ g = f THEN ran[d][g] + 1 ELSE ran[d][g])
    BY <1>5, <1>6
  <2> QED
    BY <1>2, <1>3, <2>1, <2>2
<1>9. ASSUME NEW d \in Databases, NEW g \in Files, recorded'[d][g] # NotApplied,
             NEW h \in 1..g - 1
      PROVE  recorded'[d][h] # NotApplied
  <2>1. h \in Files
    BY FilesInOrder
  <2>2. CASE d = db /\ g = f
    <3>1. recorded[d][h] # NotApplied
      BY <1>3, <2>2
    <3> QED
      BY <1>3, <1>5, <2>1, <3>1
  <2>3. CASE ~(d = db /\ g = f)
    <3>1. recorded[d][g] # NotApplied
      BY <1>5, <1>9, <2>3
    <3>2. recorded[d][h] # NotApplied
      BY <1>4, <3>1 DEF RecordedOK, EachFileOnceInOrder
    <3> QED
      BY <1>3, <1>5, <2>1, <3>2
  <2> QED
    BY <2>2, <2>3
<1>10. RecordedOK'
  BY <1>5, <1>6, <1>8, <1>9 DEF RecordedOK, EachFileOnceInOrder
<1>11. recorded'[job[j].db][f] = FilesOf(j)[f]
  BY <1>1, <1>3, <1>5
<1> QED
  BY <1>2, <1>3, <1>7, <1>10, <1>11, TickedOff

LEMMA FindAppliedKeeps ==
    ASSUME MigrationsInv, NEW j \in Jobs, FindApplied(j)
    PROVE  MigrationsInv'
<1>1. PICK f : f = Min(job[j].todo)
  OBVIOUS
<1>2. job[j].pc = "apply" /\ job[j].todo # {} /\ UNCHANGED <<recorded, ran>>
  BY DEF FindApplied
<1>3. CASE recorded[job[j].db][f] = FilesOf(j)[f]
  <2>1. job' = [job EXCEPT ![j].todo = @ \ {f}]
    BY <1>1, <1>3 DEF FindApplied
  <2>2. f \in job[j].todo
    BY <1>1, <1>2, FirstToDo
  <2>3. Extends /\ RecordedOK'
    BY <1>2 DEF MigrationsInv, RecordedOK, EachFileOnceInOrder, Extends
  <2>4. recorded'[job[j].db][f] = FilesOf(j)[f]
    BY <1>2, <1>3
  <2> QED
    BY <1>2, <2>1, <2>2, <2>3, <2>4, TickedOff
<1>4. CASE recorded[job[j].db][f] # FilesOf(j)[f]
  BY <1>1, <1>2, <1>4, ThrownKeeps DEF FindApplied
<1> QED
  BY <1>3, <1>4

LEMMA StatusBeforeKeeps ==
    ASSUME MigrationsInv, NEW j \in Jobs, StatusBefore(j)
    PROVE  MigrationsInv'
<1>1. PICK db, files : db = job[j].db /\ files = FilesOf(j)
  OBVIOUS
<1>2. job[j].pc = "before" /\ UNCHANGED <<recorded, ran>>
  BY DEF StatusBefore
<1>3. DOMAIN files \in SUBSET Files /\ Pending(db, files) \in SUBSET Files
  <2>1. job[j] \in JobStates
    BY DEF MigrationsInv
  <2>2. job[j].release \in Releases /\ job[j].db \in Databases
    BY <2>1 DEF JobStates
  <2>3. DOMAIN files \subseteq Files
    BY <1>1, <2>2, ShipsFiles DEF FilesOf
  <2> QED
    BY <2>3 DEF Pending
<1>4. CASE Report(j, "failed", DOMAIN files)
  BY <1>2, <1>3, <1>4, ReportKeeps
<1>5. CASE job[j].mode = "dry-run" /\ Report(j, "ok", Pending(db, files))
  BY <1>2, <1>3, <1>5, ReportKeeps
<1>6. CASE Goto(j, "status")
  <2>1. "status" \in JobPcs
    BY DEF JobPcs
  <2>2. j \in FanOuts => Phase("status", job[j])
    BY <1>2 DEF MigrationsInv, JobOK, Phase
  <2> QED
    BY <1>2, <1>6, <2>1, <2>2, GotoKeeps
<1> QED
  BY <1>1, <1>4, <1>5, <1>6 DEF StatusBefore

LEMMA AllAppliedKeeps ==
    ASSUME MigrationsInv, NEW j \in Jobs, AllApplied(j)
    PROVE  MigrationsInv'
<1>1. /\ job[j].pc = "apply" /\ job[j].todo = {} /\ Report(j, "ok", {})
      /\ UNCHANGED <<recorded, ran>>
  BY DEF AllApplied
<1>2. TodoOK(job[j])
  BY <1>1 DEF MigrationsInv, JobOK
<1>3. UpToDate(job[j].release, job[j].db)
  BY <1>1, <1>2 DEF TodoOK, UpToDate
<1> QED
  BY <1>1, <1>3, ReportKeeps

LEMMA StatusAfterKeeps ==
    ASSUME MigrationsInv, NEW j \in Jobs, StatusAfter(j)
    PROVE  MigrationsInv'
<1>1. job[j].pc = "after" /\ ReportFailure(j) /\ UNCHANGED <<recorded, ran>>
  BY DEF StatusAfter
<1>2. DOMAIN FilesOf(j) \in SUBSET Files
  <2>1. job[j] \in JobStates
    BY DEF MigrationsInv
  <2>2. job[j].release \in Releases /\ job[j].db \in Databases
    BY <2>1 DEF JobStates
  <2> QED
    BY <2>2, ShipsFiles DEF FilesOf
<1>3. Pending(job[j].db, FilesOf(j)) \in SUBSET Files
  BY <1>2 DEF Pending
<1>4. PICK pending \in SUBSET Files : Report(j, "failed", pending)
  BY <1>1, <1>2, <1>3 DEF ReportFailure
<1> QED
  BY <1>1, <1>4, ReportKeeps

\* Nothing is reported of a tenant before the tenants have been listed.
LEMMA ListTenantsKeeps ==
    ASSUME MigrationsInv, NEW j \in Jobs, ListTenants(j)
    PROVE  MigrationsInv'
<1>1. PICK s, queue, listed :
          /\ s = job[j]
          /\ queue = (IF TenantTable THEN Tenants ELSE {})
          /\ listed = (IF TenantTable THEN {t \in Tenants : dbName[t] # NoDatabase} ELSE {})
  OBVIOUS
<1> DEFINE r == [s EXCEPT !.pc = "next", !.queue = queue, !.listed = listed]
<1>2. s \in JobStates /\ JobOK(j, s) /\ s.pc = "list" /\ UNCHANGED <<recorded, ran>>
  BY <1>1 DEF MigrationsInv, ListTenants
<1>3. queue \subseteq Tenants /\ listed \subseteq queue
  BY <1>1
<1>4. job' = [job EXCEPT ![j] = r]
  BY <1>1 DEF ListTenants
<1>5. r \in JobStates
  BY <1>2, <1>3 DEF JobStates, JobPcs
<1>6. /\ r.pc = "next" /\ r.release = s.release /\ r.db = s.db /\ r.mode = s.mode
      /\ r.queue = queue /\ r.listed = listed /\ r.report = s.report
  BY <1>2 DEF JobStates
<1> HIDE DEF r
<1>7. ASSUME j \in FanOuts
      PROVE  Truth(r) /\ Phase(r.pc, r)
  <2>1. Truth(s) /\ \A t \in Tenants : s.report[t].status = "none"
    BY <1>2, <1>7 DEF JobOK, Phase
  <2>2. Truth(r)
    BY <1>3, <1>6, <2>1 DEF Truth
  <2>3. Phase(r.pc, r)
    BY <1>3, <1>6 DEF Phase
  <2> QED
    BY <2>2, <2>3
<1>8. JobOK(j, r)
  BY <1>6, <1>7 DEF JobOK
<1> QED
  BY <1>2, <1>4, <1>5, <1>8, QuietStep

LEMMA ListFailsKeeps ==
    ASSUME MigrationsInv, NEW j \in Jobs, ListFails(j)
    PROVE  MigrationsInv'
<1>1. PICK s, status :
          /\ s = job[j]
          /\ status = IF s.report[ControlPlane].pending # {} THEN s.report[ControlPlane].status
                      ELSE "failed"
  OBVIOUS
<1> DEFINE r == [s EXCEPT !.pc = "next", !.report[ControlPlane].status = status]
<1>2. s \in JobStates /\ JobOK(j, s) /\ s.pc = "list" /\ UNCHANGED <<recorded, ran>>
  BY <1>1 DEF MigrationsInv, ListFails
<1>3. job' = [job EXCEPT ![j] = r]
  BY <1>1 DEF ListFails
<1>4. s.report \in [Databases -> Reports] /\ ControlPlane \in Databases
  BY <1>2 DEF JobStates, Databases
<1>5. status = s.report[ControlPlane].status \/ status = "failed"
  BY <1>1
<1>6. status \in {"none", "ok", "failed"}
  BY <1>4, <1>5 DEF Reports
<1> DEFINE report == [s.report EXCEPT ![ControlPlane] = [@ EXCEPT !.status = status]]
<1>7. report \in [Databases -> Reports]
  <2>1. [s.report[ControlPlane] EXCEPT !.status = status] \in Reports
    BY <1>4, <1>6 DEF Reports
  <2> QED
    BY <1>4, <2>1
<1>8. /\ \A d \in Databases \ {ControlPlane} : report[d] = s.report[d]
      /\ report[ControlPlane].status = status
  BY <1>4 DEF Reports
<1>9. r = [s EXCEPT !.pc = "next", !.report = report]
  BY <1>2 DEF JobStates
<1> HIDE DEF r, report
<1>10. /\ r.pc = "next" /\ r.release = s.release /\ r.db = s.db /\ r.mode = s.mode
       /\ r.queue = s.queue /\ r.listed = s.listed /\ r.report = report
  BY <1>2, <1>9 DEF JobStates
<1>11. r \in JobStates
  BY <1>2, <1>7, <1>9 DEF JobStates, JobPcs
<1>12. ASSUME j \in FanOuts
       PROVE  Truth(r) /\ Phase(r.pc, r)
  <2>1. Truth(s) /\ s.listed = {}
    BY <1>2, <1>12 DEF JobOK, Phase
  <2>2. status = "ok" => s.report[ControlPlane].status = "ok"
    BY <1>5
  <2>3. Truth(r)
    BY <1>8, <1>10, <2>1, <2>2 DEF Truth
  <2>4. Phase(r.pc, r)
    BY <1>10, <2>1 DEF Phase
  <2> QED
    BY <2>3, <2>4
<1>13. JobOK(j, r)
  BY <1>10, <1>12 DEF JobOK
<1> QED
  BY <1>2, <1>3, <1>11, <1>13, QuietStep

\* A tenant that is taken up is in hand; one that is passed over is reported on.
LEMMA NextTenantKeeps ==
    ASSUME MigrationsInv, NEW j \in Jobs, NextTenant(j)
    PROVE  MigrationsInv'
<1>1. PICK s : s = job[j]
  OBVIOUS
<1>2. s \in JobStates /\ JobOK(j, s) /\ s.pc = "next" /\ UNCHANGED <<recorded, ran>>
  BY <1>1 DEF MigrationsInv, NextTenant
<1>3. PICK t \in s.queue :
          job' = IF t \in s.listed
                 THEN [job EXCEPT ![j].pc = "before", ![j].db = t, ![j].queue = @ \ {t}]
                 ELSE [job EXCEPT ![j].queue = @ \ {t},
                                  ![j].report[t] = [status |-> "ok", pending |-> {}]]
  BY <1>1 DEF NextTenant
<1>4. s.queue \subseteq Tenants /\ s.listed \subseteq Tenants /\ t \in Databases
      /\ t # ControlPlane /\ s.report \in [Databases -> Reports]
  BY <1>2, DistinctAssumption DEF JobStates, Databases
<1>5. CASE t \in s.listed
  <2> DEFINE r == [s EXCEPT !.pc = "before", !.db = t, !.queue = s.queue \ {t}]
  <2>1. job' = [job EXCEPT ![j] = r]
    BY <1>1, <1>3, <1>5
  <2>2. r \in JobStates
    BY <1>2, <1>4 DEF JobStates, JobPcs
  <2>3. /\ r.pc = "before" /\ r.release = s.release /\ r.db = t /\ r.mode = s.mode
        /\ r.queue = s.queue \ {t} /\ r.listed = s.listed /\ r.report = s.report
    BY <1>2 DEF JobStates
  <2> HIDE DEF r
  <2>4. Truth(s) => Truth(r)
    BY <2>3 DEF Truth
  <2>5. Phase(s.pc, s) => Phase(r.pc, r)
    BY <1>2, <1>4, <2>3 DEF Phase
  <2>6. JobOK(j, r)
    BY <1>2, <2>3, <2>4, <2>5 DEF JobOK
  <2> QED
    BY <1>2, <2>1, <2>2, <2>6, QuietStep
<1>6. CASE t \notin s.listed
  <2> DEFINE told == [status |-> "ok", pending |-> {}]
             report == [s.report EXCEPT ![t] = told]
             r == [s EXCEPT !.queue = s.queue \ {t}, !.report = report]
  <2>1. job' = [job EXCEPT ![j] = r]
    BY <1>1, <1>2, <1>3, <1>6 DEF JobStates
  <2>2. told \in Reports /\ told.status = "ok"
    BY DEF Reports
  <2> HIDE DEF told
  <2>3. /\ report \in [Databases -> Reports] /\ report[t].status = "ok"
        /\ \A d \in Databases \ {t} : report[d] = s.report[d]
    BY <1>4, <2>2
  <2> HIDE DEF report
  <2>4. r \in JobStates
    BY <1>2, <2>3 DEF JobStates
  <2>5. /\ r.pc = "next" /\ r.release = s.release /\ r.db = s.db /\ r.mode = s.mode
        /\ r.queue = s.queue \ {t} /\ r.listed = s.listed /\ r.report = report
    BY <1>2 DEF JobStates
  <2> HIDE DEF r
  <2>6. \A d \in s.listed \union {ControlPlane} : r.report[d] = s.report[d]
    BY <1>4, <1>6, <2>3, <2>5 DEF Databases
  <2>7. Truth(s) => Truth(r)
    BY <2>5, <2>6 DEF Truth
  <2>8. Phase(s.pc, s) => Phase(r.pc, r)
    BY <1>2, <1>6, <2>5, <2>6 DEF Phase
  <2>9. JobOK(j, r)
    BY <1>2, <2>5, <2>7, <2>8 DEF JobOK
  <2> QED
    BY <1>2, <2>1, <2>4, <2>9, QuietStep
<1> QED
  BY <1>5, <1>6

\* A run that has not started has left nothing behind and said nothing.
LEMMA NewJobOK ==
    ASSUME NEW j \in Jobs, NEW release \in Releases, NEW mode \in {"dry-run", "apply"}
    PROVE  NewJob(release, HomeOf(j), mode) \in JobStates
           /\ JobOK(j, NewJob(release, HomeOf(j), mode))
<1>1. PICK r : r = NewJob(release, HomeOf(j), mode)
  OBVIOUS
<1>2. /\ r.pc = "start" /\ r.db = HomeOf(j) /\ r.listed = {}
      /\ \A d \in Databases : r.report[d].status = "none"
  BY <1>1 DEF NewJob, NoReport
<1>3. HomeOf(j) \in Databases /\ (j \in FanOuts => HomeOf(j) = ControlPlane)
      /\ ControlPlane \in Databases /\ Tenants \subseteq Databases
  BY TenantOfAssumption, DistinctAssumption DEF HomeOf, Databases, TenantDbName
<1>4. r \in JobStates
  <2>1. [d \in Databases |-> NoReport] \in [Databases -> Reports]
    BY DEF NoReport, Reports
  <2> QED
    BY <1>1, <1>3, <2>1 DEF NewJob, JobStates, JobPcs
<1>5. j \in FanOuts => Truth(r) /\ Phase(r.pc, r)
  BY <1>2, <1>3 DEF Truth, Phase
<1> QED
  BY <1>1, <1>2, <1>4, <1>5 DEF JobOK

LEMMA RerunKeeps ==
    ASSUME MigrationsInv, NEW j \in Jobs, Rerun(j)
    PROVE  MigrationsInv'
<1>1. PICK r : r = NewJob(job[j].release, HomeOf(j), job[j].mode)
  OBVIOUS
<1>2. job' = [job EXCEPT ![j] = r] /\ UNCHANGED <<recorded, ran>>
  BY <1>1 DEF Rerun
<1>3. job[j].release \in Releases /\ job[j].mode \in {"dry-run", "apply"}
  BY DEF MigrationsInv, JobStates
<1>4. r \in JobStates /\ JobOK(j, r)
  BY <1>1, <1>3, NewJobOK
<1> QED
  BY <1>2, <1>4, QuietStep

\* The steps that only lead on to another one.
LEMMA LedOn ==
    ASSUME MigrationsInv, NEW j \in Jobs,
           \/ LookUpTenant(j) \/ CreateDatabase(j) \/ RecordDbName(j)
           \/ StartFanOut(j) \/ EndFanOut(j) \/ Die(j)
    PROVE  MigrationsInv'
<1>1. /\ JobOK(j, job[j]) /\ job[j].pc \in JobPcs
      /\ {"create", "refused", "status", "done", "before", "dead"} \subseteq JobPcs
  BY DEF MigrationsInv, JobStates, JobPcs
<1>2. CASE LookUpTenant(j)
  <2>1. j \notin FanOuts /\ UNCHANGED <<recorded, ran>>
        /\ (Goto(j, "create") \/ Goto(j, "refused"))
    BY <1>2, DistinctAssumption DEF LookUpTenant
  <2> QED
    BY <1>1, <2>1, GotoKeeps
<1>3. CASE CreateDatabase(j)
  <2>1. UNCHANGED <<recorded, ran>> /\ Goto(j, "status") /\ job[j].pc = "create"
    BY <1>3 DEF CreateDatabase
  <2>2. j \notin FanOuts
    BY <1>1, <2>1 DEF JobOK, Phase
  <2> QED
    BY <1>1, <2>1, <2>2, GotoKeeps
<1>4. CASE RecordDbName(j)
  <2>1. j \notin FanOuts /\ UNCHANGED <<recorded, ran>> /\ Goto(j, "done")
    BY <1>4, DistinctAssumption DEF RecordDbName
  <2> QED
    BY <1>1, <2>1, GotoKeeps
<1>5. CASE StartFanOut(j)
  <2>1. UNCHANGED <<recorded, ran>> /\ Goto(j, "before") /\ job[j].pc = "start"
    BY <1>5 DEF StartFanOut
  <2>2. j \in FanOuts => Phase("before", job[j])
    BY <1>1, <2>1 DEF JobOK, Phase
  <2> QED
    BY <1>1, <2>1, <2>2, GotoKeeps
<1>6. CASE EndFanOut(j)
  <2>1. /\ UNCHANGED <<recorded, ran>> /\ Goto(j, "done")
        /\ job[j].pc = "next" /\ job[j].queue = {}
    BY <1>6 DEF EndFanOut
  <2>2. j \in FanOuts => Phase("done", job[j])
    BY <1>1, <2>1 DEF JobOK, Phase
  <2> QED
    BY <1>1, <2>1, <2>2, GotoKeeps
<1>7. CASE Die(j)
  <2>1. UNCHANGED <<recorded, ran>> /\ Goto(j, "dead")
    BY <1>7 DEF Die
  <2>2. j \in FanOuts => Phase("dead", job[j])
    BY <1>1 DEF JobOK, Phase
  <2> QED
    BY <1>1, <2>1, <2>2, GotoKeeps
<1> QED
  BY <1>2, <1>3, <1>4, <1>5, <1>6, <1>7

-----------------------------------------------------------------------------
(* What the migrations promise.                                            *)

LEMMA MigrationsInvInit == Init => MigrationsInv
<1> SUFFICES ASSUME MigrationsInit
             PROVE  MigrationsInv
  BY DEF Init
<1>1. PICK migrated :
          recorded = [db \in Databases |-> IF db \in migrated THEN Recorded(Installed, db) ELSE None]
  BY DEF MigrationsInit
<1>2. ran = [db \in Databases |-> [f \in Files |-> IF recorded[db][f] = NotApplied THEN 0 ELSE 1]]
  BY DEF MigrationsInit
<1>3. DOMAIN recorded = Databases /\ \A db \in Databases : DOMAIN recorded[db] = Files
  BY <1>1 DEF Recorded, None
<1>4. ran \in [Databases -> [Files -> Nat]]
  BY <1>2
<1>5. \A db \in Databases, f \in Files : ran[db][f] = IF recorded[db][f] = NotApplied THEN 0 ELSE 1
  BY <1>2
<1>6. ASSUME NEW db \in Databases, NEW f \in Files, recorded[db][f] # NotApplied,
             NEW g \in 1..f - 1
      PROVE  recorded[db][g] # NotApplied
  <2>1. PICK files : files = Ships(Installed, db)
    OBVIOUS
  <2>2. f \in DOMAIN files /\ recorded[db] = Recorded(Installed, db)
    BY <1>1, <1>6, <2>1 DEF Recorded, None
  <2>3. /\ Len(files) \in Nat /\ DOMAIN files = 1..Len(files) /\ DOMAIN files \subseteq Files
        /\ \A h \in DOMAIN files : files[h] # NotApplied
    BY <2>1, ShipsFiles, InstalledAssumption
  <2>4. g \in DOMAIN files
    BY <2>2, <2>3
  <2>5. recorded[db][g] = files[g]
    BY <2>1, <2>2, <2>3, <2>4 DEF Recorded
  <2> QED
    BY <2>3, <2>4, <2>5
<1>7. RecordedOK
  BY <1>3, <1>4, <1>5, <1>6 DEF RecordedOK, EachFileOnceInOrder
<1>8. PICK release \in [Jobs -> Releases], mode \in [FanOuts -> {"dry-run", "apply"}] :
          job = [j \in Jobs |-> NewJob(release[j], HomeOf(j), IF j \in FanOuts THEN mode[j] ELSE "apply")]
  BY DEF MigrationsInit
<1>9. ASSUME NEW j \in Jobs
      PROVE  job[j] \in JobStates /\ JobOK(j, job[j])
  <2>1. PICK m : m = IF j \in FanOuts THEN mode[j] ELSE "apply"
    OBVIOUS
  <2>2. m \in {"dry-run", "apply"} /\ release[j] \in Releases
    BY <2>1
  <2>3. job[j] = NewJob(release[j], HomeOf(j), m)
    BY <1>8, <2>1
  <2> QED
    BY <2>2, <2>3, NewJobOK
<1>10. DOMAIN job = Jobs /\ job = [j \in Jobs |-> job[j]]
  BY <1>8
<1> QED
  BY <1>7, <1>9, <1>10 DEF MigrationsInv

LEMMA MigrationsInvNext == MigrationsInv /\ [Next]_vars => MigrationsInv'
<1> SUFFICES ASSUME MigrationsInv, [Next]_vars
             PROVE  MigrationsInv'
  OBVIOUS
<1>1. CASE UNCHANGED migrationVars
  <2>1. UNCHANGED <<recorded, ran, job>>
    BY <1>1 DEF migrationVars
  <2> QED
    BY <2>1 DEF MigrationsInv, RecordedOK, EachFileOnceInOrder, JobOK, TodoOK, Truth, Phase, UpToDate
<1>2. CASE MigrationsNext
  <2>1. PICK j \in Jobs : JobStep(j) \/ FileFails(j) \/ ListFails(j) \/ Die(j) \/ Rerun(j)
    BY <1>2 DEF MigrationsNext
  <2>2. CASE JobStep(j)
    BY <2>2, ReadStatusKeeps, ApplyFileKeeps, FindAppliedKeeps, StatusBeforeKeeps,
       AllAppliedKeeps, StatusAfterKeeps, ListTenantsKeeps, NextTenantKeeps, LedOn DEF JobStep
  <2>3. CASE FileFails(j)
    BY <2>3, ThrownKeeps DEF FileFails
  <2> QED
    BY <2>1, <2>2, <2>3, ListFailsKeeps, RerunKeeps, LedOn
<1> QED
  BY <1>1, <1>2 DEF Next, vars

\* Every file of a migration is committed at most once in every database and in
\* the order of the files, and recorded exactly if it is, whatever runs of
\* provisioning and the fan-out race, die or fail (apply.ts applyMigrations).
THEOREM FilesOnceInOrder == Spec => []EachFileOnceInOrder
<1>1. MigrationsInv => EachFileOnceInOrder
  BY DEF MigrationsInv, RecordedOK
<1> QED
  BY <1>1, MigrationsInvInit, MigrationsInvNext, PTL DEF Spec

\* A fan-out that has ended has reported on every tenant it listed, and every
\* database that it migrated and calls "ok" is up to date and stays so, whatever
\* others commit (fanout.ts runFanout, migrateOneDatabase).
THEOREM FanOutTellsTheTruth == Spec => []ReportsAreTrue
<1>1. MigrationsInv => ReportsAreTrue
  <2> SUFFICES ASSUME MigrationsInv, NEW j \in FanOuts, job[j].pc = "done"
               PROVE  /\ \A t \in job[j].listed : job[j].report[t].status # "none"
                      /\ job[j].mode = "apply" =>
                            \A db \in job[j].listed \union {ControlPlane} :
                                LET files == Ships(job[j].release, db) IN
                                job[j].report[db].status = "ok" =>
                                    Pending(db, files) = {} /\ ~Mismatch(db, files)
    BY DEF ReportsAreTrue
  <2>1. job[j] \in JobStates /\ Truth(job[j]) /\ Phase("done", job[j])
    BY DEF MigrationsInv, Jobs, JobOK
  <2>2. job[j].release \in Releases /\ job[j].listed \union {ControlPlane} \subseteq Databases
    BY <2>1 DEF JobStates, Databases
  <2>3. \A t \in job[j].listed : job[j].report[t].status # "none"
    BY <2>1 DEF Phase
  <2>4. ASSUME job[j].mode = "apply", NEW db \in job[j].listed \union {ControlPlane},
               job[j].report[db].status = "ok"
        PROVE  /\ Pending(db, Ships(job[j].release, db)) = {}
               /\ ~Mismatch(db, Ships(job[j].release, db))
    <3>1. UpToDate(job[j].release, db)
      BY <2>1, <2>4 DEF Truth
    <3> QED
      BY <2>2, <3>1, UpToDateMeans
  <2> QED
    BY <2>3, <2>4
<1> QED
  BY <1>1, MigrationsInvInit, MigrationsInvNext, PTL DEF Spec
=============================================================================
