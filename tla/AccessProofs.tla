---------------------------- MODULE AccessProofs -----------------------------
(***************************************************************************)
(* Theorems about who is let in: sessions, the request gateway and the     *)
(* second factor, for every number of callers, principals, sessions,       *)
(* routes, hosts, keys and verifications, and all session policies.        *)
(*                                                                         *)
(* A hash that has left the store never returns to it.  All that a call    *)
(* concludes after an await rests on that: a rotation owns the hash it     *)
(* deleted, and a token that was dead when a request came is dead when the *)
(* gateway reads it.                                                       *)
(***************************************************************************)
EXTENDS MCAccess, FiniteSetTheorems, SequenceTheorems, WellFoundedInduction, TLAPS

-----------------------------------------------------------------------------
(* The shape of the state.                                                 *)

Stored ==
    [present : {TRUE}, principal : Principals, expiresAtMs : Nat, idleTimeoutMs : Nat,
     lastSeenAtMs : Nat]

Reads == Stored \cup {Null}

Realms == {p.realm : p \in Principals} \cup {"none"}

TenantIds ==
    {p.tenantId : p \in Principals} \cup {TenantOfHost[host] : host \in Hosts} \cup {NoTenant}

Pcs ==
    {"idle", "got", "verified", "replace", "done", "tenant", "auth", "gotKey", "entitlement",
     "limit", "served", "refused"}

CallStates ==
    [op : {"none", "rotate", "revoke", "request"}, pc : Pcs, hash : 0..MaxSessions,
     realm : Realms, tenant : TenantIds, read : Reads, dead : BOOLEAN]

Credentials ==
    [kind : {"absent", "garbled", "session", "key"}, key : Keys \cup {None}, signedAt : Nat,
     valid : BOOLEAN]

Requests ==
    [route : Routes \cup {None}, credential : Credentials, revoked : BOOLEAN,
     realm : Realms \cup {None, "machine"}, dead : BOOLEAN]

-----------------------------------------------------------------------------
(* The invariant.                                                          *)

\* Only hashes that were issued are live, and heirs come from issued hashes.
StoreOK ==
    /\ clock \in Nat
    /\ heirOf \in Seq(0..MaxSessions) /\ Len(heirOf) <= MaxSessions
    /\ records \in [Hashes -> Reads]
    /\ Live \subseteq 1..Len(heirOf)
    /\ \A g \in 1..Len(heirOf) : heirOf[g] <= Len(heirOf)
    /\ OneHeir

\* A rotation that has deleted its record is the only one to have done so.
RotateOK(c) ==
    call[c].pc = "replace" =>
        /\ call[c].hash \in Gone
        /\ \A g \in 1..Len(heirOf) : heirOf[g] # call[c].hash
        /\ \A d \in Callers : call[d].pc = "replace" /\ call[d].hash = call[c].hash => d = c

\* What a call has read, and what it may conclude from it.
CallOK(c) ==
    /\ call[c].hash <= Len(heirOf)
    /\ call[c].read.present => call[c].hash # NoHash
    /\ call[c].op \in {"rotate", "revoke"} => call[c].hash # NoHash
    /\ call[c].op = "request" /\ call[c].dead => call[c].hash \in Gone /\ ~call[c].read.present
    /\ call[c].pc = "verified" => Matches(call[c])
    /\ call[c].pc = "replace" => call[c].op = "rotate" /\ call[c].read.present
    /\ call[c].pc \in {"tenant", "auth", "gotKey", "entitlement", "limit"} =>
          call[c].op = "request"

\* The scope of a request that has passed the realm gate.
InScope(c) ==
    /\ request[c].realm = None =>
          request[c].route.realms = None /\ request[c].route.allowAnonymous
    /\ request[c].route.realms # None => request[c].realm \in request[c].route.realms
    /\ request[c].credential.kind = "session" =>
          /\ ~call[c].dead
          /\ call[c].read.principal.tenantId \in {NoTenant, call[c].tenant}
          /\ call[c].read.principal.realm = request[c].realm
    /\ request[c].credential.kind = "key" =>
          /\ ~request[c].dead
          /\ KeyTenant[request[c].credential.key] = call[c].tenant

RequestOK(c) ==
    call[c].op = "request" =>
        /\ request[c].route \in Routes
        /\ request[c].dead => request[c].credential.key \in revokedKeys
        /\ call[c].pc \in {"got", "verified"} => request[c].credential.kind = "session"
        /\ call[c].pc = "gotKey" =>
              request[c].credential.kind = "key" /\ (request[c].dead => request[c].revoked)
        /\ call[c].pc \in {"entitlement", "limit"} => InScope(c)
        /\ call[c].pc = "served" => request[c].route.skipGateway \/ InScope(c)

TypesOK ==
    /\ call \in [Callers -> CallStates]
    /\ request \in [Callers -> Requests]
    /\ revokedKeys \subseteq Keys

IInv ==
    /\ StoreOK /\ TypesOK
    /\ \A c \in Callers : RotateOK(c) /\ CallOK(c) /\ RequestOK(c)

-----------------------------------------------------------------------------
(* The store: a step deletes records, or issues the next hash.             *)

Shrinks ==
    /\ heirOf' = heirOf
    /\ records' \in [Hashes -> Reads]
    /\ Live' \subseteq Live

Grows(from) ==
    /\ Len(heirOf) < MaxSessions
    /\ heirOf' = Append(heirOf, from)
    /\ records' \in [Hashes -> Reads]
    /\ Live' = Live \cup {Len(heirOf) + 1}

\* An ancestor that may still have an heir.
Childless(from) ==
    /\ from \in Gone
    /\ \A g \in 1..Len(heirOf) : heirOf[g] # from

LEMMA NullIsNotStored == Null.present = FALSE /\ Null \in Reads /\ \A r \in Stored : r.present
  BY DEF Null, Reads, Stored

LEMMA RecordStored ==
    ASSUME StoreOK, NEW p \in Principals
    PROVE  Record(p) \in Stored
  BY PoliciesAssumption DEF StoreOK, Record, Stored

LEMMA PutGrows ==
    ASSUME StoreOK, NEW p \in Principals, NEW from, Put(p, from)
    PROVE  Grows(from)
<1>1. Len(heirOf) + 1 \in Hashes /\ Len(heirOf) < MaxSessions
  BY SessionBoundsAssumption DEF StoreOK, Put, Hashes
<1>2. Record(p) \in Stored /\ Record(p).present
  BY RecordStored DEF Stored
<1>3. records' = [records EXCEPT ![Len(heirOf) + 1] = Record(p)]
  BY DEF Put
<1> HIDE DEF Record
<1>4. records' \in [Hashes -> Reads]
  BY <1>2, <1>3 DEF StoreOK, Reads
<1>5. \A h \in Hashes : records'[h].present <=> records[h].present \/ h = Len(heirOf) + 1
  BY <1>1, <1>2, <1>3 DEF StoreOK
<1> QED
  BY <1>1, <1>4, <1>5 DEF Grows, Put, Live

LEMMA DeleteShrinks ==
    ASSUME StoreOK, NEW hash, Delete(hash), heirOf' = heirOf
    PROVE  /\ Shrinks
           /\ hash \notin Live'
<1>1. records' \in [Hashes -> Reads]
  BY NullIsNotStored DEF StoreOK, Delete
<1>2. \A h \in Hashes : records'[h] = records[h] \/ records'[h] = Null
  BY DEF StoreOK, Delete
<1>3. hash \in Hashes => records'[hash] = Null
  BY DEF StoreOK, Delete
<1> QED
  BY <1>1, <1>2, <1>3, NullIsNotStored DEF Shrinks, Live

LEMMA TouchShrinks ==
    ASSUME StoreOK, NEW hash, NEW read, Touch(hash, read), heirOf' = heirOf
    PROVE  Shrinks
<1>1. ASSUME NEW r \in Reads, r.present
      PROVE  [r EXCEPT !.lastSeenAtMs = clock] \in Reads
  <2>1. r \in Stored
    BY <1>1, NullIsNotStored DEF Reads
  <2> QED
    BY <2>1 DEF Stored, Reads, StoreOK
<1>2. \A h \in Hashes :
        \/ records'[h] = records[h]
        \/ records[h].present /\ records'[h] = [records[h] EXCEPT !.lastSeenAtMs = clock]
  BY DEF StoreOK, Touch
<1>3. \A h \in Hashes : records'[h] \in Reads /\ (records'[h].present => records[h].present)
  BY <1>1, <1>2 DEF StoreOK
<1>4. records' \in [Hashes -> Reads]
  BY <1>3 DEF StoreOK, Touch
<1> QED
  BY <1>3, <1>4 DEF Shrinks, Live

LEMMA DeleteAllShrinks ==
    ASSUME StoreOK, NEW p, DeleteAllForUser(p), heirOf' = heirOf
    PROVE  Shrinks
<1>1. \A h \in Hashes : records'[h] = records[h] \/ records'[h] = Null
  BY DEF DeleteAllForUser
<1>2. records' \in [Hashes -> Reads]
  BY NullIsNotStored DEF StoreOK, DeleteAllForUser
<1> QED
  BY <1>1, <1>2, NullIsNotStored DEF Shrinks, Live

\* The heart of it: whatever shrinks or grows the store, what is gone stays
\* gone, and no hash gets a second heir or one while it lives.
LEMMA StoreKept ==
    ASSUME StoreOK, clock' \in Nat,
           Shrinks \/ Grows(NoHash) \/ \E from : Childless(from) /\ Grows(from)
    PROVE  /\ StoreOK'
           /\ Gone \subseteq Gone'
           /\ Len(heirOf) <= Len(heirOf')
<1>1. CASE Shrinks
  <2>1. heirOf' = heirOf /\ Live' \subseteq Live /\ records' \in [Hashes -> Reads]
    BY <1>1 DEF Shrinks
  <2>2. OneHeir'
    BY <2>1 DEF StoreOK, OneHeir
  <2>3. Gone \subseteq Gone'
    BY <2>1 DEF Gone
  <2> HIDE DEF Live
  <2> QED
    BY <2>1, <2>2, <2>3 DEF StoreOK
<1>2. ASSUME NEW from, from = NoHash \/ Childless(from), Grows(from)
      PROVE  /\ StoreOK'
             /\ Gone \subseteq Gone'
             /\ Len(heirOf) <= Len(heirOf')
  <2>1. /\ heirOf \in Seq(0..MaxSessions) /\ Len(heirOf) \in Nat /\ MaxSessions \in Nat
        /\ Live \subseteq 1..Len(heirOf)
    BY SessionBoundsAssumption DEF StoreOK
  <2>2. from \in 0..Len(heirOf) /\ from \in 0..MaxSessions
    BY <1>2, <2>1 DEF NoHash, Childless, Gone, Grows
  <2>3. /\ heirOf' \in Seq(0..MaxSessions) /\ Len(heirOf') = Len(heirOf) + 1
        /\ heirOf'[Len(heirOf) + 1] = from
        /\ \A g \in 1..Len(heirOf) : heirOf'[g] = heirOf[g]
    BY <1>2, <2>1, <2>2 DEF Grows
  <2>4. Gone \subseteq Gone'
    BY <1>2, <2>1, <2>3 DEF Grows, Gone
  <2>5. OneHeir'
    <3>2. \A g, h \in 1..Len(heirOf) :
            heirOf[g] # NoHash => heirOf[g] \notin Live /\ (heirOf[g] = heirOf[h] => g = h)
      BY DEF StoreOK, OneHeir
    <3>3. \A g \in 1..Len(heirOf) : heirOf[g] <= Len(heirOf) /\ heirOf[g] \in Nat
      BY <2>1 DEF StoreOK
    <3>1. ASSUME NEW g \in 1..Len(heirOf'), NEW h \in 1..Len(heirOf'), heirOf'[g] # NoHash
          PROVE  heirOf'[g] \notin Live' /\ (heirOf'[g] = heirOf'[h] => g = h)
      <4>1. CASE g = Len(heirOf) + 1
        <5>1. heirOf'[g] = from /\ from \in Gone /\ Childless(from)
          BY <1>2, <2>3, <3>1, <4>1 DEF Childless
        <5>2. from \notin Live'
          BY <1>2, <2>1, <5>1 DEF Gone, Grows
        <5>3. \A i \in 1..Len(heirOf) : heirOf'[i] # from
          BY <2>3, <5>1 DEF Childless
        <5> QED
          BY <2>1, <2>3, <3>1, <4>1, <5>1, <5>2, <5>3
      <4>2. CASE g \in 1..Len(heirOf)
        <5>1. heirOf'[g] = heirOf[g] /\ heirOf[g] \notin Live /\ heirOf[g] <= Len(heirOf)
          BY <2>3, <3>1, <3>2, <3>3, <4>2
        <5>2. heirOf'[g] \notin Live'
          BY <1>2, <2>1, <3>3, <4>2, <5>1 DEF Grows
        <5>3. h = Len(heirOf) + 1 => heirOf'[g] # heirOf'[h]
          BY <1>2, <2>3, <3>1, <4>2, <5>1 DEF Childless
        <5>4. h \in 1..Len(heirOf) => (heirOf'[g] = heirOf'[h] => g = h)
          BY <2>3, <3>1, <3>2, <4>2, <5>1
        <5> QED
          BY <2>1, <2>3, <5>2, <5>3, <5>4
      <4> QED
        BY <2>1, <2>3, <4>1, <4>2
    <3> QED
      BY <3>1 DEF OneHeir
  <2>6. Live' \subseteq 1..Len(heirOf')
    <3>1. Live' = Live \cup {Len(heirOf) + 1}
      BY <1>2 DEF Grows
    <3>2. \A n \in Nat : 1..n \cup {n + 1} \subseteq 1..(n + 1)
      OBVIOUS
    <3>3. Live' \subseteq 1..(Len(heirOf) + 1)
      BY <2>1, <3>1, <3>2
    <3> QED
      BY <2>3, <3>3
  <2>7. \A g \in 1..Len(heirOf') : heirOf'[g] <= Len(heirOf')
    <3>1. ASSUME NEW g \in 1..Len(heirOf')
          PROVE  heirOf'[g] <= Len(heirOf')
      <4>1. CASE g = Len(heirOf) + 1
        BY <2>1, <2>2, <2>3, <4>1
      <4>2. CASE g \in 1..Len(heirOf)
        <5>1. heirOf'[g] = heirOf[g] /\ heirOf[g] <= Len(heirOf) /\ heirOf[g] \in Nat
          BY <2>1, <2>3, <4>2 DEF StoreOK
        <5> QED
          BY <2>1, <2>3, <5>1
      <4> QED
        BY <2>1, <2>3, <4>1, <4>2
    <3> QED
      BY <3>1
  <2>8. Len(heirOf') <= MaxSessions /\ records' \in [Hashes -> Reads]
    BY <1>2, <2>1, <2>3 DEF Grows
  <2> QED
    BY <2>1, <2>3, <2>4, <2>5, <2>6, <2>7, <2>8 DEF StoreOK
<1> QED
  BY <1>1, <1>2

-----------------------------------------------------------------------------
(* The calls.                                                              *)

\* What a call knows survives every step of the others.
LEMMA OthersKept ==
    ASSUME IInv, NEW d \in Callers, call'[d] = call[d], request'[d] = request[d],
           revokedKeys \subseteq revokedKeys', Gone \subseteq Gone', StoreOK',
           Len(heirOf) <= Len(heirOf')
    PROVE  CallOK(d)' /\ RequestOK(d)'
<1>1. CallOK(d) /\ RequestOK(d) /\ call[d].hash \in Nat
  BY DEF IInv, TypesOK, CallStates
<1>2. Len(heirOf) \in Nat /\ Len(heirOf') \in Nat
  BY DEF IInv, StoreOK
<1>3. Matches(call'[d]) <=> Matches(call[d])
  OBVIOUS
<1>4. CallOK(d)'
  BY <1>1, <1>2, <1>3 DEF CallOK
<1>5. InScope(d)' <=> InScope(d)
  BY DEF InScope
<1>6. RequestOK(d)'
  BY <1>1, <1>5 DEF RequestOK
<1> QED
  BY <1>4, <1>6

\* A step that no call takes.
LEMMA WorldStep ==
    ASSUME IInv, clock' \in Nat, Shrinks \/ Grows(NoHash), call' = call, request' = request,
           revokedKeys \subseteq revokedKeys', revokedKeys' \subseteq Keys
    PROVE  IInv'
<1>1. StoreOK' /\ Gone \subseteq Gone' /\ Len(heirOf) <= Len(heirOf')
  BY StoreKept DEF IInv
<1>2. \A d \in Callers : CallOK(d)' /\ RequestOK(d)'
  BY <1>1, OthersKept
<1>3. ASSUME NEW d \in Callers, call[d].pc = "replace"
      PROVE  RotateOK(d)'
  <2>1. /\ call[d].hash \in Gone /\ call[d].hash # NoHash
        /\ \A g \in 1..Len(heirOf) : heirOf[g] # call[d].hash
        /\ \A e \in Callers : call[e].pc = "replace" /\ call[e].hash = call[d].hash => e = d
    BY <1>3 DEF IInv, RotateOK, CallOK
  <2>2. \A g \in 1..Len(heirOf') : heirOf'[g] # call[d].hash
    <3>1. CASE Shrinks
      BY <2>1, <3>1 DEF Shrinks
    <3>2. CASE Grows(NoHash)
      BY <2>1, <3>2 DEF Grows, IInv, StoreOK
    <3> QED
      BY <3>1, <3>2
  <2> QED
    BY <1>1, <2>1, <2>2 DEF RotateOK
<1>4. \A d \in Callers : RotateOK(d)'
  BY <1>3 DEF RotateOK
<1>5. TypesOK'
  BY DEF IInv, TypesOK
<1> QED
  BY <1>1, <1>2, <1>4, <1>5 DEF IInv

\* A step of one call: it may delete the record it will replace, and later
\* replace it.
LEMMA CallStep ==
    ASSUME IInv, NEW c \in Callers, clock' = clock, revokedKeys' = revokedKeys,
           Shrinks \/ (call[c].pc = "replace" /\ Grows(call[c].hash)),
           TypesOK',
           \A d \in Callers \ {c} : call'[d] = call[d] /\ request'[d] = request[d],
           call'[c].pc = "replace" =>
              Shrinks /\ call'[c].hash \in Live /\ call'[c].hash \notin Live',
           CallOK(c)', RequestOK(c)'
    PROVE  IInv'
<1>1. call[c].pc = "replace" => Childless(call[c].hash)
  BY DEF IInv, RotateOK, Childless
<1>2. StoreOK' /\ Gone \subseteq Gone' /\ Len(heirOf) <= Len(heirOf')
  BY <1>1, StoreKept DEF IInv, StoreOK
<1>3. \A d \in Callers : CallOK(d)' /\ RequestOK(d)'
  BY <1>2, OthersKept
<1>4. heirOf \in Seq(0..MaxSessions)
  BY DEF IInv, StoreOK
<1>5. ASSUME NEW d \in Callers \ {c}, call'[d].pc = "replace"
      PROVE  RotateOK(d)'
  <2>1. call'[d] = call[d]
    OBVIOUS
  <2>2. /\ call[d].hash \in Gone
        /\ \A g \in 1..Len(heirOf) : heirOf[g] # call[d].hash
        /\ \A e \in Callers : call[e].pc = "replace" /\ call[e].hash = call[d].hash => e = d
    BY <1>5, <2>1 DEF IInv, RotateOK
  <2>3. \A g \in 1..Len(heirOf') : heirOf'[g] # call[d].hash
    <3>1. CASE Shrinks
      BY <2>2, <3>1 DEF Shrinks
    <3>2. CASE call[c].pc = "replace" /\ Grows(call[c].hash)
      <4>1. call[c].hash # call[d].hash
        BY <1>5, <2>2, <3>2
      <4>2. heirOf' = Append(heirOf, call[c].hash)
        BY <3>2 DEF Grows
      <4> QED
        BY <1>4, <2>2, <4>1, <4>2
    <3> QED
      BY <3>1, <3>2
  <2>4. call'[c].pc = "replace" => call'[c].hash # call[d].hash
    BY <2>2 DEF Gone
  <2>5. \A e \in Callers : call'[e].pc = "replace" /\ call'[e].hash = call[d].hash => e = d
    BY <2>1, <2>2, <2>4
  <2> QED
    BY <1>2, <2>1, <2>2, <2>3, <2>5 DEF RotateOK
<1>6. ASSUME call'[c].pc = "replace"
      PROVE  RotateOK(c)'
  <2>1. heirOf' = heirOf /\ call'[c].hash \in Live /\ call'[c].hash \notin Live'
    BY <1>6 DEF Shrinks
  <2>2. call'[c].hash \in Gone'
    BY <2>1 DEF Gone, IInv, StoreOK
  <2>3. \A g \in 1..Len(heirOf') : heirOf'[g] # call'[c].hash
    <3>1. ASSUME NEW g \in 1..Len(heirOf), heirOf[g] = call'[c].hash
          PROVE  FALSE
      <4>1. call'[c].hash # NoHash
        BY <2>1 DEF Live, Hashes, NoHash
      <4> QED
        BY <2>1, <3>1, <4>1 DEF IInv, StoreOK, OneHeir
    <3> QED
      BY <2>1, <3>1
  <2>4. ASSUME NEW e \in Callers \ {c}, call'[e].pc = "replace"
        PROVE  call'[e].hash # call'[c].hash
    <3>1. call[e].hash \in Gone /\ call'[e] = call[e]
      BY <2>4 DEF IInv, RotateOK
    <3> QED
      BY <2>1, <3>1 DEF Gone
  <2> QED
    BY <2>2, <2>3, <2>4 DEF RotateOK
<1> QED
  BY <1>2, <1>3, <1>5, <1>6 DEF IInv, RotateOK

-----------------------------------------------------------------------------
(* What a step leaves of the call that takes it.                           *)

LEMMA Advanced ==
    ASSUME TypesOK, NEW c \in Callers, NEW pc \in Pcs, Advance(c, pc)
    PROVE  /\ call' \in [Callers -> CallStates]
           /\ call'[c].pc = pc
           /\ call'[c].op = call[c].op /\ call'[c].hash = call[c].hash
           /\ call'[c].realm = call[c].realm /\ call'[c].tenant = call[c].tenant
           /\ call'[c].read = call[c].read /\ call'[c].dead = call[c].dead
           /\ \A d \in Callers \ {c} : call'[d] = call[d]
<1>1. call[c] \in CallStates /\ call' = [call EXCEPT ![c].pc = pc] /\ DOMAIN call = Callers
  BY DEF TypesOK, Advance
<1>2. [call[c] EXCEPT !.pc = pc] \in CallStates
  BY <1>1 DEF CallStates
<1>3. call'[c] = [call[c] EXCEPT !.pc = pc]
  BY <1>1
<1>4. call' \in [Callers -> CallStates]
  BY <1>1, <1>2 DEF TypesOK
<1>5. /\ call'[c].pc = pc
      /\ call'[c].op = call[c].op /\ call'[c].hash = call[c].hash
      /\ call'[c].realm = call[c].realm /\ call'[c].tenant = call[c].tenant
      /\ call'[c].read = call[c].read /\ call'[c].dead = call[c].dead
  BY <1>1, <1>3 DEF CallStates
<1> QED
  BY <1>1, <1>4, <1>5

\* Where a call goes that keeps what it has read.
LEMMA Moved ==
    ASSUME IInv, NEW c \in Callers, NEW pc \in Pcs, Advance(c, pc), Shrinks,
           pc = "verified" => Matches(call[c]),
           pc = "replace" => call[c].op = "rotate" /\ call[c].read.present,
           pc \in {"tenant", "auth", "gotKey", "entitlement", "limit"} => call[c].op = "request"
    PROVE  CallOK(c)'
<1>1. /\ call'[c].pc = pc
      /\ call'[c].op = call[c].op /\ call'[c].hash = call[c].hash
      /\ call'[c].realm = call[c].realm /\ call'[c].tenant = call[c].tenant
      /\ call'[c].read = call[c].read /\ call'[c].dead = call[c].dead
  BY Advanced DEF IInv
<1>2. Matches(call'[c]) <=> Matches(call[c])
  BY <1>1 DEF Matches
<1>3. heirOf' = heirOf /\ Gone \subseteq Gone'
  BY DEF Shrinks, Gone
<1>4. CallOK(c)
  BY DEF IInv
<1> QED
  BY <1>1, <1>2, <1>3, <1>4 DEF CallOK

LEMMA IdleTyped == Idle \in CallStates
  BY SessionBoundsAssumption, NullIsNotStored
  DEF Idle, CallStates, Realms, TenantIds, Pcs, NoHash

\* A call that is over.
LEMMA Ended ==
    ASSUME IInv, NEW c \in Callers, call' = [call EXCEPT ![c] = Idle], Len(heirOf') \in Nat
    PROVE  /\ call' \in [Callers -> CallStates]
           /\ call'[c].pc = "idle"
           /\ CallOK(c)' /\ RequestOK(c)'
           /\ \A d \in Callers \ {c} : call'[d] = call[d]
<1>1. DOMAIN call = Callers
  BY DEF IInv, TypesOK
<1>2. call'[c] = Idle /\ call' \in [Callers -> CallStates]
  BY IdleTyped DEF IInv, TypesOK
<1>3. CallOK(c)' /\ RequestOK(c)' /\ call'[c].pc = "idle"
  BY <1>2, NullIsNotStored DEF CallOK, RequestOK, Idle, NoHash
<1> QED
  BY <1>1, <1>2, <1>3

LEMMA NothingShrinks ==
    ASSUME StoreOK, records' = records, heirOf' = heirOf
    PROVE  Shrinks
  BY DEF StoreOK, Shrinks, Live

-----------------------------------------------------------------------------
(* The steps of the session operations.                                    *)

\* A call that goes on to its next await.
LEMMA SessionMoves ==
    ASSUME IInv, NEW c \in Callers, NEW pc \in {"refused", "done", "verified", "replace"},
           Advance(c, pc), Shrinks, UNCHANGED <<clock, request, revokedKeys>>,
           pc = "verified" => Matches(call[c]) /\ call[c].pc = "got",
           pc = "replace" =>
              /\ call[c].op = "rotate" /\ call[c].read.present
              /\ call[c].hash \in Live /\ call[c].hash \notin Live'
    PROVE  IInv'
<1>1. pc \in Pcs
  BY DEF Pcs
<1>2. /\ call' \in [Callers -> CallStates]
      /\ call'[c].pc = pc /\ call'[c].op = call[c].op /\ call'[c].hash = call[c].hash
      /\ \A d \in Callers \ {c} : call'[d] = call[d]
  BY <1>1, Advanced DEF IInv
<1>3. CallOK(c)'
  BY <1>1, Moved
<1>4. TypesOK'
  BY <1>2 DEF IInv, TypesOK
<1>5. RequestOK(c)'
  BY <1>2 DEF IInv, RequestOK
<1> QED
  BY <1>2, <1>3, <1>4, <1>5, CallStep

\* A call that has its answer.
LEMMA SessionAnswers ==
    ASSUME IInv, NEW c \in Callers, NEW pc \in {"refused", "done"}, Answer(c, pc),
           Shrinks \/ (call[c].pc = "replace" /\ Grows(call[c].hash)),
           UNCHANGED <<clock, request, revokedKeys>>
    PROVE  IInv'
<1>1. CASE call[c].op = "request"
  <2>1. Advance(c, pc) /\ Shrinks
    BY <1>1 DEF Answer, IInv, CallOK
  <2> QED
    BY <2>1, SessionMoves
<1>2. CASE call[c].op # "request"
  <2>1. call' = [call EXCEPT ![c] = Idle]
    BY <1>2 DEF Answer
  <2>2. heirOf \in Seq(0..MaxSessions) /\ call[c].hash \in 0..MaxSessions
    BY DEF IInv, StoreOK, TypesOK, CallStates
  <2>3. Len(heirOf') \in Nat
    BY <2>2 DEF Shrinks, Grows
  <2>4. /\ call' \in [Callers -> CallStates]
        /\ call'[c].pc = "idle"
        /\ CallOK(c)' /\ RequestOK(c)'
        /\ \A d \in Callers \ {c} : call'[d] = call[d]
    BY <2>1, <2>3, Ended
  <2>5. TypesOK'
    BY <2>4 DEF IInv, TypesOK
  <2> QED
    BY <2>4, <2>5, CallStep
<1> QED
  BY <1>1, <1>2

LEMMA GetReads ==
    ASSUME StoreOK, NEW hash \in 0..MaxSessions
    PROVE  /\ Get(hash) \in Reads
           /\ Get(hash).present => hash \in Live
  BY NullIsNotStored, SessionBoundsAssumption DEF StoreOK, Get, NoHash, Live, Hashes

LEMMA SessionsStepKeeps ==
    ASSUME IInv, NEW c \in Callers, SessionsStep(c), UNCHANGED <<request, revokedKeys>>
    PROVE  IInv'
<1>0. StoreOK /\ CallOK(c) /\ call[c].hash \in 0..MaxSessions /\ DOMAIN call = Callers
  BY DEF IInv, TypesOK, CallStates
<1>1. CASE BeginRotateOrRevoke(c)
  <2>1. PICK op \in {"rotate", "revoke"}, h \in Presented \ {NoHash}, p \in Principals :
          Begin(c, op, "got", h, p.realm, p.tenantId, Get(h))
    BY <1>1 DEF BeginRotateOrRevoke
  <2>2. UNCHANGED <<clock, records, heirOf>>
    BY <1>1 DEF BeginRotateOrRevoke
  <2>3. h \in 0..MaxSessions /\ h <= Len(heirOf) /\ h # NoHash
    BY <1>0, SessionBoundsAssumption DEF Presented, StoreOK
  <2>4. Get(h) \in Reads
    BY <1>0, <2>3, GetReads
  <2> DEFINE k == [op |-> op, pc |-> "got", hash |-> h, realm |-> p.realm,
                   tenant |-> p.tenantId, read |-> Get(h), dead |-> FALSE]
  <2>5. call' = [call EXCEPT ![c] = k]
    BY <2>1 DEF Begin
  <2>6. k \in CallStates
    BY <2>3, <2>4 DEF CallStates, Realms, TenantIds, Pcs
  <2>7. k.pc = "got" /\ k.hash = h /\ k.op # "request" /\ k.op # "none"
    OBVIOUS
  <2> HIDE DEF k
  <2>8. call'[c] = k /\ \A d \in Callers \ {c} : call'[d] = call[d]
    BY <1>0, <2>5
  <2>9. CallOK(c)' /\ RequestOK(c)'
    BY <2>2, <2>3, <2>7, <2>8 DEF CallOK, RequestOK
  <2>10. TypesOK'
    BY <2>5, <2>6 DEF IInv, TypesOK
  <2>11. Shrinks
    BY <1>0, <2>2, NothingShrinks
  <2> QED
    BY <2>2, <2>7, <2>8, <2>9, <2>10, <2>11, CallStep
<1>2. CASE VerifyRefuses(c)
  <2>1. Answer(c, "refused") /\ UNCHANGED <<clock, records, heirOf>>
    BY <1>2 DEF VerifyRefuses
  <2>2. Shrinks
    BY <1>0, <2>1, NothingShrinks
  <2> QED
    BY <2>1, <2>2, SessionAnswers
<1>3. CASE VerifyExpires(c)
  <2>1. Answer(c, "refused") /\ Delete(call[c].hash) /\ UNCHANGED <<clock, heirOf>>
    BY <1>3 DEF VerifyExpires
  <2>2. Shrinks
    BY <1>0, <2>1, DeleteShrinks
  <2> QED
    BY <2>1, <2>2, SessionAnswers
<1>4. CASE VerifyTouches(c)
  <2>1. /\ Touch(call[c].hash, call[c].read) /\ UNCHANGED <<clock, heirOf>>
        /\ Matches(call[c]) /\ call[c].pc = "got"
        /\ Advance(c, "verified") \/ Answer(c, "refused")
    BY <1>4 DEF VerifyTouches, Verifying
  <2>2. Shrinks
    BY <1>0, <2>1, TouchShrinks
  <2>3. CASE Advance(c, "verified")
    BY <2>1, <2>2, <2>3, SessionMoves
  <2>4. CASE Answer(c, "refused")
    BY <2>1, <2>2, <2>4, SessionAnswers
  <2> QED
    BY <2>1, <2>3, <2>4
<1>5. CASE RotateDeletes(c)
  <2>1. /\ call[c].op = "rotate" /\ call[c].pc = "verified"
        /\ Delete(call[c].hash) /\ UNCHANGED <<clock, heirOf>>
    BY <1>5 DEF RotateDeletes
  <2>2. Shrinks /\ call[c].hash \notin Live'
    BY <1>0, <2>1, DeleteShrinks
  <2>3. CASE records[call[c].hash].present
    <3>1. Advance(c, "replace")
      BY <1>5, <2>3 DEF RotateDeletes, IsOurs
    <3>2. call[c].read.present /\ call[c].hash \in Live
      BY <1>0, <2>1, <2>3, SessionBoundsAssumption
      DEF CallOK, Matches, Live, Hashes, NoHash
    <3> QED
      BY <2>1, <2>2, <3>1, <3>2, SessionMoves
  <2>4. CASE ~records[call[c].hash].present
    <3>1. Answer(c, "refused")
      BY <1>5, <2>4 DEF RotateDeletes, IsOurs
    <3> QED
      BY <2>1, <2>2, <3>1, SessionAnswers
  <2> QED
    BY <2>3, <2>4
<1>6. CASE RotateIssues(c)
  <2>1. /\ call[c].pc = "replace" /\ Put(call[c].read.principal, call[c].hash)
        /\ Answer(c, "done") /\ UNCHANGED clock
    BY <1>6 DEF RotateIssues
  <2>2. call[c].read \in Stored
    BY <1>0, <2>1, NullIsNotStored DEF IInv, TypesOK, CallStates, Reads, CallOK
  <2>3. call[c].read.principal \in Principals
    BY <2>2 DEF Stored
  <2>4. Grows(call[c].hash)
    BY <1>0, <2>1, <2>3, PutGrows
  <2> QED
    BY <2>1, <2>4, SessionAnswers
<1>7. CASE Revoke(c)
  <2>1. Answer(c, "done") /\ UNCHANGED <<clock, heirOf>>
    BY <1>7 DEF Revoke
  <2>2. CASE Delete(call[c].hash)
    <3>1. Shrinks
      BY <1>0, <2>1, <2>2, DeleteShrinks
    <3> QED
      BY <2>1, <3>1, SessionAnswers
  <2>3. CASE UNCHANGED records
    <3>1. Shrinks
      BY <1>0, <2>1, <2>3, NothingShrinks
    <3> QED
      BY <2>1, <3>1, SessionAnswers
  <2> QED
    BY <1>7, <2>2, <2>3 DEF Revoke
<1> QED
  BY <1>1, <1>2, <1>3, <1>4, <1>5, <1>6, <1>7 DEF SessionsStep

-----------------------------------------------------------------------------
(* The steps of the gateway, which leave the sessions as they are.         *)

\* A stage of one request.
LEMMA StageKept ==
    ASSUME IInv, NEW c \in Callers, UNCHANGED outside, TypesOK',
           \A d \in Callers \ {c} : call'[d] = call[d] /\ request'[d] = request[d],
           call'[c].pc # "replace", CallOK(c)', RequestOK(c)'
    PROVE  IInv'
<1>1. Shrinks
  BY NothingShrinks DEF IInv, outside
<1> QED
  BY <1>1, CallStep DEF outside

LEMMA GotoKept ==
    ASSUME IInv, NEW c \in Callers, call[c].op = "request",
           NEW pc \in {"auth", "refused", "limit", "served"}, Goto(c, pc),
           pc \in {"limit", "served"} => InScope(c)
    PROVE  IInv'
<1>1. pc \in Pcs /\ Advance(c, pc) /\ UNCHANGED <<outside, request>>
  BY DEF Pcs, Goto
<1>2. /\ call' \in [Callers -> CallStates]
      /\ call'[c].pc = pc
      /\ call'[c].op = call[c].op /\ call'[c].hash = call[c].hash
      /\ call'[c].realm = call[c].realm /\ call'[c].tenant = call[c].tenant
      /\ call'[c].read = call[c].read /\ call'[c].dead = call[c].dead
      /\ \A d \in Callers \ {c} : call'[d] = call[d]
  BY <1>1, Advanced DEF IInv
<1>3. Shrinks
  BY <1>1, NothingShrinks DEF IInv, outside
<1>4. CallOK(c)'
  BY <1>1, <1>3, Moved
<1>5. TypesOK'
  BY <1>1, <1>2 DEF IInv, TypesOK, outside
<1>6. pc \in {"limit", "served"} => InScope(c)'
  BY <1>1, <1>2 DEF InScope
<1>7. RequestOK(c)'
  BY <1>1, <1>2, <1>6 DEF IInv, RequestOK, outside
<1> QED
  BY <1>1, <1>2, <1>4, <1>5, <1>7, StageKept

\* Behind the realm gate a request is in scope, if its credential is.
LEMMA GateKept ==
    ASSUME IInv, NEW c \in Callers, call[c].op = "request",
           NEW realm \in Realms \cup {None, "machine"}, Gate(c, realm),
           request[c].credential.kind = "session" =>
              /\ ~call[c].dead
              /\ call[c].read.principal.tenantId \in {NoTenant, call[c].tenant}
              /\ call[c].read.principal.realm = realm,
           request[c].credential.kind = "key" =>
              /\ ~request[c].dead
              /\ KeyTenant[request[c].credential.key] = call[c].tenant
    PROVE  IInv'
<1> DEFINE pc == IF Admitted(c, realm) THEN "entitlement" ELSE "refused"
<1>1. pc \in Pcs /\ Advance(c, pc) /\ UNCHANGED outside
  BY DEF Pcs, Gate
<1>2. pc \in {"entitlement", "refused"} /\ (pc = "entitlement" => Admitted(c, realm))
  OBVIOUS
<1>3. request' = [request EXCEPT ![c].realm = realm]
  BY DEF Gate
<1> HIDE DEF pc
<1>4. /\ call' \in [Callers -> CallStates]
      /\ call'[c].pc = pc
      /\ call'[c].op = call[c].op /\ call'[c].hash = call[c].hash
      /\ call'[c].realm = call[c].realm /\ call'[c].tenant = call[c].tenant
      /\ call'[c].read = call[c].read /\ call'[c].dead = call[c].dead
      /\ \A d \in Callers \ {c} : call'[d] = call[d]
  BY <1>1, Advanced DEF IInv
<1>5. request \in [Callers -> Requests] /\ request[c] \in Requests
  BY DEF IInv, TypesOK
<1>6. request'[c] = [request[c] EXCEPT !.realm = realm]
  BY <1>3, <1>5
<1>7. /\ request'[c] \in Requests /\ request'[c].realm = realm
      /\ request'[c].route = request[c].route
      /\ request'[c].credential = request[c].credential
      /\ request'[c].dead = request[c].dead
  BY <1>5, <1>6 DEF Requests
<1>8. /\ request' \in [Callers -> Requests]
      /\ \A d \in Callers \ {c} : request'[d] = request[d]
  BY <1>3, <1>5, <1>7
<1>9. Shrinks
  BY <1>1, NothingShrinks DEF IInv, outside
<1>10. CallOK(c)'
  <2>1. pc \notin {"verified", "replace"}
    BY <1>2
  <2> QED
    BY <1>1, <1>9, <2>1, Moved
<1>11. TypesOK'
  BY <1>1, <1>4, <1>8 DEF IInv, TypesOK, outside
<1>12. request[c].route \in Routes
  BY DEF IInv, RequestOK
<1>13. ASSUME Admitted(c, realm)
       PROVE  /\ realm = None =>
                    request[c].route.realms = None /\ request[c].route.allowAnonymous
              /\ request[c].route.realms # None => realm \in request[c].route.realms
  <2>1. CASE request[c].route.realms = None
    BY <1>13, <2>1 DEF Admitted
  <2>2. CASE request[c].route.realms # None
    <3>1. realm \in request[c].route.realms
      BY <1>13, <2>2 DEF Admitted
    <3> QED
      BY <1>12, <2>2, <3>1, RoutesAssumption
  <2> QED
    BY <2>1, <2>2
<1>14. pc = "entitlement" => InScope(c)'
  BY <1>2, <1>4, <1>7, <1>13 DEF InScope
<1>15. RequestOK(c)'
  BY <1>1, <1>2, <1>4, <1>7, <1>14 DEF IInv, RequestOK, outside
<1> QED
  BY <1>1, <1>2, <1>4, <1>8, <1>10, <1>11, <1>15, StageKept

LEMMA NoRequestTyped == NoRequest \in Requests
  BY DEF NoRequest, NoCredential, Requests, Credentials

LEMMA ArriveKeeps ==
    ASSUME IInv, NEW c \in Callers, Arrive(c)
    PROVE  IInv'
<1>1. PICK route \in Routes, host \in Hosts,
          credential \in SessionCredentials \cup KeyCredentials \cup OtherCredentials,
          hash \in Presented, p \in Principals :
        /\ Begin(c, "request", IF route.skipGateway THEN "served" ELSE "tenant", hash,
                 p.realm, TenantOfHost[host], Null)
        /\ request' = [request EXCEPT ![c] =
              [NoRequest EXCEPT !.route = route, !.credential = credential,
                                !.dead = credential.key \in revokedKeys]]
        /\ UNCHANGED outside
  BY DEF Arrive
<1>2. /\ StoreOK /\ call \in [Callers -> CallStates] /\ request \in [Callers -> Requests]
      /\ hash \in 0..MaxSessions /\ hash <= Len(heirOf)
  BY SessionBoundsAssumption DEF IInv, TypesOK, StoreOK, Presented
<1>3. credential \in Credentials
  <2>1. ASSUME NEW s, s \in SessionCredentials \/ s \in OtherCredentials
        PROVE  s \in Credentials
    <3>1. s.kind \in {"absent", "garbled", "session", "key"}
      BY <2>1 DEF SessionCredentials, OtherCredentials
    <3>2. s.key = None /\ s.signedAt = 0
      BY <2>1 DEF SessionCredentials, OtherCredentials
    <3>3. s.valid \in BOOLEAN
      BY <2>1 DEF SessionCredentials, OtherCredentials
    <3>4. s = [kind |-> s.kind, key |-> s.key, signedAt |-> s.signedAt, valid |-> s.valid]
      BY <2>1 DEF SessionCredentials, OtherCredentials
    <3> QED
      <4>1. s.key \in Keys \cup {None} /\ s.signedAt \in Nat
        BY <3>2
      <4> QED
        BY <3>1, <3>3, <3>4, <4>1 DEF Credentials
  <2>2. 0..clock \subseteq Nat
    BY <1>2 DEF StoreOK
  <2>3. KeyCredentials \subseteq Credentials
    BY <2>2 DEF Credentials, KeyCredentials
  <2> QED
    BY <2>1, <2>3
<1> DEFINE pc == IF route.skipGateway THEN "served" ELSE "tenant"
<1>4. pc \in {"served", "tenant"} /\ (pc = "served" => route.skipGateway)
  OBVIOUS
<1> HIDE DEF pc
<1> DEFINE k == [op |-> "request", pc |-> pc, hash |-> hash, realm |-> p.realm,
                 tenant |-> TenantOfHost[host], read |-> Null, dead |-> hash \in Gone]
           dead == credential.key \in revokedKeys
           r == [NoRequest EXCEPT !.route = route, !.credential = credential, !.dead = dead]
<1>5. call' = [call EXCEPT ![c] = k]
  BY <1>1 DEF Begin, pc
<1>6. request' = [request EXCEPT ![c] = r]
  BY <1>1
<1>7. k \in CallStates
  BY <1>2, <1>4, NullIsNotStored DEF CallStates, Realms, TenantIds, Pcs
<1>8. /\ k.pc = pc /\ k.op = "request" /\ k.hash = hash /\ ~k.read.present
      /\ (k.dead => hash \in Gone)
  BY NullIsNotStored
<1>9. NoRequest \in Requests
  BY NoRequestTyped
<1>10. dead \in BOOLEAN /\ (dead => credential.key \in revokedKeys)
  OBVIOUS
<1> HIDE DEF dead
<1>11. r \in Requests /\ r.route = route /\ r.credential = credential /\ r.dead = dead
  BY <1>3, <1>9, <1>10 DEF Requests
<1> HIDE DEF k, r
<1>12. call'[c] = k /\ request'[c] = r
  BY <1>2, <1>5, <1>6
<1>13. \A d \in Callers \ {c} : call'[d] = call[d] /\ request'[d] = request[d]
  BY <1>2, <1>5, <1>6
<1>14. TypesOK'
  BY <1>1, <1>2, <1>5, <1>6, <1>7, <1>11 DEF IInv, TypesOK, outside
<1>15. heirOf' = heirOf /\ Gone' = Gone /\ revokedKeys' = revokedKeys
  BY <1>1 DEF outside, Gone, Live
<1>16. CallOK(c)'
  BY <1>2, <1>4, <1>8, <1>12, <1>15 DEF CallOK
<1>17. RequestOK(c)'
  BY <1>4, <1>8, <1>10, <1>11, <1>12, <1>15 DEF RequestOK
<1> QED
  BY <1>1, <1>4, <1>8, <1>12, <1>13, <1>14, <1>16, <1>17, StageKept

\* What the gateway reads of a token that was dead when it came is nothing.
LEMMA AuthenticateSessionKeeps ==
    ASSUME IInv, NEW c \in Callers, AuthenticateSession(c)
    PROVE  IInv'
<1>1. /\ call[c].pc = "auth" /\ request[c].credential.kind = "session"
      /\ call' = [call EXCEPT ![c].pc = "got", ![c].read = Get(call[c].hash)]
      /\ UNCHANGED outside /\ request' = request
  BY DEF AuthenticateSession
<1>2. /\ StoreOK /\ CallOK(c) /\ RequestOK(c) /\ call[c] \in CallStates
      /\ call \in [Callers -> CallStates] /\ call[c].hash \in 0..MaxSessions
  BY DEF IInv, TypesOK, CallStates
<1>3. /\ Get(call[c].hash) \in Reads
      /\ Get(call[c].hash).present => call[c].hash \in Live
  BY <1>2, GetReads
<1> DEFINE read == Get(call[c].hash)
<1> HIDE DEF read
<1>4. call'[c] = [call[c] EXCEPT !.pc = "got", !.read = read]
  BY <1>1, <1>2 DEF read
<1>5. /\ call'[c] \in CallStates
      /\ call'[c].pc = "got" /\ call'[c].read = read
      /\ call'[c].op = call[c].op /\ call'[c].hash = call[c].hash
      /\ call'[c].dead = call[c].dead
  BY <1>2, <1>3, <1>4 DEF CallStates, Pcs, read
<1>6. call' \in [Callers -> CallStates] /\ \A d \in Callers \ {c} : call'[d] = call[d]
  BY <1>1, <1>2, <1>5
<1>7. TypesOK'
  BY <1>1, <1>6 DEF IInv, TypesOK, outside
<1>8. heirOf' = heirOf /\ Gone' = Gone /\ revokedKeys' = revokedKeys
  BY <1>1 DEF outside, Gone, Live
<1>9. call[c].op = "request" /\ (call[c].dead => call[c].hash \in Gone)
  BY <1>1, <1>2 DEF CallOK
<1>10. read.present => call[c].hash # NoHash /\ call[c].hash \notin Gone
  BY <1>3 DEF read, Gone, Live, Hashes, NoHash
<1>11. CallOK(c)'
  BY <1>2, <1>5, <1>8, <1>9, <1>10 DEF CallOK
<1>12. RequestOK(c)'
  BY <1>1, <1>2, <1>5, <1>8, <1>9 DEF RequestOK
<1> QED
  BY <1>1, <1>5, <1>6, <1>7, <1>11, <1>12, StageKept

\* A key that was revoked when the request came is found revoked.
LEMMA AuthenticateKeyKeeps ==
    ASSUME IInv, NEW c \in Callers, AuthenticateKey(c)
    PROVE  IInv'
<1> DEFINE revoked == request[c].credential.key \in revokedKeys
<1>1. /\ call[c].pc = "auth" /\ request[c].credential.kind = "key"
      /\ Advance(c, "gotKey") /\ UNCHANGED outside
      /\ request' = [request EXCEPT ![c].revoked = revoked]
  BY DEF AuthenticateKey
<1>2. "gotKey" \in Pcs /\ call[c].op = "request" /\ RequestOK(c)
  BY <1>1 DEF Pcs, IInv, CallOK
<1>3. /\ call' \in [Callers -> CallStates]
      /\ call'[c].pc = "gotKey" /\ call'[c].op = call[c].op
      /\ \A d \in Callers \ {c} : call'[d] = call[d]
  BY <1>1, <1>2, Advanced DEF IInv
<1>4. request \in [Callers -> Requests] /\ request[c] \in Requests /\ revoked \in BOOLEAN
  BY DEF IInv, TypesOK
<1>5. request[c].dead => revoked
  BY <1>2 DEF RequestOK
<1> HIDE DEF revoked
<1>6. request'[c] = [request[c] EXCEPT !.revoked = revoked]
  BY <1>1, <1>4
<1>7. /\ request'[c] \in Requests /\ request'[c].revoked = revoked
      /\ request'[c].route = request[c].route
      /\ request'[c].credential = request[c].credential
      /\ request'[c].dead = request[c].dead
  BY <1>4, <1>6 DEF Requests
<1>8. /\ request' \in [Callers -> Requests]
      /\ \A d \in Callers \ {c} : request'[d] = request[d]
  BY <1>1, <1>4, <1>7
<1>9. Shrinks
  BY <1>1, NothingShrinks DEF IInv, outside
<1>10. CallOK(c)'
  BY <1>1, <1>2, <1>9, Moved
<1>11. TypesOK'
  BY <1>1, <1>3, <1>8 DEF IInv, TypesOK, outside
<1>12. RequestOK(c)'
  BY <1>1, <1>2, <1>3, <1>5, <1>7 DEF RequestOK, outside
<1> QED
  BY <1>1, <1>3, <1>8, <1>10, <1>11, <1>12, StageKept

LEMMA GatewayStepKeeps ==
    ASSUME IInv, NEW c \in Callers, GatewayStep(c)
    PROVE  IInv'
<1>0. CallOK(c) /\ RequestOK(c) /\ call[c] \in CallStates
  BY DEF IInv, TypesOK
<1>1. CASE Arrive(c)
  BY <1>1, ArriveKeeps
<1>2. CASE ResolveTenant(c)
  <2>1. call[c].op = "request" /\ (Goto(c, "refused") \/ Goto(c, "auth"))
    BY <1>0, <1>2 DEF ResolveTenant, CallOK
  <2> QED
    BY <2>1, GotoKept
<1>3. CASE AuthenticateNobody(c)
  <2>1. call[c].op = "request"
    BY <1>0, <1>3 DEF AuthenticateNobody, CallOK
  <2>2. CASE request[c].credential.kind = "absent" /\ Gate(c, None)
    BY <2>1, <2>2, GateKept
  <2>3. CASE Goto(c, "refused")
    BY <2>1, <2>3, GotoKept
  <2> QED
    BY <1>3, <2>2, <2>3 DEF AuthenticateNobody
<1>4. CASE AuthenticateSession(c)
  BY <1>4, AuthenticateSessionKeeps
<1>5. CASE AuthenticateKey(c)
  BY <1>5, AuthenticateKeyKeeps
<1>6. CASE SessionVerified(c)
  <2>1. call[c].op = "request" /\ call[c].pc = "verified" /\ Gate(c, call[c].realm)
    BY <1>6 DEF SessionVerified
  <2>2. call[c].realm \in Realms \cup {None, "machine"}
    BY <1>0 DEF CallStates
  <2>3. request[c].credential.kind = "session" /\ Matches(call[c]) /\ ~call[c].dead
    BY <1>0, <2>1 DEF CallOK, RequestOK, Matches
  <2> QED
    BY <2>1, <2>2, <2>3, GateKept DEF Matches
<1>7. CASE VerifyKey(c)
  <2>1. call[c].op = "request" /\ call[c].pc = "gotKey"
    BY <1>0, <1>7 DEF VerifyKey, CallOK
  <2>2. request[c].credential.kind = "key" /\ (request[c].dead => request[c].revoked)
    BY <1>0, <2>1 DEF RequestOK
  <2>3. CASE KeyAccepted(c) /\ Gate(c, "machine")
    BY <2>1, <2>2, <2>3, GateKept DEF KeyAccepted
  <2>4. CASE Goto(c, "refused")
    BY <2>1, <2>4, GotoKept
  <2> QED
    BY <1>7, <2>3, <2>4 DEF VerifyKey
<1>8. CASE Entitle(c)
  <2>1. call[c].op = "request" /\ call[c].pc = "entitlement"
    BY <1>0, <1>8 DEF Entitle, CallOK
  <2>2. Goto(c, "limit") \/ Goto(c, "refused")
    BY <1>8 DEF Entitle
  <2>3. InScope(c)
    BY <1>0, <2>1 DEF RequestOK
  <2> QED
    BY <2>1, <2>2, <2>3, GotoKept
<1>9. CASE Limit(c)
  <2>1. call[c].op = "request" /\ Goto(c, "served") /\ InScope(c)
    BY <1>0, <1>9 DEF Limit, CallOK, RequestOK
  <2> QED
    BY <2>1, GotoKept
<1>10. CASE Respond(c)
  <2>1. /\ call' = [call EXCEPT ![c] = Idle] /\ UNCHANGED outside
        /\ request' = [request EXCEPT ![c] = NoRequest]
    BY <1>10 DEF Respond
  <2>2. Len(heirOf') \in Nat
    BY <2>1 DEF IInv, StoreOK, outside
  <2>3. /\ call' \in [Callers -> CallStates] /\ call'[c].pc = "idle"
        /\ CallOK(c)' /\ RequestOK(c)'
        /\ \A d \in Callers \ {c} : call'[d] = call[d]
    BY <2>1, <2>2, Ended
  <2>4. NoRequest \in Requests
    BY NoRequestTyped
  <2>5. /\ request' \in [Callers -> Requests]
        /\ \A d \in Callers \ {c} : request'[d] = request[d]
    BY <2>1, <2>4 DEF IInv, TypesOK
  <2>6. TypesOK'
    BY <2>1, <2>3, <2>5 DEF IInv, TypesOK, outside
  <2> QED
    BY <2>1, <2>3, <2>5, <2>6, StageKept
<1> QED
  BY <1>1, <1>2, <1>3, <1>4, <1>5, <1>6, <1>7, <1>8, <1>9, <1>10 DEF GatewayStep

-----------------------------------------------------------------------------
(* The theorems.                                                           *)

LEMMA InitInv == Init => IInv
<1> SUFFICES ASSUME Init
             PROVE  IInv
  OBVIOUS
<1>1. /\ clock = 0 /\ records = [h \in Hashes |-> Null] /\ heirOf = <<>>
      /\ call = [c \in Callers |-> Idle] /\ revokedKeys = {}
      /\ request = [c \in Callers |-> NoRequest]
  BY DEF Init, SessionsInit
<1>2. StoreOK
  <2>1. Live = {}
    BY <1>1, NullIsNotStored DEF Live
  <2>2. records \in [Hashes -> Reads]
    BY <1>1, NullIsNotStored
  <2>3. heirOf \in Seq(0..MaxSessions) /\ Len(heirOf) = 0 /\ MaxSessions \in Nat
    BY <1>1, SessionBoundsAssumption
  <2> QED
    BY <1>1, <2>1, <2>2, <2>3 DEF StoreOK, OneHeir
<1>3. NoRequest \in Requests
  BY NoRequestTyped
<1>4. TypesOK
  BY <1>1, <1>3, IdleTyped DEF TypesOK
<1>5. ASSUME NEW c \in Callers
      PROVE  RotateOK(c) /\ CallOK(c) /\ RequestOK(c)
  <2>1. call[c] = Idle /\ Len(heirOf) = 0
    BY <1>1
  <2> QED
    BY <2>1, NullIsNotStored DEF RotateOK, CallOK, RequestOK, Idle, NoHash
<1> QED
  BY <1>2, <1>4, <1>5 DEF IInv

LEMMA NextKeeps == IInv /\ [Next]_vars => IInv'
<1> SUFFICES ASSUME IInv, [Next]_vars
             PROVE  IInv'
  OBVIOUS
<1>0. StoreOK /\ clock \in Nat /\ revokedKeys \subseteq Keys
  BY DEF IInv, StoreOK, TypesOK
<1>1. ASSUME SessionsNext, UNCHANGED <<request, revokedKeys>>
      PROVE  IInv'
  <2>1. CASE Tick
    <3>1. clock' \in Nat /\ UNCHANGED <<records, heirOf, call>>
      BY <1>0, <2>1 DEF Tick
    <3> QED
      BY <1>0, <1>1, <3>1, NothingShrinks, WorldStep
  <2>2. ASSUME NEW p \in Principals, Issue(p)
        PROVE  IInv'
    <3>1. Put(p, NoHash) /\ UNCHANGED <<clock, call>>
      BY <2>2 DEF Issue
    <3>2. Grows(NoHash)
      BY <1>0, <3>1, PutGrows
    <3> QED
      BY <1>0, <1>1, <3>1, <3>2, WorldStep
  <2>3. ASSUME NEW p \in Principals, RevokeAllForUser(p)
        PROVE  IInv'
    <3>1. DeleteAllForUser(p) /\ UNCHANGED <<clock, heirOf, call>>
      BY <2>3 DEF RevokeAllForUser
    <3> QED
      BY <1>0, <1>1, <3>1, DeleteAllShrinks, WorldStep
  <2>4. ASSUME NEW h \in Live, RevokeByHash(h)
        PROVE  IInv'
    <3>1. Delete(h) /\ UNCHANGED <<clock, heirOf, call>>
      BY <2>4 DEF RevokeByHash
    <3>2. Shrinks
      BY <1>0, <3>1, DeleteShrinks
    <3> QED
      BY <1>0, <1>1, <3>1, <3>2, WorldStep
  <2>5. ASSUME NEW c \in Callers, SessionsStep(c)
        PROVE  IInv'
    BY <1>1, <2>5, SessionsStepKeeps
  <2> QED
    BY <1>1, <2>1, <2>2, <2>3, <2>4, <2>5 DEF SessionsNext
<1>2. ASSUME NEW k \in Keys, RevokeKey(k)
      PROVE  IInv'
  <2>1. revokedKeys' = revokedKeys \cup {k} /\ UNCHANGED <<clock, records, heirOf, call, request>>
    BY <1>2 DEF RevokeKey
  <2> QED
    BY <1>0, <2>1, NothingShrinks, WorldStep
<1>3. CASE UNCHANGED vars
  BY <1>0, <1>3, NothingShrinks, WorldStep DEF vars
<1> QED
  BY <1>1, <1>2, <1>3, GatewayStepKeeps DEF Next

LEMMA AlwaysIInv == Spec => []IInv
<1> QED
  BY InitInv, NextKeeps, PTL DEF Spec

\* "Revocation must win every race": however many rotations of one session
\* overlap, with each other, with requests and with revocations, it has at
\* most one heir, and none while it lives (session-service.ts, rotate over
\* SessionStore.delete).
THEOREM RotationHasOneHeir == Spec => []OneHeir
<1>1. IInv => OneHeir
  BY DEF IInv, StoreOK
<1> QED
  BY <1>1, AlwaysIInv, PTL

LEMMA StoreStep ==
    ASSUME IInv, [Next]_vars
    PROVE  Gone \subseteq Gone'
<1>1. StoreOK
  BY DEF IInv
<1>2. ASSUME Shrinks
      PROVE  Gone \subseteq Gone'
  BY <1>2 DEF Shrinks, Gone
<1>3. ASSUME NEW from, Grows(from)
      PROVE  Gone \subseteq Gone'
  <2>1. /\ heirOf \in Seq(0..MaxSessions) /\ Len(heirOf) \in Nat
        /\ Len(heirOf') = Len(heirOf) + 1 /\ Live' = Live \cup {Len(heirOf) + 1}
    BY <1>1, <1>3 DEF StoreOK, Grows
  <2> QED
    BY <2>1 DEF Gone
<1>4. ASSUME UNCHANGED <<records, heirOf>>
      PROVE  Gone \subseteq Gone'
  BY <1>4 DEF Gone, Live
<1>5. ASSUME NEW c \in Callers, SessionsStep(c)
      PROVE  Gone \subseteq Gone'
  <2>1. CASE BeginRotateOrRevoke(c) \/ VerifyRefuses(c)
    BY <1>4, <2>1 DEF BeginRotateOrRevoke, VerifyRefuses
  <2>2. CASE VerifyExpires(c) \/ RotateDeletes(c)
    BY <1>1, <1>2, <2>2, DeleteShrinks DEF VerifyExpires, RotateDeletes
  <2>3. CASE VerifyTouches(c)
    BY <1>1, <1>2, <2>3, TouchShrinks DEF VerifyTouches
  <2>4. CASE RotateIssues(c)
    <3>1. call[c] \in CallStates /\ call[c].read.present
      BY <2>4 DEF IInv, TypesOK, CallOK, RotateIssues
    <3>2. call[c].read.principal \in Principals
      BY <3>1, NullIsNotStored DEF CallStates, Reads, Stored
    <3>3. Grows(call[c].hash)
      BY <1>1, <2>4, <3>2, PutGrows DEF RotateIssues
    <3> QED
      BY <1>3, <3>3
  <2>5. CASE Revoke(c)
    <3>1. heirOf' = heirOf /\ (Delete(call[c].hash) \/ UNCHANGED records)
      BY <2>5 DEF Revoke
    <3> QED
      BY <1>1, <1>2, <1>4, <3>1, DeleteShrinks
  <2> QED
    BY <1>5, <2>1, <2>2, <2>3, <2>4, <2>5 DEF SessionsStep
<1>6. CASE SessionsNext
  <2>1. CASE Tick
    BY <1>4, <2>1 DEF Tick
  <2>2. ASSUME NEW p \in Principals, Issue(p)
        PROVE  Gone \subseteq Gone'
    BY <1>1, <1>3, <2>2, PutGrows DEF Issue
  <2>3. ASSUME NEW p \in Principals, RevokeAllForUser(p)
        PROVE  Gone \subseteq Gone'
    BY <1>1, <1>2, <2>3, DeleteAllShrinks DEF RevokeAllForUser
  <2>4. ASSUME NEW h \in Live, RevokeByHash(h)
        PROVE  Gone \subseteq Gone'
    BY <1>1, <1>2, <2>4, DeleteShrinks DEF RevokeByHash
  <2> QED
    BY <1>5, <1>6, <2>1, <2>2, <2>3, <2>4 DEF SessionsNext
<1>7. ASSUME NEW c \in Callers, GatewayStep(c)
      PROVE  Gone \subseteq Gone'
  <2>1. UNCHANGED outside
    BY <1>7 DEF GatewayStep, Arrive, ResolveTenant, AuthenticateNobody, AuthenticateSession,
                AuthenticateKey, SessionVerified, VerifyKey, Entitle, Limit, Respond, Goto, Gate
  <2> QED
    BY <1>4, <2>1 DEF outside
<1>8. ASSUME NEW k \in Keys, RevokeKey(k)
      PROVE  Gone \subseteq Gone'
  BY <1>4, <1>8 DEF RevokeKey
<1>9. CASE UNCHANGED vars
  BY <1>4, <1>9 DEF vars
<1> QED
  BY <1>6, <1>7, <1>8, <1>9 DEF Next

\* A session that was deleted, by expiry, rotation or revocation, is in the
\* store of no later state, whatever the calls that had read it go on to do
\* (SessionStore.touch and delete, which are conditional on the record).
THEOREM RevocationWins == Spec => DeletedStaysDeleted
<1>1. IInv /\ [Next]_vars => [Gone \subseteq Gone']_sessionVars
  BY StoreStep
<1> QED
  BY <1>1, AlwaysIInv, PTL DEF Spec, DeletedStaysDeleted

\* Whoever a handler is run for has a realm its route admits, verified with a
\* credential that was still good when the request came and that is of the
\* tenant whose host was asked, or above tenancy (gateway/stages.ts).
THEOREM OnlyServedInScope == Spec => []ServedInScope
<1>1. IInv => ServedInScope
  BY DEF IInv, RequestOK, ServedInScope, InScope
<1> QED
  BY <1>1, AlwaysIInv, PTL

-----------------------------------------------------------------------------
(* Base32: what is encoded is decoded to itself, whatever its length.      *)
(* The decoder is fed what the encoder has given out after each byte; it    *)
(* then lacks of the bytes just the bits that the encoder still keeps.      *)

LEMMA LeastElement ==
    ASSUME NEW S, S \subseteq Nat, S # {}
    PROVE  \E n \in S : \A m \in S : n <= m
<1>1. PICK n \in S : \A m \in S : ~(<<m, n>> \in OpToRel(<, Nat))
  BY NatLessThanWellFounded, WFMin
<1>2. ASSUME NEW m \in S PROVE n <= m
  <2>1. m < n => <<m, n>> \in OpToRel(<, Nat)
    BY DEF OpToRel
  <2>2. ~(m < n)
    BY <1>1, <2>1
  <2> QED
    BY <2>2
<1> QED
  BY <1>2

LEMMA Induct ==
    ASSUME NEW S, 0 \in S, \A n \in Nat : n \in S => n + 1 \in S
    PROVE  \A n \in Nat : n \in S
<1> SUFFICES ASSUME NEW m \in Nat, m \notin S PROVE FALSE
  OBVIOUS
<1> DEFINE Bad == {n \in Nat : n \notin S}
<1>1. PICK n \in Bad : \A k \in Bad : n <= k
  BY LeastElement
<1>2. n \in Nat /\ n \notin S /\ n # 0
  BY <1>1
<1>3. n - 1 \in Nat /\ n - 1 \in S
  BY <1>1, <1>2
<1>4. (n - 1) + 1 \in S
  BY <1>3
<1> QED
  BY <1>2, <1>4

\* A function on the subsets of a finite set may be defined by what it does
\* with one element and with the rest: the recursion of the folds.
Unfolds(g, S, base, pick, step) ==
    \A s \in SUBSET S :
        g[s] = IF s = {} THEN base ELSE step[<<pick[s], g[s \ {pick[s]}]>>]

LEMMA RecursionOnSubsets ==
    ASSUME NEW S, IsFiniteSet(S), NEW V, NEW base \in V,
           NEW pick, \A s \in SUBSET S : s # {} => pick[s] \in s,
           NEW step \in [S \X V -> V]
    PROVE  \E g \in [SUBSET S -> V] : Unfolds(g, S, base, pick, step)
<1> DEFINE Small(m) == {s \in SUBSET S : Cardinality(s) <= m}
           Solves(g, m) == /\ g \in [Small(m) -> V]
                           /\ \A s \in Small(m) :
                                 g[s] = IF s = {} THEN base ELSE step[<<pick[s], g[s \ {pick[s]}]>>]
           Solved == {m \in Nat : \E g \in [Small(m) -> V] : Solves(g, m)}
<1>1. \A s \in SUBSET S : IsFiniteSet(s) /\ Cardinality(s) \in Nat /\ Cardinality(s) <= Cardinality(S)
  BY FS_Subset, FS_CardinalityType
<1>2. \A s \in SUBSET S : s # {} => s \ {pick[s]} \in SUBSET S
                                    /\ Cardinality(s \ {pick[s]}) = Cardinality(s) - 1
  BY <1>1, FS_RemoveElement
<1>3. 0 \in Solved
  <2>1. \A s \in Small(0) : s = {}
    BY <1>1, FS_EmptySet
  <2> DEFINE g == [s \in Small(0) |-> base]
  <2>2. Solves(g, 0)
    BY <2>1
  <2> QED
    BY <2>2
<1>4. ASSUME NEW m \in Nat, m \in Solved PROVE m + 1 \in Solved
  <2>1. PICK g \in [Small(m) -> V] : Solves(g, m)
    BY <1>4
  <2> DEFINE h == [s \in Small(m + 1) |->
                      IF s \in Small(m) THEN g[s] ELSE step[<<pick[s], g[s \ {pick[s]}]>>]]
  <2>2. ASSUME NEW s \in Small(m + 1), s # {}
        PROVE  s \ {pick[s]} \in Small(m) /\ pick[s] \in S
    BY <1>1, <1>2, <2>2
  <2>3. ASSUME NEW s \in Small(m + 1), s \notin Small(m) PROVE s # {}
    BY <1>1, <2>3, FS_EmptySet
  <2>4. Small(m) \subseteq Small(m + 1)
    BY <1>1
  <2> HIDE DEF Small
  <2>5. h \in [Small(m + 1) -> V]
    BY <2>1, <2>2, <2>3
  <2>6. ASSUME NEW s \in Small(m) PROVE h[s] = g[s]
    BY <2>4
  <2>7. ASSUME NEW s \in Small(m + 1)
        PROVE  h[s] = IF s = {} THEN base ELSE step[<<pick[s], h[s \ {pick[s]}]>>]
    <3>1. CASE s \in Small(m)
      <4>1. h[s] = g[s] /\ (s # {} => h[s \ {pick[s]}] = g[s \ {pick[s]}])
        BY <2>2, <2>6, <2>7, <3>1
      <4> QED
        BY <2>1, <3>1, <4>1
    <3>2. CASE s \notin Small(m)
      <4>1. s # {} /\ h[s \ {pick[s]}] = g[s \ {pick[s]}]
        BY <2>2, <2>3, <2>6, <2>7, <3>2
      <4> QED
        BY <2>7, <3>2, <4>1
    <3> QED
      BY <3>1, <3>2
  <2>8. Solves(h, m + 1)
    BY <2>5, <2>7
  <2>9. m + 1 \in Nat
    OBVIOUS
  <2> HIDE DEF Solves, h
  <2> QED
    BY <2>5, <2>8, <2>9
<1>5. \A m \in Nat : m \in Solved
  BY <1>3, <1>4, Induct
<1>6. Small(Cardinality(S)) = SUBSET S /\ Cardinality(S) \in Nat
  BY <1>1, FS_CardinalityType
<1>7. PICK g \in [Small(Cardinality(S)) -> V] : Solves(g, Cardinality(S))
  BY <1>5, <1>6
<1>8. g \in [SUBSET S -> V] /\ Unfolds(g, S, base, pick, step)
  BY <1>6, <1>7 DEF Unfolds
<1> QED
  BY <1>8


\* Nothing taken in yet.
Start == [bits |-> 0, value |-> 0, out |-> <<>>]

\* The states of the loop after each of the digits, within V.
Loops(digits, from, to, V, L) ==
    /\ L \in [0..Len(digits) -> V] /\ L[0] = Start
    /\ \A n \in Nat : n + 1 \in 1..Len(digits) => L[n + 1] = Take(L[n], digits[n + 1], from, to)

LEMMA RegroupUnfolds ==
    ASSUME NEW V, Start \in V, NEW D, NEW from, NEW to,
           \A acc \in V, digit \in D : Take(acc, digit, from, to) \in V,
           NEW digits \in Seq(D)
    PROVE  \E L : Loops(digits, from, to, V, L) /\ Regroup(digits, from, to) = L[Len(digits)]
<1> DEFINE S == DOMAIN digits
           iter == CHOOSE g : g = [s \in SUBSET S |->
                      IF s = {} THEN Start
                      ELSE Take(g[s \ {Max(s)}], digits[Max(s)], from, to)]
           pick == [s \in SUBSET S |-> Max(s)]
           step == [z \in S \X V |-> Take(z[2], digits[z[1]], from, to)]
<1>1. Regroup(digits, from, to) = iter[S]
  BY DEF Regroup, FoldLeft, MapThenFoldSet, Start
<1>2. /\ Len(digits) \in Nat /\ S = 1..Len(digits) /\ IsFiniteSet(S)
      /\ \A i \in S : digits[i] \in D
  BY FS_Interval
<1>3. \E g : g = [s \in SUBSET S |->
                    IF s = {} THEN Start
                    ELSE Take(g[s \ {Max(s)}], digits[Max(s)], from, to)]
           /\ g \in [SUBSET S -> V]
  <2>1. \A s \in SUBSET S : s # {} => pick[s] \in s
    <3> SUFFICES ASSUME NEW s \in SUBSET S, s # {}  PROVE Max(s) \in s
      OBVIOUS
    <3> DEFINE T == {Len(digits) - i : i \in s}
    <3>1. T \subseteq Nat /\ T # {}
      BY <1>2
    <3>2. PICK t \in T : \A u \in T : t <= u
      BY <3>1, LeastElement
    <3>3. PICK m \in s : t = Len(digits) - m
      BY <3>2
    <3>4. ASSUME NEW i \in s  PROVE m >= i
      <4>1. Len(digits) - i \in T /\ i \in 1..Len(digits) /\ m \in 1..Len(digits)
        BY <1>2, <3>3
      <4>2. t <= Len(digits) - i
        BY <3>2, <4>1
      <4> QED
        BY <1>2, <3>3, <4>1, <4>2
    <3> QED
      BY <3>4 DEF Max
  <2>2. step \in [S \X V -> V]
    <3>1. ASSUME NEW i \in S, NEW acc \in V  PROVE Take(acc, digits[i], from, to) \in V
      BY <1>2
    <3> QED
      BY <3>1
  <2> HIDE DEF step, pick
  <2>3. PICK g \in [SUBSET S -> V] : Unfolds(g, S, Start, pick, step)
    BY <1>2, <2>1, <2>2, RecursionOnSubsets
  <2>4. ASSUME NEW s \in SUBSET S
        PROVE  g[s] = IF s = {} THEN Start
                      ELSE Take(g[s \ {Max(s)}], digits[Max(s)], from, to)
    <3>1. CASE s = {}
      BY <3>1, <2>3 DEF Unfolds
    <3>2. CASE s # {}
      <4>1. pick[s] = Max(s) /\ pick[s] \in S /\ s \ {pick[s]} \in SUBSET S
        BY <2>1, <3>2 DEF pick
      <4>2. g[s] = step[<<pick[s], g[s \ {pick[s]}]>>]
        BY <2>3, <3>2 DEF Unfolds
      <4>3. step[<<pick[s], g[s \ {pick[s]}]>>] =
              Take(g[s \ {pick[s]}], digits[pick[s]], from, to)
        BY <4>1 DEF step
      <4> QED
        BY <3>2, <4>1, <4>2, <4>3
    <3> QED
      BY <3>1, <3>2
  <2>5. g = [s \in SUBSET S |->
               IF s = {} THEN Start
               ELSE Take(g[s \ {Max(s)}], digits[Max(s)], from, to)]
    BY <2>4
  <2> QED
    BY <2>5
<1>4. iter = [s \in SUBSET S |->
                IF s = {} THEN Start
                ELSE Take(iter[s \ {Max(s)}], digits[Max(s)], from, to)]
  BY <1>3
<1> HIDE DEF iter
<1>5. iter[{}] = Start
  BY <1>4
<1>6. ASSUME NEW n \in Nat, n + 1 \in 1..Len(digits)
      PROVE  iter[1 .. n + 1] = Take(iter[1..n], digits[n + 1], from, to)
  <2> DEFINE s == 1 .. n + 1
  <2>1. s \in SUBSET S /\ s # {}
    <3>1. s \subseteq 1..Len(digits) /\ n + 1 \in s
      BY <1>2, <1>6
    <3> QED
      BY <1>2, <3>1
  <2>2. Max(s) = n + 1
    <3>1. \A x \in s : (\A y \in s : x >= y) <=> x = n + 1
      OBVIOUS
    <3>2. n + 1 \in s
      OBVIOUS
    <3> QED
      BY <3>1, <3>2 DEF Max
  <2>3. s \ {n + 1} = 1..n
    OBVIOUS
  <2>4. iter[s] = Take(iter[s \ {Max(s)}], digits[Max(s)], from, to)
    BY <1>4, <2>1
  <2> QED
    BY <2>2, <2>3, <2>4
<1> DEFINE L == [n \in 0..Len(digits) |-> iter[1..n]]
<1>7. \A n \in 0..Len(digits) : iter[1..n] \in V
  <2> DEFINE Good == {n \in Nat : n <= Len(digits) => iter[1..n] \in V}
  <2>1. 0 \in Good
    <3>1. 1..0 = {}
      OBVIOUS
    <3> QED
      BY <3>1, <1>5
  <2>2. ASSUME NEW n \in Nat, n \in Good  PROVE n + 1 \in Good
    <3> SUFFICES ASSUME n + 1 <= Len(digits)  PROVE iter[1 .. n + 1] \in V
      OBVIOUS
    <3>1. n + 1 \in 1..Len(digits) /\ n <= Len(digits)
      BY <1>2
    <3>2. iter[1..n] \in V /\ digits[n + 1] \in D
      BY <3>1, <2>2, <1>2
    <3>3. Take(iter[1..n], digits[n + 1], from, to) \in V
      BY <3>2
    <3> QED
      BY <3>1, <3>3, <1>6
  <2> HIDE DEF Good
  <2>3. \A n \in Nat : n \in Good
    BY <2>1, <2>2, Induct
  <2> QED
    BY <2>3, <1>2 DEF Good
<1>8. L[0] = Start
  <2>1. 1..0 = {} /\ 0 \in 0..Len(digits)
    BY <1>2
  <2> QED
    BY <2>1, <1>5
<1>9. ASSUME NEW n \in Nat, n + 1 \in 1..Len(digits)
      PROVE  L[n + 1] = Take(L[n], digits[n + 1], from, to)
  <2>1. n \in 0..Len(digits) /\ n + 1 \in 0..Len(digits)
    BY <1>2, <1>9
  <2> QED
    BY <2>1, <1>6, <1>9
<1>10. L \in [0..Len(digits) -> V]
  BY <1>7
<1>11. L[Len(digits)] = Regroup(digits, from, to)
  BY <1>1, <1>2
<1> QED
  BY <1>8, <1>9, <1>10, <1>11 DEF Loops

\* The loop goes on where it was.
LEMMA RegroupGoesOn ==
    ASSUME NEW V, Start \in V, NEW D, NEW from, NEW to,
           \A acc \in V, digit \in D : Take(acc, digit, from, to) \in V,
           NEW digits \in Seq(D), NEW digit \in D
    PROVE  /\ Regroup(digits, from, to) \in V
           /\ Regroup(Append(digits, digit), from, to) = Take(Regroup(digits, from, to), digit, from, to)
<1> DEFINE more == Append(digits, digit)
           n == Len(digits)
<1>1. /\ n \in Nat /\ more \in Seq(D) /\ Len(more) = n + 1 /\ more[n + 1] = digit
      /\ \A i \in 1..n : more[i] = digits[i]
  OBVIOUS
<1> HIDE DEF more, n
<1>0. \A d \in Seq(D) : \E L : Loops(d, from, to, V, L) /\ Regroup(d, from, to) = L[Len(d)]
  BY RegroupUnfolds
<1>2. PICK L : Loops(digits, from, to, V, L) /\ Regroup(digits, from, to) = L[Len(digits)]
  BY <1>0
<1>3. PICK M : Loops(more, from, to, V, M) /\ Regroup(more, from, to) = M[Len(more)]
  BY <1>0, <1>1
<1> DEFINE Good == {i \in Nat : i <= n => M[i] = L[i]}
<1>4. 0 \in Good
  BY <1>2, <1>3 DEF Loops
<1>5. ASSUME NEW i \in Nat, i \in Good  PROVE i + 1 \in Good
  <2> SUFFICES ASSUME i + 1 <= n  PROVE M[i + 1] = L[i + 1]
    OBVIOUS
  <2>1. /\ i + 1 \in 1..Len(digits) /\ i + 1 \in 1..Len(more) /\ more[i + 1] = digits[i + 1]
    BY <1>1 DEF n
  <2>2. M[i] = L[i]
    BY <1>1, <1>5
  <2> QED
    BY <1>2, <1>3, <2>1, <2>2 DEF Loops
<1> HIDE DEF Good
<1>6. n \in Good
  BY <1>1, <1>4, <1>5, Induct
<1>7. M[n] = L[n] /\ L[n] \in V
  BY <1>1, <1>2, <1>6 DEF Good, Loops, n
<1>8. M[n + 1] = Take(M[n], digit, from, to)
  BY <1>1, <1>3 DEF Loops
<1> QED
  BY <1>1, <1>2, <1>3, <1>7, <1>8 DEF more, n

LEMMA RegroupStarts ==
    ASSUME NEW from, NEW to  PROVE Regroup(<<>>, from, to) = Start
<1> DEFINE iter == CHOOSE g : g = [s \in SUBSET {} |->
                      IF s = {} THEN Start
                      ELSE Take(g[s \ {Max(s)}], <<>>[Max(s)], from, to)]
<1>1. Regroup(<<>>, from, to) = iter[{}]
  BY DEF Regroup, FoldLeft, MapThenFoldSet, Start
<1>2. \E g : g = [s \in SUBSET {} |->
                      IF s = {} THEN Start
                      ELSE Take(g[s \ {Max(s)}], <<>>[Max(s)], from, to)]
  <2> DEFINE g == [s \in SUBSET {} |-> Start]
  <2>1. g = [s \in SUBSET {} |->
                      IF s = {} THEN Start
                      ELSE Take(g[s \ {Max(s)}], <<>>[Max(s)], from, to)]
    OBVIOUS
  <2> QED
    BY <2>1
<1>3. iter = [s \in SUBSET {} |->
                      IF s = {} THEN Start
                      ELSE Take(iter[s \ {Max(s)}], <<>>[Max(s)], from, to)]
  BY <1>2
<1> HIDE DEF iter
<1> QED
  BY <1>1, <1>3

Bytes == 0..255
Symbols == 0..31

\* What the loop of the encoder holds, and that of the decoder.
Encoding == [bits : 0..4, value : 0..15, out : Seq(Symbols)]
Decoding == [bits : 0..7, value : 0..127, out : Seq(Bytes)]

LEMMA Singles ==
    ASSUME NEW D, NEW s \in Seq(D), NEW x \in D, NEW y \in D
    PROVE  /\ s \o <<x>> = Append(s, x) /\ s \o <<x, y>> = Append(Append(s, x), y) /\ s \o <<>> = s
           /\ Append(s, x) \in Seq(D) /\ Append(Append(s, x), y) \in Seq(D)
<1>1. s \o <<x>> = Append(s, x) /\ Append(s, x) \in Seq(D) /\ Append(Append(s, x), y) \in Seq(D)
  OBVIOUS
<1>2. s \o <<>> = s
  OBVIOUS
<1>3. s \o <<x, y>> = Append(Append(s, x), y)
  <2> DEFINE left == s \o <<x, y>>
             right == Append(Append(s, x), y)
  <2>1. <<x, y>> \in Seq(D) /\ Len(<<x, y>>) = 2 /\ <<x, y>>[1] = x /\ <<x, y>>[2] = y
    OBVIOUS
  <2>2. /\ left \in Seq(D) /\ Len(left) = Len(s) + 2
        /\ \A i \in 1 .. Len(s) + 2 : left[i] = IF i <= Len(s) THEN s[i] ELSE <<x, y>>[i - Len(s)]
    BY <2>1, ConcatProperties
  <2>3. /\ right \in Seq(D) /\ Len(right) = Len(s) + 2 /\ right[Len(s) + 1] = x /\ right[Len(s) + 2] = y
        /\ \A i \in 1..Len(s) : right[i] = s[i]
    BY AppendProperties
  <2>4. Len(s) \in Nat
    OBVIOUS
  <2> HIDE DEF left, right
  <2>5. \A i \in 1 .. Len(left) : left[i] = right[i]
    BY <2>1, <2>2, <2>3, <2>4
  <2>6. left = right
    BY <2>2, <2>3, <2>5, SeqEqual
  <2> QED
    BY <2>6 DEF left, right
<1> QED
  BY <1>1, <1>2, <1>3

\* What a step leaves and gives out, with the number of bits named.
Given(x, bits, to) == [i \in 1..(bits \div to) |-> (x \div 2^(bits - to * i)) % 2^to]

After(bits, x, out, to) ==
    [bits |-> bits % to, value |-> x % 2^(bits % to), out |-> out \o Given(x, bits, to)]

LEMMA TakeIs ==
    ASSUME NEW acc, NEW digit, NEW from, NEW to
    PROVE  Take(acc, digit, from, to) = After(acc.bits + from, acc.value * 2^from + digit, acc.out, to)
  BY DEF Take, After, Given

\* What the encoder makes of a byte.
LEMMA OfAByte ==
    ASSUME NEW x \in Nat, NEW out
    PROVE  /\ After(8, x, out, 5) = [bits |-> 3, value |-> x % 8, out |-> out \o <<(x \div 8) % 32>>]
           /\ After(9, x, out, 5) = [bits |-> 4, value |-> x % 16, out |-> out \o <<(x \div 16) % 32>>]
           /\ After(10, x, out, 5) = [bits |-> 0, value |-> 0, out |-> out \o <<(x \div 32) % 32, x % 32>>]
           /\ After(11, x, out, 5) = [bits |-> 1, value |-> x % 2, out |-> out \o <<(x \div 64) % 32, (x \div 2) % 32>>]
           /\ After(12, x, out, 5) = [bits |-> 2, value |-> x % 4, out |-> out \o <<(x \div 128) % 32, (x \div 4) % 32>>]
<1>1. After(8, x, out, 5) = [bits |-> 3, value |-> x % 8, out |-> out \o <<(x \div 8) % 32>>]
  <2>1. 8 % 5 = 3 /\ 8 \div 5 = 1 /\ x % 2^3 = x % 8
    OBVIOUS
  <2>2. Given(x, 8, 5) = <<(x \div 8) % 32>>
    BY <2>1 DEF Given
  <2> QED
    BY <2>1, <2>2 DEF After
<1>2. After(9, x, out, 5) = [bits |-> 4, value |-> x % 16, out |-> out \o <<(x \div 16) % 32>>]
  <2>1. 9 % 5 = 4 /\ 9 \div 5 = 1 /\ x % 2^4 = x % 16
    OBVIOUS
  <2>2. Given(x, 9, 5) = <<(x \div 16) % 32>>
    BY <2>1 DEF Given
  <2> QED
    BY <2>1, <2>2 DEF After
<1>3. After(10, x, out, 5) = [bits |-> 0, value |-> 0, out |-> out \o <<(x \div 32) % 32, x % 32>>]
  <2>1. 10 % 5 = 0 /\ 10 \div 5 = 2 /\ x % 2^0 = 0
    OBVIOUS
  <2>2. Given(x, 10, 5) = <<(x \div 32) % 32, x % 32>>
    BY <2>1 DEF Given
  <2> QED
    BY <2>1, <2>2 DEF After
<1>4. After(11, x, out, 5) = [bits |-> 1, value |-> x % 2, out |-> out \o <<(x \div 64) % 32, (x \div 2) % 32>>]
  <2>1. 11 % 5 = 1 /\ 11 \div 5 = 2 /\ x % 2^1 = x % 2
    OBVIOUS
  <2>2. Given(x, 11, 5) = <<(x \div 64) % 32, (x \div 2) % 32>>
    BY <2>1 DEF Given
  <2> QED
    BY <2>1, <2>2 DEF After
<1>5. After(12, x, out, 5) = [bits |-> 2, value |-> x % 4, out |-> out \o <<(x \div 128) % 32, (x \div 4) % 32>>]
  <2>1. 12 % 5 = 2 /\ 12 \div 5 = 2 /\ x % 2^2 = x % 4
    OBVIOUS
  <2>2. Given(x, 12, 5) = <<(x \div 128) % 32, (x \div 4) % 32>>
    BY <2>1 DEF Given
  <2> QED
    BY <2>1, <2>2 DEF After
<1> QED
  BY <1>1, <1>2, <1>3, <1>4, <1>5

\* What the decoder makes of a symbol: no byte yet, or one.
LEMMA SymbolKept ==
    ASSUME NEW x \in Nat, NEW out
    PROVE  /\ After(5, x, out, 8) = [bits |-> 5, value |-> x % 32, out |-> out \o <<>>]
           /\ After(6, x, out, 8) = [bits |-> 6, value |-> x % 64, out |-> out \o <<>>]
           /\ After(7, x, out, 8) = [bits |-> 7, value |-> x % 128, out |-> out \o <<>>]
<1>1. After(5, x, out, 8) = [bits |-> 5, value |-> x % 32, out |-> out \o <<>>]
  <2>1. 5 % 8 = 5 /\ 5 \div 8 = 0 /\ x % 2^5 = x % 32
    OBVIOUS
  <2>2. Given(x, 5, 8) = <<>>
    BY <2>1 DEF Given
  <2> QED
    BY <2>1, <2>2 DEF After
<1>2. After(6, x, out, 8) = [bits |-> 6, value |-> x % 64, out |-> out \o <<>>]
  <2>1. 6 % 8 = 6 /\ 6 \div 8 = 0 /\ x % 2^6 = x % 64
    OBVIOUS
  <2>2. Given(x, 6, 8) = <<>>
    BY <2>1 DEF Given
  <2> QED
    BY <2>1, <2>2 DEF After
<1>3. After(7, x, out, 8) = [bits |-> 7, value |-> x % 128, out |-> out \o <<>>]
  <2>1. 7 % 8 = 7 /\ 7 \div 8 = 0 /\ x % 2^7 = x % 128
    OBVIOUS
  <2>2. Given(x, 7, 8) = <<>>
    BY <2>1 DEF Given
  <2> QED
    BY <2>1, <2>2 DEF After
<1> QED
  BY <1>1, <1>2, <1>3

\* A byte is whole, and something of the next one may be left.
LEMMA AfterEight ==
    ASSUME NEW x \in Nat, NEW out
    PROVE  After(8, x, out, 8) = [bits |-> 0, value |-> 0, out |-> out \o <<x % 256>>]
<1>1. 8 % 8 = 0 /\ 8 \div 8 = 1 /\ x % 2^0 = 0
  OBVIOUS
<1>2. Given(x, 8, 8) = <<x % 256>>
  BY <1>1 DEF Given
<1> QED
  BY <1>1, <1>2 DEF After

LEMMA AfterNine ==
    ASSUME NEW x \in Nat, NEW out
    PROVE  After(9, x, out, 8) = [bits |-> 1, value |-> x % 2, out |-> out \o <<(x \div 2) % 256>>]
<1>1. 9 % 8 = 1 /\ 9 \div 8 = 1 /\ x % 2^1 = x % 2
  OBVIOUS
<1>2. Given(x, 9, 8) = <<(x \div 2) % 256>>
  BY <1>1 DEF Given
<1> QED
  BY <1>1, <1>2 DEF After

LEMMA AfterTen ==
    ASSUME NEW x \in Nat, NEW out
    PROVE  After(10, x, out, 8) = [bits |-> 2, value |-> x % 4, out |-> out \o <<(x \div 4) % 256>>]
<1>1. 10 % 8 = 2 /\ 10 \div 8 = 1 /\ x % 2^2 = x % 4
  OBVIOUS
<1>2. Given(x, 10, 8) = <<(x \div 4) % 256>>
  BY <1>1 DEF Given
<1> QED
  BY <1>1, <1>2 DEF After

LEMMA AfterEleven ==
    ASSUME NEW x \in Nat, NEW out
    PROVE  After(11, x, out, 8) = [bits |-> 3, value |-> x % 8, out |-> out \o <<(x \div 8) % 256>>]
<1>1. 11 % 8 = 3 /\ 11 \div 8 = 1 /\ x % 2^3 = x % 8
  OBVIOUS
<1>2. Given(x, 11, 8) = <<(x \div 8) % 256>>
  BY <1>1 DEF Given
<1> QED
  BY <1>1, <1>2 DEF After

LEMMA AfterTwelve ==
    ASSUME NEW x \in Nat, NEW out
    PROVE  After(12, x, out, 8) = [bits |-> 4, value |-> x % 16, out |-> out \o <<(x \div 16) % 256>>]
<1>1. 12 % 8 = 4 /\ 12 \div 8 = 1 /\ x % 2^4 = x % 16
  OBVIOUS
<1>2. Given(x, 12, 8) = <<(x \div 16) % 256>>
  BY <1>1 DEF Given
<1> QED
  BY <1>1, <1>2 DEF After

LEMMA EncoderTakes ==
    ASSUME NEW acc \in Encoding, NEW byte \in Bytes
    PROVE  LET x == acc.value * 256 + byte IN
           x \in Nat /\ Take(acc, byte, 8, 5) = After(acc.bits + 8, x, acc.out, 5)
<1>1. acc.value \in 0..15 /\ byte \in 0..255
  BY DEF Encoding, Bytes
<1>2. Take(acc, byte, 8, 5) = After(acc.bits + 8, acc.value * 2^8 + byte, acc.out, 5)
  BY TakeIs
<1>3. 2^8 = 256
  OBVIOUS
<1> QED
  BY <1>1, <1>2, <1>3

LEMMA DecoderTakes ==
    ASSUME NEW acc \in Decoding, NEW symbol \in Symbols
    PROVE  LET x == acc.value * 32 + symbol IN
           x \in Nat /\ Take(acc, symbol, 5, 8) = After(acc.bits + 5, x, acc.out, 8)
<1>1. acc.value \in 0..127 /\ symbol \in 0..31
  BY DEF Decoding, Symbols
<1>2. Take(acc, symbol, 5, 8) = After(acc.bits + 5, acc.value * 2^5 + symbol, acc.out, 8)
  BY TakeIs
<1>3. 2^5 = 32
  OBVIOUS
<1> QED
  BY <1>1, <1>2, <1>3

\* The loops keep their types.
LEMMA EncodingStays ==
    ASSUME NEW acc \in Encoding, NEW byte \in Bytes  PROVE Take(acc, byte, 8, 5) \in Encoding
<1> DEFINE x == acc.value * 256 + byte
<1>0. x \in Nat
  BY EncoderTakes
<1>1. x \in Nat /\ Take(acc, byte, 8, 5) = After(acc.bits + 8, x, acc.out, 5)
  BY EncoderTakes
<1>2. acc.out \in Seq(Symbols) /\ acc.bits \in {0, 1, 2, 3, 4}
  BY DEF Encoding
<1> DEFINE out == acc.out
<1> HIDE DEF x, out
<1>3. \A s, t \in 0..31 : out \o <<s>> \in Seq(Symbols) /\ out \o <<s, t>> \in Seq(Symbols)
  BY <1>2, Singles DEF Symbols, out
<1>4. \A n \in Nat : n % 2 \in 0..15 /\ n % 4 \in 0..15 /\ n % 8 \in 0..15 /\ n % 16 \in 0..15 /\ n % 32 \in 0..31
  OBVIOUS
<1>5. x \div 8 \in Nat /\ x \div 16 \in Nat /\ x \div 32 \in Nat /\ x \div 64 \in Nat /\ x \div 2 \in Nat
      /\ x \div 128 \in Nat /\ x \div 4 \in Nat
  BY <1>1
<1>7. /\ After(8, x, out, 5) \in Encoding
      /\ After(9, x, out, 5) \in Encoding
      /\ After(10, x, out, 5) \in Encoding
      /\ After(11, x, out, 5) \in Encoding
      /\ After(12, x, out, 5) \in Encoding
  <2>1. After(8, x, out, 5) \in Encoding
    <3>1. After(8, x, out, 5) = [bits |-> 3, value |-> x % 8, out |-> out \o <<(x \div 8) % 32>>]
      BY <1>0, OfAByte
    <3>2. x % 8 \in 0..15
      BY <1>1, <1>4
    <3>3. (x \div 8) % 32 \in 0..31
      BY <1>1, <1>4, <1>5
    <3>4. out \o <<(x \div 8) % 32>> \in Seq(Symbols)
      BY <1>3, <3>3
    <3>5. [bits |-> 3, value |-> x % 8, out |-> out \o <<(x \div 8) % 32>>] \in Encoding
      BY <3>2, <3>4 DEF Encoding
    <3> QED
      BY <3>1, <3>5
  <2>2. After(9, x, out, 5) \in Encoding
    <3>1. After(9, x, out, 5) = [bits |-> 4, value |-> x % 16, out |-> out \o <<(x \div 16) % 32>>]
      BY <1>0, OfAByte
    <3>2. x % 16 \in 0..15
      BY <1>1, <1>4
    <3>3. (x \div 16) % 32 \in 0..31
      BY <1>1, <1>4, <1>5
    <3>4. out \o <<(x \div 16) % 32>> \in Seq(Symbols)
      BY <1>3, <3>3
    <3>5. [bits |-> 4, value |-> x % 16, out |-> out \o <<(x \div 16) % 32>>] \in Encoding
      BY <3>2, <3>4 DEF Encoding
    <3> QED
      BY <3>1, <3>5
  <2>3. After(10, x, out, 5) \in Encoding
    <3>1. After(10, x, out, 5) = [bits |-> 0, value |-> 0, out |-> out \o <<(x \div 32) % 32, x % 32>>]
      BY <1>0, OfAByte
    <3>2. 0 \in 0..15
      BY <1>1, <1>4
    <3>3. (x \div 32) % 32 \in 0..31 /\ x % 32 \in 0..31
      BY <1>1, <1>4, <1>5
    <3>4. out \o <<(x \div 32) % 32, x % 32>> \in Seq(Symbols)
      BY <1>3, <3>3
    <3>5. [bits |-> 0, value |-> 0, out |-> out \o <<(x \div 32) % 32, x % 32>>] \in Encoding
      BY <3>2, <3>4 DEF Encoding
    <3> QED
      BY <3>1, <3>5
  <2>4. After(11, x, out, 5) \in Encoding
    <3>1. After(11, x, out, 5) = [bits |-> 1, value |-> x % 2, out |-> out \o <<(x \div 64) % 32, (x \div 2) % 32>>]
      BY <1>0, OfAByte
    <3>2. x % 2 \in 0..15
      BY <1>1, <1>4
    <3>3. (x \div 64) % 32 \in 0..31 /\ (x \div 2) % 32 \in 0..31
      BY <1>1, <1>4, <1>5
    <3>4. out \o <<(x \div 64) % 32, (x \div 2) % 32>> \in Seq(Symbols)
      BY <1>3, <3>3
    <3>5. [bits |-> 1, value |-> x % 2, out |-> out \o <<(x \div 64) % 32, (x \div 2) % 32>>] \in Encoding
      BY <3>2, <3>4 DEF Encoding
    <3> QED
      BY <3>1, <3>5
  <2>5. After(12, x, out, 5) \in Encoding
    <3>1. After(12, x, out, 5) = [bits |-> 2, value |-> x % 4, out |-> out \o <<(x \div 128) % 32, (x \div 4) % 32>>]
      BY <1>0, OfAByte
    <3>2. x % 4 \in 0..15
      BY <1>1, <1>4
    <3>3. (x \div 128) % 32 \in 0..31 /\ (x \div 4) % 32 \in 0..31
      BY <1>1, <1>4, <1>5
    <3>4. out \o <<(x \div 128) % 32, (x \div 4) % 32>> \in Seq(Symbols)
      BY <1>3, <3>3
    <3>5. [bits |-> 2, value |-> x % 4, out |-> out \o <<(x \div 128) % 32, (x \div 4) % 32>>] \in Encoding
      BY <3>2, <3>4 DEF Encoding
    <3> QED
      BY <3>1, <3>5
  <2> QED
    BY <2>1, <2>2, <2>3, <2>4, <2>5
<1> QED
  BY <1>1, <1>2, <1>7 DEF out

LEMMA DecodingStays ==
    ASSUME NEW acc \in Decoding, NEW symbol \in Symbols  PROVE Take(acc, symbol, 5, 8) \in Decoding
<1> DEFINE x == acc.value * 32 + symbol
<1>0. x \in Nat
  BY DecoderTakes
<1>1. x \in Nat /\ Take(acc, symbol, 5, 8) = After(acc.bits + 5, x, acc.out, 8)
  BY DecoderTakes
<1>2. acc.out \in Seq(Bytes) /\ acc.bits \in {0, 1, 2, 3, 4, 5, 6, 7}
  BY DEF Decoding
<1> DEFINE out == acc.out
<1> HIDE DEF x, out
<1>3. out \o <<>> \in Seq(Bytes) /\ \A byte \in 0..255 : out \o <<byte>> \in Seq(Bytes)
  BY <1>2, Singles DEF Bytes, out
<1>4. \A n \in Nat : /\ n % 2 \in 0..127 /\ n % 4 \in 0..127 /\ n % 8 \in 0..127 /\ n % 16 \in 0..127
                     /\ n % 32 \in 0..127 /\ n % 64 \in 0..127 /\ n % 128 \in 0..127 /\ n % 256 \in 0..255
  OBVIOUS
<1>5. x \div 2 \in Nat /\ x \div 4 \in Nat /\ x \div 8 \in Nat /\ x \div 16 \in Nat
  BY <1>1
<1>7. /\ After(5, x, out, 8) \in Decoding
      /\ After(6, x, out, 8) \in Decoding
      /\ After(7, x, out, 8) \in Decoding
      /\ After(8, x, out, 8) \in Decoding
      /\ After(9, x, out, 8) \in Decoding
      /\ After(10, x, out, 8) \in Decoding
      /\ After(11, x, out, 8) \in Decoding
      /\ After(12, x, out, 8) \in Decoding
  <2>1. After(5, x, out, 8) \in Decoding
    <3>1. After(5, x, out, 8) = [bits |-> 5, value |-> x % 32, out |-> out \o <<>>]
      BY <1>0, SymbolKept
    <3>2. x % 32 \in 0..127
      BY <1>1, <1>4
    <3>4. out \o <<>> \in Seq(Bytes)
      BY <1>3
    <3>5. [bits |-> 5, value |-> x % 32, out |-> out \o <<>>] \in Decoding
      BY <3>2, <3>4 DEF Decoding
    <3> QED
      BY <3>1, <3>5
  <2>2. After(6, x, out, 8) \in Decoding
    <3>1. After(6, x, out, 8) = [bits |-> 6, value |-> x % 64, out |-> out \o <<>>]
      BY <1>0, SymbolKept
    <3>2. x % 64 \in 0..127
      BY <1>1, <1>4
    <3>4. out \o <<>> \in Seq(Bytes)
      BY <1>3
    <3>5. [bits |-> 6, value |-> x % 64, out |-> out \o <<>>] \in Decoding
      BY <3>2, <3>4 DEF Decoding
    <3> QED
      BY <3>1, <3>5
  <2>3. After(7, x, out, 8) \in Decoding
    <3>1. After(7, x, out, 8) = [bits |-> 7, value |-> x % 128, out |-> out \o <<>>]
      BY <1>0, SymbolKept
    <3>2. x % 128 \in 0..127
      BY <1>1, <1>4
    <3>4. out \o <<>> \in Seq(Bytes)
      BY <1>3
    <3>5. [bits |-> 7, value |-> x % 128, out |-> out \o <<>>] \in Decoding
      BY <3>2, <3>4 DEF Decoding
    <3> QED
      BY <3>1, <3>5
  <2>4. After(8, x, out, 8) \in Decoding
    <3>1. After(8, x, out, 8) = [bits |-> 0, value |-> 0, out |-> out \o <<x % 256>>]
      BY <1>0, AfterEight
    <3>2. 0 \in 0..127
      BY <1>1, <1>4
    <3>3. x % 256 \in 0..255
      BY <1>1, <1>4, <1>5
    <3>4. out \o <<x % 256>> \in Seq(Bytes)
      BY <1>3, <3>3
    <3>5. [bits |-> 0, value |-> 0, out |-> out \o <<x % 256>>] \in Decoding
      BY <3>2, <3>4 DEF Decoding
    <3> QED
      BY <3>1, <3>5
  <2>5. After(9, x, out, 8) \in Decoding
    <3>1. After(9, x, out, 8) = [bits |-> 1, value |-> x % 2, out |-> out \o <<(x \div 2) % 256>>]
      BY <1>0, AfterNine
    <3>2. x % 2 \in 0..127
      BY <1>1, <1>4
    <3>3. (x \div 2) % 256 \in 0..255
      BY <1>1, <1>4, <1>5
    <3>4. out \o <<(x \div 2) % 256>> \in Seq(Bytes)
      BY <1>3, <3>3
    <3>5. [bits |-> 1, value |-> x % 2, out |-> out \o <<(x \div 2) % 256>>] \in Decoding
      BY <3>2, <3>4 DEF Decoding
    <3> QED
      BY <3>1, <3>5
  <2>6. After(10, x, out, 8) \in Decoding
    <3>1. After(10, x, out, 8) = [bits |-> 2, value |-> x % 4, out |-> out \o <<(x \div 4) % 256>>]
      BY <1>0, AfterTen
    <3>2. x % 4 \in 0..127
      BY <1>1, <1>4
    <3>3. (x \div 4) % 256 \in 0..255
      BY <1>1, <1>4, <1>5
    <3>4. out \o <<(x \div 4) % 256>> \in Seq(Bytes)
      BY <1>3, <3>3
    <3>5. [bits |-> 2, value |-> x % 4, out |-> out \o <<(x \div 4) % 256>>] \in Decoding
      BY <3>2, <3>4 DEF Decoding
    <3> QED
      BY <3>1, <3>5
  <2>7. After(11, x, out, 8) \in Decoding
    <3>1. After(11, x, out, 8) = [bits |-> 3, value |-> x % 8, out |-> out \o <<(x \div 8) % 256>>]
      BY <1>0, AfterEleven
    <3>2. x % 8 \in 0..127
      BY <1>1, <1>4
    <3>3. (x \div 8) % 256 \in 0..255
      BY <1>1, <1>4, <1>5
    <3>4. out \o <<(x \div 8) % 256>> \in Seq(Bytes)
      BY <1>3, <3>3
    <3>5. [bits |-> 3, value |-> x % 8, out |-> out \o <<(x \div 8) % 256>>] \in Decoding
      BY <3>2, <3>4 DEF Decoding
    <3> QED
      BY <3>1, <3>5
  <2>8. After(12, x, out, 8) \in Decoding
    <3>1. After(12, x, out, 8) = [bits |-> 4, value |-> x % 16, out |-> out \o <<(x \div 16) % 256>>]
      BY <1>0, AfterTwelve
    <3>2. x % 16 \in 0..127
      BY <1>1, <1>4
    <3>3. (x \div 16) % 256 \in 0..255
      BY <1>1, <1>4, <1>5
    <3>4. out \o <<(x \div 16) % 256>> \in Seq(Bytes)
      BY <1>3, <3>3
    <3>5. [bits |-> 4, value |-> x % 16, out |-> out \o <<(x \div 16) % 256>>] \in Decoding
      BY <3>2, <3>4 DEF Decoding
    <3> QED
      BY <3>1, <3>5
  <2> QED
    BY <2>1, <2>2, <2>3, <2>4, <2>5, <2>6, <2>7, <2>8
<1> QED
  BY <1>1, <1>2, <1>7 DEF out

\* A number is told by its quotient and its remainder, for the powers of two.
LEMMA Parts ==
    ASSUME NEW n \in Nat
    PROVE  /\ n = 2 * (n \div 2) + (n % 2) /\ n % 2 \in 0..1 /\ n \div 2 \in Nat
           /\ n = 4 * (n \div 4) + (n % 4) /\ n % 4 \in 0..3 /\ n \div 4 \in Nat
           /\ n = 8 * (n \div 8) + (n % 8) /\ n % 8 \in 0..7 /\ n \div 8 \in Nat
           /\ n = 16 * (n \div 16) + (n % 16) /\ n % 16 \in 0..15 /\ n \div 16 \in Nat
           /\ n = 32 * (n \div 32) + (n % 32) /\ n % 32 \in 0..31 /\ n \div 32 \in Nat
           /\ n = 64 * (n \div 64) + (n % 64) /\ n % 64 \in 0..63 /\ n \div 64 \in Nat
           /\ n = 128 * (n \div 128) + (n % 128) /\ n % 128 \in 0..127 /\ n \div 128 \in Nat
<1> n \in Int
  OBVIOUS
<1>1. n = 2 * (n \div 2) + (n % 2)
  OBVIOUS
<1>2. n % 2 \in 0..1
  OBVIOUS
<1>3. n \div 2 \in Nat
  OBVIOUS
<1>4. n = 4 * (n \div 4) + (n % 4)
  OBVIOUS
<1>5. n % 4 \in 0..3
  OBVIOUS
<1>6. n \div 4 \in Nat
  OBVIOUS
<1>7. n = 8 * (n \div 8) + (n % 8)
  OBVIOUS
<1>8. n % 8 \in 0..7
  OBVIOUS
<1>9. n \div 8 \in Nat
  OBVIOUS
<1>10. n = 16 * (n \div 16) + (n % 16)
  OBVIOUS
<1>11. n % 16 \in 0..15
  OBVIOUS
<1>12. n \div 16 \in Nat
  OBVIOUS
<1>13. n = 32 * (n \div 32) + (n % 32)
  OBVIOUS
<1>14. n % 32 \in 0..31
  OBVIOUS
<1>15. n \div 32 \in Nat
  OBVIOUS
<1>16. n = 64 * (n \div 64) + (n % 64)
  OBVIOUS
<1>17. n % 64 \in 0..63
  OBVIOUS
<1>18. n \div 64 \in Nat
  OBVIOUS
<1>19. n = 128 * (n \div 128) + (n % 128)
  OBVIOUS
<1>20. n % 128 \in 0..127
  OBVIOUS
<1>21. n \div 128 \in Nat
  OBVIOUS
<1> QED
  BY <1>1, <1>2, <1>3, <1>4, <1>5, <1>6, <1>7, <1>8, <1>9, <1>10,
     <1>11, <1>12, <1>13, <1>14, <1>15, <1>16, <1>17, <1>18, <1>19, <1>20, <1>21

LEMMA PartsAre ==
    ASSUME NEW n, NEW q \in Nat, NEW r \in Nat
    PROVE  /\ n = 2 * q + r /\ r \in 0..1 => n \div 2 = q /\ n % 2 = r
           /\ n = 4 * q + r /\ r \in 0..3 => n \div 4 = q /\ n % 4 = r
           /\ n = 8 * q + r /\ r \in 0..7 => n \div 8 = q /\ n % 8 = r
           /\ n = 16 * q + r /\ r \in 0..15 => n \div 16 = q /\ n % 16 = r
           /\ n = 32 * q + r /\ r \in 0..31 => n \div 32 = q /\ n % 32 = r
           /\ n = 64 * q + r /\ r \in 0..63 => n \div 64 = q /\ n % 64 = r
           /\ n = 128 * q + r /\ r \in 0..127 => n \div 128 = q /\ n % 128 = r
           /\ n = 256 * q + r /\ r \in 0..255 => n \div 256 = q /\ n % 256 = r
<1>1. ASSUME n = 2 * q + r, r \in 0..1  PROVE n \div 2 = q /\ n % 2 = r
  <2>1. (2 * q + r) \div 2 = q
    BY <1>1
  <2>2. (2 * q + r) % 2 = r
    BY <1>1
  <2> QED
    BY <1>1, <2>1, <2>2
<1>2. ASSUME n = 4 * q + r, r \in 0..3  PROVE n \div 4 = q /\ n % 4 = r
  <2>1. (4 * q + r) \div 4 = q
    BY <1>2
  <2>2. (4 * q + r) % 4 = r
    BY <1>2
  <2> QED
    BY <1>2, <2>1, <2>2
<1>3. ASSUME n = 8 * q + r, r \in 0..7  PROVE n \div 8 = q /\ n % 8 = r
  <2>1. (8 * q + r) \div 8 = q
    BY <1>3
  <2>2. (8 * q + r) % 8 = r
    BY <1>3
  <2> QED
    BY <1>3, <2>1, <2>2
<1>4. ASSUME n = 16 * q + r, r \in 0..15  PROVE n \div 16 = q /\ n % 16 = r
  <2>1. (16 * q + r) \div 16 = q
    BY <1>4
  <2>2. (16 * q + r) % 16 = r
    BY <1>4
  <2> QED
    BY <1>4, <2>1, <2>2
<1>5. ASSUME n = 32 * q + r, r \in 0..31  PROVE n \div 32 = q /\ n % 32 = r
  <2>1. (32 * q + r) \div 32 = q
    BY <1>5
  <2>2. (32 * q + r) % 32 = r
    BY <1>5
  <2> QED
    BY <1>5, <2>1, <2>2
<1>6. ASSUME n = 64 * q + r, r \in 0..63  PROVE n \div 64 = q /\ n % 64 = r
  <2>1. (64 * q + r) \div 64 = q
    BY <1>6
  <2>2. (64 * q + r) % 64 = r
    BY <1>6
  <2> QED
    BY <1>6, <2>1, <2>2
<1>7. ASSUME n = 128 * q + r, r \in 0..127  PROVE n \div 128 = q /\ n % 128 = r
  <2>1. (128 * q + r) \div 128 = q
    BY <1>7
  <2>2. (128 * q + r) % 128 = r
    BY <1>7
  <2> QED
    BY <1>7, <2>1, <2>2
<1>8. ASSUME n = 256 * q + r, r \in 0..255  PROVE n \div 256 = q /\ n % 256 = r
  <2>1. (256 * q + r) \div 256 = q
    BY <1>8
  <2>2. (256 * q + r) % 256 = r
    BY <1>8
  <2> QED
    BY <1>8, <2>1, <2>2
<1> QED
  BY <1>1, <1>2, <1>3, <1>4, <1>5, <1>6, <1>7, <1>8

\* The bits of a byte c that is taken in while v of b bits of the byte before
\* are left to the encoder, and w is what the decoder holds of it.
LEMMA BitsAtNone ==
    ASSUME NEW c \in 0..255, NEW s, s = (c \div 8) % 32
    PROVE  s \in 0..31 /\ s % 32 = s /\ c = 8 * s + (c % 8) /\ c % 8 \in 0..7
<1>1. c = 8 * (c \div 8) + (c % 8) /\ c % 8 \in 0..7 /\ c \div 8 \in Nat
  BY Parts
<1>2. c \div 8 \in 0..31
  BY <1>1
<1>3. \A m \in 0..31 : m % 32 = m
  OBVIOUS
<1>4. s = c \div 8
  BY <1>2, <1>3
<1> QED
  BY <1>1, <1>2, <1>3, <1>4

AtOne(c, v, w) ==
    \A x, s, y :
        x = v * 256 + c /\ s = (x \div 16) % 32 /\ y = w * 32 + s =>
        /\ s \in 0..31 /\ (y \div 16) % 256 = 2 * w + v
        /\ c = 16 * (y % 16) + (x % 16) /\ x % 16 \in 0..15

LEMMA BitsAtOne ==
    ASSUME NEW c \in 0..255, NEW v \in 0..1, NEW w \in 0..127
    PROVE  AtOne(c, v, w)
<1> SUFFICES
    \A x, s, y :
        x = v * 256 + c /\ s = (x \div 16) % 32 /\ y = w * 32 + s =>
        /\ s \in 0..31 /\ (y \div 16) % 256 = 2 * w + v
        /\ c = 16 * (y % 16) + (x % 16) /\ x % 16 \in 0..15
  BY DEF AtOne
<1> TAKE x, s, y
<1> HAVE x = v * 256 + c /\ s = (x \div 16) % 32 /\ y = w * 32 + s
<1>1. PICK q \in 0..15, r \in 0..15 : c = 16 * q + r
  <2>1. c = 16 * (c \div 16) + (c % 16) /\ c % 16 \in 0..15 /\ c \div 16 \in Nat
    BY Parts
  <2>2. c \div 16 \in 0..15
    BY <2>1
  <2> QED
    BY <2>1, <2>2
<1>2. x = 16 * (16 * v + q) + r /\ 16 * v + q \in Nat /\ 16 * v + q \in 0..31
  BY <1>1
<1>3. x \div 16 = 16 * v + q /\ x % 16 = r
  BY <1>2, PartsAre
<1>4. s = 16 * v + q /\ s \in 0..31
  <2>1. \A m \in 0..31 : m % 32 = m
    OBVIOUS
  <2> QED
    BY <1>2, <1>3, <2>1
<1>5. y = 16 * (2 * w + v) + q /\ 2 * w + v \in Nat /\ 2 * w + v \in 0..255
  BY <1>4
<1>6. y \div 16 = 2 * w + v /\ y % 16 = q
  BY <1>5, PartsAre
<1>7. (y \div 16) % 256 = 2 * w + v
  <2>1. \A m \in 0..255 : m % 256 = m
    OBVIOUS
  <2> QED
    BY <1>5, <1>6, <2>1
<1> QED
  BY <1>1, <1>3, <1>4, <1>6, <1>7

AtTwo(c, v, w) ==
    \A x, s, t, y, z :
        x = v * 256 + c /\ s = (x \div 32) % 32 /\ t = x % 32 /\ y = w * 32 + s /\ z = (y % 8) * 32 + t =>
        /\ s \in 0..31 /\ t \in 0..31 /\ (y \div 8) % 256 = 4 * w + v /\ z % 256 = c

LEMMA BitsAtTwo ==
    ASSUME NEW c \in 0..255, NEW v \in 0..3, NEW w \in 0..63
    PROVE  AtTwo(c, v, w)
<1> SUFFICES
    \A x, s, t, y, z :
        x = v * 256 + c /\ s = (x \div 32) % 32 /\ t = x % 32 /\ y = w * 32 + s /\ z = (y % 8) * 32 + t =>
        /\ s \in 0..31 /\ t \in 0..31 /\ (y \div 8) % 256 = 4 * w + v /\ z % 256 = c
  BY DEF AtTwo
<1> TAKE x, s, t, y, z
<1> HAVE x = v * 256 + c /\ s = (x \div 32) % 32 /\ t = x % 32 /\ y = w * 32 + s /\ z = (y % 8) * 32 + t
<1>1. PICK q \in 0..7, r \in 0..31 : c = 32 * q + r
  <2>1. c = 32 * (c \div 32) + (c % 32) /\ c % 32 \in 0..31 /\ c \div 32 \in Nat
    BY Parts
  <2>2. c \div 32 \in 0..7
    BY <2>1
  <2> QED
    BY <2>1, <2>2
<1>2. x = 32 * (8 * v + q) + r /\ 8 * v + q \in Nat /\ 8 * v + q \in 0..31
  BY <1>1
<1>3. x \div 32 = 8 * v + q /\ t = r
  BY <1>2, PartsAre
<1>4. s = 8 * v + q /\ s \in 0..31
  <2>1. \A m \in 0..31 : m % 32 = m
    OBVIOUS
  <2> QED
    BY <1>2, <1>3, <2>1
<1>5. y = 8 * (4 * w + v) + q /\ 4 * w + v \in Nat /\ 4 * w + v \in 0..255
  BY <1>4
<1>6. y \div 8 = 4 * w + v /\ y % 8 = q
  BY <1>5, PartsAre
<1>7. \A m \in 0..255 : m % 256 = m
  OBVIOUS
<1>8. z = c
  BY <1>1, <1>3, <1>6
<1> QED
  BY <1>3, <1>4, <1>5, <1>6, <1>7, <1>8

AtThree(c, v, w) ==
    \A x, s, t, y, z :
        x = v * 256 + c /\ s = (x \div 64) % 32 /\ t = (x \div 2) % 32 /\ y = w * 32 + s /\ z = (y % 4) * 32 + t =>
        /\ s \in 0..31 /\ t \in 0..31 /\ (y \div 4) % 256 = 8 * w + v
        /\ c = 2 * (z % 128) + (x % 2) /\ x % 2 \in 0..1

LEMMA BitsAtThree ==
    ASSUME NEW c \in 0..255, NEW v \in 0..7, NEW w \in 0..31
    PROVE  AtThree(c, v, w)
<1> SUFFICES
    \A x, s, t, y, z :
        x = v * 256 + c /\ s = (x \div 64) % 32 /\ t = (x \div 2) % 32 /\ y = w * 32 + s /\ z = (y % 4) * 32 + t =>
        /\ s \in 0..31 /\ t \in 0..31 /\ (y \div 4) % 256 = 8 * w + v
        /\ c = 2 * (z % 128) + (x % 2) /\ x % 2 \in 0..1
  BY DEF AtThree
<1> TAKE x, s, t, y, z
<1> HAVE x = v * 256 + c /\ s = (x \div 64) % 32 /\ t = (x \div 2) % 32 /\ y = w * 32 + s /\ z = (y % 4) * 32 + t
<1>1. PICK h \in 0..127, r \in 0..1 : c = 2 * h + r
  <2>1. c = 2 * (c \div 2) + (c % 2) /\ c % 2 \in 0..1 /\ c \div 2 \in Nat
    BY Parts
  <2>2. c \div 2 \in 0..127
    BY <2>1
  <2> QED
    BY <2>1, <2>2
<1>2. PICK q \in 0..3, p \in 0..31 : h = 32 * q + p
  <2>1. h = 32 * (h \div 32) + (h % 32) /\ h % 32 \in 0..31 /\ h \div 32 \in Nat
    BY Parts
  <2>2. h \div 32 \in 0..3
    BY <2>1
  <2> QED
    BY <2>1, <2>2
<1>3. /\ x = 2 * (128 * v + h) + r /\ 128 * v + h \in Nat
      /\ x = 64 * (4 * v + q) + (2 * p + r) /\ 4 * v + q \in Nat /\ 2 * p + r \in 0..63
      /\ 128 * v + h = 32 * (4 * v + q) + p /\ 4 * v + q \in 0..31
  BY <1>1, <1>2
<1>4. x \div 2 = 128 * v + h /\ x % 2 = r
  BY <1>3, PartsAre
<1>5. x \div 64 = 4 * v + q
  BY <1>3, PartsAre
<1>6. t = p
  BY <1>3, <1>4, PartsAre
<1>7. s = 4 * v + q /\ s \in 0..31
  <2>1. \A m \in 0..31 : m % 32 = m
    OBVIOUS
  <2> QED
    BY <1>3, <1>5, <2>1
<1>8. y = 4 * (8 * w + v) + q /\ 8 * w + v \in Nat /\ 8 * w + v \in 0..255
  BY <1>7
<1>9. y \div 4 = 8 * w + v /\ y % 4 = q
  BY <1>8, PartsAre
<1>10. (y \div 4) % 256 = 8 * w + v
  <2>1. \A m \in 0..255 : m % 256 = m
    OBVIOUS
  <2> QED
    BY <1>8, <1>9, <2>1
<1>11. z = h /\ z % 128 = h
  <2>1. \A m \in 0..127 : m % 128 = m
    OBVIOUS
  <2>2. z = h
    BY <1>2, <1>6, <1>9
  <2> QED
    BY <2>1, <2>2
<1> QED
  BY <1>1, <1>4, <1>6, <1>7, <1>10, <1>11

AtFour(c, v, w) ==
    \A x, s, t, y, z :
        x = v * 256 + c /\ s = (x \div 128) % 32 /\ t = (x \div 4) % 32 /\ y = w * 32 + s /\ z = (y % 2) * 32 + t =>
        /\ s \in 0..31 /\ t \in 0..31 /\ (y \div 2) % 256 = 16 * w + v
        /\ c = 4 * (z % 64) + (x % 4) /\ x % 4 \in 0..3

LEMMA BitsAtFour ==
    ASSUME NEW c \in 0..255, NEW v \in 0..15, NEW w \in 0..15
    PROVE  AtFour(c, v, w)
<1> SUFFICES
    \A x, s, t, y, z :
        x = v * 256 + c /\ s = (x \div 128) % 32 /\ t = (x \div 4) % 32 /\ y = w * 32 + s /\ z = (y % 2) * 32 + t =>
        /\ s \in 0..31 /\ t \in 0..31 /\ (y \div 2) % 256 = 16 * w + v
        /\ c = 4 * (z % 64) + (x % 4) /\ x % 4 \in 0..3
  BY DEF AtFour
<1> TAKE x, s, t, y, z
<1> HAVE x = v * 256 + c /\ s = (x \div 128) % 32 /\ t = (x \div 4) % 32 /\ y = w * 32 + s /\ z = (y % 2) * 32 + t
<1>1. PICK h \in 0..63, r \in 0..3 : c = 4 * h + r
  <2>1. c = 4 * (c \div 4) + (c % 4) /\ c % 4 \in 0..3 /\ c \div 4 \in Nat
    BY Parts
  <2>2. c \div 4 \in 0..63
    BY <2>1
  <2> QED
    BY <2>1, <2>2
<1>2. PICK q \in 0..1, p \in 0..31 : h = 32 * q + p
  <2>1. h = 32 * (h \div 32) + (h % 32) /\ h % 32 \in 0..31 /\ h \div 32 \in Nat
    BY Parts
  <2>2. h \div 32 \in 0..1
    BY <2>1
  <2> QED
    BY <2>1, <2>2
<1>3. /\ x = 4 * (64 * v + h) + r /\ 64 * v + h \in Nat
      /\ x = 128 * (2 * v + q) + (4 * p + r) /\ 2 * v + q \in Nat /\ 4 * p + r \in 0..127
      /\ 64 * v + h = 32 * (2 * v + q) + p /\ 2 * v + q \in 0..31
  BY <1>1, <1>2
<1>4. x \div 4 = 64 * v + h /\ x % 4 = r
  BY <1>3, PartsAre
<1>5. x \div 128 = 2 * v + q
  BY <1>3, PartsAre
<1>6. t = p
  BY <1>3, <1>4, PartsAre
<1>7. s = 2 * v + q /\ s \in 0..31
  <2>1. \A m \in 0..31 : m % 32 = m
    OBVIOUS
  <2> QED
    BY <1>3, <1>5, <2>1
<1>8. y = 2 * (16 * w + v) + q /\ 16 * w + v \in Nat /\ 16 * w + v \in 0..255
  BY <1>7
<1>9. y \div 2 = 16 * w + v /\ y % 2 = q
  BY <1>8, PartsAre
<1>10. (y \div 2) % 256 = 16 * w + v
  <2>1. \A m \in 0..255 : m % 256 = m
    OBVIOUS
  <2> QED
    BY <1>8, <1>9, <2>1
<1>11. z = h /\ z % 64 = h
  <2>1. \A m \in 0..63 : m % 64 = m
    OBVIOUS
  <2>2. z = h
    BY <1>2, <1>6, <1>9
  <2> QED
    BY <2>1, <2>2
<1> QED
  BY <1>1, <1>4, <1>6, <1>7, <1>10, <1>11

\* The decoder, fed what the encoder has given out, lags by the bits that the
\* encoder still keeps: k bits, v, of the last byte, of which the decoder has the
\* others, w, and all before it, front.
Follows(bytes, k, v, m, w, front) ==
    \/ k = 0 /\ v = 0 /\ m = 0 /\ w = 0 /\ bytes = front
    \/ k = 1 /\ v \in 0..1 /\ m = 7 /\ w \in 0..127 /\ bytes = Append(front, 2 * w + v)
    \/ k = 2 /\ v \in 0..3 /\ m = 6 /\ w \in 0..63 /\ bytes = Append(front, 4 * w + v)
    \/ k = 3 /\ v \in 0..7 /\ m = 5 /\ w \in 0..31 /\ bytes = Append(front, 8 * w + v)
    \/ k = 4 /\ v \in 0..15 /\ m = 4 /\ w \in 0..15 /\ bytes = Append(front, 16 * w + v)

\* What both hold after a sequence of bytes.
Encoded(bytes) == Regroup(bytes, 8, 5)
Read(symbols) == Regroup(symbols, 5, 8)

Decodes(bytes) ==
    LET e == Encoded(bytes)
        d == Read(e.out)
    IN  Follows(bytes, e.bits, e.value, d.bits, d.value, d.out)

LEMMA EncoderGoesOn ==
    ASSUME NEW bytes \in Seq(Bytes), NEW byte \in Bytes
    PROVE  /\ Encoded(bytes) \in Encoding
           /\ Encoded(Append(bytes, byte)) = Take(Encoded(bytes), byte, 8, 5)
<1>1. Start \in Encoding
  BY DEF Start, Encoding
<1> QED
  BY <1>1, EncodingStays, RegroupGoesOn DEF Encoded

LEMMA DecoderGoesOn ==
    ASSUME NEW symbols \in Seq(Symbols), NEW symbol \in Symbols
    PROVE  /\ Read(symbols) \in Decoding
           /\ Read(Append(symbols, symbol)) = Take(Read(symbols), symbol, 5, 8)
<1>1. Start \in Decoding
  BY DEF Start, Decoding
<1> QED
  BY <1>1, DecodingStays, RegroupGoesOn DEF Read

LEMMA FollowsGoesOn ==
    ASSUME NEW bytes \in Seq(Bytes), NEW byte \in Bytes,
           Decodes(bytes)
    PROVE  Decodes(Append(bytes, byte))
<1> DEFINE e == Encoded(bytes)
           d == Read(e.out)
           v == e.value
           w == d.value
           front == d.out
           x == v * 256 + byte
           more == Append(bytes, byte)
           f == Encoded(more)
<1>1. e \in Encoding /\ byte \in 0..255 /\ more \in Seq(Bytes)
  BY EncoderGoesOn DEF Bytes
<1>2. e.out \in Seq(Symbols) /\ e.value \in 0..15 /\ e.bits \in 0..4
  BY <1>1 DEF Encoding
<1>3. d \in Decoding
  BY <1>2, DecoderGoesOn DEF Symbols
<1>4. d.out \in Seq(Bytes) /\ d.value \in 0..127
  BY <1>3 DEF Decoding
<1>5. f = After(e.bits + 8, x, e.out, 5)
  BY <1>1, EncoderGoesOn, EncoderTakes
<1>6. Follows(bytes, e.bits, v, d.bits, w, front)
  BY DEF Decodes
<1> SUFFICES Follows(more, f.bits, f.value, Read(f.out).bits, Read(f.out).value, Read(f.out).out)
  BY DEF Decodes
<1> HIDE DEF e, d, f
<1>7. v \in 0..15 /\ w \in 0..127 /\ front \in Seq(Bytes)
  BY <1>2, <1>4
<1> HIDE DEF v, w, front
<1>8. x \in Nat
  BY <1>1, <1>7
<1> HIDE DEF x, more
\* One symbol is given out.
<1>9. ASSUME NEW s \in 0..31, f.out = e.out \o <<s>>
      PROVE  /\ w * 32 + s \in Nat
             /\ Read(f.out) = After(d.bits + 5, w * 32 + s, front, 8)
  <2>1. f.out = Append(e.out, s) /\ s \in Symbols
    BY <1>2, <1>9, Singles DEF Symbols
  <2>2. Read(f.out) = Take(d, s, 5, 8)
    BY <1>2, <2>1, DecoderGoesOn DEF d
  <2> QED
    BY <1>3, <2>1, <2>2, DecoderTakes DEF w, front
\* Two are.
<1>10. ASSUME NEW s \in 0..31, NEW t \in 0..31, f.out = e.out \o <<s, t>>,
             NEW g, g = After(d.bits + 5, w * 32 + s, front, 8)
      PROVE  /\ w * 32 + s \in Nat /\ g.value * 32 + t \in Nat
             /\ Read(f.out) = After(g.bits + 5, g.value * 32 + t, g.out, 8)
  <2>1. f.out = Append(Append(e.out, s), t) /\ s \in Symbols /\ t \in Symbols
        /\ Append(e.out, s) \in Seq(Symbols)
    <3>1. s \in Symbols /\ t \in Symbols
      BY <1>10 DEF Symbols
    <3>2. e.out \o <<s, t>> = Append(Append(e.out, s), t) /\ Append(e.out, s) \in Seq(Symbols)
      BY <1>2, <3>1, Singles
    <3> QED
      BY <1>10, <3>1, <3>2
  <2>2. Read(Append(e.out, s)) = Take(d, s, 5, 8)
    BY <1>2, <2>1, DecoderGoesOn DEF d
  <2>3. w * 32 + s \in Nat /\ Take(d, s, 5, 8) = g
    BY <1>3, <1>10, <2>1, DecoderTakes DEF w, front
  <2>4. g \in Decoding
    BY <1>3, <2>1, <2>3, DecodingStays
  <2>5. Read(f.out) = Take(g, t, 5, 8)
    BY <2>1, <2>2, <2>3, DecoderGoesOn
  <2> QED
    BY <2>1, <2>3, <2>4, <2>5, DecoderTakes
<1>11. CASE e.bits = 0
  <2> DEFINE s == (byte \div 8) % 32
  <2>1. v = 0 /\ d.bits = 0 /\ w = 0 /\ bytes = front /\ x = byte
    BY <1>1, <1>6, <1>11 DEF Follows, x
  <2>2. f = [bits |-> 3, value |-> x % 8, out |-> e.out \o <<(x \div 8) % 32>>]
    <3>1. f = After(8, x, e.out, 5)
      BY <1>5, <1>11
    <3> QED
      BY <1>8, <3>1, OfAByte
  <2>3. s \in 0..31 /\ s % 32 = s /\ byte = 8 * s + (byte % 8) /\ byte % 8 \in 0..7
    BY <1>1, BitsAtNone
  <2>4. f.out = e.out \o <<s>> /\ f.bits = 3 /\ f.value = byte % 8
    BY <2>1, <2>2
  <2> HIDE DEF s
  <2>5. Read(f.out) = After(5, s, bytes, 8)
    <3>1. Read(f.out) = After(d.bits + 5, w * 32 + s, front, 8)
      BY <1>9, <2>3, <2>4
    <3>2. d.bits + 5 = 5 /\ w * 32 + s = s
      BY <2>1, <2>3
    <3> QED
      BY <2>1, <3>1, <3>2
  <2>6. Read(f.out) = [bits |-> 5, value |-> s % 32, out |-> bytes \o <<>>]
    <3>1. s \in Nat
      BY <2>3
    <3> QED
      BY <2>5, <3>1, SymbolKept
  <2>7. bytes \o <<>> = bytes
    BY Singles DEF Bytes
  <2>8. Read(f.out).bits = 5 /\ Read(f.out).value = s /\ Read(f.out).out = bytes
    BY <2>3, <2>6, <2>7
  <2>9. more = Append(bytes, 8 * Read(f.out).value + f.value)
    BY <2>3, <2>4, <2>8 DEF more
  <2> QED
    BY <2>3, <2>4, <2>8, <2>9 DEF Follows
<1>12. CASE e.bits = 1
  <2> DEFINE s == (x \div 16) % 32
             y == w * 32 + s
  <2>1. v \in 0..1 /\ d.bits = 7 /\ bytes = Append(front, 2 * w + v)
    BY <1>6, <1>12 DEF Follows
  <2>2. f = [bits |-> 4, value |-> x % 16, out |-> e.out \o <<s>>]
    <3>1. f = After(9, x, e.out, 5)
      BY <1>5, <1>12
    <3> QED
      BY <1>8, <3>1, OfAByte
  <2>3. /\ s \in 0..31 /\ (y \div 16) % 256 = 2 * w + v
        /\ byte = 16 * (y % 16) + (x % 16) /\ x % 16 \in 0..15
    <3>1. AtOne(byte, v, w)
      BY <1>1, <1>7, <2>1, BitsAtOne
    <3> QED
      BY <3>1 DEF AtOne, x
  <2>4. f.out = e.out \o <<s>> /\ f.bits = 4 /\ f.value = x % 16
    BY <2>2
  <2> HIDE DEF s
  <2>5. y \in Nat /\ Read(f.out) = After(12, y, front, 8)
    <3>1. y \in Nat /\ Read(f.out) = After(d.bits + 5, y, front, 8)
      BY <1>9, <2>3, <2>4
    <3>2. d.bits + 5 = 12
      BY <2>1
    <3> QED
      BY <3>1, <3>2
  <2> HIDE DEF y
  <2>6. Read(f.out) = [bits |-> 4, value |-> y % 16, out |-> front \o <<(y \div 16) % 256>>]
    BY <2>5, AfterTwelve
  <2>7. front \o <<(y \div 16) % 256>> = bytes
    <3>1. 2 * w + v \in 0..255
      BY <1>7, <2>1
    <3>2. \A last \in 0..255 : front \o <<last>> = Append(front, last)
      BY <1>7, Singles DEF Bytes
    <3>3. front \o <<(y \div 16) % 256>> = front \o <<2 * w + v>>
      BY <2>3
    <3> QED
      BY <2>1, <3>1, <3>2, <3>3
  <2>8. /\ Read(f.out).bits = 4 /\ Read(f.out).value = y % 16 /\ Read(f.out).out = bytes
        /\ y % 16 \in 0..15
    <3>1. y % 16 \in 0..15
      BY <2>5
    <3> QED
      BY <2>6, <2>7, <3>1
  <2>9. more = Append(bytes, 16 * Read(f.out).value + f.value)
    BY <2>3, <2>4, <2>8 DEF more
  <2> QED
    BY <2>3, <2>4, <2>8, <2>9 DEF Follows
<1>13. CASE e.bits = 2
  <2> DEFINE s == (x \div 32) % 32
             t == x % 32
             y == w * 32 + s
             g == After(d.bits + 5, y, front, 8)
             z == (y % 8) * 32 + t
  <2>1. v \in 0..3 /\ d.bits = 6 /\ w \in 0..63
        /\ bytes = Append(front, 4 * w + v)
    BY <1>2, <1>6, <1>13 DEF Follows
  <2>2. f = [bits |-> 0, value |-> 0, out |-> e.out \o <<s, t>>]
    <3>1. f = After(10, x, e.out, 5)
      BY <1>5, <1>13
    <3> QED
      BY <1>8, <3>1, OfAByte
  <2>3. /\ s \in 0..31 /\ t \in 0..31 /\ (y \div 8) % 256 = 4 * w + v
        /\ z % 256 = byte
    <3>1. AtTwo(byte, v, w)
      BY <1>1, <1>7, <2>1, BitsAtTwo
    <3> QED
      BY <3>1 DEF AtTwo, x
  <2>4. f.out = e.out \o <<s, t>> /\ f.bits = 0 /\ f.value = 0
    BY <2>2
  <2>5. y \in Nat /\ g.value * 32 + t \in Nat
        /\ Read(f.out) = After(g.bits + 5, g.value * 32 + t, g.out, 8)
    <3>1. g = After(d.bits + 5, w * 32 + s, front, 8)
      OBVIOUS
    <3>2. s \in 0..31 /\ t \in 0..31 /\ f.out = e.out \o <<s, t>>
      BY <2>3, <2>4
    <3> HIDE DEF s, t, g
    <3> QED
      BY <1>10, <3>1, <3>2
  <2>6. g = [bits |-> 3, value |-> y % 8, out |-> front \o <<(y \div 8) % 256>>]
    <3>1. g = After(11, y, front, 8)
      BY <2>1
    <3>2. y \in Nat
      BY <2>5
    <3> HIDE DEF y, g
    <3> QED
      BY <3>1, <3>2, AfterEleven
  <2>7. front \o <<(y \div 8) % 256>> = bytes
    <3>1. 4 * w + v \in 0..255
      BY <2>1
    <3>2. \A last \in 0..255 : front \o <<last>> = Append(front, last)
      BY <1>7, Singles DEF Bytes
    <3>3. front \o <<(y \div 8) % 256>> = front \o <<4 * w + v>>
      BY <2>3
    <3> QED
      BY <2>1, <3>1, <3>2, <3>3
  <2> HIDE DEF s, t, y, g
  <2>8. g.bits = 3 /\ g.value * 32 + t = z /\ g.out = bytes
    BY <2>6, <2>7
  <2>9. z \in Nat /\ Read(f.out) = After(8, z, bytes, 8)
    BY <2>5, <2>8
  <2> HIDE DEF z
  <2>10. Read(f.out) = [bits |-> 0, value |-> 0, out |-> bytes \o <<z % 256>>]
    BY <2>9, AfterEight
  <2>11. bytes \o <<z % 256>> = more
    BY <2>3, Singles DEF more
  <2>12. Read(f.out).bits = 0 /\ Read(f.out).value = 0 /\ Read(f.out).out = more
    BY <2>10, <2>11
  <2> QED
    BY <2>4, <2>12 DEF Follows
<1>14. CASE e.bits = 3
  <2> DEFINE s == (x \div 64) % 32
             t == (x \div 2) % 32
             y == w * 32 + s
             g == After(d.bits + 5, y, front, 8)
             z == (y % 4) * 32 + t
  <2>1. v \in 0..7 /\ d.bits = 5 /\ w \in 0..31
        /\ bytes = Append(front, 8 * w + v)
    BY <1>2, <1>6, <1>14 DEF Follows
  <2>2. f = [bits |-> 1, value |-> x % 2, out |-> e.out \o <<s, t>>]
    <3>1. f = After(11, x, e.out, 5)
      BY <1>5, <1>14
    <3> QED
      BY <1>8, <3>1, OfAByte
  <2>3. /\ s \in 0..31 /\ t \in 0..31 /\ (y \div 4) % 256 = 8 * w + v
        /\ byte = 2 * (z % 128) + (x % 2) /\ x % 2 \in 0..1
    <3>1. AtThree(byte, v, w)
      BY <1>1, <1>7, <2>1, BitsAtThree
    <3> QED
      BY <3>1 DEF AtThree, x
  <2>4. f.out = e.out \o <<s, t>> /\ f.bits = 1 /\ f.value = x % 2
    BY <2>2
  <2>5. y \in Nat /\ g.value * 32 + t \in Nat
        /\ Read(f.out) = After(g.bits + 5, g.value * 32 + t, g.out, 8)
    <3>1. g = After(d.bits + 5, w * 32 + s, front, 8)
      OBVIOUS
    <3>2. s \in 0..31 /\ t \in 0..31 /\ f.out = e.out \o <<s, t>>
      BY <2>3, <2>4
    <3> HIDE DEF s, t, g
    <3> QED
      BY <1>10, <3>1, <3>2
  <2>6. g = [bits |-> 2, value |-> y % 4, out |-> front \o <<(y \div 4) % 256>>]
    <3>1. g = After(10, y, front, 8)
      BY <2>1
    <3>2. y \in Nat
      BY <2>5
    <3> HIDE DEF y, g
    <3> QED
      BY <3>1, <3>2, AfterTen
  <2>7. front \o <<(y \div 4) % 256>> = bytes
    <3>1. 8 * w + v \in 0..255
      BY <2>1
    <3>2. \A last \in 0..255 : front \o <<last>> = Append(front, last)
      BY <1>7, Singles DEF Bytes
    <3>3. front \o <<(y \div 4) % 256>> = front \o <<8 * w + v>>
      BY <2>3
    <3> QED
      BY <2>1, <3>1, <3>2, <3>3
  <2> HIDE DEF s, t, y, g
  <2>8. g.bits = 2 /\ g.value * 32 + t = z /\ g.out = bytes
    BY <2>6, <2>7
  <2>9. z \in Nat /\ Read(f.out) = After(7, z, bytes, 8)
    BY <2>5, <2>8
  <2> HIDE DEF z
  <2>10. Read(f.out) = [bits |-> 7, value |-> z % 128, out |-> bytes \o <<>>]
    BY <2>9, SymbolKept
  <2>11. bytes \o <<>> = bytes
    BY Singles DEF Bytes
  <2>12. Read(f.out).bits = 7 /\ Read(f.out).value = z % 128 /\ Read(f.out).out = bytes
         /\ z % 128 \in 0..127
    BY <2>9, <2>10, <2>11
  <2>13. more = Append(bytes, 2 * Read(f.out).value + f.value)
    BY <2>3, <2>4, <2>12 DEF more
  <2> QED
    BY <2>3, <2>4, <2>12, <2>13 DEF Follows
<1>15. CASE e.bits = 4
  <2> DEFINE s == (x \div 128) % 32
             t == (x \div 4) % 32
             y == w * 32 + s
             g == After(d.bits + 5, y, front, 8)
             z == (y % 2) * 32 + t
  <2>1. v \in 0..15 /\ d.bits = 4 /\ w \in 0..15
        /\ bytes = Append(front, 16 * w + v)
    BY <1>2, <1>6, <1>15 DEF Follows
  <2>2. f = [bits |-> 2, value |-> x % 4, out |-> e.out \o <<s, t>>]
    <3>1. f = After(12, x, e.out, 5)
      BY <1>5, <1>15
    <3> QED
      BY <1>8, <3>1, OfAByte
  <2>3. /\ s \in 0..31 /\ t \in 0..31 /\ (y \div 2) % 256 = 16 * w + v
        /\ byte = 4 * (z % 64) + (x % 4) /\ x % 4 \in 0..3
    <3>1. AtFour(byte, v, w)
      BY <1>1, <1>7, <2>1, BitsAtFour
    <3> QED
      BY <3>1 DEF AtFour, x
  <2>4. f.out = e.out \o <<s, t>> /\ f.bits = 2 /\ f.value = x % 4
    BY <2>2
  <2>5. y \in Nat /\ g.value * 32 + t \in Nat
        /\ Read(f.out) = After(g.bits + 5, g.value * 32 + t, g.out, 8)
    <3>1. g = After(d.bits + 5, w * 32 + s, front, 8)
      OBVIOUS
    <3>2. s \in 0..31 /\ t \in 0..31 /\ f.out = e.out \o <<s, t>>
      BY <2>3, <2>4
    <3> HIDE DEF s, t, g
    <3> QED
      BY <1>10, <3>1, <3>2
  <2>6. g = [bits |-> 1, value |-> y % 2, out |-> front \o <<(y \div 2) % 256>>]
    <3>1. g = After(9, y, front, 8)
      BY <2>1
    <3>2. y \in Nat
      BY <2>5
    <3> HIDE DEF y, g
    <3> QED
      BY <3>1, <3>2, AfterNine
  <2>7. front \o <<(y \div 2) % 256>> = bytes
    <3>1. 16 * w + v \in 0..255
      BY <2>1
    <3>2. \A last \in 0..255 : front \o <<last>> = Append(front, last)
      BY <1>7, Singles DEF Bytes
    <3>3. front \o <<(y \div 2) % 256>> = front \o <<16 * w + v>>
      BY <2>3
    <3> QED
      BY <2>1, <3>1, <3>2, <3>3
  <2> HIDE DEF s, t, y, g
  <2>8. g.bits = 1 /\ g.value * 32 + t = z /\ g.out = bytes
    BY <2>6, <2>7
  <2>9. z \in Nat /\ Read(f.out) = After(6, z, bytes, 8)
    BY <2>5, <2>8
  <2> HIDE DEF z
  <2>10. Read(f.out) = [bits |-> 6, value |-> z % 64, out |-> bytes \o <<>>]
    BY <2>9, SymbolKept
  <2>11. bytes \o <<>> = bytes
    BY Singles DEF Bytes
  <2>12. Read(f.out).bits = 6 /\ Read(f.out).value = z % 64 /\ Read(f.out).out = bytes
         /\ z % 64 \in 0..63
    BY <2>9, <2>10, <2>11
  <2>13. more = Append(bytes, 4 * Read(f.out).value + f.value)
    BY <2>3, <2>4, <2>12 DEF more
  <2> QED
    BY <2>3, <2>4, <2>12, <2>13 DEF Follows
<1>16. e.bits = 0 \/ e.bits = 1 \/ e.bits = 2 \/ e.bits = 3 \/ e.bits = 4
  BY <1>2
<1> QED
  BY <1>11, <1>12, <1>13, <1>14, <1>15, <1>16

\* A sequence that is not empty is one with its last element appended.
LEMMA LastAppended ==
    ASSUME NEW D, NEW seq \in Seq(D), seq # <<>>
    PROVE  \E front \in Seq(D), last \in D : Len(seq) = Len(front) + 1 /\ seq = Append(front, last)
<1>0. PICK n \in Nat : Len(seq) = n + 1
  <2>1. Len(seq) \in Nat /\ Len(seq) # 0
    OBVIOUS
  <2>2. Len(seq) - 1 \in Nat /\ Len(seq) = (Len(seq) - 1) + 1
    BY <2>1
  <2> QED
    BY <2>2
<1> DEFINE front == [i \in 1..n |-> seq[i]]
<1>1. front \in Seq(D) /\ Len(front) = n /\ seq[n + 1] \in D
  BY <1>0
<1>2. Append(front, seq[n + 1]) = seq
  <2> DEFINE whole == Append(front, seq[n + 1])
  <2>1. whole \in Seq(D) /\ Len(whole) = n + 1 /\ whole[n + 1] = seq[n + 1]
        /\ \A i \in 1..n : whole[i] = front[i]
    BY <1>1, AppendProperties
  <2>2. \A i \in 1..n : front[i] = seq[i]
    OBVIOUS
  <2> HIDE DEF whole, front
  <2>3. \A i \in 1 .. n + 1 : whole[i] = seq[i]
    BY <2>1, <2>2
  <2>4. whole = seq
    BY <1>0, <2>1, <2>3, SeqEqual
  <2> QED
    BY <2>4 DEF whole
<1> QED
  BY <1>0, <1>1, <1>2

LEMMA EveryPrefixDecodes == \A bytes \in Seq(Bytes) : Decodes(bytes)
<1> DEFINE Good == {n \in Nat : \A bytes \in Seq(Bytes) : Len(bytes) = n => Decodes(bytes)}
<1>1. 0 \in Good
  <2>1. Decodes(<<>>)
    <3>1. Encoded(<<>>) = Start /\ Read(<<>>) = Start
      BY RegroupStarts DEF Encoded, Read
    <3>2. Start.bits = 0 /\ Start.value = 0 /\ Start.out = <<>>
      BY DEF Start
    <3> QED
      BY <3>1, <3>2 DEF Decodes, Follows
  <2>2. \A bytes \in Seq(Bytes) : Len(bytes) = 0 => bytes = <<>>
    OBVIOUS
  <2> QED
    BY <2>1, <2>2
<1>2. ASSUME NEW n \in Nat, n \in Good  PROVE n + 1 \in Good
  <2> SUFFICES ASSUME NEW bytes \in Seq(Bytes), Len(bytes) = n + 1  PROVE Decodes(bytes)
    OBVIOUS
  <2>1. PICK front \in Seq(Bytes), last \in Bytes : Len(bytes) = Len(front) + 1 /\ bytes = Append(front, last)
    <3>1. bytes # <<>>
      OBVIOUS
    <3> QED
      BY <3>1, LastAppended
  <2>2. Decodes(front)
    <3>1. Len(front) \in Nat
      OBVIOUS
    <3>2. Len(front) = n
      BY <2>1, <3>1
    <3> QED
      BY <1>2, <3>2
  <2> QED
    BY <2>1, <2>2, FollowsGoesOn
<1> HIDE DEF Good
<1>3. \A n \in Nat : n \in Good
  BY <1>1, <1>2, Induct
<1> QED
  BY <1>3 DEF Good

\* Nothing is dropped from what is all symbols.
LEMMA SymbolsAreTyped ==
    ASSUME NEW text \in Seq(Symbols)  PROVE Typed(text) = text
<1> DEFINE kept == {i \in DOMAIN text : text[i] # Dash}
           Place(i) == Cardinality({j \in kept : j <= i})
           n == Len(text)
<1>1. n \in Nat /\ DOMAIN text = 1..n /\ kept = 1..n
  <2>1. n \in Nat /\ DOMAIN text = 1..n
    OBVIOUS
  <2>2. ASSUME NEW i \in 1..n  PROVE text[i] # Dash
    <3>1. text[i] \in Symbols
      BY <2>1, <2>2
    <3>2. \A symbol \in Symbols : symbol # Dash
      BY DEF Dash, Symbols
    <3> QED
      BY <3>1, <3>2
  <2> QED
    BY <2>1, <2>2
<1>2. ASSUME NEW i \in 1..n  PROVE Place(i) = i
  <2>1. {j \in kept : j <= i} = 1..i
    BY <1>1, <1>2
  <2>2. Cardinality(1..i) = i
    BY <1>2, FS_Interval
  <2> QED
    BY <2>1, <2>2
<1>3. Cardinality(kept) = n
  <2>1. Cardinality(1..n) = n
    BY <1>1, FS_Interval
  <2> QED
    BY <1>1, <2>1
<1>4. Typed(text) = [k \in 1..Cardinality(kept) |-> text[CHOOSE i \in kept : Place(i) = k]]
  BY DEF Typed
<1> HIDE DEF kept, Place, n
<1>5. ASSUME NEW k \in 1..n  PROVE (CHOOSE i \in kept : Place(i) = k) = k
  BY <1>1, <1>2, <1>5
<1>6. Typed(text) = [k \in 1..n |-> text[k]]
  BY <1>3, <1>4, <1>5
<1> QED
  BY <1>1, <1>6

\* What base32Decode makes of the text of base32Encode is what was encoded, for
\* bytes of any number: the secret that is enrolled as a text is the one that
\* codes are later checked with (totp.ts base32Encode, base32Decode).
THEOREM Base32RoundTrip ==
    ASSUME NEW bytes \in Seq(Bytes)
    PROVE  /\ Base32Encode(bytes) \in Seq(Symbols)
           /\ Base32Decode(Base32Encode(bytes)) = bytes
<1> DEFINE e == Encoded(bytes)
           d == Read(e.out)
           v == e.value
           w == d.value
           front == d.out
           text == Base32Encode(bytes)
           symbol == v * 2^(5 - e.bits)
           y == w * 32 + symbol
<1>1. 0 \in Bytes /\ 0 \in Symbols
  BY DEF Bytes, Symbols
<1>2. e \in Encoding
  BY <1>1, EncoderGoesOn
<1>3. e.out \in Seq(Symbols) /\ v \in 0..15 /\ e.bits \in 0..4
  BY <1>2 DEF Encoding
<1>4. d \in Decoding
  BY <1>1, <1>3, DecoderGoesOn
<1>5. front \in Seq(Bytes) /\ w \in 0..127
  BY <1>4 DEF Decoding
<1>6. Follows(bytes, e.bits, v, d.bits, w, front)
  BY EveryPrefixDecodes DEF Decodes
<1>7. text = IF e.bits > 0 THEN Append(e.out, symbol) ELSE e.out
  BY DEF Base32Encode, Encoded
<1>8. \A t \in Seq(Symbols) : Base32Decode(t) = Read(t).out
  BY SymbolsAreTyped DEF Base32Decode, Read
<1> HIDE DEF e, d, v, w, front, text
<1>9. CASE e.bits = 0
  <2>1. text = e.out /\ bytes = front
    BY <1>6, <1>7, <1>9 DEF Follows
  <2> QED
    BY <1>3, <1>8, <2>1 DEF text, front, d
\* The bits that are left are filled up to a symbol, which ends the last byte.
<1>10. ASSUME e.bits > 0, symbol \in 0..31, NEW last \in 0..255,
              After(d.bits + 5, y, front, 8).out = front \o <<last>>,
              bytes = Append(front, last)
       PROVE  text \in Seq(Symbols) /\ Base32Decode(text) = bytes
  <2>1. text = Append(e.out, symbol) /\ symbol \in Symbols
    BY <1>7, <1>10 DEF Symbols
  <2> HIDE DEF symbol
  <2>2. text \in Seq(Symbols)
    BY <1>3, <2>1
  <2>3. Read(text) = Take(d, symbol, 5, 8)
    BY <1>3, <2>1, DecoderGoesOn DEF d
  <2>4. Read(text) = After(d.bits + 5, y, front, 8)
    BY <1>4, <2>1, <2>3, DecoderTakes DEF w, front
  <2>5. front \o <<last>> = bytes
    BY <1>5, <1>10, Singles DEF Bytes
  <2>6. Read(text).out = bytes
    BY <1>10, <2>4, <2>5
  <2> QED
    BY <1>8, <2>2, <2>6
<1>11. CASE e.bits = 1
  <2>1. v \in 0..1 /\ d.bits = 7 /\ w \in 0..127 /\ bytes = Append(front, 2 * w + v)
    BY <1>6, <1>11 DEF Follows
  <2>2. PICK last \in 0..255 : last = 2 * w + v
    BY <2>1
  <2>3. symbol = 16 * v
    BY <1>3, <1>11
  <2> HIDE DEF symbol
  <2>4. symbol \in 0..31 /\ y = 16 * last + 0 /\ last \in Nat
    BY <2>1, <2>2, <2>3
  <2>5. y \in Nat
    BY <2>4
  <2>6. y \div 16 = last
    BY <2>4, PartsAre
  <2> HIDE DEF y
  <2>7. After(12, y, front, 8) = [bits |-> 4, value |-> y % 16, out |-> front \o <<(y \div 16) % 256>>]
    BY <2>5, AfterTwelve
  <2>8. (y \div 16) % 256 = last
    <3>1. \A m \in 0..255 : m % 256 = m
      OBVIOUS
    <3> QED
      BY <2>2, <2>6, <3>1
  <2>9. d.bits + 5 = 12 /\ e.bits > 0
    BY <2>1, <1>11
  <2>10. After(d.bits + 5, y, front, 8).out = front \o <<last>>
    BY <2>7, <2>8, <2>9
  <2>11. bytes = Append(front, last)
    BY <2>1, <2>2
  <2> QED
    BY <1>10, <2>4, <2>9, <2>10, <2>11 DEF text
<1>12. CASE e.bits = 2
  <2>1. v \in 0..3 /\ d.bits = 6 /\ w \in 0..63 /\ bytes = Append(front, 4 * w + v)
    BY <1>6, <1>12 DEF Follows
  <2>2. PICK last \in 0..255 : last = 4 * w + v
    BY <2>1
  <2>3. symbol = 8 * v
    BY <1>3, <1>12
  <2> HIDE DEF symbol
  <2>4. symbol \in 0..31 /\ y = 8 * last + 0 /\ last \in Nat
    BY <2>1, <2>2, <2>3
  <2>5. y \in Nat
    BY <2>4
  <2>6. y \div 8 = last
    BY <2>4, PartsAre
  <2> HIDE DEF y
  <2>7. After(11, y, front, 8) = [bits |-> 3, value |-> y % 8, out |-> front \o <<(y \div 8) % 256>>]
    BY <2>5, AfterEleven
  <2>8. (y \div 8) % 256 = last
    <3>1. \A m \in 0..255 : m % 256 = m
      OBVIOUS
    <3> QED
      BY <2>2, <2>6, <3>1
  <2>9. d.bits + 5 = 11 /\ e.bits > 0
    BY <2>1, <1>12
  <2>10. After(d.bits + 5, y, front, 8).out = front \o <<last>>
    BY <2>7, <2>8, <2>9
  <2>11. bytes = Append(front, last)
    BY <2>1, <2>2
  <2> QED
    BY <1>10, <2>4, <2>9, <2>10, <2>11 DEF text
<1>13. CASE e.bits = 3
  <2>1. v \in 0..7 /\ d.bits = 5 /\ w \in 0..31 /\ bytes = Append(front, 8 * w + v)
    BY <1>6, <1>13 DEF Follows
  <2>2. PICK last \in 0..255 : last = 8 * w + v
    BY <2>1
  <2>3. symbol = 4 * v
    BY <1>3, <1>13
  <2> HIDE DEF symbol
  <2>4. symbol \in 0..31 /\ y = 4 * last + 0 /\ last \in Nat
    BY <2>1, <2>2, <2>3
  <2>5. y \in Nat
    BY <2>4
  <2>6. y \div 4 = last
    BY <2>4, PartsAre
  <2> HIDE DEF y
  <2>7. After(10, y, front, 8) = [bits |-> 2, value |-> y % 4, out |-> front \o <<(y \div 4) % 256>>]
    BY <2>5, AfterTen
  <2>8. (y \div 4) % 256 = last
    <3>1. \A m \in 0..255 : m % 256 = m
      OBVIOUS
    <3> QED
      BY <2>2, <2>6, <3>1
  <2>9. d.bits + 5 = 10 /\ e.bits > 0
    BY <2>1, <1>13
  <2>10. After(d.bits + 5, y, front, 8).out = front \o <<last>>
    BY <2>7, <2>8, <2>9
  <2>11. bytes = Append(front, last)
    BY <2>1, <2>2
  <2> QED
    BY <1>10, <2>4, <2>9, <2>10, <2>11 DEF text
<1>14. CASE e.bits = 4
  <2>1. v \in 0..15 /\ d.bits = 4 /\ w \in 0..15 /\ bytes = Append(front, 16 * w + v)
    BY <1>6, <1>14 DEF Follows
  <2>2. PICK last \in 0..255 : last = 16 * w + v
    BY <2>1
  <2>3. symbol = 2 * v
    BY <1>3, <1>14
  <2> HIDE DEF symbol
  <2>4. symbol \in 0..31 /\ y = 2 * last + 0 /\ last \in Nat
    BY <2>1, <2>2, <2>3
  <2>5. y \in Nat
    BY <2>4
  <2>6. y \div 2 = last
    BY <2>4, PartsAre
  <2> HIDE DEF y
  <2>7. After(9, y, front, 8) = [bits |-> 1, value |-> y % 2, out |-> front \o <<(y \div 2) % 256>>]
    BY <2>5, AfterNine
  <2>8. (y \div 2) % 256 = last
    <3>1. \A m \in 0..255 : m % 256 = m
      OBVIOUS
    <3> QED
      BY <2>2, <2>6, <3>1
  <2>9. d.bits + 5 = 9 /\ e.bits > 0
    BY <2>1, <1>14
  <2>10. After(d.bits + 5, y, front, 8).out = front \o <<last>>
    BY <2>7, <2>8, <2>9
  <2>11. bytes = Append(front, last)
    BY <2>1, <2>2
  <2> QED
    BY <1>10, <2>4, <2>9, <2>10, <2>11 DEF text
<1> QED
  BY <1>3, <1>9, <1>11, <1>12, <1>13, <1>14 DEF text

LEMMA SecretsSurvive == \A bytes \in Secrets : Base32Decode(Base32Encode(bytes)) = bytes
  BY SecretsAssumption, Base32RoundTrip DEF Bytes

-----------------------------------------------------------------------------
(* The second factor: verifications of one-time codes beside the use of     *)
(* recovery codes.                                                          *)

twoFactorVars == <<totpVars, recoveryVars>>

TwoFactorSpec ==
    /\ TwoFactorInit
    /\ [][\/ TotpNext /\ UNCHANGED recoveryVars
          \/ RecoveryNext /\ UNCHANGED totpVars]_twoFactorVars

Verifications == [matched : Int, read : Int, honest : BOOLEAN]

\* As long as no two verifications overlapped, what the one under way has read
\* is still in the store, and the store holds the highest step.
InTurn ==
    /\ highest = lastAccepted /\ ~reused
    /\ \A v, w \in Verifiers : UnderWay(v) /\ UnderWay(w) => v = w
    /\ \A v \in Verifiers : UnderWay(v) => verifying[v].read = lastAccepted

\* An honest code is of a step past all that was accepted when it was shown.
CodesInv ==
    /\ current \in Nat /\ lastAccepted \in Int /\ highest \in Int
    /\ verifying \in [Verifiers -> Verifications]
    /\ overlapped \in BOOLEAN
    /\ lastAccepted <= highest
    /\ secret.text = Base32Encode(secret.bytes) /\ secret.bytes \in Secrets
    /\ ~overlapped => InTurn

HonestInv ==
    /\ ~wronged
    /\ \A v \in Verifiers : verifying[v].honest => verifying[v].read < verifying[v].matched

LEMMA MinOfNat ==
    ASSUME NEW S \in SUBSET Nat, S # {}
    PROVE  Min(S) \in S /\ \A y \in S : Min(S) <= y
<1> DEFINE R == OpToRel(<, Nat)
<1>1. \A x, y \in Nat : <<x, y>> \in R <=> x < y
  BY DEF OpToRel
<1>2. PICK x \in S : \A y \in S : ~(<<y, x>> \in R)
  <2> HIDE DEF R
  <2> QED
    BY WFMin, NatLessThanWellFounded DEF R
<1> HIDE DEF R
<1>3. ASSUME NEW y \in S
      PROVE  x <= y
  <2>1. x \in Nat /\ y \in Nat
    OBVIOUS
  <2>2. ~(y < x)
    BY <1>1, <1>2, <2>1
  <2> QED
    BY <2>1, <2>2
<1>4. Min(S) = CHOOSE z \in S : \A y \in S : z =< y
  BY DEF Min
<1> QED
  BY <1>3, <1>4

LEMMA MaxOfTwo ==
    ASSUME NEW m \in Int, NEW n \in Int
    PROVE  Max({m, n}) = IF m < n THEN n ELSE m
  BY DEF Max

\* A code is matched with the first step in the window that has its digits.
LEMMA Matching ==
    ASSUME CodesInv, NEW bytes, NEW shown
    PROVE  LET code == Hotp(bytes, shown) IN
           /\ MatchTotpCode(code) \in Int
           /\ Honest(bytes, shown) =>
                 MatchTotpCode(code) = shown /\ shown > highest /\ shown \in Nat
<1> DEFINE code == Hotp(bytes, shown)
           held == Base32Decode(secret.text)
           window == {step \in current - DriftSteps..current + DriftSteps : step >= 0}
           hits == {step \in window : Hotp(held, step) = code}
<1>1. window \in SUBSET Nat /\ \A step \in window : step \in Int
  BY DEF CodesInv
<1>2. MatchTotpCode(code) = IF hits = {} THEN NoStep ELSE Min(hits)
  <2>1. hits = {step \in current - DriftSteps..current + DriftSteps :
                   step >= 0 /\ Hotp(Base32Decode(secret.text), step) = code}
    OBVIOUS
  <2> HIDE DEF hits, code
  <2> QED
    BY <2>1 DEF MatchTotpCode
<1>3. \A step : Hotp(held, step) = code <=> held = bytes /\ Truncated[step] = Truncated[shown]
  BY DEF Hotp
<1>4. Honest(bytes, shown) <=>
         /\ bytes = secret.bytes /\ shown \in window /\ shown > highest
         /\ \A step \in window : step < shown => Truncated[step] # Truncated[shown]
  BY DEF Honest
<1>5. held = secret.bytes
  BY SecretsSurvive DEF CodesInv
<1> HIDE DEF code, held, window
<1>6. hits \in SUBSET Nat /\ \A step \in hits : step \in Int
  BY <1>1
<1>7. hits # {} => Min(hits) \in hits /\ \A step \in hits : Min(hits) <= step
  BY <1>6, MinOfNat
<1>8. MatchTotpCode(code) \in Int
  <2> HIDE DEF hits
  <2>1. CASE hits = {}
    BY <1>2, <2>1 DEF NoStep
  <2>2. CASE hits # {}
    <3>1. Min(hits) \in hits
      BY <1>7, <2>2
    <3>2. Min(hits) \in Int
      BY <1>6, <3>1
    <3>3. MatchTotpCode(code) = Min(hits)
      BY <1>2, <2>2
    <3> QED
      BY <3>2, <3>3
  <2> QED
    BY <2>1, <2>2
<1>9. ASSUME Honest(bytes, shown)
      PROVE  MatchTotpCode(code) = shown /\ shown > highest /\ shown \in Nat
  <2>1. shown \in hits /\ shown \in Nat /\ shown > highest
    BY <1>1, <1>3, <1>4, <1>5, <1>9
  <2>2. \A step \in hits : step \in Nat /\ ~(step < shown)
    BY <1>1, <1>3, <1>4, <1>9
  <2> HIDE DEF hits
  <2>3. PICK least : least = Min(hits)
    OBVIOUS
  <2>4. least \in hits /\ least <= shown
    BY <1>7, <2>1, <2>3
  <2>5. least \in Nat /\ ~(least < shown)
    BY <2>2, <2>4
  <2>6. least = shown
    BY <2>1, <2>4, <2>5
  <2> QED
    BY <1>2, <2>1, <2>3, <2>6
<1> QED
  BY <1>8, <1>9 DEF code

LEMMA CodesInvInit == TwoFactorInit => CodesInv /\ HonestInv
<1> SUFFICES ASSUME TwoFactorInit
             PROVE  CodesInv /\ HonestInv
  OBVIOUS
<1>1. /\ current = 0 /\ lastAccepted = -1 /\ highest = -1 /\ overlapped = FALSE /\ reused = FALSE
      /\ wronged = FALSE
      /\ verifying = [v \in Verifiers |-> Waiting]
  BY DEF TwoFactorInit, NoStep
<1>2. Waiting \in Verifications /\ Waiting.honest = FALSE
  BY DEF Waiting, Verifications, NoStep
<1>3. \A v \in Verifiers : verifying[v] = Waiting /\ ~UnderWay(v)
  BY <1>1 DEF UnderWay
<1>4. secret.text = Base32Encode(secret.bytes) /\ secret.bytes \in Secrets
  <2>1. PICK bytes \in Secrets : secret = CreateTotpEnrollment(bytes)
    BY DEF TwoFactorInit
  <2>2. secret.bytes = bytes /\ secret.text = Base32Encode(bytes)
    BY <2>1 DEF CreateTotpEnrollment
  <2> QED
    BY <2>2
<1>5. InTurn
  BY <1>1, <1>3 DEF InTurn
<1>6. verifying \in [Verifiers -> Verifications]
  BY <1>1, <1>2
<1>7. CodesInv
  <2>1. current \in Nat /\ lastAccepted \in Int /\ highest \in Int /\ lastAccepted <= highest
    BY <1>1
  <2>2. overlapped \in BOOLEAN
    BY <1>1
  <2> QED
    BY <1>4, <1>5, <1>6, <2>1, <2>2 DEF CodesInv
<1> QED
  BY <1>1, <1>2, <1>3, <1>7 DEF HonestInv

\* verify, up to its await.
LEMMA PresentKeeps ==
    ASSUME CodesInv, NEW v \in Verifiers, NEW bytes, NEW shown, Present(v, bytes, shown)
    PROVE  /\ CodesInv'
           /\ HonestInv => HonestInv'
<1>1. PICK matched : matched = MatchTotpCode(Hotp(bytes, shown))
  OBVIOUS
<1>2. PICK honest \in BOOLEAN : honest <=> Honest(bytes, shown)
  OBVIOUS
<1>3. Honest(bytes, shown) = honest
  BY <1>2 DEF Honest
<1>4. /\ matched \in Int
      /\ honest =>
            matched > highest /\ matched \in Nat
  BY <1>1, <1>2, Matching
<1>5. /\ UNCHANGED <<secret, current, lastAccepted, highest, reused>> /\ ~UnderWay(v)
  BY DEF Present
<1>6. CASE matched = NoStep
  <2>1. UNCHANGED <<verifying, overlapped>> /\ (wronged' <=> wronged \/ honest)
    BY <1>1, <1>2, <1>6 DEF Present
  <2>2. CodesInv'
    BY <1>5, <2>1 DEF CodesInv, InTurn, UnderWay
  <2>3. ~honest
    BY <1>4, <1>6 DEF NoStep
  <2> QED
    BY <2>1, <2>2, <2>3 DEF HonestInv
<1>7. CASE matched # NoStep
  <2>1. PICK made : made = [matched |-> matched, read |-> lastAccepted, honest |-> honest]
    OBVIOUS
  <2>2. /\ verifying' = [verifying EXCEPT ![v] = made]
        /\ overlapped' <=> overlapped \/ \E w \in Verifiers \ {v} : UnderWay(w)
        /\ overlapped' \in BOOLEAN
        /\ wronged' = wronged
    BY <1>1, <1>3, <1>7, <2>1 DEF Present
  <2>3. made \in Verifications /\ made.read = lastAccepted /\ made.matched = matched
        /\ made.honest = honest
    BY <1>4, <2>1 DEF CodesInv, Verifications
  <2>4. /\ verifying' \in [Verifiers -> Verifications] /\ verifying'[v] = made
        /\ \A w \in Verifiers \ {v} : verifying'[w] = verifying[w]
    BY <2>2, <2>3 DEF CodesInv
  <2>5. ASSUME ~overlapped'
        PROVE  InTurn'
    <3>1. InTurn /\ \A w \in Verifiers \ {v} : ~UnderWay(w) /\ ~UnderWay(w)'
      BY <2>2, <2>4, <2>5 DEF CodesInv, UnderWay
    <3> QED
      BY <1>5, <2>3, <2>4, <3>1 DEF InTurn
  <2>6. CodesInv'
    BY <1>5, <2>2, <2>4, <2>5 DEF CodesInv
  <2>7. ASSUME HonestInv
        PROVE  HonestInv'
    <3>1. honest => lastAccepted < matched
      BY <1>4, <2>7 DEF CodesInv
    <3> QED
      BY <2>2, <2>3, <2>4, <2>7, <3>1 DEF HonestInv
  <2> QED
    BY <2>6, <2>7
<1> QED
  BY <1>6, <1>7

\* verify, after its await: only a verification that is told of the store's own
\* entry may decide by it.
LEMMA DecideKeeps ==
    ASSUME CodesInv, NEW v \in Verifiers, RefuseReplay(v) \/ Accept(v)
    PROVE  CodesInv' /\ (HonestInv => HonestInv')
<1>1. /\ verifying \in [Verifiers -> Verifications] /\ verifying[v].matched \in Int
      /\ verifying[v].read \in Int
  BY DEF CodesInv, Verifications
<1>2. Waiting \in Verifications /\ Waiting.honest = FALSE
  BY DEF Waiting, Verifications, NoStep
<1>3. /\ verifying' = [verifying EXCEPT ![v] = Waiting] /\ UnderWay(v)
      /\ UNCHANGED <<secret, current, overlapped>>
  BY DEF RefuseReplay, Accept
<1>4. /\ verifying' \in [Verifiers -> Verifications] /\ verifying'[v] = Waiting /\ ~UnderWay(v)'
      /\ \A w \in Verifiers \ {v} : verifying'[w] = verifying[w]
  BY <1>1, <1>2, <1>3 DEF UnderWay
<1>5. CASE RefuseReplay(v)
  <2>1. /\ UNCHANGED <<lastAccepted, highest, reused>>
        /\ wronged' <=> wronged \/ verifying[v].honest
        /\ verifying[v].matched <= verifying[v].read
    BY <1>5 DEF RefuseReplay, Replayed
  <2>2. CodesInv'
    BY <1>3, <1>4, <2>1 DEF CodesInv, InTurn, UnderWay
  <2>3. HonestInv => ~verifying[v].honest
    BY <1>1, <2>1 DEF HonestInv
  <2> QED
    BY <1>2, <1>4, <2>1, <2>2, <2>3 DEF HonestInv
<1>6. CASE Accept(v)
  <2>1. PICK m \in Int : m = verifying[v].matched
    BY <1>1
  <2>2. /\ lastAccepted' = m /\ highest' = Max({highest, m}) /\ wronged' = wronged
        /\ reused' <=> reused \/ m <= highest
        /\ ~(m <= verifying[v].read)
    BY <1>6, <2>1 DEF Accept, Replayed
  <2>3. highest' = IF highest < m THEN m ELSE highest
    BY <2>2, MaxOfTwo DEF CodesInv
  <2>4. ASSUME ~overlapped
        PROVE  InTurn'
    <3>1. InTurn /\ verifying[v].read = highest /\ highest \in Int
      BY <1>3, <2>4 DEF CodesInv, InTurn
    <3>2. \A w \in Verifiers \ {v} : ~UnderWay(w)
      BY <1>3, <3>1 DEF InTurn
    <3>3. \A w \in Verifiers : ~UnderWay(w)'
      BY <1>4, <3>2 DEF UnderWay
    <3>4. highest < m /\ ~reused
      BY <2>1, <2>2, <3>1 DEF InTurn
    <3>5. lastAccepted' = m /\ highest' = m
      BY <2>1, <2>2, <2>3, <3>1, <3>4
    <3>6. ~reused'
      BY <2>1, <2>2, <3>1, <3>4
    <3> QED
      BY <3>3, <3>5, <3>6 DEF InTurn
  <2>5. CodesInv'
    BY <1>3, <1>4, <2>1, <2>2, <2>3, <2>4 DEF CodesInv
  <2> QED
    BY <1>2, <1>4, <2>2, <2>5 DEF HonestInv
<1> QED
  BY <1>5, <1>6

LEMMA CodesInvNext ==
    CodesInv /\ [\/ TotpNext /\ UNCHANGED recoveryVars
                 \/ RecoveryNext /\ UNCHANGED totpVars]_twoFactorVars =>
        /\ CodesInv'
        /\ HonestInv => HonestInv'
<1> SUFFICES ASSUME CodesInv, TotpNext \/ UNCHANGED totpVars
             PROVE  /\ CodesInv'
                    /\ HonestInv => HonestInv'
  BY DEF twoFactorVars
<1>1. CASE NextStep
  BY <1>1 DEF NextStep, CodesInv, HonestInv, InTurn, UnderWay
<1>2. CASE UNCHANGED totpVars
  BY <1>2 DEF totpVars, CodesInv, HonestInv, InTurn, UnderWay
<1> QED
  BY <1>1, <1>2, PresentKeeps, DecideKeeps DEF TotpNext

\* "Consuming a step burns it AND everything before it" (totp.ts verify), for any
\* number of verifications and any drift, unless two of them overlapped.
THEOREM AcceptedStepsRise == TwoFactorSpec => []StepsRise
<1>1. CodesInv => StepsRise
  BY DEF CodesInv, InTurn, StepsRise
<1> QED
  BY <1>1, CodesInvInit, CodesInvNext, PTL DEF TwoFactorSpec

\* Who types the code their authenticator shows is let in, whoever else verifies
\* what meanwhile, for secrets of any length: what base32 makes of them decodes to
\* them (totp.ts base32Encode, base32Decode, verify, matchTotpCode).
THEOREM HonestCodesAreLetIn == TwoFactorSpec => []HonestCodesPass
<1>1. CodesInv /\ HonestInv => HonestCodesPass
  BY DEF HonestInv, HonestCodesPass
<1> QED
  BY <1>1, CodesInvInit, CodesInvNext, PTL DEF TwoFactorSpec

-----------------------------------------------------------------------------
(* Recovery codes.                                                         *)

Slots == DOMAIN RecoverySecrets

Hashed == [i \in DOMAIN RecoveryCodes |-> HashRecoveryCode(RecoveryCodes[i])]

Free == {i \in Slots : ~recovery.consumed[i]}

\* What was taken is marked, and nothing else is.
RecoveryInv ==
    /\ recovery \in [hashes : {Hashed}, consumed : [Slots -> BOOLEAN]]
    /\ spent \in Seq(Slots)
    /\ \A k, l \in 1..Len(spent) : spent[k] = spent[l] => k = l
    /\ \A i \in Slots : recovery.consumed[i] <=> \E k \in 1..Len(spent) : spent[k] = i
    /\ Cardinality(Free) + Len(spent) = Len(RecoverySecrets)

LEMMA SlotsAre ==
    /\ Len(RecoverySecrets) \in Nat /\ Slots = 1..Len(RecoverySecrets)
    /\ DOMAIN Hashed = Slots
    /\ \A S \in SUBSET Slots : IsFiniteSet(S) /\ Cardinality(S) \in Nat
<1>1. Len(RecoverySecrets) \in Nat /\ Slots = 1..Len(RecoverySecrets)
  BY RecoverySecretsAssumption DEF Slots
<1>2. DOMAIN Hashed = Slots
  BY DEF Hashed, RecoveryCodes, Slots
<1>3. IsFiniteSet(Slots)
  BY <1>1, FS_Interval
<1>4. \A S \in SUBSET Slots : IsFiniteSet(S)
  BY <1>3, FS_Subset
<1> QED
  BY <1>1, <1>2, <1>4, FS_CardinalityType

LEMMA RecoveryInvInit == TwoFactorInit => RecoveryInv
<1> SUFFICES ASSUME TwoFactorInit
             PROVE  RecoveryInv
  OBVIOUS
<1>1. /\ recovery = [hashes |-> Hashed, consumed |-> [i \in DOMAIN RecoveryCodes |-> FALSE]]
      /\ spent = <<>> /\ DOMAIN RecoveryCodes = Slots
  BY DEF TwoFactorInit, Hashed, RecoveryCodes, Slots
<1>2. recovery.consumed = [i \in Slots |-> FALSE]
  BY <1>1
<1>3. recovery \in [hashes : {Hashed}, consumed : [Slots -> BOOLEAN]]
  BY <1>1
<1>4. Free = 1..Len(RecoverySecrets) /\ Len(RecoverySecrets) \in Nat
  BY <1>2, SlotsAre DEF Free
<1>5. Cardinality(Free) = Len(RecoverySecrets)
  <2>1. PICK n \in Nat : n = Len(RecoverySecrets)
    BY <1>4
  <2>2. 1 \in Int /\ n \in Int
    OBVIOUS
  <2>3. Cardinality(1..n) = IF 1 > n THEN 0 ELSE n - 1 + 1
    BY <2>2, FS_Interval
  <2>4. Cardinality(1..n) = n
    BY <2>3
  <2> QED
    BY <1>4, <2>1, <2>4
<1>6. Len(spent) = 0 /\ spent \in Seq(Slots)
  BY <1>1
<1> QED
  BY <1>1, <1>2, <1>3, <1>4, <1>5, <1>6 DEF RecoveryInv

LEMMA ConsumeKeeps ==
    ASSUME RecoveryInv, NEW code, Consume(code)
    PROVE  RecoveryInv'
<1> DEFINE hits == {i \in DOMAIN recovery.hashes :
                       recovery.hashes[i] = HashRecoveryCode(code) /\ ~recovery.consumed[i]}
<1>1. PICK i : i = Min(hits)
  OBVIOUS
<1>2. hits # {} /\ recovery' = [recovery EXCEPT !.consumed[i] = TRUE] /\ spent' = Append(spent, i)
  <2> HIDE DEF hits
  <2> QED
    BY <1>1 DEF Consume, hits
<1>3. hits \subseteq Free /\ Free \subseteq Slots
  BY SlotsAre DEF RecoveryInv, Free
<1> HIDE DEF hits
<1>4. i \in Free
  <2>1. hits \in SUBSET Nat
    BY <1>3, SlotsAre
  <2> QED
    BY <1>1, <1>2, <1>3, <2>1, MinOfNat
<1>5. i \in Slots /\ ~recovery.consumed[i]
  BY <1>4 DEF Free
<1>6. /\ recovery' \in [hashes : {Hashed}, consumed : [Slots -> BOOLEAN]]
      /\ \A j \in Slots : recovery'.consumed[j] <=> recovery.consumed[j] \/ j = i
  BY <1>2, <1>5 DEF RecoveryInv
<1>7. /\ Len(spent) \in Nat /\ spent' \in Seq(Slots) /\ Len(spent') = Len(spent) + 1
      /\ spent'[Len(spent) + 1] = i /\ \A k \in 1..Len(spent) : spent'[k] = spent[k]
  BY <1>2, <1>5 DEF RecoveryInv
<1>8. \A k \in 1..Len(spent) : spent[k] # i
  BY <1>5 DEF RecoveryInv
<1>9. PICK n \in Nat : n = Len(spent)
  BY <1>7
<1>10. \A k, l \in 1..Len(spent') : spent'[k] = spent'[l] => k = l
  <2>1. \A k, l \in 1..n + 1 : spent'[k] = spent'[l] => k = l
    <3>1. \A k, l \in 1..n : spent'[k] = spent'[l] => k = l
      BY <1>7, <1>9 DEF RecoveryInv
    <3>2. \A k \in 1..n : spent'[k] # spent'[n + 1]
      BY <1>7, <1>8, <1>9
    <3>3. \A k \in 1..n + 1 : k \in 1..n \/ k = n + 1
      OBVIOUS
    <3> QED
      BY <3>1, <3>2, <3>3
  <2> QED
    BY <1>7, <1>9, <2>1
<1>11. ASSUME NEW j \in Slots
       PROVE  recovery'.consumed[j] <=> \E k \in 1..Len(spent') : spent'[k] = j
  <2>1. recovery.consumed[j] <=> \E k \in 1..n : spent[k] = j
    BY <1>9 DEF RecoveryInv
  <2>2. /\ \A k \in 1..n : spent'[k] = spent[k] /\ k \in 1..n + 1
        /\ spent'[n + 1] = i /\ n + 1 \in 1..n + 1 /\ Len(spent') = n + 1
        /\ \A k \in 1..n + 1 : k \in 1..n \/ k = n + 1
    BY <1>7, <1>9
  <2> QED
    BY <1>6, <2>1, <2>2
<1>12. Free' = Free \ {i}
  BY <1>6 DEF Free
<1>13. Cardinality(Free') = Cardinality(Free) - 1
  <2>1. IsFiniteSet(Free)
    BY <1>3, SlotsAre
  <2> QED
    BY <1>4, <1>12, <2>1, FS_RemoveElement
<1>14. Cardinality(Free) \in Nat
  BY <1>3, SlotsAre
<1>15. Cardinality(Free') + Len(spent') = Len(RecoverySecrets)
  BY <1>7, <1>13, <1>14 DEF RecoveryInv
<1> QED
  BY <1>6, <1>7, <1>10, <1>11, <1>15 DEF RecoveryInv

\* A recovery code is taken once, however it is typed, and as many remain as were
\* not taken (recovery-codes.ts RecoveryCodeSet.consume, remainingCount).
THEOREM RecoveryCodesServeOnce == TwoFactorSpec => []RecoveryCodesBurn
<1>1. RecoveryInv => RecoveryCodesBurn
  <2> SUFFICES ASSUME RecoveryInv
               PROVE  RecoveryCodesBurn
    OBVIOUS
  <2>1. DOMAIN spent = 1..Len(spent) /\ DOMAIN recovery.consumed = Slots
    BY DEF RecoveryInv
  <2>2. IsInjective(spent)
    BY <2>1 DEF RecoveryInv, IsInjective
  <2>3. RemainingCount = Cardinality(Free)
    BY <2>1 DEF RemainingCount, Free
  <2> QED
    BY <2>2, <2>3 DEF RecoveryInv, RecoveryCodesBurn
<1>2. RecoveryInv /\ [\/ TotpNext /\ UNCHANGED recoveryVars
                      \/ RecoveryNext /\ UNCHANGED totpVars]_twoFactorVars => RecoveryInv'
  <2> SUFFICES ASSUME RecoveryInv, RecoveryNext \/ UNCHANGED recoveryVars
               PROVE  RecoveryInv'
    BY DEF twoFactorVars
  <2>1. CASE UNCHANGED recoveryVars
    BY <2>1 DEF recoveryVars, RecoveryInv, Free
  <2> QED
    BY <2>1, ConsumeKeeps DEF RecoveryNext
<1> QED
  BY <1>1, <1>2, RecoveryInvInit, PTL DEF TwoFactorSpec

\* A session token has one heir, a code opens once, a recovery code opens once,
\* and who shows a code that was not used is let in, with sessions, requests,
\* verifications and recoveries all under way together (session-service.ts,
\* totp.ts, recovery-codes.ts).
THEOREM WhatServesOnce == Spec /\ TwoFactorSpec => []SingleUse
<1>1. OneHeir /\ StepsRise /\ HonestCodesPass /\ RecoveryCodesBurn
        => SingleUse
  BY DEF SingleUse
<1> QED
  BY <1>1, RotationHasOneHeir, AcceptedStepsRise, HonestCodesAreLetIn, RecoveryCodesServeOnce, PTL
===============================================================================
