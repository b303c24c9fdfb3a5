---------------------------- MODULE ServerProofs ----------------------------
(***************************************************************************)
(* What the server keeps for itself, for every number of users, invites    *)
(* and keys: invites and the user limit (Enrolment), and the rate limiter  *)
(* (RateLimiter).                                                          *)
(***************************************************************************)
EXTENDS ServerSuite, FiniteSetTheorems, TLAPS

(***************************************************************************)
(* Registration with an invite.                                            *)
(***************************************************************************)
\* One registration at a time is between its reads and its commit, and what it
\* has read is still so; users and used invites correspond.
Registration == [account : Accounts, invite : Invites, attempt : Nat, stage : {"new", "read"},
                 count : Nat, usable : BOOLEAN]
EnrolTypes ==
    /\ now \in Nat /\ attempts \in Nat
    /\ invites \in [Invites -> [expires : Nat, consumed : BOOLEAN]]
    /\ registrations \subseteq Registration
    /\ users \subseteq [account : Accounts, invite : Invites] /\ IsFiniteSet(users)

EnrolInv ==
    /\ EnrolTypes
    /\ \A r \in registrations : r.stage = "read" =>
            /\ mu = r
            /\ r.count = Cardinality(users)
            /\ r.usable => ~invites[r.invite].consumed
    /\ \A u \in users : invites[u.invite].consumed
    /\ \A i \in Invites : invites[i].consumed => \E u \in users : u.invite = i
    /\ \A u, v \in users : u.invite = v.invite => u = v
    /\ Cardinality(users) <= UserLimit

\* An instance has its own copy of the operators of FiniteSets.
LEMMA EnrolCardinality == \A S : Enrolling!Cardinality(S) = Cardinality(S)
  BY Zenon DEF Cardinality, Enrolling!Cardinality

\* The request that Connect sends is a registration that is not served yet.
LEMMA NewRegistration ==
    ASSUME NEW a \in Accounts, NEW i \in Invites, NEW n \in Nat, NEW b \in BOOLEAN
    PROVE  LET q == [[account |-> 0, invite |-> 0, attempt |-> 0, stage |-> "none", count |-> 0, usable |-> b]
                        EXCEPT !.account = a, !.invite = i, !.attempt = n, !.stage = "new"]
           IN  q \in Registration /\ q.stage = "new"
  BY Zenon DEF Registration

\* No user is registered and no invite exists at the start.
LEMMA EnrolInit == EnrolConstants /\ Enrolling!Init => EnrolInv
  BY FS_EmptySet DEF Enrolling!Init, EnrolInv, EnrolTypes, EnrolConstants

\* Every step of a registration keeps the invariant: RegisterUser holds the
\* mutex from its reads to its commit.
LEMMA EnrolStep == EnrolConstants /\ EnrolInv /\ [Enrolling!Next]_(Enrolling!vars) => EnrolInv'
  <1> SUFFICES ASSUME EnrolConstants, EnrolInv, [Enrolling!Next]_(Enrolling!vars) PROVE EnrolInv'
    OBVIOUS
  <1> USE DEF EnrolInv, EnrolTypes, Registration, EnrolConstants
  <1>1. ASSUME NEW i \in Invites, Enrolling!CreateInvite(i) PROVE EnrolInv'
    BY <1>1 DEF Enrolling!CreateInvite
  <1>2. ASSUME NEW a \in Accounts, NEW i \in Invites, Enrolling!Connect(a, i) PROVE EnrolInv'
    <2> DEFINE new == [Enrolling!NoRequest EXCEPT !.account = a, !.invite = i, !.attempt = attempts + 1,
                                                  !.stage = "new"]
    <2>1. new \in Registration /\ new.stage = "new"
      <3>1. attempts + 1 \in Nat
        OBVIOUS
      <3> QED
        BY <3>1, NewRegistration, ZenonT(40) DEF Enrolling!NoRequest
    <2>2. registrations' = registrations \cup {new} /\ attempts' = attempts + 1
      BY <1>2, Zenon DEF Enrolling!Connect
    <2> HIDE DEF new
    <2> QED
      BY <1>2, <2>1, <2>2, SMTT(40) DEF Enrolling!Connect
  <1>3. ASSUME NEW a \in Accounts, Enrolling!Diagnose(a) \/ Enrolling!Timeout(a) PROVE EnrolInv'
    BY <1>3, Zenon DEF Enrolling!Diagnose, Enrolling!Timeout
  <1>4. ASSUME NEW r \in registrations, Enrolling!Begin(r) PROVE EnrolInv'
    <2> DEFINE new == Enrolling!Read(r)
    <2>1. /\ new \in Registration /\ new.stage = "read" /\ new.invite = r.invite
          /\ new.count = Cardinality(users) /\ (new.usable => ~invites[r.invite].consumed)
      <3> DEFINE n == Enrolling!Cardinality(users)
      <3>1. n = Cardinality(users) /\ n \in Nat
        BY FS_CardinalityType, EnrolCardinality, Zenon
      <3>2. PICK b \in BOOLEAN : b = Enrolling!Usable(r.invite)
        BY Zenon DEF Enrolling!Usable
      <3>3. b => ~invites[r.invite].consumed
        BY <3>2, Zenon DEF Enrolling!Usable
      <3>4. r \in Registration
        OBVIOUS
      <3>5. new = [r EXCEPT !.stage = "read", !.count = n, !.usable = b]
        BY <3>2, Zenon DEF Enrolling!Read
      <3> HIDE DEF Registration, EnrolInv, n, new
      <3>6. /\ new \in Registration /\ new.stage = "read" /\ new.invite = r.invite
            /\ new.count = n /\ new.usable = b
        BY <3>1, <3>4, <3>5, Zenon DEF Registration
      <3> QED
        BY <3>1, <3>3, <3>6, Zenon
    <2>2. mu' = new /\ registrations' = (registrations \ {r}) \cup {new}
          /\ UNCHANGED <<now, invites, users, attempts>>
      BY <1>4, Zenon DEF Enrolling!Begin
    <2>3. \A s \in registrations : s.stage # "read"
      BY <1>4 DEF Enrolling!Begin, Enrolling!NoRequest
    <2> HIDE DEF new
    <2> QED
      BY <2>1, <2>2, <2>3
  <1>5. ASSUME NEW r \in registrations, Enrolling!Register(r) PROVE EnrolInv'
    <2> DEFINE ok == r.count < UserLimit /\ r.usable /\ ~Enrolling!Enrolled(r.account)
               new == [account |-> r.account, invite |-> r.invite]
    <2>1. /\ registrations' = registrations \ {r} /\ UNCHANGED <<now, attempts>>
          /\ r.stage = "read" /\ mu = r
      BY <1>5, Zenon DEF Enrolling!Register, Enrolling!Answer
    <2>2. \A s \in registrations' : s.stage # "read"
      BY <2>1, Zenon
    <2>3. CASE ~ok
      BY <1>5, <2>1, <2>2, <2>3 DEF Enrolling!Register
    <2>4. CASE ok
      <3>1. /\ invites' = [invites EXCEPT ![r.invite].consumed = TRUE]
            /\ users' = users \cup {new}
        BY <1>5, <2>4, Zenon DEF Enrolling!Register
      <3>2. Cardinality(users) < UserLimit /\ ~invites[r.invite].consumed
        BY <2>1, <2>4, Zenon
      <3>3. \A u \in users : u.invite # r.invite
        BY <3>2, Zenon
      <3>4. IsFiniteSet(users') /\ Cardinality(users') <= UserLimit
        <4>1. Cardinality(users \cup {new}) = IF new \in users THEN Cardinality(users) ELSE Cardinality(users) + 1
          <5>1. IsFiniteSet(users)
            OBVIOUS
          <5> HIDE DEF new, EnrolInv
          <5> QED
            BY <5>1, FS_AddElement, Zenon
        <4>2. IsFiniteSet(users \cup {new})
          BY FS_AddElement, Zenon
        <4>3. Cardinality(users) \in Nat
          BY FS_CardinalityType, Zenon
        <4> QED
          BY <3>1, <3>2, <4>1, <4>2, <4>3
      <3>5. invites' \in [Invites -> [expires : Nat, consumed : BOOLEAN]]
        <4> DEFINE Row == [expires : Nat, consumed : BOOLEAN]
        <4>1. \A q \in Row : [q EXCEPT !.consumed = TRUE] \in Row
          BY Zenon
        <4>2. invites \in [Invites -> Row] /\ r.invite \in Invites
          OBVIOUS
        <4> HIDE DEF Row
        <4>3. invites' \in [Invites -> Row]
          BY <3>1, <4>1, <4>2, Zenon
        <4> QED
          BY <4>3, Zenon DEF Row
      <3>6. \A i \in Invites : invites'[i].consumed <=> invites[i].consumed \/ i = r.invite
        BY <3>1
      <3>7. users' \subseteq [account : Accounts, invite : Invites]
        BY <3>1
      <3>8. \A u, v \in users' : u.invite = v.invite => u = v
        BY <3>1, <3>3
      <3>9. \A u \in users' : invites'[u.invite].consumed
        BY <3>1, <3>6
      <3>10. \A i \in Invites : invites'[i].consumed => \E u \in users' : u.invite = i
        <4> SUFFICES ASSUME NEW i \in Invites, invites'[i].consumed PROVE \E u \in users' : u.invite = i
          OBVIOUS
        <4>1. new \in users' /\ new.invite = r.invite
          BY <3>1, Zenon
        <4>2. CASE i = r.invite
          BY <4>1, <4>2, Zenon
        <4>3. CASE i # r.invite
          BY <3>1, <3>6, <4>3, Zenon
        <4> QED
          BY <4>2, <4>3, Zenon
      <3> QED
        BY <2>1, <2>2, <3>4, <3>5, <3>7, <3>8, <3>9, <3>10
    <2> QED
      BY <2>3, <2>4, Zenon
  <1>6. ASSUME NEW r \in registrations, Enrolling!RollBack(r) PROVE EnrolInv'
    BY <1>6 DEF Enrolling!RollBack, Enrolling!Answer
  <1>7. CASE Enrolling!Tick
    BY <1>7 DEF Enrolling!Tick
  <1>8. CASE UNCHANGED Enrolling!vars
    BY <1>8, Zenon DEF Enrolling!vars
  <1> QED
    BY <1>1, <1>2, <1>3, <1>4, <1>5, <1>6, <1>7, <1>8, Zenon DEF Enrolling!Next

(* The invariant implies the run's properties. *)
LEMMA EnrolGoal == EnrolInv => Enrolling!ConsumedByOneUser /\ Enrolling!WithinUserLimit
  <1> SUFFICES ASSUME EnrolInv PROVE Enrolling!ConsumedByOneUser
    BY EnrolCardinality, Zenon DEF EnrolInv, Enrolling!WithinUserLimit
  <1> USE DEF EnrolInv, EnrolTypes
  <1>1. ASSUME NEW i \in Invites PROVE Cardinality({u \in users : u.invite = i}) <= 1
    <2> DEFINE S == {u \in users : u.invite = i}
    <2>1. \A u, v \in S : u = v
      OBVIOUS
    <2> HIDE DEF S
    <2>2. S = {} \/ \E u : S = {u}
      BY <2>1
    <2>4. Cardinality(S) <= 1
      <3>1. CASE S = {}
        BY <3>1, FS_EmptySet
      <3>2. CASE \E u : S = {u}
        <4>1. PICK u : S = {u}
          BY <3>2, Zenon
        <4>2. Cardinality({u}) = 1
          BY FS_Singleton, Zenon
        <4> QED
          BY <4>1, <4>2
      <3> QED
        BY <2>2, <3>1, <3>2, Zenon
    <2> QED
      BY <2>4, Zenon DEF S
  <1> QED
    BY <1>1, EnrolCardinality, Zenon DEF Enrolling!ConsumedByOneUser

(***************************************************************************)
(* The rate limiter.                                                       *)
(***************************************************************************)
\* A bucket that was idle for longer than IdleTicks would be full again.
IdleIsFull == Burst <= Rate * (IdleTicks + 1)

LimiterTypes ==
    /\ now \in Nat /\ lastTrim \in 0..now
    /\ DOMAIN buckets \subseteq LimitKeys
    /\ buckets \in [DOMAIN buckets -> [tokens : 0..Burst, last : 0..now]]
    /\ allowed \in [LimitKeys -> 0..Limiter!Counted]
    /\ \A k \in DOMAIN buckets : allowed[k] > 0

\* What a key was allowed and what is left to it is the burst and what had
\* returned when it was last used; of a key that lost its bucket, as much has
\* returned as it was allowed.
Balanced ==
    /\ \A k \in DOMAIN buckets : allowed[k] + buckets[k].tokens <= Burst + Rate * buckets[k].last
    /\ \A k \in LimitKeys \ DOMAIN buckets : allowed[k] <= Rate * now

LimiterInv ==
    /\ LimiterTypes
    /\ Cardinality(DOMAIN buckets) <= MaxKeys
    /\ IdleIsFull /\ Cardinality(Limiter!Asked) <= MaxKeys => Balanced

\* An instance has its own copy of the operators of FiniteSets.
LEMMA LimiterCardinality == \A S : Limiter!Cardinality(S) = Cardinality(S)
  BY Zenon DEF Cardinality, Limiter!Cardinality

\* What returns in two intervals is what returns in both together.
LEMMA Returned ==
    ASSUME NEW r \in Nat, NEW a \in Nat, NEW b \in Nat, a <= b
    PROVE  r * b = r * a + (b - a) * r /\ r * a <= r * b
  OBVIOUS

\* The limiter starts with an empty table.
LEMMA LimiterInit == LimiterConstants /\ Limiter!Init => LimiterInv
  <1> SUFFICES ASSUME LimiterConstants, Limiter!Init PROVE LimiterInv
    OBVIOUS
  <1>1. DOMAIN buckets = {}
    BY DEF Limiter!Init
  <1>2. Cardinality(DOMAIN buckets) = 0
    BY <1>1, FS_EmptySet, Zenon
  <1>3. Rate * MaxLimitTime \in Nat /\ Rate * 0 = 0
    BY DEF LimiterConstants
  <1>4. Limiter!Counted \in Nat
    BY <1>3 DEF Limiter!Counted, LimiterConstants
  <1>5. LimiterTypes /\ Balanced
    BY <1>1, <1>3, <1>4 DEF Limiter!Init, LimiterTypes, Balanced, LimiterConstants
  <1> QED
    BY <1>2, <1>5 DEF LimiterInv, LimiterConstants

\* The sweep of Allow keeps the buckets that are not idle, as they are.
LEMMA Sweep ==
    ASSUME LimiterConstants, LimiterTypes
    PROVE  LET T == Limiter!Trimmed IN
           /\ DOMAIN T \subseteq DOMAIN buckets
           /\ T = [j \in DOMAIN T |-> buckets[j]]
           /\ \A j \in DOMAIN buckets \ DOMAIN T : now - buckets[j].last > IdleTicks
  BY Zenon DEF LimiterTypes, LimiterConstants, Limiter!Trimmed, Limiter!Without

\* What Allow does, by the set of the buckets it keeps.
AllowKeeps(k, D) ==
    /\ D \subseteq DOMAIN buckets
    /\ LET tokens == IF k \in D THEN Limiter!MinOf(Burst, buckets[k].tokens + (now - buckets[k].last) * Rate)
                     ELSE Burst
           left == IF tokens < 1 THEN tokens ELSE tokens - 1
       IN  /\ buckets' = [j \in D \cup {k} |-> IF j = k THEN [tokens |-> left, last |-> now] ELSE buckets[j]]
           /\ allowed' = [allowed EXCEPT ![k] = IF tokens < 1 THEN @ ELSE Limiter!MinOf(@ + 1, Limiter!Counted)]
    /\ lastTrim' \in {lastTrim, now}
    /\ now' = now

\* Allow, whatever sample evictLocked takes: the table had room, or one bucket
\* of the sample made room.
LEMMA AllowCases ==
    ASSUME LimiterConstants, LimiterTypes, NEW k \in LimitKeys, Limiter!Allow(k)
    PROVE  \E T \in SUBSET DOMAIN buckets :
             /\ \A j \in DOMAIN buckets \ T : now - buckets[j].last > IdleTicks
             /\ \/ (k \in T \/ Cardinality(T) < MaxKeys) /\ AllowKeeps(k, T)
                \/ /\ k \notin T /\ Cardinality(T) >= MaxKeys
                   /\ \E v \in T : AllowKeeps(k, T \ {v})
  <1> DEFINE T == Limiter!Trimmed
  <1>1. /\ DOMAIN T \subseteq DOMAIN buckets
        /\ T = [j \in DOMAIN T |-> buckets[j]]
        /\ \A j \in DOMAIN buckets \ DOMAIN T : now - buckets[j].last > IdleTicks
    BY Sweep, Zenon
  <1>2. PICK sample \in SUBSET DOMAIN T :
          \E victim \in IF k \notin DOMAIN T /\ Limiter!Cardinality(DOMAIN T) >= MaxKeys
                        THEN {{v} : v \in Limiter!Victims(T, sample)} ELSE {{}} :
             LET kept == Limiter!Without(T, victim)
                 tokens == Limiter!Refilled(kept, k)
                 left == IF tokens < 1 THEN tokens ELSE tokens - 1
             IN /\ buckets' = [j \in DOMAIN kept \cup {k} |->
                                 IF j = k THEN [tokens |-> left, last |-> now] ELSE kept[j]]
                /\ allowed' = [allowed EXCEPT ![k] = IF tokens < 1 THEN @ ELSE Limiter!MinOf(@ + 1, Limiter!Counted)]
                /\ lastTrim' = IF now - lastTrim >= TrimTicks THEN now ELSE lastTrim
                /\ UNCHANGED now
    BY Zenon DEF Limiter!Allow
  <1> DEFINE full == k \notin DOMAIN T /\ Cardinality(DOMAIN T) >= MaxKeys
  <1>3. PICK victim \in IF full THEN {{v} : v \in Limiter!Victims(T, sample)} ELSE {{}} :
             LET kept == Limiter!Without(T, victim)
                 tokens == Limiter!Refilled(kept, k)
                 left == IF tokens < 1 THEN tokens ELSE tokens - 1
             IN /\ buckets' = [j \in DOMAIN kept \cup {k} |->
                                 IF j = k THEN [tokens |-> left, last |-> now] ELSE kept[j]]
                /\ allowed' = [allowed EXCEPT ![k] = IF tokens < 1 THEN @ ELSE Limiter!MinOf(@ + 1, Limiter!Counted)]
                /\ lastTrim' = IF now - lastTrim >= TrimTicks THEN now ELSE lastTrim
                /\ UNCHANGED now
    BY <1>2, LimiterCardinality, Zenon
  <1> DEFINE D == DOMAIN T \ victim
  <1> HIDE DEF T
  <1>4. Limiter!Without(T, victim) = [j \in D |-> buckets[j]]
    BY <1>1, Zenon DEF Limiter!Without
  <1>5. D \subseteq DOMAIN buckets
    BY <1>1, Zenon
  <1>6. AllowKeeps(k, D)
    <2> HIDE DEF D
    <2>1. DOMAIN Limiter!Without(T, victim) = D /\ \A j \in D : Limiter!Without(T, victim)[j] = buckets[j]
      BY <1>4, Zenon
    <2>2. Limiter!Refilled(Limiter!Without(T, victim), k) =
            IF k \in D THEN Limiter!MinOf(Burst, buckets[k].tokens + (now - buckets[k].last) * Rate) ELSE Burst
      BY <2>1, Zenon DEF Limiter!Refilled
    <2> QED
      BY <1>3, <1>5, <2>1, <2>2 DEF AllowKeeps
  <1>7. CASE ~full
    <2>1. D = DOMAIN T
      BY <1>3, <1>7, Zenon
    <2>2. k \in DOMAIN T \/ Cardinality(DOMAIN T) < MaxKeys
      <3>1. IsFiniteSet(DOMAIN T)
        BY <1>1, FS_Subset, Zenon DEF LimiterTypes, LimiterConstants
      <3>2. Cardinality(DOMAIN T) \in Nat
        BY <3>1, FS_CardinalityType, Zenon
      <3> QED
        BY <1>7, <3>2 DEF LimiterConstants
    <2> QED
      BY <1>1, <1>6, <2>1, <2>2
  <1>8. CASE full
    <2>1. PICK v \in Limiter!Victims(T, sample) : victim = {v}
      BY <1>3, <1>8, Zenon
    <2>2. v \in DOMAIN T
      BY <2>1, <1>2, Zenon DEF Limiter!Victims
    <2> QED
      BY <1>1, <1>6, <1>8, <2>1, <2>2
  <1> QED
    BY <1>7, <1>8, Zenon

\* Allow keeps the types.
LEMMA AllowKeepsTypes ==
    ASSUME LimiterConstants, LimiterTypes, NEW k \in LimitKeys, NEW D, AllowKeeps(k, D)
    PROVE  LimiterTypes' /\ DOMAIN buckets' = D \cup {k} /\ \A j \in LimitKeys : allowed[j] <= allowed'[j]
  <1> DEFINE tokens == IF k \in D THEN Limiter!MinOf(Burst, buckets[k].tokens + (now - buckets[k].last) * Rate)
                       ELSE Burst
             left == IF tokens < 1 THEN tokens ELSE tokens - 1
             count == IF tokens < 1 THEN allowed[k] ELSE Limiter!MinOf(allowed[k] + 1, Limiter!Counted)
  <1> USE DEF LimiterConstants, LimiterTypes
  <1>1. tokens \in 0..Burst
    <2>1. CASE k \in D
      <3>1. buckets[k].tokens \in Nat /\ now - buckets[k].last \in Nat
        BY <2>1 DEF AllowKeeps
      <3>2. (now - buckets[k].last) * Rate \in Nat
        BY <3>1
      <3> QED
        BY <2>1, <3>1, <3>2 DEF Limiter!MinOf
    <2> QED
      BY <2>1
  <1>2. tokens < 1 => allowed[k] > 0
    BY DEF AllowKeeps
  <1>3. Rate * MaxLimitTime \in Nat
    OBVIOUS
  <1>4. /\ buckets' = [j \in D \cup {k} |-> IF j = k THEN [tokens |-> left, last |-> now] ELSE buckets[j]]
        /\ allowed' = [allowed EXCEPT ![k] = count]
        /\ D \subseteq DOMAIN buckets /\ lastTrim' \in {lastTrim, now} /\ now' = now
    BY Zenon DEF AllowKeeps
  <1> HIDE DEF tokens
  <1>5. left \in 0..Burst
    BY <1>1
  <1>6. count \in 1..Limiter!Counted /\ allowed[k] <= count
    BY <1>1, <1>2, <1>3 DEF Limiter!MinOf, Limiter!Counted
  <1> HIDE DEF left, count
  <1> QED
    BY <1>4, <1>5, <1>6

\* Allow keeps the table within its limit.
LEMMA TableStep ==
    ASSUME LimiterConstants, LimiterInv, NEW k \in LimitKeys, NEW D, AllowKeeps(k, D),
           k \in D \/ Cardinality(D) < MaxKeys
    PROVE  Cardinality(D \cup {k}) <= MaxKeys
  <1> USE DEF LimiterConstants, LimiterInv, LimiterTypes, AllowKeeps
  <1>1. IsFiniteSet(DOMAIN buckets)
    BY FS_Subset, Zenon
  <1>2. IsFiniteSet(D) /\ Cardinality(D) <= Cardinality(DOMAIN buckets)
    BY <1>1, FS_Subset, Zenon
  <1>3. Cardinality(D) \in Nat /\ Cardinality(DOMAIN buckets) \in Nat
    BY <1>1, <1>2, FS_CardinalityType, Zenon
  <1>4. Cardinality(D \cup {k}) = IF k \in D THEN Cardinality(D) ELSE Cardinality(D) + 1
    BY <1>2, FS_AddElement, Zenon
  <1> QED
    BY <1>2, <1>3, <1>4

\* What a bucket that is dropped for being idle held has returned since.
LEMMA IdleReturned ==
    ASSUME LimiterConstants, LimiterTypes, IdleIsFull, Balanced, NEW j \in LimitKeys,
           j \in DOMAIN buckets => now - buckets[j].last > IdleTicks
    PROVE  allowed[j] <= Rate * now
  <1> USE DEF LimiterConstants, LimiterTypes
  <1>1. CASE j \in DOMAIN buckets
    <2> DEFINE last == buckets[j].last
               total == allowed[j]
    <2>1. last \in Nat /\ total \in Nat /\ buckets[j].tokens \in Nat /\ last + (IdleTicks + 1) <= now
      BY <1>1 DEF Limiter!Counted
    <2>2. total <= Burst + Rate * last
      BY <1>1, <2>1 DEF Balanced
    <2> HIDE DEF last, total
    <2>3. Rate * (last + (IdleTicks + 1)) = Rate * last + Rate * (IdleTicks + 1)
      BY <2>1
    <2> DEFINE later == last + (IdleTicks + 1)
    <2>4. later \in Nat /\ later <= now
      BY <2>1
    <2>6. Rate * later <= Rate * now
      <3> HIDE DEF later
      <3> QED
        BY <2>4, Returned, Zenon
    <2>5. total <= Rate * now
      BY <2>1, <2>2, <2>3, <2>6 DEF IdleIsFull
    <2> QED
      BY <2>5, Zenon DEF total
  <1> QED
    BY <1>1, Zenon DEF Balanced

\* Allow keeps the balance of every key when no bucket in use was evicted.
LEMMA BalancedStep ==
    ASSUME LimiterConstants, LimiterTypes, IdleIsFull, Balanced, NEW k \in LimitKeys, NEW D, AllowKeeps(k, D),
           \A j \in DOMAIN buckets \ D : now - buckets[j].last > IdleTicks
    PROVE  Balanced'
  <1> DEFINE tokens == IF k \in D THEN Limiter!MinOf(Burst, buckets[k].tokens + (now - buckets[k].last) * Rate)
                       ELSE Burst
             left == IF tokens < 1 THEN tokens ELSE tokens - 1
             count == IF tokens < 1 THEN allowed[k] ELSE Limiter!MinOf(allowed[k] + 1, Limiter!Counted)
  <1>1. /\ buckets' = [j \in D \cup {k} |-> IF j = k THEN [tokens |-> left, last |-> now] ELSE buckets[j]]
        /\ allowed' = [allowed EXCEPT ![k] = count]
        /\ D \subseteq DOMAIN buckets /\ now' = now
    BY Zenon DEF AllowKeeps
  <1> USE DEF LimiterConstants, LimiterTypes
  <1>2. allowed[k] + tokens <= Burst + Rate * now /\ tokens \in Nat
    <2>1. CASE k \in D
      <3> DEFINE last == buckets[k].last
                 had == buckets[k].tokens
      <3>1. last \in Nat /\ had \in Nat /\ last <= now /\ allowed[k] \in Nat
        BY <1>1, <2>1 DEF Limiter!Counted
      <3>2. allowed[k] + had <= Burst + Rate * last
        BY <1>1, <2>1, Zenon DEF Balanced
      <3>3. tokens = Limiter!MinOf(Burst, had + (now - last) * Rate)
        BY <2>1, Zenon
      <3> HIDE DEF last, had
      <3>4. Rate * now = Rate * last + (now - last) * Rate
        BY <3>1, Returned, Zenon
      <3>5. (now - last) * Rate \in Nat
        BY <3>1
      <3>6. Rate * now \in Nat /\ Rate * last \in Nat
        BY <3>1
      <3>7. tokens <= had + (now - last) * Rate /\ tokens \in Nat
        BY <3>1, <3>3, <3>5 DEF Limiter!MinOf
      <3> HIDE DEF tokens
      <3> QED
        BY <3>1, <3>2, <3>4, <3>5, <3>6, <3>7, SMTT(40)
    <2>2. CASE k \notin D
      <3>1. allowed[k] <= Rate * now
        BY <2>2, IdleReturned, Zenon
      <3>2. allowed[k] \in Nat /\ Rate * now \in Nat
        BY DEF Limiter!Counted
      <3> QED
        BY <2>2, <3>1, <3>2
    <2> QED
      BY <2>1, <2>2, Zenon
  <1>3. count + left <= allowed[k] + tokens
    <2> HIDE DEF tokens
    <2> QED
      BY <1>2 DEF Limiter!MinOf, Limiter!Counted
  <1>4. count + left <= Burst + Rate * now
    <2>1. Rate * now \in Nat /\ allowed[k] \in Nat
      BY DEF Limiter!Counted
    <2>2. left \in Nat /\ count \in Nat
      <3> HIDE DEF tokens
      <3> QED
        BY <1>2, <2>1 DEF Limiter!MinOf, Limiter!Counted
    <2> HIDE DEF tokens, left, count
    <2> QED
      BY <1>2, <1>3, <2>1, <2>2
  <1>5. \A j \in LimitKeys \ (D \cup {k}) : allowed[j] <= Rate * now
    BY IdleReturned, Zenon
  <1> HIDE DEF tokens, left, count
  <1>6. \A j \in D \ {k} : allowed[j] + buckets[j].tokens <= Burst + Rate * buckets[j].last
    BY <1>1, Zenon DEF Balanced
  <1>7. DOMAIN buckets' = D \cup {k} /\ k \in LimitKeys
    BY <1>1, Zenon
  <1>8. ASSUME NEW j \in D \cup {k}
        PROVE  allowed'[j] + buckets'[j].tokens <= Burst + Rate * buckets'[j].last
    <2>1. CASE j = k
      BY <1>1, <1>4, <2>1, Zenon
    <2>2. CASE j # k
      <3>1. allowed'[j] = allowed[j] /\ buckets'[j] = buckets[j]
        BY <1>1, <2>2, Zenon
      <3> QED
        BY <1>6, <2>2, <3>1, Zenon
    <2> QED
      BY <2>1, <2>2, Zenon
  <1>9. ASSUME NEW j \in LimitKeys \ (D \cup {k}) PROVE allowed'[j] <= Rate * now'
    BY <1>1, <1>5, Zenon
  <1> QED
    BY <1>7, <1>8, <1>9, Zenon DEF Balanced

\* Every step of the limiter keeps the invariant.
LEMMA LimiterStep ==
    ASSUME LimiterConstants, LimiterInv, [Limiter!Next]_(Limiter!vars)
    PROVE  LimiterInv'
  <1> DEFINE asked == Limiter!Asked
  <1>1. LimiterTypes /\ Cardinality(DOMAIN buckets) <= MaxKeys
    BY Zenon DEF LimiterInv
  <1>2. CASE Limiter!Tick
    <2>1. now' = now + 1 /\ UNCHANGED <<buckets, lastTrim, allowed>>
      BY <1>2, Zenon DEF Limiter!Tick
    <2>2. LimiterTypes'
      BY <1>1, <2>1 DEF LimiterTypes
    <2>3. asked' = asked
      BY <2>1, Zenon DEF Limiter!Asked
    <2>4. Balanced => Balanced'
      <3> SUFFICES ASSUME Balanced, NEW k \in LimitKeys \ DOMAIN buckets PROVE allowed[k] <= Rate * (now + 1)
        BY <2>1, Zenon DEF Balanced
      <3>1. allowed[k] \in Nat /\ allowed[k] <= Rate * now /\ now \in Nat /\ Rate \in Nat
        BY <1>1 DEF LimiterTypes, LimiterConstants, Balanced, Limiter!Counted
      <3>2. Rate * now \in Nat /\ Rate * (now + 1) = Rate * now + Rate
        BY <3>1
      <3> QED
        BY <3>1, <3>2
    <2> QED
      BY <1>1, <2>1, <2>2, <2>3, <2>4, Zenon DEF LimiterInv
  <1>3. ASSUME NEW k \in LimitKeys, Limiter!Allow(k) PROVE LimiterInv'
    <2>1. PICK T \in SUBSET DOMAIN buckets :
             /\ \A j \in DOMAIN buckets \ T : now - buckets[j].last > IdleTicks
             /\ \/ (k \in T \/ Cardinality(T) < MaxKeys) /\ AllowKeeps(k, T)
                \/ /\ k \notin T /\ Cardinality(T) >= MaxKeys
                   /\ \E v \in T : AllowKeeps(k, T \ {v})
      BY <1>1, <1>3, AllowCases, Zenon
    <2>2. IsFiniteSet(LimitKeys) /\ IsFiniteSet(T) /\ T \subseteq LimitKeys
      BY <1>1, FS_Subset, Zenon DEF LimiterConstants, LimiterTypes
    <2>3. Cardinality(T) \in Nat /\ MaxKeys \in Nat
      BY <2>2, FS_CardinalityType, Zenon DEF LimiterConstants
    <2>4. CASE (k \in T \/ Cardinality(T) < MaxKeys) /\ AllowKeeps(k, T)
      <3>1. /\ LimiterTypes' /\ DOMAIN buckets' = T \cup {k}
            /\ \A j \in LimitKeys : allowed[j] <= allowed'[j]
        BY <1>1, <2>4, AllowKeepsTypes, Zenon
      <3>2. Cardinality(T \cup {k}) <= MaxKeys
        BY <2>4, TableStep, Zenon
      <3>3. asked \subseteq asked' /\ IsFiniteSet(asked')
        <4>1. asked \subseteq asked'
          BY <1>1, <3>1 DEF Limiter!Asked, LimiterTypes, Limiter!Counted
        <4>2. asked' \subseteq LimitKeys
          BY Zenon DEF Limiter!Asked
        <4> QED
          BY <2>2, <4>1, <4>2, FS_Subset, Zenon
      <3>4. /\ Cardinality(asked) <= Cardinality(asked')
            /\ Cardinality(asked) \in Nat /\ Cardinality(asked') \in Nat
        BY <3>3, FS_Subset, FS_CardinalityType, Zenon
      <3>5. Cardinality(asked') <= MaxKeys => Cardinality(asked) <= MaxKeys
        BY <2>3, <3>4
      <3>6. IdleIsFull /\ Balanced => Balanced'
        BY <1>1, <2>1, <2>4, BalancedStep, Zenon
      <3> QED
        BY <3>1, <3>2, <3>5, <3>6, Zenon DEF LimiterInv
    <2>5. ASSUME k \notin T, Cardinality(T) >= MaxKeys, NEW v \in T, AllowKeeps(k, T \ {v}) PROVE LimiterInv'
      <3>1. /\ LimiterTypes' /\ DOMAIN buckets' = (T \ {v}) \cup {k}
            /\ \A j \in LimitKeys : allowed[j] <= allowed'[j]
        BY <1>1, <2>5, AllowKeepsTypes, Zenon
      <3>2. /\ Cardinality(T) <= MaxKeys
            /\ Cardinality(T \ {v}) = Cardinality(T) - 1 /\ IsFiniteSet(T \ {v})
        <4>1. IsFiniteSet(DOMAIN buckets)
          BY <1>1, <2>2, FS_Subset, Zenon DEF LimiterTypes
        <4>2. Cardinality(T) <= Cardinality(DOMAIN buckets) /\ Cardinality(DOMAIN buckets) \in Nat
          BY <4>1, FS_Subset, FS_CardinalityType, Zenon
        <4>3. Cardinality(T \ {v}) = Cardinality(T) - 1 /\ IsFiniteSet(T \ {v})
          BY <2>2, FS_RemoveElement, Zenon
        <4> QED
          BY <1>1, <2>3, <4>2, <4>3
      <3>3. Cardinality((T \ {v}) \cup {k}) <= MaxKeys
        <4>1. k \notin T \ {v}
          BY <2>5, Zenon
        <4>2. Cardinality((T \ {v}) \cup {k}) = Cardinality(T \ {v}) + 1
          BY <3>2, <4>1, FS_AddElement, Zenon
        <4> QED
          BY <2>3, <3>2, <4>2
      <3>4. T \cup {k} \subseteq asked'
        <4>1. k \in asked'
          BY <3>1, Zenon DEF Limiter!Asked, LimiterTypes
        <4>2. ASSUME NEW j \in T PROVE j \in asked'
          <5>1. j \in LimitKeys /\ allowed[j] \in Nat /\ allowed[j] > 0 /\ allowed'[j] \in Nat /\ allowed[j] <= allowed'[j]
            BY <1>1, <3>1 DEF LimiterTypes, Limiter!Counted
          <5> QED
            BY <5>1 DEF Limiter!Asked
        <4> QED
          BY <4>1, <4>2, Zenon
      <3>5. Cardinality(asked') > MaxKeys
        <4>1. asked' \subseteq LimitKeys
          BY Zenon DEF Limiter!Asked
        <4>2. IsFiniteSet(asked')
          BY <2>2, <4>1, FS_Subset, Zenon
        <4>3. Cardinality(T \cup {k}) <= Cardinality(asked') /\ Cardinality(asked') \in Nat
          BY <3>4, <4>2, FS_Subset, FS_CardinalityType, Zenon
        <4>4. Cardinality(T \cup {k}) = Cardinality(T) + 1
          BY <2>2, <2>5, FS_AddElement, Zenon
        <4> QED
          BY <2>3, <2>5, <4>3, <4>4
      <3>6. ~(Cardinality(asked') <= MaxKeys)
        <4>1. Cardinality(asked') \in Nat
          <5>1. asked' \subseteq LimitKeys
            BY Zenon DEF Limiter!Asked
          <5> QED
            BY <2>2, <5>1, FS_Subset, FS_CardinalityType, Zenon
        <4> QED
          BY <2>3, <3>5, <4>1
      <3> QED
        BY <3>1, <3>3, <3>6, Zenon DEF LimiterInv
    <2> QED
      BY <2>1, <2>4, <2>5, Zenon
  <1>4. CASE UNCHANGED Limiter!vars
    <2>1. UNCHANGED <<now, buckets, lastTrim, allowed>>
      BY <1>4, Zenon DEF Limiter!vars
    <2>2. asked' = asked
      BY <2>1, Zenon DEF Limiter!Asked
    <2> QED
      BY <1>1, <2>1, <2>2, Zenon DEF LimiterInv, LimiterTypes, Balanced
  <1> QED
    BY <1>2, <1>3, <1>4, Zenon DEF Limiter!Next

\* ... which says that the table is bounded and, when an idle bucket is full,
\* that no key is allowed more than its rate.
LEMMA LimiterGoal ==
    ASSUME LimiterConstants, LimiterInv
    PROVE  Limiter!TableBounded /\ (IdleIsFull => Limiter!WithinRate)
  <1>1. Limiter!TableBounded
    BY LimiterCardinality, Zenon DEF LimiterInv, Limiter!TableBounded
  <1>2. ASSUME IdleIsFull, Cardinality(Limiter!Asked) <= MaxKeys, NEW k \in LimitKeys
        PROVE  allowed[k] <= Burst + Rate * now
    <2>1. Balanced /\ LimiterTypes
      BY <1>2, Zenon DEF LimiterInv
    <2>2. Rate * now \in Nat /\ allowed[k] \in Nat /\ Burst \in Nat
      BY <2>1 DEF LimiterTypes, LimiterConstants, Limiter!Counted
    <2>3. CASE k \in DOMAIN buckets
      <3> DEFINE last == buckets[k].last
      <3>1. allowed[k] + buckets[k].tokens <= Burst + Rate * last
        BY <2>1, <2>3, Zenon DEF Balanced
      <3>2. last \in Nat /\ buckets[k].tokens \in Nat /\ last <= now /\ now \in Nat /\ Rate \in Nat
        BY <2>1, <2>3 DEF LimiterTypes, LimiterConstants
      <3>3. Rate * last <= Rate * now /\ Rate * last \in Nat
        BY <3>2, Returned
      <3> QED
        BY <2>2, <3>1, <3>2, <3>3
    <2>4. CASE k \notin DOMAIN buckets
      BY <2>1, <2>2, <2>4 DEF Balanced
    <2> QED
      BY <2>3, <2>4, Zenon
  <1> QED
    BY <1>1, <1>2, LimiterCardinality, Zenon DEF Limiter!WithinRate

(***************************************************************************)
(* The suite: the profile of a behaviour never changes, and a step is one  *)
(* of its component.                                                       *)
(***************************************************************************)
LimiterRuns == profile = "limit" => LimiterInv
EnrolmentRuns == profile = "enrolment" => EnrolInv

\* A step of the suite is a step of the profile's component, or leaves all its
\* variables alone.
LEMMA ComponentStep ==
    ASSUME [ServerNext]_serverVars
    PROVE  /\ profile' = profile
           /\ profile = "enrolment" => [Enrolling!Next]_(Enrolling!vars)
           /\ profile = "limit" => [Limiter!Next]_(Limiter!vars)
  BY Zenon DEF ServerNext, serverVars, enrolVars, limitVars, Enrolling!vars, Limiter!vars

\* Each component starts with its invariant.
LEMMA ComponentStarts == ServerInit => LimiterRuns /\ EnrolmentRuns
  BY ServerConstants, EnrolInit, LimiterInit, Zenon DEF ServerInit, LimiterRuns, EnrolmentRuns

\* An invite registers one user, however the registrations overlap, are
\* repeated or fail, and there are never more users than the limit: the mutex
\* of RegisterUser covers the reads and the commit.
THEOREM RegistrationsExclusive == ServerSpec => []EnrolledOnce
  <1>1. EnrolmentRuns /\ [ServerNext]_serverVars => EnrolmentRuns'
    BY ServerConstants, ComponentStep, EnrolStep, Zenon DEF EnrolmentRuns
  <1>2. EnrolmentRuns => EnrolledOnce
    BY EnrolGoal, Zenon DEF EnrolmentRuns, EnrolledOnce
  <1> QED
    BY <1>1, <1>2, ComponentStarts, PTL DEF ServerSpec

\* However many addresses ask, evictLocked keeps the table of buckets within
\* its limit; and while the table has room for those that ask, none of them is
\* allowed more than its burst and what returned since the start.  The second
\* half presumes that a bucket which may be dropped for being idle is full
\* again (IdleIsFull), which rate_limit.go takes for granted.
THEOREM LimiterSound ==
    ASSUME IdleIsFull
    PROVE  ServerSpec => []WithinRate
  <1>1. LimiterRuns /\ [ServerNext]_serverVars => LimiterRuns'
    BY ServerConstants, ComponentStep, LimiterStep, Zenon DEF LimiterRuns
  <1>2. LimiterRuns => WithinRate
    BY IdleIsFull, ServerConstants, LimiterGoal, Zenon DEF LimiterRuns, WithinRate
  <1> QED
    BY <1>1, <1>2, ComponentStarts, PTL DEF ServerSpec
=============================================================================
