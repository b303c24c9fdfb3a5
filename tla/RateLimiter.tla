----------------------------- MODULE RateLimiter -----------------------------
(***************************************************************************)
(* server/rate_limit.go: token buckets per address or device.  Time is     *)
(* counted in ticks; Rate tokens return per tick, and a bucket idle for    *)
(* more than IdleTicks is trimmed.  A full table drops the least recently  *)
(* used bucket of a random sample.                                         *)
(***************************************************************************)
EXTENDS Naturals, FiniteSets

CONSTANTS Keys, Rate, Burst, MaxKeys, IdleTicks, TrimTicks, MaxTime, SampleSize

VARIABLES now, buckets, \* [keys present -> [tokens, last]]
          lastTrim,
          allowed       \* history: [Keys -> requests allowed so far]

vars == <<now, buckets, lastTrim, allowed>>

MinOf(a, b) == IF a < b THEN a ELSE b

Counted == Burst + Rate * MaxTime + 1  \* the history counts no further

Init == now = 0 /\ buckets = <<>> /\ lastTrim = 0 /\ allowed = [k \in Keys |-> 0]

Without(b, gone) == [k \in DOMAIN b \ gone |-> b[k]]

(* The sweep that Allow makes once a minute. *)
Trimmed ==
  IF now - lastTrim >= TrimTicks
  THEN Without(buckets, {k \in DOMAIN buckets : now - buckets[k].last > IdleTicks})
  ELSE buckets

(* evictLocked: an idle bucket if the sample meets one, else the bucket    *)
(* used least recently among the sample.                                   *)
Victims(b, sample) ==
  {k \in sample : now - b[k].last > IdleTicks \/ \A j \in sample : b[k].last <= b[j].last}

Refilled(b, k) ==
  IF k \in DOMAIN b
  THEN MinOf(Burst, b[k].tokens + (now - b[k].last) * Rate)
  ELSE Burst

(* The time of the last use is kept, so that its refill counts again. *)
AllowKeepsTime(k) ==
  LET tokens == Refilled(Trimmed, k)
      left == IF tokens < 1 THEN tokens ELSE tokens - 1
  IN /\ buckets' = [j \in DOMAIN Trimmed \cup {k} |->
                      IF j # k THEN Trimmed[j]
                      ELSE [tokens |-> left, last |-> IF k \in DOMAIN Trimmed THEN Trimmed[k].last ELSE now]]
     /\ allowed' = [allowed EXCEPT ![k] = IF tokens < 1 THEN @ ELSE MinOf(@ + 1, Counted)]
     /\ UNCHANGED <<now, lastTrim>>

Allow(k) ==
  \E sample \in SUBSET DOMAIN Trimmed :
    /\ Cardinality(sample) = MinOf(SampleSize, Cardinality(DOMAIN Trimmed))
    /\ \E victim \in IF k \notin DOMAIN Trimmed /\ Cardinality(DOMAIN Trimmed) >= MaxKeys
                     THEN {{v} : v \in Victims(Trimmed, sample)} ELSE {{}} :
         LET kept == Without(Trimmed, victim)
             tokens == Refilled(kept, k)
             left == IF tokens < 1 THEN tokens ELSE tokens - 1
         IN /\ buckets' = [j \in DOMAIN kept \cup {k} |->
                             IF j = k THEN [tokens |-> left, last |-> now] ELSE kept[j]]
            /\ allowed' = [allowed EXCEPT ![k] = IF tokens < 1 THEN @ ELSE MinOf(@ + 1, Counted)]
            /\ lastTrim' = IF now - lastTrim >= TrimTicks THEN now ELSE lastTrim
            /\ UNCHANGED now

Tick == now < MaxTime /\ now' = now + 1 /\ UNCHANGED <<buckets, lastTrim, allowed>>

Next == Tick \/ \E k \in Keys : Allow(k)

Spec == Init /\ [][Next]_vars
-----------------------------------------------------------------------------
(* While the table had room for every key that asked, no key was allowed   *)
(* more than the burst and what returned since the start: trimming an idle *)
(* bucket grants nothing it would not have had anyway.                     *)
Asked == {k \in Keys : allowed[k] > 0}
WithinRate ==
  Cardinality(Asked) <= MaxKeys => \A k \in Keys : allowed[k] <= Burst + Rate * now

(* However many addresses ask, the table never holds more than its limit.  *)
TableBounded == Cardinality(DOMAIN buckets) <= MaxKeys
=============================================================================
